------------------------------- MODULE MCTxr -------------------------------
(***************************************************************************)
(* Txr with times scaled down and one periodic time event.  A position     *)
(* button is held for one sample of the interrupt only: nothing comes of   *)
(* holding it longer.                                                      *)
(***************************************************************************)
EXTENDS Txr

MCPeriodicSigs == {"SEND_TIMEOUT_SIG"}
MCPeriod == [t \in MCPeriodicSigs |-> 2]

Released == Tick /\ fault' = "none" => prev_position_state \cap prev_position_state' = {}

MCFairSpec == Init /\ [][Next /\ Released]_vars /\ Fairness

=============================================================================
