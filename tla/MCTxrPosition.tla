---------------------------- MODULE MCTxrPosition ----------------------------
(***************************************************************************)
(* TxrPosition with multipliers that differ.                               *)
(*                                                                         *)
(* The third position of the slider is there for the jitter filter, which  *)
(* skips nothing that matters with two.  While one of its samples is of    *)
(* it, nothing has been saved; and while it is, or something has been      *)
(* saved, the wheel stays where the last start found it.                   *)
(***************************************************************************)
EXTENDS TxrPosition

MCMultiplier == [l \in Levers |-> IF l = "free_run_mode" THEN 1 ELSE 2]

ThirdUsed == 2 \in {pot, raw, prev_pos_1, prev_pos_2}

NothingSaved ==
  \A b \in Buttons : kept[b] = 0 /\ saved_positions[b] = 0 /\ eeprom.saved[b] = 0

Bound ==
  /\ ThirdUsed => NothingSaved /\ play_back_target_pos = 0
  /\ ThirdUsed \/ ~NothingSaved => encoder = 0

MCSpec == Init /\ [][Next /\ Bound']_vars

=============================================================================
