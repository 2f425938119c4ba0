------------------------------ MODULE MCTxrSave ------------------------------
(***************************************************************************)
(* MCTxr with a history variable: whether the light of the position button *)
(* that flashes does so for a position that was saved.                     *)
(***************************************************************************)
EXTENDS MCTxr

VARIABLE saving

SaveInit == Init /\ saving = FALSE

\* A recall starts the light anew, and FlashDone or a reset ends it; leaving
\* free_run_mode does not.
SaveNext ==
  /\ Next
  /\ saving' = (SavePosition \/ (saving /\ ~(RecallButton \/ FlashDone \/ Reboot)))

SaveSpec == SaveInit /\ [][SaveNext]_<<vars, saving>>

\* ao_Txr.cpp:607: "only save position if finished flashing from previous
\* save": no position is saved while the light of the save before it flashes.
\* (A flash whose timeout is on its way counts as finished.)
SaveAfterFlash ==
  [][SavePosition /\ ~InFlight("FLASH_RATE_SIG") => ~saving]_<<vars, saving>>

=============================================================================
