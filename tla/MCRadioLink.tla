----------------------------- MODULE MCRadioLink -----------------------------
(***************************************************************************)
(* RadioLink with a ring of three for the code's sixty-four and one of the *)
(* three settings.                                                         *)
(***************************************************************************)
EXTENDS RadioLink

MCOneSetting == <<"max_speed">>

=============================================================================
