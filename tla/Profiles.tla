------------------------------ MODULE Profiles ------------------------------
(***************************************************************************)
(* What the hand unit's settings promise: a profile for each preset, of    *)
(* which the selected one is changed at once, and the others survive       *)
(* whatever happens to the power.                                          *)
(***************************************************************************)
EXTENDS Naturals

CONSTANTS Presets, Fields, Words,
          Default    \* what each field is reset to

VARIABLES
  on,        \* the device runs
  ready,     \* the profiles hold settings
  current,   \* the selected preset
  profile    \* the settings of each preset, as the user sees them

pvars == <<on, ready, current, profile>>

Init ==
  /\ on = FALSE
  /\ ready = FALSE
  /\ current \in Presets
  /\ profile \in [Presets -> [Fields -> Words]]

Start == ~on /\ on' = TRUE /\ UNCHANGED <<ready, current, profile>>

\* Every preset gets the default settings, and the first is selected, at once.
Prepare ==
  /\ on /\ ~ready
  /\ ready' = TRUE
  /\ current' = 0
  /\ profile' = [p \in Presets |-> Default]
  /\ UNCHANGED on

\* A reset to the defaults is ordered; until they are prepared, the settings
\* may be anything.
Wipe == on /\ ready /\ ready' = FALSE /\ UNCHANGED <<on, current, profile>>

Unprepared == ~ready /\ ready' = FALSE

\* One field of the selected preset.
Change ==
  /\ on /\ ready
  /\ \E f \in Fields :
       profile' = [profile EXCEPT ![current][f] = profile'[current][f]]
  /\ UNCHANGED <<on, ready, current>>

Select ==
  /\ on /\ ready
  /\ current' \in Presets
  /\ UNCHANGED <<on, ready, profile>>

\* When the power is lost, or the program is reset, the selected preset may
\* lose its last changes and come back half written; the others do not.
Lose ==
  /\ on /\ ready
  /\ on' = FALSE
  /\ \A p \in Presets \ {current} : profile'[p] = profile[p]
  /\ UNCHANGED <<ready, current>>

Next == Start \/ Prepare \/ Wipe \/ Unprepared \/ Change \/ Select \/ Lose

Spec == Init /\ [][Next]_pvars

=============================================================================
