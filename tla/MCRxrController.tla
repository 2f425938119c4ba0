-------------------------- MODULE MCRxrController --------------------------
(***************************************************************************)
(* RxrController with small steps, and stores that can be cut inside and   *)
(* outside a step.                                                         *)
(***************************************************************************)
EXTENDS RxrController

MCWide == {8}

\* One step backward and two forward.
MCPositions == {-1, 2}

\* The highest speed, and one that a torn store makes higher still.
MCSpeeds == {3, 9}
MCAccels == {9}

=============================================================================
