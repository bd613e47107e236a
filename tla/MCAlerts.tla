------------------------------ MODULE MCAlerts ------------------------------
(* Two polls that may overlap, a feed of up to two spots, and a clock that *)
(* runs longer than the window of a warning.                               *)
EXTENDS Alerts, TLC

CONSTANTS p1, p2

Symmetry == Permutations({p1, p2})
=============================================================================
