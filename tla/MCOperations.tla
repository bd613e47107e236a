---------------------------- MODULE MCOperations ----------------------------
(* Two requests at a time; two stations, one of them on two bands; a       *)
(* program asks for one or two stations.                                   *)
EXTENDS Operations, TLC

CONSTANTS p1, p2

MCCallOf == [c \in Slots |-> c[1]]
MCSlots == {<<"k1", "20m">>, <<"k1", "40m">>, <<"k2", "20m">>}
MCMinimum == [POTA |-> 2, SOTA |-> 1]
Symmetry == Permutations({p1, p2})
=============================================================================
