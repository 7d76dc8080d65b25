---------------------------- MODULE MCRunStore ----------------------------
(* Instances of RunStore for TLC: which processes share the directory.      *)
(* They are interchangeable.                                                *)
EXTENDS RunStore, TLC

CONSTANTS p1, p2, p3

Three == {p1, p2, p3}
AnyOrderOfThree == Permutations(Three)
=============================================================================
