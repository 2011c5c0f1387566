--------------------------- MODULE MCMessageMemory ---------------------------
(* DTXMessageMemory with objects that are alike but for their names. *)
EXTENDS DTXMessageMemory, TLC

CONSTANTS o1, o2

TwoObjects == {o1, o2}
Alike == Permutations(TwoObjects)

=============================================================================
