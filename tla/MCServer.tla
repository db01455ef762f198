------------------------------- MODULE MCServer -------------------------------
(* Two sessions, five descriptors and the pairs 6970, 6972 and 6974, of     *)
(* which another process holds half of the first.                          *)
EXTENDS Server, TLC

MCTaken == {6971}
DescriptorSymmetry == Permutations(Descriptors)
=============================================================================
