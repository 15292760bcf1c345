------------------------------- MODULE MCEvents -------------------------------
(* Events with the symmetry TLC may use: the objects are interchangeable,  *)
(* and so are the functions.                                               *)
EXTENDS Events

ReceiverSymmetry == Permutations(Objects) \union Permutations(Functions)
=============================================================================
