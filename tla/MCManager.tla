------------------------------ MODULE MCManager ------------------------------
(* Manager with the symmetry TLC may use: cells are interchangeable.       *)
EXTENDS Manager

CellSymmetry == Permutations(Cells)
=============================================================================
