----------------------------- MODULE MCLibrary -----------------------------
(* Instances of LibraryManager for TLC.  A name is only ever compared with *)
(* another one, so the names may be exchanged.                             *)
EXTENDS LibraryManager, TLC

Symmetry == Permutations(Names)
=============================================================================
