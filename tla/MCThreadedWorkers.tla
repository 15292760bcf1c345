-------------------------- MODULE MCThreadedWorkers --------------------------
(* ThreadedWorkers with the symmetry TLC may use in the runs without       *)
(* liveness: tasks are interchangeable.                                    *)
EXTENDS ThreadedWorkers, TLC

TaskSymmetry == Permutations(Tasks)
=============================================================================
