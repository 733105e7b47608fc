--------------------------- MODULE MCTaskRuntime ---------------------------
(* Instances of TaskRuntime for TLC: goroutines, tasks and requests are      *)
(* interchangeable, so their permutations are symmetries.                    *)
EXTENDS TaskRuntime, TLC

MCSymmetry == Permutations(Tasks) \cup Permutations(Workers) \cup Permutations(Clients)
=============================================================================
