-------------------------------- MODULE MCSyncpt --------------------------------
(* Instances of Syncpt for TLC: threads and jobs are interchangeable. *)
EXTENDS Syncpt, TLC

Symm == Permutations(Threads) \cup Permutations(Jobs)

================================================================================
