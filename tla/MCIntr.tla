--------------------------------- MODULE MCIntr ---------------------------------
(* Instances of Intr for TLC: all submit waiters belong to one channel. *)
EXTENDS Intr, TLC

OneChannel == [w \in SubmitWaiters |-> "gr3d"]

Symm == Permutations(SubmitWaiters) \cup Permutations(WakeWaiters)

================================================================================
