-------------------------------- MODULE MCChannel --------------------------------
(* Channel for TLC: the files are interchangeable *)
EXTENDS Channel, TLC

Symm == Permutations(Users)

================================================================================
