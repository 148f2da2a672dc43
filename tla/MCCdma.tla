--------------------------------- MODULE MCCdma ---------------------------------
EXTENDS Cdma, TLC

Symm == Permutations(Clients)

================================================================================
