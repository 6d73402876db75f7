---------------------------- MODULE MCMediumLock ----------------------------
EXTENDS MediumLock, TLC

ProgramSymmetry == Permutations(Programs)
=============================================================================
