----------------------------- MODULE MCDiskImage ---------------------------
EXTENDS DiskImage, TLC

Symmetry == Permutations(Loops)
=============================================================================
