------------------------------- MODULE MCLog -------------------------------
EXTENDS Log, TLC

Symmetry == Permutations(Log) \cup Permutations(Stream)
=============================================================================
