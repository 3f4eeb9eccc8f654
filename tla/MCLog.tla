------------------------------- MODULE MCLog -------------------------------
EXTENDS Log, TLC

Symmetry == Permutations(Procs) \union Permutations(Blocks) \union Permutations(Vals)

BlockSymmetry == Permutations(Blocks)
============================================================================
