---------------------------- MODULE MCPublication ----------------------------
\* Publication for TLC: identities are interchangeable, numbers are not.
EXTENDS Publication, TLC

IdSymmetry == Permutations(TopologyIds) \cup Permutations(Incarnations)
=============================================================================
