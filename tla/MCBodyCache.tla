---------------------------- MODULE MCBodyCache ----------------------------
EXTENDS BodyCache, TLC

Symmetric == Permutations(Url) \cup Permutations(Op)
=============================================================================
