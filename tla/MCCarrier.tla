----------------------------- MODULE MCCarrier -----------------------------
EXTENDS Carrier

Symmetric == Permutations(Page) \cup Permutations(Fetch)
=============================================================================
