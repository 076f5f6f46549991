--------------------------- MODULE MCSearchCache ---------------------------
EXTENDS SearchCache, TLC

CONSTANTS acme, globex, q1, q2, p1, p2, w1, w2, w3

OneProcess == [w \in Threads |-> p1]
TwoProcesses == (w1 :> p1) @@ (w2 :> p1) @@ (w3 :> p2)

Symmetry == Permutations(Threads) \cup Permutations(Tenants)
=============================================================================
