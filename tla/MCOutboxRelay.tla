--------------------------- MODULE MCOutboxRelay ---------------------------
EXTENDS OutboxRelay, TLC

CONSTANTS d1, d2, p1, p2, i1, i2

(* Both documents in one partition, or each in its own.                    *)
SamePartition == [d \in Docs |-> p1]
OwnPartition == (d1 :> p1) @@ (d2 :> p2)

Symmetry == Permutations(Docs)
=============================================================================
