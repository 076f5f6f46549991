-------------------------- MODULE MCIndexPipeline --------------------------
EXTENDS IndexPipeline, TLC

CONSTANTS d1, d2, p1, p2, i1, i2, acme, globex

SamePartition == [d \in Docs |-> p1]
OwnPartition == (d1 :> p1) @@ (d2 :> p2)

OneTenant == [d \in Docs |-> acme]
OwnTenant == (d1 :> acme) @@ (d2 :> globex)
=============================================================================
