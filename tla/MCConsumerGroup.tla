---------------------------- MODULE MCConsumerGroup ----------------------------
EXTENDS ConsumerGroup

CONSTANTS d1, d2, p1, i1, i2, acme

OnePartition == [d \in Docs |-> p1]
OneTenant == [d \in Docs |-> acme]
=============================================================================
