-------------------------- MODULE VersionedReplica --------------------------
(***************************************************************************)
(* What the index promises about the documents table, and all it promises: *)
(* it is a copy that follows, document by document.  The copy of a         *)
(* document only ever moves to a version the table has reached, and only   *)
(* forwards; a document is searchable at its first version alone, every    *)
(* later version being a deletion; and only the version of a deleted       *)
(* document is ever forgotten.  Nothing is said of when the copy moves.    *)
(***************************************************************************)
EXTENDS Naturals

CONSTANT Docs

VARIABLES
    source,    \* the version each document has reached, 0 before it exists
    replica    \* the version of the copy, and whether it can be found

Nothing == [ver |-> 0, present |-> FALSE]

Init ==
    /\ source = [d \in Docs |-> 0]
    /\ replica = [d \in Docs |-> Nothing]

Write(d) ==
    /\ source' = [source EXCEPT ![d] = @ + 1]
    /\ UNCHANGED replica

Follow(d) ==
    \E v \in 1 .. source[d] :
        /\ v > replica[d].ver
        /\ replica' = [replica EXCEPT ![d] = [ver |-> v, present |-> v = 1]]
        /\ UNCHANGED source

Forget(d) ==
    /\ ~replica[d].present
    /\ replica' = [replica EXCEPT ![d].ver = 0]
    /\ UNCHANGED source

Next == \E d \in Docs : Write(d) \/ Follow(d) \/ Forget(d)

Spec == Init /\ [][Next]_<<source, replica>>
=============================================================================
