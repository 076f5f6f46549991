--------------------------- MODULE IndexPipeline ---------------------------
(***************************************************************************)
(* The whole way of a document: the API writes row and outbox              *)
(* (DocumentStore), the relay moves outbox entries to Kafka (OutboxRelay), *)
(* and the indexer's consumer thread, modelled here, applies them to       *)
(* Elasticsearch, writes the status back and retires the tenant's cached   *)
(* searches in Redis.  Every action of the consumer is one call it makes:  *)
(* the API, the relay, a failure of the call or the death of the process   *)
(* may come between any two of them.                                       *)
(***************************************************************************)
EXTENDS OutboxRelay, Functions

CONSTANTS
    Owner,         \* the indexer process the partitions are assigned to
    Tenants,
    TenantOf,      \* whose document it is
    MaxPoll,       \* max_poll_records (100)
    MaxAttempts    \* of one record before it is dead-lettered (3)

ASSUME PartitionsAssumption == Partitions # {}
ASSUME OwnerAssumption == Owner \in Relays
ASSUME TenantAssumption == TenantOf \in [Docs -> Tenants]
ASSUME PollAssumption == MaxPoll \in Nat \ {0}
ASSUME AttemptsAssumption == MaxAttempts \in Nat \ {0}

VARIABLES
    position,    \* records of each partition poll() has handed out
    done,        \* records of each partition applied or dead-lettered
    committed,   \* the group's committed offset of each partition
    step,        \* where the consumer thread stands
    part,        \* the partition it works on
    attempt,     \* of the current record
    target,      \* the version it will write to Elasticsearch
    text,        \* documents whose extracted text S3 holds under /text
    es,          \* Elasticsearch: version and presence, under versioning
    dlq,         \* the dead-letter topic
    unbumped     \* tenants whose index changed since their last INCR

consumerVars == <<position, done, committed, step, part, attempt, target,
                  text, es, dlq, unbumped>>
vars == <<relayAll, consumerVars>>

HandleSteps == {"begin", "body", "index", "mark_live", "delete", "invalidate",
                "mark_failed"}
Steps == HandleSteps \cup {"poll", "next", "commit", "dlq_mark", "dlq_publish",
                           "dead"}

TypeOK ==
    /\ RelayTypeOK
    /\ position \in [Partitions -> Nat]
    /\ done \in [Partitions -> Nat]
    /\ committed \in [Partitions -> Nat]
    /\ step \in Steps
    /\ part \in Partitions
    /\ attempt \in Nat
    /\ target \in Nat
    /\ text \in SUBSET Docs
    /\ es \in [Docs -> [ver : Nat, present : BOOLEAN]]
    /\ dlq \in SUBSET Event
    /\ unbumped \in SUBSET Tenants

Init ==
    /\ RelayInit
    /\ position = [p \in Partitions |-> 0]
    /\ done = [p \in Partitions |-> 0]
    /\ committed = [p \in Partitions |-> 0]
    /\ step = "poll"
    /\ part = CHOOSE p \in Partitions : TRUE
    /\ attempt = 1
    /\ target = 0
    /\ text = {}
    /\ es = [d \in Docs |-> [ver |-> 0, present |-> FALSE]]
    /\ dlq = {}
    /\ unbumped = {}

(* The record the thread works on, and its document.                       *)
ev == log[part][done[part] + 1]
doc == ev.doc

offsetVars == <<position, done, committed>>
threadVars == <<step, part, attempt, target>>

GoTo(s) == step' = s /\ UNCHANGED <<part, attempt, target>>

-----------------------------------------------------------------------------
(* Plausible bugs, used only to show that a property can fail.             *)

LiveFirst == "mark_live"
ResumeAtPosition == position
NotDeletedIsEnough(d) == row[d].status \notin {"DELETED", "ABSENT"}
AnyVersionWins(d, v) == TRUE
NoTextBack == text
NoBump == unbumped
BumpWrongKey == unbumped \cup {doc}
NothingToDlq == dlq

-----------------------------------------------------------------------------
(* loop: one poll, then record by record.                                  *)

(* poll() hands out up to max_poll_records, of any of the partitions.      *)
Poll ==
    /\ step = "poll"
    /\ \E got \in [Partitions -> 0 .. MaxPoll] :
          /\ \A p \in Partitions : position[p] + got[p] <= Len(log[p])
          /\ \E p \in Partitions : got[p] > 0
          /\ SumFunction(got) <= MaxPoll
          /\ position' = [p \in Partitions |-> position[p] + got[p]]
    /\ GoTo("next")
    /\ UNCHANGED <<done, committed, text, es, dlq, unbumped, row, faults>>

(* `for _tp, records in ...items()`: the partitions in any order.          *)
NextPartition ==
    /\ step = "next"
    /\ \E p \in Partitions : done[p] < position[p] /\ part' = p
    /\ step' = "begin"
    /\ UNCHANGED <<attempt, target, offsetVars, text, es, dlq, unbumped, row,
                   faults>>

(* handle() returned, or the record is in the dead-letter topic.           *)
FinishRecord ==
    /\ done' = [done EXCEPT ![part] = @ + 1]
    /\ step' = IF done[part] + 1 < position[part] THEN "begin" ELSE "commit"
    /\ attempt' = 1
    /\ target' = 0
    /\ UNCHANGED <<part, position, committed>>

(* consumer.commit(), without arguments and inside the loop over the       *)
(* partitions: the position of EVERY partition is committed.               *)
CommitOffsets == position

AfterCommit ==
    IF \E p \in Partitions : done[p] < position[p] THEN "next" ELSE "poll"

Commit ==
    /\ step = "commit"
    /\ committed' = CommitOffsets
    /\ GoTo(AfterCommit)
    /\ UNCHANGED <<position, done, text, es, dlq, unbumped, row, faults>>

(* An exception leaves handle(): try the record again from the start, or   *)
(* dead-letter it.                                                         *)
Retry ==
    /\ IF attempt < MaxAttempts
         THEN attempt' = attempt + 1 /\ step' = "begin"
         ELSE attempt' = attempt /\ step' = "dlq_mark"
    /\ target' = 0
    /\ UNCHANGED part

-----------------------------------------------------------------------------
(* handle                                                                  *)

(* A DELETE event is applied without reading the row.                      *)
BeginDelete ==
    /\ step = "begin"
    /\ ev.op = "DELETE"
    /\ target' = ev.ver
    /\ step' = "delete"
    /\ UNCHANGED <<part, attempt, offsetVars, text, es, dlq, unbumped, row, faults>>

(* "act on PENDING and nothing else"                                       *)
ToIndex(d) == row[d].status = "PENDING"

(* An UPSERT event reads the row and follows its status.                   *)
Load ==
    /\ step = "begin"
    /\ ev.op = "UPSERT"
    /\ \/ /\ row[doc].status = "DELETED"
          /\ target' = row[doc].ver
          /\ step' = "delete"
          /\ UNCHANGED <<part, attempt, offsetVars>>
       \/ /\ ToIndex(doc)
          /\ target' = row[doc].ver
          /\ step' = "body"
          /\ UNCHANGED <<part, attempt, offsetVars>>
       \/ /\ row[doc].status # "DELETED" /\ ~ToIndex(doc)
          /\ FinishRecord
    /\ UNCHANGED <<text, es, dlq, unbumped, row, faults>>

(* _body_for: the inline body, the text extracted before, or the raw bytes *)
(* extracted now, in which case the text is put under /text.               *)
TextPut == text \cup {doc}

AfterBody == "index"

BodyFor ==
    /\ step = "body"
    /\ \/ /\ row[doc].body = "inline" \/ doc \in text
          /\ GoTo(AfterBody)
          /\ UNCHANGED text
       \/ /\ row[doc].body = "s3" /\ doc \notin text
          /\ \/ raw[doc] = "text" /\ text' = TextPut /\ GoTo(AfterBody)
             \/ raw[doc] = "scan" /\ GoTo("mark_failed") /\ UNCHANGED text
             \/ raw[doc] = "corrupt" /\ Retry /\ UNCHANGED text
    /\ UNCHANGED <<offsetVars, es, dlq, unbumped, row, faults>>

(* mark: UPDATE documents SET status, whatever the row says by now.        *)
Mark(d, status) == row' = [row EXCEPT ![d].status = status]

MarkFailed ==
    /\ step = "mark_failed"
    /\ Mark(doc, "FAILED")
    /\ FinishRecord
    /\ UNCHANGED <<text, es, dlq, unbumped, faults>>

(* Elasticsearch, version_type=external: only a newer version is applied;  *)
(* ConflictError and NotFoundError are swallowed.                          *)
Newer(d, v) == v > es[d].ver

Apply(d, v, present) ==
    IF Newer(d, v)
      THEN /\ es' = [es EXCEPT ![d] = [ver |-> v, present |-> present]]
           /\ unbumped' =
                IF present \/ es[d].present THEN unbumped \cup {TenantOf[d]}
                                            ELSE unbumped
      ELSE UNCHANGED <<es, unbumped>>

Index ==
    /\ step = "index"
    /\ Apply(doc, target, TRUE)
    /\ GoTo("mark_live")
    /\ UNCHANGED <<offsetVars, text, dlq, row, faults>>

MarkLive ==
    /\ step = "mark_live"
    /\ Mark(doc, "LIVE")
    /\ GoTo("invalidate")
    /\ UNCHANGED <<offsetVars, text, es, dlq, unbumped, faults>>

Delete ==
    /\ step = "delete"
    /\ Apply(doc, target, FALSE)
    /\ GoTo("invalidate")
    /\ UNCHANGED <<offsetVars, text, dlq, row, faults>>

(* _invalidate: INCR of the tenant's cache version.                        *)
Bumped == unbumped \ {TenantOf[doc]}

Invalidate ==
    /\ step = "invalidate"
    /\ unbumped' = Bumped
    /\ FinishRecord
    /\ UNCHANGED <<text, es, dlq, row, faults>>

(* Any call of handle may raise, and its effect may have landed all the    *)
(* same.  (For a call before the last one that is a failure of the next.)  *)
HandleRaises ==
    /\ step \in HandleSteps
    /\ Fault
    /\ Retry
    /\ \/ UNCHANGED <<unbumped, row>>
       \/ step = "invalidate" /\ unbumped' = Bumped /\ UNCHANGED row
       \/ step = "mark_failed" /\ Mark(doc, "FAILED") /\ UNCHANGED unbumped
    /\ UNCHANGED <<offsetVars, text, es, dlq>>

-----------------------------------------------------------------------------
(* _dead_letter                                                            *)

DeadLetterMark ==
    /\ step = "dlq_mark"
    /\ Mark(doc, "FAILED")
    /\ GoTo("dlq_publish")
    /\ UNCHANGED <<offsetVars, text, es, dlq, unbumped, faults>>

ToDlq == dlq \cup {ev}

DeadLetterPublish ==
    /\ step = "dlq_publish"
    /\ dlq' = ToDlq
    /\ FinishRecord
    /\ UNCHANGED <<text, es, unbumped, row, faults>>

(* Nothing catches what joining the group, poll(), mark_failed, the        *)
(* publish or commit() raises: the consumer thread ends, while the         *)
(* process, waiting for a signal, lives on.  The publish or the commit may *)
(* have landed.                                                            *)
ThreadDies ==
    /\ step \in {"poll", "dlq_mark", "dlq_publish", "commit"}
    /\ Fault
    /\ \/ UNCHANGED <<dlq, committed>>
       \/ step = "dlq_publish" /\ dlq' = ToDlq /\ UNCHANGED committed
       \/ step = "commit" /\ committed' = CommitOffsets /\ UNCHANGED dlq
    /\ GoTo("dead")
    /\ UNCHANGED <<position, done, text, es, unbumped, row>>

-----------------------------------------------------------------------------
(* index.gc_deletes: Elasticsearch forgets the version of a deleted id.    *)
ForgetTombstone(d) ==
    /\ ~es[d].present
    /\ es[d].ver > 0
    /\ es' = [es EXCEPT ![d].ver = 0]
    /\ UNCHANGED <<relayAll, offsetVars, threadVars, text, dlq, unbumped>>

(* Where a consumer that (re)joins the group starts to read.               *)
ResumeAt == committed

(* The indexer process dies, its relay and its consumer with it, and is    *)
(* restarted.                                                              *)
IndexerCrash ==
    /\ crashes < MaxCrashes
    /\ crashes' = crashes + 1
    /\ RelayStops(Owner)
    /\ position' = ResumeAt
    /\ done' = ResumeAt
    /\ step' = "poll"
    /\ attempt' = 1
    /\ target' = 0
    /\ UNCHANGED <<storeVars, faults, committed, part, text, es, dlq, unbumped>>

ConsumerWorks ==
    \/ Poll \/ NextPartition \/ BeginDelete \/ Load \/ BodyFor \/ Index
    \/ MarkLive \/ Delete \/ Invalidate \/ MarkFailed \/ DeadLetterMark
    \/ DeadLetterPublish \/ Commit

ConsumerStep ==
    /\ ConsumerWorks \/ HandleRaises \/ ThreadDies
    /\ UNCHANGED <<raw, uploading, outbox, relayVars, crashes>>

Next ==
    \/ StoreNext /\ UNCHANGED <<relayVars, budgetVars, consumerVars>>
    \/ \E r \in Relays : RelayStep(r) /\ UNCHANGED <<storeVars, consumerVars>>
    \/ \E r \in Relays \ {Owner} :
          RelayCrash(r) /\ UNCHANGED <<storeVars, consumerVars>>
    \/ LateStep /\ UNCHANGED <<storeVars, consumerVars>>
    \/ ConsumerStep
    \/ \E d \in Docs : ForgetTombstone(d)
    \/ IndexerCrash

(* The relay threads and the consumer thread run for ever, and a producer  *)
(* keeps no record for ever; nothing makes users act, calls fail or        *)
(* processes die.                                                          *)
Fairness ==
    /\ \A r \in Relays :
          WF_vars((SelectUnpublished(r) \/ CommitClaim(r) \/ Publish(r))
                    /\ UNCHANGED <<storeVars, consumerVars>>)
    /\ WF_vars(LateStep /\ UNCHANGED <<storeVars, consumerVars>>)
    /\ WF_vars(ConsumerWorks /\ UNCHANGED <<raw, uploading, outbox, relayVars, crashes>>)

Spec == Init /\ [][Next]_vars /\ Fairness

-----------------------------------------------------------------------------
(* The event of version v of document d...                                 *)
IsEvent(e, d, v) == e.doc = d /\ e.ver = v

(* ...waits in the outbox, is held by a relay or still in a producer's     *)
(* buffer, or stands in the topic before the consumer's cursor;            *)
OnItsWay(d, v) ==
    \/ \E i \in DOMAIN outbox :
          /\ IsEvent(outbox[i], d, v)
          /\ i \notin published \/ Held(i) \/ i \in late
    \/ \E p \in Partitions : \E k \in DOMAIN log[p] :
          k > done[p] /\ IsEvent(log[p][k], d, v)

(* was stamped by a relay that never brought it to the topic;              *)
LostByRelay(d, v) ==
    \E i \in published :
        /\ IsEvent(outbox[i], d, v)
        /\ ~Held(i) /\ i \notin late /\ ~InLog(outbox[i])

(* or was given up.                                                        *)
DeadLettered(d, v) == \E e \in dlq : IsEvent(e, d, v)

(* A deleted document that searches still find is owed a deletion: the     *)
(* event of its latest version is on its way, unless the relay lost it or  *)
(* it was dead-lettered.  Relates rows, outbox, claims, topic, cursor and  *)
(* index (soft_delete, drain_once, handle).                                *)
StaleCopyIsOwed ==
    \A d \in Docs :
        /\ es[d].present
        /\ row[d].status = "DELETED" \/ row[d].ver > es[d].ver
        =>  \/ OnItsWay(d, row[d].ver)
            \/ LostByRelay(d, row[d].ver)
            \/ DeadLettered(d, row[d].ver)

(* "status is LIVE - Elasticsearch has it" (build_progress), for every     *)
(* document nobody has deleted.                                            *)
LiveIsSearchable ==
    \A d \in Docs :
        row[d].status = "LIVE" /\ row[d].ver = 1 =>
            es[d] = [ver |-> 1, present |-> TRUE]

(* The same sentence for every document: a user who reads LIVE can find    *)
(* it.  Deleting a document while it is being indexed refutes it.          *)
LiveMeansSearchable ==
    \A d \in Docs : row[d].status = "LIVE" => es[d].present

(* "applied or dead-lettered" (loop), for what failed: a document nobody   *)
(* deleted is FAILED only when its content cannot be extracted, or its     *)
(* event was dead-lettered or still has to be (mark_failed, _dead_letter). *)
(* A process that dies between mark_failed and the publish to the          *)
(* dead-letter topic refutes it...                                         *)
FailureIsLettered ==
    \A d \in Docs :
        row[d].status = "FAILED" /\ row[d].ver = 1 =>
            raw[d] = "scan" \/ DeadLettered(d, 1) \/ OnItsWay(d, 1)

(* ...and nothing else does, however many calls fail.                      *)
FailureIsExplained == crashes = 0 => FailureIsLettered

(* The committed offset covers only records applied or dead-lettered       *)
(* ("only after the batch is applied or dead-lettered", loop).             *)
CommittedIsHandled ==
    \A p \in Partitions : committed[p] <= done[p]

(* Every change of the index is followed by an INCR of its tenant's cache  *)
(* version before the consumer turns to another record (_invalidate).      *)
CachedSearchesRetired ==
    \A t \in unbumped :
        step \in HandleSteps \cup {"dlq_mark", "dlq_publish"} /\ TenantOf[doc] = t

(* What was extracted once need not be extracted again: every searchable   *)
(* document with an object has its text in S3 (_body_for).                 *)
ReindexFindsText ==
    \A d \in Docs : es[d].present /\ row[d].body = "s3" => d \in text

(* Once the consumer has handled the deletion of a document, no record,    *)
(* retry or redelivery makes it findable again, not even after             *)
(* Elasticsearch forgot the deletion (handle re-reads the row).            *)
NoResurrection ==
    [][\A d \in Docs :
          ~es[d].present /\ es'[d].present =>
              \A p \in Partitions : \A k \in 1 .. done[p] :
                  ~(log[p][k].doc = d /\ log[p][k].op = "DELETE")]_vars

(* The index implements the promise of VersionedReplica.                   *)
Promise == INSTANCE VersionedReplica
             WITH source <- [d \in Docs |-> row[d].ver], replica <- es
ImplementsReplica == Promise!Spec

(* "A failure is a visible state, not a silent drop" (mark_failed): every  *)
(* document leaves PENDING, unless the relay lost its event.               *)
NothingPendingForever ==
    \A d \in Docs :
        row[d].status = "PENDING" ~>
            row[d].status # "PENDING" \/ LostByRelay(d, 1)
=============================================================================
