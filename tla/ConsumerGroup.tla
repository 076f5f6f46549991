---------------------------- MODULE ConsumerGroup ----------------------------
(***************************************************************************)
(* The consumers of several indexer processes in one Kafka group.  One of  *)
(* them, the owner, is the consumer of IndexPipeline.  When it has been    *)
(* silent for longer than max_poll_interval_ms the group goes on without   *)
(* it: another member starts at the committed offsets, while the former    *)
(* owner, which notices nothing before its next commit, goes on calling    *)
(* Postgres, S3, Elasticsearch, Redis and Kafka for the rest of its batch. *)
(* A record's key is its document, so members that own different           *)
(* partitions never meet; what matters is who shares a partition, and for  *)
(* that one owner of them all is enough.                                   *)
(***************************************************************************)
EXTENDS IndexPipeline

CONSTANTS
    MaxLosses    \* bound: owners that are too slow, processes that die

ASSUME LossAssumption == MaxLosses \in Nat

VARIABLES
    owner,      \* the member the partitions are assigned to
    former,     \* what the thread of every other member is at
    losses,     \* evictions and deaths so far
    outlived    \* history: documents whose tombstone went before a slow write

memberVars == <<owner, former, losses, outlived>>
groupVars == <<vars, memberVars>>

BusySteps == HandleSteps \cup {"dlq_mark", "dlq_publish", "commit"}

(* `upto` ends the records of the partition in the thread's hand.          *)
Thread == [step : BusySteps \cup {"idle", "dead"}, part : Partitions,
           at : Nat, upto : Nat, attempt : Nat, target : Nat]

NoThread(s) == [step |-> s, part |-> CHOOSE p \in Partitions : TRUE,
                at |-> 0, upto |-> 0, attempt |-> 1, target |-> 0]

(* In the group and without partitions; ended by an exception.             *)
Idle == NoThread("idle")
Ended == NoThread("dead")

fev(m) == log[former[m].part][former[m].at + 1]
fdoc(m) == fev(m).doc

GroupTypeOK ==
    /\ TypeOK
    /\ owner \in Relays
    /\ former \in [Relays -> Thread]
    /\ losses \in 0 .. MaxLosses
    /\ outlived \in SUBSET Docs
    /\ former[owner] = Idle \/ step = "dead"
    /\ \A m \in Relays : former[m].step \in BusySteps \ {"commit"} =>
          former[m].at < former[m].upto /\ former[m].upto <= Len(log[former[m].part])

GroupInit ==
    /\ Init
    /\ owner = Owner
    /\ former = [m \in Relays |-> Idle]
    /\ losses = 0
    /\ outlived = {}

-----------------------------------------------------------------------------
(* Plausible bugs, used only to show that a property can fail.             *)

Unfenced(m) == [committed EXCEPT ![former[m].part] = former[m].upto]
NobodyTakesOver == FALSE
FinishesLate(m) ==
    former' = [former EXCEPT ![m] =
        [@ EXCEPT !.at = former[m].at + 1, !.attempt = 1, !.target = 0,
                  !.step = IF former[m].at < former[m].upto THEN "begin"
                                                            ELSE "commit"]]

-----------------------------------------------------------------------------
(* Who owns the partitions.                                                *)

OwnedBy(n) ==
    /\ owner' = n
    /\ position' = ResumeAt
    /\ done' = ResumeAt
    /\ step' = "poll"
    /\ attempt' = 1
    /\ target' = 0

Loss == losses < MaxLosses /\ losses' = losses + 1

(* The owner's thread as it is now.                                        *)
InHand == [step |-> step, part |-> part, at |-> done[part],
           upto |-> position[part], attempt |-> attempt, target |-> target]

(* The heartbeat thread of a consumer that has not polled in time leaves   *)
(* the group.  Without another member nobody polls any more.               *)
Evict ==
    /\ step \in BusySteps
    /\ Loss
    /\ former' = [former EXCEPT ![owner] = InHand]
    /\ \/ \E n \in Relays \ {owner} : former[n] = Idle /\ OwnedBy(n)
       \/ /\ \A n \in Relays \ {owner} : former[n] # Idle
          /\ step' = "dead"
          /\ UNCHANGED <<owner, position, done, attempt, target>>
    /\ UNCHANGED <<relayAll, committed, part, text, es, dlq, unbumped, outlived>>

CanTakeOver == step = "dead"

(* A thread that has ended does not poll either.                           *)
TakeOver ==
    /\ CanTakeOver
    /\ \E n \in Relays \ {owner} : former[n] = Idle /\ OwnedBy(n)
    /\ former' = [former EXCEPT ![owner] = IF @ = Idle THEN Ended ELSE @]
    /\ UNCHANGED <<relayAll, committed, part, text, es, dlq, unbumped, losses,
                   outlived>>

(* An indexer process dies and is restarted; its consumer joins the group. *)
ProcessDies(m) ==
    /\ m = owner \/ former[m] # Idle \/ relayStep[m] # "idle"
    /\ Loss
    /\ RelayStops(m)
    /\ former' = [former EXCEPT ![m] = Idle]
    /\ IF m = owner
         THEN \E n \in Relays : former'[n] = Idle /\ OwnedBy(n)
         ELSE UNCHANGED <<owner, offsetVars, step, attempt, target>>
    /\ UNCHANGED <<storeVars, budgetVars, committed, part, text, es, dlq, unbumped,
                   outlived>>

-----------------------------------------------------------------------------
(* The former owner: the calls of handle, loop and _dead_letter again.     *)

Goes(m, s) == former' = [former EXCEPT ![m].step = s]

WillWrite(m, s, v) == former' = [former EXCEPT ![m].step = s, ![m].target = v]

Finishes(m) ==
    former' = [former EXCEPT ![m] =
        [@ EXCEPT !.at = former[m].at + 1, !.attempt = 1, !.target = 0,
                  !.step = IF former[m].at + 1 < former[m].upto THEN "begin"
                                                                ELSE "commit"]]

TriesAgain(m) ==
    former' = [former EXCEPT ![m] =
        IF former[m].attempt < MaxAttempts
          THEN [@ EXCEPT !.step = "begin", !.target = 0,
                        !.attempt = former[m].attempt + 1]
          ELSE [@ EXCEPT !.step = "dlq_mark", !.target = 0]]

FormerBegins(m) ==
    /\ former[m].step = "begin"
    /\ LET r == row[fdoc(m)]
       IN  \/ fev(m).op = "DELETE" /\ WillWrite(m, "delete", fev(m).ver)
           \/ /\ fev(m).op = "UPSERT"
              /\ \/ r.status = "DELETED" /\ WillWrite(m, "delete", r.ver)
                 \/ ToIndex(fdoc(m)) /\ WillWrite(m, "body", r.ver)
                 \/ r.status # "DELETED" /\ ~ToIndex(fdoc(m)) /\ Finishes(m)
    /\ UNCHANGED <<row, faults, committed, text, es, dlq, unbumped>>

FormerReadsBody(m) ==
    /\ former[m].step = "body"
    /\ LET d == fdoc(m)
       IN  \/ /\ row[d].body = "inline" \/ d \in text
              /\ Goes(m, "index")
              /\ UNCHANGED text
           \/ /\ row[d].body = "s3" /\ d \notin text
              /\ \/ raw[d] = "text" /\ text' = text \cup {d} /\ Goes(m, "index")
                 \/ raw[d] = "scan" /\ Goes(m, "mark_failed") /\ UNCHANGED text
                 \/ raw[d] = "corrupt" /\ TriesAgain(m) /\ UNCHANGED text
    /\ UNCHANGED <<row, faults, committed, es, dlq, unbumped>>

FormerApplies(m) ==
    /\ \/ /\ former[m].step = "index"
          /\ Apply(fdoc(m), former[m].target, TRUE)
          /\ Goes(m, "mark_live")
       \/ /\ former[m].step = "delete"
          /\ Apply(fdoc(m), former[m].target, FALSE)
          /\ Goes(m, "invalidate")
    /\ UNCHANGED <<row, faults, committed, text, dlq>>

FormerMarks(m) ==
    /\ \/ former[m].step = "mark_live" /\ Mark(fdoc(m), "LIVE") /\ Goes(m, "invalidate")
       \/ former[m].step = "mark_failed" /\ Mark(fdoc(m), "FAILED") /\ Finishes(m)
       \/ former[m].step = "dlq_mark" /\ Mark(fdoc(m), "FAILED") /\ Goes(m, "dlq_publish")
    /\ UNCHANGED <<faults, committed, text, es, dlq, unbumped>>

FormerInvalidates(m) ==
    /\ former[m].step = "invalidate"
    /\ unbumped' = unbumped \ {TenantOf[fdoc(m)]}
    /\ Finishes(m)
    /\ UNCHANGED <<row, faults, committed, text, es, dlq>>

FormerPublishes(m) ==
    /\ former[m].step = "dlq_publish"
    /\ dlq' = dlq \cup {fev(m)}
    /\ Finishes(m)
    /\ UNCHANGED <<row, faults, committed, text, es, unbumped>>

(* A commit by a consumer that is no member changes nothing and raises     *)
(* CommitFailedError, which nothing catches: the thread ends.              *)
Fenced(m) == committed

FormerCommits(m) ==
    /\ former[m].step = "commit"
    /\ committed' = Fenced(m)
    /\ former' = [former EXCEPT ![m] = Ended]
    /\ UNCHANGED <<row, faults, text, es, dlq, unbumped>>

(* The failures of its calls (HandleRaises, ThreadDies), and of poll() in  *)
(* a member without partitions.                                            *)
FormerRaises(m) ==
    /\ Fault
    /\ \/ /\ former[m].step \in HandleSteps
          /\ TriesAgain(m)
          /\ \/ UNCHANGED <<row, dlq>>
             \/ /\ former[m].step = "mark_failed"
                /\ Mark(fdoc(m), "FAILED")
                /\ UNCHANGED dlq
       \/ /\ former[m].step \in {"dlq_mark", "dlq_publish"}
          /\ former' = [former EXCEPT ![m] = Ended]
          /\ \/ UNCHANGED <<row, dlq>>
             \/ /\ former[m].step = "dlq_publish"
                /\ dlq' = dlq \cup {fev(m)}
                /\ UNCHANGED row
       \/ /\ former[m].step = "idle" /\ m # owner
          /\ former' = [former EXCEPT ![m] = Ended]
          /\ UNCHANGED <<row, dlq>>
    /\ UNCHANGED <<committed, text, es, unbumped>>

FormerWorks(m) ==
    /\ \/ FormerBegins(m) \/ FormerReadsBody(m) \/ FormerApplies(m)
       \/ FormerMarks(m) \/ FormerInvalidates(m) \/ FormerPublishes(m)
       \/ FormerCommits(m)
    /\ UNCHANGED <<raw, uploading, outbox, relayVars, crashes, position, done,
                   threadVars, owner, losses, outlived>>

FormerFails(m) ==
    /\ FormerRaises(m)
    /\ UNCHANGED <<raw, uploading, outbox, relayVars, crashes, position, done,
                   threadVars, owner, losses, outlived>>

-----------------------------------------------------------------------------
(* A former owner has found d PENDING and has not indexed it yet.          *)
Extracting(d) ==
    \E m \in Relays : former[m].step \in {"body", "index"} /\ fdoc(m) = d

(* gc_deletes is one minute, while extraction and its retries have         *)
(* max_poll_interval_ms, a quarter of an hour, before the group gives up   *)
(* on the owner, and any time after that.                                  *)
GroupForgets(d) ==
    /\ ForgetTombstone(d)
    /\ outlived' = IF Extracting(d) THEN outlived \cup {d} ELSE outlived
    /\ UNCHANGED <<owner, former, losses>>

GroupNext ==
    \/ StoreNext /\ UNCHANGED <<relayVars, budgetVars, consumerVars, memberVars>>
    \/ \E r \in Relays :
          RelayStep(r) /\ UNCHANGED <<storeVars, consumerVars, memberVars>>
    \/ ConsumerStep /\ UNCHANGED memberVars
    \/ LateStep /\ UNCHANGED <<storeVars, consumerVars, memberVars>>
    \/ \E d \in Docs : GroupForgets(d)
    \/ Evict
    \/ TakeOver
    \/ \E m \in Relays : FormerWorks(m) \/ FormerFails(m) \/ ProcessDies(m)

(* Every thread runs, and the group notices a member that does not poll.   *)
GroupFairness ==
    /\ \A r \in Relays :
          /\ WF_groupVars((SelectUnpublished(r) \/ CommitClaim(r) \/ Publish(r))
                            /\ UNCHANGED <<storeVars, consumerVars, memberVars>>)
          /\ WF_groupVars(FormerWorks(r))
    /\ WF_groupVars(/\ ConsumerWorks
                    /\ UNCHANGED <<raw, uploading, outbox, relayVars, crashes,
                                   memberVars>>)
    /\ WF_groupVars(LateStep /\ UNCHANGED <<storeVars, consumerVars, memberVars>>)
    /\ WF_groupVars(TakeOver)

GroupSpec == GroupInit /\ [][GroupNext]_groupVars /\ GroupFairness

-----------------------------------------------------------------------------
(* Every thread has ended or lost its partitions: nobody reads the topic.  *)
NobodyLeft ==
    step = "dead" /\ \A n \in Relays \ {owner} : former[n] # Idle

(* "A failure is a visible state, not a silent drop" (mark_failed): as     *)
(* long as one consumer is left, calls that fail, retries, dead letters,   *)
(* threads that end, evictions and crashes only delay the moment when a    *)
(* document leaves PENDING, unless the relay lost its event.               *)
EveryPendingSettles ==
    \A d \in Docs :
        row[d].status = "PENDING" ~>
            \/ row[d].status # "PENDING"
            \/ LostByRelay(d, 1)
            \/ []NobodyLeft

(* Every deleted document disappears from the index for good, although     *)
(* former owners go on writing, unless the relay lost the deletion, it was *)
(* dead-lettered, nobody is left, or Elasticsearch forgot the deletion     *)
(* while a former owner was still on its way to index the document         *)
(* (gc_deletes; nothing in elastic.py raises it).                          *)
DeletedDisappears ==
    \A d \in Docs :
        row[d].ver >= 2 ~>
            \/ [](~es[d].present)
            \/ LostByRelay(d, row[d].ver) \/ DeadLettered(d, row[d].ver)
            \/ d \in outlived
            \/ []NobodyLeft

(* The same for the moment of the write: once a deletion has been handled, *)
(* whatever owners and former owners retry or repeat, the document comes   *)
(* back only if Elasticsearch forgot the deletion too early, or it was     *)
(* dead-lettered (handle, _index).                                         *)
ReturnsOnlyIfOutlived ==
    [][\A d \in Docs :
          ~es[d].present /\ es'[d].present =>
              \/ d \in outlived
              \/ \A p \in Partitions : \A k \in 1 .. done[p] :
                    log[p][k].doc = d /\ log[p][k].op = "DELETE" =>
                        log[p][k] \in dlq]_groupVars
=============================================================================
