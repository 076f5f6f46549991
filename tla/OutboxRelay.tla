---------------------------- MODULE OutboxRelay ----------------------------
(***************************************************************************)
(* Postgres -> Kafka: the relay threads that drain index_outbox, one per   *)
(* indexer process, and the partition logs of the topic they fill.         *)
(* A relay claims a batch in one transaction (SELECT ... FOR UPDATE SKIP   *)
(* LOCKED, then published_at), commits it, and only then publishes it, one *)
(* event at a time.                                                        *)
(***************************************************************************)
EXTENDS DocumentStore, FiniteSets

CONSTANTS
    Partitions,    \* of the topic (KAFKA_PARTITIONS)
    PartitionOf,   \* Kafka's hash of the record key, the doc_id
    Relays,        \* indexer processes, each with one relay thread
    RelayBatch,    \* the limit of claim_unpublished (100)
    MaxFaults,     \* bound: failing calls in a behaviour
    MaxCrashes     \* bound: dying processes in a behaviour

ASSUME PartitionAssumption == PartitionOf \in [Docs -> Partitions]
ASSUME BatchAssumption == RelayBatch \in Nat \ {0}
ASSUME BudgetAssumption == MaxFaults \in Nat /\ MaxCrashes \in Nat

VARIABLES
    published,   \* the outbox entries whose published_at is set
    relayStep,   \* where each relay thread stands
    claim,       \* the outbox entries each relay has locked, or has to publish
    late,        \* those given up while their records may still arrive
    log,         \* what each partition holds
    faults,      \* calls that have failed so far
    crashes      \* processes that have died so far

relayVars == <<published, relayStep, claim, late, log>>
budgetVars == <<faults, crashes>>

RelayTypeOK ==
    /\ StoreTypeOK
    /\ published \in SUBSET DOMAIN outbox
    /\ relayStep \in [Relays -> {"idle", "selected", "publishing"}]
    /\ claim \in [Relays -> SUBSET DOMAIN outbox]
    /\ \A r \in Relays : relayStep[r] = "idle" <=> claim[r] = {}
    /\ late \in SUBSET DOMAIN outbox
    /\ log \in [Partitions -> Seq(Event)]
    /\ faults \in Nat
    /\ crashes \in Nat

RelayInit ==
    /\ StoreInit
    /\ published = {}
    /\ relayStep = [r \in Relays |-> "idle"]
    /\ claim = [r \in Relays |-> {}]
    /\ late = {}
    /\ log = [p \in Partitions |-> << >>]
    /\ faults = 0
    /\ crashes = 0

(* A call of the code that this model lets fail.                           *)
Fault == faults < MaxFaults /\ faults' = faults + 1

-----------------------------------------------------------------------------
(* Plausible bugs, used only to show that a property can fail.             *)

SkipNoLocks == {}
PublishAnyFirst(r, i) == i \in claim[r]

-----------------------------------------------------------------------------
(* SKIP LOCKED: what the open transactions of concurrent relays hold.      *)
Locked == UNION {claim[r] : r \in {s \in Relays : relayStep[s] = "selected"}}

(* WHERE published_at IS NULL, minus the locked rows.                      *)
Unclaimed == DOMAIN outbox \ (published \cup Locked)

(* ORDER BY seq LIMIT: the oldest of the unclaimed.                        *)
IsBatch(b) ==
    /\ b # {}
    /\ Cardinality(b) <= RelayBatch
    /\ Cardinality(b) = RelayBatch \/ b = Unclaimed
    /\ \A i \in b, j \in Unclaimed \ b : i < j

SelectUnpublished(r) ==
    /\ relayStep[r] = "idle"
    /\ \E b \in SUBSET Unclaimed :
          /\ IsBatch(b)
          /\ claim' = [claim EXCEPT ![r] = b]
    /\ relayStep' = [relayStep EXCEPT ![r] = "selected"]
    /\ UNCHANGED <<published, late, log, budgetVars>>

(* UPDATE ... SET published_at.                                            *)
Stamped(r) == published \cup claim[r]

(* The claim commits before anything of it is published.                   *)
CommitClaim(r) ==
    /\ relayStep[r] = "selected"
    /\ published' = Stamped(r)
    /\ relayStep' = [relayStep EXCEPT ![r] = "publishing"]
    /\ UNCHANGED <<claim, late, log, budgetVars>>

(* `for row in batch`: the rows come in seq order.                         *)
NextInBatch(r, i) == i \in claim[r] /\ \A j \in claim[r] : i <= j

Rest(r, i) == claim[r] \ {i}

Landed(i) ==
    LET p == PartitionOf[outbox[i].doc]
    IN  log' = [log EXCEPT ![p] = Append(@, outbox[i])]

LandedTwice(i) ==
    LET p == PartitionOf[outbox[i].doc]
    IN  log' = [log EXCEPT ![p] = Append(Append(@, outbox[i]), outbox[i])]

(* publish returns: the broker acknowledged the record.  The producer      *)
(* retries and is not idempotent, so a lost acknowledgement may have       *)
(* appended the record twice.                                              *)
Publish(r) ==
    /\ relayStep[r] = "publishing"
    /\ \E i \in claim[r] :
          /\ NextInBatch(r, i)
          /\ \/ Landed(i) /\ UNCHANGED faults
             \/ LandedTwice(i) /\ Fault
          /\ claim' = [claim EXCEPT ![r] = Rest(r, i)]
          /\ relayStep' =
                IF claim[r] = {i} THEN [relayStep EXCEPT ![r] = "idle"]
                                  ELSE relayStep
    /\ UNCHANGED <<published, late, crashes>>

(* What relay r waits for: `.get(timeout=10)` is about this entry.         *)
Unanswered(r) ==
    {i \in claim[r] : relayStep[r] = "publishing" /\ NextInBatch(r, i)}

(* The thread stops where it is.  An open claim rolls back with its        *)
(* connection; a committed one stays stamped.  The record it waited for    *)
(* may never have been sent, or is still in the producer's buffer, or on   *)
(* its way to the broker.                                                  *)
RelayStops(r) ==
    /\ \E sent \in SUBSET Unanswered(r) : late' = late \cup sent
    /\ claim' = [claim EXCEPT ![r] = {}]
    /\ relayStep' = [relayStep EXCEPT ![r] = "idle"]
    /\ UNCHANGED <<published, log>>

(* publish raises, and with it drain_once; loop logs it and goes on: what  *)
(* the batch still held is dropped.                                        *)
PublishRaises(r) ==
    /\ relayStep[r] = "publishing"
    /\ Fault
    /\ RelayStops(r)
    /\ UNCHANGED crashes

(* The producer, which nobody asks any more, brings a record to the topic  *)
(* after all, behind whatever was published meanwhile; when the            *)
(* acknowledgement is lost it will send it again...                        *)
LateLands(i) ==
    /\ i \in late
    /\ Landed(i)
    /\ \/ late' = late \ {i} /\ UNCHANGED faults
       \/ Fault /\ UNCHANGED late
    /\ UNCHANGED <<published, relayStep, claim, crashes>>

(* ...or gives it up.                                                      *)
LateExpires(i) ==
    /\ i \in late
    /\ late' = late \ {i}
    /\ UNCHANGED <<published, relayStep, claim, log, budgetVars>>

LateStep == \E i \in late : LateLands(i) \/ LateExpires(i)

(* claim_unpublished raises (Postgres fails before the commit): the        *)
(* transaction rolls back.                                                 *)
ClaimRaises(r) ==
    /\ relayStep[r] = "selected"
    /\ Fault
    /\ RelayStops(r)
    /\ UNCHANGED crashes

(* The process dies and is restarted (restart: unless-stopped), or is      *)
(* stopped and its daemon threads are cut off after join(timeout=10).      *)
RelayCrash(r) ==
    /\ relayStep[r] # "idle"
    /\ crashes < MaxCrashes
    /\ crashes' = crashes + 1
    /\ RelayStops(r)
    /\ UNCHANGED faults

RelayStep(r) ==
    \/ SelectUnpublished(r)
    \/ CommitClaim(r)
    \/ Publish(r)
    \/ PublishRaises(r)
    \/ ClaimRaises(r)

RelayNext ==
    \/ StoreNext /\ UNCHANGED <<relayVars, budgetVars>>
    \/ \E r \in Relays : RelayStep(r) /\ UNCHANGED storeVars
    \/ \E r \in Relays : RelayCrash(r) /\ UNCHANGED storeVars
    \/ LateStep /\ UNCHANGED storeVars

relayAll == <<storeVars, relayVars, budgetVars>>

RelaySpec == RelayInit /\ [][RelayNext]_relayAll

-----------------------------------------------------------------------------
InLog(e) == \E p \in Partitions : \E k \in DOMAIN log[p] : log[p][k] = e

Held(i) == \E r \in Relays : i \in claim[r]

(* However many relays drain the table, an event reaches the topic once,   *)
(* plus at most one copy per failing call: FOR UPDATE SKIP LOCKED and the  *)
(* stamp that commits before the publish keep two relays apart             *)
(* (claim_unpublished, drain_once).                                        *)
NoEventRelayedTwice ==
    \A i \in DOMAIN outbox :
        LET p == PartitionOf[outbox[i].doc]
        IN  Cardinality({k \in DOMAIN log[p] : log[p][k] = outbox[i]})
              <= (IF i \in published /\ ~Held(i) THEN 1 ELSE 0) + faults

(* "an UPSERT can never overtake the DELETE after it" (drain_once): in the *)
(* topic the events of a document stand in version order.                  *)
LogInVersionOrder ==
    \A p \in Partitions : \A j, k \in DOMAIN log[p] :
        j < k /\ log[p][j].doc = log[p][k].doc => log[p][j].ver <= log[p][k].ver

(* "nothing can be lost here" (relay.py): an entry whose published_at is   *)
(* set is in Kafka, or on its way there, or a relay still holds it.        *)
StampedIsRelayed ==
    \A i \in published : Held(i) \/ i \in late \/ InLog(outbox[i])
=============================================================================
