------------------------ MODULE IndexPipeline_proofs ------------------------
(***************************************************************************)
(* Theorems about IndexPipeline, for any number of documents, partitions   *)
(* and indexers, and any bounds on attempts, failures and crashes.         *)
(***************************************************************************)
EXTENDS IndexPipeline, FiniteSetTheorems, TLAPS

-----------------------------------------------------------------------------
(* Types, and the cursors without which the record at hand is undefined.   *)

Busy == HandleSteps \cup {"dlq_mark", "dlq_publish"}

CursorsOK ==
    /\ \A p \in Partitions : /\ committed[p] <= position[p]
                             /\ done[p] <= position[p]
                             /\ position[p] <= Len(log[p])
    /\ step \in Busy => done[part] < position[part]

TypeInv == TypeOK /\ CursorsOK

(* Nothing exists yet.                                                     *)
LEMMA InitTypeInv == Init => TypeInv
<1> SUFFICES ASSUME Init PROVE TypeInv
    OBVIOUS
<1> USE DEF Init, RelayInit, StoreInit
<1>1. StoreTypeOK
      BY DEF StoreTypeOK, Row, NoRow, Statuses, Event, AllContents
<1>2. RelayTypeOK
      BY <1>1 DEF RelayTypeOK
<1>3. part \in Partitions
      BY PartitionsAssumption
<1>4. TypeOK
      BY <1>2, <1>3 DEF TypeOK, Steps
<1>5. CursorsOK
      BY DEF CursorsOK, Busy, HandleSteps
<1>6. QED
      BY <1>4, <1>5 DEF TypeInv

(* Append keeps what is there and adds one entry at the end.               *)
LEMMA AppendFacts ==
    ASSUME NEW S, NEW s \in Seq(S), NEW e \in S
    PROVE  /\ Append(s, e) \in Seq(S)
           /\ Len(Append(s, e)) = Len(s) + 1
           /\ DOMAIN s = 1 .. Len(s)
           /\ DOMAIN Append(s, e) = 1 .. Len(s) + 1
           /\ \A i \in 1 .. Len(s) : Append(s, e)[i] = s[i]
           /\ Append(s, e)[Len(s) + 1] = e
    OBVIOUS

(* The two transactions that write a row add one event to the outbox.      *)
LEMMA OutboxGrows ==
    ASSUME StoreTypeOK, NEW e \in Event, outbox' = Append(outbox, e)
    PROVE  outbox' \in Seq(Event) /\ DOMAIN outbox \subseteq DOMAIN outbox'
    BY AppendFacts DEF StoreTypeOK

LEMMA StoreTypes ==
    ASSUME StoreTypeOK, StoreNext
    PROVE  StoreTypeOK' /\ DOMAIN outbox \subseteq DOMAIN outbox'
<1> USE DEF StoreTypeOK
<1>1. ASSUME NEW d \in Docs, NEW body \in {"inline", "s3"},
             CreateWithOutbox(d, body)
      PROVE  row' \in [Docs -> Row] /\ outbox' \in Seq(Event)
             /\ DOMAIN outbox \subseteq DOMAIN outbox'
  <2>1. [doc |-> d, op |-> "UPSERT", ver |-> 1] \in Event
        BY DEF Event
  <2>2. [status |-> "PENDING", ver |-> 1, body |-> body] \in Row
        BY <1>1 DEF Row, Statuses
  <2>3. QED
        BY <1>1, <2>1, <2>2, OutboxGrows DEF CreateWithOutbox
<1>2. ASSUME NEW d \in Docs, IndexInline(d)
      PROVE  StoreTypeOK' /\ DOMAIN outbox \subseteq DOMAIN outbox'
      BY <1>1, <1>2 DEF IndexInline
<1>3. ASSUME NEW d \in Docs, PutRaw(d)
      PROVE  StoreTypeOK' /\ DOMAIN outbox \subseteq DOMAIN outbox'
      BY <1>3, ContentsAssumption DEF PutRaw
<1>4. ASSUME NEW d \in Docs, InsertRow(d)
      PROVE  StoreTypeOK' /\ DOMAIN outbox \subseteq DOMAIN outbox'
      BY <1>1, <1>4 DEF InsertRow
<1>5. ASSUME NEW d \in Docs, UploadAborts(d)
      PROVE  StoreTypeOK' /\ DOMAIN outbox \subseteq DOMAIN outbox'
      BY <1>5 DEF UploadAborts
<1>6. ASSUME NEW d \in Docs, SoftDelete(d)
      PROVE  StoreTypeOK' /\ DOMAIN outbox \subseteq DOMAIN outbox'
  <2>1. [doc |-> d, op |-> "DELETE", ver |-> row[d].ver + 1] \in Event
        BY DEF Event, Row
  <2>2. row' \in [Docs -> Row]
        BY <1>6 DEF SoftDelete, DeleteWithOutbox, Row, Statuses
  <2>3. QED
        BY <1>6, <2>1, <2>2, OutboxGrows DEF SoftDelete, DeleteWithOutbox
<1>7. QED
      BY <1>2, <1>3, <1>4, <1>5, <1>6 DEF StoreNext

LEMMA StoreKeepsTypeInv ==
    ASSUME TypeInv, StoreNext, UNCHANGED <<relayVars, budgetVars, consumerVars>>
    PROVE  TypeInv'
<1>1. StoreTypeOK' /\ DOMAIN outbox \subseteq DOMAIN outbox'
      BY StoreTypes DEF TypeInv, TypeOK, RelayTypeOK
<1>2. TypeOK'
      BY <1>1 DEF TypeInv, TypeOK, RelayTypeOK, relayVars, budgetVars, consumerVars
<1>3. CursorsOK'
      BY DEF TypeInv, CursorsOK, relayVars, consumerVars
<1>4. QED
      BY <1>2, <1>3 DEF TypeInv

(* A record published lands at the end of its partition, or not at all.    *)
LEMMA LandedFacts ==
    ASSUME RelayTypeOK, NEW i \in DOMAIN outbox, Landed(i) \/ LandedTwice(i)
    PROVE  /\ log' \in [Partitions -> Seq(Event)]
           /\ \A p \in Partitions :
                 /\ Len(log[p]) <= Len(log'[p])
                 /\ \A k \in 1 .. Len(log[p]) : log'[p][k] = log[p][k]
                 /\ \A k \in 1 .. Len(log'[p]) :
                       k > Len(log[p]) => log'[p][k] = outbox[i]
<1> DEFINE q == PartitionOf[outbox[i].doc]
           one == Append(log[q], outbox[i])
<1>1. outbox[i] \in Event
      BY DEF RelayTypeOK, StoreTypeOK
<1>2. q \in Partitions
      BY <1>1, PartitionAssumption DEF Event
<1>3. log[q] \in Seq(Event)
      BY <1>2 DEF RelayTypeOK
<1>4. /\ one \in Seq(Event)
      /\ Append(one, outbox[i]) \in Seq(Event)
      /\ Len(one) = Len(log[q]) + 1
      /\ Len(Append(one, outbox[i])) = Len(log[q]) + 2
      BY <1>1, <1>3, AppendFacts
<1>5. /\ \A k \in 1 .. Len(log[q]) :
            one[k] = log[q][k] /\ Append(one, outbox[i])[k] = log[q][k]
      /\ one[Len(log[q]) + 1] = outbox[i]
      /\ Append(one, outbox[i])[Len(log[q]) + 1] = outbox[i]
      /\ Append(one, outbox[i])[Len(log[q]) + 2] = outbox[i]
      BY <1>1, <1>3, <1>4, AppendFacts
<1>6. \A p \in Partitions : Len(log[p]) \in Nat
      BY DEF RelayTypeOK
<1> DEFINE Longer(new) ==
             /\ log' = [log EXCEPT ![q] = new]
             /\ new \in Seq(Event)
             /\ Len(log[q]) <= Len(new)
             /\ \A k \in 1 .. Len(log[q]) : new[k] = log[q][k]
             /\ \A k \in 1 .. Len(new) : k > Len(log[q]) => new[k] = outbox[i]
<1>7. ASSUME NEW new, Longer(new)
      PROVE  /\ log' \in [Partitions -> Seq(Event)]
             /\ \A p \in Partitions :
                   /\ Len(log[p]) <= Len(log'[p])
                   /\ \A k \in 1 .. Len(log[p]) : log'[p][k] = log[p][k]
                   /\ \A k \in 1 .. Len(log'[p]) :
                         k > Len(log[p]) => log'[p][k] = outbox[i]
      BY <1>7, <1>2, <1>6 DEF RelayTypeOK
<1>8. CASE Landed(i)
  <2>1. Longer(one)
        BY <1>8, <1>2, <1>4, <1>5, <1>6 DEF Landed
  <2>2. QED
        BY <2>1, <1>7
<1>9. CASE LandedTwice(i)
  <2>1. Longer(Append(one, outbox[i]))
    <3> DEFINE two == Append(one, outbox[i])
               n == Len(log[q])
    <3>1. n \in Nat /\ Len(two) = n + 2
          BY <1>2, <1>4, <1>6
    <3>2. \A k \in 1 .. Len(two) : k > n => k \in {n + 1, n + 2}
          BY <3>1
    <3>3. two[n + 1] = outbox[i] /\ two[n + 2] = outbox[i]
          BY <1>5
    <3>4. \A k \in 1 .. Len(two) : k > n => two[k] = outbox[i]
          BY <3>2, <3>3
    <3>5. log' = [log EXCEPT ![q] = two]
          BY <1>9 DEF LandedTwice
    <3>6. Len(log[q]) <= Len(two)
          BY <3>1
    <3>7. two \in Seq(Event) /\ \A k \in 1 .. Len(log[q]) : two[k] = log[q][k]
          BY <1>4, <1>5
    <3>8. Longer(two)
      <4> HIDE DEF two
      <4> QED
          BY <3>4, <3>5, <3>6, <3>7
    <3>9. QED
          BY <3>8
  <2>2. QED
        BY <2>1, <1>7
<1>10. QED
      BY <1>8, <1>9

(* What any step does to the topic: the records stay, and those added are  *)
(* entries of the outbox.                                                  *)
LogGrows ==
    \A p \in Partitions :
        /\ Len(log[p]) <= Len(log'[p])
        /\ \A k \in 1 .. Len(log[p]) : log'[p][k] = log[p][k]
        /\ \A k \in 1 .. Len(log'[p]) :
              k > Len(log[p]) => \E i \in DOMAIN outbox : log'[p][k] = outbox[i]

LEMMA SameLogGrows ==
    ASSUME RelayTypeOK, UNCHANGED log
    PROVE  LogGrows
    BY DEF RelayTypeOK, LogGrows

LEMMA StopTypes ==
    ASSUME RelayTypeOK, NEW r \in Relays, RelayStops(r), UNCHANGED storeVars,
           faults' \in Nat, crashes' \in Nat
    PROVE  RelayTypeOK' /\ LogGrows
<1>1. StoreTypeOK' /\ outbox' = outbox
      BY DEF RelayTypeOK, StoreTypeOK, storeVars
<1>2. late' \in SUBSET DOMAIN outbox
  <2>1. PICK sent \in SUBSET Unanswered(r) : late' = late \cup sent
        BY DEF RelayStops
  <2>2. QED
        BY <2>1 DEF RelayTypeOK, Unanswered
<1>3. UNCHANGED <<published, log>> /\ claim' = [claim EXCEPT ![r] = {}]
      /\ relayStep' = [relayStep EXCEPT ![r] = "idle"]
      BY DEF RelayStops
<1>4. QED
      BY <1>1, <1>2, <1>3, SameLogGrows DEF RelayTypeOK

LEMMA RelayTypes ==
    ASSUME RelayTypeOK, NEW r \in Relays, RelayStep(r) \/ RelayCrash(r),
           UNCHANGED storeVars
    PROVE  RelayTypeOK' /\ LogGrows
<1>1. StoreTypeOK' /\ outbox' = outbox
      BY DEF RelayTypeOK, StoreTypeOK, storeVars
<1>2. CASE SelectUnpublished(r)
  <2>1. PICK b \in SUBSET Unclaimed : IsBatch(b) /\ claim' = [claim EXCEPT ![r] = b]
        BY <1>2 DEF SelectUnpublished
  <2>2. b # {} /\ b \in SUBSET DOMAIN outbox
        BY <2>1 DEF IsBatch, Unclaimed
  <2>3. QED
        BY <1>1, <1>2, <2>1, <2>2, SameLogGrows
        DEF RelayTypeOK, SelectUnpublished, budgetVars
<1>3. CASE CommitClaim(r)
      BY <1>1, <1>3, SameLogGrows DEF RelayTypeOK, CommitClaim, Stamped, budgetVars
<1>4. CASE Publish(r)
  <2>1. PICK i \in claim[r] :
           /\ (Landed(i) /\ UNCHANGED faults) \/ (LandedTwice(i) /\ Fault)
           /\ claim' = [claim EXCEPT ![r] = Rest(r, i)]
           /\ relayStep' = IF claim[r] = {i} THEN [relayStep EXCEPT ![r] = "idle"]
                                             ELSE relayStep
        BY <1>4 DEF Publish
  <2>2. i \in DOMAIN outbox
        BY <2>1 DEF RelayTypeOK
  <2>3. log' \in [Partitions -> Seq(Event)] /\ LogGrows
        BY <2>1, <2>2, LandedFacts DEF LogGrows
  <2>4. faults' \in Nat
        BY <2>1 DEF Fault, RelayTypeOK
  <2>5. claim' \in [Relays -> SUBSET DOMAIN outbox]
        BY <2>1 DEF RelayTypeOK, Rest
  <2>6. \A s \in Relays : relayStep'[s] = "idle" <=> claim'[s] = {}
        BY <1>4, <2>1 DEF RelayTypeOK, Rest, Publish
  <2>7. QED
        BY <1>1, <1>4, <2>1, <2>3, <2>4, <2>5, <2>6 DEF RelayTypeOK, Publish
<1>5. CASE PublishRaises(r)
      BY <1>5, StopTypes DEF PublishRaises, Fault, RelayTypeOK
<1>6. CASE ClaimRaises(r)
      BY <1>6, StopTypes DEF ClaimRaises, Fault, RelayTypeOK
<1>7. CASE RelayCrash(r)
      BY <1>7, StopTypes DEF RelayCrash, RelayTypeOK
<1>8. QED
      BY <1>2, <1>3, <1>4, <1>5, <1>6, <1>7 DEF RelayStep

(* A record given up lands after all, or is never heard of again.          *)
LEMMA LateTypes ==
    ASSUME RelayTypeOK, LateStep, UNCHANGED storeVars
    PROVE  RelayTypeOK' /\ LogGrows
<1>1. StoreTypeOK' /\ outbox' = outbox
      BY DEF RelayTypeOK, StoreTypeOK, storeVars
<1>2. PICK i \in late : LateLands(i) \/ LateExpires(i)
      BY DEF LateStep
<1>3. i \in DOMAIN outbox
      BY <1>2 DEF RelayTypeOK
<1>4. CASE LateLands(i)
  <2>1. log' \in [Partitions -> Seq(Event)] /\ LogGrows
        BY <1>3, <1>4, LandedFacts DEF LateLands, LogGrows
  <2>2. faults' \in Nat /\ crashes' = crashes /\ late' \subseteq late
        /\ UNCHANGED <<published, relayStep, claim>>
        BY <1>4 DEF LateLands, Fault, RelayTypeOK
  <2>3. QED
        BY <1>1, <2>1, <2>2 DEF RelayTypeOK
<1>5. CASE LateExpires(i)
      BY <1>1, <1>5, SameLogGrows DEF RelayTypeOK, LateExpires, budgetVars
<1>6. QED
      BY <1>2, <1>4, <1>5

(* What moves the outbox on: the relay threads and their producers.        *)
RelaysMove == (\E r \in Relays : RelayStep(r) \/ RelayCrash(r)) \/ LateStep

LEMMA MoveTypes ==
    ASSUME RelayTypeOK, RelaysMove, UNCHANGED storeVars
    PROVE  RelayTypeOK' /\ LogGrows
    BY RelayTypes, LateTypes DEF RelaysMove

LEMMA MoveKeepsTypeInv ==
    ASSUME TypeInv, RelaysMove, UNCHANGED <<storeVars, consumerVars>>
    PROVE  TypeInv'
<1>1. RelayTypeOK' /\ LogGrows
      BY MoveTypes DEF TypeInv, TypeOK
<1>2. TypeOK'
      BY <1>1 DEF TypeInv, TypeOK, consumerVars
<1>3. \A p \in Partitions : position[p] \in Nat /\ Len(log[p]) \in Nat
                            /\ Len(log'[p]) \in Nat
      BY <1>1 DEF TypeInv, TypeOK, RelayTypeOK
<1>4. CursorsOK'
      BY <1>1, <1>3 DEF TypeInv, CursorsOK, consumerVars, LogGrows
<1>5. QED
      BY <1>2, <1>4 DEF TypeInv

(* While a record is at hand, it and its document are what they should be. *)
LEMMA RecordAtHand ==
    ASSUME TypeInv, step \in Busy
    PROVE  /\ part \in Partitions
           /\ done[part] + 1 \in DOMAIN log[part]
           /\ ev \in Event
           /\ doc \in Docs
<1>1. /\ part \in Partitions
      /\ log[part] \in Seq(Event)
      /\ done[part] \in Nat /\ position[part] \in Nat
      BY DEF TypeInv, TypeOK, RelayTypeOK
<1>2. done[part] + 1 \in 1 .. Len(log[part])
      BY <1>1 DEF TypeInv, CursorsOK
<1>3. ev \in Event
      BY <1>1, <1>2 DEF ev
<1>4. QED
      BY <1>1, <1>2, <1>3 DEF doc, Event

(* The record is finished: the cursor moves on, within what was polled.    *)
LEMMA FinishKeeps ==
    ASSUME TypeInv, step \in Busy, FinishRecord, log' = log
    PROVE  /\ done' \in [Partitions -> Nat] /\ position' \in [Partitions -> Nat]
           /\ committed' \in [Partitions -> Nat]
           /\ step' \in Steps /\ part' \in Partitions
           /\ attempt' \in Nat /\ target' \in Nat
           /\ CursorsOK'
<1>1. /\ part \in Partitions
      /\ done \in [Partitions -> Nat]
      /\ position \in [Partitions -> Nat]
      /\ committed \in [Partitions -> Nat]
      /\ done[part] < position[part]
      BY DEF TypeInv, TypeOK, CursorsOK
<1>2. /\ done' = [done EXCEPT ![part] = @ + 1]
      /\ position' = position /\ committed' = committed /\ part' = part
      /\ attempt' = 1 /\ target' = 0
      /\ step' = IF done[part] + 1 < position[part] THEN "begin" ELSE "commit"
      BY DEF FinishRecord
<1>3. done' \in [Partitions -> Nat] /\ step' \in Steps
      BY <1>1, <1>2 DEF Steps, HandleSteps
<1>4. CursorsOK'
  <2>1. \A p \in Partitions : /\ committed'[p] <= position'[p]
                              /\ done'[p] <= position'[p]
                              /\ position'[p] <= Len(log'[p])
        BY <1>1, <1>2 DEF TypeInv, CursorsOK
  <2>2. step' \in Busy => done'[part'] < position'[part']
        BY <1>1, <1>2 DEF Busy, HandleSteps
  <2>3. QED
        BY <2>1, <2>2 DEF CursorsOK
<1>5. QED
      BY <1>1, <1>2, <1>3, <1>4

(* A step that stays on the record moves no cursor.                        *)
LEMMA StayKeeps ==
    ASSUME TypeInv, log' = log, UNCHANGED <<offsetVars, part>>,
           step \in Busy \/ step' \notin Busy
    PROVE  CursorsOK'
    BY DEF TypeInv, CursorsOK, offsetVars

(* Marking a row changes its status and nothing else.                      *)
LEMMA MarkKeeps ==
    ASSUME StoreTypeOK, NEW d \in Docs, NEW status \in {"LIVE", "FAILED"},
           Mark(d, status), UNCHANGED <<raw, uploading, outbox>>
    PROVE  /\ StoreTypeOK'
           /\ \A c \in Docs : row'[c].ver = row[c].ver /\ row'[c].body = row[c].body
           /\ \A c \in Docs : c # d => row'[c] = row[c]
           /\ row'[d].status = status
<1>1. row \in [Docs -> Row]
      BY DEF StoreTypeOK
<1>2. row' = [row EXCEPT ![d] = [row[d] EXCEPT !.status = status]]
      BY DEF Mark
<1>3. [row[d] EXCEPT !.status = status] \in Row
      BY <1>1 DEF Row, Statuses
<1>4. row' \in [Docs -> Row]
      BY <1>1, <1>2, <1>3
<1>5. QED
      BY <1>1, <1>2, <1>3, <1>4 DEF StoreTypeOK, Row

(* What no step of the consumer touches.                                   *)
LEMMA UpstreamKeeps ==
    ASSUME RelayTypeOK, UNCHANGED <<raw, uploading, outbox, relayVars, crashes>>,
           row' \in [Docs -> Row], faults' \in Nat
    PROVE  RelayTypeOK' /\ log' = log
    BY DEF RelayTypeOK, StoreTypeOK, relayVars

LEMMA ConsumerKeepsTypeInv ==
    ASSUME TypeInv, ConsumerStep
    PROVE  TypeInv'
<1> USE DEF Busy, HandleSteps
<1>1. /\ UNCHANGED <<raw, uploading, outbox, relayVars, crashes>>
      /\ log' = log
      /\ RelayTypeOK /\ row \in [Docs -> Row] /\ faults \in Nat
      /\ TypeOK /\ CursorsOK
      BY DEF ConsumerStep, TypeInv, TypeOK, RelayTypeOK, StoreTypeOK, relayVars
<1> DEFINE SinksOK == /\ text' \in SUBSET Docs
                      /\ es' \in [Docs -> [ver : Nat, present : BOOLEAN]]
                      /\ dlq' \in SUBSET Event
                      /\ unbumped' \in SUBSET Tenants
           ThreadOK == /\ position' \in [Partitions -> Nat]
                       /\ done' \in [Partitions -> Nat]
                       /\ committed' \in [Partitions -> Nat]
                       /\ step' \in Steps /\ part' \in Partitions
                       /\ attempt' \in Nat /\ target' \in Nat
           RowOK == row' \in [Docs -> Row] /\ faults' \in Nat
<1>2. ASSUME SinksOK, ThreadOK, RowOK, CursorsOK'
      PROVE  TypeInv'
      BY <1>1, <1>2, UpstreamKeeps DEF TypeInv, TypeOK
<1>3. ASSUME UNCHANGED <<text, es, dlq, unbumped>> PROVE SinksOK
      BY <1>1, <1>3 DEF TypeOK
<1>4. ASSUME UNCHANGED row, UNCHANGED faults PROVE RowOK
      BY <1>1, <1>4
<1>5. CASE Poll
  <2>1. PICK got \in [Partitions -> 0 .. MaxPoll] :
           /\ \A p \in Partitions : position[p] + got[p] <= Len(log[p])
           /\ position' = [p \in Partitions |-> position[p] + got[p]]
        BY <1>5 DEF Poll
  <2>2. /\ step' = "next"
        /\ UNCHANGED <<part, attempt, target, done, committed>>
        /\ UNCHANGED <<text, es, dlq, unbumped, row, faults>>
        BY <1>5 DEF Poll, GoTo
  <2>3. \A p \in Partitions : /\ position'[p] \in Nat
                              /\ position'[p] = position[p] + got[p]
                              /\ position[p] <= position'[p]
        BY <1>1, <2>1, PollAssumption DEF TypeOK
  <2>4. ThreadOK
        BY <1>1, <2>1, <2>2, <2>3 DEF TypeOK, Steps
  <2>5. \A p \in Partitions : /\ committed[p] <= position'[p]
                              /\ done[p] <= position'[p]
                              /\ position'[p] <= Len(log[p])
        BY <1>1, <2>1, <2>3 DEF TypeOK, CursorsOK
  <2>6. CursorsOK'
        BY <1>1, <2>2, <2>5 DEF CursorsOK
  <2>7. QED
        BY <1>2, <1>3, <1>4, <2>2, <2>4, <2>6
<1>6. CASE NextPartition
  <2>1. ThreadOK /\ CursorsOK'
        BY <1>1, <1>6 DEF NextPartition, TypeOK, Steps, CursorsOK, offsetVars
  <2>2. QED
        BY <1>2, <1>3, <1>4, <1>6, <2>1 DEF NextPartition
<1>7. CASE Commit
  <2>1. ThreadOK
        BY <1>1, <1>7 DEF Commit, CommitOffsets, AfterCommit, GoTo, TypeOK, Steps
  <2>2. CursorsOK'
        BY <1>1, <1>7
        DEF Commit, CommitOffsets, AfterCommit, GoTo, TypeOK, CursorsOK
  <2>3. QED
        BY <1>2, <1>3, <1>4, <1>7, <2>1, <2>2 DEF Commit
<1>8. ASSUME step \in Busy
      PROVE  part \in Partitions /\ ev \in Event /\ doc \in Docs
      BY <1>8, RecordAtHand
<1>9. ASSUME UNCHANGED <<offsetVars, part>>, step \in Busy,
             step' \in Steps, attempt' \in Nat, target' \in Nat
      PROVE  ThreadOK /\ CursorsOK'
      BY <1>1, <1>9, StayKeeps DEF offsetVars, TypeOK
<1>10. ASSUME FinishRecord, step \in Busy PROVE ThreadOK /\ CursorsOK'
      BY <1>1, <1>10, FinishKeeps
<1>11. ASSUME Retry, UNCHANGED offsetVars, step \in Busy
       PROVE  ThreadOK /\ CursorsOK'
  <2>1. UNCHANGED part /\ step' \in Steps /\ attempt' \in Nat /\ target' \in Nat
        BY <1>1, <1>11 DEF Retry, TypeOK, Steps
  <2>2. QED
        BY <1>9, <1>11, <2>1
<1>12. ASSUME NEW status \in {"LIVE", "FAILED"}, Mark(doc, status), step \in Busy
       PROVE  row' \in [Docs -> Row]
      BY <1>1, <1>8, <1>12, MarkKeeps DEF RelayTypeOK, StoreTypeOK
<1>13. CASE BeginDelete
  <2>1. target' \in Nat
        BY <1>8, <1>13 DEF BeginDelete, Event
  <2>2. QED
        BY <1>1, <1>2, <1>3, <1>4, <1>9, <1>13, <2>1 DEF BeginDelete, Steps, TypeOK
<1>14. CASE Load
  <2>1. row[doc].ver \in Nat
        BY <1>1, <1>8, <1>14 DEF Load, Row
  <2>2. ThreadOK /\ CursorsOK'
    <3>1. CASE FinishRecord
          BY <1>10, <1>14, <3>1 DEF Load
    <3>2. CASE /\ target' = row[doc].ver /\ step' \in {"delete", "body"}
               /\ UNCHANGED <<part, attempt, offsetVars>>
          BY <1>1, <1>9, <1>14, <2>1, <3>2 DEF Load, Steps, TypeOK
    <3>3. QED
          BY <1>14, <3>1, <3>2 DEF Load
  <2>3. QED
        BY <1>2, <1>3, <1>4, <1>14, <2>2 DEF Load
<1>15. CASE BodyFor
  <2>1. ThreadOK /\ CursorsOK'
    <3>1. CASE Retry
          BY <1>11, <1>15, <3>1 DEF BodyFor
    <3>2. CASE GoTo("index") \/ GoTo("mark_failed")
          BY <1>1, <1>9, <1>15, <3>2 DEF BodyFor, GoTo, Steps, TypeOK
    <3>3. QED
          BY <1>15, <3>1, <3>2 DEF BodyFor, AfterBody
  <2>2. text' \in SUBSET Docs
        BY <1>1, <1>8, <1>15 DEF BodyFor, TextPut, TypeOK
  <2>3. SinksOK
        BY <1>1, <1>15, <2>2 DEF BodyFor, TypeOK
  <2>4. QED
        BY <1>2, <1>4, <1>15, <2>1, <2>3 DEF BodyFor
<1>16. CASE MarkFailed
      BY <1>1, <1>2, <1>3, <1>10, <1>12, <1>16 DEF MarkFailed
<1>17. ASSUME NEW v \in Nat, NEW present \in BOOLEAN, Apply(doc, v, present),
              step \in Busy, UNCHANGED <<text, dlq>>
       PROVE  SinksOK
  <2>1. TenantOf[doc] \in Tenants
        BY <1>8, <1>17, TenantAssumption
  <2>2. QED
        BY <1>1, <1>8, <1>17, <2>1 DEF Apply, TypeOK
<1>18. CASE Index
  <2>1. SinksOK
        BY <1>1, <1>17, <1>18 DEF Index, TypeOK
  <2>2. QED
        BY <1>1, <1>2, <1>4, <1>9, <1>18, <2>1 DEF Index, GoTo, Steps, TypeOK
<1>19. CASE MarkLive
      BY <1>1, <1>2, <1>3, <1>9, <1>12, <1>19 DEF MarkLive, GoTo, Steps, TypeOK
<1>20. CASE Delete
  <2>1. SinksOK
        BY <1>1, <1>17, <1>20 DEF Delete, TypeOK
  <2>2. QED
        BY <1>1, <1>2, <1>4, <1>9, <1>20, <2>1 DEF Delete, GoTo, Steps, TypeOK
<1>21. CASE Invalidate
  <2>1. SinksOK
        BY <1>1, <1>21 DEF Invalidate, Bumped, TypeOK
  <2>2. QED
        BY <1>1, <1>2, <1>4, <1>10, <1>21, <2>1 DEF Invalidate
<1>22. CASE HandleRaises
  <2>1. SinksOK
        BY <1>1, <1>22 DEF HandleRaises, Bumped, TypeOK
  <2>2. RowOK
        BY <1>1, <1>12, <1>22 DEF HandleRaises, Fault
  <2>3. QED
        BY <1>2, <1>11, <1>22, <2>1, <2>2 DEF HandleRaises
<1>23. CASE DeadLetterMark
      BY <1>1, <1>2, <1>3, <1>9, <1>12, <1>23 DEF DeadLetterMark, GoTo, Steps, TypeOK
<1>24. CASE DeadLetterPublish
  <2>1. SinksOK
        BY <1>1, <1>8, <1>24 DEF DeadLetterPublish, ToDlq, TypeOK
  <2>2. QED
        BY <1>2, <1>4, <1>10, <1>24, <2>1 DEF DeadLetterPublish
<1>25. CASE ThreadDies
  <2>1. SinksOK
        BY <1>1, <1>8, <1>25 DEF ThreadDies, ToDlq, TypeOK
  <2>2. ThreadOK /\ CursorsOK'
        BY <1>1, <1>25
        DEF ThreadDies, CommitOffsets, GoTo, Steps, TypeOK, CursorsOK
  <2>3. RowOK
        BY <1>1, <1>25 DEF ThreadDies, Fault
  <2>4. QED
        BY <1>2, <2>1, <2>2, <2>3
<1>26. QED
  <2>1. ConsumerWorks \/ HandleRaises \/ ThreadDies
        BY DEF ConsumerStep
  <2>2. QED
        BY <2>1, <1>5, <1>6, <1>7, <1>13, <1>14, <1>15, <1>16, <1>18, <1>19,
           <1>20, <1>21, <1>22, <1>23, <1>24, <1>25 DEF ConsumerWorks

LEMMA CrashKeepsTypeInv ==
    ASSUME TypeInv, IndexerCrash
    PROVE  TypeInv'
<1>1. RelayTypeOK' /\ log' = log
  <2>1. faults' \in Nat /\ crashes' \in Nat
        BY DEF TypeInv, TypeOK, RelayTypeOK, IndexerCrash
  <2>2. QED
        BY <2>1, StopTypes, OwnerAssumption
        DEF TypeInv, TypeOK, IndexerCrash, RelayStops
<1>2. TypeOK'
      BY <1>1 DEF TypeInv, TypeOK, IndexerCrash, ResumeAt, Steps
<1>3. \A p \in Partitions : committed[p] <= Len(log[p])
      BY DEF TypeInv, TypeOK, CursorsOK, RelayTypeOK
<1>4. CursorsOK'
      BY <1>1, <1>3 DEF IndexerCrash, ResumeAt, TypeInv, TypeOK, CursorsOK, Busy,
                        HandleSteps
<1>5. QED
      BY <1>2, <1>4 DEF TypeInv

LEMMA ForgetKeepsTypeInv ==
    ASSUME TypeInv, NEW d \in Docs, ForgetTombstone(d)
    PROVE  TypeInv'
<1>1. UNCHANGED <<relayAll, offsetVars, threadVars, text, dlq, unbumped>>
      /\ es' \in [Docs -> [ver : Nat, present : BOOLEAN]]
      BY DEF ForgetTombstone, TypeInv, TypeOK
<1>2. TypeOK'
      BY <1>1 DEF TypeInv, TypeOK, RelayTypeOK, StoreTypeOK, relayAll, relayVars,
                  storeVars, budgetVars, offsetVars, threadVars
<1>3. CursorsOK'
      BY <1>1 DEF TypeInv, CursorsOK, relayAll, relayVars, offsetVars, threadVars
<1>4. QED
      BY <1>2, <1>3 DEF TypeInv

LEMMA StutterKeepsTypeInv ==
    ASSUME TypeInv, UNCHANGED vars
    PROVE  TypeInv'
    BY DEF TypeInv, TypeOK, RelayTypeOK, StoreTypeOK, CursorsOK, vars, relayAll,
           relayVars, storeVars, budgetVars, consumerVars

LEMMA NextKeepsTypeInv == TypeInv /\ [Next]_vars => TypeInv'
<1> SUFFICES ASSUME TypeInv, [Next]_vars PROVE TypeInv'
    OBVIOUS
<1>1. CASE StoreNext /\ UNCHANGED <<relayVars, budgetVars, consumerVars>>
      BY <1>1, StoreKeepsTypeInv
<1>2. CASE RelaysMove /\ UNCHANGED <<storeVars, consumerVars>>
      BY <1>2, MoveKeepsTypeInv
<1>3. CASE ConsumerStep
      BY <1>3, ConsumerKeepsTypeInv
<1>4. CASE \E d \in Docs : ForgetTombstone(d)
      BY <1>4, ForgetKeepsTypeInv
<1>5. CASE IndexerCrash
      BY <1>5, CrashKeepsTypeInv
<1>6. CASE UNCHANGED vars
      BY <1>6, StutterKeepsTypeInv
<1>7. QED
      BY <1>1, <1>2, <1>3, <1>4, <1>5, <1>6 DEF Next, RelaysMove

(* In every behaviour the variables stay within their types, and the       *)
(* consumer never works on a record it was not handed by poll().           *)
THEOREM TypeInvariant == Spec => []TypeInv
<1>1. QED
      BY InitTypeInv, NextKeepsTypeInv, PTL DEF Spec

(* The type invariant the runs check, for every instance.                  *)
THEOREM TypeCorrect == Spec => []TypeOK
<1>1. TypeInv => TypeOK
      BY DEF TypeInv
<1>2. QED
      BY <1>1, TypeInvariant, PTL

-----------------------------------------------------------------------------
(* The inductive invariant behind the safety theorems.                     *)

(* A row is all there or not at all; while its bytes are being uploaded it *)
(* is not; PENDING is the state of version 1, DELETED of a later one.      *)
RowsOK ==
    \A d \in Docs :
        /\ row[d].ver = 0 => row[d] = NoRow
        /\ row[d].status = "ABSENT" => row[d] = NoRow
        /\ row[d].status = "PENDING" => row[d].ver = 1
        /\ row[d].status = "DELETED" => row[d].ver >= 2
        /\ d \in uploading => row[d] = NoRow /\ raw[d] # "none"
        /\ row[d].body = "s3" => raw[d] # "none"

(* An UPSERT is the event of version 1, a DELETE that of a later one.      *)
OpsOK ==
    \A i \in DOMAIN outbox : IF outbox[i].op = "UPSERT" THEN outbox[i].ver = 1
                                                        ELSE outbox[i].ver >= 2

(* The topic holds entries of the outbox and nothing else.                 *)
LogFromOutbox ==
    \A p \in Partitions : \A k \in 1 .. Len(log[p]) :
        \E i \in DOMAIN outbox : log[p][k] = outbox[i]

(* What the consumer is about to write is no newer than the row, and is a  *)
(* first version exactly when it is to be found.                           *)
TargetOK ==
    /\ step \in {"body", "index"} => target = 1
    /\ step = "delete" => 2 <= target /\ target <= row[doc].ver

(* The index is a copy that lags.                                          *)
CopyOK ==
    \A d \in Docs : /\ es[d].ver <= row[d].ver
                    /\ es[d].present => es[d].ver = 1

IInv ==
    /\ TypeInv
    /\ RowsOK
    /\ OpsOK
    /\ EveryVersionHasItsEvent
    /\ LogFromOutbox
    /\ TargetOK
    /\ CopyOK

LEMMA InitIInv == Init => IInv
<1> SUFFICES ASSUME Init PROVE IInv
    OBVIOUS
<1>1. TypeInv
      BY InitTypeInv
<1>2. RowsOK /\ OpsOK /\ EveryVersionHasItsEvent
      BY DEF Init, RelayInit, StoreInit, NoRow, RowsOK, OpsOK, EveryVersionHasItsEvent
<1>3. LogFromOutbox
      BY DEF Init, RelayInit, LogFromOutbox
<1>4. TargetOK /\ CopyOK
      BY DEF Init, RelayInit, StoreInit, NoRow, TargetOK, CopyOK
<1>5. QED
      BY <1>1, <1>2, <1>3, <1>4 DEF IInv

(* One event more, for the version the row has just reached.               *)
LEMMA NewVersion ==
    ASSUME StoreTypeOK, EveryVersionHasItsEvent, OpsOK,
           NEW d \in Docs, NEW e \in Event,
           e.doc = d, e.ver = row[d].ver + 1,
           IF e.op = "UPSERT" THEN e.ver = 1 ELSE e.ver >= 2,
           outbox' = Append(outbox, e),
           row' \in [Docs -> Row],
           \A c \in Docs : row'[c].ver = IF c = d THEN row[c].ver + 1 ELSE row[c].ver
    PROVE  EveryVersionHasItsEvent' /\ OpsOK'
<1>1. /\ outbox \in Seq(Event)
      /\ \A c \in Docs : row[c].ver \in Nat
      /\ \A i \in DOMAIN outbox : outbox[i].doc \in Docs /\ outbox[i].ver \in Nat
  <2>1. \A i \in DOMAIN outbox : outbox[i] \in Event
        BY DEF StoreTypeOK
  <2>2. QED
        BY <2>1 DEF StoreTypeOK, Row, Event
<1>2. /\ DOMAIN outbox = 1 .. Len(outbox)
      /\ DOMAIN outbox' = 1 .. Len(outbox) + 1
      /\ \A i \in 1 .. Len(outbox) : outbox'[i] = outbox[i]
      /\ outbox'[Len(outbox) + 1] = e
      /\ Len(outbox) \in Nat
      BY <1>1, AppendFacts
<1>3. \A i \in DOMAIN outbox' : outbox'[i].ver \in 1 .. row'[outbox'[i].doc].ver
  <2>1. ASSUME NEW i \in DOMAIN outbox
        PROVE  outbox'[i].ver \in 1 .. row'[outbox'[i].doc].ver
    <3>1. outbox'[i] = outbox[i] /\ outbox[i].doc \in Docs
          BY <1>1, <1>2
    <3>2. row[outbox[i].doc].ver <= row'[outbox[i].doc].ver
          BY <1>1, <3>1
    <3>3. outbox[i].ver \in 1 .. row[outbox[i].doc].ver
          BY DEF EveryVersionHasItsEvent
    <3>4. QED
          BY <1>1, <3>1, <3>2, <3>3
  <2>2. outbox'[Len(outbox) + 1].ver \in 1 .. row'[outbox'[Len(outbox) + 1].doc].ver
        BY <1>1, <1>2
  <2>3. QED
        BY <1>2, <2>1, <2>2
<1>4. ASSUME NEW i \in DOMAIN outbox', NEW j \in DOMAIN outbox', i < j,
             outbox'[i].doc = outbox'[j].doc
      PROVE  outbox'[i].ver < outbox'[j].ver
  <2>1. i \in DOMAIN outbox
        BY <1>2, <1>4
  <2>2. CASE j \in DOMAIN outbox
        BY <1>2, <1>4, <2>1, <2>2 DEF EveryVersionHasItsEvent
  <2>3. CASE j = Len(outbox) + 1
    <3>1. outbox[i].doc = d /\ outbox[i].ver <= row[d].ver
          BY <1>1, <1>2, <1>4, <2>1, <2>3 DEF EveryVersionHasItsEvent
    <3>2. QED
          BY <1>1, <1>2, <2>1, <2>3, <3>1
  <2>4. QED
        BY <1>2, <2>2, <2>3
<1>5. ASSUME NEW c \in Docs, NEW v \in 1 .. row'[c].ver
      PROVE  \E i \in DOMAIN outbox' : outbox'[i].doc = c /\ outbox'[i].ver = v
  <2>1. CASE c = d /\ v = row[d].ver + 1
        BY <1>2, <2>1
  <2>2. CASE v \in 1 .. row[c].ver
        BY <1>2, <2>2 DEF EveryVersionHasItsEvent
  <2>3. QED
        BY <1>1, <2>1, <2>2
<1>6. OpsOK'
      BY <1>2 DEF OpsOK
<1>7. QED
      BY <1>3, <1>4, <1>5, <1>6 DEF EveryVersionHasItsEvent

(* What a change of statuses, or no change at all, preserves.              *)
LEMMA SameVersions ==
    ASSUME EveryVersionHasItsEvent, OpsOK, StoreTypeOK, outbox' = outbox,
           \A c \in Docs : row'[c].ver = row[c].ver
    PROVE  EveryVersionHasItsEvent' /\ OpsOK'
<1>1. \A i \in DOMAIN outbox : outbox[i] \in Event
      BY DEF StoreTypeOK
<1>2. \A i \in DOMAIN outbox : outbox[i].doc \in Docs
      BY <1>1 DEF Event
<1>3. QED
      BY <1>2 DEF EveryVersionHasItsEvent, OpsOK

(* Rows only move on.                                                      *)
VersionsGrow == \A d \in Docs : row[d].ver <= row'[d].ver

LEMMA StoreKeepsRows ==
    ASSUME StoreTypeOK, RowsOK, OpsOK, EveryVersionHasItsEvent, StoreNext
    PROVE  /\ RowsOK' /\ OpsOK' /\ EveryVersionHasItsEvent' /\ VersionsGrow
           /\ \A i \in DOMAIN outbox : i \in DOMAIN outbox' /\ outbox'[i] = outbox[i]
<1> DEFINE Goal == /\ RowsOK' /\ OpsOK' /\ EveryVersionHasItsEvent' /\ VersionsGrow
                   /\ \A i \in DOMAIN outbox :
                         i \in DOMAIN outbox' /\ outbox'[i] = outbox[i]
<1>1. /\ outbox \in Seq(Event) /\ row \in [Docs -> Row]
      /\ \A c \in Docs : row[c].ver \in Nat
      BY DEF StoreTypeOK, Row
<1>2. StoreTypeOK'
      BY StoreTypes
<1>3. ASSUME NEW d \in Docs, NEW body \in {"inline", "s3"},
             CreateWithOutbox(d, body), row[d] = NoRow,
             body = "s3" => raw'[d] # "none",
             \A c \in Docs : c # d => raw'[c] = raw[c],
             uploading' = uploading \ {d}
      PROVE  Goal
  <2> DEFINE e == [doc |-> d, op |-> "UPSERT", ver |-> 1]
  <2>1. e \in Event /\ e.ver = row[d].ver + 1 /\ outbox' = Append(outbox, e)
        BY <1>3 DEF Event, NoRow, CreateWithOutbox
  <2>2. /\ row'[d] = [status |-> "PENDING", ver |-> 1, body |-> body]
        /\ \A c \in Docs : c # d => row'[c] = row[c]
        BY <1>1, <1>3 DEF CreateWithOutbox
  <2>3. \A c \in Docs : row'[c].ver = IF c = d THEN row[c].ver + 1 ELSE row[c].ver
        BY <1>3, <2>2 DEF NoRow
  <2>4. EveryVersionHasItsEvent' /\ OpsOK'
        BY <1>2, <2>1, <2>3, NewVersion DEF StoreTypeOK
  <2>5. VersionsGrow
        BY <1>1, <2>3 DEF VersionsGrow
  <2>6. RowsOK'
        BY <1>3, <2>2 DEF RowsOK, NoRow
  <2>7. QED
        BY <1>1, <2>1, <2>4, <2>5, <2>6, AppendFacts
<1>4. ASSUME UNCHANGED <<row, outbox>>, RowsOK' PROVE Goal
      BY <1>1, <1>4, SameVersions DEF VersionsGrow
<1>5. ASSUME NEW d \in Docs, IndexInline(d) PROVE Goal
  <2>1. d \notin uploading
        BY <1>5 DEF IndexInline, Fresh, RowsOK
  <2>2. QED
        BY <1>3, <1>5, <2>1 DEF IndexInline, Fresh
<1>6. ASSUME NEW d \in Docs, PutRaw(d) PROVE Goal
  <2>1. PICK c \in Contents \ {"inline"} : raw' = [raw EXCEPT ![d] = c]
        BY <1>6 DEF PutRaw
  <2>2. c # "none"
        BY ContentsAssumption, <2>1 DEF AllContents
  <2>3. RowsOK'
        BY <1>6, <2>1, <2>2 DEF PutRaw, Fresh, RowsOK, StoreTypeOK, NoRow
  <2>4. QED
        BY <1>4, <1>6, <2>3 DEF PutRaw
<1>7. ASSUME NEW d \in Docs, InsertRow(d) PROVE Goal
  <2>1. row[d] = NoRow /\ raw[d] # "none"
        BY <1>7 DEF InsertRow, BytesLanded, RowsOK
  <2>2. QED
        BY <1>3, <1>7, <2>1 DEF InsertRow
<1>8. ASSUME NEW d \in Docs, UploadAborts(d) PROVE Goal
  <2>1. RowsOK'
        BY <1>8 DEF UploadAborts, RowsOK
  <2>2. QED
        BY <1>4, <1>8, <2>1 DEF UploadAborts
<1>9. ASSUME NEW d \in Docs, SoftDelete(d) PROVE Goal
  <2> DEFINE e == [doc |-> d, op |-> "DELETE", ver |-> row[d].ver + 1]
  <2>1. row[d].ver >= 1
        BY <1>1, <1>9 DEF SoftDelete, RowsOK, NoRow
  <2>2. e \in Event /\ outbox' = Append(outbox, e) /\ e.ver >= 2
        BY <1>1, <1>9, <2>1 DEF SoftDelete, DeleteWithOutbox, Event
  <2>3. /\ row'[d].status = "DELETED"
        /\ row'[d].ver = row[d].ver + 1
        /\ row'[d].body = row[d].body
        /\ \A c \in Docs : c # d => row'[c] = row[c]
        BY <1>1, <1>9 DEF SoftDelete, DeleteWithOutbox, Row
  <2>4. EveryVersionHasItsEvent' /\ OpsOK'
        BY <1>2, <2>2, <2>3, NewVersion DEF StoreTypeOK
  <2>5. RowsOK'
        BY <1>1, <1>9, <2>1, <2>3 DEF RowsOK, SoftDelete, NoRow
  <2>6. VersionsGrow
        BY <1>1, <2>3 DEF VersionsGrow
  <2>7. QED
        BY <1>1, <2>2, <2>4, <2>5, <2>6, AppendFacts
<1>10. QED
      BY <1>5, <1>6, <1>7, <1>8, <1>9 DEF StoreNext

(* What a step of the consumer can do to rows and index.                   *)
LEMMA ConsumerShape ==
    ASSUME ConsumerStep
    PROVE  /\ UNCHANGED <<raw, uploading, outbox>> /\ log' = log
           /\ \/ row' = row
              \/ /\ step \in {"mark_live", "mark_failed", "dlq_mark"}
                 /\ \E status \in {"LIVE", "FAILED"} : Mark(doc, status)
           /\ \/ es' = es
              \/ step = "index" /\ Apply(doc, target, TRUE)
              \/ step = "delete" /\ Apply(doc, target, FALSE)
<1>1. UNCHANGED <<raw, uploading, outbox>> /\ log' = log
      BY DEF ConsumerStep, relayVars
<1>2. CASE Poll \/ NextPartition \/ BeginDelete \/ Commit \/ Invalidate
           \/ DeadLetterPublish
      BY <1>1, <1>2 DEF Poll, NextPartition, BeginDelete, Commit, Invalidate,
                        DeadLetterPublish
<1>3. CASE Load \/ BodyFor \/ ThreadDies
      BY <1>1, <1>3 DEF Load, BodyFor, ThreadDies
<1>4. CASE Index \/ Delete
      BY <1>1, <1>4 DEF Index, Delete
<1>5. CASE MarkLive \/ MarkFailed \/ DeadLetterMark \/ HandleRaises
      BY <1>1, <1>5 DEF MarkLive, MarkFailed, DeadLetterMark, HandleRaises
<1>6. QED
      BY <1>2, <1>3, <1>4, <1>5 DEF ConsumerStep, ConsumerWorks

(* What the log says of the document at hand.                              *)
LEMMA HandFacts ==
    ASSUME IInv, step \in Busy
    PROVE  /\ doc \in Docs
           /\ row[doc] \in Row
           /\ ev.ver \in Nat
           /\ 1 <= ev.ver /\ ev.ver <= row[doc].ver
           /\ ev.op = "DELETE" => ev.ver >= 2
<1>1. /\ part \in Partitions /\ done[part] + 1 \in DOMAIN log[part]
      /\ ev \in Event /\ doc \in Docs /\ log[part] \in Seq(Event)
      BY RecordAtHand DEF IInv, TypeInv, TypeOK, RelayTypeOK
<1>2. done[part] + 1 \in 1 .. Len(log[part])
      BY <1>1
<1>3. PICK i \in DOMAIN outbox : ev = outbox[i]
      BY <1>1, <1>2 DEF ev, IInv, LogFromOutbox
<1>4. row[doc] \in Row
      BY <1>1 DEF IInv, TypeInv, TypeOK, RelayTypeOK, StoreTypeOK
<1>5. ev.ver \in 1 .. row[doc].ver
      BY <1>3 DEF doc, IInv, EveryVersionHasItsEvent
<1>6. ev.op = "DELETE" => ev.ver >= 2
      BY <1>3 DEF IInv, OpsOK
<1>7. QED
      BY <1>1, <1>4, <1>5, <1>6 DEF Row

LEMMA ConsumerKeepsRows ==
    ASSUME IInv, ConsumerStep
    PROVE  /\ RowsOK' /\ OpsOK' /\ EveryVersionHasItsEvent'
           /\ \A c \in Docs : row'[c].ver = row[c].ver
           /\ LogFromOutbox' /\ log' = log /\ outbox' = outbox
<1>1. UNCHANGED <<raw, uploading, outbox>> /\ log' = log /\ StoreTypeOK
      BY ConsumerShape DEF IInv, TypeInv, TypeOK, RelayTypeOK
<1>2. LogFromOutbox'
      BY <1>1 DEF IInv, LogFromOutbox
<1>3. CASE row' = row
  <2>1. EveryVersionHasItsEvent' /\ OpsOK'
        BY <1>1, <1>3, SameVersions DEF IInv
  <2>2. RowsOK'
        BY <1>1, <1>3 DEF IInv, RowsOK
  <2>3. QED
        BY <1>1, <1>2, <1>3, <2>1, <2>2
<1>4. CASE step \in Busy /\ \E status \in {"LIVE", "FAILED"} : Mark(doc, status)
  <2>1. doc \in Docs /\ row[doc].ver >= 1
        BY <1>4, HandFacts DEF Row
  <2>2. PICK status \in {"LIVE", "FAILED"} : Mark(doc, status)
        BY <1>4
  <2>3. /\ \A c \in Docs : row'[c].ver = row[c].ver /\ row'[c].body = row[c].body
        /\ \A c \in Docs : c # doc => row'[c] = row[c]
        /\ row'[doc].status = status
        BY <1>1, <2>1, <2>2, MarkKeeps
  <2>4. EveryVersionHasItsEvent' /\ OpsOK'
        BY <1>1, <2>3, SameVersions DEF IInv
  <2>5. RowsOK'
        BY <1>1, <2>1, <2>3 DEF IInv, RowsOK, NoRow
  <2>6. QED
        BY <1>1, <1>2, <2>3, <2>4, <2>5
<1>5. QED
      BY <1>3, <1>4, ConsumerShape DEF Busy, HandleSteps

LEMMA ConsumerKeepsTarget ==
    ASSUME IInv, ConsumerStep
    PROVE  TargetOK'
<1>1. /\ log' = log
      /\ \A c \in Docs : row'[c].ver = row[c].ver
      BY ConsumerKeepsRows
<1>2. ASSUME step' \notin {"body", "index", "delete"} PROVE TargetOK'
      BY <1>2 DEF TargetOK
<1>3. ASSUME UNCHANGED <<done, part>>, step \in Busy, row' = row
      PROVE  doc' = doc /\ row'[doc'].ver = row[doc].ver
      BY <1>1, <1>3 DEF doc, ev
<1>4. CASE BeginDelete
  <2>1. step' = "delete" /\ target' = ev.ver /\ ev.op = "DELETE"
        BY <1>4 DEF BeginDelete
  <2>2. step \in Busy /\ UNCHANGED <<done, part>> /\ row' = row
        BY <1>4 DEF BeginDelete, offsetVars, Busy, HandleSteps
  <2>3. QED
        BY <1>3, <2>1, <2>2, HandFacts DEF TargetOK
<1>5. CASE Load
  <2>1. step \in Busy
        BY <1>5 DEF Load, Busy, HandleSteps
  <2>2. CASE /\ row[doc].status = "DELETED"
             /\ target' = row[doc].ver /\ step' = "delete"
             /\ UNCHANGED <<part, attempt, offsetVars>>
    <3>1. row[doc].ver >= 2
          BY <2>1, <2>2, HandFacts DEF IInv, RowsOK
    <3>2. UNCHANGED <<done, part>> /\ row' = row
          BY <1>5, <2>2 DEF Load, offsetVars
    <3>3. QED
          BY <1>3, <2>1, <2>2, <3>1, <3>2, HandFacts DEF TargetOK, Row
  <2>3. CASE /\ ToIndex(doc) /\ target' = row[doc].ver /\ step' = "body"
    <3>1. target' = 1
          BY <2>1, <2>3, HandFacts DEF IInv, RowsOK, ToIndex
    <3>2. QED
          BY <2>3, <3>1 DEF TargetOK
  <2>4. CASE FinishRecord
        BY <1>2, <2>4 DEF FinishRecord
  <2>5. QED
        BY <1>5, <2>2, <2>3, <2>4 DEF Load
<1>6. CASE BodyFor
  <2>1. CASE GoTo("index") \/ GoTo("mark_failed")
        BY <1>6, <2>1 DEF BodyFor, GoTo, IInv, TargetOK
  <2>2. CASE Retry
        BY <1>2, <2>2 DEF Retry
  <2>3. QED
        BY <1>6, <2>1, <2>2 DEF BodyFor, AfterBody
<1>7. CASE Poll \/ NextPartition \/ Commit
      BY <1>2, <1>7 DEF Poll, NextPartition, Commit, AfterCommit, GoTo
<1>8. CASE Invalidate \/ DeadLetterPublish \/ MarkFailed
      BY <1>2, <1>8 DEF Invalidate, DeadLetterPublish, MarkFailed, FinishRecord
<1>9. CASE Index \/ MarkLive \/ Delete \/ DeadLetterMark \/ ThreadDies
      BY <1>2, <1>9 DEF Index, MarkLive, Delete, DeadLetterMark, ThreadDies, GoTo
<1>10. CASE HandleRaises
      BY <1>2, <1>10 DEF HandleRaises, Retry
<1>11. QED
      BY <1>4, <1>5, <1>6, <1>7, <1>8, <1>9, <1>10 DEF ConsumerStep, ConsumerWorks

(* Only a write to the index moves the copy, and only to the target.       *)
LEMMA ConsumerKeepsCopy ==
    ASSUME IInv, ConsumerStep
    PROVE  CopyOK'
<1>1. /\ \A c \in Docs : row'[c].ver = row[c].ver
      /\ es \in [Docs -> [ver : Nat, present : BOOLEAN]]
      BY ConsumerKeepsRows DEF IInv, TypeInv, TypeOK
<1>2. CASE es' = es
      BY <1>1, <1>2 DEF IInv, CopyOK
<1>3. CASE step = "index" /\ Apply(doc, target, TRUE)
  <2>1. doc \in Docs /\ target = 1 /\ 1 <= row[doc].ver
        BY <1>3, HandFacts DEF Busy, HandleSteps, IInv, TargetOK, Row
  <2>2. QED
        BY <1>1, <1>3, <2>1 DEF Apply, IInv, CopyOK
<1>4. CASE step = "delete" /\ Apply(doc, target, FALSE)
  <2>1. doc \in Docs /\ target <= row[doc].ver
        BY <1>4, HandFacts DEF Busy, HandleSteps, IInv, TargetOK
  <2>2. QED
        BY <1>1, <1>4, <2>1 DEF Apply, IInv, CopyOK
<1>5. QED
      BY <1>2, <1>3, <1>4, ConsumerShape

(* The topic and the outbox only grow, so the topic stays part of it.      *)
LEMMA LogKeeps ==
    ASSUME RelayTypeOK, LogFromOutbox, LogGrows,
           \A i \in DOMAIN outbox : i \in DOMAIN outbox' /\ outbox'[i] = outbox[i]
    PROVE  LogFromOutbox'
<1>1. ASSUME NEW p \in Partitions, NEW k \in 1 .. Len(log'[p])
      PROVE  \E i \in DOMAIN outbox' : log'[p][k] = outbox'[i]
  <2>1. Len(log[p]) \in Nat
        BY DEF RelayTypeOK
  <2>2. CASE k \in 1 .. Len(log[p])
        BY <2>2 DEF LogFromOutbox, LogGrows
  <2>3. CASE k > Len(log[p])
        BY <2>3 DEF LogGrows
  <2>4. QED
        BY <2>1, <2>2, <2>3
<1>2. QED
      BY <1>1 DEF LogFromOutbox

(* What others do leaves the record at hand, and the consumer's plans for  *)
(* it, as they were.                                                       *)
LEMMA OthersKeepThread ==
    ASSUME IInv, LogGrows, VersionsGrow, StoreTypeOK',
           UNCHANGED <<step, part, target, done, es>>
    PROVE  TargetOK' /\ CopyOK'
<1>1. /\ \A d \in Docs : row[d].ver \in Nat /\ row'[d].ver \in Nat
      /\ es \in [Docs -> [ver : Nat, present : BOOLEAN]]
      /\ target \in Nat
      BY DEF IInv, TypeInv, TypeOK, RelayTypeOK, StoreTypeOK, Row
<1>2. CopyOK'
      BY <1>1 DEF IInv, CopyOK, VersionsGrow
<1>3. CASE step = "delete"
  <2>1. /\ part \in Partitions /\ done[part] + 1 \in 1 .. Len(log[part])
        /\ doc \in Docs
    <3>1. part \in Partitions /\ done[part] + 1 \in DOMAIN log[part] /\ doc \in Docs
          BY <1>3, RecordAtHand DEF IInv, Busy, HandleSteps
    <3>2. log[part] \in Seq(Event)
          BY <3>1 DEF IInv, TypeInv, TypeOK, RelayTypeOK
    <3>3. QED
          BY <3>1, <3>2
  <2>2. doc' = doc
        BY <2>1 DEF doc, ev, LogGrows
  <2>3. row[doc].ver <= row'[doc].ver
        BY <2>1 DEF VersionsGrow
  <2>4. 2 <= target /\ target <= row[doc].ver
        BY <1>3 DEF IInv, TargetOK
  <2>5. target' = target /\ step' = "delete" /\ row'[doc'].ver = row'[doc].ver
        BY <1>3, <2>2
  <2>6. target' <= row'[doc'].ver
        BY <1>1, <2>1, <2>3, <2>4, <2>5
  <2>7. QED
        BY <1>2, <2>4, <2>5, <2>6 DEF TargetOK
<1>4. CASE step # "delete"
  <2>1. step' = step /\ target' = target
        OBVIOUS
  <2>2. QED
        BY <1>2, <1>4, <2>1 DEF IInv, TargetOK
<1>5. QED
      BY <1>2, <1>3, <1>4

(* Steps that leave the rows and the outbox alone.                         *)
LEMMA OthersKeepStore ==
    ASSUME IInv, UNCHANGED storeVars
    PROVE  /\ RowsOK' /\ OpsOK' /\ EveryVersionHasItsEvent' /\ VersionsGrow
           /\ \A i \in DOMAIN outbox : i \in DOMAIN outbox' /\ outbox'[i] = outbox[i]
<1>1. StoreTypeOK /\ row \in [Docs -> Row] /\ \A d \in Docs : row[d].ver \in Nat
      BY DEF IInv, TypeInv, TypeOK, RelayTypeOK, StoreTypeOK, Row
<1>2. EveryVersionHasItsEvent' /\ OpsOK'
      BY <1>1, SameVersions DEF IInv, storeVars
<1>3. RowsOK'
      BY DEF IInv, RowsOK, storeVars
<1>4. QED
      BY <1>1, <1>2, <1>3 DEF VersionsGrow, storeVars

LEMMA NextKeepsIInv == IInv /\ [Next]_vars => IInv'
<1> SUFFICES ASSUME IInv, [Next]_vars PROVE IInv'
    OBVIOUS
<1>1. TypeInv' /\ TypeInv /\ RelayTypeOK /\ StoreTypeOK /\ StoreTypeOK'
      BY NextKeepsTypeInv DEF IInv, TypeInv, TypeOK, RelayTypeOK
<1>2. ASSUME RowsOK', OpsOK', EveryVersionHasItsEvent', VersionsGrow, LogGrows,
             \A i \in DOMAIN outbox : i \in DOMAIN outbox' /\ outbox'[i] = outbox[i],
             TargetOK', CopyOK'
      PROVE  IInv'
      BY <1>1, <1>2, LogKeeps DEF IInv
<1>3. CASE StoreNext /\ UNCHANGED <<relayVars, budgetVars, consumerVars>>
  <2>1. UNCHANGED <<log, step, part, target, done, es>>
        BY <1>3 DEF relayVars, consumerVars
  <2>2. LogGrows
        BY <1>1, <2>1, SameLogGrows
  <2>3. /\ RowsOK' /\ OpsOK' /\ EveryVersionHasItsEvent' /\ VersionsGrow
        /\ \A i \in DOMAIN outbox : i \in DOMAIN outbox' /\ outbox'[i] = outbox[i]
        BY <1>1, <1>3, StoreKeepsRows DEF IInv
  <2>4. QED
        BY <1>1, <1>2, <2>1, <2>2, <2>3, OthersKeepThread
<1>4. CASE RelaysMove /\ UNCHANGED <<storeVars, consumerVars>>
  <2>1. LogGrows
        BY <1>1, <1>4, MoveTypes
  <2>2. UNCHANGED <<step, part, target, done, es>>
        BY <1>4 DEF consumerVars
  <2>3. QED
        BY <1>1, <1>2, <1>4, <2>1, <2>2, OthersKeepStore, OthersKeepThread
<1>5. CASE ConsumerStep
      BY <1>1, <1>5, ConsumerKeepsRows, ConsumerKeepsTarget, ConsumerKeepsCopy
      DEF IInv
<1>6. CASE \E d \in Docs : ForgetTombstone(d)
  <2>1. PICK d \in Docs : ForgetTombstone(d)
        BY <1>6
  <2>2. /\ UNCHANGED storeVars /\ UNCHANGED <<log, step, part, target, done>>
        /\ es' = [es EXCEPT ![d].ver = 0]
        BY <2>1 DEF ForgetTombstone, relayAll, relayVars, threadVars, offsetVars
  <2>3. /\ \A c \in Docs : row'[c] = row[c] /\ row[c].ver \in Nat
        /\ es \in [Docs -> [ver : Nat, present : BOOLEAN]]
        BY <1>1, <2>2 DEF storeVars, StoreTypeOK, Row, TypeInv, TypeOK
  <2>4. ~es[d].present
        BY <2>1 DEF ForgetTombstone
  <2>5. \A c \in Docs : /\ es'[c].present = es[c].present
                        /\ es'[c].ver = IF c = d THEN 0 ELSE es[c].ver
        BY <2>2, <2>3
  <2>6. CopyOK'
        BY <2>3, <2>4, <2>5 DEF IInv, CopyOK
  <2>7. TargetOK'
        BY <2>2 DEF IInv, TargetOK, doc, ev, storeVars
  <2>8. LogGrows
        BY <1>1, <2>2, SameLogGrows
  <2>9. QED
        BY <1>2, <2>2, <2>6, <2>7, <2>8, OthersKeepStore
<1>7. CASE IndexerCrash
  <2>1. /\ UNCHANGED storeVars /\ log' = log /\ es' = es /\ step' = "poll"
        BY <1>7 DEF IndexerCrash, RelayStops
  <2>2. VersionsGrow
        BY <2>1, OthersKeepStore
  <2>3. TargetOK' /\ CopyOK'
        BY <2>1 DEF TargetOK, IInv, CopyOK, storeVars
  <2>4. LogGrows
        BY <1>1, <2>1, SameLogGrows
  <2>5. QED
        BY <1>2, <2>1, <2>3, <2>4, OthersKeepStore
<1>8. CASE UNCHANGED vars
  <2>1. UNCHANGED storeVars /\ UNCHANGED <<log, step, part, target, done, es>>
        BY <1>8 DEF vars, relayAll, relayVars, consumerVars
  <2>2. LogGrows
        BY <1>1, <2>1, SameLogGrows
  <2>3. QED
        BY <1>1, <1>2, <2>1, <2>2, OthersKeepStore, OthersKeepThread
<1>9. QED
      BY <1>3, <1>4, <1>5, <1>6, <1>7, <1>8 DEF Next, RelaysMove

(* The inductive invariant holds in every reachable state.                 *)
THEOREM InductiveInvariant == Spec => []IInv
<1>1. QED
      BY InitIInv, NextKeepsIInv, PTL DEF Spec

(* However requests, relays, the consumer, failures and crashes interleave,*)
(* the outbox holds one event per version of every row, in version order   *)
(* (create_with_outbox, soft_delete; mark never moves a version).          *)
THEOREM OutboxComplete == Spec => []EveryVersionHasItsEvent
<1>1. IInv => EveryVersionHasItsEvent
      BY DEF IInv
<1>2. QED
      BY <1>1, InductiveInvariant, PTL

(* No row ever points at an object that is not in S3, whatever becomes of  *)
(* the request that put it there (index_upload, index_document).           *)
THEOREM BytesBeforeRow == Spec => []RowPointsAtBytes
<1>1. IInv => RowPointsAtBytes
      BY DEF IInv, RowsOK, RowPointsAtBytes
<1>2. QED
      BY <1>1, InductiveInvariant, PTL

-----------------------------------------------------------------------------
(* Elasticsearch follows the documents table.                              *)

Versions == [d \in Docs |-> row[d].ver]

(* A transaction of the API is one write, or none, of the abstract source. *)
LEMMA StoreWrites ==
    ASSUME StoreTypeOK, RowsOK, StoreNext, es' = es
    PROVE  Promise!Next \/ Versions' = Versions
<1>1. row \in [Docs -> Row]
      BY DEF StoreTypeOK
<1>2. CASE row' = row
      BY <1>2 DEF Versions
<1>3. ASSUME NEW d \in Docs,
             \A c \in Docs : row'[c].ver = IF c = d THEN row[c].ver + 1 ELSE row[c].ver
      PROVE  Promise!Next
  <2>1. Versions' = [Versions EXCEPT ![d] = @ + 1]
        BY <1>3 DEF Versions
  <2>2. Promise!Write(d)
        BY <2>1 DEF Promise!Write, Versions
  <2>3. QED
        BY <2>2 DEF Promise!Next
<1>4. ASSUME NEW d \in Docs, NEW body, CreateWithOutbox(d, body), row[d] = NoRow
      PROVE  Promise!Next
      BY <1>1, <1>3, <1>4 DEF CreateWithOutbox, NoRow
<1>5. CASE \E d \in Docs : IndexInline(d)
      BY <1>4, <1>5 DEF IndexInline, Fresh
<1>6. ASSUME NEW d \in Docs, SoftDelete(d) PROVE Promise!Next
  <2>1. \A c \in Docs : row'[c].ver = IF c = d THEN row[c].ver + 1 ELSE row[c].ver
        BY <1>1, <1>6 DEF SoftDelete, DeleteWithOutbox, Row
  <2>2. QED
        BY <1>3, <2>1
<1>7. CASE \E d \in Docs : PutRaw(d) \/ UploadAborts(d)
      BY <1>2, <1>7 DEF PutRaw, UploadAborts
<1>8. CASE \E d \in Docs : InsertRow(d)
      BY <1>4, <1>8 DEF InsertRow, BytesLanded, RowsOK
<1>9. QED
      BY <1>2, <1>5, <1>6, <1>7, <1>8 DEF StoreNext

(* A call to Elasticsearch is one abstract step forward, or none.          *)
LEMMA ConsumerFollows ==
    ASSUME IInv, ConsumerStep
    PROVE  Promise!Next \/ UNCHANGED <<Versions, es>>
<1>1. /\ Versions' = Versions
      /\ es \in [Docs -> [ver : Nat, present : BOOLEAN]]
      BY ConsumerKeepsRows DEF Versions, IInv, TypeInv, TypeOK
<1>2. ASSUME NEW present \in BOOLEAN, Apply(doc, target, present),
             doc \in Docs, target \in 1 .. row[doc].ver, present <=> target = 1
      PROVE  Promise!Next \/ UNCHANGED <<Versions, es>>
  <2>1. CASE ~Newer(doc, target)
        BY <1>1, <1>2, <2>1 DEF Apply
  <2>2. CASE Newer(doc, target)
    <3>1. target \in 1 .. Versions[doc]
          BY <1>2 DEF Versions
    <3>2. es' = [es EXCEPT ![doc] = [ver |-> target, present |-> present]]
          BY <1>2, <2>2 DEF Apply
    <3>3. present = (target = 1)
          BY <1>2
    <3>4. Promise!Follow(doc)
          BY <1>1, <2>2, <3>1, <3>2, <3>3 DEF Newer, Promise!Follow, Versions
    <3>5. QED
          BY <1>2, <3>4 DEF Promise!Next
  <2>3. QED
        BY <2>1, <2>2
<1>3. CASE step = "index" /\ Apply(doc, target, TRUE)
  <2>1. doc \in Docs /\ target = 1 /\ 1 <= row[doc].ver /\ row[doc].ver \in Nat
        BY <1>3, HandFacts DEF Busy, HandleSteps, IInv, TargetOK, Row
  <2>2. target \in 1 .. row[doc].ver /\ (TRUE <=> target = 1)
        BY <2>1
  <2>3. QED
        BY <1>2, <1>3, <2>1, <2>2
<1>4. CASE step = "delete" /\ Apply(doc, target, FALSE)
  <2>1. /\ doc \in Docs /\ target >= 2 /\ target <= row[doc].ver
        /\ row[doc].ver \in Nat /\ target \in Nat
        BY <1>4, HandFacts
        DEF Busy, HandleSteps, IInv, TargetOK, Row, TypeInv, TypeOK
  <2>2. target \in 1 .. row[doc].ver /\ target # 1
        BY <2>1
  <2>3. QED
        BY <1>2, <1>4, <2>1, <2>2
<1>5. QED
      BY <1>1, <1>3, <1>4, ConsumerShape

LEMMA StepRefines == IInv /\ [Next]_vars => [Promise!Next]_<<Versions, es>>
<1> SUFFICES ASSUME IInv, [Next]_vars
             PROVE  Promise!Next \/ UNCHANGED <<Versions, es>>
    OBVIOUS
<1>1. CASE StoreNext /\ UNCHANGED <<relayVars, budgetVars, consumerVars>>
      BY <1>1, StoreWrites DEF IInv, TypeInv, TypeOK, RelayTypeOK, consumerVars
<1>2. CASE RelaysMove /\ UNCHANGED <<storeVars, consumerVars>>
      BY <1>2 DEF storeVars, consumerVars, Versions
<1>3. CASE ConsumerStep
      BY <1>3, ConsumerFollows
<1>4. CASE \E d \in Docs : ForgetTombstone(d)
  <2>1. PICK d \in Docs : ForgetTombstone(d)
        BY <1>4
  <2>2. /\ ~es[d].present
        /\ es' = [es EXCEPT ![d].ver = 0]
        /\ Versions' = Versions
        BY <2>1 DEF ForgetTombstone, relayAll, storeVars, Versions
  <2>3. Promise!Forget(d)
        BY <2>2 DEF Promise!Forget, Versions
  <2>4. QED
        BY <2>3 DEF Promise!Next
<1>5. CASE IndexerCrash
      BY <1>5 DEF IndexerCrash, storeVars, Versions
<1>6. CASE UNCHANGED vars
      BY <1>6 DEF vars, relayAll, storeVars, consumerVars, Versions
<1>7. QED
      BY <1>1, <1>2, <1>3, <1>4, <1>5, <1>6 DEF Next, RelaysMove

(* The whole pipeline implements VersionedReplica: whatever is retried,    *)
(* redelivered, reordered or lost on the way, the index only ever moves a  *)
(* document forwards, to a version its row has reached, and shows it at    *)
(* its first version only (index, delete: version_type=external).          *)
THEOREM PipelineImplementsReplica == Spec => ImplementsReplica
<1>1. Init => Promise!Init
      BY DEF Init, RelayInit, StoreInit, NoRow, Promise!Init, Promise!Nothing
<1>2. Spec => [][Promise!Next]_<<Versions, es>>
      BY InductiveInvariant, StepRefines, PTL DEF Spec
<1>3. QED
      BY <1>1, <1>2, PTL DEF Spec, ImplementsReplica, Promise!Spec, Versions

-----------------------------------------------------------------------------
(* What is being indexed has not been deleted yet, as far as the consumer  *)
(* has seen: the row was PENDING when it looked, so no deletion was in the *)
(* outbox, and it has handled no record since.                             *)
NoDeletionHandled ==
    step \in {"body", "index"} =>
        \A p \in Partitions : \A k \in 1 .. done[p] :
            ~(log[p][k].doc = doc /\ log[p][k].op = "DELETE")

(* The cursors stay, and what lies before them stays.                      *)
LEMMA HandStays ==
    ASSUME TypeInv, LogGrows, NoDeletionHandled, UNCHANGED <<step, part, done>>
    PROVE  NoDeletionHandled'
<1>1. \A p \in Partitions : /\ done[p] \in Nat /\ Len(log[p]) \in Nat
                            /\ done[p] <= Len(log[p])
  <2>1. \A p \in Partitions : /\ done[p] \in Nat /\ position[p] \in Nat
                              /\ Len(log[p]) \in Nat
        BY DEF TypeInv, TypeOK, RelayTypeOK
  <2>2. QED
        BY <2>1 DEF TypeInv, CursorsOK
<1>2. \A p \in Partitions : \A k \in 1 .. done[p] : log'[p][k] = log[p][k]
      BY <1>1 DEF LogGrows
<1>3. CASE step \in {"body", "index"}
  <2>1. part \in Partitions /\ done[part] + 1 \in DOMAIN log[part]
        BY <1>3, RecordAtHand DEF Busy, HandleSteps
  <2>2. log[part] \in Seq(Event)
        BY <2>1 DEF TypeInv, TypeOK, RelayTypeOK
  <2>3. doc' = doc
        BY <2>1, <2>2 DEF doc, ev, LogGrows
  <2>4. QED
        BY <1>2, <1>3, <2>3 DEF NoDeletionHandled
<1>4. CASE step \notin {"body", "index"}
      BY <1>4 DEF NoDeletionHandled
<1>5. QED
      BY <1>3, <1>4

LEMMA ConsumerKeepsNoDeletion ==
    ASSUME IInv, ConsumerStep, NoDeletionHandled
    PROVE  NoDeletionHandled'
<1>1. log' = log
      BY ConsumerKeepsRows
<1>2. ASSUME step' \notin {"body", "index"} PROVE NoDeletionHandled'
      BY <1>2 DEF NoDeletionHandled
<1>3. CASE Load
  <2>1. CASE ToIndex(doc) /\ step' = "body" /\ UNCHANGED <<part, offsetVars>>
    <3>1. doc \in Docs /\ row[doc].ver = 1
          BY <1>3, <2>1, HandFacts DEF Load, Busy, HandleSteps, ToIndex, IInv, RowsOK
    <3>2. \A i \in DOMAIN outbox : outbox[i].doc = doc => outbox[i].ver = 1
          BY <3>1 DEF IInv, EveryVersionHasItsEvent
    <3>3. \A i \in DOMAIN outbox : outbox[i].doc = doc => outbox[i].op # "DELETE"
          BY <3>2 DEF IInv, OpsOK
    <3>4. \A p \in Partitions : /\ done[p] \in Nat /\ Len(log[p]) \in Nat
                                /\ done[p] <= Len(log[p])
      <4>1. \A p \in Partitions : /\ done[p] \in Nat /\ position[p] \in Nat
                                  /\ Len(log[p]) \in Nat
            BY DEF IInv, TypeInv, TypeOK, RelayTypeOK
      <4>2. QED
            BY <4>1 DEF IInv, TypeInv, CursorsOK
    <3>5. \A p \in Partitions : \A k \in 1 .. done[p] :
              ~(log[p][k].doc = doc /\ log[p][k].op = "DELETE")
      <4>1. ASSUME NEW p \in Partitions, NEW k \in 1 .. done[p]
            PROVE  ~(log[p][k].doc = doc /\ log[p][k].op = "DELETE")
        <5>1. k \in 1 .. Len(log[p])
              BY <3>4
        <5>2. PICK i \in DOMAIN outbox : log[p][k] = outbox[i]
              BY <5>1 DEF IInv, LogFromOutbox
        <5>3. QED
              BY <3>3, <5>2
      <4>2. QED
            BY <4>1
    <3>6. doc' = doc /\ done' = done
          BY <1>1, <2>1 DEF doc, ev, offsetVars
    <3>7. QED
          BY <1>1, <3>5, <3>6 DEF NoDeletionHandled
  <2>2. CASE step' = "delete"
        BY <1>2, <2>2
  <2>3. CASE FinishRecord
        BY <1>2, <2>3 DEF FinishRecord
  <2>4. QED
        BY <1>3, <2>1, <2>2, <2>3 DEF Load
<1>4. CASE BodyFor
  <2>1. CASE GoTo("index")
    <3>1. doc' = doc /\ done' = done /\ step = "body"
          BY <1>1, <1>4, <2>1 DEF BodyFor, GoTo, doc, ev, offsetVars
    <3>2. QED
          BY <1>1, <3>1 DEF NoDeletionHandled
  <2>2. CASE GoTo("mark_failed") \/ Retry
        BY <1>2, <2>2 DEF GoTo, Retry
  <2>3. QED
        BY <1>4, <2>1, <2>2 DEF BodyFor, AfterBody
<1>5. CASE Poll \/ NextPartition \/ Commit
      BY <1>2, <1>5 DEF Poll, NextPartition, Commit, AfterCommit, GoTo
<1>6. CASE Invalidate \/ DeadLetterPublish \/ MarkFailed
      BY <1>2, <1>6 DEF Invalidate, DeadLetterPublish, MarkFailed, FinishRecord
<1>7. CASE \/ BeginDelete \/ Index \/ MarkLive \/ Delete \/ DeadLetterMark
           \/ ThreadDies
      BY <1>2, <1>7 DEF BeginDelete, Index, MarkLive, Delete, DeadLetterMark,
                        ThreadDies, GoTo
<1>8. CASE HandleRaises
      BY <1>2, <1>8 DEF HandleRaises, Retry
<1>9. QED
      BY <1>3, <1>4, <1>5, <1>6, <1>7, <1>8 DEF ConsumerStep, ConsumerWorks

LEMMA NextKeepsNoDeletion ==
    IInv /\ NoDeletionHandled /\ [Next]_vars => NoDeletionHandled'
<1> SUFFICES ASSUME IInv, NoDeletionHandled, [Next]_vars PROVE NoDeletionHandled'
    OBVIOUS
<1>1. TypeInv /\ RelayTypeOK
      BY DEF IInv, TypeInv, TypeOK
<1>2. CASE StoreNext /\ UNCHANGED <<relayVars, budgetVars, consumerVars>>
      BY <1>1, <1>2, SameLogGrows, HandStays DEF relayVars, consumerVars
<1>3. CASE RelaysMove /\ UNCHANGED <<storeVars, consumerVars>>
      BY <1>1, <1>3, MoveTypes, HandStays DEF consumerVars
<1>4. CASE ConsumerStep
      BY <1>4, ConsumerKeepsNoDeletion
<1>5. CASE \E d \in Docs : ForgetTombstone(d)
      BY <1>1, <1>5, SameLogGrows, HandStays
      DEF ForgetTombstone, relayAll, relayVars, offsetVars, threadVars
<1>6. CASE IndexerCrash
      BY <1>6 DEF IndexerCrash, NoDeletionHandled
<1>7. CASE UNCHANGED vars
      BY <1>1, <1>7, SameLogGrows, HandStays DEF vars, relayAll, relayVars, consumerVars
<1>8. QED
      BY <1>2, <1>3, <1>4, <1>5, <1>6, <1>7 DEF Next, RelaysMove

(* A document turns findable only by an index call.                        *)
LEMMA OnlyIndexShows ==
    ASSUME IInv, [Next]_vars, NEW d \in Docs, ~es[d].present, es'[d].present
    PROVE  step = "index" /\ d = doc
<1>1. es \in [Docs -> [ver : Nat, present : BOOLEAN]]
      BY DEF IInv, TypeInv, TypeOK
<1>2. es' # es
      OBVIOUS
<1>3. CASE ConsumerStep
  <2>1. CASE step = "index" /\ Apply(doc, target, TRUE)
        BY <1>1, <2>1 DEF Apply
  <2>2. CASE step = "delete" /\ Apply(doc, target, FALSE)
        BY <1>1, <2>2 DEF Apply
  <2>3. QED
        BY <1>2, <1>3, <2>1, <2>2, ConsumerShape
<1>4. CASE \E c \in Docs : ForgetTombstone(c)
      BY <1>1, <1>4 DEF ForgetTombstone
<1>5. CASE ~ConsumerStep /\ ~\E c \in Docs : ForgetTombstone(c)
      BY <1>2, <1>5 DEF Next, consumerVars, IndexerCrash, vars
<1>6. QED
      BY <1>3, <1>4, <1>5

(* Once the consumer has handled the deletion of a document, nothing makes *)
(* it findable again: no retry, no redelivery, no duplicate or overtaken   *)
(* record, and not Elasticsearch forgetting the deletion (handle, _index). *)
THEOREM DeletedStayDeleted == Spec => NoResurrection
<1> DEFINE Shown == \A d \in Docs :
                       ~es[d].present /\ es'[d].present =>
                           \A p \in Partitions : \A k \in 1 .. done[p] :
                               ~(log[p][k].doc = d /\ log[p][k].op = "DELETE")
<1>1. Init => NoDeletionHandled
      BY DEF Init, NoDeletionHandled
<1>2. Spec => []NoDeletionHandled
      BY <1>1, NextKeepsNoDeletion, InductiveInvariant, PTL DEF Spec
<1>3. IInv /\ NoDeletionHandled /\ [Next]_vars => Shown
      BY OnlyIndexShows DEF NoDeletionHandled
<1>4. IInv /\ NoDeletionHandled /\ [Next]_vars => [Shown]_vars
      BY <1>3
<1>5. QED
      BY <1>2, <1>4, InductiveInvariant, PTL DEF Spec, NoResurrection

-----------------------------------------------------------------------------
(* What the rows, the objects and the topic can do under the consumer.     *)

(* A row appears, PENDING; or it is deleted, one version later; and an     *)
(* object that is there stays.                                             *)
RowsMove ==
    \A d \in Docs :
        /\ \/ row'[d] = row[d]
           \/ row[d] = NoRow /\ row'[d].status = "PENDING" /\ row'[d].ver = 1
           \/ /\ row[d].ver >= 1
              /\ row'[d].status = "DELETED"
              /\ row'[d].ver = row[d].ver + 1
              /\ row'[d].body = row[d].body
        /\ raw[d] # "none" => raw'[d] = raw[d]

(* Elasticsearch may forget what it does not show.                         *)
CopiesForgotten ==
    \A d \in Docs : \/ es'[d] = es[d]
                    \/ ~es[d].present /\ es'[d] = [ver |-> 0, present |-> FALSE]

LEMMA StoreMoves ==
    ASSUME StoreTypeOK, RowsOK, StoreNext
    PROVE  RowsMove
<1> USE DEF RowsMove
<1>1. row \in [Docs -> Row] /\ raw \in [Docs -> (AllContents \ {"inline"}) \cup {"none"}]
      BY DEF StoreTypeOK
<1>2. ASSUME NEW d \in Docs, NEW body, CreateWithOutbox(d, body), row[d] = NoRow, raw' = raw
      PROVE  RowsMove
      BY <1>1, <1>2 DEF CreateWithOutbox
<1>3. ASSUME NEW d \in Docs, IndexInline(d) PROVE RowsMove
      BY <1>2, <1>3 DEF IndexInline, Fresh
<1>4. ASSUME NEW d \in Docs, PutRaw(d) PROVE RowsMove
      BY <1>1, <1>4 DEF PutRaw, Fresh
<1>5. ASSUME NEW d \in Docs, InsertRow(d) PROVE RowsMove
      BY <1>2, <1>5 DEF InsertRow, BytesLanded, RowsOK
<1>6. ASSUME NEW d \in Docs, UploadAborts(d) PROVE RowsMove
      BY <1>6 DEF UploadAborts
<1>7. ASSUME NEW d \in Docs, SoftDelete(d) PROVE RowsMove
  <2>1. row[d].ver >= 1
        BY <1>1, <1>7 DEF SoftDelete, RowsOK, NoRow, Row
  <2>2. /\ row'[d].status = "DELETED"
        /\ row'[d].ver = row[d].ver + 1
        /\ row'[d].body = row[d].body
        /\ \A c \in Docs : c # d => row'[c] = row[c]
        BY <1>1, <1>7 DEF SoftDelete, DeleteWithOutbox, Row
  <2>3. raw' = raw
        BY <1>7 DEF SoftDelete
  <2>4. QED
        BY <2>1, <2>2, <2>3
<1>8. QED
      BY <1>3, <1>4, <1>5, <1>6, <1>7 DEF StoreNext

(* Everything but a step of the consumer: the sinks stay, and so does the  *)
(* thread, unless its process dies.                                        *)
OthersMove ==
    /\ RowsMove /\ LogGrows /\ CopiesForgotten
    /\ UNCHANGED <<text, dlq, unbumped>>
    /\ crashes <= crashes'
    /\ faults <= faults'
    /\ UNCHANGED <<step, part, done, position, committed>> \/ IndexerCrash

LEMMA OthersShape ==
    ASSUME IInv, [Next]_vars, ~ConsumerStep
    PROVE  OthersMove
<1>1. /\ RelayTypeOK /\ StoreTypeOK /\ RowsOK /\ faults \in Nat /\ crashes \in Nat
      /\ es \in [Docs -> [ver : Nat, present : BOOLEAN]]
      BY DEF IInv, TypeInv, TypeOK, RelayTypeOK
<1>2. ASSUME UNCHANGED <<row, raw>> PROVE RowsMove
      BY <1>2 DEF RowsMove
<1>3. ASSUME es' = es PROVE CopiesForgotten
      BY <1>3 DEF CopiesForgotten
<1>4. CASE StoreNext /\ UNCHANGED <<relayVars, budgetVars, consumerVars>>
  <2>1. RowsMove
        BY <1>1, <1>4, StoreMoves
  <2>2. LogGrows
        BY <1>1, <1>4, SameLogGrows DEF relayVars
  <2>3. QED
        BY <1>1, <1>3, <1>4, <2>1, <2>2 DEF OthersMove, consumerVars, budgetVars
<1>5. CASE \E r \in Relays : RelayStep(r) /\ UNCHANGED <<storeVars, consumerVars>>
  <2>1. PICK r \in Relays : RelayStep(r) /\ UNCHANGED <<storeVars, consumerVars>>
        BY <1>5
  <2>2. LogGrows
        BY <1>1, <2>1, RelayTypes
  <2>3. crashes' = crashes /\ faults <= faults'
        BY <1>1, <2>1 DEF RelayStep, SelectUnpublished, CommitClaim, Publish,
                          PublishRaises, ClaimRaises, Fault, budgetVars
  <2>4. QED
        BY <1>1, <1>2, <1>3, <2>1, <2>2, <2>3 DEF OthersMove, consumerVars, storeVars
<1>6. CASE \E r \in Relays : RelayCrash(r) /\ UNCHANGED <<storeVars, consumerVars>>
  <2>1. PICK r \in Relays : RelayCrash(r) /\ UNCHANGED <<storeVars, consumerVars>>
        BY <1>6
  <2>2. LogGrows
        BY <1>1, <2>1, RelayTypes
  <2>3. crashes <= crashes' /\ faults' = faults
        BY <1>1, <2>1 DEF RelayCrash
  <2>4. QED
        BY <1>1, <1>2, <1>3, <2>1, <2>2, <2>3 DEF OthersMove, consumerVars, storeVars
<1>7. CASE LateStep /\ UNCHANGED <<storeVars, consumerVars>>
  <2>1. LogGrows
        BY <1>1, <1>7, LateTypes
  <2>2. crashes' = crashes /\ faults <= faults'
        BY <1>1, <1>7 DEF LateStep, LateLands, LateExpires, Fault, budgetVars
  <2>3. QED
        BY <1>1, <1>2, <1>3, <1>7, <2>1, <2>2 DEF OthersMove, consumerVars, storeVars
<1>8. CASE \E d \in Docs : ForgetTombstone(d)
  <2>1. PICK d \in Docs : ForgetTombstone(d)
        BY <1>8
  <2>2. UNCHANGED <<relayAll, offsetVars, threadVars, text, dlq, unbumped>>
        BY <2>1 DEF ForgetTombstone
  <2>3. LogGrows
        BY <1>1, <2>2, SameLogGrows DEF relayAll, relayVars
  <2>4. CopiesForgotten
        BY <1>1, <2>1 DEF ForgetTombstone, CopiesForgotten
  <2>5. QED
        BY <1>1, <1>2, <2>2, <2>3, <2>4
        DEF OthersMove, relayAll, storeVars, budgetVars, offsetVars, threadVars
<1>9. CASE IndexerCrash
  <2>1. LogGrows
        BY <1>1, <1>9, SameLogGrows DEF IndexerCrash, RelayStops
  <2>2. QED
        BY <1>1, <1>2, <1>3, <1>9, <2>1 DEF OthersMove, IndexerCrash, storeVars
<1>10. CASE UNCHANGED vars
  <2>1. LogGrows
        BY <1>1, <1>10, SameLogGrows DEF vars, relayAll, relayVars
  <2>2. QED
        BY <1>1, <1>2, <1>3, <1>10, <2>1
        DEF OthersMove, vars, relayAll, storeVars, budgetVars, consumerVars
<1>11. QED
      BY <1>4, <1>5, <1>6, <1>7, <1>8, <1>9, <1>10 DEF Next

(* While the cursor stays, so does the record under it.                    *)
LEMMA SameRecord ==
    ASSUME TypeInv, LogGrows, UNCHANGED <<part, done>>, done[part] < Len(log[part])
    PROVE  ev' = ev /\ doc' = doc
<1>1. /\ part \in Partitions /\ done[part] \in Nat
      /\ Len(log[part]) \in Nat
      BY DEF TypeInv, TypeOK, RelayTypeOK
<1>2. done[part] + 1 \in 1 .. Len(log[part])
      BY <1>1
<1>3. ev' = ev
      BY <1>1, <1>2 DEF ev, LogGrows
<1>4. QED
      BY <1>3 DEF doc

LEMMA BusyRecord ==
    ASSUME TypeInv, step \in Busy
    PROVE  done[part] < position[part] /\ done[part] < Len(log[part])
<1>1. /\ part \in Partitions /\ done[part] \in Nat /\ position[part] \in Nat
      /\ Len(log[part]) \in Nat
      BY DEF TypeInv, TypeOK, RelayTypeOK
<1>2. QED
      BY <1>1 DEF TypeInv, CursorsOK

(* What the consumer writes to a row says where it stands.                 *)
LEMMA ConsumerMarks ==
    ASSUME ConsumerStep
    PROVE  /\ \/ row' = row
              \/ step = "mark_live" /\ Mark(doc, "LIVE")
              \/ step \in {"mark_failed", "dlq_mark"} /\ Mark(doc, "FAILED")
           /\ text \subseteq text'
           /\ dlq \subseteq dlq'
           /\ raw' = raw /\ log' = log /\ outbox' = outbox /\ crashes' = crashes
<1>1. raw' = raw /\ log' = log /\ outbox' = outbox /\ crashes' = crashes
      BY DEF ConsumerStep, relayVars
<1>2. CASE Poll \/ NextPartition \/ BeginDelete \/ Commit \/ Invalidate
           \/ DeadLetterPublish
      BY <1>1, <1>2 DEF Poll, NextPartition, BeginDelete, Commit, Invalidate,
                        DeadLetterPublish, ToDlq
<1>3. CASE Load \/ BodyFor \/ ThreadDies
      BY <1>1, <1>3 DEF Load, BodyFor, ThreadDies, TextPut, ToDlq
<1>4. CASE Index \/ Delete
      BY <1>1, <1>4 DEF Index, Delete
<1>5. CASE MarkLive \/ MarkFailed \/ DeadLetterMark
      BY <1>1, <1>5 DEF MarkLive, MarkFailed, DeadLetterMark
<1>6. CASE HandleRaises
      BY <1>1, <1>6 DEF HandleRaises
<1>7. QED
      BY <1>2, <1>3, <1>4, <1>5, <1>6 DEF ConsumerStep, ConsumerWorks

-----------------------------------------------------------------------------
(* What a search finds, and what the row says of it.                       *)

(* What the thread knows of the record at hand at each of its steps.       *)
AtHand ==
    /\ step \in {"body", "index", "mark_live", "mark_failed"} => ev.op = "UPSERT"
    /\ step = "index" /\ row[doc].body = "s3" => doc \in text
    /\ step = "mark_live" /\ row[doc].ver = 1 =>
          es[doc] = [ver |-> 1, present |-> TRUE]
    /\ step = "mark_failed" => raw[doc] = "scan"
    /\ step = "invalidate" /\ ev.op = "DELETE" => ~es[doc].present
    /\ step = "commit" => done[part] = position[part]

(* Version 1 is only ever written as findable.                             *)
ShownOnce == \A d \in Docs : es[d].ver = 1 => es[d].present

SearchInv == AtHand /\ ShownOnce /\ LiveIsSearchable /\ ReindexFindsText

(* A step that leaves the record and goes to no step AtHand speaks of.     *)
LEMMA FinishedAtHand ==
    ASSUME TypeInv, step \in Busy, FinishRecord
    PROVE  AtHand'
<1>1. /\ part \in Partitions
      /\ done \in [Partitions -> Nat] /\ position \in [Partitions -> Nat]
      /\ done[part] < position[part]
      BY DEF TypeInv, TypeOK, CursorsOK
<1>2. /\ done' = [done EXCEPT ![part] = @ + 1]
      /\ step' = IF done[part] + 1 < position[part] THEN "begin" ELSE "commit"
      /\ part' = part /\ position' = position
      BY DEF FinishRecord
<1>3. step' \in {"begin", "commit"}
      BY <1>2
<1>4. step' = "commit" => done'[part'] = position'[part']
      BY <1>1, <1>2
<1>5. QED
      BY <1>3, <1>4 DEF AtHand

LEMMA ConsumerKeepsAtHand ==
    ASSUME IInv, SearchInv, ConsumerStep
    PROVE  AtHand'
<1> USE DEF Busy, HandleSteps
<1>1. /\ TypeInv /\ log' = log /\ raw' = raw
      /\ es \in [Docs -> [ver : Nat, present : BOOLEAN]]
      BY ConsumerMarks DEF IInv, TypeInv, TypeOK
<1>2. ASSUME step' \notin {"body", "index", "mark_live", "mark_failed",
                           "invalidate", "commit"}
      PROVE  AtHand'
      BY <1>2 DEF AtHand
<1>3. ASSUME UNCHANGED <<done, part>> PROVE ev' = ev /\ doc' = doc
      BY <1>1, <1>3 DEF ev, doc
<1>4. CASE Poll \/ NextPartition \/ BeginDelete \/ Commit
      BY <1>2, <1>4 DEF Poll, NextPartition, BeginDelete, Commit, AfterCommit, GoTo
<1>5. CASE DeadLetterMark \/ ThreadDies \/ HandleRaises
      BY <1>2, <1>5 DEF DeadLetterMark, ThreadDies, HandleRaises, GoTo, Retry
<1>6. CASE Invalidate \/ MarkFailed \/ DeadLetterPublish
      BY <1>1, <1>6, FinishedAtHand DEF Invalidate, MarkFailed, DeadLetterPublish
<1>7. CASE Load
  <2>1. CASE FinishRecord
        BY <1>1, <1>7, <2>1, FinishedAtHand DEF Load
  <2>2. CASE step' = "delete"
        BY <1>2, <2>2
  <2>3. CASE step' = "body" /\ UNCHANGED <<part, offsetVars>>
        BY <1>3, <1>7, <2>3 DEF Load, AtHand, offsetVars
  <2>4. QED
        BY <1>7, <2>1, <2>2, <2>3 DEF Load
<1>8. CASE BodyFor
  <2>1. ev.op = "UPSERT" /\ ev' = ev /\ doc' = doc /\ row' = row
        BY <1>3, <1>8 DEF BodyFor, SearchInv, AtHand, GoTo, Retry, offsetVars
  <2>2. doc \in Docs /\ row[doc] \in Row
        BY <1>8, HandFacts DEF BodyFor
  <2>3. CASE (row[doc].body = "inline" \/ doc \in text) /\ GoTo(AfterBody) /\ UNCHANGED text
        BY <2>1, <2>3 DEF GoTo, AfterBody, AtHand
  <2>4. CASE text' = TextPut /\ GoTo(AfterBody)
        BY <2>1, <2>4 DEF GoTo, AfterBody, AtHand, TextPut
  <2>5. CASE raw[doc] = "scan" /\ GoTo("mark_failed")
        BY <1>1, <2>1, <2>5 DEF GoTo, AtHand
  <2>6. CASE Retry
        BY <1>2, <2>6 DEF Retry
  <2>7. QED
        BY <1>8, <2>3, <2>4, <2>5, <2>6 DEF BodyFor
<1>9. CASE Index
  <2>1. /\ ev.op = "UPSERT" /\ ev' = ev /\ doc' = doc /\ row' = row
        /\ step' = "mark_live" /\ step = "index" /\ Apply(doc, target, TRUE)
        BY <1>3, <1>9 DEF Index, SearchInv, AtHand, GoTo, offsetVars
  <2>2. doc \in Docs /\ row[doc] \in Row /\ target = 1
        BY <1>9, HandFacts DEF Index, IInv, TargetOK
  <2>3. ASSUME row[doc].ver = 1 PROVE es'[doc] = [ver |-> 1, present |-> TRUE]
    <3>1. CASE Newer(doc, target)
          BY <1>1, <2>1, <2>2, <3>1 DEF Apply
    <3>2. CASE ~Newer(doc, target)
      <4>1. es' = es /\ es[doc].ver >= 1 /\ es[doc].ver <= 1
            BY <1>1, <2>1, <2>2, <2>3, <3>2 DEF Apply, Newer, IInv, CopyOK
      <4>2. es[doc].ver = 1 /\ es[doc].present
            BY <1>1, <2>2, <4>1 DEF SearchInv, ShownOnce
      <4>3. es[doc] = [ver |-> 1, present |-> TRUE]
            BY <1>1, <2>2, <4>2
      <4>4. QED
            BY <4>1, <4>3
    <3>3. QED
          BY <3>1, <3>2
  <2>4. QED
        BY <2>1, <2>3 DEF AtHand
<1>10. CASE MarkLive
  <2>1. ev.op = "UPSERT" /\ ev' = ev /\ step' = "invalidate"
        BY <1>3, <1>10 DEF MarkLive, SearchInv, AtHand, GoTo, offsetVars
  <2>2. QED
        BY <2>1 DEF AtHand
<1>11. CASE Delete
  <2>1. /\ ev' = ev /\ doc' = doc /\ step' = "invalidate" /\ step = "delete"
        /\ Apply(doc, target, FALSE)
        BY <1>3, <1>11 DEF Delete, GoTo, offsetVars
  <2>2. doc \in Docs /\ target >= 2 /\ target \in Nat
        BY <2>1, HandFacts DEF IInv, TargetOK, TypeInv, TypeOK
  <2>3. ~es'[doc].present
    <3>1. CASE Newer(doc, target)
          BY <1>1, <2>1, <2>2, <3>1 DEF Apply
    <3>2. CASE ~Newer(doc, target)
          BY <1>1, <2>1, <2>2, <3>2 DEF Apply, Newer, IInv, CopyOK
    <3>3. QED
          BY <3>1, <3>2
  <2>4. QED
        BY <2>1, <2>3 DEF AtHand
<1>12. QED
      BY <1>4, <1>5, <1>6, <1>7, <1>8, <1>9, <1>10, <1>11
      DEF ConsumerStep, ConsumerWorks

LEMMA ConsumerKeepsSearch ==
    ASSUME IInv, SearchInv, ConsumerStep
    PROVE  SearchInv'
<1> USE DEF Busy, HandleSteps
<1>1. /\ AtHand' /\ text \subseteq text'
      /\ es \in [Docs -> [ver : Nat, present : BOOLEAN]]
      /\ row \in [Docs -> Row] /\ StoreTypeOK
      BY ConsumerKeepsAtHand, ConsumerMarks
      DEF IInv, TypeInv, TypeOK, RelayTypeOK, StoreTypeOK
<1> DEFINE Found == ShownOnce' /\ LiveIsSearchable' /\ ReindexFindsText'
<1>2. CASE row' = row /\ es' = es
      BY <1>1, <1>2 DEF SearchInv, ShownOnce, LiveIsSearchable, ReindexFindsText
<1>3. ASSUME step \in Busy, es' = es, NEW status \in {"LIVE", "FAILED"},
             Mark(doc, status), UNCHANGED <<raw, uploading, outbox>>,
             status = "LIVE" => step = "mark_live"
      PROVE  Found
  <2>1. doc \in Docs
        BY <1>3, HandFacts
  <2>2. /\ \A c \in Docs : row'[c].ver = row[c].ver /\ row'[c].body = row[c].body
        /\ \A c \in Docs : c # doc => row'[c] = row[c]
        /\ row'[doc].status = status
        BY <1>1, <1>3, <2>1, MarkKeeps
  <2>3. ShownOnce' /\ ReindexFindsText'
        BY <1>1, <1>3, <2>2 DEF SearchInv, ShownOnce, ReindexFindsText
  <2>4. LiveIsSearchable'
        BY <1>3, <2>1, <2>2 DEF SearchInv, LiveIsSearchable, AtHand
  <2>5. QED
        BY <2>3, <2>4
<1>4. CASE row' = row /\ step = "index" /\ Apply(doc, target, TRUE)
  <2>1. doc \in Docs /\ target = 1
        BY <1>4, HandFacts DEF IInv, TargetOK
  <2>2. \A c \in Docs : \/ es'[c] = es[c]
                        \/ c = doc /\ es'[c] = [ver |-> 1, present |-> TRUE]
        BY <1>1, <1>4, <2>1 DEF Apply
  <2>3. row[doc].body = "s3" => doc \in text
        BY <1>4 DEF SearchInv, AtHand
  <2>4. ShownOnce'
        BY <1>4, <2>2 DEF SearchInv, ShownOnce
  <2>5. LiveIsSearchable'
        BY <1>4, <2>2 DEF SearchInv, LiveIsSearchable
  <2>6. ReindexFindsText'
        BY <1>1, <1>4, <2>2, <2>3 DEF SearchInv, ReindexFindsText
  <2>7. QED
        BY <1>1, <2>4, <2>5, <2>6 DEF SearchInv
<1>5. CASE row' = row /\ step = "delete" /\ Apply(doc, target, FALSE)
  <2>1. /\ doc \in Docs /\ target >= 2 /\ target <= row[doc].ver
        /\ target \in Nat /\ row[doc].ver \in Nat
        BY <1>5, HandFacts DEF IInv, TargetOK, TypeInv, TypeOK, Row
  <2>2. \A c \in Docs : \/ es'[c] = es[c]
                        \/ c = doc /\ es'[c] = [ver |-> target, present |-> FALSE]
        BY <1>1, <1>5, <2>1 DEF Apply
  <2>3. target # 1 /\ row[doc].ver # 1
        BY <2>1
  <2>4. ShownOnce'
        BY <1>5, <2>2, <2>3 DEF SearchInv, ShownOnce
  <2>5. LiveIsSearchable'
        BY <1>5, <2>2, <2>3 DEF SearchInv, LiveIsSearchable
  <2>6. ReindexFindsText'
        BY <1>1, <1>5, <2>2, <2>3 DEF SearchInv, ReindexFindsText
  <2>7. QED
        BY <1>1, <2>4, <2>5, <2>6 DEF SearchInv
<1>6. QED
  <2>1. UNCHANGED <<raw, uploading, outbox>>
        BY ConsumerShape
  <2>2. CASE row' = row
        BY <1>2, <1>4, <1>5, <2>2, ConsumerShape
  <2>3. CASE row' # row
    <3>1. es' = es
      <4>1. step \in {"mark_live", "mark_failed", "dlq_mark"}
            BY <2>3, ConsumerMarks
      <4>2. QED
            BY <4>1, ConsumerShape
    <3>2. QED
          BY <1>1, <1>3, <2>1, <2>3, <3>1, ConsumerMarks DEF SearchInv
  <2>4. QED
        BY <2>2, <2>3

(* The others: a row that is LIVE or FAILED at version 1 was so before, an *)
(* object found stays, and only what is not shown is forgotten.            *)
LEMMA OthersKeepAtHand ==
    ASSUME IInv, SearchInv, OthersMove
    PROVE  AtHand'
<1>1. CASE IndexerCrash
      BY <1>1 DEF IndexerCrash, AtHand
<1>2. CASE UNCHANGED <<step, part, done, position, committed>>
  <2>1. CASE step \in Busy
    <3>1. /\ ev' = ev /\ doc' = doc /\ doc \in Docs /\ row[doc] \in Row
          /\ row[doc].ver >= 1
      <4>1. done[part] < Len(log[part])
            BY <2>1, BusyRecord DEF IInv
      <4>2. ev' = ev /\ doc' = doc
            BY <1>2, <4>1, SameRecord DEF OthersMove, IInv
      <4>3. QED
            BY <2>1, <4>2, HandFacts DEF Row
    <3>2. /\ row'[doc].ver = 1 => row[doc].ver = 1
          /\ row'[doc].body = row[doc].body
          /\ raw[doc] # "none" => raw'[doc] = raw[doc]
          BY <3>1 DEF OthersMove, RowsMove, Row, NoRow
    <3>3. \/ es'[doc] = es[doc]
          \/ ~es[doc].present /\ ~es'[doc].present
          BY <3>1 DEF OthersMove, CopiesForgotten
    <3>4. text' = text /\ step' = step /\ step # "commit"
          BY <1>2, <2>1 DEF OthersMove, Busy, HandleSteps
    <3>5. /\ step \in {"body", "index", "mark_live", "mark_failed"} => ev.op = "UPSERT"
          /\ step = "index" /\ row[doc].body = "s3" => doc \in text
          /\ step = "mark_live" /\ row[doc].ver = 1 =>
                es[doc] = [ver |-> 1, present |-> TRUE]
          /\ step = "mark_failed" => raw[doc] = "scan"
          /\ step = "invalidate" /\ ev.op = "DELETE" => ~es[doc].present
          BY DEF SearchInv, AtHand
    <3>6. QED
          BY <3>1, <3>2, <3>3, <3>4, <3>5 DEF AtHand
  <2>2. CASE step \notin Busy
        BY <1>2, <2>2 DEF SearchInv, AtHand, Busy, HandleSteps
  <2>3. QED
        BY <2>1, <2>2
<1>3. QED
      BY <1>1, <1>2 DEF OthersMove

LEMMA NextKeepsSearch == IInv /\ SearchInv /\ [Next]_vars => SearchInv'
<1> SUFFICES ASSUME IInv, SearchInv, [Next]_vars, ~ConsumerStep PROVE SearchInv'
    BY ConsumerKeepsSearch
<1>1. OthersMove
      BY OthersShape
<1>2. AtHand'
      BY <1>1, OthersKeepAtHand
<1>3. /\ row \in [Docs -> Row] /\ es \in [Docs -> [ver : Nat, present : BOOLEAN]]
      /\ text' = text /\ RowsMove /\ CopiesForgotten
      BY <1>1 DEF OthersMove, IInv, TypeInv, TypeOK, RelayTypeOK, StoreTypeOK
<1>4. ASSUME NEW d \in Docs
      PROVE  /\ es'[d].ver = 1 => es'[d].present
             /\ row'[d].status = "LIVE" /\ row'[d].ver = 1 =>
                   es'[d] = [ver |-> 1, present |-> TRUE]
             /\ es'[d].present /\ row'[d].body = "s3" => d \in text'
  <2>1. es'[d] = es[d] \/ (~es[d].present /\ ~es'[d].present /\ es'[d].ver = 0)
        BY <1>3 DEF CopiesForgotten
  <2>2. /\ row'[d].status = "LIVE" => row'[d] = row[d]
        /\ row[d].ver >= 1 => row'[d].body = row[d].body
        BY <1>3 DEF RowsMove, NoRow
  <2>3. es[d].present => row[d].ver >= 1
        BY <1>3 DEF IInv, CopyOK, Row
  <2>4. es'[d].ver = 1 => es'[d].present
        BY <2>1 DEF SearchInv, ShownOnce
  <2>5. row'[d].status = "LIVE" /\ row'[d].ver = 1 =>
            es'[d] = [ver |-> 1, present |-> TRUE]
        BY <2>1, <2>2 DEF SearchInv, LiveIsSearchable
  <2>6. es'[d].present /\ row'[d].body = "s3" => d \in text'
        BY <1>3, <2>1, <2>2, <2>3 DEF SearchInv, ReindexFindsText
  <2>7. QED
        BY <2>4, <2>5, <2>6
<1>5. QED
      BY <1>2, <1>4 DEF SearchInv, ShownOnce, LiveIsSearchable, ReindexFindsText

(* What the consumer has at hand agrees with row, bodies and index: the    *)
(* step it is at says what has been read, kept and written (handle).       *)
THEOREM SearchInvariant == Spec => []SearchInv
<1>1. Init => SearchInv
      BY DEF Init, RelayInit, StoreInit, NoRow, SearchInv, AtHand, ShownOnce,
             LiveIsSearchable, ReindexFindsText
<1>2. QED
      BY <1>1, NextKeepsSearch, InductiveInvariant, PTL DEF Spec

(* A document nobody deleted is LIVE only once searches find it, through   *)
(* redelivery, retries, crashes and forgotten tombstones (_index,          *)
(* build_progress).                                                        *)
THEOREM LiveMeansIndexed == Spec => []LiveIsSearchable
<1>1. SearchInv => LiveIsSearchable
      BY DEF SearchInv
<1>2. QED
      BY <1>1, SearchInvariant, PTL

(* What searches find has its extracted text in S3: indexing it again      *)
(* needs no second extraction (_body_for).                                 *)
THEOREM TextIsKept == Spec => []ReindexFindsText
<1>1. SearchInv => ReindexFindsText
      BY DEF SearchInv
<1>2. QED
      BY <1>1, SearchInvariant, PTL

-----------------------------------------------------------------------------
(* Failures.                                                               *)

(* Until a process dies, an unexplained FAILED is that of the record the   *)
(* thread is about to dead-letter, or died dead-lettering.                 *)
Unexplained(d) ==
    /\ row[d].status = "FAILED" /\ row[d].ver = 1
    /\ raw[d] # "scan"
    /\ ~DeadLettered(d, 1)

FailedAtHand ==
    crashes = 0 =>
        \A d \in Docs : Unexplained(d) =>
            /\ step \in {"dlq_publish", "dead"}
            /\ done[part] < Len(log[part])
            /\ IsEvent(ev, d, 1)

LEMMA ConsumerKeepsFailed ==
    ASSUME IInv, SearchInv, FailedAtHand, ConsumerStep
    PROVE  FailedAtHand'
<1> USE DEF Busy, HandleSteps
<1>1. /\ TypeInv /\ log' = log /\ raw' = raw /\ dlq \subseteq dlq' /\ crashes' = crashes
      /\ StoreTypeOK /\ UNCHANGED <<raw, uploading, outbox>>
      /\ row \in [Docs -> Row]
      BY ConsumerMarks, ConsumerShape
      DEF IInv, TypeInv, TypeOK, RelayTypeOK, StoreTypeOK
<1>2. SUFFICES ASSUME crashes = 0, NEW d \in Docs, Unexplained(d)'
      PROVE  /\ step' \in {"dlq_publish", "dead"}
             /\ done'[part'] < Len(log'[part'])
             /\ IsEvent(ev', d, 1)
      BY <1>1 DEF FailedAtHand
<1>3. ASSUME UNCHANGED <<done, part>> PROVE ev' = ev /\ doc' = doc
      BY <1>1, <1>3 DEF ev, doc
<1>4. raw[d] # "scan" /\ ~DeadLettered(d, 1)
      BY <1>1, <1>2 DEF Unexplained, DeadLettered
<1>5. ASSUME row'[d] = row[d]
      PROVE  /\ step \in {"dlq_publish", "dead"}
             /\ done[part] < Len(log[part])
             /\ IsEvent(ev, d, 1)
      BY <1>2, <1>4, <1>5 DEF Unexplained, FailedAtHand
<1>6. ASSUME step \in Busy, NEW status \in {"LIVE", "FAILED"}, Mark(doc, status),
             row'[d] # row[d]
      PROVE  d = doc /\ status = "FAILED" /\ row[d].ver = 1
  <2>1. doc \in Docs
        BY <1>6, HandFacts
  <2>2. /\ \A c \in Docs : row'[c].ver = row[c].ver
        /\ \A c \in Docs : c # doc => row'[c] = row[c]
        /\ row'[doc].status = status
        BY <1>1, <1>6, <2>1, MarkKeeps
  <2>3. QED
        BY <1>2, <1>6, <2>2 DEF Unexplained
<1>7. CASE DeadLetterMark
  <2>1. /\ step = "dlq_mark" /\ Mark(doc, "FAILED") /\ step' = "dlq_publish"
        /\ UNCHANGED <<done, part>>
        BY <1>7 DEF DeadLetterMark, GoTo, offsetVars
  <2>2. d = doc /\ row[d].ver = 1
        BY <1>5, <1>6, <2>1
  <2>3. IsEvent(ev, d, 1)
        BY <2>1, <2>2, HandFacts DEF IsEvent, doc
  <2>4. done[part] < Len(log[part])
        BY <2>1, <1>1, BusyRecord
  <2>5. QED
        BY <1>1, <1>3, <2>1, <2>3, <2>4
<1>8. CASE DeadLetterPublish
  <2>1. row' = row /\ dlq' = dlq \cup {ev}
        BY <1>8 DEF DeadLetterPublish, ToDlq
  <2>2. IsEvent(ev, d, 1)
        BY <1>5, <2>1
  <2>3. DeadLettered(d, 1)'
        BY <2>1, <2>2 DEF DeadLettered, IsEvent
  <2>4. QED
        BY <1>2, <2>3 DEF Unexplained
<1>9. CASE ThreadDies
  <2>1. row' = row /\ step' = "dead" /\ UNCHANGED <<done, part>>
        BY <1>9 DEF ThreadDies, GoTo
  <2>2. QED
        BY <1>1, <1>3, <1>5, <2>1
<1>10. CASE MarkFailed \/ (step = "mark_failed" /\ Mark(doc, "FAILED"))
  <2>1. step = "mark_failed" /\ Mark(doc, "FAILED")
        BY <1>10 DEF MarkFailed
  <2>2. raw[doc] = "scan"
        BY <2>1 DEF SearchInv, AtHand
  <2>3. QED
        BY <1>4, <1>5, <1>6, <2>1, <2>2
<1>11. CASE MarkLive
      BY <1>5, <1>6, <1>11 DEF MarkLive
<1>12. CASE row' = row /\ step \notin {"dlq_publish", "dead"}
      BY <1>5, <1>12
<1>13. QED
  <2>1. CASE Poll \/ NextPartition \/ BeginDelete \/ Load \/ BodyFor \/ Index
             \/ Delete \/ Invalidate \/ Commit
        BY <1>12, <2>1 DEF Poll, NextPartition, BeginDelete, Load, BodyFor, Index,
                           Delete, Invalidate, Commit
  <2>2. CASE HandleRaises
        BY <1>10, <1>12, <2>2 DEF HandleRaises
  <2>3. QED
        BY <1>7, <1>8, <1>9, <1>10, <1>11, <2>1, <2>2 DEF ConsumerStep, ConsumerWorks

LEMMA NextKeepsFailed ==
    IInv /\ SearchInv /\ FailedAtHand /\ [Next]_vars => FailedAtHand'
<1> SUFFICES ASSUME IInv, SearchInv, FailedAtHand, [Next]_vars, ~ConsumerStep
             PROVE  FailedAtHand'
    BY ConsumerKeepsFailed
<1>1. /\ OthersMove /\ TypeInv /\ crashes \in Nat
      BY OthersShape DEF IInv, TypeInv, TypeOK, RelayTypeOK
<1>2. CASE IndexerCrash
      BY <1>1, <1>2 DEF IndexerCrash, FailedAtHand
<1>3. CASE UNCHANGED <<step, part, done, position, committed>>
  <2>1. SUFFICES ASSUME crashes' = 0, NEW d \in Docs, Unexplained(d)'
        PROVE  /\ step \in {"dlq_publish", "dead"}
               /\ done[part] < Len(log'[part])
               /\ IsEvent(ev', d, 1)
        BY <1>3 DEF FailedAtHand
  <2>2. crashes' \in Nat
        BY NextKeepsTypeInv, <1>1 DEF TypeInv, TypeOK, RelayTypeOK
  <2>3. crashes = 0
        BY <1>1, <2>1, <2>2 DEF OthersMove
  <2>4. Unexplained(d)
        BY <1>1, <2>1 DEF OthersMove, RowsMove, Unexplained, DeadLettered
  <2>5. /\ step \in {"dlq_publish", "dead"}
        /\ done[part] < Len(log[part])
        /\ IsEvent(ev, d, 1)
        BY <2>3, <2>4 DEF FailedAtHand
  <2>6. ev' = ev
        BY <1>1, <1>3, <2>5, SameRecord DEF OthersMove
  <2>7. done[part] < Len(log'[part])
    <3>1. /\ part \in Partitions /\ done[part] \in Nat /\ Len(log[part]) \in Nat
          /\ Len(log'[part]) \in Nat
          BY <1>1, <1>3, NextKeepsTypeInv DEF TypeInv, TypeOK, RelayTypeOK
    <3>2. QED
          BY <1>1, <2>5, <3>1 DEF OthersMove, LogGrows
  <2>8. QED
        BY <2>5, <2>6, <2>7
<1>4. QED
      BY <1>1, <1>2, <1>3 DEF OthersMove

(* A document nobody deleted is FAILED only for what a user or an operator *)
(* can find out: its bytes cannot be read, or its record was dead-lettered *)
(* or is about to be; only a process that dies on the way to the           *)
(* dead-letter topic leaves a FAILED without a record (mark_failed,        *)
(* _dead_letter).                                                          *)
THEOREM FailuresAreExplained == Spec => []FailureIsExplained
<1>1. Init => FailedAtHand
      BY DEF Init, RelayInit, StoreInit, NoRow, FailedAtHand, Unexplained
<1>2. Spec => []FailedAtHand
      BY <1>1, NextKeepsFailed, InductiveInvariant, SearchInvariant, PTL DEF Spec
<1>3. IInv /\ FailedAtHand => FailureIsExplained
  <2>1. SUFFICES ASSUME IInv, FailedAtHand, NEW d \in Docs,
                        row[d].status = "FAILED", row[d].ver = 1,
                        raw[d] # "scan", ~DeadLettered(d, 1), crashes = 0
                 PROVE  OnItsWay(d, 1)
        BY DEF FailureIsExplained, FailureIsLettered
  <2>2. crashes = 0
        BY <2>1
  <2>3. done[part] < Len(log[part]) /\ IsEvent(ev, d, 1)
        BY <2>1, <2>2 DEF FailedAtHand, Unexplained
  <2>4. /\ part \in Partitions /\ done[part] \in Nat /\ log[part] \in Seq(Event)
        BY <2>1 DEF IInv, TypeInv, TypeOK, RelayTypeOK
  <2>5. done[part] + 1 \in DOMAIN log[part] /\ done[part] + 1 > done[part]
        BY <2>3, <2>4
  <2>6. QED
        BY <2>3, <2>4, <2>5 DEF OnItsWay, ev
<1>4. QED
      BY <1>2, <1>3, InductiveInvariant, PTL

-----------------------------------------------------------------------------
(* What holds until a call fails or a process dies.                        *)

Calm == faults = 0 /\ crashes = 0

(* A tenant whose searches changed is owed an INCR only between the write  *)
(* to the index and the end of the record.                                 *)
Owing ==
    Calm /\ unbumped # {} =>
        step \in {"mark_live", "invalidate"} /\ unbumped \subseteq {TenantOf[doc]}

LEMMA FaultEndsCalm ==
    ASSUME TypeInv, Fault
    PROVE  ~Calm'
    BY DEF TypeInv, TypeOK, RelayTypeOK, Fault, Calm

LEMMA ConsumerKeepsOwing ==
    ASSUME IInv, Owing, ConsumerStep
    PROVE  Owing'
<1> USE DEF Busy, HandleSteps
<1>1. TypeInv /\ log' = log /\ crashes' = crashes /\ unbumped \in SUBSET Tenants
      BY ConsumerMarks DEF IInv, TypeInv, TypeOK
<1>2. CASE HandleRaises \/ ThreadDies
      BY <1>1, <1>2, FaultEndsCalm DEF HandleRaises, ThreadDies, Owing
<1>3. ASSUME UNCHANGED <<done, part>> PROVE doc' = doc
      BY <1>1, <1>3 DEF ev, doc
<1>4. CASE step \notin {"mark_live", "invalidate"} /\ UNCHANGED <<unbumped, faults>>
      BY <1>1, <1>4 DEF Owing, Calm
<1>5. CASE \/ Poll \/ NextPartition \/ BeginDelete \/ Load \/ BodyFor \/ MarkFailed
           \/ DeadLetterMark \/ DeadLetterPublish \/ Commit
      BY <1>4, <1>5 DEF Poll, NextPartition, BeginDelete, Load, BodyFor, MarkFailed,
                        DeadLetterMark, DeadLetterPublish, Commit
<1>6. CASE Index
  <2>1. /\ step = "index" /\ step' = "mark_live" /\ doc' = doc /\ faults' = faults
        /\ Apply(doc, target, TRUE)
        BY <1>3, <1>6 DEF Index, GoTo, offsetVars
  <2>2. unbumped' \subseteq unbumped \cup {TenantOf[doc]}
        BY <2>1 DEF Apply
  <2>3. QED
        BY <1>1, <2>1, <2>2 DEF Owing, Calm
<1>7. CASE Delete
  <2>1. /\ step = "delete" /\ step' = "invalidate" /\ doc' = doc /\ faults' = faults
        /\ Apply(doc, target, FALSE)
        BY <1>3, <1>7 DEF Delete, GoTo, offsetVars
  <2>2. unbumped' \subseteq unbumped \cup {TenantOf[doc]}
        BY <2>1 DEF Apply
  <2>3. QED
        BY <1>1, <2>1, <2>2 DEF Owing, Calm
<1>8. CASE MarkLive
  <2>1. /\ step' = "invalidate" /\ doc' = doc /\ UNCHANGED <<unbumped, faults>>
        BY <1>3, <1>8 DEF MarkLive, GoTo, offsetVars
  <2>2. QED
        BY <1>1, <2>1 DEF Owing, Calm
<1>9. CASE Invalidate
  <2>1. unbumped' = unbumped \ {TenantOf[doc]} /\ faults' = faults
        BY <1>9 DEF Invalidate, Bumped
  <2>2. QED
        BY <1>1, <2>1 DEF Owing, Calm
<1>10. QED
      BY <1>2, <1>5, <1>6, <1>7, <1>8, <1>9 DEF ConsumerStep, ConsumerWorks

(* Calm is never restored.                                                 *)
LEMMA CalmBefore ==
    ASSUME TypeInv, TypeInv', crashes <= crashes', faults <= faults', Calm'
    PROVE  Calm
    BY DEF TypeInv, TypeOK, RelayTypeOK, Calm

LEMMA NextKeepsOwing == IInv /\ Owing /\ [Next]_vars => Owing'
<1> SUFFICES ASSUME IInv, Owing, [Next]_vars, ~ConsumerStep, Calm', unbumped' # {}
             PROVE  step' \in {"mark_live", "invalidate"} /\ unbumped' \subseteq {TenantOf[doc']}
    BY ConsumerKeepsOwing DEF Owing
<1>1. OthersMove /\ TypeInv /\ TypeInv'
      BY OthersShape, NextKeepsTypeInv DEF IInv
<1>2. Calm
      BY <1>1, CalmBefore DEF OthersMove
<1>3. step \in {"mark_live", "invalidate"} /\ unbumped \subseteq {TenantOf[doc]}
      BY <1>1, <1>2 DEF OthersMove, Owing
<1>4. ~IndexerCrash
      BY <1>1 DEF IndexerCrash, Calm, TypeInv, TypeOK, RelayTypeOK
<1>5. UNCHANGED <<step, part, done>> /\ unbumped' = unbumped
      BY <1>1, <1>4 DEF OthersMove
<1>6. doc' = doc
      BY <1>1, <1>3, <1>5, BusyRecord, SameRecord DEF OthersMove, Busy, HandleSteps
<1>7. QED
      BY <1>3, <1>5, <1>6

(* As long as no call fails and no process dies, every change of the index *)
(* is followed by an INCR of its tenant's cache version before the thread  *)
(* turns to another record (_index, _delete, _invalidate).                 *)
THEOREM ChangesRetireSearches == Spec => [](Calm => CachedSearchesRetired)
<1>1. Init => Owing
      BY DEF Init, Owing
<1>2. Spec => []Owing
      BY <1>1, NextKeepsOwing, InductiveInvariant, PTL DEF Spec
<1>3. Owing => (Calm => CachedSearchesRetired)
      BY DEF Owing, CachedSearchesRetired, HandleSteps
<1>4. QED
      BY <1>2, <1>3, PTL


(* The same for the relay: while nothing fails, what it stamped it still   *)
(* holds or has brought to the topic.                                      *)
StampedWhenCalm == Calm => StampedIsRelayed /\ late = {}

LEMMA InLogStays ==
    ASSUME RelayTypeOK, RelayTypeOK', LogGrows, NEW e, InLog(e)
    PROVE  \E p \in Partitions : \E k \in DOMAIN log'[p] : log'[p][k] = e
<1>1. PICK p \in Partitions : \E k \in DOMAIN log[p] : log[p][k] = e
      BY DEF InLog
<1>2. PICK k \in DOMAIN log[p] : log[p][k] = e
      BY <1>1
<1>3. log[p] \in Seq(Event) /\ log'[p] \in Seq(Event)
      BY DEF RelayTypeOK
<1>4. k \in 1 .. Len(log[p]) /\ Len(log[p]) <= Len(log'[p])
      BY <1>2, <1>3 DEF LogGrows
<1>5. k \in DOMAIN log'[p] /\ log'[p][k] = log[p][k]
      BY <1>3, <1>4 DEF LogGrows
<1>6. QED
      BY <1>2, <1>5

(* What Landed and LandedTwice do to the topic, partition by partition.    *)
LEMMA LandedShape ==
    ASSUME RelayTypeOK, NEW i \in DOMAIN outbox, Landed(i)
    PROVE  LET q == PartitionOf[outbox[i].doc]
           IN  /\ q \in Partitions
               /\ Len(log'[q]) = Len(log[q]) + 1
               /\ DOMAIN log'[q] = DOMAIN log[q] \cup {Len(log[q]) + 1}
               /\ Len(log[q]) + 1 \notin DOMAIN log[q]
               /\ \A k \in DOMAIN log[q] : log'[q][k] = log[q][k]
               /\ log'[q][Len(log[q]) + 1] = outbox[i]
               /\ \A p \in Partitions : p # q => log'[p] = log[p]
<1> DEFINE q == PartitionOf[outbox[i].doc]
<1>1. outbox[i] \in Event
      BY DEF RelayTypeOK, StoreTypeOK
<1>2. q \in Partitions
      BY <1>1, PartitionAssumption DEF Event
<1>3. log[q] \in Seq(Event) /\ log \in [Partitions -> Seq(Event)]
      BY <1>2 DEF RelayTypeOK
<1>4. log' = [log EXCEPT ![q] = Append(log[q], outbox[i])]
      BY DEF Landed
<1>5. /\ log'[q] = Append(log[q], outbox[i])
      /\ \A p \in Partitions : p # q => log'[p] = log[p]
      BY <1>2, <1>3, <1>4
<1>6. /\ Len(log'[q]) = Len(log[q]) + 1
      /\ DOMAIN log'[q] = DOMAIN log[q] \cup {Len(log[q]) + 1}
      /\ Len(log[q]) + 1 \notin DOMAIN log[q]
      /\ \A k \in DOMAIN log[q] : log'[q][k] = log[q][k]
      /\ log'[q][Len(log[q]) + 1] = outbox[i]
  <2> DEFINE s == log[q]
  <2>1. /\ s \in Seq(Event) /\ DOMAIN s = 1 .. Len(s) /\ Len(s) \in Nat
        /\ Len(Append(s, outbox[i])) = Len(s) + 1
        /\ DOMAIN Append(s, outbox[i]) = 1 .. Len(s) + 1
        /\ \A k \in 1 .. Len(s) : Append(s, outbox[i])[k] = s[k]
        /\ Append(s, outbox[i])[Len(s) + 1] = outbox[i]
        BY <1>1, <1>3, AppendFacts
  <2>2. QED
        BY <1>5, <2>1
<1>7. QED
      BY <1>2, <1>5, <1>6

(* Steps that are not the relay's leave its variables alone, but for the   *)
(* death of the indexer.                                                   *)
LEMMA RelayUntouched ==
    ASSUME IInv, [Next]_vars,
           ~(RelaysMove /\ UNCHANGED <<storeVars, consumerVars>>)
    PROVE  /\ \/ UNCHANGED relayVars
              \/ IndexerCrash
           /\ \A i \in DOMAIN outbox : i \in DOMAIN outbox' /\ outbox'[i] = outbox[i]
<1>1. CASE StoreNext /\ UNCHANGED <<relayVars, budgetVars, consumerVars>>
      BY <1>1, StoreKeepsRows DEF IInv, TypeInv, TypeOK, RelayTypeOK
<1>2. CASE UNCHANGED storeVars
      BY <1>2 DEF Next, RelaysMove, ConsumerStep, ForgetTombstone, relayAll, vars, storeVars
<1>3. CASE ConsumerStep
      BY <1>3, ConsumerShape DEF ConsumerStep
<1>4. QED
      BY <1>1, <1>2, <1>3 DEF Next, RelaysMove, ForgetTombstone, IndexerCrash, relayAll, vars

LEMMA ConsumerFaults ==
    ASSUME ConsumerStep
    PROVE  faults' = faults \/ Fault
<1>1. CASE ConsumerWorks
      BY <1>1 DEF ConsumerWorks, Poll, NextPartition, BeginDelete, Load, BodyFor,
         Index, MarkLive, Delete, Invalidate, MarkFailed, DeadLetterMark,
         DeadLetterPublish, Commit
<1>2. CASE HandleRaises \/ ThreadDies
      BY <1>2 DEF HandleRaises, ThreadDies
<1>3. QED
      BY <1>1, <1>2 DEF ConsumerStep

LEMMA RelayKeepsStamped ==
    ASSUME IInv, StampedWhenCalm, NEW r \in Relays, RelayStep(r) \/ RelayCrash(r),
           UNCHANGED <<storeVars, consumerVars>>, Calm'
    PROVE  StampedIsRelayed' /\ late' = {}
<1>1. /\ TypeInv /\ RelayTypeOK /\ RelayTypeOK' /\ LogGrows
      /\ faults \in Nat /\ crashes \in Nat
      /\ outbox' = outbox
      BY RelayTypes DEF IInv, TypeInv, TypeOK, RelayTypeOK, storeVars
<1>2. ~Fault /\ ~RelayCrash(r)
      BY <1>1, FaultEndsCalm DEF RelayCrash, Calm
<1>3. SelectUnpublished(r) \/ CommitClaim(r) \/ Publish(r)
      BY <1>2 DEF RelayStep, PublishRaises, ClaimRaises
<1>4. Calm
      BY <1>1, <1>3, CalmBefore DEF Calm, SelectUnpublished, CommitClaim, Publish,
                                    budgetVars, Fault, RelayTypeOK
<1>5. late = {} /\ late' = {}
      BY <1>3, <1>4 DEF StampedWhenCalm, SelectUnpublished, CommitClaim, Publish
<1>6. SUFFICES ASSUME NEW i \in published' PROVE Held(i)' \/ InLog(outbox[i])'
      BY <1>1, <1>5 DEF StampedIsRelayed
<1>7. ASSUME InLog(outbox[i]) PROVE InLog(outbox[i])'
  <2>1. \E p \in Partitions : \E k \in DOMAIN log'[p] : log'[p][k] = outbox[i]
        BY <1>1, <1>7, InLogStays
  <2>2. QED
        BY <1>1, <2>1 DEF InLog
<1>8. CASE SelectUnpublished(r)
  <2>1. /\ relayStep[r] = "idle" /\ claim[r] = {} /\ published' = published
        BY <1>1, <1>8 DEF SelectUnpublished, RelayTypeOK
  <2>2. \A s \in Relays : s # r => claim'[s] = claim[s]
        BY <1>1, <1>8 DEF SelectUnpublished, RelayTypeOK
  <2>3. Held(i) \/ InLog(outbox[i])
        BY <1>4, <1>5, <2>1 DEF StampedWhenCalm, StampedIsRelayed
  <2>4. QED
        BY <1>7, <2>1, <2>2, <2>3 DEF Held
<1>9. CASE CommitClaim(r)
      BY <1>4, <1>7, <1>9, <1>5
      DEF CommitClaim, Stamped, StampedWhenCalm, StampedIsRelayed, Held
<1>10. CASE Publish(r)
  <2>1. PICK j \in claim[r] : Landed(j) /\ claim' = [claim EXCEPT ![r] = Rest(r, j)]
        BY <1>2, <1>10 DEF Publish
  <2>2. /\ claim'[r] = claim[r] \ {j}
        /\ \A s \in Relays : s # r => claim'[s] = claim[s]
        BY <1>1, <2>1 DEF RelayTypeOK, Rest
  <2>3. j \in DOMAIN outbox
        BY <1>1, <2>1 DEF RelayTypeOK
  <2>4. InLog(outbox[j])'
        BY <1>1, <2>1, <2>3, LandedShape DEF InLog
  <2>5. Held(i) \/ InLog(outbox[i])
        BY <1>4, <1>10, <1>5 DEF Publish, StampedWhenCalm, StampedIsRelayed
  <2>6. QED
        BY <1>7, <2>2, <2>4, <2>5 DEF Held
<1>11. QED
      BY <1>3, <1>8, <1>9, <1>10

LEMMA NextKeepsStamped ==
    IInv /\ StampedWhenCalm /\ [Next]_vars => StampedWhenCalm'
<1> SUFFICES ASSUME IInv, StampedWhenCalm, [Next]_vars, Calm'
             PROVE  StampedIsRelayed' /\ late' = {}
    BY DEF StampedWhenCalm
<1>1. CASE \E r \in Relays : /\ RelayStep(r) \/ RelayCrash(r)
                             /\ UNCHANGED <<storeVars, consumerVars>>
      BY <1>1, RelayKeepsStamped
<1>2. /\ TypeInv /\ TypeInv' /\ published \in SUBSET DOMAIN outbox
      BY NextKeepsTypeInv DEF IInv, TypeInv, TypeOK, RelayTypeOK
<1>3. Calm
  <2>1. CASE ConsumerStep
    <3>1. ~Fault /\ crashes' = crashes
          BY <1>2, <2>1, FaultEndsCalm, ConsumerMarks
    <3>2. faults' = faults
          BY <2>1, <3>1, ConsumerFaults
    <3>3. QED
          BY <3>1, <3>2 DEF Calm
  <2>2. CASE ~ConsumerStep
        BY <1>2, <2>2, OthersShape, CalmBefore DEF OthersMove
  <2>3. QED
        BY <2>1, <2>2
<1>4. ~LateStep
      BY <1>3 DEF StampedWhenCalm, LateStep
<1>5. CASE ~(RelaysMove /\ UNCHANGED <<storeVars, consumerVars>>)
  <2>1. ~IndexerCrash
        BY <1>2 DEF IndexerCrash, Calm, TypeInv, TypeOK, RelayTypeOK
  <2>2. /\ UNCHANGED relayVars
        /\ \A i \in DOMAIN outbox : i \in DOMAIN outbox' /\ outbox'[i] = outbox[i]
        BY <1>5, <2>1, RelayUntouched
  <2>3. QED
        BY <1>2, <1>3, <2>2
        DEF StampedWhenCalm, StampedIsRelayed, relayVars, Held, InLog
<1>6. QED
      BY <1>1, <1>4, <1>5 DEF RelaysMove

(* As long as no call fails and no process dies, an entry whose            *)
(* published_at is set is in Kafka, or a relay still holds it, with any    *)
(* number of relays on the table (claim_unpublished, drain_once).          *)
THEOREM StampsAreKept == Spec => [](Calm => StampedIsRelayed)
<1>1. Init => StampedWhenCalm
      BY DEF Init, RelayInit, StampedWhenCalm, StampedIsRelayed
<1>2. Spec => []StampedWhenCalm
      BY <1>1, NextKeepsStamped, InductiveInvariant, PTL DEF Spec
<1>3. StampedWhenCalm => (Calm => StampedIsRelayed)
      BY DEF StampedWhenCalm
<1>4. QED
      BY <1>2, <1>3, PTL

-----------------------------------------------------------------------------
(* Offsets, and the deletions they cover.                                  *)

(* What a step of the consumer does to its cursors: it finishes the record *)
(* at hand, commits what was polled, or polls.                             *)
LEMMA CursorShape ==
    ASSUME ConsumerStep
    PROVE  /\ \/ done' = done
              \/ /\ FinishRecord
                 /\ \/ step = "begin" /\ ev.op = "UPSERT"
                    \/ step \in {"mark_failed", "invalidate"}
                    \/ step = "dlq_publish" /\ ev \in dlq'
           /\ \/ committed' = committed
              \/ step = "commit" /\ committed' = position /\ done' = done
<1>1. CASE Poll \/ NextPartition \/ BeginDelete \/ Index \/ MarkLive \/ Delete
           \/ DeadLetterMark \/ Commit \/ ThreadDies
      BY <1>1 DEF Poll, NextPartition, BeginDelete, Index, MarkLive, Delete,
                  DeadLetterMark, Commit, CommitOffsets, ThreadDies, offsetVars
<1>2. CASE Load \/ BodyFor \/ HandleRaises
      BY <1>2 DEF Load, BodyFor, HandleRaises, FinishRecord, offsetVars
<1>3. CASE Invalidate \/ MarkFailed \/ DeadLetterPublish
      BY <1>3 DEF Invalidate, MarkFailed, DeadLetterPublish, ToDlq, FinishRecord
<1>4. QED
      BY <1>1, <1>2, <1>3 DEF ConsumerStep, ConsumerWorks

LEMMA NextKeepsCommitted ==
    ASSUME \A p, q \in Partitions : p = q
    PROVE  IInv /\ SearchInv /\ CommittedIsHandled /\ [Next]_vars => CommittedIsHandled'
<1> SUFFICES ASSUME IInv, SearchInv, CommittedIsHandled, [Next]_vars
             PROVE  CommittedIsHandled'
    OBVIOUS
<1>1. /\ done \in [Partitions -> Nat] /\ committed \in [Partitions -> Nat]
      /\ part \in Partitions
      BY DEF IInv, TypeInv, TypeOK
<1>2. CASE ConsumerStep
  <2>1. CASE step = "commit" /\ committed' = position /\ done' = done
        BY <1>1, <2>1 DEF SearchInv, AtHand, CommittedIsHandled
  <2>2. CASE committed' = committed /\ done' = done
        BY <2>2 DEF CommittedIsHandled
  <2>3. CASE committed' = committed /\ FinishRecord
        BY <1>1, <2>3 DEF CommittedIsHandled, FinishRecord
  <2>4. QED
        BY <1>2, <2>1, <2>2, <2>3, CursorShape
<1>3. CASE IndexerCrash
      BY <1>1, <1>3 DEF IndexerCrash, ResumeAt, CommittedIsHandled
<1>4. CASE UNCHANGED <<done, committed>>
      BY <1>4 DEF CommittedIsHandled
<1>5. QED
      BY <1>2, <1>3, <1>4, OthersShape DEF OthersMove

(* On a topic of one partition the committed offset covers only records    *)
(* applied or dead-lettered, whatever fails or dies (loop: "only after the *)
(* batch is applied or dead-lettered"); with more partitions it need not,  *)
(* because commit() takes them all.                                        *)
THEOREM OnePartitionCommits ==
    ASSUME \A p, q \in Partitions : p = q
    PROVE  Spec => []CommittedIsHandled
<1>1. Init => CommittedIsHandled
      BY DEF Init, CommittedIsHandled
<1>2. IInv /\ SearchInv /\ CommittedIsHandled /\ [Next]_vars => CommittedIsHandled'
      BY NextKeepsCommitted
<1>3. QED
      BY <1>1, <1>2, InductiveInvariant, SearchInvariant, PTL DEF Spec

(* A deletion the cursor has passed took effect, or was given up.          *)
HandledDeletions ==
    \A p \in Partitions : \A k \in 1 .. done[p] :
        log[p][k].op = "DELETE" =>
            ~es[log[p][k].doc].present \/ log[p][k] \in dlq

LEMMA ConsumerKeepsHandled ==
    ASSUME IInv, SearchInv, NoDeletionHandled, HandledDeletions, ConsumerStep
    PROVE  HandledDeletions'
<1>1. /\ TypeInv /\ log' = log /\ dlq \subseteq dlq'
      /\ done \in [Partitions -> Nat] /\ part \in Partitions
      /\ es \in [Docs -> [ver : Nat, present : BOOLEAN]]
      /\ \A p \in Partitions : \A k \in 1 .. done[p] : log[p][k].doc \in Docs
  <2>1. \A p \in Partitions : /\ done[p] \in Nat /\ position[p] \in Nat
                              /\ log[p] \in Seq(Event)
        BY DEF IInv, TypeInv, TypeOK, RelayTypeOK
  <2>2. \A p \in Partitions : done[p] <= Len(log[p])
        BY <2>1 DEF IInv, TypeInv, CursorsOK
  <2>3. \A p \in Partitions : \A k \in 1 .. done[p] : log[p][k] \in Event
        BY <2>1, <2>2
  <2>4. QED
        BY <2>3, ConsumerMarks DEF IInv, TypeInv, TypeOK, Event
<1>2. CASE done' = done
  <2>1. ASSUME NEW p \in Partitions, NEW k \in 1 .. done[p], log[p][k].op = "DELETE"
        PROVE  ~es'[log[p][k].doc].present \/ log[p][k] \in dlq'
    <3>1. ~es[log[p][k].doc].present \/ log[p][k] \in dlq
          BY <2>1 DEF HandledDeletions
    <3>2. CASE es' = es
          BY <1>1, <3>1, <3>2
    <3>3. CASE step = "index" /\ Apply(doc, target, TRUE)
      <4>1. log[p][k].doc # doc
            BY <2>1, <3>3 DEF NoDeletionHandled
      <4>2. es'[log[p][k].doc] = es[log[p][k].doc]
            BY <1>1, <3>3, <4>1 DEF Apply
      <4>3. QED
            BY <1>1, <3>1, <4>2
    <3>4. CASE step = "delete" /\ Apply(doc, target, FALSE)
      <4>1. es'[log[p][k].doc] = es[log[p][k].doc] \/ ~es'[log[p][k].doc].present
            BY <1>1, <3>4 DEF Apply
      <4>2. QED
            BY <1>1, <3>1, <4>1
    <3>5. QED
          BY <3>2, <3>3, <3>4, ConsumerShape
  <2>2. QED
        BY <1>1, <1>2, <2>1 DEF HandledDeletions
<1>3. CASE /\ FinishRecord
           /\ \/ step = "begin" /\ ev.op = "UPSERT"
              \/ step \in {"mark_failed", "invalidate"}
              \/ step = "dlq_publish" /\ ev \in dlq'
  <2>1. es' = es
        BY <1>3, ConsumerShape
  <2>2. ev.op = "DELETE" => ~es[doc].present \/ ev \in dlq'
        BY <1>3 DEF SearchInv, AtHand
  <2>3. done' = [done EXCEPT ![part] = @ + 1]
        BY <1>3 DEF FinishRecord
  <2>4. ASSUME NEW p \in Partitions, NEW k \in 1 .. done'[p], log[p][k].op = "DELETE"
        PROVE  ~es[log[p][k].doc].present \/ log[p][k] \in dlq'
    <3>1. CASE k \in 1 .. done[p]
          BY <1>1, <2>4, <3>1 DEF HandledDeletions
    <3>2. CASE k \notin 1 .. done[p]
      <4>1. p = part /\ k = done[part] + 1
            BY <1>1, <2>3, <2>4, <3>2
      <4>2. log[p][k] = ev
            BY <4>1 DEF ev
      <4>3. QED
            BY <2>2, <2>4, <4>2 DEF doc
    <3>3. QED
          BY <3>1, <3>2
  <2>5. QED
        BY <1>1, <2>1, <2>4 DEF HandledDeletions
<1>4. QED
      BY <1>2, <1>3, CursorShape

LEMMA NextKeepsHandled ==
    /\ IInv /\ SearchInv /\ NoDeletionHandled /\ HandledDeletions
    /\ [Next]_vars
    /\ [IndexerCrash => CommittedIsHandled]_vars
    => HandledDeletions'
<1> SUFFICES ASSUME IInv, SearchInv, NoDeletionHandled, HandledDeletions,
                    [Next]_vars, [IndexerCrash => CommittedIsHandled]_vars,
                    ~ConsumerStep
             PROVE  HandledDeletions'
    BY ConsumerKeepsHandled
<1>1. OthersMove
      BY OthersShape
<1>2. \A p \in Partitions : /\ done[p] \in Nat /\ committed[p] \in Nat
                            /\ log[p] \in Seq(Event) /\ done[p] <= Len(log[p])
  <2>1. \A p \in Partitions : /\ done[p] \in Nat /\ position[p] \in Nat
                              /\ committed[p] \in Nat /\ log[p] \in Seq(Event)
        BY DEF IInv, TypeInv, TypeOK, RelayTypeOK
  <2>2. QED
        BY <2>1 DEF IInv, TypeInv, CursorsOK
<1>3. \A p \in Partitions : done'[p] \in Nat /\ done'[p] <= done[p]
  <2>1. CASE UNCHANGED <<step, part, done, position, committed>>
        BY <1>2, <2>1
  <2>2. CASE IndexerCrash
    <3>1. vars' # vars
          BY <2>2 DEF IndexerCrash, vars, relayAll, budgetVars, IInv, TypeInv, TypeOK,
                      RelayTypeOK
    <3>2. CommittedIsHandled /\ done' = committed
          BY <2>2, <3>1 DEF IndexerCrash, ResumeAt
    <3>3. QED
          BY <1>2, <3>2 DEF CommittedIsHandled
  <2>3. QED
        BY <1>1, <2>1, <2>2 DEF OthersMove
<1>4. ASSUME NEW p \in Partitions, NEW k \in 1 .. done'[p], log'[p][k].op = "DELETE"
      PROVE  ~es'[log'[p][k].doc].present \/ log'[p][k] \in dlq
  <2>1. k \in 1 .. done[p] /\ k \in 1 .. Len(log[p])
        BY <1>2, <1>3
  <2>2. log'[p][k] = log[p][k] /\ log[p][k] \in Event
        BY <1>1, <1>2, <2>1 DEF OthersMove, LogGrows
  <2>3. ~es[log[p][k].doc].present \/ log[p][k] \in dlq
        BY <1>4, <2>1, <2>2 DEF HandledDeletions
  <2>4. \/ es'[log[p][k].doc] = es[log[p][k].doc]
        \/ ~es'[log[p][k].doc].present
        BY <1>1, <2>2 DEF OthersMove, CopiesForgotten, Event
  <2>5. QED
        BY <2>2, <2>3, <2>4
<1>5. QED
      BY <1>1, <1>4 DEF OthersMove, HandledDeletions

(* A deleted document that searches still find: the deletion of its latest *)
(* version is on its way, or the relay lost it, or it was given up.        *)
LEMMA HandledMeansOwed == IInv /\ HandledDeletions => StaleCopyIsOwed
<1> SUFFICES ASSUME IInv, HandledDeletions, NEW d \in Docs, es[d].present,
                    row[d].status = "DELETED" \/ row[d].ver > es[d].ver
             PROVE  \/ OnItsWay(d, row[d].ver)
                    \/ LostByRelay(d, row[d].ver)
                    \/ DeadLettered(d, row[d].ver)
    BY DEF StaleCopyIsOwed
<1>1. row[d].ver \in Nat /\ outbox \in Seq(Event)
      BY DEF IInv, TypeInv, TypeOK, RelayTypeOK, StoreTypeOK, Row
<1>2. row[d].ver >= 2
      BY <1>1 DEF IInv, RowsOK, CopyOK
<1>3. PICK i \in DOMAIN outbox : IsEvent(outbox[i], d, row[d].ver)
      BY <1>1, <1>2 DEF IInv, EveryVersionHasItsEvent, IsEvent
<1>4. outbox[i].op = "DELETE"
  <2>1. outbox[i] \in Event /\ outbox[i].ver # 1
        BY <1>1, <1>2, <1>3 DEF IsEvent
  <2>2. outbox[i].op # "UPSERT"
        BY <2>1 DEF IInv, OpsOK
  <2>3. QED
        BY <2>1, <2>2 DEF Event
<1>5. CASE i \notin published \/ Held(i) \/ i \in late
      BY <1>3, <1>5 DEF OnItsWay
<1>6. CASE i \in published /\ ~Held(i) /\ i \notin late /\ ~InLog(outbox[i])
      BY <1>3, <1>6 DEF LostByRelay
<1>7. CASE InLog(outbox[i])
  <2>1. PICK p \in Partitions : \E k \in DOMAIN log[p] : log[p][k] = outbox[i]
        BY <1>7 DEF InLog
  <2>2. PICK k \in DOMAIN log[p] : log[p][k] = outbox[i]
        BY <2>1
  <2>3. log[p] \in Seq(Event) /\ done[p] \in Nat
        BY DEF IInv, TypeInv, TypeOK, RelayTypeOK
  <2>4. CASE k > done[p]
        BY <1>3, <2>2, <2>4 DEF OnItsWay
  <2>5. CASE k <= done[p]
    <3>1. k \in 1 .. done[p]
          BY <2>3, <2>5
    <3>2. log[p][k] \in dlq
          BY <1>3, <1>4, <2>2, <3>1 DEF HandledDeletions, IsEvent
    <3>3. QED
          BY <1>3, <2>2, <3>2 DEF DeadLettered
  <2>6. QED
        BY <2>3, <2>4, <2>5
<1>8. QED
      BY <1>5, <1>6, <1>7

(* Whatever is lost, retried or redelivered, a deleted document that       *)
(* searches still find is owed its deletion, provided no indexer restarts  *)
(* from an offset that covers records it has not handled (soft_delete,     *)
(* drain_once, handle, loop)...                                            *)
THEOREM StaleCopiesAreOwed ==
    Spec /\ [][IndexerCrash => CommittedIsHandled]_vars => []StaleCopyIsOwed
<1>1. Init => HandledDeletions /\ NoDeletionHandled
      BY DEF Init, HandledDeletions, NoDeletionHandled
<1>2. Spec => []NoDeletionHandled
      BY <1>1, NextKeepsNoDeletion, InductiveInvariant, PTL DEF Spec
<1>3. Spec /\ [][IndexerCrash => CommittedIsHandled]_vars => []HandledDeletions
      BY <1>1, <1>2, NextKeepsHandled, InductiveInvariant, SearchInvariant, PTL
      DEF Spec
<1>4. QED
      BY <1>3, HandledMeansOwed, InductiveInvariant, PTL

(* ...which on a topic of one partition none ever does.                    *)
THEOREM OnePartitionOwesStaleCopies ==
    ASSUME \A p, q \in Partitions : p = q
    PROVE  Spec => []StaleCopyIsOwed
<1>1. Spec => []CommittedIsHandled
      BY OnePartitionCommits
<1>2. CommittedIsHandled => [IndexerCrash => CommittedIsHandled]_vars
      OBVIOUS
<1>3. QED
      BY <1>1, <1>2, StaleCopiesAreOwed, PTL

-----------------------------------------------------------------------------
(* The relay and the topic.                                                *)

(* Where the events of a document are in version order, no two are the     *)
(* same.                                                                   *)
LEMMA EventsDiffer ==
    ASSUME NEW s \in Seq(Event),
           \A i, j \in DOMAIN s : i < j /\ s[i].doc = s[j].doc => s[i].ver < s[j].ver,
           NEW a \in DOMAIN s, NEW b \in DOMAIN s, s[a] = s[b]
    PROVE  a = b
<1>1. s[a] \in Event
      OBVIOUS
<1>2. a \in Nat /\ b \in Nat /\ s[a].ver \in Nat
      BY <1>1 DEF Event
<1>3. ~(a < b) /\ ~(b < a)
      BY <1>2
<1>4. QED
      BY <1>2, <1>3

LEMMA OutboxDiffers ==
    ASSUME StoreTypeOK, EveryVersionHasItsEvent
    PROVE  \A i, j \in DOMAIN outbox : outbox[i] = outbox[j] => i = j
    BY EventsDiffer DEF StoreTypeOK, EveryVersionHasItsEvent

(* What a relay has selected nobody has stamped, what it publishes, and    *)
(* what its producer still has, it has, and no two relays hold the same    *)
(* entry: FOR UPDATE SKIP LOCKED.                                          *)
Claims ==
    /\ late \subseteq published
    /\ \A r \in Relays : relayStep[r] = "selected" => claim[r] \cap published = {}
    /\ \A r \in Relays : relayStep[r] = "publishing" => claim[r] \subseteq published
    /\ \A r, s \in Relays : r # s => claim[r] \cap claim[s] = {}

LEMMA RelayKeepsClaims ==
    ASSUME RelayTypeOK, Claims, NEW r \in Relays, RelayStep(r) \/ RelayCrash(r)
    PROVE  Claims'
<1> USE DEF RelayTypeOK
<1>1. CASE SelectUnpublished(r)
  <2>1. PICK b \in SUBSET Unclaimed : claim' = [claim EXCEPT ![r] = b]
        BY <1>1 DEF SelectUnpublished
  <2>2. /\ claim'[r] = b /\ relayStep'[r] = "selected"
        /\ published' = published /\ late' = late
        /\ \A s \in Relays : s # r => claim'[s] = claim[s] /\ relayStep'[s] = relayStep[s]
        BY <1>1, <2>1 DEF SelectUnpublished
  <2>3. b \cap published = {}
        BY <2>1 DEF Unclaimed
  <2>4. ASSUME NEW s \in Relays, s # r PROVE b \cap claim[s] = {}
    <3>1. CASE relayStep[s] = "idle"
          BY <3>1
    <3>2. CASE relayStep[s] = "selected"
          BY <2>1, <3>2 DEF Unclaimed, Locked
    <3>3. CASE relayStep[s] = "publishing"
          BY <2>3, <3>3 DEF Claims
    <3>4. QED
          BY <3>1, <3>2, <3>3
  <2>5. QED
        BY <2>2, <2>3, <2>4 DEF Claims
<1>2. CASE CommitClaim(r)
  <2>1. /\ published' = published \cup claim[r] /\ UNCHANGED <<claim, late>>
        /\ relayStep[r] = "selected" /\ relayStep'[r] = "publishing"
        /\ \A s \in Relays : s # r => relayStep'[s] = relayStep[s]
        BY <1>2 DEF CommitClaim, Stamped
  <2>2. \A s \in Relays : s # r => claim[s] \cap claim[r] = {}
        BY DEF Claims
  <2>3. QED
        BY <2>1, <2>2 DEF Claims
<1>3. ASSUME NEW b, b \subseteq claim[r], claim' = [claim EXCEPT ![r] = b],
             published' = published, late' \subseteq late \cup Unanswered(r),
             relayStep' = relayStep \/ relayStep' = [relayStep EXCEPT ![r] = "idle"]
      PROVE  Claims'
  <2>1. /\ claim'[r] = b
        /\ \A s \in Relays : s # r => claim'[s] = claim[s] /\ relayStep'[s] = relayStep[s]
        /\ relayStep'[r] \in {"idle", relayStep[r]}
        BY <1>3
  <2>2. late' \subseteq published'
        BY <1>3 DEF Claims, Unanswered
  <2>3. QED
        BY <1>3, <2>1, <2>2 DEF Claims
<1>4. CASE Publish(r)
      BY <1>3, <1>4 DEF Publish, Rest
<1>5. CASE PublishRaises(r) \/ ClaimRaises(r) \/ RelayCrash(r)
      BY <1>3, <1>5 DEF PublishRaises, ClaimRaises, RelayCrash, RelayStops
<1>6. QED
      BY <1>1, <1>2, <1>4, <1>5 DEF RelayStep

LEMMA NextKeepsClaims == IInv /\ Claims /\ [Next]_vars => Claims'
<1> SUFFICES ASSUME IInv, Claims, [Next]_vars PROVE Claims'
    OBVIOUS
<1>1. RelayTypeOK
      BY DEF IInv, TypeInv, TypeOK
<1>2. CASE \E r \in Relays : RelayStep(r) \/ RelayCrash(r)
      BY <1>1, <1>2, RelayKeepsClaims
<1>3. CASE UNCHANGED relayVars
      BY <1>3 DEF Claims, relayVars
<1>4. CASE IndexerCrash
  <2>1. /\ claim' = [claim EXCEPT ![Owner] = {}] /\ published' = published
        /\ relayStep' = [relayStep EXCEPT ![Owner] = "idle"]
        /\ late' \subseteq late \cup Unanswered(Owner)
        BY <1>4 DEF IndexerCrash, RelayStops
  <2>2. late' \subseteq published'
        BY <2>1, OwnerAssumption DEF Claims, Unanswered
  <2>3. \A s \in Relays : /\ claim'[s] \subseteq claim[s]
                          /\ relayStep'[s] \in {"idle", relayStep[s]}
        BY <1>1, <2>1 DEF RelayTypeOK
  <2>4. QED
        BY <2>1, <2>2, <2>3 DEF Claims
<1>5. CASE LateStep
  <2>1. late' \subseteq late /\ UNCHANGED <<published, relayStep, claim>>
        BY <1>5 DEF LateStep, LateLands, LateExpires
  <2>2. QED
        BY <2>1 DEF Claims
<1>6. QED
      BY <1>2, <1>3, <1>4, <1>5, RelayUntouched DEF RelaysMove

LEMMA ClaimsInvariant == Spec => []Claims
<1>1. Init => Claims
      BY DEF Init, RelayInit, Claims
<1>2. QED
      BY <1>1, NextKeepsClaims, InductiveInvariant, PTL DEF Spec

(* With one relay the topic follows the outbox: what was brought there is  *)
(* stamped and older than all that is still claimed, what is stamped is    *)
(* older than what is not, and a claim takes the oldest.                   *)
LogFollowsOutbox ==
    \A p \in Partitions : \A j, k \in 1 .. Len(log[p]) :
        \A a, b \in DOMAIN outbox :
            j < k /\ log[p][j] = outbox[a] /\ log[p][k] = outbox[b] => a <= b

LandedFirst ==
    \A p \in Partitions : \A k \in 1 .. Len(log[p]) : \A i \in DOMAIN outbox :
        log[p][k] = outbox[i] =>
            i \in published /\ \A r \in Relays : \A j \in claim[r] : i < j

StampedFirst == \A i \in published : \A j \in DOMAIN outbox \ published : i < j

ClaimedFirst ==
    \A r \in Relays : \A i \in claim[r] :
        \A j \in DOMAIN outbox \ (published \cup claim[r]) : i < j

(* A record its producer still has is the latest of all that left.         *)
LateIsLast ==
    \A i \in late :
        /\ \A j \in late : i = j
        /\ \A r \in Relays : \A j \in claim[r] : i < j
        /\ \A p \in Partitions : \A k \in 1 .. Len(log[p]) : \A a \in DOMAIN outbox :
              log[p][k] = outbox[a] => a <= i

Ordered ==
    LogFollowsOutbox /\ LandedFirst /\ StampedFirst /\ ClaimedFirst /\ LateIsLast

(* What the order depends on: while a record given up may still arrive, no *)
(* relay publishes another.                                                *)
WaitsForLate == late # {} => \A r \in Relays : relayStep[r] # "publishing"

(* An entry that is nowhere behind another in the topic lands there, by    *)
(* the relay that holds it or by the producer that still has it.           *)
LEMMA LandingKeepsOrdered ==
    ASSUME IInv, Ordered, NEW i \in published, Landed(i) \/ LandedTwice(i),
           \A p \in Partitions : \A k \in 1 .. Len(log[p]) : \A a \in DOMAIN outbox :
               log[p][k] = outbox[a] => a <= i,
           outbox' = outbox, published' = published,
           \A s \in Relays :
               \/ claim'[s] = claim[s]
               \/ claim'[s] \subseteq claim[s] /\ claim[s] \subseteq published,
           \A s \in Relays : \A j \in claim'[s] : i < j,
           \A j \in late' : j = i
    PROVE  Ordered'
<1>1. /\ RelayTypeOK /\ StoreTypeOK /\ EveryVersionHasItsEvent
      /\ i \in DOMAIN outbox /\ i \in Nat
      /\ \A j \in DOMAIN outbox : j \in Nat
      BY DEF IInv, TypeInv, TypeOK, RelayTypeOK, StoreTypeOK
<1>2. /\ \A p \in Partitions : Len(log[p]) \in Nat /\ Len(log'[p]) \in Nat
      /\ \A p \in Partitions :
            /\ Len(log[p]) <= Len(log'[p])
            /\ \A k \in 1 .. Len(log[p]) : log'[p][k] = log[p][k]
            /\ \A k \in 1 .. Len(log'[p]) : k > Len(log[p]) => log'[p][k] = outbox[i]
      BY <1>1, LandedFacts DEF RelayTypeOK
<1>3. \A s \in Relays : claim'[s] \subseteq claim[s]
      OBVIOUS
<1>4. ASSUME NEW p \in Partitions, NEW k \in 1 .. Len(log'[p]), NEW a \in DOMAIN outbox,
             log'[p][k] = outbox[a]
      PROVE  \/ k \in 1 .. Len(log[p]) /\ log[p][k] = outbox[a]
             \/ k > Len(log[p]) /\ a = i
  <2>1. CASE k \in 1 .. Len(log[p])
        BY <1>2, <1>4, <2>1
  <2>2. CASE k > Len(log[p])
    <3>1. outbox[a] = outbox[i]
          BY <1>2, <1>4, <2>2
    <3>2. a = i
          BY <1>1, <3>1, OutboxDiffers
    <3>3. QED
          BY <2>2, <3>2
  <2>3. QED
        BY <1>2, <2>1, <2>2
<1>5. ASSUME NEW p \in Partitions, NEW j \in 1 .. Len(log'[p]),
             NEW k \in 1 .. Len(log'[p]), NEW a \in DOMAIN outbox, NEW c \in DOMAIN outbox,
             j < k, log'[p][j] = outbox[a], log'[p][k] = outbox[c]
      PROVE  a <= c
  <2>1. CASE k \in 1 .. Len(log[p]) /\ log[p][k] = outbox[c]
    <3>1. j \in 1 .. Len(log[p]) /\ log[p][j] = outbox[a]
          BY <1>2, <1>4, <1>5, <2>1
    <3>2. QED
          BY <1>5, <2>1, <3>1 DEF Ordered, LogFollowsOutbox
  <2>2. CASE c = i
    <3>1. CASE j \in 1 .. Len(log[p]) /\ log[p][j] = outbox[a]
          BY <2>2, <3>1
    <3>2. CASE a = i
          BY <1>1, <2>2, <3>2
    <3>3. QED
          BY <1>4, <1>5, <3>1, <3>2
  <2>3. QED
        BY <1>4, <1>5, <2>1, <2>2
<1>6. ASSUME NEW p \in Partitions, NEW k \in 1 .. Len(log'[p]), NEW a \in DOMAIN outbox,
             log'[p][k] = outbox[a]
      PROVE  /\ a \in published /\ a <= i
             /\ \A s \in Relays : \A j \in claim'[s] : a < j
  <2>1. CASE k \in 1 .. Len(log[p]) /\ log[p][k] = outbox[a]
        BY <1>3, <2>1 DEF Ordered, LandedFirst
  <2>2. CASE a = i
        BY <1>1, <2>2
  <2>3. QED
        BY <1>4, <1>6, <2>1, <2>2
<1>7. ASSUME NEW s \in Relays, NEW a \in claim'[s],
             NEW j \in DOMAIN outbox \ (published \cup claim'[s])
      PROVE  a < j
      BY <1>7 DEF Ordered, ClaimedFirst
<1>8. LogFollowsOutbox'
      BY <1>5 DEF LogFollowsOutbox
<1>9. LandedFirst'
      BY <1>6 DEF LandedFirst
<1>10. StampedFirst' /\ ClaimedFirst'
      BY <1>7 DEF Ordered, StampedFirst, ClaimedFirst
<1>11. LateIsLast'
      BY <1>6 DEF LateIsLast
<1>12. QED
      BY <1>8, <1>9, <1>10, <1>11 DEF Ordered

(* A relay that stops lets go of its claim; the record it waited for, if   *)
(* it waited for one, may still arrive.                                    *)
LEMMA StoppingKeepsOrdered ==
    ASSUME IInv, Ordered, WaitsForLate, NEW r \in Relays, \A s \in Relays : s = r,
           RelayStops(r), outbox' = outbox
    PROVE  Ordered'
<1>1. /\ UNCHANGED <<published, log>> /\ \A s \in Relays : claim'[s] = {}
      /\ claim \in [Relays -> SUBSET DOMAIN outbox]
      BY DEF IInv, TypeInv, TypeOK, RelayTypeOK, RelayStops
<1>2. LogFollowsOutbox'
      BY <1>1 DEF Ordered, LogFollowsOutbox
<1>3. LandedFirst'
      BY <1>1 DEF Ordered, LandedFirst
<1>4. StampedFirst' /\ ClaimedFirst'
      BY <1>1 DEF Ordered, StampedFirst, ClaimedFirst
<1>5. PICK sent \in SUBSET Unanswered(r) : late' = late \cup sent
      BY DEF RelayStops
<1>6. CASE sent = {}
  <2>1. late' = late
        BY <1>5, <1>6
  <2>2. LateIsLast'
        BY <1>1, <2>1 DEF Ordered, LateIsLast
  <2>3. QED
        BY <1>2, <1>3, <1>4, <2>2 DEF Ordered
<1>7. CASE sent # {}
  <2>1. PICK i \in sent : TRUE
        BY <1>7
  <2>2. relayStep[r] = "publishing" /\ i \in claim[r] /\ NextInBatch(r, i)
        BY <1>5, <2>1 DEF Unanswered
  <2>3. \A j \in sent : j = i
    <3>1. \A j \in sent : j \in Nat /\ i \in Nat /\ i <= j /\ j <= i
          BY <1>1, <1>5, <2>1, <2>2
          DEF Unanswered, NextInBatch, IInv, TypeInv, TypeOK, RelayTypeOK, StoreTypeOK
    <3>2. QED
          BY <3>1
  <2>4. late = {}
        BY <2>2 DEF WaitsForLate
  <2>5. late' = {i}
        BY <1>5, <2>1, <2>3, <2>4
  <2>6. ASSUME NEW p \in Partitions, NEW k \in 1 .. Len(log[p]), NEW a \in DOMAIN outbox,
               log[p][k] = outbox[a]
        PROVE  a <= i
    <3>1. a < i
          BY <2>2, <2>6 DEF Ordered, LandedFirst
    <3>2. a \in Nat /\ i \in Nat
          BY <1>1, <2>2 DEF IInv, TypeInv, TypeOK, RelayTypeOK, StoreTypeOK
    <3>3. QED
          BY <3>1, <3>2
  <2>7. LateIsLast'
        BY <1>1, <2>5, <2>6 DEF LateIsLast
  <2>8. QED
        BY <1>2, <1>3, <1>4, <2>7 DEF Ordered
<1>8. QED
      BY <1>6, <1>7

(* The producer brings the record to the topic, or gives it up.            *)
LEMMA LateKeepsOrdered ==
    ASSUME IInv, Claims, Ordered, LateStep, UNCHANGED storeVars
    PROVE  Ordered'
<1>1. PICK i \in late : LateLands(i) \/ LateExpires(i)
      BY DEF LateStep
<1>2. /\ UNCHANGED <<outbox, published, claim>> /\ late' \subseteq late
      BY <1>1 DEF LateLands, LateExpires, storeVars
<1>3. CASE LateLands(i)
  <2>1. i \in published
        BY DEF Claims
  <2>2. /\ \A p \in Partitions : \A k \in 1 .. Len(log[p]) : \A a \in DOMAIN outbox :
              log[p][k] = outbox[a] => a <= i
        /\ \A s \in Relays : \A j \in claim'[s] : i < j
        /\ \A j \in late' : j = i
        BY <1>2 DEF Ordered, LateIsLast
  <2>3. Landed(i)
        BY <1>3 DEF LateLands
  <2>4. \A s \in Relays : claim'[s] = claim[s]
        BY <1>2
  <2>5. QED
        BY <1>2, <2>1, <2>2, <2>3, <2>4, LandingKeepsOrdered
<1>4. CASE LateExpires(i)
  <2>1. UNCHANGED log
        BY <1>4 DEF LateExpires
  <2>2. LogFollowsOutbox' /\ LandedFirst'
        BY <1>2, <2>1 DEF Ordered, LogFollowsOutbox, LandedFirst
  <2>3. StampedFirst' /\ ClaimedFirst'
        BY <1>2 DEF Ordered, StampedFirst, ClaimedFirst
  <2>4. LateIsLast'
        BY <1>2, <2>1 DEF Ordered, LateIsLast
  <2>5. QED
        BY <2>2, <2>3, <2>4 DEF Ordered
<1>5. QED
      BY <1>1, <1>3, <1>4

LEMMA RelayKeepsOrdered ==
    ASSUME IInv, Claims, Ordered, WaitsForLate, NEW r \in Relays, \A s \in Relays : s = r,
           RelayStep(r) \/ RelayCrash(r), UNCHANGED <<storeVars, consumerVars>>
    PROVE  Ordered'
<1>1. /\ RelayTypeOK /\ outbox' = outbox
      /\ claim \in [Relays -> SUBSET DOMAIN outbox]
      BY DEF IInv, TypeInv, TypeOK, RelayTypeOK, storeVars
<1>2. CASE SelectUnpublished(r)
  <2>1. PICK b \in SUBSET Unclaimed : IsBatch(b) /\ claim' = [claim EXCEPT ![r] = b]
        BY <1>2 DEF SelectUnpublished
  <2>2. /\ UNCHANGED <<published, late, log>> /\ relayStep[r] = "idle"
        /\ \A s \in Relays : claim'[s] = b
        BY <1>1, <1>2, <2>1 DEF SelectUnpublished
  <2>3. Unclaimed = DOMAIN outbox \ published
        BY <2>2 DEF Unclaimed, Locked
  <2>4. LogFollowsOutbox'
        BY <1>1, <2>2 DEF Ordered, LogFollowsOutbox
  <2>5. \A i \in published : \A j \in b : i < j
        BY <2>1, <2>3 DEF Ordered, StampedFirst
  <2>6. LandedFirst'
        BY <1>1, <2>2, <2>5 DEF Ordered, LandedFirst
  <2>7. \A i \in b : \A j \in Unclaimed \ b : i < j
        BY <2>1 DEF IsBatch
  <2>8. StampedFirst' /\ ClaimedFirst'
        BY <1>1, <2>2, <2>3, <2>7 DEF Ordered, StampedFirst, ClaimedFirst
  <2>9. LateIsLast'
        BY <1>1, <2>2, <2>5 DEF Ordered, LateIsLast, Claims
  <2>10. QED
        BY <2>4, <2>6, <2>8, <2>9 DEF Ordered
<1>3. CASE CommitClaim(r)
  <2>1. UNCHANGED <<claim, late, log>> /\ published' = published \cup claim[r]
        BY <1>3 DEF CommitClaim, Stamped
  <2>2. LogFollowsOutbox'
        BY <1>1, <2>1 DEF Ordered, LogFollowsOutbox
  <2>3. LandedFirst'
        BY <1>1, <2>1 DEF Ordered, LandedFirst
  <2>4. ASSUME NEW i \in published \cup claim[r],
               NEW j \in DOMAIN outbox \ (published \cup claim[r])
        PROVE  i < j
        BY <2>4 DEF Ordered, StampedFirst, ClaimedFirst
  <2>5. StampedFirst' /\ ClaimedFirst'
        BY <1>1, <2>1, <2>4 DEF StampedFirst, ClaimedFirst
  <2>6. LateIsLast'
        BY <1>1, <2>1 DEF Ordered, LateIsLast
  <2>7. QED
        BY <2>2, <2>3, <2>5, <2>6 DEF Ordered
<1>4. CASE Publish(r)
  <2>1. PICK i \in claim[r] :
           /\ NextInBatch(r, i)
           /\ Landed(i) \/ LandedTwice(i)
           /\ claim' = [claim EXCEPT ![r] = Rest(r, i)]
        BY <1>4 DEF Publish
  <2>2. relayStep[r] = "publishing" /\ published' = published /\ late' = {}
        BY <1>4 DEF Publish, WaitsForLate
  <2>3. i \in published /\ claim[r] \subseteq published /\ i \in DOMAIN outbox
        /\ \A j \in DOMAIN outbox : j \in Nat
        BY <1>1, <2>2 DEF Claims, RelayTypeOK, StoreTypeOK
  <2>4. \A s \in Relays : claim'[s] = claim[r] \ {i}
        BY <1>1, <2>1 DEF Rest
  <2>5. \A s \in Relays : \A j \in claim'[s] : i < j
        BY <1>1, <2>1, <2>3, <2>4 DEF NextInBatch
  <2>6. ASSUME NEW p \in Partitions, NEW k \in 1 .. Len(log[p]), NEW a \in DOMAIN outbox,
               log[p][k] = outbox[a]
        PROVE  a <= i
    <3>1. a < i
          BY <2>6 DEF Ordered, LandedFirst
    <3>2. QED
          BY <2>3, <3>1
  <2>7. \A s \in Relays : claim'[s] \subseteq claim[s] /\ claim[s] \subseteq published
        BY <2>3, <2>4
  <2>8. QED
        BY <1>1, <2>1, <2>2, <2>3, <2>5, <2>6, <2>7, LandingKeepsOrdered
<1>5. CASE PublishRaises(r) \/ ClaimRaises(r) \/ RelayCrash(r)
      BY <1>1, <1>5, StoppingKeepsOrdered DEF PublishRaises, ClaimRaises, RelayCrash
<1>6. QED
      BY <1>2, <1>3, <1>4, <1>5 DEF RelayStep

(* An event just queued is not in the topic yet.                           *)
LEMMA NewEventsNotInTopic ==
    ASSUME IInv, IInv',
           \A i \in DOMAIN outbox : i \in DOMAIN outbox' /\ outbox'[i] = outbox[i],
           NEW p \in Partitions, NEW k \in 1 .. Len(log[p]), NEW a \in DOMAIN outbox',
           log[p][k] = outbox'[a]
    PROVE  a \in DOMAIN outbox /\ log[p][k] = outbox[a]
<1>1. PICK i \in DOMAIN outbox : log[p][k] = outbox[i]
      BY DEF IInv, LogFromOutbox
<1>2. i \in DOMAIN outbox' /\ outbox'[i] = outbox'[a]
      BY <1>1
<1>3. /\ outbox' \in Seq(Event)
      /\ \A c, d \in DOMAIN outbox' :
            c < d /\ outbox'[c].doc = outbox'[d].doc => outbox'[c].ver < outbox'[d].ver
      BY DEF IInv, TypeInv, TypeOK, RelayTypeOK, StoreTypeOK, EveryVersionHasItsEvent
<1>4. i = a
      BY <1>2, <1>3, EventsDiffer
<1>5. QED
      BY <1>1, <1>4

(* A longer outbox: what is new is younger than everything, and not yet in *)
(* the topic.                                                              *)
LEMMA LongerOutboxKeepsOrdered ==
    ASSUME IInv, IInv', Ordered, UNCHANGED relayVars,
           \A i \in DOMAIN outbox : i \in DOMAIN outbox' /\ outbox'[i] = outbox[i]
    PROVE  Ordered'
<1>1. /\ StoreTypeOK' /\ EveryVersionHasItsEvent'
      /\ published \in SUBSET DOMAIN outbox
      /\ claim \in [Relays -> SUBSET DOMAIN outbox]
      /\ UNCHANGED <<published, claim, late, log>>
      BY DEF IInv, TypeInv, TypeOK, RelayTypeOK, relayVars
<1>2. \A i \in DOMAIN outbox : \A j \in DOMAIN outbox' \ DOMAIN outbox : i < j
  <2>1. outbox \in Seq(Event) /\ outbox' \in Seq(Event)
        BY <1>1 DEF IInv, TypeInv, TypeOK, RelayTypeOK, StoreTypeOK
  <2>2. QED
        BY <2>1
<1>3. ASSUME NEW p \in Partitions, NEW k \in 1 .. Len(log[p]), NEW a \in DOMAIN outbox',
             log[p][k] = outbox'[a]
      PROVE  a \in DOMAIN outbox /\ log[p][k] = outbox[a]
      BY <1>3, NewEventsNotInTopic
<1>4. LogFollowsOutbox'
  <2>1. ASSUME NEW p \in Partitions, NEW j \in 1 .. Len(log[p]), NEW k \in 1 .. Len(log[p]),
               NEW a \in DOMAIN outbox', NEW b \in DOMAIN outbox',
               j < k, log[p][j] = outbox'[a], log[p][k] = outbox'[b]
        PROVE  a <= b
        BY <1>3, <2>1 DEF Ordered, LogFollowsOutbox
  <2>2. QED
        BY <1>1, <2>1 DEF LogFollowsOutbox
<1>5. LandedFirst'
      BY <1>1, <1>3 DEF Ordered, LandedFirst
<1>6. StampedFirst'
      BY <1>1, <1>2 DEF Ordered, StampedFirst
<1>7. ClaimedFirst'
      BY <1>1, <1>2 DEF Ordered, ClaimedFirst
<1>8. LateIsLast'
      BY <1>1, <1>3 DEF Ordered, LateIsLast
<1>9. QED
      BY <1>4, <1>5, <1>6, <1>7, <1>8 DEF Ordered

LEMMA NextKeepsOrdered ==
    ASSUME \A r, s \in Relays : r = s
    PROVE  IInv /\ Claims /\ WaitsForLate /\ Ordered /\ [Next]_vars => Ordered'
<1> SUFFICES ASSUME IInv, Claims, WaitsForLate, Ordered, [Next]_vars PROVE Ordered'
    OBVIOUS
<1>1. CASE \E r \in Relays : /\ RelayStep(r) \/ RelayCrash(r)
                             /\ UNCHANGED <<storeVars, consumerVars>>
      BY <1>1, RelayKeepsOrdered
<1>2. CASE UNCHANGED relayVars /\ \A i \in DOMAIN outbox :
                                      i \in DOMAIN outbox' /\ outbox'[i] = outbox[i]
      BY <1>2, NextKeepsIInv, LongerOutboxKeepsOrdered
<1>3. CASE LateStep /\ UNCHANGED <<storeVars, consumerVars>>
      BY <1>3, LateKeepsOrdered
<1>4. CASE IndexerCrash
      BY <1>4, OwnerAssumption, StoppingKeepsOrdered DEF IndexerCrash, storeVars
<1>5. QED
      BY <1>1, <1>2, <1>3, <1>4, RelayUntouched DEF RelaysMove

(* With one indexer the events of a document stand in the topic in the     *)
(* order of its versions, through failing calls, duplicated records and    *)
(* crashes: "an UPSERT can never overtake the DELETE after it"             *)
(* (drain_once), provided the relay publishes nothing while a record whose *)
(* .get() timed out may still arrive (publish).  The code does not see to  *)
(* that, and without it, or with two relays, they need not.                *)
THEOREM OneRelayKeepsOrder ==
    ASSUME \A r, s \in Relays : r = s
    PROVE  Spec /\ []WaitsForLate => []LogInVersionOrder
<1>1. Init => Ordered
      BY DEF Init, RelayInit, StoreInit, Ordered, LogFollowsOutbox, LandedFirst,
             StampedFirst, ClaimedFirst, LateIsLast
<1>2. IInv /\ Claims /\ WaitsForLate /\ Ordered /\ [Next]_vars => Ordered'
      BY NextKeepsOrdered
<1>3. Spec /\ []WaitsForLate => []Ordered
      BY <1>1, <1>2, ClaimsInvariant, InductiveInvariant, PTL DEF Spec
<1>4. IInv /\ Ordered => LogInVersionOrder
  <2>1. SUFFICES ASSUME IInv, Ordered, NEW p \in Partitions, NEW j \in DOMAIN log[p],
                        NEW k \in DOMAIN log[p], j < k, log[p][j].doc = log[p][k].doc
                 PROVE  log[p][j].ver <= log[p][k].ver
        BY DEF LogInVersionOrder
  <2>2. outbox \in Seq(Event) /\ log[p] \in Seq(Event)
        BY <2>1 DEF IInv, TypeInv, TypeOK, RelayTypeOK, StoreTypeOK
  <2>3. j \in 1 .. Len(log[p]) /\ k \in 1 .. Len(log[p])
        BY <2>2
  <2>4. PICK a \in DOMAIN outbox : log[p][j] = outbox[a]
        BY <2>1, <2>3 DEF IInv, LogFromOutbox
  <2>5. PICK b \in DOMAIN outbox : log[p][k] = outbox[b]
        BY <2>1, <2>3 DEF IInv, LogFromOutbox
  <2>6. a <= b
        BY <2>1, <2>3, <2>4, <2>5 DEF Ordered, LogFollowsOutbox
  <2>7. outbox[a] \in Event /\ outbox[b] \in Event /\ a \in Nat /\ b \in Nat
        BY <2>2
  <2>8. a < b => outbox[a].ver < outbox[b].ver
        BY <2>1, <2>4, <2>5 DEF IInv, EveryVersionHasItsEvent
  <2>9. QED
        BY <2>4, <2>5, <2>6, <2>7, <2>8 DEF Event
<1>5. QED
      BY <1>3, <1>4, InductiveInvariant, PTL

(* How often an event stands in the topic, and how often it may.           *)
Copies(i) ==
    {k \in DOMAIN log[PartitionOf[outbox[i].doc]] :
        log[PartitionOf[outbox[i].doc]][k] = outbox[i]}

Spent(i) == IF i \in published /\ ~Held(i) THEN 1 ELSE 0

(* The copy the producer may still bring there counts already.             *)
Coming(i) == IF i \in late THEN 1 ELSE 0

CountInv ==
    \A i \in DOMAIN outbox : Cardinality(Copies(i)) + Coming(i) <= Spent(i) + faults

LEMMA CopiesFinite ==
    ASSUME RelayTypeOK, NEW i \in DOMAIN outbox
    PROVE  /\ PartitionOf[outbox[i].doc] \in Partitions
           /\ IsFiniteSet(Copies(i))
           /\ Cardinality(Copies(i)) \in Nat
<1>1. outbox[i] \in Event
      BY DEF RelayTypeOK, StoreTypeOK
<1>2. PartitionOf[outbox[i].doc] \in Partitions
      BY <1>1, PartitionAssumption DEF Event
<1>3. log[PartitionOf[outbox[i].doc]] \in Seq(Event)
      BY <1>2 DEF RelayTypeOK
<1>4. IsFiniteSet(1 .. Len(log[PartitionOf[outbox[i].doc]]))
      BY <1>3, FS_Interval
<1>5. Copies(i) \subseteq 1 .. Len(log[PartitionOf[outbox[i].doc]])
      BY <1>3 DEF Copies
<1>6. QED
      BY <1>2, <1>4, <1>5, FS_Subset, FS_CardinalityType

(* Nothing new in the topic: the budget of an event keeps up with what is  *)
(* coming.                                                                 *)
LEMMA SameTopicKeepsCount ==
    ASSUME IInv, IInv', CountInv, log' = log, late' \subseteq DOMAIN outbox,
           \A i \in DOMAIN outbox : i \in DOMAIN outbox' /\ outbox'[i] = outbox[i],
           \A i \in DOMAIN outbox :
               Coming(i)' + Spent(i) + faults <= Coming(i) + Spent(i)' + faults'
    PROVE  CountInv'
<1>1. /\ RelayTypeOK /\ RelayTypeOK' /\ faults \in Nat /\ faults' \in Nat
      BY DEF IInv, TypeInv, TypeOK, RelayTypeOK
<1>2. ASSUME NEW i \in DOMAIN outbox
      PROVE  Cardinality(Copies(i)') + Coming(i)' <= Spent(i)' + faults'
  <2>1. Copies(i)' = Copies(i) /\ Cardinality(Copies(i)) \in Nat
        BY <1>1, CopiesFinite DEF Copies
  <2>2. Cardinality(Copies(i)) + Coming(i) <= Spent(i) + faults
        BY DEF CountInv
  <2>3. /\ Spent(i) \in Nat /\ Spent(i)' \in Nat
        /\ Coming(i) \in Nat /\ Coming(i)' \in Nat
        BY DEF Spent, Coming
  <2>4. Coming(i)' + Spent(i) + faults <= Coming(i) + Spent(i)' + faults'
        OBVIOUS
  <2>5. QED
        BY <1>1, <2>1, <2>2, <2>3, <2>4
<1>3. ASSUME NEW i \in DOMAIN outbox', i \notin DOMAIN outbox
      PROVE  Cardinality(Copies(i)') + Coming(i)' <= Spent(i)' + faults'
  <2> DEFINE p == PartitionOf[outbox'[i].doc]
  <2>1. /\ outbox' \in Seq(Event) /\ log \in [Partitions -> Seq(Event)]
        BY <1>1 DEF RelayTypeOK, StoreTypeOK
  <2>2. p \in Partitions
    <3>1. outbox'[i] \in Event
          BY <2>1
    <3>2. QED
          BY <3>1, PartitionAssumption DEF Event
  <2>3. \A k \in 1 .. Len(log[p]) : log[p][k] # outbox'[i]
        BY <1>3, <2>2, NewEventsNotInTopic
  <2>4. Copies(i)' = {}
        BY <2>1, <2>2, <2>3 DEF Copies
  <2>5. Cardinality(Copies(i)') = 0
        BY <2>4, FS_EmptySet
  <2>6. Spent(i)' \in Nat /\ Coming(i)' = 0
        BY <1>3 DEF Spent, Coming
  <2>7. QED
        BY <1>1, <2>5, <2>6
<1>4. QED
      BY <1>2, <1>3 DEF CountInv

(* One append, or two, to the partition of the event.                      *)
LEMMA LandedLength ==
    ASSUME RelayTypeOK, NEW i \in DOMAIN outbox, Landed(i) \/ LandedTwice(i)
    PROVE  LET q == PartitionOf[outbox[i].doc]
           IN  /\ q \in Partitions
               /\ Landed(i) => Len(log'[q]) = Len(log[q]) + 1
               /\ LandedTwice(i) => Len(log'[q]) = Len(log[q]) + 2
               /\ \A p \in Partitions : p # q => log'[p] = log[p]
<1> DEFINE q == PartitionOf[outbox[i].doc]
<1>1. outbox[i] \in Event
      BY DEF RelayTypeOK, StoreTypeOK
<1>2. q \in Partitions
      BY <1>1, PartitionAssumption DEF Event
<1>3. log[q] \in Seq(Event) /\ log \in [Partitions -> Seq(Event)]
      BY <1>2 DEF RelayTypeOK
<1> DEFINE one == Append(log[q], outbox[i])
           two == Append(one, outbox[i])
<1>4. Len(one) = Len(log[q]) + 1 /\ Len(two) = Len(log[q]) + 2
      BY <1>1, <1>3, AppendFacts
<1>5. Landed(i) => log' = [log EXCEPT ![q] = one]
      BY DEF Landed
<1>6. LandedTwice(i) => log' = [log EXCEPT ![q] = two]
      BY DEF LandedTwice
<1> HIDE DEF one, two, q
<1>7. /\ Landed(i) => Len(log'[q]) = Len(log[q]) + 1
      /\ LandedTwice(i) => Len(log'[q]) = Len(log[q]) + 2
      /\ \A p \in Partitions : p # q => log'[p] = log[p]
      BY <1>2, <1>3, <1>4, <1>5, <1>6
<1>8. QED
      BY <1>2, <1>7 DEF q

LEMMA OneMore ==
    ASSUME NEW S, IsFiniteSet(S), NEW x
    PROVE  /\ IsFiniteSet(S \cup {x})
           /\ Cardinality(S \cup {x}) \in Nat
           /\ Cardinality(S \cup {x}) <= Cardinality(S) + 1
<1>1. Cardinality(S) \in Nat
      BY FS_CardinalityType
<1>2. /\ IsFiniteSet(S \cup {x})
      /\ Cardinality(S \cup {x}) = Cardinality(S)
            \/ Cardinality(S \cup {x}) = Cardinality(S) + 1
      BY FS_AddElement
<1>3. QED
      BY <1>1, <1>2

LEMMA Fewer ==
    ASSUME NEW S, IsFiniteSet(S), NEW T, T \subseteq S
    PROVE  /\ Cardinality(T) \in Nat /\ Cardinality(S) \in Nat
           /\ Cardinality(T) <= Cardinality(S)
    BY FS_Subset, FS_CardinalityType

(* How a record that lands changes the counts: by one or two for its       *)
(* event, and not at all for any other.                                    *)
LEMMA LandedCopies ==
    ASSUME RelayTypeOK, EveryVersionHasItsEvent, outbox' = outbox,
           NEW j \in DOMAIN outbox, Landed(j) \/ LandedTwice(j)
    PROVE  /\ \A i \in DOMAIN outbox : i # j => Copies(i)' = Copies(i)
           /\ Cardinality(Copies(j)') \in Nat
           /\ Landed(j) => Cardinality(Copies(j)') <= Cardinality(Copies(j)) + 1
           /\ Cardinality(Copies(j)') <= Cardinality(Copies(j)) + 2
<1> DEFINE q == PartitionOf[outbox[j].doc]
           n == Len(log[q])
           m == Len(log'[q])
<1>1. /\ q \in Partitions
      /\ Landed(j) => m = n + 1
      /\ m = n + 1 \/ m = n + 2
      /\ \A p \in Partitions : p # q => log'[p] = log[p]
      BY LandedLength
<1>2. log[q] \in Seq(Event) /\ log'[q] \in Seq(Event)
      BY <1>1, LandedFacts DEF RelayTypeOK
<1>3. n \in Nat /\ DOMAIN log[q] = 1 .. n /\ DOMAIN log'[q] = 1 .. m
      BY <1>2
<1>4. /\ \A k \in 1 .. n : log'[q][k] = log[q][k]
      /\ \A k \in 1 .. m : k > n => log'[q][k] = outbox[j]
      BY <1>1, LandedFacts
<1>5. Copies(j)' = {k \in 1 .. m : log'[q][k] = outbox[j]}
      BY <1>3 DEF Copies
<1>6. Copies(j) = {k \in 1 .. n : log[q][k] = outbox[j]}
      BY <1>3 DEF Copies
<1> HIDE DEF n, m
<1>7. ASSUME NEW i \in DOMAIN outbox, i # j PROVE Copies(i)' = Copies(i)
  <2>1. outbox[i] # outbox[j]
        BY <1>7, OutboxDiffers DEF RelayTypeOK
  <2>2. PartitionOf[outbox[i].doc] \in Partitions
        BY CopiesFinite
  <2>3. CASE PartitionOf[outbox[i].doc] # q
        BY <1>1, <2>2, <2>3 DEF Copies
  <2>4. CASE PartitionOf[outbox[i].doc] = q
    <3>1. {k \in 1 .. m : log'[q][k] = outbox[i]} = {k \in 1 .. n : log[q][k] = outbox[i]}
          BY <1>1, <1>3, <1>4, <2>1
    <3>2. QED
          BY <1>3, <2>4, <3>1 DEF Copies
  <2>5. QED
        BY <2>3, <2>4
<1>8. IsFiniteSet(Copies(j)) /\ Cardinality(Copies(j)) \in Nat
      BY CopiesFinite
<1> DEFINE one == Copies(j) \cup {n + 1}
           two == one \cup {n + 2}
<1>9. /\ IsFiniteSet(one) /\ Cardinality(one) \in Nat
      /\ Cardinality(one) <= Cardinality(Copies(j)) + 1
      BY <1>8, OneMore
<1>10. /\ IsFiniteSet(two) /\ Cardinality(two) \in Nat
       /\ Cardinality(two) <= Cardinality(one) + 1
  <2> HIDE DEF one
  <2>1. QED
        BY <1>9, OneMore
<1>11. /\ Copies(j)' \subseteq two
       /\ Landed(j) => Copies(j)' \subseteq one
  <2>1. ASSUME NEW k \in 1 .. m, log'[q][k] = outbox[j]
        PROVE  k \in Copies(j) \/ k = n + 1 \/ (k = n + 2 /\ ~Landed(j))
    <3>1. CASE k \in 1 .. n
          BY <1>4, <1>6, <2>1, <3>1
    <3>2. CASE k \notin 1 .. n
          BY <1>1, <1>3, <3>2
    <3>3. QED
          BY <3>1, <3>2
  <2>2. QED
        BY <1>5, <2>1
<1> HIDE DEF one, two
<1>12. Cardinality(Copies(j)') \in Nat /\ Cardinality(Copies(j)') <= Cardinality(two)
      BY <1>10, <1>11, Fewer
<1>13. Landed(j) => Cardinality(Copies(j)') <= Cardinality(one)
      BY <1>9, <1>11, Fewer
<1>14. QED
      BY <1>7, <1>8, <1>9, <1>10, <1>12, <1>13

(* An entry lands in the topic, once or twice, and its budget keeps up.    *)
LEMMA LandingKeepsCount ==
    ASSUME IInv, IInv', CountInv, outbox' = outbox, faults <= faults',
           NEW j \in DOMAIN outbox,
           \A i \in DOMAIN outbox : i # j =>
               Spent(i) <= Spent(i)' /\ Coming(i)' <= Coming(i),
           \/ /\ Landed(j)
              /\ 1 + Coming(j)' + Spent(j) + faults <= Coming(j) + Spent(j)' + faults'
           \/ /\ LandedTwice(j)
              /\ 2 + Coming(j)' + Spent(j) + faults <= Coming(j) + Spent(j)' + faults'
    PROVE  CountInv'
<1>1. /\ RelayTypeOK /\ faults \in Nat /\ faults' \in Nat
      /\ EveryVersionHasItsEvent
      BY DEF IInv, TypeInv, TypeOK, RelayTypeOK
<1>2. ASSUME NEW i \in DOMAIN outbox
      PROVE  /\ Cardinality(Copies(i)) + Coming(i) <= Spent(i) + faults
             /\ Cardinality(Copies(i)) \in Nat
             /\ Spent(i) \in Nat /\ Spent(i)' \in Nat
             /\ Coming(i) \in Nat /\ Coming(i)' \in Nat
  <2>1. Cardinality(Copies(i)) \in Nat
        BY <1>1, CopiesFinite
  <2>2. Cardinality(Copies(i)) + Coming(i) <= Spent(i) + faults
        BY DEF CountInv
  <2>3. /\ Spent(i) \in Nat /\ Spent(i)' \in Nat
        /\ Coming(i) \in Nat /\ Coming(i)' \in Nat
        BY DEF Spent, Coming
  <2>4. QED
        BY <2>1, <2>2, <2>3
<1>3. ASSUME NEW i \in DOMAIN outbox, i # j
      PROVE  Cardinality(Copies(i)') + Coming(i)' <= Spent(i)' + faults'
  <2>1. Copies(i)' = Copies(i)
        BY <1>1, <1>3, LandedCopies
  <2>2. Spent(i) <= Spent(i)' /\ Coming(i)' <= Coming(i)
        BY <1>3
  <2>3. QED
        BY <1>1, <1>2, <2>1, <2>2
<1>4. Cardinality(Copies(j)') + Coming(j)' <= Spent(j)' + faults'
  <2>1. /\ Cardinality(Copies(j)') \in Nat
        /\ Landed(j) => Cardinality(Copies(j)') <= Cardinality(Copies(j)) + 1
        /\ Cardinality(Copies(j)') <= Cardinality(Copies(j)) + 2
        BY <1>1, LandedCopies
  <2>2. QED
        BY <1>1, <1>2, <2>1
<1>5. QED
      BY <1>3, <1>4 DEF CountInv

(* A relay that stops: the entry it waited for is no longer held, and may  *)
(* still come.                                                             *)
LEMMA StoppingKeepsCount ==
    ASSUME IInv, IInv', Claims, CountInv, NEW r \in Relays, RelayStops(r),
           outbox' = outbox, faults <= faults'
    PROVE  CountInv'
<1>1. /\ faults \in Nat /\ faults' \in Nat
      /\ claim \in [Relays -> SUBSET DOMAIN outbox]
      /\ UNCHANGED <<published, log>> /\ claim' = [claim EXCEPT ![r] = {}]
      /\ late' \subseteq DOMAIN outbox
      BY DEF IInv, TypeInv, TypeOK, RelayTypeOK, RelayStops
<1>2. PICK sent \in SUBSET Unanswered(r) : late' = late \cup sent
      BY DEF RelayStops
<1>3. ASSUME NEW i \in DOMAIN outbox
      PROVE  Coming(i)' + Spent(i) + faults <= Coming(i) + Spent(i)' + faults'
  <2>1. /\ Spent(i) \in Nat /\ Spent(i)' \in Nat
        /\ Coming(i) \in Nat /\ Coming(i)' \in Nat
        BY DEF Spent, Coming
  <2>2. Spent(i) <= Spent(i)'
        BY <1>1 DEF Spent, Held
  <2>3. CASE i \notin sent
    <3>1. Coming(i)' = Coming(i)
          BY <1>2, <2>3 DEF Coming
    <3>2. QED
          BY <1>1, <2>1, <2>2, <3>1
  <2>4. CASE i \in sent
    <3>1. relayStep[r] = "publishing" /\ i \in claim[r]
          BY <1>2, <2>4 DEF Unanswered
    <3>2. i \in published /\ \A s \in Relays : i \notin claim'[s]
          BY <1>1, <3>1 DEF Claims
    <3>3. Spent(i) = 0 /\ Spent(i)' = 1 /\ Coming(i)' <= 1
          BY <1>1, <3>1, <3>2 DEF Spent, Held, Coming
    <3>4. QED
          BY <1>1, <2>1, <3>3
  <2>5. QED
        BY <2>3, <2>4
<1>4. QED
      BY <1>1, <1>3, SameTopicKeepsCount

LEMMA RelayKeepsCount ==
    ASSUME IInv, IInv', Claims, CountInv, NEW r \in Relays,
           RelayStep(r) \/ RelayCrash(r), UNCHANGED <<storeVars, consumerVars>>
    PROVE  CountInv'
<1>1. /\ RelayTypeOK /\ outbox' = outbox /\ faults \in Nat
      /\ claim \in [Relays -> SUBSET DOMAIN outbox]
      BY DEF IInv, TypeInv, TypeOK, RelayTypeOK, storeVars
<1>2. ASSUME UNCHANGED <<late, log, faults>>, published \subseteq published',
             \A s \in Relays : claim'[s] \cap published \subseteq claim[s]
      PROVE  CountInv'
  <2>1. ASSUME NEW i \in DOMAIN outbox
        PROVE  Coming(i)' + Spent(i) + faults <= Coming(i) + Spent(i)' + faults'
    <3>1. Spent(i) <= Spent(i)' /\ Coming(i)' = Coming(i)
          BY <1>2 DEF Spent, Held, Coming
    <3>2. /\ Spent(i) \in Nat /\ Spent(i)' \in Nat /\ Coming(i) \in Nat
          BY DEF Spent, Coming
    <3>3. QED
          BY <1>1, <1>2, <3>1, <3>2
  <2>2. late' \subseteq DOMAIN outbox
        BY <1>1, <1>2 DEF RelayTypeOK
  <2>3. QED
        BY <1>1, <1>2, <2>1, <2>2, SameTopicKeepsCount
<1>3. CASE SelectUnpublished(r)
  <2>1. PICK b \in SUBSET Unclaimed : claim' = [claim EXCEPT ![r] = b]
        BY <1>3 DEF SelectUnpublished
  <2>2. \A s \in Relays : claim'[s] \cap published \subseteq claim[s]
        BY <1>1, <2>1 DEF Unclaimed
  <2>3. QED
        BY <1>2, <1>3, <2>2 DEF SelectUnpublished, budgetVars
<1>4. CASE CommitClaim(r)
      BY <1>2, <1>4 DEF CommitClaim, Stamped, budgetVars
<1>5. CASE Publish(r)
  <2>1. PICK j \in claim[r] :
           /\ \/ Landed(j) /\ UNCHANGED faults
              \/ LandedTwice(j) /\ Fault
           /\ claim' = [claim EXCEPT ![r] = Rest(r, j)]
        BY <1>5 DEF Publish
  <2>2. relayStep[r] = "publishing" /\ UNCHANGED <<published, late>>
        BY <1>5 DEF Publish
  <2>3. /\ \A s \in Relays : claim'[s] \subseteq claim[s]
        /\ j \in published /\ \A s \in Relays : j \notin claim'[s]
        BY <1>1, <2>1, <2>2 DEF Rest, Claims
  <2>4. Spent(j) = 0 /\ Spent(j)' = 1
        BY <2>1, <2>2, <2>3 DEF Spent, Held
  <2>5. \A i \in DOMAIN outbox : Spent(i) <= Spent(i)' /\ Coming(i)' = Coming(i)
        BY <2>2, <2>3 DEF Spent, Held, Coming
  <2>6. j \in DOMAIN outbox /\ Coming(j) \in Nat
        BY <1>1, <2>1 DEF Coming
  <2>7. \A i \in DOMAIN outbox : Coming(i)' <= Coming(i)
        BY <2>5 DEF Coming
  <2>8. faults' = faults \/ faults' = faults + 1
        BY <2>1 DEF Fault
  <2>9. CASE Landed(j) /\ UNCHANGED faults
    <3>1. 1 + Coming(j)' + Spent(j) + faults <= Coming(j) + Spent(j)' + faults'
          BY <1>1, <2>4, <2>5, <2>6, <2>9
    <3>2. QED
          BY <1>1, <2>5, <2>6, <2>7, <2>8, <2>9, <3>1, LandingKeepsCount
  <2>10. CASE LandedTwice(j) /\ Fault
    <3>1. 2 + Coming(j)' + Spent(j) + faults <= Coming(j) + Spent(j)' + faults'
          BY <1>1, <2>4, <2>5, <2>6, <2>10 DEF Fault
    <3>2. QED
          BY <1>1, <2>5, <2>6, <2>7, <2>8, <2>10, <3>1, LandingKeepsCount
  <2>11. QED
        BY <2>1, <2>9, <2>10
<1>6. CASE PublishRaises(r) \/ ClaimRaises(r) \/ RelayCrash(r)
      BY <1>1, <1>6, StoppingKeepsCount DEF PublishRaises, ClaimRaises, RelayCrash, Fault
<1>7. QED
      BY <1>3, <1>4, <1>5, <1>6 DEF RelayStep

LEMMA LateKeepsCount ==
    ASSUME IInv, IInv', CountInv, LateStep, UNCHANGED storeVars
    PROVE  CountInv'
<1>1. PICK j \in late : LateLands(j) \/ LateExpires(j)
      BY DEF LateStep
<1>2. /\ UNCHANGED <<outbox, published, claim>> /\ late' \subseteq late
      BY <1>1 DEF LateLands, LateExpires, storeVars
<1>3. /\ j \in DOMAIN outbox /\ late' \subseteq DOMAIN outbox /\ faults \in Nat
      BY <1>2 DEF IInv, TypeInv, TypeOK, RelayTypeOK
<1>4. /\ \A i \in DOMAIN outbox :
            /\ Spent(i)' = Spent(i) /\ Spent(i) \in Nat
            /\ Coming(i) \in Nat /\ Coming(i)' \in Nat /\ Coming(i)' <= Coming(i)
      BY <1>2 DEF Spent, Held, Coming
<1>5. CASE LateLands(j)
  <2>1. /\ Landed(j)
        /\ \/ late' = late \ {j} /\ faults' = faults
           \/ late' = late /\ faults' = faults + 1
        BY <1>5 DEF LateLands, Fault
  <2>2. \/ Coming(j) = 1 /\ Coming(j)' = 0 /\ faults' = faults
        \/ Coming(j)' = Coming(j) /\ faults' = faults + 1
        BY <2>1 DEF Coming
  <2>3. /\ 1 + Coming(j)' + Spent(j) + faults <= Coming(j) + Spent(j)' + faults'
        /\ faults <= faults'
        BY <1>3, <1>4, <2>2
  <2>4. \A i \in DOMAIN outbox : Spent(i) <= Spent(i)'
        BY <1>4
  <2>5. QED
        BY <1>2, <1>3, <1>4, <2>1, <2>3, <2>4, LandingKeepsCount
<1>6. CASE LateExpires(j)
  <2>1. UNCHANGED <<log, faults>>
        BY <1>6 DEF LateExpires, budgetVars
  <2>2. \A i \in DOMAIN outbox :
            Coming(i)' + Spent(i) + faults <= Coming(i) + Spent(i)' + faults'
        BY <1>3, <1>4, <2>1
  <2>3. QED
        BY <1>2, <1>3, <2>1, <2>2, SameTopicKeepsCount
<1>7. QED
      BY <1>1, <1>5, <1>6

LEMMA NextKeepsCount == IInv /\ Claims /\ CountInv /\ [Next]_vars => CountInv'
<1> SUFFICES ASSUME IInv, Claims, CountInv, [Next]_vars PROVE CountInv'
    OBVIOUS
<1>1. IInv'
      BY NextKeepsIInv
<1>2. CASE \E r \in Relays : /\ RelayStep(r) \/ RelayCrash(r)
                             /\ UNCHANGED <<storeVars, consumerVars>>
      BY <1>1, <1>2, RelayKeepsCount
<1>3. CASE LateStep /\ UNCHANGED <<storeVars, consumerVars>>
      BY <1>1, <1>3, LateKeepsCount
<1>4. CASE IndexerCrash
  <2>1. faults \in Nat /\ faults' = faults /\ outbox' = outbox
        BY <1>4 DEF IndexerCrash, storeVars, IInv, TypeInv, TypeOK, RelayTypeOK
  <2>2. faults <= faults'
        BY <2>1
  <2>3. QED
        BY <1>1, <1>4, <2>1, <2>2, OwnerAssumption, StoppingKeepsCount DEF IndexerCrash
<1>5. CASE UNCHANGED relayVars /\ \A i \in DOMAIN outbox :
                                      i \in DOMAIN outbox' /\ outbox'[i] = outbox[i]
  <2>1. faults \in Nat /\ faults' \in Nat /\ late' \subseteq DOMAIN outbox
        BY <1>1, <1>5 DEF relayVars, IInv, TypeInv, TypeOK, RelayTypeOK
  <2>2. faults <= faults'
    <3>1. CASE ConsumerStep
      <4>1. faults' = faults \/ Fault
            BY <3>1, ConsumerFaults
      <4>2. QED
            BY <2>1, <4>1 DEF Fault
    <3>2. CASE ~ConsumerStep
          BY <3>2, OthersShape DEF OthersMove
    <3>3. QED
          BY <3>1, <3>2
  <2>3. ASSUME NEW i \in DOMAIN outbox
        PROVE  Coming(i)' + Spent(i) + faults <= Coming(i) + Spent(i)' + faults'
    <3>1. /\ Coming(i)' = Coming(i) /\ Spent(i)' = Spent(i)
          /\ Coming(i) \in Nat /\ Spent(i) \in Nat
          BY <1>5 DEF relayVars, Coming, Spent, Held
    <3>2. QED
          BY <2>1, <2>2, <3>1
  <2>4. log' = log
        BY <1>5 DEF relayVars
  <2>5. QED
        BY <1>1, <1>5, <2>1, <2>3, <2>4, SameTopicKeepsCount
<1>6. QED
      BY <1>2, <1>3, <1>4, <1>5, RelayUntouched DEF RelaysMove

(* However many relays drain the outbox, and wherever they fail or die, an *)
(* event reaches the topic once, plus at most one copy for each failing    *)
(* call (claim_unpublished: FOR UPDATE SKIP LOCKED; drain_once).           *)
THEOREM EventsAreRelayedOnce == Spec => []NoEventRelayedTwice
<1>1. Init => CountInv
      BY DEF Init, RelayInit, StoreInit, CountInv
<1>2. Spec => []CountInv
      BY <1>1, NextKeepsCount, ClaimsInvariant, InductiveInvariant, PTL DEF Spec
<1>3. IInv /\ CountInv => NoEventRelayedTwice
  <2>1. SUFFICES ASSUME IInv, CountInv, NEW i \in DOMAIN outbox
                 PROVE  Cardinality(Copies(i)) <= Spent(i) + faults
        BY DEF NoEventRelayedTwice, Copies, Spent
  <2>2. /\ Cardinality(Copies(i)) \in Nat /\ faults \in Nat
        /\ Spent(i) \in Nat /\ Coming(i) \in Nat
        BY <2>1, CopiesFinite DEF IInv, TypeInv, TypeOK, RelayTypeOK, Spent, Coming
  <2>3. Cardinality(Copies(i)) + Coming(i) <= Spent(i) + faults
        BY <2>1 DEF CountInv
  <2>4. QED
        BY <2>2, <2>3
<1>4. QED
      BY <1>2, <1>3, InductiveInvariant, PTL
=============================================================================
