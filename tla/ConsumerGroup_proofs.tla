------------------------- MODULE ConsumerGroup_proofs -------------------------
(***************************************************************************)
(* Proofs about ConsumerGroup: several indexers in one group, one of them  *)
(* the owner of the partitions, the others threads that still work on a    *)
(* batch they have lost.  The invariant of IndexPipeline goes on holding   *)
(* beside them, and says of a former owner what it says of the owner: the  *)
(* record in its hand is in the topic, and the version it is about to      *)
(* write is one its row has reached.                                       *)
(***************************************************************************)
EXTENDS ConsumerGroup, IndexPipeline_proofs, TLAPS

-----------------------------------------------------------------------------
(* The former owners.                                                      *)

(* The record in a former owner's hand is one of the topic, and what it is *)
(* about to write is what the present owner would: no newer than the row,  *)
(* and a first version exactly when it is to be found.                     *)
HandSteps == BusySteps \ {"commit"}

FormerOK(m) ==
    /\ former[m].step \in HandSteps =>
          /\ former[m].at < former[m].upto
          /\ former[m].upto <= Len(log[former[m].part])
    /\ former[m].step \in {"body", "index"} => former[m].target = 1
    /\ former[m].step = "delete" =>
          2 <= former[m].target /\ former[m].target <= row[fdoc(m)].ver

MembersOK ==
    /\ owner \in Relays
    /\ former \in [Relays -> Thread]
    /\ losses \in 0 .. MaxLosses
    /\ outlived \in SUBSET Docs
    /\ former[owner] = Idle \/ step = "dead"
    /\ \A m \in Relays : FormerOK(m)

GroupInv == IInv /\ MembersOK

LEMMA IdleThreads ==
    /\ Idle \in Thread /\ Ended \in Thread
    /\ Idle.step = "idle" /\ Ended.step = "dead"
    /\ "idle" \notin HandSteps /\ "dead" \notin HandSteps
<1>1. (CHOOSE p \in Partitions : TRUE) \in Partitions
      BY PartitionsAssumption
<1>2. QED
      BY <1>1 DEF Idle, Ended, NoThread, Thread, HandSteps, BusySteps, HandleSteps

LEMMA InitGroupInv == GroupInit => GroupInv
<1> SUFFICES ASSUME GroupInit PROVE GroupInv
    OBVIOUS
<1>1. IInv
      BY InitIInv DEF GroupInit
<1>2. MembersOK
      BY IdleThreads, OwnerAssumption, LossAssumption
      DEF GroupInit, MembersOK, FormerOK, HandSteps, BusySteps, HandleSteps
<1>3. QED
      BY <1>1, <1>2 DEF GroupInv

(* What the topic says of the record in a former owner's hand.             *)
LEMMA FormerFacts ==
    ASSUME GroupInv, NEW m \in Relays, former[m].step \in HandSteps
    PROVE  /\ former[m] \in Thread
           /\ former[m].part \in Partitions
           /\ former[m].at \in Nat
           /\ former[m].at + 1 \in 1 .. Len(log[former[m].part])
           /\ fev(m) \in Event /\ fdoc(m) \in Docs
           /\ row[fdoc(m)] \in Row
           /\ fev(m).ver \in Nat
           /\ 1 <= fev(m).ver /\ fev(m).ver <= row[fdoc(m)].ver
           /\ fev(m).op = "DELETE" => fev(m).ver >= 2
<1>1. /\ former[m] \in Thread
      /\ former[m].at < former[m].upto
      /\ former[m].upto <= Len(log[former[m].part])
      BY DEF GroupInv, MembersOK, FormerOK
<1>2. /\ former[m].part \in Partitions
      /\ former[m].at \in Nat /\ former[m].upto \in Nat
      BY <1>1 DEF Thread
<1>3. log[former[m].part] \in Seq(Event)
      BY <1>2 DEF GroupInv, IInv, TypeInv, TypeOK, RelayTypeOK
<1>4. former[m].at + 1 \in 1 .. Len(log[former[m].part])
      BY <1>1, <1>2, <1>3
<1>5. fev(m) \in Event
      BY <1>3, <1>4 DEF fev
<1>6. fdoc(m) \in Docs /\ fev(m).ver \in Nat
      BY <1>5 DEF fdoc, Event
<1>7. PICK i \in DOMAIN outbox : fev(m) = outbox[i]
      BY <1>2, <1>4 DEF fev, GroupInv, IInv, LogFromOutbox
<1>8. row[fdoc(m)] \in Row
      BY <1>6 DEF GroupInv, IInv, TypeInv, TypeOK, RelayTypeOK, StoreTypeOK
<1>9. fev(m).ver \in 1 .. row[fdoc(m)].ver
      BY <1>7 DEF fdoc, GroupInv, IInv, EveryVersionHasItsEvent
<1>10. fev(m).op = "DELETE" => fev(m).ver >= 2
      BY <1>7 DEF GroupInv, IInv, OpsOK
<1>11. QED
      BY <1>1, <1>2, <1>4, <1>5, <1>6, <1>8, <1>9, <1>10 DEF Row

(* A thread nobody moved keeps its plans: topic and rows only grow.        *)
LEMMA FormerStays ==
    ASSUME GroupInv, IInv', NEW m \in Relays, LogGrows, VersionsGrow,
           former'[m] = former[m]
    PROVE  FormerOK(m)'
<1>1. former'[m].step = former[m].step
      OBVIOUS
<1>2. CASE former[m].step \notin HandSteps
      BY <1>1, <1>2 DEF FormerOK, HandSteps, BusySteps, HandleSteps
<1>3. CASE former[m].step \in HandSteps
  <2>1. /\ former[m].part \in Partitions
        /\ former[m].at + 1 \in 1 .. Len(log[former[m].part])
        /\ fdoc(m) \in Docs /\ former[m].at \in Nat
        /\ former[m].upto \in Nat /\ former[m].target \in Nat
        BY <1>3, FormerFacts DEF Thread
  <2>2. fdoc(m)' = fdoc(m)
    <3> DEFINE p == former[m].part
               k == former[m].at + 1
    <3>1. p \in Partitions /\ k \in 1 .. Len(log[p])
          BY <2>1
    <3>2. log'[p][k] = log[p][k]
          BY <3>1 DEF LogGrows
    <3>3. QED
          BY <3>2 DEF fdoc, fev
  <2>3. /\ Len(log[former[m].part]) <= Len(log'[former[m].part])
        /\ Len(log[former[m].part]) \in Nat /\ Len(log'[former[m].part]) \in Nat
    <3>1. log \in [Partitions -> Seq(Event)] /\ log' \in [Partitions -> Seq(Event)]
          BY DEF GroupInv, IInv, TypeInv, TypeOK, RelayTypeOK
    <3>2. QED
          BY <2>1, <3>1 DEF LogGrows
  <2>4. /\ row[fdoc(m)].ver <= row'[fdoc(m)].ver
        /\ row[fdoc(m)].ver \in Nat /\ row'[fdoc(m)].ver \in Nat
        BY <2>1 DEF VersionsGrow, GroupInv, IInv, TypeInv, TypeOK, RelayTypeOK,
                    StoreTypeOK, Row
  <2>5. /\ former[m].at < former[m].upto
        /\ former[m].upto <= Len(log[former[m].part])
        /\ former[m].step \in {"body", "index"} => former[m].target = 1
        /\ former[m].step = "delete" =>
              2 <= former[m].target /\ former[m].target <= row[fdoc(m)].ver
        BY <1>3 DEF GroupInv, MembersOK, FormerOK
  <2>6. former'[m].upto <= Len(log'[former'[m].part])
        BY <2>1, <2>3, <2>5
  <2>7. former'[m].step = "delete" => former'[m].target <= row'[fdoc(m)'].ver
        BY <2>1, <2>2, <2>4, <2>5
  <2>8. QED
        BY <2>5, <2>6, <2>7 DEF FormerOK
<1>4. QED
      BY <1>2, <1>3

(* A thread that stands at no record has nothing to keep.                  *)
LEMMA FormerDone ==
    ASSUME NEW m \in Relays, former'[m].step \in {"idle", "dead", "commit"}
    PROVE  FormerOK(m)'
    BY DEF FormerOK, HandSteps, BusySteps, HandleSteps

-----------------------------------------------------------------------------
(* Who owns the partitions.                                                *)

(* The owner's thread starts at the committed offsets, or ends.            *)
LEMMA RestartKeepsIInv ==
    ASSUME IInv, UNCHANGED <<storeVars, published, log, faults, crashes,
                             committed, part, text, es, dlq, unbumped>>,
           UNCHANGED <<relayStep, claim, late>> \/ \E r \in Relays : RelayStops(r),
           \/ /\ position' = committed /\ done' = committed /\ step' = "poll"
              /\ attempt' = 1 /\ target' = 0
           \/ UNCHANGED <<position, done, attempt, target>> /\ step' = "dead"
           \/ UNCHANGED <<position, done, attempt, target, step>>
    PROVE  IInv' /\ LogGrows /\ VersionsGrow
<1>1. /\ TypeInv /\ TypeOK /\ CursorsOK /\ RelayTypeOK /\ StoreTypeOK
      BY DEF IInv, TypeInv, TypeOK, RelayTypeOK
<1>2. RelayTypeOK' /\ LogGrows
  <2>1. CASE \E r \in Relays : RelayStops(r)
        BY <1>1, <2>1, StopTypes DEF RelayTypeOK
  <2>2. CASE UNCHANGED <<relayStep, claim, late>>
    <3>1. StoreTypeOK'
          BY <1>1 DEF StoreTypeOK, storeVars
    <3>2. QED
          BY <1>1, <2>2, <3>1, SameLogGrows DEF RelayTypeOK, storeVars
  <2>3. QED
        BY <2>1, <2>2
<1>3. TypeOK'
      BY <1>1, <1>2 DEF TypeOK, Steps
<1>4. CursorsOK'
  <2>1. CASE position' = committed /\ done' = committed /\ step' = "poll"
    <3>1. \A p \in Partitions : /\ committed[p] \in Nat /\ position[p] \in Nat
                                /\ Len(log[p]) \in Nat
          BY <1>1 DEF TypeOK, RelayTypeOK
    <3>2. \A p \in Partitions : committed[p] <= Len(log[p]) /\ committed[p] <= committed[p]
          BY <1>1, <3>1 DEF CursorsOK
    <3>3. QED
          BY <2>1, <3>2 DEF CursorsOK, Busy, HandleSteps
  <2>2. CASE UNCHANGED <<position, done>> /\ step' \in {step, "dead"}
        BY <1>1, <2>2 DEF CursorsOK, Busy, HandleSteps
  <2>3. QED
        BY <2>1, <2>2
<1>5. /\ RowsOK' /\ OpsOK' /\ EveryVersionHasItsEvent' /\ VersionsGrow
      BY OthersKeepStore
<1>6. LogFromOutbox'
      BY DEF IInv, LogFromOutbox, storeVars
<1>7. TargetOK'
  <2>1. CASE step' \in {"poll", "dead"}
        BY <2>1 DEF TargetOK
  <2>2. CASE UNCHANGED <<position, done, attempt, target, step>>
        BY <2>2 DEF IInv, TargetOK, doc, ev, storeVars
  <2>3. QED
        BY <2>1, <2>2
<1>8. CopyOK'
      BY DEF IInv, CopyOK, storeVars
<1>9. QED
      BY <1>2, <1>3, <1>4, <1>5, <1>6, <1>7, <1>8 DEF IInv, TypeInv

LEMMA EvictKeeps ==
    ASSUME GroupInv, Evict
    PROVE  GroupInv'
<1>1. /\ IInv /\ TypeInv /\ owner \in Relays /\ former \in [Relays -> Thread]
      /\ losses \in 0 .. MaxLosses
      /\ step \in BusySteps /\ Loss /\ former' = [former EXCEPT ![owner] = InHand]
      BY DEF GroupInv, MembersOK, Evict, IInv
<1>2. \/ /\ position' = committed /\ done' = committed /\ step' = "poll"
         /\ attempt' = 1 /\ target' = 0
         /\ owner' \in Relays \ {owner} /\ former[owner'] = Idle
      \/ UNCHANGED <<owner, position, done, attempt, target>> /\ step' = "dead"
      BY DEF Evict, OwnedBy, ResumeAt
<1>3. IInv' /\ LogGrows /\ VersionsGrow
      BY <1>1, <1>2, RestartKeepsIInv DEF Evict, relayAll, relayVars, budgetVars
<1>4. InHand \in Thread
  <2>1. /\ part \in Partitions /\ done[part] \in Nat /\ position[part] \in Nat
        /\ attempt \in Nat /\ target \in Nat
        BY <1>1 DEF TypeInv, TypeOK
  <2>2. QED
        BY <1>1, <2>1 DEF InHand, Thread
<1>5. /\ former'[owner] = InHand
      /\ \A m \in Relays : m # owner => former'[m] = former[m]
      /\ former' \in [Relays -> Thread]
      BY <1>1, <1>4
<1>6. ASSUME NEW m \in Relays, m = owner PROVE FormerOK(m)'
  <2>1. /\ InHand.step = step /\ InHand.part = part /\ InHand.at = done[part]
        /\ InHand.upto = position[part] /\ InHand.target = target
        BY DEF InHand
  <2>2. step \in HandSteps => /\ done[part] < position[part]
                              /\ position[part] <= Len(log[part])
        BY <1>1 DEF TypeInv, TypeOK, CursorsOK, Busy, HandSteps, BusySteps
  <2>3. step \in {"body", "index"} => target = 1
        BY <1>1 DEF IInv, TargetOK
  <2>4. step = "delete" => 2 <= target /\ target <= row[doc].ver
        BY <1>1 DEF IInv, TargetOK
  <2>5. log' = log /\ row' = row
        BY DEF Evict, relayAll, relayVars, storeVars
  <2>6. former'[m] = InHand
        BY <1>5, <1>6
  <2>7. fdoc(m)' = doc
        BY <2>1, <2>5, <2>6 DEF fdoc, fev, doc, ev
  <2>8. QED
        BY <2>1, <2>2, <2>3, <2>4, <2>5, <2>6, <2>7 DEF FormerOK
<1>7. ASSUME NEW m \in Relays PROVE FormerOK(m)'
      BY <1>3, <1>5, <1>6, FormerStays
<1>8. losses' \in 0 .. MaxLosses /\ outlived' \in SUBSET Docs
      BY <1>1, LossAssumption DEF Loss, Evict, GroupInv, MembersOK
<1>9. owner' \in Relays /\ (former'[owner'] = Idle \/ step' = "dead")
      BY <1>1, <1>2, <1>5
<1>10. QED
      BY <1>3, <1>5, <1>7, <1>8, <1>9 DEF GroupInv, MembersOK

LEMMA TakeOverKeeps ==
    ASSUME GroupInv, TakeOver
    PROVE  GroupInv'
<1>1. /\ IInv /\ owner \in Relays /\ former \in [Relays -> Thread]
      /\ losses \in 0 .. MaxLosses
      BY DEF GroupInv, MembersOK
<1>2. /\ position' = committed /\ done' = committed /\ step' = "poll"
      /\ attempt' = 1 /\ target' = 0
      /\ owner' \in Relays \ {owner} /\ former[owner'] = Idle
      BY DEF TakeOver, OwnedBy, ResumeAt
<1>3. IInv' /\ LogGrows /\ VersionsGrow
      BY <1>1, <1>2, RestartKeepsIInv DEF TakeOver, relayAll, relayVars, budgetVars
<1>4. /\ former' \in [Relays -> Thread]
      /\ \A m \in Relays : m # owner => former'[m] = former[m]
      /\ former'[owner] \in {Ended, former[owner]}
      BY <1>1, IdleThreads DEF TakeOver
<1>5. ASSUME NEW m \in Relays PROVE FormerOK(m)'
  <2>1. CASE former'[m] = former[m]
        BY <1>3, <2>1, FormerStays
  <2>2. CASE former'[m] = Ended
        BY <2>2, FormerDone, IdleThreads
  <2>3. QED
        BY <1>4, <2>1, <2>2
<1>6. losses' = losses /\ outlived' \in SUBSET Docs
      BY DEF TakeOver, GroupInv, MembersOK
<1>7. QED
      BY <1>1, <1>2, <1>3, <1>4, <1>5, <1>6 DEF GroupInv, MembersOK

LEMMA DeathKeeps ==
    ASSUME GroupInv, NEW r \in Relays, ProcessDies(r)
    PROVE  GroupInv'
<1>1. /\ IInv /\ owner \in Relays /\ former \in [Relays -> Thread]
      /\ losses \in 0 .. MaxLosses /\ (former[owner] = Idle \/ step = "dead")
      BY DEF GroupInv, MembersOK
<1>2. /\ former' \in [Relays -> Thread] /\ former'[r] = Idle
      /\ \A m \in Relays : m # r => former'[m] = former[m]
      BY <1>1, IdleThreads DEF ProcessDies
<1>3. \/ /\ position' = committed /\ done' = committed /\ step' = "poll"
         /\ attempt' = 1 /\ target' = 0
         /\ owner' \in Relays /\ former'[owner'] = Idle
      \/ UNCHANGED <<owner, position, done, attempt, target, step>> /\ r # owner
      BY DEF ProcessDies, OwnedBy, ResumeAt, offsetVars
<1>4. IInv' /\ LogGrows /\ VersionsGrow
      BY <1>1, <1>3, RestartKeepsIInv DEF ProcessDies, RelayStops, budgetVars
<1>5. ASSUME NEW m \in Relays PROVE FormerOK(m)'
      BY <1>2, <1>4, FormerStays, FormerDone, IdleThreads
<1>6. losses' \in 0 .. MaxLosses /\ outlived' \in SUBSET Docs
      BY <1>1, LossAssumption DEF ProcessDies, Loss, GroupInv, MembersOK
<1>7. QED
      BY <1>1, <1>2, <1>3, <1>4, <1>5, <1>6 DEF GroupInv, MembersOK

-----------------------------------------------------------------------------
(* What a former owner's thread does to itself.                            *)

(* The thread m moves to t, and no other thread moves.                     *)
MovesTo(m, t) == t \in Thread /\ former' = [former EXCEPT ![m] = t]

LEMMA MovedThread ==
    ASSUME GroupInv, NEW m \in Relays, NEW t, MovesTo(m, t)
    PROVE  /\ former' \in [Relays -> Thread]
           /\ former'[m] = t
           /\ \A n \in Relays : n # m => former'[n] = former[n]
    BY DEF MovesTo, GroupInv, MembersOK

(* It stays on the record: at another step, with another plan.             *)
LEMMA MovedOnRecord ==
    ASSUME GroupInv, NEW m \in Relays, NEW t, MovesTo(m, t), log' = log,
           former[m].step \in HandSteps,
           t.part = former[m].part, t.at = former[m].at, t.upto = former[m].upto,
           t.step \in {"body", "index"} => t.target = 1,
           t.step = "delete" => 2 <= t.target /\ t.target <= row'[fdoc(m)].ver
    PROVE  FormerOK(m)'
<1>1. former'[m] = t
      BY MovedThread
<1>2. fdoc(m)' = fdoc(m)
      BY <1>1 DEF fdoc, fev
<1>3. /\ former[m].at < former[m].upto
      /\ former[m].upto <= Len(log[former[m].part])
      BY DEF GroupInv, MembersOK, FormerOK
<1>4. QED
      BY <1>1, <1>2, <1>3 DEF FormerOK

LEMMA GoesKeeps ==
    ASSUME GroupInv, NEW m \in Relays, log' = log, former[m].step \in HandSteps,
           NEW s \in HandSteps \ {"body", "delete"}, Goes(m, s),
           s = "index" => former[m].step = "body"
    PROVE  FormerOK(m)' /\ former' \in [Relays -> Thread]
           /\ \A n \in Relays : n # m => former'[n] = former[n]
<1> DEFINE t == [former[m] EXCEPT !.step = s]
<1>1. former[m] \in Thread /\ former \in [Relays -> Thread]
      BY DEF GroupInv, MembersOK
<1>2. t \in Thread /\ t.step = s /\ t.target = former[m].target
      /\ t.part = former[m].part /\ t.at = former[m].at /\ t.upto = former[m].upto
      BY <1>1 DEF Thread, HandSteps
<1>3. former' = [former EXCEPT ![m] = t]
      BY DEF Goes
<1>4. s = "index" => former[m].target = 1
      BY DEF GroupInv, MembersOK, FormerOK
<1> HIDE DEF t
<1>5. MovesTo(m, t)
      BY <1>2, <1>3 DEF MovesTo
<1>6. QED
      BY <1>2, <1>4, <1>5, MovedThread, MovedOnRecord

LEMMA WillWriteKeeps ==
    ASSUME GroupInv, NEW m \in Relays, log' = log, former[m].step \in HandSteps,
           NEW s \in {"body", "delete"}, NEW v \in Nat, WillWrite(m, s, v),
           s = "body" => v = 1,
           s = "delete" => 2 <= v /\ v <= row'[fdoc(m)].ver
    PROVE  FormerOK(m)' /\ former' \in [Relays -> Thread]
           /\ \A n \in Relays : n # m => former'[n] = former[n]
<1> DEFINE t == [former[m] EXCEPT !.step = s, !.target = v]
<1>1. former[m] \in Thread /\ former \in [Relays -> Thread]
      BY DEF GroupInv, MembersOK
<1>2. t \in Thread /\ t.step = s /\ t.target = v
      /\ t.part = former[m].part /\ t.at = former[m].at /\ t.upto = former[m].upto
      BY <1>1 DEF Thread, BusySteps, HandleSteps
<1>3. former' = [former EXCEPT ![m] = t]
      BY <1>1 DEF WillWrite
<1> HIDE DEF t
<1>4. MovesTo(m, t)
      BY <1>2, <1>3 DEF MovesTo
<1>5. QED
      BY <1>2, <1>4, MovedThread, MovedOnRecord

LEMMA TriesAgainKeeps ==
    ASSUME GroupInv, NEW m \in Relays, log' = log, former[m].step \in HandSteps,
           TriesAgain(m)
    PROVE  FormerOK(m)' /\ former' \in [Relays -> Thread]
           /\ \A n \in Relays : n # m => former'[n] = former[n]
<1> DEFINE again == [former[m] EXCEPT !.step = "begin", !.target = 0,
                                  !.attempt = former[m].attempt + 1]
           letter == [former[m] EXCEPT !.step = "dlq_mark", !.target = 0]
           t == IF former[m].attempt < MaxAttempts THEN again ELSE letter
<1>1. former[m] \in Thread /\ former \in [Relays -> Thread]
      BY DEF GroupInv, MembersOK
<1>2. t \in Thread /\ t.step \in {"begin", "dlq_mark"}
      /\ t.part = former[m].part /\ t.at = former[m].at /\ t.upto = former[m].upto
  <2>1. again \in Thread /\ again.step = "begin" /\ again.part = former[m].part
        /\ again.at = former[m].at /\ again.upto = former[m].upto
    <3>1. former[m].attempt + 1 \in Nat
          BY <1>1 DEF Thread
    <3> DEFINE next == former[m].attempt + 1
    <3> HIDE DEF next
    <3>2. again = [former[m] EXCEPT !.step = "begin", !.target = 0, !.attempt = next]
          BY DEF next
    <3>3. next \in Nat
          BY <3>1 DEF next
    <3> HIDE DEF again
    <3>4. QED
          BY <1>1, <3>2, <3>3 DEF Thread, BusySteps, HandleSteps
  <2>2. letter \in Thread /\ letter.step = "dlq_mark" /\ letter.part = former[m].part
        /\ letter.at = former[m].at /\ letter.upto = former[m].upto
        BY <1>1 DEF Thread, BusySteps, HandleSteps
  <2> HIDE DEF again, letter
  <2>3. QED
        BY <2>1, <2>2
<1>3. former' = [former EXCEPT ![m] = t]
      BY DEF TriesAgain
<1> HIDE DEF t
<1>4. MovesTo(m, t)
      BY <1>2, <1>3 DEF MovesTo
<1>5. QED
      BY <1>2, <1>4, MovedThread, MovedOnRecord

LEMMA FinishesKeeps ==
    ASSUME GroupInv, NEW m \in Relays, log' = log, former[m].step \in HandSteps,
           Finishes(m)
    PROVE  FormerOK(m)' /\ former' \in [Relays -> Thread]
           /\ \A n \in Relays : n # m => former'[n] = former[n]
<1> DEFINE s == IF former[m].at + 1 < former[m].upto THEN "begin" ELSE "commit"
           t == [former[m] EXCEPT !.at = former[m].at + 1, !.attempt = 1, !.target = 0, !.step = s]
<1>1. /\ former[m] \in Thread /\ former \in [Relays -> Thread]
      /\ former[m].upto <= Len(log[former[m].part])
      BY DEF GroupInv, MembersOK, FormerOK
<1>2. /\ t \in Thread /\ t.step = s
      /\ t.part = former[m].part /\ t.at = former[m].at + 1 /\ t.upto = former[m].upto
  <2> DEFINE next == former[m].at + 1
  <2>1. s \in {"begin", "commit"}
        OBVIOUS
  <2>2. next \in Nat
        BY <1>1 DEF Thread
  <2> HIDE DEF s, next
  <2>3. t = [former[m] EXCEPT !.at = next, !.attempt = 1, !.target = 0, !.step = s]
        BY DEF next
  <2> HIDE DEF t
  <2>4. /\ t \in Thread /\ t.step = s
        /\ t.part = former[m].part /\ t.at = next /\ t.upto = former[m].upto
        BY <1>1, <2>1, <2>2, <2>3 DEF Thread, BusySteps, HandleSteps
  <2>5. QED
        BY <2>4 DEF next
<1>3. former' = [former EXCEPT ![m] = t]
      BY DEF Finishes
<1> HIDE DEF t
<1>4. MovesTo(m, t)
      BY <1>2, <1>3 DEF MovesTo
<1>5. /\ former'[m] = t /\ former' \in [Relays -> Thread]
      /\ \A n \in Relays : n # m => former'[n] = former[n]
      BY <1>4, MovedThread
<1>6. FormerOK(m)'
      BY <1>1, <1>2, <1>5 DEF FormerOK, HandSteps, BusySteps, HandleSteps
<1>7. QED
      BY <1>5, <1>6

LEMMA EndedKeeps ==
    ASSUME GroupInv, NEW m \in Relays, former' = [former EXCEPT ![m] = Ended]
    PROVE  FormerOK(m)' /\ former' \in [Relays -> Thread]
           /\ \A n \in Relays : n # m => former'[n] = former[n]
<1>1. MovesTo(m, Ended)
      BY IdleThreads DEF MovesTo
<1>2. /\ former'[m] = Ended /\ former' \in [Relays -> Thread]
      /\ \A n \in Relays : n # m => former'[n] = former[n]
      BY <1>1, MovedThread
<1>3. QED
      BY <1>2, FormerDone, IdleThreads

-----------------------------------------------------------------------------
(* What a former owner does to everybody else.                             *)

LEMMA FormerShape ==
    ASSUME NEW m \in Relays, FormerWorks(m) \/ FormerFails(m)
    PROVE  /\ UNCHANGED <<raw, uploading, outbox, relayVars, crashes, offsetVars,
                          threadVars, owner, losses, outlived>>
           /\ \/ row' = row
              \/ /\ former[m].step \in {"mark_live", "mark_failed", "dlq_mark"}
                 /\ \E status \in {"LIVE", "FAILED"} : Mark(fdoc(m), status)
           /\ \/ es' = es /\ unbumped' \subseteq unbumped
              \/ former[m].step = "index" /\ Apply(fdoc(m), former[m].target, TRUE)
              \/ former[m].step = "delete" /\ Apply(fdoc(m), former[m].target, FALSE)
           /\ text' = text \/ (former[m].step = "body" /\ text' = text \cup {fdoc(m)})
           /\ dlq' = dlq \/ (former[m].step = "dlq_publish" /\ dlq' = dlq \cup {fev(m)})
           /\ faults' = faults \/ Fault
           /\ former[m].step \in BusySteps \/ m # owner
<1> USE DEF BusySteps, HandleSteps
<1>1. /\ UNCHANGED <<raw, uploading, outbox, relayVars, crashes, position, done,
                     threadVars, owner, losses, outlived>>
      BY DEF FormerWorks, FormerFails
<1>2. CASE FormerBegins(m) \/ FormerReadsBody(m)
      BY <1>1, <1>2 DEF FormerBegins, FormerReadsBody, offsetVars
<1>3. CASE FormerApplies(m)
      BY <1>1, <1>3 DEF FormerApplies, offsetVars
<1>4. CASE FormerMarks(m)
      BY <1>1, <1>4 DEF FormerMarks, offsetVars
<1>5. CASE FormerInvalidates(m) \/ FormerPublishes(m) \/ FormerCommits(m)
      BY <1>1, <1>5 DEF FormerInvalidates, FormerPublishes, FormerCommits, Fenced,
                        offsetVars
<1>6. CASE FormerRaises(m)
      BY <1>1, <1>6 DEF FormerRaises, offsetVars
<1>7. QED
      BY <1>2, <1>3, <1>4, <1>5, <1>6 DEF FormerWorks, FormerFails

LEMMA FormerKeepsIInv ==
    ASSUME GroupInv, NEW m \in Relays, FormerWorks(m) \/ FormerFails(m)
    PROVE  /\ IInv' /\ log' = log
           /\ \A c \in Docs : row'[c].ver = row[c].ver
<1>1. /\ IInv /\ TypeInv /\ TypeOK /\ CursorsOK /\ RelayTypeOK /\ StoreTypeOK
      /\ row \in [Docs -> Row] /\ faults \in Nat
      /\ es \in [Docs -> [ver : Nat, present : BOOLEAN]]
      BY DEF GroupInv, IInv, TypeInv, TypeOK, RelayTypeOK, StoreTypeOK
<1>2. /\ UNCHANGED <<raw, uploading, outbox, relayVars, crashes, offsetVars,
                     threadVars, owner, losses, outlived>>
      /\ log' = log
      BY FormerShape DEF relayVars
<1>3. former[m].step \in HandSteps =>
          /\ fdoc(m) \in Docs /\ fev(m) \in Event /\ row[fdoc(m)] \in Row
          /\ 1 <= row[fdoc(m)].ver /\ former[m].target \in Nat
  <2>1. former[m].step \in HandSteps =>
            /\ fdoc(m) \in Docs /\ fev(m) \in Event /\ row[fdoc(m)] \in Row
            /\ fev(m).ver \in Nat /\ 1 <= fev(m).ver /\ fev(m).ver <= row[fdoc(m)].ver
            /\ former[m] \in Thread
        BY FormerFacts
  <2>2. QED
        BY <2>1 DEF Thread, Row
<1>4. /\ row' \in [Docs -> Row]
      /\ RowsOK' /\ OpsOK' /\ EveryVersionHasItsEvent'
      /\ \A c \in Docs : row'[c].ver = row[c].ver
  <2>1. CASE row' = row
    <3>1. EveryVersionHasItsEvent' /\ OpsOK'
          BY <1>1, <1>2, <2>1, SameVersions DEF IInv
    <3>2. RowsOK'
          BY <1>1, <1>2, <2>1 DEF IInv, RowsOK
    <3>3. QED
          BY <1>1, <2>1, <3>1, <3>2
  <2>2. CASE /\ former[m].step \in HandSteps
             /\ \E status \in {"LIVE", "FAILED"} : Mark(fdoc(m), status)
    <3>1. PICK status \in {"LIVE", "FAILED"} : Mark(fdoc(m), status)
          BY <2>2
    <3>2. /\ StoreTypeOK'
          /\ \A c \in Docs : row'[c].ver = row[c].ver /\ row'[c].body = row[c].body
          /\ \A c \in Docs : c # fdoc(m) => row'[c] = row[c]
          /\ row'[fdoc(m)].status = status
          BY <1>1, <1>2, <1>3, <2>2, <3>1, MarkKeeps
    <3>3. EveryVersionHasItsEvent' /\ OpsOK'
          BY <1>1, <1>2, <3>2, SameVersions DEF IInv
    <3>4. RowsOK'
          BY <1>1, <1>2, <1>3, <2>2, <3>2 DEF IInv, RowsOK, NoRow
    <3>5. QED
          BY <3>2, <3>3, <3>4 DEF StoreTypeOK
  <2>3. QED
        BY <2>1, <2>2, FormerShape DEF HandSteps, BusySteps, HandleSteps
<1>5. /\ es' \in [Docs -> [ver : Nat, present : BOOLEAN]]
      /\ unbumped' \in SUBSET Tenants
      /\ CopyOK'
  <2>1. unbumped \in SUBSET Tenants
        BY <1>1 DEF TypeOK
  <2>2. CASE es' = es /\ unbumped' \subseteq unbumped
        BY <1>1, <1>4, <2>1, <2>2 DEF IInv, CopyOK
  <2>3. ASSUME NEW present \in BOOLEAN, Apply(fdoc(m), former[m].target, present),
               former[m].step \in HandSteps,
               former[m].target <= row[fdoc(m)].ver,
               present => former[m].target = 1
        PROVE  /\ es' \in [Docs -> [ver : Nat, present : BOOLEAN]]
               /\ unbumped' \in SUBSET Tenants
               /\ CopyOK'
    <3>1. TenantOf[fdoc(m)] \in Tenants
          BY <1>3, <2>3, TenantAssumption
    <3>2. unbumped' \in SUBSET Tenants
          BY <2>1, <2>3, <3>1 DEF Apply
    <3>3. \/ es' = es
          \/ es' = [es EXCEPT ![fdoc(m)] = [ver |-> former[m].target, present |-> present]]
          BY <2>3 DEF Apply
    <3>4. es' \in [Docs -> [ver : Nat, present : BOOLEAN]]
          BY <1>1, <1>3, <2>3, <3>3
    <3>5. CopyOK'
          BY <1>1, <1>3, <1>4, <2>3, <3>3 DEF IInv, CopyOK
    <3>6. QED
          BY <3>2, <3>4, <3>5
  <2>4. CASE former[m].step = "index" /\ Apply(fdoc(m), former[m].target, TRUE)
    <3>1. former[m].step \in HandSteps /\ former[m].target = 1
          BY <2>4 DEF GroupInv, MembersOK, FormerOK, HandSteps, BusySteps, HandleSteps
    <3>2. QED
          BY <1>3, <2>3, <2>4, <3>1
  <2>5. CASE former[m].step = "delete" /\ Apply(fdoc(m), former[m].target, FALSE)
    <3>1. former[m].step \in HandSteps /\ former[m].target <= row[fdoc(m)].ver
          BY <2>5 DEF GroupInv, MembersOK, FormerOK, HandSteps, BusySteps, HandleSteps
    <3>2. QED
          BY <2>3, <2>5, <3>1
  <2>6. QED
        BY <2>2, <2>4, <2>5, FormerShape
<1>6. /\ text' \in SUBSET Docs /\ dlq' \in SUBSET Event /\ faults' \in Nat
  <2>1. text' \in SUBSET Docs
        BY <1>1, <1>3, FormerShape DEF TypeOK, HandSteps, BusySteps, HandleSteps
  <2>2. dlq' \in SUBSET Event
        BY <1>1, <1>3, FormerShape DEF TypeOK, HandSteps, BusySteps, HandleSteps
  <2>3. faults' \in Nat
    <3>1. faults' = faults \/ Fault
          BY FormerShape
    <3>2. QED
          BY <1>1, <3>1 DEF Fault
  <2>4. QED
        BY <2>1, <2>2, <2>3
<1>7. RelayTypeOK'
      BY <1>1, <1>2, <1>4, <1>6, UpstreamKeeps
<1>8. TypeOK'
      BY <1>1, <1>2, <1>5, <1>6, <1>7 DEF TypeOK, offsetVars, threadVars
<1>9. CursorsOK'
      BY <1>1, <1>2 DEF CursorsOK, offsetVars, threadVars
<1>10. LogFromOutbox'
      BY <1>1, <1>2 DEF IInv, LogFromOutbox
<1>11. TargetOK'
  <2>1. /\ doc' = doc /\ step' = step /\ target' = target
        BY <1>2 DEF doc, ev, offsetVars, threadVars
  <2>2. step = "delete" => doc \in Docs
        BY <1>1, RecordAtHand DEF Busy, HandleSteps
  <2>3. QED
        BY <1>1, <1>4, <2>1, <2>2 DEF IInv, TargetOK
<1>12. QED
      BY <1>2, <1>4, <1>5, <1>7, <1>8, <1>9, <1>10, <1>11 DEF IInv, TypeInv

(* The thread itself, call by call.                                        *)
LEMMA FormerKeepsThread ==
    ASSUME GroupInv, NEW m \in Relays, FormerWorks(m) \/ FormerFails(m)
    PROVE  FormerOK(m)' /\ former' \in [Relays -> Thread]
           /\ \A n \in Relays : n # m => former'[n] = former[n]
<1> USE DEF HandSteps, BusySteps, HandleSteps
<1>1. /\ log' = log /\ \A c \in Docs : row'[c].ver = row[c].ver
      BY FormerKeepsIInv
<1>2. CASE FormerBegins(m)
  <2>1. /\ former[m].step \in HandSteps /\ row' = row
        /\ fdoc(m) \in Docs /\ row[fdoc(m)] \in Row /\ fev(m).ver \in Nat
        /\ fev(m).ver <= row[fdoc(m)].ver
        /\ fev(m).op = "DELETE" => fev(m).ver >= 2
        BY <1>2, FormerFacts DEF FormerBegins
  <2>2. row[fdoc(m)].ver \in Nat
        BY <2>1 DEF Row
  <2>3. CASE fev(m).op = "DELETE" /\ WillWrite(m, "delete", fev(m).ver)
        BY <1>1, <2>1, <2>3, WillWriteKeeps
  <2>4. CASE row[fdoc(m)].status = "DELETED" /\ WillWrite(m, "delete", row[fdoc(m)].ver)
    <3>1. row[fdoc(m)].ver >= 2
          BY <2>1, <2>4 DEF GroupInv, IInv, RowsOK
    <3>2. QED
          BY <1>1, <2>1, <2>2, <2>4, <3>1, WillWriteKeeps
  <2>5. CASE ToIndex(fdoc(m)) /\ WillWrite(m, "body", row[fdoc(m)].ver)
    <3>1. row[fdoc(m)].ver = 1
          BY <2>1, <2>5 DEF GroupInv, IInv, RowsOK, ToIndex
    <3>2. QED
          BY <1>1, <2>1, <2>5, <3>1, WillWriteKeeps
  <2>6. CASE Finishes(m)
        BY <1>1, <2>1, <2>6, FinishesKeeps
  <2>7. QED
        BY <1>2, <2>3, <2>4, <2>5, <2>6 DEF FormerBegins
<1>3. CASE FormerReadsBody(m)
  <2>1. former[m].step = "body"
        BY <1>3 DEF FormerReadsBody
  <2>2. CASE Goes(m, "index")
        BY <1>1, <2>1, <2>2, GoesKeeps
  <2>3. CASE Goes(m, "mark_failed")
        BY <1>1, <2>1, <2>3, GoesKeeps
  <2>4. CASE TriesAgain(m)
        BY <1>1, <2>1, <2>4, TriesAgainKeeps
  <2>5. QED
        BY <1>3, <2>2, <2>3, <2>4 DEF FormerReadsBody
<1>4. CASE FormerApplies(m)
      BY <1>1, <1>4, GoesKeeps DEF FormerApplies
<1>5. CASE FormerMarks(m)
      BY <1>1, <1>5, GoesKeeps, FinishesKeeps DEF FormerMarks
<1>6. CASE FormerInvalidates(m) \/ FormerPublishes(m)
      BY <1>1, <1>6, FinishesKeeps DEF FormerInvalidates, FormerPublishes
<1>7. CASE FormerCommits(m)
      BY <1>7, EndedKeeps DEF FormerCommits
<1>8. CASE FormerRaises(m)
      BY <1>1, <1>8, TriesAgainKeeps, EndedKeeps DEF FormerRaises
<1>9. QED
      BY <1>2, <1>3, <1>4, <1>5, <1>6, <1>7, <1>8 DEF FormerWorks, FormerFails

LEMMA FormerKeeps ==
    ASSUME GroupInv, NEW m \in Relays, FormerWorks(m) \/ FormerFails(m)
    PROVE  GroupInv'
<1>1. /\ IInv' /\ log' = log /\ RelayTypeOK
      /\ \A c \in Docs : row'[c].ver = row[c].ver /\ row[c].ver \in Nat
      BY FormerKeepsIInv
      DEF GroupInv, IInv, TypeInv, TypeOK, RelayTypeOK, StoreTypeOK, Row
<1>2. LogGrows /\ VersionsGrow
      BY <1>1, SameLogGrows DEF VersionsGrow
<1>3. /\ FormerOK(m)' /\ former' \in [Relays -> Thread]
      /\ \A n \in Relays : n # m => former'[n] = former[n]
      BY FormerKeepsThread
<1>4. \A n \in Relays : FormerOK(n)'
      BY <1>1, <1>2, <1>3, FormerStays
<1>5. /\ owner' = owner /\ losses' = losses /\ outlived' = outlived /\ step' = step
      /\ former[m].step \in BusySteps \/ m # owner
      BY FormerShape DEF threadVars
<1>6. former'[owner] = Idle \/ step = "dead"
  <2>1. Idle.step \notin BusySteps
        BY IdleThreads DEF HandSteps, Idle, NoThread, BusySteps, HandleSteps
  <2>2. step # "dead" => m # owner
        BY <1>5, <2>1 DEF GroupInv, MembersOK
  <2>3. QED
        BY <1>3, <2>2 DEF GroupInv, MembersOK
<1>7. QED
      BY <1>1, <1>3, <1>4, <1>5, <1>6 DEF GroupInv, MembersOK

-----------------------------------------------------------------------------
(* Every step of the group.                                                *)

(* A step of the pipeline itself, which knows of no members.               *)
PipelineStep ==
    /\ Next
    /\ UNCHANGED <<owner, former, losses>>
    /\ outlived' = outlived \/ \E d \in Docs : outlived' = outlived \cup {d}
    /\ ConsumerStep \/ UNCHANGED <<offsetVars, threadVars>>

LEMMA GroupSteps ==
    ASSUME GroupNext
    PROVE  \/ PipelineStep \/ Evict \/ TakeOver
           \/ \E m \in Relays : FormerWorks(m) \/ FormerFails(m)
           \/ \E m \in Relays : ProcessDies(m)
<1>1. CASE StoreNext /\ UNCHANGED <<relayVars, budgetVars, consumerVars, memberVars>>
      BY <1>1 DEF PipelineStep, Next, memberVars, consumerVars, offsetVars, threadVars
<1>2. CASE \E r \in Relays :
               RelayStep(r) /\ UNCHANGED <<storeVars, consumerVars, memberVars>>
      BY <1>2 DEF PipelineStep, Next, memberVars, consumerVars, offsetVars, threadVars
<1>3. CASE ConsumerStep /\ UNCHANGED memberVars
      BY <1>3 DEF PipelineStep, Next, memberVars
<1>4. CASE \E d \in Docs : GroupForgets(d)
      BY <1>4 DEF PipelineStep, Next, GroupForgets, ForgetTombstone
<1>5. CASE LateStep /\ UNCHANGED <<storeVars, consumerVars, memberVars>>
      BY <1>5 DEF PipelineStep, Next, memberVars, consumerVars, offsetVars, threadVars
<1>6. QED
      BY <1>1, <1>2, <1>3, <1>4, <1>5 DEF GroupNext

LEMMA PipelineStepKeeps ==
    ASSUME GroupInv, PipelineStep
    PROVE  GroupInv'
<1>1. /\ IInv /\ RelayTypeOK /\ Next
      /\ \A d \in Docs : row[d] \in Row
      BY DEF GroupInv, PipelineStep, IInv, TypeInv, TypeOK, RelayTypeOK, StoreTypeOK
<1>2. IInv'
      BY <1>1, NextKeepsIInv
<1>3. LogGrows /\ VersionsGrow /\ (step = "dead" => step' = "dead")
  <2>1. CASE ConsumerStep
    <3>1. /\ log' = log
          /\ \A d \in Docs : row'[d].ver = row[d].ver /\ row[d].ver \in Nat
          BY <1>1, <2>1, ConsumerShape, ConsumerKeepsRows DEF Row
    <3>2. step # "dead"
          BY <2>1 DEF ConsumerStep, ConsumerWorks, Poll, NextPartition, BeginDelete,
                      Load, BodyFor, Index, MarkLive, Delete, Invalidate, MarkFailed,
                      DeadLetterMark, DeadLetterPublish, Commit, HandleRaises,
                      ThreadDies, HandleSteps
    <3>3. QED
          BY <1>1, <3>1, <3>2, SameLogGrows DEF VersionsGrow
  <2>2. CASE ~ConsumerStep
    <3>1. RowsMove /\ LogGrows
          BY <1>1, <2>2, OthersShape DEF OthersMove
    <3>2. VersionsGrow
      <4>1. ASSUME NEW d \in Docs PROVE row[d].ver <= row'[d].ver
        <5>1. row[d].ver \in Nat /\ NoRow.ver = 0
              BY <1>1 DEF Row, NoRow
        <5>2. \/ row'[d] = row[d]
              \/ row[d] = NoRow /\ row'[d].ver = 1
              \/ row'[d].ver = row[d].ver + 1
              BY <3>1 DEF RowsMove
        <5>3. QED
              BY <5>1, <5>2
      <4>2. QED
            BY <4>1 DEF VersionsGrow
    <3>3. step' = step
          BY <2>2 DEF PipelineStep, threadVars
    <3>4. QED
          BY <3>1, <3>2, <3>3
  <2>3. QED
        BY <2>1, <2>2
<1>4. /\ owner' = owner /\ former' = former /\ losses' = losses
      /\ outlived' \in SUBSET Docs
      BY DEF PipelineStep, GroupInv, MembersOK
<1>5. \A m \in Relays : FormerOK(m)'
      BY <1>2, <1>3, <1>4, FormerStays
<1>6. QED
      BY <1>2, <1>3, <1>4, <1>5 DEF GroupInv, MembersOK

LEMMA GroupNextKeeps == GroupInv /\ [GroupNext]_groupVars => GroupInv'
<1> SUFFICES ASSUME GroupInv, [GroupNext]_groupVars
             PROVE  GroupInv'
    OBVIOUS
<1>1. CASE PipelineStep
      BY <1>1, PipelineStepKeeps
<1>2. CASE Evict
      BY <1>2, EvictKeeps
<1>3. CASE TakeOver
      BY <1>3, TakeOverKeeps
<1>4. CASE \E m \in Relays : FormerWorks(m) \/ FormerFails(m)
      BY <1>4, FormerKeeps
<1>5. CASE \E m \in Relays : ProcessDies(m)
      BY <1>5, DeathKeeps
<1>6. CASE UNCHANGED groupVars
  <2>1. UNCHANGED vars /\ UNCHANGED memberVars
        BY <1>6 DEF groupVars
  <2>2. IInv'
        BY <2>1, NextKeepsIInv DEF GroupInv
  <2>3. LogGrows /\ VersionsGrow
    <3>1. log' = log /\ row' = row /\ RelayTypeOK /\ \A d \in Docs : row[d].ver \in Nat
          BY <2>1 DEF vars, relayAll, relayVars, storeVars, GroupInv, IInv, TypeInv,
                      TypeOK, RelayTypeOK, StoreTypeOK, Row
    <3>2. QED
          BY <3>1, SameLogGrows DEF VersionsGrow
  <2>4. /\ owner' = owner /\ former' = former /\ losses' = losses /\ step' = step
        /\ outlived' = outlived
        BY <2>1 DEF memberVars, vars, consumerVars
  <2>5. \A m \in Relays : FormerOK(m)'
        BY <2>2, <2>3, <2>4, FormerStays
  <2>6. QED
        BY <2>2, <2>4, <2>5 DEF GroupInv, MembersOK
<1>7. QED
      BY <1>1, <1>2, <1>3, <1>4, <1>5, <1>6, GroupSteps

(* The versions of rows, outbox, topic and index agree in a group as well, *)
(* and each thread is about to write version 1 or a deletion the table has *)
(* reached, whether it owns the partitions or has lost them (handle).      *)
THEOREM GroupInvariant == GroupSpec => []GroupInv
      BY InitGroupInv, GroupNextKeeps, PTL DEF GroupSpec

(* A member that has lost its partitions works on a record the topic still *)
(* holds, at a step the loop has, and the owner is either in the group     *)
(* with no old batch in its hand or its thread has ended (consumer.loop).  *)
THEOREM GroupTyping == GroupSpec => []GroupTypeOK
<1>1. GroupInv => GroupTypeOK
      BY DEF GroupInv, IInv, TypeInv, MembersOK, FormerOK, HandSteps, GroupTypeOK
<1>2. QED
      BY <1>1, GroupInvariant, PTL

-----------------------------------------------------------------------------
(* The index under several consumers.                                      *)

(* What a former owner writes is one abstract step forward, or none: the   *)
(* version it carries is one the row has reached.                          *)
LEMMA FormerFollows ==
    ASSUME GroupInv, NEW m \in Relays, FormerWorks(m) \/ FormerFails(m)
    PROVE  Promise!Next \/ UNCHANGED <<Versions, es>>
<1>1. /\ Versions' = Versions
      /\ es \in [Docs -> [ver : Nat, present : BOOLEAN]]
      BY FormerKeepsIInv DEF Versions, GroupInv, IInv, TypeInv, TypeOK
<1>2. ASSUME NEW present \in BOOLEAN, NEW d \in Docs, NEW v \in 1 .. row[d].ver,
             Apply(d, v, present), present = (v = 1)
      PROVE  Promise!Next \/ UNCHANGED <<Versions, es>>
  <2>1. CASE ~Newer(d, v)
        BY <1>1, <1>2, <2>1 DEF Apply
  <2>2. CASE Newer(d, v)
    <3>1. v \in 1 .. Versions[d]
          BY <1>2 DEF Versions
    <3>2. es' = [es EXCEPT ![d] = [ver |-> v, present |-> present]]
          BY <1>2, <2>2 DEF Apply
    <3>3. Promise!Follow(d)
          BY <1>1, <1>2, <2>2, <3>1, <3>2 DEF Newer, Promise!Follow, Versions
    <3>4. QED
          BY <1>2, <3>3 DEF Promise!Next
  <2>3. QED
        BY <2>1, <2>2
<1>3. ASSUME former[m].step \in {"index", "delete"}
      PROVE  /\ fdoc(m) \in Docs
             /\ former[m].target \in 1 .. row[fdoc(m)].ver
             /\ former[m].step = "index" <=> former[m].target = 1
  <2>1. former[m].step \in HandSteps
        BY <1>3 DEF HandSteps, BusySteps, HandleSteps
  <2>2. /\ fdoc(m) \in Docs /\ row[fdoc(m)] \in Row /\ former[m] \in Thread
        /\ fev(m).ver \in Nat /\ 1 <= fev(m).ver /\ fev(m).ver <= row[fdoc(m)].ver
        BY <2>1, FormerFacts
  <2>3. /\ former[m].step = "index" => former[m].target = 1
        /\ former[m].step = "delete" =>
              2 <= former[m].target /\ former[m].target <= row[fdoc(m)].ver
        BY DEF GroupInv, MembersOK, FormerOK
  <2>4. former[m].target \in Nat /\ row[fdoc(m)].ver \in Nat
        BY <2>2 DEF Thread, Row
  <2>5. QED
        BY <1>3, <2>2, <2>3, <2>4
<1>4. CASE former[m].step = "index" /\ Apply(fdoc(m), former[m].target, TRUE)
      BY <1>2, <1>3, <1>4
<1>5. CASE former[m].step = "delete" /\ Apply(fdoc(m), former[m].target, FALSE)
      BY <1>2, <1>3, <1>5
<1>6. QED
      BY <1>1, <1>4, <1>5, FormerShape

LEMMA GroupStepRefines ==
    GroupInv /\ [GroupNext]_groupVars => [Promise!Next]_<<Versions, es>>
<1> SUFFICES ASSUME GroupInv, [GroupNext]_groupVars
             PROVE  Promise!Next \/ UNCHANGED <<Versions, es>>
    OBVIOUS
<1>1. CASE PipelineStep \/ UNCHANGED groupVars
      BY <1>1, StepRefines DEF PipelineStep, GroupInv, groupVars
<1>2. CASE Evict \/ TakeOver \/ \E m \in Relays : ProcessDies(m)
      BY <1>2 DEF Evict, TakeOver, ProcessDies, relayAll, storeVars, Versions
<1>3. CASE \E m \in Relays : FormerWorks(m) \/ FormerFails(m)
      BY <1>3, FormerFollows
<1>4. QED
      BY <1>1, <1>2, <1>3, GroupSteps

(* The promise of the index survives the group: an owner that went silent  *)
(* and still writes its old batch beside the new owner cannot move a       *)
(* document backwards or show a deleted one (version_type=external in      *)
(* es.index_document and es.delete_document).                              *)
THEOREM GroupImplementsReplica == GroupSpec => ImplementsReplica
<1>1. GroupInit => Promise!Init
      BY DEF GroupInit, Init, RelayInit, StoreInit, NoRow, Promise!Init,
             Promise!Nothing
<1>2. GroupSpec => [][Promise!Next]_<<Versions, es>>
      BY GroupInvariant, GroupStepRefines, PTL DEF GroupSpec
<1>3. QED
      BY <1>1, <1>2, PTL DEF GroupSpec, ImplementsReplica, Promise!Spec, Versions

-----------------------------------------------------------------------------
(* Offsets under several consumers.                                        *)

(* The owner commits when its batch of the partition is through.           *)
CommitsWhole == step = "commit" => done[part] = position[part]

LEMMA ConsumerCommitsWhole ==
    ASSUME IInv, CommitsWhole, ConsumerStep
    PROVE  CommitsWhole'
<1>1. TypeInv /\ done \in [Partitions -> Nat] /\ part \in Partitions
      BY DEF IInv, TypeInv, TypeOK
<1>2. CASE FinishRecord /\ step \in Busy
      BY <1>1, <1>2, FinishedAtHand DEF AtHand, CommitsWhole
<1>3. CASE step' # "commit"
      BY <1>3 DEF CommitsWhole
<1>4. QED
  <2> USE <1>2, <1>3 DEF Busy, HandleSteps
  <2>1. CASE Poll \/ NextPartition \/ BeginDelete \/ Index \/ MarkLive \/ Delete
             \/ DeadLetterMark \/ Commit \/ ThreadDies
        BY <2>1 DEF Poll, NextPartition, BeginDelete, Index, MarkLive, Delete,
                    DeadLetterMark, Commit, AfterCommit, ThreadDies, GoTo
  <2>2. CASE Load \/ BodyFor \/ HandleRaises
        BY <2>2 DEF Load, BodyFor, AfterBody, HandleRaises, Retry, GoTo
  <2>3. CASE Invalidate \/ MarkFailed \/ DeadLetterPublish
        BY <2>3 DEF Invalidate, MarkFailed, DeadLetterPublish
  <2>4. QED
        BY <2>1, <2>2, <2>3 DEF ConsumerStep, ConsumerWorks

LEMMA GroupKeepsCommitted ==
    ASSUME \A p, q \in Partitions : p = q
    PROVE  GroupInv /\ CommitsWhole /\ CommittedIsHandled /\ [GroupNext]_groupVars
              => (CommitsWhole /\ CommittedIsHandled)'
<1> SUFFICES ASSUME GroupInv, CommitsWhole, CommittedIsHandled, [GroupNext]_groupVars
             PROVE  CommitsWhole' /\ CommittedIsHandled'
    OBVIOUS
<1>1. /\ IInv
      /\ done \in [Partitions -> Nat] /\ committed \in [Partitions -> Nat]
      /\ part \in Partitions
      BY DEF GroupInv, IInv, TypeInv, TypeOK
<1>2. CASE ConsumerStep
  <2>1. CommittedIsHandled'
    <3>1. CASE step = "commit" /\ committed' = position /\ done' = done
          BY <1>1, <3>1 DEF CommitsWhole, CommittedIsHandled
    <3>2. CASE committed' = committed /\ done' = done
          BY <3>2 DEF CommittedIsHandled
    <3>3. CASE committed' = committed /\ FinishRecord
          BY <1>1, <3>3 DEF CommittedIsHandled, FinishRecord
    <3>4. QED
          BY <1>2, <3>1, <3>2, <3>3, CursorShape
  <2>2. QED
        BY <1>1, <1>2, <2>1, ConsumerCommitsWhole
<1>3. CASE UNCHANGED <<offsetVars, threadVars>>
      BY <1>3 DEF offsetVars, threadVars, CommitsWhole, CommittedIsHandled
<1>4. CASE \E n \in Relays : OwnedBy(n) /\ committed' = committed
      BY <1>1, <1>4 DEF OwnedBy, ResumeAt, CommitsWhole, CommittedIsHandled
<1>5. CASE Evict
  <2>1. CASE step' = "dead" /\ UNCHANGED <<done, committed>>
        BY <2>1 DEF CommitsWhole, CommittedIsHandled
  <2>2. QED
        BY <1>4, <1>5, <2>1 DEF Evict
<1>6. CASE TakeOver
      BY <1>4, <1>6 DEF TakeOver
<1>7. CASE \E m \in Relays : FormerWorks(m) \/ FormerFails(m)
      BY <1>3, <1>7, FormerShape
<1>8. CASE \E m \in Relays : ProcessDies(m)
      BY <1>3, <1>4, <1>8 DEF ProcessDies, offsetVars, threadVars
<1>9. CASE UNCHANGED groupVars
      BY <1>3, <1>9 DEF groupVars, vars, consumerVars, offsetVars, threadVars
<1>10. QED
      BY <1>2, <1>3, <1>5, <1>6, <1>7, <1>8, <1>9, GroupSteps DEF PipelineStep

(* On a topic of one partition no hand-over loses a record: the committed  *)
(* offset the next owner starts from covers only records applied or        *)
(* dead-lettered, and a commit by a member that was evicted is refused     *)
(* (loop: commit after the batch, CommitFailedError).                      *)
THEOREM OnePartitionGroupCommits ==
    ASSUME \A p, q \in Partitions : p = q
    PROVE  GroupSpec => []CommittedIsHandled
<1>1. GroupInit => CommitsWhole /\ CommittedIsHandled
      BY DEF GroupInit, Init, CommitsWhole, CommittedIsHandled
<1>2. GroupInv /\ CommitsWhole /\ CommittedIsHandled /\ [GroupNext]_groupVars
          => (CommitsWhole /\ CommittedIsHandled)'
      BY GroupKeepsCommitted
<1>3. QED
      BY <1>1, <1>2, GroupInvariant, PTL DEF GroupSpec
-----------------------------------------------------------------------------
(* Deletions under several consumers.                                      *)

IsDeletion(e, d) == e.doc = d /\ e.op = "DELETE"

(* An UPSERT is what is being indexed or marked.                           *)
HandOp ==
    step \in {"body", "index", "mark_live", "mark_failed"} => ev.op = "UPSERT"

(* While a former owner is on its way to index a document, the deletions   *)
(* behind the cursor, and one that is being handled, have left a version   *)
(* that refuses its write, unless they were given up or it was forgotten.  *)
Refused ==
    \A d \in Docs : Extracting(d) /\ d \notin outlived =>
        /\ \A p \in Partitions : \A k \in 1 .. done[p] :
              IsDeletion(log[p][k], d) => log[p][k] \in dlq \/ es[d].ver >= 2
        /\ step = "invalidate" /\ IsDeletion(ev, d) => es[d].ver >= 2

DeletionInv == NoDeletionHandled /\ HandOp /\ Refused

(* Nothing the cursor has passed, and not the record under it, deletes d.  *)
NothingBehind(d) ==
    /\ \A p \in Partitions : \A k \in 1 .. done[p] : ~IsDeletion(log[p][k], d)
    /\ step' = "invalidate" => ~IsDeletion(ev, d)

LEMMA CursorsInLog ==
    ASSUME TypeInv
    PROVE  \A p \in Partitions :
              /\ done[p] \in Nat /\ Len(log[p]) \in Nat /\ done[p] <= Len(log[p])
<1>1. \A p \in Partitions : /\ done[p] \in Nat /\ position[p] \in Nat
                            /\ Len(log[p]) \in Nat
      BY DEF TypeInv, TypeOK, RelayTypeOK
<1>2. QED
      BY <1>1 DEF TypeInv, CursorsOK

(* A row still at version 1 has no deletion in the topic.                  *)
LEMMA NotDeletedYet ==
    ASSUME IInv, NEW d \in Docs, row[d].ver = 1
    PROVE  \A p \in Partitions : \A k \in 1 .. Len(log[p]) : ~IsDeletion(log[p][k], d)
<1>1. ASSUME NEW p \in Partitions, NEW k \in 1 .. Len(log[p])
      PROVE  ~IsDeletion(log[p][k], d)
  <2>1. PICK i \in DOMAIN outbox : log[p][k] = outbox[i]
        BY DEF IInv, LogFromOutbox
  <2>2. outbox[i].doc = d => outbox[i].ver = 1
        BY DEF IInv, EveryVersionHasItsEvent
  <2>3. QED
        BY <2>1, <2>2 DEF IInv, OpsOK, IsDeletion
<1>2. QED
      BY <1>1

(* The record under an unmoved former owner stays.                         *)
LEMMA FormerRecord ==
    ASSUME GroupInv, LogGrows, NEW m \in Relays, former'[m] = former[m],
           former[m].step \in {"body", "index"}
    PROVE  fdoc(m)' = fdoc(m)
<1>1. /\ former[m].part \in Partitions
      /\ former[m].at + 1 \in 1 .. Len(log[former[m].part])
      BY FormerFacts DEF HandSteps, BusySteps, HandleSteps
<1> DEFINE p == former[m].part
           k == former[m].at + 1
<1>2. log'[p][k] = log[p][k]
      BY <1>1 DEF LogGrows
<1>3. QED
      BY <1>2 DEF fdoc, fev

(* The owner's thread stays on its record, or stands at none.              *)
LEMMA ThreadStays ==
    ASSUME TypeInv, LogGrows, NoDeletionHandled, HandOp,
           \/ UNCHANGED <<step, part, done>>
           \/ step' \in {"poll", "dead"}
    PROVE  NoDeletionHandled' /\ HandOp'
<1>1. CASE step' \in {"poll", "dead"}
      BY <1>1 DEF NoDeletionHandled, HandOp
<1>2. CASE UNCHANGED <<step, part, done>>
  <2>1. step \in {"body", "index", "mark_live", "mark_failed"} => ev' = ev
        BY <1>2, BusyRecord, SameRecord DEF Busy, HandleSteps
  <2>2. QED
        BY <1>2, <2>1, HandStays DEF HandOp
<1>3. QED
      BY <1>1, <1>2

(* Steps that move no cursor forwards keep what refuses the write.         *)
LEMMA QuietKeepsRefused ==
    ASSUME TypeInv, LogGrows, Refused, dlq \subseteq dlq',
           \A p \in Partitions : done'[p] \in Nat /\ done'[p] <= done[p],
           \A d \in Docs : es[d].ver \in Nat /\ es'[d].ver \in Nat,
           \A d \in Docs : Extracting(d)' /\ d \notin outlived' =>
               \/ Extracting(d) /\ d \notin outlived /\ es[d].ver <= es'[d].ver
               \/ NothingBehind(d),
           UNCHANGED <<step, part, done>> \/ step' \in {"poll", "dead"}
    PROVE  Refused'
<1> SUFFICES ASSUME NEW d \in Docs, Extracting(d)', d \notin outlived'
             PROVE  /\ \A p \in Partitions : \A k \in 1 .. done'[p] :
                          IsDeletion(log'[p][k], d) =>
                              log'[p][k] \in dlq' \/ es'[d].ver >= 2
                    /\ step' = "invalidate" /\ IsDeletion(ev', d) => es'[d].ver >= 2
    BY DEF Refused, IsDeletion
<1>1. step' = "invalidate" => step = "invalidate" /\ ev' = ev
      BY BusyRecord, SameRecord DEF Busy, HandleSteps
<1>2. ASSUME NEW p \in Partitions, NEW k \in 1 .. done'[p]
      PROVE  k \in 1 .. done[p] /\ log'[p][k] = log[p][k]
  <2>1. k \in 1 .. done[p] /\ k \in 1 .. Len(log[p])
        BY CursorsInLog
  <2>2. QED
        BY <2>1 DEF LogGrows
<1>3. CASE Extracting(d) /\ d \notin outlived /\ es[d].ver <= es'[d].ver
  <2>1. es[d].ver >= 2 => es'[d].ver >= 2
        BY <1>3
  <2>2. QED
        BY <1>1, <1>2, <1>3, <2>1 DEF Refused
<1>4. CASE NothingBehind(d)
      BY <1>1, <1>2, <1>4 DEF NothingBehind
<1>5. QED
      BY <1>3, <1>4

-----------------------------------------------------------------------------
(* The owner's own steps.                                                  *)

LEMMA ConsumerKeepsHandOp ==
    ASSUME HandOp, ConsumerStep
    PROVE  HandOp'
<1> USE DEF HandleSteps
<1>1. log' = log
      BY ConsumerShape
<1>2. CASE step' \notin {"body", "index", "mark_live", "mark_failed"}
      BY <1>2 DEF HandOp
<1>3. CASE Load /\ step' = "body"
  <2>1. CASE FinishRecord
        BY <1>3, <2>1 DEF FinishRecord
  <2>2. CASE UNCHANGED <<part, offsetVars>>
        BY <1>1, <1>3, <2>2 DEF Load, HandOp, ev, offsetVars
  <2>3. QED
        BY <1>3, <2>1, <2>2 DEF Load
<1>4. CASE BodyFor /\ step' \in {"index", "mark_failed"}
  <2>1. CASE Retry
        BY <1>4, <2>1 DEF Retry
  <2>2. CASE UNCHANGED part
        BY <1>1, <1>4, <2>2 DEF BodyFor, HandOp, ev, offsetVars
  <2>3. QED
        BY <1>4, <2>1, <2>2 DEF BodyFor, GoTo
<1>5. CASE Index
      BY <1>1, <1>5 DEF Index, GoTo, HandOp, ev, offsetVars
<1>6. QED
  <2>1. CASE Load \/ BodyFor
        BY <1>2, <1>3, <1>4, <2>1 DEF Load, BodyFor, AfterBody, FinishRecord, GoTo, Retry
  <2>2. CASE Poll \/ NextPartition \/ BeginDelete \/ MarkLive \/ Delete
             \/ DeadLetterMark \/ Commit \/ ThreadDies \/ HandleRaises
        BY <1>2, <2>2 DEF Poll, NextPartition, BeginDelete, MarkLive, Delete,
           DeadLetterMark, Commit, AfterCommit, ThreadDies, HandleRaises, GoTo, Retry
  <2>3. CASE Invalidate \/ MarkFailed \/ DeadLetterPublish
        BY <1>2, <2>3 DEF Invalidate, MarkFailed, DeadLetterPublish, FinishRecord
  <2>4. QED
        BY <1>5, <2>1, <2>2, <2>3 DEF ConsumerStep, ConsumerWorks

(* Versioned writes only raise the version, and leave what they write.     *)
LEMMA ApplyRaises ==
    ASSUME es \in [Docs -> [ver : Nat, present : BOOLEAN]], NEW c \in Docs,
           NEW v \in Nat, NEW present \in BOOLEAN, Apply(c, v, present)
    PROVE  /\ \A d \in Docs : es'[d].ver \in Nat /\ es[d].ver <= es'[d].ver
           /\ es'[c].ver >= v
<1>1. CASE Newer(c, v)
  <2>1. es' = [es EXCEPT ![c] = [ver |-> v, present |-> present]]
        BY <1>1 DEF Apply
  <2>2. es'[c].ver = v /\ \A d \in Docs : d # c => es'[d] = es[d]
        BY <2>1
  <2>3. QED
        BY <1>1, <2>2 DEF Newer
<1>2. CASE ~Newer(c, v)
  <2>1. es' = es /\ es[c].ver \in Nat
        BY <1>2 DEF Apply
  <2>2. QED
        BY <1>2, <2>1 DEF Newer
<1>3. QED
      BY <1>1, <1>2

LEMMA ConsumerKeepsRefused ==
    ASSUME GroupInv, DeletionInv, ConsumerStep, UNCHANGED memberVars
    PROVE  Refused'
<1>1. /\ IInv /\ TypeInv /\ log' = log /\ dlq \subseteq dlq'
      /\ es \in [Docs -> [ver : Nat, present : BOOLEAN]] /\ target \in Nat
      /\ done \in [Partitions -> Nat] /\ part \in Partitions
      /\ former' = former /\ outlived' = outlived
      BY ConsumerMarks DEF GroupInv, IInv, TypeInv, TypeOK, memberVars
<1>2. \A d \in Docs : Extracting(d)' = Extracting(d)
      BY <1>1 DEF Extracting, fdoc, fev
<1>3. step \in {"index", "delete"} => doc \in Docs
      BY <1>1, RecordAtHand DEF Busy, HandleSteps
<1>4. \A d \in Docs : es'[d].ver \in Nat /\ es[d].ver <= es'[d].ver
  <2>1. CASE es' = es
        BY <1>1, <2>1
  <2>2. CASE step = "index" /\ Apply(doc, target, TRUE)
        BY <1>1, <1>3, <2>2, ApplyRaises
  <2>3. CASE step = "delete" /\ Apply(doc, target, FALSE)
        BY <1>1, <1>3, <2>3, ApplyRaises
  <2>4. QED
        BY <2>1, <2>2, <2>3, ConsumerShape
<1> SUFFICES ASSUME NEW d \in Docs, Extracting(d), d \notin outlived
             PROVE  /\ \A p \in Partitions : \A k \in 1 .. done'[p] :
                          IsDeletion(log[p][k], d) =>
                              log[p][k] \in dlq' \/ es'[d].ver >= 2
                    /\ step' = "invalidate" /\ IsDeletion(ev', d) => es'[d].ver >= 2
    BY <1>1, <1>2 DEF Refused, IsDeletion
<1>5. /\ \A p \in Partitions : \A k \in 1 .. done[p] :
            IsDeletion(log[p][k], d) => log[p][k] \in dlq' \/ es'[d].ver >= 2
      /\ step = "invalidate" /\ IsDeletion(ev, d) => es'[d].ver >= 2
  <2>1. es[d].ver >= 2 => es'[d].ver >= 2
        BY <1>1, <1>4
  <2>2. QED
        BY <1>1, <2>1 DEF DeletionInv, Refused
<1>6. \A p \in Partitions : \A k \in 1 .. done'[p] :
          IsDeletion(log[p][k], d) => log[p][k] \in dlq' \/ es'[d].ver >= 2
  <2>1. CASE done' = done
        BY <1>5, <2>1
  <2>2. CASE /\ FinishRecord
             /\ \/ step = "begin" /\ ev.op = "UPSERT"
                \/ step \in {"mark_failed", "invalidate"}
                \/ step = "dlq_publish" /\ ev \in dlq'
    <3>1. IsDeletion(ev, d) => ev \in dlq' \/ es'[d].ver >= 2
          BY <1>5, <2>2 DEF DeletionInv, HandOp, IsDeletion
    <3>2. done' = [done EXCEPT ![part] = @ + 1]
          BY <2>2 DEF FinishRecord
    <3>3. ASSUME NEW p \in Partitions, NEW k \in 1 .. done'[p]
          PROVE  k \in 1 .. done[p] \/ log[p][k] = ev
      <4>1. CASE p = part
            BY <1>1, <3>2, <3>3, <4>1 DEF ev
      <4>2. CASE p # part
            BY <1>1, <3>2, <3>3, <4>2
      <4>3. QED
            BY <4>1, <4>2
    <3>4. QED
          BY <1>5, <3>1, <3>3
  <2>3. QED
        BY <2>1, <2>2, CursorShape
<1>7. step' = "invalidate" => MarkLive \/ Delete
  <2> USE DEF HandleSteps
  <2>1. CASE Load \/ BodyFor \/ Index
        BY <2>1 DEF Load, BodyFor, Index, AfterBody, FinishRecord, GoTo, Retry
  <2>2. CASE Poll \/ NextPartition \/ BeginDelete \/ DeadLetterMark \/ Commit
             \/ ThreadDies \/ HandleRaises
        BY <2>2 DEF Poll, NextPartition, BeginDelete, DeadLetterMark, Commit,
                    AfterCommit, ThreadDies, HandleRaises, GoTo, Retry
  <2>3. CASE Invalidate \/ MarkFailed \/ DeadLetterPublish
        BY <2>3 DEF Invalidate, MarkFailed, DeadLetterPublish, FinishRecord
  <2>4. QED
        BY <2>1, <2>2, <2>3 DEF ConsumerStep, ConsumerWorks
<1>8. CASE MarkLive
  <2>1. ev' = ev /\ ev.op = "UPSERT"
        BY <1>1, <1>8 DEF MarkLive, GoTo, offsetVars, ev, DeletionInv, HandOp
  <2>2. QED
        BY <1>6, <2>1 DEF IsDeletion
<1>9. CASE Delete
  <2>1. /\ ev' = ev /\ step = "delete" /\ Apply(doc, target, FALSE)
        BY <1>1, <1>9 DEF Delete, GoTo, offsetVars, ev
  <2>2. target >= 2 /\ es'[doc].ver >= target /\ es'[doc].ver \in Nat
        BY <1>1, <1>3, <2>1, ApplyRaises DEF IInv, TargetOK
  <2>3. es'[doc].ver >= 2
        BY <1>1, <2>2
  <2>4. QED
        BY <1>6, <2>1, <2>3 DEF IsDeletion, doc
<1>10. QED
      BY <1>6, <1>7, <1>8, <1>9
-----------------------------------------------------------------------------
(* Everybody else's steps.                                                 *)

(* Where the moves of a former owner's thread lead.                        *)
LEMMA Moves ==
    ASSUME former \in [Relays -> Thread], NEW m \in Relays
    PROVE  /\ \A s : Goes(m, s) =>
                 /\ former'[m].step = s
                 /\ former'[m].part = former[m].part /\ former'[m].at = former[m].at
           /\ \A s, v : WillWrite(m, s, v) =>
                 /\ former'[m].step = s
                 /\ former'[m].part = former[m].part /\ former'[m].at = former[m].at
           /\ TriesAgain(m) =>
                 /\ former'[m].step \in {"begin", "dlq_mark"}
                 /\ former'[m].part = former[m].part /\ former'[m].at = former[m].at
           /\ Finishes(m) => former'[m].step \in {"begin", "commit"}
<1>1. former[m] \in Thread
      OBVIOUS
<1>2. ASSUME NEW s, Goes(m, s)
      PROVE  /\ former'[m].step = s
             /\ former'[m].part = former[m].part /\ former'[m].at = former[m].at
  <2>1. former'[m] = [former[m] EXCEPT !.step = s]
        BY <1>2 DEF Goes
  <2>2. QED
        BY <1>1, <2>1 DEF Thread
<1>3. ASSUME NEW s, NEW v, WillWrite(m, s, v)
      PROVE  /\ former'[m].step = s
             /\ former'[m].part = former[m].part /\ former'[m].at = former[m].at
  <2>1. former'[m] = [former[m] EXCEPT !.step = s, !.target = v]
        BY <1>3 DEF WillWrite
  <2>2. QED
        BY <1>1, <2>1 DEF Thread
<1>4. ASSUME TriesAgain(m)
      PROVE  /\ former'[m].step \in {"begin", "dlq_mark"}
             /\ former'[m].part = former[m].part /\ former'[m].at = former[m].at
  <2>1. \/ former'[m] = [former[m] EXCEPT !.step = "begin", !.target = 0,
                                        !.attempt = former[m].attempt + 1]
        \/ former'[m] = [former[m] EXCEPT !.step = "dlq_mark", !.target = 0]
        BY <1>4 DEF TriesAgain
  <2>2. QED
        BY <1>1, <2>1 DEF Thread
<1>5. ASSUME Finishes(m)
      PROVE  former'[m].step \in {"begin", "commit"}
  <2> DEFINE s == IF former[m].at + 1 < former[m].upto THEN "begin" ELSE "commit"
  <2>1. former'[m] = [former[m] EXCEPT !.at = former[m].at + 1, !.attempt = 1,
                                       !.target = 0, !.step = s]
        BY <1>5 DEF Finishes
  <2>2. s \in {"begin", "commit"}
        OBVIOUS
  <2> HIDE DEF s
  <2>3. QED
        BY <1>1, <2>1, <2>2 DEF Thread
<1>6. QED
      BY <1>2, <1>3, <1>4, <1>5

(* A former owner starts to index only what no record in the topic deletes.*)
LEMMA FormerStarts ==
    ASSUME GroupInv, NEW m \in Relays, FormerWorks(m) \/ FormerFails(m),
           former'[m].step \in {"body", "index"}
    PROVE  /\ fdoc(m)' = fdoc(m) /\ fdoc(m) \in Docs
           /\ former[m].step = "body" \/ row[fdoc(m)].ver = 1
<1>1. /\ log' = log /\ former \in [Relays -> Thread]
      BY FormerKeepsIInv DEF GroupInv, MembersOK
<1>2. CASE FormerBegins(m)
  <2>1. fdoc(m) \in Docs /\ row[fdoc(m)] \in Row
        BY <1>2, FormerFacts DEF FormerBegins, HandSteps, BusySteps, HandleSteps
  <2>2. CASE WillWrite(m, "delete", fev(m).ver) \/ WillWrite(m, "delete", row[fdoc(m)].ver)
        BY <1>1, <2>2, Moves
  <2>3. CASE ToIndex(fdoc(m)) /\ WillWrite(m, "body", row[fdoc(m)].ver)
    <3>1. row[fdoc(m)].ver = 1
          BY <2>1, <2>3 DEF GroupInv, IInv, RowsOK, ToIndex
    <3>2. former'[m].part = former[m].part /\ former'[m].at = former[m].at
          BY <1>1, <2>3, Moves
    <3>3. QED
          BY <1>1, <2>1, <3>1, <3>2 DEF fdoc, fev
  <2>4. CASE Finishes(m)
        BY <1>1, <2>4, Moves
  <2>5. QED
        BY <1>2, <2>2, <2>3, <2>4 DEF FormerBegins
<1>3. CASE FormerReadsBody(m)
  <2>1. former[m].step = "body" /\ fdoc(m) \in Docs
        BY <1>3, FormerFacts DEF FormerReadsBody, HandSteps, BusySteps, HandleSteps
  <2>2. former'[m].part = former[m].part /\ former'[m].at = former[m].at
        BY <1>1, <1>3, Moves DEF FormerReadsBody
  <2>3. QED
        BY <1>1, <2>1, <2>2 DEF fdoc, fev
<1>4. CASE FormerApplies(m) \/ FormerMarks(m)
  <2>1. \/ Goes(m, "mark_live") \/ Goes(m, "invalidate") \/ Goes(m, "dlq_publish")
        \/ Finishes(m)
        BY <1>4 DEF FormerApplies, FormerMarks
  <2>2. former'[m].step \in {"mark_live", "invalidate", "dlq_publish", "begin", "commit"}
        BY <1>1, <2>1, Moves
  <2>3. QED
        BY <2>2
<1>5. CASE FormerInvalidates(m) \/ FormerPublishes(m) \/ FormerCommits(m)
      BY <1>1, <1>5, IdleThreads, Moves
      DEF FormerInvalidates, FormerPublishes, FormerCommits
<1>6. CASE FormerRaises(m)
      BY <1>1, <1>6, IdleThreads, Moves DEF FormerRaises
<1>7. QED
      BY <1>2, <1>3, <1>4, <1>5, <1>6 DEF FormerWorks, FormerFails

LEMMA FormerKeepsDeletionInv ==
    ASSUME GroupInv, DeletionInv, NEW m \in Relays, FormerWorks(m) \/ FormerFails(m)
    PROVE  DeletionInv'
<1>1. /\ IInv /\ TypeInv /\ log' = log /\ LogGrows
      /\ es \in [Docs -> [ver : Nat, present : BOOLEAN]]
      /\ UNCHANGED <<offsetVars, threadVars, outlived>>
      /\ dlq \subseteq dlq'
      BY FormerKeepsIInv, FormerShape, SameLogGrows
      DEF GroupInv, IInv, TypeInv, TypeOK
<1>2. /\ \A n \in Relays : n # m => former'[n] = former[n]
      /\ UNCHANGED <<step, part, done>>
      BY <1>1, FormerKeepsThread DEF offsetVars, threadVars
<1>3. \A d \in Docs : es'[d].ver \in Nat /\ es[d].ver <= es'[d].ver
  <2>1. CASE es' = es
        BY <1>1, <2>1
  <2>2. ASSUME former[m].step \in {"index", "delete"}, NEW present \in BOOLEAN,
               Apply(fdoc(m), former[m].target, present)
        PROVE  \A d \in Docs : es'[d].ver \in Nat /\ es[d].ver <= es'[d].ver
    <3>1. former[m] \in Thread /\ fdoc(m) \in Docs
          BY <2>2, FormerFacts DEF HandSteps, BusySteps, HandleSteps
    <3>2. former[m].target \in Nat
          BY <3>1 DEF Thread
    <3>3. QED
          BY <1>1, <2>2, <3>1, <3>2, ApplyRaises
  <2>3. QED
        BY <2>1, <2>2, FormerShape
<1>4. ASSUME NEW d \in Docs, Extracting(d)', d \notin outlived'
      PROVE  Extracting(d) \/ NothingBehind(d)
  <2>1. PICK n \in Relays : former'[n].step \in {"body", "index"} /\ fdoc(n)' = d
        BY <1>4 DEF Extracting
  <2>2. CASE n # m
    <3>1. fdoc(n)' = fdoc(n) /\ former'[n] = former[n]
          BY <1>1, <1>2, <2>2 DEF fdoc, fev
    <3>2. QED
          BY <2>1, <3>1 DEF Extracting
  <2>3. CASE n = m
    <3>1. /\ fdoc(m) = d
          /\ former[m].step = "body" \/ row[d].ver = 1
          BY <2>1, <2>3, FormerStarts
    <3>2. CASE row[d].ver = 1
      <4>1. \A p \in Partitions : \A k \in 1 .. Len(log[p]) : ~IsDeletion(log[p][k], d)
            BY <1>1, <3>2, NotDeletedYet
      <4>2. \A p \in Partitions : \A k \in 1 .. done[p] : k \in 1 .. Len(log[p])
            BY <1>1, CursorsInLog
      <4>3. step = "invalidate" => part \in Partitions
                                   /\ done[part] + 1 \in 1 .. Len(log[part])
            BY <1>1, CursorsInLog, BusyRecord
            DEF Busy, HandleSteps, TypeInv, TypeOK
      <4>4. step = "invalidate" => ~IsDeletion(ev, d)
            BY <4>1, <4>3 DEF ev
      <4>5. QED
            BY <1>2, <4>1, <4>2, <4>4 DEF NothingBehind
    <3>3. QED
          BY <3>1, <3>2 DEF Extracting
  <2>4. QED
        BY <2>2, <2>3
<1>5. NoDeletionHandled' /\ HandOp'
      BY <1>1, <1>2, ThreadStays DEF DeletionInv
<1>6. Refused'
  <2>1. \A p \in Partitions : done'[p] \in Nat /\ done'[p] <= done[p]
        BY <1>1, <1>2, CursorsInLog
  <2>2. \A d \in Docs : es[d].ver \in Nat /\ es'[d].ver \in Nat
        BY <1>1, <1>3
  <2>3. \A d \in Docs : Extracting(d)' /\ d \notin outlived' =>
            \/ Extracting(d) /\ d \notin outlived /\ es[d].ver <= es'[d].ver
            \/ NothingBehind(d)
        BY <1>1, <1>3, <1>4
  <2>4. QED
        BY <1>1, <1>2, <2>1, <2>2, <2>3, QuietKeepsRefused DEF DeletionInv
<1>7. QED
      BY <1>5, <1>6 DEF DeletionInv

(* Steps in which no former owner moves on, and no version is lost.        *)
LEMMA UnmovedKeepsRefused ==
    ASSUME GroupInv, Refused, LogGrows, dlq \subseteq dlq',
           \A n \in Relays : \/ former'[n] = former[n]
                             \/ former'[n].step \notin {"body", "index"},
           \A d \in Docs : Extracting(d) /\ d \notin outlived' =>
               d \notin outlived /\ es'[d] = es[d],
           \A d \in Docs : es'[d].ver \in Nat,
           \A p \in Partitions : done'[p] \in Nat /\ done'[p] <= done[p],
           UNCHANGED <<step, part, done>> \/ step' \in {"poll", "dead"}
    PROVE  Refused'
<1>1. TypeInv /\ \A d \in Docs : es[d].ver \in Nat
      BY DEF GroupInv, IInv, TypeInv, TypeOK
<1>2. ASSUME NEW d \in Docs, Extracting(d)', d \notin outlived'
      PROVE  Extracting(d) /\ d \notin outlived /\ es[d].ver <= es'[d].ver
  <2>1. PICK n \in Relays : former'[n].step \in {"body", "index"} /\ fdoc(n)' = d
        BY <1>2 DEF Extracting
  <2>2. former'[n] = former[n] /\ fdoc(n) = d
        BY <2>1, FormerRecord
  <2>3. Extracting(d)
        BY <2>1, <2>2 DEF Extracting
  <2>4. QED
        BY <1>1, <1>2, <2>3
<1>3. QED
      BY <1>1, <1>2, QuietKeepsRefused

(* An owner that is evicted while it indexes has handled no deletion of    *)
(* what it indexes.                                                        *)
LEMMA EvictKeepsDeletionInv ==
    ASSUME GroupInv, DeletionInv, CommittedIsHandled, Evict
    PROVE  DeletionInv'
<1>1. /\ TypeInv /\ log' = log /\ dlq' = dlq /\ es' = es /\ outlived' = outlived
      /\ row' = row /\ former \in [Relays -> Thread] /\ owner \in Relays
      /\ former' = [former EXCEPT ![owner] = InHand]
      /\ step' \in {"poll", "dead"}
      /\ done' = committed \/ done' = done
      /\ committed \in [Partitions -> Nat] /\ done \in [Partitions -> Nat]
      /\ \A d \in Docs : es[d].ver \in Nat
      BY DEF GroupInv, IInv, TypeInv, TypeOK, MembersOK, Evict, OwnedBy, ResumeAt,
             relayAll, relayVars, storeVars
<1>2. LogGrows
      BY <1>1, SameLogGrows DEF TypeInv, TypeOK
<1>3. \A p \in Partitions : done'[p] \in Nat /\ done'[p] <= done[p]
      BY <1>1 DEF CommittedIsHandled
<1>4. ASSUME NEW d \in Docs, Extracting(d)', d \notin outlived'
      PROVE  (Extracting(d) /\ d \notin outlived) \/ NothingBehind(d)
  <2>1. PICK n \in Relays : former'[n].step \in {"body", "index"} /\ fdoc(n)' = d
        BY <1>4 DEF Extracting
  <2>2. CASE n # owner
    <3>1. former'[n] = former[n] /\ fdoc(n)' = fdoc(n)
          BY <1>1, <2>2 DEF fdoc, fev
    <3>2. QED
          BY <1>1, <1>4, <2>1, <3>1 DEF Extracting
  <2>3. CASE n = owner
    <3>1. former'[n] = InHand
          BY <1>1, <2>3
    <3>2. step \in {"body", "index"} /\ doc = d
          BY <1>1, <2>1, <3>1 DEF InHand, fdoc, fev, doc, ev
    <3>3. QED
          BY <1>1, <3>2 DEF DeletionInv, NoDeletionHandled, NothingBehind, IsDeletion
  <2>4. QED
        BY <2>2, <2>3
<1>5. NoDeletionHandled' /\ HandOp'
      BY <1>1, <1>2, ThreadStays DEF DeletionInv
<1>6. Refused'
      BY <1>1, <1>2, <1>3, <1>4, QuietKeepsRefused DEF DeletionInv
<1>7. QED
      BY <1>5, <1>6 DEF DeletionInv

LEMMA HandOverKeepsDeletionInv ==
    ASSUME GroupInv, DeletionInv, CommittedIsHandled,
           TakeOver \/ \E m \in Relays : ProcessDies(m)
    PROVE  DeletionInv'
<1>1. /\ TypeInv /\ log' = log /\ dlq' = dlq /\ es' = es /\ outlived' = outlived
      /\ former \in [Relays -> Thread]
      /\ \/ done' = committed /\ step' = "poll"
         \/ UNCHANGED <<step, part, done>>
      /\ committed \in [Partitions -> Nat] /\ done \in [Partitions -> Nat]
      /\ \A d \in Docs : es[d].ver \in Nat
      BY DEF GroupInv, IInv, TypeInv, TypeOK, MembersOK, TakeOver, ProcessDies,
             RelayStops, OwnedBy, ResumeAt, relayAll, relayVars, offsetVars
<1>2. LogGrows
      BY <1>1, SameLogGrows DEF TypeInv, TypeOK
<1>3. \A p \in Partitions : done'[p] \in Nat /\ done'[p] <= done[p]
      BY <1>1 DEF CommittedIsHandled
<1>4. \A n \in Relays : \/ former'[n] = former[n]
                        \/ former'[n].step \notin {"body", "index"}
      BY <1>1, IdleThreads DEF TakeOver, ProcessDies
<1>5. NoDeletionHandled' /\ HandOp'
      BY <1>1, <1>2, ThreadStays DEF DeletionInv
<1>6. Refused'
      BY <1>1, <1>2, <1>3, <1>4, UnmovedKeepsRefused DEF DeletionInv
<1>7. QED
      BY <1>5, <1>6 DEF DeletionInv

(* Users, relays, producers and Elasticsearch.                             *)
LEMMA OthersKeepDeletionInv ==
    ASSUME GroupInv, DeletionInv, LogGrows, UNCHANGED <<owner, former, losses>>,
           UNCHANGED <<offsetVars, threadVars, dlq>>,
           UNCHANGED <<es, outlived>> \/ \E d \in Docs : GroupForgets(d)
    PROVE  DeletionInv'
<1>1. /\ TypeInv /\ former' = former /\ dlq' = dlq
      /\ UNCHANGED <<step, part, done>>
      /\ es \in [Docs -> [ver : Nat, present : BOOLEAN]]
      BY DEF GroupInv, IInv, TypeInv, TypeOK, offsetVars, threadVars
<1>2. /\ \A d \in Docs : es'[d].ver \in Nat
      /\ \A d \in Docs : Extracting(d) /\ d \notin outlived' =>
             d \notin outlived /\ es'[d] = es[d]
  <2>1. CASE UNCHANGED <<es, outlived>>
        BY <1>1, <2>1
  <2>2. ASSUME NEW c \in Docs, GroupForgets(c)
        PROVE  /\ \A d \in Docs : es'[d].ver \in Nat
               /\ \A d \in Docs : Extracting(d) /\ d \notin outlived' =>
                      d \notin outlived /\ es'[d] = es[d]
    <3>1. /\ es'[c].ver = 0 /\ \A d \in Docs : d # c => es'[d] = es[d]
          BY <1>1, <2>2 DEF GroupForgets, ForgetTombstone
    <3>2. outlived' = IF Extracting(c) THEN outlived \cup {c} ELSE outlived
          BY <2>2 DEF GroupForgets
    <3>3. QED
          BY <1>1, <3>1, <3>2
  <2>3. QED
        BY <2>1, <2>2
<1>3. \A p \in Partitions : done'[p] \in Nat /\ done'[p] <= done[p]
      BY <1>1, CursorsInLog
<1>4. NoDeletionHandled' /\ HandOp'
      BY <1>1, ThreadStays DEF DeletionInv
<1>5. Refused'
      BY <1>1, <1>2, <1>3, UnmovedKeepsRefused DEF DeletionInv
<1>6. QED
      BY <1>4, <1>5 DEF DeletionInv
LEMMA GroupKeepsDeletionInv ==
    GroupInv /\ CommittedIsHandled /\ DeletionInv /\ [GroupNext]_groupVars
        => DeletionInv'
<1> SUFFICES ASSUME GroupInv, CommittedIsHandled, DeletionInv, [GroupNext]_groupVars
             PROVE  DeletionInv'
    OBVIOUS
<1>1. IInv /\ TypeInv /\ RelayTypeOK
      BY DEF GroupInv, IInv, TypeInv, TypeOK
<1>2. CASE ConsumerStep /\ UNCHANGED memberVars
  <2>1. NoDeletionHandled'
        BY <1>1, <1>2, ConsumerKeepsNoDeletion DEF DeletionInv
  <2>2. HandOp'
        BY <1>2, ConsumerKeepsHandOp DEF DeletionInv
  <2>3. Refused'
        BY <1>2, ConsumerKeepsRefused
  <2>4. QED
        BY <2>1, <2>2, <2>3 DEF DeletionInv
<1>3. CASE StoreNext /\ UNCHANGED <<relayVars, budgetVars, consumerVars, memberVars>>
  <2>1. LogGrows
        BY <1>1, <1>3, SameLogGrows DEF relayVars
  <2>2. QED
        BY <1>3, <2>1, OthersKeepDeletionInv
        DEF consumerVars, memberVars, offsetVars, threadVars
<1>4. CASE RelaysMove /\ UNCHANGED <<storeVars, consumerVars, memberVars>>
  <2>1. LogGrows
        BY <1>1, <1>4, MoveTypes
  <2>2. QED
        BY <1>4, <2>1, OthersKeepDeletionInv
        DEF consumerVars, memberVars, offsetVars, threadVars
<1>5. CASE \E d \in Docs : GroupForgets(d)
  <2>1. PICK d \in Docs : GroupForgets(d)
        BY <1>5
  <2>2. /\ UNCHANGED <<relayAll, offsetVars, threadVars, dlq>>
        /\ UNCHANGED <<owner, former, losses>>
        BY <2>1 DEF GroupForgets, ForgetTombstone
  <2>3. LogGrows
        BY <1>1, <2>2, SameLogGrows DEF relayAll, relayVars
  <2>4. QED
        BY <2>1, <2>2, <2>3, OthersKeepDeletionInv
<1>6. CASE Evict
      BY <1>6, EvictKeepsDeletionInv
<1>7. CASE TakeOver \/ \E m \in Relays : ProcessDies(m)
      BY <1>7, HandOverKeepsDeletionInv
<1>8. CASE \E m \in Relays : FormerWorks(m) \/ FormerFails(m)
      BY <1>8, FormerKeepsDeletionInv
<1>9. CASE UNCHANGED groupVars
  <2>1. LogGrows
        BY <1>1, <1>9, SameLogGrows DEF groupVars, vars, relayAll, relayVars
  <2>2. QED
        BY <1>9, <2>1, OthersKeepDeletionInv
        DEF groupVars, vars, memberVars, consumerVars, offsetVars, threadVars
<1>10. QED
      BY <1>2, <1>3, <1>4, <1>5, <1>6, <1>7, <1>8, <1>9 DEF GroupNext, RelaysMove

(* A document turns findable by an index call of the owner, which has      *)
(* handled no deletion of it, or of a former owner, whose version 1 is     *)
(* accepted only where Elasticsearch knows no version.                     *)
LEMMA ShownByWhom ==
    ASSUME GroupInv, DeletionInv, [GroupNext]_groupVars,
           NEW d \in Docs, ~es[d].present, es'[d].present
    PROVE  \/ d \in outlived
           \/ \A p \in Partitions : \A k \in 1 .. done[p] :
                 log[p][k].doc = d /\ log[p][k].op = "DELETE" => log[p][k] \in dlq
<1>1. es \in [Docs -> [ver : Nat, present : BOOLEAN]]
      BY DEF GroupInv, IInv, TypeInv, TypeOK
<1>2. CASE ConsumerStep
  <2>1. \/ step = "index" /\ Apply(doc, target, TRUE)
        \/ step = "delete" /\ Apply(doc, target, FALSE)
    <3>1. es' # es
          OBVIOUS
    <3>2. QED
          BY <1>2, <3>1, ConsumerShape
  <2>2. step = "index" /\ d = doc
        BY <1>1, <2>1 DEF Apply
  <2>3. QED
        BY <2>2 DEF DeletionInv, NoDeletionHandled
<1>3. CASE \E m \in Relays : FormerWorks(m) \/ FormerFails(m)
  <2>1. PICK m \in Relays : FormerWorks(m) \/ FormerFails(m)
        BY <1>3
  <2>2. \/ former[m].step = "index" /\ Apply(fdoc(m), former[m].target, TRUE)
        \/ former[m].step = "delete" /\ Apply(fdoc(m), former[m].target, FALSE)
        BY <2>1, FormerShape
  <2>3. /\ former[m].step = "index" /\ d = fdoc(m) /\ Newer(d, former[m].target)
        BY <1>1, <2>2 DEF Apply
  <2>4. former[m].target = 1
        BY <2>3 DEF GroupInv, MembersOK, FormerOK
  <2>5. Extracting(d) /\ ~(es[d].ver >= 2)
        BY <1>1, <2>3, <2>4 DEF Extracting, Newer
  <2>6. QED
        BY <2>5 DEF DeletionInv, Refused, IsDeletion
<1>4. CASE \E c \in Docs : GroupForgets(c)
  <2>1. PICK c \in Docs : GroupForgets(c)
        BY <1>4
  <2>2. es'[d].present = es[d].present
        BY <1>1, <2>1 DEF GroupForgets, ForgetTombstone
  <2>3. QED
        BY <2>2
<1>5. CASE es' = es
      BY <1>5
<1>6. QED
  <2>1. CASE Evict \/ TakeOver \/ \E m \in Relays : ProcessDies(m)
        BY <1>5, <2>1 DEF Evict, TakeOver, ProcessDies
  <2>2. CASE UNCHANGED groupVars
        BY <1>5, <2>2 DEF groupVars, vars, consumerVars
  <2>3. QED
        BY <1>2, <1>3, <1>4, <1>5, <2>1, <2>2 DEF GroupNext, consumerVars

(* On a topic of one partition, once a deletion has been handled no        *)
(* retry, redelivery, late record or former owner makes the document       *)
(* findable again, unless Elasticsearch forgot the deletion while a former *)
(* owner was on its way to index the document, or the deletion was         *)
(* dead-lettered (handle, _index, max_poll_interval_ms).                   *)
THEOREM OnlyTheOutlivedReturn ==
    ASSUME \A p, q \in Partitions : p = q
    PROVE  GroupSpec => ReturnsOnlyIfOutlived
<1> DEFINE Returns ==
        \A d \in Docs :
            ~es[d].present /\ es'[d].present =>
                \/ d \in outlived
                \/ \A p \in Partitions : \A k \in 1 .. done[p] :
                      log[p][k].doc = d /\ log[p][k].op = "DELETE" =>
                          log[p][k] \in dlq
<1>1. GroupInit => DeletionInv
      BY IdleThreads DEF GroupInit, Init, DeletionInv, NoDeletionHandled, HandOp,
                         Refused, Extracting
<1>2. GroupSpec => []CommittedIsHandled
      BY OnePartitionGroupCommits
<1>3. GroupSpec => []DeletionInv
      BY <1>1, <1>2, GroupKeepsDeletionInv, GroupInvariant, PTL DEF GroupSpec
<1>4. GroupInv /\ DeletionInv /\ [GroupNext]_groupVars => Returns
      BY ShownByWhom
<1>5. GroupInv /\ DeletionInv /\ [GroupNext]_groupVars => [Returns]_groupVars
      BY <1>4
<1>6. QED
      BY <1>3, <1>5, GroupInvariant, PTL DEF GroupSpec, ReturnsOnlyIfOutlived
=============================================================================
