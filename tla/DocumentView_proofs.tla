-------------------------- MODULE DocumentView_proofs --------------------------
(***************************************************************************)
(* What the page of a document shows, for any number of overlapping loads. *)
(***************************************************************************)
EXTENDS DocumentView, FiniteSetTheorems, TLAPS

-----------------------------------------------------------------------------
(* The requests of the page, with what each has read so far.               *)

Todo == {<<"row", "outbox">>, <<"outbox">>, << >>}

Fetch == [busy : BOOLEAN, todo : Todo, queued : BOOLEAN,
          status : {"none", "PENDING", "LIVE", "FAILED", "DELETED"}]

FetchOK(r) ==
    /\ ~r.busy => r = NoFetch
    /\ r.busy /\ r.todo = <<"outbox">> => r.status \notin {"none", "DELETED"}
    /\ r.busy /\ r.todo = << >> => r.status # "none"

TypeInv ==
    /\ TypeOK
    /\ fetch \in [Fetches -> Fetch]
    /\ \A f \in Fetches : FetchOK(fetch[f])

LEMMA Lists ==
    /\ Head(<<"row", "outbox">>) = "row" /\ Tail(<<"row", "outbox">>) = <<"outbox">>
    /\ Head(<<"outbox">>) = "outbox" /\ Tail(<<"outbox">>) = << >>
    /\ <<"row", "outbox">> # << >> /\ <<"outbox">> # << >>
    /\ <<"row", "outbox">> # <<"outbox">>
    OBVIOUS

LEMMA FreshFetches ==
    /\ NoFetch \in Fetch /\ Sent \in Fetch /\ FetchOK(NoFetch) /\ FetchOK(Sent)
    /\ Sent.busy /\ Sent.todo = <<"row", "outbox">> /\ Sent.status = "none"
    /\ NoFetch.status = "none"
<1>1. NoFetch \in Fetch /\ NoFetch.status = "none" /\ ~NoFetch.busy
      /\ NoFetch.queued = FALSE
      BY DEF NoFetch, Fetch, Todo
<1>2. Sent \in Fetch /\ Sent.busy /\ Sent.todo = <<"row", "outbox">>
      /\ Sent.status = "none"
      BY <1>1 DEF Sent, Reads, Fetch, Todo
<1>3. QED
      BY <1>1, <1>2, Lists DEF FetchOK

LEMMA StageCount ==
    /\ IsFiniteSet(Stages) /\ Cardinality(Stages) = 3
    /\ \A p : Completed(p) \in 0 .. 3
<1>1. IsFiniteSet(Stages) /\ Cardinality(Stages) = 3
  <2>1. 1 \in Int /\ 3 \in Int
        OBVIOUS
  <2>2. IsFiniteSet(1 .. 3) /\ Cardinality(1 .. 3) = IF 1 > 3 THEN 0 ELSE 3 - 1 + 1
        BY <2>1, FS_Interval
  <2>3. QED
        BY <2>2 DEF Stages
<1>2. ASSUME NEW p PROVE Completed(p) \in 0 .. 3
  <2> DEFINE S == {s \in Stages : p.steps[s] = "done"}
  <2>1. S \subseteq Stages
        OBVIOUS
  <2>2. Cardinality(S) \in Nat /\ Cardinality(S) <= 3
        BY <1>1, <2>1, FS_Subset, FS_CardinalityType
  <2>3. QED
        BY <2>2 DEF Completed
<1>3. QED
      BY <1>1, <1>2

LEMMA ProgressIsOne ==
    ASSUME NEW st, NEW queued \in BOOLEAN
    PROVE  BuildProgress(st, queued) \in Progress
<1> DEFINE steps == Doneness(queued, st = "LIVE")
<1>1. steps \in Progress
      BY DEF Doneness, Progress, States, Stages
<1>2. WithFailure(steps) \in Progress
      BY DEF WithFailure, Progress, States
<1>3. QED
      BY <1>1, <1>2 DEF BuildProgress

LEMMA InitTypeInv == Init => TypeInv
<1> SUFFICES ASSUME Init PROVE TypeInv
    OBVIOUS
<1>1. /\ fetch \in [Fetches -> Fetch]
      /\ \A f \in Fetches : fetch[f] \in {Sent, NoFetch}
      BY FreshFetches DEF Init
<1>2. \A f \in Fetches : FetchOK(fetch[f])
      BY <1>1, FreshFetches
<1>3. \A f \in Fetches :
          /\ fetch[f].todo \in Todo
          /\ ~fetch[f].busy => fetch[f] = NoFetch
          /\ fetch[f].todo = << >> /\ fetch[f].busy => fetch[f].status # "none"
      BY <1>1, <1>2 DEF Fetch, FetchOK
<1>4. page \in Shown
      BY DEF Init, Blank, Shown, Nowhere, Progress, States
<1>5. revealed \in 0 .. Cardinality(Stages)
      BY StageCount DEF Init
<1>6. TypeOK
      BY <1>3, <1>4, <1>5 DEF Init, TypeOK, Todo
<1>7. QED
      BY <1>1, <1>2, <1>6 DEF TypeInv

(* One request moves to r, and no other.                                   *)
LEMMA FetchMoves ==
    ASSUME TypeInv, NEW f \in Fetches, NEW r \in Fetch, FetchOK(r),
           fetch' = [fetch EXCEPT ![f] = r]
    PROVE  /\ fetch' \in [Fetches -> Fetch]
           /\ \A g \in Fetches : FetchOK(fetch'[g])
           /\ fetch'[f] = r
           /\ \A g \in Fetches : g # f => fetch'[g] = fetch[g]
           /\ \A g \in Fetches :
                /\ fetch'[g].todo \in {<< >>, <<"row">>, <<"outbox">>,
                                       <<"row", "outbox">>, <<"outbox", "row">>}
                /\ ~fetch'[g].busy => fetch'[g] = NoFetch
                /\ fetch'[g].todo = << >> /\ fetch'[g].busy
                       => fetch'[g].status # "none"
<1>1. /\ fetch' \in [Fetches -> Fetch]
      /\ fetch'[f] = r
      /\ \A g \in Fetches : g # f => fetch'[g] = fetch[g]
      BY DEF TypeInv
<1>2. \A g \in Fetches : FetchOK(fetch'[g])
      BY <1>1 DEF TypeInv
<1>3. \A g \in Fetches : fetch'[g].todo \in Todo
      BY <1>1 DEF Fetch
<1>4. QED
      BY <1>1, <1>2, <1>3 DEF FetchOK, Todo

(* What each step of a request makes of it.                                *)
LEMMA ReadRowFacts ==
    ASSUME TypeInv, NEW f \in Fetches, ReadRow(f)
    PROVE  LET r == [fetch[f] EXCEPT !.status = status,
                       !.todo = IF status = "DELETED" THEN << >> ELSE <<"outbox">>]
           IN  /\ r \in Fetch /\ FetchOK(r) /\ r.busy /\ r.status = status
               /\ r.todo = IF status = "DELETED" THEN << >> ELSE <<"outbox">>
               /\ fetch' = [fetch EXCEPT ![f] = r]
               /\ UNCHANGED <<serverVars, pageVars>>
<1> DEFINE left == IF status = "DELETED" THEN << >> ELSE <<"outbox">>
           r == [fetch[f] EXCEPT !.status = status, !.todo = left]
<1>1. fetch[f] \in Fetch /\ FetchOK(fetch[f])
      /\ status \in {"PENDING", "LIVE", "FAILED", "DELETED"}
      BY DEF TypeInv, TypeOK
<1>2. fetch[f].todo \in Todo /\ Head(fetch[f].todo) = "row" /\ fetch[f].todo # << >>
      BY <1>1 DEF ReadRow, Fetch
<1>3. fetch[f].todo = <<"row", "outbox">> /\ Tail(fetch[f].todo) = <<"outbox">>
      BY <1>2, Lists DEF Todo
<1>4. fetch[f].busy
      BY <1>1, <1>3, Lists DEF FetchOK, NoFetch
<1>5. fetch' = [fetch EXCEPT ![f] = r]
      BY <1>3 DEF ReadRow
<1>6. left \in {<< >>, <<"outbox">>} /\ (left = << >> <=> status = "DELETED")
      BY Lists
<1> HIDE DEF left
<1>7. r \in Fetch /\ r.busy /\ r.status = status /\ r.todo = left
      BY <1>1, <1>4, <1>6 DEF Fetch, Todo
<1> HIDE DEF r
<1>8. FetchOK(r)
      BY <1>1, <1>6, <1>7, Lists DEF FetchOK
<1>9. UNCHANGED <<serverVars, pageVars>>
      BY DEF ReadRow
<1>10. QED
      BY <1>5, <1>7, <1>8, <1>9 DEF r, left

LEMMA ReadOutboxFacts ==
    ASSUME TypeInv, NEW f \in Fetches, ReadOutbox(f)
    PROVE  LET r == [fetch[f] EXCEPT !.queued = stamped, !.todo = << >>]
           IN  /\ r \in Fetch /\ FetchOK(r) /\ r.busy
               /\ r.status = fetch[f].status /\ r.queued = stamped /\ r.todo = << >>
               /\ fetch[f].busy /\ fetch[f].todo = <<"outbox">>
               /\ fetch' = [fetch EXCEPT ![f] = r]
               /\ UNCHANGED <<serverVars, pageVars>>
<1> DEFINE r == [fetch[f] EXCEPT !.queued = stamped, !.todo = << >>]
<1>1. fetch[f] \in Fetch /\ FetchOK(fetch[f]) /\ stamped \in BOOLEAN
      BY DEF TypeInv, TypeOK
<1>2. fetch[f].todo \in Todo /\ Head(fetch[f].todo) = "outbox" /\ fetch[f].todo # << >>
      BY <1>1 DEF ReadOutbox, Fetch
<1>3. fetch[f].todo = <<"outbox">> /\ Tail(fetch[f].todo) = << >>
      BY <1>2, Lists DEF Todo
<1>4. fetch[f].busy
      BY <1>1, <1>3, Lists DEF FetchOK, NoFetch
<1>5. fetch' = [fetch EXCEPT ![f] = r]
      BY <1>3 DEF ReadOutbox
<1>6. r \in Fetch /\ r.busy /\ r.status = fetch[f].status /\ r.queued = stamped
      /\ r.todo = << >>
      BY <1>1, <1>4 DEF Fetch, Todo
<1> HIDE DEF r
<1>7. FetchOK(r)
      BY <1>1, <1>3, <1>4, <1>6, Lists DEF FetchOK
<1>8. UNCHANGED <<serverVars, pageVars>>
      BY DEF ReadOutbox
<1>9. QED
      BY <1>3, <1>4, <1>5, <1>6, <1>7, <1>8 DEF r

(* A load ends, with an answer or without.                                 *)
LEMMA EndFacts ==
    ASSUME TypeInv, NEW f \in Fetches, fetch' = [fetch EXCEPT ![f] = NoFetch]
    PROVE  /\ fetch' \in [Fetches -> Fetch]
           /\ \A g \in Fetches : FetchOK(fetch'[g])
           /\ fetch'[f] = NoFetch
           /\ \A g \in Fetches : g # f => fetch'[g] = fetch[g]
    BY FreshFetches, FetchMoves

(* The types of the requests follow from FetchOK.                          *)
FetchesOK == fetch \in [Fetches -> Fetch] /\ \A f \in Fetches : FetchOK(fetch[f])

LEMMA OnlyFetches ==
    ASSUME TypeInv, FetchesOK', UNCHANGED <<serverVars, pageVars>>
    PROVE  TypeInv'
<1>1. \A g \in Fetches : fetch'[g].todo \in Todo /\ FetchOK(fetch'[g])
      BY DEF FetchesOK, Fetch
<1>2. TypeOK'
      BY <1>1 DEF TypeInv, TypeOK, FetchOK, Todo, serverVars, pageVars
<1>3. QED
      BY <1>2 DEF TypeInv, FetchesOK

LEMMA ArriveKeeps ==
    ASSUME TypeInv, NEW f \in Fetches, Arrive(f)
    PROVE  TypeInv'
<1>1. /\ fetch' \in [Fetches -> Fetch] /\ \A g \in Fetches : FetchOK(fetch'[g])
      /\ UNCHANGED serverVars
      BY EndFacts DEF Arrive
<1>2. \A g \in Fetches : fetch'[g].todo \in Todo
      BY <1>1 DEF Fetch
<1>3. fetch[f] \in Fetch /\ fetch[f].busy /\ fetch[f].todo = << >>
      BY DEF TypeInv, Arrive
<1>4. fetch[f].status \in {"PENDING", "LIVE", "FAILED", "DELETED"}
      BY <1>3 DEF TypeInv, FetchOK, Fetch
<1>5. /\ page' \in Shown /\ error' \in BOOLEAN /\ paced' \in {"unset", "yes", "no"}
      /\ (paced' = "unset") = (page' = Blank)
      /\ revealed' \in 0 .. Cardinality(Stages)
  <2>1. CASE UNCHANGED <<page, paced, revealed>> /\ error' = TRUE
        BY <2>1 DEF TypeInv, TypeOK
  <2>2. CASE fetch[f].status # "DELETED"
    <3> DEFINE steps == BuildProgress(fetch[f].status, fetch[f].queued)
               shown == [status |-> fetch[f].status, steps |-> steps]
    <3>1. page' = shown /\ Pace(shown) /\ error' = error
          BY <2>2 DEF Arrive
    <3>2. steps \in Progress
          BY <1>3, ProgressIsOne DEF Fetch
    <3> HIDE DEF steps
    <3>3. shown \in Shown /\ shown # Blank
          BY <1>4, <2>2, <3>2 DEF Shown, Blank
    <3> HIDE DEF shown
    <3>4. paced' \in {"yes", "no"}
          BY <3>1 DEF Pace, TypeInv, TypeOK
    <3>5. revealed' \in 0 .. Cardinality(Stages)
          BY <3>1, StageCount DEF Pace, TypeInv, TypeOK
    <3>6. QED
          BY <3>1, <3>3, <3>4, <3>5 DEF TypeInv, TypeOK
  <2>3. QED
        BY <2>1, <2>2 DEF Arrive
<1>6. TypeOK'
      BY <1>1, <1>2, <1>5 DEF TypeInv, TypeOK, FetchOK, Todo, serverVars
<1>7. QED
      BY <1>1, <1>6 DEF TypeInv

LEMMA NextKeepsTypeInv == TypeInv /\ [Next]_viewVars => TypeInv'
<1> SUFFICES ASSUME TypeInv, [Next]_viewVars
             PROVE  TypeInv'
    OBVIOUS
<1>1. CASE Stamp \/ Handle \/ Settle \/ Remove
  <2>1. UNCHANGED <<fetch, pageVars>>
        BY <1>1 DEF Stamp, Handle, Settle, Remove
  <2>2. /\ status' \in {"PENDING", "LIVE", "FAILED", "DELETED"}
        /\ stamped' \in BOOLEAN /\ deleted' \in BOOLEAN /\ handling' \in BOOLEAN
        BY <1>1 DEF Stamp, Handle, Settle, Remove, TypeInv, TypeOK
  <2>3. QED
        BY <2>1, <2>2 DEF TypeInv, TypeOK, pageVars
<1>2. ASSUME NEW f \in Fetches, ReadRow(f) PROVE TypeInv'
  <2>1. FetchesOK'
        BY <1>2, ReadRowFacts, FetchMoves DEF FetchesOK
  <2>2. QED
        BY <1>2, <2>1, OnlyFetches DEF ReadRow
<1>3. ASSUME NEW f \in Fetches, ReadOutbox(f) PROVE TypeInv'
  <2>1. FetchesOK'
        BY <1>3, ReadOutboxFacts, FetchMoves DEF FetchesOK
  <2>2. QED
        BY <1>3, <2>1, OnlyFetches DEF ReadOutbox
<1>4. ASSUME NEW f \in Fetches, PollFires(f) PROVE TypeInv'
  <2>1. FetchesOK'
        BY <1>4, FreshFetches, FetchMoves DEF FetchesOK, PollFires
  <2>2. QED
        BY <1>4, <2>1, OnlyFetches DEF PollFires
<1>5. ASSUME NEW f \in Fetches, LoadFails(f) PROVE TypeInv'
  <2>1. /\ fetch' \in [Fetches -> Fetch] /\ \A g \in Fetches : FetchOK(fetch'[g])
        BY <1>5, EndFacts DEF LoadFails
  <2>2. \A g \in Fetches : fetch'[g].todo \in Todo
        BY <2>1 DEF Fetch
  <2>3. UNCHANGED <<serverVars, page, paced, revealed>> /\ error' = TRUE
        BY <1>5 DEF LoadFails
  <2>4. TypeOK'
        BY <2>1, <2>2, <2>3 DEF TypeInv, TypeOK, FetchOK, Todo, serverVars
  <2>5. QED
        BY <2>1, <2>4 DEF TypeInv
<1>6. CASE RevealFires
  <2>1. revealed' \in 0 .. Cardinality(Stages)
        BY <1>6, StageCount DEF RevealFires, RevealTarget, TypeInv, TypeOK
  <2>2. UNCHANGED <<serverVars, fetch, page, error, paced>>
        BY <1>6 DEF RevealFires
  <2>3. QED
        BY <2>1, <2>2 DEF TypeInv, TypeOK, serverVars
<1>7. CASE UNCHANGED viewVars
      BY <1>7 DEF viewVars, serverVars, pageVars, TypeInv, TypeOK
<1>8. QED
      BY <1>1, <1>2, <1>3, <1>4, <1>5, <1>6, <1>7, ArriveKeeps DEF Next

(* A load has read the row before the outbox, and it reads the outbox only *)
(* of a document whose row did not say DELETED (fetch).                    *)
THEOREM TypeInvariant == Spec => []TypeInv
    BY InitTypeInv, NextKeepsTypeInv, PTL DEF Spec

(* The page paces nothing before it has an answer, and never reveals more  *)
(* than three stages (useRevealedProgress).                                *)
THEOREM Typing == Spec => []TypeOK
    BY TypeInvariant, PTL DEF TypeInv

-----------------------------------------------------------------------------
(* Failures.                                                               *)

(* A document that is no longer PENDING, or about to be marked, was taken  *)
(* from the topic, so its entry was stamped: until a deletion adds one.    *)
MarkedAfterStamp ==
    ~deleted /\ (handling \/ status # "PENDING") => stamped

(* A load that has seen the failure finds, or has found, the entry queued. *)
SeenAfterStamp ==
    \A f \in Fetches :
        ~deleted /\ fetch[f].status = "FAILED" =>
            /\ fetch[f].todo = <<"outbox">> => stamped
            /\ fetch[f].todo = << >> => fetch[f].queued

FailureInv == MarkedAfterStamp /\ SeenAfterStamp /\ FailureAtItsStage

LEMMA FailedSteps ==
    BuildProgress("FAILED", TRUE)
        = [s \in Stages |-> IF s = 3 THEN "failed" ELSE "done"]
<1> DEFINE steps == Doneness(TRUE, FALSE)
<1>1. steps = [s \in Stages |-> IF s = 3 THEN "active" ELSE "done"]
      BY DEF Doneness, Stages
<1> HIDE DEF steps
<1>2. WithFailure(steps) = [s \in Stages |-> IF s = 3 THEN "failed" ELSE "done"]
      BY <1>1 DEF WithFailure, Stages
<1>3. BuildProgress("FAILED", TRUE) = WithFailure(steps)
      BY DEF BuildProgress, steps
<1>4. QED
      BY <1>2, <1>3

LEMMA InitFailureInv == Init => FailureInv
    BY FreshFetches
    DEF Init, FailureInv, MarkedAfterStamp, SeenAfterStamp, FailureAtItsStage, Blank

LEMMA NextKeepsFailureInv ==
    TypeInv /\ FailureInv /\ [Next]_viewVars => FailureInv'
<1> SUFFICES ASSUME TypeInv, FailureInv, [Next]_viewVars
             PROVE  FailureInv'
    OBVIOUS
<1>1. CASE Stamp \/ Handle \/ Settle \/ Remove
  <2>1. fetch' = fetch /\ page' = page
        BY <1>1 DEF Stamp, Handle, Settle, Remove, pageVars
  <2>2. CASE Stamp
        BY <2>1, <2>2 DEF Stamp, FailureInv, MarkedAfterStamp, SeenAfterStamp,
                          FailureAtItsStage
  <2>3. CASE Handle
        BY <2>1, <2>3 DEF Handle, FailureInv, MarkedAfterStamp, SeenAfterStamp,
                          FailureAtItsStage
  <2>4. CASE Settle
        BY <2>1, <2>4 DEF Settle, FailureInv, MarkedAfterStamp, SeenAfterStamp,
                          FailureAtItsStage
  <2>5. CASE Remove
        BY <2>1, <2>5 DEF Remove, FailureInv, MarkedAfterStamp, SeenAfterStamp,
                          FailureAtItsStage
  <2>6. QED
        BY <1>1, <2>2, <2>3, <2>4, <2>5
<1>2. ASSUME NEW f \in Fetches, UNCHANGED serverVars, UNCHANGED page,
             \A g \in Fetches : g # f => fetch'[g] = fetch[g],
             ~deleted /\ fetch'[f].status = "FAILED" =>
                 /\ fetch'[f].todo = <<"outbox">> => stamped
                 /\ fetch'[f].todo = << >> => fetch'[f].queued
      PROVE  FailureInv'
      BY <1>2 DEF serverVars, FailureInv, MarkedAfterStamp, SeenAfterStamp,
                  FailureAtItsStage
<1>3. ASSUME NEW f \in Fetches, ReadRow(f) PROVE FailureInv'
  <2> DEFINE r == [fetch[f] EXCEPT !.status = status,
                     !.todo = IF status = "DELETED" THEN << >> ELSE <<"outbox">>]
  <2>1. /\ r \in Fetch /\ FetchOK(r) /\ r.status = status
        /\ r.todo = IF status = "DELETED" THEN << >> ELSE <<"outbox">>
        /\ fetch' = [fetch EXCEPT ![f] = r]
        /\ UNCHANGED <<serverVars, pageVars>>
        BY <1>3, ReadRowFacts
  <2> HIDE DEF r
  <2>2. fetch'[f] = r /\ \A g \in Fetches : g # f => fetch'[g] = fetch[g]
        BY <2>1, FetchMoves
  <2>3. r.status = "FAILED" => r.todo # << >> /\ (~deleted => stamped)
        BY <2>1, Lists DEF FailureInv, MarkedAfterStamp
  <2>4. QED
        BY <1>2, <2>1, <2>2, <2>3 DEF pageVars
<1>4. ASSUME NEW f \in Fetches, ReadOutbox(f) PROVE FailureInv'
  <2> DEFINE r == [fetch[f] EXCEPT !.queued = stamped, !.todo = << >>]
  <2>1. /\ r \in Fetch /\ FetchOK(r)
        /\ r.status = fetch[f].status /\ r.queued = stamped /\ r.todo = << >>
        /\ fetch[f].todo = <<"outbox">>
        /\ fetch' = [fetch EXCEPT ![f] = r]
        /\ UNCHANGED <<serverVars, pageVars>>
        BY <1>4, ReadOutboxFacts
  <2> HIDE DEF r
  <2>2. fetch'[f] = r /\ \A g \in Fetches : g # f => fetch'[g] = fetch[g]
        BY <2>1, FetchMoves
  <2>3. r.status = "FAILED" /\ ~deleted => r.queued
        BY <2>1 DEF FailureInv, SeenAfterStamp
  <2>4. QED
        BY <1>2, <2>1, <2>2, <2>3, Lists DEF pageVars
<1>5. ASSUME NEW f \in Fetches, PollFires(f) PROVE FailureInv'
  <2>1. fetch'[f] = Sent /\ \A g \in Fetches : g # f => fetch'[g] = fetch[g]
        BY <1>5, FreshFetches, FetchMoves DEF PollFires
  <2>2. QED
        BY <1>2, <1>5, <2>1, FreshFetches DEF PollFires, pageVars
<1>6. ASSUME NEW f \in Fetches, LoadFails(f) PROVE FailureInv'
  <2>1. fetch'[f] = NoFetch /\ \A g \in Fetches : g # f => fetch'[g] = fetch[g]
        BY <1>6, EndFacts DEF LoadFails
  <2>2. QED
        BY <1>2, <1>6, <2>1, FreshFetches DEF LoadFails
<1>7. ASSUME NEW f \in Fetches, Arrive(f) PROVE FailureInv'
  <2>1. fetch'[f] = NoFetch /\ \A g \in Fetches : g # f => fetch'[g] = fetch[g]
        BY <1>7, EndFacts DEF Arrive
  <2>2. UNCHANGED serverVars /\ fetch[f].todo = << >> /\ fetch[f] \in Fetch
        BY <1>7 DEF Arrive, TypeInv
  <2>3. MarkedAfterStamp' /\ SeenAfterStamp'
        BY <2>1, <2>2, FreshFetches
        DEF serverVars, FailureInv, MarkedAfterStamp, SeenAfterStamp
  <2>4. FailureAtItsStage'
    <3>1. CASE page' = page
          BY <2>2, <3>1 DEF serverVars, FailureInv, FailureAtItsStage
    <3>2. CASE page' = [status |-> fetch[f].status,
                        steps |-> BuildProgress(fetch[f].status, fetch[f].queued)]
      <4>1. CASE deleted \/ fetch[f].status # "FAILED"
            BY <2>2, <3>2, <4>1 DEF serverVars, FailureAtItsStage
      <4>2. CASE ~deleted /\ fetch[f].status = "FAILED"
        <5>1. fetch[f].queued = TRUE
              BY <2>2, <4>2 DEF FailureInv, SeenAfterStamp, Fetch
        <5>2. page'.steps = BuildProgress("FAILED", TRUE)
              BY <3>2, <4>2, <5>1
        <5>3. QED
              BY <5>2, FailedSteps DEF FailureAtItsStage
      <4>3. QED
            BY <4>1, <4>2
    <3>3. QED
          BY <1>7, <3>1, <3>2 DEF Arrive
  <2>5. QED
        BY <2>3, <2>4 DEF FailureInv
<1>8. CASE RevealFires \/ UNCHANGED viewVars
  <2>1. UNCHANGED <<serverVars, fetch, page>>
        BY <1>8 DEF RevealFires, viewVars, pageVars
  <2>2. QED
        BY <2>1 DEF serverVars, FailureInv, MarkedAfterStamp, SeenAfterStamp,
                    FailureAtItsStage
<1>9. QED
      BY <1>1, <1>3, <1>4, <1>5, <1>6, <1>7, <1>8 DEF Next

(* "A failure marks the stage it stopped at" (build_progress), however the *)
(* two reads of an answer interleave with relay and consumer and however   *)
(* the answers of any number of overlapping loads are ordered: a document  *)
(* nobody deleted is shown to have failed at indexing.                     *)
THEOREM FailuresAtTheirStage == Spec => []FailureAtItsStage
<1>1. Spec => []FailureInv
      BY InitFailureInv, NextKeepsFailureInv, TypeInvariant, PTL DEF Spec
<1>2. QED
      BY <1>1, PTL DEF FailureInv
=============================================================================
