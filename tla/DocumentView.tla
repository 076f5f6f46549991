---------------------------- MODULE DocumentView ----------------------------
(***************************************************************************)
(* Watching a document become searchable: the page of the browser polls,   *)
(* document_service reads the row and then the outbox, two transactions,   *)
(* and builds the progress of the three stages from what each saw; answers *)
(* of overlapping polls arrive in any order; and the page reveals the      *)
(* stages one by one.                                                      *)
(***************************************************************************)
EXTENDS Naturals, Sequences, FiniteSets

CONSTANT
    Fetches   \* bound: requests of the page under way at once

VARIABLES
    status,    \* of the document's row
    stamped,   \* published_at of its latest outbox entry is set
    deleted,   \* whether a user ever deleted it
    handling,  \* the consumer read the row as PENDING and will mark it
    fetch,     \* the page's requests
    page,      \* the document the page shows
    error,     \* the page shows an error, and nothing else, for good
    paced,     \* the stages are revealed one by one
    revealed   \* how many of them

serverVars == <<status, stamped, deleted, handling>>
pageVars == <<page, error, paced, revealed>>
viewVars == <<serverVars, fetch, pageVars>>

Stages == 1 .. 3   \* stored, queued, indexed
States == {"done", "active", "pending", "failed"}
Progress == [Stages -> States]
Nowhere == [s \in Stages |-> "pending"]
Blank == [status |-> "none", steps |-> Nowhere]
Shown == [status : {"none", "PENDING", "LIVE", "FAILED"}, steps : Progress]

(* What a request still has to read, and what it has read.                 *)
NoFetch == [busy |-> FALSE, todo |-> << >>, status |-> "none", queued |-> FALSE]

TypeOK ==
    /\ status \in {"PENDING", "LIVE", "FAILED", "DELETED"}
    /\ stamped \in BOOLEAN /\ deleted \in BOOLEAN /\ handling \in BOOLEAN
    /\ \A f \in Fetches :
          /\ fetch[f].todo \in {<< >>, <<"row">>, <<"outbox">>,
                                <<"row", "outbox">>, <<"outbox", "row">>}
          /\ ~fetch[f].busy => fetch[f] = NoFetch
          /\ fetch[f].todo = << >> /\ fetch[f].busy => fetch[f].status # "none"
    /\ page \in Shown
    /\ error \in BOOLEAN
    /\ paced \in {"unset", "yes", "no"}
    /\ (paced = "unset") = (page = Blank)
    /\ revealed \in 0 .. Cardinality(Stages)

-----------------------------------------------------------------------------
(* Plausible bugs, used only to show that a property can fail.             *)

SwappedReads == <<"outbox", "row">>
PollUntilQueued(p) == p.steps[2] # "done"
OneTooMany(p) == Cardinality({s \in Stages : p.steps[s] = "done"}) + 1
LastStageForgotten(p) == Cardinality({s \in Stages : p.steps[s] = "done"}) - 1

-----------------------------------------------------------------------------
(* The server                                                              *)

(* The relay stamps the latest outbox entry, of the upload or the deletion.*)
Stamp ==
    /\ ~stamped
    /\ stamped' = TRUE
    /\ UNCHANGED <<status, deleted, handling, fetch, pageVars>>

(* The consumer has the event, so the relay had stamped it, and loads the  *)
(* row.                                                                    *)
Handle ==
    /\ stamped /\ ~handling
    /\ status = "PENDING"
    /\ handling' = TRUE
    /\ UNCHANGED <<status, stamped, deleted, fetch, pageVars>>

(* mark_live, mark_failed: whatever the row says by now.                   *)
Settle ==
    /\ handling
    /\ handling' = FALSE
    /\ status' \in {"LIVE", "FAILED"}
    /\ UNCHANGED <<stamped, deleted, fetch, pageVars>>

(* soft_delete: a new outbox entry, not published yet.  (Once is enough.)  *)
Remove ==
    /\ ~deleted
    /\ deleted' = TRUE
    /\ status' = "DELETED"
    /\ stamped' = FALSE
    /\ UNCHANGED <<handling, fetch, pageVars>>

-----------------------------------------------------------------------------
(* build_progress                                                          *)
Doneness(queued, live) ==
    [s \in Stages |->
        CASE s = 1 -> "done"
          [] s = 2 -> IF queued \/ live THEN "done" ELSE "active"
          [] s = 3 -> IF live THEN "done" ELSE IF queued THEN "active" ELSE "pending"]

(* A failure marks the first stage that is not done, and nothing after it  *)
(* is active.                                                              *)
WithFailure(steps) ==
    [s \in Stages |->
        IF steps[s] = "done" THEN "done"
        ELSE IF \A u \in 1 .. s - 1 : steps[u] = "done" THEN "failed"
        ELSE "pending"]

BuildProgress(st, queued) ==
    LET steps == Doneness(queued, st = "LIVE")
    IN  IF st = "FAILED" THEN WithFailure(steps) ELSE steps

(* fetch: the row, then its latest outbox entry.                           *)
Reads == <<"row", "outbox">>

(* A row that is DELETED is not found, and the outbox is not asked.        *)
ReadRow(f) ==
    /\ fetch[f].todo # << >> /\ Head(fetch[f].todo) = "row"
    /\ fetch' = [fetch EXCEPT ![f].status = status,
                              ![f].todo = IF status = "DELETED" THEN << >> ELSE Tail(@)]
    /\ UNCHANGED <<serverVars, pageVars>>

ReadOutbox(f) ==
    /\ fetch[f].todo # << >> /\ Head(fetch[f].todo) = "outbox"
    /\ fetch' = [fetch EXCEPT ![f].queued = stamped, ![f].todo = Tail(@)]
    /\ UNCHANGED <<serverVars, pageVars>>

-----------------------------------------------------------------------------
(* The page                                                                *)

Sent == [NoFetch EXCEPT !.busy = TRUE, !.todo = Reads]

(* The effect that sets the interval looks at the status shown.            *)
NeedsPoll(p) == p.status = "PENDING"

(* load, once on opening (Init) and then by the interval; it does not wait *)
(* for the answer to the load before.                                      *)
PollFires(f) ==
    /\ NeedsPoll(page)
    /\ ~fetch[f].busy
    /\ fetch' = [fetch EXCEPT ![f] = Sent]
    /\ UNCHANGED <<serverVars, pageVars>>

Completed(p) == Cardinality({s \in Stages : p.steps[s] = "done"})
Failed(p) == \E s \in Stages : p.steps[s] = "failed"

(* useRevealedProgress: paced if the first payload was not settled; what   *)
(* is not paced, or has failed, is revealed at once.                       *)
Pace(p) ==
    /\ paced' = IF paced # "unset" THEN paced
                ELSE IF Completed(p) = Cardinality(Stages) \/ Failed(p)
                       THEN "no" ELSE "yes"
    /\ revealed' = IF paced' = "no" \/ Failed(p) THEN Cardinality(Stages)
                                                 ELSE revealed

(* An answer arrives: setDoc, or setError for a 404.                       *)
Arrive(f) ==
    /\ fetch[f].busy /\ fetch[f].todo = << >>
    /\ fetch' = [fetch EXCEPT ![f] = NoFetch]
    /\ LET r == fetch[f]
           shown == [status |-> r.status, steps |-> BuildProgress(r.status, r.queued)]
       IN  \/ /\ r.status = "DELETED"
              /\ error' = TRUE
              /\ UNCHANGED <<page, paced, revealed>>
           \/ /\ r.status # "DELETED"
              /\ page' = shown
              /\ Pace(shown)
              /\ UNCHANGED error
    /\ UNCHANGED serverVars

(* The request fails anywhere on its way: setError, and nothing resets it. *)
LoadFails(f) ==
    /\ fetch[f].busy
    /\ fetch' = [fetch EXCEPT ![f] = NoFetch]
    /\ error' = TRUE
    /\ UNCHANGED <<serverVars, page, paced, revealed>>

(* The stages done that a paced page goes on to reveal.                    *)
RevealTarget(p) == Completed(p)

RevealFires ==
    /\ paced = "yes" /\ ~Failed(page)
    /\ revealed < RevealTarget(page)
    /\ revealed' = revealed + 1
    /\ UNCHANGED <<serverVars, fetch, page, error, paced>>

(* What the stepper draws.                                                 *)
Displayed ==
    [s \in Stages |->
        IF paced = "no" \/ Failed(page) \/ s <= revealed THEN page.steps[s]
        ELSE IF s = revealed + 1 THEN "active" ELSE "pending"]

-----------------------------------------------------------------------------
(* The upload has committed, the page is open and its first load is sent.  *)
Init ==
    /\ status = "PENDING"
    /\ stamped = FALSE /\ deleted = FALSE /\ handling = FALSE
    /\ \E f \in Fetches : fetch = [g \in Fetches |-> IF g = f THEN Sent ELSE NoFetch]
    /\ page = Blank
    /\ error = FALSE
    /\ paced = "unset"
    /\ revealed = 0

Next ==
    \/ Stamp \/ Handle \/ Settle \/ Remove
    \/ \E f \in Fetches :
          ReadRow(f) \/ ReadOutbox(f) \/ PollFires(f) \/ Arrive(f) \/ LoadFails(f)
    \/ RevealFires

(* Requests end and the interval fires.  Every answer restarts the timer   *)
(* of the next stage, which is longer than the interval (MIN_STEP_MS,      *)
(* POLL_MS): it is sure to fire only when the polls have stopped.          *)
Fairness ==
    /\ \A f \in Fetches :
          /\ WF_viewVars(ReadRow(f) \/ ReadOutbox(f) \/ Arrive(f))
          /\ WF_viewVars(PollFires(f))
    /\ WF_viewVars(RevealFires /\ ~NeedsPoll(page))

Spec == Init /\ [][Next]_viewVars /\ Fairness

-----------------------------------------------------------------------------
(* "A failure marks the stage it stopped at" (build_progress), though row  *)
(* and outbox are read at two moments: a document nobody deleted fails at  *)
(* indexing and never at queuing.                                          *)
FailureAtItsStage ==
    ~deleted /\ page.status = "FAILED" =>
        page.steps = [s \in Stages |-> IF s = 3 THEN "failed" ELSE "done"]

(* The same sentence for every document.  A deletion between the two reads *)
(* of one load refutes it: its outbox entry is not stamped, and the        *)
(* failure is shown at queuing.                                            *)
EveryFailureAtItsStage ==
    page.status = "FAILED" =>
        page.steps = [s \in Stages |-> IF s = 3 THEN "failed" ELSE "done"]

(* Whatever the order in which the answers of overlapping polls arrive, a  *)
(* page on a document that settled comes to show it settled, and stays so, *)
(* or shows an error (DocumentPage, load).                                 *)
PageSettles ==
    status # "PENDING" ~> [](error \/ page.status \in {"LIVE", "FAILED"})

(* ...and every stage gets revealed: the stepper ends up drawing what the  *)
(* server said, without a spinner that never resolves                      *)
(* (useRevealedProgress).                                                  *)
EverythingRevealed ==
    status # "PENDING" ~> [](error \/ Displayed = page.steps)
=============================================================================
