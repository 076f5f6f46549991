------------------------------- MODULE Browser -------------------------------
(***************************************************************************)
(* One tab of the frontend: the session (token in localStorage, identity   *)
(* in React) and the two pages that load by parameters, the search and the *)
(* list of documents, which also polls while it shows a PENDING document.  *)
(* Requests carry the token of the moment they are sent; their answers     *)
(* arrive in any order, also after the page that asked is gone, the user   *)
(* has signed out, or another has signed in.                               *)
(***************************************************************************)
EXTENDS Naturals, SequencesExt

CONSTANTS
    Questions,    \* search terms, or filters with page and size; "" is one
    MaxLogins,    \* bound: logins, each of another user
    MaxRequests   \* bound: requests on their way at once

ASSUME QuestionAssumption == "" \in Questions
ASSUME BrowserBounds == MaxLogins \in Nat /\ MaxRequests \in Nat \ {0}

VARIABLES
    logins,     \* how many logins there were; a login is its number
    expired,    \* logins whose token is out of date, or of a lost key
    token,      \* the token in localStorage, by its login; 0 without one
    identity,   \* the login whose tenant and email the header shows
    page,
    question,   \* the parameters of the page
    result,     \* the answer it shows, if any
    error,      \* it shows an error
    requests,   \* those on their way, in the order they were sent
    settled     \* the pipeline has no PENDING document left

sessionVars == <<logins, expired, token, identity>>
pageVars == <<page, question, result, error>>
vars == <<sessionVars, pageVars, requests, settled>>

Logins == 0 .. MaxLogins
NoResult == [who |-> 0, q |-> "", pending |-> FALSE, late |-> FALSE]

(* `live`: the page that asked is still mounted; `late`: an answer to a    *)
(* later question of that page came first.                                 *)
Request == [who : Logins, q : Questions, live : BOOLEAN, late : BOOLEAN,
            answer : {"none", "rows", "pending", "refused", "failed"}]

TypeOK ==
    /\ logins \in Logins
    /\ expired \in SUBSET (1 .. logins)
    /\ token \in 0 .. logins /\ identity \in 0 .. logins
    /\ page \in {"login", "search", "documents"}
    /\ page = "login" <=> identity = 0
    /\ question \in Questions
    /\ result \in [who : Logins, q : Questions, pending : BOOLEAN, late : BOOLEAN]
    /\ error \in BOOLEAN /\ settled \in BOOLEAN
    /\ requests \in Seq(Request) /\ Len(requests) <= MaxRequests
    /\ page = "login" => result = NoResult /\ \A i \in DOMAIN requests : ~requests[i].live

Init ==
    /\ logins = 0 /\ expired = {} /\ token = 0 /\ identity = 0
    /\ page = "login" /\ question = "" /\ result = NoResult /\ error = FALSE
    /\ requests = << >>
    /\ settled = FALSE

-----------------------------------------------------------------------------
(* Plausible bugs, used only to show that a property can fail.             *)

AnyErrorClears(answer) == answer \in {"refused", "failed"}
StaleClosure == result.q
PollUnfiltered == result.pending /\ question = ""
StillMounted(r) == r

-----------------------------------------------------------------------------
(* request: the token is read when the request is sent.                    *)
Ask(rest, t, q) ==
    requests' = Append(rest, [who |-> t, q |-> q, live |-> TRUE,
                              late |-> FALSE, answer |-> "none"])

(* What is on its way for a page that is unmounted.                        *)
Unmounted(r) == [r EXCEPT !.live = FALSE]

Orphans == [i \in DOMAIN requests |-> Unmounted(requests[i])]

(* run(term): a blank term shows nothing and asks nothing.                 *)
Asks(p, q) == p = "documents" \/ q # ""

Open(p, q, rest) ==
    /\ page' = p
    /\ question' = q
    /\ result' = NoResult
    /\ error' = FALSE
    /\ IF Asks(p, q) THEN Len(rest) < MaxRequests /\ Ask(rest, token', q)
                     ELSE requests' = rest

ShowLogin(rest) ==
    /\ page' = "login" /\ question' = "" /\ result' = NoResult /\ error' = FALSE
    /\ requests' = rest

(* The URL says which page opens, and for the search with which term.      *)
OpenAny(rest) ==
    \/ \E q \in Questions : Open("search", q, rest)
    \/ Open("documents", "", rest)

Login ==
    /\ page = "login"
    /\ logins < MaxLogins
    /\ logins' = logins + 1
    /\ token' = logins'
    /\ identity' = logins'
    /\ OpenAny(requests)
    /\ UNCHANGED <<expired, settled>>

Logout ==
    /\ identity # 0
    /\ token' = 0
    /\ identity' = 0
    /\ ShowLogin(Orphans)
    /\ UNCHANGED <<logins, expired, settled>>

(* A reload forgets React's state and reads the identity back, unless the  *)
(* token is gone or out of date.  That the gateway's key was lost is       *)
(* something a browser does not know.                                      *)
Reload ==
    /\ identity # 0
    /\ UNCHANGED token
    /\ identity' \in IF token \in expired THEN {0, token} ELSE {token}
    /\ IF identity' = 0 THEN ShowLogin(<< >>) ELSE OpenAny(<< >>)
    /\ UNCHANGED <<logins, expired, settled>>

Navigate ==
    /\ identity # 0
    /\ UNCHANGED token
    /\ OpenAny(Orphans)
    /\ page' # page
    /\ UNCHANGED <<logins, expired, identity, settled>>

(* SearchPage: the form, a link, or the back button.                       *)
ChangeTerm ==
    /\ page = "search"
    /\ \E q \in Questions :
          /\ question' = q
          /\ IF Asks(page, q)
               THEN /\ Len(requests) < MaxRequests
                    /\ Ask(requests, token, q)
                    /\ error' = FALSE
                    /\ UNCHANGED result
               ELSE /\ result' = NoResult
                    /\ requests' = [i \in DOMAIN requests |->
                                      [requests[i] EXCEPT !.late = @ \/ requests[i].live]]
                    /\ UNCHANGED error
    /\ UNCHANGED <<sessionVars, page, settled>>

(* DocumentsPage: filter, page and size; an error hides the controls.      *)
ChangeFilter ==
    /\ page = "documents" /\ ~error /\ result # NoResult
    /\ Len(requests) < MaxRequests
    /\ \E q \in Questions \ {question} : question' = q /\ Ask(requests, token, q)
    /\ UNCHANGED <<sessionVars, page, result, error, settled>>

(* The interval runs while what is shown is PENDING, with the parameters   *)
(* of now: `load` is a dependency of the effect.                           *)
NeedsPoll == result.pending
PollQuestion == question

PollFires ==
    /\ page = "documents" /\ NeedsPoll
    /\ Len(requests) < MaxRequests
    /\ Ask(requests, token, PollQuestion)
    /\ UNCHANGED <<sessionVars, pageVars, settled>>

-----------------------------------------------------------------------------
(* Gateway and API refuse no token and an expired one with a 401; any      *)
(* request may fail otherwise.                                             *)
Serve(i) ==
    /\ i \in DOMAIN requests
    /\ requests[i].answer = "none"
    /\ \E a \in {"refused", "rows", "pending", "failed"} :
          /\ a = "refused" => requests[i].who \in expired \cup {0}
          /\ a \in {"rows", "pending"} => requests[i].who \notin expired \cup {0}
          /\ a = "pending" => ~settled
          /\ requests' = [requests EXCEPT ![i].answer = a]
    /\ UNCHANGED <<sessionVars, pageVars, settled>>

(* `if (res.status === 401) tokenStore.clear()`: the token of now.         *)
ClearsToken(answer) == answer = "refused"

Overtaken(i) ==
    [j \in DOMAIN requests |->
        [requests[j] EXCEPT !.late = @ \/ (j < i /\ requests[i].live /\ requests[j].live)]]

Show(r) ==
    \/ /\ r.answer \in {"rows", "pending"}
       /\ result' = [who |-> r.who, q |-> r.q, late |-> r.late,
                     pending |-> r.answer = "pending" /\ page = "documents"]
       /\ UNCHANGED error
    \/ /\ r.answer \in {"refused", "failed"}
       /\ error' = TRUE
       /\ result' = IF page = "search" THEN NoResult ELSE result

Arrive(i) ==
    /\ i \in DOMAIN requests
    /\ requests[i].answer # "none"
    /\ token' = IF ClearsToken(requests[i].answer) THEN 0 ELSE token
    /\ requests' = RemoveAt(Overtaken(i), i)
    /\ IF requests[i].live THEN Show(requests[i]) ELSE UNCHANGED <<result, error>>
    /\ UNCHANGED <<logins, expired, identity, page, question, settled>>

(* Time is up for a token (JWT_TTL_SECONDS), or the gateway restarted with *)
(* new keys.                                                               *)
Expire ==
    /\ \E n \in 1 .. logins : n \notin expired /\ expired' = expired \cup {n}
    /\ UNCHANGED <<logins, token, identity, pageVars, requests, settled>>

(* The pipeline (EveryPendingSettles).                                     *)
Settle ==
    /\ ~settled
    /\ settled' = TRUE
    /\ UNCHANGED <<sessionVars, pageVars, requests>>

Next ==
    \/ Login \/ Logout \/ Reload \/ Navigate
    \/ ChangeTerm \/ ChangeFilter \/ PollFires
    \/ \E i \in 1 .. MaxRequests : Serve(i) \/ Arrive(i)
    \/ Expire \/ Settle

(* Requests are answered, in whichever order; timers fire; documents       *)
(* settle.                                                                 *)
Fairness ==
    /\ \A i \in 1 .. MaxRequests : WF_vars(Serve(i))
    /\ WF_vars(Arrive(1))
    /\ WF_vars(PollFires)
    /\ WF_vars(Settle)

Spec == Init /\ [][Next]_vars /\ Fairness

-----------------------------------------------------------------------------
(* What a page shows was asked with the token of the user it names, and    *)
(* once nothing is on its way it answers the parameters the page has now,  *)
(* unless a later answer was overtaken by an earlier one (load, run, the   *)
(* interval and its dependencies).                                         *)
ShownIsTheAnswer ==
    result # NoResult =>
        /\ result.who = identity
        /\ result.q = question \/ result.late \/ error
             \/ \E i \in DOMAIN requests : requests[i].live

(* "keeps the url shareable" (SearchPage): what a user sees under a url is *)
(* what the url asks, once nothing is on its way.  An answer that arrives  *)
(* after that of a later question refutes it.                              *)
ShownIsTheUrls ==
    result # NoResult =>
        \/ result.q = question \/ error
        \/ \E i \in DOMAIN requests : requests[i].live

(* "The tenant shown here is decoded from it" (AuthContext), from the      *)
(* token: while the token of the user whom the header shows is good, the   *)
(* browser has it.  A 401 to the token of an earlier user refutes it.      *)
ShownTenantHasItsToken ==
    identity \notin expired \cup {0} => token = identity

(* "The token is the only credential" (AuthContext): nobody who is signed  *)
(* in loses it, to whatever answer, before a token has expired.            *)
SignedInUntilExpiry ==
    identity # 0 /\ expired = {} => token = identity

(* "anything still in flight will change state shortly, so keep it fresh"  *)
(* (DocumentsPage): a list never stays on PENDING, unless an error hides   *)
(* it or the user leaves.                                                  *)
ListSettles ==
    page = "documents" /\ result.pending ~>
        page # "documents" \/ error \/ ~result.pending
=============================================================================
