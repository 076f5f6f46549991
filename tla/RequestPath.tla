---------------------------- MODULE RequestPath ----------------------------
(***************************************************************************)
(* What happens to a request between the user and the service that does    *)
(* its work: the gateway authenticates it, counts it and proxies it; the   *)
(* API verifies the token again, with keys it fetches from the same        *)
(* gateway, looks at the tenant again and does the work.  The gateway      *)
(* holds a thread for every request it proxies, needs another one to serve *)
(* its keys, and gives up on an answer that takes too long, while the API  *)
(* goes on.  Every action is one call of a request.                        *)
(***************************************************************************)
EXTENDS Naturals, FiniteSets

CONSTANTS
    Tenants,
    Requests,         \* each sent at most once, with a token of its user
    TenantOf,
    ApiProcesses,     \* gunicorn workers of the API, each with its key cache
    GatewayThreads,   \* requests the gateway works on at once
    Limit,            \* rate_limit_rpm
    MaxEvents         \* bound: restarts of the gateway or of an API process,
                      \* turns of the minute, expiries, suspensions and
                      \* reactivations

ASSUME RequestAssumption == TenantOf \in [Requests -> Tenants]
ASSUME ThreadsAssumption == GatewayThreads \in Nat \ {0} /\ ApiProcesses # {}
ASSUME PathBoundAssumption == Limit \in Nat /\ MaxEvents \in Nat

VARIABLES
    gwKey,       \* generation of the gateway's keypair; lives in its memory
    known,       \* key generations each API process has cached
    status,      \* of each tenant, in Postgres
    count,       \* Redis: requests of each tenant this minute
    token,       \* the generation that signed the request's token, 0: none
    expired,     \* requests whose token is out of date
    gate,        \* where the gateway stands with each request
    api,         \* where the API stands with it
    host,        \* the API process that has it
    answer,      \* what the API answered
    reply,       \* what the user got
    stored,      \* requests whose work is committed
    thisMinute,  \* history: requests counted this minute
    mayRun,      \* history: requests whose tenant was active since the API has them
    events       \* what has happened of MaxEvents

tokenVars == <<token, expired>>
gateVars == <<tokenVars, gate, reply>>
apiVars == <<known, api, host, answer, stored>>
limitVars == <<count, thisMinute>>
tenantVars == <<status, mayRun>>
worldVars == <<gwKey, events>>
pathVars == <<gateVars, apiVars, limitVars, tenantVars, worldVars>>

Refusals == {"401", "403", "429", "refused"}
Answers == {"none", "202", "500", "401", "403", "refused", "keyless", "lost"}
Replies == Refusals \cup Answers \cup {"503"}

TypeOK ==
    /\ gwKey \in Nat \ {0}
    /\ known \in [ApiProcesses -> SUBSET (1 .. gwKey)]
    /\ status \in [Tenants -> {"ACTIVE", "SUSPENDED"}]
    /\ count \in [Tenants -> Nat]
    /\ token \in [Requests -> 0 .. gwKey]
    /\ expired \in SUBSET {r \in Requests : token[r] # 0}
    /\ gate \in [Requests -> {"unsent", "queued", "limit", "waiting", "done"}]
    /\ api \in [Requests -> {"none", "verify", "fetch", "tenant", "execute", "done"}]
    /\ host \in [Requests -> ApiProcesses]
    /\ answer \in [Requests -> Answers]
    /\ reply \in [Requests -> Replies]
    /\ stored \in SUBSET Requests
    /\ thisMinute \in SUBSET Requests
    /\ mayRun \in SUBSET Requests
    /\ events \in Nat
    /\ \A r \in Requests : /\ gate[r] = "done" <=> reply[r] # "none"
                           /\ api[r] = "done" <=> answer[r] # "none"
                           /\ gate[r] # "waiting" /\ api[r] # "none" => gate[r] = "done"

Init ==
    /\ gwKey = 1
    /\ known = [p \in ApiProcesses |-> {}]
    /\ status \in [Tenants -> {"ACTIVE", "SUSPENDED"}]
    /\ count = [t \in Tenants |-> 0]
    /\ token = [r \in Requests |-> 0]
    /\ expired = {}
    /\ gate = [r \in Requests |-> "unsent"]
    /\ api = [r \in Requests |-> "none"]
    /\ host = [r \in Requests |-> CHOOSE p \in ApiProcesses : TRUE]
    /\ answer = [r \in Requests |-> "none"]
    /\ reply = [r \in Requests |-> "none"]
    /\ stored = {}
    /\ thisMinute = {}
    /\ mayRun = {}
    /\ events = 0

-----------------------------------------------------------------------------
(* Plausible bugs, used only to show that a property can fail.             *)

OneKeyForAll(t) == CHOOSE u \in Tenants : TRUE
FetchOnlyOnce(p) == known[p] = {}
NeverGivesUp(r) == FALSE
AcceptedBeforeCommit == "202"
TrustsTheGateway(r) ==
    /\ api[r] = "tenant"
    /\ api' = [api EXCEPT ![r] = "execute"]
    /\ UNCHANGED <<gateVars, known, host, answer, stored, limitVars, tenantVars,
                   worldVars>>
ThreadKept(r, what) == reply' = [reply EXCEPT ![r] = what] /\ UNCHANGED gate

-----------------------------------------------------------------------------
Busy == {r \in Requests : gate[r] \in {"limit", "waiting"}}
ThreadFree == Cardinality(Busy) < GatewayThreads

(* "a token proves identity, not current state": the row is read on every  *)
(* request, by the gateway and by the API.                                 *)
TenantMayAct(t) == status[t] = "ACTIVE"

ReplyWith(r, what) ==
    /\ reply' = [reply EXCEPT ![r] = what]
    /\ gate' = [gate EXCEPT ![r] = "done"]

AnswerWith(r, what) ==
    /\ answer' = [answer EXCEPT ![r] = what]
    /\ api' = [api EXCEPT ![r] = "done"]

-----------------------------------------------------------------------------
(* The gateway                                                             *)

(* auth.login: a token of the tenant's user, signed with the current key.  *)
Login(r) ==
    /\ gate[r] = "unsent"
    /\ ThreadFree
    /\ TenantMayAct(TenantOf[r])
    /\ token' = [token EXCEPT ![r] = gwKey]
    /\ expired' = expired \ {r}
    /\ UNCHANGED <<gate, reply, apiVars, limitVars, tenantVars, worldVars>>

Send(r) ==
    /\ gate[r] = "unsent"
    /\ token[r] # 0
    /\ gate' = [gate EXCEPT ![r] = "queued"]
    /\ UNCHANGED <<tokenVars, reply, apiVars, limitVars, tenantVars, worldVars>>

(* jwt.decode, with the gateway's own key.                                 *)
SignedAndValid(r) == token[r] = gwKey /\ r \notin expired

(* _before, on a thread of the pool: the gateway's own key, then the       *)
(* tenant's row.                                                           *)
Authenticate(r) ==
    /\ gate[r] = "queued"
    /\ ThreadFree
    /\ \/ ~SignedAndValid(r) /\ ReplyWith(r, "401")
       \/ SignedAndValid(r) /\ ~TenantMayAct(TenantOf[r]) /\ ReplyWith(r, "403")
       \/ /\ SignedAndValid(r) /\ TenantMayAct(TenantOf[r])
          /\ gate' = [gate EXCEPT ![r] = "limit"]
          /\ UNCHANGED reply
    /\ UNCHANGED <<tokenVars, apiVars, limitVars, tenantVars, worldVars>>

(* rl:{tenant}:{minute}.                                                   *)
CountedAs(t) == t

(* INCR and EXPIRE, one transaction of Redis.                              *)
Counted(r) ==
    /\ count' = [count EXCEPT ![CountedAs(TenantOf[r])] = @ + 1]
    /\ thisMinute' = thisMinute \cup {r}

(* rate_limit.check; then forward, to whichever process of the API takes   *)
(* the connection.                                                         *)
CheckLimit(r) ==
    LET t == CountedAs(TenantOf[r])
    IN  /\ gate[r] = "limit"
        /\ Counted(r)
        /\ \/ /\ count[t] + 1 > Limit
              /\ ReplyWith(r, "429")
              /\ UNCHANGED <<api, host, mayRun>>
           \/ /\ count[t] + 1 <= Limit
              /\ gate' = [gate EXCEPT ![r] = "waiting"]
              /\ api' = [api EXCEPT ![r] = "verify"]
              /\ \E p \in ApiProcesses : host' = [host EXCEPT ![r] = p]
              /\ mayRun' = IF status[TenantOf[r]] = "ACTIVE" THEN mayRun \cup {r}
                                                           ELSE mayRun
              /\ UNCHANGED reply
        /\ UNCHANGED <<tokenVars, known, answer, stored, status, worldVars>>

(* Postgres or Redis fails the gateway; the INCR may have taken effect.    *)
GatewayRaises(r) ==
    /\ \/ gate[r] = "queued" /\ ThreadFree /\ UNCHANGED limitVars
       \/ gate[r] = "limit" /\ (UNCHANGED limitVars \/ Counted(r))
    /\ ReplyWith(r, "500")
    /\ UNCHANGED <<tokenVars, apiVars, tenantVars, worldVars>>

(* forward: the API's answer, passed through; a connection that broke is   *)
(* "upstream unreachable".                                                 *)
PassThrough(r) ==
    /\ gate[r] = "waiting"
    /\ api[r] = "done"
    /\ ReplyWith(r, IF answer[r] = "lost" THEN "503" ELSE answer[r])
    /\ UNCHANGED <<tokenVars, apiVars, limitVars, tenantVars, worldVars>>

(* TIMEOUT of the proxied call; the API knows nothing of it.               *)
MayGiveUp(r) == api[r] # "done"

TimeOut(r) ==
    /\ gate[r] = "waiting"
    /\ MayGiveUp(r)
    /\ ReplyWith(r, "503")
    /\ UNCHANGED <<tokenVars, apiVars, limitVars, tenantVars, worldVars>>

-----------------------------------------------------------------------------
(* The API                                                                 *)

(* PyJWKClient fetches the key set again when it does not know a kid.      *)
FetchesUnknown(p) == TRUE

(* jwt.decode, once more.                                                  *)
Decode(r) ==
    IF r \in expired
      THEN AnswerWith(r, "401")
      ELSE api' = [api EXCEPT ![r] = "tenant"] /\ UNCHANGED answer

(* auth.verify, with the keys this process has cached.                     *)
Verify(r) ==
    /\ api[r] = "verify"
    /\ \/ /\ token[r] \in known[host[r]]
          /\ Decode(r)
       \/ /\ token[r] \notin known[host[r]]
          /\ IF FetchesUnknown(host[r])
               THEN api' = [api EXCEPT ![r] = "fetch"] /\ UNCHANGED answer
               ELSE AnswerWith(r, "refused")
    /\ UNCHANGED <<gateVars, known, host, stored, limitVars, tenantVars, worldVars>>

(* The gateway publishes its current key, if it has a thread to do so.  A  *)
(* token of another key is refused; nobody translates that refusal of      *)
(* PyJWKClient, so that the user sees a 500.                               *)
FetchKeys(r) ==
    /\ api[r] = "fetch"
    /\ ThreadFree
    /\ known' = [known EXCEPT ![host[r]] = @ \cup {gwKey}]
    /\ IF token[r] = gwKey
         THEN Decode(r)
         ELSE AnswerWith(r, "refused")
    /\ UNCHANGED <<gateVars, host, stored, limitVars, tenantVars, worldVars>>

(* The key endpoint does not answer in time, or not at all.                *)
FetchFails(r) ==
    /\ api[r] = "fetch"
    /\ AnswerWith(r, "keyless")
    /\ UNCHANGED <<gateVars, known, host, stored, limitVars, tenantVars, worldVars>>

(* middleware._before: the tenant's row, once more.                        *)
LookUpTenant(r) ==
    /\ api[r] = "tenant"
    /\ IF TenantMayAct(TenantOf[r])
         THEN api' = [api EXCEPT ![r] = "execute"] /\ UNCHANGED answer
         ELSE AnswerWith(r, "403")
    /\ UNCHANGED <<gateVars, known, host, stored, limitVars, tenantVars, worldVars>>

(* The handler commits its transaction, and then answers.                  *)
Execute(r) ==
    /\ api[r] = "execute"
    /\ stored' = stored \cup {r}
    /\ AnswerWith(r, "202")
    /\ UNCHANGED <<gateVars, known, host, limitVars, tenantVars, worldVars>>

(* The transaction rolls back.                                             *)
CommitFailure == "500"

ApiRaises(r) ==
    /\ api[r] \in {"tenant", "execute"}
    /\ AnswerWith(r, CommitFailure)
    /\ UNCHANGED <<gateVars, known, host, stored, limitVars, tenantVars, worldVars>>

-----------------------------------------------------------------------------
(* The world                                                               *)

Event == events < MaxEvents /\ events' = events + 1

(* An operator sets the tenant's row; no code does.                        *)
ChangeStatus(t) ==
    /\ Event
    /\ \/ /\ status[t] = "ACTIVE"
          /\ status' = [status EXCEPT ![t] = "SUSPENDED"]
          /\ UNCHANGED mayRun
       \/ /\ status[t] = "SUSPENDED"
          /\ status' = [status EXCEPT ![t] = "ACTIVE"]
          /\ mayRun' = mayRun \cup
                {r \in Requests : TenantOf[r] = t /\ api[r] # "none"}
    /\ UNCHANGED <<gateVars, apiVars, limitVars, gwKey>>

Expire(r) ==
    /\ Event
    /\ token[r] # 0
    /\ expired' = expired \cup {r}
    /\ UNCHANGED <<token, gate, reply, apiVars, limitVars, tenantVars, gwKey>>

(* The counters start again: the minute in the key's name changes, or      *)
(* Redis, which has no volume, comes back empty.                           *)
NextMinute ==
    /\ Event
    /\ count' = [t \in Tenants |-> 0]
    /\ thisMinute' = {}
    /\ UNCHANGED <<gateVars, apiVars, tenantVars, gwKey>>

(* A new process has a new keypair; the connections of the old one break.  *)
GatewayRestarts ==
    /\ Event
    /\ gwKey' = gwKey + 1
    /\ gate' = [r \in Requests |->
                  IF gate[r] = "queued" \/ r \in Busy THEN "done" ELSE gate[r]]
    /\ reply' = [r \in Requests |->
                  IF gate[r] = "queued" \/ r \in Busy THEN "lost" ELSE reply[r]]
    /\ UNCHANGED <<tokenVars, apiVars, limitVars, tenantVars>>

ApiRestarts(p) ==
    LET cut == {r \in Requests : host[r] = p /\ api[r] \notin {"none", "done"}}
    IN  /\ Event
        /\ known' = [known EXCEPT ![p] = {}]
        /\ api' = [r \in Requests |-> IF r \in cut THEN "done" ELSE api[r]]
        /\ answer' = [r \in Requests |-> IF r \in cut THEN "lost" ELSE answer[r]]
        /\ UNCHANGED <<gateVars, host, stored, limitVars, tenantVars, gwKey>>

-----------------------------------------------------------------------------
GatewayStep(r) ==
    Authenticate(r) \/ CheckLimit(r) \/ PassThrough(r) \/ TimeOut(r)

ApiStep(r) == Verify(r) \/ FetchKeys(r) \/ LookUpTenant(r) \/ Execute(r)

Next ==
    \/ \E r \in Requests :
          \/ Login(r) \/ Send(r)
          \/ GatewayStep(r) \/ GatewayRaises(r)
          \/ ApiStep(r) \/ FetchFails(r) \/ ApiRaises(r)
          \/ Expire(r)
    \/ \E t \in Tenants : ChangeStatus(t)
    \/ NextMinute
    \/ GatewayRestarts
    \/ \E p \in ApiProcesses : ApiRestarts(p)

(* Threads run, and a timeout that is set expires; nothing else is sure.   *)
Fairness ==
    \A r \in Requests : WF_pathVars(GatewayStep(r)) /\ WF_pathVars(ApiStep(r))

Spec == Init /\ [][Next]_pathVars /\ Fairness

-----------------------------------------------------------------------------
(* "it stays valid after a tenant is suspended, so the row is still checked*)
(* on every request" (_before, in gateway and API): a request has no       *)
(* effect, whatever token it carries and whatever the gateway saw, when    *)
(* its tenant is suspended all the time the API works on it.               *)
SuspendedRunsNothing == stored \subseteq mayRun

(* The gateway's key dies with its process and API processes cache old     *)
(* ones; still the API refuses no token signed with the current key, and   *)
(* nobody is told to sign in again (401) before the token is out of date   *)
(* or its key is lost (auth.verify, keys, _before).                        *)
FreshTokenAccepted ==
    \A r \in Requests :
        /\ answer[r] = "refused" => token[r] < gwKey
        /\ reply[r] = "401" => token[r] < gwKey \/ r \in expired

(* The limit is the tenant's own, in each minute and over all gateway      *)
(* workers: no more than Limit of its requests reach the API, and none is  *)
(* refused before that many were counted, those included whose check       *)
(* failed after the INCR (rate_limit.check).                               *)
LimitIsTheTenants ==
    \A t \in Tenants :
        LET mine == {r \in thisMinute : TenantOf[r] = t}
        IN  /\ Cardinality({r \in mine : api[r] # "none"}) <= Limit
            /\ (\E r \in mine : reply[r] = "429") => Cardinality(mine) > Limit

(* What the user is told is true: an accepted request is committed, and a  *)
(* refused one never will be; only a failure leaves it open (forward).     *)
RepliesAreTrue ==
    \A r \in Requests :
        /\ reply[r] = "202" => r \in stored
        /\ reply[r] \in Refusals => r \notin stored /\ api[r] \in {"none", "done"}

(* Every request is answered, and no thread of the API is left behind:     *)
(* gateway threads that wait for an API that waits for a gateway thread to *)
(* serve it the keys do so for a while only (proxy TIMEOUT, jwks).         *)
EveryRequestAnswered ==
    \A r \in Requests :
        gate[r] = "queued" ~> gate[r] = "done" /\ api[r] \in {"none", "done"}
=============================================================================
