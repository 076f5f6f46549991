------------------------ MODULE RequestPath_proofs ------------------------
(***************************************************************************)
(* What a user may rely on between the gateway and the API, for every      *)
(* number of requests, tenants, API processes and gateway threads, for     *)
(* every limit and however often anything restarts, expires or is          *)
(* suspended.                                                              *)
(***************************************************************************)
EXTENDS RequestPath, FiniteSetTheorems, TLAPS

Actions(r) ==
    \/ Login(r) \/ Send(r)
    \/ GatewayStep(r) \/ GatewayRaises(r)
    \/ ApiStep(r) \/ FetchFails(r) \/ ApiRaises(r)
    \/ Expire(r)

-----------------------------------------------------------------------------
(* The type invariant is inductive: it says at which stage of the gateway  *)
(* a request can be for each stage of the API.                             *)

LEMMA InitTypes == Init => TypeOK
  BY RequestAssumption, ThreadsAssumption
     DEF Init, TypeOK, Answers, Replies, Refusals

LEMMA GatewayKeepsTypes ==
    ASSUME TypeOK, NEW r \in Requests,
           \/ Login(r) \/ Send(r) \/ GatewayStep(r) \/ GatewayRaises(r)
    PROVE  TypeOK'
<1> USE RequestAssumption DEF worldVars, tenantVars, limitVars, apiVars, tokenVars
<1>1. CASE Login(r)
  BY <1>1 DEF Login, TypeOK
<1>2. CASE Send(r)
  BY <1>2 DEF Send, TypeOK
<1>3. CASE Authenticate(r)
  <2>1. /\ gate[r] = "queued"
        /\ UNCHANGED <<token, expired, known, api, host, answer, stored, count,
                       thisMinute, status, mayRun, gwKey, events>>
    BY <1>3 DEF Authenticate
  <2>2. \/ ReplyWith(r, "401") \/ ReplyWith(r, "403")
        \/ gate' = [gate EXCEPT ![r] = "limit"] /\ reply' = reply
    BY <1>3 DEF Authenticate
  <2>3. CASE \E a \in {"401", "403"} : ReplyWith(r, a)
    BY <2>1, <2>3 DEF ReplyWith, Replies, Refusals, TypeOK
  <2>4. CASE gate' = [gate EXCEPT ![r] = "limit"] /\ reply' = reply
    BY <2>1, <2>4 DEF TypeOK
  <2> QED
    BY <2>2, <2>3, <2>4
<1>4. CASE CheckLimit(r)
  <2>1. /\ gate[r] = "limit" /\ api[r] = "none"
        /\ UNCHANGED <<token, expired, known, answer, stored, status, gwKey, events>>
    BY <1>4 DEF CheckLimit, TypeOK
  <2>2. /\ count' \in [Tenants -> Nat] /\ thisMinute' \in SUBSET Requests
        /\ mayRun' \in SUBSET Requests
    BY <1>4 DEF CheckLimit, Counted, CountedAs, TypeOK
  <2>3. CASE ReplyWith(r, "429") /\ UNCHANGED <<api, host>>
    BY <2>1, <2>2, <2>3 DEF ReplyWith, Replies, Refusals, TypeOK
  <2>4. CASE /\ gate' = [gate EXCEPT ![r] = "waiting"]
             /\ api' = [api EXCEPT ![r] = "verify"]
             /\ \E p \in ApiProcesses : host' = [host EXCEPT ![r] = p]
             /\ UNCHANGED reply
    <3>1. host' \in [Requests -> ApiProcesses]
      BY <2>4 DEF TypeOK
    <3> QED
      BY <2>1, <2>2, <2>4, <3>1 DEF TypeOK
  <2> QED
    BY <1>4, <2>3, <2>4 DEF CheckLimit
<1>5. CASE PassThrough(r)
  BY <1>5 DEF PassThrough, ReplyWith, Replies, Answers, Refusals, TypeOK
<1>6. CASE TimeOut(r)
  BY <1>6 DEF TimeOut, ReplyWith, Replies, TypeOK
<1>7. CASE GatewayRaises(r)
  <2>1. count' \in [Tenants -> Nat] /\ thisMinute' \in SUBSET Requests
    BY <1>7 DEF GatewayRaises, Counted, CountedAs, TypeOK
  <2>2. /\ gate[r] \in {"queued", "limit"} /\ ReplyWith(r, "500")
        /\ UNCHANGED <<token, expired, known, api, host, answer, stored, status,
                       mayRun, gwKey, events>>
    BY <1>7 DEF GatewayRaises
  <2> QED
    BY <2>1, <2>2 DEF ReplyWith, Replies, Answers, TypeOK
<1> QED
  BY <1>1, <1>2, <1>3, <1>4, <1>5, <1>6, <1>7 DEF GatewayStep

(* The API's threads leave a request's gate and reply alone, answer exactly *)
(* when they are done, and never forget a request.                         *)
LEMMA ApiShape ==
    ASSUME TypeOK,
           api' \in [Requests -> {"none", "verify", "fetch", "tenant", "execute", "done"}],
           answer' \in [Requests -> Answers],
           \A u \in Requests : /\ api'[u] = "done" <=> answer'[u] # "none"
                               /\ api'[u] # "none" <=> api[u] # "none",
           UNCHANGED <<token, expired, known, gate, reply, host, stored, count,
                       thisMinute, status, mayRun, gwKey, events>>
    PROVE  TypeOK'
<1>1. \A u \in Requests : /\ gate[u] = "done" <=> reply[u] # "none"
                          /\ gate[u] # "waiting" /\ api[u] # "none" => gate[u] = "done"
  BY DEF TypeOK
<1>2. \A u \in Requests :
         /\ gate'[u] = "done" <=> reply'[u] # "none"
         /\ gate'[u] # "waiting" /\ api'[u] # "none" => gate'[u] = "done"
  BY <1>1
<1> QED
  BY <1>2 DEF TypeOK

LEMMA ApiKeepsTypes ==
    ASSUME TypeOK, NEW r \in Requests, ApiStep(r) \/ FetchFails(r) \/ ApiRaises(r)
    PROVE  TypeOK'
<1> USE DEF worldVars, tenantVars, limitVars, gateVars, tokenVars, AnswerWith, Answers
<1>1. CASE Verify(r)
  <2>1. /\ api[r] = "verify"
        /\ UNCHANGED <<token, expired, known, gate, reply, host, stored, count,
                       thisMinute, status, mayRun, gwKey, events>>
    BY <1>1 DEF Verify
  <2>2. \/ AnswerWith(r, "401") \/ AnswerWith(r, "refused")
        \/ \E s \in {"tenant", "fetch"} : api' = [api EXCEPT ![r] = s] /\ answer' = answer
    BY <1>1 DEF Verify, Decode
  <2>3. ASSUME NEW a \in {"401", "refused"}, AnswerWith(r, a)
        PROVE  TypeOK'
    <3>1. /\ api' \in [Requests -> {"none", "verify", "fetch", "tenant", "execute", "done"}]
          /\ answer' \in [Requests -> Answers]
      BY <2>3 DEF TypeOK
    <3>2. \A u \in Requests : /\ api'[u] = "done" <=> answer'[u] # "none"
                              /\ api'[u] # "none" <=> api[u] # "none"
      BY <2>1, <2>3 DEF TypeOK
    <3> QED
      BY <2>1, <3>1, <3>2, ApiShape
  <2>4. ASSUME NEW s \in {"tenant", "fetch"}, api' = [api EXCEPT ![r] = s],
               answer' = answer
        PROVE  TypeOK'
    <3>1. /\ api' \in [Requests -> {"none", "verify", "fetch", "tenant", "execute", "done"}]
          /\ answer' \in [Requests -> Answers]
      BY <2>4 DEF TypeOK
    <3>2. \A u \in Requests : /\ api'[u] = "done" <=> answer'[u] # "none"
                              /\ api'[u] # "none" <=> api[u] # "none"
      BY <2>1, <2>4 DEF TypeOK
    <3> QED
      BY <2>1, <2>4, <3>1, <3>2, ApiShape
  <2> QED
    BY <2>2, <2>3, <2>4
<1>2. CASE FetchKeys(r)
  <2>1. known' \in [ApiProcesses -> SUBSET (1 .. gwKey)]
    <3> DEFINE p == host[r]
    <3>1. p \in ApiProcesses /\ known' = [known EXCEPT ![p] = known[p] \cup {gwKey}]
      BY <1>2 DEF FetchKeys, TypeOK
    <3> HIDE DEF p
    <3>2. known[p] \subseteq 1 .. gwKey /\ gwKey \in 1 .. gwKey
      <4>1. known[p] \in SUBSET (1 .. gwKey) /\ gwKey \in Nat \ {0}
        BY <3>1 DEF TypeOK
      <4> QED
        BY <4>1
    <3>3. known[p] \cup {gwKey} \subseteq 1 .. gwKey
      BY <3>2
    <3> QED
      BY <3>1, <3>3 DEF TypeOK
  <2>2. /\ api[r] = "fetch"
        /\ UNCHANGED <<token, expired, gate, reply, host, stored, count,
                       thisMinute, status, mayRun, gwKey, events>>
    BY <1>2 DEF FetchKeys
  <2>3. \/ api' = [api EXCEPT ![r] = "tenant"] /\ answer' = answer
        \/ \E a \in {"401", "refused"} :
              /\ api' = [api EXCEPT ![r] = "done"]
              /\ answer' = [answer EXCEPT ![r] = a]
    BY <1>2 DEF FetchKeys, Decode
  <2>4. CASE api' = [api EXCEPT ![r] = "tenant"] /\ answer' = answer
    BY <2>1, <2>2, <2>4 DEF TypeOK
  <2>5. ASSUME NEW a \in {"401", "refused"},
               api' = [api EXCEPT ![r] = "done"],
               answer' = [answer EXCEPT ![r] = a]
        PROVE  TypeOK'
    BY <2>1, <2>2, <2>5 DEF TypeOK
  <2> QED
    BY <2>3, <2>4, <2>5
<1>3. CASE LookUpTenant(r)
  <2>1. /\ api[r] = "tenant"
        /\ UNCHANGED <<token, expired, known, gate, reply, host, stored, count,
                       thisMinute, status, mayRun, gwKey, events>>
    BY <1>3 DEF LookUpTenant
  <2>2. CASE AnswerWith(r, "403")
    BY <2>1, <2>2 DEF TypeOK
  <2>3. CASE api' = [api EXCEPT ![r] = "execute"] /\ answer' = answer
    BY <2>1, <2>3 DEF TypeOK
  <2> QED
    BY <1>3, <2>2, <2>3 DEF LookUpTenant
<1>4. CASE Execute(r)
  BY <1>4 DEF Execute, TypeOK
<1>5. CASE FetchFails(r)
  BY <1>5 DEF FetchFails, TypeOK
<1>6. CASE ApiRaises(r)
  BY <1>6 DEF ApiRaises, CommitFailure, TypeOK
<1> QED
  BY <1>1, <1>2, <1>3, <1>4, <1>5, <1>6 DEF ApiStep

LEMMA WorldKeepsTypes ==
    ASSUME TypeOK,
           \/ \E r \in Requests : Expire(r)
           \/ \E t \in Tenants : ChangeStatus(t)
           \/ NextMinute \/ GatewayRestarts
           \/ \E p \in ApiProcesses : ApiRestarts(p)
    PROVE  TypeOK'
<1> USE DEF tenantVars, limitVars, apiVars, gateVars, tokenVars, Event
<1>1. ASSUME NEW r \in Requests, Expire(r)
      PROVE  TypeOK'
  BY <1>1 DEF Expire, TypeOK
<1>2. ASSUME NEW t \in Tenants, ChangeStatus(t)
      PROVE  TypeOK'
  BY <1>2 DEF ChangeStatus, TypeOK
<1>3. CASE NextMinute
  BY <1>3 DEF NextMinute, TypeOK
<1>4. CASE GatewayRestarts
  <2>1. gwKey' = gwKey + 1 /\ events' = events + 1
    BY <1>4 DEF GatewayRestarts
  <2>2. /\ gwKey' \in Nat \ {0} /\ events' \in Nat
        /\ known \in [ApiProcesses -> SUBSET (1 .. gwKey')]
        /\ token \in [Requests -> 0 .. gwKey']
    BY <2>1 DEF TypeOK
  <2>3. /\ gate' = [r \in Requests |->
              IF gate[r] \in {"queued", "limit", "waiting"} THEN "done" ELSE gate[r]]
        /\ reply' = [r \in Requests |->
              IF gate[r] \in {"queued", "limit", "waiting"} THEN "lost" ELSE reply[r]]
    BY <1>4 DEF GatewayRestarts, Busy
  <2>4. UNCHANGED <<token, expired, known, api, host, answer, stored, count,
                    thisMinute, status, mayRun>>
    BY <1>4 DEF GatewayRestarts
  <2> QED
    BY <2>2, <2>3, <2>4 DEF Replies, Answers, TypeOK
<1>5. ASSUME NEW p \in ApiProcesses, ApiRestarts(p)
      PROVE  TypeOK'
  <2> DEFINE cut == {r \in Requests : host[r] = p /\ api[r] \notin {"none", "done"}}
  <2>1. /\ known' = [known EXCEPT ![p] = {}] /\ events' = events + 1
        /\ api' = [r \in Requests |-> IF r \in cut THEN "done" ELSE api[r]]
        /\ answer' = [r \in Requests |-> IF r \in cut THEN "lost" ELSE answer[r]]
        /\ UNCHANGED <<token, expired, gate, reply, host, stored, count,
                       thisMinute, status, mayRun, gwKey>>
    BY <1>5 DEF ApiRestarts
  <2>2. /\ \A r \in cut : r \in Requests /\ api[r] \notin {"none", "done"}
        /\ known' \in [ApiProcesses -> SUBSET (1 .. gwKey)] /\ events' \in Nat
    BY <2>1 DEF TypeOK
  <2> HIDE DEF cut
  <2> QED
    BY <2>1, <2>2 DEF Answers, TypeOK
<1> QED
  BY <1>1, <1>2, <1>3, <1>4, <1>5

LEMMA NextKeepsTypes ==
    ASSUME TypeOK, [Next]_pathVars
    PROVE  TypeOK'
<1>1. CASE UNCHANGED pathVars
  BY <1>1 DEF pathVars, worldVars, tenantVars, limitVars, apiVars, gateVars,
              tokenVars, TypeOK
<1> QED
  BY <1>1, GatewayKeepsTypes, ApiKeepsTypes, WorldKeepsTypes DEF Next

(* Every state is well typed.                                              *)
THEOREM Typing == Spec => []TypeOK
  BY InitTypes, NextKeepsTypes, PTL DEF Spec
-----------------------------------------------------------------------------
(* Which request may run: one that the API has while its tenant is active  *)
(* is marked, and the API has looked at the tenant before it works.        *)

MayActInv ==
    /\ \A r \in Requests :
          /\ api[r] # "none" /\ status[TenantOf[r]] = "ACTIVE" => r \in mayRun
          /\ api[r] = "execute" => r \in mayRun
    /\ stored \subseteq mayRun

LEMMA RequestKeepsMayAct ==
    ASSUME TypeOK, MayActInv, NEW r \in Requests, Actions(r)
    PROVE  MayActInv'
<1> USE DEF worldVars, tenantVars, limitVars, apiVars, gateVars, tokenVars
<1>1. CASE Login(r)
  BY <1>1 DEF Login, TypeOK, MayActInv
<1>2. CASE Send(r)
  BY <1>2 DEF Send, TypeOK, MayActInv
<1>3. CASE Authenticate(r)
  BY <1>3 DEF Authenticate, ReplyWith, TypeOK, MayActInv
<1>4. CASE CheckLimit(r)
  <2>1. UNCHANGED <<status, stored>>
    BY <1>4 DEF CheckLimit
  <2>2. CASE UNCHANGED <<api, mayRun>>
    BY <2>1, <2>2 DEF MayActInv
  <2>3. CASE /\ api' = [api EXCEPT ![r] = "verify"]
             /\ mayRun' = IF status[TenantOf[r]] = "ACTIVE" THEN mayRun \cup {r}
                                                          ELSE mayRun
    BY <2>1, <2>3 DEF TypeOK, MayActInv
  <2> QED
    BY <1>4, <2>2, <2>3 DEF CheckLimit
<1>5. CASE PassThrough(r) \/ TimeOut(r)
  BY <1>5 DEF PassThrough, TimeOut, ReplyWith, TypeOK, MayActInv
<1>6. CASE GatewayRaises(r)
  BY <1>6 DEF GatewayRaises, ReplyWith, TypeOK, MayActInv
<1>7. CASE Verify(r) \/ FetchKeys(r)
  <2>1. /\ api[r] \in {"verify", "fetch"}
        /\ \E a \in {"done", "tenant", "fetch"} : api' = [api EXCEPT ![r] = a]
        /\ UNCHANGED <<gate, status, mayRun, stored>>
    BY <1>7 DEF Verify, FetchKeys, Decode, AnswerWith
  <2> QED
    BY <2>1 DEF TypeOK, MayActInv
<1>8. CASE LookUpTenant(r)
  BY <1>8 DEF LookUpTenant, TenantMayAct, AnswerWith, TypeOK, MayActInv
<1>9. CASE Execute(r)
  BY <1>9 DEF Execute, AnswerWith, TypeOK, MayActInv
<1>10. CASE FetchFails(r) \/ ApiRaises(r)
  BY <1>10 DEF FetchFails, ApiRaises, AnswerWith, TypeOK, MayActInv
<1>11. CASE Expire(r)
  BY <1>11 DEF Expire, TypeOK, MayActInv
<1> QED
  BY <1>1, <1>2, <1>3, <1>4, <1>5, <1>6, <1>7, <1>8, <1>9, <1>10, <1>11
     DEF Actions, GatewayStep, ApiStep

LEMMA NextKeepsMayAct ==
    ASSUME TypeOK, MayActInv, [Next]_pathVars
    PROVE  MayActInv'
<1> USE DEF worldVars, tenantVars, limitVars, apiVars, gateVars, tokenVars
<1>1. ASSUME NEW t \in Tenants, ChangeStatus(t)
      PROVE  MayActInv'
  BY <1>1, RequestAssumption DEF ChangeStatus, TypeOK, MayActInv
<1>2. CASE NextMinute
  BY <1>2 DEF NextMinute, MayActInv
<1>3. CASE GatewayRestarts
  BY <1>3 DEF GatewayRestarts, Busy, TypeOK, MayActInv
<1>4. ASSUME NEW p \in ApiProcesses, ApiRestarts(p)
      PROVE  MayActInv'
  BY <1>4 DEF ApiRestarts, TypeOK, MayActInv
<1>5. CASE UNCHANGED pathVars
  BY <1>5 DEF pathVars, MayActInv
<1> QED
  BY <1>1, <1>2, <1>3, <1>4, <1>5, RequestKeepsMayAct DEF Next, Actions

(* A request has no effect, whatever its token says and whatever the       *)
(* gateway saw, when its tenant is suspended all the time the API works on *)
(* it (_before, in the gateway and in the API).                            *)
THEOREM NothingRunsForTheSuspended == Spec => []SuspendedRunsNothing
<1>1. Init => MayActInv
  BY DEF Init, MayActInv
<1>2. MayActInv => SuspendedRunsNothing
  BY DEF MayActInv, SuspendedRunsNothing
<1> QED
  BY InitTypes, NextKeepsTypes, NextKeepsMayAct, <1>1, <1>2, PTL DEF Spec

-----------------------------------------------------------------------------
(* Who is told that a token is not good, and what is true of it then.      *)

TokenInv ==
    \A r \in Requests :
        /\ answer[r] = "refused" => token[r] < gwKey
        /\ answer[r] = "401" => r \in expired
        /\ reply[r] = "401" => token[r] < gwKey \/ r \in expired

LEMMA RequestKeepsToken ==
    ASSUME TypeOK, TokenInv, NEW r \in Requests, Actions(r)
    PROVE  TokenInv'
<1> USE DEF worldVars, tenantVars, limitVars, apiVars, gateVars, tokenVars
<1>1. CASE Login(r)
  BY <1>1 DEF Login, TypeOK, TokenInv
<1>2. CASE Send(r)
  BY <1>2 DEF Send, TypeOK, TokenInv
<1>3. CASE Authenticate(r)
  BY <1>3 DEF Authenticate, SignedAndValid, ReplyWith, TypeOK, TokenInv
<1>4. CASE CheckLimit(r)
  <2>1. /\ reply' = reply \/ reply' = [reply EXCEPT ![r] = "429"]
        /\ UNCHANGED <<token, expired, answer, gwKey>>
    BY <1>4 DEF CheckLimit, ReplyWith
  <2> QED
    BY <2>1 DEF TypeOK, TokenInv
<1>5. CASE PassThrough(r)
  BY <1>5 DEF PassThrough, ReplyWith, TypeOK, TokenInv
<1>6. CASE TimeOut(r) \/ GatewayRaises(r)
  BY <1>6 DEF TimeOut, GatewayRaises, ReplyWith, TypeOK, TokenInv
<1>7. CASE Verify(r)
  BY <1>7 DEF Verify, FetchesUnknown, Decode, AnswerWith, TypeOK, TokenInv
<1>8. CASE FetchKeys(r)
  <2>1. /\ UNCHANGED <<token, expired, reply, gwKey>>
        /\ \/ answer' = answer
           \/ r \in expired /\ answer' = [answer EXCEPT ![r] = "401"]
           \/ token[r] # gwKey /\ answer' = [answer EXCEPT ![r] = "refused"]
    BY <1>8 DEF FetchKeys, Decode, AnswerWith
  <2> QED
    BY <2>1 DEF TypeOK, TokenInv
<1>9. CASE LookUpTenant(r) \/ Execute(r) \/ FetchFails(r) \/ ApiRaises(r)
  <2>1. /\ UNCHANGED <<token, expired, reply, gwKey>>
        /\ \/ answer' = answer
           \/ \E a \in {"403", "202", "keyless", "500"} :
                 answer' = [answer EXCEPT ![r] = a]
    BY <1>9 DEF LookUpTenant, Execute, FetchFails, ApiRaises, CommitFailure, AnswerWith
  <2> QED
    BY <2>1 DEF TypeOK, TokenInv
<1>10. CASE Expire(r)
  BY <1>10 DEF Expire, TypeOK, TokenInv
<1> QED
  BY <1>1, <1>2, <1>3, <1>4, <1>5, <1>6, <1>7, <1>8, <1>9, <1>10
     DEF Actions, GatewayStep, ApiStep

LEMMA NextKeepsToken ==
    ASSUME TypeOK, TokenInv, [Next]_pathVars
    PROVE  TokenInv'
<1> USE DEF worldVars, tenantVars, limitVars, apiVars, gateVars, tokenVars
<1>1. ASSUME NEW t \in Tenants, ChangeStatus(t)
      PROVE  TokenInv'
  BY <1>1 DEF ChangeStatus, TokenInv
<1>2. CASE NextMinute
  BY <1>2 DEF NextMinute, TokenInv
<1>3. CASE GatewayRestarts
  BY <1>3 DEF GatewayRestarts, Busy, TypeOK, TokenInv
<1>4. ASSUME NEW p \in ApiProcesses, ApiRestarts(p)
      PROVE  TokenInv'
  BY <1>4 DEF ApiRestarts, TypeOK, TokenInv
<1>5. CASE UNCHANGED pathVars
  BY <1>5 DEF pathVars, TokenInv
<1> QED
  BY <1>1, <1>2, <1>3, <1>4, <1>5, RequestKeepsToken DEF Next, Actions

(* The API never refuses a token of the key the gateway signs with now,    *)
(* and only a token that is out of date or has lost its key brings a 401,  *)
(* however keys were cached and whoever restarted (auth.verify, keys).     *)
THEOREM GoodTokensWork == Spec => []FreshTokenAccepted
<1>1. Init => TokenInv
  BY DEF Init, TokenInv
<1>2. TokenInv => FreshTokenAccepted
  BY DEF TokenInv, FreshTokenAccepted
<1> QED
  BY InitTypes, NextKeepsTypes, NextKeepsToken, <1>1, <1>2, PTL DEF Spec
-----------------------------------------------------------------------------
(* A request's work is committed exactly when the API has accepted it, and *)
(* what the user is told follows from the API's answer or from there being *)
(* none.                                                                   *)

OutcomeInv ==
    \A r \in Requests :
        /\ r \in stored <=> answer[r] = "202"
        /\ reply[r] = "202" => answer[r] = "202"
        /\ reply[r] \in Refusals => answer[r] # "202" /\ api[r] \in {"none", "done"}

LEMMA RequestKeepsOutcome ==
    ASSUME TypeOK, OutcomeInv, NEW r \in Requests, Actions(r)
    PROVE  OutcomeInv'
<1> USE DEF worldVars, tenantVars, limitVars, apiVars, gateVars, tokenVars
<1>1. CASE Login(r) \/ Send(r) \/ Expire(r)
  BY <1>1 DEF Login, Send, Expire, OutcomeInv
<1>2. CASE Authenticate(r) \/ GatewayRaises(r)
  <2>1. /\ gate[r] \in {"queued", "limit"}
        /\ \/ reply' = reply
           \/ \E a \in {"401", "403", "500"} : reply' = [reply EXCEPT ![r] = a]
        /\ UNCHANGED <<answer, stored, api>>
    BY <1>2 DEF Authenticate, GatewayRaises, ReplyWith
  <2>2. api[r] = "none" /\ answer[r] = "none"
    BY <2>1 DEF TypeOK
  <2> QED
    BY <2>1, <2>2 DEF TypeOK, OutcomeInv
<1>3. CASE CheckLimit(r)
  <2>1. /\ gate[r] = "limit"
        /\ \/ reply' = [reply EXCEPT ![r] = "429"] /\ api' = api
           \/ reply' = reply /\ api' = [api EXCEPT ![r] = "verify"]
        /\ UNCHANGED <<answer, stored>>
    BY <1>3 DEF CheckLimit, ReplyWith
  <2>2. api[r] = "none" /\ answer[r] = "none" /\ reply[r] = "none"
    BY <2>1 DEF TypeOK
  <2> QED
    BY <2>1, <2>2 DEF TypeOK, OutcomeInv, Refusals
<1>4. CASE PassThrough(r)
  BY <1>4 DEF PassThrough, ReplyWith, TypeOK, OutcomeInv, Refusals
<1>5. CASE TimeOut(r)
  BY <1>5 DEF TimeOut, ReplyWith, TypeOK, OutcomeInv, Refusals
<1>6. CASE ApiStep(r) \/ FetchFails(r) \/ ApiRaises(r)
  <2>1. /\ api[r] \notin {"none", "done"}
        /\ \E s \in {"tenant", "fetch", "execute", "done"} : api' = [api EXCEPT ![r] = s]
        /\ \/ answer' = [answer EXCEPT ![r] = "202"] /\ stored' = stored \cup {r}
           \/ /\ \/ answer' = answer
                 \/ \E a \in {"401", "403", "refused", "keyless", "500"} :
                       answer' = [answer EXCEPT ![r] = a]
              /\ stored' = stored
        /\ reply' = reply
    <3>1. CASE Verify(r)
      BY <3>1 DEF Verify, Decode, AnswerWith
    <3>2. CASE FetchKeys(r)
      <4>1. /\ api[r] = "fetch" /\ UNCHANGED <<reply, stored>>
            /\ Decode(r) \/ AnswerWith(r, "refused")
        BY <3>2 DEF FetchKeys
      <4> QED
        BY <4>1 DEF Decode, AnswerWith
    <3>3. CASE LookUpTenant(r)
      BY <3>3 DEF LookUpTenant, AnswerWith
    <3>4. CASE Execute(r)
      BY <3>4 DEF Execute, AnswerWith
    <3>5. CASE FetchFails(r) \/ ApiRaises(r)
      BY <3>5 DEF FetchFails, ApiRaises, CommitFailure, AnswerWith
    <3> QED
      BY <1>6, <3>1, <3>2, <3>3, <3>4, <3>5 DEF ApiStep
  <2>2. answer[r] = "none"
    BY <2>1 DEF TypeOK
  <2>3. reply[r] \notin Refusals /\ reply[r] # "202" /\ r \notin stored
    BY <2>1, <2>2 DEF OutcomeInv
  <2>4. ASSUME NEW v \in Requests, v # r
        PROVE  /\ api'[v] = api[v] /\ answer'[v] = answer[v]
               /\ v \in stored' <=> v \in stored
    <3>1. api'[v] = api[v]
      BY <2>1, <2>4 DEF TypeOK
    <3>2. answer'[v] = answer[v]
      BY <2>1, <2>4 DEF TypeOK
    <3>3. v \in stored' <=> v \in stored
      BY <2>1, <2>4
    <3> QED
      BY <3>1, <3>2, <3>3
  <2>5. r \in stored' <=> answer'[r] = "202"
    BY <2>1, <2>2, <2>3 DEF TypeOK
  <2> QED
    BY <2>1, <2>3, <2>4, <2>5 DEF OutcomeInv
<1> QED
  BY <1>1, <1>2, <1>3, <1>4, <1>5, <1>6 DEF Actions, GatewayStep

LEMMA NextKeepsOutcome ==
    ASSUME TypeOK, OutcomeInv, [Next]_pathVars
    PROVE  OutcomeInv'
<1> USE DEF worldVars, tenantVars, limitVars, apiVars, gateVars, tokenVars
<1>1. ASSUME NEW t \in Tenants, ChangeStatus(t)
      PROVE  OutcomeInv'
  BY <1>1 DEF ChangeStatus, OutcomeInv
<1>2. CASE NextMinute
  BY <1>2 DEF NextMinute, OutcomeInv
<1>3. CASE GatewayRestarts
  <2>1. /\ reply' = [r \in Requests |->
              IF gate[r] \in {"queued", "limit", "waiting"} THEN "lost" ELSE reply[r]]
        /\ UNCHANGED <<answer, stored, api>>
    BY <1>3 DEF GatewayRestarts, Busy
  <2> QED
    BY <2>1 DEF OutcomeInv, Refusals
<1>4. ASSUME NEW p \in ApiProcesses, ApiRestarts(p)
      PROVE  OutcomeInv'
  BY <1>4 DEF ApiRestarts, TypeOK, OutcomeInv
<1>5. CASE UNCHANGED pathVars
  BY <1>5 DEF pathVars, OutcomeInv
<1> QED
  BY <1>1, <1>2, <1>3, <1>4, <1>5, RequestKeepsOutcome DEF Next, Actions

(* A user who is told 202 has the work committed, and one who is refused   *)
(* never will, though the gateway gives up on answers the API still sends  *)
(* and both restart (forward, _before).                                    *)
THEOREM UsersAreToldTheTruth == Spec => []RepliesAreTrue
<1>1. Init => OutcomeInv
  BY DEF Init, OutcomeInv, Refusals
<1>2. OutcomeInv => RepliesAreTrue
  BY DEF OutcomeInv, RepliesAreTrue
<1> QED
  BY InitTypes, NextKeepsTypes, NextKeepsOutcome, <1>1, <1>2, PTL DEF Spec

-----------------------------------------------------------------------------
(* The counter of a tenant is the number of its requests counted in this   *)
(* minute, each once: they are past the check, and the API has those that  *)
(* passed it.                                                              *)

Mine(t) == {r \in thisMinute : TenantOf[r] = t}
Passed(t) == {r \in Mine(t) : api[r] # "none"}
Refused(t) == {r \in Mine(t) : reply[r] = "429"}

CountedOnce ==
    /\ IsFiniteSet(thisMinute)
    /\ \A r \in thisMinute : gate[r] \in {"waiting", "done"}

TenantCounted(t) ==
    /\ count[t] = Cardinality(Mine(t))
    /\ Cardinality(Passed(t)) <= Limit
    /\ Refused(t) # {} => Cardinality(Mine(t)) > Limit

CountInv == CountedOnce /\ \A t \in Tenants : TenantCounted(t)

LEMMA MineFacts ==
    ASSUME CountedOnce, NEW t
    PROVE  /\ IsFiniteSet(Mine(t)) /\ Cardinality(Mine(t)) \in Nat
           /\ \A S \in SUBSET Mine(t) :
                 /\ Cardinality(S) \in Nat
                 /\ Cardinality(S) <= Cardinality(Mine(t))
<1>1. IsFiniteSet(Mine(t))
  BY FS_Subset DEF Mine, CountedOnce
<1> QED
  BY <1>1, FS_Subset, FS_CardinalityType

(* A step that counts nobody, brings nobody to the API and neither gives   *)
(* nor takes back a 429.                                                   *)
LEMMA OthersKeepCount ==
    ASSUME CountInv, UNCHANGED limitVars,
           \A r \in thisMinute :
              /\ gate'[r] \in {"waiting", "done"}
              /\ reply'[r] = "429" <=> reply[r] = "429"
              /\ api'[r] = "none" <=> api[r] = "none"
    PROVE  CountInv'
<1>1. \A t \in Tenants : /\ Mine(t)' = Mine(t) /\ Refused(t)' = Refused(t)
                         /\ Passed(t)' = Passed(t)
  BY DEF Mine, Passed, Refused, limitVars
<1>2. CountedOnce'
  BY DEF CountInv, CountedOnce, limitVars
<1>3. ASSUME NEW t \in Tenants
      PROVE  TenantCounted(t)'
  <2>1. count'[t] = count[t] /\ TenantCounted(t)
    BY DEF limitVars, CountInv
  <2> QED
    BY <1>1, <2>1 DEF TenantCounted
<1> QED
  BY <1>2, <1>3 DEF CountInv

(* A request is counted: it is refused above the limit, goes on to the API *)
(* within it, or fails, and then it may have been counted all the same.    *)
LEMMA CountingKeepsCount ==
    ASSUME TypeOK, CountInv, NEW r \in Requests, gate[r] = "limit", Counted(r),
           gate'[r] \in {"waiting", "done"},
           \A v \in Requests \ {r} :
              gate'[v] = gate[v] /\ reply'[v] = reply[v] /\ api'[v] = api[v],
           \/ /\ api'[r] = "none"
              /\ reply'[r] = "429" => count[TenantOf[r]] + 1 > Limit
           \/ reply'[r] # "429" /\ count[TenantOf[r]] + 1 <= Limit
    PROVE  CountInv'
<1> DEFINE u == TenantOf[r]
<1>1. u \in Tenants /\ r \notin thisMinute
  BY RequestAssumption DEF CountInv, CountedOnce
<1>2. /\ thisMinute' = thisMinute \cup {r}
      /\ count' = [count EXCEPT ![u] = @ + 1]
  BY DEF Counted, CountedAs
<1>3. \A v \in thisMinute :
         gate'[v] = gate[v] /\ reply'[v] = reply[v] /\ api'[v] = api[v]
  BY <1>1 DEF TypeOK
<1>4. CountedOnce'
  <2>1. IsFiniteSet(thisMinute')
    BY <1>2, FS_AddElement DEF CountInv, CountedOnce
  <2>2. \A v \in thisMinute' : gate'[v] \in {"waiting", "done"}
    BY <1>2, <1>3 DEF CountInv, CountedOnce
  <2> QED
    BY <2>1, <2>2 DEF CountedOnce
<1>5. ASSUME NEW t \in Tenants, t # u
      PROVE  TenantCounted(t)'
  <2>1. Mine(t)' = Mine(t)
    BY <1>2, <1>5 DEF Mine
  <2>2. Refused(t)' = Refused(t) /\ Passed(t)' = Passed(t)
    BY <1>3, <2>1 DEF Refused, Passed, Mine
  <2>3. count'[t] = count[t] /\ TenantCounted(t)
    BY <1>1, <1>2, <1>5 DEF CountInv, TypeOK
  <2> QED
    BY <2>1, <2>2, <2>3 DEF TenantCounted
<1>6. TenantCounted(u)'
  <2> DEFINE m == Mine(u)
             after == Mine(u)'
             passed == Passed(u)
             passedAfter == Passed(u)'
             ref == Refused(u)
             refAfter == Refused(u)'
  <2>1. /\ IsFiniteSet(m) /\ Cardinality(m) \in Nat /\ r \notin m
        /\ after = m \cup {r}
        /\ count[u] = Cardinality(m)
        /\ Cardinality(passed) <= Limit
        /\ ref # {} => Cardinality(m) > Limit
    BY <1>1, <1>2, MineFacts DEF CountInv, TenantCounted, Mine
  <2>2. IsFiniteSet(after) /\ Cardinality(after) = Cardinality(m) + 1
    BY <2>1, FS_AddElement
  <2>3. count'[u] = count[u] + 1
    BY <1>1, <1>2 DEF TypeOK
  <2>4. ref \subseteq refAfter /\ refAfter \subseteq ref \cup {r}
    BY <1>1, <1>2, <1>3 DEF Mine, Refused
  <2>5. CASE /\ api'[r] = "none"
             /\ reply'[r] = "429" => count[u] + 1 > Limit
    <3>1. passedAfter = passed
      BY <1>1, <1>2, <1>3, <2>5 DEF Mine, Passed
    <3>2. r \in refAfter => reply'[r] = "429"
      BY DEF Refused
    <3> HIDE DEF m, after, passed, passedAfter, ref, refAfter
    <3>3. refAfter # {} => Cardinality(after) > Limit
      BY <2>1, <2>2, <2>4, <2>5, <3>2, PathBoundAssumption
    <3> QED
      BY <2>1, <2>2, <2>3, <3>1, <3>3
         DEF TenantCounted, m, after, passed, passedAfter, ref, refAfter
  <2>6. CASE reply'[r] # "429" /\ count[u] + 1 <= Limit
    <3>1. refAfter = ref
      BY <2>4, <2>6 DEF Refused
    <3>2. passedAfter \subseteq after
      BY DEF Passed
    <3>3. /\ Cardinality(passedAfter) <= Cardinality(after)
          /\ Cardinality(passedAfter) \in Nat
      BY <2>2, <3>2, FS_Subset, FS_CardinalityType
    <3> HIDE DEF m, after, passed, passedAfter, ref, refAfter
    <3> QED
      BY <2>1, <2>2, <2>3, <2>6, <3>1, <3>3, PathBoundAssumption
         DEF TenantCounted, m, after, passed, passedAfter, ref, refAfter
  <2> QED
    BY <2>5, <2>6
<1> QED
  BY <1>4, <1>5, <1>6 DEF CountInv

LEMMA CheckKeepsCount ==
    ASSUME TypeOK, CountInv, NEW r \in Requests, CheckLimit(r)
    PROVE  CountInv'
<1>1. gate[r] = "limit" /\ api[r] = "none" /\ reply[r] = "none" /\ Counted(r)
  BY DEF CheckLimit, TypeOK
<1>2. CASE count[TenantOf[r]] + 1 > Limit /\ ReplyWith(r, "429") /\ api' = api
  BY <1>1, <1>2, CountingKeepsCount DEF ReplyWith, TypeOK
<1>3. CASE /\ count[TenantOf[r]] + 1 <= Limit
           /\ gate' = [gate EXCEPT ![r] = "waiting"]
           /\ api' = [api EXCEPT ![r] = "verify"]
           /\ reply' = reply
  BY <1>1, <1>3, CountingKeepsCount DEF TypeOK
<1> QED
  BY <1>2, <1>3 DEF CheckLimit, CountedAs

LEMMA RaisingKeepsCount ==
    ASSUME TypeOK, CountInv, NEW r \in Requests, GatewayRaises(r)
    PROVE  CountInv'
<1>1. /\ gate[r] \in {"queued", "limit"} /\ api[r] = "none" /\ api' = api
      /\ gate' = [gate EXCEPT ![r] = "done"]
      /\ reply' = [reply EXCEPT ![r] = "500"]
  BY DEF GatewayRaises, ReplyWith, apiVars, TypeOK
<1>2. CASE UNCHANGED limitVars
  BY <1>1, <1>2, OthersKeepCount DEF CountInv, CountedOnce, TypeOK
<1>3. CASE gate[r] = "limit" /\ Counted(r)
  BY <1>1, <1>3, CountingKeepsCount DEF TypeOK
<1> QED
  BY <1>2, <1>3 DEF GatewayRaises

LEMMA NextKeepsCount ==
    ASSUME TypeOK, CountInv, [Next]_pathVars
    PROVE  CountInv'
<1> USE DEF worldVars, tenantVars, limitVars, apiVars, gateVars, tokenVars
<1>0. \A r \in thisMinute : r \in Requests /\ gate[r] \in {"waiting", "done"}
  BY DEF CountInv, CountedOnce, TypeOK
<1>1. ASSUME NEW r \in Requests, Login(r) \/ Send(r)
      PROVE  CountInv'
  BY <1>0, <1>1, OthersKeepCount DEF Login, Send, TypeOK
<1>2. ASSUME NEW r \in Requests, Authenticate(r)
      PROVE  CountInv'
  BY <1>0, <1>2, OthersKeepCount DEF Authenticate, ReplyWith, TypeOK
<1>3. ASSUME NEW r \in Requests, PassThrough(r) \/ TimeOut(r)
      PROVE  CountInv'
  <2>1. /\ gate[r] = "waiting" /\ reply[r] # "429" /\ UNCHANGED <<limitVars, api>>
        /\ gate' = [gate EXCEPT ![r] = "done"]
        /\ \E a \in Replies \ {"429"} : reply' = [reply EXCEPT ![r] = a]
    BY <1>3 DEF PassThrough, TimeOut, ReplyWith, TypeOK, Answers, Replies, Refusals
  <2> QED
    BY <1>0, <2>1, OthersKeepCount DEF TypeOK
<1>4. ASSUME NEW r \in Requests, ApiStep(r) \/ FetchFails(r) \/ ApiRaises(r) \/ Expire(r)
      PROVE  CountInv'
  <2>1. UNCHANGED <<gate, reply, count, thisMinute>>
    BY <1>4 DEF ApiStep, Verify, FetchKeys, LookUpTenant, Execute, FetchFails,
                ApiRaises, Expire
  <2>2. \/ api' = api
        \/ /\ api[r] # "none"
           /\ \E s \in {"fetch", "tenant", "execute", "done"} :
                 api' = [api EXCEPT ![r] = s]
    BY <1>4 DEF ApiStep, Verify, FetchKeys, Decode, LookUpTenant, Execute,
                FetchFails, ApiRaises, AnswerWith, Expire
  <2> QED
    BY <1>0, <2>1, <2>2, OthersKeepCount DEF TypeOK
<1>5. ASSUME NEW t \in Tenants, ChangeStatus(t)
      PROVE  CountInv'
  BY <1>0, <1>5, OthersKeepCount DEF ChangeStatus
<1>6. CASE NextMinute
  <2>1. \A t \in Tenants :
           Mine(t)' = {} /\ Passed(t)' = {} /\ Refused(t)' = {} /\ count'[t] = 0
    BY <1>6 DEF NextMinute, Mine, Passed, Refused
  <2>2. IsFiniteSet({}) /\ Cardinality({}) = 0
    BY FS_EmptySet
  <2>3. CountedOnce'
    BY <1>6, <2>2 DEF NextMinute, CountedOnce
  <2> QED
    BY <2>1, <2>2, <2>3, PathBoundAssumption DEF CountInv, TenantCounted
<1>7. CASE GatewayRestarts
  BY <1>0, <1>7, OthersKeepCount DEF GatewayRestarts, Busy, TypeOK
<1>8. ASSUME NEW p \in ApiProcesses, ApiRestarts(p)
      PROVE  CountInv'
  BY <1>0, <1>8, OthersKeepCount DEF ApiRestarts
<1>9. CASE UNCHANGED pathVars
  BY <1>0, <1>9, OthersKeepCount DEF pathVars
<1> QED
  BY <1>1, <1>2, <1>3, <1>4, <1>5, <1>6, <1>7, <1>8, <1>9, CheckKeepsCount,
     RaisingKeepsCount DEF Next, GatewayStep

(* In each minute no more than Limit requests of a tenant reach the API,   *)
(* over all gateway workers together, and none is refused before that many *)
(* of its own were counted (rate_limit.check).                             *)
THEOREM LimitsAreKept == Spec => []LimitIsTheTenants
<1>1. Init => CountInv
  <2> SUFFICES ASSUME Init PROVE CountInv
    OBVIOUS
  <2>1. \A t \in Tenants :
           Mine(t) = {} /\ Passed(t) = {} /\ Refused(t) = {} /\ count[t] = 0
    BY DEF Init, Mine, Passed, Refused
  <2>2. IsFiniteSet({}) /\ Cardinality({}) = 0
    BY FS_EmptySet
  <2>3. CountedOnce
    BY <2>2 DEF Init, CountedOnce
  <2> QED
    BY <2>1, <2>2, <2>3, PathBoundAssumption DEF CountInv, TenantCounted
<1>2. CountInv => LimitIsTheTenants
  BY DEF CountInv, TenantCounted, LimitIsTheTenants, Mine, Passed, Refused
<1> QED
  BY InitTypes, NextKeepsTypes, NextKeepsCount, <1>1, <1>2, PTL DEF Spec
=============================================================================
