------------------------------ MODULE Bootstrap ------------------------------
(***************************************************************************)
(* How the services start.  Gateway, API and indexer each create what they *)
(* need before they serve: they look, and create what was missing.         *)
(* Between the look and the creation another service may have created it;  *)
(* then the creation raises, the process dies and its container is started *)
(* again.  No order of the services is assumed (docker-compose makes the   *)
(* API wait for the gateway, once).  An operator may change the status of  *)
(* a seeded tenant meanwhile.                                              *)
(***************************************************************************)
EXTENDS Naturals, Sequences

CONSTANTS
    MaxFaults,   \* bound: calls that fail while a service starts
    MaxStops     \* bound: services that die, deployments that are recreated

ASSUME BoundsAssumption == MaxFaults \in Nat /\ MaxStops \in Nat

Services == {"gateway", "api", "indexer"}
Things == {"schema", "seeds", "index", "bucket"}

VARIABLES
    stage,    \* the thing each service ensures; or down, or serving
    missed,   \* the services that looked and found it missing
    exists,   \* the things that exist
    tenant,   \* status of a seeded tenant, "none" before the seeds
    faults, stops

vars == <<stage, missed, exists, tenant, faults, stops>>

TypeOK ==
    /\ stage \in [Services -> Things \cup {"down", "serving"}]
    /\ missed \in SUBSET {s \in Services : stage[s] \in Things}
    /\ exists \in SUBSET Things
    /\ tenant \in {"none", "ACTIVE", "SUSPENDED"}
    /\ tenant # "none" <=> "seeds" \in exists
    /\ faults \in 0 .. MaxFaults
    /\ stops \in 0 .. MaxStops

Init ==
    /\ stage = [s \in Services |-> "down"]
    /\ missed = {}
    /\ exists = {}
    /\ tenant = "none"
    /\ faults = 0
    /\ stops = 0

-----------------------------------------------------------------------------
(* Plausible bugs, used only to show that a property can fail.             *)

NeverThere(x) == FALSE
SeedsAgain == IF tenant = "none" THEN tenant ELSE "ACTIVE"
IndexLeftToTheApi ==
    [gateway |-> <<"schema", "seeds">>,
     api     |-> <<"schema", "seeds", "index", "bucket">>,
     indexer |-> <<"schema", "bucket">>]
ForgetsTheLook(s) == UNCHANGED missed

-----------------------------------------------------------------------------
(* create_app of gateway and API, main of the indexer.                     *)
Plan ==
    [gateway |-> <<"schema", "seeds">>,
     api     |-> <<"schema", "seeds", "index", "bucket">>,
     indexer |-> <<"schema", "index", "bucket">>]

Following(s) ==
    LET i == CHOOSE k \in DOMAIN Plan[s] : Plan[s][k] = stage[s]
    IN  IF i = Len(Plan[s]) THEN "serving" ELSE Plan[s][i + 1]

LookForgotten(s) == missed' = missed \ {s}

GoesOn(s) ==
    /\ stage' = [stage EXCEPT ![s] = Following(s)]
    /\ LookForgotten(s)

(* What a start raises ends the process.                                   *)
Ends(s) ==
    /\ stage' = [stage EXCEPT ![s] = "down"]
    /\ LookForgotten(s)

(* restart: unless-stopped.                                                *)
Start(s) ==
    /\ stage[s] = "down"
    /\ stage' = [stage EXCEPT ![s] = Plan[s][1]]
    /\ UNCHANGED <<missed, exists, tenant, faults, stops>>

There(x) == x \in exists

(* seed leaves the rows it finds as they are.                              *)
FoundTenant == tenant

(* has_table, SELECT, indices.exists, head_bucket.                         *)
Look(s) ==
    /\ stage[s] \in Things
    /\ s \notin missed
    /\ \/ /\ There(stage[s])
          /\ GoesOn(s)
          /\ tenant' = IF stage[s] = "seeds" THEN FoundTenant ELSE tenant
       \/ /\ ~There(stage[s])
          /\ missed' = missed \cup {s}
          /\ UNCHANGED <<stage, tenant>>
    /\ UNCHANGED <<exists, faults, stops>>

Created(x) ==
    /\ exists' = exists \cup {x}
    /\ tenant' = IF x = "seeds" THEN "ACTIVE" ELSE tenant

(* CREATE TABLE, INSERT, indices.create, create_bucket: refused when       *)
(* another service was faster.                                             *)
Create(s) ==
    /\ s \in missed
    /\ \/ stage[s] \notin exists /\ Created(stage[s]) /\ GoesOn(s)
       \/ stage[s] \in exists /\ Ends(s) /\ UNCHANGED <<exists, tenant>>
    /\ UNCHANGED <<faults, stops>>

(* A call fails, and what it created may be there all the same.            *)
StartRaises(s) ==
    /\ stage[s] \in Things
    /\ faults < MaxFaults
    /\ faults' = faults + 1
    /\ \/ UNCHANGED <<exists, tenant>>
       \/ s \in missed /\ stage[s] \notin exists /\ Created(stage[s])
    /\ Ends(s)
    /\ UNCHANGED stops

Die(s) ==
    /\ stage[s] # "down"
    /\ stops < MaxStops
    /\ stops' = stops + 1
    /\ Ends(s)
    /\ UNCHANGED <<exists, tenant, faults>>

(* The containers are made anew.  Postgres and MinIO keep their volumes;   *)
(* Elasticsearch has none.                                                 *)
Recreate ==
    /\ stops < MaxStops
    /\ stops' = stops + 1
    /\ stage' = [s \in Services |-> "down"]
    /\ missed' = {}
    /\ exists' = exists \ {"index"}
    /\ UNCHANGED <<tenant, faults>>

OperatorActs ==
    /\ tenant # "none"
    /\ tenant' = IF tenant = "ACTIVE" THEN "SUSPENDED" ELSE "ACTIVE"
    /\ UNCHANGED <<stage, missed, exists, faults, stops>>

Next ==
    \/ \E s \in Services : \/ Start(s) \/ Look(s) \/ Create(s)
                           \/ StartRaises(s) \/ Die(s)
    \/ Recreate
    \/ OperatorActs

(* Docker starts what is down, and the stores answer or refuse.            *)
Fairness ==
    \A s \in Services : WF_vars(Start(s)) /\ WF_vars(Look(s)) /\ WF_vars(Create(s))

Spec == Init /\ [][Next]_vars /\ Fairness

-----------------------------------------------------------------------------
Uses ==
    [gateway |-> {"schema", "seeds"},
     api     |-> {"schema", "index", "bucket"},
     indexer |-> {"schema", "index", "bucket"}]

(* Whoever serves finds what it uses, whoever created it.  Without the     *)
(* index, the first document would make Elasticsearch create one without   *)
(* the mapping of elastic.py, and ensure_index would take it for the real  *)
(* one from then on.                                                       *)
ServingHasWhatItUses ==
    \A s \in Services : stage[s] = "serving" => Uses[s] \subseteq exists

(* "Idempotent, safe to run on every service start" (bootstrap.py): a      *)
(* start may insert the seeds once, and changes no status an operator set, *)
(* whichever service restarts when.                                        *)
StartsChangeNoTenant ==
    [][tenant' # tenant => tenant = "none" \/ OperatorActs]_vars

(* However the starts race, fail and are repeated, in the end every        *)
(* service serves for good: who loses a race finds the thing next time.    *)
EveryServiceComesUp ==
    <>[](\A s \in Services : stage[s] = "serving")
=============================================================================
