---------------------------- MODULE SearchCache ----------------------------
(***************************************************************************)
(* Searches and their two caches (search_service): L1, a dictionary in     *)
(* each API process, and L2, in Redis, in front of Elasticsearch.  A cache *)
(* key holds the tenant's version, which the indexer increments after each *)
(* change of the index.  Every action is one call of a request or of the   *)
(* indexer and the local code around it; threads of several processes,     *)
(* the indexer and time run between them.                                  *)
(***************************************************************************)
EXTENDS Integers, FiniteSets, Functions

CONSTANTS
    Tenants,
    Queries,       \* everything of a request that changes the answer
    Processes,     \* gunicorn workers of the API
    Threads,       \* each answers one request at a time
    ProcessOf,     \* where a thread runs
    L1TTL, L2TTL,  \* l1_cache_ttl and query_cache_ttl, in ticks
    L1Size,        \* entries beyond which L1 is cleared (10_000)
    MaxChanges,    \* bound: changes of the index, all tenants together
    MaxLosses      \* bound: times Redis loses what it holds

ASSUME ThreadAssumption == ProcessOf \in [Threads -> Processes]
ASSUME FiniteThreads == IsFiniteSet(Threads)
ASSUME TTLAssumption == L1TTL \in Nat /\ L2TTL \in Nat \ {0}
ASSUME SizeAssumption == L1Size \in Nat
ASSUME CacheBoundAssumption == MaxChanges \in Nat /\ MaxLosses \in Nat

VARIABLES
    applied,   \* changes of each tenant's documents Elasticsearch accepted
    visible,   \* those a refresh has made searchable
    owed,      \* tenants whose INCR the indexer has not done yet
    inv,       \* Redis: the tenant's cache version
    floor,     \* what was visible at the tenant's last INCR
    l2,        \* Redis: cached searches
    l1,        \* cached searches of each process
    req,       \* the request of each thread
    losses     \* times Redis lost its data

indexVars == <<applied, visible, owed>>
redisVars == <<inv, floor, l2, losses>>
cacheVars == <<indexVars, redisVars, l1, req>>

Key == [tenant : Tenants, ver : Nat, query : Queries]

(* What a search returns: whose documents, for which query, and the state  *)
(* of the index it saw.                                                    *)
Value == [tenant : Tenants, query : Queries, view : Nat]

(* "left" counts the ticks an entry of L1 is still good for, the current   *)
(* one included (0: expired); "age" those since the answer was stored in   *)
(* Redis.                                                                  *)
L1Entry == [value : Value, age : Nat, left : 0 .. L1TTL + 1]
L2Entry == [value : Value, age : 0 .. L2TTL - 1]

Phases == {"idle", "get", "search", "setex", "trim", "put", "answered"}
NoRequest == [phase |-> "idle"]

TypeOK ==
    /\ applied \in [Tenants -> Nat]
    /\ visible \in [Tenants -> Nat]
    /\ \A t \in Tenants : visible[t] <= applied[t]
    /\ owed \in SUBSET Tenants
    /\ inv \in [Tenants -> Nat]
    /\ floor \in [Tenants -> Nat]
    /\ DOMAIN l2 \subseteq Key /\ \A k \in DOMAIN l2 : l2[k] \in L2Entry
    /\ \A p \in Processes :
          DOMAIN l1[p] \subseteq Key /\ \A k \in DOMAIN l1[p] : l1[p][k] \in L1Entry
    /\ \A w \in Threads : req[w].phase \in Phases
    /\ losses \in Nat

Empty == [k \in {} |-> k]

Init ==
    /\ applied = [t \in Tenants |-> 0]
    /\ visible = [t \in Tenants |-> 0]
    /\ owed = {}
    /\ inv = [t \in Tenants |-> 0]
    /\ floor = [t \in Tenants |-> 0]
    /\ l2 = Empty
    /\ l1 = [p \in Processes |-> Empty]
    /\ req = [w \in Threads |-> NoRequest]
    /\ losses = 0

With(cache, k, entry) ==
    [j \in DOMAIN cache \cup {k} |-> IF j = k THEN entry ELSE cache[j]]
Without(cache, k) == [j \in DOMAIN cache \ {k} |-> cache[j]]

-----------------------------------------------------------------------------
(* Plausible bugs, used only to show that a property can fail.             *)

AnyTenant == CHOOSE t \in Tenants : TRUE
KeyWithoutTenant(t, v, q) == [tenant |-> AnyTenant, ver |-> v, query |-> q]
KeyOfNow(w) == [req[w].key EXCEPT !.ver = inv[req[w].tenant]]
Touched(p, k) == [l1 EXCEPT ![p][k].left = L1TTL + 1]
NeverTrimmed(p) == l1
NeverExpire == DOMAIN l2
-----------------------------------------------------------------------------
(* A request (search.run).  The phase says which call comes next.          *)

(* _cache_key: tenant, the tenant's version, and the question.             *)
CacheKey(t, v, q) == [tenant |-> t, ver |-> v, query |-> q]

(* The changes of a tenant that an INCR has announced.                     *)
Announced(t) == IF t \in owed THEN applied[t] - 1 ELSE applied[t]

(* What a request carries.  "floor" and "seen" are yardsticks only: what   *)
(* was visible at the tenant's last INCR, and what of the changes announced*)
(* by then was visible when the request began.                             *)
Request(t, q, k) ==
    [phase |-> "get", tenant |-> t, query |-> q, key |-> k,
     floor |-> floor[t],
     seen |-> IF Announced(t) < visible[t] THEN Announced(t) ELSE visible[t],
     value |-> [tenant |-> t, query |-> q, view |-> -1], age |-> 0]

(* An entry read from L1 is left as it is.                                 *)
AfterHit(p, k) == l1

(* GET inv:{tenant}, then _l1_get, which drops the key when it has expired.*)
Ask(w) ==
    /\ req[w].phase \in {"idle", "answered"}
    /\ \E t \in Tenants, q \in Queries :
          LET p == ProcessOf[w]
              k == CacheKey(t, inv[t], q)
              r == Request(t, q, k)
          IN  \/ /\ k \in DOMAIN l1[p] => l1[p][k].left = 0
                 /\ req' = [req EXCEPT ![w] = r]
                 /\ l1' = [l1 EXCEPT ![p] = Without(@, k)]
              \/ /\ k \in DOMAIN l1[p] /\ l1[p][k].left > 0
                 /\ req' = [req EXCEPT ![w] =
                       [r EXCEPT !.phase = "answered", !.value = l1[p][k].value,
                                 !.age = l1[p][k].age]]
                 /\ l1' = AfterHit(p, k)
    /\ UNCHANGED <<indexVars, redisVars>>

(* GET of the key: a hit goes on to L1, a miss to Elasticsearch.           *)
GetL2(w) ==
    LET r == req[w]
    IN  /\ r.phase = "get"
        /\ req' = [req EXCEPT ![w] =
              IF r.key \in DOMAIN l2
                THEN [r EXCEPT !.phase = "trim", !.value = l2[r.key].value,
                               !.age = l2[r.key].age]
                ELSE [r EXCEPT !.phase = "search"]]
        /\ UNCHANGED <<indexVars, redisVars, l1>>

(* search_index.search: the tenant's documents, as of the last refresh.    *)
Search(w) ==
    LET r == req[w]
    IN  /\ r.phase = "search"
        /\ req' = [req EXCEPT ![w].phase = "setex", ![w].value =
              [tenant |-> r.tenant, query |-> r.query, view |-> visible[r.tenant]]]
        /\ UNCHANGED <<indexVars, redisVars, l1>>

(* The key the request computed when it began.                             *)
StoreKey(w) == req[w].key

StoredIn(w) == With(l2, StoreKey(w), [value |-> req[w].value, age |-> 0])

Setex(w) ==
    /\ req[w].phase = "setex"
    /\ l2' = StoredIn(w)
    /\ req' = [req EXCEPT ![w].phase = "trim", ![w].key = StoreKey(w)]
    /\ UNCHANGED <<indexVars, inv, floor, losses, l1>>

(* _l1_put: first the check of the size...                                 *)
Trimmed(p) ==
    IF Cardinality(DOMAIN l1[p]) > L1Size THEN [l1 EXCEPT ![p] = Empty] ELSE l1

Trim(w) ==
    /\ req[w].phase = "trim"
    /\ l1' = Trimmed(ProcessOf[w])
    /\ req' = [req EXCEPT ![w].phase = "put"]
    /\ UNCHANGED <<indexVars, redisVars>>

(* ...then the entry; another thread of the process may come between.      *)
Put(w) ==
    LET r == req[w]
        entry == [value |-> r.value, age |-> r.age, left |-> L1TTL + 1]
    IN  /\ r.phase = "put"
        /\ l1' = [l1 EXCEPT ![ProcessOf[w]] = With(@, r.key, entry)]
        /\ req' = [req EXCEPT ![w].phase = "answered"]
        /\ UNCHANGED <<indexVars, redisVars>>

(* Redis or Elasticsearch raises, the caller gets a 500; SETEX may have    *)
(* landed all the same.                                                    *)
RequestRaises(w) ==
    /\ req[w].phase \in {"get", "search", "setex"}
    /\ \/ UNCHANGED l2
       \/ req[w].phase = "setex" /\ l2' = StoredIn(w)
    /\ req' = [req EXCEPT ![w] = NoRequest]
    /\ UNCHANGED <<indexVars, inv, floor, losses, l1>>

-----------------------------------------------------------------------------
(* The indexer, as far as searches can tell: it changes the index, then    *)
(* increments the version (consumer._index, _delete, _invalidate).         *)

ChangeIndex(t) ==
    /\ t \notin owed
    /\ SumFunction(applied) < MaxChanges
    /\ applied' = [applied EXCEPT ![t] = @ + 1]
    /\ owed' = owed \cup {t}
    /\ UNCHANGED <<visible, redisVars, l1, req>>

Invalidate(t) ==
    /\ t \in owed
    /\ owed' = owed \ {t}
    /\ inv' = [inv EXCEPT ![t] = @ + 1]
    /\ floor' = [floor EXCEPT ![t] = visible[t]]
    /\ UNCHANGED <<applied, visible, l2, losses, l1, req>>

-----------------------------------------------------------------------------
(* Elasticsearch makes what it accepted searchable, about once a second.   *)
Refresh(t) ==
    /\ visible[t] < applied[t]
    /\ visible' = [visible EXCEPT ![t] = applied[t]]
    /\ UNCHANGED <<applied, owed, redisVars, l1, req>>

(* Redis comes back empty: it has no volume (docker-compose.yml).          *)
RedisLost ==
    /\ losses < MaxLosses
    /\ losses' = losses + 1
    /\ inv' = [t \in Tenants |-> 0]
    /\ l2' = Empty
    /\ UNCHANGED <<indexVars, floor, l1, req>>

Later(e) ==
    [e EXCEPT !.age = IF e.left > 1 THEN @ + 1 ELSE 0,
              !.left = IF @ > 0 THEN @ - 1 ELSE 0]

(* Redis drops an entry once its TTL has passed.                           *)
Remaining == {k \in DOMAIN l2 : l2[k].age + 1 < L2TTL}

(* Time passes, but not within the few local instructions of _l1_put.      *)
Tick ==
    /\ \A w \in Threads : req[w].phase \notin {"trim", "put"}
    /\ l2' = [k \in Remaining |-> [l2[k] EXCEPT !.age = @ + 1]]
    /\ l1' = [p \in Processes |-> [k \in DOMAIN l1[p] |-> Later(l1[p][k])]]
    /\ UNCHANGED <<indexVars, inv, floor, losses, req>>

Next ==
    \/ \E w \in Threads : \/ Ask(w) \/ GetL2(w) \/ Search(w) \/ Setex(w)
                          \/ Trim(w) \/ Put(w) \/ RequestRaises(w)
    \/ \E t \in Tenants : ChangeIndex(t) \/ Invalidate(t) \/ Refresh(t)
    \/ RedisLost
    \/ Tick

Spec == Init /\ [][Next]_cacheVars

-----------------------------------------------------------------------------
Done == {req[w] : w \in {v \in Threads : req[v].phase = "answered"}}

(* Every answer, cached or not, is the answer to the question asked, for   *)
(* the tenant that asked: the cache key has everything that changes the    *)
(* answer (_cache_key).                                                    *)
AnswersTheQuestion ==
    \A r \in Done : r.value.tenant = r.tenant /\ r.value.query = r.query

(* "every later key is built at :8: and every :7: key is unreachable"      *)
(* (DESIGN.md, _invalidate): no request that begins after an INCR gets an  *)
(* answer older than what was searchable at that INCR, whoever computed    *)
(* it, however long it took to store it; only a Redis that lost its        *)
(* counters may break this.                                                *)
InvalidationHolds ==
    losses = 0 => \A r \in Done : r.value.view >= r.floor

(* What limits staleness when the version does not: no answer left Redis's *)
(* writer more than both TTLs ago, whatever path of hits it took.          *)
AgeBounded == \A r \in Done : r.age <= L1TTL + L2TTL

(* "up to five seconds of cache staleness" (DESIGN.md): an answer that     *)
(* misses a searchable, announced change is no older than an L1 entry gets.*)
StaleFiveSeconds ==
    losses = 0 => \A r \in Done : r.value.view >= r.seen \/ r.age <= L1TTL

(* The dictionary of a process is bounded: by the limit of _l1_put and the *)
(* threads that passed its check together.                                 *)
L1Bounded ==
    \A p \in Processes :
        Cardinality(DOMAIN l1[p])
          <= L1Size + Cardinality({w \in Threads : ProcessOf[w] = p})
=============================================================================
