------------------------- MODULE SearchCache_proofs -------------------------
(***************************************************************************)
(* What the two caches of a search promise, for every number of tenants,   *)
(* processes and threads and for all TTLs and sizes.                       *)
(***************************************************************************)
EXTENDS SearchCache, FiniteSetTheorems, TLAPS

-----------------------------------------------------------------------------
(* The type invariant, with what a request carries in each phase.          *)

Active == Phases \ {"idle"}

(* Phases in which a request has an answer.                                *)
Carrying == {"setex", "trim", "put", "answered"}

RequestType ==
    [phase : Active, tenant : Tenants, query : Queries, key : Key,
     floor : Nat, seen : Int,
     value : [tenant : Tenants, query : Queries, view : Int], age : Nat]

RequestsOK ==
    /\ req \in [Threads -> RequestType \cup {NoRequest}]
    /\ \A w \in Threads :
          /\ req[w].phase # "idle" =>
                req[w].key.tenant = req[w].tenant /\ req[w].key.query = req[w].query
          /\ req[w].phase \in Carrying => req[w].value \in Value

TypeInv == TypeOK /\ DOMAIN l1 = Processes /\ RequestsOK

LEMMA InitTypeInv == Init => TypeInv
<1> SUFFICES ASSUME Init PROVE TypeInv
  OBVIOUS
<1>1. TypeOK
  BY DEF Init, TypeOK, Empty, NoRequest, Phases
<1>2. DOMAIN l1 = Processes /\ RequestsOK
  BY DEF Init, RequestsOK, NoRequest, Carrying
<1> QED
  BY <1>1, <1>2 DEF TypeInv

(* A request in any phase but "idle" is a record with everything in it.    *)
LEMMA RequestFacts ==
    ASSUME TypeInv, NEW w \in Threads, req[w].phase # "idle"
    PROVE  /\ req[w] \in RequestType
           /\ req[w].tenant \in Tenants /\ req[w].query \in Queries
           /\ req[w].key \in Key
           /\ req[w].key.tenant = req[w].tenant
           /\ req[w].key.query = req[w].query
           /\ req[w].age \in Nat
           /\ req[w].phase \in Carrying => req[w].value \in Value
<1>1. req[w] \in RequestType
  BY DEF TypeInv, RequestsOK, NoRequest
<1> QED
  BY <1>1 DEF TypeInv, RequestsOK, RequestType

(* What _l1_get does to the dictionary, and what it leaves in the request. *)
LEMMA AskShape ==
    ASSUME TypeInv, NEW w \in Threads, Ask(w)
    PROVE  \E t \in Tenants, q \in Queries :
              LET k == CacheKey(t, inv[t], q)
                  p == ProcessOf[w]
              IN  /\ k \in Key /\ p \in Processes
                  /\ k.tenant = t /\ k.query = q /\ k.ver = inv[t]
                  /\ req' = [req EXCEPT ![w] = req'[w]]
                  /\ req'[w] \in RequestType
                  /\ req'[w].tenant = t /\ req'[w].query = q /\ req'[w].key = k
                  /\ req'[w].floor = floor[t]
                  /\ \/ /\ req'[w].phase = "get" /\ req'[w].age = 0
                        /\ l1' = [l1 EXCEPT ![p] = Without(@, k)]
                     \/ /\ req'[w].phase = "answered"
                        /\ k \in DOMAIN l1[p] /\ l1[p][k].left > 0
                        /\ req'[w].value = l1[p][k].value
                        /\ req'[w].value \in Value
                        /\ req'[w].age = l1[p][k].age
                        /\ l1' = l1
<1>1. PICK t \in Tenants, q \in Queries :
          LET p == ProcessOf[w]
              k == CacheKey(t, inv[t], q)
              r == Request(t, q, k)
          IN  \/ /\ k \in DOMAIN l1[p] => l1[p][k].left = 0
                 /\ req' = [req EXCEPT ![w] = r]
                 /\ l1' = [l1 EXCEPT ![p] = Without(@, k)]
              \/ /\ k \in DOMAIN l1[p] /\ l1[p][k].left > 0
                 /\ req' = [req EXCEPT ![w] =
                       [r EXCEPT !.phase = "answered", !.value = l1[p][k].value,
                                 !.age = l1[p][k].age]]
                 /\ l1' = AfterHit(p, k)
  BY DEF Ask
<1> DEFINE p == ProcessOf[w]
           k == CacheKey(t, inv[t], q)
           r == Request(t, q, k)
           hit == [r EXCEPT !.phase = "answered", !.value = l1[p][k].value,
                            !.age = l1[p][k].age]
<1>2. p \in Processes
  BY ThreadAssumption
<1>3. k \in Key /\ k.tenant = t /\ k.query = q /\ k.ver = inv[t]
  BY DEF TypeInv, TypeOK, CacheKey, Key
<1>4. DOMAIN req = Threads
  BY DEF TypeInv, RequestsOK
<1>5. Announced(t) \in Int /\ visible[t] \in Int /\ floor[t] \in Nat
  BY DEF TypeInv, TypeOK, Announced
<1> HIDE DEF k, p
<1>6. /\ r \in RequestType /\ r.phase = "get" /\ r.age = 0
      /\ r.tenant = t /\ r.query = q /\ r.key = k /\ r.floor = floor[t]
  BY <1>3, <1>5 DEF Request, RequestType, Active, Phases
<1>7. CASE /\ req' = [req EXCEPT ![w] = r]
           /\ l1' = [l1 EXCEPT ![p] = Without(@, k)]
  <2>1. req'[w] = r
    BY <1>4, <1>7
  <2> QED
    BY <1>2, <1>3, <1>6, <1>7, <2>1 DEF k, p
<1>8. CASE /\ k \in DOMAIN l1[p] /\ l1[p][k].left > 0
           /\ req' = [req EXCEPT ![w] = hit]
           /\ l1' = AfterHit(p, k)
  <2>1. req'[w] = hit /\ l1' = l1
    BY <1>4, <1>8 DEF AfterHit
  <2>2. l1[p][k] \in L1Entry
    BY <1>2, <1>8 DEF TypeInv, TypeOK
  <2>3. l1[p][k].value \in Value /\ l1[p][k].age \in Nat
    BY <2>2 DEF L1Entry
  <2>4. l1[p][k].value \in [tenant : Tenants, query : Queries, view : Int]
    BY <2>3 DEF Value
  <2>5. /\ hit \in RequestType
        /\ hit.phase = "answered" /\ hit.tenant = t /\ hit.query = q /\ hit.key = k
        /\ hit.floor = floor[t] /\ hit.value = l1[p][k].value
        /\ hit.age = l1[p][k].age
    BY <1>6, <2>3, <2>4 DEF RequestType, Active, Phases
  <2> HIDE DEF hit
  <2> QED
    BY <1>2, <1>3, <1>8, <2>1, <2>3, <2>5 DEF k, p
<1> QED
  BY <1>1, <1>7, <1>8 DEF k, p

(* One thread's request changes, to another one of the right type.         *)
LEMMA RequestChanges ==
    ASSUME TypeInv, NEW w \in Threads, NEW r \in RequestType,
           r.key.tenant = r.tenant, r.key.query = r.query,
           r.phase \in Carrying => r.value \in Value,
           req' = [req EXCEPT ![w] = r]
    PROVE  RequestsOK'
<1>1. req \in [Threads -> RequestType \cup {NoRequest}]
  BY DEF TypeInv, RequestsOK
<1>2. req' \in [Threads -> RequestType \cup {NoRequest}]
  BY <1>1
<1>3. \A v \in Threads : req'[v] = IF v = w THEN r ELSE req[v]
  BY <1>1
<1> QED
  BY <1>2, <1>3 DEF TypeInv, RequestsOK

LEMMA AskKeepsTypeInv ==
    ASSUME TypeInv, NEW w \in Threads, Ask(w)
    PROVE  TypeInv'
<1>1. PICK t \in Tenants, q \in Queries :
          LET k == CacheKey(t, inv[t], q)
              p == ProcessOf[w]
          IN  /\ k \in Key /\ p \in Processes
              /\ k.tenant = t /\ k.query = q /\ k.ver = inv[t]
              /\ req' = [req EXCEPT ![w] = req'[w]]
              /\ req'[w] \in RequestType
              /\ req'[w].tenant = t /\ req'[w].query = q /\ req'[w].key = k
              /\ req'[w].floor = floor[t]
              /\ \/ /\ req'[w].phase = "get" /\ req'[w].age = 0
                    /\ l1' = [l1 EXCEPT ![p] = Without(@, k)]
                 \/ /\ req'[w].phase = "answered"
                    /\ k \in DOMAIN l1[p] /\ l1[p][k].left > 0
                    /\ req'[w].value = l1[p][k].value
                    /\ req'[w].value \in Value
                    /\ req'[w].age = l1[p][k].age
                    /\ l1' = l1
  BY AskShape
<1> DEFINE k == CacheKey(t, inv[t], q)
           p == ProcessOf[w]
<1>2. UNCHANGED <<indexVars, redisVars>>
  BY DEF Ask
<1>3. RequestsOK'
  <2>1. req'[w].phase \in Carrying => req'[w].value \in Value
    BY <1>1 DEF Carrying
  <2> QED
    BY <1>1, <2>1, RequestChanges
<1>4. /\ DOMAIN l1' = Processes
      /\ \A x \in Processes :
            /\ DOMAIN l1'[x] \subseteq DOMAIN l1[x]
            /\ \A j \in DOMAIN l1'[x] : l1'[x][j] = l1[x][j]
  <2> HIDE DEF k, p
  <2>1. p \in Processes
    BY <1>1 DEF k, p
  <2>2. CASE l1' = [l1 EXCEPT ![p] = Without(@, k)]
    BY <2>1, <2>2 DEF TypeInv, Without
  <2>3. CASE l1' = l1
    BY <2>3 DEF TypeInv
  <2> QED
    BY <1>1, <2>2, <2>3 DEF k, p
<1>5. TypeOK'
  <2>1. \A x \in Processes :
           DOMAIN l1'[x] \subseteq Key /\ \A j \in DOMAIN l1'[x] : l1'[x][j] \in L1Entry
    BY <1>4 DEF TypeInv, TypeOK
  <2>2. \A v \in Threads : req'[v].phase \in Phases
    BY <1>3 DEF RequestsOK, RequestType, NoRequest, Active, Phases
  <2> QED
    BY <1>2, <2>1, <2>2 DEF TypeInv, TypeOK, indexVars, redisVars
<1> QED
  BY <1>3, <1>4, <1>5 DEF TypeInv

(* The calls of a request that has begun: what they do to the request.     *)
LEMMA CallShape ==
    ASSUME TypeInv, NEW w \in Threads,
           \/ GetL2(w) \/ Search(w) \/ Setex(w) \/ Trim(w) \/ Put(w)
    PROVE  /\ req[w].phase \in Active
           /\ req' = [req EXCEPT ![w] = req'[w]]
           /\ req'[w] \in RequestType
           /\ req'[w].tenant = req[w].tenant /\ req'[w].query = req[w].query
           /\ req'[w].key = req[w].key /\ req'[w].floor = req[w].floor
           /\ req'[w].phase \in Carrying => req'[w].value \in Value
<1>1. req \in [Threads -> RequestType \cup {NoRequest}]
  BY DEF TypeInv, RequestsOK
<1> DEFINE r == req[w]
<1>2. CASE GetL2(w)
  <2>1. r \in RequestType /\ r.phase = "get"
    BY <1>2, RequestFacts DEF GetL2
  <2>2. CASE r.key \in DOMAIN l2
    <3> DEFINE e == l2[r.key]
    <3>1. e.value \in Value /\ e.age \in Nat
      BY <2>2, TTLAssumption DEF TypeInv, TypeOK, L2Entry
    <3>2. e.value \in [tenant : Tenants, query : Queries, view : Int]
      BY <3>1 DEF Value
    <3>3. req' = [req EXCEPT ![w] =
                    [r EXCEPT !.phase = "trim", !.value = e.value, !.age = e.age]]
      BY <1>2, <2>2 DEF GetL2
    <3> DEFINE n == [r EXCEPT !.phase = "trim", !.value = e.value, !.age = e.age]
    <3> HIDE DEF e, r
    <3>4. /\ n \in RequestType /\ n.value = e.value
          /\ n.tenant = r.tenant /\ n.query = r.query /\ n.key = r.key
          /\ n.floor = r.floor
      BY <2>1, <3>1, <3>2 DEF RequestType, Active, Phases
    <3> HIDE DEF n
    <3>5. req'[w] = n
      BY <1>1, <3>3 DEF n
    <3> QED
      BY <2>1, <3>1, <3>3, <3>4, <3>5 DEF r, n, Active, Phases
  <2>3. CASE r.key \notin DOMAIN l2
    <3>1. req' = [req EXCEPT ![w] = [r EXCEPT !.phase = "search"]]
      BY <1>2, <2>3 DEF GetL2
    <3> DEFINE n == [r EXCEPT !.phase = "search"]
    <3> HIDE DEF r
    <3>2. /\ n \in RequestType /\ n.phase = "search"
          /\ n.tenant = r.tenant /\ n.query = r.query /\ n.key = r.key
          /\ n.floor = r.floor
      BY <2>1 DEF RequestType, Active, Phases
    <3> HIDE DEF n
    <3>3. req'[w] = n
      BY <1>1, <3>1 DEF n
    <3> QED
      BY <2>1, <3>1, <3>2, <3>3 DEF r, n, Active, Phases, Carrying
  <2> QED
    BY <2>2, <2>3
<1>3. CASE Search(w)
  <2>1. r \in RequestType /\ r.phase = "search"
    BY <1>3, RequestFacts DEF Search
  <2> DEFINE x == [tenant |-> r.tenant, query |-> r.query, view |-> visible[r.tenant]]
  <2>2. x \in Value /\ x \in [tenant : Tenants, query : Queries, view : Int]
    BY <2>1 DEF Value, RequestType, TypeInv, TypeOK
  <2>3. req' = [req EXCEPT ![w].phase = "setex", ![w].value = x]
    BY <1>3 DEF Search
  <2> HIDE DEF x
  <2>4. req'[w] = [r EXCEPT !.phase = "setex", !.value = x]
    BY <1>1, <2>3
  <2>5. req' = [req EXCEPT ![w] = req'[w]]
    BY <1>1, <2>3, <2>4
  <2> QED
    BY <2>1, <2>2, <2>4, <2>5 DEF RequestType, Active, Phases
<1>4. CASE Setex(w)
  <2>1. r \in RequestType /\ r.phase = "setex" /\ r.value \in Value
    BY <1>4, RequestFacts DEF Setex, Carrying
  <2>2. req' = [req EXCEPT ![w].phase = "trim", ![w].key = r.key]
    BY <1>4 DEF Setex, StoreKey
  <2>3. req'[w] = [r EXCEPT !.phase = "trim", !.key = r.key]
    BY <1>1, <2>2
  <2>4. req' = [req EXCEPT ![w] = req'[w]]
    BY <1>1, <2>2, <2>3
  <2> QED
    BY <2>1, <2>3, <2>4 DEF RequestType, Active, Phases
<1>5. CASE Trim(w) \/ Put(w)
  <2>1. r \in RequestType /\ r.phase \in Active /\ r.value \in Value
    BY <1>5, RequestFacts DEF Trim, Put, Carrying, Active, Phases
  <2>2. PICK s \in {"put", "answered"} : req' = [req EXCEPT ![w].phase = s]
    BY <1>5 DEF Trim, Put
  <2>3. req'[w] = [r EXCEPT !.phase = s]
    BY <1>1, <2>2
  <2>4. req' = [req EXCEPT ![w] = req'[w]]
    BY <1>1, <2>2, <2>3
  <2> QED
    BY <2>1, <2>2, <2>3, <2>4 DEF RequestType, Active, Phases
<1> QED
  BY <1>2, <1>3, <1>4, <1>5 DEF GetL2, Active, Phases

LEMMA CallKeepsTypeInv ==
    ASSUME TypeInv, NEW w \in Threads,
           \/ GetL2(w) \/ Search(w) \/ Setex(w) \/ Trim(w) \/ Put(w)
    PROVE  TypeInv'
<1>1. /\ req[w].phase \in Active
      /\ req' = [req EXCEPT ![w] = req'[w]]
      /\ req'[w] \in RequestType
      /\ req'[w].tenant = req[w].tenant /\ req'[w].query = req[w].query
      /\ req'[w].key = req[w].key
      /\ req'[w].phase \in Carrying => req'[w].value \in Value
  BY CallShape
<1>2. RequestsOK'
  BY <1>1, RequestChanges, RequestFacts DEF Active
<1>3. /\ UNCHANGED indexVars /\ UNCHANGED <<inv, floor, losses>>
  BY DEF GetL2, Search, Setex, Trim, Put, redisVars
<1>4. DOMAIN l2' \subseteq Key /\ \A k \in DOMAIN l2' : l2'[k] \in L2Entry
  <2>1. CASE UNCHANGED l2
    BY <2>1 DEF TypeInv, TypeOK
  <2>2. CASE Setex(w)
    <3> DEFINE e == [value |-> req[w].value, age |-> 0]
    <3>1. req[w].value \in Value /\ req[w].key \in Key
      BY <2>2, RequestFacts DEF Setex, Carrying
    <3>2. e \in L2Entry
      BY <3>1, TTLAssumption DEF L2Entry
    <3>3. l2' = With(l2, req[w].key, e)
      BY <2>2 DEF Setex, StoredIn, StoreKey
    <3> HIDE DEF e
    <3> QED
      BY <3>1, <3>2, <3>3 DEF With, TypeInv, TypeOK
  <2> QED
    BY <2>1, <2>2 DEF GetL2, Search, Trim, Put, redisVars
<1>5. /\ DOMAIN l1' = Processes
      /\ \A p \in Processes :
            DOMAIN l1'[p] \subseteq Key /\ \A k \in DOMAIN l1'[p] : l1'[p][k] \in L1Entry
  <2>1. CASE UNCHANGED l1
    BY <2>1 DEF TypeInv, TypeOK
  <2>2. CASE Trim(w)
    BY <2>2 DEF Trim, Trimmed, Empty, TypeInv, TypeOK
  <2>3. CASE Put(w)
    <3> DEFINE e == [value |-> req[w].value, age |-> req[w].age, left |-> L1TTL + 1]
               p == ProcessOf[w]
               k == req[w].key
    <3>1. /\ req[w].value \in Value /\ k \in Key
          /\ req[w].age \in Nat /\ p \in Processes
      BY <2>3, RequestFacts, ThreadAssumption DEF Put, Carrying
    <3>2. e \in L1Entry
      BY <3>1, TTLAssumption DEF L1Entry
    <3>3. l1' = [l1 EXCEPT ![p] = With(@, k, e)]
      BY <2>3 DEF Put
    <3> HIDE DEF e, p, k
    <3>4. \A x \in Processes : l1'[x] = IF x = p THEN With(l1[p], k, e) ELSE l1[x]
      BY <3>1, <3>3 DEF TypeInv
    <3>5. DOMAIN l1' = Processes
      BY <3>3 DEF TypeInv
    <3> QED
      BY <3>1, <3>2, <3>4, <3>5 DEF With, TypeInv, TypeOK
  <2> QED
    BY <2>1, <2>2, <2>3 DEF GetL2, Search, Setex
<1>6. \A v \in Threads : req'[v].phase \in Phases
  BY <1>2 DEF RequestsOK, RequestType, NoRequest, Active, Phases
<1> QED
  BY <1>2, <1>3, <1>4, <1>5, <1>6 DEF TypeInv, TypeOK, indexVars

LEMMA RaiseKeepsTypeInv ==
    ASSUME TypeInv, NEW w \in Threads, RequestRaises(w)
    PROVE  TypeInv'
<1>1. req' = [req EXCEPT ![w] = NoRequest]
  BY DEF RequestRaises
<1>2. RequestsOK'
  <2>1. req \in [Threads -> RequestType \cup {NoRequest}]
    BY DEF TypeInv, RequestsOK
  <2>2. req' \in [Threads -> RequestType \cup {NoRequest}]
    BY <1>1, <2>1
  <2>3. \A v \in Threads : req'[v] = IF v = w THEN NoRequest ELSE req[v]
    BY <1>1, <2>1
  <2>4. NoRequest.phase = "idle"
    BY DEF NoRequest
  <2> QED
    BY <2>2, <2>3, <2>4 DEF TypeInv, RequestsOK, Carrying
<1>3. UNCHANGED <<applied, visible, owed, inv, floor, losses, l1>>
  BY DEF RequestRaises, indexVars
<1>4. DOMAIN l2' \subseteq Key /\ \A k \in DOMAIN l2' : l2'[k] \in L2Entry
  <2>1. CASE UNCHANGED l2
    BY <2>1 DEF TypeInv, TypeOK
  <2>2. CASE req[w].phase = "setex" /\ l2' = StoredIn(w)
    <3> DEFINE e == [value |-> req[w].value, age |-> 0]
    <3>1. req[w].value \in Value /\ req[w].key \in Key
      BY <2>2, RequestFacts DEF Carrying
    <3>2. e \in L2Entry
      BY <3>1, TTLAssumption DEF L2Entry
    <3>3. l2' = With(l2, req[w].key, e)
      BY <2>2 DEF StoredIn, StoreKey
    <3> HIDE DEF e
    <3> QED
      BY <3>1, <3>2, <3>3 DEF With, TypeInv, TypeOK
  <2> QED
    BY <2>1, <2>2 DEF RequestRaises
<1>5. \A v \in Threads : req'[v].phase \in Phases
  BY <1>2 DEF RequestsOK, RequestType, NoRequest, Active, Phases
<1> QED
  BY <1>2, <1>3, <1>4, <1>5 DEF TypeInv, TypeOK

LEMMA IndexerKeepsTypeInv ==
    ASSUME TypeInv, NEW t \in Tenants,
           ChangeIndex(t) \/ Invalidate(t) \/ Refresh(t)
    PROVE  TypeInv'
<1>1. UNCHANGED <<l2, l1, req, losses>>
  BY DEF ChangeIndex, Invalidate, Refresh, redisVars
<1>2. DOMAIN l1' = Processes /\ RequestsOK'
  BY <1>1 DEF TypeInv, RequestsOK
<1>3. CASE ChangeIndex(t)
  BY <1>1, <1>2, <1>3 DEF ChangeIndex, TypeInv, TypeOK, redisVars
<1>4. CASE Invalidate(t)
  BY <1>1, <1>2, <1>4 DEF Invalidate, TypeInv, TypeOK
<1>5. CASE Refresh(t)
  BY <1>1, <1>2, <1>5 DEF Refresh, TypeInv, TypeOK, redisVars
<1> QED
  BY <1>3, <1>4, <1>5

(* What time does to an entry of L1.                                       *)
LEMMA LaterFacts ==
    ASSUME NEW e \in L1Entry
    PROVE  /\ Later(e) \in L1Entry
           /\ Later(e).value = e.value
           /\ Later(e).left > 0 =>
                 e.left > 1 /\ Later(e).left = e.left - 1 /\ Later(e).age = e.age + 1
<1> DEFINE a == IF e.left > 1 THEN e.age + 1 ELSE 0
           b == IF e.left > 0 THEN e.left - 1 ELSE 0
<1>1. e.left \in 0 .. L1TTL + 1 /\ e.age \in Nat /\ L1TTL \in Nat
  BY TTLAssumption DEF L1Entry
<1>2. a \in Nat /\ b \in 0 .. L1TTL + 1
  BY <1>1
<1>3. Later(e) = [e EXCEPT !.age = a, !.left = b]
  BY DEF Later, L1Entry
<1>4. b > 0 => e.left > 1 /\ b = e.left - 1 /\ a = e.age + 1
  BY <1>1
<1> HIDE DEF a, b
<1> QED
  BY <1>2, <1>3, <1>4 DEF L1Entry

LEMMA TickKeepsTypeInv ==
    ASSUME TypeInv, Tick
    PROVE  TypeInv'
<1>1. UNCHANGED <<applied, visible, owed, inv, floor, losses, req>>
  BY DEF Tick, indexVars
<1>2. RequestsOK'
  BY <1>1 DEF TypeInv, RequestsOK
<1>3. DOMAIN l2' \subseteq Key /\ \A k \in DOMAIN l2' : l2'[k] \in L2Entry
  <2>1. l2' = [k \in Remaining |-> [l2[k] EXCEPT !.age = @ + 1]]
    BY DEF Tick
  <2>2. ASSUME NEW k \in Remaining
        PROVE  k \in Key /\ [l2[k] EXCEPT !.age = @ + 1] \in L2Entry
    <3>1. k \in Key /\ l2[k] \in L2Entry /\ l2[k].age + 1 < L2TTL
      BY <2>2 DEF Remaining, TypeInv, TypeOK
    <3> QED
      BY <3>1, TTLAssumption DEF L2Entry
  <2> QED
    BY <2>1, <2>2
<1>4. /\ DOMAIN l1' = Processes
      /\ \A p \in Processes :
            DOMAIN l1'[p] \subseteq Key /\ \A k \in DOMAIN l1'[p] : l1'[p][k] \in L1Entry
  BY LaterFacts DEF Tick, TypeInv, TypeOK
<1> QED
  BY <1>1, <1>2, <1>3, <1>4 DEF TypeInv, TypeOK

LEMMA NextKeepsTypeInv ==
    ASSUME TypeInv, [Next]_cacheVars
    PROVE  TypeInv'
<1>1. CASE UNCHANGED cacheVars
  BY <1>1 DEF cacheVars, indexVars, redisVars, TypeInv, TypeOK, RequestsOK
<1>2. CASE RedisLost
  BY <1>2 DEF RedisLost, indexVars, Empty, TypeInv, TypeOK, RequestsOK
<1> QED
  BY <1>1, <1>2, AskKeepsTypeInv, CallKeepsTypeInv, RaiseKeepsTypeInv,
     IndexerKeepsTypeInv, TickKeepsTypeInv DEF Next

(* Every state is well typed.                                              *)
THEOREM Typing == Spec => []TypeOK
<1>1. TypeInv /\ [Next]_cacheVars => TypeInv'
  BY NextKeepsTypeInv
<1>2. TypeInv => TypeOK
  BY DEF TypeInv
<1> QED
  BY InitTypeInv, <1>1, <1>2, PTL DEF Spec

-----------------------------------------------------------------------------
(* Which answers are kept under a key: in Redis, in a process, or by a     *)
(* request that is about to store one or has just returned it.             *)

Kept(k, x) ==
    \/ k \in DOMAIN l2 /\ x = l2[k].value
    \/ \E p \in Processes : k \in DOMAIN l1[p] /\ x = l1[p][k].value
    \/ \E w \in Threads : /\ req[w].phase \in Carrying
                          /\ k = req[w].key /\ x = req[w].value

(* An answer just found: the tenant's documents as they are visible.       *)
Found(k, x) ==
    \E w \in Threads : /\ req[w].phase = "search" /\ k = req[w].key
                       /\ x = [tenant |-> req[w].tenant, query |-> req[w].query,
                                view |-> visible[req[w].tenant]]

LEMMA KeptTypes ==
    ASSUME TypeInv, NEW k, NEW x, Kept(k, x)
    PROVE  k \in Key /\ x \in Value
<1>1. CASE k \in DOMAIN l2 /\ x = l2[k].value
  BY <1>1 DEF TypeInv, TypeOK, L2Entry
<1>2. CASE \E p \in Processes : k \in DOMAIN l1[p] /\ x = l1[p][k].value
  BY <1>2 DEF TypeInv, TypeOK, L1Entry
<1>3. CASE \E w \in Threads : /\ req[w].phase \in Carrying
                              /\ k = req[w].key /\ x = req[w].value
  BY <1>3, RequestFacts DEF Carrying
<1> QED
  BY <1>1, <1>2, <1>3 DEF Kept

(* The caches and the requests only pass answers on: a step keeps what was *)
(* kept under the same key, or what a search has just found.               *)
LEMMA KeptGrows ==
    ASSUME TypeInv, [Next]_cacheVars, NEW k, NEW x, Kept(k, x)'
    PROVE  Kept(k, x) \/ Found(k, x)
<1>0. req \in [Threads -> RequestType \cup {NoRequest}] /\ DOMAIN l1 = Processes
  BY DEF TypeInv, RequestsOK
<1>1. CASE k \in DOMAIN l2' /\ x = l2'[k].value
  <2>1. ASSUME NEW w \in Threads, req[w].phase = "setex", l2' = StoredIn(w)
        PROVE  Kept(k, x)
    BY <1>1, <2>1 DEF StoredIn, StoreKey, With, Kept, Carrying
  <2>2. CASE UNCHANGED l2
    BY <1>1, <2>2 DEF Kept
  <2>3. CASE Tick
    <3>1. l2' = [j \in Remaining |-> [l2[j] EXCEPT !.age = @ + 1]]
      BY <2>3 DEF Tick
    <3>2. k \in DOMAIN l2 /\ l2[k] \in L2Entry
      BY <1>1, <3>1 DEF Remaining, TypeInv, TypeOK
    <3>3. l2'[k].value = l2[k].value
      BY <1>1, <3>1, <3>2 DEF L2Entry
    <3> QED
      BY <1>1, <3>2, <3>3 DEF Kept
  <2>4. CASE RedisLost
    BY <1>1, <2>4 DEF RedisLost, Empty
  <2>5. \/ UNCHANGED l2 \/ Tick \/ RedisLost
        \/ \E w \in Threads : req[w].phase = "setex" /\ l2' = StoredIn(w)
    BY DEF Next, Ask, GetL2, Search, Setex, Trim, Put, RequestRaises,
           ChangeIndex, Invalidate, Refresh, redisVars, cacheVars
  <2> QED
    BY <2>1, <2>2, <2>3, <2>4, <2>5
<1>2. ASSUME NEW p \in Processes, k \in DOMAIN l1'[p], x = l1'[p][k].value
      PROVE  Kept(k, x)
  <2>1. CASE UNCHANGED l1
    BY <1>2, <2>1 DEF Kept
  <2>2. ASSUME NEW w \in Threads, Ask(w)
        PROVE  Kept(k, x)
    <3>1. CASE UNCHANGED l1
      BY <1>2, <3>1 DEF Kept
    <3>2. ASSUME NEW j, l1' = [l1 EXCEPT ![ProcessOf[w]] = Without(@, j)]
          PROVE  Kept(k, x)
      <4> DEFINE c == Without(l1[ProcessOf[w]], j)
      <4>1. l1'[p] = IF p = ProcessOf[w] THEN c ELSE l1[p]
        BY <1>0, <1>2, <3>2
      <4>2. \A i \in DOMAIN c : i \in DOMAIN l1[ProcessOf[w]]
                               /\ c[i] = l1[ProcessOf[w]][i]
        BY DEF Without
      <4> HIDE DEF c
      <4>3. k \in DOMAIN l1[p] /\ l1'[p][k] = l1[p][k]
        BY <1>2, <4>1, <4>2
      <4> QED
        BY <1>2, <4>3 DEF Kept
    <3> QED
      BY <2>2, <3>1, <3>2 DEF Ask, AfterHit
  <2>3. ASSUME NEW w \in Threads, Trim(w)
        PROVE  Kept(k, x)
    BY <1>0, <1>2, <2>3, ThreadAssumption DEF Trim, Trimmed, Empty, Kept
  <2>4. ASSUME NEW w \in Threads, Put(w)
        PROVE  Kept(k, x)
    <3>1. ProcessOf[w] \in Processes
      BY ThreadAssumption
    <3>2. CASE p # ProcessOf[w] \/ k # req[w].key
      BY <1>0, <1>2, <2>4, <3>1, <3>2 DEF Put, With, Kept
    <3>3. CASE p = ProcessOf[w] /\ k = req[w].key
      <4>1. x = req[w].value
        BY <1>0, <1>2, <2>4, <3>1, <3>3 DEF Put, With
      <4> QED
        BY <2>4, <3>3, <4>1 DEF Put, Kept, Carrying
    <3> QED
      BY <3>2, <3>3
  <2>5. CASE Tick
    <3>1. l1' = [q \in Processes |-> [j \in DOMAIN l1[q] |-> Later(l1[q][j])]]
      BY <2>5 DEF Tick
    <3>2. k \in DOMAIN l1[p] /\ x = Later(l1[p][k]).value
      BY <1>2, <3>1
    <3>3. x = l1[p][k].value
      BY <3>2, LaterFacts DEF TypeInv, TypeOK
    <3> QED
      BY <3>2, <3>3 DEF Kept
  <2>6. \/ UNCHANGED l1 \/ Tick
        \/ \E w \in Threads : Ask(w) \/ Trim(w) \/ Put(w)
    BY DEF Next, GetL2, Search, Setex, RequestRaises, RedisLost,
           ChangeIndex, Invalidate, Refresh, cacheVars
  <2> QED
    BY <2>1, <2>2, <2>3, <2>4, <2>5, <2>6
<1>3. ASSUME NEW w \in Threads, req'[w].phase \in Carrying,
             k = req'[w].key, x = req'[w].value
      PROVE  Kept(k, x) \/ Found(k, x)
  <2>1. CASE req'[w] = req[w]
    BY <1>3, <2>1 DEF Kept
  <2>2. CASE Ask(w)
    <3>1. \E p \in Processes : k \in DOMAIN l1[p] /\ x = l1[p][k].value
      BY <1>3, <2>2, AskShape DEF Carrying
    <3> QED
      BY <3>1 DEF Kept
  <2>3. CASE GetL2(w)
    <3> DEFINE e == l2[req[w].key]
    <3>1. req[w] \in RequestType /\ req[w].phase = "get"
      BY <2>3, RequestFacts DEF GetL2
    <3>2. CASE req[w].key \in DOMAIN l2
      <4>1. req'[w] = [req[w] EXCEPT !.phase = "trim", !.value = e.value, !.age = e.age]
        BY <1>0, <2>3, <3>2 DEF GetL2
      <4> HIDE DEF e
      <4>2. req'[w].key = req[w].key /\ req'[w].value = e.value
        BY <3>1, <4>1 DEF RequestType
      <4> QED
        BY <1>3, <3>2, <4>2 DEF Kept, e
    <3>3. CASE req[w].key \notin DOMAIN l2
      <4>1. req'[w] = [req[w] EXCEPT !.phase = "search"]
        BY <1>0, <2>3, <3>3 DEF GetL2
      <4>2. req'[w].phase = "search"
        BY <3>1, <4>1 DEF RequestType
      <4> QED
        BY <1>3, <4>2 DEF Carrying
    <3> QED
      BY <3>2, <3>3
  <2>4. CASE Search(w)
    <3> DEFINE f == [tenant |-> req[w].tenant, query |-> req[w].query,
                     view |-> visible[req[w].tenant]]
    <3>1. req[w] \in RequestType /\ req[w].phase = "search"
      BY <2>4, RequestFacts DEF Search
    <3>2. req' = [req EXCEPT ![w].phase = "setex", ![w].value = f]
      BY <2>4 DEF Search
    <3> HIDE DEF f
    <3>3. req'[w] = [req[w] EXCEPT !.phase = "setex", !.value = f]
      BY <1>0, <3>2
    <3>4. req'[w].key = req[w].key /\ req'[w].value = f
      BY <3>1, <3>3 DEF RequestType
    <3> QED
      BY <1>3, <3>1, <3>4 DEF Found, f
  <2>5. CASE Setex(w) \/ Trim(w) \/ Put(w)
    <3>1. req[w] \in RequestType /\ req[w].phase \in Carrying
      BY <2>5, RequestFacts DEF Setex, Trim, Put, Carrying
    <3>2. \E s \in Active : \/ req' = [req EXCEPT ![w].phase = s, ![w].key = req[w].key]
                            \/ req' = [req EXCEPT ![w].phase = s]
      BY <2>5 DEF Setex, Trim, Put, StoreKey, Active, Phases
    <3>3. req'[w].key = req[w].key /\ req'[w].value = req[w].value
      BY <1>0, <3>1, <3>2 DEF RequestType
    <3> QED
      BY <1>3, <3>1, <3>3 DEF Kept
  <2>6. CASE RequestRaises(w)
    <3>1. req'[w] = NoRequest
      BY <1>0, <2>6 DEF RequestRaises
    <3> QED
      BY <1>3, <3>1 DEF NoRequest, Carrying
  <2>7. \/ req'[w] = req[w] \/ Ask(w) \/ GetL2(w) \/ Search(w) \/ Setex(w)
        \/ Trim(w) \/ Put(w) \/ RequestRaises(w)
    <3>1. ASSUME NEW v \in Threads, v # w,
                 \/ Ask(v) \/ GetL2(v) \/ Search(v) \/ Setex(v)
                 \/ Trim(v) \/ Put(v) \/ RequestRaises(v)
          PROVE  req'[w] = req[w]
      <4>1. \E r : req' = [req EXCEPT ![v] = r]
        BY <3>1, AskShape, CallShape DEF RequestRaises
      <4> QED
        BY <1>0, <3>1, <4>1
    <3>2. \/ UNCHANGED req
          \/ \E v \in Threads : \/ Ask(v) \/ GetL2(v) \/ Search(v) \/ Setex(v)
                                \/ Trim(v) \/ Put(v) \/ RequestRaises(v)
      BY DEF Next, RedisLost, Tick, ChangeIndex, Invalidate, Refresh, cacheVars
    <3> QED
      BY <3>1, <3>2
  <2> QED
    BY <2>1, <2>2, <2>3, <2>4, <2>5, <2>6, <2>7
<1> QED
  BY <1>1, <1>2, <1>3 DEF Kept

-----------------------------------------------------------------------------
(* A request keeps its tenant, its question, its key and its floor.        *)
LEMMA RequestMoves ==
    ASSUME TypeInv, [Next]_cacheVars, NEW w \in Threads, req'[w].phase # "idle"
    PROVE  \/ Ask(w)
           \/ /\ req[w].phase # "idle"
              /\ req'[w].tenant = req[w].tenant /\ req'[w].query = req[w].query
              /\ req'[w].key = req[w].key /\ req'[w].floor = req[w].floor
<1>0. req \in [Threads -> RequestType \cup {NoRequest}]
  BY DEF TypeInv, RequestsOK
<1>1. CASE \/ GetL2(w) \/ Search(w) \/ Setex(w) \/ Trim(w) \/ Put(w)
  BY <1>1, CallShape DEF Active
<1>2. CASE RequestRaises(w)
  <2>1. req'[w] = NoRequest
    BY <1>0, <1>2 DEF RequestRaises
  <2> QED
    BY <2>1 DEF NoRequest
<1>3. ASSUME NEW v \in Threads, v # w,
             \/ Ask(v) \/ GetL2(v) \/ Search(v) \/ Setex(v)
             \/ Trim(v) \/ Put(v) \/ RequestRaises(v)
      PROVE  req'[w] = req[w]
  <2>1. \E r : req' = [req EXCEPT ![v] = r]
    BY <1>3, AskShape, CallShape DEF RequestRaises
  <2> QED
    BY <1>0, <1>3, <2>1
<1>4. \/ UNCHANGED req
      \/ \E v \in Threads : \/ Ask(v) \/ GetL2(v) \/ Search(v) \/ Setex(v)
                            \/ Trim(v) \/ Put(v) \/ RequestRaises(v)
  BY DEF Next, RedisLost, Tick, ChangeIndex, Invalidate, Refresh, cacheVars
<1> QED
  BY <1>1, <1>2, <1>3, <1>4

(* An answered request holds its answer under its key.                     *)
LEMMA AnsweredIsKept ==
    ASSUME TypeInv, NEW r \in Done
    PROVE  \E w \in Threads :
              /\ r = req[w] /\ r.phase = "answered"
              /\ r.key \in Key /\ r.key.tenant = r.tenant /\ r.key.query = r.query
              /\ r.value \in Value
              /\ Kept(r.key, r.value)
<1>1. PICK w \in Threads : r = req[w] /\ req[w].phase = "answered"
  BY DEF Done
<1>2. Kept(r.key, r.value)
  BY <1>1 DEF Kept, Carrying
<1> QED
  BY <1>1, <1>2, RequestFacts DEF Carrying

-----------------------------------------------------------------------------
(* Whatever is kept under a key answers the question in the key.           *)
KeptAnswersItsKey ==
    \A k \in Key, x \in Value :
        Kept(k, x) => x.tenant = k.tenant /\ x.query = k.query

LEMMA NextKeepsAnswers ==
    ASSUME TypeInv, KeptAnswersItsKey, [Next]_cacheVars
    PROVE  KeptAnswersItsKey'
<1> SUFFICES ASSUME NEW k \in Key, NEW x \in Value, Kept(k, x)'
             PROVE  x.tenant = k.tenant /\ x.query = k.query
  BY DEF KeptAnswersItsKey
<1>1. CASE Kept(k, x)
  BY <1>1 DEF KeptAnswersItsKey
<1>2. CASE Found(k, x)
  BY <1>2, RequestFacts DEF Found
<1> QED
  BY <1>1, <1>2, KeptGrows

(* No request is answered with another tenant's documents or another       *)
(* query's, from whichever cache and whatever happened to Redis meanwhile  *)
(* (search.run, _cache_key).                                               *)
THEOREM EveryAnswerFitsItsQuestion == Spec => []AnswersTheQuestion
<1>1. Init => KeptAnswersItsKey
  BY DEF Init, KeptAnswersItsKey, Kept, Empty, NoRequest, Carrying
<1>2. TypeInv /\ [Next]_cacheVars => TypeInv'
  BY NextKeepsTypeInv
<1>3. TypeInv /\ KeptAnswersItsKey /\ [Next]_cacheVars => KeptAnswersItsKey'
  BY NextKeepsAnswers
<1>4. TypeInv /\ KeptAnswersItsKey => AnswersTheQuestion
  BY AnsweredIsKept DEF KeptAnswersItsKey, AnswersTheQuestion
<1> QED
  BY InitTypeInv, <1>1, <1>2, <1>3, <1>4, PTL DEF Spec

-----------------------------------------------------------------------------
(* Why a request that begins after an INCR sees nothing older: its key has *)
(* the version the INCR wrote, and whatever is kept under a tenant's       *)
(* current version was searched for after the INCR that made it.           *)

Yardsticks ==
    /\ \A t \in Tenants : floor[t] <= visible[t]
    /\ \A w \in Threads : req[w].phase # "idle" =>
          /\ req[w].key.ver <= inv[req[w].tenant]
          /\ req[w].floor <= floor[req[w].tenant]

CurrentIsFresh ==
    \A k \in Key, x \in Value : Kept(k, x) =>
        /\ k.ver <= inv[k.tenant]
        /\ k.ver = inv[k.tenant] => x.view >= floor[k.tenant]

WithinReach ==
    \A w \in Threads, x \in Value :
        req[w].phase # "idle" /\ Kept(req[w].key, x) => x.view >= req[w].floor

InvalidationInv == losses = 0 => Yardsticks /\ CurrentIsFresh /\ WithinReach

LEMMA NextKeepsYardsticks ==
    ASSUME TypeInv, Yardsticks, [Next]_cacheVars, losses' = 0
    PROVE  Yardsticks'
<1>1. \A t \in Tenants :
         /\ floor[t] <= visible[t] /\ floor[t] \in Nat /\ inv[t] \in Nat
         /\ visible[t] \in Nat
  BY DEF Yardsticks, TypeInv, TypeOK
<1>2. \A t \in Tenants :
         /\ inv[t] <= inv'[t] /\ floor[t] <= floor'[t] /\ floor'[t] <= visible'[t]
         /\ inv'[t] \in Nat /\ floor'[t] \in Nat
  <2>1. CASE UNCHANGED <<inv, floor, visible>>
    BY <1>1, <2>1
  <2>2. ASSUME NEW u \in Tenants, Invalidate(u)
        PROVE  \A t \in Tenants :
                  /\ inv[t] <= inv'[t] /\ floor[t] <= floor'[t]
                  /\ floor'[t] <= visible'[t]
                  /\ inv'[t] \in Nat /\ floor'[t] \in Nat
    BY <1>1, <2>2 DEF Invalidate, TypeInv, TypeOK
  <2>3. ASSUME NEW u \in Tenants, Refresh(u)
        PROVE  \A t \in Tenants :
                  /\ inv[t] <= inv'[t] /\ floor[t] <= floor'[t]
                  /\ floor'[t] <= visible'[t]
                  /\ inv'[t] \in Nat /\ floor'[t] \in Nat
    BY <1>1, <2>3 DEF Refresh, redisVars, TypeInv, TypeOK
  <2>4. ~RedisLost
    BY DEF RedisLost, TypeInv, TypeOK
  <2> QED
    BY <2>1, <2>2, <2>3, <2>4 DEF Next, Ask, GetL2, Search, Setex, Trim, Put,
       RequestRaises, ChangeIndex, Tick, indexVars, redisVars, cacheVars
<1>3. ASSUME NEW w \in Threads, req'[w].phase # "idle"
      PROVE  req'[w].key.ver <= inv'[req'[w].tenant]
             /\ req'[w].floor <= floor'[req'[w].tenant]
  <2>1. CASE Ask(w)
    BY <1>1, <1>2, <2>1, AskShape
  <2>2. CASE /\ req[w].phase # "idle"
             /\ req'[w].tenant = req[w].tenant
             /\ req'[w].key = req[w].key /\ req'[w].floor = req[w].floor
    <3>1. /\ req[w].key.ver \in Nat /\ req[w].floor \in Nat
          /\ req[w].tenant \in Tenants
      BY <2>2, RequestFacts DEF RequestType, Key
    <3> QED
      BY <1>1, <1>2, <2>2, <3>1 DEF Yardsticks
  <2> QED
    BY <1>3, <2>1, <2>2, RequestMoves
<1> QED
  BY <1>2, <1>3 DEF Yardsticks

(* A search that is finding its answer sees at least the floor.            *)
LEMMA FoundFacts ==
    ASSUME TypeInv, Yardsticks, NEW k, NEW x, Found(k, x)
    PROVE  /\ k \in Key /\ x \in Value /\ k.tenant \in Tenants
           /\ k.ver \in Nat /\ inv[k.tenant] \in Nat /\ floor[k.tenant] \in Nat
           /\ k.ver <= inv[k.tenant]
           /\ x.view >= floor[k.tenant]
<1>1. PICK w \in Threads : /\ req[w].phase = "search" /\ k = req[w].key
                           /\ x = [tenant |-> req[w].tenant, query |-> req[w].query,
                                   view |-> visible[req[w].tenant]]
  BY DEF Found
<1>2. /\ req[w].key \in Key /\ req[w].key.tenant = req[w].tenant
      /\ req[w].tenant \in Tenants /\ req[w].query \in Queries
  BY <1>1, RequestFacts
<1> QED
  BY <1>1, <1>2 DEF Yardsticks, TypeInv, TypeOK, Key, Value

(* After an INCR nothing is kept under the tenant's new version yet.       *)
LEMMA NextKeepsFresh ==
    ASSUME TypeInv, Yardsticks, CurrentIsFresh, [Next]_cacheVars, losses' = 0
    PROVE  CurrentIsFresh'
<1> SUFFICES ASSUME NEW k \in Key, NEW x \in Value, Kept(k, x)'
             PROVE  /\ k.ver <= inv'[k.tenant]
                    /\ k.ver = inv'[k.tenant] => x.view >= floor'[k.tenant]
  BY DEF CurrentIsFresh
<1> DEFINE t == k.tenant
<1>1. /\ t \in Tenants /\ k.ver \in Nat /\ x.view \in Nat
      /\ inv[t] \in Nat /\ floor[t] \in Nat
  BY DEF Key, Value, TypeInv, TypeOK
<1>2. k.ver <= inv[t] /\ (k.ver = inv[t] => x.view >= floor[t])
  <2>1. CASE Kept(k, x)
    BY <2>1 DEF CurrentIsFresh
  <2>2. CASE Found(k, x)
    BY <2>2, FoundFacts
  <2> QED
    BY <2>1, <2>2, KeptGrows
<1>3. \/ inv'[t] = inv[t] /\ floor'[t] = floor[t]
      \/ inv'[t] = inv[t] + 1
  <2>1. CASE UNCHANGED <<inv, floor>>
    BY <2>1
  <2>2. ASSUME NEW u \in Tenants, Invalidate(u)
        PROVE  \/ inv'[t] = inv[t] /\ floor'[t] = floor[t]
               \/ inv'[t] = inv[t] + 1
    BY <1>1, <2>2 DEF Invalidate, TypeInv, TypeOK
  <2>3. ~RedisLost
    BY DEF RedisLost, TypeInv, TypeOK
  <2> QED
    BY <2>1, <2>2, <2>3 DEF Next, Ask, GetL2, Search, Setex, Trim, Put,
       RequestRaises, ChangeIndex, Refresh, Tick, redisVars, cacheVars
<1> HIDE DEF t
<1> QED
  BY <1>1, <1>2, <1>3 DEF t

LEMMA NextKeepsReach ==
    ASSUME TypeInv, Yardsticks, CurrentIsFresh, WithinReach,
           [Next]_cacheVars, losses' = 0
    PROVE  WithinReach'
<1> SUFFICES ASSUME NEW w \in Threads, NEW x \in Value, NEW k \in Key,
                    req'[w].phase # "idle", k = req'[w].key, Kept(k, x)'
             PROVE  x.view >= req'[w].floor
  <2>1. TypeInv'
    BY NextKeepsTypeInv
  <2>2. \A v \in Threads : req'[v].phase # "idle" => req'[v].key \in Key
    BY <2>1, RequestFacts DEF TypeInv, RequestsOK, RequestType, NoRequest
  <2> QED
    BY <2>2 DEF WithinReach, Kept
<1>1. Kept(k, x) \/ Found(k, x)
  BY KeptGrows
<1>2. k.tenant \in Tenants /\ floor[k.tenant] \in Nat /\ x.view \in Nat
  BY DEF Key, Value, TypeInv, TypeOK
<1>3. CASE Ask(w)
  <2>1. k.ver = inv[k.tenant] /\ req'[w].floor = floor[k.tenant]
    BY <1>3, AskShape
  <2>2. CASE Kept(k, x)
    BY <2>1, <2>2 DEF CurrentIsFresh
  <2>3. CASE Found(k, x)
    BY <2>1, <2>3, FoundFacts
  <2> QED
    BY <1>1, <2>2, <2>3
<1>4. CASE /\ req[w].phase # "idle" /\ k = req[w].key
           /\ req'[w].floor = req[w].floor
  <2>1. CASE Kept(k, x)
    BY <1>4, <2>1 DEF WithinReach
  <2>2. CASE Found(k, x)
    <3>1. req[w].floor <= floor[k.tenant] /\ req[w].floor \in Nat
      BY <1>4, RequestFacts DEF Yardsticks, RequestType
    <3> QED
      BY <1>2, <1>4, <2>2, <3>1, FoundFacts
  <2> QED
    BY <1>1, <2>1, <2>2
<1> QED
  BY <1>3, <1>4, RequestMoves

(* While Redis has lost nothing, no request that begins after an INCR is   *)
(* answered with less than what was searchable at that INCR, however long  *)
(* another request took to store its answer (_invalidate, search.run).     *)
THEOREM NoAnswerOlderThanTheVersion == Spec => []InvalidationHolds
<1>1. Init => InvalidationInv
  <2> SUFFICES ASSUME Init PROVE Yardsticks /\ CurrentIsFresh /\ WithinReach
    BY DEF InvalidationInv
  <2> QED
    BY DEF Init, Yardsticks, CurrentIsFresh, WithinReach, Kept, Empty,
           NoRequest, Carrying
<1>2. TypeInv /\ [Next]_cacheVars => TypeInv'
  BY NextKeepsTypeInv
<1>3. TypeInv /\ InvalidationInv /\ [Next]_cacheVars => InvalidationInv'
  <2> SUFFICES ASSUME TypeInv, InvalidationInv, [Next]_cacheVars, losses' = 0
               PROVE  Yardsticks' /\ CurrentIsFresh' /\ WithinReach'
    BY DEF InvalidationInv
  <2>1. losses' = losses \/ RedisLost
    BY DEF Next, Ask, GetL2, Search, Setex, Trim, Put, RequestRaises,
           ChangeIndex, Invalidate, Refresh, Tick, redisVars, cacheVars
  <2>2. losses = 0
    BY <2>1 DEF RedisLost, TypeInv, TypeOK
  <2> QED
    BY <2>2, NextKeepsYardsticks, NextKeepsFresh, NextKeepsReach DEF InvalidationInv
<1>4. TypeInv /\ InvalidationInv => InvalidationHolds
  <2> SUFFICES ASSUME TypeInv, losses = 0, WithinReach, NEW r \in Done
               PROVE  r.value.view >= r.floor
    BY DEF InvalidationInv, InvalidationHolds
  <2> QED
    BY AnsweredIsKept DEF WithinReach
<1> QED
  BY InitTypeInv, <1>1, <1>2, <1>3, <1>4, PTL DEF Spec

-----------------------------------------------------------------------------
(* An entry of L1 that is still good has used of the two TTLs what it has  *)
(* not left; an answer on its way to L1 is younger than Redis lets it get. *)

EntriesYoung ==
    \A p \in Processes : \A k \in DOMAIN l1[p] :
        l1[p][k].left > 0 => l1[p][k].age + l1[p][k].left <= L1TTL + L2TTL

RequestsYoung ==
    \A w \in Threads :
        /\ req[w].phase \notin {"idle", "answered"} => req[w].age <= L2TTL - 1
        /\ req[w].phase = "answered" => req[w].age <= L1TTL + L2TTL

LEMMA NextKeepsEntriesYoung ==
    ASSUME TypeInv, EntriesYoung, RequestsYoung, [Next]_cacheVars
    PROVE  EntriesYoung'
<1> SUFFICES ASSUME NEW p \in Processes, NEW k \in DOMAIN l1'[p], l1'[p][k].left > 0
             PROVE  l1'[p][k].age + l1'[p][k].left <= L1TTL + L2TTL
  BY DEF EntriesYoung
<1>0. DOMAIN l1 = Processes
  BY DEF TypeInv
<1>1. CASE k \in DOMAIN l1[p] /\ l1'[p][k] = l1[p][k]
  BY <1>1 DEF EntriesYoung
<1>2. ASSUME NEW w \in Threads, Put(w), p = ProcessOf[w], k = req[w].key
      PROVE  l1'[p][k].age + l1'[p][k].left <= L1TTL + L2TTL
  <2> DEFINE e == [value |-> req[w].value, age |-> req[w].age, left |-> L1TTL + 1]
  <2>1. l1' = [l1 EXCEPT ![p] = With(@, k, e)]
    BY <1>2 DEF Put
  <2>2. e.age = req[w].age /\ e.left = L1TTL + 1
    OBVIOUS
  <2> HIDE DEF e
  <2>3. l1'[p][k] = e
    BY <1>0, <2>1 DEF With
  <2>4. req[w].age \in Nat /\ req[w].age <= L2TTL - 1
    BY <1>2, RequestFacts DEF Put, RequestsYoung
  <2> QED
    BY <2>2, <2>3, <2>4, TTLAssumption
<1>3. CASE Tick
  <2>1. l1' = [q \in Processes |-> [j \in DOMAIN l1[q] |-> Later(l1[q][j])]]
    BY <1>3 DEF Tick
  <2>2. k \in DOMAIN l1[p] /\ l1'[p][k] = Later(l1[p][k])
    BY <2>1
  <2> DEFINE e == l1[p][k]
  <2>3. e \in L1Entry
    BY <2>2 DEF TypeInv, TypeOK
  <2>4. e.left > 0 => e.age + e.left <= L1TTL + L2TTL
    BY <2>2 DEF EntriesYoung
  <2>5. e.left \in Int /\ e.age \in Nat
    BY <2>3, TTLAssumption DEF L1Entry
  <2> HIDE DEF e
  <2>6. /\ e.left > 1 /\ Later(e).left = e.left - 1 /\ Later(e).age = e.age + 1
    BY <2>2, <2>3, LaterFacts DEF e
  <2> QED
    BY <2>2, <2>4, <2>5, <2>6, TTLAssumption DEF e
<1>4. \/ k \in DOMAIN l1[p] /\ l1'[p][k] = l1[p][k]
      \/ Tick
      \/ \E w \in Threads : Put(w) /\ p = ProcessOf[w] /\ k = req[w].key
  <2>1. ASSUME NEW w \in Threads, Ask(w)
        PROVE  k \in DOMAIN l1[p] /\ l1'[p][k] = l1[p][k]
    <3>1. UNCHANGED l1 \/ \E j : l1' = [l1 EXCEPT ![ProcessOf[w]] = Without(@, j)]
      BY <2>1 DEF Ask, AfterHit
    <3>2. CASE UNCHANGED l1
      BY <3>2
    <3>3. ASSUME NEW j, l1' = [l1 EXCEPT ![ProcessOf[w]] = Without(@, j)]
          PROVE  k \in DOMAIN l1[p] /\ l1'[p][k] = l1[p][k]
      <4>1. p # ProcessOf[w] => l1'[p] = l1[p]
        BY <1>0, <3>3
      <4>2. p = ProcessOf[w] => l1'[p] = Without(l1[p], j)
        BY <1>0, <3>3
      <4> QED
        BY <4>1, <4>2 DEF Without
    <3> QED
      BY <3>1, <3>2, <3>3
  <2>2. ASSUME NEW w \in Threads, Trim(w)
        PROVE  k \in DOMAIN l1[p] /\ l1'[p][k] = l1[p][k]
    BY <1>0, <2>2, ThreadAssumption DEF Trim, Trimmed, Empty
  <2>3. ASSUME NEW w \in Threads, Put(w), p # ProcessOf[w] \/ k # req[w].key
        PROVE  k \in DOMAIN l1[p] /\ l1'[p][k] = l1[p][k]
    BY <1>0, <2>3, ThreadAssumption DEF Put, With
  <2>4. CASE UNCHANGED l1
    BY <2>4
  <2>5. \/ UNCHANGED l1 \/ Tick
        \/ \E w \in Threads : Ask(w) \/ Trim(w) \/ Put(w)
    BY DEF Next, GetL2, Search, Setex, RequestRaises, RedisLost,
           ChangeIndex, Invalidate, Refresh, cacheVars
  <2> QED
    BY <2>1, <2>2, <2>3, <2>4, <2>5
<1> QED
  BY <1>1, <1>2, <1>3, <1>4

LEMMA NextKeepsRequestsYoung ==
    ASSUME TypeInv, EntriesYoung, RequestsYoung, [Next]_cacheVars
    PROVE  RequestsYoung'
<1> SUFFICES ASSUME NEW w \in Threads, req'[w].phase # "idle", req'[w] # req[w]
             PROVE  /\ req'[w].phase # "answered" => req'[w].age <= L2TTL - 1
                    /\ req'[w].phase = "answered" => req'[w].age <= L1TTL + L2TTL
  BY DEF RequestsYoung
<1>0. req \in [Threads -> RequestType \cup {NoRequest}]
  BY DEF TypeInv, RequestsOK
<1>1. CASE Ask(w)
  <2>1. \/ req'[w].phase = "get" /\ req'[w].age = 0
        \/ /\ req'[w].phase = "answered"
           /\ \E p \in Processes : \E k \in DOMAIN l1[p] :
                 l1[p][k].left > 0 /\ req'[w].age = l1[p][k].age
    BY <1>1, AskShape
  <2>2. \A p \in Processes : \A k \in DOMAIN l1[p] :
           l1[p][k].left > 0 => l1[p][k].age <= L1TTL + L2TTL
    BY TTLAssumption DEF EntriesYoung, TypeInv, TypeOK, L1Entry
  <2> QED
    BY <2>1, <2>2, TTLAssumption
<1>2. CASE GetL2(w)
  <2>1. req[w] \in RequestType /\ req[w].phase = "get" /\ req[w].age <= L2TTL - 1
    BY <1>2, RequestFacts DEF GetL2, RequestsYoung
  <2>2. CASE req[w].key \in DOMAIN l2
    <3> DEFINE e == l2[req[w].key]
    <3>1. e.age \in 0 .. L2TTL - 1
      BY <2>2 DEF TypeInv, TypeOK, L2Entry
    <3>2. req'[w] = [req[w] EXCEPT !.phase = "trim", !.value = e.value, !.age = e.age]
      BY <1>0, <1>2, <2>2 DEF GetL2
    <3> HIDE DEF e
    <3>3. req'[w].phase = "trim" /\ req'[w].age = e.age
      BY <2>1, <3>2 DEF RequestType
    <3> QED
      BY <3>1, <3>3
  <2>3. CASE req[w].key \notin DOMAIN l2
    <3>1. req'[w] = [req[w] EXCEPT !.phase = "search"]
      BY <1>0, <1>2, <2>3 DEF GetL2
    <3>2. req'[w].phase = "search" /\ req'[w].age = req[w].age
      BY <2>1, <3>1 DEF RequestType
    <3> QED
      BY <2>1, <3>2
  <2> QED
    BY <2>2, <2>3
<1>3. CASE Search(w) \/ Setex(w) \/ Trim(w) \/ Put(w)
  <2>1. /\ req[w] \in RequestType /\ req[w].age \in Nat
        /\ req[w].phase \notin {"idle", "answered"}
    BY <1>3, RequestFacts DEF Search, Setex, Trim, Put
  <2>2. \E s \in Active : \E x :
           \/ req' = [req EXCEPT ![w].phase = s, ![w].value = x]
           \/ req' = [req EXCEPT ![w].phase = s, ![w].key = x]
           \/ req' = [req EXCEPT ![w].phase = s]
    <3>1. {"setex", "trim", "put", "answered"} \subseteq Active
      BY DEF Active, Phases
    <3>2. CASE Search(w)
      BY <3>1, <3>2, Zenon DEF Search
    <3>3. CASE Setex(w)
      BY <3>1, <3>3 DEF Setex
    <3>4. CASE Trim(w) \/ Put(w)
      BY <3>1, <3>4 DEF Trim, Put
    <3> QED
      BY <1>3, <3>2, <3>3, <3>4
  <2>3. req'[w].age = req[w].age
    BY <1>0, <2>1, <2>2 DEF RequestType
  <2> QED
    BY <2>1, <2>3, TTLAssumption DEF RequestsYoung
<1>4. CASE RequestRaises(w)
  <2>1. req'[w] = NoRequest
    BY <1>0, <1>4 DEF RequestRaises
  <2> QED
    BY <2>1 DEF NoRequest
<1>5. \/ Ask(w) \/ GetL2(w) \/ Search(w) \/ Setex(w)
      \/ Trim(w) \/ Put(w) \/ RequestRaises(w)
  <2>1. ASSUME NEW v \in Threads, v # w,
               \/ Ask(v) \/ GetL2(v) \/ Search(v) \/ Setex(v)
               \/ Trim(v) \/ Put(v) \/ RequestRaises(v)
        PROVE  req'[w] = req[w]
    <3>1. \E r : req' = [req EXCEPT ![v] = r]
      BY <2>1, AskShape, CallShape DEF RequestRaises
    <3> QED
      BY <1>0, <2>1, <3>1
  <2>2. \/ UNCHANGED req
        \/ \E v \in Threads : \/ Ask(v) \/ GetL2(v) \/ Search(v) \/ Setex(v)
                              \/ Trim(v) \/ Put(v) \/ RequestRaises(v)
    BY DEF Next, RedisLost, Tick, ChangeIndex, Invalidate, Refresh, cacheVars
  <2> QED
    BY <2>1, <2>2
<1> QED
  BY <1>1, <1>2, <1>3, <1>4, <1>5

(* No answer is older than the two TTLs together, whatever path of hits    *)
(* through Redis and the process it took (_l1_get, _l1_put, SETEX).        *)
THEOREM NoAnswerOlderThanBothTTLs == Spec => []AgeBounded
<1>1. Init => EntriesYoung /\ RequestsYoung
  BY DEF Init, EntriesYoung, RequestsYoung, Empty, NoRequest
<1>2. TypeInv /\ [Next]_cacheVars => TypeInv'
  BY NextKeepsTypeInv
<1>3. TypeInv /\ EntriesYoung /\ RequestsYoung /\ [Next]_cacheVars
        => EntriesYoung' /\ RequestsYoung'
  BY NextKeepsEntriesYoung, NextKeepsRequestsYoung
<1>4. RequestsYoung => AgeBounded
  BY DEF RequestsYoung, AgeBounded, Done
<1> QED
  BY InitTypeInv, <1>1, <1>2, <1>3, <1>4, PTL DEF Spec

-----------------------------------------------------------------------------
(* The size of a process's dictionary.  A thread that has passed the check *)
(* of _l1_put and has not stored its entry yet counts as an entry already: *)
(* then only the check itself can raise the sum, and it clears first.      *)

ThreadsOf(p) == {w \in Threads : ProcessOf[w] = p}
Putting(p) == {w \in ThreadsOf(p) : req[w].phase = "put"}

SizesOK ==
    \A p \in Processes :
        /\ IsFiniteSet(DOMAIN l1[p])
        /\ Cardinality(DOMAIN l1[p]) + Cardinality(Putting(p))
             <= L1Size + Cardinality(ThreadsOf(p))

LEMMA Sizes ==
    ASSUME NEW p
    PROVE  /\ IsFiniteSet(ThreadsOf(p)) /\ Cardinality(ThreadsOf(p)) \in Nat
           /\ \A S \in SUBSET ThreadsOf(p) :
                 /\ IsFiniteSet(S) /\ Cardinality(S) \in Nat
                 /\ Cardinality(S) <= Cardinality(ThreadsOf(p))
<1>1. IsFiniteSet(ThreadsOf(p))
  BY FiniteThreads, FS_Subset DEF ThreadsOf
<1> QED
  BY <1>1, FS_Subset, FS_CardinalityType

(* A dictionary that only shrinks, while no thread joins those about to    *)
(* store, keeps within the bound.                                          *)
LEMMA ShrinkingKeepsSize ==
    ASSUME SizesOK, NEW p \in Processes,
           DOMAIN l1'[p] \subseteq DOMAIN l1[p],
           Putting(p)' \subseteq Putting(p)
    PROVE  /\ IsFiniteSet(DOMAIN l1'[p])
           /\ Cardinality(DOMAIN l1'[p]) + Cardinality(Putting(p)')
                <= L1Size + Cardinality(ThreadsOf(p))
<1> DEFINE old == DOMAIN l1[p]
           new == DOMAIN l1'[p]
           puts == Putting(p)
           after == Putting(p)'
<1>1. IsFiniteSet(old) /\ Cardinality(old) \in Nat
  BY FS_CardinalityType DEF SizesOK
<1>2. /\ IsFiniteSet(new) /\ Cardinality(new) \in Nat
      /\ Cardinality(new) <= Cardinality(old)
  BY <1>1, FS_Subset, FS_CardinalityType
<1>3. puts \in SUBSET ThreadsOf(p)
  BY DEF Putting
<1>4. IsFiniteSet(puts) /\ Cardinality(puts) \in Nat
  BY <1>3, Sizes
<1>5. Cardinality(after) \in Nat /\ Cardinality(after) <= Cardinality(puts)
  BY <1>4, FS_Subset, FS_CardinalityType
<1>6. Cardinality(old) + Cardinality(puts) <= L1Size + Cardinality(ThreadsOf(p))
  BY DEF SizesOK
<1>7. Cardinality(ThreadsOf(p)) \in Nat
  BY Sizes
<1> HIDE DEF old, new, puts, after
<1> QED
  BY <1>1, <1>2, <1>4, <1>5, <1>6, <1>7, SizeAssumption DEF old, new, puts, after

(* The check clears a dictionary that is too large before the thread joins *)
(* those about to store.                                                   *)
LEMMA TrimKeepsSize ==
    ASSUME TypeInv, SizesOK, NEW w \in Threads, Trim(w), NEW p \in Processes,
           p = ProcessOf[w]
    PROVE  /\ IsFiniteSet(DOMAIN l1'[p])
           /\ Cardinality(DOMAIN l1'[p]) + Cardinality(Putting(p)')
                <= L1Size + Cardinality(ThreadsOf(p))
<1> DEFINE old == DOMAIN l1[p]
           new == DOMAIN l1'[p]
           after == Putting(p)'
<1>1. IsFiniteSet(old) /\ Cardinality(old) \in Nat
  BY FS_CardinalityType DEF SizesOK
<1>2. IsFiniteSet(new) /\ Cardinality(new) \in Nat /\ Cardinality(new) <= L1Size
  <2>1. CASE Cardinality(old) > L1Size
    <3>1. new = {}
      BY <2>1 DEF Trim, Trimmed, Empty, TypeInv
    <3>2. IsFiniteSet({}) /\ Cardinality({}) = 0
      BY FS_EmptySet
    <3> QED
      BY <3>1, <3>2, SizeAssumption
  <2>2. CASE ~(Cardinality(old) > L1Size)
    <3>1. l1' = l1
      BY <2>2 DEF Trim, Trimmed
    <3> QED
      BY <1>1, <2>2, <3>1, SizeAssumption
  <2> QED
    BY <2>1, <2>2
<1>3. after \in SUBSET ThreadsOf(p)
  BY DEF Putting, ThreadsOf
<1>4. /\ Cardinality(after) \in Nat
      /\ Cardinality(after) <= Cardinality(ThreadsOf(p))
      /\ Cardinality(ThreadsOf(p)) \in Nat
  BY <1>3, Sizes
<1> HIDE DEF old, new, after
<1> QED
  BY <1>2, <1>4, SizeAssumption DEF new, after

(* Storing adds at most one entry, and one thread less is about to.        *)
LEMMA PutKeepsSize ==
    ASSUME TypeInv, SizesOK, NEW w \in Threads, Put(w), NEW p \in Processes,
           p = ProcessOf[w]
    PROVE  /\ IsFiniteSet(DOMAIN l1'[p])
           /\ Cardinality(DOMAIN l1'[p]) + Cardinality(Putting(p)')
                <= L1Size + Cardinality(ThreadsOf(p))
<1> DEFINE old == DOMAIN l1[p]
           new == DOMAIN l1'[p]
           puts == Putting(p)
           after == Putting(p)'
           k == req[w].key
<1>1. IsFiniteSet(old) /\ Cardinality(old) \in Nat
  BY FS_CardinalityType DEF SizesOK
<1>2. new = old \cup {k}
  BY DEF Put, With, TypeInv
<1>3. /\ IsFiniteSet(new) /\ Cardinality(new) \in Nat
      /\ Cardinality(new) <= Cardinality(old) + 1
  <2>1. /\ IsFiniteSet(old \cup {k})
        /\ Cardinality(old \cup {k}) =
              IF k \in old THEN Cardinality(old) ELSE Cardinality(old) + 1
    BY <1>1, FS_AddElement
  <2> QED
    BY <1>1, <1>2, <2>1
<1>4. w \in puts /\ after = puts \ {w}
  <2>1. req \in [Threads -> RequestType \cup {NoRequest}] /\ req[w].phase = "put"
    BY DEF TypeInv, RequestsOK, Put
  <2>2. req[w] \in RequestType
    BY <2>1 DEF NoRequest
  <2>3. req' = [req EXCEPT ![w].phase = "answered"]
    BY DEF Put
  <2>4. req'[w].phase = "answered" /\ \A v \in Threads : v # w => req'[v] = req[v]
    BY <2>1, <2>2, <2>3 DEF RequestType
  <2> QED
    BY <2>1, <2>4 DEF Putting, ThreadsOf
<1>5. puts \in SUBSET ThreadsOf(p)
  BY DEF Putting
<1>6. IsFiniteSet(puts) /\ Cardinality(puts) \in Nat
  BY <1>5, Sizes
<1>7. Cardinality(after) = Cardinality(puts) - 1
  BY <1>4, <1>6, FS_RemoveElement
<1>8. /\ Cardinality(old) + Cardinality(puts) <= L1Size + Cardinality(ThreadsOf(p))
      /\ Cardinality(ThreadsOf(p)) \in Nat
  BY Sizes DEF SizesOK
<1> HIDE DEF old, new, puts, after
<1> QED
  BY <1>1, <1>3, <1>6, <1>7, <1>8, SizeAssumption DEF new, after

LEMMA NextKeepsSizes ==
    ASSUME TypeInv, SizesOK, [Next]_cacheVars
    PROVE  SizesOK'
<1> SUFFICES ASSUME NEW p \in Processes
             PROVE  /\ IsFiniteSet(DOMAIN l1'[p])
                    /\ Cardinality(DOMAIN l1'[p]) + Cardinality(Putting(p)')
                         <= L1Size + Cardinality(ThreadsOf(p))
  BY DEF SizesOK, ThreadsOf
<1>0. req \in [Threads -> RequestType \cup {NoRequest}] /\ DOMAIN l1 = Processes
  BY DEF TypeInv, RequestsOK
<1>1. ASSUME NEW w \in Threads, p = ProcessOf[w], Trim(w) \/ Put(w)
      PROVE  /\ IsFiniteSet(DOMAIN l1'[p])
             /\ Cardinality(DOMAIN l1'[p]) + Cardinality(Putting(p)')
                  <= L1Size + Cardinality(ThreadsOf(p))
  BY <1>1, TrimKeepsSize, PutKeepsSize
<1>2. ASSUME NEW w \in Threads, p # ProcessOf[w], Trim(w) \/ Put(w)
      PROVE  DOMAIN l1'[p] \subseteq DOMAIN l1[p] /\ Putting(p)' \subseteq Putting(p)
  <2>1. l1'[p] = l1[p]
    BY <1>0, <1>2 DEF Trim, Trimmed, Put
  <2>2. \A v \in Threads : v # w => req'[v] = req[v]
    BY <1>0, <1>2 DEF Trim, Put
  <2> QED
    BY <1>2, <2>1, <2>2 DEF Putting, ThreadsOf
<1>3. ASSUME NEW w \in Threads,
             Ask(w) \/ GetL2(w) \/ Search(w) \/ Setex(w) \/ RequestRaises(w)
      PROVE  DOMAIN l1'[p] \subseteq DOMAIN l1[p] /\ Putting(p)' \subseteq Putting(p)
  <2>1. CASE Ask(w)
    <3>1. PICK j : l1' = l1 \/ l1' = [l1 EXCEPT ![ProcessOf[w]] = Without(@, j)]
      BY <2>1 DEF Ask, AfterHit
    <3>2. DOMAIN l1'[p] \subseteq DOMAIN l1[p]
      BY <1>0, <3>1 DEF Without
    <3>3. req'[w].phase # "put" /\ req' = [req EXCEPT ![w] = req'[w]]
      BY <2>1, AskShape
    <3> QED
      BY <1>0, <3>2, <3>3 DEF Putting, ThreadsOf
  <2>2. CASE GetL2(w) \/ Search(w) \/ Setex(w) \/ RequestRaises(w)
    <3>1. l1' = l1
      BY <2>2 DEF GetL2, Search, Setex, RequestRaises
    <3>2. req'[w].phase # "put"
      <4>1. CASE RequestRaises(w)
        <5>1. req'[w] = NoRequest
          BY <1>0, <4>1 DEF RequestRaises
        <5> QED
          BY <5>1 DEF NoRequest
      <4>2. CASE GetL2(w)
        <5>1. req[w] \in RequestType
          BY <4>2, RequestFacts DEF GetL2
        <5>2. \/ req'[w] = [req[w] EXCEPT !.phase = "search"]
              \/ \E x, a : req'[w] = [req[w] EXCEPT !.phase = "trim", !.value = x, !.age = a]
          BY <1>0, <4>2 DEF GetL2
        <5> QED
          BY <5>1, <5>2 DEF RequestType
      <4>3. CASE Search(w)
        <5>1. req[w] \in RequestType
          BY <4>3, RequestFacts DEF Search
        <5>2. \E x : req'[w] = [req[w] EXCEPT !.phase = "setex", !.value = x]
          BY <1>0, <4>3 DEF Search
        <5> QED
          BY <5>1, <5>2 DEF RequestType
      <4>4. CASE Setex(w)
        <5>1. req[w] \in RequestType
          BY <4>4, RequestFacts DEF Setex
        <5>2. req'[w] = [req[w] EXCEPT !.phase = "trim", !.key = StoreKey(w)]
          BY <1>0, <4>4 DEF Setex
        <5> QED
          BY <5>1, <5>2 DEF RequestType
      <4> QED
        BY <2>2, <4>1, <4>2, <4>3, <4>4
    <3>3. \E r : req' = [req EXCEPT ![w] = r]
      BY <2>2, CallShape DEF RequestRaises
    <3>4. \A v \in Threads : v # w => req'[v] = req[v]
      BY <1>0, <3>3
    <3> QED
      BY <3>1, <3>2, <3>4 DEF Putting, ThreadsOf
  <2> QED
    BY <1>3, <2>1, <2>2
<1>4. ASSUME UNCHANGED <<l1, req>>
      PROVE  DOMAIN l1'[p] \subseteq DOMAIN l1[p] /\ Putting(p)' \subseteq Putting(p)
  BY <1>4 DEF Putting, ThreadsOf
<1>5. ASSUME Tick
      PROVE  DOMAIN l1'[p] \subseteq DOMAIN l1[p] /\ Putting(p)' \subseteq Putting(p)
  BY <1>5 DEF Tick, Putting, ThreadsOf
<1>6. \/ UNCHANGED <<l1, req>> \/ Tick
      \/ \E w \in Threads : \/ Ask(w) \/ GetL2(w) \/ Search(w) \/ Setex(w)
                            \/ Trim(w) \/ Put(w) \/ RequestRaises(w)
  BY DEF Next, RedisLost, ChangeIndex, Invalidate, Refresh, cacheVars
<1>7. CASE DOMAIN l1'[p] \subseteq DOMAIN l1[p] /\ Putting(p)' \subseteq Putting(p)
  BY <1>7, ShrinkingKeepsSize
<1> QED
  <2>1. CASE \E w \in Threads : Trim(w) \/ Put(w)
    BY <1>1, <1>2, <1>7, <2>1
  <2> QED
    BY <1>3, <1>4, <1>5, <1>6, <1>7, <2>1

(* However many threads pass the size check of _l1_put together, the       *)
(* dictionary of a process exceeds its limit by no more than their number. *)
THEOREM DictionariesBounded == Spec => []L1Bounded
<1>1. Init => SizesOK
  <2> SUFFICES ASSUME Init, NEW p \in Processes
               PROVE  /\ IsFiniteSet(DOMAIN l1[p])
                      /\ Cardinality(DOMAIN l1[p]) + Cardinality(Putting(p))
                           <= L1Size + Cardinality(ThreadsOf(p))
    BY DEF SizesOK
  <2>1. DOMAIN l1[p] = {} /\ Putting(p) = {}
    BY DEF Init, Empty, Putting, ThreadsOf, NoRequest
  <2>2. IsFiniteSet({}) /\ Cardinality({}) = 0
    BY FS_EmptySet
  <2>3. Cardinality(ThreadsOf(p)) \in Nat
    BY Sizes
  <2> QED
    BY <2>1, <2>2, <2>3, SizeAssumption
<1>2. TypeInv /\ [Next]_cacheVars => TypeInv'
  BY NextKeepsTypeInv
<1>3. TypeInv /\ SizesOK /\ [Next]_cacheVars => SizesOK'
  BY NextKeepsSizes
<1>4. SizesOK => L1Bounded
  <2> SUFFICES ASSUME SizesOK, NEW p \in Processes
               PROVE  Cardinality(DOMAIN l1[p]) <= L1Size + Cardinality(ThreadsOf(p))
    BY DEF L1Bounded, ThreadsOf
  <2>1. Putting(p) \in SUBSET ThreadsOf(p)
    BY DEF Putting
  <2>2. /\ Cardinality(Putting(p)) \in Nat /\ Cardinality(DOMAIN l1[p]) \in Nat
        /\ Cardinality(ThreadsOf(p)) \in Nat
    BY <2>1, Sizes, FS_CardinalityType DEF SizesOK
  <2> QED
    BY <2>2, SizeAssumption DEF SizesOK
<1> QED
  BY InitTypeInv, <1>1, <1>2, <1>3, <1>4, PTL DEF Spec
=============================================================================
