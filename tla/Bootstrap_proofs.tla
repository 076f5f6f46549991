--------------------------- MODULE Bootstrap_proofs ---------------------------
(***************************************************************************)
(* What the starts of the services guarantee, for any number of failing    *)
(* calls, deaths and redeployments.                                        *)
(***************************************************************************)
EXTENDS Bootstrap, TLAPS

-----------------------------------------------------------------------------
(* The plans.                                                              *)

(* A plan names each thing once, and everything its service uses.          *)
LEMMA Plans ==
    ASSUME NEW s \in Services
    PROVE  /\ Len(Plan[s]) \in Nat \ {0}
           /\ DOMAIN Plan[s] = 1 .. Len(Plan[s])
           /\ \A i \in DOMAIN Plan[s] : Plan[s][i] \in Things
           /\ \A i, j \in DOMAIN Plan[s] : Plan[s][i] = Plan[s][j] => i = j
           /\ \A x \in Uses[s] : \E i \in DOMAIN Plan[s] : Plan[s][i] = x
<1>1. CASE s = "gateway"
  <2> DEFINE p == Plan[s]
  <2>1. /\ Len(p) = 2 /\ DOMAIN p = 1 .. 2
        /\ p[1] = "schema" /\ p[2] = "seeds"
        BY <1>1 DEF Plan
  <2>2. Uses[s] = {"schema", "seeds"}
        BY <1>1 DEF Uses
  <2> HIDE DEF p
  <2>3. QED
        BY <2>1, <2>2 DEF p, Things
<1>2. CASE s = "api"
  <2> DEFINE p == Plan[s]
  <2>1. /\ Len(p) = 4 /\ DOMAIN p = 1 .. 4
        /\ p[1] = "schema" /\ p[2] = "seeds" /\ p[3] = "index" /\ p[4] = "bucket"
        BY <1>2 DEF Plan
  <2>2. Uses[s] = {"schema", "index", "bucket"}
        BY <1>2 DEF Uses
  <2> HIDE DEF p
  <2>3. QED
        BY <2>1, <2>2 DEF p, Things
<1>3. CASE s = "indexer"
  <2> DEFINE p == Plan[s]
  <2>1. /\ Len(p) = 3 /\ DOMAIN p = 1 .. 3
        /\ p[1] = "schema" /\ p[2] = "index" /\ p[3] = "bucket"
        BY <1>3 DEF Plan
  <2>2. Uses[s] = {"schema", "index", "bucket"}
        BY <1>3 DEF Uses
  <2> HIDE DEF p
  <2>3. QED
        BY <2>1, <2>2 DEF p, Things
<1>4. QED
      BY <1>1, <1>2, <1>3 DEF Services

LEMMA FollowingAt ==
    ASSUME NEW s \in Services, NEW k \in DOMAIN Plan[s], Plan[s][k] = stage[s]
    PROVE  Following(s) = IF k = Len(Plan[s]) THEN "serving" ELSE Plan[s][k + 1]
<1>1. (CHOOSE i \in DOMAIN Plan[s] : Plan[s][i] = stage[s]) = k
      BY Plans
<1>2. QED
      BY <1>1 DEF Following

-----------------------------------------------------------------------------
(* What a service has ensured so far exists: everything in its plan before *)
(* the thing it is at, and once it serves, everything.                     *)
At(s, k) ==
    /\ Plan[s][k] = stage[s]
    /\ \A i \in 1 .. k - 1 : Plan[s][i] \in exists

Ensured ==
    \A s \in Services :
        /\ stage[s] \in Things => \E k \in DOMAIN Plan[s] : At(s, k)
        /\ stage[s] = "serving" => \A i \in DOMAIN Plan[s] : Plan[s][i] \in exists

IInv == TypeOK /\ Ensured

LEMMA InitIInv == Init => IInv
    BY BoundsAssumption DEF Init, IInv, TypeOK, Ensured, Services, Things

(* The thing s was at exists now, and s goes on to the next.               *)
LEMMA GoesOnKeeps ==
    ASSUME IInv, NEW s \in Services, stage[s] \in Things, GoesOn(s),
           exists \subseteq exists', stage[s] \in exists'
    PROVE  /\ stage' \in [Services -> Things \cup {"down", "serving"}]
           /\ missed' \in SUBSET {r \in Services : stage'[r] \in Things}
           /\ Ensured'
<1>1. PICK k \in DOMAIN Plan[s] : At(s, k)
      BY DEF IInv, Ensured
<1> DEFINE n == Len(Plan[s])
<1>2. /\ n \in Nat \ {0} /\ k \in 1 .. n /\ DOMAIN Plan[s] = 1 .. n
      /\ \A i \in 1 .. n : Plan[s][i] \in Things
      BY Plans
<1>3. Following(s) = IF k = n THEN "serving" ELSE Plan[s][k + 1]
      BY <1>1, FollowingAt DEF At
<1> HIDE DEF n
<1>4. Following(s) \in Things \cup {"serving"}
      BY <1>2, <1>3
<1>5. /\ stage \in [Services -> Things \cup {"down", "serving"}]
      /\ missed \in SUBSET {r \in Services : stage[r] \in Things}
      BY DEF IInv, TypeOK
<1>6. /\ stage' = [stage EXCEPT ![s] = Following(s)] /\ missed' = missed \ {s}
      BY DEF GoesOn, LookForgotten
<1>7. /\ stage' \in [Services -> Things \cup {"down", "serving"}]
      /\ stage'[s] = Following(s)
      /\ \A r \in Services : r # s => stage'[r] = stage[r]
      BY <1>4, <1>5, <1>6
<1>8. missed' \in SUBSET {r \in Services : stage'[r] \in Things}
      BY <1>5, <1>6, <1>7
<1>9. \A i \in 1 .. k : Plan[s][i] \in exists'
      BY <1>1, <1>2 DEF At
<1>10. /\ stage'[s] \in Things => \E j \in DOMAIN Plan[s] : At(s, j)'
       /\ stage'[s] = "serving" => \A i \in DOMAIN Plan[s] : Plan[s][i] \in exists'
  <2>1. CASE k = n
        BY <1>2, <1>3, <1>7, <1>9, <2>1 DEF Things
  <2>2. CASE k # n
    <3>1. k + 1 \in DOMAIN Plan[s] /\ k + 1 - 1 = k /\ Plan[s][k + 1] \in Things
          BY <1>2, <2>2
    <3>2. PICK j \in DOMAIN Plan[s] : j = k + 1
          BY <3>1
    <3>3. stage'[s] = Plan[s][j]
          BY <1>3, <1>7, <2>2, <3>2
    <3>4. \A i \in 1 .. j - 1 : Plan[s][i] \in exists'
          BY <1>2, <1>9, <3>2
    <3>5. At(s, j)'
          BY <3>3, <3>4 DEF At
    <3>6. QED
          BY <1>3, <1>7, <2>2, <3>1, <3>5 DEF Things
  <2>3. QED
        BY <2>1, <2>2
<1>11. ASSUME NEW r \in Services, r # s
       PROVE  /\ stage'[r] \in Things => \E j \in DOMAIN Plan[r] : At(r, j)'
              /\ stage'[r] = "serving" => \A i \in DOMAIN Plan[r] : Plan[r][i] \in exists'
       BY <1>7, <1>11 DEF IInv, Ensured, At
<1>12. QED
       BY <1>7, <1>8, <1>10, <1>11 DEF Ensured

(* A start that ends leaves nothing to be kept.                            *)
LEMMA EndsKeeps ==
    ASSUME IInv, NEW s \in Services, Ends(s), exists \subseteq exists'
    PROVE  /\ stage' \in [Services -> Things \cup {"down", "serving"}]
           /\ missed' \in SUBSET {r \in Services : stage'[r] \in Things}
           /\ Ensured'
<1>1. /\ stage \in [Services -> Things \cup {"down", "serving"}]
      /\ missed \in SUBSET {r \in Services : stage[r] \in Things}
      BY DEF IInv, TypeOK
<1>2. /\ stage' = [stage EXCEPT ![s] = "down"] /\ missed' = missed \ {s}
      BY DEF Ends, LookForgotten
<1>3. /\ stage' \in [Services -> Things \cup {"down", "serving"}]
      /\ stage'[s] = "down"
      /\ \A r \in Services : r # s => stage'[r] = stage[r]
      BY <1>1, <1>2
<1>4. missed' \in SUBSET {r \in Services : stage'[r] \in Things}
      BY <1>1, <1>2, <1>3
<1>5. Ensured'
      BY <1>3 DEF IInv, Ensured, At, Things
<1>6. QED
      BY <1>3, <1>4, <1>5

(* Nobody moves.                                                           *)
LEMMA SameEnsured ==
    ASSUME IInv, stage' = stage, exists' = exists
    PROVE  Ensured'
    BY DEF IInv, Ensured, At

LEMMA CreatedTenant ==
    ASSUME TypeOK, NEW x \in Things, Created(x)
    PROVE  /\ exists' \in SUBSET Things /\ exists \subseteq exists' /\ x \in exists'
           /\ tenant' \in {"none", "ACTIVE", "SUSPENDED"}
           /\ tenant' # "none" <=> "seeds" \in exists'
    BY DEF TypeOK, Created

LEMMA NextKeepsIInv == IInv /\ [Next]_vars => IInv'
<1> SUFFICES ASSUME IInv, [Next]_vars
             PROVE  IInv'
    OBVIOUS
<1> USE DEF IInv
<1>1. ASSUME NEW s \in Services, Start(s) PROVE IInv'
  <2>1. /\ stage \in [Services -> Things \cup {"down", "serving"}]
        /\ missed \in SUBSET {r \in Services : stage[r] \in Things}
        /\ stage[s] = "down" /\ stage' = [stage EXCEPT ![s] = Plan[s][1]]
        /\ UNCHANGED <<missed, exists, tenant, faults, stops>>
        BY <1>1 DEF Start, TypeOK
  <2>2. 1 \in DOMAIN Plan[s] /\ Plan[s][1] \in Things
        BY Plans
  <2>3. /\ stage' \in [Services -> Things \cup {"down", "serving"}]
        /\ stage'[s] = Plan[s][1]
        /\ \A r \in Services : r # s => stage'[r] = stage[r]
        BY <2>1, <2>2
  <2>4. missed' \in SUBSET {r \in Services : stage'[r] \in Things}
        BY <2>1, <2>2, <2>3
  <2>5. TypeOK'
        BY <2>1, <2>3, <2>4 DEF TypeOK
  <2>6. At(s, 1)' /\ stage'[s] # "serving"
        BY <2>2, <2>3 DEF At, Things
  <2>7. Ensured'
        BY <2>1, <2>2, <2>3, <2>6 DEF Ensured, At
  <2>8. QED
        BY <2>5, <2>7
<1>2. ASSUME NEW s \in Services, Look(s) PROVE IInv'
  <2>1. /\ stage[s] \in Things /\ UNCHANGED <<exists, faults, stops>> /\ tenant' = tenant
        BY <1>2 DEF Look, FoundTenant
  <2>2. CASE There(stage[s]) /\ GoesOn(s)
        BY <2>1, <2>2, GoesOnKeeps DEF There, TypeOK
  <2>3. CASE missed' = missed \cup {s} /\ stage' = stage
    <3>1. TypeOK'
          BY <2>1, <2>3 DEF TypeOK
    <3>2. QED
          BY <2>1, <2>3, <3>1, SameEnsured
  <2>4. QED
        BY <1>2, <2>2, <2>3 DEF Look
<1>3. ASSUME NEW s \in Services, Create(s) PROVE IInv'
  <2>1. /\ stage[s] \in Things /\ UNCHANGED <<faults, stops>>
        BY <1>3 DEF Create, TypeOK
  <2>2. CASE Created(stage[s]) /\ GoesOn(s)
    <3>1. /\ exists' \in SUBSET Things /\ exists \subseteq exists' /\ stage[s] \in exists'
          /\ tenant' \in {"none", "ACTIVE", "SUSPENDED"}
          /\ tenant' # "none" <=> "seeds" \in exists'
          BY <2>1, <2>2, CreatedTenant
    <3>2. QED
          BY <2>1, <2>2, <3>1, GoesOnKeeps DEF TypeOK
  <2>3. CASE Ends(s) /\ UNCHANGED <<exists, tenant>>
        BY <2>1, <2>3, EndsKeeps DEF TypeOK
  <2>4. QED
        BY <1>3, <2>2, <2>3 DEF Create
<1>4. ASSUME NEW s \in Services, StartRaises(s) PROVE IInv'
  <2>1. /\ stage[s] \in Things /\ Ends(s) /\ stops' = stops
        /\ faults' \in 0 .. MaxFaults
        BY <1>4, BoundsAssumption DEF StartRaises, TypeOK
  <2>2. /\ exists' \in SUBSET Things /\ exists \subseteq exists'
        /\ tenant' \in {"none", "ACTIVE", "SUSPENDED"}
        /\ tenant' # "none" <=> "seeds" \in exists'
    <3>1. CASE UNCHANGED <<exists, tenant>>
          BY <3>1 DEF TypeOK
    <3>2. CASE Created(stage[s])
          BY <2>1, <3>2, CreatedTenant
    <3>3. QED
          BY <1>4, <3>1, <3>2 DEF StartRaises
  <2>3. QED
        BY <2>1, <2>2, EndsKeeps DEF TypeOK
<1>5. ASSUME NEW s \in Services, Die(s) PROVE IInv'
  <2>1. /\ Ends(s) /\ UNCHANGED <<exists, tenant, faults>> /\ stops' \in 0 .. MaxStops
        BY <1>5, BoundsAssumption DEF Die, TypeOK
  <2>2. QED
        BY <2>1, EndsKeeps DEF TypeOK
<1>6. CASE Recreate
  <2>1. TypeOK'
        BY <1>6, BoundsAssumption DEF Recreate, TypeOK
  <2>2. \A s \in Services : stage'[s] = "down"
        BY <1>6 DEF Recreate
  <2>3. Ensured'
        BY <2>2 DEF Ensured, Things
  <2>4. QED
        BY <2>1, <2>3
<1>7. CASE OperatorActs
  <2>1. TypeOK'
        BY <1>7 DEF OperatorActs, TypeOK
  <2>2. QED
        BY <1>7, <2>1, SameEnsured DEF OperatorActs
<1>8. CASE UNCHANGED vars
  <2>1. TypeOK'
        BY <1>8 DEF vars, TypeOK
  <2>2. QED
        BY <1>8, <2>1, SameEnsured DEF vars
<1>9. QED
      BY <1>1, <1>2, <1>3, <1>4, <1>5, <1>6, <1>7, <1>8 DEF Next

(* Whatever the plan of a service lists before its present stage is there  *)
(* (create_app, main).                                                     *)
THEOREM InductiveInvariant == Spec => []IInv
    BY InitIInv, NextKeepsIInv, PTL DEF Spec

(* Only a service that is starting remembers a look, and the seeded tenant *)
(* is there exactly when the seeds are (bootstrap, seed).                  *)
THEOREM Typing == Spec => []TypeOK
    BY InductiveInvariant, PTL DEF IInv

(* Whichever service creates what, in whatever order they start, fail, die *)
(* and are recreated: who serves finds its tables, index and bucket (the   *)
(* create_app of gateway and API, main of the indexer).                    *)
THEOREM NobodyServesTooEarly == Spec => []ServingHasWhatItUses
<1>1. IInv => ServingHasWhatItUses
  <2> SUFFICES ASSUME IInv, NEW s \in Services, stage[s] = "serving", NEW x \in Uses[s]
               PROVE  x \in exists
      BY DEF ServingHasWhatItUses
  <2>1. PICK i \in DOMAIN Plan[s] : Plan[s][i] = x
        BY Plans
  <2>2. QED
        BY <2>1 DEF IInv, Ensured
<1>2. QED
      BY <1>1, InductiveInvariant, PTL

(* Starting again changes no tenant: seeds are inserted only where there   *)
(* are none, and a suspension an operator made survives every restart      *)
(* (bootstrap: "Idempotent, safe to run on every service start").          *)
THEOREM StartsKeepTenants == Spec => StartsChangeNoTenant
<1> DEFINE Kept == tenant' # tenant => tenant = "none" \/ OperatorActs
<1>1. IInv /\ [Next]_vars => [Kept]_vars
  <2> SUFFICES ASSUME IInv, [Next]_vars
               PROVE  Kept
      OBVIOUS
  <2>1. ASSUME NEW s \in Services, Create(s) \/ StartRaises(s) PROVE Kept
        BY <2>1 DEF Create, StartRaises, Created, IInv, TypeOK
  <2>2. ASSUME NEW s \in Services, Start(s) \/ Look(s) \/ Die(s) PROVE Kept
        BY <2>2 DEF Start, Look, FoundTenant, Die
  <2>3. CASE Recreate \/ UNCHANGED vars
        BY <2>3 DEF Recreate, vars
  <2>4. QED
        BY <2>1, <2>2, <2>3 DEF Next
<1>2. QED
      BY <1>1, InductiveInvariant, PTL DEF Spec, StartsChangeNoTenant
=============================================================================
