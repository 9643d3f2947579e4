----------------------- MODULE TrafficGovernor_proofs -----------------------
(***************************************************************************)
(* Proofs about the traffic governor, for any tasks, sources, capacities,  *)
(* configurations and delays.                                              *)
(***************************************************************************)
EXTENDS TrafficGovernor, FiniteSetTheorems, TLAPS

USE TasksAssumption, RequestsAssumption, CapacityAssumption, LimitsAssumption,
    BoundsAssumption, NoneAssumption

Records == [source : Sources, priority : Priorities, kind : Kinds]

-----------------------------------------------------------------------------
(* Lemmas about the operators                                              *)

LEMMA ReserveType == Reserve \in 0..(HttpCapacity - 1)
BY DEF Reserve, Smaller

(* The times that Earliest returns are times of sources, or the timer.     *)
LEMMA EarliestType ==
  ASSUME timer \in Nat \cup {None}, wait \in [Sources -> Nat],
         request \in [Tasks -> Records], NEW S, S \subseteq Tasks,
         NEW m \in Earliest(S)
  PROVE  m \in Nat \cup {None}
BY DEF Earliest, Source, Records

(* Counting the leases of one kind or one source: one more where a lease   *)
(* is granted, one less where it is released.                              *)
LEMMA CountAdd ==
  ASSUME NEW S, IsFiniteSet(S), NEW t, t \notin S, NEW Q, Q \subseteq S,
         NEW R, R = Q \/ R = Q \cup {t}
  PROVE  Cardinality(R) = Cardinality(Q) + (IF t \in R THEN 1 ELSE 0)
<1>1. IsFiniteSet(Q)
  BY FS_Subset
<1>2. Cardinality(Q) \in Nat
  BY <1>1, FS_CardinalityType
<1>3. t \notin Q
  OBVIOUS
<1>4. CASE R = Q
  BY <1>2, <1>3, <1>4
<1>5. CASE R = Q \cup {t}
  BY <1>1, <1>2, <1>3, <1>5, FS_AddElement
<1> QED
  BY <1>4, <1>5

LEMMA CountRemove ==
  ASSUME NEW Q, IsFiniteSet(Q), NEW t
  PROVE  /\ Cardinality(Q) \in Nat
         /\ t \in Q => Cardinality(Q) > 0
         /\ Cardinality(Q \ {t}) = Cardinality(Q) - (IF t \in Q THEN 1 ELSE 0)
         /\ Cardinality(Q \ {t}) \in Nat
<1>1. Cardinality(Q) \in Nat /\ IsFiniteSet(Q \ {t}) /\ Cardinality(Q \ {t}) \in Nat
  BY FS_CardinalityType, FS_RemoveElement
<1>2. Cardinality(Q \ {t}) = Cardinality(Q) - (IF t \in Q THEN 1 ELSE 0)
  BY <1>1, FS_RemoveElement
<1> QED
  BY <1>1, <1>2

LEMMA CountDisjoint ==
  ASSUME NEW P, IsFiniteSet(P), NEW Q, IsFiniteSet(Q), P \cap Q = {}
  PROVE  Cardinality(P \cup Q) = Cardinality(P) + Cardinality(Q)
<1>1. Cardinality(P) \in Nat /\ Cardinality(Q) \in Nat /\ Cardinality({}) = 0
  BY FS_CardinalityType, FS_EmptySet
<1>2. Cardinality(P \cup Q) = Cardinality(P) + Cardinality(Q) - Cardinality({})
  BY FS_Union
<1> QED
  BY <1>1, <1>2

-----------------------------------------------------------------------------
(* The invariant: types, exact counters, and the limits they guarantee.    *)

Inv == TypeOK /\ CountersExact /\ LimitsKept

Held(s) == {t \in leases : Source(t) = s}

LEMMA LeasesFinite ==
  ASSUME TypeOK
  PROVE  /\ IsFiniteSet(leases)
         /\ \A k \in Kinds : IsFiniteSet(LeasesOf(k))
         /\ \A s \in Sources : IsFiniteSet(Held(s))
         /\ IsFiniteSet(BackgroundHttp)
<1>1. IsFiniteSet(leases)
  BY FS_Subset DEF TypeOK
<1> QED
  BY <1>1, FS_Subset DEF LeasesOf, Held, BackgroundHttp

(* Steps that leave the leases alone keep the counters and the limits.     *)
LEMMA SameLeases ==
  ASSUME Inv, UNCHANGED << leases, used, inUse >>,
         \A t \in leases : request'[t] = request[t],
         \A t \in Tasks : pc'[t] \in {"granted", "using"} <=> pc[t] \in {"granted", "using"}
  PROVE  CountersExact' /\ LimitsKept'
<1>1. \A k : LeasesOf(k)' = LeasesOf(k)
  BY DEF LeasesOf, Kind
<1>2. BackgroundHttp' = BackgroundHttp
  BY <1>1 DEF BackgroundHttp, LeasesOf, Priority
<1>3. \A s : {t \in leases : Source(t) = s}' = {t \in leases : Source(t) = s}
  BY DEF Source
<1> QED
  BY <1>1, <1>2, <1>3 DEF Inv, CountersExact, LimitsKept, Reserve

LEMMA LeaseFacts ==
  ASSUME TypeOK, NEW t \in Tasks
  PROVE  /\ Kind(t) \in Kinds /\ Source(t) \in Sources
         /\ Priority(t) \in Priorities /\ Priority(t) \in Nat
BY DEF TypeOK, Kind, Source, Priority, Priorities

LEMMA CountersOfSources ==
  CountersExact <=>
    /\ leases = {t \in Tasks : pc[t] \in {"granted", "using"}}
    /\ \A k \in Kinds : used[k] = Cardinality(LeasesOf(k))
    /\ \A s \in Sources : inUse[s] = Cardinality(Held(s))
BY DEF CountersExact, Held

LEMMA InitInv == Init => Inv
<1> SUFFICES ASSUME Init PROVE Inv
  OBVIOUS
<1>1. \A t \in Tasks : request[t] \in Records
  BY DEF Init, Records
<1>2. TypeOK
  BY <1>1, SMTT(30) DEF Init, TypeOK, Records, Priorities
<1>3. \A k : LeasesOf(k) = {}
  BY DEF Init, LeasesOf
<1>4. CountersExact
  BY <1>3, FS_EmptySet DEF Init, CountersExact
<1>5. BackgroundHttp = {}
  BY <1>3 DEF BackgroundHttp
<1>6. LimitsKept
  <2>1. LeasesOf("browser") = {} /\ LeasesOf("http") = {}
    BY <1>3
  <2>2. Cardinality({}) = 0
    BY FS_EmptySet
  <2>3. BrowserCapacity \in Nat /\ HttpCapacity \in Nat /\ HttpCapacity - Reserve >= 0
    BY ReserveType
  <2> QED
    BY <1>5, <2>1, <2>2, <2>3 DEF LimitsKept
<1> QED
  BY <1>2, <1>4, <1>6 DEF Inv

LEMMA GrantInv ==
  ASSUME Inv, NEW t \in Tasks, Grant(t)
  PROVE  Inv'
<1>0. /\ TypeOK /\ CountersExact /\ LimitsKept
      /\ pc[t] = "waiting" /\ t \notin leases
      /\ Kind(t) \in Kinds /\ Source(t) \in Sources /\ Priority(t) \in Nat
  <2>1. TypeOK /\ CountersExact /\ LimitsKept
    BY DEF Inv
  <2>2. pc[t] = "waiting"
    BY DEF Grant, Grantable, Waiting
  <2>3. t \notin leases
    BY <2>1, <2>2 DEF CountersExact
  <2> QED
    BY <2>1, <2>2, <2>3, LeaseFacts
<1>1. TypeOK'
  <2>1. timer' \in Nat \cup {None}
    BY <1>0, EarliestType, {u \in Waiting : Before(u, t)} \subseteq Tasks
       DEF TypeOK, Grant, Records, Waiting
  <2>2. limit[Source(t)].interval \in Nat
    BY <1>0 DEF TypeOK
  <2> QED
    BY <1>0, <2>1, <2>2 DEF TypeOK, Grant, boundVars
<1>2. \A k \in Kinds : /\ LeasesOf(k)' = LeasesOf(k) \/ LeasesOf(k)' = LeasesOf(k) \cup {t}
                       /\ t \in LeasesOf(k)' <=> k = Kind(t)
                       /\ LeasesOf(k) \subseteq leases
  BY <1>0 DEF Grant, LeasesOf, Kind
<1>3. \A s \in Sources : /\ Held(s)' = Held(s) \/ Held(s)' = Held(s) \cup {t}
                         /\ t \in Held(s)' <=> s = Source(t)
                         /\ Held(s) \subseteq leases
  BY <1>0 DEF Grant, Held, Source
<1>4. /\ BackgroundHttp' = BackgroundHttp \/ BackgroundHttp' = BackgroundHttp \cup {t}
      /\ t \in BackgroundHttp' <=> Kind(t) = "http" /\ Priority(t) >= Background
      /\ BackgroundHttp \subseteq LeasesOf("http") /\ BackgroundHttp \subseteq leases
  BY <1>0 DEF Grant, BackgroundHttp, LeasesOf, Priority, Kind
<1>5. \A k \in Kinds : Cardinality(LeasesOf(k)') = Cardinality(LeasesOf(k)) + (IF k = Kind(t) THEN 1 ELSE 0)
  <2> TAKE k \in Kinds
  <2>1. Cardinality(LeasesOf(k)') = Cardinality(LeasesOf(k)) + (IF t \in LeasesOf(k)' THEN 1 ELSE 0)
    BY <1>0, <1>2, LeasesFinite, CountAdd
  <2> QED
    BY <1>2, <2>1
<1>6. \A s \in Sources : Cardinality(Held(s)') = Cardinality(Held(s)) + (IF s = Source(t) THEN 1 ELSE 0)
  <2> TAKE s \in Sources
  <2>1. Cardinality(Held(s)') = Cardinality(Held(s)) + (IF t \in Held(s)' THEN 1 ELSE 0)
    BY <1>0, <1>3, LeasesFinite, CountAdd
  <2> QED
    BY <1>3, <2>1
<1>7. CountersExact'
  <2>1. leases' = {u \in Tasks : pc'[u] \in {"granted", "using"}}
    BY <1>0 DEF CountersExact, Grant, TypeOK
  <2>2. \A k \in Kinds : used'[k] = Cardinality(LeasesOf(k)')
    BY <1>0, <1>5 DEF CountersExact, Grant, TypeOK
  <2>3. \A s \in Sources : inUse'[s] = Cardinality(Held(s)')
    BY <1>0, <1>6, CountersOfSources DEF Grant, TypeOK
  <2> QED
    BY <2>1, <2>2, <2>3 DEF CountersExact, Held
<1>8. LimitsKept'
  <2>1. /\ Kind(t) = "browser" => used["browser"] < BrowserCapacity
        /\ Kind(t) = "http" => /\ used["http"] < HttpCapacity
                               /\ Priority(t) >= Background => used["http"] < HttpCapacity - Reserve
    BY <1>0, ReserveType DEF Grant, Grantable, Candidate, CapacityOk, TypeOK, Kinds
  <2>2. /\ used["browser"] = Cardinality(LeasesOf("browser"))
        /\ used["http"] = Cardinality(LeasesOf("http"))
        /\ used["browser"] \in Nat /\ used["http"] \in Nat
    BY <1>0 DEF CountersExact, Kinds, TypeOK
  <2>3. Cardinality(LeasesOf("browser")') <= BrowserCapacity
    BY <1>0, <1>5, <2>1, <2>2 DEF LimitsKept, Kinds
  <2>4. Cardinality(LeasesOf("http")') <= HttpCapacity
    BY <1>0, <1>5, <2>1, <2>2 DEF LimitsKept, Kinds
  <2>5. Cardinality(BackgroundHttp) \in Nat /\ Cardinality(BackgroundHttp) <= used["http"]
    BY <1>0, <1>4, <2>2, LeasesFinite, FS_Subset, FS_CardinalityType DEF Kinds
  <2>6. Cardinality(BackgroundHttp') = Cardinality(BackgroundHttp)
                                       + (IF t \in BackgroundHttp' THEN 1 ELSE 0)
    BY <1>0, <1>4, LeasesFinite, CountAdd
  <2>7. Cardinality(BackgroundHttp') <= HttpCapacity - Reserve
    BY <1>0, <1>4, <2>1, <2>2, <2>5, <2>6, ReserveType DEF LimitsKept
  <2> QED
    BY <2>3, <2>4, <2>7 DEF LimitsKept, Reserve
<1> QED
  BY <1>1, <1>7, <1>8 DEF Inv

(* Giving a lease back: what Release and the end of the task do.           *)
LEMMA ReleaseInv ==
  ASSUME Inv, NEW t \in Tasks, pc[t] \in {"granted", "using"},
         Ends(t), Release(t), NEW n \in 0..2, BeginDispatch(n)
  PROVE  Inv'
<1>0. /\ TypeOK /\ CountersExact /\ LimitsKept /\ t \in leases
      /\ Kind(t) \in Kinds /\ Source(t) \in Sources
  BY LeaseFacts DEF Inv, CountersExact
<1>1. \A k \in Kinds : /\ LeasesOf(k)' = LeasesOf(k) \ {t}
                       /\ t \in LeasesOf(k) <=> k = Kind(t)
                       /\ IsFiniteSet(LeasesOf(k))
  BY <1>0, LeasesFinite DEF Ends, Release, LeasesOf, Kind
<1>2. \A s \in Sources : /\ Held(s)' = Held(s) \ {t}
                         /\ t \in Held(s) <=> s = Source(t)
                         /\ IsFiniteSet(Held(s))
  BY <1>0, LeasesFinite DEF Ends, Release, Held, Source
<1>3. BackgroundHttp' = BackgroundHttp \ {t} /\ IsFiniteSet(BackgroundHttp)
  BY <1>0, LeasesFinite DEF Ends, Release, BackgroundHttp, LeasesOf, Kind, Priority
<1>4. \A k \in Kinds : /\ used'[k] = Cardinality(LeasesOf(k)')
                       /\ used'[k] \in Nat /\ used'[k] <= used[k]
  <2> TAKE k \in Kinds
  <2>1. /\ Cardinality(LeasesOf(k)) \in Nat
        /\ t \in LeasesOf(k) => Cardinality(LeasesOf(k)) > 0
        /\ Cardinality(LeasesOf(k) \ {t})
             = Cardinality(LeasesOf(k)) - (IF t \in LeasesOf(k) THEN 1 ELSE 0)
        /\ Cardinality(LeasesOf(k) \ {t}) \in Nat
    BY <1>1, CountRemove
  <2>2. used[k] = Cardinality(LeasesOf(k))
    BY <1>0 DEF CountersExact
  <2>3. used'[k] = used[k] - (IF k = Kind(t) THEN 1 ELSE 0)
    BY <1>0, <2>1, <2>2 DEF Release, TypeOK
  <2>4. LeasesOf(k)' = LeasesOf(k) \ {t} /\ (t \in LeasesOf(k) <=> k = Kind(t))
    BY <1>1
  <2>5. CASE k = Kind(t)
    BY <2>1, <2>2, <2>3, <2>4, <2>5
  <2>6. CASE k # Kind(t)
    BY <2>1, <2>2, <2>3, <2>4, <2>6
  <2> QED
    BY <2>5, <2>6
<1>5. \A s \in Sources : inUse'[s] = Cardinality(Held(s)') /\ inUse'[s] \in Nat
  <2> TAKE s \in Sources
  <2>1. /\ Cardinality(Held(s)) \in Nat
        /\ t \in Held(s) => Cardinality(Held(s)) > 0
        /\ Cardinality(Held(s) \ {t})
             = Cardinality(Held(s)) - (IF t \in Held(s) THEN 1 ELSE 0)
        /\ Cardinality(Held(s) \ {t}) \in Nat
    BY <1>2, CountRemove
  <2>2. inUse[s] = Cardinality(Held(s))
    BY <1>0, CountersOfSources
  <2>3. inUse'[s] = inUse[s] - (IF s = Source(t) THEN 1 ELSE 0)
    BY <1>0, <2>1, <2>2 DEF Release, TypeOK
  <2> QED
    BY <1>2, <2>1, <2>2, <2>3
<1>6. TypeOK'
  <2>1. used' \in [Kinds -> Nat] /\ inUse' \in [Sources -> Nat]
    BY <1>0, <1>4, <1>5 DEF Release, TypeOK
  <2>2. promoted' \in [Tasks -> Priorities]
    BY <1>0 DEF Ends, TypeOK, Priorities
  <2>3. /\ pc' \in [Tasks -> {"idle", "waiting", "granted", "using"}]
        /\ cancelled' \in [Tasks -> BOOLEAN]
        /\ leases' \subseteq Tasks /\ preempted' \subseteq leases'
    BY <1>0 DEF Ends, Release, TypeOK
  <2>4. timer' = None /\ passes' = n
    BY DEF BeginDispatch
  <2>5. UNCHANGED << request, seq, served, wait, limit, nextSeq, calls >>
    BY DEF Ends, Release, sourceVars, boundVars
  <2> QED
    BY <1>0, <2>1, <2>2, <2>3, <2>4, <2>5 DEF TypeOK
<1>7. CountersExact'
  <2>1. leases' = {u \in Tasks : pc'[u] \in {"granted", "using"}}
    BY <1>0 DEF CountersExact, Ends, Release, TypeOK
  <2> QED
    BY <2>1, <1>4, <1>5 DEF CountersExact, Held
<1>8. LimitsKept'
  <2>1. Cardinality(BackgroundHttp') \in Nat /\ Cardinality(BackgroundHttp) \in Nat
        /\ Cardinality(BackgroundHttp') <= Cardinality(BackgroundHttp)
    BY <1>3, CountRemove
  <2>2. /\ used["browser"] \in Nat /\ used["browser"] = Cardinality(LeasesOf("browser"))
        /\ used["http"] \in Nat /\ used["http"] = Cardinality(LeasesOf("http"))
    BY <1>0 DEF CountersExact, TypeOK, Kinds
  <2>3. Cardinality(LeasesOf("browser")') <= BrowserCapacity
    BY <1>0, <1>4, <2>2 DEF LimitsKept, Kinds
  <2>4. Cardinality(LeasesOf("http")') <= HttpCapacity
    BY <1>0, <1>4, <2>2 DEF LimitsKept, Kinds
  <2>5. Cardinality(BackgroundHttp') <= HttpCapacity - Reserve
    BY <1>0, <2>1, ReserveType DEF LimitsKept
  <2> QED
    BY <2>3, <2>4, <2>5 DEF LimitsKept, Reserve
<1> QED
  BY <1>6, <1>7, <1>8 DEF Inv

LEMMA NextInv == Inv /\ [Next]_vars => Inv'
<1> SUFFICES ASSUME Inv, [Next]_vars PROVE Inv'
  OBVIOUS
<1>0. TypeOK /\ CountersExact
  BY DEF Inv
<1>1. ASSUME NEW t \in Tasks, Grant(t) PROVE Inv'
  BY <1>1, GrantInv
<1>2. CASE EndDispatch
  <2>1. timer' \in Nat \cup {None}
    <3>1. timer' \in Earliest(Waiting) \/ timer' = None
      BY <1>2 DEF EndDispatch
    <3>2. Waiting \subseteq Tasks
      BY DEF Waiting
    <3> QED
      BY <1>0, <3>1, <3>2, EarliestType DEF TypeOK, Records
  <2>2. preempted' \subseteq leases /\ cancelled' \in [Tasks -> BOOLEAN]
    <3>1. PICK V \in SUBSET leases : /\ preempted' = preempted \cup V
                                    /\ cancelled' = [t \in Tasks |-> cancelled[t] \/ t \in V]
      BY <1>2 DEF EndDispatch
    <3> QED
      BY <1>0, <3>1 DEF TypeOK
  <2>3. passes' \in 0..2
    BY <1>0, <1>2 DEF EndDispatch, Dispatching, TypeOK
  <2>4. TypeOK'
    BY <1>0, <1>2, <2>1, <2>2, <2>3 DEF EndDispatch, TypeOK, sourceVars, boundVars
  <2>5. CountersExact' /\ LimitsKept'
    BY <1>2, SameLeases DEF EndDispatch
  <2> QED
    BY <2>4, <2>5 DEF Inv
<1>3. ASSUME NEW t \in Tasks, Arrive(t) PROVE Inv'
  <2>1. PICK r \in Requests(t) :
          request' = [request EXCEPT ![t] = [r EXCEPT !.priority = Smaller(@, promoted[t])]]
    BY <1>3 DEF Arrive
  <2>2. r \in Records
    BY DEF Records
  <2>3. [r EXCEPT !.priority = Smaller(@, promoted[t])] \in Records
    BY <1>0, <2>2 DEF Records, Smaller, TypeOK, Priorities
  <2>4. request' \in [Tasks -> Records]
    BY <1>0, <2>1, <2>3 DEF TypeOK, Records
  <2>5. TypeOK'
    BY <1>0, <1>3, <2>4 DEF Arrive, BeginDispatch, TypeOK, leaseVars, sourceVars, Records
  <2>6. t \notin leases
    BY <1>0, <1>3 DEF Arrive, CountersExact
  <2>7. \A u \in leases : request'[u] = request[u]
    BY <1>0, <2>1, <2>6 DEF TypeOK
  <2>8. CountersExact' /\ LimitsKept'
    BY <1>0, <1>3, <2>7, SameLeases DEF Arrive, leaseVars, TypeOK
  <2> QED
    BY <2>5, <2>8 DEF Inv
<1>4. ASSUME NEW t \in Tasks, Resume(t) PROVE Inv'
  <2>1. TypeOK'
    BY <1>0, <1>4 DEF Resume, TypeOK, leaseVars, sourceVars, loopVars, boundVars
  <2>2. CountersExact' /\ LimitsKept'
    BY <1>0, <1>4, SameLeases DEF Resume, leaseVars, TypeOK
  <2> QED
    BY <2>1, <2>2 DEF Inv
<1>5. ASSUME NEW t \in Tasks, Leave(t) PROVE Inv'
  BY <1>5, ReleaseInv DEF Leave
<1>6. ASSUME NEW t \in Tasks, GiveUp(t) PROVE Inv'
  <2>1. promoted' \in [Tasks -> Priorities]
    BY <1>0, <1>6 DEF GiveUp, Ends, TypeOK, Priorities
  <2>2. TypeOK'
    BY <1>0, <1>6, <2>1 DEF GiveUp, Ends, BeginDispatch, TypeOK, leaseVars, sourceVars, boundVars
  <2>3. CountersExact' /\ LimitsKept'
    BY <1>0, <1>6, SameLeases DEF GiveUp, Ends, leaseVars, TypeOK
  <2> QED
    BY <2>2, <2>3 DEF Inv
<1>7. ASSUME NEW t \in Tasks, GiveBack(t) PROVE Inv'
  BY <1>7, ReleaseInv DEF GiveBack
<1>8. ASSUME NEW t \in Tasks, Cancel(t) PROVE Inv'
  <2>1. TypeOK'
    BY <1>0, <1>8 DEF Cancel, Call, TypeOK, leaseVars, sourceVars, loopVars
  <2>2. CountersExact' /\ LimitsKept'
    BY <1>8, SameLeases DEF Cancel, leaseVars
  <2> QED
    BY <2>1, <2>2 DEF Inv
<1>9. ASSUME NEW t \in Tasks, NEW p \in Promotions, Promote(t, p) PROVE Inv'
  <2>1. promoted' \in [Tasks -> Priorities]
    BY <1>0, <1>9 DEF Promote, TypeOK, Smaller, Priorities
  <2>2. [request[t] EXCEPT !.priority = Smaller(@, p)] \in Records
    <3>1. request[t] \in Records /\ p \in Priorities
      BY <1>0 DEF TypeOK, Records
    <3>2. Smaller(request[t].priority, p) \in Priorities
      BY <3>1 DEF Records, Smaller, Priorities
    <3> QED
      BY <3>1, <3>2 DEF Records
  <2>3. request' \in [Tasks -> Records]
    BY <1>0, <1>9, <2>2 DEF Promote, TypeOK, Records
  <2>4. TypeOK'
    BY <1>0, <1>9, <2>1, <2>3 DEF Promote, Call, BeginDispatch, TypeOK, leaseVars, sourceVars, Records
  <2>5. \A u \in leases : request'[u] = request[u]
    BY <1>0, <1>9 DEF Promote, TypeOK, CountersExact, Waiting
  <2>6. CountersExact' /\ LimitsKept'
    BY <1>9, <2>5, SameLeases DEF Promote, leaseVars
  <2> QED
    BY <2>4, <2>6 DEF Inv
<1>10. ASSUME NEW s \in Sources, NEW l \in Limits, Configure(s, l) PROVE Inv'
  <2>1. TypeOK'
    BY <1>0, <1>10 DEF Configure, Call, BeginDispatch, TypeOK, taskVars, leaseVars
  <2>2. CountersExact' /\ LimitsKept'
    BY <1>10, SameLeases DEF Configure, taskVars, leaseVars
  <2> QED
    BY <2>1, <2>2 DEF Inv
<1>11. ASSUME NEW s \in Sources, NEW d \in RetryDelays, SetRetryAfter(s, d) PROVE Inv'
  <2>1. TypeOK'
    <3>1. wait' \in [Sources -> Nat]
      BY <1>0, <1>11 DEF SetRetryAfter, Larger, TypeOK
    <3> QED
      BY <1>0, <1>11, <3>1 DEF SetRetryAfter, Call, BeginDispatch, TypeOK, taskVars, leaseVars
  <2>2. CountersExact' /\ LimitsKept'
    BY <1>11, SameLeases DEF SetRetryAfter, taskVars, leaseVars
  <2> QED
    BY <2>1, <2>2 DEF Inv
<1>12. CASE Tick
  <2>1. TypeOK'
    BY <1>0, <1>12 DEF Tick, TypeOK, taskVars, leaseVars, boundVars
  <2>2. CountersExact' /\ LimitsKept'
    BY <1>12, SameLeases DEF Tick, taskVars, leaseVars
  <2> QED
    BY <2>1, <2>2 DEF Inv
<1>13. CASE TimerFires
  <2>1. TypeOK'
    BY <1>0, <1>13 DEF TimerFires, BeginDispatch, TypeOK, taskVars, leaseVars, sourceVars, boundVars
  <2>2. CountersExact' /\ LimitsKept'
    BY <1>13, SameLeases DEF TimerFires, taskVars, leaseVars
  <2> QED
    BY <2>1, <2>2 DEF Inv
<1>14. CASE UNCHANGED vars
  <2>1. TypeOK'
    BY <1>0, <1>14 DEF TypeOK, vars, taskVars, leaseVars, sourceVars, loopVars, boundVars
  <2>2. CountersExact' /\ LimitsKept'
    BY <1>14, SameLeases DEF vars, taskVars, leaseVars
  <2> QED
    BY <2>1, <2>2 DEF Inv
<1> QED
  BY <1>1, <1>2, <1>3, <1>4, <1>5, <1>6, <1>7, <1>8, <1>9, <1>10, <1>11, <1>12, <1>13, <1>14
     DEF Next, Dispatch, TaskStep

LEMMA Invariance == Spec => []Inv
BY InitInv, NextInv, PTL DEF Spec

(* Every variable keeps its type, for any tasks and sources; the counters  *)
(* of _grant and _release never become negative.                           *)
THEOREM TypeCorrect == Spec => []TypeOK
<1>1. Inv => TypeOK
  BY DEF Inv
<1> QED
  BY <1>1, Invariance, PTL

(* However grants, releases, preemptions and cancellations interleave, the *)
(* capacities and the foreground's reserve are kept, even while _dispatch  *)
(* is running.                                                             *)
THEOREM LimitsAreKept == Spec => []LimitsKept
<1>1. Inv => LimitsKept
  BY DEF Inv
<1> QED
  BY <1>1, Invariance, PTL

(* No lease is lost, whenever its task is cancelled: the counters agree    *)
(* with the tasks that hold one.                                           *)
THEOREM CountersAreExact == Spec => []CountersExact
<1>1. Inv => CountersExact
  BY DEF Inv
<1> QED
  BY <1>1, Invariance, PTL

(* All three together, as the run checks them: _dispatch tests the limits  *)
(* against counters that are exact, and takes leases of their kinds.       *)
THEOREM LeasesAreAccounted == Spec => []LeasesAccounted
<1>1. Inv => LeasesAccounted
  BY DEF Inv, LeasesAccounted
<1> QED
  BY <1>1, Invariance, PTL

-----------------------------------------------------------------------------
(* Wakeups                                                                 *)

LEMMA NextWakeup == Inv /\ NoLostWakeup /\ [Next]_vars => NoLostWakeup'
<1> SUFFICES ASSUME Inv, NoLostWakeup, [Next]_vars, ~ Dispatching',
                    NEW t \in Tasks, t \in Waiting', Candidate(t)'
             PROVE  timer' # None /\ timer' <= wait'[Source(t)']
  BY DEF NoLostWakeup, Waiting
<1>0. /\ TypeOK /\ CountersExact /\ passes \in 0..2
      /\ Source(t) \in Sources /\ wait[Source(t)] \in Nat
  BY LeaseFacts DEF Inv, TypeOK
<1>1. ASSUME NEW u \in Tasks, Grant(u) PROVE FALSE
  BY <1>1 DEF Grant, Dispatching
<1>2. CASE EndDispatch
  <2>1. passes = 1
    BY <1>0, <1>2 DEF EndDispatch, Dispatching
  <2>2. UNCHANGED << pc, request, used, inUse, limit, wait >>
    BY <1>2 DEF EndDispatch, sourceVars
  <2>3. ~ cancelled[t]
    <3>1. PICK V \in SUBSET leases : cancelled' = [u \in Tasks |-> cancelled[u] \/ u \in V]
      BY <1>2 DEF EndDispatch
    <3> QED
      BY <3>1 DEF Waiting
  <2>4. t \in Waiting
    BY <2>2, <2>3 DEF Waiting
  <2>5. Candidate(t) /\ Source(t)' = Source(t)
    BY <2>2 DEF Candidate, SourceOk, CapacityOk, Source, Kind, Priority, Reserve
  <2>6. wait[Source(t)] > 0
    BY <1>0, <1>2, <2>4, <2>5 DEF EndDispatch, Grantable
  <2> DEFINE times == {wait[Source(u)] : u \in {v \in Waiting : Candidate(v) /\ wait[Source(v)] > 0}}
                      \cup ({timer} \ {None})
  <2>7. wait[Source(t)] \in times
    BY <2>4, <2>5, <2>6
  <2>8. times # {}
    BY <2>7
  <2>9. timer' \in {m \in times : \A n \in times : m <= n}
    <3>1. timer' \in Earliest(Waiting)
      BY <1>2, <2>1 DEF EndDispatch
    <3> QED
      BY <3>1, <2>8 DEF Earliest
  <2>10. timer' <= wait[Source(t)]
    BY <2>7, <2>9
  <2>11. None \notin times
    <3>1. \A u \in Waiting : wait[Source(u)] \in Nat
      BY <1>0, LeaseFacts DEF Waiting, TypeOK
    <3> QED
      BY <3>1
  <2> QED
    BY <2>2, <2>5, <2>9, <2>10, <2>11
<1>3. ASSUME UNCHANGED << request, used, inUse, limit, wait, timer, passes >>,
             Waiting' \subseteq Waiting
      PROVE  timer' # None /\ timer' <= wait'[Source(t)']
  <2>1. t \in Waiting /\ Candidate(t) /\ ~ Dispatching /\ Source(t)' = Source(t)
    BY <1>3 DEF Candidate, SourceOk, CapacityOk, Source, Kind, Priority, Reserve, Dispatching
  <2> QED
    BY <1>3, <2>1 DEF NoLostWakeup
<1>4. ASSUME NEW n \in 1..2, BeginDispatch(n) PROVE FALSE
  BY <1>4 DEF BeginDispatch, Dispatching
<1>5. CASE Tick
  <2>1. UNCHANGED << pc, cancelled, request, used, inUse, limit, passes >>
    BY <1>5 DEF Tick, taskVars, leaseVars
  <2>2. t \in Waiting /\ Candidate(t) /\ ~ Dispatching /\ Source(t)' = Source(t)
    BY <2>1 DEF Waiting, Candidate, SourceOk, CapacityOk, Source, Kind, Priority, Reserve, Dispatching
  <2>3. timer # None /\ timer <= wait[Source(t)] /\ timer \in Nat
    BY <1>0, <2>2 DEF NoLostWakeup, TypeOK
  <2>4. /\ wait'[Source(t)] = (IF wait[Source(t)] > 0 THEN wait[Source(t)] - 1 ELSE 0)
        /\ timer' = (IF timer > 0 THEN timer - 1 ELSE timer)
    BY <1>0, <1>5, <2>3 DEF Tick
  <2> QED
    BY <1>0, <2>2, <2>3, <2>4
<1>6. ASSUME NEW u \in Tasks, Resume(u) PROVE timer' # None /\ timer' <= wait'[Source(t)']
  <2>1. Waiting' \subseteq Waiting
    BY <1>0, <1>6 DEF Resume, Waiting, TypeOK
  <2> QED
    BY <1>3, <1>6, <2>1 DEF Resume, leaseVars, sourceVars, loopVars
<1>7. ASSUME NEW u \in Tasks, Cancel(u) PROVE timer' # None /\ timer' <= wait'[Source(t)']
  <2>1. Waiting' \subseteq Waiting
    BY <1>0, <1>7 DEF Cancel, Waiting, TypeOK
  <2> QED
    BY <1>3, <1>7, <2>1 DEF Cancel, leaseVars, sourceVars, loopVars
<1>8. CASE UNCHANGED vars
  BY <1>3, <1>8 DEF vars, taskVars, leaseVars, sourceVars, loopVars, boundVars, Waiting
<1> QED
  BY <1>1, <1>2, <1>4, <1>5, <1>6, <1>7, <1>8
     DEF Next, Dispatch, TaskStep, Arrive, Leave, GiveUp, GiveBack, Promote, Configure,
         SetRetryAfter, TimerFires

(* Between two calls no waiter could have been granted a lease: whoever is *)
(* held up by time alone has a timer that fires no later than its source   *)
(* is ready, whatever was granted, released, configured or cancelled.      *)
THEOREM NoWakeupIsLost == Spec => []NoLostWakeup
<1>1. Init => NoLostWakeup
  BY DEF Init, NoLostWakeup, Waiting
<1> QED
  BY <1>1, Invariance, NextWakeup, PTL DEF Spec

-----------------------------------------------------------------------------
(* Order                                                                   *)

LEMMA OnlyGrantGrants ==
  ASSUME Inv, [Next]_vars, NEW t \in Tasks, pc[t] = "waiting", pc'[t] = "granted"
  PROVE  Grant(t)
<1>0. pc \in [Tasks -> {"idle", "waiting", "granted", "using"}]
  BY DEF Inv, TypeOK
<1>1. CASE UNCHANGED pc
  BY <1>1
<1>2. ASSUME NEW u \in Tasks, Grant(u) PROVE Grant(t)
  BY <1>0, <1>2 DEF Grant
<1>3. ASSUME NEW u \in Tasks, Arrive(u) \/ TaskStep(u) PROVE FALSE
  BY <1>0, <1>3 DEF Arrive, TaskStep, Resume, Leave, GiveUp, GiveBack, Ends
<1>4. CASE EndDispatch
  BY <1>1, <1>4 DEF EndDispatch
<1> QED
  BY <1>1, <1>2, <1>3, <1>4
     DEF Next, Dispatch, Cancel, Promote, Configure, SetRetryAfter, Tick, TimerFires, vars, taskVars

(* Whatever is granted, a more urgent request for the same kind of lease   *)
(* is only passed over because its own source holds it up, and requests to *)
(* one source that are equally urgent are served in order of arrival.      *)
THEOREM NobodyIsOvertaken == Spec => NoOvertaking
<1>1. ASSUME Inv, [Next]_vars, NEW t \in Tasks, pc[t] = "waiting", pc'[t] = "granted",
             NEW u \in Waiting \ {t}, Kind(u) = Kind(t)
      PROVE  /\ Priority(u) < Priority(t) => ~ SourceOk(u) \/ wait[Source(u)] > 0
             /\ Source(u) = Source(t) /\ Priority(u) <= Priority(t) => seq[t] < seq[u]
  <2>1. Grant(t)
    BY <1>1, OnlyGrantGrants
  <2>2. /\ u \in Tasks /\ TypeOK
        /\ Priority(t) \in Nat /\ Priority(u) \in Nat /\ Kind(t) \in Kinds
        /\ wait[Source(u)] \in Nat /\ used["http"] \in Nat
    BY <1>1, LeaseFacts DEF Inv, Waiting, TypeOK, Kinds
  <2>3. /\ SourceOk(t) /\ CapacityOk(t) /\ wait[Source(t)] = 0
        /\ Grantable(u) => Before(t, u)
    BY <2>1 DEF Grant, Grantable, Candidate
  <2>4. Priority(u) <= Priority(t) => CapacityOk(u)
    BY <1>1, <2>2, <2>3, ReserveType DEF CapacityOk, Background, Kinds
  <2>5. ASSUME Priority(u) < Priority(t) PROVE ~ SourceOk(u) \/ wait[Source(u)] > 0
    <3>1. ~ Before(t, u)
      BY <2>2, <2>5 DEF Before
    <3> QED
      BY <2>2, <2>3, <2>4, <2>5, <3>1 DEF Grantable, Candidate
  <2>6. ASSUME Source(u) = Source(t), Priority(u) <= Priority(t) PROVE seq[t] < seq[u]
    <3>1. Grantable(u)
      BY <2>3, <2>4, <2>6 DEF Grantable, Candidate, SourceOk
    <3>2. served[Source(t)] \in Nat
      BY <2>2, LeaseFacts DEF TypeOK
    <3> QED
      BY <2>2, <2>3, <2>6, <3>1, <3>2 DEF Before
  <2> QED
    BY <2>5, <2>6
<1>2. Inv /\ [Next]_vars =>
        [\A t \in Tasks : pc[t] = "waiting" /\ pc'[t] = "granted" =>
           \A u \in Waiting \ {t} : Kind(u) = Kind(t) =>
             /\ Priority(u) < Priority(t) => ~ SourceOk(u) \/ wait[Source(u)] > 0
             /\ Source(u) = Source(t) /\ Priority(u) <= Priority(t) => seq[t] < seq[u]]_vars
  BY <1>1
<1> QED
  BY <1>2, Invariance, PTL DEF Spec, NoOvertaking

-----------------------------------------------------------------------------
(* Preemption                                                              *)

Preemptible == preempted \subseteq BackgroundBrowser

PreemptInv == Preemptible /\ UrgentPreempts

LEMMA SameBackground ==
  ASSUME UNCHANGED leases, \A t \in leases : request'[t] = request[t]
  PROVE  BackgroundBrowser' = BackgroundBrowser
BY DEF BackgroundBrowser, Kind, Priority

LEMMA FewerUrgent ==
  ASSUME Inv, UrgentPreempts, Urgent' \subseteq Urgent, UNCHANGED << preempted, used, passes >>,
         BackgroundBrowser' = BackgroundBrowser
  PROVE  UrgentPreempts'
<1>1. IsFiniteSet(Urgent) /\ IsFiniteSet(BackgroundBrowser) /\ IsFiniteSet(preempted)
  BY LeasesFinite, FS_Subset DEF Inv, TypeOK, Urgent, Waiting, BackgroundBrowser
<1>2. /\ Cardinality(Urgent) \in Nat /\ Cardinality(Urgent') \in Nat
      /\ Cardinality(Urgent') <= Cardinality(Urgent)
      /\ Cardinality(BackgroundBrowser) \in Nat /\ Cardinality(preempted) \in Nat
  BY <1>1, FS_Subset, FS_CardinalityType
<1> QED
  BY <1>2 DEF UrgentPreempts, Urgent, Smaller, Dispatching

LEMMA EndDispatchPreempts ==
  ASSUME Inv, Preemptible, EndDispatch
  PROVE  PreemptInv'
<1>1. PICK V \in SUBSET leases : /\ Victims(V) /\ preempted' = preempted \cup V
                                /\ cancelled' = [t \in Tasks |-> cancelled[t] \/ t \in V]
  BY DEF EndDispatch
<1>2. UNCHANGED << pc, request, leases, used, inUse, limit >>
  BY DEF EndDispatch, sourceVars
<1>3. BackgroundBrowser' = BackgroundBrowser
  BY <1>2, SameBackground
<1>4. V \subseteq BackgroundBrowser \ preempted
  BY <1>1 DEF Victims
<1>5. Preemptible'
  BY <1>1, <1>3, <1>4 DEF Preemptible
<1>6. Urgent' \subseteq Urgent
  <2>1. Waiting' \subseteq Waiting
    BY <1>1, <1>2 DEF Waiting
  <2> QED
    BY <1>2, <2>1 DEF Urgent, Kind, Priority, SourceOk, Source
<1>7. /\ IsFiniteSet(Urgent) /\ IsFiniteSet(BackgroundBrowser)
      /\ IsFiniteSet(preempted) /\ IsFiniteSet(V)
      /\ IsFiniteSet(BackgroundBrowser \ preempted)
  BY LeasesFinite, FS_Subset DEF Inv, TypeOK, Urgent, Waiting, BackgroundBrowser
<1>8. /\ Cardinality(Urgent) \in Nat /\ Cardinality(Urgent') \in Nat
      /\ Cardinality(Urgent') <= Cardinality(Urgent)
      /\ Cardinality(BackgroundBrowser) \in Nat /\ Cardinality(preempted) \in Nat
      /\ Cardinality(V) \in Nat /\ Cardinality(BackgroundBrowser \ preempted) \in Nat
  BY <1>6, <1>7, FS_Subset, FS_CardinalityType
<1>9. Cardinality(preempted') = Cardinality(preempted) + Cardinality(V)
  <2>1. preempted \cap V = {}
    BY <1>4
  <2> QED
    BY <1>1, <1>7, <2>1, CountDisjoint
<1>10. Cardinality(BackgroundBrowser)
         = Cardinality(preempted) + Cardinality(BackgroundBrowser \ preempted)
  <2>1. /\ preempted \cup (BackgroundBrowser \ preempted) = BackgroundBrowser
        /\ preempted \cap (BackgroundBrowser \ preempted) = {}
    BY DEF Preemptible
  <2> QED
    BY <1>7, <2>1, CountDisjoint
<1>11. UrgentPreempts'
  <2>1. CASE Urgent = {}
    <3>1. Cardinality(Urgent') = 0
      BY <1>6, <2>1, FS_EmptySet
    <3> QED
      BY <1>3, <1>8, <1>9, <3>1 DEF UrgentPreempts, Urgent, Smaller
  <2>2. CASE used["browser"] < BrowserCapacity
    <3>1. used["browser"] \in Nat
      BY DEF Inv, TypeOK, Kinds
    <3> QED
      BY <1>2, <2>2, <3>1 DEF UrgentPreempts
  <2>3. CASE Urgent # {} /\ ~ (used["browser"] < BrowserCapacity)
    <3>1. Cardinality(V) = Smaller(Cardinality(Urgent), Cardinality(BackgroundBrowser \ preempted))
      BY <1>1, <2>3 DEF Victims
    <3>2. Cardinality(preempted') >= Smaller(Cardinality(Urgent'), Cardinality(BackgroundBrowser))
      BY <1>8, <1>9, <1>10, <3>1 DEF Smaller
    <3> QED
      BY <1>3, <3>2 DEF UrgentPreempts, Urgent
  <2> QED
    BY <2>1, <2>2, <2>3
<1> QED
  BY <1>5, <1>11 DEF PreemptInv

LEMMA NextPreempt == Inv /\ PreemptInv /\ [Next]_vars => PreemptInv'
<1> SUFFICES ASSUME Inv, PreemptInv, [Next]_vars PROVE PreemptInv'
  OBVIOUS
<1>0. TypeOK /\ CountersExact /\ Preemptible /\ UrgentPreempts /\ preempted \subseteq leases
  BY DEF Inv, PreemptInv, TypeOK
<1>1. ASSUME NEW n \in 1..2, BeginDispatch(n) PROVE UrgentPreempts'
  BY <1>1 DEF BeginDispatch, UrgentPreempts, Dispatching
<1>2. ASSUME UNCHANGED << leases, preempted >>, \A t \in leases : request'[t] = request[t]
      PROVE  Preemptible'
  BY <1>0, <1>2, SameBackground DEF Preemptible
<1>3. ASSUME NEW t \in Tasks, Grant(t) PROVE PreemptInv'
  <2>1. UrgentPreempts'
    BY <1>3 DEF Grant, UrgentPreempts, Dispatching
  <2>2. Preemptible'
    BY <1>0, <1>3 DEF Grant, Preemptible, BackgroundBrowser, Kind, Priority
  <2> QED
    BY <2>1, <2>2 DEF PreemptInv
<1>4. CASE EndDispatch
  BY <1>0, <1>4, EndDispatchPreempts
<1>5. ASSUME NEW t \in Tasks, Arrive(t) PROVE PreemptInv'
  <2>1. \A u \in leases : request'[u] = request[u]
    BY <1>0, <1>5 DEF Arrive, CountersExact, TypeOK
  <2>2. Preemptible'
    BY <1>2, <1>5, <2>1 DEF Arrive, leaseVars
  <2> QED
    BY <1>1, <1>5, <2>2 DEF Arrive, PreemptInv
<1>6. ASSUME NEW t \in Tasks, Ends(t), Release(t), NEW n \in 1..2, BeginDispatch(n) PROVE PreemptInv'
  <2>1. Preemptible'
    BY <1>0, <1>6 DEF Ends, Release, Preemptible, BackgroundBrowser, Kind, Priority
  <2> QED
    BY <1>1, <1>6, <2>1 DEF PreemptInv
<1>7. ASSUME NEW t \in Tasks, GiveUp(t) PROVE PreemptInv'
  BY <1>1, <1>2, <1>7 DEF GiveUp, Ends, leaseVars, PreemptInv
<1>8. ASSUME NEW t \in Tasks, NEW p \in Promotions, Promote(t, p) PROVE PreemptInv'
  <2>1. \A u \in leases : request'[u] = request[u]
    BY <1>0, <1>8 DEF Promote, TypeOK, CountersExact, Waiting
  <2>2. Preemptible'
    BY <1>2, <1>8, <2>1 DEF Promote, leaseVars
  <2> QED
    BY <1>1, <1>8, <2>2 DEF Promote, PreemptInv
<1>9. ASSUME UNCHANGED << leases, request, preempted, used, inUse, limit, passes >>, Waiting' \subseteq Waiting
      PROVE  PreemptInv'
  <2>1. Preemptible' /\ BackgroundBrowser' = BackgroundBrowser
    BY <1>2, <1>9, SameBackground
  <2>2. Urgent' \subseteq Urgent
    BY <1>9 DEF Urgent, Kind, Priority, SourceOk, Source
  <2> QED
    BY <1>0, <1>9, <2>1, <2>2, FewerUrgent DEF PreemptInv
<1>10. ASSUME NEW t \in Tasks, Resume(t) PROVE PreemptInv'
  <2>1. Waiting' \subseteq Waiting
    BY <1>0, <1>10 DEF Resume, Waiting, TypeOK
  <2> QED
    BY <1>9, <1>10, <2>1 DEF Resume, leaseVars, sourceVars, loopVars
<1>11. ASSUME NEW t \in Tasks, Cancel(t) PROVE PreemptInv'
  <2>1. Waiting' \subseteq Waiting
    BY <1>0, <1>11 DEF Cancel, Waiting, TypeOK
  <2> QED
    BY <1>9, <1>11, <2>1 DEF Cancel, leaseVars, sourceVars, loopVars
<1>12. CASE Tick \/ UNCHANGED vars
  BY <1>9, <1>12 DEF Tick, vars, taskVars, leaseVars, sourceVars, loopVars, Waiting
<1>13. ASSUME NEW s \in Sources, NEW l \in Limits, Configure(s, l) PROVE PreemptInv'
  BY <1>1, <1>2, <1>13 DEF Configure, taskVars, leaseVars, PreemptInv
<1>14. ASSUME NEW s \in Sources, NEW d \in RetryDelays, SetRetryAfter(s, d) PROVE PreemptInv'
  BY <1>1, <1>2, <1>14 DEF SetRetryAfter, taskVars, leaseVars, PreemptInv
<1>15. CASE TimerFires
  BY <1>1, <1>2, <1>15 DEF TimerFires, taskVars, leaseVars, PreemptInv
<1> QED
  BY <1>3, <1>4, <1>5, <1>6, <1>7, <1>8, <1>10, <1>11, <1>12, <1>13, <1>14, <1>15
     DEF Next, Dispatch, TaskStep, Leave, GiveBack

(* While urgent work waits for a full browser, as many background leases   *)
(* have been told to stop as it needs, or all of them.                     *)
THEOREM BackgroundYields == Spec => []UrgentPreempts
<1>1. Init => PreemptInv
  <2> SUFFICES ASSUME Init PROVE PreemptInv
    OBVIOUS
  <2>1. Preemptible
    BY DEF Init, Preemptible
  <2>2. used["browser"] = 0
    BY DEF Init, Kinds
  <2> QED
    BY <2>1, <2>2 DEF PreemptInv, UrgentPreempts
<1>2. PreemptInv => UrgentPreempts
  BY DEF PreemptInv
<1> QED
  BY <1>1, <1>2, Invariance, NextPreempt, PTL DEF Spec

=============================================================================
