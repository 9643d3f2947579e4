------------------------- MODULE RecordsParts_proofs -------------------------
(* Proofs about components that MCRecords composes, each by itself, for any      *)
(* values of its constants: the native transport (net/ech.py), diagnostics       *)
(* (diagnostics/store.py), the health of sources (health/service.py), the        *)
(* download of one file from any site (net/http.py), a list that is read page by *)
(* page, whatever the site publishes meanwhile (plugins/runtime.py), corrections *)
(* (library/overrides.py), searches (search/service.py), and the identity of     *)
(* Works (search/mapping.py).                                                    *)
EXTENDS PagedList, EchTransport, DiagnosticsStore, SourceHealth, FileRetrieval,
        Corrections, SearchFlow, WorkIdentity, FiniteSetTheorems, SequenceTheorems, WellFoundedInduction, TLAPS

(* A nonempty set of numbers has a least one.                                    *)
LEMMA LeastOf == ASSUME NEW T, T \subseteq Nat, T # {} PROVE \E m \in T : \A n \in T : m <= n
<1>1. PICK m \in T : \A n \in T : ~(<<n, m>> \in OpToRel(<, Nat)) BY NatLessThanWellFounded, WFMin
<1>2. \A n \in T : ~(n < m) BY <1>1 DEF OpToRel
<1> QED BY <1>2

-----------------------------------------------------------------------------
(* THE NATIVE TRANSPORT. Who looks the configuration up holds the lock for it.   *)
Transfers == [pc : {"idle", "waits", "config", "lookup", "sent", "answered"}, key : 0 .. MaxKeys]
EchInv ==
  /\ siteKey \in 1 .. MaxKeys /\ (config # NoConfig => config \in [key : 1 .. MaxKeys, over : BOOLEAN])
  /\ asker \in EchRequests \cup {NobodyAsks}
  /\ echRequests \in [EchRequests -> Transfers] /\ hops \in [EchRequests -> 0 .. MaxHops]
  /\ Cardinality({r \in EchRequests : HoldsSlot(r)}) <= EchSlots
  /\ \A r \in EchRequests : At(r, {"lookup"}) => asker = r

USE EchAssumption

(* Nobody asks at the start.                                                     *)
LEMMA EchInitially == EchInit => EchInv
<1> SUFFICES ASSUME EchInit PROVE EchInv OBVIOUS
<1>1. \A r \in EchRequests : echRequests[r] = [pc |-> "idle", key |-> 0] BY DEF EchInit, Idle
<1>2. {r \in EchRequests : HoldsSlot(r)} = {} BY <1>1 DEF HoldsSlot, At
<1>3. Cardinality({r \in EchRequests : HoldsSlot(r)}) <= EchSlots BY <1>2, FS_EmptySet
<1>4. echRequests \in [EchRequests -> Transfers] /\ \A r \in EchRequests : ~At(r, {"lookup"})
  BY <1>1 DEF EchInit, Transfers, Idle, At
<1> QED BY <1>3, <1>4 DEF EchInit, EchInv

(* Slots are finitely many, whoever holds them.                                  *)
LEMMA SlotsAre ==
  ASSUME NEW S, S \subseteq EchRequests, NEW T, T \subseteq S, Cardinality(S) <= EchSlots
  PROVE  Cardinality(T) <= EchSlots
<1>1. IsFiniteSet(S) BY FS_Subset
<1>2. Cardinality(T) <= Cardinality(S) /\ IsFiniteSet(T) BY <1>1, FS_Subset
<1>3. Cardinality(T) \in Nat /\ Cardinality(S) \in Nat BY <1>1, <1>2, FS_CardinalityType
<1> QED BY <1>2, <1>3

(* Only one request goes on at a time, and takes a slot only where there is one. *)
LEMMA RequestKeeps ==
  ASSUME EchInv, NEW r \in EchRequests, NEW to \in Transfers, Goes(r, to),
         hops' \in [EchRequests -> 0 .. MaxHops], siteKey' = siteKey,
         config' # NoConfig => config' \in [key : 1 .. MaxKeys, over : BOOLEAN],
         to.pc = "lookup" => asker = NobodyAsks /\ asker' = r,
         to.pc # "lookup" => IF At(r, {"lookup"}) THEN asker' = NobodyAsks
                             ELSE asker' = asker \/ (asker = r /\ asker' = NobodyAsks),
         \/ HoldsSlot(r) \/ to.pc \notin {"config", "lookup", "sent"}
         \/ Cardinality({q \in EchRequests : HoldsSlot(q)}) < EchSlots
  PROVE  EchInv'
<1> DEFINE Held == {q \in EchRequests : HoldsSlot(q)}
<1>1. /\ echRequests' \in [EchRequests -> Transfers] /\ echRequests'[r] = to
      /\ \A q \in EchRequests \ {r} : echRequests'[q] = echRequests[q]
  BY DEF Goes, EchInv
<1>2. ASSUME NEW q \in EchRequests, At(q, {"lookup"})' PROVE asker' = q
  <2>1. CASE q = r BY <1>1, <1>2, <2>1 DEF At
  <2>2. CASE q # r
    <3>1. At(q, {"lookup"}) BY <1>1, <1>2, <2>2 DEF At
    <3>2. asker = q BY <3>1 DEF EchInv
    <3> QED BY <2>2, <3>1, <3>2 DEF EchInv
  <2> QED BY <2>1, <2>2
<1>3. asker' \in EchRequests \cup {NobodyAsks} BY DEF EchInv
<1>4. /\ Held \subseteq EchRequests /\ Cardinality(Held) <= EchSlots
      /\ IsFiniteSet(Held) /\ Cardinality(Held) \in Nat
  BY FS_Subset, FS_CardinalityType DEF EchInv
<1>5. CASE HoldsSlot(r) \/ to.pc \notin {"config", "lookup", "sent"}
  <2>1. Held' \subseteq Held BY <1>1, <1>5 DEF HoldsSlot, At
  <2>2. Cardinality(Held') <= EchSlots BY <1>4, <2>1, SlotsAre
  <2> QED BY <1>1, <1>2, <1>3, <2>2 DEF EchInv
<1>6. CASE Cardinality(Held) < EchSlots
  <2>1. Held' \subseteq Held \cup {r} BY <1>1 DEF HoldsSlot, At
  <2>2. Cardinality(Held \cup {r}) <= Cardinality(Held) + 1
    <3>1. Cardinality(Held \cup {r}) = IF r \in Held THEN Cardinality(Held) ELSE Cardinality(Held) + 1
      BY <1>4, FS_AddElement
    <3>2. PICK n \in Nat : n = Cardinality(Held) BY <1>4
    <3> QED BY <3>1, <3>2
  <2>3. Cardinality(Held \cup {r}) <= EchSlots
    <3>1. IsFiniteSet(Held \cup {r}) BY <1>4, FS_AddElement
    <3>2. Cardinality(Held \cup {r}) \in Nat BY <3>1, FS_CardinalityType
    <3> QED BY <1>4, <1>6, <2>2, <3>2
  <2>4. Cardinality(Held') <= EchSlots BY <2>1, <2>3, <1>4, SlotsAre
  <2> QED BY <1>1, <1>2, <1>3, <2>4 DEF EchInv
<1> QED BY <1>5, <1>6

(* What happens to the configuration and the client holds it too.                *)
LEMMA EchStep == ASSUME EchInv, [EchNext]_echVars PROVE EchInv'
<1>0. 0 \in 0 .. MaxKeys /\ 0 \in 0 .. MaxHops OBVIOUS
<1> DEFINE Held == {q \in EchRequests : HoldsSlot(q)}
<1>1. ASSUME NEW r \in EchRequests, MakeRequest(r) PROVE EchInv'
  <2>1. [pc |-> "waits", key |-> 0] \in Transfers BY DEF Transfers
  <2>2. hops' \in [EchRequests -> 0 .. MaxHops] BY <1>0, <1>1 DEF MakeRequest, EchInv
  <2>3. Goes(r, [pc |-> "waits", key |-> 0]) BY <1>1 DEF MakeRequest, Idle
  <2>4. ~At(r, {"lookup"}) BY <1>1 DEF MakeRequest, At
  <2> QED BY <1>1, <2>1, <2>2, <2>3, <2>4, RequestKeeps DEF MakeRequest, EchInv
<1>2. ASSUME NEW r \in EchRequests, TakeSlot(r) PROVE EchInv'
  <2>1. [pc |-> "config", key |-> 0] \in Transfers BY DEF Transfers
  <2>3. Goes(r, [pc |-> "config", key |-> 0]) BY <1>2 DEF TakeSlot, Idle
  <2>4. ~At(r, {"lookup"}) BY <1>2 DEF TakeSlot, At
  <2> QED BY <1>2, <2>1, <2>3, <2>4, RequestKeeps DEF TakeSlot, EchInv
<1>3. ASSUME NEW r \in EchRequests, TakeConfig(r) PROVE EchInv'
  <2>1. [pc |-> "lookup", key |-> 0] \in Transfers BY DEF Transfers
  <2>2. ~At(r, {"lookup"}) /\ HoldsSlot(r) BY <1>3 DEF TakeConfig, At, HoldsSlot
  <2>3. CASE Known
    <3>1. [pc |-> "sent", key |-> config.key] \in Transfers BY <2>3 DEF Transfers, Known, EchInv
    <3>2. Goes(r, [pc |-> "sent", key |-> config.key]) BY <1>3, <2>3 DEF TakeConfig
    <3> QED BY <1>3, <2>2, <2>3, <3>1, <3>2, RequestKeeps DEF TakeConfig, EchInv
  <2>4. CASE ~Known
    <3>1. Goes(r, [pc |-> "lookup", key |-> 0]) BY <1>3, <2>4 DEF TakeConfig, Idle
    <3> QED BY <1>3, <2>1, <2>2, <2>4, <3>1, RequestKeeps DEF TakeConfig, LockIsFree, EchInv
  <2> QED BY <2>3, <2>4
<1>4. ASSUME NEW r \in EchRequests, LookedUp(r) PROVE EchInv'
  <2>1. [pc |-> "sent", key |-> siteKey] \in Transfers BY DEF Transfers, EchInv
  <2>2. At(r, {"lookup"}) /\ HoldsSlot(r) /\ asker = r BY <1>4 DEF LookedUp, At, HoldsSlot, EchInv
  <2>3. config' \in [key : 1 .. MaxKeys, over : BOOLEAN] BY <1>4 DEF LookedUp, EchInv
  <2> QED BY <1>4, <2>1, <2>2, <2>3, RequestKeeps DEF LookedUp, Released, EchInv
<1>5. ASSUME NEW r \in EchRequests, SiteAnswers(r) PROVE EchInv'
  <2>1. [pc |-> "answered", key |-> 0] \in Transfers /\ [pc |-> "config", key |-> 0] \in Transfers BY DEF Transfers
  <2>2. ~At(r, {"lookup"}) /\ HoldsSlot(r) BY <1>5 DEF SiteAnswers, At, HoldsSlot
  <2>3. CASE Goes(r, [Idle EXCEPT !.pc = "answered"]) /\ UNCHANGED hops
    <3>1. Goes(r, [pc |-> "answered", key |-> 0]) BY <2>3 DEF Idle
    <3> QED BY <1>5, <2>1, <2>2, <2>3, <3>1, RequestKeeps DEF SiteAnswers, EchInv
  <2>4. CASE hops[r] < MaxHops /\ hops' = [hops EXCEPT ![r] = @ + 1] /\ Goes(r, [Idle EXCEPT !.pc = "config"])
    <3>1. Goes(r, [pc |-> "config", key |-> 0]) BY <2>4 DEF Idle
    <3>2. hops' \in [EchRequests -> 0 .. MaxHops] BY <2>4 DEF EchInv
    <3> QED BY <1>5, <2>1, <2>2, <3>1, <3>2, RequestKeeps DEF SiteAnswers, EchInv
  <2> QED BY <1>5, <2>3, <2>4 DEF SiteAnswers
<1>6. ASSUME NEW r \in EchRequests, RequestFails(r) PROVE EchInv'
  <2>1. [pc |-> "idle", key |-> 0] \in Transfers BY DEF Transfers
  <2>2. ~At(r, {"lookup"}) /\ Goes(r, [pc |-> "idle", key |-> 0]) BY <1>6 DEF RequestFails, At, Idle
  <2> QED BY <1>6, <2>1, <2>2, RequestKeeps DEF RequestFails, ConfigAfterFailure, EchInv
<1>7. ASSUME NEW r \in EchRequests, GivesUp(r) PROVE EchInv'
  <2>1. [pc |-> "idle", key |-> 0] \in Transfers BY DEF Transfers
  <2>2. Goes(r, [pc |-> "idle", key |-> 0]) BY <1>7 DEF GivesUp, Idle
  <2>3. At(r, {"lookup"}) => asker = r BY DEF EchInv
  <2> QED BY <1>7, <2>1, <2>2, <2>3, RequestKeeps DEF GivesUp, Released, EchInv
<1>8. CASE ConfigEnds \/ SiteChangesKey \/ UNCHANGED echVars
  <2>1. echRequests' = echRequests /\ asker' = asker /\ hops' = hops
    BY <1>8 DEF ConfigEnds, SiteChangesKey, echVars
  <2>2. Held' = Held /\ (\A r \in EchRequests : At(r, {"lookup"})' => At(r, {"lookup"})) BY <2>1 DEF HoldsSlot, At
  <2>3. siteKey' \in 1 .. MaxKeys BY <1>8 DEF ConfigEnds, SiteChangesKey, echVars, EchInv
  <2>4. config' # NoConfig => config' \in [key : 1 .. MaxKeys, over : BOOLEAN]
    <3>1. CASE ConfigEnds
      <4>1. config \in [key : 1 .. MaxKeys, over : BOOLEAN] BY <3>1 DEF ConfigEnds, Known, EchInv
      <4> QED BY <3>1, <4>1 DEF ConfigEnds
    <3>2. CASE config' = config BY <3>2 DEF EchInv
    <3> QED BY <1>8, <3>1, <3>2 DEF SiteChangesKey, echVars
  <2> QED BY <2>1, <2>2, <2>3, <2>4 DEF EchInv
<1>9. CASE ReplaceClient
  <2>1. [pc |-> "idle", key |-> 0] \in Transfers BY DEF Transfers
  <2>2. echRequests' \in [EchRequests -> Transfers] BY <1>9, <2>1 DEF ReplaceClient, Idle, EchInv
  <2>3. \A r \in EchRequests : ~HoldsSlot(r)' BY <1>9 DEF ReplaceClient, HoldsSlot, At, Idle
  <2>4. Held' = {} BY <2>3
  <2>5. Cardinality(Held') <= EchSlots BY <2>4, FS_EmptySet
  <2>6. \A r \in EchRequests : ~At(r, {"lookup"})' BY <2>3 DEF HoldsSlot, At
  <2> QED BY <1>9, <2>2, <2>5, <2>6 DEF ReplaceClient, EchInv
<1> QED BY <1>1, <1>2, <1>3, <1>4, <1>5, <1>6, <1>7, <1>8, <1>9 DEF EchNext, RequestStep

(* Two that look up would both hold the lock.                                    *)
LEMMA EchInvShows == ASSUME EchInv PROVE EchTypeOK /\ OneLookup
<1> DEFINE Looking == {r \in EchRequests : At(r, {"lookup"})}
<1>1. Looking \subseteq {asker} BY DEF EchInv
<1>2. Cardinality(Looking) <= 1
  <2>1. IsFiniteSet({asker}) /\ Cardinality({asker}) = 1 BY FS_Singleton
  <2>2. Cardinality(Looking) <= Cardinality({asker}) BY <1>1, <2>1, FS_Subset
  <2> QED BY <2>1, <2>2
<1>3. OneLookup BY <1>2 DEF OneLookup
<1> QED BY <1>3 DEF EchInv, EchTypeOK, Transfers

HIDE EchAssumption

-----------------------------------------------------------------------------
(* THE STORE OF RECORDS. The days' files follow each other, none is of a day to  *)
(* come, and what a rotation leaves is the end of what there was.                *)
Logs == [Days -> SUBSET (0 .. LastRecord)]
InOrder(log) == \A d, e \in Days : d < e => \A x \in log[d], y \in log[e] : x < y
EndOf(rest, log) ==
  /\ \A d \in Days : rest[d] \subseteq log[d]
  /\ \A x \in Records(rest), y \in Records(log) : x < y => y \in Records(rest)
Gapless(log, after, last) == \A x \in Records(log) : x > after /\ (x + 1) .. last \subseteq Records(log)
Aged(log) == \A d \in Days : log[d] # {} => d + MaxAge >= today

DiagnosticsInv ==
  /\ DiagnosticsTypeOK /\ InOrder(segments)
  /\ \A d \in Days : d > today => segments[d] = {}
  /\ Gapless(segments, cleared, lastRecord) /\ BusyDaysAreBounded

USE DiagnosticsAssumption

(* The records of a day are records.                                             *)
LEMMA RecordsAre == ASSUME NEW log PROVE /\ \A d \in Days : log[d] \subseteq Records(log)
                                         /\ \A x \in Records(log) : \E d \in Days : x \in log[d]
BY DEF Records

(* Records can be counted.                                                       *)
LEMMA RecordsCount ==
  ASSUME NEW log \in Logs
  PROVE  Records(log) \subseteq 0 .. LastRecord /\ IsFiniteSet(Records(log)) /\ Cardinality(Records(log)) \in Nat
<1>1. Records(log) \subseteq 0 .. LastRecord BY RecordsAre DEF Logs
<1>2. IsFiniteSet(0 .. LastRecord) BY FS_Interval
<1> QED BY <1>1, <1>2, FS_Subset, FS_CardinalityType

(* The end of the end is the end.                                                *)
LEMMA EndsAgain ==
  ASSUME NEW log, NEW mid, NEW rest, EndOf(mid, log), EndOf(rest, mid)
  PROVE  EndOf(rest, log)
<1>1. \A d \in Days : rest[d] \subseteq log[d] BY DEF EndOf
<1>2. Records(rest) \subseteq Records(mid) BY DEF EndOf, Records
<1>3. ASSUME NEW x \in Records(rest), NEW y \in Records(log), x < y PROVE y \in Records(rest)
  <2>1. y \in Records(mid) BY <1>2, <1>3 DEF EndOf
  <2> QED BY <1>3, <2>1 DEF EndOf
<1> QED BY <1>1, <1>3 DEF EndOf

(* Without the files before some day, the end is left.                           *)
LEMMA FilesDropped ==
  ASSUME NEW log \in Logs, InOrder(log), NEW day \in Int,
         NEW rest, rest = [d \in Days |-> IF d < day THEN {} ELSE log[d]]
  PROVE  rest \in Logs /\ EndOf(rest, log)
<1>1. rest \in Logs BY DEF Logs
<1>2. \A d \in Days : rest[d] \subseteq log[d] OBVIOUS
<1>3. ASSUME NEW x \in Records(rest), NEW y \in Records(log), x < y PROVE y \in Records(rest)
  <2>1. PICK d \in Days : x \in rest[d] BY RecordsAre
  <2>2. PICK e \in Days : y \in log[e] BY RecordsAre
  <2>3. d \in Int /\ e \in Int BY DEF Days
  <2>4. ~(d < day) /\ x \in log[d] BY <2>1
  <2>5. ~(e < d)
    <3>1. SUFFICES ASSUME e < d PROVE FALSE OBVIOUS
    <3>2. y < x BY <2>2, <2>4, <3>1 DEF InOrder
    <3>3. x \in Int /\ y \in Int BY <2>2, <2>4 DEF Logs
    <3> QED BY <1>3, <3>2, <3>3
  <2>6. y \in rest[e] BY <2>2, <2>3, <2>4, <2>5
  <2> QED BY <2>6, RecordsAre
<1> QED BY <1>1, <1>2, <1>3 DEF EndOf

(* An end of what was in order is in order, and of what had no gap has none.     *)
LEMMA EndsKeep ==
  ASSUME NEW log \in Logs, NEW rest, EndOf(rest, log), InOrder(log),
         NEW after \in Nat, NEW last \in 0 .. LastRecord, Gapless(log, after, last)
  PROVE  InOrder(rest) /\ Gapless(rest, after, last)
<1>1. InOrder(rest) BY DEF InOrder, EndOf
<1>2. ASSUME NEW x \in Records(rest) PROVE x > after /\ (x + 1) .. last \subseteq Records(rest)
  <2>1. x \in Records(log) BY <1>2 DEF EndOf, Records
  <2>2. x \in Nat BY <2>1, RecordsCount
  <2>3. x > after /\ (x + 1) .. last \subseteq Records(log) BY <2>1 DEF Gapless
  <2>4. ASSUME NEW y \in (x + 1) .. last PROVE y \in Records(rest)
    <3>1. y \in Records(log) /\ x < y BY <2>2, <2>3, <2>4
    <3> QED BY <1>2, <3>1 DEF EndOf
  <2> QED BY <2>3, <2>4
<1> QED BY <1>1, <1>2 DEF Gapless

(* The newest n are at most n, and the end of all.                               *)
LEMMA NewestSurviveARecord ==
  ASSUME NEW R, R \subseteq 0 .. LastRecord, NEW n \in Nat
  PROVE  /\ NewestOf(n, R) \subseteq R /\ Cardinality(NewestOf(n, R)) <= n
         /\ \A x \in NewestOf(n, R), y \in R : x < y => y \in NewestOf(n, R)
<1> DEFINE N == NewestOf(n, R)
           Above(x) == {y \in R : y >= x}
<1>0. R \subseteq Nat
  <2>1. 0 .. LastRecord \subseteq Nat OBVIOUS
  <2> QED BY <2>1
<1>1. N \subseteq R /\ (\A x \in R : x \in N <=> Cardinality(Above(x)) <= n) BY DEF NewestOf
<1>2. IsFiniteSet(0 .. LastRecord) BY FS_Interval
<1>3. IsFiniteSet(R) BY <1>2, FS_Subset
<1>4. \A x \in R : IsFiniteSet(Above(x)) /\ Cardinality(Above(x)) \in Nat BY <1>3, FS_Subset, FS_CardinalityType
<1>5. IsFiniteSet(N) /\ Cardinality(N) \in Nat BY <1>1, <1>3, FS_Subset, FS_CardinalityType
<1>6. ASSUME NEW x \in N, NEW y \in R, x < y PROVE y \in N
  <2>1. Above(y) \subseteq Above(x)
    <3>1. x \in Nat /\ y \in Nat BY <1>0, <1>1
    <3>2. \A z \in R : z >= y => z >= x BY <1>0, <1>6, <3>1
    <3> QED BY <3>2
  <2>2. Cardinality(Above(y)) <= Cardinality(Above(x)) BY <1>1, <1>4, <2>1, FS_Subset
  <2>3. Cardinality(Above(x)) <= n BY <1>1
  <2>4. Cardinality(Above(x)) \in Nat /\ Cardinality(Above(y)) \in Nat BY <1>1, <1>4
  <2>5. Cardinality(Above(y)) <= n BY <2>2, <2>3, <2>4
  <2> QED BY <1>1, <2>5
<1>7. Cardinality(N) <= n
  <2>1. CASE N = {} BY <2>1, FS_EmptySet
  <2>2. CASE N # {}
    <3>1. N \subseteq Nat BY <1>0, <1>1
    <3>2. PICK m \in N : \A x \in N : m <= x BY <2>2, <3>1, LeastOf
    <3>3. N \subseteq Above(m)
      <4>1. \A x \in N : x >= m BY <3>1, <3>2
      <4> QED BY <1>1, <4>1
    <3>4. Cardinality(N) <= Cardinality(Above(m)) BY <1>1, <1>4, <3>3, FS_Subset
    <3>5. Cardinality(Above(m)) <= n /\ Cardinality(Above(m)) \in Nat BY <1>1, <1>4
    <3> QED BY <1>5, <3>4, <3>5
  <2> QED BY <2>1, <2>2
<1> QED BY <1>1, <1>6, <1>7

(* A rotation leaves the end, of what fits and is not too old.                   *)
LEMMA FittedIs ==
  ASSUME NEW log \in Logs, InOrder(log)
  PROVE  Fitted(log) \in Logs /\ EndOf(Fitted(log), log) /\ Fits(Fitted(log))
<1> DEFINE Holds(d) == log[d] # {} /\ \A e \in Days : log[e] # {} => e <= d
           newest == CHOOSE d \in Days : Holds(d)
           last == [From(newest, log) EXCEPT ![newest] = NewestOf(MaxSize, @)]
           Border(d) == Fits(From(d, log)) /\ ~Fits(From(d - 1, log))
           first == CHOOSE d \in Days : Border(d)
<1>1. CASE Fits(log)
  <2>1. Fitted(log) = log BY <1>1 DEF Fitted
  <2>2. EndOf(log, log) BY DEF EndOf
  <2> QED BY <1>1, <2>1, <2>2
<1>2. ASSUME ~Fits(log) PROVE newest \in Days /\ Holds(newest)
  <2>1. Records(log) # {} BY <1>2, FS_EmptySet DEF Fits
  <2>2. PICK d0 \in Days : log[d0] # {} BY <2>1, RecordsAre
  <2> DEFINE Back == {LastDay - d : d \in {e \in Days : log[e] # {}}}
  <2>3. Back \subseteq Nat BY DEF Days
  <2>4. Back # {} BY <2>2
  <2>5. PICK b \in Back : \A c \in Back : b <= c BY <2>3, <2>4, LeastOf
  <2>6. PICK d \in Days : log[d] # {} /\ b = LastDay - d BY <2>5
  <2>7. ASSUME NEW e \in Days, log[e] # {} PROVE e <= d
    <3>1. b <= LastDay - e BY <2>5, <2>7
    <3>2. LastDay - d <= LastDay - e BY <2>6, <3>1
    <3> QED BY <3>2 DEF Days
  <2>8. Holds(d) BY <2>6, <2>7
  <2> HIDE DEF Holds
  <2> QED BY <2>8
<1>3. CASE ~Fits(log) /\ ~Fits(From(newest, log))
  <2>1. newest \in Days /\ Holds(newest) BY <1>2, <1>3
  <2>2. Fitted(log) = last BY <1>3 DEF Fitted
  <2> HIDE DEF newest
  <2>3. From(newest, log) \in Logs /\ EndOf(From(newest, log), log)
    <3>1. newest \in Int BY <2>1 DEF Days
    <3> QED BY <3>1, FilesDropped DEF From
  <2>4. \A d \in Days : From(newest, log)[d] = IF d = newest THEN log[newest] ELSE {}
    BY <2>1 DEF From, Days
  <2>5. /\ NewestOf(MaxSize, log[newest]) \subseteq log[newest]
        /\ Cardinality(NewestOf(MaxSize, log[newest])) <= MaxSize
        /\ \A x \in NewestOf(MaxSize, log[newest]), y \in log[newest] : x < y => y \in NewestOf(MaxSize, log[newest])
    <3>1. log[newest] \subseteq 0 .. LastRecord BY <2>1 DEF Logs
    <3> QED BY <3>1, NewestSurviveARecord
  <2>6. \A d \in Days : last[d] = IF d = newest THEN NewestOf(MaxSize, log[newest]) ELSE {}
    BY <2>1, <2>4 DEF From
  <2>7. last \in Logs BY <2>1, <2>3, <2>4, <2>5 DEF Logs
  <2> HIDE DEF last
  <2>8. Records(last) = NewestOf(MaxSize, log[newest]) BY <2>1, <2>6 DEF Records
  <2>9. Records(From(newest, log)) = log[newest] BY <2>1, <2>4 DEF Records
  <2>10. EndOf(last, From(newest, log)) BY <2>1, <2>4, <2>5, <2>6, <2>8, <2>9 DEF EndOf
  <2>11. EndOf(last, log) BY <2>3, <2>10, EndsAgain
  <2>12. Fits(last) BY <2>5, <2>8 DEF Fits
  <2> QED BY <2>2, <2>7, <2>11, <2>12
<1>4. CASE ~Fits(log) /\ Fits(From(newest, log))
  <2>1. newest \in Days BY <1>2, <1>4
  <2>2. Fitted(log) = From(first, log) BY <1>4 DEF Fitted
  <2> HIDE DEF newest
  <2> DEFINE Fit == {d \in Nat : Fits(From(d, log))}
  <2>3. newest \in Fit BY <1>4, <2>1 DEF Days
  <2>4. PICK d \in Fit : \A e \in Fit : d <= e BY <2>3, LeastOf
  <2>5. d # 0
    <3>1. From(0, log) = log BY DEF From, Days, Logs
    <3> QED BY <1>4, <2>4, <3>1
  <2>6. d \in Days BY <2>1, <2>3, <2>4, <2>5 DEF Days
  <2>7. ~Fits(From(d - 1, log))
    <3>1. d - 1 \in Nat /\ ~(d <= d - 1) BY <2>4, <2>5
    <3> QED BY <2>4, <3>1
  <2>8. Border(d) BY <2>4, <2>7
  <2>9. first \in Days /\ Border(first)
    <3> HIDE DEF Border
    <3> QED BY <2>6, <2>8
  <2> HIDE DEF first
  <2>10. From(first, log) \in Logs /\ EndOf(From(first, log), log)
    <3>1. first \in Int BY <2>9 DEF Days
    <3> QED BY <3>1, FilesDropped DEF From
  <2> QED BY <2>2, <2>9, <2>10
<1> QED BY <1>1, <1>3, <1>4

(* What a rotation leaves is of the days that count.                             *)
LEMMA RotatedIs ==
  ASSUME NEW log \in Logs, InOrder(log), today \in Days
  PROVE  /\ Rotated(log) \in Logs /\ EndOf(Rotated(log), log)
         /\ Fits(Rotated(log)) /\ Aged(Rotated(log))
<1> DEFINE young == TooOld(log)
<1>1. \A d \in Days : d + MaxAge < today <=> d < today - MaxAge BY DEF Days
<1>2. young = [d \in Days |-> IF d < today - MaxAge THEN {} ELSE log[d]] BY <1>1 DEF TooOld
<1>3. today - MaxAge \in Int BY DEF Days
<1>4. young \in Logs /\ EndOf(young, log) BY <1>2, <1>3, FilesDropped
<1>5. \A d \in Days : young[d] \subseteq log[d] /\ (young[d] # {} => d + MaxAge >= today)
  BY <1>4 DEF EndOf, TooOld, Days
<1>6. InOrder(young) BY <1>5 DEF InOrder
<1> HIDE DEF young
<1>7. Fitted(young) \in Logs /\ EndOf(Fitted(young), young) /\ Fits(Fitted(young)) BY <1>4, <1>6, FittedIs
<1>8. EndOf(Fitted(young), log) BY <1>4, <1>7, EndsAgain
<1>9. Aged(Fitted(young)) BY <1>5, <1>7 DEF Aged, EndOf
<1>10. Rotated(log) = Fitted(young) BY DEF Rotated, young
<1> QED BY <1>7, <1>8, <1>9, <1>10

(* What is left of a store that is in order is in order.                         *)
LEMMA RotationKeeps ==
  ASSUME NEW log \in Logs, InOrder(log), today \in Days, NEW after \in Nat, NEW last \in 0 .. LastRecord,
         Gapless(log, after, last), \A d \in Days : d > today => log[d] = {},
         \A d \in Days : log[d] \subseteq 1 .. last, NEW rest, rest = Rotated(log)
  PROVE  /\ rest \in Logs /\ InOrder(rest) /\ Gapless(rest, after, last) /\ Fits(rest) /\ Aged(rest)
         /\ \A d \in Days : d > today => rest[d] = {}
         /\ \A d \in Days : rest[d] \subseteq 1 .. last
<1>1. rest \in Logs /\ EndOf(rest, log) /\ Fits(rest) /\ Aged(rest) BY RotatedIs
<1>2. InOrder(rest) /\ Gapless(rest, after, last) BY <1>1, EndsKeep
<1>3. \A d \in Days : rest[d] \subseteq log[d] BY <1>1 DEF EndOf
<1> QED BY <1>1, <1>2, <1>3

(* The store begins empty.                                                       *)
LEMMA DiagnosticsInitially == ASSUME DiagnosticsInit PROVE DiagnosticsInv
<1>1. /\ segments = [d \in Days |-> {}] /\ today = 1 /\ lastRecord = 0 /\ cleared = 0 /\ restarted = TRUE
      /\ 1 \in Days
  BY DEF DiagnosticsInit, Days
<1>2. Records(segments) = {} BY <1>1 DEF Records
<1>3. Gapless(segments, cleared, lastRecord) BY <1>2 DEF Gapless
<1>4. BusyDaysAreBounded BY <1>1, FS_EmptySet DEF BusyDaysAreBounded
<1>5. DiagnosticsTypeOK BY <1>1 DEF DiagnosticsTypeOK
<1> QED BY <1>1, <1>3, <1>4, <1>5 DEF DiagnosticsInv, InOrder

(* What is written is the newest, and of the day that is last.                   *)
LEMMA EntryKeeps == ASSUME DiagnosticsInv, RecordEntry PROVE DiagnosticsInv'
<1> DEFINE log == [segments EXCEPT ![today] = @ \cup {lastRecord + 1}]
<1>1. /\ today \in Days /\ lastRecord \in 0 .. LastRecord /\ cleared \in 0 .. lastRecord
      /\ segments \in [Days -> SUBSET (1 .. lastRecord)]
  BY DEF DiagnosticsInv, DiagnosticsTypeOK
<1>2. /\ lastRecord' = lastRecord + 1 /\ lastRecord < LastRecord /\ segments' = AfterRecord(log)
      /\ restarted' = FALSE /\ today' = today /\ cleared' = cleared
  BY DEF RecordEntry
<1>3. \A d \in Days : log[d] = IF d = today THEN segments[d] \cup {lastRecord + 1} ELSE segments[d] BY <1>1
<1>4. lastRecord + 1 \in Nat /\ lastRecord + 1 \in 0 .. LastRecord BY <1>1, <1>2
<1>5. \A d \in Days : log[d] \subseteq 1 .. (lastRecord + 1)
  <2>1. 1 .. lastRecord \subseteq 1 .. (lastRecord + 1) /\ lastRecord + 1 \in 1 .. (lastRecord + 1) BY <1>1
  <2>2. \A d \in Days : segments[d] \subseteq 1 .. lastRecord BY <1>1
  <2> QED BY <1>3, <2>1, <2>2
<1>6. log \in Logs
  <2>1. 1 .. (lastRecord + 1) \subseteq 0 .. LastRecord BY <1>4
  <2> HIDE DEF log
  <2>2. log = [d \in Days |-> log[d]] BY <1>1 DEF log
  <2> QED BY <1>5, <2>1, <2>2 DEF Logs
<1> HIDE DEF log
<1>7. InOrder(log)
  <2> SUFFICES ASSUME NEW d \in Days, NEW e \in Days, d < e, NEW x \in log[d], NEW y \in log[e] PROVE x < y
    BY DEF InOrder
  <2>1. d # today
    <3>1. SUFFICES ASSUME d = today PROVE FALSE OBVIOUS
    <3>2. e > today BY <3>1 DEF Days
    <3>3. segments[e] = {} BY <3>2 DEF DiagnosticsInv
    <3>4. e # today BY <3>1 DEF Days
    <3>5. log[e] = {} BY <1>3, <3>3, <3>4
    <3> QED BY <3>5
  <2>2. x \in segments[d] BY <1>3, <2>1
  <2>3. CASE y \in segments[e] BY <2>2, <2>3 DEF DiagnosticsInv, InOrder
  <2>4. CASE y = lastRecord + 1
    <3>1. x \in 1 .. lastRecord BY <1>1, <2>2
    <3> QED BY <1>1, <2>4, <3>1
  <2> QED BY <1>3, <2>3, <2>4
<1>8. Gapless(log, cleared, lastRecord + 1)
  <2> SUFFICES ASSUME NEW x \in Records(log)
               PROVE  x > cleared /\ (x + 1) .. (lastRecord + 1) \subseteq Records(log)
    BY DEF Gapless
  <2>1. Records(log) = Records(segments) \cup {lastRecord + 1}
    <3>1. \A r : r \in Records(log) <=> \E d \in Days : r \in log[d] BY DEF Records
    <3>2. \A r : r \in Records(segments) <=> \E d \in Days : r \in segments[d] BY DEF Records
    <3>3. ASSUME NEW r, r \in Records(log) PROVE r \in Records(segments) \cup {lastRecord + 1} BY <3>1, <3>2, <3>3, <1>3
    <3>4. ASSUME NEW r, r \in Records(segments) \cup {lastRecord + 1} PROVE r \in Records(log)
      <4>1. lastRecord + 1 \in log[today] BY <1>1, <1>3
      <4>2. \A d \in Days : segments[d] \subseteq log[d] BY <1>3
      <4> QED BY <3>1, <3>2, <3>4, <4>1, <4>2, <1>1
    <3> QED BY <3>3, <3>4
  <2>2. CASE x = lastRecord + 1
    <3>1. PICK n \in Nat : n = lastRecord BY <1>1
    <3>2. x = n + 1 /\ (n + 1 + 1) .. (n + 1) = {} /\ n + 1 > cleared BY <1>1, <2>2, <3>1
    <3> QED BY <3>1, <3>2
  <2>3. CASE x \in Records(segments)
    <3>1. x > cleared /\ (x + 1) .. lastRecord \subseteq Records(segments) BY <2>3 DEF DiagnosticsInv, Gapless
    <3>2. x \in Int
      <4>1. PICK d \in Days : x \in segments[d] BY <2>3, RecordsAre
      <4> QED BY <1>1, <4>1
    <3>3. (x + 1) .. (lastRecord + 1) \subseteq ((x + 1) .. lastRecord) \cup {lastRecord + 1} BY <1>1, <3>2
    <3> QED BY <2>1, <3>1, <3>3
  <2> QED BY <2>1, <2>2, <2>3
<1>9. \A d \in Days : d > today => log[d] = {}
  <2>1. \A d \in Days : d > today => d # today BY DEF Days
  <2> QED BY <1>3, <2>1 DEF DiagnosticsInv
<1>10. /\ segments' \in Logs /\ InOrder(segments') /\ Gapless(segments', cleared, lastRecord + 1)
       /\ \A d \in Days : d > today => segments'[d] = {}
       /\ \A d \in Days : segments'[d] \subseteq 1 .. (lastRecord + 1)
       /\ Cardinality(segments'[today]) >= SegmentSize => Fits(segments') /\ Aged(segments')
  <2>1. CASE Cardinality(log[today]) >= SegmentSize
    <3>1. segments' = Rotated(log) BY <1>2, <2>1 DEF AfterRecord
    <3>2. cleared \in Nat BY <1>1
    <3> QED BY <1>1, <1>4, <1>5, <1>6, <1>7, <1>8, <1>9, <3>1, <3>2, RotationKeeps
  <2>2. CASE ~(Cardinality(log[today]) >= SegmentSize)
    <3>1. segments' = log BY <1>2, <2>2 DEF AfterRecord
    <3> QED BY <1>5, <1>6, <1>7, <1>8, <1>9, <2>2, <3>1
  <2> QED BY <2>1, <2>2
<1>11. DiagnosticsTypeOK'
  <2>1. segments' \in [Days -> SUBSET (1 .. (lastRecord + 1))] BY <1>10 DEF Logs
  <2>2. cleared \in 0 .. (lastRecord + 1) BY <1>1
  <2> QED BY <1>1, <1>2, <1>4, <2>1, <2>2 DEF DiagnosticsTypeOK, Days
<1>12. BusyDaysAreBounded' BY <1>2, <1>10 DEF BusyDaysAreBounded, Aged, Fits, Records, Days
<1>13. InOrder(segments)' /\ Gapless(segments, cleared, lastRecord)'
  BY <1>2, <1>10 DEF InOrder, Gapless, Records, Days
<1> QED BY <1>2, <1>10, <1>11, <1>12, <1>13 DEF DiagnosticsInv, Days

(* A start rotates what there is.                                                *)
LEMMA OpenKeeps == ASSUME DiagnosticsInv, OpenStore PROVE DiagnosticsInv'
<1>1. /\ today \in Days /\ lastRecord \in 0 .. LastRecord /\ cleared \in 0 .. lastRecord
      /\ segments \in [Days -> SUBSET (1 .. lastRecord)]
  BY DEF DiagnosticsInv, DiagnosticsTypeOK
<1>2. /\ segments' = Rotated(segments) /\ restarted' = TRUE /\ today' = today
      /\ lastRecord' = lastRecord /\ cleared' = cleared
  BY DEF OpenStore
<1>3. segments \in Logs /\ cleared \in Nat
  <2>1. 1 .. lastRecord \subseteq 0 .. LastRecord BY <1>1
  <2> QED BY <1>1, <2>1 DEF Logs
<1>4. \A d \in Days : segments[d] \subseteq 1 .. lastRecord BY <1>1
<1>5. /\ segments' \in Logs /\ InOrder(segments') /\ Gapless(segments', cleared, lastRecord)
      /\ Fits(segments') /\ Aged(segments')
      /\ \A d \in Days : d > today => segments'[d] = {}
      /\ \A d \in Days : segments'[d] \subseteq 1 .. lastRecord
  BY <1>1, <1>2, <1>3, <1>4, RotationKeeps DEF DiagnosticsInv
<1>6. DiagnosticsTypeOK'
  <2>1. segments' \in [Days -> SUBSET (1 .. lastRecord)] BY <1>5 DEF Logs
  <2> QED BY <1>1, <1>2, <2>1 DEF DiagnosticsTypeOK, Days
<1>7. BusyDaysAreBounded' BY <1>2, <1>5 DEF BusyDaysAreBounded, Aged, Fits, Records, Days
<1>8. InOrder(segments)' /\ Gapless(segments, cleared, lastRecord)'
  BY <1>2, <1>5 DEF InOrder, Gapless, Records, Days
<1> QED BY <1>2, <1>5, <1>6, <1>7, <1>8 DEF DiagnosticsInv, Days

(* A new day has no file, so that no day is busy, and an empty store is.         *)
LEMMA DiagnosticsStep == ASSUME DiagnosticsInv, [DiagnosticsNext]_diagnosticsVars PROVE DiagnosticsInv'
<1>0. /\ today \in Days /\ lastRecord \in 0 .. LastRecord /\ cleared \in 0 .. lastRecord
      /\ segments \in [Days -> SUBSET (1 .. lastRecord)] /\ restarted \in BOOLEAN
  BY DEF DiagnosticsInv, DiagnosticsTypeOK
<1>1. CASE ClearStore
  <2>1. /\ segments' = [d \in Days |-> {}] /\ cleared' = lastRecord /\ today' = today
        /\ lastRecord' = lastRecord /\ restarted' = restarted
    BY <1>1 DEF ClearStore
  <2>2. Records(segments)' = {} BY <2>1 DEF Records, Days
  <2>3. Gapless(segments, cleared, lastRecord)' BY <2>2 DEF Gapless
  <2>4. BusyDaysAreBounded' BY <1>0, <2>1, FS_EmptySet DEF BusyDaysAreBounded, Days
  <2>5. DiagnosticsTypeOK' BY <1>0, <2>1 DEF DiagnosticsTypeOK, Days
  <2>6. InOrder(segments)' BY <2>1 DEF InOrder, Days
  <2> QED BY <2>1, <2>3, <2>4, <2>5, <2>6 DEF DiagnosticsInv, Days
<1>2. CASE DayPasses
  <2>1. /\ today' = today + 1 /\ segments' = segments /\ cleared' = cleared /\ today + 1 \in Days
        /\ lastRecord' = lastRecord /\ restarted' = restarted
    BY <1>0, <1>2 DEF DayPasses, Days
  <2>2. \A d \in Days : d >= today + 1 => segments[d] = {}
    <3>1. \A d \in Days : d >= today + 1 => d > today BY <1>0 DEF Days
    <3> QED BY <3>1 DEF DiagnosticsInv
  <2>3. segments[today + 1] = {}
    <3>1. today + 1 >= today + 1 BY <1>0 DEF Days
    <3> QED BY <2>1, <2>2, <3>1
  <2>4. BusyDaysAreBounded' BY <2>1, <2>3, FS_EmptySet DEF BusyDaysAreBounded
  <2>5. DiagnosticsTypeOK' BY <1>0, <2>1 DEF DiagnosticsTypeOK, Days
  <2>6. InOrder(segments)' /\ Gapless(segments, cleared, lastRecord)'
    BY <2>1 DEF DiagnosticsInv, InOrder, Gapless, Records, Days
  <2>7. \A d \in Days : d > today + 1 => segments[d] = {}
    <3>1. \A d \in Days : d > today + 1 => d >= today + 1 BY <1>0 DEF Days
    <3> QED BY <2>2, <3>1
  <2> QED BY <2>1, <2>4, <2>5, <2>6, <2>7 DEF DiagnosticsInv, Days
<1>3. CASE UNCHANGED diagnosticsVars
  <2>1. /\ segments' = segments /\ cleared' = cleared /\ today' = today
        /\ lastRecord' = lastRecord /\ restarted' = restarted
    BY <1>3 DEF diagnosticsVars
  <2> QED BY <2>1 DEF DiagnosticsInv, DiagnosticsTypeOK, InOrder, Gapless, BusyDaysAreBounded, Fits, Records, Days
<1> QED BY <1>1, <1>2, <1>3, EntryKeeps, OpenKeeps DEF DiagnosticsNext

(* The newest records are kept, and a busy day's store is bounded.               *)
LEMMA DiagnosticsShow == ASSUME DiagnosticsInv PROVE DiagnosticsTypeOK /\ NewestSurvive /\ BusyDaysAreBounded
BY DEF DiagnosticsInv, Gapless, NewestSurvive

HIDE DiagnosticsAssumption

-----------------------------------------------------------------------------
(* HEALTH. The signals that are kept, and one of the states.                     *)
States == {"healthy", "unknown", "rate_limited", "reconnect_required", "catalog_suspicious", "degraded", "unavailable"}

USE HealthAssumption

(* The states, by how bad they are.                                              *)
LEMMA StatesAre ==
  /\ {Severity[i] : i \in DOMAIN Severity} = States
  /\ \A s \in States : Rank(s) \in 1 .. 7 /\ (Rank(s) = 1 <=> s = "healthy")
<1>1. /\ Severity \in [1 .. 7 -> States] /\ DOMAIN Severity = 1 .. 7 /\ Severity[1] = "healthy"
      /\ Severity[2] = "unknown" /\ Severity[3] = "rate_limited" /\ Severity[4] = "reconnect_required"
      /\ Severity[5] = "catalog_suspicious" /\ Severity[6] = "degraded" /\ Severity[7] = "unavailable"
  BY DEF Severity, States
<1>2. {Severity[i] : i \in DOMAIN Severity} = States
  <2>1. \A i \in DOMAIN Severity : Severity[i] \in States BY <1>1
  <2>2. ASSUME NEW s \in States PROVE \E i \in DOMAIN Severity : Severity[i] = s
    <3>1. /\ 1 \in DOMAIN Severity /\ 2 \in DOMAIN Severity /\ 3 \in DOMAIN Severity /\ 4 \in DOMAIN Severity
          /\ 5 \in DOMAIN Severity /\ 6 \in DOMAIN Severity /\ 7 \in DOMAIN Severity
      BY <1>1
    <3> QED BY <1>1, <3>1, Zenon DEF States
  <2> QED BY <2>1, <2>2
<1>3. ASSUME NEW s \in States PROVE Rank(s) \in 1 .. 7 /\ (Rank(s) = 1 <=> s = "healthy")
  <2>1. \E i \in DOMAIN Severity : Severity[i] = s BY <1>2, <1>3
  <2>2. Rank(s) \in DOMAIN Severity /\ Severity[Rank(s)] = s BY <2>1, Zenon DEF Rank
  <2>3. s = "healthy" => Rank(s) = 1
    <3>1. Rank(s) \in 1 .. 7 BY <1>1, <2>2
    <3>2. Rank(s) \in {1, 2, 3, 4, 5, 6, 7} BY <3>1
    <3> QED BY <1>1, <2>2, <3>2
  <2> QED BY <1>1, <2>2, <2>3
<1> QED BY <1>2, <1>3

(* What a look may store.                                                        *)
LEMMA StateIs ==
  ASSUME NEW s \in Seq(Outcomes), s # << >>, NEW previous \in {"none"} \cup States, NEW state, state = StateOf(s, previous)
  PROVE  \/ state \in {"healthy", previous} \ {"none"}
         \/ Failures(s) # 0 /\ state \in {"rate_limited", "reconnect_required", "catalog_suspicious"}
         \/ Failures(s) # 0 /\ state = "unavailable" /\ Failures(s) >= UnavailableAfter
         \/ Failures(s) # 0 /\ state = "degraded" /\ Failures(s) >= DegradedAfter
<1>1. \A x \in DOMAIN Direct : Direct[x] \in {"rate_limited", "reconnect_required", "catalog_suspicious"} BY DEF Direct
<1>2. /\ previous = "none" => StateOf(s, previous) \in {StateOf(s, previous)}
      /\ \/ state = "healthy"
         \/ previous # "none" /\ state = previous
         \/ Failures(s) # 0 /\ Latest(s) \in DOMAIN Direct /\ state = Direct[Latest(s)]
         \/ Failures(s) # 0 /\ Failures(s) >= UnavailableAfter /\ state = "unavailable"
         \/ Failures(s) # 0 /\ Failures(s) >= DegradedAfter /\ state = "degraded"
  BY Zenon DEF StateOf
<1> QED BY <1>1, <1>2

(* So many failures come first, of the newest uses.                              *)
LEMMA FailuresComeFirst ==
  ASSUME signals \in Seq(Outcomes), NEW n \in Nat \ {0}, Failures(signals) >= n
  PROVE  NewestAre(n, Failed)
<1> DEFINE R == Run(signals, Failed)
           Uses(k) == {i \in 1 .. k : IsMeaningful(signals[i])}
<1>0. /\ DOMAIN signals = 1 .. Len(signals) /\ Len(signals) \in Nat
      /\ R \subseteq Meaningful(signals) /\ Meaningful(signals) \subseteq DOMAIN signals
  BY DEF Run, Meaningful
<1>1. Cardinality(R) >= n BY DEF Failures
<1>2. R # {}
  <2>1. SUFFICES ASSUME R = {} PROVE FALSE OBVIOUS
  <2>2. Cardinality(R) = 0 BY <2>1, FS_EmptySet
  <2> QED BY <1>1, <2>2
<1> DEFINE Back == {Len(signals) - i : i \in R}
<1>3. Back \subseteq Nat BY <1>0
<1>4. Back # {} BY <1>2
<1> HIDE DEF R
<1>5. PICK b \in Back : \A c \in Back : b <= c BY <1>3, <1>4, LeastOf
<1>6. PICK k \in R : b = Len(signals) - k BY <1>5
<1>7. ASSUME NEW i \in R PROVE i <= k
  <2>1. b <= Len(signals) - i BY <1>5, <1>7
  <2>2. i \in Int /\ k \in Int BY <1>0, <1>6, <1>7
  <2> QED BY <1>0, <1>6, <2>1, <2>2
<1>8. k \in 1 .. Len(signals) BY <1>0, <1>6
<1>9. Uses(k) \subseteq R
  <2> SUFFICES ASSUME NEW i \in Uses(k) PROVE i \in R OBVIOUS
  <2>1. k \in Meaningful(signals) /\ (\A j \in Meaningful(signals) : j <= k => signals[j] \in Failed)
    BY <1>6 DEF R, Run
  <2>2. k <= Window BY <2>1 DEF Meaningful
  <2>3. i \in 1 .. k /\ IsMeaningful(signals[i]) OBVIOUS
  <2>4. i \in DOMAIN signals /\ i <= Window BY <1>0, <1>8, <2>2, <2>3
  <2>5. i \in Meaningful(signals) BY <2>3, <2>4 DEF Meaningful
  <2>6. \A j \in Meaningful(signals) : j <= i => j <= k BY <1>0, <1>8, <2>3
  <2> QED BY <2>1, <2>5, <2>6 DEF R, Run
<1>10. R \subseteq Uses(k)
  <2>1. \A i \in R : i \in 1 .. Len(signals) /\ IsMeaningful(signals[i]) BY <1>0 DEF Meaningful
  <2> QED BY <1>7, <1>8, <2>1
<1>11. Uses(k) = R BY <1>9, <1>10
<1>12. \A i \in R : signals[i] \in Failed
  <2>1. \A i \in R : i <= i BY <1>0
  <2> QED BY <2>1 DEF R, Run
<1> HIDE DEF Uses
<1>13. Cardinality(Uses(k)) >= n /\ \A i \in Uses(k) : signals[i] \in Failed BY <1>1, <1>11, <1>12
<1>14. k \in DOMAIN signals BY <1>0, <1>8
<1> QED BY <1>13, <1>14 DEF NewestAre, Uses

(* Nothing is known at first.                                                    *)
LEMMA HealthInitially == ASSUME HealthInit PROVE HealthTypeOK
BY DEF HealthInit, HealthTypeOK

(* What is kept of the signals are signals.                                      *)
LEMMA SignalsStay ==
  ASSUME signals \in Seq(Outcomes), NEW young \in 0 .. Len(signals)
  PROVE  SubSeq(signals, 1, young) \in Seq(Outcomes) /\ Len(SubSeq(signals, 1, young)) = young
<1>1. \A i \in 1 .. young : signals[i] \in Outcomes OBVIOUS
<1> QED BY <1>1, SubSeqProperties

(* Every step keeps so many signals, and a state.                                *)
LEMMA HealthStep == ASSUME HealthTypeOK, [HealthNext]_healthVars PROVE HealthTypeOK'
<1>0. signals \in Seq(Outcomes) /\ Len(signals) <= MaxSignals /\ health \in {"none"} \cup States
  BY StatesAre DEF HealthTypeOK
<1>1. ASSUME NEW o \in Outcomes, Signal(o) PROVE HealthTypeOK'
  <2>1. PICK young \in 0 .. Len(signals) : signals' = Capped(<<o>> \o SubSeq(signals, 1, young), MaxSignals)
    BY <1>1 DEF Signal
  <2>2. PICK old \in Seq(Outcomes) : old = SubSeq(signals, 1, young) BY <1>0, SignalsStay
  <2>3. PICK all \in Seq(Outcomes) : all = <<o>> \o old
    <3>1. <<o>> \in Seq(Outcomes) BY <1>1
    <3> QED BY <2>2, <3>1, ConcatProperties
  <2> DEFINE n == IF Len(all) < MaxSignals THEN Len(all) ELSE MaxSignals
  <2>4. signals' = SubSeq(all, 1, n) BY <2>1, <2>2, <2>3 DEF Capped
  <2>5. n \in 0 .. Len(all) /\ n <= MaxSignals BY <2>3
  <2> HIDE DEF n
  <2>6. \A i \in 1 .. n : all[i] \in Outcomes BY <2>3, <2>5
  <2>7. SubSeq(all, 1, n) \in Seq(Outcomes) /\ Len(SubSeq(all, 1, n)) = n BY <2>5, <2>6, SubSeqProperties
  <2> QED BY <1>1, <2>4, <2>5, <2>7 DEF Signal, HealthTypeOK
<1>2. CASE SignalsAge
  <2>1. PICK young \in 0 .. (Len(signals) - 1) : signals' = SubSeq(signals, 1, young) /\ health' = health
    BY <1>2 DEF SignalsAge
  <2>2. young \in 0 .. Len(signals) /\ young <= MaxSignals BY <1>0
  <2>3. signals' \in Seq(Outcomes) /\ Len(signals') = young BY <1>0, <2>1, <2>2, SignalsStay
  <2> QED BY <2>1, <2>2, <2>3 DEF HealthTypeOK
<1>3. CASE Look
  <2>1. signals # << >> /\ health' = StateOf(signals, health) /\ signals' = signals BY <1>3 DEF Look
  <2>2. health' \in {"none"} \cup States BY <1>0, <2>1, StateIs DEF States
  <2> QED BY <1>0, <2>1, <2>2, StatesAre DEF HealthTypeOK
<1>4. CASE UNCHANGED healthVars BY <1>4 DEF healthVars, HealthTypeOK
<1> QED BY <1>1, <1>2, <1>3, <1>4 DEF HealthNext

(* What a step may do with a state that is known.                                *)
WorseOK ==
  health' # health /\ health # "none" /\ Rank(health') > Rank(health) =>
    /\ NewestAre(1, Failed)
    /\ health' = "degraded" => NewestAre(DegradedAfter, Failed)
    /\ health' = "unavailable" => NewestAre(UnavailableAfter, Failed)

(* Only a look changes the state, and only failures make it worse.               *)
LEMMA WorseStep == ASSUME HealthTypeOK, [HealthNext]_healthVars PROVE WorseOK
<1> SUFFICES ASSUME health' # health, health # "none", Rank(health') > Rank(health)
             PROVE  /\ NewestAre(1, Failed)
                    /\ health' = "degraded" => NewestAre(DegradedAfter, Failed)
                    /\ health' = "unavailable" => NewestAre(UnavailableAfter, Failed)
  BY DEF WorseOK
<1>1. Look BY DEF HealthNext, Signal, SignalsAge, healthVars
<1>2. signals \in Seq(Outcomes) /\ health \in States /\ signals # << >> /\ health' = StateOf(signals, health)
  BY <1>1, StatesAre DEF HealthTypeOK, Look
<1>3. health' # "healthy"
  <2>1. SUFFICES ASSUME health' = "healthy" PROVE FALSE OBVIOUS
  <2>2. Rank(health') = 1 /\ Rank(health) \in 1 .. 7 BY <1>2, <2>1, StatesAre DEF States
  <2> QED BY <2>2
<1>4. /\ Failures(signals) # 0
      /\ health' = "degraded" => Failures(signals) >= DegradedAfter
      /\ health' = "unavailable" => Failures(signals) >= UnavailableAfter
  BY <1>2, <1>3, StateIs
<1>5. Failures(signals) >= 1
  <2>1. Run(signals, Failed) \subseteq 1 .. Len(signals) BY <1>2 DEF Run, Meaningful
  <2>2. PICK len \in Nat : len = Len(signals) BY <1>2
  <2>3. IsFiniteSet(1 .. len)
    <3>1. 1 \in Int /\ len \in Int OBVIOUS
    <3> QED BY ONLY <3>1, FS_Interval
  <2>4. Failures(signals) \in Nat BY <2>1, <2>2, <2>3, FS_Subset, FS_CardinalityType DEF Failures
  <2> QED BY <1>4, <2>4
<1> QED BY <1>2, <1>4, <1>5, FailuresComeFirst

HIDE HealthAssumption

-----------------------------------------------------------------------------
(* ONE FILE. What is known of it, and an attempt to fetch it.                    *)
KnownOfFile == [validator : 0 .. LastVersion, expected : Nat]
Attempts == [pc : {"queued", "ask", "body", "verify", "commit", "done"}, rest : BOOLEAN, offset : Nat,
             of : 0 .. LastVersion, told : KnownOfFile]

USE FilesAssumption

(* What holds of a file whatever its site answers, also of sites that do not say *)
(* of which version a range is: the part is a sequence of chunks within the      *)
(* limit, and what arrives goes on where it ends.                                *)
FileParts == Seq(FileVersions \X (1 .. MaxChunks))
AnyFile ==
  /\ fileSite \in FileSites /\ online \in FileVersions
  /\ stagedFile \in {NoPart} \cup FileParts
  /\ fileState \in KnownOfFile /\ attempt \in Attempts
  /\ attempt.pc = "body" => attempt.of \in FileVersions /\ stagedFile # NoPart /\ attempt.offset = Len(stagedFile)
  /\ (attempt.pc = "ask" /\ attempt.rest = TRUE) => stagedFile # NoPart

(* A part has a length, and what is no part is none.                             *)
LEMMA PartsAre ==
  /\ NoPart \notin FileParts /\ <<>> \in FileParts /\ Len(<<>>) = 0
  /\ \A p \in FileParts : Len(p) \in Nat /\ \A n \in 1 .. Len(p) : p[n] \in FileVersions \X (1 .. MaxChunks)
  /\ NoAttempt \in Attempts /\ NoAttempt.pc = "queued" /\ NothingKnown \in KnownOfFile
<1>1. ASSUME NEW p \in FileParts
      PROVE  /\ Len(p) \in Nat /\ p \in Seq((1 .. LastVersion) \X Nat)
             /\ \A n \in 1 .. Len(p) : p[n] \in FileVersions \X (1 .. MaxChunks)
  <2>1. p \in [1 .. Len(p) -> FileVersions \X (1 .. MaxChunks)] /\ Len(p) \in Nat BY DEF FileParts
  <2>2. p \in [1 .. Len(p) -> (1 .. LastVersion) \X Nat] BY <2>1 DEF FileVersions
  <2> QED BY <2>1, <2>2, SeqDef
<1>2. <<>> \in FileParts /\ Len(<<>>) = 0 BY DEF FileParts
<1>3. NoAttempt \in Attempts /\ NoAttempt.pc = "queued" /\ NothingKnown \in KnownOfFile
  BY DEF NoAttempt, NothingKnown, Attempts, KnownOfFile
<1> QED BY <1>1, <1>2, <1>3

(* A file is so at the start.                                                    *)
LEMMA AnyFileInitially == ASSUME FileInit PROVE AnyFile
BY PartsAre DEF FileInit, AnyFile, FileVersions

(* What a site answers is of some version, and has a size.                       *)
LEMMA AnswerIs ==
  ASSUME AnyFile
  PROVE  FileAnswer.tag \in {0, online} /\ FileAnswer.total \in Nat /\ online \in 0 .. LastVersion
<1>1. online \in 0 .. LastVersion /\ FileLength[online] \in Nat BY DEF AnyFile, FileVersions
<1>2. FileAnswer \in {Answer200, Answer416, Answer206(0, online), Answer206(StagedSize, 0), Answer206(StagedSize, online)}
  <2> DEFINE tag == IF fileSite.ranges \in {"terse", "silent"} THEN 0 ELSE online
  <2>1. tag \in {0, online} OBVIOUS
  <2>2. FileAnswer \in {Answer200, Answer416, Answer206(0, online), Answer206(StagedSize, tag)} BY DEF FileAnswer
  <2> QED BY <2>1, <2>2
<1>3. Answer200.tag \in {0, online} /\ Answer200.total \in Nat BY <1>1 DEF Answer200
<1>4. Answer416.tag = Answer200.tag /\ Answer416.total = Answer200.total BY DEF Answer416, Answer200
<1>5. \A from, tag : Answer206(from, tag).tag = tag /\ Answer206(from, tag).total = FileLength[online] BY DEF Answer206
<1> QED BY <1>1, <1>2, <1>3, <1>4, <1>5

(* The headers arrive, of the rest or of the whole.                              *)
LEMMA AnyHeaders == ASSUME AnyFile, HeadersArrive PROVE AnyFile'
<1> USE DEF AnyFile
<1>h. attempt.pc = "ask" /\ UNCHANGED <<fileSite, online, fileState>> BY DEF HeadersArrive
<1>1. CASE attempt' = [attempt EXCEPT !.rest = FALSE] /\ UNCHANGED stagedFile
  <2>1. attempt' \in Attempts /\ attempt'.pc = "ask" /\ attempt'.rest = FALSE BY <1>1, <1>h DEF Attempts
  <2> QED BY <1>1, <1>h, <2>1
<1>2. ASSUME NEW goes \in BOOLEAN, goes = TRUE => ContinuesPart(FileAnswer),
             attempt' = [attempt EXCEPT !.pc = "body", !.of = online, !.offset = IF goes THEN FileAnswer.offset ELSE 0,
                                        !.told = [validator |-> FileAnswer.tag, expected |-> FileAnswer.total]],
             stagedFile' = IF goes THEN stagedFile ELSE <<>>
      PROVE  AnyFile'
  <2>1. stagedFile' \in FileParts /\ stagedFile' # NoPart /\ (IF goes THEN FileAnswer.offset ELSE 0) = Len(stagedFile')
    <3>1. CASE goes = TRUE
      <4>1. attempt.rest = TRUE /\ FileAnswer.offset = StagedSize BY <1>2, <3>1 DEF ContinuesPart, Attempts
      <4> QED BY <4>1, <3>1, <1>2, <1>h DEF StagedSize
    <3>2. CASE goes = FALSE BY <3>2, <1>2, PartsAre
    <3> QED BY <3>1, <3>2
  <2>2. PICK off \in Nat : off = (IF goes THEN FileAnswer.offset ELSE 0) /\ off = Len(stagedFile') BY <2>1, PartsAre
  <2>3. PICK told \in KnownOfFile : told = [validator |-> FileAnswer.tag, expected |-> FileAnswer.total]
    <3>1. 0 \in 0 .. LastVersion OBVIOUS
    <3> QED BY <3>1, AnswerIs DEF KnownOfFile
  <2>4. attempt' = [attempt EXCEPT !.pc = "body", !.of = online, !.offset = off, !.told = told] BY <1>2, <2>2, <2>3
  <2>5. attempt' \in Attempts /\ attempt'.pc = "body" /\ attempt'.of = online /\ attempt'.offset = off
    BY <2>4, AnswerIs DEF Attempts
  <2> QED BY <1>h, <2>1, <2>2, <2>5
<1>3. \/ attempt' = [attempt EXCEPT !.rest = FALSE] /\ UNCHANGED stagedFile
      \/ \E goes \in BOOLEAN :
           /\ goes = TRUE => ContinuesPart(FileAnswer)
           /\ attempt' = [attempt EXCEPT !.pc = "body", !.of = online, !.offset = IF goes THEN FileAnswer.offset ELSE 0,
                                         !.told = [validator |-> FileAnswer.tag, expected |-> FileAnswer.total]]
           /\ stagedFile' = IF goes THEN stagedFile ELSE <<>>
  <2>1. CASE ContinuesPart(FileAnswer) BY <2>1 DEF HeadersArrive
  <2>2. CASE ~ContinuesPart(FileAnswer) BY <2>2 DEF HeadersArrive
  <2> QED BY <2>1, <2>2
<1> QED BY <1>1, <1>2, <1>3

(* A chunk arrives.                                                              *)
LEMMA AnyChunk == ASSUME AnyFile, ChunkArrives PROVE AnyFile'
<1> USE DEF AnyFile
<1>h. /\ attempt.pc = "body" /\ UNCHANGED <<fileSite, online, fileState>>
      /\ stagedFile' = Append(stagedFile, Chunk(attempt.of, attempt.offset + 1)) /\ attempt' = [attempt EXCEPT !.offset = @ + 1]
      /\ Len(stagedFile) < MaxChunks
  BY DEF ChunkArrives
<1>1. stagedFile \in FileParts /\ attempt.of \in FileVersions /\ attempt.offset = Len(stagedFile) BY <1>h
<1>2. PICK len \in Nat : len = Len(stagedFile) BY <1>1, PartsAre
<1>3. attempt.offset + 1 = len + 1 /\ len + 1 \in Nat /\ len + 1 \in 1 .. MaxChunks BY <1>h, <1>1, <1>2
<1>4. attempt' \in Attempts /\ attempt'.pc = "body" /\ attempt'.of = attempt.of /\ attempt'.offset = len + 1
  BY <1>h, <1>3 DEF Attempts
<1>5. Chunk(attempt.of, attempt.offset + 1) \in FileVersions \X (1 .. MaxChunks) BY <1>1, <1>3 DEF Chunk
<1>6. stagedFile' \in FileParts /\ Len(stagedFile') = len + 1 BY <1>h, <1>1, <1>2, <1>5, AppendProperties DEF FileParts
<1> QED BY <1>h, <1>1, <1>4, <1>6, PartsAre

(* Every other step ends the attempt, or only its part of it.                    *)
LEMMA AnyOtherStep ==
  ASSUME AnyFile, FileNext, ~HeadersArrive, ~ChunkArrives
  PROVE  AnyFile'
<1> USE DEF AnyFile
<1>1. CASE StartAttempt
  <2>1. attempt' = [NoAttempt EXCEPT !.pc = "ask", !.rest = FileResumable]
        /\ UNCHANGED <<fileSite, online, stagedFile, fileState>>
    BY <1>1 DEF StartAttempt
  <2>2. FileResumable \in BOOLEAN /\ (FileResumable => StagedSize > 0) BY DEF FileResumable
  <2>3. stagedFile = NoPart => ~(StagedSize > 0) BY DEF StagedSize
  <2>4. attempt' \in Attempts /\ attempt'.pc = "ask" /\ attempt'.rest = FileResumable BY <2>1, <2>2, PartsAre DEF Attempts
  <2> QED BY <2>1, <2>2, <2>3, <2>4
<1>2. CASE FileVerified \/ FileCommitted
  <2>1. PICK pc \in {"commit", "done"} : attempt' = [attempt EXCEPT !.pc = pc]
    BY <1>2 DEF FileVerified, FileCommitted
  <2>2. attempt' \in Attempts /\ attempt'.pc = pc BY <2>1 DEF Attempts
  <2>3. stagedFile' \in {stagedFile, NoPart} /\ UNCHANGED <<fileSite, online, fileState>>
    BY <1>2 DEF FileVerified, FileCommitted
  <2> QED BY <2>2, <2>3
<1>3. CASE BodyEnds
  <2>1. fileState' = attempt.told /\ attempt' = [NoAttempt EXCEPT !.pc = "verify"] /\ UNCHANGED <<fileSite, online, stagedFile>>
    BY <1>3 DEF BodyEnds
  <2>2. attempt' \in Attempts /\ attempt'.pc = "verify" BY <2>1, PartsAre DEF Attempts
  <2> QED BY <2>1, <2>2 DEF Attempts
<1>4. CASE FoundBad \/ UnexpectedResponse \/ TooLarge \/ AttemptBreaks
  <2>1. /\ attempt' = NoAttempt /\ UNCHANGED <<fileSite, online>>
        /\ \/ stagedFile' = stagedFile /\ fileState' = fileState
           \/ stagedFile' = NoPart /\ fileState' = NothingKnown
    BY <1>4 DEF FoundBad, UnexpectedResponse, TooLarge, AttemptBreaks
  <2> QED BY <2>1, PartsAre
<1>5. CASE UserRetries
  <2>1. /\ attempt.pc = "queued" /\ fileState' = NothingKnown /\ stagedFile' \in {stagedFile, NoPart}
        /\ UNCHANGED <<fileSite, online, attempt>>
    BY <1>5 DEF UserRetries
  <2> QED BY <2>1, PartsAre
<1>6. CASE SiteReplacesFile
  <2>1. online' = online + 1 /\ online < LastVersion /\ UNCHANGED <<fileSite, stagedFile, fileState, attempt>>
    BY <1>6 DEF SiteReplacesFile
  <2>2. online' \in FileVersions BY <2>1 DEF FileVersions
  <2> QED BY <2>1, <2>2
<1> QED BY <1>1, <1>2, <1>3, <1>4, <1>5, <1>6 DEF FileNext, AttemptSteps

(* Every step of a download of one file, from whatever site.                     *)
LEMMA AnyFileStep == ASSUME AnyFile, [FileNext]_fileVars PROVE AnyFile'
<1>1. CASE UNCHANGED fileVars BY <1>1 DEF fileVars, AnyFile
<1>2. CASE FileNext BY <1>2, AnyHeaders, AnyChunk, AnyOtherStep
<1> QED BY <1>1, <1>2

(* It has the types of its variables.                                            *)
LEMMA AnyFileTypes == ASSUME AnyFile PROVE FileTypeOK
<1>1. attempt.pc \in {"queued", "ask", "body", "verify", "commit", "done"} BY DEF AnyFile, Attempts
<1> QED BY <1>1, PartsAre DEF AnyFile, FileTypeOK, KnownOfFile

HIDE FilesAssumption

-----------------------------------------------------------------------------
(* A LIST READ PAGE BY PAGE. Unless a page was cut, the run has read the list as *)
(* it was at first up to some entry c (Covers), from the window's first page on, *)
(* at least to the page it reads next: what is published meanwhile only makes it *)
(* read entries again. The entries are of the list, each once, so that as many   *)
(* as the site counted when the first page was read are all of them (Counts).    *)
Shift == IF site.list = atFirst THEN 0 ELSE 1
CoveredAt(entries, bad, i) == IF IsUsable(atFirst[i]) THEN Contains(entries, atFirst[i]) ELSE bad

UpTo(entries, bad, c) ==
  /\ \A i \in (recipe.from * site.size + 1) .. c : CoveredAt(entries, bad, i)
  /\ recipe.from = 0 =>
       /\ \A k \in DOMAIN entries : entries[k] # NewEntry => \E p \in 1 .. c : atFirst[p] = entries[k]
       /\ \A k, l \in DOMAIN entries : k < l /\ entries[k] # NewEntry =>
            \A q \in DOMAIN atFirst : atFirst[q] = entries[l] => \E p \in 1 .. (q - 1) : atFirst[p] = entries[k]

Covers == \E c \in 0 .. Len(atFirst) : UpTo(run.entries, run.invalid, c) /\ (c = Len(atFirst) \/ run.index * site.size <= c + Shift)

OfTheList(entries) ==
  /\ entries \in Seq(Range(site.list)) /\ \A k \in DOMAIN entries : IsUsable(entries[k])
  /\ \A k, l \in DOMAIN entries : entries[k] = entries[l] => k = l

RunRows(r) ==
  [index : Nat, pages : 0 .. MaxPages, seenPages : SUBSET Nat, entries : {r.entries}, previous : {r.previous},
   expected : Int, invalid : BOOLEAN, truncated : BOOLEAN, complete : BOOLEAN,
   reason : CompleteReasons \cup OtherReasons \cup {NoReason}]

PagedShape ==
  /\ recipe \in Recipes /\ Windows(recipe) /\ atFirst \in SiteLists
  /\ site.list = atFirst \/ site.list = <<NewEntry>> \o atFirst
  /\ site \in [list : {site.list}, size : PageSizes, past : {"empty", "last", "not_found", "first"}]
  /\ run \in RunRows(run)

(* A list that links forward has come as far as its last page, or back.          *)
Forward ==
  recipe.mode = "next_link" => \/ run.pages = 0 /\ run.index = 0
                               \/ 0 \in run.seenPages /\ run.index <= LastPage
Counts ==
  recipe.stop = "total_count" =>
    IF run.pages = 0 THEN run.expected = -1
    ELSE \/ run.expected = Len(site.list)
         \/ run.expected = Len(atFirst) /\ (Contains(run.entries, NewEntry) => run.index > LastPage)

Running ==
  /\ run.complete = FALSE /\ run.pages < MaxPages /\ Len(run.entries) <= TotalCap
  /\ recipe.mode = "none" => run.pages = 0
  /\ run.pages = 0 => run.entries = <<>> /\ run.index = recipe.from
  /\ recipe.mode = "page_number" => run.index = recipe.from + run.pages
  /\ run.truncated = FALSE => Covers
  /\ Forward /\ Counts

PagedInv == PagedShape /\ OfTheList(run.entries) /\ (run.reason = NoReason => Running)
            /\ PagedTypeOK /\ CompleteIsWhole /\ InListOrder

USE PagesAssumption

(* Products grow with their factors.                                             *)
LEMMA TimesGrows == ASSUME NEW a \in Nat, NEW b \in Nat, NEW s \in Nat, a <= b PROVE a * s <= b * s
<1>1. PICK d \in Nat : b = a + d
  <2>1. b - a \in Nat /\ b = a + (b - a) OBVIOUS
  <2> QED BY <2>1
<1>2. (a + d) * s = a * s + d * s OBVIOUS
<1>3. d * s \in Nat /\ a * s \in Nat OBVIOUS
<1> QED BY <1>1, <1>2, <1>3

(* What the quotient is.                                                         *)
LEMMA DivIs == ASSUME NEW a \in Nat, NEW s \in Nat \ {0} PROVE (a \div s) \in Nat /\ (a \div s) * s <= a /\ a < (a \div s + 1) * s
OBVIOUS

(* The entries after each step of the loop, whatever the nodes are.               *)
LoopOf(base, nodes, N) == CHOOSE g : g = [n \in 0 .. N |-> IF n = 0 THEN base ELSE AddUnseen(g[n - 1], nodes[n])]
IsLoop(f, base, nodes, N) == f = [n \in 0 .. N |-> IF n = 0 THEN base ELSE AddUnseen(f[n - 1], nodes[n])]

(* The loop over the nodes of a page is a recursive function that exists.      *)
LEMMA LoopIs ==
  ASSUME NEW base, NEW nodes, NEW N \in Nat
  PROVE  IsLoop(LoopOf(base, nodes, N), base, nodes, N)
<1> DEFINE Does(g, m) == g = [n \in 0 .. m |-> IF n = 0 THEN base ELSE AddUnseen(g[n - 1], nodes[n])]
<1>1. \E g : Does(g, N)
  <2> DEFINE T == {m \in Nat : ~ \E g : Does(g, m)}
  <2> SUFFICES ASSUME T # {} PROVE FALSE OBVIOUS
  <2>1. PICK m \in T : \A n \in T : m <= n
    <3> HIDE DEF Does
    <3> QED BY LeastOf
  <2>2. CASE m = 0
    <3>1. Does([n \in 0 .. 0 |-> base], 0) OBVIOUS
    <3> QED BY <2>2, <3>1
  <2>3. CASE m # 0
    <3>1. m - 1 \in Nat /\ m - 1 \notin T BY <2>1, <2>3
    <3>2. PICK g : Does(g, m - 1) BY <3>1
    <3> DEFINE h == [n \in 0 .. m |-> IF n = m THEN AddUnseen(g[m - 1], nodes[m]) ELSE g[n]]
    <3>3. \A n \in 0 .. m - 1 : h[n] = g[n] BY <2>3
    <3>4. \A n \in 0 .. m - 1 : g[n] = IF n = 0 THEN base ELSE AddUnseen(g[n - 1], nodes[n]) BY <3>2
    <3>5. ASSUME NEW n \in 0 .. m PROVE h[n] = IF n = 0 THEN base ELSE AddUnseen(h[n - 1], nodes[n])
      <4>1. CASE n = m BY <4>1, <3>3, <2>3
      <4>2. CASE n # m /\ n # 0
        <5>1. n - 1 \in 0 .. m - 1 /\ n \in 0 .. m - 1 BY <4>2
        <5> QED BY <5>1, <4>2, <3>3, <3>4
      <4>3. CASE n = 0 BY <4>3, <3>3, <3>4, <2>3
      <4> QED BY <4>1, <4>2, <4>3
    <3> HIDE DEF h
    <3>6. h = [n \in 0 .. m |-> h[n]] BY DEF h
    <3>7. Does(h, m) BY <3>5, <3>6
    <3> QED BY <2>1, <3>7
  <2> QED BY <2>2, <2>3
<1> QED BY <1>1, Zenon DEF LoopOf, IsLoop

(* What is where in the list, and on which page its end.                         *)
LEMMA ListFacts ==
  ASSUME PagedShape
  PROVE  /\ atFirst \in Seq(Range(atFirst)) /\ site.list \in Seq(Range(site.list)) /\ NewEntry \notin Range(atFirst)
         /\ Len(atFirst) \in Nat /\ Shift \in {0, 1} /\ Len(site.list) = Len(atFirst) + Shift
         /\ \A i \in 1 .. Len(atFirst) : site.list[i + Shift] = atFirst[i]
         /\ Shift = 1 => site.list[1] = NewEntry
         /\ Shift = 0 => site.list = atFirst
         /\ Range(site.list) \subseteq Range(atFirst) \cup {NewEntry}
<1>1. atFirst \in Seq(Range(atFirst)) /\ NewEntry \notin Range(atFirst) /\ Len(atFirst) \in Nat
  BY DEF PagedShape
<1>2. CASE site.list = atFirst BY <1>1, <1>2 DEF Shift
<1>3. CASE site.list = <<NewEntry>> \o atFirst
  <2> DEFINE S == Range(atFirst) \cup {NewEntry}
  <2>1. atFirst \in Seq(S) /\ <<NewEntry>> \in Seq(S) BY <1>1
  <2>2. /\ site.list \in Seq(S) /\ Len(site.list) = 1 + Len(atFirst)
        /\ site.list[1] = NewEntry /\ \A i \in 1 .. Len(atFirst) : site.list[i + 1] = atFirst[i]
    BY <1>1, <1>3, <2>1
  <2>3. site.list # atFirst /\ Shift = 1 BY <1>1, <2>2 DEF Shift
  <2>4. site.list \in Seq(Range(site.list)) /\ Range(site.list) \in SUBSET S BY <2>2, SeqOfRange, RangeOfSeq
  <2> QED BY <1>1, <2>2, <2>3, <2>4
<1> QED BY <1>2, <1>3 DEF PagedShape

(* The pages up to the last one begin within the list, and the others after it.  *)
LEMMA LastPageFacts ==
  ASSUME PagedShape
  PROVE  /\ site.size \in Nat \ {0} /\ LastPage \in Nat /\ Len(site.list) <= (LastPage + 1) * site.size
         /\ \A n \in Nat : n > LastPage => Len(site.list) <= n * site.size
         /\ \A n \in Nat : n <= LastPage => n * site.size \in Nat /\ n * site.size <= Len(site.list)
         /\ \A n \in Nat : n <= LastPage /\ n * site.size = Len(site.list) => site.list = <<>>
<1>0. Len(site.list) \in Nat /\ site.list \in Seq(Range(site.list))
  <2>1. site.list \in Seq(Range(site.list)) BY ListFacts
  <2> QED BY <2>1, LenProperties
<1>1. PICK len \in Nat : len = Len(site.list) BY <1>0
<1>2. PICK size \in Nat \ {0} : size = site.size BY DEF PagedShape
<1>3. site.list = <<>> <=> len = 0 BY <1>0, <1>1
<1>4. CASE len = 0
  <2>1. LastPage = 0 BY <1>3, <1>4 DEF LastPage
  <2>2. \A n \in Nat : n * size \in Nat OBVIOUS
  <2>3. \A n \in Nat : n <= 0 => n * size = 0 OBVIOUS
  <2>4. \A n \in Nat : n > 0 => 0 <= n * size BY <2>2
  <2>5. (0 + 1) * size \in Nat BY <2>2
  <2>6. (LastPage + 1) * size \in Nat BY <2>1, <2>5
  <2> HIDE DEF LastPage
  <2> QED BY <1>1, <1>2, <1>3, <1>4, <2>1, <2>2, <2>3, <2>4, <2>6
<1>5. CASE len # 0
  <2>1. LastPage = (len - 1) \div size BY <1>1, <1>2, <1>3, <1>5 DEF LastPage
  <2>2. PICK q \in Nat : q = LastPage /\ q * size <= len - 1 /\ len - 1 < (q + 1) * size BY <2>1, <1>5, DivIs
  <2>3. \A n \in Nat : n * size \in Nat OBVIOUS
  <2>4. \A n \in Nat : n > q => (q + 1) * size <= n * size BY TimesGrows
  <2>5. \A n \in Nat : n <= q => n * size <= q * size BY TimesGrows
  <2>6. q * size \in Nat /\ (q + 1) * size \in Nat BY <2>3
  <2>7. len <= (q + 1) * size BY <2>2, <2>6
  <2>8. \A n \in Nat : n > q => len <= n * size BY <2>3, <2>4, <2>6, <2>7
  <2>9. \A n \in Nat : n <= q => n * size < len BY <2>2, <2>3, <2>5, <2>6
  <2>10. /\ site.size \in Nat \ {0} /\ LastPage \in Nat BY <1>2, <2>2
  <2>11. Len(site.list) <= (LastPage + 1) * site.size BY <1>1, <1>2, <2>2, <2>7
  <2>12. \A n \in Nat : n > LastPage => Len(site.list) <= n * site.size BY <1>1, <1>2, <2>2, <2>8
  <2>13. \A n \in Nat : n <= LastPage => n * site.size \in Nat /\ n * site.size < Len(site.list)
    BY <1>1, <1>2, <2>2, <2>3, <2>9
  <2>14. \A a \in Nat : a < Len(site.list) => a <= Len(site.list) /\ a # Len(site.list) BY <1>0
  <2> QED BY <2>10, <2>11, <2>12, <2>13, <2>14
<1> QED BY <1>4, <1>5

(* A slice that begins within the list.                                          *)
IsSlice(s, S, list, from, to) ==
  /\ s \in Seq(S) /\ Len(s) \in Nat /\ DOMAIN s = 1 .. Len(s)
  /\ Len(s) = (IF to < Len(list) THEN to - from ELSE Len(list) - from)
  /\ \A n \in 1 .. Len(s) : s[n] = list[from + n]

(* What a slice of a list holds, place by place.                               *)
LEMMA SliceIs ==
  ASSUME NEW S, NEW list \in Seq(S), NEW from \in Nat, from <= Len(list), NEW to \in Nat, from <= to,
         NEW s, s = Slice(list, from + 1, to)
  PROVE  IsSlice(s, S, list, from, to)
<1> DEFINE last == IF to < Len(list) THEN to ELSE Len(list)
<1>1. last \in Nat /\ from <= last /\ last <= Len(list) OBVIOUS
<1> HIDE DEF last
<1>2. \A i \in from + 1 .. last : list[i] \in S BY <1>1
<1>3. /\ SubSeq(list, from + 1, last) \in Seq(S)
      /\ Len(SubSeq(list, from + 1, last)) = IF from + 1 <= last THEN last - (from + 1) + 1 ELSE 0
      /\ \A i \in 1 .. last - (from + 1) + 1 : SubSeq(list, from + 1, last)[i] = list[from + 1 + i - 1]
  BY <1>1, <1>2, SubSeqProperties
<1>4. Slice(list, from + 1, to) = SubSeq(list, from + 1, last) BY DEF Slice, last
<1>5. Len(SubSeq(list, from + 1, last)) = last - from BY <1>1, <1>3
<1>6. \A i \in 1 .. last - from : SubSeq(list, from + 1, last)[i] = list[from + i]
  BY <1>1, <1>3
<1>7. last - from \in Nat /\ last - from = IF to < Len(list) THEN to - from ELSE Len(list) - from BY <1>1 DEF last
<1>8. DOMAIN SubSeq(list, from + 1, last) = 1 .. Len(SubSeq(list, from + 1, last)) BY <1>3
<1> QED BY <1>3, <1>4, <1>5, <1>6, <1>7, <1>8 DEF IsSlice

(* The page of the site that is within its list.                                 *)
LEMMA PageIs ==
  ASSUME PagedShape, NEW n \in Nat, n <= LastPage
  PROVE  LET s == PageOf(n) IN
         /\ s \in Seq(Range(site.list)) /\ Len(s) \in Nat /\ DOMAIN s = 1 .. Len(s) /\ n * site.size \in Nat
         /\ \A m \in 1 .. Len(s) : n * site.size + m \in 1 .. Len(site.list) /\ s[m] = site.list[n * site.size + m]
         /\ n * site.size + Len(s) = Len(site.list) \/ n * site.size + Len(s) = (n + 1) * site.size
<1>1. PICK size \in Nat \ {0} : size = site.size BY DEF PagedShape
<1>2. PICK at \in Nat : at = n * site.size /\ at <= Len(site.list) BY LastPageFacts
<1>3. (n + 1) * size = n * size + size /\ n * size \in Nat OBVIOUS
<1>4. (n + 1) * site.size = at + size BY <1>1, <1>2, <1>3
<1>5. site.list \in Seq(Range(site.list)) /\ Len(site.list) \in Nat
  <2>1. site.list \in Seq(Range(site.list)) BY ListFacts
  <2> QED BY <2>1, LenProperties
<1>6. PICK to \in Nat : to = at + size OBVIOUS
<1>61. PICK s : s = Slice(site.list, at + 1, to) OBVIOUS
<1>62. at <= Len(site.list) /\ at <= to BY <1>2, <1>6
<1>70. IsSlice(s, Range(site.list), site.list, at, to)
  BY <1>5, <1>61, <1>62, SliceIs
<1>7. /\ s \in Seq(Range(site.list)) /\ Len(s) \in Nat /\ DOMAIN s = 1 .. Len(s)
      /\ Len(s) = (IF to < Len(site.list) THEN to - at ELSE Len(site.list) - at)
      /\ \A m \in 1 .. Len(s) : s[m] = site.list[at + m]
  BY <1>70 DEF IsSlice
<1>8. PageOf(n) = s BY <1>2, <1>4, <1>6, <1>61 DEF PageOf
<1>81. PICK len \in Nat : len = Len(s) BY <1>7
<1>82. PICK all \in Nat : all = Len(site.list) BY <1>5
<1>83. at <= all /\ len = (IF to < all THEN to - at ELSE all - at) BY <1>2, <1>7, <1>81, <1>82
<1>84. at + len = all \/ at + len = at + size BY <1>6, <1>83
<1>9. at + Len(s) = Len(site.list) \/ at + Len(s) = at + size BY <1>81, <1>82, <1>84
<1>85. \A m \in 1 .. len : at + m \in 1 .. all BY <1>83
<1>10. \A m \in 1 .. Len(s) : at + m \in 1 .. Len(site.list) BY <1>81, <1>82, <1>85
<1> QED BY <1>2, <1>4, <1>7, <1>8, <1>9, <1>10

(* The nodes of a page: a stretch of the list; the page that is read next ends   *)
(* the list or is followed by the next page, unless it was cut.                  *)
NodesAt(at, N) ==
  /\ Nodes \in Seq(Range(site.list)) /\ Len(Nodes) = N /\ DOMAIN Nodes = 1 .. N /\ N <= PageCap
  /\ \A m \in 1 .. N : at + m \in 1 .. Len(site.list) /\ Nodes[m] = site.list[at + m]
  /\ run.index <= LastPage => at = run.index * site.size
  /\ run.index <= LastPage /\ ~(Len(Shown(run.index)) > PageCap) =>
       \/ at + N = Len(site.list)
       \/ recipe.mode # "none" /\ at + N = (run.index + 1) * site.size

(* The nodes of a page lie next to each other in the list.                     *)
LEMMA NodesFacts ==
  ASSUME PagedShape, recipe.mode = "none" => run.index = 0
  PROVE  \E at, N \in Nat : NodesAt(at, N)
<1> DEFINE L == Shown(run.index)
           Lies(at, N) == /\ L \in Seq(Range(site.list)) /\ Len(L) = N /\ DOMAIN L = 1 .. N
                          /\ \A m \in 1 .. N : at + m \in 1 .. Len(site.list) /\ L[m] = site.list[at + m]
                          /\ run.index <= LastPage => at = run.index * site.size
                          /\ run.index <= LastPage =>
                               \/ at + N = Len(site.list)
                               \/ recipe.mode # "none" /\ at + N = (run.index + 1) * site.size
<1>1. site.list \in Seq(Range(site.list)) /\ Len(site.list) \in Nat /\ DOMAIN site.list = 1 .. Len(site.list)
  <2>1. site.list \in Seq(Range(site.list)) BY ListFacts
  <2> QED BY <2>1, LenProperties
<1>2. run.index \in Nat /\ LastPage \in Nat /\ site.size \in Nat BY LastPageFacts DEF PagedShape, RunRows
<1>3. \E at, N \in Nat : Lies(at, N)
  <2>1. CASE recipe.mode = "none"
    <3>1. L = site.list /\ run.index * site.size = 0 BY <2>1, <1>2 DEF Shown
    <3>2. Lies(0, Len(site.list)) BY <3>1, <1>1
    <3> QED BY <3>2, <1>1
  <2>2. CASE recipe.mode # "none" /\ run.index <= LastPage
    <3>1. L = PageOf(run.index) BY <2>2 DEF Shown
    <3>2. Lies(run.index * site.size, Len(PageOf(run.index))) BY <3>1, <2>2, <1>2, PageIs
    <3>3. run.index * site.size \in Nat /\ Len(PageOf(run.index)) \in Nat BY <2>2, <1>2, PageIs
    <3> QED BY <3>2, <3>3
  <2>3. CASE recipe.mode # "none" /\ ~(run.index <= LastPage)
    <3>1. L = PageOf(LastPage) \/ L = PageOf(0) \/ L = <<>> BY <2>3, Zenon DEF Shown
    <3>2. CASE L = <<>>
      <4>1. Lies(0, 0) BY <3>2, <2>3
      <4> QED BY <4>1
    <3>3. ASSUME NEW n \in Nat, n <= LastPage, L = PageOf(n) PROVE \E at, N \in Nat : Lies(at, N)
      <4>1. Lies(n * site.size, Len(PageOf(n))) BY <3>3, <2>3, PageIs
      <4>2. n * site.size \in Nat /\ Len(PageOf(n)) \in Nat BY <3>3, PageIs
      <4> QED BY <4>1, <4>2
    <3>4. LastPage <= LastPage /\ 0 <= LastPage BY <1>2
    <3> HIDE DEF Lies, L
    <3> QED BY <3>1, <3>2, <3>3, <3>4, <1>2
  <2> QED BY <2>1, <2>2, <2>3
<1>4. PICK at \in Nat, N \in Nat : Lies(at, N) BY <1>3
<1>5. L \in Seq(Range(site.list)) /\ Len(L) = N /\ PageCap \in Nat BY <1>4
<1> HIDE DEF L
<1>51. PICK zero \in Nat : zero = 0 OBVIOUS
<1>52. PICK cut : cut = Slice(L, zero + 1, PageCap) OBVIOUS
<1>53. zero <= Len(L) /\ zero <= PageCap BY <1>5, <1>51
<1>60. IsSlice(cut, Range(site.list), L, zero, PageCap)
  BY <1>5, <1>52, <1>53, SliceIs
<1>6. /\ cut \in Seq(Range(site.list)) /\ Len(cut) \in Nat /\ DOMAIN cut = 1 .. Len(cut)
      /\ Len(cut) = (IF PageCap < Len(L) THEN PageCap - zero ELSE Len(L) - zero)
      /\ \A m \in 1 .. Len(cut) : cut[m] = L[zero + m]
  BY <1>60 DEF IsSlice
<1>7. Nodes = cut BY <1>51, <1>52 DEF Nodes, L
<1>8. Len(cut) <= PageCap /\ Len(cut) <= N /\ (~(Len(L) > PageCap) => Len(cut) = N) BY <1>5, <1>51, <1>6
<1>9. \A m \in 1 .. Len(cut) : m \in 1 .. N /\ cut[m] = L[m] BY <1>51, <1>6, <1>8
<1>10. \A m \in 1 .. Len(cut) : at + m \in 1 .. Len(site.list) /\ cut[m] = site.list[at + m] BY <1>4, <1>9
<1>11. run.index <= LastPage => at = run.index * site.size BY <1>4
<1>12. run.index <= LastPage /\ ~(Len(L) > PageCap) =>
         \/ at + Len(cut) = Len(site.list)
         \/ recipe.mode # "none" /\ at + Len(cut) = (run.index + 1) * site.size
  BY <1>4, <1>8
<1> QED BY <1>6, <1>7, <1>8, <1>10, <1>11, <1>12 DEF L, NodesAt

(* What taking an entry does to the entries.                                     *)
Takes(new, entries, e, S) ==
  /\ new \in Seq(S) /\ Len(new) \in Nat /\ Len(new) <= Len(entries) + 1 /\ DOMAIN new = 1 .. Len(new)
  /\ Len(entries) \in Nat /\ DOMAIN entries = 1 .. Len(entries) /\ Len(entries) <= Len(new)
  /\ \A k \in DOMAIN entries : new[k] = entries[k]
  /\ IsUsable(e) => \E k \in DOMAIN new : new[k] = e
  /\ \A k \in DOMAIN new :
       \/ k \in DOMAIN entries
       \/ k = Len(entries) + 1 /\ new # entries /\ new[k] = e /\ IsUsable(e)
  /\ new # entries => \A k \in DOMAIN entries : entries[k] # e

(* One node is taken at most once, behind what was read before.                *)
LEMMA TakeKeeps ==
  ASSUME NEW S, NEW entries \in Seq(S), NEW e \in S, NEW new, new = AddUnseen(entries, e)
  PROVE  Takes(new, entries, e, S)
<1> SUFFICES /\ new \in Seq(S) /\ Len(new) \in Nat /\ Len(new) <= Len(entries) + 1 /\ DOMAIN new = 1 .. Len(new)
             /\ Len(entries) \in Nat /\ DOMAIN entries = 1 .. Len(entries) /\ Len(entries) <= Len(new)
             /\ \A k \in DOMAIN entries : new[k] = entries[k]
             /\ IsUsable(e) => \E k \in DOMAIN new : new[k] = e
             /\ \A k \in DOMAIN new :
                  \/ k \in DOMAIN entries
                  \/ k = Len(entries) + 1 /\ new # entries /\ new[k] = e /\ IsUsable(e)
             /\ new # entries => \A k \in DOMAIN entries : entries[k] # e
  BY DEF Takes
<1>1. Len(entries) \in Nat /\ DOMAIN entries = 1 .. Len(entries) BY LenProperties
<1>2. CASE IsUsable(e) /\ ~Contains(entries, e)
  <2>1. AddUnseen(entries, e) = Append(entries, e) BY <1>2 DEF AddUnseen
  <2>2. \A k \in DOMAIN entries : entries[k] # e BY <1>2 DEF Contains
  <2>3. /\ Append(entries, e) \in Seq(S) /\ Len(Append(entries, e)) = Len(entries) + 1
        /\ \A k \in 1 .. Len(entries) : Append(entries, e)[k] = entries[k]
        /\ Append(entries, e)[Len(entries) + 1] = e /\ DOMAIN Append(entries, e) = 1 .. Len(entries) + 1
    BY <1>1
  <2>4. PICK len \in Nat : len = Len(entries) BY <1>1
  <2>5. new = Append(entries, e) BY <2>1
  <2>6. /\ Len(new) = len + 1 /\ DOMAIN entries = 1 .. len /\ DOMAIN new = 1 .. len + 1
        /\ \A k \in 1 .. len : new[k] = entries[k]
        /\ new[len + 1] = e
    BY <1>1, <2>3, <2>4, <2>5
  <2>7. new # entries BY <2>4, <2>6
  <2>8. \A k \in DOMAIN new : k \in DOMAIN entries \/ k = len + 1 BY <2>6
  <2>9. len + 1 \in DOMAIN new /\ len <= Len(new) /\ Len(new) <= len + 1 /\ Len(new) \in Nat BY <2>6
  <2> QED BY <1>1, <1>2, <2>2, <2>3, <2>4, <2>5, <2>6, <2>7, <2>8, <2>9
<1>3. CASE ~(IsUsable(e) /\ ~Contains(entries, e))
  <2>1. new = entries BY <1>3 DEF AddUnseen
  <2>2. IsUsable(e) => \E k \in DOMAIN entries : entries[k] = e BY <1>3, <1>1 DEF Contains
  <2>3. Len(entries) <= Len(entries) + 1 /\ Len(entries) <= Len(entries) BY <1>1
  <2> QED BY <1>1, <2>1, <2>2, <2>3
<1> QED BY <1>2, <1>3
(* What holds before a loop and after each of its steps holds throughout.        *)
LEMMA ThroughTheLoop ==
  ASSUME NEW N \in Nat, NEW T, 0 \in T, \A n \in 1 .. N : n - 1 \in T => n \in T
  PROVE  0 .. N \subseteq T
<1> DEFINE Out == {n \in 0 .. N : n \notin T}
<1> SUFFICES ASSUME Out # {} PROVE FALSE OBVIOUS
<1>1. PICK m \in Out : \A n \in Out : m <= n
  <2>1. Out \subseteq Nat OBVIOUS
  <2> HIDE DEF Out
  <2> QED BY <2>1, LeastOf
<1>2. m # 0 /\ m \in 1 .. N /\ m \notin T BY <1>1
<1>3. m - 1 \in 0 .. N /\ ~(m <= m - 1) BY <1>2
<1>4. m - 1 \in T BY <1>1, <1>3
<1> QED BY <1>2, <1>4

(* The loop over the nodes of a page.                                            *)
LEMMA EntriesAfterIs ==
  ASSUME NEW N \in Nat, Len(Nodes) = N
  PROVE  /\ EntriesAfter[0] = run.entries
         /\ \A n \in 1 .. N : EntriesAfter[n] = AddUnseen(EntriesAfter[n - 1], Nodes[n])
<1>1. EntriesAfter = LoopOf(run.entries, Nodes, N) BY Zenon DEF EntriesAfter, LoopOf
<1> DEFINE f == EntriesAfter
<1>2. IsLoop(f, run.entries, Nodes, N) BY <1>1, LoopIs
<1> HIDE DEF f
<1>3. f = [n \in 0 .. N |-> IF n = 0 THEN run.entries ELSE AddUnseen(f[n - 1], Nodes[n])] BY <1>2 DEF IsLoop
<1>4. 0 \in 0 .. N /\ \A n \in 1 .. N : n \in 0 .. N /\ n # 0 OBVIOUS
<1>5. f[0] = run.entries BY <1>3, <1>4
<1>6. ASSUME NEW n \in 1 .. N PROVE f[n] = AddUnseen(f[n - 1], Nodes[n]) BY <1>3, <1>4
<1> QED BY <1>5, <1>6 DEF f

(* The entries stay entries of the list, each once.                              *)
LEMMA TakeOfTheList ==
  ASSUME NEW entries, OfTheList(entries), NEW e \in Range(site.list), NEW new, new = AddUnseen(entries, e)
  PROVE  /\ OfTheList(new) /\ Len(entries) \in Nat /\ Len(new) \in Nat /\ Len(new) <= Len(entries) + 1
         /\ \A x : Contains(entries, x) => Contains(new, x)
         /\ \A x : Contains(new, x) => Contains(entries, x) \/ x = e
<1>1. PICK S : S = Range(site.list) OBVIOUS
<1>2. entries \in Seq(S) /\ e \in S BY <1>1 DEF OfTheList
<1>30. Takes(new, entries, e, S) BY <1>2, TakeKeeps
<1>3. /\ new \in Seq(S) /\ Len(new) \in Nat /\ Len(new) <= Len(entries) + 1 /\ DOMAIN new = 1 .. Len(new)
      /\ Len(entries) \in Nat /\ DOMAIN entries = 1 .. Len(entries) /\ Len(entries) <= Len(new)
      /\ \A k \in DOMAIN entries : new[k] = entries[k]
      /\ \A k \in DOMAIN new :
           \/ k \in DOMAIN entries
           \/ k = Len(entries) + 1 /\ new # entries /\ new[k] = e /\ IsUsable(e)
      /\ new # entries => \A k \in DOMAIN entries : entries[k] # e
  BY <1>30 DEF Takes
<1>4. \A k \in DOMAIN entries : k \in DOMAIN new BY <1>3
<1>5. \A k \in DOMAIN entries : IsUsable(entries[k]) BY DEF OfTheList
<1>6. \A k, l \in DOMAIN entries : entries[k] = entries[l] => k = l BY DEF OfTheList
<1>7. \A k \in DOMAIN new : IsUsable(new[k]) BY <1>3, <1>5
<1>8. \A k, l \in DOMAIN new : new[k] = new[l] => k = l
  <2> SUFFICES ASSUME NEW k \in DOMAIN new, NEW l \in DOMAIN new, new[k] = new[l] PROVE k = l OBVIOUS
  <2>1. CASE k \in DOMAIN entries /\ l \in DOMAIN entries BY <2>1, <1>3, <1>6
  <2>2. CASE k \in DOMAIN entries /\ l \notin DOMAIN entries BY <2>2, <1>3
  <2>3. CASE k \notin DOMAIN entries /\ l \in DOMAIN entries BY <2>3, <1>3
  <2>4. CASE k \notin DOMAIN entries /\ l \notin DOMAIN entries BY <2>4, <1>3
  <2> QED BY <2>1, <2>2, <2>3, <2>4
<1>9. OfTheList(new) BY <1>1, <1>3, <1>7, <1>8 DEF OfTheList
<1>10. \A x : Contains(entries, x) <=> \E k \in DOMAIN entries : entries[k] = x BY <1>3 DEF Contains
<1>11. \A x : Contains(new, x) <=> \E k \in DOMAIN new : new[k] = x BY <1>3 DEF Contains
<1>12. \A x : Contains(entries, x) => Contains(new, x) BY <1>3, <1>4, <1>10, <1>11
<1>13. \A x : Contains(new, x) => Contains(entries, x) \/ x = e BY <1>3, <1>10, <1>11
<1> QED BY <1>3, <1>9, <1>12, <1>13

(* One more entry taken: what was covered stays so, and the next entry of the    *)
(* list is, if that is the one.                                                  *)
LEMMA TakeCovers ==
  ASSUME PagedShape, NEW entries, OfTheList(entries), NEW e \in Range(site.list), NEW new, new = AddUnseen(entries, e),
         NEW bad \in BOOLEAN, ~IsUsable(e) => bad, NEW c \in 0 .. Len(atFirst), NEW d \in 0 .. Len(atFirst),
         UpTo(entries, bad, c), d = c \/ (d = c + 1 /\ e = atFirst[d]),
         e = NewEntry \/ \E p \in 1 .. d : atFirst[p] = e
  PROVE  UpTo(new, bad, d)
<1>1. PICK S : S = Range(site.list) OBVIOUS
<1>2. entries \in Seq(S) /\ e \in S BY <1>1 DEF OfTheList
<1>30. Takes(new, entries, e, S) BY <1>2, TakeKeeps
<1>3. /\ DOMAIN new = 1 .. Len(new) /\ DOMAIN entries = 1 .. Len(entries) /\ Len(entries) \in Nat /\ Len(new) \in Nat
      /\ \A k \in DOMAIN entries : new[k] = entries[k]
      /\ IsUsable(e) => \E k \in DOMAIN new : new[k] = e
      /\ \A k \in DOMAIN new :
           \/ k \in DOMAIN entries
           \/ k = Len(entries) + 1 /\ new # entries /\ new[k] = e /\ IsUsable(e)
      /\ new # entries => \A k \in DOMAIN entries : entries[k] # e
  BY <1>30 DEF Takes
<1>4. \A x : Contains(entries, x) => Contains(new, x) BY TakeOfTheList
<1>5. IsUsable(e) => Contains(new, e) BY <1>3 DEF Contains
<1>6. PICK from \in Nat : from = recipe.from * site.size
  <2>1. recipe.from \in Nat /\ site.size \in Nat BY DEF PagedShape, Recipes
  <2> QED BY <2>1
<1>7. PICK len \in Nat : len = Len(atFirst) BY ListFacts
<1>8. \A i \in from + 1 .. c : CoveredAt(entries, bad, i) BY <1>6 DEF UpTo
<1>9. \A i \in from + 1 .. c : CoveredAt(new, bad, i) BY <1>4, <1>8 DEF CoveredAt
<1>10. d # c => CoveredAt(new, bad, d) BY <1>5 DEF CoveredAt
<1>11. \A i \in from + 1 .. d : i \in from + 1 .. c \/ (i = d /\ d # c) BY <1>7
<1>12. \A i \in from + 1 .. d : CoveredAt(new, bad, i) BY <1>9, <1>10, <1>11
<1>13. ASSUME recipe.from = 0
       PROVE  /\ \A k \in DOMAIN new : new[k] # NewEntry => \E p \in 1 .. d : atFirst[p] = new[k]
              /\ \A k, l \in DOMAIN new : k < l /\ new[k] # NewEntry =>
                   \A q \in DOMAIN atFirst : atFirst[q] = new[l] => \E p \in 1 .. (q - 1) : atFirst[p] = new[k]
  <2>1. \A k \in DOMAIN entries : entries[k] # NewEntry => \E p \in 1 .. c : atFirst[p] = entries[k] BY <1>13 DEF UpTo
  <2>2. \A k, l \in DOMAIN entries : k < l /\ entries[k] # NewEntry =>
          \A q \in DOMAIN atFirst : atFirst[q] = entries[l] => \E p \in 1 .. (q - 1) : atFirst[p] = entries[k]
    BY <1>13 DEF UpTo
  <2>3. \A p \in 1 .. c : p \in 1 .. d BY <1>7
  <2>4. \A k \in DOMAIN new : new[k] # NewEntry => \E p \in 1 .. d : atFirst[p] = new[k]
    <3> SUFFICES ASSUME NEW k \in DOMAIN new, new[k] # NewEntry PROVE \E p \in 1 .. d : atFirst[p] = new[k] OBVIOUS
    <3>1. CASE k \in DOMAIN entries BY <3>1, <2>1, <2>3, <1>3
    <3>2. CASE k \notin DOMAIN entries BY <3>2, <1>3
    <3> QED BY <3>1, <3>2
  <2>5. ASSUME NEW k \in DOMAIN new, NEW l \in DOMAIN new, k < l, new[k] # NewEntry,
               NEW q \in DOMAIN atFirst, atFirst[q] = new[l]
        PROVE  \E p \in 1 .. (q - 1) : atFirst[p] = new[k]
    <3>1. k \in DOMAIN entries BY <2>5, <1>3
    <3>2. CASE l \in DOMAIN entries BY <3>1, <3>2, <2>2, <2>5, <1>3
    <3>3. CASE l \notin DOMAIN entries
      <4>1. new[l] = e /\ new # entries /\ IsUsable(e) BY <3>3, <1>3
      <4>2. ~Contains(entries, e) BY <4>1, <1>3 DEF Contains
      <4>3. q \in 1 .. len
        <5>1. atFirst \in Seq(Range(atFirst)) BY ListFacts
        <5> QED BY <5>1, <1>7, LenProperties
      <4>4. from = 0
        <5>1. site.size \in Nat BY DEF PagedShape
        <5> QED BY <5>1, <1>6, <1>13
      <4>5. ~(q <= c)
        <5>1. SUFFICES ASSUME q <= c PROVE FALSE OBVIOUS
        <5>2. q \in from + 1 .. c BY <5>1, <4>3, <4>4
        <5> QED BY <5>2, <1>8, <2>5, <4>1, <4>2 DEF CoveredAt
      <4>6. PICK p \in 1 .. c : atFirst[p] = entries[k] BY <3>1, <2>1, <2>5, <1>3
      <4>7. p \in 1 .. (q - 1) BY <4>3, <4>5, <1>7
      <4> QED BY <3>1, <4>6, <4>7, <1>3
    <3> QED BY <3>2, <3>3
  <2> QED BY <2>4, <2>5
<1> QED BY <1>6, <1>12, <1>13 DEF UpTo
(* The entries after each of the nodes are of the list: those taken before, and  *)
(* nodes of the page.                                                            *)
LEMMA LoopOfTheList ==
  ASSUME PagedShape, OfTheList(run.entries), NEW at \in Nat, NEW N \in Nat, NodesAt(at, N), NEW n \in 0 .. N
  PROVE  /\ OfTheList(EntriesAfter[n]) /\ Len(run.entries) \in Nat
         /\ Len(EntriesAfter[n]) \in Nat /\ Len(EntriesAfter[n]) <= Len(run.entries) + n
         /\ \A x : Contains(run.entries, x) => Contains(EntriesAfter[n], x)
         /\ \A x : Contains(EntriesAfter[n], x) => Contains(run.entries, x) \/ \E m \in 1 .. N : Nodes[m] = x
<1> DEFINE A(k) == EntriesAfter[k]
           Good(k) == /\ OfTheList(A(k)) /\ Len(A(k)) \in Nat /\ Len(A(k)) <= Len(run.entries) + k
                      /\ \A x : Contains(run.entries, x) => Contains(A(k), x)
                      /\ \A x : Contains(A(k), x) => Contains(run.entries, x) \/ \E m \in 1 .. N : Nodes[m] = x
           T == {k \in 0 .. N : Good(k)}
<1>1. A(0) = run.entries /\ \A k \in 1 .. N : A(k) = AddUnseen(A(k - 1), Nodes[k])
  BY EntriesAfterIs DEF NodesAt
<1>2. Len(run.entries) \in Nat
  <2>1. run.entries \in Seq(Range(site.list)) BY DEF OfTheList
  <2> QED BY <2>1, LenProperties
<1> HIDE DEF A
<1>3. 0 \in T BY <1>1, <1>2
<1>4. ASSUME NEW k \in 1 .. N, k - 1 \in T PROVE k \in T
  <2>1. Good(k - 1) BY <1>4
  <2>2. Nodes[k] \in Range(site.list)
    <3>1. at + k \in 1 .. Len(site.list) /\ Nodes[k] = site.list[at + k] BY DEF NodesAt
    <3>2. site.list \in Seq(Range(site.list)) BY ListFacts
    <3> QED BY <3>1, <3>2, ElementOfSeq
  <2>3. A(k) = AddUnseen(A(k - 1), Nodes[k]) BY <1>1
  <2>4. /\ OfTheList(A(k)) /\ Len(A(k - 1)) \in Nat /\ Len(A(k)) \in Nat /\ Len(A(k)) <= Len(A(k - 1)) + 1
        /\ \A x : Contains(A(k - 1), x) => Contains(A(k), x)
        /\ \A x : Contains(A(k), x) => Contains(A(k - 1), x) \/ x = Nodes[k]
    <3>1. OfTheList(A(k - 1)) BY <2>1
    <3> QED BY <3>1, <2>2, <2>3, TakeOfTheList, Zenon
  <2>5. Len(A(k)) <= Len(run.entries) + k BY <2>1, <2>4, <1>2
  <2>6. Good(k) BY <2>1, <2>4, <2>5
  <2> QED BY <2>6
<1>5. n \in T
  <2> HIDE DEF T
  <2>1. 0 .. N \subseteq T BY <1>3, <1>4, ThroughTheLoop
  <2> QED BY <2>1
<1> QED BY <1>2, <1>5 DEF A

(* What is covered stays so when a page is found wanting.                        *)
LEMMA InvalidStays ==
  ASSUME NEW entries, NEW bad \in BOOLEAN, NEW worse \in BOOLEAN, bad => worse, NEW c, UpTo(entries, bad, c)
  PROVE  UpTo(entries, worse, c)
<1>1. \A i : CoveredAt(entries, bad, i) => CoveredAt(entries, worse, i) BY DEF CoveredAt
<1> QED BY <1>1 DEF UpTo

(* A page that is read covers what it shows of the list as it was at first.      *)
LEMMA ReadsTheList ==
  ASSUME PagedShape, OfTheList(run.entries), NEW at \in Nat, NEW N \in Nat, NodesAt(at, N), Covers
  PROVE  \E c \in 0 .. Len(atFirst) :
           /\ UpTo(EntriesAfter[N], Invalid, c)
           /\ c = Len(atFirst) \/ (run.index <= LastPage /\ at + N <= c + Shift)
<1> DEFINE A(n) == EntriesAfter[n]
           Good(n) == \E c \in 0 .. Len(atFirst) :
                        UpTo(A(n), Invalid, c) /\ (c = Len(atFirst) \/ (run.index <= LastPage /\ at + n <= c + Shift))
           T == {n \in 0 .. N : Good(n)}
<1>1. A(0) = run.entries /\ \A n \in 1 .. N : A(n) = AddUnseen(A(n - 1), Nodes[n])
  BY EntriesAfterIs DEF NodesAt
<1>2. \A n \in 0 .. N : OfTheList(A(n)) BY LoopOfTheList
<1> HIDE DEF A
<1>3. PICK len \in Nat, shift \in {0, 1}, all \in Nat : len = Len(atFirst) /\ shift = Shift /\ all = Len(site.list) /\ all = len + shift
  <2>1. Len(atFirst) \in Nat /\ Shift \in {0, 1} /\ Len(site.list) = Len(atFirst) + Shift BY ListFacts
  <2> QED BY <2>1
<1>4. run.invalid \in BOOLEAN /\ Invalid \in BOOLEAN /\ (run.invalid => Invalid) BY DEF PagedShape, RunRows, Invalid, Cut
<1>5. 0 \in T
  <2>1. PICK c \in 0 .. Len(atFirst) : UpTo(run.entries, run.invalid, c) /\ (c = Len(atFirst) \/ run.index * site.size <= c + Shift)
    BY DEF Covers
  <2>2. UpTo(run.entries, Invalid, c) BY <2>1, <1>4, InvalidStays
  <2>3. run.index <= LastPage => at = run.index * site.size BY DEF NodesAt
  <2>4. run.index \in Nat /\ LastPage \in Nat /\ site.size \in Nat BY LastPageFacts DEF PagedShape, RunRows
  <2>5. PICK start \in Nat : start = run.index * site.size BY <2>4
  <2>6. ~(run.index <= LastPage) => all <= start
    <3>1. \A n \in Nat : n > LastPage => Len(site.list) <= n * site.size BY LastPageFacts
    <3> QED BY <3>1, <1>3, <2>4, <2>5
  <2>7. c = len \/ start <= c + shift BY <1>3, <2>1, <2>5
  <2>8. c = len \/ (run.index <= LastPage /\ at + 0 <= c + shift) BY <1>3, <2>3, <2>5, <2>6, <2>7
  <2>9. Good(0) BY <1>1, <1>3, <2>2, <2>8
  <2> QED BY <2>9
<1>6. ASSUME NEW n \in 1 .. N, n - 1 \in T PROVE n \in T
  <2>1. PICK c \in 0 .. Len(atFirst) :
          UpTo(A(n - 1), Invalid, c) /\ (c = Len(atFirst) \/ (run.index <= LastPage /\ at + (n - 1) <= c + Shift))
    BY <1>6
  <2> DEFINE e == Nodes[n]
  <2>2. at + n \in 1 .. all /\ e = site.list[at + n] BY <1>3 DEF NodesAt
  <2>3. e \in Range(site.list)
    <3>1. site.list \in Seq(Range(site.list)) BY ListFacts
    <3> QED BY <3>1, <2>2, <1>3, ElementOfSeq
  <2>4. ~IsUsable(e) => Invalid
    <3>1. n \in DOMAIN Nodes BY DEF NodesAt
    <3> QED BY <3>1 DEF Invalid
  <2>5. A(n) = AddUnseen(A(n - 1), e) BY <1>1
  <2>6. OfTheList(A(n - 1)) BY <1>2
  <2>7. ASSUME NEW d \in 0 .. Len(atFirst), d = c \/ (d = c + 1 /\ e = atFirst[d]),
               e = NewEntry \/ \E p \in 1 .. d : atFirst[p] = e
        PROVE  UpTo(A(n), Invalid, d)
    BY <1>4, <2>1, <2>3, <2>4, <2>5, <2>6, <2>7, TakeCovers
  <2>8. at + n - shift \in 0 .. len BY <1>3, <2>2
  <2>9. PICK p \in 0 .. len : p = at + n - shift BY <2>8
  <2>10. at + n = p + shift BY <2>9
  <2>11. p = 0 => e = NewEntry
    <3>1. SUFFICES ASSUME p = 0 PROVE e = NewEntry OBVIOUS
    <3>2. shift = 1 /\ at + n = 1 BY <3>1, <2>2, <2>10
    <3> QED BY <3>2, <1>3, <2>2, ListFacts
  <2>12. p # 0 => e = atFirst[p]
    <3>1. SUFFICES ASSUME p # 0 PROVE e = atFirst[p] OBVIOUS
    <3>2. p \in 1 .. Len(atFirst) BY <3>1, <1>3
    <3>3. site.list[p + Shift] = atFirst[p] BY <3>2, ListFacts
    <3> QED BY <3>3, <2>2, <2>10, <1>3
  <2> HIDE DEF e
  <2>13. CASE p <= c
    <3>1. e = NewEntry \/ \E q \in 1 .. c : atFirst[q] = e BY <2>11, <2>12, <2>13, <1>3
    <3>2. UpTo(A(n), Invalid, c) BY <3>1, <2>7
    <3>3. c = len \/ (run.index <= LastPage /\ at + n <= c + shift) BY <2>1, <2>10, <2>13, <1>3
    <3>4. Good(n) BY <3>2, <3>3, <1>3
    <3> QED BY <3>4
  <2>14. CASE ~(p <= c)
    <3>1. run.index <= LastPage /\ at + (n - 1) <= c + shift BY <2>1, <2>14, <1>3
    <3>2. p = c + 1 /\ p \in 0 .. Len(atFirst) BY <3>1, <2>10, <2>14, <1>3
    <3>3. p # 0 /\ p \in 1 .. p BY <3>2, <1>3
    <3>4. UpTo(A(n), Invalid, p) BY <3>2, <3>3, <2>7, <2>12
    <3>5. at + n <= p + shift BY <2>10
    <3>6. Good(n) BY <3>1, <3>2, <3>4, <3>5, <1>3
    <3> QED BY <3>6
  <2> QED BY <2>13, <2>14
<1>7. N \in T
  <2> HIDE DEF T
  <2>1. 0 .. N \subseteq T BY <1>5, <1>6, ThroughTheLoop
  <2> QED BY <2>1
<1> QED BY <1>7 DEF A

(* Once the list of the beginning is covered, nothing that is wanted is missing. *)
LEMMA WholeWhen ==
  ASSUME PagedShape, NEW entries, NEW bad \in BOOLEAN, UpTo(entries, bad, Len(atFirst))
  PROVE  /\ \A e \in Wanted \ {Unusable} : Contains(entries, e)
         /\ ~bad => Unusable \notin Wanted
<1>1. \A i \in (recipe.from * site.size + 1) .. Len(atFirst) : CoveredAt(entries, bad, i) BY DEF UpTo
<1> QED BY <1>1 DEF Wanted, CoveredAt, IsUsable

(* What was listed at first stays listed.                                        *)
LEMMA HeadedRange == PagedShape => Range(atFirst) \subseteq Range(site.list)
<1> SUFFICES ASSUME PagedShape, NEW i \in DOMAIN atFirst PROVE atFirst[i] \in Range(site.list) BY DEF Range
<1>1. PICK len \in Nat, shift \in {0, 1} : len = Len(atFirst) /\ shift = Shift /\ Len(site.list) = len + shift
  <2>1. Len(atFirst) \in Nat /\ Shift \in {0, 1} /\ Len(site.list) = Len(atFirst) + Shift BY ListFacts
  <2> QED BY <2>1
<1>2. atFirst \in Seq(Range(atFirst)) /\ site.list \in Seq(Range(site.list)) BY ListFacts
<1>3. i \in 1 .. Len(atFirst) BY <1>2, LenProperties
<1>4. site.list[i + Shift] = atFirst[i] BY <1>3, ListFacts
<1>5. i + Shift \in 1 .. Len(site.list) BY <1>1, <1>3
<1> QED BY <1>2, <1>4, <1>5, ElementOfSeq

(* As many entries as a list has, each once and all of the list, are all of it.  *)
LEMMA AllOfThem ==
  ASSUME NEW S, NEW list \in Seq(S), NEW entries, entries \in Seq(Range(list)), Len(entries) >= Len(list),
         \A k, l \in DOMAIN entries : entries[k] = entries[l] => k = l
  PROVE  \A e \in Range(list) : Contains(entries, e)
<1>1. PICK N \in Nat : N = Len(list) BY LenProperties
<1>2. PICK M \in Nat : M = Len(entries) BY LenProperties
<1>3. DOMAIN list = 1 .. N /\ DOMAIN entries = 1 .. M BY <1>1, <1>2, LenProperties
<1> DEFINE R == Range(list)
           U == {entries[k] : k \in 1 .. M}
<1>4. IsFiniteSet(1 .. N) /\ Cardinality(1 .. N) = N /\ IsFiniteSet(1 .. M) /\ Cardinality(1 .. M) = M
  <2>1. 1 \in Int /\ N \in Int /\ M \in Int /\ (IF 1 > N THEN 0 ELSE N - 1 + 1) = N /\ (IF 1 > M THEN 0 ELSE M - 1 + 1) = M
    OBVIOUS
  <2> QED BY <2>1, FS_Interval
<1>5. IsFiniteSet(R) /\ Cardinality(R) <= N
  <2>1. R = {list[k] : k \in 1 .. N} BY <1>3 DEF Range
  <2>2. [k \in 1 .. N |-> list[k]] \in Surjection(1 .. N, R) BY <2>1 DEF Surjection
  <2> HIDE DEF R
  <2> QED BY <2>2, <1>4, FS_Surjection
<1>6. \A k \in 1 .. M : entries[k] \in R BY <1>2, ElementOfSeq
<1>7. IsFiniteSet(U) /\ Cardinality(U) = M
  <2>1. [k \in 1 .. M |-> entries[k]] \in Bijection(1 .. M, U)
    <3>1. \A k, l \in 1 .. M : entries[k] = entries[l] => k = l BY <1>3
    <3> QED BY <3>1 DEF Bijection, Injection, Surjection, IsInjective
  <2> HIDE DEF U
  <2>2. ExistsBijection(1 .. M, U) BY <2>1 DEF ExistsBijection
  <2> QED BY <2>1, <2>2, <1>4, FS_Bijection
<1>8. U \subseteq R BY <1>6
<1>9. Cardinality(U) >= Cardinality(R) /\ Cardinality(R) \in Nat
  <2> HIDE DEF U, R
  <2>1. Cardinality(R) \in Nat BY <1>5, FS_CardinalityType
  <2>2. M >= N BY <1>1, <1>2
  <2> QED BY <2>1, <2>2, <1>5, <1>7
<1>10. U = R
  <2> HIDE DEF U, R
  <2> QED BY <1>5, <1>7, <1>8, <1>9, FS_Subset
<1> QED BY <1>2, <1>10 DEF Contains
(* What a run that ends needs, for what follows to hold of it.                   *)
Ordered(entries) ==
  recipe.from = 0 =>
    \A k, l \in DOMAIN entries : k < l /\ entries[k] # NewEntry =>
      \A q \in DOMAIN atFirst : atFirst[q] = entries[l] => \E p \in 1..(q - 1) : atFirst[p] = entries[k]

Whole(entries, bad) ==
  /\ \A e \in Wanted \ {Unusable} : Contains(entries, e)
  /\ ~bad => Unusable \notin Wanted
  /\ Ordered(entries)

(* The invariant of a run that ends so.                                          *)
LEMMA EndedRun ==
  ASSUME PagedShape, UNCHANGED <<recipe, site, atFirst>>, run' \in RunRows(run'), OfTheList(run'.entries),
         Len(run'.entries) <= TotalCap + PageCap, run'.reason # NoReason,
         run'.complete => /\ run'.reason \in CompleteReasons /\ ~run'.truncated /\ (recipe.strict => ~run'.invalid)
                          /\ Whole(run'.entries, run'.invalid)
  PROVE  PagedInv'
<1>1. recipe' = recipe /\ site' = site /\ atFirst' = atFirst OBVIOUS
<1>2. PagedShape'
  <2>1. run'.pages \in 0 .. MaxPages BY DEF RunRows
  <2> QED BY <1>1, <2>1 DEF PagedShape, Windows
<1>3. OfTheList(run.entries)' BY <1>1 DEF OfTheList, IsUsable
<1>4. Wanted' = Wanted BY <1>1 DEF Wanted
<1>5. CompleteIsWhole' BY <1>1, <1>4 DEF CompleteIsWhole, Whole
<1>6. InListOrder' BY <1>1 DEF InListOrder, Whole, Ordered
<1>7. PagedTypeOK' BY <1>1 DEF PagedTypeOK, RunRows
<1>8. (run.reason = NoReason => Running)' OBVIOUS
<1> QED BY <1>2, <1>3, <1>5, <1>6, <1>7, <1>8 DEF PagedInv

IsEnded(e, r, reason, complete) ==
  /\ e \in RunRows(e) /\ e.entries = r.entries /\ e.reason = reason /\ e.reason # NoReason
  /\ e.invalid = r.invalid /\ e.truncated = r.truncated
  /\ e.complete = (complete /\ ~(recipe.strict /\ r.invalid) /\ ~r.truncated)
  /\ r.invalid \in BOOLEAN /\ r.truncated \in BOOLEAN

(* What ending a run leaves of it.                                               *)
LEMMA EndedIs ==
  ASSUME NEW r, r \in RunRows(r), NEW reason \in CompleteReasons \cup OtherReasons, NEW complete \in BOOLEAN,
         recipe.strict \in BOOLEAN, NEW e, e = Ended(r, reason, complete)
  PROVE  IsEnded(e, r, reason, complete)
BY DEF RunRows, Ended, IsEnded

(* What is published meanwhile heads the list, and its head is read once.        *)
LEMMA NotMeanwhile ==
  ASSUME PagedShape, Running, Continues, run.pages # 0, run.index <= LastPage,
         NEW at \in Nat, NEW N \in Nat, NodesAt(at, N), NEW m \in 1 .. N
  PROVE  Nodes[m] # NewEntry
<1> SUFFICES ASSUME Nodes[m] = NewEntry PROVE FALSE OBVIOUS
<1>1. PICK len \in Nat, shift \in {0, 1} : len = Len(atFirst) /\ shift = Shift /\ Len(site.list) = len + shift
  <2>1. Len(atFirst) \in Nat /\ Shift \in {0, 1} /\ Len(site.list) = Len(atFirst) + Shift BY ListFacts
  <2> QED BY <2>1
<1>2. at + m \in 1 .. len + shift /\ site.list[at + m] = NewEntry BY <1>1 DEF NodesAt
<1>3. at + m - shift \in 0 .. len BY <1>1, <1>2
<1>4. PICK p \in 0 .. len : p = at + m - shift BY <1>3
<1>5. p = 0
  <2>1. SUFFICES ASSUME p # 0 PROVE FALSE OBVIOUS
  <2>2. p \in 1 .. Len(atFirst) /\ at + m = p + Shift BY <2>1, <1>1, <1>4
  <2>3. site.list[p + Shift] = atFirst[p] BY <2>2, ListFacts
  <2>4. atFirst \in Seq(Range(atFirst)) /\ NewEntry \notin Range(atFirst) BY ListFacts
  <2>5. atFirst[p] \in Range(atFirst) BY <2>2, <2>4, ElementOfSeq
  <2> QED BY <2>2, <2>3, <2>4, <2>5, <1>2
<1>6. at = 0 BY <1>4, <1>5
<1>7. run.index * site.size = 0 BY <1>6 DEF NodesAt
<1>8. run.index = 0
  <2>1. PICK index \in Nat, size \in Nat \ {0} : index = run.index /\ size = site.size BY LastPageFacts DEF PagedShape, RunRows
  <2>2. index # 0 => 1 * size <= index * size BY TimesGrows
  <2> QED BY <2>1, <2>2, <1>7
<1>9. recipe.from \in Nat /\ run.pages \in Nat /\ recipe.mode \in {"none", "page_number", "next_link"}
  BY DEF PagedShape, Recipes, RunRows
<1>10. recipe.mode = "page_number" => FALSE BY <1>8, <1>9 DEF Running
<1>11. recipe.mode = "next_link" => FALSE BY <1>8 DEF Running, Forward, Continues
<1>12. recipe.mode = "none" => FALSE BY DEF Running
<1> QED BY <1>9, <1>10, <1>11, <1>12

(* What each reason to stop tells of the page.                                   *)
LEMMA StopReasons ==
  /\ StopsWith = "single_response" => recipe.mode = "none"
  /\ StopsWith = "empty_page" => Nodes = <<>>
  /\ StopsWith = "total_reached" => recipe.stop = "total_count" /\ TotalReached
  /\ StopsWith = "last_page" => recipe.mode = "next_link" /\ NextLink(run.index) = -1
  /\ StopsWith \in (CompleteReasons \cup OtherReasons \cup {NoReason}) \ {"no_more_pages"}
  /\ IsEnd(StopsWith) => StopsWith \in CompleteReasons
  /\ StopsWith = NoReason =>
       /\ ~(Len(Taken.entries) > TotalCap) /\ recipe.mode # "none" /\ ~IsLast
       /\ recipe.mode = "next_link" => NextLink(run.index) # -1
<1> DEFINE a == Len(Taken.entries) > TotalCap
           b == recipe.mode = "none"
           c == recipe.stop = "empty_items" /\ Nodes = <<>>
           d == recipe.stop = "total_count" /\ TotalReached
           e == recipe.stop = "total_count" /\ Nodes = <<>>
           f == recipe.mode = "next_link" /\ NextLink(run.index) = -1
           g == IsLast
<1>1. StopsWith = IF a THEN "item_cap_reached" ELSE IF b THEN "single_response" ELSE IF c THEN "empty_page"
                  ELSE IF d THEN "total_reached" ELSE IF e THEN "total_not_reached" ELSE IF f THEN "last_page"
                  ELSE IF g THEN "page_cap_reached" ELSE NoReason
  BY DEF StopsWith
<1>2. \A x \in {"item_cap_reached", "single_response", "empty_page", "total_reached", "total_not_reached", "last_page",
                "page_cap_reached"} : x # NoReason /\ x \in (CompleteReasons \cup OtherReasons) \ {"no_more_pages"}
  BY DEF CompleteReasons, OtherReasons
<1> HIDE DEF a, b, c, d, e, f, g
<1>3. /\ StopsWith = "single_response" => b
      /\ StopsWith = "empty_page" => c
      /\ StopsWith = "total_reached" => d
      /\ StopsWith = "last_page" => f
      /\ StopsWith = NoReason => ~a /\ ~b /\ ~g /\ ~f
  BY <1>1, <1>2
<1>4. StopsWith \in (CompleteReasons \cup OtherReasons \cup {NoReason}) \ {"no_more_pages"}
  BY <1>1, <1>2, PagesAssumption DEF CompleteReasons, OtherReasons
<1>5. IsEnd(StopsWith) => StopsWith \in CompleteReasons BY DEF IsEnd, CompleteReasons
<1> QED BY <1>3, <1>4, <1>5 DEF a, b, c, d, e, f, g

(* When the reason to stop is an end of the list, every entry was taken.         *)
LEMMA StopIsWhole ==
  ASSUME PagedShape, OfTheList(run.entries), Running, Continues, NEW at \in Nat, NEW N \in Nat, NodesAt(at, N),
         ~Cut, IsEnd(StopsWith), NEW taken, taken = EntriesAfter[N], Taken.entries = taken,
         recipe.stop = "total_count" => Taken.expected = IF run.expected = -1 THEN Len(site.list) ELSE run.expected
  PROVE  Whole(taken, Invalid)
<1>1. Invalid \in BOOLEAN BY DEF Invalid, Cut, PagedShape, RunRows
<1>2. PICK c \in 0 .. Len(atFirst) :
        UpTo(taken, Invalid, c) /\ (c = Len(atFirst) \/ (run.index <= LastPage /\ at + N <= c + Shift))
  <2>1. Covers BY DEF Running, Cut, PagedShape, RunRows
  <2> QED BY <2>1, ReadsTheList
<1>3. Ordered(taken) BY <1>2 DEF UpTo, Ordered
<1>4. c = Len(atFirst) => Whole(taken, Invalid) BY <1>1, <1>2, <1>3, WholeWhen DEF Whole
<1>5. PICK len \in Nat, shift \in {0, 1}, all \in Nat : len = Len(atFirst) /\ shift = Shift /\ all = Len(site.list) /\ all = len + shift
  <2>1. Len(atFirst) \in Nat /\ Shift \in {0, 1} /\ Len(site.list) = Len(atFirst) + Shift BY ListFacts
  <2> QED BY <2>1
<1> SUFFICES ASSUME c # len PROVE Whole(taken, Invalid) BY <1>4, <1>5
<1>6. run.index <= LastPage /\ at + N <= c + shift BY <1>2, <1>5
<1>7. at + N < all BY <1>5, <1>6
<1>8. recipe.mode # "none" /\ at + N = (run.index + 1) * site.size /\ at = run.index * site.size
  BY <1>5, <1>6, <1>7 DEF NodesAt, Cut
<1>9. PICK index \in Nat, size \in Nat \ {0}, last \in Nat : index = run.index /\ size = site.size /\ last = LastPage
  BY LastPageFacts DEF PagedShape, RunRows
<1>10. (index + 1) * size = index * size + size /\ index * size \in Nat OBVIOUS
<1>11. N = size BY <1>8, <1>9, <1>10
<1>12. Nodes # <<>> BY <1>11, <1>9 DEF NodesAt
<1>13. StopsWith # "last_page"
  <2>1. SUFFICES ASSUME StopsWith = "last_page" PROVE FALSE OBVIOUS
  <2>2. NextLink(run.index) = -1 BY <2>1, StopReasons
  <2>3. ~(index < last) BY <2>2, <1>9 DEF NextLink
  <2>4. index = last BY <2>3, <1>6, <1>9
  <2>5. Len(site.list) <= (LastPage + 1) * site.size BY LastPageFacts
  <2>6. all <= (index + 1) * size BY <2>4, <2>5, <1>5, <1>9
  <2> QED BY <2>6, <1>7, <1>8, <1>9
<1>14. StopsWith = "total_reached"
  <2>1. StopsWith # "single_response" /\ StopsWith # "empty_page" BY <1>8, <1>12, StopReasons
  <2> QED BY <2>1, <1>13 DEF IsEnd
<1>15. recipe.stop = "total_count" /\ Len(taken) >= Taken.expected BY <1>14, StopReasons DEF TotalReached
<1>16. OfTheList(taken) /\ \A x : Contains(taken, x) => Contains(run.entries, x) \/ \E m \in 1 .. N : Nodes[m] = x
  <2>1. N \in 0 .. N OBVIOUS
  <2>2. /\ OfTheList(EntriesAfter[N])
        /\ \A x : Contains(EntriesAfter[N], x) => Contains(run.entries, x) \/ \E m \in 1 .. N : Nodes[m] = x
    BY <2>1, LoopOfTheList
  <2> QED BY <2>2
<1>17. atFirst \in Seq(Range(atFirst)) /\ site.list \in Seq(Range(site.list)) BY ListFacts
<1>18. ASSUME \A e \in Range(atFirst) : Contains(taken, e) PROVE Whole(taken, Invalid)
  <2>1. DOMAIN atFirst = 1 .. len BY <1>5, <1>17, LenProperties
  <2>2. recipe.from * site.size \in Nat
    <3>1. recipe.from \in Nat BY DEF PagedShape, Recipes
    <3> QED BY <3>1, <1>9
  <2>3. Wanted \subseteq Range(atFirst)
    <3>1. PICK from \in Nat : from = recipe.from * site.size BY <2>2
    <3>2. \A i \in (from + 1) .. len : i \in DOMAIN atFirst BY <2>1, <3>1
    <3> QED BY <3>1, <3>2, <1>5 DEF Wanted, Range
  <2>4. \A k \in DOMAIN taken : taken[k] # Unusable BY <1>16 DEF OfTheList, IsUsable
  <2>5. DOMAIN taken = 1 .. Len(taken)
    <3>1. taken \in Seq(Range(site.list)) BY <1>16 DEF OfTheList
    <3> QED BY <3>1, LenProperties
  <2>6. ~Contains(taken, Unusable) BY <2>4, <2>5 DEF Contains
  <2> QED BY <1>18, <1>3, <2>3, <2>6 DEF Whole
<1>19. taken \in Seq(Range(site.list)) /\ \A k, l \in DOMAIN taken : taken[k] = taken[l] => k = l BY <1>16 DEF OfTheList
<1>20. CASE Taken.expected = Len(site.list)
  <2>1. \A e \in Range(site.list) : Contains(taken, e) BY <1>15, <1>17, <1>19, <1>20, AllOfThem
  <2>2. Range(atFirst) \subseteq Range(site.list) BY HeadedRange
  <2> QED BY <2>1, <2>2, <1>18
<1>21. CASE Taken.expected # Len(site.list)
  <2>1. run.expected # -1 /\ Taken.expected = run.expected BY <1>15, <1>21
  <2>2. run.pages # 0 /\ run.expected = Len(atFirst) /\ (Contains(run.entries, NewEntry) => run.index > LastPage)
    BY <2>1, <1>15, <1>21 DEF Running, Counts
  <2>3. ~Contains(run.entries, NewEntry) BY <2>2, <1>6, <1>9
  <2>4. \A m \in 1 .. N : Nodes[m] # NewEntry BY <2>2, <1>6, NotMeanwhile
  <2>5. ~Contains(taken, NewEntry) BY <2>3, <2>4, <1>16
  <2>6. taken \in Seq(Range(atFirst))
    <3>1. Range(site.list) \subseteq Range(atFirst) \cup {NewEntry} BY ListFacts
    <3>2. Len(taken) \in Nat /\ taken \in [1 .. Len(taken) -> Range(site.list)] BY <1>19, LenProperties
    <3>3. \A k \in 1 .. Len(taken) : taken[k] # NewEntry BY <2>5 DEF Contains
    <3>4. taken \in [1 .. Len(taken) -> Range(atFirst)] BY <3>1, <3>2, <3>3
    <3> QED BY <3>2, <3>4, SeqDef
  <2>7. Len(taken) >= Len(atFirst) BY <2>1, <2>2, <1>15
  <2>8. \A e \in Range(atFirst) : Contains(taken, e) BY <2>6, <2>7, <1>17, <1>19, AllOfThem
  <2> QED BY <2>8, <1>18
<1> QED BY <1>20, <1>21
(* A run begins with nothing read of the list.                                   *)
LEMMA PagedInitially == PagedInit => PagedInv
<1> SUFFICES ASSUME PagedInit PROVE PagedInv OBVIOUS
<1>1. recipe \in Recipes /\ Windows(recipe) /\ site \in Sites /\ atFirst = site.list /\ run = Started(recipe) BY DEF PagedInit
<1>2. PagedShape BY <1>1 DEF PagedShape, Recipes, Sites, RunRows, Started
<1>3. run.entries = <<>> /\ run.index = recipe.from /\ run.pages = 0 /\ run.expected = -1 /\ run.reason = NoReason
      /\ run.complete = FALSE /\ run.truncated = FALSE
  BY <1>1 DEF Started
<1>4. DOMAIN run.entries = {} /\ Len(run.entries) = 0 BY <1>3
<1>5. OfTheList(run.entries)
  <2>1. run.entries \in Seq(Range(site.list)) BY <1>3
  <2> QED BY <2>1, <1>4 DEF OfTheList
<1>6. PICK from \in 0 .. 1, size \in Nat, len \in Nat :
        from = recipe.from /\ size = site.size /\ len = Len(atFirst) /\ (recipe.mode # "page_number" => from = 0)
  <2>1. recipe.from \in 0 .. 1 /\ site.size \in Nat /\ Len(atFirst) \in Nat BY <1>1, <1>2, ListFacts DEF PagedShape, Recipes
  <2> QED BY <2>1, <1>1 DEF Windows
<1>7. Covers
  <2> DEFINE start == from * size
             c == IF start < len THEN start ELSE len
  <2>1. start \in Nat /\ (from = 0 => start = 0) OBVIOUS
  <2> HIDE DEF start
  <2>2. c \in 0 .. len /\ start + 1 > c /\ (c = len \/ start <= c) BY <2>1
  <2> HIDE DEF c
  <2>3. UpTo(run.entries, run.invalid, c) BY <2>1, <2>2, <1>4, <1>6 DEF UpTo, start
  <2>4. Shift = 0 BY <1>1 DEF Shift
  <2> QED BY <2>2, <2>3, <2>4, <1>3, <1>6 DEF Covers, start
<1>8. Running
  <2>1. recipe.mode = "next_link" => run.index = 0 BY <1>3, <1>6
  <2>2. Forward BY <2>1, <1>3 DEF Forward
  <2>3. Counts BY <1>3 DEF Counts
  <2> QED BY <2>2, <2>3, <1>3, <1>4, <1>6, <1>7 DEF Running
<1>9. PagedTypeOK BY <1>3, <1>4 DEF PagedTypeOK
<1>10. CompleteIsWhole /\ InListOrder BY <1>3 DEF CompleteIsWhole, InListOrder
<1> QED BY <1>2, <1>5, <1>8, <1>9, <1>10 DEF PagedInv

(* What is published lengthens the list, and no page becomes one past the end.   *)
LEMMA DivGrows == ASSUME NEW a \in Nat, NEW b \in Nat, a <= b, NEW s \in Nat \ {0} PROVE a \div s <= b \div s
<1>1. PICK p \in Nat : p = a \div s /\ p * s <= a BY DivIs
<1>2. PICK q \in Nat : q = b \div s /\ b < (q + 1) * s BY DivIs
<1>3. p >= q + 1 => (q + 1) * s <= p * s BY TimesGrows
<1>4. p * s \in Nat /\ (q + 1) * s \in Nat OBVIOUS
<1> QED BY <1>1, <1>2, <1>3, <1>4

(* An entry is published.                                                        *)
LEMMA PublishKeeps == PagedInv /\ PublishesEntry => PagedInv'
<1> SUFFICES ASSUME PagedInv, PublishesEntry PROVE PagedInv' OBVIOUS
<1>1. run.reason = NoReason /\ site.list = atFirst /\ recipe' = recipe /\ atFirst' = atFirst /\ run' = run
      /\ site' = [site EXCEPT !.list = <<NewEntry>> \o site.list]
  BY DEF PublishesEntry
<1>2. PagedShape /\ OfTheList(run.entries) /\ Running /\ PagedTypeOK BY <1>1 DEF PagedInv
<1>3. /\ site'.list = <<NewEntry>> \o atFirst /\ site'.size = site.size /\ site'.past = site.past
      /\ site' \in [list : {site'.list}, size : PageSizes, past : {"empty", "last", "not_found", "first"}]
  BY <1>1, <1>2 DEF PagedShape
<1>4. PagedShape' BY <1>1, <1>2, <1>3 DEF PagedShape, Windows, RunRows
<1>5. PICK len \in Nat : len = Len(atFirst) /\ atFirst \in Seq(Range(atFirst)) BY <1>2, ListFacts
<1> DEFINE S == Range(atFirst) \cup {NewEntry}
<1>6. /\ Len(site'.list) = len + 1 /\ site'.list # atFirst /\ Range(atFirst) \subseteq Range(site'.list)
  <2>1. atFirst \in Seq(S) /\ <<NewEntry>> \in Seq(S) /\ Len(<<NewEntry>>) = 1 BY <1>5, SeqMonotonic
  <2>2. /\ site'.list \in Seq(S) /\ Len(site'.list) = 1 + len
        /\ \A i \in 1 .. len : site'.list[i + 1] = atFirst[i]
    BY <1>3, <1>5, <2>1
  <2>3. DOMAIN atFirst = 1 .. len BY <1>5, LenProperties
  <2>4. ASSUME NEW i \in DOMAIN atFirst PROVE atFirst[i] \in Range(site'.list)
    <3>1. i + 1 \in 1 .. Len(site'.list) BY <2>2, <2>3
    <3>2. site'.list[i + 1] = atFirst[i] BY <2>2, <2>3
    <3>3. DOMAIN site'.list = 1 .. Len(site'.list) BY <2>2, LenProperties
    <3> QED BY <3>1, <3>2, <3>3 DEF Range
  <2>5. Range(atFirst) \subseteq Range(site'.list)
    <3> SUFFICES ASSUME NEW x \in Range(atFirst) PROVE x \in Range(site'.list) OBVIOUS
    <3>1. PICK i \in DOMAIN atFirst : x = atFirst[i] BY DEF Range
    <3> QED BY <3>1, <2>4
  <2> QED BY <2>2, <2>5, <1>5
<1> HIDE DEF S
<1>7. OfTheList(run.entries)'
  <2>1. run.entries \in Seq(Range(atFirst)) BY <1>1, <1>2 DEF OfTheList
  <2>2. run.entries \in Seq(Range(site'.list)) BY <2>1, <1>6, SeqMonotonic
  <2> QED BY <2>2, <1>1, <1>2 DEF OfTheList, IsUsable
<1>8. Shift = 0 /\ Shift' = 1 BY <1>1, <1>6 DEF Shift
<1>9. run.truncated = FALSE => Covers'
  <2>1. SUFFICES ASSUME run.truncated = FALSE PROVE Covers' OBVIOUS
  <2>2. PICK c \in 0 .. Len(atFirst) : UpTo(run.entries, run.invalid, c) /\ (c = Len(atFirst) \/ run.index * site.size <= c + Shift)
    BY <2>1, <1>2 DEF Running, Covers
  <2>3. UpTo(run.entries, run.invalid, c)' BY <2>2, <1>1, <1>3 DEF UpTo, CoveredAt, IsUsable
  <2>4. PICK start \in Nat : start = run.index * site.size
    <3>1. run.index \in Nat /\ site.size \in Nat BY <1>2 DEF PagedShape, RunRows
    <3> QED BY <3>1
  <2>5. c = len \/ start <= c + 1 BY <2>2, <2>4, <1>5, <1>8
  <2>6. c \in 0 .. Len(atFirst') /\ (c = Len(atFirst') \/ run'.index * site'.size <= c + Shift')
    BY <2>4, <2>5, <1>1, <1>3, <1>5, <1>8
  <2> QED BY <2>3, <2>6 DEF Covers
<1>10. LastPage \in Nat /\ LastPage' \in Nat /\ LastPage <= LastPage'
  <2>1. PICK size \in Nat \ {0} : size = site.size /\ site'.size = size BY <1>2, <1>3, LastPageFacts
  <2>2. site'.list # <<>>
    <3>1. Len(site'.list) # 0 BY <1>5, <1>6
    <3> QED BY <3>1
  <2>3. LastPage' = (len + 1 - 1) \div size BY <2>1, <2>2, <1>6 DEF LastPage
  <2>4. LastPage' = len \div size BY <2>3
  <2>5. len \div size \in Nat BY DivIs
  <2>6. LastPage \in Nat BY <1>2, LastPageFacts
  <2>7. CASE site.list = <<>>
    <3>1. LastPage = 0 BY <2>7 DEF LastPage
    <3> QED BY <3>1, <2>4, <2>5
  <2>8. CASE site.list # <<>>
    <3>1. len # 0 BY <2>8, <1>1, <1>5
    <3>2. LastPage = (len - 1) \div size BY <2>1, <2>8, <1>1, <1>5 DEF LastPage
    <3>3. len - 1 \in Nat /\ len - 1 <= len BY <3>1
    <3>4. (len - 1) \div size <= len \div size BY <3>3, DivGrows
    <3> QED BY <3>2, <3>4, <2>4, <2>5, <2>6
  <2> QED BY <2>7, <2>8
<1>11. Forward'
  <2>1. Forward /\ run.index \in Nat BY <1>2 DEF Running, PagedShape, RunRows
  <2> QED BY <2>1, <1>1, <1>10 DEF Forward
<1>12. Counts'
  <2>1. SUFFICES ASSUME recipe.stop = "total_count" PROVE Counts' BY <1>1 DEF Counts
  <2>2. CASE run.pages = 0 BY <2>1, <2>2, <1>1, <1>2 DEF Running, Counts
  <2>3. CASE run.pages # 0
    <3>1. run.expected = Len(atFirst) BY <2>1, <2>3, <1>1, <1>2 DEF Running, Counts
    <3>2. ~Contains(run.entries, NewEntry)
      <4>1. run.entries \in Seq(Range(atFirst)) /\ NewEntry \notin Range(atFirst) BY <1>1, <1>2, ListFacts DEF OfTheList
      <4>2. \A k \in 1 .. Len(run.entries) : run.entries[k] # NewEntry BY <4>1, ElementOfSeq
      <4> QED BY <4>2 DEF Contains
    <3> QED BY <3>1, <3>2, <2>3, <1>1 DEF Counts
  <2> QED BY <2>2, <2>3
<1>13. Running'
  <2>1. run.complete = FALSE /\ run.pages < MaxPages /\ Len(run.entries) <= TotalCap BY <1>2 DEF Running
  <2>2. /\ recipe.mode = "none" => run.pages = 0
        /\ run.pages = 0 => run.entries = <<>> /\ run.index = recipe.from
        /\ recipe.mode = "page_number" => run.index = recipe.from + run.pages
    BY <1>2 DEF Running
  <2> QED BY <2>1, <2>2, <1>1, <1>9, <1>11, <1>12 DEF Running
<1>14. PagedTypeOK' BY <1>1, <1>2 DEF PagedTypeOK
<1>15. CompleteIsWhole' /\ InListOrder' BY <1>1, <1>2 DEF Running, CompleteIsWhole, InListOrder
<1> QED BY <1>4, <1>7, <1>13, <1>14, <1>15 DEF PagedInv

(* A run that fails is not complete.                                             *)
LEMMA FailKeeps ==
  ASSUME PagedInv, run.reason = NoReason, UNCHANGED <<recipe, site, atFirst>>, NEW reason \in OtherReasons,
         run' = Ended(run, reason, FALSE)
  PROVE  PagedInv'
<1>1. PagedShape /\ OfTheList(run.entries) /\ Running BY DEF PagedInv
<1>2. recipe.strict \in BOOLEAN /\ run \in RunRows(run) BY <1>1 DEF PagedShape, Recipes
<1>3. PICK no \in BOOLEAN : no = FALSE OBVIOUS
<1>30. reason \in CompleteReasons \cup OtherReasons /\ run' = Ended(run, reason, no) BY <1>3
<1>4. /\ run' \in RunRows(run') /\ run'.entries = run.entries /\ run'.reason # NoReason
      /\ run'.complete = (no /\ ~(recipe.strict /\ run.invalid) /\ ~run.truncated)
  <2>1. IsEnded(run', run, reason, no) BY <1>2, <1>30, EndedIs
  <2> QED BY <2>1 DEF IsEnded
<1>5. ~run'.complete BY <1>3, <1>4
<1>6. Len(run.entries) <= TotalCap + PageCap
  <2>1. Len(run.entries) <= TotalCap /\ run.entries \in Seq(Range(site.list)) BY <1>1 DEF Running, OfTheList
  <2>2. Len(run.entries) \in Nat BY <2>1, LenProperties
  <2> QED BY <2>1, <2>2
<1> QED BY <1>1, <1>4, <1>5, <1>6, EndedRun

(* A page that is not found is past the end: the list was read before.           *)
LEMMA NotFoundKeeps == PagedInv /\ NotFound => PagedInv'
<1> SUFFICES ASSUME PagedInv, NotFound PROVE PagedInv' OBVIOUS
<1>1. run.reason = NoReason /\ ~Answers /\ UNCHANGED <<recipe, site, atFirst>> BY DEF NotFound, Continues
<1>2. CASE ~IsPastTheEnd
  <2>1. run' = Ended(run, "page_failed", FALSE) BY <1>2 DEF NotFound
  <2>2. "page_failed" \in OtherReasons BY DEF OtherReasons
  <2> QED BY <2>1, <2>2, <1>1, FailKeeps
<1>3. CASE IsPastTheEnd
  <2>1. PagedShape /\ OfTheList(run.entries) /\ Running BY <1>1 DEF PagedInv
  <2>2. recipe.strict \in BOOLEAN /\ run \in RunRows(run) BY <2>1 DEF PagedShape, Recipes
  <2>30. PICK yes \in BOOLEAN : yes = TRUE OBVIOUS
  <2>3. run' = Ended(run, "no_more_pages", yes) BY <1>3, <2>30 DEF NotFound
  <2>4. "no_more_pages" \in CompleteReasons \cup OtherReasons /\ "no_more_pages" \in CompleteReasons
    BY DEF CompleteReasons
  <2>5. /\ run' \in RunRows(run') /\ run'.entries = run.entries /\ run'.reason = "no_more_pages" /\ run'.reason # NoReason
        /\ run'.invalid = run.invalid /\ run'.truncated = run.truncated
        /\ run'.complete = (yes /\ ~(recipe.strict /\ run.invalid) /\ ~run.truncated)
        /\ run.invalid \in BOOLEAN /\ run.truncated \in BOOLEAN
    <3>1. IsEnded(run', run, "no_more_pages", yes) BY <2>2, <2>3, <2>4, EndedIs
    <3> QED BY <3>1 DEF IsEnded
  <2>6. Len(run.entries) <= TotalCap + PageCap
    <3>1. Len(run.entries) <= TotalCap /\ run.entries \in Seq(Range(site.list)) BY <2>1 DEF Running, OfTheList
    <3>2. Len(run.entries) \in Nat BY <3>1, LenProperties
    <3> QED BY <3>1, <3>2
  <2>7. ~run.truncated => Whole(run.entries, run.invalid)
    <3>1. SUFFICES ASSUME ~run.truncated PROVE Whole(run.entries, run.invalid) OBVIOUS
    <3>2. PICK c \in 0 .. Len(atFirst) : UpTo(run.entries, run.invalid, c) /\ (c = Len(atFirst) \/ run.index * site.size <= c + Shift)
      BY <3>1, <2>1, <2>5 DEF Running, Covers
    <3>3. run.index > LastPage BY <1>1 DEF Answers
    <3>4. Len(site.list) <= run.index * site.size BY <3>3, <2>1, LastPageFacts DEF PagedShape, RunRows
    <3>5. Len(atFirst) \in Nat /\ Shift \in {0, 1} /\ Len(site.list) = Len(atFirst) + Shift BY <2>1, ListFacts
    <3>6. PICK start \in Nat : start = run.index * site.size
      <4>1. run.index \in Nat /\ site.size \in Nat BY <2>1 DEF PagedShape, RunRows
      <4> QED BY <4>1
    <3>7. c = Len(atFirst) BY <3>2, <3>4, <3>5, <3>6
    <3>8. UpTo(run.entries, run.invalid, Len(atFirst)) BY <3>2, <3>7
    <3>9. Ordered(run.entries) BY <3>8 DEF UpTo, Ordered
    <3> QED BY <3>8, <3>9, <2>1, <2>5, WholeWhen DEF Whole
  <2>8. run'.complete => ~run'.truncated /\ (recipe.strict => ~run'.invalid) BY <2>5
  <2> QED BY <2>1, <2>4, <2>5, <2>6, <2>7, <2>8, <1>1, EndedRun
<1> QED BY <1>2, <1>3
(* A page is read: the run ends, or goes on to the next page.                    *)
LEMMA ReadKeeps == PagedInv /\ ReadPage => PagedInv'
<1> SUFFICES ASSUME PagedInv, ReadPage PROVE PagedInv' OBVIOUS
<1>1. run.reason = NoReason /\ Continues /\ UNCHANGED <<recipe, site, atFirst>> BY DEF ReadPage, Continues
<1>2. run' = IF Repeated THEN Ended(Read, "repeated_page", FALSE)
             ELSE IF StopsWith = NoReason THEN [Taken EXCEPT !.index = NextIndex]
             ELSE Ended(Taken, StopsWith, IsEnd(StopsWith))
  BY DEF ReadPage
<1>3. PagedShape /\ OfTheList(run.entries) /\ Running BY <1>1 DEF PagedInv
<1>4. recipe \in Recipes /\ recipe.strict \in BOOLEAN /\ recipe.from \in 0 .. 1 /\ run \in RunRows(run) BY <1>3 DEF PagedShape, Recipes
<1>5. recipe.mode = "none" => run.index = 0 BY <1>3, <1>4 DEF Running, PagedShape, Windows
<1>6. PICK at \in Nat, N \in Nat : NodesAt(at, N) BY <1>3, <1>5, NodesFacts
<1>7. PICK taken : taken = EntriesAfter[N] OBVIOUS
<1>8. /\ OfTheList(taken) /\ Len(run.entries) \in Nat /\ Len(taken) \in Nat /\ Len(taken) <= Len(run.entries) + N
      /\ \A x : Contains(taken, x) => Contains(run.entries, x) \/ \E m \in 1 .. N : Nodes[m] = x
  <2>1. N \in 0 .. N OBVIOUS
  <2>2. /\ OfTheList(EntriesAfter[N]) /\ Len(run.entries) \in Nat
        /\ Len(EntriesAfter[N]) \in Nat /\ Len(EntriesAfter[N]) <= Len(run.entries) + N
        /\ \A x : Contains(EntriesAfter[N], x) => Contains(run.entries, x) \/ \E m \in 1 .. N : Nodes[m] = x
    BY <1>3, <1>6, <2>1, LoopOfTheList
  <2> QED BY <2>2, <1>7
<1>9. Len(run.entries) <= TotalCap /\ N <= PageCap /\ Len(Nodes) = N BY <1>3, <1>6 DEF Running, NodesAt
<1>10. Len(run.entries) <= TotalCap + PageCap /\ Len(taken) <= TotalCap + PageCap BY <1>8, <1>9
<1>11. Cut \in BOOLEAN /\ Invalid \in BOOLEAN BY <1>4 DEF Cut, Invalid, RunRows
<1>12. run.pages < MaxPages /\ run.pages \in 0 .. MaxPages /\ run.index \in Nat /\ run.complete = FALSE
  BY <1>3, <1>4 DEF Running, RunRows
<1>13. /\ Read \in RunRows(Read) /\ Read.entries = run.entries /\ Read.pages = run.pages + 1
       /\ Read.seenPages = run.seenPages \cup {run.index} /\ Read.invalid = Invalid /\ Read.truncated = Cut
       /\ Read.index = run.index /\ Read.reason = run.reason /\ Read.complete = run.complete /\ Read.expected = run.expected
  <2>1. run.pages + 1 \in 0 .. MaxPages BY <1>12
  <2> QED BY <2>1, <1>4, <1>11, <1>12 DEF Read, RunRows
<1> DEFINE expected == IF recipe.stop = "total_count" /\ run.expected = -1 THEN Len(site.list) ELSE run.expected
<1>14. expected \in Int
  <2>1. site.list \in Seq(Range(site.list)) BY <1>3, ListFacts
  <2>2. Len(site.list) \in Nat BY <2>1, LenProperties
  <2> QED BY <2>2, <1>4 DEF RunRows
<1>15. Taken = [Read EXCEPT !.entries = taken, !.previous = Fields, !.expected = expected]
  BY <1>7, <1>9, <1>13 DEF Taken
<1> HIDE DEF expected
<1>16. /\ Taken \in RunRows(Taken) /\ Taken.entries = taken /\ Taken.pages = run.pages + 1
       /\ Taken.seenPages = run.seenPages \cup {run.index} /\ Taken.invalid = Invalid /\ Taken.truncated = Cut
       /\ Taken.index = run.index /\ Taken.reason = run.reason /\ Taken.complete = run.complete /\ Taken.expected = expected
  BY <1>13, <1>14, <1>15 DEF RunRows
<1>17. CASE Repeated
  <2>1. run' = Ended(Read, "repeated_page", FALSE) BY <1>2, <1>17
  <2>2. "repeated_page" \in CompleteReasons \cup OtherReasons BY DEF OtherReasons
  <2>3. PICK no \in BOOLEAN : no = FALSE OBVIOUS
  <2>4. run' = Ended(Read, "repeated_page", no) BY <2>1, <2>3
  <2>5. /\ run' \in RunRows(run') /\ run'.entries = Read.entries /\ run'.reason # NoReason
        /\ run'.complete = (no /\ ~(recipe.strict /\ Read.invalid) /\ ~Read.truncated)
    <3>1. IsEnded(run', Read, "repeated_page", no) BY <2>2, <2>4, <1>4, <1>13, EndedIs
    <3> QED BY <3>1 DEF IsEnded
  <2>6. ~run'.complete BY <2>3, <2>5
  <2> QED BY <2>5, <2>6, <1>1, <1>3, <1>10, <1>13, EndedRun
<1>18. CASE ~Repeated /\ StopsWith # NoReason
  <2>1. PICK ends \in BOOLEAN : ends = IsEnd(StopsWith)
    <3>1. IsEnd(StopsWith) \in BOOLEAN BY DEF IsEnd
    <3> QED BY <3>1
  <2>2. PICK reason \in CompleteReasons \cup OtherReasons : reason = StopsWith BY <1>18, StopReasons
  <2>3. run' = Ended(Taken, reason, ends) BY <1>2, <1>18, <2>1, <2>2
  <2>4. /\ run' \in RunRows(run') /\ run'.entries = Taken.entries /\ run'.reason = reason /\ run'.reason # NoReason
        /\ run'.invalid = Taken.invalid /\ run'.truncated = Taken.truncated
        /\ run'.complete = (ends /\ ~(recipe.strict /\ Taken.invalid) /\ ~Taken.truncated)
    <3>1. IsEnded(run', Taken, reason, ends) BY <2>2, <2>3, <1>4, <1>16, EndedIs
    <3> QED BY <3>1 DEF IsEnded
  <2>5. run'.complete => /\ run'.reason \in CompleteReasons /\ ~run'.truncated /\ (recipe.strict => ~run'.invalid)
                         /\ Whole(run'.entries, run'.invalid)
    <3>1. SUFFICES ASSUME run'.complete
          PROVE  /\ run'.reason \in CompleteReasons /\ ~run'.truncated /\ (recipe.strict => ~run'.invalid)
                 /\ Whole(run'.entries, run'.invalid)
      OBVIOUS
    <3>2. ends /\ ~(recipe.strict /\ Taken.invalid) /\ ~Taken.truncated BY <2>4, <3>1
    <3>3. IsEnd(StopsWith) /\ ~Cut BY <2>1, <3>2, <1>16
    <3>4. recipe.stop = "total_count" => Taken.expected = IF run.expected = -1 THEN Len(site.list) ELSE run.expected
      BY <1>16 DEF expected
    <3>5. Whole(taken, Invalid) BY <3>3, <3>4, <1>1, <1>3, <1>6, <1>7, <1>16, StopIsWhole
    <3>6. run'.reason \in CompleteReasons BY <2>2, <2>4, <3>3, StopReasons
    <3> QED BY <2>4, <3>2, <3>5, <3>6, <1>16
  <2> QED BY <2>4, <2>5, <1>1, <1>3, <1>8, <1>10, <1>16, EndedRun
<1>19. CASE ~Repeated /\ StopsWith = NoReason
  <2>1. run' = [Taken EXCEPT !.index = NextIndex] BY <1>2, <1>19
  <2>2. /\ ~(Len(taken) > TotalCap) /\ recipe.mode # "none" /\ ~IsLast
        /\ recipe.mode = "next_link" => NextLink(run.index) # -1
    BY <1>16, <1>19, StopReasons
  <2>3. LastPage \in Nat BY <1>3, LastPageFacts
  <2>4. /\ NextIndex \in Nat
        /\ NextIndex = run.index + 1 \/ (NextIndex = 0 /\ recipe.mode = "next_link")
        /\ recipe.mode = "next_link" => NextIndex <= LastPage
        /\ recipe.mode # "next_link" => NextIndex = run.index + 1
    BY <2>2, <2>3, <1>12 DEF NextIndex, NextLink
  <2>5. /\ run' \in RunRows(run') /\ run'.entries = taken /\ run'.pages = run.pages + 1
        /\ run'.seenPages = run.seenPages \cup {run.index} /\ run'.invalid = Invalid /\ run'.truncated = Cut
        /\ run'.index = NextIndex /\ run'.reason = NoReason /\ run'.complete = FALSE /\ run'.expected = expected
    BY <2>1, <2>4, <1>1, <1>12, <1>16 DEF RunRows
  <2>6. recipe' = recipe /\ site' = site /\ atFirst' = atFirst /\ Shift' = Shift /\ LastPage' = LastPage
    BY <1>1 DEF Shift, LastPage
  <2>7. run'.pages < MaxPages /\ run'.pages # 0 /\ run'.pages \in 0 .. MaxPages
    <3>1. run.pages + 1 # MaxPages BY <2>2 DEF IsLast
    <3> QED BY <3>1, <2>5, <1>12
  <2>8. PagedShape' BY <2>5, <2>6, <1>3 DEF PagedShape, Windows
  <2>9. OfTheList(run.entries)' BY <2>5, <2>6, <1>8 DEF OfTheList, IsUsable
  <2>10. run'.truncated = FALSE => Covers'
    <3>1. SUFFICES ASSUME ~Cut PROVE Covers' BY <2>5, <1>11
    <3>2. Covers BY <3>1, <1>3, <1>4 DEF Running, Cut, RunRows
    <3>3. PICK c \in 0 .. Len(atFirst) :
            UpTo(taken, Invalid, c) /\ (c = Len(atFirst) \/ (run.index <= LastPage /\ at + N <= c + Shift))
      BY <3>2, <1>3, <1>6, <1>7, ReadsTheList
    <3>5. UpTo(run.entries, run.invalid, c)' BY <3>3, <2>5, <2>6 DEF UpTo, CoveredAt, IsUsable
    <3>6. PICK size \in Nat, shift \in {0, 1}, len \in Nat :
            size = site.size /\ shift = Shift /\ len = Len(atFirst) /\ Len(site.list) = len + shift
      <4>1. site.size \in Nat BY <1>3, LastPageFacts
      <4>2. Len(atFirst) \in Nat /\ Shift \in {0, 1} /\ Len(site.list) = Len(atFirst) + Shift BY <1>3, ListFacts
      <4> QED BY <4>1, <4>2
    <3>7. run.index <= LastPage => at + N = len + shift \/ at + N = (run.index + 1) * size
      BY <3>1, <3>6, <1>6 DEF NodesAt, Cut
    <3>8. c = len \/ NextIndex * size <= c + shift
      <4>1. SUFFICES ASSUME c # len PROVE NextIndex * size <= c + shift OBVIOUS
      <4>2. run.index <= LastPage /\ at + N <= c + shift BY <4>1, <3>3, <3>6
      <4>3. at + N = (run.index + 1) * size BY <4>1, <4>2, <3>3, <3>6, <3>7
      <4>4. CASE NextIndex = run.index + 1 BY <4>2, <4>3, <4>4
      <4>5. CASE NextIndex = 0
        <5>1. NextIndex * size = 0 BY <4>5
        <5> QED BY <5>1, <3>6
      <4> QED BY <4>4, <4>5, <2>4
    <3>9. c \in 0 .. Len(atFirst') /\ (c = Len(atFirst') \/ run'.index * site'.size <= c + Shift')
      BY <3>6, <3>8, <2>5, <2>6
    <3> QED BY <3>5, <3>9 DEF Covers
  <2>11. Forward'
    <3>1. recipe.mode = "next_link" => 0 \in run'.seenPages BY <2>5, <1>3 DEF Running, Forward
    <3> QED BY <3>1, <2>4, <2>5, <2>6 DEF Forward
  <2>12. Counts'
    <3>1. SUFFICES ASSUME recipe.stop = "total_count" PROVE Counts' BY <2>6 DEF Counts
    <3>2. CASE run.pages = 0
      <4>1. run.expected = -1 BY <3>1, <3>2, <1>3 DEF Running, Counts
      <4> QED BY <4>1, <3>1, <2>5, <2>6, <2>7 DEF Counts, expected
    <3>3. CASE run.pages # 0
      <4>1. \/ run.expected = Len(site.list)
            \/ run.expected = Len(atFirst) /\ (Contains(run.entries, NewEntry) => run.index > LastPage)
        BY <3>1, <3>3, <1>3 DEF Running, Counts
      <4>2. Len(site.list) \in Nat /\ Len(atFirst) \in Nat
        <5>1. Len(atFirst) \in Nat /\ Shift \in {0, 1} /\ Len(site.list) = Len(atFirst) + Shift BY <1>3, ListFacts
        <5> QED BY <5>1
      <4>3. run'.expected = run.expected BY <4>1, <4>2, <2>5 DEF expected
      <4>4. CASE run.expected = Len(site.list) BY <4>3, <4>4, <2>6, <2>7 DEF Counts
      <4>5. CASE run.expected = Len(atFirst) /\ (Contains(run.entries, NewEntry) => run.index > LastPage)
        <5>1. Contains(taken, NewEntry) => NextIndex > LastPage
          <6>1. SUFFICES ASSUME Contains(taken, NewEntry) PROVE NextIndex > LastPage OBVIOUS
          <6>2. run.index <= LastPage => \A m \in 1 .. N : Nodes[m] # NewEntry BY <1>1, <1>3, <1>6, <3>3, NotMeanwhile
          <6>3. run.index > LastPage BY <6>1, <6>2, <4>5, <1>8, <1>12, <2>3
          <6>4. recipe.mode # "next_link" BY <6>3, <3>3, <1>3, <1>12, <2>3 DEF Running, Forward
          <6> QED BY <6>3, <6>4, <2>3, <2>4, <1>12
        <5> QED BY <5>1, <4>3, <4>5, <2>5, <2>6, <2>7 DEF Counts
      <4> QED BY <4>1, <4>4, <4>5
    <3> QED BY <3>2, <3>3
  <2>13. recipe.mode = "page_number" => run'.index = recipe.from + run'.pages
    <3>1. SUFFICES ASSUME recipe.mode = "page_number" PROVE run'.index = recipe.from + run'.pages OBVIOUS
    <3>2. run.index = recipe.from + run.pages /\ NextIndex = run.index + 1 BY <3>1, <2>4, <1>3 DEF Running
    <3> QED BY <3>2, <2>5, <1>4, <1>12
  <2>14. Running'
    <3>1. Len(run'.entries) <= TotalCap BY <2>2, <2>5, <1>8
    <3> QED BY <3>1, <2>2, <2>5, <2>6, <2>7, <2>10, <2>11, <2>12, <2>13 DEF Running
  <2>15. PagedTypeOK' BY <2>5, <2>7, <1>10 DEF PagedTypeOK
  <2>16. CompleteIsWhole' /\ InListOrder' BY <2>5 DEF CompleteIsWhole, InListOrder
  <2> QED BY <2>8, <2>9, <2>14, <2>15, <2>16 DEF PagedInv
<1> QED BY <1>17, <1>18, <1>19

(* A step of the list or of the run keeps what is true of them.                  *)
LEMMA PagedStep == PagedInv /\ [PagedNext]_pagedVars => PagedInv'
<1> SUFFICES ASSUME PagedInv, [PagedNext]_pagedVars PROVE PagedInv' OBVIOUS
<1>1. CASE PublishesEntry BY <1>1, PublishKeeps
<1>2. CASE ReadPage BY <1>2, ReadKeeps
<1>3. CASE NotFound BY <1>3, NotFoundKeeps
<1>4. CASE PageFails
  <2>1. PICK reason \in {"page_failed", "raised"} : run' = Ended(run, reason, FALSE) BY <1>4 DEF PageFails
  <2>2. reason \in OtherReasons BY DEF OtherReasons
  <2> QED BY <2>1, <2>2, <1>4, FailKeeps DEF PageFails, Continues
<1>5. CASE Loops
  <2>1. "pagination_loop" \in OtherReasons BY DEF OtherReasons
  <2> QED BY <2>1, <1>5, FailKeeps DEF Loops
<1>6. CASE UNCHANGED pagedVars
  <2>1. recipe' = recipe /\ site' = site /\ atFirst' = atFirst /\ run' = run BY <1>6 DEF pagedVars
  <2>2. PagedShape' BY <2>1 DEF PagedInv, PagedShape, Windows
  <2>3. OfTheList(run.entries)' BY <2>1 DEF PagedInv, OfTheList, IsUsable
  <2>4. LastPage' = LastPage /\ Shift' = Shift /\ Wanted' = Wanted BY <2>1 DEF LastPage, Shift, Wanted
  <2>5. Covers => Covers'
    <3>1. SUFFICES ASSUME Covers PROVE Covers' OBVIOUS
    <3>2. PICK c \in 0 .. Len(atFirst) : UpTo(run.entries, run.invalid, c) /\ (c = Len(atFirst) \/ run.index * site.size <= c + Shift)
      BY <3>1 DEF Covers
    <3>3. UpTo(run.entries, run.invalid, c)' BY <3>2, <2>1 DEF UpTo, CoveredAt, IsUsable
    <3>4. c \in 0 .. Len(atFirst') /\ (c = Len(atFirst') \/ run'.index * site'.size <= c + Shift') BY <3>2, <2>1, <2>4
    <3> QED BY <3>3, <3>4 DEF Covers
  <2>6. Running => Running' BY <2>1, <2>4, <2>5 DEF Running, Forward, Counts
  <2>7. PagedTypeOK' /\ CompleteIsWhole' /\ InListOrder' BY <2>1, <2>4 DEF PagedInv, PagedTypeOK, CompleteIsWhole, InListOrder
  <2> QED BY <2>1, <2>2, <2>3, <2>6, <2>7 DEF PagedInv
<1> QED BY <1>1, <1>2, <1>3, <1>4, <1>5, <1>6 DEF PagedNext

(* A list that is called complete lacks nothing the site listed when the reading *)
(* began, and keeps its order, though entries are published meanwhile            *)
(* (plugins/runtime.py).                                                         *)
THEOREM NothingIsMissed == PagedSpec => [](PagedTypeOK /\ CompleteIsWhole /\ InListOrder)
<1>1. PagedInv => PagedTypeOK /\ CompleteIsWhole /\ InListOrder
  BY DEF PagedInv
<1> QED BY <1>1, PagedInitially, PagedStep, PTL DEF PagedSpec
-----------------------------------------------------------------------------
(* CORRECTIONS. What is kept is kept of the same units everywhere, so that what  *)
(* is applied to the columns of a unit is all that is corrected of it.           *)
(* What is kept of both units, here and in the archive, and nothing of another.  *)
OfUnits(x, s, o) == DOMAIN x = Units2 /\ DOMAIN s = Units2 /\ DOMAIN o = Units2
CorrectionsShape ==
  /\ units \subseteq Units2 /\ OfUnits(source, shown, overrides)
  /\ archive # NotCorrected => archive.units \subseteq Units2 /\ OfUnits(archive.source, archive.shown, archive.overrides)

USE CorrectionsAssumption

(* Nothing is corrected at the start.                                          *)
LEMMA CorrectionsInitially == ASSUME CorrectionsInit PROVE CorrectionsShape
BY DEF CorrectionsInit, CorrectionsShape, OfUnits

(* Applying the corrections shows them.                                        *)
LEMMA AppliedShows ==
  ASSUME NEW columns, NEW rows, NEW u \in Units2, NEW f \in UnitFields, rows[u][f] # NotCorrected
  PROVE  Applied(columns, rows)[u][f] = rows[u][f]
BY DEF Applied

(* A refresh of a unit shows what is corrected of it.                          *)
LEMMA RefreshKeeps ==
  ASSUME CorrectionsShape, NEW v \in Units2, Refresh(v)
  PROVE  CorrectionsShape' /\ \A u \in Units2 : source'[u] # source[u] => Shows(u)'
<1> USE DEF CorrectionsShape, OfUnits
<1>1. PICK columns, now :
         /\ source' = [source EXCEPT ![v] = now] /\ shown' = [shown EXCEPT ![v] = Applied(columns, overrides)[v]]
  BY DEF Refresh
<1>2. UNCHANGED <<units, overrides, work, archive>> BY DEF Refresh
<1>3. CorrectionsShape' BY <1>1, <1>2
<1>4. \A u \in Units2 : source'[u] # source[u] => u = v BY <1>1
<1>5. Shows(v)'
  <2>1. \A f \in UnitFields : overrides[v][f] # NotCorrected => shown'[v][f] = overrides[v][f]
    BY <1>1, AppliedShows
  <2> QED BY <2>1, <1>2 DEF Shows
<1> QED BY <1>3, <1>4, <1>5

(* So does a backup that is merged back, of every unit there then is.          *)
LEMMA MergeKeepsCorrections ==
  ASSUME CorrectionsShape, MergeSaved
  PROVE  CorrectionsShape' /\ \A u \in units' : Shows(u)'
<1> USE DEF CorrectionsShape, OfUnits
<1> DEFINE back == archive.units \ units
           rows == [u \in Units2 |-> [f \in UnitFields |-> Either(overrides[u][f], archive.overrides[u][f])]]
           columns == [u \in Units2 |-> IF u \in back THEN archive.shown[u] ELSE shown[u]]
<1>1. /\ overrides' = [u \in Units2 |-> IF u \in units' THEN rows[u] ELSE NoOverrides]
      /\ source' = [u \in Units2 |-> IF u \in back THEN archive.source[u] ELSE source[u]]
      /\ shown' = Applied(columns, overrides')
  BY Zenon DEF MergeSaved
<1> HIDE DEF back, rows, columns
<1>2. units' = units \cup archive.units /\ archive # NotCorrected /\ archive' = archive BY DEF MergeSaved
<1>3. CorrectionsShape' BY <1>1, <1>2 DEF Applied
<1>4. ASSUME NEW u \in units' PROVE Shows(u)'
  <2>1. u \in Units2 BY <1>2
  <2>2. \A f \in UnitFields : overrides'[u][f] # NotCorrected => shown'[u][f] = overrides'[u][f]
    BY <1>1, <2>1, AppliedShows
  <2> QED BY <2>2 DEF Shows
<1> QED BY <1>3, <1>4

(* What a step keeps, and who refreshes or merges shows the corrections.         *)
LEMMA CorrectionsStep ==
  ASSUME CorrectionsShape, [CorrectionsNext]_correctionVars
  PROVE  /\ CorrectionsShape'
         /\ \A u \in Units2 : (source'[u] # source[u] /\ u \in units' /\ archive' = archive /\ refreshes' # refreshes) => Shows(u)'
         /\ MergeSaved => \A u \in units' : Shows(u)'
<1>m. MergeSaved => \A u \in units' : Shows(u)' BY MergeKeepsCorrections
<1>1. CASE UNCHANGED correctionVars
  <2>1. CorrectionsShape' /\ source' = source BY <1>1 DEF correctionVars, CorrectionsShape, OfUnits
  <2> QED BY <2>1, <1>m
<1>2. ASSUME NEW v \in Units2, Refresh(v) PROVE CorrectionsShape' /\ \A u \in Units2 : source'[u] # source[u] => Shows(u)'
  BY <1>2, RefreshKeeps
<1>3. ASSUME \/ \E u \in units, f \in UnitFields : Correct(u, f) \/ ClearUnit(u, f)
             \/ CorrectWork \/ ClearWork \/ RepairWork \/ RepairTwin \/ BackUpCorrections \/ ReplaceBySaved
      PROVE  CorrectionsShape' /\ refreshes' = refreshes
  <2> USE DEF CorrectionsShape, OfUnits
  <2>1. CASE \E u \in units, f \in UnitFields : Correct(u, f) \/ ClearUnit(u, f)
    BY <2>1 DEF Correct, ClearUnit
  <2>2. CASE CorrectWork \/ ClearWork \/ RepairWork BY <2>2 DEF CorrectWork, ClearWork, RepairWork
  <2>3. CASE RepairTwin BY <2>3 DEF RepairTwin
  <2>4. CASE BackUpCorrections BY <2>4 DEF BackUpCorrections
  <2>5. CASE ReplaceBySaved BY <2>5 DEF ReplaceBySaved
  <2> QED BY <1>3, <2>1, <2>2, <2>3, <2>4, <2>5
<1>4. CASE MergeSaved
  <2>1. CorrectionsShape' /\ \A u \in units' : Shows(u)' BY <1>4, MergeKeepsCorrections
  <2> QED BY <2>1
<1> QED BY <1>1, <1>2, <1>3, <1>4, <1>m DEF CorrectionsNext

(* What the columns of the units say, of the library and of an archive alike: of *)
(* a field that is not corrected, what the source says; a unit that is not there *)
(* has no corrections.                                                           *)
AsTheSource(u, so, sh, ov) ==
  /\ ov[u]["title"] = NotCorrected => sh[u]["title"] = so[u].says
  /\ (ov[u]["type"] = NotCorrected /\ so[u].listed) => sh[u]["type"] = so[u].says
UnitsAgree(us, so, sh, ov) ==
  /\ us \subseteq Units2 /\ Unit \in us
  /\ so \in [Units2 -> [says : Types, listed : BOOLEAN]]
  /\ sh \in [Units2 -> [UnitFields -> Values]] /\ ov \in [Units2 -> [UnitFields -> {NotCorrected, Chosen}]]
  /\ \A u \in Units2 \ us : ov[u] = NoOverrides
  /\ \A u \in us : AsTheSource(u, so, sh, ov)

(* The user's word for a Work stands while it is not cleared, and only words of  *)
(* others are remembered.                                                        *)
WorkAgrees(w) ==
  /\ w \in [type : Values, by : {Unknown, "plugin_default", "user"}, override : {NotCorrected, Chosen},
            replaced : {NotCorrected} \cup [type : Values \ {Chosen}, by : {Unknown, "plugin_default"}]]
  /\ w.override # NotCorrected => w.type = w.override /\ w.by = "user"
  /\ w.by # "user" => w.type # Chosen

CorrectionsInv ==
  /\ UnitsAgree(units, source, shown, overrides) /\ WorkAgrees(work)
  /\ archive # NotCorrected => /\ UnitsAgree(archive.units, archive.source, archive.shown, archive.overrides)
                               /\ WorkAgrees(archive.work)

(* Nothing is corrected at the start.                                            *)
LEMMA FieldsInitially == ASSUME CorrectionsInit PROVE CorrectionsInv
<1>1. (CHOOSE t \in Types : TRUE) \in Types OBVIOUS
<1>2. UnitsAgree(units, source, shown, overrides)
  BY <1>1 DEF CorrectionsInit, UnitsAgree, AsTheSource, AllSay, NoOverrides, Values, UnitFields, Units2
<1>3. WorkAgrees(work) BY DEF CorrectionsInit, WorkAgrees, Values, NoWord, Unknown
<1>4. archive = NotCorrected BY DEF CorrectionsInit
<1> QED BY <1>2, <1>3, <1>4 DEF CorrectionsInv

(* The user, of a unit or of the Work.                                           *)
LEMMA UserKeepsFields ==
  ASSUME CorrectionsInv,
         \/ \E u \in units, f \in UnitFields : Correct(u, f) \/ ClearUnit(u, f)
         \/ CorrectWork \/ ClearWork \/ RepairWork
  PROVE  CorrectionsInv'
<1>1. ASSUME NEW u \in units, NEW f \in UnitFields, Correct(u, f) PROVE CorrectionsInv'
  <2>1. UnitsAgree(units, source, shown, overrides)'
    BY <1>1 DEF Correct, CorrectionsInv, UnitsAgree, AsTheSource, Values, UnitFields
  <2> QED BY <1>1, <2>1 DEF Correct, CorrectionsInv
<1>2. ASSUME NEW u \in units, NEW f \in UnitFields, ClearUnit(u, f) PROVE CorrectionsInv'
  <2>1. PutBack(u, f) \in Values BY DEF PutBack, Values, CorrectionsInv, UnitsAgree
  <2>2. f = "title" \/ source[u].listed => PutBack(u, f) = source[u].says BY DEF PutBack
  <2>3. UnitsAgree(units, source, shown, overrides)'
    <3>1. u \in Units2 BY DEF CorrectionsInv, UnitsAgree
    <3>2. shown' \in [Units2 -> [UnitFields -> Values]] /\ overrides' \in [Units2 -> [UnitFields -> {NotCorrected, Chosen}]]
      BY <1>2, <2>1 DEF ClearUnit, CorrectionsInv, UnitsAgree
    <3>3. \A x \in Units2, g \in UnitFields :
            /\ shown'[x][g] = IF x = u /\ g = f THEN PutBack(u, f) ELSE shown[x][g]
            /\ overrides'[x][g] = IF x = u /\ g = f THEN NotCorrected ELSE overrides[x][g]
      BY <1>2, <3>1 DEF ClearUnit, CorrectionsInv, UnitsAgree
    <3>4. \A x \in units : AsTheSource(x, source', shown', overrides')
      <4> SUFFICES ASSUME NEW x \in units PROVE AsTheSource(x, source', shown', overrides')
        OBVIOUS
      <4>1. x \in Units2 /\ AsTheSource(x, source, shown, overrides) BY DEF CorrectionsInv, UnitsAgree
      <4> QED BY <1>2, <2>2, <3>3, <4>1 DEF ClearUnit, AsTheSource, UnitFields
    <3>5. \A x \in Units2 \ units : overrides'[x] = NoOverrides BY <1>2 DEF ClearUnit, CorrectionsInv, UnitsAgree
    <3> QED BY <1>2, <3>2, <3>4, <3>5 DEF ClearUnit, CorrectionsInv, UnitsAgree
  <2> QED BY <1>2, <2>3 DEF ClearUnit, CorrectionsInv
<1>3. CASE CorrectWork
  <2>1. Remembered \in {NotCorrected} \cup [type : Values \ {Chosen}, by : {Unknown, "plugin_default"}]
    BY DEF Remembered, Word, CorrectionsInv, WorkAgrees
  <2>2. WorkAgrees(work)' BY <1>3, <2>1 DEF CorrectWork, WorkAgrees, Values
  <2> QED BY <1>3, <2>2 DEF CorrectWork, CorrectionsInv
<1>4. CASE ClearWork
  <2>1. ReplacedWord \in [type : Values \ {Chosen}, by : {Unknown, "plugin_default"}]
    BY DEF ReplacedWord, Word, NoWord, Values, Unknown, CorrectionsInv, WorkAgrees
  <2>2. WorkAgrees(work)' BY <1>4, <2>1 DEF ClearWork, WorkAgrees
  <2> QED BY <1>4, <2>2 DEF ClearWork, CorrectionsInv
<1>5. CASE RepairWork
  <2>1. WorkAgrees(work)' BY <1>5 DEF RepairWork, Unclassified, CorrectionsInv, WorkAgrees, Values, Unknown
  <2> QED BY <1>5, <2>1 DEF RepairWork, CorrectionsInv
<1> QED BY <1>1, <1>2, <1>3, <1>4, <1>5

(* Columns to which the corrections are applied say what they did where nothing  *)
(* is corrected.                                                                 *)
LEMMA AppliedKeeps ==
  ASSUME NEW columns \in [Units2 -> [UnitFields -> Values]],
         NEW rows \in [Units2 -> [UnitFields -> {NotCorrected, Chosen}]]
  PROVE  /\ Applied(columns, rows) \in [Units2 -> [UnitFields -> Values]]
         /\ \A u \in Units2, f \in UnitFields : rows[u][f] = NotCorrected => Applied(columns, rows)[u][f] = columns[u][f]
BY DEF Applied, Values

(* A catalog of the source.                                                      *)
LEMMA RefreshKeepsFields ==
  ASSUME CorrectionsInv, NEW v \in Units2, Refresh(v)
  PROVE  CorrectionsInv'
<1>1. PICK said \in Types, listed \in BOOLEAN :
         LET now == IF listed THEN [says |-> said, listed |-> TRUE] ELSE [source[v] EXCEPT !.listed = FALSE]
             columns == IF listed THEN [shown EXCEPT ![v] = AllSay(said)] ELSE shown
         IN /\ source' = [source EXCEPT ![v] = now]
            /\ shown' = [shown EXCEPT ![v] = Applied(columns, overrides)[v]]
  BY DEF Refresh
<1> DEFINE now == IF listed THEN [says |-> said, listed |-> TRUE] ELSE [source[v] EXCEPT !.listed = FALSE]
           columns == IF listed THEN [shown EXCEPT ![v] = AllSay(said)] ELSE shown
<1>2. source' = [source EXCEPT ![v] = now] /\ shown' = [shown EXCEPT ![v] = Applied(columns, overrides)[v]]
      /\ UNCHANGED <<units, overrides, work, archive>>
  BY <1>1 DEF Refresh
<1>3. now \in [says : Types, listed : BOOLEAN] /\ (now.listed <=> listed) /\ now.says = IF listed THEN said ELSE source[v].says
  <2>1. source[v] \in [says : Types, listed : BOOLEAN] BY DEF CorrectionsInv, UnitsAgree
  <2>2. CASE listed BY <2>2
  <2>3. CASE ~listed BY <2>1, <2>3
  <2> QED BY <2>2, <2>3
<1>4. columns \in [Units2 -> [UnitFields -> Values]]
      /\ \A f \in UnitFields : columns[v][f] = IF listed THEN said ELSE shown[v][f]
  BY DEF CorrectionsInv, UnitsAgree, AllSay, Values
<1> HIDE DEF now, columns
<1>a. /\ Applied(columns, overrides) \in [Units2 -> [UnitFields -> Values]]
      /\ \A u \in Units2, f \in UnitFields : overrides[u][f] = NotCorrected => Applied(columns, overrides)[u][f] = columns[u][f]
  <2>1. overrides \in [Units2 -> [UnitFields -> {NotCorrected, Chosen}]] BY DEF CorrectionsInv, UnitsAgree
  <2> QED BY <1>4, <2>1, AppliedKeeps, Zenon
<1>5. \A f \in UnitFields : overrides[v][f] = NotCorrected => shown'[v][f] = columns[v][f]
  BY <1>2, <1>a DEF CorrectionsInv, UnitsAgree
<1>6. source' \in [Units2 -> [says : Types, listed : BOOLEAN]] /\ shown' \in [Units2 -> [UnitFields -> Values]]
  BY <1>2, <1>3, <1>a DEF CorrectionsInv, UnitsAgree
<1>7. \A u \in Units2 \ {v} : source'[u] = source[u] /\ shown'[u] = shown[u]
  BY <1>2 DEF CorrectionsInv, UnitsAgree
<1>8. AsTheSource(v, source', shown', overrides)
  <2>1. source'[v] = now BY <1>2 DEF CorrectionsInv, UnitsAgree
  <2>2. v \in units BY DEF Refresh
  <2>3. AsTheSource(v, source, shown, overrides) BY <2>2 DEF CorrectionsInv, UnitsAgree
  <2> QED BY <1>3, <1>4, <1>5, <2>1, <2>3 DEF AsTheSource, UnitFields
<1>9. UnitsAgree(units, source, shown, overrides)'
  BY <1>2, <1>6, <1>7, <1>8 DEF CorrectionsInv, UnitsAgree, AsTheSource
<1> QED BY <1>2, <1>9 DEF CorrectionsInv

(* The repair joins the twin with its unit.                                      *)
LEMMA TwinKeepsFields == ASSUME CorrectionsInv, RepairTwin PROVE CorrectionsInv'
<1>1. \A u \in Units2, f \in UnitFields :
        overrides'[u][f] = IF u = Twin THEN NotCorrected ELSE IF overrides[Unit][f] # NotCorrected THEN overrides[Unit][f] ELSE overrides[Twin][f]
  BY DEF RepairTwin
<1>2. overrides' \in [Units2 -> [UnitFields -> {NotCorrected, Chosen}]] /\ overrides'[Twin] = NoOverrides
  BY DEF RepairTwin, CorrectionsInv, UnitsAgree, NoOverrides, Units2
<1>3. shown' \in [Units2 -> [UnitFields -> Values]] /\ shown'[Unit] = shown[Unit]
  BY DEF RepairTwin, CorrectionsInv, UnitsAgree, AllSay, Values, Units2
<1>4. AsTheSource(Unit, source', shown', overrides')
  <2>1. AsTheSource(Unit, source, shown, overrides) BY DEF CorrectionsInv, UnitsAgree
  <2> QED BY <1>1, <1>3, <2>1 DEF AsTheSource, RepairTwin, UnitFields, Units2
<1>5. units' = {Unit} BY DEF RepairTwin, CorrectionsInv, UnitsAgree, Units2
<1>6. UnitsAgree(units, source, shown, overrides)'
  BY <1>2, <1>3, <1>4, <1>5 DEF UnitsAgree, RepairTwin, CorrectionsInv, Units2
<1> QED BY <1>6 DEF RepairTwin, CorrectionsInv

(* A backup is merged back: what is not there comes with what was shown of it.   *)
LEMMA MergeKeepsFields == ASSUME CorrectionsInv, MergeSaved PROVE CorrectionsInv'
<1> DEFINE back == archive.units \ units
           rows == [u \in Units2 |-> [f \in UnitFields |-> Either(overrides[u][f], archive.overrides[u][f])]]
           columns == [u \in Units2 |-> IF u \in back THEN archive.shown[u] ELSE shown[u]]
<1>1. /\ overrides' = [u \in Units2 |-> IF u \in units' THEN rows[u] ELSE NoOverrides]
      /\ source' = [u \in Units2 |-> IF u \in back THEN archive.source[u] ELSE source[u]]
      /\ shown' = Applied(columns, overrides')
  BY Zenon DEF MergeSaved
<1>2. /\ units' = units \cup archive.units /\ archive # NotCorrected /\ archive' = archive /\ work' = MergedWork
      /\ UnitsAgree(archive.units, archive.source, archive.shown, archive.overrides) /\ WorkAgrees(archive.work)
  BY DEF MergeSaved, CorrectionsInv
<1>3. rows \in [Units2 -> [UnitFields -> {NotCorrected, Chosen}]] /\ columns \in [Units2 -> [UnitFields -> Values]]
  BY <1>2 DEF CorrectionsInv, UnitsAgree, Either
<1>4. \A u \in Units2, f \in UnitFields : rows[u][f] = Either(overrides[u][f], archive.overrides[u][f]) OBVIOUS
<1>5. \A u \in Units2 : columns[u] = IF u \in back THEN archive.shown[u] ELSE shown[u] OBVIOUS
<1>6. units' \subseteq Units2 /\ Unit \in units' /\ (\A u \in units' : u \in back \/ u \in units) /\ \A u \in back : u \notin units /\ u \in archive.units
  BY <1>2 DEF CorrectionsInv, UnitsAgree
<1> HIDE DEF back, rows, columns
<1>7. overrides' \in [Units2 -> [UnitFields -> {NotCorrected, Chosen}]]
      /\ (\A u \in Units2 \ units' : overrides'[u] = NoOverrides) /\ \A u \in units' : overrides'[u] = rows[u]
  BY <1>1, <1>3, <1>6 DEF NoOverrides
<1>8. source' \in [Units2 -> [says : Types, listed : BOOLEAN]] BY <1>1, <1>2 DEF CorrectionsInv, UnitsAgree
<1>9. shown' \in [Units2 -> [UnitFields -> Values]]
      /\ \A u \in Units2, f \in UnitFields : overrides'[u][f] = NotCorrected => shown'[u][f] = columns[u][f]
  <2>1. /\ Applied(columns, overrides') \in [Units2 -> [UnitFields -> Values]]
        /\ \A u \in Units2, f \in UnitFields : overrides'[u][f] = NotCorrected => Applied(columns, overrides')[u][f] = columns[u][f]
    BY <1>3, <1>7, AppliedKeeps, Zenon
  <2> QED BY <1>1, <2>1
<1>10. ASSUME NEW u \in units' PROVE AsTheSource(u, source', shown', overrides')
  <2>1. u \in Units2 BY <1>6
  <2>2. \A f \in UnitFields : overrides'[u][f] = NotCorrected =>
          /\ overrides[u][f] = NotCorrected /\ archive.overrides[u][f] = NotCorrected /\ shown'[u][f] = columns[u][f]
    BY <1>4, <1>7, <1>9, <2>1 DEF Either
  <2>3. CASE u \in back
    <3>1. AsTheSource(u, archive.source, archive.shown, archive.overrides) BY <1>2, <1>6, <2>3 DEF UnitsAgree
    <3> QED BY <1>1, <1>5, <2>1, <2>2, <2>3, <3>1 DEF AsTheSource, UnitFields
  <2>4. CASE u \notin back
    <3>1. AsTheSource(u, source, shown, overrides) BY <1>6, <2>4 DEF CorrectionsInv, UnitsAgree
    <3> QED BY <1>1, <1>5, <2>1, <2>2, <2>4, <3>1 DEF AsTheSource, UnitFields
  <2> QED BY <2>3, <2>4
<1>11. UnitsAgree(units, source, shown, overrides)' BY <1>6, <1>7, <1>8, <1>9, <1>10 DEF UnitsAgree
<1>12. WorkAgrees(work)'
  BY <1>2 DEF MergedWork, Either, WorkAgrees, CorrectionsInv, Values
<1> QED BY <1>2, <1>11, <1>12 DEF CorrectionsInv

(* Every step keeps what fields and words agree on.                              *)
LEMMA FieldsStep == ASSUME CorrectionsInv, [CorrectionsNext]_correctionVars PROVE CorrectionsInv'
<1>1. CASE UNCHANGED correctionVars BY <1>1 DEF correctionVars, CorrectionsInv
<1>2. CASE BackUpCorrections BY <1>2 DEF BackUpCorrections, CorrectionsInv
<1>3. CASE ReplaceBySaved BY <1>3 DEF ReplaceBySaved, CorrectionsInv
<1> QED BY <1>1, <1>2, <1>3, UserKeepsFields, RefreshKeepsFields, TwinKeepsFields, MergeKeepsFields DEF CorrectionsNext

(* What is agreed on is what the properties say of fields and of the Work.       *)
LEMMA FieldsShow ==
  ASSUME CorrectionsInv
  PROVE  CorrectionsShape /\ CorrectionsTypeOK /\ UncorrectedIsAsSource /\ WorkCorrectionStands
<1>1. CorrectionsShape BY DEF CorrectionsInv, UnitsAgree, CorrectionsShape, OfUnits
<1>2. CorrectionsTypeOK BY DEF CorrectionsInv, UnitsAgree, WorkAgrees, CorrectionsTypeOK
<1>3. UncorrectedIsAsSource BY DEF CorrectionsInv, UnitsAgree, AsTheSource, UncorrectedIsAsSource
<1>4. WorkCorrectionStands BY DEF CorrectionsInv, WorkAgrees, WorkCorrectionStands
<1> QED BY <1>1, <1>2, <1>3, <1>4

HIDE CorrectionsAssumption

-----------------------------------------------------------------------------
(* SEARCHES. A source that ended has a status in the state its request fills,    *)
(* unless it is asked again (EndedIsSettled); a retry works on the state of a    *)
(* search that began, which nothing begins again (OwnStates).                    *)
AskerRecords == [pc : {"idle", "running", "complete", "left"}, asked : SUBSET SearchSources, refresh : BOOLEAN,
                 state : Askers \cup {NoState}]
SearchShape ==
  /\ states \in [Askers -> [SearchSources -> Statuses]] /\ current \in Askers \cup {NoState}
  /\ askers \in [Askers -> AskerRecords]
  /\ asking \in [Askers -> [SearchSources -> {"none", "asked", "ended"}]]
  /\ cache \in [SearchSources -> {"none", "whole"}]

(* A search fills its own state, and asks every source; a retry works on that of *)
(* a search that began, which is not begun again.                                *)
OwnStates ==
  /\ \A q \in Searches : askers[q].pc = "running" => askers[q].state = q /\ askers[q].asked = SearchSources
  /\ current \in Searches => askers[current].pc # "idle"
  /\ askers[Retry].pc = "running" =>
       /\ askers[Retry].state \in Askers /\ (askers[Retry].state \in Searches => askers[askers[Retry].state].pc # "idle")

(* What has ended has a status, unless it is asked again.                        *)
RetryRuns(q, s) == askers[Retry].pc = "running" /\ s \in askers[Retry].asked /\ askers[Retry].state = q
EndedIsSettled ==
  /\ \A q \in Searches, s \in SearchSources :
       (states[q][s] = "pending" /\ (askers[q].pc = "complete" \/ (askers[q].pc = "running" /\ asking[q][s] = "ended")))
         => RetryRuns(q, s)
  /\ \A s \in SearchSources :
       (askers[Retry].pc = "running" /\ s \in askers[Retry].asked /\ asking[Retry][s] = "ended")
         => states[askers[Retry].state][s] # "pending"

SearchInv == SearchShape /\ OwnStates /\ EndedIsSettled

USE SearchAssumption

(* Nobody searches at the start.                                               *)
LEMMA SearchInitially == ASSUME SearchInit PROVE SearchInv
<1>1. Quiet \in AskerRecords /\ Quiet.pc = "idle" /\ NoQuery \in [SearchSources -> Statuses]
      /\ \A s \in SearchSources : NoQuery[s] = "absent"
  BY DEF Quiet, AskerRecords, NoQuery, Statuses
<1>2. SearchShape BY <1>1 DEF SearchInit, SearchShape
<1>3. OwnStates BY <1>1 DEF SearchInit, OwnStates, Askers
<1>4. EndedIsSettled BY <1>1 DEF SearchInit, EndedIsSettled, Askers
<1> QED BY <1>2, <1>3, <1>4 DEF SearchInv

(* A search begins.                                                            *)
LEMMA BeginSearchKeeps == ASSUME SearchInv, NEW q \in Searches, BeginSearch(q) PROVE SearchInv'
<1> USE DEF SearchInv
<1>a. q \in Askers /\ Retry \in Askers /\ q # Retry /\ Searches \subseteq Askers BY DEF Askers
<1>1. PICK new \in AskerRecords :
        /\ new.pc = "running" /\ new.asked = SearchSources /\ new.state = q
        /\ askers' = [askers EXCEPT ![q] = new]
  <2>1. PICK refresh \in BOOLEAN :
          askers' = [askers EXCEPT ![q] = [pc |-> "running", asked |-> SearchSources, refresh |-> refresh, state |-> q]]
    BY DEF BeginSearch
  <2> DEFINE n == [pc |-> "running", asked |-> SearchSources, refresh |-> refresh, state |-> q]
  <2>2. n \in AskerRecords /\ n.pc = "running" /\ n.asked = SearchSources /\ n.state = q BY <1>a DEF AskerRecords
  <2> QED BY <2>1, <2>2
<1>2. PICK blank \in [SearchSources -> Statuses], none \in [SearchSources -> {"none", "asked", "ended"}] :
        /\ \A s \in SearchSources : blank[s] = "pending" /\ none[s] = "none"
        /\ states' = [states EXCEPT ![q] = blank] /\ asking' = [asking EXCEPT ![q] = none]
        /\ current' = q /\ cache' = cache /\ askers[q].pc = "idle"
  <2>1. [s \in SearchSources |-> "pending"] \in [SearchSources -> Statuses]
        /\ [s \in SearchSources |-> "none"] \in [SearchSources -> {"none", "asked", "ended"}]
    BY DEF Statuses
  <2> QED BY <2>1 DEF BeginSearch
<1>3. SearchShape' BY <1>1, <1>2, <1>a DEF SearchShape
<1>4. /\ askers'[q] = new /\ states'[q] = blank /\ asking'[q] = none
      /\ \A a \in Askers : a # q => askers'[a] = askers[a] /\ states'[a] = states[a] /\ asking'[a] = asking[a]
  BY <1>1, <1>2, <1>a DEF SearchShape
<1>5. askers[Retry].pc = "running" => askers[Retry].state # q BY <1>2 DEF OwnStates
<1>6. OwnStates' BY <1>1, <1>2, <1>4, <1>5, <1>a DEF OwnStates
<1>7. EndedIsSettled'
  <2>1. \A p \in Searches, s \in SearchSources : p # q => (RetryRuns(p, s)' <=> RetryRuns(p, s)) BY <1>4, <1>a DEF RetryRuns
  <2>2. \A p \in Searches, s \in SearchSources :
          (states'[p][s] = "pending" /\ (askers'[p].pc = "complete" \/ (askers'[p].pc = "running" /\ asking'[p][s] = "ended")))
            => RetryRuns(p, s)'
    <3> TAKE p \in Searches, s \in SearchSources
    <3>1. CASE p = q BY <3>1, <1>1, <1>2, <1>4
    <3>2. CASE p # q BY <3>2, <2>1, <1>4, <1>a DEF EndedIsSettled
    <3> QED BY <3>1, <3>2
  <2>3. \A s \in SearchSources :
          (askers'[Retry].pc = "running" /\ s \in askers'[Retry].asked /\ asking'[Retry][s] = "ended")
            => states'[askers'[Retry].state][s] # "pending"
    <3>1. askers[Retry].pc = "running" => states'[askers[Retry].state] = states[askers[Retry].state]
      BY <1>4, <1>5 DEF OwnStates
    <3> QED BY <3>1, <1>4, <1>a DEF EndedIsSettled
  <2> QED BY <2>2, <2>3 DEF EndedIsSettled
<1> QED BY <1>3, <1>6, <1>7

(* One source is asked again.                                                  *)
LEMMA BeginRetryKeeps == ASSUME SearchInv, NEW x \in SearchSources, BeginRetry(x) PROVE SearchInv'
<1> USE DEF SearchInv
<1>a. Retry \in Askers /\ Retry \notin Searches /\ Askers = Searches \cup {Retry} /\ NoState \notin Askers BY DEF Askers
<1>0. PICK r \in Askers : r = Retried /\ (r \in Searches => r = current) BY <1>a DEF Retried, SearchShape
<1>1. PICK new \in AskerRecords :
        /\ new.pc = "running" /\ new.asked = {x} /\ new.state = r
        /\ askers' = [askers EXCEPT ![Retry] = new]
  <2> DEFINE n == [pc |-> "running", asked |-> {x}, refresh |-> TRUE, state |-> r]
  <2>1. n \in AskerRecords /\ n.pc = "running" /\ n.asked = {x} /\ n.state = r BY DEF AskerRecords
  <2>2. askers' = [askers EXCEPT ![Retry] = n] BY <1>0 DEF BeginRetry
  <2> QED BY <2>1, <2>2
<1>2. /\ states' = [states EXCEPT ![r][x] = "pending"] /\ current' = r /\ cache' = cache /\ askers[Retry].pc = "idle"
      /\ asking' = [asking EXCEPT ![Retry] = [s \in SearchSources |-> "none"]]
  BY <1>0 DEF BeginRetry
<1>3. /\ askers'[Retry] = new /\ \A s \in SearchSources : asking'[Retry][s] = "none"
      /\ \A a \in Askers : a # Retry => askers'[a] = askers[a] /\ asking'[a] = asking[a]
      /\ \A a \in Askers, s \in SearchSources : states'[a][s] = IF a = r /\ s = x THEN "pending" ELSE states[a][s]
  BY <1>1, <1>2, <1>a DEF SearchShape
<1>4. SearchShape'
  <2>1. states' \in [Askers -> [SearchSources -> Statuses]] BY <1>2 DEF SearchShape, Statuses
  <2>2. asking' \in [Askers -> [SearchSources -> {"none", "asked", "ended"}]] BY <1>2 DEF SearchShape
  <2> QED BY <2>1, <2>2, <1>1, <1>2 DEF SearchShape
<1>5. OwnStates' BY <1>0, <1>1, <1>2, <1>3, <1>a DEF OwnStates
<1>6. EndedIsSettled'
  <2>1. \A q \in Searches, s \in SearchSources : ~RetryRuns(q, s) BY <1>2 DEF RetryRuns
  <2>2. \A q \in Searches, s \in SearchSources : q = r /\ s = x => RetryRuns(q, s)' BY <1>1, <1>3 DEF RetryRuns
  <2>3. \A q \in Searches, s \in SearchSources :
          (states'[q][s] = "pending" /\ (askers'[q].pc = "complete" \/ (askers'[q].pc = "running" /\ asking'[q][s] = "ended")))
            => RetryRuns(q, s)'
    <3> TAKE q \in Searches, s \in SearchSources
    <3>1. askers'[q] = askers[q] /\ asking'[q] = asking[q] BY <1>3, <1>a
    <3>2. CASE ~(q = r /\ s = x) BY <3>1, <3>2, <2>1, <1>3, <1>a DEF EndedIsSettled
    <3> QED BY <3>2, <2>2
  <2> QED BY <2>3, <1>3 DEF EndedIsSettled
<1> QED BY <1>4, <1>5, <1>6

(* A source of a request goes on: it is asked, or it ends with a status.         *)
LEMMA SourceKeeps == ASSUME SearchInv, NEW a \in Askers, NEW x \in SearchSources, SourceSteps(a, x) PROVE SearchInv'
<1> USE DEF SearchInv
<1>a. Retry \in Askers /\ Retry \notin Searches /\ Askers = Searches \cup {Retry} BY DEF Askers
<1>r. askers[a].pc = "running" /\ x \in askers[a].asked /\ asking[a][x] # "ended" /\ UNCHANGED <<current, askers>>
  BY DEF SourceSteps, FromCache, AskSource, SourceAnswers, SourceFails, Runs
<1>o. Ours(a) \in Askers BY <1>r, <1>a DEF Ours, OwnStates
<1>q. \A q \in Searches, s \in SearchSources : RetryRuns(q, s)' <=> RetryRuns(q, s) BY <1>r DEF RetryRuns
<1>c. cache' \in [SearchSources -> {"none", "whole"}]
  <2>1. CASE UNCHANGED cache BY <2>1 DEF SearchShape
  <2>2. CASE SourceAnswers(a, x) BY <2>2 DEF SourceAnswers, Caches, Put, SearchShape
  <2> QED BY <2>1, <2>2 DEF SourceSteps, FromCache, AskSource, SourceFails
<1>w. OwnStates' BY <1>r DEF OwnStates
<1>1. CASE AskSource(a, x)
  <2>1. asking' = [asking EXCEPT ![a][x] = "asked"] /\ states' = states BY <1>1 DEF AskSource
  <2>2. asking' \in [Askers -> [SearchSources -> {"none", "asked", "ended"}]] BY <2>1 DEF SearchShape
  <2>3. \A b \in Askers, s \in SearchSources : asking'[b][s] = "ended" => asking[b][s] = "ended" BY <2>1 DEF SearchShape
  <2>4. SearchShape' BY <2>1, <2>2, <1>r, <1>c DEF SearchShape
  <2>5. EndedIsSettled' BY <2>1, <2>3, <1>r, <1>q, <1>a DEF EndedIsSettled
  <2> QED BY <2>4, <2>5, <1>w
<1>2. ASSUME NEW status \in {"cached", "done", "failed"}, Settled(a, x, status) PROVE SearchInv'
  <2>1. PICK o \in Askers : o = Ours(a) BY <1>o
  <2>2. states' = [states EXCEPT ![o][x] = status] /\ asking' = [asking EXCEPT ![a][x] = "ended"] BY <1>2, <2>1 DEF Settled
  <2>3. states' \in [Askers -> [SearchSources -> Statuses]] BY <2>2 DEF SearchShape, Statuses
  <2>4. asking' \in [Askers -> [SearchSources -> {"none", "asked", "ended"}]] BY <2>2 DEF SearchShape
  <2>5. /\ \A b \in Askers, s \in SearchSources : states'[b][s] = IF b = o /\ s = x THEN status ELSE states[b][s]
        /\ \A b \in Askers, s \in SearchSources : asking'[b][s] = IF b = a /\ s = x THEN "ended" ELSE asking[b][s]
    BY <2>2 DEF SearchShape
  <2>6. SearchShape' BY <2>3, <2>4, <1>r, <1>c DEF SearchShape
  <2>7. \A b \in Askers, s \in SearchSources : states'[b][s] = "pending" => states[b][s] = "pending" /\ ~(b = o /\ s = x) BY <2>5
  <2>8. \A q \in Searches : a = q => o = q BY <2>1, <1>r DEF Ours, OwnStates
  <2>9. a = Retry => o = askers[Retry].state BY <2>1 DEF Ours
  <2>10. \A q \in Searches, s \in SearchSources :
          (states'[q][s] = "pending" /\ (askers'[q].pc = "complete" \/ (askers'[q].pc = "running" /\ asking'[q][s] = "ended")))
            => RetryRuns(q, s)'
    <3> TAKE q \in Searches, s \in SearchSources
    <3>1. states'[q][s] = "pending" => asking'[q][s] = asking[q][s]
      <4>1. q \in Askers BY <1>a
      <4>2. q = a /\ s = x => o = q BY <2>8
      <4> QED BY <4>1, <4>2, <2>5, <2>7
    <3> QED BY <3>1, <2>7, <1>r, <1>q, <1>a DEF EndedIsSettled
  <2>11. \A s \in SearchSources :
          (askers'[Retry].pc = "running" /\ s \in askers'[Retry].asked /\ asking'[Retry][s] = "ended")
            => states'[askers'[Retry].state][s] # "pending"
    <3> SUFFICES ASSUME NEW s \in SearchSources, askers[Retry].pc = "running", s \in askers[Retry].asked, asking'[Retry][s] = "ended"
        PROVE  states'[askers[Retry].state][s] # "pending"
      BY <1>r
    <3>1. askers[Retry].state \in Askers BY DEF OwnStates
    <3>2. CASE asking[Retry][s] = "ended" BY <3>1, <3>2, <2>7 DEF EndedIsSettled
    <3>3. CASE asking[Retry][s] # "ended" BY <3>3, <2>5, <2>7, <2>9, <1>a, <3>1
    <3> QED BY <3>2, <3>3
  <2> QED BY <2>6, <2>10, <2>11, <1>w DEF EndedIsSettled
<1> QED BY <1>1, <1>2 DEF SourceSteps, FromCache, SourceAnswers, SourceFails, FailedStatus

(* A request ends, or its reader leaves.                                         *)
LEMMA EndKeeps == ASSUME SearchInv, NEW a \in Askers, EndSearch(a) \/ Leave(a) PROVE SearchInv'
<1> USE DEF SearchInv
<1>a. Retry \in Askers /\ Retry \notin Searches /\ Askers = Searches \cup {Retry} BY DEF Askers
<1>1. PICK pc \in {"idle", "complete", "left"} :
        /\ askers' = [askers EXCEPT ![a] = [Quiet EXCEPT !.pc = pc]]
        /\ a # Retry => pc # "idle"
        /\ a = Retry => pc = "idle"
        /\ pc # "left" => AllEnded(a)
        /\ asking' = [asking EXCEPT ![a] = [s \in SearchSources |-> "none"]] /\ UNCHANGED <<states, current, cache>>
        /\ askers[a].pc = "running"
  BY DEF EndSearch, Leave
<1>2. PICK new \in AskerRecords : askers' = [askers EXCEPT ![a] = new] /\ new.pc = pc
  <2> DEFINE n == [Quiet EXCEPT !.pc = pc]
  <2>1. n \in AskerRecords /\ n.pc = pc BY DEF Quiet, AskerRecords
  <2> QED BY <2>1, <1>1
<1>3. /\ askers'[a] = new /\ \A s \in SearchSources : asking'[a][s] = "none"
      /\ \A b \in Askers : b # a => askers'[b] = askers[b] /\ asking'[b] = asking[b]
  BY <1>1, <1>2 DEF SearchShape
<1>4. SearchShape'
  <2>1. asking' \in [Askers -> [SearchSources -> {"none", "asked", "ended"}]] BY <1>1 DEF SearchShape
  <2>2. askers' \in [Askers -> AskerRecords] BY <1>2 DEF SearchShape
  <2>3. UNCHANGED <<states, current, cache>> BY <1>1
  <2> QED BY <2>1, <2>2, <2>3 DEF SearchShape
<1>5. OwnStates' BY <1>1, <1>2, <1>3, <1>a DEF OwnStates, SearchShape
<1>6. EndedIsSettled'
  <2>1. CASE a = Retry
    <3>1. \A s \in SearchSources : s \in askers[Retry].asked => states[askers[Retry].state][s] # "pending"
      BY <2>1, <1>1 DEF AllEnded, EndedIsSettled
    <3>2. \A q \in Searches, s \in SearchSources : states[q][s] = "pending" => ~RetryRuns(q, s) BY <3>1 DEF RetryRuns
    <3>3. askers'[Retry].pc = "idle" BY <2>1, <1>1, <1>2, <1>3
    <3>4. \A q \in Searches : askers'[q] = askers[q] /\ asking'[q] = asking[q] BY <2>1, <1>3, <1>a
    <3>5. states' = states BY <1>1
    <3>6. ASSUME NEW q \in Searches, NEW s \in SearchSources, states[q][s] = "pending",
                 askers[q].pc = "complete" \/ (askers[q].pc = "running" /\ asking[q][s] = "ended")
          PROVE  FALSE
      BY <3>2, <3>6 DEF EndedIsSettled
    <3> QED BY <3>3, <3>4, <3>5, <3>6 DEF EndedIsSettled
  <2>2. CASE a # Retry
    <3>1. askers'[Retry] = askers[Retry] /\ asking'[Retry] = asking[Retry] BY <2>2, <1>3, <1>a
    <3>2. \A q \in Searches, s \in SearchSources : RetryRuns(q, s)' <=> RetryRuns(q, s) BY <3>1 DEF RetryRuns
    <3>3. a \in Searches /\ askers[a].asked = SearchSources BY <2>2, <1>1, <1>a DEF OwnStates
    <3>4. pc = "complete" => \A s \in SearchSources : states[a][s] = "pending" => RetryRuns(a, s)
      BY <3>3, <1>1 DEF AllEnded, EndedIsSettled
    <3>5. \A q \in Searches, s \in SearchSources :
            (states'[q][s] = "pending" /\ (askers'[q].pc = "complete" \/ (askers'[q].pc = "running" /\ asking'[q][s] = "ended")))
              => RetryRuns(q, s)'
      <4> TAKE q \in Searches, s \in SearchSources
      <4>1. CASE q = a BY <4>1, <3>2, <3>4, <1>1, <1>2, <1>3
      <4>2. CASE q # a BY <4>2, <3>2, <1>1, <1>3, <1>a DEF EndedIsSettled
      <4> QED BY <4>1, <4>2
    <3> QED BY <3>1, <3>5, <1>1 DEF EndedIsSettled
  <2> QED BY <2>1, <2>2
<1> QED BY <1>4, <1>5, <1>6

(* The state or an answer is forgotten.                                          *)
LEMMA ForgetKeeps == ASSUME SearchInv, ForgetState \/ CacheForgets PROVE SearchInv'
<1> USE DEF SearchInv
<1>a. Retry \in Askers /\ Retry \notin Searches /\ Askers = Searches \cup {Retry} /\ NoState \notin Askers BY DEF Askers
<1>1. CASE CacheForgets
  <2>1. cache' \in [SearchSources -> {"none", "whole"}] /\ UNCHANGED <<states, current, askers, asking>>
    BY <1>1 DEF CacheForgets, SearchShape
  <2> QED BY <2>1 DEF SearchShape, OwnStates, EndedIsSettled, RetryRuns
<1>2. CASE ForgetState
  <2>1. current' = NoState /\ UNCHANGED <<askers, asking, cache>>
        /\ states' = IF askers[Retry].pc = "running" THEN states ELSE [states EXCEPT ![Retry] = NoQuery]
    BY <1>2 DEF ForgetState
  <2>2. NoQuery \in [SearchSources -> Statuses] BY DEF NoQuery, Statuses
  <2>3. states' \in [Askers -> [SearchSources -> Statuses]] BY <2>1, <2>2 DEF SearchShape
  <2>4. \A q \in Searches : states'[q] = states[q] BY <2>1, <1>a DEF SearchShape
  <2>5. askers[Retry].pc = "running" => states' = states BY <2>1
  <2>6. SearchShape' BY <2>1, <2>3 DEF SearchShape
  <2>7. OwnStates' BY <2>1, <1>a DEF OwnStates
  <2>8. EndedIsSettled' BY <2>1, <2>4, <2>5 DEF EndedIsSettled, RetryRuns
  <2> QED BY <2>6, <2>7, <2>8
<1> QED BY <1>1, <1>2

(* Every step of the searches.                                                   *)
LEMMA SearchStep == ASSUME SearchInv, [SearchNext]_searchVars PROVE SearchInv'
<1>1. CASE UNCHANGED searchVars
  BY <1>1 DEF searchVars, SearchInv, SearchShape, OwnStates, EndedIsSettled, RetryRuns
<1>2. CASE SearchNext
  BY <1>2, BeginSearchKeeps, BeginRetryKeeps, SourceKeeps, EndKeeps, ForgetKeeps DEF SearchNext
<1> QED BY <1>1, <1>2

(* What the invariant says of the properties.                                    *)
LEMMA SearchInvShows == ASSUME SearchInv PROVE CompleteIsSettled /\ CacheIsWhole /\ SearchTypeOK
<1> USE DEF SearchInv
<1>1. CompleteIsSettled BY DEF CompleteIsSettled, EndedIsSettled, RetryRuns, BeingRetried, Runs, Ours
<1>2. CacheIsWhole BY DEF CacheIsWhole, SearchShape
<1>3. SearchTypeOK
  <2>1. \A a \in Askers : askers[a].pc = "running" => askers[a].state \in Askers BY DEF OwnStates, Askers
  <2>2. \A a \in Askers : \A s \in SearchSources : states[a][s] \in Statuses /\ asking[a][s] \in {"none", "asked", "ended"}
    BY DEF SearchShape
  <2> QED BY <2>1, <2>2 DEF SearchTypeOK, SearchShape
<1> QED BY <1>1, <1>2, <1>3

HIDE SearchAssumption

-----------------------------------------------------------------------------
(* IDENTITY. What the tables say of each other, those of the library and those   *)
(* of a backup alike (AgreeingTables): a live track is on the Work its listing   *)
(* is bound to, each listing has one track of a language and each Work one local *)
(* one, which an import names; a Follow of a track in no known language is in    *)
(* none; and what the user decided is bound.                                     *)
FollowRows == [work : Works, language : Languages, track : Ids]

BoundAndDecided(ws, b, d, k) ==
  /\ ws \subseteq spent /\ k \subseteq Listings
  /\ b \in [Listings -> {Null} \cup ws] /\ d \in [Listings -> {Null, "user", "evidence"}]
  /\ \A l \in Listings : d[l] = "user" => b[l] # Null

TracksAgree(ws, b, k, ts, im) ==
  /\ im \subseteq ws /\ ts \subseteq TrackRows /\ \A t \in ts : t.work \in ws /\ t.id <= lastId
  /\ \A t, u \in ts : t.id = u.id => t = u
  /\ \A t \in ts : t.listing # Null => t.listing \in k /\ b[t.listing] = t.work
  /\ \A t, u \in ts : t.listing # Null /\ t.listing = u.listing /\ t.language = u.language => t = u
  /\ \A t \in ts : t.language = "local" => t.listing = Null /\ t.work \in im
  /\ \A t, u \in ts : t.language = "local" /\ u.language = "local" /\ t.work = u.work => t = u

FollowsAgree(ws, ts, fs) ==
  /\ fs \subseteq FollowRows
  /\ \A f \in fs : f.work \in ws /\ \E t \in ts : t.id = f.track /\ (t.language = "und" => f.language = "und")
  /\ \A f, g \in fs : f.work = g.work /\ f.language = g.language => f = g

MappingsAgree(ws, ms) == ms \subseteq MappingRows /\ \A m \in ms : m.work \in ws

AgreeingTables(T) ==
  /\ BoundAndDecided(T.works, T.bound, T.decided, T.known)
  /\ TracksAgree(T.works, T.bound, T.known, T.tracks, T.imported)
  /\ FollowsAgree(T.works, T.tracks, T.follows) /\ MappingsAgree(T.works, T.mappings)

IdentityInv ==
  /\ spent \subseteq Works /\ lastId \in 0..MaxId /\ restores \in Nat
  /\ BoundAndDecided(works, bound, decided, known) /\ TracksAgree(works, bound, known, tracks, imported)
  /\ FollowsAgree(works, tracks, follows) /\ MappingsAgree(works, mappings)
  /\ savedTables # Null => AgreeingTables(savedTables)

USE IdentityAssumption

(* The library is empty at the start.                                            *)
LEMMA IdentityInitially == ASSUME IdentityInit PROVE IdentityInv
BY DEF IdentityInit, IdentityInv, BoundAndDecided, TracksAgree, FollowsAgree, MappingsAgree, Nobody, Works

(* What a backup holds stays whole when ids are used up.                         *)
LEMMA SavedStay ==
  ASSUME IdentityInv, UNCHANGED savedTables, spent \subseteq spent', lastId' \in Nat, lastId <= lastId'
  PROVE  savedTables' # Null => AgreeingTables(savedTables)'
<1> SUFFICES ASSUME savedTables # Null PROVE AgreeingTables(savedTables)'
  OBVIOUS
<1>1. AgreeingTables(savedTables) /\ lastId \in Nat BY DEF IdentityInv
<1>2. BoundAndDecided(savedTables.works, savedTables.bound, savedTables.decided, savedTables.known)'
  BY <1>1 DEF AgreeingTables, BoundAndDecided
<1>3. TracksAgree(savedTables.works, savedTables.bound, savedTables.known, savedTables.tracks, savedTables.imported)'
  <2>1. \A t \in savedTables.tracks : t.id \in Nat /\ t.id <= lastId
    BY <1>1 DEF AgreeingTables, TracksAgree, TrackRows, Ids
  <2>2. \A t \in savedTables.tracks : t.id <= lastId' BY <1>1, <2>1
  <2> QED BY <1>1, <2>2 DEF AgreeingTables, TracksAgree
<1> QED BY <1>1, <1>2, <1>3 DEF AgreeingTables, FollowsAgree, MappingsAgree

(* The tables of the library are those a backup would hold.                      *)
LEMMA TablesAgree == ASSUME IdentityInv PROVE AgreeingTables(Tables)
BY DEF IdentityInv, AgreeingTables, Tables

(* A new Work has a number of its own.                                           *)
LEMMA FreshIsNew == ASSUME NEW w \in FreshOne PROVE w \in Works /\ w \notin spent
BY DEF FreshOne

(* What a listing is bound to by a durable action.                               *)
LEMMA DecisionIs ==
  ASSUME IdentityInv, NEW l \in Listings, NEW w \in Works, NEW by \in {"user", "evidence"}
  PROVE  LET d == Decision(l, w, by) IN
         /\ d.work \in {Null, w, bound[l]} /\ d.by \in {Null, "user", "evidence"} /\ (d.by = "user" => d.work # Null)
         /\ d.work = bound[l] \/ d.work = Null \/ ~Blocked(l, d.work)
         /\ by = "evidence" /\ decided[l] = "user" => d.work \in {bound[l], Null}
<1> DEFINE want == WantedWork(l, w, by)
<1>1. /\ want.work \in {w, bound[l]} /\ want.by \in {Null, "user", "evidence"} /\ (want.by = "user" => want.work # Null)
      /\ by = "evidence" /\ decided[l] = "user" => want.work = bound[l]
  BY DEF IdentityInv, BoundAndDecided, WantedWork, MayBind, Works
<1> HIDE DEF want
<1> DEFINE back == IF Blocked(l, bound[l]) THEN [work |-> Null, by |-> Null] ELSE [work |-> bound[l], by |-> decided[l]]
           d == IF want.work = Null \/ ~Blocked(l, want.work) THEN want ELSE back
<1>2. d = Decision(l, w, by) BY Zenon DEF Decision, want
<1>3. /\ back.work \in {Null, bound[l]} /\ back.by \in {Null, "user", "evidence"} /\ (back.by = "user" => back.work # Null)
  BY DEF IdentityInv, BoundAndDecided
<1>4. /\ d.work \in {Null, w, bound[l]} /\ d.by \in {Null, "user", "evidence"} /\ (d.by = "user" => d.work # Null)
      /\ d.work = bound[l] \/ d.work = Null \/ ~Blocked(l, d.work)
      /\ by = "evidence" /\ decided[l] = "user" => d.work \in {bound[l], Null}
  <2> HIDE DEF back
  <2> QED BY <1>1, <1>3
<1> QED BY <1>2, <1>4

(* The tracks of a listing that leaves its Work are archives.                    *)
LEMMA DetachedAgree ==
  ASSUME IdentityInv, NEW l \in Listings, NEW ws, NEW b, NEW k, works \subseteq ws, known \subseteq k,
         \A x \in Listings \ {l} : b[x] = bound[x]
  PROVE  /\ TracksAgree(ws, b, k, Detached(l, tracks), imported) /\ Siblings(l, Detached(l, tracks)) = {}
         /\ \A f \in follows : \E t \in Detached(l, tracks) : t.id = f.track /\ (t.language = "und" => f.language = "und")
<1> DEFINE ts == Detached(l, tracks)
           To(t) == IF t.listing = l THEN [t EXCEPT !.listing = Null] ELSE t
<1>0. ts = {To(t) : t \in tracks} BY Zenon DEF Detached
<1>1. \A t \in tracks : /\ To(t) \in TrackRows /\ To(t).id = t.id /\ To(t).work = t.work /\ To(t).language = t.language
                        /\ To(t).listing \in {Null, t.listing} \ {l}
  BY DEF IdentityInv, TracksAgree, TrackRows
<1> HIDE DEF To
<1>2. \A u \in ts : \E t \in tracks : u = To(t) BY <1>0
<1>3. TracksAgree(ws, b, k, ts, imported)
  <2>1. imported \subseteq ws /\ ts \subseteq TrackRows /\ \A t \in ts : t.work \in ws /\ t.id <= lastId
    BY <1>1, <1>2 DEF IdentityInv, TracksAgree
  <2>2. \A t, u \in ts : t.id = u.id => t = u
    BY <1>1, <1>2 DEF IdentityInv, TracksAgree
  <2>3. \A t \in ts : t.listing # Null => t.listing \in k /\ b[t.listing] = t.work
    BY <1>1, <1>2 DEF IdentityInv, TracksAgree, TrackRows
  <2>4. \A t, u \in ts : t.listing # Null /\ t.listing = u.listing /\ t.language = u.language => t = u
    BY <1>1, <1>2 DEF IdentityInv, TracksAgree
  <2>5. \A t \in ts : t.language = "local" => t.listing = Null /\ t.work \in imported
    BY <1>1, <1>2 DEF IdentityInv, TracksAgree
  <2>6. \A t, u \in ts : t.language = "local" /\ u.language = "local" /\ t.work = u.work => t = u
    BY <1>1, <1>2 DEF IdentityInv, TracksAgree
  <2> HIDE DEF ts
  <2> QED BY <2>1, <2>2, <2>3, <2>4, <2>5, <2>6 DEF TracksAgree
<1>4. Siblings(l, ts) = {} BY <1>1, <1>2 DEF Siblings
<1>5. ASSUME NEW f \in follows PROVE \E t \in ts : t.id = f.track /\ (t.language = "und" => f.language = "und")
  <2>1. PICK t \in tracks : t.id = f.track /\ (t.language = "und" => f.language = "und") BY DEF IdentityInv, FollowsAgree
  <2>2. To(t) \in ts BY <1>0
  <2> QED BY <1>1, <2>1, <2>2
<1> QED BY <1>3, <1>4, <1>5

(* A track in no known language that is given one; its Follows with it.          *)
LEMMA RelabelKeeps ==
  ASSUME IdentityInv, NEW t \in tracks, t.language = "und",
         NEW lang \in Languages \ {"und"}, \A u \in tracks : t.listing # Null /\ u.listing = t.listing => u.language # lang,
         NEW ts, ts = (tracks \ {t}) \cup {[t EXCEPT !.language = lang]}
  PROVE  TracksAgree(works, bound, known, ts, imported) /\ FollowsAgree(works, ts, Relabelled(follows, t, lang))
<1> DEFINE new == [t EXCEPT !.language = lang]
<1>1. new \in TrackRows /\ new.id = t.id /\ new.work = t.work /\ new.listing = t.listing /\ new.language = lang
  BY DEF IdentityInv, TracksAgree, TrackRows, Languages
<1> HIDE DEF new
<1>2. ts = (tracks \ {t}) \cup {new} BY DEF new
<1>3. TracksAgree(works, bound, known, ts, imported)
  BY <1>1, <1>2 DEF IdentityInv, TracksAgree, Languages
<1>4. FollowsAgree(works, ts, Relabelled(follows, t, lang))
  <2> DEFINE Free(f) == f.track = t.id /\ ~\E g \in follows : g.work = f.work /\ g.language = lang
             To(f) == IF Free(f) THEN [f EXCEPT !.language = lang] ELSE f
             fs == Relabelled(follows, t, lang)
  <2>1. fs = {To(f) : f \in follows} BY Zenon DEF Relabelled
  <2>2. \A f \in follows : /\ To(f) \in FollowRows /\ To(f).work = f.work /\ To(f).track = f.track
                           /\ To(f).language = IF Free(f) THEN lang ELSE f.language
    <3> SUFFICES ASSUME NEW f \in follows
                 PROVE  /\ To(f) \in FollowRows /\ To(f).work = f.work /\ To(f).track = f.track
                        /\ To(f).language = IF Free(f) THEN lang ELSE f.language
      OBVIOUS
    <3>1. f \in FollowRows BY DEF IdentityInv, FollowsAgree
    <3> HIDE DEF Free
    <3> QED BY <3>1 DEF FollowRows
  <2>3. \A f, g \in follows : Free(f) /\ g.work = f.work => g.language # lang OBVIOUS
  <2>4. \A f \in follows : Free(f) => f.track = t.id /\ f.language = "und"
    BY DEF IdentityInv, FollowsAgree, TracksAgree
  <2> HIDE DEF To, Free
  <2>5. fs \subseteq FollowRows /\ \A f \in fs : f.work \in works
    BY <2>1, <2>2 DEF IdentityInv, FollowsAgree
  <2>6. ASSUME NEW g \in fs PROVE \E u \in ts : u.id = g.track /\ (u.language = "und" => g.language = "und")
    <3>1. PICK f \in follows : g = To(f) BY <2>1
    <3>2. PICK u \in tracks : u.id = f.track /\ (u.language = "und" => f.language = "und") BY DEF IdentityInv, FollowsAgree
    <3>3. CASE u = t BY <3>1, <3>2, <3>3, <2>2, <1>1, <1>2
    <3>4. CASE u # t
      <4>1. f.track # t.id BY <3>2, <3>4 DEF IdentityInv, TracksAgree
      <4>2. ~Free(f) BY <4>1, <2>4
      <4> QED BY <3>1, <3>2, <3>4, <4>2, <2>2, <1>2
    <3> QED BY <3>3, <3>4
  <2>7. ASSUME NEW x \in fs, NEW y \in fs, x.work = y.work, x.language = y.language PROVE x = y
    <3>1. PICK f \in follows, g \in follows : x = To(f) /\ y = To(g) BY <2>1
    <3>2. f.work = g.work BY <3>1, <2>2, <2>7
    <3>3. Free(f) <=> Free(g) BY <3>1, <3>2, <2>2, <2>3, <2>7
    <3>4. f.language = g.language BY <3>1, <3>3, <2>2, <2>4, <2>7
    <3> QED BY <3>1, <3>2, <3>4 DEF IdentityInv, FollowsAgree
  <2> QED BY <2>5, <2>6, <2>7 DEF FollowsAgree
<1> QED BY <1>3, <1>4

(* One listing has at most one track in each language there is.                  *)
LEMMA OneSibling ==
  ASSUME IdentityInv, NEW l \in Listings, NEW t \in Siblings(l, tracks), \A u \in Siblings(l, tracks) : u.language = t.language
  PROVE  Cardinality(Siblings(l, tracks)) = 1
<1>1. \A u \in Siblings(l, tracks) : u = t BY DEF IdentityInv, TracksAgree, Siblings
<1>2. Siblings(l, tracks) = {t} BY <1>1
<1> QED BY <1>2, FS_Singleton

(* A track of a listing that had none of its language.                           *)
LEMMA NewTrackKeeps ==
  ASSUME NEW ws, NEW b, NEW k, NEW ts, NEW im, lastId \in Nat, lastId < MaxId, TracksAgree(ws, b, k, ts, im),
         NEW n \in TrackRows, n.id = lastId + 1, n.work \in ws, lastId' = lastId + 1,
         n.listing # Null => n.listing \in k /\ b[n.listing] = n.work /\ \A t \in ts : t.listing = n.listing => t.language # n.language,
         n.language = "local" => n.listing = Null /\ n.work \in im /\ \A t \in ts : t.work # n.work
  PROVE  /\ (n.id <= lastId')
         /\ \A t \in ts : t.id <= lastId' /\ t.id # n.id
         /\ ts \cup {n} \subseteq TrackRows
         /\ \A t, u \in ts \cup {n} : t.id = u.id => t = u
         /\ \A t \in ts \cup {n} : t.work \in ws
         /\ \A t \in ts \cup {n} : t.listing # Null => t.listing \in k /\ b[t.listing] = t.work
         /\ \A t, u \in ts \cup {n} : t.listing # Null /\ t.listing = u.listing /\ t.language = u.language => t = u
         /\ \A t \in ts \cup {n} : t.language = "local" => t.listing = Null /\ t.work \in im
         /\ \A t, u \in ts \cup {n} : t.language = "local" /\ u.language = "local" /\ t.work = u.work => t = u
<1>1. \A t \in ts : t.id \in Nat /\ t.id <= lastId BY DEF TracksAgree, TrackRows, Ids
<1>2. n.id <= lastId' /\ \A t \in ts : t.id <= lastId' /\ t.id # n.id BY <1>1
<1> QED BY <1>2 DEF TracksAgree

(* A listing is bound: its row alone changes, and never to what blocks it.     *)
LEMMA BindKeeps ==
  ASSUME IdentityInv, NEW l \in Listings, NEW lang \in Languages, NEW given \in works \cup {Null},
         NEW by \in {"user", "evidence"}, Bind(l, lang, given, by)
  PROVE  /\ IdentityInv' /\ restores' = restores
         /\ \A x \in Listings \ {l} : bound'[x] = bound[x]
         /\ bound'[l] = bound[l] \/ bound'[l] = Null \/ ~Blocked(l, bound'[l])
         /\ by = "evidence" /\ decided[l] = "user" => bound'[l] \in {bound[l], Null}
         /\ \A x \in Listings : Twinned(x)' => Twinned(x)
<1> DEFINE w == IF given # Null THEN given ELSE IF bound[l] # Null THEN bound[l] ELSE CHOOSE x \in FreshOne : TRUE
           d == Decision(l, w, by)
           ts == IF d.work = bound[l] THEN tracks ELSE Detached(l, tracks)
<1>1. /\ given # Null \/ bound[l] # Null \/ FreshOne # {}
      /\ works' = works \cup {w} /\ spent' = spent \cup {w} /\ known' = known \cup {l}
      /\ bound' = [bound EXCEPT ![l] = d.work] /\ decided' = [decided EXCEPT ![l] = d.by]
      /\ UNCHANGED <<mappings, imported, savedTables, restores>>
  BY Zenon DEF Bind
<1>2. \/ d.work = Null /\ tracks' = ts /\ UNCHANGED <<follows, lastId>>
      \/ d.work # Null /\ SameOf(l, lang, ts) # {} /\ tracks' = ts /\ UNCHANGED <<follows, lastId>>
      \/ /\ d.work # Null /\ SameOf(l, lang, ts) = {} /\ UnknownOf(l, lang, ts) # {}
         /\ \E t \in UnknownOf(l, lang, ts) :
              /\ tracks' = (ts \ {t}) \cup {[t EXCEPT !.language = lang]}
              /\ follows' = Relabelled(follows, t, lang)
         /\ UNCHANGED lastId
      \/ /\ d.work # Null /\ SameOf(l, lang, ts) = {} /\ UnknownOf(l, lang, ts) = {} /\ lastId < MaxId
         /\ tracks' = ts \cup {NewTrack(l, d.work, lang)} /\ lastId' = lastId + 1 /\ UNCHANGED follows
  BY Zenon DEF Bind
<1>3. w \in Works /\ (w \in works \/ w \notin spent)
  <2>1. CASE given # Null BY <2>1 DEF IdentityInv, BoundAndDecided, Works
  <2>2. CASE given = Null /\ bound[l] # Null BY <2>2 DEF IdentityInv, BoundAndDecided
  <2>3. CASE given = Null /\ bound[l] = Null BY <1>1, <2>3, FreshIsNew
  <2> QED BY <2>1, <2>2, <2>3
<1> HIDE DEF w
<1>4. /\ d.work \in {Null, w, bound[l]} /\ d.by \in {Null, "user", "evidence"} /\ (d.by = "user" => d.work # Null)
      /\ d.work = bound[l] \/ d.work = Null \/ ~Blocked(l, d.work)
      /\ by = "evidence" /\ decided[l] = "user" => d.work \in {bound[l], Null}
  BY <1>3, DecisionIs
<1> HIDE DEF d
<1>5. /\ spent' \subseteq Works /\ spent \subseteq spent' /\ BoundAndDecided(works, bound, decided, known)'
      /\ \A x \in Listings \ {l} : bound'[x] = bound[x]
      /\ bound'[l] = d.work /\ works \subseteq works' /\ known \subseteq known' /\ l \in known'
  BY <1>1, <1>3, <1>4 DEF IdentityInv, BoundAndDecided, Works
<1>6. lastId \in Nat /\ lastId' \in 0..MaxId /\ lastId <= lastId' BY <1>2 DEF IdentityInv
<1>7. savedTables' # Null => AgreeingTables(savedTables)' BY <1>1, <1>5, <1>6, SavedStay
<1>8. MappingsAgree(works, mappings)' BY <1>1, <1>5 DEF IdentityInv, MappingsAgree
<1>9. TracksAgree(works', bound', known', ts, imported) /\ \A f \in follows : \E t \in ts : t.id = f.track /\ (t.language = "und" => f.language = "und")
  <2>1. CASE d.work = bound[l]
    <3>1. bound' = bound BY <1>1, <2>1 DEF IdentityInv, BoundAndDecided
    <3> QED BY <3>1, <2>1, <1>5 DEF IdentityInv, TracksAgree, FollowsAgree
  <2>2. CASE d.work # bound[l] BY <2>2, <1>5, DetachedAgree
  <2> QED BY <2>1, <2>2
<1>10. d.work # bound[l] => Siblings(l, ts) = {} BY <1>5, DetachedAgree
<1>11. \A x \in Listings : \A t \in Siblings(x, ts) : t \in Siblings(x, tracks)
  <2>1. CASE d.work = bound[l] BY <2>1
  <2>2. CASE d.work # bound[l]
    <3>1. \A t \in Detached(l, tracks) : t.listing # Null => t \in tracks BY DEF Detached, IdentityInv, TracksAgree, TrackRows
    <3> QED BY <3>1, <2>2 DEF Siblings
  <2> QED BY <2>1, <2>2
<1>12. /\ follows \subseteq FollowRows /\ \A f \in follows : f.work \in works'
       /\ \A f, g \in follows : f.work = g.work /\ f.language = g.language => f = g
  BY <1>5 DEF IdentityInv, FollowsAgree
<1>13. CASE tracks' = ts /\ UNCHANGED <<follows, lastId>>
  <2>1. TracksAgree(works, bound, known, tracks, imported)' BY <1>9, <1>13, <1>1 DEF TracksAgree
  <2>2. FollowsAgree(works, tracks, follows)' BY <1>9, <1>12, <1>13 DEF FollowsAgree
  <2>3. \A x \in Listings : Twinned(x)' => Twinned(x) BY <1>11, <1>13 DEF Twinned
  <2> QED BY <2>1, <2>2, <2>3, <1>1, <1>4, <1>5, <1>6, <1>7, <1>8 DEF IdentityInv
<1>14. CASE /\ UnknownOf(l, lang, ts) # {} /\ SameOf(l, lang, ts) = {} /\ UNCHANGED lastId
            /\ \E t \in UnknownOf(l, lang, ts) :
                 /\ tracks' = (ts \ {t}) \cup {[t EXCEPT !.language = lang]}
                 /\ follows' = Relabelled(follows, t, lang)
  <2>1. d.work = bound[l] /\ ts = tracks BY <1>10, <1>14 DEF UnknownOf
  <2>2. PICK t \in UnknownOf(l, lang, tracks) :
          tracks' = (tracks \ {t}) \cup {[t EXCEPT !.language = lang]} /\ follows' = Relabelled(follows, t, lang)
    BY <1>14, <2>1
  <2>3. t \in tracks /\ t.listing = l /\ t.language = "und" /\ lang # "und" BY <2>2 DEF UnknownOf, Siblings
  <2>4. \A u \in tracks : u.listing = l => u.language # lang BY <1>14, <2>1 DEF SameOf, Siblings
  <2>5. TracksAgree(works, bound, known, tracks', imported) /\ FollowsAgree(works, tracks', follows')
    BY <2>2, <2>3, <2>4, RelabelKeeps
  <2>6. bound' = bound BY <1>1, <2>1 DEF IdentityInv, BoundAndDecided
  <2>7. TracksAgree(works, bound, known, tracks, imported)' /\ FollowsAgree(works, tracks, follows)'
    BY <2>5, <2>6, <1>1, <1>5, <1>14 DEF TracksAgree, FollowsAgree
  <2>8. ASSUME NEW x \in Listings, Twinned(x)' PROVE Twinned(x)
    <3>1. [t EXCEPT !.language = lang].listing = l /\ [t EXCEPT !.language = lang].language = lang
      BY <2>3 DEF IdentityInv, TracksAgree, TrackRows
    <3>2. \A u \in tracks' : u \in tracks \ {t} \/ (u.listing = l /\ u.language = lang) BY <2>2, <3>1
    <3>3. CASE x = l
      <4>1. \A u \in tracks : u.listing = l /\ u.language = "und" => u = t BY <2>3 DEF IdentityInv, TracksAgree
      <4> QED BY <4>1, <3>2, <3>3, <2>3, <2>8 DEF Twinned, Siblings
    <3>4. CASE x # l BY <3>2, <3>4, <2>8 DEF Twinned, Siblings
    <3> QED BY <3>3, <3>4
  <2> QED BY <2>7, <2>8, <1>1, <1>4, <1>5, <1>6, <1>7, <1>8 DEF IdentityInv
<1>15. CASE /\ d.work # Null /\ SameOf(l, lang, ts) = {} /\ UnknownOf(l, lang, ts) = {} /\ lastId < MaxId
            /\ tracks' = ts \cup {NewTrack(l, d.work, lang)} /\ lastId' = lastId + 1 /\ UNCHANGED follows
  <2> DEFINE n == NewTrack(l, d.work, lang)
  <2>0. d.work \in works' BY <1>1, <1>4, <1>5, <1>15 DEF IdentityInv, BoundAndDecided
  <2>1. n \in TrackRows /\ n.id = lastId + 1 /\ n.work = d.work /\ n.listing = l /\ n.language = lang
    BY <1>1, <1>5, <1>6, <1>15, <2>0 DEF NewTrack, TrackRows, Ids, BoundAndDecided, Languages
  <2>2. n.language # "local" BY <2>1 DEF Languages
  <2>3. \A t \in ts : t.listing = l => t.language # lang BY <1>15 DEF SameOf, Siblings
  <2> HIDE DEF n
  <2>4. /\ lastId < MaxId /\ lastId' = lastId + 1 /\ TracksAgree(works', bound', known', ts, imported)
        /\ l # Null /\ l \in known' /\ bound'[l] = n.work /\ n.work \in works'
    BY <1>5, <1>9, <1>15, <2>0, <2>1 DEF TrackRows
  <2>5. TracksAgree(works, bound, known, tracks, imported)'
    <3>1. /\ n.listing # Null => n.listing \in known' /\ bound'[n.listing] = n.work
                                /\ \A t \in ts : t.listing = n.listing => t.language # n.language
          /\ n.language = "local" => n.listing = Null /\ n.work \in imported /\ \A t \in ts : t.work # n.work
      BY <2>1, <2>2, <2>3, <2>4
    <3>2. tracks' = ts \cup {n} /\ imported' = imported /\ imported \subseteq works' BY <1>1, <1>15, <2>4 DEF n, TracksAgree
    <3> HIDE DEF ts
    <3>3. /\ n.id <= lastId'
          /\ \A t \in ts : t.id <= lastId' /\ t.id # n.id
          /\ tracks' \subseteq TrackRows
          /\ \A t, u \in tracks' : t.id = u.id => t = u
          /\ \A t \in tracks' : t.work \in works'
          /\ \A t \in tracks' : t.listing # Null => t.listing \in known' /\ bound'[t.listing] = t.work
          /\ \A t, u \in tracks' : t.listing # Null /\ t.listing = u.listing /\ t.language = u.language => t = u
          /\ \A t \in tracks' : t.language = "local" => t.listing = Null /\ t.work \in imported
          /\ \A t, u \in tracks' : t.language = "local" /\ u.language = "local" /\ t.work = u.work => t = u
      BY <2>1, <2>4, <3>1, <3>2, <1>6, NewTrackKeeps
    <3> QED BY <3>2, <3>3 DEF TracksAgree
  <2>6. FollowsAgree(works, tracks, follows)' BY <1>9, <1>12, <1>15 DEF FollowsAgree
  <2>7. ASSUME NEW x \in Listings, Twinned(x)' PROVE Twinned(x)
    <3>1. CASE x # l BY <3>1, <1>11, <1>15, <2>1, <2>7 DEF Twinned, Siblings, n
    <3>2. CASE x = l
      <4>1. PICK t \in tracks', u \in tracks' : t.listing = l /\ u.listing = l /\ t.language = "und" /\ u.language # "und"
        BY <2>7, <3>2 DEF Twinned, Siblings
      <4>2. CASE t \in ts /\ u \in ts BY <4>1, <4>2, <3>2, <1>11 DEF Twinned, Siblings
      <4>3. CASE t \in ts /\ u = n
        <5>1. lang # "und" BY <2>1, <4>1, <4>3
        <5>2. t \in UnknownOf(l, lang, ts) BY <5>1, <4>1, <4>3 DEF UnknownOf, Siblings
        <5> QED BY <5>2, <1>15
      <4>4. CASE t = n /\ u \in ts
        <5>1. lang = "und" /\ u \in Siblings(l, ts) BY <2>1, <4>1, <4>4 DEF Siblings
        <5>2. ts = tracks BY <5>1, <1>10
        <5>3. \A y \in Siblings(l, tracks) : y.language = "en"
          BY <5>1, <5>2, <2>3, IdentityAssumption DEF Siblings, IdentityInv, TracksAgree, TrackRows, Languages
        <5>4. Cardinality(Siblings(l, tracks)) = 1 BY <5>1, <5>2, <5>3, OneSibling
        <5>5. u \in SameOf(l, lang, ts) BY <5>1, <5>2, <5>4 DEF SameOf
        <5> QED BY <5>5, <1>15
      <4>5. CASE t = n /\ u = n BY <4>1, <4>5
      <4> QED BY <4>1, <4>2, <4>3, <4>4, <4>5, <1>15 DEF n
    <3> QED BY <3>1, <3>2
  <2> QED BY <2>5, <2>6, <2>7, <1>1, <1>4, <1>5, <1>6, <1>7, <1>8 DEF IdentityInv
<1> QED BY <1>2, <1>13, <1>14, <1>15

(* What the steps owe to the user's decisions, besides keeping the tables whole. *)
BlockedRespected ==
  \A l \in Listings : bound'[l] # bound[l] /\ bound'[l] # Null /\ l \in known /\ ~RestoreReplace
    => ~Blocked(l, bound'[l]) \/ bound[l] \notin works'
NoneTwinned == restores' = restores => \A l \in Listings : Twinned(l)' => Twinned(l)

(* Imports, follows and forbidden matches.                                       *)
LEMMA AddedRowsKeep ==
  ASSUME IdentityInv, \/ \E w \in Works : ImportsWork(w)
                      \/ \E t \in tracks : Follows(t)
                      \/ \E l \in Listings, w \in Works : NeverMatch(l, w)
  PROVE  IdentityInv' /\ BlockedRespected /\ NoneTwinned
<1>1. ASSUME NEW w \in Works, ImportsWork(w) PROVE IdentityInv' /\ BlockedRespected /\ NoneTwinned
  <2> DEFINE n == [id |-> lastId + 1, work |-> w, listing |-> Null, language |-> "local"]
  <2>1. /\ w \in Works /\ w \notin spent /\ lastId < MaxId /\ lastId \in Nat
        /\ works' = works \cup {w} /\ spent' = spent \cup {w} /\ imported' = imported \cup {w}
        /\ tracks' = tracks \cup {n} /\ lastId' = lastId + 1
        /\ UNCHANGED <<bound, decided, known, follows, mappings, savedTables, restores>>
    BY <1>1, FreshIsNew DEF ImportsWork, IdentityInv
  <2>2. n \in TrackRows /\ n.id = lastId + 1 /\ n.work = w /\ n.listing = Null /\ n.language = "local"
    BY <2>1 DEF TrackRows, Ids
  <2> HIDE DEF n
  <2>3. BoundAndDecided(works, bound, decided, known)' BY <2>1 DEF IdentityInv, BoundAndDecided
  <2>4. TracksAgree(works', bound, known, tracks, imported') /\ \A t \in tracks : t.work # w
    BY <2>1 DEF IdentityInv, BoundAndDecided, TracksAgree
  <2>5. TracksAgree(works, bound, known, tracks, imported)'
    <3>1. /\ n.id <= lastId'
          /\ \A t \in tracks : t.id <= lastId' /\ t.id # n.id
          /\ tracks' \subseteq TrackRows
          /\ \A t, u \in tracks' : t.id = u.id => t = u
          /\ \A t \in tracks' : t.work \in works'
          /\ \A t \in tracks' : t.listing # Null => t.listing \in known /\ bound[t.listing] = t.work
          /\ \A t, u \in tracks' : t.listing # Null /\ t.listing = u.listing /\ t.language = u.language => t = u
          /\ \A t \in tracks' : t.language = "local" => t.listing = Null /\ t.work \in imported'
          /\ \A t, u \in tracks' : t.language = "local" /\ u.language = "local" /\ t.work = u.work => t = u
      BY <2>1, <2>2, <2>4, NewTrackKeeps
    <3>2. imported' \subseteq works' BY <2>1 DEF IdentityInv, TracksAgree
    <3> QED BY <2>1, <3>1, <3>2 DEF TracksAgree
  <2>6. FollowsAgree(works, tracks, follows)' /\ MappingsAgree(works, mappings)'
    BY <2>1 DEF IdentityInv, FollowsAgree, MappingsAgree
  <2>7. savedTables' # Null => AgreeingTables(savedTables)' BY <2>1, SavedStay
  <2>8. \A l \in Listings : Siblings(l, tracks)' = Siblings(l, tracks) BY <2>1, <2>2 DEF Siblings
  <2>9. IdentityInv' BY <2>1, <2>3, <2>5, <2>6, <2>7 DEF IdentityInv
  <2>10. NoneTwinned BY <2>8 DEF NoneTwinned, Twinned
  <2> QED BY <2>1, <2>9, <2>10 DEF BlockedRespected
<1>2. ASSUME NEW t \in tracks, Follows(t) PROVE IdentityInv' /\ BlockedRespected /\ NoneTwinned
  <2>0. /\ UNCHANGED <<works, bound, decided, known, tracks, mappings, imported, spent, savedTables, lastId, restores>>
        /\ follows' = {f \in follows : f.work # t.work \/ f.language # t.language}
                        \cup {[work |-> t.work, language |-> t.language, track |-> t.id]}
        /\ t \in TrackRows /\ t.language # "local" /\ t.work \in works
    BY <1>2 DEF Follows, IdentityInv, TracksAgree
  <2>1. FollowsAgree(works, tracks, follows')
    BY <2>0 DEF IdentityInv, FollowsAgree, FollowRows, TrackRows
  <2>2. savedTables' # Null => AgreeingTables(savedTables)' BY <2>0, SavedStay DEF IdentityInv
  <2>3. TracksAgree(works, bound, known, tracks, imported)' BY <2>0 DEF IdentityInv, TracksAgree
  <2>4. IdentityInv' BY <2>0, <2>1, <2>2, <2>3 DEF IdentityInv, BoundAndDecided, MappingsAgree, FollowsAgree
  <2> QED BY <2>0, <2>4 DEF BlockedRespected, NoneTwinned, Twinned
<1>3. ASSUME NEW l \in Listings, NEW w \in Works, NeverMatch(l, w) PROVE IdentityInv' /\ BlockedRespected /\ NoneTwinned
  <2>0. /\ UNCHANGED <<works, bound, decided, known, tracks, follows, imported, spent, savedTables, lastId, restores>>
        /\ mappings' = mappings \cup {Row("never_match", l, w)} /\ w \in works
    BY <1>3 DEF NeverMatch
  <2>1. MappingsAgree(works, mappings') BY <2>0 DEF IdentityInv, MappingsAgree, MappingRows, Row, BlockingKinds
  <2>2. savedTables' # Null => AgreeingTables(savedTables)' BY <2>0, SavedStay DEF IdentityInv
  <2>3. TracksAgree(works, bound, known, tracks, imported)' BY <2>0 DEF IdentityInv, TracksAgree
  <2>4. IdentityInv' BY <2>0, <2>1, <2>2, <2>3 DEF IdentityInv, BoundAndDecided, MappingsAgree, FollowsAgree
  <2> QED BY <2>0, <2>4 DEF BlockedRespected, NoneTwinned, Twinned
<1> QED BY <1>1, <1>2, <1>3

(* A listing is taken from its Work by the user.                                 *)
LEMMA UnlinkKeeps ==
  ASSUME IdentityInv, NEW l \in Listings, Unlink(l)
  PROVE  IdentityInv' /\ BlockedRespected /\ NoneTwinned
<1>0. /\ UNCHANGED <<works, known, follows, imported, spent, savedTables, lastId, restores>>
      /\ mappings' = mappings \cup {Row("unlink", l, w) : w \in {bound[l]} \ {Null}}
      /\ tracks' = Detached(l, tracks)
      /\ bound' = [bound EXCEPT ![l] = Null] /\ decided' = [decided EXCEPT ![l] = Null]
  BY DEF Unlink
<1>1. BoundAndDecided(works, bound, decided, known)' BY <1>0 DEF IdentityInv, BoundAndDecided
<1>2. \A x \in Listings \ {l} : bound'[x] = bound[x] BY <1>0 DEF IdentityInv, BoundAndDecided
<1>3. /\ TracksAgree(works, bound', known, tracks', imported)
      /\ \A f \in follows : \E t \in tracks' : t.id = f.track /\ (t.language = "und" => f.language = "und")
  BY <1>0, <1>2, DetachedAgree
<1>4. TracksAgree(works, bound, known, tracks, imported)' BY <1>0, <1>3 DEF TracksAgree
<1>5. FollowsAgree(works, tracks, follows)' BY <1>0, <1>3 DEF IdentityInv, FollowsAgree
<1>6. MappingsAgree(works, mappings)'
  BY <1>0 DEF IdentityInv, BoundAndDecided, MappingsAgree, MappingRows, Row, BlockingKinds
<1>7. savedTables' # Null => AgreeingTables(savedTables)' BY <1>0, SavedStay DEF IdentityInv
<1>8. IdentityInv' BY <1>0, <1>1, <1>4, <1>5, <1>6, <1>7 DEF IdentityInv
<1>9. BlockedRespected
  <2>1. \A x \in Listings : bound'[x] = bound[x] \/ bound'[x] = Null BY <1>0, <1>2 DEF IdentityInv, BoundAndDecided
  <2> QED BY <2>1 DEF BlockedRespected
<1>10. NoneTwinned
  <2>1. \A t \in tracks' : t.listing # Null => t \in tracks BY <1>0 DEF Detached, IdentityInv, TracksAgree, TrackRows
  <2> QED BY <2>1 DEF NoneTwinned, Twinned, Siblings
<1> QED BY <1>8, <1>9, <1>10

(* A listing goes to a Work of its own.                                          *)
LEMMA SplitKeeps ==
  ASSUME IdentityInv, NEW l \in Listings, NEW w \in Works, Split(l, w)
  PROVE  IdentityInv' /\ BlockedRespected /\ NoneTwinned
<1> DEFINE To(t) == IF t.listing = l THEN [t EXCEPT !.work = w] ELSE t
<1>0. /\ w \notin spent /\ works' = works \cup {w} /\ spent' = spent \cup {w} /\ l \in known
      /\ mappings' = mappings \cup {Row("split", l, x) : x \in {bound[l]} \ {Null}}
      /\ tracks' = {To(t) : t \in tracks}
      /\ bound' = [bound EXCEPT ![l] = w] /\ decided' = [decided EXCEPT ![l] = "user"]
      /\ UNCHANGED <<known, follows, imported, savedTables, lastId, restores>>
  BY FreshIsNew DEF Split
<1>1. \A t \in tracks : /\ To(t) \in TrackRows /\ To(t).id = t.id /\ To(t).listing = t.listing /\ To(t).language = t.language
                        /\ To(t).work = IF t.listing = l THEN w ELSE t.work
  BY DEF IdentityInv, TracksAgree, TrackRows
<1> HIDE DEF To
<1>2. \A u \in tracks' : \E t \in tracks : u = To(t) BY <1>0
<1>3. BoundAndDecided(works, bound, decided, known)' BY <1>0 DEF IdentityInv, BoundAndDecided, Works
<1>4. \A x \in Listings : bound'[x] = IF x = l THEN w ELSE bound[x] BY <1>0 DEF IdentityInv, BoundAndDecided
<1>5. TracksAgree(works, bound, known, tracks, imported)'
  <2>0. imported' \subseteq works' /\ lastId' = lastId BY <1>0 DEF IdentityInv, TracksAgree
  <2>1. tracks' \subseteq TrackRows /\ \A t \in tracks' : t.work \in works' /\ t.id <= lastId'
    BY <1>0, <1>1, <1>2 DEF IdentityInv, TracksAgree
  <2>2. \A t, u \in tracks' : t.id = u.id => t = u BY <1>1, <1>2 DEF IdentityInv, TracksAgree
  <2>3. \A t \in tracks' : t.listing # Null => t.listing \in known' /\ bound'[t.listing] = t.work
    BY <1>0, <1>1, <1>2, <1>4 DEF IdentityInv, TracksAgree, TrackRows
  <2>4. \A t, u \in tracks' : t.listing # Null /\ t.listing = u.listing /\ t.language = u.language => t = u
    BY <1>1, <1>2 DEF IdentityInv, TracksAgree
  <2>5. \A t \in tracks' : t.language = "local" => t.listing = Null /\ t.work \in imported'
    BY <1>0, <1>1, <1>2 DEF IdentityInv, TracksAgree
  <2>6. \A t, u \in tracks' : t.language = "local" /\ u.language = "local" /\ t.work = u.work => t = u
    BY <1>1, <1>2 DEF IdentityInv, TracksAgree
  <2> QED BY <2>0, <2>1, <2>2, <2>3, <2>4, <2>5, <2>6 DEF TracksAgree
<1>6. FollowsAgree(works, tracks, follows)'
  <2>1. ASSUME NEW f \in follows PROVE f.work \in works' /\ \E u \in tracks' : u.id = f.track /\ (u.language = "und" => f.language = "und")
    <3>1. PICK t \in tracks : t.id = f.track /\ (t.language = "und" => f.language = "und") BY DEF IdentityInv, FollowsAgree
    <3>2. To(t) \in tracks' BY <1>0
    <3> QED BY <1>0, <1>1, <3>1, <3>2 DEF IdentityInv, FollowsAgree
  <2> QED BY <1>0, <2>1 DEF IdentityInv, FollowsAgree
<1>7. MappingsAgree(works, mappings)'
  BY <1>0 DEF IdentityInv, BoundAndDecided, MappingsAgree, MappingRows, Row, BlockingKinds
<1>8. savedTables' # Null => AgreeingTables(savedTables)' BY <1>0, SavedStay DEF IdentityInv
<1>9. IdentityInv' BY <1>0, <1>3, <1>5, <1>6, <1>7, <1>8 DEF IdentityInv
<1>10. BlockedRespected
  <2>1. ~Blocked(l, w) BY <1>0 DEF Blocked, IdentityInv, MappingsAgree, BoundAndDecided
  <2> QED BY <1>4, <2>1 DEF BlockedRespected
<1>11. NoneTwinned BY <1>1, <1>2 DEF NoneTwinned, Twinned, Siblings
<1> QED BY <1>9, <1>10, <1>11

(* Two Works become one.                                                         *)
LEMMA MergeKeeps ==
  ASSUME IdentityInv, NEW w \in Works, NEW v \in Works, Merge(w, v)
  PROVE  IdentityInv' /\ BlockedRespected /\ NoneTwinned
<1> DEFINE To(r) == IF r.work = v THEN [r EXCEPT !.work = w] ELSE r
<1>0. /\ w # v /\ w \in works /\ v \in works /\ v \notin imported
      /\ bound' = [l \in Listings |-> IF bound[l] = v THEN w ELSE bound[l]]
      /\ tracks' = {To(t) : t \in tracks} /\ mappings' = {To(m) : m \in mappings}
      /\ follows' = JoinedFollows(w, v) /\ works' = works \ {v}
      /\ UNCHANGED <<decided, known, imported, spent, savedTables, lastId, restores>>
  BY Zenon DEF Merge, MovedTo
<1>1. \A t \in tracks : /\ To(t) \in TrackRows /\ To(t).id = t.id /\ To(t).listing = t.listing /\ To(t).language = t.language
                        /\ To(t).work = IF t.work = v THEN w ELSE t.work
  BY DEF IdentityInv, TracksAgree, TrackRows
<1>m. \A m \in mappings : To(m) \in MappingRows /\ To(m).work = IF m.work = v THEN w ELSE m.work
  BY DEF IdentityInv, MappingsAgree, MappingRows
<1>f. \A f \in follows : /\ To(f) \in FollowRows /\ To(f).track = f.track /\ To(f).language = f.language
                         /\ To(f).work = IF f.work = v THEN w ELSE f.work
  BY DEF IdentityInv, FollowsAgree, FollowRows
<1>g. follows' = {f \in follows : f.work # v}
                 \cup {To(f) : f \in {x \in follows : x.work = v /\ ~\E g \in follows : g.work = w /\ g.language = x.language}}
  BY <1>0, Zenon DEF JoinedFollows, MovedTo
<1> HIDE DEF To
<1>2. \A u \in tracks' : \E t \in tracks : u = To(t) BY <1>0
<1>3. BoundAndDecided(works, bound, decided, known)' BY <1>0 DEF IdentityInv, BoundAndDecided, Works
<1>5. TracksAgree(works, bound, known, tracks, imported)'
  <2>0. imported' \subseteq works' /\ lastId' = lastId BY <1>0 DEF IdentityInv, TracksAgree
  <2>1. tracks' \subseteq TrackRows /\ \A t \in tracks' : t.work \in works' /\ t.id <= lastId'
    BY <1>0, <1>1, <1>2 DEF IdentityInv, TracksAgree
  <2>2. \A t, u \in tracks' : t.id = u.id => t = u BY <1>1, <1>2 DEF IdentityInv, TracksAgree
  <2>3. \A t \in tracks' : t.listing # Null => t.listing \in known' /\ bound'[t.listing] = t.work
    BY <1>0, <1>1, <1>2 DEF IdentityInv, TracksAgree, TrackRows, BoundAndDecided
  <2>4. \A t, u \in tracks' : t.listing # Null /\ t.listing = u.listing /\ t.language = u.language => t = u
    BY <1>1, <1>2 DEF IdentityInv, TracksAgree
  <2>5. \A t \in tracks : t.language = "local" => To(t).work = t.work BY <1>0, <1>1 DEF IdentityInv, TracksAgree
  <2>6. \A t \in tracks' : t.language = "local" => t.listing = Null /\ t.work \in imported'
    BY <1>0, <1>1, <1>2, <2>5 DEF IdentityInv, TracksAgree
  <2>7. \A t, u \in tracks' : t.language = "local" /\ u.language = "local" /\ t.work = u.work => t = u
    BY <1>1, <1>2, <2>5 DEF IdentityInv, TracksAgree
  <2> QED BY <2>0, <2>1, <2>2, <2>3, <2>4, <2>6, <2>7 DEF TracksAgree
<1>6. FollowsAgree(works, tracks, follows)'
  <2>1. \A x \in follows' : \E f \in follows : x = To(f) /\ (f.work = v => ~\E g \in follows : g.work = w /\ g.language = f.language)
    BY <1>g DEF To
  <2>2. ASSUME NEW x \in follows' PROVE x \in FollowRows /\ x.work \in works' /\ \E u \in tracks' : u.id = x.track /\ (u.language = "und" => x.language = "und")
    <3>1. PICK f \in follows : x = To(f) BY <2>1
    <3>2. PICK t \in tracks : t.id = f.track /\ (t.language = "und" => f.language = "und") BY DEF IdentityInv, FollowsAgree
    <3>3. To(t) \in tracks' BY <1>0
    <3>4. f.work \in works BY DEF IdentityInv, FollowsAgree
    <3> QED BY <1>0, <1>1, <1>f, <3>1, <3>2, <3>3, <3>4
  <2>3. ASSUME NEW x \in follows', NEW y \in follows', x.work = y.work, x.language = y.language PROVE x = y
    <3>1. PICK f \in follows, g \in follows :
            /\ x = To(f) /\ (f.work = v => ~\E h \in follows : h.work = w /\ h.language = f.language)
            /\ y = To(g) /\ (g.work = v => ~\E h \in follows : h.work = w /\ h.language = g.language)
      BY <2>1
    <3>2. f.language = g.language /\ f.work = g.work BY <1>f, <3>1, <2>3, <1>0
    <3> QED BY <3>1, <3>2 DEF IdentityInv, FollowsAgree
  <2> QED BY <2>2, <2>3 DEF FollowsAgree
<1>7. MappingsAgree(works, mappings)' BY <1>0, <1>m DEF IdentityInv, MappingsAgree
<1>8. savedTables' # Null => AgreeingTables(savedTables)' BY <1>0, SavedStay DEF IdentityInv
<1>9. IdentityInv' BY <1>0, <1>3, <1>5, <1>6, <1>7, <1>8 DEF IdentityInv
<1>10. BlockedRespected BY <1>0 DEF BlockedRespected
<1>11. NoneTwinned BY <1>1, <1>2 DEF NoneTwinned, Twinned, Siblings
<1> QED BY <1>9, <1>10, <1>11

(* The repair relabels a track, or joins it with its sibling.                    *)
LEMMA ReclassifyKeeps ==
  ASSUME IdentityInv, NEW t \in tracks, Reclassify(t)
  PROVE  IdentityInv' /\ BlockedRespected /\ NoneTwinned
<1> DEFINE twins == {u \in tracks : u.listing = t.listing /\ t.listing # Null /\ u.language = "en"}
<1>0. /\ t.language = "und"
      /\ UNCHANGED <<works, bound, decided, known, mappings, imported, spent, savedTables, lastId, restores>>
  BY DEF Reclassify
<1>1. \/ /\ twins = {} /\ tracks' = (tracks \ {t}) \cup {[t EXCEPT !.language = "en"]}
         /\ follows' = Relabelled(follows, t, "en")
      \/ \E u \in twins :
          /\ tracks' = tracks \ {t}
          /\ follows' = {IF f.track = t.id THEN [f EXCEPT !.track = u.id, !.language = "en"] ELSE f :
                           f \in {g \in follows : g.track = t.id =>
                                    ~\E h \in follows \ {g} : h.work = g.work /\ h.language = "en"}}
  BY Zenon DEF Reclassify
<1>2. savedTables' # Null => AgreeingTables(savedTables)' BY <1>0, SavedStay DEF IdentityInv
<1>3. ASSUME TracksAgree(works, bound, known, tracks', imported) /\ FollowsAgree(works, tracks', follows'),
             \A x \in tracks' : x \in tracks \/ (x.listing = t.listing /\ x.language # "und"),
             \A x \in tracks' : x.language = "und" => x \in tracks \ {t}
      PROVE  IdentityInv' /\ BlockedRespected /\ NoneTwinned
  <2>1. TracksAgree(works, bound, known, tracks, imported)' /\ FollowsAgree(works, tracks, follows)'
    BY <1>0, <1>3 DEF TracksAgree, FollowsAgree
  <2>2. IdentityInv' BY <1>0, <1>2, <2>1 DEF IdentityInv, BoundAndDecided, MappingsAgree
  <2>3. \A x, y \in tracks : x.listing # Null /\ x.listing = y.listing /\ x.language = "und" /\ y.language = "und" => x = y
    BY DEF IdentityInv, TracksAgree
  <2>4. NoneTwinned
    <3>1. ASSUME NEW l \in Listings, Twinned(l)' PROVE Twinned(l)
      <4>1. PICK x \in tracks', y \in tracks' : x.listing = l /\ y.listing = l /\ x.language = "und" /\ y.language # "und"
        BY <3>1 DEF Twinned, Siblings
      <4>2. x \in tracks \ {t} BY <4>1, <1>3
      <4>3. t.listing # l BY <1>0, <2>3, <4>1, <4>2
      <4>4. y \in tracks BY <4>1, <4>3, <1>3
      <4> QED BY <4>1, <4>2, <4>4 DEF Twinned, Siblings
    <3> QED BY <3>1 DEF NoneTwinned
  <2> QED BY <2>2, <2>4, <1>0 DEF BlockedRespected
<1>4. CASE /\ twins = {} /\ tracks' = (tracks \ {t}) \cup {[t EXCEPT !.language = "en"]}
           /\ follows' = Relabelled(follows, t, "en")
  <2>1. TracksAgree(works, bound, known, tracks', imported) /\ FollowsAgree(works, tracks', follows')
    BY <1>0, <1>4, RelabelKeeps DEF Languages
  <2>2. [t EXCEPT !.language = "en"].listing = t.listing /\ [t EXCEPT !.language = "en"].language = "en"
    BY DEF IdentityInv, TracksAgree, TrackRows
  <2> QED BY <2>1, <2>2, <1>3, <1>4
<1>5. ASSUME NEW u \in twins, tracks' = tracks \ {t},
             follows' = {IF f.track = t.id THEN [f EXCEPT !.track = u.id, !.language = "en"] ELSE f :
                           f \in {g \in follows : g.track = t.id =>
                                    ~\E h \in follows \ {g} : h.work = g.work /\ h.language = "en"}}
      PROVE  IdentityInv' /\ BlockedRespected /\ NoneTwinned
  <2>1. TracksAgree(works, bound, known, tracks', imported) BY <1>5 DEF IdentityInv, TracksAgree
  <2> DEFINE To(f) == IF f.track = t.id THEN [f EXCEPT !.track = u.id, !.language = "en"] ELSE f
             Free(f) == f.track = t.id => ~\E h \in follows \ {f} : h.work = f.work /\ h.language = "en"
  <2>2. follows' = {To(f) : f \in {g \in follows : Free(g)}} BY <1>5
  <2>3. \A f \in follows : /\ To(f) \in FollowRows /\ To(f).work = f.work
                           /\ To(f).track = (IF f.track = t.id THEN u.id ELSE f.track)
                           /\ To(f).language = IF f.track = t.id THEN "en" ELSE f.language
    BY DEF IdentityInv, FollowsAgree, FollowRows, Languages, TracksAgree, TrackRows
  <2>4. \A f \in follows : f.track = t.id => f.language = "und" BY <1>0 DEF IdentityInv, FollowsAgree, TracksAgree
  <2>5. u \in tracks \ {t} /\ u.language = "en" BY <1>0, <1>5
  <2> HIDE DEF To
  <2>6. FollowsAgree(works, tracks', follows')
    <3>1. ASSUME NEW x \in follows' PROVE x \in FollowRows /\ x.work \in works /\ \E y \in tracks' : y.id = x.track /\ (y.language = "und" => x.language = "und")
      <4>1. PICK f \in follows : x = To(f) BY <2>2
      <4>2. PICK y \in tracks : y.id = f.track /\ (y.language = "und" => f.language = "und") BY DEF IdentityInv, FollowsAgree
      <4>3. x \in FollowRows /\ x.work \in works BY <4>1, <2>3 DEF IdentityInv, FollowsAgree
      <4>4. CASE f.track = t.id BY <4>1, <4>3, <4>4, <2>3, <2>5, <1>5
      <4>5. CASE f.track # t.id BY <4>1, <4>2, <4>3, <4>5, <2>3, <1>5
      <4> QED BY <4>4, <4>5
    <3>2. ASSUME NEW x \in follows', NEW y \in follows', x.work = y.work, x.language = y.language PROVE x = y
      <4>1. PICK f \in follows, g \in follows : x = To(f) /\ y = To(g) /\ Free(f) /\ Free(g) BY <2>2
      <4>2. f.work = g.work BY <4>1, <2>3, <3>2
      <4>3. f = g
        <5>1. CASE f.track = t.id /\ g.track = t.id BY <5>1, <2>4, <4>2 DEF IdentityInv, FollowsAgree
        <5>2. CASE f.track = t.id /\ g.track # t.id BY <5>2, <4>1, <4>2, <2>3, <3>2
        <5>3. CASE f.track # t.id /\ g.track = t.id BY <5>3, <4>1, <4>2, <2>3, <3>2
        <5>4. CASE f.track # t.id /\ g.track # t.id BY <5>4, <4>1, <4>2, <2>3, <3>2 DEF IdentityInv, FollowsAgree
        <5> QED BY <5>1, <5>2, <5>3, <5>4
      <4> QED BY <4>1, <4>3
    <3> QED BY <3>1, <3>2 DEF FollowsAgree
  <2>7. \A x \in tracks' : x \in tracks /\ x \in tracks \ {t} BY <1>5
  <2> QED BY <2>1, <2>6, <2>7, <1>3
<1> QED BY <1>1, <1>4, <1>5

(* The backup and the library change places, or the library starts again.        *)
LEMMA TablesMoveKeeps ==
  ASSUME IdentityInv, BackUp \/ Reinstall \/ RestoreReplace
  PROVE  IdentityInv' /\ BlockedRespected /\ NoneTwinned
<1>1. CASE BackUp
  <2>1. AgreeingTables(savedTables)' BY <1>1, TablesAgree DEF BackUp, library, AgreeingTables, Tables, BoundAndDecided, TracksAgree, FollowsAgree, MappingsAgree
  <2>2. IdentityInv'
    BY <1>1, <2>1 DEF BackUp, library, IdentityInv, BoundAndDecided, TracksAgree, FollowsAgree, MappingsAgree
  <2> QED BY <1>1, <2>2 DEF BackUp, library, BlockedRespected, NoneTwinned, Twinned, Siblings
<1>2. CASE Reinstall
  <2>1. savedTables' # Null => AgreeingTables(savedTables)' BY <1>2, SavedStay DEF Reinstall, IdentityInv
  <2>2. IdentityInv'
    BY <1>2, <2>1 DEF Reinstall, IdentityInv, BoundAndDecided, TracksAgree, FollowsAgree, MappingsAgree, Nobody
  <2> QED BY <1>2, <2>2 DEF Reinstall, BlockedRespected, NoneTwinned, Twinned, Siblings, Nobody
<1>3. CASE RestoreReplace
  <2>1. AgreeingTables(savedTables) /\ AgreeingTables(Tables) BY <1>3, TablesAgree DEF RestoreReplace, IdentityInv
  <2>2. AgreeingTables(savedTables)'
    BY <1>3, <2>1 DEF RestoreReplace, AgreeingTables, BoundAndDecided, TracksAgree, FollowsAgree, MappingsAgree
  <2>3. IdentityInv'
    BY <1>3, <2>1, <2>2 DEF RestoreReplace, IdentityInv, AgreeingTables, BoundAndDecided, TracksAgree, FollowsAgree, MappingsAgree
  <2>4. restores' # restores BY <1>3 DEF RestoreReplace, IdentityInv
  <2> QED BY <1>3, <2>3, <2>4 DEF BlockedRespected, NoneTwinned
<1> QED BY <1>1, <1>2, <1>3

(* What a restore in Merge mode adds fits what is there.                         *)
LEMMA RestoreMergeKeeps ==
  ASSUME IdentityInv, RestoreMerge
  PROVE  /\ IdentityInv' /\ BlockedRespected /\ NoneTwinned
         /\ \A l \in known : /\ bound'[l] = bound[l] /\ tracks \subseteq tracks' /\ follows \subseteq follows'
                             /\ (\E m \in mappings' : m.listing = l /\ m.work = bound[l]) => Blocked(l, bound[l])
<1>0. /\ savedTables # Null /\ works' = works \cup savedTables.works
      /\ bound' = [l \in Listings |-> BoundAfter(l)]
      /\ decided' = [l \in Listings |-> IF l \in known THEN decided[l] ELSE savedTables.decided[l]]
      /\ known' = known \cup savedTables.known /\ tracks' = TracksAfter
      /\ follows' = follows \cup AddedFollows /\ mappings' = mappings \cup AddedMappings
      /\ imported' = imported \cup savedTables.imported /\ restores' = restores + 1
      /\ UNCHANGED <<spent, savedTables, lastId>>
  BY DEF RestoreMerge
<1>1. AgreeingTables(savedTables) BY <1>0 DEF IdentityInv
<1>2. \A l \in Listings : bound'[l] = BoundAfter(l) /\ (l \in known => bound'[l] = bound[l]) BY <1>0 DEF BoundAfter
<1>3. \A l \in Listings : BoundAfter(l) \in {Null} \cup works'
  BY <1>0, <1>1 DEF BoundAfter, IdentityInv, AgreeingTables, BoundAndDecided
<1>4. BoundAndDecided(works, bound, decided, known)'
  <2>1. works' \subseteq spent' /\ known' \subseteq Listings BY <1>0, <1>1 DEF IdentityInv, AgreeingTables, BoundAndDecided
  <2>2. bound' \in [Listings -> {Null} \cup works'] BY <1>0, <1>3
  <2>3. decided' \in [Listings -> {Null, "user", "evidence"}]
    BY <1>0, <1>1 DEF IdentityInv, AgreeingTables, BoundAndDecided
  <2>4. \A l \in Listings : decided'[l] = "user" => bound'[l] # Null
    BY <1>0, <1>1, <1>2 DEF IdentityInv, AgreeingTables, BoundAndDecided, BoundAfter
  <2> QED BY <2>1, <2>2, <2>3, <2>4 DEF BoundAndDecided
<1>5. \A s \in savedTables.tracks :
        /\ Placed(s) \in TrackRows /\ Placed(s).id = s.id /\ Placed(s).language = s.language
        /\ Placed(s).listing \in {Null, s.listing} /\ Placed(s).work \in works'
        /\ Placed(s).listing # Null => Placed(s).listing \in known' /\ bound'[Placed(s).listing] = Placed(s).work
        /\ s.listing = Null => Placed(s) = s
  <2> SUFFICES ASSUME NEW s \in savedTables.tracks
               PROVE  /\ Placed(s) \in TrackRows /\ Placed(s).id = s.id /\ Placed(s).language = s.language
                      /\ Placed(s).listing \in {Null, s.listing} /\ Placed(s).work \in works'
                      /\ Placed(s).listing # Null => Placed(s).listing \in known' /\ bound'[Placed(s).listing] = Placed(s).work
                      /\ s.listing = Null => Placed(s) = s
    OBVIOUS
  <2>1. s \in TrackRows /\ s.work \in works' /\ (s.listing # Null => s.listing \in Listings /\ s.listing \in known')
    BY <1>0, <1>1 DEF AgreeingTables, TracksAgree, TrackRows
  <2>2. works' \subseteq Works BY <1>0, <1>1 DEF IdentityInv, AgreeingTables, BoundAndDecided
  <2>3. CASE s.listing = Null BY <2>1, <2>3 DEF Placed
  <2>4. CASE s.listing # Null /\ BoundAfter(s.listing) = Null
    <3>1. Placed(s) = [s EXCEPT !.listing = Null] BY <2>4 DEF Placed
    <3> QED BY <2>1, <2>4, <3>1 DEF TrackRows
  <2>5. CASE s.listing # Null /\ BoundAfter(s.listing) # Null
    <3>1. Placed(s) = [s EXCEPT !.work = BoundAfter(s.listing)] BY <2>5 DEF Placed
    <3>2. BoundAfter(s.listing) \in works' /\ bound'[s.listing] = BoundAfter(s.listing) BY <1>2, <1>3, <2>1, <2>5
    <3> QED BY <2>1, <2>2, <2>5, <3>1, <3>2 DEF TrackRows
  <2> QED BY <2>3, <2>4, <2>5
<1>6. \A t \in tracks' : t \in tracks \/ (Standing(t) = {} /\ \E s \in savedTables.tracks : t = Placed(s))
  BY <1>0 DEF TracksAfter, AddedTracks
<1>7. ASSUME NEW t \in tracks', Standing(t) = {}, NEW u \in tracks
      PROVE  /\ (u.id # t.id)
             /\ ~(t.listing # Null /\ u.listing = t.listing /\ u.language = t.language)
             /\ ~(t.language = "local" /\ u.language = "local" /\ u.work = t.work)
  BY <1>7 DEF Standing
<1>8. TracksAgree(works, bound, known, tracks, imported)'
  <2> USE <1>5, <1>6
  <2>1. imported' \subseteq works' BY <1>0, <1>1 DEF IdentityInv, AgreeingTables, TracksAgree
  <2>2. tracks' \subseteq TrackRows /\ \A t \in tracks' : t.work \in works' /\ t.id <= lastId'
    BY <1>0, <1>1 DEF IdentityInv, AgreeingTables, TracksAgree
  <2>3. \A t, u \in tracks' : t.id = u.id => t = u
    BY <1>1, <1>7 DEF IdentityInv, AgreeingTables, TracksAgree
  <2>4. \A t \in tracks' : t.listing # Null => t.listing \in known' /\ bound'[t.listing] = t.work
    <3>1. \A t \in tracks : t.listing # Null => t.listing \in known /\ t.listing \in Listings /\ bound[t.listing] = t.work
      BY DEF IdentityInv, TracksAgree, TrackRows
    <3> QED BY <1>0, <1>2, <3>1
  <2>5. \A t, u \in tracks' : t.listing # Null /\ t.listing = u.listing /\ t.language = u.language => t = u
    <3>1. ASSUME NEW t \in tracks', NEW u \in tracks', t.listing # Null, t.listing = u.listing, t.language = u.language PROVE t = u
      <4>1. CASE t \in tracks /\ u \in tracks BY <3>1, <4>1 DEF IdentityInv, TracksAgree
      <4>2. CASE t \in tracks /\ u \notin tracks BY <3>1, <4>2, <1>7
      <4>3. CASE t \notin tracks /\ u \in tracks BY <3>1, <4>3, <1>7
      <4>4. CASE t \notin tracks /\ u \notin tracks
        <5>1. PICK r \in savedTables.tracks, s \in savedTables.tracks : t = Placed(r) /\ u = Placed(s) BY <4>4
        <5>2. r.listing # Null /\ r.listing = s.listing /\ r.language = s.language BY <3>1, <5>1
        <5> QED BY <1>1, <5>1, <5>2 DEF AgreeingTables, TracksAgree
      <4> QED BY <4>1, <4>2, <4>3, <4>4
    <3> QED BY <3>1
  <2>6. \A t \in tracks' : t.language = "local" => t.listing = Null /\ t.work \in imported'
    BY <1>0, <1>1 DEF IdentityInv, AgreeingTables, TracksAgree
  <2>7. \A t, u \in tracks' : t.language = "local" /\ u.language = "local" /\ t.work = u.work => t = u
    <3>1. ASSUME NEW t \in tracks', NEW u \in tracks', t.language = "local", u.language = "local", t.work = u.work PROVE t = u
      <4>1. CASE t \in tracks /\ u \in tracks BY <3>1, <4>1 DEF IdentityInv, TracksAgree
      <4>2. CASE t \in tracks /\ u \notin tracks BY <3>1, <4>2, <1>7
      <4>3. CASE t \notin tracks /\ u \in tracks BY <3>1, <4>3, <1>7
      <4>4. CASE t \notin tracks /\ u \notin tracks
        <5>1. PICK r \in savedTables.tracks, s \in savedTables.tracks : t = Placed(r) /\ u = Placed(s) BY <4>4
        <5>2. r.language = "local" /\ s.language = "local" /\ r.listing = Null /\ s.listing = Null
          BY <1>1, <3>1, <5>1 DEF AgreeingTables, TracksAgree
        <5> QED BY <1>1, <3>1, <5>1, <5>2 DEF AgreeingTables, TracksAgree
      <4> QED BY <4>1, <4>2, <4>3, <4>4
    <3> QED BY <3>1
  <2> QED BY <2>1, <2>2, <2>3, <2>4, <2>5, <2>6, <2>7 DEF TracksAgree
<1>9. FollowsAgree(works, tracks, follows)'
  <2> DEFINE Back(g) == [g EXCEPT !.track = IdOf(g.track)]
  <2>1. \A f \in AddedFollows :
          /\ \E g \in savedTables.follows : f = Back(g)
          /\ \E t \in tracks' : t.id = f.track /\ t.work = f.work /\ t.language = f.language
          /\ ~\E g \in follows : g.work = f.work /\ g.language = f.language
    BY <1>0 DEF AddedFollows
  <2>2. \A g \in savedTables.follows : /\ g \in FollowRows /\ Back(g) = [work |-> g.work, language |-> g.language, track |-> IdOf(g.track)]
                                      /\ g.work \in works'
    BY <1>0, <1>1 DEF AgreeingTables, FollowsAgree, FollowRows
  <2> HIDE DEF Back
  <2>3. \A f \in follows : f \in FollowRows /\ f.work \in works' /\ \E t \in tracks' : t.id = f.track /\ (t.language = "und" => f.language = "und")
    BY <1>0 DEF IdentityInv, FollowsAgree, TracksAfter
  <2>4. \A f \in AddedFollows : f \in FollowRows /\ f.work \in works'
    <3>1. ASSUME NEW f \in AddedFollows PROVE f \in FollowRows /\ f.work \in works'
      <4>1. PICK g \in savedTables.follows : f = Back(g) BY <2>1
      <4>2. PICK t \in tracks' : t.id = f.track BY <2>1
      <4>3. f.track \in Ids BY <4>2, <1>8 DEF TracksAgree, TrackRows
      <4> QED BY <4>1, <4>3, <2>2 DEF FollowRows
    <3> QED BY <3>1
  <2>5. \A f, g \in follows' : f.work = g.work /\ f.language = g.language => f = g
    <3>1. \A f, g \in follows : f.work = g.work /\ f.language = g.language => f = g BY DEF IdentityInv, FollowsAgree
    <3>2. \A f, g \in savedTables.follows : f.work = g.work /\ f.language = g.language => f = g BY <1>1 DEF AgreeingTables, FollowsAgree
    <3>3. ASSUME NEW f \in AddedFollows, NEW g \in AddedFollows, f.work = g.work, f.language = g.language PROVE f = g
      <4>1. PICK x \in savedTables.follows, y \in savedTables.follows : f = Back(x) /\ g = Back(y) BY <2>1
      <4> QED BY <4>1, <3>2, <3>3, <2>2
    <3> QED BY <1>0, <2>1, <3>1, <3>3
  <2>6. follows' = follows \cup AddedFollows BY <1>0
  <2> QED BY <2>1, <2>3, <2>4, <2>5, <2>6 DEF FollowsAgree
<1>10. MappingsAgree(works, mappings)' BY <1>0, <1>1 DEF IdentityInv, AgreeingTables, MappingsAgree, AddedMappings
<1>11. savedTables' # Null => AgreeingTables(savedTables)' BY <1>0, SavedStay DEF IdentityInv
<1>12. IdentityInv' BY <1>0, <1>4, <1>8, <1>9, <1>10, <1>11 DEF IdentityInv
<1>13. \A l \in known : l \in Listings BY DEF IdentityInv, BoundAndDecided
<1>14. BlockedRespected BY <1>2 DEF BlockedRespected
<1>15. NoneTwinned BY <1>0 DEF NoneTwinned, IdentityInv
<1>16. \A l \in known : (\E m \in mappings' : m.listing = l /\ m.work = bound[l]) => Blocked(l, bound[l])
  BY <1>0, <1>2, <1>13 DEF Blocked, AddedMappings, IsWelcome
<1> QED BY <1>0, <1>2, <1>12, <1>13, <1>14, <1>15, <1>16 DEF TracksAfter

(* EvidenceYields and RestoreKeepsDecisions, of one step.                        *)
EvidenceYielded == Refreshes => \A l \in Listings : decided[l] = "user" => bound'[l] \in {bound[l], Null}
DecisionsKept ==
  RestoreMerge => \A l \in known :
       /\ bound'[l] = bound[l] /\ tracks \subseteq tracks' /\ follows \subseteq follows'
       /\ (\E m \in mappings' : m.listing = l /\ m.work = bound[l]) => Blocked(l, bound[l])

(* Every step keeps the tables whole and the user's decisions.                   *)
LEMMA IdentityStep ==
  ASSUME IdentityInv, [IdentityNext]_identityVars
  PROVE  IdentityInv' /\ BlockedRespected /\ NoneTwinned /\ EvidenceYielded /\ DecisionsKept
<1>1. EvidenceYielded
  <2>1. ASSUME NEW l \in Listings, NEW lang \in Languages, NEW w \in works \cup {Null}, Bind(l, lang, w, "evidence"),
               NEW x \in Listings, decided[x] = "user"
        PROVE  bound'[x] \in {bound[x], Null}
    BY <2>1, BindKeeps
  <2> QED BY <2>1 DEF EvidenceYielded, Refreshes
<1>2. DecisionsKept
  <2>1. CASE RestoreMerge
    <3>1. \A l \in known : /\ bound'[l] = bound[l] /\ tracks \subseteq tracks' /\ follows \subseteq follows'
                           /\ (\E m \in mappings' : m.listing = l /\ m.work = bound[l]) => Blocked(l, bound[l])
      BY <2>1, RestoreMergeKeeps
    <3> QED BY <3>1, Zenon DEF DecisionsKept
  <2>2. CASE ~RestoreMerge BY <2>2, Zenon DEF DecisionsKept
  <2> QED BY <2>1, <2>2
<1>3. ASSUME NEW l \in Listings, NEW lang \in Languages, NEW w \in works \cup {Null},
             NEW by \in {"user", "evidence"}, Bind(l, lang, w, by)
      PROVE  IdentityInv' /\ BlockedRespected /\ NoneTwinned
  BY <1>3, BindKeeps DEF BlockedRespected, NoneTwinned
<1>4. ASSUME UNCHANGED identityVars PROVE IdentityInv' /\ BlockedRespected /\ NoneTwinned
  <2>1. savedTables' # Null => AgreeingTables(savedTables)' BY <1>4, SavedStay DEF identityVars, library, IdentityInv
  <2>2. IdentityInv'
    BY <1>4, <2>1 DEF identityVars, library, IdentityInv, BoundAndDecided, TracksAgree, FollowsAgree, MappingsAgree
  <2>3. BlockedRespected BY <1>4 DEF identityVars, library, BlockedRespected
  <2>4. NoneTwinned BY <1>4 DEF identityVars, library, NoneTwinned, Twinned, Siblings
  <2> QED BY <2>2, <2>3, <2>4
<1>5. ASSUME IdentityNext PROVE IdentityInv' /\ BlockedRespected /\ NoneTwinned
  <2>1. CASE Refreshes BY <1>3, <2>1, Zenon DEF Refreshes
  <2>2. CASE Decides
    <3>1. CASE \E l \in Listings, lang \in Languages, w \in works \cup {Null} : Bind(l, lang, w, "user") BY <1>3, <3>1, Zenon
    <3>2. CASE \E l \in Listings, w \in Works : NeverMatch(l, w) BY <3>2, AddedRowsKeep, Zenon
    <3>3. CASE \E l \in Listings, w \in Works : Split(l, w) BY <3>3, SplitKeeps, Zenon
    <3>4. CASE \E l \in Listings : Unlink(l) BY <3>4, UnlinkKeeps, Zenon
    <3>5. CASE \E w, v \in Works : Merge(w, v) BY <3>5, MergeKeeps, Zenon
    <3> QED BY <2>2, <3>1, <3>2, <3>3, <3>4, <3>5, Zenon DEF Decides
  <2>3. CASE BackUp \/ Reinstall \/ RestoreReplace BY <2>3, TablesMoveKeeps, Zenon
  <2>4. CASE RestoreMerge BY <2>4, RestoreMergeKeeps, Zenon
  <2>5. CASE \E w \in Works : ImportsWork(w) BY <2>5, AddedRowsKeep, Zenon
  <2>6. CASE \E t \in tracks : Follows(t) BY <2>6, AddedRowsKeep, Zenon
  <2>7. CASE \E t \in tracks : Reclassify(t) BY <2>7, ReclassifyKeeps, Zenon
  <2> QED BY <1>5, <2>1, <2>2, <2>3, <2>4, <2>5, <2>6, <2>7, Zenon DEF IdentityNext
<1> QED BY <1>1, <1>2, <1>4, <1>5

(* The rows of the tables have their types, and agree as the properties say.     *)
LEMMA IdentityShows ==
  ASSUME IdentityInv
  PROVE  IdentityTypeOK /\ LiveTracksFollowTheirListing /\ OneOfEach
<1>1. IdentityTypeOK
  BY DEF IdentityInv, IdentityTypeOK, BoundAndDecided, TracksAgree, FollowsAgree, MappingsAgree
<1>2. LiveTracksFollowTheirListing BY DEF IdentityInv, LiveTracksFollowTheirListing, TracksAgree
<1>3. OneOfEach BY DEF IdentityInv, OneOfEach, TracksAgree, FollowsAgree
<1> QED BY <1>1, <1>2, <1>3

HIDE IdentityAssumption

=============================================================================
