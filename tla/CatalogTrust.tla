----------------------------- MODULE CatalogTrust -----------------------------
(* Which catalog of a track is trusted (catalog/trust.py).  A complete      *)
(* answer of the source replaces the trusted catalog, unless it loses so    *)
(* much of it that it is suspicious: then it takes a second complete answer *)
(* that agrees, or the user.                                                *)
EXTENDS Integers, Sequences, FiniteSets

CONSTANTS
  Tracks, Units,
  SuspiciousUnitsLost,       \* fewer lost units are never suspicious
  MaxCandidates,             \* suspicious snapshots kept of a track
  None

ASSUME UnitsAssumption == IsFiniteSet(Units)
ASSUME SnapshotsAssumption ==
  SuspiciousUnitsLost \in Nat /\ MaxCandidates \in Nat \ {0}
ASSUME NoneAssumption == None \notin Tracks /\ \A units \in SUBSET Units : units # None

VARIABLES
  snapshots,      \* of each track: the catalogs of its complete snapshots, by
                  \* trust, those fetched last first
  availability,   \* of each track: what its reading_units say of each unit
  lastComplete    \* history: the last complete answer for each track

catalogVars == << snapshots, availability, lastComplete >>

CatalogInit ==
  /\ snapshots = [t \in Tracks |-> [current |-> << >>, previous |-> << >>, suspicious |-> << >>]]
  /\ availability = [t \in Tracks |-> [u \in Units |-> "unknown"]]
  /\ lastComplete = [t \in Tracks |-> None]

HasTrusted(t) == snapshots[t].current # << >>
Trusted(t)    == Head(snapshots[t].current)

Newest(q, n) == SubSeq(q, 1, IF Len(q) <= n THEN Len(q) ELSE n)

IsSuspicious(old, new) ==
  LET lost == Cardinality(old \ new)
  IN  old # {} /\ lost >= SuspiciousUnitsLost /\ 2 * lost >= Cardinality(old)

-----------------------------------------------------------------------------
(* Promotion                                                               *)

(* The snapshot that was trusted before the current one is deleted, and    *)
(* the current one takes its place; the candidates are deleted.            *)
Demoted(s) ==
  [current |-> << >>,
   previous |-> s.current \o (IF s.previous = << >> THEN << >> ELSE Tail(s.previous)),
   suspicious |-> << >>]

(* Mistake: the candidates are kept.                                       *)
PromotedBesideCandidates(s, c) == [Demoted(s) EXCEPT !.current = << c >>, !.suspicious = s.suspicious]

Promoted(s, c) == [Demoted(s) EXCEPT !.current = << c >>]

(* Mistake: a unit that is missing from the catalog stays as it is.        *)
MaterializedOnlyNew(a, c) == [u \in Units |-> IF u \in c THEN "available" ELSE a[u]]

(* The rows of the catalog's units are available and the others are not;   *)
(* but with no unit to except (NOT IN (NULL)) no row changes.              *)
Materialized(a, c) ==
  [u \in Units |-> IF u \in c THEN "available"
                   ELSE IF c # {} /\ a[u] # "unknown" THEN "unavailable" ELSE a[u]]

Materialize(t, c) == availability' = [availability EXCEPT ![t] = Materialized(@, c)]

Promote(t, c) ==
  /\ snapshots' = [snapshots EXCEPT ![t] = Promoted(@, c)]
  /\ Materialize(t, c)

-----------------------------------------------------------------------------
(* refresh(): the source answered                                          *)

(* An incomplete snapshot is kept as evidence and changes nothing else.     *)
RefreshIncomplete == UNCHANGED catalogVars

(* Mistake: any candidate that is kept confirms.                           *)
ConfirmedByAny(t, c) == \E i \in DOMAIN snapshots[t].suspicious : snapshots[t].suspicious[i] = c

Confirmed(t, c) == snapshots[t].suspicious # << >> /\ Head(snapshots[t].suspicious) = c

RefreshFirst(t, c) == ~ HasTrusted(t) /\ Promote(t, c)

RefreshUnchanged(t, c) ==
  /\ HasTrusted(t) /\ c = Trusted(t)
  /\ snapshots' = [snapshots EXCEPT ![t].suspicious = << >>]
  /\ Materialize(t, c)

RefreshSuspicious(t, c) ==
  /\ HasTrusted(t) /\ c # Trusted(t)
  /\ IsSuspicious(Trusted(t), c) /\ ~ Confirmed(t, c)
  /\ snapshots' = [snapshots EXCEPT ![t].suspicious = Newest(<< c >> \o @, MaxCandidates)]
  /\ UNCHANGED availability

RefreshTrusted(t, c) ==
  /\ HasTrusted(t) /\ c # Trusted(t)
  /\ IsSuspicious(Trusted(t), c) => Confirmed(t, c)
  /\ Promote(t, c)

RefreshComplete(t, c) ==
  /\ \/ RefreshFirst(t, c) \/ RefreshUnchanged(t, c)
     \/ RefreshSuspicious(t, c) \/ RefreshTrusted(t, c)
  /\ lastComplete' = [lastComplete EXCEPT ![t] = c]

-----------------------------------------------------------------------------
(* trust_catalog(): the user trusts a complete snapshot                    *)

TrustCandidate(t) == \E i \in DOMAIN snapshots[t].suspicious :
  /\ Promote(t, snapshots[t].suspicious[i])
  /\ UNCHANGED lastComplete

(* It is demoted and promoted again; the previous one is lost.             *)
TrustCurrent(t) ==
  /\ HasTrusted(t)
  /\ snapshots' = [snapshots EXCEPT ![t] = Promoted([@ EXCEPT !.current = << >>], Head(@.current))]
  /\ Materialize(t, Trusted(t))
  /\ UNCHANGED lastComplete

(* It is deleted as the previous one before it can be promoted: the track  *)
(* has no trusted catalog any more.                                        *)
TrustPrevious(t) ==
  /\ snapshots[t].previous # << >>
  /\ snapshots' = [snapshots EXCEPT ![t] = Demoted(@)]
  /\ Materialize(t, Head(snapshots[t].previous))
  /\ UNCHANGED lastComplete

-----------------------------------------------------------------------------
(* Properties                                                              *)

CatalogTypeOK ==
  /\ snapshots \in [Tracks -> [current : Seq(SUBSET Units), previous : Seq(SUBSET Units),
                               suspicious : Seq(SUBSET Units)]]
  /\ availability \in [Tracks -> [Units -> {"unknown", "available", "unavailable"}]]
  /\ lastComplete \in [Tracks -> {None} \cup SUBSET Units]

(* A track never has two trusted catalogs, nor two previous ones, whatever *)
(* the user trusts.  Its candidates are bounded in number, and each is     *)
(* suspicious beside the trusted catalog as it is now: _snapshot, which    *)
(* takes the newest of several, always has the right one.                  *)
OneTrustedCatalog ==
  \A t \in Tracks : LET s == snapshots[t] IN
    /\ Len(s.current) <= 1 /\ Len(s.previous) <= 1 /\ Len(s.suspicious) <= MaxCandidates
    /\ \A i \in DOMAIN s.suspicious : HasTrusted(t) /\ IsSuspicious(Trusted(t), s.suspicious[i])

(* The reading units that are available are those of the trusted catalog,  *)
(* unless that is empty.                                                   *)
UnitsReflectCatalog ==
  \A t \in Tracks : HasTrusted(t) /\ Trusted(t) # {} =>
    {u \in Units : availability[t][u] = "available"} = Trusted(t)

(* A complete answer that differs from the complete answer before it never *)
(* takes so much from the trusted catalog as to be suspicious: that takes  *)
(* two answers in a row that agree, or the user.                           *)
LossIsConfirmed ==
  [][\A t \in Tracks : lastComplete'[t] # lastComplete[t] /\ HasTrusted(t) =>
       HasTrusted(t)' /\ ~ IsSuspicious(Trusted(t), Trusted(t)')]_catalogVars

=============================================================================
