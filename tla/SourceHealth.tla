----------------------------- MODULE SourceHealth -----------------------------
(* The health of one capability of a source: signals are recorded by every use   *)
(* (sources/health.py, sources/service.py), and read with thresholds and         *)
(* hysteresis when somebody looks (health/service.py).                           *)
EXTENDS Naturals, Sequences, FiniteSets

CONSTANTS
  DegradedAfter, UnavailableAfter, RecoverySuccesses, Window,   \* the constants of health/service.py
  MaxSignals      \* MAX_SIGNALS_PER_CAPABILITY

ASSUME HealthAssumption ==
  {DegradedAfter, UnavailableAfter, RecoverySuccesses, Window, MaxSignals} \subseteq Nat \ {0}

VARIABLES
  signals,    \* source_health_signals, newest first
  health      \* source_health_state: what the last look stored, "none" before the first

healthVars == <<signals, health>>

(* The outcome "failure" is split by what its category means to the state.       *)
Direct == [rate_limit |-> "rate_limited", auth_failure |-> "reconnect_required",
           catalog_validation_failure |-> "catalog_suspicious"]
Failed == {"failure"} \cup DOMAIN Direct
Outcomes == {"success", "content_missing"} \cup Failed
Severity == <<"healthy", "unknown", "rate_limited", "reconnect_required", "catalog_suspicious",
              "degraded", "unavailable">>
Rank(s) == CHOOSE i \in DOMAIN Severity : Severity[i] = s

HealthInit == signals = << >> /\ health = "none"

HealthTypeOK ==
  /\ signals \in Seq(Outcomes) /\ Len(signals) <= MaxSignals
  /\ health \in {"none"} \cup {Severity[i] : i \in DOMAIN Severity}

(* Only the latest are kept, and read.                                           *)
Capped(s, n) == SubSeq(s, 1, IF Len(s) < n THEN Len(s) ELSE n)

(* record_signal(): the newest first; those past their age go with it.           *)
Signal(o) ==
  /\ \E young \in 0..Len(signals) : signals' = Capped(<<o>> \o SubSeq(signals, 1, young), MaxSignals)
  /\ UNCHANGED health

(* A signal of another source ages these away too.                               *)
SignalsAge == \E young \in 0..(Len(signals) - 1) : signals' = SubSeq(signals, 1, young) /\ UNCHANGED health

(* One item that is missing is not a failure of its source.                      *)
IsMeaningful(o) == o # "content_missing"
Meaningful(s) == {i \in DOMAIN s : i <= Window /\ IsMeaningful(s[i])}
Latest(s) == s[CHOOSE i \in Meaningful(s) : \A j \in Meaningful(s) : i <= j]

(* The run of failures, or of successes, that comes first.                       *)
Run(s, S) == {i \in Meaningful(s) : \A j \in Meaningful(s) : j <= i => s[j] \in S}
FailuresInAll(s) == Cardinality({i \in Meaningful(s) : s[i] \in Failed})     \* mutant: wherever they are
Failures(s) == Cardinality(Run(s, Failed))
Successes(s) == Cardinality(Run(s, Outcomes \ Failed))

StateOf(s, previous) ==
  LET uses == Cardinality(Meaningful(s)) IN
  IF s = << >> THEN "unknown"
  ELSE IF uses = 0 \/ Successes(s) >= RecoverySuccesses \/ (Successes(s) > 0 /\ uses < RecoverySuccesses) THEN "healthy"
  ELSE IF Failures(s) = 0 THEN (IF previous = "none" THEN "healthy" ELSE previous)
  ELSE IF Latest(s) \in DOMAIN Direct THEN Direct[Latest(s)]
  ELSE IF Failures(s) >= UnavailableAfter THEN "unavailable"
  ELSE IF Failures(s) >= DegradedAfter THEN "degraded" ELSE "healthy"

(* evaluate(): the state is computed and stored when somebody looks.             *)
Look ==
  /\ signals # << >>
  /\ health' = StateOf(signals, health)
  /\ UNCHANGED signals

HealthNext == (\E o \in Outcomes : Signal(o)) \/ SignalsAge \/ Look
HealthSpec == HealthInit /\ [][HealthNext]_healthVars

-----------------------------------------------------------------------------
(* Properties.                                                                   *)

(* The newest uses that say something, n or more of them, were all in S.         *)
NewestAre(n, S) ==
  \E k \in DOMAIN signals :
    LET uses == {i \in 1 .. k : IsMeaningful(signals[i])} IN Cardinality(uses) >= n /\ \A i \in uses : signals[i] \in S

(* A source never looks worse than before unless the newest use that says        *)
(* something failed, and degraded or unavailable only after as many failures in  *)
(* a row; items that are missing never count (health/service.py:4).              *)
WorseOnlyByFailures ==
  [][health' # health /\ health # "none" /\ Rank(health') > Rank(health) =>
       /\ NewestAre(1, Failed)
       /\ health' = "degraded" => NewestAre(DegradedAfter, Failed)
       /\ health' = "unavailable" => NewestAre(UnavailableAfter, Failed)]_healthVars

(* "recovery needs repeated success" (health/service.py:5): a source that was    *)
(* degraded or unavailable is healthy again only after successes in a row.       *)
RecoveryIsEarned ==
  [][(health' = "healthy" /\ health \in {"degraded", "unavailable"})
       => NewestAre(RecoverySuccesses, {"success"})]_healthVars
=============================================================================
