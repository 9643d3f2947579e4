--------------------------- MODULE DiagnosticsStore ----------------------------
(* The local store of operational records (diagnostics/store.py): one file for   *)
(* each day, to which the log handler appends, and which are dropped by their    *)
(* age and by the size of all, when the program starts and whenever a day's file *)
(* is large. Records are numbered in the order in which they are written.        *)
EXTENDS Naturals, FiniteSets

CONSTANTS
  SegmentSize,      \* _SEGMENT_BYTES, in records: a day's file from which on it is rotated
  MaxSize,          \* diagnostics.max_bytes, in records
  MaxAge,           \* diagnostics.max_age, in days
  LastDay,          \* bound: days
  LastRecord        \* bound: records

ASSUME DiagnosticsAssumption ==
  {SegmentSize, MaxSize, MaxAge, LastDay, LastRecord} \subseteq Nat /\ SegmentSize # 0 /\ LastDay # 0

VARIABLES
  today,
  lastRecord,       \* the number of records written
  segments,         \* the records in each day's file; none when there is no file
  cleared,          \* the last record that was written when the user cleared the store
  restarted         \* the store was opened and rotated, and nothing has been recorded since

diagnosticsVars == <<today, lastRecord, segments, cleared, restarted>>

Days == 1 .. LastDay

DiagnosticsInit ==
  /\ today = 1 /\ lastRecord = 0 /\ segments = [d \in Days |-> {}]
  /\ cleared = 0 /\ restarted = TRUE

DiagnosticsTypeOK ==
  /\ today \in Days /\ lastRecord \in 0 .. LastRecord /\ cleared \in 0 .. lastRecord
  /\ segments \in [Days -> SUBSET (1 .. lastRecord)]
  /\ restarted \in BOOLEAN

-----------------------------------------------------------------------------
Records(log) == UNION {log[d] : d \in Days}
OldestOf(n, records) == {x \in records : Cardinality({y \in records : y <= x}) <= n}  \* mutant: cut from the end
NewestOf(n, records) == {x \in records : Cardinality({y \in records : y >= x}) <= n}
From(day, log) == [d \in Days |-> IF d < day THEN {} ELSE log[d]]
Fits(log) == Cardinality(Records(log)) <= MaxSize

(* rotate(): the days that are too old; of the others the oldest, until the rest *)
(* fits; of a single one that does not, the oldest records.                      *)
TooOld(log) == [d \in Days |-> IF d + MaxAge < today THEN {} ELSE log[d]]

Fitted(log) ==
  LET newest == CHOOSE d \in Days : log[d] # {} /\ \A e \in Days : log[e] # {} => e <= d
  IN IF Fits(log) THEN log
     ELSE IF ~Fits(From(newest, log)) THEN [From(newest, log) EXCEPT ![newest] = NewestOf(MaxSize, @)]
     ELSE From(CHOOSE d \in Days : Fits(From(d, log)) /\ ~Fits(From(d - 1, log)), log)
Rotated(log) == Fitted(TooOld(log))

(* record(): a line at the end of today's file; a large file rotates the store.  *)
RotatesNever(log) == log            \* mutant: only a start rotates
AfterRecord(log) == IF Cardinality(log[today]) >= SegmentSize THEN Rotated(log) ELSE log

RecordEntry ==
  /\ lastRecord < LastRecord /\ lastRecord' = lastRecord + 1
  /\ segments' = AfterRecord([segments EXCEPT ![today] = @ \cup {lastRecord'}])
  /\ restarted' = FALSE
  /\ UNCHANGED <<today, cleared>>

OpenStore ==
  /\ ~restarted /\ restarted' = TRUE
  /\ segments' = Rotated(segments)
  /\ UNCHANGED <<today, lastRecord, cleared>>

ClearStore ==
  /\ Records(segments) # {} /\ segments' = [d \in Days |-> {}] /\ cleared' = lastRecord
  /\ UNCHANGED <<today, lastRecord, restarted>>

DayPasses ==
  /\ today < LastDay /\ today' = today + 1
  /\ UNCHANGED <<lastRecord, segments, cleared, restarted>>

DiagnosticsNext == RecordEntry \/ OpenStore \/ ClearStore \/ DayPasses

-----------------------------------------------------------------------------
(* "Oldest first, both times", "the newest records survive": what is kept is     *)
(* what was written last, without a gap, whatever was dropped, trimmed, cleared. *)
NewestSurvive ==
  LET left == Records(segments) IN \A x \in left : x > cleared /\ (x + 1) .. lastRecord \subseteq left

(* A day that writes much never lets the store grow past its size and age.       *)
BusyDaysAreBounded ==
  Cardinality(segments[today]) >= SegmentSize =>
    Fits(segments) /\ \A d \in Days : segments[d] # {} => d + MaxAge >= today

(* "kept for at most seven days": refuted, nothing rotates the store on days     *)
(* that write little, however long the program runs.                             *)
AgeIsBounded == \A d \in Days : segments[d] # {} => d + MaxAge >= today
=============================================================================
