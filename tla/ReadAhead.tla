------------------------------- MODULE ReadAhead -------------------------------
(* Downloads that reading starts (reader/service.py, record_engagement and       *)
(* leaving_work) beside those the user asks for (downloads/engine.py, enqueue,   *)
(* cancel_job, retry_job): the units of one track, in its order, one reader.     *)
EXTENDS Naturals, Sequences, FiniteSets

CONSTANTS
  LastUnit,        \* the units of the track are 1 .. LastUnit
  UnitsAhead,      \* the setting reader.auto_download.read_ahead
  NotReading,      \* _reading has nothing for the work
  MaxDownloads     \* bound: jobs ever made

ASSUME DownloadsAssumption ==
  /\ LastUnit \in Nat /\ UnitsAhead \in Nat /\ MaxDownloads \in Nat /\ NotReading \notin 1 .. LastUnit

VARIABLES
  downloads,       \* download_jobs in the order they were made: [unit, state, ahead, by]
  copies,          \* units with a sound copy on record and on disk
  reading,         \* _reading: the unit last reported for the work
  readerOpen,      \* the app shows the reader
  userRetried      \* the user retried a download

readAheadVars == <<downloads, copies, reading, readerOpen, userRetried>>

TrackUnits == 1 .. LastUnit
DownloadIds == 1 .. Len(downloads)

ReadAheadInit ==
  /\ downloads = <<>> /\ copies \in SUBSET TrackUnits /\ reading = NotReading /\ readerOpen = FALSE
  /\ userRetried = FALSE

(* "ahead" is the batch's reader_read_ahead, "by" who asked for the batch. A     *)
(* job that began is active, waits or recovers; one that ended failed or was     *)
(* canceled.                                                                     *)
Downloads ==
  [unit : TrackUnits, state : {"queued", "begun", "completed", "ended"},
   ahead : BOOLEAN, by : {"reader", "user"}]

ReadAheadTypeOK ==
  /\ downloads \in Seq(Downloads) /\ Len(downloads) <= MaxDownloads
  /\ \A i \in DownloadIds : downloads[i].ahead => downloads[i].by = "reader"
  /\ copies \subseteq TrackUnits
  /\ reading # NotReading => reading \in TrackUnits
  /\ readerOpen \in BOOLEAN /\ userRetried \in BOOLEAN

-----------------------------------------------------------------------------
JobsOf(u) == {i \in DownloadIds : downloads[i].unit = u}
InState(states) == {i \in DownloadIds : downloads[i].state \in states}

QueuedOnly(u) == JobsOf(u) \cap InState({"queued"}) # {}    \* mutant: those that began are forgotten
ActiveJob(u) == JobsOf(u) \cap InState({"queued", "begun"}) # {}
NeedsDownload(u) == u \notin copies /\ JobsOf(u) \subseteq InState({"ended"})

(* A batch: the units without a copy and without a job of their own get one.     *)
Enqueue(units, ahead, by) ==
  LET new == {u \in units : u \notin copies /\ ~ActiveJob(u)}
      count == Cardinality(new) IN
  /\ Len(downloads) + count <= MaxDownloads
  /\ \E queued \in [1 .. count -> new] :
       /\ \A m, n \in 1 .. count : m < n => queued[m] < queued[n]         \* in the order of the track
       /\ downloads' = downloads \o
            [n \in 1 .. count |-> [unit |-> queued[n], state |-> "queued", ahead |-> queued[n] \in ahead, by |-> by]]

(* What is read far enough is downloaded, and the units that follow.             *)
Following(u) == {v \in TrackUnits : u < v /\ v <= u + UnitsAhead}

Engage(u) ==
  /\ reading' = u /\ readerOpen' = TRUE
  /\ \/ UNCHANGED downloads
     \/ LET units == {v \in {u} \cup Following(u) : NeedsDownload(v)}
        IN units # {} /\ Enqueue(units, units \ {u}, "reader")
  /\ UNCHANGED <<copies, userRetried>>

(* Leaving cancels what was read ahead and has not begun, but for the unit that  *)
(* was read.                                                                     *)
AheadOfAnyBatch(i) == \E j \in JobsOf(downloads[i].unit) : downloads[j].ahead    \* mutant: not of its own batch
\* mutant: only what follows
OnlyAhead(i) == downloads[i].ahead /\ reading # NotReading /\ downloads[i].unit > reading
ReadAheadJob(i) == downloads[i].ahead

LeavesBehind == {i \in InState({"queued"}) : ReadAheadJob(i) /\ downloads[i].unit # reading}

LeaveWork ==
  /\ readerOpen /\ readerOpen' = FALSE /\ reading' = NotReading
  /\ downloads' = [i \in DownloadIds |->
                     IF i \in LeavesBehind THEN [downloads[i] EXCEPT !.state = "ended"] ELSE downloads[i]]
  /\ UNCHANGED <<copies, userRetried>>

-----------------------------------------------------------------------------
UserDownloads(u) ==
  /\ Enqueue({u}, {}, "user")
  /\ UNCHANGED <<copies, reading, readerOpen, userRetried>>

Moves(i, from, to) ==
  /\ downloads[i].state \in from
  /\ downloads' = [downloads EXCEPT ![i].state = to]
  /\ UNCHANGED <<reading, readerOpen>>

UserCancels(i) == Moves(i, {"queued", "begun"}, "ended") /\ UNCHANGED <<copies, userRetried>>
UserRetriesJob(i) == Moves(i, {"ended"}, "queued") /\ userRetried' = TRUE /\ UNCHANGED copies

(* The user deletes the file and its record; the job stays completed.            *)
DeleteCopy(u) ==
  /\ u \in copies /\ copies' = copies \ {u}
  /\ UNCHANGED <<downloads, reading, readerOpen, userRetried>>

StartJob(i) == Moves(i, {"queued"}, "begun") /\ UNCHANGED <<copies, userRetried>>
EndJob(i) ==
  /\ UNCHANGED userRetried
  /\ \/ Moves(i, {"begun"}, "completed") /\ copies' = copies \cup {downloads[i].unit}
     \/ Moves(i, {"begun"}, "ended") /\ UNCHANGED copies

(* The jobs that began are recovered; what is read is forgotten.                 *)
RestartProgram ==
  /\ reading' = NotReading
  /\ UNCHANGED <<downloads, copies, readerOpen, userRetried>>

ReadAheadNext ==
  \/ \E u \in TrackUnits : Engage(u) \/ UserDownloads(u) \/ DeleteCopy(u)
  \/ \E i \in DownloadIds : UserCancels(i) \/ UserRetriesJob(i) \/ StartJob(i) \/ EndJob(i)
  \/ LeaveWork \/ RestartProgram

-----------------------------------------------------------------------------
(* Whoever asks for a unit, and however often, it is downloaded once: a copy and *)
(* the jobs that still make one are at most one, unless the user retries a job   *)
(* beside another (enqueue looks for those, retry_job does not).                 *)
NeverTwice ==
  ~userRetried => \A u \in TrackUnits :
    Cardinality(JobsOf(u) \cap InState({"queued", "begun"})) + (IF u \in copies THEN 1 ELSE 0) <= 1

(* When the work was left, at most the unit that was read is still to begin of   *)
(* what the reader asked for ahead ("Not-yet-started read-ahead jobs are         *)
(* cancelled; the current unit may finish", reader/service.py:635), whatever     *)
(* batches it was asked for in and whether the program was restarted.            *)
NothingForNobody ==
  (~readerOpen /\ ~userRetried) => Cardinality({i \in InState({"queued"}) : downloads[i].ahead}) <= 1

(* Leaving never takes away what the user asked for, of whatever unit, not even  *)
(* after the reader had asked for the same one.                                  *)
OwnDownloadsStay ==
  [][(readerOpen /\ ~readerOpen') => \A i \in DownloadIds :
       downloads[i].by = "user" => downloads'[i] = downloads[i]]_readAheadVars
=============================================================================
