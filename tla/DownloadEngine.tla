---------------------------- MODULE DownloadEngine ----------------------------
(***************************************************************************)
(* The download queue of OneShelf: the jobs in the database, the runner    *)
(* that starts a window of them, the task that works on each of them, the  *)
(* worker threads that commit artifacts (downloads/engine.py, runner.py,   *)
(* contract.py, services/startup.py), and the user who cancels, retries,   *)
(* pauses and reorders meanwhile.                                          *)
(*                                                                         *)
(* Tasks and request handlers share one event loop: what happens between   *)
(* two awaits is one action.  A commit runs in a thread with a connection  *)
(* of its own, and neither the loop nor a cancellation waits for it.       *)
(*                                                                         *)
(* What a job downloads, and the staging area it downloads into, are not   *)
(* modelled here; the steps of a commit are CommitJournal's, and appear    *)
(* here as far as they change a job.                                       *)
(***************************************************************************)
EXTENDS Naturals, Sequences, FiniteSets

CONSTANTS
  Jobs, Units, Batches,
  Calls,           (* calls of CommitEngine.commit                         *)
  Methods, None,
  UnitOf, BatchOf, (* of each job                                          *)
  OutputOf,        (* "pages", "text" or "file"                            *)
  ModeOf,          (* "strict", "automatic" or "preferred_ask"             *)
  FirstMethod,     (* the extraction method a contract starts with         *)
  FallbackOrder,   (* the methods to fall back to, in order                *)
  NeedsSession,    (* jobs of a source that needs a signed-in session      *)
  Cancellable,     (* jobs the user may cancel                             *)
  RetryFrom,       (* states from which the user retries a job             *)
  Handled,         (* batches the user pauses, resumes and reorders        *)
  Concurrency,     (* the size of the window, and of the semaphore         *)
  RetryBudget,     (* attempts of one method                               *)
  MaxCrashes, MaxFails, MaxRetries, MaxLosses, MaxLateErrors

Active   == {"PREPARING", "DOWNLOADING", "VERIFYING", "PACKAGING", "COMMITTING"}
Waiting  == {"RETRY_WAIT", "WAITING_FOR_RATE_LIMIT", "WAITING_FOR_SESSION"}
Runnable == {"QUEUED", "RECOVERING"} \cup Waiting
Ended    == {"COMPLETED", "FAILED", "CANCELED"}
States   == {"new"} \cup Active \cup Runnable \cup Ended

(* "running": nothing persisted yet; "open": the journal entry is open;    *)
(* "stuck": it is open and nobody works on it; "registered": the row is    *)
(* written; "late": written, but the call failed afterwards.               *)
Stages == {"running", "open", "stuck", "registered", "late", "done", "refused"}

ASSUME ConstantsAssumption ==
  /\ IsFiniteSet(Jobs)
  /\ UnitOf \in [Jobs -> Units] /\ BatchOf \in [Jobs -> Batches]
  /\ OutputOf \in [Jobs -> {"pages", "text", "file"}]
  /\ ModeOf \in [Jobs -> {"strict", "automatic", "preferred_ask"}]
  /\ FirstMethod \in Methods /\ FallbackOrder \in Seq(Methods)
  /\ NeedsSession \subseteq Jobs /\ Cancellable \subseteq Jobs
  /\ RetryFrom \subseteq States \ {"new"} /\ Handled \subseteq Batches
  /\ Concurrency \in Nat \ {0} /\ RetryBudget \in Nat
  /\ {MaxCrashes, MaxFails, MaxRetries, MaxLosses, MaxLateErrors} \subseteq Nat
  /\ None \notin Calls \cup Jobs
  /\ None \notin [job : Jobs, fresh : BOOLEAN, stage : Stages]
  /\ None \notin [job : Jobs, seen : States, step : {"write", "record"}]

VARIABLES
  (* The database. *)
  state,      (* download_jobs.state; "new" before the job is queued       *)
  position,   (* queue_position                                            *)
  attempts,   (* attempts of the present method                            *)
  due,        (* next_attempt_at is not set, or has passed                 *)
  attempted,  (* attempted_methods of the extraction contract              *)
  history,    (* the outcome in download_history, or "none"                *)
  paused,     (* batches                                                   *)
  copy,       (* the unit's asset row: "none", "sound" or "broken"         *)
  call,       (* each commit call: its job, whether it registers a new row *)
              (* and how far it is; None before it is made                 *)
  (* The process. *)
  mode,       (* "down", "recovering", "starting" or "up"                  *)
  todo,       (* calls whose journal entries recovery has still to replay  *)
  runner,     (* "off", "on" or "dead": DownloadRunner._loop               *)
  pass,       (* the tasks run_once is waiting for                         *)
  pc,         (* where each job's task awaits; "none" if it has none       *)
  stopping,   (* jobs whose task has been told to stop                     *)
  mine,       (* the commit call that each task awaits                     *)
  toCancel,   (* jobs that the present request has still to cancel         *)
  cancel,     (* the cancel_job in progress, or None                       *)
  (* The environment. *)
  session,    (* is the source's session connected?                        *)
  crashes, fails, retries, losses, lateErrors

queue == <<position, attempts, due, attempted>>
tasks == <<runner, pass, pc, stopping, mine>>
asked == <<toCancel, cancel>>
env   == <<session, crashes, fails, retries, losses, lateErrors>>
vars  == <<state, queue, history, paused, copy, call, mode, todo, tasks, asked, env>>

PCs == {"none", "start", "prepare", "download", "verify", "package", "hash", "commit"}

-----------------------------------------------------------------------------
Init ==
  /\ state = [j \in Jobs |-> "new"]
  /\ position = [j \in Jobs |-> 0]
  /\ attempts = [j \in Jobs |-> 0]
  /\ due = [j \in Jobs |-> TRUE]
  /\ attempted = [j \in Jobs |-> {FirstMethod}]
  /\ history = [j \in Jobs |-> "none"]
  /\ paused = {}
  /\ copy \in [Units -> {"none", "broken"}]
  /\ call = [k \in Calls |-> None]
  /\ mode = "up" /\ todo = {}
  /\ runner = "on" /\ pass = {}
  /\ pc = [j \in Jobs |-> "none"]
  /\ stopping = {}
  /\ mine = [j \in Jobs |-> None]
  /\ toCancel = {} /\ cancel = None
  /\ session \in BOOLEAN /\ (session => NeedsSession # {})
  /\ crashes = 0 /\ fails = 0 /\ retries = 0 /\ losses = 0 /\ lateErrors = 0

(* The event loop runs the next handler or task; cancel_job is the one     *)
(* handler that is more than one action, because threads may run between   *)
(* its transactions.                                                       *)
LoopFree == mode = "up" /\ toCancel = {} /\ cancel = None

SetState(j, s) == state' = [state EXCEPT ![j] = s]
Goto(j, where) == pc' = [pc EXCEPT ![j] = where]

(* Mistake: the state of the job is recorded as the outcome.               *)
RecordState(j, outcome) == history' = [history EXCEPT ![j] = state[j]]

(* INSERT OR IGNORE with the job as the key: the first outcome stays.      *)
Record(j, outcome) ==
  history' = [history EXCEPT ![j] = IF @ = "none" THEN outcome ELSE @]

-----------------------------------------------------------------------------
(* enqueue(): a unit that has a sound copy or a job under way is skipped.  *)

HasJobUnderWay(u) == \E j \in Jobs : UnitOf[j] = u /\ state[j] \in Active \cup Runnable

Enqueue(j) ==
  /\ LoopFree /\ state[j] = "new"
  /\ copy[UnitOf[j]] # "sound" /\ ~HasJobUnderWay(UnitOf[j])
  /\ SetState(j, "QUEUED")
  /\ \E last \in Jobs : /\ \A i \in Jobs : position[i] <= position[last]
                        /\ position' = [position EXCEPT ![j] = position[last] + 1]
  /\ UNCHANGED <<attempts, due, attempted, history, paused, copy, call, mode, todo, tasks,
                 asked, env>>

(* The file of a registered copy is lost, and marked (by a storage scan or *)
(* when the unit is downloaded again).                                     *)
LoseCopy(u) ==
  /\ LoopFree /\ copy[u] = "sound" /\ losses < MaxLosses
  /\ copy' = [copy EXCEPT ![u] = "broken"]
  /\ losses' = losses + 1
  /\ UNCHANGED <<state, queue, history, paused, call, mode, todo, tasks, asked,
                 session, crashes, fails, retries, lateErrors>>

-----------------------------------------------------------------------------
(* run_once(): the first jobs of the queue; those whose worker has not     *)
(* stopped and those whose session is missing are left out afterwards.     *)

Eligible == {j \in Jobs : state[j] \in Runnable /\ BatchOf[j] \notin paused /\ due[j]}

(* Mistake: no two jobs are expected at the same position.                 *)
StrictWindow(W) ==
  /\ W \subseteq Eligible
  /\ Cardinality(W) = IF Cardinality(Eligible) < Concurrency
                        THEN Cardinality(Eligible) ELSE Concurrency
  /\ \A j \in W, i \in Eligible \ W : position[j] < position[i]

Window(W) ==
  /\ W \subseteq Eligible
  /\ Cardinality(W) = IF Cardinality(Eligible) < Concurrency
                        THEN Cardinality(Eligible) ELSE Concurrency
  /\ \A j \in W, i \in Eligible \ W : position[j] <= position[i]

CanStart(j) == pc[j] = "none" /\ (state[j] = "WAITING_FOR_SESSION" => session)

RunOnce ==
  /\ LoopFree /\ runner = "on" /\ pass = {}
  /\ \E W \in SUBSET Eligible :
       /\ Window(W)
       /\ pass' = {j \in W : CanStart(j)}
  /\ pass' # {}
  /\ pc' = [j \in Jobs |-> IF j \in pass' THEN "start" ELSE pc[j]]
  /\ UNCHANGED <<state, queue, history, paused, copy, call, mode, todo, runner, stopping,
                 mine, asked, env>>

(* guarded(): a task ends, and is taken out of engine._tasks.              *)
TaskEnds(j) ==
  /\ Goto(j, "none")
  /\ pass' = pass \ {j}
  /\ stopping' = stopping \ {j}
  /\ mine' = [mine EXCEPT ![j] = None]

(* A task runs on, unless it has been told to stop.                        *)
Resumes(j, where) == LoopFree /\ pc[j] = where /\ j \notin stopping

(* Every change of state by a task looks first whether the job has been    *)
(* canceled.                                                               *)
Proceed(j, s, where) ==
  /\ state[j] # "CANCELED"
  /\ SetState(j, s)
  /\ Goto(j, where)
  /\ UNCHANGED <<position, due, attempted, history, paused, copy, call, mode, todo, runner,
                 pass, stopping, mine, asked, env>>

Start(j) ==
  /\ Resumes(j, "start")
  /\ Proceed(j, "PREPARING", "prepare")
  /\ attempts' = [attempts EXCEPT ![j] = @ + 1]

(* The change of state that is refused raises CancelledError, and the task *)
(* ends.                                                                   *)
NoticeCanceled(j) ==
  /\ \E where \in {"start", "prepare", "download", "verify", "package"} : Resumes(j, where)
  /\ state[j] = "CANCELED"
  /\ TaskEnds(j)
  /\ UNCHANGED <<state, queue, history, paused, copy, call, mode, todo, runner, asked, env>>

(* The list of resources is there.  A text is written without waiting for *)
(* anything more, pages and files are fetched.                             *)
Prepared(j) ==
  /\ Resumes(j, "prepare")
  /\ IF OutputOf[j] = "text" THEN Proceed(j, "COMMITTING", "hash")
                             ELSE Proceed(j, "DOWNLOADING", "download")
  /\ UNCHANGED attempts

Downloaded(j) ==
  /\ Resumes(j, "download")
  /\ IF OutputOf[j] = "pages" THEN Proceed(j, "PACKAGING", "package")
                              ELSE Proceed(j, "VERIFYING", "verify")
  /\ UNCHANGED attempts

Validated(j) ==
  /\ Resumes(j, "verify") \/ Resumes(j, "package")
  /\ Proceed(j, "COMMITTING", "hash")
  /\ UNCHANGED attempts

(* _commit(): the asset row is read, and the call goes to a thread.        *)
StartCommit(j, k) ==
  /\ Resumes(j, "hash") /\ copy[UnitOf[j]] # "sound"
  /\ call[k] = None
  /\ call' = [call EXCEPT ![k] = [job |-> j, fresh |-> copy[UnitOf[j]] = "none",
                                  stage |-> "running"]]
  /\ mine' = [mine EXCEPT ![j] = k]
  /\ Goto(j, "commit")
  /\ UNCHANGED <<state, queue, history, paused, copy, mode, todo, runner, pass, stopping,
                 asked, env>>

CommitReturned(j) ==
  /\ Resumes(j, "commit") /\ call[mine[j]].stage = "done"
  /\ TaskEnds(j)
  /\ UNCHANGED <<state, queue, history, paused, copy, call, mode, todo, runner, asked, env>>

-----------------------------------------------------------------------------
(* A failure of an attempt.  Categories: "terminal" (the same request can  *)
(* only fail again), "auth" and "rate" (wait), "method" (another method    *)
(* may help) and "other" (nothing but another attempt may).                *)

Categories == {"terminal", "auth", "rate", "method", "other"}

Untried(j) == {i \in DOMAIN FallbackOrder : FallbackOrder[i] \notin attempted[j]}

NextFallback(j) == FallbackOrder[CHOOSE i \in Untried(j) : \A h \in Untried(j) : i <= h]

(* Mistake: one attempt too many.                                          *)
NextMethodTooLate(j, category) ==
  CASE category = "terminal" -> "fail"
    [] category = "auth"     -> "wait_for_session"
    [] category = "rate"     -> "wait_for_rate_limit"
    [] category \in {"method", "other"} /\ attempts[j] <= RetryBudget -> "retry"
    [] OTHER -> "fail"

(* Smart retry stays with the present method; only then is a change of     *)
(* method considered, and only for failures that another method may fix.   *)
NextMethod(j, category) ==
  LET exhausted == attempts[j] >= RetryBudget
  IN  CASE category = "terminal" -> "fail"
        [] category = "auth"     -> "wait_for_session"
        [] category = "rate"     -> "wait_for_rate_limit"
        [] category \in {"method", "other"} /\ ~exhausted -> "retry"
        [] category = "other" /\ exhausted  -> "fail"
        [] category = "method" /\ exhausted ->
             CASE ModeOf[j] = "strict"        -> "fail"
               [] ModeOf[j] = "preferred_ask" -> "ask"
               [] ModeOf[j] = "automatic"     ->
                    IF Untried(j) = {} THEN "fail" ELSE "fallback"

(* _handle_failure(), _set_state() included.                               *)
HandleFailure(j, category) ==
  /\ state[j] # "CANCELED"
  /\ LET action == NextMethod(j, category)
     IN  /\ SetState(j, CASE action = "retry"               -> "RETRY_WAIT"
                          [] action = "wait_for_session"    -> "WAITING_FOR_SESSION"
                          [] action = "wait_for_rate_limit" -> "WAITING_FOR_RATE_LIMIT"
                          [] action = "fallback"            -> "QUEUED"
                          [] action \in {"fail", "ask"}     -> "FAILED")
         /\ due' = [due EXCEPT ![j] = CASE action \in {"retry", "wait_for_rate_limit"} -> FALSE
                                        [] action = "wait_for_session" -> TRUE
                                        [] OTHER -> @]
         /\ attempts' = IF action \in {"wait_for_session", "wait_for_rate_limit", "fallback"}
                          THEN [attempts EXCEPT ![j] = 0] ELSE attempts
         /\ attempted' = IF action = "fallback"
                           THEN [attempted EXCEPT ![j] = @ \cup {NextFallback(j)}]
                           ELSE attempted
         /\ IF action \in {"fail", "ask"} THEN Record(j, "failed") ELSE UNCHANGED history
  /\ TaskEnds(j)
  /\ UNCHANGED <<position, paused, copy, call, mode, todo, runner, asked>>

Reasons(where) ==
  CASE where = "prepare"  -> Categories
    [] where = "download" -> Categories
    [] where = "verify"   -> {"method"}
    [] where = "package"  -> {"method", "other"}
    [] where = "hash"     -> {"terminal", "other"}

(* A source, a validator or the storage location lets the attempt down.    *)
AttemptFails(j, category) ==
  /\ \E where \in {"prepare", "download", "verify", "package", "hash"} :
       Resumes(j, where) /\ category \in Reasons(where)
  /\ category = "auth" => j \in NeedsSession /\ ~session
  /\ fails < MaxFails /\ fails' = fails + 1
  /\ HandleFailure(j, category)
  /\ UNCHANGED <<session, crashes, retries, losses, lateErrors>>

(* "this reading unit already has a sound copy in that format"             *)
AlreadyThere(j) ==
  /\ Resumes(j, "hash") /\ copy[UnitOf[j]] = "sound"
  /\ HandleFailure(j, "other")
  /\ UNCHANGED env

(* Mistake: only a refusal is taken care of.                               *)
CommitRefused(j) ==
  /\ Resumes(j, "commit") /\ call[mine[j]].stage \in {"refused", "stuck", "late"}
  /\ IF call[mine[j]].stage = "refused"
       THEN HandleFailure(j, "other")
       ELSE /\ TaskEnds(j)
            /\ UNCHANGED <<state, queue, history, paused, copy, call, mode, todo, runner,
                           asked>>
  /\ UNCHANGED env

CommitFailed(j) ==
  /\ Resumes(j, "commit") /\ call[mine[j]].stage \in {"refused", "stuck", "late"}
  /\ HandleFailure(j, "other")
  /\ UNCHANGED env

(* Time passes: next_attempt_at is reached.                                *)
BecomesDue(j) ==
  /\ mode = "up" /\ ~due[j]
  /\ due' = [due EXCEPT ![j] = TRUE]
  /\ UNCHANGED <<state, position, attempts, attempted, history, paused, copy, call, mode,
                 todo, tasks, asked, env>>

-----------------------------------------------------------------------------
(* The threads that commit: they run while the loop does something else,   *)
(* and whether or not anybody still awaits them.                           *)

Stage(k, stage) == call' = [call EXCEPT ![k].stage = stage]
At(k, stage)    == mode = "up" /\ call[k] # None /\ call[k].stage = stage

(* Another row of the unit appeared since this call was prepared.          *)
Conflict(k) == call[k].fresh /\ copy[UnitOf[call[k].job]] # "none"

(* Mistake: the registrar minds the state of the job.                      *)
WriteRowIfCommitting(k) ==
  LET j == call[k].job
  IN  /\ copy' = [copy EXCEPT ![UnitOf[j]] = "sound"]
      /\ IF state[j] = "COMMITTING" THEN SetState(j, "COMPLETED") ELSE UNCHANGED state
      /\ Record(j, "completed")

(* register_download(): the asset row, the job and its history, whatever   *)
(* the state of the job.                                                   *)
WriteRow(k) ==
  LET j == call[k].job
  IN  /\ copy' = [copy EXCEPT ![UnitOf[j]] = "sound"]
      /\ SetState(j, "COMPLETED")
      /\ Record(j, "completed")

ThreadOpens(k) ==
  /\ At(k, "running") /\ Stage(k, "open")
  /\ UNCHANGED <<state, queue, history, paused, copy, mode, todo, tasks, asked, env>>

ThreadRegisters(k) ==
  /\ At(k, "open") /\ ~Conflict(k)
  /\ Stage(k, "registered")
  /\ WriteRow(k)
  /\ UNCHANGED <<queue, paused, mode, todo, tasks, asked, env>>

ThreadReturns(k) ==
  /\ At(k, "registered") /\ Stage(k, "done")
  /\ UNCHANGED <<state, queue, history, paused, copy, mode, todo, tasks, asked, env>>

(* The checks of commit() fail, or the entry is aborted.                   *)
ThreadRefuses(k) ==
  /\ \/ At(k, "running") \/ At(k, "open")
  /\ Stage(k, "refused")
  /\ fails < MaxFails /\ fails' = fails + 1
  /\ UNCHANGED <<state, queue, history, paused, copy, mode, todo, tasks, asked,
                 session, crashes, retries, losses, lateErrors>>

(* The registrar refuses the row, or there is an I/O error.                *)
ThreadRaises(k) ==
  /\ At(k, "open")
  /\ Stage(k, "stuck")
  /\ IF Conflict(k) THEN UNCHANGED fails ELSE fails < MaxFails /\ fails' = fails + 1
  /\ UNCHANGED <<state, queue, history, paused, copy, mode, todo, tasks, asked,
                 session, crashes, retries, losses, lateErrors>>

(* An I/O error after the registration: the old copy cannot be deleted.    *)
ThreadRaisesLate(k) ==
  /\ At(k, "registered") /\ Stage(k, "late")
  /\ lateErrors < MaxLateErrors /\ lateErrors' = lateErrors + 1
  /\ UNCHANGED <<state, queue, history, paused, copy, mode, todo, tasks, asked,
                 session, crashes, fails, retries, losses>>

Thread(k) ==
  \/ ThreadOpens(k) \/ ThreadRegisters(k) \/ ThreadReturns(k)
  \/ ThreadRefuses(k) \/ ThreadRaises(k) \/ ThreadRaisesLate(k)

-----------------------------------------------------------------------------
(* cancel_job(): one request looks at the job, writes CANCELED and stops   *)
(* the task, and records the outcome; threads may run in between.          *)
(* For a job that has been completed or canceled it does nothing.          *)

CancelJob(j) ==
  /\ LoopFree /\ j \in Cancellable /\ state[j] \notin {"new", "COMPLETED", "CANCELED"}
  /\ toCancel' = {j}
  /\ UNCHANGED <<state, queue, history, paused, copy, call, mode, todo, tasks, cancel, env>>

CancelBatch(b) ==
  /\ LoopFree
  /\ toCancel' = {j \in Cancellable : BatchOf[j] = b
                                      /\ state[j] \notin {"new", "COMPLETED", "CANCELED"}}
  /\ toCancel' # {}
  /\ UNCHANGED <<state, queue, history, paused, copy, call, mode, todo, tasks, cancel, env>>

CancelLook(j) ==
  /\ mode = "up" /\ cancel = None /\ j \in toCancel
  /\ IF state[j] \in {"CANCELED", "COMPLETED"}
       THEN toCancel' = toCancel \ {j} /\ UNCHANGED cancel
       ELSE cancel' = [job |-> j, seen |-> state[j], step |-> "write"] /\ UNCHANGED toCancel
  /\ UNCHANGED <<state, queue, history, paused, copy, call, mode, todo, tasks, env>>

CancelWrite ==
  /\ cancel # None /\ cancel.step = "write"
  /\ SetState(cancel.job, "CANCELED")
  /\ stopping' = IF pc[cancel.job] # "none" /\ cancel.seen \in Active
                   THEN stopping \cup {cancel.job} ELSE stopping
  /\ cancel' = [cancel EXCEPT !.step = "record"]
  /\ UNCHANGED <<queue, history, paused, copy, call, mode, todo, runner, pass, pc, mine,
                 toCancel, env>>

CancelRecord ==
  /\ cancel # None /\ cancel.step = "record"
  /\ Record(cancel.job, "canceled")
  /\ toCancel' = toCancel \ {cancel.job} /\ cancel' = None
  /\ UNCHANGED <<state, queue, paused, copy, call, mode, todo, tasks, env>>

(* Mistake: a task that was told to stop waits for its commit.             *)
StopsAfterCommit(j) ==
  /\ LoopFree /\ j \in stopping
  /\ mine[j] # None => call[mine[j]].stage = "done"
  /\ TaskEnds(j)
  /\ runner' = IF state[j] = "CANCELED" THEN runner ELSE "dead"
  /\ UNCHANGED <<state, queue, history, paused, copy, call, mode, todo, asked, env>>

(* The CancelledError reaches the task, whatever it was waiting for; a     *)
(* commit thread goes on.  guarded() takes it for the user's cancellation  *)
(* if the job is CANCELED; otherwise it is raised again, gather() passes   *)
(* it on to run_once, and the runner's loop ends.                          *)
Stops(j) ==
  /\ LoopFree /\ j \in stopping
  /\ TaskEnds(j)
  /\ runner' = IF state[j] = "CANCELED" THEN runner ELSE "dead"
  /\ UNCHANGED <<state, queue, history, paused, copy, call, mode, todo, asked, env>>

(* retry_job(): refused while a worker is still stopping.  The user may    *)
(* choose the method.                                                      *)
Requeue(js, m) ==
  /\ retries < MaxRetries /\ retries' = retries + 1
  /\ state'    = [j \in Jobs |-> IF j \in js THEN "QUEUED" ELSE state[j]]
  /\ attempts' = [j \in Jobs |-> IF j \in js THEN 0 ELSE attempts[j]]
  /\ due'      = [j \in Jobs |-> j \in js \/ due[j]]
  /\ attempted' = [j \in Jobs |-> IF j \in js THEN attempted[j] \cup m ELSE attempted[j]]
  /\ UNCHANGED <<position, history, paused, copy, call, mode, todo, tasks, asked,
                 session, crashes, fails, losses, lateErrors>>

(* Mistake: a job may be retried while its worker is stopping.             *)
RetryAnyway(j) ==
  /\ LoopFree /\ state[j] \in RetryFrom
  /\ Requeue({j}, {})

Retry(j) ==
  /\ LoopFree /\ state[j] \in RetryFrom /\ pc[j] = "none"
  /\ \E m \in {{}} \cup {{n} : n \in Methods} : Requeue({j}, m)

RetryAllFailed(b) ==
  /\ LoopFree
  /\ LET js == {j \in Jobs : BatchOf[j] = b /\ state[j] = "FAILED"}
     IN  /\ js # {} /\ \A j \in js : state[j] \in RetryFrom /\ pc[j] = "none"
         /\ Requeue(js, {})

Pause(b) ==
  /\ LoopFree /\ b \in Handled \ paused
  /\ paused' = paused \cup {b}
  /\ UNCHANGED <<state, queue, history, copy, call, mode, todo, tasks, asked, env>>

Resume(b) ==
  /\ LoopFree /\ b \in paused
  /\ paused' = paused \ {b}
  /\ UNCHANGED <<state, queue, history, copy, call, mode, todo, tasks, asked, env>>

(* Positions are counted from 1 within the batch, and so may tie with      *)
(* those of another batch.                                                 *)
Reorder(b) ==
  LET js == {j \in Jobs : BatchOf[j] = b /\ state[j] # "new"}
  IN  /\ LoopFree /\ b \in Handled
      /\ \E f \in [js -> 1..Cardinality(js)] :
           /\ \A i, j \in js : i # j => f[i] # f[j]
           /\ position' = [j \in Jobs |-> IF j \in js THEN f[j] ELSE position[j]]
      /\ UNCHANGED <<state, attempts, due, attempted, history, paused, copy, call, mode,
                     todo, tasks, asked, env>>

SessionChanges ==
  /\ LoopFree /\ NeedsSession # {}
  /\ session' = ~session
  /\ UNCHANGED <<state, queue, history, paused, copy, call, mode, todo, tasks, asked,
                 crashes, fails, retries, losses, lateErrors>>

-----------------------------------------------------------------------------
(* A crash (or a shutdown, which does not wait for the jobs either), and   *)
(* the startup: jobs, then commits, then the engine's own recovery.        *)

Crash ==
  /\ mode # "down" /\ crashes < MaxCrashes /\ crashes' = crashes + 1
  /\ mode' = "down" /\ todo' = {}
  /\ runner' = "off" /\ pass' = {} /\ stopping' = {}
  /\ pc' = [j \in Jobs |-> "none"] /\ mine' = [j \in Jobs |-> None]
  /\ toCancel' = {} /\ cancel' = None
  /\ call' = [k \in Calls |->
                IF call[k] = None THEN None
                ELSE [call[k] EXCEPT !.stage = CASE @ = "running" -> "refused"
                                                 [] @ = "open" -> "stuck"
                                                 [] @ \in {"registered", "late"} -> "done"
                                                 [] OTHER -> @]]
  /\ UNCHANGED <<state, queue, history, paused, copy, session, fails, retries, losses,
                 lateErrors>>

OpenCalls == {k \in Calls : call[k] # None /\ call[k].stage = "stuck"}

(* _recover_download_jobs(), before anything else.                         *)
Restart ==
  /\ mode = "down"
  /\ mode' = "recovering" /\ todo' = OpenCalls
  /\ state' = [j \in Jobs |-> IF state[j] \in Active THEN "RECOVERING" ELSE state[j]]
  /\ UNCHANGED <<queue, history, paused, copy, call, tasks, asked, env>>

(* CommitEngine.recover(): an open entry is registered, given up, or stays *)
(* open because its location is missing or its registration is refused.    *)
RecoverCall(k) ==
  /\ mode \in {"recovering", "starting"} /\ k \in todo
  /\ todo' = todo \ {k}
  /\ \/ ~Conflict(k) /\ Stage(k, "done") /\ WriteRow(k)
     \/ Stage(k, "refused") /\ UNCHANGED <<state, copy, history>>
     \/ UNCHANGED <<state, copy, history, call>>
  /\ UNCHANGED <<queue, paused, mode, tasks, asked, env>>

(* engine.recover(): "a job whose worker keeps dying has used its retries".*)
EngineRecover ==
  /\ mode = "recovering" /\ todo = {}
  /\ LET exhausted == {j \in Jobs : state[j] \in Active /\ attempts[j] > RetryBudget}
     IN  /\ state' = [j \in Jobs |-> IF j \in exhausted THEN "FAILED"
                                     ELSE IF state[j] \in Active THEN "RECOVERING"
                                     ELSE state[j]]
         /\ history' = [j \in Jobs |-> IF j \in exhausted /\ history[j] = "none"
                                         THEN "failed" ELSE history[j]]
  /\ mode' = "starting" /\ todo' = OpenCalls
  /\ UNCHANGED <<queue, paused, copy, call, tasks, asked, env>>

StartRunner ==
  /\ mode = "starting" /\ todo = {}
  /\ mode' = "up" /\ runner' = "on"
  /\ UNCHANGED <<state, queue, history, paused, copy, call, todo, pass, pc, stopping, mine,
                 asked, env>>

Startup == Restart \/ EngineRecover \/ StartRunner \/ \E k \in Calls : RecoverCall(k)

-----------------------------------------------------------------------------
Task(j) ==
  \/ Start(j) \/ NoticeCanceled(j) \/ Prepared(j) \/ Downloaded(j) \/ Validated(j)
  \/ \E k \in Calls : StartCommit(j, k)
  \/ CommitReturned(j) \/ CommitFailed(j) \/ AlreadyThere(j)
  \/ \E category \in Categories : AttemptFails(j, category)
  \/ Stops(j)

Canceling == CancelWrite \/ CancelRecord \/ \E j \in Jobs : CancelLook(j)

User ==
  \/ \E j \in Jobs : Enqueue(j) \/ CancelJob(j) \/ Retry(j)
  \/ \E b \in Batches : CancelBatch(b) \/ RetryAllFailed(b) \/ Pause(b) \/ Resume(b)
                        \/ Reorder(b)
  \/ SessionChanges

Next ==
  \/ RunOnce \/ User \/ Canceling \/ Startup \/ Crash
  \/ \E j \in Jobs : Task(j) \/ BecomesDue(j)
  \/ \E k \in Calls : Thread(k)
  \/ \E u \in Units : LoseCopy(u)

Spec == Init /\ [][Next]_vars

(* The event loop, the threads, the timers and the startup run; nothing    *)
(* obliges a user or a failure.                                            *)
Fairness ==
  /\ WF_vars(RunOnce) /\ WF_vars(Canceling) /\ WF_vars(Startup)
  /\ \A j \in Jobs : WF_vars(Task(j)) /\ WF_vars(BecomesDue(j))
  /\ \A k \in Calls : WF_vars(Thread(k))

FairSpec == Spec /\ Fairness

-----------------------------------------------------------------------------
(* Properties.                                                             *)

(* Every variable has its type (the schema's CHECK constraints, and what   *)
(* the engine keeps in memory).                                            *)
TypeOK ==
  /\ state \in [Jobs -> States]
  /\ position \in [Jobs -> Nat] /\ attempts \in [Jobs -> Nat]
  /\ due \in [Jobs -> BOOLEAN] /\ attempted \in [Jobs -> SUBSET Methods]
  /\ history \in [Jobs -> {"none", "completed", "failed", "canceled"}]
  /\ paused \subseteq Batches /\ copy \in [Units -> {"none", "sound", "broken"}]
  /\ call \in [Calls -> [job : Jobs, fresh : BOOLEAN, stage : Stages] \cup {None}]
  /\ mode \in {"down", "recovering", "starting", "up"} /\ todo \subseteq Calls
  /\ runner \in {"off", "on", "dead"} /\ pass \subseteq Jobs
  /\ pc \in [Jobs -> PCs] /\ stopping \subseteq Jobs
  /\ mine \in [Jobs -> Calls \cup {None}]
  /\ toCancel \subseteq Jobs
  /\ cancel \in [job : Jobs, seen : States, step : {"write", "record"}] \cup {None}
  /\ session \in BOOLEAN
  /\ crashes \in Nat /\ fails \in Nat /\ retries \in Nat
  /\ losses \in Nat /\ lateErrors \in Nat

(* "Anything unforeseen still ends the job, never strands it": while the   *)
(* application is up, a job that is being worked on has a task, whatever   *)
(* failed, was canceled or had been interrupted by a crash.                *)
NeverStranded == mode = "up" => \A j \in Jobs : state[j] \in Active => pc[j] # "none"

(* A canceled job is not worked on again, nor failed by the task that was  *)
(* working on it: only the user requeues it, after that task has ended, or *)
(* its commit, which had been handed to a thread, registers it.            *)
CanceledStays ==
  [][\A j \in Jobs : state[j] = "CANCELED" /\ state'[j] # "CANCELED" =>
       \/ state'[j] = "QUEUED" /\ pc[j] = "none" /\ retries' # retries
       \/ state'[j] = "COMPLETED" /\ pc'[j] = pc[j]]_vars

(* Smart retry stays within its budget: a method is attempted at most      *)
(* RetryBudget times, and once more for each crash.                        *)
AttemptsBounded ==
  RetryBudget > 0 => \A j \in Jobs : attempts[j] <= RetryBudget + crashes

(* What was registered is not downloaded again: unless the user retried    *)
(* it, or its commit failed after the registration, a job whose artifact   *)
(* is in the library has no task before its commit, after any crash and    *)
(* recovery.                                                               *)
NoWorkAfterRegistration ==
  retries = 0 /\ lateErrors = 0 =>
    \A k \in Calls : call[k] # None /\ call[k].stage \in {"registered", "done"} =>
      pc[call[k].job] \in {"none", "commit"}

(* "Keeps the queue moving while the application is running": a job that   *)
(* may start is eventually finished, or waits for a session, or is paused, *)
(* or the process is down, or its runner has ended.                        *)
QueueMoves ==
  \A j \in Jobs :
    state[j] \in Runnable ~>
      \/ state[j] \in Ended \cup {"WAITING_FOR_SESSION"}
      \/ BatchOf[j] \in paused
      \/ mode = "down" \/ runner = "dead"

(* A cancellation comes through: the task of a canceled job ends.          *)
CancelEnds ==
  \A j \in Jobs : state[j] = "CANCELED" /\ pc[j] # "none" ~> pc[j] = "none" \/ mode = "down"

(* "A failing pass must never stop the queue."                             *)
RunnerLives == runner # "dead"

(* "A job whose worker keeps dying has used its retries: it is failed      *)
(* rather than restarted forever."                                         *)
ExhaustedIsFailed ==
  \A j \in Jobs : mode = "up" /\ state[j] = "RECOVERING" => attempts[j] <= RetryBudget

(* The work on a job is accounted for: what is registered is not           *)
(* downloaded again, and what fails is not tried without end.              *)
WorkIsBounded == TypeOK /\ NoWorkAfterRegistration /\ AttemptsBounded
=============================================================================
