------------------------- MODULE DownloadEngine_proofs -------------------------
(***************************************************************************)
(* Proofs about the download queue, for any number of jobs, units, batches *)
(* and commit calls and every budget: while the application is up no job   *)
(* is left without the task that works on it, a canceled job is not worked *)
(* on again, and the work on a job is bounded.                             *)
(***************************************************************************)
EXTENDS DownloadEngine, WellFoundedInduction, TLAPS

(* What a task that has nothing left to do but commit may find its job in. *)
Finishing == {"COMMITTING", "COMPLETED", "CANCELED"}
Settled   == {"COMPLETED", "CANCELED"}

(* A task that was told to stop, or has come to its commit, stands where   *)
(* the job's state says.                                                   *)
StoppingFits ==
  \A j \in stopping : pc[j] # "none" /\ state[j] \in Settled

CommitFits ==
  \A j \in Jobs :
    /\ pc[j] = "hash" => state[j] \in Finishing
    /\ pc[j] = "commit" =>
         /\ mine[j] \in Calls /\ call[mine[j]] # None /\ call[mine[j]].job = j
         /\ state[j] \in Finishing
         /\ call[mine[j]].stage \in {"registered", "late", "done"} => state[j] \in Settled

(* Without a process there are no tasks, and a startup finds no active job.*)
ProcessFits ==
  /\ mode # "up" => \A j \in Jobs : pc[j] = "none"
  /\ mode \in {"recovering", "starting"} => \A j \in Jobs : state[j] \notin Active

ReplayFits ==
  /\ mode \in {"up", "down"} => todo = {}
  /\ \A k \in todo : call[k] # None /\ call[k].stage = "stuck"

TaskInv ==
  TypeOK /\ StoppingFits /\ CommitFits /\ ProcessFits /\ ReplayFits /\ NeverStranded

(* An attempt is counted when it starts: what may still start is below the *)
(* bound, and so is everything when the process is down.                   *)
Startable == {"new"} \cup Runnable

BudgetInv ==
  RetryBudget > 0 =>
    \A j \in Jobs :
      /\ attempts[j] <= RetryBudget + crashes
      /\ pc[j] = "start" \/ state[j] \in Startable \/ mode # "up" =>
           attempts[j] < RetryBudget + crashes

(* Of a job that nobody has retried, a call that is not settled is awaited *)
(* by the job's task, or the job was canceled; and a job that has been     *)
(* registered is at rest, or its task is about to hear of it.              *)
CallsAreOwned ==
  \A k \in Calls :
    call[k] # None =>
      LET j == call[k].job
      IN  /\ call[k].stage \in {"running", "open"} =>
               \/ pc[j] = "commit" /\ mine[j] = k
               \/ pc[j] = "none" /\ state[j] \in Settled
          /\ call[k].stage \in {"running", "open"} => mode = "up"
          /\ call[k].stage \in {"registered", "done"} =>
               /\ state[j] \in Settled
               /\ pc[j] = "none" \/ (pc[j] = "commit" /\ mine[j] = k)
          /\ call[k].stage # "late"

WorkInv == TaskInv /\ BudgetInv /\ (retries = 0 /\ lateErrors = 0 => CallsAreOwned)

LEMMA Constants ==
  /\ UnitOf \in [Jobs -> Units] /\ BatchOf \in [Jobs -> Batches]
  /\ ModeOf \in [Jobs -> {"strict", "automatic", "preferred_ask"}]
  /\ FallbackOrder \in Seq(Methods) /\ FirstMethod \in Methods /\ RetryBudget \in Nat
  /\ RetryFrom \subseteq States /\ Cancellable \subseteq Jobs
  /\ None \notin Calls /\ None \notin Jobs
  /\ None \notin [job : Jobs, fresh : BOOLEAN, stage : Stages]
  /\ None \notin [job : Jobs, seen : States, step : {"write", "record"}]
BY ConstantsAssumption DEF ConstantsAssumption

-----------------------------------------------------------------------------
(* The decision after a failure.                                           *)

LEMMA NextFallbackFits ==
  ASSUME NEW j \in Jobs, Untried(j) # {}
  PROVE  NextFallback(j) \in Methods
<1>1. Untried(j) \subseteq DOMAIN FallbackOrder /\ DOMAIN FallbackOrder \subseteq Nat
  BY Constants DEF Untried
<1>2. \E i \in Untried(j) : \A h \in Untried(j) : <<h, i>> \notin OpToRel(<, Nat)
  <2>1. Untried(j) \subseteq Nat
    BY <1>1
  <2>. QED
    BY <2>1, NatLessThanWellFounded, WFMin
<1>3. \E i \in Untried(j) : \A h \in Untried(j) : i <= h
  <2>1. \A h, i \in Nat : <<h, i>> \notin OpToRel(<, Nat) => i <= h
    BY DEF OpToRel
  <2>. QED
    BY <1>1, <1>2, <2>1
<1>. QED
  BY <1>1, <1>3, Constants DEF NextFallback

Decisions == {"fail", "wait_for_session", "wait_for_rate_limit", "retry", "ask", "fallback"}

LEMMA NextMethodFits ==
  ASSUME TypeOK, NEW j \in Jobs, NEW category \in Categories
  PROVE  /\ NextMethod(j, category) \in Decisions
         /\ NextMethod(j, category) = "retry" => attempts[j] < RetryBudget
         /\ NextMethod(j, category) = "fallback" => Untried(j) # {}
<1>1. ModeOf[j] \in {"strict", "automatic", "preferred_ask"} /\ attempts[j] \in Nat
  BY Constants DEF TypeOK
<1>. QED
  BY <1>1, Constants DEF NextMethod, Decisions, Categories

(* What an attempt that has failed leaves of its job.                      *)
FailedStates ==
  {"RETRY_WAIT", "WAITING_FOR_SESSION", "WAITING_FOR_RATE_LIMIT", "QUEUED", "FAILED"}

LEMMA FailureFacts ==
  ASSUME TypeOK, NEW j \in Jobs, NEW category \in Categories, HandleFailure(j, category)
  PROVE  /\ state[j] # "CANCELED"
         /\ \E s \in FailedStates, n \in {0, attempts[j]} :
              /\ state' = [state EXCEPT ![j] = s] /\ attempts' = [attempts EXCEPT ![j] = n]
              /\ n = 0 \/ s = "FAILED" \/ n < RetryBudget
         /\ due' \in [Jobs -> BOOLEAN] /\ attempted' \in [Jobs -> SUBSET Methods]
         /\ history' = history \/ Record(j, "failed")
         /\ TaskEnds(j)
         /\ UNCHANGED <<position, paused, copy, call, mode, todo, runner, asked>>
<1> DEFINE action == NextMethod(j, category)
<1>1. /\ action \in Decisions
      /\ action = "retry" => attempts[j] < RetryBudget
      /\ action = "fallback" => Untried(j) # {}
  BY NextMethodFits
<1>2. action = "fallback" => NextFallback(j) \in Methods
  BY <1>1, NextFallbackFits
<1> HIDE DEF action
<1>3. /\ state[j] # "CANCELED"
      /\ \E s \in FailedStates : /\ state' = [state EXCEPT ![j] = s]
                                 /\ action \in {"fail", "ask"} => s = "FAILED"
  BY <1>1 DEF HandleFailure, SetState, action, Decisions, FailedStates
<1>4. \E n \in {0, attempts[j]} :
        /\ attempts' = [attempts EXCEPT ![j] = n]
        /\ action \in {"wait_for_session", "wait_for_rate_limit", "fallback"} => n = 0
  <2>1. attempts = [attempts EXCEPT ![j] = attempts[j]]
    BY DEF TypeOK
  <2>. QED
    BY <1>1, <2>1 DEF HandleFailure, action
<1>5. due' \in [Jobs -> BOOLEAN]
  BY <1>1 DEF HandleFailure, action, Decisions, TypeOK
<1>6. attempted' \in [Jobs -> SUBSET Methods]
  BY <1>2 DEF HandleFailure, action, TypeOK
<1>7. /\ history' = history \/ Record(j, "failed")
      /\ TaskEnds(j)
      /\ UNCHANGED <<position, paused, copy, call, mode, todo, runner, asked>>
  BY DEF HandleFailure
<1>. QED
  BY <1>1, <1>3, <1>4, <1>5, <1>6, <1>7 DEF Decisions

-----------------------------------------------------------------------------
(* Types.                                                                  *)

LEMMA RecordFits ==
  ASSUME TypeOK, NEW j \in Jobs, NEW outcome \in {"completed", "failed", "canceled"},
         Record(j, outcome)
  PROVE  history' \in [Jobs -> {"none", "completed", "failed", "canceled"}]
BY DEF Record, TypeOK

LEMMA InitType == Init => TypeOK
BY Constants DEF Init, TypeOK, States, PCs

LEMMA TaskType ==
  ASSUME TypeOK, NEW j \in Jobs, Task(j)
  PROVE  TypeOK'
<1>1. CASE Start(j)
  BY <1>1 DEF Start, Proceed, SetState, Goto, TypeOK, States, Active, PCs, asked, env
<1>2. CASE NoticeCanceled(j)
  BY <1>2 DEF NoticeCanceled, TaskEnds, Goto, TypeOK, PCs, queue, asked, env
<1>3. CASE Prepared(j)
  BY <1>3 DEF Prepared, Proceed, SetState, Goto, TypeOK, States, Active, PCs, asked, env
<1>4. CASE Downloaded(j)
  BY <1>4 DEF Downloaded, Proceed, SetState, Goto, TypeOK, States, Active, PCs, asked, env
<1>5. CASE Validated(j)
  BY <1>5 DEF Validated, Proceed, SetState, Goto, TypeOK, States, Active, PCs, asked, env
<1>6. ASSUME NEW k \in Calls, StartCommit(j, k) PROVE TypeOK'
  BY <1>6 DEF StartCommit, Goto, TypeOK, PCs, Stages, queue, asked, env
<1>7. CASE CommitReturned(j)
  BY <1>7 DEF CommitReturned, TaskEnds, Goto, TypeOK, PCs, queue, asked, env
<1>8. ASSUME NEW category \in Categories, HandleFailure(j, category),
             UNCHANGED <<session, crashes, retries, losses, lateErrors>>, fails' \in Nat
      PROVE  TypeOK'
  <2>1. history' \in [Jobs -> {"none", "completed", "failed", "canceled"}]
    BY <1>8, FailureFacts, RecordFits DEF TypeOK
  <2>2. attempts' \in [Jobs -> Nat] /\ state' \in [Jobs -> States]
    BY <1>8, FailureFacts DEF TypeOK, FailedStates, States, Runnable, Waiting, Ended
  <2>. QED
    BY <1>8, <2>1, <2>2, FailureFacts DEF TaskEnds, Goto, TypeOK, PCs, asked
<1>9. CASE CommitFailed(j) \/ AlreadyThere(j)
  BY <1>8, <1>9 DEF CommitFailed, AlreadyThere, TypeOK, env, Categories
<1>10. ASSUME NEW category \in Categories, AttemptFails(j, category) PROVE TypeOK'
  BY <1>8, <1>10 DEF AttemptFails, TypeOK
<1>11. CASE Stops(j)
  BY <1>11 DEF Stops, TaskEnds, Goto, TypeOK, PCs, queue, asked, env
<1>. QED
  BY <1>1, <1>2, <1>3, <1>4, <1>5, <1>6, <1>7, <1>9, <1>10, <1>11 DEF Task

LEMMA WriteRowFits ==
  ASSUME TypeOK, NEW k \in Calls, call[k] # None, WriteRow(k)
  PROVE  /\ state' \in [Jobs -> States] /\ copy' \in [Units -> {"none", "sound", "broken"}]
         /\ history' \in [Jobs -> {"none", "completed", "failed", "canceled"}]
         /\ state' = [state EXCEPT ![call[k].job] = "COMPLETED"] /\ call[k].job \in Jobs
<1>1. call[k].job \in Jobs
  BY DEF TypeOK
<1>2. history' \in [Jobs -> {"none", "completed", "failed", "canceled"}]
  BY <1>1, RecordFits DEF WriteRow
<1>. QED
  BY <1>1, <1>2 DEF WriteRow, SetState, TypeOK, States, Ended

LEMMA StageFits ==
  ASSUME TypeOK, NEW k \in Calls, call[k] # None, NEW stage \in Stages, Stage(k, stage)
  PROVE  /\ call' \in [Calls -> [job : Jobs, fresh : BOOLEAN, stage : Stages] \cup {None}]
         /\ call'[k] # None /\ call'[k].job = call[k].job /\ call'[k].stage = stage
         /\ \A h \in Calls \ {k} : call'[h] = call[h]
<1>1. call[k] \in [job : Jobs, fresh : BOOLEAN, stage : Stages]
  BY DEF TypeOK
<1>2. [call[k] EXCEPT !.stage = stage] \in [job : Jobs, fresh : BOOLEAN, stage : Stages]
  BY <1>1
<1>3. call' = [call EXCEPT ![k] = [call[k] EXCEPT !.stage = stage]]
  BY DEF Stage
<1>. QED
  BY <1>1, <1>2, <1>3, Constants DEF TypeOK

LEMMA ThreadType ==
  ASSUME TypeOK, NEW k \in Calls, Thread(k)
  PROVE  TypeOK'
<1> {"open", "registered", "done", "refused", "stuck", "late"} \subseteq Stages
  BY DEF Stages
<1>1. CASE ThreadOpens(k)
  BY <1>1, StageFits DEF ThreadOpens, At, TypeOK, queue, tasks, asked, env
<1>2. CASE ThreadRegisters(k)
  BY <1>2, StageFits, WriteRowFits DEF ThreadRegisters, At, TypeOK, queue, tasks, asked, env
<1>3. CASE ThreadReturns(k)
  BY <1>3, StageFits DEF ThreadReturns, At, TypeOK, queue, tasks, asked, env
<1>4. CASE ThreadRefuses(k)
  BY <1>4, StageFits DEF ThreadRefuses, At, TypeOK, queue, tasks, asked
<1>5. CASE ThreadRaises(k)
  BY <1>5, StageFits DEF ThreadRaises, At, TypeOK, queue, tasks, asked
<1>6. CASE ThreadRaisesLate(k)
  BY <1>6, StageFits DEF ThreadRaisesLate, At, TypeOK, queue, tasks, asked
<1>. QED
  BY <1>1, <1>2, <1>3, <1>4, <1>5, <1>6 DEF Thread

LEMMA UserType ==
  ASSUME TypeOK, User
  PROVE  TypeOK'
<1>1. ASSUME NEW j \in Jobs, Enqueue(j) PROVE TypeOK'
  BY <1>1 DEF Enqueue, SetState, TypeOK, States, Runnable, tasks, asked, env
<1>2. ASSUME NEW j \in Jobs, CancelJob(j) PROVE TypeOK'
  BY <1>2 DEF CancelJob, TypeOK, queue, tasks, env
<1>3. ASSUME NEW b \in Batches, CancelBatch(b) PROVE TypeOK'
  BY <1>3, Constants DEF CancelBatch, TypeOK, queue, tasks, env
<1>4. ASSUME NEW js \in SUBSET Jobs, NEW m \in SUBSET Methods, Requeue(js, m) PROVE TypeOK'
  BY <1>4 DEF Requeue, TypeOK, States, Runnable, tasks, asked
<1>5. ASSUME NEW j \in Jobs, Retry(j) PROVE TypeOK'
  BY <1>4, <1>5 DEF Retry
<1>6. ASSUME NEW b \in Batches, RetryAllFailed(b) PROVE TypeOK'
  BY <1>4, <1>6 DEF RetryAllFailed
<1>7. ASSUME NEW b \in Batches, Pause(b) \/ Resume(b) PROVE TypeOK'
  BY <1>7 DEF Pause, Resume, TypeOK, queue, tasks, asked, env
<1>8. ASSUME NEW b \in Batches, Reorder(b) PROVE TypeOK'
  <2>1. position' \in [Jobs -> Nat]
    <3>1. \A n : 1..n \subseteq Nat
      OBVIOUS
    <3>. QED
      BY <1>8, <3>1 DEF Reorder, TypeOK
  <2>. QED
    BY <1>8, <2>1 DEF Reorder, TypeOK, tasks, asked, env
<1>9. CASE SessionChanges
  BY <1>9 DEF SessionChanges, TypeOK, queue, tasks, asked
<1>. QED
  BY <1>1, <1>2, <1>3, <1>5, <1>6, <1>7, <1>8, <1>9 DEF User

LEMMA CancelingType ==
  ASSUME TypeOK, Canceling
  PROVE  TypeOK'
<1>1. CASE CancelWrite
  BY <1>1 DEF CancelWrite, SetState, TypeOK, States, Ended, queue, env
<1>2. CASE CancelRecord
  BY <1>2, RecordFits DEF CancelRecord, TypeOK, queue, tasks, env
<1>3. ASSUME NEW j \in Jobs, CancelLook(j) PROVE TypeOK'
  BY <1>3 DEF CancelLook, TypeOK, queue, tasks, env
<1>. QED
  BY <1>1, <1>2, <1>3 DEF Canceling

LEMMA CrashType ==
  ASSUME TypeOK, Crash
  PROVE  TypeOK'
<1>1. call' \in [Calls -> [job : Jobs, fresh : BOOLEAN, stage : Stages] \cup {None}]
  <2> SUFFICES ASSUME NEW k \in Calls, call[k] # None
               PROVE  call'[k] \in [job : Jobs, fresh : BOOLEAN, stage : Stages]
    BY DEF Crash
  <2>1. call[k] \in [job : Jobs, fresh : BOOLEAN, stage : Stages]
    BY DEF TypeOK
  <2>2. \E s \in Stages : call'[k] = [call[k] EXCEPT !.stage = s]
    BY <2>1 DEF Crash, Stages
  <2>. QED
    BY <2>1, <2>2
<1>. QED
  BY <1>1 DEF Crash, TypeOK, PCs, queue

LEMMA StartupType ==
  ASSUME TypeOK, ReplayFits, Startup
  PROVE  TypeOK'
<1>1. CASE Restart
  BY <1>1 DEF Restart, OpenCalls, TypeOK, States, Runnable, queue, tasks, asked, env
<1>2. CASE EngineRecover
  BY <1>2 DEF EngineRecover, OpenCalls, TypeOK, States, Runnable, Ended, queue, tasks, asked,
     env
<1>3. CASE StartRunner
  BY <1>3 DEF StartRunner, TypeOK, queue, asked, env
<1>4. ASSUME NEW k \in Calls, RecoverCall(k) PROVE TypeOK'
  <2>1. call[k] # None /\ {"done", "refused"} \subseteq Stages
    BY <1>4 DEF RecoverCall, ReplayFits, Stages
  <2>. QED
    BY <1>4, <2>1, StageFits, WriteRowFits DEF RecoverCall, TypeOK, queue, tasks, asked, env
<1>. QED
  BY <1>1, <1>2, <1>3, <1>4 DEF Startup

LEMMA StepType ==
  ASSUME TypeOK, ReplayFits, [Next]_vars
  PROVE  TypeOK'
<1>1. CASE RunOnce
  BY <1>1 DEF RunOnce, Window, Eligible, TypeOK, PCs, queue, asked, env
<1>2. ASSUME NEW j \in Jobs, BecomesDue(j) PROVE TypeOK'
  BY <1>2 DEF BecomesDue, TypeOK, tasks, asked, env
<1>3. ASSUME NEW u \in Units, LoseCopy(u) PROVE TypeOK'
  BY <1>3 DEF LoseCopy, TypeOK, queue, tasks, asked
<1>4. CASE UNCHANGED vars
  BY <1>4 DEF TypeOK, vars, queue, tasks, asked, env
<1>. QED
  BY <1>1, <1>2, <1>3, <1>4, TaskType, ThreadType, UserType, CancelingType, CrashType,
     StartupType DEF Next

-----------------------------------------------------------------------------
(* Tasks, commits, the process and the jobs they work on fit together.     *)

(* A task goes on with its job.                                            *)
LEMMA ProceedKeeps ==
  ASSUME TaskInv, TypeOK', mode = "up", NEW j \in Jobs, j \notin stopping,
         NEW s \in Active,
         NEW where \in {"prepare", "download", "verify", "package", "hash"},
         where = "hash" => s = "COMMITTING", Proceed(j, s, where)
  PROVE  TaskInv'
<1>1. /\ state' = [state EXCEPT ![j] = s] /\ pc' = [pc EXCEPT ![j] = where]
      /\ UNCHANGED <<call, mine, stopping, mode, todo>>
  BY DEF Proceed, SetState, Goto
<1>2. StoppingFits' /\ ProcessFits' /\ ReplayFits' /\ NeverStranded'
  BY <1>1 DEF TaskInv, TypeOK, StoppingFits, ProcessFits, ReplayFits, NeverStranded
<1>3. CommitFits'
  BY <1>1 DEF TaskInv, TypeOK, CommitFits, Finishing
<1>. QED
  BY <1>2, <1>3 DEF TaskInv

(* A task ends, and leaves its job to somebody else.                       *)
LEMMA EndKeeps ==
  ASSUME TaskInv, TypeOK', mode = "up", NEW j \in Jobs, TaskEnds(j),
         UNCHANGED <<call, mode, todo>>,
         \/ UNCHANGED state /\ state[j] \notin Active
         \/ \E s \in FailedStates : state' = [state EXCEPT ![j] = s]
  PROVE  TaskInv'
<1>1. /\ pc' = [pc EXCEPT ![j] = "none"] /\ stopping' = stopping \ {j}
      /\ mine' = [mine EXCEPT ![j] = None]
  BY DEF TaskEnds, Goto
<1>2. /\ state'[j] \notin Active
      /\ \A i \in Jobs \ {j} : state'[i] = state[i] /\ pc'[i] = pc[i] /\ mine'[i] = mine[i]
  BY <1>1 DEF TaskInv, TypeOK, FailedStates, Active
<1>3. StoppingFits' /\ ProcessFits' /\ ReplayFits' /\ NeverStranded'
  BY <1>1, <1>2 DEF TaskInv, TypeOK, StoppingFits, ProcessFits, ReplayFits, NeverStranded
<1>4. CommitFits'
  BY <1>1, <1>2 DEF TaskInv, TypeOK, CommitFits
<1>. QED
  BY <1>3, <1>4 DEF TaskInv

LEMMA TaskKeeps ==
  ASSUME TaskInv, TypeOK', NEW j \in Jobs, Task(j)
  PROVE  TaskInv'
<1> USE DEF Active
<1>1. CASE Start(j)
  BY <1>1, ProceedKeeps DEF Start, Resumes, LoopFree
<1>2. CASE NoticeCanceled(j)
  BY <1>2, EndKeeps DEF NoticeCanceled, Resumes, LoopFree
<1>3. CASE Prepared(j)
  BY <1>3, ProceedKeeps DEF Prepared, Resumes, LoopFree
<1>4. CASE Downloaded(j)
  BY <1>4, ProceedKeeps DEF Downloaded, Resumes, LoopFree
<1>5. CASE Validated(j)
  BY <1>5, ProceedKeeps DEF Validated, Resumes, LoopFree
<1>6. ASSUME NEW k \in Calls, StartCommit(j, k) PROVE TaskInv'
  <2>1. /\ call[k] = None /\ mode = "up" /\ pc[j] = "hash"
        /\ call' = [call EXCEPT ![k] = call'[k]] /\ call'[k] # None
        /\ call'[k].job = j /\ call'[k].stage = "running"
        /\ mine' = [mine EXCEPT ![j] = k] /\ pc' = [pc EXCEPT ![j] = "commit"]
        /\ UNCHANGED <<state, stopping, mode, todo>>
    <3> DEFINE made == [job |-> j, fresh |-> copy[UnitOf[j]] = "none", stage |-> "running"]
    <3>1. made \in [job : Jobs, fresh : BOOLEAN, stage : Stages]
      BY DEF Stages
    <3>2. made # None /\ made.job = j /\ made.stage = "running"
      BY <3>1, Constants
    <3>3. call' = [call EXCEPT ![k] = made] /\ call'[k] = made
      BY <1>6 DEF StartCommit, TaskInv, TypeOK
    <3> HIDE DEF made
    <3>. QED
      BY <1>6, <3>2, <3>3 DEF StartCommit, Resumes, LoopFree, Goto, TaskInv, TypeOK
  <2>2. StoppingFits' /\ ProcessFits' /\ ReplayFits' /\ NeverStranded'
    BY <2>1 DEF TaskInv, TypeOK, StoppingFits, ProcessFits, ReplayFits, NeverStranded
  <2>3. \A h \in Calls : call[h] # None => call'[h] = call[h]
    BY <2>1 DEF TaskInv, TypeOK
  <2>4. CommitFits'
    BY <2>1, <2>3 DEF TaskInv, TypeOK, CommitFits
  <2>. QED
    BY <2>2, <2>4 DEF TaskInv
<1>7. CASE CommitReturned(j)
  BY <1>7, EndKeeps DEF CommitReturned, Resumes, LoopFree, TaskInv, CommitFits, Settled
<1>8. ASSUME NEW category \in Categories, HandleFailure(j, category), mode = "up"
      PROVE  TaskInv'
  BY <1>8, FailureFacts, EndKeeps DEF TaskInv
<1>9. CASE CommitFailed(j) \/ AlreadyThere(j)
  BY <1>8, <1>9 DEF CommitFailed, AlreadyThere, Resumes, LoopFree, Categories
<1>10. ASSUME NEW category \in Categories, AttemptFails(j, category) PROVE TaskInv'
  BY <1>8, <1>10 DEF AttemptFails, Resumes, LoopFree
<1>11. CASE Stops(j)
  BY <1>11, EndKeeps DEF Stops, LoopFree, TaskInv, StoppingFits, Settled
<1>. QED
  BY <1>1, <1>2, <1>3, <1>4, <1>5, <1>6, <1>7, <1>9, <1>10, <1>11 DEF Task

(* A thread moves on with its call, and may complete the call's job.       *)
LEMMA StageKeeps ==
  ASSUME TaskInv, TypeOK', NEW k \in Calls, call[k] # None, NEW stage \in Stages,
         Stage(k, stage), UNCHANGED <<pc, mine, stopping, mode>>,
         todo' = todo \ {k} \/ (todo' = todo /\ mode = "up"),
         \/ state' = [state EXCEPT ![call[k].job] = "COMPLETED"]
         \/ UNCHANGED state /\ stage \notin {"registered", "late", "done"}
         \/ UNCHANGED state /\ call[k].stage \in {"registered", "late", "done"}
  PROVE  TaskInv'
<1>1. /\ call'[k] # None /\ call'[k].job = call[k].job /\ call'[k].stage = stage
      /\ \A h \in Calls \ {k} : call'[h] = call[h]
      /\ call[k].job \in Jobs
  BY StageFits DEF TaskInv, TypeOK
<1>2. \A j \in Jobs : state'[j] = state[j] \/ state'[j] = "COMPLETED"
  BY DEF TaskInv, TypeOK
<1>3. StoppingFits' /\ ProcessFits' /\ NeverStranded'
  <2>1. \A j \in Jobs : state'[j] \in Active => state[j] \in Active
    BY <1>2 DEF Active
  <2>2. stopping \subseteq Jobs
    BY DEF TaskInv, TypeOK
  <2>. QED
    BY <1>2, <2>1, <2>2 DEF TaskInv, StoppingFits, ProcessFits, NeverStranded, Settled
<1>4. ReplayFits'
  BY <1>1 DEF TaskInv, TypeOK, ReplayFits
<1>5. CommitFits'
  <2> SUFFICES ASSUME NEW j \in Jobs, pc[j] = "commit", mine[j] = k
               PROVE  call'[k].stage \in {"registered", "late", "done"} =>
                        state'[j] \in Settled
    BY <1>1, <1>2 DEF TaskInv, CommitFits, Finishing, Settled
  <2>1. call[k].job = j
    BY DEF TaskInv, CommitFits
  <2>. QED
    BY <1>1, <1>2, <2>1 DEF TaskInv, TypeOK, CommitFits, Settled
<1>. QED
  BY <1>3, <1>4, <1>5 DEF TaskInv

LEMMA ThreadKeeps ==
  ASSUME TaskInv, TypeOK', NEW k \in Calls, Thread(k)
  PROVE  TaskInv'
<1> {"open", "registered", "done", "refused", "stuck", "late"} \subseteq Stages
  BY DEF Stages
<1>1. CASE ThreadOpens(k)
  BY <1>1, StageKeeps DEF ThreadOpens, At, tasks
<1>2. CASE ThreadRegisters(k)
  BY <1>2, StageKeeps DEF ThreadRegisters, At, WriteRow, SetState, tasks
<1>3. CASE ThreadReturns(k)
  BY <1>3, StageKeeps DEF ThreadReturns, At, tasks
<1>4. CASE ThreadRefuses(k)
  BY <1>4, StageKeeps DEF ThreadRefuses, At, tasks
<1>5. CASE ThreadRaises(k)
  BY <1>5, StageKeeps DEF ThreadRaises, At, tasks
<1>6. CASE ThreadRaisesLate(k)
  BY <1>6, StageKeeps DEF ThreadRaisesLate, At, tasks
<1>. QED
  BY <1>1, <1>2, <1>3, <1>4, <1>5, <1>6 DEF Thread

(* What leaves the jobs and their tasks alone.                             *)
LEMMA RestKeeps ==
  ASSUME TaskInv, TypeOK', UNCHANGED <<state, pc, mine, call, stopping, mode, todo>>
  PROVE  TaskInv'
BY DEF TaskInv, StoppingFits, CommitFits, ProcessFits, ReplayFits, NeverStranded

(* Jobs that have no task are queued.                                      *)
LEMMA QueueKeeps ==
  ASSUME TaskInv, TypeOK', NEW js \in SUBSET Jobs, mode = "up",
         \A j \in js : pc[j] = "none",
         \A j \in Jobs : state'[j] = IF j \in js THEN "QUEUED" ELSE state[j],
         UNCHANGED <<pc, mine, call, stopping, mode, todo>>
  PROVE  TaskInv'
<1>1. StoppingFits' /\ ProcessFits' /\ ReplayFits'
  BY DEF TaskInv, TypeOK, StoppingFits, ProcessFits, ReplayFits
<1>2. NeverStranded'
  BY DEF TaskInv, NeverStranded, Active
<1>3. CommitFits'
  BY DEF TaskInv, CommitFits
<1>. QED
  BY <1>1, <1>2, <1>3 DEF TaskInv

LEMMA UserKeeps ==
  ASSUME TaskInv, TypeOK', User
  PROVE  TaskInv'
<1>1. ASSUME NEW j \in Jobs, Enqueue(j) PROVE TaskInv'
  <2>1. /\ mode = "up" /\ state[j] = "new" /\ state' = [state EXCEPT ![j] = "QUEUED"]
        /\ UNCHANGED <<pc, mine, call, stopping, mode, todo>>
    BY <1>1 DEF Enqueue, LoopFree, SetState, tasks
  <2>2. StoppingFits' /\ ProcessFits' /\ ReplayFits'
    BY <2>1 DEF TaskInv, TypeOK, StoppingFits, ProcessFits, ReplayFits, Settled
  <2>3. NeverStranded' /\ CommitFits'
    BY <2>1 DEF TaskInv, TypeOK, NeverStranded, CommitFits, Active, Finishing
  <2>. QED
    BY <2>2, <2>3 DEF TaskInv
<1>2. ASSUME NEW j \in Jobs, Retry(j) PROVE TaskInv'
  <2>1. PICK m : Requeue({j}, m)
    BY <1>2 DEF Retry
  <2>2. \A i \in Jobs : state'[i] = IF i \in {j} THEN "QUEUED" ELSE state[i]
    BY <2>1 DEF Requeue
  <2>. QED
    BY <1>2, <2>1, <2>2, QueueKeeps DEF Retry, Requeue, LoopFree, tasks
<1>3. ASSUME NEW b \in Batches, RetryAllFailed(b) PROVE TaskInv'
  BY <1>3, QueueKeeps DEF RetryAllFailed, Requeue, LoopFree, tasks
<1>4. ASSUME NEW j \in Jobs, CancelJob(j) PROVE TaskInv'
  BY <1>4, RestKeeps DEF CancelJob, tasks
<1>5. ASSUME NEW b \in Batches, CancelBatch(b) \/ Pause(b) \/ Resume(b) \/ Reorder(b)
      PROVE  TaskInv'
  BY <1>5, RestKeeps DEF CancelBatch, Pause, Resume, Reorder, tasks
<1>6. CASE SessionChanges
  BY <1>6, RestKeeps DEF SessionChanges, tasks
<1>. QED
  BY <1>1, <1>2, <1>3, <1>4, <1>5, <1>6 DEF User

LEMMA CancelingKeeps ==
  ASSUME TaskInv, TypeOK', Canceling
  PROVE  TaskInv'
<1>1. CASE CancelWrite
  <2>1. /\ cancel.job \in Jobs /\ state' = [state EXCEPT ![cancel.job] = "CANCELED"]
        /\ UNCHANGED <<pc, mine, call, mode, todo>>
        /\ stopping' \in {stopping, stopping \cup {cancel.job}}
        /\ cancel.job \in stopping' => cancel.job \in stopping \/ pc[cancel.job] # "none"
    BY <1>1 DEF CancelWrite, SetState, TaskInv, TypeOK
  <2>2. StoppingFits' /\ ProcessFits' /\ ReplayFits'
    BY <2>1 DEF TaskInv, TypeOK, StoppingFits, ProcessFits, ReplayFits, Settled, Active
  <2>3. NeverStranded' /\ CommitFits'
    BY <2>1 DEF TaskInv, TypeOK, NeverStranded, CommitFits, Active, Finishing, Settled
  <2>. QED
    BY <2>2, <2>3 DEF TaskInv
<1>2. CASE CancelRecord
  BY <1>2, RestKeeps DEF CancelRecord, tasks
<1>3. ASSUME NEW j \in Jobs, CancelLook(j) PROVE TaskInv'
  BY <1>3, RestKeeps DEF CancelLook, tasks
<1>. QED
  BY <1>1, <1>2, <1>3 DEF Canceling

LEMMA CrashKeeps ==
  ASSUME TaskInv, TypeOK', Crash
  PROVE  TaskInv'
<1>1. mode' = "down" /\ todo' = {} /\ stopping' = {} /\ \A j \in Jobs : pc'[j] = "none"
  BY DEF Crash
<1>. QED
  BY <1>1 DEF TaskInv, StoppingFits, CommitFits, ProcessFits, ReplayFits, NeverStranded

LEMMA StartupKeeps ==
  ASSUME TaskInv, TypeOK', Startup
  PROVE  TaskInv'
<1>1. CASE Restart \/ EngineRecover
  <2>1. /\ mode \in {"down", "recovering"} /\ mode' \in {"recovering", "starting"}
        /\ todo' = OpenCalls /\ UNCHANGED <<pc, mine, call, stopping>>
        /\ \A j \in Jobs : state'[j] \notin Active
    BY <1>1 DEF Restart, EngineRecover, tasks, Active
  <2>2. \A j \in Jobs : pc[j] = "none"
    BY <2>1 DEF TaskInv, ProcessFits
  <2>3. ReplayFits'
    BY <2>1 DEF ReplayFits, OpenCalls
  <2>4. StoppingFits' /\ CommitFits' /\ ProcessFits' /\ NeverStranded'
    BY <2>1, <2>2 DEF TaskInv, TypeOK, StoppingFits, CommitFits, ProcessFits, NeverStranded
  <2>. QED
    BY <2>3, <2>4 DEF TaskInv
<1>2. CASE StartRunner
  <2>1. /\ mode = "starting" /\ mode' = "up" /\ todo = {} /\ todo' = {}
        /\ UNCHANGED <<state, pc, mine, call, stopping>>
    BY <1>2 DEF StartRunner
  <2>. QED
    BY <2>1 DEF TaskInv, StoppingFits, CommitFits, ProcessFits, ReplayFits, NeverStranded
<1>3. ASSUME NEW k \in Calls, RecoverCall(k) PROVE TaskInv'
  <2>1. /\ call[k] # None /\ call[k].stage = "stuck" /\ todo' = todo \ {k}
        /\ UNCHANGED <<pc, mine, stopping, mode>> /\ {"done", "refused"} \subseteq Stages
    BY <1>3 DEF RecoverCall, tasks, TaskInv, ReplayFits, Stages
  <2>2. CASE UNCHANGED <<state, call>>
    BY <2>1, <2>2 DEF TaskInv, StoppingFits, CommitFits, ProcessFits, ReplayFits,
       NeverStranded
  <2>3. CASE \/ Stage(k, "done") /\ WriteRow(k)
             \/ Stage(k, "refused") /\ UNCHANGED state
    BY <2>1, <2>3, StageKeeps DEF WriteRow, SetState
  <2>. QED
    BY <1>3, <2>2, <2>3 DEF RecoverCall
<1>. QED
  BY <1>1, <1>2, <1>3 DEF Startup

LEMMA StepKeeps ==
  ASSUME TaskInv, [Next]_vars
  PROVE  TaskInv'
<1>1. TypeOK'
  BY StepType DEF TaskInv
<1>2. CASE RunOnce
  <2>1. /\ mode = "up" /\ UNCHANGED <<state, mine, call, stopping, mode, todo>>
        /\ \A j \in Jobs : pc'[j] = pc[j] \/ (pc[j] = "none" /\ pc'[j] = "start")
    BY <1>2 DEF RunOnce, LoopFree, CanStart
  <2>2. StoppingFits' /\ ProcessFits' /\ ReplayFits'
    BY <2>1 DEF TaskInv, TypeOK, StoppingFits, ProcessFits, ReplayFits
  <2>3. NeverStranded' /\ CommitFits'
    BY <2>1 DEF TaskInv, NeverStranded, CommitFits
  <2>. QED
    BY <1>1, <2>2, <2>3 DEF TaskInv
<1>3. ASSUME NEW j \in Jobs, BecomesDue(j) PROVE TaskInv'
  BY <1>1, <1>3, RestKeeps DEF BecomesDue, tasks
<1>4. ASSUME NEW u \in Units, LoseCopy(u) PROVE TaskInv'
  BY <1>1, <1>4, RestKeeps DEF LoseCopy, tasks
<1>5. CASE UNCHANGED vars
  BY <1>1, <1>5, RestKeeps DEF vars, tasks
<1>. QED
  BY <1>1, <1>2, <1>3, <1>4, <1>5, TaskKeeps, ThreadKeeps, UserKeeps, CancelingKeeps,
     CrashKeeps, StartupKeeps DEF Next

LEMMA TaskInvHolds == Spec => []TaskInv
<1>1. Init => TaskInv
  BY InitType DEF Init, TaskInv, StoppingFits, CommitFits, ProcessFits, ReplayFits,
     NeverStranded, Active
<1>2. TaskInv /\ [Next]_vars => TaskInv'
  BY StepKeeps
<1>. QED
  BY <1>1, <1>2, PTL DEF Spec

(* While the application is up, a job in an active state has a task that   *)
(* works on it: for any number of jobs, calls and failures, whatever was   *)
(* canceled, retried or interrupted by a crash.                            *)
THEOREM NobodyIsStranded == Spec => []NeverStranded
<1>1. TaskInv => NeverStranded
  BY DEF TaskInv
<1>. QED
  BY <1>1, TaskInvHolds, PTL

-----------------------------------------------------------------------------
(* A canceled job.                                                         *)

Revived(j) ==
  \/ state'[j] = "QUEUED" /\ pc[j] = "none" /\ retries' # retries
  \/ state'[j] = "COMPLETED" /\ pc'[j] = pc[j]

LEMMA CanceledStep ==
  ASSUME TypeOK, ReplayFits, [Next]_vars, NEW j \in Jobs,
         state[j] = "CANCELED", state'[j] # "CANCELED"
  PROVE  Revived(j)
<1>1. ASSUME NEW i \in Jobs, Task(i) PROVE FALSE
  <2>1. ASSUME NEW s, NEW where, Proceed(i, s, where) PROVE FALSE
    BY <2>1 DEF Proceed, SetState, TypeOK
  <2>2. ASSUME NEW category \in Categories, HandleFailure(i, category) PROVE FALSE
    BY <2>2, FailureFacts DEF TypeOK
  <2>3. CASE CommitFailed(i) \/ AlreadyThere(i)
    BY <2>2, <2>3 DEF CommitFailed, AlreadyThere, Categories
  <2>4. ASSUME NEW category \in Categories, AttemptFails(i, category) PROVE FALSE
    BY <2>2, <2>4 DEF AttemptFails
  <2>. QED
    BY <1>1, <2>1, <2>3, <2>4 DEF Task, Start, NoticeCanceled, Prepared, Downloaded,
       Validated, StartCommit, CommitReturned, Stops
<1>2. ASSUME NEW k \in Calls, call[k] # None, WriteRow(k) PROVE state'[j] = "COMPLETED"
  BY <1>2, WriteRowFits DEF TypeOK
<1>3. ASSUME NEW k \in Calls, Thread(k) PROVE Revived(j)
  BY <1>2, <1>3 DEF Thread, ThreadOpens, ThreadRegisters, ThreadReturns, ThreadRefuses,
     ThreadRaises, ThreadRaisesLate, At, tasks, Revived
<1>4. ASSUME NEW k \in Calls, RecoverCall(k) PROVE Revived(j)
  BY <1>2, <1>4 DEF RecoverCall, ReplayFits, tasks, Revived
<1>5. ASSUME NEW js \in SUBSET Jobs, NEW m, Requeue(js, m)
      PROVE  j \in js /\ state'[j] = "QUEUED" /\ retries' # retries
  BY <1>5 DEF Requeue, TypeOK
<1>6. ASSUME NEW i \in Jobs, Retry(i) PROVE Revived(j)
  <2>1. \E m : Requeue({i}, m) /\ pc[i] = "none"
    BY <1>6 DEF Retry
  <2>. QED
    BY <1>5, <2>1 DEF Revived
<1>7. ASSUME NEW b \in Batches, RetryAllFailed(b) PROVE FALSE
  BY <1>5, <1>7 DEF RetryAllFailed
<1>8. ASSUME NEW i \in Jobs, Enqueue(i) PROVE FALSE
  BY <1>8 DEF Enqueue, SetState, TypeOK
<1>9. CASE UNCHANGED state
  BY <1>9
<1>10. User => \/ UNCHANGED state
               \/ \E i \in Jobs : Enqueue(i) \/ Retry(i)
               \/ \E b \in Batches : RetryAllFailed(b)
  BY DEF User, CancelJob, CancelBatch, Pause, Resume, Reorder, SessionChanges
<1>11. CASE Canceling
  BY <1>11 DEF Canceling, CancelWrite, CancelRecord, CancelLook, SetState, TypeOK
<1>12. CASE Restart \/ EngineRecover \/ StartRunner \/ Crash
  BY <1>12 DEF Restart, EngineRecover, StartRunner, Crash, TypeOK, Active
<1>13. CASE RunOnce \/ UNCHANGED vars \/ (\E i \in Jobs : BecomesDue(i))
            \/ \E u \in Units : LoseCopy(u)
  BY <1>13 DEF RunOnce, BecomesDue, LoseCopy, vars
<1>. QED
  BY <1>1, <1>3, <1>4, <1>6, <1>7, <1>8, <1>9, <1>10, <1>11, <1>12, <1>13 DEF Next, Startup

(* A canceled job comes back only when the user retries it and its task    *)
(* has ended, or when the thread of its commit registers what it had been  *)
(* given: no task, failure, crash or recovery revives it.                  *)
THEOREM CanceledJobsRest == Spec => CanceledStays
<1> DEFINE A == \A j \in Jobs : state[j] = "CANCELED" /\ state'[j] # "CANCELED" => Revived(j)
<1>1. TaskInv /\ [Next]_vars => [A]_vars
  BY CanceledStep DEF TaskInv
<1>2. A <=> \A j \in Jobs : state[j] = "CANCELED" /\ state'[j] # "CANCELED" =>
               \/ state'[j] = "QUEUED" /\ pc[j] = "none" /\ retries' # retries
               \/ state'[j] = "COMPLETED" /\ pc'[j] = pc[j]
  BY DEF Revived
<1>3. [A]_vars => [\A j \in Jobs : state[j] = "CANCELED" /\ state'[j] # "CANCELED" =>
               \/ state'[j] = "QUEUED" /\ pc[j] = "none" /\ retries' # retries
               \/ state'[j] = "COMPLETED" /\ pc'[j] = pc[j]]_vars
  BY <1>2
<1> HIDE DEF A
<1>. QED
  BY <1>1, <1>3, TaskInvHolds, PTL DEF Spec, CanceledStays

-----------------------------------------------------------------------------
(* The budget of attempts.                                                 *)

(* Steps that start no attempt and admit nothing to the queue.             *)
LEMMA BudgetRests ==
  ASSUME TypeOK, BudgetInv, UNCHANGED crashes, mode' = "up" \/ mode' = mode \/ mode # "up",
         \A j \in Jobs : attempts'[j] = attempts[j] \/ attempts'[j] = 0,
         \A j \in Jobs : /\ pc'[j] = "start" => pc[j] = "start" \/ state[j] \in Startable
                         /\ state'[j] \in Startable =>
                              \/ state[j] \in Startable \/ attempts'[j] = 0
                              \/ attempts[j] < RetryBudget \/ mode # "up"
  PROVE  BudgetInv'
<1> SUFFICES ASSUME RetryBudget > 0, NEW j \in Jobs
             PROVE  /\ attempts'[j] <= RetryBudget + crashes
                    /\ pc'[j] = "start" \/ state'[j] \in Startable \/ mode' # "up" =>
                         attempts'[j] < RetryBudget + crashes
  BY DEF BudgetInv
<1>1. /\ attempts[j] \in Nat /\ crashes \in Nat /\ RetryBudget \in Nat
      /\ attempts[j] <= RetryBudget + crashes
      /\ pc[j] = "start" \/ state[j] \in Startable \/ mode # "up" =>
           attempts[j] < RetryBudget + crashes
  BY Constants DEF TypeOK, BudgetInv
<1>. QED
  BY <1>1

LEMMA BudgetKeeps ==
  ASSUME TaskInv, BudgetInv, [Next]_vars
  PROVE  BudgetInv'
<1>0. TypeOK /\ ReplayFits
  BY DEF TaskInv
<1>1. ASSUME NEW j \in Jobs, Start(j) PROVE BudgetInv'
  <2>1. /\ attempts' = [attempts EXCEPT ![j] = @ + 1] /\ pc[j] = "start"
        /\ state' = [state EXCEPT ![j] = "PREPARING"] /\ pc' = [pc EXCEPT ![j] = "prepare"]
        /\ UNCHANGED <<mode, crashes>> /\ mode = "up"
    BY <1>1 DEF Start, Resumes, LoopFree, Proceed, SetState, Goto, env
  <2>. QED
    BY <1>0, <2>1, Constants DEF BudgetInv, TypeOK, Startable, Runnable, Waiting
<1>2. ASSUME NEW j \in Jobs, NEW category \in Categories, HandleFailure(j, category),
             UNCHANGED crashes
      PROVE  BudgetInv'
  <2>1. UNCHANGED mode /\ pc' = [pc EXCEPT ![j] = "none"]
    BY <1>0, <1>2, FailureFacts DEF TaskEnds, Goto
  <2>2. PICK s \in FailedStates, n \in {0, attempts[j]} :
          /\ state' = [state EXCEPT ![j] = s] /\ attempts' = [attempts EXCEPT ![j] = n]
          /\ n = 0 \/ s = "FAILED" \/ n < RetryBudget
    BY <1>0, <1>2, FailureFacts
  <2>3. \A i \in Jobs : attempts'[i] = attempts[i] \/ attempts'[i] = 0
    BY <1>0, <2>2 DEF TypeOK
  <2>4. ASSUME NEW i \in Jobs
        PROVE  /\ pc'[i] = "start" => pc[i] = "start" \/ state[i] \in Startable
               /\ state'[i] \in Startable =>
                    \/ state[i] \in Startable \/ attempts'[i] = 0
                    \/ attempts[i] < RetryBudget \/ mode # "up"
    BY <1>0, <2>1, <2>2 DEF TypeOK, Startable, Runnable, Waiting
  <2>. QED
    BY <1>0, <1>2, <2>1, <2>3, <2>4, BudgetRests
<1>3. ASSUME NEW j \in Jobs, NEW s \in Active, NEW where, where # "start",
             Proceed(j, s, where), UNCHANGED attempts
      PROVE  BudgetInv'
  <2>1. /\ state' = [state EXCEPT ![j] = s] /\ pc' = [pc EXCEPT ![j] = where]
        /\ UNCHANGED <<mode, crashes>> /\ s \notin Startable
    BY <1>3 DEF Proceed, SetState, Goto, env, Active, Startable, Runnable, Waiting
  <2>. QED
    BY <1>0, <1>3, <2>1, BudgetRests DEF TypeOK
<1>4. ASSUME NEW j \in Jobs, Prepared(j) \/ Downloaded(j) \/ Validated(j) PROVE BudgetInv'
  BY <1>3, <1>4 DEF Prepared, Downloaded, Validated, Active
<1>5. ASSUME NEW j \in Jobs, NoticeCanceled(j) \/ CommitReturned(j) \/ Stops(j)
      PROVE  BudgetInv'
  <2>1. UNCHANGED <<state, attempts, mode, crashes>> /\ pc' = [pc EXCEPT ![j] = "none"]
    BY <1>5 DEF NoticeCanceled, CommitReturned, Stops, TaskEnds, Goto, queue, env
  <2>. QED
    BY <1>0, <2>1, BudgetRests DEF TypeOK
<1>6. ASSUME NEW j \in Jobs, NEW k \in Calls, StartCommit(j, k) PROVE BudgetInv'
  <2>1. UNCHANGED <<state, attempts, mode, crashes>> /\ pc' = [pc EXCEPT ![j] = "commit"]
    BY <1>6 DEF StartCommit, Goto, queue, env
  <2>. QED
    BY <1>0, <2>1, BudgetRests DEF TypeOK
<1>7. ASSUME NEW j \in Jobs, Task(j) PROVE BudgetInv'
  <2>1. CommitFailed(j) \/ AlreadyThere(j) => BudgetInv'
    BY <1>2 DEF CommitFailed, AlreadyThere, env, Categories
  <2>2. ASSUME NEW category \in Categories, AttemptFails(j, category) PROVE BudgetInv'
    BY <1>2, <2>2 DEF AttemptFails
  <2>. QED
    BY <1>1, <1>4, <1>5, <1>6, <1>7, <2>1, <2>2 DEF Task
<1>8. ASSUME NEW k \in Calls, Thread(k) \/ RecoverCall(k) PROVE BudgetInv'
  <2>1. UNCHANGED <<attempts, mode, crashes, pc>>
    BY <1>8 DEF Thread, ThreadOpens, ThreadRegisters, ThreadReturns, ThreadRefuses,
       ThreadRaises, ThreadRaisesLate, RecoverCall, queue, tasks, env
  <2>2. UNCHANGED state \/ (call[k] # None /\ WriteRow(k))
    BY <1>0, <1>8 DEF Thread, ThreadOpens, ThreadRegisters, ThreadReturns, ThreadRefuses,
       ThreadRaises, ThreadRaisesLate, RecoverCall, ReplayFits, At
  <2>3. \A j \in Jobs : state'[j] = state[j] \/ state'[j] = "COMPLETED"
    BY <1>0, <2>2, WriteRowFits DEF TypeOK
  <2>. QED
    BY <1>0, <2>1, <2>3, BudgetRests DEF Startable, Runnable, Waiting
<1>9. ASSUME NEW js \in SUBSET Jobs, NEW m, Requeue(js, m) PROVE BudgetInv'
  <2>1. /\ UNCHANGED <<mode, crashes, pc>>
        /\ \A j \in Jobs : IF j \in js THEN attempts'[j] = 0
                           ELSE attempts'[j] = attempts[j] /\ state'[j] = state[j]
    BY <1>9 DEF Requeue, tasks
  <2>. QED
    BY <1>0, <2>1, BudgetRests
<1>10. CASE User
  <2>1. ASSUME NEW j \in Jobs, Enqueue(j) PROVE BudgetInv'
    <3>1. /\ UNCHANGED <<attempts, mode, crashes, pc>> /\ state[j] = "new"
          /\ state' = [state EXCEPT ![j] = "QUEUED"]
      BY <2>1 DEF Enqueue, SetState, tasks, env
    <3>. QED
      BY <1>0, <3>1, BudgetRests DEF TypeOK, Startable
  <2>2. ASSUME NEW j \in Jobs, Retry(j) PROVE BudgetInv'
    BY <1>9, <2>2 DEF Retry
  <2>3. ASSUME NEW b \in Batches, RetryAllFailed(b) PROVE BudgetInv'
    BY <1>9, <2>3 DEF RetryAllFailed
  <2>4. CASE UNCHANGED <<state, attempts, mode, crashes, pc>>
    BY <1>0, <2>4, BudgetRests
  <2>5. ASSUME NEW j \in Jobs, CancelJob(j) PROVE BudgetInv'
    BY <2>4, <2>5 DEF CancelJob, queue, tasks, env
  <2>6. ASSUME NEW b \in Batches, CancelBatch(b) \/ Pause(b) \/ Resume(b) \/ Reorder(b)
        PROVE  BudgetInv'
    BY <2>4, <2>6 DEF CancelBatch, Pause, Resume, Reorder, queue, tasks, env
  <2>7. CASE SessionChanges
    BY <2>4, <2>7 DEF SessionChanges, queue, tasks
  <2>. QED
    BY <1>10, <2>1, <2>2, <2>3, <2>5, <2>6, <2>7 DEF User
<1>11. CASE Canceling
  <2>1. UNCHANGED <<attempts, mode, crashes, pc>>
    BY <1>11 DEF Canceling, CancelWrite, CancelRecord, CancelLook, queue, tasks, env
  <2>2. \A j \in Jobs : state'[j] = state[j] \/ state'[j] = "CANCELED"
    BY <1>0, <1>11 DEF Canceling, CancelWrite, CancelRecord, CancelLook, SetState, TypeOK
  <2>. QED
    BY <1>0, <2>1, <2>2, BudgetRests DEF Startable, Runnable, Waiting
<1>12. CASE Crash
  <2>1. crashes' = crashes + 1 /\ UNCHANGED attempts
    BY <1>12 DEF Crash, queue
  <2>. QED
    BY <1>0, <2>1, Constants DEF BudgetInv, TypeOK
<1>13. CASE Restart \/ EngineRecover \/ StartRunner
  <2>1. UNCHANGED <<attempts, crashes, pc>> /\ mode # "up"
    BY <1>13 DEF Restart, EngineRecover, StartRunner, queue, tasks, env
  <2>. QED
    BY <1>0, <2>1, BudgetRests
<1>14. CASE RunOnce
  <2>1. /\ UNCHANGED <<state, attempts, mode, crashes>>
        /\ \A j \in Jobs : pc'[j] = pc[j] \/ j \in Eligible
    BY <1>14 DEF RunOnce, Window, queue, env
  <2>. QED
    BY <1>0, <2>1, BudgetRests DEF Eligible, Startable
<1>15. CASE UNCHANGED <<state, attempts, mode, crashes, pc>>
  BY <1>0, <1>15, BudgetRests
<1>16. (\E j \in Jobs : BecomesDue(j)) \/ (\E u \in Units : LoseCopy(u)) \/ UNCHANGED vars
       => UNCHANGED <<state, attempts, mode, crashes, pc>>
  BY DEF BecomesDue, LoseCopy, vars, queue, tasks, env
<1>. QED
  BY <1>7, <1>8, <1>10, <1>11, <1>12, <1>13, <1>14, <1>15, <1>16 DEF Next, Startup

-----------------------------------------------------------------------------
(* The calls of jobs that nobody retried.                                  *)

(* A step forgets neither a retry nor a late error.                        *)
LEMMA CountersGrow ==
  ASSUME TypeOK, [Next]_vars, retries' = 0, lateErrors' = 0
  PROVE  retries = 0 /\ lateErrors = 0
<1>1. ASSUME NEW j \in Jobs, Task(j) PROVE UNCHANGED <<retries, lateErrors>>
  BY <1>1 DEF Task, Start, NoticeCanceled, Prepared, Downloaded, Validated, Proceed,
     StartCommit, CommitReturned, CommitFailed, AlreadyThere, AttemptFails, Stops, env
<1>2. ASSUME NEW k \in Calls, Thread(k) \/ RecoverCall(k)
      PROVE  UNCHANGED retries /\ (UNCHANGED lateErrors \/ lateErrors' = lateErrors + 1)
  BY <1>2 DEF Thread, ThreadOpens, ThreadRegisters, ThreadReturns, ThreadRefuses,
     ThreadRaises, ThreadRaisesLate, RecoverCall, env
<1>3. User => UNCHANGED lateErrors /\ (UNCHANGED retries \/ retries' = retries + 1)
  BY DEF User, Enqueue, CancelJob, Retry, Requeue, CancelBatch, RetryAllFailed, Pause, Resume,
     Reorder, SessionChanges, env
<1>4. \/ RunOnce \/ Canceling \/ Restart \/ EngineRecover \/ StartRunner \/ Crash
      \/ (\E j \in Jobs : BecomesDue(j)) \/ (\E u \in Units : LoseCopy(u)) \/ UNCHANGED vars
      => UNCHANGED <<retries, lateErrors>>
  BY DEF RunOnce, Canceling, CancelWrite, CancelRecord, CancelLook, Restart, EngineRecover,
     StartRunner, Crash, BecomesDue, LoseCopy, vars, env
<1>. QED
  BY <1>1, <1>2, <1>3, <1>4 DEF Next, Startup, TypeOK

(* Steps that leave the calls as they are, and no job of a call behind.    *)
LEMMA OwnedRests ==
  ASSUME TaskInv, CallsAreOwned, UNCHANGED call,
         mode' = "up" \/ mode' = mode \/ mode # "up",
         \A j \in Jobs :
           \/ /\ pc'[j] = pc[j] /\ mine'[j] = mine[j]
              /\ state[j] \in Settled => state'[j] \in Settled
           \/ pc[j] \notin {"none", "commit"}
           \/ pc[j] = "commit" /\ pc'[j] = "none" /\ {state[j], state'[j]} \subseteq Settled
           \/ pc[j] = "commit" /\ call[mine[j]].stage \in {"refused", "stuck", "late"}
           \/ pc[j] = "none" /\ state[j] \notin Settled
  PROVE  CallsAreOwned'
<1> SUFFICES ASSUME NEW k \in Calls, call[k] # None, NEW j \in Jobs, j = call[k].job
             PROVE  /\ call[k].stage \in {"running", "open"} =>
                         \/ pc'[j] = "commit" /\ mine'[j] = k
                         \/ pc'[j] = "none" /\ state'[j] \in Settled
                    /\ call[k].stage \in {"running", "open"} => mode' = "up"
                    /\ call[k].stage \in {"registered", "done"} =>
                         /\ state'[j] \in Settled
                         /\ pc'[j] = "none" \/ (pc'[j] = "commit" /\ mine'[j] = k)
                    /\ call[k].stage # "late"
  BY DEF CallsAreOwned, TaskInv, TypeOK
<1>1. /\ call[k].stage \in {"running", "open"} =>
           \/ pc[j] = "commit" /\ mine[j] = k
           \/ pc[j] = "none" /\ state[j] \in Settled
      /\ call[k].stage \in {"running", "open"} => mode = "up"
      /\ call[k].stage \in {"registered", "done"} =>
           /\ state[j] \in Settled
           /\ pc[j] = "none" \/ (pc[j] = "commit" /\ mine[j] = k)
      /\ call[k].stage # "late"
  BY DEF CallsAreOwned
<1>. QED
  BY <1>1

(* A call moves on.                                                        *)
LEMMA OwnedMoves ==
  ASSUME TaskInv, CallsAreOwned, NEW k \in Calls, call[k] # None, NEW stage \in Stages,
         Stage(k, stage), UNCHANGED <<pc, mine, mode>>,
         \/ UNCHANGED state
         \/ state' = [state EXCEPT ![call[k].job] = "COMPLETED"],
         \/ stage \in {"stuck", "refused"}
         \/ stage = "open" /\ call[k].stage = "running"
         \/ stage = "done" /\ call[k].stage = "registered"
         \/ /\ stage = "registered" /\ call[k].stage = "open"
            /\ state' = [state EXCEPT ![call[k].job] = "COMPLETED"]
         \/ /\ stage = "done" /\ mode # "up"
            /\ state' = [state EXCEPT ![call[k].job] = "COMPLETED"]
  PROVE  CallsAreOwned'
<1>1. /\ call'[k] # None /\ call'[k].job = call[k].job /\ call'[k].stage = stage
      /\ \A h \in Calls \ {k} : call'[h] = call[h]
      /\ call[k].job \in Jobs
  BY StageFits DEF TaskInv, TypeOK
<1>2. \A j \in Jobs : state[j] \in Settled => state'[j] \in Settled
  BY DEF TaskInv, TypeOK, Settled
<1>3. state' = [state EXCEPT ![call[k].job] = "COMPLETED"] => state'[call[k].job] \in Settled
  BY <1>1 DEF TaskInv, TypeOK, Settled
<1>4. mode # "up" => pc[call[k].job] = "none"
  BY <1>1 DEF TaskInv, ProcessFits
<1>5. ASSUME NEW h \in Calls \ {k}, call[h] # None
      PROVE  /\ call'[h].stage \in {"running", "open"} =>
                  \/ pc'[call'[h].job] = "commit" /\ mine'[call'[h].job] = h
                  \/ pc'[call'[h].job] = "none" /\ state'[call'[h].job] \in Settled
             /\ call'[h].stage \in {"running", "open"} => mode' = "up"
             /\ call'[h].stage \in {"registered", "done"} =>
                  /\ state'[call'[h].job] \in Settled
                  /\ \/ pc'[call'[h].job] = "none"
                     \/ pc'[call'[h].job] = "commit" /\ mine'[call'[h].job] = h
             /\ call'[h].stage # "late"
  <2>1. call[h].job \in Jobs /\ call'[h] = call[h]
    BY <1>1, <1>5 DEF TaskInv, TypeOK
  <2>. QED
    BY <1>2, <1>5, <2>1 DEF CallsAreOwned
<1>6. /\ call'[k].stage \in {"running", "open"} =>
           \/ pc'[call'[k].job] = "commit" /\ mine'[call'[k].job] = k
           \/ pc'[call'[k].job] = "none" /\ state'[call'[k].job] \in Settled
      /\ call'[k].stage \in {"running", "open"} => mode' = "up"
      /\ call'[k].stage \in {"registered", "done"} =>
           /\ state'[call'[k].job] \in Settled
           /\ \/ pc'[call'[k].job] = "none"
              \/ pc'[call'[k].job] = "commit" /\ mine'[call'[k].job] = k
      /\ call'[k].stage # "late"
  BY <1>1, <1>2, <1>3, <1>4 DEF CallsAreOwned
<1>. QED
  BY <1>1, <1>5, <1>6 DEF CallsAreOwned

LEMMA OwnedKeeps ==
  ASSUME TaskInv, CallsAreOwned, [Next]_vars, retries' = 0, lateErrors' = 0
  PROVE  CallsAreOwned'
<1>0. retries = 0 /\ lateErrors = 0 /\ TypeOK /\ TaskInv'
  BY CountersGrow, StepKeeps DEF TaskInv
<1>1. ASSUME NEW j \in Jobs, NEW s, NEW where, Proceed(j, s, where),
             pc[j] \notin {"none", "commit"}
      PROVE  CallsAreOwned'
  <2>1. /\ UNCHANGED <<call, mode, mine>>
        /\ \A i \in Jobs \ {j} : state'[i] = state[i] /\ pc'[i] = pc[i]
    BY <1>0, <1>1 DEF Proceed, SetState, Goto, TypeOK
  <2>. QED
    BY <1>1, <2>1, OwnedRests
<1>2. ASSUME NEW j \in Jobs, TaskEnds(j), UNCHANGED <<call, mode>>,
             \A i \in Jobs \ {j} : state'[i] = state[i],
             \/ pc[j] \notin {"none", "commit"}
             \/ UNCHANGED state /\ pc[j] = "commit" /\ state[j] \in Settled
             \/ pc[j] = "commit" /\ call[mine[j]].stage \in {"refused", "stuck", "late"}
      PROVE  CallsAreOwned'
  <2>1. /\ pc'[j] = "none"
        /\ \A i \in Jobs \ {j} : mine'[i] = mine[i] /\ pc'[i] = pc[i]
    BY <1>0, <1>2 DEF TaskEnds, Goto, TypeOK
  <2>. QED
    BY <1>2, <2>1, OwnedRests
<1>3. ASSUME NEW j \in Jobs, NEW category \in Categories, HandleFailure(j, category),
             \/ pc[j] \notin {"none", "commit"}
             \/ pc[j] = "commit" /\ call[mine[j]].stage \in {"refused", "stuck", "late"}
      PROVE  CallsAreOwned'
  <2>1. /\ TaskEnds(j) /\ UNCHANGED <<call, mode>>
        /\ \A i \in Jobs \ {j} : state'[i] = state[i]
    BY <1>0, <1>3, FailureFacts DEF TypeOK
  <2>. QED
    BY <1>2, <1>3, <2>1
<1>4. ASSUME NEW j \in Jobs, NEW k \in Calls, StartCommit(j, k) PROVE CallsAreOwned'
  <2>1. /\ call[k] = None /\ mode = "up" /\ pc[j] = "hash"
        /\ call'[k].job = j /\ call'[k].stage = "running"
        /\ \A h \in Calls \ {k} : call'[h] = call[h]
        /\ mine'[j] = k /\ pc'[j] = "commit"
        /\ \A i \in Jobs \ {j} : mine'[i] = mine[i] /\ pc'[i] = pc[i]
        /\ UNCHANGED <<state, mode>>
    BY <1>0, <1>4 DEF StartCommit, Resumes, LoopFree, Goto, TypeOK
  <2>2. \A h \in Calls \ {k} : call[h] # None => call[h].job \in Jobs
    BY <1>0 DEF TypeOK
  <2>. QED
    BY <2>1, <2>2 DEF CallsAreOwned
<1>5. ASSUME NEW j \in Jobs, Task(j) PROVE CallsAreOwned'
  <2>1. Start(j) \/ Prepared(j) \/ Downloaded(j) \/ Validated(j) => CallsAreOwned'
    BY <1>1 DEF Start, Prepared, Downloaded, Validated, Resumes
  <2>2. NoticeCanceled(j) => CallsAreOwned'
    BY <1>2 DEF NoticeCanceled, Resumes
  <2>3. CommitReturned(j) => CallsAreOwned'
    BY <1>2 DEF CommitReturned, Resumes, TaskInv, CommitFits
  <2>4. CommitFailed(j) \/ AlreadyThere(j) => CallsAreOwned'
    BY <1>3 DEF CommitFailed, AlreadyThere, Resumes, Categories
  <2>5. ASSUME NEW category \in Categories, AttemptFails(j, category) PROVE CallsAreOwned'
    BY <1>3, <2>5 DEF AttemptFails, Resumes
  <2>6. Stops(j) => CallsAreOwned'
    BY <1>2 DEF Stops, TaskInv, StoppingFits
  <2>. QED
    BY <1>4, <1>5, <2>1, <2>2, <2>3, <2>4, <2>5, <2>6 DEF Task
<1>6. ASSUME NEW k \in Calls, Thread(k) PROVE CallsAreOwned'
  <2> {"open", "registered", "done", "refused", "stuck", "late"} \subseteq Stages
    BY DEF Stages
  <2>1. ThreadOpens(k) \/ ThreadReturns(k) \/ ThreadRefuses(k) \/ ThreadRaises(k)
        => CallsAreOwned'
    BY OwnedMoves DEF ThreadOpens, ThreadReturns, ThreadRefuses, ThreadRaises, At, tasks
  <2>2. ThreadRegisters(k) => CallsAreOwned'
    BY OwnedMoves DEF ThreadRegisters, At, WriteRow, SetState, tasks
  <2>3. ~ThreadRaisesLate(k)
    BY <1>0 DEF ThreadRaisesLate, TypeOK
  <2>. QED
    BY <1>6, <2>1, <2>2, <2>3 DEF Thread
<1>7. ASSUME NEW k \in Calls, RecoverCall(k) PROVE CallsAreOwned'
  <2>1. /\ call[k] # None /\ UNCHANGED <<pc, mine, mode>> /\ mode # "up"
        /\ {"done", "refused"} \subseteq Stages
    BY <1>0, <1>7 DEF RecoverCall, tasks, TaskInv, ReplayFits, Stages
  <2>2. UNCHANGED <<state, call>> => CallsAreOwned'
    BY <2>1, OwnedRests
  <2>3. \/ Stage(k, "done") /\ WriteRow(k)
        \/ Stage(k, "refused") /\ UNCHANGED state
        => CallsAreOwned'
    BY <2>1, OwnedMoves DEF WriteRow, SetState
  <2>. QED
    BY <1>7, <2>2, <2>3 DEF RecoverCall
<1>8. CASE Crash
  <2>1. \A j \in Jobs : pc'[j] = "none" /\ state'[j] = state[j]
    BY <1>8 DEF Crash
  <2>2. \A k \in Calls :
          /\ call'[k] # None => call[k] # None /\ call'[k].job = call[k].job
          /\ call'[k] # None => call'[k].stage \notin {"running", "open", "late"}
          /\ call'[k] # None /\ call'[k].stage = "done" =>
               call[k].stage \in {"registered", "late", "done"}
          /\ call'[k] # None => call'[k].stage # "registered"
    <3> SUFFICES ASSUME NEW k \in Calls, call[k] # None
                 PROVE  /\ call'[k].job = call[k].job
                        /\ call'[k].stage \notin {"running", "open", "late", "registered"}
                        /\ call'[k].stage = "done" =>
                             call[k].stage \in {"registered", "late", "done"}
      BY <1>8 DEF Crash
    <3>1. call[k] \in [job : Jobs, fresh : BOOLEAN, stage : Stages]
      BY <1>0 DEF TypeOK
    <3>. QED
      BY <1>8, <3>1 DEF Crash
  <2>3. \A k \in Calls : call[k] # None => call[k].job \in Jobs
    BY <1>0 DEF TypeOK
  <2>. QED
    BY <2>1, <2>2, <2>3 DEF CallsAreOwned
<1>9. CASE Restart \/ EngineRecover \/ StartRunner
  <2>1. /\ UNCHANGED <<call, pc, mine>> /\ mode # "up"
        /\ \A j \in Jobs : state[j] \in Settled => state'[j] = state[j]
    BY <1>9 DEF Restart, EngineRecover, StartRunner, tasks, Settled, Active
  <2>. QED
    BY <2>1, OwnedRests
<1>10. CASE User
  <2>1. ASSUME NEW j \in Jobs, Enqueue(j) PROVE CallsAreOwned'
    <3>1. /\ UNCHANGED <<call, mode, pc, mine>> /\ state[j] = "new"
          /\ \A i \in Jobs \ {j} : state'[i] = state[i]
      BY <1>0, <2>1 DEF Enqueue, SetState, tasks, TypeOK
    <3>. QED
      BY <3>1, OwnedRests DEF Settled
  <2>2. ~ \E js, m : Requeue(js, m)
    BY <1>0 DEF Requeue
  <2>3. UNCHANGED <<state, call, mode, pc, mine>> => CallsAreOwned'
    BY OwnedRests
  <2>4. \/ \E j \in Jobs : Enqueue(j)
        \/ \E js, m : Requeue(js, m)
        \/ UNCHANGED <<state, call, mode, pc, mine>>
    BY <1>10 DEF User, CancelJob, Retry, CancelBatch, RetryAllFailed, Pause, Resume, Reorder,
       SessionChanges, tasks
  <2>. QED
    BY <2>1, <2>2, <2>3, <2>4
<1>11. CASE Canceling
  <2>1. /\ UNCHANGED <<call, mode, pc, mine>>
        /\ \A j \in Jobs : state'[j] = state[j] \/ state'[j] = "CANCELED"
    BY <1>0, <1>11 DEF Canceling, CancelWrite, CancelRecord, CancelLook, SetState, tasks,
       TypeOK
  <2>. QED
    BY <2>1, OwnedRests DEF Settled
<1>12. CASE RunOnce
  <2>1. /\ UNCHANGED <<call, mode, mine, state>>
        /\ \A j \in Jobs : \/ pc'[j] = pc[j]
                           \/ pc[j] = "none" /\ state[j] \in Runnable
    BY <1>12 DEF RunOnce, Window, Eligible, CanStart
  <2>. QED
    BY <2>1, OwnedRests DEF Settled, Runnable, Waiting
<1>13. CASE \/ \E j \in Jobs : BecomesDue(j)
            \/ \E u \in Units : LoseCopy(u)
            \/ UNCHANGED vars
  <2>1. UNCHANGED <<state, call, mode, pc, mine>>
    BY <1>13 DEF BecomesDue, LoseCopy, vars, tasks
  <2>. QED
    BY <2>1, OwnedRests
<1>. QED
  BY <1>5, <1>6, <1>7, <1>8, <1>9, <1>10, <1>11, <1>12, <1>13 DEF Next, Startup

LEMMA WorkInvHolds == Spec => []WorkInv
<1>1. Init => WorkInv
  <2> SUFFICES ASSUME Init PROVE WorkInv
    OBVIOUS
  <2>1. TaskInv
    BY InitType DEF Init, TaskInv, StoppingFits, CommitFits, ProcessFits, ReplayFits,
       NeverStranded, Active
  <2>2. BudgetInv /\ CallsAreOwned
    BY Constants DEF Init, BudgetInv, CallsAreOwned
  <2>. QED
    BY <2>1, <2>2 DEF WorkInv
<1>2. WorkInv /\ [Next]_vars => WorkInv'
  BY StepKeeps, BudgetKeeps, OwnedKeeps, CountersGrow DEF WorkInv, TaskInv
<1>. QED
  BY <1>1, <1>2, PTL DEF Spec

(* The work on a job is bounded, for any number of jobs and calls and any  *)
(* budget: no method is attempted more often than the budget and the       *)
(* crashes allow, and what was registered is not downloaded again.         *)
THEOREM WorkStaysBounded == Spec => []WorkIsBounded
<1>1. WorkInv => WorkIsBounded
  <2> SUFFICES ASSUME WorkInv PROVE WorkIsBounded
    OBVIOUS
  <2>1. TypeOK /\ AttemptsBounded
    BY DEF WorkInv, TaskInv, BudgetInv, AttemptsBounded
  <2>2. NoWorkAfterRegistration
    BY DEF WorkInv, CallsAreOwned, NoWorkAfterRegistration
  <2>. QED
    BY <2>1, <2>2 DEF WorkIsBounded
<1>. QED
  BY <1>1, WorkInvHolds, PTL

===============================================================================
