-------------------------- MODULE CommitFiles_proofs --------------------------
(***************************************************************************)
(* Proofs about the files of the library, for any number of commits,       *)
(* areas, slots, paths and contents, where a slot's commits come one at a  *)
(* time and no scan overlaps them: the file of a registered row stays, and *)
(* no artifact is left in the library that nothing accounts for.           *)
(***************************************************************************)
EXTENDS CommitJournal_proofs

USE ConstantsAssumption, NoneAssumption DEF ConstantsAssumption, NoneAssumption

OneByOne == OneAtATime /\ ~OverlappingScans

(* A call works on its slot from its request until its thread has ended    *)
(* and its journal entry is closed or aborted.                             *)
Busy(c) == req[c] # None /\ (pc[c] # "idle" \/ Open(c))

Unregistered(c) == Busy(c) /\ (jstate[c] = "none" \/ jstate[c] \in Trying)

OneBusy == \A c, d \in Commits : Busy(c) /\ Busy(d) /\ Slot(c) = Slot(d) => c = d

-----------------------------------------------------------------------------
(* One call at a time works on a slot.                                     *)

LEMMA BusyFacts ==
  ASSUME TypeInv, PathsFit, NEW c \in Commits, Busy(c)
  PROVE  /\ req[c] \in Requests /\ Slot(c) \in Slots /\ req[c].area \in Areas
         /\ req[c].final \in Paths /\ req[c].final \in Places[Slot(c)]
         /\ req[c].old # None => req[c].old \in Paths /\ req[c].old \in Places[Slot(c)]
<1>1. req[c] \in Requests /\ req[c] # None
  BY DEF TypeInv, TypeOK, Busy
<1>2. req[c].area \in Areas /\ req[c].final \in Paths /\ req[c].old \in Paths \cup {None}
  BY <1>1, Zenon DEF Requests
<1>. QED
  BY <1>1, <1>2 DEF PathsFit, Slot

(* Only a request makes a call busy.                                       *)
LEMMA BusySteps ==
  ASSUME TypeInv, [Next]_vars
  PROVE  \/ \E c \in Commits, a \in Areas, f \in Paths : Request(c, a, f)
         \/ \A c \in Commits : Busy(c)' => Busy(c)
<1> DEFINE Stays == \A c \in Commits : Busy(c)' => Busy(c)
<1>0. TypeInv'
  BY NextTypeInv
<1>1. UNCHANGED <<req, pc, jstate>> => Stays
  BY DEF Busy, Open
<1>2. ASSUME NEW c \in Commits, Thread(c) PROVE Stays
  <2>1. pc[c] # "idle" /\ req[c] # None
    BY <1>2 DEF TypeInv, ThreadFitsJournal, Thread, Commit, CommitCheck, CommitRefuse,
       InsertJournal, Move, RetireOld, NothingToRetire, AlreadyInPlace, Occupied, PlaceIsFree,
       StagedMissing, LinkFinal, UnlinkStaged, LinkUnsupported, RenameFinal, MarkMoved,
       Finish, VerifyFinal, VerifyFails, Register, DropStaged, DropOld, Close, RestoreOld,
       NothingToRestore, Raise, At
  <2>2. \A d \in Commits \ {c} : /\ pc'[d] = pc[d] /\ jstate'[d] = jstate[d]
                                 /\ req'[d] = req[d]
    <3>1. CASE Commit(c)
      BY <3>1 DEF Commit, CommitCheck, CommitRefuse, InsertJournal, Goto, SetState, TypeInv,
         TypeOK, db
    <3>2. CASE Move(c)
      BY <3>2 DEF Move, RetireOld, NothingToRetire, AlreadyInPlace, Occupied, PlaceIsFree,
         StagedMissing, LinkFinal, UnlinkStaged, LinkUnsupported, RenameFinal, MarkMoved,
         Goto, SetState, TypeInv, TypeOK, db
    <3>3. CASE Finish(c)
      BY <3>3 DEF Finish, VerifyFinal, VerifyFails, Register, DropStaged, DropOld, Close,
         RestoreOld, NothingToRestore, Goto, SetState, TypeInv, TypeOK, db, proc
    <3>4. CASE Raise(c)
      BY <3>4 DEF Raise, Goto, TypeInv, TypeOK, db
    <3>. QED
      BY <1>2, <3>1, <3>2, <3>3, <3>4 DEF Thread
  <2>. QED
    BY <2>1, <2>2 DEF Busy, Open
<1>3. ASSUME NEW c \in Commits, Recover(c) PROVE Stays
  <2>1. /\ UNCHANGED <<req, jstate>> /\ jstate[c] \in OpenStates /\ req[c] # None
        /\ \A d \in Commits \ {c} : pc'[d] = pc[d]
    BY <1>3 DEF Recover, TypeInv, TypeOK, ThreadFitsJournal, OpenStates, db
  <2>. QED
    BY <2>1 DEF Busy, Open
<1>4. CASE Crash
  BY <1>4 DEF Crash, Busy, Open, db
<1>5. CASE Restart \/ Serve \/ RootLost \/ RootBack \/ UNCHANGED vars
           \/ \E p \in Paths, x \in {Junk, None} : Tamper(p, x)
  BY <1>1, <1>5 DEF Restart, Serve, RootLost, RootBack, Tamper, vars, db, proc
<1>6. CASE Owner /\ ~ \E c \in Commits, a \in Areas, f \in Paths : Request(c, a, f)
  BY <1>1, <1>6 DEF Owner, Stage, MarkMissing, Scan, ScanLook, ScanWrite, RemoveArea,
     CancelJob, CleanArea, db, proc
<1>. QED
  BY <1>2, <1>3, <1>4, <1>5, <1>6 DEF Next, Startup, Environment

(* What a request finds and leaves.                                        *)
LEMMA RequestFacts ==
  ASSUME TypeInv, OneAtATime, NEW c \in Commits, NEW a \in Areas, NEW f \in Paths,
         Request(c, a, f)
  PROVE  /\ Slot(c)' = SlotOf[a] /\ SlotOf[a] \in Slots /\ SlotOf[a] \notin sound
         /\ \A d \in Commits : Busy(d) => Slot(d) # SlotOf[a]
         /\ \A d \in Commits \ {c} : /\ Busy(d)' <=> Busy(d)
                                     /\ req'[d] = req[d] /\ pc'[d] = pc[d]
         /\ UNCHANGED <<lib, assets, sound, jstate, touched, staged, aside, rootUp>>
         /\ jstate[c] = "none" /\ pc'[c] = "check" /\ req[c] = None /\ ~Busy(c)
         /\ assets[SlotOf[a]] # None => req'[c].old = assets[SlotOf[a]].path
<1> DEFINE row   == assets[SlotOf[a]]
           old   == IF row = None THEN None ELSE row.path
           fresh == row = None
<1>1. /\ req[c] = None /\ jstate[c] = "none"
      /\ req' = [req EXCEPT ![c] = [area |-> a, final |-> f, old |-> old, fresh |-> fresh,
                                    sha |-> None]]
      /\ pc' = [pc EXCEPT ![c] = "check"]
      /\ UNCHANGED <<lib, assets, sound, jstate, touched, staged, aside, rootUp>>
      /\ SlotOf[a] \notin sound
      /\ \A d \in Commits : req[d] # None /\ Slot(d) = SlotOf[a] => pc[d] = "idle" /\ ~Open(d)
  BY DEF Request, Goto, disk, env, TypeInv, ThreadFitsJournal
<1>2. req'[c].area = a /\ req'[c].old = old /\ pc'[c] = "check"
      /\ \A d \in Commits \ {c} : req'[d] = req[d] /\ pc'[d] = pc[d]
  BY <1>1 DEF TypeInv, TypeOK
<1>3. Slot(c)' = SlotOf[a] /\ SlotOf[a] \in Slots
  BY <1>2 DEF Slot
<1>. HIDE DEF fresh
<1>. QED
  BY <1>1, <1>2, <1>3 DEF Busy, Open

LEMMA OneBusyPreserved ==
  ASSUME TypeInv, OneBusy, OneAtATime, [Next]_vars
  PROVE  OneBusy'
<1>1. ASSUME NEW c \in Commits, NEW a \in Areas, NEW f \in Paths, Request(c, a, f)
      PROVE  OneBusy'
  <2>1. \A d \in Commits \ {c} : Busy(d)' => Busy(d) /\ Slot(d)' = Slot(d)
    BY <1>1, RequestFacts DEF Slot
  <2>. QED
    BY <1>1, <2>1, RequestFacts DEF OneBusy
<1>2. CASE \A c \in Commits : Busy(c)' => Busy(c)
  <2>1. \A c \in Commits : Busy(c) => Slot(c)' = Slot(c)
    BY StepHistory DEF History, Slot, Busy
  <2>. QED
    BY <1>2, <2>1 DEF OneBusy
<1>. QED
  BY <1>1, <1>2, BusySteps

-----------------------------------------------------------------------------
(* Who changes a file of the library: somebody else, or the call that      *)
(* works on the slot the path belongs to.                                  *)

Puts(d, p) ==
  \/ RetireOld(d) /\ p = req[d].old
  \/ LinkFinal(d) /\ p = req[d].final
  \/ RenameFinal(d) /\ p = req[d].final
  \/ RestoreOld(d) /\ p = req[d].old /\ lib[p] = None

LEMMA LibSteps ==
  ASSUME TypeInv, PathsFit, [Next]_vars, NEW p \in Paths, lib'[p] # lib[p]
  PROVE  \/ p \in touched' /\ lib'[p] \in {Junk, None}
         \/ \E d \in Commits : Busy(d) /\ p \in Places[Slot(d)] /\ Puts(d, p)
<1>1. ASSUME NEW q \in Paths, NEW x \in {Junk, None}, Tamper(q, x)
      PROVE  p \in touched' /\ lib'[p] \in {Junk, None}
  BY <1>1 DEF Tamper, TypeInv, TypeOK
<1>2. ASSUME NEW d \in Commits,
             RetireOld(d) \/ LinkFinal(d) \/ RenameFinal(d) \/ RestoreOld(d)
      PROVE  Busy(d) /\ p \in Places[Slot(d)] /\ Puts(d, p)
  <2>1. pc[d] # "idle" /\ Busy(d)
    BY <1>2 DEF RetireOld, LinkFinal, RenameFinal, RestoreOld, At, Busy, TypeInv,
       ThreadFitsJournal
  <2>2. Puts(d, p) /\ (p = req[d].final \/ (p = req[d].old /\ req[d].old # None))
    BY <1>2 DEF RetireOld, LinkFinal, RenameFinal, RestoreOld, MustRetire, MustRestore,
       Old, Aside, Seen, Puts, TypeInv, TypeOK
  <2>. QED
    BY <2>1, <2>2, BusyFacts
<1>3. ASSUME NEW a \in Areas, RemoveArea(a) \/ CancelJob(a) \/ CleanArea(a) PROVE FALSE
  BY <1>3 DEF RemoveArea, CancelJob, CleanArea
<1>4. ASSUME NEW d \in Commits, DropOld(d) PROVE FALSE
  BY <1>4 DEF DropOld
<1>. QED
  BY <1>1, <1>2, <1>3, <1>4, FileSteps

(* ... so that the files of a slot on which a call works are changed by    *)
(* that call or by somebody else.                                          *)
LEMMA OwnLibSteps ==
  ASSUME TypeInv, PathsFit, OneBusy, [Next]_vars, NEW c \in Commits, Busy(c),
         NEW p \in Paths, p \in Places[Slot(c)], lib'[p] # lib[p]
  PROVE  (p \in touched' /\ lib'[p] \in {Junk, None}) \/ Puts(c, p)
<1>1. ASSUME NEW d \in Commits, Busy(d), p \in Places[Slot(d)], Puts(d, p)
      PROVE  Puts(c, p)
  <2>1. Slot(d) = Slot(c)
    BY <1>1, BusyFacts
  <2>. QED
    BY <1>1, <2>1 DEF OneBusy
<1>. QED
  BY <1>1, LibSteps

(* Where a call's thread stands when it changes the library.               *)
LEMMA PutsFacts ==
  ASSUME TypeInv, NEW c \in Commits, NEW p \in Paths, Puts(c, p)
  PROVE  /\ jstate[c] \in {"pending", "aborted"}
         /\ pc[c] \in {"advance", "link", "rename", "restore"}
         /\ pc'[c] \in {"place", "unlink", "mark", "idle"}
         /\ UNCHANGED <<jstate, req, assets, sound, touched, rootUp>>
BY DEF Puts, RetireOld, LinkFinal, RenameFinal, RestoreOld, At, Goto, TypeInv, TypeOK,
       ThreadFitsJournal, db, env

(* Steps that change what a journal entry says, and how a thread gets to   *)
(* where it renames.                                                       *)
LEMMA ReqSteps ==
  ASSUME TypeInv, [Next]_vars, NEW c \in Commits, req[c] # None, jstate[c] # "none"
  PROVE  req'[c] = req[c]
<1>1. ASSUME NEW d \in Commits, NEW a \in Areas, NEW f \in Paths, Request(d, a, f)
      PROVE  req'[c] = req[c]
  BY <1>1 DEF Request, TypeInv, TypeOK
<1>2. ASSUME NEW d \in Commits, InsertJournal(d) PROVE req'[c] = req[c]
  BY <1>2 DEF InsertJournal, TypeInv, TypeOK, ThreadFitsJournal
<1>3. Owner => UNCHANGED req \/ \E d \in Commits, a \in Areas, f \in Paths : Request(d, a, f)
  BY DEF Owner, Stage, MarkMissing, Scan, ScanLook, ScanWrite, RemoveArea, CancelJob,
     CleanArea, db
<1>4. Startup \/ Environment \/ UNCHANGED vars => UNCHANGED req
  BY DEF Startup, Restart, Serve, Recover, Environment, Crash, RootLost, RootBack, Tamper,
     vars, db
<1>5. ASSUME NEW d \in Commits, Thread(d) PROVE UNCHANGED req \/ InsertJournal(d)
  <2>1. Commit(d) \/ Raise(d) => UNCHANGED req \/ InsertJournal(d)
    BY DEF Commit, CommitCheck, CommitRefuse, Raise, db
  <2>2. Move(d) => UNCHANGED req
    BY DEF Move, RetireOld, NothingToRetire, AlreadyInPlace, Occupied, PlaceIsFree,
       StagedMissing, LinkFinal, UnlinkStaged, LinkUnsupported, RenameFinal, MarkMoved, db
  <2>3. Finish(d) => UNCHANGED req
    BY DEF Finish, VerifyFinal, VerifyFails, Register, DropStaged, DropOld, Close,
       RestoreOld, NothingToRestore, db
  <2>. QED
    BY <1>5, <2>1, <2>2, <2>3 DEF Thread
<1>. QED
  BY <1>1, <1>2, <1>3, <1>4, <1>5 DEF Next

StateMoves(c) ==
  \/ InsertJournal(c) \/ Occupied(c) \/ StagedMissing(c) \/ MarkMoved(c)
  \/ VerifyFinal(c) \/ VerifyFails(c) \/ Register(c) \/ Close(c)

LEMMA StateMovers ==
  ASSUME TypeInv, [Next]_vars, NEW c \in Commits, jstate'[c] # jstate[c]
  PROVE  StateMoves(c)
<1>1. Owner \/ Startup \/ Environment \/ UNCHANGED vars => UNCHANGED jstate
  BY DEF Owner, Stage, Request, MarkMissing, Scan, ScanLook, ScanWrite, RemoveArea,
     CancelJob, CleanArea, Startup, Restart, Serve, Recover, Environment, Crash, RootLost,
     RootBack, Tamper, vars, db
<1>2. ASSUME NEW d \in Commits, Thread(d) PROVE UNCHANGED jstate \/ StateMoves(d)
  <2>1. Commit(d) \/ Raise(d) => UNCHANGED jstate \/ InsertJournal(d)
    BY DEF Commit, CommitCheck, CommitRefuse, Raise, db
  <2>2. Move(d) => UNCHANGED jstate \/ Occupied(d) \/ StagedMissing(d) \/ MarkMoved(d)
    BY DEF Move, RetireOld, NothingToRetire, AlreadyInPlace, PlaceIsFree, LinkFinal,
       UnlinkStaged, LinkUnsupported, RenameFinal, db
  <2>3. Finish(d) => \/ UNCHANGED jstate
                     \/ VerifyFinal(d) \/ VerifyFails(d) \/ Register(d) \/ Close(d)
    BY DEF Finish, DropStaged, DropOld, RestoreOld, NothingToRestore, db
  <2>. QED
    BY <1>2, <2>1, <2>2, <2>3 DEF Thread, StateMoves
<1>3. ASSUME NEW d \in Commits, StateMoves(d), d # c PROVE FALSE
  BY <1>3 DEF StateMoves, InsertJournal, Occupied, StagedMissing, MarkMoved, VerifyFinal,
     VerifyFails, Register, Close, SetState, TypeInv, TypeOK
<1>. QED
  BY <1>1, <1>2, <1>3 DEF Next

LEMMA StateSteps ==
  ASSUME TypeInv, [Next]_vars, NEW c \in Commits, jstate'[c] = "verified",
         jstate[c] # "verified"
  PROVE  VerifyFinal(c)
BY StateMovers DEF StateMoves, InsertJournal, Occupied, StagedMissing, MarkMoved,
   VerifyFails, Register, Close, SetState, TypeInv, TypeOK

(* The steps by which a thread gets to where it links or renames.          *)
LEMMA PlaceSteps ==
  ASSUME TypeInv, [Next]_vars, NEW c \in Commits, pc'[c] # pc[c]
  PROVE  /\ pc'[c] = "rename" => LinkUnsupported(c)
         /\ pc'[c] = "link" => PlaceIsFree(c)
<1>1. Owner => UNCHANGED pc \/ pc'[c] = pc[c] \/ pc'[c] = "check"
  BY DEF Owner, Stage, Request, MarkMissing, Scan, ScanLook, ScanWrite, RemoveArea,
     CancelJob, CleanArea, Goto, proc, TypeInv, TypeOK
<1>2. Startup \/ Environment \/ UNCHANGED vars => pc'[c] \in {pc[c], "idle", "advance"}
  BY DEF Startup, Restart, Serve, Recover, Environment, Crash, RootLost, RootBack, Tamper,
     vars, proc, TypeInv, TypeOK
<1>3. ASSUME NEW d \in Commits, Thread(d)
      PROVE  \/ pc'[c] = pc[c] \/ pc'[c] \notin {"rename", "link"}
             \/ d = c /\ LinkUnsupported(c) /\ pc'[c] = "rename"
             \/ d = c /\ PlaceIsFree(c) /\ pc'[c] = "link"
  <2>1. Commit(d) \/ Raise(d) => pc'[c] = pc[c] \/ pc'[c] \notin {"rename", "link"}
    BY DEF Commit, CommitCheck, CommitRefuse, InsertJournal, Raise, Goto, TypeInv, TypeOK
  <2>2. Move(d) => \/ pc'[c] = pc[c] \/ pc'[c] \notin {"rename", "link"}
                   \/ d = c /\ LinkUnsupported(c) /\ pc'[c] = "rename"
                   \/ d = c /\ PlaceIsFree(c) /\ pc'[c] = "link"
    BY DEF Move, RetireOld, NothingToRetire, AlreadyInPlace, Occupied, PlaceIsFree,
       StagedMissing, LinkFinal, UnlinkStaged, LinkUnsupported, RenameFinal, MarkMoved,
       Goto, TypeInv, TypeOK
  <2>3. Finish(d) => pc'[c] = pc[c] \/ pc'[c] \notin {"rename", "link"}
    BY DEF Finish, VerifyFinal, VerifyFails, Register, DropStaged, DropOld, Close,
       RestoreOld, NothingToRestore, Goto, proc, TypeInv, TypeOK
  <2>. QED
    BY <1>3, <2>1, <2>2, <2>3 DEF Thread
<1>. QED
  BY <1>1, <1>2, <1>3 DEF Next

(* Where scans do not overlap commits, a row is judged and written in one  *)
(* step.                                                                   *)
ScansRest == \A s \in Slots : scan[s].path = None

LEMMA ScansRestPreserved ==
  ASSUME TypeInv, ScansRest, [Next]_vars, ~OverlappingScans
  PROVE  ScansRest'
<1>1. ASSUME NEW s \in Slots, ScanLook(s) \/ ScanWrite(s) PROVE FALSE
  BY <1>1 DEF ScanLook, ScanWrite, ScansRest
<1>2. ASSUME NEW c \in Commits, NEW a \in Areas, NEW f \in Paths, Request(c, a, f)
      PROVE  UNCHANGED scan
  BY <1>2 DEF Request
<1>3. ASSUME NEW c \in Commits, Register(c) PROVE UNCHANGED scan
  BY <1>3 DEF Register
<1>4. ASSUME NEW s \in Slots, Scan(s) PROVE UNCHANGED scan
  BY <1>4 DEF Scan
<1>5. NoNewPath => ScansRest'
  BY DEF NoNewPath, ScansRest
<1>. QED
  BY <1>1, <1>2, <1>3, <1>4, <1>5, RowSteps DEF ScansRest

LEMMA VerdictSays ==
  ASSUME TypeInv, NEW s \in Slots, assets[s] # None
  PROVE  \/ /\ lib[assets[s].path] = None
            /\ Verdict(s).path \in Paths /\ lib[Verdict(s).path] = assets[s].content
            /\ Verdict(s).sound
         \/ /\ Verdict(s).path = assets[s].path
            /\ Verdict(s).sound <=> lib[assets[s].path] = assets[s].content
<1>1. CASE lib[assets[s].path] = None /\ \E p \in Paths : Elsewhere(s) = {p}
  <2>1. PICK p \in Paths : p = CHOOSE q \in Paths : Elsewhere(s) = {q}
    BY <1>1
  <2>2. p \in Elsewhere(s)
    BY <1>1, <2>1
  <2>3. Verdict(s) = [sound |-> TRUE, path |-> p]
    BY <1>1, <2>1 DEF Verdict
  <2>. QED
    BY <1>1, <2>2, <2>3 DEF Elsewhere
<1>2. CASE ~(lib[assets[s].path] = None /\ \E p \in Paths : Elsewhere(s) = {p})
  BY <1>2 DEF Verdict
<1>. QED
  BY <1>1, <1>2

(* What happens to a slot's row, and to what it says of its file.          *)
LEMMA SoundSteps ==
  ASSUME TypeInv, ScansRest, [Next]_vars, NEW s \in Slots
  PROVE  \/ \E c \in Commits : Register(c) /\ Slot(c) = s
         \/ Scan(s) \/ MarkMissing(s)
         \/ assets'[s] = assets[s] /\ (s \in sound' <=> s \in sound)
<1> DEFINE Rests == assets'[s] = assets[s] /\ (s \in sound' <=> s \in sound)
<1>1. UNCHANGED <<assets, sound>> => Rests
  OBVIOUS
<1>2. ASSUME NEW c \in Commits, Thread(c) PROVE Register(c) \/ Rests
  <2>1. Commit(c) \/ Raise(c) => UNCHANGED <<assets, sound>>
    BY DEF Commit, CommitCheck, CommitRefuse, InsertJournal, Raise, db
  <2>2. Move(c) => UNCHANGED <<assets, sound>>
    BY DEF Move, RetireOld, NothingToRetire, AlreadyInPlace, Occupied, PlaceIsFree,
       StagedMissing, LinkFinal, UnlinkStaged, LinkUnsupported, RenameFinal, MarkMoved, db
  <2>3. Finish(c) => Register(c) \/ UNCHANGED <<assets, sound>>
    BY DEF Finish, VerifyFinal, VerifyFails, DropStaged, DropOld, Close, RestoreOld,
       NothingToRestore, db
  <2>. QED
    BY <1>2, <2>1, <2>2, <2>3 DEF Thread
<1>3. ASSUME NEW c \in Commits, Register(c) PROVE Slot(c) = s \/ Rests
  BY <1>3 DEF Register, TypeInv, TypeOK
<1>4. ASSUME NEW t \in Slots, Scan(t) \/ MarkMissing(t), t # s PROVE Rests
  BY <1>4 DEF Scan, MarkMissing, ApplyVerdict, TypeInv, TypeOK
<1>5. ASSUME NEW t \in Slots, ScanWrite(t) PROVE FALSE
  BY <1>5 DEF ScanWrite, ScansRest
<1>6. CASE \/ \E a \in Areas, x \in Artifacts : Stage(a, x)
           \/ \E c \in Commits, a \in Areas, f \in Paths : Request(c, a, f)
           \/ \E t \in Slots : ScanLook(t)
           \/ \E a \in Areas : RemoveArea(a) \/ CancelJob(a) \/ CleanArea(a)
  BY <1>1, <1>6 DEF Stage, Request, ScanLook, RemoveArea, CancelJob, CleanArea, db
<1>7. Startup \/ Environment \/ UNCHANGED vars => UNCHANGED <<assets, sound>>
  BY DEF Startup, Restart, Serve, Recover, Environment, Crash, RootLost, RootBack, Tamper,
     vars, db
<1>. QED
  BY <1>1, <1>2, <1>3, <1>4, <1>5, <1>6, <1>7 DEF Next, Owner

-----------------------------------------------------------------------------
(* The file of a registered row.  What a call's checks have established    *)
(* stays so until it registers; and a call replaces a row of an artifact   *)
(* only if somebody else had changed the file of that row.                 *)

OldIsTouched ==
  \A c \in Commits :
    Unregistered(c) /\ assets[Slot(c)] # None /\ assets[Slot(c)].content \in Artifacts
    => req[c].old \in touched

VerifiedIsThere ==
  \A c \in Commits : jstate[c] = "verified" /\ req[c].final \notin touched
                     => lib[req[c].final] = req[c].sha

RenameIsFree ==
  \A c \in Commits : pc[c] = "rename" /\ req[c].final \notin touched
                     => lib[req[c].final] = None

RegisteredInv ==
  /\ TypeInv /\ PathsFit /\ OneBusy /\ ScansRest
  /\ OldIsTouched /\ VerifiedIsThere /\ RenameIsFree /\ RegisteredFileIsThere

LEMMA VerifiedPreserved ==
  ASSUME RegisteredInv, [Next]_vars
  PROVE  VerifiedIsThere'
<1> SUFFICES ASSUME NEW c \in Commits, jstate'[c] = "verified", req'[c].final \notin touched'
             PROVE  lib'[req'[c].final] = req'[c].sha
  BY DEF VerifiedIsThere
<1> USE DEF RegisteredInv
<1>1. CASE jstate[c] = "verified"
  <2>1. Busy(c) /\ req'[c] = req[c] /\ touched \subseteq touched'
    <3>1. req[c] # None /\ Open(c) /\ touched \subseteq touched'
      BY <1>1, StepHistory DEF TypeInv, ThreadFitsJournal, Open, OpenStates, History
    <3>2. req'[c] = req[c]
      BY <1>1, <3>1, ReqSteps
    <3>. QED
      BY <3>1, <3>2 DEF Busy
  <2>2. req[c].final \in Paths /\ req[c].final \in Places[Slot(c)]
    BY <2>1, BusyFacts
  <2>3. lib[req[c].final] = req[c].sha
    BY <1>1, <2>1 DEF VerifiedIsThere
  <2>4. lib'[req[c].final] = lib[req[c].final]
    BY <1>1, <2>1, <2>2, OwnLibSteps, PutsFacts
  <2>. QED
    BY <2>1, <2>3, <2>4
<1>2. CASE jstate[c] # "verified"
  <2>1. VerifyFinal(c)
    BY <1>2, StateSteps
  <2>2. /\ UNCHANGED <<req, lib>> /\ Final(c) = req[c].sha /\ jstate[c] = "moved"
    BY <2>1 DEF VerifyFinal, At, disk
  <2>3. req[c].sha \in Artifacts
    BY <2>2 DEF TypeInv, ThreadFitsJournal
  <2>. QED
    BY <2>2, <2>3, ContentFacts DEF Final, Seen
<1>. QED
  BY <1>1, <1>2

LEMMA RenamePreserved ==
  ASSUME RegisteredInv, [Next]_vars
  PROVE  RenameIsFree'
<1> SUFFICES ASSUME NEW c \in Commits, pc'[c] = "rename", req'[c].final \notin touched'
             PROVE  lib'[req'[c].final] = None
  BY DEF RenameIsFree
<1> USE DEF RegisteredInv
<1>1. CASE pc[c] = "rename"
  <2>1. Busy(c) /\ touched \subseteq touched' /\ jstate[c] = "pending"
    BY <1>1, StepHistory DEF TypeInv, ThreadFitsJournal, Busy, History
  <2>2. req'[c] = req[c]
    BY <2>1, ReqSteps DEF Busy
  <2>3. req[c].final \in Paths /\ req[c].final \in Places[Slot(c)]
    BY <2>1, BusyFacts
  <2>4. lib[req[c].final] = None
    BY <1>1, <2>1, <2>2 DEF RenameIsFree
  <2>5. lib'[req[c].final] = lib[req[c].final]
    BY <1>1, <2>1, <2>2, <2>3, OwnLibSteps, PutsFacts
  <2>. QED
    BY <2>2, <2>4, <2>5
<1>2. CASE pc[c] # "rename"
  <2>1. LinkUnsupported(c)
    BY <1>2, PlaceSteps
  <2>2. UNCHANGED <<req, lib>> /\ Final(c) = None /\ rootUp
    BY <2>1 DEF LinkUnsupported, disk, db
  <2>. QED
    BY <2>2 DEF Final, Seen
<1>. QED
  BY <1>1, <1>2

(* Rows change in content only when they are registered, and registrations *)
(* of a slot are its busy call's.                                          *)
LEMMA RowContents ==
  ASSUME RegisteredInv, [Next]_vars, OneByOne, NEW s \in Slots
  PROVE  \/ \E c \in Commits : Register(c) /\ Slot(c) = s
         \/ /\ assets'[s] # None <=> assets[s] # None
            /\ assets[s] # None => assets'[s].content = assets[s].content
<1> USE DEF RegisteredInv
<1>1. ASSUME NEW c \in Commits, NEW a \in Areas, NEW f \in Paths, Request(c, a, f)
      PROVE  UNCHANGED assets
  BY <1>1 DEF Request
<1>2. ASSUME NEW c \in Commits, Register(c), Slot(c) # s PROVE assets'[s] = assets[s]
  BY <1>2 DEF Register, TypeInv, TypeOK
<1>3. ASSUME NEW t \in Slots, Scan(t) \/ ScanLook(t) \/ ScanWrite(t)
      PROVE  /\ assets'[s] # None <=> assets[s] # None
             /\ assets[s] # None => assets'[s].content = assets[s].content
  <2>1. CASE UNCHANGED assets
    BY <2>1
  <2>2. CASE ~UNCHANGED assets
    <3>1. PICK v : ApplyVerdict(t, v) /\ v \in Verdicts /\ v.path # None /\ assets[t] # None
      BY <1>3, <2>2, VerdictFits DEF Scan, ScanLook, ScanWrite, TypeInv, TypeOK, ScanFitsRows, db
    <3>2. [path |-> v.path, content |-> assets[t].content] # None
      <4>1. v.path \in Paths /\ assets[t].content \in Contents
        BY <3>1, Zenon DEF Verdicts, TypeInv, TypeOK, Rows
      <4>2. [path |-> v.path, content |-> assets[t].content] \in Rows
        BY <4>1 DEF Rows
      <4>. QED
        BY <4>2
    <3>. QED
      BY <3>1, <3>2 DEF ApplyVerdict, TypeInv, TypeOK
  <2>. QED
    BY <2>1, <2>2
<1>. QED
  BY <1>1, <1>2, <1>3, RowSteps DEF NoNewPath

LEMMA OldPreserved ==
  ASSUME RegisteredInv, [Next]_vars, OneByOne
  PROVE  OldIsTouched'
<1> USE DEF RegisteredInv, OneByOne
<1> SUFFICES ASSUME NEW c \in Commits, Unregistered(c)', assets'[Slot(c)'] # None,
                    assets'[Slot(c)'].content \in Artifacts
             PROVE  req'[c].old \in touched'
  BY DEF OldIsTouched
<1>1. ASSUME NEW a \in Areas, NEW f \in Paths, Request(c, a, f) PROVE req'[c].old \in touched'
  <2>1. /\ Slot(c)' \in Slots /\ Slot(c)' \notin sound /\ UNCHANGED <<assets, touched>>
        /\ req'[c].old = assets[Slot(c)'].path
    BY <1>1, RequestFacts
  <2>. QED
    BY <2>1 DEF RegisteredFileIsThere
<1>2. CASE ~ \E a \in Areas, f \in Paths : Request(c, a, f)
  <2>1. Busy(c)
    <3>1. ASSUME NEW d \in Commits, NEW a \in Areas, NEW f \in Paths, Request(d, a, f)
          PROVE  Busy(c)
      BY <1>2, <3>1, RequestFacts DEF Unregistered
    <3>. QED
      BY <3>1, BusySteps DEF Unregistered
  <2>2. Unregistered(c) /\ Slot(c)' = Slot(c) /\ req'[c].old = req[c].old
        /\ touched \subseteq touched'
    BY <2>1, StepHistory DEF Unregistered, History, Slot, Busy, Trying, TypeInv, TypeOK,
       OpenStates
  <2>3. Slot(c) \in Slots
    BY <2>1, BusyFacts
  <2>4. ASSUME NEW d \in Commits, Register(d), Slot(d) = Slot(c) PROVE FALSE
    <3>1. jstate[d] = "verified" /\ jstate'[d] = "registered" /\ req[d] # None
      BY <2>4 DEF Register, At, SetState, TypeInv, TypeOK, ThreadFitsJournal
    <3>2. Busy(d)
      BY <3>1 DEF Busy, Open, OpenStates
    <3>3. d = c
      BY <2>1, <2>4, <3>2 DEF OneBusy
    <3>. QED
      BY <3>1, <3>3 DEF Unregistered, Trying
  <2>5. assets[Slot(c)] # None /\ assets[Slot(c)].content \in Artifacts
    BY <2>2, <2>3, <2>4, RowContents
  <2>. QED
    BY <2>2, <2>5 DEF OldIsTouched
<1>. QED
  BY <1>1, <1>2

LEMMA RegisteredPreserved ==
  ASSUME RegisteredInv, [Next]_vars, OneByOne
  PROVE  RegisteredFileIsThere'
<1> USE DEF RegisteredInv
<1> SUFFICES ASSUME NEW s \in Slots, assets'[s] # None, assets'[s].content \in Artifacts,
                    assets'[s].path \notin touched'
             PROVE  lib'[assets'[s].path] = assets'[s].content /\ s \in sound'
  BY DEF RegisteredFileIsThere
<1>0. touched \subseteq touched'
  BY StepHistory DEF History
<1>1. ASSUME NEW c \in Commits, Register(c), Slot(c) = s
      PROVE  lib'[assets'[s].path] = assets'[s].content /\ s \in sound'
  <2>1. /\ jstate[c] = "verified" /\ UNCHANGED <<lib, touched>> /\ s \in sound'
        /\ assets'[s] = [path |-> req[c].final, content |-> req[c].sha]
    BY <1>1 DEF Register, At, TypeInv, TypeOK, disk, env
  <2>. QED
    BY <2>1 DEF VerifiedIsThere
<1>2. ASSUME Scan(s) PROVE lib'[assets'[s].path] = assets'[s].content /\ s \in sound'
  <2>1. /\ assets[s] # None /\ UNCHANGED <<lib, touched>>
        /\ assets'[s] = [path |-> Verdict(s).path, content |-> assets[s].content]
        /\ Verdict(s).sound => s \in sound'
    BY <1>2 DEF Scan, ApplyVerdict, TypeInv, TypeOK, disk, env
  <2>. QED
    BY <2>1, VerdictSays DEF RegisteredFileIsThere
<1>3. CASE assets'[s] = assets[s]
  <2>1. lib[assets[s].path] = assets[s].content /\ s \in sound
    BY <1>0, <1>3 DEF RegisteredFileIsThere
  <2>2. assets[s].path \in Paths /\ assets[s].path \in Places[s] /\ None \notin Artifacts
    BY <1>3, Zenon, ContentFacts DEF TypeInv, TypeOK, Rows, PathsFit
  <2>3. ~MarkMissing(s)
    BY <1>3, <2>1, <2>2 DEF MarkMissing
  <2>4. ASSUME NEW d \in Commits, Busy(d), assets[s].path \in Places[Slot(d)],
               Puts(d, assets[s].path)
        PROVE  FALSE
    <3>1. Slot(d) = s /\ jstate[d] \in {"pending", "aborted"}
      BY <2>2, <2>4, BusyFacts, PutsFacts
    <3>2. CASE RetireOld(d) /\ assets[s].path = req[d].old
      <4>1. Unregistered(d)
        BY <2>4, <3>2 DEF RetireOld, At, Unregistered, Trying
      <4>. QED
        BY <1>0, <1>3, <3>1, <3>2, <4>1 DEF OldIsTouched
    <3>3. CASE LinkFinal(d) /\ assets[s].path = req[d].final
      BY <1>3, <2>1, <2>2, <3>3 DEF LinkFinal, Final, Seen
    <3>4. CASE RenameFinal(d) /\ assets[s].path = req[d].final
      BY <1>0, <1>3, <2>1, <2>2, <3>4 DEF RenameFinal, RenameIsFree
    <3>5. CASE lib[assets[s].path] = None
      BY <1>3, <2>1, <2>2, <3>5
    <3>. QED
      BY <2>4, <3>2, <3>3, <3>4, <3>5 DEF Puts
  <2>5. lib'[assets[s].path] = lib[assets[s].path]
    BY <1>3, <2>2, <2>4, LibSteps
  <2>6. CASE s \in sound' <=> s \in sound
    BY <1>3, <2>1, <2>5, <2>6
  <2>. QED
    BY <1>1, <1>2, <2>3, <2>6, SoundSteps
<1>4. MarkMissing(s) => assets'[s] = assets[s]
  BY DEF MarkMissing
<1>. QED
  BY <1>1, <1>2, <1>3, <1>4, SoundSteps

LEMMA RegisteredInvHolds ==
  ASSUME OneByOne
  PROVE  Spec => []RegisteredInv
<1>1. Init => RegisteredInv
  <2> SUFFICES ASSUME Init PROVE RegisteredInv
    OBVIOUS
  <2>1. TypeInv
    BY InitTypeInv
  <2>2. PathsFit /\ OneBusy /\ ScansRest
    BY DEF Init, PathsFit, OneBusy, Busy, ScansRest, NoVerdict
  <2>3. OldIsTouched /\ VerifiedIsThere /\ RenameIsFree
    BY DEF Init, OldIsTouched, VerifiedIsThere, RenameIsFree, Unregistered, Busy
  <2>4. RegisteredFileIsThere
    BY DEF Init, RegisteredFileIsThere
  <2>. QED
    BY <2>1, <2>2, <2>3, <2>4 DEF RegisteredInv
<1>2. RegisteredInv /\ [Next]_vars => RegisteredInv'
  BY NextTypeInv, PathsPreserved, OneBusyPreserved, ScansRestPreserved, OldPreserved,
     VerifiedPreserved, RenamePreserved, RegisteredPreserved DEF RegisteredInv, OneByOne
<1>. QED
  BY <1>1, <1>2, PTL DEF Spec

(* The file of a row that a commit has written stays at its path, with the *)
(* recorded content, and the row says so, unless somebody else changed the *)
(* path: for any number of calls of any number of slots, on any file       *)
(* system, whatever crashes, faults, lost locations, cancellations and     *)
(* foreign writes fall between their steps.                                *)
THEOREM RegisteredFilesStay ==
  ASSUME OneByOne
  PROVE  Spec => []RegisteredFileIsThere
<1>1. RegisteredInv => RegisteredFileIsThere
  BY DEF RegisteredInv
<1>. QED
  BY <1>1, RegisteredInvHolds, PTL

-----------------------------------------------------------------------------
(* No artifact is left in the library unaccounted for.  Where hard links   *)
(* place a file, nobody removes an area under a running commit and the     *)
(* location stays mounted, the only artifacts at a slot's paths are the    *)
(* one its sound row records and the one the busy call has put there.      *)

Steady == OneByOne /\ Sheltered /\ MaxFlaps = 0

LinkedIsStaged ==
  \A c \in Commits : pc[c] = "link" => staged[req[c].area] = req[c].sha

OnlyItsOwn ==
  \A c \in Commits, p \in Paths :
    Unregistered(c) /\ p \in Places[Slot(c)] /\ lib[p] \in Artifacts
    => jstate[c] # "none" /\ p = req[c].final /\ lib[p] = req[c].sha

AsideIsForeign == \A a \in Areas : aside[a] \notin Artifacts

AllAccounted ==
  \A p \in Paths : lib[p] \in Artifacts =>
    \/ \E s \in sound : assets[s] = [path |-> p, content |-> lib[p]]
    \/ \E c \in Commits : jstate[c] \in Trying /\ req[c].final = p /\ lib[p] = req[c].sha

AccountedInv ==
  /\ TypeInv /\ PathsFit /\ OneBusy /\ ScansRest /\ rootUp
  /\ LinkedIsStaged /\ OnlyItsOwn /\ AsideIsForeign /\ AllAccounted

LEMMA RootStays ==
  ASSUME TypeInv, rootUp, [Next]_vars, MaxFlaps = 0
  PROVE  rootUp'
<1>1. ~RootLost
  BY DEF RootLost, TypeInv, TypeOK
<1>2. Owner \/ Startup \/ UNCHANGED vars => UNCHANGED rootUp
  BY DEF Owner, Stage, Request, MarkMissing, Scan, ScanLook, ScanWrite, RemoveArea,
     CancelJob, CleanArea, Startup, Restart, Serve, Recover, vars, disk
<1>3. Environment => rootUp'
  BY <1>1 DEF Environment, Crash, RootBack, Tamper, disk
<1>4. ASSUME NEW c \in Commits, Thread(c) PROVE UNCHANGED rootUp
  <2>1. Commit(c) \/ Raise(c) => UNCHANGED rootUp
    BY DEF Commit, CommitCheck, CommitRefuse, InsertJournal, Raise, disk
  <2>2. Move(c) => UNCHANGED rootUp
    BY DEF Move, RetireOld, NothingToRetire, AlreadyInPlace, Occupied, PlaceIsFree,
       StagedMissing, LinkFinal, UnlinkStaged, LinkUnsupported, RenameFinal, MarkMoved, disk
  <2>3. Finish(c) => UNCHANGED rootUp
    BY DEF Finish, VerifyFinal, VerifyFails, Register, DropStaged, DropOld, Close,
       RestoreOld, NothingToRestore, disk
  <2>. QED
    BY <1>4, <2>1, <2>2, <2>3 DEF Thread
<1>. QED
  BY <1>2, <1>3, <1>4 DEF Next

(* Who changes the artifact staged in an area.                             *)
LEMMA StagedSteps ==
  ASSUME TypeInv, [Next]_vars, NEW a \in Areas, staged'[a] # staged[a]
  PROVE  \/ \E x \in Artifacts : Stage(a, x)
         \/ RemoveArea(a) \/ CancelJob(a) \/ CleanArea(a)
         \/ \E d \in Commits : /\ req[d].area = a
                               /\ \/ AlreadyInPlace(d) \/ UnlinkStaged(d)
                                  \/ RenameFinal(d) \/ DropStaged(d)
<1>1. ASSUME NEW d \in Commits, Thread(d)
      PROVE  \/ UNCHANGED staged
             \/ AlreadyInPlace(d) \/ UnlinkStaged(d) \/ RenameFinal(d) \/ DropStaged(d)
  <2>1. Commit(d) \/ Raise(d) => UNCHANGED staged
    BY DEF Commit, CommitCheck, CommitRefuse, InsertJournal, Raise, disk
  <2>2. Move(d) => \/ UNCHANGED staged
                   \/ AlreadyInPlace(d) \/ UnlinkStaged(d) \/ RenameFinal(d)
    BY DEF Move, RetireOld, NothingToRetire, Occupied, PlaceIsFree, StagedMissing,
       LinkFinal, LinkUnsupported, MarkMoved, disk
  <2>3. Finish(d) => UNCHANGED staged \/ DropStaged(d)
    BY DEF Finish, VerifyFinal, VerifyFails, Register, DropOld, Close, RestoreOld,
       NothingToRestore, disk
  <2>. QED
    BY <1>1, <2>1, <2>2, <2>3 DEF Thread
<1>2. ASSUME NEW d \in Commits,
             AlreadyInPlace(d) \/ UnlinkStaged(d) \/ RenameFinal(d) \/ DropStaged(d)
      PROVE  req[d].area = a
  BY <1>2 DEF AlreadyInPlace, UnlinkStaged, RenameFinal, DropStaged, TypeInv, TypeOK
<1>3. ASSUME NEW b \in Areas, b # a,
             RemoveArea(b) \/ CancelJob(b) \/ CleanArea(b) \/ \E x \in Artifacts : Stage(b, x)
      PROVE  FALSE
  BY <1>3 DEF RemoveArea, CancelJob, CleanArea, Stage, TypeInv, TypeOK
<1>4. CASE \/ \E c \in Commits, b \in Areas, f \in Paths : Request(c, b, f)
           \/ \E s \in Slots : MarkMissing(s) \/ Scan(s) \/ ScanLook(s) \/ ScanWrite(s)
           \/ Startup \/ Environment \/ UNCHANGED vars
  BY <1>4 DEF Request, MarkMissing, Scan, ScanLook, ScanWrite, Startup, Restart, Serve,
     Recover, Environment, Crash, RootLost, RootBack, Tamper, vars, disk
<1>. QED
  BY <1>1, <1>2, <1>3, <1>4 DEF Next, Owner

(* What a thread is about to link is the artifact of its entry.            *)
LEMMA LinkedPreserved ==
  ASSUME AccountedInv, [Next]_vars, Steady
  PROVE  LinkedIsStaged'
<1> SUFFICES ASSUME NEW c \in Commits, pc'[c] = "link"
             PROVE  staged'[req'[c].area] = req'[c].sha
  BY DEF LinkedIsStaged
<1> USE DEF AccountedInv
<1>1. CASE pc[c] # "link"
  <2>1. PlaceIsFree(c)
    BY <1>1, PlaceSteps
  <2>. QED
    BY <2>1 DEF PlaceIsFree, Staged, Seen, disk, db
<1>2. CASE pc[c] = "link"
  <2>1. Busy(c) /\ jstate[c] = "pending" /\ req[c] # None
    BY <1>2 DEF TypeInv, ThreadFitsJournal, Busy
  <2>2. req'[c] = req[c] /\ req[c].area \in Areas
    BY <2>1, ReqSteps, BusyFacts
  <2>3. ~ \E x \in Artifacts : Stage(req[c].area, x)
    BY <1>2, <2>1 DEF Stage
  <2>4. ~RemoveArea(req[c].area) /\ ~CancelJob(req[c].area) /\ ~CleanArea(req[c].area)
    BY <1>2 DEF RemoveArea, CancelJob, CleanArea, Idle, Steady, Sheltered
  <2>5. ASSUME NEW d \in Commits, req[d].area = req[c].area,
               AlreadyInPlace(d) \/ UnlinkStaged(d) \/ RenameFinal(d) \/ DropStaged(d)
        PROVE  FALSE
    <3>1. pc[d] # "idle" /\ pc[d] # "link"
      BY <2>5 DEF AlreadyInPlace, UnlinkStaged, RenameFinal, DropStaged, At
    <3>2. Busy(d) /\ Slot(d) = Slot(c)
      BY <2>5, <3>1 DEF Busy, Slot, TypeInv, ThreadFitsJournal
    <3>. QED
      BY <1>2, <2>1, <3>1, <3>2 DEF OneBusy
  <2>6. staged'[req[c].area] = staged[req[c].area]
    BY <2>2, <2>3, <2>4, <2>5, StagedSteps
  <2>. QED
    BY <1>2, <2>2, <2>6 DEF LinkedIsStaged
<1>. QED
  BY <1>1, <1>2

LEMMA OnlyItsOwnPreserved ==
  ASSUME AccountedInv, [Next]_vars, Steady
  PROVE  OnlyItsOwn'
<1> SUFFICES ASSUME NEW c \in Commits, NEW p \in Paths, Unregistered(c)',
                    p \in Places[Slot(c)'], lib'[p] \in Artifacts
             PROVE  jstate'[c] # "none" /\ p = req'[c].final /\ lib'[p] = req'[c].sha
  BY DEF OnlyItsOwn
<1> USE DEF AccountedInv
<1>1. ASSUME NEW a \in Areas, NEW f \in Paths, Request(c, a, f) PROVE FALSE
  <2>1. /\ Slot(c)' = SlotOf[a] /\ SlotOf[a] \in Slots /\ SlotOf[a] \notin sound
        /\ UNCHANGED lib /\ \A d \in Commits : Busy(d) => Slot(d) # SlotOf[a]
    BY <1>1, RequestFacts DEF Steady, OneByOne
  <2>2. ASSUME NEW t \in sound, assets[t] = [path |-> p, content |-> lib[p]] PROVE FALSE
    <3>1. [path |-> p, content |-> lib[p]] \in Rows /\ t \in Slots
      <4>1. lib[p] \in Contents /\ t \in Slots
        BY <2>1, ContentFacts DEF TypeInv, TypeOK
      <4>. QED
        BY <4>1 DEF Rows
    <3>2. p \in Places[t]
      BY <2>2, <3>1 DEF PathsFit, TypeInv, TypeOK
    <3>. QED
      BY <2>1, <2>2, <3>1, <3>2
  <2>3. ASSUME NEW d \in Commits, jstate[d] \in Trying, req[d].final = p PROVE FALSE
    <3>1. Busy(d)
      BY <2>3 DEF Trying, TypeInv, ThreadFitsJournal, Busy, Open, OpenStates
    <3>2. p \in Places[Slot(d)] /\ Slot(d) \in Slots
      BY <2>3, <3>1, BusyFacts
    <3>. QED
      BY <2>1, <3>1, <3>2
  <2>. QED
    BY <2>1, <2>2, <2>3 DEF AllAccounted
<1>2. CASE ~ \E a \in Areas, f \in Paths : Request(c, a, f)
  <2>1. Busy(c)
    <3>1. ASSUME NEW d \in Commits, NEW a \in Areas, NEW f \in Paths, Request(d, a, f)
          PROVE  Busy(c)
      <4>1. d # c /\ Busy(c)' /\ OneAtATime
        BY <1>2, <3>1 DEF Unregistered, Steady, OneByOne
      <4>2. Busy(c)' <=> Busy(c)
        BY <3>1, <4>1, RequestFacts
      <4>. QED
        BY <4>1, <4>2
    <3>. QED
      BY <3>1, BusySteps DEF Unregistered
  <2>2. Unregistered(c) /\ Slot(c)' = Slot(c)
    BY <2>1, StepHistory DEF Unregistered, History, Slot, Busy, Trying, TypeInv, TypeOK,
       OpenStates
  <2>3. CASE lib'[p] = lib[p]
    <3>1. jstate[c] # "none" /\ p = req[c].final /\ lib[p] = req[c].sha
      BY <2>2, <2>3 DEF OnlyItsOwn
    <3>2. req'[c] = req[c]
      BY <2>1, <3>1, ReqSteps DEF Busy
    <3>3. jstate'[c] # "none"
      BY <3>1, StateMovers DEF StateMoves, InsertJournal, Occupied, StagedMissing, MarkMoved,
         VerifyFinal, VerifyFails, Register, Close, SetState, TypeInv, TypeOK
    <3>. QED
      BY <2>3, <3>1, <3>2, <3>3
  <2>4. CASE lib'[p] # lib[p]
    <3>1. Puts(c, p)
      BY <2>1, <2>2, <2>4, OwnLibSteps, ContentFacts
    <3>2. ~RestoreOld(c) /\ ~RenameFinal(c)
      BY <2>2 DEF RestoreOld, RenameFinal, Unregistered, Trying, TypeInv, ThreadFitsJournal,
         Steady, Sheltered
    <3>3. ASSUME RetireOld(c), p = req[c].old PROVE FALSE
      <4>1. lib'[p] = None
        BY <3>3 DEF RetireOld, TypeInv, TypeOK
      <4>. QED
        BY <4>1, ContentFacts
    <3>4. LinkFinal(c) /\ p = req[c].final
      BY <3>1, <3>2, <3>3 DEF Puts
    <3>5. lib'[p] = req[c].sha /\ jstate'[c] = "pending" /\ req' = req
      BY <3>4 DEF LinkFinal, LinkedIsStaged, Staged, Seen, TypeInv, TypeOK,
         ThreadFitsJournal, db
    <3>. QED
      BY <3>4, <3>5
  <2>. QED
    BY <2>3, <2>4
<1>. QED
  BY <1>1, <1>2

LEMMA ForeignPreserved ==
  ASSUME AccountedInv, [Next]_vars, Steady
  PROVE  AsideIsForeign'
<1> SUFFICES ASSUME NEW a \in Areas, aside'[a] \in Artifacts PROVE FALSE
  BY DEF AsideIsForeign
<1> USE DEF AccountedInv
<1>1. aside[a] \notin Artifacts /\ aside'[a] # aside[a]
  BY DEF AsideIsForeign
<1>2. ASSUME NEW c \in Commits, RetireOld(c) PROVE FALSE
  <2>1. /\ aside' = [aside EXCEPT ![req[c].area] = Old(c)] /\ Old(c) # None
        /\ jstate[c] = "pending" /\ pc[c] = "advance"
    BY <1>2 DEF RetireOld, MustRetire, At
  <2>2. Busy(c) /\ Unregistered(c)
    BY <2>1 DEF Unregistered, Trying, Busy, TypeInv, ThreadFitsJournal
  <2>3. req[c].old # None /\ Old(c) = lib[req[c].old]
    BY <2>1 DEF Old, Seen
  <2>4. req[c].old \in Paths /\ req[c].old \in Places[Slot(c)]
    BY <2>2, <2>3, BusyFacts
  <2>5. lib[req[c].old] \in Artifacts
    BY <1>1, <2>1, <2>3 DEF TypeInv, TypeOK
  <2>6. req[c].old = req[c].final /\ lib[req[c].old] = req[c].sha
    BY <2>2, <2>4, <2>5 DEF OnlyItsOwn
  <2>. QED
    BY <1>2, <2>6 DEF RetireOld, MustRetire, Final, Seen
<1>3. ASSUME NEW c \in Commits, LinkFinal(c) \/ RenameFinal(c) \/ RestoreOld(c) \/ DropOld(c)
      PROVE  FALSE
  BY <1>1, <1>3, ContentFacts DEF LinkFinal, RenameFinal, RestoreOld, DropOld, TypeInv, TypeOK
<1>4. ASSUME NEW b \in Areas, RemoveArea(b) \/ CancelJob(b) \/ CleanArea(b) PROVE FALSE
  BY <1>1, <1>4, ContentFacts DEF RemoveArea, CancelJob, CleanArea, TypeInv, TypeOK
<1>5. ASSUME NEW p \in Paths, NEW x \in {Junk, None}, Tamper(p, x) PROVE FALSE
  BY <1>1, <1>5 DEF Tamper
<1>. QED
  BY <1>1, <1>2, <1>3, <1>4, <1>5, FileSteps

LEMMA AccountedPreserved ==
  ASSUME AccountedInv, [Next]_vars, Steady
  PROVE  AllAccounted'
<1> SUFFICES ASSUME NEW p \in Paths, lib'[p] \in Artifacts
             PROVE  \/ \E s \in sound' : assets'[s] = [path |-> p, content |-> lib'[p]]
                    \/ \E c \in Commits : /\ jstate'[c] \in Trying /\ req'[c].final = p
                                          /\ lib'[p] = req'[c].sha
  BY DEF AllAccounted
<1> USE DEF AccountedInv
<1>1. CASE lib'[p] # lib[p]
  <2>1. PICK d \in Commits : Busy(d) /\ Puts(d, p)
    BY <1>1, LibSteps, ContentFacts
  <2>2. ~(RetireOld(d) /\ p = req[d].old) /\ ~RenameFinal(d)
    BY ContentFacts DEF RetireOld, RenameFinal, TypeInv, TypeOK, ThreadFitsJournal, Steady,
       Sheltered
  <2>3. ~(RestoreOld(d) /\ p = req[d].old)
    <3>1. req[d].area \in Areas
      BY <2>1, BusyFacts
    <3>. QED
      BY <3>1 DEF RestoreOld, Aside, Seen, AsideIsForeign, TypeInv, TypeOK
  <2>4. LinkFinal(d) /\ p = req[d].final
    BY <2>1, <2>2, <2>3 DEF Puts
  <2>5. lib'[p] = req[d].sha /\ jstate'[d] = "pending" /\ req' = req
    BY <2>4 DEF LinkFinal, LinkedIsStaged, Staged, Seen, TypeInv, TypeOK, ThreadFitsJournal, db
  <2>. QED
    BY <2>4, <2>5 DEF Trying
<1>2. ASSUME lib'[p] = lib[p],
             NEW s \in sound, assets[s] = [path |-> p, content |-> lib[p]]
      PROVE  s \in sound' /\ assets'[s] = [path |-> p, content |-> lib'[p]]
  <2>1. s \in Slots /\ assets[s] # None /\ lib[p] # None
    <3>1. lib[p] \in Contents /\ s \in Slots /\ lib[p] # None
      BY <1>2, ContentFacts DEF TypeInv, TypeOK
    <3>2. [path |-> p, content |-> lib[p]] \in Rows
      BY <3>1 DEF Rows
    <3>. QED
      BY <1>2, <3>1, <3>2
  <2>2. p \in Places[s]
    BY <1>2, <2>1 DEF PathsFit
  <2>3. ASSUME NEW c \in Commits, Register(c), Slot(c) = s
        PROVE  s \in sound' /\ assets'[s] = [path |-> p, content |-> lib'[p]]
    <3>1. Unregistered(c)
      BY <2>3 DEF Register, At, Unregistered, Trying, Busy, TypeInv, ThreadFitsJournal
    <3>2. p = req[c].final /\ lib[p] = req[c].sha
      BY <1>2, <2>2, <2>3, <3>1 DEF OnlyItsOwn
    <3>. QED
      BY <1>2, <2>1, <2>3, <3>2 DEF Register, TypeInv, TypeOK
  <2>4. ASSUME Scan(s)
        PROVE  s \in sound' /\ assets'[s] = [path |-> p, content |-> lib'[p]]
    <3>1. Verdict(s).path = p /\ Verdict(s).sound
      BY <1>2, <2>1, VerdictSays
    <3>. QED
      BY <1>2, <2>1, <2>4, <3>1 DEF Scan, ApplyVerdict, TypeInv, TypeOK
  <2>5. ~MarkMissing(s)
    BY <1>2, <2>1 DEF MarkMissing
  <2>. QED
    BY <1>2, <2>1, <2>3, <2>4, <2>5, SoundSteps
<1>3. ASSUME lib'[p] = lib[p],
             NEW c \in Commits, jstate[c] \in Trying, req[c].final = p, lib[p] = req[c].sha
      PROVE  \/ \E s \in sound' : assets'[s] = [path |-> p, content |-> lib'[p]]
             \/ jstate'[c] \in Trying /\ req'[c].final = p /\ lib'[p] = req'[c].sha
  <2>1. Busy(c) /\ req[c] # None /\ jstate[c] # "none"
    BY <1>3 DEF Trying, TypeInv, ThreadFitsJournal, Busy, Open, OpenStates
  <2>2. req'[c] = req[c]
    BY <2>1, ReqSteps
  <2>3. ~Occupied(c) /\ ~StagedMissing(c) /\ ~VerifyFails(c) /\ ~Close(c)
    BY <1>3, ContentFacts DEF Occupied, StagedMissing, VerifyFails, Close, Final, Seen,
       Trying, TypeInv, ThreadFitsJournal
  <2>4. InsertJournal(c) \/ MarkMoved(c) \/ VerifyFinal(c) => jstate'[c] \in Trying
    BY DEF InsertJournal, MarkMoved, VerifyFinal, SetState, Trying, TypeInv, TypeOK
  <2>5. ASSUME Register(c)
        PROVE  \E s \in sound' : assets'[s] = [path |-> p, content |-> lib'[p]]
    <3>1. Slot(c) \in Slots
      BY <2>1, BusyFacts
    <3>. QED
      BY <1>3, <2>5, <3>1 DEF Register, TypeInv, TypeOK
  <2>. QED
    BY <1>3, <2>2, <2>3, <2>4, <2>5, StateMovers DEF StateMoves
<1>. QED
  BY <1>1, <1>2, <1>3 DEF AllAccounted

LEMMA AccountedInvHolds ==
  ASSUME Steady
  PROVE  Spec => []AccountedInv
<1>1. Init => AccountedInv
  <2> SUFFICES ASSUME Init PROVE AccountedInv
    OBVIOUS
  <2>1. TypeInv
    BY InitTypeInv
  <2>2. PathsFit /\ OneBusy /\ ScansRest /\ rootUp
    BY DEF Init, PathsFit, OneBusy, Busy, ScansRest, NoVerdict
  <2>3. LinkedIsStaged /\ OnlyItsOwn
    BY DEF Init, LinkedIsStaged, OnlyItsOwn, Unregistered, Busy
  <2>4. AsideIsForeign /\ AllAccounted
    BY ContentFacts DEF Init, AsideIsForeign, AllAccounted
  <2>. QED
    BY <2>1, <2>2, <2>3, <2>4 DEF AccountedInv
<1>2. AccountedInv /\ [Next]_vars => AccountedInv'
  BY NextTypeInv, PathsPreserved, OneBusyPreserved, ScansRestPreserved, RootStays,
     LinkedPreserved, OnlyItsOwnPreserved, ForeignPreserved, AccountedPreserved
     DEF AccountedInv, Steady, OneByOne
<1>. QED
  BY <1>1, <1>2, PTL DEF Spec

(* No artifact is left in the library that nothing accounts for: for any   *)
(* number of calls and slots, whatever crashes, I/O errors and foreign     *)
(* writes fall between the steps of a commit, an artifact found in the     *)
(* library is the file of a sound row or of an open journal entry, where a *)
(* slot's commits come one at a time, files are linked into their place,   *)
(* areas stay while a commit runs and the location stays mounted.          *)
THEOREM NothingOrphaned ==
  ASSUME Steady
  PROVE  Spec => []NoOrphanArtifact
<1>1. AccountedInv => NoOrphanArtifact
  BY DEF AccountedInv, AllAccounted, NoOrphanArtifact, Trying, Open, OpenStates
<1>. QED
  BY <1>1, AccountedInvHolds, PTL

===============================================================================
