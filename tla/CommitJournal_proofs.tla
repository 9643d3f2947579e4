------------------------ MODULE CommitJournal_proofs ------------------------
(***************************************************************************)
(* Proofs about the commit journal, for any number of commits, areas,      *)
(* slots, paths and contents.                                              *)
(***************************************************************************)
EXTENDS CommitJournal, TLAPS

(* What a journal row says of the thread that works on it.                 *)
ThreadFitsJournal ==
  \A c \in Commits :
    /\ pc[c] # "idle" \/ jstate[c] # "none" => req[c] # None
    /\ jstate[c] # "none" => req[c].sha \in Artifacts
    /\ pc[c] \in {"check", "insert"} => jstate[c] = "none"
    /\ pc[c] = "advance" => jstate[c] \in OpenStates
    /\ pc[c] \in {"place", "link", "rename", "unlink", "mark"} =>
         jstate[c] = "pending"
    /\ pc[c] = "restore" => jstate[c] = "aborted"
    /\ pc[c] \in {"drop", "close"} => jstate[c] = "registered"
    /\ kept[c] # None => jstate[c] # "none"
    /\ c \in todo => jstate[c] \in OpenStates /\ pc[c] = "idle"
    /\ HardLinks => pc[c] # "rename"
    /\ mode = "down" => pc[c] = "idle"

(* A scan writes only to rows that exist: no row is ever deleted.          *)
ScanFitsRows == \A s \in Slots : scan[s].path # None => assets[s] # None

-----------------------------------------------------------------------------
(* Types.                                                                  *)

TypeInv == TypeOK /\ ThreadFitsJournal /\ ScanFitsRows

USE ConstantsAssumption, NoneAssumption DEF ConstantsAssumption, NoneAssumption

LEMMA ContentFacts ==
  /\ None \in Files /\ None \notin Contents /\ {Original, Junk} \subseteq Contents
  /\ Artifacts \subseteq Contents /\ Contents \subseteq Files
BY DEF Files, Contents

LEMMA InitTypeInv == Init => TypeInv
BY SMTT(30) DEF Init, TypeInv, TypeOK, ThreadFitsJournal, ScanFitsRows, Files, Contents, Rows,
                PCs, OpenStates, Verdicts, NoVerdict

(* What a scan finds is a path of the library.                             *)
LEMMA VerdictFits ==
  ASSUME TypeOK, NEW s \in Slots, assets[s] # None
  PROVE  Verdict(s) \in Verdicts /\ Verdict(s).path # None
<1>1. assets[s].path \in Paths
  BY DEF TypeOK, Rows
<1>2. CASE \E p \in Paths : Elsewhere(s) = {p}
  <2>1. (CHOOSE p \in Paths : Elsewhere(s) = {p}) \in Paths
    BY <1>2
  <2>. QED
    BY <1>1, <2>1 DEF Verdict, Verdicts
<1>3. CASE ~\E p \in Paths : Elsewhere(s) = {p}
  BY <1>1, <1>3 DEF Verdict, Verdicts
<1>. QED
  BY <1>2, <1>3

LEMMA OwnerTypeInv == TypeInv /\ Owner => TypeInv'
<1> SUFFICES ASSUME TypeInv, Owner PROVE TypeInv'
  OBVIOUS
<1> USE ContentFacts DEF TypeInv, TypeOK, ThreadFitsJournal, ScanFitsRows, PCs,
                         OpenStates, disk, db, proc, env
<1>1. CASE \E a \in Areas, x \in Artifacts : Stage(a, x)
  BY <1>1, SMTT(30) DEF Stage
<1>2. ASSUME NEW c \in Commits, NEW a \in Areas, NEW f \in Paths, Request(c, a, f)
      PROVE  TypeInv'
  <2> DEFINE row   == assets[SlotOf[a]]
             old   == IF row = None THEN None ELSE row.path
             fresh == row = None
             r     == [area |-> a, final |-> f, old |-> old, fresh |-> fresh,
                       sha |-> None]
  <2>0. r \in Requests
    <3>1. row \in Rows \cup {None}
      BY <1>2, SlotOf[a] \in Slots
    <3>2. old \in Paths \cup {None}
      BY <3>1 DEF Rows
    <3>3. fresh \in BOOLEAN /\ None \in Files
      OBVIOUS
    <3>. HIDE DEF old, fresh, row
    <3>. QED
      BY <3>2, <3>3, Zenon DEF Requests
  <2>1. req' = [req EXCEPT ![c] = r]
    BY <1>2, Zenon DEF Request
  <2>. HIDE DEF r, old, fresh, row
  <2>2. pc' = [pc EXCEPT ![c] = "check"] /\ jstate[c] = "none" /\ kept[c] = None
       /\ mode = "up"
    BY <1>2 DEF Request, Goto
  <2>3. UNCHANGED <<disk, assets, sound, jstate, mode, todo, env, kept, scan>>
    BY <1>2 DEF Request
  <2>4. req' \in [Commits -> Requests \cup {None}] /\ req'[c] = r /\ r # None
    BY <2>0, <2>1
  <2>. QED
    BY <2>0, <2>1, <2>2, <2>3, <2>4, SMTT(60)
<1>3. ASSUME NEW s \in Slots, MarkMissing(s) PROVE TypeInv'
  BY <1>3, SMTT(30) DEF MarkMissing
<1>5. ASSUME NEW s \in Slots, NEW v \in Verdicts, v.path # None, assets[s] # None,
             ApplyVerdict(s, v), scan' \in [Slots -> Verdicts],
             \A t \in Slots : scan'[t].path # None => scan[t].path # None,
             UNCHANGED <<disk, jstate, req, proc, env, kept>>
      PROVE  TypeInv'
  <2>1. v.path \in Paths /\ assets[s].content \in Contents
    BY <1>5 DEF Verdicts, Rows
  <2>2. [path |-> v.path, content |-> assets[s].content] \in Rows
    BY <2>1 DEF Rows
  <2>3. assets' \in [Slots -> Rows \cup {None}] /\ sound' \subseteq Slots
    BY <1>5, <2>2 DEF ApplyVerdict
  <2>4. ThreadFitsJournal'
    BY <1>5
  <2>5. assets'[s] # None /\ \A t \in Slots : assets[t] # None => assets'[t] # None
    BY <1>5, <2>2 DEF ApplyVerdict
  <2>. QED
    BY <1>5, <2>3, <2>4, <2>5
<1>7. ASSUME NEW s \in Slots, Scan(s) PROVE TypeInv'
  <2>1. /\ scan' \in [Slots -> Verdicts]
        /\ \A t \in Slots : scan'[t].path # None => scan[t].path # None
    BY <1>7 DEF Scan
  <2>. QED
    BY <1>5, VerdictFits, <1>7, <2>1 DEF Scan
<1>8. ASSUME NEW s \in Slots, ScanLook(s) PROVE TypeInv'
  <2>1. scan' \in [Slots -> Verdicts]
    BY VerdictFits, <1>8 DEF ScanLook
  <2>. QED
    BY <1>8, <2>1 DEF ScanLook
<1>9. ASSUME NEW s \in Slots, ScanWrite(s) PROVE TypeInv'
  <2>1. /\ scan[s] \in Verdicts /\ scan' \in [Slots -> Verdicts]
        /\ \A t \in Slots : scan'[t].path # None => scan[t].path # None
    BY <1>9 DEF ScanWrite, Verdicts, NoVerdict
  <2>2. assets[s] # None
    BY <1>9 DEF ScanWrite
  <2>. QED
    BY <1>5, <1>9, <2>1, <2>2 DEF ScanWrite
<1>4. CASE \E a \in Areas : RemoveArea(a) \/ CancelJob(a) \/ CleanArea(a)
  BY <1>4, SMTT(30) DEF RemoveArea, CancelJob, CleanArea
<1>. QED
  BY <1>1, <1>2, <1>3, <1>4, <1>7, <1>8, <1>9 DEF Owner

LEMMA CommitTypeInv ==
  ASSUME NEW c \in Commits
  PROVE  TypeInv /\ Commit(c) => TypeInv'
<1> USE ContentFacts DEF TypeInv, TypeOK, ThreadFitsJournal, ScanFitsRows, PCs,
                         OpenStates, disk, db, env, Goto, SetState
<1>1. TypeInv /\ CommitCheck(c) => TypeInv'
  BY SMTT(30) DEF CommitCheck
<1>2. TypeInv /\ CommitRefuse(c) => TypeInv'
  BY SMTT(30) DEF CommitRefuse
<1>3. ASSUME TypeInv, InsertJournal(c) PROVE TypeInv'
  <2>1. PICK x \in Artifacts : req' = [req EXCEPT ![c].sha = x]
    <3>1. Staged(c) \in Artifacts
      BY <1>3 DEF InsertJournal, Staged, Seen, Requests
    <3>2. req' = [req EXCEPT ![c].sha = Staged(c)]
      BY <1>3 DEF InsertJournal
    <3>. QED
      BY <3>1, <3>2
  <2>2. /\ req[c] \in Requests /\ req'[c] = [req[c] EXCEPT !.sha = x]
        /\ req' \in [Commits -> Requests \cup {None}] /\ req'[c] \in Requests
    <3>1. req[c] \in Requests
      BY <1>3 DEF InsertJournal
    <3>2. req'[c] = [req[c] EXCEPT !.sha = x]
      BY <1>3, <2>1
    <3>3. [req[c] EXCEPT !.sha = x] \in Requests
      BY ONLY <3>1, ContentFacts, x \in Artifacts DEF Requests
    <3>. QED
      BY <1>3, <2>1, <3>1, <3>2, <3>3
  <2>3. TypeOK'
    BY <1>3, <2>2 DEF InsertJournal
  <2>4. ThreadFitsJournal' /\ ScanFitsRows'
    BY <1>3, <2>1, <2>2 DEF InsertJournal, Requests
  <2>. QED
    BY <2>3, <2>4
<1>. QED
  BY <1>1, <1>2, <1>3 DEF Commit

LEMMA MoveTypeInv ==
  ASSUME NEW c \in Commits
  PROVE  TypeInv /\ Move(c) => TypeInv'
<1> USE ContentFacts DEF TypeInv, TypeOK, ThreadFitsJournal, ScanFitsRows, PCs,
                         OpenStates, disk, db, env, Goto, SetState
<1>1. TypeInv /\ RetireOld(c) => TypeInv'
  BY SMTT(60) DEF RetireOld, MustRetire, Old, At, Seen, Requests
<1>2. TypeInv /\ NothingToRetire(c) => TypeInv'
  BY SMTT(30) DEF NothingToRetire, At
<1>9. TypeInv /\ (PlaceIsFree(c) \/ LinkUnsupported(c)) => TypeInv'
  BY SMTT(30) DEF PlaceIsFree, LinkUnsupported
<1>3. ASSUME TypeInv, pc[c] \in {"place", "unlink"}, Goto(c, "mark"),
             staged' = [staged EXCEPT ![req[c].area] = None],
             UNCHANGED <<rootUp, lib, area, aside, db, mode, todo, env, kept, scan>>
      PROVE  TypeInv'
  <2>1. TypeOK'
    BY <1>3
  <2>2. ThreadFitsJournal' /\ ScanFitsRows'
    BY <1>3
  <2>. QED
    BY <2>1, <2>2
<1>7. TypeInv /\ (AlreadyInPlace(c) \/ UnlinkStaged(c)) => TypeInv'
  <2>. USE <1>3
  <2>. HIDE DEF TypeInv, Goto, SetState
  <2>. QED
    BY DEF AlreadyInPlace, UnlinkStaged
<1>4. ASSUME TypeInv, NEW st \in {"moved", "aborted"}, pc[c] \in {"place", "mark"},
             SetState(c, st), NEW pt \in {"idle", "restore", "advance"}, Goto(c, pt),
             pt = "restore" => st = "aborted", pt = "advance" => st = "moved",
             UNCHANGED <<disk, assets, sound, req, mode, todo, env, kept, scan>>
      PROVE  TypeInv'
  <2>1. TypeOK'
    BY <1>4
  <2>2. ThreadFitsJournal' /\ ScanFitsRows'
    BY <1>4
  <2>. QED
    BY <2>1, <2>2
<1>8. TypeInv /\ (Occupied(c) \/ StagedMissing(c) \/ MarkMoved(c)) => TypeInv'
  <2>. USE <1>4
  <2>. HIDE DEF TypeInv, Goto, SetState
  <2>. QED
    BY DEF Occupied, StagedMissing, MarkMoved
<1>5. TypeInv /\ LinkFinal(c) => TypeInv'
  BY SMTT(30) DEF LinkFinal, Staged, Seen, Requests
<1>6. TypeInv /\ RenameFinal(c) => TypeInv'
  BY SMTT(30) DEF RenameFinal, Staged, Seen, Requests
<1>. QED
  BY <1>1, <1>2, <1>3, <1>4, <1>5, <1>6, <1>7, <1>8, <1>9 DEF Move

LEMMA FinishTypeInv ==
  ASSUME NEW c \in Commits
  PROVE  TypeInv /\ Finish(c) => TypeInv'
<1> USE ContentFacts DEF TypeInv, TypeOK, ThreadFitsJournal, ScanFitsRows, PCs,
                         OpenStates, disk, db, env, proc, Goto, SetState, At
<1>1. TypeInv /\ (VerifyFinal(c) \/ VerifyFails(c) \/ Close(c)) => TypeInv'
  BY SMTT(30) DEF VerifyFinal, VerifyFails, Close
<1>2. TypeInv /\ Register(c) => TypeInv'
  BY SMTT(60) DEF Register, Slot, Rows, Requests
<1>3. TypeInv /\ (DropStaged(c) \/ DropOld(c) \/ NothingToRestore(c)) => TypeInv'
  BY SMTT(30) DEF DropStaged, DropOld, NothingToRestore
<1>4. TypeInv /\ RestoreOld(c) => TypeInv'
  BY SMTT(30) DEF RestoreOld, MustRestore, Aside, Seen, Requests
<1>. QED
  BY <1>1, <1>2, <1>3, <1>4 DEF Finish

LEMMA RestTypeInv ==
  TypeInv /\ (Startup \/ Environment \/ (\E c \in Commits : Raise(c)) \/ UNCHANGED vars)
    => TypeInv'
<1> USE ContentFacts DEF TypeInv, TypeOK, ThreadFitsJournal, ScanFitsRows, PCs,
                         OpenStates, disk, db, env, proc, Goto
<1>1. ASSUME NEW c \in Commits, TypeInv, Raise(c) PROVE TypeInv'
  BY <1>1, SMTT(30) DEF Raise
<1>2. ASSUME TypeInv, Startup PROVE TypeInv'
  <2>1. CASE Restart
    BY <1>2, <2>1, SMTT(30) DEF Restart, Open
  <2>3. CASE Serve
    BY <1>2, <2>3, SMTT(30) DEF Serve
  <2>2. ASSUME NEW c \in Commits, Recover(c) PROVE TypeInv'
    <3>1. /\ jstate[c] \in OpenStates /\ c \in todo /\ mode = "recovering"
          /\ \A d \in Commits : pc[d] = "idle"
          /\ todo' = todo \ {c}
          /\ pc' = pc \/ pc' = [pc EXCEPT ![c] = "advance"]
          /\ UNCHANGED <<disk, db, mode, env, kept, scan>>
      BY <1>2, <2>2 DEF Recover, Idle
    <3>2. pc' \in [Commits -> PCs] /\ todo' \subseteq Commits
      BY <1>2, <3>1
    <3>3. ThreadFitsJournal' /\ ScanFitsRows'
      BY <1>2, <3>1
    <3>4. TypeOK'
      BY <1>2, <3>1, <3>2
    <3>. QED
      BY <3>3, <3>4
  <2>. QED
    BY <1>2, <2>1, <2>2, <2>3 DEF Startup
<1>3. ASSUME TypeInv, Environment PROVE TypeInv'
  <2>1. CASE Crash
    BY <1>3, <2>1, SMTT(30) DEF Crash, NoVerdict, Verdicts
  <2>2. CASE RootLost
    <3>1. ThreadFitsJournal' /\ ScanFitsRows'
      BY <1>3, <2>2 DEF RootLost
    <3>2. /\ flaps < MaxFlaps /\ flaps' = flaps + 1 /\ rootUp' = FALSE
          /\ UNCHANGED <<lib, area, staged, aside, db, proc,
                         crashes, faults, tampers, touched, kept, scan>>
      BY <2>2, Zenon DEF RootLost
    <3>3. flaps' \in 0..MaxFlaps
      BY <1>3, <3>2
    <3>4. rootUp' \in BOOLEAN
      BY <3>2
    <3>5. TypeOK'
      BY <1>3, <3>2, <3>3, <3>4
    <3>. QED
      BY <3>1, <3>5
  <2>4. CASE RootBack
    BY <1>3, <2>4, SMTT(30) DEF RootBack
  <2>3. ASSUME NEW p \in Paths, NEW x \in {Junk, None}, Tamper(p, x) PROVE TypeInv'
    <3>1. /\ lib' = [lib EXCEPT ![p] = x] /\ x \in Files
          /\ tampers < MaxTampers /\ tampers' = tampers + 1
          /\ touched' = touched \cup {p}
          /\ UNCHANGED <<rootUp, area, staged, aside, db, proc,
                         crashes, faults, flaps, kept, scan>>
      BY <2>3 DEF Tamper
    <3>2. lib' \in [Paths -> Files] /\ tampers' \in 0..MaxTampers
      BY <1>3, <3>1
    <3>3. ThreadFitsJournal' /\ ScanFitsRows'
      BY <1>3, <3>1
    <3>4. TypeOK'
      BY <1>3, <3>1, <3>2
    <3>. QED
      BY <3>3, <3>4
  <2>. QED
    BY <1>3, <2>1, <2>2, <2>3, <2>4 DEF Environment
<1>4. TypeInv /\ UNCHANGED vars => TypeInv'
  BY SMTT(30) DEF vars
<1>. QED
  BY <1>1, <1>2, <1>3, <1>4

LEMMA NextTypeInv == TypeInv /\ [Next]_vars => TypeInv'
BY OwnerTypeInv, CommitTypeInv, MoveTypeInv, FinishTypeInv, RestTypeInv
   DEF Next, Thread

LEMMA TypeInvHolds == Spec => []TypeInv
BY InitTypeInv, NextTypeInv, PTL DEF Spec

(* Every variable keeps its type through all the steps of the threads, the *)
(* owners of the areas, startup and the environment.                       *)
THEOREM TypeCorrect == Spec => []TypeOK
<1>1. TypeInv => TypeOK
  BY DEF TypeInv
<1>. QED
  BY <1>1, TypeInvHolds, PTL

-----------------------------------------------------------------------------
(* The old copy.  What the argument needs to know of a slot's paths: they  *)
(* are the slot's alone, wherever they are written down.                   *)

PathsFit ==
  /\ \A s \in Slots : assets[s] # None => assets[s].path \in Places[s]
  /\ \A s \in Slots : scan[s].path # None => scan[s].path \in Places[s]
  /\ \A c \in Commits : req[c] # None =>
       /\ req[c].final \in Places[Slot(c)]
       /\ req[c].old # None => req[c].old \in Places[Slot(c)]

(* What is in an area was set aside by a commit from that area.            *)
AsideIsKept ==
  \A a \in Areas : aside[a] # None =>
    \E c \in Commits : req[c] # None /\ req[c].area = a /\ kept[c] = aside[a]

KeptInv == TypeInv /\ PathsFit /\ AsideIsKept /\ OldCopyKept

Trying == {"pending", "moved", "verified"}

(* What no step takes back: a call's paths, a registration, an abort and a *)
(* change made by somebody else; and a call begins without a kept copy.    *)
History ==
  /\ \A c \in Commits : req[c] # None =>
       /\ req'[c] # None /\ req'[c].area = req[c].area
       /\ req'[c].final = req[c].final /\ req'[c].old = req[c].old
  /\ \A c \in Commits : jstate[c] \in {"registered", "done"} =>
                          jstate'[c] \in {"registered", "done"}
  /\ \A c \in Commits : jstate[c] = "aborted" => jstate'[c] = "aborted"
  /\ touched \subseteq touched'
  /\ \A c \in Commits : jstate'[c] \in Trying =>
       jstate[c] \in Trying \/ (jstate[c] = "none" /\ kept[c] = None)

LEMMA JournalRests ==
  ASSUME TypeInv, UNCHANGED <<req, jstate, touched>>
  PROVE  History
BY DEF TypeInv, ThreadFitsJournal, History, Trying

(* Every change of a journal state is one of these.                        *)
JournalSteps == {<<"none", "pending">>, <<"pending", "moved">>, <<"moved", "verified">>,
                 <<"verified", "registered">>, <<"registered", "done">>,
                 <<"pending", "aborted">>, <<"moved", "aborted">>}

LEMMA JournalMoves ==
  ASSUME TypeInv, NEW c \in Commits, NEW st,
         <<jstate[c], st>> \in JournalSteps, SetState(c, st), UNCHANGED <<req, touched>>
  PROVE  History
<1>1. \A d \in Commits : jstate'[d] = IF d = c THEN st ELSE jstate[d]
  BY DEF TypeInv, TypeOK, SetState
<1>2. \A d \in Commits : kept[d] # None => jstate[d] # "none"
  BY DEF TypeInv, ThreadFitsJournal
<1>. QED
  BY <1>1, <1>2 DEF JournalSteps, History, Trying

LEMMA OwnerHistory == TypeInv /\ Owner => History
<1> SUFFICES ASSUME TypeInv, Owner PROVE History
  OBVIOUS
<1> USE DEF db, env
<1>1. CASE \E a \in Areas, x \in Artifacts : Stage(a, x)
  BY <1>1, JournalRests DEF Stage
<1>2. ASSUME NEW c \in Commits, NEW a \in Areas, NEW f \in Paths, Request(c, a, f)
      PROVE  History
  <2>1. /\ req[c] = None /\ jstate' = jstate /\ touched' = touched
        /\ \A d \in Commits \ {c} : req'[d] = req[d]
    BY <1>2 DEF Request, TypeInv, TypeOK
  <2>. QED
    BY <2>1 DEF TypeInv, ThreadFitsJournal, History, Trying
<1>3. CASE \E s \in Slots : MarkMissing(s) \/ Scan(s) \/ ScanLook(s) \/ ScanWrite(s)
  BY <1>3, JournalRests DEF MarkMissing, Scan, ScanLook, ScanWrite
<1>4. CASE \E a \in Areas : RemoveArea(a) \/ CancelJob(a) \/ CleanArea(a)
  BY <1>4, JournalRests DEF RemoveArea, CancelJob, CleanArea
<1>. QED
  BY <1>1, <1>2, <1>3, <1>4 DEF Owner

LEMMA ThreadHistory ==
  ASSUME NEW c \in Commits
  PROVE  TypeInv /\ Thread(c) => History
<1> SUFFICES ASSUME TypeInv, Thread(c) PROVE History
  OBVIOUS
<1>1. CASE CommitCheck(c) \/ CommitRefuse(c) \/ Raise(c)
  BY <1>1, JournalRests DEF CommitCheck, CommitRefuse, Raise, db, env
<1>2. CASE InsertJournal(c)
  <2>1. req[c] \in Requests /\ jstate[c] = "none"
    BY <1>2 DEF InsertJournal, TypeInv, TypeOK, ThreadFitsJournal
  <2>2. /\ \A d \in Commits \ {c} : req'[d] = req[d]
        /\ req'[c] = [req[c] EXCEPT !.sha = Staged(c)]
        /\ \A d \in Commits : jstate'[d] = IF d = c THEN "pending" ELSE jstate[d]
        /\ touched' = touched
    BY <1>2 DEF InsertJournal, TypeInv, TypeOK, SetState, env
  <2>3. \A d \in Commits : kept[d] # None => jstate[d] # "none"
    BY DEF TypeInv, ThreadFitsJournal
  <2>4. req'[c] # None
    BY <1>2, NextTypeInv DEF TypeInv, ThreadFitsJournal, InsertJournal, Next, Thread, Commit,
       SetState, TypeOK
  <2>. QED
    BY <2>1, <2>2, <2>3, <2>4 DEF History, Trying, Requests
<1>3. CASE RetireOld(c) \/ NothingToRetire(c)
  BY <1>3, JournalRests DEF RetireOld, NothingToRetire, db, env
<1>4. CASE \/ AlreadyInPlace(c) \/ PlaceIsFree(c) \/ LinkFinal(c) \/ UnlinkStaged(c)
           \/ LinkUnsupported(c) \/ RenameFinal(c)
  BY <1>4, JournalRests DEF AlreadyInPlace, PlaceIsFree, LinkFinal, UnlinkStaged,
     LinkUnsupported, RenameFinal, db, env
<1>5. CASE Occupied(c) \/ StagedMissing(c) \/ MarkMoved(c)
  <2>1. jstate[c] = "pending"
    BY <1>5 DEF Occupied, StagedMissing, MarkMoved, TypeInv, ThreadFitsJournal
  <2>. QED
    BY <1>5, <2>1, JournalMoves DEF Occupied, StagedMissing, MarkMoved, JournalSteps, env
<1>6. CASE VerifyFinal(c) \/ VerifyFails(c) \/ Register(c)
  BY <1>6, JournalMoves DEF VerifyFinal, VerifyFails, Register, At, JournalSteps, env
<1>7. CASE Close(c)
  <2>1. jstate[c] = "registered"
    BY <1>7 DEF Close, TypeInv, ThreadFitsJournal
  <2>. QED
    BY <1>7, <2>1, JournalMoves DEF Close, JournalSteps, env
<1>8. CASE DropStaged(c) \/ DropOld(c) \/ RestoreOld(c) \/ NothingToRestore(c)
  BY <1>8, JournalRests DEF DropStaged, DropOld, RestoreOld, NothingToRestore, db, env
<1>. QED
  BY <1>1, <1>2, <1>3, <1>4, <1>5, <1>6, <1>7, <1>8 DEF Thread, Commit, Move, Finish

LEMMA RestHistory == TypeInv /\ (Startup \/ Environment \/ UNCHANGED vars) => History
<1>1. (Startup \/ UNCHANGED vars) => UNCHANGED <<req, jstate, touched>>
  BY DEF Startup, Restart, Recover, Serve, vars, db, env
<1>2. (Crash \/ RootLost \/ RootBack) => UNCHANGED <<req, jstate, touched>>
  BY DEF Crash, RootLost, RootBack, db, env
<1>3. ASSUME TypeInv, NEW p, NEW x, Tamper(p, x) PROVE History
  <2>1. UNCHANGED <<req, jstate>> /\ touched \subseteq touched'
    BY <1>3 DEF Tamper, db
  <2>. QED
    BY <1>3, <2>1 DEF TypeInv, ThreadFitsJournal, History, Trying
<1>. QED
  BY <1>1, <1>2, <1>3, JournalRests DEF Environment

LEMMA StepHistory == TypeInv /\ [Next]_vars => History
BY OwnerHistory, ThreadHistory, RestHistory DEF Next

(* The steps that write a path down, and those that change a file of the   *)
(* library or an old copy.                                                 *)
NoNewPath ==
  /\ UNCHANGED assets
  /\ \A s \in Slots : scan'[s].path # None => scan'[s] = scan[s]
  /\ \A c \in Commits : req'[c] # None => req[c] # None

LEMMA RowSteps ==
  TypeInv /\ [Next]_vars =>
    \/ \E c \in Commits, a \in Areas, f \in Paths : Request(c, a, f)
    \/ \E c \in Commits : Register(c)
    \/ \E s \in Slots : Scan(s) \/ ScanLook(s) \/ ScanWrite(s)
    \/ NoNewPath
<1> SUFFICES ASSUME TypeInv, [Next]_vars,
                    ~ \E c \in Commits, a \in Areas, f \in Paths : Request(c, a, f),
                    ~ \E c \in Commits : Register(c),
                    ~ \E s \in Slots : Scan(s) \/ ScanLook(s) \/ ScanWrite(s)
             PROVE  NoNewPath
  OBVIOUS
<1>1. ASSUME NEW c \in Commits, InsertJournal(c) PROVE NoNewPath
  BY <1>1 DEF InsertJournal, NoNewPath, TypeInv, TypeOK, ThreadFitsJournal
<1>0. UNCHANGED <<assets, scan, req>> => NoNewPath
  BY DEF NoNewPath
<1>2. Owner => UNCHANGED <<assets, scan, req>>
  BY DEF Owner, Stage, MarkMissing, RemoveArea, CancelJob, CleanArea, db
<1>3. (Startup \/ RootLost \/ RootBack \/ UNCHANGED vars) => UNCHANGED <<assets, scan, req>>
  BY DEF Startup, Restart, Recover, Serve, RootLost, RootBack, vars, db
<1>5. Crash => NoNewPath
  BY DEF Crash, NoNewPath, NoVerdict, db
<1>6. \A p, x : Tamper(p, x) => UNCHANGED <<assets, scan, req>>
  BY DEF Tamper, db
<1>4. ASSUME NEW c \in Commits, Thread(c), ~InsertJournal(c)
      PROVE  UNCHANGED <<assets, scan, req>>
  <2>1. (CommitCheck(c) \/ CommitRefuse(c) \/ Raise(c)) => UNCHANGED <<assets, scan, req>>
    BY DEF CommitCheck, CommitRefuse, Raise, db
  <2>2. Move(c) => UNCHANGED <<assets, scan, req>>
    BY DEF Move, RetireOld, NothingToRetire, AlreadyInPlace, Occupied, PlaceIsFree,
           StagedMissing, LinkFinal, UnlinkStaged, LinkUnsupported, RenameFinal,
           MarkMoved, db
  <2>3. Finish(c) => UNCHANGED <<assets, scan, req>>
    BY DEF Finish, VerifyFinal, VerifyFails, DropStaged, DropOld, Close, RestoreOld,
           NothingToRestore, db
  <2>. QED
    BY <1>4, <2>1, <2>2, <2>3 DEF Thread, Commit
<1>. QED
  BY <1>0, <1>1, <1>2, <1>3, <1>4, <1>5, <1>6 DEF Next, Environment

LEMMA FileSteps ==
  [Next]_vars =>
    \/ UNCHANGED <<lib, aside, kept>>
    \/ \E c \in Commits : \/ RetireOld(c) \/ LinkFinal(c) \/ RenameFinal(c)
                          \/ RestoreOld(c) \/ DropOld(c)
    \/ \E a \in Areas : RemoveArea(a) \/ CancelJob(a) \/ CleanArea(a)
    \/ \E p \in Paths, x \in {Junk, None} : Tamper(p, x)
<1>1. (Startup \/ UNCHANGED vars) => UNCHANGED <<lib, aside, kept>>
  BY DEF Startup, Restart, Recover, Serve, vars, disk
<1>2. (Crash \/ RootLost \/ RootBack) => UNCHANGED <<lib, aside, kept>>
  BY DEF Crash, RootLost, RootBack, disk
<1>3. \A c \in Commits : (Commit(c) \/ Raise(c)) => UNCHANGED <<lib, aside, kept>>
  BY DEF Commit, CommitCheck, CommitRefuse, InsertJournal, Raise, disk
<1>4. \A c \in Commits : Move(c) =>
        RetireOld(c) \/ LinkFinal(c) \/ RenameFinal(c) \/ UNCHANGED <<lib, aside, kept>>
  BY DEF Move, NothingToRetire, AlreadyInPlace, Occupied, PlaceIsFree, StagedMissing,
         UnlinkStaged, LinkUnsupported, MarkMoved, disk
<1>5. \A c \in Commits : Finish(c) =>
        RestoreOld(c) \/ DropOld(c) \/ UNCHANGED <<lib, aside, kept>>
  BY DEF Finish, VerifyFinal, VerifyFails, Register, DropStaged, Close,
         NothingToRestore, disk
<1>6. Owner => \/ UNCHANGED <<lib, aside, kept>>
               \/ \E a \in Areas : RemoveArea(a) \/ CancelJob(a) \/ CleanArea(a)
  BY DEF Owner, Stage, Request, MarkMissing, Scan, ScanLook, ScanWrite, disk
<1>. QED
  BY <1>1, <1>2, <1>3, <1>4, <1>5, <1>6 DEF Next, Thread, Environment

(* A slot that has got its new copy keeps it, and so does an aborted call  *)
(* what it did.                                                            *)
LEMMA HistoryStays ==
  ASSUME TypeInv, History, NEW c \in Commits, req[c] # None
  PROVE  /\ Slot(c)' = Slot(c)
         /\ Replaced(c) => Replaced(c)'
         /\ kept' = kept => (TakenByAborted(c) => TakenByAborted(c)')
BY DEF History, Slot, SameSlot, Replaced, TakenByAborted

LEMMA PathsPreserved ==
  TypeInv /\ PathsFit /\ [Next]_vars => PathsFit'
<1> SUFFICES ASSUME TypeInv, PathsFit, [Next]_vars PROVE PathsFit'
  OBVIOUS
<1>1. History
  BY StepHistory
<1>2. \A c \in Commits : req[c] # None => Slot(c)' = Slot(c)
  BY <1>1 DEF History, Slot
<1>3. CASE \E c \in Commits, a \in Areas, f \in Paths : Request(c, a, f)
  <2>1. PICK c \in Commits, a \in Areas, f \in Paths : Request(c, a, f)
    BY <1>3
  <2> DEFINE row == assets[SlotOf[a]]
             old == IF row = None THEN None ELSE row.path
  <2>2. /\ req'[c].area = a /\ req'[c].final = f /\ req'[c].old = old
        /\ f \in Places[SlotOf[a]] /\ UNCHANGED <<assets, scan>>
        /\ \A d \in Commits \ {c} : req'[d] = req[d]
    BY <2>1 DEF Request, TypeInv, TypeOK, db
  <2>3. Slot(c)' = SlotOf[a] /\ SlotOf[a] \in Slots
    BY <2>2 DEF Slot
  <2>4. old # None => old \in Places[SlotOf[a]]
    BY <2>3 DEF PathsFit
  <2>. HIDE DEF old
  <2>. QED
    BY <1>2, <2>2, <2>3, <2>4 DEF PathsFit
<1>4. CASE \E c \in Commits : Register(c)
  <2>1. PICK c \in Commits : Register(c)
    BY <1>4
  <2>2. /\ UNCHANGED <<req, scan>> /\ req[c] # None
        /\ assets' = [assets EXCEPT ![Slot(c)] =
                        [path |-> req[c].final, content |-> req[c].sha]]
    BY <2>1 DEF Register, At, TypeInv, TypeOK, ThreadFitsJournal
  <2>3. \A s \in Slots : s # Slot(c) => assets'[s] = assets[s]
    BY <2>2 DEF TypeInv, TypeOK
  <2>4. assets'[Slot(c)].path \in Places[Slot(c)]
    BY <2>2 DEF PathsFit, TypeInv, TypeOK, Slot, Requests
  <2>. QED
    BY <1>2, <2>2, <2>3, <2>4 DEF PathsFit
<1>6. ASSUME NEW s \in Slots, rootUp, assets[s] # None
      PROVE  Verdict(s).path \in Places[s]
  <2>1. assets[s].path \in Places[s]
    BY <1>6 DEF PathsFit
  <2>2. CASE \E p \in Paths : Elsewhere(s) = {p}
    <3>1. (CHOOSE p \in Paths : Elsewhere(s) = {p}) \in Elsewhere(s)
      BY <2>2
    <3>2. Elsewhere(s) \subseteq Places[s]
      BY DEF Elsewhere
    <3>. QED
      BY <2>1, <3>1, <3>2 DEF Verdict
  <2>3. CASE ~\E p \in Paths : Elsewhere(s) = {p}
    BY <2>1, <2>3 DEF Verdict
  <2>. QED
    BY <2>2, <2>3
<1>7. ASSUME NEW s \in Slots, NEW v, v.path \in Places[s], ApplyVerdict(s, v), UNCHANGED req,
             \A t \in Slots : scan'[t].path # None => scan'[t] = scan[t]
      PROVE  PathsFit'
  BY <1>2, <1>7 DEF ApplyVerdict, PathsFit, TypeInv, TypeOK
<1>8. ASSUME NEW s \in Slots, Scan(s) PROVE PathsFit'
  BY <1>6, <1>7, <1>8 DEF Scan
<1>9. ASSUME NEW s \in Slots, ScanLook(s) PROVE PathsFit'
  <2>1. /\ UNCHANGED <<assets, req>> /\ Verdict(s).path \in Places[s]
        /\ \A t \in Slots : scan'[t] = IF t = s THEN Verdict(s) ELSE scan[t]
    BY <1>6, <1>9 DEF ScanLook, TypeInv, TypeOK, db
  <2>. QED
    BY <1>2, <2>1 DEF PathsFit
<1>10. ASSUME NEW s \in Slots, ScanWrite(s) PROVE PathsFit'
  <2>1. /\ scan[s].path \in Places[s] /\ ApplyVerdict(s, scan[s]) /\ UNCHANGED req
        /\ \A t \in Slots : scan'[t].path # None => scan'[t] = scan[t]
    BY <1>10 DEF ScanWrite, PathsFit, NoVerdict, TypeInv, TypeOK
  <2>. QED
    BY <1>7, <2>1
<1>5. CASE NoNewPath
  BY <1>1, <1>2, <1>5 DEF NoNewPath, PathsFit, History
<1>. QED
  BY <1>3, <1>4, <1>5, <1>8, <1>9, <1>10, RowSteps

-----------------------------------------------------------------------------
(* Hard links and areas that nobody removes under a running commit are     *)
(* what the old copy's safety depends on.                                  *)

Sheltered == HardLinks /\ Cancellable = {}

LEMMA AsidePreserved ==
  ASSUME TypeInv, AsideIsKept, [Next]_vars
  PROVE  AsideIsKept'
<1>1. History /\ TypeInv'
  BY StepHistory, NextTypeInv
<1>2. ASSUME UNCHANGED kept, \A a \in Areas : aside'[a] \in {aside[a], None}
      PROVE  AsideIsKept'
  BY <1>1, <1>2 DEF AsideIsKept, History
<1>3. ASSUME NEW c \in Commits, RetireOld(c) PROVE AsideIsKept'
  <2>1. /\ req[c] # None /\ req' = req /\ req[c].area \in Areas
        /\ aside' = [aside EXCEPT ![req[c].area] = Old(c)]
        /\ kept' = [kept EXCEPT ![c] = Old(c)] /\ aside[req[c].area] = None
    BY <1>3 DEF RetireOld, At, MustRetire, Aside, Seen, Old, TypeInv, TypeOK,
                ThreadFitsJournal, Requests, db
  <2>2. kept'[c] = Old(c) /\ \A d \in Commits \ {c} : kept'[d] = kept[d]
    BY <2>1 DEF TypeInv, TypeOK
  <2>3. ASSUME NEW a \in Areas, aside'[a] # None
        PROVE  \E d \in Commits : req[d] # None /\ req[d].area = a /\ kept'[d] = aside'[a]
    <3>1. CASE a = req[c].area
      BY <2>1, <2>2, <3>1 DEF TypeInv, TypeOK
    <3>2. CASE a # req[c].area
      <4>1. aside'[a] = aside[a]
        BY <2>1, <3>2 DEF TypeInv, TypeOK
      <4>2. PICK d \in Commits : req[d] # None /\ req[d].area = a /\ kept[d] = aside[a]
        BY <2>3, <4>1 DEF AsideIsKept
      <4>. QED
        BY <2>2, <3>2, <4>1, <4>2
    <3>. QED
      BY <3>1, <3>2
  <2>. QED
    BY <2>1, <2>3 DEF AsideIsKept
<1>4. ASSUME NEW c \in Commits, LinkFinal(c) \/ RenameFinal(c) \/ RestoreOld(c) \/ DropOld(c)
      PROVE  AsideIsKept'
  BY <1>2, <1>4 DEF LinkFinal, RenameFinal, RestoreOld, DropOld, TypeInv, TypeOK
<1>5. ASSUME NEW a \in Areas, RemoveArea(a) \/ CancelJob(a) \/ CleanArea(a)
      PROVE  AsideIsKept'
  BY <1>2, <1>5 DEF RemoveArea, CancelJob, CleanArea, TypeInv, TypeOK
<1>6. ASSUME NEW p \in Paths, NEW x \in {Junk, None}, Tamper(p, x) PROVE AsideIsKept'
  BY <1>2, <1>6 DEF Tamper
<1>7. CASE UNCHANGED <<lib, aside, kept>>
  BY <1>2, <1>7
<1>. QED
  BY <1>3, <1>4, <1>5, <1>6, <1>7, FileSteps

(* One call's part of OldCopyKept.                                         *)
CopyKept(c) ==
  InArea(c) \/ Back(c) \/ Replaced(c) \/ TakenByAborted(c)

LEMMA OldCopyPreserved ==
  ASSUME KeptInv, [Next]_vars, Sheltered
  PROVE  OldCopyKept'
<1> SUFFICES ASSUME NEW c \in Commits, kept'[c] # None, jstate'[c] \in Trying
             PROVE  CopyKept(c)'
  BY DEF OldCopyKept, CopyKept, Trying
<1>1. History /\ TypeInv /\ TypeInv'
  BY StepHistory, NextTypeInv DEF KeptInv
<1>. USE DEF disk, db, env
<1>2. CASE RetireOld(c)
  <2>1. /\ req[c] # None /\ req' = req /\ req[c].area \in Areas
        /\ aside'[req[c].area] = Old(c) /\ kept'[c] = Old(c)
    BY <1>1, <1>2 DEF RetireOld, At, TypeInv, TypeOK, ThreadFitsJournal, Requests
  <2>. QED
    BY <2>1 DEF CopyKept, InArea, SameSlot, Slot
<1>3. SUFFICES ASSUME ~RetireOld(c) PROVE CopyKept(c)'
  BY <1>2
<1>a. /\ kept'[c] = kept[c] /\ jstate[c] \in Trying /\ req[c] # None
      /\ CopyKept(c) /\ req'[c].old = req[c].old /\ Slot(c)' = Slot(c)
  <2>1. kept'[c] = kept[c]
    BY <1>1, <1>3, FileSteps DEF RetireOld, LinkFinal, RenameFinal, RestoreOld, DropOld,
       RemoveArea, CancelJob, CleanArea, Tamper, TypeInv, TypeOK
  <2>2. jstate[c] \in Trying
    BY <1>1, <2>1 DEF History
  <2>3. req[c] # None
    BY <1>1, <2>2 DEF TypeInv, ThreadFitsJournal, Trying
  <2>. QED
    BY <1>1, <2>1, <2>2, <2>3 DEF KeptInv, OldCopyKept, CopyKept, Trying, History, Slot
(* A step that leaves alone the copy, wherever it is, is harmless.         *)
<1>4. ASSUME \A d \in Commits : kept'[d] # kept[d] => jstate[d] # "aborted",
             \A d \in Commits : req[d] # None /\ Slot(d) = Slot(c)
                                /\ aside[req[d].area] = kept[c]
                                => aside'[req[d].area] = kept[c] \/ CopyKept(c)',
             \A d \in Commits : req[d] # None /\ Slot(d) = Slot(c) /\ req[d].old # None
                                /\ lib[req[d].old] = kept[c] =>
               lib'[req[d].old] = kept[c] \/ req[d].old \in touched' \/ CopyKept(c)'
      PROVE  CopyKept(c)'
  <2>1. \A d \in Commits : req[d] # None => Slot(d)' = Slot(d) /\ req'[d] # None
    BY <1>1 DEF History, Slot
  <2>2. CASE InArea(c)
    <3>1. PICK d \in Commits : req[d] # None /\ Slot(d) = Slot(c)
                              /\ aside[req[d].area] = kept[c]
      BY <2>2 DEF InArea, SameSlot
    <3>2. CASE aside'[req[d].area] = kept[c]
      <4>1. req'[d].area = req[d].area
        BY <1>1, <3>1 DEF History
      <4>. QED
        BY <1>a, <2>1, <3>1, <3>2, <4>1 DEF InArea, SameSlot, CopyKept
    <3>. QED
      BY <1>4, <3>1, <3>2
  <2>3. CASE Back(c)
    <3>1. PICK d \in Commits : /\ req[d] # None /\ Slot(d) = Slot(c) /\ req[d].old # None
                               /\ lib[req[d].old] = kept[c] \/ req[d].old \in touched
      BY <2>3 DEF Back, SameSlot
    <3>2. req'[d].old = req[d].old
      BY <1>1, <3>1 DEF History
    <3>3. CASE lib'[req[d].old] = kept[c] \/ req[d].old \in touched'
      BY <1>a, <2>1, <3>1, <3>2, <3>3 DEF Back, SameSlot, CopyKept
    <3>4. req[d].old \in touched => req[d].old \in touched'
      BY <1>1 DEF History
    <3>. QED
      BY <1>4, <3>1, <3>3, <3>4
  <2>4. CASE Replaced(c)
    BY <1>1, <1>a, <2>4, HistoryStays DEF CopyKept
  <2>5. CASE TakenByAborted(c)
    BY <1>1, <1>a, <1>4, <2>1, <2>5 DEF CopyKept, TakenByAborted, SameSlot, History
  <2>. QED
    BY <1>a, <2>2, <2>3, <2>4, <2>5 DEF CopyKept
<1>5. CASE UNCHANGED <<lib, aside, kept>>
  BY <1>4, <1>5
<1>6. ASSUME NEW d \in Commits, d # c, RetireOld(d) PROVE CopyKept(c)'
  <2>1. /\ req[d] # None /\ req[d].area \in Areas /\ Old(d) # None
        /\ Old(d) = lib[req[d].old] /\ req[d].old \in Paths
        /\ aside[req[d].area] = None /\ jstate[d] = "pending"
        /\ lib' = [lib EXCEPT ![req[d].old] = None]
        /\ aside' = [aside EXCEPT ![req[d].area] = Old(d)]
        /\ kept' = [kept EXCEPT ![d] = Old(d)] /\ req' = req
    BY <1>1, <1>6 DEF RetireOld, At, MustRetire, Aside, Seen, Old, TypeInv, TypeOK,
                      ThreadFitsJournal, Requests
  <2>3. \A e \in Commits : kept'[e] # kept[e] => jstate[e] # "aborted"
    BY <1>1, <2>1 DEF TypeInv, TypeOK
  <2>4. ASSUME NEW e \in Commits, req[e] # None, aside[req[e].area] = kept[c]
        PROVE  aside'[req[e].area] = kept[c]
    BY <1>1, <1>a, <2>1, <2>4 DEF TypeInv, TypeOK, Requests
  <2>5. ASSUME NEW e \in Commits, req[e] # None, Slot(e) = Slot(c), req[e].old # None,
               lib[req[e].old] = kept[c]
        PROVE  lib'[req[e].old] = kept[c] \/ CopyKept(c)'
    <3>1. CASE req[e].old = req[d].old
      <4>1. req[e].old \in Places[Slot(e)] /\ req[e].old \in Places[Slot(d)]
            /\ Slot(e) \in Slots /\ Slot(d) \in Slots
        BY <1>1, <2>1, <2>5, <3>1 DEF KeptInv, PathsFit, Slot, TypeInv, TypeOK, Requests
      <4>2. Slot(d) = Slot(c)
        BY <2>5, <4>1
      <4>3. aside'[req[d].area] = kept'[c]
        BY <1>1, <1>a, <2>1, <2>5, <3>1 DEF TypeInv, TypeOK
      <4>. QED
        BY <2>1, <4>2, <4>3 DEF CopyKept, InArea, SameSlot, Slot
    <3>2. CASE req[e].old # req[d].old
      BY <1>1, <2>1, <2>5, <3>2 DEF TypeInv, TypeOK, Requests
    <3>. QED
      BY <3>1, <3>2
  <2>. QED
    BY <1>4, <2>1, <2>3, <2>4, <2>5
<1>7. ASSUME NEW d \in Commits, LinkFinal(d) PROVE CopyKept(c)'
  <2>1. /\ lib' = [lib EXCEPT ![req[d].final] = Staged(d)] /\ lib[req[d].final] = None
        /\ UNCHANGED <<aside, kept>>
    BY <1>7 DEF LinkFinal, Final, Seen
  <2>3. \A e \in Commits : req[e] # None /\ req[e].old # None /\ lib[req[e].old] = kept[c]
                          => lib'[req[e].old] = kept[c]
    BY <1>1, <1>a, <2>1 DEF TypeInv, TypeOK
  <2>. QED
    BY <1>4, <2>1, <2>3
<1>8. ASSUME NEW d \in Commits, RenameFinal(d) PROVE FALSE
  BY <1>1, <1>8 DEF Sheltered, RenameFinal, TypeInv, ThreadFitsJournal
<1>9. ASSUME NEW d \in Commits, RestoreOld(d) PROVE CopyKept(c)'
  <2>1. /\ req[d] # None /\ req[d].area \in Areas /\ req[d].old \in Paths
        /\ lib[req[d].old] = None /\ aside[req[d].area] # None
        /\ lib' = [lib EXCEPT ![req[d].old] = aside[req[d].area]]
        /\ aside' = [aside EXCEPT ![req[d].area] = None]
        /\ UNCHANGED kept
    <3>1. req[d] # None /\ req[d] \in Requests
      BY <1>1, <1>9 DEF RestoreOld, TypeInv, TypeOK, ThreadFitsJournal
    <3>2. rootUp /\ req[d].old # None /\ lib[req[d].old] = None
          /\ aside[req[d].area] # None /\ Aside(d) = aside[req[d].area]
      BY <1>9 DEF RestoreOld, MustRestore, Aside, Seen, Old
    <3>. QED
      BY <1>9, <3>1, <3>2 DEF RestoreOld, Requests
  <2>2. ASSUME NEW e \in Commits, req[e] # None, Slot(e) = Slot(c),
               aside[req[e].area] = kept[c]
        PROVE  aside'[req[e].area] = kept[c] \/ CopyKept(c)'
    <3>1. CASE req[e].area = req[d].area
      <4>1. Slot(d) = Slot(c)
        BY <2>2, <3>1 DEF Slot
      <4>4. lib'[req[d].old] = kept[c]
        BY <1>1, <2>1, <2>2, <3>1 DEF TypeInv, TypeOK
      <4>5. req'[d] # None /\ req'[d].old = req[d].old /\ Slot(d)' = Slot(c)'
        BY <1>1, <1>a, <2>1, <4>1 DEF History, Slot
      <4>. QED
        BY <1>a, <2>1, <4>4, <4>5 DEF CopyKept, Back, SameSlot
    <3>2. CASE req[e].area # req[d].area
      BY <1>1, <2>1, <2>2, <3>2 DEF TypeInv, TypeOK, Requests
    <3>. QED
      BY <3>1, <3>2
  <2>3. \A e \in Commits : req[e] # None /\ req[e].old # None /\ lib[req[e].old] = kept[c]
                          => lib'[req[e].old] = kept[c]
    BY <1>1, <1>a, <2>1 DEF TypeInv, TypeOK
  <2>. QED
    BY <1>4, <2>1, <2>2, <2>3
<1>10. ASSUME NEW d \in Commits, DropOld(d) PROVE CopyKept(c)'
  <2>1. /\ jstate[d] = "registered" /\ req[d] # None /\ UNCHANGED <<lib, kept>>
        /\ \A a \in Areas : a # req[d].area => aside'[a] = aside[a]
    BY <1>1, <1>10 DEF DropOld, TypeInv, TypeOK, ThreadFitsJournal
  <2>2. ASSUME NEW e \in Commits, req[e] # None, Slot(e) = Slot(c),
               aside[req[e].area] = kept[c]
        PROVE  aside'[req[e].area] = kept[c] \/ CopyKept(c)'
    <3>1. CASE req[e].area = req[d].area
      <4>1. Replaced(c)
        BY <2>1, <2>2, <3>1 DEF Replaced, SameSlot, Slot
      <4>. QED
        BY <1>1, <1>a, <4>1, HistoryStays DEF CopyKept
    <3>2. CASE req[e].area # req[d].area
      BY <1>1, <2>1, <2>2, <3>2 DEF TypeInv, TypeOK, Requests
    <3>. QED
      BY <3>1, <3>2
  <2>. QED
    BY <1>4, <2>1, <2>2
<1>11. ASSUME NEW a \in Areas, RemoveArea(a) PROVE CopyKept(c)'
  <2>1. PICK d \in Commits : req[d] # None /\ req[d].area = a /\ jstate[d] = "done"
    BY <1>11 DEF RemoveArea
  <2>2. /\ UNCHANGED <<lib, kept>>
        /\ \A b \in Areas : b # a => aside'[b] = aside[b]
    BY <1>1, <1>11 DEF RemoveArea, TypeInv, TypeOK
  <2>3. ASSUME NEW e \in Commits, req[e] # None, Slot(e) = Slot(c),
               aside[req[e].area] = kept[c]
        PROVE  aside'[req[e].area] = kept[c] \/ CopyKept(c)'
    <3>1. CASE req[e].area = a
      <4>1. Replaced(c)
        BY <2>1, <2>3, <3>1 DEF Replaced, SameSlot, Slot
      <4>. QED
        BY <1>1, <1>a, <4>1, HistoryStays DEF CopyKept
    <3>2. CASE req[e].area # a
      BY <1>1, <2>2, <2>3, <3>2 DEF TypeInv, TypeOK, Requests
    <3>. QED
      BY <3>1, <3>2
  <2>. QED
    BY <1>4, <2>2, <2>3
<1>12. ASSUME NEW a \in Areas, CancelJob(a) PROVE FALSE
  BY <1>12 DEF CancelJob, Sheltered
(* Cleanup: the copy in the removed area was set aside by a call from that *)
(* area, whose entry is closed.                                            *)
<1>13. ASSUME NEW a \in Areas, CleanArea(a) PROVE CopyKept(c)'
  <2>1. /\ UNCHANGED <<lib, kept>>
        /\ \A b \in Areas : b # a => aside'[b] = aside[b]
        /\ \A d \in Commits : jstate[d] \in OpenStates => req[d].area # a
    BY <1>1, <1>13 DEF CleanArea, Open, TypeInv, TypeOK
  <2>2. ASSUME NEW e \in Commits, req[e] # None, Slot(e) = Slot(c),
               aside[req[e].area] = kept[c]
        PROVE  aside'[req[e].area] = kept[c] \/ CopyKept(c)'
    <3>1. CASE req[e].area = a
      <4>1. PICK d \in Commits : req[d] # None /\ req[d].area = a /\ kept[d] = aside[a]
        BY <1>a, <2>2, <3>1 DEF KeptInv, AsideIsKept
      <4>2. Slot(d) = Slot(c) /\ kept[d] = kept[c]
        BY <2>2, <3>1, <4>1 DEF Slot
      <4>3. jstate[d] \in {"aborted", "done"}
        BY <1>1, <1>a, <2>1, <4>1, <4>2 DEF TypeInv, TypeOK, ThreadFitsJournal, OpenStates
      <4>4. TakenByAborted(c) \/ Replaced(c)
        BY <4>1, <4>2, <4>3 DEF TakenByAborted, Replaced, SameSlot
      <4>. QED
        BY <1>1, <1>a, <2>1, <4>4, HistoryStays DEF CopyKept
    <3>2. CASE req[e].area # a
      BY <1>1, <2>1, <2>2, <3>2 DEF TypeInv, TypeOK, Requests
    <3>. QED
      BY <3>1, <3>2
  <2>. QED
    BY <1>4, <2>1, <2>2
<1>14. ASSUME NEW p \in Paths, NEW x \in {Junk, None}, Tamper(p, x) PROVE CopyKept(c)'
  <2>1. /\ lib' = [lib EXCEPT ![p] = x] /\ touched' = touched \cup {p}
        /\ UNCHANGED <<aside, kept>>
    BY <1>14 DEF Tamper
  <2>2. \A e \in Commits : req[e] # None /\ req[e].old # None /\ lib[req[e].old] = kept[c]
                          => lib'[req[e].old] = kept[c] \/ req[e].old \in touched'
    BY <1>1, <1>a, <2>1 DEF TypeInv, TypeOK
  <2>. QED
    BY <1>4, <2>1, <2>2
<1>. QED
  BY <1>3, <1>5, <1>6, <1>7, <1>8, <1>9, <1>10, <1>11, <1>12, <1>13, <1>14, FileSteps

LEMMA KeptInvHolds ==
  ASSUME Sheltered
  PROVE  Spec => []KeptInv
<1>1. Init => KeptInv
  BY InitTypeInv
     DEF Init, KeptInv, PathsFit, AsideIsKept, OldCopyKept, NoVerdict
<1>2. KeptInv /\ [Next]_vars => KeptInv'
  BY NextTypeInv, PathsPreserved, AsidePreserved, OldCopyPreserved DEF KeptInv
<1>. QED
  BY <1>1, <1>2, PTL DEF Spec

(* A retired old copy is never given up before the slot has a new one: for *)
(* any number of overlapping calls, crashes, faults, lost locations and    *)
(* foreign writes, on a file system with hard links and as long as nobody  *)
(* deletes a staging area while its job may still commit.                  *)
THEOREM OldCopyIsKept ==
  ASSUME Sheltered
  PROVE  Spec => []OldCopyKept
<1>1. KeptInv => OldCopyKept
  BY DEF KeptInv
<1>. QED
  BY <1>1, KeptInvHolds, PTL

-----------------------------------------------------------------------------
(* On a file system with hard links no commit overwrites a library file,   *)
(* whoever else writes there: what run commit_sequential checks for two    *)
(* calls, for any number of calls, overlapping ones included.              *)
THEOREM NothingOverwritten ==
  ASSUME HardLinks
  PROVE  Spec => NoOverwrite
<1> DEFINE A == \A p \in Paths : lib[p] # None /\ lib'[p] # lib[p] =>
                  \/ tampers' # tampers
                  \/ /\ lib'[p] = None
                     /\ \E c \in Commits : /\ req[c] # None /\ req[c].old = p
                                           /\ aside'[req[c].area] = lib[p]
<1>1. TypeInv /\ [Next]_vars => [A]_vars
  <2> SUFFICES ASSUME TypeInv, [Next]_vars PROVE A
    OBVIOUS
  <2>1. ASSUME NEW c \in Commits, RetireOld(c) PROVE A
    BY <2>1 DEF RetireOld, At, MustRetire, Old, Seen, TypeInv, TypeOK, ThreadFitsJournal,
                Requests
  <2>2. ASSUME NEW c \in Commits, LinkFinal(c) \/ RestoreOld(c) PROVE A
    BY <2>2 DEF LinkFinal, Final, RestoreOld, MustRestore, Old, Seen, Aside, TypeInv, TypeOK
  <2>3. ASSUME NEW c \in Commits, RenameFinal(c) PROVE FALSE
    BY <2>3 DEF RenameFinal, TypeInv, ThreadFitsJournal
  <2>4. ASSUME NEW c \in Commits, DropOld(c) PROVE A
    BY <2>4 DEF DropOld
  <2>5. ASSUME NEW a \in Areas, RemoveArea(a) \/ CancelJob(a) \/ CleanArea(a) PROVE A
    BY <2>5 DEF RemoveArea, CancelJob, CleanArea
  <2>6. ASSUME NEW p \in Paths, NEW x \in {Junk, None}, Tamper(p, x) PROVE A
    BY <2>6 DEF Tamper, TypeInv, TypeOK
  <2>. QED
    BY <2>1, <2>2, <2>3, <2>4, <2>5, <2>6, FileSteps
<1>. QED
  BY <1>1, TypeInvHolds, PTL DEF NoOverwrite, Spec

-----------------------------------------------------------------------------
(* PUBLICATION. The journal implements the atomic publication of                 *)
(* AssetPublication, whatever overlaps: every step of it is one step of the      *)
(* publication (a journal row is a promise, the registration publishes it, an    *)
(* abort refuses it) or leaves it alone.                                         *)

(* The abstract publication's variables, as functions of the journal.      *)
PromiseOf == [c \in Commits |-> Promise(c)]
PhaseOf   == [c \in Commits |-> Phase(c)]

(* What an accepted call is about to publish is a row of a slot.           *)
PromiseFor(r) ==
  [slot |-> SlotOf[r.area], row |-> [path |-> r.final, content |-> r.sha]]

LEMMA PromisesFit ==
  ASSUME NEW r \in Requests, r.sha \in Artifacts
  PROVE  PromiseFor(r) \in Publication!Promises /\ PromiseFor(r) # None
<1>1. SlotOf[r.area] \in Slots /\ r.final \in Paths /\ r.sha \in Contents
  <2>1. r.area \in Areas /\ r.final \in Paths
    BY Zenon DEF Requests
  <2>. QED
    BY <2>1, ContentFacts
<1>2. [path |-> r.final, content |-> r.sha] \in Publication!Rows
  BY <1>1, Zenon DEF Publication!Rows
<1>3. PromiseFor(r) \in Publication!Promises
  BY <1>1, <1>2, Zenon DEF Publication!Promises, PromiseFor
<1>4. Publication!Promises = [slot : Slots, row : Rows]
  BY Zenon DEF Publication!Promises, Publication!Rows, Rows
<1>. QED
  BY <1>3, <1>4

(* A step that leaves the rows and the open entries alone is invisible.    *)
LEMMA QuietStep ==
  ASSUME TypeInv, UNCHANGED <<assets, jstate>>,
         \A c \in Commits : jstate[c] # "none" => req'[c] = req[c]
  PROVE  UNCHANGED Publication!vars
<1>1. \A c \in Commits : Promise(c)' = Promise(c) /\ Phase(c)' = Phase(c)
  BY DEF Promise, Phase, Slot
<1>. QED
  BY <1>1 DEF Publication!vars

(* A step of one entry's state is a step of one call's phase.              *)
LEMMA PhaseStep ==
  ASSUME TypeInv, NEW c \in Commits, NEW st, SetState(c, st), req' = req,
         jstate[c] # "none", st # "none"
  PROVE  /\ PromiseOf' = PromiseOf
         /\ PhaseOf' = [PhaseOf EXCEPT ![c] = Phase(c)']
<1>1. jstate'[c] = st /\ \A d \in Commits \ {c} : jstate'[d] = jstate[d]
  BY DEF SetState, TypeInv, TypeOK
<1>2. \A d \in Commits : Promise(d)' = Promise(d)
  BY <1>1 DEF Promise, Slot
<1>3. \A d \in Commits \ {c} : Phase(d)' = Phase(d)
  BY <1>1 DEF Phase
<1>. QED
  BY <1>2, <1>3 DEF PromiseOf, PhaseOf

(* A scan's verdict moves a row, and never changes what it stands for.     *)
LEMMA ScanRelocates ==
  ASSUME TypeInv, NEW s \in Slots, NEW v, v.path \in Paths, assets[s] # None,
         ApplyVerdict(s, v), UNCHANGED <<jstate, req>>
  PROVE  Publication!Relocate(s, v.path)
<1>1. UNCHANGED <<PromiseOf, PhaseOf>>
  BY DEF PromiseOf, PhaseOf, Promise, Phase, Slot
<1>. QED
  BY <1>1 DEF ApplyVerdict, Publication!Relocate, PromiseOf, PhaseOf

LEMMA InsertAccepts ==
  ASSUME TypeInv, NEW c \in Commits, InsertJournal(c)
  PROVE  Publication!Accept(c)
<1>1. /\ jstate[c] = "none" /\ jstate'[c] = "pending" /\ assets' = assets
      /\ \A d \in Commits \ {c} : jstate'[d] = jstate[d] /\ req'[d] = req[d]
  BY DEF InsertJournal, SetState, TypeInv, TypeOK, ThreadFitsJournal
<1>2. TypeInv'
  BY NextTypeInv DEF Next, Thread, Commit
<1>3. \A d \in Commits : jstate'[d] # "none" =>
        Promise(d)' \in Publication!Promises /\ Promise(d)' # None
  <2> SUFFICES ASSUME NEW d \in Commits, jstate'[d] # "none"
               PROVE  Promise(d)' \in Publication!Promises /\ Promise(d)' # None
    OBVIOUS
  <2>1. req'[d] \in Requests /\ req'[d].sha \in Artifacts
    BY <1>2 DEF TypeInv, TypeOK, ThreadFitsJournal
  <2>2. Promise(d)' = PromiseFor(req'[d])
    BY DEF Promise, PromiseFor, Slot
  <2>. QED
    BY <2>1, <2>2, PromisesFit
<1>4. \A d \in Commits : jstate'[d] = "none" => Promise(d)' = None
  BY DEF Promise
<1>5. PromiseOf' \in [Commits -> Publication!Promises \cup {None}] /\ PromiseOf'[c] # None
  BY <1>1, <1>3, <1>4 DEF PromiseOf
<1>6. \A d \in Commits \ {c} : Promise(d)' = Promise(d) /\ Phase(d)' = Phase(d)
  BY <1>1 DEF Promise, Phase, Slot
<1>7. Phase(c) = "new" /\ Phase(c)' = "open"
  BY <1>1 DEF Phase
<1>8. PhaseOf' = [PhaseOf EXCEPT ![c] = "open"]
  BY <1>6, <1>7 DEF PhaseOf
<1>. QED
  BY <1>1, <1>5, <1>6, <1>7, <1>8 DEF Publication!Accept, PromiseOf, PhaseOf

LEMMA RegisterPublishes ==
  ASSUME TypeInv, NEW c \in Commits, Register(c)
  PROVE  Publication!Publish(c)
<1>1. jstate[c] = "verified" /\ SetState(c, "registered") /\ req' = req
      /\ assets' = [assets EXCEPT ![Slot(c)] = [path |-> req[c].final, content |-> req[c].sha]]
  BY DEF Register, At
<1>2. jstate'[c] = "registered"
  BY <1>1 DEF SetState, TypeInv, TypeOK
<1>3. Phase(c) = "open" /\ Phase(c)' = "published"
  BY <1>1, <1>2 DEF Phase
<1>4. PromiseOf' = PromiseOf /\ PhaseOf' = [PhaseOf EXCEPT ![c] = "published"]
  BY <1>1, <1>3, PhaseStep
<1>5. Promise(c).slot = Slot(c) /\ Promise(c).row = [path |-> req[c].final, content |-> req[c].sha]
  BY <1>1 DEF Promise
<1>. QED
  BY <1>1, <1>3, <1>4, <1>5 DEF Publication!Publish, PromiseOf, PhaseOf

LEMMA AbortRefuses ==
  ASSUME TypeInv, NEW c \in Commits, jstate[c] \in {"pending", "moved"},
         SetState(c, "aborted"), UNCHANGED <<assets, req>>
  PROVE  Publication!Refuse(c)
<1>1. jstate'[c] = "aborted"
  BY DEF SetState, TypeInv, TypeOK
<1>2. Phase(c) = "open" /\ Phase(c)' = "refused"
  BY <1>1 DEF Phase
<1>3. PromiseOf' = PromiseOf /\ PhaseOf' = [PhaseOf EXCEPT ![c] = "refused"]
  BY <1>2, PhaseStep
<1>. QED
  BY <1>2, <1>3 DEF Publication!Refuse, PromiseOf, PhaseOf

LEMMA CloseConcludes ==
  ASSUME TypeInv, NEW c \in Commits, Close(c)
  PROVE  Publication!Conclude(c)
<1>1. jstate[c] = "registered" /\ jstate'[c] = "done" /\ UNCHANGED <<assets, req>>
      /\ SetState(c, "done")
  BY DEF Close, SetState, TypeInv, TypeOK, ThreadFitsJournal
<1>2. Phase(c) = "published" /\ Phase(c)' = "closed"
  BY <1>1 DEF Phase
<1>3. PromiseOf' = PromiseOf /\ PhaseOf' = [PhaseOf EXCEPT ![c] = "closed"]
  BY <1>1, <1>2, PhaseStep
<1>. QED
  BY <1>1, <1>2, <1>3 DEF Publication!Conclude, PromiseOf, PhaseOf

LEMMA ProgressIsSilent ==
  ASSUME TypeInv, NEW c \in Commits, MarkMoved(c) \/ VerifyFinal(c)
  PROVE  UNCHANGED Publication!vars
<1>1. PICK st \in {"moved", "verified"} :
        /\ SetState(c, st) /\ jstate[c] \in {"pending", "moved"}
        /\ UNCHANGED <<assets, req>>
  BY DEF MarkMoved, VerifyFinal, At, TypeInv, ThreadFitsJournal
<1>2. jstate'[c] = st
  BY <1>1 DEF SetState, TypeInv, TypeOK
<1>3. Phase(c)' = Phase(c) /\ PhaseOf[c] = Phase(c)
  BY <1>1, <1>2 DEF Phase, PhaseOf
<1>4. PromiseOf' = PromiseOf /\ PhaseOf' = [PhaseOf EXCEPT ![c] = Phase(c)]
  BY <1>1, <1>3, PhaseStep
<1>5. PhaseOf' = PhaseOf
  BY <1>3, <1>4 DEF PhaseOf
<1>. QED
  BY <1>1, <1>4, <1>5 DEF Publication!vars, PromiseOf, PhaseOf

(* Every step of the journal is a step of the publication, or none.        *)
LEMMA StepRefines ==
  ASSUME TypeInv, [Next]_vars
  PROVE  [Publication!Next]_(Publication!vars)
<1> DEFINE Silent == UNCHANGED Publication!vars
           Step   == Publication!Next \/ Silent
<1>1. UNCHANGED <<assets, jstate, req>> => Silent
  BY QuietStep
<1>2. ASSUME NEW c \in Commits, Commit(c) PROVE Step
  <2>1. CASE InsertJournal(c)
    BY <2>1, InsertAccepts DEF Publication!Next
  <2>2. CASE CommitCheck(c) \/ CommitRefuse(c)
    BY <1>1, <2>2 DEF CommitCheck, CommitRefuse, db
  <2>. QED
    BY <1>2, <2>1, <2>2 DEF Commit
<1>3. ASSUME NEW c \in Commits, Move(c) PROVE Step
  <2>1. CASE Occupied(c) \/ StagedMissing(c)
    <3>1. jstate[c] = "pending" /\ SetState(c, "aborted") /\ UNCHANGED <<assets, req>>
      BY <2>1 DEF Occupied, StagedMissing, TypeInv, ThreadFitsJournal
    <3>. QED
      BY <3>1, AbortRefuses DEF Publication!Next
  <2>2. CASE MarkMoved(c)
    BY <2>2, ProgressIsSilent
  <2>3. CASE ~(Occupied(c) \/ StagedMissing(c) \/ MarkMoved(c))
    <3>1. UNCHANGED <<assets, jstate, req>>
      BY <1>3, <2>3 DEF Move, RetireOld, NothingToRetire, AlreadyInPlace, PlaceIsFree,
         LinkFinal, UnlinkStaged, LinkUnsupported, RenameFinal, db
    <3>. QED
      BY <1>1, <3>1
  <2>. QED
    BY <2>1, <2>2, <2>3
<1>4. ASSUME NEW c \in Commits, Finish(c) PROVE Step
  <2>1. CASE VerifyFails(c)
    <3>1. jstate[c] = "moved" /\ SetState(c, "aborted") /\ UNCHANGED <<assets, req>>
      BY <2>1 DEF VerifyFails, At
    <3>. QED
      BY <3>1, AbortRefuses DEF Publication!Next
  <2>2. CASE Register(c)
    BY <2>2, RegisterPublishes DEF Publication!Next
  <2>3. CASE Close(c)
    BY <2>3, CloseConcludes DEF Publication!Next
  <2>4. CASE VerifyFinal(c)
    BY <2>4, ProgressIsSilent
  <2>5. CASE DropStaged(c) \/ DropOld(c) \/ RestoreOld(c) \/ NothingToRestore(c)
    BY <1>1, <2>5 DEF DropStaged, DropOld, RestoreOld, NothingToRestore, db
  <2>. QED
    BY <1>4, <2>1, <2>2, <2>3, <2>4, <2>5 DEF Finish
<1>5. ASSUME NEW c \in Commits, Raise(c) PROVE Step
  BY <1>1, <1>5 DEF Raise, db
<1>6. ASSUME NEW c \in Commits, NEW a \in Areas, NEW f \in Paths, Request(c, a, f) PROVE Step
  <2>1. /\ UNCHANGED <<assets, jstate>> /\ jstate[c] = "none"
        /\ \A d \in Commits \ {c} : req'[d] = req[d]
    BY <1>6 DEF Request, TypeInv, TypeOK, ThreadFitsJournal
  <2>. QED
    BY <2>1, QuietStep
<1>7. ASSUME NEW s \in Slots, Scan(s) \/ ScanWrite(s) PROVE Step
  <2>1. PICK v \in Verdicts : v.path # None /\ ApplyVerdict(s, v)
    <3>1. CASE ScanWrite(s)
      BY <1>7, <3>1 DEF ScanWrite, TypeInv, TypeOK
    <3>2. CASE Scan(s)
      BY <3>2, VerdictFits DEF Scan, TypeInv
    <3>. QED
      BY <1>7, <3>1, <3>2
  <2>2. v.path \in Paths /\ assets[s] # None /\ UNCHANGED <<jstate, req>>
    BY <1>7, <2>1 DEF Scan, ScanWrite, TypeInv, ScanFitsRows, Verdicts
  <2>. QED
    BY <2>1, <2>2, ScanRelocates DEF Publication!Next
<1>8. CASE Owner
  <2>1. CASE \E a \in Areas, x \in Artifacts : Stage(a, x)
    BY <1>1, <2>1 DEF Stage, db
  <2>2. CASE \E s \in Slots : MarkMissing(s) \/ ScanLook(s)
    BY <1>1, <2>2 DEF MarkMissing, ScanLook, db
  <2>3. CASE \E a \in Areas : RemoveArea(a) \/ CancelJob(a) \/ CleanArea(a)
    BY <1>1, <2>3 DEF RemoveArea, CancelJob, CleanArea, db
  <2>. QED
    BY <1>6, <1>7, <1>8, <2>1, <2>2, <2>3 DEF Owner
<1>9. CASE Startup \/ Environment \/ UNCHANGED vars
  BY <1>1, <1>9 DEF Startup, Restart, Serve, Recover, Environment, Crash, RootLost,
     RootBack, Tamper, vars, db
<1>. QED
  BY <1>2, <1>3, <1>4, <1>5, <1>8, <1>9 DEF Next, Thread

(* The journal implements the publication of AssetPublication: whatever    *)
(* crashes, faults, lost locations, foreign writes and overlapping scans   *)
(* fall between its steps, a call publishes its artifact in one step or    *)
(* leaves the slot's row alone, and never publishes twice.                 *)
THEOREM JournalImplementsPublication == Spec => ImplementsPublication
<1>1. Init => Publication!Init
  BY DEF Init, Publication!Init, Publication!Rows, Contents, Promise, Phase
<1>2. TypeInv /\ [Next]_vars => [Publication!Next]_(Publication!vars)
  BY StepRefines
<1>. QED
  BY <1>1, <1>2, TypeInvHolds, PTL DEF Spec, ImplementsPublication, Publication!Spec
=============================================================================
