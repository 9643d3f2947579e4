----------------------------- MODULE FollowChecks -----------------------------
(* Following a work (follow/service.py, follow/runner.py): what is new in   *)
(* the trusted catalog of the followed track, compared with a baseline.     *)
(* Checks wait for the source while the user follows, unfollows, re-points, *)
(* refreshes and trusts; they apply the answer to the track they asked for  *)
(* and compare for the track that is followed by then.                      *)
EXTENDS CatalogTrust

CONSTANTS
  Answers(_),      \* the complete catalogs that the source of a track may list
  Preemptible      \* the callers whose checks the governor may cancel

Callers == {"loop", "manual"}

ASSUME AnswersAssumption == \A t \in Tracks : Answers(t) \subseteq SUBSET Units
ASSUME PreemptibleAssumption == Preemptible \subseteq Callers

VARIABLES
  followed,    \* the track of the work's follow, or None
  baseline,    \* its baseline and the track that was taken of, or None while pending
  events,      \* its release events
  due,         \* is the next check due?
  saved,       \* what the undo token of the last unfollow restores, or None
  checking,    \* of each caller: the track its check asks the source for, or None
  looping      \* does the follow loop run?

followVars == << followed, baseline, events, due, saved >>
runVars    == << checking, looping >>
vars       == << catalogVars, followVars, runVars >>

Init ==
  /\ CatalogInit
  /\ followed = None /\ baseline = None /\ events = {} /\ due = FALSE /\ saved = None
  /\ checking = [k \in Callers |-> None] /\ looping = TRUE

Baseline(t) == [track |-> t, units |-> Trusted(t)]

-----------------------------------------------------------------------------
(* The user follows                                                        *)

(* _baseline and _schedule.  Without a trusted catalog it stays pending.   *)
Rebase(t) ==
  /\ baseline' = (IF HasTrusted(t) THEN Baseline(t) ELSE None)
  /\ due' = FALSE

(* The release events of the track followed before, if any, are kept.  An  *)
(* undo token only fails from now on: a work has one follow of a language. *)
Follow(t) ==
  /\ followed # t
  /\ followed' = t /\ Rebase(t) /\ saved' = None
  /\ UNCHANGED << catalogVars, events, runVars >>

ChangePreferredSource(t) ==
  /\ followed # None
  /\ followed' = t /\ Rebase(t) /\ events' = {}
  /\ UNCHANGED << catalogVars, saved, runVars >>

Unfollow ==
  /\ followed # None
  /\ saved' = [track |-> followed, baseline |-> baseline]
  /\ followed' = None /\ baseline' = None /\ events' = {} /\ due' = FALSE
  /\ UNCHANGED << catalogVars, runVars >>

UndoUnfollow ==
  /\ followed = None /\ saved # None
  /\ followed' = saved.track /\ baseline' = saved.baseline /\ saved' = None
  /\ UNCHANGED << catalogVars, events, due, runVars >>

-----------------------------------------------------------------------------
(* Checks                                                                  *)

Ask(k) ==
  /\ checking[k] = None /\ followed # None
  /\ checking' = [checking EXCEPT ![k] = followed]
  /\ UNCHANGED << catalogVars, followVars, looping >>

LoopChecks  == looping /\ due /\ Ask("loop")
ManualCheck == Ask("manual")

(* check(), for the catalogs s of the track that is followed.  It reports  *)
(* nothing while there is a candidate or no trusted catalog.               *)
CheckSilent(s) ==
  /\ s.suspicious # << >> \/ s.current = << >>
  /\ UNCHANGED << baseline, events >>

(* The first trusted catalog since the follow began becomes its baseline.  *)
CheckPending(t, s) ==
  /\ s.suspicious = << >> /\ s.current # << >> /\ baseline = None
  /\ baseline' = [track |-> t, units |-> Head(s.current)]
  /\ UNCHANGED events

(* A release event is unique by the key of its unit, whatever its track.   *)
CheckReports(t, s) ==
  /\ s.suspicious = << >> /\ s.current # << >> /\ baseline # None
  /\ LET known == baseline.units \cup {e.unit : e \in events}
     IN  events' = events \cup [track : {t}, unit : Head(s.current) \ known]
  /\ UNCHANGED baseline

Check(t) ==
  /\ \/ CheckSilent(snapshots'[t])
     \/ CheckPending(t, snapshots'[t])
     \/ CheckReports(t, snapshots'[t])
  /\ due' = FALSE

(* Mistake: the follow is not read again after the source answered.        *)
TrackAsked(k) == checking[k]

TrackToCompare(k) == followed

(* check_work after its await; it does not await again.  Its work may not  *)
(* be followed any more: check() raises, after the catalog was refreshed.  *)
Apply(k) ==
  /\ checking[k] # None
  /\ RefreshIncomplete \/ \E c \in Answers(checking[k]) : RefreshComplete(checking[k], c)
  /\ IF followed = None THEN UNCHANGED << baseline, events, due >> ELSE Check(TrackToCompare(k))
  /\ checking' = [checking EXCEPT ![k] = None]
  /\ UNCHANGED << followed, saved >>

(* Mistake: the ValueError of check() ends the loop.                       *)
AnswerEndsLoop(k) == Apply(k) /\ looping' = (looping /\ ~ (k = "loop" /\ followed = None))

(* The source answers.                                                     *)
Answer(k) == Apply(k) /\ UNCHANGED looping

(* The source does not answer, limits the rate or wants a session.         *)
AnswerFails(k) ==
  /\ checking[k] # None
  /\ checking' = [checking EXCEPT ![k] = None] /\ due' = FALSE
  /\ UNCHANGED << catalogVars, followed, baseline, events, saved, looping >>

(* The governor takes the browser back: the CancelledError passes through  *)
(* check_all, and _loop takes it for its own.                              *)
Preempted(k) ==
  /\ k \in Preemptible /\ checking[k] # None
  /\ checking' = [checking EXCEPT ![k] = None]
  /\ looping' = (looping /\ k # "loop")
  /\ UNCHANGED << catalogVars, followVars >>

(* next_check_at passes.                                                   *)
TimePasses ==
  /\ followed # None /\ ~ due
  /\ due' = TRUE
  /\ UNCHANGED << catalogVars, followed, baseline, events, saved, runVars >>

-----------------------------------------------------------------------------
(* Other calls                                                             *)

(* The user refreshes the catalog of a track, followed or not.             *)
RefreshCatalog(t) ==
  /\ \E c \in Answers(t) : RefreshComplete(t, c)
  /\ UNCHANGED << followVars, runVars >>

TrustCatalog(t) ==
  /\ TrustCandidate(t) \/ TrustCurrent(t) \/ TrustPrevious(t)
  /\ UNCHANGED << followVars, runVars >>

(* The process ends and starts again; undo tokens are only in memory.      *)
Restart ==
  /\ saved' = None /\ checking' = [k \in Callers |-> None] /\ looping' = TRUE
  /\ UNCHANGED << catalogVars, followed, baseline, events, due >>

User ==
  \/ \E t \in Tracks : Follow(t) \/ ChangePreferredSource(t) \/ RefreshCatalog(t) \/ TrustCatalog(t)
  \/ Unfollow \/ UndoUnfollow \/ ManualCheck

Next ==
  \/ User
  \/ LoopChecks \/ TimePasses
  \/ \E k \in Callers : Answer(k) \/ AnswerFails(k) \/ Preempted(k)
  \/ Restart

Spec == Init /\ [][Next]_vars

(* Time passes, the loop goes round, requests end, and a source that is    *)
(* asked again and again answers again and again.                          *)
Fairness ==
  /\ WF_vars(TimePasses) /\ WF_vars(LoopChecks)
  /\ WF_vars(Answer("loop") \/ AnswerFails("loop") \/ Preempted("loop"))
  /\ SF_vars(\E k \in Callers : Answer(k))

FairSpec == Spec /\ Fairness

-----------------------------------------------------------------------------
(* Properties                                                              *)

Baselines == [track : Tracks, units : SUBSET Units]

TypeOK ==
  /\ CatalogTypeOK
  /\ followed \in Tracks \cup {None}
  /\ baseline = None \/ baseline \in Baselines
  /\ events \subseteq [track : Tracks, unit : Units]
  /\ due \in BOOLEAN
  /\ saved = None \/ saved \in [track : Tracks, baseline : {None} \cup Baselines]
  /\ checking \in [Callers -> Tracks \cup {None}]
  /\ looping \in BOOLEAN
  /\ followed = None => baseline = None /\ events = {} /\ ~ due
  /\ followed # None => saved = None

(* Only what is in the trusted catalog of the followed track, and was not  *)
(* in it when that follow began, is ever reported, however many checks     *)
(* overlap and whatever is re-pointed, undone or trusted while they wait.  *)
OnlyNewsIsReported ==
  [][\A e \in events' \ events :
       /\ e.track = followed /\ baseline.track = followed
       /\ HasTrusted(followed)' /\ e.unit \in Trusted(followed)'
       /\ e.unit \notin baseline.units]_vars

(* A unit that is new in the trusted catalog of the followed track is      *)
(* reported in the end, unless it disappears from it, the catalog becomes  *)
(* suspicious, or the user gives the follow another baseline or track.     *)
Unreported(u) ==
  /\ followed # None /\ HasTrusted(followed) /\ snapshots[followed].suspicious = << >>
  /\ u \in Trusted(followed)
  /\ baseline # None /\ u \notin baseline.units
  /\ \A e \in events : e.unit # u

NewsIsReported == \A u \in Units : Unreported(u) ~> ~ Unreported(u)

(* A check that is due is made, unless the follow ends or is given another *)
(* time: the scheduler "checks due follows about every 12 hours".          *)
DueIsChecked == due ~> ~ due

=============================================================================
