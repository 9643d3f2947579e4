--------------------------------- MODULE Feeds ---------------------------------
(* What sources publish, on Home and in Discover (discovery/home.py,             *)
(* discovery/discover.py).  Home shows the feeds the cache holds and waits a     *)
(* moment for the others, each fetched by one task that any visit may find;      *)
(* Discover shows a page it read lately and asks for an older one again.  Tasks  *)
(* and requests interleave at every await, and a source may never answer.        *)
EXTENDS Naturals, FiniteSets

CONSTANTS
  FeedKeys,       \* the feeds of Home: a source and a kind
  Visits,         \* requests for Home
  Tasks,          \* fetches, reused once nobody refers to them
  NoTask,
  Browsers,       \* requests for one page of one list in Discover
  RestTime, FreshTime,                              \* FAILED_FEED_RETRY_SECONDS and FRESH_SECONDS, in ticks
  MaxFeedFailures, MaxForgotten, MaxListChanges     \* bounds

ASSUME FeedsAssumption ==
  /\ FeedKeys # {} /\ NoTask \notin Tasks
  /\ RestTime \in Nat /\ FreshTime \in Nat
  /\ MaxFeedFailures \in Nat /\ MaxForgotten \in Nat /\ MaxListChanges \in Nat

VARIABLES
  heldFeeds,    \* feeds the discovery cache holds
  resting,      \* by feed: how long it is still left alone after it failed (_failed_until)
  inflight,     \* by feed: the task _start() would return
  task,         \* by task: [at, feed]; "done" until its callback has run
  visit,        \* by visit: [at, shows, awaits], the feeds it has and the tasks it waits for
  list,         \* the list the source publishes, by the number of its changes
  page,         \* the page Discover keeps of it: [held, of, age]
  browse,       \* by request: [at, kept, got]
  shownPage,    \* history: what Discover showed last
  feedFailures, forgotten

homeVars == <<heldFeeds, resting, inflight, task, visit>>
discoverVars == <<list, page, browse, shownPage>>
feedBoundVars == <<feedFailures, forgotten>>
feedVars == <<homeVars, discoverVars, feedBoundVars>>

FreeTask == [at |-> "free", feed |-> CHOOSE f \in FeedKeys : TRUE]
NoVisit == [at |-> "idle", shows |-> {}, awaits |-> [f \in FeedKeys |-> NoTask]]
NoPage == [held |-> FALSE, of |-> 0, age |-> 0]
NoBrowse == [at |-> "idle", kept |-> NoPage, got |-> 0]

FeedsTypeOK ==
  /\ heldFeeds \subseteq FeedKeys /\ resting \in [FeedKeys -> 0..RestTime]
  /\ \A f \in FeedKeys : inflight[f] = NoTask \/ inflight[f] \in Tasks
  /\ \A t \in Tasks : task[t].at \in {"free", "new", "asking", "found", "none"} /\ task[t].feed \in FeedKeys
  /\ \A v \in Visits : visit[v].at \in {"idle", "waiting", "shown"} /\ visit[v].shows \subseteq FeedKeys
  /\ list \in 0..MaxListChanges /\ page.of \in 0..list /\ page.age \in 0..FreshTime
  /\ \A d \in Browsers : browse[d].at \in {"idle", "asking", "answered"} /\ browse[d].got \in 0..list
  /\ shownPage \in 0..list /\ feedFailures \in 0..MaxFeedFailures /\ forgotten \in 0..MaxForgotten

FeedsInit ==
  /\ heldFeeds = {} /\ resting = [f \in FeedKeys |-> 0] /\ inflight = [f \in FeedKeys |-> NoTask]
  /\ task = [t \in Tasks |-> FreeTask] /\ visit = [v \in Visits |-> NoVisit]
  /\ list = 0 /\ page = NoPage /\ browse = [d \in Browsers |-> NoBrowse] /\ shownPage = 0
  /\ feedFailures = 0 /\ forgotten = 0

-----------------------------------------------------------------------------
(* Home: _start() and _feed().                                                   *)

Done(t) == task[t].at \in {"found", "none"}      \* its callback has yet to run
AwaitsAny(t) == \E v \in Visits, f \in FeedKeys : visit[v].awaits[f] = t
NotInUse(t) == task[t].at = "free" /\ ~AwaitsAny(t)

StartsAnyway(f) == TRUE                                     \* mutant: a visit does not look for a task under way
MustStart(f) == inflight[f] = NoTask \/ Done(inflight[f])

(* Every feed that is not held is awaited, by the task there is or by a new one. *)
VisitHome(v) ==
  /\ visit[v].at = "idle"
  /\ LET cold == FeedKeys \ heldFeeds
         start == {f \in cold : MustStart(f)}
     IN \E new \in [start -> {t \in Tasks : NotInUse(t)}] :
          /\ \A f, g \in start : new[f] = new[g] => f = g
          /\ inflight' = [f \in FeedKeys |-> IF f \in start THEN new[f] ELSE inflight[f]]
          /\ task' = [t \in Tasks |-> IF \E f \in start : new[f] = t
                                      THEN [at |-> "new", feed |-> CHOOSE f \in start : new[f] = t] ELSE task[t]]
          /\ visit' = [visit EXCEPT ![v] = [at |-> "waiting", shows |-> heldFeeds,
                                            awaits |-> [f \in FeedKeys |-> IF f \in cold THEN inflight'[f] ELSE NoTask]]]
  /\ UNCHANGED <<heldFeeds, resting, discoverVars, feedBoundVars>>

(* _fetch(): a feed that failed moments ago is not asked.                        *)
RestsForGood(f) == feedFailures > 0                          \* mutant: a failed feed is never asked again
Rests(f) == resting[f] > 0

BeginFetch(t) ==
  /\ task[t].at = "new"
  /\ task' = [task EXCEPT ![t].at = IF Rests(task[t].feed) THEN "none" ELSE "asking"]
  /\ UNCHANGED <<heldFeeds, resting, inflight, visit, discoverVars, feedBoundVars>>

FeedAnswers(t) ==
  /\ task[t].at = "asking" /\ task' = [task EXCEPT ![t].at = "found"]
  /\ heldFeeds' = heldFeeds \cup {task[t].feed} /\ resting' = [resting EXCEPT ![task[t].feed] = 0]
  /\ UNCHANGED <<inflight, visit, discoverVars, feedBoundVars>>

FeedFails(t) ==
  /\ task[t].at = "asking" /\ feedFailures < MaxFeedFailures /\ feedFailures' = feedFailures + 1
  /\ task' = [task EXCEPT ![t].at = "none"] /\ resting' = [resting EXCEPT ![task[t].feed] = RestTime]
  /\ UNCHANGED <<heldFeeds, inflight, visit, discoverVars, forgotten>>

(* What asyncio.wait() has seen done is shown; the rest of the tasks go on.      *)
Collected(v) == {f \in FeedKeys : visit[v].awaits[f] # NoTask /\ task[visit[v].awaits[f]].at = "found"}
AllDone(v) == \A f \in FeedKeys : visit[v].awaits[f] # NoTask => Done(visit[v].awaits[f])   \* mutant: no timeout
WaitedEnough(v) == TRUE                                     \* all are done, or the moment is over

ShowHome(v) ==
  /\ visit[v].at = "waiting" /\ WaitedEnough(v)
  /\ visit' = [visit EXCEPT ![v] = [NoVisit EXCEPT !.at = "shown", !.shows = visit[v].shows \cup Collected(v)]]
  /\ UNCHANGED <<heldFeeds, resting, inflight, task, discoverVars, feedBoundVars>>

LeaveHome(v) ==
  /\ visit[v].at = "shown" /\ visit' = [visit EXCEPT ![v] = NoVisit]
  /\ UNCHANGED <<heldFeeds, resting, inflight, task, discoverVars, feedBoundVars>>

(* The callback of a task that is done; a visit may still hold its result.       *)
IsCurrent(t) == inflight[task[t].feed] = t

TaskCallback(t) ==
  /\ Done(t) /\ ~AwaitsAny(t)
  /\ inflight' = IF IsCurrent(t) THEN [inflight EXCEPT ![task[t].feed] = NoTask] ELSE inflight
  /\ task' = [task EXCEPT ![t] = FreeTask]
  /\ UNCHANGED <<heldFeeds, resting, visit, discoverVars, feedBoundVars>>

(* Ttl, size, or a cleared source.                                               *)
FeedForgotten(f) ==
  /\ f \in heldFeeds /\ forgotten < MaxForgotten /\ forgotten' = forgotten + 1
  /\ heldFeeds' = heldFeeds \ {f}
  /\ UNCHANGED <<resting, inflight, task, visit, discoverVars, feedFailures>>

RestPasses ==
  /\ \E f \in FeedKeys : resting[f] > 0
  /\ resting' = [f \in FeedKeys |-> IF resting[f] > 0 THEN resting[f] - 1 ELSE 0]
  /\ UNCHANGED <<heldFeeds, inflight, task, visit, discoverVars, feedBoundVars>>

-----------------------------------------------------------------------------
(* Discover: feed(), for one page.                                               *)

ListChanges ==
  /\ list < MaxListChanges /\ list' = list + 1
  /\ UNCHANGED <<homeVars, page, browse, shownPage, feedBoundVars>>

NeverStale == page.held                                     \* mutant: a page is kept however old it is
PageIsFresh == page.held /\ page.age < FreshTime

ShowKept(d) ==
  /\ browse[d].at = "idle" /\ PageIsFresh /\ shownPage' = page.of
  /\ UNCHANGED <<homeVars, list, page, browse, feedBoundVars>>

AskForPage(d) ==
  /\ browse[d].at = "idle" /\ ~PageIsFresh
  /\ browse' = [browse EXCEPT ![d] = [at |-> "asking", kept |-> page, got |-> 0]]
  /\ UNCHANGED <<homeVars, list, page, shownPage, feedBoundVars>>

SourceSends(d) ==
  /\ browse[d].at = "asking" /\ browse' = [browse EXCEPT ![d].at = "answered", ![d].got = list]
  /\ UNCHANGED <<homeVars, list, page, shownPage, feedBoundVars>>

ReceivePage(d) ==
  /\ browse[d].at = "answered"
  /\ page' = [held |-> TRUE, of |-> browse[d].got, age |-> 0] /\ shownPage' = browse[d].got
  /\ browse' = [browse EXCEPT ![d] = NoBrowse]
  /\ UNCHANGED <<homeVars, list, feedBoundVars>>

(* The source fails, or sends nothing it can explain: an older page beats none.  *)
PageFails(d) ==
  /\ browse[d].at = "asking" /\ feedFailures < MaxFeedFailures /\ feedFailures' = feedFailures + 1
  /\ shownPage' = IF browse[d].kept.held THEN browse[d].kept.of ELSE shownPage
  /\ browse' = [browse EXCEPT ![d] = NoBrowse]
  /\ UNCHANGED <<homeVars, list, page, forgotten>>

PageForgotten ==
  /\ page.held /\ forgotten < MaxForgotten /\ forgotten' = forgotten + 1
  /\ page' = NoPage
  /\ UNCHANGED <<homeVars, list, browse, shownPage, feedFailures>>

PageAges ==
  /\ page.held /\ page.age < FreshTime /\ page' = [page EXCEPT !.age = @ + 1]
  /\ UNCHANGED <<homeVars, list, browse, shownPage, feedBoundVars>>

VisitSteps(v) == VisitHome(v) \/ ShowHome(v) \/ LeaveHome(v)
LoopSteps(t) == BeginFetch(t) \/ TaskCallback(t)
BrowseSteps(d) == ShowKept(d) \/ AskForPage(d) \/ SourceSends(d) \/ ReceivePage(d)

HomeNext ==
  \/ RestPasses
  \/ \E f \in FeedKeys : FeedForgotten(f)
  \/ \E v \in Visits : VisitSteps(v)
  \/ \E t \in Tasks : LoopSteps(t) \/ FeedAnswers(t) \/ FeedFails(t)

DiscoverNext ==
  \/ ListChanges \/ PageForgotten \/ PageAges
  \/ \E d \in Browsers : BrowseSteps(d) \/ PageFails(d)

FeedsNext == HomeNext \/ DiscoverNext

(* The loop runs what is ready, time passes, people come back. A source owes     *)
(* Home no answer: FeedAnswers is not fair. Discover's reader gets one, since    *)
(* every request of a source has a time limit.                                   *)
FeedsFairness ==
  /\ WF_feedVars(RestPasses) /\ WF_feedVars(PageAges)
  /\ \A v \in Visits : WF_feedVars(VisitSteps(v))
  /\ \A t \in Tasks : WF_feedVars(LoopSteps(t))
  /\ \A d \in Browsers : WF_feedVars(BrowseSteps(d))

FeedsSpec == FeedsInit /\ [][FeedsNext]_feedVars /\ FeedsFairness

-----------------------------------------------------------------------------
(* A source is asked for a feed by one request at a time, however many visits    *)
(* wait for it, and also when a task ended while its callback had yet to run     *)
(* (home._start).                                                                *)
OneRequestPerFeed ==
  \A t, u \in Tasks : task[t].at = "asking" /\ task[u].at = "asking" /\ task[t].feed = task[u].feed => t = u

(* Home is shown though a source never answers (home._feed).                     *)
HomeIsShown == \A v \in Visits : []<>(visit[v].at # "waiting")

(* A feed that failed is asked again in the end: it is held, or it is being      *)
(* asked, again and again (home._fetch).                                         *)
FailedIsAskedAgain ==
  \A f \in FeedKeys : []<>(f \in heldFeeds \/ \E t \in Tasks : task[t].feed = f /\ task[t].at = "asking")

(* Once the list rests, Discover shows it as it is again and again, though a     *)
(* late answer may replace a newer page (discover.feed).                         *)
DiscoverCatchesUp == []<>(shownPage = list)
=============================================================================
