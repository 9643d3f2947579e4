------------------------------- MODULE MCRequests ------------------------------
(* Instances for TLC of the components that wait for answers: readers for pages, *)
(* follow checks for catalogs, the app for news of the library, Home and         *)
(* Discover for what sources publish. A behaviour is one of a single component,  *)
(* chosen at its start; the others stay as they begin.                           *)
EXTENDS ReaderPages, LiveUpdates, FollowChecks, Feeds, TLC

CONSTANTS t1, t2, a, b, c

(* The source of t1 lists three units, loses two of them or all of them: two     *)
(* suspicious answers that differ, and news when the two come back. That of t2   *)
(* has one unit, of the same key as one of t1.                                   *)
MCAnswers(t) == IF t = t1 THEN { {a, b, c}, {c}, {} } ELSE { {c} }

VARIABLE part

requestsVars == <<part, pageVars, liveVars, vars, feedVars>>

RequestsInit ==
  /\ part \in {"pages", "live", "follow", "home", "discover"}
  /\ PagesInit /\ LiveInit /\ Init /\ FeedsInit

RequestsNext ==
  /\ UNCHANGED part
  /\ \/ part = "pages" /\ PagesNext /\ UNCHANGED <<liveVars, vars, feedVars>>
     \/ part = "live" /\ LiveNext /\ UNCHANGED <<pageVars, vars, feedVars>>
     \/ part = "follow" /\ Next /\ UNCHANGED <<pageVars, liveVars, feedVars>>
     \/ part = "home" /\ HomeNext /\ UNCHANGED <<pageVars, liveVars, vars>>
     \/ part = "discover" /\ DiscoverNext /\ UNCHANGED <<pageVars, liveVars, vars>>

(* PagesFairness, LiveFairness, the Fairness of FollowChecks and FeedsFairness,  *)
(* of the component that runs.                                                   *)
RequestsFairness ==
  /\ \A r \in Requests : /\ WF_pageVars(part = "pages" /\ (Listed(r) \/ Answered(r)))
                         /\ WF_pageVars(part = "pages" /\ List(r))
  /\ \A f \in Fetches :
       /\ WF_pageVars(part = "pages" /\ Clear(f)) /\ WF_pageVars(part = "pages" /\ Renew(f))
       /\ WF_pageVars(part = "pages" /\ (Begin(f) \/ Fetched(f) \/ Fails(f) \/ Expired(f) \/ Renewed(f)))
  /\ \A w \in Threads : WF_liveVars(part = "live" /\ (PublishInThread(w) \/ ScheduleInThread(w)))
  /\ WF_liveVars(part = "live" /\ RunReady /\ UNCHANGED <<version, thread, clientVars>>)
  /\ \A s \in Subs : /\ WF_liveVars(part = "live" /\ StreamNext(s) /\ UNCHANGED <<version, thread, clientVars>>)
                     /\ WF_liveVars(part = "live" /\ ServerNotices(s))
  /\ \A x \in Clients : /\ WF_liveVars(part = "live" /\ \E s \in Subs : Open(x, s))
                        /\ WF_liveVars(part = "live" /\ Receive(x)) /\ WF_liveVars(part = "live" /\ Poll(x))
                        /\ WF_liveVars(part = "live" /\ Serve(x))
  /\ WF_vars(part = "follow" /\ TimePasses) /\ WF_vars(part = "follow" /\ LoopChecks)
  /\ WF_vars(part = "follow" /\ (Answer("loop") \/ AnswerFails("loop") \/ Preempted("loop")))
  /\ SF_vars(part = "follow" /\ \E k \in Callers : Answer(k))
  /\ WF_feedVars(part = "home" /\ RestPasses) /\ WF_feedVars(part = "discover" /\ PageAges)
  /\ \A v \in Visits : WF_feedVars(part = "home" /\ VisitSteps(v))
  /\ \A t \in Tasks : WF_feedVars(part = "home" /\ LoopSteps(t))
  /\ \A d \in Browsers : WF_feedVars(part = "discover" /\ BrowseSteps(d))

RequestsSpec == RequestsInit /\ [][RequestsNext]_requestsVars /\ RequestsFairness

(* Every variable of the component that runs has its type.                       *)
RequestsTypeOK ==
  CASE part = "pages" -> PagesTypeOK
    [] part = "live" -> LiveTypeOK
    [] part = "follow" -> TypeOK
    [] part \in {"home", "discover"} -> FeedsTypeOK

(* Reconnects, of the behaviours of the app.                                     *)
ReconnectsWhenRun == part = "live" => Reconnects

(* FailedIsAskedAgain, of the behaviours of Home.                                *)
AskedAgainWhenVisited == part = "home" => FailedIsAskedAgain

-----------------------------------------------------------------------------
(* What the component that runs must keep, by whom it serves.                    *)

(* Whoever asks for the same thing shares one request for it, and none is        *)
(* canceled, renewed or left behind the others under somebody who waits for it   *)
(* (reader/service.py, discovery/home.py).                                       *)
OneRequestForAll ==
  /\ NobodyWaitsOnCanceled /\ OneFetchPerLink /\ ReaderIsPromoted /\ RenewedOnce
  /\ OneRequestPerFeed

(* A connected app knows, or is about to be told, that it is behind              *)
(* (events/bus.py).                                                              *)
NothingIsMissed == ResyncIsLast /\ NothingLost

(* The catalogs of a track, and what is read from them, agree                    *)
(* (catalog/trust.py).                                                           *)
CatalogsAgree == RequestsTypeOK /\ OneTrustedCatalog /\ UnitsReflectCatalog

(* A loss is confirmed before it is believed, and only news is reported          *)
(* (catalog/trust.py, follow/runner.py).                                         *)
ReportsAreTrue == LossIsConfirmed /\ OnlyNewsIsReported

(* Whoever waits is served: the reader of a page, the app that is behind, the    *)
(* follower of a work, and who opens Home or Discover.                           *)
EverybodyIsServed ==
  /\ ReaderIsAnswered
  /\ CatchesUp /\ ReconnectsWhenRun
  /\ NewsIsReported
  /\ HomeIsShown /\ AskedAgainWhenVisited /\ DiscoverCatchesUp
=============================================================================
