------------------------------ MODULE SearchFlow ------------------------------
(* Searches for the same words (search/service.py): each asks every source, from *)
(* the discovery cache (search/cache.py) or live; one source may be asked again, *)
(* on the state the latest search left. The reader may leave at any time, the    *)
(* state may be forgotten. Versions of plugins, which name the caches, are left  *)
(* out.                                                                          *)
EXTENDS Naturals, FiniteSets

CONSTANTS
  SearchSources,      \* the plugins that can search
  Searches,           \* searches for these words
  Retry,              \* the request that asks one source again; also names a state it makes
  NoState

ASSUME SearchAssumption == Retry \notin Searches /\ NoState \notin Searches \cup {Retry}

VARIABLES
  states,     \* _QueryState of each search: the status of each source (the listings are left out)
  current,    \* which of them _states holds for the words
  askers,     \* each request: [pc, sources asked, refresh, state]
  asking,     \* of each request and source: _run_source: "none", "asked", "ended"
  cache       \* the answer of each source that is cached: "none", "partial", "whole"

searchVars == <<states, current, askers, asking, cache>>

Askers == Searches \cup {Retry}
Statuses == {"absent", "pending", "cached", "done", "failed"}
NoQuery == [s \in SearchSources |-> "absent"]
Quiet == [pc |-> "idle", asked |-> {}, refresh |-> FALSE, state |-> NoState]

SearchInit ==
  /\ states = [a \in Askers |-> NoQuery] /\ current = NoState
  /\ askers = [a \in Askers |-> Quiet]
  /\ asking = [a \in Askers |-> [s \in SearchSources |-> "none"]]
  /\ cache = [s \in SearchSources |-> "none"]

SearchTypeOK ==
  /\ current \in Askers \cup {NoState}
  /\ \A a \in Askers :
       /\ \A s \in SearchSources : states[a][s] \in Statuses /\ asking[a][s] \in {"none", "asked", "ended"}
       /\ (askers[a].pc = "running") => askers[a].state \in Askers
  /\ \A s \in SearchSources : cache[s] \in {"none", "partial", "whole"}

-----------------------------------------------------------------------------
(* A request begins.                                                             *)

BeginSearch(q) ==
  /\ askers[q].pc = "idle"
  /\ \E refresh \in BOOLEAN :
       askers' = [askers EXCEPT ![q] = [pc |-> "running", asked |-> SearchSources, refresh |-> refresh, state |-> q]]
  /\ states' = [states EXCEPT ![q] = [s \in SearchSources |-> "pending"]]
  /\ current' = q /\ asking' = [asking EXCEPT ![q] = [s \in SearchSources |-> "none"]]
  /\ UNCHANGED cache

(* retry_source(): on the state that is there, or a new one.                     *)
Retried == IF current = NoState THEN Retry ELSE current
BeginRetry(s) ==
  /\ askers[Retry].pc = "idle"
  /\ askers' = [askers EXCEPT ![Retry] = [pc |-> "running", asked |-> {s}, refresh |-> TRUE, state |-> Retried]]
  /\ states' = [states EXCEPT ![Retried][s] = "pending"]
  /\ current' = Retried /\ asking' = [asking EXCEPT ![Retry] = [x \in SearchSources |-> "none"]]
  /\ UNCHANGED cache

-----------------------------------------------------------------------------
(* _run_source(), of a request and a source.                                     *)

Runs(a, s) == askers[a].pc = "running" /\ s \in askers[a].asked
Ours(a) == askers[a].state

Cached(s) == cache[s] # "none"

Settled(a, s, status) ==
  /\ states' = [states EXCEPT ![Ours(a)][s] = status]
  /\ asking' = [asking EXCEPT ![a][s] = "ended"]

FromCache(a, s) ==
  /\ Runs(a, s) /\ asking[a][s] = "none" /\ ~askers[a].refresh /\ Cached(s)
  /\ Settled(a, s, "cached")
  /\ UNCHANGED <<current, askers, cache>>

AskSource(a, s) ==
  /\ Runs(a, s) /\ asking[a][s] = "none" /\ (askers[a].refresh \/ ~Cached(s))
  /\ asking' = [asking EXCEPT ![a][s] = "asked"]
  /\ UNCHANGED <<states, current, askers, cache>>

CachesAnything(whole) == TRUE      \* mutant: a partial answer hides the missing pages later
Caches(whole) == whole

Put(s, whole) == cache' = [cache EXCEPT ![s] = IF whole THEN "whole" ELSE "partial"]

SourceAnswers(a, s) ==
  /\ Runs(a, s) /\ asking[a][s] = "asked"
  /\ \E whole \in BOOLEAN :
       /\ Settled(a, s, "done")
       /\ IF Caches(whole) THEN Put(s, whole) ELSE UNCHANGED cache
  /\ UNCHANGED <<current, askers>>

LeavesPending(a, s) == "pending"      \* mutant: an unexpected failure leaves the status as it is
FailedStatus(a, s) == "failed"

(* Every exception of the source ends in a status, so that it never clears what  *)
(* the others found.                                                             *)
SourceFails(a, s) ==
  /\ Runs(a, s) /\ asking[a][s] = "asked"
  /\ Settled(a, s, FailedStatus(a, s))
  /\ UNCHANGED <<current, askers, cache>>

-----------------------------------------------------------------------------

AllEnded(a) == \A s \in askers[a].asked : asking[a][s] = "ended"

(* The last update; or the reader leaves, and the tasks of a search are          *)
(* cancelled with it (the request of a retry is not cancelled).                  *)
EndSearch(a) ==
  /\ askers[a].pc = "running" /\ AllEnded(a)
  /\ askers' = [askers EXCEPT ![a] = [Quiet EXCEPT !.pc = IF a = Retry THEN "idle" ELSE "complete"]]
  /\ asking' = [asking EXCEPT ![a] = [s \in SearchSources |-> "none"]]
  /\ UNCHANGED <<states, current, cache>>

Leave(a) ==
  /\ a # Retry /\ askers[a].pc = "running"
  /\ askers' = [askers EXCEPT ![a] = [Quiet EXCEPT !.pc = "left"]]
  /\ asking' = [asking EXCEPT ![a] = [s \in SearchSources |-> "none"]]
  /\ UNCHANGED <<states, current, cache>>

(* _prune_states(), the lifetime and the limit of the cache.                   *)
ForgetState ==
  /\ current # NoState /\ current' = NoState
  /\ states' = IF askers[Retry].pc = "running" THEN states ELSE [states EXCEPT ![Retry] = NoQuery]
  /\ UNCHANGED <<askers, asking, cache>>

CacheForgets ==
  /\ \E s \in SearchSources : cache[s] # "none" /\ cache' = [cache EXCEPT ![s] = "none"]
  /\ UNCHANGED <<states, current, askers, asking>>

SourceSteps(a, s) == FromCache(a, s) \/ AskSource(a, s) \/ SourceAnswers(a, s) \/ SourceFails(a, s)

SearchNext ==
  \/ \E q \in Searches : BeginSearch(q)
  \/ \E s \in SearchSources : BeginRetry(s)
  \/ \E a \in Askers : (\E s \in SearchSources : SourceSteps(a, s)) \/ EndSearch(a) \/ Leave(a)
  \/ ForgetState \/ CacheForgets

SearchSpec == SearchInit /\ [][SearchNext]_searchVars

-----------------------------------------------------------------------------
(* Properties.                                                                   *)

(* A search that ended by itself has an answer of every source ("Each source     *)
(* reports its own state"), but for one that is being asked again.               *)
BeingRetried(q, s) == Runs(Retry, s) /\ Ours(Retry) = q
CompleteIsSettled ==
  \A q \in Searches, s \in SearchSources :
    (askers[q].pc = "complete" /\ states[q][s] = "pending") => BeingRetried(q, s)

(* "a partial one would hide the missing pages for the cache's lifetime"         *)
(* (search/service.py): what a later search finds in the cache is a whole        *)
(* answer.                                                                       *)
CacheIsWhole == \A s \in SearchSources : cache[s] # "partial"
=============================================================================
