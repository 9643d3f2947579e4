------------------------------ MODULE ReaderPages ------------------------------
(* One page of a unit read online (reader/service.py): requests share one fetch, *)
(* a link that expired is renewed once, a refusal is remembered, and a fetch     *)
(* that nobody waits for any more is canceled.                                   *)
EXTENDS Naturals, FiniteSets

CONSTANTS
  Readers,       \* requests of the person reading
  Prefetches,    \* requests made ahead, which the client may abandon
  NoOne,          \* nobody, nothing
  MaxFetches,    \* bound: page tasks at a time
  MaxLists,      \* bound: lists the source answers with
  MaxLinks       \* bound: links the source has handed out for the page, one after the other

ASSUME PagesAssumption ==
  /\ MaxFetches \in Nat /\ MaxLinks \in Nat \ {0}
  /\ NoOne \notin Readers \cup Prefetches \cup 1..MaxFetches
  /\ (Readers \cup Prefetches) \cap (1..MaxFetches) = {}

VARIABLES
  link,       \* the link that is good now: the source lets the older ones expire
  refuses,    \* the source refuses the page publicly, whatever the link
  held,       \* _descriptors: [id, link, fresh], the list of the unit; id 0 before one is asked for
  gate,       \* who holds the unit's descriptor lock
  refused,    \* _public_refusals has the unit, within its window
  cached,     \* the links whose page the reader cache holds
  requests,   \* where each request stands: [pc, fetch]
  fetches,    \* the page tasks: [pc, link, seen, now, urgent, timer, cleared]
  flying      \* _page_fetches: link -> fetch

pageVars == <<link, refuses, held, gate, refused, cached, requests, fetches, flying>>
remote == <<link, refuses>>

Requests == Readers \cup Prefetches
Fetches == 1..MaxFetches
Links == 1..MaxLinks
Unused == [pc |-> "unused", link |-> 0, seen |-> 0, now |-> 0, urgent |-> FALSE, timer |-> FALSE, cleared |-> FALSE]
Ended == {"done", "failed", "canceled"}
Live(f) == fetches[f].pc \notin Ended \cup {"unused"}
Waiting(f) == {r \in Requests : requests[r].pc = "wait" /\ requests[r].fetch = f}

PagesInit ==
  /\ link = 1 /\ refuses = FALSE /\ held = [id |-> 0, link |-> 0, fresh |-> FALSE]
  /\ gate = NoOne /\ refused = FALSE /\ cached = {}
  /\ requests = [r \in Requests |-> [pc |-> "idle", fetch |-> 0]]
  /\ fetches = [f \in Fetches |-> Unused] /\ flying = [u \in Links |-> 0]

PagesTypeOK ==
  /\ link \in Links /\ held.link \in 0..link
  /\ gate \in {NoOne} \cup Requests \cup Fetches
  /\ \A u \in Links : flying[u] # 0 => fetches[flying[u]].link = u /\ fetches[flying[u]].pc # "unused"

-----------------------------------------------------------------------------
(* page().                                                                       *)

At(r, pc) == [requests EXCEPT ![r].pc = pc]

NotPromoted(r, f) == FALSE      \* mutant: a prefetch stays one
Promotes(r, f) == r \in Readers
Joined(r, f) == [fetches[f] EXCEPT !.timer = FALSE, !.urgent = fetches[f].urgent \/ Promotes(r, f)]

(* From the list on nothing is awaited: the cache answers, or a fetch under way  *)
(* for the link is joined, or one is begun.                                      *)
Continue(r, l) ==
  \/ l.link \in cached /\ requests' = At(r, "done") /\ UNCHANGED <<fetches, flying>>
  \/ l.link \notin cached /\ refused /\ requests' = At(r, "error") /\ UNCHANGED <<fetches, flying>>
  \/ /\ l.link \notin cached /\ ~refused /\ flying[l.link] # 0
     /\ LET f == flying[l.link] IN
        /\ requests' = [requests EXCEPT ![r] = [pc |-> "wait", fetch |-> f]]
        /\ fetches' = [fetches EXCEPT ![f] = Joined(r, f)]
        /\ UNCHANGED flying
  \/ /\ l.link \notin cached /\ ~refused /\ flying[l.link] = 0
     /\ \E f \in Fetches :
          /\ fetches[f].pc = "unused" /\ \A g \in 1..(f - 1) : fetches[g].pc # "unused"
          /\ requests' = [requests EXCEPT ![r] = [pc |-> "wait", fetch |-> f]]
          /\ fetches' = [fetches EXCEPT ![f] = [pc |-> "start", link |-> l.link, seen |-> l.id, now |-> l.link,
                                                urgent |-> r \in Readers, timer |-> FALSE, cleared |-> FALSE]]
          /\ flying' = [flying EXCEPT ![l.link] = f]

Request(r) ==
  /\ requests[r].pc = "idle" /\ requests' = At(r, "list")
  /\ UNCHANGED <<link, refuses, held, gate, refused, cached, fetches, flying>>

(* _load_online_descriptors() under the unit's gate: the list that is held while *)
(* it is fresh, or while the unit is refused; else the source is asked.          *)
List(r) ==
  /\ requests[r].pc = "list" /\ gate = NoOne
  /\ \/ held.id # 0 /\ (held.fresh \/ refused) /\ Continue(r, held) /\ UNCHANGED gate
     \/ held.id = 0 /\ refused /\ requests' = At(r, "error") /\ UNCHANGED <<gate, fetches, flying>>
     \/ /\ ~refused /\ (held.id = 0 \/ ~held.fresh)
        /\ requests' = At(r, "asking") /\ gate' = r /\ UNCHANGED <<fetches, flying>>
  /\ UNCHANGED <<link, refuses, held, refused, cached>>

(* A new list has an identity of its own, whether or not its links are new.      *)
PageAnswer == [id |-> held.id + 1, link |-> link, fresh |-> TRUE]
Lists == held.id < MaxLists

Listed(r) ==
  /\ requests[r].pc = "asking" /\ gate' = NoOne
  /\ \/ Lists /\ held' = PageAnswer /\ Continue(r, PageAnswer)
     \/ requests' = At(r, "error") /\ UNCHANGED <<held, fetches, flying>>
  /\ UNCHANGED <<link, refuses, refused, cached>>

(* The wait is over when the fetch has ended, and clear() has run; the task of   *)
(* the last to wait is forgotten.                                                *)
Answered(r) ==
  /\ requests[r].pc = "wait" /\ fetches[requests[r].fetch].cleared
  /\ requests' = [requests EXCEPT ![r] = [pc |-> IF fetches[@.fetch].pc = "done" THEN "done" ELSE "error", fetch |-> 0]]
  /\ fetches' = IF Waiting(requests[r].fetch) = {r} THEN [fetches EXCEPT ![requests[r].fetch] = Unused] ELSE fetches
  /\ UNCHANGED <<link, refuses, held, gate, refused, cached, flying>>

KeptLocked(x) == gate      \* mutant: who is canceled keeps the lock
Released(x) == IF gate = x THEN NoOne ELSE gate

(* The client leaves a prefetch: the last to leave starts the timer.             *)
Abandon(r) ==
  /\ r \in Prefetches /\ requests[r].pc \in {"list", "asking", "wait"}
  /\ requests' = [requests EXCEPT ![r] = [pc |-> "gone", fetch |-> 0]]
  /\ gate' = Released(r)
  /\ fetches' = IF requests[r].pc # "wait" \/ Waiting(requests[r].fetch) # {r} THEN fetches
                ELSE IF Live(requests[r].fetch) THEN [fetches EXCEPT ![requests[r].fetch].timer = TRUE]
                ELSE IF fetches[requests[r].fetch].cleared THEN [fetches EXCEPT ![requests[r].fetch] = Unused] ELSE fetches
  /\ UNCHANGED <<link, refuses, held, refused, cached, flying>>

-----------------------------------------------------------------------------
(* _fetch_online_page().                                                         *)

Ends(f, pc) == fetches' = [fetches EXCEPT ![f] = [@ EXCEPT !.pc = pc, !.timer = FALSE]] /\ UNCHANGED flying
Goes(f, pc) == fetches' = [fetches EXCEPT ![f].pc = pc] /\ UNCHANGED flying

PoppedWhatever(f) == [flying EXCEPT ![fetches[f].link] = 0]     \* mutant: it does not look whose entry it is
(* clear(), when the task is done: the entry is removed if it is still its own.  *)
Popped(f) == [flying EXCEPT ![fetches[f].link] = IF @ = f THEN 0 ELSE @]

Clear(f) ==
  /\ fetches[f].pc \in Ended /\ ~fetches[f].cleared /\ flying' = Popped(f)
  /\ fetches' = [fetches EXCEPT ![f] = IF Waiting(f) = {} THEN Unused ELSE [@ EXCEPT !.cleared = TRUE]]
  /\ UNCHANGED <<link, refuses, held, gate, refused, cached, requests>>

Begin(f) ==
  /\ fetches[f].pc = "start"
  /\ IF refused THEN Ends(f, "failed") ELSE Goes(f, "fetch")
  /\ UNCHANGED <<link, refuses, held, gate, refused, cached, requests>>

Good(f) == fetches[f].now = link /\ ~refuses

(* A page that is valid is cached, and ends a refusal.                           *)
Fetched(f) ==
  /\ fetches[f].pc \in {"fetch", "refetch"} /\ Good(f)
  /\ cached' = cached \cup {fetches[f].now} /\ refused' = FALSE /\ Ends(f, "done")
  /\ UNCHANGED <<link, refuses, held, gate, requests>>

(* Any other answer fails: a second refusal is remembered when it is public.     *)
Fails(f) ==
  /\ fetches[f].pc \in {"fetch", "refetch"}
  /\ refused' = (refused \/ (fetches[f].pc = "refetch" /\ refuses))
  /\ Ends(f, "failed")
  /\ UNCHANGED <<link, refuses, held, gate, cached, requests>>

Expired(f) ==
  /\ fetches[f].pc = "fetch" /\ ~Good(f) /\ Goes(f, "renew")
  /\ UNCHANGED <<link, refuses, held, gate, refused, cached, requests>>

(* With the list in hand: its link, if it is another, is tried once.             *)
Retries(f, l) ==
  IF l.link # fetches[f].link
    THEN fetches' = [fetches EXCEPT ![f] = [@ EXCEPT !.pc = "refetch", !.now = l.link]] /\ UNCHANGED <<flying, refused>>
    ELSE Ends(f, "failed") /\ refused' = (refused \/ refuses)

AnyListRenews(f) == TRUE      \* mutant: a late failure renews the list that was renewed already
(* A late failure of an older list takes the renewal already performed.          *)
MustAsk(f) == held.id = fetches[f].seen

Renew(f) ==
  /\ fetches[f].pc = "renew" /\ gate = NoOne
  /\ \/ refused /\ Ends(f, "failed") /\ UNCHANGED <<gate, refused>>
     \/ ~refused /\ MustAsk(f) /\ Goes(f, "asking") /\ gate' = f /\ UNCHANGED refused
     \/ ~refused /\ ~MustAsk(f) /\ Retries(f, held) /\ UNCHANGED gate
  /\ UNCHANGED <<link, refuses, held, cached, requests>>

Renewed(f) ==
  /\ fetches[f].pc = "asking" /\ gate' = NoOne
  /\ \/ Lists /\ held' = PageAnswer /\ Retries(f, PageAnswer)
     \/ Ends(f, "failed") /\ refused' = (refused \/ refuses) /\ UNCHANGED held
  /\ UNCHANGED <<link, refuses, cached, requests>>

CancelsAnyway(f) == fetches[f].timer \/ \E r \in Prefetches : requests[r].pc = "gone"     \* mutant: whoever else waits
(* _cancel_orphan_page(), 0.15 s after the last has left.                        *)
MayCancel(f) == fetches[f].timer /\ Waiting(f) = {}

CancelOrphan(f) ==
  /\ Live(f) /\ MayCancel(f)
  /\ fetches' = [fetches EXCEPT ![f] = [@ EXCEPT !.pc = "canceled", !.timer = FALSE]]
  /\ flying' = Popped(f) /\ gate' = Released(f)
  /\ UNCHANGED <<link, refuses, held, refused, cached, requests>>

-----------------------------------------------------------------------------
(* The source, and the time.                                                     *)

LinkExpires == link < MaxLinks /\ link' = link + 1 /\ UNCHANGED <<refuses, held, gate, refused, cached, requests, fetches, flying>>
SourceRefuses == refuses' = ~refuses /\ UNCHANGED <<link, held, gate, refused, cached, requests, fetches, flying>>
ListAges == held.fresh /\ held' = [held EXCEPT !.fresh = FALSE] /\ UNCHANGED <<remote, gate, refused, cached, requests, fetches, flying>>
RefusalPasses == refused /\ refused' = FALSE /\ UNCHANGED <<remote, held, gate, cached, requests, fetches, flying>>
CacheEvicts == \E u \in cached : cached' = cached \ {u} /\ UNCHANGED <<remote, held, gate, refused, requests, fetches, flying>>

RequestSteps(r) == List(r) \/ Listed(r) \/ Answered(r)
FetchSteps(f) == Clear(f) \/ Begin(f) \/ Fetched(f) \/ Fails(f) \/ Expired(f) \/ Renew(f) \/ Renewed(f)

PagesNext ==
  \/ \E r \in Requests : Request(r) \/ RequestSteps(r) \/ Abandon(r)
  \/ \E f \in Fetches : FetchSteps(f) \/ CancelOrphan(f)
  \/ LinkExpires \/ SourceRefuses \/ ListAges \/ RefusalPasses \/ CacheEvicts

(* The loop runs every task that is ready, and every call to the source ends.    *)
PagesFairness ==
  /\ \A r \in Requests : WF_pageVars(Listed(r) \/ Answered(r)) /\ WF_pageVars(List(r))
  /\ \A f \in Fetches :
       /\ WF_pageVars(Clear(f)) /\ WF_pageVars(Renew(f))
       /\ WF_pageVars(Begin(f) \/ Fetched(f) \/ Fails(f) \/ Expired(f) \/ Renewed(f))
PagesSpec == PagesInit /\ [][PagesNext]_pageVars /\ PagesFairness

-----------------------------------------------------------------------------
(* Properties.                                                                   *)

(* Nobody waits for a fetch that was canceled: whoever still wants the page gets *)
(* an answer of its own, not the end of another request (reader/service.py:392). *)
NobodyWaitsOnCanceled == \A f \in Fetches : fetches[f].pc = "canceled" => Waiting(f) = {}

(* A link is fetched once at a time, however many ask for its page, also when a  *)
(* fetch was canceled and another begun meanwhile: a fetch under way is the one  *)
(* that the next request for its link finds and joins.                           *)
OneFetchPerLink == \A f \in Fetches : Live(f) => flying[fetches[f].link] = f

(* The person reading never waits behind the read-ahead budget: a fetch begun as *)
(* a prefetch is promoted when its page is opened.                               *)
ReaderIsPromoted ==
  \A r \in Readers : requests[r].pc = "wait" => fetches[requests[r].fetch].urgent

(* A list is renewed once: the source is asked only for the list that is held,   *)
(* whoever else has failed on it meanwhile (I-107).                              *)
RenewedOnce == \A f \in Fetches : fetches[f].pc = "asking" => held.id = fetches[f].seen

(* Every request of the reader is answered, whatever expires, refuses, or is     *)
(* abandoned by others.                                                          *)
ReaderIsAnswered ==
  \A r \in Readers : (requests[r].pc # "idle") ~> (requests[r].pc \in {"done", "error"})
=============================================================================
