--------------------------- MODULE TrafficGovernor ---------------------------
(* The Source Traffic Governor (net/governor.py): every request to a source *)
(* takes a lease first.  Leases are granted by priority, then to the source *)
(* that was served least, then in order of arrival, within the capacities   *)
(* of the kind (http or browser), the concurrency of the source and its     *)
(* request spacing.  Background browser leases are preempted for urgent     *)
(* work.                                                                    *)
(*                                                                          *)
(* Every call ends in _dispatch, a loop that grants one lease per pass.     *)
(* The loop is synchronous: while passes > 0 no other action is enabled, so *)
(* that a call and its dispatch are one step for everybody else.            *)
(*                                                                          *)
(* Time is kept as what remains of it: wait[s] is the time until source s   *)
(* may start another request (the later of next_start and retry_until), and *)
(* timer the time until the timer armed by _schedule fires.                 *)
EXTENDS Integers, FiniteSets

CONSTANTS
  Tasks,                  \* asyncio tasks that make requests, one at a time
  Sources,
  Requests(_),            \* the requests a task may make: [source, priority, kind]
  HttpCapacity, BrowserCapacity,
  ReservedForForeground,
  Limits,                 \* configurations of a source: [concurrency, interval]
  RetryDelays,            \* values of Retry-After
  Promotions,             \* the priorities that callers promote a task to
  MaxRequests,            \* bound: requests made
  MaxCalls,               \* bound: promotions, configurations, Retry-Afters and cancellations
  None

Priorities == 1..6        \* READER .. HEALTH
Background == 4           \* READ_AHEAD and everything less urgent
Kinds      == {"http", "browser"}

ASSUME TasksAssumption == IsFiniteSet(Tasks)
ASSUME RequestsAssumption ==
  \A t \in Tasks :
    Requests(t) # {} /\ Requests(t) \subseteq [source : Sources, priority : Priorities, kind : Kinds]
ASSUME CapacityAssumption ==
  /\ HttpCapacity \in Nat \ {0} /\ BrowserCapacity \in Nat \ {0}
  /\ ReservedForForeground \in Nat
ASSUME LimitsAssumption ==
  Limits # {} /\ Limits \subseteq [concurrency : Nat \ {0}, interval : Nat]
ASSUME BoundsAssumption ==
  /\ RetryDelays \subseteq Nat /\ Promotions \subseteq Priorities
  /\ MaxRequests \in Nat /\ MaxCalls \in Nat
ASSUME NoneAssumption == None \notin Nat

VARIABLES
  pc,          \* of each task: idle, waiting, granted (its future is set), using
  request,     \* of each task: its waiter, later its lease
  seq,         \* of each task: the number of its waiter
  promoted,    \* of each task: the most urgent priority it was promoted to
  cancelled,   \* of each task: cancel() was called, CancelledError not delivered
  leases,      \* the tasks that hold a lease
  preempted,   \* the tasks whose lease is marked preempted
  used,        \* leases of each kind, as counted
  inUse,       \* leases of each source, as counted
  served,      \* grants to each source
  wait,        \* of each source: time until it may start a request
  limit,       \* of each source: its configuration
  timer,       \* time until the timer fires, or None
  passes,      \* calls of _dispatch still to be finished
  nextSeq, calls

taskVars   == << pc, request, seq, promoted, cancelled >>
leaseVars  == << leases, preempted, used, inUse, served >>
sourceVars == << wait, limit >>
loopVars   == << timer, passes >>
boundVars  == << nextSeq, calls >>
vars       == << taskVars, leaseVars, sourceVars, loopVars, boundVars >>

Smaller(m, n) == IF m <= n THEN m ELSE n
Larger(m, n)  == IF m <= n THEN n ELSE m

-----------------------------------------------------------------------------
(* Who may have a lease                                                    *)

Reserve == Smaller(ReservedForForeground, HttpCapacity - 1)

Dispatching == passes > 0

Source(t)   == request[t].source
Kind(t)     == request[t].kind
Priority(t) == request[t].priority

(* A waiter whose future was cancelled is dropped by the next pass, and    *)
(* counts for nothing until then.                                          *)
Waiting == {t \in Tasks : pc[t] = "waiting" /\ ~ cancelled[t]}

(* Mistake: read-ahead does not count as background.                       *)
CapacityOkForReadAhead(t) ==
  IF Kind(t) = "browser"
  THEN used["browser"] < BrowserCapacity
  ELSE used["http"] < HttpCapacity - (IF Priority(t) > Background THEN Reserve ELSE 0)

(* Mistake: background work leaves one slot more than the reserve.         *)
CapacityOkWithSpare(t) ==
  IF Kind(t) = "browser"
  THEN used["browser"] < BrowserCapacity
  ELSE used["http"] < HttpCapacity - (IF Priority(t) >= Background THEN Reserve + 1 ELSE 0)

CapacityOk(t) ==
  IF Kind(t) = "browser"
  THEN used["browser"] < BrowserCapacity
  ELSE used["http"] < HttpCapacity - (IF Priority(t) >= Background THEN Reserve ELSE 0)

SourceOk(t)  == inUse[Source(t)] < limit[Source(t)].concurrency
Candidate(t) == SourceOk(t) /\ CapacityOk(t)
Grantable(t) == t \in Waiting /\ Candidate(t) /\ wait[Source(t)] = 0

(* Mistake: fairness between sources comes before priority.                *)
BeforeByService(t, u) ==
  \/ served[Source(t)] < served[Source(u)]
  \/ /\ served[Source(t)] = served[Source(u)]
     /\ \/ Priority(t) < Priority(u)
        \/ Priority(t) = Priority(u) /\ seq[t] < seq[u]

Before(t, u) ==
  \/ Priority(t) < Priority(u)
  \/ /\ Priority(t) = Priority(u)
     /\ \/ served[Source(t)] < served[Source(u)]
        \/ served[Source(t)] = served[Source(u)] /\ seq[t] < seq[u]

(* The earliest time (in a set of one) at which one of the waiters in S,   *)
(* held up by nothing else, may start, or the time an earlier pass found.  *)
Earliest(S) ==
  LET times == {wait[Source(t)] : t \in {u \in S : Candidate(u) /\ wait[Source(u)] > 0}}
               \cup ({timer} \ {None})
  IN  IF times = {} THEN {None} ELSE {m \in times : \A n \in times : m <= n}

-----------------------------------------------------------------------------
Init ==
  /\ pc = [t \in Tasks |-> "idle"]
  /\ request = [t \in Tasks |-> CHOOSE r \in Requests(t) : TRUE]
  /\ seq = [t \in Tasks |-> 0]
  /\ promoted = [t \in Tasks |-> 6]
  /\ cancelled = [t \in Tasks |-> FALSE]
  /\ leases = {} /\ preempted = {}
  /\ used = [k \in Kinds |-> 0]
  /\ inUse = [s \in Sources |-> 0]
  /\ served = [s \in Sources |-> 0]
  /\ wait = [s \in Sources |-> 0]
  /\ limit \in [Sources -> Limits]
  /\ timer = None /\ passes = 0
  /\ nextSeq = 0 /\ calls = 0

-----------------------------------------------------------------------------
(* The dispatch loop                                                       *)

BeginDispatch(n) == passes' = n /\ timer' = None

(* One pass: the first waiter that may start, in the order of Before, is   *)
(* given a lease.                                                          *)
Grant(t) ==
  /\ Dispatching
  /\ Grantable(t)
  /\ \A u \in Waiting \ {t} : Grantable(u) => Before(t, u)
  /\ pc' = [pc EXCEPT ![t] = "granted"]
  /\ leases' = leases \cup {t}
  /\ used' = [used EXCEPT ![Kind(t)] = @ + 1]
  /\ inUse' = [inUse EXCEPT ![Source(t)] = @ + 1]
  /\ served' = [served EXCEPT ![Source(t)] = @ + 1]
  /\ wait' = [wait EXCEPT ![Source(t)] = limit[Source(t)].interval]
  /\ timer' \in Earliest({u \in Waiting : Before(u, t)})
  /\ UNCHANGED << request, seq, promoted, cancelled, preempted, limit, passes, boundVars >>

(* Mistake: only those that could start at once.                           *)
UrgentNow == {t \in Waiting : Kind(t) = "browser" /\ Priority(t) < Background /\ SourceOk(t)
                              /\ wait[Source(t)] = 0}

(* Browser waiters for whom background work is preempted: not those that   *)
(* the concurrency of their own source holds up.                           *)
Urgent == {t \in Waiting : Kind(t) = "browser" /\ Priority(t) < Background /\ SourceOk(t)}

BackgroundBrowser == {t \in leases : Kind(t) = "browser" /\ Priority(t) >= Background}

(* As many background leases, the least urgent first, as there are urgent  *)
(* waiters, not counting those that an earlier dispatch preempted.         *)
Victims(V) ==
  LET cands == BackgroundBrowser \ preempted
  IN  IF Urgent = {} \/ used["browser"] < BrowserCapacity
      THEN V = {}
      ELSE /\ V \subseteq cands
           /\ Cardinality(V) = Smaller(Cardinality(Urgent), Cardinality(cands))
           /\ \A v \in V, c \in cands \ V : Priority(c) <= Priority(v)

EndDispatch ==
  /\ Dispatching
  /\ \A t \in Waiting : ~ Grantable(t)
  /\ passes' = passes - 1
  /\ timer' \in (IF passes = 1 THEN Earliest(Waiting) ELSE {None})
  /\ \E V \in SUBSET leases :
       /\ Victims(V)
       /\ preempted' = preempted \cup V
       /\ cancelled' = [t \in Tasks |-> cancelled[t] \/ t \in V]
  /\ UNCHANGED << pc, request, seq, promoted, leases, used, inUse, served, sourceVars, boundVars >>

-----------------------------------------------------------------------------
(* A task makes a request                                                  *)

Arrive(t) == \E r \in Requests(t) :
  /\ ~ Dispatching /\ pc[t] = "idle" /\ nextSeq < MaxRequests
  /\ pc' = [pc EXCEPT ![t] = "waiting"]
  /\ request' = [request EXCEPT ![t] = [r EXCEPT !.priority = Smaller(@, promoted[t])]]
  /\ seq' = [seq EXCEPT ![t] = nextSeq]
  /\ nextSeq' = nextSeq + 1
  /\ BeginDispatch(1)
  /\ UNCHANGED << promoted, cancelled, leaseVars, sourceVars, calls >>

Resume(t) ==
  /\ ~ Dispatching /\ pc[t] = "granted" /\ ~ cancelled[t]
  /\ pc' = [pc EXCEPT ![t] = "using"]
  /\ UNCHANGED << request, seq, promoted, cancelled, leaseVars, sourceVars, loopVars, boundVars >>

(* Mistake: every lease is given back as an http lease.                    *)
ReleaseHttp(t) ==
  /\ leases' = leases \ {t}
  /\ preempted' = preempted \ {t}
  /\ used' = [used EXCEPT !["http"] = @ - 1]
  /\ inUse' = [inUse EXCEPT ![Source(t)] = @ - 1]
  /\ UNCHANGED served

Release(t) ==
  /\ leases' = leases \ {t}
  /\ preempted' = preempted \ {t}
  /\ used' = [used EXCEPT ![Kind(t)] = @ - 1]
  /\ inUse' = [inUse EXCEPT ![Source(t)] = @ - 1]
  /\ UNCHANGED served

(* Where a task that was cancelled ends, another one takes its name, and   *)
(* has not been promoted.                                                  *)
Ends(t) ==
  /\ pc' = [pc EXCEPT ![t] = "idle"]
  /\ cancelled' = [cancelled EXCEPT ![t] = FALSE]
  /\ promoted' = [promoted EXCEPT ![t] = IF cancelled[t] THEN 6 ELSE @]
  /\ UNCHANGED << request, seq, sourceVars, boundVars >>

(* Mistake: nobody is told of the lease that was released.                 *)
LeaveQuietly(t) ==
  /\ ~ Dispatching /\ pc[t] = "using"
  /\ Ends(t) /\ Release(t) /\ UNCHANGED loopVars

(* The body of the lease ends, by itself, by an error or by a cancellation. *)
Leave(t) ==
  /\ ~ Dispatching /\ pc[t] = "using"
  /\ Ends(t) /\ Release(t) /\ BeginDispatch(1)

(* CancelledError reaches a task that has no lease yet ...                 *)
GiveUp(t) ==
  /\ ~ Dispatching /\ pc[t] = "waiting" /\ cancelled[t]
  /\ Ends(t) /\ UNCHANGED leaseVars /\ BeginDispatch(1)

(* Mistake: the lease of a task that was cancelled meanwhile is forgotten. *)
GiveNothingBack(t) ==
  /\ ~ Dispatching /\ pc[t] = "granted" /\ cancelled[t]
  /\ Ends(t) /\ UNCHANGED leaseVars /\ BeginDispatch(1)

(* ... or one whose lease was granted before it could resume: it gives the *)
(* lease back, which dispatches, and dispatches again.                     *)
GiveBack(t) ==
  /\ ~ Dispatching /\ pc[t] = "granted" /\ cancelled[t]
  /\ Ends(t) /\ Release(t) /\ BeginDispatch(2)

-----------------------------------------------------------------------------
(* Other calls                                                             *)

Call == ~ Dispatching /\ calls < MaxCalls /\ calls' = calls + 1

Cancel(t) ==
  /\ Call /\ pc[t] # "idle" /\ ~ cancelled[t]
  /\ cancelled' = [cancelled EXCEPT ![t] = TRUE]
  /\ UNCHANGED << pc, request, seq, promoted, leaseVars, sourceVars, loopVars, nextSeq >>

Promote(t, p) ==
  /\ Call
  /\ promoted' = [promoted EXCEPT ![t] = Smaller(@, p)]
  /\ request' = IF t \in Waiting
                THEN [request EXCEPT ![t].priority = Smaller(@, p)]
                ELSE request
  /\ BeginDispatch(1)
  /\ UNCHANGED << pc, seq, cancelled, leaseVars, sourceVars, nextSeq >>

Configure(s, l) ==
  /\ Call
  /\ limit' = [limit EXCEPT ![s] = l]
  /\ BeginDispatch(1)
  /\ UNCHANGED << taskVars, leaseVars, wait, nextSeq >>

SetRetryAfter(s, d) ==
  /\ Call
  /\ wait' = [wait EXCEPT ![s] = Larger(@, d)]
  /\ BeginDispatch(1)
  /\ UNCHANGED << taskVars, leaseVars, limit, nextSeq >>

(* The clock, and the timer of _schedule, which may fire late.             *)
Tick ==
  /\ ~ Dispatching
  /\ \E s \in Sources : wait[s] > 0
  /\ wait' = [s \in Sources |-> IF wait[s] > 0 THEN wait[s] - 1 ELSE 0]
  /\ timer' = IF timer \in Nat \ {0} THEN timer - 1 ELSE timer
  /\ UNCHANGED << taskVars, leaseVars, limit, passes, boundVars >>

TimerFires ==
  /\ ~ Dispatching /\ timer = 0
  /\ BeginDispatch(1)
  /\ UNCHANGED << taskVars, leaseVars, sourceVars, boundVars >>

Dispatch == EndDispatch \/ \E t \in Tasks : Grant(t)

TaskStep(t) == Resume(t) \/ Leave(t) \/ GiveUp(t) \/ GiveBack(t)

Next ==
  \/ Dispatch
  \/ \E t \in Tasks : Arrive(t) \/ TaskStep(t) \/ Cancel(t)
  \/ \E t \in Tasks, p \in Promotions : Promote(t, p)
  \/ \E s \in Sources, l \in Limits : Configure(s, l)
  \/ \E s \in Sources, d \in RetryDelays : SetRetryAfter(s, d)
  \/ Tick
  \/ TimerFires

Spec == Init /\ [][Next]_vars

(* The loop dispatches, time passes, timers fire, and requests end: the    *)
(* clients have timeouts.                                                  *)
Fairness ==
  /\ WF_vars(Dispatch) /\ WF_vars(Tick) /\ WF_vars(TimerFires)
  /\ \A t \in Tasks : WF_vars(TaskStep(t))

FairSpec == Spec /\ Fairness

-----------------------------------------------------------------------------
(* Properties                                                              *)

(* Every variable keeps its type; no counter of _grant and _release ever   *)
(* becomes negative.                                                       *)
TypeOK ==
  /\ pc \in [Tasks -> {"idle", "waiting", "granted", "using"}]
  /\ request \in [Tasks -> [source : Sources, priority : Priorities, kind : Kinds]]
  /\ seq \in [Tasks -> Nat]
  /\ promoted \in [Tasks -> Priorities]
  /\ cancelled \in [Tasks -> BOOLEAN]
  /\ leases \subseteq Tasks /\ preempted \subseteq leases
  /\ used \in [Kinds -> Nat]
  /\ inUse \in [Sources -> Nat]
  /\ served \in [Sources -> Nat]
  /\ wait \in [Sources -> Nat]
  /\ limit \in [Sources -> Limits]
  /\ timer \in Nat \cup {None}
  /\ passes \in 0..2
  /\ nextSeq \in Nat /\ calls \in Nat

LeasesOf(k)    == {t \in leases : Kind(t) = k}
BackgroundHttp == {t \in LeasesOf("http") : Priority(t) >= Background}

(* Whatever the order of grants, releases, preemptions and cancellations,  *)
(* no more leases are out than the capacities allow, and background work   *)
(* never holds the slots reserved for the foreground.                      *)
LimitsKept ==
  /\ Cardinality(LeasesOf("browser")) <= BrowserCapacity
  /\ Cardinality(LeasesOf("http")) <= HttpCapacity
  /\ Cardinality(BackgroundHttp) <= HttpCapacity - Reserve

(* A lease is held by the task it was granted to and by no other, and the  *)
(* counters of _grant and _release agree with the leases that are out: a   *)
(* task cancelled between the grant and its resumption leaks nothing.      *)
CountersExact ==
  /\ leases = {t \in Tasks : pc[t] \in {"granted", "using"}}
  /\ \A k \in Kinds : used[k] = Cardinality(LeasesOf(k))
  /\ \A s \in Sources : inUse[s] = Cardinality({t \in leases : Source(t) = s})

(* Between two calls nobody waits for a lease that is free: whoever only   *)
(* waits for the spacing or the Retry-After of its source has a timer that *)
(* fires in time.                                                          *)
NoLostWakeup ==
  ~ Dispatching =>
    \A t \in Waiting : Candidate(t) => timer # None /\ timer <= wait[Source(t)]

(* While urgent browser work waits for a full browser, as many background  *)
(* leases as it needs, if there are that many, have been told to stop.     *)
UrgentPreempts ==
  ~ Dispatching /\ used["browser"] >= BrowserCapacity =>
    LET waiting == {t \in Waiting : Kind(t) = "browser" /\ Priority(t) < Background /\ SourceOk(t)}
    IN  Cardinality(preempted)
          >= Smaller(Cardinality(waiting), Cardinality(BackgroundBrowser))

(* A grant overtakes a more urgent request for the same kind of lease only *)
(* if that request's own source holds it up, and never a request to the    *)
(* same source that is as urgent and came earlier.                         *)
NoOvertaking ==
  [][\A t \in Tasks : pc[t] = "waiting" /\ pc'[t] = "granted" =>
       \A u \in Waiting \ {t} : Kind(u) = Kind(t) =>
         /\ Priority(u) < Priority(t) => ~ SourceOk(u) \/ wait[Source(u)] > 0
         /\ Source(u) = Source(t) /\ Priority(u) <= Priority(t) => seq[t] < seq[u]]_vars

(* Every request is granted or given up in the end, background work on a   *)
(* source with a Retry-After included.                                     *)
GetsItsTurn == \A t \in Tasks : pc[t] = "waiting" ~> pc[t] # "waiting"

(* What a lease is taken out of is accounted for: every variable has its   *)
(* type, the counters are exact and the limits are kept.                   *)
LeasesAccounted == TypeOK /\ CountersExact /\ LimitsKept
=============================================================================
