------------------------------- MODULE EventBus -------------------------------
(* The in-process event bus and the stream it feeds (events/bus.py).  Publishing *)
(* never blocks: on the event loop an event is put into the queues at once, from *)
(* another thread it is scheduled on the loop for the subscribers that were      *)
(* there when it was numbered.  A subscriber that falls behind gets a last event *)
(* "resync" and is dropped.                                                      *)
EXTENDS Naturals, Sequences, FiniteSets, SequencesExt

CONSTANTS
  Subs,            \* subscription objects (a finished one stands for a new one)
  Threads,         \* worker threads that publish
  QueueSize,       \* events a queue holds, the last place kept for the resync
  MaxSubscribers,  \* MAX_SUBSCRIBERS
  WireSize         \* events written to a connection and not yet received

ASSUME BusAssumption ==
  QueueSize \in Nat /\ QueueSize >= 2 /\ MaxSubscribers \in Nat /\ WireSize \in Nat \ {0}

VARIABLES
  subscribers,  \* the subscriptions the bus delivers to
  queue,        \* their queues
  closed,       \* the flag that makes a late delivery a no-op
  ready,        \* deliveries scheduled on the loop by threads, in order
  targets,      \* subscribers a publishing thread has taken, before it schedules
  stream,       \* "free", "open" or "ended": the generator of a subscription
  wire          \* what the generator has written and the client not received
busVars == <<subscribers, queue, closed, ready, targets, stream, wire>>

EventTypes == {"hello", "change", "resync"}

BusInit ==
  /\ subscribers = {}
  /\ queue = [s \in Subs |-> << >>] /\ closed = [s \in Subs |-> FALSE]
  /\ ready = << >> /\ targets = [w \in Threads |-> {}]
  /\ stream = [s \in Subs |-> "free"] /\ wire = [s \in Subs |-> << >>]

BusTypeOK ==
  /\ subscribers \subseteq Subs /\ Cardinality(subscribers) <= MaxSubscribers
  /\ queue \in [Subs -> Seq({"change", "resync"})]
  /\ \A s \in Subs : Len(queue[s]) <= QueueSize /\ Len(wire[s]) <= WireSize
  /\ closed \in [Subs -> BOOLEAN]
  /\ ready \in Seq(Subs) /\ targets \in [Threads -> SUBSET Subs]
  /\ stream \in [Subs -> {"free", "open", "ended"}]
  /\ wire \in [Subs -> Seq(EventTypes)]

-----------------------------------------------------------------------------
(* Delivery, on the loop.                                                        *)

Slow(s) == Len(queue[s]) >= QueueSize - 1

Enqueued(s) == Append(queue[s], IF Slow(s) THEN "resync" ELSE "change")

(* Mutants of Deliver: a slow one is dropped in silence; the flag is not read.   *)
DeliverWithoutResync(S) ==
  LET open == {s \in S : ~closed[s]}
      slow == {s \in open : Slow(s)}
  IN /\ queue' = [s \in Subs |-> IF s \in open \ slow THEN Enqueued(s) ELSE queue[s]]
     /\ closed' = [s \in Subs |-> closed[s] \/ s \in slow]
     /\ subscribers' = subscribers \ slow

DeliverToClosed(S) ==
  LET slow == {s \in S : Slow(s)}
  IN /\ queue' = [s \in Subs |-> IF s \in S /\ Len(queue[s]) < QueueSize THEN Enqueued(s) ELSE queue[s]]
     /\ closed' = [s \in Subs |-> closed[s] \/ s \in slow]
     /\ subscribers' = subscribers \ slow

(* The open ones of the subscriptions S get the event; the slow ones get the     *)
(* resync in the place kept for it and are dropped.                              *)
Deliver(S) ==
  LET open == {s \in S : ~closed[s]}
      slow == {s \in open : Slow(s)}
  IN /\ queue' = [s \in Subs |-> IF s \in open THEN Enqueued(s) ELSE queue[s]]
     /\ closed' = [s \in Subs |-> closed[s] \/ s \in slow]
     /\ subscribers' = subscribers \ slow

PublishOnLoop == Deliver(subscribers) /\ UNCHANGED <<ready, targets, stream, wire>>

(* A thread takes the subscribers under the lock, and schedules the deliveries   *)
(* after it has released it.                                                     *)
TakeSubscribers(w) ==
  /\ targets' = [targets EXCEPT ![w] = subscribers]
  /\ UNCHANGED <<subscribers, queue, closed, ready, stream, wire>>

Schedule(w) ==
  /\ ready' = ready \o SetToSeq(targets[w])
  /\ targets' = [targets EXCEPT ![w] = {}]
  /\ UNCHANGED <<subscribers, queue, closed, stream, wire>>

RunReady ==
  /\ ready # << >>
  /\ ready' = Tail(ready)
  /\ Deliver({Head(ready)})
  /\ UNCHANGED <<targets, stream, wire>>

-----------------------------------------------------------------------------
(* The stream of a subscription.                                                 *)

Fresh(s) == stream[s] = "free" /\ s \notin Range(ready) /\ \A w \in Threads : s \notin targets[w]

RoomForOneMore == Cardinality(subscribers) <= MaxSubscribers   \* mutant: an off-by-one

HasRoom == Cardinality(subscribers) < MaxSubscribers

Subscribe(s) ==
  /\ Fresh(s) /\ HasRoom
  /\ subscribers' = subscribers \cup {s}
  /\ queue' = [queue EXCEPT ![s] = << >>] /\ closed' = [closed EXCEPT ![s] = FALSE]
  /\ stream' = [stream EXCEPT ![s] = "open"] /\ wire' = [wire EXCEPT ![s] = <<"hello">>]
  /\ UNCHANGED <<ready, targets>>

Unsubscribe(s) ==
  /\ closed' = [closed EXCEPT ![s] = TRUE]
  /\ subscribers' = subscribers \ {s}

StreamWaitsForTwo(s) ==                                        \* mutant: an off-by-one
  /\ stream[s] = "open" /\ Len(queue[s]) > 1 /\ Len(wire[s]) < WireSize
  /\ wire' = [wire EXCEPT ![s] = Append(@, Head(queue[s]))]
  /\ queue' = [queue EXCEPT ![s] = Tail(@)]
  /\ UNCHANGED <<closed, subscribers, stream, ready, targets>>

(* The generator writes the next event, when the connection takes it; after a    *)
(* resync it ends, and its finally clause unsubscribes.                          *)
StreamNext(s) ==
  /\ stream[s] = "open" /\ queue[s] # << >> /\ Len(wire[s]) < WireSize
  /\ wire' = [wire EXCEPT ![s] = Append(@, Head(queue[s]))]
  /\ queue' = [queue EXCEPT ![s] = Tail(@)]
  /\ IF Head(queue[s]) = "resync"
     THEN Unsubscribe(s) /\ stream' = [stream EXCEPT ![s] = "ended"]
     ELSE UNCHANGED <<closed, subscribers, stream>>
  /\ UNCHANGED <<ready, targets>>

GoneButSubscribed(s) ==                                        \* mutant: no finally clause
  /\ stream[s] # "free"
  /\ closed' = [closed EXCEPT ![s] = TRUE]
  /\ stream' = [stream EXCEPT ![s] = "free"]
  /\ queue' = [queue EXCEPT ![s] = << >>] /\ wire' = [wire EXCEPT ![s] = << >>]
  /\ UNCHANGED <<subscribers, ready, targets>>

(* The client of the stream is gone: the server finds out at the next heartbeat  *)
(* or write, and the generator unsubscribes.                                     *)
StreamGone(s) ==
  /\ stream[s] # "free"
  /\ Unsubscribe(s)
  /\ stream' = [stream EXCEPT ![s] = "free"]
  /\ queue' = [queue EXCEPT ![s] = << >>] /\ wire' = [wire EXCEPT ![s] = << >>]
  /\ UNCHANGED <<ready, targets>>

-----------------------------------------------------------------------------
(* A resync is the last event of its subscription, which gets nothing after it:  *)
(* it stands at the end of the queue of a closed subscription (bus.py:78-95).    *)
ResyncIsLast ==
  \A s \in Subs :
    /\ \A i \in 1..Len(queue[s]) : queue[s][i] = "resync" => i = Len(queue[s]) /\ closed[s]
    /\ \A i \in 1..Len(wire[s]) : wire[s][i] = "resync" => i = Len(wire[s]) /\ queue[s] = << >>
=============================================================================
