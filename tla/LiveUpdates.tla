----------------------------- MODULE LiveUpdates ------------------------------
(* The live channel end to end: services commit a change and publish it          *)
(* (notifications/service.py, downloads/engine.py, ...), the bus carries it, and *)
(* the client (frontend/src/app/live.tsx) re-reads.  "version" counts the        *)
(* committed changes that are published; what a client reads is a version.       *)
EXTENDS EventBus

CONSTANTS
  Clients,     \* tabs
  NoStream,
  MaxChanges,  \* bound: changes
  MaxDrops,    \* bound: connections that break
  MaxReads     \* bound: requests of a client that the server has not served

ASSUME LiveAssumption ==
  NoStream \notin Subs /\ MaxChanges \in Nat /\ MaxDrops \in Nat /\ MaxReads \in Nat

VARIABLES
  version,   \* changes committed
  thread,    \* "idle", "committed" or "taken": a thread's change and its publication
  conn,      \* the subscription a client's EventSource is connected to
  connected, \* the client has seen the hello of its stream
  asked,     \* requests under way to the server
  view,      \* the version on the screen
  known,     \* history: the version of the last read or subscription, if that is newer
  drops

clientVars == <<conn, connected, asked, view, known, drops>>
liveVars == <<busVars, version, thread, clientVars>>

LiveInit ==
  /\ BusInit
  /\ version = 0 /\ thread = [w \in Threads |-> "idle"]
  /\ conn = [c \in Clients |-> NoStream] /\ connected = [c \in Clients |-> FALSE]
  /\ asked = [c \in Clients |-> 0]
  /\ view = [c \in Clients |-> 0] /\ known = [c \in Clients |-> 0]
  /\ drops = 0

LiveTypeOK ==
  /\ BusTypeOK
  /\ version \in 0..MaxChanges /\ thread \in [Threads -> {"idle", "committed", "taken"}]
  /\ conn \in [Clients -> Subs \cup {NoStream}] /\ connected \in [Clients -> BOOLEAN]
  /\ asked \in [Clients -> 0..MaxReads]
  /\ view \in [Clients -> 0..MaxChanges] /\ known \in [Clients -> 0..MaxChanges]
  /\ drops \in 0..MaxDrops

-----------------------------------------------------------------------------
(* The services: the transaction first, the event after it.                      *)

ChangeOnLoop ==
  /\ version < MaxChanges
  /\ version' = version + 1
  /\ PublishOnLoop
  /\ UNCHANGED <<thread, clientVars>>

CommitInThread(w) ==
  /\ thread[w] = "idle" /\ version < MaxChanges
  /\ version' = version + 1
  /\ thread' = [thread EXCEPT ![w] = "committed"]
  /\ UNCHANGED <<busVars, clientVars>>

PublishInThread(w) ==
  /\ thread[w] = "committed"
  /\ TakeSubscribers(w)
  /\ thread' = [thread EXCEPT ![w] = "taken"]
  /\ UNCHANGED <<version, clientVars>>

ScheduleInThread(w) ==
  /\ thread[w] = "taken"
  /\ Schedule(w)
  /\ thread' = [thread EXCEPT ![w] = "idle"]
  /\ UNCHANGED <<version, clientVars>>

-----------------------------------------------------------------------------
(* The client.                                                                   *)

(* open(): the EventSource of a client; the server answers 503 when the bus has  *)
(* no room, and the client tries again after two seconds.                        *)
Open(c, s) ==
  /\ conn[c] = NoStream
  /\ Subscribe(s)
  /\ conn' = [conn EXCEPT ![c] = s]
  /\ known' = [known EXCEPT ![c] = version]
  /\ UNCHANGED <<version, thread, connected, asked, view, drops>>

Pop(s) == wire' = [wire EXCEPT ![s] = Tail(@)]
ReRead(c) == asked[c] < MaxReads /\ asked' = [asked EXCEPT ![c] = @ + 1]

ReceiveHello(c) ==
  /\ conn[c] # NoStream /\ wire[conn[c]] # << >> /\ Head(wire[conn[c]]) = "hello"
  /\ Pop(conn[c])
  /\ connected' = [connected EXCEPT ![c] = TRUE]
  /\ UNCHANGED <<subscribers, queue, closed, ready, targets, stream, version, thread, conn, asked,
                 view, known, drops>>

ReceiveChange(c) ==
  /\ conn[c] # NoStream /\ wire[conn[c]] # << >> /\ Head(wire[conn[c]]) = "change"
  /\ Pop(conn[c]) /\ ReRead(c)
  /\ UNCHANGED <<subscribers, queue, closed, ready, targets, stream, version, thread, conn, connected,
                 view, known, drops>>

(* The answer to a resync is to re-read, to close, and to open again later.      *)
ReceiveResync(c) ==
  /\ conn[c] # NoStream /\ wire[conn[c]] # << >> /\ Head(wire[conn[c]]) = "resync"
  /\ StreamGone(conn[c]) /\ ReRead(c)
  /\ conn' = [conn EXCEPT ![c] = NoStream] /\ connected' = [connected EXCEPT ![c] = FALSE]
  /\ UNCHANGED <<version, thread, view, known, drops>>

(* A connection breaks: the client knows (onerror), the server not yet.          *)
Break(c) ==
  /\ conn[c] # NoStream /\ drops < MaxDrops
  /\ drops' = drops + 1
  /\ conn' = [conn EXCEPT ![c] = NoStream] /\ connected' = [connected EXCEPT ![c] = FALSE]
  /\ UNCHANGED <<busVars, version, thread, asked, view, known>>

ServerNotices(s) ==
  /\ \A c \in Clients : conn[c] # s
  /\ StreamGone(s)
  /\ UNCHANGED <<version, thread, clientVars>>

(* While it is not connected, a client re-reads on a timer.                      *)
Poll(c) ==
  /\ ~connected[c] /\ view[c] # version /\ ReRead(c)
  /\ UNCHANGED <<busVars, version, thread, conn, connected, view, known, drops>>

(* The answer is the state at the time it was served; answers come in the order  *)
(* of the requests.                                                              *)
Serve(c) ==
  /\ asked[c] > 0
  /\ asked' = [asked EXCEPT ![c] = @ - 1]
  /\ view' = [view EXCEPT ![c] = version] /\ known' = [known EXCEPT ![c] = version]
  /\ UNCHANGED <<busVars, version, thread, conn, connected, drops>>

Service == ChangeOnLoop \/ \E w \in Threads : CommitInThread(w) \/ PublishInThread(w) \/ ScheduleInThread(w)

Loop == /\ \/ RunReady
           \/ \E s \in Subs : StreamNext(s)
        /\ UNCHANGED <<version, thread, clientVars>>

Receive(c) == ReceiveHello(c) \/ ReceiveChange(c) \/ ReceiveResync(c)

Client(c) ==
  \/ \E s \in Subs : Open(c, s)
  \/ Receive(c) \/ Break(c) \/ Poll(c) \/ Serve(c)

LiveNext ==
  \/ Service \/ Loop
  \/ \E c \in Clients : Client(c)
  \/ \E s \in Subs : ServerNotices(s)

LiveSpec == LiveInit /\ [][LiveNext]_liveVars

(* A thread finishes what it started, the loop runs what is ready and writes     *)
(* what is queued (one at a time, each queue in its turn), the server answers    *)
(* requests and notices a connection that is gone at its next heartbeat, and the *)
(* client's handlers and timers run.  Nothing makes a change happen or keeps a   *)
(* connection alive.                                                             *)
LiveFairness ==
  /\ \A w \in Threads : WF_liveVars(PublishInThread(w) \/ ScheduleInThread(w))
  /\ WF_liveVars(RunReady /\ UNCHANGED <<version, thread, clientVars>>)
  /\ \A s \in Subs : /\ WF_liveVars(StreamNext(s) /\ UNCHANGED <<version, thread, clientVars>>)
                     /\ WF_liveVars(ServerNotices(s))
  /\ \A c \in Clients : /\ WF_liveVars(\E s \in Subs : Open(c, s))
                        /\ WF_liveVars(Receive(c)) /\ WF_liveVars(Poll(c)) /\ WF_liveVars(Serve(c))
FairLiveSpec == LiveSpec /\ LiveFairness

-----------------------------------------------------------------------------
(* Properties.                                                                   *)

(* A read of the newest version is under way, or something that will cause one:  *)
(* a thread that has not scheduled its event for this subscription yet, a        *)
(* delivery on the loop, an event or a resync in the queue or on the connection. *)
NewsUnderWay(c) ==
  \/ asked[c] > 0
  \/ \E w \in Threads : thread[w] = "committed" \/ conn[c] \in targets[w]
  \/ conn[c] \in Range(ready) /\ ~closed[conn[c]]
  \/ queue[conn[c]] # << >>
  \/ \E i \in 1..Len(wire[conn[c]]) : wire[conn[c]][i] # "hello"

(* Between its hello and the end of its stream a client is never silently        *)
(* behind: whatever was committed since it subscribed was read, or the news of   *)
(* it is under way, a slow reader's as a resync (bus.py:1-5).                    *)
NothingLost == \A c \in Clients : conn[c] # NoStream /\ known[c] < version => NewsUnderWay(c)

(* A client that is behind what it subscribed at reads the newest version, or    *)
(* loses its stream, and then it polls (live.tsx:26-31).                         *)
CatchesUp ==
  \A c \in Clients : (conn[c] # NoStream /\ known[c] < version) ~> (known[c] = version \/ conn[c] = NoStream)

(* A client without a stream gets one again, once the server has noticed the     *)
(* streams nobody reads: they do not use up MAX_SUBSCRIBERS for good.            *)
Reconnects == \A c \in Clients : ~connected[c] ~> connected[c]

(* live.tsx:29: "so the app is never wrong, only less immediate".                *)
NeverWrongForGood == \A c \in Clients : (view[c] # version) ~> (view[c] = version)

=============================================================================
