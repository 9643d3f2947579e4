---------------------------- MODULE Requests_proofs ----------------------------
(* That whoever waits for an answer gets a true one, for every number of         *)
(* readers, links, subscriptions, clients, tracks, units, feeds and bounds       *)
(* (MCRequests): of each component an inductive invariant, why it holds at the   *)
(* start and why each of its steps keeps it.                                     *)
EXTENDS MCRequests, FiniteSetTheorems, SequenceTheorems, TLAPS

-----------------------------------------------------------------------------
(* READERS. A link is fetched by one task at a time (OneFetchPerLink): because   *)
(* a task found by its link is one of that link (JoinsOwnLink), who waits, waits *)
(* for a task that can serve it (WaitsForOne), and who asks for a new link holds *)
(* the gate (AskerHoldsGate).                                                    *)

RequestStates == {"idle", "list", "asking", "wait", "done", "error", "gone"}
FetchStates == {"unused", "start", "fetch", "renew", "asking", "refetch"} \cup Ended

RequestRecords == [pc : RequestStates, fetch : 0..MaxFetches]
FetchRecords == [pc : FetchStates, link : 0..MaxLinks, seen : Nat, now : 0..MaxLinks,
                 urgent : BOOLEAN, timer : BOOLEAN, cleared : BOOLEAN]
ListRecords == [id : Nat, link : 0..MaxLinks, fresh : BOOLEAN]

PagesShape ==
  /\ link \in Links /\ held \in ListRecords /\ held.link <= link /\ (held.id # 0 => held.link # 0)
  /\ gate \in {NoOne} \cup Requests \cup Fetches
  /\ requests \in [Requests -> RequestRecords]
  /\ fetches \in [Fetches -> FetchRecords]
  /\ flying \in [Links -> 0..MaxFetches]

(* A task that is found by its link is that of the link, and can be joined.      *)
JoinsOwnLink ==
  /\ \A f \in Fetches : fetches[f].pc # "unused" => fetches[f].link \in Links
  /\ \A u \in Links : flying[u] # 0 =>
       /\ fetches[flying[u]].link = u
       /\ fetches[flying[u]].pc \notin {"unused", "canceled"}
       /\ ~fetches[flying[u]].cleared
  /\ \A f \in Fetches : fetches[f].cleared => fetches[f].pc \in Ended

CanServe(r, f) == f \in Fetches /\ fetches[f].pc \notin {"unused", "canceled"} /\ (r \in Readers => fetches[f].urgent)
WaitsForOne == \A r \in Requests : requests[r].pc = "wait" => CanServe(r, requests[r].fetch)

AskerHoldsGate ==
  /\ \A r \in Requests : requests[r].pc = "asking" => gate = r
  /\ \A f \in Fetches : fetches[f].pc = "asking" => gate = f /\ held.id = fetches[f].seen

PagesInv == PagesShape /\ JoinsOwnLink /\ OneFetchPerLink /\ WaitsForOne /\ AskerHoldsGate

(* What the invariant says of the properties.                                 *)
LEMMA PagesInvImplies ==
  PagesInv => PagesTypeOK /\ NobodyWaitsOnCanceled /\ OneFetchPerLink /\ ReaderIsPromoted /\ RenewedOnce
PROOF
<1> SUFFICES ASSUME PagesInv
             PROVE  PagesTypeOK /\ NobodyWaitsOnCanceled /\ OneFetchPerLink /\ ReaderIsPromoted /\ RenewedOnce
    OBVIOUS
<1> USE PagesAssumption DEF PagesInv
<1>1. PagesTypeOK
      BY DEF PagesShape, JoinsOwnLink, PagesTypeOK, ListRecords
<1>2. NobodyWaitsOnCanceled
      BY DEF WaitsForOne, CanServe, NobodyWaitsOnCanceled, Waiting
<1>3. ReaderIsPromoted
      BY DEF WaitsForOne, CanServe, ReaderIsPromoted, Requests
<1>4. RenewedOnce
      BY DEF AskerHoldsGate, RenewedOnce
<1> QED BY <1>1, <1>2, <1>3, <1>4

(* Nobody asks and nothing is fetched at the start.                           *)
LEMMA PagesStart == PagesInit => PagesInv
PROOF
<1> SUFFICES ASSUME PagesInit PROVE PagesInv OBVIOUS
<1> USE PagesAssumption DEF PagesInit
<1>1. PagesShape
  <2>1. Unused \in FetchRecords
        BY DEF Unused, FetchRecords, FetchStates
  <2>2. held \in ListRecords
        BY DEF ListRecords
  <2>3. requests \in [Requests -> RequestRecords]
        BY DEF RequestRecords, RequestStates
  <2> QED BY <2>1, <2>2, <2>3 DEF PagesShape, Links
<1>2. JoinsOwnLink
      BY DEF JoinsOwnLink, Unused
<1>3. OneFetchPerLink
      BY DEF OneFetchPerLink, Live, Unused
<1>4. WaitsForOne
      BY DEF WaitsForOne
<1>5. AskerHoldsGate
      BY DEF AskerHoldsGate, Unused
<1> QED BY <1>1, <1>2, <1>3, <1>4, <1>5 DEF PagesInv

(* A step of a task that is under way: the task keeps what is its own.           *)
LEMMA TaskMoves ==
  ASSUME PagesInv, NEW f \in Fetches, fetches[f].pc # "unused",
         NEW n \in FetchRecords, fetches' = [fetches EXCEPT ![f] = n], UNCHANGED flying,
         n.link = fetches[f].link, n.seen = fetches[f].seen, fetches[f].urgent => n.urgent,
         n.cleared = fetches[f].cleared, n.pc \notin {"unused", "canceled"},
         n.pc \in Ended \/ ~fetches[f].cleared,
         n.pc \notin Ended => Live(f)
  PROVE  /\ fetches' \in [Fetches -> FetchRecords] /\ JoinsOwnLink' /\ OneFetchPerLink'
         /\ \A r \in Requests, g \in Fetches : CanServe(r, g) => CanServe(r, g)'
PROOF
<1> USE PagesAssumption
<1>1. fetches' \in [Fetches -> FetchRecords] /\ fetches'[f] = n /\ \A g \in Fetches \ {f} : fetches'[g] = fetches[g]
      BY DEF PagesInv, PagesShape
<1>2. JoinsOwnLink'
  <2>1. \A g \in Fetches : fetches'[g].pc # "unused" => fetches'[g].link \in Links
        BY <1>1 DEF PagesInv, JoinsOwnLink
  <2>2. \A g \in Fetches : fetches'[g].cleared => fetches'[g].pc \in Ended
        BY <1>1 DEF PagesInv, JoinsOwnLink
  <2>3. \A u \in Links : flying'[u] # 0 => /\ fetches'[flying'[u]].link = u
                                           /\ fetches'[flying'[u]].pc \notin {"unused", "canceled"}
                                           /\ ~fetches'[flying'[u]].cleared
    <3> SUFFICES ASSUME NEW u \in Links, flying[u] # 0
                 PROVE  /\ fetches'[flying[u]].link = u
                        /\ fetches'[flying[u]].pc \notin {"unused", "canceled"}
                        /\ ~fetches'[flying[u]].cleared
        OBVIOUS
    <3>1. flying[u] \in Fetches
          BY DEF PagesInv, PagesShape, Fetches
    <3> QED BY <1>1, <3>1 DEF PagesInv, JoinsOwnLink
  <2> QED BY <2>1, <2>2, <2>3 DEF JoinsOwnLink
<1>3. OneFetchPerLink'
      BY <1>1 DEF PagesInv, OneFetchPerLink, Live
<1>4. \A r \in Requests, g \in Fetches : CanServe(r, g) => CanServe(r, g)'
      BY <1>1 DEF CanServe
<1> QED BY <1>1, <1>2, <1>3, <1>4

AsOne(r) ==
  /\ requests' \in [Requests -> RequestRecords] /\ fetches' \in [Fetches -> FetchRecords]
  /\ flying' \in [Links -> 0..MaxFetches]
  /\ JoinsOwnLink' /\ OneFetchPerLink' /\ WaitsForOne'
  /\ \A q \in Requests : requests'[q].pc = "asking" => q # r /\ requests[q].pc = "asking"
  /\ \A f \in Fetches : fetches'[f].pc = "asking" => fetches[f].pc = "asking" /\ fetches'[f].seen = fetches[f].seen

(* The request goes on from a list l that is held.                               *)
LEMMA ContinueKeeps ==
  ASSUME PagesInv, NEW r \in Requests, NEW l \in ListRecords, l.link # 0, requests[r].pc # "wait", Continue(r, l)
  PROVE  AsOne(r)
PROOF
<1> USE PagesAssumption
<1>0. /\ l.link \in Links /\ l.id \in Nat
      /\ requests \in [Requests -> RequestRecords] /\ fetches \in [Fetches -> FetchRecords]
      /\ flying \in [Links -> 0..MaxFetches]
      BY DEF ListRecords, Links, PagesInv, PagesShape
<1>1. CASE UNCHANGED <<fetches, flying>> /\ \E pc \in {"done", "error"} : requests' = At(r, pc)
  <2> PICK pc \in {"done", "error"} : requests' = At(r, pc)
      BY <1>1
  <2>1. /\ requests' \in [Requests -> RequestRecords] /\ requests'[r].pc = pc
        /\ \A q \in Requests \ {r} : requests'[q] = requests[q]
        BY <1>0 DEF At, RequestRecords, RequestStates
  <2> QED BY <1>0, <1>1, <2>1 DEF AsOne, PagesInv, JoinsOwnLink, OneFetchPerLink, WaitsForOne, CanServe, Live
<1>2. ASSUME NEW f \in Fetches, f = flying[l.link],
             requests' = [requests EXCEPT ![r] = [pc |-> "wait", fetch |-> f]],
             fetches' = [fetches EXCEPT ![f] = Joined(r, f)],
             UNCHANGED flying
      PROVE  AsOne(r)
  <2> DEFINE n == Joined(r, f)
  <2>2. fetches[f] \in FetchRecords
        BY <1>0
  <2>3. fetches' = [fetches EXCEPT ![f] = n]
        BY <1>2
  <2>4. (fetches[f].urgent \/ Promotes(r, f)) \in BOOLEAN
        BY <2>2 DEF FetchRecords
  <2>5. n \in FetchRecords
        BY <2>2, <2>4 DEF FetchRecords, Joined
  <2>6. /\ n.pc = fetches[f].pc /\ n.link = fetches[f].link /\ n.seen = fetches[f].seen
        /\ n.cleared = fetches[f].cleared
        BY <2>2 DEF FetchRecords, Joined
  <2>7. n.urgent = (fetches[f].urgent \/ Promotes(r, f))
        BY <2>2 DEF FetchRecords, Joined
  <2>8. fetches[f].pc \notin {"unused", "canceled"} /\ ~fetches[f].cleared
        BY <1>0, <1>2, PagesAssumption DEF PagesInv, JoinsOwnLink, Fetches
  <2>9. /\ requests' \in [Requests -> RequestRecords] /\ requests'[r] = [pc |-> "wait", fetch |-> f]
        /\ \A q \in Requests \ {r} : requests'[q] = requests[q]
        BY <1>0, <1>2 DEF RequestRecords, RequestStates, Fetches
  <2> HIDE DEF n
  <2>10. /\ fetches' \in [Fetches -> FetchRecords] /\ JoinsOwnLink' /\ OneFetchPerLink'
         /\ \A q \in Requests, g \in Fetches : CanServe(q, g) => CanServe(q, g)'
    <3>1. (n.pc \in Ended \/ ~fetches[f].cleared) /\ (n.pc \notin Ended => Live(f))
          BY <2>6, <2>8 DEF Live
    <3> QED BY <1>2, <2>3, <2>5, <2>6, <2>7, <2>8, <3>1, TaskMoves
  <2>11. fetches'[f] = n /\ \A g \in Fetches \ {f} : fetches'[g] = fetches[g]
         BY <1>0, <2>3
  <2>12. CanServe(r, f)'
         BY <2>6, <2>7, <2>8, <2>11 DEF CanServe, Promotes
  <2>13. WaitsForOne'
         BY <2>9, <2>10, <2>12 DEF PagesInv, WaitsForOne, CanServe
  <2>14. \A g \in Fetches : fetches'[g].pc = fetches[g].pc /\ fetches'[g].seen = fetches[g].seen
         BY <2>6, <2>11
  <2> QED BY <1>0, <1>2, <2>9, <2>10, <2>13, <2>14 DEF AsOne
<1>3. CASE /\ flying[l.link] = 0
           /\ \E f \in Fetches :
                /\ fetches[f].pc = "unused"
                /\ requests' = [requests EXCEPT ![r] = [pc |-> "wait", fetch |-> f]]
                /\ fetches' = [fetches EXCEPT ![f] = [pc |-> "start", link |-> l.link, seen |-> l.id, now |-> l.link,
                                                      urgent |-> r \in Readers, timer |-> FALSE, cleared |-> FALSE]]
                /\ flying' = [flying EXCEPT ![l.link] = f]
  <2> PICK f \in Fetches :
                /\ fetches[f].pc = "unused"
                /\ requests' = [requests EXCEPT ![r] = [pc |-> "wait", fetch |-> f]]
                /\ fetches' = [fetches EXCEPT ![f] = [pc |-> "start", link |-> l.link, seen |-> l.id, now |-> l.link,
                                                      urgent |-> r \in Readers, timer |-> FALSE, cleared |-> FALSE]]
                /\ flying' = [flying EXCEPT ![l.link] = f]
      BY <1>3
  <2> DEFINE n == [pc |-> "start", link |-> l.link, seen |-> l.id, now |-> l.link,
                   urgent |-> r \in Readers, timer |-> FALSE, cleared |-> FALSE]
  <2>1. n \in FetchRecords
    <3>1. (r \in Readers) \in BOOLEAN
          OBVIOUS
    <3> QED BY <1>0, <3>1 DEF FetchRecords, FetchStates, Links
  <2>2. /\ n.pc = "start" /\ n.link = l.link /\ n.seen = l.id /\ ~n.cleared /\ (r \in Readers => n.urgent)
        OBVIOUS
  <2>3. /\ requests' \in [Requests -> RequestRecords] /\ requests'[r] = [pc |-> "wait", fetch |-> f]
        /\ \A q \in Requests \ {r} : requests'[q] = requests[q]
        BY <1>0 DEF RequestRecords, RequestStates, Fetches
  <2>4. fetches' = [fetches EXCEPT ![f] = n]
        OBVIOUS
  <2> HIDE DEF n
  <2>5. fetches' \in [Fetches -> FetchRecords] /\ fetches'[f] = n /\ \A g \in Fetches \ {f} : fetches'[g] = fetches[g]
        BY <1>0, <2>1, <2>4
  <2>6. flying' \in [Links -> 0..MaxFetches] /\ flying'[l.link] = f /\ \A u \in Links \ {l.link} : flying'[u] = flying[u]
        BY <1>0 DEF Fetches
  <2>7. JoinsOwnLink'
        BY <1>0, <1>3, <2>2, <2>5, <2>6 DEF PagesInv, JoinsOwnLink, Fetches
  <2>8. OneFetchPerLink'
    <3> SUFFICES ASSUME NEW g \in Fetches, Live(g)' PROVE flying'[fetches'[g].link] = g
        BY DEF OneFetchPerLink
    <3>1. CASE g = f
          BY <3>1, <1>0, <2>2, <2>5, <2>6
    <3>2. CASE g # f
      <4>1. fetches'[g] = fetches[g] /\ Live(g) /\ flying[fetches[g].link] = g /\ g # 0
            BY <2>5, <3>2 DEF PagesInv, OneFetchPerLink, Live, Fetches
      <4>2. fetches[g].link \in Links
            BY <4>1 DEF PagesInv, JoinsOwnLink, Live
      <4> QED BY <1>3, <2>6, <4>1, <4>2
    <3> QED BY <3>1, <3>2
  <2>9. WaitsForOne'
        BY <1>0, <2>2, <2>3, <2>5 DEF PagesInv, WaitsForOne, CanServe
  <2> QED BY <1>0, <2>2, <2>3, <2>5, <2>6, <2>7, <2>8, <2>9 DEF AsOne
<1>4. flying[l.link] # 0 => flying[l.link] \in Fetches
      BY <1>0 DEF Fetches
<1> QED BY <1>1, <1>2, <1>3, <1>4 DEF Continue

(* A task that is over leaves its link to the next, and what waits for the       *)
(* others still can.                                                             *)
LEMMA TaskLeaves ==
  ASSUME PagesInv, NEW f \in Fetches, NEW n \in FetchRecords, fetches' = [fetches EXCEPT ![f] = n],
         flying' = Popped(f) \/ (UNCHANGED flying /\ fetches[f].cleared),
         fetches[f].pc # "unused",
         n.pc \in Ended \cup {"unused"}, n.pc # "unused" => n.link = fetches[f].link, n.cleared => n.pc \in Ended
  PROVE  /\ fetches' \in [Fetches -> FetchRecords] /\ flying' \in [Links -> 0..MaxFetches]
         /\ JoinsOwnLink' /\ OneFetchPerLink'
         /\ \A r \in Requests, g \in Fetches \ {f} : CanServe(r, g) => CanServe(r, g)'
PROOF
<1> USE PagesAssumption
<1>0. /\ fetches \in [Fetches -> FetchRecords] /\ flying \in [Links -> 0..MaxFetches] /\ fetches[f].link \in Links
      BY DEF PagesInv, PagesShape, JoinsOwnLink
<1>1. fetches' \in [Fetches -> FetchRecords] /\ fetches'[f] = n /\ \A g \in Fetches \ {f} : fetches'[g] = fetches[g]
      BY <1>0
<1>2. \A u \in Links : flying[u] = f => u = fetches[f].link /\ ~fetches[f].cleared
      BY <1>0 DEF PagesInv, JoinsOwnLink, Fetches
<1>3. flying' \in [Links -> 0..MaxFetches] /\ \A u \in Links : flying'[u] # f /\ flying'[u] \in {0, flying[u]} 
      BY <1>0, <1>2 DEF Popped, Fetches
<1>4. JoinsOwnLink'
  <2>1. \A g \in Fetches : fetches'[g].pc # "unused" => fetches'[g].link \in Links
        BY <1>0, <1>1 DEF PagesInv, JoinsOwnLink
  <2>2. \A g \in Fetches : fetches'[g].cleared => fetches'[g].pc \in Ended
        BY <1>1 DEF PagesInv, JoinsOwnLink
  <2>3. ASSUME NEW u \in Links, flying'[u] # 0
        PROVE  /\ fetches'[flying'[u]].link = u
               /\ fetches'[flying'[u]].pc \notin {"unused", "canceled"}
               /\ ~fetches'[flying'[u]].cleared
    <3>1. flying'[u] = flying[u] /\ flying[u] \in Fetches \ {f}
          BY <1>0, <1>3, <2>3 DEF Fetches
    <3> QED BY <1>1, <2>3, <3>1 DEF PagesInv, JoinsOwnLink
  <2> QED BY <2>1, <2>2, <2>3 DEF JoinsOwnLink
<1>5. OneFetchPerLink'
  <2> SUFFICES ASSUME NEW g \in Fetches, Live(g)' PROVE flying'[fetches'[g].link] = g
      BY DEF OneFetchPerLink
  <2>1. g # f /\ fetches'[g] = fetches[g] /\ Live(g)
        BY <1>1 DEF Live
  <2>2. flying[fetches[g].link] = g /\ fetches[g].link \in Links
        BY <2>1 DEF PagesInv, OneFetchPerLink, JoinsOwnLink, Live
  <2> QED BY <1>0, <2>1, <2>2 DEF Popped
<1>6. \A r \in Requests, g \in Fetches \ {f} : CanServe(r, g) => CanServe(r, g)'
      BY <1>1 DEF CanServe
<1> QED BY <1>1, <1>3, <1>4, <1>5, <1>6

(* A request that goes on to something that is not a wait.                       *)
LEMMA RequestMoves ==
  ASSUME PagesInv, NEW r \in Requests, NEW n \in RequestRecords, requests' = [requests EXCEPT ![r] = n],
         n.pc # "wait"
  PROVE  /\ requests' \in [Requests -> RequestRecords] /\ requests'[r] = n
         /\ \A q \in Requests \ {r} : requests'[q] = requests[q]
         /\ \A f \in Fetches : Waiting(f)' = Waiting(f) \ {r}
         /\ UNCHANGED <<fetches, flying>> => JoinsOwnLink' /\ OneFetchPerLink' /\ WaitsForOne'
PROOF
<1>1. /\ requests' \in [Requests -> RequestRecords] /\ requests'[r] = n
      /\ \A q \in Requests \ {r} : requests'[q] = requests[q]
      BY DEF PagesInv, PagesShape
<1>2. \A f \in Fetches : Waiting(f)' = Waiting(f) \ {r}
      BY <1>1 DEF Waiting
<1>3. UNCHANGED <<fetches, flying>> => JoinsOwnLink' /\ OneFetchPerLink' /\ WaitsForOne'
      BY <1>1 DEF PagesInv, JoinsOwnLink, OneFetchPerLink, Live, WaitsForOne, CanServe
<1> QED BY <1>1, <1>2, <1>3

(* A request that only goes on disturbs nobody.                               *)
LEMMA RequestGoes ==
  ASSUME PagesInv, NEW r \in Requests, NEW pc \in RequestStates \ {"wait"}, requests' = At(r, pc),
         UNCHANGED <<fetches, flying>>
  PROVE  /\ requests' \in [Requests -> RequestRecords] /\ requests'[r].pc = pc
         /\ \A q \in Requests \ {r} : requests'[q] = requests[q]
         /\ JoinsOwnLink' /\ OneFetchPerLink' /\ WaitsForOne'
PROOF
<1> DEFINE n == [requests[r] EXCEPT !.pc = pc]
<1>1. n \in RequestRecords /\ n.pc = pc /\ requests' = [requests EXCEPT ![r] = n]
      BY DEF PagesInv, PagesShape, RequestRecords, At
<1> HIDE DEF n
<1> QED BY <1>1, RequestMoves

(* A request arrives, and reads the kept list or asks for a new one.          *)
LEMMA RequestBegins ==
  ASSUME PagesInv, NEW r \in Requests, Request(r)
  PROVE  PagesInv'
PROOF
<1> USE PagesAssumption DEF Request
<1>1. /\ requests' \in [Requests -> RequestRecords] /\ requests'[r].pc = "list"
      /\ \A q \in Requests \ {r} : requests'[q] = requests[q]
      /\ JoinsOwnLink' /\ OneFetchPerLink' /\ WaitsForOne'
      BY RequestGoes DEF RequestStates
<1>2. PagesShape'
      BY <1>1 DEF PagesInv, PagesShape
<1>3. AskerHoldsGate'
      BY <1>1 DEF PagesInv, AskerHoldsGate
<1> QED BY <1>1, <1>2, <1>3 DEF PagesInv

(* It gets the link of its page, and joins or begins its fetch.               *)
LEMMA RequestLists ==
  ASSUME PagesInv, NEW r \in Requests, List(r)
  PROVE  PagesInv'
PROOF
<1> USE PagesAssumption
<1>0. /\ requests[r].pc = "list" /\ gate = NoOne /\ UNCHANGED <<link, refuses, held, refused, cached>>
      /\ held \in ListRecords /\ requests[r] \in RequestRecords /\ r # NoOne
      BY DEF List, PagesInv, PagesShape, Requests
<1>1. CASE held.id # 0 /\ Continue(r, held) /\ UNCHANGED gate
  <2>1. AsOne(r)
        BY <1>0, <1>1, ContinueKeeps DEF PagesInv, PagesShape
  <2>2. PagesShape'
        BY <1>0, <1>1, <2>1 DEF PagesInv, PagesShape, AsOne
  <2>3. AskerHoldsGate'
        BY <1>0, <1>1, <2>1 DEF PagesInv, AskerHoldsGate, AsOne
  <2> QED BY <2>1, <2>2, <2>3 DEF PagesInv, AsOne
<1>2. CASE requests' = At(r, "error") /\ UNCHANGED <<gate, fetches, flying>>
  <2>2. /\ requests' \in [Requests -> RequestRecords] /\ requests'[r].pc = "error"
        /\ \A q \in Requests \ {r} : requests'[q] = requests[q]
        /\ JoinsOwnLink' /\ OneFetchPerLink' /\ WaitsForOne'
        BY <1>2, RequestGoes DEF RequestStates
  <2>3. PagesShape'
        BY <1>0, <1>2, <2>2 DEF PagesInv, PagesShape
  <2>4. AskerHoldsGate'
        BY <1>0, <1>2, <2>2 DEF PagesInv, AskerHoldsGate
  <2> QED BY <2>2, <2>3, <2>4 DEF PagesInv
<1>3. CASE requests' = At(r, "asking") /\ gate' = r /\ UNCHANGED <<fetches, flying>>
  <2>2. /\ requests' \in [Requests -> RequestRecords] /\ requests'[r].pc = "asking"
        /\ \A q \in Requests \ {r} : requests'[q] = requests[q]
        /\ JoinsOwnLink' /\ OneFetchPerLink' /\ WaitsForOne'
        BY <1>3, RequestGoes DEF RequestStates
  <2>3. PagesShape'
        BY <1>0, <1>3, <2>2 DEF PagesInv, PagesShape
  <2>4. /\ \A q \in Requests : requests[q].pc # "asking"
        /\ \A f \in Fetches : fetches[f].pc # "asking"
        BY <1>0 DEF PagesInv, AskerHoldsGate, Requests, Fetches
  <2>5. AskerHoldsGate'
        BY <1>0, <1>3, <2>2, <2>4 DEF AskerHoldsGate
  <2> QED BY <2>2, <2>3, <2>5 DEF PagesInv
<1> QED BY <1>0, <1>1, <1>2, <1>3 DEF List

(* Who asks for a list is alone in asking.                                       *)
LEMMA RequestIsListed ==
  ASSUME PagesInv, NEW r \in Requests, Listed(r)
  PROVE  PagesInv'
PROOF
<1> USE PagesAssumption
<1>0. /\ requests[r].pc = "asking" /\ gate' = NoOne /\ UNCHANGED <<link, refuses, refused, cached>>
      /\ held \in ListRecords /\ requests[r] \in RequestRecords /\ link \in Links
      BY DEF Listed, PagesInv, PagesShape
<1>1. /\ gate = r
      /\ \A q \in Requests : requests[q].pc = "asking" => q = r
      /\ \A f \in Fetches : fetches[f].pc # "asking"
      BY <1>0 DEF PagesInv, AskerHoldsGate, Requests, Fetches
<1>2. CASE held' = PageAnswer /\ Continue(r, PageAnswer)
  <2>1. PageAnswer \in ListRecords /\ PageAnswer.link = link /\ PageAnswer.id # 0
        BY <1>0 DEF PageAnswer, ListRecords, Links
  <2>2. AsOne(r)
    <3>1. PageAnswer.link # 0
          BY <1>0, <2>1 DEF Links
    <3> QED BY <1>0, <1>2, <2>1, <3>1, ContinueKeeps
  <2>3. PagesShape'
    <3>1. held' \in ListRecords /\ held'.link <= link' /\ (held'.id # 0 => held'.link # 0)
          BY <1>0, <1>2, <2>1 DEF Links
    <3> QED BY <1>0, <1>2, <2>2, <3>1 DEF PagesInv, PagesShape, AsOne
  <2>4. AskerHoldsGate'
        BY <1>1, <2>2 DEF AskerHoldsGate, AsOne
  <2> QED BY <2>2, <2>3, <2>4 DEF PagesInv, AsOne
<1>3. CASE requests' = At(r, "error") /\ UNCHANGED <<held, fetches, flying>>
  <2>2. /\ requests' \in [Requests -> RequestRecords] /\ requests'[r].pc = "error"
        /\ \A q \in Requests \ {r} : requests'[q] = requests[q]
        /\ JoinsOwnLink' /\ OneFetchPerLink' /\ WaitsForOne'
        BY <1>3, RequestGoes DEF RequestStates
  <2>3. PagesShape'
        BY <1>0, <1>3, <2>2 DEF PagesInv, PagesShape
  <2>4. AskerHoldsGate'
        BY <1>1, <1>3, <2>2 DEF AskerHoldsGate
  <2> QED BY <2>2, <2>3, <2>4 DEF PagesInv
<1> QED BY <1>2, <1>3 DEF Listed

(* An unused place of the table of tasks.                                     *)
LEMMA UnusedIsRecord == Unused \in FetchRecords /\ Unused.pc = "unused" /\ ~Unused.cleared
BY PagesAssumption DEF Unused, FetchRecords, FetchStates

(* A request gets the answer of the task it waits for.                        *)
LEMMA RequestIsAnswered ==
  ASSUME PagesInv, NEW r \in Requests, Answered(r)
  PROVE  PagesInv'
PROOF
<1> USE PagesAssumption
<1> DEFINE n == [pc |-> IF fetches[requests[r].fetch].pc = "done" THEN "done" ELSE "error", fetch |-> 0]
<1>0. /\ requests[r].pc = "wait" /\ fetches[requests[r].fetch].cleared
      /\ UNCHANGED <<link, refuses, held, gate, refused, cached, flying>>
      BY DEF Answered
<1>1. PICK f \in Fetches : f = requests[r].fetch /\ CanServe(r, f)
      BY <1>0 DEF PagesInv, WaitsForOne, CanServe
<1>2. n \in RequestRecords /\ n.pc \in {"done", "error"} /\ requests' = [requests EXCEPT ![r] = n]
      BY DEF Answered, RequestRecords, RequestStates
<1> HIDE DEF n
<1>3. /\ requests' \in [Requests -> RequestRecords] /\ requests'[r] = n
      /\ \A q \in Requests \ {r} : requests'[q] = requests[q]
      BY <1>2, RequestMoves
<1>4. CASE Waiting(f) = {r} /\ fetches' = [fetches EXCEPT ![f] = Unused]
  <2>1. /\ fetches' \in [Fetches -> FetchRecords] /\ JoinsOwnLink' /\ OneFetchPerLink'
        /\ \A q \in Requests, g \in Fetches \ {f} : CanServe(q, g) => CanServe(q, g)'
        BY <1>0, <1>1, <1>4, UnusedIsRecord, TaskLeaves DEF CanServe
  <2>2. \A q \in Requests : requests'[q].pc = "wait" => requests'[q] = requests[q] /\ requests[q].fetch # f
        BY <1>0, <1>1, <1>2, <1>3, <1>4 DEF Waiting
  <2>3. WaitsForOne'
        BY <2>1, <2>2 DEF PagesInv, WaitsForOne, CanServe
  <2>4. PagesShape'
        BY <1>0, <1>3, <2>1 DEF PagesInv, PagesShape
  <2>5. \A g \in Fetches : fetches'[g] = fetches[g] \/ fetches'[g].pc = "unused"
        BY <1>4, UnusedIsRecord DEF PagesInv, PagesShape
  <2>6. AskerHoldsGate'
        BY <1>0, <1>2, <1>3, <2>5 DEF PagesInv, AskerHoldsGate
  <2> QED BY <2>1, <2>3, <2>4, <2>6 DEF PagesInv
<1>5. CASE UNCHANGED fetches
  <2>1. JoinsOwnLink' /\ OneFetchPerLink' /\ WaitsForOne'
        BY <1>0, <1>2, <1>5, RequestMoves
  <2>2. PagesShape'
        BY <1>0, <1>3, <1>5 DEF PagesInv, PagesShape
  <2>3. AskerHoldsGate'
        BY <1>0, <1>2, <1>3, <1>5 DEF PagesInv, AskerHoldsGate
  <2> QED BY <2>1, <2>2, <2>3 DEF PagesInv
<1> QED BY <1>1, <1>4, <1>5 DEF Answered

(* Its caller goes away.                                                      *)
LEMMA RequestIsAbandoned ==
  ASSUME PagesInv, NEW r \in Requests, Abandon(r)
  PROVE  PagesInv'
PROOF
<1> USE PagesAssumption
<1> DEFINE n == [pc |-> "gone", fetch |-> 0]
<1>0. gate' = Released(r) /\ UNCHANGED <<link, refuses, held, refused, cached, flying>>
      BY DEF Abandon
<1>1. n \in RequestRecords /\ n.pc = "gone" /\ requests' = [requests EXCEPT ![r] = n]
      BY DEF Abandon, RequestRecords, RequestStates
<1> HIDE DEF n
<1>2. /\ requests' \in [Requests -> RequestRecords] /\ requests'[r] = n
      /\ \A q \in Requests \ {r} : requests'[q] = requests[q]
      BY <1>1, RequestMoves
<1>3. /\ gate' \in {NoOne} \cup Requests \cup Fetches
      /\ \A q \in Requests : requests'[q].pc = "asking" => gate' = q
      /\ \A g \in Fetches : fetches[g].pc = "asking" => gate' = g
      BY <1>0, <1>1, <1>2 DEF PagesInv, PagesShape, AskerHoldsGate, Released, Requests, Fetches
<1>4. CASE UNCHANGED fetches
  <2>1. JoinsOwnLink' /\ OneFetchPerLink' /\ WaitsForOne'
        BY <1>0, <1>1, <1>4, RequestMoves
  <2>2. PagesShape'
        BY <1>0, <1>2, <1>3, <1>4 DEF PagesInv, PagesShape
  <2>3. AskerHoldsGate'
        BY <1>0, <1>3, <1>4 DEF PagesInv, AskerHoldsGate
  <2> QED BY <2>1, <2>2, <2>3 DEF PagesInv
<1>5. ASSUME NEW f \in Fetches, requests[r].pc = "wait", f = requests[r].fetch, Live(f),
             fetches' = [fetches EXCEPT ![f].timer = TRUE]
      PROVE  PagesInv'
  <2> DEFINE m == [fetches[f] EXCEPT !.timer = TRUE]
  <2>1. fetches[f] \in FetchRecords
        BY DEF PagesInv, PagesShape
  <2>2. /\ m \in FetchRecords /\ fetches' = [fetches EXCEPT ![f] = m]
        /\ m.pc = fetches[f].pc /\ m.link = fetches[f].link /\ m.seen = fetches[f].seen
        /\ m.urgent = fetches[f].urgent /\ m.cleared = fetches[f].cleared
        BY <1>5, <2>1 DEF FetchRecords
  <2> HIDE DEF m
  <2>3. /\ fetches' \in [Fetches -> FetchRecords] /\ JoinsOwnLink' /\ OneFetchPerLink'
        /\ \A q \in Requests, g \in Fetches : CanServe(q, g) => CanServe(q, g)'
    <3>1. ~fetches[f].cleared
          BY <1>5 DEF PagesInv, JoinsOwnLink, Live
    <3> QED BY <1>0, <1>5, <2>2, <3>1, TaskMoves DEF Live, Ended
  <2>4. WaitsForOne'
        BY <1>1, <1>2, <2>3 DEF PagesInv, WaitsForOne, CanServe
  <2>5. PagesShape'
        BY <1>0, <1>2, <1>3, <2>3 DEF PagesInv, PagesShape
  <2>6. \A g \in Fetches : fetches'[g].pc = fetches[g].pc /\ fetches'[g].seen = fetches[g].seen
        BY <2>2, <2>3 DEF PagesInv, PagesShape
  <2>7. AskerHoldsGate'
        BY <1>0, <1>3, <2>6 DEF PagesInv, AskerHoldsGate
  <2> QED BY <2>3, <2>4, <2>5, <2>7 DEF PagesInv
<1>6. ASSUME NEW f \in Fetches, requests[r].pc = "wait", f = requests[r].fetch, Waiting(f) = {r},
             fetches[f].cleared, fetches[f].pc # "unused", fetches' = [fetches EXCEPT ![f] = Unused]
      PROVE  PagesInv'
  <2>1. /\ fetches' \in [Fetches -> FetchRecords] /\ JoinsOwnLink' /\ OneFetchPerLink'
        /\ \A q \in Requests, g \in Fetches \ {f} : CanServe(q, g) => CanServe(q, g)'
        BY <1>0, <1>6, UnusedIsRecord, TaskLeaves
  <2>2. \A q \in Requests : requests'[q].pc = "wait" => requests'[q] = requests[q] /\ requests[q].fetch # f
        BY <1>1, <1>2, <1>6 DEF Waiting
  <2>3. WaitsForOne'
        BY <2>1, <2>2 DEF PagesInv, WaitsForOne, CanServe
  <2>4. PagesShape'
        BY <1>0, <1>2, <1>3, <2>1 DEF PagesInv, PagesShape
  <2>5. \A g \in Fetches : fetches'[g] = fetches[g] \/ fetches'[g].pc = "unused"
        BY <1>6, UnusedIsRecord DEF PagesInv, PagesShape
  <2>6. AskerHoldsGate'
        BY <1>0, <1>3, <2>5 DEF PagesInv, AskerHoldsGate
  <2> QED BY <2>1, <2>3, <2>4, <2>6 DEF PagesInv
<1>7. requests[r].pc = "wait" => requests[r].fetch \in Fetches /\ fetches[requests[r].fetch].pc # "unused"
      BY DEF PagesInv, WaitsForOne, CanServe
<1> QED BY <1>4, <1>5, <1>6, <1>7 DEF Abandon

(* The callback of a task that ended clears it from the table.                *)
LEMMA TaskIsCleared ==
  ASSUME PagesInv, NEW f \in Fetches, Clear(f)
  PROVE  PagesInv'
PROOF
<1> USE PagesAssumption
<1> DEFINE n == IF Waiting(f) = {} THEN Unused ELSE [fetches[f] EXCEPT !.cleared = TRUE]
<1>0. /\ fetches[f].pc \in Ended /\ flying' = Popped(f) /\ fetches[f] \in FetchRecords
      /\ UNCHANGED <<link, refuses, held, gate, refused, cached, requests>>
      BY DEF Clear, PagesInv, PagesShape
<1>1. fetches' = [fetches EXCEPT ![f] = n]
      BY DEF Clear
<1>2. CASE Waiting(f) = {}
  <2>1. n \in FetchRecords /\ n.pc = "unused" /\ ~n.cleared
        BY <1>2, UnusedIsRecord
  <2> HIDE DEF n
  <2>2. /\ fetches' \in [Fetches -> FetchRecords] /\ flying' \in [Links -> 0..MaxFetches]
        /\ JoinsOwnLink' /\ OneFetchPerLink'
        /\ \A q \in Requests, g \in Fetches \ {f} : CanServe(q, g) => CanServe(q, g)'
        BY <1>0, <1>1, <2>1, TaskLeaves DEF Ended
  <2>3. WaitsForOne'
        BY <1>0, <1>2, <2>2 DEF PagesInv, WaitsForOne, CanServe, Waiting
  <2>4. PagesShape'
        BY <1>0, <2>2 DEF PagesInv, PagesShape
  <2>5. \A g \in Fetches : fetches'[g] = fetches[g] \/ fetches'[g].pc = "unused"
        BY <1>1, <2>1 DEF PagesInv, PagesShape
  <2>6. AskerHoldsGate'
        BY <1>0, <2>5 DEF PagesInv, AskerHoldsGate
  <2> QED BY <2>2, <2>3, <2>4, <2>6 DEF PagesInv
<1>3. CASE Waiting(f) # {}
  <2>1. /\ n \in FetchRecords /\ n.pc = fetches[f].pc /\ n.link = fetches[f].link /\ n.seen = fetches[f].seen
        /\ n.urgent = fetches[f].urgent
        BY <1>0, <1>3 DEF FetchRecords
  <2> HIDE DEF n
  <2>2. /\ fetches' \in [Fetches -> FetchRecords] /\ flying' \in [Links -> 0..MaxFetches]
        /\ JoinsOwnLink' /\ OneFetchPerLink'
        /\ \A q \in Requests, g \in Fetches \ {f} : CanServe(q, g) => CanServe(q, g)'
        BY <1>0, <1>1, <2>1, TaskLeaves DEF Ended
  <2>3. \A g \in Fetches : fetches'[g].pc = fetches[g].pc /\ fetches'[g].seen = fetches[g].seen
                          /\ fetches'[g].urgent = fetches[g].urgent
        BY <1>1, <2>1 DEF PagesInv, PagesShape
  <2>4. WaitsForOne'
        BY <1>0, <2>3 DEF PagesInv, WaitsForOne, CanServe
  <2>5. PagesShape'
        BY <1>0, <2>2 DEF PagesInv, PagesShape
  <2>6. AskerHoldsGate'
        BY <1>0, <2>3 DEF PagesInv, AskerHoldsGate
  <2> QED BY <2>2, <2>4, <2>5, <2>6 DEF PagesInv
<1> QED BY <1>2, <1>3

(* A task nobody waits for is canceled, unless somebody joined it.            *)
LEMMA OrphanIsCanceled ==
  ASSUME PagesInv, NEW f \in Fetches, CancelOrphan(f)
  PROVE  PagesInv'
PROOF
<1> USE PagesAssumption
<1> DEFINE n == [fetches[f] EXCEPT !.pc = "canceled", !.timer = FALSE]
<1>0. /\ Live(f) /\ Waiting(f) = {} /\ flying' = Popped(f) /\ gate' = Released(f) /\ fetches[f] \in FetchRecords
      /\ UNCHANGED <<link, refuses, held, refused, cached, requests>>
      BY DEF CancelOrphan, MayCancel, PagesInv, PagesShape
<1>1. fetches' = [fetches EXCEPT ![f] = n]
      BY DEF CancelOrphan
<1>2. n \in FetchRecords /\ n.pc = "canceled" /\ n.link = fetches[f].link
      BY <1>0 DEF FetchRecords, FetchStates, Ended
<1> HIDE DEF n
<1>3. /\ fetches' \in [Fetches -> FetchRecords] /\ flying' \in [Links -> 0..MaxFetches]
      /\ JoinsOwnLink' /\ OneFetchPerLink'
      /\ \A q \in Requests, g \in Fetches \ {f} : CanServe(q, g) => CanServe(q, g)'
      BY <1>0, <1>1, <1>2, TaskLeaves DEF Ended, Live
<1>4. WaitsForOne'
      BY <1>0, <1>3 DEF PagesInv, WaitsForOne, CanServe, Waiting
<1>5. /\ gate' \in {NoOne} \cup Requests \cup Fetches
      /\ \A q \in Requests : requests[q].pc = "asking" => gate' = q
      /\ \A g \in Fetches \ {f} : fetches[g].pc = "asking" => gate' = g
      BY <1>0 DEF PagesInv, PagesShape, AskerHoldsGate, Released, Requests, Fetches
<1>6. PagesShape'
      BY <1>0, <1>3, <1>5 DEF PagesInv, PagesShape
<1>7. fetches'[f].pc = "canceled" /\ \A g \in Fetches \ {f} : fetches'[g] = fetches[g]
      BY <1>1, <1>2 DEF PagesInv, PagesShape
<1>8. AskerHoldsGate'
      BY <1>0, <1>5, <1>7 DEF PagesInv, AskerHoldsGate
<1> QED BY <1>3, <1>4, <1>6, <1>8 DEF PagesInv

(* The gate and the list stay, or f, which asked, comes back with a list.        *)
LeavesGate(f) ==
  \/ UNCHANGED <<gate, held>>
  \/ /\ gate' = NoOne /\ fetches[f].pc = "asking"
     /\ held' \in ListRecords /\ held'.link <= link /\ (held'.id # 0 => held'.link # 0)

(* A task goes on, to its end or to a step other than the question for a list.   *)
LEMMA TaskGoesOn ==
  ASSUME PagesInv, NEW f \in Fetches, Live(f), NEW n \in FetchRecords, fetches' = [fetches EXCEPT ![f] = n],
         n.link = fetches[f].link, n.seen = fetches[f].seen, n.urgent = fetches[f].urgent,
         n.cleared = fetches[f].cleared, n.pc \notin {"unused", "canceled", "asking"},
         UNCHANGED <<requests, flying, link>>,
         LeavesGate(f)
  PROVE  PagesInv'
PROOF
<1> USE PagesAssumption
<1>1. ~fetches[f].cleared /\ fetches[f].pc # "unused"
      BY DEF PagesInv, JoinsOwnLink, Live
<1>2. /\ fetches' \in [Fetches -> FetchRecords] /\ JoinsOwnLink' /\ OneFetchPerLink'
      /\ \A q \in Requests, g \in Fetches : CanServe(q, g) => CanServe(q, g)'
      BY <1>1, TaskMoves
<1>3. WaitsForOne'
      BY <1>2 DEF PagesInv, WaitsForOne, CanServe
<1>4. PagesShape'
      BY <1>2 DEF PagesInv, PagesShape, LeavesGate
<1>5. fetches'[f] = n /\ \A g \in Fetches \ {f} : fetches'[g] = fetches[g]
      BY DEF PagesInv, PagesShape
<1>6. AskerHoldsGate'
  <2>1. CASE UNCHANGED <<gate, held>>
        BY <1>5, <2>1 DEF PagesInv, AskerHoldsGate
  <2>2. CASE gate' = NoOne /\ fetches[f].pc = "asking"
    <3>1. gate = f
          BY <2>2 DEF PagesInv, AskerHoldsGate
    <3>2. (\A q \in Requests : requests[q].pc # "asking") /\ \A g \in Fetches \ {f} : fetches[g].pc # "asking"
          BY <3>1 DEF PagesInv, AskerHoldsGate, Requests, Fetches
    <3> QED BY <1>5, <3>2 DEF AskerHoldsGate
  <2> QED BY <2>1, <2>2 DEF LeavesGate
<1> QED BY <1>2, <1>3, <1>4, <1>6 DEF PagesInv

(* Every step of a task.                                                      *)
LEMMA TaskRuns ==
  ASSUME PagesInv, NEW f \in Fetches,
         Begin(f) \/ Fetched(f) \/ Fails(f) \/ Expired(f) \/ Renew(f) \/ Renewed(f)
  PROVE  PagesInv'
PROOF
<1> USE PagesAssumption
<1>0. fetches[f] \in FetchRecords /\ held \in ListRecords /\ link \in Links
      BY DEF PagesInv, PagesShape
<1>1. ASSUME Live(f), NEW pc \in {"done", "failed"}, Ends(f, pc), UNCHANGED <<requests, link>>, LeavesGate(f)
      PROVE  PagesInv'
  <2> DEFINE n == [fetches[f] EXCEPT !.pc = pc, !.timer = FALSE]
  <2>1. /\ n \in FetchRecords /\ n.pc = pc /\ n.link = fetches[f].link /\ n.seen = fetches[f].seen
        /\ n.urgent = fetches[f].urgent /\ n.cleared = fetches[f].cleared
        BY <1>0 DEF FetchRecords, FetchStates, Ended
  <2>2. fetches' = [fetches EXCEPT ![f] = n] /\ UNCHANGED flying
        BY <1>1 DEF Ends
  <2> HIDE DEF n
  <2> QED BY <1>1, <2>1, <2>2, TaskGoesOn
<1>2. ASSUME Live(f), NEW pc \in {"fetch", "renew"}, Goes(f, pc), UNCHANGED <<requests, link>>, LeavesGate(f)
      PROVE  PagesInv'
  <2> DEFINE n == [fetches[f] EXCEPT !.pc = pc]
  <2>1. /\ n \in FetchRecords /\ n.pc = pc /\ n.link = fetches[f].link /\ n.seen = fetches[f].seen
        /\ n.urgent = fetches[f].urgent /\ n.cleared = fetches[f].cleared
        BY <1>0 DEF FetchRecords, FetchStates
  <2>2. fetches' = [fetches EXCEPT ![f] = n] /\ UNCHANGED flying
        BY <1>2 DEF Goes
  <2> HIDE DEF n
  <2> QED BY <1>2, <2>1, <2>2, TaskGoesOn
<1>3. ASSUME Live(f), NEW l \in ListRecords, Retries(f, l), UNCHANGED <<requests, link>>, LeavesGate(f)
      PROVE  PagesInv'
  <2>1. CASE fetches' = [fetches EXCEPT ![f] = [@ EXCEPT !.pc = "refetch", !.now = l.link]] /\ UNCHANGED flying
    <3> DEFINE n == [fetches[f] EXCEPT !.pc = "refetch", !.now = l.link]
    <3>1. /\ n \in FetchRecords /\ n.pc = "refetch" /\ n.link = fetches[f].link /\ n.seen = fetches[f].seen
          /\ n.urgent = fetches[f].urgent /\ n.cleared = fetches[f].cleared
          BY <1>0 DEF FetchRecords, FetchStates, ListRecords
    <3>2. fetches' = [fetches EXCEPT ![f] = n]
          BY <2>1
    <3> HIDE DEF n
    <3> QED BY <1>3, <2>1, <3>1, <3>2, TaskGoesOn
  <2>2. CASE Ends(f, "failed")
        BY <1>1, <1>3, <2>2
  <2> QED BY <1>3, <2>1, <2>2 DEF Retries
<1>4. CASE Begin(f) \/ Fetched(f) \/ Fails(f) \/ Expired(f)
  <2>1. /\ Live(f) /\ UNCHANGED <<requests, link>> /\ LeavesGate(f)
        /\ \/ \E pc \in {"done", "failed"} : Ends(f, pc)
           \/ \E pc \in {"fetch", "renew"} : Goes(f, pc)
        BY <1>4 DEF Begin, Fetched, Fails, Expired, Live, Ended, LeavesGate
  <2> QED BY <1>1, <1>2, <2>1
<1>5. CASE Renew(f)
  <2>1. Live(f) /\ UNCHANGED <<requests, link, held>> /\ gate = NoOne
        BY <1>5 DEF Renew, Live, Ended
  <2>2. CASE Ends(f, "failed") /\ UNCHANGED gate
        BY <1>1, <2>1, <2>2 DEF LeavesGate
  <2>3. CASE Retries(f, held) /\ UNCHANGED gate
        BY <1>0, <1>3, <2>1, <2>3 DEF LeavesGate
  <2>4. CASE MustAsk(f) /\ Goes(f, "asking") /\ gate' = f
    <3> DEFINE n == [fetches[f] EXCEPT !.pc = "asking"]
    <3>1. /\ n \in FetchRecords /\ n.pc = "asking" /\ n.link = fetches[f].link /\ n.seen = fetches[f].seen
          /\ n.urgent = fetches[f].urgent /\ n.cleared = fetches[f].cleared
          BY <1>0 DEF FetchRecords, FetchStates
    <3>2. fetches' = [fetches EXCEPT ![f] = n] /\ UNCHANGED flying
          BY <2>4 DEF Goes
    <3> HIDE DEF n
    <3>3. ~fetches[f].cleared /\ fetches[f].pc # "unused"
          BY <2>1 DEF PagesInv, JoinsOwnLink, Live
    <3>4. /\ fetches' \in [Fetches -> FetchRecords] /\ JoinsOwnLink' /\ OneFetchPerLink'
          /\ \A q \in Requests, g \in Fetches : CanServe(q, g) => CanServe(q, g)'
          BY <2>1, <3>1, <3>2, <3>3, TaskMoves
    <3>5. WaitsForOne'
          BY <2>1, <3>4 DEF PagesInv, WaitsForOne, CanServe
    <3>6. PagesShape'
          BY <2>1, <2>4, <3>2, <3>4 DEF PagesInv, PagesShape
    <3>7. fetches'[f] = n /\ \A g \in Fetches \ {f} : fetches'[g] = fetches[g]
          BY <3>2 DEF PagesInv, PagesShape
    <3>8. (\A q \in Requests : requests[q].pc # "asking") /\ \A g \in Fetches : fetches[g].pc # "asking"
          BY <2>1 DEF PagesInv, AskerHoldsGate, Requests, Fetches
    <3>9. AskerHoldsGate'
          BY <2>1, <2>4, <3>1, <3>7, <3>8 DEF AskerHoldsGate, MustAsk
    <3> QED BY <3>4, <3>5, <3>6, <3>9 DEF PagesInv
  <2> QED BY <1>5, <2>2, <2>3, <2>4 DEF Renew
<1>6. CASE Renewed(f)
  <2>1. Live(f) /\ UNCHANGED <<requests, link>> /\ gate' = NoOne /\ fetches[f].pc = "asking"
        BY <1>6 DEF Renewed, Live, Ended
  <2>2. CASE held' = PageAnswer /\ Retries(f, PageAnswer)
    <3>1. PageAnswer \in ListRecords /\ PageAnswer.link = link /\ link # 0
          BY <1>0 DEF PageAnswer, ListRecords, Links
    <3> QED BY <1>0, <1>3, <2>1, <2>2, <3>1 DEF LeavesGate, Links
  <2>3. CASE Ends(f, "failed") /\ UNCHANGED held
    <3>1. held.link <= link /\ (held.id # 0 => held.link # 0)
          BY DEF PagesInv, PagesShape
    <3> QED BY <1>0, <1>1, <2>1, <2>3, <3>1 DEF LeavesGate
  <2> QED BY <1>6, <2>2, <2>3 DEF Renewed
<1> QED BY <1>4, <1>5, <1>6

(* Links change and the kept list ages, whoever waits.                        *)
LEMMA WorldMoves ==
  ASSUME PagesInv, LinkExpires \/ SourceRefuses \/ ListAges \/ RefusalPasses \/ CacheEvicts
  PROVE  PagesInv'
PROOF
<1> USE PagesAssumption
<1>1. /\ UNCHANGED <<gate, requests, fetches, flying>>
      /\ link \in Nat => link' >= link
      /\ link' \in {link, link + 1} /\ (link' # link => link < MaxLinks)
      BY DEF LinkExpires, SourceRefuses, ListAges, RefusalPasses, CacheEvicts, remote
<1>2. held' \in {held, [held EXCEPT !.fresh = FALSE]}
      BY DEF LinkExpires, SourceRefuses, ListAges, RefusalPasses, CacheEvicts
<1>3. link \in Links /\ held \in ListRecords
      BY DEF PagesInv, PagesShape
<1>4. link' \in Links /\ link <= link'
      BY <1>1, <1>3 DEF Links
<1>5. held' \in ListRecords /\ held'.id = held.id /\ held'.link = held.link
      BY <1>2, <1>3 DEF ListRecords
<1>6. PagesShape'
      BY <1>1, <1>3, <1>4, <1>5 DEF PagesInv, PagesShape, ListRecords, Links
<1>7. JoinsOwnLink' /\ OneFetchPerLink' /\ WaitsForOne'
      BY <1>1 DEF PagesInv, JoinsOwnLink, OneFetchPerLink, Live, WaitsForOne, CanServe
<1>8. AskerHoldsGate'
      BY <1>1, <1>5 DEF PagesInv, AskerHoldsGate
<1> QED BY <1>6, <1>7, <1>8 DEF PagesInv

(* Every step of the reader's service.                                        *)
LEMMA PagesStep == PagesInv /\ [PagesNext]_pageVars => PagesInv'
PROOF
<1> SUFFICES ASSUME PagesInv, [PagesNext]_pageVars PROVE PagesInv'
    OBVIOUS
<1>1. CASE UNCHANGED pageVars
      BY <1>1 DEF pageVars, PagesInv, PagesShape, JoinsOwnLink, OneFetchPerLink, Live, WaitsForOne, CanServe,
                  AskerHoldsGate
<1>2. ASSUME NEW r \in Requests, Request(r) \/ RequestSteps(r) \/ Abandon(r) PROVE PagesInv'
      BY <1>2, RequestBegins, RequestLists, RequestIsListed, RequestIsAnswered, RequestIsAbandoned DEF RequestSteps
<1>3. ASSUME NEW f \in Fetches, FetchSteps(f) \/ CancelOrphan(f) PROVE PagesInv'
      BY <1>3, TaskIsCleared, TaskRuns, OrphanIsCanceled DEF FetchSteps
<1>4. CASE LinkExpires \/ SourceRefuses \/ ListAges \/ RefusalPasses \/ CacheEvicts
      BY <1>4, WorldMoves
<1> QED BY <1>1, <1>2, <1>3, <1>4 DEF PagesNext

-----------------------------------------------------------------------------
(* HOME AND DISCOVER. The task that asks for a feed is the one in flight.        *)

TaskStates == {"free", "new", "asking", "found", "none"}
PageRecords == [held : BOOLEAN, of : 0..list, age : 0..FreshTime]

FeedsShape ==
  /\ heldFeeds \subseteq FeedKeys /\ resting \in [FeedKeys -> 0..RestTime]
  /\ inflight \in [FeedKeys -> Tasks \cup {NoTask}]
  /\ task \in [Tasks -> [at : TaskStates, feed : FeedKeys]]
  /\ visit \in [Visits -> [at : {"idle", "waiting", "shown"}, shows : SUBSET FeedKeys,
                           awaits : [FeedKeys -> Tasks \cup {NoTask}]]]
  /\ feedFailures \in 0..MaxFeedFailures /\ forgotten \in 0..MaxForgotten

DiscoverShape ==
  /\ list \in 0..MaxListChanges /\ shownPage \in 0..list
  /\ page \in PageRecords
  /\ browse \in [Browsers -> [at : {"idle", "asking", "answered"}, kept : PageRecords, got : 0..list]]

(* The task that is to ask, or asks, for a feed is the one that is in flight.    *)
AskingIsInFlight == \A t \in Tasks : task[t].at \in {"new", "asking"} => inflight[task[t].feed] = t

FeedsInv == FeedsShape /\ DiscoverShape /\ AskingIsInFlight

(* What the invariant says of the properties.                                 *)
LEMMA FeedsInvImplies == FeedsInv => FeedsTypeOK /\ OneRequestPerFeed
PROOF
<1> SUFFICES ASSUME FeedsInv PROVE FeedsTypeOK /\ OneRequestPerFeed
    OBVIOUS
<1>1. FeedsTypeOK
      BY DEF FeedsInv, FeedsShape, DiscoverShape, TaskStates, PageRecords, FeedsTypeOK
<1>2. OneRequestPerFeed
      BY DEF FeedsInv, AskingIsInFlight, OneRequestPerFeed
<1> QED BY <1>1, <1>2

(* A free place of the table of tasks.                                        *)
LEMMA FreeTaskIsTask == FreeTask \in [at : TaskStates, feed : FeedKeys] /\ FreeTask.at = "free"
BY FeedsAssumption DEF FreeTask, TaskStates

(* A visit that has ended.                                                    *)
LEMMA NoVisitIsVisit ==
  NoVisit \in [at : {"idle", "waiting", "shown"}, shows : SUBSET FeedKeys, awaits : [FeedKeys -> Tasks \cup {NoTask}]]
BY DEF NoVisit

(* Nobody visits and nothing is asked at the start.                           *)
LEMMA FeedsStart == FeedsInit => FeedsInv
PROOF
<1> SUFFICES ASSUME FeedsInit PROVE FeedsInv
    OBVIOUS
<1> USE FeedsAssumption DEF FeedsInit
<1>1. FeedsShape
      BY FreeTaskIsTask, NoVisitIsVisit DEF FeedsShape
<1>2. NoPage \in PageRecords
      BY DEF NoPage, PageRecords
<1>3. DiscoverShape
  <2>1. NoBrowse \in [at : {"idle", "asking", "answered"}, kept : PageRecords, got : 0..list]
        BY <1>2 DEF NoBrowse
  <2> QED BY <1>2, <2>1 DEF DiscoverShape
<1>4. AskingIsInFlight
      BY FreeTaskIsTask DEF AskingIsInFlight
<1> QED BY <1>1, <1>3, <1>4 DEF FeedsInv

(* A task that goes on for the same feed.                                        *)
LEMMA FetchGoesOn ==
  ASSUME FeedsInv, NEW t \in Tasks, NEW at \in TaskStates, task' = [task EXCEPT ![t].at = at], UNCHANGED inflight,
         at \in {"new", "asking"} => task[t].at \in {"new", "asking"}
  PROVE  task' \in [Tasks -> [at : TaskStates, feed : FeedKeys]] /\ AskingIsInFlight'
PROOF
<1>1. task[t] \in [at : TaskStates, feed : FeedKeys]
      BY DEF FeedsInv, FeedsShape
<1> DEFINE n == [task[t] EXCEPT !.at = at]
<1>2. n \in [at : TaskStates, feed : FeedKeys] /\ n.at = at /\ n.feed = task[t].feed /\ task' = [task EXCEPT ![t] = n]
      BY <1>1
<1> HIDE DEF n
<1>3. task' \in [Tasks -> [at : TaskStates, feed : FeedKeys]] /\ task'[t] = n /\ \A u \in Tasks \ {t} : task'[u] = task[u]
      BY <1>2 DEF FeedsInv, FeedsShape
<1>4. AskingIsInFlight'
      BY <1>2, <1>3 DEF FeedsInv, AskingIsInFlight
<1> QED BY <1>3, <1>4

(* A visit begins, and asks for the feeds that are neither held, resting nor in flight. *)
LEMMA HomeIsVisited ==
  ASSUME FeedsInv, NEW v \in Visits, VisitHome(v)
  PROVE  FeedsInv'
PROOF
<1> USE FeedsAssumption
<1> DEFINE cold == FeedKeys \ heldFeeds
           start == {f \in cold : MustStart(f)}
<1>1. PICK new \in [start -> {t \in Tasks : NotInUse(t)}] :
        /\ \A f, g \in start : new[f] = new[g] => f = g
        /\ inflight' = [f \in FeedKeys |-> IF f \in start THEN new[f] ELSE inflight[f]]
        /\ task' = [t \in Tasks |-> IF \E f \in start : new[f] = t
                                    THEN [at |-> "new", feed |-> CHOOSE f \in start : new[f] = t] ELSE task[t]]
        /\ visit' = [visit EXCEPT ![v] = [at |-> "waiting", shows |-> heldFeeds,
                                          awaits |-> [f \in FeedKeys |-> IF f \in cold THEN inflight'[f] ELSE NoTask]]]
      BY DEF VisitHome
<1>2. UNCHANGED <<heldFeeds, resting, discoverVars, feedBoundVars>>
      BY DEF VisitHome
<1>3. start \subseteq FeedKeys /\ \A f \in start : MustStart(f)
      OBVIOUS
<1> HIDE DEF start
<1>4. \A f \in start : new[f] \in Tasks
      BY <1>1
<1>5. inflight' \in [FeedKeys -> Tasks \cup {NoTask}]
      BY <1>1, <1>4 DEF FeedsInv, FeedsShape
<1>6. \A f \in start : task'[new[f]] = [at |-> "new", feed |-> f]
  <2> SUFFICES ASSUME NEW f \in start PROVE task'[new[f]] = [at |-> "new", feed |-> f]
      OBVIOUS
  <2>1. (CHOOSE g \in start : new[g] = new[f]) = f
        BY <1>1
  <2> QED BY <1>1, <1>4, <2>1
<1>7. \A t \in Tasks : (\A f \in start : new[f] # t) => task'[t] = task[t]
      BY <1>1
<1>8. task' \in [Tasks -> [at : TaskStates, feed : FeedKeys]]
  <2>1. ASSUME NEW t \in Tasks PROVE task'[t] \in [at : TaskStates, feed : FeedKeys]
    <3>1. CASE \E f \in start : new[f] = t
      <4>1. PICK f \in start : new[f] = t
            BY <3>1
      <4>2. task'[t] = [at |-> "new", feed |-> f] /\ f \in FeedKeys
            BY <1>3, <1>6, <4>1
      <4> QED BY <4>2 DEF TaskStates
    <3>2. CASE \A f \in start : new[f] # t
          BY <1>7, <3>2 DEF FeedsInv, FeedsShape
    <3> QED BY <3>1, <3>2
  <2> QED BY <1>1, <2>1
<1>9. visit' \in [Visits -> [at : {"idle", "waiting", "shown"}, shows : SUBSET FeedKeys,
                             awaits : [FeedKeys -> Tasks \cup {NoTask}]]]
  <2> DEFINE n == [at |-> "waiting", shows |-> heldFeeds,
                   awaits |-> [f \in FeedKeys |-> IF f \in cold THEN inflight'[f] ELSE NoTask]]
  <2>1. n \in [at : {"idle", "waiting", "shown"}, shows : SUBSET FeedKeys, awaits : [FeedKeys -> Tasks \cup {NoTask}]]
        BY <1>5 DEF FeedsInv, FeedsShape
  <2> QED BY <1>1, <2>1 DEF FeedsInv, FeedsShape
<1>10. AskingIsInFlight'
  <2> SUFFICES ASSUME NEW t \in Tasks, task'[t].at \in {"new", "asking"} PROVE inflight'[task'[t].feed] = t
      BY DEF AskingIsInFlight
  <2>1. CASE \E f \in start : new[f] = t
        BY <1>1, <1>3, <1>6, <2>1
  <2>2. CASE \A f \in start : new[f] # t
    <3>1. task'[t] = task[t] /\ inflight[task[t].feed] = t /\ task[t].feed \in FeedKeys
          BY <1>7, <2>2 DEF FeedsInv, FeedsShape, AskingIsInFlight
    <3>2. ASSUME task[t].feed \in start PROVE FALSE
      <4>1. inflight[task[t].feed] = NoTask \/ Done(inflight[task[t].feed])
            BY <1>3, <3>2 DEF MustStart
      <4>2. t # NoTask /\ ~Done(t)
            BY <3>1 DEF Done
      <4> QED BY <3>1, <4>1, <4>2
    <3> QED BY <1>1, <3>1, <3>2
  <2> QED BY <2>1, <2>2
<1>11. FeedsShape'
       BY <1>2, <1>5, <1>8, <1>9 DEF FeedsInv, FeedsShape, feedBoundVars
<1>12. DiscoverShape'
       BY <1>2 DEF FeedsInv, DiscoverShape, discoverVars, PageRecords
<1> QED BY <1>10, <1>11, <1>12 DEF FeedsInv

(* The rest of Home: what no visit starts.                                       *)
LEMMA HomeStep ==
  ASSUME FeedsInv, HomeNext, \A v \in Visits : ~VisitHome(v)
  PROVE  FeedsInv'
PROOF
<1> USE FeedsAssumption
<1>1. ASSUME UNCHANGED discoverVars, FeedsShape', AskingIsInFlight'
      PROVE  FeedsInv'
      BY <1>1 DEF FeedsInv, DiscoverShape, discoverVars, PageRecords
<1>2. CASE RestPasses
  <2>1. resting' \in [FeedKeys -> 0..RestTime]
        BY <1>2 DEF RestPasses, FeedsInv, FeedsShape
  <2> QED BY <1>1, <1>2, <2>1 DEF RestPasses, FeedsInv, FeedsShape, AskingIsInFlight, feedBoundVars
<1>3. ASSUME NEW f \in FeedKeys, FeedForgotten(f) PROVE FeedsInv'
      BY <1>1, <1>3 DEF FeedForgotten, FeedsInv, FeedsShape, AskingIsInFlight
<1>4. ASSUME NEW v \in Visits, ShowHome(v) \/ LeaveHome(v) PROVE FeedsInv'
  <2>1. visit[v] \in [at : {"idle", "waiting", "shown"}, shows : SUBSET FeedKeys, awaits : [FeedKeys -> Tasks \cup {NoTask}]]
        BY DEF FeedsInv, FeedsShape
  <2>2. \E n \in [at : {"idle", "waiting", "shown"}, shows : SUBSET FeedKeys, awaits : [FeedKeys -> Tasks \cup {NoTask}]] :
          visit' = [visit EXCEPT ![v] = n]
    <3>1. CASE LeaveHome(v)
          BY <3>1, NoVisitIsVisit DEF LeaveHome
    <3>2. CASE ShowHome(v)
      <4> DEFINE n == [NoVisit EXCEPT !.at = "shown", !.shows = visit[v].shows \cup Collected(v)]
      <4>1. visit[v].shows \cup Collected(v) \subseteq FeedKeys
            BY <2>1 DEF Collected
      <4>2. n \in [at : {"idle", "waiting", "shown"}, shows : SUBSET FeedKeys, awaits : [FeedKeys -> Tasks \cup {NoTask}]]
            BY <4>1, NoVisitIsVisit
      <4> QED BY <3>2, <4>2 DEF ShowHome
    <3> QED BY <1>4, <3>1, <3>2
  <2>3. UNCHANGED <<heldFeeds, resting, inflight, task, discoverVars, feedBoundVars>>
        BY <1>4 DEF ShowHome, LeaveHome
  <2> QED BY <1>1, <2>2, <2>3 DEF FeedsInv, FeedsShape, AskingIsInFlight, feedBoundVars
<1>5. ASSUME NEW t \in Tasks, BeginFetch(t) \/ FeedAnswers(t) \/ FeedFails(t) PROVE FeedsInv'
  <2>1. task[t] \in [at : TaskStates, feed : FeedKeys]
        BY DEF FeedsInv, FeedsShape
  <2>2. UNCHANGED <<inflight, visit, discoverVars, forgotten>>
        BY <1>5 DEF BeginFetch, FeedAnswers, FeedFails, feedBoundVars
  <2>3. \E at \in TaskStates : /\ task' = [task EXCEPT ![t].at = at]
                               /\ at \in {"new", "asking"} => task[t].at \in {"new", "asking"}
    <3>1. CASE BeginFetch(t) /\ Rests(task[t].feed)
          BY <3>1 DEF BeginFetch, TaskStates
    <3>2. CASE BeginFetch(t) /\ ~Rests(task[t].feed)
          BY <3>2 DEF BeginFetch, TaskStates
    <3>3. CASE FeedAnswers(t)
          BY <3>3 DEF FeedAnswers, TaskStates
    <3>4. CASE FeedFails(t)
          BY <3>4 DEF FeedFails, TaskStates
    <3> QED BY <1>5, <3>1, <3>2, <3>3, <3>4
  <2>4. task' \in [Tasks -> [at : TaskStates, feed : FeedKeys]] /\ AskingIsInFlight'
        BY <2>2, <2>3, FetchGoesOn
  <2>5. heldFeeds' \subseteq FeedKeys /\ resting' \in [FeedKeys -> 0..RestTime] /\ feedFailures' \in 0..MaxFeedFailures
        BY <1>5, <2>1 DEF BeginFetch, FeedAnswers, FeedFails, feedBoundVars, FeedsInv, FeedsShape
  <2> QED BY <1>1, <2>2, <2>4, <2>5 DEF FeedsInv, FeedsShape
<1>6. ASSUME NEW t \in Tasks, TaskCallback(t) PROVE FeedsInv'
  <2>1. UNCHANGED <<heldFeeds, resting, visit, discoverVars, feedBoundVars>> /\ task' = [task EXCEPT ![t] = FreeTask]
        BY <1>6 DEF TaskCallback
  <2>2. /\ task' \in [Tasks -> [at : TaskStates, feed : FeedKeys]]
        /\ task'[t].at = "free" /\ \A u \in Tasks \ {t} : task'[u] = task[u]
        BY <2>1, FreeTaskIsTask DEF FeedsInv, FeedsShape
  <2>3. /\ inflight' \in [FeedKeys -> Tasks \cup {NoTask}]
        /\ \A f \in FeedKeys : inflight[f] # t => inflight'[f] = inflight[f]
        BY <1>6 DEF TaskCallback, IsCurrent, FeedsInv, FeedsShape
  <2>4. AskingIsInFlight'
        BY <2>2, <2>3 DEF FeedsInv, FeedsShape, AskingIsInFlight
  <2> QED BY <1>1, <2>1, <2>2, <2>3, <2>4 DEF FeedsInv, FeedsShape, feedBoundVars
<1> QED BY <1>2, <1>3, <1>4, <1>5, <1>6 DEF HomeNext, VisitSteps, LoopSteps

(* What Discover shows, keeps and is sent is a list that the source published.   *)
LEMMA DiscoverStep ==
  ASSUME FeedsInv, DiscoverNext
  PROVE  FeedsInv'
PROOF
<1> USE FeedsAssumption
<1>1. /\ UNCHANGED homeVars
      /\ feedFailures' = feedFailures \/ (feedFailures < MaxFeedFailures /\ feedFailures' = feedFailures + 1)
      /\ forgotten' = forgotten \/ (forgotten < MaxForgotten /\ forgotten' = forgotten + 1)
      BY DEF DiscoverNext, BrowseSteps, ListChanges, PageForgotten, PageAges, ShowKept, AskForPage, SourceSends,
             ReceivePage, PageFails, feedBoundVars
<1>2. FeedsShape' /\ AskingIsInFlight'
      BY <1>1 DEF homeVars, FeedsInv, FeedsShape, AskingIsInFlight
<1> DEFINE Asks == [at : {"idle", "asking", "answered"}, kept : PageRecords, got : 0..list]
<1>3. list \in 0..MaxListChanges /\ page \in PageRecords /\ browse \in [Browsers -> Asks] /\ shownPage \in 0..list
      BY DEF FeedsInv, DiscoverShape
<1>4. CASE ListChanges
  <2>1. list' = list + 1 /\ list' \in 0..MaxListChanges /\ UNCHANGED <<page, browse, shownPage>>
        BY <1>3, <1>4 DEF ListChanges
  <2>2. 0..list \subseteq 0..list'
        BY <1>3, <2>1
  <2>3. PageRecords \subseteq PageRecords'
        BY <2>2 DEF PageRecords
  <2>4. Asks \subseteq Asks'
        BY <2>2, <2>3
  <2> QED BY <1>2, <1>3, <2>1, <2>2, <2>3, <2>4 DEF FeedsInv, DiscoverShape
<1>5. ASSUME UNCHANGED list, page' \in PageRecords, browse' \in [Browsers -> Asks], shownPage' \in 0..list
      PROVE  FeedsInv'
      BY <1>2, <1>3, <1>5 DEF FeedsInv, DiscoverShape, PageRecords
<1>6. NoPage \in PageRecords /\ 0 \in 0..list /\ list \in 0..list
      BY <1>3 DEF NoPage, PageRecords
<1>7. NoBrowse \in Asks
      BY <1>3, <1>6 DEF NoBrowse
<1> HIDE DEF Asks
<1>8. CASE PageForgotten
      BY <1>3, <1>5, <1>6, <1>8 DEF PageForgotten
<1>9. CASE PageAges
  <2>1. page' \in PageRecords
        BY <1>3, <1>9 DEF PageAges, PageRecords
  <2> QED BY <1>3, <1>5, <1>9, <2>1 DEF PageAges
<1>10. ASSUME NEW d \in Browsers, BrowseSteps(d) \/ PageFails(d) PROVE FeedsInv'
  <2>1. browse[d] \in Asks
        BY <1>3
  <2>2. CASE ShowKept(d)
        BY <1>3, <1>5, <2>2 DEF ShowKept, PageRecords
  <2>3. CASE AskForPage(d)
    <3>1. [at |-> "asking", kept |-> page, got |-> 0] \in Asks
          BY <1>3 DEF Asks
    <3> QED BY <1>3, <1>5, <2>3, <3>1 DEF AskForPage
  <2>4. CASE SourceSends(d)
    <3> DEFINE n == [browse[d] EXCEPT !.at = "answered", !.got = list]
    <3>1. n \in Asks
          BY <1>6, <2>1 DEF Asks
    <3>2. browse' = [browse EXCEPT ![d] = n]
          BY <2>4 DEF SourceSends
    <3> HIDE DEF n
    <3> QED BY <1>3, <1>5, <2>4, <3>1, <3>2 DEF SourceSends
  <2>5. CASE ReceivePage(d)
    <3>1. [held |-> TRUE, of |-> browse[d].got, age |-> 0] \in PageRecords
          BY <2>1 DEF Asks, PageRecords
    <3>2. browse[d].got \in 0..list
          BY <2>1 DEF Asks
    <3> QED BY <1>3, <1>5, <1>7, <2>5, <3>1, <3>2 DEF ReceivePage
  <2>6. CASE PageFails(d)
    <3>1. browse[d].kept.of \in 0..list
          BY <2>1 DEF Asks, PageRecords
    <3> QED BY <1>3, <1>5, <1>7, <2>6, <3>1 DEF PageFails
  <2> QED BY <1>10, <2>2, <2>3, <2>4, <2>5, <2>6 DEF BrowseSteps
<1> QED BY <1>4, <1>8, <1>9, <1>10 DEF DiscoverNext

(* Every step of Home and of Discover.                                        *)
LEMMA FeedsStep == FeedsInv /\ [FeedsNext]_feedVars => FeedsInv'
PROOF
<1> SUFFICES ASSUME FeedsInv, [FeedsNext]_feedVars PROVE FeedsInv'
    OBVIOUS
<1>1. CASE UNCHANGED feedVars
      BY <1>1 DEF feedVars, homeVars, discoverVars, feedBoundVars, FeedsInv, FeedsShape, DiscoverShape, PageRecords,
                  AskingIsInFlight
<1>2. CASE HomeNext
      BY <1>2, HomeIsVisited, HomeStep
<1>3. CASE DiscoverNext
      BY <1>3, DiscoverStep
<1> QED BY <1>1, <1>2, <1>3 DEF FeedsNext

-----------------------------------------------------------------------------
(* CATALOGS. What is kept of a track, and what its units say, agree after every  *)
(* refresh and every trust of the user.                                          *)

Catalogs == SUBSET Units
SnapshotRecords == [current : Seq(Catalogs), previous : Seq(Catalogs), suspicious : Seq(Catalogs)]
Availabilities == [Units -> {"unknown", "available", "unavailable"}]

(* What is kept of one track, and the last complete answer for it: the last      *)
(* candidate is that answer.                                                     *)
TrackOK(s, avail, last) ==
  /\ Len(s.current) <= 1 /\ Len(s.previous) <= 1 /\ Len(s.suspicious) <= MaxCandidates
  /\ \A i \in DOMAIN s.suspicious : s.current # << >> /\ IsSuspicious(Head(s.current), s.suspicious[i])
  /\ s.current # << >> /\ Head(s.current) # {} => {u \in Units : avail[u] = "available"} = Head(s.current)
  /\ s.suspicious # << >> => Head(s.suspicious) = last

CatalogInv ==
  /\ snapshots \in [Tracks -> SnapshotRecords] /\ availability \in [Tracks -> Availabilities]
  /\ lastComplete \in [Tracks -> {None} \cup Catalogs]
  /\ \A t \in Tracks : TrackOK(snapshots[t], availability[t], lastComplete[t])

(* What the invariant says of the properties.                                 *)
LEMMA CatalogInvImplies == CatalogInv => CatalogTypeOK /\ OneTrustedCatalog /\ UnitsReflectCatalog
BY DEF CatalogInv, TrackOK, SnapshotRecords, Availabilities, Catalogs, CatalogTypeOK, OneTrustedCatalog,
       UnitsReflectCatalog, HasTrusted, Trusted

(* Nothing is known of any track at the start.                                *)
LEMMA CatalogStart == CatalogInit => CatalogInv
PROOF
<1> SUFFICES ASSUME CatalogInit PROVE CatalogInv
    OBVIOUS
<1> USE SnapshotsAssumption DEF CatalogInit
<1>1. << >> \in Seq(Catalogs) /\ Len(<< >>) = 0 /\ DOMAIN << >> = {}
      OBVIOUS
<1>2. snapshots \in [Tracks -> SnapshotRecords]
      BY <1>1 DEF SnapshotRecords
<1>3. availability \in [Tracks -> Availabilities] /\ lastComplete \in [Tracks -> {None} \cup Catalogs]
      BY DEF Availabilities
<1>4. \A t \in Tracks : TrackOK(snapshots[t], availability[t], lastComplete[t])
      BY <1>1 DEF TrackOK
<1> QED BY <1>2, <1>3, <1>4 DEF CatalogInv

(* A catalog loses nothing of itself.                                         *)
LEMMA NotSuspiciousOfItself == ASSUME NEW cat \in Catalogs PROVE ~IsSuspicious(cat, cat)
PROOF
<1>1. cat \ cat = {}
      OBVIOUS
<1>2. IsFiniteSet(cat)
      BY UnitsAssumption, FS_Subset DEF Catalogs
<1>3. Cardinality({}) = 0 /\ Cardinality(cat) \in Nat /\ (cat # {} => Cardinality(cat) # 0)
      BY <1>2, FS_EmptySet, FS_CardinalityType
<1> SUFFICES ASSUME cat # {}, 2 * Cardinality(cat \ cat) >= Cardinality(cat) PROVE FALSE
    BY DEF IsSuspicious
<1>4. Cardinality(cat \ cat) = 0
      BY <1>1, <1>3
<1> QED BY <1>3, <1>4

(* Only the empty sequence has length 0.                                      *)
LEMMA EmptyHasNone == ASSUME NEW S, NEW q \in Seq(S) PROVE Len(q) \in Nat /\ (q = << >> <=> Len(q) = 0)
BY EmptySeq, LenProperties

(* The newest n of q behind cat: cat and some of q.                              *)
LEMMA NewestOf ==
  ASSUME NEW q \in Seq(Catalogs), NEW cat \in Catalogs, NEW n \in Nat \ {0}
  PROVE  LET new == Newest(<< cat >> \o q, n)
         IN  /\ new \in Seq(Catalogs) /\ Len(new) <= n /\ new # << >> /\ Head(new) = cat
             /\ \A i \in DOMAIN new : new[i] = cat \/ \E j \in DOMAIN q : new[i] = q[j]
PROOF
<1> DEFINE s == << cat >> \o q
           m == IF Len(s) <= n THEN Len(s) ELSE n
           new == Newest(s, n)
<1>1. /\ s \in Seq(Catalogs) /\ Len(s) = Len(q) + 1 /\ s[1] = cat
      /\ \A i \in 2..Len(s) : s[i] = q[i - 1] /\ i - 1 \in DOMAIN q
      OBVIOUS
<1>2. m \in 1..n /\ m <= Len(s) /\ Len(q) \in Nat
      BY <1>1
<1> HIDE DEF s, m
<1>3. new = SubSeq(s, 1, m)
      BY DEF Newest, m
<1>4. /\ new \in Seq(Catalogs) /\ Len(new) = m /\ \A i \in 1..m : new[i] = s[i]
      BY <1>1, <1>2, <1>3
<1>5. DOMAIN new = 1..m /\ Head(new) = cat /\ new # << >>
      BY <1>1, <1>2, <1>4
<1>6. \A i \in DOMAIN new : new[i] = cat \/ \E j \in DOMAIN q : new[i] = q[j]
  <2> SUFFICES ASSUME NEW i \in 1..m PROVE new[i] = cat \/ \E j \in DOMAIN q : new[i] = q[j]
      BY <1>5
  <2>1. CASE i = 1
        BY <1>1, <1>2, <1>4, <2>1
  <2>2. CASE i # 1
    <3>1. i \in 2..Len(s) /\ new[i] = s[i]
          BY <1>1, <1>2, <1>4, <2>2
    <3> QED BY <1>1, <3>1
  <2> QED BY <2>1, <2>2
<1> QED BY <1>2, <1>4, <1>5, <1>6 DEF s

(* A promotion leaves one trusted catalog, one before it and no candidate.    *)
LEMMA PromotedOf ==
  ASSUME NEW s \in SnapshotRecords, Len(s.current) <= 1, Len(s.previous) <= 1, NEW cat \in Catalogs
  PROVE  /\ Demoted(s) \in SnapshotRecords /\ Demoted(s).current = << >> /\ Len(Demoted(s).previous) <= 1
         /\ Demoted(s).suspicious = << >>
         /\ Promoted(s, cat) \in SnapshotRecords /\ Promoted(s, cat).current = << cat >>
         /\ Len(Promoted(s, cat).previous) <= 1 /\ Promoted(s, cat).suspicious = << >>
PROOF
<1> DEFINE rest == IF s.previous = << >> THEN << >> ELSE Tail(s.previous)
<1>1. s.current \in Seq(Catalogs) /\ s.previous \in Seq(Catalogs)
      BY DEF SnapshotRecords
<1>2. rest = << >>
  <2>1. CASE s.previous = << >>
        BY <2>1
  <2>2. CASE s.previous # << >>
    <3>1. Len(s.previous) = 1
      <4> DEFINE n == Len(s.previous)
      <4>1. n \in Nat /\ n # 0 /\ n <= 1
            BY <1>1, <2>2, EmptyHasNone
      <4> HIDE DEF n
      <4>2. n = 1
            BY <4>1
      <4> QED BY <4>2 DEF n
    <3>2. Tail(s.previous) = SubSeq(s.previous, 2, 1)
          BY <1>1, <2>2, <3>1, TailIsSubSeq
    <3>3. SubSeq(s.previous, 2, 1) = << >>
          BY SubSeqEmpty
    <3> QED BY <2>2, <3>2, <3>3
  <2> QED BY <2>1, <2>2
<1>3. s.current \o rest \in Seq(Catalogs) /\ Len(s.current \o rest) <= 1
      BY <1>1, <1>2, ConcatEmptySeq
<1>4. << >> \in Seq(Catalogs) /\ << cat >> \in Seq(Catalogs)
      OBVIOUS
<1>5. Demoted(s) = [current |-> << >>, previous |-> s.current \o rest, suspicious |-> << >>]
      BY DEF Demoted
<1> HIDE DEF rest
<1>6. /\ Demoted(s) \in SnapshotRecords /\ Demoted(s).current = << >>
      /\ Len(Demoted(s).previous) <= 1 /\ Demoted(s).suspicious = << >>
      BY <1>3, <1>4, <1>5 DEF SnapshotRecords
<1>7. Promoted(s, cat) = [Demoted(s) EXCEPT !.current = << cat >>]
      BY DEF Promoted
<1>8. /\ Promoted(s, cat) \in SnapshotRecords /\ Promoted(s, cat).current = << cat >>
      /\ Promoted(s, cat).previous = Demoted(s).previous /\ Promoted(s, cat).suspicious = Demoted(s).suspicious
      BY <1>4, <1>6, <1>7 DEF SnapshotRecords
<1> QED BY <1>6, <1>8

(* The units of a catalog, and no others, are available, unless it is empty.  *)
LEMMA MaterializedOf ==
  ASSUME NEW avail \in Availabilities, NEW cat \in Catalogs
  PROVE  /\ Materialized(avail, cat) \in Availabilities
         /\ cat # {} => {u \in Units : Materialized(avail, cat)[u] = "available"} = cat
BY DEF Availabilities, Catalogs, Materialized

(* Whatever else happens of a track, what is kept of the others stays.           *)
LEMMA TrackMoves ==
  ASSUME CatalogInv, NEW t \in Tracks, NEW s \in SnapshotRecords, NEW avail \in Availabilities,
         NEW last \in {None} \cup Catalogs, TrackOK(s, avail, last),
         snapshots' = [snapshots EXCEPT ![t] = s], availability' = [availability EXCEPT ![t] = avail],
         lastComplete' = [lastComplete EXCEPT ![t] = last]
  PROVE  /\ CatalogInv' /\ snapshots'[t] = s /\ lastComplete'[t] = last
         /\ \A x \in Tracks \ {t} : snapshots'[x] = snapshots[x] /\ lastComplete'[x] = lastComplete[x]
BY DEF CatalogInv

(* A promoted catalog is the track's trusted one.                             *)
LEMMA PromoteKeeps ==
  ASSUME CatalogInv, NEW t \in Tracks, NEW cat \in Catalogs, NEW last \in {None} \cup Catalogs,
         Promote(t, cat), lastComplete' = [lastComplete EXCEPT ![t] = last]
  PROVE  /\ CatalogInv' /\ HasTrusted(t)' /\ Trusted(t)' = cat
         /\ \A x \in Tracks \ {t} : snapshots'[x] = snapshots[x] /\ lastComplete'[x] = lastComplete[x]
PROOF
<1> USE SnapshotsAssumption
<1> DEFINE s == Promoted(snapshots[t], cat)
           avail == Materialized(availability[t], cat)
<1>1. snapshots[t] \in SnapshotRecords /\ availability[t] \in Availabilities
      BY DEF CatalogInv
<1>2. Len(snapshots[t].current) <= 1 /\ Len(snapshots[t].previous) <= 1
      BY DEF CatalogInv, TrackOK
<1>3. /\ s \in SnapshotRecords /\ s.current = << cat >> /\ Len(s.previous) <= 1 /\ s.suspicious = << >>
      /\ avail \in Availabilities /\ (cat # {} => {u \in Units : avail[u] = "available"} = cat)
      BY <1>1, <1>2, PromotedOf, MaterializedOf
<1>4. snapshots' = [snapshots EXCEPT ![t] = s] /\ availability' = [availability EXCEPT ![t] = avail]
      BY DEF Promote, Materialize
<1> HIDE DEF s, avail
<1>5. TrackOK(s, avail, last)
  <2>1. Len(<< cat >>) = 1 /\ Head(<< cat >>) = cat /\ Len(<< >>) = 0 /\ DOMAIN << >> = {}
        OBVIOUS
  <2> QED BY <1>3, <2>1 DEF TrackOK
<1>6. /\ CatalogInv' /\ snapshots'[t] = s
      /\ \A x \in Tracks \ {t} : snapshots'[x] = snapshots[x] /\ lastComplete'[x] = lastComplete[x]
      BY <1>3, <1>4, <1>5, TrackMoves
<1>7. HasTrusted(t)' /\ Trusted(t)' = cat
  <2>1. Head(<< cat >>) = cat /\ << cat >> # << >>
        OBVIOUS
  <2> QED BY <1>3, <1>6, <2>1 DEF HasTrusted, Trusted
<1> QED BY <1>6, <1>7

(* What a complete answer, or the user, may do to the catalogs: they stay as     *)
(* they should be, and an answer that is not the last one again takes nothing    *)
(* suspicious away.                                                              *)
LossOK ==
  \A t \in Tracks : lastComplete'[t] # lastComplete[t] /\ HasTrusted(t) =>
    HasTrusted(t)' /\ ~ IsSuspicious(Trusted(t), Trusted(t)')

(* A complete answer keeps the invariant, and what is trusted loses no more than it may. *)
LEMMA RefreshKeeps ==
  ASSUME CatalogInv, NEW t \in Tracks, NEW cat \in Catalogs, RefreshComplete(t, cat)
  PROVE  CatalogInv' /\ LossOK
PROOF
<1> USE SnapshotsAssumption
<1>0. /\ snapshots[t] \in SnapshotRecords /\ availability[t] \in Availabilities
      /\ TrackOK(snapshots[t], availability[t], lastComplete[t])
      BY DEF CatalogInv
<1>1. lastComplete' = [lastComplete EXCEPT ![t] = cat] /\ cat \in {None} \cup Catalogs
      BY DEF RefreshComplete
<1>2. HasTrusted(t) => Trusted(t) \in Catalogs
      BY <1>0, HeadTailProperties DEF HasTrusted, Trusted, SnapshotRecords
<1>3. CASE RefreshFirst(t, cat) \/ RefreshTrusted(t, cat)
  <2>1. Promote(t, cat)
        BY <1>3 DEF RefreshFirst, RefreshTrusted
  <2>2. /\ CatalogInv' /\ HasTrusted(t)' /\ Trusted(t)' = cat
        /\ \A x \in Tracks \ {t} : snapshots'[x] = snapshots[x] /\ lastComplete'[x] = lastComplete[x]
        BY <1>1, <2>1, PromoteKeeps
  <2>3. ASSUME HasTrusted(t), IsSuspicious(Trusted(t), cat) PROVE lastComplete'[t] = lastComplete[t]
    <3>1. Confirmed(t, cat)
          BY <1>3, <2>3 DEF RefreshFirst, RefreshTrusted
    <3>2. cat = lastComplete[t]
          BY <1>0, <3>1 DEF Confirmed, TrackOK
    <3> QED BY <1>1, <3>2 DEF CatalogInv
  <2> QED BY <2>2, <2>3 DEF LossOK
<1>4. CASE RefreshUnchanged(t, cat)
  <2> DEFINE s == [snapshots[t] EXCEPT !.suspicious = << >>]
             avail == Materialized(availability[t], cat)
  <2>1. << >> \in Seq(Catalogs) /\ Len(<< >>) = 0 /\ DOMAIN << >> = {}
        OBVIOUS
  <2>2. /\ s \in SnapshotRecords /\ s.suspicious = << >>
        /\ s.current = snapshots[t].current /\ s.previous = snapshots[t].previous
        BY <1>0, <2>1 DEF SnapshotRecords
  <2>3. avail \in Availabilities /\ (cat # {} => {u \in Units : avail[u] = "available"} = cat)
        BY <1>0, MaterializedOf
  <2>4. snapshots' = [snapshots EXCEPT ![t] = s] /\ availability' = [availability EXCEPT ![t] = avail]
        BY <1>4 DEF RefreshUnchanged, Materialize
  <2> HIDE DEF s, avail
  <2>5. TrackOK(s, avail, cat)
        BY <1>0, <1>4, <2>1, <2>2, <2>3 DEF TrackOK, RefreshUnchanged, Trusted
  <2>6. /\ CatalogInv' /\ snapshots'[t] = s
        /\ \A x \in Tracks \ {t} : snapshots'[x] = snapshots[x] /\ lastComplete'[x] = lastComplete[x]
        BY <1>1, <2>2, <2>3, <2>4, <2>5, TrackMoves
  <2>7. HasTrusted(t)' /\ Trusted(t)' = Trusted(t)
        BY <1>4, <2>2, <2>6 DEF RefreshUnchanged, HasTrusted, Trusted
  <2>8. ~IsSuspicious(Trusted(t), Trusted(t))
        BY <1>2, <1>4, NotSuspiciousOfItself DEF RefreshUnchanged
  <2> QED BY <2>6, <2>7, <2>8 DEF LossOK
<1>5. CASE RefreshSuspicious(t, cat)
  <2> DEFINE q == Newest(<< cat >> \o snapshots[t].suspicious, MaxCandidates)
             s == [snapshots[t] EXCEPT !.suspicious = q]
  <2>0. snapshots[t].suspicious \in Seq(Catalogs)
        BY <1>0 DEF SnapshotRecords
  <2>1. /\ q \in Seq(Catalogs) /\ Len(q) <= MaxCandidates /\ q # << >> /\ Head(q) = cat
        /\ \A i \in DOMAIN q : q[i] = cat \/ \E j \in DOMAIN snapshots[t].suspicious : q[i] = snapshots[t].suspicious[j]
        BY <2>0, NewestOf
  <2>2. snapshots' = [snapshots EXCEPT ![t] = s]
        BY <1>5 DEF RefreshSuspicious
  <2> HIDE DEF q
  <2>3. /\ s \in SnapshotRecords /\ s.suspicious = q
        /\ s.current = snapshots[t].current /\ s.previous = snapshots[t].previous
        BY <1>0, <2>1 DEF SnapshotRecords
  <2> HIDE DEF s
  <2>4. HasTrusted(t) /\ IsSuspicious(Trusted(t), cat)
        BY <1>5 DEF RefreshSuspicious
  <2>5. TrackOK(s, availability[t], cat)
    <3>1. \A i \in DOMAIN s.suspicious : s.current # << >> /\ IsSuspicious(Head(s.current), s.suspicious[i])
          BY <1>0, <2>1, <2>3, <2>4 DEF TrackOK, HasTrusted, Trusted
    <3> QED BY <1>0, <2>1, <2>3, <3>1 DEF TrackOK
  <2>6. availability' = [availability EXCEPT ![t] = availability[t]]
        BY <1>5 DEF RefreshSuspicious, CatalogInv
  <2>7. /\ CatalogInv' /\ snapshots'[t] = s
        /\ \A x \in Tracks \ {t} : snapshots'[x] = snapshots[x] /\ lastComplete'[x] = lastComplete[x]
        BY <1>0, <1>1, <2>2, <2>3, <2>5, <2>6, TrackMoves
  <2>8. HasTrusted(t)' /\ Trusted(t)' = Trusted(t)
        BY <2>3, <2>4, <2>7 DEF HasTrusted, Trusted
  <2>9. ~IsSuspicious(Trusted(t), Trusted(t))
        BY <1>2, <2>4, NotSuspiciousOfItself
  <2> QED BY <2>7, <2>8, <2>9 DEF LossOK
<1> QED BY <1>3, <1>4, <1>5 DEF RefreshComplete

(* So does the user who trusts one of the catalogs.                           *)
LEMMA TrustKeeps ==
  ASSUME CatalogInv, NEW t \in Tracks, TrustCandidate(t) \/ TrustCurrent(t) \/ TrustPrevious(t)
  PROVE  CatalogInv' /\ UNCHANGED lastComplete
PROOF
<1> USE SnapshotsAssumption
<1>0. /\ snapshots[t] \in SnapshotRecords /\ availability[t] \in Availabilities
      /\ TrackOK(snapshots[t], availability[t], lastComplete[t])
      BY DEF CatalogInv
<1>1. UNCHANGED lastComplete
      BY DEF TrustCandidate, TrustCurrent, TrustPrevious
<1>2. lastComplete' = [lastComplete EXCEPT ![t] = lastComplete[t]] /\ lastComplete[t] \in {None} \cup Catalogs
      BY <1>1 DEF CatalogInv
<1>3. CASE TrustCandidate(t)
  <2>1. PICK i \in DOMAIN snapshots[t].suspicious : Promote(t, snapshots[t].suspicious[i])
        BY <1>3 DEF TrustCandidate
  <2>2. snapshots[t].suspicious[i] \in Catalogs
        BY <1>0 DEF SnapshotRecords
  <2> QED BY <1>1, <1>2, <2>1, <2>2, PromoteKeeps
<1>4. CASE TrustCurrent(t)
  <2> DEFINE rest == [snapshots[t] EXCEPT !.current = << >>]
             cat == Head(snapshots[t].current)
             s == Promoted(rest, cat)
             avail == Materialized(availability[t], cat)
  <2>1. cat \in Catalogs
        BY <1>0, <1>4, HeadTailProperties DEF TrustCurrent, HasTrusted, SnapshotRecords
  <2>2. << >> \in Seq(Catalogs) /\ Len(<< >>) = 0 /\ DOMAIN << >> = {}
        OBVIOUS
  <2>3. rest \in SnapshotRecords /\ rest.current = << >> /\ Len(rest.previous) <= 1
        BY <1>0, <2>2 DEF SnapshotRecords, TrackOK
  <2>4. /\ snapshots' = [snapshots EXCEPT ![t] = s]
        /\ availability' = [availability EXCEPT ![t] = avail]
        BY <1>4 DEF TrustCurrent, Materialize, Trusted
  <2> HIDE DEF rest, cat
  <2>5. /\ s \in SnapshotRecords /\ s.current = << cat >> /\ Len(s.previous) <= 1 /\ s.suspicious = << >>
        /\ avail \in Availabilities /\ (cat # {} => {u \in Units : avail[u] = "available"} = cat)
        BY <1>0, <2>1, <2>2, <2>3, PromotedOf, MaterializedOf
  <2> HIDE DEF s, avail
  <2>6. TrackOK(s, avail, lastComplete[t])
    <3>1. Len(<< cat >>) = 1 /\ Head(<< cat >>) = cat
          OBVIOUS
    <3> QED BY <2>2, <2>5, <3>1 DEF TrackOK
  <2> QED BY <1>1, <1>2, <2>4, <2>5, <2>6, TrackMoves
<1>5. CASE TrustPrevious(t)
  <2> DEFINE s == Demoted(snapshots[t])
             cat == Head(snapshots[t].previous)
             avail == Materialized(availability[t], cat)
  <2>1. cat \in Catalogs
        BY <1>0, <1>5, HeadTailProperties DEF TrustPrevious, SnapshotRecords
  <2>2. << >> \in Seq(Catalogs) /\ Len(<< >>) = 0 /\ DOMAIN << >> = {}
        OBVIOUS
  <2>3. /\ snapshots' = [snapshots EXCEPT ![t] = s]
        /\ availability' = [availability EXCEPT ![t] = avail]
        BY <1>5 DEF TrustPrevious, Materialize
  <2> HIDE DEF cat
  <2>4. /\ s \in SnapshotRecords /\ s.current = << >> /\ Len(s.previous) <= 1 /\ s.suspicious = << >>
        /\ avail \in Availabilities
    <3>1. Len(snapshots[t].current) <= 1 /\ Len(snapshots[t].previous) <= 1
          BY <1>0 DEF TrackOK
    <3> QED BY <1>0, <2>1, <3>1, PromotedOf, MaterializedOf
  <2> HIDE DEF s, avail
  <2>5. TrackOK(s, avail, lastComplete[t])
        BY <2>2, <2>4 DEF TrackOK
  <2> QED BY <1>1, <1>2, <2>3, <2>4, <2>5, TrackMoves
<1> QED BY <1>1, <1>3, <1>4, <1>5

-----------------------------------------------------------------------------
(* FOLLOWS. A baseline is one of the track that is followed.                     *)

FollowShape ==
  /\ followed \in Tracks \cup {None}
  /\ baseline = None \/ baseline \in Baselines
  /\ events \subseteq [track : Tracks, unit : Units]
  /\ due \in BOOLEAN
  /\ saved = None \/ saved \in [track : Tracks, baseline : {None} \cup Baselines]
  /\ followed = None => baseline = None /\ events = {} /\ ~ due
  /\ followed # None => saved = None

CheckShape == checking \in [Callers -> Tracks \cup {None}] /\ looping \in BOOLEAN

(* A baseline is that of the track that is followed, also when it is restored.   *)
BaselineIsOfFollow ==
  /\ baseline # None => baseline.track = followed
  /\ saved # None /\ saved.baseline # None => saved.baseline.track = saved.track

FollowInv == CatalogInv /\ FollowShape /\ CheckShape /\ BaselineIsOfFollow

(* What the invariant says of the properties.                                 *)
LEMMA FollowInvImplies == FollowInv => TypeOK /\ OneTrustedCatalog /\ UnitsReflectCatalog
BY CatalogInvImplies DEF FollowInv, FollowShape, CheckShape, TypeOK

(* Nothing is followed at the start.                                          *)
LEMMA FollowStart == Init => FollowInv
PROOF
<1> SUFFICES ASSUME Init PROVE FollowInv
    OBVIOUS
<1>1. CatalogInv
      BY CatalogStart DEF Init
<1>2. FollowShape /\ CheckShape /\ BaselineIsOfFollow
      BY DEF Init, FollowShape, CheckShape, BaselineIsOfFollow
<1> QED BY <1>1, <1>2 DEF FollowInv

(* A trusted catalog is a set of units.                                       *)
LEMMA TrustedIsCatalog == ASSUME CatalogInv, NEW t \in Tracks, HasTrusted(t) PROVE Trusted(t) \in Catalogs
BY HeadTailProperties DEF CatalogInv, SnapshotRecords, HasTrusted, Trusted

(* What the user does with the follow, and what only concerns the checks.        *)
LEMMA UserFollows ==
  ASSUME FollowInv,
         \/ \E t \in Tracks : Follow(t) \/ ChangePreferredSource(t)
         \/ Unfollow \/ UndoUnfollow
  PROVE  FollowInv' /\ UNCHANGED catalogVars /\ events' \subseteq events
PROOF
<1> USE NoneAssumption
<1>1. UNCHANGED <<catalogVars, runVars>> /\ events' \in {events, {}}
      BY DEF Follow, ChangePreferredSource, Unfollow, UndoUnfollow
<1>2. CatalogInv' /\ CheckShape'
      BY <1>1 DEF FollowInv, CatalogInv, CheckShape, catalogVars, runVars
<1>3. ASSUME NEW t \in Tracks, Follow(t) \/ ChangePreferredSource(t)
      PROVE  FollowShape' /\ BaselineIsOfFollow'
  <2>1. baseline' = None \/ (baseline' \in Baselines /\ baseline'.track = t)
    <3>1. HasTrusted(t) => Trusted(t) \in Catalogs
          BY TrustedIsCatalog DEF FollowInv
    <3> QED BY <1>3, <3>1 DEF Follow, ChangePreferredSource, Rebase, Baseline, Baselines, Catalogs
  <2>2. followed' = t /\ due' = FALSE /\ events' \in {events, {}} /\ saved' = None
        BY <1>3 DEF Follow, ChangePreferredSource, Rebase, FollowInv, FollowShape
  <2> QED BY <2>1, <2>2 DEF FollowInv, FollowShape, BaselineIsOfFollow
<1>4. CASE Unfollow
  <2> DEFINE token == [track |-> followed, baseline |-> baseline]
  <2>1. /\ token \in [track : Tracks, baseline : {None} \cup Baselines]
        /\ token.baseline # None => token.baseline.track = token.track
        BY <1>4 DEF Unfollow, FollowInv, FollowShape, BaselineIsOfFollow
  <2>2. saved' = token /\ followed' = None /\ baseline' = None /\ events' = {} /\ due' = FALSE
        BY <1>4 DEF Unfollow
  <2> HIDE DEF token
  <2>3. FollowShape'
    <3>1. saved' = None \/ saved' \in [track : Tracks, baseline : {None} \cup Baselines]
          BY <2>1, <2>2
    <3>2. events' \subseteq [track : Tracks, unit : Units]
          BY <2>2
    <3> QED BY <2>2, <3>1, <3>2 DEF FollowShape
  <2>4. BaselineIsOfFollow'
        BY <2>1, <2>2 DEF BaselineIsOfFollow
  <2> QED BY <1>1, <1>2, <2>2, <2>3, <2>4 DEF FollowInv
<1>5. CASE UndoUnfollow
  <2>1. followed = None /\ saved # None /\ followed' = saved.track /\ baseline' = saved.baseline /\ saved' = None
        BY <1>5 DEF UndoUnfollow
  <2>2. UNCHANGED <<events, due>>
        BY <1>5 DEF UndoUnfollow
  <2>3. saved \in [track : Tracks, baseline : {None} \cup Baselines]
        BY <2>1 DEF FollowInv, FollowShape
  <2>4. events = {} /\ due = FALSE
        BY <2>1 DEF FollowInv, FollowShape
  <2>5. saved.track \in Tracks /\ saved.track # None /\ saved.baseline \in {None} \cup Baselines
        BY <2>3
  <2>6. FollowShape'
        BY <2>1, <2>2, <2>4, <2>5 DEF FollowShape
  <2>7. BaselineIsOfFollow'
        BY <2>1 DEF BaselineIsOfFollow, FollowInv
  <2> QED BY <1>1, <1>2, <2>2, <2>6, <2>7 DEF FollowInv
<1> QED BY <1>1, <1>2, <1>3, <1>4, <1>5 DEF FollowInv

(* The news of a step is what OnlyNewsIsReported says of it.                     *)
NewsOK ==
  \A e \in events' \ events :
    /\ e.track = followed /\ baseline.track = followed
    /\ HasTrusted(followed)' /\ e.unit \in Trusted(followed)'
    /\ e.unit \notin baseline.units

(* A check reports news of the followed track, or gives it its first baseline. *)
LEMMA CheckKeeps ==
  ASSUME FollowInv, CatalogInv', followed # None, Check(followed), UNCHANGED <<followed, saved>>
  PROVE  FollowShape' /\ BaselineIsOfFollow' /\ NewsOK
PROOF
<1> USE NoneAssumption
<1>0. followed \in Tracks /\ due' = FALSE
      BY DEF FollowInv, FollowShape, Check
<1> DEFINE s == snapshots'[followed]
<1>1. s \in SnapshotRecords
      BY <1>0 DEF CatalogInv
<1>2. s.current # << >> => Head(s.current) \in Catalogs
      BY <1>1, HeadTailProperties DEF SnapshotRecords
<1>3. CASE CheckSilent(s)
  <2>1. UNCHANGED <<baseline, events>>
        BY <1>3 DEF CheckSilent
  <2> QED BY <1>0, <2>1 DEF FollowInv, FollowShape, BaselineIsOfFollow, NewsOK
<1>4. CASE CheckPending(followed, s)
  <2> DEFINE base == [track |-> followed, units |-> Head(s.current)]
  <2>1. baseline' = base /\ UNCHANGED events
        BY <1>4 DEF CheckPending
  <2>2. base \in Baselines /\ base.track = followed
        BY <1>0, <1>2, <1>4 DEF CheckPending, Baselines, Catalogs
  <2> HIDE DEF base
  <2> QED BY <1>0, <2>1, <2>2 DEF FollowInv, FollowShape, BaselineIsOfFollow, NewsOK
<1>5. CASE CheckReports(followed, s)
  <2> DEFINE seen == baseline.units \cup {e.unit : e \in events}
             news == [track : {followed}, unit : Head(s.current) \ seen]
  <2>1. events' = events \cup news /\ UNCHANGED baseline /\ s.current # << >> /\ baseline # None
        BY <1>5 DEF CheckReports
  <2>2. Head(s.current) \subseteq Units
        BY <1>2, <2>1 DEF Catalogs
  <2>3. \A e \in news : e.track = followed /\ e.unit \in Head(s.current) /\ e.unit \notin baseline.units
        OBVIOUS
  <2>4. news \subseteq [track : Tracks, unit : Units]
        BY <1>0, <2>2
  <2> HIDE DEF seen, news
  <2>5. FollowShape' /\ BaselineIsOfFollow'
        BY <1>0, <2>1, <2>4 DEF FollowInv, FollowShape, BaselineIsOfFollow
  <2>6. HasTrusted(followed)' /\ Trusted(followed)' = Head(s.current)
        BY <2>1 DEF HasTrusted, Trusted
  <2>7. NewsOK
        BY <2>1, <2>3, <2>6 DEF NewsOK, FollowInv, BaselineIsOfFollow
  <2> QED BY <2>5, <2>7
<1> QED BY <1>3, <1>4, <1>5 DEF Check

(* An answer refreshes the track it was asked for and is compared for the one followed now. *)
LEMMA AnswerIsApplied ==
  ASSUME FollowInv, NEW k \in Callers, Apply(k), looping' \in BOOLEAN
  PROVE  FollowInv' /\ LossOK /\ NewsOK
PROOF
<1> USE NoneAssumption
<1>1. checking[k] \in Tracks
      BY DEF Apply, FollowInv, CheckShape
<1>2. CatalogInv' /\ LossOK
  <2>1. CASE RefreshIncomplete
        BY <2>1 DEF RefreshIncomplete, catalogVars, FollowInv, CatalogInv, LossOK
  <2>2. CASE \E cat \in Answers(checking[k]) : RefreshComplete(checking[k], cat)
    <3>1. PICK cat \in Answers(checking[k]) : RefreshComplete(checking[k], cat)
          BY <2>2
    <3>2. cat \in Catalogs
          BY <1>1, AnswersAssumption DEF Catalogs
    <3> QED BY <1>1, <3>1, <3>2, RefreshKeeps DEF FollowInv
  <2> QED BY <2>1, <2>2 DEF Apply
<1>3. CheckShape'
      BY DEF Apply, FollowInv, CheckShape
<1>4. UNCHANGED <<followed, saved>>
      BY DEF Apply
<1>5. FollowShape' /\ BaselineIsOfFollow' /\ NewsOK
  <2>1. CASE followed = None
        BY <1>4, <2>1 DEF Apply, FollowInv, FollowShape, BaselineIsOfFollow, NewsOK
  <2>2. CASE followed # None
    <3>1. Check(followed)
          BY <2>2 DEF Apply, TrackToCompare
    <3> QED BY <1>2, <1>4, <2>2, <3>1, CheckKeeps
  <2> QED BY <2>1, <2>2
<1> QED BY <1>2, <1>3, <1>5 DEF FollowInv

(* Every step of the user, the checks and the loop.                           *)
LEMMA FollowSteps ==
  ASSUME FollowInv, [Next]_vars
  PROVE  FollowInv' /\ [LossOK]_catalogVars /\ [NewsOK]_vars
PROOF
<1> USE NoneAssumption
<1>1. CASE UNCHANGED vars
      BY <1>1 DEF vars, catalogVars, followVars, runVars, FollowInv, CatalogInv, FollowShape, CheckShape, BaselineIsOfFollow
<1>2. CASE \/ \E t \in Tracks : Follow(t) \/ ChangePreferredSource(t)
           \/ Unfollow \/ UndoUnfollow
      BY <1>2, UserFollows DEF NewsOK
<1>3. ASSUME NEW t \in Tracks, RefreshCatalog(t)
      PROVE  FollowInv' /\ LossOK /\ NewsOK
  <2>1. PICK cat \in Answers(t) : RefreshComplete(t, cat)
        BY <1>3 DEF RefreshCatalog
  <2>2. cat \in Catalogs
        BY AnswersAssumption DEF Catalogs
  <2>3. CatalogInv' /\ LossOK
        BY <2>1, <2>2, RefreshKeeps DEF FollowInv
  <2>4. UNCHANGED <<followVars, runVars>>
        BY <1>3 DEF RefreshCatalog
  <2> QED BY <2>3, <2>4 DEF followVars, runVars, FollowInv, FollowShape, CheckShape, BaselineIsOfFollow, NewsOK
<1>4. ASSUME NEW t \in Tracks, TrustCatalog(t)
      PROVE  FollowInv' /\ LossOK /\ NewsOK
  <2>1. CatalogInv' /\ UNCHANGED lastComplete
        BY <1>4, TrustKeeps DEF TrustCatalog, FollowInv
  <2>2. UNCHANGED <<followVars, runVars>>
        BY <1>4 DEF TrustCatalog
  <2> QED BY <2>1, <2>2 DEF followVars, runVars, FollowInv, FollowShape, CheckShape, BaselineIsOfFollow, NewsOK, LossOK
<1>5. ASSUME NEW k \in Callers, Answer(k)
      PROVE  FollowInv' /\ LossOK /\ NewsOK
  <2>1. Apply(k) /\ looping' \in BOOLEAN
        BY <1>5 DEF Answer, FollowInv, CheckShape
  <2> QED BY <2>1, AnswerIsApplied
<1>6. ASSUME UNCHANGED <<catalogVars, followed, baseline, events>>, due' \in BOOLEAN, followed = None => ~due',
             saved' \in {saved, None}, CheckShape'
      PROVE  FollowInv' /\ LossOK /\ NewsOK
      BY <1>6 DEF catalogVars, FollowInv, CatalogInv, FollowShape, BaselineIsOfFollow, NewsOK, LossOK
<1>7. ASSUME NEW k \in Callers, Ask(k) PROVE FollowInv' /\ LossOK /\ NewsOK
  <2>1. UNCHANGED <<catalogVars, followVars, looping>> /\ checking' = [checking EXCEPT ![k] = followed]
        BY <1>7 DEF Ask
  <2>2. CheckShape'
        BY <2>1 DEF FollowInv, FollowShape, CheckShape
  <2> QED BY <1>6, <2>1, <2>2 DEF followVars, FollowInv, FollowShape
<1>8. ASSUME NEW k \in Callers, AnswerFails(k) \/ Preempted(k) PROVE FollowInv' /\ LossOK /\ NewsOK
  <2>1. /\ UNCHANGED <<catalogVars, followed, baseline, events, saved>> /\ due' \in {due, FALSE}
        /\ checking' = [checking EXCEPT ![k] = None] /\ looping' \in BOOLEAN
        BY <1>8 DEF AnswerFails, Preempted, followVars, FollowInv, CheckShape
  <2>2. CheckShape'
        BY <2>1 DEF FollowInv, CheckShape
  <2>3. due' \in BOOLEAN /\ (followed = None => ~due')
    <3>1. due \in BOOLEAN /\ (followed = None => due = FALSE)
          BY DEF FollowInv, FollowShape
    <3>2. due' \in BOOLEAN /\ (followed = None => due' = FALSE)
          BY <2>1, <3>1
    <3> QED BY <3>2, Zenon
  <2> QED BY <1>6, <2>1, <2>2, <2>3
<1>9. CASE TimePasses
  <2>1. CheckShape'
        BY <1>9 DEF TimePasses, runVars, FollowInv, CheckShape
  <2> QED BY <1>6, <1>9, <2>1 DEF TimePasses
<1>10. CASE Restart
  <2>1. CheckShape'
        BY <1>10 DEF Restart, CheckShape
  <2> QED BY <1>6, <1>10, <2>1 DEF Restart, FollowInv, FollowShape
<1> QED BY <1>1, <1>2, <1>3, <1>4, <1>5, <1>7, <1>8, <1>9, <1>10 DEF Next, User, LoopChecks, ManualCheck, Callers

-----------------------------------------------------------------------------
(* LIVE UPDATES. The place kept in a queue for the resync is free until it is    *)
(* used (Sound), who is closed is told (StreamsAreRead), and news is under way   *)
(* to who is behind (NewsComes).                                                 *)

-----------------------------------------------------------------------------
(* Sequences of events.                                                          *)

Has(q, e) == \E i \in 1..Len(q) : q[i] = e

OnlyAtEnd(q, e) == \A i \in 1..Len(q) : q[i] = e => i = Len(q)

(* What a sequence has once an event is put behind it.                        *)
LEMMA AppendedHas ==
  ASSUME NEW S, NEW q \in Seq(S), NEW e \in S, NEW x
  PROVE  /\ Has(Append(q, e), x) <=> (Has(q, x) \/ x = e)
         /\ ~Has(q, x) => OnlyAtEnd(Append(q, e), x)
         /\ Append(q, e) \in Seq(S) /\ Append(q, e) # << >> /\ Len(Append(q, e)) = Len(q) + 1
         /\ Len(q) \in Nat
PROOF
<1> DEFINE p == Append(q, e)
           n == Len(q)
<1>1. /\ p \in Seq(S) /\ p # << >> /\ Len(p) = n + 1
      /\ \A i \in 1..n : p[i] = q[i]
      /\ p[n + 1] = e
      BY AppendProperties
<1>2. n \in Nat
      BY LenProperties
<1> HIDE DEF p
<1> SUFFICES /\ Has(p, x) <=> (Has(q, x) \/ x = e)
             /\ ~Has(q, x) => OnlyAtEnd(p, x)
    BY <1>1, <1>2 DEF p
<1> HIDE DEF n
<1>3. Len(q) = n
      BY DEF n
<1>4. ASSUME Has(q, x) PROVE Has(p, x)
  <2>1. PICK i \in 1..n : q[i] = x
        BY <1>3, <1>4 DEF Has
  <2>2. i \in 1..(n + 1) /\ p[i] = x
        BY <1>1, <1>2, <2>1
  <2> QED BY <1>1, <2>2 DEF Has
<1>5. ASSUME x = e PROVE Has(p, x)
  <2>1. n + 1 \in 1..(n + 1) /\ p[n + 1] = x
        BY <1>1, <1>2, <1>5
  <2> QED BY <1>1, <2>1 DEF Has
<1>6. ASSUME NEW i \in 1..(n + 1), p[i] = x, ~Has(q, x) PROVE i = n + 1 /\ x = e
  <2>1. CASE i \in 1..n
        BY <1>1, <1>3, <1>6, <2>1 DEF Has
  <2>2. CASE i = n + 1
        BY <1>1, <1>6, <2>2
  <2> QED BY <1>2, <2>1, <2>2
<1> QED BY <1>1, <1>4, <1>5, <1>6 DEF Has, OnlyAtEnd

(* What is left of it once the first event is taken.                          *)
LEMMA TailHas ==
  ASSUME NEW S, NEW q \in Seq(S), q # << >>, NEW x
  PROVE  /\ Has(q, x) <=> (Head(q) = x \/ Has(Tail(q), x))
         /\ OnlyAtEnd(q, x) => OnlyAtEnd(Tail(q), x)
         /\ OnlyAtEnd(q, x) /\ Head(q) = x => Tail(q) = << >>
         /\ Head(q) \in S /\ Tail(q) \in Seq(S)
         /\ Len(q) \in Nat /\ Len(Tail(q)) = Len(q) - 1
PROOF
<1> DEFINE p == Tail(q)
           n == Len(q)
<1>1. /\ Head(q) \in S /\ p \in Seq(S) /\ Len(p) = n - 1
      /\ \A i \in 1..(n - 1) : p[i] = q[i + 1]
      BY HeadTailProperties
<1>2. n \in Nat \ {0}
  <2>1. Len(q) \in Nat /\ (q = << >> <=> Len(q) = 0)
        BY EmptySeq, LenProperties
  <2> QED BY <2>1
<1>3. Head(q) = q[1]
      OBVIOUS
<1>4. n = 1 => p = << >>
  <2>1. Len(p) = 0 => p = << >>
        BY <1>1, EmptyHasNone
  <2> QED BY <1>1, <1>2, <2>1
<1> HIDE DEF p
<1>5. /\ Has(q, x) <=> (q[1] = x \/ Has(p, x))
      /\ OnlyAtEnd(q, x) => OnlyAtEnd(p, x)
      /\ OnlyAtEnd(q, x) /\ q[1] = x => p = << >>
  <2> HIDE DEF n
  <2>0. Len(q) = n
        BY DEF n
  <2>1. ASSUME Has(q, x) PROVE q[1] = x \/ Has(p, x)
    <3>1. PICK i \in 1..n : q[i] = x
          BY <2>0, <2>1 DEF Has
    <3>2. CASE i = 1
          BY <3>1, <3>2
    <3>3. CASE i # 1
      <4>1. i - 1 \in 1..(n - 1) /\ i = (i - 1) + 1
            BY <1>2, <3>3
      <4>2. p[i - 1] = x
            BY <1>1, <3>1, <4>1
      <4> QED BY <1>1, <4>1, <4>2 DEF Has
    <3> QED BY <3>2, <3>3
  <2>2. ASSUME Has(p, x) PROVE Has(q, x)
    <3>1. PICK i \in 1..(n - 1) : p[i] = x
          BY <1>1, <2>2 DEF Has
    <3>2. i + 1 \in 1..n /\ q[i + 1] = x
          BY <1>1, <1>2, <3>1
    <3> QED BY <2>0, <3>2 DEF Has
  <2>3. ASSUME q[1] = x PROVE Has(q, x)
        BY <1>2, <2>0, <2>3 DEF Has
  <2>4. ASSUME OnlyAtEnd(q, x), NEW i \in 1..(n - 1), p[i] = x PROVE i = n - 1
    <3>1. i + 1 \in 1..n /\ q[i + 1] = x
          BY <1>1, <1>2, <2>4
    <3>2. i + 1 = n
          BY <2>0, <2>4, <3>1 DEF OnlyAtEnd
    <3> QED BY <1>2, <3>2
  <2>5. ASSUME OnlyAtEnd(q, x), q[1] = x PROVE p = << >>
    <3>1. 1 \in 1..n
          BY <1>2
    <3>2. n = 1
          BY <2>0, <2>5, <3>1 DEF OnlyAtEnd
    <3> QED BY <1>4, <3>2
  <2> QED BY <1>1, <2>1, <2>2, <2>3, <2>4, <2>5 DEF OnlyAtEnd
<1> QED BY <1>1, <1>2, <1>3, <1>5 DEF p

(* The empty sequence has nothing.                                            *)
LEMMA EmptyHas == ASSUME NEW x PROVE ~Has(<< >>, x) /\ OnlyAtEnd(<< >>, x) /\ Len(<< >>) = 0
BY DEF Has, OnlyAtEnd

(* SetToSeq lists a finite set.                                                  *)
LEMMA SetIsListed ==
  ASSUME NEW S, IsFiniteSet(S)
  PROVE  SetToSeq(S) \in Seq(S) /\ Range(SetToSeq(S)) = S
PROOF
<1> DEFINE n == Cardinality(S)
           q == SetToSeq(S)
<1>1. n \in Nat /\ ExistsBijection(1..n, S)
      BY FS_CardinalityType
<1>2. \E f \in [1..n -> S] : IsInjective(f)
      BY <1>1 DEF ExistsBijection, Bijection, Injection
<1>3. q \in [1..n -> S] /\ IsInjective(q)
      BY <1>2 DEF SetToSeq
<1> HIDE DEF q
<1>4. q \in Injection(1..n, S)
      BY <1>3 DEF Injection
<1>5. Cardinality(1..n) = n
      BY <1>1, FS_Interval
<1>6. q \in Surjection(1..n, S)
      BY <1>4, <1>5, FS_Injection
<1>7. Range(q) = S
      BY <1>3, <1>6 DEF Range, Surjection
<1>8. q \in Seq(S)
      BY <1>1, <1>3
<1> QED BY <1>7, <1>8 DEF q
-----------------------------------------------------------------------------
(* The bus.                                                                      *)

BusShape ==
  /\ subscribers \subseteq Subs /\ IsFiniteSet(subscribers) /\ Cardinality(subscribers) <= MaxSubscribers
  /\ queue \in [Subs -> Seq({"change", "resync"})]
  /\ closed \in [Subs -> BOOLEAN]
  /\ ready \in Seq(Subs)
  /\ targets \in [Threads -> SUBSET Subs] /\ \A w \in Threads : IsFiniteSet(targets[w])
  /\ stream \in [Subs -> {"free", "open", "ended"}]
  /\ wire \in [Subs -> Seq(EventTypes)]

(* The place kept in the queue is free until the resync is put into it, and the  *)
(* resync is the last event of a subscription that is closed.                    *)
Sound(s) ==
  /\ Len(queue[s]) <= QueueSize /\ Len(wire[s]) <= WireSize
  /\ ~closed[s] => Len(queue[s]) < QueueSize
  /\ OnlyAtEnd(queue[s], "resync") /\ OnlyAtEnd(wire[s], "resync")
  /\ Has(queue[s], "resync") \/ Has(wire[s], "resync") => closed[s]
  /\ Has(wire[s], "resync") => queue[s] = << >>
  /\ s \in subscribers <=> stream[s] = "open" /\ ~closed[s]
  /\ stream[s] = "ended" => closed[s]

(* Whom an event is on its way to is subscribed, or its delivery is a no-op.     *)
DeliveriesFindTheirs ==
  \A s \in Subs : (s \in Range(ready) \/ \E w \in Threads : s \in targets[w]) /\ ~closed[s] => s \in subscribers

BusInv == BusShape /\ (\A s \in Subs : Sound(s)) /\ DeliveriesFindTheirs

(* An event is on its way to s.                                                  *)
Reaching(s) ==
  \/ \E w \in Threads : s \in targets[w]
  \/ s \in Range(ready) /\ ~closed[s]
  \/ queue[s] # << >>
  \/ Has(wire[s], "change") \/ Has(wire[s], "resync")

Told(s) == Has(queue[s], "resync") \/ Has(wire[s], "resync")

(* What a client that reads s relies on.                                         *)
Carried(s) ==
  /\ stream[s] # "free" => stream'[s] # "free"
  /\ closed[s] => closed'[s]
  /\ stream[s] # "free" /\ (closed[s] => Told(s)) => (closed'[s] => Told(s)')
  /\ s \in subscribers /\ ~closed'[s] /\ Reaching(s) => Reaching(s)'

LiveShape ==
  /\ version \in 0..MaxChanges /\ thread \in [Threads -> {"idle", "committed", "taken"}]
  /\ conn \in [Clients -> Subs \cup {NoStream}] /\ connected \in [Clients -> BOOLEAN]
  /\ asked \in [Clients -> 0..MaxReads]
  /\ view \in [Clients -> 0..MaxChanges] /\ known \in [Clients -> 0..MaxChanges]
  /\ drops \in 0..MaxDrops

(* Each client has a stream of its own, and one that is closed tells it so.      *)
StreamsAreRead ==
  \A x \in Clients : conn[x] # NoStream =>
    /\ stream[conn[x]] # "free"
    /\ closed[conn[x]] => Told(conn[x])
    /\ \A y \in Clients : conn[y] = conn[x] => y = x

NewsComes ==
  \A x \in Clients : conn[x] # NoStream /\ known[x] < version =>
    asked[x] > 0 \/ (\E w \in Threads : thread[w] = "committed") \/ Reaching(conn[x])

LiveInv == BusInv /\ LiveShape /\ StreamsAreRead /\ NewsComes

(* Nobody is subscribed at the start.                                         *)
LEMMA BusStart == BusInit => BusInv
PROOF
<1> SUFFICES ASSUME BusInit PROVE BusInv
    OBVIOUS
<1> USE BusAssumption
<1>1. BusShape
  <2>1. << >> \in Seq({"change", "resync"}) /\ << >> \in Seq(Subs) /\ << >> \in Seq(EventTypes)
        BY EmptySeq
  <2>2. IsFiniteSet({}) /\ Cardinality({}) = 0
        BY FS_EmptySet
  <2> QED BY <2>1, <2>2 DEF BusInit, BusShape
<1>2. ASSUME NEW s \in Subs PROVE Sound(s)
      BY EmptyHas DEF BusInit, Sound
<1>3. DeliveriesFindTheirs
  <2>1. Range(<< >>) = {}
        BY DEF Range
  <2> QED BY <2>1 DEF BusInit, DeliveriesFindTheirs
<1> QED BY <1>1, <1>2, <1>3 DEF BusInv

(* An open subscription gets an event.                                           *)
LEMMA SubGets ==
  ASSUME BusInv, NEW s \in Subs, s \in subscribers, ~closed[s],
         queue'[s] = Enqueued(s), closed'[s] = Slow(s), s \in subscribers' <=> ~Slow(s),
         UNCHANGED <<stream, wire>>
  PROVE  Sound(s)' /\ Carried(s) /\ queue'[s] # << >> /\ queue'[s] \in Seq({"change", "resync"})
PROOF
<1> DEFINE e == IF Slow(s) THEN "resync" ELSE "change"
           n == Len(queue[s])
<1> USE BusAssumption
<1>1. /\ queue[s] \in Seq({"change", "resync"}) /\ Sound(s) /\ n \in Nat
      BY LenProperties DEF BusInv, BusShape
<1>2. /\ n < QueueSize /\ ~Has(queue[s], "resync") /\ ~Has(wire[s], "resync") /\ stream[s] = "open"
      BY <1>1 DEF Sound
<1>3. e \in {"change", "resync"} /\ (e = "resync" <=> Slow(s))
      OBVIOUS
<1> HIDE DEF e
<1>4. queue'[s] = Append(queue[s], e)
      BY DEF Enqueued, e
<1>5. /\ Has(queue'[s], "resync") <=> Slow(s)
      /\ OnlyAtEnd(queue'[s], "resync")
      /\ queue'[s] \in Seq({"change", "resync"}) /\ queue'[s] # << >> /\ Len(queue'[s]) = n + 1
      BY <1>1, <1>2, <1>3, <1>4, AppendedHas
<1>6. n + 1 <= QueueSize /\ (~Slow(s) => n + 1 < QueueSize)
      BY <1>1, <1>2 DEF Slow
<1>7. closed'[s] => Slow(s)
      OBVIOUS
<1>8. ~closed'[s] => ~Slow(s)
      OBVIOUS
<1>9. Sound(s)'
      BY <1>1, <1>2, <1>5, <1>6, <1>7, <1>8 DEF Sound
<1>10. Carried(s)
      BY <1>2, <1>5, <1>7 DEF Carried, Told, Reaching
<1> QED BY <1>5, <1>9, <1>10

(* What happens to one subscription does not concern another.                    *)
LEMMA SubStays ==
  ASSUME NEW s \in Subs,
         queue'[s] = queue[s], wire'[s] = wire[s], closed'[s] = closed[s], stream'[s] = stream[s],
         s \in subscribers' <=> s \in subscribers
  PROVE  /\ Sound(s) => Sound(s)'
         /\ ((\E w \in Threads : s \in targets[w]) \/ s \in Range(ready)
               => (\E w \in Threads : s \in targets'[w]) \/ s \in Range(ready'))
            => Carried(s)
BY DEF Sound, Carried, Told, Reaching

(* A delivery to some of the subscriptions.                                   *)
LEMMA DeliverKeeps ==
  ASSUME BusInv, NEW S \in SUBSET Subs, \A s \in S : ~closed[s] => s \in subscribers,
         Deliver(S), UNCHANGED <<targets, stream, wire>>,
         ready' \in Seq(Subs), Range(ready') \subseteq Range(ready),
         \A s \in Subs : s \in Range(ready) /\ s \notin S => s \in Range(ready')
  PROVE  /\ BusInv' /\ \A s \in Subs : Carried(s)
         /\ \A s \in S : ~closed[s] => queue'[s] # << >>
PROOF
<1> DEFINE open == {s \in S : ~closed[s]}
           slow == {s \in open : Slow(s)}
<1>1. /\ queue' = [s \in Subs |-> IF s \in open THEN Enqueued(s) ELSE queue[s]]
      /\ closed' = [s \in Subs |-> closed[s] \/ s \in slow]
      /\ subscribers' = subscribers \ slow
      BY DEF Deliver
<1>2. open \subseteq subscribers
      OBVIOUS
<1>3. ASSUME NEW s \in open
      PROVE  Sound(s)' /\ Carried(s) /\ queue'[s] # << >> /\ queue'[s] \in Seq({"change", "resync"})
  <2>1. s \in Subs /\ s \in subscribers /\ ~closed[s] /\ (s \in slow <=> Slow(s))
        BY <1>2
  <2>2. closed[s] = FALSE
        BY <2>1 DEF BusInv, BusShape
  <2>3. Slow(s) \in BOOLEAN
        BY DEF Slow
  <2> HIDE DEF open, slow
  <2>4. queue'[s] = Enqueued(s) /\ closed'[s] = Slow(s)
        BY <1>1, <1>3, <2>1, <2>2, <2>3
  <2>5. s \in subscribers' <=> ~Slow(s)
        BY <1>1, <2>1
  <2> QED BY <2>1, <2>4, <2>5, SubGets
<1>4. ASSUME NEW s \in Subs, s \notin open
      PROVE  Sound(s)' /\ Carried(s) /\ queue'[s] = queue[s]
  <2>1. s \notin slow /\ (s \in S => closed[s])
        BY <1>4
  <2> HIDE DEF open, slow
  <2>2. closed[s] \in BOOLEAN /\ Sound(s)
        BY DEF BusInv, BusShape
  <2>3. queue'[s] = queue[s] /\ closed'[s] = closed[s] /\ (s \in subscribers' <=> s \in subscribers)
        BY <1>1, <1>4, <2>1, <2>2
  <2>4. Sound(s)'
        BY <2>2, <2>3, SubStays
  <2>5. CASE s \in S
    <3>1. closed[s] = TRUE
          BY <2>1, <2>2, <2>5
    <3>2. closed'[s] = TRUE
          BY <2>3, <3>1
    <3> QED BY <2>3, <2>4, <3>1, <3>2 DEF Carried, Told
  <2>6. CASE s \notin S
    <3>1. (\E w \in Threads : s \in targets[w]) \/ s \in Range(ready)
            => (\E w \in Threads : s \in targets'[w]) \/ s \in Range(ready')
          BY <2>6
    <3>2. stream'[s] = stream[s] /\ wire'[s] = wire[s]
          OBVIOUS
    <3> QED BY <2>3, <2>4, <3>1, <3>2, SubStays
  <2> QED BY <2>3, <2>4, <2>5, <2>6
<1>5. BusShape'
  <2>1. queue' \in [Subs -> Seq({"change", "resync"})]
    <3>1. queue' = [s \in Subs |-> queue'[s]]
          BY <1>1
    <3>2. \A s \in Subs : queue'[s] \in Seq({"change", "resync"})
          BY <1>3, <1>4 DEF BusInv, BusShape
    <3> HIDE DEF open, slow
    <3> QED BY <3>1, <3>2, Zenon
  <2>2. closed' \in [Subs -> BOOLEAN]
    <3>1. \A s \in Subs : (closed[s] \/ s \in slow) \in BOOLEAN
          OBVIOUS
    <3> HIDE DEF slow
    <3> QED BY <1>1, <3>1
  <2> HIDE DEF open, slow
  <2>3. subscribers' \subseteq Subs /\ subscribers' \in SUBSET subscribers
        BY <1>1 DEF BusInv, BusShape
  <2>4. IsFiniteSet(subscribers') /\ Cardinality(subscribers') <= MaxSubscribers
    <3>1. IsFiniteSet(subscribers) /\ Cardinality(subscribers) <= MaxSubscribers
          BY DEF BusInv, BusShape
    <3>2. /\ IsFiniteSet(subscribers') /\ Cardinality(subscribers') <= Cardinality(subscribers)
          /\ Cardinality(subscribers') \in Nat /\ Cardinality(subscribers) \in Nat
          BY <2>3, <3>1, FS_Subset, FS_CardinalityType
    <3> QED BY <3>1, <3>2, BusAssumption
  <2> QED BY <2>1, <2>2, <2>3, <2>4 DEF BusInv, BusShape
<1>6. DeliveriesFindTheirs'
  <2> SUFFICES ASSUME NEW s \in Subs,
                      s \in Range(ready') \/ \E w \in Threads : s \in targets'[w], ~closed'[s]
               PROVE  s \in subscribers'
      BY DEF DeliveriesFindTheirs
  <2>1. s \notin slow /\ ~closed[s]
        BY <1>1
  <2>2. s \in Range(ready) \/ \E w \in Threads : s \in targets[w]
        OBVIOUS
  <2> HIDE DEF open, slow
  <2> QED BY <1>1, <2>1, <2>2 DEF BusInv, DeliveriesFindTheirs
<1>7. \A s \in Subs : Sound(s)' /\ Carried(s)
      BY <1>3, <1>4
<1>8. \A s \in S : ~closed[s] => queue'[s] # << >>
      BY <1>3
<1> QED BY <1>5, <1>6, <1>7, <1>8 DEF BusInv

(* The loop runs the first delivery that a thread scheduled.                  *)
LEMMA ReadyRuns ==
  ASSUME BusInv, RunReady
  PROVE  BusInv' /\ \A s \in Subs : Carried(s)
PROOF
<1> DEFINE h == Head(ready)
           rest == Tail(ready)
<1>1. ready \in Seq(Subs) /\ ready # << >>
      BY DEF RunReady, BusInv, BusShape
<1>2. h \in Subs /\ rest \in Seq(Subs)
      BY <1>1, HeadTailProperties
<1>3. \A s : Has(ready, s) <=> (h = s \/ Has(rest, s))
      BY <1>1, TailHas
<1>4. \A S, q : q \in Seq(S) => (\A s : s \in Range(q) <=> Has(q, s))
  <2> SUFFICES ASSUME NEW S, NEW q \in Seq(S) PROVE \A s : s \in Range(q) <=> Has(q, s)
      OBVIOUS
  <2>1. DOMAIN q = 1..Len(q)
        BY LenProperties
  <2> QED BY <2>1 DEF Range, Has
<1>5. \A s : s \in Range(ready) <=> (h = s \/ s \in Range(rest))
      BY <1>1, <1>2, <1>3, <1>4
<1> HIDE DEF h, rest
<1>6. ready' = rest /\ Deliver({h}) /\ UNCHANGED <<targets, stream, wire>>
      BY DEF RunReady, h, rest
<1>7. \A s \in {h} : ~closed[s] => s \in subscribers
      BY <1>2, <1>5 DEF BusInv, DeliveriesFindTheirs
<1>8. {h} \in SUBSET Subs
      BY <1>2
<1>9. /\ ready' \in Seq(Subs) /\ Range(ready') \subseteq Range(ready)
      /\ \A s \in Subs : s \in Range(ready) /\ s \notin {h} => s \in Range(ready')
      BY <1>2, <1>5, <1>6
<1> QED BY <1>6, <1>7, <1>8, <1>9, DeliverKeeps

(* An event published on the loop is in the queue of every subscriber.        *)
LEMMA LoopPublishes ==
  ASSUME BusInv, PublishOnLoop
  PROVE  BusInv' /\ (\A s \in Subs : Carried(s)) /\ (\A s \in subscribers : queue'[s] # << >>)
PROOF
<1>1. subscribers \in SUBSET Subs /\ \A s \in subscribers : s \in Subs /\ ~closed[s]
      BY DEF BusInv, BusShape, Sound
<1>2. Deliver(subscribers) /\ UNCHANGED <<ready, targets, stream, wire>>
      BY DEF PublishOnLoop
<1>3. ready' \in Seq(Subs)
      BY <1>2 DEF BusInv, BusShape
<1> QED BY <1>1, <1>2, <1>3, DeliverKeeps

(* A thread takes the subscribers, whom its event then reaches.               *)
LEMMA ThreadTakes ==
  ASSUME BusInv, NEW w \in Threads, TakeSubscribers(w)
  PROVE  BusInv' /\ (\A s \in Subs : Carried(s)) /\ (\A s \in subscribers : Reaching(s)')
PROOF
<1>1. /\ targets' = [targets EXCEPT ![w] = subscribers]
      /\ UNCHANGED <<subscribers, queue, closed, ready, stream, wire>>
      BY DEF TakeSubscribers
<1>2. /\ targets' \in [Threads -> SUBSET Subs] /\ targets'[w] = subscribers
      /\ \A v \in Threads : IsFiniteSet(targets'[v]) /\ targets'[v] \in {targets[v], subscribers}
      BY <1>1 DEF BusInv, BusShape
<1>3. BusShape'
      BY <1>1, <1>2 DEF BusInv, BusShape
<1>4. \A s \in Subs : Sound(s)'
      BY <1>1 DEF BusInv, Sound
<1>5. DeliveriesFindTheirs'
      BY <1>1, <1>2 DEF BusInv, DeliveriesFindTheirs
<1>6. \A s \in subscribers : Reaching(s)'
      BY <1>2 DEF Reaching
<1>7. \A s \in Subs : Carried(s)
      BY <1>1, <1>6 DEF Carried, Told
<1> QED BY <1>3, <1>4, <1>5, <1>6, <1>7 DEF BusInv

(* It schedules their deliveries, and loses none.                             *)
LEMMA ThreadSchedules ==
  ASSUME BusInv, NEW w \in Threads, Schedule(w)
  PROVE  BusInv' /\ \A s \in Subs : Carried(s)
PROOF
<1> DEFINE q == SetToSeq(targets[w])
<1>0. targets[w] \subseteq Subs /\ IsFiniteSet(targets[w]) /\ ready \in Seq(Subs)
      BY DEF BusInv, BusShape
<1>1. q \in Seq(targets[w]) /\ Range(q) = targets[w]
      BY <1>0, SetIsListed
<1> HIDE DEF q
<1>2. /\ ready' = ready \o q /\ targets' = [targets EXCEPT ![w] = {}]
      /\ UNCHANGED <<subscribers, queue, closed, stream, wire>>
      BY DEF Schedule, q
<1>3. q \in Seq(Subs)
      BY <1>0, <1>1
<1>4. ready' \in Seq(Subs) /\ Range(ready') = Range(ready) \cup Range(q)
  <2> DEFINE m == Len(ready)
             n == Len(q)
  <2>1. /\ ready' \in Seq(Subs) /\ Len(ready') = m + n
        /\ \A i \in 1..(m + n) : ready'[i] = IF i <= m THEN ready[i] ELSE q[i - m]
        BY <1>0, <1>2, <1>3, ConcatProperties
  <2>2. m \in Nat /\ n \in Nat /\ DOMAIN ready = 1..m /\ DOMAIN q = 1..n
        BY <1>0, <1>3, LenProperties
  <2>3. DOMAIN ready' = 1..(m + n)
        BY <2>1, LenProperties
  <2> HIDE DEF m, n
  <2>4. ASSUME NEW i \in 1..(m + n) PROVE ready'[i] \in Range(ready) \cup Range(q)
    <3>1. CASE i <= m
      <4>1. i \in 1..m /\ ready'[i] = ready[i]
            BY <2>1, <2>2, <3>1
      <4> QED BY <2>2, <4>1 DEF Range
    <3>2. CASE ~ (i <= m)
      <4>1. i - m \in 1..n /\ ready'[i] = q[i - m]
            BY <2>1, <2>2, <3>2
      <4> QED BY <2>2, <4>1 DEF Range
    <3> QED BY <3>1, <3>2
  <2>5. ASSUME NEW i \in 1..m PROVE ready[i] \in Range(ready')
    <3>1. i \in 1..(m + n) /\ ready'[i] = ready[i]
          BY <2>1, <2>2
    <3> QED BY <2>3, <3>1 DEF Range
  <2>6. ASSUME NEW i \in 1..n PROVE q[i] \in Range(ready')
    <3>1. i + m \in 1..(m + n) /\ ~ (i + m <= m) /\ (i + m) - m = i
          BY <2>2
    <3>2. ready'[i + m] = q[i]
          BY <2>1, <3>1
    <3> QED BY <2>3, <3>1, <3>2 DEF Range
  <2> QED BY <2>1, <2>2, <2>3, <2>4, <2>5, <2>6 DEF Range
<1>5. \A v \in Threads : targets'[v] = IF v = w THEN {} ELSE targets[v]
      BY <1>2 DEF BusInv, BusShape
<1>6. \A s \in Subs : (\E v \in Threads : s \in targets[v]) \/ s \in Range(ready)
                      <=> (\E v \in Threads : s \in targets'[v]) \/ s \in Range(ready')
      BY <1>1, <1>4, <1>5
<1>7. BusShape'
  <2>1. targets' \in [Threads -> SUBSET Subs] /\ \A v \in Threads : IsFiniteSet(targets'[v])
        BY <1>2, <1>5, FS_EmptySet DEF BusInv, BusShape
  <2> QED BY <1>2, <1>4, <2>1 DEF BusInv, BusShape
<1>8. \A s \in Subs : Sound(s)' /\ Carried(s)
      BY <1>2, <1>6, SubStays DEF BusInv
<1>9. DeliveriesFindTheirs'
      BY <1>2, <1>6 DEF BusInv, DeliveriesFindTheirs
<1> QED BY <1>7, <1>8, <1>9 DEF BusInv

(* An action that only changes one subscription, and may take it away.           *)
LEMMA OneSubMoves ==
  ASSUME BusInv, NEW s \in Subs, UNCHANGED <<ready, targets>>,
         NEW q \in Seq({"change", "resync"}), queue' = [queue EXCEPT ![s] = q],
         NEW f \in BOOLEAN, closed' = [closed EXCEPT ![s] = f],
         NEW st \in {"free", "open", "ended"}, stream' = [stream EXCEPT ![s] = st],
         NEW wi \in Seq(EventTypes), wire' = [wire EXCEPT ![s] = wi],
         subscribers' \in {subscribers \ {s}, subscribers, subscribers \cup {s}},
         IsFiniteSet(subscribers'), Cardinality(subscribers') <= MaxSubscribers,
         Sound(s)',
         ~f /\ (s \in Range(ready) \/ \E w \in Threads : s \in targets[w]) => s \in subscribers'
  PROVE  /\ BusInv' /\ \A r \in Subs \ {s} : Carried(r)
         /\ queue'[s] = q /\ closed'[s] = f /\ stream'[s] = st /\ wire'[s] = wi
PROOF
<1>1. /\ queue'[s] = q /\ closed'[s] = f /\ stream'[s] = st /\ wire'[s] = wi
      /\ \A r \in Subs \ {s} : /\ queue'[r] = queue[r] /\ closed'[r] = closed[r]
                               /\ stream'[r] = stream[r] /\ wire'[r] = wire[r]
      BY DEF BusInv, BusShape
<1>2. BusShape'
      BY DEF BusInv, BusShape
<1>3. \A r \in Subs \ {s} : r \in subscribers' <=> r \in subscribers
      OBVIOUS
<1>4. \A r \in Subs \ {s} : Sound(r)' /\ Carried(r)
      BY <1>1, <1>3, SubStays DEF BusInv
<1>5. DeliveriesFindTheirs'
  <2> SUFFICES ASSUME NEW r \in Subs, s # r,
                      r \in Range(ready) \/ \E w \in Threads : r \in targets[w], ~closed'[r]
               PROVE  r \in subscribers'
      BY <1>1 DEF DeliveriesFindTheirs
  <2>1. ~closed[r]
        BY <1>1
  <2> QED BY <1>3, <2>1 DEF BusInv, DeliveriesFindTheirs
<1> QED BY <1>1, <1>2, <1>4, <1>5 DEF BusInv

(* A subscriber less is no more than there may be.                            *)
LEMMA FewerAreFine ==
  ASSUME BusInv, NEW s, subscribers' \in {subscribers \ {s}, subscribers}
  PROVE  IsFiniteSet(subscribers') /\ Cardinality(subscribers') <= MaxSubscribers
PROOF
<1>1. IsFiniteSet(subscribers) /\ Cardinality(subscribers) <= MaxSubscribers
      BY DEF BusInv, BusShape
<1>2. /\ IsFiniteSet(subscribers') /\ Cardinality(subscribers') <= Cardinality(subscribers)
      /\ Cardinality(subscribers') \in Nat /\ Cardinality(subscribers) \in Nat
  <2>1. subscribers' \in SUBSET subscribers
        OBVIOUS
  <2> QED BY <1>1, <2>1, FS_Subset, FS_CardinalityType
<1> QED BY <1>1, <1>2, BusAssumption

(* A subscription begins on an object that no delivery is left for.           *)
LEMMA SubscriptionBegins ==
  ASSUME BusInv, NEW s \in Subs, Subscribe(s)
  PROVE  BusInv' /\ (\A r \in Subs \ {s} : Carried(r)) /\ stream[s] = "free" /\ stream'[s] = "open" /\ ~closed'[s]
PROOF
<1>1. /\ UNCHANGED <<ready, targets>> /\ stream[s] = "free"
      /\ queue' = [queue EXCEPT ![s] = << >>] /\ closed' = [closed EXCEPT ![s] = FALSE]
      /\ stream' = [stream EXCEPT ![s] = "open"] /\ wire' = [wire EXCEPT ![s] = <<"hello">>]
      /\ subscribers' = subscribers \cup {s}
      BY DEF Subscribe, Fresh
<1>2. << >> \in Seq({"change", "resync"}) /\ <<"hello">> \in Seq(EventTypes) /\ Len(<<"hello">>) = 1
      BY EmptySeq DEF EventTypes
<1>3. IsFiniteSet(subscribers') /\ Cardinality(subscribers') <= MaxSubscribers
  <2>1. IsFiniteSet(subscribers) /\ Cardinality(subscribers) < MaxSubscribers
        BY DEF BusInv, BusShape, Subscribe, HasRoom
  <2>2. /\ IsFiniteSet(subscribers') /\ Cardinality(subscribers) \in Nat
        /\ Cardinality(subscribers') \in {Cardinality(subscribers), Cardinality(subscribers) + 1}
        BY <1>1, <2>1, FS_AddElement, FS_CardinalityType
  <2> QED BY <2>1, <2>2, BusAssumption
<1>4. /\ queue'[s] = << >> /\ closed'[s] = FALSE /\ stream'[s] = "open" /\ wire'[s] = <<"hello">>
      /\ s \in subscribers'
      BY <1>1 DEF BusInv, BusShape
<1>5. Sound(s)'
  <2>1. ~Has(<<"hello">>, "resync") /\ OnlyAtEnd(<<"hello">>, "resync")
        BY <1>2 DEF Has, OnlyAtEnd
  <2> QED BY <1>2, <1>4, <2>1, EmptyHas, BusAssumption DEF Sound
<1>6. s \in subscribers'
      BY <1>4
<1>7. BusInv' /\ \A r \in Subs \ {s} : Carried(r)
      BY <1>1, <1>2, <1>3, <1>5, <1>6, OneSubMoves
<1> QED BY <1>1, <1>4, <1>7

(* A subscription ends.                                                       *)
LEMMA SubscriptionGoes ==
  ASSUME BusInv, NEW s \in Subs, StreamGone(s)
  PROVE  BusInv' /\ \A r \in Subs \ {s} : Carried(r)
PROOF
<1>1. /\ UNCHANGED <<ready, targets>>
      /\ queue' = [queue EXCEPT ![s] = << >>] /\ closed' = [closed EXCEPT ![s] = TRUE]
      /\ stream' = [stream EXCEPT ![s] = "free"] /\ wire' = [wire EXCEPT ![s] = << >>]
      /\ subscribers' = subscribers \ {s}
      BY DEF StreamGone, Unsubscribe
<1>2. << >> \in Seq({"change", "resync"}) /\ << >> \in Seq(EventTypes)
      BY EmptySeq
<1>3. IsFiniteSet(subscribers') /\ Cardinality(subscribers') <= MaxSubscribers
  <2>1. subscribers' \in {subscribers \ {s}, subscribers}
        BY <1>1
  <2> QED BY <2>1, FewerAreFine
<1>4. /\ queue'[s] = << >> /\ closed'[s] = TRUE /\ stream'[s] = "free" /\ wire'[s] = << >>
      /\ s \notin subscribers'
      BY <1>1 DEF BusInv, BusShape
<1>5. Sound(s)'
      BY <1>4, EmptyHas, BusAssumption DEF Sound
<1> QED BY <1>1, <1>2, <1>3, <1>5, OneSubMoves

(* The stream writes the next event, which is at once on its way to the client.  *)
LEMMA StreamWrites ==
  ASSUME BusInv, NEW s \in Subs, StreamNext(s)
  PROVE  BusInv' /\ \A r \in Subs : Carried(r)
PROOF
<1> DEFINE h == Head(queue[s])
           q == Tail(queue[s])
           wi == Append(wire[s], h)
<1>0. /\ queue[s] \in Seq({"change", "resync"}) /\ queue[s] # << >> /\ wire[s] \in Seq(EventTypes)
      /\ Sound(s) /\ stream[s] = "open" /\ Len(wire[s]) < WireSize /\ closed[s] \in BOOLEAN
      BY DEF BusInv, BusShape, StreamNext
<1>1. /\ h \in {"change", "resync"} /\ q \in Seq({"change", "resync"})
      /\ Len(queue[s]) \in Nat /\ Len(q) = Len(queue[s]) - 1
      /\ Has(queue[s], "resync") <=> (h = "resync" \/ Has(q, "resync"))
      /\ OnlyAtEnd(q, "resync")
      /\ h = "resync" => q = << >>
      BY <1>0, TailHas DEF Sound
<1>2. h \in EventTypes
      BY <1>1 DEF EventTypes
<1>3. /\ UNCHANGED <<ready, targets>>
      /\ queue' = [queue EXCEPT ![s] = q] /\ wire' = [wire EXCEPT ![s] = wi]
      /\ IF h = "resync" THEN Unsubscribe(s) /\ stream' = [stream EXCEPT ![s] = "ended"]
                         ELSE UNCHANGED <<closed, subscribers, stream>>
      BY DEF StreamNext
<1> HIDE DEF h, q
<1>4. /\ ~Has(wire[s], "resync") => OnlyAtEnd(wi, "resync")
      /\ \A e : Has(wi, e) <=> (Has(wire[s], e) \/ e = h)
      /\ wi \in Seq(EventTypes) /\ Len(wi) = Len(wire[s]) + 1 /\ Len(wire[s]) \in Nat
      BY <1>0, <1>2, AppendedHas
<1> HIDE DEF wi
<1>5. ~Has(wire[s], "resync")
      BY <1>0 DEF Sound
<1> DEFINE f == IF h = "resync" THEN TRUE ELSE closed[s]
           st == IF h = "resync" THEN "ended" ELSE "open"
<1>6. /\ closed' = [closed EXCEPT ![s] = f] /\ stream' = [stream EXCEPT ![s] = st]
      /\ subscribers' = IF h = "resync" THEN subscribers \ {s} ELSE subscribers
      BY <1>0, <1>3 DEF Unsubscribe, BusInv, BusShape
<1>7. f \in BOOLEAN /\ st \in {"free", "open", "ended"} /\ (h = "resync" => f = TRUE)
      /\ (h # "resync" => f = closed[s] /\ st = "open") /\ (st = "ended" <=> h = "resync") /\ st # "free"
      BY <1>0
<1> HIDE DEF f, st
<1>8. /\ queue'[s] = q /\ wire'[s] = wi /\ closed'[s] = f /\ stream'[s] = st
      BY <1>3, <1>6 DEF BusInv, BusShape
<1>9. subscribers' \in {subscribers \ {s}, subscribers}
      BY <1>6
<1>10. IsFiniteSet(subscribers') /\ Cardinality(subscribers') <= MaxSubscribers
      BY <1>9, FewerAreFine
<1>11. s \in subscribers' <=> st = "open" /\ ~f
      BY <1>0, <1>6, <1>7 DEF Sound
<1>12. Sound(s)'
  <2>1. /\ Len(q) <= QueueSize /\ (~f => Len(q) < QueueSize) /\ Len(wi) <= WireSize
        BY <1>0, <1>1, <1>4, <1>7, BusAssumption DEF Sound
  <2>2. Has(q, "resync") \/ Has(wi, "resync") => f
        BY <1>0, <1>1, <1>4, <1>5, <1>7 DEF Sound
  <2>3. Has(wi, "resync") => q = << >>
        BY <1>1, <1>4, <1>5
  <2>4. st = "ended" => f
        BY <1>7
  <2> QED BY <1>1, <1>4, <1>5, <1>8, <1>11, <2>1, <2>2, <2>3, <2>4 DEF Sound
<1>13. ~f /\ (s \in Range(ready) \/ \E w \in Threads : s \in targets[w]) => s \in subscribers'
  <2>1. ~f => ~closed[s] /\ h # "resync"
        BY <1>7
  <2> QED BY <1>6, <2>1 DEF BusInv, DeliveriesFindTheirs
<1>14. BusInv' /\ \A r \in Subs \ {s} : Carried(r)
      BY <1>1, <1>3, <1>4, <1>6, <1>7, <1>9, <1>10, <1>12, <1>13, OneSubMoves
<1>15. Carried(s)
  <2>1. Reaching(s)'
        BY <1>1, <1>4, <1>8 DEF Reaching
  <2>2. (closed[s] => Told(s)) => (closed'[s] => Told(s)')
        BY <1>1, <1>4, <1>7, <1>8 DEF Told
  <2> QED BY <1>7, <1>8, <2>1, <2>2 DEF Carried
<1> QED BY <1>14, <1>15

(* The client receives the next event.                                           *)
LEMMA EventIsReceived ==
  ASSUME BusInv, NEW s \in Subs, wire[s] # << >>, Pop(s), Head(wire[s]) # "resync",
         UNCHANGED <<subscribers, queue, closed, ready, targets, stream>>
  PROVE  /\ BusInv' /\ (\A r \in Subs \ {s} : Carried(r))
         /\ (closed[s] => Told(s)) => (closed'[s] => Told(s)')
         /\ Head(wire[s]) = "hello" => Carried(s)
PROOF
<1> DEFINE h == Head(wire[s])
           wi == Tail(wire[s])
<1>1. wire[s] \in Seq(EventTypes) /\ Sound(s)
      BY DEF BusInv, BusShape
<1>2. /\ \A e : Has(wire[s], e) <=> (h = e \/ Has(wi, e))
      /\ OnlyAtEnd(wi, "resync") /\ wi \in Seq(EventTypes)
      /\ Len(wire[s]) \in Nat /\ Len(wi) = Len(wire[s]) - 1
      BY <1>1, TailHas DEF Sound
<1>3. wire' = [wire EXCEPT ![s] = wi]
      BY DEF Pop
<1> HIDE DEF h, wi
<1>4. h # "resync"
      BY DEF h
<1>5. wire'[s] = wi /\ \A r \in Subs \ {s} : wire'[r] = wire[r]
      BY <1>3 DEF BusInv, BusShape
<1>6. Sound(s)'
  <2>1. Len(wi) <= WireSize
        BY <1>1, <1>2, BusAssumption DEF Sound
  <2> QED BY <1>1, <1>2, <1>4, <1>5, <2>1 DEF Sound
<1>7. \A r \in Subs \ {s} : Sound(r)' /\ Carried(r)
      BY <1>5, SubStays DEF BusInv
<1>8. BusShape'
      BY <1>2, <1>3 DEF BusInv, BusShape
<1>9. DeliveriesFindTheirs'
      BY DEF BusInv, DeliveriesFindTheirs
<1>10. (closed[s] => Told(s)) => (closed'[s] => Told(s)')
      BY <1>2, <1>4, <1>5 DEF Told
<1>11. h = "hello" => Carried(s)
      BY <1>2, <1>5, <1>10 DEF Carried, Reaching
<1> QED BY <1>6, <1>7, <1>8, <1>9, <1>10, <1>11 DEF BusInv, h

-----------------------------------------------------------------------------
(* The channel.                                                                  *)

(* What the invariant says of the properties.                                 *)
LEMMA LiveInvImplies == LiveInv => LiveTypeOK /\ ResyncIsLast /\ NothingLost
PROOF
<1> SUFFICES ASSUME LiveInv PROVE LiveTypeOK /\ ResyncIsLast /\ NothingLost
    OBVIOUS
<1>1. LiveTypeOK
      BY DEF LiveInv, BusInv, BusShape, Sound, LiveShape, LiveTypeOK, BusTypeOK
<1>2. ResyncIsLast
  <2> SUFFICES ASSUME NEW s \in Subs
               PROVE  /\ \A i \in 1..Len(queue[s]) : queue[s][i] = "resync" => i = Len(queue[s]) /\ closed[s]
                      /\ \A i \in 1..Len(wire[s]) : wire[s][i] = "resync" => i = Len(wire[s]) /\ queue[s] = << >>
      BY DEF ResyncIsLast
  <2>1. Sound(s)
        BY DEF LiveInv, BusInv
  <2> QED BY <2>1 DEF Sound, Has, OnlyAtEnd
<1>3. NothingLost
  <2> SUFFICES ASSUME NEW x \in Clients, conn[x] # NoStream, known[x] < version PROVE NewsUnderWay(x)
      BY DEF NothingLost
  <2>1. asked[x] > 0 \/ (\E w \in Threads : thread[w] = "committed") \/ Reaching(conn[x])
        BY DEF LiveInv, NewsComes
  <2> QED BY <2>1 DEF Reaching, Has, NewsUnderWay
<1> QED BY <1>1, <1>2, <1>3

(* Nobody is connected at the start.                                          *)
LEMMA LiveStart == LiveInit => LiveInv
PROOF
<1> SUFFICES ASSUME LiveInit PROVE LiveInv
    OBVIOUS
<1> USE LiveAssumption
<1>1. BusInv
      BY BusStart DEF LiveInit
<1>2. LiveShape
      BY DEF LiveInit, LiveShape
<1>3. StreamsAreRead /\ NewsComes
      BY DEF LiveInit, StreamsAreRead, NewsComes
<1> QED BY <1>1, <1>2, <1>3 DEF LiveInv

(* A reader's stream is subscribed, or has something on its way to the reader.   *)
LEMMA ReaderIsReached ==
  ASSUME BusInv', StreamsAreRead', NEW x \in Clients, NEW s \in Subs, conn'[x] = s, s # NoStream
  PROVE  (s \in subscribers' /\ ~closed'[s]) \/ Reaching(s)'
PROOF
<1>1. stream'[s] # "free" /\ (closed'[s] => Told(s)')
      BY DEF StreamsAreRead
<1>2. Sound(s)' /\ stream'[s] \in {"free", "open", "ended"}
      BY DEF BusInv, BusShape
<1>3. CASE closed'[s]
  <2>1. Told(s)'
        BY <1>1, <1>3
  <2>2. Has(queue'[s], "resync") => queue'[s] # << >>
        BY EmptyHas
  <2> QED BY <2>1, <2>2 DEF Told, Reaching
<1>4. CASE ~closed'[s]
      BY <1>1, <1>2, <1>4 DEF Sound
<1> QED BY <1>3, <1>4

(* An open stream that is not closed is subscribed.                           *)
LEMMA ReaderIsSubscribed ==
  ASSUME BusInv, NEW s \in Subs, stream[s] # "free", ~closed[s] PROVE s \in subscribers
BY DEF BusInv, BusShape, Sound

(* The streams that are read go on, and a client at most leaves its own.         *)
LEMMA StreamsStay ==
  ASSUME LiveInv, LiveShape',
         \A x \in Clients : conn'[x] # NoStream => conn'[x] = conn[x],
         \A x \in Clients : \A s \in Subs : conn'[x] = s =>
           stream'[s] # "free" /\ ((closed[s] => Told(s)) => (closed'[s] => Told(s)'))
  PROVE  StreamsAreRead'
PROOF
<1>1. conn' \in [Clients -> Subs \cup {NoStream}]
      BY DEF LiveShape
<1>2. ASSUME NEW x \in Clients, NEW s \in Subs, conn'[x] = s, s # NoStream
      PROVE  stream'[s] # "free" /\ (closed'[s] => Told(s)') /\ \A y \in Clients : conn'[y] = s => y = x
      BY <1>2 DEF LiveInv, StreamsAreRead
<1> QED BY <1>1, <1>2 DEF StreamsAreRead, Told

(* News that is on its way comes on.                                             *)
Coming(x) == asked[x] > 0 \/ (\E w \in Threads : thread[w] = "committed") \/ Reaching(conn[x])

(* News that is under way to a client stays so, while its stream goes on.     *)
LEMMA NewsStays ==
  ASSUME LiveInv, BusInv', StreamsAreRead', NEW x \in Clients, conn'[x] = conn[x], conn[x] # NoStream,
         Carried(conn[x]), Coming(x),
         asked[x] > 0 => asked'[x] > 0,
         (\E w \in Threads : thread[w] = "committed") => \E w \in Threads : thread'[w] = "committed"
  PROVE  Coming(x)'
PROOF
<1>1. PICK s \in Subs : s = conn[x] /\ s = conn'[x] /\ s # NoStream
      BY DEF LiveInv, LiveShape
<1>2. CASE Reaching(s)
  <2>1. Carried(s)
        BY <1>1
  <2>2. ~closed'[s] => Reaching(s)'
        BY <1>1, <1>2, <2>1, ReaderIsSubscribed DEF LiveInv, StreamsAreRead, Carried
  <2>3. Reaching(s)'
        BY <1>1, <2>2, ReaderIsReached
  <2> QED BY <1>1, <2>3 DEF Coming, Reaching
<1>3. CASE ~Reaching(s)
      BY <1>1, <1>3 DEF Coming
<1> QED BY <1>2, <1>3

(* A step that commits nothing and opens nothing.                                *)
LEMMA LiveMoves ==
  ASSUME LiveInv, BusInv', LiveShape', version' = version,
         \A x \in Clients : conn'[x] # NoStream => conn'[x] = conn[x],
         \A x \in Clients : \A s \in Subs : conn'[x] = s =>
           /\ stream'[s] # "free" /\ ((closed[s] => Told(s)) => (closed'[s] => Told(s)'))
           /\ asked'[x] > 0 \/ known'[x] = version
              \/ (Carried(s) /\ known'[x] = known[x] /\ asked'[x] = asked[x]),
         (\E w \in Threads : thread[w] = "committed") => \E w \in Threads : thread'[w] = "committed"
  PROVE  LiveInv'
PROOF
<1>1. StreamsAreRead'
      BY StreamsStay
<1>2. NewsComes'
  <2> SUFFICES ASSUME NEW x \in Clients, conn'[x] # NoStream, known'[x] < version' PROVE Coming(x)'
      BY DEF NewsComes, Coming
  <2>1. PICK s \in Subs : s = conn[x] /\ conn'[x] = s
        BY DEF LiveShape
  <2>2. CASE asked'[x] > 0
        BY <2>2 DEF Coming
  <2>3. CASE known'[x] = version
    <3>1. version \in Nat
          BY LiveAssumption DEF LiveInv, LiveShape
    <3> QED BY <2>3, <3>1
  <2>4. CASE Carried(s) /\ known'[x] = known[x] /\ asked'[x] = asked[x]
    <3>1. Coming(x)
          BY <2>1, <2>4 DEF LiveInv, NewsComes, Coming
    <3>2. Carried(conn[x])
          BY <2>1, <2>4 DEF Carried, Told, Reaching
    <3> QED BY <1>1, <2>1, <2>4, <3>1, <3>2, NewsStays
  <2> QED BY <2>1, <2>2, <2>3, <2>4
<1> QED BY <1>1, <1>2 DEF LiveInv

(* Nothing happens to a subscription when the bus rests.                      *)
LEMMA CarriedIfSame == ASSUME NEW s \in Subs, UNCHANGED busVars PROVE Carried(s)
BY DEF busVars, Carried, Told, Reaching

(* Nor to the bus.                                                            *)
LEMMA BusStays == ASSUME BusInv, UNCHANGED busVars PROVE BusInv'
BY DEF busVars, BusInv, BusShape, Sound, DeliveriesFindTheirs

(* The services.                                                                 *)
LEMMA ServiceKeeps == ASSUME LiveInv, Service PROVE LiveInv'
PROOF
<1> USE LiveAssumption
<1>0. /\ BusInv /\ LiveShape /\ version \in Nat
      BY DEF LiveInv, LiveShape
<1>1. CASE ChangeOnLoop
  <2>1. /\ version' = version + 1 /\ version < MaxChanges /\ PublishOnLoop /\ UNCHANGED <<thread, clientVars>>
        BY <1>1 DEF ChangeOnLoop
  <2>2. BusInv' /\ (\A s \in Subs : Carried(s)) /\ (\A s \in subscribers : queue'[s] # << >>)
        BY <1>0, <2>1, LoopPublishes
  <2>3. LiveShape' /\ conn' = conn
        BY <1>0, <2>1 DEF LiveShape, clientVars
  <2>4. StreamsAreRead'
    <3>1. \A x \in Clients : \A s \in Subs : conn[x] = s => stream[s] # "free"
          BY DEF LiveInv, StreamsAreRead
    <3> QED BY <2>2, <2>3, <3>1, StreamsStay DEF Carried
  <2>5. ASSUME NEW x \in Clients, conn'[x] # NoStream PROVE Reaching(conn[x])'
    <3>1. PICK s \in Subs : s = conn[x] /\ s = conn'[x] /\ s # NoStream
          BY <2>3, <2>5 DEF LiveShape
    <3>2. ~closed'[s] => Reaching(s)'
      <4>1. stream[s] # "free"
            BY <3>1 DEF LiveInv, StreamsAreRead
      <4> QED BY <1>0, <2>2, <4>1, ReaderIsSubscribed DEF Carried, Reaching
    <3>3. Reaching(s)'
          BY <2>2, <2>4, <3>1, <3>2, ReaderIsReached
    <3> QED BY <3>1, <3>3 DEF Reaching
  <2> QED BY <2>2, <2>3, <2>4, <2>5 DEF LiveInv, NewsComes
<1>2. ASSUME NEW w \in Threads, CommitInThread(w) PROVE LiveInv'
  <2>1. /\ version' = version + 1 /\ version < MaxChanges /\ UNCHANGED <<busVars, clientVars>>
        /\ thread' = [thread EXCEPT ![w] = "committed"]
        BY <1>2 DEF CommitInThread
  <2>2. LiveShape' /\ thread'[w] = "committed"
        BY <1>0, <2>1 DEF LiveShape, clientVars
  <2>3. BusInv'
        BY <1>0, <2>1, BusStays
  <2>4. StreamsAreRead'
        BY <2>1 DEF LiveInv, StreamsAreRead, Told, busVars, clientVars
  <2> QED BY <2>2, <2>3, <2>4 DEF LiveInv, NewsComes
<1>3. ASSUME NEW w \in Threads, PublishInThread(w) PROVE LiveInv'
  <2>1. /\ TakeSubscribers(w) /\ UNCHANGED <<version, clientVars>>
        /\ thread' = [thread EXCEPT ![w] = "taken"]
        BY <1>3 DEF PublishInThread
  <2>2. BusInv' /\ (\A s \in Subs : Carried(s)) /\ (\A s \in subscribers : Reaching(s)')
        BY <1>0, <2>1, ThreadTakes
  <2>3. LiveShape' /\ conn' = conn
        BY <1>0, <2>1 DEF LiveShape, clientVars
  <2>4. StreamsAreRead'
    <3>1. \A x \in Clients : \A s \in Subs : conn[x] = s => stream[s] # "free"
          BY DEF LiveInv, StreamsAreRead
    <3> QED BY <2>2, <2>3, <3>1, StreamsStay DEF Carried
  <2>5. ASSUME NEW x \in Clients, conn'[x] # NoStream PROVE Reaching(conn[x])'
    <3>1. PICK s \in Subs : s = conn[x] /\ s = conn'[x] /\ s # NoStream
          BY <2>3, <2>5 DEF LiveShape
    <3>2. ~closed'[s] => Reaching(s)'
      <4>1. stream[s] # "free"
            BY <3>1 DEF LiveInv, StreamsAreRead
      <4> QED BY <1>0, <2>2, <4>1, ReaderIsSubscribed DEF Carried
    <3>3. Reaching(s)'
          BY <2>2, <2>4, <3>1, <3>2, ReaderIsReached
    <3> QED BY <3>1, <3>3 DEF Reaching
  <2> QED BY <2>2, <2>3, <2>4, <2>5 DEF LiveInv, NewsComes
<1>4. ASSUME NEW w \in Threads, ScheduleInThread(w) PROVE LiveInv'
  <2>1. /\ Schedule(w) /\ UNCHANGED <<version, clientVars>> /\ thread[w] = "taken"
        /\ thread' = [thread EXCEPT ![w] = "idle"]
        BY <1>4 DEF ScheduleInThread
  <2>2. BusInv' /\ \A s \in Subs : Carried(s)
        BY <1>0, <2>1, ThreadSchedules
  <2>3. LiveShape' /\ UNCHANGED <<conn, asked, known, version>>
        BY <1>0, <2>1 DEF LiveShape, clientVars
  <2>4. (\E v \in Threads : thread[v] = "committed") => \E v \in Threads : thread'[v] = "committed"
        BY <1>0, <2>1 DEF LiveShape
  <2>5. \A x \in Clients : \A s \in Subs : conn[x] = s => stream[s] # "free"
        BY DEF LiveInv, StreamsAreRead
  <2> QED BY <2>2, <2>3, <2>4, <2>5, LiveMoves DEF Carried
<1> QED BY <1>1, <1>2, <1>3, <1>4 DEF Service

(* The stream of a client is not free.                                        *)
LEMMA ReadersAreOpen == ASSUME LiveInv PROVE \A x \in Clients : \A s \in Subs : conn[x] = s => stream[s] # "free"
BY LiveAssumption DEF LiveInv, StreamsAreRead

(* The loop delivers and writes.                                              *)
LEMMA LoopKeeps == ASSUME LiveInv, Loop PROVE LiveInv'
PROOF
<1>1. UNCHANGED <<version, thread, clientVars>>
      BY DEF Loop
<1>2. BusInv' /\ \A s \in Subs : Carried(s)
      BY ReadyRuns, StreamWrites DEF Loop, LiveInv
<1>3. LiveShape' /\ UNCHANGED <<conn, asked, known, version, thread>>
      BY <1>1 DEF LiveInv, LiveShape, clientVars
<1> QED BY <1>2, <1>3, ReadersAreOpen, LiveMoves DEF Carried

(* The clients, and the server that finds one gone.                              *)
LEMMA ClientOpens == ASSUME LiveInv, NEW x \in Clients, NEW s \in Subs, Open(x, s) PROVE LiveInv'
PROOF
<1> USE LiveAssumption
<1>1. /\ Subscribe(s) /\ conn[x] = NoStream
      /\ conn' = [conn EXCEPT ![x] = s] /\ known' = [known EXCEPT ![x] = version]
      /\ UNCHANGED <<version, thread, connected, asked, view, drops>>
      BY DEF Open
<1>2. BusInv' /\ (\A r \in Subs \ {s} : Carried(r)) /\ stream[s] = "free" /\ stream'[s] = "open" /\ ~closed'[s]
      BY <1>1, SubscriptionBegins DEF LiveInv
<1>3. LiveShape'
      BY <1>1 DEF LiveInv, LiveShape
<1>4. conn'[x] = s /\ known'[x] = version /\ \A y \in Clients \ {x} : conn'[y] = conn[y] /\ known'[y] = known[y]
      BY <1>1 DEF LiveInv, LiveShape
<1>5. \A y \in Clients : conn[y] # s
      BY <1>2, ReadersAreOpen
<1>6. version \in Nat
      BY DEF LiveInv, LiveShape
<1>7. StreamsAreRead'
  <2>1. ASSUME NEW y \in Clients, NEW r \in Subs, conn'[y] = r
        PROVE  stream'[r] # "free" /\ (closed'[r] => Told(r)') /\ \A z \in Clients : conn'[z] = r => z = y
    <3>1. CASE y = x
          BY <1>2, <1>4, <1>5, <2>1, <3>1
    <3>2. CASE y # x
      <4>1. conn[y] = r /\ r # s
            BY <1>4, <1>5, <2>1, <3>2
      <4>2. Carried(r) /\ stream[r] # "free" /\ (closed[r] => Told(r)) /\ \A z \in Clients : conn[z] = r => z = y
            BY <1>2, <4>1 DEF LiveInv, StreamsAreRead
      <4> QED BY <1>4, <4>1, <4>2 DEF Carried
    <3> QED BY <3>1, <3>2
  <2> QED BY <1>3, <2>1 DEF StreamsAreRead, LiveShape, Told
<1>8. NewsComes'
  <2> SUFFICES ASSUME NEW y \in Clients, conn'[y] # NoStream, known'[y] < version' PROVE Coming(y)'
      BY DEF NewsComes, Coming
  <2>1. y # x
        BY <1>1, <1>4, <1>6
  <2>2. PICK r \in Subs : r = conn[y] /\ conn'[y] = r
        BY <1>3, <1>4, <2>1 DEF LiveShape
  <2>3. Coming(y) /\ Carried(r)
        BY <1>1, <1>2, <1>4, <1>5, <2>1, <2>2 DEF LiveInv, NewsComes, Coming
  <2>4. Carried(conn[y])
        BY <2>2, <2>3 DEF Carried, Told, Reaching
  <2> QED BY <1>1, <1>2, <1>7, <2>2, <2>3, <2>4, NewsStays
<1> QED BY <1>2, <1>3, <1>7, <1>8 DEF LiveInv

(* One request more is no more than there may be.                             *)
LEMMA AskedMore ==
  ASSUME LiveShape, NEW x \in Clients, asked[x] < MaxReads, asked' = [asked EXCEPT ![x] = @ + 1]
  PROVE  asked' \in [Clients -> 0..MaxReads]
PROOF
<1>1. asked[x] \in 0..MaxReads
      BY DEF LiveShape
<1>2. asked[x] + 1 \in 0..MaxReads
      BY <1>1, LiveAssumption
<1> QED BY <1>2 DEF LiveShape

(* A client receives its next event; after a resync it leaves.                *)
LEMMA ClientReceives == ASSUME LiveInv, NEW x \in Clients, Receive(x) PROVE LiveInv'
PROOF
<1> USE LiveAssumption
<1>1. PICK s \in Subs : conn[x] = s
      BY DEF Receive, ReceiveHello, ReceiveChange, ReceiveResync, LiveInv, LiveShape
<1>2. \A y \in Clients : conn[y] = s => y = x
      BY <1>1 DEF LiveInv, StreamsAreRead
<1>3. BusInv /\ LiveShape
      BY DEF LiveInv
<1>4. CASE ReceiveHello(x) \/ ReceiveChange(x)
  <2>1. /\ wire[s] # << >> /\ Head(wire[s]) \in {"hello", "change"} /\ Pop(s)
        /\ UNCHANGED <<subscribers, queue, closed, ready, targets, stream, version, thread, conn, view, known, drops>>
        BY <1>1, <1>4 DEF ReceiveHello, ReceiveChange
  <2>2. /\ BusInv' /\ (\A r \in Subs \ {s} : Carried(r))
        /\ (closed[s] => Told(s)) => (closed'[s] => Told(s)')
        /\ Head(wire[s]) = "hello" => Carried(s)
    <3>1. Head(wire[s]) # "resync"
          BY <2>1
    <3> QED BY <1>3, <2>1, <3>1, EventIsReceived
  <2>3. \/ Head(wire[s]) = "hello" /\ asked' = asked /\ connected' = [connected EXCEPT ![x] = TRUE]
        \/ connected' = connected /\ asked[x] < MaxReads /\ asked' = [asked EXCEPT ![x] = @ + 1]
        BY <1>1, <1>4 DEF ReceiveHello, ReceiveChange, ReRead
  <2>4. LiveShape'
    <3>1. asked' \in [Clients -> 0..MaxReads] /\ connected' \in [Clients -> BOOLEAN]
          BY <1>3, <2>3, AskedMore DEF LiveShape
    <3> QED BY <1>3, <2>1, <3>1 DEF LiveShape
  <2>5. asked'[x] > 0 \/ (Carried(s) /\ asked'[x] = asked[x])
        BY <1>3, <2>2, <2>3 DEF LiveShape
  <2>6. \A y \in Clients \ {x} : asked'[y] = asked[y]
        BY <1>3, <2>3 DEF LiveShape
  <2>7. \A y \in Clients : \A r \in Subs : conn[y] = r =>
          /\ stream'[r] # "free" /\ ((closed[r] => Told(r)) => (closed'[r] => Told(r)'))
          /\ asked'[y] > 0 \/ (Carried(r) /\ asked'[y] = asked[y])
    <3> SUFFICES ASSUME NEW y \in Clients, NEW r \in Subs, conn[y] = r
                 PROVE  /\ stream'[r] # "free" /\ ((closed[r] => Told(r)) => (closed'[r] => Told(r)'))
                        /\ asked'[y] > 0 \/ (Carried(r) /\ asked'[y] = asked[y])
        OBVIOUS
    <3>1. stream[r] # "free"
          BY ReadersAreOpen
    <3>2. CASE r = s
      <4>1. y = x
            BY <1>2, <3>2
      <4> QED BY <2>1, <2>2, <2>5, <3>1, <3>2, <4>1
    <3>3. CASE r # s
      <4>1. y # x /\ Carried(r)
            BY <1>1, <2>2, <3>3
      <4> QED BY <2>1, <2>6, <3>1, <4>1 DEF Carried
    <3> QED BY <3>2, <3>3
  <2> QED BY <2>1, <2>2, <2>4, <2>7, LiveMoves
<1>5. CASE ReceiveResync(x)
  <2>1. /\ StreamGone(s) /\ asked[x] < MaxReads /\ asked' = [asked EXCEPT ![x] = @ + 1]
        /\ conn' = [conn EXCEPT ![x] = NoStream] /\ connected' = [connected EXCEPT ![x] = FALSE]
        /\ UNCHANGED <<version, thread, view, known, drops>>
        BY <1>1, <1>5 DEF ReceiveResync, ReRead
  <2>2. BusInv' /\ \A r \in Subs \ {s} : Carried(r)
        BY <1>3, <2>1, SubscriptionGoes
  <2>3. LiveShape'
        BY <1>3, <2>1 DEF LiveShape
  <2>4. conn'[x] = NoStream /\ \A y \in Clients \ {x} : conn'[y] = conn[y] /\ asked'[y] = asked[y]
        BY <1>3, <2>1 DEF LiveShape
  <2>5. \A y \in Clients : \A r \in Subs : conn'[y] = r =>
          /\ stream'[r] # "free" /\ ((closed[r] => Told(r)) => (closed'[r] => Told(r)'))
          /\ Carried(r) /\ asked'[y] = asked[y]
    <3> SUFFICES ASSUME NEW y \in Clients, NEW r \in Subs, conn'[y] = r
                 PROVE  /\ stream'[r] # "free" /\ ((closed[r] => Told(r)) => (closed'[r] => Told(r)'))
                        /\ Carried(r) /\ asked'[y] = asked[y]
        OBVIOUS
    <3>1. y # x /\ conn[y] = r
          BY <2>4
    <3>2. r # s
          BY <1>2, <3>1
    <3>3. stream[r] # "free"
          BY <3>1, ReadersAreOpen
    <3> QED BY <2>2, <2>4, <3>1, <3>2, <3>3 DEF Carried
  <2>6. \A y \in Clients : conn'[y] # NoStream => conn'[y] = conn[y]
        BY <2>4
  <2> QED BY <2>1, <2>2, <2>3, <2>5, <2>6, LiveMoves
<1> QED BY <1>4, <1>5 DEF Receive

(* The server finds a stream that nobody reads.                               *)
LEMMA StreamIsFound == ASSUME LiveInv, NEW s \in Subs, ServerNotices(s) PROVE LiveInv'
PROOF
<1>1. StreamGone(s) /\ UNCHANGED <<version, thread, clientVars>> /\ \A x \in Clients : conn[x] # s
      BY DEF ServerNotices
<1>2. BusInv' /\ \A r \in Subs \ {s} : Carried(r)
      BY <1>1, SubscriptionGoes DEF LiveInv
<1>3. LiveShape' /\ UNCHANGED <<conn, asked, known, version, thread>>
      BY <1>1 DEF LiveInv, LiveShape, clientVars
<1>4. \A x \in Clients : \A r \in Subs : conn[x] = r => Carried(r)
      BY <1>1, <1>2
<1> QED BY <1>2, <1>3, <1>4, ReadersAreOpen, LiveMoves DEF Carried

(* A connection breaks; a client polls; a request is served.                  *)
LEMMA ClientGoesOn ==
  ASSUME LiveInv, NEW x \in Clients, Break(x) \/ Poll(x) \/ Serve(x) PROVE LiveInv'
PROOF
<1> USE LiveAssumption
<1>1. BusInv /\ LiveShape
      BY DEF LiveInv
<1>2. UNCHANGED busVars /\ UNCHANGED <<version, thread>>
      BY DEF Break, Poll, Serve
<1>3. BusInv'
      BY <1>1, <1>2, BusStays
<1>4. LiveShape'
  <2>1. CASE Break(x)
    <3>1. drops' \in 0..MaxDrops
          BY <1>1, <2>1 DEF Break, LiveShape
    <3> QED BY <1>1, <1>2, <2>1, <3>1 DEF Break, LiveShape
  <2>2. CASE Poll(x)
    <3>1. asked' \in [Clients -> 0..MaxReads]
          BY <1>1, <2>2, AskedMore DEF Poll, ReRead
    <3> QED BY <1>1, <1>2, <2>2, <3>1 DEF Poll, LiveShape
  <2>3. CASE Serve(x)
    <3>1. asked[x] \in 0..MaxReads /\ asked[x] > 0
          BY <1>1, <2>3 DEF Serve, LiveShape
    <3>2. asked[x] - 1 \in 0..MaxReads
          BY <3>1
    <3>3. asked' \in [Clients -> 0..MaxReads]
          BY <1>1, <2>3, <3>2 DEF Serve, LiveShape
    <3> QED BY <1>1, <1>2, <2>3, <3>3 DEF Serve, LiveShape
  <2> QED BY <2>1, <2>2, <2>3
<1>5. \A y \in Clients : conn'[y] # NoStream => conn'[y] = conn[y]
      BY <1>1 DEF Break, Poll, Serve, LiveShape
<1>6. \A y \in Clients :
        asked'[y] > 0 \/ known'[y] = version \/ (known'[y] = known[y] /\ asked'[y] = asked[y])
      BY <1>1 DEF Break, Poll, Serve, ReRead, LiveShape
<1>7. \A s \in Subs : Carried(s)
      BY <1>2, CarriedIfSame
<1>8. \A y \in Clients : \A s \in Subs : conn'[y] = s => stream[s] # "free"
      BY <1>5, ReadersAreOpen
<1> QED BY <1>2, <1>3, <1>4, <1>5, <1>6, <1>7, <1>8, LiveMoves DEF Carried

(* Every step of the channel.                                                 *)
LEMMA LiveStep == LiveInv /\ [LiveNext]_liveVars => LiveInv'
PROOF
<1> SUFFICES ASSUME LiveInv, [LiveNext]_liveVars PROVE LiveInv'
    OBVIOUS
<1>1. CASE UNCHANGED liveVars
  <2>1. BusInv'
        BY <1>1, BusStays DEF liveVars, LiveInv
  <2> QED BY <1>1, <2>1 DEF liveVars, busVars, clientVars, LiveInv, LiveShape, StreamsAreRead, NewsComes, Told, Reaching
<1>2. ASSUME NEW x \in Clients, Client(x) PROVE LiveInv'
      BY <1>2, ClientOpens, ClientReceives, ClientGoesOn DEF Client
<1> QED BY <1>1, <1>2, ServiceKeeps, LoopKeeps, StreamIsFound DEF LiveNext

-----------------------------------------------------------------------------
(* The components side by side.                                                  *)

RequestsInv == PagesInv /\ FeedsInv /\ FollowInv /\ LiveInv

(* The step of one component is a step or a stutter of each of them.             *)
LEMMA ComponentsStep ==
  ASSUME [RequestsNext]_requestsVars
  PROVE  [PagesNext]_pageVars /\ [FeedsNext]_feedVars /\ [Next]_vars /\ [LiveNext]_liveVars
BY DEF RequestsNext, requestsVars, FeedsNext

(* The invariants hold at the start and are kept; and each step keeps what is    *)
(* reported true.                                                                *)
LEMMA RequestsStart == RequestsInit => RequestsInv
BY PagesStart, FeedsStart, FollowStart, LiveStart DEF RequestsInit, RequestsInv

(* Every step keeps the invariant, and what it reports is true.               *)
LEMMA RequestsStep ==
  RequestsInv /\ [RequestsNext]_requestsVars => RequestsInv' /\ [LossOK]_catalogVars /\ [NewsOK]_vars
BY ComponentsStep, PagesStep, FeedsStep, FollowSteps, LiveStep DEF RequestsInv

(* So the invariant holds throughout.                                         *)
LEMMA RequestsKeep == RequestsSpec => []RequestsInv
BY RequestsStart, RequestsStep, PTL DEF RequestsSpec

(* Whoever asks for the same page shares one fetch of its link, a reader's is    *)
(* never behind the others, a link is renewed once, and a feed is asked for by   *)
(* one task (reader/service.py, discovery/home.py).                              *)
THEOREM OneRequestServesAll == RequestsSpec => []OneRequestForAll
PROOF
<1>1. RequestsInv => OneRequestForAll
      BY PagesInvImplies, FeedsInvImplies DEF RequestsInv, OneRequestForAll
<1> QED BY <1>1, RequestsKeep, PTL

(* The catalogs kept of a track agree with each other and with what its units    *)
(* say, and every variable has its type (catalog/trust.py).                      *)
THEOREM CatalogsStayWhole == RequestsSpec => []CatalogsAgree
PROOF
<1>1. ASSUME RequestsInv, part \in {"pages", "live", "follow", "home", "discover"} PROVE CatalogsAgree
  <2>1. PagesTypeOK /\ LiveTypeOK /\ TypeOK /\ FeedsTypeOK
        BY <1>1, PagesInvImplies, FeedsInvImplies, FollowInvImplies, LiveInvImplies DEF RequestsInv
  <2>2. RequestsTypeOK
        BY <1>1, <2>1 DEF RequestsTypeOK
  <2>3. OneTrustedCatalog /\ UnitsReflectCatalog
        BY <1>1, FollowInvImplies DEF RequestsInv
  <2> QED BY <2>2, <2>3 DEF CatalogsAgree
<1>2. RequestsSpec => [](part \in {"pages", "live", "follow", "home", "discover"})
  <2>1. RequestsInit => part \in {"pages", "live", "follow", "home", "discover"}
        BY DEF RequestsInit
  <2>2. part \in {"pages", "live", "follow", "home", "discover"} /\ [RequestsNext]_requestsVars
          => (part \in {"pages", "live", "follow", "home", "discover"})'
        BY DEF RequestsNext, requestsVars
  <2> QED BY <2>1, <2>2, PTL DEF RequestsSpec
<1> QED BY <1>1, <1>2, RequestsKeep, PTL

(* A connected app knows that it is behind, or is about to be told: by an event, *)
(* or by the resync that is the last event of a subscription that fell behind    *)
(* (events/bus.py).                                                              *)
THEOREM NobodyIsLeftBehind == RequestsSpec => []NothingIsMissed
PROOF
<1>1. RequestsInv => NothingIsMissed
      BY LiveInvImplies DEF RequestsInv, NothingIsMissed
<1> QED BY <1>1, RequestsKeep, PTL

(* A catalog that lost much of what was trusted is trusted only when a second    *)
(* complete answer agrees or the user says so, and only what is in the trusted   *)
(* catalog of the followed track, and was not in it when the follow began, is    *)
(* reported (catalog/trust.py, follow/runner.py).                                *)
THEOREM OnlyTruthIsReported == RequestsSpec => ReportsAreTrue
PROOF
<1>1. RequestsSpec => [][LossOK]_catalogVars /\ [][NewsOK]_vars
      BY RequestsKeep, RequestsStep, PTL DEF RequestsSpec
<1> QED BY <1>1 DEF ReportsAreTrue, LossIsConfirmed, OnlyNewsIsReported, LossOK, NewsOK
=============================================================================
