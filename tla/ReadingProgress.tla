---------------------------- MODULE ReadingProgress ----------------------------
(* How far a unit is read: tabs write it with the revision they know             *)
(* (reader/service.py, frontend useProgress.ts), the user marks it, and a backup *)
(* or the classification repair joins two records of it.                         *)
EXTENDS Naturals, FiniteSets

CONSTANTS
  Tabs,           \* open readers of the unit
  NoRecord,
  Far,            \* bound: positions; the last is "read", 0 is "unread"
  MaxPositions,   \* bound: positions a tab records
  MaxRevision,    \* bound: writes
  MaxReplaces     \* bound: restores in Replace mode

ASSUME ProgressAssumption ==
  /\ Far \in Nat \ {0} /\ MaxPositions \in Nat /\ MaxRevision \in Nat /\ MaxReplaces \in Nat
  /\ NoRecord \notin [far : Nat, revision : Nat] /\ NoRecord \notin [far : Nat, seq : Nat]
  /\ NoRecord \notin [kind : {"ok", "stale", "lost"}, revision : Nat, current : BOOLEAN]

VARIABLES
  row,        \* reading_state of the unit: [far, revision], NoRecord when there is none
  twin,       \* the same for its twin under the und track, which the repair removes
  kept,       \* the row of the backup
  tabs,       \* progressSession(): [loaded, rereading, revision, pending, sent, current, seq, refused]
  post,       \* the answer to a tab's request: NoRecord or [kind, revision, current]
  written,    \* the number of the tab's latest position the server has written
  replaces

progressVars == <<row, twin, kept, tabs, post, written, replaces>>

Rows == [far : 0..Far, revision : 1..MaxRevision]
Positions == [far : 1..Far, seq : 1..MaxPositions]
Response(kind, revision, isCurrent) == [kind |-> kind, revision |-> revision, current |-> isCurrent]
Lost == Response("lost", 0, FALSE)

(* seq counts the positions a tab has recorded; refused is the last of them when *)
(* it last heard that another had written.                                       *)
Unopened == [loaded |-> FALSE, rereading |-> FALSE, revision |-> 0, pending |-> NoRecord, sent |-> NoRecord,
             current |-> FALSE, seq |-> 0, refused |-> 0]

Revision(r) == IF r = NoRecord THEN 0 ELSE r.revision
FarOf(r) == IF r = NoRecord THEN 0 ELSE r.far

ProgressInit ==
  /\ row = NoRecord /\ twin \in {NoRecord} \cup [far : 1..Far, revision : {1}] /\ kept = NoRecord
  /\ tabs = [t \in Tabs |-> Unopened] /\ post = [t \in Tabs |-> NoRecord]
  /\ written = [t \in Tabs |-> 0] /\ replaces = 0

ProgressTypeOK ==
  /\ row \in {NoRecord} \cup Rows /\ kept \in {NoRecord} \cup Rows
  /\ \A t \in Tabs :
       /\ tabs[t].pending \in {NoRecord} \cup Positions /\ tabs[t].sent \in {NoRecord} \cup Positions
       /\ (post[t] # NoRecord) => tabs[t].sent # NoRecord
       /\ tabs[t].rereading => (~tabs[t].loaded /\ tabs[t].sent # NoRecord)
       /\ written[t] <= tabs[t].seq /\ tabs[t].revision \in 0..MaxRevision

(* current, of a tab or an answer: its revision was read from the row as it is   *)
(* now. Nobody holds it after a change but the answer to the change itself.      *)
Outdated == [t \in Tabs |-> [tabs[t] EXCEPT !.current = FALSE]]
OutdatedPosts == [t \in Tabs |-> IF post[t] = NoRecord THEN NoRecord ELSE [post[t] EXCEPT !.current = FALSE]]

-----------------------------------------------------------------------------
(* A tab.                                                                        *)

(* load(): the revision is read before anything is written.                      *)
Load(t) ==
  /\ ~tabs[t].loaded /\ ~tabs[t].rereading
  /\ tabs' = [tabs EXCEPT ![t].loaded = TRUE, ![t].revision = Revision(row), ![t].current = TRUE]
  /\ UNCHANGED <<row, twin, kept, post, written, replaces>>

Record(t) ==
  /\ tabs[t].seq < MaxPositions
  /\ \E far \in 1..Far :
       tabs' = [tabs EXCEPT ![t].pending = [far |-> far, seq |-> tabs[t].seq + 1], ![t].seq = @ + 1]
  /\ UNCHANGED <<row, twin, kept, post, written, replaces>>

(* send(), when a position is due: one write at a time.                          *)
MaySend(t) == tabs[t].loaded /\ tabs[t].pending # NoRecord /\ tabs[t].sent = NoRecord

Send(t) ==
  /\ MaySend(t)
  /\ tabs' = [tabs EXCEPT ![t].sent = tabs[t].pending, ![t].pending = NoRecord]
  /\ UNCHANGED <<row, twin, kept, post, written, replaces>>

(* The answer: the new revision; or another tab wrote, and the revision is read  *)
(* again; or an error, and the position is kept for a later flush.               *)
Receive(t) ==
  /\ post[t] # NoRecord /\ post' = [post EXCEPT ![t] = NoRecord]
  /\ tabs' = [tabs EXCEPT ![t] =
       CASE post[t].kind = "ok" -> [@ EXCEPT !.revision = post[t].revision, !.current = post[t].current, !.sent = NoRecord]
         [] post[t].kind = "stale" -> [@ EXCEPT !.loaded = FALSE, !.rereading = TRUE, !.refused = tabs[t].seq]
         [] OTHER -> [@ EXCEPT !.pending = IF tabs[t].pending = NoRecord THEN tabs[t].sent ELSE tabs[t].pending,
                          !.sent = NoRecord]]
  /\ UNCHANGED <<row, twin, kept, written, replaces>>

ReplaysRefused(t) == IF tabs[t].pending = NoRecord THEN tabs[t].sent ELSE tabs[t].pending      \* mutant: the position is tried again
(* "Never replay a position recorded against the superseded revision."           *)
AfterRefusal(t) == NoRecord

(* The revision is there, or the request failed and the next flush loads it.     *)
Reread(t) ==
  /\ tabs[t].rereading
  /\ \E answered \in BOOLEAN :
       tabs' = [tabs EXCEPT ![t] =
         [@ EXCEPT !.rereading = FALSE, !.pending = AfterRefusal(t), !.sent = NoRecord, !.loaded = answered,
                   !.revision = IF answered THEN Revision(row) ELSE tabs[t].revision, !.current = answered]]
  /\ UNCHANGED <<row, twin, kept, post, written, replaces>>

-----------------------------------------------------------------------------
(* The server.                                                                   *)

NextRevision == Revision(row) + 1
Asked(t) == tabs[t].sent # NoRecord /\ ~tabs[t].rereading /\ post[t] = NoRecord
Writes(r) == row' = r /\ r.revision <= MaxRevision

AcceptsNewer(t) == tabs[t].revision <= Revision(row)      \* mutant: only a revision from the future is refused
IsCurrent(t) == tabs[t].revision = Revision(row)

(* _write(): the revision is compared, and the answer may be lost on its way.    *)
Accept(t) ==
  /\ Asked(t) /\ IsCurrent(t)
  /\ Writes([far |-> tabs[t].sent.far, revision |-> NextRevision])
  /\ written' = [written EXCEPT ![t] = tabs[t].sent.seq]
  /\ tabs' = Outdated
  /\ \E answer \in {Response("ok", NextRevision, TRUE), Lost} : post' = [OutdatedPosts EXCEPT ![t] = answer]
  /\ UNCHANGED <<twin, kept, replaces>>

Refuse(t) ==
  /\ Asked(t) /\ ~IsCurrent(t)
  /\ post' = [post EXCEPT ![t] = Response("stale", 0, FALSE)]
  /\ UNCHANGED <<row, twin, kept, tabs, written, replaces>>

Lose(t) ==
  /\ Asked(t) /\ post' = [post EXCEPT ![t] = Lost]
  /\ UNCHANGED <<row, twin, kept, tabs, written, replaces>>

Changed == tabs' = Outdated /\ post' = OutdatedPosts

(* mark_read() and mark_unread(), without a revision.                            *)
Mark ==
  /\ \E far \in {0, Far} : Writes([far |-> far, revision |-> NextRevision])
  /\ Changed /\ UNCHANGED <<twin, kept, written, replaces>>

IsAhead(r, s) == r # NoRecord      \* mutant: the other record always wins
MoreAdvanced(r, s) == FarOf(r) > FarOf(s)

(* What joining another record makes of a row: the one that is further, as a new *)
(* write; the other's own when there is none.                                    *)
Joined(other) == IF row = NoRecord THEN other ELSE [far |-> other.far, revision |-> NextRevision]
Joins(other) ==
  IF other # NoRecord /\ (row = NoRecord \/ MoreAdvanced(other, row))
    THEN Writes(Joined(other)) /\ Changed
    ELSE UNCHANGED <<row, tabs, post>>

(* _merge_unit() of the repair: the twin's record goes.                          *)
JoinTwin == twin # NoRecord /\ Joins(twin) /\ twin' = NoRecord /\ UNCHANGED <<kept, written, replaces>>

BackUpProgress == kept = NoRecord /\ row # NoRecord /\ kept' = row /\ UNCHANGED <<row, twin, tabs, post, written, replaces>>

(* _merge_progress(), and _replace().                                            *)
MergeKept == kept # NoRecord /\ Joins(kept) /\ UNCHANGED <<twin, kept, written, replaces>>
ReplaceByKept ==
  /\ kept # NoRecord /\ replaces < MaxReplaces /\ replaces' = replaces + 1
  /\ row' = kept /\ Changed /\ UNCHANGED <<twin, kept, written>>

ProgressNext ==
  \/ \E t \in Tabs : Load(t) \/ Record(t) \/ Send(t) \/ Receive(t) \/ Reread(t) \/ Accept(t) \/ Refuse(t) \/ Lose(t)
  \/ Mark \/ JoinTwin \/ BackUpProgress \/ MergeKept \/ ReplaceByKept

ProgressSpec == ProgressInit /\ [][ProgressNext]_progressVars

-----------------------------------------------------------------------------
(* Properties.                                                                   *)

(* "Progress with a monotonic revision (stale tabs cannot rewind it)"            *)
(* (docs/api.md:72): what a tab writes it writes over the record it last saw. A  *)
(* restore in Replace mode brings back an earlier revision: from then on a tab   *)
(* that knows a later one may meet its number again.                             *)
StaleTabsCannotRewind ==
  [][\A t \in Tabs : written'[t] # written[t] /\ replaces = 0 => tabs[t].current]_progressVars

(* A backup merged back, and a twin joined, never take reading progress back     *)
(* (docs/operations.md:108, reclassify.py:8), and the revision only grows, so    *)
(* that every open tab notices.                                                  *)
JoiningOnlyAdvances ==
  [][(JoinTwin \/ MergeKept) => /\ FarOf(row') >= FarOf(row)
                                /\ (row' # row => Revision(row') > Revision(row))]_progressVars

(* A tab's positions are written in the order they were recorded, however its    *)
(* answers are lost or late; and once it was refused it never writes a position  *)
(* recorded before it knew (useProgress.ts:35).                                  *)
NothingIsReplayed ==
  [][\A t \in Tabs : written'[t] # written[t] => written'[t] > written[t] /\ written'[t] > tabs[t].refused]_progressVars
=============================================================================
