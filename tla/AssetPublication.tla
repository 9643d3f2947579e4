--------------------------- MODULE AssetPublication ---------------------------
(***************************************************************************)
(* What a commit promises, without its journal: a call either publishes    *)
(* its artifact as the asset of its slot, once and in one step, or leaves  *)
(* the slot's row alone; and a call that reported success has published.   *)
(* CommitJournal implements this module.                                   *)
(***************************************************************************)
CONSTANTS Commits, Slots, Paths, Contents, None

VARIABLES
  assets,   (* the asset row of each slot                                  *)
  promise,  (* the slot and the row a call is about to publish, or None    *)
  phase     (* "new", "open", "published", "closed" or "refused"           *)

vars == <<assets, promise, phase>>

Rows     == [path : Paths, content : Contents]
Promises == [slot : Slots, row : Rows]

Init ==
  /\ assets \in [Slots -> {None} \cup Rows]
  /\ promise = [c \in Commits |-> None]
  /\ phase = [c \in Commits |-> "new"]

(* A call is accepted: from here on it survives crashes.                   *)
Accept(c) ==
  /\ phase[c] = "new"
  /\ promise' \in [Commits -> Promises \cup {None}]
  /\ promise'[c] # None
  /\ \A d \in Commits \ {c} : promise'[d] = promise[d]
  /\ phase' = [phase EXCEPT ![c] = "open"]
  /\ UNCHANGED assets

(* The one step that changes what a row stands for, and only that row.     *)
Publish(c) ==
  /\ phase[c] = "open"
  /\ assets' = [assets EXCEPT ![promise[c].slot] = promise[c].row]
  /\ phase' = [phase EXCEPT ![c] = "published"]
  /\ UNCHANGED promise

Refuse(c) ==
  /\ phase[c] = "open"
  /\ phase' = [phase EXCEPT ![c] = "refused"]
  /\ UNCHANGED <<assets, promise>>

Conclude(c) ==
  /\ phase[c] = "published"
  /\ phase' = [phase EXCEPT ![c] = "closed"]
  /\ UNCHANGED <<assets, promise>>

(* A row's file was found elsewhere, or is looked for at an earlier place. *)
Relocate(s, p) ==
  /\ assets[s] # None
  /\ assets' = [assets EXCEPT ![s] = [path |-> p, content |-> assets[s].content]]
  /\ UNCHANGED <<promise, phase>>

Next ==
  \/ \E c \in Commits : Accept(c) \/ Publish(c) \/ Refuse(c) \/ Conclude(c)
  \/ \E s \in Slots, p \in Paths : Relocate(s, p)

Spec == Init /\ [][Next]_vars

=============================================================================
