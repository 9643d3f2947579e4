--------------------------- MODULE MCCommitJournal ---------------------------
(* Instances of CommitJournal for TLC.                                     *)
EXTENDS CommitJournal, TLC

CONSTANTS c1, c2, a1, a2, s1, p1, p2, x1, x2

(* Every area works for the one slot, whose file may be at either path.    *)
MCSlotOf == [a \in Areas |-> s1]
MCPlaces == [s \in Slots |-> Paths]

Symmetry == Permutations(Artifacts) \cup Permutations(Paths)
            \cup Permutations(Areas) \cup Permutations(Commits)

=============================================================================
