--------------------------- MODULE MCDownloadEngine ---------------------------
(* Instances of DownloadEngine for TLC.                                    *)
EXTENDS DownloadEngine, TLC

CONSTANTS j1, j2, u1, u2, b1, b2, k1, k2, k3, m1, m2

OneUnit    == [j \in Jobs |-> u1]
OwnUnit    == (j1 :> u1) @@ [j \in Jobs |-> u2]
OneBatch   == [j \in Jobs |-> b1]
OwnBatch   == (j1 :> b1) @@ [j \in Jobs |-> b2]
PagesFile  == (j1 :> "pages") @@ [j \in Jobs |-> "file"]
Text       == [j \in Jobs |-> "text"]
Automatic  == (j1 :> "automatic") @@ [j \in Jobs |-> "preferred_ask"]
Strict     == [j \in Jobs |-> "strict"]
Fallbacks  == <<m1, m2>>
NoFallback == << >>

CallSymmetry == Permutations(Calls)

=============================================================================
