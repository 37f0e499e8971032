--------------------------- MODULE MCSyncManager ---------------------------
(* Instances of SyncManager. *)
EXTENDS SyncManager, TLC

CONSTANTS p, q

\* Checkpoints at one and three; p is past them, and q is on a branch that misses
\* the second one.  Both chains grow.
Fork == {"g", "b1", "b2", "b3", "b4", "b5", "x2", "x3"}
ForkParent == [b1 |-> "g", b2 |-> "b1", b3 |-> "b2", b4 |-> "b3", b5 |-> "b4",
               x2 |-> "b1", x3 |-> "x2"]
ForkStart == [r \in Peers |-> IF r = q THEN "x2" ELSE "b3"]
ForkEnd == [r \in Peers |-> IF r = q THEN "x3" ELSE "b5"]

\* One checkpoint; p's chain grows by a block, q stays on its branch.
Short == {"g", "b1", "b2", "b3", "x2"}
ShortParent == [b1 |-> "g", b2 |-> "b1", b3 |-> "b2", x2 |-> "b1"]
ShortStart == [r \in Peers |-> IF r = q THEN "x2" ELSE "b2"]
ShortEnd == [r \in Peers |-> IF r = q THEN "x2" ELSE "b3"]

\* One chain that both peers follow.
Chain == {"g", "b1", "b2", "b3"}
ChainParent == [b1 |-> "g", b2 |-> "b1", b3 |-> "b2"]
ChainStart == [r \in Peers |-> "b2"]
ChainEnd == [r \in Peers |-> "b3"]
=============================================================================
