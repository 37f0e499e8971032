---------------------------- MODULE MCBlockChain ----------------------------
(* Instances of BlockChain for TLC. *)
EXTENDS BlockChain, TLC

\* A main chain of two blocks, a heavier branch that creates the same output
\* at another height, and an invalid block with a child on that branch.
ForkBlocks == {"g", "a1", "a2", "b1", "b2", "b3", "x3", "x4"}
ForkParent == [a1 |-> "g", a2 |-> "a1", b1 |-> "g", b2 |-> "b1", b3 |-> "b2",
               x3 |-> "b2", x4 |-> "x3"]
ForkWork == [b \in ForkBlocks |-> 1]
ForkOutpoints == {"p", "q"}
ForkSpends == [b \in ForkBlocks |-> CASE b = "a2" -> {"p"} [] b = "b3" -> {"p"}
                                      [] b = "x3" -> {"q"} [] OTHER -> {}]
ForkCreates == [b \in ForkBlocks |-> CASE b = "a1" -> {"p"} [] b = "b2" -> {"p"}
                                       [] b = "a2" -> {"q"} [] OTHER -> {}]

\* Checkpoints at heights 1 and 2, with the blocks up to them added fast, and a
\* branch that forks below them.  Above them a heavy block against a longer but
\* lighter branch, an invalid block with two branches of children that are the
\* heaviest of all, and a block for every check that refuses one.
RuleBlocks == {"g", "a1", "a2", "a3", "a4", "c3", "x3", "y4", "z4", "z5", "s1", "s2",
               "easy", "old", "insane", "late"}
RuleParent == [a1 |-> "g", a2 |-> "a1", a3 |-> "a2", a4 |-> "a3", c3 |-> "a2", x3 |-> "a2",
               y4 |-> "x3", z4 |-> "x3", z5 |-> "z4", s1 |-> "g", s2 |-> "s1",
               easy |-> "a2", old |-> "a2", insane |-> "a2", late |-> "a2"]
RuleWork == [b \in RuleBlocks |-> CASE b = "c3" -> 3 [] b \in {"y4", "z5"} -> 9 [] b = "s1" -> 2
                                   [] OTHER -> 1]
RuleCheckpoints == <<"a1", "a2">>
NoCheckpoints == <<>>
Nothing == [b \in Blocks |-> {}]
=============================================================================
