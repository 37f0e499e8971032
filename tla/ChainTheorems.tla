---------------------------- MODULE ChainTheorems ----------------------------
(***************************************************************************)
(* For every block tree: the verdicts in the block index are right and stay, *)
(* a checkpoint that findPreviousCheckpoint has locked in stays on the best  *)
(* chain, the states that the code asserts to be impossible are, and the     *)
(* best chain is the valid one with the most work.  The steps are in         *)
(* VerdictProofs and BestChainProofs.                                        *)
(***************************************************************************)
EXTENDS VerdictProofs, BestChainProofs, ListProofs

\* What the steps were proved from.
LEMMA ListFactsHold == ListFacts
<1>1. \A T : (\A x \in T : x \in Nat) /\ T # {} => \E x \in T : \A y \in T : x <= y
  BY Zenon, LeastNat
<1>2. \A S : \A s \in Seq(S) : \A I \in SUBSET (DOMAIN s) :
        /\ Kept(s, I) \in Seq(S)
        /\ \A k \in DOMAIN Kept(s, I) : \E i \in I : Kept(s, I)[k] = s[i]
  BY Zenon, KeptEntries
<1>3. QED
  BY Zenon, <1>1, <1>2 DEF ListFacts

\* For every block tree the invariant of the verdicts holds at all times.
THEOREM VerdictInvariant == Spec => []VerdictInv
<1>1. Init => VerdictInv
  BY InitVerdicts
<1>2. StorageInv /\ VerdictInv /\ [Next]_vars => VerdictInv'
  BY VerdictStep, ListFactsHold
<1>3. QED
  BY <1>1, <1>2, StorageInvariant, PTL DEF Spec

\* The verdicts in the index, in memory and on the disk, are right: a block was
\* found invalid on the utxo set of its own parent, whatever branch was the best
\* one at the time, and a valid one has a chain of valid blocks behind it or a
\* block that was added fast.
THEOREM VerdictsCorrect == Spec => []VerdictsSound
<1>1. StorageInv /\ VerdictInv => VerdictsSound
  <2> SUFFICES ASSUME StorageInv, VerdictInv, NEW b \in Blocks \ {Genesis},
                      NEW st \in {status[b], dbStatus[b]}
               PROVE  /\ "failed" \in st => ~CheckConnectBlock(b, UtxoAfter[Parent[b]])
                      /\ "badAncestor" \in st => \E a \in Anc[b] \ {b} : "failed" \in status[a] \cup dbStatus[a]
                      /\ "valid" \in st => GoodChain(b) \/ Anc[b] \cap FastBlocks # {}
                      /\ "valid" \in st => st \cap {"failed", "badAncestor"} = {}
    BY ZenonT(40) DEF VerdictsSound
  <2>1. CASE st = dbStatus[b]
    BY ZenonT(40), <2>1 DEF VerdictInv, Verdicts, Checked, FastChain, Bad
  <2>2. CASE st = status[b] /\ Up
    BY ZenonT(40), <2>2 DEF VerdictInv, Verdicts, Checked, FastChain, Bad
  <2>3. CASE st = status[b] /\ ~Up
    BY ZenonT(40), <2>3 DEF VerdictInv, OrphanInv, StorageInv, IndexInv, Up
  <2>4. QED
    BY ZenonT(40), <2>1, <2>2, <2>3
<1>2. QED
  BY <1>1, VerdictInvariant, StorageInvariant, PTL

\* A verdict that reached the disk is never lost again.
THEOREM VerdictsNeverLost == Spec => VerdictsKept
<1>1. StorageInv /\ VerdictInv /\ [Next]_vars => [\A b \in Blocks : dbStatus[b] \subseteq dbStatus'[b]]_vars
  BY VerdictStep, ListFactsHold DEF FlagsKept
<1>2. QED
  BY <1>1, VerdictInvariant, StorageInvariant, PTL DEF Spec, VerdictsKept

\* For every block tree the cached checkpoint is on the best chain, the inputs
\* of the valid blocks exist, and the best chain is the best until a call finds
\* out about its block.
THEOREM BestInvariant == Spec => []BestInv
<1>1. Init => BestInv
  BY InitBest
<1>2. StorageInv /\ VerdictInv /\ BestInv /\ [Next]_vars => BestInv'
  BY BestStep, ListFactsHold
<1>3. QED
  BY <1>1, <1>2, StorageInvariant, VerdictInvariant, PTL DEF Spec

\* Between two calls of ProcessBlock, when no transaction failed, no chain of
\* valid blocks in the index has more work than the best chain, however the
\* blocks arrived: in order, as orphans, on side chains, after failed
\* reorganizations.
THEOREM BestChainBest == Spec => []BestHasMostWork
<1>1. BestInv => BestHasMostWork
  BY DEF BestInv, WorkInv, NoneBetter, BestHasMostWork
<1>2. QED
  BY <1>1, BestInvariant, PTL

\* The checkpoint that findPreviousCheckpoint has cached, and those below it,
\* stay on the best chain.
THEOREM CheckpointsFinal == Spec => CheckpointFinal
<1>1. StorageInv /\ VerdictInv /\ BestInv /\ [Next]_vars =>
        [checkpoint.node # None =>
           \A i \in DOMAIN Checkpoints :
             /\ Height[Checkpoints[i]] <= Height[checkpoint.node]
             /\ Checkpoints[i] \in Anc[dbBest]
             => Checkpoints[i] \in Anc[dbBest']]_vars
  BY ZenonT(40), FinalStep, ListFactsHold
<1>2. QED
  BY <1>1, StorageInvariant, VerdictInvariant, BestInvariant, PTL DEF Spec, CheckpointFinal

\* An AssertError is returned only by connectBestChain, for a block that is
\* added fast and spends outputs that do not exist.
THEOREM AssertsFastOnly == Spec => AssertOnlyFast
<1>1. StorageInv /\ VerdictInv /\ BestInv /\ [Next]_vars =>
        [asserted' # asserted =>
           pc = "connect" /\ fastAdd /\ Anc[cur] \cap FastBlocks # {} /\ ~Spendable(cur)]_vars
  BY BestStep, ListFactsHold DEF Asserts
<1>2. QED
  BY <1>1, StorageInvariant, VerdictInvariant, BestInvariant, PTL DEF Spec, AssertOnlyFast

\* So the code never returns an AssertError if the blocks that are added fast,
\* and their descendants, spend what exists: they come from the checkpointed
\* part of the chain.
THEOREM NeverAsserts ==
  ASSUME \A b \in Blocks \ {Genesis} : Anc[b] \cap FastBlocks # {} => Spendable(b)
  PROVE  Spec => []NoAssertError
<1>1. Init => NoAssertError
  BY DEF Init, NoAssertError
<1>2. StorageInv /\ VerdictInv /\ BestInv /\ NoAssertError /\ [Next]_vars => NoAssertError'
  <2> SUFFICES ASSUME StorageInv, VerdictInv, BestInv, NoAssertError, [Next]_vars
               PROVE  NoAssertError'
    OBVIOUS
  <2>1. pc = "connect" => cur \in Blocks \ {Genesis}
    BY ZenonT(40) DEF StorageInv, ChainTypeOK, CallInv
  <2>2. asserted' = asserted
    BY <2>1, BestStep, ListFactsHold DEF Asserts
  <2>3. QED
    BY <2>2 DEF NoAssertError
<1>3. QED
  BY <1>1, <1>2, StorageInvariant, VerdictInvariant, BestInvariant, PTL DEF Spec
=============================================================================
