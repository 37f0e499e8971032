----------------------------- MODULE BlockTree -----------------------------
(***************************************************************************)
(* The tree of blocks that exist in the network, as far as package          *)
(* blockchain tells them apart: who extends whom, how much work each adds,  *)
(* what each spends and creates, and which rules each one violates.         *)
(* Everything here is constant: a block never changes.  What a node knows   *)
(* of the tree is the state of BlockChain.                                  *)
(***************************************************************************)
EXTENDS Ancestry, FiniteSets

CONSTANTS
  Work,         \* CalcWork(header.Bits): what the block adds to workSum
  Outpoints,    \* the transaction outputs the blocks deal with
  Spends,       \* the outpoints of earlier blocks that the block spends
  Creates,      \* the outpoints the block leaves unspent when connected
  Insane,       \* the blocks that fail a check which needs no context
  OldVersion,   \* the blocks whose version is outdated at their height
  OutOfContext, \* the blocks that fail another check against their ancestors
  Predating,    \* the blocks with a timestamp before the known checkpoint's
  TooEasy,      \* the blocks with too little work since the known checkpoint
  BadConnect,   \* the blocks that fail a check of checkConnectBlock other than missing inputs
  Checkpoints   \* the checkpoint blocks, the lowest first

----------------------------------------------------------------------------

\* newBlockNode/initBlockNode: the workSum is that of the parent plus the block's
\* own work.
WorkSum[b \in Blocks] ==
  IF b = Genesis THEN Work[b] ELSE WorkSum[Parent[b]] + Work[b]

\* The last block of a set of nodes that lie on one branch, and the first: the
\* lists of reorganizeChain are walked from the tip down and from the fork up.
\* Faulty variant of Last: the blocks are undone from the fork up.
LastIsFirst(n, S) == n \in S /\ \A m \in S : Height[n] <= Height[m]
Last(n, S) == n \in S /\ \A m \in S : Height[m] <= Height[n]
First(n, S) == n \in S /\ \A m \in S : Height[n] <= Height[m]

----------------------------------------------------------------------------

\* A utxo entry is the outpoint with the height of the block that created it,
\* the one detail of an entry that differs between two branches.
Entries == Outpoints \X Nat
Ops(u) == {e[1] : e \in u}

\* The stxos a block leaves in the spend journal: the entries it spends.
SpentTxOuts(u, b) == {e \in u : e[1] \in Spends[b]}

\* view.connectTransactions: spend the inputs, add the outputs at this height.
ConnectTransactions(u, b) ==
  {e \in u : e[1] \notin Spends[b] \cup Creates[b]} \cup (Creates[b] \X {Height[b]})

\* Faulty variant of DisconnectTransactions: spent entries are not restored.
DisconnectWithoutStxos(u, b, stxos) == {e \in u : e[1] \notin Creates[b]}

\* view.disconnectTransactions: remove the outputs, restore the spent entries.
DisconnectTransactions(u, b, stxos) ==
  {e \in u : e[1] \notin Creates[b]} \cup stxos

\* The utxo set of the chain that ends in b, by its definition.  The coinbase
\* of the genesis block is not part of it.
UtxoAfter[b \in Blocks] ==
  IF b = Genesis THEN {} ELSE ConnectTransactions(UtxoAfter[Parent[b]], b)

\* checkBlockSanity; checkBlockContext without its checkpoint part, most of
\* which BFFastAdd skips; checkConnectBlock on the view of the parent.
CheckBlockSanity(b) == b \notin Insane
ContextOK(b, fastAdd) == b \notin OldVersion /\ (fastAdd \/ b \notin OutOfContext)
InputsExist(b, u) == Spends[b] \subseteq Ops(u)
CheckConnectBlock(b, u) == InputsExist(b, u) /\ b \notin BadConnect

\* A block that is valid, and whose ancestors all are.
GoodChain(b) ==
  \A a \in Anc[b] \ {Genesis} : CheckConnectBlock(a, UtxoAfter[Parent[a]])

----------------------------------------------------------------------------

\* Faulty variant of VerifyCheckpoint: checkpoints are not enforced.
VerifyNoCheckpoint(b) == TRUE

\* verifyCheckpoint: at the height of a checkpoint only the checkpoint passes.
VerifyCheckpoint(b) ==
  \A i \in DOMAIN Checkpoints :
    Height[Checkpoints[i]] = Height[b] => Checkpoints[i] = b

\* Header.PrevBlock names a parent for every block but the genesis block.
ASSUME ParentAssumption ==
  /\ Genesis \in Blocks
  /\ Parent \in [Blocks \ {Genesis} -> Blocks]
  /\ Work \in [Blocks -> Nat \ {0}]

\* The parent links of a block tree are well founded, so that the recursive
\* functions above satisfy their equations on every block.
ASSUME TreeAssumption ==
  /\ Anc[Genesis] = {Genesis}
  /\ Height[Genesis] = 0
  /\ UtxoAfter[Genesis] = {}
  /\ \A b \in Blocks :
       /\ Genesis \in Anc[b] /\ Anc[b] \subseteq Blocks
       /\ Height[b] \in Nat /\ WorkSum[b] \in Nat
       /\ \A a \in Anc[b] : Anc[a] \subseteq Anc[b] /\ (a # b => Height[a] < Height[b])
  /\ \A b \in Blocks \ {Genesis} :
       /\ b \notin Anc[Parent[b]]
       /\ Anc[b] = Anc[Parent[b]] \cup {b}
       /\ Height[b] = Height[Parent[b]] + 1
       /\ WorkSum[b] = WorkSum[Parent[b]] + Work[b]
       /\ UtxoAfter[b] = ConnectTransactions(UtxoAfter[Parent[b]], b)

\* No block creates an outpoint that is already unspent in its parent's utxo
\* set: checkBIP0030 enforces it for early blocks, and BIP0034 makes the
\* transactions of later blocks unique.
ASSUME NoOverwriteAssumption ==
  /\ Spends \in [Blocks -> SUBSET Outpoints]
  /\ Creates \in [Blocks -> SUBSET Outpoints]
  /\ \A b \in Blocks \ {Genesis} : Creates[b] \cap Ops(UtxoAfter[Parent[b]]) = {}
=============================================================================
