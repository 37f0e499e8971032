------------------------------ MODULE Ancestry ------------------------------
(***************************************************************************)
(* Blocks and the links between them: blockNode.parent, and what follows     *)
(* from it.                                                                  *)
(***************************************************************************)
EXTENDS Integers, Sequences

CONSTANTS
  Blocks,       \* the blocks of the instance, the genesis block included
  Genesis,      \* chaincfg.Params.GenesisBlock
  Parent        \* Header.PrevBlock of every block but the genesis block

\* newBlockNode/initBlockNode: the height is that of the parent plus one; a node
\* reaches its ancestors through the parent links.
Height[b \in Blocks] == IF b = Genesis THEN 0 ELSE Height[Parent[b]] + 1

Anc[b \in Blocks] == IF b = Genesis THEN {b} ELSE Anc[Parent[b]] \cup {b}

\* The chain that ends in b, the genesis block first: chainView.nodes.
Path[b \in Blocks] == IF b = Genesis THEN <<b>> ELSE Append(Path[Parent[b]], b)
=============================================================================
