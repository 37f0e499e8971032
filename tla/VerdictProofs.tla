---------------------------- MODULE VerdictProofs ----------------------------
(***************************************************************************)
(* The verdicts in the block index, for every block tree: facts about flags  *)
(* and lists of orphans, and the steps of ProcessBlock, of a failure and of  *)
(* a restart, each of which preserves VerdictInv of BlockChainProofs.        *)
(* ChainTheorems has the theorems.                                           *)
(***************************************************************************)
EXTENDS BlockChainProofs

----------------------------------------------------------------------------
(* The flags. *)

\* A block that passes its checks on a checked parent is checked.
LEMMA CheckedChild ==
  ASSUME NEW b \in Blocks \ {Genesis}, Parent[b] # Genesis => Checked(Parent[b])
  PROVE  /\ CheckConnectBlock(b, UtxoAfter[Parent[b]]) => Checked(b)
         /\ FastChain(Parent[b]) => FastChain(b)
<1>1. Anc[b] = Anc[Parent[b]] \cup {b}
  BY AncFacts
<1>2. FastChain(Parent[b]) => FastChain(b)
  BY <1>1 DEF FastChain
<1>3. ASSUME CheckConnectBlock(b, UtxoAfter[Parent[b]]), ~FastChain(Parent[b])
      PROVE  GoodChain(b)
  <2>1. GoodChain(Parent[b])
    <3>1. CASE Parent[b] = Genesis
      BY <3>1, AncFacts DEF GoodChain
    <3>2. CASE Parent[b] # Genesis
      BY <1>3, <3>2 DEF Checked
    <3>3. QED
      BY <3>1, <3>2
  <2>2. QED
    BY <1>1, <1>3, <2>1 DEF GoodChain
<1>4. QED
  BY <1>2, <1>3 DEF Checked

\* The flag of a node that was found valid on valid ancestors.
LEMMA ValidFlag ==
  ASSUME NEW st \in [Blocks -> SUBSET Flags], Verdicts(st), NEW n \in Blocks \ {Genesis},
         Checked(n), st[n] \cap Bad = {}, \A a \in Anc[n] \ {n} : "valid" \in st[a]
  PROVE  Verdicts(SetFlag(st, {n}, "valid"))
<1> DEFINE t == SetFlag(st, {n}, "valid")
<1>1. /\ \A b \in Blocks : st[b] \subseteq t[b]
      /\ \A b \in Blocks \ {n} : t[b] = st[b]
      /\ t[n] = st[n] \cup {"valid"}
  BY DEF SetFlag
<1> SUFFICES ASSUME NEW b \in Blocks \ {Genesis}
             PROVE  /\ "failed" \in t[b] => ~CheckConnectBlock(b, UtxoAfter[Parent[b]])
                    /\ "badAncestor" \in t[b] => \E a \in Anc[b] \ {b} : "failed" \in t[a]
                    /\ "valid" \in t[b] => /\ Checked(b) /\ t[b] \cap Bad = {}
                                           /\ \A a \in Anc[b] : "valid" \in t[a]
  BY Zenon DEF Verdicts
<1> HIDE DEF t
<1>2. \A a \in Anc[b] : a \in Blocks
  BY AncFacts
<1>3. "failed" \in t[b] => ~CheckConnectBlock(b, UtxoAfter[Parent[b]])
  BY <1>1 DEF Verdicts, Bad
<1>4. "badAncestor" \in t[b] => \E a \in Anc[b] \ {b} : "failed" \in t[a]
  BY <1>1, <1>2 DEF Verdicts, Bad
<1>5. CASE b = n
  BY <1>1, <1>2, <1>3, <1>4, <1>5 DEF Bad
<1>6. CASE b # n
  BY <1>1, <1>2, <1>3, <1>4, <1>6 DEF Verdicts
<1>7. QED
  BY <1>5, <1>6

\* The flags of a node that was found invalid and of nodes above it.
LEMMA InvalidFlags ==
  ASSUME NEW st \in [Blocks -> SUBSET Flags], Verdicts(st), NEW n \in Blocks \ {Genesis},
         ~CheckConnectBlock(n, UtxoAfter[Parent[n]]), "valid" \notin st[n],
         NEW above \in SUBSET Blocks, \A m \in above : m # n /\ n \in Anc[m]
  PROVE  Verdicts(SetFlag(SetFlag(st, {n}, "failed"), above, "badAncestor"))
<1> DEFINE t == SetFlag(SetFlag(st, {n}, "failed"), above, "badAncestor")
<1>1. /\ \A b \in Blocks : st[b] \subseteq t[b]
      /\ \A b \in Blocks : "failed" \in t[b] => "failed" \in st[b] \/ b = n
      /\ \A b \in Blocks : "badAncestor" \in t[b] => "badAncestor" \in st[b] \/ b \in above
      /\ \A b \in Blocks : "valid" \in t[b] => "valid" \in st[b]
      /\ "failed" \in t[n]
  BY DEF SetFlag
<1> SUFFICES ASSUME NEW b \in Blocks \ {Genesis}
             PROVE  /\ "failed" \in t[b] => ~CheckConnectBlock(b, UtxoAfter[Parent[b]])
                    /\ "badAncestor" \in t[b] => \E a \in Anc[b] \ {b} : "failed" \in t[a]
                    /\ "valid" \in t[b] => /\ Checked(b) /\ t[b] \cap Bad = {}
                                           /\ \A a \in Anc[b] : "valid" \in t[a]
  BY Zenon DEF Verdicts
<1> HIDE DEF t
<1>2. \A a \in Anc[b] : a \in Blocks
  BY AncFacts
<1>3. "failed" \in t[b] => ~CheckConnectBlock(b, UtxoAfter[Parent[b]])
  BY <1>1 DEF Verdicts
<1>4. "badAncestor" \in t[b] => \E a \in Anc[b] \ {b} : "failed" \in t[a]
  <2>1. CASE b \in above
    BY <1>1, <2>1
  <2>2. CASE "badAncestor" \in st[b]
    BY <1>1, <1>2, <2>2 DEF Verdicts
  <2>3. QED
    BY <1>1, <2>1, <2>2
<1>5. ASSUME "valid" \in t[b]
      PROVE  /\ Checked(b) /\ t[b] \cap Bad = {}
             /\ \A a \in Anc[b] : "valid" \in t[a]
  <2>1. /\ Checked(b) /\ st[b] \cap Bad = {}
        /\ \A a \in Anc[b] : "valid" \in st[a]
    BY <1>1, <1>5 DEF Verdicts
  <2>2. b # n /\ b \notin above
    BY <1>1, <1>5, <2>1
  <2>3. t[b] \cap Bad = {}
    BY <1>1, <2>1, <2>2 DEF Bad
  <2>4. QED
    BY <1>1, <1>2, <2>1, <2>3
<1>6. QED
  BY <1>3, <1>4, <1>5

\* The flags of nodes above one that is known to be invalid.
LEMMA AncestorFlags ==
  ASSUME NEW st \in [Blocks -> SUBSET Flags], Verdicts(st), NEW above \in SUBSET Blocks,
         \A m \in above : \E k \in Anc[m] \ {m, Genesis} : st[k] \cap Bad # {}
  PROVE  Verdicts(SetFlag(st, above, "badAncestor"))
<1> DEFINE t == SetFlag(st, above, "badAncestor")
<1>1. /\ \A b \in Blocks : st[b] \subseteq t[b]
      /\ \A b \in Blocks : "failed" \in t[b] => "failed" \in st[b]
      /\ \A b \in Blocks : "badAncestor" \in t[b] => "badAncestor" \in st[b] \/ b \in above
      /\ \A b \in Blocks : "valid" \in t[b] => "valid" \in st[b]
  BY DEF SetFlag
<1> SUFFICES ASSUME NEW b \in Blocks \ {Genesis}
             PROVE  /\ "failed" \in t[b] => ~CheckConnectBlock(b, UtxoAfter[Parent[b]])
                    /\ "badAncestor" \in t[b] => \E a \in Anc[b] \ {b} : "failed" \in t[a]
                    /\ "valid" \in t[b] => /\ Checked(b) /\ t[b] \cap Bad = {}
                                           /\ \A a \in Anc[b] : "valid" \in t[a]
  BY Zenon DEF Verdicts
<1> HIDE DEF t
<1>2. \A a \in Anc[b] : a \in Blocks
  BY AncFacts
<1>3. "failed" \in t[b] => ~CheckConnectBlock(b, UtxoAfter[Parent[b]])
  BY <1>1 DEF Verdicts
<1>4. "badAncestor" \in t[b] => \E a \in Anc[b] \ {b} : "failed" \in t[a]
  <2>1. CASE b \in above
    <3>1. PICK k \in Anc[b] \ {b, Genesis} : st[k] \cap Bad # {}
      BY <2>1
    <3>2. k \in Blocks \ {Genesis}
      BY <1>2, <3>1
    <3>3. CASE "failed" \in st[k]
      BY <1>1, <3>2, <3>3
    <3>4. CASE "badAncestor" \in st[k]
      <4>1. PICK a \in Anc[k] \ {k} : "failed" \in st[a]
        BY <3>2, <3>4 DEF Verdicts
      <4>2. a \in Anc[b] /\ a # b /\ a \in Blocks
        BY ZenonT(40), <1>2, <3>1, <3>2, <4>1, AncOrder
      <4>3. QED
        BY <1>1, <4>1, <4>2
    <3>5. QED
      BY <3>1, <3>3, <3>4 DEF Bad
  <2>2. CASE "badAncestor" \in st[b]
    BY <1>1, <1>2, <2>2 DEF Verdicts
  <2>3. QED
    BY <1>1, <2>1, <2>2
<1>5. ASSUME "valid" \in t[b]
      PROVE  /\ Checked(b) /\ t[b] \cap Bad = {}
             /\ \A a \in Anc[b] : "valid" \in t[a]
  <2>1. /\ Checked(b) /\ st[b] \cap Bad = {}
        /\ \A a \in Anc[b] : "valid" \in st[a]
    BY <1>1, <1>5 DEF Verdicts
  <2>2. b \notin above
    BY <1>2, <2>1 DEF Verdicts
  <2>3. t[b] \cap Bad = {}
    BY <1>1, <2>1, <2>2 DEF Bad
  <2>4. QED
    BY ZenonT(40), <1>1, <1>2, <2>1, <2>3
<1>6. QED
  BY <1>3, <1>4, <1>5

----------------------------------------------------------------------------
(* What the steps have in common. *)

\* No flag on disk is lost in a step.
FlagsKept == \A b \in Blocks : dbStatus[b] \subseteq dbStatus'[b]

\* A step that only adds flags, keeps the verdicts right and either flushes
\* everything or nothing.
LEMMA MarkStep ==
  ASSUME StorageInv, VerdictInv, Up, Up', dbBest' = dbBest,
         \A a \in Anc[dbBest] : "valid" \in status'[a],
         \A b \in Blocks : status[b] \subseteq status'[b], Verdicts(status'),
         dbStatus' = dbStatus \/ dbStatus' = status'
  PROVE  /\ Verdicts(dbStatus)' /\ (Up => Verdicts(status))' /\ FlagsKept /\ MainInv'
         /\ (Up => \A b \in Blocks : dbStatus[b] \subseteq status[b])'
<1>1. \A b \in Blocks : dbStatus[b] \subseteq status[b]
  BY DEF VerdictInv
<1>2. Verdicts(dbStatus') /\ FlagsKept /\ \A b \in Blocks : dbStatus'[b] \subseteq status'[b]
  BY ZenonT(40), <1>1 DEF VerdictInv, FlagsKept
<1>3. \A a \in Anc[dbBest] : a \in Blocks
  BY AncFacts DEF StorageInv, ChainTypeOK
<1>4. \A a \in Anc[dbBest] \ {Genesis} : Checked(a) /\ dbStatus'[a] \cap Bad = {}
  <2> TAKE a \in Anc[dbBest] \ {Genesis}
  <2>1. status'[a] \cap Bad = {} /\ Checked(a)
    BY <1>3 DEF Verdicts
  <2>2. QED
    BY <1>2, <1>3, <2>1
<1>5. MainInv'
  BY <1>4 DEF MainInv
<1>6. QED
  BY <1>2, <1>5 DEF Verdicts

\* The same for a step that keeps the best chain, outside markValid.
LEMMA IndexStep ==
  ASSUME StorageInv, VerdictInv, Up, Up', dbBest' = dbBest, pc # "markValid",
         \A b \in Blocks : status[b] \subseteq status'[b], Verdicts(status'),
         dbStatus' = dbStatus \/ dbStatus' = status'
  PROVE  /\ Verdicts(dbStatus)' /\ (Up => Verdicts(status))' /\ FlagsKept /\ MainInv'
         /\ (Up => \A b \in Blocks : dbStatus[b] \subseteq status[b])'
<1>1. \A a \in Anc[dbBest] : "valid" \in status'[a]
  BY AncFacts DEF VerdictInv, MainInv, StorageInv, ChainTypeOK
<1>2. QED
  BY ZenonT(40), <1>1, MarkStep

\* The orphans are blocks.
LEMMA OrphanHashType ==
  ASSUME VerdictInv
  PROVE  \A i \in DOMAIN orphans : orphans[i].hash \in Blocks
<1> DEFINE R == [hash : Blocks, expiration : Nat]
<1>1. orphans \in Seq(R)
  BY DEF VerdictInv, OrphanInv
<1>2. \A o \in R : o.hash \in Blocks
  OBVIOUS
<1> HIDE DEF R
<1>3. \A i \in DOMAIN orphans : orphans[i] \in R
  BY <1>1
<1>4. QED
  BY <1>2, <1>3

\* A step after which no call works on a block it still has to add.
LEMMA PlainStep ==
  ASSUME VerdictInv, orphans' = orphans,
         \A b \in Blocks : status[b] = {} => status'[b] = {},
         Return \/ (pc' = "accepted" /\ UNCHANGED <<cur, fastAdd, processHashes>>)
  PROVE  OrphanInv' /\ FastInv' /\ NodeInv' /\ ReorgInv'
<1>1. OrphanInv'
  <2>1. \A i \in DOMAIN orphans : orphans[i].hash \in Blocks
    BY OrphanHashType
  <2>2. pc' \notin {"accept", "index", "down"}
    BY DEF Return
  <2>3. QED
    BY <2>1, <2>2, Zenon DEF VerdictInv, OrphanInv
<1>2. FastInv'
  <2>1. CASE Return
    BY <2>1 DEF Return, FastInv
  <2>2. CASE pc' = "accepted" /\ UNCHANGED <<cur, fastAdd, processHashes>>
    BY <2>2 DEF VerdictInv, FastInv
  <2>3. QED
    BY <2>1, <2>2
<1>3. NodeInv' /\ ReorgInv'
  BY DEF Return, NodeInv, ReorgInv
<1>4. QED
  BY <1>1, <1>2, <1>3

----------------------------------------------------------------------------
(* The steps. *)

\* A new database holds the genesis block, which is valid.
LEMMA InitVerdicts == Init => VerdictInv
<1> SUFFICES ASSUME Init PROVE VerdictInv
  OBVIOUS
<1> USE ParentAssumption DEF Init, NoCall, NoReorg
<1>1. \A b \in Blocks \ {Genesis} : dbStatus[b] = {} /\ status[b] = {}
  BY Zenon
<1>2. Verdicts(dbStatus) /\ Verdicts(status)
  BY <1>1 DEF Verdicts
<1>3. MainInv
  BY AncFacts, Zenon DEF MainInv
<1>4. OrphanInv /\ FastInv /\ NodeInv /\ ReorgInv
  BY DEF OrphanInv, FastInv, NodeInv, ReorgInv
<1>5. QED
  BY <1>2, <1>3, <1>4 DEF VerdictInv

\* addOrphanBlock adds the block to what it keeps of the pool.
LEMMA AddOrphanFacts ==
  ASSUME ListFacts, NEW R, orphans \in Seq(R), NEW b, AddOrphanBlock(b),
         [hash |-> b, expiration |-> now + OrphanTTL] \in R
  PROVE  /\ orphans' \in Seq(R)
         /\ \A i \in DOMAIN orphans' : orphans'[i].hash = b \/ orphans'[i].hash \in OrphanHashes
<1> DEFINE I == {i \in DOMAIN orphans : now <= orphans[i].expiration}
           kept == Kept(orphans, I)
           new == [hash |-> b, expiration |-> now + OrphanTTL]
           J(h) == {i \in DOMAIN kept : kept[i].hash # h}
           rest(h) == Kept(kept, J(h))
<1>1. kept \in Seq(R) /\ \A k \in DOMAIN kept : kept[k].hash \in OrphanHashes
  <2>0. I \in SUBSET DOMAIN orphans
    OBVIOUS
  <2>1. kept \in Seq(R) /\ \A k \in DOMAIN kept : \E i \in DOMAIN orphans : kept[k] = orphans[i]
    <3> HIDE DEF I
    <3>1. QED
      BY <2>0, KeptOnly
  <2>2. QED
    BY ZenonT(40), <2>1 DEF OrphanHashes
<1>2. ASSUME NEW h
      PROVE  rest(h) \in Seq(R) /\ \A k \in DOMAIN rest(h) : rest(h)[k].hash \in OrphanHashes
  <2> HIDE DEF kept
  <2>0. J(h) \in SUBSET DOMAIN kept
    OBVIOUS
  <2>1. rest(h) \in Seq(R) /\ \A k \in DOMAIN rest(h) : \E i \in DOMAIN kept : rest(h)[k] = kept[i]
    <3> HIDE DEF J
    <3>1. QED
      BY <1>1, <2>0, KeptOnly
  <2>2. QED
    BY Zenon, <1>1, <2>1
<1>3. \/ orphans' = Append(kept, new)
      \/ \E h : orphans' = Append(rest(h), new)
  BY Zenon DEF AddOrphanBlock, RemoveOrphanBlock
<1>4. ASSUME NEW s \in Seq(R), \A k \in DOMAIN s : s[k].hash \in OrphanHashes,
             orphans' = Append(s, new)
      PROVE  /\ orphans' \in Seq(R)
             /\ \A i \in DOMAIN orphans' : orphans'[i].hash = b \/ orphans'[i].hash \in OrphanHashes
  <2>1. new.hash = b /\ new \in R
    OBVIOUS
  <2> HIDE DEF new
  <2>2. orphans' \in Seq(R) /\ Len(orphans') = Len(s) + 1
    BY <1>4, <2>1
  <2>3. \A i \in 1 .. Len(s) + 1 : orphans'[i] = IF i <= Len(s) THEN s[i] ELSE new
    BY <1>4, <2>1
  <2>4. QED
    BY <1>4, <2>1, <2>2, <2>3
<1> HIDE DEF kept, new, rest
<1>5. CASE orphans' = Append(kept, new)
  BY ZenonT(40), <1>1, <1>4, <1>5
<1>6. CASE \E h : orphans' = Append(rest(h), new)
  <2>1. PICK h : orphans' = Append(rest(h), new)
    BY <1>6
  <2>2. QED
    BY <1>2, <1>4, <2>1
<1>7. QED
  BY ZenonT(40), <1>3, <1>5, <1>6

\* ProcessBlock marks no node; it starts a call on a block that is not indexed,
\* or adds that block to the orphans.
LEMMA ProcessBlockVerdicts ==
  ASSUME ListFacts, StorageInv, VerdictInv, NEW b \in Blocks \ {Genesis}, NEW fast \in BOOLEAN,
         fast => b \in FastBlocks, ProcessBlock(b, fast)
  PROVE  VerdictInv' /\ FlagsKept
<1> USE DEF vars, disk, chainState, pool, reorg, call
<1>0. /\ UNCHANGED <<disk, status, dirty, tip, reorg, now, faults>>
      /\ pc = "idle" /\ Up /\ Up' /\ pc' \in {"idle", "accept"}
  BY ZenonT(40) DEF ProcessBlock, Up
<1>1. /\ Verdicts(dbStatus)' /\ (Up => Verdicts(status))' /\ FlagsKept /\ MainInv'
      /\ (Up => \A a \in Blocks : dbStatus[a] \subseteq status[a])'
  BY ZenonT(40), <1>0, IndexStep DEF VerdictInv
<1>2. NodeInv' /\ ReorgInv'
  BY ZenonT(40), <1>0 DEF NodeInv, ReorgInv
<1>3. CASE UNCHANGED <<pc, call, pool>>
  BY ZenonT(40), <1>0, <1>1, <1>2, <1>3 DEF VerdictInv, OrphanInv, FastInv, OrphanHashes
<1>4. CASE /\ ~BlockExists(b) /\ AddOrphanBlock(b) /\ UNCHANGED <<pc, call>>
  <2>1. FastInv'
    BY ZenonT(40), <1>0, <1>4 DEF VerdictInv, FastInv
  <2>2. [hash |-> b, expiration |-> now + OrphanTTL] \in [hash : Blocks, expiration : Nat]
    BY BoundAssumption DEF StorageInv, ChainTypeOK
  <2>3. /\ orphans' \in Seq([hash : Blocks, expiration : Nat])
        /\ \A i \in DOMAIN orphans' : orphans'[i].hash = b \/ orphans'[i].hash \in OrphanHashes
    BY <1>4, <2>2, AddOrphanFacts, ZenonT(40) DEF VerdictInv, OrphanInv
  <2>4. status[b] = {} /\ \A h \in OrphanHashes : status[h] = {}
    BY ZenonT(40), <1>4 DEF BlockExists, HaveNode, VerdictInv, OrphanInv, OrphanHashes
  <2>5. OrphanInv'
    BY ZenonT(40), <1>0, <1>4, <2>3, <2>4 DEF OrphanInv
  <2>6. QED
    BY ZenonT(40), <1>1, <1>2, <2>1, <2>5 DEF VerdictInv
<1>5. CASE /\ ~BlockExists(b) /\ b \notin OrphanHashes
           /\ pc' = "accept" /\ cur' = b /\ fastAdd' = fast
           /\ UNCHANGED <<isMain, processHashes, pool>>
  <2>1. FastInv'
    <3>1. processHashes = <<>>
      BY ZenonT(40), <1>0 DEF VerdictInv, FastInv
    <3>2. fast => FastChain(b)
      BY ZenonT(40), AncFacts DEF FastChain
    <3>3. QED
      BY <1>5, <3>1, <3>2 DEF FastInv
  <2>2. OrphanInv'
    BY <1>0, <1>5 DEF VerdictInv, OrphanInv, OrphanHashes, BlockExists, HaveNode
  <2>3. QED
    BY <1>1, <1>2, <2>1, <2>2 DEF VerdictInv
<1>6. QED
  BY ZenonT(40), <1>3, <1>4, <1>5 DEF ProcessBlock

\* maybeAcceptBlock stores the data of a block and marks no node.
LEMMA MaybeAcceptBlockVerdicts ==
  ASSUME StorageInv, VerdictInv, MaybeAcceptBlock
  PROVE  VerdictInv' /\ FlagsKept
<1> USE DEF vars, disk, chainState, pool, reorg, call
<1>0. /\ UNCHANGED <<dbStatus, chainState, status, dirty, pool, now, faults>>
      /\ pc = "accept" /\ Up
      /\ Return \/ (pc' = "index" /\ UNCHANGED call)
  BY DEF MaybeAcceptBlock, Up, AssertError
<1>1. Up'
  BY ZenonT(40), <1>0, ReturnFacts DEF Up
<1>2. /\ Verdicts(dbStatus)' /\ (Up => Verdicts(status))' /\ FlagsKept /\ MainInv'
      /\ (Up => \A a \in Blocks : dbStatus[a] \subseteq status[a])'
  BY ZenonT(40), <1>0, <1>1, IndexStep DEF VerdictInv
<1>3. CASE Return
  BY ZenonT(40), <1>0, <1>2, <1>3, PlainStep DEF VerdictInv
<1>4. CASE pc' = "index" /\ UNCHANGED call
  <2>1. FastInv'
    BY ZenonT(40), <1>4 DEF VerdictInv, FastInv
  <2>2. OrphanInv'
    BY ZenonT(40), <1>0, <1>4 DEF VerdictInv, OrphanInv, OrphanHashes
  <2>3. NodeInv' /\ ReorgInv'
    BY ZenonT(40), <1>4 DEF NodeInv, ReorgInv
  <2>4. QED
    BY ZenonT(40), <1>2, <2>1, <2>2, <2>3 DEF VerdictInv
<1>5. QED
  BY ZenonT(40), <1>0, <1>3, <1>4

\* The new node has no verdict, and no node above it has one.
LEMMA AddNodeVerdicts ==
  ASSUME StorageInv, VerdictInv, AddNode
  PROVE  VerdictInv' /\ FlagsKept
<1> USE DEF vars, disk, chainState, pool, reorg, call
<1>0. /\ cur \in Blocks \ {Genesis} /\ status[cur] = {} /\ cur \notin OrphanHashes
      /\ pc = "index" /\ Up /\ status \in [Blocks -> SUBSET Flags] /\ dirty \subseteq Blocks
      /\ UNCHANGED <<dbBlocks, chainState, checkpoint, pool, now, asserted>>
  BY ZenonT(40) DEF AddNode, StorageInv, ChainTypeOK, CallInv, VerdictInv, OrphanInv, Up
<1>1. /\ status' \in [Blocks -> SUBSET Flags] /\ status'[cur] = {"stored"}
      /\ \A b \in Blocks \ {cur} : status'[b] = status[b]
  BY ZenonT(40), <1>0 DEF AddNode, Flags
<1>2. Flushed(status', dirty \cup {cur}) = status'
  BY <1>0, <1>1, FlushAll
<1>3. \/ /\ dbStatus' = status' /\ pc' = "connect" /\ UNCHANGED <<call, reorg>>
      \/ Return /\ UNCHANGED dbStatus
  BY <1>2, Zenon DEF AddNode
<1>4. Verdicts(status')
  <2> SUFFICES ASSUME NEW b \in Blocks \ {Genesis}
               PROVE  /\ "failed" \in status'[b] => ~CheckConnectBlock(b, UtxoAfter[Parent[b]])
                      /\ "badAncestor" \in status'[b] =>
                           \E a \in Anc[b] \ {b} : "failed" \in status'[a]
                      /\ "valid" \in status'[b] => /\ Checked(b) /\ status'[b] \cap Bad = {}
                                                   /\ \A a \in Anc[b] : "valid" \in status'[a]
    BY ZenonT(40) DEF Verdicts
  <2>1. CASE b = cur
    BY <1>1, <2>1
  <2>2. CASE b # cur
    <3>1. Verdicts(status) /\ \A a \in Anc[b] : a \in Blocks
      BY ZenonT(40), <1>0, AncFacts DEF VerdictInv
    <3>2. QED
      BY ZenonT(40), <1>0, <1>1, <2>2, <3>1 DEF Verdicts
  <2>3. QED
    BY ZenonT(40), <2>1, <2>2
<1>5. /\ Verdicts(dbStatus)' /\ (Up => Verdicts(status))' /\ FlagsKept /\ MainInv'
      /\ (Up => \A a \in Blocks : dbStatus[a] \subseteq status[a])'
  <2>1. Up' /\ dbBest' = dbBest /\ pc # "markValid"
    BY <1>0, <1>3, ReturnFacts DEF Up
  <2>2. \A b \in Blocks : status[b] \subseteq status'[b]
    BY <1>0, <1>1
  <2>3. dbStatus' = dbStatus \/ dbStatus' = status'
    BY <1>3
  <2>4. QED
    BY ZenonT(40), <1>0, <1>4, <2>1, <2>2, <2>3, IndexStep
<1>6. OrphanInv'
  <2>1. \A i \in DOMAIN orphans : orphans[i].hash \in Blocks /\ orphans[i].hash # cur
    BY ZenonT(40), <1>0, OrphanHashType DEF OrphanHashes
  <2>2. pc' \notin {"accept", "index", "down"} /\ orphans' = orphans
    BY <1>0, <1>3 DEF Return
  <2>3. QED
    BY <1>1, <2>1, <2>2, Zenon DEF VerdictInv, OrphanInv
<1>7. FastInv' /\ NodeInv' /\ ReorgInv'
  <2>1. CASE Return
    BY <2>1 DEF Return, FastInv, NodeInv, ReorgInv
  <2>2. CASE pc' = "connect" /\ UNCHANGED <<call, reorg>>
    BY <1>1, <2>2 DEF VerdictInv, FastInv, NodeInv, ReorgInv
  <2>3. QED
    BY ZenonT(40), <1>3, <2>1, <2>2
<1>8. QED
  BY ZenonT(40), <1>5, <1>6, <1>7 DEF VerdictInv

\* processOrphans goes on with an orphan, which leaves the pool; the orphans of
\* a block that was added fast descend from it.
LEMMA ProcessOrphansVerdicts ==
  ASSUME ListFacts, StorageInv, VerdictInv, ProcessOrphans
  PROVE  VerdictInv' /\ FlagsKept
<1> USE DEF vars, disk, chainState, pool, reorg, call
<1> DEFINE queue == Append(processHashes, cur)
<1>0. /\ UNCHANGED <<disk, status, dirty, tip, checkpoint, now, faults, asserted>>
      /\ pc = "accepted" /\ Up /\ Up' /\ cur \in Blocks /\ processHashes \in Seq(Blocks)
  BY ZenonT(40), ReturnFacts DEF ProcessOrphans, Up, StorageInv, ChainTypeOK, VerdictInv, FastInv
<1>1. /\ Verdicts(dbStatus)' /\ (Up => Verdicts(status))' /\ FlagsKept /\ MainInv'
      /\ (Up => \A a \in Blocks : dbStatus[a] \subseteq status[a])'
  BY <1>0, IndexStep DEF VerdictInv
<1>2. \/ Return /\ UNCHANGED pool
      \/ \E i \in DOMAIN queue, k \in DOMAIN orphans, o \in Blocks \ {Genesis} :
           /\ Parent[orphans[k].hash] = queue[i] /\ o = orphans[k].hash
           /\ cur' = o /\ orphans' = RemoveOrphanBlock(orphans, o)
           /\ processHashes' = SubSeq(queue, i, Len(queue))
           /\ pc' = "accept" /\ UNCHANGED <<fastAdd, reorg, oldestOrphan>>
  BY ZenonT(40) DEF ProcessOrphans, PrevOrphans
<1>3. CASE Return /\ UNCHANGED pool
  BY ZenonT(40), <1>0, <1>1, <1>3, PlainStep DEF VerdictInv
<1>4. ASSUME NEW i \in DOMAIN queue, NEW k \in DOMAIN orphans, NEW o \in Blocks \ {Genesis},
             Parent[orphans[k].hash] = queue[i], o = orphans[k].hash,
             cur' = o, orphans' = RemoveOrphanBlock(orphans, o),
             processHashes' = SubSeq(queue, i, Len(queue)),
             pc' = "accept", UNCHANGED <<fastAdd, reorg, oldestOrphan>>
      PROVE  OrphanInv' /\ FastInv' /\ NodeInv' /\ ReorgInv'
  <2>1. NodeInv' /\ ReorgInv'
    BY ZenonT(40), <1>4 DEF NodeInv, ReorgInv
  <2>2. /\ queue \in Seq(Blocks) /\ Len(queue) \in Nat /\ DOMAIN queue = 1 .. Len(queue)
        /\ \A j \in DOMAIN queue : queue[j] = cur \/ \E l \in DOMAIN processHashes : queue[j] = processHashes[l]
    BY <1>0
  <2>3. fastAdd => \A j \in DOMAIN queue : FastChain(queue[j])
    BY ZenonT(40), <2>2 DEF VerdictInv, FastInv
  <2>4. fastAdd => FastChain(o)
    <3>1. fastAdd => FastChain(Parent[o])
      BY ZenonT(40), <1>4, <2>3
    <3>2. QED
      BY ZenonT(40), <3>1, CheckedChild DEF Checked
  <2>5. processHashes' \in Seq(Blocks) /\ \A j \in DOMAIN processHashes' : \E l \in DOMAIN queue : processHashes'[j] = queue[l]
    <3> HIDE DEF queue
    <3>1. i \in 1 .. Len(queue)
      BY <2>2
    <3>2. QED
      BY <1>4, <2>2, <3>1
  <2>6. FastInv'
    BY <1>4, <2>3, <2>4, <2>5, Zenon DEF FastInv
  <2>7. OrphanInv'
    <3> DEFINE R == [hash : Blocks, expiration : Nat]
               I == {j \in DOMAIN orphans : orphans[j].hash # o}
    <3>1. orphans \in Seq(R) /\ I \in SUBSET DOMAIN orphans /\ orphans' = Kept(orphans, I)
      BY ZenonT(40), <1>4 DEF VerdictInv, OrphanInv, RemoveOrphanBlock
    <3>2. \A j \in I : orphans[j].hash # o /\ status[orphans[j].hash] = {} /\ j \in DOMAIN orphans
      BY ZenonT(40) DEF VerdictInv, OrphanInv
    <3>3. status[o] = {}
      BY <1>4 DEF VerdictInv, OrphanInv
    <3> HIDE DEF I
    <3>4. orphans' \in Seq(R) /\ \A j \in DOMAIN orphans' : \E l \in I : orphans'[j] = orphans[l]
      BY <3>1, KeptOnly
    <3>5. \A j \in DOMAIN orphans' : orphans'[j].hash # o /\ status[orphans'[j].hash] = {}
      <4> TAKE j \in DOMAIN orphans'
      <4>1. PICK l \in I : orphans'[j] = orphans[l]
        BY ZenonT(40), <3>4
      <4>2. QED
        BY <3>2, <4>1
    <3>6. QED
      BY ZenonT(40), <1>0, <1>4, <3>3, <3>4, <3>5 DEF OrphanInv, OrphanHashes
  <2>8. QED
    BY ZenonT(40), <2>1, <2>6, <2>7
<1>5. QED
  BY ZenonT(40), <1>1, <1>2, <1>3, <1>4 DEF VerdictInv

\* A step that adds a flag to nodes of the index.
LEMMA FlagStep ==
  ASSUME StorageInv, VerdictInv, Up, Up', dbBest' = dbBest, pc # "markValid",
         NEW st \in [Blocks -> SUBSET Flags], NEW d \in SUBSET Blocks, dirty \subseteq d,
         \A b \in Blocks \ d : st[b] = status[b],
         \A b \in Blocks : status[b] \subseteq st[b], Verdicts(st),
         SetAndFlush(st, d)
  PROVE  /\ Verdicts(dbStatus)' /\ (Up => Verdicts(status))' /\ FlagsKept /\ MainInv'
         /\ (Up => \A b \in Blocks : dbStatus[b] \subseteq status[b])' /\ status' = st
<1>1. Flushed(st, d) = st
  BY FlushAll
<1>2. status' = st /\ (dbStatus' = dbStatus \/ dbStatus' = status')
  BY <1>1 DEF SetAndFlush
<1>3. QED
  BY ZenonT(40), <1>2, IndexStep

\* A block that extends the best chain is checked on the utxo set in the
\* database, which is that of its parent.
LEMMA ExtendBestChainVerdicts ==
  ASSUME StorageInv, VerdictInv, ExtendBestChain
  PROVE  VerdictInv' /\ FlagsKept
<1> USE DEF vars, disk, chainState, pool, reorg, call
<1>0. /\ cur \in Blocks \ {Genesis} /\ status[cur] = {"stored"} /\ Parent[cur] = tip /\ tip = dbBest
      /\ pc = "connect" /\ Up /\ status \in [Blocks -> SUBSET Flags] /\ dirty \cup {cur} \in SUBSET Blocks
      /\ dbUtxo = UtxoAfter[Parent[cur]] /\ Verdicts(status) /\ dbBest \in Blocks
      /\ UNCHANGED <<dbBlocks, chainState, checkpoint, pool, now>>
  BY ZenonT(40) DEF ExtendBestChain, StorageInv, ChainTypeOK, CallInv, IndexInv, MemoryMatchesDisk,
     UtxoMatchesBest, VerdictInv, NodeInv, Up
<1>1. /\ \A a \in Anc[cur] \ {cur} : "valid" \in status[a]
      /\ Parent[cur] # Genesis => Checked(Parent[cur])
  <2>1. \A a \in Anc[dbBest] : "valid" \in status[a]
    BY ZenonT(40), <1>0 DEF VerdictInv, MainInv
  <2>2. Anc[cur] = Anc[dbBest] \cup {cur}
    BY ZenonT(40), <1>0, AncFacts
  <2>3. QED
    BY ZenonT(40), <1>0, <2>1, <2>2, AncFacts DEF Verdicts
<1>2. ASSUME NEW f \in Flags
      PROVE  LET st == SetFlag(status, {cur}, f)
             IN  /\ st \in [Blocks -> SUBSET Flags]
                 /\ \A b \in Blocks \ {cur} : st[b] = status[b]
                 /\ \A b \in Blocks : status[b] \subseteq st[b]
                 /\ \A b \in Blocks : status[b] = {} => st[b] = {}
                 /\ st[cur] = {"stored", f}
  BY <1>0 DEF SetFlag
<1>3. CASE /\ ~fastAdd /\ CheckConnectBlock(cur, dbUtxo)
           /\ SetAndFlush(SetFlag(status, {cur}, "valid"), dirty \cup {cur})
           /\ pc' = "tip" /\ UNCHANGED <<call, reorg, asserted>>
  <2> DEFINE st == SetFlag(status, {cur}, "valid")
  <2>1. Verdicts(st)
    <3>1. Checked(cur)
      BY ZenonT(40), <1>0, <1>1, <1>3, CheckedChild
    <3>2. status[cur] \cap Bad = {}
      BY ZenonT(40), <1>0 DEF Bad
    <3>3. QED
      BY ZenonT(40), <1>0, <1>1, <3>1, <3>2, ValidFlag
  <2>2. /\ st \in [Blocks -> SUBSET Flags] /\ \A b \in Blocks \ {cur} : st[b] = status[b]
        /\ \A b \in Blocks : status[b] \subseteq st[b] /\ (status[b] = {} => st[b] = {})
        /\ st[cur] = {"stored", "valid"}
    BY <1>2, Zenon DEF Flags
  <2>3. Up' /\ dbBest' = dbBest /\ pc # "markValid" /\ SetAndFlush(st, dirty \cup {cur})
    BY ZenonT(40), <1>0, <1>3 DEF Up
  <2> HIDE DEF st
  <2>4. /\ Verdicts(dbStatus)' /\ (Up => Verdicts(status))' /\ FlagsKept /\ MainInv'
        /\ (Up => \A b \in Blocks : dbStatus[b] \subseteq status[b])' /\ status' = st
    BY ZenonT(40), <1>0, <2>1, <2>2, <2>3, FlagStep
  <2>5. OrphanInv'
    BY ZenonT(40), <1>0, <1>3, <2>2, <2>4, OrphanHashType DEF VerdictInv, OrphanInv
  <2>6. FastInv' /\ ReorgInv'
    BY ZenonT(40), <1>3 DEF VerdictInv, FastInv, ReorgInv
  <2>7. NodeInv'
    BY ZenonT(40), <1>3, <2>2, <2>4 DEF NodeInv, Bad
  <2>8. QED
    BY ZenonT(40), <2>4, <2>5, <2>6, <2>7 DEF VerdictInv
<1>4. CASE /\ ~CheckConnectBlock(cur, dbUtxo)
           /\ SetAndFlush(SetFlag(status, {cur}, "failed"), dirty \cup {cur})
           /\ Return
  <2> DEFINE st == SetFlag(status, {cur}, "failed")
  <2>1. Verdicts(st)
    <3>1. Verdicts(SetFlag(st, {}, "badAncestor"))
      BY ZenonT(40), <1>0, <1>4, InvalidFlags
    <3>2. SetFlag(st, {}, "badAncestor") = st
      BY DEF SetFlag
    <3>3. QED
      BY <3>1, <3>2
  <2>2. /\ st \in [Blocks -> SUBSET Flags] /\ \A b \in Blocks \ {cur} : st[b] = status[b]
        /\ \A b \in Blocks : status[b] \subseteq st[b] /\ (status[b] = {} => st[b] = {})
    BY <1>2, Zenon DEF Flags
  <2>3. Up' /\ dbBest' = dbBest /\ pc # "markValid" /\ SetAndFlush(st, dirty \cup {cur})
    BY ZenonT(40), <1>0, <1>4, ReturnFacts
  <2> HIDE DEF st
  <2>4. /\ Verdicts(dbStatus)' /\ (Up => Verdicts(status))' /\ FlagsKept /\ MainInv'
        /\ (Up => \A b \in Blocks : dbStatus[b] \subseteq status[b])' /\ status' = st
    BY ZenonT(40), <1>0, <2>1, <2>2, <2>3, FlagStep
  <2>5. OrphanInv' /\ FastInv' /\ NodeInv' /\ ReorgInv'
    BY ZenonT(40), <1>0, <1>4, <2>2, <2>4, PlainStep
  <2>6. QED
    BY ZenonT(40), <2>4, <2>5 DEF VerdictInv
<1>5. CASE /\ fastAdd /\ UNCHANGED <<status, dirty, dbStatus, faults>>
           /\ Return \/ (pc' = "tip" /\ UNCHANGED <<call, reorg>>)
  <2>1. Up' /\ dbBest' = dbBest /\ pc # "markValid"
    BY <1>0, <1>5, ReturnFacts, Zenon DEF Up
  <2>2. /\ Verdicts(dbStatus)' /\ (Up => Verdicts(status))' /\ FlagsKept /\ MainInv'
        /\ (Up => \A b \in Blocks : dbStatus[b] \subseteq status[b])'
    BY ZenonT(40), <1>0, <1>5, <2>1, IndexStep
  <2>3. CASE Return
    BY ZenonT(40), <1>0, <1>5, <2>2, <2>3, PlainStep DEF VerdictInv
  <2>4. CASE pc' = "tip" /\ UNCHANGED <<call, reorg>>
    <3>1. OrphanInv' /\ FastInv' /\ ReorgInv'
      BY ZenonT(40), <1>0, <1>5, <2>4 DEF VerdictInv, OrphanInv, FastInv, ReorgInv
    <3>2. NodeInv'
      BY ZenonT(40), <1>0, <1>5, <2>4 DEF NodeInv, Bad
    <3>3. QED
      BY <2>2, <3>1, <3>2 DEF VerdictInv
  <2>5. QED
    BY Zenon, <1>5, <2>3, <2>4
<1>6. QED
  BY ZenonT(40), <1>0, <1>3, <1>4, <1>5 DEF ExtendBestChain, KnownValid, AssertError

\* A side chain without more work leaves the index as it is.
LEMMA ExtendSideChainVerdicts ==
  ASSUME StorageInv, VerdictInv, ExtendSideChain
  PROVE  VerdictInv' /\ FlagsKept
<1> USE DEF vars, disk, chainState, pool, reorg, call
<1>1. /\ UNCHANGED <<disk, status, orphans, cur, fastAdd, processHashes>>
      /\ pc = "connect" /\ pc' = "accepted" /\ Up /\ Up'
  BY DEF ExtendSideChain, Up
<1>2. /\ Verdicts(dbStatus)' /\ (Up => Verdicts(status))' /\ FlagsKept /\ MainInv'
      /\ (Up => \A b \in Blocks : dbStatus[b] \subseteq status[b])'
  BY ZenonT(40), <1>1, IndexStep DEF VerdictInv
<1>3. QED
  BY <1>1, <1>2, PlainStep DEF VerdictInv

----------------------------------------------------------------------------
(* The steps of reorganizeChain, the failures and the restart. *)


\* getReorganizeNodes marks the nodes above one that is known to be invalid.
LEMMA ReorganizeRefusedVerdicts ==
  ASSUME ListFacts, StorageInv, VerdictInv, ReorganizeRefused
  PROVE  VerdictInv' /\ FlagsKept
<1> USE DEF vars, disk, chainState, pool, reorg, call
<1> DEFINE branch == Anc[cur] \ Anc[tip]
           bad == {n \in branch : KnownInvalid(n)}
           above == {n \in branch : \A m \in bad : Height[n] > Height[m]}
           st == SetFlag(status, above, "badAncestor")
<1>0. /\ pc = "connect" /\ pc' = "accepted" /\ Up /\ Up' /\ dbBest' = dbBest /\ bad # {}
      /\ SetAndFlush(st, dirty \cup above) /\ orphans' = orphans
      /\ UNCHANGED <<cur, fastAdd, processHashes>>
      /\ cur \in Blocks /\ tip \in Blocks /\ status \in [Blocks -> SUBSET Flags]
      /\ dirty \subseteq Blocks /\ Verdicts(status) /\ Indexed(status) /\ status[cur] # {}
  BY ZenonT(40) DEF ReorganizeRefused, Up, StorageInv, ChainTypeOK, IndexInv, CallInv, VerdictInv
<1>1. \A n \in branch : n \in Blocks /\ n # Genesis /\ status[n] # {}
  <2>1. \A n \in Anc[cur] : n \in Blocks /\ status[n] # {}
    BY ZenonT(40), <1>0, AncFacts DEF Indexed
  <2>2. Genesis \in Anc[tip]
    BY ZenonT(40), <1>0, AncFacts
  <2>3. QED
    BY ZenonT(40), <2>1, <2>2
<1>2. above \subseteq Blocks /\ \A n \in above : status[n] # {}
  BY <1>1
<1>3. \A m \in above : \E k \in Anc[m] \ {m, Genesis} : status[k] \cap Bad # {}
  <2> TAKE m \in above
  <2>1. PICK k \in bad : TRUE
    BY ZenonT(40), <1>0
  <2>2. k \in branch /\ m \in branch /\ Height[m] > Height[k] /\ status[k] \cap Bad # {}
    BY <2>1 DEF KnownInvalid, Bad
  <2>3. Height[m] \in Nat /\ Height[k] \in Nat
    BY <1>1, <2>2, TreeAssumption
  <2>4. m \notin Anc[k]
    BY <1>1, <2>2, <2>3, AncOrder
  <2>5. k \in Anc[m]
    BY ZenonT(40), <1>0, <2>2, <2>4, Linear
  <2>6. k # m
    BY <2>2, <2>3
  <2>7. QED
    BY <1>1, <2>2, <2>5, <2>6
<1>4. /\ st \in [Blocks -> SUBSET Flags]
      /\ \A b \in Blocks \ above : st[b] = status[b]
      /\ \A b \in Blocks : status[b] \subseteq st[b] /\ (status[b] = {} => st[b] = {})
  <2> HIDE DEF above
  <2>1. QED
    BY <1>0, <1>2 DEF SetFlag, Flags
<1>5. Verdicts(st)
  <2> HIDE DEF above
  <2>1. QED
    BY ZenonT(40), <1>0, <1>2, <1>3, AncestorFlags
<1> HIDE DEF above, bad, branch
<1>6. dirty \cup above \in SUBSET Blocks /\ \A b \in Blocks \ (dirty \cup above) : st[b] = status[b]
  BY <1>0, <1>2, <1>4
<1> HIDE DEF st
<1>7. /\ Verdicts(dbStatus)' /\ (Up => Verdicts(status))' /\ FlagsKept /\ MainInv'
      /\ (Up => \A b \in Blocks : dbStatus[b] \subseteq status[b])' /\ status' = st
  <2>1. pc # "markValid" /\ dirty \subseteq dirty \cup above
    BY <1>0
  <2>2. QED
    BY <1>0, <1>4, <1>5, <1>6, <2>1, FlagStep
<1>8. QED
  BY ZenonT(40), <1>0, <1>4, <1>7, PlainStep DEF VerdictInv

\* A reorganization starts with the two branches and the utxo set of the tip.
LEMMA ReorganizeBeginVerdicts ==
  ASSUME StorageInv, VerdictInv, ReorganizeBegin
  PROVE  VerdictInv' /\ FlagsKept
<1> USE DEF vars, disk, chainState, pool, call
<1>0. /\ UNCHANGED <<disk, status, dirty, tip, checkpoint, pool, call, now, faults, asserted>>
      /\ pc = "connect" /\ pc' \in {"checkAttach", "checkDetach"} /\ Up /\ Up'
      /\ cur \in Blocks /\ tip \in Blocks /\ tip = dbBest /\ dbUtxo = UtxoAfter[tip]
      /\ "valid" \in status[tip]
  BY ZenonT(40), AncFacts DEF ReorganizeBegin, Up, StorageInv, ChainTypeOK, IndexInv, MemoryMatchesDisk,
     UtxoMatchesBest, VerdictInv, MainInv
<1>1. /\ Verdicts(dbStatus)' /\ (Up => Verdicts(status))' /\ FlagsKept /\ MainInv'
      /\ (Up => \A b \in Blocks : dbStatus[b] \subseteq status[b])'
  BY ZenonT(40), <1>0, IndexStep DEF VerdictInv
<1>2. OrphanInv' /\ FastInv' /\ NodeInv'
  BY ZenonT(40), <1>0 DEF VerdictInv, OrphanInv, FastInv, NodeInv
<1>3. /\ attach' = Anc[cur] \ Anc[tip] /\ detach' = Anc[tip] \ Anc[cur]
      /\ \A n \in Anc[cur] \ Anc[tip] : ~KnownInvalid(n)
      /\ view' = UtxoAfter[tip] /\ newBest' = tip
      /\ IF detach' = {} THEN pc' = "checkAttach" /\ todo' = attach'
                         ELSE pc' = "checkDetach" /\ todo' = detach'
  BY ZenonT(40), <1>0 DEF ReorganizeBegin
<1>4. tip \in Anc[tip] /\ (detach' = {} => tip \in Anc[cur])
  BY ZenonT(40), <1>0, <1>3, AncFacts
<1>5. ReorgInv'
  <2>1. CASE detach' = {}
    BY ZenonT(40), <1>0, <1>3, <1>4, <2>1 DEF ReorgInv, KnownInvalid
  <2>2. CASE detach' # {}
    BY ZenonT(40), <1>0, <1>3, <1>4, <2>2 DEF ReorgInv, KnownInvalid
  <2>3. QED
    BY ZenonT(40), <2>1, <2>2
<1>6. QED
  BY ZenonT(40), <1>1, <1>2, <1>5 DEF VerdictInv

\* flushToDB makes the verdicts on the disk those in memory.
LEMMA FlushToDBVerdicts ==
  ASSUME StorageInv, VerdictInv, FlushToDB
  PROVE  VerdictInv' /\ FlagsKept
<1> USE DEF vars, disk, chainState, pool, reorg, call
<1>0. /\ UNCHANGED <<dbBlocks, chainState, status, checkpoint, pool, pc, call, reorg, now,
                     faults, asserted>>
      /\ Up /\ Up' /\ pc # "markValid" /\ dbStatus' = Flushed(status, dirty)
      /\ status \in [Blocks -> SUBSET Flags] /\ dirty \in SUBSET Blocks
  BY DEF FlushToDB, Up, StorageInv, ChainTypeOK
<1>1. dbStatus' = status
  BY <1>0, FlushAll
<1>2. /\ Verdicts(dbStatus)' /\ (Up => Verdicts(status))' /\ FlagsKept /\ MainInv'
      /\ (Up => \A b \in Blocks : dbStatus[b] \subseteq status[b])'
  BY ZenonT(40), <1>0, <1>1, IndexStep DEF VerdictInv
<1>3. OrphanInv' /\ FastInv' /\ NodeInv'
  BY ZenonT(40), <1>0 DEF VerdictInv, OrphanInv, OrphanHashes, FastInv, NodeInv
<1>4. ReorgInv'
  BY ZenonT(40), <1>0 DEF VerdictInv, ReorgInv, KnownInvalid
<1>5. QED
  BY <1>2, <1>3, <1>4 DEF VerdictInv

\* The block joins the best chain after its check, or fast.
LEMMA ConnectTipVerdicts ==
  ASSUME StorageInv, VerdictInv, ConnectTip
  PROVE  VerdictInv' /\ FlagsKept
<1> USE DEF vars, disk, pool, reorg, call
<1>0. /\ UNCHANGED <<dbBlocks, dbStatus, status, dirty, checkpoint, pool, cur, fastAdd,
                     processHashes, reorg, now, faults, asserted>>
      /\ pc = "tip" /\ Up /\ Up' /\ dbBest' = cur /\ tip' = cur /\ tip = dbBest
      /\ pc' = IF KnownValid(cur) /\ ~fastAdd THEN "accepted" ELSE "markValid"
      /\ cur \in Blocks \ {Genesis} /\ Parent[cur] = dbBest /\ dbBest \in Blocks
  BY ZenonT(40) DEF ConnectTip, ConnectUpdate, Up, StorageInv, ChainTypeOK, CallInv, IndexInv, MemoryMatchesDisk
<1>1. Anc[cur] = Anc[dbBest] \cup {cur}
  BY ZenonT(40), <1>0, AncFacts
<1>2. status[cur] \cap Bad = {} /\ (fastAdd \/ KnownValid(cur))
  BY ZenonT(40), <1>0 DEF VerdictInv, NodeInv, KnownValid
<1>3. Checked(cur) /\ dbStatus[cur] \cap Bad = {}
  BY ZenonT(40), <1>0, <1>2 DEF VerdictInv, Verdicts, KnownValid, FastInv, Checked
<1>4. MainInv'
  BY ZenonT(40), <1>0, <1>1, <1>2, <1>3 DEF VerdictInv, MainInv, KnownValid
<1>5. OrphanInv' /\ FastInv' /\ ReorgInv'
  BY ZenonT(40), <1>0 DEF VerdictInv, OrphanInv, FastInv, ReorgInv
<1>6. NodeInv'
  BY ZenonT(40), <1>0, <1>2 DEF NodeInv
<1>7. FlagsKept
  BY ZenonT(40), <1>0 DEF FlagsKept
<1>8. QED
  BY ZenonT(40), <1>0, <1>4, <1>5, <1>6, <1>7 DEF VerdictInv, Verdicts

\* A block that was added fast is marked valid on top of valid ancestors.
LEMMA MarkValidVerdicts ==
  ASSUME StorageInv, VerdictInv, MarkValid
  PROVE  VerdictInv' /\ FlagsKept
<1> USE DEF vars, disk, chainState, pool, reorg, call
<1> DEFINE st == SetFlag(status, {cur}, "valid")
<1>0. /\ UNCHANGED <<dbBlocks, chainState, checkpoint, pool, call, reorg, now, asserted>>
      /\ pc = "markValid" /\ pc' = "accepted" /\ Up /\ Up'
      /\ SetAndFlush(st, dirty \cup {cur}) /\ cur \in Blocks /\ dirty \cup {cur} \in SUBSET Blocks
      /\ cur = tip /\ tip = dbBest /\ status \in [Blocks -> SUBSET Flags] /\ Verdicts(status)
      /\ status[cur] # {} /\ status[cur] \cap Bad = {} /\ FastChain(cur)
  BY ZenonT(40) DEF MarkValid, Up, StorageInv, ChainTypeOK, CallInv, IndexInv, MemoryMatchesDisk, VerdictInv,
     NodeInv, FastInv
<1>1. /\ st \in [Blocks -> SUBSET Flags] /\ \A b \in Blocks \ {cur} : st[b] = status[b]
      /\ \A b \in Blocks : status[b] \subseteq st[b] /\ (status[b] = {} => st[b] = {})
      /\ "valid" \in st[cur]
  BY <1>0 DEF SetFlag, Flags
<1>2. \A a \in Anc[cur] \ {cur} : "valid" \in status[a]
  BY ZenonT(40), <1>0 DEF VerdictInv, MainInv
<1>3. Verdicts(st)
  <2>1. CASE cur = Genesis
    <3>1. \A b \in Blocks \ {Genesis} : st[b] = status[b]
      BY Zenon, <1>1, <2>1
    <3>2. \A b \in Blocks : \A a \in Anc[b] : a \in Blocks
      BY AncFacts
    <3> HIDE DEF st
    <3>3. QED
      BY ZenonT(40), <1>0, <1>1, <3>1, <3>2 DEF Verdicts
  <2>2. CASE cur # Genesis
    BY <1>0, <1>2, <2>2, ValidFlag, Zenon DEF Checked
  <2>3. QED
    BY <2>1, <2>2
<1>4. Flushed(st, dirty \cup {cur}) = st
  <2> HIDE DEF st
  <2>1. dirty \subseteq dirty \cup {cur} /\ \A b \in Blocks \ (dirty \cup {cur}) : st[b] = status[b]
    BY ZenonT(40), <1>1
  <2>2. QED
    BY <1>0, <1>1, <2>1, FlushAll
<1>5. status' = st /\ (dbStatus' = dbStatus \/ dbStatus' = status')
  BY <1>0, <1>4 DEF SetAndFlush
<1> HIDE DEF st
<1>6. \A a \in Anc[dbBest] : "valid" \in status'[a]
  BY ZenonT(40), <1>0, <1>1, <1>2, <1>5, AncFacts
<1>7. /\ Verdicts(dbStatus)' /\ (Up => Verdicts(status))' /\ FlagsKept /\ MainInv'
      /\ (Up => \A b \in Blocks : dbStatus[b] \subseteq status[b])'
  BY ZenonT(40), <1>0, <1>1, <1>3, <1>5, <1>6, MarkStep
<1>8. QED
  BY ZenonT(40), <1>0, <1>1, <1>5, <1>7, PlainStep DEF VerdictInv

\* Undoing the top block of the old branch on the view, with the stxos of the
\* spend journal, gives the utxo set of its parent.
LEMMA CheckDetachVerdicts ==
  ASSUME StorageInv, VerdictInv, CheckDetach
  PROVE  VerdictInv' /\ FlagsKept
<1> USE DEF vars, disk, chainState, pool, call
<1>0. /\ UNCHANGED <<disk, status, dirty, tip, checkpoint, pool, call, detach, attach, now,
                     faults, asserted>>
      /\ pc = "checkDetach" /\ pc' \in {"checkDetach", "checkAttach"} /\ Up /\ Up'
      /\ cur \in Blocks /\ newBest \in Blocks /\ tip \in Blocks /\ tip = dbBest
      /\ newBest \in Anc[tip] /\ todo = Anc[newBest] \ Anc[cur] /\ view = UtxoAfter[newBest]
      /\ Anc[tip] \cap Anc[cur] \subseteq Anc[newBest] /\ attach = Anc[cur] \ Anc[tip]
  BY ZenonT(40) DEF CheckDetach, Up, StorageInv, ChainTypeOK, IndexInv, MemoryMatchesDisk, VerdictInv, ReorgInv
<1>1. PICK n \in todo :
        /\ Last(n, todo)
        /\ view' = DisconnectTransactions(view, n, dbJournal[n])
        /\ newBest' = Parent[n]
        /\ IF todo = {n} THEN pc' = "checkAttach" /\ todo' = attach
                         ELSE pc' = pc /\ todo' = todo \ {n}
  BY ZenonT(40) DEF CheckDetach
<1>2. /\ n = newBest /\ n \in Blocks \ {Genesis} /\ Parent[n] \in Blocks
      /\ Anc[Parent[n]] \ Anc[cur] = todo \ {n}
  <2>1. Last(n, Anc[newBest] \ Anc[cur])
    BY ZenonT(40), <1>0, <1>1
  <2>2. QED
    BY ZenonT(40), <1>0, <2>1, LastOfBranch
<1>3. view' = UtxoAfter[Parent[n]]
  <2>1. dbJournal[n] = SpentTxOuts(UtxoAfter[Parent[n]], n)
    BY ZenonT(40), <1>0, <1>2 DEF StorageInv, JournalMatchesChain
  <2>2. QED
    BY ZenonT(40), <1>0, <1>1, <1>2, <2>1, DisconnectUndoesConnect
<1>4. /\ Parent[n] \in Anc[tip] /\ Anc[Parent[n]] \subseteq Anc[tip]
      /\ Anc[tip] \cap Anc[cur] \subseteq Anc[Parent[n]]
  <2>1. Anc[n] = Anc[Parent[n]] \cup {n} /\ Parent[n] \in Anc[n] /\ Anc[n] \subseteq Anc[tip]
    BY ZenonT(40), <1>0, <1>2, AncFacts, AncOrder
  <2>2. n \notin Anc[cur]
    BY ZenonT(40), <1>0, <1>1
  <2>3. QED
    BY ZenonT(40), <1>0, <1>2, <2>1, <2>2
<1>5. "valid" \in status[Parent[n]]
  BY ZenonT(40), <1>0, <1>4 DEF VerdictInv, MainInv
<1>6. todo = {n} => Parent[n] \in Anc[cur]
  BY <1>2, AncFacts
<1>7. /\ Verdicts(dbStatus)' /\ (Up => Verdicts(status))' /\ FlagsKept /\ MainInv'
      /\ (Up => \A b \in Blocks : dbStatus[b] \subseteq status[b])'
  BY ZenonT(40), <1>0, IndexStep DEF VerdictInv
<1>8. OrphanInv' /\ FastInv' /\ NodeInv'
  BY ZenonT(40), <1>0 DEF VerdictInv, OrphanInv, FastInv, NodeInv
<1>9. ReorgInv'
  <2>1. /\ attach' = (Anc[cur] \ Anc[tip])' /\ detach' = (Anc[tip] \ Anc[cur])'
        /\ \A k \in attach' : ~KnownInvalid(k)'
    BY ZenonT(40), <1>0 DEF VerdictInv, ReorgInv, KnownInvalid
  <2>2. CASE todo = {n}
    <3>1. todo' = Anc[cur] \ Anc[Parent[n]]
      BY ZenonT(40), <1>0, <1>1, <1>4, <2>2
    <3>2. QED
      BY ZenonT(40), <1>0, <1>1, <1>3, <1>4, <1>5, <1>6, <2>1, <2>2, <3>1 DEF ReorgInv
  <2>3. CASE todo # {n}
    BY ZenonT(40), <1>0, <1>1, <1>2, <1>3, <1>4, <2>1, <2>3 DEF ReorgInv
  <2>4. QED
    BY <2>2, <2>3
<1>10. QED
  BY ZenonT(40), <1>7, <1>8, <1>9 DEF VerdictInv

\* The next block passes the check: it is connected to the view, and marked
\* valid after a check on the utxo set of its own parent.
LEMMA AttachPasses ==
  ASSUME ListFacts, StorageInv, VerdictInv, pc = "checkAttach", NEW n \in todo, First(n, todo),
         UNCHANGED <<chainState, pool, call, dbStatus, detach, attach>>,
         IF KnownValid(n) THEN TRUE ELSE CheckConnectBlock(n, view),
         view' = ConnectTransactions(view, n), newBest' = n, todo' = todo \ {n},
         pc' = IF todo' # {} THEN pc ELSE IF detach # {} THEN "detach" ELSE "attach",
         IF KnownValid(n) THEN UNCHANGED <<status, dirty>>
         ELSE status' = SetFlag(status, {n}, "valid") /\ dirty' = dirty \cup {n}
  PROVE  VerdictInv' /\ FlagsKept
<1>0. /\ cur \in Blocks /\ tip \in Blocks /\ Up
      /\ newBest \in Blocks /\ Anc[tip] \cap Anc[cur] \subseteq Anc[newBest]
      /\ attach = Anc[cur] \ Anc[tip] /\ detach = Anc[tip] \ Anc[cur]
      /\ \A k \in attach : ~KnownInvalid(k)
      /\ status \in [Blocks -> SUBSET Flags] /\ Verdicts(status)
  BY ZenonT(40) DEF Up, StorageInv, ChainTypeOK, IndexInv, MemoryMatchesDisk, VerdictInv, ReorgInv
<1>1. UNCHANGED <<tip, dbBest, orphans, cur, fastAdd, processHashes, dbStatus, detach, attach>>
  BY DEF chainState, pool, call
<1>2. /\ n \in Blocks \ {Genesis} /\ n \in Anc[cur] /\ Parent[n] = newBest
      /\ Anc[cur] \ Anc[n] = todo \ {n}
      /\ Anc[n] = Anc[newBest] \cup {n} /\ n \notin Anc[newBest]
      /\ UtxoAfter[n] = ConnectTransactions(view, n) /\ view = UtxoAfter[newBest]
      /\ status[n] \cap Bad = {} /\ status[n] # {}
      /\ \A a \in Anc[newBest] : "valid" \in status[a]
      /\ newBest # Genesis => Checked(newBest)
  BY ZenonT(40), AttachNext
<1>3. /\ \A b \in Blocks \ {n} : status'[b] = status[b]
      /\ status'[n] = status[n] \cup {"valid"}
  <2>1. CASE KnownValid(n)
    BY <2>1 DEF KnownValid
  <2>2. CASE ~KnownValid(n)
    BY ZenonT(40), <1>0, <1>2, <2>2 DEF SetFlag
  <2>3. QED
    BY ZenonT(40), <2>1, <2>2
<1>4. Verdicts(status')
  <2>1. CASE KnownValid(n)
    BY ZenonT(40), <1>0, <2>1
  <2>2. CASE ~KnownValid(n)
    <3>1. Checked(n)
      BY ZenonT(40), <1>0, <1>2, <2>2, CheckedChild
    <3>2. \A a \in Anc[n] \ {n} : "valid" \in status[a]
      BY ZenonT(40), <1>2
    <3>3. status' = SetFlag(status, {n}, "valid") /\ "valid" \notin status[n]
      BY ZenonT(40), <2>2 DEF KnownValid
    <3>4. QED
      BY ZenonT(40), <1>0, <1>2, <3>1, <3>2, <3>3, ValidFlag
  <2>3. QED
    BY <2>1, <2>2
<1>5. pc' \in {"checkAttach", "detach", "attach"} /\ Up'
  BY DEF Up
<1>6. \A b \in Blocks : status[b] \subseteq status'[b]
  BY ZenonT(40), <1>3
<1>7. /\ Verdicts(dbStatus)' /\ (Up => Verdicts(status))' /\ FlagsKept /\ MainInv'
      /\ (Up => \A b \in Blocks : dbStatus[b] \subseteq status[b])'
  BY ZenonT(40), <1>0, <1>1, <1>4, <1>5, <1>6, IndexStep
<1>8. OrphanInv'
  <2>1. \A i \in DOMAIN orphans : orphans[i].hash \in Blocks
    BY OrphanHashType
  <2>2. QED
    BY ZenonT(40), <1>1, <1>2, <1>3, <1>5, <2>1 DEF VerdictInv, OrphanInv
<1>9. FastInv' /\ NodeInv'
  BY ZenonT(40), <1>1, <1>5 DEF VerdictInv, FastInv, NodeInv
<1>10. /\ \A k \in attach : status'[k] \cap Bad = {}
       /\ \A k \in Anc[n] : "valid" \in status'[k]
  <2>1. \A k \in Anc[cur] : k \in Blocks
    BY ZenonT(40), <1>0, AncFacts
  <2>2. \A k \in attach : k \in Blocks /\ status[k] \cap Bad = {}
    BY ZenonT(40), <1>0, <2>1 DEF KnownInvalid, Bad
  <2>3. \A k \in Anc[n] : k \in Blocks
    BY ZenonT(40), <1>2, AncFacts
  <2>4. QED
    BY ZenonT(40), <1>2, <1>3, <2>2, <2>3 DEF Bad
<1>11. ReorgInv'
  <2>1. \A k \in attach : ~KnownInvalid(k)'
    BY ZenonT(40), <1>10 DEF KnownInvalid, Bad
  <2>2. Anc[tip] \cap Anc[cur] \subseteq Anc[n] /\ n \in Anc[n]
    BY ZenonT(40), <1>0, <1>2
  <2>3. pc' # "checkAttach" => Anc[cur] \subseteq Anc[n] /\ (pc' = "attach" => detach = {})
    BY ZenonT(40), <1>2
  <2>4. detach = {} => tip \in Anc[cur]
    BY ZenonT(40), <1>0, AncFacts
  <2>5. \A k \in attach : pc' # "checkAttach" => "valid" \in status'[k]
    BY ZenonT(40), <1>0, <1>10, <2>3
  <2>6. QED
    BY ZenonT(40), <1>0, <1>1, <1>2, <1>5, <1>10, <2>1, <2>2, <2>3, <2>4, <2>5 DEF ReorgInv
<1>12. QED
  BY ZenonT(40), <1>7, <1>8, <1>9, <1>11 DEF VerdictInv

\* The next block fails the check: it is marked invalid, and so are the blocks
\* above it.
LEMMA AttachFails ==
  ASSUME ListFacts, StorageInv, VerdictInv, pc = "checkAttach", NEW n \in todo, First(n, todo),
         UNCHANGED <<chainState, pool>>, Return, ~KnownValid(n), ~CheckConnectBlock(n, view),
         SetAndFlush(SetFlag(SetFlag(status, {n}, "failed"), todo \ {n}, "badAncestor"),
                     dirty \cup todo)
  PROVE  VerdictInv' /\ FlagsKept
<1> DEFINE st == SetFlag(SetFlag(status, {n}, "failed"), todo \ {n}, "badAncestor")
<1>0. /\ Up /\ pc # "markValid" /\ status \in [Blocks -> SUBSET Flags] /\ dirty \subseteq Blocks
      /\ Verdicts(status) /\ todo \subseteq Blocks /\ \A b \in todo : status[b] # {}
      /\ UNCHANGED <<chainState, pool>>
  BY ZenonT(40) DEF Up, StorageInv, ChainTypeOK, CallInv, IndexInv, VerdictInv
<1>1. Verdicts(st)
  <2>1. /\ n \in Blocks \ {Genesis} /\ ~CheckConnectBlock(n, UtxoAfter[Parent[n]])
        /\ "valid" \notin status[n]
        /\ todo \ {n} \in SUBSET Blocks /\ \A m \in todo \ {n} : m # n /\ n \in Anc[m]
    BY ZenonT(40), <1>0, AttachNext DEF KnownValid
  <2>2. QED
    BY ZenonT(40), <1>0, <2>1, InvalidFlags
<1>2. /\ st \in [Blocks -> SUBSET Flags] /\ \A b \in Blocks \ todo : st[b] = status[b]
      /\ \A b \in Blocks : status[b] \subseteq st[b]
  BY ZenonT(40), <1>0 DEF SetFlag, Flags
<1>3. SetAndFlush(st, dirty \cup todo)
  BY ZenonT(40)
<1> HIDE DEF st
<1>4. \A b \in Blocks : status[b] = {} => st[b] = {}
  BY ZenonT(40), <1>0, <1>2
<1>5. Up' /\ dbBest' = dbBest
  BY ZenonT(40), <1>0, ReturnFacts DEF Up, Return, chainState
<1>6. /\ dirty \cup todo \in SUBSET Blocks /\ dirty \subseteq dirty \cup todo
      /\ \A b \in Blocks \ (dirty \cup todo) : st[b] = status[b]
  BY ZenonT(40), <1>0, <1>2
<1>7. /\ Verdicts(dbStatus)' /\ (Up => Verdicts(status))' /\ FlagsKept /\ MainInv'
      /\ (Up => \A b \in Blocks : dbStatus[b] \subseteq status[b])' /\ status' = st
  BY ZenonT(40), <1>0, <1>1, <1>2, <1>3, <1>5, <1>6, FlagStep
<1>8. OrphanInv' /\ FastInv' /\ NodeInv' /\ ReorgInv'
  BY ZenonT(40), <1>0, <1>4, <1>7, PlainStep DEF chainState, pool
<1>9. QED
  BY ZenonT(40), <1>7, <1>8 DEF VerdictInv

\* The check phase connects the next block of the new branch to its view: the
\* block is marked valid after a check on the utxo set of its own parent, and
\* it or a block above it is marked invalid only after that check failed.
LEMMA CheckAttachVerdicts ==
  ASSUME ListFacts, StorageInv, VerdictInv, CheckAttach
  PROVE  VerdictInv' /\ FlagsKept
<1>0. pc = "checkAttach" /\ UNCHANGED <<chainState, pool>>
  BY DEF CheckAttach
<1>1. PICK n \in todo :
        /\ First(n, todo)
        /\ \/ SetAndFlush(status, dirty) /\ AssertError
           \/ /\ IF KnownValid(n) THEN TRUE ELSE CheckConnectBlock(n, view)
              /\ view' = ConnectTransactions(view, n) /\ newBest' = n /\ todo' = todo \ {n}
              /\ pc' = IF todo' # {} THEN pc ELSE IF detach # {} THEN "detach" ELSE "attach"
              /\ IF KnownValid(n) THEN UNCHANGED <<status, dirty>>
                 ELSE status' = SetFlag(status, {n}, "valid") /\ dirty' = dirty \cup {n}
              /\ UNCHANGED <<dbStatus, call, detach, attach>>
           \/ /\ ~KnownValid(n) /\ ~CheckConnectBlock(n, view)
              /\ SetAndFlush(SetFlag(SetFlag(status, {n}, "failed"), todo \ {n}, "badAncestor"),
                             dirty \cup todo)
              /\ Return
  BY ZenonT(40) DEF CheckAttach
<1>2. CASE SetAndFlush(status, dirty) /\ AssertError
  <2>1. Up /\ pc # "markValid" /\ status \in [Blocks -> SUBSET Flags] /\ dirty \subseteq Blocks /\ Verdicts(status)
    BY ZenonT(40), <1>0 DEF Up, StorageInv, ChainTypeOK, IndexInv, VerdictInv
  <2>2. Return /\ Up' /\ dbBest' = dbBest
    BY ZenonT(40), <1>0, <1>2, <2>1, ReturnFacts DEF AssertError, Up, Return, chainState
  <2>3. /\ Verdicts(dbStatus)' /\ (Up => Verdicts(status))' /\ FlagsKept /\ MainInv'
        /\ (Up => \A b \in Blocks : dbStatus[b] \subseteq status[b])' /\ status' = status
    BY ZenonT(40), <1>2, <2>1, <2>2, FlagStep
  <2>4. OrphanInv' /\ FastInv' /\ NodeInv' /\ ReorgInv'
    BY ZenonT(40), <1>0, <2>1, <2>2, <2>3, PlainStep DEF chainState, pool
  <2>5. QED
    BY ZenonT(40), <2>3, <2>4 DEF VerdictInv
<1>3. QED
  BY ZenonT(40), <1>0, <1>1, <1>2, AttachPasses, AttachFails

\* A block leaves the best chain: the chain of its parent was checked too.
LEMMA DisconnectBlockVerdicts ==
  ASSUME StorageInv, VerdictInv, DisconnectBlock
  PROVE  VerdictInv' /\ FlagsKept
<1> USE DEF vars, disk, pool, call
<1>0. /\ UNCHANGED <<dbBlocks, dbStatus, status, dirty, checkpoint, pool, now, faults>>
      /\ pc = "detach" /\ Up /\ cur \in Blocks /\ tip \in Blocks /\ tip = dbBest
      /\ attach = Anc[cur] \ Anc[tip] /\ detach = Anc[tip] \ Anc[cur]
      /\ \A k \in attach : ~KnownInvalid(k) /\ "valid" \in status[k]
      /\ Verdicts(status)
  BY ZenonT(40) DEF DisconnectBlock, Up, StorageInv, ChainTypeOK, IndexInv, MemoryMatchesDisk, VerdictInv, ReorgInv
<1>1. PICK n \in detach :
        /\ Last(n, detach)
        /\ \/ AssertError /\ UNCHANGED chainState
           \/ /\ dbBest' = Parent[n] /\ tip' = Parent[n]
              /\ detach' = detach \ {n} /\ pc' = IF detach' = {} THEN "attach" ELSE "detach"
              /\ UNCHANGED <<call, attach, todo, view, newBest, asserted>>
  BY DEF DisconnectBlock, DisconnectUpdate
<1>2. FlagsKept
  BY ZenonT(40), <1>0 DEF FlagsKept
<1>3. CASE AssertError /\ UNCHANGED chainState
  <2>1. Return /\ Up' /\ dbBest' = dbBest
    BY ZenonT(40), <1>0, <1>3, ReturnFacts DEF AssertError, Up, Return, chainState
  <2>2. /\ Verdicts(dbStatus)' /\ (Up => Verdicts(status))' /\ MainInv'
        /\ (Up => \A b \in Blocks : dbStatus[b] \subseteq status[b])'
    BY ZenonT(40), <1>0, <2>1, IndexStep
  <2>3. OrphanInv' /\ FastInv' /\ NodeInv' /\ ReorgInv'
    BY ZenonT(40), <1>0, <2>1, PlainStep
  <2>4. QED
    BY ZenonT(40), <1>2, <2>2, <2>3 DEF VerdictInv
<1>4. CASE /\ dbBest' = Parent[n] /\ tip' = Parent[n]
           /\ detach' = detach \ {n} /\ pc' = IF detach' = {} THEN "attach" ELSE "detach"
           /\ UNCHANGED <<call, attach, todo, view, newBest, asserted>>
  <2>1. /\ n = tip /\ n \in Blocks \ {Genesis} /\ Parent[n] \in Blocks
        /\ Anc[Parent[n]] \ Anc[cur] = detach \ {n}
    <3>1. Last(n, Anc[tip] \ Anc[cur])
      BY ZenonT(40), <1>0, <1>1
    <3>2. QED
      BY <1>0, <3>1, LastOfBranch
  <2>2. /\ Anc[tip] = Anc[Parent[n]] \cup {n} /\ n \notin Anc[cur]
        /\ (detach \ {n} = {} => Parent[n] \in Anc[cur])
    BY ZenonT(40), <1>0, <1>1, <2>1, AncFacts
  <2>3. Up' /\ pc' \in {"detach", "attach"} /\ (pc' = "attach" => detach \ {n} = {})
    BY <1>4 DEF Up
  <2>4. MainInv'
    BY ZenonT(40), <1>0, <1>4, <2>1, <2>2, <2>3 DEF VerdictInv, MainInv
  <2>5. OrphanInv' /\ FastInv' /\ NodeInv'
    BY ZenonT(40), <1>0, <1>4, <2>3 DEF VerdictInv, OrphanInv, FastInv, NodeInv
  <2>6. attach' = Anc[cur] \ Anc[Parent[n]] /\ detach' = Anc[Parent[n]] \ Anc[cur]
    BY <1>0, <1>4, <2>1, <2>2
  <2>7. ReorgInv'
    BY ZenonT(40), <1>0, <1>4, <2>2, <2>3, <2>6 DEF ReorgInv, KnownInvalid
  <2>8. Verdicts(dbStatus)' /\ (Up => Verdicts(status) /\ \A b \in Blocks : dbStatus[b] \subseteq status[b])'
    BY ZenonT(40), <1>0 DEF VerdictInv
  <2>9. QED
    BY ZenonT(40), <1>2, <2>4, <2>5, <2>7, <2>8 DEF VerdictInv
<1>5. QED
  BY <1>1, <1>3, <1>4

\* A block joins the best chain in a reorganization: the check phase found it
\* valid.
LEMMA ConnectBlockVerdicts ==
  ASSUME ListFacts, StorageInv, VerdictInv, ConnectBlock
  PROVE  VerdictInv' /\ FlagsKept
<1> USE DEF vars, disk, pool
<1>0. /\ UNCHANGED <<dbBlocks, dbStatus, status, dirty, checkpoint, pool, now, faults>>
      /\ pc = "attach" /\ Up /\ cur \in Blocks /\ tip \in Blocks /\ tip = dbBest /\ tip \in Anc[cur]
      /\ attach = Anc[cur] \ Anc[tip] /\ detach = Anc[tip] \ Anc[cur]
      /\ \A k \in attach : ~KnownInvalid(k) /\ "valid" \in status[k]
      /\ Verdicts(status) /\ \A b \in Blocks : dbStatus[b] \subseteq status[b]
  BY ZenonT(40) DEF ConnectBlock, Up, StorageInv, ChainTypeOK, IndexInv, MemoryMatchesDisk, VerdictInv, ReorgInv
<1>1. PICK n \in attach :
        /\ First(n, attach)
        /\ \/ AssertError /\ UNCHANGED chainState
           \/ /\ dbBest' = n /\ tip' = n
              /\ attach' = attach \ {n} /\ pc' = IF attach' = {} THEN "accepted" ELSE "attach"
              /\ UNCHANGED <<cur, fastAdd, processHashes, detach, todo, view, newBest>>
  BY DEF ConnectBlock, ConnectUpdate
<1>2. FlagsKept
  BY ZenonT(40), <1>0 DEF FlagsKept
<1>3. CASE AssertError /\ UNCHANGED chainState
  <2>1. Return /\ Up' /\ dbBest' = dbBest
    BY ZenonT(40), <1>0, <1>3, ReturnFacts DEF AssertError, Up, Return, chainState
  <2>2. /\ Verdicts(dbStatus)' /\ (Up => Verdicts(status))' /\ MainInv'
        /\ (Up => \A b \in Blocks : dbStatus[b] \subseteq status[b])'
    BY ZenonT(40), <1>0, <2>1, IndexStep
  <2>3. OrphanInv' /\ FastInv' /\ NodeInv' /\ ReorgInv'
    BY ZenonT(40), <1>0, <2>1, PlainStep
  <2>4. QED
    BY ZenonT(40), <1>2, <2>2, <2>3 DEF VerdictInv
<1>4. CASE /\ dbBest' = n /\ tip' = n
           /\ attach' = attach \ {n} /\ pc' = IF attach' = {} THEN "accepted" ELSE "attach"
           /\ UNCHANGED <<cur, fastAdd, processHashes, detach, todo, view, newBest>>
  <2>1. /\ n \in Blocks \ {Genesis} /\ n \in Anc[cur] /\ Parent[n] = tip
        /\ Anc[cur] \ Anc[n] = attach \ {n}
    <3>1. First(n, Anc[cur] \ Anc[tip]) /\ cur \in Blocks /\ tip \in Anc[cur]
      BY ZenonT(40), <1>0, <1>1
    <3>2. /\ n \in Blocks \ {Genesis} /\ n \in Anc[cur] /\ Parent[n] = tip
          /\ Anc[cur] \ Anc[n] = (Anc[cur] \ Anc[tip]) \ {n}
          /\ \A m \in (Anc[cur] \ Anc[tip]) \ {n} : n \in Anc[m]
      BY Zenon, <3>1, FirstOfBranch
    <3>3. QED
      BY ZenonT(40), <1>0, <3>2
  <2>2. Anc[n] = Anc[tip] \cup {n} /\ Anc[n] \subseteq Anc[cur]
    BY ZenonT(40), <1>0, <2>1, AncFacts, AncOrder
  <2>3. Up' /\ pc' \in {"accepted", "attach"}
    BY <1>4 DEF Up
  <2>4. Checked(n) /\ dbStatus[n] \cap Bad = {} /\ "valid" \in status[n]
    BY ZenonT(40), <1>0, <1>1, <2>1 DEF Verdicts
  <2>5. MainInv'
    BY ZenonT(40), <1>0, <1>4, <2>2, <2>3, <2>4 DEF VerdictInv, MainInv
  <2>6. OrphanInv' /\ FastInv' /\ NodeInv'
    BY ZenonT(40), <1>0, <1>4, <2>3 DEF VerdictInv, OrphanInv, FastInv, NodeInv
  <2>7. attach' = Anc[cur] \ Anc[n] /\ detach' = Anc[n] \ Anc[cur]
    BY ZenonT(40), <1>0, <1>4, <2>1, <2>2
  <2>8. ReorgInv'
    BY ZenonT(40), <1>0, <1>4, <2>1, <2>3, <2>7 DEF ReorgInv, KnownInvalid
  <2>9. Verdicts(dbStatus)' /\ (Up => Verdicts(status) /\ \A b \in Blocks : dbStatus[b] \subseteq status[b])'
    BY ZenonT(40), <1>0 DEF VerdictInv
  <2>10. QED
    BY ZenonT(40), <1>2, <2>5, <2>6, <2>8, <2>9 DEF VerdictInv
<1>5. QED
  BY ZenonT(40), <1>1, <1>3, <1>4

\* A transaction fails: the verdicts in memory stay, and reach the disk or not.
LEMMA UpdateFailsVerdicts ==
  ASSUME StorageInv, VerdictInv, UpdateFails
  PROVE  VerdictInv' /\ FlagsKept
<1> USE DEF chainState, pool
<1>0. /\ UNCHANGED <<dbBlocks, chainState, status, checkpoint, pool, now, asserted>>
      /\ Up /\ Up' /\ pc # "markValid" /\ Return
      /\ dbStatus' = dbStatus \/ dbStatus' = Flushed(status, dirty)
      /\ status \in [Blocks -> SUBSET Flags] /\ dirty \in SUBSET Blocks
  BY ZenonT(40), ReturnFacts DEF UpdateFails, Up, Return, StorageInv, ChainTypeOK
<1>1. dbStatus' = dbStatus \/ dbStatus' = status
  BY <1>0, FlushAll
<1>2. /\ Verdicts(dbStatus)' /\ (Up => Verdicts(status))' /\ FlagsKept /\ MainInv'
      /\ (Up => \A b \in Blocks : dbStatus[b] \subseteq status[b])'
  BY ZenonT(40), <1>0, <1>1, IndexStep DEF VerdictInv
<1>3. OrphanInv' /\ FastInv' /\ NodeInv' /\ ReorgInv'
  BY ZenonT(40), <1>0, PlainStep
<1>4. QED
  BY <1>2, <1>3 DEF VerdictInv

\* A crash leaves the verdicts on the disk.
LEMMA CrashVerdicts ==
  ASSUME StorageInv, VerdictInv, Crash
  PROVE  VerdictInv' /\ FlagsKept
<1>1. /\ UNCHANGED <<dbStatus, dbBest>> /\ pc' = "down" /\ orphans' = <<>> /\ processHashes' = <<>>
      /\ fastAdd' = FALSE /\ \A b \in Blocks : status'[b] = {}
  BY DEF Crash, disk
<1>2. ~Up' /\ FlagsKept
  BY ZenonT(40), <1>1 DEF Up, FlagsKept
<1>3. MainInv'
  BY ZenonT(40), <1>1, <1>2 DEF VerdictInv, MainInv
<1>4. OrphanInv'
  BY <1>1 DEF OrphanInv
<1>5. FastInv' /\ NodeInv' /\ ReorgInv'
  BY <1>1 DEF FastInv, NodeInv, ReorgInv
<1>6. QED
  BY ZenonT(40), <1>1, <1>2, <1>3, <1>4, <1>5 DEF VerdictInv

\* initChainState marks the ancestors of the stored tip valid: they all were
\* checked, and none of them is marked invalid on the disk.
LEMMA RestartVerdicts ==
  ASSUME StorageInv, VerdictInv, Restart
  PROVE  VerdictInv' /\ FlagsKept
<1> DEFINE loaded == SetFlag(dbStatus, Anc[dbBest], "valid")
           d == {b \in Anc[dbBest] : "valid" \notin dbStatus[b]}
<1>0. /\ UNCHANGED <<dbBest, orphans, cur, fastAdd, processHashes, detach, attach, todo, view, newBest>>
      /\ pc = "down" /\ orphans = <<>> /\ processHashes = <<>> /\ dbBest \in Blocks
      /\ dbStatus \in [Blocks -> SUBSET Flags] /\ Verdicts(dbStatus)
      /\ \A a \in Anc[dbBest] \ {Genesis} : Checked(a) /\ dbStatus[a] \cap Bad = {}
  BY ZenonT(40) DEF Restart, pool, call, reorg, VerdictInv, OrphanInv, FastInv, StorageInv, ChainTypeOK, MainInv
<1>1. CASE ~Up' /\ UNCHANGED <<status, dbStatus>> /\ pc' \in {"down", "corrupt"}
  <2>1. MainInv' /\ OrphanInv' /\ FastInv' /\ NodeInv' /\ ReorgInv'
    BY ZenonT(40), <1>0, <1>1 DEF VerdictInv, MainInv, OrphanInv, FastInv, NodeInv, ReorgInv
  <2>2. QED
    BY ZenonT(40), <1>1, <2>1 DEF VerdictInv, FlagsKept
<1>2. CASE pc' = "idle" /\ status' = loaded /\ dbStatus' = Flushed(loaded, d)
  <2>1. /\ loaded \in [Blocks -> SUBSET Flags] /\ d \in SUBSET Blocks
        /\ \A b \in Blocks \ d : loaded[b] = dbStatus[b]
        /\ \A b \in Blocks : dbStatus[b] \subseteq loaded[b] /\ loaded[b] \cap Bad = dbStatus[b] \cap Bad
        /\ \A b \in Blocks : "failed" \in loaded[b] <=> "failed" \in dbStatus[b]
        /\ \A b \in Blocks : "badAncestor" \in loaded[b] <=> "badAncestor" \in dbStatus[b]
        /\ \A b \in Blocks : "valid" \in loaded[b] <=> "valid" \in dbStatus[b] \/ b \in Anc[dbBest]
    <3>1. Anc[dbBest] \in SUBSET Blocks
      BY ZenonT(40), <1>0, AncFacts
    <3>2. \A b \in Blocks : loaded[b] = IF b \in Anc[dbBest] THEN dbStatus[b] \cup {"valid"} ELSE dbStatus[b]
      BY ZenonT(40), <1>0 DEF SetFlag
    <3>3. loaded \in [Blocks -> SUBSET Flags] /\ d \in SUBSET Blocks
      BY ZenonT(40), <1>0, <3>1 DEF SetFlag, Flags
    <3>4. \A b \in Blocks \ d : loaded[b] = dbStatus[b]
      BY ZenonT(40), <3>2
    <3> HIDE DEF loaded, d
    <3>5. \A b \in Blocks : dbStatus[b] \subseteq loaded[b] /\ loaded[b] \cap Bad = dbStatus[b] \cap Bad
      BY ZenonT(40), <3>2 DEF Bad
    <3>6. QED
      BY <3>2, <3>3, <3>4, <3>5
  <2>2. \A b \in Blocks : \A a \in Anc[b] : a \in Blocks /\ Anc[a] \subseteq Anc[b]
    BY AncOrder
  <2> HIDE DEF loaded, d
  <2>3. Verdicts(loaded)
    <3> SUFFICES ASSUME NEW b \in Blocks \ {Genesis}
                 PROVE  /\ "failed" \in loaded[b] => ~CheckConnectBlock(b, UtxoAfter[Parent[b]])
                        /\ "badAncestor" \in loaded[b] =>
                             \E a \in Anc[b] \ {b} : "failed" \in loaded[a]
                        /\ "valid" \in loaded[b] => /\ Checked(b) /\ loaded[b] \cap Bad = {}
                                                    /\ \A a \in Anc[b] : "valid" \in loaded[a]
      BY Zenon DEF Verdicts
    <3>1. /\ "failed" \in loaded[b] => ~CheckConnectBlock(b, UtxoAfter[Parent[b]])
          /\ "badAncestor" \in loaded[b] => \E a \in Anc[b] \ {b} : "failed" \in loaded[a]
      BY ZenonT(40), <1>0, <2>1, <2>2 DEF Verdicts
    <3>2. CASE "valid" \in dbStatus[b]
      BY ZenonT(40), <1>0, <2>1, <2>2, <3>1, <3>2 DEF Verdicts
    <3>3. CASE b \in Anc[dbBest]
      BY ZenonT(40), <1>0, <2>1, <2>2, <3>1, <3>3
    <3>4. QED
      BY ZenonT(40), <2>1, <3>1, <3>2, <3>3
  <2>4. dbStatus' = loaded
    BY ZenonT(40), <1>0, <1>2, <2>1, FlushedIsStatus
  <2>5. MainInv'
    <3>1. \A a \in Anc[dbBest] : a \in Blocks
      BY ZenonT(40), <1>0, <2>2
    <3>2. QED
      BY ZenonT(40), <1>0, <1>2, <2>1, <2>4, <3>1 DEF MainInv
  <2>6. OrphanInv'
    BY <1>0, <1>2 DEF OrphanInv
  <2>7. FastInv' /\ NodeInv' /\ ReorgInv'
    BY ZenonT(40), <1>0, <1>2 DEF VerdictInv, FastInv, NodeInv, ReorgInv
  <2>8. QED
    BY ZenonT(40), <1>2, <2>1, <2>3, <2>4, <2>5, <2>6, <2>7 DEF VerdictInv, FlagsKept
<1>3. QED
  BY ZenonT(40), <1>0, <1>1, <1>2 DEF Restart, Up

\* The clock, and a step of another part of the node, change nothing here.
LEMMA StutterVerdicts ==
  ASSUME VerdictInv, UNCHANGED <<disk, status, tip, orphans, pc, call, reorg>>
  PROVE  VerdictInv' /\ FlagsKept
<1> USE DEF disk, call, reorg
<1>1. FlagsKept /\ (Verdicts(dbStatus) /\ (Up => Verdicts(status)
      /\ \A b \in Blocks : dbStatus[b] \subseteq status[b]))'
  BY ZenonT(40) DEF FlagsKept, VerdictInv, Up
<1>2. MainInv' /\ OrphanInv'
  BY ZenonT(40) DEF VerdictInv, MainInv, Up, OrphanInv, OrphanHashes
<1>3. FastInv' /\ NodeInv' /\ ReorgInv'
  BY ZenonT(40) DEF VerdictInv, FastInv, NodeInv, ReorgInv, KnownInvalid
<1>4. QED
  BY ZenonT(40), <1>1, <1>2, <1>3 DEF VerdictInv

\* The inductive invariant of the verdicts, preserved by every step.
LEMMA VerdictStep ==
  ASSUME ListFacts, StorageInv, VerdictInv, [Next]_vars
  PROVE  VerdictInv' /\ FlagsKept
<1>1. CASE UNCHANGED vars \/ Tick
  BY <1>1, StutterVerdicts DEF vars, Tick, pool
<1>2. ASSUME NEW b \in Blocks \ {Genesis},
             NEW fast \in {FALSE} \cup (IF b \in FastBlocks THEN {TRUE} ELSE {}),
             ProcessBlock(b, fast)
      PROVE  VerdictInv' /\ FlagsKept
  <2>1. fast \in BOOLEAN /\ (fast => b \in FastBlocks)
    BY Zenon
  <2>2. QED
    BY <1>2, <2>1, ProcessBlockVerdicts
<1>3. CASE Step
  BY ZenonT(40), <1>3, MaybeAcceptBlockVerdicts, AddNodeVerdicts, ProcessOrphansVerdicts,
     ExtendBestChainVerdicts, ExtendSideChainVerdicts, ReorganizeRefusedVerdicts,
     ReorganizeBeginVerdicts, FlushToDBVerdicts, ConnectTipVerdicts, MarkValidVerdicts,
     CheckDetachVerdicts, CheckAttachVerdicts, DisconnectBlockVerdicts, ConnectBlockVerdicts
     DEF Step
<1>4. CASE UpdateFails \/ Crash \/ Restart
  BY <1>4, UpdateFailsVerdicts, CrashVerdicts, RestartVerdicts
<1>5. QED
  BY <1>1, <1>2, <1>3, <1>4, Zenon DEF Next
=============================================================================
