--------------------------- MODULE BlockChainProofs ---------------------------
(***************************************************************************)
(* For every block tree: whatever the order of blocks, failed transactions  *)
(* and crashes, the database of the node describes one chain, and the node  *)
(* can always be started again from it.  The facts about trees and the      *)
(* invariant of the verdicts are here too, for VerdictProofs and            *)
(* BestChainProofs.                                                         *)
(***************************************************************************)
EXTENDS BlockChain, TLAPS

----------------------------------------------------------------------------
(* The utxo set under connect and disconnect, and the tree. *)

\* Disconnecting a block with the stxos its connection left in the spend
\* journal gives back the utxo set of its parent.
LEMMA DisconnectUndoesConnect ==
  ASSUME NEW b \in Blocks \ {Genesis}
  PROVE  DisconnectTransactions(UtxoAfter[b], b, SpentTxOuts(UtxoAfter[Parent[b]], b))
           = UtxoAfter[Parent[b]]
<1> DEFINE u == UtxoAfter[Parent[b]]
<1>1. UtxoAfter[b] = ConnectTransactions(u, b)
  BY TreeAssumption
<1>2. \A e \in u : e[1] \notin Creates[b]
  BY NoOverwriteAssumption DEF Ops
<1>3. \A e \in Creates[b] \X {Height[b]} : e[1] \in Creates[b]
  OBVIOUS
<1> HIDE DEF u
<1>4. DisconnectTransactions(ConnectTransactions(u, b), b, SpentTxOuts(u, b)) = u
  BY <1>2, <1>3 DEF DisconnectTransactions, ConnectTransactions, SpentTxOuts
<1>5. QED
  BY <1>1, <1>4 DEF u

\* The tree around a block: itself and its parent are among its ancestors.
LEMMA AncFacts ==
  /\ \A b \in Blocks : b \in Anc[b] /\ Genesis \in Anc[b] /\ Anc[b] \subseteq Blocks
  /\ \A b \in Blocks \ {Genesis} :
       /\ Parent[b] \in Blocks /\ Parent[b] \in Anc[b] /\ b \notin Anc[Parent[b]]
       /\ Anc[b] = Anc[Parent[b]] \cup {b}
  /\ Anc[Genesis] = {Genesis}
BY ParentAssumption, TreeAssumption

----------------------------------------------------------------------------
(* Numbers and lists. *)

\* What the proofs need of natural numbers and of lists, which ListProofs proves: a
\* set of natural numbers has a least element, and the entries that Kept keeps are
\* entries of the list.  The steps are proved from it, so that the theorems about
\* finite sets are not in their way.
ListFacts ==
  /\ \A T : (\A x \in T : x \in Nat) /\ T # {} => \E x \in T : \A y \in T : x <= y
  /\ \A S : \A s \in Seq(S) : \A I \in SUBSET (DOMAIN s) :
       /\ Kept(s, I) \in Seq(S)
       /\ \A k \in DOMAIN Kept(s, I) : \E i \in I : Kept(s, I)[k] = s[i]

\* A nonempty set of natural numbers has a least element.
LEMMA LeastNumber ==
  ASSUME ListFacts, NEW T, \A x \in T : x \in Nat, T # {}
  PROVE  \E x \in T : \A y \in T : x <= y
BY Zenon DEF ListFacts

\* What Kept keeps of a list is a list of its entries.
LEMMA KeptOnly ==
  ASSUME ListFacts, NEW S, NEW s \in Seq(S), NEW I \in SUBSET (DOMAIN s)
  PROVE  /\ Kept(s, I) \in Seq(S)
         /\ \A k \in DOMAIN Kept(s, I) : \E i \in I : Kept(s, I)[k] = s[i]
BY Zenon DEF ListFacts

----------------------------------------------------------------------------
(* The tree. *)

\* Of two ancestors of a block one is an ancestor of the other.
LEMMA Linear ==
  ASSUME ListFacts, NEW b \in Blocks, NEW a \in Anc[b], NEW c \in Anc[b]
  PROVE  a \in Anc[c] \/ c \in Anc[a]
<1> DEFINE L(x) == \A d, e \in Anc[x] : d \in Anc[e] \/ e \in Anc[d]
           T == {Height[x] : x \in {y \in Blocks : ~L(y)}}
<1>1. CASE \A x \in Blocks : L(x)
  BY <1>1
<1>2. CASE \E x \in Blocks : ~L(x)
  <2>1. T # {} /\ \A h \in T : h \in Nat
    BY <1>2, TreeAssumption
  <2>2. PICK h \in T : \A k \in T : h <= k
    <3> HIDE DEF T
    <3>1. QED
      BY <2>1, LeastNumber
  <2>3. PICK x \in Blocks : Height[x] = h /\ ~L(x)
    OBVIOUS
  <2>4. x # Genesis
    BY <2>3, AncFacts
  <2>5. Parent[x] \in Blocks /\ Height[Parent[x]] < Height[x]
    BY ZenonT(40), <2>4, AncFacts, TreeAssumption
  <2>6. L(Parent[x])
    <3>1. CASE ~L(Parent[x])
      <4>1. Height[Parent[x]] \in T
        BY ZenonT(40), <2>5, <3>1
      <4>2. h <= Height[Parent[x]]
        BY <2>2, <4>1
      <4>3. QED
        BY <2>3, <2>5, <4>2, TreeAssumption
    <3>2. QED
      BY <3>1
  <2>7. Anc[x] = Anc[Parent[x]] \cup {x}
    BY <2>4, AncFacts
  <2>8. L(x)
    BY <2>6, <2>7
  <2>9. QED
    BY <2>3, <2>8
<1>3. QED
  BY <1>1, <1>2

\* The ancestors of an ancestor, and the order of heights.
LEMMA AncOrder ==
  ASSUME NEW b \in Blocks, NEW a \in Anc[b]
  PROVE  /\ a \in Blocks /\ Anc[a] \subseteq Anc[b] /\ Height[a] \in Nat /\ Height[b] \in Nat
         /\ a # b => Height[a] < Height[b] /\ b \notin Anc[a] /\ b # Genesis /\ a \in Anc[Parent[b]]
<1>1. /\ a \in Blocks /\ Anc[a] \subseteq Anc[b] /\ Height[a] \in Nat /\ Height[b] \in Nat
      /\ a # b => Height[a] < Height[b]
  BY ZenonT(40), TreeAssumption
<1>2. b \in Anc[a] => a = b
  BY <1>1, TreeAssumption
<1>3. a # b => b # Genesis /\ a \in Anc[Parent[b]]
  BY AncFacts
<1>4. QED
  BY <1>1, <1>2, <1>3

\* The first block of the branch from y to x is the child of y.
LEMMA FirstOfBranch ==
  ASSUME ListFacts, NEW x \in Blocks, NEW y \in Anc[x], NEW n, First(n, Anc[x] \ Anc[y])
  PROVE  /\ n \in Blocks \ {Genesis} /\ n \in Anc[x] /\ Parent[n] = y
         /\ Anc[x] \ Anc[n] = (Anc[x] \ Anc[y]) \ {n}
         /\ \A m \in (Anc[x] \ Anc[y]) \ {n} : n \in Anc[m]
<1>1. n \in Anc[x] /\ n \notin Anc[y] /\ \A m \in Anc[x] \ Anc[y] : Height[n] <= Height[m]
  BY DEF First
<1>2. n \in Blocks \ {Genesis} /\ y \in Blocks /\ Parent[n] \in Blocks
  BY <1>1, AncFacts
<1>3. y \in Anc[Parent[n]]
  <2>1. y \in Anc[n]
    BY ZenonT(40), <1>1, Linear
  <2>2. QED
    BY ZenonT(40), <1>1, <1>2, <2>1, AncFacts, AncOrder
<1>4. Parent[n] \in Anc[y]
  <2>1. Parent[n] \in Anc[x] /\ Height[Parent[n]] < Height[n]
    BY ZenonT(40), <1>1, <1>2, AncFacts, AncOrder
  <2>2. Height[n] \in Nat /\ Height[Parent[n]] \in Nat
    BY ZenonT(40), <1>2, TreeAssumption
  <2>3. QED
    BY <1>1, <2>1, <2>2
<1>5. Parent[n] = y
  BY ZenonT(40), <1>2, <1>3, <1>4, AncOrder
<1>6. Anc[n] = Anc[y] \cup {n}
  BY ZenonT(40), <1>2, <1>5, AncFacts
<1>7. ASSUME NEW m \in (Anc[x] \ Anc[y]) \ {n} PROVE n \in Anc[m]
  <2>1. Height[n] <= Height[m] /\ m \in Anc[x] /\ m # n
    BY ZenonT(40), <1>1
  <2>2. m \in Anc[n] => Height[m] < Height[n]
    BY ZenonT(40), <1>2, <2>1, AncFacts, TreeAssumption
  <2>3. Height[n] \in Nat /\ Height[m] \in Nat
    BY ZenonT(40), <1>2, <2>1, AncFacts, TreeAssumption
  <2>4. QED
    BY <1>1, <2>1, <2>2, <2>3, Linear
<1>8. QED
  BY ZenonT(40), <1>1, <1>2, <1>5, <1>6, <1>7

\* The last block of the branch from another chain to x is x.
LEMMA LastOfBranch ==
  ASSUME NEW x \in Blocks, NEW z \in Blocks, NEW n, Last(n, Anc[x] \ Anc[z])
  PROVE  /\ n = x /\ n \in Blocks \ {Genesis} /\ Parent[n] \in Blocks
         /\ Anc[Parent[n]] \ Anc[z] = (Anc[x] \ Anc[z]) \ {n}
<1>1. n \in Anc[x] /\ n \notin Anc[z] /\ \A m \in Anc[x] \ Anc[z] : Height[m] <= Height[n]
  BY ZenonT(40) DEF Last
<1>2. x \notin Anc[z]
  BY ZenonT(40), <1>1, AncOrder
<1>3. n = x
  <2>1. Height[x] <= Height[n]
    BY ZenonT(40), <1>1, <1>2, AncFacts
  <2>2. QED
    BY <1>1, <2>1, AncOrder
<1>4. x # Genesis
  BY <1>2, AncFacts
<1>5. QED
  BY <1>3, <1>4, AncFacts

----------------------------------------------------------------------------
(* What the steps have in common. *)

\* Whether an index is closed under ancestors depends on its nodes, not on
\* their flags.
LEMMA SameIndexed ==
  ASSUME NEW st, NEW t, Indexed(st), \A b \in Blocks : t[b] # {} <=> st[b] # {}
  PROVE  Indexed(t)
<1>1. ASSUME NEW b \in Blocks, t[b] # {}
      PROVE  b \in dbBlocks /\ \A a \in Anc[b] : t[a] # {}
  <2>1. b \in dbBlocks /\ \A a \in Anc[b] : st[a] # {}
    BY <1>1 DEF Indexed
  <2>2. QED
    BY <2>1, AncFacts
<1>2. QED
  BY <1>1 DEF Indexed

\* What a flush writes: when only dirty nodes differ from their rows, every row
\* equals its node afterwards.
LEMMA FlushedIsStatus ==
  ASSUME NEW st \in [Blocks -> SUBSET Flags], NEW d \in SUBSET Blocks,
         \A b \in Blocks \ d : st[b] = dbStatus[b]
  PROVE  Flushed(st, d) = st
BY DEF Flushed

\* The bound on faults holds after one more fault.
LEMMA FaultType ==
  ASSUME faults \in 0 .. MaxFaults, Fault
  PROVE  faults' \in 0 .. MaxFaults
BY BoundAssumption DEF Fault

\* SetAndFlush keeps the types.
LEMMA SetAndFlushType ==
  ASSUME ChainTypeOK, NEW st \in [Blocks -> SUBSET Flags], NEW d \in SUBSET Blocks,
         SetAndFlush(st, d)
  PROVE  /\ status' \in [Blocks -> SUBSET Flags] /\ dbStatus' \in [Blocks -> SUBSET Flags]
         /\ dirty' \subseteq Blocks /\ faults' \in 0 .. MaxFaults
<1>1. Flushed(st, d) \in [Blocks -> SUBSET Flags]
  BY DEF Flushed, ChainTypeOK
<1>2. QED
  BY <1>1, FaultType DEF SetAndFlush, ChainTypeOK

\* SetAndFlush, with or without a failure of its transaction, keeps the index
\* closed under ancestors when the new statuses are those of the same nodes.
LEMMA SetAndFlushIndex ==
  ASSUME ChainTypeOK, IndexInv, Up, Up', tip' = tip, dbBest' = dbBest,
         dbBlocks' = dbBlocks,
         NEW st \in [Blocks -> SUBSET Flags], NEW d \in SUBSET Blocks,
         \A b \in Blocks : st[b] # {} <=> status[b] # {},
         \A b \in Blocks \ d : st[b] = dbStatus[b],
         \/ status' = st /\ dbStatus' = Flushed(st, d) /\ dirty' = {}
         \/ status' = st /\ dbStatus' = dbStatus /\ dirty' = d
  PROVE  IndexInv'
<1>1. Flushed(st, d) = st
  BY FlushedIsStatus
<1>2. Indexed(status) /\ dbBest \in Blocks /\ \A b \in Blocks : dbStatus[b] # {} => status[b] # {}
  BY DEF IndexInv, ChainTypeOK
<1>3. Indexed(status)'
  BY <1>2, AncFacts DEF Indexed
<1>4. Indexed(dbStatus)' /\ dbStatus'[dbBest'] # {}
  BY <1>1, <1>2, AncFacts DEF Indexed, IndexInv
<1>5. \A b \in Blocks : dbStatus'[b] # {} => status'[b] # {}
  BY <1>1, <1>2
<1>6. MemoryMatchesDisk'
  BY <1>1 DEF MemoryMatchesDisk, IndexInv
<1>7. QED
  BY <1>3, <1>4, <1>5, <1>6 DEF IndexInv, Up

\* Return leaves nothing of the call behind.
LEMMA ReturnFacts ==
  ASSUME Return
  PROVE  /\ pc' = "idle" /\ Up' /\ CallInv'
         /\ cur' \in Blocks /\ newBest' \in Blocks /\ fastAdd' \in BOOLEAN /\ isMain' \in BOOLEAN
         /\ detach' \subseteq Blocks /\ attach' \subseteq Blocks /\ todo' \subseteq Blocks
         /\ view' \subseteq Entries
BY ParentAssumption, Zenon DEF Return, Up, CallInv

\* connectBlock moves the database to the child of its tip.
LEMMA ConnectUpdateFacts ==
  ASSUME ChainTypeOK, UtxoMatchesBest, JournalMatchesChain,
         NEW n \in Blocks \ {Genesis}, Parent[n] = dbBest, ConnectUpdate(n)
  PROVE  /\ UtxoMatchesBest' /\ JournalMatchesChain'
         /\ dbUtxo' \subseteq Entries /\ dbJournal' \in [Blocks -> SUBSET Entries]
         /\ dbMain' \subseteq Blocks /\ dbBest' \in Blocks /\ tip' \in Blocks
<1>1. UtxoAfter[n] = ConnectTransactions(UtxoAfter[dbBest], n) /\ Height[n] \in Nat
  BY TreeAssumption
<1>2. UtxoMatchesBest'
  BY <1>1, AncFacts DEF UtxoMatchesBest, ConnectUpdate
<1>3. JournalMatchesChain'
  <2> SUFFICES ASSUME NEW b \in Blocks \ {Genesis}
               PROVE  dbJournal'[b] = IF b \in Anc[dbBest'] THEN SpentTxOuts(UtxoAfter[Parent[b]], b)
                                                            ELSE {}
    BY DEF JournalMatchesChain
  <2>1. Anc[dbBest'] = Anc[dbBest] \cup {n} /\ n \notin Anc[dbBest]
    BY AncFacts DEF ConnectUpdate
  <2>2. dbJournal' = [dbJournal EXCEPT ![n] = SpentTxOuts(UtxoAfter[Parent[n]], n)]
    BY DEF ConnectUpdate, UtxoMatchesBest
  <2>3. CASE b = n
    BY <2>1, <2>2, <2>3 DEF ChainTypeOK
  <2>4. CASE b # n
    BY <2>1, <2>2, <2>4 DEF ChainTypeOK, JournalMatchesChain
  <2>5. QED
    BY <2>3, <2>4
<1>4. dbUtxo' \subseteq Entries
  BY <1>1, NoOverwriteAssumption, Zenon DEF ConnectUpdate, ConnectTransactions, ChainTypeOK, Entries
<1>5. SpentTxOuts(dbUtxo, n) \subseteq Entries
  BY DEF SpentTxOuts, ChainTypeOK
<1>6. QED
  BY <1>2, <1>3, <1>4, <1>5 DEF ConnectUpdate, ChainTypeOK

\* disconnectBlock moves the database to the parent of its tip.
LEMMA DisconnectUpdateFacts ==
  ASSUME ChainTypeOK, UtxoMatchesBest, JournalMatchesChain,
         dbBest # Genesis, DisconnectUpdate(dbBest)
  PROVE  /\ UtxoMatchesBest' /\ JournalMatchesChain'
         /\ dbUtxo' \subseteq Entries /\ dbJournal' \in [Blocks -> SUBSET Entries]
         /\ dbMain' \subseteq Blocks /\ dbBest' \in Blocks /\ tip' \in Blocks
<1>1. dbBest \in Blocks \ {Genesis} /\ Parent[dbBest] \in Blocks
  BY AncFacts DEF ChainTypeOK
<1>2. dbUtxo' = UtxoAfter[Parent[dbBest]]
  <2>1. dbJournal[dbBest] = SpentTxOuts(UtxoAfter[Parent[dbBest]], dbBest)
    BY <1>1, AncFacts DEF JournalMatchesChain
  <2>2. QED
    BY <1>1, <2>1, DisconnectUndoesConnect DEF UtxoMatchesBest, DisconnectUpdate
<1>3. UtxoMatchesBest'
  BY <1>1, <1>2, AncFacts DEF UtxoMatchesBest, DisconnectUpdate
<1>4. JournalMatchesChain'
  <2> SUFFICES ASSUME NEW b \in Blocks \ {Genesis}
               PROVE  dbJournal'[b] = IF b \in Anc[dbBest'] THEN SpentTxOuts(UtxoAfter[Parent[b]], b)
                                                            ELSE {}
    BY DEF JournalMatchesChain
  <2>1. Anc[dbBest] = Anc[dbBest'] \cup {dbBest} /\ dbBest \notin Anc[dbBest']
    BY <1>1, AncFacts DEF DisconnectUpdate
  <2>2. dbJournal' = [dbJournal EXCEPT ![dbBest] = {}]
    BY DEF DisconnectUpdate
  <2>3. CASE b = dbBest
    BY <2>1, <2>2, <2>3 DEF ChainTypeOK
  <2>4. CASE b # dbBest
    BY <2>1, <2>2, <2>4 DEF ChainTypeOK, JournalMatchesChain
  <2>5. QED
    BY <2>3, <2>4
<1>5. dbUtxo' \subseteq Entries
  BY <1>1 DEF DisconnectUpdate, DisconnectTransactions, ChainTypeOK
<1>6. QED
  BY <1>1, <1>3, <1>4, <1>5 DEF DisconnectUpdate, ChainTypeOK

----------------------------------------------------------------------------
(* The inductive invariant. *)

LEMMA InitStorage == Init => StorageInv
<1> SUFFICES ASSUME Init PROVE StorageInv
  OBVIOUS
<1> USE ParentAssumption, BoundAssumption DEF Init, NoCall, NoReorg
<1>1. ChainTypeOK
  <2>1. dbStatus \in [Blocks -> SUBSET Flags]
    BY DEF Flags
  <2>2. now \in 0 .. MaxTime /\ faults \in 0 .. MaxFaults
    OBVIOUS
  <2>3. QED
    BY <2>1, <2>2, Zenon DEF ChainTypeOK
<1>2. UtxoMatchesBest /\ JournalMatchesChain
  BY TreeAssumption DEF UtxoMatchesBest, JournalMatchesChain
<1>3. Indexed(dbStatus) /\ Indexed(status) /\ dbStatus[dbBest] # {}
  <2>1. \A b \in Blocks : dbStatus[b] # {} <=> b = Genesis
    BY Zenon
  <2>2. QED
    BY <2>1, TreeAssumption, Zenon DEF Indexed
<1>4. MemoryMatchesDisk
  BY DEF MemoryMatchesDisk
<1>5. QED
  BY <1>1, <1>2, <1>3, <1>4 DEF StorageInv, IndexInv, CallInv

\* ProcessBlock changes the orphan pool and the checkpoint cache at most.
LEMMA ProcessBlockStep ==
  ASSUME NEW b \in Blocks \ {Genesis}, NEW fast \in BOOLEAN, StorageInv, ProcessBlock(b, fast)
  PROVE  StorageInv'
<1> USE DEF StorageInv, ProcessBlock, vars, disk, chainState, pool, reorg, call
<1>1. ChainTypeOK'
  BY Zenon DEF ChainTypeOK
<1>2. UtxoMatchesBest' /\ JournalMatchesChain'
  BY DEF UtxoMatchesBest, JournalMatchesChain
<1>3. IndexInv'
  BY ZenonT(40) DEF IndexInv, Indexed, MemoryMatchesDisk, Up
<1>4. CallInv'
  BY ZenonT(40) DEF CallInv
<1>5. QED
  BY <1>1, <1>2, <1>3, <1>4

\* maybeAcceptBlock stores a block only under a parent of the index.
LEMMA MaybeAcceptBlockStep ==
  ASSUME StorageInv, MaybeAcceptBlock
  PROVE  StorageInv'
<1> USE DEF StorageInv, MaybeAcceptBlock, vars, disk, chainState, pool, reorg, call
<1>1. CASE Return /\ UNCHANGED dbBlocks /\ asserted' \in BOOLEAN
  <2>1. ChainTypeOK'
    BY ZenonT(40), <1>1, ReturnFacts DEF ChainTypeOK
  <2>2. UtxoMatchesBest' /\ JournalMatchesChain'
    BY ZenonT(40) DEF UtxoMatchesBest, JournalMatchesChain
  <2>3. IndexInv'
    BY <1>1, ReturnFacts DEF IndexInv, Indexed, MemoryMatchesDisk, Up
  <2>4. QED
    BY <1>1, <2>1, <2>2, <2>3, ReturnFacts
<1>2. CASE /\ HaveNode(Parent[cur]) /\ dbBlocks' = dbBlocks \cup {cur} /\ pc' = "index"
           /\ UNCHANGED <<call, reorg, asserted>>
  <2>1. ChainTypeOK'
    BY ZenonT(40), <1>2 DEF ChainTypeOK
  <2>2. UtxoMatchesBest' /\ JournalMatchesChain'
    BY DEF UtxoMatchesBest, JournalMatchesChain
  <2>3. IndexInv'
    BY ZenonT(40), <1>2 DEF IndexInv, Indexed, MemoryMatchesDisk, Up
  <2>4. CallInv'
    BY <1>2 DEF CallInv, HaveNode, ChainTypeOK
  <2>5. QED
    BY <2>1, <2>2, <2>3, <2>4
<1>3. QED
  BY <1>1, <1>2, Zenon DEF AssertError, ChainTypeOK

\* maybeAcceptBlock adds a node whose parent and data are there.
LEMMA AddNodeStep ==
  ASSUME StorageInv, AddNode
  PROVE  StorageInv'
<1> DEFINE st == [status EXCEPT ![cur] = {"stored"}]
<1>0. /\ st \in [Blocks -> SUBSET Flags] /\ status' = st /\ st[cur] = {"stored"}
      /\ \A b \in Blocks \ {cur} : st[b] = status[b]
      /\ cur \in Blocks \ {Genesis} /\ cur \in dbBlocks /\ status[Parent[cur]] # {} /\ Up
      /\ dirty \cup {cur} \subseteq Blocks
  BY ZenonT(40) DEF StorageInv, AddNode, ChainTypeOK, CallInv, Flags, Up
<1> HIDE DEF st
<1>a. Indexed(st)
  <2>1. Indexed(status)
    BY <1>0 DEF StorageInv, IndexInv
  <2>2. \A a \in Anc[Parent[cur]] : st[a] # {}
    BY <1>0, <2>1, AncFacts DEF Indexed
  <2>3. \A a \in Anc[cur] : st[a] # {}
    BY <1>0, <2>2, AncFacts
  <2>4. ASSUME NEW b \in Blocks \ {cur}, st[b] # {}
        PROVE  b \in dbBlocks /\ \A a \in Anc[b] : st[a] # {}
    <3>1. b \in dbBlocks /\ \A a \in Anc[b] : status[a] # {}
      BY <1>0, <2>1, <2>4 DEF Indexed
    <3>2. QED
      BY <1>0, <3>1, AncFacts
  <2>5. QED
    BY <1>0, <2>3, <2>4 DEF Indexed
<1>b. Flushed(st, dirty \cup {cur}) = st
  <2>1. \A b \in Blocks \ (dirty \cup {cur}) : st[b] = dbStatus[b]
    BY <1>0 DEF StorageInv, IndexInv, MemoryMatchesDisk
  <2>2. QED
    BY <1>0, <2>1, FlushedIsStatus
<1>c. \/ /\ dbStatus' = st /\ dirty' = {}
         /\ pc' = "connect" /\ UNCHANGED <<call, reorg, faults>>
      \/ /\ Fault /\ dirty' = dirty \cup {cur}
         /\ Return /\ UNCHANGED dbStatus
  BY <1>0, <1>b, Zenon DEF AddNode
<1>1. ChainTypeOK'
  <2>1. faults' \in 0 .. MaxFaults
    BY <1>c, FaultType DEF StorageInv, ChainTypeOK
  <2>2. QED
    BY <1>0, <1>c, <2>1, ReturnFacts DEF StorageInv, ChainTypeOK, AddNode, vars, disk, chainState, pool, reorg, call
<1>2. UtxoMatchesBest' /\ JournalMatchesChain'
  BY ZenonT(40) DEF StorageInv, UtxoMatchesBest, JournalMatchesChain, AddNode, vars, disk, chainState, pool, reorg, call
<1>3. IndexInv'
  <2>1. Up' /\ tip' = tip /\ dbBest' = dbBest /\ dbBlocks' = dbBlocks
    BY ZenonT(40), <1>c, ReturnFacts DEF Up, AddNode, chainState
  <2>2. /\ tip = dbBest /\ dbBest \in Blocks /\ dbStatus[dbBest] # {} /\ Indexed(dbStatus)
        /\ \A b \in Blocks \ dirty : status[b] = dbStatus[b]
        /\ \A b \in Blocks : dbStatus[b] # {} => status[b] # {}
    BY ZenonT(40), <1>0 DEF StorageInv, IndexInv, MemoryMatchesDisk, ChainTypeOK
  <2>3. Indexed(dbStatus)' /\ Indexed(status)'
    BY ZenonT(40), <1>0, <1>a, <1>c, <2>1, <2>2 DEF Indexed
  <2>4. MemoryMatchesDisk'
    BY <1>0, <1>c, <2>1, <2>2 DEF MemoryMatchesDisk
  <2>5. /\ dbStatus'[dbBest'] # {}
        /\ \A b \in Blocks : dbStatus'[b] # {} => status'[b] # {}
    BY <1>0, <1>c, <2>1, <2>2
  <2>6. QED
    BY <2>1, <2>3, <2>4, <2>5 DEF IndexInv, Up
<1>4. CallInv'
  BY ZenonT(40), <1>0, <1>c, ReturnFacts DEF CallInv, vars, disk, chainState, pool, reorg, call
<1>5. QED
  BY ZenonT(40), <1>1, <1>2, <1>3, <1>4 DEF StorageInv

\* processOrphans hands the next orphan to maybeAcceptBlock.
LEMMA ProcessOrphansStep ==
  ASSUME StorageInv, ProcessOrphans
  PROVE  StorageInv'
<1> USE DEF ProcessOrphans, vars, disk, chainState, pool, reorg, call
<1>0. Return \/ (pc' = "accept" /\ cur' \in Blocks \ {Genesis} /\ isMain' = FALSE
                 /\ UNCHANGED <<fastAdd, reorg>>)
  OBVIOUS
<1>1. ChainTypeOK'
  BY <1>0, ReturnFacts, Zenon DEF StorageInv, ChainTypeOK
<1>2. UtxoMatchesBest' /\ JournalMatchesChain'
  BY ZenonT(40) DEF StorageInv, UtxoMatchesBest, JournalMatchesChain
<1>3. IndexInv'
  BY ZenonT(40), <1>0, ReturnFacts DEF StorageInv, IndexInv, Indexed, MemoryMatchesDisk, Up
<1>4. CallInv'
  BY ZenonT(40), <1>0, ReturnFacts DEF CallInv
<1>5. QED
  BY ZenonT(40), <1>1, <1>2, <1>3, <1>4 DEF StorageInv

\* A step that changes statuses of nodes of the index and flushes them.
LEMMA StatusStep ==
  ASSUME StorageInv, Up, Up', tip' = tip, dbBest' = dbBest, dbBlocks' = dbBlocks,
         NEW st \in [Blocks -> SUBSET Flags], NEW d \in SUBSET Blocks, dirty \subseteq d,
         \A b \in Blocks : st[b] # {} <=> status[b] # {},
         \A b \in Blocks \ d : st[b] = status[b],
         SetAndFlush(st, d)
  PROVE  /\ IndexInv' /\ status' = st
         /\ status' \in [Blocks -> SUBSET Flags] /\ dbStatus' \in [Blocks -> SUBSET Flags]
         /\ dirty' \subseteq Blocks /\ faults' \in 0 .. MaxFaults
<1>1. \A b \in Blocks \ d : st[b] = dbStatus[b]
  BY ZenonT(40) DEF StorageInv, IndexInv, MemoryMatchesDisk
<1>2. IndexInv'
  BY ZenonT(40), <1>1, SetAndFlushIndex DEF StorageInv, SetAndFlush
<1>3. QED
  BY ZenonT(40), <1>2, SetAndFlushType DEF StorageInv, SetAndFlush

\* connectBestChain on the best chain changes the status of the new node only.
LEMMA ExtendBestChainStep ==
  ASSUME StorageInv, ExtendBestChain
  PROVE  StorageInv'
<1>0. /\ cur \in Blocks \ {Genesis} /\ status[cur] # {} /\ Up /\ Parent[cur] = tip
      /\ dirty \cup {cur} \in SUBSET Blocks /\ status \in [Blocks -> SUBSET Flags]
      /\ UNCHANGED <<dbBlocks, chainState, checkpoint, pool, now>>
  BY DEF StorageInv, CallInv, ChainTypeOK, Up, ExtendBestChain
<1>1. \/ pc' = "tip" /\ UNCHANGED <<call, reorg, asserted>>
      \/ Return /\ asserted' \in BOOLEAN
  BY Zenon DEF ExtendBestChain, AssertError, StorageInv, ChainTypeOK
<1>2. UtxoMatchesBest' /\ JournalMatchesChain'
  BY <1>0 DEF StorageInv, UtxoMatchesBest, JournalMatchesChain, chainState
<1>3. Up' /\ tip' = tip /\ dbBest' = dbBest /\ dbBlocks' = dbBlocks
  BY <1>0, <1>1, ReturnFacts DEF Up, chainState
<1>4. /\ IndexInv' /\ \A b \in Blocks : status'[b] # {} <=> status[b] # {}
      /\ status' \in [Blocks -> SUBSET Flags] /\ dbStatus' \in [Blocks -> SUBSET Flags]
      /\ dirty' \subseteq Blocks /\ faults' \in 0 .. MaxFaults
  <2>1. CASE UNCHANGED <<status, dirty, dbStatus, faults>>
    BY <1>0, <1>3, <2>1 DEF StorageInv, ChainTypeOK, IndexInv, Indexed, MemoryMatchesDisk, Up
  <2>2. ASSUME NEW f \in Flags, SetAndFlush(SetFlag(status, {cur}, f), dirty \cup {cur})
        PROVE  /\ IndexInv' /\ \A b \in Blocks : status'[b] # {} <=> status[b] # {}
               /\ status' \in [Blocks -> SUBSET Flags] /\ dbStatus' \in [Blocks -> SUBSET Flags]
               /\ dirty' \subseteq Blocks /\ faults' \in 0 .. MaxFaults
    <3> DEFINE st == SetFlag(status, {cur}, f)
    <3>1. /\ st \in [Blocks -> SUBSET Flags]
          /\ \A b \in Blocks : st[b] # {} <=> status[b] # {}
          /\ \A b \in Blocks \ {cur} : st[b] = status[b]
      BY ZenonT(40), <1>0 DEF SetFlag
    <3> HIDE DEF st
    <3>2. QED
      BY <1>0, <1>3, <2>2, <3>1, StatusStep, Zenon DEF st
  <2>3. QED
    BY ZenonT(40), <2>1, <2>2 DEF ExtendBestChain, Flags
<1>5. ChainTypeOK'
  BY ZenonT(40), <1>0, <1>1, <1>4, ReturnFacts DEF StorageInv, ChainTypeOK, chainState, call, reorg
<1>6. CallInv'
  BY <1>0, <1>1, <1>3, <1>4, ReturnFacts DEF CallInv, call
<1>7. QED
  BY ZenonT(40), <1>2, <1>4, <1>5, <1>6 DEF StorageInv

\* A side chain that stays one changes nothing.
LEMMA ExtendSideChainStep ==
  ASSUME StorageInv, ExtendSideChain
  PROVE  StorageInv'
<1> USE DEF StorageInv, ExtendSideChain, vars, disk, chainState, pool, reorg, call
<1>1. ChainTypeOK'
  BY Zenon DEF ChainTypeOK
<1>2. UtxoMatchesBest' /\ JournalMatchesChain'
  BY ZenonT(40) DEF UtxoMatchesBest, JournalMatchesChain
<1>3. IndexInv'
  BY ZenonT(40) DEF IndexInv, Indexed, MemoryMatchesDisk, Up
<1>4. CallInv'
  BY DEF CallInv
<1>5. QED
  BY <1>1, <1>2, <1>3, <1>4

\* getReorganizeNodes marks nodes of the branch that ends in the new node.
LEMMA ReorganizeRefusedStep ==
  ASSUME StorageInv, ReorganizeRefused
  PROVE  StorageInv'
<1> DEFINE branch == Anc[cur] \ Anc[tip]
           bad == {n \in branch : KnownInvalid(n)}
           above == {n \in branch : \A m \in bad : Height[n] > Height[m]}
           st == SetFlag(status, above, "badAncestor")
<1>0. /\ SetAndFlush(st, dirty \cup above) /\ isMain' = TRUE /\ pc = "connect" /\ pc' = "accepted"
      /\ UNCHANGED <<dbBlocks, chainState, checkpoint, pool, cur, fastAdd,
                     processHashes, reorg, now, asserted>>
  BY ZenonT(40) DEF ReorganizeRefused
<1>1. /\ \A n \in above : status[n] # {} /\ n \in Blocks
      /\ dirty \cup above \in SUBSET Blocks /\ Up /\ Up' /\ tip' = tip /\ dbBest' = dbBest
      /\ dbBlocks' = dbBlocks /\ status \in [Blocks -> SUBSET Flags]
  BY ZenonT(40), <1>0, AncFacts DEF StorageInv, CallInv, ChainTypeOK, Up, IndexInv, Indexed, chainState
<1> HIDE DEF above
<1>2. /\ st \in [Blocks -> SUBSET Flags] /\ \A b \in Blocks : st[b] # {} <=> status[b] # {}
      /\ \A b \in Blocks \ above : st[b] = status[b]
  BY <1>1 DEF SetFlag, Flags
<1> HIDE DEF st
<1>3. /\ IndexInv' /\ status' \in [Blocks -> SUBSET Flags]
      /\ dbStatus' \in [Blocks -> SUBSET Flags] /\ dirty' \subseteq Blocks
      /\ faults' \in 0 .. MaxFaults
  BY ZenonT(40), <1>0, <1>1, <1>2, StatusStep
<1>4. ChainTypeOK' /\ UtxoMatchesBest' /\ JournalMatchesChain'
  BY ZenonT(40), <1>0, <1>3 DEF StorageInv, ChainTypeOK, UtxoMatchesBest, JournalMatchesChain,
                    chainState, reorg
<1>5. CallInv'
  BY ZenonT(40), <1>0 DEF CallInv
<1>6. QED
  BY ZenonT(40), <1>3, <1>4, <1>5 DEF StorageInv

\* The nodes to attach are in the index, those to detach on the best chain.
LEMMA ReorganizeBeginStep ==
  ASSUME StorageInv, ReorganizeBegin
  PROVE  StorageInv'
<1>0. /\ attach' = Anc[cur] \ Anc[tip] /\ detach' = Anc[tip] \ Anc[cur]
      /\ view' = dbUtxo /\ newBest' = tip /\ pc = "connect"
      /\ \/ pc' = "checkAttach" /\ todo' = attach'
         \/ pc' = "checkDetach" /\ todo' = detach'
      /\ UNCHANGED <<disk, status, dirty, tip, checkpoint, pool, call, now,
                     faults, asserted>>
  BY ZenonT(40) DEF ReorganizeBegin
<1>1. cur \in Blocks /\ tip \in Blocks /\ Anc[cur] \subseteq Blocks /\ Anc[tip] \subseteq Blocks
  BY ZenonT(40), AncFacts DEF StorageInv, ChainTypeOK
<1>2. ChainTypeOK'
  BY ZenonT(40), <1>0, <1>1 DEF StorageInv, ChainTypeOK, disk, call
<1>3. UtxoMatchesBest' /\ JournalMatchesChain' /\ IndexInv'
  BY <1>0 DEF StorageInv, UtxoMatchesBest, JournalMatchesChain, IndexInv, Indexed,
              MemoryMatchesDisk, Up, disk
<1>4. \A a \in Anc[cur] : status[a] # {}
  BY ZenonT(40), <1>0, <1>1 DEF StorageInv, CallInv, IndexInv, Indexed, Up
<1>5. Genesis \in Anc[cur] /\ Genesis \in Anc[tip]
  BY <1>1, AncFacts
<1>6. CallInv'
  BY ZenonT(40), <1>0, <1>1, <1>4, <1>5 DEF CallInv
<1>7. QED
  BY <1>2, <1>3, <1>6 DEF StorageInv

\* The flush before a connect or disconnect.
LEMMA FlushToDBStep ==
  ASSUME StorageInv, FlushToDB
  PROVE  StorageInv'
<1>0. /\ dbStatus' = Flushed(status, dirty) /\ dirty' = {} /\ Up /\ Up'
      /\ UNCHANGED <<dbBlocks, chainState, status, checkpoint, pool, pc, call,
                     reorg, now, faults, asserted>>
  BY DEF FlushToDB, Up
<1>1. IndexInv'
  BY <1>0, SetAndFlushIndex, Zenon DEF StorageInv, ChainTypeOK, IndexInv, MemoryMatchesDisk, chainState
<1>2. Flushed(status, dirty) \in [Blocks -> SUBSET Flags]
  BY DEF StorageInv, ChainTypeOK, Flushed
<1>3. ChainTypeOK'
  BY ZenonT(40), <1>0, <1>2 DEF StorageInv, ChainTypeOK, chainState, call, reorg
<1>4. UtxoMatchesBest' /\ JournalMatchesChain' /\ CallInv'
  BY <1>0 DEF StorageInv, UtxoMatchesBest, JournalMatchesChain, CallInv, chainState, call, reorg
<1>5. QED
  BY <1>1, <1>3, <1>4 DEF StorageInv

\* connectBlock of the block that extends the best chain.
LEMMA ConnectTipStep ==
  ASSUME StorageInv, ConnectTip
  PROVE  StorageInv'
<1>0. /\ ConnectUpdate(cur) /\ dirty = {} /\ pc = "tip" /\ pc' \in {"accepted", "markValid"}
      /\ isMain' = TRUE
      /\ UNCHANGED <<dbBlocks, dbStatus, status, dirty, checkpoint, pool, cur,
                     fastAdd, processHashes, reorg, now, faults, asserted>>
  BY ZenonT(40) DEF ConnectTip
<1>1. /\ cur \in Blocks \ {Genesis} /\ Parent[cur] = dbBest /\ status[cur] # {}
      /\ dbStatus[cur] # {}
  BY ZenonT(40), <1>0 DEF StorageInv, ChainTypeOK, CallInv, IndexInv, MemoryMatchesDisk, Up
<1>2. /\ UtxoMatchesBest' /\ JournalMatchesChain'
      /\ dbUtxo' \subseteq Entries /\ dbJournal' \in [Blocks -> SUBSET Entries]
      /\ dbMain' \subseteq Blocks /\ dbBest' \in Blocks /\ tip' \in Blocks
  BY ZenonT(40), <1>0, <1>1, ConnectUpdateFacts DEF StorageInv
<1>3. ChainTypeOK'
  BY <1>0, <1>2 DEF StorageInv, ChainTypeOK, reorg
<1>4. dbBest' = cur /\ tip' = cur
  BY ZenonT(40), <1>0 DEF ConnectUpdate
<1>5. IndexInv'
  BY ZenonT(40), <1>0, <1>1, <1>4 DEF StorageInv, IndexInv, Indexed, MemoryMatchesDisk, Up
<1>6. CallInv'
  BY <1>0, <1>1 DEF CallInv
<1>7. QED
  BY <1>2, <1>3, <1>5, <1>6 DEF StorageInv

\* A block added fast is marked after its connection.
LEMMA MarkValidStep ==
  ASSUME StorageInv, MarkValid
  PROVE  StorageInv'
<1> DEFINE st == SetFlag(status, {cur}, "valid")
<1>0. /\ SetAndFlush(st, dirty \cup {cur}) /\ pc' = "accepted"
      /\ UNCHANGED <<dbBlocks, chainState, checkpoint, pool, call, reorg, now, asserted>>
  BY ZenonT(40) DEF MarkValid
<1>1. /\ cur \in Blocks /\ status[cur] # {} /\ Up /\ Up' /\ dirty \cup {cur} \in SUBSET Blocks
      /\ tip' = tip /\ dbBest' = dbBest /\ dbBlocks' = dbBlocks
      /\ status \in [Blocks -> SUBSET Flags]
  BY ZenonT(40), <1>0 DEF MarkValid, StorageInv, CallInv, ChainTypeOK, Up, chainState
<1>2. /\ st \in [Blocks -> SUBSET Flags] /\ \A b \in Blocks : st[b] # {} <=> status[b] # {}
      /\ \A b \in Blocks \ {cur} : st[b] = status[b]
  BY <1>1 DEF SetFlag, Flags
<1> HIDE DEF st
<1>3. /\ IndexInv' /\ status' \in [Blocks -> SUBSET Flags]
      /\ dbStatus' \in [Blocks -> SUBSET Flags] /\ dirty' \subseteq Blocks
      /\ faults' \in 0 .. MaxFaults
  BY <1>0, <1>1, <1>2, StatusStep
<1>4. ChainTypeOK' /\ UtxoMatchesBest' /\ JournalMatchesChain'
  BY ZenonT(40), <1>0, <1>3 DEF StorageInv, ChainTypeOK, UtxoMatchesBest, JournalMatchesChain,
                    chainState, reorg, call
<1>5. CallInv'
  BY <1>0 DEF CallInv
<1>6. QED
  BY <1>3, <1>4, <1>5 DEF StorageInv

\* The check phase works on its view.
LEMMA CheckDetachStep ==
  ASSUME StorageInv, CheckDetach
  PROVE  StorageInv'
<1>0. PICK n \in todo :
        /\ view' = DisconnectTransactions(view, n, dbJournal[n])
        /\ newBest' = Parent[n]
        /\ IF todo = {n} THEN pc' = "checkAttach" /\ todo' = attach
                         ELSE pc' = pc /\ todo' = todo \ {n}
  BY DEF CheckDetach
<1>1. /\ pc = "checkDetach"
      /\ UNCHANGED <<disk, status, dirty, tip, checkpoint, pool, call, detach,
                     attach, now, faults, asserted>>
  BY ZenonT(40) DEF CheckDetach
<1>2. ChainTypeOK'
  <2>1. view' \subseteq Entries
    BY <1>0 DEF DisconnectTransactions, StorageInv, ChainTypeOK
  <2>2. newBest' \in Blocks
    <3>1. n \in Blocks \ {Genesis}
      BY ZenonT(40), <1>0, <1>1 DEF StorageInv, ChainTypeOK, CallInv
    <3>2. QED
      BY <1>0, <3>1, ParentAssumption
  <2>3. QED
    BY ZenonT(40), <1>0, <1>1, <2>1, <2>2 DEF StorageInv, ChainTypeOK, disk, call
<1>3. UtxoMatchesBest' /\ JournalMatchesChain' /\ IndexInv'
  BY ZenonT(40), <1>0, <1>1 DEF StorageInv, UtxoMatchesBest, JournalMatchesChain, IndexInv, Indexed,
                    MemoryMatchesDisk, Up, disk
<1>4. CallInv'
  BY ZenonT(40), <1>0, <1>1 DEF StorageInv, CallInv
<1>5. QED
  BY <1>2, <1>3, <1>4 DEF StorageInv


\* The check phase marks nodes of the branch to attach.
LEMMA CheckAttachStep ==
  ASSUME StorageInv, CheckAttach
  PROVE  StorageInv'
<1> DEFINE failed(n) == SetFlag(SetFlag(status, {n}, "failed"), todo \ {n}, "badAncestor")
           valid(n) == SetFlag(status, {n}, "valid")
<1>0. PICK n \in todo :
        \/ SetAndFlush(status, dirty) /\ AssertError
        \/ /\ view' = ConnectTransactions(view, n) /\ newBest' = n
           /\ todo' = todo \ {n}
           /\ pc' = IF todo' # {} THEN pc ELSE IF detach # {} THEN "detach" ELSE "attach"
           /\ \/ UNCHANGED <<status, dirty>>
              \/ status' = valid(n) /\ dirty' = dirty \cup {n}
           /\ UNCHANGED <<dbStatus, call, detach, attach, faults, asserted>>
        \/ SetAndFlush(failed(n), dirty \cup todo) /\ Return /\ UNCHANGED asserted
  BY DEF CheckAttach
<1>1. /\ pc = "checkAttach" /\ Up
      /\ UNCHANGED <<dbBlocks, chainState, checkpoint, pool, now>>
  BY DEF CheckAttach, Up
<1>2. /\ todo \subseteq {b \in Blocks \ {Genesis} : status[b] # {}}
      /\ status \in [Blocks -> SUBSET Flags] /\ dirty \in SUBSET Blocks
      /\ dirty \cup todo \in SUBSET Blocks
  BY ZenonT(40), <1>1 DEF StorageInv, ChainTypeOK, CallInv
<1>3. UtxoMatchesBest' /\ JournalMatchesChain'
  BY ZenonT(40), <1>1 DEF StorageInv, UtxoMatchesBest, JournalMatchesChain, chainState
<1>4. /\ failed(n) \in [Blocks -> SUBSET Flags]
      /\ \A b \in Blocks : failed(n)[b] # {} <=> status[b] # {}
      /\ \A b \in Blocks \ todo : failed(n)[b] = status[b]
  BY <1>0, <1>2 DEF SetFlag, Flags
<1>5. /\ valid(n) \in [Blocks -> SUBSET Flags]
      /\ \A b \in Blocks : valid(n)[b] # {} <=> status[b] # {}
      /\ \A b \in Blocks \ {n} : valid(n)[b] = status[b]
  BY <1>0, <1>2 DEF SetFlag, Flags
<1> HIDE DEF failed, valid
<1>6. ASSUME NEW st \in [Blocks -> SUBSET Flags], NEW d \in SUBSET Blocks, dirty \subseteq d,
             \A b \in Blocks : st[b] # {} <=> status[b] # {},
             \A b \in Blocks \ d : st[b] = status[b],
             SetAndFlush(st, d), Return, asserted' \in BOOLEAN
      PROVE  StorageInv'
  <2>1. Up' /\ tip' = tip /\ dbBest' = dbBest /\ dbBlocks' = dbBlocks
    BY ZenonT(40), <1>1, <1>6, ReturnFacts DEF chainState
  <2>2. /\ IndexInv' /\ status' \in [Blocks -> SUBSET Flags]
        /\ dbStatus' \in [Blocks -> SUBSET Flags] /\ dirty' \subseteq Blocks
        /\ faults' \in 0 .. MaxFaults
    BY ZenonT(40), <1>1, <1>6, <2>1, StatusStep
  <2>3. ChainTypeOK'
    BY <1>1, <1>6, <2>2, ReturnFacts DEF StorageInv, ChainTypeOK, chainState
  <2>4. QED
    BY <1>3, <1>6, <2>2, <2>3, ReturnFacts DEF StorageInv
<1>7. CASE SetAndFlush(status, dirty) /\ AssertError
  BY <1>2, <1>6, <1>7 DEF AssertError
<1>8. CASE SetAndFlush(failed(n), dirty \cup todo) /\ Return /\ UNCHANGED asserted
  <2>1. asserted' \in BOOLEAN
    BY <1>8 DEF StorageInv, ChainTypeOK
  <2>2. QED
    BY ZenonT(40), <1>2, <1>4, <1>6, <1>8, <2>1
<1>9. CASE /\ view' = ConnectTransactions(view, n) /\ newBest' = n
           /\ todo' = todo \ {n}
           /\ pc' = IF todo' # {} THEN pc ELSE IF detach # {} THEN "detach" ELSE "attach"
           /\ \/ UNCHANGED <<status, dirty>>
              \/ status' = valid(n) /\ dirty' = dirty \cup {n}
           /\ UNCHANGED <<dbStatus, call, detach, attach, faults, asserted>>
  <2>1. n \in Blocks \ {Genesis}
    BY ZenonT(40), <1>0, <1>2
  <2>2. view' \subseteq Entries
    <3>1. view \subseteq Outpoints \X Nat /\ Creates[n] \subseteq Outpoints /\ Height[n] \in Nat
      BY ZenonT(40), <2>1, TreeAssumption, NoOverwriteAssumption DEF StorageInv, ChainTypeOK, Entries
    <3>2. Creates[n] \X {Height[n]} \subseteq Outpoints \X Nat
      BY <3>1
    <3>3. QED
      BY <1>9, <3>1, <3>2 DEF ConnectTransactions, Entries
  <2>3. /\ status' \in [Blocks -> SUBSET Flags] /\ dirty' \subseteq Blocks
        /\ \A b \in Blocks : status'[b] # {} <=> status[b] # {}
        /\ \A b \in Blocks \ dirty' : status'[b] = status[b] /\ b \notin dirty
    BY ZenonT(40), <1>2, <1>5, <1>9, <2>1
  <2>4. ChainTypeOK'
    BY ZenonT(40), <1>1, <1>9, <2>1, <2>2, <2>3 DEF StorageInv, ChainTypeOK, chainState, call
  <2>5. Up'
    BY ZenonT(40), <1>1, <1>9 DEF Up
  <2>6. IndexInv'
    <3>1. Indexed(status)' /\ Indexed(dbStatus)'
      <4>1. Indexed(status) /\ Indexed(dbStatus) /\ dbBlocks' = dbBlocks /\ dbStatus' = dbStatus
        BY <1>1, <1>9 DEF StorageInv, IndexInv
      <4>2. ASSUME NEW b \in Blocks, status'[b] # {}
            PROVE  b \in dbBlocks /\ \A a \in Anc[b] : status'[a] # {}
        <5>1. b \in dbBlocks /\ \A a \in Anc[b] : status[a] # {}
          BY ZenonT(40), <2>3, <4>1, <4>2 DEF Indexed
        <5>2. QED
          BY ZenonT(40), <2>3, <5>1, AncFacts
      <4>3. QED
        BY ZenonT(40), <4>1, <4>2 DEF Indexed
    <3>2. MemoryMatchesDisk'
      BY ZenonT(40), <1>1, <1>9, <2>3 DEF StorageInv, IndexInv, MemoryMatchesDisk, chainState
    <3>3. QED
      BY ZenonT(40), <1>1, <1>9, <2>3, <2>5, <3>1, <3>2 DEF StorageInv, IndexInv, Up, chainState
  <2>7. CallInv'
    BY ZenonT(40), <1>1, <1>2, <1>9, <2>3 DEF StorageInv, CallInv, chainState
  <2>8. QED
    BY <1>3, <2>4, <2>6, <2>7 DEF StorageInv
<1>10. QED
  BY ZenonT(40), <1>0, <1>7, <1>8, <1>9

\* disconnectBlock of the tip.
LEMMA DisconnectBlockStep ==
  ASSUME StorageInv, DisconnectBlock
  PROVE  StorageInv'
<1>0. /\ pc = "detach" /\ dirty = {} /\ Up
      /\ UNCHANGED <<dbBlocks, dbStatus, status, dirty, checkpoint, pool, now, faults>>
  BY DEF DisconnectBlock, Up
<1>1. CASE AssertError /\ UNCHANGED chainState
  <2>1. ChainTypeOK'
    BY <1>0, <1>1, ReturnFacts DEF AssertError, StorageInv, ChainTypeOK, chainState
  <2>2. UtxoMatchesBest' /\ JournalMatchesChain'
    BY ZenonT(40), <1>1 DEF StorageInv, UtxoMatchesBest, JournalMatchesChain, chainState
  <2>3. IndexInv'
    BY ZenonT(40), <1>0, <1>1, ReturnFacts DEF AssertError, StorageInv, IndexInv, Indexed,
                                   MemoryMatchesDisk, Up, chainState
  <2>4. QED
    BY ZenonT(40), <1>1, <2>1, <2>2, <2>3, ReturnFacts DEF AssertError, StorageInv
<1>2. CASE /\ tip \in detach /\ DisconnectUpdate(tip)
           /\ detach' = detach \ {tip}
           /\ pc' = IF detach' = {} THEN "attach" ELSE "detach"
           /\ UNCHANGED <<call, attach, todo, view, newBest, asserted>>
  <2>1. /\ tip = dbBest /\ dbBest \in Blocks \ {Genesis} /\ Parent[dbBest] \in Blocks
        /\ Anc[dbBest] = Anc[Parent[dbBest]] \cup {dbBest}
        /\ Parent[dbBest] \in Anc[dbBest]
        /\ dbBest' = Parent[dbBest] /\ tip' = Parent[dbBest]
    BY ZenonT(40), <1>0, <1>2, AncFacts DEF StorageInv, ChainTypeOK, IndexInv, MemoryMatchesDisk, CallInv,
                                DisconnectUpdate
  <2>2. /\ UtxoMatchesBest' /\ JournalMatchesChain'
        /\ dbUtxo' \subseteq Entries /\ dbJournal' \in [Blocks -> SUBSET Entries]
        /\ dbMain' \subseteq Blocks /\ dbBest' \in Blocks /\ tip' \in Blocks
    BY ZenonT(40), <1>2, <2>1, DisconnectUpdateFacts DEF StorageInv
  <2>3. ChainTypeOK'
    BY ZenonT(40), <1>0, <1>2, <2>2 DEF StorageInv, ChainTypeOK, call
  <2>4. IndexInv'
    BY ZenonT(40), <1>0, <1>2, <2>1 DEF StorageInv, IndexInv, Indexed, MemoryMatchesDisk, Up
  <2>5. CallInv'
    BY ZenonT(40), <1>0, <1>2, <2>1 DEF StorageInv, CallInv
  <2>6. QED
    BY <2>2, <2>3, <2>4, <2>5 DEF StorageInv
<1>3. QED
  BY ZenonT(40), <1>1, <1>2 DEF DisconnectBlock

\* connectBlock of the next block of the new chain.
LEMMA ConnectBlockStep ==
  ASSUME StorageInv, ConnectBlock
  PROVE  StorageInv'
<1>0. /\ pc = "attach" /\ dirty = {} /\ Up
      /\ UNCHANGED <<dbBlocks, dbStatus, status, dirty, checkpoint, pool, now, faults>>
  BY ZenonT(40) DEF ConnectBlock, Up
<1>1. CASE AssertError /\ UNCHANGED chainState
  <2>1. ChainTypeOK'
    BY <1>0, <1>1, ReturnFacts DEF AssertError, StorageInv, ChainTypeOK, chainState
  <2>2. UtxoMatchesBest' /\ JournalMatchesChain'
    BY ZenonT(40), <1>1 DEF StorageInv, UtxoMatchesBest, JournalMatchesChain, chainState
  <2>3. IndexInv'
    BY ZenonT(40), <1>0, <1>1, ReturnFacts DEF AssertError, StorageInv, IndexInv, Indexed,
                                   MemoryMatchesDisk, Up, chainState
  <2>4. QED
    BY <1>1, <2>1, <2>2, <2>3, ReturnFacts DEF AssertError, StorageInv
<1>2. ASSUME NEW n \in attach, Parent[n] = tip, ConnectUpdate(n),
             attach' = attach \ {n}, isMain' = TRUE,
             pc' = IF attach' = {} THEN "accepted" ELSE "attach",
             UNCHANGED <<cur, fastAdd, processHashes, detach, todo, view, newBest, asserted>>
      PROVE  StorageInv'
  <2>1. /\ n \in Blocks \ {Genesis} /\ tip = dbBest /\ dbStatus[n] # {} /\ status[n] # {}
        /\ Anc[n] = Anc[tip] \cup {n} /\ dbBest' = n /\ tip' = n
    BY ZenonT(40), <1>0, <1>2, AncFacts DEF StorageInv, ChainTypeOK, IndexInv, MemoryMatchesDisk, CallInv,
                                ConnectUpdate
  <2>2. /\ UtxoMatchesBest' /\ JournalMatchesChain'
        /\ dbUtxo' \subseteq Entries /\ dbJournal' \in [Blocks -> SUBSET Entries]
        /\ dbMain' \subseteq Blocks /\ dbBest' \in Blocks /\ tip' \in Blocks
    BY ZenonT(40), <1>2, <2>1, ConnectUpdateFacts DEF StorageInv
  <2>3. ChainTypeOK'
    BY ZenonT(40), <1>0, <1>2, <2>2 DEF StorageInv, ChainTypeOK
  <2>4. IndexInv'
    BY ZenonT(40), <1>0, <1>2, <2>1 DEF StorageInv, IndexInv, Indexed, MemoryMatchesDisk, Up
  <2>5. CallInv'
    BY ZenonT(40), <1>0, <1>2, <2>1 DEF StorageInv, CallInv
  <2>6. QED
    BY <2>2, <2>3, <2>4, <2>5 DEF StorageInv
<1>3. QED
  BY <1>1, <1>2, Zenon DEF ConnectBlock

\* A failed transaction leaves the database as it was, the index bucket apart.
LEMMA UpdateFailsStep ==
  ASSUME StorageInv, UpdateFails
  PROVE  StorageInv'
<1>0. /\ Return /\ Fault /\ Up
      /\ UNCHANGED <<dbBlocks, chainState, status, checkpoint, pool, now, asserted>>
      /\ \/ UNCHANGED <<dbStatus, dirty>>
         \/ dbStatus' = Flushed(status, dirty) /\ dirty' = {}
  BY DEF UpdateFails, Up
<1>1. /\ faults' \in 0 .. MaxFaults /\ Flushed(status, dirty) \in [Blocks -> SUBSET Flags]
  BY ZenonT(40), <1>0, FaultType DEF StorageInv, ChainTypeOK, Flushed
<1>2. ChainTypeOK'
  BY <1>0, <1>1, ReturnFacts DEF StorageInv, ChainTypeOK, chainState
<1>3. UtxoMatchesBest' /\ JournalMatchesChain'
  BY ZenonT(40), <1>0 DEF StorageInv, UtxoMatchesBest, JournalMatchesChain, chainState
<1>4. IndexInv'
  <2>1. Up' /\ tip' = tip /\ dbBest' = dbBest /\ dbBlocks' = dbBlocks /\ status' = status
    BY ZenonT(40), <1>0, ReturnFacts DEF chainState
  <2>2. \A b \in Blocks \ dirty : status[b] = dbStatus[b]
    BY ZenonT(40), <1>0 DEF StorageInv, IndexInv, MemoryMatchesDisk
  <2>3. QED
    BY <1>0, <2>1, <2>2, SetAndFlushIndex DEF StorageInv, ChainTypeOK
<1>5. QED
  BY <1>0, <1>2, <1>3, <1>4, ReturnFacts DEF StorageInv

\* A crash leaves the database as it is.
LEMMA CrashStep ==
  ASSUME StorageInv, Crash
  PROVE  StorageInv'
<1>1. /\ faults' \in 0 .. MaxFaults /\ status' \in [Blocks -> SUBSET Flags]
  BY FaultType DEF Crash, StorageInv, ChainTypeOK
<1>2. ChainTypeOK'
  BY <1>1, ParentAssumption, Zenon DEF Crash, StorageInv, ChainTypeOK, disk
<1>3. UtxoMatchesBest' /\ JournalMatchesChain' /\ IndexInv'
  BY ZenonT(40) DEF Crash, StorageInv, UtxoMatchesBest, JournalMatchesChain, IndexInv, Indexed,
         MemoryMatchesDisk, Up, disk
<1>4. CallInv'
  BY ZenonT(40) DEF Crash, CallInv
<1>5. QED
  BY <1>2, <1>3, <1>4 DEF StorageInv

\* The database can be loaded, and loading it rebuilds the index.
LEMMA RestartStep ==
  ASSUME StorageInv, Restart
  PROVE  StorageInv'
<1> DEFINE st == SetFlag(dbStatus, Anc[dbBest], "valid")
           d == {b \in Anc[dbBest] : "valid" \notin dbStatus[b]}
<1>0. /\ Indexed(dbStatus) /\ dbStatus[dbBest] # {} /\ dbBest \in Blocks
      /\ Anc[dbBest] \subseteq Blocks /\ \A a \in Anc[dbBest] : dbStatus[a] # {}
      /\ dbStatus \in [Blocks -> SUBSET Flags]
  BY ZenonT(40), AncFacts DEF StorageInv, ChainTypeOK, IndexInv, Indexed
<1>1. Loadable
  BY ZenonT(40), <1>0, AncFacts DEF Loadable, Indexed
<1>2. CASE /\ Fault /\ UNCHANGED <<pc, tip, status, dirty, dbStatus>>
           /\ UNCHANGED <<dbBlocks, dbBest, dbMain, dbUtxo, dbJournal, checkpoint, pool,
                          call, reorg, now, asserted>>
  <2>1. faults' \in 0 .. MaxFaults
    BY ZenonT(40), <1>2, FaultType DEF StorageInv, ChainTypeOK
  <2>2. ChainTypeOK'
    BY <1>2, <2>1 DEF StorageInv, ChainTypeOK, call, reorg
  <2>3. UtxoMatchesBest' /\ JournalMatchesChain'
    BY ZenonT(40), <1>2 DEF StorageInv, UtxoMatchesBest, JournalMatchesChain
  <2>4. IndexInv'
    BY ZenonT(40), <1>2 DEF StorageInv, IndexInv, Indexed, MemoryMatchesDisk, Up
  <2>5. CallInv'
    BY ZenonT(40), <1>2 DEF StorageInv, CallInv, call, reorg
  <2>6. QED
    BY <2>2, <2>3, <2>4, <2>5 DEF StorageInv
<1>3. CASE /\ pc' = "idle" /\ tip' = dbBest /\ status' = st
           /\ dbStatus' = Flushed(st, d) /\ dirty' = {} /\ UNCHANGED faults
           /\ UNCHANGED <<dbBlocks, dbBest, dbMain, dbUtxo, dbJournal, checkpoint, pool,
                          call, reorg, now, asserted>>
  <2>1. /\ st \in [Blocks -> SUBSET Flags] /\ d \in SUBSET Blocks
        /\ \A b \in Blocks : st[b] # {} <=> dbStatus[b] # {}
        /\ \A b \in Blocks \ d : st[b] = dbStatus[b]
    BY ZenonT(40), <1>0 DEF SetFlag, Flags
  <2> HIDE DEF st, d
  <2>2. dbStatus' = st /\ status' = st
    BY <1>3, <2>1, FlushedIsStatus
  <2>3. ChainTypeOK'
    BY ZenonT(40), <1>0, <1>3, <2>1, <2>2 DEF StorageInv, ChainTypeOK, call, reorg
  <2>4. UtxoMatchesBest' /\ JournalMatchesChain'
    BY ZenonT(40), <1>3 DEF StorageInv, UtxoMatchesBest, JournalMatchesChain
  <2>5. IndexInv'
    <3>1. Indexed(status)' /\ Indexed(dbStatus)'
      <4>1. Indexed(st)
        BY ZenonT(40), <1>0, <2>1, SameIndexed
      <4>2. QED
        BY ZenonT(40), <1>3, <2>2, <4>1 DEF Indexed
    <3>2. MemoryMatchesDisk'
      BY <1>3, <2>2 DEF MemoryMatchesDisk
    <3>3. QED
      BY ZenonT(40), <1>0, <1>3, <2>1, <2>2, <3>1, <3>2 DEF IndexInv
  <2>6. CallInv'
    BY <1>3 DEF CallInv
  <2>7. QED
    BY <2>3, <2>4, <2>5, <2>6 DEF StorageInv
<1>4. QED
  BY ZenonT(40), <1>1, <1>2, <1>3 DEF Restart

\* Time passes.
LEMMA TickStep ==
  ASSUME StorageInv, Tick
  PROVE  StorageInv'
<1>1. now' \in 0 .. MaxTime
  BY BoundAssumption DEF Tick, StorageInv, ChainTypeOK
<1>2. ChainTypeOK'
  BY <1>1 DEF Tick, StorageInv, ChainTypeOK, disk, call, reorg
<1>3. UtxoMatchesBest' /\ JournalMatchesChain' /\ IndexInv' /\ CallInv'
  BY ZenonT(40) DEF Tick, StorageInv, UtxoMatchesBest, JournalMatchesChain, IndexInv, Indexed,
         MemoryMatchesDisk, Up, CallInv, disk
<1>4. QED
  BY ZenonT(40), <1>2, <1>3 DEF StorageInv

\* A stuttering step.
LEMMA StutterStep ==
  ASSUME StorageInv, UNCHANGED vars
  PROVE  StorageInv'
<1>1. ChainTypeOK'
  BY DEF StorageInv, ChainTypeOK, vars, disk, call, reorg
<1>2. UtxoMatchesBest' /\ JournalMatchesChain' /\ IndexInv'
  BY ZenonT(40) DEF StorageInv, UtxoMatchesBest, JournalMatchesChain, IndexInv, Indexed,
         MemoryMatchesDisk, Up, vars, disk
<1>3. CallInv'
  BY ZenonT(40) DEF StorageInv, CallInv, vars, disk, call, reorg
<1>4. QED
  BY <1>1, <1>2, <1>3 DEF StorageInv

----------------------------------------------------------------------------
(* The theorems. *)

\* StorageInv is an inductive invariant of the node: it holds through every
\* order of blocks, failed database transactions, crashes and restarts.
THEOREM StorageInvariant == Spec => []StorageInv
<1>1. Init => StorageInv
  BY InitStorage
<1>2. StorageInv /\ [Next]_vars => StorageInv'
  <2> SUFFICES ASSUME StorageInv, [Next]_vars PROVE StorageInv'
    OBVIOUS
  <2>1. CASE UNCHANGED vars
    BY <2>1, StutterStep
  <2>2. ASSUME NEW b \in Blocks \ {Genesis}, NEW fast \in BOOLEAN, ProcessBlock(b, fast)
        PROVE  StorageInv'
    BY <2>2, ProcessBlockStep
  <2>3. CASE Step
    BY <2>3, MaybeAcceptBlockStep, AddNodeStep, ProcessOrphansStep, ExtendBestChainStep,
       ExtendSideChainStep, ReorganizeRefusedStep, ReorganizeBeginStep, FlushToDBStep,
       ConnectTipStep, MarkValidStep, CheckDetachStep, CheckAttachStep, DisconnectBlockStep,
       ConnectBlockStep DEF Step
  <2>4. CASE UpdateFails \/ Crash \/ Restart \/ Tick
    BY <2>4, UpdateFailsStep, CrashStep, RestartStep, TickStep
  <2>5. QED
    BY <2>1, <2>2, <2>3, <2>4, Zenon DEF Next
<1>3. QED
  BY <1>1, <1>2, PTL DEF Spec

\* The variables keep their types.
THEOREM ChainTypes == Spec => []ChainTypeOK
<1>1. StorageInv => ChainTypeOK
  BY DEF StorageInv
<1>2. QED
  BY <1>1, StorageInvariant, PTL

\* For every block tree, the utxo set and the main chain index in the database
\* are at all times those of the chain that ends in the stored best state.
THEOREM UtxoCorrect == Spec => []UtxoMatchesBest
<1>1. StorageInv => UtxoMatchesBest
  BY DEF StorageInv
<1>2. QED
  BY <1>1, StorageInvariant, PTL

\* The spend journal is complete for the blocks of the main chain, so each of
\* them can be disconnected, and has no row for any other block.
THEOREM JournalCorrect == Spec => []JournalMatchesChain
<1>1. StorageInv => JournalMatchesChain
  BY DEF StorageInv
<1>2. QED
  BY <1>1, StorageInvariant, PTL

\* The node can be restarted from its database in every reachable state.
THEOREM AlwaysRecoverable == Spec => []DiskRecoverable
<1>1. StorageInv => DiskRecoverable
  BY ZenonT(40), AncFacts DEF StorageInv, ChainTypeOK, IndexInv, Indexed, DiskRecoverable, Loadable
<1>2. QED
  BY <1>1, StorageInvariant, PTL

\* The index in memory and the index bucket differ in dirty nodes only.
THEOREM MemoryCorrect == Spec => []MemoryMatchesDisk
<1>1. StorageInv => MemoryMatchesDisk
  BY DEF StorageInv, IndexInv
<1>2. QED
  BY <1>1, StorageInvariant, PTL

----------------------------------------------------------------------------
(* The invariant of the verdicts, which the proofs about the best chain use as well. *)


Bad == {"failed", "badAncestor"}
FastChain(b) == Anc[b] \cap FastBlocks # {}
Checked(b) == GoodChain(b) \/ FastChain(b)

\* What holds of the flags of an index, in memory or on disk.  That the
\* ancestors of a valid node are valid is why a node found invalid cannot have
\* a valid node above it.
Verdicts(st) ==
  \A b \in Blocks \ {Genesis} :
    /\ "failed" \in st[b] => ~CheckConnectBlock(b, UtxoAfter[Parent[b]])
    /\ "badAncestor" \in st[b] => \E a \in Anc[b] \ {b} : "failed" \in st[a]
    /\ "valid" \in st[b] => /\ Checked(b) /\ st[b] \cap Bad = {}
                            /\ \A a \in Anc[b] : "valid" \in st[a]

\* The best chain holds checked blocks only, whose nodes are marked valid; the
\* node of a block that is added fast is so only after it was connected.
MainInv ==
  /\ \A a \in Anc[dbBest] \ {Genesis} : Checked(a) /\ dbStatus[a] \cap Bad = {}
  /\ Up => \A a \in Anc[dbBest] : "valid" \in status[a] \/ (pc = "markValid" /\ a = cur)

\* No orphan is in the index, nor is the block that maybeAcceptBlock works on;
\* both are empty while the node is down.
OrphanInv ==
  /\ orphans \in Seq([hash : Blocks, expiration : Nat])
  /\ \A i \in DOMAIN orphans : status[orphans[i].hash] = {}
  /\ pc = "down" => orphans = <<>> /\ \A b \in Blocks : status[b] = {}
  /\ pc \in {"accept", "index"} => status[cur] = {} /\ cur \notin OrphanHashes

\* A call with BFFastAdd works on the block it was made for and, through
\* processOrphans, on descendants of it.
FastInv ==
  /\ processHashes \in Seq(Blocks) /\ (pc \in {"idle", "down"} => processHashes = <<>>)
  /\ fastAdd => /\ FastChain(cur)
                /\ \A i \in DOMAIN processHashes : FastChain(processHashes[i])

NodeInv ==
  /\ pc = "connect" => status[cur] = {"stored"}
  /\ pc = "tip" => status[cur] \cap Bad = {} /\ (fastAdd \/ "valid" \in status[cur])
  /\ pc = "markValid" => cur = tip /\ fastAdd /\ status[cur] \cap Bad = {}

\* The two branches of a reorganization, and its view: the utxo set of the
\* block the check phase has reached.
ReorgInv ==
  /\ pc \in {"checkDetach", "checkAttach", "detach", "attach"} =>
       /\ attach = Anc[cur] \ Anc[tip] /\ detach = Anc[tip] \ Anc[cur]
       /\ \A n \in attach : ~KnownInvalid(n)
  /\ pc = "checkDetach" =>
       /\ newBest \in Anc[tip] /\ todo = Anc[newBest] \ Anc[cur]
       /\ Anc[tip] \cap Anc[cur] \subseteq Anc[newBest]
       /\ view = UtxoAfter[newBest]
  /\ pc = "checkAttach" =>
       /\ newBest \in Anc[cur] /\ todo = Anc[cur] \ Anc[newBest]
       /\ Anc[tip] \cap Anc[cur] \subseteq Anc[newBest]
       /\ view = UtxoAfter[newBest] /\ "valid" \in status[newBest]
  /\ pc \in {"detach", "attach"} => \A n \in attach : "valid" \in status[n]
  /\ pc = "attach" => tip \in Anc[cur]

VerdictInv ==
  /\ Verdicts(dbStatus)
  /\ Up => Verdicts(status) /\ \A b \in Blocks : dbStatus[b] \subseteq status[b]
  /\ MainInv /\ OrphanInv /\ FastInv /\ NodeInv /\ ReorgInv

\* A flush that covers the dirty nodes makes the bucket equal to the index.
LEMMA FlushAll ==
  ASSUME StorageInv, Up, NEW st \in [Blocks -> SUBSET Flags], NEW d \in SUBSET Blocks,
         dirty \subseteq d, \A b \in Blocks \ d : st[b] = status[b]
  PROVE  Flushed(st, d) = st
<1>1. \A b \in Blocks \ d : st[b] = dbStatus[b]
  BY Zenon DEF StorageInv, IndexInv, MemoryMatchesDisk
<1>2. QED
  BY ZenonT(40), <1>1, FlushedIsStatus

\* The next block of the new branch: its parent is the block connected last to
\* the view of the check phase, whose chain was checked.
LEMMA AttachNext ==
  ASSUME ListFacts, StorageInv, VerdictInv, pc = "checkAttach", NEW n \in todo, First(n, todo)
  PROVE  /\ n \in Blocks \ {Genesis} /\ n \in Anc[cur] /\ Parent[n] = newBest
         /\ Anc[cur] \ Anc[n] = todo \ {n} /\ \A m \in todo \ {n} : n \in Anc[m]
         /\ Anc[n] = Anc[newBest] \cup {n} /\ n \notin Anc[newBest]
         /\ UtxoAfter[n] = ConnectTransactions(view, n) /\ view = UtxoAfter[newBest]
         /\ status[n] \cap Bad = {} /\ status[n] # {} /\ n \notin Anc[tip]
         /\ \A a \in Anc[newBest] : "valid" \in status[a]
         /\ newBest # Genesis => Checked(newBest)
<1>0. /\ cur \in Blocks /\ newBest \in Anc[cur] /\ newBest \in Blocks
      /\ todo = Anc[cur] \ Anc[newBest] /\ view = UtxoAfter[newBest]
      /\ "valid" \in status[newBest] /\ Anc[tip] \cap Anc[cur] \subseteq Anc[newBest]
      /\ attach = Anc[cur] \ Anc[tip] /\ \A k \in attach : ~KnownInvalid(k)
      /\ Verdicts(status) /\ status[n] # {}
  BY ZenonT(40) DEF Up, StorageInv, ChainTypeOK, CallInv, VerdictInv, ReorgInv
<1>1. /\ n \in Blocks \ {Genesis} /\ n \in Anc[cur] /\ Parent[n] = newBest
      /\ Anc[cur] \ Anc[n] = todo \ {n} /\ \A m \in todo \ {n} : n \in Anc[m]
  <2>1. First(n, Anc[cur] \ Anc[newBest])
    BY ZenonT(40), <1>0
  <2>2. QED
    BY ZenonT(40), <1>0, <2>1, FirstOfBranch
<1>2. /\ Anc[n] = Anc[newBest] \cup {n} /\ n \notin Anc[newBest]
      /\ UtxoAfter[n] = ConnectTransactions(view, n)
  BY ZenonT(40), <1>0, <1>1, TreeAssumption
<1>3. status[n] \cap Bad = {} /\ n \notin Anc[tip]
  BY ZenonT(40), <1>0, <1>1 DEF KnownInvalid, Bad
<1>4. /\ \A a \in Anc[newBest] : "valid" \in status[a]
      /\ newBest # Genesis => Checked(newBest)
  <2>1. CASE newBest = Genesis
    <3>1. Anc[newBest] = {newBest}
      BY ZenonT(40), <2>1, TreeAssumption
    <3>2. QED
      BY ZenonT(40), <1>0, <2>1, <3>1
  <2>2. CASE newBest # Genesis
    BY ZenonT(40), <1>0, <2>2 DEF Verdicts
  <2>3. QED
    BY ZenonT(40), <2>1, <2>2
<1>5. QED
  BY ZenonT(40), <1>0, <1>1, <1>2, <1>3, <1>4
=============================================================================
