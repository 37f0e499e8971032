--------------------------- MODULE BestChainProofs ---------------------------
(***************************************************************************)
(* For every block tree: a checkpoint that findPreviousCheckpoint has locked *)
(* in stays on the best chain, the states that the code asserts to be        *)
(* impossible are, and the best chain is the valid one with the most work.   *)
(* Here are the invariant and its steps; ChainTheorems has the theorems.     *)
(***************************************************************************)
EXTENDS BlockChainProofs

\* The checkpoint cache holds one of the checkpoints and points to the next
\* one; before the first, it is empty or points to the first.
CacheOK(c) ==
  \/ c.node = None /\ c.next \in {0, 1} /\ (c.next = 1 => Len(Checkpoints) > 0)
  \/ \E i \in DOMAIN Checkpoints :
       c.node = Checkpoints[i] /\ c.next = IF i < Len(Checkpoints) THEN i + 1 ELSE 0

\* The steps of a call that work on a block which passed the check against the
\* cached checkpoint.
Working == {"index", "connect", "tip", "checkDetach", "checkAttach", "detach", "attach"}

\* Every node passed verifyCheckpoint, the cached checkpoint is on the best
\* chain, and the branch of the block at hand reaches up to it.
CheckpointInv ==
  /\ checkpoint \in [node : Blocks \cup {None}, next : Nat] /\ CacheOK(checkpoint)
  /\ \A b \in Blocks : status[b] \cup dbStatus[b] # {} => VerifyCheckpoint(b)
  /\ pc = "index" => VerifyCheckpoint(cur)
  /\ checkpoint.node # None => Up /\ checkpoint.node \in Anc[tip]
  /\ pc \in Working /\ checkpoint.node # None => Height[checkpoint.node] <= Height[cur]

\* The inputs of a block that is marked valid or is on the best chain exist: a
\* block that is added fast is not checked, but its inputs are loaded.
Spendable(b) == InputsExist(b, UtxoAfter[Parent[b]])
InputsInv ==
  /\ \A b \in Blocks \ {Genesis} :
       "valid" \in status[b] \cup dbStatus[b] \/ b \in Anc[dbBest] => Spendable(b)
  /\ pc \in {"tip", "markValid"} => Spendable(cur)
  /\ "failed" \notin status[Genesis] \cup dbStatus[Genesis]

\* No valid chain has more work than the best one, except for that of the block
\* at hand until it is known whether it is valid, and for what a reorganization
\* has taken off the best chain and not yet replaced.
NoneBetter(S, w) == \A b \in S : HaveNode(b) /\ GoodChain(b) => WorkSum[b] <= w
WorkInv ==
  /\ pc = "down" => faults > 0
  /\ faults = 0 =>
       /\ pc \in {"idle", "accept", "index", "accepted", "markValid"} => NoneBetter(Blocks, WorkSum[tip])
       /\ pc \in {"connect", "tip", "checkDetach", "checkAttach"} => NoneBetter(Blocks \ {cur}, WorkSum[tip])
       /\ pc \in {"checkDetach", "checkAttach"} => WorkSum[tip] < WorkSum[cur]
       /\ pc \in {"detach", "attach"} => NoneBetter(Blocks, WorkSum[cur])

\* The only AssertError that the code returns is that of connectBlock for a block
\* that is added fast and spends what does not exist.
AssertOnlyFast ==
  [][asserted' # asserted =>
       pc = "connect" /\ fastAdd /\ Anc[cur] \cap FastBlocks # {} /\ ~Spendable(cur)]_vars

\* What a step must not do: return an AssertError, except the one above.
Asserts ==
  asserted' # asserted =>
    pc = "connect" /\ fastAdd /\ Anc[cur] \cap FastBlocks # {} /\ ~Spendable(cur)

----------------------------------------------------------------------------
(* Facts about trees, checkpoints and the steps that change flags. *)

\* A block that has more work than a bound on the other chains bounds them all.
LEMMA MoreThanAll ==
  ASSUME NEW c \in Blocks, NEW w \in Nat, w < WorkSum[c], NoneBetter(Blocks \ {c}, w),
         \A b \in Blocks : WorkSum[b] \in Nat
  PROVE  NoneBetter(Blocks, WorkSum[c])
BY DEF NoneBetter

\* A block is not higher than itself.
LEMMA OwnHeight == \A b \in Blocks : Height[b] <= Height[b]
<1>1. \A n \in Nat : n <= n
  OBVIOUS
<1>2. QED
  BY Zenon, <1>1, TreeAssumption

\* Before the first checkpoint is found the cache is empty.
LEMMA EmptyCache ==
  /\ NoCheckpoint \in [node : Blocks \cup {None}, next : Nat]
  /\ NoCheckpoint.node = None /\ CacheOK(NoCheckpoint)
BY DEF NoCheckpoint, CacheOK

\* A chain with a block that checkConnectBlock refuses is not a valid one.
LEMMA BadNotGood ==
  ASSUME NEW b \in Blocks, NEW a \in Anc[b] \ {Genesis}, ~CheckConnectBlock(a, UtxoAfter[Parent[a]])
  PROVE  ~GoodChain(b)
BY DEF GoodChain

\* A block has an ancestor at every height up to its own.
LEMMA AncestorAt ==
  ASSUME ListFacts, NEW b \in Blocks, NEW h \in Nat, h <= Height[b]
  PROVE  \E a \in Anc[b] : Height[a] = h
<1> DEFINE T == {k \in Nat : k >= h /\ \E a \in Anc[b] : Height[a] = k}
<1>1. Height[b] \in T
  BY AncFacts, TreeAssumption
<1>2. PICK k \in T : \A m \in T : k <= m
  BY Zenon, <1>1, LeastNumber
<1>3. PICK a \in Anc[b] : Height[a] = k
  BY <1>2
<1>4. a \in Blocks /\ Anc[a] \subseteq Anc[b]
  BY AncOrder
<1>5. k = h
  <2> SUFFICES ASSUME k > h
               PROVE  FALSE
    BY <1>2
  <2>1. a # Genesis
    BY <1>2, <1>3, TreeAssumption
  <2>2. /\ Parent[a] \in Anc[b] /\ Parent[a] \in Blocks
        /\ Height[a] = Height[Parent[a]] + 1 /\ Height[Parent[a]] \in Nat
    BY <1>4, <2>1, AncFacts, TreeAssumption
  <2>3. Height[Parent[a]] \in T
    BY <1>2, <1>3, <2>2
  <2>4. QED
    BY <1>2, <1>3, <2>2, <2>3
<1>6. QED
  BY <1>3, <1>5

\* A chain of blocks that all pass verifyCheckpoint goes through every
\* checkpoint up to its height.
LEMMA CheckpointOnBranch ==
  ASSUME ListFacts, NEW b \in Blocks, \A a \in Anc[b] : VerifyCheckpoint(a),
         NEW i \in DOMAIN Checkpoints, Height[Checkpoints[i]] <= Height[b]
  PROVE  Checkpoints[i] \in Anc[b]
<1>1. Checkpoints[i] \in Blocks /\ Height[Checkpoints[i]] \in Nat
  BY CheckpointAssumption, TreeAssumption
<1>2. PICK a \in Anc[b] : Height[a] = Height[Checkpoints[i]]
  BY <1>1, AncestorAt
<1>3. QED
  BY <1>2 DEF VerifyCheckpoint

\* The indices of some checkpoints have a last one.
LEMMA LastIndex ==
  ASSUME ListFacts, NEW n \in Nat, NEW S \in SUBSET (1 .. n), S # {}
  PROVE  \E j \in S : \A k \in S : k <= j
<1> DEFINE T == {m \in Nat : n - m \in S}
<1>1. T # {}
  <2>1. PICK j \in S : TRUE
    BY Zenon
  <2>2. n - j \in T
    BY <2>1
  <2>3. QED
    BY Zenon, <2>2
<1>2. PICK m \in T : \A k \in T : m <= k
  BY Zenon, <1>1, LeastNumber
<1>3. \A k \in S : n - k \in T
  OBVIOUS
<1>4. \A k \in S : k <= n - m
  BY <1>2, <1>3
<1>5. QED
  BY <1>2, <1>4

\* The ancestors of a node of the index are nodes, and pass verifyCheckpoint.
LEMMA NodesVerified ==
  ASSUME StorageInv, CheckpointInv, Up, NEW b \in Blocks, status[b] # {}
  PROVE  \A a \in Anc[b] : a \in Blocks /\ status[a] # {} /\ VerifyCheckpoint(a)
BY AncFacts DEF StorageInv, IndexInv, Indexed, CheckpointInv

\* The tip is a node of the index.
LEMMA TipNode ==
  ASSUME StorageInv, Up
  PROVE  tip = dbBest /\ tip \in Blocks /\ status[tip] # {}
BY DEF StorageInv, ChainTypeOK, IndexInv, MemoryMatchesDisk

\* findPreviousCheckpoint never passes a checkpoint unseen, and what it caches
\* is on the best chain.
LEMMA FindCheckpoint ==
  ASSUME ListFacts, StorageInv, CheckpointInv, Up, NEW c, c = FindPreviousCheckpoint(checkpoint)
  PROVE  /\ ~CheckpointLost(checkpoint)
         /\ c \in [node : Blocks \cup {None}, next : Nat] /\ CacheOK(c)
         /\ c.node # None => c.node \in Anc[tip]
<1> DEFINE n == Len(Checkpoints)
           known == {i \in 1 .. n : HaveNode(Checkpoints[i]) /\ Checkpoints[i] \in Anc[tip]}
           i == CHOOSE j \in known : \A k \in known : k <= j
           next(j) == IF j < n THEN j + 1 ELSE 0
<1>0. n \in Nat /\ DOMAIN Checkpoints = 1 .. n /\ \A j \in 1 .. n : Checkpoints[j] \in Blocks
  BY CheckpointAssumption
<1>1. /\ checkpoint \in [node : Blocks \cup {None}, next : Nat] /\ CacheOK(checkpoint)
      /\ checkpoint.node # None => checkpoint.node \in Anc[tip]
  BY DEF CheckpointInv
<1>2. checkpoint.next # 0 => checkpoint.next \in 1 .. n
  BY <1>0, <1>1 DEF CacheOK
<1>3. ASSUME checkpoint.next # 0, ~(Height[tip] < Height[Checkpoints[checkpoint.next]])
      PROVE  Checkpoints[checkpoint.next] \in Anc[tip] /\ HaveNode(Checkpoints[checkpoint.next])
  <2>1. tip \in Blocks /\ status[tip] # {}
    BY TipNode
  <2>2. \A a \in Anc[tip] : status[a] # {} /\ VerifyCheckpoint(a)
    BY <2>1, NodesVerified
  <2>3. Checkpoints[checkpoint.next] \in Blocks
    BY <1>0, <1>2, <1>3
  <2>4. Height[Checkpoints[checkpoint.next]] <= Height[tip]
    BY <1>3, <2>1, <2>3, TreeAssumption
  <2>5. QED
    BY <1>0, <1>2, <1>3, <2>1, <2>2, <2>4, CheckpointOnBranch DEF HaveNode
<1>4. ~CheckpointLost(checkpoint)
  <2>1. Height[tip] \in Nat
    BY TipNode, TreeAssumption
  <2>2. ASSUME checkpoint.next # 0
        PROVE  Height[Checkpoints[checkpoint.next]] \in Nat
    BY <1>0, <1>2, <2>2, TreeAssumption
  <2>3. QED
    BY <1>3, <2>1, <2>2 DEF CheckpointLost
<1>5. ASSUME NEW j \in 1 .. n, c = [node |-> Checkpoints[j], next |-> next(j)], Checkpoints[j] \in Anc[tip]
      PROVE  /\ c \in [node : Blocks \cup {None}, next : Nat] /\ CacheOK(c)
             /\ c.node # None => c.node \in Anc[tip]
  <2>1. next(j) \in Nat
    BY <1>0
  <2>2. CacheOK(c)
    BY <1>0, <1>5 DEF CacheOK
  <2>3. QED
    BY <1>0, <1>5, <2>1, <2>2
<1>6. CASE n = 0 \/ c = checkpoint
  BY <1>1, <1>4, <1>6, Zenon DEF FindPreviousCheckpoint
<1>7. CASE n # 0 /\ checkpoint.node = None /\ checkpoint.next = 0
  <2>1. c = IF known = {} THEN [node |-> None, next |-> 1] ELSE [node |-> Checkpoints[i], next |-> next(i)]
    BY <1>7 DEF FindPreviousCheckpoint
  <2>2. CASE known = {}
    <3>1. c = [node |-> None, next |-> 1]
      BY <2>1, <2>2
    <3>2. CacheOK(c)
      BY <1>0, <1>7, <3>1 DEF CacheOK
    <3>3. QED
      BY <1>4, <3>1, <3>2
  <2>3. CASE known # {}
    <3>1. \E j \in known : \A k \in known : k <= j
      BY Zenon, <1>0, <2>3, LastIndex
    <3>2. i \in known
      BY <3>1
    <3>3. i \in 1 .. n /\ Checkpoints[i] \in Anc[tip]
      BY <3>2
    <3>4. c = [node |-> Checkpoints[i], next |-> next(i)]
      BY ZenonT(40), <2>1, <2>3
    <3> HIDE DEF i
    <3>5. QED
      BY <1>4, <1>5, <3>3, <3>4
  <2>4. QED
    BY ZenonT(40), <2>2, <2>3
<1>8. CASE /\ n # 0 /\ ~(checkpoint.node = None /\ checkpoint.next = 0) /\ c # checkpoint
  <2>1. /\ checkpoint.next # 0 /\ ~(Height[tip] < Height[Checkpoints[checkpoint.next]])
        /\ c = [node |-> Checkpoints[checkpoint.next], next |-> next(checkpoint.next)]
    BY <1>8 DEF FindPreviousCheckpoint
  <2>2. QED
    BY ZenonT(40), <1>2, <1>3, <1>4, <1>5, <2>1
<1>9. QED
  BY <1>6, <1>7, <1>8

\* A step that leaves the checkpoint cache alone, adds no node and does not
\* take the cached checkpoint off the best chain.
LEMMA CheckpointFrame ==
  ASSUME CheckpointInv, checkpoint' = checkpoint, Up', pc' # "index",
         checkpoint.node # None => checkpoint.node \in Anc[tip'],
         \A b \in Blocks : status'[b] \cup dbStatus'[b] # {} => status[b] \cup dbStatus[b] # {},
         pc' \in Working => pc \in Working /\ cur' = cur
  PROVE  CheckpointInv'
<1>1. \A b \in Blocks : (status[b] \cup dbStatus[b] # {} => VerifyCheckpoint(b))'
  BY DEF CheckpointInv
<1>2. CacheOK(checkpoint)' /\ (checkpoint \in [node : Blocks \cup {None}, next : Nat])'
  BY DEF CheckpointInv, CacheOK
<1>3. QED
  BY <1>1, <1>2 DEF CheckpointInv

\* A step that marks no block valid and adds none to the best chain.
LEMMA InputsFrame ==
  ASSUME InputsInv, Anc[dbBest'] \subseteq Anc[dbBest],
         \A b \in Blocks : "valid" \in status'[b] \cup dbStatus'[b] => "valid" \in status[b] \cup dbStatus[b],
         "failed" \in status'[Genesis] \cup dbStatus'[Genesis] =>
           "failed" \in status[Genesis] \cup dbStatus[Genesis],
         pc' \in {"tip", "markValid"} => Spendable(cur')
  PROVE  InputsInv'
BY DEF InputsInv

\* The three invariants of this module.
BestInv == CheckpointInv /\ InputsInv /\ WorkInv

\* A step that changes no flag, not the tip and not the cache.
LEMMA QuietStep ==
  ASSUME CheckpointInv, InputsInv, Up', pc' # "index",
         UNCHANGED <<dbStatus, dbBest, status, tip, checkpoint>>,
         pc' \in Working => pc \in Working /\ cur' = cur,
         pc' \in {"tip", "markValid"} => Spendable(cur')
  PROVE  CheckpointInv' /\ InputsInv'
<1>1. CheckpointInv'
  <2>1. checkpoint.node # None => checkpoint.node \in Anc[tip']
    BY DEF CheckpointInv
  <2>2. QED
    BY <2>1, CheckpointFrame
<1>2. QED
  BY <1>1, InputsFrame

\* A step that looks up the last checkpoint, and goes on only with a block that
\* passes the check against it.
LEMMA CacheStep ==
  ASSUME ListFacts, StorageInv, CheckpointInv, InputsInv, Up, Up', pc' \notin {"tip", "markValid"},
         checkpoint' = FindPreviousCheckpoint(checkpoint),
         UNCHANGED <<dbStatus, dbBest, status, tip>>,
         pc' = "index" => VerifyCheckpoint(cur'),
         pc' \in Working /\ checkpoint'.node # None => Height[checkpoint'.node] <= Height[cur']
  PROVE  CheckpointInv' /\ InputsInv'
<1>1. /\ checkpoint' \in [node : Blocks \cup {None}, next : Nat] /\ CacheOK(checkpoint')
      /\ checkpoint'.node # None => checkpoint'.node \in Anc[tip]
  BY FindCheckpoint
<1>2. CheckpointInv'
  BY <1>1 DEF CheckpointInv, CacheOK
<1>3. QED
  BY ZenonT(40), <1>2, InputsFrame

----------------------------------------------------------------------------
(* The steps of ProcessBlock. *)

\* ProcessBlock moves the cache, and returns no AssertError.
LEMMA ProcessBlockBest ==
  ASSUME ListFacts, StorageInv, BestInv, NEW b \in Blocks \ {Genesis}, NEW fast \in BOOLEAN,
         ProcessBlock(b, fast)
  PROVE  BestInv' /\ Asserts
<1>0. pc = "idle" /\ Up
  BY ZenonT(40) DEF ProcessBlock, Up
<1>1. CASE UNCHANGED vars
  BY ZenonT(40), <1>0, <1>1, QuietStep DEF vars, disk, BestInv, WorkInv, NoneBetter, HaveNode, Asserts, Up, Working
<1>2. CASE ~UNCHANGED vars
  <2>1. /\ UNCHANGED <<dbStatus, dbBest, status, tip, faults, asserted>>
        /\ checkpoint' = FindPreviousCheckpoint(checkpoint)
        /\ pc' \in {"idle", "accept"}
    <3>1. ~CheckpointLost(checkpoint)
      BY <1>0, FindCheckpoint DEF BestInv
    <3>2. QED
      BY ZenonT(40), <1>0, <1>2, <3>1 DEF ProcessBlock, disk
  <2>2. CheckpointInv' /\ InputsInv'
    BY ZenonT(40), <1>0, <2>1, CacheStep DEF BestInv, Up, Working
  <2>3. WorkInv'
    BY ZenonT(40), <1>0, <2>1 DEF BestInv, WorkInv, NoneBetter, HaveNode
  <2>4. QED
    BY <2>1, <2>2, <2>3 DEF BestInv, Asserts
<1>3. QED
  BY ZenonT(40), <1>1, <1>2

\* maybeAcceptBlock lets a block pass only if it respects the checkpoints.
LEMMA MaybeAcceptBlockBest ==
  ASSUME ListFacts, StorageInv, BestInv, MaybeAcceptBlock
  PROVE  BestInv' /\ Asserts
<1> DEFINE c == FindPreviousCheckpoint(checkpoint)
<1>0. /\ pc = "accept" /\ Up /\ UNCHANGED <<dbStatus, dbBest, status, tip, faults>>
      /\ cur \in Blocks /\ ~CheckpointLost(checkpoint)
  BY ZenonT(40), FindCheckpoint DEF MaybeAcceptBlock, Up, chainState, BestInv, StorageInv, ChainTypeOK
<1>1. /\ c \in [node : Blocks \cup {None}, next : Nat]
  BY ZenonT(40), <1>0, FindCheckpoint DEF BestInv
<1>2. /\ asserted' = asserted /\ pc' \in {"idle", "index"}
      /\ \/ checkpoint' = checkpoint /\ pc' = "idle"
         \/ /\ checkpoint' = c
            /\ pc' = "index" => cur' = cur /\ CheckpointOK(cur, c)
  BY <1>0 DEF MaybeAcceptBlock, Return, call
<1> HIDE DEF c
<1>3. ASSUME checkpoint' = checkpoint, pc' = "idle"
      PROVE  CheckpointInv' /\ InputsInv'
  BY ZenonT(40), <1>0, <1>3, QuietStep DEF BestInv, Up, Working
<1>4. ASSUME checkpoint' = c, pc' = "index" => cur' = cur /\ CheckpointOK(cur, c)
      PROVE  CheckpointInv' /\ InputsInv'
  <2>1. ASSUME c.node # None, pc' = "index"
        PROVE  Height[c.node] <= Height[cur]
    <3>1. c.node \in Blocks
      BY ZenonT(40), <1>1, <2>1
    <3>2. Height[c.node] \in Nat /\ Height[cur] \in Nat
      BY <1>0, <3>1, TreeAssumption
    <3>3. QED
      BY <1>4, <2>1, <3>2 DEF CheckpointOK
  <2>2. pc' = "index" => VerifyCheckpoint(cur') /\ cur' = cur
    BY <1>4 DEF CheckpointOK
  <2>3. QED
    BY ZenonT(40), <1>0, <1>2, <1>4, <2>1, <2>2, CacheStep DEF BestInv, Up, Working, c
<1>5. CheckpointInv' /\ InputsInv'
  BY ZenonT(40), <1>2, <1>3, <1>4
<1>6. WorkInv'
  BY ZenonT(40), <1>0, <1>2 DEF BestInv, WorkInv, NoneBetter, HaveNode
<1>7. QED
  BY ZenonT(40), <1>2, <1>5, <1>6 DEF BestInv, Asserts

\* The new node passed verifyCheckpoint.
LEMMA AddNodeBest ==
  ASSUME StorageInv, BestInv, AddNode
  PROVE  BestInv' /\ Asserts
<1>0. /\ pc = "index" /\ Up /\ cur \in Blocks \ {Genesis} /\ faults \in Nat
      /\ UNCHANGED <<dbBest, tip, checkpoint, asserted>>
      /\ \/ pc' = "connect" /\ cur' = cur /\ faults' = faults
         \/ pc' = "idle" /\ faults' = faults + 1
  BY DEF AddNode, Fault, Return, Up, chainState, call, StorageInv, ChainTypeOK, CallInv
<1>1. /\ \A b \in Blocks \ {cur} : status'[b] = status[b] /\ dbStatus'[b] \in {dbStatus[b], status[b]}
      /\ status'[cur] = {"stored"} /\ dbStatus'[cur] \in {dbStatus[cur], {"stored"}}
  BY ZenonT(40), <1>0 DEF AddNode, Flushed, StorageInv, ChainTypeOK
<1>2. CheckpointInv'
  <2>1. /\ (checkpoint \in [node : Blocks \cup {None}, next : Nat])' /\ CacheOK(checkpoint)'
        /\ (checkpoint.node # None => Up /\ checkpoint.node \in Anc[tip])'
        /\ (pc \in Working /\ checkpoint.node # None => Height[checkpoint.node] <= Height[cur])'
    BY ZenonT(40), <1>0 DEF BestInv, CheckpointInv, CacheOK, Up, Working
  <2>2. \A b \in Blocks : status'[b] \cup dbStatus'[b] # {} => VerifyCheckpoint(b)
    BY ZenonT(40), <1>0, <1>1 DEF BestInv, CheckpointInv
  <2>3. QED
    BY ZenonT(40), <1>0, <2>1, <2>2 DEF CheckpointInv
<1>3. InputsInv'
  <2>1. \A b \in Blocks : "valid" \in status'[b] \cup dbStatus'[b] => "valid" \in status[b] \cup dbStatus[b]
    BY <1>1
  <2>2. Genesis \in Blocks \ {cur}
    BY ZenonT(40), <1>0, ParentAssumption
  <2>3. QED
    BY ZenonT(40), <1>0, <1>1, <2>1, <2>2, InputsFrame DEF BestInv
<1>4. WorkInv'
  BY <1>0, <1>1 DEF BestInv, WorkInv, NoneBetter, HaveNode
<1>5. QED
  BY ZenonT(40), <1>0, <1>2, <1>3, <1>4 DEF BestInv, Asserts

\* processOrphans goes on with an orphan, or ends the call.
LEMMA ProcessOrphansBest ==
  ASSUME BestInv, ProcessOrphans
  PROVE  BestInv' /\ Asserts
<1>1. /\ pc = "accepted" /\ pc' \in {"idle", "accept"}
      /\ UNCHANGED <<dbStatus, dbBest, status, tip, checkpoint, faults, asserted>>
  BY DEF ProcessOrphans, Return, disk
<1>2. CheckpointInv' /\ InputsInv'
  BY ZenonT(40), <1>1, QuietStep DEF BestInv, Up, Working
<1>3. WorkInv'
  BY <1>1 DEF BestInv, WorkInv, NoneBetter, HaveNode
<1>4. QED
  BY ZenonT(40), <1>1, <1>2, <1>3 DEF BestInv, Asserts

\* Marking nodes of the index adds no node; on disk, the flags of a node are
\* those it had there or those it has in memory.
LEMMA Marked ==
  ASSUME StorageInv, Up, NEW S \in SUBSET Blocks, NEW st \in [Blocks -> SUBSET Flags],
         \A b \in Blocks \ S : st[b] = status[b], SetAndFlush(st, dirty \cup S)
  PROVE  /\ status' = st /\ faults' \in Nat /\ (faults' = 0 => faults = 0)
         /\ \A b \in Blocks : dbStatus'[b] = dbStatus[b] \/ dbStatus'[b] = st[b]
<1>1. Flushed(st, dirty \cup S) = st
  <2>1. dirty \cup S \in SUBSET Blocks
    BY DEF StorageInv, ChainTypeOK
  <2>2. QED
    BY ZenonT(40), <2>1, FlushAll
<1>2. faults \in Nat
  BY BoundAssumption DEF StorageInv, ChainTypeOK
<1>3. QED
  BY <1>1, <1>2 DEF SetAndFlush, Fault

\* A side chain with no more work than the best chain leaves it the best.
LEMMA ExtendSideChainBest ==
  ASSUME StorageInv, BestInv, ExtendSideChain
  PROVE  BestInv' /\ Asserts
<1>1. /\ pc = "connect" /\ pc' = "accepted" /\ ~MoreWork(cur) /\ cur \in Blocks /\ tip \in Blocks
      /\ UNCHANGED <<dbStatus, dbBest, status, tip, checkpoint, faults, asserted>>
  BY DEF ExtendSideChain, disk, StorageInv, ChainTypeOK
<1>2. CheckpointInv' /\ InputsInv'
  BY ZenonT(40), <1>1, QuietStep DEF BestInv, Up, Working
<1>3. WorkSum[cur] <= WorkSum[tip]
  BY <1>1, TreeAssumption DEF MoreWork
<1>4. WorkInv'
  BY ZenonT(40), <1>1, <1>3 DEF BestInv, WorkInv, NoneBetter, HaveNode
<1>5. QED
  BY ZenonT(40), <1>1, <1>2, <1>4 DEF BestInv, Asserts

\* A reorganization begins for more work only.
LEMMA ReorganizeBeginBest ==
  ASSUME StorageInv, BestInv, ReorganizeBegin
  PROVE  BestInv' /\ Asserts
<1>1. /\ pc = "connect" /\ pc' \in {"checkDetach", "checkAttach"} /\ MoreWork(cur) /\ cur' = cur
      /\ cur \in Blocks /\ tip \in Blocks
      /\ UNCHANGED <<dbStatus, dbBest, status, tip, checkpoint, faults, asserted>>
  BY DEF ReorganizeBegin, disk, call, StorageInv, ChainTypeOK
<1>2. CheckpointInv' /\ InputsInv'
  BY ZenonT(40), <1>1, QuietStep DEF BestInv, Up, Working
<1>3. WorkSum[tip] < WorkSum[cur]
  BY ZenonT(40), <1>1, TreeAssumption DEF MoreWork
<1>4. WorkInv'
  BY ZenonT(40), <1>1, <1>3 DEF BestInv, WorkInv, NoneBetter, HaveNode
<1>5. QED
  BY ZenonT(40), <1>1, <1>2, <1>4 DEF BestInv, Asserts

\* A step that only marks nodes of the index, valid ones with existing inputs.
LEMMA FlagInvs ==
  ASSUME CheckpointInv, InputsInv, Up', pc' # "index", UNCHANGED <<dbBest, tip, checkpoint>>,
         \A b \in Blocks : status'[b] # {} => status[b] # {},
         \A b \in Blocks : dbStatus'[b] = dbStatus[b] \/ dbStatus'[b] = status'[b],
         \A b \in Blocks \ {Genesis} : "valid" \in status'[b] => "valid" \in status[b] \/ Spendable(b),
         "failed" \in status'[Genesis] => "failed" \in status[Genesis],
         pc' \in Working => pc \in Working /\ cur' = cur,
         pc' \in {"tip", "markValid"} => Spendable(cur')
  PROVE  CheckpointInv' /\ InputsInv'
<1>1. CheckpointInv'
  <2>1. checkpoint.node # None => checkpoint.node \in Anc[tip']
    BY ZenonT(40) DEF CheckpointInv
  <2>2. \A b \in Blocks : status'[b] \cup dbStatus'[b] # {} => status[b] \cup dbStatus[b] # {}
    OBVIOUS
  <2>3. QED
    BY ZenonT(40), <2>1, <2>2, CheckpointFrame
<1>2. Genesis \in Blocks
  BY ZenonT(40), ParentAssumption
<1>3. QED
  BY ZenonT(40), <1>1, <1>2 DEF InputsInv

\* The block at hand is not a valid one after all: no valid chain is better.
LEMMA RefusedWork ==
  ASSUME WorkInv, ~GoodChain(cur), pc \in {"connect", "checkAttach"}, tip' = tip,
         pc' \in {"idle", "accepted"}, faults' = 0 => faults = 0,
         \A b \in Blocks : status'[b] # {} => status[b] # {}
  PROVE  WorkInv'
BY DEF WorkInv, NoneBetter, HaveNode

\* connectBestChain extends the best chain: a block is marked valid after a
\* check, and refused with an AssertError only when it is added fast.
LEMMA ExtendBestChainBest ==
  ASSUME StorageInv, VerdictInv, BestInv, ExtendBestChain
  PROVE  BestInv' /\ Asserts
<1>0. /\ pc = "connect" /\ Up /\ cur \in Blocks \ {Genesis} /\ UNCHANGED <<dbBest, tip, checkpoint>>
      /\ dbUtxo = UtxoAfter[Parent[cur]] /\ status[cur] = {"stored"}
      /\ status \in [Blocks -> SUBSET Flags] /\ faults \in Nat
      /\ fastAdd => Anc[cur] \cap FastBlocks # {}
  <2>1. pc = "connect" /\ Up /\ Parent[cur] = tip /\ UNCHANGED <<dbBest, tip, checkpoint>>
    BY DEF ExtendBestChain, Up, chainState
  <2>2. tip = dbBest /\ dbUtxo = UtxoAfter[dbBest]
    BY ZenonT(40), <2>1, TipNode DEF StorageInv, UtxoMatchesBest
  <2>3. QED
    BY <2>1, <2>2 DEF StorageInv, ChainTypeOK, CallInv, VerdictInv, NodeInv, FastInv, FastChain
<1>1. /\ InputsExist(cur, dbUtxo) <=> Spendable(cur)
      /\ CheckConnectBlock(cur, dbUtxo) => Spendable(cur)
      /\ ~CheckConnectBlock(cur, dbUtxo) => ~GoodChain(cur)
      /\ ~Spendable(cur) => ~GoodChain(cur)
  <2>1. cur \in Anc[cur] \ {Genesis}
    BY <1>0, AncFacts
  <2>2. QED
    BY ZenonT(40), <1>0, <2>1, BadNotGood DEF Spendable, CheckConnectBlock
<1>2. ASSUME NEW f \in {"valid", "failed"}, SetAndFlush(SetFlag(status, {cur}, f), dirty \cup {cur})
      PROVE  /\ \A b \in Blocks \ {cur} : status'[b] = status[b]
             /\ status'[cur] = status[cur] \cup {f} /\ faults' \in Nat /\ (faults' = 0 => faults = 0)
             /\ \A b \in Blocks : dbStatus'[b] = dbStatus[b] \/ dbStatus'[b] = status'[b]
  <2>1. /\ SetFlag(status, {cur}, f) \in [Blocks -> SUBSET Flags] /\ {cur} \in SUBSET Blocks
        /\ \A b \in Blocks \ {cur} : SetFlag(status, {cur}, f)[b] = status[b]
        /\ SetFlag(status, {cur}, f)[cur] = status[cur] \cup {f}
    BY ZenonT(40), <1>0, <1>2 DEF SetFlag, Flags
  <2>2. QED
    BY Zenon, <1>0, <1>2, <2>1, Marked
<1>3. Genesis \in Blocks \ {cur}
  BY ZenonT(40), <1>0, ParentAssumption
<1>4. CASE /\ CheckConnectBlock(cur, dbUtxo)
           /\ SetAndFlush(SetFlag(status, {cur}, "valid"), dirty \cup {cur})
           /\ pc' = "tip" /\ UNCHANGED <<call, asserted>>
  <2>1. /\ \A b \in Blocks \ {cur} : status'[b] = status[b]
        /\ status'[cur] = status[cur] \cup {"valid"} /\ (faults' = 0 => faults = 0)
        /\ \A b \in Blocks : dbStatus'[b] = dbStatus[b] \/ dbStatus'[b] = status'[b]
    BY <1>2, <1>4
  <2>2. cur' = cur
    BY <1>4 DEF call
  <2>3. CheckpointInv' /\ InputsInv'
    BY ZenonT(40), <1>0, <1>1, <1>3, <1>4, <2>1, <2>2, FlagInvs DEF BestInv, Up, Working
  <2>4. \A b \in Blocks : HaveNode(b)' => HaveNode(b)
    BY <1>0, <2>1 DEF HaveNode
  <2>5. WorkInv'
    BY ZenonT(40), <1>0, <1>4, <2>1, <2>2, <2>4 DEF BestInv, WorkInv, NoneBetter
  <2>6. QED
    BY ZenonT(40), <1>4, <2>3, <2>5 DEF BestInv, Asserts
<1>5. CASE /\ ~CheckConnectBlock(cur, dbUtxo)
           /\ SetAndFlush(SetFlag(status, {cur}, "failed"), dirty \cup {cur})
           /\ pc' = "idle" /\ UNCHANGED asserted
  <2>1. /\ \A b \in Blocks \ {cur} : status'[b] = status[b]
        /\ status'[cur] = status[cur] \cup {"failed"} /\ (faults' = 0 => faults = 0)
        /\ \A b \in Blocks : dbStatus'[b] = dbStatus[b] \/ dbStatus'[b] = status'[b]
    BY ZenonT(40), <1>2, <1>5
  <2>2. CheckpointInv' /\ InputsInv'
    BY ZenonT(40), <1>0, <1>3, <1>5, <2>1, FlagInvs DEF BestInv, Up, Working
  <2>3. WorkInv'
    BY ZenonT(40), <1>0, <1>1, <1>5, <2>1, RefusedWork DEF BestInv
  <2>4. QED
    BY ZenonT(40), <1>5, <2>2, <2>3 DEF BestInv, Asserts
<1>6. CASE /\ fastAdd /\ UNCHANGED <<status, dbStatus, faults>>
           /\ \/ Spendable(cur) /\ pc' = "tip" /\ UNCHANGED <<call, asserted>>
              \/ ~Spendable(cur) /\ pc' = "idle"
  <2>1. pc' = "tip" => cur' = cur /\ Spendable(cur')
    BY ZenonT(40), <1>6 DEF call
  <2>2. CheckpointInv' /\ InputsInv'
    BY ZenonT(40), <1>0, <1>6, <2>1, QuietStep DEF BestInv, Up, Working
  <2>3. CASE pc' = "tip"
    BY ZenonT(40), <1>0, <1>6, <2>1, <2>2, <2>3 DEF BestInv, WorkInv, NoneBetter, HaveNode, Asserts
  <2>4. CASE ~Spendable(cur) /\ pc' = "idle"
    BY ZenonT(40), <1>0, <1>1, <1>6, <2>2, <2>4, RefusedWork DEF BestInv, Asserts
  <2>5. QED
    BY ZenonT(40), <1>6, <2>3, <2>4
<1>7. QED
  BY ZenonT(40), <1>0, <1>1, <1>4, <1>5, <1>6 DEF ExtendBestChain, KnownValid, Return, AssertError

\* A chain with a node marked invalid is not a valid one.
LEMMA InvalidNotGood ==
  ASSUME VerdictInv, InputsInv, Up, NEW b \in Blocks, NEW n \in Anc[b] \ {Genesis}, KnownInvalid(n)
  PROVE  ~GoodChain(b)
<1>1. n \in Blocks /\ Anc[n] \subseteq Anc[b] /\ n \in Anc[n]
  BY ZenonT(40), AncOrder, AncFacts
<1>2. Verdicts(status) /\ "failed" \notin status[Genesis]
  BY ZenonT(40) DEF VerdictInv, InputsInv
<1>3. PICK a \in Anc[n] : "failed" \in status[a]
  BY ZenonT(40), <1>1, <1>2 DEF Verdicts, KnownInvalid
<1>4. a \in Blocks \ {Genesis}
  BY ZenonT(40), <1>1, <1>2, <1>3, AncOrder
<1>5. ~CheckConnectBlock(a, UtxoAfter[Parent[a]])
  BY ZenonT(40), <1>2, <1>3, <1>4 DEF Verdicts
<1>6. QED
  BY ZenonT(40), <1>1, <1>3, <1>4, <1>5, BadNotGood

\* A branch that is not tried for an invalid node is not a valid one.
LEMMA ReorganizeRefusedBest ==
  ASSUME StorageInv, VerdictInv, BestInv, ReorganizeRefused
  PROVE  BestInv' /\ Asserts
<1> DEFINE branch == Anc[cur] \ Anc[tip]
           bad == {n \in branch : KnownInvalid(n)}
           above == {n \in branch : \A m \in bad : Height[n] > Height[m]}
           st == SetFlag(status, above, "badAncestor")
<1>0. /\ pc = "connect" /\ Up /\ cur \in Blocks /\ tip \in Blocks /\ status[cur] # {}
      /\ status \in [Blocks -> SUBSET Flags]
  BY ZenonT(40) DEF ReorganizeRefused, Up, StorageInv, ChainTypeOK, CallInv
<1>1. /\ bad # {} /\ SetAndFlush(st, dirty \cup above)
      /\ pc' = "accepted" /\ UNCHANGED <<dbBest, tip, checkpoint, asserted>>
  BY ZenonT(40) DEF ReorganizeRefused, chainState
<1>2. \A a \in Anc[cur] : a \in Blocks /\ status[a] # {}
  BY ZenonT(40), <1>0, NodesVerified DEF BestInv
<1>3. Genesis \in Anc[tip] /\ Genesis \in Blocks
  BY ZenonT(40), <1>0, AncFacts, ParentAssumption
<1>4. ~GoodChain(cur)
  <2>1. PICK n \in branch : KnownInvalid(n)
    BY <1>1
  <2>2. n \in Anc[cur] \ {Genesis}
    BY ZenonT(40), <1>3, <2>1
  <2>3. QED
    BY ZenonT(40), <1>0, <2>1, <2>2, InvalidNotGood DEF BestInv
<1>5. above \in SUBSET Blocks /\ Genesis \notin above /\ \A b \in above : status[b] # {}
  BY ZenonT(40), <1>2, <1>3
<1> HIDE DEF above, bad, branch
<1>6. /\ st \in [Blocks -> SUBSET Flags]
      /\ \A b \in Blocks : st[b] = IF b \in above THEN status[b] \cup {"badAncestor"} ELSE status[b]
  BY <1>0 DEF SetFlag, Flags
<1> HIDE DEF st
<1>7. /\ status' = st /\ (faults' = 0 => faults = 0)
      /\ \A b \in Blocks : dbStatus'[b] = dbStatus[b] \/ dbStatus'[b] = st[b]
  BY Zenon, <1>0, <1>1, <1>5, <1>6, Marked
<1>8. /\ \A b \in Blocks : status'[b] # {} => status[b] # {}
      /\ \A b \in Blocks : "valid" \in status'[b] => "valid" \in status[b]
      /\ status'[Genesis] = status[Genesis]
  BY <1>3, <1>5, <1>6, <1>7
<1>9. CheckpointInv' /\ InputsInv'
  BY <1>1, <1>7, <1>8, FlagInvs DEF BestInv, Up, Working
<1>10. WorkInv'
  BY ZenonT(40), <1>0, <1>1, <1>4, <1>7, <1>8, RefusedWork DEF BestInv
<1>11. QED
  BY <1>1, <1>9, <1>10 DEF BestInv, Asserts

\* The flags of the index are saved.
LEMMA FlushToDBBest ==
  ASSUME StorageInv, BestInv, FlushToDB
  PROVE  BestInv' /\ Asserts
<1>1. /\ pc \in {"tip", "detach", "attach"} /\ pc' = pc /\ cur' = cur
      /\ UNCHANGED <<dbBest, tip, checkpoint, status, faults, asserted>>
      /\ \A b \in Blocks : dbStatus'[b] = dbStatus[b] \/ dbStatus'[b] = status'[b]
  BY ZenonT(40) DEF FlushToDB, Flushed, chainState, call
<1>2. CheckpointInv' /\ InputsInv'
  BY ZenonT(40), <1>1, FlagInvs DEF BestInv, InputsInv, Up, Working
<1>3. WorkInv'
  BY ZenonT(40), <1>1 DEF BestInv, WorkInv, NoneBetter, HaveNode
<1>4. QED
  BY ZenonT(40), <1>1, <1>2, <1>3 DEF BestInv, Asserts

\* The block that extends the best chain has more work than its parent.
LEMMA ConnectTipBest ==
  ASSUME StorageInv, BestInv, ConnectTip
  PROVE  BestInv' /\ Asserts /\ Anc[tip] \subseteq Anc[dbBest']
<1>1. /\ pc = "tip" /\ pc' \in {"accepted", "markValid"} /\ cur' = cur /\ dbBest' = cur /\ tip' = cur
      /\ UNCHANGED <<dbStatus, status, checkpoint, faults, asserted>>
  BY DEF ConnectTip, ConnectUpdate
<1>2. cur \in Blocks \ {Genesis} /\ Parent[cur] = tip /\ tip = dbBest /\ Spendable(cur) /\ tip \in Blocks
  BY ZenonT(40), <1>1, TipNode DEF Up, StorageInv, ChainTypeOK, CallInv, BestInv, InputsInv
<1>3. Anc[cur] = Anc[tip] \cup {cur}
  BY ZenonT(40), <1>2, AncFacts
<1>4. CheckpointInv'
  <2>1. checkpoint.node # None => checkpoint.node \in Anc[tip']
    BY ZenonT(40), <1>1, <1>3 DEF BestInv, CheckpointInv
  <2>2. QED
    BY ZenonT(40), <1>1, <2>1, CheckpointFrame DEF BestInv, Up, Working
<1>5. InputsInv'
  BY ZenonT(40), <1>1, <1>2, <1>3 DEF BestInv, InputsInv
<1>6. WorkSum[tip] < WorkSum[cur] /\ WorkSum[tip] \in Nat /\ WorkSum[cur] \in Nat
  BY <1>2, TreeAssumption, ParentAssumption
<1>7. \A b \in Blocks : WorkSum[b] \in Nat
  BY Zenon, TreeAssumption
<1>8. WorkInv'
  <2>1. faults = 0 => NoneBetter(Blocks \ {cur}, WorkSum[tip])
    BY ZenonT(40), <1>1 DEF BestInv, WorkInv
  <2>2. faults = 0 => NoneBetter(Blocks, WorkSum[cur])
    BY ZenonT(40), <1>2, <1>6, <1>7, <2>1, MoreThanAll
  <2>3. QED
    BY ZenonT(40), <1>1, <2>2 DEF WorkInv, NoneBetter, HaveNode
<1>9. QED
  BY ZenonT(40), <1>1, <1>3, <1>4, <1>5, <1>8 DEF BestInv, Asserts

\* A block that was added fast is marked valid: its inputs exist.
LEMMA MarkValidBest ==
  ASSUME StorageInv, BestInv, MarkValid
  PROVE  BestInv' /\ Asserts
<1> DEFINE st == SetFlag(status, {cur}, "valid")
<1>0. /\ pc = "markValid" /\ Up /\ cur \in Blocks /\ status[cur] # {} /\ Spendable(cur)
      /\ status \in [Blocks -> SUBSET Flags]
      /\ pc' = "accepted" /\ UNCHANGED <<dbBest, tip, checkpoint, asserted>>
  BY ZenonT(40) DEF MarkValid, Up, chainState, StorageInv, ChainTypeOK, CallInv, BestInv, InputsInv
<1>1. SetAndFlush(st, dirty \cup {cur})
  BY DEF MarkValid
<1>2. /\ st \in [Blocks -> SUBSET Flags] /\ {cur} \in SUBSET Blocks
      /\ \A b \in Blocks : st[b] = IF b = cur THEN status[b] \cup {"valid"} ELSE status[b]
  BY <1>0 DEF SetFlag, Flags
<1> HIDE DEF st
<1>3. /\ status' = st /\ (faults' = 0 => faults = 0)
      /\ \A b \in Blocks : dbStatus'[b] = dbStatus[b] \/ dbStatus'[b] = st[b]
  BY Zenon, <1>0, <1>1, <1>2, Marked
<1>4. Genesis \in Blocks
  BY ZenonT(40), ParentAssumption
<1>5. \A b \in Blocks : status'[b] # {} => status[b] # {}
  BY ZenonT(40), <1>0, <1>2, <1>3
<1>6. CheckpointInv' /\ InputsInv'
  BY <1>0, <1>2, <1>3, <1>4, <1>5, FlagInvs DEF BestInv, Up, Working
<1>7. WorkInv'
  BY <1>0, <1>3, <1>5 DEF BestInv, WorkInv, NoneBetter, HaveNode
<1>8. QED
  BY ZenonT(40), <1>0, <1>6, <1>7 DEF BestInv, Asserts

\* The check phase undoes a block on its view only.
LEMMA CheckDetachBest ==
  ASSUME BestInv, CheckDetach
  PROVE  BestInv' /\ Asserts
<1>1. /\ pc = "checkDetach" /\ pc' \in {"checkDetach", "checkAttach"} /\ cur' = cur
      /\ UNCHANGED <<dbStatus, dbBest, status, tip, checkpoint, faults, asserted>>
  BY ZenonT(40) DEF CheckDetach, disk, call
<1>2. CheckpointInv' /\ InputsInv'
  BY ZenonT(40), <1>1, QuietStep DEF BestInv, Up, Working
<1>3. WorkInv'
  BY ZenonT(40), <1>1 DEF BestInv, WorkInv, NoneBetter, HaveNode
<1>4. QED
  BY ZenonT(40), <1>1, <1>2, <1>3 DEF BestInv, Asserts

\* The next block passes the check phase.  After the last one, the new branch
\* is known to be the best.
LEMMA AttachPassesBest ==
  ASSUME ListFacts, StorageInv, VerdictInv, BestInv, pc = "checkAttach", NEW n \in todo, First(n, todo),
         UNCHANGED <<dbStatus, dbBest, tip, checkpoint, cur, faults, asserted>>,
         pc' \in {"checkAttach", "detach", "attach"},
         IF KnownValid(n) THEN UNCHANGED status
         ELSE Spendable(n) /\ status' = SetFlag(status, {n}, "valid")
  PROVE  BestInv' /\ Asserts
<1>0. n \in Blocks \ {Genesis} /\ status[n] # {} /\ cur \in Blocks /\ tip \in Blocks
  BY ZenonT(40), AttachNext DEF StorageInv, ChainTypeOK
<1>1. /\ \A b \in Blocks \ {n} : status'[b] = status[b]
      /\ "valid" \in status'[n] => "valid" \in status[n] \/ Spendable(n)
      /\ \A b \in Blocks : status'[b] # {} => status[b] # {}
  <2>1. CASE KnownValid(n)
    BY ZenonT(40), <2>1
  <2>2. CASE ~KnownValid(n)
    BY ZenonT(40), <1>0, <2>2 DEF SetFlag
  <2>3. QED
    BY ZenonT(40), <2>1, <2>2
<1>2. Genesis \in Blocks \ {n}
  BY ZenonT(40), <1>0, ParentAssumption
<1>3. CheckpointInv' /\ InputsInv'
  BY ZenonT(40), <1>1, <1>2, FlagInvs DEF BestInv, Up, Working
<1>4. \A b \in Blocks : WorkSum[b] \in Nat
  BY ZenonT(40), TreeAssumption
<1>5. WorkInv'
  <2>1. CASE pc' = "checkAttach"
    BY ZenonT(40), <1>1, <2>1 DEF BestInv, WorkInv, NoneBetter, HaveNode
  <2>2. CASE pc' \in {"detach", "attach"}
    <3>1. faults = 0 => NoneBetter(Blocks \ {cur}, WorkSum[tip]) /\ WorkSum[tip] < WorkSum[cur]
      BY ZenonT(40) DEF BestInv, WorkInv
    <3>2. faults = 0 => NoneBetter(Blocks, WorkSum[cur])
      BY ZenonT(40), <1>0, <1>4, <3>1, MoreThanAll
    <3>3. QED
      BY ZenonT(40), <1>1, <2>2, <3>2 DEF WorkInv, NoneBetter, HaveNode
  <2>3. QED
    BY <2>1, <2>2
<1>6. QED
  BY <1>3, <1>5 DEF BestInv, Asserts

\* The next block fails the check phase: the new branch is not a valid one.
LEMMA AttachFailsBest ==
  ASSUME ListFacts, StorageInv, VerdictInv, BestInv, pc = "checkAttach", NEW n \in todo, First(n, todo),
         UNCHANGED <<dbBest, tip, checkpoint, asserted>>, pc' = "idle",
         ~CheckConnectBlock(n, view),
         SetAndFlush(SetFlag(SetFlag(status, {n}, "failed"), todo \ {n}, "badAncestor"),
                     dirty \cup todo)
  PROVE  BestInv' /\ Asserts
<1> DEFINE st == SetFlag(SetFlag(status, {n}, "failed"), todo \ {n}, "badAncestor")
<1>0. /\ Up /\ status \in [Blocks -> SUBSET Flags] /\ todo \in SUBSET Blocks /\ cur \in Blocks
      /\ \A b \in todo : status[b] # {} /\ b # Genesis
  BY ZenonT(40) DEF Up, StorageInv, ChainTypeOK, CallInv
<1>1. ~GoodChain(cur)
  <2>1. n \in Blocks \ {Genesis} /\ n \in Anc[cur] /\ view = UtxoAfter[Parent[n]]
    BY ZenonT(40), AttachNext
  <2>2. QED
    BY ZenonT(40), <1>0, <2>1, BadNotGood
<1>2. /\ st \in [Blocks -> SUBSET Flags]
      /\ \A b \in Blocks \ todo : st[b] = status[b]
      /\ \A b \in Blocks : "valid" \in st[b] => "valid" \in status[b]
  BY <1>0 DEF SetFlag, Flags
<1> HIDE DEF st
<1>3. /\ status' = st /\ (faults' = 0 => faults = 0)
      /\ \A b \in Blocks : dbStatus'[b] = dbStatus[b] \/ dbStatus'[b] = st[b]
  BY <1>0, <1>2, Marked, Zenon DEF st
<1>4. Genesis \in Blocks \ todo
  BY <1>0, ParentAssumption
<1>5. \A b \in Blocks : status'[b] # {} => status[b] # {}
  BY <1>0, <1>2, <1>3
<1>6. CheckpointInv' /\ InputsInv'
  BY ZenonT(40), <1>2, <1>3, <1>4, <1>5, FlagInvs DEF BestInv, Up, Working
<1>7. WorkInv'
  BY ZenonT(40), <1>1, <1>3, <1>5, RefusedWork DEF BestInv
<1>8. QED
  BY ZenonT(40), <1>6, <1>7 DEF BestInv, Asserts

\* The check phase finds the inputs of a block that passed a check before, and
\* the view is that of the block's parent: it returns no AssertError.
LEMMA CheckAttachBest ==
  ASSUME ListFacts, StorageInv, VerdictInv, BestInv, CheckAttach
  PROVE  BestInv' /\ Asserts
<1>0. pc = "checkAttach" /\ Up /\ UNCHANGED <<dbBest, tip, checkpoint>>
  BY ZenonT(40) DEF CheckAttach, Up, chainState
<1>1. ASSUME NEW n \in todo, First(n, todo)
      PROVE  /\ newBest = Parent[n] /\ (InputsExist(n, view) <=> Spendable(n))
             /\ CheckConnectBlock(n, view) => Spendable(n)
             /\ KnownValid(n) => Spendable(n)
  <2>1. n \in Blocks \ {Genesis} /\ newBest = Parent[n] /\ view = UtxoAfter[newBest]
    BY <1>0, <1>1, AttachNext
  <2>2. QED
    BY ZenonT(40), <2>1 DEF Spendable, CheckConnectBlock, KnownValid, BestInv, InputsInv
<1>2. PICK n \in todo :
        /\ First(n, todo)
        /\ \/ IF KnownValid(n) THEN ~InputsExist(n, view) ELSE newBest # Parent[n]
           \/ /\ IF KnownValid(n) THEN UNCHANGED status
                 ELSE CheckConnectBlock(n, view) /\ status' = SetFlag(status, {n}, "valid")
              /\ pc' \in {"checkAttach", "detach", "attach"}
              /\ UNCHANGED <<dbStatus, cur, faults, asserted>>
           \/ /\ ~CheckConnectBlock(n, view) /\ pc' = "idle" /\ UNCHANGED asserted
              /\ SetAndFlush(SetFlag(SetFlag(status, {n}, "failed"), todo \ {n}, "badAncestor"),
                             dirty \cup todo)
  BY <1>0, Zenon DEF CheckAttach, Return, call
<1>3. QED
  BY ZenonT(40), <1>0, <1>1, <1>2, AttachPassesBest, AttachFailsBest

\* The branch of a reorganization goes through the cached checkpoint, and
\* through every checkpoint below it.
LEMMA CheckpointKept ==
  ASSUME ListFacts, StorageInv, VerdictInv, CheckpointInv, pc = "detach", checkpoint.node # None,
         NEW i \in DOMAIN Checkpoints, Height[Checkpoints[i]] <= Height[checkpoint.node]
  PROVE  Checkpoints[i] \in Anc[cur]
<1>1. /\ Up /\ cur \in Blocks /\ attach = Anc[cur] \ Anc[tip]
      /\ \A b \in attach : status[b] # {}
      /\ checkpoint.node \in Blocks /\ Height[checkpoint.node] <= Height[cur]
  BY ZenonT(40) DEF Up, StorageInv, ChainTypeOK, CallInv, VerdictInv, ReorgInv, CheckpointInv, Working
<1>2. status[cur] # {}
  <2>1. tip \in Blocks /\ status[tip] # {}
    BY ZenonT(40), <1>1, TipNode
  <2>2. \A a \in Anc[tip] : status[a] # {}
    BY ZenonT(40), <1>1, <2>1, NodesVerified
  <2>3. cur \in Anc[cur]
    BY ZenonT(40), <1>1, AncFacts
  <2>4. QED
    BY ZenonT(40), <1>1, <2>2, <2>3
<1>3. \A a \in Anc[cur] : VerifyCheckpoint(a)
  BY ZenonT(40), <1>1, <1>2, NodesVerified
<1>4. Height[Checkpoints[i]] <= Height[cur]
  <2>1. Checkpoints[i] \in Blocks
    BY CheckpointAssumption
  <2>2. Height[Checkpoints[i]] \in Nat /\ Height[checkpoint.node] \in Nat /\ Height[cur] \in Nat
    BY ZenonT(40), <1>1, <2>1, TreeAssumption
  <2>3. QED
    BY <1>1, <2>2
<1>5. QED
  BY ZenonT(40), <1>1, <1>3, <1>4, CheckpointOnBranch

\* The cached checkpoint is one of the list.
LEMMA CachedCheckpoint ==
  ASSUME CheckpointInv, checkpoint.node # None
  PROVE  \E i \in DOMAIN Checkpoints : checkpoint.node = Checkpoints[i]
BY ZenonT(40) DEF CheckpointInv, CacheOK

\* disconnectBlock is handed the tip, and never a checkpoint that is locked in.
LEMMA DisconnectBlockBest ==
  ASSUME ListFacts, StorageInv, VerdictInv, BestInv, DisconnectBlock
  PROVE  /\ BestInv' /\ Asserts
         /\ tip \notin Anc[cur] /\ \A a \in Anc[tip] \ {tip} : a \in Anc[dbBest']
<1>0. /\ pc = "detach" /\ Up /\ tip \in Blocks /\ cur \in Blocks /\ tip = dbBest
      /\ detach = Anc[tip] \ Anc[cur] /\ UNCHANGED <<dbStatus, status, checkpoint, faults>>
  BY ZenonT(40), TipNode DEF DisconnectBlock, Up, StorageInv, ChainTypeOK, VerdictInv, ReorgInv
<1>1. PICK n \in detach :
        /\ Last(n, detach)
        /\ n = tip => /\ dbBest' = Parent[n] /\ tip' = Parent[n] /\ pc' \in {"attach", "detach"}
                      /\ UNCHANGED <<cur, asserted>>
  BY DEF DisconnectBlock, DisconnectUpdate, call
<1>2. n = tip /\ tip \in Blocks \ {Genesis} /\ tip \notin Anc[cur]
  <2>1. Last(n, Anc[tip] \ Anc[cur])
    BY <1>0, <1>1
  <2>2. n = tip /\ n \in Blocks \ {Genesis} /\ n \in Anc[tip] \ Anc[cur]
    BY ZenonT(40), <1>0, <2>1, LastOfBranch DEF Last
  <2>3. QED
    BY ZenonT(40), <2>2
<1>3. Anc[tip] = Anc[tip'] \cup {tip} /\ dbBest' = tip'
  BY ZenonT(40), <1>1, <1>2, AncFacts
<1>4. CheckpointInv'
  <2>1. ASSUME checkpoint.node # None
        PROVE  checkpoint.node \in Anc[tip']
    <3>1. PICK i \in DOMAIN Checkpoints : checkpoint.node = Checkpoints[i]
      BY ZenonT(40), <2>1, CachedCheckpoint DEF BestInv
    <3>2. checkpoint.node \in Blocks /\ checkpoint.node \in Anc[tip]
      BY ZenonT(40), <2>1 DEF BestInv, CheckpointInv
    <3>3. Height[checkpoint.node] <= Height[checkpoint.node]
      BY ZenonT(40), <3>2, OwnHeight
    <3>4. checkpoint.node \in Anc[cur]
      BY <1>0, <2>1, <3>1, <3>3, CheckpointKept DEF BestInv
    <3>5. QED
      BY ZenonT(40), <1>2, <1>3, <3>2, <3>4
  <2>2. QED
    BY ZenonT(40), <1>0, <1>1, <1>2, <2>1, CheckpointFrame DEF BestInv, Up, Working
<1>5. InputsInv'
  BY <1>0, <1>1, <1>2, <1>3, InputsFrame DEF BestInv
<1>6. WorkInv'
  BY ZenonT(40), <1>0, <1>1, <1>2 DEF BestInv, WorkInv, NoneBetter, HaveNode
<1>7. QED
  BY ZenonT(40), <1>1, <1>2, <1>3, <1>4, <1>5, <1>6 DEF BestInv, Asserts

\* connectBlock is handed a child of the tip with existing inputs, and the
\* last block it is handed is the one of the call.
LEMMA ConnectBlockBest ==
  ASSUME ListFacts, StorageInv, VerdictInv, BestInv, ConnectBlock
  PROVE  BestInv' /\ Asserts /\ Anc[tip] \subseteq Anc[dbBest']
<1>0. /\ pc = "attach" /\ Up /\ tip \in Blocks /\ cur \in Blocks /\ tip = dbBest /\ tip \in Anc[cur]
      /\ attach = Anc[cur] \ Anc[tip] /\ \A b \in attach : "valid" \in status[b]
      /\ dbUtxo = UtxoAfter[dbBest] /\ UNCHANGED <<dbStatus, status, checkpoint, faults>>
  BY ZenonT(40), TipNode DEF ConnectBlock, Up, StorageInv, ChainTypeOK, UtxoMatchesBest, VerdictInv, ReorgInv
<1>1. PICK n \in attach :
        /\ First(n, attach)
        /\ Parent[n] = tip /\ InputsExist(n, dbUtxo) =>
             /\ dbBest' = n /\ tip' = n /\ UNCHANGED <<cur, asserted>>
             /\ pc' = IF attach \ {n} = {} THEN "accepted" ELSE "attach"
  BY DEF ConnectBlock, ConnectUpdate
<1>2. n \in Blocks \ {Genesis} /\ n \in Anc[cur] /\ Parent[n] = tip
  <2>1. First(n, Anc[cur] \ Anc[tip])
    BY ZenonT(40), <1>0, <1>1
  <2>2. QED
    BY ZenonT(40), <1>0, <2>1, FirstOfBranch
<1>3. Spendable(n)
  BY ZenonT(40), <1>0, <1>1, <1>2 DEF BestInv, InputsInv
<1>4. /\ dbBest' = n /\ tip' = n /\ UNCHANGED <<cur, asserted>>
      /\ pc' = IF attach \ {n} = {} THEN "accepted" ELSE "attach"
  BY ZenonT(40), <1>0, <1>1, <1>2, <1>3 DEF Spendable
<1>5. Anc[n] = Anc[tip] \cup {n}
  BY ZenonT(40), <1>2, AncFacts
<1>6. CheckpointInv'
  <2>1. checkpoint.node # None => checkpoint.node \in Anc[tip']
    BY ZenonT(40), <1>4, <1>5 DEF BestInv, CheckpointInv
  <2>2. QED
    BY ZenonT(40), <1>0, <1>4, <2>1, CheckpointFrame DEF BestInv, Up, Working
<1>7. InputsInv'
  BY ZenonT(40), <1>0, <1>3, <1>4, <1>5 DEF BestInv, InputsInv
<1>8. pc' = "accepted" => n = cur
  <2>1. cur \in attach
    <3>1. cur \in Anc[cur] /\ (cur \in Anc[tip] => Anc[cur] \subseteq Anc[tip])
      BY <1>0, AncFacts, AncOrder
    <3>2. QED
      BY ZenonT(40), <1>0, <1>1, <3>1
  <2>2. QED
    BY ZenonT(40), <1>4, <2>1
<1>9. WorkInv'
  BY ZenonT(40), <1>0, <1>4, <1>8 DEF BestInv, WorkInv, NoneBetter, HaveNode
<1>10. QED
  BY ZenonT(40), <1>4, <1>5, <1>6, <1>7, <1>9 DEF BestInv, Asserts

----------------------------------------------------------------------------
(* Failures. *)

\* A transaction fails: the call ends, and the flags may be saved.
LEMMA UpdateFailsBest ==
  ASSUME StorageInv, BestInv, UpdateFails
  PROVE  BestInv' /\ Asserts
<1>1. /\ pc' = "idle" /\ UNCHANGED <<dbBest, tip, checkpoint, status, asserted>>
      /\ faults \in Nat /\ faults' = faults + 1
      /\ \A b \in Blocks : dbStatus'[b] = dbStatus[b] \/ dbStatus'[b] = status'[b]
  BY DEF UpdateFails, Flushed, chainState, Return, Fault, StorageInv, ChainTypeOK
<1>2. CheckpointInv' /\ InputsInv'
  BY ZenonT(40), <1>1, FlagInvs DEF BestInv, Up, Working
<1>3. WorkInv'
  BY <1>1 DEF WorkInv
<1>4. QED
  BY ZenonT(40), <1>1, <1>2, <1>3 DEF BestInv, Asserts

\* A crash empties the memory, the cache included.
LEMMA CrashBest ==
  ASSUME StorageInv, BestInv, Crash
  PROVE  BestInv' /\ Asserts
<1>1. /\ pc' = "down" /\ UNCHANGED <<dbBest, dbStatus, asserted>> /\ checkpoint' = NoCheckpoint
      /\ \A b \in Blocks : status'[b] = {}
      /\ faults \in Nat /\ faults' = faults + 1
  BY DEF Crash, disk, Fault, StorageInv, ChainTypeOK
<1>2. CheckpointInv'
  BY ZenonT(40), <1>1, EmptyCache DEF BestInv, CheckpointInv, Working
<1>3. InputsInv'
  BY <1>1, InputsFrame, ParentAssumption DEF BestInv
<1>4. WorkInv'
  BY <1>1 DEF WorkInv
<1>5. QED
  BY ZenonT(40), <1>1, <1>2, <1>3, <1>4 DEF BestInv, Asserts

\* initChainState marks blocks of the best chain valid, whose inputs exist.
LEMMA RestartBest ==
  ASSUME StorageInv, BestInv, Restart
  PROVE  BestInv' /\ Asserts
<1> DEFINE loaded == SetFlag(dbStatus, Anc[dbBest], "valid")
<1>0. /\ pc = "down" /\ ~Up /\ UNCHANGED <<dbBest, checkpoint, asserted>>
      /\ faults \in Nat /\ faults > 0 /\ checkpoint.node = None
      /\ faults' = faults \/ faults' = faults + 1
      /\ pc' \in {"idle", "down", "corrupt"} /\ Genesis \in Blocks
      /\ dbStatus \in [Blocks -> SUBSET Flags] /\ dbBest \in Blocks /\ Indexed(dbStatus)
      /\ dbStatus[dbBest] # {}
  <2>1. /\ pc = "down" /\ UNCHANGED <<dbBest, checkpoint, asserted>>
        /\ faults' = faults \/ faults' = faults + 1
        /\ pc' \in {"idle", "down", "corrupt"}
    BY ZenonT(40) DEF Restart, Fault
  <2>2. ~Up /\ faults > 0
    BY ZenonT(40), <2>1 DEF Up, BestInv, WorkInv
  <2>3. checkpoint.node = None
    BY ZenonT(40), <2>2 DEF BestInv, CheckpointInv
  <2>4. faults \in 0 .. MaxFaults /\ dbStatus \in [Blocks -> SUBSET Flags] /\ dbBest \in Blocks
    BY ZenonT(40) DEF StorageInv, ChainTypeOK
  <2>5. Indexed(dbStatus) /\ dbStatus[dbBest] # {}
    BY ZenonT(40) DEF StorageInv, IndexInv
  <2>6. faults \in Nat
    BY <2>4
  <2>7. QED
    BY ZenonT(40), <2>1, <2>2, <2>3, <2>4, <2>5, <2>6, ParentAssumption
<1>1. \A a \in Anc[dbBest] : a \in Blocks /\ dbStatus[a] # {}
  BY ZenonT(40), <1>0, AncFacts DEF Indexed
<1>2. /\ \A b \in Blocks : loaded[b] = IF b \in Anc[dbBest] THEN dbStatus[b] \cup {"valid"} ELSE dbStatus[b]
  BY <1>0 DEF SetFlag
<1>3. /\ \A b \in Blocks : status'[b] = status[b] \/ status'[b] = loaded[b]
      /\ \A b \in Blocks : dbStatus'[b] = dbStatus[b] \/ dbStatus'[b] = loaded[b]
  BY DEF Restart, Flushed
<1> HIDE DEF loaded
<1>4. \A b \in Blocks : status'[b] \cup dbStatus'[b] # {} => status[b] \cup dbStatus[b] # {}
  BY Zenon, <1>1, <1>2, <1>3
<1>5. CheckpointInv'
  <2>1. /\ (checkpoint \in [node : Blocks \cup {None}, next : Nat])' /\ CacheOK(checkpoint)'
        /\ checkpoint'.node = None
    BY <1>0 DEF BestInv, CheckpointInv, CacheOK
  <2>2. \A b \in Blocks : status'[b] \cup dbStatus'[b] # {} => VerifyCheckpoint(b)
    BY <1>4 DEF BestInv, CheckpointInv
  <2>3. QED
    BY <1>0, <2>1, <2>2 DEF CheckpointInv, Working
<1>6. InputsInv'
  <2>1. \A b \in Blocks : "valid" \in status'[b] \cup dbStatus'[b] =>
          "valid" \in status[b] \cup dbStatus[b] \/ b \in Anc[dbBest]
    BY ZenonT(40), <1>2, <1>3
  <2>2. "failed" \in status'[Genesis] \cup dbStatus'[Genesis] =>
          "failed" \in status[Genesis] \cup dbStatus[Genesis]
    <3>1. "failed" \in loaded[Genesis] => "failed" \in dbStatus[Genesis]
      BY Zenon, <1>0, <1>2
    <3>2. QED
      BY <1>0, <1>3, <3>1
  <2>3. QED
    BY <1>0, <2>1, <2>2 DEF BestInv, InputsInv
<1>7. WorkInv'
  <2>1. faults' > 0 /\ faults' # 0
    BY <1>0
  <2>2. QED
    BY ZenonT(40), <2>1 DEF WorkInv
<1>8. QED
  BY ZenonT(40), <1>0, <1>5, <1>6, <1>7 DEF BestInv, Asserts

\* The clock, and a step of another part of the node, change nothing here.
LEMMA StutterBest ==
  ASSUME BestInv, UNCHANGED <<dbStatus, dbBest, status, tip, checkpoint, pc, cur, faults, asserted>>
  PROVE  BestInv' /\ Asserts
<1>1. CheckpointInv'
  BY ZenonT(40) DEF BestInv, CheckpointInv, CacheOK, Up
<1>2. InputsInv'
  BY ZenonT(40) DEF BestInv, InputsInv
<1>3. WorkInv'
  BY ZenonT(40) DEF BestInv, WorkInv, NoneBetter, HaveNode
<1>4. QED
  BY ZenonT(40), <1>1, <1>2, <1>3 DEF BestInv, Asserts

----------------------------------------------------------------------------
(* The results. *)

\* The invariants hold of the state that createChainState makes.
LEMMA InitBest == Init => BestInv
<1> SUFFICES ASSUME Init
             PROVE  BestInv
  BY ZenonT(40)
<1>1. /\ Genesis \in Blocks /\ Anc[Genesis] = {Genesis} /\ Height[Genesis] = 0
      /\ WorkSum[Genesis] \in Nat
  BY ZenonT(40), ParentAssumption, TreeAssumption
<1>2. /\ pc = "idle" /\ checkpoint = NoCheckpoint /\ dbBest = Genesis /\ tip = Genesis /\ status = dbStatus
      /\ \A b \in Blocks : dbStatus[b] = IF b = Genesis THEN {"stored", "valid"} ELSE {}
  BY ZenonT(40) DEF Init
<1>3. VerifyCheckpoint(Genesis)
  <2> SUFFICES ASSUME NEW i \in DOMAIN Checkpoints, Height[Checkpoints[i]] = Height[Genesis]
               PROVE  Checkpoints[i] = Genesis
    BY ZenonT(40) DEF VerifyCheckpoint
  <2>1. Checkpoints[i] \in Blocks /\ Genesis \in Anc[Checkpoints[i]]
    BY CheckpointAssumption, AncFacts
  <2>2. QED
    BY <1>1, <2>1, AncOrder
<1>4. CheckpointInv
  BY <1>2, <1>3 DEF CheckpointInv, CacheOK, NoCheckpoint, Working
<1>5. InputsInv
  BY <1>1, <1>2 DEF InputsInv
<1>6. WorkInv
  BY <1>1, <1>2 DEF WorkInv, NoneBetter, HaveNode
<1>7. QED
  BY <1>4, <1>5, <1>6 DEF BestInv

\* Every step preserves the invariants and returns no other AssertError.
LEMMA BestStep ==
  ASSUME ListFacts, StorageInv, VerdictInv, BestInv, [Next]_vars
  PROVE  BestInv' /\ Asserts
<1>1. CASE UNCHANGED vars \/ Tick
  BY ZenonT(40), <1>1, StutterBest DEF vars, Tick, disk, call
<1>2. ASSUME NEW b \in Blocks \ {Genesis},
             NEW fast \in {FALSE} \cup (IF b \in FastBlocks THEN {TRUE} ELSE {}),
             ProcessBlock(b, fast)
      PROVE  BestInv' /\ Asserts
  <2>1. fast \in BOOLEAN
    BY Zenon
  <2>2. QED
    BY ZenonT(40), <1>2, <2>1, ProcessBlockBest
<1>3. CASE Step
  BY ZenonT(40), <1>3, MaybeAcceptBlockBest, AddNodeBest, ProcessOrphansBest, ExtendBestChainBest,
     ExtendSideChainBest, ReorganizeRefusedBest, ReorganizeBeginBest, FlushToDBBest,
     ConnectTipBest, MarkValidBest, CheckDetachBest, CheckAttachBest, DisconnectBlockBest,
     ConnectBlockBest
     DEF Step
<1>4. CASE UpdateFails \/ Crash \/ Restart
  BY ZenonT(40), <1>4, UpdateFailsBest, CrashBest, RestartBest
<1>5. QED
  BY <1>1, <1>2, <1>3, <1>4, Zenon DEF Next

\* Only three steps move the best chain.
LEMMA OtherSteps ==
  ASSUME [Next]_vars, ~ConnectTip, ~DisconnectBlock, ~ConnectBlock
  PROVE  dbBest' = dbBest
<1> USE DEF disk, chainState
<1>1. ASSUME NEW b \in Blocks, NEW fast, ProcessBlock(b, fast)
      PROVE  dbBest' = dbBest
  BY ZenonT(40), <1>1 DEF ProcessBlock, vars
<1>2. CASE MaybeAcceptBlock \/ AddNode \/ ProcessOrphans \/ ExtendBestChain
  BY ZenonT(40), <1>2 DEF MaybeAcceptBlock, AddNode, ProcessOrphans, ExtendBestChain
<1>3. CASE ExtendSideChain \/ ReorganizeRefused \/ ReorganizeBegin \/ FlushToDB
  BY ZenonT(40), <1>3 DEF ExtendSideChain, ReorganizeRefused, ReorganizeBegin, FlushToDB
<1>4. CASE MarkValid \/ CheckDetach \/ CheckAttach \/ UpdateFails
  BY ZenonT(40), <1>4 DEF MarkValid, CheckDetach, CheckAttach, UpdateFails
<1>5. CASE Crash \/ Restart \/ Tick \/ UNCHANGED vars
  BY ZenonT(40), <1>5 DEF Crash, Restart, Tick, vars
<1>6. QED
  BY <1>1, <1>2, <1>3, <1>4, <1>5, Zenon DEF Next, Step

\* No step takes a checkpoint that is locked in off the best chain.
LEMMA FinalStep ==
  ASSUME ListFacts, StorageInv, VerdictInv, BestInv, [Next]_vars, checkpoint.node # None,
         NEW i \in DOMAIN Checkpoints, Height[Checkpoints[i]] <= Height[checkpoint.node],
         Checkpoints[i] \in Anc[dbBest]
  PROVE  Checkpoints[i] \in Anc[dbBest']
<1>1. tip = dbBest
  BY ZenonT(40), TipNode DEF BestInv, CheckpointInv
<1>2. CASE ConnectTip \/ ConnectBlock
  BY ZenonT(40), <1>1, <1>2, ConnectTipBest, ConnectBlockBest
<1>3. CASE DisconnectBlock
  <2>1. tip \notin Anc[cur] /\ \A a \in Anc[tip] \ {tip} : a \in Anc[dbBest']
    BY <1>3, DisconnectBlockBest
  <2>2. Checkpoints[i] \in Anc[cur]
    BY ZenonT(40), <1>3, CheckpointKept DEF DisconnectBlock, BestInv
  <2>3. QED
    BY ZenonT(40), <1>1, <2>1, <2>2
<1>4. QED
  BY ZenonT(40), <1>2, <1>3, OtherSteps
=============================================================================
