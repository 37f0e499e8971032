----------------------------- MODULE BlockChain -----------------------------
(***************************************************************************)
(* The block chain of package blockchain: the block index, the best chain,  *)
(* the orphan pool and the chain state in the database, with ProcessBlock   *)
(* and everything it calls.  Calls are serialised (the sync manager's       *)
(* goroutine makes all of them), so one call is in progress at a time, but  *)
(* it takes several database transactions and the node can stop between any *)
(* two of them.  A step of this module is the code between two consecutive  *)
(* database transactions, or one iteration of a loop of reorganizeChain.    *)
(***************************************************************************)
EXTENDS BlockTree, Lists

CONSTANTS
  FastBlocks,       \* the blocks submitted with BFFastAdd
  MaxOrphanBlocks,  \* maxOrphanBlocks (100 in the code)
  OrphanTTL,        \* the hour an orphan is kept, in ticks of the clock
  MaxTime,          \* bound on the clock
  MaxFaults,        \* bound on crashes and failed database transactions
  None              \* nil

\* The bounds of an instance are natural numbers.
ASSUME BoundAssumption == MaxTime \in Nat /\ MaxFaults \in Nat /\ OrphanTTL \in Nat

\* chaincfg lists the checkpoints of a network in the order of their heights.
ASSUME CheckpointAssumption ==
  /\ Checkpoints \in Seq(Blocks) /\ None \notin Blocks
  /\ \A i, j \in DOMAIN Checkpoints : i < j => Height[Checkpoints[i]] < Height[Checkpoints[j]]

VARIABLES
  \* the database: every group below changes in one transaction
  dbBlocks,         \* the blocks in the flat files
  dbStatus,         \* block index bucket: status flags; {} where there is no row
  dbBest,           \* the best chain state
  dbMain,           \* hash and height index of the main chain
  dbUtxo,           \* utxo set bucket
  dbJournal,        \* spend journal bucket; {} where there is no row
  \* the memory of the node
  status,           \* blockIndex.index with each node's status; {}: no node
  dirty,            \* blockIndex.dirty
  tip,              \* bestChain.Tip(); the view holds its ancestors
  checkpoint,       \* checkpointNode, and nextCheckpoint as an index (0: nil)
  orphans,          \* orphans in the order they were added
  oldestOrphan,
  \* the call in progress
  pc, cur, fastAdd,
  isMain,           \* what connectBestChain returned for cur
  processHashes,    \* the local of processOrphans
  detach, attach,   \* detachNodes and attachNodes
  todo,             \* the nodes the check phase of reorganizeChain has left
  view, newBest,    \* its utxo view, with the view's best hash
  \* the environment
  now, faults, asserted

disk == <<dbBlocks, dbStatus, dbBest, dbMain, dbUtxo, dbJournal>>
chainState == <<dbBest, dbMain, dbUtxo, dbJournal, tip>>
pool == <<orphans, oldestOrphan>>
reorg == <<detach, attach, todo, view, newBest>>
call == <<cur, fastAdd, isMain, processHashes>>
vars == <<disk, status, dirty, tip, checkpoint, pool, pc, call, reorg,
          now, faults, asserted>>

Flags == {"stored", "valid", "failed", "badAncestor"}
HaveNode(b) == status[b] # {}
KnownValid(b) == "valid" \in status[b]
KnownInvalid(b) == status[b] \cap {"failed", "badAncestor"} # {}

NoCheckpoint == [node |-> None, next |-> 0]
NoReorg == detach = {} /\ attach = {} /\ todo = {} /\ view = {} /\ newBest = Genesis
NoCall == cur = Genesis /\ fastAdd = FALSE /\ isMain = FALSE /\ processHashes = <<>>

\* The types of the variables, those of the pool, of processHashes and of the
\* checkpoint cache apart.
ChainTypeOK ==
  /\ dbBlocks \subseteq Blocks /\ dbMain \subseteq Blocks /\ dbBest \in Blocks
  /\ dbStatus \in [Blocks -> SUBSET Flags] /\ status \in [Blocks -> SUBSET Flags]
  /\ dbUtxo \subseteq Entries /\ dbJournal \in [Blocks -> SUBSET Entries]
  /\ dirty \subseteq Blocks /\ tip \in Blocks
  /\ pc \in {"idle", "accept", "index", "connect", "tip", "markValid", "checkDetach",
             "checkAttach", "detach", "attach", "accepted", "down", "corrupt"}
  /\ cur \in Blocks /\ fastAdd \in BOOLEAN /\ isMain \in BOOLEAN
  /\ detach \subseteq Blocks /\ attach \subseteq Blocks /\ todo \subseteq Blocks
  /\ view \subseteq Entries /\ newBest \in Blocks
  /\ now \in 0 .. MaxTime /\ faults \in 0 .. MaxFaults /\ asserted \in BOOLEAN

\* createChainState on an empty database.
Init ==
  /\ dbBlocks = {Genesis} /\ dbMain = {Genesis} /\ dbBest = Genesis
  /\ dbStatus = [b \in Blocks |-> IF b = Genesis THEN {"stored", "valid"} ELSE {}]
  /\ dbUtxo = {} /\ dbJournal = [b \in Blocks |-> {}]
  /\ status = dbStatus /\ dirty = {} /\ tip = Genesis
  /\ checkpoint = NoCheckpoint /\ orphans = <<>> /\ oldestOrphan = None
  /\ pc = "idle" /\ NoCall /\ NoReorg
  /\ now = 0 /\ faults = 0 /\ asserted = FALSE

----------------------------------------------------------------------------
(* Pieces shared by the steps. *)

\* A call returns, with an error or without: its locals go away.
Return ==
  /\ pc' = "idle"
  /\ cur' = Genesis /\ fastAdd' = FALSE /\ isMain' = FALSE /\ processHashes' = <<>>
  /\ detach' = {} /\ attach' = {} /\ todo' = {} /\ view' = {} /\ newBest' = Genesis

\* The code returns an AssertError: a state the authors hold to be impossible.
AssertError == asserted' = TRUE /\ Return

Fault == faults < MaxFaults /\ faults' = faults + 1

\* Faulty variant of SetFlag: the status is replaced, not extended.
ReplaceFlag(st, S, f) == [b \in Blocks |-> IF b \in S THEN {f} ELSE st[b]]

\* SetStatusFlags on a set of nodes, and index.flushToDB, which writes every
\* dirty node in one transaction.  A crash between the two leaves the same
\* state as a crash before the first, so they are one step.
SetFlag(st, S, f) == [b \in Blocks |-> IF b \in S THEN st[b] \cup {f} ELSE st[b]]
Flushed(st, d) == [b \in Blocks |-> IF b \in d THEN st[b] ELSE dbStatus[b]]

\* flushIndexState ignores an error of the transaction: the nodes stay dirty.
SetAndFlush(st, d) ==
  /\ status' = st
  /\ \/ dbStatus' = Flushed(st, d) /\ dirty' = {} /\ UNCHANGED faults
     \/ Fault /\ dirty' = d /\ UNCHANGED dbStatus

\* blockExists: in the index, or stored and in the main chain index.
BlockExists(b) == HaveNode(b) \/ (b \in dbBlocks /\ b \in dbMain)

----------------------------------------------------------------------------
(* Checkpoints. *)

\* findPreviousCheckpoint: the cached checkpoint after the call.  The cache
\* moves on by one checkpoint when the best chain has reached the next one.
FindPreviousCheckpoint(c) ==
  LET n == Len(Checkpoints)
      known == {i \in 1 .. n : HaveNode(Checkpoints[i]) /\ Checkpoints[i] \in Anc[tip]}
      i == CHOOSE j \in known : \A k \in known : k <= j
  IN IF n = 0 THEN c
     ELSE IF c.node = None /\ c.next = 0 THEN
       IF known = {} THEN [node |-> None, next |-> 1]
       ELSE [node |-> Checkpoints[i], next |-> IF i < n THEN i + 1 ELSE 0]
     ELSE IF c.next = 0 \/ Height[tip] < Height[Checkpoints[c.next]] THEN c
     ELSE [node |-> Checkpoints[c.next], next |-> IF c.next < n THEN c.next + 1 ELSE 0]

\* It returns an AssertError when the next checkpoint was passed unseen.
CheckpointLost(c) ==
  /\ c.next # 0 /\ Height[tip] >= Height[Checkpoints[c.next]]
  /\ ~HaveNode(Checkpoints[c.next])

\* The part of checkBlockHeaderContext that concerns checkpoints.
CheckpointOK(b, c) ==
  VerifyCheckpoint(b) /\ (c.node = None \/ Height[b] >= Height[c.node])

----------------------------------------------------------------------------
(* The orphan pool. *)

OrphanHashes == {orphans[i].hash : i \in DOMAIN orphans}

\* prevOrphans[h], as indices into the list of all orphans.
PrevOrphans(h) == {i \in DOMAIN orphans : Parent[orphans[i].hash] = h}

RemoveOrphanBlock(s, h) == Kept(s, {i \in DOMAIN s : s[i].hash # h})

\* The pointers oldestOrphan may hold after the loop of addOrphanBlock over
\* the orphans that have not expired: it moves only to an earlier expiration.
OldestOf(s) ==
  LET earliest == {i \in DOMAIN s : \A j \in DOMAIN s : s[i].expiration <= s[j].expiration}
      first == {s[i] : i \in earliest}
  IN IF first = {} THEN {oldestOrphan}
     ELSE IF oldestOrphan = None THEN first
     ELSE IF \A o \in first : o.expiration < oldestOrphan.expiration THEN first
     ELSE {oldestOrphan}

AddOrphanBlock(b) ==
  LET kept == Kept(orphans, {i \in DOMAIN orphans : now <= orphans[i].expiration})
      new == [hash |-> b, expiration |-> now + OrphanTTL]
  IN \E oldest \in OldestOf(kept) :
       IF Len(kept) + 1 > MaxOrphanBlocks
       THEN /\ orphans' = Append(RemoveOrphanBlock(kept, oldest.hash), new)
            /\ oldestOrphan' = None
       ELSE orphans' = Append(kept, new) /\ oldestOrphan' = oldest

----------------------------------------------------------------------------
(* ProcessBlock and maybeAcceptBlock. *)

\* ProcessBlock up to its call of maybeAcceptBlock: a duplicate or unsound
\* block is refused, a block with an unknown parent becomes an orphan.
ProcessBlock(b, fast) ==
  /\ pc = "idle"
  /\ LET c == FindPreviousCheckpoint(checkpoint)
         refused == \/ c.node # None /\ b \in Predating
                    \/ c.node # None /\ ~fast /\ b \in TooEasy
     IN IF BlockExists(b) \/ b \in OrphanHashes \/ ~CheckBlockSanity(b)
        THEN UNCHANGED vars
        ELSE /\ UNCHANGED <<disk, status, dirty, tip, reorg, now, faults>>
             /\ IF CheckpointLost(checkpoint)
                THEN asserted' = TRUE /\ UNCHANGED <<checkpoint, pc, call, pool>>
                ELSE /\ checkpoint' = c /\ UNCHANGED asserted
                     /\ \/ refused /\ UNCHANGED <<pc, call, pool>>
                        \/ /\ ~refused /\ ~BlockExists(Parent[b])
                           /\ AddOrphanBlock(b)
                           /\ UNCHANGED <<pc, call>>
                        \/ /\ ~refused /\ BlockExists(Parent[b])
                           /\ pc' = "accept" /\ cur' = b /\ fastAdd' = fast
                           /\ UNCHANGED <<isMain, processHashes, pool>>

\* maybeAcceptBlock up to the transaction that stores the block's data.
MaybeAcceptBlock ==
  /\ pc = "accept"
  /\ LET c == FindPreviousCheckpoint(checkpoint)
         acceptable == /\ HaveNode(Parent[cur]) /\ ~KnownInvalid(Parent[cur])
                       /\ ContextOK(cur, fastAdd)
     IN \/ /\ ~HaveNode(Parent[cur]) \/ KnownInvalid(Parent[cur])
           /\ Return /\ UNCHANGED <<checkpoint, dbBlocks, asserted>>
        \/ /\ HaveNode(Parent[cur]) /\ ~KnownInvalid(Parent[cur])
           /\ CheckpointLost(checkpoint)
           /\ AssertError /\ UNCHANGED <<checkpoint, dbBlocks>>
        \/ /\ HaveNode(Parent[cur]) /\ ~KnownInvalid(Parent[cur])
           /\ ~CheckpointLost(checkpoint)
           /\ checkpoint' = c /\ UNCHANGED asserted
           /\ IF acceptable /\ CheckpointOK(cur, c)
              THEN /\ dbBlocks' = dbBlocks \cup {cur} /\ pc' = "index"
                   /\ UNCHANGED <<call, reorg>>
              ELSE Return /\ UNCHANGED dbBlocks
  /\ UNCHANGED <<dbStatus, chainState, status, dirty, pool, now, faults>>

\* Faulty variant of AddNode: only the row of the new node is written.
AddNodeAlone ==
  /\ pc = "index"
  /\ status' = [status EXCEPT ![cur] = {"stored"}]
  /\ \/ /\ dbStatus' = Flushed(status', {cur})
        /\ pc' = "connect" /\ UNCHANGED <<dirty, call, reorg, faults>>
     \/ /\ Fault /\ dirty' = dirty \cup {cur}
        /\ Return /\ UNCHANGED dbStatus
  /\ UNCHANGED <<dbBlocks, chainState, checkpoint, pool, now, asserted>>

\* maybeAcceptBlock: the new node enters the index, which is flushed.  An
\* error of the flush ends the call and leaves the node in the index, dirty.
AddNode ==
  /\ pc = "index"
  /\ status' = [status EXCEPT ![cur] = {"stored"}]
  /\ \/ /\ dbStatus' = Flushed(status', dirty \cup {cur}) /\ dirty' = {}
        /\ pc' = "connect" /\ UNCHANGED <<call, reorg, faults>>
     \/ /\ Fault /\ dirty' = dirty \cup {cur}
        /\ Return /\ UNCHANGED dbStatus
  /\ UNCHANGED <<dbBlocks, chainState, checkpoint, pool, now, asserted>>

\* processOrphans after a block was accepted: the first hash with an orphan
\* waiting for it yields that orphan, and the call ends when none has one.
ProcessOrphans ==
  /\ pc = "accepted"
  /\ LET queue == Append(processHashes, cur)
         waited == {i \in DOMAIN queue : PrevOrphans(queue[i]) # {}}
     IN \/ /\ waited = {}
           /\ Return /\ UNCHANGED pool
        \/ /\ \E i \in waited : \E k \in PrevOrphans(queue[i]) : \E o \in Blocks \ {Genesis} :
                /\ \A j \in waited : i <= j
                /\ \A l \in PrevOrphans(queue[i]) : k <= l
                /\ o = orphans[k].hash
                /\ cur' = o /\ orphans' = RemoveOrphanBlock(orphans, o)
                /\ processHashes' = SubSeq(queue, i, Len(queue))
           /\ isMain' = FALSE /\ pc' = "accept"
           /\ UNCHANGED <<fastAdd, reorg, oldestOrphan>>
  /\ UNCHANGED <<disk, status, dirty, tip, checkpoint, now, faults, asserted>>

----------------------------------------------------------------------------
(* connectBestChain. *)

\* The new block extends the best chain: it is checked, unless it is added
\* fast, and its status is saved before it is connected.
ExtendBestChain ==
  /\ pc = "connect" /\ Parent[cur] = tip
  /\ \/ /\ ~fastAdd /\ ~KnownValid(cur) /\ CheckConnectBlock(cur, dbUtxo)
        /\ SetAndFlush(SetFlag(status, {cur}, "valid"), dirty \cup {cur})
        /\ pc' = "tip" /\ UNCHANGED <<call, reorg, asserted>>
     \/ /\ ~fastAdd /\ ~KnownValid(cur) /\ ~CheckConnectBlock(cur, dbUtxo)
        /\ SetAndFlush(SetFlag(status, {cur}, "failed"), dirty \cup {cur})
        /\ Return /\ UNCHANGED asserted
     \/ /\ fastAdd \/ KnownValid(cur)
        /\ IF InputsExist(cur, dbUtxo)
           THEN pc' = "tip" /\ UNCHANGED <<call, reorg, asserted>>
           ELSE AssertError
        /\ UNCHANGED <<status, dirty, dbStatus, faults>>
  /\ UNCHANGED <<dbBlocks, chainState, checkpoint, pool, now>>

\* Faulty variant of MoreWork: the longer chain wins.
MoreBlocks(b) == Height[b] > Height[tip]

\* connectBestChain compares the work of the two chains.
MoreWork(b) == WorkSum[b] > WorkSum[tip]

\* A side chain without more work than the best chain stays one.
ExtendSideChain ==
  /\ pc = "connect" /\ Parent[cur] # tip
  /\ ~MoreWork(cur)
  /\ isMain' = FALSE /\ pc' = "accepted"
  /\ UNCHANGED <<disk, status, dirty, tip, checkpoint, pool, cur, fastAdd,
                 processHashes, reorg, now, faults, asserted>>

\* getReorganizeNodes: nothing to do for a chain known to be invalid, whose
\* nodes above the invalid one are marked; connectBestChain then reports the
\* block to be on the main chain, since reorganizeChain returned no error.
ReorganizeRefused ==
  LET branch == Anc[cur] \ Anc[tip]
      bad == {n \in branch : KnownInvalid(n)}
      above == {n \in branch : \A m \in bad : Height[n] > Height[m]}
  IN /\ pc = "connect" /\ Parent[cur] # tip
     /\ MoreWork(cur)
     /\ bad # {}
     /\ SetAndFlush(SetFlag(status, above, "badAncestor"), dirty \cup above)
     /\ isMain' = TRUE /\ pc' = "accepted"
     /\ UNCHANGED <<dbBlocks, chainState, checkpoint, pool, cur, fastAdd,
                    processHashes, reorg, now, asserted>>

\* Otherwise the nodes to detach and to attach are known and reorganizeChain
\* begins its check phase on a utxo view of the current tip.
ReorganizeBegin ==
  LET branch == Anc[cur] \ Anc[tip]
  IN /\ pc = "connect" /\ Parent[cur] # tip
     /\ MoreWork(cur)
     /\ \A n \in branch : ~KnownInvalid(n)
     /\ attach' = branch /\ detach' = Anc[tip] \ Anc[cur]
     /\ view' = dbUtxo /\ newBest' = tip
     /\ IF detach' = {} THEN pc' = "checkAttach" /\ todo' = attach'
                        ELSE pc' = "checkDetach" /\ todo' = detach'
     /\ UNCHANGED <<disk, status, dirty, tip, checkpoint, pool, call, now,
                    faults, asserted>>

----------------------------------------------------------------------------
(* connectBlock, disconnectBlock and reorganizeChain. *)

\* The transaction of connectBlock, with the move of the best chain's tip.
ConnectUpdate(n) ==
  /\ dbBest' = n /\ tip' = n
  /\ dbMain' = dbMain \cup {n}
  /\ dbUtxo' = ConnectTransactions(dbUtxo, n)
  /\ dbJournal' = [dbJournal EXCEPT ![n] = SpentTxOuts(dbUtxo, n)]

\* The transaction of disconnectBlock, with the move of the best chain's tip.
DisconnectUpdate(n) ==
  /\ dbBest' = Parent[n] /\ tip' = Parent[n]
  /\ dbMain' = dbMain \ {n}
  /\ dbUtxo' = DisconnectTransactions(dbUtxo, n, dbJournal[n])
  /\ dbJournal' = [dbJournal EXCEPT ![n] = {}]

\* Both first write the status changes, in a transaction of their own.
FlushToDB ==
  /\ pc \in {"tip", "detach", "attach"} /\ dirty # {}
  /\ dbStatus' = Flushed(status, dirty) /\ dirty' = {}
  /\ UNCHANGED <<dbBlocks, chainState, status, checkpoint, pool, pc, call,
                 reorg, now, faults, asserted>>

\* connectBestChain connects the block that extends the best chain.
ConnectTip ==
  /\ pc = "tip" /\ dirty = {}
  /\ ConnectUpdate(cur)
  /\ isMain' = TRUE
  /\ pc' = IF KnownValid(cur) /\ ~fastAdd THEN "accepted" ELSE "markValid"
  /\ UNCHANGED <<dbBlocks, dbStatus, status, dirty, checkpoint, pool, cur,
                 fastAdd, processHashes, reorg, now, faults, asserted>>

\* A block that was added fast is marked valid after it was connected.
MarkValid ==
  /\ pc = "markValid"
  /\ SetAndFlush(SetFlag(status, {cur}, "valid"), dirty \cup {cur})
  /\ pc' = "accepted"
  /\ UNCHANGED <<dbBlocks, chainState, checkpoint, pool, call, reorg, now, asserted>>

\* Faulty variants of CheckDetach: the view is left as it is; the loop does
\* not move on to the next node.
CheckDetachKeepsView ==
  /\ pc = "checkDetach"
  /\ \E n \in todo : First(n, todo) /\ newBest' = Parent[n]
  /\ pc' = "checkAttach" /\ todo' = attach
  /\ UNCHANGED <<disk, status, dirty, tip, checkpoint, pool, call, detach,
                 attach, view, now, faults, asserted>>
CheckDetachStays ==
  /\ pc = "checkDetach"
  /\ \E n \in todo : /\ Last(n, todo) /\ newBest' = Parent[n]
                     /\ view' = DisconnectTransactions(view, n, dbJournal[n])
  /\ UNCHANGED <<disk, status, dirty, tip, checkpoint, pool, pc, call, detach,
                 attach, todo, now, faults, asserted>>

\* reorganizeChain, check phase: undo a block on the view.
CheckDetach ==
  /\ pc = "checkDetach"
  /\ \E n \in todo :
        /\ Last(n, todo)
        /\ view' = DisconnectTransactions(view, n, dbJournal[n])
        /\ newBest' = Parent[n]
        /\ IF todo = {n} THEN pc' = "checkAttach" /\ todo' = attach
                         ELSE pc' = pc /\ todo' = todo \ {n}
  /\ UNCHANGED <<disk, status, dirty, tip, checkpoint, pool, call, detach,
                 attach, now, faults, asserted>>

\* reorganizeChain, check phase: a block is connected to the view, after a
\* check unless it passed one before.  A rule violation marks the block and
\* those above it, and ends the call without a change of the chain.
CheckAttach ==
  /\ pc = "checkAttach"
  /\ \E n \in todo :
     LET above == todo \ {n}
         checks == newBest = Parent[n] /\ CheckConnectBlock(n, view)
         failed == SetFlag(SetFlag(status, {n}, "failed"), above, "badAncestor")
     IN /\ First(n, todo)
        /\ \/ /\ IF KnownValid(n) THEN ~InputsExist(n, view) ELSE newBest # Parent[n]
              /\ SetAndFlush(status, dirty) /\ AssertError
           \/ /\ IF KnownValid(n) THEN InputsExist(n, view) ELSE checks
              /\ view' = ConnectTransactions(view, n) /\ newBest' = n
              /\ todo' = above
              /\ pc' = IF todo' # {} THEN pc ELSE IF detach # {} THEN "detach" ELSE "attach"
              /\ IF KnownValid(n) THEN UNCHANGED <<status, dirty>>
                 ELSE status' = SetFlag(status, {n}, "valid") /\ dirty' = dirty \cup {n}
              /\ UNCHANGED <<dbStatus, call, detach, attach, faults, asserted>>
           \/ /\ ~KnownValid(n) /\ newBest = Parent[n] /\ ~checks
              /\ SetAndFlush(failed, dirty \cup todo)
              /\ Return /\ UNCHANGED asserted
  /\ UNCHANGED <<dbBlocks, chainState, checkpoint, pool, now>>

\* reorganizeChain: take the last block off the main chain.
DisconnectBlock ==
  /\ pc = "detach" /\ dirty = {}
  /\ \E n \in detach :
        /\ Last(n, detach)
        /\ \/ /\ n # tip
              /\ AssertError /\ UNCHANGED chainState
           \/ /\ n = tip
              /\ DisconnectUpdate(n)
              /\ detach' = detach \ {n}
              /\ pc' = IF detach' = {} THEN "attach" ELSE "detach"
              /\ UNCHANGED <<call, attach, todo, view, newBest, asserted>>
  /\ UNCHANGED <<dbBlocks, dbStatus, status, dirty, checkpoint, pool, now, faults>>

\* reorganizeChain: connect the next block of the new chain.
ConnectBlock ==
  /\ pc = "attach" /\ dirty = {}
  /\ \E n \in attach :
        /\ First(n, attach)
        /\ \/ /\ Parent[n] # tip \/ ~InputsExist(n, dbUtxo)
              /\ AssertError /\ UNCHANGED chainState
           \/ /\ Parent[n] = tip /\ InputsExist(n, dbUtxo)
              /\ ConnectUpdate(n)
              /\ attach' = attach \ {n} /\ isMain' = TRUE
              /\ pc' = IF attach' = {} THEN "accepted" ELSE "attach"
              /\ UNCHANGED <<cur, fastAdd, processHashes, detach, todo, view, newBest, asserted>>
  /\ UNCHANGED <<dbBlocks, dbStatus, status, dirty, checkpoint, pool, now, faults>>

----------------------------------------------------------------------------
(* Failures. *)

\* A transaction that stores a block, connects or disconnects one fails.  The
\* call returns the error; connectBestChain tries to save the dirty nodes.
UpdateFails ==
  /\ pc \in {"accept", "tip", "detach", "attach"} /\ Fault
  /\ Return
  /\ \/ UNCHANGED <<dbStatus, dirty>>
     \/ pc # "accept" /\ dirty # {} /\ dbStatus' = Flushed(status, dirty) /\ dirty' = {}
  /\ UNCHANGED <<dbBlocks, chainState, status, checkpoint, pool, now, asserted>>

\* The node stops: what is in memory is lost.
Crash ==
  /\ pc \notin {"down", "corrupt"} /\ Fault
  /\ pc' = "down"
  /\ status' = [b \in Blocks |-> {}] /\ dirty' = {} /\ tip' = Genesis
  /\ checkpoint' = NoCheckpoint /\ orphans' = <<>> /\ oldestOrphan' = None
  /\ cur' = Genesis /\ fastAdd' = FALSE /\ isMain' = FALSE /\ processHashes' = <<>>
  /\ detach' = {} /\ attach' = {} /\ todo' = {} /\ view' = {} /\ newBest' = Genesis
  /\ UNCHANGED <<disk, now, asserted>>

\* initChainState accepts what it finds: every row of the index has its parent
\* in the index, and so does the tip, whose block can be read.
Loadable ==
  /\ dbStatus[Genesis] # {}
  /\ \A b \in Blocks \ {Genesis} : dbStatus[b] # {} => dbStatus[Parent[b]] # {}
  /\ dbStatus[dbBest] # {} /\ dbBest \in dbBlocks

\* initChainState on a database that holds a chain: the index and the tip are
\* loaded, the ancestors of the tip are marked valid, and that is saved.  The
\* node does not come up when that fails.
Restart ==
  LET loaded == SetFlag(dbStatus, Anc[dbBest], "valid")
  IN /\ pc = "down"
     /\ \/ /\ Loadable
           /\ pc' = "idle" /\ tip' = dbBest /\ status' = loaded
           /\ dbStatus' = Flushed(loaded, {b \in Anc[dbBest] : "valid" \notin dbStatus[b]})
           /\ dirty' = {} /\ UNCHANGED faults
        \/ /\ Loadable /\ Fault
           /\ UNCHANGED <<pc, tip, status, dirty, dbStatus>>
        \/ /\ ~Loadable /\ pc' = "corrupt"
           /\ UNCHANGED <<tip, status, dirty, dbStatus, faults>>
     /\ UNCHANGED <<dbBlocks, dbBest, dbMain, dbUtxo, dbJournal, checkpoint, pool,
                    call, reorg, now, asserted>>

Tick == pc = "idle" /\ now < MaxTime /\ now' = now + 1
        /\ UNCHANGED <<disk, status, dirty, tip, checkpoint, pool, pc, call,
                       reorg, faults, asserted>>

----------------------------------------------------------------------------

\* The steps of the call in progress.
Step ==
  \/ MaybeAcceptBlock \/ AddNode \/ ProcessOrphans
  \/ ExtendBestChain \/ ExtendSideChain \/ ReorganizeRefused \/ ReorganizeBegin
  \/ FlushToDB \/ ConnectTip \/ MarkValid
  \/ CheckDetach \/ CheckAttach \/ DisconnectBlock \/ ConnectBlock

Next ==
  \/ \E b \in Blocks \ {Genesis} :
       \E fast \in {FALSE} \cup (IF b \in FastBlocks THEN {TRUE} ELSE {}) :
         ProcessBlock(b, fast)
  \/ Step
  \/ UpdateFails \/ Crash \/ Restart \/ Tick

\* The goroutine that runs a call is not stopped by the scheduler for ever.
Spec == Init /\ [][Next]_vars /\ WF_vars(Step)

----------------------------------------------------------------------------
(* What package blockchain promises. *)

Up == pc \notin {"down", "corrupt"}

\* After every transaction of connectBlock and disconnectBlock, so also in the
\* middle of a reorganization and in what a crash leaves behind, the utxo set
\* and the main chain index are those of the chain that ends in the best state.
UtxoMatchesBest == dbUtxo = UtxoAfter[dbBest] /\ dbMain = Anc[dbBest]

\* The spend journal holds the entries each main chain block has spent, and no
\* row of a block that disconnectBlock has taken off the main chain.
JournalMatchesChain ==
  \A b \in Blocks \ {Genesis} :
    dbJournal[b] = IF b \in Anc[dbBest] THEN SpentTxOuts(UtxoAfter[Parent[b]], b) ELSE {}

\* Whenever the node stops, initChainState can load what is on the disk: no
\* row of the index lacks its parent or its block, and the tip has both.
DiskRecoverable ==
  /\ Loadable /\ pc # "corrupt"
  /\ \A b \in Blocks : dbStatus[b] # {} => b \in dbBlocks

\* The index in memory differs from its bucket only in nodes still to be
\* flushed, and the tip in memory is the one of the stored best state.
MemoryMatchesDisk ==
  Up => tip = dbBest /\ \A b \in Blocks \ dirty : status[b] = dbStatus[b]

\* The inductive invariant behind the four properties above: the index, in
\* memory and on disk, holds the ancestors and the data of every node, and the
\* call in progress works on nodes of the index only.
Indexed(st) == \A b \in Blocks :
  st[b] # {} => b \in dbBlocks /\ \A a \in Anc[b] : st[a] # {}

IndexInv ==
  /\ Indexed(dbStatus) /\ dbStatus[dbBest] # {} /\ pc # "corrupt"
  /\ MemoryMatchesDisk
  /\ Up => Indexed(status) /\ \A b \in Blocks : dbStatus[b] # {} => status[b] # {}

CallInv ==
  /\ pc \in {"accept", "index", "connect", "tip"} => cur # Genesis
  /\ pc = "index" => cur \in dbBlocks /\ status[Parent[cur]] # {}
  /\ pc \in {"connect", "tip", "markValid"} => status[cur] # {}
  /\ pc = "tip" => Parent[cur] = tip
  /\ pc \in {"checkDetach", "checkAttach", "detach", "attach"} =>
       /\ attach \subseteq {b \in Blocks \ {Genesis} : status[b] # {}}
       /\ detach \subseteq Anc[tip] \ {Genesis}
  /\ pc = "checkDetach" => todo \subseteq detach
  /\ pc = "checkAttach" => todo \subseteq attach
  /\ pc = "detach" => detach # {}

StorageInv ==
  ChainTypeOK /\ UtxoMatchesBest /\ JournalMatchesChain /\ IndexInv /\ CallInv

\* The verdicts of the index, in memory and on disk, are right: a block was
\* found invalid on the utxo set of its own parent, never on another branch's;
\* one marked for its ancestry descends from such a block; a valid one belongs
\* to a chain of valid blocks unless a block on it was added fast.
VerdictsSound ==
  \A b \in Blocks \ {Genesis} : \A st \in {status[b], dbStatus[b]} :
    /\ "failed" \in st => ~CheckConnectBlock(b, UtxoAfter[Parent[b]])
    /\ "badAncestor" \in st => \E a \in Anc[b] \ {b} : "failed" \in status[a] \cup dbStatus[a]
    /\ "valid" \in st => GoodChain(b) \/ Anc[b] \cap FastBlocks # {}
    /\ "valid" \in st => st \cap {"failed", "badAncestor"} = {}

\* Between two calls of ProcessBlock, when no transaction failed, no chain of
\* valid blocks in the index has more work than the best chain.
BestHasMostWork ==
  pc = "idle" /\ faults = 0 =>
    \A b \in Blocks : HaveNode(b) /\ GoodChain(b) => WorkSum[b] <= WorkSum[tip]

\* The AssertErrors of disconnectBlock, connectBlock, reorganizeChain and
\* findPreviousCheckpoint are never returned: reorganizeChain hands the nodes
\* over in the order the chain needs, and the view agrees with the database.
NoAssertError == ~asserted

\* A verdict that reached the disk is never lost again, not by a later flush of
\* the same node nor by a restart that rebuilds the index from its bucket.
VerdictsKept == [][\A b \in Blocks : dbStatus[b] \subseteq dbStatus'[b]]_vars

\* "Once a checkpoint lockin has been reached, forks are prevented from any
\* blocks before the checkpoint, so we don't have to worry about the checkpoint
\* going away out from under us due to a chain reorganize" (checkpoints.go): no
\* step takes the checkpoint that findPreviousCheckpoint has cached, or one
\* below it, off the best chain.
CheckpointFinal ==
  [][checkpoint.node # None =>
       \A i \in DOMAIN Checkpoints :
         /\ Height[Checkpoints[i]] <= Height[checkpoint.node]
         /\ Checkpoints[i] \in Anc[dbBest]
         => Checkpoints[i] \in Anc[dbBest']]_vars

\* Every call of ProcessBlock returns, or the node stops: the orphans that
\* processOrphans connects run out and reorganizeChain's loops end.
CallReturns == pc \notin {"idle", "down", "corrupt"} ~> pc \in {"idle", "down"}

----------------------------------------------------------------------------
(* What a comment of the package says and the code does not do. *)

\* BFFastAdd is for a block that is "already known to fit into the chain": a
\* block that was not submitted with it was checked before it is on the chain.
OnlyFastUnchecked ==
  \A b \in Anc[tip] \ (FastBlocks \cup {Genesis}) :
    CheckConnectBlock(b, UtxoAfter[Parent[b]])

=============================================================================
