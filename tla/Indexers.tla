------------------------------ MODULE Indexers ------------------------------
(***************************************************************************)
(* The optional indexes (package indexers) and their manager.  The manager   *)
(* keeps the tip of every index in the database.  While the node runs, each   *)
(* index changes in the database transaction that moves the chain.  At start  *)
(* the manager finishes drops, creates indexes, walks back the indexes that   *)
(* are not on the main chain, and catches all of them up, in many database    *)
(* transactions.  The node can stop between any two transactions: Stop stands *)
(* for a crash, an interrupt and a shutdown.  Every start has its own         *)
(* configuration, so the chain also moves while an index is disabled.         *)
(***************************************************************************)
EXTENDS Integers, Sequences, SequencesExt, FiniteSetsExt, FiniteSets, Functions

CONSTANTS
  Blocks, Genesis, Parent,
  level0MaxEntries,
  MaxLevel,       \* a bound on the levels a state can have
  BlockTxs,       \* the transactions of a block in order, the coinbase first
  Addrs,
  TxAddrs,        \* the addresses a transaction pays or, by its inputs, spends from
  Configs,        \* what may be enabled, in the order of newServer
  MaxDeletions,   \* maxDeletions, entries per transaction of a drop
  Increment,      \* the step of the forward scan of TxIndex.Init
  MaxFailures,    \* a bound on the commits that fail
  MaxStarts,      \* a bound on the starts of the process
  Zero,           \* the zero hash
  None            \* nil

----------------------------------------------------------------------------
(* The entries of one address in the address index (addrindex.go).  They are  *)
(* kept in levels: level 0 holds up to level0MaxEntries entries, and every    *)
(* other level twice as many as the one below it.  A level other than 0 is    *)
(* empty, half full or full, and older entries are in higher levels, so a new *)
(* entry rewrites few of them.  An address that has no entry at a level has   *)
(* no key for it, which is <<>> here.                                         *)

Levels == 0 .. MaxLevel

maxEntriesForLevel(l) == level0MaxEntries * 2 ^ l
\* minRequired: one entry, and all lower levels full
minEntriesToReachLevel(l) == 1 + level0MaxEntries * (2 ^ l - 1)

\* All entries from the oldest to the newest.
AllEntries(lv) == FlattenSeq([i \in 1 .. MaxLevel + 1 |-> lv[MaxLevel + 1 - i]])

\* A full level 0 moves up.  The first level above that is not full takes the
\* entries of the level below it, and each level in between those of the one below.
dbPutAddrIndexEntry(lv, e) ==
  IF Len(lv[0]) < level0MaxEntries THEN [lv EXCEPT ![0] = Append(@, e)]
  ELSE LET cur == Min({l \in Levels \ {0} : Len(lv[l]) # maxEntriesForLevel(l)})
       IN [l \in Levels |-> CASE l = 0 -> <<e>>
                              [] l \in 1 .. cur - 1 -> lv[l - 1]
                              [] l = cur -> lv[cur] \o lv[cur - 1]
                              [] l > cur -> lv[l]]

\* Levels are read upwards until one is missing or, newest first, until they are
\* enough.  The result is the entries and how many were skipped.
dbFetchAddrIndexEntries(lv, numToSkip, numRequested, reverse) ==
  LET Below(l) == MapThenSumSet(LAMBDA k : Len(lv[k]), 0 .. l - 1)
      read == {l \in Levels : \A k \in 0 .. l :
                 lv[k] # <<>> /\ (reverse => Below(k) < numToSkip + numRequested)}
      entries == AllEntries([l \in Levels |-> IF l \in read THEN lv[l] ELSE <<>>])
      num == Len(entries)
      load == Min({num - numToSkip, numRequested})
  IN CASE numToSkip >= num -> [regions |-> <<>>, skipped |-> num]
       [] numToSkip < num /\ numRequested = 0 -> [regions |-> <<>>, skipped |-> numToSkip]
       [] OTHER -> [regions |-> [i \in 1 .. load |->
                                   entries[IF reverse THEN num - numToSkip - i + 1
                                           ELSE numToSkip + i]],
                    skipped |-> numToSkip]

-----------------------------------------------------------------------------
\* dbRemoveAddrIndexEntries removes the newest entries.  It reads levels upwards
\* until they hold enough, squashes what is left in the highest of them, and fills
\* the levels that are empty from those above.

\* The level in which the count-th newest entry is, None if there are fewer.
HighestLoaded(lv, count) ==
  {l \in Levels : /\ \A k \in 0 .. l : lv[k] # <<>>
                  /\ MapThenSumSet(LAMBDA k : Len(lv[k]), 0 .. l) >= count
                  /\ MapThenSumSet(LAMBDA k : Len(lv[k]), 0 .. l - 1) < count}

\* Spread data, the remaining entries of level l, over the levels l and below:
\* each level takes all it can hold, or half, and leaves enough to reach it.
RECURSIVE Squash(_, _, _, _)
Squash(lv, data, l, lowest) ==
  IF l = 0 THEN [lv |-> [lv EXCEPT ![0] = data], lowest |-> IF data = <<>> THEN 0 ELSE lowest]
  ELSE LET full == maxEntriesForLevel(l)
           half == full \div 2
           need == minEntriesToReachLevel(l - 1)
           offset == IF Len(data) - full >= need THEN full ELSE half
       IN IF Len(data) < half + need
          THEN Squash([lv EXCEPT ![l] = <<>>], data, l - 1, l)
          ELSE Squash([lv EXCEPT ![l] = SubSeq(data, 1, offset)],
                      SubSeq(data, offset + 1, Len(data)), l - 1, lowest)

\* Halve data, which fills level l, down to the level lowest.
RECURSIVE Halve(_, _, _, _)
Halve(lv, data, l, lowest) ==
  IF l <= lowest THEN lv
  ELSE LET offset == maxEntriesForLevel(l) \div 2
           rest == SubSeq(data, offset + 1, Len(data))
       IN Halve([lv EXCEPT ![l] = SubSeq(data, 1, offset), ![l - 1] = rest], rest, l - 1, lowest)

\* While the highest level that was read is empty, move the next one down.
RECURSIVE Backfill(_, _, _)
Backfill(lv, highest, lowest) ==
  IF lv[highest] # <<>> \/ highest = MaxLevel \/ lv[highest + 1] = <<>> THEN lv
  ELSE LET next == highest + 1
           data == lv[next]
       IN Backfill(IF Len(data) = maxEntriesForLevel(next) THEN Halve(lv, data, next, lowest)
                   ELSE Halve([lv EXCEPT ![next] = <<>>, ![highest] = data], data, highest, lowest),
                   next, next)

\* The levels that are left, and whether there were enough entries to remove.
dbRemoveAddrIndexEntries(lv, count) ==
  IF count <= 0 THEN [ok |-> TRUE, lv |-> lv]
  ELSE IF HighestLoaded(lv, count) = {} THEN [ok |-> FALSE, lv |-> lv]
  ELSE LET h == CHOOSE l \in HighestLoaded(lv, count) : TRUE
           left == count - MapThenSumSet(LAMBDA k : Len(lv[k]), 0 .. h - 1)
           data == SubSeq(lv[h], 1, Len(lv[h]) - left)
           cut == [l \in Levels |-> CASE l < h -> <<>> [] l = h -> data [] l > h -> lv[l]]
           squashed == Squash(cut, data, h, 255)
       IN [ok |-> TRUE,
           lv |-> IF cut[0] # <<>> THEN cut ELSE Backfill(squashed.lv, h, squashed.lowest)]

\* The levels that are empty are above the others, and those above level 0 hold
\* half of what they can, or all of it.
LevelsFormed(lv) ==
  \A l \in Levels :
    /\ lv[l] # <<>> => \A k \in 0 .. l : lv[k] # <<>>
    /\ l > 0 => Len(lv[l]) \in {0, maxEntriesForLevel(l) \div 2, maxEntriesForLevel(l)}
    /\ Len(lv[l]) <= maxEntriesForLevel(l)

----------------------------------------------------------------------------

VARIABLES
  best,           \* the tip of the main chain
  goal,           \* the block the chain is moving to
  tip,            \* the tips in the index tips bucket, None for no entry
  dropping,       \* the indexes with an entry under indexDropKey
  data,           \* the buckets that exist, each with its entries
  enabled,        \* Manager.enabledIndexes
  curBlockID,     \* TxIndex.curBlockID
  pc,             \* what the process does next
  drops,          \* the indexes that are still to be dropped
  todo,           \* the buckets of the first of them that are left, innermost first
  failures,       \* commits that failed so far
  starts          \* starts of the process so far

chainVars == <<best, goal>>
dropVars == <<drops, todo>>
vars == <<chainVars, tip, dropping, data, enabled, curBlockID, pc, dropVars, failures, starts>>

Indexes == {"tx", "addr", "cf"}

Height[b \in Blocks] == IF b = Genesis THEN 0 ELSE Height[Parent[b]] + 1
PathTo[b \in Blocks] == IF b = Genesis THEN <<b>> ELSE Append(PathTo[Parent[b]], b)
Prev(b) == IF b = Genesis THEN Zero ELSE Parent[b]
MainChainHasBlock(b) == Contains(PathTo[best], b)

\* FetchSpendJournal: blocks that are disconnected lose their entry, and a block
\* that spends outputs cannot do without.
FetchSpendJournalOK(b) == MainChainHasBlock(b) \/ Len(BlockTxs[b]) = 1

-----------------------------------------------------------------------------
\* Buckets.  Entries are partial functions.

\* The members of a sequence that are in a set.
In(s, S) == FoldLeft(LAMBDA t, e : IF e \in S THEN Append(t, e) ELSE t, <<>>, s)

NoKeys == [k \in {} |-> None]
Put(d, bucket, k, v) == [d EXCEPT ![bucket] = (k :> v) @@ @]
Delete(d, bucket, K) == [d EXCEPT ![bucket] = Restrict(@, DOMAIN @ \ K)]

\* The buckets of an index in the order in which dropIndex collects them.
SubBuckets == [tx |-> <<"tx">>, addr |-> <<"addr">>, cf |-> <<"cf", "filters", "hashes", "headers">>]
BlockIDBuckets == {"idByHash", "hashByID"}
Created == [tx |-> {"tx"} \cup BlockIDBuckets, addr |-> {"addr"},
            cf |-> {"cf", "filters", "hashes", "headers"}]

\* A step of an index yields the data, the block ID that the transaction index
\* keeps in memory, and whether it succeeded.
Result(ok, d, cur) == [ok |-> ok, data |-> d, cur |-> cur]

\* TxIndex.  Every block has an ID, and the entry of a transaction names it.
TxConnectBlock(d, cur, b) ==
  LET id == cur + 1
      entries == [t \in {BlockTxs[b][i] : i \in DOMAIN BlockTxs[b]} |-> id]
  IN Result(TRUE, [d EXCEPT !["tx"] = entries @@ @,
                            !["idByHash"] = (b :> id) @@ @,
                            !["hashByID"] = (id :> b) @@ @], id)

TxDisconnectBlock(d, cur, b) ==
  LET T == {BlockTxs[b][i] : i \in DOMAIN BlockTxs[b]}
      ids == IF b \in DOMAIN d["idByHash"] THEN {d["idByHash"][b]} ELSE {}
  IN IF T \subseteq DOMAIN d["tx"]
     THEN Result(TRUE, Delete(Delete(Delete(d, "tx", T), "idByHash", {b}), "hashByID", ids), cur - 1)
     ELSE Result(FALSE, d, cur)

\* AddrIndex.  An entry is a transaction with the ID of its block; levels are keys.
TxsOf(b, a) == In(BlockTxs[b], {t \in ToSet(BlockTxs[b]) : a \in TxAddrs[t]})
LevelsOf(d, a) == [l \in Levels |-> IF <<a, l>> \in DOMAIN d["addr"] THEN d["addr"][<<a, l>>] ELSE <<>>]
WithLevels(lvs) ==
  LET K == {k \in Addrs \X Levels : lvs[k[1]][k[2]] # <<>>} IN [k \in K |-> lvs[k[1]][k[2]]]

AddrConnectBlock(d, cur, b) ==
  IF b \notin DOMAIN d["idByHash"] THEN Result(FALSE, d, cur)
  ELSE LET Put1(lv, t) == dbPutAddrIndexEntry(lv, <<d["idByHash"][b], t>>)
       IN Result(TRUE, [d EXCEPT !["addr"] =
                          WithLevels([a \in Addrs |-> FoldLeft(Put1, LevelsOf(d, a), TxsOf(b, a))])], cur)

AddrDisconnectBlock(d, cur, b) ==
  LET r == [a \in Addrs |-> dbRemoveAddrIndexEntries(LevelsOf(d, a), Len(TxsOf(b, a)))]
  IN IF \A a \in Addrs : r[a].ok
     THEN Result(TRUE, [d EXCEPT !["addr"] = WithLevels([a \in Addrs |-> r[a].lv])], cur)
     ELSE Result(FALSE, d, cur)

\* CfIndex.  A filter header commits to the filter of its block and to the header
\* before it, so it is the sequence of blocks whose filters it commits to.
CfConnectBlock(d, cur, b) ==
  IF b # Genesis /\ Prev(b) \notin DOMAIN d["headers"] THEN Result(FALSE, d, cur)
  ELSE LET prevHeader == IF b = Genesis THEN <<>> ELSE d["headers"][Prev(b)]
       IN Result(TRUE, Put(Put(Put(d, "filters", b, b), "hashes", b, b),
                           "headers", b, Append(prevHeader, b)), cur)

CfDisconnectBlock(d, cur, b) ==
  Result(TRUE, Delete(Delete(Delete(d, "filters", {b}), "headers", {b}), "hashes", {b}), cur)

-----------------------------------------------------------------------------
\* Manager.

dbIndexConnectBlock(i, d, cur, b) ==
  IF tip[i] # Prev(b) THEN Result(FALSE, d, cur)
  ELSE CASE i = "tx" -> TxConnectBlock(d, cur, b)
         [] i = "addr" -> AddrConnectBlock(d, cur, b)
         [] i = "cf" -> CfConnectBlock(d, cur, b)

dbIndexDisconnectBlock(i, d, cur, b) ==
  IF tip[i] # b THEN Result(FALSE, d, cur)
  ELSE CASE i = "tx" -> TxDisconnectBlock(d, cur, b)
         [] i = "addr" -> AddrDisconnectBlock(d, cur, b)
         [] i = "cf" -> CfDisconnectBlock(d, cur, b)

\* ConnectBlock and DisconnectBlock call every index in order, up to one that fails.
ConnectBlock(b) ==
  FoldLeft(LAMBDA r, i : IF r.ok THEN dbIndexConnectBlock(i, r.data, r.cur, b) ELSE r,
           Result(TRUE, data, curBlockID), enabled)
DisconnectBlock(b) ==
  FoldLeft(LAMBDA r, i : IF r.ok THEN dbIndexDisconnectBlock(i, r.data, r.cur, b) ELSE r,
           Result(TRUE, data, curBlockID), enabled)

IsEnabled(i) == Contains(enabled, i)

\* TxIndex.Init: the highest ID in use.  IDs are tried in steps until one is free,
\* and the interval that is left is halved.
RECURSIVE ForwardScan(_, _), BinaryScan(_, _, _)
ForwardScan(used, id) == IF id \in used THEN ForwardScan(used, id + Increment) ELSE id
BinaryScan(used, known, unknown) ==
  LET mid == (known + unknown) \div 2 IN
  IF known + 1 = unknown THEN known
  ELSE IF mid \in used THEN BinaryScan(used, mid, unknown) ELSE BinaryScan(used, known, mid)
TxIndexInit(used) ==
  LET next == ForwardScan(used, 1)
  IN IF next = 1 THEN 0 ELSE BinaryScan(used, next - Increment, next)

-----------------------------------------------------------------------------
TypeOK ==
  /\ best \in Blocks /\ goal \in Blocks
  /\ tip \in [Indexes -> Blocks \cup {Zero, None}]
  /\ dropping \subseteq Indexes
  /\ enabled \in Configs
  /\ curBlockID \in Int /\ failures \in 0 .. MaxFailures /\ starts \in 0 .. MaxStarts
  /\ pc \in {"off", "drop", "collect", "delete", "bucket", "blockids", "last", "create",
             "init", "walk", "run", "failed", "panicked"}

\* A database with the genesis block and no index.
Init ==
  /\ best = Genesis /\ goal = Genesis
  /\ tip = [i \in Indexes |-> None]
  /\ dropping = {}
  /\ data = [x \in {} |-> NoKeys]
  /\ enabled = <<>> /\ curBlockID = 0
  /\ pc = "off"
  /\ drops = <<>> /\ todo = <<>>
  /\ failures = 0 /\ starts = 0

\* The start of the node.  Init of the manager does nothing without indexes, and
\* maybeFinishDrops looks for marked indexes among those that are enabled.
Start(indexes) ==
  LET marked == In(indexes, dropping) IN
  /\ pc = "off" /\ starts < MaxStarts /\ starts' = starts + 1
  /\ enabled' = indexes
  /\ drops' = marked
  /\ pc' = CASE indexes = <<>> -> "run"
             [] indexes # <<>> /\ marked # <<>> -> "drop"
             [] OTHER -> "create"
  /\ UNCHANGED <<chainVars, tip, dropping, data, curBlockID, todo, failures>>

\* A start with --droptxindex, --dropaddrindex or --dropcfindex.
StartDrop(indexes) ==
  /\ pc = "off" /\ starts < MaxStarts /\ starts' = starts + 1
  /\ drops' = indexes /\ pc' = "drop"
  /\ UNCHANGED <<chainVars, tip, dropping, data, enabled, curBlockID, todo, failures>>

\* The process ends; what it keeps in memory is lost.
Stop ==
  /\ pc # "off"
  /\ pc' = "off" /\ goal' = best
  /\ enabled' = <<>> /\ curBlockID' = 0 /\ drops' = <<>> /\ todo' = <<>>
  /\ UNCHANGED <<best, tip, dropping, data, failures, starts>>

-----------------------------------------------------------------------------
\* dropIndex, one action per database transaction.

Dropped == Head(drops)
\* What follows the last drop: the rest of Init, or the end of the process.
AfterDrops(rest) ==
  IF rest # <<>> THEN "drop" ELSE IF enabled # <<>> THEN "create" ELSE "off"

\* The index is skipped if it has no tip; else the drop is marked.
DropMark ==
  /\ pc = "drop"
  /\ \/ /\ tip[Dropped] = None
        /\ drops' = Tail(drops) /\ pc' = AfterDrops(Tail(drops))
        /\ UNCHANGED dropping
     \/ /\ tip[Dropped] # None
        /\ dropping' = dropping \cup {Dropped} /\ pc' = "collect"
        /\ UNCHANGED drops
  /\ UNCHANGED <<chainVars, tip, data, enabled, curBlockID, todo, failures, starts>>

\* The buckets are collected from the top one, which is used without a check for nil.
DropCollect ==
  /\ pc = "collect"
  /\ IF SubBuckets[Dropped][1] \in DOMAIN data
     THEN /\ todo' = Reverse(In(SubBuckets[Dropped], DOMAIN data))
          /\ pc' = "delete"
     ELSE pc' = "panicked" /\ UNCHANGED todo
  /\ UNCHANGED <<chainVars, tip, dropping, data, enabled, curBlockID, drops, failures, starts>>

\* A transaction deletes up to maxDeletions entries, in the order of their keys.
\* There is another one when it deleted that many.
DropEntries ==
  /\ pc = "delete"
  /\ LET keys == DOMAIN data[Head(todo)]
         num == Min({MaxDeletions, Cardinality(keys)})
     IN /\ data' = Delete(data, Head(todo), CHOOSE K \in kSubset(num, keys) : TRUE)
        /\ pc' = IF num = MaxDeletions THEN "delete" ELSE "bucket"
  /\ UNCHANGED <<chainVars, tip, dropping, enabled, curBlockID, dropVars, failures, starts>>

DropBucket ==
  /\ pc = "bucket"
  /\ data' = Restrict(data, DOMAIN data \ {Head(todo)})
  /\ todo' = Tail(todo)
  /\ pc' = CASE todo' # <<>> -> "delete"
             [] todo' = <<>> /\ Dropped = "tx" -> "blockids"
             [] OTHER -> "last"
  /\ UNCHANGED <<chainVars, tip, dropping, enabled, curBlockID, drops, failures, starts>>

dropBlockIDIndex ==
  /\ pc = "blockids"
  /\ IF BlockIDBuckets \subseteq DOMAIN data
     THEN data' = Restrict(data, DOMAIN data \ BlockIDBuckets) /\ pc' = "last"
     ELSE pc' = "failed" /\ UNCHANGED data
  /\ UNCHANGED <<chainVars, tip, dropping, enabled, curBlockID, dropVars, failures, starts>>

DropLast ==
  /\ pc = "last"
  /\ tip' = [tip EXCEPT ![Dropped] = None]
  /\ dropping' = dropping \ {Dropped}
  /\ drops' = Tail(drops) /\ pc' = AfterDrops(Tail(drops))
  /\ UNCHANGED <<chainVars, data, enabled, curBlockID, todo, failures, starts>>

-----------------------------------------------------------------------------
\* Manager.Init after the drops.  The chain does not move before it ends.

\* maybeCreateIndexes, in one transaction; then the Init of every index.
CreateIndexes ==
  LET new == {i \in Indexes : IsEnabled(i) /\ tip[i] = None}
      buckets == UNION {Created[i] : i \in new}
  IN /\ pc = "create"
     /\ IF buckets \cap DOMAIN data = {}
        THEN /\ data' = [x \in buckets |-> NoKeys] @@ data
             /\ tip' = [i \in Indexes |-> IF i \in new THEN Zero ELSE tip[i]]
             /\ pc' = "init"
        ELSE pc' = "failed" /\ UNCHANGED <<tip, data>>
     /\ UNCHANGED <<chainVars, dropping, enabled, curBlockID, dropVars, failures, starts>>

InitIndexes ==
  /\ pc = "init"
  /\ curBlockID' = IF IsEnabled("tx") THEN TxIndexInit(DOMAIN data["hashByID"]) ELSE 0
  /\ pc' = "walk"
  /\ UNCHANGED <<chainVars, tip, dropping, data, enabled, dropVars, failures, starts>>

Orphaned == {k \in DOMAIN enabled :
               tip[enabled[k]] # Zero /\ ~MainChainHasBlock(tip[enabled[k]])}
WalkBack ==
  LET i == enabled[Max(Orphaned)]
      r == dbIndexDisconnectBlock(i, data, curBlockID, tip[i])
  IN /\ pc = "walk" /\ Orphaned # {}
     /\ IF FetchSpendJournalOK(tip[i]) /\ r.ok
        THEN /\ data' = r.data /\ curBlockID' = r.cur
             /\ tip' = [tip EXCEPT ![i] = Prev(tip[i])]
             /\ UNCHANGED pc
        ELSE pc' = "failed" /\ UNCHANGED <<tip, data, curBlockID>>
     /\ UNCHANGED <<chainVars, dropping, enabled, dropVars, failures, starts>>

\* The indexes catch up height by height, in their order, one block of one index
\* per transaction.
TipHeight(i) == IF tip[i] = Zero THEN -1 ELSE Height[tip[i]]
CatchUp ==
  LET lowest == Min({TipHeight(enabled[k]) : k \in DOMAIN enabled})
      i == enabled[Min({k \in DOMAIN enabled : TipHeight(enabled[k]) = lowest})]
      b == PathTo[best][lowest + 2]
      r == dbIndexConnectBlock(i, data, curBlockID, b)
  IN /\ pc = "walk" /\ Orphaned = {}
     /\ IF lowest = Height[best] THEN pc' = "run" /\ UNCHANGED <<tip, data, curBlockID>>
        ELSE IF r.ok THEN /\ data' = r.data /\ curBlockID' = r.cur
                          /\ tip' = [tip EXCEPT ![i] = b]
                          /\ UNCHANGED pc
        ELSE pc' = "failed" /\ UNCHANGED <<tip, data, curBlockID>>
     /\ UNCHANGED <<chainVars, dropping, enabled, dropVars, failures, starts>>

-----------------------------------------------------------------------------
\* The chain, of which BlockChain is the model.  It moves to a heavier branch one
\* block, and one database transaction, at a time; the indexes move with it.

Choose(b) ==
  /\ pc = "run" /\ goal = best /\ Height[b] > Height[best]
  /\ goal' = b
  /\ UNCHANGED <<best, tip, dropping, data, enabled, curBlockID, pc, dropVars, failures, starts>>

\* The transaction commits, or fails and takes the chain's error path.  What it
\* changed in memory stays.
Moves(r, b) ==
  /\ curBlockID' = r.cur
  /\ \/ /\ r.ok
        /\ best' = b /\ data' = r.data
        /\ tip' = [i \in Indexes |-> IF IsEnabled(i) THEN b ELSE tip[i]]
        /\ UNCHANGED <<goal, failures>>
     \/ /\ failures < MaxFailures \/ ~r.ok
        /\ goal' = best /\ failures' = failures + (IF r.ok THEN 1 ELSE 0)
        /\ UNCHANGED <<best, data, tip>>
  /\ UNCHANGED <<dropping, enabled, pc, dropVars, starts>>

disconnectBlock ==
  /\ pc = "run" /\ goal # best /\ ~Contains(PathTo[goal], best)
  /\ Moves(DisconnectBlock(best), Parent[best])

connectBlock ==
  /\ pc = "run" /\ goal # best /\ Contains(PathTo[goal], best)
  /\ LET b == PathTo[goal][Height[best] + 2] IN Moves(ConnectBlock(b), b)

Next ==
  \/ \E indexes \in Configs : Start(indexes)
  \/ \E indexes \in {<<"addr", "tx">>, <<"addr">>, <<"cf">>} : StartDrop(indexes)
  \/ Stop
  \/ DropMark \/ DropCollect \/ DropEntries \/ DropBucket \/ dropBlockIDIndex \/ DropLast
  \/ CreateIndexes \/ InitIndexes \/ WalkBack \/ CatchUp
  \/ \E b \in Blocks : Choose(b)
  \/ disconnectBlock \/ connectBlock

Spec == Init /\ [][Next]_vars

-----------------------------------------------------------------------------
Confirmed == PathTo[best]
Resolves(id, b) == id \in DOMAIN data["hashByID"] /\ data["hashByID"][id] = b

\* A page of an address is the same whether all levels are read or, newest first,
\* only as many as hold it.
PagesRead(lv, all) ==
  \A skip \in 0 .. 1, count \in 1 .. 2, reverse \in BOOLEAN :
    dbFetchAddrIndexEntries(lv, skip, count, reverse).regions
      = SubSeq(IF reverse THEN Reverse(all) ELSE all, skip + 1, Min({skip + count, Len(all)}))


=============================================================================
