------------------------------- MODULE Ffldb -------------------------------
(***************************************************************************)
(* The database of package ffldb.  Blocks are appended to flat files; their *)
(* locations, the end of the last one and everything else is metadata in     *)
(* leveldb, below a cache of committed transactions that have not been       *)
(* written yet.  One write transaction and any number of read transactions   *)
(* are active at a time.  Files and leveldb are separate: a transaction      *)
(* writes its blocks first, and after a stop reconcileDB rolls the files     *)
(* back to where the metadata says they end.                                 *)
(***************************************************************************)
EXTENDS Integers, Sequences, FiniteSets

CONSTANTS
  Keys, Vals,        \* the metadata
  Blocks,            \* blocks that may be stored
  Size,              \* length of a block's record in its file
  MaxBlockFileSize,  \* maxBlockFileSize
  MaxFile,           \* bound on the number of files
  Readers,           \* the goroutines that open read transactions
  WriteLoc,          \* writeLocKeyName
  MaxFaults,         \* bound on stops and I/O errors
  PowerLoss,         \* whether a stop may lose file data that was not synced
  Nil

FileNums == 0 .. MaxFile
Cells == FileNums \X (0 .. MaxBlockFileSize - 1)
Locs == [file : FileNums, off : 0 .. MaxBlockFileSize]
DbKeys == Keys \cup Blocks \cup {WriteLoc}
DbVals == Vals \cup Locs \cup {Nil}
States == [DbKeys -> DbVals]
Layers == [keys : States, remove : SUBSET DbKeys]

\* A record fits in a file.
ASSUME SizeAssumption ==
  /\ MaxBlockFileSize \in Nat \ {0} /\ MaxFile \in Nat /\ MaxFaults \in Nat
  /\ Size \in [Blocks -> 1 .. MaxBlockFileSize]

\* Keys, blocks and the key of the write cursor are different things, and nil
\* is neither a value nor a location.
ASSUME NamesAssumption ==
  /\ Keys \cap Blocks = {} /\ WriteLoc \notin Keys \cup Blocks
  /\ Nil \notin Vals \cup Locs \cup (Blocks \X Nat)

VARIABLES
  \* leveldb and the cache
  ldb,         \* the entries of leveldb
  cache,       \* cachedKeys and cachedRemove
  \* the flat files
  data,        \* the cells of the files
  flen,        \* the length of each file, -1 where there is none
  synced,      \* the length that is known to be on the disk
  \* the block store
  cursor,      \* writeCursor: file and offset of the next write
  fileOpen,    \* writeCursor.curFile.file # nil
  \* the write transaction
  pc,          \* where the writer is
  pending,     \* pendingKeys and pendingRemove
  blocks,      \* pendingBlockData
  old,         \* oldBlkFileNum and oldBlkOffset
  \* the read transactions
  rpc,         \* where each reader is
  snapshot,    \* its dbSnapshot and its roots of the cache
  seen,        \* what was committed at some time since it began
  faults

meta == <<ldb, cache>>
files == <<data, flen, synced>>
store == <<cursor, fileOpen>>
txn == <<pending, blocks, old>>
reads == <<rpc, snapshot, seen>>
vars == <<meta, files, store, pc, txn, reads, faults>>

----------------------------------------------------------------------------
(* Layers of pending changes. *)

Empty == [keys |-> [k \in DbKeys |-> Nil], remove |-> {}]

\* Get and Has, at every level: removals first, then additions, then what is
\* below.  commitTreaps puts and then deletes, with the same result.
Over(l, base) ==
  [k \in DbKeys |-> IF k \in l.remove THEN Nil
                    ELSE IF l.keys[k] # Nil THEN l.keys[k] ELSE base[k]]

\* putKey and deleteKey.
PutKey(l, k, v) == [keys |-> [l.keys EXCEPT ![k] = v], remove |-> l.remove \ {k}]
DeleteKey(l, k) == [keys |-> [l.keys EXCEPT ![k] = Nil], remove |-> l.remove \cup {k}]

\* Faulty variant of ApplyTx: a key that is added stays among the removed ones.
ApplyTxKeepsRemoved(c, t) ==
  [keys |-> [k \in DbKeys |-> IF k \in t.remove THEN Nil
                              ELSE IF t.keys[k] # Nil THEN t.keys[k] ELSE c.keys[k]],
   remove |-> c.remove \cup t.remove]

\* commitTx: the transaction's additions, then its removals, enter the cache.
ApplyTx(c, t) ==
  [keys |-> [k \in DbKeys |-> IF k \in t.remove THEN Nil
                              ELSE IF t.keys[k] # Nil THEN t.keys[k] ELSE c.keys[k]],
   remove |-> (c.remove \ {k \in DbKeys : t.keys[k] # Nil}) \cup t.remove]

\* What a transaction that begins now sees.
Committed == Over(cache, ldb)

----------------------------------------------------------------------------
(* The flat files. *)

Before(p, q) == p.file < q.file \/ (p.file = q.file /\ p.off <= q.off)

\* Where writeBlock puts the next record.
Position(b) ==
  IF cursor.off + Size[b] > MaxBlockFileSize
  THEN [file |-> cursor.file + 1, off |-> 0] ELSE cursor

\* The files after the first n cells of a block's record were written at p.
Written(b, p, n) ==
  [c \in Cells |-> IF c[1] = p.file /\ c[2] >= p.off /\ c[2] < p.off + n
                   THEN <<b, c[2] - p.off>> ELSE data[c]]
Lengthened(p, n) ==
  [flen EXCEPT ![p.file] = IF @ < p.off + n THEN p.off + n ELSE @]

\* What is left of the files when their lengths change.
Trimmed(len) == [c \in Cells |-> IF c[2] < len[c[1]] THEN data[c] ELSE Nil]
SyncedIn(len) == [f \in FileNums |-> IF synced[f] < len[f] THEN synced[f] ELSE len[f]]

\* readBlock returns the block that was written.
Holds(b, p) ==
  \A i \in 0 .. Size[b] - 1 : p.off + i < MaxBlockFileSize /\ data[<<p.file, p.off + i>>] = <<b, i>>

Fault == faults < MaxFaults /\ faults' = faults + 1

----------------------------------------------------------------------------

NoReaders ==
  /\ rpc = [r \in Readers |-> "none"]
  /\ snapshot = [r \in Readers |-> [base |-> [k \in DbKeys |-> Nil], layer |-> Empty]]
  /\ seen = [r \in Readers |-> {}]

\* A database that initDB has just created.
Init ==
  /\ ldb = [k \in DbKeys |-> IF k = WriteLoc THEN [file |-> 0, off |-> 0] ELSE Nil]
  /\ cache = Empty
  /\ data = [c \in Cells |-> Nil]
  /\ flen = [f \in FileNums |-> -1] /\ synced = flen
  /\ cursor = [file |-> 0, off |-> 0] /\ fileOpen = FALSE
  /\ pc = "idle" /\ pending = Empty /\ blocks = <<>> /\ old = cursor
  /\ NoReaders /\ faults = 0

\* Every variable holds what the code's types allow.
TypeOK ==
  /\ ldb \in States /\ cache \in Layers /\ pending \in Layers
  /\ data \in [Cells -> (Blocks \X Nat) \cup {Nil}]
  /\ flen \in [FileNums -> -1 .. MaxBlockFileSize] /\ synced \in [FileNums -> -1 .. MaxBlockFileSize]
  /\ cursor \in Locs /\ old \in Locs /\ fileOpen \in BOOLEAN
  /\ pc \in {"idle", "open", "write", "undo", "sync", "flush", "clear", "direct", "down",
             "reconcile", "corrupt"}
  /\ blocks \in Seq(Blocks)
  /\ rpc \in [Readers -> {"none", "begun", "open"}]
  /\ snapshot \in [Readers -> [base : States, layer : Layers]]
  /\ faults \in 0 .. MaxFaults

----------------------------------------------------------------------------
(* The write transaction. *)

\* transaction.close.
CloseTx(where) ==
  /\ pc' = where /\ pending' = Empty /\ blocks' = <<>>
  /\ old' = [file |-> 0, off |-> 0]

\* begin(true): writeLock admits one write transaction.
Begin ==
  /\ pc = "idle" /\ pc' = "open"
  /\ UNCHANGED <<meta, files, store, txn, reads, faults>>

Put(k, v) ==
  /\ pc = "open" /\ pending' = PutKey(pending, k, v)
  /\ UNCHANGED <<meta, files, store, pc, blocks, old, reads, faults>>

Delete(k) ==
  /\ pc = "open" /\ pending' = DeleteKey(pending, k)
  /\ UNCHANGED <<meta, files, store, pc, blocks, old, reads, faults>>

\* StoreBlock refuses a block that exists or is pending.
StoreBlock(b) ==
  /\ pc = "open"
  /\ Over(pending, Committed)[b] = Nil /\ \A i \in DOMAIN blocks : blocks[i] # b
  /\ blocks' = Append(blocks, b)
  /\ UNCHANGED <<meta, files, store, pc, pending, old, reads, faults>>

Rollback ==
  /\ pc = "open" /\ CloseTx("idle")
  /\ UNCHANGED <<meta, files, store, reads, faults>>

\* Faulty variant of Commit: the rollback point is the metadata on disk.
CommitFromDisk ==
  /\ pc = "open" /\ pc' = "write" /\ old' = ldb[WriteLoc]
  /\ UNCHANGED <<meta, files, store, pending, blocks, reads, faults>>

\* Commit begins: writePendingAndCommit remembers the write cursor.
Commit ==
  /\ pc = "open" /\ pc' = "write" /\ old' = cursor
  /\ UNCHANGED <<meta, files, store, pending, blocks, reads, faults>>

\* writeBlock appends the next block's record, in a new file when the current
\* one is full, which is closed as it is.
WriteBlock ==
  /\ pc = "write" /\ blocks # <<>>
  /\ LET b == Head(blocks)
         p == Position(b)
     IN /\ p.file \in FileNums
        /\ data' = Written(b, p, Size[b]) /\ flen' = Lengthened(p, Size[b])
        /\ cursor' = [p EXCEPT !.off = @ + Size[b]] /\ fileOpen' = TRUE
        /\ pending' = PutKey(pending, b, p)
  /\ blocks' = Tail(blocks)
  /\ UNCHANGED <<meta, synced, pc, old, reads, faults>>

\* An I/O error of writeBlock: some of the record was written, or not even the
\* next file could be opened.
WriteFails ==
  /\ pc = "write" /\ blocks # <<>> /\ Fault
  /\ LET b == Head(blocks)
         p == Position(b)
     IN /\ p.file \in FileNums
        /\ \/ /\ \E n \in 0 .. Size[b] - 1 :
                  /\ data' = Written(b, p, n) /\ flen' = Lengthened(p, n)
                  /\ cursor' = [p EXCEPT !.off = @ + n]
             /\ fileOpen' = TRUE
           \/ /\ p # cursor \/ ~fileOpen
             /\ cursor' = p /\ fileOpen' = FALSE /\ UNCHANGED <<data, flen>>
  /\ pc' = "undo"
  /\ UNCHANGED <<meta, synced, txn, reads>>

\* handleRollback: the newer files are deleted, the old one is truncated and
\* synced.  Any of it may fail; the cursor moves back in any case.
HandleRollback(p) ==
  LET back(f) == f > p.file /\ f <= cursor.file
  IN /\ cursor' = p
     /\ \/ cursor = p /\ UNCHANGED <<files, fileOpen, faults>>
        \/ /\ cursor # p /\ (cursor.file > p.file => flen[cursor.file] # -1)
           /\ flen' = [f \in FileNums |-> IF back(f) THEN -1 ELSE IF f = p.file THEN p.off ELSE flen[f]]
           /\ data' = Trimmed(flen') /\ fileOpen' = TRUE
           /\ \/ synced' = [SyncedIn(flen') EXCEPT ![p.file] = p.off] /\ UNCHANGED faults
              \/ synced' = SyncedIn(flen') /\ Fault
        \/ /\ cursor # p /\ (cursor.file > p.file => flen[cursor.file] # -1) /\ Fault
           /\ \E keep \in p.file .. cursor.file :
                /\ flen' = [f \in FileNums |-> IF back(f) /\ f > keep THEN -1 ELSE flen[f]]
                /\ \/ fileOpen' = (cursor.file = p.file /\ fileOpen)
                   \/ keep = p.file /\ flen[p.file] # -1 /\ fileOpen' = TRUE
           /\ data' = Trimmed(flen') /\ synced' = SyncedIn(flen')
        \/ /\ cursor.file > p.file /\ flen[cursor.file] = -1
           /\ fileOpen' = FALSE /\ UNCHANGED <<files, faults>>

\* writePendingAndCommit undoes its writes and returns the error.
Undo ==
  /\ pc = "undo" /\ HandleRollback(old) /\ CloseTx("idle")
  /\ UNCHANGED <<meta, reads>>

\* A reader that is taking its snapshot notes what is committed meanwhile.
Note == seen' = [r \in Readers |-> IF rpc[r] = "begun" THEN seen[r] \cup {Committed'} ELSE seen[r]]

\* All blocks are written: the cursor becomes part of the metadata, and
\* commitTx puts the changes into the cache, unless the cache is due to be
\* flushed, because of its size or the time that passed.
CommitTx ==
  /\ pc = "write" /\ blocks = <<>>
  /\ LET t == PutKey(pending, WriteLoc, cursor)
     IN \/ /\ cache' = ApplyTx(cache, t) /\ CloseTx("idle")
           /\ UNCHANGED ldb /\ Note
        \/ /\ pc' = "sync" /\ pending' = t
           /\ UNCHANGED <<meta, blocks, old, seen>>
  /\ UNCHANGED <<files, store, rpc, snapshot, faults>>

\* flush: syncBlocks on the current write file, when it is open.
SyncBlocks ==
  /\ pc = "sync"
  /\ synced' = IF fileOpen THEN [synced EXCEPT ![cursor.file] = flen[cursor.file]] ELSE synced
  /\ pc' = "flush"
  /\ UNCHANGED <<meta, data, flen, store, txn, reads, faults>>

\* flush: commitTreaps writes the cache to leveldb in one transaction.
Flush ==
  /\ pc = "flush" /\ ldb' = Over(cache, ldb) /\ pc' = "clear"
  /\ UNCHANGED <<cache, files, store, txn, reads, faults>>

\* flush: the cache is emptied.
ClearCache ==
  /\ pc = "clear" /\ cache' = Empty /\ pc' = "direct"
  /\ UNCHANGED <<ldb, files, store, txn, reads, faults>>

\* commitTx: commitTreaps writes the transaction to leveldb.
CommitDirect ==
  /\ pc = "direct" /\ ldb' = Over(pending, ldb) /\ CloseTx("idle")
  /\ UNCHANGED <<cache, files, store, rpc, snapshot, faults>>
  /\ Note

\* An error of the sync or of a leveldb transaction in commitTx, after which
\* writePendingAndCommit leaves the files as they are.
CommitFails ==
  /\ pc \in {"sync", "flush", "direct"} /\ Fault /\ CloseTx("idle")
  /\ UNCHANGED <<meta, files, store, reads>>

----------------------------------------------------------------------------
(* Read transactions. *)

\* Snapshot first takes leveldb's snapshot ...
ReaderBegin(r) ==
  /\ pc \notin {"down", "reconcile", "corrupt"} /\ rpc[r] = "none"
  /\ rpc' = [rpc EXCEPT ![r] = "begun"]
  /\ snapshot' = [snapshot EXCEPT ![r].base = ldb]
  /\ seen' = [seen EXCEPT ![r] = {Committed}]
  /\ UNCHANGED <<meta, files, store, pc, txn, faults>>

\* ... and then the roots of the cache.
ReaderSnapshot(r) ==
  /\ rpc[r] = "begun"
  /\ rpc' = [rpc EXCEPT ![r] = "open"]
  /\ snapshot' = [snapshot EXCEPT ![r].layer = cache]
  /\ UNCHANGED <<meta, files, store, pc, txn, seen, faults>>

ReaderEnd(r) ==
  /\ rpc[r] = "open"
  /\ rpc' = [rpc EXCEPT ![r] = "none"]
  /\ snapshot' = [snapshot EXCEPT ![r] = [base |-> [k \in DbKeys |-> Nil], layer |-> Empty]]
  /\ seen' = [seen EXCEPT ![r] = {}]
  /\ UNCHANGED <<meta, files, store, pc, txn, faults>>

----------------------------------------------------------------------------
(* Close, stop and open. *)

Gone ==
  /\ cache' = Empty /\ CloseTx("down")
  /\ cursor' = [file |-> 0, off |-> 0] /\ fileOpen' = FALSE
  /\ rpc' = [r \in Readers |-> "none"] /\ seen' = [r \in Readers |-> {}]
  /\ snapshot' = [r \in Readers |-> [base |-> [k \in DbKeys |-> Nil], layer |-> Empty]]

\* Close waits for the transactions and flushes the cache.
Close ==
  /\ pc = "idle" /\ \A r \in Readers : rpc[r] = "none"
  /\ \/ /\ synced' = IF fileOpen THEN [synced EXCEPT ![cursor.file] = flen[cursor.file]] ELSE synced
        /\ ldb' = Over(cache, ldb) /\ UNCHANGED faults
     \/ Fault /\ UNCHANGED <<ldb, synced>>
  /\ Gone /\ UNCHANGED <<data, flen>>

\* The process stops.  When the machine does, each file may lose what was
\* written to it after its last sync.
Stop ==
  /\ pc \notin {"down", "corrupt"} /\ Fault /\ Gone
  /\ IF PowerLoss
     THEN /\ flen' \in {len \in [FileNums -> -1 .. MaxBlockFileSize] :
                         \A f \in FileNums : len[f] \in synced[f] .. flen[f]}
          /\ data' = Trimmed(flen')
     ELSE UNCHANGED <<data, flen>>
  /\ UNCHANGED <<ldb, synced>>

\* Faulty variant of ScanBlockFiles: the last file is not noticed.
ScanMissesLast ==
  LET there == {f \in FileNums : \A g \in 0 .. f : flen[g] # -1}
      f == IF Cardinality(there) > 1 THEN Cardinality(there) - 2 ELSE 0
  IN IF there = {} THEN [file |-> 0, off |-> 0] ELSE [file |-> f, off |-> flen[f]]

\* scanBlockFiles: the end of the last of the consecutive files.
ScanBlockFiles ==
  LET there == {f \in FileNums : \A g \in 0 .. f : flen[g] # -1}
      f == CHOOSE n \in there : n + 1 \notin there
  IN IF there = {} THEN [file |-> 0, off |-> 0] ELSE [file |-> f, off |-> flen[f]]

\* openDB: scan the files, ...
OpenDB ==
  /\ pc = "down" /\ pc' = "reconcile" /\ cursor' = ScanBlockFiles
  /\ UNCHANGED <<meta, files, fileOpen, txn, reads, faults>>

\* ... and reconcileDB rolls them back to where the metadata says they end.
ReconcileDB ==
  /\ pc = "reconcile"
  /\ \/ /\ Before(ldb[WriteLoc], cursor)
        /\ HandleRollback(ldb[WriteLoc]) /\ pc' = "idle"
     \/ /\ ~Before(ldb[WriteLoc], cursor)
        /\ pc' = "corrupt" /\ UNCHANGED <<files, store, faults>>
  /\ UNCHANGED <<meta, txn, reads>>

----------------------------------------------------------------------------

Next ==
  \/ Begin \/ Rollback \/ Commit
  \/ \E k \in Keys : Delete(k) \/ \E v \in Vals : Put(k, v)
  \/ \E b \in Blocks : StoreBlock(b)
  \/ WriteBlock \/ WriteFails \/ Undo
  \/ CommitTx \/ SyncBlocks \/ Flush \/ ClearCache \/ CommitDirect \/ CommitFails
  \/ \E r \in Readers : ReaderBegin(r) \/ ReaderSnapshot(r) \/ ReaderEnd(r)
  \/ Close \/ Stop \/ OpenDB \/ ReconcileDB

Spec == Init /\ [][Next]_vars

----------------------------------------------------------------------------
(* What the package promises. *)

\* The contents of the database as a user sees them: of a block, what
\* readBlock finds at its location.
Contents(st) ==
  [k \in Keys \cup Blocks |->
     IF k \in Keys \/ st[k] = Nil THEN st[k] ELSE IF Holds(k, st[k]) THEN k ELSE WriteLoc]

\* What the write transaction sees: the blocks that are not written yet, its
\* other changes, and what was committed before it.
View ==
  [k \in Keys \cup Blocks |->
     IF \E i \in DOMAIN blocks : blocks[i] = k THEN k
     ELSE Contents(Over(pending, Committed))[k]]

\* The database is a durable store: a write transaction takes effect as a whole
\* or not at all, whatever error its commit meets, and a stop leaves the state
\* after some of the commits, in their order, with their blocks.
Store == INSTANCE DurableStore
  WITH view <- View, committed <- Contents(Committed), durable <- Contents(ldb)
IsDurableStore == Store!StoreSpec

\* Every block that leveldb, the cache or the snapshot of a read transaction
\* lists can be read at its location, whatever writePendingAndCommit and
\* handleRollback do to the files meanwhile.
Readable(st) == \A b \in Blocks : st[b] # Nil => Holds(b, st[b])
BlocksReadable ==
  /\ Readable(ldb) /\ Readable(Committed)
  /\ \A r \in Readers : rpc[r] = "open" => Readable(Over(snapshot[r].layer, snapshot[r].base))

\* reconcileDB never finds the files shorter than the metadata says.
NeverCorrupt == pc # "corrupt"

\* The files and the cursor keep within their bounds, and what a stop leaves of
\* them is never taken for corruption by reconcileDB.
FilesSound == TypeOK /\ NeverCorrupt

\* flush: "prevent the case where the metadata contains information about a
\* block which actually hasn't been written yet in unexpected shutdown
\* scenarios": the blocks that leveldb lists are in the synced part of a file.
BlocksSynced ==
  \A b \in Blocks : ldb[b] # Nil => ldb[b].off + Size[b] <= synced[ldb[b].file]

----------------------------------------------------------------------------
(* What a comment of the package says and the code does not do. *)

\* Snapshot returns a snapshot of the cache and the database "at a particular
\* point in time": what was committed at some time while it was taken.
SnapshotAtPoint ==
  \A r \in Readers : rpc[r] = "open" => Over(snapshot[r].layer, snapshot[r].base) \in seen[r]
=============================================================================
