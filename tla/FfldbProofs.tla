----------------------------- MODULE FfldbProofs -----------------------------
(***************************************************************************)
(* Proofs about the database: every listed block can be read, reconcileDB    *)
(* never takes what a stop leaves for corruption, and Ffldb implements the   *)
(* durable store.  They hold for every number of files, readers, keys and    *)
(* faults, as long as the machine does not lose power once a second file is  *)
(* in use.                                                                   *)
(***************************************************************************)
EXTENDS Ffldb, TLAPS

Origin == [file |-> 0, off |-> 0]

\* A record of b at p that the cells d hold, and that ends at q or before.
Stored(d, b, p, q) ==
  /\ p \in Locs
  /\ \A i \in 0 .. Size[b] - 1 : p.off + i < MaxBlockFileSize /\ d[<<p.file, p.off + i>>] = <<b, i>>
  /\ p.file < q.file \/ (p.file = q.file /\ p.off + Size[b] <= q.off)

\* Every block that st has a location for is stored there.
Listed(d, st, q) == \A b \in Blocks : st[b] # Nil => Stored(d, b, st[b], q)

\* The cells below q are the same in d and e.
SameBelow(d, e, q) ==
  \A c \in Cells : c[1] < q.file \/ (c[1] = q.file /\ c[2] < q.off) => e[c] = d[c]

\* The files reach up to p.
Reaches(len, p) ==
  \/ p = Origin
  \/ (\A f \in 0 .. p.file : len[f] # -1) /\ p.off <= len[p.file]

LdbEnd == ldb[WriteLoc]
DbEnd == Committed[WriteLoc]
Running == pc \notin {"down", "reconcile", "corrupt"}

\* Data lies within the length of its file.
Within == \A c \in Cells : data[c] # Nil => c[2] < flen[c[1]]

\* Only keys are ever deleted, and leveldb ends before the cache does.
Ends ==
  /\ cache.remove \subseteq Keys /\ pending.remove \subseteq Keys
  /\ LdbEnd \in Locs /\ DbEnd \in Locs /\ Before(LdbEnd, DbEnd)
  /\ Reaches(flen, LdbEnd) /\ Reaches(flen, DbEnd)

\* What leveldb, the cache and the snapshots list is stored.
AllListed ==
  /\ Listed(data, ldb, LdbEnd) /\ Listed(data, cache.keys, DbEnd)
  /\ \A r \in Readers : /\ Listed(data, snapshot[r].base, DbEnd)
                        /\ Listed(data, snapshot[r].layer.keys, DbEnd)

\* Writes go behind everything that is listed, and so does what is undone.
Cursors ==
  /\ Running => Before(DbEnd, cursor) /\ (pc # "undo" => Reaches(flen, cursor))
  /\ pc \in {"write", "undo"} => Before(DbEnd, old) /\ Before(old, cursor) /\ Reaches(flen, old)
  /\ pc = "reconcile" => Before(LdbEnd, cursor)
  /\ pc # "corrupt"

\* Where the transaction is in its life.
Progress ==
  /\ pc \in {"idle", "open", "down", "reconcile"} => \A b \in Blocks : pending.keys[b] = Nil
  /\ pc \in {"idle", "down", "reconcile"} => pending = Empty /\ blocks = <<>>
  /\ pc \in {"write", "sync", "flush", "clear", "direct"} => Listed(data, pending.keys, cursor)
  /\ pc \in {"sync", "flush", "clear", "direct"} => blocks = <<>> /\ pending.keys[WriteLoc] = cursor
  /\ pc = "clear" => Committed = ldb
  /\ pc \in {"direct", "down", "reconcile"} => cache = Empty

\* A position of the only file whose data a power loss leaves.
Safe(p) == p.off = 0 \/ p.off <= synced[0]

\* What leveldb lists is synced, as long as there is one file.
Synchronised == PowerLoss =>
  /\ synced[0] <= flen[0] /\ Safe(LdbEnd)
  /\ Running => fileOpen \/ Safe(cursor)
  /\ pc \in {"flush", "clear", "direct"} => Safe(cursor)

FfldbInv == TypeOK /\ Within /\ Ends /\ AllListed /\ Cursors /\ Progress /\ Synchronised

----------------------------------------------------------------------------
(* Layers and positions. *)
\* What was synced of a file stays within it while the files grow.
LEMMA LengthsGrow ==
  ASSUME NEW f \in [FileNums -> -1 .. MaxBlockFileSize], NEW g \in [FileNums -> -1 .. MaxBlockFileSize],
         NEW s \in [FileNums -> -1 .. MaxBlockFileSize], NEW n \in FileNums,
         \A m \in FileNums : f[m] <= g[m], s[n] <= f[n]
  PROVE  s[n] <= g[n]
BY SizeAssumption

\* Over yields a state, key by key.
LEMMA OverState ==
  ASSUME NEW l \in Layers, NEW base \in States
  PROVE  /\ Over(l, base) \in States
         /\ \A k \in DbKeys : Over(l, base)[k] = IF k \in l.remove THEN Nil
                              ELSE IF l.keys[k] # Nil THEN l.keys[k] ELSE base[k]
<1>1. l.keys \in States /\ l.remove \subseteq DbKeys
  BY DEF Layers
<1>2. Nil \in DbVals
  BY DEF DbVals
<1>3. QED
  BY <1>1, <1>2 DEF Over, States

\* Two states with the same entries are the same.
LEMMA SameState ==
  ASSUME NEW s \in States, NEW t \in States, \A k \in DbKeys : s[k] = t[k]
  PROVE  s = t
BY DEF States

\* The empty layer changes nothing.
LEMMA OverEmpty ==
  ASSUME NEW base \in States
  PROVE  Empty \in Layers /\ Over(Empty, base) = base
<1>1. Empty \in Layers
  BY DEF Empty, Layers, States, DbVals
<1>2. Over(Empty, base) \in States /\ \A k \in DbKeys : Over(Empty, base)[k] = base[k]
  BY <1>1, OverState DEF Empty
<1>3. QED
  BY <1>1, <1>2, SameState

\* A layer laid over twice: the flush leaves what a transaction sees.
LEMMA OverTwice ==
  ASSUME NEW l \in Layers, NEW base \in States
  PROVE  Over(l, Over(l, base)) = Over(l, base)
<1>1. Over(l, base) \in States
  BY OverState
<1>2. Over(l, Over(l, base)) \in States
  BY <1>1, OverState
<1>3. \A k \in DbKeys : Over(l, Over(l, base))[k] = Over(l, base)[k]
  BY <1>1, OverState
<1>4. QED
  BY <1>1, <1>2, <1>3, SameState

\* commitTx: the transaction in the cache reads like the transaction over it.
LEMMA ApplyOver ==
  ASSUME NEW c \in Layers, NEW t \in Layers, NEW base \in States
  PROVE  ApplyTx(c, t) \in Layers /\ Over(ApplyTx(c, t), base) = Over(t, Over(c, base))
<1>1. c.keys \in States /\ c.remove \subseteq DbKeys /\ t.keys \in States /\ t.remove \subseteq DbKeys
  BY DEF Layers
<1>2. ApplyTx(c, t).keys \in States
  BY <1>1 DEF ApplyTx, States, DbVals
<1>3. ApplyTx(c, t).remove \subseteq DbKeys
  BY <1>1 DEF ApplyTx
<1>4. ApplyTx(c, t) \in Layers
  BY <1>2, <1>3 DEF ApplyTx, Layers
<1>5. \A k \in DbKeys : ApplyTx(c, t).keys[k] = IF k \in t.remove THEN Nil
                        ELSE IF t.keys[k] # Nil THEN t.keys[k] ELSE c.keys[k]
  BY DEF ApplyTx
<1>6. \A k \in DbKeys : k \in ApplyTx(c, t).remove
                         <=> (k \in c.remove /\ t.keys[k] = Nil) \/ k \in t.remove
  BY <1>1 DEF ApplyTx
<1>7. Over(c, base) \in States
  BY OverState
<1>8. ASSUME NEW k \in DbKeys PROVE Over(ApplyTx(c, t), base)[k] = Over(t, Over(c, base))[k]
  <2>1. Over(ApplyTx(c, t), base)[k]
          = IF k \in ApplyTx(c, t).remove THEN Nil
            ELSE IF ApplyTx(c, t).keys[k] # Nil THEN ApplyTx(c, t).keys[k] ELSE base[k]
    BY <1>4, OverState
  <2>2. Over(t, Over(c, base))[k] = IF k \in t.remove THEN Nil
                              ELSE IF t.keys[k] # Nil THEN t.keys[k] ELSE Over(c, base)[k]
    BY <1>7, OverState
  <2>3. Over(c, base)[k] = IF k \in c.remove THEN Nil
                              ELSE IF c.keys[k] # Nil THEN c.keys[k] ELSE base[k]
    BY OverState
  <2>4. QED
    BY <1>5, <1>6, <2>1, <2>2, <2>3
<1>9. Over(ApplyTx(c, t), base) \in States /\ Over(t, Over(c, base)) \in States
  BY <1>4, <1>7, OverState
<1>10. QED
  BY <1>4, <1>8, <1>9, SameState

\* putKey and deleteKey yield layers.
LEMMA PutLayer ==
  ASSUME NEW l \in Layers, NEW k \in DbKeys
  PROVE  /\ \A v \in DbVals : PutKey(l, k, v) \in Layers
         /\ DeleteKey(l, k) \in Layers
BY DEF Layers, States, PutKey, DeleteKey, DbVals

\* The order of positions.
LEMMA BeforeOrder ==
  ASSUME NEW p \in Locs, NEW q \in Locs, NEW r \in Locs
  PROVE  /\ Before(p, p)
         /\ Before(p, q) /\ Before(q, r) => Before(p, r)
         /\ Before(Origin, p) /\ Origin \in Locs
BY SizeAssumption DEF Before, Locs, FileNums, Origin

----------------------------------------------------------------------------
(* Stored blocks. *)

\* What is stored below a position is stored below a later one.
LEMMA ListedLater ==
  ASSUME NEW d, NEW st, NEW p \in Locs, NEW q \in Locs, Before(p, q), Listed(d, st, p)
  PROVE  Listed(d, st, q)
BY SizeAssumption DEF Listed, Stored, Before, Locs, FileNums

\* Cells that stay the same below a position do below an earlier one.
LEMMA SameEarlier ==
  ASSUME NEW d, NEW e, NEW p \in Locs, NEW q \in Locs, Before(p, q), SameBelow(d, e, q)
  PROVE  SameBelow(d, e, p)
BY SizeAssumption DEF SameBelow, Before, Locs, FileNums, Cells

\* A stored block stays readable while the cells below its end stay the same.
LEMMA ListedKept ==
  ASSUME NEW d, NEW e, NEW st, NEW q \in Locs, SameBelow(d, e, q), Listed(d, st, q)
  PROVE  Listed(e, st, q)
<1> SUFFICES ASSUME NEW b \in Blocks, st[b] # Nil PROVE Stored(e, b, st[b], q)
  BY DEF Listed
<1>1. Stored(d, b, st[b], q)
  BY DEF Listed
<1> DEFINE p == st[b]
<1>2. p \in Locs /\ p.file \in FileNums /\ p.off \in 0 .. MaxBlockFileSize /\ Size[b] \in Nat
  BY <1>1, SizeAssumption DEF Stored, Locs
<1>3. ASSUME NEW i \in 0 .. Size[b] - 1
      PROVE  p.off + i < MaxBlockFileSize /\ e[<<p.file, p.off + i>>] = <<b, i>>
  <2>1. p.off + i < MaxBlockFileSize /\ d[<<p.file, p.off + i>>] = <<b, i>>
    BY <1>1 DEF Stored
  <2>2. <<p.file, p.off + i>> \in Cells
    BY <1>2, <2>1, SizeAssumption DEF Cells
  <2>3. p.file < q.file \/ (p.file = q.file /\ p.off + i < q.off)
    BY <1>1, <1>2 DEF Stored, Locs, FileNums
  <2>4. e[<<p.file, p.off + i>>] = d[<<p.file, p.off + i>>]
    BY <2>2, <2>3 DEF SameBelow
  <2>5. QED
    BY <2>1, <2>4
<1>4. QED
  BY <1>1, <1>3 DEF Stored

\* A layer and what is below it list stored blocks, so does the whole.
LEMMA ListedOver ==
  ASSUME NEW d, NEW l \in Layers, NEW base \in States, NEW q,
         Listed(d, l.keys, q), Listed(d, base, q)
  PROVE  Listed(d, Over(l, base), q)
<1>1. \A b \in Blocks : b \in DbKeys
  BY DEF DbKeys
<1>2. QED
  BY <1>1, OverState DEF Listed

\* The same for a transaction that enters the cache.
LEMMA ListedApply ==
  ASSUME NEW d, NEW c \in Layers, NEW t \in Layers, NEW q,
         Listed(d, c.keys, q), Listed(d, t.keys, q)
  PROVE  Listed(d, ApplyTx(c, t).keys, q)
<1>1. \A b \in Blocks : b \in DbKeys
  BY DEF DbKeys
<1>2. QED
  BY <1>1 DEF Listed, ApplyTx

\* A layer without blocks lists nothing.
LEMMA ListedNone ==
  ASSUME NEW d, NEW st, NEW q, \A b \in Blocks : st[b] = Nil
  PROVE  Listed(d, st, q)
BY DEF Listed

\* readBlock finds what is stored.
LEMMA StoredReadable ==
  ASSUME NEW st, NEW q, Listed(data, st, q)
  PROVE  Readable(st)
BY DEF Listed, Stored, Readable, Holds

\* Files that have grown reach as far as before.
LEMMA ReachesLonger ==
  ASSUME NEW len \in [FileNums -> -1 .. MaxBlockFileSize],
         NEW new \in [FileNums -> -1 .. MaxBlockFileSize],
         NEW p \in Locs, \A f \in 0 .. p.file : len[f] <= new[f], Reaches(len, p)
  PROVE  Reaches(new, p)
<1>1. CASE p = Origin
  BY <1>1 DEF Reaches
<1>2. CASE p # Origin
  <2>1. p.file \in FileNums /\ p.off \in Nat
    BY DEF Locs
  <2>2. \A f \in 0 .. p.file : f \in FileNums
    BY <2>1, SizeAssumption DEF FileNums
  <2>3. \A f \in 0 .. p.file : len[f] # -1 /\ len[f] \in Int /\ new[f] \in Int /\ len[f] >= -1
    BY <1>2, <2>2, SizeAssumption DEF Reaches
  <2>4. p.file \in 0 .. p.file
    BY <2>1, SizeAssumption DEF FileNums
  <2>5. p.off <= len[p.file]
    BY <1>2 DEF Reaches
  <2>6. \A f \in 0 .. p.file : new[f] # -1
    BY <2>3
  <2>7. p.off <= new[p.file]
    BY <2>1, <2>3, <2>4, <2>5
  <2>8. QED
    BY <2>6, <2>7 DEF Reaches
<1>3. QED
  BY <1>1, <1>2

\* A record, or the first n cells of it, goes behind the write cursor.
LEMMA Wrote ==
  ASSUME FfldbInv, Reaches(flen, cursor), NEW b \in Blocks, NEW n \in 0 .. Size[b],
         Position(b).file \in FileNums,
         data' = Written(b, Position(b), n), flen' = Lengthened(Position(b), n),
         cursor' = [Position(b) EXCEPT !.off = @ + n]
  PROVE  /\ data' \in [Cells -> (Blocks \X Nat) \cup {Nil}]
         /\ flen' \in [FileNums -> -1 .. MaxBlockFileSize]
         /\ Position(b) \in Locs /\ cursor' \in Locs /\ Before(cursor, cursor')
         /\ cursor'.file = Position(b).file /\ cursor'.off = Position(b).off + n
         /\ SameBelow(data, data', cursor) /\ Within' /\ Reaches(flen', cursor')
         /\ \A f \in FileNums : flen[f] <= flen'[f]
         /\ n = Size[b] => Stored(data', b, Position(b), cursor')
<1> DEFINE p == Position(b)
<1>1. /\ cursor \in Locs /\ cursor.file \in Nat /\ cursor.off \in 0 .. MaxBlockFileSize
      /\ cursor.file \in FileNums
      /\ Size[b] \in 1 .. MaxBlockFileSize /\ n \in Nat /\ n <= Size[b]
      /\ MaxBlockFileSize \in Nat /\ MaxFile \in Nat
  BY SizeAssumption DEF FfldbInv, TypeOK, Locs, FileNums
<1>2. p \in Locs /\ p.file \in FileNums /\ p.off \in Nat /\ p.off + Size[b] <= MaxBlockFileSize
      /\ Before(cursor, p)
  BY <1>1 DEF Position, Locs, Before, FileNums
<1>3. cursor' = [file |-> p.file, off |-> p.off + n]
  BY <1>2 DEF Locs
<1>4. cursor' \in Locs
  BY <1>1, <1>2, <1>3 DEF Locs
<1>5. Before(cursor, cursor')
  BY <1>1, <1>2, <1>3 DEF Before, FileNums
<1>6. flen \in [FileNums -> -1 .. MaxBlockFileSize] /\ data \in [Cells -> (Blocks \X Nat) \cup {Nil}]
  BY DEF FfldbInv, TypeOK
<1>7. \A f \in FileNums : flen'[f] = IF f = p.file /\ flen[f] < p.off + n THEN p.off + n ELSE flen[f]
  BY <1>2, <1>6 DEF Lengthened
<1>8. flen' \in [FileNums -> -1 .. MaxBlockFileSize]
  <2>1. p.off + n \in -1 .. MaxBlockFileSize
    BY <1>1, <1>2
  <2>2. QED
    BY <1>2, <1>6, <2>1 DEF Lengthened
<1>9. \A f \in FileNums : flen[f] <= flen'[f]
  BY <1>1, <1>2, <1>6, <1>7
<1>10. \A c \in Cells : data'[c] = IF c[1] = p.file /\ c[2] >= p.off /\ c[2] < p.off + n
                                    THEN <<b, c[2] - p.off>> ELSE data[c]
  BY DEF Written
<1>11. \A c \in Cells : c[1] \in FileNums /\ c[2] \in Nat
  BY <1>1 DEF Cells
<1>12. data' \in [Cells -> (Blocks \X Nat) \cup {Nil}]
  <2>1. \A c \in Cells : data'[c] \in (Blocks \X Nat) \cup {Nil}
    <3> TAKE c \in Cells
    <3>1. data[c] \in (Blocks \X Nat) \cup {Nil}
      BY <1>6
    <3>2. ASSUME c[2] >= p.off PROVE <<b, c[2] - p.off>> \in Blocks \X Nat
      BY <1>2, <1>11, <3>2
    <3>3. QED
      BY <1>10, <3>1, <3>2
  <2>2. data' = [c \in Cells |-> data'[c]]
    BY DEF Written
  <2>3. QED
    BY <2>1, <2>2
<1>13. SameBelow(data, data', cursor)
  <2> SUFFICES ASSUME NEW c \in Cells, c[1] < cursor.file \/ (c[1] = cursor.file /\ c[2] < cursor.off)
               PROVE  data'[c] = data[c]
    BY DEF SameBelow
  <2>1. ~(c[1] = p.file /\ c[2] >= p.off)
    BY <1>1, <1>2, <1>11 DEF Before, FileNums
  <2>2. QED
    BY ZenonT(40), <1>10, <2>1
<1>14. Within'
  <2> SUFFICES ASSUME NEW c \in Cells, data'[c] # Nil PROVE c[2] < flen'[c[1]]
    BY DEF Within
  <2>1. CASE c[1] = p.file /\ c[2] >= p.off /\ c[2] < p.off + n
    BY <1>1, <1>2, <1>6, <1>7, <1>11, <2>1
  <2>2. CASE ~(c[1] = p.file /\ c[2] >= p.off /\ c[2] < p.off + n)
    <3>1. c[2] < flen[c[1]]
      BY ZenonT(40), <1>10, <2>2 DEF FfldbInv, Within
    <3>2. flen[c[1]] \in Int /\ flen'[c[1]] \in Int /\ flen[c[1]] <= flen'[c[1]]
      BY <1>1, <1>6, <1>8, <1>9, <1>11
    <3>3. QED
      BY <1>11, <3>1, <3>2
  <2>3. QED
    BY <2>1, <2>2
<1>15. Reaches(flen', cursor')
  <2>1. p.off + n <= flen'[p.file] /\ flen'[p.file] # -1
    BY <1>1, <1>2, <1>6, <1>7
  <2>2. ASSUME NEW f \in 0 .. p.file, f # p.file PROVE flen'[f] # -1
    <3>1. f \in FileNums /\ f \in Nat /\ f < p.file /\ p.file \in Nat
      BY <1>1, <1>2, <2>2 DEF FileNums
    <3>2. cursor # Origin
      BY <1>1, <2>2, <3>1 DEF Position, Origin
    <3>3. f \in 0 .. cursor.file
      BY <1>1, <3>1 DEF Position
    <3>4. flen[f] # -1
      BY <3>2, <3>3 DEF Reaches
    <3>5. QED
      BY <1>1, <1>6, <1>7, <3>1, <3>4
  <2>3. QED
    BY <1>3, <2>1, <2>2 DEF Reaches
<1>16. ASSUME n = Size[b] PROVE Stored(data', b, p, cursor')
  <2>1. ASSUME NEW i \in 0 .. Size[b] - 1
        PROVE  p.off + i < MaxBlockFileSize /\ data'[<<p.file, p.off + i>>] = <<b, i>>
    <3>1. i \in Nat /\ i < Size[b] /\ p.off + i < MaxBlockFileSize
      BY <1>1, <1>2
    <3>2. <<p.file, p.off + i>> \in Cells
      BY <1>1, <1>2, <3>1 DEF Cells
    <3>3. p.off + i >= p.off /\ p.off + i < p.off + n /\ (p.off + i) - p.off = i
      BY <1>1, <1>2, <1>16, <3>1
    <3>4. QED
      BY ZenonT(40), <1>10, <3>1, <3>2, <3>3
  <2>2. QED
    BY <1>1, <1>2, <1>3, <1>16, <2>1 DEF Stored
<1>17. QED
  BY <1>2, <1>3, <1>4, <1>5, <1>8, <1>9, <1>12, <1>13, <1>14, <1>15, <1>16

\* What a write that failed leaves in the files.
LEMMA FailedWrite ==
  ASSUME FfldbInv, WriteFails
  PROVE  /\ data' \in [Cells -> (Blocks \X Nat) \cup {Nil}]
         /\ flen' \in [FileNums -> -1 .. MaxBlockFileSize]
         /\ cursor' \in Locs /\ Before(cursor, cursor') /\ fileOpen' \in BOOLEAN
         /\ SameBelow(data, data', cursor) /\ Within'
         /\ \A f \in FileNums : flen[f] <= flen'[f]
<1> DEFINE b == Head(blocks)
           p == Position(b)
<1>1. /\ pc = "write" /\ blocks # <<>> /\ p.file \in FileNums /\ pc' = "undo" /\ Fault
      /\ UNCHANGED <<meta, synced, txn, reads>>
      /\ \/ /\ \E n \in 0 .. Size[b] - 1 :
                  /\ data' = Written(b, p, n) /\ flen' = Lengthened(p, n)
                  /\ cursor' = [p EXCEPT !.off = @ + n]
            /\ fileOpen' = TRUE
         \/ /\ p # cursor \/ ~fileOpen
            /\ cursor' = p /\ fileOpen' = FALSE /\ UNCHANGED <<data, flen>>
  BY DEF WriteFails
<1>2. b \in Blocks
  BY <1>1 DEF FfldbInv, TypeOK
<1>3. /\ Running /\ Reaches(flen, cursor) /\ Before(DbEnd, cursor) /\ cursor \in Locs /\ DbEnd \in Locs
      /\ pending.remove \subseteq Keys /\ old \in Locs /\ synced \in [FileNums -> -1 .. MaxBlockFileSize]
      /\ Before(DbEnd, old) /\ Before(old, cursor) /\ Reaches(flen, old)
      /\ data \in [Cells -> (Blocks \X Nat) \cup {Nil}] /\ flen \in [FileNums -> -1 .. MaxBlockFileSize]
      /\ faults \in 0 .. MaxFaults /\ Within
  BY <1>1 DEF FfldbInv, TypeOK, Cursors, Running, Ends
<1>4. /\ data' \in [Cells -> (Blocks \X Nat) \cup {Nil}]
      /\ flen' \in [FileNums -> -1 .. MaxBlockFileSize]
      /\ cursor' \in Locs /\ Before(cursor, cursor') /\ fileOpen' \in BOOLEAN
      /\ SameBelow(data, data', cursor) /\ Within'
      /\ \A f \in FileNums : flen[f] <= flen'[f]
  <2>1. CASE \E n \in 0 .. Size[b] - 1 :
                  /\ data' = Written(b, p, n) /\ flen' = Lengthened(p, n)
                  /\ cursor' = [p EXCEPT !.off = @ + n] /\ fileOpen' = TRUE
    <3>1. PICK n \in 0 .. Size[b] - 1 :
                  /\ data' = Written(b, p, n) /\ flen' = Lengthened(p, n)
                  /\ cursor' = [p EXCEPT !.off = @ + n] /\ fileOpen' = TRUE
      BY <2>1
    <3>2. n \in 0 .. Size[b]
      BY <1>2, SizeAssumption
    <3>3. QED
      BY ZenonT(40), <1>1, <1>2, <1>3, <3>1, <3>2, Wrote
  <2>2. CASE cursor' = p /\ fileOpen' = FALSE /\ UNCHANGED <<data, flen>>
    <3>0. /\ cursor.file \in Nat /\ cursor.off \in 0 .. MaxBlockFileSize /\ MaxBlockFileSize \in Nat
          /\ Size[b] \in Nat /\ cursor = [file |-> cursor.file, off |-> cursor.off]
      <4>1. cursor \in Locs /\ Size[b] \in 1 .. MaxBlockFileSize
        BY <1>2, <1>3, SizeAssumption
      <4>2. QED
        BY <4>1, SizeAssumption DEF Locs, FileNums
    <3>1. p \in Locs /\ Before(cursor, p)
      BY <1>1, <1>3, <3>0 DEF Position, Locs, Before
    <3>2. SameBelow(data, data', cursor)
      BY <2>2 DEF SameBelow
    <3>3. Within'
      BY <1>3, <2>2 DEF Within
    <3>4. \A f \in FileNums : flen[f] <= flen[f]
      BY <1>3, SizeAssumption
    <3>5. QED
      BY ZenonT(40), <1>3, <2>2, <3>1, <3>2, <3>3, <3>4
  <2>3. QED
    BY ZenonT(40), <1>1, <2>1, <2>2
<1>5. QED
  BY <1>4

\* The write cursor becomes part of the transaction.
LEMMA CursorPut ==
  ASSUME NEW d, NEW l \in Layers, NEW p \in Locs, NEW q, l.remove \subseteq Keys, Listed(d, l.keys, q)
  PROVE  LET t == PutKey(l, WriteLoc, p)
         IN /\ t \in Layers /\ t.remove \subseteq Keys /\ t.keys[WriteLoc] = p /\ WriteLoc \notin t.remove
            /\ Listed(d, t.keys, q) /\ \A k \in Keys \cup Blocks : t.keys[k] = l.keys[k]
            /\ \A k \in Keys \cup Blocks : k \in t.remove <=> k \in l.remove
<1> DEFINE t == PutKey(l, WriteLoc, p)
<1>1. WriteLoc \in DbKeys /\ p \in DbVals /\ l.keys \in States
  BY DEF DbKeys, DbVals, Layers
<1>2. t \in Layers
  BY <1>1, PutLayer
<1>3. t.keys = [l.keys EXCEPT ![WriteLoc] = p] /\ t.remove = l.remove \ {WriteLoc}
  BY DEF PutKey
<1>4. \A k \in Keys \cup Blocks : k # WriteLoc /\ k \in DbKeys
  BY NamesAssumption DEF DbKeys
<1>5. t.keys[WriteLoc] = p /\ \A k \in Keys \cup Blocks : t.keys[k] = l.keys[k]
  BY <1>1, <1>3, <1>4 DEF States
<1>6. Listed(d, t.keys, q)
  BY <1>5 DEF Listed
<1>7. QED
  BY <1>2, <1>3, <1>4, <1>5, <1>6

----------------------------------------------------------------------------
(* The durable store. *)

\* The contents of a state whose blocks are all readable: they do not depend on
\* the files any more.
Clean(st) == [k \in Keys \cup Blocks |-> IF k \in Keys \/ st[k] = Nil THEN st[k] ELSE k]

\* The same with blocks bs that are still to be written.
CleanView(bs, st) ==
  [k \in Keys \cup Blocks |-> IF \E i \in DOMAIN bs : bs[i] = k THEN k ELSE Clean(st)[k]]

\* Contents and View, with the files and the transaction as arguments.
ContentsOf(d, st) ==
  [k \in Keys \cup Blocks |->
     IF k \in Keys \/ st[k] = Nil THEN st[k]
     ELSE IF \A i \in 0 .. Size[k] - 1 :
               st[k].off + i < MaxBlockFileSize /\ d[<<st[k].file, st[k].off + i>>] = <<k, i>>
          THEN k ELSE WriteLoc]
ViewOf(d, bs, st) ==
  [k \in Keys \cup Blocks |-> IF \E i \in DOMAIN bs : bs[i] = k THEN k ELSE ContentsOf(d, st)[k]]

\* What is stored is read as it was written.
LEMMA StoredContents ==
  ASSUME NEW d, NEW st, NEW q, Listed(d, st, q)
  PROVE  ContentsOf(d, st) = Clean(st) /\ \A bs : ViewOf(d, bs, st) = CleanView(bs, st)
<1>1. ASSUME NEW k \in Keys \cup Blocks PROVE ContentsOf(d, st)[k] = Clean(st)[k]
  BY DEF ContentsOf, Clean, Listed, Stored
<1>2. ContentsOf(d, st) = Clean(st)
  BY ZenonT(40), <1>1 DEF ContentsOf, Clean
<1>3. QED
  BY <1>2 DEF ViewOf, CleanView

\* Entries outside of the keys and blocks are not part of the contents.
LEMMA SameContents ==
  ASSUME NEW s, NEW t, \A k \in Keys \cup Blocks : s[k] = t[k]
  PROVE  Clean(s) = Clean(t) /\ \A bs : CleanView(bs, s) = CleanView(bs, t)
BY DEF Clean, CleanView

\* Without a transaction the view is what was committed.
LEMMA NoTransaction ==
  ASSUME NEW st \in States
  PROVE  CleanView(<<>>, Over(Empty, st)) = Clean(st)
<1>1. Over(Empty, st) = st
  BY OverEmpty
<1>2. ~ \E i \in DOMAIN <<>> : TRUE
  OBVIOUS
<1>3. \A k \in Keys \cup Blocks : CleanView(<<>>, st)[k] = Clean(st)[k]
  BY <1>2 DEF CleanView
<1>4. CleanView(<<>>, st) = Clean(st)
  BY <1>3 DEF CleanView, Clean
<1>5. QED
  BY <1>1, <1>4

\* The mapped variables in a state of the invariant and in the one after it.
LEMMA Mapped ==
  ASSUME FfldbInv, FfldbInv'
  PROVE  /\ Contents(Committed) = Clean(Committed) /\ Contents(ldb) = Clean(ldb)
         /\ Contents(Committed)' = Clean(Committed') /\ Contents(ldb)' = Clean(ldb')
         /\ pc # "undo" => View = CleanView(blocks, Over(pending, Committed))
         /\ pc' # "undo" => View' = CleanView(blocks', Over(pending', Committed'))
         /\ Committed \in States /\ Committed' \in States
<1>1. ASSUME NEW l \in Layers, NEW base \in States, NEW d, NEW p \in Locs, NEW q \in Locs,
             Before(p, q), Listed(d, base, p), Listed(d, l.keys, q)
      PROVE  Over(l, base) \in States /\ Listed(d, Over(l, base), q)
  BY ZenonT(40), <1>1, OverState, ListedLater, ListedOver
<1>2. /\ Committed \in States /\ Listed(data, Committed, DbEnd) /\ Listed(data, ldb, LdbEnd)
      /\ DbEnd \in Locs /\ cursor \in Locs /\ pending \in Layers
  BY ZenonT(40), <1>1 DEF FfldbInv, TypeOK, Ends, AllListed, Committed
<1>3. /\ Committed' \in States /\ Listed(data', Committed', DbEnd') /\ Listed(data', ldb', LdbEnd')
      /\ DbEnd' \in Locs /\ cursor' \in Locs /\ pending' \in Layers
  BY <1>1 DEF FfldbInv, TypeOK, Ends, AllListed, Committed
<1>4. pc # "undo" => \E q : Listed(data, Over(pending, Committed), q)
  <2>1. CASE pc \in {"write", "sync", "flush", "clear", "direct"}
    <3>1. Listed(data, pending.keys, cursor) /\ Before(DbEnd, cursor)
      BY <2>1 DEF FfldbInv, Progress, Cursors, Running
    <3>2. QED
      BY <1>1, <1>2, <3>1
  <2>2. CASE pc \in {"idle", "open", "down", "reconcile"}
    <3>1. Listed(data, pending.keys, DbEnd)
      BY <2>2, ListedNone DEF FfldbInv, Progress
    <3>2. Listed(data, Over(pending, Committed), DbEnd)
      BY <1>2, <3>1, ListedOver
    <3>3. QED
      BY <3>2
  <2>3. QED
    BY ZenonT(40), <2>1, <2>2 DEF FfldbInv, TypeOK, Cursors
<1>5. pc' # "undo" => \E q : Listed(data', Over(pending', Committed'), q)
  <2>1. CASE pc' \in {"write", "sync", "flush", "clear", "direct"}
    <3>1. Listed(data', pending'.keys, cursor') /\ Before(DbEnd', cursor')
      BY <2>1 DEF FfldbInv, Progress, Cursors, Running
    <3>2. QED
      BY <1>1, <1>3, <3>1
  <2>2. CASE pc' \in {"idle", "open", "down", "reconcile"}
    <3>1. Listed(data', pending'.keys, DbEnd')
      BY <2>2, ListedNone DEF FfldbInv, Progress
    <3>2. Listed(data', Over(pending', Committed'), DbEnd')
      BY ZenonT(40), <1>3, <3>1, ListedOver
    <3>3. QED
      BY <3>2
  <2>3. QED
    BY <2>1, <2>2 DEF FfldbInv, TypeOK, Cursors
<1>6. /\ Contents(Committed) = ContentsOf(data, Committed) /\ Contents(ldb) = ContentsOf(data, ldb)
      /\ View = ViewOf(data, blocks, Over(pending, Committed))
  BY ZenonT(40) DEF Contents, ContentsOf, Holds, View, ViewOf
<1>7. /\ Contents(Committed)' = ContentsOf(data', Committed') /\ Contents(ldb)' = ContentsOf(data', ldb')
      /\ View' = ViewOf(data', blocks', Over(pending', Committed'))
  BY DEF Contents, ContentsOf, Holds, View, ViewOf
<1>8. QED
  BY <1>2, <1>3, <1>4, <1>5, <1>6, <1>7, StoredContents

\* A step of the store, or none.
StoreStep == Store!StoreNext \/ UNCHANGED <<View, Contents(Committed), Contents(ldb)>>

\* Steps that leave the database, the transaction and the blocks in it alone.
LEMMA QuietStep ==
  ASSUME FfldbInv, FfldbInv', UNCHANGED <<ldb, cache, pending, blocks>>, pc # "undo", pc' # "undo"
  PROVE  StoreStep
<1>1. UNCHANGED <<Committed, Over(pending, Committed)>>
  BY DEF Committed
<1>2. QED
  BY <1>1, Mapped DEF StoreStep

\* The readers, whose steps change nothing that the store has.
LEMMA ReaderStep ==
  ASSUME UNCHANGED <<ldb, cache, data, pending, blocks>>
  PROVE  StoreStep
<1>1. UNCHANGED <<Committed, Over(pending, Committed)>>
  BY ZenonT(40) DEF Committed
<1>2. UNCHANGED <<View, Contents(Committed), Contents(ldb)>>
  BY <1>1 DEF View, Contents, Holds
<1>3. QED
  BY <1>2 DEF StoreStep

\* A write that fails leaves what the transaction sees.
LEMMA WriteFailsStep ==
  ASSUME FfldbInv, FfldbInv', WriteFails
  PROVE  StoreStep
<1>1. pc = "write" /\ UNCHANGED <<ldb, cache, pending, blocks>>
  BY DEF WriteFails, meta, txn
<1>2. UNCHANGED <<Committed, Over(pending, Committed)>>
  BY ZenonT(40), <1>1 DEF Committed
<1>3. /\ cursor \in Locs /\ DbEnd \in Locs /\ Before(DbEnd, cursor) /\ Listed(data, pending.keys, cursor)
      /\ pending \in Layers /\ cache \in Layers /\ ldb \in States /\ LdbEnd \in Locs /\ Before(LdbEnd, DbEnd)
  BY ZenonT(40), <1>1 DEF FfldbInv, TypeOK, Ends, Cursors, Running, Progress
<1>4. Committed \in States /\ Listed(data, Committed, DbEnd)
  <2>1. Listed(data, ldb, DbEnd)
    BY ZenonT(40), <1>3, ListedLater DEF FfldbInv, AllListed
  <2>2. QED
    BY ZenonT(40), <1>3, <2>1, OverState, ListedOver DEF FfldbInv, AllListed, Committed
<1>5. Listed(data, Over(pending, Committed), cursor)
  <2>1. Listed(data, Committed, cursor)
    BY <1>3, <1>4, ListedLater
  <2>2. QED
    BY <1>3, <1>4, <2>1, ListedOver
<1>6. Listed(data', Over(pending, Committed), cursor)
  BY <1>3, <1>5, FailedWrite, ListedKept
<1>7. View = CleanView(blocks, Over(pending, Committed))
  BY <1>1, Mapped
<1>8. View' = ViewOf(data', blocks', Over(pending', Committed'))
  BY DEF Contents, ContentsOf, Holds, View, ViewOf
<1>9. View' = View
  BY <1>1, <1>2, <1>6, <1>7, <1>8, StoredContents
<1>10. QED
  BY <1>1, <1>2, <1>9, Mapped DEF StoreStep

\* An entry of the metadata is set to v, or deleted.
LEMMA PutStep ==
  ASSUME FfldbInv, FfldbInv', NEW k \in Keys,
         Delete(k) \/ \E v \in Vals : Put(k, v)
  PROVE  StoreStep
<1> DEFINE st == Over(pending, Committed)
           st1 == Over(pending', Committed')
<1>1. pc = "open" /\ pc' = "open" /\ UNCHANGED <<ldb, cache, blocks>>
  BY DEF Put, Delete, meta
<1>2. PICK v \in Vals \cup {Nil} :
        /\ pending'.keys = [pending.keys EXCEPT ![k] = v]
        /\ (v = Nil /\ pending'.remove = pending.remove \cup {k})
           \/ (v # Nil /\ pending'.remove = pending.remove \ {k})
  BY NamesAssumption DEF Put, Delete, PutKey, DeleteKey
<1>3. /\ Committed' = Committed /\ Committed \in States /\ pending \in Layers /\ pending' \in Layers
      /\ View = CleanView(blocks, st) /\ View' = CleanView(blocks, st1)
      /\ UNCHANGED <<Contents(Committed), Contents(ldb)>> /\ blocks \in Seq(Blocks)
  BY <1>1, Mapped DEF FfldbInv, TypeOK, Committed
<1>4. /\ Keys \cup Blocks \subseteq DbKeys /\ k \in DbKeys /\ pending.keys \in [DbKeys -> DbVals]
      /\ \A i \in DOMAIN blocks : blocks[i] # k
  <2>1. Keys \cup Blocks \subseteq DbKeys /\ pending.keys \in [DbKeys -> DbVals]
    BY <1>3 DEF DbKeys, Layers, States
  <2>2. \A i \in DOMAIN blocks : blocks[i] \in Blocks
    BY <1>3
  <2>3. QED
    BY <2>1, <2>2, NamesAssumption
<1>5. st1[k] = v /\ \A j \in DbKeys : j # k => st1[j] = st[j]
  <2>1. \A j \in DbKeys : st[j] = IF j \in pending.remove THEN Nil
                          ELSE IF pending.keys[j] # Nil THEN pending.keys[j] ELSE Committed[j]
    BY <1>3, OverState
  <2>2. \A j \in DbKeys : st1[j] = IF j \in pending'.remove THEN Nil
                          ELSE IF pending'.keys[j] # Nil THEN pending'.keys[j] ELSE Committed[j]
    BY <1>3, OverState
  <2>3. pending'.keys[k] = v /\ \A j \in DbKeys : j # k => pending'.keys[j] = pending.keys[j]
    BY <1>2, <1>4
  <2>4. \A j \in DbKeys : j # k => st1[j] = st[j]
    BY ZenonT(40), <1>2, <2>1, <2>2, <2>3
  <2>5. st1[k] = v
    BY ZenonT(40), <1>2, <1>4, <2>2, <2>3
  <2>6. QED
    BY ZenonT(40), <2>4, <2>5
<1> HIDE DEF st, st1
<1>6. \A j \in Keys \cup Blocks : CleanView(blocks, st1)[j] = IF j = k THEN v ELSE CleanView(blocks, st)[j]
  BY <1>4, <1>5 DEF CleanView, Clean
<1>7. CleanView(blocks, st1) = [CleanView(blocks, st) EXCEPT ![k] = v]
  BY ZenonT(40), <1>6 DEF CleanView
<1>8. Store!Change
  BY ZenonT(40), <1>3, <1>7 DEF Store!Change
<1>9. QED
  BY <1>8 DEF StoreStep, Store!StoreNext

\* A block is added to the transaction.
LEMMA StoreBlockStep ==
  ASSUME FfldbInv, FfldbInv', NEW b \in Blocks, StoreBlock(b)
  PROVE  StoreStep
<1> DEFINE st == Over(pending, Committed)
<1>1. /\ pc = "open" /\ pc' = "open" /\ UNCHANGED <<ldb, cache, pending>> /\ blocks' = Append(blocks, b)
      /\ st[b] = Nil /\ \A i \in DOMAIN blocks : blocks[i] # b
  BY ZenonT(40) DEF StoreBlock, meta
<1>2. /\ View = CleanView(blocks, st) /\ View' = CleanView(Append(blocks, b), st)
      /\ UNCHANGED <<Contents(Committed), Contents(ldb)>> /\ blocks \in Seq(Blocks)
  BY ZenonT(40), <1>1, Mapped DEF FfldbInv, TypeOK, Committed
<1> HIDE DEF st
<1>3. \A j : (\E i \in DOMAIN Append(blocks, b) : Append(blocks, b)[i] = j)
             <=> (j = b \/ \E i \in DOMAIN blocks : blocks[i] = j)
  <2>1. /\ DOMAIN blocks = 1 .. Len(blocks) /\ DOMAIN Append(blocks, b) = 1 .. (Len(blocks) + 1)
        /\ Append(blocks, b)[Len(blocks) + 1] = b /\ Len(blocks) \in Nat
        /\ \A i \in 1 .. Len(blocks) : Append(blocks, b)[i] = blocks[i]
    BY <1>2
  <2>2. QED
    BY <2>1
<1>4. \A j \in Keys \cup Blocks :
        CleanView(Append(blocks, b), st)[j] = IF j = b THEN b ELSE CleanView(blocks, st)[j]
  BY <1>3 DEF CleanView
<1>5. CleanView(blocks, st)[b] = Nil
  BY <1>1 DEF CleanView, Clean
<1>6. CleanView(Append(blocks, b), st) = [CleanView(blocks, st) EXCEPT ![b] = b]
  <2>1. \A l, t : CleanView(l, t) = [j \in Keys \cup Blocks |-> CleanView(l, t)[j]]
    BY ZenonT(40) DEF CleanView
  <2>2. b \in Keys \cup Blocks
    OBVIOUS
  <2> DEFINE f == CleanView(blocks, st)
             g == CleanView(Append(blocks, b), st)
  <2>3. /\ f = [j \in Keys \cup Blocks |-> f[j]] /\ g = [j \in Keys \cup Blocks |-> g[j]]
        /\ \A j \in Keys \cup Blocks : g[j] = IF j = b THEN b ELSE f[j]
    BY ZenonT(40), <1>4, <2>1
  <2> HIDE DEF f, g
  <2>4. g = [f EXCEPT ![b] = b]
    BY <2>2, <2>3
  <2>5. QED
    BY <2>4 DEF f, g
<1>7. Store!Change
  BY ZenonT(40), <1>2, <1>5, <1>6 DEF Store!Change
<1>8. QED
  BY <1>7 DEF StoreStep, Store!StoreNext

\* A block moves from those to be written to those that have a location.
LEMMA WriteBlockStep ==
  ASSUME FfldbInv, FfldbInv', WriteBlock
  PROVE  StoreStep
<1> DEFINE st == Over(pending, Committed)
           st1 == Over(pending', Committed')
           b == Head(blocks)
           p == Position(b)
<1>1. /\ pc = "write" /\ pc' = "write" /\ UNCHANGED <<ldb, cache>> /\ blocks # <<>> /\ blocks' = Tail(blocks)
      /\ pending'.keys = [pending.keys EXCEPT ![b] = p] /\ pending'.remove = pending.remove \ {b}
  BY DEF WriteBlock, meta, PutKey
<1>2. /\ Committed' = Committed /\ Committed \in States /\ pending \in Layers /\ pending' \in Layers
      /\ View = CleanView(blocks, st) /\ View' = CleanView(blocks', st1)
      /\ UNCHANGED <<Contents(Committed), Contents(ldb)>> /\ blocks \in Seq(Blocks)
      /\ Listed(data', pending'.keys, cursor')
  BY ZenonT(40), <1>1, Mapped DEF FfldbInv, TypeOK, Committed, Progress
<1>3. b \in Blocks /\ p # Nil
  <2>1. b \in Blocks
    BY <1>1, <1>2
  <2>2. Size[b] \in 0 .. Size[b] /\ Reaches(flen, cursor)
    BY <1>1, <2>1, SizeAssumption DEF FfldbInv, Cursors, Running
  <2>3. /\ p.file \in FileNums /\ data' = Written(b, p, Size[b]) /\ flen' = Lengthened(p, Size[b])
        /\ cursor' = [p EXCEPT !.off = @ + Size[b]]
    BY DEF WriteBlock
  <2>4. p \in Locs
    BY <2>1, <2>2, <2>3, Wrote
  <2>5. QED
    BY ZenonT(40), <2>1, <2>4, NamesAssumption
<1>4. \A j : (\E i \in DOMAIN blocks : blocks[i] = j) <=> (j = b \/ \E i \in DOMAIN Tail(blocks) : Tail(blocks)[i] = j)
  <2>1. /\ Len(blocks) \in Nat \ {0} /\ DOMAIN blocks = 1 .. Len(blocks)
        /\ DOMAIN Tail(blocks) = 1 .. (Len(blocks) - 1) /\ blocks[1] = b
        /\ \A i \in 1 .. (Len(blocks) - 1) : Tail(blocks)[i] = blocks[i + 1]
    BY <1>1, <1>2
  <2> HIDE DEF b
  <2>2. ASSUME NEW i \in DOMAIN blocks, i # 1
        PROVE  i - 1 \in DOMAIN Tail(blocks) /\ Tail(blocks)[i - 1] = blocks[i]
    BY <2>1, <2>2
  <2>3. \A i \in DOMAIN Tail(blocks) : i + 1 \in DOMAIN blocks /\ Tail(blocks)[i] = blocks[i + 1]
    BY <2>1
  <2>4. 1 \in DOMAIN blocks
    BY <2>1
  <2>5. QED
    BY ZenonT(40), <2>1, <2>2, <2>3, <2>4
<1> HIDE DEF p, b
<1>5. st1[b] # Nil /\ \A j \in DbKeys : j # b => st1[j] = st[j]
  <2>1. b \in DbKeys /\ pending.keys \in [DbKeys -> DbVals]
    BY ZenonT(40), <1>2, <1>3 DEF DbKeys, Layers, States
  <2>2. \A j \in DbKeys : st[j] = IF j \in pending.remove THEN Nil
                          ELSE IF pending.keys[j] # Nil THEN pending.keys[j] ELSE Committed[j]
    BY ZenonT(40), <1>2, OverState
  <2>3. \A j \in DbKeys : st1[j] = IF j \in pending'.remove THEN Nil
                          ELSE IF pending'.keys[j] # Nil THEN pending'.keys[j] ELSE Committed[j]
    BY <1>2, OverState
  <2>4. QED
    BY <1>1, <1>3, <2>1, <2>2, <2>3
<1> HIDE DEF st, st1
<1>6. \A j \in Keys \cup Blocks : CleanView(blocks', st1)[j] = CleanView(blocks, st)[j]
  <2>1. b \notin Keys /\ Keys \cup Blocks \subseteq DbKeys
    BY <1>3, NamesAssumption DEF DbKeys
  <2>2. QED
    BY ZenonT(40), <1>1, <1>3, <1>4, <1>5, <2>1 DEF CleanView, Clean
<1>7. CleanView(blocks', st1) = CleanView(blocks, st)
  BY ZenonT(40), <1>6 DEF CleanView
<1>8. QED
  BY <1>2, <1>7 DEF StoreStep

\* A transaction that is abandoned leaves what was committed before it.
LEMMA AbortStep ==
  ASSUME FfldbInv, FfldbInv', CloseTx("idle"), UNCHANGED <<ldb, cache>>
  PROVE  StoreStep
<1>1. pc' = "idle" /\ pending' = Empty /\ blocks' = <<>>
  BY DEF CloseTx
<1>2. Committed' = Committed /\ Contents(ldb)' = Contents(ldb) /\ Contents(Committed)' = Contents(Committed)
      /\ View' = CleanView(<<>>, Over(Empty, Committed)) /\ Committed \in States
      /\ Contents(Committed) = Clean(Committed)
  BY <1>1, Mapped DEF Committed
<1>3. View' = Contents(Committed)
  BY <1>2, NoTransaction
<1>4. Store!Abort
  BY <1>2, <1>3 DEF Store!Abort
<1>5. QED
  BY <1>4 DEF StoreStep, Store!StoreNext

\* The transaction is committed to the cache, or only told the write cursor.
LEMMA CommitTxStep ==
  ASSUME FfldbInv, FfldbInv', CommitTx
  PROVE  StoreStep
<1> DEFINE t == PutKey(pending, WriteLoc, cursor)
<1>1. /\ pc = "write" /\ blocks = <<>>
      /\ \/ cache' = ApplyTx(cache, t) /\ CloseTx("idle") /\ UNCHANGED ldb
         \/ pc' = "sync" /\ pending' = t /\ UNCHANGED <<ldb, cache, blocks>>
  BY ZenonT(40) DEF CommitTx, meta
<1>2. /\ cache \in Layers /\ ldb \in States /\ pending \in Layers /\ pending.remove \subseteq Keys
      /\ cursor \in Locs /\ Listed(data, pending.keys, cursor)
  BY ZenonT(40), <1>1 DEF FfldbInv, TypeOK, Ends, Progress
<1>3. /\ t \in Layers /\ \A k \in Keys \cup Blocks : t.keys[k] = pending.keys[k]
      /\ \A k \in Keys \cup Blocks : k \in t.remove <=> k \in pending.remove
  BY ZenonT(40), <1>2, CursorPut
<1> HIDE DEF t
<1>4. /\ Committed \in States /\ View = CleanView(<<>>, Over(pending, Committed))
      /\ Contents(Committed)' = Clean(Committed') /\ Contents(ldb) = Clean(ldb) /\ Contents(ldb)' = Clean(ldb')
      /\ pc' # "undo" => View' = CleanView(blocks', Over(pending', Committed'))
      /\ Contents(Committed) = Clean(Committed) /\ Committed' \in States
  BY <1>1, Mapped
<1>5. \A k \in Keys \cup Blocks : Over(t, Committed)[k] = Over(pending, Committed)[k]
  <2>1. Keys \cup Blocks \subseteq DbKeys
    BY DEF DbKeys
  <2>2. QED
    BY <1>2, <1>3, <1>4, <2>1, OverState
<1>6. CASE cache' = ApplyTx(cache, t) /\ CloseTx("idle") /\ UNCHANGED ldb
  <2>1. pc' = "idle" /\ pending' = Empty /\ blocks' = <<>>
    BY <1>6 DEF CloseTx
  <2>2. Committed' = Over(t, Committed)
    BY <1>2, <1>3, <1>6, ApplyOver DEF Committed
  <2>3. View' = Clean(Committed')
    BY <1>4, <2>1, NoTransaction
  <2>4. View = CleanView(<<>>, Committed')
    BY ZenonT(40), <1>4, <1>5, <2>2, SameContents
  <2>5. View = Clean(Committed')
    BY <1>4, <2>4, NoTransaction, OverEmpty
  <2>6. Store!Commit
    BY <1>4, <1>6, <2>3, <2>5 DEF Store!Commit
  <2>7. QED
    BY <2>6 DEF StoreStep, Store!StoreNext
<1>7. CASE pc' = "sync" /\ pending' = t /\ UNCHANGED <<ldb, cache, blocks>>
  <2>1. Committed' = Committed
    BY <1>7 DEF Committed
  <2>2. View' = View
    BY <1>1, <1>4, <1>5, <1>7, <2>1, SameContents
  <2>3. QED
    BY <1>4, <1>7, <2>1, <2>2 DEF StoreStep
<1>8. QED
  BY <1>1, <1>6, <1>7

\* The cache is written to leveldb, and then emptied.
LEMMA FlushStep ==
  ASSUME FfldbInv, FfldbInv', Flush \/ ClearCache
  PROVE  StoreStep
<1>1. /\ cache \in Layers /\ ldb \in States /\ UNCHANGED <<pending, blocks>> /\ pc # "undo" /\ pc' # "undo"
      /\ (UNCHANGED cache /\ ldb' = Over(cache, ldb)) \/ (pc = "clear" /\ cache' = Empty /\ UNCHANGED ldb)
  BY ZenonT(40) DEF FfldbInv, TypeOK, Flush, ClearCache, txn
<1>2. Committed' = Committed
  BY <1>1, OverTwice, OverEmpty DEF FfldbInv, Progress, Committed
<1>3. UNCHANGED <<View, Contents(Committed)>>
  BY <1>1, <1>2, Mapped
<1>4. Contents(ldb)' = Contents(ldb) \/ Contents(ldb)' = Contents(Committed)
  BY <1>1, Mapped DEF Committed
<1>5. QED
  BY ZenonT(40), <1>3, <1>4 DEF StoreStep, Store!StoreNext, Store!Persist

\* The transaction is written to leveldb directly.
LEMMA CommitDirectStep ==
  ASSUME FfldbInv, FfldbInv', CommitDirect
  PROVE  StoreStep
<1>1. /\ pc = "direct" /\ ldb' = Over(pending, ldb) /\ UNCHANGED cache
      /\ pc' = "idle" /\ pending' = Empty /\ blocks' = <<>>
  BY ZenonT(40) DEF CommitDirect, CloseTx
<1>2. cache = Empty /\ blocks = <<>> /\ pending \in Layers /\ ldb \in States /\ ldb' \in States
  BY ZenonT(40), <1>1 DEF FfldbInv, Progress, TypeOK
<1>3. Committed = ldb /\ Committed' = ldb' /\ ldb' = Over(pending, Committed)
  BY <1>1, <1>2, OverEmpty DEF Committed
<1>4. /\ View = CleanView(<<>>, ldb') /\ View' = CleanView(<<>>, Over(Empty, ldb'))
      /\ Contents(ldb) = Contents(Committed) /\ Contents(ldb)' = Clean(ldb') /\ Contents(Committed)' = Clean(ldb')
  BY <1>1, <1>2, <1>3, Mapped
<1>5. View = Clean(ldb') /\ View' = Clean(ldb')
  BY <1>2, <1>4, NoTransaction, OverEmpty
<1>6. Store!CommitDurably
  BY <1>4, <1>5 DEF Store!CommitDurably
<1>7. QED
  BY <1>6 DEF StoreStep, Store!StoreNext

\* What is left when the database is closed or the process stops.
LEMMA GoneStep ==
  ASSUME FfldbInv, FfldbInv', Gone, ldb' = ldb \/ ldb' = Committed
  PROVE  StoreStep
<1>1. pc' = "down" /\ cache' = Empty /\ pending' = Empty /\ blocks' = <<>> /\ ldb' \in States
  BY DEF Gone, CloseTx, FfldbInv, TypeOK
<1>2. Committed' = ldb'
  BY <1>1, OverEmpty DEF Committed
<1>3. /\ View' = CleanView(<<>>, Over(Empty, ldb')) /\ Contents(Committed)' = Clean(ldb')
      /\ Contents(ldb)' = Clean(ldb') /\ Contents(ldb) = Clean(ldb) /\ Contents(Committed) = Clean(Committed)
  BY <1>1, <1>2, Mapped
<1>4. View' = Clean(ldb')
  BY <1>1, <1>3, NoTransaction
<1>5. Store!Stop \/ Store!Close
  BY <1>3, <1>4 DEF Store!Stop, Store!Close
<1>6. QED
  BY ZenonT(40), <1>5 DEF StoreStep, Store!StoreNext

\* Every step of the database is one of the store.
LEMMA NextStep ==
  ASSUME FfldbInv, FfldbInv', [Next]_vars
  PROVE  StoreStep
<1>1. CASE UNCHANGED vars
  BY <1>1, ReaderStep DEF vars, meta, files, txn
<1>2. CASE Begin \/ Commit \/ SyncBlocks \/ OpenDB \/ ReconcileDB
  <2>1. UNCHANGED <<ldb, cache, pending, blocks>> /\ pc # "undo" /\ pc' # "undo"
    BY <1>2 DEF Begin, Commit, SyncBlocks, OpenDB, ReconcileDB, meta, txn
  <2>2. QED
    BY ZenonT(40), <2>1, QuietStep
<1>3. CASE Rollback \/ CommitFails \/ Undo
  <2>1. CloseTx("idle") /\ UNCHANGED <<ldb, cache>>
    BY <1>3 DEF Rollback, CommitFails, Undo, meta
  <2>2. QED
    BY <2>1, AbortStep
<1>4. CASE \E r \in Readers : ReaderBegin(r) \/ ReaderSnapshot(r) \/ ReaderEnd(r)
  <2>1. UNCHANGED <<ldb, cache, data, pending, blocks>>
    BY <1>4 DEF ReaderBegin, ReaderSnapshot, ReaderEnd, meta, files, txn
  <2>2. QED
    BY <2>1, ReaderStep
<1>5. CASE Close \/ Stop
  <2>1. Gone /\ (ldb' = ldb \/ ldb' = Committed)
    BY <1>5 DEF Close, Stop, Committed
  <2>2. QED
    BY <2>1, GoneStep
<1>6. CASE \E k \in Keys : Delete(k) \/ \E v \in Vals : Put(k, v)
  BY <1>6, PutStep
<1>7. CASE \E b \in Blocks : StoreBlock(b)
  BY <1>7, StoreBlockStep
<1>8. CASE WriteBlock \/ WriteFails \/ CommitTx \/ Flush \/ ClearCache \/ CommitDirect
  BY ZenonT(40), <1>8, WriteBlockStep, WriteFailsStep, CommitTxStep, FlushStep, CommitDirectStep
<1>9. QED
  BY Zenon, <1>1, <1>2, <1>3, <1>4, <1>5, <1>6, <1>7, <1>8 DEF Next

\* leveldb, the cache, the files and the snapshots are left alone.
LEMMA SameDisk ==
  ASSUME FfldbInv, UNCHANGED <<meta, files, snapshot>>, pending'.remove \subseteq Keys
  PROVE  Within' /\ Ends' /\ AllListed' /\ Committed' = Committed
BY ZenonT(40) DEF FfldbInv, Within, Ends, AllListed, LdbEnd, DbEnd, Committed, meta, files

\* So is the write cursor, and the transaction has not got to its flush.
LEMMA SameCursor ==
  ASSUME FfldbInv, UNCHANGED <<meta, files, store>>,
         Running, pc # "undo", pc' \in {"idle", "open", "sync"}
  PROVE  Cursors' /\ Synchronised'
<1>1. UNCHANGED <<ldb, cache, data, flen, synced, cursor, fileOpen, LdbEnd, DbEnd>>
  BY DEF meta, files, store, LdbEnd, DbEnd, Committed
<1>2. Cursors'
  BY <1>1 DEF FfldbInv, Cursors, Running
<1>3. Synchronised'
  BY <1>1 DEF FfldbInv, Synchronised, Running, Safe
<1>4. QED
  BY <1>2, <1>3

----------------------------------------------------------------------------
(* The steps of a write transaction before its commit. *)

\* A transaction begins, is changed or is given up.
LEMMA BeginInv == ASSUME FfldbInv, Begin PROVE FfldbInv'
<1>1. /\ pc = "idle" /\ pc' = "open" /\ UNCHANGED <<meta, files, store, txn, reads, faults>>
      /\ UNCHANGED <<pending, blocks, snapshot>>
  BY ZenonT(40) DEF Begin, txn, reads
<1>2. Within' /\ Ends' /\ AllListed'
  BY <1>1, SameDisk DEF FfldbInv, Ends
<1>3. Cursors' /\ Synchronised'
  BY ZenonT(40), <1>1, SameCursor DEF Running
<1>4. TypeOK'
  BY ZenonT(40), <1>1 DEF FfldbInv, TypeOK, meta, files, store, txn, reads
<1>5. Progress'
  BY <1>1 DEF FfldbInv, Progress
<1>6. QED
  BY <1>2, <1>3, <1>4, <1>5 DEF FfldbInv

\* A key is set or deleted.
LEMMA PutInv ==
  ASSUME FfldbInv, NEW k \in Keys, Delete(k) \/ \E v \in Vals : Put(k, v)
  PROVE  FfldbInv'
<1>1. /\ pc = "open" /\ UNCHANGED <<meta, files, store, pc, blocks, old, reads, faults>>
      /\ \/ pending' = DeleteKey(pending, k)
         \/ \E v \in Vals : pending' = PutKey(pending, k, v)
  BY DEF Delete, Put
<1>2. k \in DbKeys /\ \A v \in Vals : v \in DbVals
  BY ZenonT(40) DEF DbKeys, DbVals
<1>3. pending \in Layers /\ pending.remove \subseteq Keys
  BY ZenonT(40) DEF FfldbInv, TypeOK, Ends
<1>4. pending' \in Layers
  BY ZenonT(40), <1>1, <1>2, <1>3, PutLayer
<1>5. pending'.remove \subseteq Keys
  BY <1>1, <1>3 DEF PutKey, DeleteKey
<1>6. \A b \in Blocks : pending'.keys[b] = pending.keys[b]
  <2> TAKE b \in Blocks
  <2>1. b # k
    BY NamesAssumption
  <2>2. \A v : PutKey(pending, k, v).keys[b] = pending.keys[b]
    BY <1>3, <2>1 DEF PutKey, Layers, States
  <2>3. DeleteKey(pending, k).keys[b] = pending.keys[b]
    BY <1>3, <2>1 DEF DeleteKey, Layers, States
  <2>4. QED
    BY <1>1, <2>2, <2>3
<1>7. UNCHANGED snapshot
  BY ZenonT(40), <1>1 DEF reads
<1>8. Within' /\ Ends' /\ AllListed'
  BY <1>1, <1>5, <1>7, SameDisk
<1>9. Cursors' /\ Synchronised'
  BY ZenonT(40), <1>1, SameCursor DEF Running
<1>10. TypeOK'
  BY ZenonT(40), <1>1, <1>4 DEF FfldbInv, TypeOK, meta, files, store, reads
<1>11. Progress'
  BY <1>1, <1>6 DEF FfldbInv, Progress
<1>12. QED
  BY <1>8, <1>9, <1>10, <1>11 DEF FfldbInv

\* A block is added to the transaction.
LEMMA StoreBlockInv ==
  ASSUME FfldbInv, NEW b \in Blocks, StoreBlock(b)
  PROVE  FfldbInv'
<1>1. /\ pc = "open" /\ blocks' = Append(blocks, b)
      /\ UNCHANGED <<meta, files, store, pc, pending, old, reads, faults, snapshot>>
  BY ZenonT(40) DEF StoreBlock, reads
<1>2. Within' /\ Ends' /\ AllListed'
  BY ZenonT(40), <1>1, SameDisk DEF FfldbInv, Ends
<1>3. Cursors' /\ Synchronised'
  BY ZenonT(40), <1>1, SameCursor DEF Running
<1>4. TypeOK'
  BY <1>1 DEF FfldbInv, TypeOK, meta, files, store, reads
<1>5. Progress'
  BY <1>1 DEF FfldbInv, Progress
<1>6. QED
  BY ZenonT(40), <1>2, <1>3, <1>4, <1>5 DEF FfldbInv

\* What a closed transaction leaves behind.
LEMMA ClosedTx ==
  ASSUME NEW w, CloseTx(w)
  PROVE  /\ pc' = w /\ pending' = Empty /\ blocks' = <<>> /\ old' = Origin
         /\ pending' \in Layers /\ blocks' \in Seq(Blocks) /\ old' \in Locs
         /\ pending'.remove = {} /\ \A b \in Blocks : pending'.keys[b] = Nil
<1>1. pc' = w /\ pending' = Empty /\ blocks' = <<>> /\ old' = Origin
  BY ZenonT(40) DEF CloseTx, Origin
<1>2. Empty \in Layers /\ Empty.remove = {} /\ \A b \in Blocks : Empty.keys[b] = Nil
  BY DEF Empty, Layers, States, DbVals, DbKeys
<1>3. Origin \in Locs
  BY SizeAssumption DEF Origin, Locs, FileNums
<1>4. QED
  BY <1>1, <1>2, <1>3

\* The transaction ends and leaves the cursor where it is.
LEMMA ClosedInv ==
  ASSUME FfldbInv, CloseTx("idle"), UNCHANGED <<meta, files, store, reads>>,
         faults' \in 0 .. MaxFaults, Running, pc # "undo"
  PROVE  FfldbInv'
<1>1. /\ pc' = "idle" /\ pending' = Empty /\ blocks' = <<>> /\ old' = Origin
      /\ pending' \in Layers /\ blocks' \in Seq(Blocks) /\ old' \in Locs
      /\ pending'.remove = {} /\ \A b \in Blocks : pending'.keys[b] = Nil
  BY ClosedTx
<1>2. Within' /\ Ends' /\ AllListed'
  BY <1>1, SameDisk DEF reads
<1>3. Cursors' /\ Synchronised'
  BY ZenonT(40), <1>1, SameCursor
<1>4. TypeOK'
  BY ZenonT(40), <1>1 DEF FfldbInv, TypeOK, meta, files, store, reads
<1>5. Progress'
  BY <1>1 DEF Progress
<1>6. QED
  BY <1>2, <1>3, <1>4, <1>5 DEF FfldbInv

\* Rollback, and an error of commitTx after the blocks were written.
LEMMA AbandonInv == ASSUME FfldbInv, Rollback \/ CommitFails PROVE FfldbInv'
<1>1. faults \in 0 .. MaxFaults
  BY DEF FfldbInv, TypeOK
<1>2. faults' \in 0 .. MaxFaults
  BY <1>1, SizeAssumption DEF Rollback, CommitFails, Fault
<1>3. Running /\ pc # "undo"
  BY DEF Rollback, CommitFails, Running
<1>4. CloseTx("idle") /\ UNCHANGED <<meta, files, store, reads>>
  BY DEF Rollback, CommitFails
<1>5. QED
  BY <1>2, <1>3, <1>4, ClosedInv

\* The commit begins.
LEMMA CommitInv == ASSUME FfldbInv, Commit PROVE FfldbInv'
<1>1. /\ pc = "open" /\ pc' = "write" /\ old' = cursor
      /\ UNCHANGED <<meta, files, store, pending, blocks, reads, faults, snapshot>>
  BY ZenonT(40) DEF Commit, reads
<1>2. Within' /\ Ends' /\ AllListed'
  BY <1>1, SameDisk DEF FfldbInv, Ends
<1>3. UNCHANGED <<ldb, cache, data, flen, synced, cursor, fileOpen, LdbEnd, DbEnd>>
  BY ZenonT(40), <1>1 DEF meta, files, store, LdbEnd, DbEnd, Committed
<1>4. TypeOK'
  BY <1>1 DEF FfldbInv, TypeOK, meta, files, store, reads
<1>5. Before(cursor, cursor)
  BY BeforeOrder DEF FfldbInv, TypeOK
<1>6. Cursors'
  BY <1>1, <1>3, <1>5 DEF FfldbInv, Cursors, Running
<1>7. Synchronised'
  BY ZenonT(40), <1>1, <1>3 DEF FfldbInv, Synchronised, Running, Safe
<1>8. Progress'
  BY ZenonT(40), <1>1, <1>3, ListedNone DEF FfldbInv, Progress
<1>9. QED
  BY <1>2, <1>4, <1>6, <1>7, <1>8 DEF FfldbInv

----------------------------------------------------------------------------
(* Writing records. *)

\* Everything listed stays readable while no cell below q changes.
LEMMA DiskKept ==
  ASSUME FfldbInv, NEW q \in Locs, Before(DbEnd, q), SameBelow(data, data', q),
         UNCHANGED <<meta, snapshot>>
  PROVE  AllListed' /\ LdbEnd' = LdbEnd /\ DbEnd' = DbEnd /\ Committed' = Committed
<1>1. LdbEnd \in Locs /\ DbEnd \in Locs /\ Before(LdbEnd, DbEnd) /\ AllListed
  BY ZenonT(40) DEF FfldbInv, Ends
<1>2. LdbEnd' = LdbEnd /\ DbEnd' = DbEnd /\ UNCHANGED <<ldb, cache>> /\ Committed' = Committed
  BY DEF LdbEnd, DbEnd, Committed, meta
<1>3. SameBelow(data, data', DbEnd)
  BY <1>1, SameEarlier
<1>4. SameBelow(data, data', LdbEnd)
  BY ZenonT(40), <1>1, <1>3, SameEarlier
<1>5. Listed(data', ldb, LdbEnd)
  BY ZenonT(40), <1>1, <1>4, ListedKept DEF AllListed
<1>6. Listed(data', cache.keys, DbEnd)
  BY ZenonT(40), <1>1, <1>3, ListedKept DEF AllListed
<1>7. \A r \in Readers : /\ Listed(data', snapshot[r].base, DbEnd)
                         /\ Listed(data', snapshot[r].layer.keys, DbEnd)
  BY <1>1, <1>3, ListedKept DEF AllListed
<1>8. QED
  BY ZenonT(40), <1>2, <1>5, <1>6, <1>7 DEF AllListed

\* The committed positions are still reached once files have grown.
LEMMA EndsLonger ==
  ASSUME FfldbInv, UNCHANGED meta, flen' \in [FileNums -> -1 .. MaxBlockFileSize],
         \A f \in FileNums : flen[f] <= flen'[f], pending'.remove \subseteq Keys
  PROVE  Ends' /\ \A p \in Locs : Reaches(flen, p) => Reaches(flen', p)
<1>1. flen \in [FileNums -> -1 .. MaxBlockFileSize]
  BY ZenonT(40) DEF FfldbInv, TypeOK
<1>2. \A p \in Locs : \A f \in 0 .. p.file : f \in FileNums
  BY SizeAssumption DEF Locs, FileNums
<1>3. ASSUME NEW p \in Locs, Reaches(flen, p) PROVE Reaches(flen', p)
  <2>1. \A f \in 0 .. p.file : flen[f] <= flen'[f]
    BY <1>2
  <2>2. QED
    BY <1>1, <1>3, <2>1, ReachesLonger
<1>4. LdbEnd' = LdbEnd /\ DbEnd' = DbEnd /\ UNCHANGED cache
  BY ZenonT(40) DEF LdbEnd, DbEnd, Committed, meta
<1>5. Ends'
  BY ZenonT(40), <1>3, <1>4 DEF FfldbInv, Ends
<1>6. QED
  BY ZenonT(40), <1>3, <1>5

\* A block was written.
LEMMA WriteBlockInv == ASSUME FfldbInv, WriteBlock PROVE FfldbInv'
<1> DEFINE b == Head(blocks)
           p == Position(b)
<1>1. /\ pc = "write" /\ blocks # <<>> /\ p.file \in FileNums
      /\ data' = Written(b, p, Size[b]) /\ flen' = Lengthened(p, Size[b])
      /\ cursor' = [p EXCEPT !.off = @ + Size[b]] /\ fileOpen' = TRUE
      /\ pending' = PutKey(pending, b, p) /\ blocks' = Tail(blocks)
      /\ UNCHANGED <<meta, synced, pc, old, reads, faults>>
  BY DEF WriteBlock
<1>2. b \in Blocks /\ blocks' \in Seq(Blocks)
  BY <1>1 DEF FfldbInv, TypeOK
<1>3. Size[b] \in 0 .. Size[b]
  BY <1>2, SizeAssumption
<1>4. /\ Running /\ Reaches(flen, cursor) /\ Before(DbEnd, cursor) /\ cursor \in Locs /\ DbEnd \in Locs
      /\ pending \in Layers /\ pending.remove \subseteq Keys /\ old \in Locs /\ synced \in [FileNums -> -1 .. MaxBlockFileSize]
      /\ Before(DbEnd, old) /\ Before(old, cursor) /\ Reaches(flen, old) /\ Listed(data, pending.keys, cursor)
  BY <1>1 DEF FfldbInv, TypeOK, Cursors, Running, Ends, Progress
<1>5. /\ data' \in [Cells -> (Blocks \X Nat) \cup {Nil}]
      /\ flen' \in [FileNums -> -1 .. MaxBlockFileSize]
      /\ p \in Locs /\ cursor' \in Locs /\ Before(cursor, cursor')
      /\ SameBelow(data, data', cursor) /\ Within' /\ Reaches(flen', cursor')
      /\ \A f \in FileNums : flen[f] <= flen'[f]
      /\ Stored(data', b, p, cursor')
  BY ZenonT(40), <1>1, <1>2, <1>3, <1>4, Wrote
<1> HIDE DEF p, b
<1>6. b \in DbKeys /\ p \in DbVals
  BY <1>2, <1>5 DEF DbKeys, DbVals
<1>7. pending' \in Layers /\ pending'.remove \subseteq Keys
  BY <1>1, <1>4, <1>6, PutLayer DEF PutKey
<1>8. AllListed' /\ LdbEnd' = LdbEnd /\ DbEnd' = DbEnd /\ Committed' = Committed
  BY <1>1, <1>4, <1>5, DiskKept DEF reads
<1>9. Ends' /\ Reaches(flen', old)
  BY <1>1, <1>4, <1>5, <1>7, EndsLonger
<1>10. TypeOK'
  BY ZenonT(40), <1>1, <1>2, <1>5, <1>7 DEF FfldbInv, TypeOK, meta, reads
<1>11. Before(DbEnd, cursor') /\ Before(old, cursor')
  BY ZenonT(40), <1>4, <1>5, BeforeOrder
<1>12. Cursors'
  BY ZenonT(40), <1>1, <1>4, <1>5, <1>8, <1>9, <1>11 DEF Cursors, Running
<1>13. Listed(data', pending'.keys, cursor')
  <2>1. Listed(data', pending.keys, cursor)
    BY ZenonT(40), <1>4, <1>5, ListedKept
  <2>2. Listed(data', pending.keys, cursor')
    BY ZenonT(40), <1>4, <1>5, <2>1, ListedLater
  <2>3. pending'.keys = [pending.keys EXCEPT ![b] = p] /\ pending.keys \in States
    BY <1>1, <1>4 DEF PutKey, Layers
  <2>4. \A a \in Blocks : pending'.keys[a] = IF a = b THEN p ELSE pending.keys[a]
    BY <1>6, <2>3 DEF States, DbKeys
  <2>5. QED
    BY ZenonT(40), <1>5, <2>2, <2>4 DEF Listed
<1>14. Progress'
  BY <1>1, <1>13 DEF Progress
<1>15. Synchronised'
  <2>1. PowerLoss => synced[0] <= flen'[0] /\ 0 \in FileNums
    <3>1. 0 \in FileNums
      BY SizeAssumption DEF FileNums
    <3>2. PowerLoss => synced[0] <= flen[0]
      BY ZenonT(40) DEF FfldbInv, Synchronised
    <3>3. flen \in [FileNums -> -1 .. MaxBlockFileSize]
      BY ZenonT(40) DEF FfldbInv, TypeOK
    <3>4. QED
      BY ZenonT(40), <1>4, <1>5, <3>1, <3>2, <3>3, LengthsGrow
  <2>2. QED
    BY <1>1, <1>8, <2>1 DEF FfldbInv, Synchronised, Safe
<1>16. QED
  BY <1>5, <1>8, <1>9, <1>10, <1>12, <1>14, <1>15 DEF FfldbInv

----------------------------------------------------------------------------
(* Undoing writes. *)

\* A write failed.
LEMMA WriteFailsInv ==
  ASSUME FfldbInv, WriteFails, PowerLoss => MaxFile = 0 PROVE FfldbInv'
<1> DEFINE b == Head(blocks)
           p == Position(b)
<1>1. /\ pc = "write" /\ blocks # <<>> /\ p.file \in FileNums /\ pc' = "undo" /\ Fault
      /\ UNCHANGED <<meta, synced, txn, reads>>
      /\ \/ /\ \E n \in 0 .. Size[b] - 1 :
                  /\ data' = Written(b, p, n) /\ flen' = Lengthened(p, n)
                  /\ cursor' = [p EXCEPT !.off = @ + n]
            /\ fileOpen' = TRUE
         \/ /\ p # cursor \/ ~fileOpen
            /\ cursor' = p /\ fileOpen' = FALSE /\ UNCHANGED <<data, flen>>
  BY DEF WriteFails
<1>2. b \in Blocks
  BY <1>1 DEF FfldbInv, TypeOK
<1>3. /\ Running /\ Reaches(flen, cursor) /\ Before(DbEnd, cursor) /\ cursor \in Locs /\ DbEnd \in Locs
      /\ pending.remove \subseteq Keys /\ old \in Locs /\ synced \in [FileNums -> -1 .. MaxBlockFileSize]
      /\ Before(DbEnd, old) /\ Before(old, cursor) /\ Reaches(flen, old)
      /\ data \in [Cells -> (Blocks \X Nat) \cup {Nil}] /\ flen \in [FileNums -> -1 .. MaxBlockFileSize]
      /\ faults \in 0 .. MaxFaults /\ Within
  BY <1>1 DEF FfldbInv, TypeOK, Cursors, Running, Ends
<1>4. /\ data' \in [Cells -> (Blocks \X Nat) \cup {Nil}]
      /\ flen' \in [FileNums -> -1 .. MaxBlockFileSize]
      /\ cursor' \in Locs /\ Before(cursor, cursor') /\ fileOpen' \in BOOLEAN
      /\ SameBelow(data, data', cursor) /\ Within'
      /\ \A f \in FileNums : flen[f] <= flen'[f]
  BY FailedWrite
<1>5. PowerLoss => fileOpen' \/ (~fileOpen /\ cursor' = cursor)
  <2>1. ASSUME PowerLoss PROVE p = cursor
    BY <1>1, <1>3, <2>1 DEF Position, FileNums, Locs
  <2>2. QED
    BY <1>1, <2>1
<1> HIDE DEF p, b
<1>6. AllListed' /\ LdbEnd' = LdbEnd /\ DbEnd' = DbEnd /\ Committed' = Committed
  BY <1>1, <1>3, <1>4, DiskKept DEF reads
<1>7. Ends' /\ Reaches(flen', old)
  BY <1>1, <1>3, <1>4, EndsLonger DEF txn
<1>8. faults' \in 0 .. MaxFaults
  BY <1>1, <1>3, SizeAssumption DEF Fault
<1>9. TypeOK'
  BY ZenonT(40), <1>1, <1>4, <1>8 DEF FfldbInv, TypeOK, meta, reads, txn
<1>10. Before(DbEnd, cursor') /\ Before(old, cursor')
  BY ZenonT(40), <1>3, <1>4, BeforeOrder
<1>11. Cursors'
  BY <1>1, <1>3, <1>6, <1>7, <1>10 DEF Cursors, Running, txn
<1>12. Progress'
  BY <1>1 DEF Progress
<1>13. Synchronised'
  <2>1. PowerLoss => synced[0] <= flen'[0]
    <3>1. 0 \in FileNums
      BY SizeAssumption DEF FileNums
    <3>2. PowerLoss => synced[0] <= flen[0]
      BY ZenonT(40) DEF FfldbInv, Synchronised
    <3>3. QED
      BY ZenonT(40), <1>3, <1>4, <3>1, <3>2, LengthsGrow
  <2>2. QED
    BY <1>1, <1>3, <1>5, <1>6, <2>1 DEF FfldbInv, Synchronised, Safe
<1>14. QED
  BY <1>4, <1>6, <1>7, <1>9, <1>11, <1>12, <1>13 DEF FfldbInv

\* The files are cut back to p or behind it.
LEMMA CutBack ==
  ASSUME FfldbInv, NEW p \in Locs, NEW len \in [FileNums -> -1 .. MaxBlockFileSize],
         data' = Trimmed(len),
         \A f \in FileNums : len[f] = flen[f] \/ f > p.file \/ (f = p.file /\ len[f] = p.off)
  PROVE  /\ data' \in [Cells -> (Blocks \X Nat) \cup {Nil}]
         /\ SameBelow(data, data', p)
         /\ \A c \in Cells : data'[c] # Nil => c[2] < len[c[1]]
         /\ \A q \in Locs : Before(q, p) /\ Reaches(flen, q) => Reaches(len, q)
<1>1. /\ data \in [Cells -> (Blocks \X Nat) \cup {Nil}] /\ flen \in [FileNums -> -1 .. MaxBlockFileSize]
      /\ Within /\ p.file \in FileNums /\ p.off \in Nat /\ p.file \in Nat
  <2>1. p.file \in FileNums /\ p.off \in Nat /\ p.file \in Nat
    BY SizeAssumption DEF Locs, FileNums
  <2>2. QED
    BY ZenonT(40), <2>1 DEF FfldbInv, TypeOK
<1>2. \A c \in Cells : data'[c] = IF c[2] < len[c[1]] THEN data[c] ELSE Nil
  BY ZenonT(40) DEF Trimmed
<1>3. data' \in [Cells -> (Blocks \X Nat) \cup {Nil}]
  BY ZenonT(40), <1>1 DEF Trimmed
<1>4. SameBelow(data, data', p)
  <2> SUFFICES ASSUME NEW c \in Cells, c[1] < p.file \/ (c[1] = p.file /\ c[2] < p.off)
               PROVE  data'[c] = data[c]
    BY DEF SameBelow
  <2>1. c[1] \in FileNums /\ c[1] \in Nat /\ c[2] \in Nat
    BY SizeAssumption DEF Cells, FileNums
  <2>2. len[c[1]] = flen[c[1]] \/ (c[1] = p.file /\ len[c[1]] = p.off)
    BY <1>1, <2>1
  <2>3. QED
    BY <1>1, <1>2, <2>2 DEF Within
<1>5. ASSUME NEW q \in Locs, Before(q, p), Reaches(flen, q), q # Origin PROVE Reaches(len, q)
  <2>1. q.file \in FileNums /\ q.file \in Nat /\ q.off \in Nat /\ q.file <= p.file
    BY <1>1, <1>5, SizeAssumption DEF Before, Locs, FileNums
  <2>2. (\A f \in 0 .. q.file : flen[f] # -1) /\ q.off <= flen[q.file]
    BY <1>5 DEF Reaches
  <2>3. \A f \in 0 .. q.file : f \in FileNums
    BY <2>1, SizeAssumption DEF FileNums
  <2>4. \A f \in 0 .. q.file : len[f] # -1
    BY <1>1, <2>1, <2>2, <2>3
  <2>5. q.off <= len[q.file]
    BY <1>1, <1>5, <2>1, <2>2 DEF Before
  <2>6. QED
    BY ZenonT(40), <2>4, <2>5 DEF Reaches
<1>6. \A q \in Locs : Before(q, p) /\ Reaches(flen, q) => Reaches(len, q)
  BY <1>5 DEF Reaches
<1>7. QED
  BY ZenonT(40), <1>2, <1>3, <1>4, <1>6

\* handleRollback, whether it fails or not, leaves the files up to p.
LEMMA RolledBack ==
  ASSUME FfldbInv, NEW p \in Locs, HandleRollback(p), Before(p, cursor)
  PROVE  /\ cursor' = p /\ fileOpen' \in BOOLEAN /\ faults' \in 0 .. MaxFaults
         /\ data' \in [Cells -> (Blocks \X Nat) \cup {Nil}]
         /\ flen' \in [FileNums -> -1 .. MaxBlockFileSize]
         /\ synced' \in [FileNums -> -1 .. MaxBlockFileSize]
         /\ SameBelow(data, data', p) /\ Within'
         /\ \A q \in Locs : Before(q, p) /\ Reaches(flen, q) => Reaches(flen', q)
<1>1. /\ data \in [Cells -> (Blocks \X Nat) \cup {Nil}] /\ flen \in [FileNums -> -1 .. MaxBlockFileSize]
      /\ synced \in [FileNums -> -1 .. MaxBlockFileSize] /\ faults \in 0 .. MaxFaults
      /\ fileOpen \in BOOLEAN /\ Within
  BY DEF FfldbInv, TypeOK
<1>2. p.file \in FileNums /\ p.off \in -1 .. MaxBlockFileSize /\ MaxBlockFileSize \in Nat
  BY SizeAssumption DEF Locs
<1>3. Fault => faults' \in 0 .. MaxFaults
  BY <1>1, SizeAssumption DEF Fault
<1>4. \A len \in [FileNums -> -1 .. MaxBlockFileSize] : SyncedIn(len) \in [FileNums -> -1 .. MaxBlockFileSize]
  BY ZenonT(40), <1>1 DEF SyncedIn
<1>5. cursor' = p
  BY ZenonT(40) DEF HandleRollback
<1>6. ASSUME UNCHANGED files
      PROVE  /\ SameBelow(data, data', p) /\ Within' /\ UNCHANGED <<data, flen, synced>>
             /\ \A q \in Locs : Before(q, p) /\ Reaches(flen, q) => Reaches(flen', q)
  BY <1>1, <1>6 DEF files, SameBelow, Within
<1>7. ASSUME flen' \in [FileNums -> -1 .. MaxBlockFileSize], data' = Trimmed(flen'),
             \A f \in FileNums : flen'[f] = flen[f] \/ f > p.file \/ (f = p.file /\ flen'[f] = p.off)
      PROVE  /\ data' \in [Cells -> (Blocks \X Nat) \cup {Nil}]
             /\ SameBelow(data, data', p) /\ Within'
             /\ \A q \in Locs : Before(q, p) /\ Reaches(flen, q) => Reaches(flen', q)
  <2>1. /\ data' \in [Cells -> (Blocks \X Nat) \cup {Nil}] /\ SameBelow(data, data', p)
        /\ \A c \in Cells : data'[c] # Nil => c[2] < flen'[c[1]]
        /\ \A q \in Locs : Before(q, p) /\ Reaches(flen, q) => Reaches(flen', q)
    BY ZenonT(40), <1>7, CutBack
  <2>2. QED
    BY ZenonT(40), <2>1 DEF Within
<1> DEFINE back(f) == f > p.file /\ f <= cursor.file
           cut == [f \in FileNums |-> IF back(f) THEN -1 ELSE IF f = p.file THEN p.off ELSE flen[f]]
           upTo(keep) == [f \in FileNums |-> IF back(f) /\ f > keep THEN -1 ELSE flen[f]]
<1>8. CASE cursor = p /\ UNCHANGED <<files, fileOpen, faults>>
  BY ZenonT(40), <1>1, <1>5, <1>6, <1>8
<1>9. CASE /\ flen' = cut /\ data' = Trimmed(flen') /\ fileOpen' = TRUE
           /\ \/ synced' = [SyncedIn(flen') EXCEPT ![p.file] = p.off] /\ UNCHANGED faults
              \/ synced' = SyncedIn(flen') /\ Fault
  <2>1. -1 \in -1 .. MaxBlockFileSize
    BY <1>2
  <2>2. flen' \in [FileNums -> -1 .. MaxBlockFileSize]
    BY ZenonT(40), <1>1, <1>2, <1>9, <2>1
  <2>3. \A f \in FileNums : flen'[f] = flen[f] \/ f > p.file \/ (f = p.file /\ flen'[f] = p.off)
    BY ZenonT(40), <1>9
  <2> HIDE DEF cut, back
  <2>4. SyncedIn(flen') \in [FileNums -> -1 .. MaxBlockFileSize]
    BY ZenonT(40), <1>4, <2>2
  <2>5. synced' \in [FileNums -> -1 .. MaxBlockFileSize]
    BY <1>2, <1>9, <2>4
  <2>6. faults' \in 0 .. MaxFaults
    BY ZenonT(40), <1>1, <1>3, <1>9
  <2>7. QED
    BY <1>5, <1>7, <1>9, <2>2, <2>3, <2>5, <2>6
<1>10. CASE /\ Fault /\ fileOpen' \in BOOLEAN /\ \E keep \in p.file .. cursor.file : flen' = upTo(keep)
            /\ data' = Trimmed(flen') /\ synced' = SyncedIn(flen')
  <2>1. -1 \in -1 .. MaxBlockFileSize
    BY <1>2
  <2>2. PICK keep \in p.file .. cursor.file : flen' = upTo(keep)
    BY <1>10
  <2>3. flen' \in [FileNums -> -1 .. MaxBlockFileSize]
    BY <1>1, <2>1, <2>2
  <2>4. \A f \in FileNums : flen'[f] = flen[f] \/ f > p.file
    BY <2>2
  <2> HIDE DEF upTo, back
  <2>5. synced' \in [FileNums -> -1 .. MaxBlockFileSize]
    BY <1>4, <1>10, <2>3
  <2>6. QED
    BY ZenonT(40), <1>3, <1>5, <1>7, <1>10, <2>3, <2>4, <2>5
<1>11. CASE fileOpen' = FALSE /\ UNCHANGED <<files, faults>>
  BY ZenonT(40), <1>1, <1>5, <1>6, <1>11
<1>12. QED
  <2>1. ASSUME NEW keep, fileOpen' = (cursor.file = p.file /\ fileOpen)
                          \/ (keep = p.file /\ flen[p.file] # -1 /\ fileOpen' = TRUE)
        PROVE  fileOpen' \in BOOLEAN
    BY ZenonT(40), <2>1
  <2>2. \/ cursor = p /\ UNCHANGED <<files, fileOpen, faults>>
        \/ /\ flen' = cut /\ data' = Trimmed(flen') /\ fileOpen' = TRUE
           /\ \/ synced' = [SyncedIn(flen') EXCEPT ![p.file] = p.off] /\ UNCHANGED faults
              \/ synced' = SyncedIn(flen') /\ Fault
        \/ /\ Fault /\ fileOpen' \in BOOLEAN /\ \E keep \in p.file .. cursor.file : flen' = upTo(keep)
           /\ data' = Trimmed(flen') /\ synced' = SyncedIn(flen')
        \/ fileOpen' = FALSE /\ UNCHANGED <<files, faults>>
    BY <2>1, Zenon DEF HandleRollback
  <2>3. QED
    BY ZenonT(40), <1>8, <1>9, <1>10, <1>11, <2>2

\* With one file, handleRollback keeps what is synced below p.
LEMMA SyncedBack ==
  ASSUME FfldbInv, PowerLoss, MaxFile = 0, NEW p \in Locs, HandleRollback(p), Before(p, cursor)
  PROVE  /\ synced'[0] <= flen'[0]
         /\ \A q \in Locs : Before(q, p) /\ Safe(q) => q.off = 0 \/ q.off <= synced'[0]
         /\ fileOpen \/ Safe(cursor) => fileOpen' \/ p.off = 0 \/ p.off <= synced'[0]
<1>1. FileNums = {0} /\ 0 \in FileNums
  BY DEF FileNums
<1>2. \A q \in Locs : q.file = 0 /\ q.off \in Nat
  BY <1>1, SizeAssumption DEF Locs
<1>3. /\ flen[0] \in Int /\ synced[0] \in Int /\ synced[0] <= flen[0] /\ synced[0] >= -1
      /\ cursor \in Locs /\ cursor.file = 0 /\ cursor.off \in Nat
      /\ p.file = 0 /\ p.off \in Nat /\ p.off <= cursor.off
  <2>1. flen \in [FileNums -> -1 .. MaxBlockFileSize] /\ synced \in [FileNums -> -1 .. MaxBlockFileSize]
        /\ cursor \in Locs /\ synced[0] <= flen[0]
    BY DEF FfldbInv, TypeOK, Synchronised
  <2>2. cursor.file = 0 /\ cursor.off \in Nat /\ p.file = 0 /\ p.off \in Nat
    BY ZenonT(40), <1>2, <2>1
  <2>3. QED
    BY <1>1, <2>1, <2>2, SizeAssumption DEF Before
<1>4. \A q \in Locs : Before(q, p) => q.off <= p.off
  BY <1>2, <1>3 DEF Before
<1>5. \A len : SyncedIn(len)[0] = IF synced[0] < len[0] THEN synced[0] ELSE len[0]
  BY <1>1 DEF SyncedIn
<1>6. \A len : SyncedIn(len) = [f \in FileNums |-> IF synced[f] < len[f] THEN synced[f] ELSE len[f]]
  BY DEF SyncedIn
<1>7. \/ UNCHANGED <<flen, synced, fileOpen>>
      \/ flen'[0] = p.off /\ fileOpen' = TRUE /\ synced'[0] = p.off
      \/ flen'[0] = p.off /\ fileOpen' = TRUE /\ synced'[0] = SyncedIn(flen')[0]
      \/ flen'[0] = flen[0] /\ synced'[0] = SyncedIn(flen')[0] /\ (fileOpen => fileOpen')
  <2>1. CASE UNCHANGED <<files, fileOpen>>
    BY <2>1 DEF files
  <2>2. CASE flen' = [f \in FileNums |-> IF f > p.file /\ f <= cursor.file THEN -1
                                         ELSE IF f = p.file THEN p.off ELSE flen[f]]
             /\ fileOpen' = TRUE
             /\ (synced' = [SyncedIn(flen') EXCEPT ![p.file] = p.off] \/ synced' = SyncedIn(flen'))
    <3>1. flen'[0] = p.off
      BY <1>1, <1>3, <2>2
    <3>2. [SyncedIn(flen') EXCEPT ![p.file] = p.off][0] = p.off
      BY ZenonT(40), <1>1, <1>3, <1>6
    <3>3. QED
      BY ZenonT(40), <2>2, <3>1, <3>2
  <2>3. CASE /\ \E keep \in p.file .. cursor.file :
                  flen' = [f \in FileNums |-> IF (f > p.file /\ f <= cursor.file) /\ f > keep THEN -1 ELSE flen[f]]
             /\ synced' = SyncedIn(flen') /\ (fileOpen => fileOpen')
    <3>1. flen'[0] = flen[0]
      BY <1>1, <1>3, <2>3
    <3>2. QED
      BY <2>3, <3>1
  <2>4. ~(cursor.file > p.file)
    BY <1>3
  <2>5. cursor.file = p.file
    BY ZenonT(40), <1>3
  <2>6. QED
    BY <2>1, <2>2, <2>3, <2>4, <2>5, Zenon DEF HandleRollback
<1>8. QED
  BY <1>2, <1>3, <1>4, <1>5, <1>7 DEF Safe

\* The transaction whose write failed is undone.
LEMMA UndoInv == ASSUME FfldbInv, Undo, PowerLoss => MaxFile = 0 PROVE FfldbInv'
<1>1. pc = "undo" /\ HandleRollback(old) /\ CloseTx("idle") /\ UNCHANGED <<meta, reads>>
  BY ZenonT(40) DEF Undo
<1>2. /\ old \in Locs /\ DbEnd \in Locs /\ LdbEnd \in Locs /\ Before(LdbEnd, DbEnd) /\ Before(DbEnd, old)
      /\ Before(old, cursor) /\ Reaches(flen, old) /\ Reaches(flen, LdbEnd) /\ Reaches(flen, DbEnd)
      /\ Running /\ cache.remove \subseteq Keys
  BY ZenonT(40), <1>1 DEF FfldbInv, TypeOK, Ends, Cursors, Running
<1>3. /\ pc' = "idle" /\ pending' = Empty /\ blocks' = <<>>
      /\ pending' \in Layers /\ blocks' \in Seq(Blocks) /\ old' \in Locs
      /\ pending'.remove = {} /\ \A b \in Blocks : pending'.keys[b] = Nil
  BY ZenonT(40), <1>1, ClosedTx
<1>4. /\ cursor' = old /\ fileOpen' \in BOOLEAN /\ faults' \in 0 .. MaxFaults
      /\ data' \in [Cells -> (Blocks \X Nat) \cup {Nil}]
      /\ flen' \in [FileNums -> -1 .. MaxBlockFileSize]
      /\ synced' \in [FileNums -> -1 .. MaxBlockFileSize]
      /\ SameBelow(data, data', old) /\ Within'
      /\ \A q \in Locs : Before(q, old) /\ Reaches(flen, q) => Reaches(flen', q)
  BY ZenonT(40), <1>1, <1>2, RolledBack
<1>5. AllListed' /\ LdbEnd' = LdbEnd /\ DbEnd' = DbEnd /\ Committed' = Committed
  BY ZenonT(40), <1>1, <1>2, <1>4, DiskKept DEF reads
<1>6. Before(old, old) /\ Before(LdbEnd, old)
  BY ZenonT(40), <1>2, BeforeOrder
<1>7. Reaches(flen', old) /\ Reaches(flen', DbEnd) /\ Reaches(flen', LdbEnd)
  BY ZenonT(40), <1>2, <1>4, <1>6
<1>8. Ends'
  BY ZenonT(40), <1>1, <1>2, <1>3, <1>5, <1>7 DEF Ends, meta
<1>9. TypeOK'
  BY ZenonT(40), <1>1, <1>2, <1>3, <1>4 DEF FfldbInv, TypeOK, meta, reads
<1>10. Cursors'
  BY ZenonT(40), <1>2, <1>3, <1>4, <1>5, <1>7 DEF Cursors, Running
<1>11. Progress'
  BY ZenonT(40), <1>3 DEF Progress
<1>12. Synchronised'
  <2> SUFFICES ASSUME PowerLoss PROVE Synchronised'
    BY ZenonT(40) DEF Synchronised
  <2>1. /\ synced'[0] <= flen'[0]
        /\ \A q \in Locs : Before(q, old) /\ Safe(q) => q.off = 0 \/ q.off <= synced'[0]
        /\ fileOpen \/ Safe(cursor) => fileOpen' \/ old.off = 0 \/ old.off <= synced'[0]
    BY ZenonT(40), <1>1, <1>2, SyncedBack
  <2>2. Safe(LdbEnd) /\ (fileOpen \/ Safe(cursor))
    BY ZenonT(40), <1>2 DEF FfldbInv, Synchronised
  <2>3. QED
    BY ZenonT(40), <1>2, <1>3, <1>4, <1>5, <1>6, <2>1, <2>2 DEF Synchronised, Safe
<1>13. QED
  BY ZenonT(40), <1>4, <1>5, <1>8, <1>9, <1>10, <1>11, <1>12 DEF FfldbInv

----------------------------------------------------------------------------
(* The end of a commit. *)

\* The cursor is where the committed state ends once the transaction is over it.
LEMMA CursorOver ==
  ASSUME NEW t \in Layers, NEW base \in States, NEW p \in Locs, t.keys[WriteLoc] = p,
         t.remove \subseteq Keys
  PROVE  Over(t, base)[WriteLoc] = p
BY OverState, NamesAssumption DEF DbKeys

\* The transaction enters the cache, or the flush begins.
LEMMA CommitTxInv == ASSUME FfldbInv, CommitTx PROVE FfldbInv'
<1> DEFINE t == PutKey(pending, WriteLoc, cursor)
<1>1. /\ pc = "write" /\ blocks = <<>> /\ UNCHANGED <<files, store, rpc, snapshot, faults>>
      /\ \/ cache' = ApplyTx(cache, t) /\ CloseTx("idle") /\ UNCHANGED ldb
         \/ pc' = "sync" /\ pending' = t /\ UNCHANGED <<meta, blocks, old>>
  BY ZenonT(40) DEF CommitTx
<1>2. /\ Reaches(flen, cursor) /\ Before(DbEnd, cursor) /\ Before(LdbEnd, DbEnd) /\ cursor \in Locs
      /\ DbEnd \in Locs /\ LdbEnd \in Locs /\ cache \in Layers /\ ldb \in States
      /\ pending \in Layers /\ pending.remove \subseteq Keys /\ cache.remove \subseteq Keys
      /\ Listed(data, pending.keys, cursor) /\ Running /\ AllListed /\ Within
  BY ZenonT(40), <1>1 DEF FfldbInv, TypeOK, Cursors, Running, Ends, Progress
<1>3. /\ t \in Layers /\ t.remove \subseteq Keys /\ t.keys[WriteLoc] = cursor
      /\ Listed(data, t.keys, cursor)
  BY ZenonT(40), <1>2, CursorPut
<1> HIDE DEF t
<1>4. CASE cache' = ApplyTx(cache, t) /\ CloseTx("idle") /\ UNCHANGED ldb
  <2>1. /\ pc' = "idle" /\ pending' = Empty /\ blocks' = <<>> /\ old' = Origin
        /\ pending' \in Layers /\ blocks' \in Seq(Blocks) /\ old' \in Locs
        /\ pending'.remove = {} /\ \A b \in Blocks : pending'.keys[b] = Nil
    BY ZenonT(40), <1>4, ClosedTx
  <2>2. cache' \in Layers /\ Committed' = Over(t, Committed) /\ Committed \in States
    BY ZenonT(40), <1>2, <1>3, <1>4, ApplyOver, OverState DEF Committed
  <2>3. DbEnd' = cursor /\ LdbEnd' = LdbEnd
    BY ZenonT(40), <1>2, <1>3, <1>4, <2>2, CursorOver DEF DbEnd, LdbEnd
  <2>4. UNCHANGED <<data, flen, synced, cursor, fileOpen, rpc, snapshot, faults>>
    BY ZenonT(40), <1>1 DEF files, store
  <2>5. cache'.remove \subseteq Keys
    BY ZenonT(40), <1>2, <1>3, <1>4 DEF ApplyTx
  <2>6. Before(LdbEnd, cursor) /\ Before(cursor, cursor)
    BY ZenonT(40), <1>2, BeforeOrder
  <2>7. Ends'
    BY ZenonT(40), <1>2, <2>1, <2>3, <2>4, <2>5, <2>6 DEF FfldbInv, Ends
  <2>8. AllListed'
    <3>1. Listed(data, cache.keys, cursor)
          /\ \A r \in Readers : Listed(data, snapshot[r].base, cursor)
                                /\ Listed(data, snapshot[r].layer.keys, cursor)
      BY ZenonT(40), <1>2, ListedLater DEF AllListed
    <3>2. Listed(data, ApplyTx(cache, t).keys, cursor)
      BY ZenonT(40), <1>2, <1>3, <3>1, ListedApply
    <3>3. QED
      BY ZenonT(40), <1>2, <1>4, <2>3, <2>4, <3>1, <3>2 DEF AllListed
  <2>9. TypeOK'
    BY ZenonT(40), <1>4, <2>1, <2>2, <2>4 DEF FfldbInv, TypeOK
  <2>10. Cursors'
    BY ZenonT(40), <1>2, <2>1, <2>3, <2>4, <2>6 DEF Cursors, Running
  <2>11. Progress'
    BY ZenonT(40), <2>1 DEF Progress
  <2>12. Synchronised'
    BY ZenonT(40), <1>1, <1>2, <2>1, <2>3, <2>4 DEF FfldbInv, Synchronised, Safe, Running
  <2>13. Within'
    BY ZenonT(40), <1>2, <2>4 DEF Within
  <2>14. QED
    BY <2>7, <2>8, <2>9, <2>10, <2>11, <2>12, <2>13 DEF FfldbInv
<1>5. CASE pc' = "sync" /\ pending' = t /\ UNCHANGED <<meta, blocks, old>>
  <2>1. Within' /\ Ends' /\ AllListed'
    BY ZenonT(40), <1>1, <1>3, <1>5, SameDisk
  <2>2. Cursors' /\ Synchronised'
    BY ZenonT(40), <1>1, <1>2, <1>5, SameCursor
  <2>3. UNCHANGED <<data, cursor>>
    BY ZenonT(40), <1>1 DEF files, store
  <2>4. Progress'
    BY ZenonT(40), <1>1, <1>3, <1>5, <2>3 DEF Progress
  <2>5. TypeOK'
    BY ZenonT(40), <1>1, <1>3, <1>5 DEF FfldbInv, TypeOK, meta, files, store
  <2>6. QED
    BY ZenonT(40), <2>1, <2>2, <2>4, <2>5 DEF FfldbInv
<1>6. QED
  BY ZenonT(40), <1>1, <1>4, <1>5

\* Once the only file is synced, everything before the cursor is.
LEMMA SyncedCursor ==
  ASSUME FfldbInv, PowerLoss, MaxFile = 0, Running, pc # "undo",
         synced' = IF fileOpen THEN [synced EXCEPT ![cursor.file] = flen[cursor.file]] ELSE synced
  PROVE  synced'[0] <= flen[0] /\ \A q \in Locs : Before(q, cursor) => q.off = 0 \/ q.off <= synced'[0]
<1>1. FileNums = {0} /\ 0 \in FileNums
  BY DEF FileNums
<1>2. \A q \in Locs : q.file = 0 /\ q.off \in Nat
  BY <1>1, SizeAssumption DEF Locs
<1>3. /\ flen \in [FileNums -> -1 .. MaxBlockFileSize] /\ synced \in [FileNums -> -1 .. MaxBlockFileSize]
      /\ cursor \in Locs /\ synced[0] <= flen[0] /\ Reaches(flen, cursor) /\ (fileOpen \/ Safe(cursor))
  BY DEF FfldbInv, TypeOK, Synchronised, Cursors
<1>4. synced[0] \in Int /\ flen[0] \in Int /\ cursor.file = 0 /\ cursor.off \in Nat
  BY <1>1, <1>2, <1>3, SizeAssumption
<1>5. synced'[0] = IF fileOpen THEN flen[0] ELSE synced[0]
  BY ZenonT(40), <1>1, <1>3, <1>4
<1>6. cursor.off = 0 \/ cursor.off <= flen[0]
  BY <1>3, <1>4 DEF Reaches, Origin
<1>7. cursor.off = 0 \/ cursor.off <= synced'[0]
  BY <1>3, <1>5, <1>6 DEF Safe
<1>8. \A q \in Locs : Before(q, cursor) => q.off <= cursor.off
  BY <1>2, <1>4 DEF Before
<1>9. synced'[0] <= flen[0] /\ synced'[0] \in Int
  BY <1>3, <1>4, <1>5
<1>10. QED
  BY <1>2, <1>4, <1>7, <1>8, <1>9

\* The current file is synced.
LEMMA SyncBlocksInv == ASSUME FfldbInv, SyncBlocks, PowerLoss => MaxFile = 0 PROVE FfldbInv'
<1>1. /\ pc = "sync" /\ pc' = "flush"
      /\ synced' = IF fileOpen THEN [synced EXCEPT ![cursor.file] = flen[cursor.file]] ELSE synced
      /\ UNCHANGED <<meta, data, flen, store, txn, reads, faults>>
  BY ZenonT(40) DEF SyncBlocks
<1>2. UNCHANGED <<ldb, cache, data, flen, cursor, fileOpen, pending, blocks, old, rpc, snapshot, LdbEnd, DbEnd>>
  BY ZenonT(40), <1>1 DEF meta, store, txn, reads, LdbEnd, DbEnd, Committed
<1>3. Within' /\ Ends' /\ AllListed' /\ Progress' /\ Cursors'
  BY ZenonT(40), <1>1, <1>2 DEF FfldbInv, Within, Ends, AllListed, Progress, Cursors, Running, Committed
<1>4. /\ cursor.file \in FileNums /\ flen \in [FileNums -> -1 .. MaxBlockFileSize]
      /\ synced \in [FileNums -> -1 .. MaxBlockFileSize] /\ cursor \in Locs
  BY DEF FfldbInv, TypeOK, Locs
<1>5. synced' \in [FileNums -> -1 .. MaxBlockFileSize]
  BY ZenonT(40), <1>1, <1>4
<1>6. TypeOK'
  BY ZenonT(40), <1>1, <1>2, <1>5 DEF FfldbInv, TypeOK, meta, reads
<1>7. ASSUME PowerLoss
      PROVE  synced'[0] <= flen[0] /\ (Safe(LdbEnd) => Safe(LdbEnd)') /\ Safe(cursor)'
  <2>1. synced'[0] <= flen[0] /\ \A q \in Locs : Before(q, cursor) => q.off = 0 \/ q.off <= synced'[0]
    BY ZenonT(40), <1>1, <1>7, SyncedCursor DEF Running
  <2>2. Before(DbEnd, cursor) /\ Before(LdbEnd, DbEnd) /\ LdbEnd \in Locs /\ DbEnd \in Locs
    BY <1>1 DEF FfldbInv, Ends, Cursors, Running
  <2>3. Before(LdbEnd, cursor) /\ Before(cursor, cursor)
    BY ZenonT(40), <1>4, <2>2, BeforeOrder
  <2>4. QED
    BY ZenonT(40), <1>2, <1>4, <2>1, <2>2, <2>3 DEF Safe
<1>8. Synchronised'
  BY <1>1, <1>2, <1>7 DEF FfldbInv, Synchronised
<1>9. QED
  BY ZenonT(40), <1>3, <1>6, <1>8 DEF FfldbInv

\* The cache goes to leveldb.
LEMMA FlushInv == ASSUME FfldbInv, Flush, PowerLoss => MaxFile = 0 PROVE FfldbInv'
<1>1. /\ pc = "flush" /\ pc' = "clear" /\ ldb' = Over(cache, ldb)
      /\ UNCHANGED <<cache, files, store, txn, reads, faults>>
  BY DEF Flush
<1>2. UNCHANGED <<cache, data, flen, synced, cursor, fileOpen, pending, blocks, old, rpc, snapshot, faults>>
  BY ZenonT(40), <1>1 DEF files, store, txn, reads
<1>3. /\ cache \in Layers /\ ldb \in States /\ DbEnd \in Locs /\ LdbEnd \in Locs /\ Before(LdbEnd, DbEnd)
      /\ AllListed /\ Before(DbEnd, cursor) /\ cursor \in Locs
  BY ZenonT(40), <1>1 DEF FfldbInv, TypeOK, Ends, Cursors, Running
<1>4. ldb' = Committed /\ ldb' \in States /\ Committed' = ldb'
  BY ZenonT(40), <1>1, <1>2, <1>3, OverState, OverTwice DEF Committed
<1>5. LdbEnd' = DbEnd /\ DbEnd' = DbEnd
  BY <1>4 DEF LdbEnd, DbEnd
<1>6. Before(DbEnd, DbEnd)
  BY ZenonT(40), <1>3, BeforeOrder
<1>7. Within' /\ Ends' /\ Cursors' /\ Progress'
  BY ZenonT(40), <1>1, <1>2, <1>4, <1>5, <1>6 DEF FfldbInv, Within, Ends, Cursors, Progress, Running
<1>8. AllListed'
  <2>1. Listed(data, ldb, DbEnd)
    BY ZenonT(40), <1>3, ListedLater DEF AllListed
  <2>2. Listed(data, Committed, DbEnd)
    BY ZenonT(40), <1>3, <2>1, ListedOver DEF AllListed, Committed
  <2>3. QED
    BY ZenonT(40), <1>2, <1>3, <1>4, <1>5, <2>2 DEF AllListed
<1>9. TypeOK'
  BY ZenonT(40), <1>1, <1>2, <1>4 DEF FfldbInv, TypeOK
<1>10. Synchronised'
  <2>1. PowerLoss => Safe(cursor)
    BY <1>1 DEF FfldbInv, Synchronised
  <2>2. PowerLoss => Safe(DbEnd)
    <3> SUFFICES ASSUME PowerLoss PROVE Safe(DbEnd)
      OBVIOUS
    <3>1. DbEnd.file = cursor.file /\ DbEnd.off \in Nat /\ cursor.off \in Nat
      BY <1>3, SizeAssumption DEF Locs, FileNums
    <3>2. DbEnd.off <= cursor.off
      BY <1>3, <3>1 DEF Before, Locs, FileNums
    <3>3. synced[0] \in Int
      BY SizeAssumption DEF FfldbInv, TypeOK, FileNums
    <3>4. QED
      BY <2>1, <3>1, <3>2, <3>3 DEF Safe
  <2>3. QED
    BY <1>1, <1>2, <1>5, <2>1, <2>2 DEF FfldbInv, Synchronised, Safe, Running
<1>11. QED
  BY <1>7, <1>8, <1>9, <1>10 DEF FfldbInv

\* The cache is emptied.
LEMMA ClearCacheInv == ASSUME FfldbInv, ClearCache PROVE FfldbInv'
<1>1. /\ pc = "clear" /\ pc' = "direct" /\ cache' = Empty
      /\ UNCHANGED <<ldb, files, store, txn, reads, faults>>
  BY DEF ClearCache
<1>2. UNCHANGED <<ldb, data, flen, synced, cursor, fileOpen, pending, blocks, old, rpc, snapshot, faults>>
  BY ZenonT(40), <1>1 DEF files, store, txn, reads
<1>3. ldb \in States /\ Committed = ldb /\ AllListed
  BY ZenonT(40), <1>1 DEF FfldbInv, TypeOK, Progress
<1>4. cache' \in Layers /\ Committed' = ldb
  BY <1>1, <1>2, <1>3, OverEmpty DEF Committed
<1>5. LdbEnd' = LdbEnd /\ DbEnd' = DbEnd
  BY <1>2, <1>3, <1>4 DEF LdbEnd, DbEnd
<1>6. cache'.remove \subseteq Keys /\ \A b \in Blocks : cache'.keys[b] = Nil
  BY ZenonT(40), <1>1 DEF Empty, DbKeys
<1>7. Within' /\ Ends' /\ Cursors' /\ Progress'
  BY ZenonT(40), <1>1, <1>2, <1>5, <1>6 DEF FfldbInv, Within, Ends, Cursors, Progress, Running
<1>8. AllListed'
  <2>1. Listed(data, cache'.keys, DbEnd)
    BY ZenonT(40), <1>6, ListedNone
  <2>2. QED
    BY ZenonT(40), <1>2, <1>3, <1>5, <2>1 DEF AllListed
<1>9. TypeOK'
  BY ZenonT(40), <1>1, <1>2, <1>4 DEF FfldbInv, TypeOK
<1>10. Synchronised'
  BY ZenonT(40), <1>1, <1>2, <1>5 DEF FfldbInv, Synchronised, Safe, Running
<1>11. QED
  BY <1>7, <1>8, <1>9, <1>10 DEF FfldbInv

\* The transaction goes to leveldb.
LEMMA CommitDirectInv == ASSUME FfldbInv, CommitDirect PROVE FfldbInv'
<1>1. /\ pc = "direct" /\ ldb' = Over(pending, ldb) /\ CloseTx("idle")
      /\ UNCHANGED <<cache, files, store, rpc, snapshot, faults>>
  BY DEF CommitDirect
<1>2. UNCHANGED <<cache, data, flen, synced, cursor, fileOpen, rpc, snapshot, faults>>
  BY ZenonT(40), <1>1 DEF files, store
<1>3. /\ pc' = "idle" /\ pending' = Empty /\ blocks' = <<>> /\ old' = Origin
      /\ pending' \in Layers /\ blocks' \in Seq(Blocks) /\ old' \in Locs
      /\ pending'.remove = {} /\ \A b \in Blocks : pending'.keys[b] = Nil
  BY ZenonT(40), <1>1, ClosedTx
<1>4. /\ cache = Empty /\ ldb \in States /\ pending \in Layers /\ pending.remove \subseteq Keys
      /\ pending.keys[WriteLoc] = cursor /\ Listed(data, pending.keys, cursor) /\ AllListed
      /\ cursor \in Locs /\ DbEnd \in Locs /\ LdbEnd \in Locs /\ Before(DbEnd, cursor)
      /\ Before(LdbEnd, DbEnd) /\ Reaches(flen, cursor)
  BY ZenonT(40), <1>1 DEF FfldbInv, TypeOK, Ends, Cursors, Progress, Running
<1>5. ldb' \in States /\ Committed' = ldb'
  BY ZenonT(40), <1>1, <1>2, <1>4, OverState, OverEmpty DEF Committed
<1>6. LdbEnd' = cursor /\ DbEnd' = cursor
  BY ZenonT(40), <1>1, <1>4, <1>5, CursorOver DEF LdbEnd, DbEnd
<1>7. Before(LdbEnd, cursor) /\ Before(cursor, cursor)
  BY ZenonT(40), <1>4, BeforeOrder
<1>8. Within' /\ Ends' /\ Cursors' /\ Progress'
  BY ZenonT(40), <1>2, <1>3, <1>4, <1>6, <1>7 DEF FfldbInv, Within, Ends, Cursors, Progress, Running
<1>9. AllListed'
  <2>1. /\ Listed(data, ldb, cursor) /\ Listed(data, cache.keys, cursor)
        /\ \A r \in Readers : Listed(data, snapshot[r].base, cursor)
                              /\ Listed(data, snapshot[r].layer.keys, cursor)
    BY ZenonT(40), <1>4, <1>7, ListedLater DEF AllListed
  <2>2. Listed(data, Over(pending, ldb), cursor)
    BY ZenonT(40), <1>4, <2>1, ListedOver
  <2>3. QED
    BY ZenonT(40), <1>1, <1>2, <1>6, <2>1, <2>2 DEF AllListed
<1>10. TypeOK'
  BY ZenonT(40), <1>2, <1>3, <1>5 DEF FfldbInv, TypeOK
<1>11. Synchronised'
  BY ZenonT(40), <1>1, <1>2, <1>3, <1>6 DEF FfldbInv, Synchronised, Safe
<1>12. QED
  BY <1>8, <1>9, <1>10, <1>11 DEF FfldbInv

----------------------------------------------------------------------------
(* Read transactions, stops and starts. *)

\* Snapshots list what leveldb and the cache do.
LEMMA ReaderInv ==
  ASSUME FfldbInv, NEW r \in Readers, ReaderBegin(r) \/ ReaderSnapshot(r) \/ ReaderEnd(r)
  PROVE  FfldbInv'
<1> DEFINE none == [base |-> [k \in DbKeys |-> Nil], layer |-> Empty]
<1>1. /\ UNCHANGED <<meta, files, store, pc, txn, faults>>
      /\ rpc' = [rpc EXCEPT ![r] = "begun"] \/ rpc' = [rpc EXCEPT ![r] = "open"]
         \/ rpc' = [rpc EXCEPT ![r] = "none"]
      /\ \/ snapshot' = [snapshot EXCEPT ![r].base = ldb]
         \/ snapshot' = [snapshot EXCEPT ![r].layer = cache]
         \/ snapshot' = [snapshot EXCEPT ![r] = none]
  BY DEF ReaderBegin, ReaderSnapshot, ReaderEnd
<1>2. UNCHANGED <<ldb, cache, data, flen, synced, cursor, fileOpen, pending, blocks, old, LdbEnd, DbEnd, Committed>>
  BY <1>1 DEF meta, files, store, txn, LdbEnd, DbEnd, Committed
<1>3. Within' /\ Ends' /\ Cursors' /\ Progress' /\ Synchronised'
  BY ZenonT(40), <1>1, <1>2 DEF FfldbInv, Within, Ends, Cursors, Progress, Synchronised, Safe, Running
<1>4. /\ snapshot \in [Readers -> [base : States, layer : Layers]] /\ ldb \in States /\ cache \in Layers
      /\ rpc \in [Readers -> {"none", "begun", "open"}] /\ AllListed
      /\ LdbEnd \in Locs /\ DbEnd \in Locs /\ Before(LdbEnd, DbEnd)
  BY ZenonT(40) DEF FfldbInv, TypeOK, Ends
<1>5. [k \in DbKeys |-> Nil] \in States /\ Empty \in Layers
      /\ \A b \in Blocks : [k \in DbKeys |-> Nil][b] = Nil /\ Empty.keys[b] = Nil
  BY ZenonT(40) DEF States, Empty, Layers, DbVals, DbKeys
<1>6. snapshot' \in [Readers -> [base : States, layer : Layers]]
  <2>1. none \in [base : States, layer : Layers]
    BY <1>5
  <2> HIDE DEF none
  <2>2. QED
    BY <1>1, <1>4, <2>1
<1>7. TypeOK'
  BY ZenonT(40), <1>1, <1>2, <1>4, <1>6 DEF FfldbInv, TypeOK
<1>8. ASSUME NEW q \in Readers
      PROVE  /\ snapshot'[q].base \in {snapshot[q].base, ldb, none.base}
             /\ snapshot'[q].layer \in {snapshot[q].layer, cache, none.layer}
  BY <1>1, <1>4
<1>9. Listed(data, ldb, DbEnd) /\ Listed(data, none.base, DbEnd) /\ Listed(data, none.layer.keys, DbEnd)
  BY ZenonT(40), <1>4, <1>5, ListedLater, ListedNone DEF AllListed
<1> HIDE DEF none
<1>10. \A q \in Readers : Listed(data, snapshot'[q].base, DbEnd) /\ Listed(data, snapshot'[q].layer.keys, DbEnd)
  BY ZenonT(40), <1>4, <1>8, <1>9 DEF AllListed
<1>11. AllListed'
  BY ZenonT(40), <1>2, <1>4, <1>10 DEF AllListed
<1>12. QED
  BY <1>3, <1>7, <1>11 DEF FfldbInv

\* What is left in memory when the process ends: nothing.
LEMMA AllGone ==
  ASSUME Gone
  PROVE  /\ cache' = Empty /\ pending' = Empty /\ blocks' = <<>> /\ pc' = "down"
         /\ cache' \in Layers /\ pending' \in Layers /\ blocks' \in Seq(Blocks)
         /\ old' \in Locs /\ cursor' \in Locs /\ fileOpen' = FALSE
         /\ rpc' \in [Readers -> {"none", "begun", "open"}]
         /\ snapshot' \in [Readers -> [base : States, layer : Layers]]
         /\ cache'.remove = {} /\ pending'.remove = {}
         /\ \A b \in Blocks : cache'.keys[b] = Nil /\ pending'.keys[b] = Nil
         /\ \A r \in Readers : \A b \in Blocks :
              snapshot'[r].base[b] = Nil /\ snapshot'[r].layer.keys[b] = Nil
<1>1. /\ cache' = Empty /\ CloseTx("down") /\ cursor' = Origin /\ fileOpen' = FALSE
      /\ rpc' = [r \in Readers |-> "none"]
      /\ snapshot' = [r \in Readers |-> [base |-> [k \in DbKeys |-> Nil], layer |-> Empty]]
  BY ZenonT(40) DEF Gone, Origin
<1>2. /\ pc' = "down" /\ pending' = Empty /\ blocks' = <<>> /\ old' = Origin
      /\ pending' \in Layers /\ blocks' \in Seq(Blocks) /\ old' \in Locs
      /\ pending'.remove = {} /\ \A b \in Blocks : pending'.keys[b] = Nil
  BY ZenonT(40), <1>1, ClosedTx
<1>3. [k \in DbKeys |-> Nil] \in States /\ \A b \in Blocks : [k \in DbKeys |-> Nil][b] = Nil
  BY ZenonT(40) DEF States, DbVals, DbKeys
<1>4. snapshot' \in [Readers -> [base : States, layer : Layers]]
  BY ZenonT(40), <1>1, <1>2, <1>3
<1>5. \A r \in Readers : \A b \in Blocks :
        snapshot'[r].base[b] = Nil /\ snapshot'[r].layer.keys[b] = Nil
  BY ZenonT(40), <1>1, <1>2, <1>3
<1>6. rpc' \in [Readers -> {"none", "begun", "open"}]
  BY <1>1
<1>7. QED
  BY ZenonT(40), <1>1, <1>2, <1>4, <1>5, <1>6

\* After a stop leveldb and the files are all there is.
LEMMA DownInv ==
  ASSUME FfldbInv, Gone, ldb' \in States, LdbEnd' \in Locs, Reaches(flen', LdbEnd'),
         Listed(data', ldb', LdbEnd'), Within', faults' \in 0 .. MaxFaults,
         data' \in [Cells -> (Blocks \X Nat) \cup {Nil}],
         flen' \in [FileNums -> -1 .. MaxBlockFileSize],
         synced' \in [FileNums -> -1 .. MaxBlockFileSize],
         PowerLoss => synced'[0] <= flen'[0] /\ Safe(LdbEnd)'
  PROVE  FfldbInv'
<1>1. /\ cache' = Empty /\ pending' = Empty /\ blocks' = <<>> /\ pc' = "down"
      /\ cache' \in Layers /\ pending' \in Layers /\ blocks' \in Seq(Blocks)
      /\ old' \in Locs /\ cursor' \in Locs /\ fileOpen' = FALSE
      /\ rpc' \in [Readers -> {"none", "begun", "open"}]
      /\ snapshot' \in [Readers -> [base : States, layer : Layers]]
      /\ cache'.remove = {} /\ pending'.remove = {}
      /\ \A b \in Blocks : cache'.keys[b] = Nil /\ pending'.keys[b] = Nil
      /\ \A r \in Readers : \A b \in Blocks :
           snapshot'[r].base[b] = Nil /\ snapshot'[r].layer.keys[b] = Nil
  BY ZenonT(40), AllGone
<1>2. Committed' = ldb' /\ DbEnd' = LdbEnd'
  BY ZenonT(40), <1>1, OverEmpty DEF Committed, DbEnd, LdbEnd
<1>3. Before(LdbEnd', LdbEnd')
  BY ZenonT(40), BeforeOrder
<1>4. Ends'
  BY ZenonT(40), <1>1, <1>2, <1>3 DEF Ends
<1>5. AllListed'
  BY ZenonT(40), <1>1, <1>2, ListedNone DEF AllListed
<1>6. TypeOK'
  BY ZenonT(40), <1>1 DEF TypeOK
<1>7. Cursors' /\ Progress'
  BY ZenonT(40), <1>1 DEF Cursors, Progress, Running
<1>8. Synchronised'
  BY ZenonT(40), <1>1 DEF Synchronised, Running
<1>9. QED
  BY ZenonT(40), <1>4, <1>5, <1>6, <1>7, <1>8 DEF FfldbInv

\* Close flushes the cache, or fails to.
LEMMA CloseInv == ASSUME FfldbInv, Close, PowerLoss => MaxFile = 0 PROVE FfldbInv'
<1>1. /\ pc = "idle" /\ Gone /\ UNCHANGED <<data, flen>>
      /\ \/ /\ synced' = IF fileOpen THEN [synced EXCEPT ![cursor.file] = flen[cursor.file]] ELSE synced
            /\ ldb' = Over(cache, ldb) /\ UNCHANGED faults
         \/ Fault /\ UNCHANGED <<ldb, synced>>
  BY ZenonT(40) DEF Close
<1>2. /\ cache \in Layers /\ ldb \in States /\ DbEnd \in Locs /\ LdbEnd \in Locs /\ Before(LdbEnd, DbEnd)
      /\ AllListed /\ Before(DbEnd, cursor) /\ cursor \in Locs /\ Reaches(flen, LdbEnd) /\ Reaches(flen, DbEnd)
      /\ data \in [Cells -> (Blocks \X Nat) \cup {Nil}] /\ flen \in [FileNums -> -1 .. MaxBlockFileSize]
      /\ synced \in [FileNums -> -1 .. MaxBlockFileSize] /\ faults \in 0 .. MaxFaults /\ Within
      /\ Reaches(flen, cursor)
  BY ZenonT(40), <1>1 DEF FfldbInv, TypeOK, Ends, Cursors, Running
<1>3. Within' /\ data' \in [Cells -> (Blocks \X Nat) \cup {Nil}] /\ flen' \in [FileNums -> -1 .. MaxBlockFileSize]
  BY ZenonT(40), <1>1, <1>2 DEF Within
<1>4. CASE Fault /\ UNCHANGED <<ldb, synced>>
  <2>1. LdbEnd' = LdbEnd
    BY ZenonT(40), <1>4 DEF LdbEnd
  <2>2. faults' \in 0 .. MaxFaults
    BY <1>2, <1>4, SizeAssumption DEF Fault
  <2>3. Listed(data', ldb', LdbEnd')
    BY ZenonT(40), <1>1, <1>2, <1>4, <2>1 DEF AllListed
  <2>4. PowerLoss => synced'[0] <= flen'[0] /\ Safe(LdbEnd)'
    BY ZenonT(40), <1>1, <1>4, <2>1 DEF FfldbInv, Synchronised, Safe
  <2>5. ldb' \in States /\ LdbEnd' \in Locs /\ Reaches(flen', LdbEnd') /\ synced' \in [FileNums -> -1 .. MaxBlockFileSize]
    BY ZenonT(40), <1>1, <1>2, <1>4, <2>1
  <2>6. QED
    BY <1>1, <1>3, <2>2, <2>3, <2>4, <2>5, DownInv
<1>5. CASE /\ synced' = IF fileOpen THEN [synced EXCEPT ![cursor.file] = flen[cursor.file]] ELSE synced
           /\ ldb' = Over(cache, ldb) /\ UNCHANGED faults
  <2>1. ldb' = Committed /\ ldb' \in States /\ LdbEnd' = DbEnd
    BY ZenonT(40), <1>2, <1>5, OverState DEF Committed, LdbEnd, DbEnd
  <2>2. Listed(data, Committed, DbEnd)
    BY ZenonT(40), <1>2, ListedLater, ListedOver DEF AllListed, Committed
  <2>3. Listed(data', ldb', LdbEnd')
    BY ZenonT(40), <1>1, <2>1, <2>2
  <2>4. cursor.file \in FileNums
    BY <1>2 DEF Locs
  <2>5. synced' \in [FileNums -> -1 .. MaxBlockFileSize]
    BY ZenonT(40), <1>2, <1>5, <2>4
  <2>6. ASSUME PowerLoss PROVE synced'[0] <= flen'[0] /\ Safe(LdbEnd)'
    <3>1. synced'[0] <= flen[0] /\ \A q \in Locs : Before(q, cursor) => q.off = 0 \/ q.off <= synced'[0]
      BY <1>1, <1>2, <1>5, <2>6, SyncedCursor DEF Running
    <3>2. QED
      BY ZenonT(40), <1>1, <1>2, <2>1, <3>1 DEF Safe
  <2>7. QED
    BY ZenonT(40), <1>1, <1>2, <1>3, <1>5, <2>1, <2>3, <2>5, <2>6, DownInv
<1>6. QED
  BY ZenonT(40), <1>1, <1>4, <1>5

\* The process stops, or the machine does while there is one file.
LEMMA StopInv == ASSUME FfldbInv, Stop, PowerLoss => MaxFile = 0 PROVE FfldbInv'
<1>1. /\ Fault /\ Gone /\ UNCHANGED <<ldb, synced>>
      /\ ~PowerLoss => UNCHANGED <<data, flen>>
      /\ PowerLoss => /\ flen' \in [FileNums -> -1 .. MaxBlockFileSize] /\ data' = Trimmed(flen')
                      /\ \A f \in FileNums : flen'[f] \in synced[f] .. flen[f]
  BY ZenonT(40) DEF Stop
<1>2. /\ ldb \in States /\ LdbEnd \in Locs /\ Listed(data, ldb, LdbEnd) /\ Reaches(flen, LdbEnd)
      /\ data \in [Cells -> (Blocks \X Nat) \cup {Nil}] /\ flen \in [FileNums -> -1 .. MaxBlockFileSize]
      /\ synced \in [FileNums -> -1 .. MaxBlockFileSize] /\ faults \in 0 .. MaxFaults /\ Within
  BY ZenonT(40) DEF FfldbInv, TypeOK, Ends, AllListed
<1>3. LdbEnd' = LdbEnd /\ faults' \in 0 .. MaxFaults
  BY <1>1, <1>2, SizeAssumption DEF LdbEnd, Fault
<1>4. CASE ~PowerLoss
  <2>1. Within'
    BY ZenonT(40), <1>1, <1>2, <1>4 DEF Within
  <2>2. QED
    BY ZenonT(40), <1>1, <1>2, <1>3, <1>4, <2>1, DownInv
<1>5. CASE PowerLoss
  <2>1. FileNums = {0} /\ 0 \in FileNums
    BY <1>5 DEF FileNums
  <2>2. /\ synced[0] \in Int /\ flen'[0] \in Int /\ synced[0] <= flen'[0] /\ Safe(LdbEnd)
        /\ LdbEnd.file = 0 /\ LdbEnd.off \in Nat
    <3>1. flen'[0] \in synced[0] .. flen[0]
      BY <1>1, <1>5, <2>1
    <3>2. synced[0] \in Int /\ flen[0] \in Int
      BY <1>2, <2>1, SizeAssumption
    <3>3. LdbEnd.file = 0 /\ LdbEnd.off \in Nat
      BY <1>2, <2>1, SizeAssumption DEF Locs
    <3>4. QED
      BY <1>5, <3>1, <3>2, <3>3 DEF FfldbInv, Synchronised
  <2>3. \A c \in Cells : c[1] = 0 /\ c[2] \in Nat
    BY <2>1, SizeAssumption DEF Cells
  <2>4. \A c \in Cells : data'[c] = IF c[2] < flen'[c[1]] THEN data[c] ELSE Nil
    BY ZenonT(40), <1>1, <1>5 DEF Trimmed
  <2>5. data' \in [Cells -> (Blocks \X Nat) \cup {Nil}]
    BY <1>1, <1>2, <1>5 DEF Trimmed
  <2>6. Within'
    BY ZenonT(40), <2>4 DEF Within
  <2>7. SameBelow(data, data', LdbEnd)
    BY <2>2, <2>3, <2>4 DEF SameBelow, Safe
  <2>8. Listed(data', ldb, LdbEnd)
    BY <1>2, <2>7, ListedKept
  <2>9. Reaches(flen', LdbEnd)
    <3>1. CASE LdbEnd.off = 0
      <4>1. LdbEnd = Origin
        BY <1>2, <2>2, <3>1 DEF Locs, Origin
      <4>2. QED
        BY ZenonT(40), <4>1 DEF Reaches
    <3>2. CASE LdbEnd.off # 0
      <4>1. LdbEnd.off <= flen'[0] /\ flen'[0] # -1
        BY <2>2, <3>2 DEF Safe
      <4>2. QED
        BY <2>2, <4>1 DEF Reaches
    <3>3. QED
      BY <3>1, <3>2
  <2>10. synced'[0] <= flen'[0] /\ Safe(LdbEnd)'
    BY <1>1, <1>3, <2>2 DEF Safe
  <2>11. QED
    BY ZenonT(40), <1>1, <1>2, <1>3, <1>5, <2>5, <2>6, <2>8, <2>9, <2>10, DownInv
<1>6. QED
  BY <1>4, <1>5

\* What Scanned needs of the natural numbers; ListProofs proves it.
NumbersOrdered ==
  \A T : (\A x \in T : x \in Nat) /\ T # {} => \E x \in T : \A y \in T : x <= y

\* scanBlockFiles finds at least the files that leveldb knows of.
LEMMA Scanned ==
  ASSUME NumbersOrdered, flen \in [FileNums -> -1 .. MaxBlockFileSize], NEW p \in Locs, Reaches(flen, p)
  PROVE  ScanBlockFiles \in Locs /\ Before(p, ScanBlockFiles)
<1> DEFINE there == {f \in FileNums : \A g \in 0 .. f : flen[g] # -1}
           last == CHOOSE n \in there : n + 1 \notin there
<1>1. ScanBlockFiles = IF there = {} THEN Origin ELSE [file |-> last, off |-> flen[last]]
  BY DEF ScanBlockFiles, Origin
<1>2. \A f \in FileNums : f \in Nat /\ f <= MaxFile
  BY SizeAssumption DEF FileNums
<1>3. p.file \in FileNums /\ p.off \in Nat /\ p.file \in Nat
  BY <1>2, SizeAssumption DEF Locs
<1>4. p # Origin => p.file \in there
  BY <1>3 DEF Reaches
<1>5. \A f \in there : \A g \in 0 .. f : g \in there
  <2> TAKE f \in there
  <2> TAKE g \in 0 .. f
  <2>1. g \in FileNums /\ \A h \in 0 .. g : h \in 0 .. f
    BY <1>2, SizeAssumption DEF FileNums
  <2>2. QED
    BY <2>1
<1>6. \A f \in there : f \in Nat /\ f <= MaxFile /\ f \in FileNums /\ flen[f] \in 0 .. MaxBlockFileSize
  <2> TAKE f \in there
  <2>1. f \in FileNums /\ f \in Nat /\ f <= MaxFile
    BY <1>2
  <2>2. f \in 0 .. f
    BY <2>1
  <2>3. flen[f] # -1 /\ flen[f] \in -1 .. MaxBlockFileSize
    BY ZenonT(40), <2>1, <2>2
  <2>4. QED
    BY <2>1, <2>3, SizeAssumption
<1> HIDE DEF there
<1>7. CASE there = {}
  <2>1. p = Origin
    BY <1>4, <1>7
  <2>2. QED
    BY <1>1, <1>7, <2>1, BeforeOrder
<1>8. CASE there # {}
  <2>1. \E n \in there : n + 1 \notin there
    <3> DEFINE T == {m \in Nat : m \notin there}
    <3>1. MaxFile + 1 \in T
      BY <1>6, SizeAssumption
    <3> HIDE DEF T
    <3>2. PICK x \in T : \A y \in T : x <= y
      <4>1. \A m \in T : m \in Nat
        BY DEF T
      <4>2. QED
        BY Zenon, <3>1, <4>1 DEF NumbersOrdered
    <3>3. x \in Nat /\ x \notin there
      BY DEF T
    <3>4. x # 0
      <4>1. PICK f \in there : TRUE
        BY <1>8
      <4>2. 0 \in 0 .. f
        BY <1>6
      <4>3. QED
        BY <1>5, <3>3, <4>2
    <3>5. x - 1 \in Nat /\ x - 1 \notin T /\ (x - 1) + 1 = x
      BY <3>2, <3>3, <3>4
    <3>6. x - 1 \in there
      BY <3>5 DEF T
    <3>7. QED
      BY <3>3, <3>5, <3>6
  <2>2. last \in there /\ last + 1 \notin there
    BY <2>1
  <2> HIDE DEF last
  <2>3. last \in Nat /\ last \in FileNums /\ flen[last] \in 0 .. MaxBlockFileSize
    BY <1>6, <2>2
  <2>4. ScanBlockFiles = [file |-> last, off |-> flen[last]]
    BY <1>1, <1>8
  <2>5. ScanBlockFiles \in Locs
    BY <2>3, <2>4 DEF Locs
  <2>6. CASE p = Origin
    BY ZenonT(40), <2>5, <2>6, BeforeOrder
  <2>7. CASE p # Origin
    <3>1. p.file \in there /\ p.off <= flen[p.file]
      BY <1>4, <2>7 DEF Reaches
    <3>2. ~(last < p.file)
      <4>1. SUFFICES ASSUME last < p.file PROVE FALSE
        OBVIOUS
      <4>2. last + 1 \in 0 .. p.file
        BY <1>3, <2>3, <4>1
      <4>3. QED
        BY <1>5, <2>2, <3>1, <4>2
    <3>3. p.file < last \/ (p.file = last /\ p.off <= flen[last])
      BY <1>3, <2>3, <3>1, <3>2
    <3>4. QED
      BY <2>4, <2>5, <3>3 DEF Before
  <2>8. QED
    BY <2>5, <2>6, <2>7
<1>9. QED
  BY ZenonT(40), <1>7, <1>8

\* The files are scanned.
LEMMA OpenDBInv == ASSUME NumbersOrdered, FfldbInv, OpenDB PROVE FfldbInv'
<1>1. /\ pc = "down" /\ pc' = "reconcile" /\ cursor' = ScanBlockFiles
      /\ UNCHANGED <<meta, files, fileOpen, txn, reads, faults>>
  BY ZenonT(40) DEF OpenDB
<1>2. UNCHANGED <<ldb, cache, data, flen, synced, pending, blocks, old, rpc, snapshot, LdbEnd, DbEnd, Committed>>
  BY ZenonT(40), <1>1 DEF meta, files, txn, reads, LdbEnd, DbEnd, Committed
<1>3. cursor' \in Locs /\ Before(LdbEnd, cursor')
  BY ZenonT(40), <1>1, Scanned DEF FfldbInv, TypeOK, Ends
<1>4. Within' /\ Ends' /\ AllListed' /\ Progress' /\ Synchronised'
  BY ZenonT(40), <1>1, <1>2 DEF FfldbInv, Within, Ends, AllListed, Progress, Synchronised, Safe, Running
<1>5. Cursors'
  BY ZenonT(40), <1>1, <1>2, <1>3 DEF Cursors, Running
<1>6. TypeOK'
  BY ZenonT(40), <1>1, <1>2, <1>3 DEF FfldbInv, TypeOK
<1>7. QED
  BY <1>4, <1>5, <1>6 DEF FfldbInv

\* The files are rolled back to where leveldb says they end.
LEMMA ReconcileInv == ASSUME FfldbInv, ReconcileDB, PowerLoss => MaxFile = 0 PROVE FfldbInv'
<1>1. pc = "reconcile" /\ UNCHANGED <<meta, txn, reads>> /\ Before(LdbEnd, cursor)
  BY DEF ReconcileDB, FfldbInv, Cursors
<1>2. HandleRollback(LdbEnd) /\ pc' = "idle"
  BY <1>1 DEF ReconcileDB, LdbEnd
<1>3. UNCHANGED <<ldb, cache, pending, blocks, old, rpc, snapshot>>
  BY ZenonT(40), <1>1 DEF meta, txn, reads
<1>4. /\ ldb \in States /\ LdbEnd \in Locs /\ Reaches(flen, LdbEnd) /\ cache = Empty
      /\ pending = Empty /\ blocks = <<>> /\ \A b \in Blocks : pending.keys[b] = Nil
  BY ZenonT(40), <1>1 DEF FfldbInv, TypeOK, Ends, Progress
<1>5. Committed = ldb /\ DbEnd = LdbEnd
  BY ZenonT(40), <1>4, OverEmpty DEF Committed, DbEnd, LdbEnd
<1>6. /\ cursor' = LdbEnd /\ fileOpen' \in BOOLEAN /\ faults' \in 0 .. MaxFaults
      /\ data' \in [Cells -> (Blocks \X Nat) \cup {Nil}]
      /\ flen' \in [FileNums -> -1 .. MaxBlockFileSize]
      /\ synced' \in [FileNums -> -1 .. MaxBlockFileSize]
      /\ SameBelow(data, data', LdbEnd) /\ Within'
      /\ \A q \in Locs : Before(q, LdbEnd) /\ Reaches(flen, q) => Reaches(flen', q)
  BY ZenonT(40), <1>1, <1>2, <1>4, RolledBack
<1>7. Before(LdbEnd, LdbEnd)
  BY ZenonT(40), <1>4, BeforeOrder
<1>8. AllListed' /\ LdbEnd' = LdbEnd /\ DbEnd' = DbEnd
  BY ZenonT(40), <1>1, <1>3, <1>4, <1>5, <1>6, <1>7, DiskKept
<1>9. Reaches(flen', LdbEnd)
  BY ZenonT(40), <1>4, <1>6, <1>7
<1>10. Ends'
  BY ZenonT(40), <1>3, <1>5, <1>7, <1>8, <1>9 DEF FfldbInv, Ends
<1>11. Cursors'
  BY ZenonT(40), <1>2, <1>5, <1>6, <1>7, <1>8, <1>9 DEF Cursors, Running
<1>12. Progress'
  BY ZenonT(40), <1>2, <1>3, <1>4 DEF Progress
<1>13. TypeOK'
  BY ZenonT(40), <1>2, <1>3, <1>4, <1>6 DEF FfldbInv, TypeOK
<1>14. Synchronised'
  <2> SUFFICES ASSUME PowerLoss PROVE Synchronised'
    BY DEF Synchronised
  <2>1. /\ synced'[0] <= flen'[0]
        /\ \A q \in Locs : Before(q, LdbEnd) /\ Safe(q) => q.off = 0 \/ q.off <= synced'[0]
    BY <1>1, <1>2, <1>4, SyncedBack
  <2>2. Safe(LdbEnd)
    BY DEF FfldbInv, Synchronised
  <2>3. QED
    BY ZenonT(40), <1>2, <1>4, <1>6, <1>7, <1>8, <2>1, <2>2 DEF Synchronised, Safe
<1>15. QED
  BY ZenonT(40), <1>6, <1>8, <1>10, <1>11, <1>12, <1>13, <1>14 DEF FfldbInv

----------------------------------------------------------------------------
(* The invariants. *)

\* A new database satisfies the invariant.
LEMMA InitInv == Init => FfldbInv
<1> SUFFICES ASSUME Init PROVE FfldbInv
  BY ZenonT(40)
<1>1. /\ ldb = [k \in DbKeys |-> IF k = WriteLoc THEN Origin ELSE Nil] /\ cache = Empty
      /\ data = [c \in Cells |-> Nil] /\ flen = [f \in FileNums |-> -1] /\ synced = flen
      /\ cursor = Origin /\ fileOpen = FALSE /\ pc = "idle" /\ pending = Empty /\ blocks = <<>>
      /\ old = Origin /\ faults = 0 /\ rpc = [r \in Readers |-> "none"]
      /\ snapshot = [r \in Readers |-> [base |-> [k \in DbKeys |-> Nil], layer |-> Empty]]
  BY DEF Init, Origin, NoReaders
<1>2. Origin \in Locs /\ Before(Origin, Origin)
  BY SizeAssumption DEF Origin, Locs, FileNums, Before
<1>3. ldb \in States
  BY <1>1, <1>2 DEF States, DbVals
<1>4. [k \in DbKeys |-> Nil] \in States /\ \A b \in Blocks : [k \in DbKeys |-> Nil][b] = Nil
  BY DEF States, DbVals, DbKeys
<1>5. Empty \in Layers /\ Empty.remove = {} /\ Committed = ldb /\ \A b \in Blocks : Empty.keys[b] = Nil
  BY ZenonT(40), <1>1, <1>3, <1>4, OverEmpty DEF Committed, Empty
<1>6. LdbEnd = Origin /\ DbEnd = Origin /\ \A b \in Blocks : ldb[b] = Nil
  BY ZenonT(40), <1>1, <1>5, NamesAssumption DEF LdbEnd, DbEnd, DbKeys
<1>7. TypeOK
  <2>1. data \in [Cells -> (Blocks \X Nat) \cup {Nil}] /\ flen \in [FileNums -> -1 .. MaxBlockFileSize]
        /\ faults \in 0 .. MaxFaults
    BY <1>1, SizeAssumption
  <2>2. snapshot \in [Readers -> [base : States, layer : Layers]]
        /\ rpc \in [Readers -> {"none", "begun", "open"}] /\ blocks \in Seq(Blocks)
    BY <1>1, <1>4, <1>5
  <2>3. QED
    BY ZenonT(40), <1>1, <1>2, <1>3, <1>5, <2>1, <2>2 DEF TypeOK
<1>8. Within
  BY ZenonT(40), <1>1 DEF Within
<1>9. Ends
  BY ZenonT(40), <1>1, <1>2, <1>5, <1>6 DEF Ends, Reaches
<1>10. AllListed
  BY ZenonT(40), <1>1, <1>4, <1>5, <1>6, ListedNone DEF AllListed
<1>11. Cursors
  BY ZenonT(40), <1>1, <1>2, <1>6 DEF Cursors, Reaches
<1>12. Progress
  BY ZenonT(40), <1>1, <1>5 DEF Progress
<1>13. Synchronised
  <2>1. synced[0] = -1 /\ flen[0] = -1
    BY <1>1, SizeAssumption DEF FileNums
  <2>2. QED
    BY <1>1, <1>6, <2>1 DEF Synchronised, Safe, Origin
<1>14. QED
  BY <1>7, <1>8, <1>9, <1>10, <1>11, <1>12, <1>13 DEF FfldbInv

\* Every step preserves it.
LEMMA NextInv ==
  ASSUME NumbersOrdered, FfldbInv, [Next]_vars, PowerLoss => MaxFile = 0
  PROVE  FfldbInv'
<1>1. CASE UNCHANGED vars
  <2>1. UNCHANGED <<ldb, cache, data, flen, synced, cursor, fileOpen, pc, pending, blocks, old, rpc, snapshot, faults>>
    BY ZenonT(40), <1>1 DEF vars, meta, files, store, txn, reads
  <2>2. UNCHANGED <<Committed, LdbEnd, DbEnd>>
    BY ZenonT(40), <2>1 DEF Committed, LdbEnd, DbEnd
  <2>3. TypeOK' /\ Within' /\ Ends' /\ AllListed'
    BY ZenonT(40), <2>1, <2>2 DEF FfldbInv, TypeOK, Within, Ends, AllListed
  <2>4. Cursors' /\ Progress' /\ Synchronised'
    BY ZenonT(40), <2>1, <2>2 DEF FfldbInv, Cursors, Progress, Synchronised, Running, Safe
  <2>5. QED
    BY ZenonT(40), <2>3, <2>4 DEF FfldbInv
<1>2. CASE Next
  BY <1>2, Zenon, BeginInv, PutInv, StoreBlockInv, AbandonInv, CommitInv, WriteBlockInv, WriteFailsInv,
     UndoInv, CommitTxInv, SyncBlocksInv, FlushInv, ClearCacheInv, CommitDirectInv, ReaderInv,
     CloseInv, StopInv, OpenDBInv, ReconcileInv DEF Next
<1>3. QED
  BY <1>1, <1>2

----------------------------------------------------------------------------
(* The theorems: the fact about natural numbers comes from ListProofs. *)

INSTANCE ListProofs

\* The natural numbers are well ordered.
LEMMA NumbersAre == NumbersOrdered
BY Zenon, LeastNat DEF NumbersOrdered

\* FfldbInv holds in every state, for every number of files, readers and faults:
\* leveldb, the cache, the snapshots and a transaction that is being committed
\* list stored blocks, below the point that writes and rollbacks start from.
\* A loss of power is only covered while there is one file, because writeBlock
\* leaves a full file unsynced.
THEOREM StoreInvariant ==
  ASSUME PowerLoss => MaxFile = 0
  PROVE  Spec => []FfldbInv
<1>1. Init => FfldbInv
  BY InitInv
<1>2. FfldbInv /\ [Next]_vars => FfldbInv'
  BY NextInv, NumbersAre
<1>3. QED
  BY <1>1, <1>2, PTL DEF Spec

\* Every block that leveldb, the cache or the snapshot of a reader lists can be
\* read, whatever writes, rollbacks, errors and stops do to the files.
THEOREM AlwaysReadable ==
  ASSUME PowerLoss => MaxFile = 0
  PROVE  Spec => []BlocksReadable
<1>1. FfldbInv => BlocksReadable
  <2> SUFFICES ASSUME FfldbInv PROVE BlocksReadable
    BY ZenonT(40)
  <2>1. /\ cache \in Layers /\ ldb \in States /\ snapshot \in [Readers -> [base : States, layer : Layers]]
        /\ AllListed /\ LdbEnd \in Locs /\ DbEnd \in Locs /\ Before(LdbEnd, DbEnd)
    BY ZenonT(40) DEF FfldbInv, TypeOK, Ends
  <2>2. Listed(data, ldb, DbEnd)
    BY ZenonT(40), <2>1, ListedLater DEF AllListed
  <2>3. Listed(data, Committed, DbEnd)
    BY ZenonT(40), <2>1, <2>2, ListedOver DEF AllListed, Committed
  <2>4. \A r \in Readers : Listed(data, Over(snapshot[r].layer, snapshot[r].base), DbEnd)
    BY ZenonT(40), <2>1, ListedOver DEF AllListed
  <2>5. QED
    BY ZenonT(40), <2>2, <2>3, <2>4, StoredReadable DEF BlocksReadable
<1>2. QED
  BY <1>1, StoreInvariant, PTL

\* The files and the cursor keep within their bounds, and reconcileDB never
\* finds the files shorter than the metadata says.
THEOREM NeverTakenForCorrupt ==
  ASSUME PowerLoss => MaxFile = 0
  PROVE  Spec => []FilesSound
<1>1. FfldbInv => FilesSound
  BY DEF FfldbInv, FilesSound, NeverCorrupt, Cursors
<1>2. QED
  BY <1>1, StoreInvariant, PTL

\* A new database is an empty store.
LEMMA InitStep == Init => Store!StoreInit
<1> SUFFICES ASSUME Init PROVE Store!StoreInit
  OBVIOUS
<1>1. /\ ldb = [k \in DbKeys |-> IF k = WriteLoc THEN [file |-> 0, off |-> 0] ELSE Nil]
      /\ cache = Empty /\ pending = Empty /\ blocks = <<>>
  BY ZenonT(40) DEF Init
<1>2. ldb \in States
  BY ZenonT(40), InitInv DEF FfldbInv, TypeOK
<1>3. Committed = ldb /\ Over(pending, Committed) = ldb
  BY ZenonT(40), <1>1, <1>2, OverEmpty DEF Committed
<1>4. \A k \in Keys \cup Blocks : ldb[k] = Nil
  BY ZenonT(40), <1>1, NamesAssumption DEF DbKeys
<1>5. Contents(ldb) = [k \in Keys \cup Blocks |-> Nil]
  BY ZenonT(40), <1>4 DEF Contents
<1>6. ~ \E i \in DOMAIN blocks : TRUE
  BY <1>1
<1>7. View = [k \in Keys \cup Blocks |-> Nil]
  BY <1>3, <1>5, <1>6 DEF View
<1>8. QED
  BY ZenonT(40), <1>3, <1>5, <1>7 DEF Store!StoreInit

\* The database implements the durable store, for every number of files, readers
\* and faults: a transaction takes effect as a whole or not at all, and what a
\* stop leaves is the state after some of the commits, in their order, with the
\* blocks they stored.  As above, a loss of power is covered with one file.
THEOREM Durable ==
  ASSUME PowerLoss => MaxFile = 0
  PROVE  Spec => IsDurableStore
<1>1. FfldbInv /\ FfldbInv' /\ [Next]_vars => [Store!StoreNext]_(Store!storeVars)
  BY NextStep DEF StoreStep, Store!storeVars
<1>2. QED
  BY <1>1, InitStep, StoreInvariant, PTL DEF Spec, IsDurableStore, Store!StoreSpec
=============================================================================
