----------------------------- MODULE WireCodec -----------------------------
(***************************************************************************)
(* The encodings of the wire package (src/wire).  An encoder gives a       *)
(* buffer, [ok, b], where b is a sequence of bytes; a decoder takes and    *)
(* gives a reader p, where p.in is what is left to read, p.out the values  *)
(* read so far, and p.ok is FALSE after the first error.  A hash, an       *)
(* address and a script are sequences of bytes; an integer is a number,    *)
(* and Huge stands for one beyond the range of TLC's.                      *)
(***************************************************************************)
EXTENDS Integers, Sequences, SequencesExt

Huge == 2147483647

MaxMessagePayload == 32 * 1024 * 1024
MaxVarIntPayload == 9
HashSize == 32
MultipleAddressVersion == 209
NetAddressTimeVersion == 31402
BIP0031Version == 60000
BIP0035Version == 60002
BIP0037Version == 70001
RejectVersion == 70002
SendHeadersVersion == 70012
FeeFilterVersion == 70013

-----------------------------------------------------------------------------
\* Readers and buffers.

Reader(in) == [ok |-> TRUE, in |-> in, out |-> <<>>]
Fail(p) == [p EXCEPT !.ok = FALSE]
Push(p, v) == [p EXCEPT !.out = Append(@, v)]
Got(p) == p.out[Len(p.out)]

\* What follows a step that succeeded.
Then(p, Step(_)) == IF p.ok THEN Step(p) ELSE p

\* io.ReadFull of n bytes, which Dec interprets; a short read takes what there is.
ReadFull(p, n, Dec(_)) ==
    IF ~p.ok THEN p
    ELSE IF Len(p.in) < n THEN [p EXCEPT !.ok = FALSE, !.in = <<>>]
    ELSE [p EXCEPT !.in = SubSeq(@, n + 1, Len(@)), !.out = Append(@, Dec(SubSeq(p.in, 1, n)))]

\* What Item reads from p, as one value.
Collect(q, before) == [q EXCEPT !.out = Append(before, @)]
Group(p, Item(_)) == Collect(Item([p EXCEPT !.out = <<>>]), p.out)

Repeat(p, n, Item(_)) ==
    Group(p, LAMBDA q : FoldLeft(LAMBDA r, i : IF r.ok THEN Item(r) ELSE r, q, [i \in 1..n |-> i]))

Bytes(b) == [ok |-> TRUE, b |-> b]
EncodeError == [ok |-> FALSE, b |-> <<>>]
When(cond, buf) == IF cond THEN buf ELSE EncodeError
Listed(s, Enc(_)) == FlattenSeq([i \in DOMAIN s |-> Enc(s[i])])

-----------------------------------------------------------------------------
\* Elements (common.go).

\* The n low bytes of v, least significant first, with the sign extended.
LittleEndian(v, n) ==
    [i \in 1..n |-> IF i <= 4 THEN (v \div 256^(i-1)) % 256 ELSE IF v < 0 THEN 255 ELSE 0]
PutUint16BE(v) == <<v \div 256, v % 256>>

ByteOf(b, i) == IF i <= Len(b) THEN b[i] ELSE 0
Uint(b) ==
    IF ByteOf(b, 4) > 127 \/ \E i \in DOMAIN b : i > 4 /\ b[i] # 0 THEN Huge
    ELSE ByteOf(b, 1) + 256 * ByteOf(b, 2) + 65536 * ByteOf(b, 3) + 16777216 * ByteOf(b, 4)
SignedInt(b) ==
    IF b[Len(b)] < 128 THEN Uint(b)
    ELSE b[1] + 256 * b[2] + 65536 * b[3] + 16777216 * (b[4] - 256)
Uint16BE(b) == 256 * b[1] + b[2]

\* The kinds of elements that readElement and writeElement know, with their widths.
Width == [int32 |-> 4, uint32 |-> 4, int64 |-> 8, uint64 |-> 8, bool |-> 1, uint8 |-> 1,
          hash |-> HashSize, bytes4 |-> 4, command |-> 12, ip |-> 16]

readElement(p, kind) ==
    ReadFull(p, Width[kind],
        LAMBDA b : CASE kind \in {"int32", "int64"} -> SignedInt(b)
                     [] kind \in {"uint32", "uint64", "uint8"} -> Uint(b)
                     [] kind = "bool" -> b[1] # 0
                     [] OTHER -> b)
readElements(p, kinds) == FoldLeft(readElement, p, kinds)

writeElement(kind, v) ==
    CASE kind \in {"int32", "int64", "uint32", "uint64", "uint8"} -> LittleEndian(v, Width[kind])
      [] kind = "bool" -> IF v THEN <<1>> ELSE <<0>>
      [] OTHER -> v
writeElements(kinds, vs) == FlattenSeq([i \in DOMAIN kinds |-> writeElement(kinds[i], vs[i])])

\* The canonical form is the only one that is accepted.
VarIntWidth == (253 :> 2) @@ (254 :> 4) @@ (255 :> 8)
VarIntMin == (253 :> 253) @@ (254 :> 65536) @@ (255 :> Huge)
ReadVarInt(p) ==
    Then(readElement(p, "uint8"), LAMBDA d :
        IF Got(d) < 253 THEN d
        ELSE Then(ReadFull([d EXCEPT !.out = p.out], VarIntWidth[Got(d)], Uint),
                  LAMBDA v : IF Got(v) < VarIntMin[Got(d)] THEN Fail(v) ELSE v))

WriteVarInt(v) ==
    CASE v < 253 -> <<v>>
      [] v >= 253 /\ v < 65536 -> <<253>> \o LittleEndian(v, 2)
      [] v >= 65536 /\ v < Huge -> <<254>> \o LittleEndian(v, 4)
      [] v = Huge -> <<255, 0, 0, 0, 0, 1, 0, 0, 0>>

VarIntSerializeSize(v) == CASE v < 253 -> 1 [] v \in 253..65535 -> 3 [] v \in 65536..(Huge - 1) -> 5 [] OTHER -> 9

ReadVarBytes(p, maxAllowed) ==
    Then(ReadVarInt(p), LAMBDA c :
        IF Got(c) > maxAllowed THEN Fail(c)
        ELSE ReadFull([c EXCEPT !.out = p.out], Got(c), LAMBDA b : b))
WriteVarBytes(b) == WriteVarInt(Len(b)) \o b
ReadVarString(p) == ReadVarBytes(p, MaxMessagePayload)
WriteVarString(s) == WriteVarInt(Len(s)) \o s

\* A count of at most max, and that many items.
ReadList(p, max, Item(_)) ==
    Then(ReadVarInt(p), LAMBDA c :
        IF Got(c) > max THEN Fail(c) ELSE Repeat([c EXCEPT !.out = p.out], Got(c), Item))
WriteList(s, Enc(_)) == WriteVarInt(Len(s)) \o Listed(s, Enc)

-----------------------------------------------------------------------------
\* Inventory vectors, block headers and network addresses.

readInvVect(p) == Group(p, LAMBDA q : readElements(q, <<"uint32", "hash">>))
writeInvVect(iv) == writeElements(<<"uint32", "hash">>, iv)

\* A header is <<Version, PrevBlock, MerkleRoot, Timestamp, Bits, Nonce>>.
readBlockHeader(p) ==
    Group(p, LAMBDA q : readElements(q, <<"int32", "hash", "hash", "uint32", "uint32", "uint32">>))
writeBlockHeader(bh) == writeElements(<<"int32", "hash", "hash", "uint32", "uint32", "uint32">>, bh)

\* An address is <<Timestamp, Services, IP, Port>>.  The version message has it
\* without time, and old versions of the protocol do.
readNetAddress(p, pver, ts) ==
    Group(p, LAMBDA q :
        ReadFull(readElements(IF ts /\ pver >= NetAddressTimeVersion THEN readElement(q, "uint32")
                              ELSE Push(q, 0), <<"uint64", "ip">>), 2, Uint16BE))
writeNetAddress(na, pver, ts) ==
    (IF ts /\ pver >= NetAddressTimeVersion THEN writeElement("uint32", na[1]) ELSE <<>>)
      \o writeElements(<<"uint64", "ip">>, <<na[2], na[3]>>) \o PutUint16BE(na[4])
maxNetAddressPayload(pver) == 26 + (IF pver >= NetAddressTimeVersion THEN 4 ELSE 0)

----------------------------------------------------------------------------
(* Transactions and blocks on the wire (msgtx.go, msgblock.go), with their *)
(* sizes and the positions that the indexes store.                         *)
(*   TxIn  = <<Hash, Index, SignatureScript, Sequence, Witness>>           *)
(*   TxOut = <<Value, PkScript>>                                           *)
(*   MsgTx = <<Version, TxIn, TxOut, LockTime>>                            *)
(*   MsgBlock = <<Header, Transactions>>                                   *)

BaseEncoding == "base"
WitnessEncoding == "witness"

minTxInPayload == 9 + HashSize
maxTxInPerMessage == (MaxMessagePayload \div minTxInPayload) + 1
MinTxOutPayload == 9
maxTxOutPerMessage == (MaxMessagePayload \div MinTxOutPayload) + 1
minTxPayload == 10
MaxBlockPayload == 4000000
maxTxPerBlock == (MaxBlockPayload \div minTxPayload) + 1
maxWitnessItemsPerInput == 500000
maxWitnessItemSize == 11000
blockHeaderLen == 80

Total(s, Size(_)) == FoldLeft(LAMBDA n, x : n + Size(x), 0, s)

-----------------------------------------------------------------------------
\* Transactions.

HasWitness(tx) == \E i \in DOMAIN tx[2] : tx[2][i][5] # <<>>

readScript(p, maxAllowed) == ReadVarBytes(p, maxAllowed)
readOutPoint(p) == readElements(p, <<"hash", "uint32">>)
WriteOutPoint(ti) == writeElements(<<"hash", "uint32">>, <<ti[1], ti[2]>>)
readTxIn(p) ==
    Group(p, LAMBDA q : readElement(readScript(readOutPoint(q), MaxMessagePayload), "uint32"))
writeTxIn(ti) == WriteOutPoint(ti) \o WriteVarBytes(ti[3]) \o writeElement("uint32", ti[4])
ReadTxOut(p) == Group(p, LAMBDA q : readScript(readElement(q, "int64"), MaxMessagePayload))
WriteTxOut(to) == writeElement("int64", to[1]) \o WriteVarBytes(to[2])
readTxWitness(p) ==
    ReadList(p, maxWitnessItemsPerInput, LAMBDA q : readScript(q, maxWitnessItemSize))
writeTxWitness(ti) == WriteList(ti[5], WriteVarBytes)

\* A count of no inputs is the marker of the witness encoding, and a flag follows.
AfterMarker(p) ==
    Then(readElement(p, "uint8"), LAMBDA flag : IF Got(flag) = 1 THEN ReadVarInt(flag) ELSE Fail(flag))
Inputs(p, version) ==
    Then(p, LAMBDA count : IF Got(count) > maxTxInPerMessage THEN Fail(count)
                           ELSE Repeat([count EXCEPT !.out = <<version>>], Got(count), readTxIn))
Witnesses(p, marked) ==
    Then(p, LAMBDA outs : IF marked THEN Repeat(outs, Len(outs.out[2]), readTxWitness)
                          ELSE Push(outs, [i \in DOMAIN outs.out[2] |-> <<>>]))
WithWitnesses(ins, wits) == [i \in DOMAIN ins |-> Append(ins[i], wits[i])]
AfterCount(p, version, marked) ==
    readElement(Witnesses(ReadList(Inputs(IF marked THEN AfterMarker(p) ELSE p, version),
                                   maxTxOutPerMessage, ReadTxOut), marked), "uint32")
MsgTxBtcDecode(p, enc) ==
    Then(ReadVarInt(readElement([p EXCEPT !.out = <<>>], "int32")), LAMBDA first :
        Then(AfterCount(first, first.out[1], Got(first) = 0 /\ enc = WitnessEncoding), LAMBDA r :
            [r EXCEPT !.out = Append(p.out, <<@[1], WithWitnesses(@[2], @[4]), @[3], @[5]>>)]))

MsgTxBtcEncode(tx, enc) ==
    LET doWitness == enc = WitnessEncoding /\ HasWitness(tx) IN
    writeElement("int32", tx[1])
      \o (IF doWitness THEN <<0, 1>> ELSE <<>>)
      \o WriteList(tx[2], writeTxIn) \o WriteList(tx[3], WriteTxOut)
      \o (IF doWitness THEN Listed(tx[2], writeTxWitness) ELSE <<>>)
      \o writeElement("uint32", tx[4])

\* The hashes are of the two encodings; what is hashed stands for the hash.
TxHash(tx) == MsgTxBtcEncode(tx, BaseEncoding)
WitnessHash(tx) == IF HasWitness(tx) THEN MsgTxBtcEncode(tx, WitnessEncoding) ELSE TxHash(tx)

TxInSerializeSize(ti) == 40 + VarIntSerializeSize(Len(ti[3])) + Len(ti[3])
TxOutSerializeSize(to) == 8 + VarIntSerializeSize(Len(to[2])) + Len(to[2])
TxWitnessSerializeSize(ti) ==
    VarIntSerializeSize(Len(ti[5])) + Total(ti[5], LAMBDA w : VarIntSerializeSize(Len(w)) + Len(w))
baseSize(tx) ==
    8 + VarIntSerializeSize(Len(tx[2])) + VarIntSerializeSize(Len(tx[3]))
      + Total(tx[2], TxInSerializeSize) + Total(tx[3], TxOutSerializeSize)
MsgTxSerializeSize(tx) ==
    baseSize(tx) + (IF HasWitness(tx) THEN 2 + Total(tx[2], TxWitnessSerializeSize) ELSE 0)
MsgTxSerializeSizeStripped(tx) == baseSize(tx)

\* Where the output scripts start.  The test is whether the first input has a
\* witness slice, empty or not, as those of a transaction that was read with the
\* flag have.
PkScriptLocs(tx, hasSlice) ==
    LET n == 4 + VarIntSerializeSize(Len(tx[2])) + VarIntSerializeSize(Len(tx[3]))
               + (IF hasSlice THEN 2 ELSE 0) + Total(tx[2], TxInSerializeSize)
        Before(i) == Total(SubSeq(tx[3], 1, i - 1), TxOutSerializeSize)
    IN  [i \in DOMAIN tx[3] |-> n + Before(i) + 8 + VarIntSerializeSize(Len(tx[3][i][2]))]

-----------------------------------------------------------------------------
\* Blocks.

MsgBlockBtcDecode(p, enc) ==
    Group(p, LAMBDA q :
        ReadList(readBlockHeader(q), maxTxPerBlock, LAMBDA r : MsgTxBtcDecode(r, enc)))
MsgBlockBtcEncode(block, enc) ==
    writeBlockHeader(block[1]) \o WriteList(block[2], LAMBDA tx : MsgTxBtcEncode(tx, enc))

\* Start and length of each transaction, from what is left in the buffer.
TxLocs(p, size) ==
    FoldLeft(LAMBDA s, i : [s EXCEPT !.r = MsgTxBtcDecode(@, WitnessEncoding),
                                     !.starts = Append(@, size - Len(s.r.in))],
             [r |-> p, starts |-> <<>>], [i \in 1..Got(p) |-> i])
Spans(s, size) ==
    LET ends == Append(s.starts, size - Len(s.r.in)) IN
    IF s.r.ok THEN [i \in DOMAIN s.starts |-> <<ends[i], ends[i + 1] - ends[i]>>] ELSE <<>>
LocsAfterCount(count, size) ==
    IF count.ok /\ Got(count) <= maxTxPerBlock THEN Spans(TxLocs(count, size), size) ELSE <<>>
DeserializeTxLoc(bytes) == LocsAfterCount(ReadVarInt(readBlockHeader(Reader(bytes))), Len(bytes))

MsgBlockSerializeSize(block) ==
    blockHeaderLen + VarIntSerializeSize(Len(block[2])) + Total(block[2], MsgTxSerializeSize)
MsgBlockSerializeSizeStripped(block) ==
    blockHeaderLen + VarIntSerializeSize(Len(block[2])) + Total(block[2], MsgTxSerializeSizeStripped)
=============================================================================
