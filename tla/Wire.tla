-------------------------------- MODULE Wire --------------------------------
(***************************************************************************)
(* A connection that carries messages (message.go).  One end writes two    *)
(* messages, the first may be changed on its way or come from a program    *)
(* that encodes it otherwise, and the other end reads them.  The ends have *)
(* agreed on a protocol version and an encoding.                           *)
(***************************************************************************)
EXTENDS WireMessages, TLC

CONSTANT Pvers          \* the protocol versions considered

VARIABLES
    pver, enc,          \* as negotiated
    sent,               \* the messages that were written
    damage,             \* what happened to the first of them
    stream,             \* bytes on the way
    got                 \* the results of ReadMessage

-----------------------------------------------------------------------------
\* The header.

Commands == <<"version", "verack", "getaddr", "addr", "addrv2", "getblocks", "inv", "getdata",
              "notfound", "block", "tx", "getheaders", "headers", "ping", "pong", "alert",
              "mempool", "filteradd", "filterclear", "filterload", "merkleblock", "reject",
              "sendheaders", "feefilter", "getcfilters", "getcfheaders", "getcfcheckpt",
              "cfilter", "cfheaders", "cfcheckpt", "sendaddrv2">>
\* A name is one byte, its place in the list, and padding; 255 is no UTF-8.
CommandBytes(n) == <<n>> \o [i \in 1..11 |-> 0]
Code(cmd) == CHOOSE n \in DOMAIN Commands : Commands[n] = cmd
NotUTF8 == 255
Net == <<1, 2, 3, 4>>
OtherNet == <<1, 2, 3, 5>>

\* The first four bytes of a double SHA-256 are some function of the payload.
Checksum(b) == IF b = <<>> THEN <<93, 246, 224, 226>>
               ELSE <<Len(b) % 256, b[1], b[Len(b)], b[(Len(b) + 1) \div 2]>>
Header(net, code, length, sum) == net \o CommandBytes(code) \o writeElement("uint32", length) \o sum
Framed(net, code, payload) == Header(net, code, Len(payload), Checksum(payload)) \o payload

makeEmptyMessage(code) == code \in DOMAIN Commands
readMessageHeader(p) == readElements(p, <<"bytes4", "command", "uint32", "bytes4">>)
\* Whole chunks of 10k first, and then what remains of n.
discardInputChunks(in, n) == SubSeq(in, 10240 * (n \div 10240) + 1, Len(in))
discardInput(in, n) == SubSeq(discardInputChunks(in, n), (n % 10240) + 1, Len(in))

WriteEncoded(e, cmd) ==
    When(/\ e.ok
         /\ Len(e.b) <= MaxMessagePayload
         /\ Len(e.b) <= MaxPayloadLength(cmd, pver),
         Bytes(Framed(Net, Code(cmd), e.b)))
WriteMessageWithEncodingN(msg) ==
    WriteEncoded(BtcEncode(msg, pver, enc), msg.cmd)

Result(err, cmd, f, rest) == [err |-> err, cmd |-> cmd, f |-> f, rest |-> rest]
ReadPayload(h, code, length, sum, payload) ==
    LET d == BtcDecode(Commands[code], Reader(payload), pver, enc)
        after == SubSeq(h.in, length + 1, Len(h.in))
    IN  IF Len(h.in) < length THEN Result("EOF", "", <<>>, <<>>)
        ELSE IF Checksum(payload) # sum THEN Result("checksum", "", <<>>, after)
        ELSE IF ~d.ok THEN Result("decode", "", <<>>, after)
        ELSE Result("", Commands[code], d.out, after)
ReadAfterHeader(h, magic, code, length, sum) ==
    LET Discard(err) == Result(err, "", <<>>, discardInput(h.in, length)) IN
    IF length > MaxMessagePayload THEN Result("too large", "", <<>>, h.in)
    ELSE IF magic # Net THEN Discard("other network")
    ELSE IF code = NotUTF8 THEN Discard("invalid command")
    ELSE IF ~makeEmptyMessage(code) THEN Discard("unknown")
    ELSE IF length > MaxPayloadLength(Commands[code], pver) THEN Discard("exceeds max length")
    ELSE ReadPayload(h, code, length, sum, SubSeq(h.in, 1, length))
AfterHeader(h) ==
    IF h.ok THEN ReadAfterHeader(h, h.out[1], h.out[2][1], h.out[3], h.out[4])
    ELSE Result("EOF", "", <<>>, <<>>)
ReadMessageWithEncodingN(in) == AfterHeader(readMessageHeader(Reader(in)))

-----------------------------------------------------------------------------
\* Messages to send.

H(x) == [i \in 1..HashSize |-> (x + i) % 256]
Script(n) == [i \in 1..n |-> i % 256]
Ip(x) == [i \in 1..16 |-> x]
Na(t, port) == <<t, 1037, Ip(7), port>>
Bh(x) == <<x, H(x), H(x + 1), 1000, 70000, 65536>>
In(x, witness) == <<H(x), x, Script(x), 255, witness>>
Txs == { <<1, <<In(3, <<>>)>>, <<<<5000, Script(2)>>, <<-1, Script(0)>>>>, 0>>,
         <<2, <<In(0, <<>>), In(252, <<Script(1), <<>>, Script(253)>>)>>, <<<<70000, Script(25)>>>>, 500>>,
         <<-2, <<In(253, <<Script(3)>>)>>, <<>>, 16777216>> }
Alert == <<1, 2, 3, 4, 5, <<6, -7>>, 8, 9, <<Script(2), Script(0)>>, 10, Script(3), Script(1), <<>>>>

\* The fields of sample messages of each type.
Samples ==
    LET nothing == {<<>>}
        nonce == {<<0>>, <<65537>>}
        inventory == {<< <<>> >>, << <<<<1, H(1)>>, <<2, H(2)>>>> >>}
        locator == {<<70016, l, H(9)>> : l \in {<<>>, <<H(3), H(4)>>}}
        range == {<<0, 300, H(5)>>}
    IN  [verack |-> nothing, getaddr |-> nothing, sendaddrv2 |-> nothing, mempool |-> nothing,
         filterclear |-> nothing, sendheaders |-> nothing,
         ping |-> nonce, pong |-> nonce, feefilter |-> nonce,
         inv |-> inventory, getdata |-> inventory, notfound |-> inventory,
         getblocks |-> locator, getheaders |-> locator, getcfilters |-> range, getcfheaders |-> range,
         version |-> {<<v, 1037, 500, Na(0, 8333), Na(0, 256), 99, ua, 7, norelay>> :
                         v \in {60002, 70016}, ua \in {<<>>, Script(17)}, norelay \in BOOLEAN},
         addr |-> {<<l>> : l \in {<<>>, <<Na(4, 1)>>, <<Na(4, 22556), Na(5, 255)>>}},
         addrv2 |-> {<< <<<<4, 300, n, Script(AddrSize[n]), 22556>>, <<5, Huge, ipv4, Script(4), 1>>>> >> :
                         n \in 1..6}
                      \cup {<< <<<<4, 1, ipv6, OnionCat \o Script(10), 7>>>> >>},
         headers |-> {<<l>> : l \in {<<>>, <<Bh(1), Bh(2)>>}},
         tx |-> {<<tx>> : tx \in Txs},
         block |-> {<< <<Bh(1), l>> >> : l \in {<<>>} \cup {<<tx>> : tx \in Txs} \cup {SetToSeq(Txs)}},
         merkleblock |-> {<<Bh(3), 9, l, Script(2)>> : l \in {<<>>, <<H(1), H(2)>>}},
         filterload |-> {<<Script(5), 50, 2, 1>>}, filteradd |-> {<<Script(260)>>},
         alert |-> {<<AlertSerialize(Alert).b, Script(4), Alert>>, <<Script(3), Script(4), <<>>>>},
         reject |-> {<<c, 16, Script(2), H(1)>> : c \in {CmdBlock, CmdTx}}
                      \cup {<< <<7>>, 64, Script(0), [i \in 1..HashSize |-> 0]>>},
         getcfcheckpt |-> {<<0, H(5)>>}, cfilter |-> {<<0, H(5), Script(9)>>},
         cfheaders |-> {<<0, H(5), H(6), <<H(7), H(8)>>>>}, cfcheckpt |-> {<<0, H(5), <<H(7), H(8)>>>>}]

-----------------------------------------------------------------------------
\* What can happen to the first message: a field of its header is another, it has
\* a payload that is too long for its type, the payload is cut short by k bytes or
\* its first count is not in canonical form; or the connection ends within it.
Undamaged == [kind |-> "none", k |-> 0]
Damages == {[kind |-> d, k |-> 0] : d \in {"magic", "utf8", "unknown", "checksum", "long", "count", "eof"}}
             \cup {[kind |-> "short", k |-> k] : k \in {1, 2, 9, 40}}

Altered(msg, d, b) ==
    LET c == Code(msg.cmd)
        sum == Checksum(b)
    IN  CASE d.kind = "magic" -> Framed(OtherNet, c, b)
          [] d.kind = "utf8" -> Framed(Net, NotUTF8, b)
          [] d.kind = "unknown" -> Framed(Net, 200, b)
          [] d.kind = "checksum" -> Header(Net, c, Len(b), [sum EXCEPT ![1] = (@ + 1) % 256]) \o b
          [] d.kind = "long" -> Framed(Net, c, b \o Script(MaxPayloadLength(msg.cmd, pver) + 1))
          [] d.kind = "count" -> Framed(Net, c, <<253, b[1], 0>> \o Tail(b))
          [] d.kind = "eof" -> SubSeq(Framed(Net, c, b), 1, 23 + Len(b))
          [] d.kind = "short" -> Framed(Net, c, SubSeq(b, 1, Len(b) - d.k))

Applies(msg, d) ==
    LET n == Len(BtcEncode(msg, pver, enc).b) IN
    CASE d.kind = "long" -> MaxPayloadLength(msg.cmd, pver) <= 50
      [] d.kind = "count" -> msg.cmd \in {"inv", "getdata", "notfound", "addr", "addrv2", "headers"}
      [] d.kind \in {"magic", "utf8", "unknown", "checksum", "eof"} -> TRUE
      [] OTHER -> n >= d.k

Init ==
    /\ pver \in Pvers /\ enc \in {BaseEncoding, WitnessEncoding}
    /\ sent = <<>> /\ damage = Undamaged /\ stream = <<>> /\ got = <<>>

WriteMessage(msg) ==
    /\ \E w \in {WriteMessageWithEncodingN(msg)} : w.ok /\ stream' = stream \o w.b
    /\ sent' = Append(sent, msg)
    /\ UNCHANGED <<pver, enc, damage, got>>

WriteFirst == sent = <<>> /\ \E cmd \in DOMAIN Samples : \E f \in Samples[cmd] : WriteMessage([cmd |-> cmd, f |-> f])
WriteSecond == Len(sent) = 1 /\ damage.kind # "eof" /\ WriteMessage([cmd |-> "ping", f |-> <<5>>])

Damage ==
    /\ Len(sent) = 1 /\ got = <<>> /\ damage = Undamaged
    /\ \E d \in Damages :
         /\ Applies(sent[1], d)
         /\ damage' = d
         /\ stream' = Altered(sent[1], d, BtcEncode(sent[1], pver, enc).b)
    /\ UNCHANGED <<pver, enc, sent, got>>

ReadMessage ==
    /\ Len(sent) = 2 \/ damage.kind = "eof"
    /\ Len(got) < Len(sent)
    /\ \E r \in {ReadMessageWithEncodingN(stream)} :
         /\ got' = Append(got, [err |-> r.err, cmd |-> r.cmd, f |-> r.f])
         /\ stream' = r.rest
    /\ UNCHANGED <<pver, enc, sent, damage>>

Next == WriteFirst \/ WriteSecond \/ Damage \/ ReadMessage

-----------------------------------------------------------------------------
\* What a message looks like to the other end: a field that the version or the
\* encoding does not carry has its zero value.
Stripped(tx) == [tx EXCEPT ![2] = [i \in DOMAIN @ |-> [@[i] EXCEPT ![5] = <<>>]]]
Carried(tx) == IF enc = WitnessEncoding THEN tx ELSE Stripped(tx)
Kept(na) == ~(na[3] \in {i2p, cjdns} \/ (na[3] = ipv6 /\ isOnionCatTor(na[4])))
Received(msg) ==
    LET f == msg.f IN
    CASE msg.cmd = "ping" /\ pver <= BIP0031Version -> <<0>>
      [] msg.cmd = "addr" /\ pver < NetAddressTimeVersion ->
           <<[i \in DOMAIN f[1] |-> [f[1][i] EXCEPT ![1] = 0]]>>
      [] msg.cmd = "version" /\ pver < BIP0037Version -> [f EXCEPT ![9] = FALSE]
      [] msg.cmd = "addrv2" ->
           <<FoldLeft(LAMBDA l, na : IF Kept(na) THEN Append(l, na) ELSE l, <<>>, f[1])>>
      [] msg.cmd = "tx" -> <<Carried(f[1])>>
      [] msg.cmd = "block" -> << <<f[1][1], [i \in DOMAIN f[1][2] |-> Carried(f[1][2][i])]>> >>
      [] OTHER -> f
AsSent(i) == got[i].err = "" /\ got[i].cmd = sent[i].cmd /\ got[i].f = Received(sent[i])

\* Every message that BtcEncode writes for a version and an encoding is read by
\* BtcDecode as it was sent.  A damaged one is refused, and it is the only one: the
\* next message on the connection is read from its first byte on, whichever check of
\* ReadMessageWithEncodingN failed and whatever was left of the payload
\* (message.go:355).  Two types accept less than the whole: in a version message the
\* last fields are optional, and MsgAddrV2.BtcDecode keeps an entry that was cut off
\* (msgaddrv2.go:41).
StreamsInSync ==
    /\ Len(got) >= 1 =>
         IF damage = Undamaged THEN AsSent(1)
         ELSE sent[1].cmd \in {"version", "addrv2"} \/ got[1].err # ""
    /\ Len(got) = 2 => AsSent(2)

\* The sizes that the limits on blocks are computed from are those of the
\* encodings, a transaction has one hash with and without its witness, and the
\* positions that the indexes store lead to its bytes (msgtx.go:830 and 869,
\* msgblock.go:129).
Sliced(b, start, n) == SubSeq(b, start + 1, start + n)
TxMeasured(tx) ==
    LET b == MsgTxBtcEncode(tx, WitnessEncoding)
        locs == PkScriptLocs(tx, HasWitness(tx))
    IN  /\ Len(b) = MsgTxSerializeSize(tx)
        /\ Len(MsgTxBtcEncode(tx, BaseEncoding)) = MsgTxSerializeSizeStripped(tx)
        /\ TxHash(tx) = TxHash(Stripped(tx))
        /\ (WitnessHash(tx) = TxHash(tx)) <=> ~HasWitness(tx)
        /\ \A i \in DOMAIN tx[3] : Sliced(b, locs[i], Len(tx[3][i][2])) = tx[3][i][2]
BlockMeasured(block) ==
    LET b == MsgBlockBtcEncode(block, WitnessEncoding)
        locs == DeserializeTxLoc(b)
    IN  /\ Len(b) = MsgBlockSerializeSize(block)
        /\ Len(MsgBlockBtcEncode(block, BaseEncoding)) = MsgBlockSerializeSizeStripped(block)
        /\ [i \in DOMAIN locs |-> Sliced(b, locs[i][1], locs[i][2])]
             = [i \in DOMAIN block[2] |-> MsgTxBtcEncode(block[2][i], WitnessEncoding)]
Measured ==
    Len(got) = 1 /\ got[1].err = "" =>
        /\ got[1].cmd = "tx" => TxMeasured(got[1].f[1])
        /\ got[1].cmd = "block" => BlockMeasured(got[1].f[1])

\* The address manager makes the same address again from the bytes of one that was
\* received, as they are or in their old form, except that torv3 has no old form
\* (NetAddressV2FromBytes, ToLegacy).
Remade(na) == NetAddressV2FromBytes(na[1], na[2], na[4], na[5]) = na
AddressesRemade ==
    Len(got) = 1 /\ damage = Undamaged /\ sent[1].cmd = "addrv2" =>
        \A i \in DOMAIN got[1].f[1] : \E na \in {got[1].f[1][i]} :
            Remade(na) /\ (na[3] # torv3 =>
                NetAddressV2FromBytes(na[1], na[2], ToLegacy(na)[3], na[5]) = na)

\* All of the above.
WireSound == StreamsInSync /\ Measured /\ AddressesRemade
=============================================================================
