---------------------------- MODULE WireMessages ----------------------------
(***************************************************************************)
(* The messages of the protocol: for each type what BtcDecode accepts,     *)
(* what BtcEncode writes and how long the payload may be.  A message is    *)
(* [cmd, f], where f has the fields in the order of the Go structure.      *)
(***************************************************************************)
EXTENDS WireCodec

MaxUserAgentLen == 256
MaxBlockLocatorsPerMsg == 500
MaxInvPerMsg == 50000
maxInvVectPayload == 4 + HashSize
MaxAddrPerMsg == 1000
MaxV2AddrPerMsg == 1000
MaxBlockHeadersPerMsg == 2000
MaxBlockHeaderPayload == 16 + 2 * HashSize
maxFlagsPerMerkleBlock == maxTxPerBlock \div 8
MaxFilterAddDataSize == 520
MaxFilterLoadHashFuncs == 50
MaxFilterLoadFilterSize == 36000
MaxCFilterDataSize == 256 * 1024
MaxCFHeadersPerMsg == 2000
maxCFHeadersLen == 100000

NoMore(p) == p.in = <<>>
\* Decoding stops without error where an optional field would start.
IfMore(p, Field(_), default) == IF p.ok /\ NoMore(p) THEN Push(p, default) ELSE Field(p)

-----------------------------------------------------------------------------
\* Version, and the addresses.

NoAddress == <<0, 0, [i \in 1..16 |-> 0], 0>>
validateUserAgent(userAgent) == Len(userAgent) <= MaxUserAgentLen

\* The fields after AddrYou are optional.  The relay flag is read without a look
\* at the error, and inverted.
readUserAgent(p) ==
    Then(ReadVarString(p), LAMBDA s : IF validateUserAgent(Got(s)) THEN s ELSE Fail(s))
MsgVersionBtcDecode(p, pver) ==
    LET you == readNetAddress(readElements(p, <<"int32", "uint64", "int64">>), pver, FALSE)
        me == IfMore(you, LAMBDA q : readNetAddress(q, pver, FALSE), NoAddress)
        agent == IfMore(IfMore(me, LAMBDA q : readElement(q, "uint64"), 0), readUserAgent, <<>>)
        Relay(q) == IfMore(q, LAMBDA r : readElement(r, "bool"), TRUE)
    IN  Then(IfMore(agent, LAMBDA q : readElement(q, "int32"), 0), LAMBDA q :
            [Relay(q) EXCEPT !.out = Append(q.out, ~Got(Relay(q)))])
MsgVersionBtcEncode(f, pver) ==
    When(validateUserAgent(f[7]),
        Bytes(writeElements(<<"int32", "uint64", "int64">>, <<f[1], f[2], f[3]>>)
                \o writeNetAddress(f[4], pver, FALSE) \o writeNetAddress(f[5], pver, FALSE)
                \o writeElement("uint64", f[6]) \o WriteVarString(f[7]) \o writeElement("int32", f[8])
                \o (IF pver >= BIP0037Version THEN writeElement("bool", ~f[9]) ELSE <<>>)))
MsgVersionMaxPayloadLength(pver) ==
    33 + maxNetAddressPayload(pver) * 2 + MaxVarIntPayload + MaxUserAgentLen

MsgAddrBtcDecode(p, pver) == ReadList(p, MaxAddrPerMsg, LAMBDA q : readNetAddress(q, pver, TRUE))
MsgAddrBtcEncode(f, pver) ==
    When(~(pver < MultipleAddressVersion /\ Len(f[1]) > 1) /\ Len(f[1]) <= MaxAddrPerMsg,
         Bytes(WriteList(f[1], LAMBDA na : writeNetAddress(na, pver, TRUE))))
MsgAddrMaxPayloadLength(pver) ==
    IF pver < MultipleAddressVersion THEN MaxVarIntPayload + maxNetAddressPayload(pver)
    ELSE MaxVarIntPayload + MaxAddrPerMsg * maxNetAddressPayload(pver)

\* An address of version 2 is <<Timestamp, Services, networkID, address, Port>>.
ipv4 == 1
ipv6 == 2
torv2 == 3
torv3 == 4
i2p == 5
cjdns == 6
AddrSize == <<4, 16, 10, 32, 32, 16>>
maxAddrV2Size == 512
OnionCat == <<253, 135, 216, 126, 235, 67>>
isOnionCatTor(ip) == SubSeq(ip, 1, 6) = OnionCat
isKnownNetworkID(netID) == ipv4 <= netID /\ netID <= cjdns
maxNetAddressV2Payload == 4 + 9 + 1 + 515 + 2

\* The switch on the length in NetAddressV2FromBytes.
NetAddressV2FromBytes(ts, services, addr, port) ==
    CASE Len(addr) = 16 /\ isOnionCatTor(addr) -> <<ts, services, torv2, SubSeq(addr, 7, 16), port>>
      [] Len(addr) = 16 /\ ~isOnionCatTor(addr) -> <<ts, services, ipv6, addr, port>>
      [] Len(addr) = 4 -> <<ts, services, ipv4, addr, port>>
      [] Len(addr) = 10 -> <<ts, services, torv2, addr, port>>
      [] Len(addr) = 32 -> <<ts, services, torv3, addr, port>>
\* torv3 has no legacy form.
ToLegacy(na) == <<na[1], na[2], IF na[3] = torv2 THEN OnionCat \o na[4] ELSE na[4], na[5]>>

\* The outcome of an entry: it is kept ("ok"), skipped, of a wrong size, or cut off.
End(r, outcome) == [outcome |-> IF r.ok THEN outcome ELSE "error", r |-> r]
readAddrV2(p, netID, size) ==
    End(ReadFull(ReadFull(p, size, LAMBDA b : b), 2, Uint16BE),
        IF netID \in {i2p, cjdns} \/ (netID = ipv6 /\ isOnionCatTor(SubSeq(p.in, 1, size)))
        THEN "skipped" ELSE "ok")
AfterSize(c, before, netID, size) ==
    CASE ~c.ok -> End(c, "error")
      [] c.ok /\ ~isKnownNetworkID(netID) ->
           IF size > maxAddrV2Size THEN End(c, "size")
           ELSE End(ReadFull(c, size + 2, LAMBDA b : b), "skipped")
      [] c.ok /\ isKnownNetworkID(netID) ->
           IF size # AddrSize[netID] THEN End(c, "size") ELSE readAddrV2([c EXCEPT !.out = before], netID, size)
AfterID(q) == IF q.ok THEN LET c == ReadVarInt(q) IN AfterSize(c, q.out, q.out[3], Got(c)) ELSE End(q, "error")
readNetAddressV2(p) ==
    AfterID(readElement(ReadVarInt(readElement([p EXCEPT !.out = <<>>], "uint32")), "uint8"))
writeNetAddressV2(na) ==
    writeElement("uint32", na[1]) \o WriteVarInt(na[2]) \o writeElement("uint8", na[3])
      \o WriteVarInt(Len(na[4])) \o na[4] \o PutUint16BE(na[5])

\* Only a wrong size ends the message; an entry that is cut off is kept as it is.
Entry(q, e) ==
    CASE e.outcome = "ok" -> [q EXCEPT !.in = e.r.in, !.out = Append(@, e.r.out)]
      [] e.outcome = "skipped" -> [q EXCEPT !.in = e.r.in]
      [] e.outcome = "size" -> Fail(q)
      [] e.outcome = "error" -> [q EXCEPT !.in = e.r.in, !.out = Append(@, <<"incomplete">>)]
MsgAddrV2BtcDecode(p) ==
    ReadList(p, MaxV2AddrPerMsg, LAMBDA q : Entry(q, readNetAddressV2(q)))
MsgAddrV2BtcEncode(f) ==
    When(Len(f[1]) <= MaxV2AddrPerMsg, Bytes(WriteList(f[1], writeNetAddressV2)))
MsgAddrV2MaxPayloadLength(pver) == 3 + MaxV2AddrPerMsg * maxNetAddressV2Payload

-----------------------------------------------------------------------------
\* Inventories, headers and what asks for them.

MsgInvBtcDecode(p) == ReadList(p, MaxInvPerMsg, readInvVect)
MsgInvBtcEncode(f) == When(Len(f[1]) <= MaxInvPerMsg, Bytes(WriteList(f[1], writeInvVect)))
MsgInvMaxPayloadLength(pver) == MaxVarIntPayload + MaxInvPerMsg * maxInvVectPayload
MsgGetDataBtcDecode(p) == ReadList(p, MaxInvPerMsg, readInvVect)
MsgGetDataBtcEncode(f) == When(Len(f[1]) <= MaxInvPerMsg, Bytes(WriteList(f[1], writeInvVect)))
MsgGetDataMaxPayloadLength(pver) == MaxVarIntPayload + MaxInvPerMsg * maxInvVectPayload
MsgNotFoundBtcDecode(p) == ReadList(p, MaxInvPerMsg, readInvVect)
MsgNotFoundBtcEncode(f) == When(Len(f[1]) <= MaxInvPerMsg, Bytes(WriteList(f[1], writeInvVect)))
MsgNotFoundMaxPayloadLength(pver) == MaxVarIntPayload + MaxInvPerMsg * maxInvVectPayload

readHash(p) == readElement(p, "hash")
writeHash(h) == writeElement("hash", h)

MsgGetBlocksBtcDecode(p) ==
    readHash(ReadList(readElement(p, "uint32"), MaxBlockLocatorsPerMsg, readHash))
MsgGetBlocksBtcEncode(f) ==
    When(Len(f[2]) <= MaxBlockLocatorsPerMsg,
         Bytes(writeElement("uint32", f[1]) \o WriteList(f[2], writeHash) \o writeHash(f[3])))
MsgGetBlocksMaxPayloadLength(pver) ==
    4 + MaxVarIntPayload + MaxBlockLocatorsPerMsg * HashSize + HashSize
MsgGetHeadersBtcDecode(p) ==
    readHash(ReadList(readElement(p, "uint32"), MaxBlockLocatorsPerMsg, readHash))
MsgGetHeadersBtcEncode(f) ==
    When(Len(f[2]) <= MaxBlockLocatorsPerMsg,
         Bytes(writeElement("uint32", f[1]) \o WriteList(f[2], writeHash) \o writeHash(f[3])))
MsgGetHeadersMaxPayloadLength(pver) ==
    4 + MaxVarIntPayload + MaxBlockLocatorsPerMsg * HashSize + HashSize

\* A header is followed by a count of transactions that must be zero.
MsgHeadersBtcDecode(p) ==
    ReadList(p, MaxBlockHeadersPerMsg,
        LAMBDA q : Then(ReadVarInt(readBlockHeader(q)), LAMBDA c :
                       IF Got(c) > 0 THEN Fail(c) ELSE [c EXCEPT !.out = Front(@)]))
MsgHeadersBtcEncode(f) ==
    When(Len(f[1]) <= MaxBlockHeadersPerMsg,
         Bytes(WriteList(f[1], LAMBDA bh : writeBlockHeader(bh) \o WriteVarInt(0))))
MsgHeadersMaxPayloadLength(pver) == MaxVarIntPayload + (MaxBlockHeaderPayload + 1) * MaxBlockHeadersPerMsg

-----------------------------------------------------------------------------
\* Ping, pong, alerts and rejections.

MsgPingBtcDecode(p, pver) == IF pver > BIP0031Version THEN readElement(p, "uint64") ELSE Push(p, 0)
MsgPingBtcEncode(f, pver) ==
    Bytes(IF pver > BIP0031Version THEN writeElement("uint64", f[1]) ELSE <<>>)
MsgPingMaxPayloadLength(pver) == IF pver > BIP0031Version THEN 8 ELSE 0
MsgPongBtcDecode(p, pver) == IF pver <= BIP0031Version THEN Fail(p) ELSE readElement(p, "uint64")
MsgPongBtcEncode(f, pver) == When(pver > BIP0031Version, Bytes(writeElement("uint64", f[1])))
MsgPongMaxPayloadLength(pver) == IF pver > BIP0031Version THEN 8 ELSE 0

\* An alert is <<Version, RelayUntil, Expiration, ID, Cancel, SetCancel, MinVer,
\* MaxVer, SetSubVer, Priority, Comment, StatusBar, Reserved>>.
maxAlertSize == MaxMessagePayload - 72 - MaxVarIntPayload - 1
maxCountSetCancel == (maxAlertSize - 45 - MaxVarIntPayload + 1) \div 4
maxCountSetSubVer == (maxAlertSize - 45 - MaxVarIntPayload + 1) \div 256
AlertSerialize(a) ==
    When(Len(a[6]) <= maxCountSetCancel /\ Len(a[9]) <= maxCountSetSubVer,
         Bytes(writeElements(<<"int32", "int64", "int64", "int32", "int32">>, SubSeq(a, 1, 5))
                 \o WriteList(a[6], LAMBDA id : writeElement("int32", id))
                 \o writeElements(<<"int32", "int32">>, <<a[7], a[8]>>)
                 \o WriteList(a[9], WriteVarString) \o writeElement("int32", a[10])
                 \o WriteVarString(a[11]) \o WriteVarString(a[12]) \o WriteVarString(a[13])))
AlertDeserialize(p) ==
    LET fixed == readElements(p, <<"int32", "int64", "int64", "int32", "int32">>)
        cancel == ReadList(fixed, maxCountSetCancel, LAMBDA q : readElement(q, "int32"))
        sub == ReadList(readElements(cancel, <<"int32", "int32">>), maxCountSetSubVer, ReadVarString)
    IN  ReadVarString(ReadVarString(ReadVarString(readElement(sub, "int32"))))

\* MsgAlert is <<SerializedPayload, Signature, Payload>>, with Payload = <<>> when
\* the serialized one is no alert.
NewAlertFromPayload(b) == LET a == AlertDeserialize(Reader(b)) IN IF a.ok THEN a.out ELSE <<>>
MsgAlertBtcDecode(p) ==
    Then(ReadVarBytes(ReadVarBytes(p, MaxMessagePayload), MaxMessagePayload),
         LAMBDA g : Push(g, NewAlertFromPayload(g.out[1])))
MsgAlertBtcEncode(f) ==
    LET a == AlertSerialize(f[3])
        payload == IF f[3] # <<>> /\ a.ok THEN a.b ELSE f[1]
    IN  When(payload # <<>>, Bytes(WriteVarBytes(payload) \o WriteVarBytes(f[2])))

\* Command names are numbers in the payload of a rejection.
CmdBlock == <<1>>
CmdTx == <<2>>
MsgRejectBtcDecode(p, pver) ==
    IF pver < RejectVersion THEN Fail(p)
    ELSE Then(ReadVarString(readElement(ReadVarString(p), "uint8")), LAMBDA r :
             IF r.out[1] \in {CmdBlock, CmdTx} THEN readHash(r)
             ELSE Push(r, [i \in 1..HashSize |-> 0]))
MsgRejectBtcEncode(f, pver) ==
    When(pver >= RejectVersion,
         Bytes(WriteVarString(f[1]) \o writeElement("uint8", f[2]) \o WriteVarString(f[3])
                 \o (IF f[1] \in {CmdBlock, CmdTx} THEN writeHash(f[4]) ELSE <<>>)))
MsgRejectMaxPayloadLength(pver) == IF pver >= RejectVersion THEN MaxMessagePayload ELSE 0

-----------------------------------------------------------------------------
\* Bloom filters and fees.

MsgFilterAddBtcDecode(p, pver) ==
    IF pver < BIP0037Version THEN Fail(p) ELSE ReadVarBytes(p, MaxFilterAddDataSize)
MsgFilterAddBtcEncode(f, pver) ==
    When(pver >= BIP0037Version /\ Len(f[1]) <= MaxFilterAddDataSize, Bytes(WriteVarBytes(f[1])))
MsgFilterAddMaxPayloadLength(pver) == VarIntSerializeSize(MaxFilterAddDataSize) + MaxFilterAddDataSize

MsgFilterLoadBtcDecode(p, pver) ==
    LET r == readElements(ReadVarBytes(p, MaxFilterLoadFilterSize), <<"uint32", "uint32", "uint8">>) IN
    IF pver < BIP0037Version \/ (r.ok /\ r.out[2] > MaxFilterLoadHashFuncs) THEN Fail(p) ELSE r
MsgFilterLoadBtcEncode(f, pver) ==
    When(/\ pver >= BIP0037Version
         /\ Len(f[1]) <= MaxFilterLoadFilterSize
         /\ f[2] <= MaxFilterLoadHashFuncs,
         Bytes(WriteVarBytes(f[1]) \o writeElements(<<"uint32", "uint32", "uint8">>, SubSeq(f, 2, 4))))
MsgFilterLoadMaxPayloadLength(pver) ==
    VarIntSerializeSize(MaxFilterLoadFilterSize) + MaxFilterLoadFilterSize + 9

MsgMerkleBlockBtcDecode(p, pver) ==
    IF pver < BIP0037Version THEN Fail(p)
    ELSE ReadVarBytes(ReadList(readElement(readBlockHeader(p), "uint32"), maxTxPerBlock, readHash),
                      maxFlagsPerMerkleBlock)
MsgMerkleBlockBtcEncode(f, pver) ==
    When(pver >= BIP0037Version /\ Len(f[3]) <= maxTxPerBlock /\ Len(f[4]) <= maxFlagsPerMerkleBlock,
         Bytes(writeBlockHeader(f[1]) \o writeElement("uint32", f[2]) \o WriteList(f[3], writeHash)
                 \o WriteVarBytes(f[4])))

MsgFilterClearBtcDecode(p, pver) == IF pver < BIP0037Version THEN Fail(p) ELSE p
MsgFilterClearBtcEncode(f, pver) == When(pver >= BIP0037Version, Bytes(<<>>))
MsgMemPoolBtcDecode(p, pver) == IF pver < BIP0035Version THEN Fail(p) ELSE p
MsgMemPoolBtcEncode(f, pver) == When(pver >= BIP0035Version, Bytes(<<>>))
MsgSendHeadersBtcDecode(p, pver) == IF pver < SendHeadersVersion THEN Fail(p) ELSE p
MsgSendHeadersBtcEncode(f, pver) == When(pver >= SendHeadersVersion, Bytes(<<>>))
MsgFeeFilterBtcDecode(p, pver) == IF pver < FeeFilterVersion THEN Fail(p) ELSE readElement(p, "int64")
MsgFeeFilterBtcEncode(f, pver) == When(pver >= FeeFilterVersion, Bytes(writeElement("int64", f[1])))

-----------------------------------------------------------------------------
\* Committed filters.

MsgGetCFiltersBtcDecode(p) == readElements(p, <<"uint8", "uint32", "hash">>)
MsgGetCFiltersBtcEncode(f) == Bytes(writeElements(<<"uint8", "uint32", "hash">>, f))
MsgGetCFHeadersBtcDecode(p) == readElements(p, <<"uint8", "uint32", "hash">>)
MsgGetCFHeadersBtcEncode(f) == Bytes(writeElements(<<"uint8", "uint32", "hash">>, f))
MsgGetCFCheckptBtcDecode(p) == readElements(p, <<"uint8", "hash">>)
MsgGetCFCheckptBtcEncode(f) == Bytes(writeElements(<<"uint8", "hash">>, f))

MsgCFilterBtcDecode(p) == ReadVarBytes(readElements(p, <<"uint8", "hash">>), MaxCFilterDataSize)
MsgCFilterBtcEncode(f) ==
    When(Len(f[3]) <= MaxCFilterDataSize,
         Bytes(writeElements(<<"uint8", "hash">>, SubSeq(f, 1, 2)) \o WriteVarBytes(f[3])))
MsgCFilterMaxPayloadLength(pver) ==
    VarIntSerializeSize(MaxCFilterDataSize) + MaxCFilterDataSize + HashSize + 1

MsgCFHeadersBtcDecode(p) ==
    ReadList(readElements(p, <<"uint8", "hash", "hash">>), MaxCFHeadersPerMsg, readHash)
MsgCFHeadersBtcEncode(f) ==
    When(Len(f[4]) <= MaxCFHeadersPerMsg,
         Bytes(writeElements(<<"uint8", "hash", "hash">>, SubSeq(f, 1, 3)) \o WriteList(f[4], writeHash)))
MsgCFHeadersMaxPayloadLength(pver) ==
    1 + HashSize + HashSize + MaxVarIntPayload + HashSize * MaxCFHeadersPerMsg

MsgCFCheckptBtcDecode(p) == ReadList(readElements(p, <<"uint8", "hash">>), maxCFHeadersLen, readHash)
MsgCFCheckptBtcEncode(f) ==
    Bytes(writeElements(<<"uint8", "hash">>, SubSeq(f, 1, 2)) \o WriteList(f[3], writeHash))

-----------------------------------------------------------------------------
\* The dispatch on the command (makeEmptyMessage and the methods of its result).

Empty == {"verack", "sendaddrv2", "getaddr"}
BtcDecode(cmd, p, pver, enc) ==
    CASE cmd = "version" -> MsgVersionBtcDecode(p, pver)   [] cmd = "addr" -> MsgAddrBtcDecode(p, pver)
      [] cmd = "addrv2" -> MsgAddrV2BtcDecode(p)           [] cmd = "getblocks" -> MsgGetBlocksBtcDecode(p)
      [] cmd = "block" -> MsgBlockBtcDecode(p, enc)        [] cmd = "inv" -> MsgInvBtcDecode(p)
      [] cmd = "getdata" -> MsgGetDataBtcDecode(p)         [] cmd = "notfound" -> MsgNotFoundBtcDecode(p)
      [] cmd = "tx" -> MsgTxBtcDecode(p, enc)              [] cmd = "ping" -> MsgPingBtcDecode(p, pver)
      [] cmd = "pong" -> MsgPongBtcDecode(p, pver)         [] cmd = "getheaders" -> MsgGetHeadersBtcDecode(p)
      [] cmd = "headers" -> MsgHeadersBtcDecode(p)         [] cmd = "alert" -> MsgAlertBtcDecode(p)
      [] cmd = "mempool" -> MsgMemPoolBtcDecode(p, pver)   [] cmd = "filteradd" -> MsgFilterAddBtcDecode(p, pver)
      [] cmd = "filterclear" -> MsgFilterClearBtcDecode(p, pver)
      [] cmd = "filterload" -> MsgFilterLoadBtcDecode(p, pver)
      [] cmd = "merkleblock" -> MsgMerkleBlockBtcDecode(p, pver)
      [] cmd = "reject" -> MsgRejectBtcDecode(p, pver)     [] cmd = "sendheaders" -> MsgSendHeadersBtcDecode(p, pver)
      [] cmd = "feefilter" -> MsgFeeFilterBtcDecode(p, pver)
      [] cmd = "getcfilters" -> MsgGetCFiltersBtcDecode(p) [] cmd = "getcfheaders" -> MsgGetCFHeadersBtcDecode(p)
      [] cmd = "getcfcheckpt" -> MsgGetCFCheckptBtcDecode(p)
      [] cmd = "cfilter" -> MsgCFilterBtcDecode(p)         [] cmd = "cfheaders" -> MsgCFHeadersBtcDecode(p)
      [] cmd = "cfcheckpt" -> MsgCFCheckptBtcDecode(p)     [] cmd \in Empty -> p

BtcEncode(msg, pver, enc) ==
    LET cmd == msg.cmd
        f == msg.f
    IN
    CASE cmd = "version" -> MsgVersionBtcEncode(f, pver)   [] cmd = "addr" -> MsgAddrBtcEncode(f, pver)
      [] cmd = "addrv2" -> MsgAddrV2BtcEncode(f)           [] cmd = "getblocks" -> MsgGetBlocksBtcEncode(f)
      [] cmd = "block" -> Bytes(MsgBlockBtcEncode(f[1], enc)) [] cmd = "inv" -> MsgInvBtcEncode(f)
      [] cmd = "getdata" -> MsgGetDataBtcEncode(f)         [] cmd = "notfound" -> MsgNotFoundBtcEncode(f)
      [] cmd = "tx" -> Bytes(MsgTxBtcEncode(f[1], enc))    [] cmd = "ping" -> MsgPingBtcEncode(f, pver)
      [] cmd = "pong" -> MsgPongBtcEncode(f, pver)         [] cmd = "getheaders" -> MsgGetHeadersBtcEncode(f)
      [] cmd = "headers" -> MsgHeadersBtcEncode(f)         [] cmd = "alert" -> MsgAlertBtcEncode(f)
      [] cmd = "mempool" -> MsgMemPoolBtcEncode(f, pver)   [] cmd = "filteradd" -> MsgFilterAddBtcEncode(f, pver)
      [] cmd = "filterclear" -> MsgFilterClearBtcEncode(f, pver)
      [] cmd = "filterload" -> MsgFilterLoadBtcEncode(f, pver)
      [] cmd = "merkleblock" -> MsgMerkleBlockBtcEncode(f, pver)
      [] cmd = "reject" -> MsgRejectBtcEncode(f, pver)     [] cmd = "sendheaders" -> MsgSendHeadersBtcEncode(f, pver)
      [] cmd = "feefilter" -> MsgFeeFilterBtcEncode(f, pver)
      [] cmd = "getcfilters" -> MsgGetCFiltersBtcEncode(f) [] cmd = "getcfheaders" -> MsgGetCFHeadersBtcEncode(f)
      [] cmd = "getcfcheckpt" -> MsgGetCFCheckptBtcEncode(f)
      [] cmd = "cfilter" -> MsgCFilterBtcEncode(f)         [] cmd = "cfheaders" -> MsgCFHeadersBtcEncode(f)
      [] cmd = "cfcheckpt" -> MsgCFCheckptBtcEncode(f)     [] cmd \in Empty -> Bytes(<<>>)

MaxPayloadLength(cmd, pver) ==
    CASE cmd = "version" -> MsgVersionMaxPayloadLength(pver)
      [] cmd = "addr" -> MsgAddrMaxPayloadLength(pver)
      [] cmd = "addrv2" -> MsgAddrV2MaxPayloadLength(pver)
      [] cmd = "getblocks" -> MsgGetBlocksMaxPayloadLength(pver)
      [] cmd = "getheaders" -> MsgGetHeadersMaxPayloadLength(pver)
      [] cmd = "headers" -> MsgHeadersMaxPayloadLength(pver)
      [] cmd = "inv" -> MsgInvMaxPayloadLength(pver)
      [] cmd = "getdata" -> MsgGetDataMaxPayloadLength(pver)
      [] cmd = "notfound" -> MsgNotFoundMaxPayloadLength(pver)
      [] cmd \in {"block", "tx", "merkleblock"} -> MaxBlockPayload
      [] cmd = "ping" -> MsgPingMaxPayloadLength(pver)
      [] cmd = "pong" -> MsgPongMaxPayloadLength(pver)
      [] cmd \in {"alert", "cfcheckpt"} -> MaxMessagePayload
      [] cmd = "reject" -> MsgRejectMaxPayloadLength(pver)
      [] cmd = "filteradd" -> MsgFilterAddMaxPayloadLength(pver)
      [] cmd = "filterload" -> MsgFilterLoadMaxPayloadLength(pver)
      [] cmd = "feefilter" -> 8
      [] cmd \in {"getcfilters", "getcfheaders"} -> 1 + 4 + HashSize
      [] cmd = "getcfcheckpt" -> 1 + HashSize
      [] cmd = "cfilter" -> MsgCFilterMaxPayloadLength(pver)
      [] cmd = "cfheaders" -> MsgCFHeadersMaxPayloadLength(pver)
      [] cmd \in Empty \cup {"mempool", "filterclear", "sendheaders"} -> 0
=============================================================================
