------------------------------- MODULE Script -------------------------------
(***************************************************************************)
(* The data the script engine works on (package txscript): bytes, script   *)
(* numbers, the tokenizer, the script builder, and the recognition of the  *)
(* standard script forms.  Scripts are byte sequences, as in the code;     *)
(* digests are stand-ins (external) that keep the lengths of the real      *)
(* ones and tell the inputs of an instance apart.                          *)
(***************************************************************************)
EXTENDS Integers, Sequences, FiniteSets

\* The opcodes (opcode.go) that the models of package txscript name, and the
\* tapscript success opcodes.
OP_0 == 0
OP_DATA_20 == 20
OP_DATA_32 == 32
OP_DATA_33 == 33
OP_DATA_65 == 65
OP_DATA_75 == 75
OP_PUSHDATA1 == 76
OP_PUSHDATA2 == 77
OP_PUSHDATA4 == 78
OP_1NEGATE == 79
OP_RESERVED == 80
OP_1 == 81
OP_16 == 96
OP_NOP == 97
OP_VER == 98
OP_IF == 99
OP_NOTIF == 100
OP_VERIF == 101
OP_VERNOTIF == 102
OP_ELSE == 103
OP_ENDIF == 104
OP_VERIFY == 105
OP_RETURN == 106
OP_TOALTSTACK == 107
OP_FROMALTSTACK == 108
OP_2DROP == 109
OP_2DUP == 110
OP_3DUP == 111
OP_2OVER == 112
OP_2ROT == 113
OP_2SWAP == 114
OP_IFDUP == 115
OP_DEPTH == 116
OP_DROP == 117
OP_DUP == 118
OP_NIP == 119
OP_OVER == 120
OP_PICK == 121
OP_ROLL == 122
OP_ROT == 123
OP_SWAP == 124
OP_TUCK == 125
OP_CAT == 126
OP_RIGHT == 129
OP_SIZE == 130
OP_INVERT == 131
OP_XOR == 134
OP_EQUAL == 135
OP_EQUALVERIFY == 136
OP_RESERVED1 == 137
OP_RESERVED2 == 138
OP_1ADD == 139
OP_1SUB == 140
OP_2MUL == 141
OP_2DIV == 142
OP_NEGATE == 143
OP_ABS == 144
OP_NOT == 145
OP_0NOTEQUAL == 146
OP_ADD == 147
OP_SUB == 148
OP_MUL == 149
OP_RSHIFT == 153
OP_BOOLAND == 154
OP_BOOLOR == 155
OP_NUMEQUAL == 156
OP_NUMEQUALVERIFY == 157
OP_NUMNOTEQUAL == 158
OP_LESSTHAN == 159
OP_GREATERTHAN == 160
OP_LESSTHANOREQUAL == 161
OP_GREATERTHANOREQUAL == 162
OP_MIN == 163
OP_MAX == 164
OP_WITHIN == 165
OP_RIPEMD160 == 166
OP_SHA1 == 167
OP_SHA256 == 168
OP_HASH160 == 169
OP_HASH256 == 170
OP_CODESEPARATOR == 171
OP_CHECKSIG == 172
OP_CHECKSIGVERIFY == 173
OP_CHECKMULTISIG == 174
OP_CHECKMULTISIGVERIFY == 175
OP_NOP1 == 176
OP_CHECKLOCKTIMEVERIFY == 177
OP_CHECKSEQUENCEVERIFY == 178
OP_NOP4 == 179
OP_NOP10 == 185
OP_CHECKSIGADD == 186
OP_UNKNOWN187 == 187
OP_PUBKEY == 254
OP_INVALIDOPCODE == 255

\* The opcodes whose presence makes a tapscript succeed unconditionally.
successOpcodes ==
    {80, 98} \cup (126..129) \cup (131..134) \cup {137, 138, 141, 142}
        \cup (149..153) \cup (187..254)

----------------------------------------------------------------------------

MaxScriptSize == 10000
MaxScriptElementSize == 520

----------------------------------------------------------------------------
(* Bytes. *)

Suffix(s, k) == SubSeq(s, k, Len(s))
Repeated(b, n) == [i \in 1..n |-> b]

RECURSIVE LittleEndian(_)
LittleEndian(n) == IF n = 0 THEN <<>> ELSE <<n % 256>> \o LittleEndian(n \div 256)

RECURSIVE FromLittleEndian(_)
FromLittleEndian(v) ==
    IF v = <<>> THEN 0 ELSE v[1] + 256 * FromLittleEndian(Tail(v))

\* Stand-in for the digests: n bytes that depend on every byte of v.
RECURSIVE Mix(_, _, _)
Mix(v, i, j) ==
    IF i > j THEN 7 ELSE IF i = j THEN v[i] + 11
    ELSE LET h == (i + j) \div 2 IN (Mix(v, i, h) * 251 + Mix(v, h + 1, j) * 17 + j) % 65521
Digest(v, salt, n) ==
    LET m == Mix(v, 1, Len(v)) + salt IN
    [i \in 1..n |-> IF i = 1 THEN m % 256 ELSE IF i = 2 THEN (m \div 256) % 256 ELSE salt]
Ripemd160(v) == Digest(v, 1, 20)
Sha1(v) == Digest(v, 2, 20)
Sha256(v) == Digest(v, 3, 32)
Hash160(v) == Digest(v, 4, 20)
DoubleHash(v) == Digest(v, 5, 32)

\* A byte array is false when it is zero, the negative zero included.
asBool(t) ==
    LET NonZero == {i \in 1..Len(t) : t[i] # 0} IN
    /\ NonZero # {}
    /\ ~(NonZero = {Len(t)} /\ t[Len(t)] = 128)

fromBool(v) == IF v THEN <<1>> ELSE <<>>

----------------------------------------------------------------------------
(* Script numbers: little endian, the sign in the top bit of the last byte. *)

IsMinimal(v) ==
    \/ v = <<>>
    \/ v[Len(v)] % 128 # 0
    \/ Len(v) > 1 /\ v[Len(v) - 1] >= 128

NumBytes(n) ==
    LET m == LittleEndian(IF n < 0 THEN -n ELSE n)
        k == Len(m)
        sign == IF n < 0 THEN 128 ELSE 0
    IN  CASE n = 0       -> <<>>
          [] m[k] >= 128 -> Append(m, sign)
          [] OTHER       -> [m EXCEPT ![k] = @ + sign]


NumValue(v) ==
    LET k == Len(v) IN
    CASE v = <<>>    -> 0
      [] v[k] >= 128 -> -FromLittleEndian([v EXCEPT ![k] = @ - 128])
      [] OTHER       -> FromLittleEndian(v)

\* The error of a conversion, "" when there is none.
MakeScriptNumErr(v, requireMinimal, maxLen) ==
    CASE Len(v) > maxLen                   -> "ErrNumberTooBig"
      [] requireMinimal /\ ~IsMinimal(v)   -> "ErrMinimalData"
      [] OTHER                             -> ""

Int32(n) == IF n > 2147483647 THEN 2147483647 ELSE n

----------------------------------------------------------------------------
(* The tokenizer.  A token is an opcode with the data it pushes and the
   offset of the byte after it; Next of the code is Token. *)

\* 1 + the length of the data, or minus the size of the length field.
OpLength(op) ==
    CASE op \in 1..75          -> op + 1
      [] op = OP_PUSHDATA1     -> -1
      [] op = OP_PUSHDATA2     -> -2
      [] op = OP_PUSHDATA4     -> -4
      [] OTHER                 -> 1

NoToken == [op |-> -1, data |-> <<>>, next |-> 0]

\* The token at offset off (0-based), NoToken where the script is malformed.
TokenOf(script, off, op, n) ==
    LET rest == Len(script) - off
        lenEnd == off + 1 - n
        dataLen == FromLittleEndian(SubSeq(script, off + 2, lenEnd))
    IN  CASE n = 1 -> [op |-> op, data |-> <<>>, next |-> off + 1]
          [] n > 1 /\ rest < n -> NoToken
          [] n > 1 -> [op |-> op, data |-> SubSeq(script, off + 2, off + n),
                       next |-> off + n]
          [] n < 0 /\ rest - 1 < -n -> NoToken
          [] n < 0 /\ dataLen > Len(script) - lenEnd -> NoToken
          [] OTHER -> [op |-> op, data |-> SubSeq(script, lenEnd + 1, lenEnd + dataLen),
                       next |-> lenEnd + dataLen]

Token(script, off) == TokenOf(script, off, script[off + 1], OpLength(script[off + 1]))

\* All the tokens of a script up to the first malformed one, which is kept
\* as NoToken: the loop "for tokenizer.Next()" and the error after it.
RECURSIVE TokensFrom(_, _)
AndRest(script, t) == IF t = NoToken THEN <<t>> ELSE <<t>> \o TokensFrom(script, t.next)
TokensFrom(script, off) ==
    IF off >= Len(script) THEN <<>> ELSE AndRest(script, Token(script, off))
Tokens(script) == TokensFrom(script, 0)

Parses(toks) == toks = <<>> \/ toks[Len(toks)] # NoToken

checkScriptParses(script) == Parses(Tokens(script))

----------------------------------------------------------------------------
(* The builder. *)

\* PutUint16 and PutUint32.
Fixed(n, width) ==
    LET v == LittleEndian(n) IN [i \in 1..width |-> IF i <= Len(v) THEN v[i] ELSE 0]

canonicalDataSize(data) ==
    LET n == Len(data) IN
    CASE n = 0                                      -> 1
      [] n = 1 /\ (data[1] <= 16 \/ data[1] = 129)  -> 1
      [] n < OP_PUSHDATA1                           -> 1 + n
      [] n <= 255                                   -> 2 + n
      [] n <= 65535                                 -> 3 + n
      [] OTHER                                      -> 5 + n

addData(data) ==
    LET n == Len(data) IN
    CASE n = 0 \/ data = <<0>>         -> <<OP_0>>
      [] n = 1 /\ data[1] <= 16        -> <<OP_1 - 1 + data[1]>>
      [] n = 1 /\ data[1] = 129        -> <<OP_1NEGATE>>
      [] n < OP_PUSHDATA1              -> <<n>> \o data
      [] n <= 255                      -> <<OP_PUSHDATA1, n>> \o data
      [] n <= 65535                    -> <<OP_PUSHDATA2>> \o Fixed(n, 2) \o data
      [] OTHER                         -> <<OP_PUSHDATA4>> \o Fixed(n, 4) \o data

\* A builder is the script so far and whether an addition failed.
NewScriptBuilder == [script |-> <<>>, failed |-> FALSE]

AddOps(b, ops) ==
    CASE b.failed                                       -> b
      [] Len(b.script) + Len(ops) > MaxScriptSize       -> [b EXCEPT !.failed = TRUE]
      [] OTHER                                          -> [b EXCEPT !.script = @ \o ops]

AddOp(b, op) == AddOps(b, <<op>>)

AddData(b, data) ==
    CASE b.failed -> b
      [] \/ Len(b.script) + canonicalDataSize(data) > MaxScriptSize
         \/ Len(data) > MaxScriptElementSize -> [b EXCEPT !.failed = TRUE]
      [] OTHER -> [b EXCEPT !.script = @ \o addData(data)]

AddInt64(b, n) ==
    CASE b.failed                          -> b
      [] Len(b.script) + 1 > MaxScriptSize -> [b EXCEPT !.failed = TRUE]
      [] n = 0                             -> [b EXCEPT !.script = Append(@, OP_0)]
      [] n = -1 \/ n \in 1..16             -> [b EXCEPT !.script = Append(@, OP_1 - 1 + n)]
      [] OTHER                             -> AddData(b, NumBytes(n))

----------------------------------------------------------------------------
(* Questions about whole scripts (script.go). *)

isSmallInt(op) == op = OP_0 \/ op \in OP_1..OP_16
asSmallInt(op) == IF op = OP_0 THEN 0 ELSE op - OP_1 + 1

PushOnlyTokens(toks) == Parses(toks) /\ \A i \in 1..Len(toks) : toks[i].op <= OP_16

\* Only pushes, up to OP_16.
IsPushOnlyScript(script) == PushOnlyTokens(Tokens(script))

\* Whether the push of data with op is the shortest one.
isCanonicalPush(op, data) ==
    LET n == Len(data) IN
    \/ op > OP_16
    \/ /\ ~(op \in 1..75 /\ n = 1 /\ data[1] <= 16)
       /\ ~(op = OP_PUSHDATA1 /\ n < OP_PUSHDATA1)
       /\ ~(op = OP_PUSHDATA2 /\ n <= 255)
       /\ ~(op = OP_PUSHDATA4 /\ n <= 65535)

\* Bytes of the i-th token of a script.
TokenBytes(script, toks, i) ==
    SubSeq(script, (IF i = 1 THEN 0 ELSE toks[i - 1].next) + 1, toks[i].next)

RECURSIVE KeepTokens(_, _, _, _)
KeepTokens(script, toks, i, dropped) ==
    IF i > Len(toks) \/ toks[i] = NoToken THEN <<>>
    ELSE (IF i \in dropped THEN <<>> ELSE TokenBytes(script, toks, i))
             \o KeepTokens(script, toks, i + 1, dropped)

\* A script with nothing to remove is returned as it is, a malformed tail included.
RemoveFrom(script, toks, dropped) ==
    IF dropped = {} THEN script ELSE KeepTokens(script, toks, 1, dropped)
DroppedOf(toks, Drop(_)) == {i \in 1..Len(toks) : toks[i] # NoToken /\ Drop(toks[i])}
RemoveTokens(script, Drop(_)) ==
    RemoveFrom(script, Tokens(script), DroppedOf(Tokens(script), Drop))

removeOpcodeRaw(script, op) ==
    LET IsOp(t) == t.op = op IN RemoveTokens(script, IsOp)

ContainsBytes(data, part) ==
    \E k \in 0..(Len(data) - Len(part)) : SubSeq(data, k + 1, k + Len(part)) = part

\* Drops the canonical pushes that contain dataToRemove.
removeOpcodeByData(script, dataToRemove) ==
    LET Holds(t) == isCanonicalPush(t.op, t.data) /\ ContainsBytes(t.data, dataToRemove)
    IN  IF dataToRemove = <<>> THEN script ELSE RemoveTokens(script, Holds)

\* Signature operations: one per check, and for a multisig the number of keys
\* when precise and known, twenty otherwise.
MaxPubKeysPerMultiSig == 20
RECURSIVE SigOpsOf(_, _, _)
SigOpsOf(toks, i, precise) ==
    IF i > Len(toks) \/ toks[i] = NoToken THEN 0
    ELSE (CASE toks[i].op \in {OP_CHECKSIG, OP_CHECKSIGVERIFY} -> 1
            [] toks[i].op \in {OP_CHECKMULTISIG, OP_CHECKMULTISIGVERIFY} ->
                 IF precise /\ i > 1 /\ toks[i - 1].op \in OP_1..OP_16
                 THEN asSmallInt(toks[i - 1].op)
                 ELSE MaxPubKeysPerMultiSig
            [] OTHER -> 0) + SigOpsOf(toks, i + 1, precise)
countSigOpsV0(script, precise) == SigOpsOf(Tokens(script), 1, precise)

FinalData(toks) == IF toks = <<>> \/ ~Parses(toks) THEN <<>> ELSE toks[Len(toks)].data
finalOpcodeData(script) == FinalData(Tokens(script))

----------------------------------------------------------------------------
(* Standard forms (standard.go). *)

extractCompressedPubKey(s) ==
    IF Len(s) = 35 /\ s[35] = OP_CHECKSIG /\ s[1] = OP_DATA_33 /\ s[2] \in {2, 3}
    THEN SubSeq(s, 2, 34) ELSE <<>>
extractUncompressedPubKey(s) ==
    IF Len(s) = 67 /\ s[67] = OP_CHECKSIG /\ s[1] = OP_DATA_65 /\ s[2] \in {4, 6, 7}
    THEN SubSeq(s, 2, 66) ELSE <<>>
isPubKeyScript(s) == extractCompressedPubKey(s) # <<>> \/ extractUncompressedPubKey(s) # <<>>

extractPubKeyHash(s) ==
    IF /\ Len(s) = 25 /\ s[1] = OP_DUP /\ s[2] = OP_HASH160 /\ s[3] = OP_DATA_20
       /\ s[24] = OP_EQUALVERIFY /\ s[25] = OP_CHECKSIG
    THEN SubSeq(s, 4, 23) ELSE <<>>
isPubKeyHashScript(s) == extractPubKeyHash(s) # <<>>

extractScriptHash(s) ==
    IF Len(s) = 23 /\ s[1] = OP_HASH160 /\ s[2] = OP_DATA_20 /\ s[23] = OP_EQUAL
    THEN SubSeq(s, 3, 22) ELSE <<>>
isScriptHashScript(s) == extractScriptHash(s) # <<>>

isStrictPubKeyEncoding(k) ==
    \/ Len(k) = 33 /\ k[1] \in {2, 3}
    \/ Len(k) = 65 /\ k[1] \in {4, 6, 7}

\* m <key> ... <key> n OP_CHECKMULTISIG: everything up to the second small
\* integer counts as a key, the malformed ones are not returned.
NoMultisig == [valid |-> FALSE, requiredSigs |-> 0, numPubKeys |-> 0, keys |-> <<>>]
FirstOf(S) == CHOOSE i \in S : \A j \in S : i <= j
IntsAfterFirst(toks) == {i \in 2..Len(toks) : isSmallInt(toks[i].op)}
DataOf(toks) == [i \in 1..Len(toks) |-> toks[i].data]
StrictKeys(toks) == LET Strict(t) == isStrictPubKeyEncoding(t.data) IN DataOf(SelectSeq(toks, Strict))
MultisigUpTo(s, toks, e) ==
    IF asSmallInt(toks[e].op) = e - 2 /\ Len(s) - toks[e].next = 1
    THEN [valid |-> TRUE, requiredSigs |-> asSmallInt(toks[1].op), numPubKeys |-> e - 2,
          keys |-> StrictKeys(SubSeq(toks, 2, e - 1))]
    ELSE NoMultisig
MultisigDetails(s, toks) ==
    IF isSmallInt(toks[1].op) /\ IntsAfterFirst(toks) # {}
    THEN MultisigUpTo(s, toks, FirstOf(IntsAfterFirst(toks))) ELSE NoMultisig
extractMultisigScriptDetails(s) ==
    IF Len(s) >= 3 /\ s[Len(s)] = OP_CHECKMULTISIG THEN MultisigDetails(s, Tokens(s)) ELSE NoMultisig
isMultisigScript(s) == extractMultisigScriptDetails(s).valid

extractWitnessPubKeyHash(s) ==
    IF Len(s) = 22 /\ s[1] = OP_0 /\ s[2] = OP_DATA_20 THEN SubSeq(s, 3, 22) ELSE <<>>
isWitnessPubKeyHashScript(s) == extractWitnessPubKeyHash(s) # <<>>
extractWitnessV0ScriptHash(s) ==
    IF Len(s) = 34 /\ s[1] = OP_0 /\ s[2] = OP_DATA_32 THEN SubSeq(s, 3, 34) ELSE <<>>
isWitnessScriptHashScript(s) == extractWitnessV0ScriptHash(s) # <<>>
extractWitnessV1KeyBytes(s) ==
    IF Len(s) = 34 /\ s[1] = OP_1 /\ s[2] = OP_DATA_32 THEN SubSeq(s, 3, 34) ELSE <<>>
isWitnessTaprootScript(s) == extractWitnessV1KeyBytes(s) # <<>>

\* A version 0..16 and one canonical push; the length of the script bounds it.
NoProgram == [valid |-> FALSE, version |-> 0, program |-> <<>>]
ProgramInfo(s, toks) ==
    IF /\ Len(s) \in 4..42
       /\ Len(toks) = 2 /\ Parses(toks)
       /\ isSmallInt(toks[1].op)
       /\ isCanonicalPush(toks[2].op, toks[2].data)
    THEN [valid |-> TRUE, version |-> asSmallInt(toks[1].op), program |-> toks[2].data]
    ELSE NoProgram
extractWitnessProgramInfo(s) == ProgramInfo(s, Tokens(s))
isWitnessProgramScript(s) == extractWitnessProgramInfo(s).valid

MaxDataCarrierSize == 80
IsNullData(s, toks) ==
    /\ Len(s) >= 1 /\ s[1] = OP_RETURN
    /\ \/ Len(s) = 1
       \/ /\ Len(toks) = 2 /\ Parses(toks)
          /\ isSmallInt(toks[2].op) \/ toks[2].op <= OP_PUSHDATA4
          /\ Len(toks[2].data) <= MaxDataCarrierSize
isNullDataScript(s) == IsNullData(s, Tokens(s))

typeOfScript(v, s) ==
    CASE v = 0 /\ isPubKeyScript(s)            -> "PubKeyTy"
      [] v = 0 /\ isPubKeyHashScript(s)        -> "PubKeyHashTy"
      [] v = 0 /\ isScriptHashScript(s)        -> "ScriptHashTy"
      [] v = 0 /\ isWitnessPubKeyHashScript(s) -> "WitnessV0PubKeyHashTy"
      [] v = 0 /\ isWitnessScriptHashScript(s) -> "WitnessV0ScriptHashTy"
      [] v = 0 /\ isMultisigScript(s)          -> "MultiSigTy"
      [] v = 0 /\ isNullDataScript(s)          -> "NullDataTy"
      [] v = 1 /\ isWitnessTaprootScript(s)    -> "WitnessV1TaprootTy"
      [] OTHER                                 -> "NonStandardTy"

GetScriptClass(s) ==
    typeOfScript(IF typeOfScript(0, s) # "NonStandardTy" THEN 0 ELSE 1, s)

IsUnspendable(s) ==
    \/ Len(s) > 0 /\ s[1] = OP_RETURN
    \/ Len(s) > MaxScriptSize
    \/ ~checkScriptParses(s)

ScriptHasOpSuccess(s) ==
    LET Succeeds(t) == t.op \in successOpcodes IN SelectSeq(Tokens(s), Succeeds) # <<>>
=============================================================================
