---------------------------- MODULE ScriptEngine ----------------------------
(***************************************************************************)
(* The script engine (txscript/engine.go, opcode.go, stack.go,             *)
(* sigvalidate.go): the virtual machine is a record vm, an opcode handler  *)
(* maps a machine to the machine after it, and vm.err is the error it      *)
(* returns, "" for nil.  Elliptic curve signatures are stand-ins that a    *)
(* key produces for a digest and that verify for that key and digest only. *)
(***************************************************************************)
EXTENDS SigHash

CONSTANTS MaxOpsPerScript, MaxStackSize    \* 201 and 1000 in the code

VARIABLE vm

LockTimeThreshold == 500000000
MaxTxInSequenceNum == -1                   \* 32-bit values are two's complement
sigOpsDelta == 50

hasFlag(m, flag) == flag \in m.flags
Fail(m, e) == [m EXCEPT !.err = e]

----------------------------------------------------------------------------
(* Stacks (stack.go).  The top is the last element; a result is [ok, s]. *)

StackErr == [ok |-> FALSE, s |-> <<>>]
StackOk(s) == [ok |-> TRUE, s |-> s]
AtDepth(s, idx) == s[Len(s) - idx]
Valid(s, idx) == idx >= 0 /\ idx < Len(s)

\* The stack without the element at depth idx.
Nip(s, idx) == SubSeq(s, 1, Len(s) - idx - 1) \o Suffix(s, Len(s) - idx + 1)

PushPeek(s, idx) == IF Valid(s, idx) THEN StackOk(Append(s, AtDepth(s, idx))) ELSE StackErr
PushNip(s, idx) ==
    IF Valid(s, idx) THEN StackOk(Append(Nip(s, idx), AtDepth(s, idx))) ELSE StackErr

RECURSIVE PeekTimes(_, _, _)
PeekTimes(s, idx, n) ==
    LET r == PushPeek(s, idx) IN
    IF n = 0 THEN StackOk(s) ELSE IF r.ok THEN PeekTimes(r.s, idx, n - 1) ELSE r
RECURSIVE NipTimes(_, _, _)
NipTimes(s, idx, n) ==
    LET r == PushNip(s, idx) IN
    IF n = 0 THEN StackOk(s) ELSE IF r.ok THEN NipTimes(r.s, idx, n - 1) ELSE r

DropN(s, n) == IF n < 1 \/ Len(s) < n THEN StackErr ELSE StackOk(SubSeq(s, 1, Len(s) - n))
DupN(s, n) == IF n < 1 THEN StackErr ELSE PeekTimes(s, n - 1, n)
RotN(s, n) == IF n < 1 THEN StackErr ELSE NipTimes(s, 3 * n - 1, n)
SwapN(s, n) == IF n < 1 THEN StackErr ELSE NipTimes(s, 2 * n - 1, n)
OverN(s, n) == IF n < 1 THEN StackErr ELSE PeekTimes(s, 2 * n - 1, n)
PickN(s, n) == PushPeek(s, n)
RollN(s, n) == PushNip(s, n)
NipN(s, n) == IF Valid(s, n) THEN StackOk(Nip(s, n)) ELSE StackErr
Tuck(s) ==
    IF Len(s) < 2 THEN StackErr
    ELSE StackOk(SubSeq(s, 1, Len(s) - 2)
                     \o <<AtDepth(s, 0), AtDepth(s, 1), AtDepth(s, 0)>>)

\* A handler that only applies an operation to the data stack.
OnStack(m, r) ==
    IF r.ok THEN [m EXCEPT !.dstack = r.s] ELSE Fail(m, "ErrInvalidStackOperation")

Push(m, so) == [m EXCEPT !.dstack = Append(@, so)]
PushInt(m, n) == Push(m, NumBytes(n))
PushBool(m, b) == Push(m, fromBool(b))
Top(m, k) == AtDepth(m.dstack, k)
Popped(m, n) == [m EXCEPT !.dstack = SubSeq(@, 1, Len(@) - n)]

\* Pops n byte arrays: F gets the machine without them.
PopBytes(m, n, F(_)) ==
    IF Len(m.dstack) < n THEN Fail(m, "ErrInvalidStackOperation") ELSE F(Popped(m, n))

IntErr(m, so) == MakeScriptNumErr(so, hasFlag(m, "VerifyMinimalData"), 4)

\* Pops n numbers, v[0] from the top; the first that fails gives the error.
PopInts(m, n, F(_, _)) ==
    LET Bad == {k \in 0..(n - 1) : k >= Len(m.dstack) \/ IntErr(m, Top(m, k)) # ""}
        k   == CHOOSE i \in Bad : \A j \in Bad : i <= j
    IN  CASE Bad # {} /\ k >= Len(m.dstack) -> Fail(m, "ErrInvalidStackOperation")
          [] Bad # {} -> Fail(m, IntErr(m, Top(m, k)))
          [] OTHER -> F(Popped(m, n), [i \in 0..(n - 1) |-> NumValue(Top(m, i))])

----------------------------------------------------------------------------
(* Conditionals. *)

isBranchExecuting(m) == m.cond = <<>> \/ m.cond[Len(m.cond)] = "True"

isWitnessVersionActive(m, version) == m.witProg # <<>> /\ m.witVer = version

\* The top element as the argument of an OP_IF: under the minimal-if rule it
\* is empty or a single 1.
popIfBool(m, F(_, _)) ==
    LET minimal == \/ isWitnessVersionActive(m, 1)
                   \/ isWitnessVersionActive(m, 0) /\ hasFlag(m, "VerifyMinimalIf")
        so == Top(m, 0)
    IN  CASE m.dstack = <<>> -> Fail(m, "ErrInvalidStackOperation")
          [] minimal /\ (Len(so) > 1 \/ (Len(so) = 1 /\ so[1] # 1)) -> Fail(m, "ErrMinimalIf")
          [] OTHER -> F(Popped(m, 1), asBool(so))

PushCond(m, c) == [m EXCEPT !.cond = Append(@, c)]

\* Faulty variant of opcodeIf: an IF that is skipped is recorded as false.
opcodeIfNoSkip(m) ==
    IF isBranchExecuting(m)
    THEN popIfBool(m, LAMBDA n, b : PushCond(n, IF b THEN "True" ELSE "False"))
    ELSE PushCond(m, "False")

opcodeIf(m) ==
    IF isBranchExecuting(m)
    THEN popIfBool(m, LAMBDA n, b : PushCond(n, IF b THEN "True" ELSE "False"))
    ELSE PushCond(m, "Skip")

opcodeNotIf(m) ==
    IF isBranchExecuting(m)
    THEN popIfBool(m, LAMBDA n, b : PushCond(n, IF b THEN "False" ELSE "True"))
    ELSE PushCond(m, "Skip")

opcodeElse(m) ==
    IF m.cond = <<>> THEN Fail(m, "ErrUnbalancedConditional")
    ELSE [m EXCEPT !.cond[Len(m.cond)] =
              CASE @ = "True" -> "False" [] @ = "False" -> "True" [] @ = "Skip" -> "Skip"]

opcodeEndif(m) ==
    IF m.cond = <<>> THEN Fail(m, "ErrUnbalancedConditional")
    ELSE [m EXCEPT !.cond = SubSeq(@, 1, Len(@) - 1)]

----------------------------------------------------------------------------
(* Handlers that need neither numbers nor signatures. *)

opcodeFalse(m) == Push(m, <<>>)
opcodePushData(m, data) == Push(m, data)
opcode1Negate(m) == PushInt(m, -1)
opcodeN(m, op) == PushInt(m, op - (OP_1 - 1))

opcodeNop(m, op) ==
    IF op # OP_NOP /\ hasFlag(m, "DiscourageUpgradableNops")
    THEN Fail(m, "ErrDiscourageUpgradableNOPs") ELSE m

abstractVerify(m, e) ==
    CASE m.err # ""        -> m
      [] m.dstack = <<>>   -> Fail(m, "ErrInvalidStackOperation")
      [] asBool(Top(m, 0)) -> Popped(m, 1)
      [] OTHER             -> Fail(m, e)

opcodeVerify(m) == abstractVerify(m, "ErrVerify")
opcodeReturn(m) == Fail(m, "ErrEarlyReturn")
opcodeReserved(m) == Fail(m, "ErrReservedOpcode")
opcodeInvalid(m) == Fail(m, "ErrReservedOpcode")

opcodeToAltStack(m) ==
    PopBytes(m, 1, LAMBDA n : [n EXCEPT !.astack = Append(@, Top(m, 0))])
opcodeFromAltStack(m) ==
    IF m.astack = <<>> THEN Fail(m, "ErrInvalidStackOperation")
    ELSE Push([m EXCEPT !.astack = SubSeq(@, 1, Len(@) - 1)], AtDepth(m.astack, 0))

opcode2Drop(m) == OnStack(m, DropN(m.dstack, 2))
opcode2Dup(m) == OnStack(m, DupN(m.dstack, 2))
opcode3Dup(m) == OnStack(m, DupN(m.dstack, 3))
opcode2Over(m) == OnStack(m, OverN(m.dstack, 2))
opcode2Rot(m) == OnStack(m, RotN(m.dstack, 2))
opcode2Swap(m) == OnStack(m, SwapN(m.dstack, 2))
opcodeIfDup(m) ==
    CASE m.dstack = <<>>   -> Fail(m, "ErrInvalidStackOperation")
      [] asBool(Top(m, 0)) -> Push(m, Top(m, 0))
      [] OTHER             -> m
opcodeDepth(m) == PushInt(m, Len(m.dstack))
opcodeDrop(m) == OnStack(m, DropN(m.dstack, 1))
opcodeDup(m) == OnStack(m, DupN(m.dstack, 1))
opcodeNip(m) == OnStack(m, NipN(m.dstack, 1))
opcodeOver(m) == OnStack(m, OverN(m.dstack, 1))
opcodePick(m) == PopInts(m, 1, LAMBDA n, v : OnStack(n, PickN(n.dstack, Int32(v[0]))))
opcodeRoll(m) == PopInts(m, 1, LAMBDA n, v : OnStack(n, RollN(n.dstack, Int32(v[0]))))
opcodeRot(m) == OnStack(m, RotN(m.dstack, 1))
opcodeSwap(m) == OnStack(m, SwapN(m.dstack, 1))
opcodeTuck(m) == OnStack(m, Tuck(m.dstack))

opcodeSize(m) ==
    IF m.dstack = <<>> THEN Fail(m, "ErrInvalidStackOperation")
    ELSE PushInt(m, Len(Top(m, 0)))
opcodeEqual(m) == PopBytes(m, 2, LAMBDA n : PushBool(n, Top(m, 0) = Top(m, 1)))
opcodeEqualVerify(m) == abstractVerify(opcodeEqual(m), "ErrEqualVerify")

opcodeRipemd160(m) == PopBytes(m, 1, LAMBDA n : Push(n, Ripemd160(Top(m, 0))))
opcodeSha1(m) == PopBytes(m, 1, LAMBDA n : Push(n, Sha1(Top(m, 0))))
opcodeSha256(m) == PopBytes(m, 1, LAMBDA n : Push(n, Sha256(Top(m, 0))))
opcodeHash160(m) == PopBytes(m, 1, LAMBDA n : Push(n, Hash160(Top(m, 0))))
opcodeHash256(m) == PopBytes(m, 1, LAMBDA n : Push(n, DoubleHash(Top(m, 0))))

----------------------------------------------------------------------------
(* Arithmetic: v[0] is the top of the stack. *)

PushTest(m, b) == PushInt(m, IF b THEN 1 ELSE 0)

opcode1Add(m) == PopInts(m, 1, LAMBDA n, v : PushInt(n, v[0] + 1))
opcode1Sub(m) == PopInts(m, 1, LAMBDA n, v : PushInt(n, v[0] - 1))
opcodeNegate(m) == PopInts(m, 1, LAMBDA n, v : PushInt(n, -v[0]))
opcodeAbs(m) == PopInts(m, 1, LAMBDA n, v : PushInt(n, IF v[0] < 0 THEN -v[0] ELSE v[0]))
opcodeNot(m) == PopInts(m, 1, LAMBDA n, v : PushTest(n, v[0] = 0))
opcode0NotEqual(m) == PopInts(m, 1, LAMBDA n, v : PushTest(n, v[0] # 0))
opcodeAdd(m) == PopInts(m, 2, LAMBDA n, v : PushInt(n, v[0] + v[1]))
opcodeSub(m) == PopInts(m, 2, LAMBDA n, v : PushInt(n, v[1] - v[0]))
opcodeBoolAnd(m) == PopInts(m, 2, LAMBDA n, v : PushTest(n, v[0] # 0 /\ v[1] # 0))
opcodeBoolOr(m) == PopInts(m, 2, LAMBDA n, v : PushTest(n, v[0] # 0 \/ v[1] # 0))
opcodeNumEqual(m) == PopInts(m, 2, LAMBDA n, v : PushTest(n, v[0] = v[1]))
opcodeNumEqualVerify(m) == abstractVerify(opcodeNumEqual(m), "ErrNumEqualVerify")
opcodeNumNotEqual(m) == PopInts(m, 2, LAMBDA n, v : PushTest(n, v[0] # v[1]))
opcodeLessThan(m) == PopInts(m, 2, LAMBDA n, v : PushTest(n, v[1] < v[0]))
opcodeGreaterThan(m) == PopInts(m, 2, LAMBDA n, v : PushTest(n, v[1] > v[0]))
opcodeLessThanOrEqual(m) == PopInts(m, 2, LAMBDA n, v : PushTest(n, v[1] <= v[0]))
opcodeGreaterThanOrEqual(m) == PopInts(m, 2, LAMBDA n, v : PushTest(n, v[1] >= v[0]))
opcodeMin(m) == PopInts(m, 2, LAMBDA n, v : PushInt(n, IF v[1] < v[0] THEN v[1] ELSE v[0]))
opcodeMax(m) == PopInts(m, 2, LAMBDA n, v : PushInt(n, IF v[1] > v[0] THEN v[1] ELSE v[0]))
opcodeWithin(m) ==
    PopInts(m, 3, LAMBDA n, v : PushTest(n, v[2] >= v[1] /\ v[2] < v[0]))

----------------------------------------------------------------------------
(* Lock times. *)

verifyLockTimeErr(txLockTime, threshold, lockTime) ==
    IF (txLockTime < threshold) # (lockTime < threshold) \/ lockTime > txLockTime
    THEN "ErrUnsatisfiedLockTime" ELSE ""

\* A number of up to five bytes, its sign and its bit 31.
LockNumErr(m, so) == MakeScriptNumErr(so, hasFlag(m, "VerifyMinimalData"), 5)
IsNegative(so) == asBool(so) /\ so[Len(so)] >= 128
HasBit31(so) == Len(so) = 5 /\ so[4] >= 128

opcodeCheckLockTimeVerify(m) ==
    LET so == Top(m, 0)
        lockErr == verifyLockTimeErr(m.tx.lockTime, LockTimeThreshold, NumValue(so))
    IN  CASE ~hasFlag(m, "VerifyCheckLockTimeVerify") ->
               IF hasFlag(m, "DiscourageUpgradableNops")
               THEN Fail(m, "ErrDiscourageUpgradableNOPs") ELSE m
          [] m.dstack = <<>> -> Fail(m, "ErrInvalidStackOperation")
          [] LockNumErr(m, so) # "" -> Fail(m, LockNumErr(m, so))
          [] IsNegative(so) -> Fail(m, "ErrNegativeLockTime")
          [] lockErr # "" -> Fail(m, lockErr)
          [] m.tx.ins[m.idx].sequence = MaxTxInSequenceNum -> Fail(m, "ErrUnsatisfiedLockTime")
          [] OTHER -> m

\* The type bit and the low 16 bits of a sequence number.
SequenceLockTimeIsSeconds == 4194304
SequenceMasked(n) ==
    (IF (n \div SequenceLockTimeIsSeconds) % 2 = 1 THEN SequenceLockTimeIsSeconds ELSE 0)
        + (n % 65536)

opcodeCheckSequenceVerify(m) ==
    LET so == Top(m, 0)
        txSequence == m.tx.ins[m.idx].sequence
    IN  CASE ~hasFlag(m, "VerifyCheckSequenceVerify") ->
               IF hasFlag(m, "DiscourageUpgradableNops")
               THEN Fail(m, "ErrDiscourageUpgradableNOPs") ELSE m
          [] m.dstack = <<>> -> Fail(m, "ErrInvalidStackOperation")
          [] LockNumErr(m, so) # "" -> Fail(m, LockNumErr(m, so))
          [] IsNegative(so) -> Fail(m, "ErrNegativeLockTime")
          [] HasBit31(so) -> m
          [] m.tx.version < 2 -> Fail(m, "ErrUnsatisfiedLockTime")
          [] txSequence < 0 -> Fail(m, "ErrUnsatisfiedLockTime")
          [] OTHER ->
               LET e == verifyLockTimeErr(SequenceMasked(txSequence), SequenceLockTimeIsSeconds,
                                          SequenceMasked(NumValue(so)))
               IN  IF e = "" THEN m ELSE Fail(m, e)
----------------------------------------------------------------------------
(* Signatures.  Stand-ins (external): the key with identity k, the DER       *)
(* signature it makes for a digest, and the Schnorr signature of an x-only    *)
(* key.  A digest enters with two of its bytes.                               *)

Mark(hash) == <<1 + (hash[1] % 127), 1 + (hash[2] % 127)>>
PubKey(k) == <<2>> \o Repeated(k, 32)
XOnlyKey(k) == Repeated(k, 32)
EcdsaSign(key, hash) ==
    <<48, 8, 2, 1, key[2], 2, 3>> \o Mark(hash) \o <<key[33]>>
EcdsaParses(sig) == Len(sig) >= 8 /\ sig[1] = 48
EcdsaVerify(sig, hash, key) == sig = EcdsaSign(key, hash)
SchnorrSign(key, hash) == SubSeq(key, 1, 2) \o Mark(hash) \o Repeated(7, 60)
SchnorrVerify(sig, hash, key) == sig = SchnorrSign(key, hash)
ParsePubKey(key) == isStrictPubKeyEncoding(key)

\* The cache of verified signatures: at most one entry for a digest; a full
\* cache drops an arbitrary one.
SigCacheExists(m, hash, sig, key) == [hash |-> hash, sig |-> sig, key |-> key] \in m.sigCache
SigCacheAdd(m, hash, sig, key) ==
    LET kept == IF Cardinality(m.sigCache) + 1 > m.maxEntries
                THEN m.sigCache \ {CHOOSE e \in m.sigCache : TRUE} ELSE m.sigCache
    IN  IF m.maxEntries <= 0 THEN m
        ELSE [m EXCEPT !.sigCache = {e \in kept : e.hash # hash}
                                        \cup {[hash |-> hash, sig |-> sig, key |-> key]}]

\* verifySig: the cache first, then the curve; a valid signature is cached.
\* F gets the machine and the answer.
verifySig(m, hash, sig, key, verifies, F(_, _)) ==
    CASE SigCacheExists(m, hash, sig, key) -> F(m, TRUE)
      [] verifies -> F(SigCacheAdd(m, hash, sig, key), TRUE)
      [] OTHER -> F(m, FALSE)

checkHashTypeEncodingErr(m, hashType) ==
    IF hasFlag(m, "VerifyStrictEncoding") /\ hashType % 128 \notin SigHashAll..SigHashSingle
    THEN "ErrInvalidSigHashType" ELSE ""

checkPubKeyEncodingErr(m, key) ==
    CASE /\ hasFlag(m, "VerifyWitnessPubKeyType") /\ isWitnessVersionActive(m, 0)
         /\ ~(Len(key) = 33 /\ key[1] \in {2, 3}) -> "ErrWitnessPubKeyType"
      [] /\ hasFlag(m, "VerifyStrictEncoding")
         /\ ~(Len(key) = 33 /\ key[1] \in {2, 3}) /\ ~(Len(key) = 65 /\ key[1] = 4) ->
             "ErrPubKeyType"
      [] OTHER -> ""

\* Half the order of the curve, most significant byte first.
halfOrder == <<127>> \o Repeated(255, 15)
                 \o <<93, 87, 110, 115, 87, 164, 80, 29, 223, 233, 47, 70, 104, 27, 32, 160>>
HighS(v) ==
    LET Digits == {i \in 1..Len(v) : v[i] # 0}
        w == IF Digits = {} THEN <<>> ELSE Suffix(v, CHOOSE i \in Digits : \A j \in Digits : i <= j)
    IN  Len(w) > 32 \/ (Len(w) = 32 /\ BytesAfter(w, halfOrder))

\* The DER encoding, in the order of the checks; offsets are one based.
checkSignatureEncodingErr(m, sig) ==
    LET n == Len(sig)
        rLen == sig[4]
        sType == 5 + rLen
        sLen == sig[sType + 1]
        Padded(at, len) == len > 1 /\ sig[at] = 0 /\ sig[at + 1] < 128
    IN  CASE m.flags \cap {"VerifyDERSignatures", "VerifyLowS", "VerifyStrictEncoding"} = {} -> ""
          [] n < 8 -> "ErrSigTooShort"
          [] n > 72 -> "ErrSigTooLong"
          [] sig[1] # 48 -> "ErrSigInvalidSeqID"
          [] sig[2] # n - 2 -> "ErrSigInvalidDataLen"
          [] sType > n -> "ErrSigMissingSTypeID"
          [] sType + 1 > n -> "ErrSigMissingSLen"
          [] sType + 1 + sLen # n -> "ErrSigInvalidSLen"
          [] sig[3] # 2 -> "ErrSigInvalidRIntID"
          [] rLen = 0 -> "ErrSigZeroRLen"
          [] sig[5] >= 128 -> "ErrSigNegativeR"
          [] Padded(5, rLen) -> "ErrSigTooMuchRPadding"
          [] sig[sType] # 2 -> "ErrSigInvalidSIntID"
          [] sLen = 0 -> "ErrSigZeroSLen"
          [] sig[sType + 2] >= 128 -> "ErrSigNegativeS"
          [] Padded(sType + 2, sLen) -> "ErrSigTooMuchSPadding"
          [] hasFlag(m, "VerifyLowS") /\ HighS(SubSeq(sig, sType + 2, n)) -> "ErrSigHighS"
          [] OTHER -> ""

subScript(m) == Suffix(m.scripts[m.scriptIdx], m.lastCodeSep + 1)

SigBytes(full) == SubSeq(full, 1, Len(full) - 1)
HashTypeOf(full) == full[Len(full)]

\* A script error, "invalid" for an encoding the curve library refuses, "".
parseBaseSigAndPubkey(m, key, full) ==
    LET e1 == checkHashTypeEncodingErr(m, HashTypeOf(full))
        e2 == checkSignatureEncodingErr(m, SigBytes(full))
        e3 == checkPubKeyEncodingErr(m, key)
    IN  CASE e1 # "" -> e1
          [] e2 # "" -> e2
          [] e3 # "" -> e3
          [] ~ParsePubKey(key) \/ ~EcdsaParses(SigBytes(full)) -> "invalid"
          [] OTHER -> ""

\* The digest an ECDSA signature is checked against: the witness form inside
\* a version 0 program, the transaction with the script without removed
\* otherwise.
EcdsaHash(m, script, hashType) ==
    IF isWitnessVersionActive(m, 0)
    THEN calcWitnessSignatureHashRaw(script, NewTxSigHashes(m.tx, m.prevOuts), hashType, m.tx,
                                     m.idx, m.prevOuts[m.tx.ins[m.idx].prev].value)
    ELSE calcSignatureHash(script, hashType, m.tx, m.idx)

\* "ErrInvalidTaprootSigLen" or "" for a signature of 64 bytes, or 65 with a
\* hash type that is not the default one.
parseTaprootSigErr(raw) ==
    IF Len(raw) = 64 \/ (Len(raw) = 65 /\ raw[65] # 0) THEN "" ELSE "ErrInvalidTaprootSigLen"
TaprootHashType(raw) == IF Len(raw) = 64 THEN SigHashDefault ELSE raw[65]

\* taprootSigVerifier.Verify; F gets the machine and the answer.
TaprootVerify(m, key, raw, opts, F(_, _)) ==
    LET hash == calcTaprootSignatureHashRaw(NewTxSigHashes(m.tx, m.prevOuts),
                    TaprootHashType(raw), m.tx, m.idx, m.prevOuts, opts)
    IN  IF hash = <<>> THEN F(m, FALSE)
        ELSE verifySig(m, hash, raw, key, SchnorrVerify(SubSeq(raw, 1, 64), hash, key), F)

VerifyTaprootKeySpend(m, program, raw, annex) ==
    IF parseTaprootSigErr(raw) # "" THEN Fail(m, parseTaprootSigErr(raw))
    ELSE TaprootVerify(m, program, raw, [NoOptions EXCEPT !.annex = annex],
           LAMBDA n, valid : IF valid THEN n ELSE Fail(n, "ErrTaprootSigInvalid"))

\* A signature operation of a tapscript uses up part of the budget.
tallysigOp(m) ==
    LET n == [m EXCEPT !.tap.sigOpsBudget = @ - sigOpsDelta] IN
    IF n.tap.sigOpsBudget < 0 THEN Fail(n, "ErrTaprootMaxSigOps") ELSE n

\* newBaseTapscriptSigVerifier and its Verify: a key of an unknown length
\* verifies anything.
TapscriptVerify(m, key, raw, F(_, _)) ==
    CASE Len(key) # 32 /\ hasFlag(m, "VerifyDiscourageUpgradeablePubkeyType") ->
             Fail(m, "ErrDiscourageUpgradeablePubKeyType")
      [] Len(key) # 32 -> F(m, TRUE)
      [] parseTaprootSigErr(raw) # "" -> Fail(m, parseTaprootSigErr(raw))
      [] OTHER -> TaprootVerify(m, key, raw,
                    [ext |-> 1, annex |-> m.tap.annex, leaf |-> m.tap.tapLeafHash,
                     codeSep |-> m.tap.codeSepPos], F)

opcodeCodeSeparator(m) ==
    [m EXCEPT !.lastCodeSep = m.off,
              !.tap.codeSepPos = IF m.tap.active THEN m.opcodePos ELSE @]

CheckSigLegacy(m, key, full) ==
    LET e == parseBaseSigAndPubkey(m, key, full)
        script == IF isWitnessVersionActive(m, 0) THEN subScript(m)
                  ELSE removeOpcodeByData(subScript(m), full)
        hash == EcdsaHash(m, script, HashTypeOf(full))
    IN  CASE e = "invalid" -> PushBool(m, FALSE)
          [] e # "" -> Fail(m, e)
          [] OTHER ->
               verifySig(m, hash, SigBytes(full), key, EcdsaVerify(SigBytes(full), hash, key),
                 LAMBDA n, valid : IF ~valid /\ hasFlag(n, "VerifyNullFail")
                                   THEN Fail(n, "ErrNullFail") ELSE PushBool(n, valid))

\* The part CHECKSIG and CHECKSIGADD share: the budget, then the key, then
\* an empty signature, then the verification.
TapscriptCheck(m, key, full, OnEmpty(_), OnValid(_)) ==
    LET n == IF full # <<>> THEN tallysigOp(m) ELSE m IN
    CASE n.err # "" -> n
      [] key = <<>> -> Fail(n, "ErrTaprootPubkeyIsEmpty")
      [] full = <<>> -> OnEmpty(n)
      [] OTHER -> TapscriptVerify(n, key, full,
                    LAMBDA o, valid : IF valid THEN OnValid(o) ELSE Fail(o, "ErrNullFail"))

opcodeCheckSig(m) ==
    LET key == Top(m, 0)
        full == Top(m, 1)
        n == Popped(m, 2)
    IN  CASE Len(m.dstack) < 2 -> Fail(m, "ErrInvalidStackOperation")
          [] ~m.tap.active /\ full = <<>> -> PushBool(n, FALSE)
          [] ~m.tap.active -> CheckSigLegacy(n, key, full)
          [] OTHER -> TapscriptCheck(n, key, full, LAMBDA o : PushBool(o, FALSE),
                                     LAMBDA o : PushBool(o, TRUE))

opcodeCheckSigVerify(m) == abstractVerify(opcodeCheckSig(m), "ErrCheckSigVerify")

opcodeCheckSigAdd(m) ==
    LET key == Top(m, 0)
        acc == Top(m, 1)
        full == Top(m, 2)
        n == Popped(m, 3)
    IN  CASE ~m.tap.active -> Fail(m, "ErrReservedOpcode")
          [] Len(m.dstack) < 2 -> Fail(m, "ErrInvalidStackOperation")
          [] IntErr(m, acc) # "" -> Fail(m, IntErr(m, acc))
          [] Len(m.dstack) < 3 -> Fail(m, "ErrInvalidStackOperation")
          [] OTHER -> TapscriptCheck(n, key, full, LAMBDA o : PushInt(o, NumValue(acc)),
                                     LAMBDA o : PushInt(o, NumValue(acc) + 1))

\* The matching loop of CHECKMULTISIG over keys and signatures in the order
\* they are popped: k and s are the current key and signature.  Every round
\* moves to the next key, a valid signature also to the next signature.
RECURSIVE MultiSigLoop(_, _, _, _, _, _)
MultiSigLoop(m, script, keys, sigs, k, s) ==
    LET full == sigs[s]
        key  == keys[k]
        e1 == checkHashTypeEncodingErr(m, HashTypeOf(full))
        e2 == checkSignatureEncodingErr(m, SigBytes(full))
        e3 == checkPubKeyEncodingErr(m, key)
        hash == EcdsaHash(m, script, HashTypeOf(full))
        NextKey(n) == MultiSigLoop(n, script, keys, sigs, k + 1, s)
    IN  CASE s > Len(sigs) -> PushBool(m, TRUE)
          [] Len(sigs) - s > Len(keys) - k ->
               IF hasFlag(m, "VerifyNullFail") /\ \E i \in 1..Len(sigs) : sigs[i] # <<>>
               THEN Fail(m, "ErrNullFail") ELSE PushBool(m, FALSE)
          [] full = <<>> -> NextKey(m)
          [] e1 # "" -> Fail(m, e1)
          [] e2 # "" -> Fail(m, e2)
          [] ~EcdsaParses(SigBytes(full)) -> NextKey(m)
          [] e3 # "" -> Fail(m, e3)
          [] ~ParsePubKey(key) -> NextKey(m)
          [] SigCacheExists(m, hash, SigBytes(full), key) ->
               MultiSigLoop(m, script, keys, sigs, k + 1, s + 1)
          [] EcdsaVerify(SigBytes(full), hash, key) ->
               MultiSigLoop(SigCacheAdd(m, hash, SigBytes(full), key),
                            script, keys, sigs, k + 1, s + 1)
          [] OTHER -> NextKey(m)

RECURSIVE RemoveAll(_, _)
RemoveAll(script, sigs) ==
    IF sigs = <<>> THEN script ELSE RemoveAll(removeOpcodeByData(script, Head(sigs)), Tail(sigs))

opcodeCheckMultiSig(m) ==
    LET depth == Len(m.dstack)
        nKeys == Int32(NumValue(Top(m, 0)))
        counted == [m EXCEPT !.numOps = @ + nKeys]
        nSigs == Int32(NumValue(Top(m, nKeys + 1)))
        keys == [i \in 1..nKeys |-> Top(m, i)]
        sigs == [i \in 1..nSigs |-> Top(m, nKeys + 1 + i)]
        dummy == Top(m, nKeys + nSigs + 2)
        script == IF isWitnessVersionActive(m, 0) THEN subScript(m)
                  ELSE RemoveAll(subScript(m), sigs)
        StackFail == Fail(m, "ErrInvalidStackOperation")
    IN  CASE m.tap.active -> Fail(m, "ErrTapscriptCheckMultisig")
          [] depth < 1 -> StackFail
          [] IntErr(m, Top(m, 0)) # "" -> Fail(m, IntErr(m, Top(m, 0)))
          [] nKeys < 0 \/ nKeys > MaxPubKeysPerMultiSig -> Fail(m, "ErrInvalidPubKeyCount")
          [] counted.numOps > MaxOpsPerScript -> Fail(m, "ErrTooManyOperations")
          [] depth < nKeys + 2 -> StackFail
          [] IntErr(m, Top(m, nKeys + 1)) # "" -> Fail(m, IntErr(m, Top(m, nKeys + 1)))
          [] nSigs < 0 \/ nSigs > nKeys -> Fail(m, "ErrInvalidSignatureCount")
          [] depth < nKeys + nSigs + 3 -> StackFail
          [] hasFlag(m, "StrictMultiSig") /\ dummy # <<>> -> Fail(m, "ErrSigNullDummy")
          [] OTHER -> MultiSigLoop(Popped(counted, nKeys + nSigs + 3), script, keys, sigs, 1, 1)

opcodeCheckMultiSigVerify(m) == abstractVerify(opcodeCheckMultiSig(m), "ErrCheckMultiSigVerify")

----------------------------------------------------------------------------
(* The engine. *)

isOpcodeDisabled(op) ==
    op \in (126..129) \cup (131..134) \cup {141, 142} \cup (149..153)
isOpcodeAlwaysIllegal(op) == op \in {OP_VERIF, OP_VERNOTIF}
isOpcodeConditional(op) == op \in {OP_IF, OP_NOTIF, OP_ELSE, OP_ENDIF}

\* Whether a push uses the shortest opcode for its data.
MinimalPush(op, data) ==
    LET n == Len(data) IN
    CASE n = 0 -> op = OP_0
      [] n = 1 /\ data[1] \in 1..16 -> op = OP_1 + data[1] - 1
      [] n = 1 /\ data[1] = 129 -> op = OP_1NEGATE
      [] n <= 75 -> op = n
      [] n <= 255 -> op = OP_PUSHDATA1
      [] n <= 65535 -> op = OP_PUSHDATA2
      [] OTHER -> TRUE

\* The table of handlers (opcodeArray); Arithmetic is its numeric part.
Arithmetic(m, op) ==
    CASE op = OP_1ADD -> opcode1Add(m)
      [] op = OP_1SUB -> opcode1Sub(m)
      [] op = OP_NEGATE -> opcodeNegate(m)
      [] op = OP_ABS -> opcodeAbs(m)
      [] op = OP_NOT -> opcodeNot(m)
      [] op = OP_0NOTEQUAL -> opcode0NotEqual(m)
      [] op = OP_ADD -> opcodeAdd(m)
      [] op = OP_SUB -> opcodeSub(m)
      [] op = OP_BOOLAND -> opcodeBoolAnd(m)
      [] op = OP_BOOLOR -> opcodeBoolOr(m)
      [] op = OP_NUMEQUAL -> opcodeNumEqual(m)
      [] op = OP_NUMEQUALVERIFY -> opcodeNumEqualVerify(m)
      [] op = OP_NUMNOTEQUAL -> opcodeNumNotEqual(m)
      [] op = OP_LESSTHAN -> opcodeLessThan(m)
      [] op = OP_GREATERTHAN -> opcodeGreaterThan(m)
      [] op = OP_LESSTHANOREQUAL -> opcodeLessThanOrEqual(m)
      [] op = OP_GREATERTHANOREQUAL -> opcodeGreaterThanOrEqual(m)
      [] op = OP_MIN -> opcodeMin(m)
      [] op = OP_MAX -> opcodeMax(m)
      [] op = OP_WITHIN -> opcodeWithin(m)

StackOps(m, op) ==
    CASE op = OP_TOALTSTACK -> opcodeToAltStack(m)
      [] op = OP_FROMALTSTACK -> opcodeFromAltStack(m)
      [] op = OP_2DROP -> opcode2Drop(m)
      [] op = OP_2DUP -> opcode2Dup(m)
      [] op = OP_3DUP -> opcode3Dup(m)
      [] op = OP_2OVER -> opcode2Over(m)
      [] op = OP_2ROT -> opcode2Rot(m)
      [] op = OP_2SWAP -> opcode2Swap(m)
      [] op = OP_IFDUP -> opcodeIfDup(m)
      [] op = OP_DEPTH -> opcodeDepth(m)
      [] op = OP_DROP -> opcodeDrop(m)
      [] op = OP_DUP -> opcodeDup(m)
      [] op = OP_NIP -> opcodeNip(m)
      [] op = OP_OVER -> opcodeOver(m)
      [] op = OP_PICK -> opcodePick(m)
      [] op = OP_ROLL -> opcodeRoll(m)
      [] op = OP_ROT -> opcodeRot(m)
      [] op = OP_SWAP -> opcodeSwap(m)
      [] op = OP_TUCK -> opcodeTuck(m)
      [] op = OP_SIZE -> opcodeSize(m)
      [] op = OP_EQUAL -> opcodeEqual(m)
      [] op = OP_EQUALVERIFY -> opcodeEqualVerify(m)

opfunc(m, op, data) ==
    CASE op = OP_0 -> opcodeFalse(m)
      [] op \in 1..78 -> opcodePushData(m, data)
      [] op = OP_1NEGATE -> opcode1Negate(m)
      [] op \in {OP_RESERVED, OP_VER, OP_RESERVED1, OP_RESERVED2} -> opcodeReserved(m)
      [] op \in OP_1..OP_16 -> opcodeN(m, op)
      [] op \in {OP_NOP, OP_NOP1} \cup (OP_NOP4..OP_NOP10) -> opcodeNop(m, op)
      [] op = OP_IF -> opcodeIf(m)
      [] op = OP_NOTIF -> opcodeNotIf(m)
      [] op = OP_ELSE -> opcodeElse(m)
      [] op = OP_ENDIF -> opcodeEndif(m)
      [] op = OP_VERIFY -> opcodeVerify(m)
      [] op = OP_RETURN -> opcodeReturn(m)
      [] op \in (OP_TOALTSTACK..OP_TUCK) \cup {OP_SIZE, OP_EQUAL, OP_EQUALVERIFY} -> StackOps(m, op)
      [] op \in (OP_1ADD..OP_WITHIN) -> Arithmetic(m, op)
      [] op = OP_RIPEMD160 -> opcodeRipemd160(m)
      [] op = OP_SHA1 -> opcodeSha1(m)
      [] op = OP_SHA256 -> opcodeSha256(m)
      [] op = OP_HASH160 -> opcodeHash160(m)
      [] op = OP_HASH256 -> opcodeHash256(m)
      [] op = OP_CODESEPARATOR -> opcodeCodeSeparator(m)
      [] op = OP_CHECKSIG -> opcodeCheckSig(m)
      [] op = OP_CHECKSIGVERIFY -> opcodeCheckSigVerify(m)
      [] op = OP_CHECKMULTISIG -> opcodeCheckMultiSig(m)
      [] op = OP_CHECKMULTISIGVERIFY -> opcodeCheckMultiSigVerify(m)
      [] op = OP_CHECKLOCKTIMEVERIFY -> opcodeCheckLockTimeVerify(m)
      [] op = OP_CHECKSEQUENCEVERIFY -> opcodeCheckSequenceVerify(m)
      [] op = OP_CHECKSIGADD -> opcodeCheckSigAdd(m)
      [] OTHER -> opcodeInvalid(m)

executeOpcode(m, op, data) ==
    LET counts == ~m.tap.active /\ op > OP_16
        n == IF counts THEN [m EXCEPT !.numOps = @ + 1] ELSE m
    IN  CASE isOpcodeDisabled(op) -> Fail(m, "ErrDisabledOpcode")
          [] isOpcodeAlwaysIllegal(op) -> Fail(m, "ErrReservedOpcode")
          [] counts /\ n.numOps > MaxOpsPerScript -> Fail(n, "ErrTooManyOperations")
          [] ~counts /\ Len(data) > MaxScriptElementSize -> Fail(n, "ErrElementTooBig")
          [] ~isBranchExecuting(n) /\ ~isOpcodeConditional(op) -> n
          [] /\ hasFlag(n, "VerifyMinimalData") /\ isBranchExecuting(n)
             /\ op <= OP_PUSHDATA4 /\ ~MinimalPush(op, data) -> Fail(n, "ErrMinimalData")
          [] OTHER -> opfunc(n, op, data)

\* witness.SerializeSize with lengths below 253.
RECURSIVE SumLens(_)
SumLens(w) == IF w = <<>> THEN 0 ELSE 1 + Len(Head(w)) + SumLens(Tail(w))
WitnessSize(w) == 1 + SumLens(w)

isAnnexedWitness(w) == Len(w) >= 2 /\ Len(w[Len(w)]) > 0 /\ w[Len(w)][1] = 80

\* Element sizes of the stack a witness program starts with.
CheckWitnessStack(m) ==
    CASE m.err # "" -> m
      [] isWitnessVersionActive(m, 1) /\ Len(m.dstack) > MaxStackSize -> Fail(m, "ErrStackOverflow")
      [] /\ isWitnessVersionActive(m, 1) \/ isWitnessVersionActive(m, 0)
         /\ \E i \in 1..Len(m.dstack) : Len(m.dstack[i]) > MaxScriptElementSize ->
             Fail(m, "ErrElementTooBig")
      [] OTHER -> m

StartScript(m, script, stack) ==
    IF checkScriptParses(script)
    THEN [m EXCEPT !.scripts = Append(@, script), !.dstack = stack]
    ELSE Fail(m, "ErrMalformedPush")

payToPubKeyHashScript(hash) ==
    <<OP_DUP, OP_HASH160, OP_DATA_20>> \o hash \o <<OP_EQUALVERIFY, OP_CHECKSIG>>

\* Version 0: a key hash or a script hash.
VerifyV0(m, witness) ==
    LET n == Len(witness)
        script == witness[n]
    IN  CASE Len(m.witProg) = 20 /\ n # 2 -> Fail(m, "ErrWitnessProgramMismatch")
          [] Len(m.witProg) = 20 ->
               CheckWitnessStack(StartScript(m, payToPubKeyHashScript(m.witProg), witness))
          [] Len(m.witProg) # 32 -> Fail(m, "ErrWitnessProgramWrongLength")
          [] n = 0 -> Fail(m, "ErrWitnessProgramEmpty")
          [] Len(script) > MaxScriptSize -> Fail(m, "ErrScriptTooBig")
          [] Sha256(script) # m.witProg -> Fail(m, "ErrWitnessProgramMismatch")
          [] OTHER -> CheckWitnessStack(StartScript(m, script, SubSeq(witness, 1, n - 1)))

\* Version 1: a key spend has one element besides the annex, a script spend
\* ends with the script and its control block.
VerifyTaproot(m0, full) ==
    LET annexed == isAnnexedWitness(full)
        witness == IF annexed THEN SubSeq(full, 1, Len(full) - 1) ELSE full
        n == Len(witness)
        m == [m0 EXCEPT !.tap = [ active |-> TRUE, mustSucceed |-> FALSE,
                 annex |-> IF annexed THEN full[Len(full)] ELSE <<>>,
                 codeSepPos |-> -1, tapLeafHash |-> <<>>,
                 sigOpsBudget |-> sigOpsDelta + WitnessSize(full) ]]
        Succeed(o) == IF o.err = "" THEN [o EXCEPT !.tap.mustSucceed = TRUE] ELSE o
        block == witness[n]
        script == witness[n - 1]
        c == ParseControlBlock(block)
        commitErr == VerifyTaprootLeafCommitmentErr(c, m.witProg, script)
    IN  CASE full = <<>> -> Fail(m0, "ErrWitnessProgramEmpty")
          [] n = 1 -> Succeed(VerifyTaprootKeySpend(m, m.witProg, witness[1], m.tap.annex))
          [] ParseControlBlockErr(block) # "" -> Fail(m, ParseControlBlockErr(block))
          [] commitErr # "" -> Fail(m, commitErr)
          [] ScriptHasOpSuccess(script) ->
               IF hasFlag(m, "VerifyDiscourageOpSuccess") THEN Fail(m, "ErrDiscourageOpSuccess")
               ELSE Succeed(m)
          [] c.version # BaseLeafVersion ->
               IF hasFlag(m, "VerifyDiscourageUpgradeableTaprootVersion")
               THEN Fail(m, "ErrDiscourageUpgradeableTaprootVersion") ELSE Succeed(m)
          [] OTHER ->
               CheckWitnessStack(StartScript(
                 [m EXCEPT !.tap.tapLeafHash = LeafHash(TapLeaf(BaseLeafVersion, script))],
                 script, SubSeq(witness, 1, n - 2)))

verifyWitnessProgram(m) ==
    LET witness == m.tx.ins[m.idx].witness IN
    CASE isWitnessVersionActive(m, 0) -> VerifyV0(m, witness)
      [] isWitnessVersionActive(m, 1) /\ Len(m.witProg) = 32 /\ ~m.bip16 ->
           IF hasFlag(m, "VerifyTaproot") THEN VerifyTaproot(m, witness) ELSE m
      [] hasFlag(m, "VerifyDiscourageUpgradeableWitnessProgram") ->
           Fail(m, "ErrDiscourageUpgradableWitnessProgram")
      [] OTHER -> [m EXCEPT !.witProg = <<>>]

CheckErrorCondition(m, finalScript) ==
    LET clean == hasFlag(m, "VerifyCleanStack") \/ m.tap.active IN
    CASE m.tap.mustSucceed -> m
      [] m.scriptIdx <= Len(m.scripts) -> Fail(m, "ErrScriptUnfinished")
      [] finalScript /\ isWitnessVersionActive(m, 0) /\ Len(m.dstack) # 1 -> Fail(m, "ErrEvalFalse")
      [] finalScript /\ clean /\ Len(m.dstack) # 1 -> Fail(m, "ErrCleanStack")
      [] m.dstack = <<>> -> Fail(m, "ErrEmptyStack")
      [] asBool(Top(m, 0)) -> Popped(m, 1)
      [] OTHER -> Fail(m, "ErrEvalFalse")

\* The redeem script of a pay-to-script-hash output replaces the stack by
\* what the signature script left, without itself.
RedeemScript(m) ==
    LET n == CheckErrorCondition(m, FALSE)
        k == Len(m.saved)
    IN  IF n.err # "" THEN n
        ELSE StartScript(n, m.saved[k], SubSeq(m.saved, 1, k - 1))

\* What Step does when a script is exhausted; script indices are one based.
NextScript(m, up) ==
    CASE m.scriptIdx = 1 /\ m.bip16 -> [up EXCEPT !.saved = m.dstack]
      [] m.scriptIdx = 2 /\ m.bip16 -> RedeemScript(up)
      [] \/ m.scriptIdx = 2 /\ m.witProg # <<>>
         \/ m.scriptIdx = 3 /\ m.witProg # <<>> /\ m.bip16 -> verifyWitnessProgram(up)
      [] OTHER -> up
SkipEmpty(n) ==
    LET skip == n.scriptIdx <= Len(n.scripts) /\ n.scripts[n.scriptIdx] = <<>>
        next == IF skip THEN n.scriptIdx + 1 ELSE n.scriptIdx
    IN  IF n.err # "" THEN n
        ELSE [n EXCEPT !.scriptIdx = next, !.lastCodeSep = 0, !.off = 0,
                       !.opcodePos = -1, !.done = next > Len(n.scripts)]
EndOfScript(m) ==
    IF m.cond # <<>> THEN Fail(m, "ErrUnbalancedConditional")
    ELSE SkipEmpty(NextScript(m, [m EXCEPT !.astack = <<>>, !.numOps = 0, !.scriptIdx = @ + 1]))

AfterOpcode(n) ==
    CASE n.err # "" -> n
      [] Len(n.dstack) + Len(n.astack) > MaxStackSize -> Fail(n, "ErrStackOverflow")
      [] n.off >= Len(n.scripts[n.scriptIdx]) -> EndOfScript(n)
      [] OTHER -> n
StepEngine(m) ==
    LET t == Token(m.scripts[m.scriptIdx], m.off) IN
    AfterOpcode(executeOpcode([m EXCEPT !.off = t.next, !.opcodePos = @ + 1], t.op, t.data))

NoTaproot == [ active |-> FALSE, mustSucceed |-> FALSE, annex |-> <<>>, codeSepPos |-> -1,
               tapLeafHash |-> <<>>, sigOpsBudget |-> 0 ]

\* spend: [pkScript, tx, idx, flags, prevOuts, maxEntries].
NewEngine(spend) ==
    LET sig == spend.tx.ins[spend.idx].sigScript
        pk  == spend.pkScript
        witness == spend.tx.ins[spend.idx].witness
        flags == spend.flags
        bip16 == "Bip16" \in flags /\ isScriptHashScript(pk)
        native == isWitnessProgramScript(pk)
        nested == ~native /\ witness # <<>> /\ bip16
        inner == Suffix(sig, 2)
        canonical == Len(sig) > 2 /\ isCanonicalPush(sig[1], inner) /\ isWitnessProgramScript(inner)
        program == CASE native -> pk [] nested -> inner [] OTHER -> <<>>
        info == extractWitnessProgramInfo(program)
        m == [ flags |-> flags, tx |-> spend.tx, idx |-> spend.idx, prevOuts |-> spend.prevOuts,
               scripts |-> <<sig, pk>>, scriptIdx |-> IF sig = <<>> THEN 2 ELSE 1,
               off |-> 0, opcodePos |-> -1, lastCodeSep |-> 0, saved |-> <<>>,
               dstack |-> <<>>, astack |-> <<>>, cond |-> <<>>, numOps |-> 0,
               bip16 |-> bip16, witVer |-> 0, witProg |-> <<>>, tap |-> NoTaproot,
               sigCache |-> {}, maxEntries |-> spend.maxEntries, err |-> "", done |-> FALSE,
               verdict |-> "running" ]
    IN  CASE sig = <<>> /\ pk = <<>> -> Fail(m, "ErrEvalFalse")
          [] "VerifyCleanStack" \in flags /\ flags \cap {"Bip16", "VerifyWitness"} = {} ->
               Fail(m, "ErrInvalidFlags")
          [] ("VerifySigPushOnly" \in flags \/ bip16) /\ ~IsPushOnlyScript(sig) ->
               Fail(m, "ErrNotPushOnly")
          [] Len(sig) > MaxScriptSize \/ Len(pk) > MaxScriptSize -> Fail(m, "ErrScriptTooBig")
          [] ~checkScriptParses(sig) \/ ~checkScriptParses(pk) -> Fail(m, "ErrMalformedPush")
          [] "VerifyWitness" \notin flags -> m
          [] "Bip16" \notin flags -> Fail(m, "ErrInvalidFlags")
          [] native /\ sig # <<>> -> Fail(m, "ErrWitnessMalleated")
          [] nested /\ ~canonical -> Fail(m, "ErrWitnessMalleatedP2SH")
          [] native \/ nested -> [m EXCEPT !.witVer = info.version, !.witProg = info.program]
          [] witness # <<>> -> Fail(m, "ErrWitnessUnexpected")
          [] OTHER -> m

\* One round of the loop of Execute, and the check after it.
Step ==
    /\ vm.err = "" /\ ~vm.done
    /\ vm' = StepEngine(vm)

Finish ==
    /\ vm.err = "" /\ vm.done /\ vm.verdict = "running"
    /\ vm' = LET n == CheckErrorCondition(vm, TRUE) IN
             [n EXCEPT !.verdict = IF n.err = "" THEN "ok" ELSE "failed"]

EngineNext == Step \/ Finish

----------------------------------------------------------------------------
(* Properties. *)

\* An opcode is executed exactly when every conditional around it took the
\* branch it stands in, although the engine looks at the innermost one only
\* (isBranchExecuting, opcodeIf, opcodeElse).
BranchesNest ==
    isBranchExecuting(vm) <=> \A i \in 1..Len(vm.cond) : vm.cond[i] = "True"

=============================================================================
