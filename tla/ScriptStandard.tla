--------------------------- MODULE ScriptStandard ---------------------------
(***************************************************************************)
(* Standard scripts and their signing (txscript/standard.go, pkscript.go,  *)
(* script.go, sign.go): the scripts paid to, what is counted and extracted *)
(* from them, and the signature scripts that spend them.  An address is    *)
(* the kind of script it stands for and the bytes it commits to.           *)
(***************************************************************************)
EXTENDS ScriptEngine

----------------------------------------------------------------------------
(* Building. *)

Built(b) == IF b.failed THEN <<>> ELSE b.script

payToWitnessPubKeyHashScript(hash) ==
    Built(AddData(AddOp(NewScriptBuilder, OP_0), hash))
payToScriptHashScript(hash) ==
    Built(AddOp(AddData(AddOp(NewScriptBuilder, OP_HASH160), hash), OP_EQUAL))
payToWitnessScriptHashScript(hash) ==
    Built(AddData(AddOp(NewScriptBuilder, OP_0), hash))
payToWitnessTaprootScript(key) ==
    Built(AddData(AddOp(NewScriptBuilder, OP_1), key))
payToPubKeyScript(key) ==
    Built(AddOp(AddData(NewScriptBuilder, key), OP_CHECKSIG))

PayToAddrScript(addr) ==
    CASE addr.kind = "PubKeyHashTy"          -> payToPubKeyHashScript(addr.data)
      [] addr.kind = "ScriptHashTy"          -> payToScriptHashScript(addr.data)
      [] addr.kind = "PubKeyTy"              -> payToPubKeyScript(addr.data)
      [] addr.kind = "WitnessV0PubKeyHashTy" -> payToWitnessPubKeyHashScript(addr.data)
      [] addr.kind = "WitnessV0ScriptHashTy" -> payToWitnessScriptHashScript(addr.data)
      [] addr.kind = "WitnessV1TaprootTy"    -> payToWitnessTaprootScript(addr.data)
      [] OTHER                               -> <<>>

NullDataScript(data) ==
    IF Len(data) > MaxDataCarrierSize THEN <<>>
    ELSE Built(AddData(AddOp(NewScriptBuilder, OP_RETURN), data))

RECURSIVE AddAllData(_, _)
AddAllData(b, items) ==
    IF items = <<>> THEN b ELSE AddAllData(AddData(b, Head(items)), Tail(items))

MultiSigScript(keys, nrequired) ==
    IF Len(keys) < nrequired THEN <<>>
    ELSE Built(AddOp(AddInt64(AddAllData(AddInt64(NewScriptBuilder, nrequired), keys),
                              Len(keys)), OP_CHECKMULTISIG))

\* The pushes of a script; an OP_0 counts as an empty one.
PushedData(script) ==
    LET toks == Tokens(script)
        Pushes(t) == t.op <= OP_PUSHDATA4
        kept == SelectSeq(toks, Pushes)
    IN  IF Parses(toks) THEN [i \in 1..Len(kept) |-> kept[i].data] ELSE <<>>

----------------------------------------------------------------------------
(* Taking scripts apart. *)

extractPubKey(s) ==
    IF extractCompressedPubKey(s) # <<>> THEN extractCompressedPubKey(s)
    ELSE extractUncompressedPubKey(s)

\* [class, addrs, required].
ExtractAddrs(s, multi) ==
    LET One(class, data) == [class |-> class, required |-> 1,
                             addrs |-> <<[kind |-> class, data |-> data]>>]
    IN  CASE extractPubKeyHash(s) # <<>> -> One("PubKeyHashTy", extractPubKeyHash(s))
          [] extractScriptHash(s) # <<>> -> One("ScriptHashTy", extractScriptHash(s))
          [] extractPubKey(s) # <<>> -> One("PubKeyTy", extractPubKey(s))
          [] multi.valid ->
               [class |-> "MultiSigTy", required |-> multi.requiredSigs,
                addrs |-> [i \in 1..Len(multi.keys) |->
                              [kind |-> "PubKeyTy", data |-> multi.keys[i]]]]
          [] isNullDataScript(s) -> [class |-> "NullDataTy", required |-> 0, addrs |-> <<>>]
          [] extractWitnessPubKeyHash(s) # <<>> ->
               One("WitnessV0PubKeyHashTy", extractWitnessPubKeyHash(s))
          [] extractWitnessV0ScriptHash(s) # <<>> ->
               One("WitnessV0ScriptHashTy", extractWitnessV0ScriptHash(s))
          [] extractWitnessV1KeyBytes(s) # <<>> ->
               One("WitnessV1TaprootTy", extractWitnessV1KeyBytes(s))
          [] OTHER -> [class |-> "NonStandardTy", required |-> 0, addrs |-> <<>>]
ExtractPkScriptAddrs(s) == ExtractAddrs(s, extractMultisigScriptDetails(s))

GetPreciseSigOpCount(scriptSig, pkScript) ==
    LET redeem == finalOpcodeData(scriptSig) IN
    CASE ~isScriptHashScript(pkScript) -> countSigOpsV0(pkScript, TRUE)
      [] scriptSig = <<>> \/ ~IsPushOnlyScript(scriptSig) -> 0
      [] redeem = <<>> -> 0
      [] OTHER -> countSigOpsV0(redeem, TRUE)

getWitnessSigOps(pkScript, witness) ==
    LET info == extractWitnessProgramInfo(pkScript) IN
    CASE info.version = 0 /\ Len(info.program) = 20 -> 1
      [] info.version = 0 /\ Len(info.program) = 32 /\ witness # <<>> ->
             countSigOpsV0(witness[Len(witness)], TRUE)
      [] OTHER -> 0

GetWitnessSigOpCount(sigScript, pkScript, witness) ==
    CASE isWitnessProgramScript(pkScript) -> getWitnessSigOps(pkScript, witness)
      [] /\ isScriptHashScript(pkScript) /\ IsPushOnlyScript(sigScript) /\ sigScript # <<>>
         /\ isWitnessProgramScript(Suffix(sigScript, 2)) ->
             getWitnessSigOps(Suffix(sigScript, 2), witness)
      [] OTHER -> 0

expectedInputs(script, class) ==
    CASE class = "PubKeyTy" -> 1
      [] class \in {"PubKeyHashTy", "WitnessV0PubKeyHashTy"} -> 2
      [] class \in {"ScriptHashTy", "WitnessV0ScriptHashTy", "WitnessV1TaprootTy"} -> 1
      [] class = "MultiSigTy" -> asSmallInt(script[1]) + 1
      [] OTHER -> -1

\* [class, inputs, expected, sigOps] for a push-only signature script.
CalcScriptInfo(sigScript, pkScript, witness, bip16, segwit) ==
    LET class == typeOfScript(0, pkScript)
        n == Len(Tokens(sigScript))
        own == expectedInputs(pkScript, class)
        Inner(s) == expectedInputs(s, typeOfScript(0, s))
        Plus(s) == IF Inner(s) = -1 THEN -1 ELSE own + Inner(s)
        Info(inputs, expected, ops) ==
            [class |-> class, inputs |-> inputs, expected |-> expected, sigOps |-> ops]
        redeem == finalOpcodeData(sigScript)
        nested == Suffix(sigScript, 2)
        witOps == GetWitnessSigOpCount(sigScript, pkScript, witness)
    IN  CASE class = "ScriptHashTy" /\ bip16 /\ ~segwit ->
               Info(n, Plus(redeem), countSigOpsV0(redeem, TRUE))
          [] class = "WitnessV0PubKeyHashTy" /\ segwit -> Info(Len(witness), own, witOps)
          [] class = "ScriptHashTy" /\ isWitnessProgramScript(nested) /\ bip16 /\ segwit ->
               Info(Len(witness) + n, Plus(nested), witOps)
          [] class = "WitnessV0ScriptHashTy" /\ segwit ->
               Info(Len(witness), Plus(witness[Len(witness)]), witOps)
          [] OTHER -> Info(n, own, countSigOpsV0(pkScript, TRUE))

\* The output script a signature script or a witness must have spent, <<>>
\* when it cannot be told.
ComputePkScript(sigScript, witness) ==
    LET last == witness[Len(witness)]
        key == Suffix(sigScript, Len(sigScript) - 32)
    IN  CASE sigScript # <<>> /\ ~IsPushOnlyScript(sigScript) -> <<>>
          [] /\ Len(sigScript) \in 44..108
             /\ Len(key) = 33 /\ key[1] \in {2, 3} -> payToPubKeyHashScript(Hash160(key))
          [] sigScript # <<>> -> payToScriptHashScript(Hash160(finalOpcodeData(sigScript)))
          [] witness = <<>> -> <<>>
          [] Len(witness) = 2 /\ Len(last) = 33 -> payToWitnessPubKeyHashScript(Hash160(last))
          [] OTHER -> payToWitnessScriptHashScript(Sha256(last))

\* The twenty tokens of an atomic swap contract; an integer is 0 here.
SwapTemplate ==
    << OP_IF, OP_SIZE, 0, OP_EQUALVERIFY, OP_SHA256, OP_DATA_32, OP_EQUALVERIFY, OP_DUP,
       OP_HASH160, OP_DATA_20, OP_ELSE, 0, OP_CHECKLOCKTIMEVERIFY, OP_DROP, OP_DUP,
       OP_HASH160, OP_DATA_20, OP_ENDIF, OP_EQUALVERIFY, OP_CHECKSIG >>

NoSwap == [found |-> FALSE]
ExtractAtomicSwapDataPushes(script) ==
    LET toks == Tokens(script)
        Ints == {3, 12}
        max(i) == IF i = 3 THEN 4 ELSE 5
        IntOk(i) == \/ toks[i].op \in 1..78 /\ MakeScriptNumErr(toks[i].data, TRUE, max(i)) = ""
                    \/ toks[i].op \notin 1..78 /\ isSmallInt(toks[i].op)
        IntOf(i) == IF toks[i].op \in 1..78 THEN NumValue(toks[i].data) ELSE asSmallInt(toks[i].op)
    IN  IF /\ Len(toks) = 20 /\ Parses(toks)
           /\ \A i \in 1..20 : IF i \in Ints THEN IntOk(i) ELSE toks[i].op = SwapTemplate[i]
        THEN [found |-> TRUE, secretSize |-> IntOf(3), lockTime |-> IntOf(12),
              secretHash |-> toks[6].data, recipient |-> toks[10].data, refund |-> toks[17].data]
        ELSE NoSwap

----------------------------------------------------------------------------
(* Signing.  keys maps an address to the key that signs for it (the keys the
   KeyDB has), scripts a script hash address to its script (the ScriptDB). *)

RawTxInSignature(tx, idx, script, hashType, key) ==
    Append(EcdsaSign(key, CalcSignatureHash(script, hashType, tx, idx)), hashType)

RawTxInWitnessSignature(tx, prevOuts, idx, script, hashType, key) ==
    Append(EcdsaSign(key, calcWitnessSignatureHashRaw(script, NewTxSigHashes(tx, prevOuts),
                              hashType, tx, idx, prevOuts[tx.ins[idx].prev].value)), hashType)

SignatureScript(tx, idx, script, hashType, key) ==
    Built(AddData(AddData(NewScriptBuilder, RawTxInSignature(tx, idx, script, hashType, key)), key))

p2pkSignatureScript(tx, idx, script, hashType, key) ==
    Built(AddData(NewScriptBuilder, RawTxInSignature(tx, idx, script, hashType, key)))

WitnessSignature(tx, prevOuts, idx, script, hashType, key) ==
    <<RawTxInWitnessSignature(tx, prevOuts, idx, script, hashType, key), key>>

\* Signs with the keys that are known, in the order of the script, until
\* there are enough.
signMultiSig(tx, idx, script, hashType, addrs, nRequired, keys) ==
    LET Known(a) == a \in DOMAIN keys
        known == SelectSeq(addrs, Known)
        n == IF Len(known) < nRequired \/ nRequired = 0 THEN Len(known) ELSE nRequired
    IN  AddAllData(AddOp(NewScriptBuilder, OP_0),
                   [i \in 1..n |-> RawTxInSignature(tx, idx, script, hashType, keys[known[i]])]).script

\* [ok, script, class, addrs, required].
SignAs(x, tx, idx, script, hashType, keys, scripts) ==
    LET a == x.addrs[1]
        Signed(s) == [ok |-> TRUE, script |-> s, class |-> x.class, addrs |-> x.addrs,
                      required |-> x.required]
        Refused == [ok |-> FALSE, script |-> <<>>, class |-> x.class, addrs |-> <<>>,
                    required |-> 0]
    IN  CASE x.class = "PubKeyTy" /\ a \in DOMAIN keys ->
               Signed(p2pkSignatureScript(tx, idx, script, hashType, keys[a]))
          [] x.class = "PubKeyHashTy" /\ a \in DOMAIN keys ->
               Signed(SignatureScript(tx, idx, script, hashType, keys[a]))
          [] x.class = "ScriptHashTy" /\ a \in DOMAIN scripts -> Signed(scripts[a])
          [] x.class = "MultiSigTy" ->
               Signed(signMultiSig(tx, idx, script, hashType, x.addrs, x.required, keys))
          [] OTHER -> Refused
sign(tx, idx, script, hashType, keys, scripts) ==
    SignAs(ExtractPkScriptAddrs(script), tx, idx, script, hashType, keys, scripts)

\* Collects the signatures of both scripts, tells by verification whose they
\* are, and lays them out in the order of the keys, padded with OP_0.
mergeMultiSig(tx, idx, addrs, nRequired, pkScript, sigScript, prevScript) ==
    LET NotEmpty(t) == t.data # <<>>
        Sigs(s) == LET kept == SelectSeq(Tokens(s), NotEmpty)
                   IN  [i \in 1..Len(kept) |-> kept[i].data]
        possible == Sigs(sigScript) \o Sigs(prevScript)
        Matches(sig, a) == /\ EcdsaParses(SigBytes(sig))
                           /\ EcdsaVerify(SigBytes(sig),
                                calcSignatureHash(pkScript, HashTypeOf(sig), tx, idx), a.data)
        Owner(sig) == {i \in 1..Len(addrs) : Matches(sig, addrs[i])
                                             /\ \A j \in 1..(i - 1) : ~Matches(sig, addrs[j])}
        Of(i) == {k \in 1..Len(possible) : \E o \in Owner(possible[k]) : addrs[o] = addrs[i]}
        First(i) == possible[CHOOSE k \in Of(i) : \A j \in Of(i) : k <= j]
        HasSig(i) == Of(i) # {}
        have == SelectSeq([i \in 1..Len(addrs) |-> i], HasSig)
        n == IF Len(have) < nRequired \/ nRequired = 0 THEN Len(have) ELSE nRequired
        b == AddAllData(AddOp(NewScriptBuilder, OP_0), [i \in 1..n |-> First(have[i])])
    IN  CASE sigScript = <<>> -> prevScript
          [] prevScript = <<>> -> sigScript
          [] ~checkScriptParses(sigScript) -> prevScript
          [] ~checkScriptParses(prevScript) -> sigScript
          [] OTHER -> AddOps(b, Repeated(OP_0, IF nRequired > n THEN nRequired - n ELSE 0)).script


RECURSIVE mergeScripts(_, _, _, _, _, _, _, _)
mergeScripts(tx, idx, pkScript, class, addrs, nRequired, sigScript, prevScript) ==
    LET script == finalOpcodeData(sigScript)
        x == ExtractPkScriptAddrs(script)
    IN  CASE class = "ScriptHashTy" /\ (sigScript = <<>> \/ ~checkScriptParses(sigScript)) -> prevScript
          [] class = "ScriptHashTy" /\ (prevScript = <<>> \/ ~checkScriptParses(prevScript)) -> sigScript
          [] class = "ScriptHashTy" ->
               AddData(AddOps(NewScriptBuilder,
                              mergeScripts(tx, idx, script, x.class, x.addrs, x.required,
                                           sigScript, prevScript)), script).script
          [] class = "MultiSigTy" ->
               mergeMultiSig(tx, idx, addrs, nRequired, pkScript, sigScript, prevScript)
          [] Len(sigScript) > Len(prevScript) -> sigScript
          [] OTHER -> prevScript

\* <<>> for an error.
WithRedeemScript(x, inner) ==
    IF inner.ok THEN [x EXCEPT !.script = AddData(AddOps(NewScriptBuilder, inner.script), @).script]
    ELSE [x EXCEPT !.ok = FALSE]
SignInner(x, tx, idx, hashType, keys, scripts) ==
    IF x.ok /\ x.class = "ScriptHashTy"
    THEN WithRedeemScript(x, sign(tx, idx, x.script, hashType, keys, scripts)) ELSE x
MergeSigned(x, tx, idx, pkScript, previousScript) ==
    IF x.ok THEN mergeScripts(tx, idx, pkScript, x.class, x.addrs, x.required, x.script, previousScript)
    ELSE <<>>
SignTxOutput(tx, idx, pkScript, hashType, keys, scripts, previousScript) ==
    MergeSigned(SignInner(sign(tx, idx, pkScript, hashType, keys, scripts), tx, idx, hashType, keys, scripts),
                tx, idx, pkScript, previousScript)

\* Taproot key spends.  The private key is an object: its public key is
\* key.  Tweaking changes the object, and the signature carries no hash type.
TweakTaprootPrivKey(key, root) == ComputeTaprootOutputKey(key, root)

\* [sig, key]: the signature and what the private key has become.
RawTxInTaprootSignature(tx, prevOuts, idx, root, hashType, key) ==
    LET hash == calcTaprootSignatureHashRaw(NewTxSigHashes(tx, prevOuts), hashType, tx, idx,
                                            prevOuts, NoOptions)
        tweaked == TweakTaprootPrivKey(key, root)
    IN  [sig |-> SchnorrSign(tweaked, hash), key |-> tweaked]


RawTxInTapscriptSignature(tx, prevOuts, idx, leaf, hashType, key) ==
    LET hash == calcTaprootSignatureHashRaw(NewTxSigHashes(tx, prevOuts), hashType, tx, idx, prevOuts,
                    [ext |-> 1, annex |-> <<>>, leaf |-> LeafHash(leaf), codeSep |-> -1])
    IN  IF hashType # SigHashDefault THEN Append(SchnorrSign(key, hash), hashType)
        ELSE SchnorrSign(key, hash)
=============================================================================
