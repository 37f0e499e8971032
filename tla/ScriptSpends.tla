---------------------------- MODULE ScriptSpends ----------------------------
(***************************************************************************)
(* Spends for the script engine and what they should come to.  A job signs *)
(* an output of some kind with some keys and a hash type, one signer after *)
(* the other, changes the transaction afterwards, and runs the engine on   *)
(* the result.  A program runs opcodes on an empty signature script.       *)
(***************************************************************************)
EXTENDS ScriptStandard, TLC

VARIABLE job

StandardFlags == { "Bip16", "StrictMultiSig", "VerifyDERSignatures", "VerifyStrictEncoding",
                   "VerifyMinimalData", "VerifyCleanStack", "VerifyWitness", "VerifyLowS",
                   "VerifyNullFail", "VerifyMinimalIf", "VerifyWitnessPubKeyType", "VerifyTaproot",
                   "VerifyCheckLockTimeVerify", "VerifyCheckSequenceVerify",
                   "VerifyDiscourageUpgradableNops" }

\* The output that is signed is the second input of a transaction of two
\* inputs and two outputs.
BaseTx == [ version |-> 2, lockTime |-> 0,
            ins  |-> [i \in 1..2 |-> [prev |-> i, sequence |-> 9, sigScript |-> <<>>, witness |-> <<>>]],
            outs |-> [i \in 1..2 |-> [value |-> 10 + i, script |-> <<OP_1>>]] ]
Idx == 2

Keys == <<PubKey(11), PubKey(12), PubKey(13)>>
InternalKey == XOnlyKey(9)

Bare(n, required) == MultiSigScript(SubSeq(Keys, 1, n), required)
LeafScript(k) == AddOp(AddData(NewScriptBuilder, XOnlyKey(k)), OP_CHECKSIG).script
AddScript == <<OP_0>> \o addData(XOnlyKey(11)) \o <<OP_CHECKSIGADD>> \o addData(XOnlyKey(12))
                 \o <<OP_CHECKSIGADD, OP_1 + 1, OP_NUMEQUAL>>
Leaves == << TapLeaf(BaseLeafVersion, LeafScript(11)), TapLeaf(BaseLeafVersion, AddScript),
             TapLeaf(BaseLeafVersion, LeafScript(12)) >>
Tree == AssembleTaprootScriptTree(Leaves)
Root == TapHash(Tree.root)

\* The output script of each kind of job.
PkScriptOf(kind) ==
    CASE kind = "p2pk"      -> payToPubKeyScript(Keys[1])
      [] kind = "p2pkh"     -> payToPubKeyHashScript(Hash160(Keys[1]))
      [] kind = "multi"     -> Bare(3, 2)
      [] kind = "p2sh"      -> payToScriptHashScript(Hash160(Bare(3, 2)))
      [] kind = "p2shkey"   -> payToScriptHashScript(Hash160(payToPubKeyScript(Keys[1])))
      [] kind = "p2wpkh"    -> payToWitnessPubKeyHashScript(Hash160(Keys[1]))
      [] kind = "nested"    -> payToScriptHashScript(
                                 Hash160(payToWitnessPubKeyHashScript(Hash160(Keys[1]))))
      [] kind = "p2wsh"     -> payToWitnessScriptHashScript(Sha256(Bare(2, 1)))
      [] kind = "tapkey"    -> payToWitnessTaprootScript(ComputeTaprootOutputKey(InternalKey, Root))
      [] kind \in {"tapleaf", "tapadd"} ->
             payToWitnessTaprootScript(ComputeTaprootOutputKey(InternalKey, Root))

PrevOuts(kind) == [i \in 1..2 |-> [value |-> 20 + i,
                                   script |-> IF i = Idx THEN PkScriptOf(kind) ELSE <<OP_1>>]]

\* The key and the script databases of a signer that holds the key k alone.
KeyDB(k) == {[kind |-> "PubKeyTy", data |-> Keys[k]], [kind |-> "PubKeyHashTy", data |-> Hash160(Keys[k])]}
KeysOf(k) == [a \in KeyDB(k) |-> Keys[k]]
KnownScripts == {Bare(3, 2), payToPubKeyScript(Keys[1])}
ScriptDB == [a \in {[kind |-> "ScriptHashTy", data |-> Hash160(s)] : s \in KnownScripts} |->
                CHOOSE s \in KnownScripts : Hash160(s) = a.data]

\* Signers one after another, each merging into the script of those before.
RECURSIVE SignInTurn(_, _, _, _)
OrElse(s, prev) == IF s = <<>> THEN prev ELSE s
SignInTurn(kind, signers, hashType, prev) ==
    IF signers = <<>> THEN prev
    ELSE SignInTurn(kind, Tail(signers), hashType,
           OrElse(SignTxOutput(BaseTx, Idx, PkScriptOf(kind), hashType, KeysOf(Head(signers)),
                               ScriptDB, prev), prev))

WitnessOf(kind, signers, hashType, prevOuts) ==
    LET k == IF signers = <<>> THEN 3 ELSE Head(signers)
        Tap(i, who) == RawTxInTapscriptSignature(BaseTx, prevOuts, Idx, Leaves[i], hashType, XOnlyKey(10 + who))
        Control(i) == <<Leaves[i].script, ToControlBlock(InternalKey, BaseLeafVersion, Tree.proofs[i], Root)>>
        Present(who) == IF \E j \in 1..Len(signers) : signers[j] = who THEN Tap(2, who) ELSE <<>>
    IN  CASE kind \in {"p2wpkh", "nested"} ->
               WitnessSignature(BaseTx, prevOuts, Idx,
                   payToWitnessPubKeyHashScript(Hash160(Keys[1])), hashType, Keys[k])
          [] kind = "p2wsh" ->
               << <<>>, RawTxInWitnessSignature(BaseTx, prevOuts, Idx, Bare(2, 1), hashType, Keys[k]),
                  Bare(2, 1) >>
          [] kind = "tapkey" ->
               << RawTxInTaprootSignature(BaseTx, prevOuts, Idx, Root, SigHashDefault,
                                          IF k = 1 THEN InternalKey ELSE XOnlyKey(10 + k)).sig >>
          [] kind = "tapleaf" -> <<Tap(1, k)>> \o Control(1)
          [] kind = "tapadd" -> <<Present(2), Present(1)>> \o Control(2)
          [] OTHER -> <<>>

Legacy == {"p2pk", "p2pkh", "multi", "p2sh", "p2shkey"}
Segwit == {"p2wpkh", "nested", "p2wsh"}
Taproot == {"tapkey", "tapleaf", "tapadd"}

SignedTx(j) ==
    [BaseTx EXCEPT
        !.ins[Idx].sigScript =
            CASE j.kind \in Legacy -> SignInTurn(j.kind, j.signers, j.hashType, <<>>)
              [] j.kind = "nested" -> addData(payToWitnessPubKeyHashScript(Hash160(Keys[1])))
              [] OTHER -> <<>>,
        !.ins[Idx].witness = WitnessOf(j.kind, j.signers, j.hashType, PrevOuts(j.kind))]

\* What happens to the transaction, or to the outputs it spends, afterwards.
Tampered(tx, what) ==
    CASE what = "sequence" -> [tx EXCEPT !.ins[1].sequence = 5]
      [] what = "prevout"  -> [tx EXCEPT !.ins[1].prev = 2, !.ins[2].prev = 2]
      [] what = "out1"     -> [tx EXCEPT !.outs[1].value = 77]
      [] what = "out2"     -> [tx EXCEPT !.outs[2].value = 77]
      [] what = "lock"     -> [tx EXCEPT !.lockTime = 3]
      [] OTHER             -> tx
TamperedOuts(outs, what) ==
    CASE what = "amount"  -> [outs EXCEPT ![Idx].value = 99]
      [] what = "amount1" -> [outs EXCEPT ![1].value = 99]
      [] OTHER            -> outs

SpendOf(j) ==
    [ pkScript |-> PkScriptOf(j.kind), tx |-> Tampered(SignedTx(j), j.tamper), idx |-> Idx,
      flags |-> StandardFlags, prevOuts |-> TamperedOuts(PrevOuts(j.kind), j.tamper),
      maxEntries |-> 1 ]

----------------------------------------------------------------------------
(* The reference. *)

\* What a signature of each kind commits to, as BIP 143 and BIP 341 have it.
Commits(kind, hashType, what) ==
    LET base == hashType % 4
        anyone == hashType >= 128
        tap == kind \in Taproot
    IN  CASE what = "none"     -> FALSE
          [] what = "lock"     -> TRUE
          [] what = "sequence" -> ~anyone /\ (tap \/ base \in {0, 1})
          [] what = "prevout"  -> ~anyone
          [] what = "out1"     -> base \in {0, 1}
          [] what = "out2"     -> base # 2
          [] what = "amount"   -> kind \notin Legacy
          [] what = "amount1"  -> tap /\ ~anyone

Enough(kind, signers) ==
    LET Who == {signers[i] : i \in 1..Len(signers)} IN
    CASE kind \in {"multi", "p2sh"} -> Cardinality(Who) >= 2
      [] kind = "p2wsh" -> signers # <<>> /\ Head(signers) \in {1, 2}
      [] kind = "tapadd" -> {1, 2} \subseteq Who
      [] kind \in Legacy -> 1 \in Who
      [] OTHER -> signers # <<>> /\ Head(signers) = 1

Signers == UNION {{s \in [1..n -> 1..3] : \A i, j \in 1..n : i # j => s[i] # s[j]} : n \in 0..3}
HashTypes == {SigHashAll, SigHashNone, SigHashSingle, SigHashAll + SigHashAnyOneCanPay,
              SigHashSingle + SigHashAnyOneCanPay}
Tampers == {"none", "sequence", "prevout", "out1", "out2", "lock", "amount", "amount1"}

SpendJobs ==
    { j \in [kind : Legacy \cup Segwit \cup Taproot, signers : Signers, hashType : HashTypes,
             tamper : Tampers] :
        /\ j.tamper = "none" \/ j.signers \in {<<1>>, <<2, 1>>}
        /\ Len(j.signers) > 1 => j.kind \in {"multi", "p2sh", "tapadd"}
        /\ j.kind = "tapkey" => j.hashType = SigHashAll
        /\ j.hashType = SigHashAll \/ j.signers \in {<<1>>, <<2, 1>>} }
Hashing(j) == IF j.kind = "tapkey" THEN SigHashDefault ELSE j.hashType

----------------------------------------------------------------------------
(* Programs. *)

\* A program tests conditionals: words of opcodes after a true and a false
\* value.
Words == {OP_IF, OP_NOTIF, OP_ELSE, OP_ENDIF, OP_0, OP_RETURN}
Programs == UNION {[1..n -> Words] : n \in 1..4}
ProgramOf(word) ==
    [ pkScript |-> <<OP_1, OP_0>> \o word, tx |-> BaseTx, idx |-> Idx, flags |-> {},
      prevOuts |-> PrevOuts("p2pk"), maxEntries |-> 0 ]

Idle(e) == [NewEngine(ProgramOf(<<OP_1>>)) EXCEPT !.err = e]

----------------------------------------------------------------------------
(* Properties. *)


\* The opcodes that rearrange the stack do to six elements what their
\* comments document: "[... x1 x2 x3] -> [...]" read as positions.
Rearranged(op) ==
    CASE op = OP_2DROP -> <<1, 2, 3, 4>>
      [] op = OP_2DUP -> <<1, 2, 3, 4, 5, 6, 5, 6>>
      [] op = OP_3DUP -> <<1, 2, 3, 4, 5, 6, 4, 5, 6>>
      [] op = OP_2OVER -> <<1, 2, 3, 4, 5, 6, 3, 4>>
      [] op = OP_2ROT -> <<3, 4, 5, 6, 1, 2>>
      [] op = OP_2SWAP -> <<1, 2, 5, 6, 3, 4>>
      [] op = OP_DROP -> <<1, 2, 3, 4, 5>>
      [] op = OP_DUP -> <<1, 2, 3, 4, 5, 6, 6>>
      [] op = OP_NIP -> <<1, 2, 3, 4, 6>>
      [] op = OP_OVER -> <<1, 2, 3, 4, 5, 6, 5>>
      [] op = OP_ROT -> <<1, 2, 3, 5, 6, 4>>
      [] op = OP_SWAP -> <<1, 2, 3, 4, 6, 5>>
      [] op = OP_TUCK -> <<1, 2, 3, 4, 6, 5, 6>>
StackWords == {OP_2DROP, OP_2DUP, OP_3DUP, OP_2OVER, OP_2ROT, OP_2SWAP, OP_DROP, OP_DUP,
               OP_NIP, OP_OVER, OP_ROT, OP_SWAP, OP_TUCK}
OpcodesAsDocumented ==
    job.part = "stack" /\ vm.err = "idle" =>
        \E n \in {opfunc([vm EXCEPT !.err = "", !.dstack = [i \in 1..6 |-> <<i>>]], job.op, <<>>)} :
            n.err = "" /\ n.dstack = [i \in 1..Len(Rearranged(job.op)) |-> <<Rearranged(job.op)[i]>>]

\* A number survives being pushed by the builder, read by the tokenizer and
\* interpreted by the engine, and the push and the number are minimal
\* (AddInt64, scriptNum.Bytes, MakeScriptNum, checkMinimalDataPush).
PushedValue(t) ==
    CASE t.op = OP_1NEGATE -> -1
      [] isSmallInt(t.op) -> asSmallInt(t.op)
      [] OTHER -> NumValue(t.data)
NumbersRoundTrip ==
    job.part = "number" /\ vm.err = "idle" =>
        LET toks == Tokens(AddInt64(NewScriptBuilder, job.n).script) IN
        /\ Len(toks) = 1 /\ Parses(toks)
        /\ PushedValue(toks[1]) = job.n
        /\ MinimalPush(toks[1].op, toks[1].data) \/ toks[1].op > OP_PUSHDATA4
        /\ toks[1].op \in 1..75 => MakeScriptNumErr(toks[1].data, TRUE, 5) = ""

\* Every leaf of an assembled script tree of up to five leaves can be spent.
TapTreesLead ==
    job.part = "tree" /\ vm.err = "idle" =>
        TapTreeProofsLead([i \in 1..job.n |-> TapLeaf(BaseLeafVersion, <<OP_1 + i>>)], InternalKey)

\* What an input the engine accepts and the output it spends say of each other:
\* the output script is rebuilt from the address it yields
\* (ExtractPkScriptAddrs, PayToAddrScript) and from what spends it
\* (ComputePkScript), and the counts of inputs and signature checks are those of
\* the script that was really run (CalcScriptInfo, GetPreciseSigOpCount).
Checks(kind) == CASE kind \in {"multi", "p2sh"} -> 3 [] kind = "p2wsh" -> 2 [] OTHER -> 1
Described(kind, in, pk, parts, info) ==
    /\ parts.class = GetScriptClass(pk) /\ ~IsUnspendable(pk)
    /\ kind # "multi" => PayToAddrScript(parts.addrs[1]) = pk
    /\ kind \notin {"p2pk", "multi"} => ComputePkScript(in.sigScript, in.witness) = pk
    /\ info.inputs = info.expected /\ info.sigOps = Checks(kind)
    /\ GetPreciseSigOpCount(in.sigScript, pk) = IF kind \in Segwit THEN 0 ELSE Checks(kind)
StandardAgree ==
    vm.verdict = "ok" /\ job.part = "spend" /\ job.kind \notin Taproot =>
        \E in \in {vm.tx.ins[Idx]}, pk \in {PkScriptOf(job.kind)} :
            Described(job.kind, in, pk, ExtractPkScriptAddrs(pk),
                      CalcScriptInfo(in.sigScript, pk, in.witness, TRUE, job.kind \in Segwit))

\* What a script carries is found in it again: the data of an output that
\* cannot be spent (NullDataScript, PushedData) and the terms of an atomic
\* swap, whether a term is a small integer or a push of several bytes
\* (ExtractAtomicSwapDataPushes).
Swap(size, lock) ==
    << OP_IF, OP_SIZE >> \o AddInt64(NewScriptBuilder, size).script
      \o << OP_EQUALVERIFY, OP_SHA256 >> \o addData(Repeated(1, 32))
      \o << OP_EQUALVERIFY, OP_DUP, OP_HASH160 >> \o addData(Repeated(2, 20))
      \o << OP_ELSE >> \o AddInt64(NewScriptBuilder, lock).script
      \o << OP_CHECKLOCKTIMEVERIFY, OP_DROP, OP_DUP, OP_HASH160 >> \o addData(Repeated(3, 20))
      \o << OP_ENDIF, OP_EQUALVERIFY, OP_CHECKSIG >>
CarriedFound ==
    /\ job.part = "data" /\ vm.err = "idle" =>
           \E data \in {Repeated(200, job.n)} : \E s \in {NullDataScript(data)} :
               IF job.n > MaxDataCarrierSize THEN s = <<>>
               ELSE GetScriptClass(s) = "NullDataTy" /\ IsUnspendable(s) /\ PushedData(s) = <<data>>
    /\ job.part = "swap" /\ vm.err = "idle" =>
           \E found \in {ExtractAtomicSwapDataPushes(Swap(job.size, job.lock))} :
               /\ found.found /\ found.secretSize = job.size /\ found.lockTime = job.lock
               /\ found.secretHash = Repeated(1, 32)
               /\ found.recipient = Repeated(2, 20) /\ found.refund = Repeated(3, 20)

\* What the engine and the signer build on: conditionals, stack opcodes,
\* numbers, script trees, standard scripts and what they carry.
GroundSound ==
    /\ BranchesNest /\ OpcodesAsDocumented /\ NumbersRoundTrip /\ TapTreesLead
    /\ StandardAgree /\ CarriedFound

Numbers == {-70000, -32768, -32767, -256, -255, -129, -128, -127, -17, -1, 0, 1, 16, 17, 127, 128,
            255, 256, 32767, 32768, 65535, 8388607, 8388608}

ScriptJobs ==
    {[part |-> "spend", kind |-> j.kind, signers |-> j.signers, hashType |-> j.hashType,
      tamper |-> j.tamper] : j \in SpendJobs}
    \cup {[part |-> "program", word |-> w] : w \in Programs}
    \cup {[part |-> "stack", op |-> op] : op \in StackWords}
    \cup {[part |-> "number", n |-> n] : n \in Numbers}
    \cup {[part |-> "tree", n |-> n] : n \in 1..5}
    \cup {[part |-> "data", n |-> n] : n \in {0, 1, 75, 76, 80, 81}}
    \cup {[part |-> "swap", size |-> n, lock |-> l] : n \in {16, 32}, l \in {0, 100000}}

ScriptInit == job \in ScriptJobs /\ vm = Idle("new")
NewJob ==
    /\ vm.err = "new"
    /\ vm' = CASE job.part = "spend" -> NewEngine(SpendOf(job))
               [] job.part = "program" -> NewEngine(ProgramOf(job.word))
               [] OTHER -> Idle("idle")
ScriptNext == (NewJob \/ EngineNext) /\ UNCHANGED job
=============================================================================
