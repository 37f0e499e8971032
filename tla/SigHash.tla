------------------------------- MODULE SigHash -------------------------------
(***************************************************************************)
(* What a signature commits to (txscript/sighash.go, hashcache.go), and    *)
(* the taproot script tree (taproot.go).  A transaction is                 *)
(* [version, lockTime, ins, outs]; an input [prev, sequence], an output    *)
(* [value, script].  The functions below return the message that is        *)
(* hashed, and the digest of it.                                           *)
(***************************************************************************)
EXTENDS Script

SigHashDefault == 0
SigHashAll == 1
SigHashNone == 2
SigHashSingle == 3
SigHashAnyOneCanPay == 128

BaseType(hashType) == hashType % 32
AnyOneCanPay(hashType) == hashType >= 128

RECURSIVE Flatten(_)
Flatten(ss) == IF ss = <<>> THEN <<>> ELSE Head(ss) \o Flatten(Tail(ss))

\* Variable length bytes and the serialized output.
VarBytes(v) == <<Len(v)>> \o v
TxOutBytes(out) == <<out.value>> \o VarBytes(out.script)

ZeroHash == Repeated(0, 32)

\* The message of calcSignatureHash: a copy of the transaction with the
\* signature script replaced and the parts the hash type leaves out blanked.
OneHash == <<1>> \o Repeated(0, 31)

SignatureMessage(sigScript, hashType, tx, idx) ==
    LET script == removeOpcodeRaw(sigScript, OP_CODESEPARATOR)
        base   == BaseType(hashType)
        Sequence(i) == IF i # idx /\ base \in {SigHashNone, SigHashSingle}
                       THEN 0 ELSE tx.ins[i].sequence
        In(i)  == <<tx.ins[i].prev>> \o VarBytes(IF i = idx THEN script ELSE <<>>)
                      \o <<Sequence(i)>>
        Ins    == IF AnyOneCanPay(hashType) THEN <<idx>> ELSE [i \in 1..Len(tx.ins) |-> i]
        Out(i) == IF base = SigHashSingle /\ i < idx
                  THEN TxOutBytes([value |-> -1, script |-> <<>>])
                  ELSE TxOutBytes(tx.outs[i])
        nOuts  == CASE base = SigHashNone -> 0
                    [] base = SigHashSingle -> idx
                    [] OTHER -> Len(tx.outs)
    IN  <<tx.version, Len(Ins)>> \o Flatten([k \in 1..Len(Ins) |-> In(Ins[k])])
            \o <<nOuts>> \o Flatten([i \in 1..nOuts |-> Out(i)])
            \o <<tx.lockTime, hashType>>

calcSignatureHash(sigScript, hashType, tx, idx) ==
    IF BaseType(hashType) = SigHashSingle /\ idx > Len(tx.outs) THEN OneHash
    ELSE DoubleHash(SignatureMessage(sigScript, hashType, tx, idx))

CalcSignatureHash(script, hashType, tx, idx) ==
    IF checkScriptParses(script) THEN calcSignatureHash(script, hashType, tx, idx) ELSE <<>>

\* The parts of the message that the inputs share (TxSigHashes).
calcHashPrevOuts(tx) == [i \in 1..Len(tx.ins) |-> tx.ins[i].prev]
calcHashSequence(tx) == [i \in 1..Len(tx.ins) |-> tx.ins[i].sequence]
calcHashOutputs(tx) == Flatten([i \in 1..Len(tx.outs) |-> TxOutBytes(tx.outs[i])])
calcHashInputAmounts(tx, prevOuts) ==
    [i \in 1..Len(tx.ins) |-> prevOuts[tx.ins[i].prev].value]
calcHashInputScripts(tx, prevOuts) ==
    Flatten([i \in 1..Len(tx.ins) |-> VarBytes(prevOuts[tx.ins[i].prev].script)])

\* The v0 and v1 halves are filled only for the kinds of input that occur;
\* a half that is not filled is all zero.
NewTxSigHashes(tx, prevOuts) ==
    LET V1 == {i \in 1..Len(tx.ins) : isWitnessTaprootScript(prevOuts[tx.ins[i].prev].script)}
        hasV0Inputs == V1 # 1..Len(tx.ins)
        hasV1Inputs == V1 # {}
        p == Sha256(calcHashPrevOuts(tx))
        s == Sha256(calcHashSequence(tx))
        o == Sha256(calcHashOutputs(tx))
    IN  [ HashPrevOutsV1 |-> p, HashSequenceV1 |-> s, HashOutputsV1 |-> o,
          HashPrevOutsV0 |-> IF hasV0Inputs THEN Sha256(p) ELSE ZeroHash,
          HashSequenceV0 |-> IF hasV0Inputs THEN Sha256(s) ELSE ZeroHash,
          HashOutputsV0  |-> IF hasV0Inputs THEN Sha256(o) ELSE ZeroHash,
          HashInputAmountsV1 |-> IF hasV1Inputs
                                 THEN Sha256(calcHashInputAmounts(tx, prevOuts)) ELSE ZeroHash,
          HashInputScriptsV1 |-> IF hasV1Inputs
                                 THEN Sha256(calcHashInputScripts(tx, prevOuts)) ELSE ZeroHash ]

WitnessMessage(subScript, h, hashType, tx, idx, amt) ==
    LET base == BaseType(hashType)
        in   == tx.ins[idx]
        keyHash == extractWitnessPubKeyHash(subScript)
    IN  <<tx.version>>
        \o (IF AnyOneCanPay(hashType) THEN ZeroHash ELSE h.HashPrevOutsV0)
        \o (IF AnyOneCanPay(hashType) \/ base \in {SigHashSingle, SigHashNone}
            THEN ZeroHash ELSE h.HashSequenceV0)
        \o <<in.prev>>
        \o (IF keyHash # <<>>
            THEN <<25, OP_DUP, OP_HASH160, OP_DATA_20>> \o keyHash
                     \o <<OP_EQUALVERIFY, OP_CHECKSIG>>
            ELSE VarBytes(subScript))
        \o <<amt, in.sequence>>
        \o (CASE base \notin {SigHashSingle, SigHashNone} -> h.HashOutputsV0
              [] base = SigHashSingle /\ idx <= Len(tx.outs) ->
                     DoubleHash(TxOutBytes(tx.outs[idx]))
              [] OTHER -> ZeroHash)
        \o <<tx.lockTime, hashType>>

calcWitnessSignatureHashRaw(subScript, h, hashType, tx, idx, amt) ==
    DoubleHash(WitnessMessage(subScript, h, hashType, tx, idx, amt))

isValidTaprootSigHash(hashType) == hashType \in {0, 1, 2, 3, 129, 130, 131}

\* opts: [ext (0 or 1), annex, leaf, codeSep].
TaprootMessage(h, hashType, tx, idx, prevOuts, opts) ==
    LET in   == tx.ins[idx]
        prev == prevOuts[in.prev]
    IN  <<0, hashType, tx.version, tx.lockTime>>
        \o (IF AnyOneCanPay(hashType) THEN <<>>
            ELSE h.HashPrevOutsV1 \o h.HashInputAmountsV1 \o h.HashInputScriptsV1
                     \o h.HashSequenceV1)
        \o (IF hashType % 4 \in {SigHashSingle, SigHashNone} THEN <<>> ELSE h.HashOutputsV1)
        \o <<opts.ext * 2 + (IF opts.annex # <<>> THEN 1 ELSE 0)>>
        \o (IF AnyOneCanPay(hashType)
            THEN <<in.prev>> \o TxOutBytes(prev) \o <<in.sequence>>
            ELSE <<idx>>)
        \o (IF opts.annex # <<>> THEN Sha256(VarBytes(opts.annex)) ELSE <<>>)
        \o (IF BaseType(hashType) = SigHashSingle
            THEN Sha256(TxOutBytes(tx.outs[idx])) ELSE <<>>)
        \o (IF opts.ext = 1 THEN opts.leaf \o <<0, opts.codeSep>> ELSE <<>>)

NoOptions == [ext |-> 0, annex |-> <<>>, leaf |-> <<>>, codeSep |-> -1]

\* <<>> stands for the error return.
calcTaprootSignatureHashRaw(h, hashType, tx, idx, prevOuts, opts) ==
    IF \/ ~isValidTaprootSigHash(hashType)
       \/ BaseType(hashType) = SigHashSingle /\ idx > Len(tx.outs)
    THEN <<>>
    ELSE Sha256(TaprootMessage(h, hashType, tx, idx, prevOuts, opts))

----------------------------------------------------------------------------
(* Taproot. *)

BaseLeafVersion == 192
ControlBlockBaseSize == 33
ControlBlockNodeSize == 32
ControlBlockMaxSize == ControlBlockBaseSize + 128 * ControlBlockNodeSize

\* A node is a leaf [version, script] or a branch of two nodes.
TapLeaf(version, script) == [leaf |-> TRUE, version |-> version, script |-> script]
TapBranch(l, r) == [leaf |-> FALSE, l |-> l, r |-> r]

BytesAfter(l, r) ==
    \E i \in 1..Len(l) : l[i] > r[i] /\ \A j \in 1..(i - 1) : l[j] = r[j]

tapBranchHash(l, r) == IF BytesAfter(l, r) THEN Sha256(r \o l) ELSE Sha256(l \o r)


LeafHash(leaf) == Sha256(<<leaf.version>> \o VarBytes(leaf.script))

RECURSIVE TapHash(_)
TapHash(node) ==
    IF node.leaf THEN LeafHash(node) ELSE tapBranchHash(TapHash(node.l), TapHash(node.r))

RECURSIVE leafDescendants(_)
leafDescendants(node) ==
    IF node.leaf THEN <<node>> ELSE leafDescendants(node.l) \o leafDescendants(node.r)

\* Appends hash to the proofs of the given leaves; a leaf is found by its hash,
\* and of leaves with one hash the last is.
AddToProofs(proofs, leaves, under, hash) ==
    LET Index(leaf) == CHOOSE i \in 1..Len(leaves) :
                          /\ LeafHash(leaves[i]) = LeafHash(leaf)
                          /\ \A j \in (i + 1)..Len(leaves) : LeafHash(leaves[j]) # LeafHash(leaf)
        Hit == {Index(under[k]) : k \in 1..Len(under)}
    IN  [i \in 1..Len(proofs) |-> IF i \in Hit THEN proofs[i] \o hash ELSE proofs[i]]

\* The loop that pairs the leaves; an odd last leaf joins the last branch.
RECURSIVE PairLeaves(_, _, _)
PairLeaves(leaves, i, t) ==
    LET n == Len(t.branches) IN
    CASE i > Len(leaves) -> t
      [] i = Len(leaves) ->
           LET b == t.branches[n] IN
           [ branches |-> [t.branches EXCEPT ![n] = TapBranch(b, leaves[i])],
             proofs |-> AddToProofs([t.proofs EXCEPT ![i] = @ \o TapHash(b)],
                                    leaves, <<b.l, b.r>>, LeafHash(leaves[i])) ]
      [] OTHER ->
           PairLeaves(leaves, i + 2,
             [ branches |-> Append(t.branches, TapBranch(leaves[i], leaves[i + 1])),
               proofs |-> [t.proofs EXCEPT ![i] = @ \o LeafHash(leaves[i + 1]),
                                           ![i + 1] = @ \o LeafHash(leaves[i])] ])

\* The loop that joins the first two branches until one is left.
RECURSIVE JoinBranches(_, _)
JoinBranches(leaves, t) ==
    IF Len(t.branches) = 1 THEN t
    ELSE LET l == t.branches[1]
             r == t.branches[2]
         IN  JoinBranches(leaves,
               [ branches |-> Append(SubSeq(t.branches, 3, Len(t.branches)), TapBranch(l, r)),
                 proofs |-> AddToProofs(AddToProofs(t.proofs, leaves, leafDescendants(l), TapHash(r)),
                                        leaves, leafDescendants(r), TapHash(l)) ])

AssembleTaprootScriptTree(leaves) ==
    IF Len(leaves) = 1 THEN [root |-> leaves[1], proofs |-> << <<>> >>]
    ELSE LET t == JoinBranches(leaves,
                    PairLeaves(leaves, 1, [branches |-> <<>>,
                                           proofs |-> [i \in 1..Len(leaves) |-> <<>>]]))
         IN  [root |-> t.branches[1], proofs |-> t.proofs]

\* The tweaked key of an internal key and a root: external elliptic curve
\* arithmetic, a stand-in that tells the pairs of an instance apart.
ComputeTaprootOutputKey(internalKey, root) == Digest(internalKey \o root, 6, 32)
KeyIsOdd(key) == key[1] % 2 = 1

ToControlBlock(internalKey, version, proof, root) ==
    <<version + (IF KeyIsOdd(ComputeTaprootOutputKey(internalKey, root)) THEN 1 ELSE 0)>>
        \o internalKey \o proof

ParseControlBlockErr(b) ==
    CASE Len(b) < ControlBlockBaseSize -> "ErrControlBlockTooSmall"
      [] Len(b) > ControlBlockMaxSize  -> "ErrControlBlockTooLarge"
      [] (Len(b) - ControlBlockBaseSize) % ControlBlockNodeSize # 0 ->
             "ErrControlBlockInvalidLength"
      [] OTHER -> ""

ParseControlBlock(b) ==
    [ version |-> b[1] - (b[1] % 2), odd |-> b[1] % 2 = 1, key |-> SubSeq(b, 2, 33),
      proof |-> Suffix(b, 34) ]

RECURSIVE FoldProof(_, _)
FoldProof(acc, proof) ==
    IF proof = <<>> THEN acc
    ELSE FoldProof(tapBranchHash(acc, SubSeq(proof, 1, 32)), Suffix(proof, 33))
RootHash(c, script) == FoldProof(LeafHash(TapLeaf(c.version, script)), c.proof)

VerifyTaprootLeafCommitmentErr(c, program, script) ==
    LET key == ComputeTaprootOutputKey(c.key, RootHash(c, script)) IN
    CASE key # program           -> "ErrTaprootMerkleProofInvalid"
      [] c.odd # KeyIsOdd(key)   -> "ErrTaprootOutputKeyParityMismatch"
      [] OTHER                   -> ""

----------------------------------------------------------------------------
(* Properties. *)

\* Every leaf of an assembled script tree can be spent: the control block
\* built from its inclusion proof leads back to the output key, for every
\* number of leaves, an odd last leaf included (AssembleTaprootScriptTree).
TapTreeProofsLead(leaves, internalKey) ==
    LET t == AssembleTaprootScriptTree(leaves)
        root == TapHash(t.root)
        key == ComputeTaprootOutputKey(internalKey, root)
    IN  \A i \in 1..Len(leaves) :
          LET b == ToControlBlock(internalKey, leaves[i].version, t.proofs[i], root) IN
          /\ ParseControlBlockErr(b) = ""
          /\ VerifyTaprootLeafCommitmentErr(ParseControlBlock(b), key, leaves[i].script) = ""
=============================================================================
