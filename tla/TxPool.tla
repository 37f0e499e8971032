------------------------------- MODULE TxPool -------------------------------
(***************************************************************************)
(* The memory pool (package mempool) and the goroutines that use it: the     *)
(* sync manager's block handler, which receives transactions and blocks and  *)
(* handles the notifications of the chain, the RPC server, which submits     *)
(* transactions, and the server's peerDoneHandler.  Every method of the pool *)
(* holds the pool's lock, but the chain moves without it, and a notification *)
(* is a sequence of calls of the pool: an RPC call can come between a block  *)
(* and each call of its notification.  processOrphans reads the chain anew   *)
(* for every orphan, so it takes several steps, with the lock held.          *)
(***************************************************************************)
EXTENDS Ancestry, FiniteSets, FiniteSetsExt

CONSTANTS
  Txs,            \* transactions, coinbases apart
  Outpoints,      \* the outputs of all transactions
  Ins, Outs,      \* what a transaction spends (a set) and creates (a sequence)
  Funds,          \* the unspent outputs at the genesis block
  BlockTxs,       \* the transactions of a block in their order, without coinbase
  Peers,          \* peers that relay transactions; their ids tag orphans
  Fee,            \* fees; all transactions have one size, so these are also rates
  MinFee,         \* calcMinRequiredTxRelayFee for that size
  Signals,        \* transactions with a sequence number of at most MaxRBFSequence
  NonStandard,    \* transactions that fail a check made before the inputs are known
  BadInputs,      \* those that fail one made after: locks, amounts, sigops, scripts
  Large,          \* transactions larger than MaxOrphanTxSize
  HighPriority,   \* transactions with a priority above MinHighPriority
  MaxOrphanTxs, MaxReplacementEvictions, RejectReplacement,
  None            \* nil

VARIABLES
  best,           \* the tip of the chain
  target,         \* the block the chain moves to while a block is processed
  known,          \* the blocks that were processed
  pool,           \* pool, as a set
  outpoints,      \* outpoints: who spends an output in the pool
  tag,            \* orphans: the tag of each, None for other transactions
  orphansByPrev,  \* orphansByPrev, as pairs of an output and an orphan
  notice,         \* the calls left of the notification that is being handled
  work,           \* the processOrphans in progress
  stranded        \* transactions of disconnected blocks that found no parents

chain == <<best, target, known>>
vars == <<chain, pool, outpoints, tag, orphansByPrev, notice, work, stranded>>

Elems(s) == {s[i] : i \in DOMAIN s}
Created(T) == UNION {Elems(Outs[t]) : t \in T}
Spent(T) == UNION {Ins[t] : t \in T}

\* The utxo set of the chain that ends in b, as far as Txs spend from it.
UtxoAt[b \in Blocks] ==
  IF b = Genesis THEN Funds
  ELSE LET T == Elems(BlockTxs[b]) IN (UtxoAt[Parent[b]] \cup Created(T)) \ Spent(T)

-----------------------------------------------------------------------------
\* The relations of transactions in the pool.  The code walks them; what it
\* reaches is the least set that is closed under the relation.

Redeemers(T) == {outpoints[op] : op \in Created(T)} \ {None}
TxDescendants(t) ==
  {d \in pool : \A S \in SUBSET pool : Redeemers(S \cup {t}) \subseteq S => d \in S}

Parents(T) == {p \in pool : Elems(Outs[p]) \cap Spent(T) # {}}
TxAncestors(t) ==
  {a \in pool : \A S \in SUBSET pool : Parents(S \cup {t}) \subseteq S => a \in S}

DirectConflicts(t) == {outpoints[op] : op \in Ins[t]} \ {None}
TxConflicts(t) == DirectConflicts(t) \cup UNION {TxDescendants(c) : c \in DirectConflicts(t)}

SignalsReplacement(t) == ({t} \cup TxAncestors(t)) \cap Signals # {}

\* removeTransaction for each of R, and then addTransaction for each of A.
ReplaceTxs(R, A) ==
  /\ pool' = (pool \ R) \cup A
  /\ outpoints' = [op \in Outpoints |->
       IF \E t \in A : op \in Ins[t] THEN CHOOSE t \in A : op \in Ins[t]
       ELSE IF op \in Spent(R) THEN None ELSE outpoints[op]]

RemoveTx(t, removeRedeemers) ==
  ReplaceTxs(({t} \cap pool) \cup (IF removeRedeemers THEN TxDescendants(t) ELSE {}), {})

DoubleSpends(t) == DirectConflicts(t) \ {t}
\* Faulty variant of RemoveDoubleSpends: the double spends go, their redeemers stay.
RemoveDoubleSpendsOnly(t) == ReplaceTxs(DoubleSpends(t), {})
RemoveDoubleSpends(t) ==
  ReplaceTxs(DoubleSpends(t) \cup UNION {TxDescendants(c) : c \in DoubleSpends(t)}, {})

-----------------------------------------------------------------------------
\* The orphans.

Orphans == {t \in Txs : tag[t] # None}
OrphanRedeemers(T) == {t \in Orphans : \E op \in Created(T) : <<op, t>> \in orphansByPrev}
\* removeOrphan(t, true) for each t of T.
WithRedeemers(T) ==
  {d \in Orphans : \A S \in SUBSET Orphans :
     ((T \cap Orphans) \cup OrphanRedeemers(S) \subseteq S) => d \in S}

\* Faulty variant of SetOrphans: the index keeps what is removed.
SetOrphansKeepIndex(R, A, p) ==
  /\ tag' = [t \in Txs |-> IF t \in A THEN p ELSE IF t \in R THEN None ELSE tag[t]]
  /\ orphansByPrev' = orphansByPrev \cup {<<op, t>> : op \in Spent(A), t \in A}
SetOrphans(R, A, p) ==
  /\ tag' = [t \in Txs |-> IF t \in A THEN p ELSE IF t \in R THEN None ELSE tag[t]]
  /\ orphansByPrev' = {e \in orphansByPrev : e[2] \notin R}
                        \cup {<<op, t>> : op \in Spent(A), t \in A}

\* limitNumOrphans: those of E have expired when the scan is due; an arbitrary
\* orphan makes room if the limit is still reached.
LimitNumOrphans(E) ==
  LET Left == Orphans \ WithRedeemers(E) IN
  IF Cardinality(Left) + 1 <= MaxOrphanTxs THEN {WithRedeemers(E)}
  ELSE {WithRedeemers(E) \cup {t} : t \in Left}

AddOrphan(t, p) ==
  IF MaxOrphanTxs <= 0 THEN UNCHANGED <<tag, orphansByPrev>>
  ELSE \E E \in SUBSET Orphans : \E R \in LimitNumOrphans(E) : SetOrphans(R, {t}, p)

-----------------------------------------------------------------------------
\* maybeAcceptTransaction.

CheckPoolDoubleSpend(t) ==
  \A c \in DirectConflicts(t) : ~RejectReplacement /\ SignalsReplacement(c)

ValidateReplacement(t) ==
  LET C == TxConflicts(t) IN
  /\ Cardinality(C) <= MaxReplacementEvictions
  /\ TxAncestors(t) \cap C = {}
  /\ \A c \in C : Fee[t] > Fee[c]
  /\ Fee[t] >= MapThenSumSet(LAMBDA c : Fee[c], C) + MinFee
  /\ \A p \in Parents({t}) : Elems(Outs[p]) \cap Spent(C) # {}

\* fetchInputUtxos: what is unspent in the chain, or created in the pool.
FetchInputUtxos(t) == Ins[t] \cap (UtxoAt[best] \cup Created(pool))

\* limited: the rate limiter of free transactions is exhausted.
MaybeAccept(t, isNew, limited, rejectDupOrphans) ==
  IF \/ t \in pool \/ (rejectDupOrphans /\ t \in Orphans)
     \/ t \in NonStandard
     \/ ~CheckPoolDoubleSpend(t)
     \/ Elems(Outs[t]) \cap UtxoAt[best] # {}
  THEN "error"
  ELSE IF FetchInputUtxos(t) # Ins[t] THEN "missing"
  ELSE IF \/ t \in BadInputs
          \/ isNew /\ Fee[t] < MinFee /\ t \notin HighPriority
          \/ limited /\ Fee[t] < MinFee
          \/ DirectConflicts(t) # {} /\ ~ValidateReplacement(t)
  THEN "error"
  ELSE "accepted"

AddTx(t) == ReplaceTxs(TxConflicts(t), {t})

-----------------------------------------------------------------------------
\* processOrphans: queue is processList, outs the outputs left of its first item,
\* accepted the transaction it was called for and acceptedTxns.

Begin(by, t) ==
  work' = [by |-> by, queue |-> <<t>>, outs |-> Outs[t], accepted |-> {t}]

\* An output whose orphans all miss other parents, one whose first processable
\* orphan is refused, and one whose first processable orphan is accepted.
Verdict(t, limited) == MaybeAccept(t, TRUE, limited, FALSE)
Waiting == {t \in Orphans : <<Head(work.outs), t>> \in orphansByPrev}
NextOutput(queue, accepted) ==
  work' = [work EXCEPT !.outs = Tail(work.outs), !.queue = queue, !.accepted = accepted]

SkipOutput ==
  /\ work # None /\ work.outs # <<>>
  /\ \A t \in Waiting : Verdict(t, FALSE) = "missing"
  /\ NextOutput(work.queue, work.accepted)
  /\ UNCHANGED <<chain, pool, outpoints, tag, orphansByPrev, notice, stranded>>

DropOrphan(limited) ==
  /\ work # None /\ work.outs # <<>>
  /\ \E t \in Waiting :
       /\ Verdict(t, limited) = "error"
       /\ SetOrphans(WithRedeemers({t}), {}, None)
  /\ NextOutput(work.queue, work.accepted)
  /\ UNCHANGED <<chain, pool, outpoints, notice, stranded>>

AcceptOrphan(limited) ==
  /\ work # None /\ work.outs # <<>>
  /\ \E t \in Waiting :
       /\ Verdict(t, limited) = "accepted"
       /\ AddTx(t)
       /\ SetOrphans({t}, {}, None)
       /\ NextOutput(Append(work.queue, t), work.accepted \cup {t})
  /\ UNCHANGED <<chain, notice, stranded>>

NextItem ==
  /\ work # None /\ work.outs = <<>> /\ Len(work.queue) > 1
  /\ work' = [work EXCEPT !.queue = Tail(work.queue), !.outs = Outs[work.queue[2]]]
  /\ UNCHANGED <<chain, pool, outpoints, tag, orphansByPrev, notice, stranded>>

\* removeOrphanDoubleSpends for everything that was accepted.
OrphanDoubleSpends(T) == {t \in Orphans : \E op \in Spent(T) : <<op, t>> \in orphansByPrev}
EndProcessOrphans ==
  /\ work # None /\ work.outs = <<>> /\ Len(work.queue) = 1
  /\ SetOrphans(WithRedeemers(OrphanDoubleSpends(work.accepted)), {}, None)
  /\ work' = None
  /\ UNCHANGED <<chain, pool, outpoints, notice, stranded>>

-----------------------------------------------------------------------------
\* The calls.  ProcessTransaction by the handler (handleTxMsg) and by the RPC server.

HandlerWorks == IF work = None THEN FALSE ELSE work.by = "handler"
HandlerIdle == notice = <<>> /\ best = target /\ ~HandlerWorks

ProcessTransaction(by, t, allowOrphan, limited, p) ==
  /\ work = None
  /\ LET verdict == MaybeAccept(t, TRUE, limited, TRUE) IN
     \/ /\ verdict = "accepted"
        /\ AddTx(t)
        /\ Begin(by, t)
        /\ UNCHANGED <<tag, orphansByPrev>>
     \/ /\ verdict = "missing" /\ allowOrphan /\ t \notin Large
        /\ AddOrphan(t, p)
        /\ UNCHANGED <<pool, outpoints, work>>
  /\ UNCHANGED <<chain, notice, stranded>>

HandleTxMsg(p, t, limited) == HandlerIdle /\ ProcessTransaction("handler", t, TRUE, limited, p)
SendRawTransaction(t) == ProcessTransaction("rpc", t, FALSE, FALSE, None)

RemoveOrphansByTag(p) ==
  /\ work = None
  /\ SetOrphans(WithRedeemers({t \in Txs : tag[t] = p}), {}, None)
  /\ UNCHANGED <<chain, pool, outpoints, notice, work, stranded>>

-----------------------------------------------------------------------------
\* A block moves the chain, one block at a time; handleBlockchainNotification
\* then makes its calls of the pool before the chain can move again.

Call(c, t) == [call |-> c, tx |-> t]
BlockConnected(b) ==
  LET T == BlockTxs[b]
      CallsFor(t) == <<Call("RemoveTransaction", t), Call("RemoveDoubleSpends", t),
                       Call("RemoveOrphan", t), Call("ProcessOrphans", t)>>
  IN  [i \in 1 .. 4 * Len(T) |-> CallsFor(T[((i - 1) \div 4) + 1])[((i - 1) % 4) + 1]]
BlockDisconnected(b) ==
  [i \in 1 .. Len(BlockTxs[b]) |-> Call("MaybeAcceptTransaction", BlockTxs[b][i])]

HandleBlockMsg(b) ==
  /\ HandlerIdle
  /\ b \notin known /\ Parent[b] \in known
  /\ known' = known \cup {b}
  /\ target' = IF Height[b] > Height[best] THEN b ELSE best
  /\ UNCHANGED <<best, pool, outpoints, tag, orphansByPrev, notice, work, stranded>>

Free == notice = <<>> /\ best # target /\ ~HandlerWorks

DisconnectBlock ==
  /\ Free /\ best \notin Anc[target]
  /\ best' = Parent[best]
  /\ notice' = BlockDisconnected(best)
  /\ UNCHANGED <<target, known, pool, outpoints, tag, orphansByPrev, work, stranded>>

ConnectBlock ==
  /\ Free /\ best \in Anc[target]
  /\ best' = Path[target][Height[best] + 2]
  /\ notice' = BlockConnected(best')
  /\ stranded' = stranded \ Elems(BlockTxs[best'])
  /\ UNCHANGED <<target, known, pool, outpoints, tag, orphansByPrev, work>>

Calling(c) == work = None /\ notice # <<>> /\ Head(notice).call = c
Tx == Head(notice).tx
Returned == notice' = Tail(notice)

NoticeRemoveTransaction ==
  /\ Calling("RemoveTransaction") /\ Returned
  /\ RemoveTx(Tx, FALSE)
  /\ UNCHANGED <<chain, tag, orphansByPrev, work, stranded>>

NoticeRemoveDoubleSpends ==
  /\ Calling("RemoveDoubleSpends") /\ Returned
  /\ RemoveDoubleSpends(Tx)
  /\ UNCHANGED <<chain, tag, orphansByPrev, work, stranded>>

NoticeRemoveOrphan ==
  /\ Calling("RemoveOrphan") /\ Returned
  /\ SetOrphans({Tx}, {}, None)
  /\ UNCHANGED <<chain, pool, outpoints, work, stranded>>

NoticeProcessOrphans ==
  /\ Calling("ProcessOrphans") /\ Returned
  /\ Begin("handler", Tx)
  /\ UNCHANGED <<chain, pool, outpoints, tag, orphansByPrev, stranded>>

\* A transaction of a disconnected block goes back to the pool; if it is refused
\* it is removed with all that depends on it, in a second call.  One whose parents
\* are missing is not refused: err is nil.
NoticeMaybeAccept ==
  /\ Calling("MaybeAcceptTransaction")
  /\ LET verdict == MaybeAccept(Tx, FALSE, FALSE, TRUE) IN
     \/ /\ verdict = "accepted" /\ Returned
        /\ AddTx(Tx)
        /\ stranded' = stranded
     \/ /\ verdict = "missing" /\ Returned
        /\ stranded' = stranded \cup {Tx}
        /\ UNCHANGED <<pool, outpoints>>
     \/ /\ verdict = "error"
        /\ notice' = <<Call("RemoveRefused", Tx)>> \o Tail(notice)
        /\ UNCHANGED <<pool, outpoints, stranded>>
  /\ UNCHANGED <<chain, tag, orphansByPrev, work>>

NoticeRemoveRefused ==
  /\ Calling("RemoveRefused") /\ Returned
  /\ RemoveTx(Tx, TRUE)
  /\ UNCHANGED <<chain, tag, orphansByPrev, work, stranded>>

-----------------------------------------------------------------------------
Init ==
  /\ best = Genesis /\ target = Genesis /\ known = {Genesis}
  /\ pool = {} /\ outpoints = [op \in Outpoints |-> None]
  /\ tag = [t \in Txs |-> None] /\ orphansByPrev = {}
  /\ notice = <<>> /\ work = None /\ stranded = {}

Next ==
  \/ \E t \in Txs, limited \in BOOLEAN, p \in Peers : HandleTxMsg(p, t, limited)
  \/ \E t \in Txs : SendRawTransaction(t)
  \/ \E p \in Peers : RemoveOrphansByTag(p)
  \/ SkipOutput
  \/ \E limited \in BOOLEAN : DropOrphan(limited) \/ AcceptOrphan(limited)
  \/ NextItem \/ EndProcessOrphans
  \/ \E b \in Blocks : HandleBlockMsg(b)
  \/ DisconnectBlock \/ ConnectBlock
  \/ NoticeRemoveTransaction \/ NoticeRemoveDoubleSpends \/ NoticeRemoveOrphan
  \/ NoticeProcessOrphans \/ NoticeMaybeAccept \/ NoticeRemoveRefused

Spec == Init /\ [][Next]_vars

-----------------------------------------------------------------------------
\* The index of spent outputs is exact, so that no two transactions of the pool
\* spend one output (outpoints, mempool.go:182); the orphans and their index
\* agree, stay within the limit and are not in the pool (mempool.go:180).
MempoolInv ==
  /\ pool \subseteq Txs
  /\ outpoints \in [Outpoints -> Txs \cup {None}]
  /\ \A op \in Outpoints, t \in Txs : outpoints[op] = t <=> (t \in pool /\ op \in Ins[t])
  /\ orphansByPrev = {<<op, t>> \in Outpoints \X Txs : t \in Orphans /\ op \in Ins[t]}
  /\ Orphans \cap pool = {}
  /\ Cardinality(Orphans) <= MaxOrphanTxs

\* Once the notifications of a block are handled, every transaction of the pool
\* can be mined: what it spends is unspent in the chain or created in the pool.
\* Excepted is what depends on a transaction of a disconnected block that was not
\* taken back because its own parents are missing (manager.go:1458).
DependsOnStranded(op) == op \in Created(stranded)
PoolSpendable ==
  HandlerIdle => \A t \in pool : \A op \in Ins[t] :
    op \in UtxoAt[best] \cup Created(pool) \/ DependsOnStranded(op)

=============================================================================
