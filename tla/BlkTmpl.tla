------------------------------ MODULE BlkTmpl ------------------------------
(***************************************************************************)
(* The block template generator (mining/mining.go): NewBlockTemplate walks *)
(* a copy of the memory pool, queues the transactions whose inputs are all *)
(* confirmed, keeps the others by the transactions they wait for, and then *)
(* takes the best of the queue as long as the block has room.              *)
(*                                                                         *)
(* No lock is held across it.  Every call it makes into the chain or the   *)
(* pool is a step of its own here, so that the pool may lose or gain a     *)
(* transaction and the chain may gain a block between any two of them.     *)
(***************************************************************************)
EXTENDS Integers, Sequences, SequencesExt, FiniteSets, FiniteSetsExt

CONSTANTS Nil,
          Txs,              \* transactions the pool may hold
          Ins,              \* [Txs -> sequences of the outputs they spend]
          Origin,           \* output -> the transaction that makes it
          Fee, FeePerKB, Priority, Weight, SigOps,   \* [Txs -> Nat]
          Witness,          \* the transactions that carry witness data
          NonFinal,         \* those whose lock time has not passed
          Rejected,         \* those that fail the input or script checks
          FirstPool,        \* what the pool holds at the start
          Policies,         \* records prioritySize, minWeight, maxWeight, minFree
          MinHighPriority, BaseWeight, CommitmentWeight, MaxBlockSigOpsCost,
          MaxMoves          \* bound on what happens to pool and chain

VARIABLES utxo, tip, pool, moves,   \* the chain and the pool
          pc, policy, segwitActive, best,
          source, cur, at, utxos,   \* the loop over the copied pool
          item, queue, dependers,   \* txPrioItem, priorityQueue, dependers
          blockUtxos, spent, sortedByFee, witnessIncluded,
          block, fees, blockWeight, blockSigOpCost,
          skipped, lost             \* history: why one was left out; pool losses

world == <<utxo, tip, pool, moves, lost>>
setup == <<policy, segwitActive, best>>
loop == <<source, cur, at, utxos>>
items == <<item, dependers>>
body == <<spent, witnessIncluded, block, fees, blockWeight, blockSigOpCost>>
vars == <<utxo, tip, pool, moves, pc, policy, segwitActive, best, source, cur, at, utxos, item, queue,
          dependers, blockUtxos, spent, sortedByFee, witnessIncluded, block, fees, blockWeight,
          blockSigOpCost, skipped, lost>>

Inputs(t) == Range(Ins[t])

\* The outputs that transaction t makes.
Outputs(t) == {o \in DOMAIN Origin : Origin[o] = t}

-----------------------------------------------------------------------------
(* The pool and the chain, as NewBlockTemplate sees them.                   *)

\* The transaction and those that spend its outputs, directly or not.
WithRedeemers(S) ==
  LET Grow(T) == T \cup {t \in pool : \E o \in Inputs(t) : Origin[o] \in T}
  IN Grow(Grow(Grow(S)))

Conflicts(t) == {u \in pool : u # t /\ Inputs(u) \cap Inputs(t) # {}}

\* The pool accepts a transaction, which may replace those it conflicts with.
MaybeAcceptTransaction(t) ==
  /\ moves < MaxMoves /\ t \notin pool /\ pc \notin {"done", "failed"}
  /\ \A o \in Inputs(t) : o \in utxo \/ Origin[o] \in pool
  /\ LET gone == WithRedeemers(Conflicts(t)) IN
     /\ \A o \in Inputs(t) : Origin[o] \notin gone
     /\ pool' = (pool \ gone) \cup {t}
     /\ lost' = (lost \/ gone # {})
  /\ moves' = moves + 1
  /\ UNCHANGED <<utxo, tip, pc, setup, loop, items, queue, blockUtxos, sortedByFee, body, skipped>>

\* A block with the transactions S of the pool becomes the tip, and the pool is
\* told of it.
ConnectBlock(S) ==
  /\ moves < MaxMoves /\ S \subseteq pool /\ pc \notin {"done", "failed"}
  /\ \A t \in S : \A o \in Inputs(t) : o \in utxo \/ Origin[o] \in S
  /\ \A t, u \in S : t # u => Inputs(t) \cap Inputs(u) = {}
  /\ utxo' = (utxo \cup UNION {Outputs(t) : t \in S}) \ UNION {Inputs(t) : t \in S}
  /\ pool' = pool \ S
  /\ tip' = tip + 1 /\ moves' = moves + 1
  /\ UNCHANGED <<lost, pc, setup, loop, items, queue, blockUtxos, sortedByFee, body, skipped>>

-----------------------------------------------------------------------------
(* The transactions considered.                                             *)

NoItem == [fee |-> 0, feePerKB |-> 0, priority |-> 0, dependsOn |-> {}]

Init ==
  /\ utxo = {o \in DOMAIN Origin : Origin[o] = Nil} /\ tip = 0 /\ pool = FirstPool /\ moves = 0
  /\ pc = "start" /\ policy \in Policies /\ segwitActive \in BOOLEAN /\ best = 0
  /\ source = {} /\ cur = Nil /\ at = 0 /\ utxos = {}
  /\ item = [t \in Txs |-> NoItem] /\ queue = {} /\ dependers = [t \in Txs |-> {}]
  /\ blockUtxos = {} /\ spent = {} /\ sortedByFee = FALSE /\ witnessIncluded = FALSE
  /\ block = <<>> /\ fees = <<>> /\ blockWeight = BaseWeight /\ blockSigOpCost = 0
  /\ skipped = [t \in Txs |-> "no"] /\ lost = FALSE

\* The best block to build on.
BestSnapshot ==
  /\ pc = "start" /\ pc' = "descs" /\ best' = tip
  /\ UNCHANGED <<world, policy, segwitActive, loop, items, queue, blockUtxos, sortedByFee, body, skipped>>

\* The copy of the pool, and the first order of the queue.
MiningDescs ==
  /\ pc = "descs" /\ pc' = "loop"
  /\ source' = pool /\ sortedByFee' = (policy.prioritySize = 0)
  /\ UNCHANGED <<world, setup, cur, at, utxos, items, queue, blockUtxos, body, skipped>>

Skip(t, why) == skipped' = [skipped EXCEPT ![t] = why]

\* A transaction that is not final is passed over; for another one the outputs
\* it spends, and its own, are looked up in the chain.
FetchUtxoView(t) ==
  /\ pc = "loop" /\ t \in source
  /\ source' = source \ {t}
  /\ IF t \in NonFinal
     THEN Skip(t, "late") /\ UNCHANGED <<pc, cur, at, utxos>>
     ELSE /\ cur' = t /\ at' = 1 /\ utxos' = (Inputs(t) \cup Outputs(t)) \cap utxo
          /\ pc' = "input" /\ UNCHANGED skipped
  /\ UNCHANGED <<world, setup, items, queue, blockUtxos, sortedByFee, body>>

\* One input of the transaction in hand: when the chain does not have the
\* output, the pool must have the transaction that makes it.
Depend ==
  /\ pc = "input" /\ at <= Len(Ins[cur])
  /\ LET o == Ins[cur][at] IN
     IF o \in utxos
     THEN at' = at + 1 /\ UNCHANGED <<items, pc, skipped>>
     ELSE IF Origin[o] \in pool
     THEN /\ dependers' = [dependers EXCEPT ![Origin[o]] = @ \cup {cur}]
          /\ item' = [item EXCEPT ![cur].dependsOn = @ \cup {Origin[o]}]
          /\ at' = at + 1 /\ UNCHANGED <<pc, skipped>>
     ELSE pc' = "loop" /\ Skip(cur, "unavailable") /\ UNCHANGED <<items, at>>
  /\ UNCHANGED <<world, setup, source, cur, utxos, queue, blockUtxos, sortedByFee, body>>

\* All inputs seen: the transaction is given its priority and its fee, queued
\* when it waits for none, and what it spends joins the view of the block.
Consider ==
  /\ pc = "input" /\ at > Len(Ins[cur])
  /\ item' = [item EXCEPT ![cur].fee = Fee[cur], ![cur].feePerKB = FeePerKB[cur], ![cur].priority = Priority[cur]]
  /\ queue' = IF item[cur].dependsOn = {} THEN queue \cup {cur} ELSE queue
  /\ blockUtxos' = blockUtxos \cup utxos
  /\ pc' = "loop"
  /\ UNCHANGED <<world, setup, loop, dependers, sortedByFee, body, skipped>>

-----------------------------------------------------------------------------
(* The transactions chosen.                                                 *)

txPQByPriority(t, u) ==
  IF item[t].priority = item[u].priority THEN item[t].feePerKB > item[u].feePerKB
  ELSE item[t].priority > item[u].priority

txPQByFee(t, u) ==
  IF item[t].feePerKB = item[u].feePerKB THEN item[t].priority > item[u].priority
  ELSE item[t].feePerKB > item[u].feePerKB

Less(t, u) == IF sortedByFee THEN txPQByFee(t, u) ELSE txPQByPriority(t, u)

\* What the heap may give next: one that no other precedes.
Heads == {t \in queue : \A u \in queue : ~Less(u, t)}

StartChoosing ==
  /\ pc = "loop" /\ source = {} /\ pc' = "choose"
  /\ UNCHANGED <<world, setup, loop, items, queue, blockUtxos, sortedByFee, body, skipped>>

\* The first witness transaction makes room for the commitment.
Commits(t) == segwitActive /\ ~witnessIncluded /\ t \in Witness

Spendable(t) == Inputs(t) \subseteq blockUtxos \ spent

\* Why a transaction taken from the queue is dropped, in the order of the
\* tests; w is the block's weight with it.
Refusal(t, w) ==
  CASE w >= policy.maxWeight -> "weight"
    [] ~Spendable(t) -> "inputs"
    [] blockSigOpCost + SigOps[t] > MaxBlockSigOpsCost -> "sigops"
    [] sortedByFee /\ item[t].feePerKB < policy.minFree /\ w >= policy.minWeight -> "free"
    [] OTHER -> "no"

\* The high-priority part of the block ends with this transaction, or before it.
Switches(t, w) == ~sortedByFee /\ (w >= policy.prioritySize \/ item[t].priority <= MinHighPriority)
PutBack(t, w) == Switches(t, w) /\ (w > policy.prioritySize \/ item[t].priority < MinHighPriority)

Ready(t) == {u \in dependers[t] : item[u].dependsOn \ {t} = {}}

Add(t, w) ==
  /\ spent' = spent \cup Inputs(t)
  /\ blockUtxos' = blockUtxos \cup Outputs(t)
  /\ block' = Append(block, t) /\ fees' = Append(fees, item[t].fee)
  /\ blockWeight' = w /\ blockSigOpCost' = blockSigOpCost + SigOps[t]
  /\ item' = [u \in Txs |-> IF u \in dependers[t] THEN [item[u] EXCEPT !.dependsOn = @ \ {t}] ELSE item[u]]
  /\ queue' = (queue \ {t}) \cup Ready(t)

Choose(t) ==
  /\ pc = "choose" /\ t \in Heads
  /\ IF ~segwitActive /\ t \in Witness
     THEN /\ queue' = queue \ {t} /\ Skip(t, "witness")
          /\ UNCHANGED <<items, blockUtxos, sortedByFee, body>>
     ELSE LET weight == blockWeight + (IF Commits(t) THEN CommitmentWeight ELSE 0)
              w == weight + Weight[t]
              why == Refusal(t, w)
          IN /\ witnessIncluded' = (witnessIncluded \/ Commits(t))
             /\ \/ /\ why # "no" /\ Skip(t, why)
                   /\ queue' = queue \ {t} /\ blockWeight' = weight
                   /\ UNCHANGED <<items, blockUtxos, sortedByFee, spent, block, fees, blockSigOpCost>>
                \/ /\ why = "no" /\ PutBack(t, w)
                   /\ sortedByFee' = TRUE /\ blockWeight' = weight
                   /\ UNCHANGED <<items, queue, blockUtxos, spent, block, fees, blockSigOpCost, skipped>>
                \/ /\ why = "no" /\ ~PutBack(t, w) /\ t \in Rejected
                   /\ sortedByFee' = (sortedByFee \/ Switches(t, w)) /\ Skip(t, "rejected")
                   /\ queue' = queue \ {t} /\ blockWeight' = weight
                   /\ UNCHANGED <<items, blockUtxos, spent, block, fees, blockSigOpCost>>
                \/ /\ why = "no" /\ ~PutBack(t, w) /\ t \notin Rejected
                   /\ sortedByFee' = (sortedByFee \/ Switches(t, w))
                   /\ Add(t, w)
                   /\ UNCHANGED <<dependers, skipped>>
  /\ UNCHANGED <<world, pc, setup, loop>>

-----------------------------------------------------------------------------
(* The finished block is checked against the chain as it is by then.        *)

\* The outputs left after the first n transactions of the block, or Nil when
\* one of them spends what is not there.
After(s) ==
  FoldLeft(LAMBDA have, t : IF have = Nil THEN Nil
                            ELSE IF Inputs(t) \subseteq have[1] THEN <<(have[1] \ Inputs(t)) \cup Outputs(t)>> ELSE Nil,
           <<utxo>>, s)

SumOver(f, s) == FoldLeft(LAMBDA n, t : n + f[t], 0, s)
Total(s) == FoldLeft(LAMBDA n, x : n + x, 0, s)

BlockWeight == BaseWeight + SumOver(Weight, block) + (IF witnessIncluded THEN CommitmentWeight ELSE 0)

\* The consensus rules that concern what was chosen.
checkConnectBlock ==
  /\ After(block) # Nil
  /\ Total(fees) <= SumOver(Fee, block)
  /\ SumOver(SigOps, block) <= MaxBlockSigOpsCost
  /\ Range(block) \cap (NonFinal \cup Rejected) = {}
  /\ Range(block) \cap Witness # {} => segwitActive /\ witnessIncluded

CheckConnectBlockTemplate ==
  /\ pc = "choose" /\ queue = {}
  /\ pc' = IF tip = best /\ checkConnectBlock THEN "done" ELSE "failed"
  /\ UNCHANGED <<world, setup, loop, items, queue, blockUtxos, sortedByFee, body, skipped>>

Next ==
  \/ BestSnapshot \/ MiningDescs \/ Depend \/ Consider \/ StartChoosing \/ CheckConnectBlockTemplate
  \/ \E t \in Txs : FetchUtxoView(t) \/ Choose(t) \/ MaybeAcceptTransaction(t)
  \/ \E S \in SUBSET pool : ConnectBlock(S)

Spec == Init /\ [][Next]_vars

-----------------------------------------------------------------------------
\* NewBlockTemplate fails in its last check only when the block it builds on is
\* no longer the tip: whatever the pool does meanwhile, what was chosen is a
\* valid block on the block that was the tip at the start.
FailsOnlyWhenOvertaken == pc = "failed" => tip # best

\* A template lists a fee for every transaction and never more than it pays.
\* It lists less only when the pool lost a transaction during the walk: the
\* one that was given up half way stays among the dependers, without its fee.
FeesListed ==
  pc = "done" =>
    /\ Len(fees) = Len(block)
    /\ \A i \in 1..Len(block) : fees[i] = Fee[block[i]] \/ (lost /\ fees[i] = 0)

\* The block is lighter than the limit of the policy, the commitment included,
\* and the weight that was counted is the weight of the block.
WithinLimits ==
  pc = "done" => blockWeight = BlockWeight /\ (block # <<>> => BlockWeight < policy.maxWeight)

\* When neither pool nor chain changes, a transaction of the pool is left out
\* only for a limit, its witness, its lock time or a failed check, or because
\* one it depends on was left out; none is forgotten among the dependers, and
\* none is tried before all it depends on are in the block.
NoneForgotten ==
  pc = "done" /\ moves = 0 =>
    \A t \in pool \ Range(block) :
      \/ skipped[t] \in {"late", "weight", "sigops", "free", "witness", "rejected"}
      \/ skipped[t] = "no" /\ \E o \in Inputs(t) : Origin[o] \in pool \ Range(block)

=============================================================================
