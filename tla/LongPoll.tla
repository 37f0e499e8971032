------------------------------ MODULE LongPoll ------------------------------
(***************************************************************************)
(* getblocktemplate and its long polls (rpcserver.go).  gbtWorkState keeps *)
(* one block template for all callers under a mutex; a caller that already *)
(* has the template named by its longpollid waits on a channel that is     *)
(* closed when the template goes stale.  The chain, the memory pool and    *)
(* the clock move while the mutex is held, and the callbacks of the chain  *)
(* and of the pool take it in goroutines that run in any order.            *)
(*                                                                         *)
(* The clock counts half seconds, so that two moments can share a Unix     *)
(* second.  A channel is named by the key it is registered under: a poller *)
(* that waits holds the channel of its own longpollid, and a closed        *)
(* channel leaves notifyMap as its waiters leave "waiting".                *)
(***************************************************************************)
EXTENDS Integers, FiniteSets

CONSTANTS Pollers, Nil, Moments, MaxCalls, MaxMoves

VARIABLES
  best, seen, lastUpdated, now, moves,                       \* chain, pool, clock
  notes,                                                     \* goroutines that wait for the mutex
  prevHash, lastGenerated, lastTxUpdate, template, notifyMap, \* gbtWorkState
  lock,                                                      \* who holds the mutex, and its locals
  pc, asked, reply, calls                                    \* the callers

vars == <<best, seen, lastUpdated, now, moves, notes, prevHash, lastGenerated, lastTxUpdate, template,
          notifyMap, lock, pc, asked, reply, calls>>
world == <<best, seen, lastUpdated, now, moves>>
work == <<prevHash, lastGenerated, lastTxUpdate, template, notifyMap>>
callers == <<pc, asked, reply, calls>>

gbtRegenerateSeconds == 60
Unix(t) == t \div 2
Idle == "idle"

Init ==
  /\ best = 0 /\ seen = 0 /\ lastUpdated = 0 /\ now = 2 /\ moves = 0
  /\ notes = {}
  /\ prevHash = Nil /\ lastGenerated = 0 /\ lastTxUpdate = 0 /\ template = Nil /\ notifyMap = {}
  /\ lock = Nil
  /\ pc = [p \in Pollers |-> Idle]
  /\ asked = [p \in Pollers |-> Nil]
  /\ reply = [p \in Pollers |-> Nil]
  /\ calls = 0

-----------------------------------------------------------------------------
(* The chain, the memory pool and the clock. *)

Move == moves < MaxMoves /\ moves' = moves + 1

\* A block is accepted: NTBlockAccepted is sent whether it is the new tip or lies on a side
\* chain, after the best snapshot changed, and starts the goroutine of NotifyBlockConnected.
\* Blocks are numbered in the order they are accepted.
AcceptBlock ==
  \E isMainChain \in BOOLEAN :
    /\ Move
    /\ seen' = seen + 1
    /\ best' = IF isMainChain THEN seen + 1 ELSE best
    /\ notes' = notes \cup {[kind |-> "block", hash |-> seen + 1, time |-> 0]}
    /\ UNCHANGED <<lastUpdated, now, work, lock, callers>>

\* A transaction enters the pool and is announced (NotifyNewTransactions), or one leaves it.
MempoolChanges ==
  \E added \in BOOLEAN :
    /\ Move
    /\ lastUpdated' = Unix(now)
    /\ notes' = IF added THEN notes \cup {[kind |-> "tx", hash |-> Nil, time |-> Unix(now)]} ELSE notes
    /\ UNCHANGED <<best, seen, now, work, lock, callers>>

Tick ==
  \E t \in Moments :
    /\ Move
    /\ now < t
    /\ now' = t
    /\ UNCHANGED <<best, seen, lastUpdated, notes, work, lock, callers>>

-----------------------------------------------------------------------------
(* gbtWorkState, under its mutex. *)

\* The channels that notifyLongPollers closes: those of other blocks, and those of this block
\* whose template is older than the last change of the pool.
Closed(latestHash, updated) ==
  {c \in notifyMap : c[1] # latestHash \/ c[2] < updated}

\* Closing a channel wakes every caller that waits on it.
Woken(closed) ==
  [p \in Pollers |-> IF pc[p] = "waiting" /\ asked[p] \in closed THEN "woken" ELSE pc[p]]

notifyLongPollers(latestHash, updated) ==
  /\ notifyMap' = notifyMap \ Closed(latestHash, updated)
  /\ pc' = Woken(Closed(latestHash, updated))


NotifyBlockConnected ==
  \E n \in notes :
    /\ n.kind = "block" /\ lock = Nil
    /\ notes' = notes \ {n}
    /\ notifyLongPollers(n.hash, lastTxUpdate)
    /\ UNCHANGED <<world, prevHash, lastGenerated, lastTxUpdate, template, lock, asked, reply, calls>>

NotifyMempoolTx ==
  \E n \in notes :
    /\ n.kind = "tx" /\ lock = Nil
    /\ notes' = notes \ {n}
    /\ \/ /\ prevHash # Nil /\ now > lastGenerated + 2 * gbtRegenerateSeconds
          /\ notifyLongPollers(prevHash, n.time)
       \/ /\ prevHash = Nil \/ now <= lastGenerated + 2 * gbtRegenerateSeconds
          /\ UNCHANGED <<notifyMap, pc>>
    /\ UNCHANGED <<world, prevHash, lastGenerated, lastTxUpdate, template, lock, asked, reply, calls>>

-----------------------------------------------------------------------------
(* handleGetBlockTemplateRequest and handleGetBlockTemplateLongPoll. *)

\* A client asks for a template, with the longpollid it was last given or with none.  An id
\* that does not decode is as good as none, and a request that is refused changes nothing.
handleGetBlockTemplateRequest ==
  \E p \in Pollers : \E id \in {Nil, reply[p]} :
    /\ pc[p] = Idle /\ calls < MaxCalls
    /\ calls' = calls + 1
    /\ pc' = [pc EXCEPT ![p] = "queued"]
    /\ asked' = [asked EXCEPT ![p] = id]
    /\ UNCHANGED <<world, notes, work, lock, reply>>

\* The mutex is taken, at first or after the wait, and updateBlockTemplate notes when the pool
\* last changed.  LastUpdated is the Unix epoch before any change, which is no zero time.
Enter ==
  \E p \in Pollers :
    /\ pc[p] \in {"queued", "woken"} /\ lock = Nil
    /\ lock' = [who |-> p, step |-> "decide", tx |-> lastUpdated, hash |-> Nil, made |-> Nil]
    /\ UNCHANGED <<world, notes, work, callers>>

\* The template has to be made anew.
Stale(latestHash, updated) ==
  \/ template = Nil \/ prevHash = Nil \/ prevHash # latestHash
  \/ lastTxUpdate # updated /\ now > lastGenerated + 2 * gbtRegenerateSeconds

\* The answer, of which only the id matters: it is made of the work state, not of the template.
blockTemplateResult(hash, generated) == <<hash, Unix(generated)>>

\* The rest of a handler, with a template on the block prev up to date.  Its client waits when it has this
\* very template already, on the channel that templateUpdateChan finds or makes; a caller that
\* has waited answers.  A template whose time is out of range is refused.
handleGetBlockTemplateLongPoll(p, prev, hash, generated, channels, states) ==
  /\ lock' = Nil
  /\ \/ /\ pc[p] = "queued" /\ asked[p] = <<prev, Unix(generated)>>
        /\ notifyMap' = channels \cup {asked[p]}
        /\ pc' = [states EXCEPT ![p] = "waiting"]
        /\ UNCHANGED <<asked, reply>>
     \/ /\ pc[p] = "queued" => asked[p] # <<prev, Unix(generated)>>
        /\ notifyMap' = channels
        /\ pc' = [states EXCEPT ![p] = Idle]
        /\ asked' = [asked EXCEPT ![p] = Nil]
        /\ \E outOfRange \in BOOLEAN :
             reply' = IF outOfRange THEN reply
                      ELSE [reply EXCEPT ![p] = blockTemplateResult(hash, generated)]

\* updateBlockTemplate keeps the template.
KeepTemplate ==
  /\ lock # Nil /\ lock.step = "decide" /\ ~Stale(best, lock.tx)
  /\ handleGetBlockTemplateLongPoll(lock.who, template, prevHash, lastGenerated, notifyMap, pc)
  /\ UNCHANGED <<world, notes, prevHash, lastGenerated, lastTxUpdate, template, calls>>

\* It drops the template for a new one ...
DropTemplate ==
  /\ lock # Nil /\ lock.step = "decide" /\ Stale(best, lock.tx)
  /\ prevHash' = Nil
  /\ lock' = [lock EXCEPT !.step = "generate", !.hash = best]
  /\ UNCHANGED <<world, notes, lastGenerated, lastTxUpdate, template, notifyMap, callers>>

\* ... which NewBlockTemplate builds on the best block it finds ...
NewBlockTemplate ==
  /\ lock # Nil /\ lock.step = "generate"
  /\ lock' = [lock EXCEPT !.step = "store", !.made = best]
  /\ UNCHANGED <<world, notes, work, callers>>

\* ... and hands out only if that still is the best block (CheckConnectBlockTemplate).
GenerationFails ==
  /\ lock # Nil /\ lock.step = "store"
  /\ lock' = Nil
  /\ pc' = [pc EXCEPT ![lock.who] = Idle]
  /\ asked' = [asked EXCEPT ![lock.who] = Nil]
  /\ UNCHANGED <<world, notes, work, reply, calls>>

StoreTemplate ==
  /\ lock # Nil /\ lock.step = "store" /\ lock.made = best
  /\ template' = lock.made /\ lastGenerated' = now /\ lastTxUpdate' = lock.tx /\ prevHash' = lock.hash
  /\ handleGetBlockTemplateLongPoll(lock.who, lock.made, lock.hash, now,
       notifyMap \ Closed(lock.hash, lock.tx), Woken(Closed(lock.hash, lock.tx)))
  /\ UNCHANGED <<world, notes, calls>>

\* The client of a caller that waits closes its connection (closeChan).
ClientQuits ==
  \E p \in Pollers :
    /\ pc[p] \in {"waiting", "woken"}
    /\ lock # Nil => lock.who # p
    /\ pc' = [pc EXCEPT ![p] = Idle]
    /\ asked' = [asked EXCEPT ![p] = Nil]
    /\ UNCHANGED <<world, notes, work, lock, reply, calls>>

Next ==
  \/ AcceptBlock \/ MempoolChanges \/ Tick
  \/ NotifyBlockConnected \/ NotifyMempoolTx
  \/ handleGetBlockTemplateRequest \/ Enter \/ KeepTemplate \/ DropTemplate
  \/ NewBlockTemplate \/ StoreTemplate \/ GenerationFails \/ ClientQuits

Spec == Init /\ [][Next]_vars

-----------------------------------------------------------------------------
(* What the long polls promise. *)

\* A caller that waits holds a channel that can still be closed.
WaitersRegistered ==
  \A p \in Pollers : pc[p] = "waiting" => asked[p] \in notifyMap

\* No wakeup is lost when the tip moves: whoever still waits for a block that is no longer the
\* best one has a goroutine of NotifyBlockConnected coming that will close its channel,
\* whatever the order in which the goroutines of several blocks get the mutex.
TipChangeWakes ==
  \A p \in Pollers :
    pc[p] = "waiting" /\ asked[p][1] # best =>
      \E n \in notes : n.kind = "block" /\ n.hash # asked[p][1]

\* Nor when the template is made anew on the same block: whoever still waits has an id at least
\* as late as the pool change the template takes in.
NewTemplateWakes ==
  \A p \in Pollers :
    pc[p] = "waiting" /\ asked[p][1] = prevHash => lastTxUpdate <= asked[p][2]

=============================================================================
