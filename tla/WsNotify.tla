------------------------------ MODULE WsNotify ------------------------------
(***************************************************************************)
(* The websocket notifications of the RPC server (rpcwebsocket.go).  The   *)
(* chain, the memory pool and the goroutines that serve the commands of    *)
(* the clients put messages on one unbounded queue, and notificationHandler *)
(* alone takes them off and owns the maps of who wants to hear of what.    *)
(* A command is served in a goroutine that nobody waits for, so it may     *)
(* register something for a client that has already gone.                  *)
(***************************************************************************)
EXTENDS Integers, Sequences, SequencesExt, FiniteSets

CONSTANTS
  Clients, Off,
  Txs, OutPoints, Ins, Outs,  \* the outpoints a transaction spends, and makes
  PayTo,                      \* the address an outpoint pays: a key, or the hash of one
  KeyHash,                    \* what the address of a key encodes as: the hash of the key
  Blocks, BlockTxs,
  Plans,                      \* what the clients may send, sets of <<method, argument>> for each
  RPCMaxWebsockets, RPCMaxConcurrentReqs,
  MaxMoves                    \* a bound on the changes of chain and pool

VARIABLES
  chain, mempool,
  unannounced,      \* transactions whose NotifyMempoolTx is still to come
  returned,         \* history: transactions that a disconnected block gave back to the pool
  moves,
  queue,            \* queueNotification, the queue of queueHandler and notificationMsgs
  clients, blockNotifications, txNotifications,
  watch,            \* the maps of outpoints and addresses, and the requests of every client
  wants,            \* the commands every client is still to send
  conn,             \* every client's connection: "new", "open", "closed", "gone"
  serving,          \* the commands every client has being served
  late,             \* history: clients with a command served after RemoveClient
  lastBlock         \* history: the last block notification since a client asked for them

vars == <<chain, mempool, unannounced, returned, moves, queue, clients, blockNotifications,
          txNotifications, watch, wants, conn, serving, late, lastBlock>>
world == <<chain, mempool, unannounced, returned, moves>>
maps == <<clients, blockNotifications, txNotifications, watch, lastBlock>>
sessions == <<wants, conn, serving, late>>

Addrs == {PayTo[o] : o \in OutPoints} \cup {KeyHash[PayTo[o]] : o \in OutPoints}
NoFilter == [on |-> FALSE, addrs |-> {}, unspent |-> {}]

Init ==
  /\ chain = <<>> /\ mempool = {} /\ unannounced = {} /\ returned = {} /\ moves = 0
  /\ queue = <<>>
  /\ clients = {} /\ blockNotifications = {} /\ txNotifications = {}
  /\ watch = [ops |-> [o \in OutPoints |-> {}], addrs |-> [a \in Addrs |-> {}],
              spentRequests |-> [c \in Clients |-> {}], addrRequests |-> [c \in Clients |-> {}],
              filter |-> [c \in Clients |-> NoFilter], told |-> [c \in Clients |-> {}]]
  /\ wants \in Plans
  /\ conn = [c \in Clients |-> "new"] /\ serving = [c \in Clients |-> {}] /\ late = {}
  /\ lastBlock = [c \in Clients |-> <<>>]

\* queueHandler hands on in the order it was given, skipping its queue only when that is empty.
queueHandler(n) == queue' = Append(queue, n)

Message(kind, who, what) == [kind |-> kind, who |-> who, what |-> what]

-----------------------------------------------------------------------------
(* The chain and the memory pool. *)

Confirmed == UNION {BlockTxs[b] : b \in ToSet(chain)}
Move == moves < MaxMoves /\ moves' = moves + 1

AcceptTx ==
  \E t \in Txs \ (mempool \cup Confirmed) :
    /\ Move
    /\ \A u \in mempool \cup Confirmed : Ins[u] \cap Ins[t] = {}
    /\ \A u \in Txs : Outs[u] \cap Ins[t] # {} => u \in mempool \cup Confirmed
    /\ mempool' = mempool \cup {t} /\ unannounced' = unannounced \cup {t}
    /\ UNCHANGED <<chain, returned, queue, maps, sessions>>

NotifyMempoolTx ==
  \E t \in unannounced :
    /\ unannounced' = unannounced \ {t}
    /\ queueHandler(Message("tx", Off, t))
    /\ UNCHANGED <<chain, mempool, returned, moves, maps, sessions>>

\* The pool drops what a block confirms in the same round of callbacks.
NotifyBlockConnected ==
  \E b \in Blocks \ ToSet(chain) :
    /\ Move
    /\ BlockTxs[b] \cap Confirmed = {}
    /\ chain' = Append(chain, b) /\ mempool' = mempool \ BlockTxs[b]
    /\ returned' = returned \ BlockTxs[b]
    /\ queueHandler(Message("connected", Len(chain) + 1, b))
    /\ UNCHANGED <<unannounced, maps, sessions>>

\* What a disconnected block had confirmed goes back to the pool and is not announced.
NotifyBlockDisconnected ==
  /\ chain # <<>> /\ Move
  /\ chain' = Front(chain)
  /\ mempool' = mempool \cup BlockTxs[Last(chain)] /\ returned' = returned \cup BlockTxs[Last(chain)]
  /\ queueHandler(Message("disconnected", Len(chain), Last(chain)))
  /\ UNCHANGED <<unannounced, maps, sessions>>

-----------------------------------------------------------------------------
(* The clients.  WebsocketHandler adds a client, runs it and removes it. *)

WebsocketHandler(c) ==
  /\ conn[c] = "new" /\ wants[c] # {} /\ Cardinality(clients) + 1 <= RPCMaxWebsockets
  /\ conn' = [conn EXCEPT ![c] = "open"]
  /\ queueHandler(Message("registerclient", c, Off))
  /\ UNCHANGED <<world, maps, wants, serving, late>>

\* inHandler starts a goroutine for a command.
inHandler(c) ==
  \E w \in wants[c] :
    /\ conn[c] = "open" /\ Cardinality(serving[c]) < RPCMaxConcurrentReqs
    /\ wants' = [wants EXCEPT ![c] = @ \ {w}]
    /\ serving' = [serving EXCEPT ![c] = @ \cup {w}]
    /\ UNCHANGED <<world, queue, maps, conn, late>>

Disconnect(c) ==
  /\ conn[c] = "open"
  /\ conn' = [conn EXCEPT ![c] = "closed"]
  /\ UNCHANGED <<world, queue, maps, wants, serving, late>>

\* The handlers of the client have ended; the goroutines that serve its commands may not have.
RemoveClient(c) ==
  /\ conn[c] = "closed"
  /\ conn' = [conn EXCEPT ![c] = "gone"]
  /\ queueHandler(Message("unregisterclient", c, Off))
  /\ UNCHANGED <<world, maps, wants, serving, late>>

\* A filter is replaced the first time and when the client says so, and else added to.
handleLoadTxFilter(f, reload, addrs, ops) ==
  [on |-> TRUE, addrs |-> addrs \cup (IF reload \/ ~f.on THEN {} ELSE f.addrs),
   unspent |-> ops \cup (IF reload \/ ~f.on THEN {} ELSE f.unspent)]

\* serviceRequest runs the handler of the command: the filter is the client's own, everything
\* else is a message for notificationHandler.
serviceRequest(c) ==
  \E w \in serving[c] :
    /\ serving' = [serving EXCEPT ![c] = @ \ {w}]
    /\ late' = IF conn[c] = "gone" THEN late \cup {c} ELSE late
    /\ \/ /\ w[1] \in {"loadtxfilter", "reloadtxfilter"}
          /\ watch' = [watch EXCEPT !.filter[c] =
                         handleLoadTxFilter(@, w[1] = "reloadtxfilter", {w[2]} \cap Addrs, {w[2]} \cap OutPoints)]
          /\ UNCHANGED queue
       \/ /\ w[1] \notin {"loadtxfilter", "reloadtxfilter"}
          /\ queueHandler(Message(w[1], c, w[2]))
          /\ UNCHANGED watch
    /\ UNCHANGED <<world, clients, blockNotifications, txNotifications, lastBlock, wants, conn>>

-----------------------------------------------------------------------------
(* notificationHandler.  w stands for watch: what a message makes of it. *)

\* QueueNotification: a client that is disconnected is not told.
QueueNotification(w, cs, n) ==
  [w EXCEPT !.told = [c \in Clients |-> IF c \in cs /\ conn[c] = "open" THEN @[c] \cup {n} ELSE @[c]]]

removeSpentRequest(w, c, o) ==
  [w EXCEPT !.spentRequests[c] = @ \ {o}, !.ops[o] = @ \ {c}]

removeAddrRequest(w, c, a) ==
  [w EXCEPT !.addrRequests[c] = @ \ {a}, !.addrs[a] = @ \ {c}]

addAddrRequests(w, c, a) ==
  [w EXCEPT !.addrRequests[c] = @ \cup {a}, !.addrs[a] = @ \cup {c}]

\* Who watches an outpoint that t spends is told, and once t is in a block its request is done.
notifyForTxIns(w, t, mined) ==
  FoldLeft(LAMBDA v, q : IF mined THEN removeSpentRequest(v, q[1], q[2]) ELSE v,
           QueueNotification(w, UNION {w.ops[o] : o \in Ins[t]}, <<"redeemingtx", t>>),
           SetToSeq({q \in Clients \X Ins[t] : q[1] \in w.ops[q[2]]}))

\* A request for an outpoint that the memory pool already spends is answered at once.
CheckSpend(o) == {t \in mempool : o \in Ins[t]}
addSpentRequests(w, c, o) ==
  FoldLeft(LAMBDA v, t : notifyForTxIns(v, t, FALSE),
           [w EXCEPT !.spentRequests[c] = @ \cup {o}, !.ops[o] = @ \cup {c}],
           SetToSeq(CheckSpend(o)))

\* Who watches an address that t pays is told, and watches the outpoint from then on.
notifyForTxOuts(w, t) ==
  FoldLeft(LAMBDA v, q : QueueNotification(addSpentRequests(v, q[1], q[2]), {q[1]}, <<"recvtx", t>>),
           w, SetToSeq({q \in Clients \X Outs[t] : q[1] \in w.addrs[KeyHash[PayTo[q[2]]]]}))

notifyForTx(w, t, mined) == notifyForTxOuts(notifyForTxIns(w, t, mined), t)

\* The filter of a client matches the outpoints it holds and the addresses, a key by its hash
\* too; what pays it is an outpoint to match from then on.
existsAddress(f, a) == a \in f.addrs \/ KeyHash[a] \in f.addrs
Matched(f, t) == {o \in Outs[t] : f.on /\ existsAddress(f, PayTo[o])}
subscribedClients(w, t, cs) ==
  {c \in cs : Ins[t] \cap w.filter[c].unspent # {} \/ Matched(w.filter[c], t) # {}}
Subscribe(w, t, cs) ==
  [w EXCEPT !.filter = [c \in Clients |->
     IF c \in cs THEN [@[c] EXCEPT !.unspent = @ \cup Matched(w.filter[c], t)] ELSE @[c]]]

\* What t is to the clients cs: relevanttxaccepted, or a transaction of filteredblockconnected.
notifyRelevant(w, t, cs, name) ==
  QueueNotification(Subscribe(w, t, cs), subscribedClients(w, t, cs), <<name, t>>)

notifyForNewTx(w, t) == QueueNotification(w, txNotifications, <<"txaccepted", t>>)

\* A block tells the clients that watch, in the order of its transactions, and then those that
\* asked for blocks.
BlockSeq(b) == SetToSeq(BlockTxs[b])
notifyBlockConnected(w, b) ==
  FoldLeft(LAMBDA v, t : notifyRelevant(v, t, blockNotifications, "filteredblock"),
           FoldLeft(LAMBDA v, t : notifyForTx(v, t, TRUE), w, BlockSeq(b)), BlockSeq(b))

Told(n) ==
  [c \in Clients |-> IF c \in blockNotifications /\ conn[c] = "open" THEN n ELSE lastBlock[c]]

Handle(kind) == queue # <<>> /\ Head(queue).kind = kind /\ queue' = Tail(queue)
               /\ UNCHANGED <<world, sessions>>

HandleConnected ==
  /\ Handle("connected")
  /\ watch' = notifyBlockConnected(watch, Head(queue).what)
  /\ lastBlock' = Told(<<"connected", Head(queue).who, Head(queue).what>>)
  /\ UNCHANGED <<clients, blockNotifications, txNotifications>>

HandleDisconnected ==
  /\ Handle("disconnected")
  /\ lastBlock' = Told(<<"disconnected", Head(queue).who, Head(queue).what>>)
  /\ UNCHANGED <<clients, blockNotifications, txNotifications, watch>>

HandleTx ==
  /\ Handle("tx")
  /\ watch' = notifyRelevant(notifyForTx(notifyForNewTx(watch, Head(queue).what), Head(queue).what, FALSE),
                             Head(queue).what, clients, "relevanttx")
  /\ UNCHANGED <<clients, blockNotifications, txNotifications, lastBlock>>

HandleBlocks ==
  \/ /\ Handle("notifyblocks")
     /\ blockNotifications' = blockNotifications \cup {Head(queue).who}
     /\ lastBlock' = [lastBlock EXCEPT ![Head(queue).who] = <<>>]
     /\ UNCHANGED <<clients, txNotifications, watch>>
  \/ /\ Handle("stopnotifyblocks")
     /\ blockNotifications' = blockNotifications \ {Head(queue).who}
     /\ UNCHANGED <<clients, txNotifications, watch, lastBlock>>

HandleNewTxs ==
  /\ \/ Handle("notifynewtransactions") /\ txNotifications' = txNotifications \cup {Head(queue).who}
     \/ Handle("stopnotifynewtransactions") /\ txNotifications' = txNotifications \ {Head(queue).who}
  /\ UNCHANGED <<clients, blockNotifications, watch, lastBlock>>

HandleRequests ==
  /\ \/ Handle("notifyspent") /\ watch' = addSpentRequests(watch, Head(queue).who, Head(queue).what)
     \/ Handle("stopnotifyspent") /\ watch' = removeSpentRequest(watch, Head(queue).who, Head(queue).what)
     \/ Handle("notifyreceived") /\ watch' = addAddrRequests(watch, Head(queue).who, Head(queue).what)
     \/ Handle("stopnotifyreceived") /\ watch' = removeAddrRequest(watch, Head(queue).who, Head(queue).what)
  /\ UNCHANGED <<clients, blockNotifications, txNotifications, lastBlock>>

HandleRegisterClient ==
  /\ Handle("registerclient")
  /\ clients' = clients \cup {Head(queue).who}
  /\ UNCHANGED <<blockNotifications, txNotifications, watch, lastBlock>>

\* Everything the client asked for goes with it.
HandleUnregisterClient ==
  LET c == Head(queue).who IN
  /\ Handle("unregisterclient")
  /\ clients' = clients \ {c}
  /\ blockNotifications' = blockNotifications \ {c} /\ txNotifications' = txNotifications \ {c}
  /\ watch' = FoldLeft(LAMBDA v, a : removeAddrRequest(v, c, a),
                FoldLeft(LAMBDA v, o : removeSpentRequest(v, c, o), watch,
                         SetToSeq(watch.spentRequests[c])),
                SetToSeq(watch.addrRequests[c]))
  /\ UNCHANGED lastBlock

notificationHandler ==
  \/ HandleConnected \/ HandleDisconnected \/ HandleTx \/ HandleBlocks \/ HandleNewTxs
  \/ HandleRequests \/ HandleRegisterClient \/ HandleUnregisterClient

Next ==
  \/ AcceptTx \/ NotifyMempoolTx \/ NotifyBlockConnected \/ NotifyBlockDisconnected
  \/ \E c \in Clients : WebsocketHandler(c) \/ inHandler(c) \/ Disconnect(c) \/ RemoveClient(c)
                        \/ serviceRequest(c)
  \/ notificationHandler

Spec == Init /\ [][Next]_vars

-----------------------------------------------------------------------------
(* What the notifications promise. *)

\* The requests a client holds are the ones the maps hold for it, through every way of adding
\* and removing them: its own commands, a payment to an address it watches, a spend in a block,
\* and its end (rpcwebsocket.go:560 relies on it).
RequestsMirrored ==
  \A c \in Clients :
    /\ \A o \in OutPoints : c \in watch.ops[o] <=> o \in watch.spentRequests[c]
    /\ \A a \in Addrs : c \in watch.addrs[a] <=> a \in watch.addrRequests[c]

\* A client that has been removed is in no map, unless one of its commands was still served
\* after RemoveClient.
RemovedForgotten ==
  \A c \in Clients \ late :
    conn[c] = "gone" /\ (\A k \in DOMAIN queue : queue[k].who # c) =>
      /\ c \notin clients \cup blockNotifications \cup txNotifications
      /\ \A o \in OutPoints : c \notin watch.ops[o]
      /\ \A a \in Addrs : c \notin watch.addrs[a]

\* No spend is missed between the memory pool and the request: a client that watches an outpoint
\* has been told of the transaction of the pool that spends it, once that was announced.
\* Transactions that came back with a disconnected block are never announced.
SpendsTold ==
  \A c \in Clients, o \in OutPoints, t \in mempool \ (unannounced \cup returned) :
    /\ conn[c] = "open" /\ c \in watch.ops[o] /\ o \in Ins[t]
    /\ \A k \in DOMAIN queue : queue[k].what # t
    => <<"redeemingtx", t>> \in watch.told[c]

\* The last block notification of a client that asked for them names the tip of the chain once
\* no other is under way: notifications arrive in the order of the chain.
TipKnown ==
  \A c \in blockNotifications :
    /\ conn[c] = "open" /\ lastBlock[c] # <<>>
    /\ \A k \in DOMAIN queue : queue[k].kind \notin {"connected", "disconnected"}
    => IF lastBlock[c][1] = "connected" THEN Len(chain) = lastBlock[c][2] /\ Last(chain) = lastBlock[c][3]
       ELSE Len(chain) = lastBlock[c][2] - 1

=============================================================================
