-------------------------------- MODULE Peer --------------------------------
(***************************************************************************)
(* The goroutines of a connected peer (peer.go): inHandler reads messages,   *)
(* queueHandler queues what others send, outHandler writes it, one message   *)
(* at a time, and stallHandler is told of every message both ways.  Callers  *)
(* queue messages and inventory, and may wait until a message is done with.  *)
(* Channels are sequences with a capacity; a send and a receive are steps of *)
(* their own.  Disconnect can come from anyone at any time.                  *)
(***************************************************************************)
EXTENDS Integers, Sequences, SequencesExt, FiniteSets

CONSTANTS
  Msgs,            \* messages that callers queue, each once
  Waits,           \* those with a doneChan, on which the caller waits
  Reject,          \* the message of PushRejectMsg in inHandler, which waits
  TxInvs, BlockInvs,
  outputBufferSize, maxInvTrickleSize,
  MaxReads,        \* a bound on the messages read from the connection
  MaxInvs          \* a bound on the calls of QueueInventory

VARIABLES
  disconnect,      \* Disconnect was called: the connection and quit are closed
  call,            \* the state of the QueueMessage of every message
  outputQueue, outputInvChan, sendQueue, sendDoneQueue, stallControl,  \* channels
  pendingMsgs, invSendQueue, waiting,  \* the variables of queueHandler
  qState, qMsg,    \* what queueHandler does, the message it hands over
  oState, oMsg,    \* the same of outHandler
  iState, reads,   \* inHandler
  sState, ioStopped,  \* stallHandler
  knownInventory,
  doneSent,        \* messages whose doneChan was signalled, and how often
  offered,         \* history: the inventory QueueInventory was called with
  queued,          \* history: the messages in the order they entered outputQueue
  sent             \* history: what was written to the connection

callVars == <<call, queued, offered>>
qVars == <<pendingMsgs, invSendQueue, waiting, qState, qMsg>>
oVars == <<oState, oMsg, sent>>
iVars == <<iState, reads>>
sVars == <<sState, ioStopped>>
vars == <<disconnect, callVars, outputQueue, outputInvChan, sendQueue, sendDoneQueue, stallControl,
          qVars, oVars, iVars, sVars, knownInventory, doneSent>>

AllMsgs == Msgs \cup {Reject}
Waiting == Waits \cup {Reject}
Invs == TxInvs \cup BlockInvs

\* The goroutines that have closed inQuit, queueQuit and outQuit.
inQuit == iState = "done"
queueQuit == qState = "done"
outQuit == oState = "done"

Init ==
  /\ disconnect = FALSE
  /\ call = [m \in AllMsgs |-> "idle"]
  /\ outputQueue = <<>> /\ outputInvChan = <<>> /\ sendQueue = <<>>
  /\ sendDoneQueue = 0 /\ stallControl = 0
  /\ pendingMsgs = <<>> /\ invSendQueue = <<>> /\ waiting = FALSE
  /\ qState = "select" /\ qMsg = <<>>
  /\ oState = "select" /\ oMsg = <<>>
  /\ iState = "read" /\ reads = 0
  /\ sState = "select" /\ ioStopped = FALSE
  /\ knownInventory = {}
  /\ doneSent = [m \in AllMsgs |-> 0]
  /\ queued = <<>> /\ sent = <<>> /\ offered = {}

\* Packets are sequences: of one message, or of the inventory of an inv message.
Signal(packets) ==
  doneSent' = [m \in AllMsgs |-> doneSent[m] +
                 Cardinality({k \in DOMAIN packets : packets[k] = <<m>> /\ m \in Waiting})]

-----------------------------------------------------------------------------
\* Callers.  QueueMessage looks whether the peer is connected and then sends on
\* outputQueue: the peer can be disconnected in between.

Queue(m) ==
  /\ call[m] = "idle"
  /\ m \in Msgs \/ iState = "reject"
  /\ call' = [call EXCEPT ![m] = IF disconnect THEN "returned" ELSE "connected"]
  /\ UNCHANGED <<disconnect, queued, offered, outputQueue, outputInvChan, sendQueue, sendDoneQueue,
                 stallControl, qVars, oVars, iVars, sVars, knownInventory, doneSent>>

SendOutput(m) ==
  /\ call[m] = "connected" /\ Len(outputQueue) < outputBufferSize
  /\ outputQueue' = Append(outputQueue, <<m>>)
  /\ queued' = Append(queued, m)
  /\ call' = [call EXCEPT ![m] = IF m \in Waiting THEN "waiting" ELSE "returned"]
  /\ UNCHANGED <<disconnect, offered, outputInvChan, sendQueue, sendDoneQueue, stallControl, qVars,
                 oVars, iVars, sVars, knownInventory, doneSent>>

AwaitDone(m) ==
  /\ call[m] = "waiting" /\ doneSent[m] > 0
  /\ call' = [call EXCEPT ![m] = "returned"]
  /\ UNCHANGED <<disconnect, queued, offered, outputQueue, outputInvChan, sendQueue, sendDoneQueue,
                 stallControl, qVars, oVars, iVars, sVars, knownInventory, doneSent>>

QueueInventory(iv) ==
  /\ iv \notin knownInventory /\ ~disconnect
  /\ iv \notin offered /\ Cardinality(offered) < MaxInvs /\ offered' = offered \cup {iv}
  /\ Len(outputInvChan) < outputBufferSize
  /\ outputInvChan' = Append(outputInvChan, iv)
  /\ UNCHANGED <<disconnect, call, queued, outputQueue, sendQueue, sendDoneQueue, stallControl, qVars,
                 oVars, iVars, sVars, knownInventory, doneSent>>

Disconnect ==
  /\ disconnect' = TRUE
  /\ UNCHANGED <<callVars, outputQueue, outputInvChan, sendQueue, sendDoneQueue, stallControl,
                 qVars, oVars, iVars, sVars, knownInventory, doneSent>>

-----------------------------------------------------------------------------
\* queueHandler.  waiting says that a message is with outHandler; the others wait
\* in pendingMsgs.

queuePackets(packets) ==
  /\ waiting' = TRUE
  /\ IF waiting THEN pendingMsgs' = pendingMsgs \o packets /\ UNCHANGED <<qState, qMsg>>
     ELSE /\ qMsg' = Head(packets) /\ qState' = "send"
          /\ pendingMsgs' = pendingMsgs \o Tail(packets)

QueueOutput ==
  /\ qState = "select" /\ outputQueue # <<>>
  /\ outputQueue' = Tail(outputQueue)
  /\ queuePackets(<<Head(outputQueue)>>)
  /\ UNCHANGED <<disconnect, callVars, outputInvChan, sendQueue, sendDoneQueue, stallControl,
                 invSendQueue, oVars, iVars, sVars, knownInventory, doneSent>>

QueueSend ==
  /\ qState = "send" /\ sendQueue = <<>>
  /\ sendQueue' = <<qMsg>> /\ qMsg' = <<>> /\ qState' = "select"
  /\ UNCHANGED <<disconnect, callVars, outputQueue, outputInvChan, sendDoneQueue, stallControl,
                 pendingMsgs, invSendQueue, waiting, oVars, iVars, sVars, knownInventory, doneSent>>

\* Faulty variant of QueueSendDone: waiting is reset though a message is handed over.
QueueSendDoneReset ==
  /\ qState = "select" /\ sendDoneQueue = 1
  /\ sendDoneQueue' = 0 /\ waiting' = FALSE
  /\ IF pendingMsgs = <<>> THEN UNCHANGED <<pendingMsgs, qState, qMsg>>
     ELSE qMsg' = Head(pendingMsgs) /\ pendingMsgs' = Tail(pendingMsgs) /\ qState' = "send"
  /\ UNCHANGED <<disconnect, callVars, outputQueue, outputInvChan, sendQueue, stallControl,
                 invSendQueue, oVars, iVars, sVars, knownInventory, doneSent>>
QueueSendDone ==
  /\ qState = "select" /\ sendDoneQueue = 1
  /\ sendDoneQueue' = 0
  /\ IF pendingMsgs = <<>> THEN waiting' = FALSE /\ UNCHANGED <<pendingMsgs, qState, qMsg>>
     ELSE /\ qMsg' = Head(pendingMsgs) /\ pendingMsgs' = Tail(pendingMsgs)
          /\ qState' = "send" /\ UNCHANGED waiting
  /\ UNCHANGED <<disconnect, callVars, outputQueue, outputInvChan, sendQueue, stallControl,
                 invSendQueue, oVars, iVars, sVars, knownInventory, doneSent>>

\* Blocks are announced at once, transactions with the next trickle.
QueueInv ==
  /\ qState = "select" /\ outputInvChan # <<>>
  /\ outputInvChan' = Tail(outputInvChan)
  /\ \/ Head(outputInvChan) \in BlockInvs /\ queuePackets(<<<<Head(outputInvChan)>>>>)
        /\ UNCHANGED invSendQueue
     \/ Head(outputInvChan) \in TxInvs /\ invSendQueue' = Append(invSendQueue, Head(outputInvChan))
        /\ UNCHANGED <<pendingMsgs, waiting, qState, qMsg>>
  /\ UNCHANGED <<disconnect, callVars, outputQueue, sendQueue, sendDoneQueue, stallControl, oVars,
                 iVars, sVars, knownInventory, doneSent>>

\* What the peer knows by now is left out, the rest goes out in inv messages of
\* up to maxInvTrickleSize.
Trickle ==
  LET new == FoldLeft(LAMBDA ivs, iv : IF iv \in knownInventory THEN ivs ELSE Append(ivs, iv),
                      <<>>, invSendQueue)
      batches == (Len(new) + maxInvTrickleSize - 1) \div maxInvTrickleSize
      packets == [k \in 1 .. batches |->
                    SubSeq(new, (k - 1) * maxInvTrickleSize + 1,
                           IF k = batches THEN Len(new) ELSE k * maxInvTrickleSize)]
  IN /\ qState = "select" /\ ~disconnect /\ invSendQueue # <<>>
     /\ invSendQueue' = <<>>
     /\ knownInventory' = knownInventory \cup ToSet(new)
     /\ IF new = <<>> THEN UNCHANGED <<pendingMsgs, waiting, qState, qMsg>> ELSE queuePackets(packets)
     /\ UNCHANGED <<disconnect, callVars, outputQueue, outputInvChan, sendQueue, sendDoneQueue,
                    stallControl, oVars, iVars, sVars, doneSent>>

QueueQuit ==
  /\ qState = "select" /\ disconnect
  /\ Signal(pendingMsgs)
  /\ pendingMsgs' = <<>> /\ qState' = "drain"
  /\ UNCHANGED <<disconnect, callVars, outputQueue, outputInvChan, sendQueue, sendDoneQueue,
                 stallControl, invSendQueue, waiting, qMsg, oVars, iVars, sVars, knownInventory>>

\* The channels are drained until both are found empty.
QueueDrain ==
  /\ qState = "drain"
  /\ \/ /\ outputQueue # <<>>
        /\ Signal(<<Head(outputQueue)>>) /\ outputQueue' = Tail(outputQueue)
        /\ UNCHANGED <<outputInvChan, qState>>
     \/ /\ outputInvChan # <<>>
        /\ outputInvChan' = Tail(outputInvChan)
        /\ UNCHANGED <<outputQueue, doneSent, qState>>
     \/ /\ outputQueue = <<>> /\ outputInvChan = <<>>
        /\ qState' = "done"
        /\ UNCHANGED <<outputQueue, outputInvChan, doneSent>>
  /\ UNCHANGED <<disconnect, callVars, sendQueue, sendDoneQueue, stallControl, pendingMsgs,
                 invSendQueue, waiting, qMsg, oVars, iVars, sVars, knownInventory>>

-----------------------------------------------------------------------------
\* outHandler.  A message that cannot be written ends the connection, and nothing
\* is sent on sendDoneQueue for it.

OutTake ==
  /\ oState = "select" /\ sendQueue # <<>>
  /\ oMsg' = sendQueue /\ sendQueue' = <<>> /\ oState' = "stall"
  /\ UNCHANGED <<disconnect, callVars, outputQueue, outputInvChan, sendDoneQueue, stallControl,
                 qVars, sent, iVars, sVars, knownInventory, doneSent>>

OutStall ==
  /\ oState = "stall" /\ stallControl = 0
  /\ stallControl' = 1 /\ oState' = "write"
  /\ UNCHANGED <<disconnect, callVars, outputQueue, outputInvChan, sendQueue, sendDoneQueue, qVars,
                 oMsg, sent, iVars, sVars, knownInventory, doneSent>>

OutWrite ==
  /\ oState = "write"
  /\ Signal(oMsg)
  /\ \/ /\ sent' = IF disconnect THEN sent ELSE sent \o oMsg[1]
        /\ oState' = "sent" /\ UNCHANGED <<disconnect, oMsg>>
     \/ /\ ~disconnect
        /\ disconnect' = TRUE
        /\ oState' = "select" /\ oMsg' = <<>> /\ UNCHANGED sent
  /\ UNCHANGED <<callVars, outputQueue, outputInvChan, sendQueue, sendDoneQueue, stallControl, qVars,
                 iVars, sVars, knownInventory>>

OutSent ==
  /\ oState = "sent" /\ sendDoneQueue = 0
  /\ sendDoneQueue' = 1 /\ oState' = "select" /\ oMsg' = <<>>
  /\ UNCHANGED <<disconnect, callVars, outputQueue, outputInvChan, sendQueue, stallControl, qVars,
                 sent, iVars, sVars, knownInventory, doneSent>>

OutQuit ==
  /\ \/ oState = "select" /\ disconnect /\ oState' = "wait" /\ UNCHANGED <<sendQueue, doneSent>>
     \/ /\ oState = "wait" /\ queueQuit
        /\ Signal(sendQueue) /\ sendQueue' = <<>>
        /\ oState' = "done"
  /\ UNCHANGED <<disconnect, callVars, outputQueue, outputInvChan, sendDoneQueue, stallControl,
                 qVars, oMsg, sent, iVars, sVars, knownInventory>>

-----------------------------------------------------------------------------
\* inHandler.  It tells stallHandler of a message, of the start of its handler and
\* of its end.

\* A message, or an error.  An error that is not the end of the connection is
\* answered with a reject message.
InRead ==
  /\ iState = "read"
  /\ \/ disconnect /\ iState' = "out" /\ UNCHANGED reads
     \/ /\ ~disconnect
        /\ iState' \in {"out", "reject"}
        /\ UNCHANGED reads
     \/ /\ ~disconnect /\ reads < MaxReads
        /\ iState' = "receive" /\ reads' = reads + 1
  /\ UNCHANGED <<disconnect, callVars, outputQueue, outputInvChan, sendQueue, sendDoneQueue,
                 stallControl, qVars, oVars, sVars, knownInventory, doneSent>>

\* The handler of a message may find that it is out of place, as a second version
\* message is.  Handlers that queue answers are callers of QueueMessage.
InStall ==
  /\ iState \in {"receive", "start", "done?"}
  /\ stallControl = 0 /\ stallControl' = 1
  /\ \/ iState = "receive" /\ iState' = "start"
     \/ iState = "start" /\ iState' \in {"done?", "reject", "out"}
     \/ iState = "done?" /\ iState' = "read"
  /\ UNCHANGED <<disconnect, callVars, outputQueue, outputInvChan, sendQueue, sendDoneQueue, qVars,
                 oVars, reads, sVars, knownInventory, doneSent>>

InReject ==
  /\ iState = "reject" /\ call[Reject] = "returned"
  /\ iState' = "out"
  /\ UNCHANGED <<disconnect, callVars, outputQueue, outputInvChan, sendQueue, sendDoneQueue,
                 stallControl, qVars, oVars, reads, sVars, knownInventory, doneSent>>

InOut ==
  /\ iState = "out"
  /\ disconnect' = TRUE /\ iState' = "done"
  /\ UNCHANGED <<callVars, outputQueue, outputInvChan, sendQueue, sendDoneQueue, stallControl, qVars,
                 oVars, reads, sVars, knownInventory, doneSent>>

-----------------------------------------------------------------------------
\* stallHandler.  A closed channel can be received from again and again, so that
\* the second receive need not be from the other one.

StallReceive ==
  /\ sState \in {"select", "drain"} /\ stallControl = 1
  /\ stallControl' = 0
  /\ UNCHANGED <<disconnect, callVars, outputQueue, outputInvChan, sendQueue, sendDoneQueue, qVars,
                 oVars, iVars, sVars, knownInventory, doneSent>>

StallQuit ==
  /\ sState = "select" /\ (inQuit \/ outQuit)
  /\ IF ioStopped THEN sState' = "drain" /\ UNCHANGED ioStopped
     ELSE ioStopped' = TRUE /\ UNCHANGED sState
  /\ UNCHANGED <<disconnect, callVars, outputQueue, outputInvChan, sendQueue, sendDoneQueue,
                 stallControl, qVars, oVars, iVars, knownInventory, doneSent>>

StallDrained ==
  /\ sState = "drain" /\ stallControl = 0
  /\ sState' = "done"
  /\ UNCHANGED <<disconnect, callVars, outputQueue, outputInvChan, sendQueue, sendDoneQueue,
                 stallControl, qVars, oVars, iVars, ioStopped, knownInventory, doneSent>>

queueHandler == QueueOutput \/ QueueSend \/ QueueSendDone \/ QueueInv \/ Trickle \/ QueueQuit \/ QueueDrain
outHandler == OutTake \/ OutStall \/ OutWrite \/ OutSent \/ OutQuit
inHandler == InRead \/ InStall \/ InReject \/ InOut
stallHandler == StallReceive \/ StallQuit \/ StallDrained

Next ==
  \/ \E m \in AllMsgs : Queue(m) \/ SendOutput(m) \/ AwaitDone(m)
  \/ \E iv \in Invs : QueueInventory(iv)
  \/ ~disconnect /\ Disconnect
  \/ queueHandler \/ outHandler \/ inHandler \/ stallHandler

Spec == Init /\ [][Next]_vars

-----------------------------------------------------------------------------
TypeOK ==
  /\ disconnect \in BOOLEAN /\ waiting \in BOOLEAN /\ ioStopped \in BOOLEAN
  /\ call \in [AllMsgs -> {"idle", "connected", "waiting", "returned"}]
  /\ Len(outputQueue) <= outputBufferSize /\ Len(outputInvChan) <= outputBufferSize
  /\ Len(sendQueue) <= 1 /\ sendDoneQueue \in 0 .. 1 /\ stallControl \in 0 .. 1
  /\ qState \in {"select", "send", "drain", "done"}
  /\ oState \in {"select", "stall", "write", "sent", "wait", "done"}
  /\ iState \in {"read", "receive", "start", "done?", "reject", "out", "done"}
  /\ sState \in {"select", "drain", "done"}
  /\ knownInventory \subseteq Invs /\ reads \in 0 .. MaxReads

\* The flag waiting of queueHandler is right: at most one message is between it and
\* outHandler, so it never blocks on sendQueue; a doneChan, which has room for one
\* signal, is signalled once, whoever holds the message when the peer disconnects;
\* and messages are written in the order in which they were queued, none left out
\* before the connection ends.
OneInFlight ==
  /\ TypeOK
  /\ (IF qState = "send" THEN 1 ELSE 0) + Len(sendQueue) + Len(oMsg) + sendDoneQueue <= 1
  /\ \A m \in AllMsgs : doneSent[m] <= 1
  /\ IsPrefix(FoldLeft(LAMBDA s, m : IF m \in AllMsgs THEN Append(s, m) ELSE s, <<>>, sent), queued)

=============================================================================
