------------------------------ MODULE WsClient ------------------------------
(***************************************************************************)
(* The goroutines of one websocket client (rpcwebsocket.go): inHandler     *)
(* reads requests and starts a goroutine for each, notificationQueueHandler *)
(* queues notifications and has one at a time sent, outHandler writes.     *)
(* Whoever sends to the client looks whether it is disconnected and then   *)
(* sends on a channel without looking again.  Notifications are numbered   *)
(* in the order they enter ntfnChan; 0 is a reply.                         *)
(***************************************************************************)
EXTENDS Integers, Sequences, SequencesExt, FiniteSets

CONSTANTS
  Notifiers,                 \* notificationHandler, and the rescans of this client
  RPCMaxConcurrentReqs, websocketSendBufferSize,
  MaxNtfns, MaxRequests      \* bounds on what is sent

VARIABLES
  disconnected,
  ntfnChan, sendChan, ntfnSentChan,  \* the channels: one place, a buffer, one place
  notifier,                          \* every notifier: "idle", "connected" once it has looked
  requests, sem, passed,             \* goroutines that serve requests, those that have looked
  iState, nState, oState,            \* the three handlers: where each of them is
  pendingNtfns, waiting, nMsg,       \* the variables of notificationQueueHandler
  queued,
  written                            \* the notifications written to the connection

nVars == <<nState, pendingNtfns, waiting, nMsg>>
oVars == <<oState, written>>
iVars == <<iState, requests, sem, passed>>
vars == <<disconnected, ntfnChan, sendChan, ntfnSentChan, notifier, iVars, nVars, oVars, queued>>

Init ==
  /\ disconnected = FALSE
  /\ ntfnChan = <<>> /\ sendChan = <<>> /\ ntfnSentChan = 0
  /\ notifier = [n \in Notifiers |-> "idle"]
  /\ requests = 0 /\ sem = 0 /\ passed = 0
  /\ iState = "read" /\ nState = "select" /\ oState = "select"
  /\ pendingNtfns = <<>> /\ waiting = FALSE /\ nMsg = 0
  /\ queued = 0 /\ written = <<>>

\* The connection fails, the server shuts down, or a handler gives up.
Disconnect ==
  /\ ~disconnected /\ disconnected' = TRUE
  /\ UNCHANGED <<ntfnChan, sendChan, ntfnSentChan, notifier, iVars, nVars, oVars, queued>>

-----------------------------------------------------------------------------
\* QueueNotification: the look, and the send.
QueueNotification(n) ==
  /\ notifier[n] = "idle" /\ ~disconnected /\ queued < MaxNtfns
  /\ notifier' = [notifier EXCEPT ![n] = "connected"]
  /\ UNCHANGED <<disconnected, ntfnChan, sendChan, ntfnSentChan, iVars, nVars, oVars, queued>>

SendNtfn(n) ==
  /\ notifier[n] = "connected" /\ ntfnChan = <<>>
  /\ ntfnChan' = <<queued + 1>> /\ queued' = queued + 1
  /\ notifier' = [notifier EXCEPT ![n] = "idle"]
  /\ UNCHANGED <<disconnected, sendChan, ntfnSentChan, iVars, nVars, oVars>>

\* inHandler waits for a place in the semaphore before it starts a goroutine for a request.  To
\* what is not one, and to a batch, it replies itself.  It ends with the connection, or on a
\* reply to a batch that cannot be marshalled: that way it does not disconnect.
inHandler ==
  /\ iState = "read"
  /\ \/ /\ requests < MaxRequests /\ requests' = requests + 1
        /\ \/ sem < RPCMaxConcurrentReqs /\ sem' = sem + 1 /\ UNCHANGED iState
           \/ ~disconnected /\ iState' = "connected" /\ UNCHANGED sem
        /\ UNCHANGED disconnected
     \/ iState' = "done" /\ disconnected' = TRUE /\ UNCHANGED <<requests, sem>>
     \/ ~disconnected /\ iState' = "left" /\ UNCHANGED <<disconnected, requests, sem>>
  /\ UNCHANGED <<ntfnChan, sendChan, ntfnSentChan, notifier, passed, nVars, oVars, queued>>

InReply ==
  /\ iState = "connected" /\ Len(sendChan) < websocketSendBufferSize
  /\ sendChan' = Append(sendChan, 0) /\ iState' = "read"
  /\ UNCHANGED <<disconnected, ntfnChan, ntfnSentChan, notifier, requests, sem, passed, nVars, oVars, queued>>

\* serviceRequest ends with SendMessage, the look and the send, if the reply can be marshalled.
serviceRequest ==
  /\ sem > passed
  /\ \/ sem' = sem - 1 /\ UNCHANGED passed
     \/ ~disconnected /\ passed' = passed + 1 /\ UNCHANGED sem
  /\ UNCHANGED <<disconnected, ntfnChan, sendChan, ntfnSentChan, notifier, iState, requests, nVars, oVars,
                 queued>>

SendReply ==
  /\ passed > 0 /\ Len(sendChan) < websocketSendBufferSize
  /\ sendChan' = Append(sendChan, 0)
  /\ passed' = passed - 1 /\ sem' = sem - 1
  /\ UNCHANGED <<disconnected, ntfnChan, ntfnSentChan, notifier, iState, requests, nVars, oVars, queued>>

-----------------------------------------------------------------------------
\* notificationQueueHandler.  waiting says that a notification is with outHandler.
NextToSend(m) == nMsg' = m /\ nState' = "send"

NtfnQueued ==
  /\ nState = "select" /\ ntfnChan # <<>>
  /\ ntfnChan' = <<>> /\ waiting' = TRUE
  /\ IF waiting THEN pendingNtfns' = pendingNtfns \o ntfnChan /\ UNCHANGED <<nState, nMsg>>
     ELSE NextToSend(ntfnChan[1]) /\ UNCHANGED pendingNtfns
  /\ UNCHANGED <<disconnected, sendChan, ntfnSentChan, notifier, iVars, oVars, queued>>

NtfnSent ==
  /\ nState = "select" /\ ntfnSentChan = 1
  /\ ntfnSentChan' = 0
  /\ IF pendingNtfns = <<>> THEN waiting' = FALSE /\ UNCHANGED <<nState, nMsg, pendingNtfns>>
     ELSE /\ NextToSend(Head(pendingNtfns)) /\ pendingNtfns' = Tail(pendingNtfns) /\ UNCHANGED waiting
  /\ UNCHANGED <<disconnected, ntfnChan, sendChan, notifier, iVars, oVars, queued>>

\* SendMessage of a notification: the look, then the send or the answer that it was not sent.
SendMessage ==
  /\ nState = "send"
  /\ \/ /\ disconnected /\ ntfnSentChan = 0
        /\ ntfnSentChan' = 1 /\ nState' = "select"
     \/ /\ ~disconnected /\ nState' = "connected" /\ UNCHANGED ntfnSentChan
  /\ UNCHANGED <<disconnected, ntfnChan, sendChan, notifier, iVars, pendingNtfns, waiting, nMsg, oVars, queued>>

SendConnected ==
  /\ nState = "connected" /\ Len(sendChan) < websocketSendBufferSize
  /\ sendChan' = Append(sendChan, nMsg) /\ nState' = "select"
  /\ UNCHANGED <<disconnected, ntfnChan, ntfnSentChan, notifier, iVars, pendingNtfns, waiting, nMsg, oVars,
                 queued>>

\* The drain takes what is in the channels until it finds both empty.
NtfnQuit ==
  /\ nState = "select" /\ disconnected /\ nState' = "drain"
  /\ UNCHANGED <<disconnected, ntfnChan, sendChan, ntfnSentChan, notifier, iVars, pendingNtfns, waiting, nMsg,
                 oVars, queued>>
NtfnDrain ==
  /\ nState = "drain"
  /\ \/ ntfnChan # <<>> /\ ntfnChan' = <<>> /\ UNCHANGED <<ntfnSentChan, nState>>
     \/ ntfnSentChan = 1 /\ ntfnSentChan' = 0 /\ UNCHANGED <<ntfnChan, nState>>
     \/ ntfnChan = <<>> /\ ntfnSentChan = 0 /\ nState' = "done" /\ UNCHANGED <<ntfnChan, ntfnSentChan>>
  /\ UNCHANGED <<disconnected, sendChan, notifier, iVars, pendingNtfns, waiting, nMsg, oVars, queued>>

-----------------------------------------------------------------------------
\* outHandler.  A write that fails ends the client.
outHandler ==
  /\ oState = "select" /\ sendChan # <<>>
  /\ sendChan' = Tail(sendChan)
  /\ \/ /\ ~disconnected /\ UNCHANGED disconnected
        /\ IF Head(sendChan) = 0 THEN UNCHANGED <<oState, written>>
           ELSE written' = Append(written, Head(sendChan)) /\ oState' = "signal"
     \/ disconnected' = TRUE /\ oState' = "drain" /\ UNCHANGED written
  /\ UNCHANGED <<ntfnChan, ntfnSentChan, notifier, iVars, nVars, queued>>

OutSignal ==
  /\ oState = "signal" /\ ntfnSentChan = 0
  /\ ntfnSentChan' = 1 /\ oState' = "select"
  /\ UNCHANGED <<disconnected, ntfnChan, sendChan, notifier, iVars, nVars, written, queued>>

OutQuit ==
  /\ oState = "select" /\ disconnected /\ oState' = "drain"
  /\ UNCHANGED <<disconnected, ntfnChan, sendChan, ntfnSentChan, notifier, iVars, nVars, written, queued>>
OutDrain ==
  /\ oState = "drain"
  /\ \/ /\ sendChan # <<>> /\ sendChan' = Tail(sendChan)
        /\ IF Head(sendChan) = 0 THEN UNCHANGED ntfnSentChan ELSE ntfnSentChan = 0 /\ ntfnSentChan' = 1
        /\ UNCHANGED oState
     \/ sendChan = <<>> /\ oState' = "done" /\ UNCHANGED <<sendChan, ntfnSentChan>>
  /\ UNCHANGED <<disconnected, ntfnChan, notifier, iVars, nVars, written, queued>>

Next ==
  \/ Disconnect
  \/ \E n \in Notifiers : QueueNotification(n) \/ SendNtfn(n)
  \/ inHandler \/ InReply \/ serviceRequest \/ SendReply
  \/ NtfnQueued \/ NtfnSent \/ SendMessage \/ SendConnected \/ NtfnQuit \/ NtfnDrain
  \/ outHandler \/ OutSignal \/ OutQuit \/ OutDrain

Spec == Init /\ [][Next]_vars

-----------------------------------------------------------------------------
\* Notifications reach the connection in the order they were queued, none missing before the
\* last one, whatever replies are written between them.
NtfnsInOrder == written = [k \in DOMAIN written |-> k]

\* The channel that says a notification is sent has room whenever it is signalled: one
\* notification at most is under way.
OneSignal ==
  /\ oState = "signal" => ntfnSentChan = 0
  /\ oState = "drain" /\ sendChan # <<>> /\ Head(sendChan) > 0 => ntfnSentChan = 0
  /\ nState = "send" => ntfnSentChan = 0

\* No goroutine is left waiting for the client to take a reply or a notification it no longer
\* reads: the senders that had looked before the end fit the buffer.  Of the notifiers all but
\* one can be left at ntfnChan, which has one place.
SendersEnd ==
  /\ oState = "done" => Len(sendChan) + passed + Cardinality({s \in {<<"in", iState>>, <<"ntfn", nState>>} : s[2] = "connected"})
                       <= websocketSendBufferSize
  /\ nState = "done" /\ ntfnChan # <<>> =>
       \E n \in Notifiers : notifier[n] = "idle"

=============================================================================
