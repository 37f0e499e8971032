------------------------------ MODULE PeerStall ------------------------------
(***************************************************************************)
(* The deadlines of a peer's answers (peer.go, maybeAddDeadline and          *)
(* stallHandler).  A message that expects an answer sets a deadline, every   *)
(* tick looks for one that has passed, and the time the handlers of received *)
(* messages take is added to the deadlines, because an answer cannot be read *)
(* meanwhile.  Messages wait unread in the connection while a handler runs.  *)
(***************************************************************************)
EXTENDS Integers, Sequences

CONSTANTS
  Requests,              \* commands that are sent
  Answers,               \* commands that arrive
  ResponseTimeout,       \* stallResponseTimeout
  TickInterval,          \* stallTickInterval
  MaxTime,               \* a bound on the clock
  MaxUnread,             \* a bound on the messages in the connection
  None                   \* no deadline

VARIABLES
  now, pendingResponses, handlerActive, handlersStartTime, deadlineOffset, disconnected,
  unread,                \* the commands that arrived and were not read
  handlerEnded           \* history: when a handler was last active

vars == <<now, pendingResponses, handlerActive, handlersStartTime, deadlineOffset, disconnected,
          unread, handlerEnded>>

\* The answers one of which a command expects, and how long it may take.
Expected(command) ==
  CASE command = "version"   -> {"verack"}
    [] command \in {"mempool", "getblocks"} -> {"inv"}
    [] command = "getdata"   -> {"block", "merkleblock", "tx", "notfound"}
    [] command = "getheaders" -> {"headers"}
    [] OTHER -> {}
Timeout(command) == IF command = "getheaders" THEN 3 * ResponseTimeout ELSE ResponseTimeout

Init ==
  /\ now = 0 /\ pendingResponses = [a \in Answers |-> None]
  /\ handlerActive = FALSE /\ handlersStartTime = 0 /\ deadlineOffset = 0
  /\ disconnected = FALSE /\ unread = <<>> /\ handlerEnded = 0

maybeAddDeadline(command) ==
  pendingResponses' = [a \in Answers |-> IF a \in Expected(command) THEN now + Timeout(command)
                                         ELSE pendingResponses[a]]

\* sccSendMessage, from outHandler.
SendMessage(command) ==
  /\ ~disconnected
  /\ maybeAddDeadline(command)
  /\ UNCHANGED <<now, handlerActive, handlersStartTime, deadlineOffset, disconnected, unread,
                 handlerEnded>>

Arrive(answer) ==
  /\ ~disconnected /\ Len(unread) < MaxUnread
  /\ unread' = Append(unread, answer)
  /\ UNCHANGED <<now, pendingResponses, handlerActive, handlersStartTime, deadlineOffset,
                 disconnected, handlerEnded>>

\* Any answer to a getdata message clears all four.
Cleared(answer) ==
  IF answer \in Expected("getdata") THEN Expected("getdata") ELSE {answer}

\* inHandler reads a message: sccReceiveMessage and sccHandlerStart.
ReceiveMessage ==
  /\ ~disconnected /\ unread # <<>> /\ ~handlerActive
  /\ unread' = Tail(unread)
  /\ pendingResponses' = [a \in Answers |-> IF a \in Cleared(Head(unread)) THEN None
                                            ELSE pendingResponses[a]]
  /\ handlerActive' = TRUE /\ handlersStartTime' = now
  /\ handlerEnded' = now
  /\ UNCHANGED <<now, deadlineOffset, disconnected>>

\* sccHandlerDone.
HandlerDone ==
  /\ ~disconnected /\ handlerActive
  /\ deadlineOffset' = deadlineOffset + (now - handlersStartTime)
  /\ handlerActive' = FALSE
  /\ handlerEnded' = now
  /\ UNCHANGED <<now, pendingResponses, handlersStartTime, disconnected, unread>>

\* The clock advances, and ticks.  A handler that can be started is started first.
Offset(t) == deadlineOffset + (IF handlerActive THEN t - handlersStartTime ELSE 0)
Overdue(t) == {a \in Answers : pendingResponses[a] # None /\ t >= pendingResponses[a] + Offset(t)}
\* Faulty variant of StallTick: the offset is never reset.
StallTickKeepsOffset ==
  /\ ~disconnected /\ now < MaxTime
  /\ handlerActive \/ unread = <<>>
  /\ now' = now + 1
  /\ IF now' % TickInterval = 0
     THEN disconnected' = (Overdue(now') # {})
     ELSE UNCHANGED disconnected
  /\ handlerEnded' = IF handlerActive THEN now' ELSE handlerEnded
  /\ UNCHANGED <<deadlineOffset, pendingResponses, handlerActive, handlersStartTime, unread>>
StallTick ==
  /\ ~disconnected /\ now < MaxTime
  /\ handlerActive \/ unread = <<>>
  /\ now' = now + 1
  /\ IF now' % TickInterval = 0
     THEN disconnected' = (Overdue(now') # {}) /\ deadlineOffset' = 0
     ELSE UNCHANGED <<disconnected, deadlineOffset>>
  /\ handlerEnded' = IF handlerActive THEN now' ELSE handlerEnded
  /\ UNCHANGED <<pendingResponses, handlerActive, handlersStartTime, unread>>

Next ==
  \/ \E c \in Requests : SendMessage(c)
  \/ \E a \in Answers : Arrive(a)
  \/ ReceiveMessage \/ HandlerDone \/ StallTick

Spec == Init /\ [][Next]_vars

-----------------------------------------------------------------------------
\* A peer that owes an answer is disconnected: a deadline that has passed by two
\* ticks is found unless a handler was active in the meantime, whatever other
\* messages the peer sent and however long they took to handle before.
StallNoticed ==
  ~disconnected => \A a \in Answers :
    pendingResponses[a] # None =>
      \/ now < pendingResponses[a] + 2 * TickInterval
      \/ now - handlerEnded <= 2 * TickInterval

=============================================================================
