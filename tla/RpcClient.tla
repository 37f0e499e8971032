------------------------------ MODULE RpcClient ------------------------------
(***************************************************************************)
(* The websocket client (rpcclient/infrastructure.go).  A request is kept in *)
(* requestList until its answer arrives; sendChan takes it to the output     *)
(* handler.  When the connection ends the reconnect handler dials again,     *)
(* starts new handlers and a goroutine that registers for notifications anew *)
(* and then resends what is in requestList.  The handlers of an earlier      *)
(* connection may still run, and they use whatever connection is current.    *)
(***************************************************************************)
EXTENDS Integers, Sequences, SequencesExt, FiniteSets

CONSTANTS
  Requests,        \* the calls of the client's methods, each made once
  Notify,          \* those that register for notifications
  Rescan,          \* those with a method in ignoreResends
  MaxConns,        \* a bound on the connections
  sendBufferSize

VARIABLES
  call,            \* SendCmd of every request: "idle", "sending" or "returned"
  answers,         \* how many responses its future was given
  requestList,
  ntfnState,       \* the registrations that were answered
  autoReconnect,   \* ~DisableAutoReconnect, of the configuration
  cur, disconnected, dialing, shutdown,
  broken,          \* connections that failed or were closed
  sendChan,
  outH, inH, reading,  \* the output and the input handler of every connection
  resend, resendReqs,  \* resendRequests of every connection
  got,             \* history: what the server received on every connection
  replied          \* the positions of got that the server answered

reqVars == <<call, answers, requestList, ntfnState>>
connVars == <<autoReconnect, cur, disconnected, dialing, shutdown, broken>>
hVars == <<outH, inH, reading>>
rVars == <<resend, resendReqs>>
sVars == <<got, replied>>
vars == <<reqVars, connVars, sendChan, hVars, rVars, sVars>>

Conns == 1 .. MaxConns
\* The request with which resendRequests of connection h registers again.
Again(h) == <<h>>
Ids == Requests \cup {Again(h) : h \in Conns}
Registers(r) == r \in Notify \/ r \in {Again(h) : h \in Conns}

Init ==
  /\ call = [r \in Ids |-> "idle"] /\ answers = [r \in Ids |-> 0]
  /\ requestList = <<>> /\ ntfnState = FALSE
  /\ autoReconnect \in BOOLEAN
  /\ cur = 1 /\ disconnected = FALSE /\ dialing = FALSE /\ shutdown = FALSE /\ broken = {}
  /\ sendChan = <<>>
  /\ outH = [h \in Conns |-> IF h = 1 THEN "run" ELSE "none"]
  /\ inH = [h \in Conns |-> IF h = 1 THEN "loop" ELSE "none"]
  /\ reading = [h \in Conns |-> 0]
  /\ resend = [h \in Conns |-> "none"] /\ resendReqs = [h \in Conns |-> <<>>]
  /\ got = [h \in Conns |-> <<>>] /\ replied = [h \in Conns |-> {}]

Listed(r) == \E i \in DOMAIN requestList : requestList[i] = r
Without(s, R) == FoldLeft(LAMBDA t, r : IF r \in R THEN t ELSE Append(t, r), <<>>, s)

-----------------------------------------------------------------------------
\* SendCmd: addRequest, and then sendMessage.

AddRequest(r) ==
  /\ answers' = IF shutdown THEN [answers EXCEPT ![r] = @ + 1] ELSE answers
  /\ requestList' = IF shutdown THEN requestList ELSE Append(requestList, r)
  /\ call' = [call EXCEPT ![r] = IF shutdown THEN "returned" ELSE "sending"]

SendCmd(r) ==
  /\ call[r] = "idle"
  /\ AddRequest(r)
  /\ UNCHANGED <<ntfnState, connVars, sendChan, hVars, rVars, sVars>>

\* sendMessage: into sendChan or, when the client is disconnected, nowhere.
Put(r) ==
  \/ Len(sendChan) < sendBufferSize /\ sendChan' = Append(sendChan, r)
  \/ disconnected /\ UNCHANGED sendChan

SendMessage(r) ==
  /\ call[r] = "sending"
  /\ Put(r)
  /\ call' = [call EXCEPT ![r] = "returned"]
  /\ UNCHANGED <<answers, requestList, ntfnState, connVars, hVars, rVars, sVars>>

-----------------------------------------------------------------------------
\* doDisconnect closes the current connection, whoever calls it.
doDisconnect ==
  IF disconnected THEN UNCHANGED <<disconnected, broken>>
  ELSE disconnected' = TRUE /\ broken' = broken \cup {cur}

\* The responses of removeAllRequests, for all that is listed.
AnswerAll ==
  /\ answers' = [r \in Ids |-> IF Listed(r) THEN answers[r] + 1 ELSE answers[r]]
  /\ requestList' = <<>>

\* The rest of Disconnect when the client does not reconnect.
DisconnectEnd ==
  /\ ~autoReconnect /\ disconnected /\ ~shutdown
  /\ AnswerAll /\ shutdown' = TRUE
  /\ UNCHANGED <<call, ntfnState, autoReconnect, cur, disconnected, dialing, broken, sendChan, hVars, rVars, sVars>>

Shutdown ==
  /\ ~shutdown /\ shutdown' = TRUE
  /\ AnswerAll /\ doDisconnect
  /\ UNCHANGED <<call, ntfnState, autoReconnect, cur, dialing, sendChan, hVars, rVars, sVars>>

\* The connection fails.
Break ==
  /\ cur \notin broken
  /\ broken' = broken \cup {cur}
  /\ UNCHANGED <<reqVars, autoReconnect, cur, disconnected, dialing, shutdown, sendChan, hVars, rVars, sVars>>

-----------------------------------------------------------------------------
\* wsOutHandler.

OutSend(h) ==
  /\ outH[h] = "run" /\ sendChan # <<>>
  /\ sendChan' = Tail(sendChan)
  /\ IF cur \in broken
     THEN doDisconnect /\ outH' = [outH EXCEPT ![h] = "drain"] /\ UNCHANGED got
     ELSE /\ got' = [got EXCEPT ![cur] = Append(@, Head(sendChan))]
          /\ UNCHANGED <<disconnected, broken, outH>>
  /\ UNCHANGED <<reqVars, autoReconnect, cur, dialing, shutdown, inH, reading, rVars, replied>>

OutQuit(h) ==
  /\ \/ outH[h] = "run" /\ disconnected /\ outH' = [outH EXCEPT ![h] = "drain"]
        /\ UNCHANGED sendChan
     \/ outH[h] = "drain" /\ outH' = [outH EXCEPT ![h] = "end"] /\ sendChan' = <<>>
  /\ UNCHANGED <<reqVars, connVars, inH, reading, rVars, sVars>>

\* wsInHandler and handleMessage.

InLoop(h) ==
  /\ inH[h] = "loop"
  /\ IF shutdown THEN doDisconnect /\ inH' = [inH EXCEPT ![h] = "end"] /\ UNCHANGED reading
     ELSE /\ reading' = [reading EXCEPT ![h] = cur] /\ inH' = [inH EXCEPT ![h] = "read"]
          /\ UNCHANGED <<disconnected, broken>>
  /\ UNCHANGED <<reqVars, autoReconnect, cur, dialing, shutdown, sendChan, outH, rVars, sVars>>

InReceive(h) ==
  LET n == reading[h] IN
  /\ inH[h] = "read" /\ n \notin broken
  /\ \E i \in DOMAIN got[n] \ replied[n] :
     LET r == got[n][i] IN
     /\ replied' = [replied EXCEPT ![n] = @ \cup {i}]
     /\ requestList' = Without(requestList, {r})
     /\ answers' = IF Listed(r) THEN [answers EXCEPT ![r] = @ + 1] ELSE answers
     /\ ntfnState' = (ntfnState \/ (Listed(r) /\ Registers(r)))
  /\ inH' = [inH EXCEPT ![h] = "loop"]
  /\ UNCHANGED <<call, connVars, sendChan, outH, reading, rVars, got>>

InFail(h) ==
  /\ inH[h] = "read" /\ reading[h] \in broken
  /\ doDisconnect /\ inH' = [inH EXCEPT ![h] = "end"]
  /\ UNCHANGED <<reqVars, autoReconnect, cur, dialing, shutdown, sendChan, outH, reading, rVars, sVars>>

-----------------------------------------------------------------------------
\* wsReconnectHandler.  It looks at shutdown before it dials, not after.

Dial ==
  /\ autoReconnect /\ disconnected /\ ~dialing /\ ~shutdown /\ cur < MaxConns
  /\ dialing' = TRUE
  /\ UNCHANGED <<reqVars, autoReconnect, cur, disconnected, shutdown, broken, sendChan, hVars, rVars, sVars>>

Reconnect ==
  /\ dialing /\ dialing' = FALSE
  /\ cur' = cur + 1 /\ disconnected' = FALSE
  /\ outH' = [outH EXCEPT ![cur'] = "run"] /\ inH' = [inH EXCEPT ![cur'] = "loop"]
  /\ resend' = [resend EXCEPT ![cur'] = "reregister"]
  /\ UNCHANGED <<reqVars, autoReconnect, shutdown, broken, sendChan, reading, resendReqs, sVars>>

\* resendRequests: reregisterNtfns waits for an answer.  An error is one of the
\* shutdown, and disconnects.
Reregister(h) ==
  /\ resend[h] = "reregister"
  /\ IF ntfnState
     THEN AddRequest(Again(h)) /\ resend' = [resend EXCEPT ![h] = "wait"]
     ELSE resend' = [resend EXCEPT ![h] = "copy"] /\ UNCHANGED <<call, answers, requestList>>
  /\ UNCHANGED <<ntfnState, connVars, sendChan, hVars, resendReqs, sVars>>

Reregistered(h) ==
  /\ resend[h] = "wait" /\ answers[Again(h)] > 0
  /\ IF shutdown THEN doDisconnect /\ resend' = [resend EXCEPT ![h] = "gone"]
     ELSE resend' = [resend EXCEPT ![h] = "copy"] /\ UNCHANGED <<disconnected, broken>>
  /\ UNCHANGED <<reqVars, autoReconnect, cur, dialing, shutdown, sendChan, hVars, resendReqs, sVars>>

ResendCopy(h) ==
  /\ resend[h] = "copy"
  /\ resendReqs' = [resendReqs EXCEPT ![h] = Without(requestList, Rescan)]
  /\ requestList' = Without(requestList, Rescan)
  /\ resend' = [resend EXCEPT ![h] = "send"]
  /\ UNCHANGED <<call, answers, ntfnState, connVars, sendChan, hVars, sVars>>

ResendSend(h) ==
  /\ resend[h] = "send"
  /\ IF resendReqs[h] = <<>> THEN resend' = [resend EXCEPT ![h] = "done"]
                                  /\ UNCHANGED <<sendChan, resendReqs>>
     ELSE \/ disconnected /\ resend' = [resend EXCEPT ![h] = "gone"]
             /\ UNCHANGED <<sendChan, resendReqs>>
          \/ /\ ~disconnected /\ Put(Head(resendReqs[h]))
             /\ resendReqs' = [resendReqs EXCEPT ![h] = Tail(@)] /\ UNCHANGED resend
  /\ UNCHANGED <<reqVars, connVars, hVars, sVars>>

Next ==
  \/ \E r \in Requests : SendCmd(r)
  \/ \E r \in Ids : SendMessage(r)
  \/ DisconnectEnd \/ Shutdown \/ Break \/ Dial \/ Reconnect
  \/ \E h \in Conns : OutSend(h) \/ OutQuit(h) \/ InLoop(h) \/ InReceive(h) \/ InFail(h)
                       \/ Reregister(h) \/ Reregistered(h) \/ ResendCopy(h) \/ ResendSend(h)

Spec == Init /\ [][Next]_vars

-----------------------------------------------------------------------------
\* A future is answered once at most, though a request may be sent more than once
\* and on several connections, so that no handler blocks on it; and a request that
\* is not answered stays in requestList, from which a reconnect or a shutdown will
\* answer it.  Only a rescan is given up by a reconnect.
FuturesTracked ==
  \A r \in Ids :
    /\ answers[r] <= 1
    /\ call[r] # "idle" /\ answers[r] = 0 => Listed(r) \/ r \in Rescan
    /\ Listed(r) => answers[r] = 0

\* When resendRequests has done its work, the server knows on the current connection
\* what the client was registered for.
NtfnsRestored ==
  resend[cur] = "done" /\ ~disconnected /\ ntfnState =>
    \E i \in DOMAIN got[cur] : Registers(got[cur][i])


=============================================================================
