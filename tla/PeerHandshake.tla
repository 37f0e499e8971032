---------------------------- MODULE PeerHandshake ----------------------------
(***************************************************************************)
(* The negotiation of a connection between two nodes that run this code:     *)
(* one end is outbound, the other inbound (peer.go).  Each end writes its    *)
(* version, sendaddrv2 and verack messages and reads those of the other end; *)
(* it can time out at any time.  Another program on the line is a message    *)
(* that this code does not send during a negotiation.                        *)
(***************************************************************************)
EXTENDS Integers, Sequences

CONSTANTS
  Versions,                      \* the protocol versions an end may advertise
  MinAcceptableProtocolVersion, AddrV2Version,
  MaxForeign                     \* a bound on messages of other programs

VARIABLES
  version,          \* cfg.ProtocolVersion
  self,             \* the two ends are of one process
  segwitActive,     \* of the chain
  witness, network, \* the ends that offer SFNodeWitness and SFNodeNetwork
  step,             \* what each end does next
  line,             \* the messages on their way to each end
  disconnect,       \* the ends that called Disconnect
  protocolVersion, versionKnown, sendAddrV2, verAckReceived,
  added,            \* how often OnVerAck called AddPeer
  foreign

config == <<version, self, segwitActive, witness, network>>
vars == <<config, step, line, disconnect, protocolVersion, versionKnown, sendAddrV2,
          verAckReceived, added, foreign>>

Ends == {"in", "out"}
Other(e) == IF e = "in" THEN "out" ELSE "in"
Min2(a, b) == IF a < b THEN a ELSE b

negotiateInboundProtocol == <<"read", "version", "sendaddrv2", "verack", "wait", "ready">>
negotiateOutboundProtocol == <<"version", "read", "sendaddrv2", "verack", "wait", "ready">>
Steps(e) == IF e = "in" THEN negotiateInboundProtocol ELSE negotiateOutboundProtocol
Doing(e, s) == e \notin disconnect /\ Steps(e)[step[e]] = s
Advance(e) == step' = [step EXCEPT ![e] = @ + 1]

Init ==
  /\ version \in [Ends -> Versions] /\ self \in BOOLEAN /\ segwitActive \in BOOLEAN
  /\ witness \in SUBSET Ends /\ network \in SUBSET Ends
  /\ step = [e \in Ends |-> 1] /\ line = [e \in Ends |-> <<>>] /\ disconnect = {}
  /\ protocolVersion = version /\ versionKnown = {} /\ sendAddrV2 = {} /\ verAckReceived = {}
  /\ added = [e \in Ends |-> 0] /\ foreign = 0

Put(e, message) == line' = [line EXCEPT ![Other(e)] = Append(@, message)]
Fail(e) ==
  /\ disconnect' = disconnect \cup {e}
  /\ UNCHANGED <<step, protocolVersion, versionKnown, sendAddrV2, verAckReceived, added>>

\* A write of the version, of sendaddrv2 and of verack.
Write(e) ==
  /\ e \notin disconnect
  /\ LET s == Steps(e)[step[e]] IN
     /\ s \in {"version", "sendaddrv2", "verack"}
     /\ Advance(e)
     /\ IF s = "sendaddrv2" /\ protocolVersion[e] < AddrV2Version THEN UNCHANGED line
        ELSE Put(e, s)
  /\ UNCHANGED <<config, disconnect, protocolVersion, versionKnown, sendAddrV2, verAckReceived,
                 added, foreign>>

\* OnVersion of the server: an outbound peer needs the services of a full node, and
\* those of a witness node, in which case the peer is disconnected without a reject.
OnVersionRejects(e) == version[Other(e)] >= MinAcceptableProtocolVersion
                         /\ e = "out" /\ Other(e) \notin network
OnVersionDisconnects(e) == version[Other(e)] >= MinAcceptableProtocolVersion
                         /\ e = "out" /\ segwitActive /\ Other(e) \notin witness

\* Faulty variant of Negotiated: the version that was advertised by the other end.
NegotiatedAdvertised(e) == version[Other(e)]
Negotiated(e) == Min2(protocolVersion[e], version[Other(e)])

readRemoteVersionMsg(e) ==
  /\ Doing(e, "read") /\ line[e] # <<>>
  /\ IF Head(line[e]) # "version" \/ self
     THEN /\ Fail(e)
          /\ line' = [line EXCEPT ![e] = Tail(@),
                        ![Other(e)] = IF Head(line[e]) # "version" THEN Append(@, "reject") ELSE @]
     ELSE /\ protocolVersion' = [protocolVersion EXCEPT ![e] = Negotiated(e)]
          /\ versionKnown' = versionKnown \cup {e}
          /\ IF OnVersionRejects(e) \/ version[Other(e)] < MinAcceptableProtocolVersion
             THEN /\ disconnect' = disconnect \cup {e}
                  /\ line' = [line EXCEPT ![e] = Tail(@), ![Other(e)] = Append(@, "reject")]
                  /\ UNCHANGED step
             ELSE /\ line' = [line EXCEPT ![e] = Tail(@)]
                  /\ IF OnVersionDisconnects(e)
                     THEN disconnect' = disconnect \cup {e} /\ UNCHANGED step
                     ELSE Advance(e) /\ UNCHANGED disconnect
          /\ UNCHANGED <<sendAddrV2, verAckReceived, added>>
  /\ UNCHANGED <<config, foreign>>

\* Unknown messages are skipped; anything but sendaddrv2 and verack is an error.
waitToFinishNegotiation(e) ==
  /\ Doing(e, "wait") /\ line[e] # <<>>
  /\ line' = [line EXCEPT ![e] = Tail(@)]
  /\ LET m == Head(line[e]) IN
     \/ /\ m = "unknown"
        /\ UNCHANGED <<step, disconnect, protocolVersion, versionKnown, sendAddrV2, verAckReceived,
                       added>>
     \/ /\ m = "sendaddrv2"
        /\ sendAddrV2' = IF protocolVersion[e] >= AddrV2Version THEN sendAddrV2 \cup {e}
                         ELSE sendAddrV2
        /\ UNCHANGED <<step, disconnect, protocolVersion, versionKnown, verAckReceived, added>>
     \/ /\ m = "verack"
        /\ verAckReceived' = verAckReceived \cup {e}
        /\ added' = [added EXCEPT ![e] = @ + 1]
        /\ Advance(e)
        /\ UNCHANGED <<disconnect, protocolVersion, versionKnown, sendAddrV2>>
     \/ m \notin {"unknown", "sendaddrv2", "verack"} /\ Fail(e)
  /\ UNCHANGED <<config, foreign>>

\* negotiateTimeout in start, or a read or write that fails: the other end may have
\* closed the connection, with messages in it or without.
Timeout(e) ==
  /\ e \notin disconnect
  /\ Fail(e)
  /\ UNCHANGED <<config, line, foreign>>

Foreign(e, message) ==
  /\ foreign < MaxForeign /\ foreign' = foreign + 1
  /\ line' = [line EXCEPT ![e] = Append(@, message)]
  /\ UNCHANGED <<config, step, disconnect, protocolVersion, versionKnown, sendAddrV2,
                 verAckReceived, added>>

Next == \E e \in Ends :
  \/ Write(e) \/ readRemoteVersionMsg(e) \/ waitToFinishNegotiation(e) \/ Timeout(e)
  \/ \E m \in {"unknown", "getaddr"} : Foreign(e, m)

Spec == Init /\ [][Next]_vars

-----------------------------------------------------------------------------
\* An end is ready only if the other end accepted its version, so the two are not
\* one process and neither is too old; when both are ready they use one protocol
\* version, and version 2 addresses exactly if that version has them.  AddPeer is
\* called once, for an end that knows the version and received a verack.
Ready(e) == Steps(e)[step[e]] = "ready"
HandshakeAgrees ==
  /\ \A e \in Ends :
       /\ added[e] <= 1
       /\ added[e] = 1 <=> e \in verAckReceived
       /\ Ready(e) => /\ ~self /\ Ends \subseteq versionKnown
                      /\ \A f \in Ends : version[f] >= MinAcceptableProtocolVersion
                      /\ "in" \in network /\ (segwitActive => "in" \in witness)
  /\ (\A e \in Ends : Ready(e)) =>
       \A e \in Ends :
         /\ protocolVersion[e] = Min2(version["in"], version["out"])
         /\ e \in sendAddrV2 <=> protocolVersion[e] >= AddrV2Version
=============================================================================
