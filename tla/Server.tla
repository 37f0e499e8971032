------------------------------- MODULE Server -------------------------------
(***************************************************************************)
(* The life of a connection in the server (server.go).  The negotiation of a *)
(* peer hands it to peerHandler, which owns the lists of peers, the counts   *)
(* of outbound groups and the banned hosts; peerDoneHandler waits for the    *)
(* peer's end and tells peerHandler, and then the sync manager, of it.  RPC  *)
(* queries disconnect peers from within peerHandler.  The channels are       *)
(* buffered, and peerHandler takes from any of them.                         *)
(***************************************************************************)
EXTENDS Integers, Sequences, FiniteSets, SequencesExt

CONSTANTS
  Peers,           \* connections; each is a serverPeer of its own
  Inbound, Persistent,
  Group,           \* addrmgr.GroupKey of the address, for outbound peers
  Host,            \* the address without its port
  Misbehaving,     \* the peers that addBanScore bans
  MaxPeers,        \* also the capacity of the channels
  None             \* nil

VARIABLES
  connected,       \* Peer.Connected
  verAckReceived,
  listed,          \* the peers in inboundPeers, outboundPeers and persistentPeers
  outboundGroups, banned,
  newPeers, donePeers, banPeers,  \* channels
  banning,         \* peers that addBanScore is banning: it disconnects them next
  adding,          \* the peer of the handleAddPeerMsg that is under way
  ended,           \* peerDoneHandler of each peer
  released,        \* history: calls of connManager.Disconnect and Remove for a peer
  peerStates,      \* the peers of the sync manager, once it has its messages
  quit             \* the server is shutting down; peerHandler has drained its channels

lists == <<listed, outboundGroups, banned>>
vars == <<connected, verAckReceived, lists, newPeers, donePeers, banPeers, banning, adding, ended,
          released, peerStates, quit>>

Groups == {Group[p] : p \in Peers \ Inbound}
Outbound == Peers \ Inbound

Init ==
  /\ connected = Peers /\ verAckReceived = {}
  /\ listed = {} /\ outboundGroups = [g \in Groups |-> 0] /\ banned = {}
  /\ newPeers = <<>> /\ donePeers = <<>> /\ banPeers = <<>> /\ banning = {}
  /\ adding = None /\ ended = [p \in Peers |-> "waits"]
  /\ released = [p \in Peers |-> 0]
  /\ peerStates = {} /\ quit = FALSE

-----------------------------------------------------------------------------
\* The goroutines of a peer.

OnVerAck(p) ==
  /\ p \in connected /\ p \notin verAckReceived /\ Len(newPeers) < MaxPeers
  /\ verAckReceived' = verAckReceived \cup {p}
  /\ newPeers' = Append(newPeers, p)
  /\ UNCHANGED <<connected, lists, donePeers, banPeers, banning, adding, ended, released,
                 peerStates, quit>>

\* A failed negotiation, a stall, an error or the end of the connection.
Disconnect(p) ==
  /\ p \in connected /\ p \notin banning
  /\ connected' = connected \ {p}
  /\ UNCHANGED <<verAckReceived, lists, newPeers, donePeers, banPeers, banning, adding, ended,
                 released, peerStates, quit>>

\* addBanScore: BanPeer, and then Disconnect.
BanPeer(p) ==
  /\ p \in connected \cap verAckReceived \cap Misbehaving /\ p \notin banning /\ Len(banPeers) < MaxPeers
  /\ banPeers' = Append(banPeers, p) /\ banning' = banning \cup {p}
  /\ UNCHANGED <<connected, verAckReceived, lists, newPeers, donePeers, adding, ended, released,
                 peerStates, quit>>

BanDisconnect(p) ==
  /\ p \in banning
  /\ connected' = connected \ {p} /\ banning' = banning \ {p}
  /\ UNCHANGED <<verAckReceived, lists, newPeers, donePeers, banPeers, adding, ended, released,
                 peerStates, quit>>

peerDoneHandler(p) ==
  \/ /\ ended[p] = "waits" /\ p \notin connected /\ Len(donePeers) < MaxPeers
     /\ donePeers' = Append(donePeers, p)
     /\ ended' = [ended EXCEPT ![p] = "told"]
     /\ UNCHANGED <<connected, verAckReceived, lists, newPeers, banPeers, banning, adding, released,
                    peerStates, quit>>
  \/ /\ ended[p] = "told"
     /\ peerStates' = IF p \in verAckReceived THEN peerStates \ {p} ELSE peerStates
     /\ ended' = [ended EXCEPT ![p] = "ended"]
     /\ UNCHANGED <<connected, verAckReceived, lists, newPeers, donePeers, banPeers, banning, adding,
                    released, quit>>

-----------------------------------------------------------------------------
\* peerHandler.

Idle == adding = None /\ ~quit

\* A ban may have expired when it is looked up.
Refused(p, expired) ==
  \/ p \notin connected
  \/ Host[p] \in banned /\ ~expired
  \/ Cardinality(listed) >= MaxPeers

handleAddPeerMsg(expired) ==
  LET p == Head(newPeers) IN
  /\ Idle /\ newPeers # <<>>
  /\ newPeers' = Tail(newPeers)
  /\ banned' = IF p \in connected /\ expired THEN banned \ {Host[p]} ELSE banned
  /\ IF Refused(p, expired)
     THEN connected' = connected \ {p} /\ UNCHANGED <<listed, outboundGroups, adding>>
     ELSE /\ listed' = listed \cup {p}
          /\ outboundGroups' = IF p \in Inbound THEN outboundGroups
                               ELSE [outboundGroups EXCEPT ![Group[p]] = @ + 1]
          /\ adding' = p
          /\ UNCHANGED connected
  /\ UNCHANGED <<verAckReceived, donePeers, banPeers, banning, ended, released, peerStates,
                 quit>>

\* The end of handleAddPeerMsg: syncManager.NewPeer.
AddToSyncManager ==
  /\ adding # None
  /\ peerStates' = peerStates \cup {adding}
  /\ adding' = None
  /\ UNCHANGED <<connected, verAckReceived, lists, newPeers, donePeers, banPeers, banning, ended,
                 released, quit>>

\* connManager.Disconnect for a persistent peer, Remove and NewConnReq for another
\* outbound one.
\* Faulty variant of handleDonePeerMsg: the group is counted down for any peer.
handleDonePeerMsgUnlisted ==
  LET p == Head(donePeers) IN
  /\ Idle /\ donePeers # <<>>
  /\ donePeers' = Tail(donePeers)
  /\ released' = IF p \in Outbound THEN [released EXCEPT ![p] = @ + 1] ELSE released
  /\ outboundGroups' = IF p \in verAckReceived /\ p \in Outbound
                       THEN [outboundGroups EXCEPT ![Group[p]] = @ - 1] ELSE outboundGroups
  /\ listed' = listed \ {p}
  /\ UNCHANGED <<connected, verAckReceived, banned, newPeers, banPeers, banning, adding, ended,
                 peerStates, quit>>
handleDonePeerMsg ==
  LET p == Head(donePeers) IN
  /\ Idle /\ donePeers # <<>>
  /\ donePeers' = Tail(donePeers)
  /\ released' = IF p \in Outbound THEN [released EXCEPT ![p] = @ + 1] ELSE released
  /\ outboundGroups' = IF p \in listed /\ p \in Outbound
                       THEN [outboundGroups EXCEPT ![Group[p]] = @ - 1] ELSE outboundGroups
  /\ listed' = listed \ {p}
  /\ UNCHANGED <<connected, verAckReceived, banned, newPeers, banPeers, banning, adding, ended,
                 peerStates, quit>>

handleBanPeerMsg ==
  /\ Idle /\ banPeers # <<>>
  /\ banPeers' = Tail(banPeers)
  /\ banned' = banned \cup {Host[Head(banPeers)]}
  /\ UNCHANGED <<connected, verAckReceived, listed, outboundGroups, newPeers, donePeers, banning,
                 adding, ended, released, peerStates, quit>>

\* disconnectPeer for the peers of R.
disconnectPeer(R) ==
  /\ listed' = listed \ R
  /\ connected' = connected \ R
  /\ outboundGroups' = [g \in Groups |->
       outboundGroups[g] - Cardinality({p \in R \ Inbound : Group[p] = g})]
  /\ UNCHANGED <<verAckReceived, banned, newPeers, donePeers, banPeers, banning, adding, ended,
                 released, peerStates, quit>>

\* removeNodeMsg takes one persistent peer with the address or id; disconnectNodeMsg
\* takes one inbound peer, or else all outbound ones that are not persistent.
RemoveNode(host) ==
  /\ Idle
  /\ \E p \in listed \cap Persistent : Host[p] = host /\ disconnectPeer({p})

DisconnectNode(host) ==
  LET In == {p \in listed \cap Inbound : Host[p] = host}
      Out == {p \in (listed \cap Outbound) \ Persistent : Host[p] = host}
  IN /\ Idle
     /\ \/ \E p \in In : disconnectPeer({p})
        \/ In = {} /\ Out # {} /\ disconnectPeer(Out)

\* Shutdown: every listed peer is disconnected, and the channels are drained.
Shutdown ==
  /\ Idle
  /\ quit' = TRUE
  /\ connected' = connected \ listed
  /\ newPeers' = <<>> /\ donePeers' = <<>>
  /\ UNCHANGED <<verAckReceived, lists, banPeers, banning, adding, ended, released, peerStates>>

Next ==
  \/ \E p \in Peers : OnVerAck(p) \/ Disconnect(p) \/ BanPeer(p) \/ BanDisconnect(p)
                        \/ peerDoneHandler(p)
  \/ \E expired \in BOOLEAN : handleAddPeerMsg(expired)
  \/ AddToSyncManager \/ handleDonePeerMsg \/ handleBanPeerMsg
  \/ \E p \in Peers : RemoveNode(Host[p]) \/ DisconnectNode(Host[p])
  \/ Shutdown

Spec == Init /\ [][Next]_vars

-----------------------------------------------------------------------------
\* The counts of outbound groups, from which newAddressFunc decides where to connect
\* to, are those of the listed peers, whether a peer ends by itself, by an RPC query
\* or by both; there are never more than MaxPeers; and an outbound connection goes
\* back to the connection manager once.
GroupsCounted ==
  /\ \A g \in Groups : outboundGroups[g] = Cardinality({p \in listed \cap Outbound : Group[p] = g})
  /\ Cardinality(listed) <= MaxPeers
  /\ \A p \in Peers : released[p] <= 1

\* A peer that has ended does not stay listed: its end is still in donePeers, even
\* when it ended before or while it was added.
EndedForgotten ==
  \A p \in listed : ended[p] # "waits" /\ ~quit => \E i \in DOMAIN donePeers : donePeers[i] = p

\* The server accounts for its peers: both of the above, whichever of the two
\* channels newPeers and donePeers is served first.
PeersAccounted == GroupsCounted /\ EndedForgotten

=============================================================================
