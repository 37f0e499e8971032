---------------------------- MODULE SyncManager ----------------------------
(***************************************************************************)
(* The sync manager of package netsync: it chooses the peer to download the  *)
(* chain from, asks for headers up to the next checkpoint and for the blocks *)
(* below it, or for inventories and the blocks they announce, and replaces   *)
(* the sync peer when it leaves or stalls.  One goroutine, blockHandler,      *)
(* runs all handlers.  The block chain is reduced to its index, its orphans   *)
(* and its tip; remote peers are nodes that run the same protocol.            *)
(***************************************************************************)
EXTENDS Ancestry, Lists

CONSTANTS
  Peers,
  Witness,             \* the peers with Peer.IsWitnessEnabled
  SegwitActive,        \* IsDeploymentActive(DeploymentSegwit)
  Checkpoints,         \* the checkpoint blocks
  Recent,              \* the blocks with a timestamp in the last 24 hours
  StartTip,            \* the tip of each peer's chain at first
  EndTip,              \* the tip that its chain will reach
  MaxBlocksPerMsg,     \* wire.MaxBlocksPerMsg
  MaxHeadersPerMsg,    \* wire.MaxBlockHeadersPerMsg
  MaxInvPerMsg,        \* wire.MaxInvPerMsg
  MaxRequestedBlocks,  \* maxRequestedBlocks
  MinInFlight,         \* minInFlightBlocks
  MaxFaults,           \* bound on late answers, lost connections and silent peers
  LocalBlocks,         \* the blocks that are submitted with ProcessBlock
  None

ASSUME NoneAssumption == None \notin Peers \cup Blocks

\* The messages' limits: an inv that answers getblocks fits into one getdata.
ASSUME LimitsAssumption ==
  /\ MaxBlocksPerMsg \in Nat \ {0} /\ MaxHeadersPerMsg \in Nat \ {0}
  /\ MaxInvPerMsg \in Nat /\ MaxBlocksPerMsg <= MaxInvPerMsg /\ MaxRequestedBlocks \in Nat

\* The parent links lead to the genesis block, so that the functions of Ancestry
\* satisfy their equations, and every peer follows one chain.
ASSUME PathAssumption ==
  /\ Genesis \in Blocks /\ LocalBlocks \subseteq Blocks /\ Checkpoints \subseteq Blocks
  /\ \A b \in Blocks :
       /\ {Genesis, b} \subseteq Anc[b] /\ Anc[b] \subseteq Blocks /\ Height[b] \in Nat
       /\ Path[b] \in Seq(Anc[b]) /\ Len(Path[b]) = Height[b] + 1
       /\ \A i \in 1 .. Height[b] : Parent[Path[b][i + 1]] = Path[b][i]
       /\ \A a \in Anc[b] : Height[a] \in 0 .. Height[b] /\ Path[b][Height[a] + 1] = a
       /\ \A S \in SUBSET Anc[b] :
            S # {} => \E a \in S : \A c \in S : Height[c] <= Height[a]
  /\ StartTip \in [Peers -> Blocks] /\ EndTip \in [Peers -> Blocks]
  /\ \A p \in Peers : StartTip[p] \in Anc[EndTip[p]]

VARIABLES
  \* the block chain
  index, orphans, best,
  \* the sync manager
  peers,             \* the keys of peerStates
  syncCandidate,     \* the peers whose state has syncCandidate set
  requested,         \* the requestedBlocks of each peer's state
  requestedBlocks,
  syncPeer, headersFirstMode, headerList, startHeader, nextCheckpoint,
  \* the peers as the node sees them
  lastBlock, lastAnnounced,
  link,              \* the connection to each peer
  updates,           \* the goroutines that are about to call UpdatePeerHeights
  \* the peers themselves
  tip, silent,
  faults

chain == <<index, orphans, best>>
headers == <<headersFirstMode, headerList, startHeader, nextCheckpoint>>
requests == <<requested, requestedBlocks>>
heights == <<lastBlock, lastAnnounced>>
vars == <<chain, peers, syncCandidate, requests, syncPeer, headers, heights,
          link, updates, tip, silent, faults>>

----------------------------------------------------------------------------
(* The block chain. *)

HaveBlock(b) == b \in index \cup orphans

\* GetOrphanRoot.
OrphanRoot(b, orph) ==
  CHOOSE r \in Anc[b] : /\ \A a \in Anc[b] : Height[a] >= Height[r] => a \in orph
                        /\ r = Genesis \/ Parent[r] \notin orph

\* Checkpoints are enforced, and nothing may fork off below the last one passed.
Refused(b) ==
  \E c \in Checkpoints :
    \/ Height[c] = Height[b] /\ c # b
    \/ c \in Anc[best] /\ Height[b] < Height[c]

\* ProcessBlock adds a block to the index, with the orphans that wait for it,
\* and the best chain becomes the longest one, or keeps the block as an orphan.
Accepted(b) ==
  {b} \cup {o \in orphans : b \in Anc[o] /\ Anc[o] \ index \subseteq orphans \cup {b}
                            /\ \A a \in Anc[o] \ index : ~Refused(a)}
IsOrphan(b) == Parent[b] \notin index
ProcessBlock(b) ==
  IF IsOrphan(b)
  THEN orphans' = orphans \cup {b} /\ UNCHANGED <<index, best>>
  ELSE LET new == Accepted(b)
       IN /\ index' = index \cup new /\ orphans' = orphans \ new
          /\ \/ (\A n \in new : Height[n] <= Height[best]) /\ best' = best
             \/ \E n \in new : /\ Height[n] > Height[best] /\ \A m \in new : Height[m] <= Height[n]
                               /\ best' = n

\* BlockChain.IsCurrent, and current of the sync manager with a given tip.
IsCurrent(b) == b \in Recent /\ \A c \in Checkpoints : Height[b] >= Height[c]
Current(b) == IsCurrent(b) /\ (syncPeer # None => Height[b] >= lastBlock[syncPeer])

----------------------------------------------------------------------------
(* The connection to a peer: what was sent and is not answered yet. *)

Conn(u) == [up |-> u, net |-> <<>>, getBlocks |-> None, getHeaders |-> None, continueHash |-> None]
Link == Conn(TRUE)
NoLink == Conn(FALSE)

\* QueueMessage drops messages to a peer that is disconnected.
Send(l, m) == IF l.up THEN [l EXCEPT !.net = Append(@, m)] ELSE l

\* What may be on its way to the sync manager when a peer is disconnected: OnBlock
\* reads no further message until its block is processed, so one block at most.
InFlight(net) ==
  LET data == {i \in DOMAIN net : net[i].type = "getdata"}
      first == CHOOSE i \in data : \A j \in data : i <= j
  IN IF data = {} THEN net
     ELSE Append(SubSeq(net, 1, first - 1), [net[first] EXCEPT !.blocks = SubSeq(@, 1, 1)])
Disconnect(l) == [l EXCEPT !.up = FALSE, !.net = InFlight(@)]

\* PushGetBlocksMsg and PushGetHeadersMsg filter a repeated request.
PushGetBlocks(l, begin, loc, stop) ==
  IF l.getBlocks = <<begin, stop>> THEN l
  ELSE [Send(l, [type |-> "getblocks", loc |-> loc, stop |-> stop])
          EXCEPT !.getBlocks = <<begin, stop>>]
PushGetHeaders(l, begin, loc, stop) ==
  IF l.getHeaders = <<begin, stop>> THEN l
  ELSE [Send(l, [type |-> "getheaders", loc |-> loc, stop |-> stop])
          EXCEPT !.getHeaders = <<begin, stop>>]

\* Several PushGetBlocks in turn.
PushEach(l, qs) ==
  LET key(i) == IF i = 0 THEN l.getBlocks ELSE <<qs[i].begin, qs[i].stop>>
      new == Kept(qs, {i \in DOMAIN qs : key(i) # key(i - 1)})
      msgs == [i \in DOMAIN new |-> [type |-> "getblocks", loc |-> new[i].loc, stop |-> new[i].stop]]
  IN [l EXCEPT !.net = IF l.up THEN @ \o msgs ELSE @, !.getBlocks = key(Len(qs))]
PushGetData(l, bs) == IF bs = <<>> THEN l ELSE Send(l, [type |-> "getdata", blocks |-> bs])

\* locateInventory on a remote peer's chain with tip t.
Smaller(m, n) == IF m < n THEN m ELSE n
Locate(t, loc, stop, max) ==
  LET known == (loc \cap Anc[t]) \cup {Genesis}
      start == CHOOSE b \in known : \A a \in known : Height[a] <= Height[b]
      last == IF stop \in Anc[t] /\ Height[stop] > Height[start] THEN stop ELSE t
  IN SubSeq(Path[t], Height[start] + 2, Smaller(Height[last] + 1, Height[start] + 1 + max))

----------------------------------------------------------------------------
(* Choosing the sync peer. *)

\* findNextHeaderCheckpoint.
FindNextHeaderCheckpoint(h) ==
  LET above == {c \in Checkpoints : Height[c] > h}
  IN IF above = {} THEN None ELSE CHOOSE c \in above : \A d \in above : Height[c] <= Height[d]

\* startSync, once there is no sync peer, with the values that its callers have
\* already changed.
StartSync(known, cands, last, links, reqs, mode) ==
  LET able == {p \in known \cap cands : SegwitActive => p \in Witness}
      higher == {p \in able : last[p] > Height[best]}
      equal == {p \in able : last[p] = Height[best]}
      choice == IF higher # {} THEN higher ELSE equal
      byHeaders == nextCheckpoint # None /\ Height[best] < Height[nextCheckpoint]
  IN /\ syncCandidate' = cands \ {p \in able : last[p] < Height[best]}
     /\ \/ /\ choice = {} /\ syncPeer' = None
           /\ requestedBlocks' = reqs /\ headersFirstMode' = mode /\ link' = links
        \/ \E p \in choice :
             /\ syncPeer' = p /\ requestedBlocks' = {}
             /\ headersFirstMode' = (mode \/ byHeaders)
             /\ link' = [links EXCEPT ![p] =
                           IF byHeaders THEN PushGetHeaders(@, best, Anc[best], nextCheckpoint)
                           ELSE PushGetBlocks(@, best, Anc[best], None)]

\* resetHeaderState.
ResetHeaderState ==
  /\ headerList' = IF nextCheckpoint # None THEN <<best>> ELSE <<>>
  /\ startHeader' = None

\* Faulty variant of UpdateSyncPeer: headers-first mode is not left.
UpdateSyncPeerSameMode(known, links, reqs) ==
  /\ IF headersFirstMode THEN ResetHeaderState ELSE UNCHANGED <<headerList, startHeader>>
  /\ StartSync(known, syncCandidate \cap known, lastBlock, links, reqs, headersFirstMode)
  /\ UNCHANGED nextCheckpoint

\* updateSyncPeer, after the requests of the old sync peer were cleared.
UpdateSyncPeer(known, links, reqs) ==
  /\ IF headersFirstMode THEN ResetHeaderState ELSE UNCHANGED <<headerList, startHeader>>
  /\ StartSync(known, syncCandidate \cap known, lastBlock, links, reqs, FALSE)
  /\ UNCHANGED nextCheckpoint

\* handleNewPeerMsg; the height of the version message is that of the tip.
NewPeer(p) ==
  LET cand == SegwitActive => p \in Witness
      cands == IF cand THEN syncCandidate \cup {p} ELSE syncCandidate
      last == [lastBlock EXCEPT ![p] = Height[tip[p]]]
      links == [link EXCEPT ![p] = Link]
  IN /\ p \notin peers
     /\ peers' = peers \cup {p} /\ lastBlock' = last
     /\ lastAnnounced' = [lastAnnounced EXCEPT ![p] = None]
     /\ requested' = [requested EXCEPT ![p] = {}]
     /\ IF cand /\ syncPeer = None
        THEN StartSync(peers', cands, last, links, requestedBlocks, headersFirstMode)
        ELSE /\ syncCandidate' = cands /\ link' = links
             /\ UNCHANGED <<syncPeer, requestedBlocks, headersFirstMode>>
     /\ UNCHANGED <<chain, headerList, startHeader, nextCheckpoint, updates, tip, silent, faults>>

\* Faulty variant of Cleared: the requests of the peer stay in requestedBlocks.
ClearedNothing(p) == requestedBlocks

\* clearRequestedState.
Cleared(p) == requestedBlocks \ requested[p]

\* handleDonePeerMsg.
DonePeer(p) ==
  LET links == [link EXCEPT ![p] = NoLink]
      reqs == Cleared(p)
  IN /\ p \in peers /\ ~link[p].up
     /\ peers' = peers \ {p} /\ requested' = [requested EXCEPT ![p] = {}]
     /\ silent' = silent \ {p}
     /\ lastBlock' = [lastBlock EXCEPT ![p] = 0]
     /\ lastAnnounced' = [lastAnnounced EXCEPT ![p] = None]
     /\ IF p = syncPeer
        THEN UpdateSyncPeer(peers', links, reqs)
        ELSE /\ syncCandidate' = syncCandidate \ {p} /\ link' = links
             /\ requestedBlocks' = reqs /\ UNCHANGED <<syncPeer, headers>>
     /\ UNCHANGED <<chain, updates, tip, faults>>

Fault == faults < MaxFaults /\ faults' = faults + 1

\* Nothing more will come from the peer.
Idle(p) == p \in silent \/ ~link[p].up \/ link[p].net = <<>>

\* shouldDCStalledSyncPeer.
ShouldDCStalledSyncPeer == lastBlock[syncPeer] > Height[best]

\* Faulty variant of StallSample: at the height of the sync peer it does nothing.
StallSampleWhenBehind ==
  /\ syncPeer # None /\ syncPeer \in peers /\ Idle(syncPeer) /\ ShouldDCStalledSyncPeer
  /\ UpdateSyncPeer(peers, [link EXCEPT ![syncPeer] = Disconnect(@)], Cleared(syncPeer))
  /\ UNCHANGED <<chain, peers, requested, heights, updates, tip, silent, faults>>

\* handleStallSample after maxStallDuration without progress: nothing more will
\* come from the sync peer, or what is coming is late.
StallSample ==
  /\ syncPeer # None /\ syncPeer \in peers
  /\ \/ Idle(syncPeer) /\ UNCHANGED faults
     \/ ~Idle(syncPeer) /\ Fault
  /\ LET cut == [link EXCEPT ![syncPeer] = Disconnect(@)]
     IN UpdateSyncPeer(peers, IF ShouldDCStalledSyncPeer THEN cut ELSE link, Cleared(syncPeer))
  /\ UNCHANGED <<chain, peers, requested, heights, updates, tip, silent>>

----------------------------------------------------------------------------
(* Messages from peers.  What a peer sends in answer to a request is computed *)
(* when it is handled; the answers come in the order of the requests.         *)

\* The first request to p that is not answered, and the link without it.
Answers(p, type) == p \in peers \ silent /\ link[p].net # <<>> /\ link[p].net[1].type = type
Request(p) == link[p].net[1]
Rest(p) == [link[p] EXCEPT !.net = Tail(@)]
Elements(s) == {s[i] : i \in DOMAIN s}

\* The header list from the start header on.  An element that was removed from
\* the list has no next one.
ListFrom(list, start) ==
  IF start \in Elements(list)
  THEN SubSeq(list, CHOOSE i \in DOMAIN list : list[i] = start, Len(list)) ELSE <<start>>

\* fetchHeaderBlocks: the next blocks of the list that are not known are asked
\* of the sync peer.
FetchHeaderBlocks(list, start, known, links, req, reqs) ==
  \E todo \in {ListFrom(list, start)} :
    LET want == Kept(todo, {i \in DOMAIN todo : todo[i] \notin known})
        gd == SubSeq(want, 1, Smaller(MaxInvPerMsg, Len(want)))
        left == {i \in DOMAIN todo : Len(want) >= MaxInvPerMsg
                                     /\ Height[todo[i]] > Height[gd[MaxInvPerMsg]]}
    IN /\ startHeader' = IF left = {} THEN None ELSE todo[CHOOSE i \in left : \A j \in left : i <= j]
       /\ requestedBlocks' = reqs \cup Elements(gd)
       /\ requested' = [req EXCEPT ![syncPeer] = @ \cup Elements(gd)]
       /\ link' = [links EXCEPT ![syncPeer] = PushGetData(@, gd)]

\* Faulty variant of Connects: any header is appended.
ConnectsAnyway(h) == headerList # <<>>

\* The header connects to the last one on the list.
Connects(h) == headerList # <<>> /\ Parent[h] = headerList[Len(headerList)]

\* The header at the height of the checkpoint is the checkpoint.
Matches(h) == h = nextCheckpoint

\* handleHeadersMsg.
ReceiveHeaders(p) ==
  /\ Answers(p, "getheaders")
  /\ LET l == Rest(p)
         links == [link EXCEPT ![p] = l]
         hs == Locate(tip[p], Request(p).loc, Request(p).stop, MaxHeadersPerMsg)
         cut == link' = [link EXCEPT ![p] = Disconnect(l)]
         at == {i \in DOMAIN hs : Height[hs[i]] = Height[nextCheckpoint]}
         n == IF at = {} THEN Len(hs) ELSE CHOOSE i \in at : TRUE
         list == headerList \o SubSeq(hs, 1, n)
         start == IF startHeader = None THEN hs[1] ELSE startHeader
     IN \/ /\ ~headersFirstMode /\ cut
           /\ UNCHANGED <<headerList, startHeader, requests>>
        \/ /\ headersFirstMode /\ hs = <<>> /\ link' = links
           /\ UNCHANGED <<headerList, startHeader, requests>>
        \/ /\ headersFirstMode /\ hs # <<>> /\ ~Connects(hs[1]) /\ cut
           /\ UNCHANGED <<headerList, startHeader, requests>>
        \/ /\ headersFirstMode /\ hs # <<>> /\ Connects(hs[1])
           /\ \/ /\ at # {} /\ ~Matches(hs[n]) /\ cut
                 /\ headerList' = list /\ startHeader' = start /\ UNCHANGED requests
              \/ /\ at # {} /\ Matches(hs[n])
                 /\ headerList' = Tail(list)
                 /\ FetchHeaderBlocks(Tail(list), start, index \cup orphans, links, requested, requestedBlocks)
              \/ /\ at = {}
                 /\ headerList' = list /\ startHeader' = start /\ UNCHANGED requests
                 /\ link' = [link EXCEPT ![p] = PushGetHeaders(l, hs[n], {hs[n]}, nextCheckpoint)]
  /\ UNCHANGED <<chain, peers, syncCandidate, syncPeer, headersFirstMode, nextCheckpoint,
                 heights, updates, tip, silent, faults>>

\* limitAdd evicts entries at random once there are maxRequestedBlocks.
Larger(m, n) == IF m < n THEN n ELSE m
LimitAdd(m, bs) ==
  LET all == m \cup Elements(bs)
      limit == Larger(MaxRequestedBlocks, Cardinality(m))
  IN IF Cardinality(all) <= limit THEN {all}
     ELSE {x \in SUBSET all : Cardinality(x) = limit /\ bs[Len(bs)] \in x}

\* What handleInvMsg asks for when b is announced: for an orphan the blocks up to
\* its root, for a block of the chain those after it.
MoreFor(b) ==
  IF b \in orphans THEN [begin |-> best, loc |-> Anc[best], stop |-> OrphanRoot(b, orphans)]
  ELSE [begin |-> b, loc |-> Anc[b], stop |-> None]

\* handleInvMsg with the block announcements inv.
HandleInv(p, l, inv) ==
  LET final == inv[Len(inv)]
      current == Current(best)
      ours == p = syncPeer \/ current
      more == Kept(inv, {i \in DOMAIN inv : inv[i] \in orphans \/ (inv[i] \in index /\ inv[i] = final)})
      asked == PushEach(l, [i \in DOMAIN more |-> MoreFor(more[i])])
      want == Kept(inv, {i \in DOMAIN inv : ~HaveBlock(inv[i]) /\ p \in Witness /\ inv[i] \notin requestedBlocks})
  IN /\ lastAnnounced' = IF p # syncPeer \/ current
                         THEN [lastAnnounced EXCEPT ![p] = final] ELSE lastAnnounced
     /\ lastBlock' = IF current /\ final \in Anc[best]
                     THEN [lastBlock EXCEPT ![p] = Larger(@, Height[final])] ELSE lastBlock
     /\ \/ /\ ~ours \/ headersFirstMode
           /\ link' = [link EXCEPT ![p] = l] /\ UNCHANGED requests
        \/ /\ ours /\ ~headersFirstMode
           /\ link' = [link EXCEPT ![p] = PushGetData(asked, want)]
           /\ requestedBlocks' \in (IF want = <<>> THEN {requestedBlocks} ELSE LimitAdd(requestedBlocks, want))
           /\ \E r \in (IF want = <<>> THEN {requested[p]} ELSE LimitAdd(requested[p], want)) :
                requested' = [requested EXCEPT ![p] = r]
     /\ UNCHANGED <<chain, peers, syncCandidate, syncPeer, headers, updates, tip, silent, faults>>

\* An announcement, or the answer to getblocks: OnGetBlocks remembers the last
\* block of a full answer.
ReceiveInv(p) ==
  \/ Answers(p, "inv") /\ HandleInv(p, Rest(p), Request(p).blocks)
  \/ /\ Answers(p, "getblocks")
     /\ \E inv \in {Locate(tip[p], Request(p).loc, Request(p).stop, MaxBlocksPerMsg)} :
        LET l == [Rest(p) EXCEPT !.continueHash = IF Len(inv) = MaxBlocksPerMsg THEN inv[Len(inv)] ELSE @]
        IN \/ inv # <<>> /\ HandleInv(p, l, inv)
           \/ /\ inv = <<>> /\ link' = [link EXCEPT ![p] = l]
              /\ UNCHANGED <<chain, peers, syncCandidate, requests, syncPeer, headers, heights,
                             updates, tip, silent, faults>>

\* pushBlockMsg: after the block that ended a full answer to getblocks the peer
\* announces its tip.
BlockSent(p) ==
  LET b == Request(p).blocks[1]
      bs == Tail(Request(p).blocks)
      rest == IF bs = <<>> THEN Tail(link[p].net)
              ELSE <<[type |-> "getdata", blocks |-> bs]>> \o Tail(link[p].net)
  IN IF link[p].up /\ link[p].continueHash = b
     THEN [link[p] EXCEPT !.continueHash = None, !.net = <<[type |-> "inv", blocks |-> <<tip[p]>>]>> \o rest]
     ELSE [link[p] EXCEPT !.net = rest]

\* handleBlockMsg up to ProcessBlock: a block at the front of the header list is
\* fast, and leaves the list unless it is the checkpoint.
AtFront(b) == headersFirstMode /\ headerList # <<>> /\ headerList[1] = b
IsCheckpointBlock(b) == AtFront(b) /\ b = nextCheckpoint
ListWithout(b) == IF AtFront(b) /\ b # nextCheckpoint THEN Tail(headerList) ELSE headerList

\* handleBlockMsg after ProcessBlock.
BlockProcessed(p, b, l, req, reqs) ==
  LET orphan == IsOrphan(b)
      height == IF orphan THEN Height[b] ELSE Height[best']
      hash == IF orphan THEN b ELSE best'
      k == IF orphan THEN PushGetBlocks(l, best', Anc[best'], OrphanRoot(b, orphans')) ELSE l
      links == [link EXCEPT ![p] = k]
      last == [lastBlock EXCEPT ![p] = Larger(@, height)]
      current == IsCurrent(best') /\ (syncPeer # None => Height[best'] >= last[syncPeer])
      next == FindNextHeaderCheckpoint(Height[nextCheckpoint])
  IN /\ lastBlock' = last /\ UNCHANGED lastAnnounced
     /\ updates' = IF orphan \/ current THEN updates \cup {<<hash, p>>} ELSE updates
     /\ \/ /\ ~headersFirstMode
           /\ link' = links /\ requested' = req /\ requestedBlocks' = reqs
           /\ UNCHANGED headers
        \/ /\ headersFirstMode /\ ~IsCheckpointBlock(b)
           /\ headerList' = ListWithout(b)
           /\ IF startHeader # None /\ Cardinality(req[p]) < MinInFlight
              THEN FetchHeaderBlocks(ListWithout(b), startHeader, index' \cup orphans', links, req, reqs)
              ELSE /\ link' = links /\ requested' = req /\ requestedBlocks' = reqs
                   /\ UNCHANGED startHeader
           /\ UNCHANGED <<headersFirstMode, nextCheckpoint>>
        \/ /\ IsCheckpointBlock(b)
           /\ requested' = req /\ requestedBlocks' = reqs /\ nextCheckpoint' = next
           /\ IF next # None
              THEN /\ link' = [links EXCEPT ![p] = PushGetHeaders(@, b, {b}, next)]
                   /\ UNCHANGED <<headersFirstMode, headerList>>
              ELSE /\ link' = [links EXCEPT ![p] = PushGetBlocks(@, b, {b}, None)]
                   /\ headersFirstMode' = FALSE /\ headerList' = <<>>
           /\ UNCHANGED startHeader

ReceiveBlock(p) ==
  /\ Answers(p, "getdata") /\ Request(p).blocks[1] \in Anc[tip[p]]
  /\ LET b == Request(p).blocks[1]
         l == BlockSent(p)
         req == [requested EXCEPT ![p] = @ \ {b}]
         reqs == requestedBlocks \ {b}
     IN \/ /\ b \notin requested[p]
           /\ link' = [link EXCEPT ![p] = Disconnect(l)]
           /\ UNCHANGED <<chain, requests, headers, heights, updates>>
        \/ /\ b \in requested[p] /\ (HaveBlock(b) \/ (~IsOrphan(b) /\ Refused(b)))
           /\ headerList' = ListWithout(b) /\ requested' = req /\ requestedBlocks' = reqs
           /\ link' = [link EXCEPT ![p] = l]
           /\ UNCHANGED <<chain, headersFirstMode, startHeader, nextCheckpoint, heights, updates>>
        \/ /\ b \in requested[p] /\ ~HaveBlock(b) /\ (IsOrphan(b) \/ ~Refused(b))
           /\ ProcessBlock(b) /\ BlockProcessed(p, b, l, req, reqs)
  /\ UNCHANGED <<peers, syncCandidate, syncPeer, tip, silent, faults>>

\* handleNotFoundMsg: the peer does not have the blocks that it was asked for.
ReceiveNotFound(p) ==
  /\ Answers(p, "getdata") /\ Request(p).blocks[1] \notin Anc[tip[p]]
  /\ LET gone == Elements(Request(p).blocks) \cap requested[p]
     IN /\ requested' = [requested EXCEPT ![p] = @ \ gone]
        /\ requestedBlocks' = requestedBlocks \ gone
  /\ link' = [link EXCEPT ![p] = Rest(p)]
  /\ UNCHANGED <<chain, peers, syncCandidate, syncPeer, headers, heights, updates, tip, silent, faults>>

\* The server's handleUpdatePeerHeights.
UpdatePeerHeights(u) ==
  LET hit == {p \in peers \ {u[2]} : lastAnnounced[p] = u[1]}
  IN /\ u \in updates /\ updates' = updates \ {u}
     /\ lastBlock' = [p \in Peers |-> IF p \in hit THEN Larger(lastBlock[p], Height[u[1]]) ELSE lastBlock[p]]
     /\ lastAnnounced' = [p \in Peers |-> IF p \in hit THEN None ELSE lastAnnounced[p]]
     /\ UNCHANGED <<chain, peers, syncCandidate, requests, syncPeer, headers, link, tip, silent, faults>>

\* processBlockMsg: a block that was mined or submitted on this node.
LocalBlock(b) ==
  /\ ~HaveBlock(b) /\ Parent[b] = best /\ ~Refused(b) /\ ProcessBlock(b)
  /\ UNCHANGED <<peers, syncCandidate, requests, syncPeer, headers, heights, link, updates,
                 tip, silent, faults>>

----------------------------------------------------------------------------
(* The peers. *)

\* A peer's chain grows, and the peer announces the block unless it may know
\* that this node has it.
Extend(p) ==
  /\ tip[p] # EndTip[p]
  /\ LET b == Path[EndTip[p]][Height[tip[p]] + 2]
     IN /\ tip' = [tip EXCEPT ![p] = b]
        /\ \/ link' = [link EXCEPT ![p] = IF p \in peers THEN Send(@, [type |-> "inv", blocks |-> <<b>>]) ELSE @]
           \/ b \in index /\ p \in peers /\ UNCHANGED link
  /\ UNCHANGED <<chain, peers, syncCandidate, requests, syncPeer, headers, heights, updates, silent, faults>>

\* The idleTimer of the peer's inHandler.
IdleTimeout(p) ==
  /\ p \in silent /\ link[p].up /\ link' = [link EXCEPT ![p] = Disconnect(@)]
  /\ UNCHANGED <<chain, peers, syncCandidate, requests, syncPeer, headers, heights, updates,
                 tip, silent, faults>>

\* A connection is lost, or a peer stops answering on an open connection.
LosePeer(p) ==
  /\ Fault /\ p \in peers /\ link[p].up
  /\ \/ link' = [link EXCEPT ![p] = Disconnect(@)] /\ UNCHANGED silent
     \/ p \notin silent /\ silent' = silent \cup {p} /\ UNCHANGED link
  /\ UNCHANGED <<chain, peers, syncCandidate, requests, syncPeer, headers, heights, updates,
                 tip>>

----------------------------------------------------------------------------

Init ==
  /\ index = {Genesis} /\ orphans = {} /\ best = Genesis
  /\ peers = {} /\ syncCandidate = {} /\ requested = [p \in Peers |-> {}] /\ requestedBlocks = {}
  /\ syncPeer = None /\ headersFirstMode = FALSE /\ startHeader = None
  /\ nextCheckpoint = FindNextHeaderCheckpoint(0)
  /\ headerList = IF nextCheckpoint # None THEN <<Genesis>> ELSE <<>>
  /\ lastBlock = [p \in Peers |-> 0] /\ lastAnnounced = [p \in Peers |-> None]
  /\ link = [p \in Peers |-> NoLink] /\ updates = {}
  /\ tip = StartTip /\ silent = {}
  /\ faults = 0

Receive(p) == ReceiveHeaders(p) \/ ReceiveInv(p) \/ ReceiveBlock(p) \/ ReceiveNotFound(p)
PeerStep(p) == NewPeer(p) \/ Receive(p) \/ IdleTimeout(p) \/ DonePeer(p)

Next ==
  \/ \E p \in Peers : PeerStep(p) \/ Extend(p) \/ LosePeer(p)
  \/ StallSample
  \/ \E u \in updates : UpdatePeerHeights(u)
  \/ \E b \in LocalBlocks : LocalBlock(b)

\* The node keeps connecting to peers, a peer that is not silent answers, one that
\* is silent is disconnected, and a disconnected one is noticed: PeerStep is what
\* comes next in each state of a connection.  The stall ticker fires.
Fairness ==
  /\ \A p \in Peers : WF_vars(PeerStep(p))
  /\ WF_vars(StallSample)
  /\ WF_vars(\E u \in updates : UpdatePeerHeights(u))

Spec == Init /\ [][Next]_vars /\ Fairness

----------------------------------------------------------------------------

\* Every variable holds what the code's types allow.
TypeOK ==
  /\ index \subseteq Blocks /\ orphans \subseteq Blocks /\ best \in index
  /\ peers \subseteq Peers /\ syncCandidate \subseteq peers
  /\ requested \in [Peers -> SUBSET Blocks] /\ requestedBlocks \subseteq Blocks
  /\ syncPeer \in Peers \cup {None} /\ headersFirstMode \in BOOLEAN
  /\ headerList \in Seq(Blocks) /\ startHeader \in Blocks \cup {None}
  /\ nextCheckpoint \in Checkpoints \cup {None}
  /\ lastBlock \in [Peers -> Nat] /\ lastAnnounced \in [Peers -> Blocks \cup {None}]
  /\ updates \subseteq Blocks \X Peers /\ tip \in [Peers -> Blocks] /\ silent \subseteq peers

\* The sync peer is one of the known peers, and headers-first mode has a sync
\* peer and a checkpoint: fetchHeaderBlocks and handleBlockMsg dereference both.
SyncInv ==
  /\ syncPeer # None => syncPeer \in peers
  /\ headersFirstMode => syncPeer # None /\ nextCheckpoint # None

\* A block that is recorded as requested was asked of a peer that is still
\* known, so that its request is cleared when that peer leaves.
RequestedOfSomebody == requestedBlocks \subseteq UNION {requested[p] : p \in peers}

\* What is on its way is never lost track of, whoever leaves, stalls or is
\* replaced: startSync and handleInvMsg ask again for what is not requested.
FetchTracked == TypeOK /\ RequestedOfSomebody

\* The headers on the list have been "verified to link together" (handleBlockMsg),
\* whichever peers they came from.
HeadersLinked ==
  \A i \in 1 .. Len(headerList) - 1 : Parent[headerList[i + 1]] = headerList[i]

\* Whatever peers leave, stall or answer late, the node gets to the tip of the
\* peers' chain.
Synced == <>[](\A p \in Peers : Height[best] >= Height[EndTip[p]] \/ tip[p] # EndTip[p])
=============================================================================
