------------------------- MODULE SyncManagerProofs -------------------------
(***************************************************************************)
(* Proofs about the sync manager for every set of peers, block tree, set of  *)
(* checkpoints and number of faults.                                         *)
(***************************************************************************)
EXTENDS SyncManager, ListProofs

\* SyncInv is inductive once the known peers are peers, which None is not.
IInv == SyncInv /\ peers \subseteq Peers /\ headersFirstMode \in BOOLEAN

\* startSync chooses one of the known peers or none, and enters headers-first
\* mode only with a sync peer and a checkpoint.
LEMMA StartSyncKeeps ==
  ASSUME NEW known \in SUBSET Peers, NEW cands, NEW last, NEW links, NEW reqs,
         NEW mode \in BOOLEAN, mode => nextCheckpoint # None,
         StartSync(known, cands, last, links, reqs, mode)
  PROVE  /\ syncPeer' # None => syncPeer' \in known
         /\ headersFirstMode' => (mode \/ syncPeer' # None) /\ nextCheckpoint # None
         /\ headersFirstMode' \in BOOLEAN
<1> DEFINE able == {p \in known \cap cands : SegwitActive => p \in Witness}
           higher == {p \in able : last[p] > Height[best]}
           equal == {p \in able : last[p] = Height[best]}
           choice == IF higher # {} THEN higher ELSE equal
           byHeaders == nextCheckpoint # None /\ Height[best] < Height[nextCheckpoint]
<1>1. choice \subseteq known
  OBVIOUS
<1>2. CASE syncPeer' = None /\ headersFirstMode' = mode
  BY <1>2
<1>3. ASSUME NEW p \in choice, syncPeer' = p, headersFirstMode' = (mode \/ byHeaders)
      PROVE  /\ syncPeer' # None => syncPeer' \in known
             /\ headersFirstMode' => (mode \/ syncPeer' # None) /\ nextCheckpoint # None
             /\ headersFirstMode' \in BOOLEAN
  <2>1. p \in Peers /\ p # None
    BY <1>1, NoneAssumption
  <2> HIDE DEF choice
  <2> QED
    BY <1>1, <1>3, <2>1
<1>4. \/ syncPeer' = None /\ headersFirstMode' = mode
      \/ \E p \in choice : syncPeer' = p /\ headersFirstMode' = (mode \/ byHeaders)
  BY DEF StartSync
<1> QED
  BY <1>2, <1>3, <1>4

\* updateSyncPeer leaves headers-first mode before it starts over.
LEMMA UpdateSyncPeerKeeps ==
  ASSUME NEW known \in SUBSET Peers, NEW links, NEW reqs,
         UpdateSyncPeer(known, links, reqs)
  PROVE  /\ syncPeer' # None => syncPeer' \in known
         /\ headersFirstMode' => syncPeer' # None /\ nextCheckpoint' # None
         /\ headersFirstMode' \in BOOLEAN
<1>1. StartSync(known, syncCandidate \cap known, lastBlock, links, reqs, FALSE)
  BY ZenonT(40) DEF UpdateSyncPeer
<1>2. UNCHANGED nextCheckpoint
  BY DEF UpdateSyncPeer
<1> QED
  BY ZenonT(40), <1>1, <1>2, StartSyncKeeps

\* Init satisfies the invariant: there is no sync peer and no peer.
LEMMA InitKeeps == Init => IInv
  BY ZenonT(40) DEF Init, IInv, SyncInv

\* What the invariant speaks about.
invVars == <<peers, syncPeer, headersFirstMode, nextCheckpoint>>

\* A step that leaves these variables alone keeps the invariant.
LEMMA UnchangedKeeps == IInv /\ UNCHANGED invVars => IInv'
  BY DEF IInv, SyncInv, invVars

\* handleNewPeerMsg starts a sync when there is none.
LEMMA NewPeerKeeps ==
  ASSUME IInv, NEW p \in Peers, NewPeer(p)
  PROVE  IInv'
<1>1. peers' = peers \cup {p} /\ peers' \in SUBSET Peers /\ UNCHANGED nextCheckpoint
  BY DEF NewPeer, IInv
<1>2. CASE UNCHANGED <<syncPeer, headersFirstMode>>
  BY <1>1, <1>2 DEF IInv, SyncInv
<1>3. ASSUME syncPeer = None, NEW cands, NEW last, NEW links,
             StartSync(peers', cands, last, links, requestedBlocks, headersFirstMode)
      PROVE  IInv'
  <2>1. ~headersFirstMode /\ headersFirstMode \in BOOLEAN
    BY <1>3 DEF IInv, SyncInv
  <2>2. /\ syncPeer' # None => syncPeer' \in peers'
        /\ headersFirstMode' => (headersFirstMode \/ syncPeer' # None) /\ nextCheckpoint # None
        /\ headersFirstMode' \in BOOLEAN
    BY <1>1, <1>3, <2>1, StartSyncKeeps
  <2> QED
    BY <1>1, <2>1, <2>2 DEF IInv, SyncInv
<1> QED
  BY <1>2, <1>3 DEF NewPeer

\* handleDonePeerMsg replaces the sync peer when it is the one that left.
LEMMA DonePeerKeeps ==
  ASSUME IInv, NEW p \in Peers, DonePeer(p)
  PROVE  IInv'
<1>1. peers' = peers \ {p} /\ peers' \in SUBSET Peers
  BY DEF DonePeer, IInv
<1>2. CASE p = syncPeer
  <2>1. PICK links, reqs : UpdateSyncPeer(peers', links, reqs)
    BY <1>2 DEF DonePeer
  <2> QED
    BY <1>1, <2>1, UpdateSyncPeerKeeps DEF IInv, SyncInv
<1>3. CASE p # syncPeer
  <2>1. UNCHANGED <<syncPeer, headersFirstMode, nextCheckpoint>>
    BY <1>3 DEF DonePeer, headers
  <2> QED
    BY <1>1, <1>3, <2>1 DEF IInv, SyncInv
<1> QED
  BY <1>2, <1>3

\* handleStallSample replaces the sync peer.
LEMMA StallSampleKeeps == IInv /\ StallSample => IInv'
<1> SUFFICES ASSUME IInv, StallSample PROVE IInv'
  OBVIOUS
<1>1. peers \in SUBSET Peers /\ UNCHANGED peers
  BY DEF IInv, StallSample
<1>2. PICK links, reqs : UpdateSyncPeer(peers, links, reqs)
  BY DEF StallSample
<1> QED
  BY <1>1, <1>2, UpdateSyncPeerKeeps DEF IInv, SyncInv

\* handleBlockMsg leaves headers-first mode with the last checkpoint.
LEMMA ReceiveBlockKeeps ==
  ASSUME IInv, NEW p \in Peers, ReceiveBlock(p)
  PROVE  IInv'
<1>1. UNCHANGED <<peers, syncPeer>>
  BY DEF ReceiveBlock
<1>2. CASE UNCHANGED <<headersFirstMode, nextCheckpoint>>
  BY <1>1, <1>2, UnchangedKeeps DEF invVars
<1>3. ASSUME NEW b, NEW l, NEW req, NEW reqs, BlockProcessed(p, b, l, req, reqs)
      PROVE  IInv'
  <2>1. \/ UNCHANGED <<headersFirstMode, nextCheckpoint>>
        \/ UNCHANGED headersFirstMode /\ nextCheckpoint' # None
        \/ headersFirstMode' = FALSE
    BY <1>3 DEF BlockProcessed, headers
  <2>2. CASE UNCHANGED headersFirstMode /\ nextCheckpoint' # None
    BY <1>1, <2>2, Zenon DEF IInv, SyncInv
  <2>3. CASE headersFirstMode' = FALSE
    BY ZenonT(40), <1>1, <2>3 DEF IInv, SyncInv
  <2> QED
    BY ZenonT(40), <1>2, <2>1, <2>2, <2>3
<1>4. \/ UNCHANGED <<headersFirstMode, nextCheckpoint>>
      \/ \E b, l, req, reqs : BlockProcessed(p, b, l, req, reqs)
  BY DEF ReceiveBlock, headers
<1> QED
  BY <1>2, <1>3, <1>4

\* Every step keeps the invariant.
LEMMA NextKeeps == IInv /\ [Next]_vars => IInv'
<1> SUFFICES ASSUME IInv, [Next]_vars PROVE IInv'
  OBVIOUS
<1>1. ASSUME NEW p \in Peers, NewPeer(p) PROVE IInv'
  BY <1>1, NewPeerKeeps
<1>2. ASSUME NEW p \in Peers, DonePeer(p) PROVE IInv'
  BY <1>2, DonePeerKeeps
<1>3. ASSUME NEW p \in Peers, ReceiveHeaders(p) PROVE IInv'
  BY ZenonT(40), <1>3, UnchangedKeeps DEF ReceiveHeaders, invVars
<1>4. ASSUME NEW p \in Peers, ReceiveInv(p) PROVE IInv'
  <2>1. ASSUME NEW l, NEW inv, HandleInv(p, l, inv) PROVE IInv'
    BY <2>1, UnchangedKeeps DEF HandleInv, headers, invVars
  <2>2. CASE UNCHANGED <<chain, peers, syncCandidate, requests, syncPeer, headers, heights,
                         updates, tip, silent, faults>>
    BY <2>2, UnchangedKeeps DEF headers, invVars
  <2> QED
    BY ZenonT(40), <1>4, <2>1, <2>2 DEF ReceiveInv
<1>5. ASSUME NEW p \in Peers, ReceiveBlock(p) PROVE IInv'
  BY <1>5, ReceiveBlockKeeps
<1>6. ASSUME NEW p \in Peers, ReceiveNotFound(p) PROVE IInv'
  BY ZenonT(40), <1>6, UnchangedKeeps DEF ReceiveNotFound, headers, invVars
<1>7. ASSUME NEW p \in Peers, IdleTimeout(p) \/ Extend(p) \/ LosePeer(p) PROVE IInv'
  BY <1>7, UnchangedKeeps DEF IdleTimeout, Extend, LosePeer, headers, invVars
<1>8. CASE StallSample
  BY ZenonT(40), <1>8, StallSampleKeeps
<1>9. ASSUME NEW u \in updates, UpdatePeerHeights(u) PROVE IInv'
  BY <1>9, UnchangedKeeps DEF UpdatePeerHeights, headers, invVars
<1>10. ASSUME NEW b \in LocalBlocks, LocalBlock(b) PROVE IInv'
  BY <1>10, UnchangedKeeps DEF LocalBlock, headers, invVars
<1>11. CASE UNCHANGED vars
  BY <1>11, UnchangedKeeps DEF vars, headers, invVars
<1> QED
  BY <1>1, <1>2, <1>3, <1>4, <1>5, <1>6, <1>7, <1>8, <1>9, <1>10, <1>11
  DEF Next, PeerStep, Receive

\* In every state the sync peer is a known peer, and headers-first mode has a
\* sync peer and a next checkpoint, which handleBlockMsg, handleHeadersMsg and
\* fetchHeaderBlocks dereference without a check.
THEOREM SyncPeerKnown == Spec => []SyncInv
<1>1. IInv => SyncInv
  BY DEF IInv
<1> QED
  BY <1>1, InitKeeps, NextKeeps, PTL DEF Spec

----------------------------------------------------------------------------
(* The header list. *)

\* Each element of the sequence is the parent of the next one.
Linked(s) == \A i \in 1 .. Len(s) - 1 : Parent[s[i + 1]] = s[i]

\* What handleHeadersMsg and resetHeaderState put on the list comes from the
\* chains of the peers and from the best chain.
ListInv ==
  /\ index \subseteq Blocks /\ orphans \subseteq Blocks /\ best \in Blocks
  /\ tip \in [Peers -> Blocks] /\ \A p \in Peers : tip[p] \in Anc[EndTip[p]]
  /\ headerList \in Seq(Blocks) /\ Linked(headerList)

\* Removing the front of the header list, as handleBlockMsg and handleHeadersMsg
\* do, leaves it linked.
LEMMA TailLinked ==
  ASSUME NEW s \in Seq(Blocks), s # <<>>, Linked(s)
  PROVE  Tail(s) \in Seq(Blocks) /\ Linked(Tail(s))
<1>1. Tail(s) \in Seq(Blocks) /\ Len(Tail(s)) = Len(s) - 1 /\ Len(s) \in Nat \ {0}
  OBVIOUS
<1>2. \A i \in 1 .. Len(s) - 1 : Tail(s)[i] = s[i + 1]
  OBVIOUS
<1> QED
  BY <1>1, <1>2 DEF Linked

\* The headers up to the checkpoint, where handleHeadersMsg stops, are linked.
LEMMA PrefixLinked ==
  ASSUME NEW s \in Seq(Blocks), Linked(s), NEW n \in 0 .. Len(s)
  PROVE  /\ SubSeq(s, 1, n) \in Seq(Blocks) /\ Len(SubSeq(s, 1, n)) = n
         /\ Linked(SubSeq(s, 1, n))
         /\ n > 0 => SubSeq(s, 1, n)[1] = s[1]
<1>1. SubSeq(s, 1, n) \in Seq(Blocks) /\ Len(SubSeq(s, 1, n)) = n
  OBVIOUS
<1>2. \A i \in 1 .. n : SubSeq(s, 1, n)[i] = s[i]
  OBVIOUS
<1> QED
  BY <1>1, <1>2 DEF Linked

\* Appending headers of which the first one connects to the last on the list.
LEMMA ConcatLinked ==
  ASSUME NEW s \in Seq(Blocks), s # <<>>, Linked(s),
         NEW t \in Seq(Blocks), t # <<>>, Linked(t), Parent[t[1]] = s[Len(s)]
  PROVE  s \o t \in Seq(Blocks) /\ s \o t # <<>> /\ Linked(s \o t)
<1>1. /\ s \o t \in Seq(Blocks) /\ Len(s \o t) = Len(s) + Len(t)
      /\ Len(s) \in Nat \ {0} /\ Len(t) \in Nat \ {0}
  OBVIOUS
<1>2. \A i \in 1 .. Len(s) : (s \o t)[i] = s[i]
  OBVIOUS
<1>3. \A i \in Len(s) + 1 .. Len(s) + Len(t) : (s \o t)[i] = t[i - Len(s)]
  OBVIOUS
<1>4. ASSUME NEW i \in 1 .. Len(s \o t) - 1
      PROVE  Parent[(s \o t)[i + 1]] = (s \o t)[i]
  <2>1. CASE i < Len(s)
    BY <1>1, <1>2, <2>1 DEF Linked
  <2>2. CASE i = Len(s)
    BY <1>1, <1>2, <1>3, <2>2
  <2>3. CASE i > Len(s)
    <3>1. /\ i - Len(s) \in 1 .. Len(t) - 1
          /\ (s \o t)[i] = t[i - Len(s)]
          /\ (s \o t)[i + 1] = t[(i - Len(s)) + 1]
      BY <1>1, <1>3, <2>3
    <3> QED
      BY <3>1 DEF Linked
  <2> QED
    BY <1>1, <2>1, <2>2, <2>3
<1> QED
  BY <1>1, <1>4 DEF Linked

\* What locateInventory returns on a peer's chain is a piece of that chain.
LEMMA LocateLinked ==
  ASSUME NEW t \in Blocks, NEW loc, NEW stop, NEW max \in Nat
  PROVE  Locate(t, loc, stop, max) \in Seq(Blocks) /\ Linked(Locate(t, loc, stop, max))
<1> DEFINE known == (loc \cap Anc[t]) \cup {Genesis}
           start == CHOOSE b \in known : \A a \in known : Height[a] <= Height[b]
           last == IF stop \in Anc[t] /\ Height[stop] > Height[start] THEN stop ELSE t
           m == Height[start] + 2
           n == Smaller(Height[last] + 1, Height[start] + 1 + max)
<1>1. known \in SUBSET Anc[t] /\ known # {}
  BY PathAssumption
<1>2. start \in known
  <2> HIDE DEF known
  <2>1. \A S \in SUBSET Anc[t] : S # {} => \E a \in S : \A c \in S : Height[c] <= Height[a]
    BY PathAssumption
  <2>2. \E b \in known : \A a \in known : Height[a] <= Height[b]
    BY <1>1, <2>1
  <2> QED
    BY <2>2
<1>3. start \in Anc[t] /\ last \in Anc[t]
  BY ZenonT(40), <1>1, <1>2, PathAssumption
<1> HIDE DEF known, start, last
<1>4. Height[start] \in Nat /\ Height[last] \in Nat /\ Height[last] <= Height[t] /\ Height[t] \in Nat
  <2>1. Height[t] \in Nat /\ \A a \in Anc[t] : Height[a] \in 0 .. Height[t]
    BY PathAssumption
  <2> QED
    BY <1>3, <2>1
<1>5. m \in Nat /\ m >= 1 /\ n \in Nat /\ n <= Height[t] + 1
  BY <1>4 DEF Smaller
<1>6. Path[t] \in Seq(Blocks) /\ Len(Path[t]) = Height[t] + 1
  BY PathAssumption
<1> DEFINE s == SubSeq(Path[t], m, n)
<1> HIDE DEF m, n
<1>7. CASE m <= n
  <2>1. s \in Seq(Blocks) /\ Len(s) = n - m + 1
    BY <1>4, <1>5, <1>6, <1>7
  <2>2. \A i \in 1 .. n - m + 1 : s[i] = Path[t][m + i - 1]
    BY <1>4, <1>5, <1>6, <1>7
  <2>3. ASSUME NEW i \in 1 .. Len(s) - 1 PROVE Parent[s[i + 1]] = s[i]
    <3>1. s[i] = Path[t][m + i - 1] /\ s[i + 1] = Path[t][(m + i - 1) + 1]
      BY <1>5, <2>1, <2>2
    <3>2. m + i - 1 \in 1 .. Height[t]
      BY <1>4, <1>5, <2>1
    <3>3. \A j \in 1 .. Height[t] : Parent[Path[t][j + 1]] = Path[t][j]
      BY PathAssumption
    <3> QED
      BY <3>1, <3>2, <3>3
  <2> QED
    BY ZenonT(40), <2>1, <2>3 DEF Locate, Linked, known, start, last, m, n
<1>8. CASE m > n
  <2>1. s \in Seq(Blocks) /\ Len(s) = 0
    BY <1>5, <1>6, <1>8
  <2>2. ASSUME NEW i \in 1 .. Len(s) - 1 PROVE FALSE
    BY <2>1
  <2>3. Linked(s)
    BY ZenonT(40), <2>2 DEF Linked
  <2> QED
    BY ZenonT(40), <2>1, <2>3 DEF Locate, known, start, last, m, n
<1> QED
  BY <1>5, <1>7, <1>8

\* Taking the block off the front of the list in handleBlockMsg.
LEMMA ListWithoutLinked ==
  ASSUME ListInv, NEW b
  PROVE  ListWithout(b) \in Seq(Blocks) /\ Linked(ListWithout(b))
<1>1. CASE AtFront(b) /\ b # nextCheckpoint
  BY <1>1, TailLinked DEF ListInv, ListWithout, AtFront
<1>2. CASE ~(AtFront(b) /\ b # nextCheckpoint)
  BY <1>2 DEF ListInv, ListWithout
<1> QED
  BY <1>1, <1>2

\* updateSyncPeer keeps the list or starts it over with the best block.
LEMMA UpdateSyncPeerLinked ==
  ASSUME ListInv, NEW known, NEW links, NEW reqs, UpdateSyncPeer(known, links, reqs)
  PROVE  headerList' \in Seq(Blocks) /\ Linked(headerList')
<1>1. headerList' = headerList \/ headerList' = <<best>> \/ headerList' = <<>>
  BY DEF UpdateSyncPeer, ResetHeaderState
<1>2. <<best>> \in Seq(Blocks) /\ Linked(<<best>>)
  BY DEF ListInv, Linked
<1>3. <<>> \in Seq(Blocks) /\ Linked(<<>>)
  BY DEF Linked
<1> QED
  BY ZenonT(40), <1>1, <1>2, <1>3 DEF ListInv

\* ProcessBlock adds a block and orphans to the index.
LEMMA ProcessBlockTypes ==
  ASSUME ListInv, NEW b \in Blocks, ProcessBlock(b)
  PROVE  index' \subseteq Blocks /\ orphans' \subseteq Blocks /\ best' \in Blocks
<1>1. CASE IsOrphan(b)
  BY <1>1 DEF ProcessBlock, ListInv
<1>2. CASE ~IsOrphan(b)
  <2>1. Accepted(b) \subseteq Blocks
    BY DEF Accepted, ListInv
  <2>2. index' = index \cup Accepted(b) /\ orphans' = orphans \ Accepted(b)
    BY <1>2 DEF ProcessBlock
  <2>3. best' = best \/ best' \in Accepted(b)
    BY <1>2 DEF ProcessBlock
  <2> QED
    BY <2>1, <2>2, <2>3 DEF ListInv
<1> QED
  BY <1>1, <1>2

\* What ListInv speaks about besides the list.
nodeVars == <<index, orphans, best, tip>>

\* A step that changes nothing but the list.
LEMMA ListOnly ==
  ASSUME ListInv, UNCHANGED nodeVars, headerList' \in Seq(Blocks), Linked(headerList')
  PROVE  ListInv'
  BY ZenonT(40) DEF ListInv, nodeVars, Linked

\* A sequence that is not empty has a first element.
LEMMA NonEmptyLen ==
  ASSUME NEW S, NEW s \in Seq(S), s # <<>>
  PROVE  Len(s) \in Nat \ {0} /\ DOMAIN s = 1 .. Len(s)
OBVIOUS

\* Headers are appended where they connect, whichever peer sent them.
LEMMA ReceiveHeadersLinked ==
  ASSUME ListInv, NEW p \in Peers, ReceiveHeaders(p)
  PROVE  ListInv'
<1> DEFINE hs == Locate(tip[p], Request(p).loc, Request(p).stop, MaxHeadersPerMsg)
           at == {i \in DOMAIN hs : Height[hs[i]] = Height[nextCheckpoint]}
           n == IF at = {} THEN Len(hs) ELSE CHOOSE i \in at : TRUE
           list == headerList \o SubSeq(hs, 1, n)
<1>1. UNCHANGED nodeVars
  BY ZenonT(40) DEF ReceiveHeaders, chain, nodeVars
<1>2. \/ headerList' = headerList
      \/ hs # <<>> /\ Connects(hs[1]) /\ headerList' \in {list, Tail(list)}
  BY ZenonT(40) DEF ReceiveHeaders
<1>3. CASE headerList' = headerList
  BY <1>1, <1>3, ListOnly DEF ListInv
<1>4. CASE hs # <<>> /\ Connects(hs[1]) /\ headerList' \in {list, Tail(list)}
  <2>1. hs \in Seq(Blocks) /\ Linked(hs)
    <3>1. tip[p] \in Blocks /\ MaxHeadersPerMsg \in Nat
      BY LimitsAssumption DEF ListInv
    <3> QED
      BY <3>1, LocateLinked
  <2> HIDE DEF hs
  <2>2. n \in 1 .. Len(hs)
    <3>1. Len(hs) \in Nat \ {0} /\ DOMAIN hs = 1 .. Len(hs)
      <4>1. hs # <<>>
        BY <1>4
      <4> QED
        BY ZenonT(40), <2>1, <4>1, NonEmptyLen
    <3>2. CASE at = {}
      BY <3>1, <3>2
    <3>3. CASE at # {}
      <4>1. (CHOOSE i \in at : TRUE) \in at
        BY <3>3
      <4>2. at \subseteq DOMAIN hs
        OBVIOUS
      <4> HIDE DEF at
      <4> QED
        BY <3>1, <3>3, <4>1, <4>2
    <3> QED
      BY <3>2, <3>3
  <2> HIDE DEF n
  <2>3. /\ SubSeq(hs, 1, n) \in Seq(Blocks) /\ Len(SubSeq(hs, 1, n)) = n
        /\ Linked(SubSeq(hs, 1, n)) /\ SubSeq(hs, 1, n)[1] = hs[1]
    BY <2>1, <2>2, PrefixLinked
  <2>4. SubSeq(hs, 1, n) # <<>>
    BY <2>2, <2>3
  <2>5. list \in Seq(Blocks) /\ list # <<>> /\ Linked(list)
    BY ZenonT(40), <1>4, <2>3, <2>4, ConcatLinked DEF ListInv, Connects
  <2> HIDE DEF list
  <2>6. headerList' \in Seq(Blocks) /\ Linked(headerList')
    BY ZenonT(40), <1>4, <2>5, TailLinked
  <2> QED
    BY <1>1, <2>6, ListOnly
<1> QED
  BY ZenonT(40), <1>2, <1>3, <1>4

\* handleBlockMsg takes the block off the list or empties the list.
LEMMA ReceiveBlockLinked ==
  ASSUME ListInv, NEW p \in Peers, ReceiveBlock(p)
  PROVE  ListInv'
<1> DEFINE b == Request(p).blocks[1]
<1>1. b \in Blocks /\ UNCHANGED tip
  BY ZenonT(40), PathAssumption DEF ReceiveBlock, ListInv
<1>2. headerList' \in {headerList, ListWithout(b), <<>>}
  BY ZenonT(40) DEF ReceiveBlock, BlockProcessed, headers
<1>3. ListWithout(b) \in Seq(Blocks) /\ Linked(ListWithout(b))
  BY ListWithoutLinked
<1>4. <<>> \in Seq(Blocks) /\ Linked(<<>>)
  BY DEF Linked
<1>5. headerList' \in Seq(Blocks) /\ Linked(headerList')
  BY ZenonT(40), <1>2, <1>3, <1>4 DEF ListInv
<1>6. index' \subseteq Blocks /\ orphans' \subseteq Blocks /\ best' \in Blocks
  <2>1. UNCHANGED chain \/ ProcessBlock(b)
    BY ZenonT(40) DEF ReceiveBlock
  <2> QED
    BY ZenonT(40), <1>1, <2>1, ProcessBlockTypes DEF chain, ListInv
<1> QED
  BY ZenonT(40), <1>1, <1>5, <1>6 DEF ListInv, Linked

\* An element of a sequence over a set is in the set.
LEMMA ElementOf ==
  ASSUME NEW S, NEW s \in Seq(S), NEW i \in 1 .. Len(s)
  PROVE  s[i] \in S
OBVIOUS

\* What PathAssumption says of the constants that are no functions of a block.
LEMMA PathTypes ==
  /\ Genesis \in Blocks /\ LocalBlocks \subseteq Blocks /\ Checkpoints \subseteq Blocks
  /\ StartTip \in [Peers -> Blocks] /\ EndTip \in [Peers -> Blocks]
  /\ \A p \in Peers : StartTip[p] \in Anc[EndTip[p]]
BY ZenonT(40), PathAssumption

\* What PathAssumption says of the path to one block.
LEMMA PathOf ==
  ASSUME NEW b \in Blocks
  PROVE  /\ Genesis \in Anc[b] /\ b \in Anc[b] /\ Anc[b] \subseteq Blocks /\ Height[b] \in Nat
         /\ Path[b] \in Seq(Anc[b]) /\ Len(Path[b]) = Height[b] + 1
BY ZenonT(40), PathAssumption

\* What PathAssumption says of a block on the path to another.
LEMMA OnPath ==
  ASSUME NEW b \in Blocks, NEW a \in Anc[b]
  PROVE  Height[a] \in 0 .. Height[b] /\ Path[b][Height[a] + 1] = a
BY PathAssumption

\* A peer's chain grows along the one that ends in EndTip.
LEMMA ExtendLinked ==
  ASSUME ListInv, NEW p \in Peers, Extend(p)
  PROVE  ListInv'
<1> DEFINE e == EndTip[p]
           b == Path[e][Height[tip[p]] + 2]
<1>1. e \in Blocks /\ tip[p] \in Anc[e] /\ e \in Anc[e] /\ tip[p] # e
  <2>1. e \in Blocks
    BY PathTypes
  <2>2. e \in Anc[e]
    BY ZenonT(40), <2>1, PathOf
  <2>3. tip[p] \in Anc[e] /\ tip[p] # e
    BY DEF ListInv, Extend
  <2> QED
    BY <2>1, <2>2, <2>3
<1>2. /\ Height[tip[p]] \in Nat /\ Height[e] \in Nat /\ Height[tip[p]] <= Height[e]
      /\ Path[e][Height[tip[p]] + 1] = tip[p] /\ Path[e][Height[e] + 1] = e
  <2>1. Height[e] \in Nat
    BY ZenonT(40), <1>1, PathOf
  <2>2. Height[tip[p]] \in 0 .. Height[e] /\ Path[e][Height[tip[p]] + 1] = tip[p]
    BY <1>1, OnPath
  <2>3. Path[e][Height[e] + 1] = e
    BY <1>1, OnPath
  <2>4. \A h \in Nat : \A k \in 0 .. h : k \in Nat /\ k <= h
    OBVIOUS
  <2>5. Height[tip[p]] \in Nat /\ Height[tip[p]] <= Height[e]
    BY ZenonT(40), <2>1, <2>2, <2>4
  <2> QED
    BY <2>1, <2>2, <2>3, <2>5, Zenon
<1>3. Height[tip[p]] # Height[e]
  BY <1>1, <1>2
<1>4. Path[e] \in Seq(Anc[e]) /\ Len(Path[e]) = Height[e] + 1 /\ Anc[e] \subseteq Blocks
  BY ZenonT(40), <1>1, PathOf
<1>5. b \in Anc[e] /\ b \in Blocks
  <2>1. Height[tip[p]] + 2 \in 1 .. Height[e] + 1
    BY <1>2, <1>3
  <2>2. Height[tip[p]] + 2 \in 1 .. Len(Path[e])
    BY <1>4, <2>1
  <2>3. b \in Anc[e]
    BY ZenonT(40), <1>4, <2>2, ElementOf
  <2> QED
    BY ZenonT(40), <1>4, <2>3
<1>6. tip' = [tip EXCEPT ![p] = b] /\ UNCHANGED <<index, orphans, best, headerList>>
  BY DEF Extend, chain, headers
<1> HIDE DEF b
<1> QED
  BY <1>5, <1>6 DEF ListInv, Linked

\* Every step keeps the list linked.
LEMMA NextLinked == ListInv /\ [Next]_vars => ListInv'
<1> SUFFICES ASSUME ListInv, [Next]_vars PROVE ListInv'
  OBVIOUS
<1>0. ASSUME UNCHANGED <<index, orphans, best, tip, headerList>> PROVE ListInv'
  BY ZenonT(40), <1>0 DEF ListInv, Linked
<1>1. ASSUME NEW p \in Peers, NewPeer(p) PROVE ListInv'
  BY <1>0, <1>1 DEF NewPeer, chain
<1>2. ASSUME NEW p \in Peers, DonePeer(p) PROVE ListInv'
  <2>1. UNCHANGED nodeVars
    BY ZenonT(40), <1>2 DEF DonePeer, chain, nodeVars
  <2>2. \/ \E known, links, reqs : UpdateSyncPeer(known, links, reqs)
        \/ UNCHANGED headerList
    BY ZenonT(40), <1>2 DEF DonePeer, headers
  <2>3. headerList' \in Seq(Blocks) /\ Linked(headerList')
    BY <2>2, UpdateSyncPeerLinked DEF ListInv
  <2> QED
    BY <2>1, <2>3, ListOnly
<1>3. ASSUME NEW p \in Peers, ReceiveHeaders(p) PROVE ListInv'
  BY <1>3, ReceiveHeadersLinked
<1>4. ASSUME NEW p \in Peers, ReceiveInv(p) PROVE ListInv'
  BY ZenonT(40), <1>0, <1>4 DEF ReceiveInv, HandleInv, chain, headers
<1>5. ASSUME NEW p \in Peers, ReceiveBlock(p) PROVE ListInv'
  BY <1>5, ReceiveBlockLinked
<1>6. ASSUME NEW p \in Peers, ReceiveNotFound(p) \/ IdleTimeout(p) \/ LosePeer(p) PROVE ListInv'
  BY <1>0, <1>6 DEF ReceiveNotFound, IdleTimeout, LosePeer, chain, headers
<1>7. ASSUME NEW p \in Peers, Extend(p) PROVE ListInv'
  BY <1>7, ExtendLinked
<1>8. CASE StallSample
  <2>1. UNCHANGED nodeVars
    BY <1>8 DEF StallSample, chain, nodeVars
  <2>2. \E known, links, reqs : UpdateSyncPeer(known, links, reqs)
    BY <1>8 DEF StallSample
  <2>3. headerList' \in Seq(Blocks) /\ Linked(headerList')
    BY ZenonT(40), <2>2, UpdateSyncPeerLinked
  <2> QED
    BY <2>1, <2>3, ListOnly
<1>9. ASSUME NEW u \in updates, UpdatePeerHeights(u) PROVE ListInv'
  BY ZenonT(40), <1>0, <1>9 DEF UpdatePeerHeights, chain, headers
<1>10. ASSUME NEW b \in LocalBlocks, LocalBlock(b) PROVE ListInv'
  <2>1. b \in Blocks /\ ProcessBlock(b) /\ UNCHANGED <<tip, headerList>>
    BY <1>10, PathAssumption DEF LocalBlock, headers
  <2> QED
    BY ZenonT(40), <2>1, ProcessBlockTypes DEF ListInv, Linked
<1>11. CASE UNCHANGED vars
  BY ZenonT(40), <1>0, <1>11 DEF vars, chain, headers
<1> QED
  BY ZenonT(40), <1>1, <1>2, <1>3, <1>4, <1>5, <1>6, <1>7, <1>8, <1>9, <1>10, <1>11
  DEF Next, PeerStep, Receive

\* The list holds the genesis block at most at the start.
LEMMA InitList == Init => ListInv
<1>1. <<Genesis>> \in Seq(Blocks) /\ Len(<<Genesis>>) = 1 /\ <<>> \in Seq(Blocks) /\ Len(<<>>) = 0
  BY PathTypes
<1>2. Init => headerList \in Seq(Blocks) /\ Linked(headerList)
  BY <1>1 DEF Init, Linked
<1>3. Init => /\ index \subseteq Blocks /\ orphans \subseteq Blocks /\ best \in Blocks
  BY PathTypes DEF Init
<1>4. Init => tip = StartTip
  BY DEF Init
<1> QED
  BY ZenonT(40), <1>2, <1>3, <1>4, PathTypes DEF ListInv

\* The headers on the list link together in every state: handleBlockMsg adds
\* their blocks with BFFastAdd because they do.
THEOREM HeaderListLinked == Spec => []HeadersLinked
<1>2. ListInv => HeadersLinked
  BY DEF ListInv, HeadersLinked, Linked
<1> QED
  BY <1>2, InitList, NextLinked, PTL DEF Spec

----------------------------------------------------------------------------
(* The connections. *)

\* A message that names blocks names at least one.
MsgOK(m) ==
  m.type \in {"inv", "getdata"} =>
    m \in [type : {"inv", "getdata"}, blocks : Seq(Blocks) \ {<<>>}]

\* The parts of a connection.
LinkIs(l, u, S, net, g, h, c) ==
  /\ u \in BOOLEAN /\ net \in Seq(S) /\ \A m \in S : MsgOK(m)
  /\ l = [up |-> u, net |-> net, getBlocks |-> g, getHeaders |-> h, continueHash |-> c]
LinkOK(l) == \E u, S, net, g, h, c : LinkIs(l, u, S, net, g, h, c)
LinksOK(f) == f = [p \in Peers |-> f[p]] /\ \A p \in Peers : LinkOK(f[p])

\* One connection changes.
LEMMA LinksExcept ==
  ASSUME NEW f, LinksOK(f), NEW p \in Peers, NEW l, LinkOK(l)
  PROVE  LinksOK([f EXCEPT ![p] = l])
<1> DEFINE g == [f EXCEPT ![p] = l]
<1>1. g = [q \in Peers |-> g[q]] /\ \A q \in Peers : g[q] = IF q = p THEN l ELSE f[q]
  BY DEF LinksOK
<1> HIDE DEF g
<1>2. LinksOK(g)
  BY <1>1 DEF LinksOK
<1>3. QED
  BY <1>2 DEF g

\* A message joins those on their way.
LEMMA AppendNet ==
  ASSUME NEW S, NEW net \in Seq(S), \A m \in S : MsgOK(m), NEW n, MsgOK(n)
  PROVE  \E R : Append(net, n) \in Seq(R) /\ \A m \in R : MsgOK(m)
<1>1. net \in Seq(S \cup {n})
  OBVIOUS
<1>2. Append(net, n) \in Seq(S \cup {n})
  BY <1>1
<1>3. QED
  BY <1>2

\* A connection that is made, and none.
LEMMA NewLink == LinkOK(Link) /\ LinkOK(NoLink)
<1>1. <<>> \in Seq({})
  OBVIOUS
<1>2. LinkIs(Link, TRUE, {}, <<>>, None, None, None) /\ LinkIs(NoLink, FALSE, {}, <<>>, None, None, None)
  BY <1>1 DEF LinkIs, Conn, Link, NoLink
<1>3. QED
  BY ZenonT(40), <1>2 DEF LinkOK

\* Messages are queued.
LEMMA SendOK ==
  ASSUME NEW l, LinkOK(l), NEW m, MsgOK(m)
  PROVE  LinkOK(Send(l, m))
<1>1. PICK u, S, net, g, h, c : LinkIs(l, u, S, net, g, h, c)
  BY DEF LinkOK
<1>2. CASE ~u
  BY <1>1, <1>2 DEF Send, LinkIs
<1>3. CASE u
  <2>1. PICK R : Append(net, m) \in Seq(R) /\ \A n \in R : MsgOK(n)
    BY <1>1, AppendNet DEF LinkIs
  <2>2. LinkIs(Send(l, m), u, R, Append(net, m), g, h, c)
    BY ZenonT(40), <1>1, <1>3, <2>1 DEF Send, LinkIs
  <2>3. QED
    BY ZenonT(40), <2>2 DEF LinkOK
<1>4. QED
  BY <1>1, <1>2, <1>3 DEF LinkIs

\* A field that no message is in changes.
LEMMA FieldOK ==
  ASSUME NEW l, LinkOK(l), NEW x
  PROVE  /\ LinkOK([l EXCEPT !.getBlocks = x]) /\ LinkOK([l EXCEPT !.getHeaders = x])
         /\ LinkOK([l EXCEPT !.continueHash = x])
<1>1. PICK u, S, net, g, h, c : LinkIs(l, u, S, net, g, h, c)
  BY DEF LinkOK
<1>2. /\ LinkIs([l EXCEPT !.getBlocks = x], u, S, net, x, h, c)
      /\ LinkIs([l EXCEPT !.getHeaders = x], u, S, net, g, x, c)
      /\ LinkIs([l EXCEPT !.continueHash = x], u, S, net, g, h, x)
  BY <1>1 DEF LinkIs
<1>3. QED
  BY <1>2 DEF LinkOK

\* Requests for inventories, headers and blocks.
LEMMA PushOK ==
  ASSUME NEW l, LinkOK(l), NEW begin, NEW loc, NEW stop
  PROVE  LinkOK(PushGetBlocks(l, begin, loc, stop)) /\ LinkOK(PushGetHeaders(l, begin, loc, stop))
<1>1. MsgOK([type |-> "getblocks", loc |-> loc, stop |-> stop])
      /\ MsgOK([type |-> "getheaders", loc |-> loc, stop |-> stop])
  BY DEF MsgOK
<1>2. QED
  BY ZenonT(40), <1>1, SendOK, FieldOK DEF PushGetBlocks, PushGetHeaders

\* Blocks are asked for.
LEMMA PushDataOK ==
  ASSUME NEW l, LinkOK(l), NEW bs \in Seq(Blocks)
  PROVE  LinkOK(PushGetData(l, bs))
<1>1. bs # <<>> => MsgOK([type |-> "getdata", blocks |-> bs])
  BY ZenonT(40) DEF MsgOK
<1>2. QED
  BY <1>1, SendOK DEF PushGetData

\* Several inventories are asked for.
LEMMA PushEachOK ==
  ASSUME NEW l, LinkOK(l), NEW Q, NEW qs \in Seq(Q)
  PROVE  LinkOK(PushEach(l, qs))
<1> DEFINE key(i) == IF i = 0 THEN l.getBlocks ELSE <<qs[i].begin, qs[i].stop>>
           I == {i \in DOMAIN qs : key(i) # key(i - 1)}
           new == Kept(qs, I)
           msg(i) == [type |-> "getblocks", loc |-> new[i].loc, stop |-> new[i].stop]
           msgs == [i \in DOMAIN new |-> msg(i)]
           M == {msg(i) : i \in DOMAIN new}
<1>1. PICK u, S, net, g, h, c : LinkIs(l, u, S, net, g, h, c)
  BY DEF LinkOK
<1>2. new \in Seq(Q)
  BY ZenonT(40), KeptEntries
<1>3. \A m \in M : MsgOK(m)
  <2>1. ASSUME NEW i \in DOMAIN new PROVE MsgOK(msg(i))
    BY DEF MsgOK
  <2> HIDE DEF new, msg
  <2>2. QED
    BY ZenonT(40), <2>1
<1>4. msgs \in Seq(M)
  <2>1. DOMAIN new = 1 .. Len(new) /\ Len(new) \in Nat
    BY <1>2
  <2> HIDE DEF new
  <2>2. QED
    BY <2>1
<1>5. PushEach(l, qs) = [l EXCEPT !.net = IF l.up THEN @ \o msgs ELSE @, !.getBlocks = key(Len(qs))]
  BY DEF PushEach
<1> HIDE DEF M, msgs, new
<1>6. net \in Seq(S \cup M) /\ msgs \in Seq(S \cup M)
  BY <1>1, <1>4 DEF LinkIs
<1>7. net \o msgs \in Seq(S \cup M)
  BY <1>6
<1>8. LinkIs(PushEach(l, qs), u, S \cup M, IF u THEN net \o msgs ELSE net, key(Len(qs)), h, c)
  <2> DEFINE k == key(Len(qs))
  <2> HIDE DEF k
  <2>4. l = [up |-> u, net |-> net, getBlocks |-> g, getHeaders |-> h, continueHash |-> c]
    BY <1>1 DEF LinkIs
  <2>5. l.up = u /\ l.net = net
    BY <2>4
  <2> DEFINE n == IF u THEN net \o msgs ELSE net
  <2>6. [l EXCEPT !.net = IF l.up THEN @ \o msgs ELSE @, !.getBlocks = k] = [l EXCEPT !.net = n, !.getBlocks = k]
    BY <2>5
  <2> HIDE DEF n
  <2>7. [l EXCEPT !.net = n, !.getBlocks = k]
          = [up |-> u, net |-> n, getBlocks |-> k, getHeaders |-> h, continueHash |-> c]
    <3> DEFINE m == [l EXCEPT !.net = n]
    <3>1. m = [up |-> u, net |-> n, getBlocks |-> g, getHeaders |-> h, continueHash |-> c]
      BY <2>4
    <3> HIDE DEF m
    <3>2. [m EXCEPT !.getBlocks = k] = [up |-> u, net |-> n, getBlocks |-> k, getHeaders |-> h, continueHash |-> c]
      BY <3>1
    <3>3. QED
      BY <3>2 DEF m
  <2>1. [l EXCEPT !.net = IF l.up THEN @ \o msgs ELSE @, !.getBlocks = k]
          = [up |-> u, net |-> IF u THEN net \o msgs ELSE net, getBlocks |-> k, getHeaders |-> h, continueHash |-> c]
    BY <2>6, <2>7 DEF n
  <2>2. QED
    BY ZenonT(40), <1>1, <1>3, <1>5, <1>6, <1>7, <2>1 DEF LinkIs, k
<1>9. QED
  BY <1>8 DEF LinkOK

\* A peer is disconnected.
LEMMA DisconnectOK ==
  ASSUME NEW l, LinkOK(l)
  PROVE  LinkOK(Disconnect(l))
<1>1. PICK u, S, net, g, h, c : LinkIs(l, u, S, net, g, h, c)
  BY DEF LinkOK
<1> DEFINE data == {i \in DOMAIN net : net[i].type = "getdata"}
           first == CHOOSE i \in data : \A j \in data : i <= j
           cut == [net[first] EXCEPT !.blocks = SubSeq(@, 1, 1)]
<1>2. net \in Seq(S) /\ DOMAIN net = 1 .. Len(net) /\ Len(net) \in Nat
  BY <1>1 DEF LinkIs
<1>3. \E R : InFlight(net) \in Seq(R) /\ \A m \in R : MsgOK(m)
  <2>1. CASE data = {}
    BY <1>1, <1>2, <2>1 DEF InFlight, LinkIs
  <2>2. CASE data # {}
    <3>1. \A i \in data : i \in Nat
      BY <1>2
    <3>2. \E i \in data : \A j \in data : i <= j
      BY ZenonT(40), <2>2, <3>1, LeastNat
    <3>3. first \in data
      BY <3>2
    <3>4. first \in 1 .. Len(net) /\ net[first] \in S /\ net[first].type = "getdata"
      BY <1>2, <3>3
    <3> HIDE DEF first, data
    <3>5. net[first] \in [type : {"inv", "getdata"}, blocks : Seq(Blocks) \ {<<>>}]
      BY <1>1, <3>4 DEF LinkIs, MsgOK
    <3>6. SubSeq(net[first].blocks, 1, 1) \in Seq(Blocks) \ {<<>>}
      <4> DEFINE bs == net[first].blocks
      <4>1. bs \in Seq(Blocks) /\ bs # <<>>
        BY <3>5
      <4> HIDE DEF bs
      <4>2. Len(bs) \in Nat /\ Len(bs) >= 1
        BY <4>1
      <4>3. SubSeq(bs, 1, 1) \in Seq(Blocks) /\ Len(SubSeq(bs, 1, 1)) = 1
        BY <4>1, <4>2
      <4> DEFINE ss == SubSeq(bs, 1, 1)
      <4> HIDE DEF ss
      <4>6. Len(ss) = 1
        BY <4>3 DEF ss
      <4>7. ss # <<>>
        BY <4>6
      <4>4. SubSeq(bs, 1, 1) # <<>>
        BY <4>7 DEF ss
      <4>5. QED
        BY <4>3, <4>4 DEF bs
    <3>7. cut \in [type : {"inv", "getdata"}, blocks : Seq(Blocks) \ {<<>>}]
      BY ZenonT(40), <3>5, <3>6
    <3>8. MsgOK(cut)
      BY <3>7 DEF MsgOK
    <3>9. SubSeq(net, 1, first - 1) \in Seq(S)
      BY <1>2, <3>4
    <3>10. InFlight(net) = Append(SubSeq(net, 1, first - 1), cut)
      BY ZenonT(40), <2>2 DEF InFlight, first, data
    <3> HIDE DEF cut
    <3>11. \A m \in S : MsgOK(m)
      BY <1>1 DEF LinkIs
    <3>12. \E R : Append(SubSeq(net, 1, first - 1), cut) \in Seq(R) /\ \A m \in R : MsgOK(m)
      BY ZenonT(40), <3>8, <3>9, <3>11, AppendNet
    <3>13. QED
      BY ZenonT(40), <3>10, <3>12
  <2>3. QED
    BY ZenonT(40), <2>1, <2>2
<1>4. PICK R : InFlight(net) \in Seq(R) /\ \A m \in R : MsgOK(m)
  BY <1>3
<1> HIDE DEF data, first, cut
<1>5. LinkIs(Disconnect(l), FALSE, R, InFlight(net), g, h, c)
  <2> DEFINE n == InFlight(net)
  <2> HIDE DEF n
  <2>4. l = [up |-> u, net |-> net, getBlocks |-> g, getHeaders |-> h, continueHash |-> c]
    BY <1>1 DEF LinkIs
  <2>1. Disconnect(l) = [l EXCEPT !.up = FALSE, !.net = n]
    BY <2>4 DEF Disconnect, n
  <2>2. Disconnect(l) = [up |-> FALSE, net |-> n, getBlocks |-> g, getHeaders |-> h, continueHash |-> c]
    BY ZenonT(40), <2>1, <2>4
  <2>3. QED
    BY ZenonT(40), <1>4, <2>2 DEF LinkIs, n
<1>6. QED
  BY ZenonT(40), <1>5 DEF LinkOK

\* The first request, and the connection without it.
LEMMA RestOK ==
  ASSUME NEW p, LinkOK(link[p]), link[p].net # <<>>
  PROVE  LinkOK(Rest(p)) /\ MsgOK(Request(p))
<1>1. PICK u, S, net, g, h, c : LinkIs(link[p], u, S, net, g, h, c)
  BY ZenonT(40) DEF LinkOK
<1>2. net \in Seq(S) /\ net # <<>> /\ \A m \in S : MsgOK(m)
  BY <1>1 DEF LinkIs
<1>3. Tail(net) \in Seq(S) /\ net[1] \in S
  BY <1>2
<1>4. LinkIs(Rest(p), u, S, Tail(net), g, h, c) /\ Request(p) = net[1]
  <2> DEFINE n == Tail(net)
  <2> HIDE DEF n
  <2>4. link[p] = [up |-> u, net |-> net, getBlocks |-> g, getHeaders |-> h, continueHash |-> c]
    BY ZenonT(40), <1>1 DEF LinkIs
  <2>5. link[p].net = net
    BY <2>4
  <2>1. Rest(p) = [link[p] EXCEPT !.net = n] /\ Request(p) = net[1]
    BY <2>5 DEF Rest, Request, n
  <2>2. Rest(p) = [up |-> u, net |-> n, getBlocks |-> g, getHeaders |-> h, continueHash |-> c]
    BY <2>1, <2>4
  <2>3. QED
    BY ZenonT(40), <1>1, <1>3, <2>1, <2>2 DEF LinkIs, n
<1>5. QED
  BY ZenonT(40), <1>2, <1>3, <1>4 DEF LinkOK

\* The connection after a block was sent.
LEMMA BlockSentOK ==
  ASSUME NEW p \in Peers, LinkOK(link[p]), link[p].net # <<>>, Request(p).type = "getdata", tip[p] \in Blocks
  PROVE  LinkOK(BlockSent(p)) /\ Request(p).blocks \in Seq(Blocks) /\ Request(p).blocks[1] \in Blocks
<1> DEFINE bs == Tail(Request(p).blocks)
           one == [type |-> "getdata", blocks |-> bs]
           inv == [type |-> "inv", blocks |-> <<tip[p]>>]
<1>1. PICK u, S, net, g, h, c : LinkIs(link[p], u, S, net, g, h, c)
  BY ZenonT(40) DEF LinkOK
<1>2. net \in Seq(S) /\ net # <<>> /\ (\A m \in S : MsgOK(m)) /\ net = link[p].net
  BY <1>1 DEF LinkIs
<1>3. Request(p).blocks \in Seq(Blocks) /\ Request(p).blocks # <<>>
  BY RestOK DEF MsgOK
<1>4. bs \in Seq(Blocks) /\ Request(p).blocks[1] \in Blocks
  BY <1>3
<1>5. Tail(net) \in Seq(S)
  BY <1>2
<1> DEFINE rest == IF bs = <<>> THEN Tail(net) ELSE <<one>> \o Tail(net)
           R == S \cup (IF bs = <<>> THEN {} ELSE {one}) \cup {inv}
<1>6. MsgOK(inv) /\ (bs # <<>> => MsgOK(one))
  <2>1. <<tip[p]>> \in Seq(Blocks) /\ <<tip[p]>> # <<>>
    OBVIOUS
  <2> HIDE DEF bs
  <2>2. QED
    BY <1>4, <2>1 DEF MsgOK
<1> HIDE DEF bs
<1>7. \A m \in R : MsgOK(m)
  BY ZenonT(40), <1>2, <1>6
<1>8. rest \in Seq(R) /\ <<inv>> \o rest \in Seq(R)
  <2>1. Tail(net) \in Seq(R) /\ <<inv>> \in Seq(R) /\ (bs # <<>> => <<one>> \in Seq(R))
    BY <1>5
  <2> HIDE DEF R, one, inv
  <2>2. rest \in Seq(R)
    BY <2>1
  <2> HIDE DEF rest
  <2>3. QED
    BY <2>1, <2>2
<1>9. BlockSent(p) = IF link[p].up /\ link[p].continueHash = Request(p).blocks[1]
                     THEN [link[p] EXCEPT !.continueHash = None, !.net = <<inv>> \o rest]
                     ELSE [link[p] EXCEPT !.net = rest]
  BY ZenonT(40), <1>2 DEF BlockSent, bs
<1> HIDE DEF rest, R, inv
<1>10. LinkIs(BlockSent(p), u, R, <<inv>> \o rest, g, h, None) \/ LinkIs(BlockSent(p), u, R, rest, g, h, c)
  <2> DEFINE full == <<inv>> \o rest
  <2> HIDE DEF full
  <2>1. \/ BlockSent(p) = [up |-> u, net |-> full, getBlocks |-> g, getHeaders |-> h, continueHash |-> None]
        \/ BlockSent(p) = [up |-> u, net |-> rest, getBlocks |-> g, getHeaders |-> h, continueHash |-> c]
    <3>1. link[p] = [up |-> u, net |-> net, getBlocks |-> g, getHeaders |-> h, continueHash |-> c]
      BY ZenonT(40), <1>1 DEF LinkIs
    <3>2. [link[p] EXCEPT !.continueHash = None, !.net = full]
            = [up |-> u, net |-> full, getBlocks |-> g, getHeaders |-> h, continueHash |-> None]
      <4> DEFINE m == [link[p] EXCEPT !.continueHash = None]
      <4>1. m = [up |-> u, net |-> net, getBlocks |-> g, getHeaders |-> h, continueHash |-> None]
        BY <3>1
      <4> HIDE DEF m
      <4>2. [m EXCEPT !.net = full]
              = [up |-> u, net |-> full, getBlocks |-> g, getHeaders |-> h, continueHash |-> None]
        BY <4>1
      <4>3. QED
        BY <4>2 DEF m
    <3>3. [link[p] EXCEPT !.net = rest]
            = [up |-> u, net |-> rest, getBlocks |-> g, getHeaders |-> h, continueHash |-> c]
      BY <3>1
    <3>4. QED
      BY ZenonT(40), <1>9, <3>2, <3>3 DEF full
  <2>2. u \in BOOLEAN
    BY ZenonT(40), <1>1 DEF LinkIs
  <2>3. QED
    BY ZenonT(40), <1>7, <1>8, <2>1, <2>2 DEF LinkIs, full
<1>11. QED
  BY ZenonT(40), <1>3, <1>4, <1>10 DEF LinkOK

\* What startSync does with the connections: the chosen peer is asked.
LEMMA StartSyncLinks ==
  ASSUME NEW known \in SUBSET Peers, NEW cands, NEW last, NEW links, NEW reqs, NEW mode,
         LinksOK(links), StartSync(known, cands, last, links, reqs, mode)
  PROVE  LinksOK(link')
<1> DEFINE byHeaders == nextCheckpoint # None /\ Height[best] < Height[nextCheckpoint]
           asked(p) == IF byHeaders THEN PushGetHeaders(links[p], best, Anc[best], nextCheckpoint)
                       ELSE PushGetBlocks(links[p], best, Anc[best], None)
<1>1. link' = links \/ \E p \in Peers : link' = [links EXCEPT ![p] = asked(p)]
  BY ZenonT(40) DEF StartSync
<1>2. CASE link' = links
  BY <1>2
<1>3. ASSUME NEW p \in Peers, link' = [links EXCEPT ![p] = asked(p)] PROVE LinksOK(link')
  <2>1. LinkOK(links[p])
    BY ZenonT(40) DEF LinksOK
  <2>2. LinkOK(asked(p))
    BY ZenonT(40), <2>1, PushOK
  <2> HIDE DEF asked
  <2>3. QED
    BY ZenonT(40), <1>3, <2>2, LinksExcept
<1>4. QED
  BY ZenonT(40), <1>1, <1>2, <1>3

\* The header list from the start header on is a list of blocks.
LEMMA ListFromTypes ==
  ASSUME NEW list \in Seq(Blocks), NEW start \in Blocks
  PROVE  ListFrom(list, start) \in Seq(Blocks)
<1> DEFINE i == CHOOSE j \in DOMAIN list : list[j] = start
<1>1. CASE start \in Elements(list)
  <2>1. \E j \in DOMAIN list : list[j] = start
    BY <1>1 DEF Elements
  <2>2. i \in DOMAIN list
    BY <2>1
  <2> HIDE DEF i
  <2>3. SubSeq(list, i, Len(list)) \in Seq(Blocks)
    BY <2>2
  <2>4. QED
    BY ZenonT(40), <1>1, <2>3 DEF ListFrom, i
<1>2. CASE start \notin Elements(list)
  <2>1. <<start>> \in Seq(Blocks)
    OBVIOUS
  <2>2. QED
    BY <1>2, <2>1 DEF ListFrom
<1>3. QED
  BY <1>1, <1>2

\* What a sequence of blocks holds.
LEMMA RangeTypes ==
  ASSUME NEW s \in Seq(Blocks)
  PROVE  Elements(s) \subseteq Blocks
BY DEF Elements

\* fetchHeaderBlocks asks the sync peer for blocks of the list, and remembers a
\* header of it.
LEMMA FetchOK ==
  ASSUME NEW list \in Seq(Blocks), NEW start \in Blocks, NEW known, NEW links, NEW req, NEW reqs,
         FetchHeaderBlocks(list, start, known, links, req, reqs)
  PROVE  /\ startHeader' \in Blocks \cup {None}
         /\ \E gd \in Seq(Blocks) :
              /\ requestedBlocks' = reqs \cup Elements(gd)
              /\ requested' = [req EXCEPT ![syncPeer] = @ \cup Elements(gd)]
              /\ link' = [links EXCEPT ![syncPeer] = PushGetData(@, gd)]
<1> DEFINE todo == ListFrom(list, start)
           want == Kept(todo, {i \in DOMAIN todo : todo[i] \notin known})
           gd == SubSeq(want, 1, Smaller(MaxInvPerMsg, Len(want)))
           left == {i \in DOMAIN todo : Len(want) >= MaxInvPerMsg
                                        /\ Height[todo[i]] > Height[gd[MaxInvPerMsg]]}
<1>1. /\ startHeader' = IF left = {} THEN None ELSE todo[CHOOSE i \in left : \A j \in left : i <= j]
      /\ requestedBlocks' = reqs \cup Elements(gd)
      /\ requested' = [req EXCEPT ![syncPeer] = @ \cup Elements(gd)]
      /\ link' = [links EXCEPT ![syncPeer] = PushGetData(@, gd)]
  BY ZenonT(60) DEF FetchHeaderBlocks
<1>2. todo \in Seq(Blocks)
  BY ListFromTypes
<1> HIDE DEF todo
<1>3. want \in Seq(Blocks)
  <2> DEFINE I == {i \in DOMAIN todo : todo[i] \notin known}
  <2>1. I \in SUBSET (DOMAIN todo)
    OBVIOUS
  <2> HIDE DEF I
  <2>2. Kept(todo, I) \in Seq(Blocks)
    BY <1>2, <2>1, KeptEntries
  <2>3. QED
    BY <2>2 DEF I
<1> HIDE DEF want
<1>4. gd \in Seq(Blocks)
  <2>1. Len(want) \in Nat /\ MaxInvPerMsg \in Nat
    BY <1>3, LimitsAssumption
  <2>2. Smaller(MaxInvPerMsg, Len(want)) \in 0 .. Len(want)
    BY <2>1 DEF Smaller
  <2>3. QED
    BY <1>3, <2>1, <2>2
<1>5. left \subseteq DOMAIN todo
  OBVIOUS
<1> HIDE DEF gd, left
<1>6. startHeader' \in Blocks \cup {None}
  <2>1. CASE left = {}
    BY ZenonT(40), <1>1, <2>1
  <2>2. CASE left # {}
    <3>1. \A i \in left : i \in Nat
      BY <1>2, <1>5
    <3>2. \E i \in left : \A j \in left : i <= j
      BY ZenonT(40), <2>2, <3>1, LeastNat
    <3>3. (CHOOSE i \in left : \A j \in left : i <= j) \in left
      BY <3>2
    <3>4. todo[CHOOSE i \in left : \A j \in left : i <= j] \in Blocks
      BY <1>2, <1>5, <3>3
    <3>5. QED
      BY ZenonT(40), <1>1, <2>2, <3>4
  <2>3. QED
    BY ZenonT(40), <2>1, <2>2
<1>7. QED
  BY ZenonT(40), <1>1, <1>4, <1>6

\* The connections after it.
LEMMA FetchLinks ==
  ASSUME NEW gd \in Seq(Blocks), NEW links, LinksOK(links), syncPeer \in Peers,
         link' = [links EXCEPT ![syncPeer] = PushGetData(@, gd)]
  PROVE  LinksOK(link')
<1>1. LinkOK(links[syncPeer])
  BY DEF LinksOK
<1>2. LinkOK(PushGetData(links[syncPeer], gd))
  BY <1>1, PushDataOK
<1>3. link' = [links EXCEPT ![syncPeer] = PushGetData(links[syncPeer], gd)]
  OBVIOUS
<1>4. LinksOK([links EXCEPT ![syncPeer] = PushGetData(links[syncPeer], gd)])
  BY ZenonT(40), <1>2, LinksExcept
<1>5. QED
  BY <1>3, <1>4

----------------------------------------------------------------------------
(* What is requested. *)

\* The requests of the peers, and of whom a requested block was asked.
RequestInv == requested \in [Peers -> SUBSET Blocks] /\ RequestedOfSomebody

\* What is known of the peers' heights, and who is about to be told of a block.
HeightInv ==
  /\ lastBlock \in [Peers -> Nat] /\ lastAnnounced \in [Peers -> Blocks \cup {None}]
  /\ updates \subseteq Blocks \X Peers

\* The other variables.
StateInv ==
  /\ best \in index /\ syncCandidate \subseteq peers /\ silent \subseteq peers
  /\ startHeader \in Blocks \cup {None} /\ nextCheckpoint \in Checkpoints \cup {None}

\* FetchTracked is inductive together with what is on its way to the peers.
FetchInv == IInv /\ ListInv /\ LinksOK(link) /\ RequestInv /\ HeightInv /\ StateInv

\* The sync peer and a block of a peer's answer, where a handler uses them.
LEMMA Facts ==
  ASSUME FetchInv, NEW p \in Peers
  PROVE  /\ tip[p] \in Blocks /\ LinkOK(link[p]) /\ best \in Blocks
         /\ syncPeer # None => syncPeer \in Peers
         /\ headersFirstMode => syncPeer \in Peers
         /\ index \subseteq Blocks /\ orphans \subseteq Blocks /\ headerList \in Seq(Blocks)
  BY DEF FetchInv, IInv, SyncInv, ListInv, LinksOK

\* One connection is replaced by a good one.
LEMMA OneLink ==
  ASSUME FetchInv, NEW p \in Peers, NEW l, LinkOK(l), link' = [link EXCEPT ![p] = l]
  PROVE  LinksOK(link')
  BY ZenonT(40), LinksExcept DEF FetchInv

\* updateSyncPeer and the connections.
LEMMA UpdateLinks ==
  ASSUME NEW known \in SUBSET Peers, NEW links, LinksOK(links), NEW reqs,
         UpdateSyncPeer(known, links, reqs)
  PROVE  LinksOK(link')
  BY ZenonT(40), StartSyncLinks DEF UpdateSyncPeer

\* A peer joins.
LEMMA NewPeerLinks ==
  ASSUME FetchInv, NEW p \in Peers, NewPeer(p)
  PROVE  LinksOK(link')
<1> DEFINE links == [link EXCEPT ![p] = Link]
<1>1. LinksOK(links)
  BY ZenonT(40), NewLink, LinksExcept DEF FetchInv
<1>2. peers' \in SUBSET Peers
  BY ZenonT(40) DEF NewPeer, FetchInv, IInv
<1>3. link' = links \/ \E cands, last : StartSync(peers', cands, last, links, requestedBlocks, headersFirstMode)
  BY ZenonT(40) DEF NewPeer
<1> HIDE DEF links
<1>4. QED
  BY ZenonT(40), <1>1, <1>2, <1>3, StartSyncLinks

\* A peer leaves.
LEMMA DonePeerLinks ==
  ASSUME FetchInv, NEW p \in Peers, DonePeer(p)
  PROVE  LinksOK(link')
<1> DEFINE links == [link EXCEPT ![p] = NoLink]
<1>1. LinksOK(links)
  BY ZenonT(40), NewLink, LinksExcept DEF FetchInv
<1>2. peers' \in SUBSET Peers
  BY ZenonT(40) DEF DonePeer, FetchInv, IInv
<1>3. link' = links \/ UpdateSyncPeer(peers', links, Cleared(p))
  BY DEF DonePeer
<1> HIDE DEF links
<1>4. QED
  BY ZenonT(40), <1>1, <1>2, <1>3, UpdateLinks

\* The sync peer stalls.
LEMMA StallLinks ==
  ASSUME FetchInv, StallSample
  PROVE  LinksOK(link')
<1> DEFINE links == IF ShouldDCStalledSyncPeer THEN [link EXCEPT ![syncPeer] = Disconnect(@)] ELSE link
<1>1. syncPeer \in Peers /\ peers \in SUBSET Peers
  BY ZenonT(40) DEF StallSample, FetchInv, IInv
<1>2. LinkOK(Disconnect(link[syncPeer]))
  BY ZenonT(40), <1>1, Facts, DisconnectOK
<1>3. [link EXCEPT ![syncPeer] = Disconnect(@)] = [link EXCEPT ![syncPeer] = Disconnect(link[syncPeer])]
  OBVIOUS
<1>4. LinksOK([link EXCEPT ![syncPeer] = Disconnect(@)])
  BY ZenonT(40), <1>1, <1>2, <1>3, LinksExcept DEF FetchInv
<1>5. LinksOK(links)
  BY <1>4 DEF FetchInv
<1>6. UpdateSyncPeer(peers, links, Cleared(syncPeer))
  BY DEF StallSample
<1> HIDE DEF links
<1>7. QED
  BY ZenonT(40), <1>1, <1>5, <1>6, UpdateLinks

\* The headers that answer a request, and where the list goes on from.
LEMMA HeadersOf ==
  ASSUME FetchInv, NEW p \in Peers, NEW loc, NEW stop
  PROVE  /\ Locate(tip[p], loc, stop, MaxHeadersPerMsg) \in Seq(Blocks)
         /\ Locate(tip[p], loc, stop, MaxBlocksPerMsg) \in Seq(Blocks)
<1>1. tip[p] \in Blocks /\ MaxHeadersPerMsg \in Nat /\ MaxBlocksPerMsg \in Nat
  BY ZenonT(40), Facts, LimitsAssumption
<1>2. QED
  BY ZenonT(40), <1>1, LocateLinked

\* What handleHeadersMsg does besides the list.
LEMMA HeadersCases ==
  ASSUME FetchInv, NEW p \in Peers, ReceiveHeaders(p)
  PROVE  \/ /\ UNCHANGED requests
            /\ startHeader' \in Blocks \cup {None}
            /\ \E l : LinkOK(l) /\ link' = [link EXCEPT ![p] = l]
         \/ /\ headersFirstMode /\ startHeader' \in Blocks \cup {None}
            /\ \E gd \in Seq(Blocks) :
                 /\ requestedBlocks' = requestedBlocks \cup Elements(gd)
                 /\ requested' = [requested EXCEPT ![syncPeer] = @ \cup Elements(gd)]
                 /\ link' = [[link EXCEPT ![p] = Rest(p)] EXCEPT ![syncPeer] = PushGetData(@, gd)]
<1> DEFINE l == Rest(p)
           links == [link EXCEPT ![p] = l]
           hs == Locate(tip[p], Request(p).loc, Request(p).stop, MaxHeadersPerMsg)
           at == {i \in DOMAIN hs : Height[hs[i]] = Height[nextCheckpoint]}
           n == IF at = {} THEN Len(hs) ELSE CHOOSE i \in at : TRUE
           list == headerList \o SubSeq(hs, 1, n)
           start == IF startHeader = None THEN hs[1] ELSE startHeader
           more == PushGetHeaders(l, hs[n], {hs[n]}, nextCheckpoint)
<1>1. LinkOK(l)
  BY ZenonT(40), Facts, RestOK DEF ReceiveHeaders, Answers
<1>2. LinkOK(Disconnect(l)) /\ LinkOK(more)
  BY ZenonT(40), <1>1, DisconnectOK, PushOK
<1>3. hs \in Seq(Blocks)
  BY ZenonT(40), HeadersOf
<1>4. hs # <<>> => start \in Blocks
  <2> HIDE DEF hs
  <2>1. hs # <<>> => hs[1] \in Blocks
    BY <1>3
  <2>2. QED
    BY <2>1 DEF FetchInv, StateInv
<1>5. startHeader \in Blocks \cup {None}
  BY DEF FetchInv, StateInv
<1>6. \/ link' \in {[link EXCEPT ![p] = Disconnect(l)], links, [link EXCEPT ![p] = more]}
         /\ UNCHANGED requests /\ (startHeader' = startHeader \/ (hs # <<>> /\ startHeader' = start))
      \/ /\ headersFirstMode /\ hs # <<>> /\ headerList' = Tail(list)
         /\ FetchHeaderBlocks(Tail(list), start, index \cup orphans, links, requested, requestedBlocks)
  BY ZenonT(40) DEF ReceiveHeaders
<1>7. headerList' \in Seq(Blocks)
  <2>1. ListInv'
    BY ZenonT(40), ReceiveHeadersLinked DEF FetchInv
  <2>2. QED
    BY <2>1 DEF ListInv
<1> HIDE DEF l, hs, n, start, more, list
<1>8. CASE /\ link' \in {[link EXCEPT ![p] = Disconnect(l)], links, [link EXCEPT ![p] = more]}
           /\ UNCHANGED requests /\ (startHeader' = startHeader \/ (hs # <<>> /\ startHeader' = start))
  BY ZenonT(40), <1>1, <1>2, <1>4, <1>5, <1>8
<1>9. CASE /\ headersFirstMode /\ hs # <<>> /\ headerList' = Tail(list)
           /\ FetchHeaderBlocks(Tail(list), start, index \cup orphans, links, requested, requestedBlocks)
  <2>1. start \in Blocks /\ Tail(list) \in Seq(Blocks)
    BY ZenonT(40), <1>4, <1>7, <1>9
  <2> DEFINE tail == Tail(list)
             known == index \cup orphans
  <2>4. tail \in Seq(Blocks) /\ FetchHeaderBlocks(tail, start, known, links, requested, requestedBlocks)
    BY ZenonT(40), <1>9, <2>1
  <2> HIDE DEF links, tail, known
  <2>2. /\ startHeader' \in Blocks \cup {None}
        /\ \E gd \in Seq(Blocks) :
              /\ requestedBlocks' = requestedBlocks \cup Elements(gd)
              /\ requested' = [requested EXCEPT ![syncPeer] = @ \cup Elements(gd)]
              /\ link' = [links EXCEPT ![syncPeer] = PushGetData(@, gd)]
    BY <2>1, <2>4, FetchOK
  <2>3. QED
    BY ZenonT(40), <1>9, <2>2 DEF links, l
<1>10. QED
  BY ZenonT(40), <1>6, <1>8, <1>9

\* Entries of a list of blocks that are kept are a list of blocks.
LEMMA KeptBlocks ==
  ASSUME NEW s \in Seq(Blocks), NEW I, I \subseteq DOMAIN s
  PROVE  Kept(s, I) \in Seq(Blocks)
  BY ZenonT(40), KeptEntries

\* No entry is evicted while the blocks fit into the limit.
LEMMA NoEviction ==
  ASSUME IsFiniteSet(Blocks), Cardinality(Blocks) <= MaxRequestedBlocks,
         NEW m \in SUBSET Blocks, NEW bs \in Seq(Blocks)
  PROVE  LimitAdd(m, bs) = {m \cup Elements(bs)}
<1> DEFINE all == m \cup Elements(bs)
           limit == Larger(MaxRequestedBlocks, Cardinality(m))
<1>1. all \subseteq Blocks
  BY ZenonT(40), RangeTypes
<1>2. IsFiniteSet(all) /\ IsFiniteSet(m)
  BY ZenonT(40), <1>1, FS_Subset
<1>3. /\ Cardinality(all) \in Nat /\ Cardinality(Blocks) \in Nat /\ Cardinality(m) \in Nat
      /\ Cardinality(all) <= Cardinality(Blocks)
  BY ZenonT(40), <1>1, <1>2, FS_Subset, FS_CardinalityType
<1>4. Cardinality(all) <= limit
  BY <1>3, LimitsAssumption DEF Larger
<1>5. QED
  BY ZenonT(40), <1>4 DEF LimitAdd

\* What handleInvMsg does: it asks p for blocks, and remembers what it asked for.
LEMMA HandleInvCases ==
  ASSUME FetchInv, NEW p \in Peers, NEW l, LinkOK(l), NEW inv \in Seq(Blocks), HandleInv(p, l, inv)
  PROVE  /\ \E k : LinkOK(k) /\ link' = [link EXCEPT ![p] = k]
         /\ \/ UNCHANGED requests
            \/ \E want \in Seq(Blocks) :
                 /\ requestedBlocks' \in LimitAdd(requestedBlocks, want)
                 /\ \E r \in LimitAdd(requested[p], want) : requested' = [requested EXCEPT ![p] = r]
<1> DEFINE final == inv[Len(inv)]
           I == {i \in DOMAIN inv : inv[i] \in orphans \/ (inv[i] \in index /\ inv[i] = final)}
           more == Kept(inv, I)
           qs == [i \in DOMAIN more |-> MoreFor(more[i])]
           asked == PushEach(l, qs)
           J == {i \in DOMAIN inv : ~HaveBlock(inv[i]) /\ p \in Witness /\ inv[i] \notin requestedBlocks}
           want == Kept(inv, J)
<1>1. \/ link' = [link EXCEPT ![p] = l] /\ UNCHANGED requests
      \/ /\ link' = [link EXCEPT ![p] = PushGetData(asked, want)]
         /\ requestedBlocks' \in (IF want = <<>> THEN {requestedBlocks} ELSE LimitAdd(requestedBlocks, want))
         /\ \E r \in (IF want = <<>> THEN {requested[p]} ELSE LimitAdd(requested[p], want)) :
              requested' = [requested EXCEPT ![p] = r]
  BY ZenonT(40) DEF HandleInv
<1>2. I \subseteq DOMAIN inv /\ J \subseteq DOMAIN inv
  OBVIOUS
<1> HIDE DEF I, J
<1>3. more \in Seq(Blocks) /\ want \in Seq(Blocks)
  BY <1>2, KeptBlocks
<1> HIDE DEF more, want
<1>4. qs \in Seq({MoreFor(b) : b \in Blocks})
  BY <1>3
<1> HIDE DEF qs
<1>5. LinkOK(PushGetData(asked, want))
  BY ZenonT(40), <1>3, <1>4, PushEachOK, PushDataOK
<1> HIDE DEF asked
<1>6. requested = [requested EXCEPT ![p] = requested[p]]
  BY DEF FetchInv, RequestInv
<1>7. CASE link' = [link EXCEPT ![p] = l] /\ UNCHANGED requests
  BY ZenonT(40), <1>7
<1>8. CASE /\ link' = [link EXCEPT ![p] = PushGetData(asked, want)] /\ want = <<>>
           /\ requestedBlocks' = requestedBlocks /\ requested' = [requested EXCEPT ![p] = requested[p]]
  BY ZenonT(40), <1>5, <1>6, <1>8 DEF requests
<1>9. CASE /\ link' = [link EXCEPT ![p] = PushGetData(asked, want)] /\ want # <<>>
           /\ requestedBlocks' \in LimitAdd(requestedBlocks, want)
           /\ \E r \in LimitAdd(requested[p], want) : requested' = [requested EXCEPT ![p] = r]
  BY ZenonT(40), <1>3, <1>5, <1>9
<1>10. QED
  BY ZenonT(40), <1>1, <1>7, <1>8, <1>9

\* An inventory is handled, or is empty.
LEMMA InvCases ==
  ASSUME FetchInv, NEW p \in Peers, ReceiveInv(p)
  PROVE  \/ \E l : \E inv \in Seq(Blocks) : LinkOK(l) /\ inv # <<>> /\ HandleInv(p, l, inv)
         \/ /\ \E l : LinkOK(l) /\ link' = [link EXCEPT ![p] = l]
            /\ UNCHANGED <<chain, peers, syncCandidate, requests, syncPeer, headers, heights,
                           updates, tip, silent, faults>>
<1> DEFINE inv == Locate(tip[p], Request(p).loc, Request(p).stop, MaxBlocksPerMsg)
           c == IF Len(inv) = MaxBlocksPerMsg THEN inv[Len(inv)] ELSE Rest(p).continueHash
           l == [Rest(p) EXCEPT !.continueHash = c]
<1>1. \/ Answers(p, "inv") /\ HandleInv(p, Rest(p), Request(p).blocks)
      \/ /\ Answers(p, "getblocks")
         /\ \/ inv # <<>> /\ HandleInv(p, l, inv)
            \/ /\ inv = <<>> /\ link' = [link EXCEPT ![p] = l]
               /\ UNCHANGED <<chain, peers, syncCandidate, requests, syncPeer, headers, heights,
                              updates, tip, silent, faults>>
  BY ZenonT(40) DEF ReceiveInv
<1>2. LinkOK(Rest(p)) /\ MsgOK(Request(p))
  <2>1. link[p].net # <<>>
    BY <1>1 DEF Answers
  <2>2. QED
    BY <2>1, Facts, RestOK
<1>3. LinkOK(l)
  <2> HIDE DEF c
  <2>1. QED
    BY ZenonT(40), <1>2, FieldOK
<1>4. Answers(p, "inv") => Request(p).blocks \in Seq(Blocks) /\ Request(p).blocks # <<>>
  BY <1>2 DEF Answers, Request, MsgOK
<1>5. inv \in Seq(Blocks)
  BY ZenonT(40), HeadersOf
<1> HIDE DEF inv, l
<1>6. CASE Answers(p, "inv") /\ HandleInv(p, Rest(p), Request(p).blocks)
  BY ZenonT(40), <1>2, <1>4, <1>6
<1>7. CASE inv # <<>> /\ HandleInv(p, l, inv)
  BY <1>3, <1>5, <1>7
<1>8. CASE /\ link' = [link EXCEPT ![p] = l]
           /\ UNCHANGED <<chain, peers, syncCandidate, requests, syncPeer, headers, heights,
                          updates, tip, silent, faults>>
  BY ZenonT(40), <1>3, <1>8
<1>9. QED
  BY ZenonT(40), <1>1, <1>6, <1>7, <1>8

\* What handleBlockMsg does with the requests, the start header and the
\* connections.
LEMMA BlockCases ==
  ASSUME FetchInv, NEW p \in Peers, ReceiveBlock(p)
  PROVE  \E b \in Blocks :
           \/ /\ startHeader' = startHeader
              /\ \/ UNCHANGED requests
                 \/ /\ requested' = [requested EXCEPT ![p] = @ \ {b}]
                    /\ requestedBlocks' = requestedBlocks \ {b}
              /\ \E l : LinkOK(l) /\ link' = [link EXCEPT ![p] = l]
           \/ /\ headersFirstMode /\ startHeader' \in Blocks \cup {None}
              /\ \E gd \in Seq(Blocks) : \E l :
                   /\ LinkOK(l)
                   /\ requestedBlocks' = (requestedBlocks \ {b}) \cup Elements(gd)
                   /\ requested' = [[requested EXCEPT ![p] = @ \ {b}] EXCEPT ![syncPeer] = @ \cup Elements(gd)]
                   /\ link' = [[link EXCEPT ![p] = l] EXCEPT ![syncPeer] = PushGetData(@, gd)]
<1> DEFINE b == Request(p).blocks[1]
           l == BlockSent(p)
           req == [requested EXCEPT ![p] = @ \ {b}]
           reqs == requestedBlocks \ {b}
           k == IF IsOrphan(b) THEN PushGetBlocks(l, best', Anc[best'], OrphanRoot(b, orphans')) ELSE l
           next == FindNextHeaderCheckpoint(Height[nextCheckpoint])
           links == [link EXCEPT ![p] = k]
           x == PushGetHeaders(k, b, {b}, next)
           y == PushGetBlocks(k, b, {b}, None)
<1>1. LinkOK(l) /\ b \in Blocks
  BY ZenonT(40), Facts, BlockSentOK DEF ReceiveBlock, Answers, Request
<1>2. LinkOK(Disconnect(l)) /\ LinkOK(k) /\ LinkOK(x) /\ LinkOK(y)
  BY ZenonT(40), <1>1, DisconnectOK, PushOK
<1>3. headerList \in Seq(Blocks) /\ startHeader \in Blocks \cup {None} /\ ListWithout(b) \in Seq(Blocks)
  BY ZenonT(40), ListWithoutLinked DEF FetchInv, ListInv, StateInv
<1>4. \/ link' = [link EXCEPT ![p] = Disconnect(l)] /\ UNCHANGED <<requests, startHeader>>
      \/ link' = [link EXCEPT ![p] = l] /\ requested' = req /\ requestedBlocks' = reqs /\ UNCHANGED startHeader
      \/ BlockProcessed(p, b, l, req, reqs)
  BY ZenonT(40) DEF ReceiveBlock, headers
<1>5. ASSUME BlockProcessed(p, b, l, req, reqs)
      PROVE  \/ /\ link' \in {links, [links EXCEPT ![p] = PushGetHeaders(@, b, {b}, next)],
                              [links EXCEPT ![p] = PushGetBlocks(@, b, {b}, None)]}
                /\ requested' = req /\ requestedBlocks' = reqs /\ UNCHANGED startHeader
             \/ /\ headersFirstMode /\ startHeader # None
                /\ FetchHeaderBlocks(ListWithout(b), startHeader, index' \cup orphans', links, req, reqs)
  BY <1>5, ZenonT(40) DEF BlockProcessed, headers
<1>6. /\ [links EXCEPT ![p] = PushGetHeaders(@, b, {b}, next)] = [link EXCEPT ![p] = x]
      /\ [links EXCEPT ![p] = PushGetBlocks(@, b, {b}, None)] = [link EXCEPT ![p] = y]
  <2>1. link = [q \in Peers |-> link[q]]
    BY DEF FetchInv, LinksOK
  <2> HIDE DEF k, b, next
  <2>2. links[p] = k
    BY <2>1
  <2>3. QED
    BY ZenonT(40), <2>1, <2>2
<1> HIDE DEF b, l, k, next, x, y
<1>7. CASE link' = [link EXCEPT ![p] = Disconnect(l)] /\ UNCHANGED <<requests, startHeader>>
  BY ZenonT(40), <1>1, <1>2, <1>7
<1>8. CASE /\ link' = [link EXCEPT ![p] = l] /\ requested' = req /\ requestedBlocks' = reqs
           /\ UNCHANGED startHeader
  BY ZenonT(40), <1>1, <1>8
<1>9. CASE BlockProcessed(p, b, l, req, reqs)
  <2>1. CASE /\ link' \in {links, [link EXCEPT ![p] = x], [link EXCEPT ![p] = y]}
             /\ requested' = req /\ requestedBlocks' = reqs /\ UNCHANGED startHeader
    BY ZenonT(40), <1>1, <1>2, <2>1
  <2>2. CASE /\ headersFirstMode /\ startHeader # None
             /\ FetchHeaderBlocks(ListWithout(b), startHeader, index' \cup orphans', links, req, reqs)
    <3>1. startHeader \in Blocks
      BY ZenonT(40), <1>3, <2>2
    <3> DEFINE list == ListWithout(b)
               known == index' \cup orphans'
    <3>4. list \in Seq(Blocks) /\ FetchHeaderBlocks(list, startHeader, known, links, req, reqs)
      BY ZenonT(40), <1>3, <2>2
    <3> HIDE DEF links, req, reqs, list, known
    <3>2. /\ startHeader' \in Blocks \cup {None}
          /\ \E gd \in Seq(Blocks) :
               /\ requestedBlocks' = reqs \cup Elements(gd)
               /\ requested' = [req EXCEPT ![syncPeer] = @ \cup Elements(gd)]
               /\ link' = [links EXCEPT ![syncPeer] = PushGetData(@, gd)]
      BY <3>1, <3>4, FetchOK
    <3>3. QED
      BY ZenonT(40), <1>1, <1>2, <2>2, <3>2 DEF links, req, reqs
  <2>3. QED
    BY ZenonT(40), <1>5, <1>6, <1>9, <2>1, <2>2
<1>10. QED
  BY ZenonT(40), <1>4, <1>7, <1>8, <1>9

\* Every step leaves good connections.
LEMMA NextLinks == FetchInv /\ [Next]_vars => LinksOK(link')
<1> SUFFICES ASSUME FetchInv, [Next]_vars PROVE LinksOK(link')
  OBVIOUS
<1>0. LinksOK(link)
  BY DEF FetchInv
<1>1. ASSUME NEW p \in Peers, NEW l, LinkOK(l), NEW gd \in Seq(Blocks), syncPeer \in Peers,
             link' = [[link EXCEPT ![p] = l] EXCEPT ![syncPeer] = PushGetData(@, gd)]
      PROVE  LinksOK(link')
  <2> DEFINE links == [link EXCEPT ![p] = l]
  <2>1. LinksOK(links)
    BY ZenonT(40), <1>0, <1>1, LinksExcept
  <2>2. link' = [links EXCEPT ![syncPeer] = PushGetData(@, gd)]
    BY ZenonT(40), <1>1
  <2> HIDE DEF links
  <2>3. QED
    BY ZenonT(40), <1>1, <2>1, <2>2, FetchLinks
<1>2. ASSUME NEW p \in Peers, ReceiveHeaders(p) PROVE LinksOK(link')
  <2>1. LinkOK(Rest(p))
    BY ZenonT(40), <1>2, Facts, RestOK DEF ReceiveHeaders, Answers
  <2>2. CASE \E l : LinkOK(l) /\ link' = [link EXCEPT ![p] = l]
    BY ZenonT(40), <2>2, OneLink
  <2>3. CASE /\ headersFirstMode
             /\ \E gd \in Seq(Blocks) :
                  link' = [[link EXCEPT ![p] = Rest(p)] EXCEPT ![syncPeer] = PushGetData(@, gd)]
    <3>1. PICK gd \in Seq(Blocks) :
                 link' = [[link EXCEPT ![p] = Rest(p)] EXCEPT ![syncPeer] = PushGetData(@, gd)]
      BY ZenonT(40), <2>3
    <3>2. syncPeer \in Peers
      BY <2>3, Facts
    <3>3. QED
      BY ZenonT(40), <1>1, <2>1, <3>1, <3>2
  <2>4. QED
    BY <1>2, <2>2, <2>3, HeadersCases
<1>3. ASSUME NEW p \in Peers, ReceiveInv(p) PROVE LinksOK(link')
  <2>1. \E l : LinkOK(l) /\ link' = [link EXCEPT ![p] = l]
    BY ZenonT(40), <1>3, InvCases, HandleInvCases
  <2>2. QED
    BY ZenonT(40), <2>1, OneLink
<1>4. ASSUME NEW p \in Peers, ReceiveBlock(p) PROVE LinksOK(link')
  <2>1. CASE \E l : LinkOK(l) /\ link' = [link EXCEPT ![p] = l]
    BY ZenonT(40), <2>1, OneLink
  <2>2. CASE /\ headersFirstMode
             /\ \E gd \in Seq(Blocks) : \E l :
                  /\ LinkOK(l)
                  /\ link' = [[link EXCEPT ![p] = l] EXCEPT ![syncPeer] = PushGetData(@, gd)]
    <3>2. syncPeer \in Peers
      BY <2>2, Facts
    <3>3. QED
      BY ZenonT(40), <1>1, <2>2, <3>2
  <2>3. QED
    BY ZenonT(40), <1>4, <2>1, <2>2, BlockCases
<1>5. ASSUME NEW p \in Peers, ReceiveNotFound(p) PROVE LinksOK(link')
  <2>1. LinkOK(Rest(p)) /\ link' = [link EXCEPT ![p] = Rest(p)]
    BY ZenonT(40), <1>5, Facts, RestOK DEF ReceiveNotFound, Answers
  <2>2. QED
    BY ZenonT(40), <2>1, OneLink
<1>6. ASSUME NEW p \in Peers, IdleTimeout(p) \/ LosePeer(p) PROVE LinksOK(link')
  <2>1. LinkOK(Disconnect(link[p]))
    BY ZenonT(40), Facts, DisconnectOK
  <2>2. link' = [link EXCEPT ![p] = Disconnect(link[p])] \/ link' = link
    BY <1>6 DEF IdleTimeout, LosePeer
  <2>3. QED
    BY ZenonT(40), <1>0, <2>1, <2>2, OneLink
<1>7. ASSUME NEW p \in Peers, Extend(p) PROVE LinksOK(link')
  <2> DEFINE b == Path[EndTip[p]][Height[tip[p]] + 2]
             inv == [type |-> "inv", blocks |-> <<b>>]
  <2>1. ListInv' /\ tip' = [tip EXCEPT ![p] = b] /\ tip \in [Peers -> Blocks]
    BY ZenonT(40), <1>7, ExtendLinked DEF FetchInv, ListInv, Extend
  <2>2. link' = [link EXCEPT ![p] = Send(link[p], inv)] \/ link' = [link EXCEPT ![p] = link[p]] \/ link' = link
    BY ZenonT(40), <1>7 DEF Extend
  <2> HIDE DEF b
  <2>3. b \in Blocks
    BY <2>1 DEF ListInv
  <2>4. <<b>> \in Seq(Blocks) /\ <<b>> # <<>>
    BY <2>3
  <2>5. MsgOK(inv)
    BY ZenonT(40), <2>4 DEF MsgOK
  <2>6. LinkOK(Send(link[p], inv)) /\ LinkOK(link[p])
    BY <2>5, Facts, SendOK
  <2> HIDE DEF inv
  <2>7. QED
    BY <1>0, <2>2, <2>6, OneLink
<1>8. CASE UNCHANGED link
  BY ZenonT(40), <1>0, <1>8
<1>9. ASSUME NEW u \in updates, UpdatePeerHeights(u) PROVE UNCHANGED link
  BY <1>9 DEF UpdatePeerHeights
<1>10. ASSUME NEW b \in LocalBlocks, LocalBlock(b) PROVE UNCHANGED link
  BY <1>10 DEF LocalBlock
<1>11. CASE UNCHANGED vars
  BY ZenonT(40), <1>8, <1>11 DEF vars
<1>12. QED
  BY ZenonT(40), <1>2, <1>3, <1>4, <1>5, <1>6, <1>7, <1>8, <1>9, <1>10, <1>11, NewPeerLinks, DonePeerLinks, StallLinks
  DEF Next, PeerStep, Receive

\* Who a block was asked of, with the maps as arguments.
Asked(req, reqs, ps) ==
  req \in [Peers -> SUBSET Blocks] /\ \A b \in reqs : \E q \in ps : b \in req[q]

\* The same for the variables.
LEMMA AskedInv == /\ RequestInv <=> Asked(requested, requestedBlocks, peers)
                  /\ RequestInv' <=> Asked(requested', requestedBlocks', peers')
  BY DEF RequestInv, RequestedOfSomebody, Asked

\* Fewer blocks are recorded, or more peers are known.
LEMMA AskedLess ==
  ASSUME NEW req, NEW reqs, NEW ps, Asked(req, reqs, ps), NEW r, r \subseteq reqs, NEW qs, ps \subseteq qs
  PROVE  Asked(req, r, qs)
  BY DEF Asked

\* Blocks are asked of a peer.
LEMMA AskedMore ==
  ASSUME NEW req, NEW reqs, NEW ps \in SUBSET Peers, Asked(req, reqs, ps), NEW p \in ps, NEW S \in SUBSET Blocks
  PROVE  Asked([req EXCEPT ![p] = @ \cup S], reqs \cup S, ps)
<1> DEFINE f == [req EXCEPT ![p] = @ \cup S]
<1>1. f \in [Peers -> SUBSET Blocks] /\ \A q \in Peers : f[q] = IF q = p THEN req[q] \cup S ELSE req[q]
  BY DEF Asked
<1> HIDE DEF f
<1>2. Asked(f, reqs \cup S, ps)
  BY <1>1 DEF Asked
<1>3. QED
  BY <1>2 DEF f

\* Blocks have come, or will not.
LEMMA AskedDone ==
  ASSUME NEW req, NEW reqs, NEW ps \in SUBSET Peers, Asked(req, reqs, ps), NEW p \in Peers, NEW S
  PROVE  Asked([req EXCEPT ![p] = @ \ S], reqs \ S, ps)
<1> DEFINE f == [req EXCEPT ![p] = @ \ S]
<1>1. f \in [Peers -> SUBSET Blocks] /\ \A q \in Peers : f[q] = IF q = p THEN req[q] \ S ELSE req[q]
  BY ZenonT(40) DEF Asked
<1> HIDE DEF f
<1>2. Asked(f, reqs \ S, ps)
  BY ZenonT(40), <1>1 DEF Asked
<1>3. QED
  BY <1>2 DEF f

\* What startSync leaves of the recorded blocks and of the candidates.
LEMMA StartSyncLess ==
  ASSUME NEW known, NEW cands, NEW last, NEW links, NEW reqs, NEW mode,
         StartSync(known, cands, last, links, reqs, mode)
  PROVE  requestedBlocks' \subseteq reqs /\ syncCandidate' \subseteq cands
  BY ZenonT(40) DEF StartSync

\* A peer that joins has been asked for nothing.
LEMMA NewPeerRequests ==
  ASSUME FetchInv, NEW p \in Peers, NewPeer(p)
  PROVE  RequestInv'
<1>1. /\ requested' = [requested EXCEPT ![p] = {}] /\ peers' = peers \cup {p} /\ p \notin peers
      /\ requestedBlocks' \subseteq requestedBlocks
  BY ZenonT(40), StartSyncLess DEF NewPeer
<1>2. Asked(requested, requestedBlocks, peers) /\ peers \subseteq Peers
  BY AskedInv DEF FetchInv, IInv
<1>3. Asked(requested', requestedBlocks', peers')
  BY <1>1, <1>2 DEF Asked
<1>4. QED
  BY ZenonT(40), <1>3, AskedInv

\* What was asked of a peer that leaves is not recorded any more.
LEMMA DonePeerRequests ==
  ASSUME FetchInv, NEW p \in Peers, DonePeer(p)
  PROVE  RequestInv'
<1>1. /\ requested' = [requested EXCEPT ![p] = {}] /\ peers' = peers \ {p}
      /\ requestedBlocks' \subseteq requestedBlocks \ requested[p]
  BY ZenonT(40), StartSyncLess DEF DonePeer, UpdateSyncPeer, Cleared
<1>2. Asked(requested, requestedBlocks, peers) /\ peers \subseteq Peers
  BY AskedInv DEF FetchInv, IInv
<1>3. Asked(requested', requestedBlocks', peers')
  BY ZenonT(40), <1>1, <1>2 DEF Asked
<1>4. QED
  BY <1>3, AskedInv

\* Every step keeps track of the requests, when the limit of the maps is above
\* the number of blocks.
LEMMA NextRequests ==
  ASSUME IsFiniteSet(Blocks), Cardinality(Blocks) <= MaxRequestedBlocks
  PROVE  FetchInv /\ [Next]_vars => RequestInv'
<1> SUFFICES ASSUME FetchInv, [Next]_vars PROVE RequestInv'
  OBVIOUS
<1>0. /\ Asked(requested, requestedBlocks, peers) /\ peers \in SUBSET Peers
      /\ headersFirstMode => syncPeer \in peers
      /\ requestedBlocks \subseteq Blocks /\ requested \in [Peers -> SUBSET Blocks]
  <2>1. Asked(requested, requestedBlocks, peers) /\ peers \subseteq Peers
    BY AskedInv DEF FetchInv, IInv
  <2>2. requestedBlocks \subseteq Blocks /\ requested \in [Peers -> SUBSET Blocks]
    BY <2>1 DEF Asked
  <2>3. QED
    BY <2>1, <2>2 DEF FetchInv, IInv, SyncInv
<1>1. ASSUME UNCHANGED <<peers, requested>>, requestedBlocks' \subseteq requestedBlocks PROVE RequestInv'
  <2>1. Asked(requested, requestedBlocks', peers)
    BY ZenonT(40), <1>0, <1>1, AskedLess
  <2>2. QED
    BY ZenonT(40), <1>1, <2>1, AskedInv
<1>2. ASSUME NEW p \in Peers, ReceiveHeaders(p) PROVE RequestInv'
  <2>1. UNCHANGED peers
    BY ZenonT(40), <1>2 DEF ReceiveHeaders
  <2>2. CASE UNCHANGED requests
    BY ZenonT(40), <1>1, <2>1, <2>2 DEF requests
  <2>3. ASSUME headersFirstMode, NEW gd \in Seq(Blocks),
               requestedBlocks' = requestedBlocks \cup Elements(gd),
               requested' = [requested EXCEPT ![syncPeer] = @ \cup Elements(gd)]
        PROVE  RequestInv'
    <3>1. Elements(gd) \in SUBSET Blocks
      BY RangeTypes
    <3>2. Asked(requested', requestedBlocks', peers)
      BY ZenonT(40), <1>0, <2>3, <3>1, AskedMore
    <3>3. QED
      BY <2>1, <3>2, AskedInv
  <2>4. QED
    BY <1>2, <2>2, <2>3, HeadersCases
<1>3. ASSUME NEW p \in Peers, ReceiveInv(p) PROVE RequestInv'
  <2>1. UNCHANGED peers /\ p \in peers
    BY ZenonT(40), <1>3 DEF ReceiveInv, HandleInv, Answers
  <2>2. CASE UNCHANGED requests
    BY ZenonT(40), <1>1, <2>1, <2>2 DEF requests
  <2>3. ASSUME NEW want \in Seq(Blocks), requestedBlocks' \in LimitAdd(requestedBlocks, want),
               NEW r \in LimitAdd(requested[p], want), requested' = [requested EXCEPT ![p] = r]
        PROVE  RequestInv'
    <3>1. requested[p] \in SUBSET Blocks /\ Elements(want) \in SUBSET Blocks
      BY ZenonT(40), <1>0, RangeTypes
    <3>2. requestedBlocks' = requestedBlocks \cup Elements(want) /\ r = requested[p] \cup Elements(want)
      BY <1>0, <2>3, <3>1, NoEviction
    <3>3. requested' = [requested EXCEPT ![p] = @ \cup Elements(want)]
      BY <2>3, <3>2
    <3>4. Asked(requested', requestedBlocks', peers)
      BY ZenonT(40), <1>0, <2>1, <3>1, <3>2, <3>3, AskedMore
    <3>5. QED
      BY ZenonT(40), <2>1, <3>4, AskedInv
  <2>4. QED
    BY ZenonT(40), <1>3, <2>2, <2>3, InvCases, HandleInvCases
<1>4. ASSUME NEW p \in Peers, ReceiveBlock(p) PROVE RequestInv'
  <2>1. UNCHANGED peers
    BY ZenonT(40), <1>4 DEF ReceiveBlock
  <2>2. CASE UNCHANGED requests
    BY <1>1, <2>1, <2>2 DEF requests
  <2>3. ASSUME NEW b \in Blocks, requested' = [requested EXCEPT ![p] = @ \ {b}],
               requestedBlocks' = requestedBlocks \ {b}
        PROVE  RequestInv'
    <3>1. Asked(requested', requestedBlocks', peers)
      BY ZenonT(40), <1>0, <2>3, AskedDone
    <3>2. QED
      BY <2>1, <3>1, AskedInv
  <2>4. ASSUME headersFirstMode, NEW b \in Blocks, NEW gd \in Seq(Blocks),
               requestedBlocks' = (requestedBlocks \ {b}) \cup Elements(gd),
               requested' = [[requested EXCEPT ![p] = @ \ {b}] EXCEPT ![syncPeer] = @ \cup Elements(gd)]
        PROVE  RequestInv'
    <3> DEFINE req == [requested EXCEPT ![p] = @ \ {b}]
               reqs == requestedBlocks \ {b}
    <3>1. Asked(req, reqs, peers)
      BY ZenonT(40), <1>0, AskedDone
    <3>2. requestedBlocks' = reqs \cup Elements(gd) /\ requested' = [req EXCEPT ![syncPeer] = @ \cup Elements(gd)]
      BY <2>4
    <3>3. Elements(gd) \in SUBSET Blocks
      BY RangeTypes
    <3> HIDE DEF req, reqs
    <3>4. Asked([req EXCEPT ![syncPeer] = @ \cup Elements(gd)], reqs \cup Elements(gd), peers)
      BY ZenonT(40), <1>0, <2>4, <3>1, <3>3, AskedMore
    <3>5. QED
      BY <2>1, <3>2, <3>4, AskedInv
  <2>5. QED
    BY ZenonT(40), <1>4, <2>2, <2>3, <2>4, BlockCases
<1>5. ASSUME NEW p \in Peers, ReceiveNotFound(p) PROVE RequestInv'
  <2> DEFINE gone == Elements(Request(p).blocks) \cap requested[p]
  <2>1. /\ UNCHANGED peers /\ requested' = [requested EXCEPT ![p] = @ \ gone]
        /\ requestedBlocks' = requestedBlocks \ gone
    BY ZenonT(40), <1>5 DEF ReceiveNotFound
  <2> HIDE DEF gone
  <2>2. Asked(requested', requestedBlocks', peers)
    BY ZenonT(40), <1>0, <2>1, AskedDone
  <2>3. QED
    BY ZenonT(40), <2>1, <2>2, AskedInv
<1>6. ASSUME NEW p \in Peers, IdleTimeout(p) \/ LosePeer(p) \/ Extend(p) PROVE RequestInv'
  BY ZenonT(40), <1>1, <1>6 DEF IdleTimeout, LosePeer, Extend, requests
<1>7. CASE StallSample
  <2>1. UNCHANGED <<peers, requested>>
    BY <1>7 DEF StallSample
  <2>3. PICK links : UpdateSyncPeer(peers, links, Cleared(syncPeer))
    BY <1>7 DEF StallSample
  <2>4. requestedBlocks' \subseteq Cleared(syncPeer)
    BY ZenonT(40), <2>3, StartSyncLess DEF UpdateSyncPeer
  <2>2. QED
    BY ZenonT(40), <1>1, <2>1, <2>4 DEF Cleared
<1>8. ASSUME NEW u \in updates, UpdatePeerHeights(u) PROVE RequestInv'
  BY ZenonT(40), <1>1, <1>8 DEF UpdatePeerHeights, requests
<1>9. ASSUME NEW b \in LocalBlocks, LocalBlock(b) PROVE RequestInv'
  BY ZenonT(40), <1>1, <1>9 DEF LocalBlock, requests
<1>10. CASE UNCHANGED vars
  BY <1>1, <1>10 DEF vars, requests
<1>11. QED
  BY ZenonT(40), <1>2, <1>3, <1>4, <1>5, <1>6, <1>7, <1>8, <1>9, <1>10, NewPeerRequests, DonePeerRequests
  DEF Next, PeerStep, Receive

\* The heights that are recorded of a peer.
LEMMA LargerNat ==
  ASSUME NEW f \in [Peers -> Nat], NEW p \in Peers, NEW h \in Nat
  PROVE  [f EXCEPT ![p] = Larger(@, h)] \in [Peers -> Nat]
  BY ZenonT(40) DEF Larger

\* handleInvMsg and the heights.
LEMMA InvHeights ==
  ASSUME FetchInv, NEW p \in Peers, NEW l, NEW inv \in Seq(Blocks), inv # <<>>, HandleInv(p, l, inv)
  PROVE  HeightInv'
<1> DEFINE final == inv[Len(inv)]
<1>1. final \in Blocks
  BY NonEmptyLen, ElementOf
<1>2. Height[final] \in Nat
  BY ZenonT(40), <1>1, PathOf
<1>3. /\ lastAnnounced' \in {lastAnnounced, [lastAnnounced EXCEPT ![p] = final]}
      /\ lastBlock' \in {lastBlock, [lastBlock EXCEPT ![p] = Larger(@, Height[final])]}
      /\ UNCHANGED updates
  BY DEF HandleInv
<1> HIDE DEF final
<1>4. HeightInv
  BY DEF FetchInv
<1>5. lastBlock' \in [Peers -> Nat]
  <2>1. [lastBlock EXCEPT ![p] = Larger(@, Height[final])] \in [Peers -> Nat]
    BY ZenonT(40), <1>2, <1>4, LargerNat DEF HeightInv
  <2>2. QED
    BY <1>3, <1>4, <2>1 DEF HeightInv
<1>6. lastAnnounced' \in [Peers -> Blocks \cup {None}]
  BY ZenonT(40), <1>1, <1>3, <1>4 DEF HeightInv
<1>7. QED
  BY ZenonT(40), <1>3, <1>4, <1>5, <1>6 DEF HeightInv

\* handleBlockMsg and the heights.
LEMMA BlockHeights ==
  ASSUME FetchInv, NEW p \in Peers, ReceiveBlock(p)
  PROVE  HeightInv'
<1>0. HeightInv
  BY DEF FetchInv
<1> DEFINE b == Request(p).blocks[1]
           height == IF IsOrphan(b) THEN Height[b] ELSE Height[best']
           hash == IF IsOrphan(b) THEN b ELSE best'
<1>1. b \in Blocks
  BY ZenonT(40), Facts, BlockSentOK DEF ReceiveBlock, Answers, Request
<1>2. best' \in Blocks
  <2>1. ListInv'
    BY ReceiveBlockLinked DEF FetchInv
  <2>2. QED
    BY ZenonT(40), <2>1 DEF ListInv
<1>3. hash \in Blocks /\ height \in Nat
  <2> HIDE DEF b
  <2>1. Height[b] \in Nat /\ Height[best'] \in Nat
    BY ZenonT(40), <1>1, <1>2, PathOf
  <2>2. QED
    BY ZenonT(40), <1>1, <1>2, <2>1
<1>4. \/ UNCHANGED <<heights, updates>>
      \/ /\ lastBlock' = [lastBlock EXCEPT ![p] = Larger(@, height)] /\ UNCHANGED lastAnnounced
         /\ updates' \in {updates, updates \cup {<<hash, p>>}}
  <2>1. \/ UNCHANGED <<heights, updates>>
        \/ BlockProcessed(p, b, BlockSent(p), [requested EXCEPT ![p] = @ \ {b}], requestedBlocks \ {b})
    BY ZenonT(40) DEF ReceiveBlock
  <2>2. ASSUME NEW l, NEW req, NEW reqs, BlockProcessed(p, b, l, req, reqs)
        PROVE  /\ lastBlock' = [lastBlock EXCEPT ![p] = Larger(@, height)] /\ UNCHANGED lastAnnounced
               /\ updates' \in {updates, updates \cup {<<hash, p>>}}
    BY ZenonT(40), <2>2 DEF BlockProcessed
  <2>3. QED
    BY ZenonT(40), <2>1, <2>2
<1> HIDE DEF b, height, hash
<1>5. CASE UNCHANGED <<heights, updates>>
  BY ZenonT(40), <1>0, <1>5 DEF HeightInv, heights
<1>6. CASE /\ lastBlock' = [lastBlock EXCEPT ![p] = Larger(@, height)] /\ UNCHANGED lastAnnounced
           /\ updates' \in {updates, updates \cup {<<hash, p>>}}
  BY <1>0, <1>3, <1>6, LargerNat DEF HeightInv
<1>7. QED
  BY <1>4, <1>5, <1>6

\* handleUpdatePeerHeights.
LEMMA UpdateHeights ==
  ASSUME FetchInv, NEW u \in updates, UpdatePeerHeights(u)
  PROVE  HeightInv'
<1> DEFINE hit == {p \in peers \ {u[2]} : lastAnnounced[p] = u[1]}
<1>1. HeightInv
  BY DEF FetchInv
<1>2. u[1] \in Blocks
  BY <1>1 DEF HeightInv
<1>3. Height[u[1]] \in Nat
  BY ZenonT(40), <1>2, PathOf
<1>4. /\ lastBlock' = [p \in Peers |-> IF p \in hit THEN Larger(lastBlock[p], Height[u[1]]) ELSE lastBlock[p]]
      /\ lastAnnounced' = [p \in Peers |-> IF p \in hit THEN None ELSE lastAnnounced[p]]
      /\ updates' = updates \ {u}
  BY ZenonT(40) DEF UpdatePeerHeights
<1> HIDE DEF hit
<1>5. lastBlock' \in [Peers -> Nat]
  BY ZenonT(40), <1>1, <1>3, <1>4 DEF HeightInv, Larger
<1>6. lastAnnounced' \in [Peers -> Blocks \cup {None}]
  BY ZenonT(40), <1>1, <1>4 DEF HeightInv
<1>7. QED
  BY <1>1, <1>4, <1>5, <1>6 DEF HeightInv

\* Every step.
LEMMA NextHeights == FetchInv /\ [Next]_vars => HeightInv'
<1> SUFFICES ASSUME FetchInv, [Next]_vars PROVE HeightInv'
  OBVIOUS
<1>0. HeightInv
  BY DEF FetchInv
<1>1. ASSUME UNCHANGED <<heights, updates>> PROVE HeightInv'
  BY ZenonT(40), <1>0, <1>1 DEF HeightInv, heights
<1>2. ASSUME NEW p \in Peers, NewPeer(p) PROVE HeightInv'
  <2>1. tip[p] \in Blocks
    BY Facts
  <2>2. Height[tip[p]] \in Nat
    BY ZenonT(40), <2>1, PathOf
  <2>3. /\ lastBlock' = [lastBlock EXCEPT ![p] = Height[tip[p]]]
        /\ lastAnnounced' = [lastAnnounced EXCEPT ![p] = None] /\ UNCHANGED updates
    BY ZenonT(40), <1>2 DEF NewPeer
  <2>4. QED
    BY ZenonT(40), <1>0, <2>2, <2>3 DEF HeightInv
<1>3. ASSUME NEW p \in Peers, DonePeer(p) PROVE HeightInv'
  <2>1. /\ lastBlock' = [lastBlock EXCEPT ![p] = 0]
        /\ lastAnnounced' = [lastAnnounced EXCEPT ![p] = None] /\ UNCHANGED updates
    BY ZenonT(40), <1>3 DEF DonePeer
  <2>2. QED
    BY ZenonT(40), <1>0, <2>1 DEF HeightInv
<1>4. ASSUME NEW p \in Peers, ReceiveInv(p) PROVE HeightInv'
  BY <1>1, <1>4, InvCases, InvHeights
<1>5. ASSUME NEW p \in Peers, ReceiveHeaders(p) \/ ReceiveNotFound(p) PROVE HeightInv'
  BY ZenonT(40), <1>1, <1>5 DEF ReceiveHeaders, ReceiveNotFound
<1>6. ASSUME NEW p \in Peers, IdleTimeout(p) \/ LosePeer(p) \/ Extend(p) PROVE HeightInv'
  BY ZenonT(40), <1>1, <1>6 DEF IdleTimeout, LosePeer, Extend
<1>7. CASE StallSample
  BY ZenonT(40), <1>1, <1>7 DEF StallSample
<1>8. ASSUME NEW b \in LocalBlocks, LocalBlock(b) PROVE HeightInv'
  BY ZenonT(40), <1>1, <1>8 DEF LocalBlock
<1>9. CASE UNCHANGED vars
  BY <1>1, <1>9 DEF vars
<1>10. QED
  BY ZenonT(40), <1>2, <1>3, <1>4, <1>5, <1>6, <1>7, <1>8, <1>9, BlockHeights, UpdateHeights DEF Next, PeerStep, Receive

\* findNextHeaderCheckpoint finds a checkpoint or none.
LEMMA FindNext ==
  ASSUME NEW h
  PROVE  FindNextHeaderCheckpoint(h) \in Checkpoints \cup {None}
<1> DEFINE above == {c \in Checkpoints : Height[c] > h}
           H == {Height[c] : c \in above}
<1>1. CASE above = {}
  BY <1>1 DEF FindNextHeaderCheckpoint
<1>2. CASE above # {}
  <2>1. \A c \in above : Height[c] \in Nat
    <3>1. \A c \in above : c \in Blocks
      BY PathTypes
    <3> HIDE DEF above
    <3>2. QED
      BY ZenonT(40), <3>1, PathOf
  <2>2. \E x \in H : \A y \in H : x <= y
    <3>1. H # {} /\ \A x \in H : x \in Nat
      BY ZenonT(40), <1>2, <2>1
    <3> HIDE DEF H
    <3>2. QED
      BY ZenonT(40), <3>1, LeastNat
  <2>3. \E c \in above : \A d \in above : Height[c] <= Height[d]
    BY <2>2
  <2>4. FindNextHeaderCheckpoint(h) = CHOOSE c \in above : \A d \in above : Height[c] <= Height[d]
    BY <1>2, Zenon DEF FindNextHeaderCheckpoint
  <2>5. FindNextHeaderCheckpoint(h) \in above
    BY <2>3, <2>4
  <2>6. QED
    BY <2>5
<1>3. QED
  BY <1>1, <1>2

\* The best block is always indexed.
LEMMA BestIndexed ==
  ASSUME FetchInv, NEW b, ProcessBlock(b)
  PROVE  best' \in index'
<1>1. best \in index
  BY ZenonT(40) DEF FetchInv, StateInv
<1>2. \/ UNCHANGED <<index, best>>
      \/ /\ index' = index \cup Accepted(b)
         /\ best' = best \/ best' \in Accepted(b)
  BY DEF ProcessBlock
<1>3. QED
  BY <1>1, <1>2

\* handleBlockMsg and the other variables.
LEMMA BlockState ==
  ASSUME FetchInv, NEW p \in Peers, ReceiveBlock(p)
  PROVE  StateInv'
<1>0. StateInv
  BY ZenonT(40) DEF FetchInv
<1>1. UNCHANGED <<peers, syncCandidate, silent>>
  BY ZenonT(40) DEF ReceiveBlock
<1>2. startHeader' \in Blocks \cup {None}
  BY ZenonT(40), <1>0, BlockCases DEF StateInv
<1>3. best' \in index' /\ nextCheckpoint' \in Checkpoints \cup {None}
  <2>1. CASE UNCHANGED <<chain, nextCheckpoint>>
    BY ZenonT(40), <1>0, <2>1 DEF StateInv, chain
  <2>2. ASSUME NEW b, NEW l, NEW req, NEW reqs, ProcessBlock(b), BlockProcessed(p, b, l, req, reqs)
        PROVE  best' \in index' /\ nextCheckpoint' \in Checkpoints \cup {None}
    <3>1. nextCheckpoint' \in {nextCheckpoint, FindNextHeaderCheckpoint(Height[nextCheckpoint])}
      BY ZenonT(40), <2>2 DEF BlockProcessed, headers
    <3>2. QED
      BY ZenonT(40), <1>0, <2>2, <3>1, BestIndexed, FindNext DEF StateInv
  <2>3. QED
    BY ZenonT(40), <2>1, <2>2 DEF ReceiveBlock, headers
<1>4. QED
  BY <1>0, <1>1, <1>2, <1>3 DEF StateInv

\* Every step.
LEMMA NextState == FetchInv /\ [Next]_vars => StateInv'
<1> SUFFICES ASSUME FetchInv, [Next]_vars PROVE StateInv'
  OBVIOUS
<1>0. StateInv
  BY DEF FetchInv
<1>1. ASSUME UNCHANGED <<chain, startHeader, nextCheckpoint>>, syncCandidate' \subseteq peers', silent' \subseteq peers'
      PROVE  StateInv'
  BY ZenonT(40), <1>0, <1>1 DEF StateInv, chain
<1>2. ASSUME NEW p \in Peers, NewPeer(p) PROVE StateInv'
  <2>1. UNCHANGED <<chain, startHeader, nextCheckpoint, silent>> /\ peers' = peers \cup {p}
    BY ZenonT(40), <1>2 DEF NewPeer
  <2>2. syncCandidate' \subseteq syncCandidate \cup {p}
    BY ZenonT(40), <1>2, StartSyncLess DEF NewPeer
  <2>3. QED
    BY ZenonT(40), <1>0, <1>1, <2>1, <2>2 DEF StateInv
<1>3. ASSUME NEW links, NEW reqs, UNCHANGED chain, UpdateSyncPeer(peers', links, reqs), silent' \subseteq peers'
      PROVE  StateInv'
  <2>1. syncCandidate' \subseteq peers'
    <3>1. syncCandidate' \subseteq syncCandidate \cap peers'
      BY ZenonT(40), <1>3, StartSyncLess DEF UpdateSyncPeer
    <3>2. QED
      BY <3>1
  <2>2. UNCHANGED nextCheckpoint /\ startHeader' \in {startHeader, None}
    BY <1>3 DEF UpdateSyncPeer, ResetHeaderState
  <2>3. QED
    BY ZenonT(40), <1>0, <1>3, <2>1, <2>2 DEF StateInv, chain
<1>4. ASSUME NEW p \in Peers, DonePeer(p) PROVE StateInv'
  <2>1. UNCHANGED chain /\ peers' = peers \ {p} /\ silent' = silent \ {p}
    BY <1>4 DEF DonePeer
  <2>2. silent' \subseteq peers'
    BY ZenonT(40), <1>0, <2>1 DEF StateInv
  <2>3. CASE p = syncPeer
    <3>1. \E links, reqs : UpdateSyncPeer(peers', links, reqs)
      BY ZenonT(40), <1>4, <2>3 DEF DonePeer
    <3>2. QED
      BY ZenonT(40), <1>3, <2>1, <2>2, <3>1
  <2>4. CASE p # syncPeer
    <3>1. UNCHANGED <<startHeader, nextCheckpoint>> /\ syncCandidate' = syncCandidate \ {p}
      BY ZenonT(40), <1>4, <2>4 DEF DonePeer, headers
    <3>2. QED
      BY ZenonT(40), <1>0, <1>1, <2>1, <2>2, <3>1 DEF StateInv
  <2>5. QED
    BY ZenonT(40), <2>3, <2>4
<1>5. CASE StallSample
  <2>1. UNCHANGED <<chain, peers, silent>> /\ \E links : UpdateSyncPeer(peers, links, Cleared(syncPeer))
    BY ZenonT(40), <1>5 DEF StallSample
  <2>2. QED
    BY <1>0, <1>3, <2>1 DEF StateInv
<1>6. ASSUME NEW p \in Peers, ReceiveHeaders(p) PROVE StateInv'
  <2>1. UNCHANGED <<chain, peers, syncCandidate, nextCheckpoint, silent>>
    BY ZenonT(40), <1>6 DEF ReceiveHeaders
  <2>2. startHeader' \in Blocks \cup {None}
    BY ZenonT(40), <1>6, HeadersCases
  <2>3. QED
    BY <1>0, <2>1, <2>2 DEF StateInv, chain
<1>7. ASSUME UNCHANGED <<chain, peers, syncCandidate, headers, silent>> PROVE StateInv'
  BY <1>0, <1>1, <1>7 DEF StateInv, headers
<1>8. ASSUME NEW p \in Peers, ReceiveInv(p) PROVE StateInv'
  BY ZenonT(40), <1>7, <1>8, InvCases DEF HandleInv
<1>9. ASSUME NEW p \in Peers, ReceiveNotFound(p) \/ IdleTimeout(p) \/ Extend(p) PROVE StateInv'
  BY ZenonT(40), <1>7, <1>9 DEF ReceiveNotFound, IdleTimeout, Extend
<1>10. ASSUME NEW p \in Peers, LosePeer(p) PROVE StateInv'
  <2>1. UNCHANGED <<chain, peers, syncCandidate, headers>> /\ p \in peers /\ silent' \in {silent, silent \cup {p}}
    BY ZenonT(40), <1>10 DEF LosePeer
  <2>2. QED
    BY ZenonT(40), <1>0, <1>1, <2>1 DEF StateInv, headers
<1>11. ASSUME NEW u \in updates, UpdatePeerHeights(u) PROVE StateInv'
  BY ZenonT(40), <1>7, <1>11 DEF UpdatePeerHeights
<1>12. ASSUME NEW b \in LocalBlocks, LocalBlock(b) PROVE StateInv'
  <2>1. UNCHANGED <<peers, syncCandidate, headers, silent>> /\ ProcessBlock(b)
    BY ZenonT(40), <1>12 DEF LocalBlock
  <2>2. QED
    BY ZenonT(40), <1>0, <2>1, BestIndexed DEF StateInv, headers
<1>13. CASE UNCHANGED vars
  BY <1>7, <1>13 DEF vars
<1>14. QED
  BY ZenonT(40), <1>2, <1>4, <1>5, <1>6, <1>8, <1>9, <1>10, <1>11, <1>12, <1>13, BlockState DEF Next, PeerStep, Receive

\* Nothing is requested at the start.
LEMMA InitFetch == Init => FetchInv
<1> SUFFICES ASSUME Init PROVE FetchInv
  OBVIOUS
<1>1. IInv /\ ListInv
  BY InitKeeps, InitList
<1>2. LinksOK(link)
  <2>1. link = [p \in Peers |-> NoLink]
    BY DEF Init
  <2>2. QED
    BY ZenonT(40), <2>1, NewLink DEF LinksOK
<1>3. RequestInv
  BY ZenonT(40) DEF Init, RequestInv, RequestedOfSomebody
<1>4. HeightInv
  BY DEF Init, HeightInv
<1>5. StateInv
  BY FindNext DEF Init, StateInv
<1>6. QED
  BY ZenonT(40), <1>1, <1>2, <1>3, <1>4, <1>5 DEF FetchInv

\* While the blocks fit into the maps of requests (maxRequestedBlocks, beyond
\* which limitAdd evicts requests at random), every block that the sync manager
\* records as requested was asked of a peer that it still knows, whichever peers
\* join, leave, stall, answer late or are replaced as sync peer.
THEOREM RequestsTracked ==
  ASSUME IsFiniteSet(Blocks), Cardinality(Blocks) <= MaxRequestedBlocks
  PROVE  Spec => []FetchTracked
<1>1. FetchInv => FetchTracked
  <2> SUFFICES ASSUME FetchInv PROVE FetchTracked
    OBVIOUS
  <2>1. requestedBlocks \subseteq Blocks /\ peers \subseteq Peers
    <3>1. Asked(requested, requestedBlocks, peers) /\ peers \subseteq Peers
      BY AskedInv DEF FetchInv, IInv
    <3>2. QED
      BY <3>1 DEF Asked
  <2>2. syncPeer \in Peers \cup {None} /\ headersFirstMode \in BOOLEAN
    BY ZenonT(40), <2>1 DEF FetchInv, IInv, SyncInv
  <2>3. QED
    BY ZenonT(40), <2>1, <2>2 DEF FetchInv, ListInv, RequestInv, HeightInv, StateInv, FetchTracked, TypeOK
<1>2. FetchInv /\ [Next]_vars => FetchInv'
  <2> SUFFICES ASSUME FetchInv, [Next]_vars PROVE FetchInv'
    OBVIOUS
  <2>1. IInv' /\ ListInv'
    BY NextKeeps, NextLinked DEF FetchInv
  <2>2. LinksOK(link')
    BY NextLinks
  <2>3. RequestInv' /\ HeightInv' /\ StateInv'
    BY NextRequests, NextHeights, NextState
  <2>4. QED
    BY <2>1, <2>2, <2>3 DEF FetchInv, LinksOK
<1> QED
  BY <1>1, <1>2, InitFetch, PTL DEF Spec
=============================================================================
