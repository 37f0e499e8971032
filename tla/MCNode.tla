------------------------------- MODULE MCNode -------------------------------
(***************************************************************************)
(* The components of the node that keep their own state, each on a small   *)
(* instance.  A behaviour is one of a single component, named by part; the *)
(* components take turns in using the registers v1, v2 and so on for their *)
(* variables, and what a component has no use for is Off.                  *)
(***************************************************************************)
EXTENDS Integers, Sequences, FiniteSets, TLC

CONSTANTS
  Off, None, Zero,
  g, b1, b2, c1, c2, c3,                  \* blocks
  tU, tT, tK, tR, tQ, tV,                       \* transactions
  f1, f2, u1, t1, r1, w1,                 \* outputs
  gc, b1c, b2c, c1c, c2c, c3c, sh,         \* transactions of blocks for the indexes
  ax, ay, az,                                \* addresses
  p1, p2, p3,                             \* peers
  n1, n2,                                 \* hosts, address groups, sources
  m1, rj, i1, i2                          \* messages, inventory, requests

VARIABLES part, v1, v2, v3, v4, v5, v6, v7, v8, v9, v10, v11, v12,
  v13, v14, v15, v16, v17, v18, v19, v20, v21, v22, v23, v24, v25

registers == <<v1, v2, v3, v4, v5, v6, v7, v8, v9, v10, v11, v12, v13, v14,
               v15, v16, v17, v18, v19, v20, v21, v22, v23, v24, v25>>

\* The registers from v_k on are not used, and stay so; so does the part.
Unused(k) ==
  /\ IF k <= 1 THEN v1 = Off ELSE TRUE
  /\ IF k <= 2 THEN v2 = Off ELSE TRUE
  /\ IF k <= 3 THEN v3 = Off ELSE TRUE
  /\ IF k <= 4 THEN v4 = Off ELSE TRUE
  /\ IF k <= 5 THEN v5 = Off ELSE TRUE
  /\ IF k <= 6 THEN v6 = Off ELSE TRUE
  /\ IF k <= 7 THEN v7 = Off ELSE TRUE
  /\ IF k <= 8 THEN v8 = Off ELSE TRUE
  /\ IF k <= 9 THEN v9 = Off ELSE TRUE
  /\ IF k <= 10 THEN v10 = Off ELSE TRUE
  /\ IF k <= 11 THEN v11 = Off ELSE TRUE
  /\ IF k <= 12 THEN v12 = Off ELSE TRUE
  /\ IF k <= 13 THEN v13 = Off ELSE TRUE
  /\ IF k <= 14 THEN v14 = Off ELSE TRUE
  /\ IF k <= 15 THEN v15 = Off ELSE TRUE
  /\ IF k <= 16 THEN v16 = Off ELSE TRUE
  /\ IF k <= 17 THEN v17 = Off ELSE TRUE
  /\ IF k <= 18 THEN v18 = Off ELSE TRUE
  /\ IF k <= 19 THEN v19 = Off ELSE TRUE
  /\ IF k <= 20 THEN v20 = Off ELSE TRUE
  /\ IF k <= 21 THEN v21 = Off ELSE TRUE
  /\ IF k <= 22 THEN v22 = Off ELSE TRUE
  /\ IF k <= 23 THEN v23 = Off ELSE TRUE
  /\ IF k <= 24 THEN v24 = Off ELSE TRUE
  /\ IF k <= 25 THEN v25 = Off ELSE TRUE
Keep(k) ==
  /\ UNCHANGED part
  /\ IF k <= 1 THEN UNCHANGED v1 ELSE TRUE
  /\ IF k <= 2 THEN UNCHANGED v2 ELSE TRUE
  /\ IF k <= 3 THEN UNCHANGED v3 ELSE TRUE
  /\ IF k <= 4 THEN UNCHANGED v4 ELSE TRUE
  /\ IF k <= 5 THEN UNCHANGED v5 ELSE TRUE
  /\ IF k <= 6 THEN UNCHANGED v6 ELSE TRUE
  /\ IF k <= 7 THEN UNCHANGED v7 ELSE TRUE
  /\ IF k <= 8 THEN UNCHANGED v8 ELSE TRUE
  /\ IF k <= 9 THEN UNCHANGED v9 ELSE TRUE
  /\ IF k <= 10 THEN UNCHANGED v10 ELSE TRUE
  /\ IF k <= 11 THEN UNCHANGED v11 ELSE TRUE
  /\ IF k <= 12 THEN UNCHANGED v12 ELSE TRUE
  /\ IF k <= 13 THEN UNCHANGED v13 ELSE TRUE
  /\ IF k <= 14 THEN UNCHANGED v14 ELSE TRUE
  /\ IF k <= 15 THEN UNCHANGED v15 ELSE TRUE
  /\ IF k <= 16 THEN UNCHANGED v16 ELSE TRUE
  /\ IF k <= 17 THEN UNCHANGED v17 ELSE TRUE
  /\ IF k <= 18 THEN UNCHANGED v18 ELSE TRUE
  /\ IF k <= 19 THEN UNCHANGED v19 ELSE TRUE
  /\ IF k <= 20 THEN UNCHANGED v20 ELSE TRUE
  /\ IF k <= 21 THEN UNCHANGED v21 ELSE TRUE
  /\ IF k <= 22 THEN UNCHANGED v22 ELSE TRUE
  /\ IF k <= 23 THEN UNCHANGED v23 ELSE TRUE
  /\ IF k <= 24 THEN UNCHANGED v24 ELSE TRUE
  /\ IF k <= 25 THEN UNCHANGED v25 ELSE TRUE

-----------------------------------------------------------------------------
\* tU and its child tT are mined in b1.  tK spends tT, and tQ double-spends tT and tK.
\* tR double-spends tU, and is mined with its non-standard child tV on the other branch.
PoolParent == (g :> g) @@ (b1 :> g) @@ (b2 :> b1) @@ (c1 :> g) @@ (c2 :> c1)
PoolIns == (tU :> {f1}) @@ (tT :> {u1}) @@ (tK :> {t1, f2}) @@ (tR :> {f1}) @@ (tQ :> {u1, f2}) @@ (tV :> {r1})
PoolOuts == (tU :> <<u1>>) @@ (tT :> <<t1>>) @@ (tK :> <<>>) @@ (tR :> <<r1>>) @@ (tQ :> <<>>) @@ (tV :> <<w1>>)
PoolBlockTxs == (g :> <<>>) @@ (b1 :> <<tU, tT>>) @@ (b2 :> <<>>) @@ (c1 :> <<tR>>) @@ (c2 :> <<tV>>)
PoolFee == (tU :> 1) @@ (tT :> 1) @@ (tK :> 0) @@ (tR :> 3) @@ (tQ :> 3) @@ (tV :> 1)
Pool == INSTANCE TxPool WITH Blocks <- {g, b1, b2, c1, c2}, Genesis <- g, Parent <- PoolParent,
    Txs <- {tU, tT, tK, tR, tQ, tV}, Outpoints <- {f1, f2, u1, t1, r1, w1}, Ins <- PoolIns,
    Outs <- PoolOuts, Funds <- {f1, f2}, BlockTxs <- PoolBlockTxs, Peers <- {p1, p2},
    Fee <- PoolFee, MinFee <- 1, Signals <- {tU}, NonStandard <- {tV}, BadInputs <- {},
    Large <- {}, HighPriority <- {tK}, MaxOrphanTxs <- 2, MaxReplacementEvictions <- 3,
    RejectReplacement <- FALSE, best <- v1, target <- v2, known <- v3, pool <- v4,
    outpoints <- v5, tag <- v6, orphansByPrev <- v7, notice <- v8, work <- v9, stranded <- v10

\* The indexes of the memory pool are exact and bounded (mempool.go:180).
MempoolInv == part = "pool" => Pool!MempoolInv

\* What the pool holds can be mined on the chain (netsync/manager.go:1389).
PoolSpendable == part = "pool" => Pool!PoolSpendable

-----------------------------------------------------------------------------
\* Two branches with a transaction sh that both confirm.
IndexParent == (g :> g) @@ (b1 :> g) @@ (b2 :> b1) @@ (c1 :> g) @@ (c2 :> c1) @@ (c3 :> c2)
IndexBlockTxs == (g :> <<gc>>) @@ (b1 :> <<b1c>>) @@ (b2 :> <<b2c, sh>>)
                   @@ (c1 :> <<c1c>>) @@ (c2 :> <<c2c, sh>>) @@ (c3 :> <<c3c>>)
IndexTxAddrs == (gc :> {ax}) @@ (b1c :> {ax}) @@ (b2c :> {ax}) @@ (c1c :> {ax}) @@ (c2c :> {ay})
                  @@ (c3c :> {ax}) @@ (sh :> {ax, ay})
Index == INSTANCE Indexers WITH Blocks <- {g, b1, b2, c1, c2, c3}, Genesis <- g,
    Parent <- IndexParent, BlockTxs <- IndexBlockTxs, Addrs <- {ax, ay},
    TxAddrs <- IndexTxAddrs, Configs <- {<<>>, <<"tx", "addr", "cf">>, <<"tx">>},
    MaxDeletions <- 2, Increment <- 2, MaxFailures <- 1, MaxStarts <- 3, level0MaxEntries <- 1,
    MaxLevel <- 3, best <- v1, goal <- v2, tip <- v3, dropping <- v4, data <- v5, enabled <- v6,
    curBlockID <- v7, pc <- v8, drops <- v9, todo <- v10, failures <- v11, starts <- v12


-----------------------------------------------------------------------------
Peer == INSTANCE Peer WITH Msgs <- {m1}, Waits <- {m1}, Reject <- rj, TxInvs <- {i1},
    BlockInvs <- {i2}, outputBufferSize <- 1, maxInvTrickleSize <- 1, MaxReads <- 1,
    MaxInvs <- 1, disconnect <- v1, call <- v2, outputQueue <- v3, outputInvChan <- v4,
    sendQueue <- v5, sendDoneQueue <- v6, stallControl <- v7, pendingMsgs <- v8,
    invSendQueue <- v9, waiting <- v10, qState <- v11, qMsg <- v12, oState <- v13, oMsg <- v14,
    iState <- v15, reads <- v16, sState <- v17, ioStopped <- v18, knownInventory <- v19,
    doneSent <- v20, offered <- v21, queued <- v22, sent <- v23

\* The queue of a peer hands over one message at a time (peer.go:1639).
OneInFlight == part = "peer" => Peer!OneInFlight

-----------------------------------------------------------------------------
Stall == INSTANCE PeerStall WITH Requests <- {"getblocks", "getdata"},
    Answers <- {"inv", "block", "tx"}, ResponseTimeout <- 4, TickInterval <- 2, MaxTime <- 9,
    MaxUnread <- 2, now <- v1, pendingResponses <- v2, handlerActive <- v3,
    handlersStartTime <- v4, deadlineOffset <- v5, disconnected <- v6, unread <- v7,
    handlerEnded <- v8

\* A peer that owes an answer is disconnected (peer.go:1235).
StallNoticed == part = "stall" => Stall!StallNoticed

-----------------------------------------------------------------------------
Handshake == INSTANCE PeerHandshake WITH Versions <- 1 .. 3, MinAcceptableProtocolVersion <- 2,
    AddrV2Version <- 3, MaxForeign <- 1, version <- v1, self <- v2, segwitActive <- v3,
    witness <- v4, network <- v5, step <- v6, line <- v7, disconnect <- v8,
    protocolVersion <- v9, versionKnown <- v10, sendAddrV2 <- v11, verAckReceived <- v12,
    added <- v13, foreign <- v14

\* Both ends come to one protocol (peer.go:2217 and 2255).
HandshakeAgrees == part = "handshake" => Handshake!HandshakeAgrees

-----------------------------------------------------------------------------
\* An inbound and an outbound peer of one host, and a persistent peer.
ServerGroup == (p2 :> n1) @@ (p3 :> n1)
ServerHost == (p1 :> n1) @@ (p2 :> n1) @@ (p3 :> n2)
Server == INSTANCE Server WITH Peers <- {p1, p2, p3}, Inbound <- {p1}, Persistent <- {p3},
    Group <- ServerGroup, Host <- ServerHost, Misbehaving <- {p1}, MaxPeers <- 2,
    connected <- v1, verAckReceived <- v2, listed <- v3, outboundGroups <- v4, banned <- v5,
    newPeers <- v6, donePeers <- v7, banPeers <- v8, banning <- v9, adding <- v10, ended <- v11,
    released <- v12, peerStates <- v13, quit <- v14

\* The counts by which the server picks peers are right, and a peer that has ended
\* is not listed for ever (server.go:1715 and 1822).
PeersAccounted == part = "server" => Server!PeersAccounted

-----------------------------------------------------------------------------
NewBucket == [q \in {ax, ay, az} \X {n1, n2} |-> IF q[2] = n2 /\ q[1] # az THEN 2 ELSE 1]
TriedBucket == [q \in {ax, ay, az} |-> 1]
Addr == INSTANCE AddrManager WITH Addrs <- {ax, ay, az}, Sources <- {n1, n2},
    NewBuckets <- {1, 2}, TriedBuckets <- {1, 2}, newBucketSize <- 1, triedBucketSize <- 1,
    newBucketsPerAddress <- 2, MaxStarts <- 1, addrIndex <- v1, refs <- v2, tried <- v3,
    addrNew <- v4, addrTried <- v5, nNew <- v6, nTried <- v7, file <- v8, damaged <- v9,
    starts <- v10


-----------------------------------------------------------------------------
Rpc == INSTANCE RpcClient WITH Requests <- {i1, i2}, Notify <- {i1}, Rescan <- {i2},
    MaxConns <- 2, sendBufferSize <- 2, call <- v1, answers <- v2, requestList <- v3,
    ntfnState <- v4, autoReconnect <- v5, cur <- v6, disconnected <- v7, dialing <- v8,
    shutdown <- v9, broken <- v10, sendChan <- v11, outH <- v12, inH <- v13, reading <- v14,
    resend <- v15, resendReqs <- v16, got <- v17, replied <- v18


-----------------------------------------------------------------------------
Scripts == INSTANCE ScriptSpends WITH MaxOpsPerScript <- 201, MaxStackSize <- 1000, vm <- v1,
    job <- v2


\* Conditionals, stack opcodes, script numbers and script trees are as documented
\* (txscript/opcode.go:900 and 1300, scriptnum.go:185, taproot.go:640).
GroundSound == part = "script" => Scripts!GroundSound

-----------------------------------------------------------------------------
Net == INSTANCE Wire WITH Pvers <- {208, 60000, 60002, 70001, 70016}, pver <- v1, enc <- v2,
    sent <- v3, damage <- v4, stream <- v5, got <- v6


-----------------------------------------------------------------------------
Gbt == INSTANCE LongPoll WITH Pollers <- {p1, p2}, Nil <- None, Moments <- {3, 124},
    MaxCalls <- 3, MaxMoves <- 2, best <- v1, seen <- v2, lastUpdated <- v3, now <- v4,
    moves <- v5, notes <- v6, prevHash <- v7, lastGenerated <- v8, lastTxUpdate <- v9,
    template <- v10, notifyMap <- v11, lock <- v12, pc <- v13, asked <- v14, reply <- v15,
    calls <- v16


-----------------------------------------------------------------------------
Calls == INSTANCE RpcCalls WITH conf <- v1, phase <- v2, call <- v3, params <- v4, fields <- v5,
    reply <- v6, outcome <- v7, filterData <- v8

\* The RPC client, the server and its help agree on every call (rpcserver.go:132,
\* rpcclient, btcjson/cmdparse.go:16).
CallsAgree == part = "calls" => Calls!CallsAgree

-----------------------------------------------------------------------------
\* tU spends f1 and pays the key ax, tT spends what tU pays, b1 confirms tU; ay is the hash of ax.
\* The client p1 has a few commands to send, and p2 none but what a plan gives it.
NtfnIns == (tU :> {f1}) @@ (tT :> {u1})
NtfnOuts == (tU :> {u1}) @@ (tT :> {})
NtfnPayTo == (f1 :> ay) @@ (u1 :> ax)
NtfnKeyHash == (ax :> ay) @@ (ay :> ay)
NtfnCommands == {
  {<<"notifyspent", f1>>, <<"stopnotifyspent", f1>>}, {<<"notifyreceived", ay>>, <<"stopnotifyreceived", ay>>},
  {<<"notifyblocks", None>>, <<"stopnotifyblocks", None>>}, {<<"loadtxfilter", ay>>, <<"reloadtxfilter", f1>>},
  {<<"notifynewtransactions", None>>, <<"stopnotifynewtransactions", None>>},
  {<<"notifyspent", f1>>, <<"notifyreceived", ay>>}}
Ntfn == INSTANCE WsNotify WITH Clients <- {p1, p2}, Off <- None, Txs <- {tU, tT},
    OutPoints <- {f1, u1}, Ins <- NtfnIns, Outs <- NtfnOuts, PayTo <- NtfnPayTo,
    KeyHash <- NtfnKeyHash, Blocks <- {b1}, BlockTxs <- (b1 :> {tU}),
    Plans <- {(p1 :> S) @@ (p2 :> {}) : S \in NtfnCommands}, RPCMaxWebsockets <- 2,
    RPCMaxConcurrentReqs <- 2, MaxMoves <- 2, chain <- v1, mempool <- v2, unannounced <- v3,
    returned <- v4, moves <- v5, queue <- v6, clients <- v7, blockNotifications <- v8,
    txNotifications <- v9, watch <- v10, wants <- v11, conn <- v12, serving <- v13, late <- v14,
    lastBlock <- v15


-----------------------------------------------------------------------------
Client == INSTANCE WsClient WITH Notifiers <- {p1, p2}, RPCMaxConcurrentReqs <- 1,
    websocketSendBufferSize <- 3, MaxNtfns <- 3, MaxRequests <- 2, disconnected <- v1,
    ntfnChan <- v2, sendChan <- v3, ntfnSentChan <- v4, notifier <- v5, requests <- v6,
    sem <- v7, passed <- v8, iState <- v9, nState <- v10, oState <- v11, pendingNtfns <- v12,
    waiting <- v13, nMsg <- v14, queued <- v15, written <- v16


-----------------------------------------------------------------------------
\* A chain of six blocks with a fork after block 2.  Windows and retarget intervals are of two
\* blocks; the first block after the fork may be late on each branch.
RulesVariants == [b \in 1 .. 6 |-> (IF b \in {3, 6} THEN {1, 4} ELSE {1}) \X (IF b = 1 THEN {FALSE} ELSE BOOLEAN)]
RulesNetworks == {
  [start |-> 3, end |-> 9, minHeight |-> 0, threshold |-> 0, reduceMinDifficulty |-> FALSE],
  [start |-> 0, end |-> 4, minHeight |-> 6, threshold |-> 1, reduceMinDifficulty |-> TRUE]}
Rules == INSTANCE ChainRules WITH Nil <- None, Tree <- <<0, 1, 2, 3, 4, 2>>,
    Variants <- RulesVariants, Networks <- RulesNetworks, MinerConfirmationWindow <- 2,
    RuleChangeActivationThreshold <- 2, medianTimeBlocks <- 3, blocksPerRetarget <- 2,
    TargetTimespan <- 2, RetargetAdjustmentFactor <- 2, PowLimit <- 40000000,
    MinDiffReductionTime <- 3, Samples <- {-6, 2, 7}, maxMedianTimeEntries <- 6,
    maxAllowedOffsetSecs <- 7, job <- v1, node <- v2, params <- v3, cache <- v4, clock <- v5

\* The rules for headers answer alike on every branch, whatever was asked before
\* (thresholdstate.go:277, difficulty.go:155, blockindex.go:181, mediantime.go:107).
RulesSound == part = "rules" => Rules!RulesSound

-----------------------------------------------------------------------------
\* tK spends what tU and tT pay; tR and tQ would replace tT and tV, and must not be mined.
TmplIns == (tU :> <<f1>>) @@ (tT :> <<f2>>) @@ (tK :> <<u1, t1>>) @@ (tV :> <<w1>>) @@ (tR :> <<f2>>) @@ (tQ :> <<w1>>)
TmplOrigin == (f1 :> None) @@ (f2 :> None) @@ (w1 :> None) @@ (u1 :> tU) @@ (t1 :> tT) @@ (r1 :> tK)
TmplOf(u, t, k, v, other) == (tU :> u) @@ (tT :> t) @@ (tK :> k) @@ (tV :> v) @@ (tR :> other) @@ (tQ :> other)
TmplPolicy(priority, least, most, free) ==
  [prioritySize |-> priority, minWeight |-> least, maxWeight |-> most, minFree |-> free]
TmplPolicies == {TmplPolicy(0, 0, 20, 0), TmplPolicy(5, 6, 20, 1), TmplPolicy(4, 0, 9, 1), TmplPolicy(0, 0, 11, 0)}
Tmpl == INSTANCE BlkTmpl WITH Nil <- None, Txs <- {tU, tT, tK, tV, tR, tQ}, Ins <- TmplIns,
    Origin <- TmplOrigin, Fee <- TmplOf(1, 2, 3, 0, 4), FeePerKB <- TmplOf(1, 2, 3, 0, 4),
    Priority <- TmplOf(1, 2, 0, 3, 1), Weight <- TmplOf(2, 2, 3, 2, 2),
    SigOps <- TmplOf(1, 1, 1, 1, 1), Witness <- {tV}, NonFinal <- {tQ}, Rejected <- {tR},
    FirstPool <- {tU, tT, tK, tV}, Policies <- TmplPolicies, MinHighPriority <- 1,
    BaseWeight <- 1, CommitmentWeight <- 1, MaxBlockSigOpsCost <- 3, MaxMoves <- 1, utxo <- v1,
    tip <- v2, pool <- v3, moves <- v4, pc <- v5, policy <- v6, segwitActive <- v7, best <- v8,
    source <- v9, cur <- v10, at <- v11, utxos <- v12, item <- v13, queue <- v14,
    dependers <- v15, blockUtxos <- v16, spent <- v17, sortedByFee <- v18,
    witnessIncluded <- v19, block <- v20, fees <- v21, blockWeight <- v22,
    blockSigOpCost <- v23, skipped <- v24, lost <- v25


-----------------------------------------------------------------------------
Miner == INSTANCE CpuMiner WITH Nil <- None, Callers <- {p1, p2}, Workers <- {1, 2, 3},
    Sizes <- {-1, 1}, defaultNumWorkers <- 2, MaxCalls <- 3, MaxBlocks <- 1, lock <- v1,
    started <- v2, discreteMining <- v3, numWorkers <- v4, quit <- v5, monitorQuit <- v6,
    monitor <- v7, controller <- v8, runningWorkers <- v9, miner <- v10, call <- v11,
    calls <- v12, tip <- v13


-----------------------------------------------------------------------------
MCInit ==
  \/ part = "pool" /\ Pool!Init /\ Unused(11)
  \/ part = "index" /\ Index!Init /\ Unused(13)
  \/ part = "peer" /\ Peer!Init /\ Unused(24)
  \/ part = "stall" /\ Stall!Init /\ Unused(9)
  \/ part = "handshake" /\ Handshake!Init /\ Unused(15)
  \/ part = "server" /\ Server!Init /\ Unused(15)
  \/ part = "addr" /\ Addr!Init /\ Unused(11)
  \/ part = "rpc" /\ Rpc!Init /\ Unused(19)
  \/ part = "script" /\ Scripts!ScriptInit /\ Unused(3)
  \/ part = "wire" /\ Net!Init /\ Unused(7)
  \/ part = "gbt" /\ Gbt!Init /\ Unused(17)
  \/ part = "calls" /\ Calls!Init /\ Unused(9)
  \/ part = "ntfn" /\ Ntfn!Init /\ Unused(16)
  \/ part = "wsclient" /\ Client!Init /\ Unused(17)
  \/ part = "rules" /\ Rules!Init /\ Unused(6)
  \/ part = "template" /\ Tmpl!Init /\ Unused(26)
  \/ part = "miner" /\ Miner!Init /\ Unused(14)

MCNext ==
  \/ part = "pool" /\ Pool!Next /\ Keep(11)
  \/ part = "index" /\ Index!Next /\ Keep(13)
  \/ part = "peer" /\ Peer!Next /\ Keep(24)
  \/ part = "stall" /\ Stall!Next /\ Keep(9)
  \/ part = "handshake" /\ Handshake!Next /\ Keep(15)
  \/ part = "server" /\ Server!Next /\ Keep(15)
  \/ part = "addr" /\ Addr!Next /\ Keep(11)
  \/ part = "rpc" /\ Rpc!Next /\ Keep(19)
  \/ part = "script" /\ Scripts!ScriptNext /\ Keep(3)
  \/ part = "wire" /\ Net!Next /\ Keep(7)
  \/ part = "gbt" /\ Gbt!Next /\ Keep(17)
  \/ part = "calls" /\ Calls!Next /\ Keep(9)
  \/ part = "ntfn" /\ Ntfn!Next /\ Keep(16)
  \/ part = "wsclient" /\ Client!Next /\ Keep(17)
  \/ part = "rules" /\ Rules!Next /\ Keep(6)
  \/ part = "template" /\ Tmpl!Next /\ Keep(26)
  \/ part = "miner" /\ Miner!Next /\ Keep(14)

MCSpec == MCInit /\ [][MCNext]_<<part, registers>>
=============================================================================
