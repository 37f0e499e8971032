------------------------------ MODULE CpuMiner ------------------------------
(***************************************************************************)
(* The CPU miner (mining/cpuminer/cpuminer.go): callers that start, stop,  *)
(* resize and query it or generate single blocks, the controller that runs *)
(* the workers, the speed monitor, and the workers themselves.             *)
(*                                                                         *)
(* The callers share one mutex and some of them hold it while they wait    *)
(* for a goroutine.  Channels have no buffer: a send and its receive are   *)
(* one step.  A worker that has no peers, or whose chain is not current,   *)
(* sleeps and looks again, which is a stuttering step here.                *)
(***************************************************************************)
EXTENDS Integers, Sequences, FiniteSets

CONSTANTS Nil,
          Callers,          \* RPC handlers and the server, by name
          Workers,          \* identifiers for generateBlocks goroutines: 1..k
          Sizes,            \* worker counts that setgenerate asks for
          defaultNumWorkers,
          MaxCalls,         \* bound on the calls made
          MaxBlocks         \* bound on the height of the chain

VARIABLES lock,             \* the holder of the mutex, or Nil
          started, discreteMining, numWorkers,
          quit, monitorQuit,            \* the two channels are closed
          monitor, controller,          \* "off", "run"; the controller also "new", "update", "wait"
          runningWorkers,   \* the controller's workers, in order of launch
          miner,            \* [Callers \cup Workers -> what generateBlocks is doing]
          call,             \* [Callers -> the call each is in]
          calls, tip

flags == <<started, discreteMining, numWorkers>>
threads == <<quit, monitorQuit, monitor, controller, runningWorkers>>
vars == <<lock, started, discreteMining, numWorkers, quit, monitorQuit, monitor, controller, runningWorkers,
          miner, call, calls, tip>>

NotMining == [pc |-> "off", prev |-> 0, quit |-> FALSE]
NoCall == [op |-> "none", pc |-> "idle", n |-> 0]

Init ==
  /\ lock = Nil /\ started = FALSE /\ discreteMining = FALSE /\ numWorkers = defaultNumWorkers
  /\ quit = FALSE /\ monitorQuit = FALSE /\ monitor = "off" /\ controller = "off"
  /\ runningWorkers = <<>>
  /\ miner = [x \in Callers \cup Workers |-> NotMining]
  /\ call = [c \in Callers |-> NoCall]
  /\ calls = 0 /\ tip = 0

-----------------------------------------------------------------------------
(* Mining one block: generateBlocks of a worker, GenerateNBlocks of a caller. *)

Enter(x, pc) == miner' = [miner EXCEPT ![x].pc = pc]

\* A new template on the current best block, unless the goroutine was told to
\* stop.
NewBlockTemplate(x) ==
  /\ miner[x].pc = "top" /\ ~miner[x].quit
  /\ miner' = [miner EXCEPT ![x].pc = "solve", ![x].prev = tip]
  /\ UNCHANGED <<lock, flags, threads, call, calls, tip>>

\* The hash that solves the block, and the tick of the ticker: either way the
\* hashes counted are sent to the speed monitor first.
Hash(x) ==
  /\ miner[x].pc = "solve"
  /\ \/ tip < MaxBlocks /\ Enter(x, "found")
     \/ Enter(x, "tick")
  /\ UNCHANGED <<lock, flags, threads, call, calls, tip>>

\* The speed monitor takes the count.  After a tick, stale work is given up,
\* and so is a template older than a minute when the pool has changed.
UpdateHashes(x) ==
  /\ miner[x].pc \in {"found", "tick"} /\ monitor = "run"
  /\ \/ miner[x].pc = "found" /\ Enter(x, "submit")
     \/ miner[x].pc = "tick" /\ (\/ miner[x].prev = tip /\ Enter(x, "solve")
                                 \/ Enter(x, "top"))
  /\ UNCHANGED <<lock, flags, threads, call, calls, tip>>

\* submitBlock: a block that is stale is not handed to the chain.  Then the
\* worker starts over and the generator counts the block.
submitBlock(x) ==
  /\ miner[x].pc = "submit"
  /\ tip' = IF miner[x].prev = tip THEN tip + 1 ELSE tip
  /\ IF x \in Callers
     THEN /\ call' = [call EXCEPT ![x].n = @ - 1, ![x].pc = IF call[x].n = 1 THEN "relock" ELSE "poll"]
          /\ Enter(x, "off")
     ELSE Enter(x, "top") /\ UNCHANGED call
  /\ UNCHANGED <<lock, flags, threads, calls>>

\* solveBlock and generateBlocks notice that their quit channel is closed.
WorkerQuits(w) ==
  /\ miner[w].pc \in {"top", "solve"} /\ miner[w].quit
  /\ miner' = [miner EXCEPT ![w] = NotMining]
  /\ UNCHANGED <<lock, flags, threads, call, calls, tip>>

\* Another node's block becomes the tip.
ChainMoves ==
  /\ tip < MaxBlocks /\ tip' = tip + 1
  /\ UNCHANGED <<lock, flags, threads, miner, call, calls>>

-----------------------------------------------------------------------------
(* The controller and the speed monitor.                                    *)

Idle == {w \in Workers : miner[w].pc = "off"}

\* launchWorkers(k): k new goroutines, with the lowest free identifiers.
Launched(k) == CHOOSE S \in SUBSET Idle : Cardinality(S) = k /\ \A w \in S, v \in Idle \ S : w < v
SeqOf(S) == CHOOSE s \in [1..Cardinality(S) -> S] : \A i, j \in DOMAIN s : i < j => s[i] < s[j]

launchWorkers(k) ==
  /\ k <= Cardinality(Idle)
  /\ LET S == Launched(k) IN
     /\ runningWorkers' = runningWorkers \o SeqOf(S)
     /\ miner' = [x \in DOMAIN miner |-> IF x \in S THEN [NotMining EXCEPT !.pc = "top"] ELSE miner[x]]

\* The controller starts, some time after the Start that made it returned.
ControllerStarts ==
  /\ controller = "new" /\ controller' = "run"
  /\ launchWorkers(numWorkers)
  /\ UNCHANGED <<lock, flags, quit, monitorQuit, monitor, call, calls, tip>>

\* The controller receives from updateNumWorkers what caller c sends.
ReceiveUpdate(c) ==
  /\ controller = "run" /\ call[c].pc = "send"
  /\ controller' = "update" /\ call' = [call EXCEPT ![c].pc = "sent"]
  /\ UNCHANGED <<lock, flags, quit, monitorQuit, monitor, runningWorkers, miner, calls, tip>>

\* It reads the number, which the next caller may have changed by then, and
\* starts or stops workers; the last to start are the first to stop.
UpdateNumWorkers ==
  /\ controller = "update" /\ controller' = "run"
  /\ LET n == Len(runningWorkers) IN
     IF numWorkers >= n THEN launchWorkers(numWorkers - n)
     ELSE /\ runningWorkers' = SubSeq(runningWorkers, 1, numWorkers)
          /\ miner' = [x \in DOMAIN miner |->
                         IF \E i \in (numWorkers + 1)..n : runningWorkers[i] = x
                         THEN [miner[x] EXCEPT !.quit = TRUE] ELSE miner[x]]
  /\ UNCHANGED <<lock, flags, quit, monitorQuit, monitor, call, calls, tip>>

ControllerQuits ==
  /\ controller = "run" /\ quit /\ controller' = "wait"
  /\ miner' = [x \in DOMAIN miner |-> IF \E i \in DOMAIN runningWorkers : runningWorkers[i] = x
                                      THEN [miner[x] EXCEPT !.quit = TRUE] ELSE miner[x]]
  /\ UNCHANGED <<lock, flags, quit, monitorQuit, monitor, runningWorkers, call, calls, tip>>

ControllerEnds ==
  /\ controller = "wait" /\ \A w \in Workers : miner[w].pc = "off"
  /\ controller' = "off" /\ runningWorkers' = <<>> /\ monitorQuit' = TRUE
  /\ UNCHANGED <<lock, flags, quit, monitor, miner, call, calls, tip>>

speedMonitorQuits ==
  /\ monitor = "run" /\ monitorQuit /\ monitor' = "off"
  /\ UNCHANGED <<lock, flags, quit, monitorQuit, controller, runningWorkers, miner, call, calls, tip>>

-----------------------------------------------------------------------------
(* The callers.                                                             *)

Begin(c, op, n) ==
  /\ calls < MaxCalls /\ call[c].pc = "idle" /\ calls' = calls + 1
  /\ call' = [call EXCEPT ![c] = [op |-> op, pc |-> "lock", n |-> n]]
  /\ UNCHANGED <<lock, flags, threads, miner, tip>>

\* setgenerate with a limit resizes and starts the miner, without it stops it.
handleSetGenerate(c) == \/ \E n \in Sizes : Begin(c, "setNumWorkers", n)
                        \/ Begin(c, "stop", 0)
handleGenerate(c) == \E n \in 1..2 : Begin(c, "generate", n)
handleGetHashesPerSec(c) == Begin(c, "hashes", 0)

Done(c) == call' = [call EXCEPT ![c] = NoCall]
At(c, pc) == call' = [call EXCEPT ![c].pc = pc]
Locks(c, op) == lock = Nil /\ call[c].pc = "lock" /\ call[c].op = op

Start(c) ==
  /\ Locks(c, "start") /\ Done(c)
  /\ IF started \/ discreteMining THEN UNCHANGED <<started, threads>>
     ELSE /\ started' = TRUE /\ quit' = FALSE /\ monitorQuit' = FALSE
          /\ monitor' = "run" /\ controller' = "new" /\ UNCHANGED runningWorkers
  /\ UNCHANGED <<lock, discreteMining, numWorkers, miner, calls, tip>>

Stop(c) ==
  /\ Locks(c, "stop")
  /\ IF ~started \/ discreteMining
     THEN Done(c) /\ UNCHANGED <<lock, quit>>
     ELSE lock' = c /\ quit' = TRUE /\ At(c, "wait")
  /\ UNCHANGED <<flags, monitorQuit, monitor, controller, runningWorkers, miner, calls, tip>>

\* wg.Wait of Stop and of GenerateNBlocks.
WaitEnds(c) ==
  /\ call[c].pc = "wait" /\ monitor = "off" /\ controller = "off"
  /\ started' = FALSE /\ discreteMining' = FALSE /\ lock' = Nil /\ Done(c)
  /\ UNCHANGED <<numWorkers, threads, miner, calls, tip>>

\* The new size is set and, when mining, sent to the controller under the lock.
SetNumWorkers(c) ==
  /\ Locks(c, "setNumWorkers")
  /\ numWorkers' = IF call[c].n < 0 THEN defaultNumWorkers ELSE call[c].n
  /\ IF started THEN lock' = c /\ At(c, "send")
     ELSE call' = [call EXCEPT ![c].op = "start"] /\ UNCHANGED lock
  /\ UNCHANGED <<started, discreteMining, threads, miner, calls, tip>>

SetNumWorkersReturns(c) ==
  /\ call[c].pc = "sent" /\ lock' = Nil
  /\ call' = [call EXCEPT ![c].op = "start", ![c].pc = "lock"]
  /\ UNCHANGED <<flags, threads, miner, calls, tip>>

\* The speed monitor answers the query that is made under the lock.
HashesPerSecond(c) ==
  /\ Locks(c, "hashes")
  /\ IF started THEN lock' = c /\ At(c, "query") ELSE Done(c) /\ UNCHANGED lock
  /\ UNCHANGED <<flags, threads, miner, calls, tip>>

QueryHashesPerSec(c) ==
  /\ call[c].pc = "query" /\ monitor = "run"
  /\ lock' = Nil /\ Done(c)
  /\ UNCHANGED <<flags, threads, miner, calls, tip>>

GenerateNBlocks(c) ==
  /\ Locks(c, "generate")
  /\ IF started \/ discreteMining
     THEN Done(c) /\ UNCHANGED <<started, discreteMining, monitor, monitorQuit>>
     ELSE /\ started' = TRUE /\ discreteMining' = TRUE /\ monitor' = "run" /\ monitorQuit' = FALSE
          /\ At(c, "poll")
  /\ UNCHANGED <<lock, numWorkers, quit, controller, runningWorkers, miner, calls, tip>>

\* Each round the generator takes an update somebody is waiting to send.
GeneratorPolls(c) ==
  /\ call[c].pc = "poll"
  /\ \/ \E d \in Callers : /\ call[d].pc = "send"
                           /\ call' = [call EXCEPT ![c].pc = "mine", ![d].pc = "sent"]
     \/ (\A d \in Callers : call[d].pc # "send") /\ At(c, "mine")
  /\ Enter(c, "top")
  /\ UNCHANGED <<lock, flags, threads, calls, tip>>

\* Work that was given up brings the generator back to the poll.
GeneratorRetries(c) ==
  /\ call[c].pc = "mine" /\ miner[c].pc = "top"
  /\ At(c, "poll") /\ Enter(c, "off")
  /\ UNCHANGED <<lock, flags, threads, calls, tip>>

\* The last block is made.
GeneratorStops(c) ==
  /\ call[c].pc = "relock" /\ lock = Nil
  /\ lock' = c /\ monitorQuit' = TRUE /\ At(c, "wait")
  /\ UNCHANGED <<flags, quit, monitor, controller, runningWorkers, miner, calls, tip>>

Next ==
  \/ ControllerStarts \/ UpdateNumWorkers \/ ControllerQuits \/ ControllerEnds \/ speedMonitorQuits \/ ChainMoves
  \/ \E x \in Callers \cup Workers : NewBlockTemplate(x) \/ Hash(x) \/ UpdateHashes(x) \/ submitBlock(x)
  \/ \E w \in Workers : WorkerQuits(w)
  \/ \E c \in Callers :
       \/ handleSetGenerate(c) \/ handleGenerate(c) \/ handleGetHashesPerSec(c)
       \/ Start(c) \/ Stop(c) \/ WaitEnds(c) \/ SetNumWorkers(c) \/ SetNumWorkersReturns(c)
       \/ HashesPerSecond(c) \/ QueryHashesPerSec(c) \/ ReceiveUpdate(c)
       \/ GenerateNBlocks(c) \/ GeneratorPolls(c) \/ GeneratorRetries(c) \/ GeneratorStops(c)

Spec == Init /\ [][Next]_vars

-----------------------------------------------------------------------------
\* Once the miner says it has stopped nothing of it runs any more: no worker, no
\* controller, no speed monitor, and nobody mines single blocks.
StopStops ==
  ~started => /\ monitor = "off" /\ controller = "off" /\ ~discreteMining
              /\ \A x \in Callers \cup Workers : miner[x].pc = "off"

\* While the mutex is free a controller that waits for an update runs as many
\* workers as were asked for last, although it reads the number without the
\* mutex and a caller may change it between the update and the reading.
WorkersAgree ==
  /\ lock = Nil /\ controller = "run" => Len(runningWorkers) = numWorkers
  /\ discreteMining => controller = "off"

\* Whoever reports hashes finds the speed monitor there to take them, so no
\* worker hangs and Stop gets its answer from all of them.
ReportsTaken == \A x \in Callers \cup Workers : miner[x].pc \in {"found", "tick"} => monitor = "run"

\* The generator has made its last block and waits for the mutex.
GeneratorEnding == \E c \in Callers : call[c].pc = "relock"

\* A caller that waits with the mutex held waits for a goroutine that will
\* answer.  The exception is real: a setgenerate that comes while the last
\* block of a generate is mined sends to a generator that no longer receives.
HolderServed ==
  \A c \in Callers : lock = c =>
    CASE call[c].pc = "send" -> controller \in {"new", "run", "update"} \/ (\E d \in Callers : call[d].pc \in {"poll", "mine"})
                                \/ GeneratorEnding
      [] call[c].pc = "query" -> monitor = "run" /\ ~monitorQuit
      [] call[c].pc = "wait" -> quit \/ monitorQuit
      [] OTHER -> call[c].pc = "sent"

=============================================================================
