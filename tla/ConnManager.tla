---------------------------- MODULE ConnManager ----------------------------
(***************************************************************************)
(* The connection manager of package connmgr: requests for outbound          *)
(* connections, their dials, retries and cancellation.  One goroutine,        *)
(* connHandler, owns the two maps; every request is served by a goroutine of  *)
(* its own (NewConnReq or Connect), and time.AfterFunc starts them again.     *)
(* The requests channel is unbuffered, so that sending a message and          *)
(* handling it are one step.                                                  *)
(***************************************************************************)
EXTENDS Integers, FiniteSets

CONSTANTS
  TargetOutbound,     \* Config.TargetOutbound
  MaxFailedAttempts,  \* maxFailedAttempts
  Permanents,         \* number of permanent requests that are submitted
  OneShots,           \* number of other requests that are submitted
  DisconnectAny,      \* whether Disconnect is used for requests that are not permanent
  MayStop,            \* whether Stop is called
  MayCancel,          \* whether pending requests are withdrawn
  MaxFailures,        \* bound on the failures of requests that are not permanent
  MaxEnds             \* bound on the calls of Disconnect and Remove

ASSUME BoundsAssumption ==
  /\ TargetOutbound \in Nat \ {0} /\ MaxFailedAttempts \in Nat \ {0}
  /\ Permanents \in Nat /\ OneShots \in Nat /\ DisconnectAny \in BOOLEAN
  /\ MayStop \in BOOLEAN /\ MayCancel \in BOOLEAN
  /\ MaxFailures \in Nat /\ MaxEnds \in Nat

\* Ids are assigned in order, and there are as many as the bounds can use up.
MaxReqs == TargetOutbound + Permanents + OneShots + MaxFailures + MaxEnds
Ids == 1 .. MaxReqs

VARIABLES
  count,     \* connReqCount
  kind,      \* what an id was assigned to: "auto", "permanent" or "oneshot"
  state,     \* ConnReq.state
  pending,   \* the ids in pending
  conns,     \* the ids in conns
  task,      \* where the goroutine or the timer that serves a request is
  open,      \* the requests with an open connection
  spawned,   \* goroutines that are about to run NewConnReq
  delayed,   \* timers that will run NewConnReq
  calls,     \* requests that callers of Connect still have to submit, by kind
  failedAttempts,
  failures, ends,
  started, stop, quit,
  handler,   \* where connHandler is
  listener   \* where listenHandler is

maps == <<state, pending, conns>>
pool == <<spawned, delayed, failedAttempts>>
life == <<started, stop, quit, handler, listener>>
vars == <<count, kind, maps, task, open, pool, calls, failures, ends, life>>

Init ==
  /\ count = 0 /\ kind = [c \in Ids |-> "none"]
  /\ state = [c \in Ids |-> "pending"] /\ pending = {} /\ conns = {} /\ open = {}
  /\ task = [c \in Ids |-> "none"] /\ spawned = 0 /\ delayed = 0
  /\ calls = [k \in {"permanent", "oneshot"} |-> IF k = "permanent" THEN Permanents ELSE OneShots]
  /\ failedAttempts = 0 /\ failures = 0 /\ ends = 0
  /\ started = FALSE /\ stop = FALSE /\ quit = FALSE
  /\ handler = "none" /\ listener = "none"

----------------------------------------------------------------------------
(* Start and Stop. *)

Max(m, n) == IF m < n THEN n ELSE m

Start ==
  /\ ~started /\ started' = TRUE
  /\ handler' = "running" /\ listener' = "accepting"
  /\ spawned' = spawned + Max(0, TargetOutbound - count)
  /\ UNCHANGED <<count, kind, maps, task, open, delayed, failedAttempts, calls, failures, ends, stop, quit>>

\* Stop sets the flag, closes the listeners, ...
Stop ==
  /\ MayStop /\ ~stop /\ stop' = TRUE
  /\ UNCHANGED <<count, kind, maps, task, open, pool, calls, failures, ends, started, quit, handler, listener>>

\* ... and then the quit channel.
CloseQuit ==
  /\ stop /\ ~quit /\ quit' = TRUE
  /\ UNCHANGED <<count, kind, maps, task, open, pool, calls, failures, ends, started, stop, handler, listener>>

HandlerQuits ==
  /\ quit /\ handler = "running" /\ handler' = "done"
  /\ UNCHANGED <<count, kind, maps, task, open, pool, calls, failures, ends, started, stop, quit, listener>>

\* Accept fails on the closed listener and the loop ends.
ListenerQuits ==
  /\ stop /\ listener = "accepting" /\ listener' = "done"
  /\ UNCHANGED <<count, kind, maps, task, open, pool, calls, failures, ends, started, stop, quit, handler>>

----------------------------------------------------------------------------
(* The goroutines. *)

Assign(k, where) ==
  /\ count' = count + 1
  /\ kind' = [kind EXCEPT ![count'] = k]
  /\ task' = [task EXCEPT ![count'] = where]

\* NewConnReq up to its first send.
NewConnReq ==
  /\ spawned > 0 /\ spawned' = spawned - 1
  /\ \/ stop /\ UNCHANGED <<count, kind, task>>
     \/ ~stop /\ Assign("auto", "register")
  /\ UNCHANGED <<maps, open, delayed, failedAttempts, calls, failures, ends, life>>

\* The timer of handleFailedConn fires.
NewConnReqTimer ==
  /\ delayed > 0 /\ delayed' = delayed - 1 /\ spawned' = spawned + 1
  /\ UNCHANGED <<count, kind, maps, task, open, failedAttempts, calls, failures, ends, life>>

\* A caller submits a request that has no id yet.
ConnectNew(k) ==
  /\ calls[k] > 0 /\ calls' = [calls EXCEPT ![k] = @ - 1]
  /\ \/ stop /\ UNCHANGED <<count, kind, task>>
     \/ ~stop /\ Assign(k, "register")
  /\ UNCHANGED <<maps, open, pool, failures, ends, life>>

\* GetNewAddress fails, or NewConnReq goes on to Connect.
GetNewAddress(c) ==
  /\ task[c] = "address"
  /\ \/ task' = [task EXCEPT ![c] = "connect"] /\ UNCHANGED failures
     \/ /\ failures < MaxFailures /\ failures' = failures + 1
        /\ task' = [task EXCEPT ![c] = "failed"]
  /\ UNCHANGED <<count, kind, maps, open, pool, calls, ends, life>>

\* Connect on a request that has an id, also when its retry timer fires.
Connect(c) ==
  /\ task[c] \in {"connect", "timer"}
  /\ task' = [task EXCEPT ![c] = IF stop \/ state[c] = "canceled" THEN "none" ELSE "dial"]
  /\ UNCHANGED <<count, kind, maps, open, pool, calls, failures, ends, life>>

Dial(c) ==
  /\ task[c] = "dial"
  /\ \/ task' = [task EXCEPT ![c] = "connected"] /\ open' = open \cup {c} /\ UNCHANGED failures
     \/ /\ task' = [task EXCEPT ![c] = "failed"] /\ UNCHANGED open
        /\ \/ kind[c] = "permanent" /\ UNCHANGED failures
           \/ kind[c] # "permanent" /\ failures < MaxFailures /\ failures' = failures + 1
  /\ UNCHANGED <<count, kind, maps, pool, calls, ends, life>>

\* Faulty variant of GiveUp: only the registration watches the quit channel.
GiveUpRegistration(c) ==
  /\ quit /\ task[c] = "register"
  /\ task' = [task EXCEPT ![c] = "none"]
  /\ UNCHANGED <<count, kind, maps, open, pool, calls, failures, ends, life>>

\* A goroutine that waits for connHandler sees the quit channel instead.
GiveUp(c) ==
  /\ quit /\ task[c] \in {"register", "connected", "failed"}
  /\ task' = [task EXCEPT ![c] = "none"]
  /\ UNCHANGED <<count, kind, maps, open, pool, calls, failures, ends, life>>

----------------------------------------------------------------------------
(* connHandler. *)

\* Faulty variant of HandleFailedConn: after too many failures nothing is done.
HandleFailedConnGivesUp(c, here) ==
  IF stop THEN task' = here /\ UNCHANGED pool
  ELSE IF kind[c] = "permanent"
       THEN task' = [here EXCEPT ![c] = "timer"] /\ UNCHANGED pool
       ELSE /\ task' = here /\ UNCHANGED delayed
            /\ failedAttempts' = IF failedAttempts < MaxFailedAttempts THEN failedAttempts + 1
                                 ELSE failedAttempts
            /\ spawned' = IF failedAttempts' >= MaxFailedAttempts THEN spawned ELSE spawned + 1

\* Faulty variant of HandleFailedConn: a permanent request is replaced as well.
HandleFailedConnBoth(c, here) ==
  /\ task' = [here EXCEPT ![c] = IF kind[c] = "permanent" THEN "timer" ELSE "none"]
  /\ spawned' = spawned + 1 /\ UNCHANGED <<delayed, failedAttempts>>

\* handleFailedConn: a permanent request is retried later; any other one is
\* replaced, at once or, after too many failures in a row, later.
HandleFailedConn(c, here) ==
  IF stop THEN task' = here /\ UNCHANGED pool
  ELSE IF kind[c] = "permanent"
       THEN task' = [here EXCEPT ![c] = "timer"] /\ UNCHANGED pool
       ELSE /\ task' = here
            /\ failedAttempts' = IF failedAttempts < MaxFailedAttempts THEN failedAttempts + 1
                                 ELSE failedAttempts
            /\ IF failedAttempts' >= MaxFailedAttempts
               THEN delayed' = delayed + 1 /\ UNCHANGED spawned
               ELSE spawned' = spawned + 1 /\ UNCHANGED delayed

\* registerPending; the goroutine that waits for it goes on.  If quit is closed
\* at the same time it may return at once instead of at its next send.
RegisterPending(c) ==
  /\ handler = "running" /\ task[c] = "register"
  /\ state' = [state EXCEPT ![c] = "pending"] /\ pending' = pending \cup {c}
  /\ task' = [task EXCEPT ![c] = IF kind[c] = "auto" THEN "address" ELSE "dial"]
  /\ UNCHANGED <<count, kind, conns, open, pool, calls, failures, ends, life>>

\* Faulty variant of HandleConnected: a connection that came too late stays open.
HandleConnectedLate(c) ==
  /\ handler = "running" /\ task[c] = "connected"
  /\ task' = [task EXCEPT ![c] = "none"]
  /\ IF c \notin pending
     THEN UNCHANGED <<maps, open, failedAttempts>>
     ELSE /\ state' = [state EXCEPT ![c] = "established"]
          /\ conns' = conns \cup {c} /\ pending' = pending \ {c}
          /\ failedAttempts' = 0 /\ UNCHANGED open
  /\ UNCHANGED <<count, kind, spawned, delayed, calls, failures, ends, life>>

\* Faulty variant of HandleConnected: the request may have been withdrawn.
HandleConnectedUnchecked(c) ==
  /\ handler = "running" /\ task[c] = "connected"
  /\ task' = [task EXCEPT ![c] = "none"]
  /\ state' = [state EXCEPT ![c] = "established"]
  /\ conns' = conns \cup {c} /\ pending' = pending \ {c}
  /\ failedAttempts' = 0
  /\ UNCHANGED <<count, kind, open, spawned, delayed, calls, failures, ends, life>>

\* Faulty variant of HandleConnected: the request is left in pending.
HandleConnectedStillPending(c) ==
  /\ handler = "running" /\ task[c] = "connected"
  /\ task' = [task EXCEPT ![c] = "none"]
  /\ IF c \notin pending
     THEN open' = open \ {c} /\ UNCHANGED <<maps, failedAttempts>>
     ELSE /\ state' = [state EXCEPT ![c] = "established"]
          /\ conns' = conns \cup {c} /\ failedAttempts' = 0 /\ UNCHANGED <<pending, open>>
  /\ UNCHANGED <<count, kind, spawned, delayed, calls, failures, ends, life>>

\* handleConnected; the connection of a canceled request is closed.
HandleConnected(c) ==
  /\ handler = "running" /\ task[c] = "connected"
  /\ task' = [task EXCEPT ![c] = "none"]
  /\ IF c \notin pending
     THEN open' = open \ {c} /\ UNCHANGED <<maps, failedAttempts>>
     ELSE /\ state' = [state EXCEPT ![c] = "established"]
          /\ conns' = conns \cup {c} /\ pending' = pending \ {c}
          /\ failedAttempts' = 0 /\ UNCHANGED open
  /\ UNCHANGED <<count, kind, spawned, delayed, calls, failures, ends, life>>

\* handleFailed; the request stays in pending.
HandleFailed(c) ==
  /\ handler = "running" /\ task[c] = "failed"
  /\ LET here == [task EXCEPT ![c] = "none"]
     IN IF c \notin pending
        THEN task' = here /\ UNCHANGED <<state, pool>>
        ELSE /\ state' = [state EXCEPT ![c] = "failing"]
             /\ HandleFailedConn(c, here)
  /\ UNCHANGED <<count, kind, pending, conns, open, calls, failures, ends, life>>

----------------------------------------------------------------------------
(* The callers.  Disconnect and Remove send handleDisconnected; a call that   *)
(* began before Stop may still be handled after it.                           *)

MayEnd == handler = "running" /\ ends < MaxEnds /\ ends' = ends + 1

CloseConn(c) == c \in conns /\ conns' = conns \ {c} /\ open' = open \ {c}

\* The connection ended and its request is retried: if it is permanent, or if
\* there are too few connections.
Disconnect(c) ==
  /\ MayEnd /\ CloseConn(c) /\ (kind[c] = "permanent" \/ DisconnectAny)
  /\ \/ /\ Cardinality(conns') < TargetOutbound \/ kind[c] = "permanent"
        /\ state' = [state EXCEPT ![c] = "pending"] /\ pending' = pending \cup {c}
        /\ HandleFailedConn(c, task)
     \/ /\ Cardinality(conns') >= TargetOutbound /\ kind[c] # "permanent"
        /\ UNCHANGED <<state, pending, task, pool>>
  /\ UNCHANGED <<count, kind, calls, failures, life>>

\* The server replaces a connection that ended: Remove and NewConnReq.
Replace(c) ==
  /\ MayEnd /\ CloseConn(c) /\ kind[c] # "permanent"
  /\ state' = [state EXCEPT ![c] = "disconnected"] /\ spawned' = spawned + 1
  /\ UNCHANGED <<count, kind, pending, task, delayed, failedAttempts, calls, failures, life>>

\* Either call withdraws a request that is pending, whatever its goroutine does.
Cancel(c) ==
  /\ MayCancel /\ MayEnd /\ c \in pending
  /\ state' = [state EXCEPT ![c] = "canceled"] /\ pending' = pending \ {c}
  /\ UNCHANGED <<count, kind, conns, open, task, pool, calls, failures, life>>

----------------------------------------------------------------------------

Goroutine(c) ==
  GetNewAddress(c) \/ Connect(c) \/ Dial(c) \/ GiveUp(c)
Handler(c) == RegisterPending(c) \/ HandleConnected(c) \/ HandleFailed(c)

Next ==
  \/ Start \/ Stop \/ CloseQuit \/ HandlerQuits \/ ListenerQuits
  \/ NewConnReq \/ NewConnReqTimer \/ ConnectNew("permanent") \/ ConnectNew("oneshot")
  \/ \E c \in Ids : Goroutine(c) \/ Handler(c) \/ Disconnect(c) \/ Replace(c) \/ Cancel(c)

\* The Go scheduler runs every goroutine, timers fire, dials return, and select
\* does not ignore a channel forever.
Fairness ==
  /\ WF_vars(Start) /\ WF_vars(CloseQuit) /\ WF_vars(HandlerQuits) /\ WF_vars(ListenerQuits)
  /\ WF_vars(NewConnReq) /\ WF_vars(NewConnReqTimer)
  /\ WF_vars(ConnectNew("permanent")) /\ WF_vars(ConnectNew("oneshot"))
  /\ \A c \in Ids : WF_vars(Goroutine(c)) /\ WF_vars(Handler(c))

Spec == Init /\ [][Next]_vars /\ Fairness

----------------------------------------------------------------------------
(* What the package promises. *)

\* While the manager runs, an open connection belongs to a request in conns or
\* is on its way to connHandler: handleConnected closes the one that arrives
\* after its request was withdrawn.
NoLeak ==
  ~quit => \A c \in open : c \in conns \/ task[c] = "connected"

\* A request that was withdrawn while it was pending never gets a connection,
\* whatever its dial or its retry timer was doing at the time.
CanceledStays ==
  [][\A c \in Ids : state[c] = "canceled" => state'[c] = "canceled" /\ c \notin conns']_vars

\* Requests that the manager makes up itself, and their replacements, are never
\* more than TargetOutbound: a failure, a retry and an end of a connection each
\* lead to at most one new request.
Slots == {c \in Ids : kind[c] = "auto" /\ (c \in conns \/ task[c] # "none")}
OutboundBounded == spawned + delayed + Cardinality(Slots) <= TargetOutbound

\* What makes it so: a request is either connected or served by a goroutine or
\* a timer, an id is used once, and a withdrawn request is in neither map.
ReqInv(c) ==
  /\ c > count => /\ kind[c] = "none" /\ task[c] = "none" /\ state[c] = "pending"
                  /\ c \notin pending /\ c \notin conns /\ c \notin open
  /\ c \in conns => task[c] = "none" /\ c \notin pending
  /\ c \in conns \/ c \in pending \/ task[c] # "none" => kind[c] # "none"
  /\ c \in conns \/ c \in pending \/ task[c] = "register" => state[c] # "canceled"
  /\ task[c] = "register" => c \notin pending
  /\ kind[c] = "auto" => task[c] # "timer" /\ started
  /\ OneShots = 0 => kind[c] # "oneshot"
PoolInv ==
  /\ \A c \in Ids : ReqInv(c)
  /\ OneShots = 0 => calls["oneshot"] = 0
  /\ ~started => spawned = 0 /\ delayed = 0 /\ handler = "none"
  /\ NoLeak

\* Once connections stop failing, there are TargetOutbound of them and stay so,
\* unless the manager is stopped:
\* "The connection handler makes sure that we maintain a pool of active outbound
\* connections so that we remain connected to the network."
PoolRestored == <>stop \/ <>[](Cardinality(conns) >= TargetOutbound)

\* After Stop every goroutine ends, and Wait returns.
Halted ==
  /\ handler = "done" /\ listener = "done" /\ spawned = 0 /\ delayed = 0
  /\ \A c \in Ids : task[c] = "none"
StopHalts == stop ~> Halted
=============================================================================
