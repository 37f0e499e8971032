------------------------- MODULE ConnManagerProofs -------------------------
(***************************************************************************)
(* Proofs about the connection manager for every number of requests,         *)
(* failures and connections, and every target.                               *)
(***************************************************************************)
EXTENDS ConnManager, FiniteSetTheorems, TLAPS

Kinds == {"none", "auto", "permanent", "oneshot"}
ConnStates == {"pending", "failing", "canceled", "established", "disconnected"}
Places == {"none", "register", "address", "connect", "dial", "connected", "failed", "timer"}

\* The variables' types, without the bound on the ids, which is about the
\* instances that are model checked.
Types ==
  /\ count \in Nat
  /\ kind \in [Ids -> Kinds]
  /\ state \in [Ids -> ConnStates]
  /\ pending \subseteq Ids /\ conns \subseteq Ids /\ open \subseteq Ids
  /\ task \in [Ids -> Places]
  /\ spawned \in Nat /\ delayed \in Nat
  /\ calls \in [{"permanent", "oneshot"} -> Nat]

\* The requests that callers still have to submit.
CallsInv == OneShots = 0 => calls["oneshot"] = 0
StartInv == ~started => spawned = 0 /\ delayed = 0 /\ handler = "none"

IInv == Types /\ PoolInv

\* Only the request c changes, and no id is assigned.
OnlyTouches(c) ==
  /\ UNCHANGED <<count, kind, calls>>
  /\ \A d \in Ids \ {c} :
       /\ task'[d] = task[d] /\ state'[d] = state[d]
       /\ (d \in pending') <=> (d \in pending)
       /\ (d \in conns') <=> (d \in conns)
       /\ (d \in open') <=> (d \in open)

\* Ids are natural numbers.
LEMMA IdsNat == Ids \subseteq Nat
  BY BoundsAssumption DEF Ids, MaxReqs

\* The initial state has the types and the invariant.
LEMMA InitInv == Init => IInv
<1> SUFFICES ASSUME Init PROVE IInv
  OBVIOUS
<1>1. Types
  BY BoundsAssumption DEF Init, Types, Kinds, ConnStates, Places
<1>2. \A c \in Ids : ReqInv(c)
  BY DEF Init, ReqInv
<1>3. OneShots = 0 => calls["oneshot"] = 0
  BY DEF Init
<1> QED
  BY <1>1, <1>2, <1>3 DEF Init, IInv, PoolInv, NoLeak

\* A step that touches one request keeps the invariant when it keeps that
\* request's part of it.
LEMMA TouchKeeps ==
  ASSUME IInv, NEW c \in Ids, OnlyTouches(c), Types', ReqInv(c)',
         UNCHANGED started, quit' = quit, StartInv',
         (~quit /\ c \in open') => (c \in conns' \/ task'[c] = "connected")
  PROVE  IInv'
<1>1. ASSUME NEW d \in Ids PROVE ReqInv(d)'
  BY DEF IInv, PoolInv, ReqInv, OnlyTouches
<1>2. NoLeak'
  BY DEF IInv, PoolInv, Types, NoLeak, OnlyTouches
<1> QED
  BY <1>1, <1>2 DEF IInv, PoolInv, OnlyTouches, StartInv

\* One more id is assigned.
LEMMA AssignKeeps ==
  ASSUME IInv, NEW k \in {"auto", "permanent", "oneshot"}, Assign(k, "register"),
         k = "auto" => started, k = "oneshot" => OneShots # 0,
         UNCHANGED <<state, pending, conns, open, started, quit>>
  PROVE  /\ count' \in Nat /\ kind' \in [Ids -> Kinds] /\ task' \in [Ids -> Places]
         /\ \A c \in Ids : ReqInv(c)'
         /\ NoLeak'
<1>1. /\ count' \in Nat /\ kind' \in [Ids -> Kinds] /\ task' \in [Ids -> Places]
      /\ count' = count + 1
  <2>1. count' = count + 1 /\ count' \in Nat
    BY DEF IInv, Types, Assign
  <2>2. kind' \in [Ids -> Kinds]
    <3>1. kind \in [Ids -> Kinds] /\ k \in Kinds /\ kind' = [kind EXCEPT ![count'] = k]
      BY DEF IInv, Types, Assign, Kinds
    <3> QED
      BY ZenonT(40), <3>1
  <2>3. task' \in [Ids -> Places]
    <3>1. task \in [Ids -> Places] /\ "register" \in Places /\ task' = [task EXCEPT ![count'] = "register"]
      BY DEF IInv, Types, Assign, Places
    <3> QED
      BY ZenonT(40), <3>1
  <2> QED
    BY <2>1, <2>2, <2>3
<1>2. ASSUME NEW c \in Ids PROVE ReqInv(c)'
  <2>1. CASE c = count + 1
    <3>1. kind'[c] = k /\ task'[c] = "register"
      BY <2>1 DEF IInv, Types, Assign
    <3>2. c > count /\ ~(c > count')
      BY <2>1, <1>1, IdsNat DEF IInv, Types
    <3> QED
      BY <3>1, <3>2 DEF IInv, PoolInv, ReqInv
  <2>2. CASE c # count + 1
    <3>1. kind'[c] = kind[c] /\ task'[c] = task[c]
      BY <2>2 DEF IInv, Types, Assign
    <3>2. c > count' => c > count
      BY <1>1, IdsNat DEF IInv, Types
    <3> QED
      BY <3>1, <3>2 DEF IInv, PoolInv, ReqInv
  <2> QED
    BY <2>1, <2>2
<1>3. NoLeak'
  <2> SUFFICES ASSUME ~quit, NEW c \in open PROVE c \in conns \/ task'[c] = "connected"
    BY DEF NoLeak
  <2>1. c \in Ids /\ ~(c > count) /\ (c \in conns \/ task[c] = "connected")
    BY IdsNat DEF IInv, Types, PoolInv, ReqInv, NoLeak
  <2>2. c # count + 1
    BY <2>1, IdsNat DEF IInv, Types
  <2> QED
    BY <2>1, <2>2 DEF IInv, Types, Assign
<1> QED
  BY <1>1, <1>2, <1>3

\* The steps of a request's goroutine.
LEMMA GoroutineKeeps == ASSUME IInv, NEW c \in Ids, Goroutine(c) PROVE IInv'
<1>1. PICK p \in Places : task' = [task EXCEPT ![c] = p]
                         /\ (p = "connected" => task[c] = "dial")
                         /\ p \notin {"register", "timer"}
                         /\ task[c] # "none"
                         /\ (task[c] = "connected" => quit)
  BY DEF Goroutine, GetNewAddress, Connect, Dial, GiveUp, Places
<1>2. /\ task' \in [Ids -> Places] /\ task'[c] = p
      /\ \A d \in Ids \ {c} : task'[d] = task[d]
  BY <1>1 DEF IInv, Types
<1>3. /\ UNCHANGED <<count, kind, maps, pool, calls, life>>
      /\ (open' = open \/ (open' = open \cup {c} /\ p = "connected"))
  <2>1. CASE Dial(c)
    BY <2>1, <1>2 DEF Dial, IInv, Types
  <2>2. CASE GetNewAddress(c) \/ Connect(c) \/ GiveUp(c)
    BY <2>2 DEF GetNewAddress, Connect, GiveUp
  <2> QED
    BY <2>1, <2>2 DEF Goroutine
<1>4. OnlyTouches(c)
  BY <1>2, <1>3 DEF OnlyTouches, maps
<1>5. Types'
  BY <1>2, <1>3 DEF IInv, Types, maps, pool
<1>6. ReqInv(c)'
  BY <1>1, <1>2, <1>3 DEF IInv, PoolInv, ReqInv, maps, life
<1>7. (~quit /\ c \in open') => (c \in conns' \/ task'[c] = "connected")
  BY <1>1, <1>2, <1>3 DEF IInv, PoolInv, NoLeak, maps
<1>8. StartInv' /\ UNCHANGED <<started, quit>>
  BY <1>3 DEF IInv, PoolInv, StartInv, pool, life
<1> QED
  BY <1>4, <1>5, <1>6, <1>7, <1>8, TouchKeeps

\* connHandler registers a request.
LEMMA RegisterKeeps == ASSUME IInv, NEW c \in Ids, RegisterPending(c) PROVE IInv'
<1>1. PICK p \in {"address", "dial"} : task' = [task EXCEPT ![c] = p]
  BY ZenonT(40) DEF RegisterPending
<1>2. /\ task' \in [Ids -> Places] /\ task'[c] = p
      /\ \A d \in Ids \ {c} : task'[d] = task[d]
  BY <1>1 DEF IInv, Types, Places
<1>3. /\ state' \in [Ids -> ConnStates] /\ state'[c] = "pending"
      /\ \A d \in Ids \ {c} : state'[d] = state[d]
  BY DEF RegisterPending, IInv, Types, ConnStates
<1>4. /\ task[c] = "register" /\ pending' = pending \cup {c}
      /\ UNCHANGED <<count, kind, conns, open, pool, calls, life>>
  BY DEF RegisterPending
<1>5. OnlyTouches(c)
  BY <1>2, <1>3, <1>4 DEF OnlyTouches
<1>6. Types'
  BY <1>2, <1>3, <1>4 DEF IInv, Types, pool
<1>7. ReqInv(c)'
  BY <1>2, <1>3, <1>4 DEF IInv, PoolInv, ReqInv, life
<1>8. (~quit /\ c \in open') => (c \in conns' \/ task'[c] = "connected")
  BY <1>4 DEF IInv, PoolInv, NoLeak
<1>9. StartInv' /\ UNCHANGED <<started, quit>>
  BY <1>4 DEF IInv, PoolInv, StartInv, pool, life
<1> QED
  BY <1>5, <1>6, <1>7, <1>8, <1>9, TouchKeeps

\* connHandler takes a connection over, or closes it.
LEMMA ConnectedKeeps == ASSUME IInv, NEW c \in Ids, HandleConnected(c) PROVE IInv'
<1>1. /\ task' \in [Ids -> Places] /\ task'[c] = "none"
      /\ \A d \in Ids \ {c} : task'[d] = task[d]
  BY DEF HandleConnected, IInv, Types, Places
<1>2. /\ task[c] = "connected"
      /\ UNCHANGED <<count, kind, spawned, delayed, calls, life>>
  BY DEF HandleConnected
<1>3. CASE c \notin pending
  <2>1. open' = open \ {c} /\ UNCHANGED maps
    BY <1>3 DEF HandleConnected
  <2>2. OnlyTouches(c)
    BY <1>1, <1>2, <2>1 DEF OnlyTouches, maps
  <2>3. Types'
    BY <1>1, <1>2, <2>1 DEF IInv, Types, maps
  <2>4. ReqInv(c)'
    BY <1>1, <1>2, <2>1 DEF IInv, PoolInv, ReqInv, maps, life
  <2>5. StartInv' /\ UNCHANGED <<started, quit>>
    BY <1>2 DEF IInv, PoolInv, StartInv, life
  <2> QED
    BY <2>1, <2>2, <2>3, <2>4, <2>5, TouchKeeps
<1>4. CASE c \in pending
  <2>1. /\ state' = [state EXCEPT ![c] = "established"]
        /\ conns' = conns \cup {c} /\ pending' = pending \ {c} /\ open' = open
    BY <1>4 DEF HandleConnected
  <2>2. /\ state' \in [Ids -> ConnStates] /\ state'[c] = "established"
        /\ \A d \in Ids \ {c} : state'[d] = state[d]
    BY <2>1 DEF IInv, Types, ConnStates
  <2>3. OnlyTouches(c)
    BY <1>1, <1>2, <2>1, <2>2 DEF OnlyTouches
  <2>4. Types'
    BY <1>1, <1>2, <2>1, <2>2 DEF IInv, Types
  <2>5. ReqInv(c)'
    BY <1>1, <1>2, <2>1, <2>2 DEF IInv, PoolInv, ReqInv, life
  <2>6. StartInv' /\ UNCHANGED <<started, quit>>
    BY <1>2 DEF IInv, PoolInv, StartInv, life
  <2> QED
    BY <2>1, <2>3, <2>4, <2>5, <2>6, TouchKeeps
<1> QED
  BY <1>3, <1>4

\* handleFailedConn: what happens to the task and to the pool.
LEMMA FailedConnEffect ==
  ASSUME Types, NEW c \in Ids, NEW here \in [Ids -> Places], HandleFailedConn(c, here)
  PROVE  /\ task' = here \/ (kind[c] = "permanent" /\ task' = [here EXCEPT ![c] = "timer"])
         /\ spawned' \in Nat /\ delayed' \in Nat
         /\ \/ spawned' + delayed' = spawned + delayed
            \/ kind[c] # "permanent" /\ spawned' + delayed' = spawned + delayed + 1
         /\ task' \in [Ids -> Places]
         /\ task'[c] \in {here[c], "timer"} /\ (task'[c] = "timer" => here[c] = "timer" \/ kind[c] = "permanent")
         /\ \A d \in Ids \ {c} : task'[d] = here[d]
<1>1. /\ task' = here \/ (kind[c] = "permanent" /\ task' = [here EXCEPT ![c] = "timer"])
      /\ spawned' \in Nat /\ delayed' \in Nat
      /\ \/ spawned' + delayed' = spawned + delayed
         \/ kind[c] # "permanent" /\ spawned' + delayed' = spawned + delayed + 1
  BY DEF HandleFailedConn, Types, pool
<1> QED
  BY <1>1 DEF Places

\* connHandler learns that a request failed.
LEMMA FailedKeeps == ASSUME IInv, NEW c \in Ids, HandleFailed(c) PROVE IInv'
<1> DEFINE here == [task EXCEPT ![c] = "none"]
<1>1. /\ here \in [Ids -> Places] /\ here[c] = "none"
      /\ \A d \in Ids \ {c} : here[d] = task[d]
  BY DEF IInv, Types, Places
<1>2. /\ task[c] = "failed" /\ handler = "running"
      /\ UNCHANGED <<count, kind, pending, conns, open, calls, life>>
  BY DEF HandleFailed
<1>3. /\ task' \in [Ids -> Places] /\ task'[c] \in {"none", "timer"}
      /\ (task'[c] = "timer" => kind[c] = "permanent")
      /\ \A d \in Ids \ {c} : task'[d] = task[d]
      /\ spawned' \in Nat /\ delayed' \in Nat
  <2>1. CASE c \notin pending
    <3>1. task' = here /\ UNCHANGED pool
      BY <2>1 DEF HandleFailed
    <3> QED
      BY <3>1, <1>1 DEF IInv, Types, pool
  <2>2. CASE c \in pending
    <3>1. HandleFailedConn(c, here)
      BY <2>2 DEF HandleFailed
    <3> HIDE DEF here
    <3> QED
      BY <3>1, <1>1, FailedConnEffect DEF IInv
  <2> QED
    BY <2>1, <2>2
<1>4. /\ state' \in [Ids -> ConnStates]
      /\ (c \in pending => state'[c] = "failing") /\ (c \notin pending => state' = state)
      /\ \A d \in Ids \ {c} : state'[d] = state[d]
  BY DEF HandleFailed, IInv, Types, ConnStates
<1>5. OnlyTouches(c)
  BY <1>2, <1>3, <1>4 DEF OnlyTouches
<1>6. Types'
  BY <1>2, <1>3, <1>4 DEF IInv, Types
<1>7. ReqInv(c)'
  BY <1>2, <1>3, <1>4 DEF IInv, PoolInv, ReqInv, life
<1>8. (~quit /\ c \in open') => (c \in conns' \/ task'[c] = "connected")
  BY <1>2 DEF IInv, PoolInv, NoLeak
<1>9. StartInv' /\ UNCHANGED <<started, quit>>
  BY <1>2 DEF IInv, PoolInv, StartInv, life
<1> QED
  BY <1>5, <1>6, <1>7, <1>8, <1>9, TouchKeeps

\* A caller reports the end of a connection, and its request is retried.
LEMMA DisconnectKeeps == ASSUME IInv, NEW c \in Ids, Disconnect(c) PROVE IInv'
<1>1. /\ c \in conns /\ handler = "running" /\ conns' = conns \ {c} /\ open' = open \ {c}
      /\ UNCHANGED <<count, kind, calls, life>>
  BY DEF Disconnect, MayEnd, CloseConn
<1>2. task[c] = "none" /\ kind[c] # "none" /\ state[c] # "canceled" /\ c \notin pending
  BY <1>1 DEF IInv, PoolInv, ReqInv
<1>3. /\ task' \in [Ids -> Places] /\ task'[c] \in {"none", "timer"}
      /\ (task'[c] = "timer" => kind[c] = "permanent")
      /\ \A d \in Ids \ {c} : task'[d] = task[d]
      /\ spawned' \in Nat /\ delayed' \in Nat
  <2>1. CASE HandleFailedConn(c, task)
    BY <2>1, <1>2, FailedConnEffect DEF IInv, Types
  <2>2. CASE UNCHANGED <<task, pool>>
    BY <2>2, <1>2 DEF IInv, Types, pool
  <2> QED
    BY <2>1, <2>2 DEF Disconnect
<1>4. /\ state' \in [Ids -> ConnStates] /\ state'[c] # "canceled"
      /\ \A d \in Ids \ {c} : state'[d] = state[d]
      /\ pending' \in {pending, pending \cup {c}}
  BY <1>2 DEF Disconnect, IInv, Types, ConnStates
<1>5. OnlyTouches(c)
  BY <1>1, <1>3, <1>4 DEF OnlyTouches
<1>6. Types'
  BY <1>1, <1>3, <1>4 DEF IInv, Types
<1>7. ReqInv(c)'
  BY <1>1, <1>2, <1>3, <1>4 DEF IInv, PoolInv, ReqInv, life
<1>8. StartInv' /\ UNCHANGED <<started, quit>>
  BY <1>1 DEF IInv, PoolInv, StartInv, life
<1> QED
  BY <1>1, <1>5, <1>6, <1>7, <1>8, TouchKeeps

\* The server replaces a connection that ended, or a caller withdraws a request.
LEMMA EndKeeps == ASSUME IInv, NEW c \in Ids, Replace(c) \/ Cancel(c) PROVE IInv'
<1>1. /\ handler = "running" /\ UNCHANGED <<count, kind, task, delayed, calls, life>>
      /\ spawned' \in {spawned, spawned + 1}
      /\ open' \in {open, open \ {c}}
      /\ \/ c \in conns /\ conns' = conns \ {c} /\ pending' = pending /\ open' = open \ {c}
            /\ state' = [state EXCEPT ![c] = "disconnected"]
         \/ /\ c \in pending /\ conns' = conns /\ pending' = pending \ {c} /\ open' = open
            /\ state' = [state EXCEPT ![c] = "canceled"]
  BY DEF Replace, Cancel, MayEnd, CloseConn, pool
<1>2. /\ state' \in [Ids -> ConnStates]
      /\ \A d \in Ids \ {c} : state'[d] = state[d]
      /\ (conns' = conns => state'[c] = "canceled" /\ c \notin conns /\ c \in pending)
      /\ (conns' # conns => state'[c] = "disconnected")
  <2>1. c \in pending => c \notin conns
    BY DEF IInv, PoolInv, ReqInv
  <2> QED
    BY <2>1, <1>1 DEF IInv, Types, ConnStates
<1>3. OnlyTouches(c)
  BY <1>1, <1>2 DEF OnlyTouches
<1>4. Types'
  BY <1>1, <1>2 DEF IInv, Types
<1>5. ReqInv(c)'
  BY <1>1, <1>2 DEF IInv, PoolInv, ReqInv, life
<1>6. (~quit /\ c \in open') => (c \in conns' \/ task'[c] = "connected")
  BY <1>1 DEF IInv, PoolInv, NoLeak
<1>7. StartInv' /\ UNCHANGED <<started, quit>>
  BY <1>1 DEF IInv, PoolInv, StartInv, life
<1> QED
  BY <1>3, <1>4, <1>5, <1>6, <1>7, TouchKeeps

\* Start, Stop, the loops that end, and the goroutines that have no request yet.
LEMMA LifeKeeps ==
  ASSUME IInv, Start \/ Stop \/ CloseQuit \/ HandlerQuits \/ ListenerQuits \/ NewConnReqTimer
  PROVE  IInv'
<1>1. /\ UNCHANGED <<count, kind, maps, task, open, calls>>
      /\ spawned' \in Nat /\ delayed' \in Nat
      /\ (started => started') /\ (quit => quit') /\ StartInv'
  <2>1. CASE Start
    BY <2>1, BoundsAssumption DEF Start, Max, IInv, Types, StartInv
  <2>2. CASE Stop \/ CloseQuit \/ ListenerQuits
    BY <2>2 DEF Stop, CloseQuit, ListenerQuits, IInv, Types, PoolInv, StartInv, pool
  <2>3. CASE HandlerQuits
    BY <2>3 DEF HandlerQuits, IInv, Types, PoolInv, StartInv, pool
  <2>4. CASE NewConnReqTimer
    BY <2>4 DEF NewConnReqTimer, IInv, Types, PoolInv, StartInv, life
  <2> QED
    BY <2>1, <2>2, <2>3, <2>4
<1>2. Types'
  BY <1>1 DEF IInv, Types, maps
<1>3. ASSUME NEW c \in Ids PROVE ReqInv(c)'
  BY <1>1 DEF IInv, PoolInv, ReqInv, maps
<1>4. NoLeak'
  BY <1>1 DEF IInv, PoolInv, NoLeak, maps
<1> QED
  BY <1>1, <1>2, <1>3, <1>4 DEF IInv, PoolInv, StartInv

\* A goroutine starts on a new request.
LEMMA NewKeeps ==
  ASSUME IInv, NewConnReq \/ ConnectNew("permanent") \/ ConnectNew("oneshot")
  PROVE  IInv'
<1>1. CASE NewConnReq
  <2>1. /\ spawned > 0 /\ spawned' = spawned - 1 /\ UNCHANGED <<maps, open, delayed, calls, life>>
        /\ (Assign("auto", "register") \/ UNCHANGED <<count, kind, task>>)
    BY <1>1 DEF NewConnReq
  <2>2. started /\ spawned' \in Nat
    BY <2>1 DEF IInv, Types, PoolInv
  <2>3. CASE Assign("auto", "register")
    <3>1. /\ count' \in Nat /\ kind' \in [Ids -> Kinds] /\ task' \in [Ids -> Places]
          /\ (\A c \in Ids : ReqInv(c)') /\ NoLeak'
      BY <2>1, <2>2, <2>3, AssignKeeps DEF maps, life
    <3> QED
      BY <3>1, <2>1, <2>2 DEF IInv, Types, PoolInv, maps, life
  <2>4. CASE UNCHANGED <<count, kind, task>>
    BY <2>1, <2>2, <2>4 DEF IInv, Types, PoolInv, ReqInv, NoLeak, maps, life
  <2> QED
    BY <2>1, <2>3, <2>4
<1>2. ASSUME NEW k \in {"permanent", "oneshot"}, ConnectNew(k) PROVE IInv'
  <2>1. /\ calls[k] > 0 /\ calls' = [calls EXCEPT ![k] = @ - 1]
        /\ UNCHANGED <<maps, open, pool, life>>
        /\ (Assign(k, "register") \/ UNCHANGED <<count, kind, task>>)
    BY <1>2 DEF ConnectNew
  <2>2. calls' \in [{"permanent", "oneshot"} -> Nat] /\ CallsInv'
    BY <2>1 DEF IInv, Types, PoolInv, CallsInv
  <2>3. CASE Assign(k, "register")
    <3>1. k = "oneshot" => OneShots # 0
      BY <2>1 DEF IInv, Types, PoolInv
    <3>2. /\ count' \in Nat /\ kind' \in [Ids -> Kinds] /\ task' \in [Ids -> Places]
          /\ (\A c \in Ids : ReqInv(c)') /\ NoLeak'
      BY <2>1, <2>3, <3>1, AssignKeeps DEF maps, life
    <3> QED
      BY <3>2, <2>1, <2>2 DEF IInv, Types, PoolInv, CallsInv, maps, pool, life
  <2>4. CASE UNCHANGED <<count, kind, task>>
    BY <2>1, <2>2, <2>4 DEF IInv, Types, PoolInv, CallsInv, ReqInv, NoLeak, maps, pool, life
  <2> QED
    BY <2>1, <2>3, <2>4
<1> QED
  BY <1>1, <1>2

\* Every step of the manager and of its callers keeps the invariant.
LEMMA StepInv == IInv /\ [Next]_vars => IInv'
<1> SUFFICES ASSUME IInv, [Next]_vars PROVE IInv'
  OBVIOUS
<1>1. CASE UNCHANGED vars
  BY <1>1 DEF IInv, Types, PoolInv, ReqInv, NoLeak, vars, maps, pool, life
<1>2. ASSUME NEW c \in Ids, Handler(c) PROVE IInv'
  BY <1>2, RegisterKeeps, ConnectedKeeps, FailedKeeps DEF Handler
<1> QED
  BY <1>1, <1>2, LifeKeeps, NewKeeps, GoroutineKeeps, DisconnectKeeps, EndKeeps DEF Next

\* In every state a request is either connected or being worked on, ids are used
\* once and no connection is lost: the invariant of connHandler's maps and the
\* goroutines that serve its requests.
THEOREM PoolInvariant == Spec => []PoolInv
<1>1. Init /\ [][Next]_vars => []IInv
  BY InitInv, StepInv, PTL
<1>2. IInv => PoolInv
  BY DEF IInv
<1> QED
  BY <1>1, <1>2, PTL DEF Spec

\* While the manager runs it never loses track of an open connection, however
\* dials, retries and cancellations interleave.
THEOREM NoConnectionLost == Spec => []NoLeak
<1>1. PoolInv => NoLeak
  BY DEF PoolInv
<1> QED
  BY <1>1, PoolInvariant, PTL

\* A withdrawn request is in neither map, so that its late dial is dropped and
\* its retry timer finds it canceled: it never gets a connection.
THEOREM CanceledForGood == Spec => CanceledStays
<1> DEFINE Stays == \A c \in Ids : state[c] = "canceled" => state'[c] = "canceled" /\ c \notin conns'
<1>1. ASSUME IInv, [Next]_vars PROVE [Stays]_vars
  <2> SUFFICES ASSUME Next, NEW c \in Ids, state[c] = "canceled"
               PROVE  state'[c] = "canceled" /\ c \notin conns'
    BY <1>1
  <2> USE <1>1
  <2>1. c \notin conns /\ c \notin pending /\ task[c] # "register" /\ state \in [Ids -> ConnStates]
    BY DEF IInv, Types, PoolInv, ReqInv
  <2>2. CASE UNCHANGED maps
    BY ZenonT(40), <2>1, <2>2 DEF maps
  <2>3. CASE Start \/ Stop \/ CloseQuit \/ HandlerQuits \/ ListenerQuits
    BY ZenonT(40), <2>2, <2>3 DEF Start, Stop, CloseQuit, HandlerQuits, ListenerQuits
  <2>4. CASE NewConnReq \/ NewConnReqTimer \/ ConnectNew("permanent") \/ ConnectNew("oneshot")
    BY ZenonT(40), <2>2, <2>4 DEF NewConnReq, NewConnReqTimer, ConnectNew
  <2>5. ASSUME NEW d \in Ids, Goroutine(d) PROVE UNCHANGED maps
    BY ZenonT(40), <2>5 DEF Goroutine, GetNewAddress, Connect, Dial, GiveUp
  <2>6. ASSUME NEW d \in Ids, Handler(d) PROVE state'[c] = "canceled" /\ c \notin conns'
    BY <2>6, <2>1 DEF Handler, RegisterPending, HandleConnected, HandleFailed, maps
  <2>7. ASSUME NEW d \in Ids, Disconnect(d) \/ Replace(d) \/ Cancel(d)
        PROVE  state'[c] = "canceled" /\ c \notin conns'
    BY <2>7, <2>1 DEF Disconnect, Replace, Cancel, CloseConn
  <2> QED
    BY ZenonT(40), <2>2, <2>3, <2>4, <2>5, <2>6, <2>7 DEF Next
<1>2. IInv /\ [Next]_vars => [Stays]_vars
  BY <1>1
<1>3. Init /\ [][Next]_vars => []IInv
  BY InitInv, StepInv, PTL
<1> QED
  BY <1>2, <1>3, PTL DEF Spec, CanceledStays

----------------------------------------------------------------------------
(* The size of the pool. *)

\* Ids, and so Slots, are finite.
LEMMA SlotsFinite ==
  /\ IsFiniteSet(Ids) /\ IsFiniteSet(Slots) /\ Cardinality(Slots) \in Nat
  /\ \A S \in SUBSET Ids : IsFiniteSet(S) /\ Cardinality(S) \in Nat
<1>1. IsFiniteSet(Ids)
  <2>1. MaxReqs \in Nat
    BY BoundsAssumption DEF MaxReqs
  <2> QED
    BY <2>1, FS_Interval DEF Ids
<1>2. ASSUME NEW S \in SUBSET Ids PROVE IsFiniteSet(S) /\ Cardinality(S) \in Nat
  BY <1>1, FS_Subset, FS_CardinalityType
<1>3. Slots \in SUBSET Ids
  BY DEF Slots
<1> QED
  BY <1>1, <1>2, <1>3

\* What a step may do to the requests the manager makes up: let go of some, turn
\* a goroutine into a request, or a request into a goroutine or a timer.
SlotStep(g) ==
  \/ Slots' \subseteq Slots /\ g <= spawned + delayed
  \/ \E x \in Ids : Slots' \subseteq Slots \cup {x} /\ g = spawned + delayed - 1
  \/ \E x \in Slots : Slots' \subseteq Slots \ {x} /\ g = spawned + delayed + 1
  \/ Slots' = {} /\ g <= TargetOutbound

\* Each of these keeps the bound.
LEMMA SlotStepBounded ==
  ASSUME Types, OutboundBounded, NEW g \in Nat, SlotStep(g)
  PROVE  g + Cardinality(Slots') <= TargetOutbound
<1> DEFINE n == Cardinality(Slots)
           m == Cardinality(Slots')
<1>t. spawned \in Nat /\ delayed \in Nat /\ TargetOutbound \in Nat
  BY BoundsAssumption DEF Types
<1>0. IsFiniteSet(Slots) /\ IsFiniteSet(Slots')
  <2>1. Slots' \in SUBSET Ids
    BY DEF Slots
  <2> QED
    BY <2>1, SlotsFinite
<1>n. n \in Nat /\ m \in Nat
  BY <1>0, FS_CardinalityType
<1>o. spawned + delayed + n <= TargetOutbound
  BY DEF OutboundBounded
<1> SUFFICES g + m <= TargetOutbound
  OBVIOUS
<1>1. CASE Slots' \subseteq Slots /\ g <= spawned + delayed
  <2>1. m <= n
    BY <1>0, <1>1, FS_Subset
  <2> HIDE DEF n, m
  <2> QED
    BY <1>t, <1>n, <1>o, <1>1, <2>1
<1>2. ASSUME NEW x \in Ids, Slots' \subseteq Slots \cup {x}, g = spawned + delayed - 1
      PROVE  g + m <= TargetOutbound
  <2>1. IsFiniteSet(Slots \cup {x}) /\ Cardinality(Slots \cup {x}) \in {n, n + 1}
    BY <1>0, FS_AddElement
  <2>2. m <= Cardinality(Slots \cup {x})
    BY <1>0, <1>2, <2>1, FS_Subset
  <2> HIDE DEF n, m
  <2>3. m <= n + 1
    BY <1>n, <2>1, <2>2
  <2> QED
    BY <1>t, <1>n, <1>o, <1>2, <2>3
<1>3. ASSUME NEW x \in Slots, Slots' \subseteq Slots \ {x}, g = spawned + delayed + 1
      PROVE  g + m <= TargetOutbound
  <2>1. IsFiniteSet(Slots \ {x}) /\ Cardinality(Slots \ {x}) = n - 1
    BY <1>0, FS_RemoveElement
  <2>2. m <= n - 1
    BY <1>0, <1>3, <2>1, FS_Subset
  <2> HIDE DEF n, m
  <2> QED
    BY <1>t, <1>n, <1>o, <1>3, <2>2
<1>4. CASE Slots' = {} /\ g <= TargetOutbound
  <2>1. m = 0
    BY <1>4, FS_EmptySet
  <2> HIDE DEF n, m
  <2> QED
    BY <1>t, <1>n, <1>4, <2>1
<1> QED
  BY <1>1, <1>2, <1>3, <1>4 DEF SlotStep

\* The goroutines and timers that will make up a request.
Coming(g) == \E s, d \in Nat : s = spawned' /\ d = delayed' /\ g = s + d

\* A step that leaves them alone is one of these if Slots does not grow.
LEMMA QuietSlots ==
  ASSUME Types, Slots' \subseteq Slots, UNCHANGED <<spawned, delayed>>
  PROVE  \E g \in Nat : Coming(g) /\ SlotStep(g)
<1>1. spawned \in Nat /\ delayed \in Nat /\ spawned + delayed \in Nat
  BY DEF Types
<1>2. Coming(spawned + delayed)
  BY <1>1 DEF Coming
<1>3. SlotStep(spawned + delayed)
  BY <1>1 DEF SlotStep
<1> QED
  BY <1>1, <1>2, <1>3

\* A request of the manager's own is given up for a goroutine or a timer.
LEMMA GivenUpSlot ==
  ASSUME Types, NEW c \in Slots, Slots' \subseteq Slots \ {c},
         \/ spawned' = spawned + 1 /\ delayed' = delayed
         \/ spawned' = spawned /\ delayed' = delayed + 1
  PROVE  \E g \in Nat : Coming(g) /\ SlotStep(g)
<1>1. /\ spawned \in Nat /\ delayed \in Nat /\ spawned + 1 \in Nat /\ delayed + 1 \in Nat
      /\ spawned + delayed + 1 \in Nat
      /\ spawned + delayed + 1 = spawned + 1 + delayed
      /\ spawned + delayed + 1 = spawned + (delayed + 1)
  BY DEF Types
<1>2. Coming(spawned + delayed + 1)
  BY <1>1, Zenon DEF Coming
<1>3. SlotStep(spawned + delayed + 1)
  BY DEF SlotStep
<1> QED
  BY <1>1, <1>2, <1>3

\* handleFailedConn is such a step for a request that was in Slots, and leaves
\* Slots alone otherwise.
LEMMA FailedSlot ==
  ASSUME IInv, NEW c \in Ids, NEW here, OneShots = 0, HandleFailedConn(c, here),
         here \in [Ids -> Places], here[c] = "none", \A e \in Ids \ {c} : here[e] = task[e],
         kind[c] # "none", kind' = kind, c \notin conns', conns' \subseteq conns,
         c \in conns \/ task[c] # "none"
  PROVE  \E g \in Nat : Coming(g) /\ SlotStep(g)
<1>1. kind[c] \in {"auto", "permanent"} /\ Types
  BY DEF IInv, Types, Kinds, PoolInv, ReqInv
<1>2. CASE stop
  <2>1. task' = here /\ UNCHANGED <<spawned, delayed>>
    BY <1>2 DEF HandleFailedConn, pool
  <2>2. Slots' \subseteq Slots
    BY <2>1 DEF Slots
  <2> QED
    BY <1>1, <2>1, <2>2, QuietSlots
<1>3. CASE ~stop /\ kind[c] = "permanent"
  <2>1. task' = [here EXCEPT ![c] = "timer"] /\ UNCHANGED <<spawned, delayed>>
    BY <1>3 DEF HandleFailedConn, pool
  <2>2. Slots' \subseteq Slots
    BY <1>3, <2>1 DEF Slots
  <2> QED
    BY <1>1, <2>1, <2>2, QuietSlots
<1>4. CASE ~stop /\ kind[c] = "auto"
  <2>1. /\ task' = here
        /\ \/ spawned' = spawned + 1 /\ delayed' = delayed
           \/ spawned' = spawned /\ delayed' = delayed + 1
    BY <1>4 DEF HandleFailedConn
  <2>2. c \in Slots /\ Slots' \subseteq Slots \ {c}
    BY <1>4, <2>1 DEF Slots
  <2> QED
    BY <1>1, <2>1, <2>2, GivenUpSlot
<1> QED
  BY <1>1, <1>2, <1>3, <1>4

\* Every step is one of those that keep the bound.
LEMMA StepSlots ==
  ASSUME IInv, IInv', OneShots = 0, [Next]_vars
  PROVE  \E g \in Nat : Coming(g) /\ SlotStep(g)
<1>t. Types /\ spawned \in Nat /\ delayed \in Nat /\ count \in Nat
  BY ZenonT(40) DEF IInv, Types
<1>1. CASE UNCHANGED <<kind, conns, task, spawned, delayed>>
  BY <1>t, <1>1, QuietSlots DEF Slots
<1>2. CASE Start
  <2>1. spawned = 0 /\ delayed = 0 /\ Slots' = {}
    BY <1>2 DEF Start, IInv, PoolInv, ReqInv, Slots, maps
  <2>2. PICK s \in Nat : s = spawned' /\ s <= TargetOutbound
    BY <1>2, <1>t, <2>1, BoundsAssumption DEF Start, Max
  <2>3. Coming(s) /\ SlotStep(s)
    BY <1>2, <2>1, <2>2 DEF Start, Coming, SlotStep
  <2> QED
    BY <2>3
<1>3. CASE NewConnReq
  <2>1. spawned > 0 /\ spawned' = spawned - 1 /\ delayed' = delayed /\ conns' = conns
    BY <1>3 DEF NewConnReq, maps
  <2>2. Coming(spawned + delayed - 1) /\ spawned + delayed - 1 \in Nat
    <3>1. /\ spawned - 1 \in Nat /\ spawned + delayed - 1 = (spawned - 1) + delayed
          /\ spawned + delayed - 1 \in Nat
      BY <1>t, <2>1
    <3> QED
      BY <1>t, <2>1, <3>1, Zenon DEF Coming
  <2>3. SlotStep(spawned + delayed - 1)
    <3>1. Slots' \subseteq Slots \/ \E x \in Ids : Slots' \subseteq Slots \cup {x}
      BY <1>3, <1>t, <2>1 DEF NewConnReq, Assign, Slots, Types
    <3>2. spawned + delayed - 1 <= spawned + delayed
      BY <1>t
    <3> QED
      BY <3>1, <3>2 DEF SlotStep
  <2> QED
    BY <2>2, <2>3
<1>4. CASE NewConnReqTimer
  <2>1. /\ delayed > 0 /\ spawned' = spawned + 1 /\ delayed' = delayed - 1
        /\ UNCHANGED <<kind, conns, task>>
    BY <1>4 DEF NewConnReqTimer, maps
  <2>2. Coming(spawned + delayed) /\ spawned + delayed \in Nat
    <3>1. /\ spawned + 1 \in Nat /\ delayed - 1 \in Nat /\ spawned + delayed \in Nat
          /\ spawned + delayed = (spawned + 1) + (delayed - 1)
      BY <1>t, <2>1
    <3> QED
      BY <2>1, <3>1, Zenon DEF Coming
  <2>3. SlotStep(spawned + delayed)
    BY <1>t, <2>1 DEF SlotStep, Slots
  <2> QED
    BY <2>2, <2>3
<1>5. ASSUME NEW k \in {"permanent", "oneshot"}, ConnectNew(k)
      PROVE  \E g \in Nat : Coming(g) /\ SlotStep(g)
  <2>1. conns' = conns /\ UNCHANGED <<spawned, delayed>>
    BY <1>5 DEF ConnectNew, maps, pool
  <2>2. Slots' \subseteq Slots
    BY ZenonT(40), <1>5, <1>t, <2>1 DEF ConnectNew, Assign, Slots, Types
  <2> QED
    BY <1>t, <2>1, <2>2, QuietSlots
<1>6. ASSUME NEW c \in Ids, Goroutine(c) \/ RegisterPending(c) \/ HandleConnected(c)
      PROVE  \E g \in Nat : Coming(g) /\ SlotStep(g)
  <2>1. /\ UNCHANGED <<kind, spawned, delayed>> /\ task[c] # "none"
        /\ conns' \subseteq conns \cup {c} /\ \A e \in Ids \ {c} : task'[e] = task[e]
    BY <1>6, <1>t DEF Goroutine, GetNewAddress, Connect, Dial, GiveUp, RegisterPending,
                      HandleConnected, maps, pool, Types
  <2>2. Slots' \subseteq Slots
    BY <2>1 DEF Slots
  <2> QED
    BY ZenonT(40), <1>t, <2>1, <2>2, QuietSlots
<1>7. ASSUME NEW c \in Ids, HandleFailed(c) PROVE \E g \in Nat : Coming(g) /\ SlotStep(g)
  <2> DEFINE here == [task EXCEPT ![c] = "none"]
  <2>1. /\ task[c] = "failed" /\ UNCHANGED <<kind, conns>>
        /\ here \in [Ids -> Places] /\ here[c] = "none"
        /\ \A e \in Ids \ {c} : here[e] = task[e]
    BY <1>7, <1>t DEF HandleFailed, Types, Places
  <2>2. kind[c] # "none" /\ c \notin conns
    BY <2>1 DEF IInv, PoolInv, ReqInv
  <2>3. CASE HandleFailedConn(c, here)
    BY ZenonT(40), <2>1, <2>2, <2>3, FailedSlot
  <2>4. CASE task' = here /\ UNCHANGED pool
    <3>1. Slots' \subseteq Slots
      BY <2>1, <2>4 DEF Slots
    <3> QED
      BY ZenonT(40), <1>t, <2>4, <3>1, QuietSlots DEF pool
  <2> QED
    BY <1>7, <2>3, <2>4 DEF HandleFailed
<1>8. ASSUME NEW c \in Ids, Disconnect(c) PROVE \E g \in Nat : Coming(g) /\ SlotStep(g)
  <2>1. c \in conns /\ conns' = conns \ {c} /\ UNCHANGED kind
    BY <1>8 DEF Disconnect, CloseConn
  <2>2. task[c] = "none" /\ kind[c] # "none" /\ task \in [Ids -> Places]
    BY <2>1 DEF IInv, PoolInv, ReqInv, Types
  <2>3. CASE HandleFailedConn(c, task)
    BY <2>1, <2>2, <2>3, FailedSlot
  <2>4. CASE UNCHANGED <<task, pool>>
    <3>1. Slots' \subseteq Slots
      BY <2>1, <2>4 DEF Slots
    <3> QED
      BY <1>t, <2>4, <3>1, QuietSlots DEF pool
  <2> QED
    BY <1>8, <2>3, <2>4 DEF Disconnect
<1>9. ASSUME NEW c \in Ids, Replace(c) PROVE \E g \in Nat : Coming(g) /\ SlotStep(g)
  <2>1. /\ c \in conns /\ conns' = conns \ {c} /\ kind[c] # "permanent"
        /\ spawned' = spawned + 1 /\ UNCHANGED <<kind, task, delayed>>
    BY ZenonT(40), <1>9 DEF Replace, CloseConn
  <2>2. task[c] = "none" /\ kind[c] = "auto"
    BY ZenonT(40), <2>1 DEF IInv, PoolInv, ReqInv, Types, Kinds
  <2>3. c \in Slots /\ Slots' \subseteq Slots \ {c}
    BY <2>1, <2>2 DEF Slots
  <2> QED
    BY <1>t, <2>1, <2>3, GivenUpSlot
<1>10. CASE UNCHANGED vars
  BY <1>1, <1>10 DEF vars, maps, pool
<1>11. CASE Stop \/ CloseQuit \/ HandlerQuits \/ ListenerQuits
  BY <1>1, <1>11 DEF Stop, CloseQuit, HandlerQuits, ListenerQuits, maps, pool
<1>12. ASSUME NEW c \in Ids, Cancel(c) PROVE UNCHANGED <<kind, conns, task, spawned, delayed>>
  BY <1>12 DEF Cancel, pool
<1> QED
  BY <1>1, <1>2, <1>3, <1>4, <1>5, <1>6, <1>7, <1>8, <1>9, <1>10, <1>11, <1>12 DEF Next, Handler

\* Without one-shot requests the manager never works on more automatic requests
\* than TargetOutbound, for every target, failure count and interleaving.
THEOREM OutboundBound == ASSUME OneShots = 0 PROVE Spec => []OutboundBounded
<1>1. Init => IInv /\ OutboundBounded
  <2>1. ASSUME Init PROVE OutboundBounded
    <3>1. Slots = {} /\ spawned = 0 /\ delayed = 0
      BY <2>1 DEF Init, Slots
    <3>2. Cardinality(Slots) = 0
      BY <3>1, FS_EmptySet
    <3> QED
      BY <3>1, <3>2, BoundsAssumption DEF OutboundBounded
  <2> QED
    BY <2>1, InitInv
<1>2. IInv /\ OutboundBounded /\ [Next]_vars => IInv' /\ OutboundBounded'
  <2> SUFFICES ASSUME IInv, OutboundBounded, [Next]_vars PROVE IInv' /\ OutboundBounded'
    OBVIOUS
  <2>1. IInv'
    BY StepInv
  <2>2. PICK g \in Nat : Coming(g) /\ SlotStep(g)
    BY <2>1, StepSlots
  <2>3. g + Cardinality(Slots') <= TargetOutbound
    BY <2>2, SlotStepBounded DEF IInv
  <2>4. PICK s \in Nat, d \in Nat : s = spawned' /\ d = delayed' /\ g = s + d
    BY ZenonT(40), <2>2 DEF Coming
  <2>5. OutboundBounded'
    BY <2>3, <2>4, Zenon DEF OutboundBounded
  <2> QED
    BY <2>1, <2>5
<1> QED
  BY <1>1, <1>2, PTL DEF Spec
=============================================================================
