--------------------------- MODULE MCConnManager ---------------------------
(* Two instances of ConnManager side by side; a behaviour is of one of them.  *)
(* The constants of the configuration are those of the first, whose requests  *)
(* may be withdrawn; the second is stopped and loses connections of any kind. *)
EXTENDS ConnManager

VARIABLES
  instance,   \* "pool" or "live"
  lCount, lKind, lState, lPending, lConns, lTask, lOpen, lSpawned, lDelayed, lCalls,
  lFailedAttempts, lFailures, lEnds, lStarted, lStop, lQuit, lHandler, lListener

lVars == <<lCount, lKind, lState, lPending, lConns, lTask, lOpen, lSpawned, lDelayed, lCalls,
           lFailedAttempts, lFailures, lEnds, lStarted, lStop, lQuit, lHandler, lListener>>

L == INSTANCE ConnManager WITH
  TargetOutbound <- 1, Permanents <- 0, OneShots <- 1, DisconnectAny <- TRUE,
  MayStop <- TRUE, MayCancel <- FALSE,
  count <- lCount, kind <- lKind, state <- lState, pending <- lPending, conns <- lConns,
  task <- lTask, open <- lOpen, spawned <- lSpawned, delayed <- lDelayed, calls <- lCalls,
  failedAttempts <- lFailedAttempts, failures <- lFailures, ends <- lEnds,
  started <- lStarted, stop <- lStop, quit <- lQuit, handler <- lHandler, listener <- lListener

MCInit == instance \in {"pool", "live"} /\ Init /\ L!Init

MCNext ==
  /\ UNCHANGED instance
  /\ \/ instance = "pool" /\ Next /\ UNCHANGED lVars
     \/ instance = "live" /\ L!Next /\ UNCHANGED vars

\* A behaviour of the first instance is not fair to the second one, so that the
\* liveness properties speak of the behaviours of the second.
MCSpec == MCInit /\ [][MCNext]_<<instance, vars, lVars>> /\ L!Fairness

\* Once connections stop failing the pool fills up and stays full, in the instance
\* that loses connections of any kind (PoolRestored of ConnManager).
PoolRefilled == L!PoolRestored

\* After Stop every goroutine ends (StopHalts of ConnManager).
StopEnds == L!StopHalts
=============================================================================
