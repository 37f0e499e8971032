---------------------------- MODULE DurableStore ----------------------------
(***************************************************************************)
(* What the database promises its users: a write transaction sees its own   *)
(* changes, commits them all at once or not at all, and what a stop of the   *)
(* process leaves is the state after some of the commits, in their order.    *)
(***************************************************************************)
CONSTANTS
  Keys,    \* the keys of the metadata
  Vals,    \* their values
  Blocks,  \* the blocks, each its own key and value
  Nil      \* there is no entry

VARIABLES
  view,       \* what the write transaction sees
  committed,  \* what a transaction that begins now sees
  durable     \* what is left after a stop of the process

storeVars == <<view, committed, durable>>

StoreInit ==
  /\ view = [k \in Keys \cup Blocks |-> Nil]
  /\ committed = view /\ durable = view

\* A metadata entry is set or deleted; a block that is not there is added, and
\* no block is ever removed or changed.
Change ==
  /\ \/ \E k \in Keys, v \in Vals \cup {Nil} : view' = [view EXCEPT ![k] = v]
     \/ \E b \in Blocks : view[b] = Nil /\ view' = [view EXCEPT ![b] = b]
  /\ UNCHANGED <<committed, durable>>

Commit == committed' = view /\ UNCHANGED <<view, durable>>
Abort == view' = committed /\ UNCHANGED <<committed, durable>>

Persist == durable' = committed /\ UNCHANGED <<view, committed>>

\* A commit goes to the disk directly, once all before it have.
CommitDurably ==
  /\ durable = committed
  /\ committed' = view /\ durable' = view /\ UNCHANGED view

Stop == committed' = durable /\ view' = durable /\ UNCHANGED durable

\* The database is closed: everything that was committed is durable.
Close == durable' = committed /\ view' = committed /\ UNCHANGED committed

StoreNext ==
  Change \/ Commit \/ Abort \/ Persist \/ CommitDurably \/ Stop \/ Close

StoreSpec == StoreInit /\ [][StoreNext]_storeVars
=============================================================================
