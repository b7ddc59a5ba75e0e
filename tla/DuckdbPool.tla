----------------------------- MODULE DuckdbPool -----------------------------
(***************************************************************************)
(* `_AsyncDuckdbPool` of common/db.py: one root DuckDB connection, a       *)
(* cursor forked from it for every `acquire()`, and three operations that  *)
(* close or open the root: `close`, `reopen` and the bracket               *)
(* `released_for_subprocess`.  They run as tasks of one asyncio loop, so   *)
(* an action is the code between two awaits, and what a worker thread      *)
(* does during an `await to_thread(...)` is an action of its own.          *)
(***************************************************************************)
EXTENDS Naturals, FiniteSets

CONSTANTS
  Requests,    \* tasks that use `async with pool.acquire()`
  Callers,     \* tasks that use `close`, `reopen` or the bracket
  Ops,         \* which of the three a caller may use
  MaxSize,     \* `max_size` of the semaphore
  MaxFaults,   \* bound on cancellations and exceptions in one behaviour
  NoOne, Pool, Nobody

ASSUME CallersAssumption == NoOne \notin Callers
ASSUME LeaseAssumption == Pool # Nobody /\ {Pool, Nobody} \cap Callers = {}
ASSUME OpsAssumption == Ops \subseteq {"bracket", "close", "reopen"}
ASSUME SizeAssumption == MaxSize \in Nat \ {0}
ASSUME FaultsAssumption == MaxFaults \in Nat
ASSUME FiniteAssumption == IsFiniteSet(Requests)

VARIABLES
  root,       \* TRUE iff `self._root` is not None
  inFlight,   \* `self._in_flight`
  drained,    \* `self._drained.is_set()`
  lock,       \* the owner of `self._lifecycle_lock`
  req,        \* where each acquirer is
  cursor,     \* the DuckDB cursor of each acquirer
  op,         \* the operation each caller runs
  at,         \* where each caller is
  closers,    \* interrupted `root.close` calls whose thread goes on
  openers,    \* interrupted `duckdb.connect` calls whose thread goes on
  faults,     \* how many faults have happened
  leaked,     \* history: slots of `inFlight` nobody will give back
  early       \* history: admitted before the current drain, not ended yet

vars == <<root, inFlight, drained, lock, req, cursor, op, at, closers, openers,
          faults, leaked, early>>
threads    == <<closers, openers>>
reqVars    == <<req, cursor, inFlight, drained, leaked, early>>
callerVars == <<root, lock, op, at, closers, openers>>

-----------------------------------------------------------------------------
Ended == {"idle", "released", "refused", "raised"}
Holding == {"opening", "using", "closing"}
ReqState == Ended \cup Holding \cup {"semWait"}
CursorState == {"none", "pending", "live", "doomed", "dead"}
CallerState == {"out", "lockWait", "drainWait", "woken", "closing",
                "closed", "body", "reopening"}

(* The acquirers that hold a slot of `_in_flight`. *)
InFlight == {r \in Requests : req[r] \in Holding}

(* The callers for which the lifecycle lock is held. *)
Locked == {"drainWait", "woken", "closing", "closed", "body", "reopening"}

Init ==
  /\ root = TRUE
  /\ inFlight = 0
  /\ drained = TRUE
  /\ lock = NoOne
  /\ req = [r \in Requests |-> "idle"]
  /\ cursor = [r \in Requests |-> "none"]
  /\ op \in [Callers -> Ops]
  /\ at = [c \in Callers |-> "out"]
  /\ closers = 0
  /\ openers = 0
  /\ faults = 0
  /\ leaked = 0
  /\ early = {}

-----------------------------------------------------------------------------
(* `_acquire`.                                                             *)

(* A task enters `async with self._sem`. *)
Acquire(r) ==
  /\ req[r] \in Ended
  /\ req' = [req EXCEPT ![r] = "semWait"]
  /\ UNCHANGED <<cursor, inFlight, drained, leaked, early, faults, callerVars>>

(* Mutant: a refused acquire leaves without giving the semaphore back.     *)
SemKeptByRefusal ==
  Cardinality(InFlight) + Cardinality({r \in Requests : req[r] = "refused"})
    < MaxSize

SemFree == Cardinality(InFlight) < MaxSize

(* The root object is closed but `self._root` still refers to it: the       *)
(* worker thread is done and the task that awaits it has not resumed.      *)
RootDead == root /\ \E c \in Callers : at[c] = "closed"

(* Mutant: the acquirer is let in before `_in_flight` is bumped.           *)
EnterUncounted(r) ==
  /\ req[r] = "semWait"
  /\ SemFree
  /\ root
  /\ req' = [req EXCEPT ![r] = "opening"]
  /\ cursor' = [cursor EXCEPT ![r] = "pending"]
  /\ drained' = FALSE
  /\ UNCHANGED <<inFlight, leaked, early, faults, callerVars>>

(* Mutant: `_root is None` is not checked. *)
EnterUnchecked(r) ==
  /\ req[r] = "semWait"
  /\ SemFree
  /\ req' = [req EXCEPT ![r] = "opening"]
  /\ cursor' = [cursor EXCEPT ![r] = IF root /\ ~RootDead THEN "pending"
                                                          ELSE "none"]
  /\ inFlight' = inFlight + 1
  /\ drained' = FALSE
  /\ UNCHANGED <<leaked, early, faults, callerVars>>

(* The semaphore is granted.  With no root the acquire raises              *)
(* PoolReleasedDuringRefresh and the semaphore is given back.  With a root *)
(* the count is bumped, the event cleared and `root.cursor` handed to a    *)
(* worker thread, all before the next await.                               *)
Enter(r) ==
  /\ req[r] = "semWait"
  /\ SemFree
  /\ \/ /\ root
        /\ req' = [req EXCEPT ![r] = "opening"]
        /\ cursor' = [cursor EXCEPT ![r] = IF RootDead THEN "none"
                                                      ELSE "pending"]
        /\ inFlight' = inFlight + 1
        /\ drained' = FALSE
     \/ /\ ~root
        /\ req' = [req EXCEPT ![r] = "refused"]
        /\ UNCHANGED <<cursor, inFlight, drained>>
  /\ UNCHANGED <<leaked, early, faults, callerVars>>

(* Mutant: the event is set but the waiter is not woken. *)
ReleaseSilently(r, outcome) ==
  /\ req' = [req EXCEPT ![r] = outcome]
  /\ cursor' = [cursor EXCEPT ![r] = "none"]
  /\ inFlight' = inFlight - 1
  /\ early' = early \ {r}
  /\ drained' = (drained \/ inFlight = 1)
  /\ UNCHANGED <<leaked, root, lock, op, at, threads>>

(* `_in_flight -= 1`, and at zero `_drained.set()`, which wakes the task   *)
(* that waits for it.  Event.wait does not look at the event again when    *)
(* the woken task runs.                                                    *)
Release(r, outcome) ==
  /\ req' = [req EXCEPT ![r] = outcome]
  /\ cursor' = [cursor EXCEPT ![r] = "none"]
  /\ inFlight' = inFlight - 1
  /\ early' = early \ {r}
  /\ drained' = (drained \/ inFlight = 1)
  /\ at' = [c \in Callers |-> IF inFlight = 1 /\ at[c] = "drainWait"
                               THEN "woken" ELSE at[c]]
  /\ UNCHANGED <<leaked, root, lock, op, threads>>

(* `root.cursor()` comes back.  The root may have been closed since the    *)
(* worker thread forked the cursor: then the cursor is dead on arrival.    *)
CursorOpened(r) ==
  /\ req[r] = "opening"
  /\ cursor[r] # "none"
  /\ cursor' = [cursor EXCEPT ![r] = IF @ = "pending" THEN "live" ELSE @]
  /\ req' = [req EXCEPT ![r] = "using"]
  /\ UNCHANGED <<inFlight, drained, leaked, early, faults, callerVars>>

(* The thread comes too late, `root.cursor()` raises on the closed root,   *)
(* and the except branch gives the slot back.                              *)
CursorRaised(r) ==
  /\ req[r] = "opening"
  /\ cursor[r] \in {"none", "dead"}
  /\ Release(r, "raised")
  /\ UNCHANGED faults

(* The body of the `async with` ends, normally or not. *)
BodyEnds(r) ==
  /\ req[r] = "using"
  /\ req' = [req EXCEPT ![r] = "closing"]
  /\ UNCHANGED <<cursor, inFlight, drained, leaked, early, faults, callerVars>>

(* `cursor_conn.close` is done: the slot goes back. *)
CursorClosed(r) ==
  /\ req[r] = "closing"
  /\ Release(r, "released")
  /\ UNCHANGED faults

Fault ==
  /\ faults < MaxFaults
  /\ faults' = faults + 1

(* Mutant: no except branch gives the slot back when `root.cursor` raises. *)
OpenFailsKeeping(r) ==
  /\ req[r] = "opening"
  /\ Fault
  /\ req' = [req EXCEPT ![r] = "raised"]
  /\ cursor' = [cursor EXCEPT ![r] = "none"]
  /\ early' = early \ {r}
  /\ UNCHANGED <<inFlight, drained, leaked, callerVars>>

(* Cancelled, or an exception of its own, at the await of `root.cursor`.   *)
OpenFails(r) ==
  /\ req[r] = "opening"
  /\ Fault
  /\ Release(r, "raised")

(* The same at the await of `cursor_conn.close`: the lines that give the   *)
(* slot back come after it in the same finally, and are skipped.           *)
CloseFails(r) ==
  /\ req[r] = "closing"
  /\ Fault
  /\ req' = [req EXCEPT ![r] = "raised"]
  /\ cursor' = [cursor EXCEPT ![r] = "none"]
  /\ early' = early \ {r}
  /\ leaked' = leaked + 1
  /\ UNCHANGED <<inFlight, drained, callerVars>>

(* Cancelled while it queues for the semaphore. *)
AcquireCancelled(r) ==
  /\ req[r] = "semWait"
  /\ Fault
  /\ req' = [req EXCEPT ![r] = "raised"]
  /\ UNCHANGED <<cursor, inFlight, drained, leaked, early, callerVars>>

-----------------------------------------------------------------------------
(* `close`, `reopen` and `released_for_subprocess`.                        *)

(* A caller starts one of them and queues for the lifecycle lock. *)
Call(c, o) ==
  /\ at[c] = "out"
  /\ at' = [at EXCEPT ![c] = "lockWait"]
  /\ op' = [op EXCEPT ![c] = o]
  /\ UNCHANGED <<root, lock, threads, faults, reqVars>>

(* The `async with self._lifecycle_lock` ends. *)
Unlock(c) ==
  /\ lock' = NoOne
  /\ at' = [at EXCEPT ![c] = "out"]

(* Mutant: the root is closed without waiting for the drain. *)
LockAndClose(c) ==
  /\ at[c] = "lockWait"
  /\ lock = NoOne
  /\ op[c] \in {"close", "bracket"}
  /\ root
  /\ lock' = c
  /\ at' = [at EXCEPT ![c] = "closing"]
  /\ early' = {r \in InFlight : cursor[r] \notin {"doomed", "dead"}}
  /\ UNCHANGED <<root, op, threads, req, cursor, inFlight, drained, leaked, faults>>

(* The lock is granted to a close or a bracket that finds a root: it waits *)
(* for the drain, or, nothing being in flight, hands the root to a thread  *)
(* to be closed at once.                                                   *)
LockAndDrain(c) ==
  /\ at[c] = "lockWait"
  /\ lock = NoOne
  /\ op[c] \in {"close", "bracket"}
  /\ root
  /\ lock' = c
  /\ at' = [at EXCEPT ![c] = IF drained THEN "closing" ELSE "drainWait"]
  /\ early' = {r \in InFlight : cursor[r] \notin {"doomed", "dead"}}
  /\ UNCHANGED <<root, op, threads, req, cursor, inFlight, drained, leaked, faults>>

(* The lock is granted and there is nothing to close: close returns, the   *)
(* bracket enters its body with the root already released.                 *)
LockNoRoot(c) ==
  /\ at[c] = "lockWait"
  /\ lock = NoOne
  /\ ~root
  /\ \/ op[c] = "close" /\ Unlock(c)
     \/ op[c] = "bracket" /\ lock' = c /\ at' = [at EXCEPT ![c] = "body"]
  /\ UNCHANGED <<root, op, threads, faults, reqVars>>

(* Mutant: reopen does not take the lifecycle lock. *)
ReopenUnlocked(c) ==
  /\ at[c] = "lockWait"
  /\ op[c] = "reopen"
  /\ ~root
  /\ root' = TRUE
  /\ at' = [at EXCEPT ![c] = "out"]
  /\ UNCHANGED <<lock, op, threads, faults, reqVars>>

(* The lock is granted to a reopen, which returns if there is a root. *)
LockReopen(c) ==
  /\ at[c] = "lockWait"
  /\ lock = NoOne
  /\ op[c] = "reopen"
  /\ \/ root /\ Unlock(c)
     \/ ~root /\ lock' = c /\ at' = [at EXCEPT ![c] = "reopening"]
  /\ UNCHANGED <<root, op, threads, faults, reqVars>>

(* The woken task resumes and hands the root to a thread to be closed.     *)
(* The acquirers admitted since it was woken do not make it wait again.    *)
DrainResumes(c) ==
  /\ at[c] = "woken"
  /\ at' = [at EXCEPT ![c] = "closing"]
  /\ UNCHANGED <<root, lock, op, threads, faults, reqVars>>

(* A cursor of the current root that works. *)
Working == {r \in Requests : cursor[r] \in {"pending", "live"}}

(* Closing the root kills every cursor forked from it. *)
KillCursors ==
  cursor' = [r \in Requests |-> IF r \in Working THEN "dead" ELSE cursor[r]]

(* The root is given up, but it is not closed yet. *)
DoomCursors ==
  cursor' = [r \in Requests |-> IF r \in Working THEN "doomed" ELSE cursor[r]]

(* The worker thread runs `root.close()`. *)
RootCloses(c) ==
  /\ at[c] = "closing"
  /\ at' = [at EXCEPT ![c] = "closed"]
  /\ KillCursors
  /\ UNCHANGED <<root, lock, op, threads, faults, req, inFlight, drained, leaked,
                 early>>

(* The task resumes: `self._root = None`; a close returns, a bracket       *)
(* enters its body.                                                        *)
RootClosed(c) ==
  /\ at[c] = "closed"
  /\ root' = FALSE
  /\ \/ op[c] = "bracket" /\ at' = [at EXCEPT ![c] = "body"] /\ UNCHANGED lock
     \/ op[c] # "bracket" /\ Unlock(c)
  /\ UNCHANGED <<op, threads, faults, reqVars>>

(* Mutant: the bracket has no finally. *)
BracketBodyLeaks(c) ==
  /\ at[c] = "body"
  /\ Unlock(c)
  /\ UNCHANGED <<root, op, threads, faults, reqVars>>

(* The body of the bracket ends, normally, by exception or by cancellation *)
(* and its finally hands `duckdb.connect` to a thread.                     *)
BracketBodyEnds(c) ==
  /\ at[c] = "body"
  /\ at' = [at EXCEPT ![c] = "reopening"]
  /\ UNCHANGED <<root, lock, op, threads, faults, reqVars>>

(* Mutant: what `duckdb.connect` returns is not kept. *)
RootDropped(c) ==
  /\ at[c] = "reopening"
  /\ Unlock(c)
  /\ UNCHANGED <<root, op, threads, faults, reqVars>>

(* `self._root` is set to the new connection and the bracket, or the       *)
(* reopen, is over.                                                        *)
RootReopened(c) ==
  /\ at[c] = "reopening"
  /\ root' = TRUE
  /\ Unlock(c)
  /\ UNCHANGED <<op, threads, faults, reqVars>>

(* Cancelled in the lock queue or in the drain wait: nothing has happened. *)
WaitCancelled(c) ==
  /\ at[c] \in {"lockWait", "drainWait", "woken"}
  /\ Fault
  /\ at' = [at EXCEPT ![c] = "out"]
  /\ lock' = IF lock = c THEN NoOne ELSE lock
  /\ UNCHANGED <<root, op, threads, reqVars>>

(* Cancelled, or an exception, at the await of `root.close`: the inner     *)
(* finally clears the root, and the exception leaves the lock block before *)
(* the try whose finally reopens.  An exception comes when the thread is   *)
(* done; a cancellation does not stop the thread, so the old root may be   *)
(* open long after the lock was given up.                                  *)
RootCloseFails(c) ==
  /\ at[c] \in {"closing", "closed"}
  /\ Fault
  /\ root' = FALSE
  /\ Unlock(c)
  /\ \/ KillCursors /\ UNCHANGED closers
     \/ at[c] = "closing" /\ DoomCursors /\ closers' = closers + 1
  /\ UNCHANGED <<openers, op, req, inFlight, drained, leaked, early>>

(* Cancelled, or an exception, at the await of `duckdb.connect`.  Here too *)
(* the thread of a cancelled await goes on: it opens the file for a        *)
(* connection that nobody keeps.                                           *)
ReopenFails(c) ==
  /\ at[c] = "reopening"
  /\ Fault
  /\ Unlock(c)
  /\ openers' \in {openers, openers + 1}
  /\ UNCHANGED <<root, op, closers, reqVars>>

-----------------------------------------------------------------------------
(* Worker threads nobody waits for any more.                               *)

(* One has closed its root, and the cursors that root had left.  (Or it    *)
(* never ran: the cancellation reached the executor's queue in time, and   *)
(* the root was dropped without hurting a cursor.)                         *)
StrayCloses ==
  /\ closers > 0
  /\ closers' = closers - 1
  /\ \E D \in SUBSET {r \in Requests : cursor[r] = "doomed"} :
       cursor' = [r \in Requests |-> IF r \in D THEN "dead" ELSE cursor[r]]
  /\ UNCHANGED <<root, lock, op, at, openers, faults, req, inFlight, drained,
                 leaked, early>>

(* One has opened the file; its connection is dropped as it comes. *)
StrayConnects ==
  /\ openers > 0
  /\ openers' = openers - 1
  /\ UNCHANGED <<root, lock, op, at, closers, faults, reqVars>>

-----------------------------------------------------------------------------
RequestStep(r) ==
  \/ Enter(r) \/ CursorOpened(r) \/ CursorRaised(r) \/ BodyEnds(r)
  \/ CursorClosed(r)

CallerStep(c) ==
  \/ LockAndDrain(c) \/ LockNoRoot(c) \/ LockReopen(c) \/ DrainResumes(c)
  \/ RootCloses(c) \/ RootClosed(c) \/ BracketBodyEnds(c) \/ RootReopened(c)

Faulty ==
  \/ \E r \in Requests : OpenFails(r) \/ CloseFails(r) \/ AcquireCancelled(r)
  \/ \E c \in Callers : WaitCancelled(c) \/ RootCloseFails(c) \/ ReopenFails(c)

Next ==
  \/ \E r \in Requests : Acquire(r) \/ RequestStep(r)
  \/ \E c \in Callers : (\E o \in Ops : Call(c, o)) \/ CallerStep(c)
  \/ StrayCloses \/ StrayConnects
  \/ Faulty

Spec == Init /\ [][Next]_vars

(* The loop runs every ready task, a worker thread finishes, a query and a *)
(* subprocess end.  asyncio.Semaphore and asyncio.Lock serve their waiters *)
(* first come first served, which the model leaves open and strong         *)
(* fairness gives back.  No request has to come, no fault has to happen.   *)
LockGranted(c) == LockAndDrain(c) \/ LockNoRoot(c) \/ LockReopen(c)

Fairness ==
  /\ \A r \in Requests :
       /\ SF_vars(Enter(r))
       /\ WF_vars(CursorOpened(r) \/ CursorRaised(r) \/ BodyEnds(r)
                    \/ CursorClosed(r))
  /\ \A c \in Callers :
       /\ SF_vars(LockGranted(c))
       /\ WF_vars(DrainResumes(c) \/ RootCloses(c) \/ RootClosed(c)
                    \/ BracketBodyEnds(c) \/ RootReopened(c))
  /\ WF_vars(StrayCloses) /\ WF_vars(StrayConnects)

FairSpec == Spec /\ Fairness

-----------------------------------------------------------------------------
TypeOK ==
  /\ root \in BOOLEAN
  /\ inFlight \in Nat
  /\ drained \in BOOLEAN
  /\ lock \in Callers \cup {NoOne}
  /\ req \in [Requests -> ReqState]
  /\ cursor \in [Requests -> CursorState]
  /\ op \in [Callers -> Ops]
  /\ at \in [Callers -> CallerState]
  /\ {closers, openers} \subseteq Nat
  /\ faults \in 0 .. MaxFaults
  /\ leaked \in Nat
  /\ early \subseteq Requests

(* The count the drain relies on is exact whatever task was interrupted    *)
(* where: it is the number of acquirers between the bump and the give-back *)
(* plus the slots lost to an interrupted cursor close, and the event is    *)
(* set exactly when it is zero.                                            *)
InFlightExact ==
  /\ inFlight = Cardinality(InFlight) + leaked
  /\ drained <=> (inFlight = 0)

(* This process has the file open, or a thread of it is about to. *)
FileInUse ==
  \/ root \/ closers > 0 \/ openers > 0
  \/ \E r \in Requests : cursor[r] \in {"pending", "live", "doomed"}

(* What an interrupted close or connect left behind: a thread that is      *)
(* still at it, or a cursor of the root that was given up.                 *)
LeftOver ==
  \/ closers > 0 \/ openers > 0
  \/ \E r \in Requests : cursor[r] = "doomed"

(* A bracket whose body runs (the ETL subprocess, a snapshot copy) owns    *)
(* the lock, the root is gone, and this process has nothing of the file    *)
(* open: but for what an interruption of an earlier close or connect left  *)
(* behind, of which the lock and the cleared root say nothing.             *)
BracketOwnsFile ==
  \A c \in Callers : at[c] = "body" =>
    /\ lock = c
    /\ ~root
    /\ FileInUse => LeftOver /\ faults > 0

(* What the drain does guarantee: a cursor that was in use when a close or *)
(* a bracket began to drain is never closed under its user.  (A cursor of  *)
(* a root that was given up before is not for this drain to protect.)      *)
DrainProtectsEarly == \A r \in early : cursor[r] # "dead"

(* Whoever waits, waits for something that is still to happen.  The lock a *)
(* caller queues for is held by a caller inside its block, and the drain a *)
(* caller waits for lacks a slot: one an acquirer holds and will give back *)
(* or one that was lost to an interrupted cursor close.  So the event is   *)
(* never set, nor the lock left behind, with the waiter still asleep.      *)
NoLostWakeup ==
  \A c \in Callers :
    /\ at[c] = "lockWait" /\ lock # NoOne => lock # c /\ at[lock] \in Locked
    /\ at[c] = "drainWait" => lock = c /\ (InFlight # {} \/ leaked > 0)

(* A dashboard is told that a refresh is in progress only while one is:    *)
(* acquire raises PoolReleasedDuringRefresh only when some bracket is in   *)
(* its body or is reopening the root.                                      *)
RefusalMeansRefresh ==
  [][\A r \in Requests :
       (req[r] # "refused" /\ req'[r] = "refused")
         => \E c \in Callers : at[c] \in {"body", "reopening"}]_vars

(* The pool implements the file lease. *)
Lease == INSTANCE FileLease WITH
  lease <- IF lock # NoOne /\ at[lock] = "body" THEN lock
           ELSE IF root THEN Pool ELSE Nobody,
  admitted <- InFlight

LeaseSpec == Lease!Spec

(* An acquire that was begun ends: served, refused or failed. *)
RequestsEnd ==
  \A r \in Requests : req[r] = "semWait" ~> req[r] \in Ended

(* The pool does not stay released: whenever the root is gone, it is       *)
(* opened again.                                                           *)
ReleaseIsTemporary == ~root ~> root

(* One instant with nothing in flight is enough to wake the caller that    *)
(* drains, though other acquirers come right after it: under a load that   *)
(* pauses again and again, no drain lasts for ever.                        *)
DrainEndsWhenLoadPauses ==
  []<>(inFlight = 0) =>
    \A c \in Callers : at[c] = "drainWait" ~> at[c] # "drainWait"

(* What the docstring of the class says of the drain: a dashboard that is  *)
(* mid-fetch does not have its cursor closed under it.                     *)
NoRugPull == \A r \in Requests : ~(req[r] = "using" /\ cursor[r] = "dead")

(* What the docstring of `released_for_subprocess` says: it always reopens.*)
(* When nobody is in the lifecycle lock, the pool has a root.              *)
AlwaysReopens == lock = NoOne => root
=============================================================================
