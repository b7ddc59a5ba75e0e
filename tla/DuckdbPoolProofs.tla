-------------------------- MODULE DuckdbPoolProofs --------------------------
(***************************************************************************)
(* Safety of the pool for every number of acquirers and callers, every     *)
(* semaphore size and every number of faults.                              *)
(***************************************************************************)
EXTENDS DuckdbPool, FiniteSetTheorems, TLAPS

(* The lifecycle lock is owned by the caller inside its block, no other. *)
LockInv == \A c \in Callers : at[c] \in Locked <=> lock = c

(* What the caller inside the block may rely on about the root. *)
RootInv ==
  \A c \in Callers :
    /\ at[c] \in {"drainWait", "woken", "closing", "closed"} => root
    /\ at[c] \in {"body", "reopening"} => ~root

(* A cursor that works implies a root that is open, and belongs to an      *)
(* acquirer that holds a slot.                                             *)
CursorInv ==
  \A r \in Requests :
    /\ cursor[r] \in {"pending", "live"} =>
         root /\ \A c \in Callers : at[c] # "closed"
    /\ cursor[r] # "none" => r \in InFlight

(* The slots counted when the drain began are all given back once the      *)
(* drain is over, and until then none of them has lost its cursor.         *)
EarlyInv ==
  /\ early \subseteq InFlight
  /\ \A r \in early : cursor[r] \notin {"doomed", "dead"}
  /\ \A c \in Callers : at[c] \in {"woken", "closing", "closed"} => early = {}

(* Only an interruption leaves a thread, or a cursor of a root given up.   *)
StrayInv == LeftOver => faults > 0

IInv ==
  /\ TypeOK
  /\ InFlightExact
  /\ LockInv
  /\ RootInv
  /\ CursorInv
  /\ EarlyInv
  /\ StrayInv

-----------------------------------------------------------------------------
(* How a step of one acquirer changes the set of slots that are held.      *)

LEMMA InFlightFinite == IsFiniteSet(InFlight)
BY FS_Subset, FiniteAssumption DEF InFlight

LEMMA InFlightSubset == InFlight \subseteq Requests
BY DEF InFlight

LEMMA SlotTaken ==
  ASSUME TypeOK, NEW r \in Requests, r \notin InFlight,
         req' = [req EXCEPT ![r] = "opening"]
  PROVE  /\ InFlight' = InFlight \cup {r}
         /\ Cardinality(InFlight') = Cardinality(InFlight) + 1
<1>1. InFlight' = InFlight \cup {r}
  BY DEF InFlight, TypeOK, Holding
<1>2. QED
  BY <1>1, InFlightFinite, FS_AddElement

LEMMA SlotGiven ==
  ASSUME TypeOK, NEW r \in InFlight, NEW s, s \notin Holding,
         req' = [req EXCEPT ![r] = s]
  PROVE  /\ InFlight' = InFlight \ {r}
         /\ Cardinality(InFlight') = Cardinality(InFlight) - 1
<1>1. InFlight' = InFlight \ {r}
  BY DEF InFlight, TypeOK
<1>2. QED
  BY <1>1, InFlightFinite, FS_RemoveElement

LEMMA SlotKept ==
  ASSUME TypeOK, NEW r \in Requests, NEW s, s \in Holding <=> r \in InFlight,
         req' = [req EXCEPT ![r] = s]
  PROVE  InFlight' = InFlight
BY DEF InFlight, TypeOK

LEMMA CountIsNat == Cardinality(InFlight) \in Nat
BY InFlightFinite, FS_CardinalityType

(* The last slot: the acquirer that gives it back is the only one in       *)
(* flight.                                                                 *)
LEMMA LastSlot ==
  ASSUME InFlightExact, leaked \in Nat, NEW r \in InFlight, inFlight = 1
  PROVE  InFlight = {r} /\ leaked = 0
<1>1. Cardinality(InFlight) # 0
  BY InFlightFinite, FS_EmptySet
<1>2. Cardinality(InFlight) = 1 /\ leaked = 0
  BY <1>1, CountIsNat DEF InFlightExact
<1>3. QED
  BY <1>2, InFlightFinite, FS_Singleton

LEMMA NoSlot ==
  ASSUME InFlightExact, leaked \in Nat, drained
  PROVE  InFlight = {}
<1>1. Cardinality(InFlight) = 0
  BY CountIsNat DEF InFlightExact
<1>2. QED
  BY <1>1, InFlightFinite, FS_EmptySet

-----------------------------------------------------------------------------
(* The initial states.                                                     *)

LEMMA InitIInv == Init => IInv
<1> SUFFICES ASSUME Init PROVE IInv
  OBVIOUS
<1>1. InFlight = {}
  BY DEF Init, InFlight, Holding
<1>2. TypeOK
  BY FaultsAssumption DEF Init, TypeOK, ReqState, Ended, CallerState, CursorState
<1>3. InFlightExact
  BY <1>1, FS_EmptySet DEF Init, InFlightExact
<1>4. LockInv
  BY CallersAssumption DEF Init, LockInv, Locked
<1>5. RootInv /\ CursorInv /\ EarlyInv /\ StrayInv
  BY <1>1 DEF Init, RootInv, CursorInv, EarlyInv, StrayInv, LeftOver
<1>6. QED
  BY <1>2, <1>3, <1>4, <1>5 DEF IInv

-----------------------------------------------------------------------------
(* Steps of acquirers that leave the callers where they are: their         *)
(* bookkeeping only has to be followed through `req` and `cursor`.         *)

LEMMA FaultType ==
  ASSUME TypeOK, Fault \/ UNCHANGED faults
  PROVE  faults' \in 0 .. MaxFaults
BY FaultsAssumption DEF TypeOK, Fault

(* A step that leaves no new thread and no new cursor of a lost root.      *)
LEMMA NothingLeft ==
  ASSUME TypeOK, StrayInv, Fault \/ UNCHANGED faults, UNCHANGED threads,
         \A r \in Requests : cursor'[r] = "doomed" => cursor[r] = "doomed"
  PROVE  StrayInv'
BY FaultsAssumption DEF TypeOK, StrayInv, LeftOver, Fault, threads

LEMMA WaitingStep ==
  ASSUME IInv, NEW r \in Requests, NEW s \in Ended \cup {"semWait"},
         r \notin InFlight, req' = [req EXCEPT ![r] = s],
         Fault \/ UNCHANGED faults,
         UNCHANGED <<cursor, inFlight, drained, leaked, early, callerVars>>
  PROVE  IInv'
<1>1. s \in ReqState /\ s \notin Holding
  BY DEF ReqState, Holding, Ended
<1>2. InFlight' = InFlight
  BY <1>1, SlotKept DEF IInv
<1>3. TypeOK'
  BY <1>1, FaultType DEF IInv, TypeOK, callerVars
<1>4. StrayInv'
  BY NothingLeft DEF IInv, callerVars, threads
<1>5. QED
  BY <1>2, <1>3, <1>4 DEF IInv, InFlightExact, LockInv, RootInv, CursorInv,
     EarlyInv, callerVars

LEMMA EnterStep ==
  ASSUME IInv, NEW r \in Requests, Enter(r)
  PROVE  IInv'
<1>0. r \notin InFlight
  BY DEF Enter, InFlight, Holding
<1>1. CASE ~root
  <2>1. req' = [req EXCEPT ![r] = "refused"]
    BY <1>1 DEF Enter
  <2>2. UNCHANGED <<cursor, inFlight, drained, leaked, early, callerVars, faults>>
    BY <1>1 DEF Enter
  <2>3. QED
    BY <1>0, <2>1, <2>2, WaitingStep DEF Ended
<1>2. CASE root
  <2>1. /\ req' = [req EXCEPT ![r] = "opening"]
        /\ cursor' = [cursor EXCEPT ![r] = IF RootDead THEN "none" ELSE "pending"]
        /\ inFlight' = inFlight + 1
        /\ drained' = FALSE
        /\ UNCHANGED <<leaked, early, faults, root, lock, op, at, closers, openers>>
    BY <1>2 DEF Enter, callerVars
  <2>2. /\ InFlight' = InFlight \cup {r}
        /\ Cardinality(InFlight') = Cardinality(InFlight) + 1
    BY <1>0, <2>1, SlotTaken DEF IInv
  <2>3. TypeOK'
    <3>1. cursor' \in [Requests -> CursorState]
      <4> DEFINE new == IF RootDead THEN "none" ELSE "pending"
      <4>1. new \in CursorState
        BY DEF CursorState
      <4> HIDE DEF new
      <4>2. cursor' = [cursor EXCEPT ![r] = new]
        BY <2>1 DEF new
      <4>3. QED
        BY <4>1, <4>2 DEF IInv, TypeOK
    <3>2. inFlight' \in Nat
      BY <2>1 DEF IInv, TypeOK
    <3>3. req' \in [Requests -> ReqState]
      BY <2>1 DEF IInv, TypeOK, ReqState, Holding
    <3>4. drained' \in BOOLEAN
      BY <2>1, Zenon
    <3>5. QED
      BY <2>1, <3>1, <3>2, <3>3, <3>4 DEF IInv, TypeOK
  <2>4. InFlightExact'
    BY <2>1, <2>2, CountIsNat DEF IInv, TypeOK, InFlightExact
  <2>5. LockInv' /\ RootInv'
    BY <2>1 DEF IInv, LockInv, RootInv
  <2>6. CursorInv'
    BY <2>1, <2>2, <1>2 DEF IInv, TypeOK, CursorInv, RootDead
  <2>7. EarlyInv'
    <3>1. r \notin early
      BY <1>0 DEF IInv, EarlyInv
    <3>2. QED
      BY <3>1, <2>1, <2>2 DEF IInv, TypeOK, EarlyInv
  <2>8. StrayInv'
    BY <2>1, NothingLeft DEF IInv, TypeOK, threads
  <2>9. QED
    BY <2>3, <2>4, <2>5, <2>6, <2>7, <2>8 DEF IInv
<1>3. QED
  BY <1>1, <1>2

LEMMA ReleaseStep ==
  ASSUME IInv, NEW r \in InFlight, NEW s \in Ended, Release(r, s),
         Fault \/ UNCHANGED faults
  PROVE  IInv'
<1>0. s \in ReqState /\ s \notin Holding /\ r \in Requests
  BY DEF ReqState, Holding, Ended, InFlight
<1>1. /\ req' = [req EXCEPT ![r] = s]
      /\ cursor' = [cursor EXCEPT ![r] = "none"]
      /\ inFlight' = inFlight - 1
      /\ early' = early \ {r}
      /\ drained' = (drained \/ inFlight = 1)
      /\ at' = [c \in Callers |-> IF inFlight = 1 /\ at[c] = "drainWait"
                                  THEN "woken" ELSE at[c]]
      /\ UNCHANGED <<leaked, root, lock, op, closers, openers>>
  BY DEF Release, threads
<1>2. /\ InFlight' = InFlight \ {r}
      /\ Cardinality(InFlight') = Cardinality(InFlight) - 1
  BY <1>0, <1>1, SlotGiven DEF IInv
<1>3. Cardinality(InFlight) # 0
  BY InFlightFinite, FS_EmptySet
<1>4. InFlightExact' /\ inFlight' \in Nat
  <2>1. /\ inFlight' \in Nat
        /\ inFlight' = Cardinality(InFlight') + leaked'
        /\ inFlight # 0
        /\ inFlight' = 0 <=> inFlight = 1
    BY <1>1, <1>2, <1>3, CountIsNat DEF IInv, TypeOK, InFlightExact
  <2>2. ~drained
    BY <2>1 DEF IInv, InFlightExact
  <2>3. drained' <=> inFlight = 1
    BY <1>1, <2>2, Zenon
  <2>4. QED
    BY <2>1, <2>3 DEF InFlightExact
<1>5. TypeOK'
  BY <1>0, <1>1, <1>4, FaultType DEF IInv, TypeOK, CallerState, CursorState
<1>6. LockInv' /\ RootInv'
  BY <1>1 DEF IInv, TypeOK, LockInv, RootInv, Locked
<1>7. CursorInv'
  BY <1>0, <1>1, <1>2 DEF IInv, TypeOK, CursorInv
<1>8. EarlyInv'
  <2>1. inFlight = 1 => early' = {}
    BY <1>1, LastSlot DEF IInv, TypeOK, EarlyInv
  <2>2. QED
    BY <2>1, <1>0, <1>1, <1>2 DEF IInv, TypeOK, EarlyInv
<1>9. StrayInv'
  BY <1>0, <1>1, NothingLeft DEF IInv, TypeOK, threads
<1>10. QED
  BY <1>4, <1>5, <1>6, <1>7, <1>8, <1>9 DEF IInv

LEMMA CursorStep ==
  ASSUME IInv, NEW r \in Requests,
         CursorOpened(r) \/ BodyEnds(r) \/ CloseFails(r)
  PROVE  IInv'
<1>1. CASE CursorOpened(r)
  <2>0. r \in InFlight
    BY <1>1 DEF CursorOpened, InFlight, Holding
  <2>1. InFlight' = InFlight
    BY <1>1, <2>0, SlotKept DEF IInv, CursorOpened, Holding
  <2>2. TypeOK'
    BY <1>1 DEF IInv, TypeOK, CursorOpened, ReqState, Holding, callerVars,
       CursorState
  <2>3. InFlightExact' /\ LockInv' /\ RootInv'
    BY <1>1, <2>1 DEF IInv, CursorOpened, InFlightExact, LockInv, RootInv,
       callerVars
  <2>4. CursorInv' /\ EarlyInv'
    BY <1>1, <2>0, <2>1 DEF IInv, TypeOK, CursorOpened, CursorInv, EarlyInv,
       callerVars
  <2>5. StrayInv'
    BY <1>1, NothingLeft DEF IInv, TypeOK, CursorOpened, callerVars, threads
  <2>6. QED
    BY <2>2, <2>3, <2>4, <2>5 DEF IInv
<1>2. CASE BodyEnds(r)
  <2>0. r \in InFlight
    BY <1>2 DEF BodyEnds, InFlight, Holding
  <2>1. InFlight' = InFlight
    BY <1>2, <2>0, SlotKept DEF IInv, BodyEnds, Holding
  <2>2. TypeOK'
    BY <1>2 DEF IInv, TypeOK, BodyEnds, ReqState, Holding, callerVars
  <2>3. StrayInv'
    BY <1>2, NothingLeft DEF IInv, BodyEnds, callerVars, threads
  <2>4. QED
    BY <1>2, <2>1, <2>2, <2>3 DEF IInv, BodyEnds, InFlightExact, LockInv,
       RootInv, CursorInv, EarlyInv, callerVars
<1>3. CASE CloseFails(r)
  <2>0. r \in InFlight
    BY <1>3 DEF CloseFails, InFlight, Holding
  <2>1. /\ InFlight' = InFlight \ {r}
        /\ Cardinality(InFlight') = Cardinality(InFlight) - 1
    BY <1>3, <2>0, SlotGiven DEF IInv, CloseFails, Holding
  <2>2. TypeOK'
    BY <1>3, FaultType DEF IInv, TypeOK, CloseFails, ReqState, Ended, callerVars,
       CursorState
  <2>3. InFlightExact'
    BY <1>3, <2>1, CountIsNat DEF IInv, TypeOK, CloseFails, InFlightExact
  <2>4. LockInv' /\ RootInv'
    BY <1>3 DEF IInv, CloseFails, LockInv, RootInv, callerVars
  <2>5. CursorInv' /\ EarlyInv'
    BY <1>3, <2>0, <2>1 DEF IInv, TypeOK, CloseFails, CursorInv, EarlyInv,
       callerVars
  <2>6. StrayInv'
    BY <1>3, NothingLeft DEF IInv, TypeOK, CloseFails, callerVars, threads
  <2>7. QED
    BY <2>2, <2>3, <2>4, <2>5, <2>6 DEF IInv
<1>4. QED
  BY <1>1, <1>2, <1>3

-----------------------------------------------------------------------------
(* Steps of callers.                                                       *)

(* Those that leave the acquirers alone: a caller that is outside the      *)
(* block, or whose move keeps what the parts of the invariant say of it.   *)
LEMMA CallerMoves ==
  ASSUME IInv, NEW c \in Callers, NEW s \in CallerState,
         at' = [at EXCEPT ![c] = s],
         UNCHANGED <<reqVars, threads>>, Fault \/ UNCHANGED faults,
         op' \in [Callers -> Ops], root' \in BOOLEAN,
         lock' \in {lock, c, NoOne},
         s \in Locked <=> lock' = c,
         lock' # lock => lock = NoOne \/ lock = c,
         root' # root => lock = c,
         s \in {"drainWait", "woken", "closing", "closed"} => root',
         s \in {"body", "reopening"} => ~root',
         s = "closed" \/ ~root' => \A r \in Requests : cursor[r] \notin {"pending", "live"},
         s \in {"woken", "closing", "closed"} => early = {}
  PROVE  IInv'
<1>1. InFlight' = InFlight
  BY DEF InFlight, reqVars
<1>2. TypeOK'
  BY FaultType DEF IInv, TypeOK, reqVars, threads
<1>3. InFlightExact'
  BY <1>1 DEF IInv, InFlightExact, reqVars
<1>4. LockInv'
  BY CallersAssumption DEF IInv, TypeOK, LockInv
<1>5. RootInv'
  <2> SUFFICES ASSUME NEW d \in Callers, d # c
               PROVE  /\ at[d] \in {"drainWait", "woken", "closing", "closed"} => root'
                      /\ at[d] \in {"body", "reopening"} => ~root'
    BY DEF IInv, TypeOK, RootInv
  <2>1. CASE at[d] \in Locked
    <3>1. lock = d
      BY <2>1 DEF IInv, LockInv
    <3>2. root' = root
      BY <3>1
    <3>3. QED
      BY <3>2 DEF IInv, RootInv
  <2>2. CASE at[d] \notin Locked
    BY <2>2 DEF Locked
  <2>3. QED
    BY <2>1, <2>2
<1>6. CursorInv'
  BY <1>1 DEF IInv, TypeOK, CursorInv, reqVars
<1>7. EarlyInv'
  BY <1>1 DEF IInv, TypeOK, EarlyInv, reqVars
<1>8. StrayInv'
  BY NothingLeft DEF IInv, reqVars
<1>9. QED
  BY <1>2, <1>3, <1>4, <1>5, <1>6, <1>7, <1>8 DEF IInv

(* The lock is granted: outside the block nobody owned it. *)
LEMMA LockStep ==
  ASSUME IInv, NEW c \in Callers, LockAndDrain(c)
  PROVE  IInv'
<1>1. /\ at[c] = "lockWait" /\ lock = NoOne /\ root
      /\ lock' = c
      /\ at' = [at EXCEPT ![c] = IF drained THEN "closing" ELSE "drainWait"]
      /\ early' = {r \in InFlight : cursor[r] \notin {"doomed", "dead"}}
      /\ UNCHANGED <<root, op, closers, openers, req, cursor, inFlight, drained,
                     leaked, faults>>
  BY DEF LockAndDrain, threads
<1>2. InFlight' = InFlight /\ InFlight \subseteq Requests
  BY <1>1 DEF InFlight
<1>3. at' \in [Callers -> CallerState]
  BY <1>1 DEF IInv, TypeOK, CallerState
<1>4. TypeOK'
  BY <1>1, <1>2, <1>3 DEF IInv, TypeOK
<1>5. InFlightExact'
  BY <1>1, <1>2 DEF IInv, InFlightExact
<1>6. LockInv'
  BY <1>1, CallersAssumption DEF IInv, TypeOK, LockInv, Locked
<1>7. RootInv'
  BY <1>1 DEF IInv, TypeOK, RootInv
<1>8. CursorInv'
  BY <1>1, <1>2 DEF IInv, TypeOK, CursorInv
<1>9. EarlyInv'
  <2>1. drained => early' = {}
    BY <1>1, NoSlot DEF IInv, TypeOK
  <2>2. ASSUME NEW d \in Callers, at'[d] \in {"woken", "closing", "closed"}
        PROVE  early' = {}
    <3>1. CASE d = c
      BY <3>1, <2>1, <2>2, <1>1 DEF IInv, TypeOK
    <3>2. CASE d # c
      BY <3>2, <2>2, <1>1, CallersAssumption DEF IInv, TypeOK, LockInv, Locked
    <3>3. QED
      BY <3>1, <3>2
  <2>3. QED
    BY <2>2, <1>1, <1>2 DEF IInv, EarlyInv
<1>10. StrayInv'
  BY <1>1 DEF IInv, StrayInv, LeftOver
<1>11. QED
  BY <1>4, <1>5, <1>6, <1>7, <1>8, <1>9, <1>10 DEF IInv

(* `root.close()`: every working cursor dies, and none was there when the  *)
(* drain began.                                                            *)
LEMMA KillStep ==
  ASSUME IInv, NEW c \in Callers, RootCloses(c) \/ RootCloseFails(c)
  PROVE  IInv'
<1>1. /\ at[c] \in {"closing", "closed"} /\ lock = c /\ root
      /\ UNCHANGED <<openers, op, req, inFlight, drained, leaked, early>>
      /\ Fault \/ UNCHANGED faults
  BY DEF RootCloses, RootCloseFails, IInv, LockInv, RootInv, Locked, threads
<1>2. \/ at' = [at EXCEPT ![c] = "closed"] /\ UNCHANGED <<root, lock>>
      \/ at' = [at EXCEPT ![c] = "out"] /\ root' = FALSE /\ lock' = NoOne
  BY DEF RootCloses, RootCloseFails, Unlock
<1>3. PICK end \in {"dead", "doomed"} :
        /\ cursor' = [r \in Requests |-> IF r \in Working THEN end
                                                         ELSE cursor[r]]
        /\ end = "dead" => closers' = closers
        /\ end = "doomed" => closers' = closers + 1 /\ Fault
  BY DEF RootCloses, RootCloseFails, KillCursors, DoomCursors, threads
<1>4. InFlight' = InFlight
  BY <1>1 DEF InFlight
<1>5. TypeOK'
  <2>1. at' \in [Callers -> CallerState] /\ lock' \in Callers \cup {NoOne}
    BY <1>2 DEF IInv, TypeOK, CallerState
  <2>2. root' \in BOOLEAN
    BY <1>2, Zenon DEF IInv, TypeOK
  <2>3. cursor' \in [Requests -> CursorState]
    BY <1>3 DEF IInv, TypeOK, CursorState
  <2>4. {closers', openers'} \subseteq Nat
    BY <1>1, <1>3 DEF IInv, TypeOK
  <2>5. QED
    BY <2>1, <2>2, <2>3, <2>4, <1>1, FaultType DEF IInv, TypeOK
<1>6. InFlightExact'
  BY <1>1, <1>4 DEF IInv, InFlightExact
<1>7. LockInv'
  BY <1>1, <1>2, CallersAssumption DEF IInv, TypeOK, LockInv, Locked
<1>8. \A d \in Callers : d # c => at'[d] = at[d] /\ at[d] \notin Locked
  BY <1>1, <1>2 DEF IInv, TypeOK, LockInv
<1>9. RootInv'
  BY <1>1, <1>2, <1>8 DEF IInv, TypeOK, RootInv, Locked
<1>10. CursorInv'
  BY <1>3, <1>4 DEF IInv, TypeOK, CursorInv, Working
<1>11. EarlyInv'
  BY <1>1, <1>2, <1>4, <1>8 DEF IInv, TypeOK, EarlyInv, Locked
<1>12. StrayInv'
  <2>1. CASE end = "dead"
    BY <2>1, <1>1, <1>3, NothingLeft DEF IInv, TypeOK, threads
  <2>2. CASE end = "doomed"
    BY <2>2, <1>3 DEF IInv, TypeOK, Fault, StrayInv
  <2>3. QED
    BY <2>1, <2>2
<1>13. QED
  BY <1>5, <1>6, <1>7, <1>9, <1>10, <1>11, <1>12 DEF IInv

(* A thread nobody waits for ends. *)
LEMMA StrayStep ==
  ASSUME IInv, StrayCloses \/ StrayConnects
  PROVE  IInv'
<1>1. /\ UNCHANGED <<root, lock, op, at, faults, req, inFlight, drained, leaked,
                     early>>
      /\ closers' \in Nat /\ closers' =< closers
      /\ openers' \in Nat /\ openers' =< openers
  BY DEF StrayCloses, StrayConnects, IInv, TypeOK, reqVars
<1>2. \A r \in Requests : \/ cursor'[r] = cursor[r]
                          \/ cursor[r] = "doomed" /\ cursor'[r] = "dead"
  BY DEF StrayCloses, StrayConnects, IInv, TypeOK, reqVars
<1>3. cursor' \in [Requests -> CursorState]
  BY DEF StrayCloses, StrayConnects, IInv, TypeOK, reqVars, CursorState
<1>4. InFlight' = InFlight
  BY <1>1 DEF InFlight
<1>5. TypeOK' /\ InFlightExact' /\ LockInv' /\ RootInv'
  BY <1>1, <1>3, <1>4 DEF IInv, TypeOK, InFlightExact, LockInv, RootInv
<1>6. CursorInv' /\ EarlyInv'
  BY <1>1, <1>2, <1>4, InFlightSubset DEF IInv, CursorInv, EarlyInv
<1>7. StrayInv'
  BY <1>1, <1>2 DEF IInv, TypeOK, StrayInv, LeftOver
<1>8. QED
  BY <1>5, <1>6, <1>7 DEF IInv

LEMMA OtherCallerStep ==
  ASSUME IInv, NEW c \in Callers,
         \/ \E o \in Ops : Call(c, o)
         \/ LockNoRoot(c) \/ LockReopen(c) \/ DrainResumes(c) \/ RootClosed(c)
         \/ BracketBodyEnds(c) \/ RootReopened(c)
         \/ WaitCancelled(c)
  PROVE  IInv'
<1> USE DEF IInv, TypeOK, LockInv, RootInv, CursorInv, EarlyInv, Locked,
        CallerState, Unlock, threads
<1>0. c # NoOne
  BY CallersAssumption
<1>1. CASE \E o \in Ops : Call(c, o)
  <2>1. PICK o \in Ops : Call(c, o)
    BY <1>1
  <2>2. at' = [at EXCEPT ![c] = "lockWait"] /\ op' \in [Callers -> Ops]
    BY <2>1 DEF Call
  <2>3. QED
    BY <1>0, <2>1, <2>2, CallerMoves DEF Call
<1>2. CASE LockNoRoot(c)
  <2>1. CASE op[c] = "close" /\ Unlock(c)
    BY <1>0, <1>2, <2>1, CallerMoves DEF LockNoRoot
  <2>2. CASE op[c] = "bracket" /\ lock' = c /\ at' = [at EXCEPT ![c] = "body"]
    BY <1>0, <1>2, <2>2, CallerMoves DEF LockNoRoot
  <2>3. QED
    BY <1>2, <2>1, <2>2 DEF LockNoRoot
<1>3. CASE LockReopen(c)
  <2>1. CASE root /\ Unlock(c)
    BY <1>0, <1>3, <2>1, CallerMoves DEF LockReopen
  <2>2. CASE ~root /\ lock' = c /\ at' = [at EXCEPT ![c] = "reopening"]
    BY <1>0, <1>3, <2>2, CallerMoves DEF LockReopen
  <2>3. QED
    BY <1>3, <2>1, <2>2 DEF LockReopen
<1>4. CASE DrainResumes(c)
  BY <1>0, <1>4, CallerMoves DEF DrainResumes
<1>5. CASE RootClosed(c)
  <2>1. CASE op[c] = "bracket" /\ at' = [at EXCEPT ![c] = "body"] /\ UNCHANGED lock
    BY <1>0, <1>5, <2>1, CallerMoves DEF RootClosed
  <2>2. CASE op[c] # "bracket" /\ Unlock(c)
    BY <1>0, <1>5, <2>2, CallerMoves DEF RootClosed
  <2>3. QED
    BY <1>5, <2>1, <2>2 DEF RootClosed
<1>6. CASE BracketBodyEnds(c)
  BY <1>0, <1>6, CallerMoves DEF BracketBodyEnds
<1>7. CASE RootReopened(c)
  BY <1>0, <1>7, CallerMoves DEF RootReopened
<1>8. CASE WaitCancelled(c)
  <2>1. CASE lock = c
    BY <1>0, <1>8, <2>1, CallerMoves DEF WaitCancelled
  <2>2. CASE lock # c
    BY <1>0, <1>8, <2>2, CallerMoves DEF WaitCancelled
  <2>3. QED
    BY <2>1, <2>2
<1>9. QED
  BY <1>1, <1>2, <1>3, <1>4, <1>5, <1>6, <1>7, <1>8

(* Its connection may still come: the thread is not stopped. *)
LEMMA ReopenFailsStep ==
  ASSUME IInv, NEW c \in Callers, ReopenFails(c)
  PROVE  IInv'
<1>1. /\ at[c] = "reopening" /\ Fault /\ lock' = NoOne
      /\ at' = [at EXCEPT ![c] = "out"]
      /\ UNCHANGED <<root, op, closers, req, cursor, inFlight, drained, leaked,
                     early>>
  BY DEF ReopenFails, Unlock, reqVars
<1>2. openers' \in Nat
  BY DEF ReopenFails, IInv, TypeOK
<1>3. InFlight' = InFlight
  BY <1>1 DEF InFlight
<1>4. TypeOK'
  BY <1>1, <1>2, FaultType DEF IInv, TypeOK, CallerState
<1>5. InFlightExact'
  BY <1>1, <1>3 DEF IInv, InFlightExact
<1>6. LockInv' /\ RootInv'
  BY <1>1, CallersAssumption DEF IInv, TypeOK, LockInv, RootInv, Locked
<1>7. CursorInv' /\ EarlyInv'
  BY <1>1, <1>3 DEF IInv, TypeOK, CursorInv, EarlyInv
<1>8. StrayInv'
  BY <1>1 DEF IInv, TypeOK, StrayInv, Fault
<1>9. QED
  BY <1>4, <1>5, <1>6, <1>7, <1>8 DEF IInv

-----------------------------------------------------------------------------
(* Every step preserves the invariant. *)
LEMMA NextIInv == IInv /\ [Next]_vars => IInv'
<1> SUFFICES ASSUME IInv, [Next]_vars PROVE IInv'
  OBVIOUS
<1>1. ASSUME NEW r \in Requests, Acquire(r) \/ AcquireCancelled(r)
      PROVE  IInv'
  BY <1>1, WaitingStep
     DEF Acquire, AcquireCancelled, InFlight, Ended, Holding, Fault
<1>2. ASSUME NEW r \in Requests,
             CursorRaised(r) \/ CursorClosed(r) \/ OpenFails(r)
      PROVE  IInv'
  <2>1. r \in InFlight
    BY <1>2 DEF CursorRaised, CursorClosed, OpenFails, InFlight, Holding
  <2>2. QED
    BY <1>2, <2>1, ReleaseStep
       DEF CursorRaised, CursorClosed, OpenFails, Ended
<1>3. ASSUME NEW r \in Requests, RequestStep(r) PROVE IInv'
  BY <1>2, <1>3, EnterStep, CursorStep DEF RequestStep
<1>4. ASSUME NEW c \in Callers, CallerStep(c) PROVE IInv'
  BY <1>4, LockStep, KillStep, OtherCallerStep DEF CallerStep
<1>5. CASE Faulty
  BY <1>1, <1>2, <1>5, CursorStep, KillStep, OtherCallerStep, ReopenFailsStep
     DEF Faulty
<1>6. CASE UNCHANGED vars
  BY <1>6 DEF vars, IInv, TypeOK, InFlightExact, InFlight, LockInv, RootInv,
     CursorInv, EarlyInv, StrayInv, LeftOver
<1>7. QED
  BY <1>1, <1>3, <1>4, <1>5, <1>6, StrayStep, OtherCallerStep DEF Next

LEMMA AlwaysIInv == Spec => []IInv
BY InitIInv, NextIInv, PTL DEF Spec

-----------------------------------------------------------------------------
(* Every variable of the pool keeps its type; in particular `_in_flight`   *)
(* never goes below zero.                                                  *)
THEOREM PoolTypes == Spec => []TypeOK
<1>1. IInv => TypeOK
  BY DEF IInv
<1>2. QED
  BY <1>1, AlwaysIInv, PTL

(* `_in_flight` is the number of acquirers that hold a slot plus the slots *)
(* lost to an interrupted cursor close, and the drain event mirrors it.    *)
THEOREM CountIsExact == Spec => []InFlightExact
<1>1. IInv => InFlightExact
  BY DEF IInv
<1>2. QED
  BY <1>1, AlwaysIInv, PTL

(* While the body of a bracket runs, its process has the file closed, but  *)
(* for what an interrupted close or connect left behind.                   *)
THEOREM BodyOwnsFile == Spec => []BracketOwnsFile
<1>1. IInv => BracketOwnsFile
  <2> SUFFICES ASSUME IInv, NEW c \in Callers, at[c] = "body"
               PROVE  lock = c /\ ~root /\ (FileInUse => LeftOver /\ faults > 0)
    BY DEF BracketOwnsFile
  <2>1. lock = c /\ ~root
    BY DEF IInv, LockInv, RootInv, Locked
  <2>2. FileInUse => LeftOver
    BY <2>1 DEF IInv, CursorInv, FileInUse, LeftOver
  <2>3. QED
    BY <2>1, <2>2 DEF IInv, StrayInv
<1>2. QED
  BY <1>1, AlwaysIInv, PTL

(* Where nothing is interrupted it has the file for itself, without any    *)
(* exception.                                                              *)
THEOREM BodyAloneUndisturbed ==
  ASSUME MaxFaults = 0
  PROVE  Spec => [](\A c \in Callers : at[c] = "body" => ~FileInUse)
<1>1. IInv /\ BracketOwnsFile => \A c \in Callers : at[c] = "body" => ~FileInUse
  BY DEF IInv, TypeOK, BracketOwnsFile
<1>2. QED
  BY <1>1, AlwaysIInv, BodyOwnsFile, PTL

(* A cursor in use when a drain began is not closed under its user.        *)
THEOREM EarlyProtected == Spec => []DrainProtectsEarly
<1>1. IInv => DrainProtectsEarly
  BY DEF IInv, EarlyInv, DrainProtectsEarly
<1>2. QED
  BY <1>1, AlwaysIInv, PTL

-----------------------------------------------------------------------------
(* With brackets only and no faults, a root that is gone means that a      *)
(* bracket is in its body or reopening: nothing strands the pool.          *)

ReleasedInv ==
  /\ IInv
  /\ \A c \in Callers : op[c] = "bracket"
  /\ ~root => \E c \in Callers : at[c] \in {"body", "reopening"}

LEMMA ReleasedNext ==
  ASSUME Ops = {"bracket"}, MaxFaults = 0
  PROVE  ReleasedInv /\ [Next]_vars => ReleasedInv'
<1> SUFFICES ASSUME ReleasedInv, [Next]_vars PROVE ReleasedInv'
  OBVIOUS
<1>1. IInv'
  BY NextIInv DEF ReleasedInv
<1>2. \A c \in Callers : op'[c] = "bracket"
  BY <1>1 DEF IInv, TypeOK
<1>3. ~Faulty
  BY DEF Faulty, OpenFails, CloseFails, AcquireCancelled, WaitCancelled,
     RootCloseFails, ReopenFails, Fault, ReleasedInv, IInv, TypeOK
<1>4. ASSUME NEW r \in Requests, Acquire(r) \/ RequestStep(r)
      PROVE  /\ root' = root
             /\ \A c \in Callers : at[c] \in {"body", "reopening"} => at'[c] = at[c]
  BY <1>4 DEF Acquire, RequestStep, Enter, CursorOpened, CursorRaised, BodyEnds,
     CursorClosed, Release, callerVars
<1>5. ASSUME NEW c \in Callers, \E o \in Ops : Call(c, o)
      PROVE  root' = root /\ \A d \in Callers :
               at[d] \in {"body", "reopening"} => at'[d] = at[d]
  BY <1>5 DEF Call, ReleasedInv, IInv, TypeOK
<1>6. ASSUME NEW c \in Callers, CallerStep(c)
      PROVE  ~root' => \E d \in Callers : at'[d] \in {"body", "reopening"}
  <2> USE DEF ReleasedInv, IInv, TypeOK
  <2>1. CASE LockAndDrain(c)
    BY <2>1 DEF LockAndDrain
  <2>2. CASE LockNoRoot(c)
    BY <2>2 DEF LockNoRoot
  <2>3. CASE LockReopen(c)
    BY <2>3 DEF LockReopen
  <2>4. CASE DrainResumes(c)
    BY <2>4 DEF DrainResumes, RootInv
  <2>5. CASE RootCloses(c)
    BY <2>5 DEF RootCloses, RootInv
  <2>6. CASE RootClosed(c)
    BY <2>6 DEF RootClosed
  <2>7. CASE BracketBodyEnds(c)
    BY <2>7 DEF BracketBodyEnds
  <2>8. CASE RootReopened(c)
    BY <2>8 DEF RootReopened
  <2>9. QED
    BY <1>6, <2>1, <2>2, <2>3, <2>4, <2>5, <2>6, <2>7, <2>8 DEF CallerStep
<1>7. CASE UNCHANGED vars
  BY <1>1, <1>2, <1>7 DEF ReleasedInv, vars
<1>8. ASSUME StrayCloses \/ StrayConnects PROVE UNCHANGED <<root, at>>
  BY <1>8 DEF StrayCloses, StrayConnects
<1>9. ~root' => \E c \in Callers : at'[c] \in {"body", "reopening"}
  BY <1>3, <1>4, <1>5, <1>6, <1>7, <1>8 DEF Next, ReleasedInv, vars
<1>10. QED
  BY <1>1, <1>2, <1>9 DEF ReleasedInv

(* Where nothing is interrupted, an acquire is refused only while a        *)
(* bracket really keeps the pool released.                                 *)
THEOREM RefusedOnlyDuringRefresh ==
  ASSUME Ops = {"bracket"}, MaxFaults = 0
  PROVE  Spec => RefusalMeansRefresh
<1>1. Init => ReleasedInv
  BY InitIInv DEF Init, ReleasedInv
<1>2. ReleasedInv /\ [Next]_vars => ReleasedInv'
  BY ReleasedNext
<1>3. ReleasedInv /\ [Next]_vars =>
        [\A r \in Requests : (req[r] # "refused" /\ req'[r] = "refused")
           => \E c \in Callers : at[c] \in {"body", "reopening"}]_vars
  <2> SUFFICES ASSUME ReleasedInv, Next, NEW r \in Requests,
                      req[r] # "refused", req'[r] = "refused"
               PROVE  ~root
    BY DEF ReleasedInv
  <2> USE DEF ReleasedInv, IInv, TypeOK
  <2>1. ASSUME NEW q \in Requests, Acquire(q) \/ RequestStep(q)
        PROVE  ~root
    <3>1. ~(Acquire(q) \/ CursorOpened(q) \/ CursorRaised(q) \/ BodyEnds(q)
            \/ CursorClosed(q))
      BY DEF Acquire, CursorOpened, CursorRaised, BodyEnds, CursorClosed, Release
    <3>2. Enter(q)
      BY <2>1, <3>1 DEF RequestStep
    <3>3. QED
      BY <3>2 DEF Enter
  <2>2. ASSUME NEW c \in Callers, (\E o \in Ops : Call(c, o)) \/ CallerStep(c)
        PROVE  FALSE
    BY <2>2 DEF Call, CallerStep, LockAndDrain, LockNoRoot, LockReopen,
       DrainResumes, RootCloses, RootClosed, BracketBodyEnds, RootReopened, reqVars
  <2>3. ~Faulty
    BY DEF Faulty, OpenFails, CloseFails, AcquireCancelled, WaitCancelled,
       RootCloseFails, ReopenFails, Fault
  <2>4. ~(StrayCloses \/ StrayConnects)
    BY DEF StrayCloses, StrayConnects, reqVars
  <2>5. QED
    BY <2>1, <2>2, <2>3, <2>4 DEF Next
<1>4. QED
  BY <1>1, <1>2, <1>3, PTL DEF Spec, RefusalMeansRefresh

(* Where nothing is interrupted the docstring of `released_for_subprocess` *)
(* is right: whenever the lifecycle lock is free, the pool has a root.     *)
THEOREM ReopensUndisturbed ==
  ASSUME Ops = {"bracket"}, MaxFaults = 0
  PROVE  Spec => []AlwaysReopens
<1>1. Init => ReleasedInv
  BY InitIInv DEF Init, ReleasedInv
<1>2. ReleasedInv /\ [Next]_vars => ReleasedInv'
  BY ReleasedNext
<1>3. ReleasedInv => AlwaysReopens
  <2> SUFFICES ASSUME ReleasedInv, ~root
               PROVE  lock # NoOne
    BY DEF AlwaysReopens
  <2>1. PICK c \in Callers : at[c] \in {"body", "reopening"}
    BY DEF ReleasedInv
  <2>2. lock = c
    BY <2>1 DEF ReleasedInv, IInv, LockInv, Locked
  <2>3. QED
    BY <2>2, CallersAssumption
<1>4. QED
  BY <1>1, <1>2, <1>3, PTL DEF Spec

(* And whatever is interrupted, there are two awaits that can strand the   *)
(* pool, those of `root.close` and of `duckdb.connect`; otherwise only a   *)
(* close, which means to, gives the lock up without a root.                *)
StrandedBy(c) ==
  RootCloseFails(c) \/ ReopenFails(c) \/ (RootClosed(c) /\ op[c] # "bracket")

THEOREM StrandedOnlyThere ==
  Spec => [][AlwaysReopens => AlwaysReopens' \/ \E c \in Callers : StrandedBy(c)]_vars
<1>1. IInv /\ [Next]_vars =>
        [AlwaysReopens => AlwaysReopens' \/ \E c \in Callers : StrandedBy(c)]_vars
  <2> SUFFICES ASSUME IInv, Next, AlwaysReopens, lock' = NoOne, ~root',
                      ~\E c \in Callers : StrandedBy(c)
               PROVE  FALSE
    BY DEF AlwaysReopens
  <2> USE DEF IInv, TypeOK
  <2>1. ASSUME UNCHANGED <<root, lock>> PROVE FALSE
    BY <2>1 DEF AlwaysReopens
  <2>2. ASSUME NEW r \in Requests,
               \/ Acquire(r) \/ RequestStep(r)
               \/ OpenFails(r) \/ CloseFails(r) \/ AcquireCancelled(r)
        PROVE  FALSE
    BY <2>1, <2>2 DEF Acquire, RequestStep, Enter, CursorOpened, CursorRaised,
       BodyEnds, CursorClosed, OpenFails, CloseFails, AcquireCancelled, Release,
       callerVars
  <2>3. ASSUME NEW c \in Callers, NEW o \in Ops, Call(c, o) PROVE FALSE
    BY <2>1, <2>3 DEF Call
  <2>4. ASSUME NEW c \in Callers, CallerStep(c) PROVE FALSE
    <3>1. CASE LockAndDrain(c) \/ RootReopened(c)
      BY <3>1 DEF LockAndDrain, RootReopened
    <3>2. CASE LockNoRoot(c) \/ LockReopen(c)
      BY <3>2 DEF LockNoRoot, LockReopen, AlwaysReopens
    <3>3. CASE DrainResumes(c) \/ RootCloses(c) \/ BracketBodyEnds(c)
      BY <2>1, <3>3 DEF DrainResumes, RootCloses, BracketBodyEnds
    <3>4. CASE RootClosed(c)
      <4>1. op[c] = "bracket"
        BY <3>4 DEF StrandedBy
      <4>2. lock = c
        BY <3>4 DEF RootClosed, LockInv, Locked
      <4>3. lock' = lock
        BY <3>4, <4>1 DEF RootClosed
      <4>4. QED
        BY <4>2, <4>3, CallersAssumption
    <3>5. QED
      BY <2>4, <3>1, <3>2, <3>3, <3>4 DEF CallerStep
  <2>5. ASSUME NEW c \in Callers, WaitCancelled(c) PROVE FALSE
    <3>1. CASE lock = c
      <4>1. at[c] \in {"drainWait", "woken"}
        BY <2>5, <3>1 DEF WaitCancelled, LockInv, Locked
      <4>2. root
        BY <4>1 DEF RootInv
      <4>3. QED
        BY <2>5, <4>2 DEF WaitCancelled
    <3>2. CASE lock # c
      BY <2>1, <2>5, <3>2 DEF WaitCancelled
    <3>3. QED
      BY <3>1, <3>2
  <2>6. ASSUME NEW c \in Callers, RootCloseFails(c) \/ ReopenFails(c) PROVE FALSE
    BY <2>6 DEF StrandedBy
  <2>7. ~(StrayCloses \/ StrayConnects)
    BY <2>1 DEF StrayCloses, StrayConnects
  <2>8. QED
    BY <2>2, <2>3, <2>4, <2>5, <2>6, <2>7 DEF Next, Faulty
<1>2. QED
  BY <1>1, AlwaysIInv, PTL DEF Spec

-----------------------------------------------------------------------------
(* The pool implements the file lease.                                     *)

leaseOf == IF lock # NoOne /\ at[lock] = "body" THEN lock
           ELSE IF root THEN Pool ELSE Nobody

(* A step of an acquirer hands the lease to nobody. *)
LEMMA LeaseKept ==
  ASSUME IInv, UNCHANGED <<root, lock>>,
         \A c \in Callers : at[c] = "body" <=> at'[c] = "body"
  PROVE  leaseOf' = leaseOf
BY DEF IInv, TypeOK, leaseOf

LEMMA AcquirerStepsLease ==
  ASSUME IInv, IInv', NEW r \in Requests,
         \/ Acquire(r) \/ RequestStep(r)
         \/ OpenFails(r) \/ CloseFails(r) \/ AcquireCancelled(r)
  PROVE  [Lease!Next]_(Lease!leaseVars)
<1> USE DEF Lease!Next, Lease!leaseVars
<1>1. leaseOf' = leaseOf
  <2>1. \A c \in Callers : at[c] = "body" <=> at'[c] = "body"
    BY DEF Acquire, RequestStep, Enter, CursorOpened, CursorRaised, BodyEnds,
       CursorClosed, OpenFails, CloseFails, AcquireCancelled, Release,
       callerVars, IInv, TypeOK
  <2>2. UNCHANGED <<root, lock>>
    BY DEF Acquire, RequestStep, Enter, CursorOpened, CursorRaised, BodyEnds,
       CursorClosed, OpenFails, CloseFails, AcquireCancelled, Release, callerVars
  <2>3. QED
    BY <2>1, <2>2, LeaseKept
<1>2. CASE InFlight' = InFlight
  BY <1>1, <1>2 DEF leaseOf
<1>3. CASE InFlight' = InFlight \ {r}
  BY <1>1, <1>3 DEF leaseOf, Lease!End
<1>4. CASE InFlight' = InFlight \cup {r} /\ r \notin InFlight /\ root
  <2>1. leaseOf = Pool
    BY <1>4 DEF leaseOf, IInv, TypeOK, RootInv
  <2>2. QED
    BY <1>1, <1>4, <2>1 DEF leaseOf, Lease!Admit
<1>5. InFlight' = InFlight \/ InFlight' = InFlight \ {r}
      \/ (InFlight' = InFlight \cup {r} /\ r \notin InFlight /\ root)
  BY DEF Acquire, RequestStep, Enter, CursorOpened, CursorRaised, BodyEnds,
     CursorClosed, OpenFails, CloseFails, AcquireCancelled, Release,
     InFlight, Holding, Ended, IInv, TypeOK
<1>6. QED
  BY <1>2, <1>3, <1>4, <1>5

LEMMA CallerStepsLease ==
  ASSUME IInv, IInv', NEW c \in Callers,
         \/ \E o \in Ops : Call(c, o)
         \/ CallerStep(c)
         \/ WaitCancelled(c) \/ RootCloseFails(c) \/ ReopenFails(c)
  PROVE  [Lease!Next]_(Lease!leaseVars)
<1> USE DEF Lease!Next, Lease!leaseVars, IInv, TypeOK, Unlock
<1>0. InFlight' = InFlight
  BY DEF InFlight, Call, CallerStep, LockAndDrain, LockNoRoot, LockReopen,
     DrainResumes, RootCloses, RootClosed, BracketBodyEnds, RootReopened,
     WaitCancelled, RootCloseFails, ReopenFails, reqVars
<1>1. leaseOf' = leaseOf => UNCHANGED Lease!leaseVars
  BY <1>0 DEF leaseOf
<1>a. c # NoOne /\ at[c] \in Locked => lock = c
  BY CallersAssumption DEF LockInv
<1>2. CASE \/ \E o \in Ops : Call(c, o)
           \/ DrainResumes(c) \/ RootCloses(c)
  <2>1. UNCHANGED <<root, lock>> /\ \A d \in Callers : at[d] = "body" <=> at'[d] = "body"
    BY <1>2 DEF Call, DrainResumes, RootCloses
  <2>2. QED
    BY <2>1, <1>1, LeaseKept
<1>3. CASE LockAndDrain(c)
  <2>1. leaseOf = Pool /\ leaseOf' = Pool
    BY <1>3 DEF LockAndDrain, leaseOf
  <2>2. QED
    BY <2>1, <1>1
<1>4. CASE LockNoRoot(c)
  <2>1. leaseOf = Nobody
    BY <1>4 DEF LockNoRoot, leaseOf
  <2>2. leaseOf' \in {Nobody, c}
    BY <1>4, CallersAssumption DEF LockNoRoot, leaseOf
  <2>3. QED
    BY <2>1, <2>2, <1>0, <1>1 DEF leaseOf, Lease!Take
<1>5. CASE LockReopen(c)
  <2>1. leaseOf' = leaseOf
    BY <1>5, CallersAssumption DEF LockReopen, leaseOf
  <2>2. QED
    BY <2>1, <1>1
<1>6. CASE RootClosed(c)
  <2>1. leaseOf = Pool
    BY <1>6 DEF RootClosed, leaseOf, LockInv, RootInv, Locked
  <2>2. leaseOf' \in {Nobody, c}
    <3>1. lock = c
      BY <1>6 DEF RootClosed, LockInv, Locked
    <3>2. QED
      BY <1>6, <3>1, CallersAssumption DEF RootClosed, leaseOf
  <2>3. QED
    BY <2>1, <2>2, <1>0 DEF leaseOf, Lease!Surrender
<1>7. CASE BracketBodyEnds(c)
  <2>1. lock = c /\ ~root
    BY <1>7 DEF BracketBodyEnds, LockInv, RootInv, Locked
  <2>2. leaseOf = c /\ leaseOf' = Nobody
    BY <1>7, <2>1, CallersAssumption DEF BracketBodyEnds, leaseOf
  <2>3. QED
    BY <2>2, <1>0 DEF leaseOf, Lease!Return
<1>8. CASE RootReopened(c)
  <2>1. lock = c /\ ~root
    BY <1>8 DEF RootReopened, LockInv, RootInv, Locked
  <2>2. leaseOf = Nobody /\ leaseOf' = Pool
    BY <1>8, <2>1 DEF RootReopened, leaseOf
  <2>3. QED
    BY <2>2, <1>0 DEF leaseOf, Lease!Reopen
<1>9. CASE WaitCancelled(c)
  <2>1. leaseOf' = leaseOf
    <3>1. at[c] # "body" /\ root' = root /\ at'[c] = "out"
      BY <1>9 DEF WaitCancelled
    <3>2. CASE lock = c
      BY <1>9, <3>1, <3>2 DEF WaitCancelled, leaseOf
    <3>3. CASE lock # c
      BY <1>9, <3>1, <3>3 DEF WaitCancelled, leaseOf
    <3>4. QED
      BY <3>2, <3>3
  <2>2. QED
    BY <2>1, <1>1
<1>10. CASE RootCloseFails(c)
  <2>1. lock = c /\ root
    BY <1>10 DEF RootCloseFails, LockInv, RootInv, Locked
  <2>2. leaseOf = Pool /\ leaseOf' = Nobody
    BY <1>10, <2>1 DEF RootCloseFails, leaseOf
  <2>3. QED
    BY <2>2, <1>0 DEF leaseOf, Lease!Surrender
<1>11. CASE ReopenFails(c)
  <2>1. lock = c /\ ~root
    BY <1>11 DEF ReopenFails, LockInv, RootInv, Locked
  <2>2. leaseOf = Nobody /\ leaseOf' = Nobody
    BY <1>11, <2>1 DEF ReopenFails, leaseOf
  <2>3. QED
    BY <2>2, <1>1
<1>12. QED
  BY <1>2, <1>3, <1>4, <1>5, <1>6, <1>7, <1>8, <1>9, <1>10, <1>11 DEF CallerStep

(* Every behaviour of the pool, faults included, is a behaviour of the     *)
(* file lease: the file passes from the pool to one bracket and back and   *)
(* acquirers are admitted only while the pool has it.                      *)
THEOREM PoolImplementsLease == Spec => LeaseSpec
<1>1. Init => Lease!Init
  BY DEF Init, Lease!Init, InFlight, Holding
<1>2. IInv /\ [Next]_vars => [Lease!Next]_(Lease!leaseVars)
  <2> SUFFICES ASSUME IInv, [Next]_vars PROVE [Lease!Next]_(Lease!leaseVars)
    OBVIOUS
  <2>1. IInv'
    BY NextIInv
  <2>2. CASE UNCHANGED vars
    BY <2>2 DEF vars, Lease!leaseVars, InFlight
  <2>3. CASE StrayCloses \/ StrayConnects
    BY <2>3 DEF StrayCloses, StrayConnects, Lease!leaseVars, InFlight, reqVars
  <2>4. QED
    BY <2>1, <2>2, <2>3, AcquirerStepsLease, CallerStepsLease DEF Next, Faulty
<1>3. QED
  BY <1>1, <1>2, AlwaysIInv, PTL DEF Spec, LeaseSpec, Lease!Spec

-----------------------------------------------------------------------------
(* Nobody sleeps through its wakeup.  What makes it inductive: a caller    *)
(* that drains is asleep only while the event is clear.                    *)
DrainInv == \A c \in Callers : at[c] = "drainWait" => ~drained

LEMMA InitDrainInv == Init => DrainInv
BY DEF Init, DrainInv

(* A slot that is given back sets the event only when it wakes everybody   *)
(* that waits for it.                                                      *)
LEMMA ReleaseWakes ==
  ASSUME IInv, DrainInv, NEW r, NEW s, Release(r, s)
  PROVE  DrainInv'
<1> SUFFICES ASSUME NEW c \in Callers, at'[c] = "drainWait", drained'
             PROVE  FALSE
  BY DEF DrainInv
<1>1. at[c] = "drainWait" /\ inFlight # 1
  BY DEF Release
<1>2. ~drained
  BY <1>1 DEF DrainInv
<1>3. drained' = (drained \/ inFlight = 1)
  BY DEF Release
<1>4. QED
  BY <1>1, <1>2, <1>3, Zenon

(* No other step of an acquirer sets the event or puts a caller to sleep.  *)
LEMMA AcquirerKeepsDrain ==
  ASSUME IInv, DrainInv, NEW r \in Requests,
         Acquire(r) \/ RequestStep(r) \/ OpenFails(r) \/ CloseFails(r)
           \/ AcquireCancelled(r)
  PROVE  DrainInv'
<1>1. CASE CursorRaised(r) \/ CursorClosed(r) \/ OpenFails(r)
  BY <1>1, ReleaseWakes DEF CursorRaised, CursorClosed, OpenFails
<1>2. CASE Enter(r)
  BY <1>2 DEF Enter, DrainInv, callerVars
<1>3. CASE \/ Acquire(r) \/ CursorOpened(r) \/ BodyEnds(r) \/ CloseFails(r)
           \/ AcquireCancelled(r)
  BY <1>3 DEF Acquire, CursorOpened, BodyEnds, CloseFails, AcquireCancelled,
     DrainInv, callerVars
<1>4. QED
  BY <1>1, <1>2, <1>3 DEF RequestStep

(* A caller goes to sleep only when it finds the event clear.              *)
LEMMA CallerKeepsDrain ==
  ASSUME IInv, DrainInv, NEW c \in Callers,
         \/ \E o \in Ops : Call(c, o)
         \/ CallerStep(c) \/ WaitCancelled(c) \/ RootCloseFails(c)
         \/ ReopenFails(c)
  PROVE  DrainInv'
<1> USE DEF IInv, TypeOK, DrainInv
<1>1. CASE LockAndDrain(c)
  BY <1>1 DEF LockAndDrain
<1>2. CASE \E o \in Ops : Call(c, o)
  BY <1>2 DEF Call, reqVars
<1>3. CASE LockNoRoot(c) \/ LockReopen(c) \/ DrainResumes(c)
  BY <1>3 DEF LockNoRoot, LockReopen, DrainResumes, Unlock, reqVars
<1>4. CASE RootCloses(c) \/ RootClosed(c) \/ RootCloseFails(c)
  BY <1>4 DEF RootCloses, RootClosed, RootCloseFails, Unlock, reqVars
<1>5. CASE \/ BracketBodyEnds(c) \/ RootReopened(c) \/ WaitCancelled(c)
           \/ ReopenFails(c)
  BY <1>5 DEF BracketBodyEnds, RootReopened, WaitCancelled, ReopenFails,
     Unlock, reqVars
<1>6. QED
  BY <1>1, <1>2, <1>3, <1>4, <1>5 DEF CallerStep

LEMMA NextDrainInv == IInv /\ DrainInv /\ [Next]_vars => DrainInv'
<1> SUFFICES ASSUME IInv, DrainInv, [Next]_vars PROVE DrainInv'
  OBVIOUS
<1>1. CASE UNCHANGED vars
  BY <1>1 DEF vars, DrainInv
<1>2. CASE Next
  <2>1. CASE StrayCloses \/ StrayConnects
    BY <2>1 DEF StrayCloses, StrayConnects, DrainInv, reqVars
  <2>2. QED
    BY <1>2, <2>1, AcquirerKeepsDrain, CallerKeepsDrain DEF Next, Faulty
<1>3. QED
  BY <1>1, <1>2

(* Whoever waits, for the lock or for the drain, waits for something that  *)
(* is still to happen: no wakeup is lost.                                  *)
THEOREM NoWakeupIsLost == Spec => []NoLostWakeup
<1>1. IInv /\ DrainInv => NoLostWakeup
  <2> SUFFICES ASSUME IInv, DrainInv, NEW c \in Callers
               PROVE  /\ at[c] = "lockWait" /\ lock # NoOne
                           => lock # c /\ at[lock] \in Locked
                      /\ at[c] = "drainWait"
                           => lock = c /\ (InFlight # {} \/ leaked > 0)
    BY DEF NoLostWakeup
  <2>1. ASSUME at[c] = "lockWait", lock # NoOne
        PROVE  lock # c /\ at[lock] \in Locked
    BY <2>1 DEF IInv, TypeOK, LockInv, Locked
  <2>2. ASSUME at[c] = "drainWait"
        PROVE  lock = c /\ (InFlight # {} \/ leaked > 0)
    <3>1. lock = c
      BY <2>2 DEF IInv, LockInv, Locked
    <3>2. ~drained
      BY <2>2 DEF DrainInv
    <3>3. inFlight # 0
      BY <3>2 DEF IInv, InFlightExact
    <3>4. InFlight = {} => Cardinality(InFlight) = 0
      BY FS_EmptySet
    <3>5. QED
      BY <3>1, <3>3, <3>4 DEF IInv, TypeOK, InFlightExact
  <2>3. QED
    BY <2>1, <2>2
<1>2. QED
  BY <1>1, InitIInv, NextIInv, InitDrainInv, NextDrainInv, PTL DEF Spec
=============================================================================
