------------------------- MODULE DeploySerialProofs -------------------------
(***************************************************************************)
(* What a run of the pipeline leaves in the base tables, for every number  *)
(* of runs, rails and faults, when runs do not overlap.                    *)
(***************************************************************************)
EXTENDS DeployPipelineProofs

(* Behind the wipe, and not on the way out. *)
PostWipe == InBracket \cup {"close1", "enter", "open2", "build", "apply",
                            "overlay", "matviews", "reload"}

(* The run's second connection is open, so no subprocess has the file.     *)
PostReopen == {"build", "apply", "overlay", "matviews", "reload"}

OneRun == \A q, r \in Runs : Active(q) /\ Active(r) => q = r

(* A deploy connection is open exactly where the pipeline uses it, whether *)
(* runs overlap or not.                                                    *)
ConnInv ==
  \A r \in Runs :
    r \in conn <=> pc[r] \in {"wipe", "close1", "unwind"} \cup PostReopen

(* Only `migrate-mark` stamps rows as real, and only the customer's.       *)
RealIsCustomer == \A x \in rows : x.stamp = "real" => x.from = "customer"

RowsAreOwn ==
  \A r \in Runs : pc[r] \in PostWipe =>
    \A x \in rows : \/ x.by = r
                    \/ SyntheticOnly(r) /\ x.stamp = "real"
                    \/ x.from = "hook" /\ x.by \in left

(* Before the generator's rows come in there are none, and the rails it    *)
(* leaves alone are those of all rows there are.                           *)
CoverInv ==
  \A r \in Runs :
    /\ pc[r] \in PostWipe \ {"overlay", "matviews", "reload"} =>
         \A x \in rows : x.from # "gen"
    /\ pc[r] = "apply" /\ ~FullScope(r) => covered[r] = {x.rail : x \in rows}
    /\ pc[r] = "overlay" => FullScope(r)

SerialInv ==
  /\ OneRun
  /\ ConnInv
  /\ RealIsCustomer
  /\ RowsAreOwn
  /\ CoverInv
  /\ NoDoubleCover

-----------------------------------------------------------------------------
(* The pattern of the lemmas below: one step per group of actions.         *)

LEMMA InitSerial == Init => SerialInv
BY DEF Init, SerialInv, OneRun, ConnInv, RealIsCustomer, RowsAreOwn,
   CoverInv, NoDoubleCover, Active, Finished, PostWipe, PostReopen, InBracket,
   CustomerRow

(* A run becomes active by its start only. *)
LEMMA OneRunStep ==
  ASSUME TypeOK, OneRun, Next, ~Overlap
  PROVE  OneRun'
<1> USE DEF Quiet, dataVars, pageVars, runVars, hookVars, HookGone, OneRun,
            Active, Finished,
            TypeOK, Goto
<1>1. ASSUME NEW r \in Runs, NEW k \in Kinds, Start(r, k) PROVE OneRun'
  BY <1>1 DEF Start
<1>2. ASSUME NEW r \in Runs,
             \/ OpenConn(r) \/ Wipe(r) \/ CloseConn(r) \/ EnterBracket(r)
             \/ BuildSql(r) \/ ApplySql(r) \/ ApplyOverlay(r)
             \/ RefreshViews(r) \/ Reload(r) \/ Unwind(r)
      PROVE OneRun'
  BY <1>2 DEF OpenConn, Wipe, CloseConn, EnterBracket, BuildSql,
     ApplySql, ApplyOverlay, RefreshViews, Reload, Unwind
<1>3. ASSUME NEW r \in Runs,
             HookStarts(r) \/ HookTerminated(r) \/ LeaveBracket(r)
      PROVE OneRun'
  BY <1>3 DEF HookStarts, HookTerminated, LeaveBracket
<1>4. ASSUME NEW r \in Runs, NEW ok \in BOOLEAN, HookExits(r, ok) PROVE OneRun'
  BY <1>4 DEF HookExits
<1>5. ASSUME NEW r \in Runs, ReopenPool(r) PROVE OneRun'
  BY <1>5 DEF ReopenPool
<1>6. ASSUME NEW r \in Runs, HookStep(r) PROVE OneRun'
  BY <1>6 DEF HookStep, HookOpens, HookWrites, HookCloses, OrphanExits
<1>7. ASSUME NEW r \in Runs, Faulty(r) PROVE OneRun'
  BY <1>7 DEF Faulty, WorkInterrupted, ConnCancelled, EnterCancelled,
     HookCancelled, HookAbandoned, ReopenCancelled
<1>8. ASSUME NEW p \in Pages, PageStep(p) PROVE OneRun'
  BY <1>8 DEF PageStep, Render, FetchStart, FetchCut, FetchEnd, Poll
<1>9. QED
  BY <1>1, <1>2, <1>3, <1>4, <1>5, <1>6, <1>7, <1>8 DEF Next, RunStep

LEMMA ConnStep ==
  ASSUME TypeOK, ConnInv, Next
  PROVE  ConnInv'
<1> USE DEF Quiet, dataVars, pageVars, runVars, hookVars, HookGone, ConnInv,
            PostReopen, Finished, TypeOK, Goto
<1>1. ASSUME NEW r \in Runs, NEW k \in Kinds, Start(r, k) PROVE ConnInv'
  BY <1>1 DEF Start
<1>2. ASSUME NEW r \in Runs,
             \/ OpenConn(r) \/ Wipe(r) \/ CloseConn(r) \/ EnterBracket(r)
             \/ BuildSql(r) \/ ApplySql(r) \/ ApplyOverlay(r)
             \/ RefreshViews(r) \/ Reload(r) \/ Unwind(r)
      PROVE ConnInv'
  BY <1>2 DEF OpenConn, Wipe, CloseConn, EnterBracket, BuildSql,
     ApplySql, ApplyOverlay, RefreshViews, Reload, Unwind
<1>3. ASSUME NEW r \in Runs,
             HookStarts(r) \/ HookTerminated(r) \/ LeaveBracket(r)
      PROVE ConnInv'
  BY <1>3 DEF HookStarts, HookTerminated, LeaveBracket
<1>4. ASSUME NEW r \in Runs, NEW ok \in BOOLEAN, HookExits(r, ok) PROVE ConnInv'
  BY <1>4 DEF HookExits
<1>5. ASSUME NEW r \in Runs, ReopenPool(r) PROVE ConnInv'
  BY <1>5 DEF ReopenPool, Finished
<1>6. ASSUME NEW r \in Runs, HookStep(r) PROVE ConnInv'
  BY <1>6 DEF HookStep, HookOpens, HookWrites, HookCloses, OrphanExits
<1>7. ASSUME NEW r \in Runs, Faulty(r) PROVE ConnInv'
  BY <1>7 DEF Faulty, WorkInterrupted, ConnCancelled, EnterCancelled,
     HookCancelled, HookAbandoned, ReopenCancelled
<1>8. ASSUME NEW p \in Pages, PageStep(p) PROVE ConnInv'
  BY <1>8 DEF PageStep, Render, FetchStart, FetchCut, FetchEnd, Poll
<1>9. QED
  BY <1>1, <1>2, <1>3, <1>4, <1>5, <1>6, <1>7, <1>8 DEF Next, RunStep

(* What the wipe leaves carries the stamp "real" and was there before.     *)
LEMMA AutoMarkedReal ==
  ASSUME TypeOK, NEW y \in AutoMarked, y.stamp = "real"
  PROVE  y \in rows
<1>1. CASE hook
  BY <1>1 DEF AutoMarked
<1>2. CASE ~hook
  <2>1. PICK x \in rows : y = [x EXCEPT !.stamp = IF @ = "none" THEN "training"
                                                             ELSE @]
    BY <1>2 DEF AutoMarked
  <2>2. x \in Row
    BY DEF TypeOK
  <2>3. y.stamp = IF x.stamp = "none" THEN "training" ELSE x.stamp
    BY <2>1, <2>2 DEF Row
  <2>4. x.stamp = "real"
    BY <2>3
  <2>5. y = x
    BY <2>1, <2>2, <2>4 DEF Row
  <2>6. QED
    BY <2>5
<1>3. QED
  BY <1>1, <1>2

LEMMA WipedReal ==
  ASSUME TypeOK, NEW r \in Runs, NEW y \in Wiped(r)
  PROVE  SyntheticOnly(r) /\ y.stamp = "real" /\ y \in rows
<1>1. SyntheticOnly(r) /\ y \in AutoMarked /\ y.stamp # "training"
  BY DEF Wiped
<1>2. y.stamp # "none"
  <2>1. PICK x \in rows : y = [x EXCEPT !.stamp = IF @ = "none" THEN "training"
                                                             ELSE @]
    BY <1>1 DEF AutoMarked, SyntheticOnly
  <2>2. x \in Row
    BY DEF TypeOK
  <2>3. y.stamp = IF x.stamp = "none" THEN "training" ELSE x.stamp
    BY <2>1, <2>2 DEF Row
  <2>4. QED
    BY <2>3
<1>3. y \in Row
  BY WipedType
<1>4. y.stamp = "real"
  BY <1>1, <1>2, <1>3 DEF Row, Stamp
<1>5. QED
  BY <1>1, <1>4, AutoMarkedReal

LEMMA RowsOfFields ==
  ASSUME NEW r, NEW rails, NEW from, NEW stamp,
         NEW x \in RowsOf(r, rails, from, stamp)
  PROVE  x.rail \in rails /\ x.from = from /\ x.by = r /\ x.stamp = stamp
BY DEF RowsOf

LEMMA GeneratedFields ==
  ASSUME NEW r \in Runs, NEW x \in Generated(r)
  PROVE  /\ x.rail \notin covered[r]
         /\ x.from = "gen" /\ x.by = r /\ x.stamp = "training"
BY RowsOfFields DEF Generated

LEMMA OverlaidFields ==
  ASSUME NEW r \in Runs, NEW gone, NEW x \in Overlaid(r, gone)
  PROVE  x \in rows \/ (x.from = "gap" /\ x.by = r /\ x.stamp = "training")
BY RowsOfFields DEF Overlaid

LEMMA RealStep ==
  ASSUME TypeOK, RealIsCustomer, Next
  PROVE  RealIsCustomer'
<1> USE DEF RealIsCustomer
<1>1. ASSUME NEW r \in Runs, Wipe(r) PROVE RealIsCustomer'
  BY <1>1, WipedReal DEF Wipe
<1>2. ASSUME NEW r \in Runs, HookWrites(r) PROVE RealIsCustomer'
  BY <1>2, RowsOfFields DEF HookWrites
<1>3. ASSUME NEW r \in Runs, ApplySql(r) PROVE RealIsCustomer'
  BY <1>3, GeneratedFields DEF ApplySql
<1>4. ASSUME NEW r \in Runs, ApplyOverlay(r) PROVE RealIsCustomer'
  BY <1>4, OverlaidFields DEF ApplyOverlay
<1>5. ASSUME NEW r \in Runs, WorkInterrupted(r) PROVE RealIsCustomer'
  <2>1. Effect(r)
    BY <1>5 DEF WorkInterrupted
  <2>2. CASE rows' = rows
    BY <2>2
  <2>3. CASE rows' = AutoMarked \/ rows' = Wiped(r)
    BY <2>3, AutoMarkedReal, WipedReal
  <2>4. ASSUME NEW part \in SUBSET Generated(r), rows' = rows \cup part
        PROVE  RealIsCustomer'
    BY <2>4, GeneratedFields
  <2>5. ASSUME NEW gone \in SUBSET Rails, rows' = Overlaid(r, gone)
        PROVE  RealIsCustomer'
    BY <2>5, OverlaidFields
  <2>6. QED
    BY <2>1, <2>2, <2>3, <2>4, <2>5 DEF Effect
<1>6. QED
  BY <1>1, <1>2, <1>3, <1>4, <1>5, RowsKept

(* A run that is behind the wipe was so before, or wiped just now.         *)
LEMMA PostWipeFrom ==
  ASSUME TypeOK, OutInv, Next, NEW r \in Runs, pc'[r] \in PostWipe
  PROVE  /\ pc[r] \in PostWipe \/ Wipe(r)
         /\ kind'[r] = kind[r] /\ hook' = hook
<1> DEFINE Goal == /\ pc[r] \in PostWipe \/ Wipe(r)
                   /\ kind'[r] = kind[r] /\ hook' = hook
<1> USE DEF Quiet, dataVars, pageVars, runVars, hookVars, HookGone, PostWipe,
            InBracket, TypeOK,
            Goto, Finished
<1>1. ASSUME NEW q \in Runs, NEW k \in Kinds, Start(q, k) PROVE Goal
  BY <1>1 DEF Start
<1>2. ASSUME NEW q \in Runs,
             \/ OpenConn(q) \/ CloseConn(q) \/ EnterBracket(q)
             \/ BuildSql(q) \/ ApplySql(q) \/ ApplyOverlay(q)
             \/ RefreshViews(q) \/ Reload(q) \/ Unwind(q)
      PROVE Goal
  BY <1>2 DEF OpenConn, CloseConn, EnterBracket, BuildSql,
     ApplySql, ApplyOverlay, RefreshViews, Reload, Unwind
<1>3. ASSUME NEW q \in Runs, Wipe(q) PROVE Goal
  <2>1. kind' = kind /\ hook' = hook
    BY <1>3 DEF Wipe
  <2>2. q # r => pc'[r] = pc[r]
    BY <1>3 DEF Wipe
  <2>3. QED
    BY <1>3, <2>1, <2>2
<1>4. ASSUME NEW q \in Runs,
             HookStarts(q) \/ HookTerminated(q) \/ LeaveBracket(q)
      PROVE Goal
  BY <1>4 DEF HookStarts, HookTerminated, LeaveBracket
<1>5. ASSUME NEW q \in Runs, NEW ok \in BOOLEAN, HookExits(q, ok) PROVE Goal
  BY <1>5 DEF HookExits
<1>6. ASSUME NEW q \in Runs, ReopenPool(q) PROVE Goal
  BY <1>6 DEF ReopenPool
<1>7. ASSUME NEW q \in Runs, HookStep(q) PROVE Goal
  BY <1>7 DEF HookStep, HookOpens, HookWrites, HookCloses, OrphanExits
<1>8. ASSUME NEW q \in Runs, Faulty(q) PROVE Goal
  BY <1>8 DEF Faulty, WorkInterrupted, ConnCancelled, EnterCancelled,
     HookCancelled, HookAbandoned, ReopenCancelled
<1>9. ASSUME NEW p \in Pages, PageStep(p) PROVE Goal
  BY <1>9 DEF PageStep, Render, FetchStart, FetchCut, FetchEnd, Poll
<1>10. QED
  BY <1>1, <1>2, <1>3, <1>4, <1>5, <1>6, <1>7, <1>8, <1>9 DEF Next, RunStep

(* Who changes the rows beside a run that is behind the wipe is that run,  *)
(* or a hook.                                                              *)
LEMMA SoleWriter ==
  ASSUME TypeOK, OneRun,
         NEW r \in Runs, pc'[r] \in PostWipe, NEW q \in Runs,
         Wipe(q) \/ ApplySql(q) \/ ApplyOverlay(q) \/ WorkInterrupted(q)
  PROVE  q = r /\ ~WorkInterrupted(q)
<1> USE DEF PostWipe, InBracket, Active, Finished, TypeOK, OneRun, Goto
<1>1. CASE Wipe(q) \/ ApplySql(q) \/ ApplyOverlay(q)
  <2>1. q = r
    BY <1>1 DEF Wipe, ApplySql, ApplyOverlay
  <2>2. pc'[q] # "unwind"
    BY <1>1 DEF Wipe, ApplySql, ApplyOverlay
  <2>3. QED
    BY <2>1, <2>2 DEF WorkInterrupted
<1>2. CASE WorkInterrupted(q)
  BY <1>2 DEF WorkInterrupted
<1>3. QED
  BY <1>1, <1>2

(* What a hook was once left to do it may do for good. *)
LEMMA LeftStays ==
  ASSUME Next
  PROVE  left \subseteq left'
<1> USE DEF Quiet, dataVars, pageVars, runVars, hookVars, HookGone
<1>1. ASSUME NEW r \in Runs,
             \/ OpenConn(r) \/ Wipe(r) \/ CloseConn(r) \/ EnterBracket(r)
             \/ HookStarts(r) \/ HookTerminated(r) \/ LeaveBracket(r)
             \/ ReopenPool(r) \/ BuildSql(r) \/ ApplySql(r) \/ ApplyOverlay(r)
             \/ RefreshViews(r) \/ Reload(r) \/ Unwind(r) \/ HookStep(r)
             \/ (\E ok \in BOOLEAN : HookExits(r, ok))
             \/ \E k \in Kinds : Start(r, k)
      PROVE left \subseteq left'
  BY <1>1 DEF OpenConn, Wipe, CloseConn, EnterBracket, HookStarts,
     HookTerminated, LeaveBracket, ReopenPool, BuildSql, ApplySql,
     ApplyOverlay, RefreshViews, Reload, Unwind, HookStep, HookOpens,
     HookWrites, HookCloses, OrphanExits, HookExits, Start
<1>2. ASSUME NEW r \in Runs, Faulty(r) PROVE left \subseteq left'
  BY <1>2 DEF Faulty, WorkInterrupted, ConnCancelled, EnterCancelled,
     HookCancelled, HookAbandoned, ReopenCancelled
<1>3. ASSUME NEW p \in Pages, PageStep(p) PROVE left \subseteq left'
  BY <1>3 DEF PageStep, Render, FetchStart, FetchCut, FetchEnd, Poll
<1>4. QED
  BY <1>1, <1>2, <1>3 DEF Next, RunStep

(* The hook that writes beside a run is its own, or was left behind.       *)
LEMMA WriterIsOwn ==
  ASSUME OneRun, FileInv, NEW r \in Runs, Active(r),
         NEW q \in Runs, HookWrites(q)
  PROVE  q = r \/ q \in left
<1>1. q \in left \/ pc[q] \in {"hookRun", "terminating"}
  BY DEF HookWrites, FileInv
<1>2. pc[q] \in {"hookRun", "terminating"} => Active(q)
  BY DEF Active, Finished
<1>3. QED
  BY <1>1, <1>2 DEF OneRun

LEMMA RowsAreOwnStep ==
  ASSUME TypeOK, OutInv, FileInv, OneRun, RowsAreOwn, Next
  PROVE  RowsAreOwn'
<1> SUFFICES ASSUME NEW r \in Runs, pc'[r] \in PostWipe, NEW x \in rows'
             PROVE  \/ x.by = r
                    \/ SyntheticOnly(r)' /\ x.stamp = "real"
                    \/ x.from = "hook" /\ x.by \in left'
  BY DEF RowsAreOwn
<1>1. /\ pc[r] \in PostWipe \/ Wipe(r)
      /\ SyntheticOnly(r)' <=> SyntheticOnly(r)
  BY PostWipeFrom DEF SyntheticOnly
<1>2. CASE Wipe(r)
  BY <1>1, <1>2, WipedReal DEF Wipe
<1>3. CASE pc[r] \in PostWipe /\ x \in rows
  BY <1>1, <1>3, LeftStays DEF RowsAreOwn
<1>4. ASSUME NEW q \in Runs, HookWrites(q)
      PROVE  \/ x.by = r
             \/ SyntheticOnly(r)' /\ x.stamp = "real"
             \/ x.from = "hook" /\ x.by \in left'
  <2>1. pc' = pc
    BY <1>4 DEF HookWrites, runVars
  <2>2. x \in rows \/ (x.by = q /\ x.from = "hook")
    BY <1>4, RowsOfFields DEF HookWrites
  <2>3. pc[r] \in PostWipe
    BY <2>1
  <2>4. Active(r)
    BY <2>3 DEF Active, PostWipe, InBracket, Finished
  <2>5. q = r \/ q \in left'
    BY <1>4, <2>4, WriterIsOwn, LeftStays
  <2>6. QED
    BY <1>3, <2>2, <2>3, <2>5
<1>5. CASE ApplySql(r)
  BY <1>1, <1>3, <1>5, GeneratedFields DEF ApplySql, Wipe
<1>6. CASE ApplyOverlay(r)
  BY <1>1, <1>3, <1>6, OverlaidFields DEF ApplyOverlay, Wipe
<1>7. CASE rows' = rows
  BY <1>1, <1>2, <1>3, <1>7
<1>8. QED
  BY <1>2, <1>4, <1>5, <1>6, <1>7, SoleWriter, RowsKept

-----------------------------------------------------------------------------
(* How the generator's rows come in.                                       *)

PreApply == PostWipe \ {"overlay", "matviews", "reload"}

(* Where a run comes from when it is at one of the later steps.            *)
LEMMA StageFrom ==
  ASSUME TypeOK, OutInv, Next, NEW r \in Runs
  PROVE  /\ pc'[r] \in PreApply => pc[r] \in PreApply \/ Wipe(r)
         /\ pc'[r] = "apply" =>
              \/ pc[r] = "apply" /\ covered'[r] = covered[r]
              \/ BuildSql(r)
         /\ pc'[r] = "overlay" => pc[r] = "overlay" \/ ApplySql(r)
         /\ pc'[r] \in {"matviews", "reload"} =>
              pc[r] \in {"matviews", "reload"} \/ ApplySql(r) \/ ApplyOverlay(r)
<1> DEFINE Goal ==
      /\ pc'[r] \in PreApply => pc[r] \in PreApply \/ Wipe(r)
      /\ pc'[r] = "apply" =>
           \/ pc[r] = "apply" /\ covered'[r] = covered[r]
           \/ BuildSql(r)
      /\ pc'[r] = "overlay" => pc[r] = "overlay" \/ ApplySql(r)
      /\ pc'[r] \in {"matviews", "reload"} =>
           pc[r] \in {"matviews", "reload"} \/ ApplySql(r) \/ ApplyOverlay(r)
<1>1. ASSUME pc'[r] = pc[r], covered'[r] = covered[r] PROVE Goal
  BY <1>1
<1> USE DEF Quiet, dataVars, pageVars, runVars, hookVars, HookGone, PreApply,
            PostWipe, InBracket,
            TypeOK, Goto, Finished
<1>2. ASSUME NEW q \in Runs, NEW k \in Kinds, Start(q, k) PROVE Goal
  BY <1>2 DEF Start
<1>3. CASE BuildSql(r) \/ ApplySql(r) \/ ApplyOverlay(r) \/ Wipe(r)
  <2>1. CASE BuildSql(r)
    <3>1. pc'[r] = "apply"
      BY <2>1 DEF BuildSql
    <3>2. pc[r] = "build"
      BY <2>1 DEF BuildSql
    <3>3. QED
      BY <2>1, <3>1, <3>2
  <2>2. CASE ApplySql(r)
    <3>1. pc'[r] \in {"overlay", "matviews"}
      BY <2>2 DEF ApplySql
    <3>2. QED
      BY <2>2, <3>1
  <2>3. CASE ApplyOverlay(r)
    <3>1. pc'[r] = "matviews"
      BY <2>3 DEF ApplyOverlay
    <3>2. QED
      BY <2>3, <3>1
  <2>4. CASE Wipe(r)
    <3>1. pc'[r] = "close1"
      BY <2>4 DEF Wipe
    <3>2. QED
      BY <2>4, <3>1
  <2>5. QED
    BY <1>3, <2>1, <2>2, <2>3, <2>4
<1>4. ASSUME NEW q \in Runs, q # r,
             BuildSql(q) \/ ApplySql(q) \/ ApplyOverlay(q) \/ Wipe(q)
      PROVE Goal
  <2>1. pc'[r] = pc[r] /\ covered'[r] = covered[r]
    BY <1>4 DEF BuildSql, ApplySql, ApplyOverlay, Wipe
  <2>2. QED
    BY <1>1, <2>1
<1>5. ASSUME NEW q \in Runs,
             \/ OpenConn(q) \/ CloseConn(q) \/ EnterBracket(q)
             \/ RefreshViews(q) \/ Reload(q) \/ Unwind(q)
      PROVE Goal
  BY <1>5 DEF OpenConn, CloseConn, EnterBracket, RefreshViews, Reload, Unwind
<1>6. ASSUME NEW q \in Runs,
             HookStarts(q) \/ HookTerminated(q) \/ LeaveBracket(q)
      PROVE Goal
  BY <1>6 DEF HookStarts, HookTerminated, LeaveBracket
<1>7. ASSUME NEW q \in Runs, NEW ok \in BOOLEAN, HookExits(q, ok) PROVE Goal
  BY <1>7 DEF HookExits
<1>8. ASSUME NEW q \in Runs, ReopenPool(q) PROVE Goal
  BY <1>8 DEF ReopenPool
<1>9. ASSUME NEW q \in Runs, HookStep(q) PROVE Goal
  BY <1>9, <1>1 DEF HookStep, HookOpens, HookWrites, HookCloses, OrphanExits
<1>10. ASSUME NEW q \in Runs, Faulty(q) PROVE Goal
  BY <1>10 DEF Faulty, WorkInterrupted, ConnCancelled, EnterCancelled,
     HookCancelled, HookAbandoned, ReopenCancelled
<1>11. ASSUME NEW p \in Pages, PageStep(p) PROVE Goal
  BY <1>11, <1>1 DEF PageStep, Render, FetchStart, FetchCut, FetchEnd, Poll
<1>12. QED
  BY <1>2, <1>3, <1>4, <1>5, <1>6, <1>7, <1>8, <1>9, <1>10, <1>11
  DEF Next, RunStep

(* Once the root was opened again only the run itself changes the rows.    *)
LEMMA RowsSettled ==
  ASSUME TypeOK, FileInv, OneRun, ConnInv, Next,
         NEW r \in Runs, pc[r] \in PostReopen, pc'[r] \in PostReopen
  PROVE  rows' = rows \/ ApplySql(r) \/ ApplyOverlay(r)
<1>1. pc'[r] \in PostWipe
  BY DEF PostWipe, PostReopen
<1>2. ASSUME NEW q \in Runs PROVE ~HookWrites(q)
  <2>1. r \in conn
    BY DEF ConnInv
  <2>2. QED
    BY <2>1 DEF FileInv, HookWrites
<1>3. ~Wipe(r)
  BY DEF Wipe, PostReopen
<1>4. QED
  BY <1>1, <1>2, <1>3, SoleWriter, RowsKept

LEMMA CoverStep ==
  ASSUME TypeOK, OutInv, FileInv, OneRun, ConnInv, RealIsCustomer, CoverInv,
         Next
  PROVE  CoverInv'
<1> SUFFICES ASSUME NEW r \in Runs
             PROVE  /\ pc'[r] \in PreApply => \A x \in rows' : x.from # "gen"
                    /\ pc'[r] = "apply" /\ ~FullScope(r)' =>
                         covered'[r] = {x.rail : x \in rows'}
                    /\ pc'[r] = "overlay" => FullScope(r)'
  BY DEF CoverInv, PreApply
<1>0. pc'[r] \in PostWipe => (FullScope(r)' <=> FullScope(r))
  BY PostWipeFrom DEF FullScope
<1>1. ASSUME pc'[r] \in PreApply, NEW x \in rows' PROVE x.from # "gen"
  <2>1. CASE Wipe(r)
    BY <2>1, WipedReal DEF Wipe, RealIsCustomer
  <2>2. ~ApplySql(r) /\ ~ApplyOverlay(r)
    BY <1>1 DEF ApplySql, ApplyOverlay, Goto, TypeOK, PreApply
  <2>3. ASSUME pc[r] \in PreApply PROVE \A y \in rows : y.from # "gen"
    BY <2>3 DEF CoverInv, PreApply
  <2>4. ASSUME NEW q \in Runs, HookWrites(q) PROVE x.from # "gen"
    <3>1. pc' = pc
      BY <2>4 DEF HookWrites, runVars
    <3>2. x \in rows \/ x.from = "hook"
      BY <2>4, RowsOfFields DEF HookWrites
    <3>3. QED
      BY <1>1, <2>3, <3>1, <3>2
  <2>5. CASE rows' = rows
    BY <1>1, <2>1, <2>3, <2>5, StageFrom
  <2>6. pc'[r] \in PostWipe
    BY <1>1 DEF PreApply
  <2>7. QED
    BY <2>1, <2>2, <2>4, <2>5, <2>6, SoleWriter, RowsKept
<1>2. ASSUME pc'[r] = "apply", ~FullScope(r)'
      PROVE  covered'[r] = {x.rail : x \in rows'}
  <2>1. ~FullScope(r)
    BY <1>0, <1>2 DEF PostWipe
  <2>2. CASE BuildSql(r)
    BY <2>1, <2>2 DEF BuildSql, dataVars, TypeOK
  <2>3. CASE pc[r] = "apply" /\ covered'[r] = covered[r]
    <3>1. ~ApplySql(r) /\ ~ApplyOverlay(r)
      BY <1>2, <2>3 DEF ApplySql, ApplyOverlay, Goto, TypeOK
    <3>2. rows' = rows
      BY <1>2, <2>3, <3>1, RowsSettled DEF PostReopen
    <3>3. QED
      BY <2>1, <2>3, <3>2 DEF CoverInv
  <2>4. QED
    BY <1>2, <2>2, <2>3, StageFrom
<1>3. ASSUME pc'[r] = "overlay" PROVE FullScope(r)'
  <2>1. CASE pc[r] = "overlay"
    BY <1>0, <1>3, <2>1 DEF CoverInv, PostWipe
  <2>2. CASE ApplySql(r)
    <3>1. GapOverlay(r)
      BY <1>3, <2>2 DEF ApplySql, Goto, TypeOK
    <3>2. QED
      BY <1>0, <1>3, <3>1 DEF PostWipe, GapOverlay, FullScope
  <2>3. QED
    BY <1>3, <2>1, <2>2, StageFrom
<1>4. QED
  BY <1>1, <1>2, <1>3

LEMMA DoubleCoverStep ==
  ASSUME TypeOK, OutInv, FileInv, OneRun, ConnInv, CoverInv, NoDoubleCover,
         Next
  PROVE  NoDoubleCover'
<1> SUFFICES ASSUME NEW r \in Runs, pc'[r] \in {"matviews", "reload"},
                    ~FullScope(r)', NEW x \in rows', NEW y \in rows',
                    x.from = "gen", y.from \in {"hook", "customer"}
             PROVE  x.rail # y.rail
  BY DEF NoDoubleCover
<1>1. ~FullScope(r)
  BY PostWipeFrom DEF FullScope, PostWipe
<1>2. CASE pc[r] \in {"matviews", "reload"}
  <2>1. ~ApplySql(r) /\ ~ApplyOverlay(r)
    BY <1>2 DEF ApplySql, ApplyOverlay
  <2>2. rows' = rows
    BY <1>2, <2>1, RowsSettled DEF PostReopen
  <2>3. QED
    BY <1>1, <1>2, <2>2 DEF NoDoubleCover
<1>3. CASE ApplySql(r)
  <2>1. pc[r] = "apply" /\ rows' = rows \cup Generated(r)
    BY <1>3 DEF ApplySql
  <2>2. covered[r] = {z.rail : z \in rows}
    BY <1>1, <2>1 DEF CoverInv
  <2>3. \A z \in rows : z.from # "gen"
    BY <2>1 DEF CoverInv, PostWipe
  <2>4. x.rail \notin covered[r]
    BY <2>1, <2>3, GeneratedFields
  <2>5. y \in rows
    BY <2>1, GeneratedFields
  <2>6. QED
    BY <2>2, <2>4, <2>5
<1>4. CASE ApplyOverlay(r)
  BY <1>1, <1>4 DEF ApplyOverlay, CoverInv
<1>5. QED
  BY <1>2, <1>3, <1>4, StageFrom

-----------------------------------------------------------------------------
LEMMA NextSerial ==
  ~Overlap /\ IInv /\ SerialInv /\ [Next]_vars => SerialInv'
<1> SUFFICES ASSUME ~Overlap, IInv, SerialInv, [Next]_vars PROVE SerialInv'
  OBVIOUS
<1>0. TypeOK /\ OutInv /\ FileInv
  BY DEF IInv
<1>1. CASE Next
  <2>1. OneRun' /\ ConnInv'
    BY <1>0, <1>1, OneRunStep, ConnStep DEF SerialInv
  <2>2. RealIsCustomer' /\ RowsAreOwn'
    BY <1>0, <1>1, RealStep, RowsAreOwnStep DEF SerialInv
  <2>3. CoverInv' /\ NoDoubleCover'
    BY <1>0, <1>1, CoverStep, DoubleCoverStep DEF SerialInv
  <2>4. QED
    BY <2>1, <2>2, <2>3 DEF SerialInv
<1>2. CASE UNCHANGED vars
  BY <1>2 DEF SerialInv, OneRun, ConnInv, RealIsCustomer, RowsAreOwn,
     CoverInv, NoDoubleCover, Active, FullScope, SyntheticOnly,
     vars, dataVars, runVars, hookVars
<1>3. QED
  BY <1>1, <1>2

LEMMA AlwaysSerial ==
  ASSUME ~Overlap
  PROVE  Spec => []SerialInv
<1>1. IInv /\ SerialInv /\ [Next]_vars => SerialInv'
  BY NextSerial
<1>2. QED
  BY <1>1, InitSerial, AlwaysIInv, PTL DEF Spec

(* Runs that do not overlap derive their views from their own rows, and    *)
(* after a standalone reset from customer rows stamped real: no row of an  *)
(* earlier run survives the wipe, and none comes in after it but by a hook *)
(* that an interruption left alive.                                        *)
THEOREM RunsStartClean ==
  ASSUME ~Overlap
  PROVE  Spec => []CleanSlate
<1>1. SerialInv => CleanSlate
  BY DEF SerialInv, RowsAreOwn, CleanSlate, PostWipe
<1>2. QED
  BY <1>1, AlwaysSerial, PTL

(* The scope "uncovered_rails" never has the generator write to a rail     *)
(* that the hook or the customer feeds: what `_build_generator_sql` saw of *)
(* the rows still holds when the script it built is applied.               *)
THEOREM RailsCoveredOnce ==
  ASSUME ~Overlap
  PROVE  Spec => []NoDoubleCover
<1>1. SerialInv => NoDoubleCover
  BY DEF SerialInv
<1>2. QED
  BY <1>1, AlwaysSerial, PTL

-----------------------------------------------------------------------------
(* No run was interrupted. *)
UnbrokenInv ==
  \A r \in Runs : /\ pc[r] \notin {"failed", "cancelled"}
                  /\ out[r] \in {"done", "halted"}

(* A hook that nobody waits for, and with it a file that cannot be opened, *)
(* takes an interruption.                                                  *)
LEMMA NoOrphan ==
  ASSUME IInv, OneRun, UnbrokenInv, NEW r \in Runs, Active(r), pc[r] # "hookRun"
  PROVE  sub = {} /\ held = {}
<1>1. ASSUME NEW q \in sub PROVE FALSE
  <2>1. q \in Runs
    BY DEF IInv, TypeOK
  <2>2. pc[q] = "hookRun"
    BY <2>1 DEF IInv, SubInv, UnbrokenInv
  <2>3. Active(q)
    BY <2>2 DEF Active, Finished
  <2>4. q = r
    BY <2>1, <2>3 DEF OneRun
  <2>5. QED
    BY <2>2, <2>4
<1>2. sub = {}
  BY <1>1
<1>3. QED
  BY <1>2 DEF IInv, FileInv

LEMMA UnbrokenStep ==
  ASSUME IInv, OneRun, UnbrokenInv, Next, MaxFaults = 0
  PROVE  UnbrokenInv'
<1>0. TypeOK
  BY DEF IInv
<1> USE <1>0 DEF Quiet, dataVars, pageVars, runVars, hookVars, HookGone,
        UnbrokenInv, TypeOK, Goto
<1>1. ASSUME NEW r \in Runs, NEW k \in Kinds, Start(r, k) PROVE UnbrokenInv'
  BY <1>1 DEF Start
<1>2. ASSUME NEW r \in Runs,
             \/ Wipe(r) \/ CloseConn(r) \/ EnterBracket(r)
             \/ BuildSql(r) \/ ApplySql(r) \/ ApplyOverlay(r)
             \/ RefreshViews(r) \/ Reload(r) \/ Unwind(r)
      PROVE UnbrokenInv'
  BY <1>2 DEF Wipe, CloseConn, EnterBracket, BuildSql,
     ApplySql, ApplyOverlay, RefreshViews, Reload, Unwind
<1>3. ASSUME NEW r \in Runs, OpenConn(r) PROVE UnbrokenInv'
  <2>1. Active(r) /\ pc[r] # "hookRun"
    BY <1>3 DEF OpenConn, Active, Finished
  <2>2. held = {}
    BY <2>1, NoOrphan
  <2>3. QED
    BY <1>3, <2>2 DEF OpenConn
<1>4. ASSUME NEW r \in Runs,
             HookStarts(r) \/ HookTerminated(r) \/ LeaveBracket(r)
      PROVE UnbrokenInv'
  BY <1>4 DEF HookStarts, HookTerminated, LeaveBracket
<1>5. ASSUME NEW r \in Runs, NEW ok \in BOOLEAN, HookExits(r, ok)
      PROVE UnbrokenInv'
  BY <1>5 DEF HookExits
<1>6. ASSUME NEW r \in Runs, ReopenPool(r) PROVE UnbrokenInv'
  <2>1. Active(r) /\ pc[r] # "hookRun"
    BY <1>6 DEF ReopenPool, Active, Finished
  <2>2. held = {}
    BY <2>1, NoOrphan
  <2>3. QED
    BY <1>6, <2>2 DEF ReopenPool
<1>7. ASSUME NEW r \in Runs, HookStep(r) PROVE UnbrokenInv'
  BY <1>7 DEF HookStep, HookOpens, HookWrites, HookCloses, OrphanExits
<1>8. ASSUME NEW r \in Runs PROVE ~Faulty(r)
  <2>1. ~Fault
    BY DEF Fault
  <2>2. QED
    BY <2>1 DEF Faulty, WorkInterrupted, ConnCancelled, EnterCancelled,
       HookCancelled, HookAbandoned, ReopenCancelled
<1>9. ASSUME NEW p \in Pages, PageStep(p) PROVE UnbrokenInv'
  BY <1>9 DEF PageStep, Render, FetchStart, FetchCut, FetchEnd, Poll
<1>10. QED
  BY <1>1, <1>2, <1>3, <1>4, <1>5, <1>6, <1>7, <1>8, <1>9 DEF Next, RunStep

LEMMA AlwaysUnbroken ==
  ASSUME ~Overlap, MaxFaults = 0
  PROVE  Spec => []UnbrokenInv
<1>1. Init => UnbrokenInv
  BY DEF Init, UnbrokenInv
<1>2. IInv /\ SerialInv /\ UnbrokenInv /\ [Next]_vars => UnbrokenInv'
  <2>1. UnbrokenInv /\ UNCHANGED vars => UnbrokenInv'
    BY DEF UnbrokenInv, vars, runVars
  <2>2. QED
    BY <2>1, UnbrokenStep DEF SerialInv
<1>3. QED
  BY <1>1, <1>2, AlwaysIInv, AlwaysSerial, PTL DEF Spec

(* A run fails only by an interruption or by meeting another run: alone    *)
(* and undisturbed it never finds the file taken, and it ends done, or     *)
(* halted by its hook.                                                     *)
THEOREM SerialRunsUnbroken ==
  ASSUME ~Overlap, MaxFaults = 0
  PROVE  Spec => [](\A r \in Runs : pc[r] \notin {"failed", "cancelled"})
<1>1. UnbrokenInv => \A r \in Runs : pc[r] \notin {"failed", "cancelled"}
  BY DEF UnbrokenInv
<1>2. QED
  BY <1>1, AlwaysUnbroken, PTL

-----------------------------------------------------------------------------
(* No connection of this process is in a hook's way, and no other hook is  *)
(* alive but one that was left behind.                                     *)
HookHasRoom ==
  \A r \in Runs : hook /\ pc[r] = "hook" => conn = {} /\ sub \subseteq left

LEMMA SerialConns ==
  ASSUME TypeOK, OneRun, ConnInv, NEW r \in Runs, pc[r] = "hook"
  PROVE  conn = {}
<1>1. ASSUME NEW q \in conn PROVE FALSE
  <2>1. q \in Runs
    BY DEF TypeOK
  <2>2. pc[q] # "hook" /\ Active(q)
    BY <2>1 DEF ConnInv, PostReopen, Active, Finished
  <2>3. Active(r)
    BY DEF Active, Finished
  <2>4. QED
    BY <2>1, <2>2, <2>3 DEF OneRun
<1>2. QED
  BY <1>1

(* The comment on the bracket is right of what it does itself, as long as  *)
(* runs do not overlap: where a hook starts no deploy connection is open,  *)
(* also after runs that failed or were cancelled.  Of other hooks only     *)
(* those can be alive that an interruption left behind, and these may take *)
(* the file.                                                               *)
THEOREM SerialHookAlone ==
  ASSUME ~Overlap
  PROVE  Spec => []HookHasRoom
<1>1. IInv /\ SerialInv => HookHasRoom
  <2> SUFFICES ASSUME IInv, SerialInv, NEW r \in Runs, pc[r] = "hook"
               PROVE  conn = {} /\ sub \subseteq left
    BY DEF HookHasRoom
  <2>1. Active(r)
    BY DEF Active, Finished
  <2>2. ASSUME NEW q \in sub, q \notin left PROVE FALSE
    <3>1. q \in Runs /\ pc[q] \in {"hookRun", "terminating"}
      BY <2>2 DEF IInv, FileInv, TypeOK
    <3>2. Active(q) /\ q # r
      BY <3>1 DEF Active, Finished
    <3>3. QED
      BY <2>1, <3>1, <3>2 DEF SerialInv, OneRun
  <2>3. conn = {}
    BY SerialConns DEF IInv, SerialInv
  <2>4. QED
    BY <2>2, <2>3
<1>2. QED
  BY <1>1, AlwaysIInv, AlwaysSerial, PTL

(* A hook starts with the file to itself if runs neither overlap nor are   *)
(* interrupted.                                                            *)
THEOREM UndisturbedHookAlone ==
  ASSUME ~Overlap, MaxFaults = 0
  PROVE  Spec => []HookFindsFileFree
<1>1. IInv /\ SerialInv /\ UnbrokenInv => HookFindsFileFree
  <2> SUFFICES ASSUME IInv, SerialInv, UnbrokenInv,
                      NEW r \in Runs, pc[r] = "hook"
               PROVE  conn = {} /\ held = {}
    BY DEF HookFindsFileFree
  <2>1. Active(r) /\ pc[r] # "hookRun"
    BY DEF Active, Finished
  <2>2. held = {}
    BY <2>1, NoOrphan DEF SerialInv
  <2>3. conn = {}
    BY SerialConns DEF IInv, SerialInv
  <2>4. QED
    BY <2>2, <2>3
<1>2. QED
  BY <1>1, AlwaysIInv, AlwaysSerial, AlwaysUnbroken, PTL
=============================================================================
