------------------------ MODULE DeployPipelineProofs ------------------------
(***************************************************************************)
(* Safety of the pipeline for every number of runs, pages and rails, every *)
(* overlap of runs and every number of faults.                             *)
(***************************************************************************)
EXTENDS DeployPipeline, TLAPS

(* One run at most is in the bracket, and it has the lease until it        *)
(* reopens the root; a page that reads keeps the lease with the pool.      *)
LeaseInv ==
  /\ \A r \in Runs : pc[r] \in InBracket \ {"reopen"} <=> lease = r
  /\ \A r \in Runs : pc[r] = "reopen" => lease = Nobody
  /\ \A q, r \in Runs : pc[q] \in InBracket /\ pc[r] \in InBracket => q = r
  /\ \A p \in Pages : page[p] = "fetching" => lease = Pool

(* A run that knows it will not complete does nothing more but unwind.     *)
OutInv ==
  \A r \in Runs : out[r] # "done" =>
    pc[r] \in {"terminating", "leave", "reopen", "unwind"} \cup Finished

(* A hook outlives its step only in a run that ends badly. *)
SubInv ==
  \A r \in sub :
    \/ pc[r] = "hookRun"
    \/ /\ pc[r] \in {"terminating", "leave", "reopen"}
       /\ out[r] \in {"failed", "cancelled"}
    \/ pc[r] \in {"failed", "cancelled"}

(* A subprocess has the file open only while nothing of this process does, *)
(* and one that is neither waited for nor being ended was left behind.     *)
FileInv ==
  /\ held \subseteq sub
  /\ held # {} => conn = {} /\ lease # Pool
  /\ \A r \in sub : r \in left \/ pc[r] \in {"hookRun", "terminating"}

(* The run may have changed base rows and has not refreshed the views.     *)
Unrefreshed(r) ==
  \/ pc[r] \in InBracket \cup {"close1", "enter", "open2", "build", "apply",
                               "overlay", "matviews"}
  \/ pc[r] \in {"halted", "failed", "cancelled"}
  \/ pc[r] = "unwind" /\ out[r] # "done"

(* Views that lag behind the rows are the business of some run. *)
ViewsInv == mv = rows \/ \E r \in Runs : Unrefreshed(r)

(* A page that lags behind the views has a bump of the generation ahead of *)
(* it, or a run that was interrupted behind it.                            *)
PageInv ==
  \A p \in Pages :
    /\ base[p] <= gen
    /\ page[p] = "shown" /\ base[p] = gen =>
         shown[p] = mv \/ \E r \in Runs : pc[r] = "reload" \/ EndsBadly(r)

IInv ==
  /\ TypeOK
  /\ LeaseInv
  /\ OutInv
  /\ SubInv
  /\ FileInv
  /\ PoolReturned
  /\ ViewsInv
  /\ PageInv

-----------------------------------------------------------------------------
(* The rows that the steps of a run leave.                                 *)

LEMMA RowsOfType ==
  ASSUME NEW r \in Runs, NEW rails \in SUBSET (Rails \cup {Phantom}),
         NEW from \in {"hook", "gen", "gap"}, NEW stamp \in Stamp
  PROVE  RowsOf(r, rails, from, stamp) \subseteq Row
BY DEF RowsOf, Row

LEMMA AutoMarkedType == TypeOK => AutoMarked \subseteq Row
<1> SUFFICES ASSUME TypeOK, NEW y \in AutoMarked PROVE y \in Row
  OBVIOUS
<1>1. CASE hook
  BY <1>1 DEF AutoMarked, TypeOK
<1>2. CASE ~hook
  <2>1. PICK x \in rows : y = [x EXCEPT !.stamp = IF @ = "none" THEN "training"
                                                             ELSE @]
    BY <1>2 DEF AutoMarked
  <2>2. x \in Row
    BY DEF TypeOK
  <2>3. QED
    BY <2>1, <2>2 DEF Row, Stamp
<1>3. QED
  BY <1>1, <1>2

LEMMA WipedType ==
  ASSUME TypeOK, NEW r \in Runs
  PROVE  Wiped(r) \subseteq Row
BY AutoMarkedType DEF Wiped

LEMMA GeneratedType ==
  ASSUME NEW r \in Runs
  PROVE  Generated(r) \subseteq Row
BY RowsOfType DEF Generated, Stamp

LEMMA OverlaidType ==
  ASSUME TypeOK, NEW r \in Runs, NEW gone \in SUBSET Rails
  PROVE  Overlaid(r, gone) \subseteq Row
<1>1. RowsOf(r, {Phantom}, "gap", "training") \subseteq Row
  BY RowsOfType DEF Stamp
<1>2. QED
  BY <1>1 DEF Overlaid, TypeOK

(* A script that is cut short leaves rows, and views, of the same type.    *)
LEMMA EffectType ==
  ASSUME TypeOK, NEW r \in Runs, Effect(r)
  PROVE  rows' \subseteq Row /\ mv' \subseteq Row
<1>1. Generated(r) \subseteq Row /\ Wiped(r) \subseteq Row /\ AutoMarked \subseteq Row
  BY GeneratedType, WipedType, AutoMarkedType
<1>2. \A gone \in SUBSET Rails : Overlaid(r, gone) \subseteq Row
  BY OverlaidType
<1>3. rows \subseteq Row /\ mv \subseteq Row
  BY DEF TypeOK
<1>4. QED
  BY <1>1, <1>2, <1>3 DEF Effect

-----------------------------------------------------------------------------
(* The initial states.                                                     *)

LEMMA InitIInv == Init => IInv
<1> SUFFICES ASSUME Init PROVE IInv
  OBVIOUS
<1>1. TypeOK
  <2>1. CustomerRow \subseteq Row
    BY DEF CustomerRow, Row, Stamp
  <2>2. rows \subseteq Row /\ mv \subseteq Row
    BY <2>1 DEF Init
  <2>3. faults \in 0 .. MaxFaults
    BY PipelineFaultsAssumption DEF Init
  <2>4. QED
    BY <2>2, <2>3 DEF Init, TypeOK, RunState, PageState, Finished, Lease!Init
<1>2. LeaseInv /\ PoolReturned
  BY PipelineLeaseAssumption
  DEF Init, LeaseInv, PoolReturned, Lease!Init, InBracket
<1>3. OutInv /\ SubInv /\ FileInv /\ ViewsInv /\ PageInv
  BY DEF Init, OutInv, SubInv, FileInv, ViewsInv, PageInv
<1>4. QED
  BY <1>1, <1>2, <1>3 DEF IInv

-----------------------------------------------------------------------------
(* Types.                                                                  *)

LEMMA FaultType ==
  ASSUME TypeOK, Fault \/ UNCHANGED faults
  PROVE  faults' \in 0 .. MaxFaults
BY PipelineFaultsAssumption DEF TypeOK, Fault

LEMMA GotoType ==
  ASSUME TypeOK, NEW r \in Runs, NEW s \in RunState, Goto(r, s)
  PROVE  pc' \in [Runs -> RunState]
BY DEF TypeOK, Goto

LEMMA StartType ==
  ASSUME TypeOK, NEW r \in Runs, NEW k \in Kinds, Start(r, k)
  PROVE  TypeOK'
<1>1. pc' \in [Runs -> RunState]
  BY GotoType DEF Start, RunState
<1>2. kind' \in [Runs -> {"deploy", "etl_run", "reset", "session"}]
  BY KindsAssumption DEF Start, TypeOK
<1>3. QED
  BY <1>1, <1>2 DEF Start, TypeOK, Quiet, dataVars, pageVars, hookVars

(* Every step of a run but its start. *)
LEMMA RunType ==
  ASSUME TypeOK, NEW r \in Runs,
         EnterBracket(r) \/ RunStep(r) \/ HookStep(r)
           \/ Faulty(r)
  PROVE  TypeOK'
<1> USE DEF Quiet, dataVars, pageVars, runVars, hookVars, HookGone
<1>0. out[r] \in RunState /\ out[r] \in Finished
  BY DEF TypeOK, RunState
<1>1. CASE OpenConn(r)
  <2>1. pc' \in [Runs -> RunState]
    BY <1>1, GotoType DEF OpenConn, RunState, Finished
  <2>2. QED
    BY <1>1, <2>1 DEF OpenConn, TypeOK
<1>2. CASE Wipe(r)
  <2>1. pc' \in [Runs -> RunState]
    BY <1>2, GotoType DEF Wipe, RunState
  <2>2. QED
    BY <1>2, <2>1, WipedType DEF Wipe, TypeOK
<1>3. CASE CloseConn(r)
  <2>1. pc' \in [Runs -> RunState]
    BY <1>3, GotoType DEF CloseConn, RunState
  <2>2. QED
    BY <1>3, <2>1 DEF CloseConn, TypeOK
<1>4. CASE EnterBracket(r)
  <2>1. pc' \in [Runs -> RunState]
    BY <1>4, GotoType DEF EnterBracket, RunState
  <2>2. admitted' = admitted /\ lease' = r
    BY <1>4 DEF EnterBracket, Lease!Surrender, Lease!Take
  <2>3. page' \in [Pages -> PageState]
    BY <1>4 DEF EnterBracket, PullCursors, TypeOK, PageState
  <2>4. QED
    BY <1>4, <2>1, <2>2, <2>3 DEF EnterBracket, TypeOK
<1>5. CASE HookStarts(r)
  <2>1. pc' \in [Runs -> RunState]
    BY <1>5, GotoType DEF HookStarts, RunState
  <2>2. QED
    BY <1>5, <2>1 DEF HookStarts, TypeOK, Finished
<1>6. CASE HookWrites(r)
  <2>1. rows' \subseteq Row
    BY <1>6, RowsOfType DEF HookWrites, TypeOK, Stamp
  <2>2. QED
    BY <1>6, <2>1 DEF HookWrites, TypeOK
<1>7. ASSUME NEW ok \in BOOLEAN, HookExits(r, ok) PROVE TypeOK'
  <2>1. pc' \in [Runs -> RunState]
    BY <1>7, GotoType DEF HookExits, RunState
  <2>2. out' \in [Runs -> Finished]
    BY <1>7 DEF HookExits, TypeOK, Finished
  <2>3. QED
    BY <1>7, <2>1, <2>2 DEF HookExits, TypeOK
<1>8. CASE LeaveBracket(r)
  <2>1. pc' \in [Runs -> RunState]
    BY <1>8, GotoType DEF LeaveBracket, RunState
  <2>2. QED
    BY <1>8, <2>1 DEF LeaveBracket, TypeOK, Lease!Return
<1>9. CASE ReopenPool(r)
  <2>1. pc' \in [Runs -> RunState]
    BY <1>9, <1>0, GotoType DEF ReopenPool, RunState, Finished
  <2>2. QED
    BY <1>9, <2>1 DEF ReopenPool, TypeOK, Lease!Reopen
<1>10. CASE BuildSql(r)
  <2>1. pc' \in [Runs -> RunState]
    BY <1>10, GotoType DEF BuildSql, RunState
  <2>2. {x.rail : x \in rows} \subseteq Rails \cup {Phantom}
    BY DEF TypeOK, Row
  <2>3. covered' \in [Runs -> SUBSET (Rails \cup {Phantom})]
    BY <1>10, <2>2 DEF BuildSql, TypeOK
  <2>4. QED
    BY <1>10, <2>1, <2>3 DEF BuildSql, TypeOK
<1>11. CASE ApplySql(r)
  <2>1. pc' \in [Runs -> RunState]
    BY <1>11, GotoType DEF ApplySql, RunState
  <2>2. QED
    BY <1>11, <2>1, GeneratedType DEF ApplySql, TypeOK
<1>12. CASE ApplyOverlay(r)
  <2>1. pc' \in [Runs -> RunState]
    BY <1>12, GotoType DEF ApplyOverlay, RunState
  <2>2. rows' \subseteq Row
    BY <1>12, OverlaidType DEF ApplyOverlay
  <2>3. QED
    BY <1>12, <2>1, <2>2 DEF ApplyOverlay, TypeOK
<1>13. CASE RefreshViews(r)
  <2>1. pc' \in [Runs -> RunState]
    BY <1>13, GotoType DEF RefreshViews, RunState
  <2>2. QED
    BY <1>13, <2>1 DEF RefreshViews, TypeOK
<1>14. CASE Reload(r)
  <2>1. pc' \in [Runs -> RunState]
    BY <1>14, GotoType DEF Reload, RunState
  <2>2. QED
    BY <1>14, <2>1 DEF Reload, TypeOK
<1>15. CASE Unwind(r)
  <2>1. pc' \in [Runs -> RunState]
    BY <1>15, <1>0, GotoType DEF Unwind
  <2>2. QED
    BY <1>15, <2>1 DEF Unwind, TypeOK
<1>16. CASE HookTerminated(r)
  <2>1. pc' \in [Runs -> RunState]
    BY <1>16, GotoType DEF HookTerminated, RunState
  <2>2. QED
    BY <1>16, <2>1 DEF HookTerminated, TypeOK
<1>17. CASE HookOpens(r) \/ HookCloses(r) \/ OrphanExits(r)
  BY <1>17 DEF HookOpens, HookCloses, OrphanExits, TypeOK
<1>18. CASE Faulty(r)
  <2> USE DEF RunState, Finished
  <2>0. faults' \in 0 .. MaxFaults
    BY <1>18, FaultType DEF Faulty, WorkInterrupted, ConnCancelled,
       EnterCancelled, HookCancelled, HookAbandoned, ReopenCancelled
  <2>1. CASE WorkInterrupted(r)
    <3>1. pc' \in [Runs -> RunState]
      BY <2>1, GotoType DEF WorkInterrupted
    <3>2. out' \in [Runs -> Finished]
      BY <2>1 DEF WorkInterrupted, HowInterrupted, TypeOK
    <3>3. rows' \subseteq Row /\ mv' \subseteq Row
      BY <2>1, EffectType DEF WorkInterrupted
    <3>4. QED
      BY <2>0, <2>1, <3>1, <3>2, <3>3 DEF WorkInterrupted, TypeOK
  <2>2. CASE ConnCancelled(r)
    <3>1. pc' \in [Runs -> RunState]
      BY <2>2, GotoType DEF ConnCancelled
    <3>2. QED
      BY <2>0, <2>2, <3>1 DEF ConnCancelled, TypeOK
  <2>3. CASE EnterCancelled(r)
    <3>1. pc' \in [Runs -> RunState]
      BY <2>3, GotoType DEF EnterCancelled
    <3>2. page' \in [Pages -> PageState]
      BY <2>3 DEF EnterCancelled, PullCursors, DoomCursors, TypeOK, PageState
    <3>3. admitted' = admitted /\ (lease' = lease \/ lease' = Nobody)
      BY <2>3 DEF EnterCancelled, Lease!Surrender
    <3>4. QED
      BY <2>0, <2>3, <3>1, <3>2, <3>3 DEF EnterCancelled, TypeOK
  <2>4. CASE HookCancelled(r)
    <3>1. pc' \in [Runs -> RunState]
      BY <2>4, GotoType DEF HookCancelled
    <3>2. QED
      BY <2>0, <2>4, <3>1 DEF HookCancelled, TypeOK
  <2>5. CASE HookAbandoned(r)
    <3>1. pc' \in [Runs -> RunState]
      BY <2>5, GotoType DEF HookAbandoned
    <3>2. out' \in [Runs -> Finished]
      BY <2>5 DEF HookAbandoned, HowInterrupted, TypeOK
    <3>3. QED
      BY <2>0, <2>5, <3>1, <3>2 DEF HookAbandoned, TypeOK
  <2>6. CASE ReopenCancelled(r)
    <3>1. pc' \in [Runs -> RunState]
      BY <2>6, GotoType DEF ReopenCancelled
    <3>2. QED
      BY <2>0, <2>6, <3>1 DEF ReopenCancelled, TypeOK
  <2>7. QED
    BY <1>18, <2>1, <2>2, <2>3, <2>4, <2>5, <2>6 DEF Faulty
<1>19. QED
  BY <1>1, <1>2, <1>3, <1>4, <1>5, <1>6, <1>7, <1>8, <1>9, <1>10, <1>11, <1>12,
     <1>13, <1>14, <1>15, <1>16, <1>17, <1>18 DEF RunStep, HookStep

LEMMA PageType ==
  ASSUME TypeOK, NEW p \in Pages, PageStep(p)
  PROVE  TypeOK'
<1> USE DEF TypeOK, PageState, runVars, hookVars, dataVars
<1>1. CASE Render(p)
  BY <1>1 DEF Render
<1>2. CASE FetchStart(p)
  BY <1>2 DEF FetchStart, Lease!Admit
<1>3. CASE FetchCut(p)
  BY <1>3 DEF FetchCut
<1>4. CASE FetchEnd(p)
  BY <1>4 DEF FetchEnd, Lease!End
<1>5. CASE Poll(p)
  BY <1>5 DEF Poll
<1>6. QED
  BY <1>1, <1>2, <1>3, <1>4, <1>5 DEF PageStep

-----------------------------------------------------------------------------
(* The lease.                                                              *)

(* A step that keeps the lease and moves a run about outside the bracket,  *)
(* or inside it short of the reopen.                                       *)
LEMMA LeaseKept ==
  ASSUME TypeOK, LeaseInv, NEW r \in Runs, NEW s, Goto(r, s),
         \/ pc[r] \notin InBracket /\ s \notin InBracket
         \/ pc[r] \in InBracket \ {"reopen"} /\ s \in InBracket \ {"reopen"},
         UNCHANGED <<lease, page>>
  PROVE  LeaseInv'
BY DEF LeaseInv, Goto, TypeOK, InBracket

LEMMA LeaseStep ==
  ASSUME TypeOK, OutInv, LeaseInv, Next
  PROVE  LeaseInv'
<1> USE DEF Quiet, dataVars, pageVars, runVars, hookVars, HookGone, InBracket
<1>1. ASSUME NEW r \in Runs, NEW k \in Kinds, Start(r, k) PROVE LeaseInv'
  BY <1>1, LeaseKept DEF Start
<1>2. ASSUME NEW r \in Runs,
             \/ OpenConn(r) \/ Wipe(r) \/ CloseConn(r) \/ BuildSql(r)
             \/ ApplySql(r) \/ ApplyOverlay(r) \/ RefreshViews(r) \/ Reload(r)
      PROVE LeaseInv'
  BY <1>2, LeaseKept DEF OpenConn, Wipe, CloseConn, BuildSql, ApplySql,
     ApplyOverlay, RefreshViews, Reload
<1>3. ASSUME NEW r \in Runs, Unwind(r) PROVE LeaseInv'
  BY <1>3, LeaseKept DEF Unwind, TypeOK, Finished
<1>4. ASSUME NEW r \in Runs, EnterBracket(r) PROVE LeaseInv'
  BY <1>4, PipelineLeaseAssumption
  DEF EnterBracket, LifecycleLocked, LeaseInv, PullCursors, TypeOK, Goto,
      Lease!Surrender, Lease!Take
<1>5. ASSUME NEW r \in Runs, HookStarts(r) PROVE LeaseInv'
  BY <1>5, LeaseKept DEF HookStarts
<1>6. ASSUME NEW r \in Runs, HookStep(r) PROVE LeaseInv'
  BY <1>6 DEF HookStep, HookOpens, HookWrites, HookCloses, OrphanExits,
     LeaseInv
<1>7. ASSUME NEW r \in Runs, NEW ok \in BOOLEAN, HookExits(r, ok)
      PROVE LeaseInv'
  BY <1>7, LeaseKept DEF HookExits
<1>8. ASSUME NEW r \in Runs, HookTerminated(r) PROVE LeaseInv'
  BY <1>8, LeaseKept DEF HookTerminated
<1>9. ASSUME NEW r \in Runs, LeaveBracket(r) PROVE LeaseInv'
  BY <1>9, PipelineLeaseAssumption
  DEF LeaveBracket, LeaseInv, TypeOK, Goto, Lease!Return
<1>10. ASSUME NEW r \in Runs, ReopenPool(r) PROVE LeaseInv'
  <2>1. pc[r] = "reopen" /\ lease = Nobody
    BY <1>10 DEF ReopenPool, LeaseInv
  <2>2. PICK s \in {"open2", "failed", out[r]} : Goto(r, s)
    BY <1>10 DEF ReopenPool
  <2>3. s \notin InBracket
    BY <2>2 DEF TypeOK, Finished
  <2>4. lease' \in {Pool, Nobody} /\ page' = page
    BY <1>10, <2>1 DEF ReopenPool, Lease!Reopen
  <2>5. QED
    BY <2>1, <2>2, <2>3, <2>4, PipelineLeaseAssumption DEF LeaseInv, TypeOK,
       Goto
<1>11. ASSUME NEW r \in Runs, WorkInterrupted(r) \/ ConnCancelled(r)
       PROVE LeaseInv'
  BY <1>11, LeaseKept DEF WorkInterrupted, ConnCancelled
<1>12. ASSUME NEW r \in Runs, EnterCancelled(r) PROVE LeaseInv'
  <2>1. CASE UNCHANGED <<lease, page>>
    BY <1>12, <2>1, LeaseKept DEF EnterCancelled
  <2>2. CASE ~LifecycleLocked /\ lease' = Nobody /\ (PullCursors \/ DoomCursors)
    BY <1>12, <2>2, PipelineLeaseAssumption
    DEF EnterCancelled, LifecycleLocked, LeaseInv, PullCursors, DoomCursors,
        TypeOK, Goto
  <2>3. QED
    BY <1>12, <2>1, <2>2 DEF EnterCancelled
<1>13. ASSUME NEW r \in Runs, HookCancelled(r) \/ HookAbandoned(r)
       PROVE LeaseInv'
  BY <1>13, LeaseKept DEF HookCancelled, HookAbandoned
<1>14. ASSUME NEW r \in Runs, ReopenCancelled(r) PROVE LeaseInv'
  BY <1>14, PipelineLeaseAssumption
  DEF ReopenCancelled, LeaseInv, TypeOK, Goto
<1>15. ASSUME NEW p \in Pages, PageStep(p) PROVE LeaseInv'
  BY <1>15 DEF PageStep, Render, FetchStart, FetchCut, FetchEnd, Poll,
     LeaseInv, TypeOK,
     Lease!Admit, Lease!End
<1>16. QED
  BY <1>1, <1>2, <1>3, <1>4, <1>5, <1>6, <1>7, <1>8, <1>9, <1>10, <1>11, <1>12,
     <1>13, <1>14, <1>15 DEF Next, RunStep, Faulty

-----------------------------------------------------------------------------
(* What a run knows of its end, and what becomes of its hook.              *)

LEMMA OutStep ==
  ASSUME TypeOK, OutInv, Next
  PROVE  OutInv'
<1> USE DEF Quiet, dataVars, pageVars, runVars, hookVars, HookGone, OutInv,
            TypeOK, Goto, Finished
<1>1. ASSUME NEW r \in Runs, NEW k \in Kinds, Start(r, k) PROVE OutInv'
  BY <1>1 DEF Start
<1>2. ASSUME NEW r \in Runs,
             \/ OpenConn(r) \/ Wipe(r) \/ CloseConn(r) \/ EnterBracket(r)
             \/ BuildSql(r) \/ ApplySql(r) \/ ApplyOverlay(r)
             \/ RefreshViews(r) \/ Reload(r)
      PROVE OutInv'
  BY <1>2 DEF OpenConn, Wipe, CloseConn, EnterBracket, BuildSql,
     ApplySql, ApplyOverlay, RefreshViews, Reload
<1>3. ASSUME NEW r \in Runs,
             HookStarts(r) \/ HookTerminated(r) \/ LeaveBracket(r)
      PROVE OutInv'
  BY <1>3 DEF HookStarts, HookTerminated, LeaveBracket
<1>4. ASSUME NEW r \in Runs, NEW ok \in BOOLEAN, HookExits(r, ok)
      PROVE OutInv'
  BY <1>4 DEF HookExits
<1>5. ASSUME NEW r \in Runs, ReopenPool(r) \/ Unwind(r) PROVE OutInv'
  BY <1>5 DEF ReopenPool, Unwind
<1>6. ASSUME NEW r \in Runs, HookStep(r) PROVE OutInv'
  BY <1>6 DEF HookStep, HookOpens, HookWrites, HookCloses, OrphanExits
<1>7. ASSUME NEW r \in Runs, Faulty(r) PROVE OutInv'
  BY <1>7 DEF Faulty, WorkInterrupted, ConnCancelled, EnterCancelled,
     HookCancelled, HookAbandoned, ReopenCancelled
<1>8. ASSUME NEW p \in Pages, PageStep(p) PROVE OutInv'
  BY <1>8 DEF PageStep, Render, FetchStart, FetchCut, FetchEnd, Poll
<1>9. QED
  BY <1>1, <1>2, <1>3, <1>4, <1>5, <1>6, <1>7, <1>8 DEF Next, RunStep

LEMMA SubStep ==
  ASSUME TypeOK, OutInv, SubInv, Next
  PROVE  SubInv'
<1> USE DEF Quiet, dataVars, pageVars, runVars, hookVars, HookGone, SubInv,
            TypeOK, Goto
<1>1. ASSUME NEW r \in Runs, NEW k \in Kinds, Start(r, k) PROVE SubInv'
  BY <1>1 DEF Start
<1>2. ASSUME NEW r \in Runs,
             \/ OpenConn(r) \/ Wipe(r) \/ CloseConn(r) \/ EnterBracket(r)
             \/ BuildSql(r) \/ ApplySql(r) \/ ApplyOverlay(r)
             \/ RefreshViews(r) \/ Reload(r) \/ Unwind(r)
      PROVE SubInv'
  BY <1>2 DEF OpenConn, Wipe, CloseConn, EnterBracket, BuildSql,
     ApplySql, ApplyOverlay, RefreshViews, Reload, Unwind
<1>3. ASSUME NEW r \in Runs,
             HookStarts(r) \/ HookTerminated(r) \/ LeaveBracket(r)
      PROVE SubInv'
  BY <1>3 DEF HookStarts, HookTerminated, LeaveBracket
<1>4. ASSUME NEW r \in Runs, NEW ok \in BOOLEAN, HookExits(r, ok)
      PROVE SubInv'
  BY <1>4 DEF HookExits
<1>5. ASSUME NEW r \in Runs, ReopenPool(r) PROVE SubInv'
  BY <1>5 DEF ReopenPool, Finished
<1>6. ASSUME NEW r \in Runs, HookStep(r) PROVE SubInv'
  BY <1>6 DEF HookStep, HookOpens, HookWrites, HookCloses, OrphanExits
<1>7. ASSUME NEW r \in Runs, Faulty(r) PROVE SubInv'
  <2>1. CASE HookAbandoned(r)
    BY <1>7, <2>1 DEF HookAbandoned, HowInterrupted, Finished
  <2>2. CASE ~HookAbandoned(r)
    BY <1>7, <2>2 DEF Faulty, WorkInterrupted, ConnCancelled, EnterCancelled,
       HookCancelled, ReopenCancelled, Finished
  <2>3. QED
    BY <2>1, <2>2
<1>8. ASSUME NEW p \in Pages, PageStep(p) PROVE SubInv'
  BY <1>8 DEF PageStep, Render, FetchStart, FetchCut, FetchEnd, Poll
<1>9. QED
  BY <1>1, <1>2, <1>3, <1>4, <1>5, <1>6, <1>7, <1>8 DEF Next, RunStep

LEMMA FileStep ==
  ASSUME TypeOK, FileInv, Next
  PROVE  FileInv'
<1> USE DEF Quiet, dataVars, pageVars, runVars, hookVars, HookGone, FileInv,
            TypeOK, Goto
<1>1. ASSUME NEW r \in Runs, NEW k \in Kinds, Start(r, k) PROVE FileInv'
  BY <1>1 DEF Start
<1>2. ASSUME NEW r \in Runs,
             \/ OpenConn(r) \/ Wipe(r) \/ CloseConn(r)
             \/ BuildSql(r) \/ ApplySql(r) \/ ApplyOverlay(r)
             \/ RefreshViews(r) \/ Reload(r) \/ Unwind(r)
      PROVE FileInv'
  BY <1>2 DEF OpenConn, Wipe, CloseConn, BuildSql,
     ApplySql, ApplyOverlay, RefreshViews, Reload, Unwind
<1>3. ASSUME NEW r \in Runs,
             EnterBracket(r) \/ LeaveBracket(r) \/ ReopenPool(r)
      PROVE FileInv'
  BY <1>3, PipelineLeaseAssumption
  DEF EnterBracket, LeaveBracket, ReopenPool, Lease!Return, Lease!Reopen
<1>4. ASSUME NEW r \in Runs, HookStarts(r) \/ HookTerminated(r)
      PROVE FileInv'
  BY <1>4 DEF HookStarts, HookTerminated
<1>5. ASSUME NEW r \in Runs, NEW ok \in BOOLEAN, HookExits(r, ok)
      PROVE FileInv'
  BY <1>5 DEF HookExits
<1>6. ASSUME NEW r \in Runs, HookStep(r) PROVE FileInv'
  BY <1>6 DEF HookStep, HookOpens, HookWrites, HookCloses, OrphanExits
<1>7. ASSUME NEW r \in Runs, Faulty(r) PROVE FileInv'
  BY <1>7, PipelineLeaseAssumption
  DEF Faulty, WorkInterrupted, ConnCancelled, EnterCancelled, HookCancelled,
      HookAbandoned, ReopenCancelled
<1>8. ASSUME NEW p \in Pages, PageStep(p) PROVE FileInv'
  BY <1>8 DEF PageStep, Render, FetchStart, FetchCut, FetchEnd, Poll,
     Lease!Admit, Lease!End
<1>9. QED
  BY <1>1, <1>2, <1>3, <1>4, <1>5, <1>6, <1>7, <1>8 DEF Next, RunStep

(* A run that ends badly goes on ending badly. *)
LEMMA BadEndStays ==
  ASSUME TypeOK, OutInv, Next, NEW r \in Runs, EndsBadly(r)
  PROVE  EndsBadly(r)'
<1> USE DEF Quiet, dataVars, pageVars, runVars, hookVars, HookGone, OutInv,
            EndsBadly, TypeOK, Goto
<1>1. ASSUME NEW q \in Runs, NEW k \in Kinds, Start(q, k) PROVE EndsBadly(r)'
  BY <1>1 DEF Start
<1>2. ASSUME NEW q \in Runs,
             \/ OpenConn(q) \/ Wipe(q) \/ CloseConn(q) \/ EnterBracket(q)
             \/ BuildSql(q) \/ ApplySql(q) \/ ApplyOverlay(q)
             \/ RefreshViews(q) \/ Reload(q) \/ Unwind(q)
      PROVE EndsBadly(r)'
  BY <1>2 DEF OpenConn, Wipe, CloseConn, EnterBracket, BuildSql,
     ApplySql, ApplyOverlay, RefreshViews, Reload, Unwind
<1>3. ASSUME NEW q \in Runs,
             HookStarts(q) \/ HookTerminated(q) \/ LeaveBracket(q)
      PROVE EndsBadly(r)'
  BY <1>3 DEF HookStarts, HookTerminated, LeaveBracket, Finished
<1>4. ASSUME NEW q \in Runs, NEW ok \in BOOLEAN, HookExits(q, ok)
      PROVE EndsBadly(r)'
  BY <1>4 DEF HookExits, Finished
<1>5. ASSUME NEW q \in Runs, ReopenPool(q) PROVE EndsBadly(r)'
  BY <1>5 DEF ReopenPool
<1>6. ASSUME NEW q \in Runs, HookStep(q)
      PROVE EndsBadly(r)'
  BY <1>6 DEF HookStep, HookOpens, HookWrites, HookCloses, OrphanExits
<1>7. ASSUME NEW q \in Runs, Faulty(q) PROVE EndsBadly(r)'
  BY <1>7 DEF Faulty, WorkInterrupted, ConnCancelled, EnterCancelled,
     HookCancelled, HookAbandoned, ReopenCancelled, HowInterrupted
<1>8. ASSUME NEW p \in Pages, PageStep(p) PROVE EndsBadly(r)'
  BY <1>8 DEF PageStep, Render, FetchStart, FetchCut, FetchEnd, Poll
<1>9. QED
  BY <1>1, <1>2, <1>3, <1>4, <1>5, <1>6, <1>7, <1>8 DEF Next, RunStep

-----------------------------------------------------------------------------
(* The pool gets the file back.                                            *)

(* A run leaves the bracket by giving the file back or by ending badly.    *)
LEMMA BracketLeft ==
  ASSUME TypeOK, Next, NEW r \in Runs, pc[r] \in InBracket
  PROVE  \/ pc'[r] \in InBracket \/ lease' = Pool
         \/ pc'[r] \in {"failed", "cancelled"}
<1> DEFINE Goal == \/ pc'[r] \in InBracket \/ lease' = Pool
                   \/ pc'[r] \in {"failed", "cancelled"}
<1> USE DEF Quiet, dataVars, pageVars, runVars, hookVars, HookGone, InBracket,
            TypeOK, Goto
<1>1. ASSUME NEW q \in Runs, NEW k \in Kinds, Start(q, k) PROVE Goal
  BY <1>1 DEF Start
<1>2. ASSUME NEW q \in Runs,
             \/ OpenConn(q) \/ Wipe(q) \/ CloseConn(q) \/ EnterBracket(q)
             \/ BuildSql(q) \/ ApplySql(q) \/ ApplyOverlay(q)
             \/ RefreshViews(q) \/ Reload(q) \/ Unwind(q)
      PROVE Goal
  BY <1>2 DEF OpenConn, Wipe, CloseConn, EnterBracket, BuildSql,
     ApplySql, ApplyOverlay, RefreshViews, Reload, Unwind
<1>3. ASSUME NEW q \in Runs,
             HookStarts(q) \/ HookTerminated(q) \/ LeaveBracket(q)
      PROVE Goal
  BY <1>3 DEF HookStarts, HookTerminated, LeaveBracket
<1>4. ASSUME NEW q \in Runs, NEW ok \in BOOLEAN, HookExits(q, ok) PROVE Goal
  BY <1>4 DEF HookExits
<1>5. ASSUME NEW q \in Runs, ReopenPool(q) PROVE Goal
  BY <1>5 DEF ReopenPool, Lease!Reopen
<1>6. ASSUME NEW q \in Runs, HookStep(q) PROVE Goal
  BY <1>6 DEF HookStep, HookOpens, HookWrites, HookCloses, OrphanExits
<1>7. ASSUME NEW q \in Runs, Faulty(q) PROVE Goal
  BY <1>7 DEF Faulty, WorkInterrupted, ConnCancelled, EnterCancelled,
     HookCancelled, HookAbandoned, ReopenCancelled
<1>8. ASSUME NEW p \in Pages, PageStep(p) PROVE Goal
  BY <1>8 DEF PageStep, Render, FetchStart, FetchCut, FetchEnd, Poll
<1>9. QED
  BY <1>1, <1>2, <1>3, <1>4, <1>5, <1>6, <1>7, <1>8 DEF Next, RunStep

(* The pool surrenders the file only to a run that enters the bracket, or  *)
(* is cancelled as it does.                                                *)
LEMMA PoolLeft ==
  ASSUME TypeOK, LeaseInv, Next, lease = Pool, lease' # Pool
  PROVE  \E r \in Runs : pc'[r] \in InBracket \cup {"cancelled"}
<1> DEFINE Goal == \E r \in Runs : pc'[r] \in InBracket \cup {"cancelled"}
<1> USE DEF Quiet, dataVars, pageVars, runVars, hookVars, HookGone
<1>1. ASSUME NEW r \in Runs, EnterBracket(r) PROVE Goal
  BY <1>1 DEF EnterBracket, Goto, TypeOK, InBracket
<1>2. ASSUME NEW r \in Runs, EnterCancelled(r) PROVE Goal
  BY <1>2 DEF EnterCancelled, Goto, TypeOK
<1>3. ASSUME NEW r \in Runs, LeaveBracket(r) PROVE Goal
  BY <1>3, PipelineLeaseAssumption DEF LeaveBracket, LeaseInv, InBracket
<1>4. ASSUME NEW r \in Runs, ReopenPool(r) PROVE Goal
  BY <1>4, PipelineLeaseAssumption DEF ReopenPool, LeaseInv, Lease!Reopen
<1>5. ASSUME NEW r \in Runs,
             \/ OpenConn(r) \/ Wipe(r) \/ CloseConn(r) \/ HookStarts(r)
             \/ HookTerminated(r) \/ BuildSql(r) \/ ApplySql(r)
             \/ ApplyOverlay(r) \/ RefreshViews(r) \/ Reload(r) \/ Unwind(r)
             \/ HookStep(r)
             \/ (\E ok \in BOOLEAN : HookExits(r, ok))
             \/ \E k \in Kinds : Start(r, k)
      PROVE Goal
  BY <1>5 DEF OpenConn, Wipe, CloseConn, HookStarts, HookTerminated, BuildSql,
     ApplySql, ApplyOverlay, RefreshViews, Reload, Unwind, HookStep,
     HookOpens, HookWrites, HookCloses, OrphanExits, HookExits, Start
<1>6. ASSUME NEW r \in Runs,
             \/ WorkInterrupted(r) \/ ConnCancelled(r) \/ HookCancelled(r)
             \/ HookAbandoned(r) \/ ReopenCancelled(r)
      PROVE Goal
  BY <1>6 DEF WorkInterrupted, ConnCancelled, HookCancelled, HookAbandoned,
     ReopenCancelled
<1>7. ASSUME NEW p \in Pages, PageStep(p) PROVE Goal
  BY <1>7 DEF PageStep, Render, FetchStart, FetchCut, FetchEnd, Poll,
     Lease!Admit,
     Lease!End
<1>8. QED
  BY <1>1, <1>2, <1>3, <1>4, <1>5, <1>6, <1>7 DEF Next, RunStep, Faulty

LEMMA ReturnStep ==
  ASSUME TypeOK, LeaseInv, OutInv, PoolReturned, Next
  PROVE  PoolReturned'
<1> SUFFICES ASSUME lease' # Pool
             PROVE  \E r \in Runs : pc'[r] \in InBracket \/ EndsBadly(r)'
  BY DEF PoolReturned
<1>1. CASE lease = Pool
  BY <1>1, PoolLeft DEF EndsBadly
<1>2. CASE lease # Pool
  <2>1. PICK r \in Runs : pc[r] \in InBracket \/ EndsBadly(r)
    BY <1>2 DEF PoolReturned
  <2>2. CASE pc[r] \in InBracket
    BY <2>2, BracketLeft DEF EndsBadly
  <2>3. CASE EndsBadly(r)
    BY <2>3, BadEndStays
  <2>4. QED
    BY <2>1, <2>2, <2>3
<1>3. QED
  BY <1>1, <1>2

-----------------------------------------------------------------------------
(* The views.                                                              *)

(* A run that is behind with the views stays so until somebody refreshes   *)
(* them.                                                                   *)
LEMMA UnrefreshedStays ==
  ASSUME TypeOK, OutInv, Next, NEW r \in Runs, Unrefreshed(r)
  PROVE  Unrefreshed(r)' \/ mv' = rows'
<1> DEFINE Goal == Unrefreshed(r)' \/ mv' = rows'
<1> USE DEF Quiet, dataVars, pageVars, runVars, hookVars, HookGone, InBracket,
            Unrefreshed, TypeOK,
            OutInv, Goto, Finished
<1>1. ASSUME NEW q \in Runs, NEW k \in Kinds, Start(q, k) PROVE Goal
  BY <1>1 DEF Start
<1>2. ASSUME NEW q \in Runs,
             \/ OpenConn(q) \/ Wipe(q) \/ CloseConn(q) \/ EnterBracket(q)
             \/ BuildSql(q) \/ ApplySql(q) \/ ApplyOverlay(q) \/ Reload(q)
             \/ Unwind(q)
      PROVE Goal
  BY <1>2 DEF OpenConn, Wipe, CloseConn, EnterBracket, BuildSql, ApplySql,
     ApplyOverlay, Reload, Unwind
<1>3. ASSUME NEW q \in Runs, RefreshViews(q) PROVE Goal
  BY <1>3 DEF RefreshViews
<1>4. ASSUME NEW q \in Runs,
             HookStarts(q) \/ HookTerminated(q) \/ LeaveBracket(q)
      PROVE Goal
  BY <1>4 DEF HookStarts, HookTerminated, LeaveBracket
<1>5. ASSUME NEW q \in Runs, NEW ok \in BOOLEAN, HookExits(q, ok) PROVE Goal
  BY <1>5 DEF HookExits
<1>6. ASSUME NEW q \in Runs, ReopenPool(q) PROVE Goal
  BY <1>6 DEF ReopenPool
<1>7. ASSUME NEW q \in Runs, HookStep(q) PROVE Goal
  BY <1>7 DEF HookStep, HookOpens, HookWrites, HookCloses, OrphanExits
<1>8. ASSUME NEW q \in Runs, Faulty(q) PROVE Goal
  BY <1>8 DEF Faulty, WorkInterrupted, ConnCancelled, EnterCancelled,
     HookCancelled, HookAbandoned, ReopenCancelled, HowInterrupted
<1>9. ASSUME NEW p \in Pages, PageStep(p) PROVE Goal
  BY <1>9 DEF PageStep, Render, FetchStart, FetchCut, FetchEnd, Poll
<1>10. QED
  BY <1>1, <1>2, <1>3, <1>4, <1>5, <1>6, <1>7, <1>8, <1>9 DEF Next, RunStep

(* Whoever changes the rows is behind with the views; this is where a hook *)
(* that outlived its run matters, since that run has ended badly.          *)
LEMMA RowsChange ==
  ASSUME TypeOK, OutInv, SubInv, FileInv, Next,
         <<rows, mv>>' # <<rows, mv>>
  PROVE  mv' = rows' \/ \E r \in Runs : Unrefreshed(r)'
<1> DEFINE Goal == mv' = rows' \/ \E r \in Runs : Unrefreshed(r)'
<1> USE DEF Quiet, dataVars, pageVars, runVars, hookVars, HookGone, InBracket,
            Unrefreshed, TypeOK,
            Goto
<1>1. ASSUME NEW r \in Runs,
             \/ Wipe(r) \/ ApplySql(r) \/ ApplyOverlay(r) \/ RefreshViews(r)
      PROVE Goal
  BY <1>1 DEF Wipe, ApplySql, ApplyOverlay, RefreshViews
<1>2. ASSUME NEW r \in Runs, HookWrites(r) PROVE Goal
  BY <1>2 DEF HookWrites, SubInv, FileInv
<1>3. ASSUME NEW r \in Runs, WorkInterrupted(r) PROVE Goal
  BY <1>3 DEF WorkInterrupted, HowInterrupted
<1>4. ASSUME NEW r \in Runs,
             \/ OpenConn(r) \/ CloseConn(r) \/ EnterBracket(r)
             \/ HookStarts(r) \/ HookTerminated(r) \/ LeaveBracket(r)
             \/ ReopenPool(r) \/ BuildSql(r) \/ Reload(r) \/ Unwind(r)
             \/ HookOpens(r) \/ HookCloses(r) \/ OrphanExits(r)
             \/ (\E ok \in BOOLEAN : HookExits(r, ok))
             \/ \E k \in Kinds : Start(r, k)
      PROVE Goal
  BY <1>4 DEF OpenConn, CloseConn, EnterBracket, HookStarts, HookTerminated,
     LeaveBracket, ReopenPool, BuildSql, Reload, Unwind, HookOpens,
     HookCloses, OrphanExits, HookExits, Start
<1>5. ASSUME NEW r \in Runs,
             \/ ConnCancelled(r) \/ EnterCancelled(r) \/ HookCancelled(r)
             \/ HookAbandoned(r) \/ ReopenCancelled(r)
      PROVE Goal
  BY <1>5 DEF ConnCancelled, EnterCancelled, HookCancelled, HookAbandoned,
     ReopenCancelled
<1>6. ASSUME NEW p \in Pages, PageStep(p) PROVE Goal
  BY <1>6 DEF PageStep, Render, FetchStart, FetchCut, FetchEnd, Poll
<1>7. QED
  BY <1>1, <1>2, <1>3, <1>4, <1>5, <1>6 DEF Next, RunStep, HookStep, Faulty

LEMMA ViewsStep ==
  ASSUME TypeOK, OutInv, SubInv, FileInv, ViewsInv, Next
  PROVE  ViewsInv'
<1>1. CASE <<rows, mv>>' # <<rows, mv>>
  BY <1>1, RowsChange DEF ViewsInv
<1>2. CASE <<rows, mv>>' = <<rows, mv>> /\ mv = rows
  BY <1>2 DEF ViewsInv
<1>3. CASE \E r \in Runs : Unrefreshed(r)
  BY <1>3, UnrefreshedStays DEF ViewsInv
<1>4. QED
  BY <1>1, <1>2, <1>3 DEF ViewsInv

-----------------------------------------------------------------------------
(* The pages.                                                              *)

(* A bump of the generation is ahead, or a run was interrupted.            *)
BumpDue == \E r \in Runs : pc[r] = "reload" \/ EndsBadly(r)

LEMMA GenStep ==
  ASSUME TypeOK, Next
  PROVE  gen' = gen \/ (gen' = gen + 1 /\ UNCHANGED pageVars)
<1> DEFINE Goal == gen' = gen \/ (gen' = gen + 1 /\ UNCHANGED pageVars)
<1> USE DEF Quiet, dataVars, pageVars, runVars, hookVars, HookGone
<1>1. ASSUME NEW r \in Runs,
             \/ OpenConn(r) \/ Wipe(r) \/ CloseConn(r) \/ EnterBracket(r)
             \/ HookStarts(r) \/ HookTerminated(r) \/ LeaveBracket(r)
             \/ ReopenPool(r) \/ BuildSql(r) \/ ApplySql(r) \/ ApplyOverlay(r)
             \/ RefreshViews(r) \/ Reload(r) \/ Unwind(r) \/ HookStep(r)
             \/ (\E ok \in BOOLEAN : HookExits(r, ok))
             \/ \E k \in Kinds : Start(r, k)
      PROVE Goal
  BY <1>1 DEF OpenConn, Wipe, CloseConn, EnterBracket, HookStarts,
     HookTerminated, LeaveBracket, ReopenPool, BuildSql, ApplySql,
     ApplyOverlay, RefreshViews, Reload, Unwind, HookStep, HookOpens,
     HookWrites, HookCloses, OrphanExits,
     HookExits, Start
<1>2. ASSUME NEW r \in Runs, Faulty(r) PROVE Goal
  BY <1>2 DEF Faulty, WorkInterrupted, ConnCancelled, EnterCancelled,
     HookCancelled, HookAbandoned, ReopenCancelled
<1>3. ASSUME NEW p \in Pages, PageStep(p) PROVE Goal
  BY <1>3 DEF PageStep, Render, FetchStart, FetchCut, FetchEnd, Poll
<1>4. QED
  BY <1>1, <1>2, <1>3 DEF Next, RunStep

(* A page comes to show something only by fetching the current views, and  *)
(* carries no generation but one the server had.                           *)
LEMMA PageMoves ==
  ASSUME TypeOK, Next, NEW p \in Pages
  PROVE  /\ base'[p] = base[p] \/ (base'[p] = gen /\ page'[p] # "shown")
         /\ page'[p] = "shown" =>
              \/ page[p] = "shown" /\ shown'[p] = shown[p]
              \/ shown'[p] = mv /\ UNCHANGED mv
<1> DEFINE Goal ==
      /\ base'[p] = base[p] \/ (base'[p] = gen /\ page'[p] # "shown")
      /\ page'[p] = "shown" =>
           \/ page[p] = "shown" /\ shown'[p] = shown[p]
           \/ shown'[p] = mv /\ UNCHANGED mv
<1> USE DEF Quiet, dataVars, pageVars, runVars, hookVars, HookGone, TypeOK
<1>1. ASSUME NEW r \in Runs,
             \/ OpenConn(r) \/ Wipe(r) \/ CloseConn(r)
             \/ HookStarts(r) \/ HookTerminated(r) \/ LeaveBracket(r)
             \/ ReopenPool(r) \/ BuildSql(r) \/ ApplySql(r) \/ ApplyOverlay(r)
             \/ RefreshViews(r) \/ Reload(r) \/ Unwind(r) \/ HookStep(r)
             \/ (\E ok \in BOOLEAN : HookExits(r, ok))
             \/ \E k \in Kinds : Start(r, k)
      PROVE Goal
  BY <1>1 DEF OpenConn, Wipe, CloseConn, HookStarts, HookTerminated,
     LeaveBracket, ReopenPool, BuildSql, ApplySql, ApplyOverlay, RefreshViews,
     Reload, Unwind, HookStep, HookOpens, HookWrites, HookCloses, OrphanExits,
     HookExits, Start
<1>2. ASSUME NEW r \in Runs, EnterBracket(r) \/ EnterCancelled(r) PROVE Goal
  BY <1>2 DEF EnterBracket, EnterCancelled, PullCursors, DoomCursors
<1>3. ASSUME NEW r \in Runs,
             \/ WorkInterrupted(r) \/ ConnCancelled(r) \/ HookCancelled(r)
             \/ HookAbandoned(r) \/ ReopenCancelled(r)
      PROVE Goal
  BY <1>3 DEF WorkInterrupted, ConnCancelled, HookCancelled, HookAbandoned,
     ReopenCancelled
<1>4. ASSUME NEW q \in Pages, PageStep(q) PROVE Goal
  BY <1>4 DEF PageStep, Render, FetchStart, FetchCut, FetchEnd, Poll
<1>5. QED
  BY <1>1, <1>2, <1>3, <1>4 DEF Next, RunStep, Faulty

(* Who refreshes the views bumps the generation next, or was interrupted.  *)
LEMMA ViewsChange ==
  ASSUME TypeOK, Next, mv' # mv
  PROVE  BumpDue'
<1> USE DEF Quiet, dataVars, pageVars, runVars, hookVars, HookGone, TypeOK,
            Goto, BumpDue, EndsBadly
<1>1. ASSUME NEW r \in Runs, RefreshViews(r) PROVE BumpDue'
  BY <1>1 DEF RefreshViews
<1>2. ASSUME NEW r \in Runs, WorkInterrupted(r) PROVE BumpDue'
  BY <1>2 DEF WorkInterrupted, HowInterrupted
<1>3. ASSUME NEW r \in Runs,
             \/ OpenConn(r) \/ Wipe(r) \/ CloseConn(r) \/ EnterBracket(r)
             \/ HookStarts(r) \/ HookTerminated(r) \/ LeaveBracket(r)
             \/ ReopenPool(r) \/ BuildSql(r) \/ ApplySql(r) \/ ApplyOverlay(r)
             \/ Reload(r) \/ Unwind(r) \/ HookStep(r)
             \/ (\E ok \in BOOLEAN : HookExits(r, ok))
             \/ \E k \in Kinds : Start(r, k)
      PROVE BumpDue'
  BY <1>3 DEF OpenConn, Wipe, CloseConn, EnterBracket, HookStarts,
     HookTerminated, LeaveBracket, ReopenPool, BuildSql, ApplySql,
     ApplyOverlay, Reload, Unwind, HookStep, HookOpens, HookWrites,
     HookCloses, OrphanExits, HookExits, Start
<1>4. ASSUME NEW r \in Runs,
             \/ ConnCancelled(r) \/ EnterCancelled(r) \/ HookCancelled(r)
             \/ HookAbandoned(r) \/ ReopenCancelled(r)
      PROVE BumpDue'
  BY <1>4 DEF ConnCancelled, EnterCancelled, HookCancelled, HookAbandoned,
     ReopenCancelled
<1>5. ASSUME NEW p \in Pages, PageStep(p) PROVE BumpDue'
  BY <1>5 DEF PageStep, Render, FetchStart, FetchCut, FetchEnd, Poll
<1>6. QED
  BY <1>1, <1>2, <1>3, <1>4, <1>5 DEF Next, RunStep, Faulty

(* The bump that is due comes before anything else can take it away.       *)
LEMMA BumpStaysDue ==
  ASSUME TypeOK, OutInv, Next, BumpDue
  PROVE  BumpDue' \/ gen' = gen + 1
<1>1. PICK r \in Runs : pc[r] = "reload" \/ EndsBadly(r)
  BY DEF BumpDue
<1>2. CASE EndsBadly(r)
  BY <1>2, BadEndStays DEF BumpDue
<1>3. ASSUME pc[r] = "reload" PROVE pc'[r] = "reload" \/ gen' = gen + 1
  <2> DEFINE Goal == pc'[r] = "reload" \/ gen' = gen + 1
  <2> USE <1>3 DEF Quiet, dataVars, pageVars, runVars, hookVars, HookGone,
          TypeOK, Goto
  <2>1. ASSUME NEW q \in Runs, Reload(q) PROVE Goal
    BY <2>1 DEF Reload
  <2>2. ASSUME NEW q \in Runs,
               \/ OpenConn(q) \/ Wipe(q) \/ CloseConn(q) \/ EnterBracket(q)
               \/ HookStarts(q) \/ HookTerminated(q) \/ LeaveBracket(q)
               \/ ReopenPool(q) \/ BuildSql(q) \/ ApplySql(q)
               \/ ApplyOverlay(q) \/ RefreshViews(q) \/ Unwind(q)
               \/ HookStep(q)
               \/ (\E ok \in BOOLEAN : HookExits(q, ok))
               \/ \E k \in Kinds : Start(q, k)
        PROVE Goal
    BY <2>2 DEF OpenConn, Wipe, CloseConn, EnterBracket, HookStarts,
       HookTerminated, LeaveBracket, ReopenPool, BuildSql, ApplySql,
       ApplyOverlay, RefreshViews, Unwind, HookStep, HookOpens, HookWrites,
       HookCloses, OrphanExits,
       HookExits, Start
  <2>3. ASSUME NEW q \in Runs, Faulty(q) PROVE Goal
    BY <2>3 DEF Faulty, WorkInterrupted, ConnCancelled, EnterCancelled,
       HookCancelled, HookAbandoned, ReopenCancelled
  <2>4. ASSUME NEW p \in Pages, PageStep(p) PROVE Goal
    BY <2>4 DEF PageStep, Render, FetchStart, FetchCut, FetchEnd, Poll
  <2>5. QED
    BY <2>1, <2>2, <2>3, <2>4 DEF Next, RunStep
<1>4. QED
  BY <1>1, <1>2, <1>3 DEF BumpDue

LEMMA PageStepInv ==
  ASSUME TypeOK, OutInv, PageInv, Next
  PROVE  PageInv'
<1> SUFFICES ASSUME NEW p \in Pages
             PROVE  /\ base'[p] <= gen'
                    /\ page'[p] = "shown" /\ base'[p] = gen' =>
                         shown'[p] = mv' \/ BumpDue'
  BY DEF PageInv, BumpDue
<1>1. /\ base[p] <= gen /\ base[p] \in Nat /\ gen \in Nat
      /\ page[p] = "shown" /\ base[p] = gen => shown[p] = mv \/ BumpDue
  BY DEF PageInv, TypeOK, BumpDue
<1>2. CASE gen' = gen + 1 /\ UNCHANGED pageVars
  BY <1>1, <1>2 DEF pageVars
<1>3. CASE gen' = gen
  <2>1. base'[p] <= gen'
    BY <1>1, <1>3, PageMoves
  <2>2. ASSUME page'[p] = "shown", base'[p] = gen', ~BumpDue'
        PROVE  shown'[p] = mv'
    <3>1. mv' = mv
      BY <2>2, ViewsChange
    <3>2. ~BumpDue
      BY <1>1, <1>3, <2>2, BumpStaysDue
    <3>3. base[p] = gen
      BY <1>3, <2>2, PageMoves
    <3>4. QED
      BY <1>1, <2>2, <3>1, <3>2, <3>3, PageMoves
  <2>3. QED
    BY <2>1, <2>2
<1>4. QED
  BY <1>2, <1>3, GenStep

-----------------------------------------------------------------------------
(* The invariant and what follows from it.                                 *)

LEMMA NextIInv == IInv /\ [Next]_vars => IInv'
<1> SUFFICES ASSUME IInv, [Next]_vars PROVE IInv'
  OBVIOUS
<1>1. CASE Next
  <2>1. TypeOK'
    BY <1>1, StartType, RunType, PageType DEF IInv, Next
  <2>2. LeaseInv' /\ OutInv' /\ SubInv' /\ FileInv'
    BY <1>1, LeaseStep, OutStep, SubStep, FileStep DEF IInv
  <2>3. PoolReturned' /\ ViewsInv' /\ PageInv'
    BY <1>1, ReturnStep, ViewsStep, PageStepInv DEF IInv
  <2>4. QED
    BY <2>1, <2>2, <2>3 DEF IInv
<1>2. CASE UNCHANGED vars
  BY <1>2 DEF IInv, TypeOK, LeaseInv, OutInv, SubInv, FileInv, PoolReturned,
     ViewsInv,
     Unrefreshed, PageInv, EndsBadly, vars, dataVars, runVars, hookVars,
     pageVars
<1>3. QED
  BY <1>1, <1>2

LEMMA AlwaysIInv == Spec => []IInv
BY InitIInv, NextIInv, PTL DEF Spec

(* Every variable has its type in every reachable state, whatever the      *)
(* scripts, the hook and the faults do to the rows.                        *)
THEOREM PipelineTypes == Spec => []TypeOK
<1>1. IInv => TypeOK
  BY DEF IInv
<1>2. QED
  BY <1>1, AlwaysIInv, PTL

(* Whoever runs the body of `released_for_subprocess` has the lease of the *)
(* file: any number of runs of any handlers, started at any time, never    *)
(* have two hooks' brackets at once, nor one beside a live dashboard read. *)
THEOREM BracketsExclude == Spec => []HookOwnsLease
<1>1. IInv => HookOwnsLease
  BY DEF IInv, LeaseInv, HookOwnsLease
<1>2. QED
  BY <1>1, AlwaysIInv, PTL

(* The bracket's finally gives the pool the file back, also after a hook   *)
(* that failed, unless some run was cut short by an exception or a cancel. *)
THEOREM FileReturned == Spec => []PoolReturned
<1>1. IInv => PoolReturned
  BY DEF IInv
<1>2. QED
  BY <1>1, AlwaysIInv, PTL

(* When every run that was started has completed, the views are derived    *)
(* from the rows the base tables hold, however the runs overlapped.        *)
THEOREM ViewsFresh == Spec => []FreshAtRest
<1>1. IInv => FreshAtRest
  BY DEF IInv, ViewsInv, Unrefreshed, FreshAtRest, InBracket
<1>2. QED
  BY <1>1, AlwaysIInv, PTL

(* A page whose generation is the server's and whose visuals the server    *)
(* answered shows the server's views, since `step_5_reload` follows each   *)
(* refresh that is not interrupted.  Of visuals the browser answered from  *)
(* its own copy the theorem says nothing: they may be older.               *)
THEOREM PagesFresh == Spec => []PageFresh
<1>1. IInv => PageFresh
  BY DEF IInv, PageInv, PageFresh
<1>2. QED
  BY <1>1, AlwaysIInv, PTL

-----------------------------------------------------------------------------
(* Rows stamped real.                                                      *)

(* The actions that change base rows. *)
LEMMA RowsKept ==
  ASSUME Next,
         \A r \in Runs : /\ ~Wipe(r) /\ ~HookWrites(r) /\ ~ApplySql(r)
                         /\ ~ApplyOverlay(r) /\ ~WorkInterrupted(r)
  PROVE  rows' = rows
<1> USE DEF Quiet, dataVars, pageVars, runVars, hookVars, HookGone
<1>1. ASSUME NEW r \in Runs,
             \/ OpenConn(r) \/ CloseConn(r) \/ EnterBracket(r)
             \/ HookStarts(r) \/ HookTerminated(r) \/ LeaveBracket(r)
             \/ ReopenPool(r) \/ BuildSql(r) \/ RefreshViews(r) \/ Reload(r)
             \/ Unwind(r)
             \/ HookOpens(r) \/ HookCloses(r) \/ OrphanExits(r)
             \/ (\E ok \in BOOLEAN : HookExits(r, ok))
             \/ \E k \in Kinds : Start(r, k)
      PROVE rows' = rows
  BY <1>1 DEF OpenConn, CloseConn, EnterBracket, HookStarts, HookTerminated,
     LeaveBracket, ReopenPool, BuildSql, RefreshViews, Reload, Unwind,
     HookOpens, HookCloses, OrphanExits, HookExits, Start
<1>2. ASSUME NEW r \in Runs,
             \/ ConnCancelled(r) \/ EnterCancelled(r) \/ HookCancelled(r)
             \/ HookAbandoned(r) \/ ReopenCancelled(r)
      PROVE rows' = rows
  BY <1>2 DEF ConnCancelled, EnterCancelled, HookCancelled, HookAbandoned,
     ReopenCancelled
<1>3. ASSUME NEW p \in Pages, PageStep(p) PROVE rows' = rows
  BY <1>3 DEF PageStep, Render, FetchStart, FetchCut, FetchEnd, Poll
<1>4. QED
  BY <1>1, <1>2, <1>3 DEF Next, RunStep, HookStep, Faulty

(* A run is at the gap overlay only if it is an /etl/run without a hook.   *)
OverlayInv == \A r \in Runs : pc[r] = "overlay" => GapOverlay(r)

LEMMA OverlayStep ==
  ASSUME TypeOK, OverlayInv, Next
  PROVE  OverlayInv'
<1> USE DEF Quiet, dataVars, pageVars, runVars, hookVars, HookGone,
            OverlayInv, GapOverlay, TypeOK,
            Goto, Finished
<1>1. ASSUME NEW r \in Runs, NEW k \in Kinds, Start(r, k) PROVE OverlayInv'
  BY <1>1 DEF Start
<1>2. ASSUME NEW r \in Runs,
             \/ OpenConn(r) \/ Wipe(r) \/ CloseConn(r) \/ EnterBracket(r)
             \/ BuildSql(r) \/ ApplyOverlay(r) \/ RefreshViews(r) \/ Reload(r)
      PROVE OverlayInv'
  BY <1>2 DEF OpenConn, Wipe, CloseConn, EnterBracket, BuildSql, ApplyOverlay,
     RefreshViews, Reload
<1>3. ASSUME NEW r \in Runs, ApplySql(r) PROVE OverlayInv'
  BY <1>3 DEF ApplySql
<1>4. ASSUME NEW r \in Runs,
             \/ HookStarts(r) \/ HookTerminated(r) \/ LeaveBracket(r)
             \/ HookStep(r)
             \/ (\E ok \in BOOLEAN : HookExits(r, ok))
      PROVE OverlayInv'
  BY <1>4 DEF HookStarts, HookTerminated, LeaveBracket, HookStep, HookOpens,
     HookWrites, HookCloses, OrphanExits, HookExits
<1>5. ASSUME NEW r \in Runs, ReopenPool(r) \/ Unwind(r) PROVE OverlayInv'
  BY <1>5 DEF ReopenPool, Unwind
<1>6. ASSUME NEW r \in Runs, Faulty(r) PROVE OverlayInv'
  BY <1>6 DEF Faulty, WorkInterrupted, ConnCancelled, EnterCancelled,
     HookCancelled, HookAbandoned, ReopenCancelled
<1>7. ASSUME NEW p \in Pages, PageStep(p) PROVE OverlayInv'
  BY <1>7 DEF PageStep, Render, FetchStart, FetchCut, FetchEnd, Poll
<1>8. QED
  BY <1>1, <1>2, <1>3, <1>4, <1>5, <1>6, <1>7 DEF Next, RunStep

LEMMA AlwaysOverlayInv == Spec => []OverlayInv
<1>1. Init => OverlayInv
  BY DEF Init, OverlayInv
<1>2. IInv /\ OverlayInv /\ [Next]_vars => OverlayInv'
  <2>1. OverlayInv /\ UNCHANGED vars => OverlayInv'
    BY DEF OverlayInv, GapOverlay, vars, runVars
  <2>2. QED
    BY <2>1, OverlayStep DEF IInv
<1>3. QED
  BY <1>1, <1>2, AlwaysIInv, PTL DEF Spec

(* The auto-mark stamps only rows that carry no stamp.                     *)
LEMMA AutoMarkKeepsReal ==
  ASSUME TypeOK, NEW x \in rows, x.stamp = "real"
  PROVE  x \in AutoMarked
<1>1. CASE hook
  BY <1>1 DEF AutoMarked
<1>2. CASE ~hook
  <2>1. x \in Row
    BY DEF TypeOK
  <2>2. x = [x EXCEPT !.stamp = IF @ = "none" THEN "training" ELSE @]
    BY <2>1 DEF Row
  <2>3. QED
    BY <1>2, <2>2 DEF AutoMarked
<1>3. QED
  BY <1>1, <1>2

LEMMA NarrowWipeKeepsReal ==
  ASSUME TypeOK, NEW r \in Runs, SyntheticOnly(r),
         NEW x \in rows, x.stamp = "real"
  PROVE  x \in Wiped(r)
BY AutoMarkKeepsReal DEF Wiped

(* A row stamped real that a step loses, it loses to a full wipe or to a   *)
(* gap overlay.                                                            *)
LEMMA RealLost ==
  ASSUME TypeOK, OverlayInv, Next,
         NEW x \in rows, x.stamp = "real", x \notin rows'
  PROVE  \E r \in Runs : \/ pc[r] = "wipe" /\ ~SyntheticOnly(r)
                         \/ pc[r] = "overlay" /\ GapOverlay(r)
<1> DEFINE Goal == \E r \in Runs : \/ pc[r] = "wipe" /\ ~SyntheticOnly(r)
                                   \/ pc[r] = "overlay" /\ GapOverlay(r)
<1>1. ASSUME NEW r \in Runs, Wipe(r) PROVE Goal
  BY <1>1, NarrowWipeKeepsReal DEF Wipe
<1>2. ASSUME NEW r \in Runs, HookWrites(r) \/ ApplySql(r) PROVE FALSE
  BY <1>2 DEF HookWrites, ApplySql
<1>3. ASSUME NEW r \in Runs, ApplyOverlay(r) PROVE Goal
  BY <1>3 DEF ApplyOverlay, OverlayInv
<1>4. ASSUME NEW r \in Runs, WorkInterrupted(r) PROVE Goal
  <2>1. Effect(r)
    BY <1>4 DEF WorkInterrupted
  <2>2. CASE pc[r] = "wipe" /\ rows' \in {AutoMarked, Wiped(r)}
    BY <2>2, AutoMarkKeepsReal, NarrowWipeKeepsReal
  <2>3. CASE pc[r] = "overlay"
    BY <2>3 DEF OverlayInv
  <2>4. CASE \/ UNCHANGED rows
             \/ \E part \in SUBSET Generated(r) : rows' = rows \cup part
    BY <2>4
  <2>5. QED
    BY <2>1, <2>2, <2>3, <2>4 DEF Effect
<1>5. QED
  BY <1>1, <1>2, <1>3, <1>4, RowsKept

(* Rows stamped real survive everything but a full wipe and the overlay of *)
(* a standalone /etl/run, whatever runs overlap and are interrupted.       *)
THEOREM RealRowsSurvive == Spec => RealSurvive
<1>1. IInv /\ OverlayInv /\ [Next]_vars =>
        [(\E x \in rows : x.stamp = "real" /\ x \notin rows') =>
           \E r \in Runs : \/ pc[r] = "wipe" /\ ~SyntheticOnly(r)
                           \/ pc[r] = "overlay" /\ GapOverlay(r)]_vars
  BY RealLost DEF IInv
<1>2. QED
  BY <1>1, AlwaysIInv, AlwaysOverlayInv, PTL DEF Spec, RealSurvive

-----------------------------------------------------------------------------
(* The file lease.                                                         *)

(* A run takes the lease, returns it and reopens the pool as FileLease     *)
(* allows; every other step of a run leaves it alone.                      *)
LEMMA RunStepsLease ==
  ASSUME NEW r \in Runs,
         \/ \E k \in Kinds : Start(r, k)
         \/ EnterBracket(r) \/ RunStep(r) \/ HookStep(r)
         \/ Faulty(r)
  PROVE  [Lease!Next]_(Lease!leaseVars)
<1> USE DEF Lease!Next, Lease!leaseVars
<1>1. CASE EnterBracket(r)
  BY <1>1 DEF EnterBracket
<1>2. CASE LeaveBracket(r)
  BY <1>2 DEF LeaveBracket
<1>3. CASE ReopenPool(r)
  BY <1>3 DEF ReopenPool
<1>4. CASE EnterCancelled(r)
  BY <1>4 DEF EnterCancelled
<1>5. CASE \/ OpenConn(r) \/ Wipe(r) \/ CloseConn(r) \/ HookStarts(r)
           \/ HookTerminated(r) \/ BuildSql(r) \/ ApplySql(r)
           \/ ApplyOverlay(r) \/ RefreshViews(r) \/ Reload(r) \/ Unwind(r)
           \/ HookStep(r)
           \/ (\E ok \in BOOLEAN : HookExits(r, ok))
           \/ \E k \in Kinds : Start(r, k)
  BY <1>5 DEF OpenConn, Wipe, CloseConn, HookStarts, HookTerminated, BuildSql,
     ApplySql, ApplyOverlay, RefreshViews, Reload, Unwind, HookStep,
     HookOpens, HookWrites, HookCloses, OrphanExits, HookExits, Start, Quiet
<1>6. CASE \/ WorkInterrupted(r) \/ ConnCancelled(r) \/ HookCancelled(r)
           \/ HookAbandoned(r) \/ ReopenCancelled(r)
  BY <1>6 DEF WorkInterrupted, ConnCancelled, HookCancelled, HookAbandoned,
     ReopenCancelled, Quiet
<1>7. QED
  BY <1>1, <1>2, <1>3, <1>4, <1>5, <1>6 DEF RunStep, Faulty

LEMMA PageStepsLease ==
  ASSUME NEW p \in Pages, PageStep(p)
  PROVE  [Lease!Next]_(Lease!leaseVars)
BY DEF PageStep, Render, FetchStart, FetchCut, FetchEnd, Poll, Lease!Next,
   Lease!leaseVars

(* The runs and the pages use the file as FileLease says, which is all the *)
(* pool promises (PoolImplementsLease): whatever is true of the lease in   *)
(* this composition does not depend on anything else the pool does.        *)
THEOREM PipelineUsesLease == Spec => Lease!Spec
<1>1. Init => Lease!Init
  BY DEF Init
<1>2. [Next]_vars => [Lease!Next]_(Lease!leaseVars)
  BY RunStepsLease, PageStepsLease DEF Next, vars, Lease!leaseVars
<1>3. QED
  BY <1>1, <1>2, PTL DEF Spec, Lease!Spec

(* The pages that hold a cursor of the pool. *)
AdmittedInv ==
  admitted = {p \in Pages : page[p] \in {"fetching", "doomed", "pulled"}}

LEMMA AdmittedStep ==
  ASSUME TypeOK, AdmittedInv, Next
  PROVE  AdmittedInv'
<1> USE DEF Quiet, pageVars, AdmittedInv, TypeOK
<1>1. ASSUME NEW r \in Runs, EnterBracket(r) PROVE AdmittedInv'
  BY <1>1 DEF EnterBracket, PullCursors, Lease!Surrender, Lease!Take
<1>2. ASSUME NEW r \in Runs, LeaveBracket(r) \/ ReopenPool(r)
      PROVE AdmittedInv'
  BY <1>2 DEF LeaveBracket, ReopenPool, Lease!Return, Lease!Reopen
<1>3. ASSUME NEW r \in Runs, EnterCancelled(r) PROVE AdmittedInv'
  BY <1>3 DEF EnterCancelled, PullCursors, DoomCursors, Lease!Surrender
<1>4. ASSUME NEW r \in Runs,
             \/ OpenConn(r) \/ Wipe(r) \/ CloseConn(r) \/ HookStarts(r)
             \/ HookTerminated(r) \/ BuildSql(r) \/ ApplySql(r)
             \/ ApplyOverlay(r) \/ RefreshViews(r) \/ Reload(r) \/ Unwind(r)
             \/ HookStep(r)
             \/ (\E ok \in BOOLEAN : HookExits(r, ok))
             \/ \E k \in Kinds : Start(r, k)
      PROVE AdmittedInv'
  BY <1>4 DEF OpenConn, Wipe, CloseConn, HookStarts, HookTerminated, BuildSql,
     ApplySql, ApplyOverlay, RefreshViews, Reload, Unwind, HookStep,
     HookOpens, HookWrites, HookCloses, OrphanExits, HookExits, Start
<1>5. ASSUME NEW r \in Runs,
             \/ WorkInterrupted(r) \/ ConnCancelled(r) \/ HookCancelled(r)
             \/ HookAbandoned(r) \/ ReopenCancelled(r)
      PROVE AdmittedInv'
  BY <1>5 DEF WorkInterrupted, ConnCancelled, HookCancelled, HookAbandoned,
     ReopenCancelled
<1>6. ASSUME NEW p \in Pages, PageStep(p) PROVE AdmittedInv'
  BY <1>6 DEF PageStep, Render, FetchStart, FetchCut, FetchEnd, Poll,
     Lease!Admit,
     Lease!End
<1>7. QED
  BY <1>1, <1>2, <1>3, <1>4, <1>5, <1>6 DEF Next, RunStep, Faulty

(* The lease and the cursors are accounted for: no run has the lease but   *)
(* one in its bracket, so none takes it along by whichever exit it leaves, *)
(* and the cursors in use are those of pages that read or were cut off.    *)
LeaseAccounted ==
  /\ \A r \in Runs : lease = r => pc[r] \in InBracket \ {"reopen"}
  /\ admitted = {p \in Pages : page[p] \in {"fetching", "doomed", "pulled"}}

(* No exit from a run, normal or not, keeps the lease, and no fetch ends   *)
(* with its cursor still counted.                                          *)
THEOREM LeaseNotLeaked == Spec => []LeaseAccounted
<1>1. Init => AdmittedInv
  BY DEF Init, AdmittedInv, Lease!Init
<1>2. IInv /\ AdmittedInv /\ [Next]_vars => AdmittedInv'
  <2>1. AdmittedInv /\ UNCHANGED vars => AdmittedInv'
    BY DEF AdmittedInv, vars, pageVars
  <2>2. QED
    BY <2>1, AdmittedStep DEF IInv
<1>3. IInv /\ AdmittedInv => LeaseAccounted
  BY DEF IInv, LeaseInv, AdmittedInv, LeaseAccounted
<1>4. QED
  BY <1>1, <1>2, <1>3, AlwaysIInv, PTL DEF Spec

-----------------------------------------------------------------------------
(* How far a run has come. *)
Stage(s) ==
  CASE s = "idle" -> 0        [] s = "open1" -> 1       [] s = "wipe" -> 2
    [] s = "close1" -> 3      [] s = "enter" -> 4       [] s = "hook" -> 5
    [] s = "hookRun" -> 6     [] s = "terminating" -> 7 [] s = "leave" -> 8
    [] s = "reopen" -> 9      [] s = "open2" -> 10      [] s = "build" -> 11
    [] s = "apply" -> 12      [] s = "overlay" -> 13    [] s = "matviews" -> 14
    [] s = "reload" -> 15     [] s = "unwind" -> 16     [] s \in Finished -> 17

(* The run goes on to a later stage. *)
Advances(r) == pc'[r] # pc[r] => Stage(pc[r]) < Stage(pc'[r])

LEMMA Moves ==
  ASSUME TypeOK, NEW r \in Runs, NEW s, Goto(r, s), Stage(pc[r]) < Stage(s)
  PROVE  \A q \in Runs : Advances(q)
BY DEF TypeOK, Goto, Advances

LEMMA RunAdvances ==
  ASSUME TypeOK, Next
  PROVE  \A r \in Runs : Advances(r)
<1>0. \A r \in Runs : pc[r] \in RunState /\ out[r] \in Finished
  BY DEF TypeOK
<1>1. ASSUME NEW r \in Runs, NEW k \in Kinds, Start(r, k)
      PROVE  \A q \in Runs : Advances(q)
  <2>1. Stage("idle") < Stage("open1")
    BY DEF Stage, Finished
  <2>2. QED
    BY <1>1, <2>1, Moves DEF Start
<1>2. ASSUME NEW r \in Runs, Wipe(r) \/ CloseConn(r) \/ EnterBracket(r)
      PROVE  \A q \in Runs : Advances(q)
  <2>1. /\ Stage("wipe") < Stage("close1") /\ Stage("close1") < Stage("enter")
        /\ Stage("enter") < Stage("hook")
    BY DEF Stage, Finished
  <2>2. QED
    BY <1>2, <2>1, Moves DEF Wipe, CloseConn, EnterBracket
<1>3. ASSUME NEW r \in Runs, OpenConn(r)
      PROVE  \A q \in Runs : Advances(q)
  <2>1. /\ Stage("open1") < Stage("wipe") /\ Stage("open1") < Stage("failed")
        /\ Stage("open2") < Stage("build") /\ Stage("open2") < Stage("failed")
    BY DEF Stage, Finished
  <2>2. QED
    BY <1>3, <2>1, Moves DEF OpenConn
<1>4. ASSUME NEW r \in Runs,
             \/ HookStarts(r) \/ (\E ok \in BOOLEAN : HookExits(r, ok))
             \/ HookTerminated(r) \/ LeaveBracket(r)
      PROVE  \A q \in Runs : Advances(q)
  <2>1. /\ Stage("hook") < Stage("hookRun") /\ Stage("hook") < Stage("leave")
        /\ Stage("hookRun") < Stage("leave") /\ Stage("terminating") < Stage("leave")
        /\ Stage("leave") < Stage("reopen")
    BY DEF Stage, Finished
  <2>2. QED
    BY <1>4, <2>1, Moves DEF HookStarts, HookExits, HookTerminated,
       LeaveBracket
<1>5. ASSUME NEW r \in Runs, ReopenPool(r)
      PROVE  \A q \in Runs : Advances(q)
  <2>1. /\ Stage("reopen") < Stage("open2")
        /\ \A s \in Finished : Stage("reopen") < Stage(s)
    BY DEF Stage, Finished
  <2>2. QED
    BY <1>0, <1>5, <2>1, Moves DEF ReopenPool, Finished
<1>6. ASSUME NEW r \in Runs,
             \/ BuildSql(r) \/ ApplySql(r) \/ ApplyOverlay(r)
             \/ RefreshViews(r) \/ Reload(r)
      PROVE  \A q \in Runs : Advances(q)
  <2>1. /\ Stage("build") < Stage("apply") /\ Stage("apply") < Stage("overlay")
        /\ Stage("apply") < Stage("matviews") /\ Stage("overlay") < Stage("matviews")
        /\ Stage("matviews") < Stage("reload") /\ Stage("reload") < Stage("unwind")
    BY DEF Stage, Finished
  <2>2. QED
    BY <1>6, <2>1, Moves DEF BuildSql, ApplySql, ApplyOverlay, RefreshViews,
       Reload
<1>7. ASSUME NEW r \in Runs, Unwind(r)
      PROVE  \A q \in Runs : Advances(q)
  <2>1. \A s \in Finished : Stage("unwind") < Stage(s)
    BY DEF Stage, Finished
  <2>2. QED
    BY <1>0, <1>7, <2>1, Moves DEF Unwind
<1>8. ASSUME NEW r \in Runs, WorkInterrupted(r)
      PROVE  \A q \in Runs : Advances(q)
  <2>1. \A s \in {"wipe", "apply", "overlay", "matviews"} : Stage(s) < Stage("unwind")
    BY DEF Stage, Finished
  <2>2. QED
    BY <1>8, <2>1, Moves DEF WorkInterrupted
<1>9. ASSUME NEW r \in Runs, ConnCancelled(r) \/ EnterCancelled(r) \/ ReopenCancelled(r)
      PROVE  \A q \in Runs : Advances(q)
  <2>1. \A s \in {"open1", "close1", "open2", "unwind", "enter", "reopen"} :
          Stage(s) < Stage("cancelled")
    BY DEF Stage, Finished
  <2>2. QED
    BY <1>9, <2>1, Moves DEF ConnCancelled, EnterCancelled, ReopenCancelled
<1>10. ASSUME NEW r \in Runs, HookCancelled(r) \/ HookAbandoned(r)
       PROVE  \A q \in Runs : Advances(q)
  <2>1. /\ Stage("hookRun") < Stage("terminating") /\ Stage("hookRun") < Stage("leave")
        /\ Stage("terminating") < Stage("leave")
    BY DEF Stage, Finished
  <2>2. QED
    BY <1>10, <2>1, Moves DEF HookCancelled, HookAbandoned
<1>11. ASSUME pc' = pc
       PROVE  \A q \in Runs : Advances(q)
  BY <1>11 DEF Advances
<1>12. ASSUME NEW r \in Runs, HookStep(r)
       PROVE  \A q \in Runs : Advances(q)
  BY <1>11, <1>12 DEF HookStep, HookOpens, HookWrites, HookCloses,
     OrphanExits, runVars
<1>13. ASSUME NEW p \in Pages, PageStep(p)
       PROVE  \A q \in Runs : Advances(q)
  BY <1>11, <1>13 DEF PageStep, Render, FetchStart, FetchCut, FetchEnd, Poll,
     runVars
<1>14. QED
  BY <1>1, <1>2, <1>3, <1>4, <1>5, <1>6, <1>7, <1>8, <1>9, <1>10, <1>12, <1>13
     DEF Next, RunStep, Faulty

(* No run turns back, whatever it meets: not when the hook halts it, a     *)
(* statement fails, it is cancelled, or the file is taken.  A run makes    *)
(* seventeen moves at most, so that what RunsEnd needs beyond this is only *)
(* that each of them is made.                                              *)
THEOREM RunsAdvance == Spec => [][\A r \in Runs : Advances(r)]_vars
<1>1. IInv /\ [Next]_vars => [\A r \in Runs : Advances(r)]_vars
  BY RunAdvances DEF IInv
<1>2. QED
  BY <1>1, AlwaysIInv, PTL DEF Spec
=============================================================================
