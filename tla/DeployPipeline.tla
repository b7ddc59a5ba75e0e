--------------------------- MODULE DeployPipeline ---------------------------
(***************************************************************************)
(* `run_deploy_pipeline` (common/l2/deploy_pipeline.py) on a DuckDB file,  *)
(* as the Studio handlers start it: POST /deploy, /etl/run,                *)
(* /training/reset and the base leg of a training session start.  A run    *)
(* wipes the base tables, lets the ETL hook subprocess write them with the *)
(* pool released (the lease of FileLease), adds generated rows, refreshes  *)
(* the materialized views and bumps the data generation that open          *)
(* dashboard pages poll.  Nothing keeps two runs of different kinds apart  *)
(* but that lease.  An action is the code between two awaits, or one piece *)
(* of work of a worker thread.                                             *)
(***************************************************************************)
EXTENDS Naturals, FiniteSets

CONSTANTS
  Runs,        \* pipeline runs; each happens at most once
  Pages,       \* dashboard pages open in a browser
  Rails,       \* the rails a row can belong to
  Kinds,       \* which handlers start runs
  Overlap,     \* whether a run may start while another is active
  MaxFaults,   \* bound on cancellations and exceptions in one behaviour
  Phantom,     \* the made-up rail of the gap overlay's rows
  NoRun, Pool, Nobody

ASSUME RunsAssumption == NoRun \notin Runs /\ IsFiniteSet(Runs)
ASSUME PipelineLeaseAssumption ==
         Pool # Nobody /\ {Pool, Nobody} \cap Runs = {}
ASSUME RailsAssumption == Phantom \notin Rails /\ IsFiniteSet(Rails)
ASSUME KindsAssumption ==
         Kinds \subseteq {"deploy", "etl_run", "reset", "session"}
ASSUME PipelineFaultsAssumption == MaxFaults \in Nat /\ Overlap \in BOOLEAN

VARIABLES
  hook,       \* TRUE iff `cfg.app2.etl_hook` is set
  rows,       \* the rows of the base tables
  mv,         \* the base rows the materialized views were derived from
  gen,        \* `_data_generation_id`
  kind,       \* which handler started each run
  pc,         \* where each run is
  out,        \* how each run will end, as far as it knows
  covered,    \* the rails each run found covered
  conn,       \* the runs whose deploy connection is open
  sub,        \* the runs whose hook subprocess is alive
  held,       \* the runs whose hook subprocess has the file open
  left,       \* history: the runs whose hook was left alive behind them
  lease,      \* who may open the file
  admitted,   \* the pages that hold a cursor of the pool
  page,       \* what each page is doing
  base,       \* the generation each page was rendered at
  shown,      \* the views of the last answer each page's browser has
  faults

dataVars == <<rows, mv, gen>>
hookVars == <<sub, held, left>>
runVars  == <<kind, pc, out, covered, conn, hookVars>>
pageVars == <<page, base, shown>>
vars == <<hook, dataVars, runVars, lease, admitted, pageVars, faults>>

Lease == INSTANCE FileLease WITH Requests <- Pages, Callers <- Runs

-----------------------------------------------------------------------------
Stamp == {"none", "training", "real"}
Row == [rail : Rails \cup {Phantom},
        from : {"customer", "hook", "gen", "gap"},
        by : Runs \cup {NoRun}, stamp : Stamp]

(* Customer rows: no `metadata.source`, or stamped by `migrate-mark`.      *)
CustomerRow == [rail : Rails, from : {"customer"}, by : {NoRun},
                stamp : {"none", "real"}]

RowsOf(r, rails, from, stamp) ==
  [rail : rails, from : {from}, by : {r}, stamp : {stamp}]

Finished == {"done", "halted", "failed", "cancelled"}
RunState == {"idle", "open1", "wipe", "close1", "enter", "hook", "hookRun",
             "terminating", "leave", "reopen", "open2", "build", "apply",
             "overlay", "matviews", "reload", "unwind"} \cup Finished

PageState == {"loading", "rendered", "fetching", "doomed", "pulled", "shown",
              "cached", "refused"}

InBracket == {"hook", "hookRun", "terminating", "leave", "reopen"}

Active(r) == pc[r] \notin {"idle"} \cup Finished

(* What the handler asks of the pipeline. *)
SyntheticOnly(r) == kind[r] = "reset" /\ ~hook
GeneratorOn(r)   == ~(kind[r] = "etl_run" /\ hook)
FullScope(r)     == kind[r] \in {"deploy", "etl_run"}
GapOverlay(r)    == kind[r] = "etl_run" /\ ~hook

Init ==
  /\ hook \in BOOLEAN
  /\ rows \in SUBSET CustomerRow
  /\ mv = rows
  /\ gen = 0
  /\ kind = [r \in Runs |-> "reset"]
  /\ pc = [r \in Runs |-> "idle"]
  /\ out = [r \in Runs |-> "done"]
  /\ covered = [r \in Runs |-> {}]
  /\ conn = {}
  /\ sub = {} /\ held = {} /\ left = {}
  /\ Lease!Init
  /\ page = [p \in Pages |-> "loading"]
  /\ base = [p \in Pages |-> 0]
  /\ shown = [p \in Pages |-> mv]
  /\ faults = 0

Goto(r, s) == pc' = [pc EXCEPT ![r] = s]

Quiet == UNCHANGED <<lease, admitted, pageVars, hook>>

-----------------------------------------------------------------------------
(* A handler starts a run.  /deploy refuses without a hook (409); /etl/run *)
(* ignores a POST while its own task runs; nothing else is checked.        *)
Start(r, k) ==
  /\ pc[r] = "idle"
  /\ k = "deploy" => hook
  /\ k = "etl_run" => \A q \in Runs : Active(q) => kind[q] # "etl_run"
  /\ Overlap \/ \A q \in Runs : ~Active(q)
  /\ kind' = [kind EXCEPT ![r] = k]
  /\ Goto(r, "open1")
  /\ UNCHANGED <<out, covered, conn, hookVars, dataVars, faults>>
  /\ Quiet

(* `_open_deploy_conn`, before the wipe and again after the hook.  DuckDB  *)
(* refuses while a subprocess has the file open: the run ends by exception.*)
OpenConn(r) ==
  /\ pc[r] \in {"open1", "open2"}
  /\ \/ /\ held = {}
        /\ conn' = conn \cup {r}
        /\ Goto(r, IF pc[r] = "open1" THEN "wipe" ELSE "build")
     \/ /\ held # {}
        /\ Goto(r, "failed")
        /\ UNCHANGED conn
  /\ UNCHANGED <<kind, out, covered, hookVars, dataVars, faults>>
  /\ Quiet

(* Mutant: the auto-mark writes over a stamp that is there. *)
AutoMarkedOver ==
  IF hook THEN rows ELSE {[x EXCEPT !.stamp = "training"] : x \in rows}

(* Rows without a source are stamped as training rows if there is no hook. *)
AutoMarked ==
  IF hook THEN rows
  ELSE {[x EXCEPT !.stamp = IF @ = "none" THEN "training" ELSE @] : x \in rows}

(* Mutant: a reset without a hook does not auto-mark first. *)
WipedUnmarked(r) ==
  IF SyntheticOnly(r) THEN {x \in rows : x.stamp # "training"} ELSE {}

(* What step 2 leaves: the auto-mark, then the full or the narrowed DELETE.*)
Wiped(r) ==
  IF SyntheticOnly(r) THEN {x \in AutoMarked : x.stamp # "training"} ELSE {}

Wipe(r) ==
  /\ pc[r] = "wipe"
  /\ rows' = Wiped(r)
  /\ Goto(r, "close1")
  /\ UNCHANGED <<kind, out, covered, conn, hookVars, mv, gen, faults>>
  /\ Quiet

(* The deploy connection is closed so that the subprocess finds no handle  *)
(* of this process.                                                        *)
CloseConn(r) ==
  /\ pc[r] = "close1"
  /\ conn' = conn \ {r}
  /\ Goto(r, "enter")
  /\ UNCHANGED <<kind, out, covered, hookVars, dataVars, faults>>
  /\ Quiet

(* A read that is under way when the root is closed fails; the drain keeps *)
(* most of them from it, and DuckdbPool says which.                        *)
PullCursors ==
  page' = [p \in Pages |-> IF page[p] = "fetching" THEN "pulled" ELSE page[p]]

(* A bracket holds the lifecycle lock from its entry to the end of reopen. *)
LifecycleLocked == \E q \in Runs : pc[q] \in InBracket

(* Mutant: the bracket does not hold the lifecycle lock through its body.  *)
EnterUnlocked(r) ==
  /\ pc[r] = "enter"
  /\ PullCursors
  /\ lease' = r
  /\ Goto(r, "hook")
  /\ UNCHANGED <<hook, kind, out, covered, conn, hookVars, dataVars, base,
                 shown, admitted, faults>>

(* `released_for_subprocess`: the pool gives the file up, or it was found  *)
(* released by nobody.                                                     *)
EnterBracket(r) ==
  /\ pc[r] = "enter"
  /\ ~LifecycleLocked
  /\ \/ Lease!Surrender(r) /\ PullCursors
     \/ Lease!Take(r) /\ UNCHANGED page
  /\ lease' = r
  /\ Goto(r, "hook")
  /\ UNCHANGED <<hook, kind, out, covered, conn, hookVars, dataVars, base,
                 shown, faults>>

(* `step_1_etl_hook`: without a hook it returns 0 at once, else it spawns  *)
(* the subprocess.                                                         *)
HookStarts(r) ==
  /\ pc[r] = "hook"
  /\ \/ ~hook /\ Goto(r, "leave") /\ UNCHANGED sub
     \/ hook /\ Goto(r, "hookRun") /\ sub' = sub \cup {r}
  /\ UNCHANGED <<kind, out, covered, conn, held, left, dataVars, faults>>
  /\ Quiet

(* The subprocess opens the file when it comes to it, and may do so again: *)
(* DuckDB lets it in while no other process has the file open, which this  *)
(* one has while the pool has its root, a deploy connection is open or a   *)
(* thread still closes the root.  One that is not let in may try again, or *)
(* exit with an error.                                                     *)
HookOpens(r) ==
  /\ r \in sub \ held
  /\ held = {} /\ conn = {} /\ lease # Pool
  /\ \A p \in Pages : page[p] # "doomed"
  /\ held' = {r}
  /\ UNCHANGED <<kind, pc, out, covered, conn, sub, left, dataVars, faults>>
  /\ Quiet

HookWrites(r) ==
  /\ r \in held
  /\ \E rails \in (SUBSET Rails) \ {{}} :
       rows' = rows \cup RowsOf(r, rails, "hook", "none")
  /\ UNCHANGED <<runVars, mv, gen, faults>>
  /\ Quiet

HookCloses(r) ==
  /\ r \in held
  /\ held' = held \ {r}
  /\ UNCHANGED <<kind, pc, out, covered, conn, sub, left, dataVars, faults>>
  /\ Quiet

(* A subprocess that ends has nothing open any more. *)
HookGone(r) ==
  /\ sub' = sub \ {r}
  /\ held' = held \ {r}
  /\ UNCHANGED left

(* The subprocess exits, with rc 0 or not, or it is timed out (rc 124).    *)
HookExits(r, ok) ==
  /\ pc[r] = "hookRun"
  /\ HookGone(r)
  /\ out' = [out EXCEPT ![r] = IF ok THEN @ ELSE "halted"]
  /\ Goto(r, "leave")
  /\ UNCHANGED <<kind, covered, conn, dataVars, faults>>
  /\ Quiet

(* Mutant: the file is not given back before the root is opened again.     *)
LeaveKeeping(r) ==
  /\ pc[r] = "leave"
  /\ Goto(r, "reopen")
  /\ UNCHANGED <<hook, kind, out, covered, conn, hookVars, lease, admitted,
                 dataVars, pageVars, faults>>

(* The body of the bracket is over. *)
LeaveBracket(r) ==
  /\ pc[r] = "leave"
  /\ Lease!Return(r)
  /\ Goto(r, "reopen")
  /\ UNCHANGED <<hook, kind, out, covered, conn, hookVars, dataVars, pageVars,
                 faults>>

(* Mutant: a run whose hook failed returns before the root is reopened.    *)
ReopenUnlessHalted(r) ==
  /\ pc[r] = "reopen"
  /\ \/ /\ out[r] = "done" /\ held = {}
        /\ Lease!Reopen
        /\ Goto(r, "open2")
     \/ /\ out[r] # "done"
        /\ Goto(r, out[r])
        /\ UNCHANGED <<lease, admitted>>
  /\ UNCHANGED <<hook, kind, out, covered, conn, hookVars, dataVars, pageVars,
                 faults>>

(* The bracket reopens the root; a subprocess that has the file open makes *)
(* that fail and nobody gets the file.  A run that is neither halted nor   *)
(* interrupted goes on.                                                    *)
ReopenPool(r) ==
  /\ pc[r] = "reopen"
  /\ \/ /\ held = {}
        /\ Lease!Reopen
        /\ Goto(r, IF out[r] = "done" THEN "open2" ELSE out[r])
     \/ /\ held # {}
        /\ Goto(r, "failed")
        /\ UNCHANGED <<lease, admitted>>
  /\ UNCHANGED <<hook, kind, out, covered, conn, hookVars, dataVars, pageVars,
                 faults>>

(* Mutant: the rails a hook feeds do not count as covered. *)
BuildIgnoringHook(r) ==
  /\ pc[r] = "build"
  /\ covered' = [covered EXCEPT ![r] =
                   IF FullScope(r) THEN {}
                   ELSE {x.rail : x \in {y \in rows : y.from # "hook"}}]
  /\ Goto(r, "apply")
  /\ UNCHANGED <<kind, out, conn, hookVars, dataVars, faults>>
  /\ Quiet

(* `_build_generator_sql`: the scope "uncovered_rails", forced on the      *)
(* trainer's runs, looks which rails have rows.                            *)
BuildSql(r) ==
  /\ pc[r] = "build"
  /\ covered' = [covered EXCEPT ![r] =
                   IF FullScope(r) THEN {} ELSE {x.rail : x \in rows}]
  /\ Goto(r, "apply")
  /\ UNCHANGED <<kind, out, conn, hookVars, dataVars, faults>>
  /\ Quiet

(* Mutant: the generator's rows carry a source the narrow wipe ignores.    *)
GeneratedOddly(r) ==
  IF GeneratorOn(r)
    THEN RowsOf(r, Rails \ covered[r], "gen", "synthetic")
    ELSE {}

(* The rows the generator adds, stamped as training rows. *)
Generated(r) ==
  IF GeneratorOn(r)
    THEN RowsOf(r, Rails \ covered[r], "gen", "training")
    ELSE {}

(* Mutant: with the generator off there is thought to be nothing to refresh.*)
ApplyAndSkipViews(r) ==
  /\ pc[r] = "apply"
  /\ rows' = rows \cup Generated(r)
  /\ Goto(r, IF GapOverlay(r) THEN "overlay"
             ELSE IF GeneratorOn(r) THEN "matviews" ELSE "reload")
  /\ UNCHANGED <<kind, out, covered, conn, hookVars, mv, gen, faults>>
  /\ Quiet

(* The generator's script runs in a worker thread. *)
ApplySql(r) ==
  /\ pc[r] = "apply"
  /\ rows' = rows \cup Generated(r)
  /\ Goto(r, IF GapOverlay(r) THEN "overlay" ELSE "matviews")
  /\ UNCHANGED <<kind, out, covered, conn, hookVars, mv, gen, faults>>
  /\ Quiet

(* L2_DEMO_GAP_OVERLAY: rows of made-up rails come in, and the rows of one *)
(* rail and of one template, whose rows lie in rails too, go.              *)
Overlaid(r, gone) ==
  {x \in rows : x.rail \notin gone}
    \cup RowsOf(r, {Phantom}, "gap", "training")

ApplyOverlay(r) ==
  /\ pc[r] = "overlay"
  /\ \E gone \in (SUBSET Rails) \ {{}} : rows' = Overlaid(r, gone)
  /\ Goto(r, "matviews")
  /\ UNCHANGED <<kind, out, covered, conn, hookVars, mv, gen, faults>>
  /\ Quiet

RefreshViews(r) ==
  /\ pc[r] = "matviews"
  /\ mv' = rows
  /\ Goto(r, "reload")
  /\ UNCHANGED <<kind, out, covered, conn, hookVars, rows, gen, faults>>
  /\ Quiet

(* Mutant: only a run that generated rows bumps the generation. *)
ReloadIfGenerated(r) ==
  /\ pc[r] = "reload"
  /\ gen' = IF GeneratorOn(r) THEN gen + 1 ELSE gen
  /\ Goto(r, "unwind")
  /\ UNCHANGED <<kind, out, covered, conn, hookVars, rows, mv, faults>>
  /\ Quiet

(* `step_5_reload`. *)
Reload(r) ==
  /\ pc[r] = "reload"
  /\ gen' = gen + 1
  /\ Goto(r, "unwind")
  /\ UNCHANGED <<kind, out, covered, conn, hookVars, rows, mv, faults>>
  /\ Quiet

(* The pipeline's finally closes the deploy connection. *)
Unwind(r) ==
  /\ pc[r] = "unwind"
  /\ conn' = conn \ {r}
  /\ Goto(r, out[r])
  /\ UNCHANGED <<kind, out, covered, hookVars, dataVars, faults>>
  /\ Quiet

-----------------------------------------------------------------------------
(* What may go wrong.  Only /etl/run has a cancel endpoint.                *)
Fault ==
  /\ faults < MaxFaults
  /\ faults' = faults + 1

CanCancel(r) == kind[r] = "etl_run"
HowInterrupted(r) ==
  IF CanCancel(r) THEN {"failed", "cancelled"} ELSE {"failed"}

(* A worker thread's script raises, or the await on it is cancelled; the   *)
(* script may have taken effect before the finally closes its connection,  *)
(* or a part of it: DuckDB commits every statement by itself.              *)
Effect(r) ==
  \/ UNCHANGED <<rows, mv>>
  \/ pc[r] = "wipe" /\ rows' \in {AutoMarked, Wiped(r)} /\ UNCHANGED mv
  \/ /\ pc[r] = "apply"
     /\ \E part \in SUBSET Generated(r) : rows' = rows \cup part
     /\ UNCHANGED mv
  \/ /\ pc[r] = "overlay"
     /\ \E gone \in SUBSET Rails : rows' = Overlaid(r, gone)
     /\ UNCHANGED mv
  \/ pc[r] = "matviews" /\ mv' = rows /\ UNCHANGED rows

WorkInterrupted(r) ==
  /\ pc[r] \in {"wipe", "apply", "overlay", "matviews"}
  /\ Fault
  /\ \E how \in HowInterrupted(r) : out' = [out EXCEPT ![r] = how]
  /\ Effect(r)
  /\ Goto(r, "unwind")
  /\ UNCHANGED <<kind, covered, conn, hookVars, gen>>
  /\ Quiet

(* Cancelled at an await that opens or closes the deploy connection.  The  *)
(* worker thread goes on, but its connection is closed, or dropped as it   *)
(* comes, and what it may keep from a hook meanwhile a hook may lack       *)
(* anyhow: HookOpens need not happen.                                      *)
ConnCancelled(r) ==
  /\ CanCancel(r)
  /\ pc[r] \in {"open1", "close1", "open2", "unwind"}
  /\ Fault
  /\ conn' = conn \ {r}
  /\ Goto(r, "cancelled")
  /\ UNCHANGED <<kind, out, covered, hookVars, dataVars>>
  /\ Quiet

(* Reads that go on while the thread of a cancelled await closes the root. *)
DoomCursors ==
  page' = [p \in Pages |-> IF page[p] = "fetching" THEN "doomed" ELSE page[p]]

(* Cancelled while it waits to enter the bracket.  If the root is being    *)
(* closed at that moment the pool stays closed (RootCloseFails), at once   *)
(* or when the thread is done.                                             *)
EnterCancelled(r) ==
  /\ CanCancel(r)
  /\ pc[r] = "enter"
  /\ Fault
  /\ \/ UNCHANGED <<lease, admitted, page>>
     \/ /\ ~LifecycleLocked
        /\ Lease!Surrender(r) /\ lease' = Nobody
        /\ PullCursors \/ DoomCursors
  /\ Goto(r, "cancelled")
  /\ UNCHANGED <<hook, kind, out, covered, conn, hookVars, dataVars, base,
                 shown>>

(* Cancelled while the hook runs: the subprocess is sent SIGTERM.          *)
HookCancelled(r) ==
  /\ CanCancel(r)
  /\ pc[r] = "hookRun"
  /\ Fault
  /\ out' = [out EXCEPT ![r] = "cancelled"]
  /\ Goto(r, "terminating")
  /\ UNCHANGED <<kind, covered, conn, hookVars, dataVars>>
  /\ Quiet

(* The subprocess ends in its grace window, or is killed. *)
HookTerminated(r) ==
  /\ pc[r] = "terminating"
  /\ HookGone(r)
  /\ Goto(r, "leave")
  /\ UNCHANGED <<kind, out, covered, conn, dataVars, faults>>
  /\ Quiet

(* The step is left with the subprocess alive: by a second cancel in the   *)
(* grace window, by a first one in the grace window of a time-out, or by   *)
(* an exception of another kind (a line too long for the StreamReader).    *)
HookAbandoned(r) ==
  /\ \/ pc[r] = "terminating" /\ UNCHANGED out
     \/ /\ pc[r] = "hookRun"
        /\ \E how \in HowInterrupted(r) : out' = [out EXCEPT ![r] = how]
  /\ Fault
  /\ left' = left \cup {r}
  /\ Goto(r, "leave")
  /\ UNCHANGED <<kind, covered, conn, sub, held, dataVars>>
  /\ Quiet

(* Cancelled at the await of `duckdb.connect`: the root stays closed. *)
ReopenCancelled(r) ==
  /\ CanCancel(r)
  /\ pc[r] = "reopen"
  /\ Fault
  /\ Goto(r, "cancelled")
  /\ UNCHANGED <<kind, out, covered, conn, hookVars, dataVars>>
  /\ Quiet

(* A subprocess nobody waits for ends. *)
OrphanExits(r) ==
  /\ r \in sub \cap left
  /\ HookGone(r)
  /\ UNCHANGED <<kind, pc, out, covered, conn, dataVars, faults>>
  /\ Quiet

-----------------------------------------------------------------------------
(* A dashboard page.  The HTML carries the generation at which it was      *)
(* rendered; rendering it needs no cursor of the pool, or does without.    *)
Render(p) ==
  /\ page[p] = "loading"
  /\ page' = [page EXCEPT ![p] = "rendered"]
  /\ base' = [base EXCEPT ![p] = gen]
  /\ UNCHANGED <<hook, runVars, dataVars, lease, admitted, shown, faults>>

(* A visual's fetch is let in or refused, or never reaches the server: an  *)
(* answer may be kept for a minute (`Cache-Control: max-age=60`) and the   *)
(* URL is the same at every generation, so the browser may give its copy.  *)
FetchStart(p) ==
  /\ page[p] = "rendered"
  /\ \/ Lease!Admit(p) /\ page' = [page EXCEPT ![p] = "fetching"]
     \/ /\ lease # Pool
        /\ page' = [page EXCEPT ![p] = "refused"]
        /\ UNCHANGED <<lease, admitted>>
     \/ /\ page' = [page EXCEPT ![p] = "cached"]
        /\ UNCHANGED <<lease, admitted>>
  /\ UNCHANGED <<hook, runVars, dataVars, base, shown, faults>>

(* The stray thread closes the root under it. *)
FetchCut(p) ==
  /\ page[p] = "doomed"
  /\ page' = [page EXCEPT ![p] = "pulled"]
  /\ UNCHANGED <<hook, runVars, dataVars, lease, admitted, base, shown,
                 faults>>

FetchEnd(p) ==
  /\ \/ /\ page[p] \in {"fetching", "doomed"}
        /\ page' = [page EXCEPT ![p] = "shown"]
        /\ shown' = [shown EXCEPT ![p] = mv]
     \/ /\ page[p] = "pulled"
        /\ page' = [page EXCEPT ![p] = "refused"]
        /\ UNCHANGED shown
  /\ Lease!End(p)
  /\ UNCHANGED <<hook, runVars, dataVars, base, faults>>

(* Mutant: a page whose fetch was refused stops polling. *)
PollUnlessRefused(p) ==
  /\ page[p] \in {"rendered", "shown", "cached"}
  /\ base[p] # gen
  /\ page' = [page EXCEPT ![p] = "loading"]
  /\ UNCHANGED <<hook, runVars, dataVars, lease, admitted, base, shown,
                 faults>>

(* `pollOnce`: the server's generation is not the page's, so it reloads.   *)
Poll(p) ==
  /\ page[p] \in {"rendered", "shown", "cached", "refused"}
  /\ base[p] # gen
  /\ page' = [page EXCEPT ![p] = "loading"]
  /\ UNCHANGED <<hook, runVars, dataVars, lease, admitted, base, shown,
                 faults>>

-----------------------------------------------------------------------------
RunStep(r) ==
  \/ OpenConn(r) \/ Wipe(r) \/ CloseConn(r) \/ HookStarts(r)
  \/ (\E ok \in BOOLEAN : HookExits(r, ok)) \/ HookTerminated(r)
  \/ LeaveBracket(r) \/ ReopenPool(r) \/ BuildSql(r) \/ ApplySql(r)
  \/ ApplyOverlay(r) \/ RefreshViews(r) \/ Reload(r) \/ Unwind(r)

HookStep(r) ==
  HookOpens(r) \/ HookWrites(r) \/ HookCloses(r) \/ OrphanExits(r)

PageStep(p) ==
  Render(p) \/ FetchStart(p) \/ FetchCut(p) \/ FetchEnd(p) \/ Poll(p)

Faulty(r) ==
  \/ WorkInterrupted(r) \/ ConnCancelled(r) \/ EnterCancelled(r)
  \/ HookCancelled(r) \/ HookAbandoned(r) \/ ReopenCancelled(r)

Next ==
  \/ \E r \in Runs :
       \/ \E k \in Kinds : Start(r, k)
       \/ EnterBracket(r) \/ RunStep(r) \/ HookStep(r) \/ Faulty(r)
  \/ \E p \in Pages : PageStep(p)

Spec == Init /\ [][Next]_vars

(* A run that can go on does, the hook ends (the code times it out), the   *)
(* lifecycle lock is served first come first served, and pages load, fetch *)
(* and poll.  No run has to start, and no fault has to happen.             *)
Fairness ==
  /\ \A r \in Runs : WF_vars(RunStep(r)) /\ SF_vars(EnterBracket(r))
  /\ \A p \in Pages :
       /\ WF_vars(Render(p)) /\ WF_vars(Poll(p))
       /\ WF_vars(FetchStart(p)) /\ WF_vars(FetchEnd(p))

FairSpec == Spec /\ Fairness

-----------------------------------------------------------------------------
TypeOK ==
  /\ hook \in BOOLEAN
  /\ rows \subseteq Row
  /\ mv \subseteq Row
  /\ gen \in Nat
  /\ kind \in [Runs -> {"deploy", "etl_run", "reset", "session"}]
  /\ pc \in [Runs -> RunState]
  /\ out \in [Runs -> Finished]
  /\ covered \in [Runs -> SUBSET (Rails \cup {Phantom})]
  /\ conn \subseteq Runs
  /\ sub \subseteq Runs /\ held \subseteq Runs /\ left \subseteq Runs
  /\ lease \in Runs \cup {Pool, Nobody}
  /\ admitted \subseteq Pages
  /\ page \in [Pages -> PageState]
  /\ base \in [Pages -> Nat]
  /\ shown \in [Pages -> SUBSET Row]
  /\ faults \in 0 .. MaxFaults

(* The run has failed or was cancelled, or is on its way to that end.      *)
EndsBadly(r) == {pc[r], out[r]} \cap {"failed", "cancelled"} # {}

(* Whoever is in a bracket has the lease of the file, so no two runs are   *)
(* in one at once, and no dashboard reads from a root in use while one is. *)
HookOwnsLease ==
  /\ \A r \in Runs : pc[r] \in InBracket \ {"reopen"} => lease = r
  /\ \A p \in Pages : page[p] = "fetching" => lease = Pool

(* When no run is in a bracket the pool has the file back, unless a run    *)
(* was interrupted: a hook that fails does not cost the dashboards theirs. *)
PoolReturned ==
  lease # Pool => \E r \in Runs : pc[r] \in InBracket \/ EndsBadly(r)

(* Whatever runs overlapped, when all of them are over and none stopped    *)
(* early the views are derived from the rows the base tables now hold.     *)
FreshAtRest ==
  (\A r \in Runs : pc[r] \in {"idle", "done"}) => mv = rows

(* A page that the server has filled and whose poll finds nothing new      *)
(* shows the current views: no refresh of the views goes without a bump    *)
(* after it, but for a run that was interrupted between the two.  Nothing  *)
(* of the kind holds of a page filled from the browser's copy: it may show *)
(* old views at the current generation, and its polls find nothing new.    *)
PageFresh ==
  \A p \in Pages :
    (/\ page[p] = "shown" /\ base[p] = gen
     /\ \A r \in Runs : pc[r] # "reload" /\ ~EndsBadly(r)) => shown[p] = mv

(* Runs that do not overlap start from a clean slate: what a run derives   *)
(* its views from is what it wrote itself (its hook's rows included) and,  *)
(* after a standalone reset, customer rows that carry another stamp.       *)
(* Nothing an earlier run wrote gets in but what a hook left alive behind  *)
(* it writes late: a hook that has the file open stops the next run, one   *)
(* that opens it between that run's wipe and its reopen does not.          *)
CleanSlate ==
  \A r \in Runs : pc[r] \in {"matviews", "reload"} =>
    \A x \in rows : \/ x.by = r
                    \/ SyntheticOnly(r) /\ x.stamp = "real"
                    \/ x.from = "hook" /\ x.by \in left

(* The trainer's generator fills in for rails nobody else feeds: when it   *)
(* has run, no rail has both generated rows and rows of a hook or of the   *)
(* customer.                                                               *)
NoDoubleCover ==
  \A r \in Runs : pc[r] \in {"matviews", "reload"} /\ ~FullScope(r) =>
    \A x, y \in rows :
      x.from = "gen" /\ y.from \in {"hook", "customer"} => x.rail # y.rail

(* Rows stamped real go by no other hand than a full wipe, or the overlay  *)
(* of a standalone /etl/run: however many resets without a hook overlap,   *)
(* and wherever one of them is interrupted, they lose none of them.        *)
RealSurvive ==
  [][(\E x \in rows : x.stamp = "real" /\ x \notin rows') =>
       \E r \in Runs : \/ pc[r] = "wipe" /\ ~SyntheticOnly(r)
                       \/ pc[r] = "overlay" /\ GapOverlay(r)]_vars

(* A run that was started ends. *)
RunsEnd == \A r \in Runs : Active(r) ~> ~Active(r)

(* If every run that was started completes, every page ends up filled at   *)
(* the final generation, the pages included whose reads were refused or    *)
(* cut off while a hook had the file, and with the final views unless the  *)
(* browser answers with the copy it keeps for a minute.                    *)
PagesCatchUp ==
  <>[](\A r \in Runs : pc[r] \in {"idle", "done"}) =>
    <>[](\A p \in Pages :
           /\ base[p] = gen
           /\ page[p] = "cached" \/ (page[p] = "shown" /\ shown[p] = mv))

(* What wipe_demo_data_sql, step 2 and the trainer's handler say of a      *)
(* reset without a hook: rows nobody stamped are presumed to be the        *)
(* customer's and survive.                                                 *)
UnmarkedSurvive ==
  [][~hook =>
       \A x \in rows : x.from = "customer" =>
         \E y \in rows' : y.from = "customer" /\ y.rail = x.rail]_vars

(* What the message of PoolReleasedDuringRefresh says: the dashboard will  *)
(* reload when the refresh completes.                                      *)
RefusedPageReloads ==
  \A p \in Pages : page[p] = "refused" ~> page[p] # "refused"

(* What the comment on the bracket says: concurrent /deploy and            *)
(* /training/reset handlers serialize through it, and the deploy           *)
(* connection is closed so that the subprocess has the file exclusively.   *)
HookFindsFileFree ==
  \A r \in Runs : hook /\ pc[r] = "hook" => conn = {} /\ held = {}
=============================================================================
