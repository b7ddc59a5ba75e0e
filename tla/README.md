# TLA+ models of recon-gen

recon-gen generates reconciliation dashboards from a declarative description of
a bank's money movement (the "L2 instance").  Its interactive part is the
*Studio*: one asyncio process that serves dashboards from a demo database, edits
the L2 instance, and refreshes the data by a pipeline that may hand the database
to a subprocess of the operator.  The models here are about that data life
cycle, the trainer's overlay on it, and the editor of the instance.
Single-threaded text and SQL generation, which makes up most of the repository,
is listed below and left to its unit tests.

Paths are relative to `src/recon_gen/` of the repository.

## 1. Inventory

| Part | State it keeps | Operations | Talks to |
|---|---|---|---|
| DuckDB pool (`common/db.py`, `_AsyncDuckdbPool`) | root connection, semaphore, in-flight count, drain event, lifecycle lock | `acquire`, `close`, `reopen`, `released_for_subprocess` | dashboards, pipeline, snapshotter |
| Deploy pipeline (`common/l2/deploy_pipeline.py`) | base tables, views, generation counter, one connection per run | wipe, hook, generator, derive balances, overlays, view refresh, reload | pool (bracket), hook subprocess, database |
| Studio handlers (`common/html/_studio_routes.py`) | task slots of etl run, session start, apply | `/deploy`, `/etl/run`, cancel, `/training/*` | pipeline, trainer overlay |
| Dashboard server and pages (`common/html/server.py`, `bootstrap.js`) | nothing on the server; in the page, its generation and what it shows | render a sheet, fetch a visual, poll the generation | pool, generation counter |
| Trainer overlay (`common/l2/v_overlay.py`) | `<base>_v` tables, ledger of applied plants | session start, apply, reclone, cleanup | pipeline, database |
| Trainer knobs (`common/l2/tg_cache.py`, `studio_state.py`) | generator knobs in memory and in `.studio-state.yaml` | update, persist, load, merge | `/deploy` |
| L2 cache and editor (`common/l2/cache.py`, `editor.py`) | the validated instance, in memory and in a YAML file | replace, save, rename, create, delete with cascades | loader, validator, every handler |
| Snapshotter (`common/snapshotter.py`) | snapshot files | take, restore, drop | pool (bracket) |
| L2 loader, validator, serializer | none | pure | editor, CLI |
| Schema and views, seed generator, coverage/triage/probe | none (SQL text, queries) | pure | pipeline, handlers |
| Rendering, login, configuration, CLI, provenance, PDF | see `PROJECT.json` | | |

What is hard about it:

* **One file, one writing process.**  The hook needs the `.duckdb` file for
  itself, so the pool must be empty and closed while the hook runs, and open
  again afterwards whatever happened to the hook.
* **Cancellation at any await.**  `/etl/run/cancel` cancels the task of a run.
  Worker threads and subprocesses do not stop with it.
* **Runs of different handlers are not serialized**, but for the bracket around
  the hook and one double-click guard.
* **Readers that never ask.**  A dashboard page learns of new data only by
  comparing the generation it was rendered at with the current one, and its
  browser may answer for the server for a minute.
* **Whose rows.**  A wipe may take the rows of the customer only when a hook can
  bring them back.
* **A ledger next to what it counts.**  The trainer's plants and the ledger that
  names them are written by separate statements on connections that commit each
  by itself; a worker may end between any two, and workers of a session start,
  an Apply and a cleanup may meet.
* **Guards around an await.**  The session start reads its task slot before the
  form is awaited and fills it after.
* **Names as references.**  Everything in an L2 instance refers by name; forms
  and confirmations in browser tabs carry names too, and outlive the entity that
  bore them.
* **Memory and file.**  A knob changes in memory first; its sidefile write may
  fail, and a restart reads the sidefile.

What makes each part correct:

* pool: the count the drain relies on is exact; a bracket body has the file for
  itself, as far as nothing was interrupted; the drain keeps a cursor in use from being closed, and wakes up when the last of
  them is gone; acquires end, are
  refused only during a refresh, and a released pool is opened again;
* pipeline and handlers: brackets exclude each other; the pool gets the file
  back; a run starts from a clean slate; views derive from the final rows; the
  generator does not fill a rail that is fed by others; rows stamped as the
  customer's own outlive a narrow wipe; every run ends;
* pages: a page that the server filled and that finds nothing new shows the
  current views; in the end every page is at the final generation;
* trainer overlay: at rest, ledger, rows and views agree; one task of a kind runs
  at a time and its slot says so; the staleness banner comes when the file is newer than its
  tolerance allows, and the landing page shows what is applied;
* editor: a rename leaves every reference pointing where it pointed, is refused
  for known reasons only, and can be taken back by another; the Delete button agrees with the validator; a
  stale form cannot rename by accident; entities are addressed apart; the instance on disk is always valid;
* knobs: across restarts and failing writes, a knob is what the operator was told.

## 2. Modules

| Module | What it is |
|---|---|
| `FileLease` | abstract: the file is leased to the pool, to one bracket, or to nobody, and requests are admitted while the pool has it |
| `DuckdbPool` | `_AsyncDuckdbPool`, one action per stretch of code between two awaits |
| `DuckdbPoolProofs` | its theorems |
| `DeployPipeline` | the pipeline, the handlers that start it, the hook, the pages; uses `FileLease` in place of the pool |
| `DeployPipelineProofs` | its theorems about runs that overlap as they like |
| `DeploySerialProofs` | its theorems about runs that do not overlap |
| `TrainerOverlay` | session start, Apply, rebuild and cleanup of the trainer's overlay, its ledger, the landing page |
| `TrainerOverlayProofs` | its theorems |
| `L2Model` | an L2 instance: its references, the validator's rules, the editor's pure operations, what the Delete button looks at |
| `StudioEditor` | the editor's handlers over `L2Model`, and the trainer's knobs with their sidefile |
| `StudioEditorProofs` | theorems about both: types, keys, knobs, stale forms |
| `EditorGraphProofs` | theorems about both: what a rename and a Delete do to references |
| `EditorUndoProofs` | theorem about both: a rename is taken back by the rename back |
| `MCDuckdbPool`, `MCDeployPipeline`, `MCTrainerOverlay`, `MCStudioEditor` | definitions for the TLC instances |

`TrainerOverlay` starts where a session start's base leg (a run of
`DeployPipeline`, kind `session`) ends; it does not look at what that run did,
and neither does the code.

`DuckdbPool` implements `FileLease` (checked and proved), and `DeployPipeline`
is built on `FileLease`, so the two can be read and checked apart.

### DuckdbPool

| Code | Model |
|---|---|
| `self._root is not None` | `root` |
| `_in_flight`, `_drained` | `inFlight`, `drained` |
| holder of `_lifecycle_lock` | `lock` |
| a task in `acquire()` | `req[r]`: `semWait`, `opening`, `using`, `closing`, and how the last one ended |
| its DuckDB cursor | `cursor[r]`: `none`, `pending`, `live`, `doomed` (its root was given up, a thread is still closing it), `dead` (its root was closed) |
| a task in `close`, `reopen` or the bracket | `op[c]`, `at[c]` |
| threads of `root.close` and `duckdb.connect` whose await was cancelled | `closers`, `openers` |

`Enter` is the check of the root, the bump of the count and the hand-over of
`root.cursor` to a thread: no await lies between them.  `LockAndDrain` is a
single `await _drained.wait()`; `Release` wakes the waiter, `DrainResumes` is
the waiter's next step, and acquirers may be admitted between the two, because
`asyncio.Event.wait` does not look again.  `RootCloses` is the thread,
`RootClosed` the task that resumes after it.  Faults (`OpenFails`, `CloseFails`,
`AcquireCancelled`, `WaitCancelled`, `RootCloseFails`, `ReopenFails`) are a
cancellation or an exception at each await; their number is bounded by
`MaxFaults`.  A cancelled await does not stop its thread: `RootCloseFails` and
`ReopenFails` give the lock back at once and may leave a thread behind, which
ends in `StrayCloses` or `StrayConnects`, whoever has the lock by then.
`FileInUse` says whether this process has anything of the file open, `LeftOver`
whether some of it was left that way.  `leaked` and `early` are history variables that only properties
read.  A cancelled lock or event wait is assumed to leave asyncio's own objects
intact.

### DeployPipeline

| Code | Model |
|---|---|
| `cfg.app2.etl_hook` | `hook`, chosen by `Init` and fixed |
| rows of `<p>_transactions` and `<p>_daily_balances` | `rows`, a set of records: rail, who wrote it, in which run, `metadata.source` |
| materialized views | `mv`, the rows they were derived from |
| `_data_generation_id` | `gen` |
| a run of `run_deploy_pipeline` | `kind`, `pc`, `out`, `covered` |
| the run's own connection | `conn` |
| its hook process: alive, has the file open, was left alive | `sub`, `held`, `left` |
| the pool | `lease`, `admitted` of `FileLease` |
| a page in a browser | `page`, `base`, `shown` |

The four handlers differ in what they ask of the pipeline: `deploy` refuses
without a hook and uses the full scope, `etl_run` turns the generator off when
there is a hook and adds the gap overlay when there is none, `reset` and
`session` use the trainer's scope (uncovered rails only), and `reset` without a
hook asks for the narrow wipe.  `Wiped` holds both the auto-mark and the
`DELETE`.  The guard of `session` is not modelled as one, since it is read
before an await and written after it.

The hook is code of the operator and modelled by what DuckDB allows it:
`HookOpens` and `HookCloses` let it have the file open for as long and as often
as it likes, while no handle of this process is open, and `HookWrites` whatever
rows meanwhile.  `OpenConn` and `ReopenPool` fail only while it has the file
open (`held`); a hook that was left alive and has not opened it yet is no
obstacle to anybody, and `CleanSlate` says what may come of it.

Data abstractions: rows are told apart only by rail, writer and stamp; the views
are refreshed as one; work in a worker thread is one step, except that an
interrupted script may have taken effect in part.  `OpenConn`, `Wipe`, `ApplySql`
and `RefreshViews` keep the deploy connection open exactly as the code does.

The page: `Render` puts the current generation in the page.  It needs no cursor:
the sheet's only access to the pool swallows its exceptions, so a page is
rendered while the pool is released too.  A visual's fetch reaches the server
(`fetching`), is refused, or never leaves the browser: answers carry
`Cache-Control: public, max-age=60` and the URL is the same at every generation,
so that `cached` shows what an earlier answer held, of whatever age.  `pulled`
is a fetch whose root was closed under it, possible for the cursors the drain
does not protect (see `pool_rugpull`), and `doomed` one whose root a thread is
still closing after its await was cancelled.  A hidden tab does not poll; it
polls when it is shown again, so the model lets the poll come at any time.

### TrainerOverlay

| Code | Model |
|---|---|
| `<base>_v_transactions`, `<base>_v_daily_balances` | `rows`, the plants whose rows are in them |
| the overlay's views | `views`, the rows they were derived from |
| `<base>_v_config_kv` | `ledger`: the applied plants, and the L2 file's mtime at session start |
| which tables exist | `tables` |
| `_training_start_state["task"]`, `_training_apply_state["task"]` | `startSlot`, `applySlot` |
| a task of either kind and its worker thread | `st[r]`, `ap[r]` |
| `cache.get()`, the mtime of the L2 file | `yaml`, the time of its last save, which stands for the version too |
| the landing page | `page`: the existence probe and the ledger it read, whether a probe failed, the banners it shows |

`PostStart` and `StartSpawned` are the two halves of the handler around
`await request.form()`; `PostReclone` and `PostApply` have no await between guard
and task.  `Spawn` reads the instance, `BaseDone` the mtime, in that order, as
the code does; an edit in between gives an overlay of the old instance a stamp of
the new one.  `Drops`, `Create`, `StartClones`, `StartRefreshes` and
`WriteSession` are the statements of `session_start`; `ReadLedger`,
`ApplyClones`, `ApplyClonesLedger`, `PlantOne`, `ApplyRefreshes`, `ClearLedger`
and `WriteLedger` those of `apply_plants`, whose slow path comes back to the fast
one.  Every statement commits by itself, so `StartRaises`, `ApplyRaises`,
`CleanupRaises` and `Restart` leave what was done.  A missing table raises
without a fault being spent.  `LedgersUnread` is the landing page's probes
raising: `_v_overlay_exists` then says that there is no overlay, and
`read_applied_state` that nothing is applied.  `ended` is the `finally` that empties the slot.

`built`, `torn`, `spilled`, `behind`, `blind`, `raced` and `late` are history
variables that only properties read; each says which exception to a property the
code allows, and a later clone, refresh or end resets it.

Data abstractions: the two data tables are one; a save is known by its time,
`Tolerance` is the second `L2Stale` grants, and a save comes within it or after
it, how much later making no difference; rows are known by their plant, so that
a plant applied twice looks like one applied once; the order of the plants
is left open; the ledger's `failed` and `last_apply` rows, which nothing but the
page's text reads, are left out; `emit_schema` is one step.

### L2Model and StudioEditor

| Code | Model |
|---|---|
| `L2Instance` | a record with, for each kind of entity, a function from identities to records of names |
| `validate` | `Valid`: U2 to S56, by the validator's own labels; U7 over `Generated`, the account ids a template's format makes of its role |
| `rename_identifier` and `mutate_l2` | `Rename`, `Put`, and `Saved` for the save handler |
| `delete_l2_entity`, `create_l2_entity`, `attach_rail_to_reconciler` | `Without`, `Put`, `Attached` |
| `find_references` | `Referenced` |
| `_find_entity`, the key in a token | `Key` |
| `_resolve_url_entity_id`, `_url_entity_id` | `Found`, `Address`: the key, or for chains and limit schedules its `Digest` |
| `L2InstanceCache` and the L2 file | `inst` |
| what an open tab was rendered from | `page` |
| the signed token of a confirmed Delete | `token` |
| `TestGeneratorCache`: `only_template`, `etl_hook_enabled` | `knob` |
| `.studio-state.yaml` | `side` |

An identity is a position in the model's own bookkeeping: the code has none, and
no definition that stands for code looks at it but to find an entity it has just
found by key.  An account's identity is its id, which the model's forms leave as
it is.  `Digest` and `Generated` are operators the model is given: which keys
collide in 24 bits, and which ids come out of a format, is for the instance to
say, and the proofs hold for any.  The order of a collection is not modelled, so
that `Found` is the set of entities the URL's digest fits, of which the code
takes the first.  A composite key is a string put together with commas and
double colons; the model takes it for the parts, that is, assumes that no name
holds either.  The groups a form brings along when it attaches a rail are any
the validator may accept (`Regroupings`).  `Save` posts a whole form, filled from `page`, that is from any
earlier instance, and looks its entity up by the key the tab shows.  Every
handler validates before it writes, so `Write` guards with `Valid`; a refused
POST changes nothing and is no step.  Between the last await and the write no
handler yields, so a handler is one step.  `cache.save` writes a new file and
renames it over the old one: a crash is before or after that, so file and memory
are one variable.

The two knobs stand for the two ways a knob is stored: `etl_hook` is always
written, `only_template` is left out of the sidefile when it is `None`.

Left out of `L2Model`: fields that refer to nothing, the rules about them (U1,
R12, R13, C8b, C8c, cadences, V1, V2, W1, O1, M1), the singleton sections
(theme, persona), and the countdown of the Delete button.

## 3. Runs

| Run | Instance | What it shows |
|---|---|---|
| `pool_safety` | 3 acquirers, 2 callers, all operations, semaphore 2, 2 faults | count exact, bracket body owns the file but for what an interruption left, drain protects cursors in use, whoever waits is woken, pool implements `FileLease` |
| `pool_fair` | 3 acquirers, 2 brackets, no fault, fair | acquires end, releases are temporary, drains end when the load pauses, refusals only during a refresh |
| `pool_rugpull` (violation) | 3 acquirers, 1 bracket, no fault | an acquirer admitted after the drain is woken is cut off |
| `pool_stranded` (violation) | 1 acquirer, 1 bracket, 1 fault | a cancelled close leaves the pool closed |
| `deploy_serial` | 2 runs in sequence, 2 rails, 2 faults | clean slate but for late rows of a hook left alive, no rail covered twice |
| `deploy_overlap` | 2 overlapping runs, 1 page, 1 rail, 1 fault | brackets exclude each other, file returned, views fresh and so the pages the server fills, rows stamped real go only by a full wipe or the standalone overlay |
| `deploy_live` | 2 overlapping runs, 1 page, no fault, fair | runs end, pages catch up, with the data too if the browser asks the server |
| `deploy_unmarked` (violation) | resets without hook | unmarked customer rows are deleted |
| `deploy_refused` (violation) | 1 etl run, 1 page, fair | a refused visual is not reloaded when the hook fails |
| `deploy_handles` (violation) | 2 resets | a hook starts while another run holds the file open |
| `trainer_overlay` | 2 session starts, 2 Applies, cleanup, 4 selections; 3 posts, 1 save within the tolerance or beyond it, 1 fault | ledger, rows and views agree at rest, tasks are exclusive and the slots exact, staleness banner and landing page truthful |
| `studio_editor` | a bank of 12 entities, 2 changes, 1 fault | entities are addressed apart up to equal digests, renames keep the graph, can be taken back, and are refused exactly when a reference is not rewritten or a generated id is taken, Delete button honest, stale forms rename nothing, knobs as told |

Why the bounds are enough: three acquirers and a semaphore of two make the
semaphore queue, the drain and the late arrival all happen at once; two callers
are needed, and enough, for every pair of pool operations to meet; two faults
let one fault meet the state another one left.  Two runs make every pair of
handlers overlap; two rails are needed for "covered" to differ from "all"; one
page suffices because pages do not affect each other.  One fault at any step is
what one click on cancel or one exception does; two faults, in `deploy_serial`,
let a second cancel come in the grace window of the first, or let the second run
meet a hook the first one left behind.  Deadlock is not checked in the `deploy`
runs: each run happens
once, so a behaviour may stop.  The pool never stops.  In `trainer_overlay` and
`studio_editor` it is not checked either: when the posts, changes and faults are
used up nothing is left to do.

In `trainer_overlay` three posts make an overlay (one), bring it to a state worth
losing (two) and overlap a third request with the second; two forms of one plant
and a second plant give the fast path, the slow path and a changed form value.
One edit (`LastSave` is 1: no save follows one that late) and one fault can fall
between any two steps; with `Tolerance` 1 the edit is at a distance of one, which
is not flagged, or of two, which is.  A double click whose
second POST slips past the guard counts as a fault.  Requests of a kind are
interchangeable, hence the symmetry.  In `studio_editor` the bank has each kind
of reference at least once, among them a role shared by two accounts, a dotted
selector, an XOR group, a fan-in child and a limit; the format `by role` makes
the id of a declared account of the role `new` and nothing else, and chains of one
parent share a digest, so that U7 refuses and URLs collide; two changes let a stale form
or token meet a changed instance, and a knob be set twice.  The invariants try
every rename and every removal in every state, which adds one more change to each
of these behaviours.

Fairness.  The event loop runs every ready task and threads finish, hence weak
fairness of each task's steps.  `asyncio.Lock` and `asyncio.Semaphore` queue
first come first served; the models leave the order open and use strong fairness
for the grant.  The hook ends because the code times it out.  The page's load
and poll are timers.  Nothing has to start, and no fault has to happen.  The two
last runs state safety only and assume no fairness.

## 4. Where the code differs from what it says

1. `pool_rugpull`: the class docstring promises that a dashboard mid-fetch gets
   a clean exception and not a closed cursor.  True for the cursors open when the
   drain began (`DrainProtectsEarly`), not for those admitted later.
2. `pool_stranded`: "ALWAYS reopens" does not hold if the cancellation comes at
   the await of `root.close` or of `duckdb.connect`.  It holds everywhere else:
   `StrandedOnlyThere` proves that no other step of a bracket strands the pool,
   and `ReopensUndisturbed` that none does where nothing is interrupted.  The
   thread of the cancelled await goes on after the lock was given back, so that
   the next bracket's body may run while this process still has the file open:
   the one exception in `BracketOwnsFile`.
3. `deploy_unmarked`: "unmarked rows survive" a reset without a hook does not
   hold, because the same run marks them first.  Rows that carry the stamp `real`
   do survive (`RealSurvive`, proved as `RealRowsSurvive`).
4. `deploy_refused`: "the dashboard will reload when it completes" does not hold
   if the hook fails.
5. `deploy_handles`: the bracket serializes hooks, not runs, so that a hook may
   find the file open in the Studio process.  Where runs do not overlap no
   deploy connection is open when a hook starts (`SerialHookAlone`), only a hook
   an interruption left alive may have the file; where nothing is interrupted
   either, the hook finds it free (`UndisturbedHookAlone`) and no run finds it
   taken (`SerialRunsUnbroken`).

These have a violation run each.  The following were met while modelling, and
the properties are weakened by them and no more; every one is visible in a
definition.

6. An Apply that must take a plant out clones `config_kv` from the base tables,
   and with it goes the session's stamp (`ApplyClonesLedger`): the staleness
   banner is not shown again until the next session start or rebuild.
   `StaleFlagExact` excepts it by `blind`.  A save within a second of the stamp
   is never flagged, by intention of the code.
7. An L2 edit during the base leg of a session start is not flagged later: the
   instance is read before it, the mtime after it (`BaseDone`).  Also `blind`.
8. Two session starts may run at once if the second POST comes while the first
   awaits its form; the first to end empties the slot of the other (`raced`).
9. The landing page reads the ledger first and the slots last.  A task that ends
   in between is on neither (`late`), and no poll corrects the page.  A probe of
   it that raises reads as "no overlay" or "nothing applied" (`misread`): the page
   then shows less than the ledger holds.
10. A failed plant may leave rows that no ledger names and no Apply takes out by
    itself (`spilled`); an unreadable ledger counts as empty and plants again
    what was planted.
11. `rename_identifier` promises to rewrite every field the validator resolves
    (`common/l2/editor.py`, 135-140), but not the members of XOR groups, the rail
    of a limit schedule, or dotted selectors: a rename of such a rail or template
    is refused by the validator instead.  A role that appears in
    `instance_id_template` cannot become one whose generated ids meet a declared
    account's (U7).  `RenameRefusals` names these cases and no other.
12. A rail and a template may share a name; chains name either, so a rename of
    the one takes the references of the other (`Namesakes`).  Renaming a role to
    one in use merges the two without a word.
13. Accounts share roles: changing the role of one in its form moves every
    account and reference of that role.  Accounts are also found by id, so that
    an old tab posts the old role and renames it back for all
    (`UntouchedRenamesNothing` excepts it).
14. The Delete button is enabled for templates and rails whose removal the
    validator refuses because a rail would be left unreconciled, and for the
    last account of a role a template hangs from (`LeavesUnreconciled`).
15. A confirm token names a key: when the entity was removed and another took
    its name, the token deletes the other.
16. A knob whose write failed keeps its value in memory, and the next good write
    of any knob persists it; a cleared knob is not in the sidefile, so a restart
    brings the configured value back (`KnobsAsTold` says both).  A knob may name
    a template that is gone, which fails the next deploy after its wipe.
17. `bootstrap.js` (2308) speaks of at most three seconds of perceived staleness,
    but a reload within a minute may be answered by the browser with the data of
    before the refresh (`html/server.py`, 589-596, 617-629, 901-903): the page then
    shows old data at the new generation and polls find nothing new.  `PageFresh`
    and `PagesCatchUp` except such pages (`cached`).
18. A hook that an interruption left alive may open the file after the next run's
    wipe and write into that run's rows.  `CleanSlate` excepts these rows by
    `left`; a hook that has the file open already stops that run instead.
19. `html/_components.py` (116-119) says that the resolver "fails loud" if two
    digests of composite keys collide; `_resolve_url_entity_id` returns the first
    match and says nothing.  `KeysUnique` excepts equal digests of different keys.

## 5. Proofs

`DuckdbPoolProofs` proves, for any sets of acquirers and callers, any semaphore
size and any number of faults, `TypeOK`, `InFlightExact`, `BracketOwnsFile`,
`DrainProtectsEarly`, `NoLostWakeup` and the refinement `LeaseSpec`; and, for
brackets without faults, `RefusalMeansRefresh` and `AlwaysReopens`.  Without
faults a body has the file for itself with no exception (`BodyAloneUndisturbed`).  The assumptions are those named in `DuckdbPool`:
the acquirers are finitely many, and the constants that stand for "nobody" and
"the pool" are no caller.

The inductive invariant is the conjunction of `TypeOK`, `InFlightExact` and

* `LockInv`: a caller is past the lock queue exactly when it is the owner;
* `RootInv`: while the root is being drained or closed it is there, while a
  body runs or the root is being reopened it is not;
* `CursorInv`: an acquirer without a slot has no cursor, and without a root (or
  with a dead one) no cursor works;
* `StrayInv`: a thread, or a cursor of a root that was given up, is left over
  only after an interruption;
* `EarlyInv`: the acquirers `early` remembers hold a slot, and there are none
  once the caller that drains has been woken.

`EarlyInv` is the heart of it: it needs the exact count, since only "the count
was zero" says that everybody who was in flight has left.  Cardinality facts come
from `FiniteSetTheorems`.

`NoLostWakeup` is the safety half of the drain's liveness: nobody sleeps on an
event that was set.  Beside `IInv` it needs `DrainInv`, that a caller waiting for
the drain finds the event clear; each acquirer's step that brings the count to
zero wakes the waiter in the same step (`AcquirerKeepsDrain`).  The exact count
then turns "clear" into "somebody has a slot, or one is lost".

`AlwaysReopens` is what `pool_stranded` refutes.  Two theorems delimit the
counterexample: `ReopensUndisturbed` proves it for brackets without faults (by
`ReleasedInv`: a missing root has a caller in the lock that will open it), and
`StrandedOnlyThere` names, for all operations and any number of faults, the only
steps that leave the lock free and the pool without a root.

`DeployPipelineProofs` proves, for any finite sets of runs and rails, any pages, any overlap
and any number of faults, `TypeOK`, `HookOwnsLease`, `PoolReturned`,
`FreshAtRest`, `PageFresh` and `RealSurvive`.  The inductive invariant `IInv` is `TypeOK`,
`PoolReturned` and

* `LeaseInv`: a run is in the bracket, short of the reopen, exactly when it has
  the lease, nobody has it during the reopen, and one run at most is in a bracket;
* `OutInv`: a run that knows it will not complete does nothing but unwind;
* `SubInv`: a hook outlives its step only in a run that ends badly;
* `FileInv`: a hook has the file open only while nothing of this process does,
  and one nobody waits for is in `left`;
* `ViewsInv`: views that lag behind the rows are the business of some run;
* `PageInv`: a page that the server filled and that lags behind the views has a
  bump ahead of it, or an interrupted run behind it.

The freshness of the views rests on `SubInv`: a hook that nobody waits for may
write at any time after its run is over, and that this is not an exception to
`FreshAtRest` is due to that run having failed or been cancelled.  Each lemma
follows one of these through `Next` (`UnrefreshedStays`, `BadEndStays`,
`BumpStaysDue`, ...).

`RealSurvive` is a property of steps.  The auto-mark stamps only rows without a
source (`AutoMarkKeepsReal`), the narrow wipe takes only what is stamped
training, and an interrupted statement, which may have taken effect in part,
takes no more than the whole would; `OverlayInv` says which runs come to the
overlay at all.

Three theorems state properties no run checks separately.  `PipelineUsesLease`:
the pipeline and the pages use the file as `FileLease` allows, so that together
with `PoolImplementsLease` the pool's side and the user's side meet in the same
abstract specification.  `LeaseNotLeaked`: none of the many exits from a run keeps
the lease, and every cursor counted belongs to a page.  `RunsAdvance`: every move
of a run takes it to a later `Stage`, seventeen at most, so that of `RunsEnd`
only the fairness of each move is left to TLC.

`DeploySerialProofs` proves `CleanSlate` and `NoDoubleCover` under the assumption
`~Overlap`, for any number of runs, rails and faults.  Its invariant adds that
one run at most is active, that a deploy connection is open just where the
pipeline uses one (`ConnInv`), so that no hook left alive gets at the file from
the second `OpenConn` on, that behind the wipe the rows are the run's own or
those of such a hook (`RowsAreOwn`), and that the rails found covered still are
when the script is applied (`CoverInv`).  With overlap both properties are false
of the code: a second run wipes or fills the tables under the first.

Under the same assumption it proves what is left of `HookFindsFileFree`, which
`deploy_handles` refutes for runs that overlap: no deploy connection is open
where a hook starts, and other hooks are alive only if they were left behind
(`SerialHookAlone`, by `ConnInv` and `FileInv`).  Without faults there is no such
hook (`UnbrokenInv`, `NoOrphan`), so that `HookFindsFileFree` holds
(`UndisturbedHookAlone`), no run finds the file taken, and none ends failed or
cancelled (`SerialRunsUnbroken`).

The assumptions are those named in the modules; that a DuckDB file cannot be
opened by one process while another has it open is part of `OpenConn`,
`ReopenPool` and `HookOpens`.

`TrainerOverlayProofs` proves all of the run's invariants for any plants, any
sets of requests and any bounds.  The inductive invariant `IInv` is `TypeOK`,
`OneApply`, `OneStart` and

* `ViewsInv`: views that are not those of the rows, or missing, are due to a
  worker that will refresh or to one that ended early;
* `SoloInv`: an overlap of two workers is remembered by `torn` until one of them
  clones alone, so `~torn` leaves one worker at most between its first and last
  statement;
* `NothingYet`, `MissingIsEmpty`: before the first session there is no overlay,
  and a missing table reads as an empty one;
* `InstInv`: the instance a worker builds from is no newer than the file;
* `OverlayInv`: for that one worker, what ledger and rows hold at each of its
  steps (`SessionInv`, `CleanInv`, `LedgerInv`, `PlantedInv`, `RowsInv`,
  `StampInv`): for example that between the clone and the write of the ledger
  the rows are the plants in `ok` and what was spilled;
* `BannerInv`, `PageInv`: what a page has read was true when it read it, or less
  than that if a probe failed, and a worker that changes it later shows in a slot or in `late`.

`AppliesAsAsked` is about each step of an Apply: what is still to plant and what
is known to be planted make up, together, the selection its form was posted with.
The plan keeps that union on the fast path and on the slow one, a plant that
fails is the only loss, and the write of the ledger, which comes when nothing is
left to plant (`AskedInv`), writes the rest.  It holds however workers overlap,
unlike `LedgerMatchesRows`, which speaks of the rows and so excepts `torn`.

`StudioEditorProofs` proves, for any sets of entities and names, any offers and
any bounds, `TypeOK`, with `Valid(inst)` in it, `KeysUnique`, `KnobsAsTold` and
`UntouchedRenamesNothing`, for any `Digest` and any `Generated`.  Most of the
work is that the editor's operations keep an instance well-formed
(`SavedIsInstance`, `AttachedIsInstance`), and, for the keys, that two chains
with the same parent and children are one by C5 and C6.  Two addresses that agree
then leave one entity, or two keys with one digest.
`KnobsAsTold` is not inductive: the invariant (`KnobInv`) says the same of what
the sidefile would give back at a restart.

`EditorGraphProofs` proves the rest about the editor, `DeleteButtonHonest`,
`RenameRefusals` and `RenameKeepsGraph`, again for any L2 instance and not only
for the bank of the run.  Both arguments start from `Valid(inst)`, which is part of
the proved `TypeOK`, and go rule by rule through the validator.

* Delete: for each kind, a lemma (`DeleteAcct`, `DeleteATpl`, `DeleteRail`,
  `DeleteTpl`, `DeleteChain`, `DeleteLimit`) says which rules hold of what is left
  without looking at the references, and that the others fail exactly when the
  button's own search finds one.
* Rename: what a save under another name does is first put field by field
  (`AsRole`, `AsRail`, `AsTpl`, proved of the save handler by `RoleRenamed`,
  `RailRenamed`, `TplRenamed`).  A substitution by a name nobody has is one to one
  (`SubOneToOne`), so each rule and each reference carries over when everything
  that used the name was rewritten (`RoleRenameAccepted`, `RailRenameAccepted`,
  `TplRenameAccepted`, and `...Keeps` for the graph); where something was not, the
  old name belongs to nobody and one rule fails (`RailRenameRefused`,
  `TplRenameRefused`).  For a role, U7 is looked at last: it holds of the renamed
  instance exactly when the ids generated of the new role are free.  Rails and templates that share a name are excluded, and the
  proof shows where: a chain's reference to a rail would then be rewritten with a
  template's.

`EditorUndoProofs` proves `RenameUndone` from the same field-wise description.
Substituting a name nobody has and substituting it back is the identity on every
name, set of names and selector (`SubBack`, `SubAllBack`, `SubBareBack`).  That the
way back is such a substitution too needs the first rename to have been accepted:
for rails and templates the validator's rules then say that the new name is the
entity's alone.  Equality of instances is shown field by field (`SameInstance`).

Only model-checked: all liveness properties, that is `RequestsEnd`,
`ReleaseIsTemporary`, `DrainEndsWhenLoadPauses`, `RunsEnd` and `PagesCatchUp`, which
need fairness.  Every safety property of a passing run is proved.

## 6. Not modelled, and why

In the parts above: PostgreSQL and Oracle (no file to lease); `derive_balances`
and the cutoff of the trainer (numbers only); the scopes `exceptions_only` and
`only_template`, which change what the generator emits and nothing else; the
event streams of the progress pages, which read state and change none; a restart
of the process within a pipeline run; edits of the instance within a run, which
the pipeline does not see because it holds the instance it was started with.

`Snapshotter` drives the trainer's tests and no operator's page.  `take` and
`restore` are bodies of the bracket of `DuckdbPool` and need nothing from it that
`BracketOwnsFile` does not give.  What a restore does to a database file that a
deploy connection of the same process has open is up to DuckDB and the file
system, and the code neither prevents nor handles it, so there is no behaviour of
the code to model.

The remaining parts keep no state that outlives a call: SQL and schema text,
seed generation, coverage, triage and probe queries, rendering, configuration,
intervals and money, provenance, PDF, the command line.  They are sequential
functions of their arguments, most of the repository's lines, and covered by its
unit tests; a model of their text would repeat it.  Login and sessions are
external (the identity provider) but for a signed cookie.

What could come next: the composition of `StudioEditor` with `DeployPipeline`
(a run that started on an instance which was edited since), and reference
definitions for intervals and supersession.
