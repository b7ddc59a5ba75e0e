--------------------------- MODULE TrainerOverlay ---------------------------
(***************************************************************************)
(* The trainer overlay (common/l2/v_overlay.py), the `/training/*`         *)
(* handlers that drive it and the landing page that shows it               *)
(* (common/html/_studio_routes.py), on DuckDB.  A session start clones the *)
(* base tables into the `_v` tables; an Apply adds the plants the operator *)
(* ticked, or clones again when one has to come out, and writes a ledger   *)
(* of what is planted into the overlay's own `_v_config_kv`; a cleanup     *)
(* drops it all.  Each runs in a worker thread on a connection of its own  *)
(* whose statements commit one by one, so a step is a statement (or        *)
(* several on the same table) and a worker that ends early leaves what it  *)
(* did.                                                                    *)
(***************************************************************************)
EXTENDS Naturals

CONSTANTS
  Kinds,      \* plant kinds of the registry
  Forms,      \* form values of a plant, as the ledger fingerprints them
  Offered,    \* the selections the operator may post
  Starts,     \* requests for a session start or a rebuild
  Applies,    \* requests for an Apply
  MaxPosts,   \* bound on the requests of one behaviour
  LastSave,   \* no save of the L2 file follows one as late as this
  Tolerance,  \* an older stamp than the file is stale by more than this: 1.0 s
  MaxFaults,  \* bound on exceptions, kills and double clicks
  NoTask      \* an empty task slot

Plant == Kinds \X Forms

ASSUME OfferedAssumption ==
  Offered \subseteq SUBSET Plant
ASSUME OneFormPerKind ==
  \A sel \in Offered : \A p, q \in sel : p[1] = q[1] => p = q
ASSUME TasksAssumption ==
  NoTask \notin Starts \cup Applies /\ Starts \cap Applies = {}
ASSUME BoundsAssumption ==
  MaxPosts \in Nat /\ LastSave \in Nat /\ MaxFaults \in Nat
ASSUME ToleranceAssumption ==
  Tolerance \in Nat

VARIABLES
  \* the database and the L2 file
  tables,     \* the overlay's tables that exist; a missing one is kept empty
  rows,       \* plants whose rows are in `_v_transactions`, `_v_daily_balances`
  views,      \* the rows the overlay's views were derived from
  ledger,     \* `_v_config_kv`: the applied plants, the L2 file's stamp
  yaml,       \* when the L2 instance was saved last: its version and the mtime
  \* the Studio process
  startSlot,  \* `_training_start_state["task"]`
  applySlot,  \* `_training_apply_state["task"]`
  st,         \* requests for a session start or a rebuild, and their tasks
  ap,         \* Apply requests and their tasks
  cleaner,    \* the cleanup handler
  page,       \* the operator's landing page
  \* bounds
  posts, faults,
  \* history, for properties only
  built,      \* the L2 instance the overlay's schema was created from
  torn,       \* workers overlapped, or a clone was cut, since the last clone
  spilled,    \* plants that may have left rows no ledger names
  behind,     \* a worker ended early since the last refresh
  blind,      \* the ledger holds no stamp that an edit would outdate
  raced,      \* a session start was let in beside another
  late        \* a task ended unseen by the page that was being rendered

database == <<tables, rows, views, ledger>>
slots    == <<startSlot, applySlot>>
history  == <<built, torn, spilled, behind, blind, raced, late>>
vars == <<database, yaml, slots, st, ap, cleaner, page, posts, faults, history>>

-----------------------------------------------------------------------------
NoStamp == LastSave + Tolerance + 1
Version == 0..(LastSave + Tolerance)
Tables  == {"views", "rows", "ledger"}
Ledger  == [applied : SUBSET Plant, stamp : Version \cup {NoStamp}]

(* `config_kv` of the base tables holds none of the trainer's keys.        *)
BaseLedger == [applied |-> {}, stamp |-> NoStamp]

(* `read_applied_state`: nothing when there is no table or no row; the     *)
(* landing page asks the same.                                             *)
Applied == ledger.applied

Dropping     == {"dropViews", "dropRows", "dropLedger"}
StartWorking == Dropping \cup
                {"create", "clone", "refresh", "kv"}
StartTask    == StartWorking \cup {"base", "ended"}
StartState   == StartTask \cup {"idle", "form"}
ApplyWorking == {"clone", "cloneLedger", "plant", "clear", "write"}
ApplyTask    == ApplyWorking \cup {"spawned", "ended"}
ApplyState   == ApplyTask \cup {"idle"}
PageState    == {"none", "read", "flags", "shown"}

WorkingStarts  == {r \in Starts : st[r].pc \in StartWorking}
WorkingApplies == {r \in Applies : ap[r].pc \in ApplyWorking}
Cleaning       == cleaner # "idle"
AtRest == WorkingStarts = {} /\ WorkingApplies = {} /\ ~Cleaning

(* Somebody else is between the first and the last statement of his work.  *)
Company(r) == \/ WorkingStarts \ {r} # {} \/ WorkingApplies \ {r} # {}
              \/ Cleaning

(* `misread` is history: a probe failed and was taken for an answer. *)
NoPage == [pc |-> "none", exists |-> FALSE, applied |-> {}, banner |-> {},
           misread |-> FALSE]

Init ==
  /\ tables = {} /\ rows = {} /\ views = {} /\ ledger = BaseLedger
  /\ yaml = 0
  /\ startSlot = NoTask /\ applySlot = NoTask
  /\ st = [r \in Starts |-> [pc |-> "idle", inst |-> 0, stamp |-> NoStamp]]
  /\ ap = [r \in Applies |-> [pc |-> "idle", todo |-> {}, ok |-> {}]]
  /\ cleaner = "idle"
  /\ page = NoPage
  /\ posts = 0 /\ faults = 0
  /\ built = 0 /\ torn = FALSE /\ spilled = {} /\ behind = FALSE
  /\ blind = TRUE /\ raced = FALSE /\ late = FALSE

StGoto(r, s) == st' = [st EXCEPT ![r].pc = s]
ApGoto(r, s) == ap' = [ap EXCEPT ![r].pc = s]

(* The browser follows a redirect to /training/. *)
Redirected == /\ page' = [NoPage EXCEPT !.pc = "read"]
              /\ late' = FALSE

Post == posts < MaxPosts /\ posts' = posts + 1

(* What nearly every step of a worker leaves alone. *)
WorkerKeeps ==
  UNCHANGED <<yaml, slots, cleaner, page, posts, faults, raced, late>>

-----------------------------------------------------------------------------
(* POST /training/session-start and /training/reclone.                     *)

(* The task calls `session_start(cfg, cache.get(), ...)`. *)
Spawn(r) ==
  /\ st' = [st EXCEPT ![r].pc = "base", ![r].inst = yaml]
  /\ startSlot' = r

(* The guard reads the slot and then the form is awaited. *)
PostStart(r) ==
  /\ st[r].pc = "idle" /\ Post
  /\ IF startSlot = NoTask
     THEN /\ st' = [st EXCEPT ![r].pc = "form"]
          /\ UNCHANGED <<page, late>>
     ELSE Redirected /\ UNCHANGED st
  /\ UNCHANGED <<database, yaml, slots, ap, cleaner, faults,
                 built, torn, spilled, behind, blind, raced>>

(* The form has come; the slot is not looked at again. *)
StartSpawned(r) ==
  /\ st[r].pc = "form"
  /\ Spawn(r)
  /\ IF \A q \in Starts : st[q].pc \notin StartTask
     THEN UNCHANGED <<faults, raced>>
     ELSE /\ faults < MaxFaults /\ faults' = faults + 1
          /\ raced' = TRUE
  /\ Redirected
  /\ UNCHANGED <<database, yaml, applySlot, ap, cleaner, posts,
                 built, torn, spilled, behind, blind>>

(* Mutant of PostReclone: without its guard. *)
PostRecloneUnguarded(r) ==
  /\ st[r].pc = "idle" /\ Post
  /\ Spawn(r)
  /\ Redirected
  /\ UNCHANGED <<database, yaml, applySlot, ap, cleaner, faults,
                 built, torn, spilled, behind, blind, raced>>

(* A rebuild has no form to wait for. *)
PostReclone(r) ==
  /\ st[r].pc = "idle" /\ Post
  /\ IF startSlot = NoTask
     THEN Spawn(r)
     ELSE UNCHANGED <<st, startSlot>>
  /\ Redirected
  /\ UNCHANGED <<database, yaml, applySlot, ap, cleaner, faults,
                 built, torn, spilled, behind, blind, raced>>

(* The probe and, for a session start, the pipeline run on the base tables *)
(* are over; its outcome is not looked at.  Then the file's mtime is read  *)
(* and the worker starts.                                                  *)
BaseDone(r) ==
  /\ st[r].pc = "base"
  /\ st' = [st EXCEPT ![r].pc = "dropViews", ![r].stamp = yaml]
  /\ torn' = (torn \/ Company(r))
  /\ UNCHANGED <<database, ap, built, spilled, behind, blind>>
  /\ WorkerKeeps

(* `drop_v_overlay_sql`: the views, the data tables, `config_kv`. *)
Drops(s) ==
  \/ /\ s = "dropViews"
     /\ tables' = tables \ {"views"} /\ views' = {}
     /\ UNCHANGED <<rows, ledger>>
  \/ /\ s = "dropRows"
     /\ tables' = tables \ {"rows"} /\ rows' = {}
     /\ UNCHANGED <<views, ledger>>
  \/ /\ s = "dropLedger"
     /\ tables' = tables \ {"ledger"} /\ ledger' = BaseLedger
     /\ UNCHANGED <<views, rows>>

AfterDrop(s, end) ==
  CASE s = "dropViews"  -> "dropRows"
    [] s = "dropRows"   -> "dropLedger"
    [] s = "dropLedger" -> end

StartDrops(r) ==
  /\ st[r].pc \in Dropping
  /\ Drops(st[r].pc)
  /\ StGoto(r, AfterDrop(st[r].pc, "create"))
  /\ UNCHANGED <<ap, built, torn, spilled, behind, blind>>
  /\ WorkerKeeps

(* `emit_schema`: drops what is there and creates every object, empty. *)
Create(r) ==
  /\ st[r].pc = "create"
  /\ tables' = Tables /\ rows' = {} /\ views' = {} /\ ledger' = BaseLedger
  /\ built' = st[r].inst
  /\ torn' = (torn /\ Company(r))
  /\ spilled' = {}
  /\ behind' = FALSE
  /\ blind' = TRUE
  /\ StGoto(r, "clone")
  /\ UNCHANGED ap
  /\ WorkerKeeps

(* `CREATE OR REPLACE TABLE ... AS SELECT` of the base tables, which hold  *)
(* no plant.                                                               *)
StartClones(r) ==
  /\ st[r].pc = "clone"
  /\ tables' = tables \cup {"rows", "ledger"}
  /\ rows' = {} /\ ledger' = BaseLedger
  /\ StGoto(r, "refresh")
  /\ UNCHANGED <<views, ap, built, torn, spilled, behind, blind>>
  /\ WorkerKeeps

StartRefreshes(r) ==
  /\ st[r].pc = "refresh" /\ "rows" \in tables
  /\ tables' = tables \cup {"views"} /\ views' = rows
  /\ behind' = FALSE
  /\ StGoto(r, "kv")
  /\ UNCHANGED <<rows, ledger, ap, built, torn, spilled, blind>>
  /\ WorkerKeeps

(* Mutant of WriteSession: the mtime is read when it is written. *)
WriteSessionLate(r) ==
  /\ st[r].pc = "kv" /\ "ledger" \in tables
  /\ ledger' = [applied |-> {}, stamp |-> yaml]
  /\ blind' = (st[r].stamp # st[r].inst)
  /\ StGoto(r, "ended")
  /\ UNCHANGED <<tables, rows, views, ap, built, torn, spilled, behind>>
  /\ WorkerKeeps

(* The session's metadata and the emptied ledger. *)
WriteSession(r) ==
  /\ st[r].pc = "kv" /\ "ledger" \in tables
  /\ ledger' = [applied |-> {}, stamp |-> st[r].stamp]
  /\ blind' = (st[r].stamp # st[r].inst)
  /\ StGoto(r, "ended")
  /\ UNCHANGED <<tables, rows, views, ap, built, torn, spilled, behind>>
  /\ WorkerKeeps

(* A table the next statement needs is gone. *)
StartMissesTable(r) ==
  \/ st[r].pc = "refresh" /\ "rows" \notin tables
  \/ st[r].pc = "kv" /\ "ledger" \notin tables

(* The base leg or a statement raises; the drop is only an attempt. *)
StartRaises(r) ==
  /\ st[r].pc \in StartWorking \cup {"base"}
  /\ IF StartMissesTable(r) THEN UNCHANGED faults
     ELSE faults < MaxFaults /\ faults' = faults + 1
  /\ StGoto(r, IF st[r].pc \in Dropping THEN "create" ELSE "ended")
  /\ behind' = (behind \/ st[r].pc \in StartWorking)
  /\ UNCHANGED <<database, yaml, slots, ap, cleaner, page, posts,
                 built, torn, spilled, blind, raced, late>>

(* `finally`: the slot is emptied, whoever is in it.  `late`: a page that  *)
(* has begun to read and has not come to the slots yet will see no task.   *)
Unseen == page.pc = "flags"

StartEnds(r) ==
  /\ st[r].pc = "ended"
  /\ st' = [st EXCEPT ![r].pc = "idle", ![r].inst = 0, ![r].stamp = NoStamp]
  /\ startSlot' = NoTask
  /\ raced' = (raced /\ \E q \in Starts \ {r} : st[q].pc \in StartTask)
  /\ late' = (late \/ Unseen \/ startSlot # r)
  /\ UNCHANGED <<database, yaml, applySlot, ap, cleaner, page, posts, faults,
                 built, torn, spilled, behind, blind>>

-----------------------------------------------------------------------------
(* POST /training/apply. *)

(* Mutant of PostApply: without its guard. *)
PostApplyUnguarded(r, sel) ==
  /\ ap[r].pc = "idle" /\ Post
  /\ ap' = [ap EXCEPT ![r].pc = "spawned", ![r].todo = sel]
  /\ applySlot' = r
  /\ Redirected
  /\ UNCHANGED <<database, yaml, startSlot, st, cleaner, faults,
                 built, torn, spilled, behind, blind, raced>>

(* Nothing is read before the form has come; then guard and task without   *)
(* an await between them.                                                  *)
PostApply(r, sel) ==
  /\ ap[r].pc = "idle" /\ Post
  /\ IF applySlot = NoTask
     THEN /\ ap' = [ap EXCEPT ![r].pc = "spawned", ![r].todo = sel]
          /\ applySlot' = r
     ELSE UNCHANGED <<ap, applySlot>>
  /\ Redirected
  /\ UNCHANGED <<database, yaml, startSlot, st, cleaner, faults,
                 built, torn, spilled, behind, blind, raced>>

(* `compute_apply_diff` on what the ledger was found to hold: the plants   *)
(* are pairs, so one with changed form values is in both differences.      *)
Unchanged(cur, sel)   == cur \cap sel
ToAdd(cur, sel)       == sel \ cur
ToRemove(cur, sel)    == cur \ sel
NeedsReclone(cur, sel) == ToRemove(cur, sel) # {}

Plan(r, cur) ==
  LET sel == ap[r].todo
  IN  ap' = IF NeedsReclone(cur, sel)
            THEN [ap EXCEPT ![r].pc = "clone"]
            ELSE [ap EXCEPT ![r].pc = "plant", ![r].todo = ToAdd(cur, sel),
                            ![r].ok = Unchanged(cur, sel)]

ReadLedger(r) ==
  /\ ap[r].pc = "spawned"
  /\ Plan(r, Applied)
  /\ torn' = (torn \/ Company(r))
  /\ UNCHANGED <<database, st, built, spilled, behind, blind>>
  /\ WorkerKeeps

(* The read goes through a connection of its own; when that cannot be had  *)
(* the ledger counts as empty.                                             *)
LedgerUnread(r) ==
  /\ ap[r].pc = "spawned"
  /\ faults < MaxFaults /\ faults' = faults + 1
  /\ Plan(r, {})
  /\ torn' = (torn \/ Company(r))
  /\ spilled' = spilled \cup Applied
  /\ UNCHANGED <<database, yaml, slots, st, cleaner, page, posts,
                 built, behind, blind, raced, late>>

ApplyClones(r) ==
  /\ ap[r].pc = "clone"
  /\ tables' = tables \cup {"rows"} /\ rows' = {}
  /\ torn' = (torn /\ Company(r))
  /\ spilled' = {}
  /\ ApGoto(r, "cloneLedger")
  /\ UNCHANGED <<views, ledger, st, built, behind, blind>>
  /\ WorkerKeeps

(* The clone of `config_kv` takes the session's stamp away with the rest. *)
ApplyClonesLedger(r) ==
  /\ ap[r].pc = "cloneLedger"
  /\ tables' = tables \cup {"ledger"} /\ ledger' = BaseLedger
  /\ blind' = TRUE
  /\ ApGoto(r, "plant")
  /\ UNCHANGED <<rows, views, st, built, torn, spilled, behind>>
  /\ WorkerKeeps

PlantOne(r, p) ==
  /\ ap[r].pc = "plant" /\ p \in ap[r].todo /\ "rows" \in tables
  /\ rows' = rows \cup {p}
  /\ ap' = [ap EXCEPT ![r].todo = @ \ {p}, ![r].ok = @ \cup {p}]
  /\ UNCHANGED <<tables, views, ledger, st, built, torn, spilled, behind, blind>>
  /\ WorkerKeeps

(* Mutant of PlantFails: a failed plant gets into the ledger. *)
PlantFailsCounted(r, p) ==
  /\ ap[r].pc = "plant" /\ p \in ap[r].todo
  /\ IF "rows" \notin tables
     THEN UNCHANGED <<rows, spilled, faults>>
     ELSE /\ faults < MaxFaults /\ faults' = faults + 1
          /\ rows' \in {rows, rows \cup {p}}
          /\ spilled' = spilled \cup {p}
  /\ ap' = [ap EXCEPT ![r].todo = @ \ {p}, ![r].ok = @ \cup {p}]
  /\ UNCHANGED <<tables, views, ledger, yaml, slots, st, cleaner, page, posts,
                 built, torn, behind, blind, raced, late>>

(* An exception of one plant is caught, and its first statements stay. *)
PlantFails(r, p) ==
  /\ ap[r].pc = "plant" /\ p \in ap[r].todo
  /\ IF "rows" \notin tables
     THEN UNCHANGED <<rows, spilled, faults>>
     ELSE /\ faults < MaxFaults /\ faults' = faults + 1
          /\ rows' \in {rows, rows \cup {p}}
          /\ spilled' = spilled \cup {p}
  /\ ap' = [ap EXCEPT ![r].todo = @ \ {p}]
  /\ UNCHANGED <<tables, views, ledger, yaml, slots, st, cleaner, page, posts,
                 built, torn, behind, blind, raced, late>>

(* Mutant of ApplyRefreshes: the views are not refreshed. *)
ApplyRefreshesNothing(r) ==
  /\ ap[r].pc = "plant" /\ ap[r].todo = {} /\ "rows" \in tables
  /\ ApGoto(r, "clear")
  /\ UNCHANGED <<database, st, built, torn, spilled, behind, blind>>
  /\ WorkerKeeps

ApplyRefreshes(r) ==
  /\ ap[r].pc = "plant" /\ ap[r].todo = {} /\ "rows" \in tables
  /\ tables' = tables \cup {"views"} /\ views' = rows
  /\ behind' = FALSE
  /\ ApGoto(r, "clear")
  /\ UNCHANGED <<rows, ledger, st, built, torn, spilled, blind>>
  /\ WorkerKeeps

(* `_kv_write_sql`: a DELETE and an INSERT. *)
ClearLedger(r) ==
  /\ ap[r].pc = "clear" /\ "ledger" \in tables
  /\ ledger' = [ledger EXCEPT !.applied = {}]
  /\ ApGoto(r, "write")
  /\ UNCHANGED <<tables, rows, views, st, built, torn, spilled, behind, blind>>
  /\ WorkerKeeps

WriteLedger(r) ==
  /\ ap[r].pc = "write" /\ "ledger" \in tables
  /\ ledger' = [ledger EXCEPT !.applied = ap[r].ok]
  /\ ApGoto(r, "ended")
  /\ UNCHANGED <<tables, rows, views, st, built, torn, spilled, behind, blind>>
  /\ WorkerKeeps

ApplyMissesTable(r) ==
  \/ ap[r].pc = "plant" /\ ap[r].todo = {} /\ "rows" \notin tables
  \/ ap[r].pc \in {"clear", "write"} /\ "ledger" \notin tables

(* What the rows of a cut Apply are worth: nobody can tell any more. *)
ApplyCut(r) ==
  /\ torn' = (torn \/ ap[r].pc = "cloneLedger")
  /\ spilled' = spilled \cup rows
  /\ behind' = TRUE

ApplyRaises(r) ==
  /\ ap[r].pc \in ApplyWorking
  /\ IF ApplyMissesTable(r) THEN UNCHANGED faults
     ELSE faults < MaxFaults /\ faults' = faults + 1
  /\ ApplyCut(r)
  /\ ApGoto(r, "ended")
  /\ UNCHANGED <<database, yaml, slots, st, cleaner, page, posts,
                 built, blind, raced, late>>

ApplyEnds(r) ==
  /\ ap[r].pc = "ended"
  /\ ap' = [ap EXCEPT ![r] = [pc |-> "idle", todo |-> {}, ok |-> {}]]
  /\ applySlot' = NoTask
  /\ late' = (late \/ Unseen)
  /\ UNCHANGED <<database, yaml, startSlot, st, cleaner, page, posts, faults,
                 built, torn, spilled, behind, blind, raced>>

-----------------------------------------------------------------------------
(* POST /training/cleanup: no guard, and the handler waits for the worker. *)
PostCleanup ==
  /\ cleaner = "idle" /\ Post
  /\ cleaner' = "dropViews"
  /\ torn' = (torn \/ WorkingStarts # {} \/ WorkingApplies # {})
  /\ UNCHANGED <<database, yaml, slots, st, ap, page, faults,
                 built, spilled, behind, blind, raced, late>>

Cleans ==
  /\ Cleaning
  /\ Drops(cleaner)
  /\ cleaner' = AfterDrop(cleaner, "idle")
  /\ IF cleaner = "dropLedger" THEN Redirected ELSE UNCHANGED <<page, late>>
  /\ UNCHANGED <<yaml, slots, st, ap, posts, faults,
                 built, torn, spilled, behind, blind, raced>>

(* A statement of it raises, and the browser shows the error. *)
CleanupRaises ==
  /\ Cleaning
  /\ faults < MaxFaults /\ faults' = faults + 1
  /\ cleaner' = "idle"
  /\ page' = NoPage
  /\ behind' = TRUE
  /\ UNCHANGED <<database, yaml, slots, st, ap, posts,
                 built, torn, spilled, blind, raced, late>>

-----------------------------------------------------------------------------
(* GET /training/: the overlay and its ledger first, the slots last. *)
ReadLedgers ==
  /\ page.pc = "read"
  /\ page' = [page EXCEPT !.pc = "flags", !.exists = "rows" \in tables,
                          !.applied = IF "rows" \in tables THEN Applied ELSE {}]
  /\ UNCHANGED <<database, yaml, slots, st, ap, cleaner, posts, faults, history>>

(* A probe that raises is swallowed: `_v_overlay_exists` then says that    *)
(* there is no overlay, `read_applied_state` that nothing is applied.      *)
LedgersUnread ==
  /\ page.pc = "read"
  /\ faults < MaxFaults /\ faults' = faults + 1
  /\ \E seen \in {FALSE, "rows" \in tables} :
       page' = [page EXCEPT !.pc = "flags", !.exists = seen, !.applied = {},
                            !.misread = TRUE]
  /\ UNCHANGED <<database, yaml, slots, st, ap, cleaner, posts, history>>

(* Mutant of Render: the banner of session starts only. *)
RenderStartOnly ==
  /\ page.pc = "flags"
  /\ page' = [page EXCEPT !.pc = "shown", !.banner = {startSlot} \ {NoTask}]
  /\ UNCHANGED <<database, yaml, slots, st, ap, cleaner, posts, faults, history>>

(* Mutant of Render: an empty slot is taken for a task. *)
RenderEmptySlot ==
  /\ page.pc = "flags"
  /\ page' = [page EXCEPT !.pc = "shown", !.banner = {startSlot, applySlot}]
  /\ UNCHANGED <<database, yaml, slots, st, ap, cleaner, posts, faults, history>>

Render ==
  /\ page.pc = "flags"
  /\ page' = [page EXCEPT !.pc = "shown",
                          !.banner = {startSlot, applySlot} \ {NoTask}]
  /\ UNCHANGED <<database, yaml, slots, st, ap, cleaner, posts, faults, history>>

(* The banner polls its event stream; when the slot is empty it reloads. *)
Poll ==
  /\ page.pc = "shown"
  /\ \/ page.banner \cap Starts # {} /\ startSlot = NoTask
     \/ page.banner \cap Applies # {} /\ applySlot = NoTask
  /\ Redirected
  /\ UNCHANGED <<database, yaml, slots, st, ap, cleaner, posts, faults,
                 built, torn, spilled, behind, blind, raced>>

-----------------------------------------------------------------------------
(* A save in the L2 editor: file and cache in one step of the event loop,  *)
(* within the tolerance of the save before or later; how much later makes  *)
(* no difference.                                                          *)
Edit ==
  /\ yaml < LastSave
  /\ \E gap \in 1..(Tolerance + 1) : yaml' = yaml + gap
  /\ UNCHANGED <<database, slots, st, ap, cleaner, page, posts, faults, history>>

(* The Studio process is killed, with its threads, and started again. *)
Restart ==
  /\ faults < MaxFaults /\ faults' = faults + 1
  /\ startSlot' = NoTask /\ applySlot' = NoTask
  /\ st' = [r \in Starts |-> [pc |-> "idle", inst |-> 0, stamp |-> NoStamp]]
  /\ ap' = [r \in Applies |-> [pc |-> "idle", todo |-> {}, ok |-> {}]]
  /\ cleaner' = "idle"
  /\ page' = NoPage
  /\ torn' = (torn \/ \E r \in Applies : ap[r].pc = "cloneLedger")
  /\ spilled' = IF WorkingApplies = {} THEN spilled ELSE spilled \cup rows
  /\ behind' = (behind \/ ~AtRest)
  /\ raced' = FALSE /\ late' = FALSE
  /\ UNCHANGED <<database, yaml, posts, built, blind>>

StartStep(r) ==
  \/ StartSpawned(r) \/ BaseDone(r) \/ StartDrops(r) \/ Create(r)
  \/ StartClones(r) \/ StartRefreshes(r) \/ WriteSession(r)
  \/ StartRaises(r) \/ StartEnds(r)

ApplyStep(r) ==
  \/ ReadLedger(r) \/ LedgerUnread(r) \/ ApplyClones(r)
  \/ ApplyClonesLedger(r) \/ ApplyRefreshes(r) \/ ClearLedger(r)
  \/ WriteLedger(r) \/ ApplyRaises(r) \/ ApplyEnds(r)
  \/ \E p \in Plant : PlantOne(r, p) \/ PlantFails(r, p)

PageStep == ReadLedgers \/ LedgersUnread \/ Render \/ Poll

Next ==
  \/ \E r \in Starts : PostStart(r) \/ PostReclone(r) \/ StartStep(r)
  \/ \E r \in Applies : ApplyStep(r) \/ \E sel \in Offered : PostApply(r, sel)
  \/ PostCleanup \/ Cleans \/ CleanupRaises \/ PageStep \/ Edit \/ Restart

Spec == Init /\ [][Next]_vars

-----------------------------------------------------------------------------
TypeOK ==
  /\ tables \subseteq Tables
  /\ rows \subseteq Plant /\ views \subseteq Plant
  /\ ledger \in Ledger
  /\ yaml \in Version
  /\ startSlot \in Starts \cup {NoTask}
  /\ applySlot \in Applies \cup {NoTask}
  /\ st \in [Starts -> [pc : StartState, inst : Version,
                        stamp : Version \cup {NoStamp}]]
  /\ ap \in [Applies -> [pc : ApplyState, todo : SUBSET Plant, ok : SUBSET Plant]]
  /\ cleaner \in Dropping \cup {"idle"}
  /\ page \in [pc : PageState, exists : BOOLEAN, applied : SUBSET Plant,
               banner : SUBSET (Starts \cup Applies), misread : BOOLEAN]
  /\ posts \in 0..MaxPosts /\ faults \in 0..MaxFaults
  /\ built \in Version
  /\ torn \in BOOLEAN /\ behind \in BOOLEAN /\ blind \in BOOLEAN
  /\ raced \in BOOLEAN /\ late \in BOOLEAN
  /\ spilled \subseteq Plant

(* At rest the overlay holds the plants its ledger names, and besides them *)
(* only what a failed plant or a cut Apply left behind since the last      *)
(* clone.  Not claimed after workers overlapped or a clone was cut between *)
(* its tables, until the next clone that runs alone: that one heals.       *)
LedgerMatchesRows ==
  AtRest /\ ~torn /\ "rows" \in tables =>
    Applied \subseteq rows /\ rows \subseteq Applied \cup spilled

(* At rest the views are those of the rows, even when session starts,      *)
(* applies and cleanups overlapped: whoever changes rows refreshes after.  *)
(* The exception is a worker that ended early and was not followed by a    *)
(* refresh.                                                                *)
ViewsMatchRows ==
  AtRest /\ "rows" \in tables /\ ~behind => "views" \in tables /\ views = rows

(* Two Apply tasks never run at once, and the slot, which the page asks,   *)
(* says whether one does: its guard is read after the last await.          *)
OneApply ==
  \A r \in Applies : ap[r].pc \in ApplyTask <=> applySlot = r

(* The same for session starts and rebuilds, unless a POST was let in      *)
(* while its form was awaited and another one started.                     *)
OneStart ==
  ~raced => \A r \in Starts : st[r].pc \in StartTask <=> startSlot = r

(* The staleness banner of a landing page that can read the stamp and the  *)
(* file's mtime: "1-second tolerance so the same-second write doesn't      *)
(* immediately scream stale".                                              *)
L2Stale == ledger.stamp # NoStamp /\ yaml > ledger.stamp + Tolerance

(* At rest the banner is due exactly when the L2 instance was saved again  *)
(* later than the tolerance after the one the overlay was created from;    *)
(* an edit that follows sooner is never flagged.  `blind` are the overlays *)
(* with no usable stamp: an edit came between the two reads of one session *)
(* start, the worker was cut before it wrote the stamp, or an Apply on the *)
(* slow path cloned it away.                                               *)
StaleFlagExact ==
  AtRest /\ ~torn /\ "rows" \in tables /\ ~blind =>
    (L2Stale <=> yaml > built + Tolerance)

(* A landing page without banner, with no task running, shows the ledger,  *)
(* unless a task ended between the page's first read and its look at the   *)
(* slots.  When one of its probes failed it may show less, never a plant   *)
(* that the ledger does not name.                                          *)
PageShowsLedger ==
  /\ page.pc = "shown" /\ page.banner = {} /\ ~late
  /\ startSlot = NoTask /\ applySlot = NoTask /\ ~raced /\ ~Cleaning
  => /\ page.exists => "rows" \in tables
     /\ page.applied \subseteq Applied
     /\ ~page.misread => /\ page.exists <=> "rows" \in tables
                         /\ page.exists => page.applied = Applied
=============================================================================
