------------------------ MODULE TrainerOverlayProofs ------------------------
(***************************************************************************)
(* What the trainer overlay keeps, for every registry of plants, every     *)
(* number of requests, edits and faults.                                   *)
(***************************************************************************)
EXTENDS TrainerOverlay, TLAPS

(* Somebody changed rows or views and has not refreshed yet. *)
Unrefreshed ==
  \/ \E r \in Starts : st[r].pc \in {"dropRows", "dropLedger", "create", "clone", "refresh"}
  \/ \E r \in Applies : ap[r].pc \in {"cloneLedger", "plant"}
  \/ cleaner = "dropRows"

ViewsInv ==
  ~behind /\ ~Unrefreshed /\ "rows" \in tables => "views" \in tables /\ views = rows

(* While nothing is torn, one worker at most is at work. *)
SoloInv == ~torn =>
  /\ \A r, q \in WorkingStarts : r = q
  /\ \A r, q \in WorkingApplies : r = q
  /\ ~(WorkingStarts # {} /\ WorkingApplies # {})
  /\ Cleaning => WorkingStarts = {} /\ WorkingApplies = {}

(* A session start that runs alone finds what it has created itself, and   *)
(* what it has dropped gone.                                               *)
SessionInv == ~torn =>
  \A r \in Starts :
    /\ st[r].pc = "dropLedger" => "rows" \notin tables
    /\ st[r].pc \in {"clone", "refresh", "kv"} =>
         rows = {} /\ blind /\ built = st[r].inst

CleanInv == ~torn /\ cleaner = "dropLedger" => "rows" \notin tables

(* An Apply has done nothing before it plants. *)
NothingYet ==
  \A r \in Applies : ap[r].pc \in {"idle", "spawned", "clone", "cloneLedger"} => ap[r].ok = {}

MissingIsEmpty == "rows" \notin tables => rows = {}

(* The ledger names nothing that is not there; the clone of a slow Apply   *)
(* empties the rows before the ledger.                                     *)
LedgerInv ==
  ~torn /\ "rows" \in tables /\ (\A r \in Applies : ap[r].pc # "cloneLedger")
  => Applied \subseteq rows

(* What an Apply counts as planted is, and nothing else is but what a      *)
(* failed one left.                                                        *)
PlantedInv == ~torn /\ "rows" \in tables =>
  \A r \in Applies :
    /\ ap[r].pc \in {"plant", "clear", "write"} =>
         ap[r].ok \subseteq rows /\ rows \subseteq ap[r].ok \cup spilled
    /\ ap[r].pc = "cloneLedger" => rows = {}

RowsInv ==
  ~torn /\ "rows" \in tables /\ WorkingApplies = {} => rows \subseteq Applied \cup spilled

(* An instance is never newer than the file; a stamp that is not blind is  *)
(* the version the overlay was created from.                               *)
InstInv == built <= yaml /\ \A r \in Starts : st[r].inst <= yaml
StampInv ==
  ~torn /\ ~blind /\ "rows" \in tables /\ (\A r \in Applies : ap[r].pc # "cloneLedger")
  => ledger.stamp = built

(* A page that shows no banner was rendered with no task, and no task was  *)
(* started since: that would have loaded another page.                     *)
BannerInv ==
  page.pc = "shown" /\ page.banner = {} => startSlot = NoTask /\ applySlot = NoTask

PageInv ==
  /\ page.pc \in {"flags", "shown"} /\ (page.pc = "shown" => page.banner = {})
  /\ ~late /\ startSlot = NoTask /\ applySlot = NoTask /\ ~raced /\ ~Cleaning
  => /\ page.exists => "rows" \in tables
     /\ page.applied \subseteq Applied
     /\ ~page.misread => /\ page.exists <=> "rows" \in tables
                         /\ page.exists => page.applied = Applied

-----------------------------------------------------------------------------
(* Types.                                                                  *)

StRec == [pc : StartState, inst : Version, stamp : Version \cup {NoStamp}]
ApRec == [pc : ApplyState, todo : SUBSET Plant, ok : SUBSET Plant]
PageRec == [pc : PageState, exists : BOOLEAN, applied : SUBSET Plant,
            banner : SUBSET (Starts \cup Applies), misread : BOOLEAN]

(* The type invariant by owner. *)
DbType == /\ tables \subseteq Tables
          /\ rows \subseteq Plant /\ views \subseteq Plant /\ spilled \subseteq Plant
          /\ ledger \in Ledger
StType == st \in [Starts -> StRec] /\ startSlot \in Starts \cup {NoTask}
ApType == ap \in [Applies -> ApRec] /\ applySlot \in Applies \cup {NoTask}
PageType == page \in PageRec
BoundType == /\ yaml \in Version /\ built \in Version
             /\ posts \in 0..MaxPosts /\ faults \in 0..MaxFaults
             /\ cleaner \in Dropping \cup {"idle"}
FlagType == /\ torn \in BOOLEAN /\ behind \in BOOLEAN /\ blind \in BOOLEAN
            /\ raced \in BOOLEAN /\ late \in BOOLEAN

LEMMA TypeParts ==
  TypeOK <=> DbType /\ StType /\ ApType /\ PageType /\ BoundType /\ FlagType
BY DEF TypeOK, DbType, StType, ApType, PageType, BoundType, FlagType,
       StRec, ApRec, PageRec

LEMMA VersionFacts ==
  /\ Version \subseteq Nat /\ 0 \in Version
  /\ NoStamp \in Nat /\ NoStamp \notin Version
  /\ BaseLedger \in Ledger
BY BoundsAssumption, ToleranceAssumption DEF Version, NoStamp, BaseLedger, Ledger

LEMMA InitTypeOK == Init => TypeOK
<1> SUFFICES ASSUME Init PROVE TypeOK
  OBVIOUS
<1> USE VersionFacts, BoundsAssumption DEF Init
<1>1. DbType
  BY DEF DbType
<1>2. StType
  BY DEF StType, StRec, StartState
<1>3. ApType
  BY DEF ApType, ApRec, ApplyState
<1>4. PageType
  BY DEF PageType, PageRec, PageState, NoPage
<1>5. BoundType
  BY DEF BoundType
<1>6. FlagType
  BY DEF FlagType
<1>7. QED
  BY <1>1, <1>2, <1>3, <1>4, <1>5, <1>6, TypeParts

(* Steps that move nothing of an owner keep its types. *)
LEMMA DbTypeStep == TypeOK /\ Next => DbType'
<1> SUFFICES ASSUME TypeOK, Next PROVE DbType'
  OBVIOUS
<1> USE VersionFacts, TypeParts DEF DbType, database
<1>1. ASSUME NEW r \in Starts, PostStart(r) \/ PostReclone(r) \/ StartStep(r)
      PROVE  DbType'
  <2>1. CASE PostStart(r) \/ PostReclone(r) \/ StartSpawned(r) \/ BaseDone(r)
             \/ StartRaises(r) \/ StartEnds(r)
    BY <2>1 DEF PostStart, PostReclone, StartSpawned, BaseDone, StartRaises, StartEnds
  <2>2. CASE StartDrops(r)
    BY <2>2 DEF StartDrops, Drops
  <2>3. CASE Create(r)
    BY <2>3 DEF Create
  <2>4. CASE StartClones(r)
    BY <2>4 DEF StartClones, Tables
  <2>5. CASE StartRefreshes(r)
    BY <2>5 DEF StartRefreshes, Tables
  <2>6. CASE WriteSession(r)
    BY <2>6 DEF WriteSession, Ledger, StType, StRec
  <2>7. QED
    BY <1>1, <2>1, <2>2, <2>3, <2>4, <2>5, <2>6 DEF StartStep
<1>2. ASSUME NEW r \in Applies,
             ApplyStep(r) \/ \E sel \in Offered : PostApply(r, sel)
      PROVE  DbType'
  <2>1. CASE (\E sel \in Offered : PostApply(r, sel)) \/ ReadLedger(r) \/ ApplyEnds(r)
    BY <2>1 DEF PostApply, ReadLedger, ApplyEnds
  <2>2. CASE LedgerUnread(r)
    BY <2>2 DEF LedgerUnread, Applied, Ledger
  <2>3. CASE ApplyClones(r) \/ ApplyClonesLedger(r)
    BY <2>3 DEF ApplyClones, ApplyClonesLedger, Tables
  <2>4. CASE \E p \in Plant : PlantOne(r, p) \/ PlantFails(r, p)
    BY <2>4 DEF PlantOne, PlantFails
  <2>5. CASE ApplyRefreshes(r)
    BY <2>5 DEF ApplyRefreshes, Tables
  <2>6. CASE ClearLedger(r) \/ WriteLedger(r)
    BY <2>6 DEF ClearLedger, WriteLedger, Ledger, ApType, ApRec
  <2>7. CASE ApplyRaises(r)
    BY <2>7 DEF ApplyRaises, ApplyCut
  <2>8. QED
    BY <1>2, <2>1, <2>2, <2>3, <2>4, <2>5, <2>6, <2>7 DEF ApplyStep
<1>3. CASE PostCleanup \/ CleanupRaises \/ PageStep \/ Edit
  BY <1>3 DEF PostCleanup, CleanupRaises, PageStep, ReadLedgers, LedgersUnread, Render, Poll, Edit, history
<1>4. CASE Cleans
  BY <1>4 DEF Cleans, Drops
<1>5. CASE Restart
  BY <1>5 DEF Restart
<1>6. QED
  BY <1>1, <1>2, <1>3, <1>4, <1>5 DEF Next

(* A request moves on. *)
LEMMA StMoves ==
  ASSUME StType, NEW r \in Starts, NEW s \in StartState, StGoto(r, s)
  PROVE  st' \in [Starts -> StRec]
BY DEF StType, StGoto, StRec

LEMMA ApMoves ==
  ASSUME ApType, NEW r \in Applies, NEW s \in ApplyState, ApGoto(r, s)
  PROVE  ap' \in [Applies -> ApRec]
BY DEF ApType, ApGoto, ApRec

LEMMA StTypeStep == TypeOK /\ Next => StType'
<1> SUFFICES ASSUME TypeOK, Next PROVE StType'
  OBVIOUS
<1>0. StType /\ yaml \in Version
  BY TypeParts DEF BoundType
<1> USE <1>0, VersionFacts DEF slots
<1>1. ASSUME NEW r \in Starts, PostStart(r) \/ PostReclone(r) \/ StartStep(r)
      PROVE  StType'
  <2> USE DEF StartState, StartTask, StartWorking, Dropping
  <2>1. CASE PostStart(r) \/ PostReclone(r) \/ StartSpawned(r)
    BY <2>1 DEF PostStart, PostReclone, StartSpawned, Spawn, StType, StRec
  <2>2. CASE BaseDone(r) \/ StartEnds(r)
    BY <2>2 DEF BaseDone, StartEnds, WorkerKeeps, StType, StRec
  <2>3. CASE StartDrops(r) \/ Create(r) \/ StartClones(r)
             \/ StartRefreshes(r) \/ WriteSession(r)
    BY <2>3, StMoves DEF StartDrops, AfterDrop, Create, StartClones, StartRefreshes,
       WriteSession, WorkerKeeps, StType
  <2>4. CASE StartRaises(r)
    BY <2>4, StMoves DEF StartRaises, StType
  <2>5. QED
    BY <1>1, <2>1, <2>2, <2>3, <2>4 DEF StartStep
<1>2. ASSUME NEW r \in Applies,
             ApplyStep(r) \/ \E sel \in Offered : PostApply(r, sel)
      PROVE  StType'
  BY <1>2 DEF StType, ApplyStep, PostApply, ReadLedger, LedgerUnread, ApplyClones,
     ApplyClonesLedger, PlantOne, PlantFails, ApplyRefreshes, ClearLedger,
     WriteLedger, ApplyRaises, ApplyEnds, WorkerKeeps
<1>3. CASE PostCleanup \/ Cleans \/ CleanupRaises \/ PageStep \/ Edit
  BY <1>3 DEF StType, PostCleanup, Cleans, CleanupRaises, PageStep, ReadLedgers, LedgersUnread,
     Render, Poll, Edit
<1>4. CASE Restart
  BY <1>4 DEF Restart, StType, StRec, StartState
<1>5. QED
  BY <1>1, <1>2, <1>3, <1>4 DEF Next

LEMMA ApTypeStep == TypeOK /\ Next => ApType'
<1> SUFFICES ASSUME TypeOK, Next PROVE ApType'
  OBVIOUS
<1>0. ApType /\ DbType
  BY TypeParts
<1> USE <1>0 DEF slots
<1>1. ASSUME NEW r \in Starts, PostStart(r) \/ PostReclone(r) \/ StartStep(r)
      PROVE  ApType'
  BY <1>1 DEF ApType, PostStart, PostReclone, Spawn, StartStep, StartSpawned,
     BaseDone, StartDrops, Create, StartClones, StartRefreshes, WriteSession,
     StartRaises, StartEnds, WorkerKeeps
<1>2. ASSUME NEW r \in Applies,
             ApplyStep(r) \/ \E sel \in Offered : PostApply(r, sel)
      PROVE  ApType'
  <2> USE DEF ApplyState, ApplyTask, ApplyWorking
  <2>1. CASE \E sel \in Offered : PostApply(r, sel)
    BY <2>1, OfferedAssumption DEF PostApply, ApType, ApRec
  <2>2. CASE ReadLedger(r) \/ LedgerUnread(r)
    BY <2>2 DEF ReadLedger, LedgerUnread, Plan, ToAdd, Unchanged, Applied, DbType,
       Ledger, WorkerKeeps, ApType, ApRec
  <2>3. CASE ApplyClones(r) \/ ApplyClonesLedger(r) \/ ApplyRefreshes(r)
             \/ ClearLedger(r) \/ WriteLedger(r)
    BY <2>3, ApMoves DEF ApplyClones, ApplyClonesLedger, ApplyRefreshes,
       ClearLedger, WriteLedger, WorkerKeeps, ApType
  <2>4. CASE \E p \in Plant : PlantOne(r, p) \/ PlantFails(r, p)
    BY <2>4 DEF PlantOne, PlantFails, WorkerKeeps, ApType, ApRec
  <2>5. CASE ApplyRaises(r)
    BY <2>5, ApMoves DEF ApplyRaises, ApType
  <2>6. CASE ApplyEnds(r)
    BY <2>6 DEF ApplyEnds, ApType, ApRec
  <2>7. QED
    BY <1>2, <2>1, <2>2, <2>3, <2>4, <2>5, <2>6 DEF ApplyStep
<1>3. CASE PostCleanup \/ Cleans \/ CleanupRaises \/ PageStep \/ Edit
  BY <1>3 DEF ApType, PostCleanup, Cleans, CleanupRaises, PageStep, ReadLedgers, LedgersUnread,
     Render, Poll, Edit
<1>4. CASE Restart
  BY <1>4 DEF Restart, ApType, ApRec, ApplyState
<1>5. QED
  BY <1>1, <1>2, <1>3, <1>4 DEF Next

LEMMA PageTypeStep == TypeOK /\ Next => PageType'
<1> SUFFICES ASSUME TypeOK, Next PROVE PageType'
  OBVIOUS
<1>0. PageType /\ DbType /\ StType /\ ApType
  BY TypeParts
<1> USE <1>0 DEF WorkerKeeps, history
<1>a. ASSUME Redirected PROVE PageType'
  BY <1>a DEF Redirected, NoPage, PageType, PageRec, PageState
<1>b. ASSUME UNCHANGED page PROVE PageType'
  BY <1>b DEF PageType
<1>1. ASSUME NEW r \in Starts, PostStart(r) \/ PostReclone(r) \/ StartStep(r)
      PROVE  PageType'
  BY <1>1, <1>a, <1>b DEF PostStart, PostReclone, StartStep, StartSpawned, BaseDone,
     StartDrops, Create, StartClones, StartRefreshes, WriteSession, StartRaises, StartEnds
<1>2. ASSUME NEW r \in Applies,
             ApplyStep(r) \/ \E sel \in Offered : PostApply(r, sel)
      PROVE  PageType'
  BY <1>2, <1>a, <1>b DEF ApplyStep, PostApply, ReadLedger, LedgerUnread, ApplyClones,
     ApplyClonesLedger, PlantOne, PlantFails, ApplyRefreshes, ClearLedger,
     WriteLedger, ApplyRaises, ApplyEnds
<1>3. CASE PostCleanup \/ Cleans \/ Poll \/ Edit
  BY <1>3, <1>a, <1>b DEF PostCleanup, Cleans, Poll, Edit
<1>4. CASE CleanupRaises \/ Restart
  <2>1. page' = NoPage
    BY <1>4 DEF CleanupRaises, Restart
  <2>2. QED
    BY <2>1 DEF NoPage, PageType, PageRec, PageState
<1>5. CASE ReadLedgers
  <2>1. ledger.applied \in SUBSET Plant
    BY DEF DbType, Ledger
  <2> DEFINE e == "rows" \in tables
  <2> DEFINE A == IF e THEN ledger.applied ELSE {}
  <2>2. e \in BOOLEAN /\ A \in SUBSET Plant
    <3>1. e \in BOOLEAN
      OBVIOUS
    <3>2. A = ledger.applied \/ A = {}
      OBVIOUS
    <3>3. QED
      BY <2>1, <3>1, <3>2
  <2>3. page' = [page EXCEPT !.pc = "flags", !.exists = e, !.applied = A]
    BY <1>5, Zenon DEF ReadLedgers, Applied
  <2> HIDE DEF e, A
  <2>4. page' = [pc |-> "flags", exists |-> e, applied |-> A, banner |-> page.banner,
                 misread |-> page.misread]
    BY <2>3 DEF PageType, PageRec
  <2>5. QED
    BY <2>2, <2>4 DEF PageType, PageRec, PageState
<1>6. CASE Render
  <2>1. PICK B \in SUBSET (Starts \cup Applies) :
          page' = [page EXCEPT !.pc = "shown", !.banner = B]
    BY <1>6, Zenon DEF Render, StType, ApType
  <2>2. QED
    BY <2>1 DEF PageType, PageRec, PageState
<1>7. CASE LedgersUnread
  <2> DEFINE Answers == {FALSE, "rows" \in tables}
  <2>0. Answers \subseteq BOOLEAN
    OBVIOUS
  <2>1. PICK e \in Answers :
          page' = [page EXCEPT !.pc = "flags", !.exists = e, !.applied = {},
                               !.misread = TRUE]
    BY <1>7, Zenon DEF LedgersUnread
  <2> HIDE DEF Answers
  <2>2. page' = [pc |-> "flags", exists |-> e, applied |-> {}, banner |-> page.banner,
                 misread |-> TRUE]
    BY <2>1 DEF PageType, PageRec
  <2>3. QED
    BY <2>0, <2>2 DEF PageType, PageRec, PageState
<1>8. QED
  BY <1>1, <1>2, <1>3, <1>4, <1>5, <1>6, <1>7 DEF Next, PageStep

LEMMA BoundTypeStep == TypeOK /\ Next => BoundType'
<1> SUFFICES ASSUME TypeOK, Next PROVE BoundType'
  OBVIOUS
<1>0. BoundType /\ StType
  BY TypeParts
<1> USE <1>0, BoundsAssumption DEF BoundType, WorkerKeeps, history, Post, Dropping
<1>1. ASSUME NEW r \in Starts, PostStart(r) \/ PostReclone(r) \/ StartStep(r)
      PROVE  BoundType'
  <2>1. CASE PostStart(r) \/ PostReclone(r) \/ StartSpawned(r)
    BY <2>1 DEF PostStart, PostReclone, StartSpawned
  <2>2. CASE BaseDone(r) \/ StartDrops(r) \/ StartClones(r) \/ StartRefreshes(r)
             \/ WriteSession(r) \/ StartRaises(r) \/ StartEnds(r)
    BY <2>2 DEF BaseDone, StartDrops, StartClones, StartRefreshes, WriteSession,
       StartRaises, StartEnds
  <2>3. CASE Create(r)
    BY <2>3 DEF Create, StType, StRec
  <2>4. QED
    BY <1>1, <2>1, <2>2, <2>3 DEF StartStep
<1>2. ASSUME NEW r \in Applies,
             ApplyStep(r) \/ \E sel \in Offered : PostApply(r, sel)
      PROVE  BoundType'
  <2>1. CASE (\E sel \in Offered : PostApply(r, sel)) \/ ReadLedger(r) \/ LedgerUnread(r)
    BY <2>1 DEF PostApply, ReadLedger, LedgerUnread
  <2>2. CASE ApplyClones(r) \/ ApplyClonesLedger(r) \/ ApplyRefreshes(r)
             \/ ClearLedger(r) \/ WriteLedger(r) \/ ApplyRaises(r) \/ ApplyEnds(r)
    BY <2>2 DEF ApplyClones, ApplyClonesLedger, ApplyRefreshes, ClearLedger,
       WriteLedger, ApplyRaises, ApplyEnds
  <2>3. CASE \E p \in Plant : PlantOne(r, p) \/ PlantFails(r, p)
    BY <2>3 DEF PlantOne, PlantFails
  <2>4. QED
    BY <1>2, <2>1, <2>2, <2>3 DEF ApplyStep
<1>3. CASE PostCleanup \/ Cleans \/ CleanupRaises \/ PageStep
  BY <1>3 DEF PostCleanup, Cleans, AfterDrop, Cleaning, CleanupRaises, PageStep,
     ReadLedgers, LedgersUnread, Render, Poll
<1>4. CASE Edit
  <2>1. PICK gap \in 1..(Tolerance + 1) : yaml' = yaml + gap
    BY <1>4 DEF Edit
  <2>2. yaml < LastSave /\ UNCHANGED <<built, posts, faults, cleaner>>
    BY <1>4 DEF Edit, history
  <2>3. yaml' \in Version
    BY <2>1, <2>2, BoundsAssumption, ToleranceAssumption DEF Version
  <2>4. QED
    BY <2>2, <2>3
<1>5. CASE Restart
  BY <1>5 DEF Restart
<1>6. QED
  BY <1>1, <1>2, <1>3, <1>4, <1>5 DEF Next

LEMMA FlagTypeStep == TypeOK /\ Next => FlagType'
<1> SUFFICES ASSUME TypeOK, Next PROVE FlagType'
  OBVIOUS
<1>0. FlagType
  BY TypeParts
<1> USE <1>0 DEF FlagType, WorkerKeeps, history, Redirected
<1>1. ASSUME NEW r \in Starts, PostStart(r) \/ PostReclone(r) \/ StartStep(r)
      PROVE  FlagType'
  <2>1. CASE PostStart(r)
    BY <2>1, Zenon DEF PostStart
  <2>2. CASE PostReclone(r)
    BY <2>2, Zenon DEF PostReclone
  <2>3. CASE StartSpawned(r)
    BY <2>3, Zenon DEF StartSpawned
  <2>4. CASE BaseDone(r)
    BY <2>4, Zenon DEF BaseDone
  <2>5. CASE StartDrops(r) \/ StartClones(r)
    BY <2>5, Zenon DEF StartDrops, StartClones
  <2>6. CASE Create(r)
    BY <2>6, Zenon DEF Create
  <2>7. CASE StartRefreshes(r) \/ WriteSession(r)
    BY <2>7, Zenon DEF StartRefreshes, WriteSession
  <2>8. CASE StartRaises(r)
    BY <2>8, Zenon DEF StartRaises
  <2>9. CASE StartEnds(r)
    BY <2>9, Zenon DEF StartEnds
  <2>10. QED
    BY <1>1, <2>1, <2>2, <2>3, <2>4, <2>5, <2>6, <2>7, <2>8, <2>9 DEF StartStep
<1>2. ASSUME NEW r \in Applies,
             ApplyStep(r) \/ \E sel \in Offered : PostApply(r, sel)
      PROVE  FlagType'
  <2>1. CASE (\E sel \in Offered : PostApply(r, sel)) \/ ReadLedger(r)
    BY <2>1, Zenon DEF PostApply, ReadLedger
  <2>2. CASE LedgerUnread(r) \/ ApplyEnds(r)
    BY <2>2, Zenon DEF LedgerUnread, ApplyEnds
  <2>3. CASE ApplyClones(r) \/ ApplyClonesLedger(r)
    BY <2>3, Zenon DEF ApplyClones, ApplyClonesLedger
  <2>4. CASE \E p \in Plant : PlantOne(r, p) \/ PlantFails(r, p)
    BY <2>4, Zenon DEF PlantOne, PlantFails
  <2>5. CASE ApplyRefreshes(r) \/ ClearLedger(r) \/ WriteLedger(r)
    BY <2>5, Zenon DEF ApplyRefreshes, ClearLedger, WriteLedger
  <2>6. CASE ApplyRaises(r)
    BY <2>6, Zenon DEF ApplyRaises, ApplyCut
  <2>7. QED
    BY <1>2, <2>1, <2>2, <2>3, <2>4, <2>5, <2>6 DEF ApplyStep
<1>3. CASE PostCleanup
  BY <1>3, Zenon DEF PostCleanup
<1>4. CASE Cleans \/ CleanupRaises
  BY <1>4, Zenon DEF Cleans, CleanupRaises
<1>5. CASE PageStep \/ Edit
  BY <1>5, Zenon DEF PageStep, ReadLedgers, LedgersUnread, Render, Poll, Edit
<1>6. CASE Restart
  BY <1>6, Zenon DEF Restart
<1>7. QED
  BY <1>1, <1>2, <1>3, <1>4, <1>5, <1>6 DEF Next

LEMMA NextTypeOK == TypeOK /\ [Next]_vars => TypeOK'
<1> SUFFICES ASSUME TypeOK, [Next]_vars PROVE TypeOK'
  OBVIOUS
<1>1. CASE UNCHANGED vars
  BY <1>1 DEF vars, database, slots, history, TypeOK
<1>2. CASE Next
  <2>1. DbType' /\ StType' /\ ApType' /\ PageType' /\ BoundType' /\ FlagType'
    BY <1>2, DbTypeStep, StTypeStep, ApTypeStep, PageTypeStep,
       BoundTypeStep, FlagTypeStep
  <2>2. QED
    BY <2>1 DEF TypeOK, DbType, StType, ApType, PageType, BoundType, FlagType,
       StRec, ApRec, PageRec
<1>3. QED
  BY <1>1, <1>2

(* No component of the overlay, the Studio process or the landing page     *)
(* ever holds a value the code does not give it.                           *)
THEOREM OverlayTypes == Spec => []TypeOK
BY InitTypeOK, NextTypeOK, PTL DEF Spec

-----------------------------------------------------------------------------
(* Guards.                                                                 *)

LEMMA InitOneApply == Init => OneApply
BY TasksAssumption DEF Init, OneApply, ApplyTask, ApplyWorking

LEMMA OneApplyStep == TypeOK /\ OneApply /\ Next => OneApply'
<1> SUFFICES ASSUME TypeOK, OneApply, Next PROVE OneApply'
  OBVIOUS
<1>0. ApType
  BY TypeParts
<1> USE <1>0, TasksAssumption
    DEF OneApply, ApType, ApRec, ApplyTask, ApplyWorking, WorkerKeeps, slots
<1>1. ASSUME NEW r \in Starts, PostStart(r) \/ PostReclone(r) \/ StartStep(r)
      PROVE  OneApply'
  BY <1>1 DEF PostStart, PostReclone, Spawn, StartStep, StartSpawned, BaseDone,
     StartDrops, Create, StartClones, StartRefreshes, WriteSession, StartRaises, StartEnds
<1>2. ASSUME NEW r \in Applies,
             ApplyStep(r) \/ \E sel \in Offered : PostApply(r, sel)
      PROVE  OneApply'
  <2>1. CASE \E sel \in Offered : PostApply(r, sel)
    BY <2>1 DEF PostApply
  <2>2. CASE ReadLedger(r) \/ LedgerUnread(r)
    BY <2>2 DEF ReadLedger, LedgerUnread, Plan
  <2>3. CASE ApplyClones(r) \/ ApplyClonesLedger(r) \/ ApplyRefreshes(r)
             \/ ClearLedger(r) \/ WriteLedger(r) \/ ApplyRaises(r)
    BY <2>3 DEF ApplyClones, ApplyClonesLedger, ApplyRefreshes,
       ClearLedger, WriteLedger, ApplyRaises, ApGoto
  <2>4. CASE \E p \in Plant : PlantOne(r, p) \/ PlantFails(r, p)
    BY <2>4 DEF PlantOne, PlantFails
  <2>5. CASE ApplyEnds(r)
    BY <2>5 DEF ApplyEnds
  <2>6. QED
    BY <1>2, <2>1, <2>2, <2>3, <2>4, <2>5 DEF ApplyStep
<1>3. CASE PostCleanup \/ Cleans \/ CleanupRaises \/ PageStep \/ Edit
  BY <1>3 DEF PostCleanup, Cleans, CleanupRaises, PageStep, ReadLedgers, LedgersUnread,
     Render, Poll, Edit
<1>4. CASE Restart
  BY <1>4 DEF Restart
<1>5. QED
  BY <1>1, <1>2, <1>3, <1>4 DEF Next

LEMMA InitOneStart == Init => OneStart
BY TasksAssumption DEF Init, OneStart, StartTask, StartWorking, Dropping

LEMMA OneStartStep == TypeOK /\ OneStart /\ Next => OneStart'
<1> SUFFICES ASSUME TypeOK, OneStart, Next PROVE OneStart'
  OBVIOUS
<1>0. StType
  BY TypeParts
<1> USE <1>0, TasksAssumption
    DEF OneStart, StType, StRec, StartTask, StartWorking, Dropping, WorkerKeeps,
        slots, history
<1>1. ASSUME NEW r \in Starts, PostStart(r) \/ PostReclone(r) \/ StartStep(r)
      PROVE  OneStart'
  <2>1. CASE PostStart(r)
    BY <2>1 DEF PostStart
  <2>2. CASE PostReclone(r)
    BY <2>2 DEF PostReclone, Spawn
  <2>3. CASE StartSpawned(r)
    BY <2>3 DEF StartSpawned, Spawn
  <2>4. CASE BaseDone(r)
    BY <2>4 DEF BaseDone
  <2>5. CASE StartDrops(r)
    BY <2>5 DEF StartDrops, StGoto, AfterDrop
  <2>6. CASE Create(r) \/ StartClones(r) \/ StartRefreshes(r) \/ WriteSession(r)
    BY <2>6 DEF Create, StartClones, StartRefreshes, WriteSession, StGoto
  <2>7. CASE StartRaises(r)
    BY <2>7 DEF StartRaises, StGoto
  <2>8. CASE StartEnds(r)
    <3>1. /\ st' = [st EXCEPT ![r].pc = "idle", ![r].inst = 0, ![r].stamp = NoStamp]
          /\ startSlot' = NoTask
          /\ st[r].pc = "ended"
      BY <2>8 DEF StartEnds
    <3>2. ~raced' => \A q \in Starts \ {r} : st[q].pc \notin StartTask
      BY <2>8, <3>1 DEF StartEnds
    <3>3. QED
      BY <3>1, <3>2
  <2>9. QED
    BY <1>1, <2>1, <2>2, <2>3, <2>4, <2>5, <2>6, <2>7, <2>8 DEF StartStep
<1>2. ASSUME NEW r \in Applies,
             ApplyStep(r) \/ \E sel \in Offered : PostApply(r, sel)
      PROVE  OneStart'
  BY <1>2 DEF ApplyStep, PostApply, ReadLedger, LedgerUnread, ApplyClones,
     ApplyClonesLedger, PlantOne, PlantFails, ApplyRefreshes, ClearLedger,
     WriteLedger, ApplyRaises, ApplyEnds
<1>3. CASE PostCleanup \/ Cleans \/ CleanupRaises \/ PageStep \/ Edit
  BY <1>3 DEF PostCleanup, Cleans, CleanupRaises, PageStep, ReadLedgers, LedgersUnread,
     Render, Poll, Edit
<1>4. CASE Restart
  BY <1>4 DEF Restart
<1>5. QED
  BY <1>1, <1>2, <1>3, <1>4 DEF Next

-----------------------------------------------------------------------------
(* The views.                                                              *)

LEMMA InitViewsInv == Init => ViewsInv
BY DEF Init, ViewsInv

LEMMA ViewsStep == TypeOK /\ ViewsInv /\ Next => ViewsInv'
<1> SUFFICES ASSUME TypeOK, ViewsInv, Next PROVE ViewsInv'
  OBVIOUS
<1>0. StType /\ ApType
  BY TypeParts
<1> USE <1>0 DEF ViewsInv, Unrefreshed, StType, StRec, ApType, ApRec,
        StGoto, ApGoto, WorkerKeeps, database, history
<1>1. ASSUME NEW r \in Starts, PostStart(r) \/ PostReclone(r) \/ StartStep(r)
      PROVE  ViewsInv'
  <2>1. CASE PostStart(r) \/ PostReclone(r) \/ StartSpawned(r)
    BY <2>1 DEF PostStart, PostReclone, StartSpawned, Spawn
  <2>2. CASE BaseDone(r) \/ StartEnds(r)
    BY <2>2 DEF BaseDone, StartEnds
  <2>3. CASE StartDrops(r)
    BY <2>3 DEF StartDrops, Dropping, AfterDrop
  <2>4. CASE Create(r) \/ StartClones(r)
    BY <2>4 DEF Create, StartClones
  <2>5. CASE StartRefreshes(r)
    BY <2>5 DEF StartRefreshes
  <2>6. CASE WriteSession(r)
    BY <2>6 DEF WriteSession
  <2>7. CASE StartRaises(r)
    BY <2>7 DEF StartRaises
  <2>8. QED
    BY <1>1, <2>1, <2>2, <2>3, <2>4, <2>5, <2>6, <2>7 DEF StartStep
<1>2. ASSUME NEW r \in Applies,
             ApplyStep(r) \/ \E sel \in Offered : PostApply(r, sel)
      PROVE  ViewsInv'
  <2>1. CASE (\E sel \in Offered : PostApply(r, sel)) \/ ApplyEnds(r)
    BY <2>1 DEF PostApply, ApplyEnds
  <2>2. CASE ReadLedger(r) \/ LedgerUnread(r)
    BY <2>2 DEF ReadLedger, LedgerUnread, Plan
  <2>3. CASE ApplyClones(r) \/ ApplyClonesLedger(r)
    BY <2>3 DEF ApplyClones, ApplyClonesLedger
  <2>4. CASE \E p \in Plant : PlantOne(r, p) \/ PlantFails(r, p)
    BY <2>4 DEF PlantOne, PlantFails
  <2>5. CASE ApplyRefreshes(r)
    BY <2>5 DEF ApplyRefreshes
  <2>6. CASE ClearLedger(r) \/ WriteLedger(r)
    BY <2>6 DEF ClearLedger, WriteLedger
  <2>7. CASE ApplyRaises(r)
    BY <2>7 DEF ApplyRaises, ApplyCut
  <2>8. QED
    BY <1>2, <2>1, <2>2, <2>3, <2>4, <2>5, <2>6, <2>7 DEF ApplyStep
<1>3. CASE PostCleanup
  BY <1>3 DEF PostCleanup
<1>4. CASE Cleans
  <2>1. CASE cleaner = "dropViews"
    BY <1>4, <2>1 DEF Cleans, Drops, AfterDrop
  <2>2. CASE cleaner = "dropRows"
    BY <1>4, <2>2 DEF Cleans, Drops, AfterDrop
  <2>3. CASE cleaner = "dropLedger"
    BY <1>4, <2>3 DEF Cleans, Drops, AfterDrop
  <2>4. QED
    BY <1>4, <2>1, <2>2, <2>3 DEF Cleans, Drops
<1>5. CASE CleanupRaises
  BY <1>5 DEF CleanupRaises
<1>6. CASE PageStep \/ Edit
  BY <1>6 DEF PageStep, ReadLedgers, LedgersUnread, Render, Poll, Edit
<1>7. CASE Restart
  <2>1. CASE AtRest
    BY <1>7, <2>1 DEF Restart, AtRest, WorkingStarts, WorkingApplies, Cleaning,
       StartWorking, ApplyWorking, Dropping
  <2>2. CASE ~AtRest
    BY <1>7, <2>2 DEF Restart
  <2>3. QED
    BY <2>1, <2>2
<1>8. QED
  BY <1>1, <1>2, <1>3, <1>4, <1>5, <1>6, <1>7 DEF Next

LEMMA ViewsFollow == ViewsInv => ViewsMatchRows
BY DEF ViewsInv, ViewsMatchRows, Unrefreshed, AtRest, WorkingStarts,
   WorkingApplies, Cleaning, StartWorking, ApplyWorking, Dropping

-----------------------------------------------------------------------------
(* One worker at a time.                                                   *)

LEMMA InitSoloInv == Init => SoloInv
BY DEF Init, SoloInv, WorkingStarts, WorkingApplies, Cleaning, StartWorking,
   ApplyWorking, Dropping

(* Who has no company when he begins is alone. *)
LEMMA Alone ==
  ASSUME NEW r \in Starts \cup Applies, ~Company(r)
  PROVE  /\ WorkingStarts \subseteq {r} /\ WorkingApplies \subseteq {r}
         /\ ~Cleaning
BY DEF Company

LEMMA StartsApart == \A r \in Starts : r \notin Applies
BY TasksAssumption

(* A step that lets nobody begin keeps him alone. *)
LEMMA NobodyBegins ==
  ASSUME SoloInv, torn' = TRUE \/ torn' = torn,
         WorkingStarts' \subseteq WorkingStarts,
         WorkingApplies' \subseteq WorkingApplies,
         Cleaning' => Cleaning
  PROVE  SoloInv'
BY DEF SoloInv

LEMMA SoloStart ==
  ASSUME TypeOK, SoloInv, NEW r \in Starts,
         PostStart(r) \/ PostReclone(r) \/ StartStep(r)
  PROVE  SoloInv'
<1>0. StType
  BY TypeParts
<1> USE <1>0 DEF StType, StRec, WorkerKeeps, history
<1>1. CASE PostStart(r) \/ PostReclone(r) \/ StartSpawned(r)
  <2>1. WorkingStarts' = WorkingStarts
    BY <1>1 DEF PostStart, PostReclone, StartSpawned, Spawn, WorkingStarts,
       StartWorking, Dropping
  <2>2. WorkingApplies' = WorkingApplies /\ Cleaning' = Cleaning /\ torn' = torn
    BY <1>1 DEF PostStart, PostReclone, StartSpawned, Spawn, WorkingApplies, Cleaning
  <2>3. QED
    BY <2>1, <2>2, NobodyBegins
<1>2. CASE BaseDone(r)
  <2>1. WorkingStarts' \subseteq WorkingStarts \cup {r}
    BY <1>2 DEF BaseDone, WorkingStarts
  <2>2. WorkingApplies' = WorkingApplies /\ Cleaning' = Cleaning
    BY <1>2 DEF BaseDone, WorkingApplies, Cleaning
  <2>3. ~torn' => ~Company(r)
    BY <1>2 DEF BaseDone
  <2>4. QED
    BY <2>1, <2>2, <2>3, Alone, StartsApart DEF SoloInv, WorkingApplies
<1>3. CASE StartDrops(r) \/ StartClones(r) \/ StartRefreshes(r) \/ WriteSession(r)
  <2>1. WorkingStarts' \subseteq WorkingStarts
    BY <1>3 DEF StartDrops, StartClones, StartRefreshes, WriteSession, StGoto,
       WorkingStarts, StartWorking, Dropping
  <2>2. WorkingApplies' = WorkingApplies /\ Cleaning' = Cleaning /\ torn' = torn
    BY <1>3 DEF StartDrops, StartClones, StartRefreshes, WriteSession,
       WorkingApplies, Cleaning
  <2>3. QED
    BY <2>1, <2>2, NobodyBegins
<1>4. CASE Create(r)
  <2>1. WorkingStarts' = WorkingStarts
    BY <1>4 DEF Create, StGoto, WorkingStarts, StartWorking, Dropping
  <2>2. WorkingApplies' = WorkingApplies /\ Cleaning' = Cleaning
    BY <1>4 DEF Create, WorkingApplies, Cleaning
  <2>3. ~torn' => ~torn \/ ~Company(r)
    BY <1>4 DEF Create
  <2>4. QED
    BY <2>1, <2>2, <2>3, Alone, StartsApart DEF SoloInv, WorkingApplies
<1>5. CASE StartRaises(r)
  <2>1. WorkingStarts' \subseteq WorkingStarts
    BY <1>5 DEF StartRaises, StGoto, WorkingStarts, StartWorking, Dropping
  <2>2. WorkingApplies' = WorkingApplies /\ Cleaning' = Cleaning /\ torn' = torn
    BY <1>5 DEF StartRaises, WorkingApplies, Cleaning
  <2>3. QED
    BY <2>1, <2>2, NobodyBegins
<1>6. CASE StartEnds(r)
  <2>1. WorkingStarts' \subseteq WorkingStarts
    BY <1>6 DEF StartEnds, WorkingStarts, StartWorking, Dropping
  <2>2. WorkingApplies' = WorkingApplies /\ Cleaning' = Cleaning /\ torn' = torn
    BY <1>6 DEF StartEnds, WorkingApplies, Cleaning
  <2>3. QED
    BY <2>1, <2>2, NobodyBegins
<1>7. QED
  BY <1>1, <1>2, <1>3, <1>4, <1>5, <1>6 DEF StartStep

LEMMA SoloApply ==
  ASSUME TypeOK, SoloInv, NEW r \in Applies,
         ApplyStep(r) \/ \E sel \in Offered : PostApply(r, sel)
  PROVE  SoloInv'
<1>0. ApType
  BY TypeParts
<1> USE <1>0 DEF ApType, ApRec, WorkerKeeps, history
<1>1. CASE \E sel \in Offered : PostApply(r, sel)
  <2>1. WorkingApplies' \subseteq WorkingApplies
    BY <1>1 DEF PostApply, WorkingApplies, ApplyWorking
  <2>2. WorkingStarts' = WorkingStarts /\ Cleaning' = Cleaning /\ torn' = torn
    BY <1>1 DEF PostApply, WorkingStarts, Cleaning
  <2>3. QED
    BY <2>1, <2>2, NobodyBegins
<1>2. CASE ReadLedger(r) \/ LedgerUnread(r)
  <2>1. WorkingApplies' \subseteq WorkingApplies \cup {r}
    BY <1>2 DEF ReadLedger, LedgerUnread, Plan, WorkingApplies
  <2>2. WorkingStarts' = WorkingStarts /\ Cleaning' = Cleaning
    <3>1. UNCHANGED <<st, cleaner>>
      BY <1>2 DEF ReadLedger, LedgerUnread
    <3>2. QED
      BY <3>1 DEF WorkingStarts, Cleaning
  <2>3. ~torn' => ~Company(r)
    BY <1>2 DEF ReadLedger, LedgerUnread
  <2>4. QED
    BY <2>1, <2>2, <2>3, Alone, StartsApart DEF SoloInv, WorkingStarts
<1>3. CASE ApplyClones(r)
  <2>1. WorkingApplies' = WorkingApplies
    BY <1>3 DEF ApplyClones, ApGoto, WorkingApplies, ApplyWorking
  <2>2. WorkingStarts' = WorkingStarts /\ Cleaning' = Cleaning
    BY <1>3 DEF ApplyClones, WorkingStarts, Cleaning
  <2>3. ~torn' => ~torn \/ ~Company(r)
    BY <1>3 DEF ApplyClones
  <2>4. QED
    BY <2>1, <2>2, <2>3, Alone, StartsApart DEF SoloInv, WorkingStarts
<1>4. CASE ApplyClonesLedger(r) \/ ApplyRefreshes(r) \/ ClearLedger(r)
           \/ WriteLedger(r) \/ ApplyRaises(r) \/ ApplyEnds(r)
  <2>1. WorkingApplies' \subseteq WorkingApplies
    BY <1>4 DEF ApplyClonesLedger, ApplyRefreshes, ClearLedger, WriteLedger,
       ApplyRaises, ApplyEnds, ApGoto, WorkingApplies, ApplyWorking
  <2>2. WorkingStarts' = WorkingStarts /\ Cleaning' = Cleaning
        /\ (torn' = torn \/ torn' = TRUE)
    <3>1. UNCHANGED <<st, cleaner>>
      BY <1>4 DEF ApplyClonesLedger, ApplyRefreshes, ClearLedger, WriteLedger,
         ApplyRaises, ApplyEnds
    <3>2. torn' = torn \/ torn' = TRUE
      BY <1>4, TypeParts, Zenon DEF ApplyClonesLedger, ApplyRefreshes, ClearLedger,
         WriteLedger, ApplyRaises, ApplyCut, ApplyEnds, FlagType
    <3>3. QED
      BY <3>1, <3>2 DEF WorkingStarts, Cleaning
  <2>3. QED
    BY <2>1, <2>2, NobodyBegins
<1>5. CASE \E p \in Plant : PlantOne(r, p) \/ PlantFails(r, p)
  <2>1. WorkingApplies' \subseteq WorkingApplies
    BY <1>5 DEF PlantOne, PlantFails, WorkingApplies
  <2>2. WorkingStarts' = WorkingStarts /\ Cleaning' = Cleaning /\ torn' = torn
    BY <1>5 DEF PlantOne, PlantFails, WorkingStarts, Cleaning
  <2>3. QED
    BY <2>1, <2>2, NobodyBegins
<1>6. QED
  BY <1>1, <1>2, <1>3, <1>4, <1>5 DEF ApplyStep

LEMMA SoloStep == TypeOK /\ SoloInv /\ Next => SoloInv'
<1> SUFFICES ASSUME TypeOK, SoloInv, Next PROVE SoloInv'
  OBVIOUS
<1>1. CASE PostCleanup
  BY <1>1 DEF PostCleanup, SoloInv, WorkingStarts, WorkingApplies, Cleaning
<1>2. CASE Cleans \/ CleanupRaises \/ PageStep \/ Edit
  <2>1. /\ WorkingStarts' = WorkingStarts /\ WorkingApplies' = WorkingApplies
        /\ torn' = torn /\ (Cleaning' => Cleaning)
    BY <1>2 DEF Cleans, CleanupRaises, PageStep, ReadLedgers, LedgersUnread, Render, Poll, Edit,
       history, WorkingStarts, WorkingApplies, Cleaning
  <2>2. QED
    BY <2>1, NobodyBegins
<1>3. CASE Restart
  <2>1. WorkingStarts' = {} /\ WorkingApplies' = {}
    BY <1>3 DEF Restart, WorkingStarts, WorkingApplies, StartWorking, ApplyWorking,
       Dropping
  <2>2. QED
    BY <2>1 DEF SoloInv
<1>4. QED
  BY <1>1, <1>2, <1>3, SoloStart, SoloApply DEF Next

-----------------------------------------------------------------------------
(* The ledger and the stamp, while nothing is torn.                        *)

OverlayInv ==
  SessionInv /\ CleanInv /\ LedgerInv /\ PlantedInv /\ RowsInv /\ StampInv

LEMMA InitOverlayInv == Init => OverlayInv /\ NothingYet /\ MissingIsEmpty /\ InstInv
BY DEF Init, OverlayInv, SessionInv, CleanInv, LedgerInv, PlantedInv, RowsInv,
   StampInv, NothingYet, MissingIsEmpty, InstInv

LEMMA NothingYetStep == TypeOK /\ NothingYet /\ Next => NothingYet'
<1> SUFFICES ASSUME TypeOK, NothingYet, Next PROVE NothingYet'
  OBVIOUS
<1>0. ApType
  BY TypeParts
<1> USE <1>0 DEF NothingYet, ApType, ApRec, WorkerKeeps, ApGoto
<1>1. ASSUME NEW r \in Starts, PostStart(r) \/ PostReclone(r) \/ StartStep(r)
      PROVE  NothingYet'
  BY <1>1 DEF PostStart, PostReclone, StartStep, StartSpawned, BaseDone,
     StartDrops, Create, StartClones, StartRefreshes, WriteSession, StartRaises, StartEnds
<1>2. ASSUME NEW r \in Applies,
             ApplyStep(r) \/ \E sel \in Offered : PostApply(r, sel)
      PROVE  NothingYet'
  <2>1. CASE (\E sel \in Offered : PostApply(r, sel)) \/ ApplyEnds(r)
    BY <2>1 DEF PostApply, ApplyEnds
  <2>2. CASE ReadLedger(r) \/ LedgerUnread(r)
    BY <2>2 DEF ReadLedger, LedgerUnread, Plan
  <2>3. CASE ApplyClones(r) \/ ApplyClonesLedger(r) \/ ApplyRefreshes(r)
             \/ ClearLedger(r) \/ WriteLedger(r) \/ ApplyRaises(r)
    BY <2>3 DEF ApplyClones, ApplyClonesLedger, ApplyRefreshes, ClearLedger,
       WriteLedger, ApplyRaises
  <2>4. CASE \E p \in Plant : PlantOne(r, p) \/ PlantFails(r, p)
    BY <2>4 DEF PlantOne, PlantFails
  <2>5. QED
    BY <1>2, <2>1, <2>2, <2>3, <2>4 DEF ApplyStep
<1>3. CASE PostCleanup \/ Cleans \/ CleanupRaises \/ PageStep \/ Edit
  BY <1>3 DEF PostCleanup, Cleans, CleanupRaises, PageStep, ReadLedgers, LedgersUnread, Render, Poll, Edit
<1>4. CASE Restart
  BY <1>4 DEF Restart
<1>5. QED
  BY <1>1, <1>2, <1>3, <1>4 DEF Next

LEMMA MissingIsEmptyStep == MissingIsEmpty /\ Next => MissingIsEmpty'
<1> SUFFICES ASSUME MissingIsEmpty, Next PROVE MissingIsEmpty'
  OBVIOUS
<1> USE DEF MissingIsEmpty, database
<1>1. ASSUME NEW r \in Starts, PostStart(r) \/ PostReclone(r) \/ StartStep(r)
      PROVE  MissingIsEmpty'
  BY <1>1 DEF PostStart, PostReclone, StartStep, StartSpawned, BaseDone,
     StartDrops, Drops, Create, Tables, StartClones, StartRefreshes, WriteSession,
     StartRaises, StartEnds
<1>2. ASSUME NEW r \in Applies,
             ApplyStep(r) \/ \E sel \in Offered : PostApply(r, sel)
      PROVE  MissingIsEmpty'
  BY <1>2 DEF ApplyStep, PostApply, ReadLedger, LedgerUnread, ApplyClones,
     ApplyClonesLedger, PlantOne, PlantFails, ApplyRefreshes, ClearLedger,
     WriteLedger, ApplyRaises, ApplyEnds
<1>3. CASE PostCleanup \/ Cleans \/ CleanupRaises \/ PageStep \/ Edit \/ Restart
  BY <1>3 DEF PostCleanup, Cleans, Drops, CleanupRaises, PageStep, ReadLedgers, LedgersUnread,
     Render, Poll, Edit, Restart
<1>4. QED
  BY <1>1, <1>2, <1>3 DEF Next

LEMMA InstStep == TypeOK /\ InstInv /\ Next => InstInv'
<1> SUFFICES ASSUME TypeOK, InstInv, Next PROVE InstInv'
  OBVIOUS
<1>0. StType /\ BoundType
  BY TypeParts
<1> USE <1>0, VersionFacts
    DEF InstInv, StType, StRec, BoundType, WorkerKeeps, StGoto, history, slots
<1>1. ASSUME NEW r \in Starts, PostStart(r) \/ PostReclone(r) \/ StartStep(r)
      PROVE  InstInv'
  <2>1. CASE PostStart(r) \/ PostReclone(r) \/ StartSpawned(r)
    BY <2>1 DEF PostStart, PostReclone, StartSpawned, Spawn
  <2>2. CASE BaseDone(r) \/ StartEnds(r)
    BY <2>2 DEF BaseDone, StartEnds
  <2>3. CASE Create(r)
    BY <2>3 DEF Create
  <2>4. CASE StartDrops(r) \/ StartClones(r) \/ StartRefreshes(r) \/ WriteSession(r)
             \/ StartRaises(r)
    BY <2>4 DEF StartDrops, StartClones, StartRefreshes, WriteSession, StartRaises
  <2>5. QED
    BY <1>1, <2>1, <2>2, <2>3, <2>4 DEF StartStep
<1>2. ASSUME NEW r \in Applies,
             ApplyStep(r) \/ \E sel \in Offered : PostApply(r, sel)
      PROVE  InstInv'
  <2>1. UNCHANGED <<st, yaml, built>>
    BY <1>2 DEF ApplyStep, PostApply, ReadLedger, LedgerUnread, ApplyClones,
       ApplyClonesLedger, PlantOne, PlantFails, ApplyRefreshes, ClearLedger,
       WriteLedger, ApplyRaises, ApplyEnds
  <2>2. QED
    BY <2>1
<1>3. CASE PostCleanup \/ Cleans \/ CleanupRaises \/ PageStep
  <2>1. UNCHANGED <<st, yaml, built>>
    BY <1>3 DEF PostCleanup, Cleans, CleanupRaises, PageStep, ReadLedgers, LedgersUnread, Render, Poll
  <2>2. QED
    BY <2>1
<1>4. CASE Edit
  <2>1. yaml' \in Nat /\ yaml < yaml' /\ UNCHANGED <<st, built>>
    <3>1. PICK gap \in 1..(Tolerance + 1) : yaml' = yaml + gap
      BY <1>4 DEF Edit
    <3>2. yaml' \in Nat /\ yaml < yaml'
      BY <3>1, ToleranceAssumption
    <3>3. QED
      BY <1>4, <3>2 DEF Edit, history
  <2>2. yaml \in Nat /\ built \in Nat /\ \A r \in Starts : st[r].inst \in Nat
    OBVIOUS
  <2>3. QED
    BY <2>1, <2>2
<1>5. CASE Restart
  <2>1. yaml' = yaml /\ built' = built /\ \A r \in Starts : st'[r].inst = 0
    BY <1>5 DEF Restart
  <2>2. QED
    BY <2>1
<1>6. QED
  BY <1>1, <1>2, <1>3, <1>4, <1>5 DEF Next

(* What being alone means, by who is. *)
NoApplyWorks ==
  \A q \in Applies : ap[q].pc \notin {"clone", "cloneLedger", "plant", "clear", "write"}
NoStartWorks ==
  \A q \in Starts : st[q].pc \notin {"dropViews", "dropRows", "dropLedger", "create",
                                    "clone", "refresh", "kv"}

LEMMA IdleSets ==
  /\ WorkingApplies = {} <=> NoApplyWorks
  /\ WorkingStarts = {} <=> NoStartWorks
BY DEF WorkingApplies, ApplyWorking, WorkingStarts, StartWorking, Dropping,
   NoApplyWorks, NoStartWorks

LEMMA StartAlone ==
  ASSUME SoloInv, ~torn, NEW r \in Starts, st[r].pc \in StartWorking
  PROVE  /\ NoApplyWorks /\ cleaner = "idle"
         /\ \A q \in Starts \ {r} : st[q].pc \notin
              {"dropViews", "dropRows", "dropLedger", "create", "clone", "refresh", "kv"}
<1>1. r \in WorkingStarts
  BY DEF WorkingStarts
<1>2. WorkingApplies = {} /\ ~Cleaning /\ \A q \in WorkingStarts : q = r
  BY <1>1 DEF SoloInv
<1>3. QED
  BY <1>2, IdleSets DEF WorkingStarts, StartWorking, Dropping, Cleaning

LEMMA ApplyAlone ==
  ASSUME SoloInv, ~torn, NEW r \in Applies, ap[r].pc \in ApplyWorking
  PROVE  /\ NoStartWorks /\ cleaner = "idle"
         /\ \A q \in Applies \ {r} : ap[q].pc \notin
              {"clone", "cloneLedger", "plant", "clear", "write"}
<1>1. r \in WorkingApplies
  BY DEF WorkingApplies
<1>2. WorkingStarts = {} /\ ~Cleaning /\ \A q \in WorkingApplies : q = r
  BY <1>1 DEF SoloInv
<1>3. QED
  BY <1>2, IdleSets DEF WorkingApplies, ApplyWorking, Cleaning

(* Who begins without company is alone already. *)
LEMMA BeginsAlone ==
  ASSUME NEW r \in Starts \cup Applies, ~Company(r),
         r \in Starts => st[r].pc \notin StartWorking,
         r \in Applies => ap[r].pc \notin ApplyWorking
  PROVE  NoApplyWorks /\ NoStartWorks /\ cleaner = "idle"
BY Alone, IdleSets DEF WorkingStarts, WorkingApplies, Cleaning

(* A step of somebody who works on nothing. *)
LEMMA OverlayKept ==
  ASSUME OverlayInv, torn => torn', UNCHANGED <<tables, rows, ledger, spilled, blind, built>>,
         \A r \in Starts : st'[r] = st[r] \/
           (st'[r].pc \notin {"dropLedger", "clone", "refresh", "kv"}),
         cleaner' = cleaner \/ cleaner' # "dropLedger",
         \A r \in Applies : ap'[r] = ap[r] \/
           (ap'[r].pc \notin {"clone", "cloneLedger", "plant", "clear", "write"} /\
            ap[r].pc \notin {"clone", "cloneLedger", "plant", "clear", "write"})
  PROVE  OverlayInv'
<1> USE DEF OverlayInv
<1>1. SessionInv' /\ CleanInv'
  BY DEF SessionInv, CleanInv
<1>2. (\A r \in Applies : ap'[r].pc # "cloneLedger") => \A r \in Applies : ap[r].pc # "cloneLedger"
  OBVIOUS
<1>3. LedgerInv' /\ StampInv'
  BY <1>2 DEF LedgerInv, StampInv, Applied
<1>4. PlantedInv'
  BY DEF PlantedInv
<1>5. WorkingApplies' = {} => WorkingApplies = {}
  BY DEF WorkingApplies, ApplyWorking
<1>6. RowsInv'
  BY <1>5 DEF RowsInv, Applied
<1>7. QED
  BY <1>1, <1>3, <1>4, <1>6

LEMMA OverlayStart ==
  ASSUME TypeOK, SoloInv, SoloInv', MissingIsEmpty, OverlayInv, NEW r \in Starts,
         PostStart(r) \/ PostReclone(r) \/ StartStep(r)
  PROVE  OverlayInv'
<1>0. StType
  BY TypeParts
<1> USE <1>0 DEF StType, StRec, WorkerKeeps, history, database, StGoto
<1>1. CASE PostStart(r) \/ PostReclone(r) \/ StartSpawned(r)
  BY <1>1, OverlayKept DEF PostStart, PostReclone, StartSpawned, Spawn
<1>2. CASE StartEnds(r)
  BY <1>2, OverlayKept DEF StartEnds
<1>3. CASE StartRaises(r)
  BY <1>3, OverlayKept DEF StartRaises
<1>4. CASE BaseDone(r)
  BY <1>4, OverlayKept DEF BaseDone
<1>5. CASE StartDrops(r) \/ Create(r) \/ StartClones(r) \/ StartRefreshes(r) \/ WriteSession(r)
  <2>0. CASE torn'
    BY <2>0 DEF OverlayInv, SessionInv, CleanInv, LedgerInv, PlantedInv, RowsInv, StampInv
  <2> SUFFICES ASSUME ~torn' PROVE OverlayInv'
    BY <2>0
  <2>a. ap' = ap /\ cleaner' = cleaner
    BY <1>5 DEF StartDrops, Create, StartClones, StartRefreshes, WriteSession
  <2>1. CASE StartDrops(r)
    <3>1. torn' = torn /\ st[r].pc \in StartWorking
      BY <2>1 DEF StartDrops, StartWorking
    <3>2. NoApplyWorks /\ cleaner = "idle"
          /\ \A q \in Starts \ {r} : st[q].pc \notin
                {"dropViews", "dropRows", "dropLedger", "create", "clone", "refresh", "kv"}
      BY <3>1, StartAlone
    <3>3. CASE st[r].pc = "dropViews"
      BY <2>1, <2>a, <3>1, <3>2, <3>3, IdleSets DEF StartDrops, Drops, AfterDrop,
         NoApplyWorks, OverlayInv, SessionInv, CleanInv, LedgerInv, PlantedInv, RowsInv,
         StampInv, Applied, WorkingApplies
    <3>4. CASE st[r].pc \in {"dropRows", "dropLedger"}
      <4>1. "rows" \notin tables' /\ st'[r].pc \in {"dropLedger", "create"}
        BY <2>1, <3>1, <3>4 DEF StartDrops, Drops, AfterDrop, OverlayInv, SessionInv
      <4>2. \A q \in Starts \ {r} : st'[q] = st[q]
        BY <2>1 DEF StartDrops
      <4>3. QED
        BY <2>a, <3>2, <4>1, <4>2 DEF OverlayInv, SessionInv, CleanInv, LedgerInv,
           PlantedInv, RowsInv, StampInv
    <3>5. QED
      BY <2>1, <3>3, <3>4 DEF StartDrops, Dropping
  <2>2. CASE Create(r) \/ StartClones(r) \/ StartRefreshes(r)
    <3>1. st[r].pc \in {"create", "clone", "refresh"} /\ st'[r].pc \in {"clone", "refresh", "kv"}
          /\ st'[r].inst = st[r].inst /\ \A q \in Starts \ {r} : st'[q] = st[q]
      BY <2>2 DEF Create, StartClones, StartRefreshes
    <3>2. st'[r].pc \in StartWorking
      BY <3>1 DEF StartWorking
    <3>3. NoApplyWorks' /\ cleaner' = "idle"
          /\ \A q \in Starts \ {r} : st'[q].pc \notin
                {"dropViews", "dropRows", "dropLedger", "create", "clone", "refresh", "kv"}
      <4>1. r \in WorkingStarts'
        BY <3>2 DEF WorkingStarts
      <4>2. WorkingApplies' = {} /\ ~Cleaning' /\ \A q \in WorkingStarts' : q = r
        BY <4>1 DEF SoloInv
      <4>3. QED
        BY <4>2 DEF WorkingStarts, StartWorking, Dropping, Cleaning, WorkingApplies,
           ApplyWorking, NoApplyWorks
    <3>4. rows' = {} /\ Applied' \subseteq rows' /\ blind' /\ built' = st[r].inst
      <4>1. CASE Create(r)
        BY <4>1 DEF Create, Applied, BaseLedger
      <4>2. CASE StartClones(r)
        BY <4>2 DEF StartClones, Applied, BaseLedger, OverlayInv, SessionInv
      <4>3. CASE StartRefreshes(r)
        <5>1. NoApplyWorks
          BY <2>a, <3>3 DEF NoApplyWorks
        <5>2. rows = {} /\ blind /\ built = st[r].inst
          BY <4>3 DEF StartRefreshes, OverlayInv, SessionInv
        <5>3. Applied \subseteq rows
          BY <4>3, <5>1 DEF StartRefreshes, OverlayInv, LedgerInv, NoApplyWorks
        <5>4. QED
          BY <4>3, <5>2, <5>3 DEF StartRefreshes, Applied
      <4>4. QED
        BY <2>2, <4>1, <4>2, <4>3
    <3>5. QED
      BY <3>1, <3>3, <3>4 DEF OverlayInv, SessionInv, CleanInv, LedgerInv, PlantedInv,
         RowsInv, StampInv, NoApplyWorks
  <2>3. CASE WriteSession(r)
    <3>1. torn' = torn /\ st[r].pc = "kv" /\ st[r].pc \in StartWorking
      BY <2>3 DEF WriteSession, StartWorking
    <3>2. NoApplyWorks /\ cleaner = "idle"
          /\ \A q \in Starts \ {r} : st[q].pc \notin
                {"dropViews", "dropRows", "dropLedger", "create", "clone", "refresh", "kv"}
      BY <3>1, StartAlone
    <3>3. /\ rows' = {} /\ ledger' = [applied |-> {}, stamp |-> st[r].stamp]
          /\ ~blind' => st[r].stamp = st[r].inst
          /\ built' = st[r].inst /\ st'[r].pc = "ended"
      <4>1. ~torn /\ rows = {} /\ built = st[r].inst
        BY <3>1 DEF OverlayInv, SessionInv
      <4>2. blind' = (st[r].stamp # st[r].inst)
        BY <2>3, Zenon DEF WriteSession
      <4>3. QED
        BY <2>3, <4>1, <4>2 DEF WriteSession
    <3>4. \A q \in Starts \ {r} : st'[q] = st[q]
      BY <2>3 DEF WriteSession
    <3>5. QED
      BY <2>a, <3>2, <3>3, <3>4 DEF OverlayInv, SessionInv, CleanInv, LedgerInv,
         PlantedInv, RowsInv, StampInv, NoApplyWorks, Applied
  <2>4. QED
    BY <1>5, <2>1, <2>2, <2>3
<1>6. QED
  BY <1>1, <1>2, <1>3, <1>4, <1>5 DEF StartStep

LEMMA OverlayApply ==
  ASSUME TypeOK, SoloInv, SoloInv', NothingYet, MissingIsEmpty, OverlayInv,
         NEW r \in Applies, ApplyStep(r) \/ \E sel \in Offered : PostApply(r, sel)
  PROVE  OverlayInv'
<1>0. ApType /\ FlagType
  BY TypeParts
<1> USE <1>0 DEF ApType, ApRec, WorkerKeeps, history, database, ApGoto
<1>1. CASE \E sel \in Offered : PostApply(r, sel)
  BY <1>1, OverlayKept DEF PostApply
<1>2. CASE ApplyEnds(r)
  BY <1>2, OverlayKept DEF ApplyEnds
<1>t. CASE torn'
  BY <1>t DEF OverlayInv, SessionInv, CleanInv, LedgerInv, PlantedInv, RowsInv, StampInv
<1>3. CASE (ReadLedger(r) \/ LedgerUnread(r)) /\ ~torn'
  <2>1. ~torn /\ ~Company(r) /\ ap[r].pc = "spawned"
    BY <1>3 DEF ReadLedger, LedgerUnread
  <2>2. NoApplyWorks /\ NoStartWorks /\ cleaner = "idle"
    BY <2>1, BeginsAlone, StartsApart DEF ApplyWorking
  <2>3. UNCHANGED <<tables, rows, ledger, blind, built, st, cleaner>>
    BY <1>3 DEF ReadLedger, LedgerUnread
  <2>4. SessionInv' /\ CleanInv'
    BY <2>2, <2>3 DEF SessionInv, CleanInv, NoStartWorks
  <2>5. /\ ap'[r].pc \in {"clone", "plant"}
        /\ \A q \in Applies \ {r} : ap'[q] = ap[q]
    BY <1>3 DEF ReadLedger, LedgerUnread, Plan
  <2>6. LedgerInv' /\ StampInv'
    BY <2>1, <2>2, <2>3, <2>5 DEF LedgerInv, StampInv, NoApplyWorks, OverlayInv, Applied
  <2>7. "rows" \in tables => Applied \subseteq rows /\ rows \subseteq Applied \cup spilled
    BY <2>1, <2>2, IdleSets DEF OverlayInv, LedgerInv, RowsInv, NoApplyWorks
  <2>8. PlantedInv'
    <3>1. CASE ReadLedger(r)
      <4>1. ap'[r].pc = "plant" => ap'[r].ok = Applied
        BY <3>1 DEF ReadLedger, Plan, NeedsReclone, ToRemove, Unchanged
      <4>2. spilled' = spilled
        BY <3>1 DEF ReadLedger
      <4>3. QED
        BY <2>2, <2>3, <2>5, <2>7, <4>1, <4>2 DEF PlantedInv, NoApplyWorks
    <3>2. CASE LedgerUnread(r)
      <4>1. ap'[r].pc = "plant" => ap'[r].ok = {}
        BY <3>2 DEF LedgerUnread, Plan, NeedsReclone, ToRemove, Unchanged
      <4>2. spilled' = spilled \cup Applied
        BY <3>2 DEF LedgerUnread
      <4>3. QED
        BY <2>2, <2>3, <2>5, <2>7, <4>1, <4>2 DEF PlantedInv, NoApplyWorks
    <3>3. QED
      BY <1>3, <3>1, <3>2
  <2>9. RowsInv'
    <3>1. r \in WorkingApplies'
      BY <2>5 DEF WorkingApplies, ApplyWorking
    <3>2. QED
      BY <3>1 DEF RowsInv
  <2>10. QED
    BY <2>4, <2>6, <2>8, <2>9 DEF OverlayInv
<1>4. CASE ApplyClones(r) /\ ~torn'
  <2>1. /\ ap'[r].pc = "cloneLedger" /\ rows' = {}
        /\ \A q \in Applies \ {r} : ap'[q] = ap[q]
    BY <1>4 DEF ApplyClones
  <2>2. r \in WorkingApplies'
    BY <2>1 DEF WorkingApplies, ApplyWorking
  <2>3. WorkingStarts' = {} /\ ~Cleaning' /\ \A q \in WorkingApplies' : q = r
    BY <1>4, <2>2 DEF SoloInv
  <2>4. SessionInv' /\ CleanInv'
    BY <2>3 DEF SessionInv, CleanInv, WorkingStarts, StartWorking, Dropping, Cleaning
  <2>5. LedgerInv' /\ StampInv' /\ RowsInv'
    BY <2>1, <2>2 DEF LedgerInv, StampInv, RowsInv
  <2>6. PlantedInv'
    BY <2>1, <2>3 DEF PlantedInv, WorkingApplies, ApplyWorking
  <2>7. QED
    BY <2>4, <2>5, <2>6 DEF OverlayInv
<1>5. CASE /\ ~torn'
           /\ \/ ApplyClonesLedger(r) \/ ApplyRefreshes(r) \/ ClearLedger(r)
              \/ WriteLedger(r) \/ ApplyRaises(r)
              \/ \E p \in Plant : PlantOne(r, p) \/ PlantFails(r, p)
  <2>1. ~torn /\ ap[r].pc \in ApplyWorking
    <3>1. CASE ApplyRaises(r)
      BY <1>5, <3>1 DEF ApplyRaises, ApplyCut
    <3>2. CASE ~ApplyRaises(r)
      <4>1. torn' = torn
        BY <1>5, <3>2 DEF ApplyClonesLedger, ApplyRefreshes, ClearLedger, WriteLedger,
           PlantOne, PlantFails
      <4>2. ap[r].pc \in {"cloneLedger", "plant", "clear", "write"}
        BY <1>5, <3>2 DEF ApplyClonesLedger, ApplyRefreshes, ClearLedger, WriteLedger,
           PlantOne, PlantFails
      <4>3. QED
        BY <1>5, <4>1, <4>2 DEF ApplyWorking
    <3>3. QED
      BY <3>1, <3>2
  <2>2. /\ NoStartWorks /\ cleaner = "idle"
        /\ \A q \in Applies \ {r} : ap[q].pc \notin
             {"clone", "cloneLedger", "plant", "clear", "write"}
    BY <2>1, ApplyAlone
  <2>3. UNCHANGED <<st, cleaner, built>> /\ \A q \in Applies \ {r} : ap'[q] = ap[q]
    BY <1>5 DEF ApplyClonesLedger, ApplyRefreshes, ClearLedger, WriteLedger,
       ApplyRaises, PlantOne, PlantFails
  <2>4. SessionInv' /\ CleanInv'
    BY <2>2, <2>3 DEF SessionInv, CleanInv, NoStartWorks
  <2>q. \A q \in Applies \ {r} : ap'[q].pc \notin
             {"clone", "cloneLedger", "plant", "clear", "write"}
    BY <2>2, <2>3
  <2>w. ap'[r].pc \in ApplyWorking => WorkingApplies' # {}
    BY DEF WorkingApplies
  <2> SUFFICES LedgerInv' /\ PlantedInv' /\ RowsInv' /\ StampInv'
    BY <2>4 DEF OverlayInv
  <2> USE DEF LedgerInv, PlantedInv, RowsInv, StampInv, Applied, OverlayInv
  <2>5. CASE ApplyClonesLedger(r)
    <3>1. /\ rows' = rows /\ ledger' = BaseLedger /\ blind' /\ ap'[r].pc = "plant"
          /\ ap'[r].ok = {} /\ ("rows" \in tables' <=> "rows" \in tables)
      BY <2>5 DEF ApplyClonesLedger, NothingYet
    <3>2. rows = {}
      BY <2>1, <2>5 DEF ApplyClonesLedger, MissingIsEmpty
    <3>3. QED
      BY <2>q, <2>w, <3>1, <3>2 DEF BaseLedger, ApplyWorking
  <2>6. CASE ApplyRefreshes(r)
    <3>1. /\ UNCHANGED <<rows, ledger, blind, spilled>> /\ ap[r].pc = "plant"
          /\ ap'[r].pc = "clear" /\ ap'[r].ok = ap[r].ok /\ "rows" \in tables
      BY <2>6 DEF ApplyRefreshes
    <3>2. QED
      BY <2>1, <2>2, <2>3, <2>q, <2>w, <3>1 DEF ApplyWorking
  <2>7. CASE ClearLedger(r)
    <3>1. /\ UNCHANGED <<tables, rows, blind, spilled>> /\ ap[r].pc = "clear"
          /\ ap'[r].pc = "write" /\ ap'[r].ok = ap[r].ok
      BY <2>7 DEF ClearLedger
    <3>2. ledger'.applied = {} /\ ledger'.stamp = ledger.stamp
      BY <2>7, TypeParts DEF ClearLedger, DbType, Ledger
    <3>3. QED
      BY <2>1, <2>2, <2>3, <2>q, <2>w, <3>1, <3>2 DEF ApplyWorking
  <2>8. CASE WriteLedger(r)
    <3>1. /\ UNCHANGED <<tables, rows, blind, spilled>> /\ ap[r].pc = "write"
          /\ ap'[r].pc = "ended"
      BY <2>8 DEF WriteLedger
    <3>2. ledger'.applied = ap[r].ok /\ ledger'.stamp = ledger.stamp
      BY <2>8, TypeParts DEF WriteLedger, DbType, Ledger
    <3>3. QED
      BY <2>1, <2>2, <2>3, <2>q, <3>1, <3>2
  <2>9. CASE ApplyRaises(r)
    <3>1. /\ UNCHANGED <<tables, rows, ledger, blind>> /\ ap[r].pc # "cloneLedger"
          /\ spilled' = spilled \cup rows /\ ap'[r].pc = "ended"
      BY <1>5, <2>1, <2>9 DEF ApplyRaises, ApplyCut
    <3>2. QED
      BY <2>1, <2>2, <2>3, <2>q, <3>1
  <2>10. CASE \E p \in Plant : PlantOne(r, p)
    <3>1. PICK p \in Plant : PlantOne(r, p)
      BY <2>10
    <3>2. /\ UNCHANGED <<tables, ledger, blind, spilled>> /\ rows' = rows \cup {p}
          /\ ap[r].pc = "plant" /\ ap'[r].pc = "plant" /\ ap'[r].ok = ap[r].ok \cup {p}
      BY <3>1 DEF PlantOne
    <3>3. QED
      BY <2>1, <2>2, <2>3, <2>q, <2>w, <3>2 DEF ApplyWorking
  <2>11. CASE \E p \in Plant : PlantFails(r, p)
    <3>1. PICK p \in Plant : PlantFails(r, p)
      BY <2>11
    <3>2. /\ UNCHANGED <<tables, ledger, blind>>
          /\ ap[r].pc = "plant" /\ ap'[r].pc = "plant" /\ ap'[r].ok = ap[r].ok
          /\ "rows" \in tables => /\ rows \subseteq rows' /\ rows' \subseteq rows \cup {p}
                                  /\ spilled' = spilled \cup {p}
      BY <3>1 DEF PlantFails
    <3>3. QED
      BY <2>1, <2>2, <2>3, <2>q, <2>w, <3>2 DEF ApplyWorking
  <2>12. QED
    BY <1>5, <2>5, <2>6, <2>7, <2>8, <2>9, <2>10, <2>11
<1>6. QED
  BY <1>1, <1>2, <1>t, <1>3, <1>4, <1>5 DEF ApplyStep

LEMMA OverlayOther ==
  ASSUME TypeOK, SoloInv, MissingIsEmpty, OverlayInv,
         PostCleanup \/ Cleans \/ CleanupRaises \/ PageStep \/ Edit \/ Restart
  PROVE  OverlayInv'
<1>0. FlagType
  BY TypeParts
<1> USE <1>0 DEF history, database
<1>t. CASE torn'
  BY <1>t DEF OverlayInv, SessionInv, CleanInv, LedgerInv, PlantedInv, RowsInv, StampInv
<1>1. CASE (PostCleanup \/ CleanupRaises \/ PageStep \/ Edit) /\ ~torn'
  <2>1. CASE PostCleanup
    BY <1>0, <2>1, OverlayKept DEF PostCleanup
  <2>2. CASE CleanupRaises \/ PageStep \/ Edit
    <3>1. UNCHANGED <<tables, rows, ledger, spilled, blind, built, st, ap, torn>>
      BY <2>2 DEF CleanupRaises, PageStep, ReadLedgers, LedgersUnread, Render, Poll, Edit
    <3>2. cleaner' = cleaner \/ cleaner' = "idle"
      BY <2>2 DEF CleanupRaises, PageStep, ReadLedgers, LedgersUnread, Render, Poll, Edit
    <3>3. QED
      BY <3>1, <3>2, OverlayKept
  <2>3. QED
    BY <1>1, <2>1, <2>2
<1>2. CASE Cleans /\ ~torn'
  <2>1. ~torn /\ Cleaning /\ UNCHANGED <<st, ap, spilled, blind, built>>
    BY <1>2 DEF Cleans
  <2>2. NoApplyWorks /\ NoStartWorks
    BY <2>1, IdleSets DEF SoloInv
  <2>3. CASE cleaner = "dropViews"
    <3>1. /\ rows' = rows /\ ledger' = ledger /\ cleaner' = "dropRows"
          /\ "rows" \in tables' <=> "rows" \in tables
      BY <1>2, <2>3 DEF Cleans, Drops, AfterDrop
    <3>2. WorkingApplies' = WorkingApplies
      BY <2>1 DEF WorkingApplies
    <3>3. QED
      BY <2>1, <2>2, <3>1, <3>2 DEF OverlayInv, SessionInv, CleanInv, LedgerInv, PlantedInv, RowsInv,
         StampInv, Applied, NoStartWorks, NoApplyWorks
  <2>4. CASE cleaner \in {"dropRows", "dropLedger"}
    <3>1. "rows" \notin tables'
      BY <1>2, <2>1, <2>4 DEF Cleans, Drops, OverlayInv, CleanInv
    <3>2. QED
      BY <2>1, <2>2, <3>1 DEF OverlayInv, SessionInv, CleanInv, LedgerInv, PlantedInv,
         RowsInv, StampInv, NoStartWorks
  <2>5. QED
    BY <1>2, <2>3, <2>4 DEF Cleans, Drops
<1>3. CASE Restart /\ ~torn'
  <2>1. /\ ~torn /\ \A r \in Applies : ap[r].pc # "cloneLedger"
        /\ UNCHANGED <<tables, rows, ledger, blind, built>>
    BY <1>3 DEF Restart
  <2>2. /\ \A r \in Starts : st'[r].pc = "idle"
        /\ \A r \in Applies : ap'[r].pc = "idle"
        /\ cleaner' = "idle"
    BY <1>3 DEF Restart
  <2>3. "rows" \in tables => rows \subseteq Applied \cup spilled'
    BY <1>3, <2>1 DEF Restart, OverlayInv, RowsInv
  <2>4. QED
    BY <2>1, <2>2, <2>3 DEF OverlayInv, SessionInv, CleanInv, LedgerInv, PlantedInv,
       RowsInv, StampInv, Applied
<1>4. QED
  BY <1>t, <1>1, <1>2, <1>3

-----------------------------------------------------------------------------
(* The landing page.                                                       *)

LEMMA InitPage == Init => BannerInv /\ PageInv
BY DEF Init, NoPage, BannerInv, PageInv

LEMMA BannerStep == TypeOK /\ BannerInv /\ Next => BannerInv'
<1> SUFFICES ASSUME TypeOK, BannerInv, Next PROVE BannerInv'
  OBVIOUS
<1>0. PageType
  BY TypeParts
<1> USE <1>0 DEF BannerInv, PageType, PageRec, WorkerKeeps, slots
<1>a. ASSUME Redirected PROVE BannerInv'
  BY <1>a DEF Redirected, NoPage
<1>b. ASSUME UNCHANGED page, startSlot' \in {startSlot, NoTask},
             applySlot' \in {applySlot, NoTask}
      PROVE  BannerInv'
  BY <1>b
<1>1. ASSUME NEW r \in Starts, PostStart(r) \/ PostReclone(r) \/ StartStep(r)
      PROVE  BannerInv'
  <2>1. CASE PostStart(r) \/ PostReclone(r) \/ StartSpawned(r)
    BY <2>1, <1>a, <1>b DEF PostStart, PostReclone, StartSpawned
  <2>2. CASE StartStep(r) /\ ~StartSpawned(r)
    BY <2>2, <1>b DEF StartStep, BaseDone, StartDrops, Create, StartClones,
       StartRefreshes, WriteSession, StartRaises, StartEnds
  <2>3. QED
    BY <1>1, <2>1, <2>2
<1>2. ASSUME NEW r \in Applies,
             ApplyStep(r) \/ \E sel \in Offered : PostApply(r, sel)
      PROVE  BannerInv'
  BY <1>2, <1>a, <1>b DEF ApplyStep, PostApply, ReadLedger, LedgerUnread, ApplyClones,
     ApplyClonesLedger, PlantOne, PlantFails, ApplyRefreshes, ClearLedger,
     WriteLedger, ApplyRaises, ApplyEnds
<1>3. CASE PostCleanup \/ Cleans \/ Poll \/ Edit
  BY <1>3, <1>a, <1>b DEF PostCleanup, Cleans, Poll, Edit
<1>4. CASE CleanupRaises \/ ReadLedgers \/ LedgersUnread \/ Restart
  <2>1. CASE ReadLedgers \/ LedgersUnread
    <3>1. page'.pc = "flags"
      BY <2>1 DEF ReadLedgers, LedgersUnread
    <3>2. QED
      BY <3>1
  <2>2. CASE CleanupRaises \/ Restart
    <3>1. page' = NoPage
      BY <2>2 DEF CleanupRaises, Restart
    <3>2. QED
      BY <3>1 DEF NoPage
  <2>3. QED
    BY <1>4, <2>1, <2>2
<1>5. CASE Render
  <2>1. page'.banner = {startSlot, applySlot} \ {NoTask}
    BY <1>5 DEF Render
  <2>2. UNCHANGED <<startSlot, applySlot>>
    BY <1>5 DEF Render
  <2>3. QED
    BY <2>1, <2>2
<1>6. QED
  BY <1>1, <1>2, <1>3, <1>4, <1>5 DEF Next, PageStep

LEMMA PageStartStep ==
  ASSUME TypeOK, OneStart, OneStart', BannerInv, PageInv, NEW r \in Starts,
         PostStart(r) \/ PostReclone(r) \/ StartStep(r)
  PROVE  PageInv'
<1>0. StType /\ PageType
  BY TypeParts
<1> USE TasksAssumption DEF WorkerKeeps, history, database, slots
<1>1. CASE PostReclone(r) \/ StartSpawned(r)
  BY <1>1 DEF PostReclone, StartSpawned, Redirected, NoPage, PageInv
<1>2. CASE PostStart(r)
  <2>1. CASE Redirected
    BY <2>1 DEF Redirected, NoPage, PageInv
  <2>2. CASE ~Redirected
    BY <1>2, <2>2 DEF PostStart, PageInv, Cleaning, Applied
  <2>3. QED
    BY <2>1, <2>2
<1>3. CASE BaseDone(r) \/ StartDrops(r) \/ Create(r) \/ StartClones(r) \/ StartRefreshes(r)
           \/ WriteSession(r) \/ StartRaises(r)
  <2>1. st'[r].pc \in StartTask
    BY <1>0, <1>3 DEF BaseDone, StartDrops, AfterDrop, Create, StartClones, StartRefreshes,
       WriteSession, StartRaises, StGoto, StartTask, StartWorking, Dropping, StType, StRec
  <2>2. ~raced' => startSlot' # NoTask
    BY <2>1 DEF OneStart
  <2>3. QED
    BY <2>2 DEF PageInv
<1>4. CASE StartEnds(r)
  <2>1. /\ st[r].pc = "ended" /\ UNCHANGED <<page, tables, ledger, cleaner, applySlot>>
        /\ ~late' => ~late /\ page.pc # "flags" /\ startSlot = r
    BY <1>4 DEF StartEnds, Unseen
  <2>2. CASE page.pc = "shown" /\ page.banner = {}
    BY <2>1, <2>2 DEF BannerInv, PageInv
  <2>3. CASE page.pc # "shown" \/ page.banner # {}
    BY <2>1, <2>3 DEF PageInv
  <2>4. QED
    BY <2>2, <2>3
<1>5. QED
  BY <1>1, <1>2, <1>3, <1>4 DEF StartStep

LEMMA PageApplyStep ==
  ASSUME TypeOK, OneApply, OneApply', BannerInv, PageInv, NEW r \in Applies,
         ApplyStep(r) \/ \E sel \in Offered : PostApply(r, sel)
  PROVE  PageInv'
<1>0. ApType /\ PageType
  BY TypeParts
<1> USE TasksAssumption DEF WorkerKeeps, history, database, slots
<1>1. CASE \E sel \in Offered : PostApply(r, sel)
  BY <1>1 DEF PostApply, Redirected, NoPage, PageInv
<1>2. CASE ApplyEnds(r)
  <2>1. /\ applySlot # NoTask /\ UNCHANGED <<page, tables, ledger, cleaner>>
        /\ ~late' => page.pc # "flags"
    BY <1>2 DEF ApplyEnds, Unseen, OneApply, ApplyTask
  <2>2. QED
    BY <2>1 DEF BannerInv, PageInv
<1>3. CASE ApplyStep(r) /\ ~ApplyEnds(r)
  <2>1. ap'[r].pc \in ApplyTask
    <3>1. CASE ReadLedger(r) \/ LedgerUnread(r)
      BY <1>0, <3>1 DEF ReadLedger, LedgerUnread, Plan, ApplyTask, ApplyWorking, ApType, ApRec
    <3>2. CASE \E p \in Plant : PlantOne(r, p) \/ PlantFails(r, p)
      BY <1>0, <3>2 DEF PlantOne, PlantFails, ApplyTask, ApplyWorking, ApType, ApRec
    <3>3. CASE ApplyClones(r) \/ ApplyClonesLedger(r) \/ ApplyRefreshes(r)
               \/ ClearLedger(r) \/ WriteLedger(r) \/ ApplyRaises(r)
      BY <1>0, <3>3 DEF ApplyClones, ApplyClonesLedger, ApplyRefreshes, ClearLedger,
         WriteLedger, ApplyRaises, ApGoto, ApplyTask, ApplyWorking, ApType, ApRec
    <3>4. QED
      BY <1>3, <3>1, <3>2, <3>3 DEF ApplyStep
  <2>2. applySlot' # NoTask
    BY <2>1 DEF OneApply
  <2>3. QED
    BY <2>2 DEF PageInv
<1>4. QED
  BY <1>1, <1>2, <1>3

LEMMA PageOtherStep ==
  ASSUME TypeOK, PageInv,
         PostCleanup \/ Cleans \/ CleanupRaises \/ PageStep \/ Edit \/ Restart
  PROVE  PageInv'
<1>0. PageType /\ BoundType
  BY TypeParts
<1>1. CASE PostCleanup
  BY <1>1 DEF PostCleanup, PageInv, Cleaning
<1>2. CASE Cleans
  <2>1. CASE cleaner = "dropLedger"
    BY <1>2, <2>1 DEF Cleans, Redirected, NoPage, PageInv
  <2>2. CASE cleaner # "dropLedger"
    BY <1>2, <2>2 DEF Cleans, Drops, AfterDrop, Cleaning, PageInv
  <2>3. QED
    BY <2>1, <2>2
<1>3. CASE CleanupRaises \/ Restart
  BY <1>3 DEF CleanupRaises, Restart, NoPage, PageInv
<1>4. CASE Poll
  BY <1>4 DEF Poll, Redirected, NoPage, PageInv
<1>5. CASE ReadLedgers
  <2>1. /\ page'.applied = IF "rows" \in tables THEN Applied ELSE {}
        /\ page'.exists <=> "rows" \in tables
        /\ UNCHANGED <<tables, ledger>>
    BY <1>0, <1>5 DEF ReadLedgers, database, PageType, PageRec
  <2>2. QED
    BY <2>1 DEF PageInv, Applied
<1>6. CASE LedgersUnread
  <2>1. /\ page'.applied = {} /\ page'.misread
        /\ page'.exists => "rows" \in tables
        /\ UNCHANGED <<tables, ledger>>
    BY <1>0, <1>6 DEF LedgersUnread, database, PageType, PageRec
  <2>2. QED
    BY <2>1 DEF PageInv, Applied
<1>7. CASE Render
  <2>1. /\ page.pc = "flags" /\ page'.exists = page.exists /\ page'.applied = page.applied
        /\ page'.misread = page.misread
        /\ UNCHANGED <<tables, ledger, startSlot, applySlot, late, raced, cleaner>>
    BY <1>0, <1>7 DEF Render, database, slots, history, PageType, PageRec
  <2>2. QED
    BY <2>1 DEF PageInv, Applied, Cleaning
<1>8. CASE Edit
  BY <1>8 DEF Edit, database, slots, history, PageInv, Applied, Cleaning
<1>9. QED
  BY <1>1, <1>2, <1>3, <1>4, <1>5, <1>6, <1>7, <1>8 DEF PageStep

-----------------------------------------------------------------------------
(* The inductive invariant.                                                *)

IInv ==
  /\ TypeOK /\ OneApply /\ OneStart /\ ViewsInv
  /\ SoloInv /\ NothingYet /\ MissingIsEmpty /\ InstInv /\ OverlayInv
  /\ BannerInv /\ PageInv

LEMMA InitIInv == Init => IInv
BY InitTypeOK, InitOneApply, InitOneStart, InitViewsInv, InitSoloInv,
   InitOverlayInv, InitPage DEF IInv

LEMMA NextIInv == IInv /\ [Next]_vars => IInv'
<1> SUFFICES ASSUME IInv, [Next]_vars PROVE IInv'
  OBVIOUS
<1>1. CASE UNCHANGED vars
  BY <1>1 DEF vars, database, slots, history, IInv, TypeOK, OneApply, OneStart,
     ViewsInv, Unrefreshed, SoloInv, WorkingStarts, WorkingApplies, Cleaning,
     NothingYet, MissingIsEmpty, InstInv, OverlayInv, SessionInv, CleanInv,
     LedgerInv, PlantedInv, RowsInv, StampInv, BannerInv, PageInv, Applied
<1>2. CASE Next
  <2>1. /\ TypeOK' /\ OneApply' /\ OneStart' /\ ViewsInv' /\ SoloInv'
        /\ NothingYet' /\ MissingIsEmpty' /\ InstInv' /\ BannerInv'
    BY <1>2, NextTypeOK, OneApplyStep, OneStartStep, ViewsStep, SoloStep,
       NothingYetStep, MissingIsEmptyStep, InstStep, BannerStep DEF IInv
  <2>2. OverlayInv' /\ PageInv'
    BY <1>2, <2>1, OverlayStart, OverlayApply, OverlayOther, PageStartStep,
       PageApplyStep, PageOtherStep DEF IInv, Next
  <2>3. QED
    BY <2>1, <2>2 DEF IInv
<1>3. QED
  BY <1>1, <1>2

LEMMA AlwaysIInv == Spec => []IInv
BY InitIInv, NextIInv, PTL DEF Spec

(* At rest the overlay holds the plants its ledger names, and besides them *)
(* only what failed plants and cut Applies left since the last clone.      *)
THEOREM LedgerHonest == Spec => []LedgerMatchesRows
<1>1. IInv => LedgerMatchesRows
  <2> SUFFICES ASSUME IInv, AtRest, ~torn, "rows" \in tables
               PROVE  Applied \subseteq rows /\ rows \subseteq Applied \cup spilled
    BY DEF LedgerMatchesRows
  <2>1. WorkingApplies = {} /\ NoApplyWorks
    BY IdleSets DEF AtRest
  <2>2. QED
    BY <2>1 DEF IInv, OverlayInv, LedgerInv, RowsInv, NoApplyWorks
<1>2. QED
  BY <1>1, AlwaysIInv, PTL

(* Whoever changes the rows refreshes the views after it, in whatever      *)
(* order session starts, applies and cleanups overlap.                     *)
THEOREM ViewsHonest == Spec => []ViewsMatchRows
BY ViewsFollow, AlwaysIInv, PTL DEF IInv

(* The apply guard lets one task in at a time.                             *)
THEOREM ApplyGuarded == Spec => []OneApply
BY AlwaysIInv, PTL DEF IInv

(* So does the guard of session starts, but for a double click.            *)
THEOREM StartGuarded == Spec => []OneStart
BY AlwaysIInv, PTL DEF IInv

(* Wherever the ledger has a usable stamp, the staleness banner is due     *)
(* exactly when the L2 file was saved later than the tolerance after the   *)
(* instance that the overlay was created from.                             *)
THEOREM StaleHonest == Spec => []StaleFlagExact
<1>1. IInv => StaleFlagExact
  <2> SUFFICES ASSUME IInv, AtRest, ~torn, "rows" \in tables, ~blind
               PROVE  L2Stale <=> yaml > built + Tolerance
    BY DEF StaleFlagExact
  <2>1. NoApplyWorks
    BY IdleSets DEF AtRest
  <2>2. ledger.stamp = built
    BY <2>1 DEF IInv, OverlayInv, StampInv, NoApplyWorks
  <2>3. built \in Version /\ yaml \in Version
    BY TypeParts DEF IInv, BoundType
  <2>4. QED
    BY <2>2, <2>3, VersionFacts DEF L2Stale
<1>2. QED
  BY <1>1, AlwaysIInv, PTL

(* A landing page without banner shows the ledger as it is, unless a task  *)
(* ended while the page was being rendered; when a probe of it failed, it  *)
(* shows no more than the ledger.                                          *)
THEOREM PageHonest == Spec => []PageShowsLedger
<1>1. IInv => PageShowsLedger
  BY DEF IInv, PageInv, PageShowsLedger
<1>2. QED
  BY <1>1, AlwaysIInv, PTL
-----------------------------------------------------------------------------
(* An Apply writes what it was asked for.                                  *)

(* What is still to plant of a selection and what is known to be planted. *)
Asked(r) == ap[r].todo \cup ap[r].ok

AskedInv == \A r \in Applies :
  /\ ap[r].todo \cap ap[r].ok = {}
  /\ ap[r].pc \in {"clear", "write"} => ap[r].todo = {}

(* A task loses a plant it was asked for only where planting it fails, and *)
(* its last statement writes the others.                                   *)
AsAsked(r) ==
  /\ ap[r].pc \in ApplyTask /\ ap'[r].pc \in ApplyTask =>
       \/ Asked(r)' = Asked(r)
       \/ \E p \in ap[r].todo : PlantFails(r, p) /\ Asked(r)' = Asked(r) \ {p}
  /\ WriteLedger(r) => ledger'.applied = Asked(r)

LEMMA InitAskedInv == Init => AskedInv
BY DEF Init, AskedInv

(* An Apply that does not move. *)
LEMMA Unmoved ==
  ASSUME TypeOK, NEW r \in Applies, ap'[r] = ap[r]
  PROVE  AsAsked(r)
<1>1. Asked(r)' = Asked(r)
  BY DEF Asked
<1>2. ~WriteLedger(r)
  BY TypeParts DEF WriteLedger, ApGoto, ApType, ApRec
<1>3. QED
  BY <1>1, <1>2 DEF AsAsked

(* One Apply at a time moves. *)
LEMMA OneMoves ==
  ASSUME TypeOK, NEW r \in Applies,
         ApplyStep(r) \/ \E sel \in Offered : PostApply(r, sel)
  PROVE  \A q \in Applies \ {r} : ap'[q] = ap[q]
<1>0. ApType
  BY TypeParts
<1> USE <1>0 DEF ApType, ApRec, ApGoto
<1>1. CASE (\E sel \in Offered : PostApply(r, sel)) \/ ApplyEnds(r)
  BY <1>1 DEF PostApply, ApplyEnds
<1>2. CASE ReadLedger(r) \/ LedgerUnread(r)
  BY <1>2 DEF ReadLedger, LedgerUnread, Plan
<1>3. CASE ApplyClones(r) \/ ApplyClonesLedger(r) \/ ApplyRefreshes(r)
           \/ ClearLedger(r) \/ WriteLedger(r) \/ ApplyRaises(r)
  BY <1>3 DEF ApplyClones, ApplyClonesLedger, ApplyRefreshes, ClearLedger,
     WriteLedger, ApplyRaises
<1>4. CASE \E p \in Plant : PlantOne(r, p) \/ PlantFails(r, p)
  BY <1>4 DEF PlantOne, PlantFails
<1>5. QED
  BY <1>1, <1>2, <1>3, <1>4 DEF ApplyStep

LEMMA AskedApply ==
  ASSUME TypeOK, NothingYet, AskedInv, NEW r \in Applies,
         ApplyStep(r) \/ \E sel \in Offered : PostApply(r, sel)
  PROVE  AskedInv' /\ \A q \in Applies : AsAsked(q)
<1>0. ApType
  BY TypeParts
<1>1. \A q \in Applies \ {r} : ap'[q] = ap[q] /\ AsAsked(q)
  BY OneMoves, Unmoved
<1> DEFINE Kept(x) == x.todo \cap x.ok = {} /\ (x.pc \in {"clear", "write"} => x.todo = {})
<1>2. Kept(ap[r])
  BY DEF AskedInv
<1> SUFFICES Kept(ap'[r]) /\ AsAsked(r)
  BY <1>1 DEF AskedInv
<1> USE <1>0 DEF ApType, ApRec, ApGoto, AsAsked, Asked
<1>3. CASE (\E sel \in Offered : PostApply(r, sel)) \/ ApplyEnds(r)
  <2>1. CASE ApplyEnds(r)
    BY <2>1 DEF ApplyEnds, ApplyTask, ApplyWorking, WriteLedger
  <2>2. CASE \E sel \in Offered : PostApply(r, sel)
    <3>1. PICK sel \in Offered : PostApply(r, sel)
      BY <2>2
    <3>2. ap[r].pc = "idle" /\ ap[r].ok = {}
      BY <3>1 DEF PostApply, NothingYet
    <3>3. \/ ap' = ap
          \/ ap' = [ap EXCEPT ![r].pc = "spawned", ![r].todo = sel]
      BY <3>1 DEF PostApply
    <3>4. QED
      BY <1>2, <3>2, <3>3 DEF ApplyTask, ApplyWorking, WriteLedger
  <2>3. QED
    BY <1>3, <2>1, <2>2
<1>4. CASE ReadLedger(r) \/ LedgerUnread(r)
  <2>1. PICK cur : Plan(r, cur) /\ ap[r].pc = "spawned"
    BY <1>4 DEF ReadLedger, LedgerUnread
  <2>2. ap[r].ok = {}
    BY <2>1 DEF NothingYet
  <2>3. /\ ap'[r].pc \in {"clone", "plant"} /\ ap'[r].todo \cap ap'[r].ok = {}
        /\ ap'[r].todo \cup ap'[r].ok = ap[r].todo
    BY <2>1, <2>2 DEF Plan, ToAdd, Unchanged
  <2>4. QED
    BY <2>1, <2>2, <2>3 DEF WriteLedger
<1>5. CASE ApplyClones(r) \/ ApplyClonesLedger(r) \/ ApplyRefreshes(r)
           \/ ClearLedger(r) \/ ApplyRaises(r)
  <2>1. ap'[r].todo = ap[r].todo /\ ap'[r].ok = ap[r].ok
    BY <1>5 DEF ApplyClones, ApplyClonesLedger, ApplyRefreshes, ClearLedger, ApplyRaises
  <2>2. Kept(ap'[r])
    BY <1>2, <1>5, <2>1 DEF ApplyClones, ApplyClonesLedger, ApplyRefreshes,
       ClearLedger, ApplyRaises
  <2>3. WriteLedger(r) => ledger'.applied = Asked(r)
    BY <1>2, TypeParts DEF WriteLedger, DbType, Ledger
  <2>4. QED
    BY <2>1, <2>2, <2>3
<1>6. CASE WriteLedger(r)
  <2>1. ap[r].todo = {} /\ ap'[r].pc = "ended" /\ ap'[r].todo = {} /\ ap'[r].ok = ap[r].ok
    BY <1>2, <1>6 DEF WriteLedger
  <2>2. ledger'.applied = ap[r].ok
    BY <1>6, TypeParts DEF WriteLedger, DbType, Ledger
  <2>3. QED
    BY <2>1, <2>2
<1>7. CASE \E p \in Plant : PlantOne(r, p) \/ PlantFails(r, p)
  <2>1. PICK p \in Plant : PlantOne(r, p) \/ PlantFails(r, p)
    BY <1>7
  <2>2. /\ ap[r].pc = "plant" /\ ap'[r].pc = "plant" /\ p \in ap[r].todo
        /\ ap'[r].todo = ap[r].todo \ {p}
    BY <2>1 DEF PlantOne, PlantFails
  <2>3. CASE PlantOne(r, p)
    <3>1. ap'[r].ok = ap[r].ok \cup {p}
      BY <2>3 DEF PlantOne
    <3>2. QED
      BY <1>2, <2>2, <3>1 DEF WriteLedger
  <2>4. CASE PlantFails(r, p)
    <3>1. ap'[r].ok = ap[r].ok
      BY <2>4 DEF PlantFails
    <3>2. Asked(r)' = Asked(r) \ {p}
      BY <1>2, <2>2, <3>1
    <3>3. QED
      BY <1>2, <2>2, <2>4, <3>1, <3>2 DEF WriteLedger
  <2>5. QED
    BY <2>1, <2>3, <2>4
<1>8. QED
  BY <1>3, <1>4, <1>5, <1>6, <1>7, TasksAssumption DEF ApplyStep

LEMMA AskedStep ==
  TypeOK /\ NothingYet /\ AskedInv /\ Next => AskedInv' /\ \A r \in Applies : AsAsked(r)
<1> SUFFICES ASSUME TypeOK, NothingYet, AskedInv, Next
             PROVE  AskedInv' /\ \A r \in Applies : AsAsked(r)
  OBVIOUS
<1>1. ASSUME ap' = ap PROVE AskedInv' /\ \A r \in Applies : AsAsked(r)
  BY <1>1, Unmoved DEF AskedInv
<1>2. ASSUME NEW r \in Starts, PostStart(r) \/ PostReclone(r) \/ StartStep(r)
      PROVE  ap' = ap
  BY <1>2 DEF PostStart, PostReclone, StartStep, StartSpawned, BaseDone, WorkerKeeps,
     StartDrops, Create, StartClones, StartRefreshes, WriteSession, StartRaises, StartEnds
<1>3. ASSUME PostCleanup \/ Cleans \/ CleanupRaises \/ PageStep \/ Edit
      PROVE  ap' = ap
  BY <1>3 DEF PostCleanup, Cleans, CleanupRaises, PageStep, ReadLedgers, LedgersUnread, Render, Poll, Edit
<1>4. CASE Restart
  <2>1. \A r \in Applies : ap'[r] = [pc |-> "idle", todo |-> {}, ok |-> {}]
    BY <1>4 DEF Restart
  <2>2. \A r \in Applies : ~WriteLedger(r)
    BY <2>1, TypeParts DEF WriteLedger, ApGoto, ApType, ApRec
  <2>3. QED
    BY <2>1, <2>2 DEF AskedInv, AsAsked, ApplyTask, ApplyWorking
<1>5. QED
  BY <1>1, <1>2, <1>3, <1>4, AskedApply DEF Next

(* The ledger an Apply leaves is the selection its form was posted with,   *)
(* less the plants that failed, whether it planted only what was missing   *)
(* or cloned and planted all, and whatever ran beside it.                  *)
THEOREM AppliesAsAsked == Spec => [][\A r \in Applies : AsAsked(r)]_vars
<1>1. Spec => []AskedInv
  <2>1. IInv /\ AskedInv /\ [Next]_vars => AskedInv'
    BY AskedStep DEF IInv, AskedInv, vars
  <2>2. QED
    BY InitAskedInv, AlwaysIInv, <2>1, PTL DEF Spec
<1>2. IInv /\ AskedInv /\ [Next]_vars => [\A r \in Applies : AsAsked(r)]_vars
  BY AskedStep DEF IInv
<1>3. QED
  BY <1>1, <1>2, AlwaysIInv, PTL DEF Spec
=============================================================================
