---------------------------- MODULE StudioEditor ----------------------------
(***************************************************************************)
(* The L2 editor of Studio (common/html/_studio_editor_routes.py over      *)
(* common/l2/cache.py) and the trainer's knobs with their sidefile         *)
(* (common/l2/tg_cache.py, common/l2/studio_state.py).  Every handler that *)
(* changes something does so after its last await, so it is one step; what *)
(* goes stale is what a browser tab shows, and a Delete that was confirmed.*)
(*                                                                         *)
(* `cache.save` replaces the file and then the instance in memory, in one  *)
(* tick of the event loop: a crash before the rename of the file is no     *)
(* save and one after it is a save and a restart, so `inst` is both.       *)
(***************************************************************************)
EXTENDS L2Model

CONSTANTS
  Start,          \* the instance Studio is started on
  Cfg,            \* the knobs without a sidefile: of the configuration
  Offered(_, _),  \* what the operator may post from a form, by kind and
                  \* the record the form was filled with
  NewRecs,        \* what the operator may create, by kind
  KnobValues,     \* what the operator may set a knob to, by knob
  MaxOps,         \* bound on changes of one behaviour
  MaxFaults       \* bound on failed writes and restarts

KnobNames == {"only_template", "etl_hook"}
IsKnobs(k) ==
  /\ k = [n \in KnobNames |-> k[n]]
  /\ k["only_template"] \in Names \cup {NoName}
  /\ k["etl_hook"] \in BOOLEAN

IsKnobSets(f) ==
  /\ f = [n \in KnobNames |-> f[n]]
  /\ f["only_template"] \subseteq Names \cup {NoName}
  /\ f["etl_hook"] \subseteq BOOLEAN

ASSUME StartAssumption == IsInstance(Start) /\ Valid(Start)
ASSUME CfgAssumption == IsKnobs(Cfg)
ASSUME KnobValuesAssumption == IsKnobSets(KnobValues)
ASSUME BoundsAssumption == MaxOps \in Nat /\ MaxFaults \in Nat

VARIABLES
  inst,    \* `L2InstanceCache._instance`, and the L2 file
  page,    \* the instance some open tab was rendered from
  token,   \* the confirm token of a pending Delete: at most one
  knob,    \* `TestGeneratorCache`: two of its knobs
  side,    \* the sidefile: by knob, its value in it if any
  ops, faults,
  \* history, for properties only
  told,    \* the knobs as the operator was last told
  tried,   \* values whose write failed since the knob was last written
  last     \* the save just made

vars == <<inst, page, token, knob, side, ops, faults, told, tried, last>>
l2    == <<inst, page, token>>
knobs == <<knob, side, told, tried>>

NoSave == [kind |-> "none"]
(* Bounds: a page or a token is of no use after the last change. *)
More == ops < MaxOps
Op   == More /\ ops' = ops + 1

Init ==
  /\ inst = Start /\ page = Start /\ token = {}
  /\ knob = Cfg /\ side = [k \in KnobNames |-> {}]
  /\ ops = 0 /\ faults = 0
  /\ told = Cfg /\ tried = [k \in KnobNames |-> {}]
  /\ last = NoSave

-----------------------------------------------------------------------------
(* The editor. *)

(* GET of any page; the other tabs keep what they show. *)
LoadPage ==
  /\ More
  /\ page # inst /\ page' = inst
  /\ last' = NoSave
  /\ UNCHANGED <<inst, token, knobs, ops, faults>>

(* Mutant of Write: validation forgotten. *)
WriteUnchecked(new) ==
  /\ Op
  /\ inst' = new
  /\ UNCHANGED <<page, knobs, faults>>

(* Nothing is written that `validate` refuses. *)
Write(new) ==
  /\ Op /\ Valid(new)
  /\ inst' = new
  /\ UNCHANGED <<page, knobs, faults>>

(* POST /l2_shape/<kind>/<url>: the entity is looked up by what the URL of *)
(* the tab's form says, and its fields are posted as a whole.  The URL is  *)
(* resolved before the form is awaited and its key looked up again after   *)
(* that, which finds an entity that matches the URL still, or none.        *)
Save(kind, id, rec) ==
  LET shown == page[kind][id]
  IN  \E hit \in Found(inst, kind, Address(page, kind, id)) :
        /\ Write(Saved(inst, kind, hit, rec))
        /\ last' = [kind |-> kind, hit |-> hit, shown |-> Trigger(kind, shown),
                    was |-> Trigger(kind, inst[kind][hit]),
                    posted |-> Trigger(kind, rec)]
        /\ UNCHANGED token

(* POST /l2_shape/<kind>/ of any kind but a rail that needs a reconciler.  *)
Create(kind, id, rec) ==
  /\ kind = "rail" => ~NeedsReconciler(rec)
  /\ Write(Put(inst, kind, id, rec))
  /\ last' = NoSave
  /\ UNCHANGED token

(* The rail and its attachment to a reconciler, in one save. *)
CreateAttached(id, rec) ==
  /\ NeedsReconciler(rec)
  /\ \E new \in Attached(Put(inst, "rail", id, rec), rec.name) : Write(new)
  /\ last' = NoSave
  /\ UNCHANGED token

(* The same with a reconciler of its own, created by the same form. *)
CreatePaired(id, rec) ==
  /\ NeedsReconciler(rec)
  /\ LET with == Put(inst, "rail", id, rec)
     IN  \/ \E t \in Tpls \ DOMAIN inst.tpl, new \in NewRecs.tpl \cap TplRec :
              Write(Put(with, "tpl", t, [new EXCEPT !.legs = @ \cup {rec.name}]))
         \/ \E r \in Rails \ DOMAIN with.rail, new \in NewRecs.rail \cap RailRec :
              Write(Put(with, "rail", r,
                        [new EXCEPT !.aggregating = TRUE,
                                    !.bundles = @ \cup {Bare(rec.name)}]))
  /\ last' = NoSave
  /\ UNCHANGED token

(* GET .../delete-confirm: the signed token names a kind and a key. *)
Confirm(kind, id) ==
  /\ More
  /\ ~Referenced(inst, kind, id)
  /\ token' = {<<kind, Key(inst, kind, id)>>}
  /\ token' # token
  /\ last' = NoSave
  /\ UNCHANGED <<inst, page, knobs, ops, faults>>

(* DELETE with the token, its countdown over: it does not wear out. *)
Delete(kind) ==
  /\ \E id \in DOMAIN inst[kind] :
       /\ <<kind, Key(inst, kind, id)>> \in token
       /\ Write(Without(inst, kind, id))
  /\ last' = NoSave
  /\ UNCHANGED token

-----------------------------------------------------------------------------
(* The knobs. *)

(* Mutant of Snapshot: only the newer knob is written. *)
SnapshotHook(k) == [n \in KnobNames |-> IF n = "etl_hook" THEN {k[n]} ELSE {}]

(* The snapshot leaves out what is None. *)
Snapshot(k) ==
  [n \in KnobNames |-> IF n = "etl_hook" THEN {k[n]} ELSE {k[n]} \ {NoName}]

(* `update_only_template`, `set_etl_hook_enabled`: memory first.  Any name *)
(* is taken, also one of no template.                                      *)
SetKnob(k, v) ==
  /\ Op
  /\ knob' = [knob EXCEPT ![k] = v]
  /\ side' = Snapshot(knob')
  /\ told' = [told EXCEPT ![k] = v]
  /\ tried' = [tried EXCEPT ![k] = {}]
  /\ last' = NoSave
  /\ UNCHANGED <<l2, faults>>

(* The sidefile cannot be written and the handler raises. *)
SetKnobFails(k, v) ==
  /\ Op /\ faults < MaxFaults /\ faults' = faults + 1
  /\ knob' = [knob EXCEPT ![k] = v]
  /\ tried' = [tried EXCEPT ![k] = @ \cup {v}]
  /\ last' = NoSave
  /\ UNCHANGED <<l2, side, told>>

(* `merge_into_test_generator`: what the sidefile lacks is configuration.  *)
Merged(k) == IF side[k] = {} THEN Cfg[k] ELSE CHOOSE v \in side[k] : TRUE

(* Studio is started again: the instance comes from its file, and tokens   *)
(* are signed with a new secret.                                           *)
Restart ==
  /\ faults < MaxFaults /\ faults' = faults + 1
  /\ knob' = [k \in KnobNames |-> Merged(k)]
  /\ token' = {}
  /\ <<knob, token>>' # <<knob, token>>
  /\ last' = NoSave
  /\ UNCHANGED <<inst, page, side, ops, told, tried>>

-----------------------------------------------------------------------------
Next ==
  \/ LoadPage
  \/ \E kind \in Kinds : \E id \in DOMAIN page[kind] :
       \E rec \in Offered(kind, page[kind][id]) \cap Rec[kind] : Save(kind, id, rec)
  \/ \E kind \in Kinds : \E id \in Ids[kind] \ DOMAIN inst[kind] :
       \E rec \in NewRecs[kind] \cap Rec[kind] : Create(kind, id, rec)
  \/ \E id \in Rails \ DOMAIN inst.rail : \E rec \in NewRecs.rail \cap RailRec :
       CreateAttached(id, rec) \/ CreatePaired(id, rec)
  \/ \E kind \in Kinds : \E id \in DOMAIN inst[kind] : Confirm(kind, id)
  \/ \E kind \in Kinds : Delete(kind)
  \/ \E k \in KnobNames : \E v \in KnobValues[k] :
       SetKnob(k, v) \/ SetKnobFails(k, v)
  \/ Restart

Spec == Init /\ [][Next]_vars

-----------------------------------------------------------------------------
TypeOK ==
  /\ IsInstance(inst) /\ IsInstance(page)
  /\ Valid(inst)
  /\ IsKnobs(knob) /\ IsKnobs(told)
  /\ IsKnobSets(side) /\ IsKnobSets(tried)
  /\ ops \in 0..MaxOps /\ faults \in 0..MaxFaults

(* Two entities of a kind are never addressed alike, so a form or a token  *)
(* never hits one of two: for chains this rests on C5 and C6, for limit    *)
(* schedules on U5.  The exception is a digest that two different keys of  *)
(* chains or of limit schedules share: a form then silently hits whichever *)
(* comes first.                                                            *)
KeysUnique ==
  \A kind \in Kinds : \A d, e \in DOMAIN inst[kind] :
    Address(inst, kind, d) = Address(inst, kind, e)
      => \/ d = e
         \/ kind \in Opaque /\ Key(inst, kind, d) # Key(inst, kind, e)

-----------------------------------------------------------------------------
(* What every reference resolves to. *)
RoleHolders(i, n) == {<<"acct", a>> : a \in {b \in DOMAIN i.acct : i.acct[b].role = n}}
                \cup {<<"atpl", t>> : t \in {s \in DOMAIN i.atpl : i.atpl[s].role = n}}
RailHolders(i, n) == {<<"rail", r>> : r \in {s \in DOMAIN i.rail : i.rail[s].name = n}}
TplHolders(i, n)  == {<<"tpl", t>> : t \in {s \in DOMAIN i.tpl : i.tpl[s].name = n}}
NameHolders(i, n) == RailHolders(i, n) \cup TplHolders(i, n)

Graph(i) ==
  [acct  |-> [a \in DOMAIN i.acct |-> RoleHolders(i, i.acct[a].parent)],
   atpl  |-> [t \in DOMAIN i.atpl |-> RoleHolders(i, i.atpl[t].parent)],
   roles |-> [r \in DOMAIN i.rail |-> {RoleHolders(i, n) : n \in i.rail[r].roles}],
   swept |-> [r \in DOMAIN i.rail |->
                {<<TplHolders(i, b.of), NameHolders(i, b.name)>> : b \in i.rail[r].bundles}],
   legs  |-> [t \in DOMAIN i.tpl |-> {RailHolders(i, n) : n \in i.tpl[t].legs}],
   xor   |-> [t \in DOMAIN i.tpl |->
                {{RailHolders(i, n) : n \in g} : g \in i.tpl[t].groups}],
   chain |-> [c \in DOMAIN i.chain |->
                <<NameHolders(i, i.chain[c].parent),
                  [k \in DOMAIN i.chain[c].children |->
                     NameHolders(i, i.chain[c].children[k].name)]>>],
   limit |-> [l \in DOMAIN i.limit |-> <<RoleHolders(i, i.limit[l].parent),
                                         RailHolders(i, i.limit[l].rail)>>]]

(* A save of the entity's own form with nothing changed but its name. *)
Retitled(kind, rec, n) ==
  IF kind \in {"acct", "atpl"} THEN [rec EXCEPT !.role = n]
                               ELSE [rec EXCEPT !.name = n]
Renamed(i, kind, id, n) == Saved(i, kind, id, Retitled(kind, i[kind][id], n))

Used(i) == Roles(i) \cup Endpoints(i)
Namesakes(i) == RailNames(i) \cap TplNames(i)

Named == {"acct", "atpl", "rail", "tpl"}
Renamable(i) ==
  UNION {{<<kind, id>> : id \in {e \in DOMAIN i[kind] :
                                  Trigger(kind, i[kind][e]) \notin Namesakes(i)}} :
           kind \in Named}

(* A rename to a name nobody has, when it is accepted, leaves every        *)
(* reference of the model pointing where it pointed.  Not claimed of a     *)
(* rail and a transfer template that share a name: they share the          *)
(* references in chains, and a rename takes them all.                      *)
RenameKeepsGraph ==
  LET now == Graph(inst)
  IN  \A e \in Renamable(inst), n \in Names \ Used(inst) :
        LET new == Renamed(inst, e[1], e[2], n)
        IN  Valid(new) => Graph(new) = now

(* The references `rename_identifier` does not rewrite though the          *)
(* validator resolves them, and the ids a template's format would make of  *)
(* its new role.                                                           *)
Blocked(i, kind, id, new) ==
  LET n == Trigger(kind, i[kind][id])
  IN  \/ kind = "rail" /\ \/ \E t \in DOMAIN i.tpl : n \in UNION i.tpl[t].groups
                          \/ \E l \in DOMAIN i.limit : i.limit[l].rail = n
                          \/ \E b \in Bundles(i) : b.of # NoName /\ b.name = n
      \/ kind = "tpl" /\ \E b \in Bundles(i) : b.of = n
      \/ kind \in {"acct", "atpl"} /\ \E t \in DOMAIN i.atpl :
           /\ i.atpl[t].role = n
           /\ Generated(i.atpl[t].format, new) \cap DOMAIN i.acct # {}

(* Of the rules of L2Model, a rename to a name nobody has breaks one       *)
(* exactly when the name is in an XOR group, a limit schedule or a dotted  *)
(* selector, which the cascade leaves alone against the docstring of       *)
(* `rename_identifier`, or when a template of the role would generate the  *)
(* id of a declared account: the cascade breaks nothing else.              *)
RenameRefusals ==
  \A e \in Renamable(inst), n \in Names \ Used(inst) :
    Valid(Renamed(inst, e[1], e[2], n)) <=> ~Blocked(inst, e[1], e[2], n)

(* An accepted rename to a name nobody has is undone by renaming back:     *)
(* nothing but the name was rewritten, and no two names were made one.     *)
RenameUndone ==
  \A e \in Renamable(inst), n \in Names \ Used(inst) :
    LET new == Renamed(inst, e[1], e[2], n)
    IN  Valid(new)
          => Renamed(new, e[1], e[2], Trigger(e[1], inst[e[1]][e[2]])) = inst

(* A form whose name field was left as the tab showed it changes one       *)
(* entity and nothing else, however old the tab: a renamed entity is no    *)
(* longer found under its key.  Accounts are found by id: a form from      *)
(* before a rename of their role renames it back.                          *)
UntouchedRenamesNothing ==
  [][last'.kind # "none" /\ last'.posted = last'.shown
     /\ (last'.kind = "acct" => last'.shown = last'.was)
     => inst' = Put(inst, last'.kind, last'.hit, inst'[last'.kind][last'.hit])]_vars

-----------------------------------------------------------------------------
(* Removing the entity would leave a rail with no reconciler, or a         *)
(* selector with no template, or a template under no standalone account.   *)
LeavesUnreconciled(i, kind, id) ==
  LET new == Without(i, kind, id)
  IN  \/ kind = "tpl" /\ ~(S12(new) /\ S3(new) /\ C3(new) /\ R9(new))
      \/ kind = "rail" /\ ~(S3(new) /\ R8(new))
      \/ kind = "acct" /\ ~R3(new)

(* The Delete button is disabled only for what the validator would refuse, *)
(* and an enabled one is refused only for what it does not look at.        *)
DeleteButtonHonest ==
  \A kind \in Kinds : \A id \in DOMAIN inst[kind] :
    LET accepted == Valid(Without(inst, kind, id))
    IN  /\ Referenced(inst, kind, id) =>
             ~accepted \/ Trigger(kind, inst[kind][id]) \in Namesakes(inst)
        /\ ~Referenced(inst, kind, id) =>
             accepted \/ LeavesUnreconciled(inst, kind, id)

-----------------------------------------------------------------------------
(* Across restarts a knob is what the operator was last told, or a value   *)
(* whose write had failed, or, when one of these was to clear it, the      *)
(* configuration's.                                                        *)
KnobsAsTold ==
  \A k \in KnobNames :
    LET meant == {told[k]} \cup tried[k]
    IN  \/ knob[k] \in meant
        \/ k = "only_template" /\ NoName \in meant /\ knob[k] = Cfg[k]
=============================================================================
