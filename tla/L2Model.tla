------------------------------- MODULE L2Model -------------------------------
(***************************************************************************)
(* An L2 instance as common/l2/validate.py and common/l2/editor.py see it: *)
(* accounts, account templates, rails, transfer templates, chains and      *)
(* limit schedules that refer to each other by name.  The rules of the     *)
(* validator that speak of names and of how rails are reconciled, the      *)
(* editor's replace, rename, attach and remove, and the references the     *)
(* Delete button looks at (common/html/_delete_confirm.py).                *)
(*                                                                         *)
(* An entity has an identity (its position, which no code sees) and the    *)
(* names it carries, which is all the code sees.  Data that refers to      *)
(* nothing is left out, and so are the rules about it (U1, R12, R13, C8b,  *)
(* C8c, the cadence, V1, V2, W1, O1, M1).  An account's identity is its    *)
(* id, which no save of the model changes.                                 *)
(***************************************************************************)
EXTENDS Naturals, Sequences, FiniteSets

CONSTANTS
  Accts, ATpls, Rails, Tpls, Chains, Limits,  \* identities
  Names,                                      \* roles, names of rails, templates
  NoName,                                     \* None
  IdFormats,                                  \* values of `instance_id_template`
  Generated(_, _), \* the account ids a format makes of a role
  Digest(_, _)     \* the six hex digits of a key, by kind

ASSUME NoNameAssumption == NoName \notin Names

AcctRec  == [role : Names, parent : Names \cup {NoName}]
ATplRec  == [role : Names, parent : Names \cup {NoName}, format : IdFormats]
(* A BundleSelector: a name, or the leg `name` of the template `of`.       *)
Selector == [of : Names \cup {NoName}, name : Names]
(* `single`: a single-leg rail; `net`: expected_net; `watch`:              *)
(* max_unbundled_age.                                                      *)
RailRec  == [name : Names, single : BOOLEAN, roles : SUBSET Names,
             variable : BOOLEAN, aggregating : BOOLEAN,
             bundles : SUBSET Selector, net : BOOLEAN, watch : BOOLEAN]
TplRec   == [name : Names, legs : SUBSET Names, groups : SUBSET SUBSET Names]
ChainRec == [parent : Names, children : Seq([name : Names, fanIn : BOOLEAN])]
LimitRec == [parent : Names, rail : Names, inbound : BOOLEAN]

Kinds == {"acct", "atpl", "rail", "tpl", "chain", "limit"}

Ids == [acct |-> Accts, atpl |-> ATpls, rail |-> Rails, tpl |-> Tpls,
        chain |-> Chains, limit |-> Limits]
Rec == [acct |-> AcctRec, atpl |-> ATplRec, rail |-> RailRec, tpl |-> TplRec,
        chain |-> ChainRec, limit |-> LimitRec]

(* A function from some of the identities of each kind to its records.     *)
IsInstance(i) ==
  /\ i = [kind \in Kinds |-> i[kind]]
  /\ \A kind \in Kinds : /\ DOMAIN i[kind] \subseteq Ids[kind]
                          /\ i[kind] \in [DOMAIN i[kind] -> Rec[kind]]

Bare(n) == [of |-> NoName, name |-> n]

-----------------------------------------------------------------------------
(* Who carries a name. *)
AcctRoles(i) == {i.acct[a].role : a \in DOMAIN i.acct}
TplRoles(i)  == {i.atpl[t].role : t \in DOMAIN i.atpl}
Roles(i)     == AcctRoles(i) \cup TplRoles(i)
RailNames(i) == {i.rail[r].name : r \in DOMAIN i.rail}
TplNames(i)  == {i.tpl[t].name : t \in DOMAIN i.tpl}
Endpoints(i) == RailNames(i) \cup TplNames(i)

(* Where names are used. *)
Legs(i)        == UNION {i.tpl[t].legs : t \in DOMAIN i.tpl}
Aggregators(i) == {r \in DOMAIN i.rail : i.rail[r].aggregating}
Bundles(i)     == UNION {i.rail[r].bundles : r \in Aggregators(i)}
ChildNames(c)  == {c.children[k].name : k \in DOMAIN c.children}

-----------------------------------------------------------------------------
(* The rules, by the validator's own labels. *)
U2(i) == \A s, t \in DOMAIN i.atpl : i.atpl[s].role = i.atpl[t].role => s = t
U3(i) == \A r, s \in DOMAIN i.rail : i.rail[r].name = i.rail[s].name => r = s
U4(i) == \A s, t \in DOMAIN i.tpl : i.tpl[s].name = i.tpl[t].name => s = t
U5(i) == \A l, m \in DOMAIN i.limit : i.limit[l] = i.limit[m] => l = m
(* The ids a template will be given accounts under, `{role}` in its format *)
(* filled in, are the ids of no declared account.                          *)
U7(i) == \A t \in DOMAIN i.atpl :
           Generated(i.atpl[t].format, i.atpl[t].role) \cap DOMAIN i.acct = {}

R1(i) == \A r \in DOMAIN i.rail : i.rail[r].roles \subseteq Roles(i)
R2(i) == \A a \in DOMAIN i.acct : i.acct[a].parent \in Roles(i) \cup {NoName}
R3(i) == \A t \in DOMAIN i.atpl : i.atpl[t].parent \in AcctRoles(i) \cup {NoName}
R4(i) == \A t \in DOMAIN i.tpl :
           i.tpl[t].legs # {} /\ i.tpl[t].legs \subseteq RailNames(i)
R5(i) == \A c \in DOMAIN i.chain :
           {i.chain[c].parent} \cup ChildNames(i.chain[c]) \subseteq Endpoints(i)
R6(i) == \A l \in DOMAIN i.limit : i.limit[l].parent \in Roles(i)
R7(i) == \A r \in Aggregators(i) : i.rail[r].name \notin Legs(i)
R8(i) == \A r \in DOMAIN i.rail :
           i.rail[r].watch => i.rail[r].name \in {b.name : b \in Bundles(i)}
(* Mutant of R9: a leg of any template will do. *)
R9AnyTpl(i) == \A b \in Bundles(i) : b.of # NoName =>
                 \E t \in DOMAIN i.tpl : b.name \in i.tpl[t].legs
R9(i) == \A b \in Bundles(i) : b.of # NoName =>
           \E t \in DOMAIN i.tpl : i.tpl[t].name = b.of /\ b.name \in i.tpl[t].legs
R10(i) == \A l \in DOMAIN i.limit : i.limit[l].rail \in RailNames(i)
R11(i) == \A b \in Bundles(i) : b.of = NoName => b.name \in RailNames(i)

Variables(i) == {i.rail[r].name :
                   r \in {s \in DOMAIN i.rail : i.rail[s].single /\ i.rail[s].variable}}
C1(i) == \A t \in DOMAIN i.tpl :
           \A m, n \in (i.tpl[t].legs \cap Variables(i)) \ UNION i.tpl[t].groups : m = n
C1abc(i) == \A t \in DOMAIN i.tpl : \A g \in i.tpl[t].groups :
              /\ g \subseteq i.tpl[t].legs \cap Variables(i)
              /\ \A h \in i.tpl[t].groups : g = h \/ g \cap h = {}
C1d(i) == \A t \in DOMAIN i.tpl : \A g \in i.tpl[t].groups : \E m, n \in g : m # n
C3(i) == Variables(i) \subseteq Legs(i)
C5(i) == \A c \in DOMAIN i.chain : i.chain[c].children # <<>>
(* Mutant of C6: children are compared within their row only. *)
C6InRow(i) == \A c \in DOMAIN i.chain : \A k, m \in DOMAIN i.chain[c].children :
                i.chain[c].children[k].name = i.chain[c].children[m].name => k = m
C6(i) == \A c, d \in DOMAIN i.chain : i.chain[c].parent = i.chain[d].parent =>
           \A k \in DOMAIN i.chain[c].children, m \in DOMAIN i.chain[d].children :
             i.chain[c].children[k].name = i.chain[d].children[m].name
             => c = d /\ k = m
C8a(i) == \A c \in DOMAIN i.chain : \A k \in DOMAIN i.chain[c].children :
            i.chain[c].children[k].fanIn => i.chain[c].children[k].name \in TplNames(i)

S12(i) == \A r \in DOMAIN i.rail : ~i.rail[r].single =>
            (i.rail[r].net <=> i.rail[r].name \notin Legs(i))
S3(i) == \A r \in DOMAIN i.rail : i.rail[r].single /\ ~i.rail[r].aggregating =>
           \/ i.rail[r].name \in Legs(i)
           \/ Bare(i.rail[r].name) \in Bundles(i)
S4(i) == \A c \in DOMAIN i.chain : \A r \in Aggregators(i) :
           i.rail[r].name \notin ChildNames(i.chain[c])
S56(i) == \A r \in DOMAIN i.rail : i.rail[r].aggregating <=> i.rail[r].bundles # {}

(* `validate` raises on the first rule broken. *)
Valid(i) ==
  /\ U2(i) /\ U3(i) /\ U4(i) /\ U5(i) /\ U7(i)
  /\ R1(i) /\ R2(i) /\ R3(i) /\ R4(i) /\ R5(i) /\ R6(i)
  /\ R7(i) /\ R8(i) /\ R9(i) /\ R10(i) /\ R11(i)
  /\ C1(i) /\ C1abc(i) /\ C1d(i) /\ C3(i) /\ C5(i) /\ C6(i) /\ C8a(i)
  /\ S12(i) /\ S3(i) /\ S4(i) /\ S56(i)

-----------------------------------------------------------------------------
(* The editor's operations return a new instance. *)

(* `mutate_l2`, and `create_l2_entity` for an identity that is free.       *)
Put(i, kind, id, rec) ==
  [i EXCEPT ![kind] = [e \in DOMAIN @ \cup {id} |-> IF e = id THEN rec ELSE @[e]]]

(* `delete_l2_entity` *)
Without(i, kind, id) ==
  [i EXCEPT ![kind] = [e \in DOMAIN @ \ {id} |-> @[e]]]

Sub(n, old, new) == IF n = old THEN new ELSE n
SubAll(S, old, new) == {Sub(n, old, new) : n \in S}

(* A string is rewritten only when it equals the old name, so a selector   *)
(* with a dot never is.                                                    *)
SubBare(B, old, new) == {IF b = Bare(old) THEN Bare(new) ELSE b : b \in B}

(* An account or an account template. *)
RenamedHolder(h, old, new) ==
  [h EXCEPT !.role = Sub(@, old, new), !.parent = Sub(@, old, new)]

RenameRole(i, old, new) ==
  [i EXCEPT
    !.acct = [a \in DOMAIN i.acct |-> RenamedHolder(i.acct[a], old, new)],
    !.atpl = [t \in DOMAIN i.atpl |-> RenamedHolder(i.atpl[t], old, new)],
    !.rail = [r \in DOMAIN i.rail |->
                [i.rail[r] EXCEPT !.roles = SubAll(@, old, new)]],
    !.limit = [l \in DOMAIN i.limit |->
                 [i.limit[l] EXCEPT !.parent = Sub(@, old, new)]]]

(* Mutant of RenamedChain: the parent is forgotten. *)
RenamedChildren(c, old, new) ==
  [c EXCEPT !.children = [k \in DOMAIN c.children |->
                            [c.children[k] EXCEPT !.name = Sub(@, old, new)]]]

(* Mutant of RenamedChain: the children are made anew. *)
RenamedFresh(c, old, new) ==
  [parent |-> Sub(c.parent, old, new),
   children |-> [k \in DOMAIN c.children |->
                   [name |-> Sub(c.children[k].name, old, new), fanIn |-> FALSE]]]

RenamedChain(c, old, new) ==
  [parent |-> Sub(c.parent, old, new),
   children |-> [k \in DOMAIN c.children |->
                   [c.children[k] EXCEPT !.name = Sub(@, old, new)]]]

RenamedRail(r, old, new) ==
  IF r.name = old THEN [r EXCEPT !.name = new]
  ELSE [r EXCEPT !.bundles = SubBare(@, old, new)]

RenameRail(i, old, new) ==
  [i EXCEPT
    !.rail = [r \in DOMAIN i.rail |-> RenamedRail(i.rail[r], old, new)],
    !.tpl = [t \in DOMAIN i.tpl |-> [i.tpl[t] EXCEPT !.legs = SubAll(@, old, new)]],
    !.chain = [c \in DOMAIN i.chain |-> RenamedChain(i.chain[c], old, new)]]

RenameTpl(i, old, new) ==
  [i EXCEPT
    !.rail = [r \in DOMAIN i.rail |->
                [i.rail[r] EXCEPT !.bundles = SubBare(@, old, new)]],
    !.tpl = [t \in DOMAIN i.tpl |-> [i.tpl[t] EXCEPT !.name = Sub(@, old, new)]],
    !.chain = [c \in DOMAIN i.chain |-> RenamedChain(i.chain[c], old, new)]]

(* `rename_identifier` *)
Rename(i, kind, old, new) ==
  CASE kind \in {"acct", "atpl"}   -> RenameRole(i, old, new)
    [] kind = "rail"               -> RenameRail(i, old, new)
    [] kind = "tpl"                -> RenameTpl(i, old, new)
    [] kind \in {"chain", "limit"} -> i

(* `_rename_trigger_field`: the name whose change cascades. *)
Trigger(kind, rec) ==
  CASE kind \in {"acct", "atpl"}   -> rec.role
    [] kind \in {"rail", "tpl"}    -> rec.name
    [] kind \in {"chain", "limit"} -> NoName

(* The save handler: replace the entity, then rewrite the references when  *)
(* its name is another than before.                                        *)
Saved(i, kind, id, rec) ==
  LET old == Trigger(kind, i[kind][id])
      new == Trigger(kind, rec)
  IN  IF old = new THEN Put(i, kind, id, rec)
      ELSE Rename(Put(i, kind, id, rec), kind, old, new)

(* The key an entity is addressed by in `_find_entity` and in a token.  A  *)
(* chain's or a limit schedule's is a string put together of names, which  *)
(* hold neither a comma nor a double colon.                                *)
Key(i, kind, id) ==
  CASE kind = "acct"  -> id
    [] kind = "atpl"  -> i.atpl[id].role
    [] kind = "rail"  -> i.rail[id].name
    [] kind = "tpl"   -> i.tpl[id].name
    [] kind = "chain" -> <<i.chain[id].parent, ChildNames(i.chain[id])>>
    [] kind = "limit" -> i.limit[id]

(* The key in a URL: of chains and limit schedules its digest alone counts *)
(* (`_url_entity_id`); the slug behind it is decoration.                   *)
Opaque == {"chain", "limit"}

(* Mutant of Address: every kind is addressed as accounts are. *)
AddressById(i, kind, id) == id

Address(i, kind, id) ==
  IF kind \in Opaque THEN Digest(kind, Key(i, kind, id)) ELSE Key(i, kind, id)

(* `_resolve_url_entity_id` returns the first entity that matches: any of  *)
(* these, as the order of a collection is not modelled.                    *)
Found(i, kind, url) == {id \in DOMAIN i[kind] : Address(i, kind, id) = url}

(* `attach_rail_to_reconciler`: the template and the groups the form may   *)
(* bring along (only those that C1abc and C1d accept are enumerated), or   *)
(* the rails an aggregating rail bundles.                                  *)
Groups(legs) == {g \in SUBSET legs : \E m, n \in g : m # n}
Regroupings(i, t, n) ==
  {i.tpl[t].groups} \cup SUBSET Groups((i.tpl[t].legs \cup {n}) \cap Variables(i))
AttachedToTpl(i, n) ==
  UNION {{Put(i, "tpl", t, [i.tpl[t] EXCEPT !.legs = @ \cup {n}, !.groups = gs]) :
            gs \in Regroupings(i, t, n)} : t \in DOMAIN i.tpl}
AttachedToRail(i, n) ==
  {Put(i, "rail", r, [i.rail[r] EXCEPT !.bundles = @ \cup {Bare(n)}]) :
     r \in Aggregators(i)}
Attached(i, n) == AttachedToTpl(i, n) \cup AttachedToRail(i, n)

(* A rail that must be paired with a reconciler when it is created. *)
NeedsReconciler(rec) ==
  IF rec.single THEN ~rec.aggregating ELSE ~rec.net

-----------------------------------------------------------------------------
(* `find_references`: what disables the Delete button. *)
RoleUsed(i, n, kind, id) ==
  \/ \E a \in DOMAIN i.acct : i.acct[a].parent = n /\ <<kind, id>> # <<"acct", a>>
  \/ \E t \in DOMAIN i.atpl : i.atpl[t].parent = n /\ <<kind, id>> # <<"atpl", t>>
  \/ \E r \in DOMAIN i.rail : n \in i.rail[r].roles
  \/ \E l \in DOMAIN i.limit : i.limit[l].parent = n

(* Mutant of ChainUsed: children are not looked at. *)
ChainParentUsed(i, n) == \E c \in DOMAIN i.chain : n = i.chain[c].parent

ChainUsed(i, n) ==
  \E c \in DOMAIN i.chain : n = i.chain[c].parent \/ n \in ChildNames(i.chain[c])

RailUsed(i, n, id) ==
  \/ n \in Legs(i)
  \/ \E r \in DOMAIN i.rail \ {id} : Bare(n) \in i.rail[r].bundles
  \/ ChainUsed(i, n)
  \/ \E l \in DOMAIN i.limit : i.limit[l].rail = n

Referenced(i, kind, id) ==
  CASE kind = "acct" ->
         /\ \A a \in DOMAIN i.acct \ {id} : i.acct[a].role # i.acct[id].role
         /\ i.acct[id].role \notin TplRoles(i)
         /\ RoleUsed(i, i.acct[id].role, kind, id)
    [] kind = "atpl" ->
         /\ i.atpl[id].role \notin AcctRoles(i)
         /\ RoleUsed(i, i.atpl[id].role, kind, id)
    [] kind = "rail" -> RailUsed(i, i.rail[id].name, id)
    [] kind = "tpl"  -> ChainUsed(i, i.tpl[id].name)
    [] kind \in {"chain", "limit"} -> FALSE
=============================================================================
