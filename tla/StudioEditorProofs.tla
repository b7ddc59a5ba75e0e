-------------------------- MODULE StudioEditorProofs --------------------------
(***************************************************************************)
(* The invariants and the action property of StudioEditor, for every       *)
(* instance, every form and every bound.                                   *)
(***************************************************************************)
EXTENDS StudioEditor, SequenceTheorems, TLAPS

-----------------------------------------------------------------------------
(* The editor's operations keep an instance an instance. *)

LEMMA KindsAre ==
  ASSUME NEW kind \in Kinds
  PROVE  \/ kind = "acct" \/ kind = "atpl" \/ kind = "rail"
         \/ kind = "tpl" \/ kind = "chain" \/ kind = "limit"
BY DEF Kinds

(* Replacing what one kind holds. *)
LEMMA ReplaceKind ==
  ASSUME NEW i, IsInstance(i), NEW kind \in Kinds, NEW f,
         DOMAIN f \subseteq Ids[kind], f \in [DOMAIN f -> Rec[kind]]
  PROVE  IsInstance([i EXCEPT ![kind] = f])
<1> DEFINE j == [i EXCEPT ![kind] = f]
<1>1. i = [k \in Kinds |-> i[k]]
  BY DEF IsInstance
<1>2. j[kind] = f /\ \A k \in Kinds \ {kind} : j[k] = i[k]
  BY <1>1
<1>3. j = [k \in Kinds |-> j[k]]
  BY <1>1
<1>4. ASSUME NEW k \in Kinds
      PROVE  DOMAIN j[k] \subseteq Ids[k] /\ j[k] \in [DOMAIN j[k] -> Rec[k]]
  <2>1. CASE k = kind
    BY <1>2, <2>1
  <2>2. CASE k # kind
    BY <1>2, <2>2 DEF IsInstance
  <2> QED BY <2>1, <2>2
<1> QED BY <1>3, <1>4 DEF IsInstance

LEMMA PutIsInstance ==
  ASSUME NEW i, IsInstance(i), NEW kind \in Kinds, NEW id \in Ids[kind],
         NEW rec \in Rec[kind]
  PROVE  /\ IsInstance(Put(i, kind, id, rec))
         /\ Put(i, kind, id, rec)[kind][id] = rec
         /\ id \in DOMAIN Put(i, kind, id, rec)[kind]
<1> DEFINE f == [e \in DOMAIN i[kind] \cup {id} |->
                   IF e = id THEN rec ELSE i[kind][e]]
<1>1. DOMAIN i[kind] \subseteq Ids[kind] /\ i[kind] \in [DOMAIN i[kind] -> Rec[kind]]
  BY DEF IsInstance
<1>2. DOMAIN f \subseteq Ids[kind] /\ f \in [DOMAIN f -> Rec[kind]]
  BY <1>1
<1>3. Put(i, kind, id, rec) = [i EXCEPT ![kind] = f]
  BY DEF Put, IsInstance
<1>4. i = [k \in Kinds |-> i[k]]
  BY DEF IsInstance
<1>5. Put(i, kind, id, rec)[kind] = f
  BY <1>3, <1>4
<1>6. f[id] = rec /\ id \in DOMAIN f
  OBVIOUS
<1>7. IsInstance([i EXCEPT ![kind] = f])
  BY <1>2, ReplaceKind
<1> QED BY <1>3, <1>5, <1>6, <1>7

LEMMA WithoutIsInstance ==
  ASSUME NEW i, IsInstance(i), NEW kind \in Kinds, NEW id
  PROVE  IsInstance(Without(i, kind, id))
<1> DEFINE f == [e \in DOMAIN i[kind] \ {id} |-> i[kind][e]]
<1>1. DOMAIN i[kind] \subseteq Ids[kind] /\ i[kind] \in [DOMAIN i[kind] -> Rec[kind]]
  BY DEF IsInstance
<1>2. DOMAIN f \subseteq Ids[kind] /\ f \in [DOMAIN f -> Rec[kind]]
  BY <1>1
<1>3. Without(i, kind, id) = [i EXCEPT ![kind] = f]
  BY DEF Without, IsInstance
<1>4. IsInstance([i EXCEPT ![kind] = f])
  BY <1>2, ReplaceKind
<1> QED BY <1>3, <1>4

(* An instance is known by what it holds of each kind. *)
LEMMA ByKind ==
  ASSUME NEW i, i = [k \in Kinds |-> i[k]],
         DOMAIN i.acct \subseteq Accts, i.acct \in [DOMAIN i.acct -> AcctRec],
         DOMAIN i.atpl \subseteq ATpls, i.atpl \in [DOMAIN i.atpl -> ATplRec],
         DOMAIN i.rail \subseteq Rails, i.rail \in [DOMAIN i.rail -> RailRec],
         DOMAIN i.tpl \subseteq Tpls, i.tpl \in [DOMAIN i.tpl -> TplRec],
         DOMAIN i.chain \subseteq Chains, i.chain \in [DOMAIN i.chain -> ChainRec],
         DOMAIN i.limit \subseteq Limits, i.limit \in [DOMAIN i.limit -> LimitRec]
  PROVE  IsInstance(i)
<1>1. ASSUME NEW k \in Kinds
      PROVE  DOMAIN i[k] \subseteq Ids[k] /\ i[k] \in [DOMAIN i[k] -> Rec[k]]
  <2>1. CASE k = "acct" BY <2>1 DEF Ids, Rec
  <2>2. CASE k = "atpl" BY <2>2 DEF Ids, Rec
  <2>3. CASE k = "rail" BY <2>3 DEF Ids, Rec
  <2>4. CASE k = "tpl" BY <2>4 DEF Ids, Rec
  <2>5. CASE k = "chain" BY <2>5 DEF Ids, Rec
  <2>6. CASE k = "limit" BY <2>6 DEF Ids, Rec
  <2> QED BY <2>1, <2>2, <2>3, <2>4, <2>5, <2>6, KindsAre
<1> QED BY <1>1 DEF IsInstance

LEMMA OfKind ==
  ASSUME NEW i, IsInstance(i)
  PROVE  /\ i = [k \in Kinds |-> i[k]]
         /\ DOMAIN i.acct \subseteq Accts /\ i.acct \in [DOMAIN i.acct -> AcctRec]
         /\ DOMAIN i.atpl \subseteq ATpls /\ i.atpl \in [DOMAIN i.atpl -> ATplRec]
         /\ DOMAIN i.rail \subseteq Rails /\ i.rail \in [DOMAIN i.rail -> RailRec]
         /\ DOMAIN i.tpl \subseteq Tpls /\ i.tpl \in [DOMAIN i.tpl -> TplRec]
         /\ DOMAIN i.chain \subseteq Chains /\ i.chain \in [DOMAIN i.chain -> ChainRec]
         /\ DOMAIN i.limit \subseteq Limits /\ i.limit \in [DOMAIN i.limit -> LimitRec]
<1>1. \A k \in Kinds : DOMAIN i[k] \subseteq Ids[k] /\ i[k] \in [DOMAIN i[k] -> Rec[k]]
  BY DEF IsInstance
<1>2. {"acct", "atpl", "rail", "tpl", "chain", "limit"} \subseteq Kinds
  BY DEF Kinds
<1>3. /\ Ids["acct"] = Accts /\ Rec["acct"] = AcctRec
      /\ Ids["atpl"] = ATpls /\ Rec["atpl"] = ATplRec
      /\ Ids["rail"] = Rails /\ Rec["rail"] = RailRec
      /\ Ids["tpl"] = Tpls /\ Rec["tpl"] = TplRec
      /\ Ids["chain"] = Chains /\ Rec["chain"] = ChainRec
      /\ Ids["limit"] = Limits /\ Rec["limit"] = LimitRec
  BY DEF Ids, Rec
<1>4. i = [k \in Kinds |-> i[k]]
  BY DEF IsInstance
<1> QED BY <1>1, <1>2, <1>3, <1>4

LEMMA SubTyped ==
  ASSUME NEW old, NEW new \in Names, NEW n
  PROVE  /\ n \in Names => Sub(n, old, new) \in Names
         /\ n \in Names \cup {NoName} => Sub(n, old, new) \in Names \cup {NoName}
BY DEF Sub

LEMMA SubAllTyped ==
  ASSUME NEW old, NEW new \in Names, NEW S \in SUBSET Names
  PROVE  SubAll(S, old, new) \in SUBSET Names
BY SubTyped DEF SubAll

LEMMA SubBareTyped ==
  ASSUME NEW old, NEW new \in Names, NEW B \in SUBSET Selector
  PROVE  SubBare(B, old, new) \in SUBSET Selector
BY DEF SubBare, Bare, Selector

LEMMA RenamedChainTyped ==
  ASSUME NEW old, NEW new \in Names, NEW c \in ChainRec
  PROVE  /\ RenamedChain(c, old, new) \in ChainRec
         /\ RenamedChain(c, old, new).parent = Sub(c.parent, old, new)
         /\ DOMAIN RenamedChain(c, old, new).children = DOMAIN c.children
         /\ \A k \in DOMAIN c.children :
              /\ RenamedChain(c, old, new).children[k].name
                   = Sub(c.children[k].name, old, new)
              /\ RenamedChain(c, old, new).children[k].fanIn = c.children[k].fanIn
<1> DEFINE Child == [name : Names, fanIn : BOOLEAN]
           s == c.children
           one(k) == [s[k] EXCEPT !.name = Sub(@, old, new)]
           t == [k \in DOMAIN s |-> one(k)]
<1>1. c.parent \in Names /\ s \in Seq(Child)
  BY DEF ChainRec
<1>2. /\ DOMAIN s = 1..Len(s) /\ Len(s) \in Nat
      /\ \A k \in DOMAIN s : s[k] \in Child
  <2> HIDE DEF s, Child
  <2>1. DOMAIN s = 1..Len(s) /\ Len(s) \in Nat /\ s \in [1..Len(s) -> Child]
    BY <1>1
  <2> QED BY <2>1
<1>3. ASSUME NEW k \in DOMAIN s
      PROVE  one(k) \in Child /\ one(k).name = Sub(s[k].name, old, new)
             /\ one(k).fanIn = s[k].fanIn
  BY <1>2, SubTyped
<1> HIDE DEF one, Child
<1>4. t \in [1..Len(s) -> Child]
  BY <1>2, <1>3
<1>5. t \in Seq(Child)
  BY <1>2, <1>4, SeqDef
<1>6. RenamedChain(c, old, new) = [parent |-> Sub(c.parent, old, new), children |-> t]
  BY DEF RenamedChain, one
<1>7. Sub(c.parent, old, new) \in Names
  BY <1>1, SubTyped
<1>8. RenamedChain(c, old, new) \in ChainRec
  BY <1>5, <1>6, <1>7 DEF ChainRec, Child
<1>9. DOMAIN t = DOMAIN s /\ \A k \in DOMAIN s : t[k] = one(k)
  OBVIOUS
<1> QED BY <1>3, <1>6, <1>8, <1>9

(* What each rename does, kind by kind. *)
OverKinds(i) == i = [k \in Kinds |-> i[k]]
Four(i, A, T, R, L) == [i EXCEPT !.acct = A, !.atpl = T, !.rail = R, !.limit = L]
Three(i, R, T, C)   == [i EXCEPT !.rail = R, !.tpl = T, !.chain = C]

LEMMA FourReplaced ==
  ASSUME NEW i, NEW j, OverKinds(i), NEW A, NEW T, NEW R, NEW L,
         j = Four(i, A, T, R, L)
  PROVE  /\ OverKinds(j)
         /\ j.acct = A /\ j.atpl = T /\ j.rail = R /\ j.limit = L
         /\ j.tpl = i.tpl /\ j.chain = i.chain
<1>1. i = [k \in Kinds |-> i[k]]
  BY DEF OverKinds
<1>2. \A k \in Kinds : j[k] = CASE k = "acct"  -> A
                                [] k = "atpl"  -> T
                                [] k = "rail"  -> R
                                [] k = "limit" -> L
                                [] k \in {"tpl", "chain"} -> i[k]
  BY <1>1, KindsAre DEF Four
<1>3. {"acct", "atpl", "rail", "tpl", "chain", "limit"} \subseteq Kinds
  BY DEF Kinds
<1>4. OverKinds(j)
  BY <1>1 DEF OverKinds, Four
<1> QED BY <1>2, <1>3, <1>4

LEMMA ThreeReplaced ==
  ASSUME NEW i, NEW j, OverKinds(i), NEW R, NEW T, NEW C,
         j = Three(i, R, T, C)
  PROVE  /\ OverKinds(j)
         /\ j.rail = R /\ j.tpl = T /\ j.chain = C
         /\ j.acct = i.acct /\ j.atpl = i.atpl /\ j.limit = i.limit
<1>1. i = [k \in Kinds |-> i[k]]
  BY DEF OverKinds
<1>2. \A k \in Kinds : j[k] = CASE k = "rail"  -> R
                                [] k = "tpl"   -> T
                                [] k = "chain" -> C
                                [] k \in {"acct", "atpl", "limit"} -> i[k]
  BY <1>1, KindsAre DEF Three
<1>3. {"acct", "atpl", "rail", "tpl", "chain", "limit"} \subseteq Kinds
  BY DEF Kinds
<1>4. OverKinds(j)
  BY <1>1 DEF OverKinds, Three
<1> QED BY <1>2, <1>3, <1>4

LEMMA RenameRoleParts ==
  ASSUME NEW i, IsInstance(i), NEW old, NEW new \in Names
  PROVE  LET j == RenameRole(i, old, new)
         IN  /\ IsInstance(j)
             /\ j.acct = [a \in DOMAIN i.acct |->
                            RenamedHolder(i.acct[a], old, new)]
             /\ j.atpl = [t \in DOMAIN i.atpl |->
                            RenamedHolder(i.atpl[t], old, new)]
             /\ j.rail = [r \in DOMAIN i.rail |->
                            [i.rail[r] EXCEPT !.roles = SubAll(@, old, new)]]
             /\ j.tpl = i.tpl /\ j.chain = i.chain
             /\ j.limit = [l \in DOMAIN i.limit |->
                             [i.limit[l] EXCEPT !.parent = Sub(@, old, new)]]
<1> DEFINE j == RenameRole(i, old, new)
           role(x) == RenamedHolder(x, old, new)
           rail(x) == [x EXCEPT !.roles = SubAll(@, old, new)]
           limit(x) == [x EXCEPT !.parent = Sub(@, old, new)]
<1>0. \A x \in AcctRec : role(x) \in AcctRec
  BY SubTyped DEF AcctRec, RenamedHolder
<1>1. \A x \in ATplRec : role(x) \in ATplRec
  BY SubTyped DEF ATplRec, RenamedHolder
<1>2. \A x \in RailRec : rail(x) \in RailRec
  BY SubAllTyped DEF RailRec
<1>3. \A x \in LimitRec : limit(x) \in LimitRec
  BY SubTyped DEF LimitRec
<1>4. OverKinds(i)
  BY DEF IsInstance, OverKinds
<1>5. /\ OverKinds(j)
      /\ j.acct = [a \in DOMAIN i.acct |-> role(i.acct[a])]
      /\ j.atpl = [t \in DOMAIN i.atpl |-> role(i.atpl[t])]
      /\ j.rail = [r \in DOMAIN i.rail |-> rail(i.rail[r])]
      /\ j.tpl = i.tpl /\ j.chain = i.chain
      /\ j.limit = [l \in DOMAIN i.limit |-> limit(i.limit[l])]
  <2> DEFINE A == [a \in DOMAIN i.acct |-> role(i.acct[a])]
             T == [t \in DOMAIN i.atpl |-> role(i.atpl[t])]
             R == [r \in DOMAIN i.rail |-> rail(i.rail[r])]
             L == [l \in DOMAIN i.limit |-> limit(i.limit[l])]
  <2>1. j = Four(i, A, T, R, L)
    BY DEF RenameRole, Four
  <2> HIDE DEF j, A, T, R, L
  <2>2. /\ OverKinds(j)
        /\ j.acct = A /\ j.atpl = T /\ j.rail = R /\ j.limit = L
        /\ j.tpl = i.tpl /\ j.chain = i.chain
    BY <1>4, <2>1, FourReplaced
  <2> QED BY <2>2 DEF A, T, R, L
<1> HIDE DEF j, role, rail, limit
<1>6. IsInstance(j)
  BY <1>0, <1>1, <1>2, <1>3, <1>5, OfKind, ByKind DEF OverKinds
<1> QED BY <1>5, <1>6 DEF j, role, rail, limit

LEMMA RenamedRailTyped ==
  ASSUME NEW old, NEW new \in Names, NEW r \in RailRec
  PROVE  RenamedRail(r, old, new) \in RailRec
BY SubBareTyped DEF RenamedRail, RailRec

LEMMA RenameRailParts ==
  ASSUME NEW i, IsInstance(i), NEW old, NEW new \in Names
  PROVE  LET j == RenameRail(i, old, new)
         IN  /\ IsInstance(j)
             /\ j.acct = i.acct /\ j.atpl = i.atpl /\ j.limit = i.limit
             /\ j.rail = [r \in DOMAIN i.rail |-> RenamedRail(i.rail[r], old, new)]
             /\ j.tpl = [t \in DOMAIN i.tpl |->
                           [i.tpl[t] EXCEPT !.legs = SubAll(@, old, new)]]
             /\ j.chain = [c \in DOMAIN i.chain |-> RenamedChain(i.chain[c], old, new)]
<1> DEFINE j == RenameRail(i, old, new)
           rail(x) == RenamedRail(x, old, new)
           tpl(x) == [x EXCEPT !.legs = SubAll(@, old, new)]
           chain(x) == RenamedChain(x, old, new)
<1>1. \A x \in RailRec : rail(x) \in RailRec
  BY RenamedRailTyped
<1>2. \A x \in TplRec : tpl(x) \in TplRec
  BY SubAllTyped DEF TplRec
<1>3. \A x \in ChainRec : chain(x) \in ChainRec
  BY RenamedChainTyped
<1>4. OverKinds(i)
  BY DEF IsInstance, OverKinds
<1>5. /\ OverKinds(j)
      /\ j.acct = i.acct /\ j.atpl = i.atpl /\ j.limit = i.limit
      /\ j.rail = [r \in DOMAIN i.rail |-> rail(i.rail[r])]
      /\ j.tpl = [t \in DOMAIN i.tpl |-> tpl(i.tpl[t])]
      /\ j.chain = [c \in DOMAIN i.chain |-> chain(i.chain[c])]
  <2> DEFINE R == [r \in DOMAIN i.rail |-> rail(i.rail[r])]
             T == [t \in DOMAIN i.tpl |-> tpl(i.tpl[t])]
             C == [c \in DOMAIN i.chain |-> chain(i.chain[c])]
  <2>1. j = Three(i, R, T, C)
    BY DEF RenameRail, Three
  <2> HIDE DEF j, R, T, C
  <2>2. /\ OverKinds(j)
        /\ j.rail = R /\ j.tpl = T /\ j.chain = C
        /\ j.acct = i.acct /\ j.atpl = i.atpl /\ j.limit = i.limit
    BY <1>4, <2>1, ThreeReplaced
  <2> QED BY <2>2 DEF R, T, C
<1> HIDE DEF j, rail, tpl, chain
<1>6. IsInstance(j)
  BY <1>1, <1>2, <1>3, <1>5, OfKind, ByKind DEF OverKinds
<1> QED BY <1>5, <1>6 DEF j, rail, tpl, chain

LEMMA RenameTplParts ==
  ASSUME NEW i, IsInstance(i), NEW old, NEW new \in Names
  PROVE  LET j == RenameTpl(i, old, new)
         IN  /\ IsInstance(j)
             /\ j.acct = i.acct /\ j.atpl = i.atpl /\ j.limit = i.limit
             /\ j.rail = [r \in DOMAIN i.rail |->
                            [i.rail[r] EXCEPT !.bundles = SubBare(@, old, new)]]
             /\ j.tpl = [t \in DOMAIN i.tpl |->
                           [i.tpl[t] EXCEPT !.name = Sub(@, old, new)]]
             /\ j.chain = [c \in DOMAIN i.chain |-> RenamedChain(i.chain[c], old, new)]
<1> DEFINE j == RenameTpl(i, old, new)
           rail(x) == [x EXCEPT !.bundles = SubBare(@, old, new)]
           tpl(x) == [x EXCEPT !.name = Sub(@, old, new)]
           chain(x) == RenamedChain(x, old, new)
<1>1. \A x \in RailRec : rail(x) \in RailRec
  BY SubBareTyped DEF RailRec
<1>2. \A x \in TplRec : tpl(x) \in TplRec
  BY SubTyped DEF TplRec
<1>3. \A x \in ChainRec : chain(x) \in ChainRec
  BY RenamedChainTyped
<1>4. OverKinds(i)
  BY DEF IsInstance, OverKinds
<1>5. /\ OverKinds(j)
      /\ j.acct = i.acct /\ j.atpl = i.atpl /\ j.limit = i.limit
      /\ j.rail = [r \in DOMAIN i.rail |-> rail(i.rail[r])]
      /\ j.tpl = [t \in DOMAIN i.tpl |-> tpl(i.tpl[t])]
      /\ j.chain = [c \in DOMAIN i.chain |-> chain(i.chain[c])]
  <2> DEFINE R == [r \in DOMAIN i.rail |-> rail(i.rail[r])]
             T == [t \in DOMAIN i.tpl |-> tpl(i.tpl[t])]
             C == [c \in DOMAIN i.chain |-> chain(i.chain[c])]
  <2>1. j = Three(i, R, T, C)
    BY DEF RenameTpl, Three
  <2> HIDE DEF j, R, T, C
  <2>2. /\ OverKinds(j)
        /\ j.rail = R /\ j.tpl = T /\ j.chain = C
        /\ j.acct = i.acct /\ j.atpl = i.atpl /\ j.limit = i.limit
    BY <1>4, <2>1, ThreeReplaced
  <2> QED BY <2>2 DEF R, T, C
<1> HIDE DEF j, rail, tpl, chain
<1>6. IsInstance(j)
  BY <1>1, <1>2, <1>3, <1>5, OfKind, ByKind DEF OverKinds
<1> QED BY <1>5, <1>6 DEF j, rail, tpl, chain

LEMMA TriggerTyped ==
  ASSUME NEW kind \in {"acct", "atpl", "rail", "tpl"}, NEW rec \in Rec[kind]
  PROVE  Trigger(kind, rec) \in Names
<1>1. CASE kind \in {"acct", "atpl"}
  <2>1. rec \in AcctRec \/ rec \in ATplRec
    BY <1>1 DEF Rec
  <2>2. Trigger(kind, rec) = rec.role
    BY <1>1 DEF Trigger
  <2> QED BY <2>1, <2>2 DEF AcctRec, ATplRec
<1>2. CASE kind = "rail"
  <2>1. rec \in RailRec
    BY <1>2 DEF Rec
  <2>2. Trigger(kind, rec) = rec.name
    BY <1>2 DEF Trigger
  <2> QED BY <2>1, <2>2 DEF RailRec
<1>3. CASE kind = "tpl"
  <2>1. rec \in TplRec
    BY <1>3 DEF Rec
  <2>2. Trigger(kind, rec) = rec.name
    BY <1>3 DEF Trigger
  <2> QED BY <2>1, <2>2 DEF TplRec
<1> QED BY <1>1, <1>2, <1>3

LEMMA SavedIsInstance ==
  ASSUME NEW i, IsInstance(i), NEW kind \in Kinds, NEW id \in DOMAIN i[kind],
         NEW rec \in Rec[kind]
  PROVE  IsInstance(Saved(i, kind, id, rec))
<1> DEFINE put == Put(i, kind, id, rec)
           old == Trigger(kind, i[kind][id])
           new == Trigger(kind, rec)
<1>1. id \in Ids[kind]
  BY DEF IsInstance
<1>2. IsInstance(put)
  BY <1>1, PutIsInstance
<1>3. CASE old = new
  BY <1>2, <1>3 DEF Saved
<1>4. CASE old # new
  <2>1. Saved(i, kind, id, rec) = Rename(put, kind, old, new)
    BY <1>4 DEF Saved
  <2>2. CASE kind \in {"chain", "limit"}
    BY <1>4, <2>2 DEF Trigger
  <2>3. CASE kind \in {"acct", "atpl"}
    <3>1. new \in Names
      BY <2>3, TriggerTyped
    <3>2. Rename(put, kind, old, new) = RenameRole(put, old, new)
      BY <2>3 DEF Rename
    <3> HIDE DEF put, old, new
    <3>3. IsInstance(RenameRole(put, old, new))
      BY <1>2, <3>1, RenameRoleParts
    <3> QED BY <2>1, <3>2, <3>3
  <2>4. CASE kind = "rail"
    <3>1. new \in Names
      BY <2>4, TriggerTyped
    <3>2. Rename(put, kind, old, new) = RenameRail(put, old, new)
      BY <2>4 DEF Rename
    <3> HIDE DEF put, old, new
    <3>3. IsInstance(RenameRail(put, old, new))
      BY <1>2, <3>1, RenameRailParts
    <3> QED BY <2>1, <3>2, <3>3
  <2>5. CASE kind = "tpl"
    <3>1. new \in Names
      BY <2>5, TriggerTyped
    <3>2. Rename(put, kind, old, new) = RenameTpl(put, old, new)
      BY <2>5 DEF Rename
    <3> HIDE DEF put, old, new
    <3>3. IsInstance(RenameTpl(put, old, new))
      BY <1>2, <3>1, RenameTplParts
    <3> QED BY <2>1, <3>2, <3>3
  <2> QED BY <2>2, <2>3, <2>4, <2>5, KindsAre
<1> QED BY <1>3, <1>4

LEMMA AttachedIsInstance ==
  ASSUME NEW i, IsInstance(i), NEW n \in Names, NEW new \in Attached(i, n)
  PROVE  IsInstance(new)
<1>1. ASSUME NEW t \in DOMAIN i.tpl, NEW gs \in Regroupings(i, t, n)
      PROVE  IsInstance(Put(i, "tpl", t,
                            [i.tpl[t] EXCEPT !.legs = @ \cup {n}, !.groups = gs]))
  <2> DEFINE rec == [i.tpl[t] EXCEPT !.legs = @ \cup {n}, !.groups = gs]
  <2>1. i.tpl[t] \in TplRec /\ t \in Tpls
    BY OfKind
  <2>2. i.tpl[t].groups \in SUBSET SUBSET Names /\ i.tpl[t].legs \in SUBSET Names
    BY <2>1 DEF TplRec
  <2>3. gs \in SUBSET SUBSET Names
    BY <2>2 DEF Regroupings, Groups
  <2>4. rec \in TplRec
    BY <2>1, <2>2, <2>3 DEF TplRec
  <2>5. rec \in Rec["tpl"] /\ t \in Ids["tpl"] /\ "tpl" \in Kinds
    BY <2>1, <2>4 DEF Rec, Ids, Kinds
  <2> HIDE DEF rec
  <2>6. IsInstance(Put(i, "tpl", t, rec))
    BY <2>5, PutIsInstance
  <2> QED BY <2>6 DEF rec
<1>2. ASSUME NEW r \in Aggregators(i)
      PROVE  IsInstance(Put(i, "rail", r,
                            [i.rail[r] EXCEPT !.bundles = @ \cup {Bare(n)}]))
  <2> DEFINE rec == [i.rail[r] EXCEPT !.bundles = @ \cup {Bare(n)}]
  <2>1. i.rail[r] \in RailRec /\ r \in Rails
    BY OfKind DEF Aggregators
  <2>2. Bare(n) \in Selector
    BY DEF Bare, Selector
  <2>3. rec \in RailRec
    BY <2>1, <2>2 DEF RailRec
  <2>4. rec \in Rec["rail"] /\ r \in Ids["rail"] /\ "rail" \in Kinds
    BY <2>1, <2>3 DEF Rec, Ids, Kinds
  <2> HIDE DEF rec
  <2>5. IsInstance(Put(i, "rail", r, rec))
    BY <2>4, PutIsInstance
  <2> QED BY <2>5 DEF rec
<1>3. CASE new \in AttachedToTpl(i, n)
  <2>1. PICK t \in DOMAIN i.tpl :
          new \in {Put(i, "tpl", t, [i.tpl[t] EXCEPT !.legs = @ \cup {n}, !.groups = gs]) :
                     gs \in Regroupings(i, t, n)}
    BY <1>3 DEF AttachedToTpl
  <2>2. PICK gs \in Regroupings(i, t, n) :
          new = Put(i, "tpl", t, [i.tpl[t] EXCEPT !.legs = @ \cup {n}, !.groups = gs])
    BY <2>1
  <2> QED BY <1>1, <2>2
<1>4. CASE new \in AttachedToRail(i, n)
  BY <1>2, <1>4 DEF AttachedToRail
<1> QED BY <1>3, <1>4 DEF Attached

-----------------------------------------------------------------------------
(* Types. *)

(* The instance an editor's action writes. *)
LEMMA WriteTyped ==
  ASSUME TypeOK, NEW new, IsInstance(new), Write(new)
  PROVE  TypeOK'
<1>1. ops' \in 0..MaxOps
  BY BoundsAssumption DEF TypeOK, Write, Op, More
<1> QED BY <1>1 DEF TypeOK, Write, knobs

LEMMA KnobSet ==
  ASSUME NEW f, IsKnobs(f), NEW k \in KnobNames, NEW v \in KnobValues[k]
  PROVE  IsKnobs([f EXCEPT ![k] = v])
<1>1. k \in {"only_template", "etl_hook"}
  BY DEF KnobNames
<1>2. f = [n \in KnobNames |-> f[n]]
  BY DEF IsKnobs
<1>3. CASE k = "only_template"
  BY <1>2, <1>3, KnobValuesAssumption DEF IsKnobs, IsKnobSets, KnobNames
<1>4. CASE k = "etl_hook"
  BY <1>2, <1>4, KnobValuesAssumption DEF IsKnobs, IsKnobSets, KnobNames
<1> QED BY <1>1, <1>3, <1>4

LEMMA NewRecTyped ==
  ASSUME NEW r \in NewRecs.rail \cap RailRec
  PROVE  r \in Rec["rail"] /\ r.name \in Names
BY DEF Rec, RailRec

LEMMA RailOf ==
  "rail" \in Kinds /\ "tpl" \in Kinds /\ Ids["rail"] = Rails /\ Ids["tpl"] = Tpls
BY DEF Kinds, Ids

LEMMA PairedTyped ==
  ASSUME NEW i, IsInstance(i), NEW id \in Rails, NEW rec \in RailRec
  PROVE  LET with == Put(i, "rail", id, rec)
         IN  /\ IsInstance(with)
             /\ \A t \in Tpls, new \in TplRec :
                  IsInstance(Put(with, "tpl", t, [new EXCEPT !.legs = @ \cup {rec.name}]))
             /\ \A r \in Rails, new \in RailRec :
                  IsInstance(Put(with, "rail", r,
                                 [new EXCEPT !.aggregating = TRUE,
                                             !.bundles = @ \cup {Bare(rec.name)}]))
<1> DEFINE with == Put(i, "rail", id, rec)
           tpl(new) == [new EXCEPT !.legs = @ \cup {rec.name}]
           rail(new) == [new EXCEPT !.aggregating = TRUE,
                                    !.bundles = @ \cup {Bare(rec.name)}]
<1>1. rec.name \in Names
  BY DEF RailRec
<1>2. Rec["rail"] = RailRec /\ Rec["tpl"] = TplRec
  BY DEF Rec
<1>3. IsInstance(with)
  BY <1>2, RailOf, PutIsInstance
<1>4. \A new \in TplRec : tpl(new) \in Rec["tpl"]
  BY <1>1, <1>2 DEF TplRec
<1>5. Bare(rec.name) \in Selector
  BY <1>1 DEF Bare, Selector
<1>6. \A new \in RailRec : rail(new) \in Rec["rail"]
  BY <1>2, <1>5 DEF RailRec
<1> HIDE DEF with, tpl, rail
<1>7. \A t \in Tpls, new \in TplRec : IsInstance(Put(with, "tpl", t, tpl(new)))
  BY <1>3, <1>4, RailOf, PutIsInstance
<1>8. \A r \in Rails, new \in RailRec : IsInstance(Put(with, "rail", r, rail(new)))
  BY <1>3, <1>6, RailOf, PutIsInstance
<1> QED BY <1>3, <1>7, <1>8 DEF with, tpl, rail

LEMMA SnapshotTyped ==
  ASSUME NEW f, IsKnobs(f)
  PROVE  IsKnobSets(Snapshot(f))
BY DEF IsKnobs, IsKnobSets, Snapshot, KnobNames

(* Steps that leave the instance and the pages alone. *)
LEMMA KnobSteps ==
  ASSUME TypeOK, NEW k \in KnobNames, NEW v \in KnobValues[k],
         SetKnob(k, v) \/ SetKnobFails(k, v)
  PROVE  TypeOK'
<1>1. ops' \in 0..MaxOps /\ faults' \in 0..MaxFaults
  BY BoundsAssumption DEF TypeOK, SetKnob, SetKnobFails, Op, More
<1>2. UNCHANGED <<inst, page>>
  BY DEF SetKnob, SetKnobFails, l2
<1>3. IsKnobs([knob EXCEPT ![k] = v]) /\ IsKnobs([told EXCEPT ![k] = v])
  BY KnobSet DEF TypeOK
<1>4. knob' = [knob EXCEPT ![k] = v]
  BY DEF SetKnob, SetKnobFails
<1>5. told' = [told EXCEPT ![k] = v] \/ told' = told
  BY DEF SetKnob, SetKnobFails
<1>6. IsKnobs(knob') /\ IsKnobs(told')
  BY <1>3, <1>4, <1>5 DEF TypeOK
<1>7. IsKnobSets(side')
  <2>1. side' = Snapshot(knob') \/ side' = side
    BY DEF SetKnob, SetKnobFails
  <2> QED BY <1>6, <2>1, SnapshotTyped DEF TypeOK
<1>8. IsKnobSets(tried')
  <2>1. k \in KnobNames /\ IsKnobSets(tried) /\ IsKnobSets(KnobValues)
    BY KnobValuesAssumption DEF TypeOK
  <2>2. \/ tried' = [tried EXCEPT ![k] = {}]
        \/ tried' = [tried EXCEPT ![k] = tried[k] \cup {v}]
    BY DEF SetKnob, SetKnobFails
  <2>3. CASE k = "only_template"
    BY <2>1, <2>2, <2>3 DEF IsKnobSets, KnobNames
  <2>4. CASE k = "etl_hook"
    BY <2>1, <2>2, <2>4 DEF IsKnobSets, KnobNames
  <2> QED BY <2>3, <2>4 DEF KnobNames
<1> QED BY <1>1, <1>2, <1>6, <1>7, <1>8 DEF TypeOK

(* A step of an editor action writes an instance. *)
LEMMA EditSteps ==
  ASSUME TypeOK,
         \/ \E kind \in Kinds : \E id \in DOMAIN page[kind] :
              \E rec \in Offered(kind, page[kind][id]) \cap Rec[kind] :
                Save(kind, id, rec)
         \/ \E kind \in Kinds : \E id \in Ids[kind] \ DOMAIN inst[kind] :
              \E rec \in NewRecs[kind] \cap Rec[kind] : Create(kind, id, rec)
         \/ \E id \in Rails \ DOMAIN inst.rail :
              \E rec \in NewRecs.rail \cap RailRec :
                CreateAttached(id, rec) \/ CreatePaired(id, rec)
         \/ \E kind \in Kinds : Delete(kind)
  PROVE  \E new : IsInstance(new) /\ Write(new)
<1>0. IsInstance(inst)
  BY DEF TypeOK
<1>1. ASSUME NEW kind \in Kinds, NEW id \in DOMAIN page[kind], NEW rec \in Rec[kind],
             Save(kind, id, rec)
      PROVE  \E new : IsInstance(new) /\ Write(new)
  <2>1. PICK hit \in DOMAIN inst[kind] : Write(Saved(inst, kind, hit, rec))
    BY <1>1 DEF Save, Found
  <2> QED BY <1>0, <2>1, SavedIsInstance
<1>2. ASSUME NEW kind \in Kinds, NEW id \in Ids[kind], NEW rec \in Rec[kind],
             Create(kind, id, rec)
      PROVE  \E new : IsInstance(new) /\ Write(new)
  BY <1>0, <1>2, PutIsInstance DEF Create
<1>3. ASSUME NEW id \in Rails, NEW rec \in NewRecs.rail \cap RailRec,
             CreateAttached(id, rec)
      PROVE  \E new : IsInstance(new) /\ Write(new)
  <2>1. IsInstance(Put(inst, "rail", id, rec))
    BY <1>0, PairedTyped
  <2> QED BY <1>3, <2>1, NewRecTyped, AttachedIsInstance DEF CreateAttached
<1>4. ASSUME NEW id \in Rails, NEW rec \in RailRec, CreatePaired(id, rec)
      PROVE  \E new : IsInstance(new) /\ Write(new)
  BY <1>0, <1>4, PairedTyped DEF CreatePaired
<1>5. ASSUME NEW kind \in Kinds, Delete(kind)
      PROVE  \E new : IsInstance(new) /\ Write(new)
  BY <1>0, <1>5, WithoutIsInstance DEF Delete
<1> QED BY <1>1, <1>2, <1>3, <1>4, <1>5

LEMMA TypeStep ==
  ASSUME TypeOK, Next
  PROVE  TypeOK'
<1>1. CASE LoadPage
  BY <1>1 DEF TypeOK, LoadPage, knobs
<1>2. ASSUME NEW kind \in Kinds, NEW id \in DOMAIN inst[kind], Confirm(kind, id)
      PROVE  TypeOK'
  BY <1>2 DEF TypeOK, Confirm, knobs
<1>3. CASE Restart
  <2>1. faults' \in 0..MaxFaults
    BY <1>3, BoundsAssumption DEF TypeOK, Restart
  <2>2. UNCHANGED <<inst, page, ops, told, side, tried>>
    BY <1>3 DEF Restart
  <2>3. IsKnobs(knob')
    <3>1. \A k \in KnobNames : knob'[k] = Merged(k)
      BY <1>3 DEF Restart
    <3>2. knob' = [k \in KnobNames |-> knob'[k]]
      BY <1>3 DEF Restart
    <3>3. \A k \in KnobNames : Merged(k) = Cfg[k] \/ Merged(k) \in side[k]
      BY DEF Merged
    <3> QED BY <3>1, <3>2, <3>3, CfgAssumption DEF IsKnobs, IsKnobSets, KnobNames, TypeOK
  <2> QED BY <2>1, <2>2, <2>3 DEF TypeOK
<1>4. ASSUME NEW k \in KnobNames, NEW v \in KnobValues[k],
             SetKnob(k, v) \/ SetKnobFails(k, v)
      PROVE  TypeOK'
  BY <1>4, KnobSteps
<1>5. ASSUME NEW new, IsInstance(new), Write(new)
      PROVE  TypeOK'
  BY <1>5, WriteTyped
<1> QED BY <1>1, <1>2, <1>3, <1>4, <1>5, EditSteps DEF Next

LEMMA TypeInit ==
  ASSUME Init
  PROVE  TypeOK
<1>1. IsKnobSets(side) /\ IsKnobSets(tried)
  BY DEF Init, IsKnobSets, KnobNames
<1> QED BY <1>1, StartAssumption, CfgAssumption, BoundsAssumption DEF Init, TypeOK

LEMMA TypeStutter ==
  ASSUME TypeOK, UNCHANGED vars
  PROVE  TypeOK'
BY DEF TypeOK, vars

(* The editor and the knobs keep to their types, and what is stored is an  *)
(* instance the validator accepts.                                         *)
THEOREM EditorTypes == Spec => []TypeOK
<1>1. Init => TypeOK
  BY TypeInit
<1>2. TypeOK /\ [Next]_vars => TypeOK'
  BY TypeStep, TypeStutter
<1> QED BY <1>1, <1>2, PTL DEF Spec

-----------------------------------------------------------------------------
(* Keys. *)

LEMMA LimitKeys ==
  ASSUME NEW i, U5(i), NEW d \in DOMAIN i.limit, NEW e \in DOMAIN i.limit,
         i.limit[d] = i.limit[e]
  PROVE  d = e
BY DEF U5

(* A chain is addressed by its parent and its children: it has a child     *)
(* (C5), and no child comes twice under one parent (C6).                   *)
LEMMA ChainKeys ==
  ASSUME NEW i, IsInstance(i), C5(i), C6(i),
         NEW d \in DOMAIN i.chain, NEW e \in DOMAIN i.chain,
         i.chain[d].parent = i.chain[e].parent,
         ChildNames(i.chain[d]) = ChildNames(i.chain[e])
  PROVE  d = e
<1> DEFINE s == i.chain[d].children
           t == i.chain[e].children
<1>1. i.chain[d] \in ChainRec
  BY OfKind
<1>2. s \in Seq([name : Names, fanIn : BOOLEAN])
  BY <1>1 DEF ChainRec
<1>3. s # <<>>
  BY DEF C5
<1>4. 1 \in DOMAIN s
  <2> HIDE DEF s
  <2> QED BY <1>2, <1>3
<1>5. PICK m \in DOMAIN t : t[m].name = s[1].name
  BY <1>4 DEF ChildNames
<1> QED BY <1>4, <1>5 DEF C6

LEMMA Keys ==
  ASSUME TypeOK
  PROVE  KeysUnique
<1> SUFFICES ASSUME NEW kind \in Kinds,
                    NEW d \in DOMAIN inst[kind], NEW e \in DOMAIN inst[kind],
                    Key(inst, kind, d) = Key(inst, kind, e)
             PROVE  d = e
  BY DEF KeysUnique, Address
<1>0. IsInstance(inst) /\ U2(inst) /\ U3(inst) /\ U4(inst) /\ U5(inst)
      /\ C5(inst) /\ C6(inst)
  BY DEF TypeOK, Valid
<1>1. CASE kind = "acct"
  BY <1>1 DEF Key
<1>2. CASE kind = "atpl"
  BY <1>0, <1>2 DEF Key, U2
<1>3. CASE kind = "rail"
  BY <1>0, <1>3 DEF Key, U3
<1>4. CASE kind = "tpl"
  BY <1>0, <1>4 DEF Key, U4
<1>5. CASE kind = "chain"
  BY <1>0, <1>5, ChainKeys DEF Key
<1>6. CASE kind = "limit"
  BY <1>0, <1>6, LimitKeys DEF Key
<1> QED BY <1>1, <1>2, <1>3, <1>4, <1>5, <1>6, KindsAre

(* What a form or a token addresses is one entity, or the digest of two    *)
(* different keys.                                                         *)
THEOREM EditorKeys == Spec => []KeysUnique
BY Keys, EditorTypes, PTL

-----------------------------------------------------------------------------
(* Knobs. *)

(* What the operator meant a knob to be, told so or not. *)
Meant(k, v) ==
  LET meant == {told[k]} \cup tried[k]
  IN  \/ v \in meant
      \/ k = "only_template" /\ NoName \in meant /\ v = Cfg[k]

(* The knobs are as told, and would be after a restart. *)
KnobInv == \A k \in KnobNames : Meant(k, knob[k]) /\ Meant(k, Merged(k))

LEMMA KnobInit ==
  ASSUME Init
  PROVE  KnobInv
<1>1. \A k \in KnobNames : knob[k] = told[k] /\ Merged(k) = told[k]
  BY DEF Init, Merged
<1> QED BY <1>1 DEF KnobInv, Meant

(* Writing the sidefile: what it would give back is what is in memory, or  *)
(* the configuration's for a knob that is None.                            *)
LEMMA Written ==
  ASSUME TypeOK, side' = Snapshot(knob'), NEW k \in KnobNames
  PROVE  \/ Merged(k)' = knob'[k]
         \/ k = "only_template" /\ knob'[k] = NoName /\ Merged(k)' = Cfg[k]
<1>1. CASE k = "etl_hook"
  <2>1. side'[k] = {knob'[k]}
    BY <1>1 DEF Snapshot
  <2> QED BY <2>1 DEF Merged
<1>2. CASE k # "etl_hook" /\ knob'[k] = NoName
  <2>1. side'[k] = {} /\ k = "only_template"
    BY <1>2 DEF Snapshot, KnobNames
  <2> QED BY <1>2, <2>1 DEF Merged
<1>3. CASE k # "etl_hook" /\ knob'[k] # NoName
  <2>1. side'[k] = {knob'[k]}
    BY <1>3 DEF Snapshot
  <2> QED BY <2>1 DEF Merged
<1> QED BY <1>1, <1>2, <1>3

LEMMA KnobWritten ==
  ASSUME TypeOK, KnobInv, NEW k \in KnobNames, NEW v \in KnobValues[k],
         SetKnob(k, v)
  PROVE  KnobInv'
<1> SUFFICES ASSUME NEW n \in KnobNames
             PROVE  Meant(n, knob[n])' /\ Meant(n, Merged(n))'
  BY DEF KnobInv
<1>0. /\ knob = [m \in KnobNames |-> knob[m]]
      /\ told = [m \in KnobNames |-> told[m]]
      /\ tried = [m \in KnobNames |-> tried[m]]
  BY DEF TypeOK, IsKnobs, IsKnobSets
<1>1. Meant(n, knob[n])'
  <2>1. CASE n = k
    <3>1. knob'[n] = v /\ told'[n] = v
      BY <1>0, <2>1 DEF SetKnob
    <3> QED BY <3>1 DEF Meant
  <2>2. CASE n # k
    <3>1. knob'[n] = knob[n] /\ told'[n] = told[n] /\ tried'[n] = tried[n]
      BY <1>0, <2>2 DEF SetKnob
    <3> QED BY <3>1 DEF Meant, KnobInv
  <2> QED BY <2>1, <2>2
<1>2. \/ Merged(n)' = knob'[n]
      \/ n = "only_template" /\ knob'[n] = NoName /\ Merged(n)' = Cfg[n]
  BY Written DEF SetKnob
<1>3. Meant(n, Merged(n))'
  BY <1>1, <1>2 DEF Meant
<1> QED BY <1>1, <1>3

LEMMA KnobFailed ==
  ASSUME TypeOK, KnobInv, NEW k \in KnobNames, NEW v \in KnobValues[k],
         SetKnobFails(k, v)
  PROVE  KnobInv'
<1> SUFFICES ASSUME NEW n \in KnobNames
             PROVE  Meant(n, knob[n])' /\ Meant(n, Merged(n))'
  BY DEF KnobInv
<1>0. /\ knob = [m \in KnobNames |-> knob[m]]
      /\ tried = [m \in KnobNames |-> tried[m]]
  BY DEF TypeOK, IsKnobs, IsKnobSets
<1>1. told' = told /\ side' = side
  BY DEF SetKnobFails
<1>2. tried[n] \subseteq tried'[n]
  BY <1>0 DEF SetKnobFails
<1>3. knob'[n] = knob[n] \/ knob'[n] \in tried'[n]
  BY <1>0 DEF SetKnobFails
<1>4. Merged(n)' = Merged(n)
  BY <1>1 DEF Merged
<1> QED BY <1>1, <1>2, <1>3, <1>4 DEF KnobInv, Meant

LEMMA KnobKept ==
  ASSUME KnobInv, UNCHANGED knobs
  PROVE  KnobInv'
BY DEF KnobInv, Meant, Merged, knobs

LEMMA KnobRestart ==
  ASSUME KnobInv, Restart
  PROVE  KnobInv'
<1>1. \A k \in KnobNames : knob'[k] = Merged(k)
  BY DEF Restart
<1>2. UNCHANGED <<side, told, tried>>
  BY DEF Restart
<1> QED BY <1>1, <1>2 DEF KnobInv, Meant, Merged

LEMMA KnobStep ==
  ASSUME TypeOK, KnobInv, Next
  PROVE  KnobInv'
<1>1. CASE LoadPage
  BY <1>1, KnobKept DEF LoadPage
<1>2. ASSUME NEW kind \in Kinds, NEW id \in DOMAIN inst[kind], Confirm(kind, id)
      PROVE  KnobInv'
  BY <1>2, KnobKept DEF Confirm
<1>3. ASSUME NEW k \in KnobNames, NEW v \in KnobValues[k],
             SetKnob(k, v) \/ SetKnobFails(k, v)
      PROVE  KnobInv'
  BY <1>3, KnobWritten, KnobFailed
<1>4. ASSUME NEW new, Write(new)
      PROVE  KnobInv'
  BY <1>4, KnobKept DEF Write
<1> QED BY <1>1, <1>2, <1>3, <1>4, EditSteps, KnobRestart DEF Next

(* Across failed writes and restarts, a knob is a value the operator set   *)
(* it to since its last good write, or was last told.                      *)
THEOREM EditorKnobs == Spec => []KnobsAsTold
<1>1. Init => KnobInv
  BY KnobInit
<1>2. TypeOK /\ KnobInv /\ [Next]_vars => KnobInv'
  BY KnobStep, KnobKept DEF vars, knobs
<1>3. KnobInv => KnobsAsTold
  BY DEF KnobInv, KnobsAsTold, Meant
<1> QED BY <1>1, <1>2, <1>3, EditorTypes, PTL DEF Spec

-----------------------------------------------------------------------------
(* Forms. *)

LEMMA SaveRenamesNothing ==
  ASSUME TypeOK, NEW kind \in Kinds, NEW id \in DOMAIN page[kind],
         NEW rec \in Rec[kind], Save(kind, id, rec),
         last'.posted = last'.shown,
         last'.kind = "acct" => last'.shown = last'.was
  PROVE  inst' = Put(inst, last'.kind, last'.hit, inst'[last'.kind][last'.hit])
<1>1. PICK hit \in Found(inst, kind, Address(page, kind, id)) :
        /\ Write(Saved(inst, kind, hit, rec))
        /\ last' = [kind |-> kind, hit |-> hit, shown |-> Trigger(kind, page[kind][id]),
                    was |-> Trigger(kind, inst[kind][hit]),
                    posted |-> Trigger(kind, rec)]
  BY DEF Save
<1>2. last'.kind = kind /\ last'.hit = hit
  BY <1>1
<1>3. Trigger(kind, inst[kind][hit]) = Trigger(kind, rec)
  <2>1. CASE kind = "acct"
    BY <1>1, <2>1
  <2>2. CASE kind # "acct"
    <3>1. Trigger(kind, page[kind][id]) = Trigger(kind, rec)
      BY <1>1
    <3>2. kind \notin Opaque => Key(inst, kind, hit) = Key(page, kind, id)
      BY <1>1 DEF Found, Address
    <3>3. Trigger(kind, inst[kind][hit]) = Trigger(kind, page[kind][id])
      BY <2>2, <3>2, KindsAre DEF Key, Trigger, Opaque
    <3> QED BY <3>1, <3>3
  <2> QED BY <2>1, <2>2
<1>4. inst' = Put(inst, kind, hit, rec)
  BY <1>1, <1>3 DEF Write, Saved
<1>5. hit \in Ids[kind] /\ IsInstance(inst)
  BY <1>1 DEF Found, TypeOK, IsInstance
<1>6. inst'[kind][hit] = rec
  BY <1>4, <1>5, PutIsInstance
<1> QED BY <1>2, <1>4, <1>6

LEMMA OnlySaveSaves ==
  ASSUME TypeOK, Next, last'.kind # "none"
  PROVE  \E kind \in Kinds : \E id \in DOMAIN page[kind] : \E rec \in Rec[kind] :
           Save(kind, id, rec)
<1>1. last' # NoSave
  BY DEF NoSave
<1>2. ~LoadPage /\ ~Restart
  BY <1>1 DEF LoadPage, Restart
<1>3. \A kind, id : ~Confirm(kind, id)
  BY <1>1 DEF Confirm
<1>4. \A kind : ~Delete(kind)
  BY <1>1 DEF Delete
<1>5. \A k, v : ~SetKnob(k, v) /\ ~SetKnobFails(k, v)
  BY <1>1 DEF SetKnob, SetKnobFails
<1>6. \A kind, id, rec : ~Create(kind, id, rec)
  BY <1>1 DEF Create
<1>7. \A id, rec : ~CreateAttached(id, rec) /\ ~CreatePaired(id, rec)
  BY <1>1 DEF CreateAttached, CreatePaired
<1> QED BY <1>2, <1>3, <1>4, <1>5, <1>6, <1>7 DEF Next

(* A form with its name field untouched renames nothing. *)
THEOREM EditorForms == Spec => UntouchedRenamesNothing
<1>1. TypeOK /\ [Next]_vars =>
        [last'.kind # "none" /\ last'.posted = last'.shown
           /\ (last'.kind = "acct" => last'.shown = last'.was)
         => inst' = Put(inst, last'.kind, last'.hit, inst'[last'.kind][last'.hit])]_vars
  BY OnlySaveSaves, SaveRenamesNothing
<1> QED BY <1>1, EditorTypes, PTL DEF Spec, UntouchedRenamesNothing
=============================================================================
