--------------------------- MODULE EditorUndoProofs ---------------------------
(***************************************************************************)
(* Renaming an entity of a valid instance to a name nobody has, and back,  *)
(* is as if nothing had been saved.                                        *)
(***************************************************************************)
EXTENDS EditorGraphProofs

-----------------------------------------------------------------------------
(* A name replaced by one that did not occur, and back. *)

LEMMA SubBack ==
  ASSUME NEW n, NEW old, NEW new, n # new
  PROVE  Sub(Sub(n, old, new), new, old) = n
BY DEF Sub

LEMMA SubAllBack ==
  ASSUME NEW S, NEW old, NEW new, new \notin S
  PROVE  SubAll(SubAll(S, old, new), new, old) = S
<1>1. \A n \in S : Sub(Sub(n, old, new), new, old) = n
  BY SubBack
<1>2. SubAll(SubAll(S, old, new), new, old)
        = {Sub(Sub(n, old, new), new, old) : n \in S}
  BY DEF SubAll
<1> QED BY <1>1, <1>2

LEMMA SubBareBack ==
  ASSUME NEW B, NEW old, NEW new, Bare(new) \notin B
  PROVE  SubBare(SubBare(B, old, new), new, old) = B
<1> DEFINE one(b) == IF b = Bare(old) THEN Bare(new) ELSE b
           back(b) == IF b = Bare(new) THEN Bare(old) ELSE b
<1>1. \A b \in B : back(one(b)) = b
  OBVIOUS
<1>2. SubBare(SubBare(B, old, new), new, old) = {back(one(b)) : b \in B}
  BY DEF SubBare
<1> QED BY <1>1, <1>2

LEMMA HoldersBack ==
  ASSUME NEW f, NEW g, NEW h, NEW old, NEW new,
         AsHolders(f, g, old, new), AsHolders(g, h, new, old),
         \A a \in DOMAIN f : f[a].role # new /\ f[a].parent # new
  PROVE  /\ DOMAIN h = DOMAIN f
         /\ \A a \in DOMAIN f : h[a].role = f[a].role /\ h[a].parent = f[a].parent
<1>1. DOMAIN g = DOMAIN f /\ DOMAIN h = DOMAIN f
  BY DEF AsHolders
<1>2. ASSUME NEW a \in DOMAIN f
      PROVE  h[a].role = f[a].role /\ h[a].parent = f[a].parent
  <2>1. /\ h[a].role = Sub(Sub(f[a].role, old, new), new, old)
        /\ h[a].parent = Sub(Sub(f[a].parent, old, new), new, old)
    BY <1>1 DEF AsHolders
  <2> QED BY <2>1, SubBack
<1> QED BY <1>1, <1>2

LEMMA SameSeq ==
  ASSUME NEW S, NEW s \in Seq(S), NEW t \in Seq(S), DOMAIN s = DOMAIN t,
         \A k \in DOMAIN s : s[k] = t[k]
  PROVE  s = t
OBVIOUS

LEMMA ChainsBack ==
  ASSUME NEW f, NEW g, NEW h, NEW old, NEW new,
         f \in [DOMAIN f -> ChainRec], h \in [DOMAIN h -> ChainRec],
         AsChains(f, g, old, new), AsChains(g, h, new, old),
         \A c \in DOMAIN f : /\ f[c].parent # new
                             /\ \A k \in DOMAIN f[c].children :
                                  f[c].children[k].name # new
  PROVE  h = f
<1>1. DOMAIN g = DOMAIN f /\ DOMAIN h = DOMAIN f
  BY DEF AsChains
<1>2. ASSUME NEW c \in DOMAIN f
      PROVE  h[c] = f[c]
  <2> DEFINE Child == [name : Names, fanIn : BOOLEAN]
             s == f[c].children
             t == h[c].children
  <2>1. h[c] \in ChainRec /\ f[c] \in ChainRec
    BY <1>1
  <2>2. h[c].parent = f[c].parent
    <3>1. h[c].parent = Sub(Sub(f[c].parent, old, new), new, old)
      BY <1>1 DEF AsChains
    <3> QED BY <3>1, SubBack
  <2>3. s \in Seq(Child) /\ t \in Seq(Child)
    BY <2>1 DEF ChainRec
  <2>4. DOMAIN t = DOMAIN s
    BY <1>1 DEF AsChains
  <2>5. ASSUME NEW k \in DOMAIN s
        PROVE  t[k] = s[k]
    <3>1. /\ t[k].name = Sub(Sub(s[k].name, old, new), new, old)
          /\ t[k].fanIn = s[k].fanIn
      BY <1>1 DEF AsChains
    <3>2. t[k].name = s[k].name
      BY <3>1, SubBack
    <3>3. t[k] \in Child /\ s[k] \in Child
      <4> HIDE DEF Child, s, t
      <4> QED BY <2>3, <2>4
    <3> QED BY <3>1, <3>2, <3>3
  <2>6. t = s
    <3> HIDE DEF Child, s, t
    <3> QED BY <2>3, <2>4, <2>5, SameSeq
  <2>7. \A x \in ChainRec : x = [parent |-> x.parent, children |-> x.children]
    BY DEF ChainRec
  <2>8. h[c].children = f[c].children
    BY <2>6
  <2>9. /\ h[c] = [parent |-> h[c].parent, children |-> h[c].children]
        /\ f[c] = [parent |-> f[c].parent, children |-> f[c].children]
    BY <2>1, <2>7
  <2> HIDE DEF s, t
  <2> QED BY <2>2, <2>8, <2>9
<1> QED BY <1>1, <1>2, SameFunction

(* An instance is its six kinds. *)
LEMMA SameInstance ==
  ASSUME NEW i, NEW k, IsInstance(i), IsInstance(k),
         k.acct = i.acct, k.atpl = i.atpl, k.rail = i.rail,
         k.tpl = i.tpl, k.chain = i.chain, k.limit = i.limit
  PROVE  k = i
<1>1. \A kind \in Kinds : k[kind] = i[kind]
  BY DEF Kinds
<1>2. i = [kind \in Kinds |-> i[kind]] /\ k = [kind \in Kinds |-> k[kind]]
  BY DEF IsInstance
<1> QED BY <1>1, <1>2, SameFunction

LEMMA RenamedInstance ==
  ASSUME NEW i, IsInstance(i), NEW kind \in Named, NEW id \in DOMAIN i[kind],
         NEW new \in Names, new # Trigger(kind, i[kind][id])
  PROVE  IsInstance(Renamed(i, kind, id, new))
<1>1. kind \in Kinds
  BY DEF Named, Kinds
<1>2. Retitled(kind, i[kind][id], new) \in Rec[kind]
  BY RenamedIs
<1> QED BY <1>1, <1>2, SavedIsInstance DEF Renamed

-----------------------------------------------------------------------------
(* Roles. *)
LEMMA RoleUndone ==
  ASSUME NEW i, IsInstance(i), Valid(i), NEW j, NEW k, IsInstance(k),
         NEW old, NEW new \in Names, new \notin Roles(i),
         AsRole(i, j, old, new), AsRole(j, k, new, old)
  PROVE  k = i
<1>1. new # NoName
  BY NoNameAssumption
<1>2. /\ i.acct \in [DOMAIN i.acct -> AcctRec] /\ k.acct \in [DOMAIN k.acct -> AcctRec]
      /\ i.atpl \in [DOMAIN i.atpl -> ATplRec] /\ k.atpl \in [DOMAIN k.atpl -> ATplRec]
      /\ i.rail \in [DOMAIN i.rail -> RailRec] /\ k.rail \in [DOMAIN k.rail -> RailRec]
      /\ i.limit \in [DOMAIN i.limit -> LimitRec]
      /\ k.limit \in [DOMAIN k.limit -> LimitRec]
  BY OfKind
<1>3. k.acct = i.acct
  <2>1. \A a \in DOMAIN i.acct : i.acct[a].role # new /\ i.acct[a].parent # new
    BY <1>1 DEF Valid, R2, Roles, AcctRoles
  <2>2. AsHolders(i.acct, j.acct, old, new) /\ AsHolders(j.acct, k.acct, new, old)
    BY DEF AsRole
  <2>3. /\ DOMAIN k.acct = DOMAIN i.acct
        /\ \A a \in DOMAIN i.acct : /\ k.acct[a].role = i.acct[a].role
                                    /\ k.acct[a].parent = i.acct[a].parent
    BY <2>1, <2>2, HoldersBack
  <2>4. \A a \in DOMAIN i.acct : k.acct[a] = i.acct[a]
    <3>1. \A a \in DOMAIN i.acct : i.acct[a] \in AcctRec /\ k.acct[a] \in AcctRec
      BY <1>2, <2>3
    <3> QED BY <2>3, <3>1 DEF AcctRec
  <2> QED BY <1>2, <2>3, <2>4, SameFunction
<1>4. k.atpl = i.atpl
  <2>1. \A a \in DOMAIN i.atpl : i.atpl[a].role # new /\ i.atpl[a].parent # new
    BY <1>1 DEF Valid, R3, Roles, TplRoles
  <2>2. AsHolders(i.atpl, j.atpl, old, new) /\ AsHolders(j.atpl, k.atpl, new, old)
    BY DEF AsRole
  <2>3. /\ DOMAIN k.atpl = DOMAIN i.atpl
        /\ \A t \in DOMAIN i.atpl : /\ k.atpl[t].role = i.atpl[t].role
                                    /\ k.atpl[t].parent = i.atpl[t].parent
    BY <2>1, <2>2, HoldersBack
  <2>4. \A t \in DOMAIN i.atpl : k.atpl[t].format = i.atpl[t].format
    BY <2>2 DEF AsRole, AsHolders
  <2>5. \A t \in DOMAIN i.atpl : k.atpl[t] = i.atpl[t]
    <3>1. \A t \in DOMAIN i.atpl : i.atpl[t] \in ATplRec /\ k.atpl[t] \in ATplRec
      BY <1>2, <2>3
    <3> QED BY <2>3, <2>4, <3>1 DEF ATplRec
  <2> QED BY <1>2, <2>3, <2>5, SameFunction
<1>5. k.tpl = i.tpl /\ k.chain = i.chain
  BY DEF AsRole
<1>6. k.rail = i.rail
  <2>1. DOMAIN k.rail = DOMAIN i.rail
    BY DEF AsRole
  <2>2. ASSUME NEW r \in DOMAIN i.rail
        PROVE  k.rail[r] = i.rail[r]
    <3> DEFINE S == i.rail[r].roles
    <3>1. /\ j.rail[r] = [i.rail[r] EXCEPT !.roles = SubAll(S, old, new)]
          /\ k.rail[r] = [j.rail[r] EXCEPT !.roles = SubAll(j.rail[r].roles, new, old)]
      BY DEF AsRole
    <3>2. SubAll(SubAll(S, old, new), new, old) = S
      <4>1. new \notin S
        BY DEF Valid, R1
      <4> HIDE DEF S
      <4> QED BY <4>1, SubAllBack
    <3>3. i.rail[r] \in RailRec
      BY <1>2
    <3>4. j.rail[r].roles = SubAll(S, old, new)
      BY <3>1, <3>3 DEF RailRec
    <3>5. k.rail[r] = [j.rail[r] EXCEPT !.roles = S]
      BY <3>1, <3>2, <3>4
    <3> QED BY <3>1, <3>3, <3>5 DEF RailRec
  <2> QED BY <1>2, <2>1, <2>2, SameFunction
<1>7. k.limit = i.limit
  <2>1. DOMAIN k.limit = DOMAIN i.limit
    BY DEF AsRole
  <2>2. ASSUME NEW l \in DOMAIN i.limit
        PROVE  k.limit[l] = i.limit[l]
    <3> DEFINE n == i.limit[l].parent
    <3>1. /\ j.limit[l] = [i.limit[l] EXCEPT !.parent = Sub(n, old, new)]
          /\ k.limit[l] = [j.limit[l] EXCEPT !.parent = Sub(j.limit[l].parent, new, old)]
      BY DEF AsRole
    <3>2. Sub(Sub(n, old, new), new, old) = n
      <4>1. n # new
        BY DEF Valid, R6
      <4> HIDE DEF n
      <4> QED BY <4>1, SubBack
    <3>3. i.limit[l] \in LimitRec
      BY <1>2
    <3>4. j.limit[l].parent = Sub(n, old, new)
      BY <3>1, <3>3 DEF LimitRec
    <3>5. k.limit[l] = [j.limit[l] EXCEPT !.parent = n]
      BY <3>1, <3>2, <3>4
    <3> QED BY <3>1, <3>3, <3>5 DEF LimitRec
  <2> QED BY <1>2, <2>1, <2>2, SameFunction
<1> QED BY <1>3, <1>4, <1>5, <1>6, <1>7, SameInstance

(* Rails. *)
LEMMA RailUndone ==
  ASSUME NEW i, IsInstance(i), Valid(i), NEW j, NEW k, IsInstance(k),
         NEW old, NEW new, new \notin Endpoints(i),
         AsRail(i, j, old, new), AsRail(j, k, new, old)
  PROVE  k = i
<1>1. /\ i.rail \in [DOMAIN i.rail -> RailRec] /\ k.rail \in [DOMAIN k.rail -> RailRec]
      /\ i.tpl \in [DOMAIN i.tpl -> TplRec] /\ k.tpl \in [DOMAIN k.tpl -> TplRec]
      /\ i.chain \in [DOMAIN i.chain -> ChainRec]
      /\ k.chain \in [DOMAIN k.chain -> ChainRec]
  BY OfKind
<1>2. new \notin RailNames(i)
  BY DEF Endpoints
<1>3. k.acct = i.acct /\ k.atpl = i.atpl /\ k.limit = i.limit
  BY DEF AsRail
<1>4. k.rail = i.rail
  <2>1. DOMAIN k.rail = DOMAIN i.rail
    BY DEF AsRail
  <2>2. ASSUME NEW r \in DOMAIN i.rail
        PROVE  k.rail[r] = i.rail[r]
    <3> DEFINE n == i.rail[r].name
               B == i.rail[r].bundles
    <3>1. /\ j.rail[r] = [i.rail[r] EXCEPT !.name = Sub(n, old, new),
                                           !.bundles = SubBare(B, old, new)]
          /\ k.rail[r] = [j.rail[r] EXCEPT !.name = Sub(j.rail[r].name, new, old),
                                           !.bundles = SubBare(j.rail[r].bundles, new, old)]
      BY DEF AsRail
    <3>2. Sub(Sub(n, old, new), new, old) = n
      <4>1. n # new
        BY <1>2 DEF RailNames
      <4> HIDE DEF n
      <4> QED BY <4>1, SubBack
    <3>3. SubBare(SubBare(B, old, new), new, old) = B
      <4>1. \A b \in B : b.name \in RailNames(i)
        BY Resolved
      <4>2. Bare(new).name = new
        BY DEF Bare
      <4> HIDE DEF B
      <4> QED BY <1>2, <4>1, <4>2, SubBareBack
    <3>4. i.rail[r] \in RailRec
      BY <1>1
    <3>5. j.rail[r].name = Sub(n, old, new) /\ j.rail[r].bundles = SubBare(B, old, new)
      BY <3>1, <3>4 DEF RailRec
    <3>6. k.rail[r] = [j.rail[r] EXCEPT !.name = n, !.bundles = B]
      BY <3>1, <3>2, <3>3, <3>5
    <3> QED BY <3>1, <3>4, <3>6 DEF RailRec
  <2> QED BY <1>1, <2>1, <2>2, SameFunction
<1>5. k.tpl = i.tpl
  <2>1. DOMAIN k.tpl = DOMAIN i.tpl
    BY DEF AsRail
  <2>2. ASSUME NEW t \in DOMAIN i.tpl
        PROVE  k.tpl[t] = i.tpl[t]
    <3> DEFINE S == i.tpl[t].legs
    <3>1. /\ j.tpl[t] = [i.tpl[t] EXCEPT !.legs = SubAll(S, old, new)]
          /\ k.tpl[t] = [j.tpl[t] EXCEPT !.legs = SubAll(j.tpl[t].legs, new, old)]
      BY DEF AsRail
    <3>2. SubAll(SubAll(S, old, new), new, old) = S
      <4>1. new \notin S
        BY <1>2, Resolved
      <4> HIDE DEF S
      <4> QED BY <4>1, SubAllBack
    <3>3. i.tpl[t] \in TplRec
      BY <1>1
    <3>4. j.tpl[t].legs = SubAll(S, old, new)
      BY <3>1, <3>3 DEF TplRec
    <3>5. k.tpl[t] = [j.tpl[t] EXCEPT !.legs = S]
      BY <3>1, <3>2, <3>4
    <3> QED BY <3>1, <3>3, <3>5 DEF TplRec
  <2> QED BY <1>1, <2>1, <2>2, SameFunction
<1>6. k.chain = i.chain
  <2>1. AsChains(i.chain, j.chain, old, new) /\ AsChains(j.chain, k.chain, new, old)
    BY DEF AsRail
  <2>2. \A c \in DOMAIN i.chain :
          /\ i.chain[c].parent # new
          /\ \A m \in DOMAIN i.chain[c].children : i.chain[c].children[m].name # new
    BY Resolved
  <2> QED BY <1>1, <2>1, <2>2, ChainsBack
<1> QED BY <1>3, <1>4, <1>5, <1>6, SameInstance

(* Templates. *)
LEMMA TplUndone ==
  ASSUME NEW i, IsInstance(i), Valid(i), NEW j, NEW k, IsInstance(k),
         NEW old, NEW new, new \notin Endpoints(i),
         AsTpl(i, j, old, new), AsTpl(j, k, new, old)
  PROVE  k = i
<1>1. /\ i.tpl \in [DOMAIN i.tpl -> TplRec] /\ k.tpl \in [DOMAIN k.tpl -> TplRec]
      /\ i.chain \in [DOMAIN i.chain -> ChainRec]
      /\ k.chain \in [DOMAIN k.chain -> ChainRec]
  BY OfKind
<1>2. /\ k.acct = i.acct /\ k.atpl = i.atpl /\ k.limit = i.limit
      /\ k.rail = i.rail
  BY DEF AsTpl
<1>3. k.tpl = i.tpl
  <2>1. DOMAIN k.tpl = DOMAIN i.tpl
    BY DEF AsTpl
  <2>2. ASSUME NEW t \in DOMAIN i.tpl
        PROVE  k.tpl[t] = i.tpl[t]
    <3> DEFINE n == i.tpl[t].name
    <3>1. /\ j.tpl[t] = [i.tpl[t] EXCEPT !.name = Sub(n, old, new)]
          /\ k.tpl[t] = [j.tpl[t] EXCEPT !.name = Sub(j.tpl[t].name, new, old)]
      BY DEF AsTpl
    <3>2. Sub(Sub(n, old, new), new, old) = n
      <4>1. n # new
        BY DEF TplNames, Endpoints
      <4> HIDE DEF n
      <4> QED BY <4>1, SubBack
    <3>3. i.tpl[t] \in TplRec
      BY <1>1
    <3>4. j.tpl[t].name = Sub(n, old, new)
      BY <3>1, <3>3 DEF TplRec
    <3>5. k.tpl[t] = [j.tpl[t] EXCEPT !.name = n]
      BY <3>1, <3>2, <3>4
    <3> QED BY <3>1, <3>3, <3>5 DEF TplRec
  <2> QED BY <1>1, <2>1, <2>2, SameFunction
<1>4. k.chain = i.chain
  <2>1. AsChains(i.chain, j.chain, old, new) /\ AsChains(j.chain, k.chain, new, old)
    BY DEF AsTpl
  <2>2. \A c \in DOMAIN i.chain :
          /\ i.chain[c].parent # new
          /\ \A m \in DOMAIN i.chain[c].children : i.chain[c].children[m].name # new
    BY Resolved
  <2> QED BY <1>1, <2>1, <2>2, ChainsBack
<1> QED BY <1>2, <1>3, <1>4, SameInstance

-----------------------------------------------------------------------------
(* There and back, for each kind of name. *)
LEMMA RoleThereAndBack ==
  ASSUME NEW i, IsInstance(i), Valid(i), NEW kind \in {"acct", "atpl"},
         NEW id \in DOMAIN i[kind], NEW new \in Names, new \notin Roles(i)
  PROVE  Renamed(Renamed(i, kind, id, new), kind, id, i[kind][id].role) = i
<1> DEFINE old == i[kind][id].role
           j == Renamed(i, kind, id, new)
           k == Renamed(j, kind, id, old)
<1>1. /\ kind \in Named
      /\ Trigger(kind, i[kind][id]) = old
      /\ Trigger(kind, j[kind][id]) = j[kind][id].role
  BY DEF Named, Trigger
<1>2. old \in Names /\ old # new
  BY OfKind DEF AcctRec, ATplRec, Roles, AcctRoles, TplRoles
<1>3. AsRole(i, j, old, new) /\ IsInstance(j)
  BY <1>1, <1>2, RoleRenamed, RenamedInstance
<1>4. id \in DOMAIN j[kind] /\ j[kind][id].role = new
  <2> HIDE DEF j
  <2>1. DOMAIN j[kind] = DOMAIN i[kind] /\ j[kind][id].role = Sub(old, old, new)
    BY <1>3 DEF AsRole, AsHolders
  <2> QED BY <2>1 DEF Sub
<1>5. AsRole(j, k, new, old) /\ IsInstance(k)
  <2> HIDE DEF j, old
  <2> QED BY <1>1, <1>2, <1>3, <1>4, RoleRenamed, RenamedInstance
<1> HIDE DEF j, k, old
<1>6. k = i
  BY <1>3, <1>5, RoleUndone
<1> QED BY <1>6 DEF k, j, old

LEMMA RailThereAndBack ==
  ASSUME NEW i, IsInstance(i), Valid(i), NEW id \in DOMAIN i.rail,
         NEW new \in Names, new \notin Endpoints(i),
         Valid(Renamed(i, "rail", id, new))
  PROVE  Renamed(Renamed(i, "rail", id, new), "rail", id, i.rail[id].name) = i
<1> DEFINE old == i.rail[id].name
           j == Renamed(i, "rail", id, new)
           k == Renamed(j, "rail", id, old)
<1>1. /\ "rail" \in Named
      /\ Trigger("rail", i["rail"][id]) = old
      /\ Trigger("rail", j["rail"][id]) = j.rail[id].name
  BY DEF Named, Trigger
<1>2. old \in Names /\ old # new
  BY OfKind DEF RailRec, RailNames, Endpoints
<1>3. AsRail(i, j, old, new) /\ IsInstance(j)
  BY <1>1, <1>2, RailRenamed, RenamedInstance DEF Valid
<1>4. id \in DOMAIN j.rail /\ j.rail[id].name = new
  <2> HIDE DEF j
  <2>1. DOMAIN j.rail = DOMAIN i.rail
    BY <1>3 DEF AsRail
  <2>2. j.rail[id].name = Sub(old, old, new)
    BY <1>3, RailRenamedFields
  <2> QED BY <2>1, <2>2 DEF Sub
<1>5. U3(j)
  BY DEF Valid
<1>6. AsRail(j, k, new, old) /\ IsInstance(k)
  <2> HIDE DEF j, old
  <2> QED BY <1>1, <1>2, <1>3, <1>4, <1>5, RailRenamed, RenamedInstance
<1> HIDE DEF j, k, old
<1>7. k = i
  BY <1>3, <1>6, RailUndone
<1> QED BY <1>7 DEF k, j, old

LEMMA TplThereAndBack ==
  ASSUME NEW i, IsInstance(i), Valid(i), NEW id \in DOMAIN i.tpl,
         i.tpl[id].name \notin RailNames(i),
         NEW new \in Names, new \notin Endpoints(i),
         Valid(Renamed(i, "tpl", id, new))
  PROVE  Renamed(Renamed(i, "tpl", id, new), "tpl", id, i.tpl[id].name) = i
<1> DEFINE old == i.tpl[id].name
           j == Renamed(i, "tpl", id, new)
           k == Renamed(j, "tpl", id, old)
<1>1. /\ "tpl" \in Named
      /\ Trigger("tpl", i["tpl"][id]) = old
      /\ Trigger("tpl", j["tpl"][id]) = j.tpl[id].name
  BY DEF Named, Trigger
<1>2. old \in Names /\ old # new
  BY OfKind DEF TplRec, TplNames, Endpoints
<1>3. AsTpl(i, j, old, new) /\ IsInstance(j)
  BY <1>1, <1>2, TplRenamed, RenamedInstance DEF Valid
<1>4. id \in DOMAIN j.tpl /\ j.tpl[id].name = new
  <2> HIDE DEF j
  <2>1. i.tpl[id] \in TplRec
    BY OfKind
  <2>2. /\ DOMAIN j.tpl = DOMAIN i.tpl
        /\ j.tpl[id] = [i.tpl[id] EXCEPT !.name = Sub(old, old, new)]
    BY <1>3 DEF AsTpl
  <2>3. Sub(old, old, new) = new
    BY DEF Sub
  <2> QED BY <2>1, <2>2, <2>3 DEF TplRec
<1>5. U4(j) /\ R11(j) /\ S56(j)
  BY DEF Valid
<1>6. new \notin RailNames(j)
  <2> HIDE DEF j
  <2> QED BY <1>3 DEF AsTpl, RailNames, Endpoints
<1>7. AsTpl(j, k, new, old) /\ IsInstance(k)
  <2> HIDE DEF j, old
  <2>1. j.tpl[id].name \notin RailNames(j)
    BY <1>4, <1>6
  <2>2. old # j.tpl[id].name
    BY <1>2, <1>4
  <2>3. AsTpl(j, Renamed(j, "tpl", id, old), j.tpl[id].name, old)
    BY <1>2, <1>3, <1>4, <1>5, <2>1, <2>2, TplRenamed
  <2> QED BY <1>1, <1>2, <1>3, <1>4, <2>3, RenamedInstance
<1> HIDE DEF j, k, old
<1>8. k = i
  BY <1>3, <1>7, TplUndone
<1> QED BY <1>8 DEF k, j, old

LEMMA RenamesUndone ==
  ASSUME TypeOK
  PROVE  RenameUndone
<1>1. IsInstance(inst) /\ Valid(inst)
  BY DEF TypeOK
<1>2. ASSUME NEW e \in Renamable(inst), NEW n \in Names \ Used(inst),
             Valid(Renamed(inst, e[1], e[2], n))
      PROVE  Renamed(Renamed(inst, e[1], e[2], n), e[1], e[2],
                     Trigger(e[1], inst[e[1]][e[2]])) = inst
  <2>1. PICK kind \in Named : \E id \in DOMAIN inst[kind] :
          e = <<kind, id>> /\ Trigger(kind, inst[kind][id]) \notin Namesakes(inst)
    BY DEF Renamable
  <2>2. PICK id \in DOMAIN inst[kind] :
          e = <<kind, id>> /\ Trigger(kind, inst[kind][id]) \notin Namesakes(inst)
    BY <2>1
  <2>3. n \in Names /\ n \notin Roles(inst) /\ n \notin Endpoints(inst)
    BY DEF Used
  <2> SUFFICES ASSUME Valid(Renamed(inst, kind, id, n))
               PROVE  Renamed(Renamed(inst, kind, id, n), kind, id,
                              Trigger(kind, inst[kind][id])) = inst
    BY <1>2, <2>2
  <2>4. CASE kind \in {"acct", "atpl"}
    <3>1. Trigger(kind, inst[kind][id]) = inst[kind][id].role
      BY <2>4 DEF Trigger
    <3> QED BY <1>1, <2>3, <2>4, <3>1, RoleThereAndBack
  <2>5. CASE kind = "rail"
    <3>1. Trigger(kind, inst[kind][id]) = inst.rail[id].name
      BY <2>5 DEF Trigger
    <3> QED BY <1>1, <2>3, <2>5, <3>1, RailThereAndBack
  <2>6. CASE kind = "tpl"
    <3>1. Trigger(kind, inst[kind][id]) = inst.tpl[id].name
      BY <2>6 DEF Trigger
    <3>2. inst.tpl[id].name \in TplNames(inst)
      BY <2>6 DEF TplNames
    <3>3. inst.tpl[id].name \notin RailNames(inst)
      BY <2>2, <2>6, <3>1, <3>2 DEF Namesakes
    <3> QED BY <1>1, <2>3, <2>6, <3>1, <3>3, TplThereAndBack
  <2> QED BY <2>4, <2>5, <2>6 DEF Named
<1> QED BY <1>2 DEF RenameUndone

(* Whatever L2 file Studio edits, an accepted rename to a name nobody has  *)
(* loses nothing: a second rename, to the old name, gives the instance as  *)
(* it was.                                                                 *)
THEOREM EditorUndo == Spec => []RenameUndone
BY RenamesUndone, EditorTypes, PTL
=============================================================================
