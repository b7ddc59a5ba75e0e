-------------------------- MODULE EditorGraphProofs --------------------------
(***************************************************************************)
(* What a Delete and a rename of the editor do to the references of an     *)
(* instance the validator accepts, whatever the instance.                  *)
(***************************************************************************)
EXTENDS StudioEditorProofs

-----------------------------------------------------------------------------
(* Delete.  What is left of the kind the entity was of. *)
Less(f, id) == [e \in DOMAIN f \ {id} |-> f[e]]

LEMMA WithoutParts ==
  ASSUME NEW i, IsInstance(i), NEW kind \in Kinds, NEW id
  PROVE  /\ Without(i, kind, id)[kind] = Less(i[kind], id)
         /\ \A k \in Kinds \ {kind} : Without(i, kind, id)[k] = i[k]
<1>1. i = [k \in Kinds |-> i[k]]
  BY DEF IsInstance
<1> QED BY <1>1 DEF Without, Less

LEMMA DeleteLimit ==
  ASSUME NEW i, NEW j, NEW id, Valid(i),
         j.acct = i.acct, j.atpl = i.atpl, j.rail = i.rail,
         j.tpl = i.tpl, j.chain = i.chain, j.limit = Less(i.limit, id)
  PROVE  Valid(j)
<1>1. /\ AcctRoles(j) = AcctRoles(i) /\ TplRoles(j) = TplRoles(i)
      /\ Roles(j) = Roles(i)
      /\ RailNames(j) = RailNames(i) /\ TplNames(j) = TplNames(i)
      /\ Endpoints(j) = Endpoints(i) /\ Legs(j) = Legs(i)
      /\ Aggregators(j) = Aggregators(i) /\ Bundles(j) = Bundles(i)
      /\ Variables(j) = Variables(i)
  BY DEF AcctRoles, TplRoles, Roles, RailNames, TplNames, Endpoints, Legs,
         Aggregators, Bundles, Variables
<1>less. /\ DOMAIN j.limit = DOMAIN i.limit \ {id}
         /\ \A e \in DOMAIN j.limit : j.limit[e] = i.limit[e]
  BY DEF Less
<1>2. U5(j) /\ R6(j) /\ R10(j)
  BY <1>less, <1>1 DEF Valid, U5, R6, R10
<1>3. /\ U2(j) /\ U3(j) /\ U4(j) /\ U7(j)
      /\ R1(j) /\ R2(j) /\ R3(j) /\ R4(j) /\ R5(j)
  BY <1>1 DEF Valid, U2, U3, U4, U7, R1, R2, R3, R4, R5
<1>4. R7(j) /\ R8(j) /\ R9(j) /\ R11(j)
  BY <1>1 DEF Valid, R7, R8, R9, R11
<1>5. C1(j) /\ C1abc(j) /\ C1d(j) /\ C3(j) /\ C5(j) /\ C6(j) /\ C8a(j)
  BY <1>1 DEF Valid, C1, C1abc, C1d, C3, C5, C6, C8a
<1>6. S12(j) /\ S3(j) /\ S4(j) /\ S56(j)
  BY <1>1 DEF Valid, S12, S3, S4, S56
<1> QED BY <1>2, <1>3, <1>4, <1>5, <1>6 DEF Valid

LEMMA DeleteChain ==
  ASSUME NEW i, NEW j, NEW id, Valid(i),
         j.acct = i.acct, j.atpl = i.atpl, j.rail = i.rail,
         j.tpl = i.tpl, j.limit = i.limit, j.chain = Less(i.chain, id)
  PROVE  Valid(j)
<1>1. /\ AcctRoles(j) = AcctRoles(i) /\ TplRoles(j) = TplRoles(i)
      /\ Roles(j) = Roles(i)
      /\ RailNames(j) = RailNames(i) /\ TplNames(j) = TplNames(i)
      /\ Endpoints(j) = Endpoints(i) /\ Legs(j) = Legs(i)
      /\ Aggregators(j) = Aggregators(i) /\ Bundles(j) = Bundles(i)
      /\ Variables(j) = Variables(i)
  BY DEF AcctRoles, TplRoles, Roles, RailNames, TplNames, Endpoints, Legs,
         Aggregators, Bundles, Variables
<1>less. /\ DOMAIN j.chain = DOMAIN i.chain \ {id}
         /\ \A e \in DOMAIN j.chain : j.chain[e] = i.chain[e]
  BY DEF Less
<1>2. R5(j) /\ C5(j) /\ C6(j) /\ C8a(j) /\ S4(j)
  <2>1. R5(j) /\ C5(j)
    BY <1>less, <1>1 DEF Valid, R5, C5
  <2>2. C6(j)
    BY <1>less DEF Valid, C6
  <2>3. C8a(j) /\ S4(j)
    BY <1>less, <1>1 DEF Valid, C8a, S4
  <2> QED BY <2>1, <2>2, <2>3
<1>3. /\ U2(j) /\ U3(j) /\ U4(j) /\ U5(j) /\ U7(j)
      /\ R1(j) /\ R2(j) /\ R3(j) /\ R4(j)
  BY <1>1 DEF Valid, U2, U3, U4, U5, U7, R1, R2, R3, R4
<1>4. R6(j) /\ R7(j) /\ R8(j) /\ R9(j) /\ R10(j) /\ R11(j)
  BY <1>1 DEF Valid, R6, R7, R8, R9, R10, R11
<1>5. C1(j) /\ C1abc(j) /\ C1d(j) /\ C3(j)
  BY <1>1 DEF Valid, C1, C1abc, C1d, C3
<1>6. S12(j) /\ S3(j) /\ S56(j)
  BY <1>1 DEF Valid, S12, S3, S56
<1> QED BY <1>2, <1>3, <1>4, <1>5, <1>6 DEF Valid

(* The last holder of a role that is not used may go. *)
LEMMA DeleteAcct ==
  ASSUME NEW i, NEW j, NEW id \in DOMAIN i.acct, Valid(i), IsInstance(i),
         j.atpl = i.atpl, j.rail = i.rail, j.tpl = i.tpl,
         j.chain = i.chain, j.limit = i.limit, j.acct = Less(i.acct, id)
  PROVE  /\ Referenced(i, "acct", id) => ~Valid(j)
         /\ ~Referenced(i, "acct", id) => (Valid(j) <=> R3(j))
<1> DEFINE n == i.acct[id].role
           shared == \/ \E a \in DOMAIN i.acct \ {id} : i.acct[a].role = n
                     \/ n \in TplRoles(i)
           used == RoleUsed(i, n, "acct", id)
<1>0. n \in Names /\ n # NoName
  BY OfKind, NoNameAssumption DEF AcctRec
<1>less. /\ DOMAIN j.acct = DOMAIN i.acct \ {id}
         /\ \A e \in DOMAIN j.acct : j.acct[e] = i.acct[e]
  BY DEF Less
<1>1. Referenced(i, "acct", id) <=> ~shared /\ used
  BY DEF Referenced
<1>2. /\ TplRoles(j) = TplRoles(i)
      /\ RailNames(j) = RailNames(i) /\ TplNames(j) = TplNames(i)
      /\ Endpoints(j) = Endpoints(i) /\ Legs(j) = Legs(i)
      /\ Aggregators(j) = Aggregators(i) /\ Bundles(j) = Bundles(i)
      /\ Variables(j) = Variables(i)
  BY DEF TplRoles, RailNames, TplNames, Endpoints, Legs,
         Aggregators, Bundles, Variables
<1>3. Roles(i) = Roles(j) \cup {n}
  BY <1>less, <1>2 DEF Roles, AcctRoles
<1>4. n \in Roles(j) <=> shared
  BY <1>less, <1>2 DEF Roles, AcctRoles
<1>5. used <=> \/ \E a \in DOMAIN i.acct \ {id} : i.acct[a].parent = n
               \/ \E t \in DOMAIN i.atpl : i.atpl[t].parent = n
               \/ \E r \in DOMAIN i.rail : n \in i.rail[r].roles
               \/ \E l \in DOMAIN i.limit : i.limit[l].parent = n
  BY DEF RoleUsed
<1> HIDE DEF used
<1>6. ASSUME ~shared, used
      PROVE  ~Valid(j)
  <2>1. n \notin Roles(j) /\ n \notin AcctRoles(j)
    BY <1>4, <1>6 DEF Roles
  <2>2. ASSUME NEW a \in DOMAIN i.acct \ {id}, i.acct[a].parent = n
        PROVE  ~R2(j)
    <3>1. a \in DOMAIN j.acct /\ j.acct[a].parent = n
      BY <1>less, <2>2
    <3> QED BY <1>0, <2>1, <3>1 DEF R2
  <2>3. ASSUME NEW t \in DOMAIN i.atpl, i.atpl[t].parent = n
        PROVE  ~R3(j)
    BY <1>0, <2>1, <2>3 DEF R3
  <2>4. ASSUME NEW r \in DOMAIN i.rail, n \in i.rail[r].roles
        PROVE  ~R1(j)
    BY <2>1, <2>4 DEF R1
  <2>5. ASSUME NEW l \in DOMAIN i.limit, i.limit[l].parent = n
        PROVE  ~R6(j)
    BY <2>1, <2>5 DEF R6
  <2> QED BY <1>5, <1>6, <2>2, <2>3, <2>4, <2>5 DEF Valid
<1>7. ASSUME shared \/ ~used
      PROVE  R1(j) /\ R2(j) /\ R6(j)
  <2>1. CASE shared
    <3>1. Roles(j) = Roles(i)
      BY <1>3, <1>4, <2>1
    <3> QED BY <1>less, <3>1 DEF Valid, R1, R2, R6
  <2>2. CASE ~used
    <3>1. R1(j)
      BY <1>3, <1>5, <2>2 DEF Valid, R1
    <3>2. R2(j)
      BY <1>less, <1>3, <1>5, <2>2 DEF Valid, R2
    <3>3. R6(j)
      BY <1>3, <1>5, <2>2 DEF Valid, R6
    <3> QED BY <3>1, <3>2, <3>3
  <2> QED BY <1>7, <2>1, <2>2
<1>8. U2(j) /\ U3(j) /\ U4(j) /\ U5(j) /\ U7(j) /\ R4(j) /\ R5(j)
  <2>1. U7(j)
    BY <1>less DEF Valid, U7
  <2> QED BY <1>2, <2>1 DEF Valid, U2, U3, U4, U5, R4, R5
<1>9. R7(j) /\ R8(j) /\ R9(j) /\ R10(j) /\ R11(j)
  BY <1>2 DEF Valid, R7, R8, R9, R10, R11
<1>10. C1(j) /\ C1abc(j) /\ C1d(j) /\ C3(j) /\ C5(j) /\ C6(j) /\ C8a(j)
  BY <1>2 DEF Valid, C1, C1abc, C1d, C3, C5, C6, C8a
<1>11. S12(j) /\ S3(j) /\ S4(j) /\ S56(j)
  BY <1>2 DEF Valid, S12, S3, S4, S56
<1> HIDE DEF shared
<1>12. shared \/ ~used => (Valid(j) <=> R3(j))
  BY <1>7, <1>8, <1>9, <1>10, <1>11 DEF Valid
<1> QED BY <1>1, <1>6, <1>12

LEMMA DeleteATpl ==
  ASSUME NEW i, NEW j, NEW id \in DOMAIN i.atpl, Valid(i), IsInstance(i),
         j.acct = i.acct, j.rail = i.rail, j.tpl = i.tpl,
         j.chain = i.chain, j.limit = i.limit, j.atpl = Less(i.atpl, id)
  PROVE  Referenced(i, "atpl", id) <=> ~Valid(j)
<1> DEFINE n == i.atpl[id].role
           shared == n \in AcctRoles(i)
           used == RoleUsed(i, n, "atpl", id)
<1>0. n \in Names /\ n # NoName
  BY OfKind, NoNameAssumption DEF ATplRec
<1>less. /\ DOMAIN j.atpl = DOMAIN i.atpl \ {id}
         /\ \A e \in DOMAIN j.atpl : j.atpl[e] = i.atpl[e]
  BY DEF Less
<1>1. Referenced(i, "atpl", id) <=> ~shared /\ used
  BY DEF Referenced
<1>2. /\ AcctRoles(j) = AcctRoles(i)
      /\ RailNames(j) = RailNames(i) /\ TplNames(j) = TplNames(i)
      /\ Endpoints(j) = Endpoints(i) /\ Legs(j) = Legs(i)
      /\ Aggregators(j) = Aggregators(i) /\ Bundles(j) = Bundles(i)
      /\ Variables(j) = Variables(i)
  BY DEF AcctRoles, RailNames, TplNames, Endpoints, Legs,
         Aggregators, Bundles, Variables
<1>3. Roles(i) = Roles(j) \cup {n}
  BY <1>less, <1>2 DEF Roles, TplRoles
<1>4. n \in Roles(j) <=> shared
  BY <1>less, <1>2 DEF Roles, TplRoles, Valid, U2
<1>5. used <=> \/ \E a \in DOMAIN i.acct : i.acct[a].parent = n
               \/ \E t \in DOMAIN i.atpl \ {id} : i.atpl[t].parent = n
               \/ \E r \in DOMAIN i.rail : n \in i.rail[r].roles
               \/ \E l \in DOMAIN i.limit : i.limit[l].parent = n
  BY DEF RoleUsed
<1> HIDE DEF used
<1>6. ASSUME ~shared, used
      PROVE  ~Valid(j)
  <2>1. n \notin Roles(j) /\ n \notin AcctRoles(j)
    BY <1>4, <1>6 DEF Roles
  <2>2. ASSUME NEW a \in DOMAIN i.acct, i.acct[a].parent = n
        PROVE  ~R2(j)
    BY <1>0, <2>1, <2>2 DEF R2
  <2>3. ASSUME NEW t \in DOMAIN i.atpl \ {id}, i.atpl[t].parent = n
        PROVE  ~R3(j)
    <3>1. t \in DOMAIN j.atpl /\ j.atpl[t].parent = n
      BY <1>less, <2>3
    <3> QED BY <1>0, <2>1, <3>1 DEF R3
  <2>4. ASSUME NEW r \in DOMAIN i.rail, n \in i.rail[r].roles
        PROVE  ~R1(j)
    BY <2>1, <2>4 DEF R1
  <2>5. ASSUME NEW l \in DOMAIN i.limit, i.limit[l].parent = n
        PROVE  ~R6(j)
    BY <2>1, <2>5 DEF R6
  <2> QED BY <1>5, <1>6, <2>2, <2>3, <2>4, <2>5 DEF Valid
<1>7. ASSUME shared \/ ~used
      PROVE  R1(j) /\ R2(j) /\ R6(j)
  <2>1. CASE shared
    <3>1. Roles(j) = Roles(i)
      BY <1>3, <1>4, <2>1
    <3> QED BY <3>1 DEF Valid, R1, R2, R6
  <2>2. CASE ~used
    <3>1. R1(j)
      BY <1>3, <1>5, <2>2 DEF Valid, R1
    <3>2. R2(j)
      BY <1>3, <1>5, <2>2 DEF Valid, R2
    <3>3. R6(j)
      BY <1>3, <1>5, <2>2 DEF Valid, R6
    <3> QED BY <3>1, <3>2, <3>3
  <2> QED BY <1>7, <2>1, <2>2
<1>8. U2(j) /\ U3(j) /\ U4(j) /\ U5(j) /\ U7(j) /\ R3(j) /\ R4(j) /\ R5(j)
  <2>1. U2(j) /\ U7(j)
    BY <1>less DEF Valid, U2, U7
  <2>2. R3(j)
    BY <1>less, <1>2 DEF Valid, R3
  <2> QED BY <1>2, <2>1, <2>2 DEF Valid, U3, U4, U5, R4, R5
<1>9. R7(j) /\ R8(j) /\ R9(j) /\ R10(j) /\ R11(j)
  BY <1>2 DEF Valid, R7, R8, R9, R10, R11
<1>10. C1(j) /\ C1abc(j) /\ C1d(j) /\ C3(j) /\ C5(j) /\ C6(j) /\ C8a(j)
  BY <1>2 DEF Valid, C1, C1abc, C1d, C3, C5, C6, C8a
<1>11. S12(j) /\ S3(j) /\ S4(j) /\ S56(j)
  BY <1>2 DEF Valid, S12, S3, S4, S56
<1> HIDE DEF shared
<1>12. shared \/ ~used => Valid(j)
  BY <1>7, <1>8, <1>9, <1>10, <1>11 DEF Valid
<1> QED BY <1>1, <1>6, <1>12

(* A transfer template may go when no chain names it and the rails and     *)
(* selectors that had it as their reconciler still have one.               *)
LEMMA DeleteTpl ==
  ASSUME NEW i, NEW j, NEW id \in DOMAIN i.tpl, Valid(i), IsInstance(i),
         j.acct = i.acct, j.atpl = i.atpl, j.rail = i.rail,
         j.chain = i.chain, j.limit = i.limit, j.tpl = Less(i.tpl, id)
  PROVE  /\ Referenced(i, "tpl", id) /\ i.tpl[id].name \notin RailNames(i)
              => ~Valid(j)
         /\ ~Referenced(i, "tpl", id)
              => (Valid(j) <=> S12(j) /\ S3(j) /\ C3(j) /\ R9(j))
<1> DEFINE n == i.tpl[id].name
           used == ChainUsed(i, n)
<1>less. /\ DOMAIN j.tpl = DOMAIN i.tpl \ {id}
         /\ \A e \in DOMAIN j.tpl : j.tpl[e] = i.tpl[e]
  BY DEF Less
<1>1. Referenced(i, "tpl", id) <=> used
  BY DEF Referenced
<1>2. /\ AcctRoles(j) = AcctRoles(i) /\ TplRoles(j) = TplRoles(i)
      /\ Roles(j) = Roles(i) /\ RailNames(j) = RailNames(i)
      /\ Aggregators(j) = Aggregators(i) /\ Bundles(j) = Bundles(i)
      /\ Variables(j) = Variables(i)
  BY DEF AcctRoles, TplRoles, Roles, RailNames, Aggregators, Bundles, Variables
<1>3. /\ TplNames(i) = TplNames(j) \cup {n} /\ n \notin TplNames(j)
      /\ Legs(j) \subseteq Legs(i)
  <2>1. TplNames(i) = TplNames(j) \cup {n}
    BY <1>less DEF TplNames
  <2>2. n \notin TplNames(j)
    BY <1>less DEF TplNames, Valid, U4
  <2>3. Legs(j) \subseteq Legs(i)
    BY <1>less DEF Legs
  <2> QED BY <2>1, <2>2, <2>3
<1>4. used <=> \E c \in DOMAIN j.chain :
                 n \in {j.chain[c].parent} \cup ChildNames(j.chain[c])
  BY DEF ChainUsed
<1> HIDE DEF used
<1>5. ASSUME used, n \notin RailNames(i)
      PROVE  ~Valid(j)
  <2>1. n \notin Endpoints(j)
    BY <1>2, <1>3, <1>5 DEF Endpoints
  <2>2. ~R5(j)
    BY <1>4, <1>5, <2>1 DEF R5
  <2> QED BY <2>2 DEF Valid
<1>6. ASSUME ~used
      PROVE  R5(j) /\ C8a(j)
  <2>1. R5(j)
    BY <1>2, <1>3, <1>4, <1>6 DEF Valid, R5, Endpoints
  <2>2. C8a(j)
    <3>1. \A c \in DOMAIN j.chain : \A k \in DOMAIN j.chain[c].children :
            j.chain[c].children[k].name # n
      BY <1>4, <1>6 DEF ChildNames
    <3> QED BY <1>3, <3>1 DEF Valid, C8a
  <2> QED BY <2>1, <2>2
<1>7. U2(j) /\ U3(j) /\ U4(j) /\ U5(j) /\ U7(j)
  <2>1. U4(j)
    BY <1>less DEF Valid, U4
  <2> QED BY <1>2, <2>1 DEF Valid, U2, U3, U5, U7
<1>8. R1(j) /\ R2(j) /\ R3(j) /\ R4(j) /\ R6(j)
  <2>1. R4(j)
    BY <1>less, <1>2 DEF Valid, R4
  <2> QED BY <1>2, <2>1 DEF Valid, R1, R2, R3, R6
<1>9. R7(j) /\ R8(j) /\ R10(j) /\ R11(j)
  BY <1>2, <1>3 DEF Valid, R7, R8, R10, R11
<1>10. C1(j) /\ C1abc(j) /\ C1d(j) /\ C5(j) /\ C6(j)
  <2>1. C1(j)
    BY <1>less, <1>2 DEF Valid, C1
  <2>2. C1abc(j)
    BY <1>less, <1>2 DEF Valid, C1abc
  <2>3. C1d(j)
    BY <1>less DEF Valid, C1d
  <2> QED BY <2>1, <2>2, <2>3 DEF Valid, C5, C6
<1>11. S4(j) /\ S56(j)
  BY <1>2 DEF Valid, S4, S56
<1>12. ~used => (Valid(j) <=> S12(j) /\ S3(j) /\ C3(j) /\ R9(j))
  BY <1>6, <1>7, <1>8, <1>9, <1>10, <1>11 DEF Valid
<1> QED BY <1>1, <1>5, <1>12

(* A rail may go when nothing names it and no selector or watch was all    *)
(* another rail had.                                                       *)
LEMMA DeleteRail ==
  ASSUME NEW i, NEW j, NEW id \in DOMAIN i.rail, Valid(i), IsInstance(i),
         j.acct = i.acct, j.atpl = i.atpl, j.tpl = i.tpl,
         j.chain = i.chain, j.limit = i.limit, j.rail = Less(i.rail, id)
  PROVE  /\ Referenced(i, "rail", id) /\ i.rail[id].name \notin TplNames(i)
              => ~Valid(j)
         /\ ~Referenced(i, "rail", id) => (Valid(j) <=> S3(j) /\ R8(j))
<1> DEFINE n == i.rail[id].name
           used == RailUsed(i, n, id)
<1>0. n \in Names /\ n # NoName
  BY OfKind, NoNameAssumption DEF RailRec
<1>less. /\ DOMAIN j.rail = DOMAIN i.rail \ {id}
         /\ \A e \in DOMAIN j.rail : j.rail[e] = i.rail[e]
  BY DEF Less
<1>1. Referenced(i, "rail", id) <=> used
  BY DEF Referenced
<1>2. /\ AcctRoles(j) = AcctRoles(i) /\ TplRoles(j) = TplRoles(i)
      /\ Roles(j) = Roles(i) /\ TplNames(j) = TplNames(i) /\ Legs(j) = Legs(i)
  BY DEF AcctRoles, TplRoles, Roles, TplNames, Legs
<1>3. RailNames(i) = RailNames(j) \cup {n} /\ n \notin RailNames(j)
  <2>1. RailNames(i) = RailNames(j) \cup {n}
    BY <1>less DEF RailNames
  <2>2. n \notin RailNames(j)
    BY <1>less DEF RailNames, Valid, U3
  <2> QED BY <2>1, <2>2
<1>4. /\ Aggregators(j) = Aggregators(i) \ {id}
      /\ Bundles(j) \subseteq Bundles(i)
  BY <1>less DEF Aggregators, Bundles
<1>5. \A m \in Names \ {n} : m \in Variables(i) => m \in Variables(j)
  BY <1>less DEF Variables
<1>6. Variables(j) \subseteq Variables(i)
  BY <1>less DEF Variables
<1>7. used <=> \/ n \in Legs(i)
               \/ \E r \in DOMAIN i.rail \ {id} : Bare(n) \in i.rail[r].bundles
               \/ ChainUsed(i, n)
               \/ \E l \in DOMAIN i.limit : i.limit[l].rail = n
  BY DEF RailUsed
<1>8. ChainUsed(i, n) <=> \E c \in DOMAIN j.chain :
                            n \in {j.chain[c].parent} \cup ChildNames(j.chain[c])
  BY DEF ChainUsed
<1> HIDE DEF used
<1>9. ASSUME used, n \notin TplNames(i)
      PROVE  ~Valid(j)
  <2>1. CASE n \in Legs(i)
    <3>1. PICK t \in DOMAIN j.tpl : n \in j.tpl[t].legs
      BY <2>1 DEF Legs
    <3>2. ~R4(j)
      BY <1>3, <3>1 DEF R4
    <3> QED BY <3>2 DEF Valid
  <2>2. ASSUME NEW r \in DOMAIN i.rail \ {id}, Bare(n) \in i.rail[r].bundles
        PROVE  ~Valid(j)
    <3>1. r \in Aggregators(i)
      BY <2>2 DEF Aggregators, Valid, S56
    <3>2. Bare(n) \in Bundles(j)
      BY <1>less, <1>4, <2>2, <3>1 DEF Bundles
    <3>3. Bare(n).of = NoName /\ Bare(n).name = n
      BY DEF Bare
    <3>4. ~R11(j)
      BY <1>3, <3>2, <3>3 DEF R11
    <3> QED BY <3>4 DEF Valid
  <2>3. CASE ChainUsed(i, n)
    <3>1. n \notin Endpoints(j)
      BY <1>2, <1>3, <1>9 DEF Endpoints
    <3>2. ~R5(j)
      BY <1>8, <2>3, <3>1 DEF R5
    <3> QED BY <3>2 DEF Valid
  <2>4. ASSUME NEW l \in DOMAIN i.limit, i.limit[l].rail = n
        PROVE  ~Valid(j)
    <3>1. ~R10(j)
      BY <1>3, <2>4 DEF R10
    <3> QED BY <3>1 DEF Valid
  <2> QED BY <1>7, <1>9, <2>1, <2>2, <2>3, <2>4
<1>10. ASSUME ~used
       PROVE  R4(j) /\ R5(j) /\ R10(j) /\ R11(j) /\ C1abc(j) /\ C8a(j)
  <2>1. R4(j)
    <3>1. \A t \in DOMAIN j.tpl : n \notin j.tpl[t].legs
      BY <1>7, <1>10 DEF Legs
    <3> QED BY <1>3, <3>1 DEF Valid, R4
  <2>2. R5(j)
    BY <1>2, <1>3, <1>7, <1>8, <1>10 DEF Valid, R5, Endpoints
  <2>3. R10(j)
    BY <1>3, <1>7, <1>10 DEF Valid, R10
  <2>4. R11(j)
    <3> SUFFICES ASSUME NEW b \in Bundles(j), b.of = NoName
                 PROVE  b.name \in RailNames(j)
      BY DEF R11
    <3>1. PICK r \in Aggregators(j) : b \in j.rail[r].bundles
      BY DEF Bundles
    <3>2. r \in DOMAIN i.rail \ {id} /\ b \in i.rail[r].bundles
      BY <1>less, <1>4, <3>1 DEF Aggregators
    <3>3. b \in Selector
      BY <3>2, OfKind DEF RailRec
    <3>4. b = Bare(b.name)
      BY <3>3 DEF Selector, Bare
    <3>5. b.name # n
      BY <1>7, <1>10, <3>2, <3>4
    <3>6. b.name \in RailNames(i)
      BY <1>4 DEF Valid, R11
    <3> QED BY <1>3, <3>5, <3>6
  <2>5. C1abc(j)
    <3> SUFFICES ASSUME NEW t \in DOMAIN i.tpl, NEW g \in i.tpl[t].groups,
                        NEW m \in g
                 PROVE  m \in Variables(j)
      BY DEF Valid, C1abc
    <3>1. m \in i.tpl[t].legs /\ m \in Variables(i)
      BY DEF Valid, C1abc
    <3>2. m # n
      BY <1>7, <1>10, <3>1 DEF Legs
    <3>3. m \in Names
      BY <3>1, OfKind DEF TplRec
    <3> QED BY <1>5, <3>1, <3>2, <3>3
  <2>6. C8a(j)
    BY <1>2 DEF Valid, C8a
  <2> QED BY <2>1, <2>2, <2>3, <2>4, <2>5, <2>6
<1>11. U2(j) /\ U3(j) /\ U4(j) /\ U5(j) /\ U7(j)
  <2>1. U3(j)
    BY <1>less DEF Valid, U3
  <2> QED BY <2>1 DEF Valid, U2, U4, U5, U7
<1>12. R1(j) /\ R2(j) /\ R3(j) /\ R6(j)
  <2>1. R1(j)
    BY <1>less, <1>2 DEF Valid, R1
  <2> QED BY <1>2, <2>1 DEF Valid, R2, R3, R6
<1>13. R7(j) /\ R9(j)
  <2>1. R7(j)
    BY <1>less, <1>2, <1>4 DEF Valid, R7, Aggregators
  <2>2. R9(j)
    BY <1>4 DEF Valid, R9
  <2> QED BY <2>1, <2>2
<1>14. C1(j) /\ C1d(j) /\ C3(j) /\ C5(j) /\ C6(j)
  <2>1. C1(j)
    BY <1>6 DEF Valid, C1
  <2>2. C3(j)
    BY <1>2, <1>6 DEF Valid, C3
  <2> QED BY <2>1, <2>2 DEF Valid, C1d, C5, C6
<1>15. S12(j) /\ S4(j) /\ S56(j)
  <2>1. S12(j)
    BY <1>less, <1>2 DEF Valid, S12
  <2>2. S4(j)
    BY <1>less, <1>4 DEF Valid, S4, Aggregators
  <2>3. S56(j)
    BY <1>less DEF Valid, S56
  <2> QED BY <2>1, <2>2, <2>3
<1>16. ~used => (Valid(j) <=> S3(j) /\ R8(j))
  BY <1>10, <1>11, <1>12, <1>13, <1>14, <1>15 DEF Valid
<1> QED BY <1>1, <1>9, <1>16

LEMMA DeleteHonest ==
  ASSUME TypeOK
  PROVE  DeleteButtonHonest
<1>0. IsInstance(inst) /\ Valid(inst)
  BY DEF TypeOK
<1> SUFFICES ASSUME NEW kind \in Kinds, NEW id \in DOMAIN inst[kind]
             PROVE  LET accepted == Valid(Without(inst, kind, id))
                    IN  /\ Referenced(inst, kind, id) =>
                             \/ ~accepted
                             \/ Trigger(kind, inst[kind][id]) \in Namesakes(inst)
                        /\ ~Referenced(inst, kind, id) =>
                             accepted \/ LeavesUnreconciled(inst, kind, id)
  BY DEF DeleteButtonHonest
<1> DEFINE j == Without(inst, kind, id)
<1>1. j[kind] = Less(inst[kind], id) /\ \A k \in Kinds \ {kind} : j[k] = inst[k]
  BY <1>0, WithoutParts
<1>2. {"acct", "atpl", "rail", "tpl", "chain", "limit"} \subseteq Kinds
  BY DEF Kinds
<1>3. LeavesUnreconciled(inst, kind, id) <=>
        \/ kind = "tpl" /\ ~(S12(j) /\ S3(j) /\ C3(j) /\ R9(j))
        \/ kind = "rail" /\ ~(S3(j) /\ R8(j))
        \/ kind = "acct" /\ ~R3(j)
  BY DEF LeavesUnreconciled
<1> HIDE DEF j
<1>4. CASE kind = "acct"
  <2>1. /\ j.acct = Less(inst.acct, id) /\ j.atpl = inst.atpl /\ j.rail = inst.rail
        /\ j.tpl = inst.tpl /\ j.chain = inst.chain /\ j.limit = inst.limit
    BY <1>1, <1>2, <1>4
  <2>2. /\ Referenced(inst, "acct", id) => ~Valid(j)
        /\ ~Referenced(inst, "acct", id) => (Valid(j) <=> R3(j))
    BY <1>0, <1>4, <2>1, DeleteAcct
  <2> QED BY <1>3, <1>4, <2>2 DEF j
<1>5. CASE kind = "atpl"
  <2>1. /\ j.atpl = Less(inst.atpl, id) /\ j.acct = inst.acct /\ j.rail = inst.rail
        /\ j.tpl = inst.tpl /\ j.chain = inst.chain /\ j.limit = inst.limit
    BY <1>1, <1>2, <1>5
  <2>2. Referenced(inst, "atpl", id) <=> ~Valid(j)
    BY <1>0, <1>5, <2>1, DeleteATpl
  <2> QED BY <1>5, <2>2 DEF j
<1>6. CASE kind = "rail"
  <2>1. /\ j.rail = Less(inst.rail, id) /\ j.acct = inst.acct /\ j.atpl = inst.atpl
        /\ j.tpl = inst.tpl /\ j.chain = inst.chain /\ j.limit = inst.limit
    BY <1>1, <1>2, <1>6
  <2>2. /\ Referenced(inst, "rail", id) /\ inst.rail[id].name \notin TplNames(inst)
             => ~Valid(j)
        /\ ~Referenced(inst, "rail", id) => (Valid(j) <=> S3(j) /\ R8(j))
    BY <1>0, <1>6, <2>1, DeleteRail
  <2>3. /\ Trigger(kind, inst[kind][id]) = inst.rail[id].name
        /\ inst.rail[id].name \in RailNames(inst)
    BY <1>6 DEF Trigger, RailNames
  <2> QED BY <1>3, <1>6, <2>2, <2>3 DEF j, Namesakes
<1>7. CASE kind = "tpl"
  <2>1. /\ j.tpl = Less(inst.tpl, id) /\ j.acct = inst.acct /\ j.atpl = inst.atpl
        /\ j.rail = inst.rail /\ j.chain = inst.chain /\ j.limit = inst.limit
    BY <1>1, <1>2, <1>7
  <2>2. /\ Referenced(inst, "tpl", id) /\ inst.tpl[id].name \notin RailNames(inst)
             => ~Valid(j)
        /\ ~Referenced(inst, "tpl", id)
             => (Valid(j) <=> S12(j) /\ S3(j) /\ C3(j) /\ R9(j))
    BY <1>0, <1>7, <2>1, DeleteTpl
  <2>3. /\ Trigger(kind, inst[kind][id]) = inst.tpl[id].name
        /\ inst.tpl[id].name \in TplNames(inst)
    BY <1>7 DEF Trigger, TplNames
  <2> QED BY <1>3, <1>7, <2>2, <2>3 DEF j, Namesakes
<1>8. CASE kind \in {"chain", "limit"}
  <2>1. ~Referenced(inst, kind, id)
    BY <1>8 DEF Referenced
  <2>2. Valid(j)
    <3>1. /\ j.acct = inst.acct /\ j.atpl = inst.atpl /\ j.rail = inst.rail
          /\ j.tpl = inst.tpl
          /\ \/ j.chain = Less(inst.chain, id) /\ j.limit = inst.limit
             \/ j.limit = Less(inst.limit, id) /\ j.chain = inst.chain
      BY <1>1, <1>2, <1>8
    <3> QED BY <1>0, <3>1, DeleteChain, DeleteLimit
  <2> QED BY <2>1, <2>2 DEF j
<1> QED BY <1>4, <1>5, <1>6, <1>7, <1>8, KindsAre

(* The Delete button of a valid instance is disabled only for what the     *)
(* validator refuses, names shared by a rail and a template aside, and     *)
(* enabled only for what it accepts, what leaves something unreconciled    *)
(* aside.                                                                  *)
THEOREM EditorDelete == Spec => []DeleteButtonHonest
BY DeleteHonest, EditorTypes, PTL

-----------------------------------------------------------------------------
(* Rename.  What a save with another name does, field by field. *)

LEMMA PutParts ==
  ASSUME NEW i, IsInstance(i), NEW kind \in Kinds, NEW id \in DOMAIN i[kind], NEW rec
  PROVE  LET j == Put(i, kind, id, rec)
         IN  /\ DOMAIN j[kind] = DOMAIN i[kind]
             /\ j[kind][id] = rec
             /\ \A e \in DOMAIN i[kind] \ {id} : j[kind][e] = i[kind][e]
             /\ \A k \in Kinds \ {kind} : j[k] = i[k]
<1>1. i = [k \in Kinds |-> i[k]]
  BY DEF IsInstance
<1> DEFINE f == [e \in DOMAIN i[kind] \cup {id} |->
                   IF e = id THEN rec ELSE i[kind][e]]
<1>2. Put(i, kind, id, rec) = [i EXCEPT ![kind] = f]
  BY DEF Put
<1>3. Put(i, kind, id, rec)[kind] = f
  BY <1>1, <1>2
<1>4. \A k \in Kinds \ {kind} : Put(i, kind, id, rec)[k] = i[k]
  BY <1>1, <1>2
<1> QED BY <1>3, <1>4

(* A role is `new` where it was `old`. *)
AsHolders(f, g, old, new) ==
  /\ DOMAIN g = DOMAIN f
  /\ \A a \in DOMAIN f : /\ g[a].role = Sub(f[a].role, old, new)
                         /\ g[a].parent = Sub(f[a].parent, old, new)

AsRole(i, j, old, new) ==
  /\ AsHolders(i.acct, j.acct, old, new) /\ AsHolders(i.atpl, j.atpl, old, new)
  /\ \A t \in DOMAIN i.atpl : j.atpl[t].format = i.atpl[t].format
  /\ DOMAIN j.rail = DOMAIN i.rail
  /\ \A r \in DOMAIN i.rail :
       j.rail[r] = [i.rail[r] EXCEPT !.roles = SubAll(@, old, new)]
  /\ j.tpl = i.tpl /\ j.chain = i.chain
  /\ DOMAIN j.limit = DOMAIN i.limit
  /\ \A l \in DOMAIN i.limit :
       j.limit[l] = [i.limit[l] EXCEPT !.parent = Sub(@, old, new)]

AsChains(f, g, old, new) ==
  /\ DOMAIN g = DOMAIN f
  /\ \A c \in DOMAIN f :
       /\ g[c].parent = Sub(f[c].parent, old, new)
       /\ DOMAIN g[c].children = DOMAIN f[c].children
       /\ \A k \in DOMAIN f[c].children :
            /\ g[c].children[k].name = Sub(f[c].children[k].name, old, new)
            /\ g[c].children[k].fanIn = f[c].children[k].fanIn

(* A rail's name is `new` where it was `old`, but for XOR groups, limit    *)
(* schedules and dotted selectors.                                         *)
AsRail(i, j, old, new) ==
  /\ j.acct = i.acct /\ j.atpl = i.atpl /\ j.limit = i.limit
  /\ DOMAIN j.rail = DOMAIN i.rail
  /\ \A r \in DOMAIN i.rail :
       j.rail[r] = [i.rail[r] EXCEPT !.name = Sub(@, old, new),
                                     !.bundles = SubBare(@, old, new)]
  /\ DOMAIN j.tpl = DOMAIN i.tpl
  /\ \A t \in DOMAIN i.tpl :
       j.tpl[t] = [i.tpl[t] EXCEPT !.legs = SubAll(@, old, new)]
  /\ AsChains(i.chain, j.chain, old, new)

(* A template's name is `new` where it was `old`, but for dotted selectors.*)
AsTpl(i, j, old, new) ==
  /\ j.acct = i.acct /\ j.atpl = i.atpl /\ j.limit = i.limit
  /\ j.rail = i.rail
  /\ DOMAIN j.tpl = DOMAIN i.tpl
  /\ \A t \in DOMAIN i.tpl :
       j.tpl[t] = [i.tpl[t] EXCEPT !.name = Sub(@, old, new)]
  /\ AsChains(i.chain, j.chain, old, new)

LEMMA RenamedIs ==
  ASSUME NEW i, IsInstance(i), NEW kind \in Named, NEW id \in DOMAIN i[kind],
         NEW new \in Names, new # Trigger(kind, i[kind][id])
  PROVE  LET old == Trigger(kind, i[kind][id])
             rec == Retitled(kind, i[kind][id], new)
         IN  /\ rec \in Rec[kind]
             /\ IsInstance(Put(i, kind, id, rec))
             /\ Renamed(i, kind, id, new)
                  = Rename(Put(i, kind, id, rec), kind, old, new)
<1> DEFINE old == Trigger(kind, i[kind][id])
           rec == Retitled(kind, i[kind][id], new)
<1>1. kind \in Kinds /\ i[kind][id] \in Rec[kind] /\ id \in Ids[kind]
  BY DEF Named, Kinds, IsInstance
<1>2. rec \in Rec[kind] /\ Trigger(kind, rec) = new
  <2>0. CASE kind = "acct"
    <3>1. i[kind][id] \in AcctRec
      BY <1>1, <2>0 DEF Rec
    <3>2. rec \in AcctRec /\ rec.role = new
      BY <2>0, <3>1 DEF AcctRec, Retitled
    <3> QED BY <2>0, <3>2 DEF Rec, Trigger
  <2>1. CASE kind = "atpl"
    <3>1. i[kind][id] \in ATplRec
      BY <1>1, <2>1 DEF Rec
    <3>2. rec \in ATplRec /\ rec.role = new
      BY <2>1, <3>1 DEF ATplRec, Retitled
    <3> QED BY <2>1, <3>2 DEF Rec, Trigger
  <2>2. CASE kind = "rail"
    <3>1. i[kind][id] \in RailRec
      BY <1>1, <2>2 DEF Rec
    <3>2. rec \in RailRec /\ rec.name = new
      BY <2>2, <3>1 DEF RailRec, Retitled
    <3> QED BY <2>2, <3>2 DEF Rec, Trigger
  <2>3. CASE kind = "tpl"
    <3>1. i[kind][id] \in TplRec
      BY <1>1, <2>3 DEF Rec
    <3>2. rec \in TplRec /\ rec.name = new
      BY <2>3, <3>1 DEF TplRec, Retitled
    <3> QED BY <2>3, <3>2 DEF Rec, Trigger
  <2> QED BY <2>0, <2>1, <2>2, <2>3 DEF Named
<1>3. Renamed(i, kind, id, new) = Saved(i, kind, id, rec)
  BY DEF Renamed
<1>4. Saved(i, kind, id, rec) = Rename(Put(i, kind, id, rec), kind, old, new)
  BY <1>2 DEF Saved
<1>5. IsInstance(Put(i, kind, id, rec))
  BY <1>1, <1>2, PutIsInstance
<1> QED BY <1>2, <1>3, <1>4, <1>5

LEMMA RoleRenamed ==
  ASSUME NEW i, IsInstance(i), NEW kind \in {"acct", "atpl"},
         NEW id \in DOMAIN i[kind], NEW new \in Names, new # i[kind][id].role
  PROVE  AsRole(i, Renamed(i, kind, id, new), i[kind][id].role, new)
<1> DEFINE old == i[kind][id].role
           rec == Retitled(kind, i[kind][id], new)
           p == Put(i, kind, id, rec)
           j == Renamed(i, kind, id, new)
<1>1. kind \in Kinds /\ kind \in Named /\ Trigger(kind, i[kind][id]) = old
  BY DEF Kinds, Named, Trigger
<1>2. IsInstance(p) /\ j = Rename(p, kind, old, new)
  BY <1>1, RenamedIs
<1>3. j = RenameRole(p, old, new)
  BY <1>2 DEF Rename
<1>4. /\ DOMAIN p[kind] = DOMAIN i[kind]
      /\ p[kind][id] = rec
      /\ \A e \in DOMAIN i[kind] \ {id} : p[kind][e] = i[kind][e]
      /\ \A k \in Kinds \ {kind} : p[k] = i[k]
  BY <1>1, PutParts
<1>5. IF kind = "acct" THEN i[kind][id] \in AcctRec ELSE i[kind][id] \in ATplRec
  BY OfKind
<1>6. /\ rec.role = new /\ rec.parent = i[kind][id].parent
      /\ kind = "atpl" => rec.format = i[kind][id].format
  BY <1>5 DEF AcctRec, ATplRec, Retitled
<1> HIDE DEF rec, p, j
<1>7. /\ j.acct = [a \in DOMAIN p.acct |-> RenamedHolder(p.acct[a], old, new)]
      /\ j.atpl = [t \in DOMAIN p.atpl |-> RenamedHolder(p.atpl[t], old, new)]
      /\ j.rail = [r \in DOMAIN p.rail |->
                     [p.rail[r] EXCEPT !.roles = SubAll(@, old, new)]]
      /\ j.tpl = p.tpl /\ j.chain = p.chain
      /\ j.limit = [l \in DOMAIN p.limit |->
                      [p.limit[l] EXCEPT !.parent = Sub(@, old, new)]]
  BY <1>2, <1>3, RenameRoleParts
<1>8. {"acct", "atpl", "rail", "tpl", "chain", "limit"} \subseteq Kinds
  BY DEF Kinds
<1>9. p.rail = i.rail /\ p.tpl = i.tpl /\ p.chain = i.chain /\ p.limit = i.limit
  BY <1>4, <1>8
<1>a. \A a \in DOMAIN p.acct : p.acct[a] \in AcctRec
  BY <1>2, OfKind
<1>t. \A a \in DOMAIN p.atpl : p.atpl[a] \in ATplRec
  BY <1>2, OfKind
<1>10. /\ DOMAIN p.acct = DOMAIN i.acct
       /\ \A a \in DOMAIN i.acct : /\ p.acct[a].parent = i.acct[a].parent
                                   /\ \/ p.acct[a].role = i.acct[a].role
                                      \/ i.acct[a].role = old /\ p.acct[a].role = new
  BY <1>4, <1>6, <1>8
<1>11. /\ DOMAIN p.atpl = DOMAIN i.atpl
       /\ \A a \in DOMAIN i.atpl : /\ p.atpl[a].parent = i.atpl[a].parent
                                   /\ p.atpl[a].format = i.atpl[a].format
                                   /\ \/ p.atpl[a].role = i.atpl[a].role
                                      \/ i.atpl[a].role = old /\ p.atpl[a].role = new
  BY <1>4, <1>6, <1>8
<1>12. AsHolders(i.acct, j.acct, old, new)
  <2>1. DOMAIN j.acct = DOMAIN i.acct
    BY <1>7, <1>10
  <2>2. ASSUME NEW a \in DOMAIN i.acct
        PROVE  /\ j.acct[a].role = Sub(i.acct[a].role, old, new)
               /\ j.acct[a].parent = Sub(i.acct[a].parent, old, new)
    <3>1. j.acct[a] = RenamedHolder(p.acct[a], old, new)
      BY <1>7, <1>10
    <3>2. /\ j.acct[a].role = Sub(p.acct[a].role, old, new)
          /\ j.acct[a].parent = Sub(p.acct[a].parent, old, new)
      BY <1>10, <1>a, <3>1 DEF RenamedHolder, AcctRec
    <3> QED BY <1>10, <3>2 DEF Sub
  <2> QED BY <2>1, <2>2 DEF AsHolders
<1>13. /\ AsHolders(i.atpl, j.atpl, old, new)
       /\ \A t \in DOMAIN i.atpl : j.atpl[t].format = i.atpl[t].format
  <2>1. DOMAIN j.atpl = DOMAIN i.atpl
    BY <1>7, <1>11
  <2>2. ASSUME NEW a \in DOMAIN i.atpl
        PROVE  /\ j.atpl[a].role = Sub(i.atpl[a].role, old, new)
               /\ j.atpl[a].parent = Sub(i.atpl[a].parent, old, new)
               /\ j.atpl[a].format = i.atpl[a].format
    <3>1. j.atpl[a] = RenamedHolder(p.atpl[a], old, new)
      BY <1>7, <1>11
    <3>2. /\ j.atpl[a].role = Sub(p.atpl[a].role, old, new)
          /\ j.atpl[a].parent = Sub(p.atpl[a].parent, old, new)
          /\ j.atpl[a].format = p.atpl[a].format
      BY <1>11, <1>t, <3>1 DEF RenamedHolder, ATplRec
    <3> QED BY <1>11, <3>2 DEF Sub
  <2>3. AsHolders(i.atpl, j.atpl, old, new)
    BY <2>1, <2>2 DEF AsHolders
  <2> QED BY <2>2, <2>3
<1>14. AsRole(i, j, old, new)
  <2>1. /\ DOMAIN j.rail = DOMAIN i.rail
        /\ \A r \in DOMAIN i.rail :
             j.rail[r] = [i.rail[r] EXCEPT !.roles = SubAll(@, old, new)]
    BY <1>7, <1>9
  <2>2. /\ DOMAIN j.limit = DOMAIN i.limit
        /\ \A l \in DOMAIN i.limit :
             j.limit[l] = [i.limit[l] EXCEPT !.parent = Sub(@, old, new)]
    BY <1>7, <1>9
  <2>3. j.tpl = i.tpl /\ j.chain = i.chain
    BY <1>7, <1>9
  <2> QED BY <1>12, <1>13, <2>1, <2>2, <2>3, Zenon DEF AsRole
<1> QED BY <1>14 DEF j

LEMMA ChainsRenamed ==
  ASSUME NEW i, IsInstance(i), NEW old, NEW new \in Names, NEW g,
         g = [c \in DOMAIN i.chain |-> RenamedChain(i.chain[c], old, new)]
  PROVE  AsChains(i.chain, g, old, new)
<1>1. \A c \in DOMAIN i.chain : i.chain[c] \in ChainRec
  BY OfKind
<1>2. ASSUME NEW c \in DOMAIN i.chain
      PROVE  /\ g[c].parent = Sub(i.chain[c].parent, old, new)
             /\ DOMAIN g[c].children = DOMAIN i.chain[c].children
             /\ \A k \in DOMAIN i.chain[c].children :
                  /\ g[c].children[k].name
                       = Sub(i.chain[c].children[k].name, old, new)
                  /\ g[c].children[k].fanIn = i.chain[c].children[k].fanIn
  <2> DEFINE x == i.chain[c]
  <2>1. g[c] = RenamedChain(x, old, new) /\ x \in ChainRec
    BY <1>1
  <2> HIDE DEF x
  <2>2. /\ RenamedChain(x, old, new).parent = Sub(x.parent, old, new)
        /\ DOMAIN RenamedChain(x, old, new).children = DOMAIN x.children
        /\ \A k \in DOMAIN x.children :
             /\ RenamedChain(x, old, new).children[k].name
                  = Sub(x.children[k].name, old, new)
             /\ RenamedChain(x, old, new).children[k].fanIn = x.children[k].fanIn
    BY <2>1, RenamedChainTyped
  <2> QED BY <2>1, <2>2 DEF x
<1>3. DOMAIN g = DOMAIN i.chain
  OBVIOUS
<1> QED BY <1>2, <1>3 DEF AsChains

LEMMA OtherRail ==
  ASSUME NEW x \in RailRec, NEW old, NEW new, x.name # old
  PROVE  RenamedRail(x, old, new)
           = [x EXCEPT !.name = Sub(@, old, new), !.bundles = SubBare(@, old, new)]
<1> DEFINE B == SubBare(x.bundles, old, new)
<1>1. RenamedRail(x, old, new) = [x EXCEPT !.bundles = B]
  BY DEF RenamedRail
<1>2. Sub(x.name, old, new) = x.name
  BY DEF Sub
<1> HIDE DEF B
<1>3. [x EXCEPT !.bundles = B] = [x EXCEPT !.name = x.name, !.bundles = B]
  BY DEF RailRec
<1> QED BY <1>1, <1>2, <1>3 DEF B

LEMMA RailRenamed ==
  ASSUME NEW i, IsInstance(i), U3(i), NEW id \in DOMAIN i.rail,
         NEW new \in Names, new # i.rail[id].name
  PROVE  AsRail(i, Renamed(i, "rail", id, new), i.rail[id].name, new)
<1> DEFINE old == i.rail[id].name
           rec == Retitled("rail", i.rail[id], new)
           p == Put(i, "rail", id, rec)
           j == Renamed(i, "rail", id, new)
<1>1. "rail" \in Kinds /\ "rail" \in Named /\ Trigger("rail", i.rail[id]) = old
  BY DEF Kinds, Named, Trigger
<1>2. IsInstance(p) /\ j = Rename(p, "rail", old, new)
  BY <1>1, RenamedIs
<1>3. j = RenameRail(p, old, new)
  BY <1>2 DEF Rename
<1>4. /\ DOMAIN p.rail = DOMAIN i.rail
      /\ p.rail[id] = rec
      /\ \A e \in DOMAIN i.rail \ {id} : p.rail[e] = i.rail[e]
      /\ \A k \in Kinds \ {"rail"} : p[k] = i[k]
  BY <1>1, PutParts
<1>5. \A r \in DOMAIN i.rail : i.rail[r] \in RailRec
  BY OfKind
<1>6. rec = [i.rail[id] EXCEPT !.name = new]
  BY DEF Retitled
<1> HIDE DEF rec, p, j
<1>7. /\ j.acct = p.acct /\ j.atpl = p.atpl /\ j.limit = p.limit
      /\ j.rail = [r \in DOMAIN p.rail |-> RenamedRail(p.rail[r], old, new)]
      /\ j.tpl = [t \in DOMAIN p.tpl |->
                    [p.tpl[t] EXCEPT !.legs = SubAll(@, old, new)]]
      /\ j.chain = [c \in DOMAIN p.chain |-> RenamedChain(p.chain[c], old, new)]
  BY <1>2, <1>3, RenameRailParts
<1>8. {"acct", "atpl", "rail", "tpl", "chain", "limit"} \subseteq Kinds
  BY DEF Kinds
<1>9. p.acct = i.acct /\ p.atpl = i.atpl /\ p.tpl = i.tpl /\ p.chain = i.chain
      /\ p.limit = i.limit
  BY <1>4, <1>8
<1>10. ASSUME NEW r \in DOMAIN i.rail
       PROVE  j.rail[r] = [i.rail[r] EXCEPT !.name = Sub(@, old, new),
                                            !.bundles = SubBare(@, old, new)]
  <2>1. j.rail[r] = RenamedRail(p.rail[r], old, new)
    BY <1>4, <1>7
  <2>2. CASE r = id
    <3>1. p.rail[r] = [i.rail[id] EXCEPT !.name = new]
      BY <1>4, <1>6, <2>2
    <3>2. RenamedRail(p.rail[r], old, new)
            = [p.rail[r] EXCEPT !.bundles = SubBare(@, old, new)]
      BY <1>5, <3>1 DEF RenamedRail, RailRec
    <3>3. Sub(old, old, new) = new
      BY DEF Sub
    <3> QED BY <1>5, <2>1, <2>2, <3>1, <3>2, <3>3 DEF RailRec
  <2>3. CASE r # id
    <3>1. p.rail[r] = i.rail[r] /\ i.rail[r].name # old
      BY <1>4, <2>3 DEF U3
    <3>2. RenamedRail(i.rail[r], old, new)
            = [i.rail[r] EXCEPT !.name = Sub(@, old, new),
                                !.bundles = SubBare(@, old, new)]
      BY <1>5, <3>1, OtherRail
    <3> QED BY <2>1, <3>1, <3>2
  <2> QED BY <2>2, <2>3
<1>11. AsChains(i.chain, j.chain, old, new)
  <2>1. j.chain = [c \in DOMAIN i.chain |-> RenamedChain(i.chain[c], old, new)]
    BY <1>7, <1>9
  <2> QED BY <2>1, ChainsRenamed
<1>12. DOMAIN j.rail = DOMAIN i.rail /\ DOMAIN j.tpl = DOMAIN i.tpl
  BY <1>4, <1>7, <1>9
<1>13. \A t \in DOMAIN i.tpl :
         j.tpl[t] = [i.tpl[t] EXCEPT !.legs = SubAll(@, old, new)]
  BY <1>7, <1>9
<1>14. j.acct = i.acct /\ j.atpl = i.atpl /\ j.limit = i.limit
  BY <1>7, <1>9
<1> HIDE DEF old
<1>15. AsRail(i, j, old, new)
  BY <1>10, <1>11, <1>12, <1>13, <1>14 DEF AsRail
<1> QED BY <1>15 DEF j, old

(* No selector of a valid instance is the bare name of a template alone.   *)
LEMMA TplRenamed ==
  ASSUME NEW i, IsInstance(i), U4(i), R11(i), S56(i), NEW id \in DOMAIN i.tpl,
         i.tpl[id].name \notin RailNames(i),
         NEW new \in Names, new # i.tpl[id].name
  PROVE  AsTpl(i, Renamed(i, "tpl", id, new), i.tpl[id].name, new)
<1> DEFINE old == i.tpl[id].name
           rec == Retitled("tpl", i.tpl[id], new)
           p == Put(i, "tpl", id, rec)
           j == Renamed(i, "tpl", id, new)
<1>1. "tpl" \in Kinds /\ "tpl" \in Named /\ Trigger("tpl", i.tpl[id]) = old
  BY DEF Kinds, Named, Trigger
<1>2. IsInstance(p) /\ j = Rename(p, "tpl", old, new)
  BY <1>1, RenamedIs
<1>3. j = RenameTpl(p, old, new)
  BY <1>2 DEF Rename
<1>4. /\ DOMAIN p.tpl = DOMAIN i.tpl
      /\ p.tpl[id] = rec
      /\ \A e \in DOMAIN i.tpl \ {id} : p.tpl[e] = i.tpl[e]
      /\ \A k \in Kinds \ {"tpl"} : p[k] = i[k]
  BY <1>1, PutParts
<1>5. /\ \A t \in DOMAIN i.tpl : i.tpl[t] \in TplRec
      /\ \A r \in DOMAIN i.rail : i.rail[r] \in RailRec
      /\ i.rail \in [DOMAIN i.rail -> RailRec]
  BY OfKind
<1>6. rec = [i.tpl[id] EXCEPT !.name = new]
  BY DEF Retitled
<1> HIDE DEF rec, p, j
<1>7. /\ j.acct = p.acct /\ j.atpl = p.atpl /\ j.limit = p.limit
      /\ j.rail = [r \in DOMAIN p.rail |->
                     [p.rail[r] EXCEPT !.bundles = SubBare(@, old, new)]]
      /\ j.tpl = [t \in DOMAIN p.tpl |->
                    [p.tpl[t] EXCEPT !.name = Sub(@, old, new)]]
      /\ j.chain = [c \in DOMAIN p.chain |-> RenamedChain(p.chain[c], old, new)]
  BY <1>2, <1>3, RenameTplParts
<1>8. {"acct", "atpl", "rail", "tpl", "chain", "limit"} \subseteq Kinds
  BY DEF Kinds
<1>9. p.acct = i.acct /\ p.atpl = i.atpl /\ p.rail = i.rail /\ p.chain = i.chain
      /\ p.limit = i.limit
  BY <1>4, <1>8
<1>10. ASSUME NEW t \in DOMAIN i.tpl
       PROVE  j.tpl[t] = [i.tpl[t] EXCEPT !.name = Sub(@, old, new)]
  <2>1. j.tpl[t] = [p.tpl[t] EXCEPT !.name = Sub(@, old, new)]
    BY <1>4, <1>7
  <2>2. CASE t = id
    <3>1. p.tpl[t] = [i.tpl[id] EXCEPT !.name = new]
      BY <1>4, <1>6, <2>2
    <3>2. Sub(old, old, new) = new /\ Sub(new, old, new) = new
      BY DEF Sub
    <3> QED BY <1>5, <2>1, <2>2, <3>1, <3>2 DEF TplRec
  <2>3. CASE t # id
    BY <1>4, <2>1, <2>3
  <2> QED BY <2>2, <2>3
<1>11. ASSUME NEW r \in DOMAIN i.rail
       PROVE  [i.rail[r] EXCEPT !.bundles = SubBare(@, old, new)] = i.rail[r]
  <2>1. i.rail[r].bundles # {} => r \in Aggregators(i)
    BY DEF S56, Aggregators
  <2>2. ASSUME NEW b \in i.rail[r].bundles
        PROVE  b # Bare(old)
    <3>1. b \in Bundles(i)
      BY <2>1 DEF Bundles
    <3>2. Bare(old).of = NoName /\ Bare(old).name = old
      BY DEF Bare
    <3> QED BY <3>1, <3>2 DEF R11
  <2>3. SubBare(i.rail[r].bundles, old, new) = i.rail[r].bundles
    BY <2>2 DEF SubBare
  <2> QED BY <1>5, <2>3 DEF RailRec
<1>12. j.rail = i.rail
  <2>1. j.rail = [r \in DOMAIN i.rail |->
                    [i.rail[r] EXCEPT !.bundles = SubBare(@, old, new)]]
    BY <1>7, <1>9
  <2>2. i.rail = [r \in DOMAIN i.rail |-> i.rail[r]]
    BY <1>5
  <2>3. \A r \in DOMAIN i.rail : j.rail[r] = i.rail[r]
    BY <1>11, <2>1
  <2>4. DOMAIN j.rail = DOMAIN i.rail /\ j.rail = [r \in DOMAIN i.rail |-> j.rail[r]]
    BY <2>1
  <2> QED BY <2>2, <2>3, <2>4
<1>13. AsChains(i.chain, j.chain, old, new)
  <2>1. j.chain = [c \in DOMAIN i.chain |-> RenamedChain(i.chain[c], old, new)]
    BY <1>7, <1>9
  <2> QED BY <2>1, ChainsRenamed
<1>14. DOMAIN j.tpl = DOMAIN i.tpl
  BY <1>4, <1>7
<1>15. AsTpl(i, j, old, new)
  BY <1>7, <1>9, <1>10, <1>12, <1>13, <1>14 DEF AsTpl
<1> QED BY <1>15 DEF j

-----------------------------------------------------------------------------
(* Renaming to a name nobody has is one to one. *)

LEMMA SubOneToOne ==
  ASSUME NEW X, NEW old, NEW new, new \notin X
  PROVE  /\ \A m, n \in X : Sub(m, old, new) = Sub(n, old, new) => m = n
         /\ \A n \in X : n # old => Sub(n, old, new) = n
         /\ Sub(old, old, new) = new
         /\ \A m \in X, S \in SUBSET X :
              Sub(m, old, new) \in SubAll(S, old, new) <=> m \in S
BY DEF Sub, SubAll

(* The names of a valid instance that resolve are those of its entities.   *)
LEMMA RoleRenamedRoles ==
  ASSUME NEW i, NEW j, NEW old, NEW new, AsRole(i, j, old, new)
  PROVE  /\ AcctRoles(j) = SubAll(AcctRoles(i), old, new)
         /\ TplRoles(j) = SubAll(TplRoles(i), old, new)
         /\ Roles(j) = SubAll(Roles(i), old, new)
<1>1. AcctRoles(j) = SubAll(AcctRoles(i), old, new)
  BY DEF AsRole, AsHolders, AcctRoles, SubAll
<1>2. TplRoles(j) = SubAll(TplRoles(i), old, new)
  BY DEF AsRole, AsHolders, TplRoles, SubAll
<1> QED BY <1>1, <1>2 DEF Roles, SubAll

LEMMA RoleRenamedRails ==
  ASSUME NEW i, IsInstance(i), NEW j, NEW old, NEW new, AsRole(i, j, old, new)
  PROVE  /\ \A r \in DOMAIN i.rail :
              /\ j.rail[r].name = i.rail[r].name
              /\ j.rail[r].single = i.rail[r].single
              /\ j.rail[r].roles = SubAll(i.rail[r].roles, old, new)
              /\ j.rail[r].variable = i.rail[r].variable
              /\ j.rail[r].aggregating = i.rail[r].aggregating
              /\ j.rail[r].bundles = i.rail[r].bundles
              /\ j.rail[r].net = i.rail[r].net
              /\ j.rail[r].watch = i.rail[r].watch
         /\ RailNames(j) = RailNames(i) /\ TplNames(j) = TplNames(i)
         /\ Endpoints(j) = Endpoints(i) /\ Legs(j) = Legs(i)
         /\ Aggregators(j) = Aggregators(i) /\ Bundles(j) = Bundles(i)
         /\ Variables(j) = Variables(i)
<1>0. DOMAIN j.rail = DOMAIN i.rail /\ j.tpl = i.tpl
  BY DEF AsRole
<1>1. ASSUME NEW r \in DOMAIN i.rail
      PROVE  /\ j.rail[r].name = i.rail[r].name
             /\ j.rail[r].single = i.rail[r].single
             /\ j.rail[r].roles = SubAll(i.rail[r].roles, old, new)
             /\ j.rail[r].variable = i.rail[r].variable
             /\ j.rail[r].aggregating = i.rail[r].aggregating
             /\ j.rail[r].bundles = i.rail[r].bundles
             /\ j.rail[r].net = i.rail[r].net
             /\ j.rail[r].watch = i.rail[r].watch
  <2>1. i.rail[r] \in RailRec
    BY OfKind
  <2>2. j.rail[r] = [i.rail[r] EXCEPT !.roles = SubAll(@, old, new)]
    BY DEF AsRole
  <2> QED BY <2>1, <2>2 DEF RailRec
<1>2. RailNames(j) = RailNames(i) /\ TplNames(j) = TplNames(i) /\ Legs(j) = Legs(i)
  BY <1>0, <1>1 DEF RailNames, TplNames, Legs
<1>3. Aggregators(j) = Aggregators(i)
  BY <1>0, <1>1 DEF Aggregators
<1>4. Bundles(j) = Bundles(i)
  BY <1>1, <1>3 DEF Bundles, Aggregators
<1>5. Variables(j) = Variables(i)
  BY <1>0, <1>1 DEF Variables
<1> QED BY <1>1, <1>2, <1>3, <1>4, <1>5 DEF Endpoints

LEMMA RoleRenamedLimits ==
  ASSUME NEW i, IsInstance(i), NEW j, NEW old, NEW new, AsRole(i, j, old, new)
  PROVE  /\ DOMAIN j.limit = DOMAIN i.limit
         /\ \A l \in DOMAIN i.limit :
              /\ j.limit[l].parent = Sub(i.limit[l].parent, old, new)
              /\ j.limit[l].rail = i.limit[l].rail
              /\ j.limit[l].inbound = i.limit[l].inbound
<1>1. ASSUME NEW l \in DOMAIN i.limit
      PROVE  /\ j.limit[l].parent = Sub(i.limit[l].parent, old, new)
             /\ j.limit[l].rail = i.limit[l].rail
             /\ j.limit[l].inbound = i.limit[l].inbound
  <2>1. i.limit[l] \in LimitRec
    BY OfKind
  <2>2. j.limit[l] = [i.limit[l] EXCEPT !.parent = Sub(@, old, new)]
    BY DEF AsRole
  <2> QED BY <2>1, <2>2 DEF LimitRec
<1> QED BY <1>1 DEF AsRole

(* A role may be renamed to one nobody has, unless a template of the role  *)
(* would generate the id of a declared account.                            *)
LEMMA RoleRenameAccepted ==
  ASSUME NEW i, IsInstance(i), Valid(i), NEW j, NEW old \in Names, NEW new \in Names,
         new \notin Roles(i), AsRole(i, j, old, new)
  PROVE  Valid(j) <=> \A t \in DOMAIN i.atpl : i.atpl[t].role = old =>
                        Generated(i.atpl[t].format, new) \cap DOMAIN i.acct = {}
<1>1. /\ AcctRoles(j) = SubAll(AcctRoles(i), old, new)
      /\ Roles(j) = SubAll(Roles(i), old, new)
  BY RoleRenamedRoles
<1>2. /\ DOMAIN j.rail = DOMAIN i.rail /\ j.tpl = i.tpl /\ j.chain = i.chain
      /\ DOMAIN j.acct = DOMAIN i.acct /\ DOMAIN j.atpl = DOMAIN i.atpl
      /\ \A a \in DOMAIN i.acct : j.acct[a].parent = Sub(i.acct[a].parent, old, new)
      /\ \A a \in DOMAIN i.atpl :
           /\ j.atpl[a].role = Sub(i.atpl[a].role, old, new)
           /\ j.atpl[a].parent = Sub(i.atpl[a].parent, old, new)
           /\ j.atpl[a].format = i.atpl[a].format
  BY DEF AsRole, AsHolders
<1>u. U7(j) <=> \A t \in DOMAIN i.atpl : i.atpl[t].role = old =>
                  Generated(i.atpl[t].format, new) \cap DOMAIN i.acct = {}
  BY <1>2 DEF Valid, U7, Sub
<1>3. /\ \A r \in DOMAIN i.rail :
           /\ j.rail[r].name = i.rail[r].name
           /\ j.rail[r].single = i.rail[r].single
           /\ j.rail[r].roles = SubAll(i.rail[r].roles, old, new)
           /\ j.rail[r].variable = i.rail[r].variable
           /\ j.rail[r].aggregating = i.rail[r].aggregating
           /\ j.rail[r].bundles = i.rail[r].bundles
           /\ j.rail[r].net = i.rail[r].net
           /\ j.rail[r].watch = i.rail[r].watch
      /\ RailNames(j) = RailNames(i) /\ TplNames(j) = TplNames(i)
      /\ Endpoints(j) = Endpoints(i) /\ Legs(j) = Legs(i)
      /\ Aggregators(j) = Aggregators(i) /\ Bundles(j) = Bundles(i)
      /\ Variables(j) = Variables(i)
  BY RoleRenamedRails
<1>4. /\ DOMAIN j.limit = DOMAIN i.limit
      /\ \A l \in DOMAIN i.limit :
           /\ j.limit[l].parent = Sub(i.limit[l].parent, old, new)
           /\ j.limit[l].rail = i.limit[l].rail
           /\ j.limit[l].inbound = i.limit[l].inbound
  BY RoleRenamedLimits
<1>5. NoName \notin {old, new} /\ Sub(NoName, old, new) = NoName
  BY NoNameAssumption DEF Sub
<1>6. \A m, n \in Roles(i) : Sub(m, old, new) = Sub(n, old, new) => m = n
  BY SubOneToOne
<1>7. U2(j) /\ U3(j) /\ U4(j) /\ U5(j)
  <2>1. U2(j)
    <3>1. \A a \in DOMAIN i.atpl : i.atpl[a].role \in Roles(i)
      BY DEF Roles, TplRoles
    <3> QED BY <1>2, <1>6, <3>1 DEF Valid, U2
  <2>2. U3(j) /\ U4(j)
    BY <1>2, <1>3 DEF Valid, U3, U4
  <2>3. U5(j)
    <3> SUFFICES ASSUME NEW l \in DOMAIN i.limit, NEW m \in DOMAIN i.limit,
                        j.limit[l] = j.limit[m]
                 PROVE  l = m
      BY <1>4 DEF U5
    <3>1. i.limit[l] \in LimitRec /\ i.limit[m] \in LimitRec
      BY OfKind
    <3>2. i.limit[l].parent \in Roles(i) /\ i.limit[m].parent \in Roles(i)
      BY DEF Valid, R6
    <3>3. i.limit[l].parent = i.limit[m].parent
      BY <1>4, <1>6, <3>2
    <3>4. i.limit[l].rail = i.limit[m].rail /\ i.limit[l].inbound = i.limit[m].inbound
      BY <1>4
    <3>5. i.limit[l] = i.limit[m]
      BY <3>1, <3>3, <3>4 DEF LimitRec
    <3> QED BY <3>5 DEF Valid, U5
  <2> QED BY <2>1, <2>2, <2>3
<1>8. R1(j) /\ R2(j) /\ R3(j) /\ R6(j)
  <2>1. R1(j)
    BY <1>1, <1>2, <1>3 DEF Valid, R1, SubAll
  <2>2. R2(j)
    BY <1>1, <1>2, <1>5 DEF Valid, R2, SubAll
  <2>3. R3(j)
    BY <1>1, <1>2, <1>5 DEF Valid, R3, SubAll
  <2>4. R6(j)
    BY <1>1, <1>4 DEF Valid, R6, SubAll
  <2> QED BY <2>1, <2>2, <2>3, <2>4
<1>9. R4(j) /\ R5(j) /\ R7(j) /\ R8(j)
  BY <1>2, <1>3 DEF Valid, R4, R5, R7, R8, Aggregators
<1>10. R9(j) /\ R10(j) /\ R11(j)
  BY <1>2, <1>3, <1>4 DEF Valid, R9, R10, R11
<1>11. C1(j) /\ C1abc(j) /\ C1d(j) /\ C3(j) /\ C5(j) /\ C6(j) /\ C8a(j)
  BY <1>2, <1>3 DEF Valid, C1, C1abc, C1d, C3, C5, C6, C8a
<1>12. S12(j) /\ S3(j) /\ S4(j) /\ S56(j)
  BY <1>2, <1>3 DEF Valid, S12, S3, S4, S56, Aggregators
<1>13. Valid(j) <=> U7(j)
  BY <1>7, <1>8, <1>9, <1>10, <1>11, <1>12 DEF Valid
<1> QED BY <1>u, <1>13

LEMMA RoleHoldersKept ==
  ASSUME NEW i, NEW j, NEW old, NEW new, AsRole(i, j, old, new),
         new \notin Roles(i), NEW n, n # new
  PROVE  RoleHolders(j, Sub(n, old, new)) = RoleHolders(i, n)
<1>1. /\ DOMAIN j.acct = DOMAIN i.acct /\ DOMAIN j.atpl = DOMAIN i.atpl
      /\ \A a \in DOMAIN i.acct : j.acct[a].role = Sub(i.acct[a].role, old, new)
      /\ \A a \in DOMAIN i.atpl : j.atpl[a].role = Sub(i.atpl[a].role, old, new)
  BY DEF AsRole, AsHolders
<1>2. /\ \A a \in DOMAIN i.acct : i.acct[a].role # new
      /\ \A a \in DOMAIN i.atpl : i.atpl[a].role # new
  BY DEF Roles, AcctRoles, TplRoles
<1>3. \A m : m # new => (Sub(m, old, new) = Sub(n, old, new) <=> m = n)
  BY DEF Sub
<1>4. {b \in DOMAIN j.acct : j.acct[b].role = Sub(n, old, new)}
        = {b \in DOMAIN i.acct : i.acct[b].role = n}
  BY <1>1, <1>2, <1>3
<1>5. {s \in DOMAIN j.atpl : j.atpl[s].role = Sub(n, old, new)}
        = {s \in DOMAIN i.atpl : i.atpl[s].role = n}
  BY <1>1, <1>2, <1>3
<1> QED BY <1>4, <1>5 DEF RoleHolders

LEMMA SameFunction ==
  ASSUME NEW D, NEW f, NEW g, f = [x \in D |-> f[x]], g = [x \in D |-> g[x]],
         \A x \in D : f[x] = g[x]
  PROVE  f = g
OBVIOUS

(* A graph is known by its parts. *)
LEMMA GraphByParts ==
  ASSUME NEW i, NEW j,
         DOMAIN j.acct = DOMAIN i.acct, DOMAIN j.atpl = DOMAIN i.atpl,
         DOMAIN j.rail = DOMAIN i.rail, DOMAIN j.tpl = DOMAIN i.tpl,
         DOMAIN j.chain = DOMAIN i.chain, DOMAIN j.limit = DOMAIN i.limit,
         \A a \in DOMAIN i.acct : Graph(j).acct[a] = Graph(i).acct[a],
         \A t \in DOMAIN i.atpl : Graph(j).atpl[t] = Graph(i).atpl[t],
         \A r \in DOMAIN i.rail : Graph(j).roles[r] = Graph(i).roles[r],
         \A r \in DOMAIN i.rail : Graph(j).swept[r] = Graph(i).swept[r],
         \A t \in DOMAIN i.tpl : Graph(j).legs[t] = Graph(i).legs[t],
         \A t \in DOMAIN i.tpl : Graph(j).xor[t] = Graph(i).xor[t],
         \A c \in DOMAIN i.chain : Graph(j).chain[c] = Graph(i).chain[c],
         \A l \in DOMAIN i.limit : Graph(j).limit[l] = Graph(i).limit[l]
  PROVE  Graph(j) = Graph(i)
<1>1. Graph(j).acct = Graph(i).acct
  <2>1. /\ Graph(i).acct = [a \in DOMAIN i.acct |-> Graph(i).acct[a]]
        /\ Graph(j).acct = [a \in DOMAIN i.acct |-> Graph(j).acct[a]]
    BY DEF Graph
  <2> QED BY <2>1, SameFunction
<1>2. Graph(j).atpl = Graph(i).atpl
  <2>1. /\ Graph(i).atpl = [t \in DOMAIN i.atpl |-> Graph(i).atpl[t]]
        /\ Graph(j).atpl = [t \in DOMAIN i.atpl |-> Graph(j).atpl[t]]
    BY DEF Graph
  <2> QED BY <2>1, SameFunction
<1>3. Graph(j).roles = Graph(i).roles
  <2>1. /\ Graph(i).roles = [r \in DOMAIN i.rail |-> Graph(i).roles[r]]
        /\ Graph(j).roles = [r \in DOMAIN i.rail |-> Graph(j).roles[r]]
    BY DEF Graph
  <2> QED BY <2>1, SameFunction
<1>4. Graph(j).swept = Graph(i).swept
  <2>1. /\ Graph(i).swept = [r \in DOMAIN i.rail |-> Graph(i).swept[r]]
        /\ Graph(j).swept = [r \in DOMAIN i.rail |-> Graph(j).swept[r]]
    BY DEF Graph
  <2> QED BY <2>1, SameFunction
<1>5. Graph(j).legs = Graph(i).legs
  <2>1. /\ Graph(i).legs = [t \in DOMAIN i.tpl |-> Graph(i).legs[t]]
        /\ Graph(j).legs = [t \in DOMAIN i.tpl |-> Graph(j).legs[t]]
    BY DEF Graph
  <2> QED BY <2>1, SameFunction
<1>6. Graph(j).xor = Graph(i).xor
  <2>1. /\ Graph(i).xor = [t \in DOMAIN i.tpl |-> Graph(i).xor[t]]
        /\ Graph(j).xor = [t \in DOMAIN i.tpl |-> Graph(j).xor[t]]
    BY DEF Graph
  <2> QED BY <2>1, SameFunction
<1>7. Graph(j).chain = Graph(i).chain
  <2>1. /\ Graph(i).chain = [c \in DOMAIN i.chain |-> Graph(i).chain[c]]
        /\ Graph(j).chain = [c \in DOMAIN i.chain |-> Graph(j).chain[c]]
    BY DEF Graph
  <2> QED BY <2>1, SameFunction
<1>8. Graph(j).limit = Graph(i).limit
  <2>1. /\ Graph(i).limit = [l \in DOMAIN i.limit |-> Graph(i).limit[l]]
        /\ Graph(j).limit = [l \in DOMAIN i.limit |-> Graph(j).limit[l]]
    BY DEF Graph
  <2> QED BY <2>1, SameFunction
<1>9. \A k \in {i, j} :
        Graph(k) = [acct |-> Graph(k).acct, atpl |-> Graph(k).atpl,
                    roles |-> Graph(k).roles, swept |-> Graph(k).swept,
                    legs |-> Graph(k).legs, xor |-> Graph(k).xor,
                    chain |-> Graph(k).chain, limit |-> Graph(k).limit]
  BY DEF Graph
<1> QED BY <1>1, <1>2, <1>3, <1>4, <1>5, <1>6, <1>7, <1>8, <1>9

LEMMA RoleRenameKeeps ==
  ASSUME NEW i, IsInstance(i), Valid(i), NEW j, NEW old \in Names, NEW new \in Names,
         new \notin Roles(i), AsRole(i, j, old, new)
  PROVE  Graph(j) = Graph(i)
<1>1. /\ DOMAIN j.acct = DOMAIN i.acct /\ DOMAIN j.atpl = DOMAIN i.atpl
      /\ DOMAIN j.rail = DOMAIN i.rail /\ j.tpl = i.tpl /\ j.chain = i.chain
      /\ \A a \in DOMAIN i.acct : j.acct[a].parent = Sub(i.acct[a].parent, old, new)
      /\ \A a \in DOMAIN i.atpl : j.atpl[a].parent = Sub(i.atpl[a].parent, old, new)
  BY DEF AsRole, AsHolders
<1>2. \A r \in DOMAIN i.rail : /\ j.rail[r].name = i.rail[r].name
                               /\ j.rail[r].roles = SubAll(i.rail[r].roles, old, new)
                               /\ j.rail[r].bundles = i.rail[r].bundles
  BY RoleRenamedRails
<1>3. /\ DOMAIN j.limit = DOMAIN i.limit
      /\ \A l \in DOMAIN i.limit :
           /\ j.limit[l].parent = Sub(i.limit[l].parent, old, new)
           /\ j.limit[l].rail = i.limit[l].rail
  BY RoleRenamedLimits
<1>4. \A n : n # new => RoleHolders(j, Sub(n, old, new)) = RoleHolders(i, n)
  BY RoleHoldersKept
<1>5. \A n : /\ RailHolders(j, n) = RailHolders(i, n)
             /\ TplHolders(j, n) = TplHolders(i, n)
             /\ NameHolders(j, n) = NameHolders(i, n)
  BY <1>1, <1>2 DEF RailHolders, TplHolders, NameHolders
<1>6. new # NoName
  BY NoNameAssumption
<1>7. ASSUME NEW a \in DOMAIN i.acct
      PROVE  Graph(j).acct[a] = Graph(i).acct[a]
  <2>1. i.acct[a].parent # new
    BY <1>6 DEF Valid, R2
  <2> QED BY <1>1, <1>4, <2>1 DEF Graph
<1>8. ASSUME NEW a \in DOMAIN i.atpl
      PROVE  Graph(j).atpl[a] = Graph(i).atpl[a]
  <2>1. i.atpl[a].parent # new
    BY <1>6 DEF Valid, R3, Roles
  <2> QED BY <1>1, <1>4, <2>1 DEF Graph
<1>9. ASSUME NEW r \in DOMAIN i.rail
      PROVE  Graph(j).roles[r] = Graph(i).roles[r] /\ Graph(j).swept[r] = Graph(i).swept[r]
  <2>1. new \notin i.rail[r].roles
    BY DEF Valid, R1
  <2>2. {RoleHolders(j, n) : n \in j.rail[r].roles}
          = {RoleHolders(i, n) : n \in i.rail[r].roles}
    BY <1>2, <1>4, <2>1 DEF SubAll
  <2>3. Graph(j).roles[r] = Graph(i).roles[r]
    BY <1>1, <2>2 DEF Graph
  <2>4. {<<TplHolders(j, b.of), NameHolders(j, b.name)>> : b \in j.rail[r].bundles}
          = {<<TplHolders(i, b.of), NameHolders(i, b.name)>> : b \in i.rail[r].bundles}
    BY <1>2, <1>5
  <2>5. Graph(j).swept[r] = Graph(i).swept[r]
    BY <1>1, <2>4 DEF Graph
  <2> QED BY <2>3, <2>5
<1>10. ASSUME NEW t \in DOMAIN i.tpl
       PROVE  Graph(j).legs[t] = Graph(i).legs[t] /\ Graph(j).xor[t] = Graph(i).xor[t]
  <2>1. {RailHolders(j, n) : n \in i.tpl[t].legs} = {RailHolders(i, n) : n \in i.tpl[t].legs}
    BY <1>5
  <2>2. {{RailHolders(j, n) : n \in g} : g \in i.tpl[t].groups}
          = {{RailHolders(i, n) : n \in g} : g \in i.tpl[t].groups}
    <3>1. \A g : {RailHolders(j, n) : n \in g} = {RailHolders(i, n) : n \in g}
      BY <1>5
    <3> QED BY <3>1
  <2>3. Graph(j).legs[t] = Graph(i).legs[t]
    BY <1>1, <2>1 DEF Graph
  <2>4. Graph(j).xor[t] = Graph(i).xor[t]
    BY <1>1, <2>2 DEF Graph
  <2> QED BY <2>3, <2>4
<1>11. ASSUME NEW c \in DOMAIN i.chain
       PROVE  Graph(j).chain[c] = Graph(i).chain[c]
  BY <1>1, <1>5 DEF Graph
<1>12. ASSUME NEW l \in DOMAIN i.limit
       PROVE  Graph(j).limit[l] = Graph(i).limit[l]
  <2>1. i.limit[l].parent # new
    BY DEF Valid, R6
  <2> QED BY <1>3, <1>4, <1>5, <2>1 DEF Graph
<1> QED BY <1>1, <1>3, <1>7, <1>8, <1>9, <1>10, <1>11, <1>12, GraphByParts

(* What a valid instance's names resolve to, in the form renames need.     *)
LEMMA Resolved ==
  ASSUME NEW i, IsInstance(i), Valid(i)
  PROVE  /\ \A r \in DOMAIN i.rail : i.rail[r].name \in RailNames(i)
         /\ \A t \in DOMAIN i.tpl : i.tpl[t].name \in TplNames(i)
         /\ \A t \in DOMAIN i.tpl : i.tpl[t].legs \subseteq RailNames(i)
         /\ Legs(i) \subseteq RailNames(i)
         /\ \A t \in DOMAIN i.tpl : \A g \in i.tpl[t].groups : g \subseteq i.tpl[t].legs
         /\ \A l \in DOMAIN i.limit : i.limit[l].rail \in RailNames(i)
         /\ \A c \in DOMAIN i.chain :
              /\ i.chain[c].parent \in Endpoints(i)
              /\ \A k \in DOMAIN i.chain[c].children :
                   i.chain[c].children[k].name \in Endpoints(i)
         /\ \A r \in DOMAIN i.rail : i.rail[r].bundles \subseteq Bundles(i)
         /\ \A b \in Bundles(i) :
              /\ b \in Selector
              /\ b.name \in RailNames(i)
              /\ b.of # NoName => b.of \in TplNames(i)
<1>1. /\ \A r \in DOMAIN i.rail : i.rail[r].name \in RailNames(i)
      /\ \A t \in DOMAIN i.tpl : i.tpl[t].name \in TplNames(i)
  BY DEF RailNames, TplNames
<1>2. \A t \in DOMAIN i.tpl : i.tpl[t].legs \subseteq RailNames(i)
  BY DEF Valid, R4
<1>3. Legs(i) \subseteq RailNames(i)
  BY <1>2 DEF Legs
<1>4. \A t \in DOMAIN i.tpl : \A g \in i.tpl[t].groups : g \subseteq i.tpl[t].legs
  BY DEF Valid, C1abc
<1>5. \A l \in DOMAIN i.limit : i.limit[l].rail \in RailNames(i)
  BY DEF Valid, R10
<1>6. \A c \in DOMAIN i.chain :
        /\ i.chain[c].parent \in Endpoints(i)
        /\ \A k \in DOMAIN i.chain[c].children :
             i.chain[c].children[k].name \in Endpoints(i)
  BY DEF Valid, R5, ChildNames
<1>7. \A r \in DOMAIN i.rail : i.rail[r].bundles \subseteq Bundles(i)
  BY DEF Bundles, Aggregators, Valid, S56
<1>8. ASSUME NEW b \in Bundles(i)
      PROVE  /\ b \in Selector
             /\ b.name \in RailNames(i)
             /\ b.of # NoName => b.of \in TplNames(i)
  <2>1. PICK r \in DOMAIN i.rail : b \in i.rail[r].bundles
    BY DEF Bundles, Aggregators
  <2>2. b \in Selector
    BY <2>1, OfKind DEF RailRec
  <2>3. CASE b.of = NoName
    BY <2>2, <2>3 DEF Valid, R11
  <2>4. CASE b.of # NoName
    <3>1. PICK t \in DOMAIN i.tpl : i.tpl[t].name = b.of /\ b.name \in i.tpl[t].legs
      BY <2>4 DEF Valid, R9
    <3> QED BY <1>1, <1>2, <2>2, <3>1
  <2> QED BY <2>2, <2>3, <2>4
<1> QED BY <1>1, <1>2, <1>3, <1>4, <1>5, <1>6, <1>7, <1>8

LEMMA ChainChildren ==
  ASSUME NEW i, IsInstance(i), NEW j, IsInstance(j), NEW old, NEW new,
         AsChains(i.chain, j.chain, old, new), NEW c \in DOMAIN i.chain
  PROVE  /\ ChildNames(j.chain[c]) = SubAll(ChildNames(i.chain[c]), old, new)
         /\ i.chain[c].children # <<>> => j.chain[c].children # <<>>
<1> DEFINE s == i.chain[c].children
           t == j.chain[c].children
           Child == [name : Names, fanIn : BOOLEAN]
<1>1. DOMAIN t = DOMAIN s /\ \A k \in DOMAIN s : t[k].name = Sub(s[k].name, old, new)
  BY DEF AsChains
<1>2. ChildNames(j.chain[c]) = SubAll(ChildNames(i.chain[c]), old, new)
  BY <1>1 DEF ChildNames, SubAll
<1>3. s \in Seq(Child) /\ t \in Seq(Child)
  BY OfKind DEF ChainRec, AsChains
<1> HIDE DEF s, t, Child
<1>4. s # <<>> => 1 \in DOMAIN s
  BY <1>3
<1>5. 1 \in DOMAIN t => t # <<>>
  BY <1>3
<1> QED BY <1>1, <1>2, <1>4, <1>5 DEF s, t

LEMMA RailRenamedFields ==
  ASSUME NEW i, IsInstance(i), NEW j, NEW old, NEW new, AsRail(i, j, old, new)
  PROVE  /\ \A r \in DOMAIN i.rail :
              /\ j.rail[r].name = Sub(i.rail[r].name, old, new)
              /\ j.rail[r].single = i.rail[r].single
              /\ j.rail[r].roles = i.rail[r].roles
              /\ j.rail[r].variable = i.rail[r].variable
              /\ j.rail[r].aggregating = i.rail[r].aggregating
              /\ j.rail[r].bundles = SubBare(i.rail[r].bundles, old, new)
              /\ j.rail[r].net = i.rail[r].net
              /\ j.rail[r].watch = i.rail[r].watch
         /\ \A t \in DOMAIN i.tpl :
              /\ j.tpl[t].name = i.tpl[t].name
              /\ j.tpl[t].legs = SubAll(i.tpl[t].legs, old, new)
              /\ j.tpl[t].groups = i.tpl[t].groups
         /\ RailNames(j) = SubAll(RailNames(i), old, new)
         /\ TplNames(j) = TplNames(i)
         /\ Legs(j) = SubAll(Legs(i), old, new)
         /\ Aggregators(j) = Aggregators(i)
         /\ Bundles(j) = SubBare(Bundles(i), old, new)
         /\ Variables(j) = SubAll(Variables(i), old, new)
<1>0. DOMAIN j.rail = DOMAIN i.rail /\ DOMAIN j.tpl = DOMAIN i.tpl
  BY DEF AsRail
<1>1. ASSUME NEW r \in DOMAIN i.rail
      PROVE  /\ j.rail[r].name = Sub(i.rail[r].name, old, new)
             /\ j.rail[r].single = i.rail[r].single
             /\ j.rail[r].roles = i.rail[r].roles
             /\ j.rail[r].variable = i.rail[r].variable
             /\ j.rail[r].aggregating = i.rail[r].aggregating
             /\ j.rail[r].bundles = SubBare(i.rail[r].bundles, old, new)
             /\ j.rail[r].net = i.rail[r].net
             /\ j.rail[r].watch = i.rail[r].watch
  <2>1. i.rail[r] \in RailRec
    BY OfKind
  <2>2. j.rail[r] = [i.rail[r] EXCEPT !.name = Sub(@, old, new),
                                      !.bundles = SubBare(@, old, new)]
    BY DEF AsRail
  <2> QED BY <2>1, <2>2 DEF RailRec
<1>2. ASSUME NEW t \in DOMAIN i.tpl
      PROVE  /\ j.tpl[t].name = i.tpl[t].name
             /\ j.tpl[t].legs = SubAll(i.tpl[t].legs, old, new)
             /\ j.tpl[t].groups = i.tpl[t].groups
  <2>1. i.tpl[t] \in TplRec
    BY OfKind
  <2>2. j.tpl[t] = [i.tpl[t] EXCEPT !.legs = SubAll(@, old, new)]
    BY DEF AsRail
  <2> QED BY <2>1, <2>2 DEF TplRec
<1>3. RailNames(j) = SubAll(RailNames(i), old, new)
  BY <1>0, <1>1 DEF RailNames, SubAll
<1>4. TplNames(j) = TplNames(i)
  BY <1>0, <1>2 DEF TplNames
<1>5. Legs(j) = SubAll(Legs(i), old, new)
  BY <1>0, <1>2 DEF Legs, SubAll
<1>6. Aggregators(j) = Aggregators(i)
  BY <1>0, <1>1 DEF Aggregators
<1>7. Bundles(j) = SubBare(Bundles(i), old, new)
  <2>1. \A r \in Aggregators(i) : j.rail[r].bundles = SubBare(i.rail[r].bundles, old, new)
    BY <1>1 DEF Aggregators
  <2> QED BY <1>6, <2>1 DEF Bundles, SubBare
<1>8. Variables(j) = SubAll(Variables(i), old, new)
  BY <1>0, <1>1 DEF Variables, SubAll
<1> QED BY <1>1, <1>2, <1>3, <1>4, <1>5, <1>6, <1>7, <1>8

(* A bundle selector after the rename, when no dotted one names the rail.  *)
LEMMA BundlesRenamed ==
  ASSUME NEW B \in SUBSET Selector, NEW old, NEW new,
         \A b \in B : b.of # NoName => b.name # old
  PROVE  /\ \A d \in SubBare(B, old, new) :
              \E b \in B : d.of = b.of /\ d.name = Sub(b.name, old, new)
         /\ \A b \in B : \E d \in SubBare(B, old, new) :
              d.of = b.of /\ d.name = Sub(b.name, old, new)
         /\ B # {} <=> SubBare(B, old, new) # {}
<1> DEFINE f(b) == IF b = Bare(old) THEN Bare(new) ELSE b
<1>1. ASSUME NEW b \in B
      PROVE  f(b).of = b.of /\ f(b).name = Sub(b.name, old, new)
  <2>1. CASE b = Bare(old)
    BY <2>1 DEF Bare, Sub
  <2>2. CASE b # Bare(old)
    <3>1. b.name # old
      <4>1. b = [of |-> b.of, name |-> b.name]
        BY DEF Selector
      <4> QED BY <2>2, <4>1 DEF Bare
    <3> QED BY <2>2, <3>1 DEF Sub
  <2> QED BY <2>1, <2>2
<1>2. SubBare(B, old, new) = {f(b) : b \in B}
  BY DEF SubBare
<1> HIDE DEF f
<1> QED BY <1>1, <1>2

(* A rail is renamed when no XOR group, limit schedule or dotted selector  *)
(* names it.                                                               *)
LEMMA RailRenameAccepted ==
  ASSUME NEW i, IsInstance(i), Valid(i), NEW j, IsInstance(j),
         NEW old, old \notin TplNames(i),
         NEW new, new \notin Endpoints(i), AsRail(i, j, old, new),
         \A t \in DOMAIN i.tpl : old \notin UNION i.tpl[t].groups,
         \A l \in DOMAIN i.limit : i.limit[l].rail # old,
         \A b \in Bundles(i) : b.of # NoName => b.name # old
  PROVE  Valid(j)
<1> DEFINE X == Endpoints(i)
<1>1. /\ j.acct = i.acct /\ j.atpl = i.atpl /\ j.limit = i.limit
      /\ DOMAIN j.rail = DOMAIN i.rail /\ DOMAIN j.tpl = DOMAIN i.tpl
      /\ DOMAIN j.chain = DOMAIN i.chain
      /\ \A c \in DOMAIN i.chain :
           /\ j.chain[c].parent = Sub(i.chain[c].parent, old, new)
           /\ DOMAIN j.chain[c].children = DOMAIN i.chain[c].children
           /\ \A k \in DOMAIN i.chain[c].children :
                /\ j.chain[c].children[k].name
                     = Sub(i.chain[c].children[k].name, old, new)
                /\ j.chain[c].children[k].fanIn = i.chain[c].children[k].fanIn
  BY DEF AsRail, AsChains
<1>2. /\ \A r \in DOMAIN i.rail :
           /\ j.rail[r].name = Sub(i.rail[r].name, old, new)
           /\ j.rail[r].single = i.rail[r].single
           /\ j.rail[r].roles = i.rail[r].roles
           /\ j.rail[r].variable = i.rail[r].variable
           /\ j.rail[r].aggregating = i.rail[r].aggregating
           /\ j.rail[r].bundles = SubBare(i.rail[r].bundles, old, new)
           /\ j.rail[r].net = i.rail[r].net
           /\ j.rail[r].watch = i.rail[r].watch
      /\ \A t \in DOMAIN i.tpl :
           /\ j.tpl[t].name = i.tpl[t].name
           /\ j.tpl[t].legs = SubAll(i.tpl[t].legs, old, new)
           /\ j.tpl[t].groups = i.tpl[t].groups
      /\ RailNames(j) = SubAll(RailNames(i), old, new)
      /\ TplNames(j) = TplNames(i)
      /\ Legs(j) = SubAll(Legs(i), old, new)
      /\ Aggregators(j) = Aggregators(i)
      /\ Bundles(j) = SubBare(Bundles(i), old, new)
      /\ Variables(j) = SubAll(Variables(i), old, new)
  BY RailRenamedFields
<1>3. /\ \A r \in DOMAIN i.rail : i.rail[r].name \in RailNames(i)
      /\ \A t \in DOMAIN i.tpl : i.tpl[t].legs \subseteq RailNames(i)
      /\ Legs(i) \subseteq RailNames(i)
      /\ \A t \in DOMAIN i.tpl : \A g \in i.tpl[t].groups : g \subseteq i.tpl[t].legs
      /\ \A l \in DOMAIN i.limit : i.limit[l].rail \in RailNames(i)
      /\ \A c \in DOMAIN i.chain :
           /\ i.chain[c].parent \in X
           /\ \A k \in DOMAIN i.chain[c].children : i.chain[c].children[k].name \in X
      /\ \A r \in DOMAIN i.rail : i.rail[r].bundles \subseteq Bundles(i)
      /\ \A b \in Bundles(i) : b \in Selector /\ b.name \in RailNames(i)
  BY Resolved
<1>4. RailNames(i) \subseteq X /\ TplNames(i) \subseteq X /\ Variables(i) \subseteq X
  BY DEF Endpoints, RailNames, Variables
<1>5. /\ \A m, n \in X : Sub(m, old, new) = Sub(n, old, new) => m = n
      /\ \A n \in X : n # old => Sub(n, old, new) = n
      /\ \A m \in X, S \in SUBSET X :
           Sub(m, old, new) \in SubAll(S, old, new) <=> m \in S
  BY SubOneToOne
<1>6. Endpoints(j) = SubAll(X, old, new)
  <2>1. SubAll(TplNames(i), old, new) = TplNames(i)
    BY DEF SubAll, Sub
  <2> QED BY <1>2, <2>1 DEF Endpoints, SubAll
<1>7. /\ \A d \in Bundles(j) :
           \E b \in Bundles(i) : d.of = b.of /\ d.name = Sub(b.name, old, new)
      /\ \A b \in Bundles(i) : \E d \in Bundles(j) :
           d.of = b.of /\ d.name = Sub(b.name, old, new)
  BY <1>2, <1>3, BundlesRenamed
<1>c. AsChains(i.chain, j.chain, old, new)
  BY DEF AsRail
<1>d. \A c \in DOMAIN i.chain :
        /\ ChildNames(j.chain[c]) = SubAll(ChildNames(i.chain[c]), old, new)
        /\ i.chain[c].children # <<>> => j.chain[c].children # <<>>
  BY <1>c, ChainChildren
<1> HIDE DEF X
<1>8. U2(j) /\ U3(j) /\ U4(j) /\ U5(j) /\ U7(j)
  <2>1. U3(j)
    BY <1>1, <1>2, <1>3, <1>4, <1>5 DEF Valid, U3
  <2> QED BY <1>1, <1>2, <2>1 DEF Valid, U2, U4, U5, U7
<1>9. R1(j) /\ R2(j) /\ R3(j) /\ R6(j)
  <2>1. Roles(j) = Roles(i) /\ AcctRoles(j) = AcctRoles(i)
    BY <1>1 DEF Roles, AcctRoles, TplRoles
  <2> QED BY <1>1, <1>2, <2>1 DEF Valid, R1, R2, R3, R6
<1>10. R4(j)
  <2> SUFFICES ASSUME NEW t \in DOMAIN i.tpl
               PROVE  j.tpl[t].legs # {} /\ j.tpl[t].legs \subseteq RailNames(j)
    BY <1>1 DEF R4
  <2>1. i.tpl[t].legs # {} /\ i.tpl[t].legs \subseteq RailNames(i)
    BY DEF Valid, R4
  <2>2. /\ SubAll(i.tpl[t].legs, old, new) # {}
        /\ SubAll(i.tpl[t].legs, old, new) \subseteq SubAll(RailNames(i), old, new)
    BY <2>1 DEF SubAll
  <2> QED BY <1>2, <2>2
<1>11. R5(j)
  <2> SUFFICES ASSUME NEW c \in DOMAIN i.chain
               PROVE  /\ j.chain[c].parent \in Endpoints(j)
                      /\ ChildNames(j.chain[c]) \subseteq Endpoints(j)
    BY <1>1 DEF R5
  <2>1. ChildNames(i.chain[c]) \subseteq X
    BY <1>3 DEF ChildNames
  <2>2. SubAll(ChildNames(i.chain[c]), old, new) \subseteq SubAll(X, old, new)
    BY <2>1 DEF SubAll
  <2>3. Sub(i.chain[c].parent, old, new) \in SubAll(X, old, new)
    BY <1>3 DEF SubAll
  <2> QED BY <1>1, <1>6, <1>d, <2>2, <2>3
<1>12. R7(j)
  BY <1>1, <1>2, <1>3, <1>4, <1>5 DEF Valid, R7, Aggregators
<1>13. R8(j)
  <2> SUFFICES ASSUME NEW r \in DOMAIN i.rail, j.rail[r].watch
               PROVE  \E d \in Bundles(j) : d.name = j.rail[r].name
    BY <1>1 DEF R8
  <2>1. PICK b \in Bundles(i) : b.name = i.rail[r].name
    BY <1>2 DEF Valid, R8
  <2>2. PICK d \in Bundles(j) : d.name = Sub(b.name, old, new)
    BY <1>7
  <2> QED BY <1>2, <2>1, <2>2
<1>14. R9(j)
  <2> SUFFICES ASSUME NEW d \in Bundles(j), d.of # NoName
               PROVE  \E t \in DOMAIN j.tpl : j.tpl[t].name = d.of /\ d.name \in j.tpl[t].legs
    BY DEF R9
  <2>1. PICK b \in Bundles(i) : d.of = b.of /\ d.name = Sub(b.name, old, new)
    BY <1>7
  <2>2. PICK t \in DOMAIN i.tpl : i.tpl[t].name = b.of /\ b.name \in i.tpl[t].legs
    BY <2>1 DEF Valid, R9
  <2> QED BY <1>1, <1>2, <2>1, <2>2 DEF SubAll
<1>15. R10(j)
  <2> SUFFICES ASSUME NEW l \in DOMAIN i.limit
               PROVE  i.limit[l].rail \in RailNames(j)
    BY <1>1 DEF R10
  <2>1. Sub(i.limit[l].rail, old, new) = i.limit[l].rail
    BY DEF Sub
  <2> QED BY <1>2, <1>3, <2>1 DEF SubAll
<1>16. R11(j)
  BY <1>2, <1>3, <1>7 DEF R11, SubAll
<1>17. C1(j)
  <2> SUFFICES ASSUME NEW t \in DOMAIN i.tpl,
                      NEW m \in (j.tpl[t].legs \cap Variables(j)) \ UNION j.tpl[t].groups,
                      NEW n \in (j.tpl[t].legs \cap Variables(j)) \ UNION j.tpl[t].groups
               PROVE  m = n
    BY <1>1 DEF C1
  <2>1. ASSUME NEW x \in (j.tpl[t].legs \cap Variables(j)) \ UNION j.tpl[t].groups
        PROVE  \E y \in (i.tpl[t].legs \cap Variables(i)) \ UNION i.tpl[t].groups :
                 x = Sub(y, old, new)
    <3>1. PICK y \in i.tpl[t].legs : x = Sub(y, old, new)
      BY <1>2 DEF SubAll
    <3>2. y \in X
      BY <1>3, <1>4, <3>1
    <3>3. y \in Variables(i)
      BY <1>2, <1>4, <1>5, <3>1, <3>2
    <3>4. y \notin UNION i.tpl[t].groups
      <4>1. y \in UNION i.tpl[t].groups => y # old
        OBVIOUS
      <4> QED BY <1>2, <1>5, <3>1, <3>2, <4>1
    <3> QED BY <3>1, <3>3, <3>4
  <2> QED BY <2>1 DEF Valid, C1
<1>18. C1abc(j)
  <2> SUFFICES ASSUME NEW t \in DOMAIN i.tpl, NEW g \in i.tpl[t].groups, NEW m \in g
               PROVE  m \in j.tpl[t].legs \cap Variables(j)
    BY <1>1, <1>2 DEF Valid, C1abc
  <2>1. m \in i.tpl[t].legs /\ m \in Variables(i)
    BY DEF Valid, C1abc
  <2>2. Sub(m, old, new) = m
    BY DEF Sub
  <2> QED BY <1>2, <2>1, <2>2 DEF SubAll
<1>19. C1d(j)
  BY <1>1, <1>2 DEF Valid, C1d
<1>20. C3(j)
  BY <1>2 DEF Valid, C3, SubAll
<1>21. C5(j)
  BY <1>1, <1>d DEF Valid, C5
<1>22. C6(j)
  <2> SUFFICES ASSUME NEW c \in DOMAIN i.chain, NEW d \in DOMAIN i.chain,
                      j.chain[c].parent = j.chain[d].parent,
                      NEW k \in DOMAIN i.chain[c].children,
                      NEW m \in DOMAIN i.chain[d].children,
                      j.chain[c].children[k].name = j.chain[d].children[m].name
               PROVE  c = d /\ k = m
    BY <1>1 DEF C6
  <2>1. i.chain[c].parent = i.chain[d].parent
    BY <1>1, <1>3, <1>5
  <2>2. i.chain[c].children[k].name = i.chain[d].children[m].name
    BY <1>1, <1>3, <1>5
  <2> QED BY <2>1, <2>2 DEF Valid, C6
<1>23. C8a(j)
  <2> SUFFICES ASSUME NEW c \in DOMAIN i.chain, NEW k \in DOMAIN i.chain[c].children,
                      i.chain[c].children[k].fanIn
               PROVE  j.chain[c].children[k].name \in TplNames(i)
    BY <1>1, <1>2 DEF C8a
  <2>1. i.chain[c].children[k].name \in TplNames(i)
    BY DEF Valid, C8a
  <2> QED BY <1>1, <2>1 DEF Sub
<1>24. S12(j)
  BY <1>1, <1>2, <1>3, <1>4, <1>5 DEF Valid, S12
<1>25. S3(j)
  <2> SUFFICES ASSUME NEW r \in DOMAIN i.rail, i.rail[r].single, ~i.rail[r].aggregating
               PROVE  \/ j.rail[r].name \in Legs(j)
                      \/ Bare(j.rail[r].name) \in Bundles(j)
    BY <1>1, <1>2 DEF S3
  <2>1. \/ i.rail[r].name \in Legs(i)
        \/ Bare(i.rail[r].name) \in Bundles(i)
    BY DEF Valid, S3
  <2>2. Bare(i.rail[r].name) \in Bundles(i) =>
          Bare(Sub(i.rail[r].name, old, new)) \in Bundles(j)
    <3>1. CASE i.rail[r].name = old
      BY <1>2, <3>1 DEF SubBare, Sub
    <3>2. CASE i.rail[r].name # old
      <4>1. Bare(i.rail[r].name) # Bare(old)
        BY <3>2 DEF Bare
      <4> QED BY <1>2, <3>2, <4>1 DEF SubBare, Sub
    <3> QED BY <3>1, <3>2
  <2> QED BY <1>2, <2>1, <2>2 DEF SubAll
<1>26. S4(j)
  <2> SUFFICES ASSUME NEW c \in DOMAIN i.chain, NEW r \in Aggregators(i)
               PROVE  j.rail[r].name \notin ChildNames(j.chain[c])
    BY <1>1, <1>2 DEF S4
  <2>1. ChildNames(j.chain[c]) = SubAll(ChildNames(i.chain[c]), old, new)
    BY <1>d
  <2>2. ChildNames(i.chain[c]) \in SUBSET X
    BY <1>3 DEF ChildNames
  <2>3. i.rail[r].name \in X /\ j.rail[r].name = Sub(i.rail[r].name, old, new)
    BY <1>2, <1>3, <1>4 DEF Aggregators
  <2>4. i.rail[r].name \notin ChildNames(i.chain[c])
    BY DEF Valid, S4
  <2> QED BY <1>5, <2>1, <2>2, <2>3, <2>4
<1>27. S56(j)
  <2>1. \A r \in DOMAIN i.rail : j.rail[r].bundles # {} <=> i.rail[r].bundles # {}
    BY <1>2 DEF SubBare
  <2> QED BY <1>1, <1>2, <2>1 DEF Valid, S56
<1> QED BY <1>8, <1>9, <1>10, <1>11, <1>12, <1>13, <1>14, <1>15, <1>16, <1>17,
           <1>18, <1>19, <1>20, <1>21, <1>22, <1>23, <1>24, <1>25, <1>26, <1>27
           DEF Valid

(* A new name leaves the old one to nobody, so what still uses it, because *)
(* the cascade does not rewrite it, resolves to nothing.                   *)
LEMMA NothingLeft ==
  ASSUME NEW S, NEW old, NEW new, old # new
  PROVE  old \notin SubAll(S, old, new)
BY DEF Sub, SubAll

LEMMA RailRenameRefused ==
  ASSUME NEW i, IsInstance(i), Valid(i), NEW j,
         NEW old \in RailNames(i), NEW new, new \notin Endpoints(i),
         AsRail(i, j, old, new),
         \/ \E t \in DOMAIN i.tpl : old \in UNION i.tpl[t].groups
         \/ \E l \in DOMAIN i.limit : i.limit[l].rail = old
         \/ \E b \in Bundles(i) : b.of # NoName /\ b.name = old
  PROVE  ~Valid(j)
<1>1. old # new
  BY DEF Endpoints
<1>2. \A S : old \notin SubAll(S, old, new)
  BY <1>1, NothingLeft
<1>3. /\ \A t \in DOMAIN i.tpl : /\ j.tpl[t].legs = SubAll(i.tpl[t].legs, old, new)
                                 /\ j.tpl[t].groups = i.tpl[t].groups
      /\ RailNames(j) = SubAll(RailNames(i), old, new)
      /\ Bundles(j) = SubBare(Bundles(i), old, new)
  BY RailRenamedFields
<1>4. j.limit = i.limit /\ DOMAIN j.tpl = DOMAIN i.tpl
  BY DEF AsRail
<1>5. CASE \E t \in DOMAIN i.tpl : old \in UNION i.tpl[t].groups
  <2>1. PICK t \in DOMAIN i.tpl : \E g \in i.tpl[t].groups : old \in g
    BY <1>5
  <2>2. old \notin j.tpl[t].legs
    BY <1>2, <1>3
  <2>3. ~C1abc(j)
    BY <1>3, <1>4, <2>1, <2>2 DEF C1abc
  <2> QED BY <2>3 DEF Valid
<1>6. CASE \E l \in DOMAIN i.limit : i.limit[l].rail = old
  <2>1. ~R10(j)
    BY <1>2, <1>3, <1>4, <1>6 DEF R10
  <2> QED BY <2>1 DEF Valid
<1>7. CASE \E b \in Bundles(i) : b.of # NoName /\ b.name = old
  <2>1. PICK b \in Bundles(i) : b.of # NoName /\ b.name = old
    BY <1>7
  <2>2. b # Bare(old)
    BY <2>1 DEF Bare
  <2>3. b \in Bundles(j)
    BY <1>3, <2>2 DEF SubBare
  <2>4. \A t \in DOMAIN j.tpl : old \notin j.tpl[t].legs
    BY <1>2, <1>3, <1>4
  <2>5. ~R9(j)
    BY <2>1, <2>3, <2>4 DEF R9
  <2> QED BY <2>5 DEF Valid
<1> QED BY <1>5, <1>6, <1>7

LEMMA TplRenamedFields ==
  ASSUME NEW i, IsInstance(i), NEW j, NEW old, NEW new, AsTpl(i, j, old, new)
  PROVE  /\ \A t \in DOMAIN i.tpl :
              /\ j.tpl[t].name = Sub(i.tpl[t].name, old, new)
              /\ j.tpl[t].legs = i.tpl[t].legs
              /\ j.tpl[t].groups = i.tpl[t].groups
         /\ RailNames(j) = RailNames(i)
         /\ TplNames(j) = SubAll(TplNames(i), old, new)
         /\ Legs(j) = Legs(i)
         /\ Aggregators(j) = Aggregators(i)
         /\ Bundles(j) = Bundles(i)
         /\ Variables(j) = Variables(i)
<1>1. j.rail = i.rail /\ DOMAIN j.tpl = DOMAIN i.tpl
  BY DEF AsTpl
<1>2. ASSUME NEW t \in DOMAIN i.tpl
      PROVE  /\ j.tpl[t].name = Sub(i.tpl[t].name, old, new)
             /\ j.tpl[t].legs = i.tpl[t].legs
             /\ j.tpl[t].groups = i.tpl[t].groups
  <2>1. i.tpl[t] \in TplRec
    BY OfKind
  <2>2. j.tpl[t] = [i.tpl[t] EXCEPT !.name = Sub(@, old, new)]
    BY DEF AsTpl
  <2> QED BY <2>1, <2>2 DEF TplRec
<1>3. /\ RailNames(j) = RailNames(i) /\ Aggregators(j) = Aggregators(i)
      /\ Variables(j) = Variables(i)
  BY <1>1 DEF RailNames, Aggregators, Variables
<1>4. Bundles(j) = Bundles(i)
  BY <1>1, <1>3 DEF Bundles
<1>5. TplNames(j) = SubAll(TplNames(i), old, new)
  BY <1>1, <1>2 DEF TplNames, SubAll
<1>6. Legs(j) = Legs(i)
  BY <1>1, <1>2 DEF Legs
<1> QED BY <1>2, <1>3, <1>4, <1>5, <1>6

LEMMA TplRenameRefused ==
  ASSUME NEW i, IsInstance(i), NEW j, NEW old \in TplNames(i), old # NoName,
         NEW new, new \notin Endpoints(i), AsTpl(i, j, old, new),
         \E b \in Bundles(i) : b.of = old
  PROVE  ~Valid(j)
<1>1. old # new
  BY DEF Endpoints
<1>2. PICK b \in Bundles(i) : b.of = old
  OBVIOUS
<1>3. b \in Bundles(j)
  BY TplRenamedFields
<1>4. \A t \in DOMAIN j.tpl : j.tpl[t].name # old
  <2>1. old \notin TplNames(j)
    BY <1>1, NothingLeft, TplRenamedFields
  <2> QED BY <2>1 DEF TplNames
<1> QED BY <1>2, <1>3, <1>4 DEF Valid, R9

(* A template is renamed when no dotted selector names it. *)
LEMMA TplRenameAccepted ==
  ASSUME NEW i, IsInstance(i), Valid(i), NEW j, IsInstance(j),
         NEW old, old \notin RailNames(i),
         NEW new, new \notin Endpoints(i), AsTpl(i, j, old, new),
         \A b \in Bundles(i) : b.of # old
  PROVE  Valid(j)
<1> DEFINE X == Endpoints(i)
<1>1. /\ j.acct = i.acct /\ j.atpl = i.atpl /\ j.limit = i.limit /\ j.rail = i.rail
      /\ DOMAIN j.tpl = DOMAIN i.tpl /\ DOMAIN j.chain = DOMAIN i.chain
      /\ \A c \in DOMAIN i.chain :
           /\ j.chain[c].parent = Sub(i.chain[c].parent, old, new)
           /\ DOMAIN j.chain[c].children = DOMAIN i.chain[c].children
           /\ \A k \in DOMAIN i.chain[c].children :
                /\ j.chain[c].children[k].name
                     = Sub(i.chain[c].children[k].name, old, new)
                /\ j.chain[c].children[k].fanIn = i.chain[c].children[k].fanIn
  BY DEF AsTpl, AsChains
<1>2. /\ \A t \in DOMAIN i.tpl :
           /\ j.tpl[t].name = Sub(i.tpl[t].name, old, new)
           /\ j.tpl[t].legs = i.tpl[t].legs
           /\ j.tpl[t].groups = i.tpl[t].groups
      /\ RailNames(j) = RailNames(i)
      /\ TplNames(j) = SubAll(TplNames(i), old, new)
      /\ Legs(j) = Legs(i)
      /\ Aggregators(j) = Aggregators(i)
      /\ Bundles(j) = Bundles(i)
      /\ Variables(j) = Variables(i)
  BY TplRenamedFields
<1>3. /\ \A r \in DOMAIN i.rail : i.rail[r].name \in RailNames(i)
      /\ \A t \in DOMAIN i.tpl : i.tpl[t].name \in TplNames(i)
      /\ \A c \in DOMAIN i.chain :
           /\ i.chain[c].parent \in X
           /\ \A k \in DOMAIN i.chain[c].children : i.chain[c].children[k].name \in X
  BY Resolved
<1>4. RailNames(i) \subseteq X /\ TplNames(i) \subseteq X
  BY DEF Endpoints
<1>5. /\ \A m, n \in X : Sub(m, old, new) = Sub(n, old, new) => m = n
      /\ \A m \in X, S \in SUBSET X :
           Sub(m, old, new) \in SubAll(S, old, new) <=> m \in S
  BY SubOneToOne
<1>6. Endpoints(j) = SubAll(X, old, new)
  <2>1. SubAll(RailNames(i), old, new) = RailNames(i)
    BY DEF SubAll, Sub
  <2> QED BY <1>2, <2>1 DEF Endpoints, SubAll
<1>c. AsChains(i.chain, j.chain, old, new)
  BY DEF AsTpl
<1>d. \A c \in DOMAIN i.chain :
        /\ ChildNames(j.chain[c]) = SubAll(ChildNames(i.chain[c]), old, new)
        /\ i.chain[c].children # <<>> => j.chain[c].children # <<>>
  BY <1>c, ChainChildren
<1> HIDE DEF X
<1>8. U2(j) /\ U3(j) /\ U4(j) /\ U5(j) /\ U7(j)
  <2>1. U4(j)
    BY <1>1, <1>2, <1>3, <1>4, <1>5 DEF Valid, U4
  <2> QED BY <1>1, <2>1 DEF Valid, U2, U3, U5, U7
<1>9. R1(j) /\ R2(j) /\ R3(j) /\ R6(j)
  <2>1. Roles(j) = Roles(i) /\ AcctRoles(j) = AcctRoles(i)
    BY <1>1 DEF Roles, AcctRoles, TplRoles
  <2> QED BY <1>1, <2>1 DEF Valid, R1, R2, R3, R6
<1>10. R4(j) /\ R7(j) /\ R8(j) /\ R10(j) /\ R11(j)
  BY <1>1, <1>2 DEF Valid, R4, R7, R8, R10, R11
<1>11. R5(j)
  <2> SUFFICES ASSUME NEW c \in DOMAIN i.chain
               PROVE  /\ j.chain[c].parent \in Endpoints(j)
                      /\ ChildNames(j.chain[c]) \subseteq Endpoints(j)
    BY <1>1 DEF R5
  <2>1. ChildNames(i.chain[c]) \subseteq X
    BY <1>3 DEF ChildNames
  <2>2. SubAll(ChildNames(i.chain[c]), old, new) \subseteq SubAll(X, old, new)
    BY <2>1 DEF SubAll
  <2>3. Sub(i.chain[c].parent, old, new) \in SubAll(X, old, new)
    BY <1>3 DEF SubAll
  <2> QED BY <1>1, <1>6, <1>d, <2>2, <2>3
<1>12. R9(j)
  <2> SUFFICES ASSUME NEW b \in Bundles(i), b.of # NoName
               PROVE  \E t \in DOMAIN j.tpl : j.tpl[t].name = b.of /\ b.name \in j.tpl[t].legs
    BY <1>2 DEF R9
  <2>1. PICK t \in DOMAIN i.tpl : i.tpl[t].name = b.of /\ b.name \in i.tpl[t].legs
    BY DEF Valid, R9
  <2>2. j.tpl[t].name = b.of
    BY <1>2, <2>1 DEF Sub
  <2> QED BY <1>1, <1>2, <2>1, <2>2
<1>13. C1(j) /\ C1abc(j) /\ C1d(j) /\ C3(j)
  <2>1. C1(j)
    BY <1>1, <1>2 DEF Valid, C1
  <2>2. C1abc(j)
    BY <1>1, <1>2 DEF Valid, C1abc
  <2>3. C1d(j) /\ C3(j)
    BY <1>1, <1>2 DEF Valid, C1d, C3
  <2> QED BY <2>1, <2>2, <2>3
<1>14. C5(j)
  BY <1>1, <1>d DEF Valid, C5
<1>15. C6(j)
  <2> SUFFICES ASSUME NEW c \in DOMAIN i.chain, NEW d \in DOMAIN i.chain,
                      j.chain[c].parent = j.chain[d].parent,
                      NEW k \in DOMAIN i.chain[c].children,
                      NEW m \in DOMAIN i.chain[d].children,
                      j.chain[c].children[k].name = j.chain[d].children[m].name
               PROVE  c = d /\ k = m
    BY <1>1 DEF C6
  <2>1. i.chain[c].parent = i.chain[d].parent
    BY <1>1, <1>3, <1>5
  <2>2. i.chain[c].children[k].name = i.chain[d].children[m].name
    BY <1>1, <1>3, <1>5
  <2> QED BY <2>1, <2>2 DEF Valid, C6
<1>16. C8a(j)
  <2> SUFFICES ASSUME NEW c \in DOMAIN i.chain, NEW k \in DOMAIN i.chain[c].children,
                      i.chain[c].children[k].fanIn
               PROVE  j.chain[c].children[k].name \in SubAll(TplNames(i), old, new)
    BY <1>1, <1>2 DEF C8a
  <2>1. i.chain[c].children[k].name \in TplNames(i)
    BY DEF Valid, C8a
  <2> QED BY <1>1, <2>1 DEF SubAll
<1>17. S12(j) /\ S3(j) /\ S56(j)
  BY <1>1, <1>2 DEF Valid, S12, S3, S56
<1>18. S4(j)
  <2> SUFFICES ASSUME NEW c \in DOMAIN i.chain, NEW r \in Aggregators(i)
               PROVE  i.rail[r].name \notin ChildNames(j.chain[c])
    BY <1>1, <1>2 DEF S4
  <2>1. ChildNames(i.chain[c]) \in SUBSET X
    BY <1>3 DEF ChildNames
  <2>2. i.rail[r].name \in RailNames(i) /\ i.rail[r].name \in X
    BY <1>3, <1>4 DEF Aggregators
  <2>3. Sub(i.rail[r].name, old, new) = i.rail[r].name
    BY <2>2 DEF Sub
  <2>4. i.rail[r].name \notin ChildNames(i.chain[c])
    BY DEF Valid, S4
  <2> QED BY <1>5, <1>d, <2>1, <2>2, <2>3, <2>4
<1> QED BY <1>8, <1>9, <1>10, <1>11, <1>12, <1>13, <1>14, <1>15, <1>16, <1>17, <1>18
           DEF Valid

-----------------------------------------------------------------------------
(* The references after the rename of a rail or of a template. *)

LEMMA RailHoldersKept ==
  ASSUME NEW i, IsInstance(i), NEW j, NEW old, old \notin TplNames(i),
         NEW new, new \notin Endpoints(i), AsRail(i, j, old, new),
         NEW n, n # new
  PROVE  /\ RailHolders(j, Sub(n, old, new)) = RailHolders(i, n)
         /\ NameHolders(j, Sub(n, old, new)) = NameHolders(i, n)
<1>0. DOMAIN j.rail = DOMAIN i.rail /\ DOMAIN j.tpl = DOMAIN i.tpl
  BY DEF AsRail
<1>1. /\ DOMAIN j.rail = DOMAIN i.rail /\ DOMAIN j.tpl = DOMAIN i.tpl
      /\ \A r \in DOMAIN i.rail : j.rail[r].name = Sub(i.rail[r].name, old, new)
      /\ \A t \in DOMAIN i.tpl : j.tpl[t].name = i.tpl[t].name
  BY <1>0, RailRenamedFields
<1>2. /\ \A r \in DOMAIN i.rail : i.rail[r].name # new
      /\ \A t \in DOMAIN i.tpl : i.tpl[t].name # new /\ i.tpl[t].name # old
  BY DEF Endpoints, RailNames, TplNames
<1>3. \A m : m # new => (Sub(m, old, new) = Sub(n, old, new) <=> m = n)
  BY DEF Sub
<1>4. {s \in DOMAIN j.rail : j.rail[s].name = Sub(n, old, new)}
        = {s \in DOMAIN i.rail : i.rail[s].name = n}
  BY <1>1, <1>2, <1>3
<1>5. {s \in DOMAIN j.tpl : j.tpl[s].name = Sub(n, old, new)}
        = {s \in DOMAIN i.tpl : i.tpl[s].name = n}
  BY <1>1, <1>2 DEF Sub
<1> QED BY <1>4, <1>5 DEF RailHolders, TplHolders, NameHolders

LEMMA TplHoldersKept ==
  ASSUME NEW i, IsInstance(i), NEW j, NEW old, old \notin RailNames(i),
         NEW new, new \notin Endpoints(i), AsTpl(i, j, old, new),
         NEW n, n # new
  PROVE  /\ TplHolders(j, Sub(n, old, new)) = TplHolders(i, n)
         /\ NameHolders(j, Sub(n, old, new)) = NameHolders(i, n)
<1>0. j.rail = i.rail /\ DOMAIN j.tpl = DOMAIN i.tpl
  BY DEF AsTpl
<1>1. /\ j.rail = i.rail /\ DOMAIN j.tpl = DOMAIN i.tpl
      /\ \A t \in DOMAIN i.tpl : j.tpl[t].name = Sub(i.tpl[t].name, old, new)
  BY <1>0, TplRenamedFields
<1>2. /\ \A r \in DOMAIN i.rail : i.rail[r].name # new /\ i.rail[r].name # old
      /\ \A t \in DOMAIN i.tpl : i.tpl[t].name # new
  BY DEF Endpoints, RailNames, TplNames
<1>3. \A m : m # new => (Sub(m, old, new) = Sub(n, old, new) <=> m = n)
  BY DEF Sub
<1>4. {s \in DOMAIN j.tpl : j.tpl[s].name = Sub(n, old, new)}
        = {s \in DOMAIN i.tpl : i.tpl[s].name = n}
  BY <1>1, <1>2, <1>3
<1>5. {s \in DOMAIN j.rail : j.rail[s].name = Sub(n, old, new)}
        = {s \in DOMAIN i.rail : i.rail[s].name = n}
  BY <1>1, <1>2 DEF Sub
<1> QED BY <1>4, <1>5 DEF RailHolders, TplHolders, NameHolders

LEMMA RailRenameKeeps ==
  ASSUME NEW i, IsInstance(i), Valid(i), NEW j,
         NEW old, old \notin TplNames(i),
         NEW new, new \notin Endpoints(i), AsRail(i, j, old, new),
         \A t \in DOMAIN i.tpl : old \notin UNION i.tpl[t].groups,
         \A l \in DOMAIN i.limit : i.limit[l].rail # old,
         \A b \in Bundles(i) : b.of # NoName => b.name # old
  PROVE  Graph(j) = Graph(i)
<1>1. /\ j.acct = i.acct /\ j.atpl = i.atpl /\ j.limit = i.limit
      /\ DOMAIN j.rail = DOMAIN i.rail /\ DOMAIN j.tpl = DOMAIN i.tpl
      /\ DOMAIN j.chain = DOMAIN i.chain
      /\ \A c \in DOMAIN i.chain :
           /\ j.chain[c].parent = Sub(i.chain[c].parent, old, new)
           /\ DOMAIN j.chain[c].children = DOMAIN i.chain[c].children
           /\ \A k \in DOMAIN i.chain[c].children :
                j.chain[c].children[k].name
                  = Sub(i.chain[c].children[k].name, old, new)
  BY DEF AsRail, AsChains
<1>2. /\ \A r \in DOMAIN i.rail :
           /\ j.rail[r].roles = i.rail[r].roles
           /\ j.rail[r].bundles = SubBare(i.rail[r].bundles, old, new)
      /\ \A t \in DOMAIN i.tpl :
           /\ j.tpl[t].name = i.tpl[t].name
           /\ j.tpl[t].legs = SubAll(i.tpl[t].legs, old, new)
           /\ j.tpl[t].groups = i.tpl[t].groups
  BY RailRenamedFields
<1>3. /\ \A t \in DOMAIN i.tpl : new \notin i.tpl[t].legs
      /\ \A t \in DOMAIN i.tpl : \A g \in i.tpl[t].groups : g \subseteq i.tpl[t].legs
      /\ \A l \in DOMAIN i.limit : i.limit[l].rail # new
      /\ \A c \in DOMAIN i.chain :
           /\ i.chain[c].parent # new
           /\ \A k \in DOMAIN i.chain[c].children : i.chain[c].children[k].name # new
      /\ \A r \in DOMAIN i.rail : i.rail[r].bundles \subseteq Bundles(i)
      /\ \A b \in Bundles(i) : b \in Selector /\ b.name # new
  BY Resolved DEF Endpoints
<1>4. \A n : n # new => /\ RailHolders(j, Sub(n, old, new)) = RailHolders(i, n)
                        /\ NameHolders(j, Sub(n, old, new)) = NameHolders(i, n)
  BY RailHoldersKept
<1>5. \A n : RoleHolders(j, n) = RoleHolders(i, n)
  BY <1>1 DEF RoleHolders
<1>6. \A n : TplHolders(j, n) = TplHolders(i, n)
  BY <1>1, <1>2 DEF TplHolders
<1>7. \A n : n # old /\ n # new => RailHolders(j, n) = RailHolders(i, n)
  BY <1>4 DEF Sub
<1>8. /\ \A a \in DOMAIN i.acct : Graph(j).acct[a] = Graph(i).acct[a]
      /\ \A t \in DOMAIN i.atpl : Graph(j).atpl[t] = Graph(i).atpl[t]
  BY <1>1, <1>5 DEF Graph
<1>9. ASSUME NEW r \in DOMAIN i.rail
      PROVE  Graph(j).roles[r] = Graph(i).roles[r] /\ Graph(j).swept[r] = Graph(i).swept[r]
  <2> DEFINE B == i.rail[r].bundles
  <2>1. {RoleHolders(j, n) : n \in j.rail[r].roles}
          = {RoleHolders(i, n) : n \in i.rail[r].roles}
    BY <1>2, <1>5
  <2>2. Graph(j).roles[r] = Graph(i).roles[r]
    BY <1>1, <2>1 DEF Graph
  <2>3. B \in SUBSET Selector /\ \A b \in B : b.of # NoName => b.name # old
    BY <1>3
  <2>4. \A b \in B : NameHolders(j, Sub(b.name, old, new)) = NameHolders(i, b.name)
    BY <1>3, <1>4
  <2> HIDE DEF B
  <2>5. /\ \A d \in SubBare(B, old, new) :
             \E b \in B : d.of = b.of /\ d.name = Sub(b.name, old, new)
        /\ \A b \in B : \E d \in SubBare(B, old, new) :
             d.of = b.of /\ d.name = Sub(b.name, old, new)
    BY <2>3, BundlesRenamed
  <2>6. {<<TplHolders(j, b.of), NameHolders(j, b.name)>> : b \in SubBare(B, old, new)}
          = {<<TplHolders(i, b.of), NameHolders(i, b.name)>> : b \in B}
    BY <1>6, <2>4, <2>5
  <2>7. Graph(j).swept[r] = Graph(i).swept[r]
    BY <1>1, <1>2, <2>6 DEF Graph, B
  <2> QED BY <2>2, <2>7
<1>10. ASSUME NEW t \in DOMAIN i.tpl
       PROVE  Graph(j).legs[t] = Graph(i).legs[t] /\ Graph(j).xor[t] = Graph(i).xor[t]
  <2>1. {RailHolders(j, n) : n \in j.tpl[t].legs} = {RailHolders(i, n) : n \in i.tpl[t].legs}
    BY <1>2, <1>3, <1>4 DEF SubAll
  <2>2. {{RailHolders(j, n) : n \in g} : g \in i.tpl[t].groups}
          = {{RailHolders(i, n) : n \in g} : g \in i.tpl[t].groups}
    <3>1. ASSUME NEW g \in i.tpl[t].groups
          PROVE  {RailHolders(j, n) : n \in g} = {RailHolders(i, n) : n \in g}
      <4>1. \A n \in g : n # old /\ n # new
        BY <1>3
      <4> QED BY <1>7, <4>1
    <3> QED BY <3>1
  <2>3. Graph(j).legs[t] = Graph(i).legs[t]
    BY <1>1, <2>1 DEF Graph
  <2>4. Graph(j).xor[t] = Graph(i).xor[t]
    BY <1>1, <1>2, <2>2 DEF Graph
  <2> QED BY <2>3, <2>4
<1>11. ASSUME NEW c \in DOMAIN i.chain
       PROVE  Graph(j).chain[c] = Graph(i).chain[c]
  <2>1. NameHolders(j, j.chain[c].parent) = NameHolders(i, i.chain[c].parent)
    BY <1>1, <1>3, <1>4
  <2>2. \A k \in DOMAIN i.chain[c].children :
          NameHolders(j, j.chain[c].children[k].name)
            = NameHolders(i, i.chain[c].children[k].name)
    BY <1>1, <1>3, <1>4
  <2>3. [k \in DOMAIN j.chain[c].children |-> NameHolders(j, j.chain[c].children[k].name)]
          = [k \in DOMAIN i.chain[c].children |->
               NameHolders(i, i.chain[c].children[k].name)]
    BY <1>1, <2>2
  <2> QED BY <1>1, <2>1, <2>3 DEF Graph
<1>12. \A l \in DOMAIN i.limit : Graph(j).limit[l] = Graph(i).limit[l]
  BY <1>1, <1>3, <1>5, <1>7 DEF Graph
<1> QED BY <1>1, <1>8, <1>9, <1>10, <1>11, <1>12, GraphByParts

LEMMA TplRenameKeeps ==
  ASSUME NEW i, IsInstance(i), Valid(i), NEW j,
         NEW old \in Names, old \notin RailNames(i),
         NEW new \in Names, new \notin Endpoints(i), AsTpl(i, j, old, new),
         \A b \in Bundles(i) : b.of # old
  PROVE  Graph(j) = Graph(i)
<1>1. /\ j.acct = i.acct /\ j.atpl = i.atpl /\ j.limit = i.limit /\ j.rail = i.rail
      /\ DOMAIN j.tpl = DOMAIN i.tpl /\ DOMAIN j.chain = DOMAIN i.chain
      /\ \A c \in DOMAIN i.chain :
           /\ j.chain[c].parent = Sub(i.chain[c].parent, old, new)
           /\ DOMAIN j.chain[c].children = DOMAIN i.chain[c].children
           /\ \A k \in DOMAIN i.chain[c].children :
                j.chain[c].children[k].name
                  = Sub(i.chain[c].children[k].name, old, new)
  BY DEF AsTpl, AsChains
<1>2. \A t \in DOMAIN i.tpl : /\ j.tpl[t].legs = i.tpl[t].legs
                              /\ j.tpl[t].groups = i.tpl[t].groups
  BY TplRenamedFields
<1>3. /\ \A c \in DOMAIN i.chain :
           /\ i.chain[c].parent # new
           /\ \A k \in DOMAIN i.chain[c].children : i.chain[c].children[k].name # new
      /\ \A r \in DOMAIN i.rail : i.rail[r].bundles \subseteq Bundles(i)
      /\ \A b \in Bundles(i) : /\ b.name \in RailNames(i)
                               /\ b.of # NoName => b.of \in TplNames(i)
  BY Resolved DEF Endpoints
<1>4. \A n : n # new => /\ TplHolders(j, Sub(n, old, new)) = TplHolders(i, n)
                        /\ NameHolders(j, Sub(n, old, new)) = NameHolders(i, n)
  BY TplHoldersKept
<1>5. \A n : RoleHolders(j, n) = RoleHolders(i, n) /\ RailHolders(j, n) = RailHolders(i, n)
  BY <1>1 DEF RoleHolders, RailHolders
<1>6. \A b \in Bundles(i) : /\ TplHolders(j, b.of) = TplHolders(i, b.of)
                            /\ NameHolders(j, b.name) = NameHolders(i, b.name)
  <2>1. \A b \in Bundles(i) : b.of # new /\ b.name # new /\ b.name # old
    BY <1>3, NoNameAssumption DEF Endpoints
  <2> QED BY <1>4, <2>1 DEF Sub
<1>8. /\ \A a \in DOMAIN i.acct : Graph(j).acct[a] = Graph(i).acct[a]
      /\ \A t \in DOMAIN i.atpl : Graph(j).atpl[t] = Graph(i).atpl[t]
      /\ \A l \in DOMAIN i.limit : Graph(j).limit[l] = Graph(i).limit[l]
  BY <1>1, <1>5 DEF Graph
<1>9. ASSUME NEW r \in DOMAIN i.rail
      PROVE  Graph(j).roles[r] = Graph(i).roles[r] /\ Graph(j).swept[r] = Graph(i).swept[r]
  <2>1. {RoleHolders(j, n) : n \in j.rail[r].roles}
          = {RoleHolders(i, n) : n \in i.rail[r].roles}
    BY <1>1, <1>5
  <2>2. Graph(j).roles[r] = Graph(i).roles[r]
    BY <1>1, <2>1 DEF Graph
  <2>3. {<<TplHolders(j, b.of), NameHolders(j, b.name)>> : b \in i.rail[r].bundles}
          = {<<TplHolders(i, b.of), NameHolders(i, b.name)>> : b \in i.rail[r].bundles}
    BY <1>3, <1>6
  <2>4. Graph(j).swept[r] = Graph(i).swept[r]
    BY <1>1, <2>3 DEF Graph
  <2> QED BY <2>2, <2>4
<1>10. ASSUME NEW t \in DOMAIN i.tpl
       PROVE  Graph(j).legs[t] = Graph(i).legs[t] /\ Graph(j).xor[t] = Graph(i).xor[t]
  <2>1. {RailHolders(j, n) : n \in j.tpl[t].legs} = {RailHolders(i, n) : n \in i.tpl[t].legs}
    BY <1>2, <1>5
  <2>2. {{RailHolders(j, n) : n \in g} : g \in j.tpl[t].groups}
          = {{RailHolders(i, n) : n \in g} : g \in i.tpl[t].groups}
    <3>1. \A g : {RailHolders(j, n) : n \in g} = {RailHolders(i, n) : n \in g}
      BY <1>5
    <3> QED BY <1>2, <3>1
  <2>3. Graph(j).legs[t] = Graph(i).legs[t]
    BY <1>1, <2>1 DEF Graph
  <2>4. Graph(j).xor[t] = Graph(i).xor[t]
    BY <1>1, <2>2 DEF Graph
  <2> QED BY <2>3, <2>4
<1>11. ASSUME NEW c \in DOMAIN i.chain
       PROVE  Graph(j).chain[c] = Graph(i).chain[c]
  <2>1. NameHolders(j, j.chain[c].parent) = NameHolders(i, i.chain[c].parent)
    BY <1>1, <1>3, <1>4
  <2>2. \A k \in DOMAIN i.chain[c].children :
          NameHolders(j, j.chain[c].children[k].name)
            = NameHolders(i, i.chain[c].children[k].name)
    BY <1>1, <1>3, <1>4
  <2>3. [k \in DOMAIN j.chain[c].children |-> NameHolders(j, j.chain[c].children[k].name)]
          = [k \in DOMAIN i.chain[c].children |->
               NameHolders(i, i.chain[c].children[k].name)]
    BY <1>1, <2>2
  <2> QED BY <1>1, <2>1, <2>3 DEF Graph
<1> QED BY <1>1, <1>8, <1>9, <1>10, <1>11, GraphByParts

-----------------------------------------------------------------------------
LEMMA RenameOfRole ==
  ASSUME NEW i, IsInstance(i), Valid(i), NEW kind \in {"acct", "atpl"},
         NEW id \in DOMAIN i[kind], NEW new \in Names, new \notin Used(i)
  PROVE  /\ Valid(Renamed(i, kind, id, new)) <=> ~Blocked(i, kind, id, new)
         /\ Graph(Renamed(i, kind, id, new)) = Graph(i)
<1> DEFINE old == i[kind][id].role
           j == Renamed(i, kind, id, new)
           taken == \E t \in DOMAIN i.atpl :
                      /\ i.atpl[t].role = old
                      /\ Generated(i.atpl[t].format, new) \cap DOMAIN i.acct # {}
<1>1. old \in Names
  BY OfKind DEF AcctRec, ATplRec
<1>2. new \notin Roles(i)
  BY DEF Used
<1>3. old \in Roles(i)
  BY DEF Roles, AcctRoles, TplRoles
<1>4. AsRole(i, j, old, new)
  BY <1>2, <1>3, RoleRenamed
<1>5. Blocked(i, kind, id, new) <=> taken
  BY DEF Blocked, Trigger
<1> HIDE DEF j, old
<1>6. Valid(j) <=> ~taken
  BY <1>1, <1>2, <1>4, RoleRenameAccepted
<1>7. Graph(j) = Graph(i)
  BY <1>1, <1>2, <1>4, RoleRenameKeeps
<1> QED BY <1>5, <1>6, <1>7 DEF j

LEMMA RenameOfRail ==
  ASSUME NEW i, IsInstance(i), Valid(i), NEW id \in DOMAIN i.rail,
         i.rail[id].name \notin TplNames(i),
         NEW new \in Names, new \notin Used(i)
  PROVE  LET j == Renamed(i, "rail", id, new)
         IN  /\ Valid(j) <=> ~Blocked(i, "rail", id, new)
             /\ Valid(j) => Graph(j) = Graph(i)
<1> DEFINE old == i.rail[id].name
           j == Renamed(i, "rail", id, new)
           named == \/ \E t \in DOMAIN i.tpl : old \in UNION i.tpl[t].groups
                    \/ \E l \in DOMAIN i.limit : i.limit[l].rail = old
                    \/ \E b \in Bundles(i) : b.of # NoName /\ b.name = old
<1>1. old \in RailNames(i)
  BY DEF RailNames
<1>2. new \notin Endpoints(i) /\ new # old
  BY <1>1 DEF Used, Endpoints
<1>3. AsRail(i, j, old, new)
  BY <1>2, RailRenamed DEF Valid
<1>4. IsInstance(j)
  <2>1. "rail" \in Kinds /\ "rail" \in Named /\ Trigger("rail", i.rail[id]) = old
    BY DEF Kinds, Named, Trigger
  <2>2. Retitled("rail", i.rail[id], new) \in Rec["rail"]
    BY <1>2, <2>1, RenamedIs
  <2> QED BY <2>1, <2>2, SavedIsInstance DEF Renamed
<1>5. Blocked(i, "rail", id, new) <=> named
  BY DEF Blocked, Trigger
<1> HIDE DEF j, old
<1>6. named => ~Valid(j)
  BY <1>1, <1>2, <1>3, RailRenameRefused
<1>7. ~named => Valid(j) /\ Graph(j) = Graph(i)
  <2> SUFFICES ASSUME ~named
               PROVE  Valid(j) /\ Graph(j) = Graph(i)
    OBVIOUS
  <2>1. /\ \A t \in DOMAIN i.tpl : old \notin UNION i.tpl[t].groups
        /\ \A l \in DOMAIN i.limit : i.limit[l].rail # old
        /\ \A b \in Bundles(i) : b.of # NoName => b.name # old
    OBVIOUS
  <2>2. old \notin TplNames(i)
    BY DEF old
  <2> QED BY <1>2, <1>3, <1>4, <2>1, <2>2, RailRenameAccepted, RailRenameKeeps
<1> QED BY <1>5, <1>6, <1>7 DEF j

LEMMA RenameOfTpl ==
  ASSUME NEW i, IsInstance(i), Valid(i), NEW id \in DOMAIN i.tpl,
         i.tpl[id].name \notin RailNames(i),
         NEW new \in Names, new \notin Used(i)
  PROVE  LET j == Renamed(i, "tpl", id, new)
         IN  /\ Valid(j) <=> ~Blocked(i, "tpl", id, new)
             /\ Valid(j) => Graph(j) = Graph(i)
<1> DEFINE old == i.tpl[id].name
           j == Renamed(i, "tpl", id, new)
<1>1. old \in TplNames(i) /\ old \in Names /\ old # NoName /\ old \notin RailNames(i)
  BY OfKind, NoNameAssumption DEF TplNames, TplRec
<1>2. new \notin Endpoints(i) /\ new # old
  BY <1>1 DEF Used, Endpoints
<1>3. AsTpl(i, j, old, new)
  BY <1>2, TplRenamed DEF Valid
<1>4. IsInstance(j)
  <2>1. "tpl" \in Kinds /\ "tpl" \in Named /\ Trigger("tpl", i.tpl[id]) = old
    BY DEF Kinds, Named, Trigger
  <2>2. Retitled("tpl", i.tpl[id], new) \in Rec["tpl"]
    BY <1>2, <2>1, RenamedIs
  <2> QED BY <2>1, <2>2, SavedIsInstance DEF Renamed
<1>5. Blocked(i, "tpl", id, new) <=> \E b \in Bundles(i) : b.of = old
  BY DEF Blocked, Trigger
<1> HIDE DEF j, old
<1>6. (\E b \in Bundles(i) : b.of = old) => ~Valid(j)
  BY <1>1, <1>2, <1>3, TplRenameRefused
<1>7. (\A b \in Bundles(i) : b.of # old) => Valid(j) /\ Graph(j) = Graph(i)
  BY <1>1, <1>2, <1>3, <1>4, TplRenameAccepted, TplRenameKeeps
<1> QED BY <1>5, <1>6, <1>7 DEF j

LEMMA RenamesHonest ==
  ASSUME TypeOK
  PROVE  RenameRefusals /\ RenameKeepsGraph
<1>1. IsInstance(inst) /\ Valid(inst)
  BY DEF TypeOK
<1>2. ASSUME NEW e \in Renamable(inst), NEW n \in Names \ Used(inst)
      PROVE  /\ Valid(Renamed(inst, e[1], e[2], n)) <=> ~Blocked(inst, e[1], e[2], n)
             /\ Valid(Renamed(inst, e[1], e[2], n))
                  => Graph(Renamed(inst, e[1], e[2], n)) = Graph(inst)
  <2>1. PICK kind \in Named : \E id \in DOMAIN inst[kind] :
          e = <<kind, id>> /\ Trigger(kind, inst[kind][id]) \notin Namesakes(inst)
    BY DEF Renamable
  <2>2. PICK id \in DOMAIN inst[kind] :
          e = <<kind, id>> /\ Trigger(kind, inst[kind][id]) \notin Namesakes(inst)
    BY <2>1
  <2>3. n \in Names /\ n \notin Used(inst)
    OBVIOUS
  <2> SUFFICES /\ Valid(Renamed(inst, kind, id, n)) <=> ~Blocked(inst, kind, id, n)
               /\ Valid(Renamed(inst, kind, id, n))
                    => Graph(Renamed(inst, kind, id, n)) = Graph(inst)
    BY <2>2
  <2>4. CASE kind \in {"acct", "atpl"}
    BY <1>1, <2>3, <2>4, RenameOfRole
  <2>5. CASE kind = "rail"
    <3>1. inst.rail[id].name \in RailNames(inst)
      BY <2>5 DEF RailNames
    <3>2. inst.rail[id].name \notin TplNames(inst)
      BY <2>2, <2>5, <3>1 DEF Trigger, Namesakes
    <3> QED BY <1>1, <2>3, <2>5, <3>2, RenameOfRail
  <2>6. CASE kind = "tpl"
    <3>1. inst.tpl[id].name \in TplNames(inst)
      BY <2>6 DEF TplNames
    <3>2. inst.tpl[id].name \notin RailNames(inst)
      BY <2>2, <2>6, <3>1 DEF Trigger, Namesakes
    <3> QED BY <1>1, <2>3, <2>6, <3>2, RenameOfTpl
  <2> QED BY <2>4, <2>5, <2>6 DEF Named
<1>3. RenameRefusals
  BY <1>2 DEF RenameRefusals
<1>4. RenameKeepsGraph
  BY <1>2 DEF RenameKeepsGraph
<1> QED BY <1>3, <1>4

(* Whatever L2 file Studio edits, saving an entity under a name nobody has *)
(* breaks a rule of L2Model exactly when one of the references that        *)
(* `rename_identifier` does not rewrite, XOR groups, limit schedules and   *)
(* dotted selectors, uses the old name, or when an account template of the *)
(* role would be given accounts under the id of a declared one.            *)
THEOREM EditorRefusals == Spec => []RenameRefusals
BY RenamesHonest, EditorTypes, PTL

(* And when it is accepted, every reference of the model resolves to what  *)
(* it resolved to before: `rename_identifier` rewrites neither too little  *)
(* nor a name of something else.                                           *)
THEOREM EditorGraph == Spec => []RenameKeepsGraph
BY RenamesHonest, EditorTypes, PTL
=============================================================================
