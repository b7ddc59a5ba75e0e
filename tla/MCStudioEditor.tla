--------------------------- MODULE MCStudioEditor ---------------------------
(* The editor and the knobs on a small bank: two accounts that share a     *)
(* role, a template whose format may name it, a sweep with a dotted        *)
(* selector, an XOR group, a fan-in chain and limits in both directions.   *)
EXTENDS StudioEditor, TLC

AcctIds == {"a1", "a2"}
ATplIds == {"c1"}
RailIds == {"r1", "r2", "r3", "r4", "r5", "r6", "r7"}
TplIds == {"t1", "t2", "t3"}
ChainIds == {"h1", "h2"}
LimitIds == {"l1", "l2"}

AllNames == {"bank", "cust", "pay", "fee", "sweep", "v1", "v2",
             "Settle", "Refund", "new"}
None == "none"

(* With `{role}` in it the format makes the id of an account of "new". *)
Formats == {"numbered", "by role"}
MakesIds(format, role) == IF format = "by role" /\ role = "new" THEN {"a1"} ELSE {}

(* Two chains of one parent have one digest, limit schedules their own. *)
Clash(kind, key) == IF kind = "chain" THEN key[1] ELSE key

Two(n, roles) ==
  [name |-> n, single |-> FALSE, roles |-> roles, variable |-> FALSE,
   aggregating |-> FALSE, bundles |-> {}, net |-> FALSE, watch |-> FALSE]
One(n, role) == [Two(n, {role}) EXCEPT !.single = TRUE]
Child(n, f) == [name |-> n, fanIn |-> f]

Bank ==
  [acct |-> [a \in AcctIds |-> [role |-> "bank", parent |-> None]],
   atpl |-> [c \in ATplIds |-> [role |-> "cust", parent |-> "bank",
                              format |-> "numbered"]],
   rail |-> [r1 |-> Two("pay", {"bank", "cust"}),
             r2 |-> [One("fee", "cust") EXCEPT !.watch = TRUE],
             r3 |-> [One("sweep", "bank") EXCEPT
                       !.aggregating = TRUE,
                       !.bundles = {Bare("fee"), [of |-> "Settle", name |-> "pay"]}],
             r4 |-> [One("v1", "bank") EXCEPT !.variable = TRUE],
             r5 |-> [One("v2", "bank") EXCEPT !.variable = TRUE]],
   tpl |-> [t1 |-> [name |-> "Settle", legs |-> {"pay", "v1", "v2"},
                    groups |-> {{"v1", "v2"}}],
            t2 |-> [name |-> "Refund", legs |-> {"pay"}, groups |-> {}]],
   chain |-> [h1 |-> [parent |-> "fee", children |-> <<Child("Refund", TRUE)>>]],
   limit |-> [l \in {"l1"} |-> [parent |-> "bank", rail |-> "pay", inbound |-> FALSE]]]

Config == [only_template |-> "Settle", etl_hook |-> TRUE]

Settings == [only_template |-> {"new", None}, etl_hook |-> {FALSE}]

(* A form as it was shown, with another name, or with one reference        *)
(* changed.                                                                *)
OneOff(kind, rec) ==
  {rec} \cup
  CASE kind \in {"acct", "atpl"} ->
         {[rec EXCEPT !.role = n] : n \in {"new", "cust"}} \cup
         {[rec EXCEPT !.parent = None]} \cup
         (IF kind = "atpl" THEN {[rec EXCEPT !.format = "by role"]} ELSE {})
    [] kind = "rail" ->
         {[rec EXCEPT !.name = n] : n \in {"new", "Refund"}} \cup
         {[rec EXCEPT !.bundles = @ \ {b}] : b \in rec.bundles}
    [] kind = "tpl" ->
         {[rec EXCEPT !.name = n] : n \in {"new", "Settle"}} \cup
         {[rec EXCEPT !.legs = @ \ {"v1"}, !.groups = {}]}
    [] kind = "chain" ->
         {[rec EXCEPT !.parent = "sweep"]} \cup
         {[rec EXCEPT !.children = <<Child("pay", FALSE)>>]}
    [] kind = "limit" -> {[rec EXCEPT !.rail = "fee"], [rec EXCEPT !.inbound = TRUE]}

Fresh ==
  [acct |-> {[role |-> "new", parent |-> "cust"]},
   atpl |-> {[role |-> "bank", parent |-> None, format |-> "by role"]},
   rail |-> {[Two("new", {"cust"}) EXCEPT !.net = TRUE],
             [One("new", "bank") EXCEPT !.variable = TRUE]},
   tpl |-> {[name |-> "new", legs |-> {"pay"}, groups |-> {}],
            [name |-> "fee", legs |-> {"pay"}, groups |-> {}]},
   chain |-> {[parent |-> "fee", children |-> <<Child("pay", FALSE)>>],
              [parent |-> "Refund", children |-> <<Child("Settle", TRUE)>>]},
   limit |-> {[parent |-> "bank", rail |-> "pay", inbound |-> TRUE]}]
=============================================================================
