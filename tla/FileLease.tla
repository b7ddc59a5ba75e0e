------------------------------ MODULE FileLease ------------------------------
(***************************************************************************)
(* What `_AsyncDuckdbPool` promises about the `.duckdb` file, with none of *)
(* its machinery: DuckDB lets one process open the file for writing, so    *)
(* the file is leased either to the pool of the Studio process, or to one  *)
(* bracket whose subprocess writes it, or to nobody while it changes hands *)
(* (common/db.py, class docstring).  Requests are admitted only while the  *)
(* pool has the lease.  Nothing here says how the lease is handed over.    *)
(***************************************************************************)
CONSTANTS Requests, Callers, Pool, Nobody

VARIABLES
  lease,     \* who may open the file: Pool, Nobody or a bracket
  admitted   \* the requests that were let in and have not ended

leaseVars == <<lease, admitted>>

Init ==
  /\ lease = Pool
  /\ admitted = {}

(* The pool gives the file up, to a bracket or (a plain close) to nobody. *)
Surrender(c) ==
  /\ lease = Pool
  /\ lease' \in {c, Nobody}
  /\ UNCHANGED admitted

(* A bracket finds the file already given up and takes it. *)
Take(c) ==
  /\ lease = Nobody
  /\ lease' = c
  /\ UNCHANGED admitted

(* A bracket's subprocess is over: nobody has the file. *)
Return(c) ==
  /\ lease = c
  /\ lease' = Nobody
  /\ UNCHANGED admitted

(* The pool opens the file again. *)
Reopen ==
  /\ lease = Nobody
  /\ lease' = Pool
  /\ UNCHANGED admitted

Admit(r) ==
  /\ lease = Pool
  /\ r \notin admitted
  /\ admitted' = admitted \cup {r}
  /\ UNCHANGED lease

End(r) ==
  /\ admitted' = admitted \ {r}
  /\ UNCHANGED lease

Next ==
  \/ \E c \in Callers : Surrender(c) \/ Take(c) \/ Return(c)
  \/ Reopen
  \/ \E r \in Requests : Admit(r) \/ End(r)

Spec == Init /\ [][Next]_leaseVars
=============================================================================
