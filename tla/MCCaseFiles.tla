------------------------------ MODULE MCCaseFiles -------------------------------
(***************************************************************************)
(* A small instance of CaseFiles for TLC: an admin, two attorneys and one  *)
(* who was suspended.                                                      *)
(***************************************************************************)
EXTENDS CaseFiles, TLC

CONSTANTS a1, t1, t2, z1, c1, r1, r2

MCOrgRole == a1 :> "admin" @@ [u \in User \ {a1} |-> "attorney"]

\* Who is not active is never assigned: a request to remove them removes nothing.
Scope == \A r \in Request : \A b \in req[r].remove : b[1] # z1

Symmetry == Permutations(Request) \cup Permutations({t1, t2})

================================================================================
