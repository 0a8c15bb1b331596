-------------------------------- MODULE CaseFiles --------------------------------
(***************************************************************************)
(* The case files of one organisation: creation, patch, archive, changes   *)
(* of the assignments, soft deletion and restoration (cases/router.py,     *)
(* cases/repository.py).  Each request reads the case once, decides on     *)
(* that reading and commits at its end; nothing locks the case.            *)
(*                                                                         *)
(* A change of assignments is a transaction of several statements.  What   *)
(* it deletes, updates and inserts is locked row by row and unseen by      *)
(* others until it commits, and its last statement counts the leads.       *)
(***************************************************************************)
EXTENDS Naturals, FiniteSets, Functions

CONSTANTS User,       \* users of the organisation
          OrgRole,    \* the role of each: admin, attorney, paralegal or student
          Inactive,   \* users who were suspended or removed from the organisation
          Assignee,   \* users whom requests add or remove (bounds the inputs)
          Case,       \* cases that can be created (bounds the history)
          Assignable, \* the roles on a case that requests hand out (bounds the inputs)
          MaxChange,  \* how many users a request adds and removes at most
          Request,    \* requests the API serves at the same time
          None        \* "no user", "not assigned", ...

CaseAssignmentRole ==
    {"lead_attorney", "supporting_attorney", "paralegal", "supervised_student"}

ASSUME Roles == OrgRole \in [User -> {"admin", "attorney", "paralegal", "student"}]
ASSUME Assignables == Assignable \subseteq CaseAssignmentRole
ASSUME Users == Inactive \cup Assignee \subseteq User
ASSUME ChangeBound == MaxChange \in Nat
ASSUME NoneIsNone == None \notin User \cup Case \cup CaseAssignmentRole \cup Request

VARIABLES cases,    \* the cases table
          assigned, \* the case_assignments table: the committed role of each user
          rowLock,  \* the request whose transaction has locked a row of that table
          req,      \* what each request has read and not yet committed
          raced     \* history: cases on which two changes of assignments overlapped

vars == <<cases, assigned, rowLock, req, raced>>

CaseRow == [exists : BOOLEAN, archived : BOOLEAN, deleted : BOOLEAN]

NoCase == [exists |-> FALSE, archived |-> FALSE, deleted |-> FALSE]

Assignments == [User -> CaseAssignmentRole \cup {None}]

Nobody == [u \in User |-> None]

Operation == {"update", "archive", "assign", "soft_delete", "restore"}

\* A user and the role that a request adds or removes.
Change == User \X CaseAssignmentRole

\* Lists of changes that name a user once.  The code also takes lists that name one again:
\* the last addition counts then, and two that both insert a row collide and end as in Abort.
Changes == {s \in SUBSET (Assignee \X Assignable) :
               /\ Cardinality(s) <= MaxChange
               /\ \A a, b \in s : a[1] = b[1] => a = b}

\* What the request has read (seen, deleted), was asked for (add, remove) and has written in
\* its open transaction (removed, written).
HttpRequest ==
    [op : Operation \cup {"idle"}, stage : {"none", "read", "removed", "counted"},
     user : User \cup {None}, case : Case \cup {None}, seen : Assignments, deleted : BOOLEAN,
     add : SUBSET Change, remove : SUBSET Change, removed : SUBSET User,
     written : Assignments]

Idle == [op |-> "idle", stage |-> "none", user |-> None, case |-> None, seen |-> Nobody,
         deleted |-> FALSE, add |-> {}, remove |-> {}, removed |-> {}, written |-> Nobody]

HasAttorneyAssignment(u, rows) == rows[u] \in {"lead_attorney", "supporting_attorney"}

Answer(r) == req' = [req EXCEPT ![r] = Idle]

Release(r) == rowLock' = [c \in Case |-> [u \in User |->
                             IF rowLock[c][u] = r THEN None ELSE rowLock[c][u]]]

--------------------------------------------------------------------------------
(***************************************************************************)
(* Permissions (_can_get_case and its like).                               *)
(***************************************************************************)
CanGetCase(u, c) ==
    \/ OrgRole[u] = "admin"
    \/ /\ ~cases[c].deleted
       /\ OrgRole[u] = "attorney" \/ assigned[c][u] # None

CanEditCase(u, c) ==
    \/ OrgRole[u] = "admin"
    \/ /\ ~cases[c].deleted
       /\ \/ OrgRole[u] = "attorney" /\ HasAttorneyAssignment(u, assigned[c])
          \/ OrgRole[u] = "paralegal" /\ assigned[c][u] # None

\* _can_archive_case and _can_modify_assignments are the same condition.
CanModifyAssignments(u, c) ==
    \/ OrgRole[u] = "admin"
    \/ OrgRole[u] = "attorney" /\ HasAttorneyAssignment(u, assigned[c])

\* Mutant: who may see a case may change its assignments and archive it.
MayIfVisible(u, op, c) ==
    IF op \in {"soft_delete", "restore"} THEN OrgRole[u] = "admin"
    ELSE CanGetCase(u, c) /\ (op = "update" => CanEditCase(u, c))

May(u, op, c) ==
    CASE op = "update" -> CanGetCase(u, c) /\ CanEditCase(u, c)
      [] op \in {"archive", "assign"} -> CanGetCase(u, c) /\ CanModifyAssignments(u, c)
      [] op \in {"soft_delete", "restore"} -> OrgRole[u] = "admin"

Leads(rows) == {u \in User : rows[u] = "lead_attorney"}

--------------------------------------------------------------------------------
(***************************************************************************)
(* Operations that write once.                                             *)
(***************************************************************************)
\* The rows after additions: an assigned user changes role, another one is inserted.
WithAdditions(rows, add) ==
    [u \in User |-> IF \E a \in add : a[1] = u THEN (CHOOSE a \in add : a[1] = u)[2]
                                               ELSE rows[u]]

CreateCase(u, c, rows) ==
    /\ ~cases[c].exists
    /\ OrgRole[u] # "student" /\ u \notin Inactive
    /\ \E a \in rows : a[2] = "lead_attorney"
    /\ \A a \in rows : a[1] \notin Inactive
    /\ cases' = [cases EXCEPT ![c] = [NoCase EXCEPT !.exists = TRUE]]
    /\ assigned' = [assigned EXCEPT ![c] = WithAdditions(Nobody, rows)]
    /\ UNCHANGED <<rowLock, req, raced>>

\* What a request keeps of its reading: what its operation goes on to use.
Reading(u, op, c, add, remove) ==
    [Idle EXCEPT !.op = op, !.stage = "read", !.case = c, !.add = add, !.remove = remove,
                 !.user = IF op \in {"archive", "assign"} THEN u ELSE None,
                 !.seen = IF op = "assign" THEN assigned[c] ELSE Nobody,
                 !.deleted = op # "assign" /\ cases[c].deleted]

\* The request authenticates, reads the case with its assignments and checks permission.
ReadCase(r, u, op, c) ==
    /\ req[r].op = "idle"
    /\ u \notin Inactive
    /\ cases[c].exists
    /\ May(u, op, c)
    /\ \E add \in Changes, remove \in Changes :
          /\ op = "assign" <=> add \cup remove # {}
          /\ req' = [req EXCEPT ![r] = Reading(u, op, c, add, remove)]
    /\ UNCHANGED <<cases, assigned, rowLock, raced>>

Commits(r, op) == /\ req[r].op = op
                  /\ Answer(r)
                  /\ UNCHANGED <<assigned, rowLock, raced>>

\* The fields of a case are written whatever has become of it by now.
PatchCase(r) == Commits(r, "update") /\ UNCHANGED cases

\* Mutant: the column takes the user who archived the case.
ArchiveCaseBy(r) == /\ Commits(r, "archive")
                    /\ ~req[r].deleted
                    /\ cases' = [cases EXCEPT ![req[r].case].archived = req[r].user]

ArchiveCase(r) == /\ Commits(r, "archive")
                  /\ ~req[r].deleted
                  /\ cases' = [cases EXCEPT ![req[r].case].archived = TRUE]

SoftDelete(r) == /\ Commits(r, "soft_delete")
                 /\ cases' = [cases EXCEPT ![req[r].case].deleted = TRUE]

\* A deleted_at that was read as null is set to null: the ORM has nothing to write.
Restore(r) == /\ Commits(r, "restore")
              /\ cases' = [cases EXCEPT ![req[r].case].deleted = @ /\ ~req[r].deleted]

--------------------------------------------------------------------------------
(***************************************************************************)
(* apply_assignment_changes.                                               *)
(***************************************************************************)
Free(r, c, u) == rowLock[c][u] \in {None, r}

Lock(r, c, users) == rowLock' = [rowLock EXCEPT ![c] = [u \in User |->
                                    IF u \in users THEN r ELSE rowLock[c][u]]]

\* One DELETE by user and role for each removal; a row that another transaction has locked
\* is waited for.
RemoveRows(r) ==
    LET c    == req[r].case
        gone == {u \in User : <<u, assigned[c][u]>> \in req[r].remove}
    IN  /\ req[r].op = "assign" /\ req[r].stage = "read"
        /\ \A a \in req[r].add : a[1] \notin Inactive
        /\ \A u \in gone : Free(r, c, u)
        /\ Lock(r, c, gone)
        /\ req' = [req EXCEPT ![r].stage = "removed", ![r].removed = gone]
        /\ UNCHANGED <<cases, assigned, raced>>

\* Mutant: the collection is not refreshed after the removals.
KnownUnrefreshed(r) == {req[r].seen}

\* The rows as the transaction sees them: without those it has removed.  The role of a row
\* that the request had read is as it was then, or as it is now: refreshing the collection
\* may leave objects alone that the session has loaded.
Known(r) ==
    LET now(u) == IF u \in req[r].removed THEN None ELSE assigned[req[r].case][u]
        read == {u \in User : now(u) # None /\ req[r].seen[u] # None}
    IN  {[u \in User |-> IF u \in stale THEN req[r].seen[u] ELSE now(u)] :
            stale \in SUBSET read}

\* Mutant: the leads are counted before the removals.
CountBeforeRemovals(r, rows) == Leads(req[r].seen) # {}

\* The check at the end of the transaction, before it commits.
HasLead(r, rows) == Leads(rows) # {}

\* The additions, and the count of leads over what the transaction sees.
AddRows(r) ==
    LET c == req[r].case
    IN  /\ req[r].op = "assign" /\ req[r].stage = "removed"
        /\ \E rows \in Known(r) :
              LET after   == WithAdditions(rows, req[r].add)
                  changed == {u \in User : after[u] # rows[u]}
              IN  /\ \A u \in changed : Free(r, c, u)
                  /\ HasLead(r, after)
                  /\ Lock(r, c, changed)
                  /\ req' = [req EXCEPT ![r].stage = "counted", ![r].seen = Nobody,
                                        ![r].written = [u \in User |-> IF u \in changed
                                                                       THEN after[u]
                                                                       ELSE None]]
        /\ UNCHANGED <<cases, assigned, raced>>

\* Others that change assignments of the same case and have read it already.
Overlapping(r) == {s \in Request \ {r} : req[s].op = "assign" /\ req[s].case = req[r].case}

\* The committed rows with what the request has written laid over them.
Outcome(r) == [u \in User |-> IF req[r].written[u] # None THEN req[r].written[u]
                              ELSE IF u \in req[r].removed THEN None
                              ELSE assigned[req[r].case][u]]

CommitAssignments(r) ==
    LET c == req[r].case
    IN  /\ req[r].stage = "counted"
        /\ assigned' = [assigned EXCEPT ![c] = Outcome(r)]
        /\ raced' = IF Overlapping(r) # {} THEN raced \cup {c} ELSE raced
        /\ Release(r)
        /\ Answer(r)
        /\ UNCHANGED cases

\* No lead is left, a user is not active, two inserts collide, a deadlock, a lost connection:
\* the transaction is rolled back.
Abort(r) == /\ req[r].op # "idle"
            /\ Release(r)
            /\ Answer(r)
            /\ UNCHANGED <<cases, assigned, raced>>

--------------------------------------------------------------------------------
Init == /\ cases = [c \in Case |-> NoCase]
        /\ assigned = [c \in Case |-> Nobody]
        /\ rowLock = [c \in Case |-> Nobody]
        /\ req = [r \in Request |-> Idle]
        /\ raced = {}

RequestStep(r) ==
    \/ \E u \in User, op \in Operation, c \in Case : ReadCase(r, u, op, c)
    \/ PatchCase(r)
    \/ ArchiveCase(r)
    \/ SoftDelete(r)
    \/ Restore(r)
    \/ RemoveRows(r)
    \/ AddRows(r)
    \/ CommitAssignments(r)
    \/ Abort(r)

Next == \/ \E u \in User, c \in Case, rows \in Changes : CreateCase(u, c, rows)
        \/ \E r \in Request : RequestStep(r)

Spec == Init /\ [][Next]_vars

--------------------------------------------------------------------------------
(***************************************************************************)
(* Properties                                                              *)
(***************************************************************************)

\* Every variable has its type.
TypeOK == /\ cases \in [Case -> CaseRow]
          /\ assigned \in [Case -> Assignments]
          /\ rowLock \in [Case -> [User -> Request \cup {None}]]
          /\ req \in [Request -> HttpRequest]
          /\ raced \subseteq Case

\* A case always has a lead attorney, as the error of create_case and of
\* apply_assignment_changes says it must.
CaseHasLead == \A c \in Case : cases[c].exists => Leads(assigned[c]) # {}

\* A case is without a lead only after two changes of its assignments overlapped: the count
\* at the end of the transaction (apply_assignment_changes) protects against any sequence
\* of requests that did not.
LeadUnlessRaced == \A c \in Case : cases[c].exists /\ Leads(assigned[c]) = {} => c \in raced

\* What a counted change will leave is what it was asked for, and nothing else.
AsAsked(r) ==
    /\ \A a \in req[r].add : Outcome(r)[a[1]] = a[2]
    /\ \A b \in req[r].remove \ req[r].add : Outcome(r)[b[1]] # b[2]
    /\ \A u \in User : Outcome(r)[u] # assigned[req[r].case][u] =>
           \E a \in req[r].add \cup req[r].remove : a[1] = u

\* Permission is decided once, and an addition compared with a row that was read before:
\* until another change of the same case overlaps, neither is out of date.  The rows as they
\* are still let the user change them when the commit comes (patch_assignments), and every
\* addition and removal that is acknowledged is in them after it (apply_assignment_changes).
ChangesSound ==
    \A r \in Request : req[r].op = "assign" /\ req[r].case \notin raced =>
        /\ CanModifyAssignments(req[r].user, req[r].case)
        /\ req[r].stage = "counted" => AsAsked(r)

================================================================================
