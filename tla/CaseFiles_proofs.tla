---------------------------- MODULE CaseFiles_proofs ----------------------------
(***************************************************************************)
(* CaseFiles keeps its types; a case is without a lead, and a change of    *)
(* its assignments decided or written on what is out of date, only after a *)
(* race, for every set of users, cases and requests.                       *)
(*                                                                         *)
(* The argument: as long as no two changes of assignments of a case have   *)
(* overlapped, what a request has read of them is what is committed        *)
(* (Steady), so its permission still stands, and its count at the end is a *)
(* count of the rows that its commit leaves.  A commit that would          *)
(* invalidate another's reading makes the case raced.                      *)
(***************************************************************************)
EXTENDS CaseFiles, TLAPS

\* Requests are about cases that exist, name a user once, and only changes of assignments
\* come to the count.
Grounded ==
    \A r \in Request :
        /\ req[r].op # "idle" => /\ req[r].case \in Case
                                 /\ req[r].user \in User \cup {None}
                                 /\ cases[req[r].case].exists
                                 /\ req[r].add \in Changes
        /\ req[r].op = "assign" => req[r].user \in User
        /\ req[r].stage \in {"removed", "counted"} => req[r].op = "assign"

\* The users whose rows the removals of a request are about.
Gone(r) == {u \in User : <<u, assigned[req[r].case][u]>> \in req[r].remove}

\* A request that no other has overlapped: its reading and its removals are about what is
\* committed, its permission stands, and what it will leave once it is counted has a lead
\* and is what it was asked for.
Fresh(r) ==
    /\ CanModifyAssignments(req[r].user, req[r].case)
    /\ req[r].stage \in {"read", "removed"} => req[r].seen = assigned[req[r].case]
    /\ req[r].stage = "removed" => req[r].removed = Gone(r)
    /\ req[r].stage = "counted" => Leads(Outcome(r)) # {} /\ AsAsked(r)

\* Until a race, all requests are.
Steady == \A r \in Request : req[r].op = "assign" /\ req[r].case \notin raced => Fresh(r)

LeadInv == TypeOK /\ Grounded /\ Steady /\ LeadUnlessRaced

--------------------------------------------------------------------------------
(***************************************************************************)
(* Types.                                                                  *)
(***************************************************************************)

\* What requests hand out are changes.
LEMMA ChangesType == Changes \subseteq SUBSET Change
BY Users, Assignables DEF Changes, Change

\* Of a list that names a user once, the change of a user is the only one.
LEMMA OneAddition ==
    ASSUME NEW add \in Changes, NEW a \in add
    PROVE  (CHOOSE b \in add : b[1] = a[1]) = a
<1>1. /\ (CHOOSE b \in add : b[1] = a[1]) \in add
      /\ (CHOOSE b \in add : b[1] = a[1])[1] = a[1]
  OBVIOUS
<1> QED BY <1>1 DEF Changes

\* Additions give users roles on the case.
LEMMA WithAdditionsType ==
    ASSUME NEW rows \in Assignments, NEW add \in SUBSET Change
    PROVE  WithAdditions(rows, add) \in Assignments
<1>1. ASSUME NEW u \in User, \E a \in add : a[1] = u
      PROVE  (CHOOSE a \in add : a[1] = u)[2] \in CaseAssignmentRole
  <2>1. (CHOOSE a \in add : a[1] = u) \in add
    BY <1>1
  <2> QED BY <2>1 DEF Change
<1>2. ASSUME NEW u \in User
      PROVE  (IF \E a \in add : a[1] = u THEN (CHOOSE a \in add : a[1] = u)[2] ELSE rows[u])
                 \in CaseAssignmentRole \cup {None}
  BY <1>1 DEF Assignments
<1> QED BY <1>2 DEF WithAdditions, Assignments

\* Nobody is an assignment of roles.
LEMMA NobodyType == Nobody \in Assignments
BY DEF Nobody, Assignments

\* The idle request is one.
LEMMA IdleType == Idle \in HttpRequest
BY NobodyType DEF Idle, HttpRequest

\* What a transaction sees are roles of users.
LEMMA KnownType ==
    ASSUME TypeOK, NEW r \in Request, req[r].case \in Case, NEW rows \in Known(r)
    PROVE  rows \in Assignments
<1>1. req[r].seen \in Assignments /\ assigned[req[r].case] \in Assignments
  BY DEF TypeOK, HttpRequest
<1> QED BY <1>1 DEF Known, Assignments

\* So is what a request will leave.
LEMMA OutcomeType ==
    ASSUME TypeOK, NEW r \in Request, req[r].case \in Case
    PROVE  Outcome(r) \in Assignments
<1>1. req[r].written \in Assignments /\ assigned[req[r].case] \in Assignments
  BY DEF TypeOK, HttpRequest
<1> QED BY <1>1 DEF Outcome, Assignments

\* Additions to what a transaction sees are of that type too.
LEMMA AfterType ==
    ASSUME TypeOK, NEW r \in Request, req[r].case \in Case, NEW rows \in Known(r)
    PROVE  WithAdditions(rows, req[r].add) \in Assignments
<1>1. rows \in Assignments
  BY KnownType
<1>2. req[r].add \in SUBSET Change
  BY DEF TypeOK, HttpRequest
<1> QED BY <1>1, <1>2, WithAdditionsType

\* Locks go to the request and are given back.
LEMMA LockType ==
    ASSUME TypeOK, NEW r \in Request
    PROVE  /\ Release(r) => rowLock' \in [Case -> [User -> Request \cup {None}]]
           /\ \A c \in Case, users \in SUBSET User :
                 Lock(r, c, users) => rowLock' \in [Case -> [User -> Request \cup {None}]]
<1>1. rowLock \in [Case -> [User -> Request \cup {None}]]
  BY DEF TypeOK
<1>2. ASSUME Release(r)
      PROVE  rowLock' \in [Case -> [User -> Request \cup {None}]]
  BY <1>1, <1>2 DEF Release
<1>3. ASSUME NEW c \in Case, NEW users \in SUBSET User, Lock(r, c, users)
      PROVE  rowLock' \in [Case -> [User -> Request \cup {None}]]
  <2>1. [u \in User |-> IF u \in users THEN r ELSE rowLock[c][u]]
           \in [User -> Request \cup {None}]
    BY <1>1
  <2> QED BY <1>1, <1>3, <2>1 DEF Lock
<1> QED BY <1>2, <1>3

\* The requests after one of them was answered.
LEMMA AnswerType ==
    ASSUME TypeOK, NEW r \in Request, Answer(r)
    PROVE  req' \in [Request -> HttpRequest]
BY IdleType DEF TypeOK, Answer

\* Every variable has its type initially, ...
LEMMA TypeInit == Init => TypeOK
BY NobodyType, IdleType
DEF Init, TypeOK, NoCase, CaseRow, Nobody, Assignments

\* ... and after every step.
LEMMA TypeStep == TypeOK /\ Grounded /\ [Next]_vars => TypeOK'
<1> SUFFICES ASSUME TypeOK, Grounded, [Next]_vars PROVE TypeOK'
  OBVIOUS
<1>1. ASSUME NEW u \in User, NEW c \in Case, NEW rows \in Changes, CreateCase(u, c, rows)
      PROVE  TypeOK'
  <2>1. WithAdditions(Nobody, rows) \in Assignments
    BY ChangesType, NobodyType, WithAdditionsType
  <2>2. assigned' \in [Case -> Assignments]
    BY <1>1, <2>1 DEF CreateCase, TypeOK
  <2>3. cases' \in [Case -> CaseRow]
    BY <1>1 DEF CreateCase, TypeOK, NoCase, CaseRow
  <2> QED BY <1>1, <2>2, <2>3 DEF CreateCase, TypeOK
<1>2. ASSUME NEW r \in Request, NEW u \in User, NEW op \in Operation, NEW c \in Case,
             ReadCase(r, u, op, c)
      PROVE  TypeOK'
  <2>1. PICK add \in Changes, remove \in Changes :
          req' = [req EXCEPT ![r] = Reading(u, op, c, add, remove)]
    BY <1>2 DEF ReadCase
  <2>2. add \in SUBSET Change /\ remove \in SUBSET Change
    BY ChangesType
  <2>3. assigned[c] \in Assignments /\ cases[c].deleted \in BOOLEAN
    BY DEF TypeOK, CaseRow
  <2>4. Reading(u, op, c, add, remove) \in HttpRequest
    BY <2>2, <2>3, NobodyType DEF Reading, Idle, HttpRequest
  <2>5. req' \in [Request -> HttpRequest]
    BY <2>1, <2>4 DEF TypeOK
  <2> QED BY <1>2, <2>5 DEF ReadCase, TypeOK
<1>3. ASSUME NEW r \in Request, PatchCase(r) PROVE TypeOK'
  BY <1>3, AnswerType DEF PatchCase, Commits, TypeOK
<1>4. ASSUME NEW r \in Request, ArchiveCase(r) PROVE TypeOK'
  BY <1>4, AnswerType DEF ArchiveCase, Commits, TypeOK, CaseRow
<1>5. ASSUME NEW r \in Request, SoftDelete(r) PROVE TypeOK'
  BY <1>5, AnswerType DEF SoftDelete, Commits, TypeOK, CaseRow
<1>6. ASSUME NEW r \in Request, Restore(r) PROVE TypeOK'
  BY <1>6, AnswerType DEF Restore, Commits, TypeOK, CaseRow
<1>7. ASSUME NEW r \in Request, RemoveRows(r) PROVE TypeOK'
  <2> DEFINE c    == req[r].case
             gone == {u \in User : <<u, assigned[c][u]>> \in req[r].remove}
  <2>1. c \in Case
    BY <1>7 DEF RemoveRows, Grounded
  <2>2. Lock(r, c, gone)
    BY <1>7 DEF RemoveRows
  <2>3. rowLock' \in [Case -> [User -> Request \cup {None}]]
    <3> HIDE DEF c
    <3>1. gone \in SUBSET User
      OBVIOUS
    <3> QED BY <2>1, <2>2, <3>1, LockType
  <2>4. req' = [req EXCEPT ![r].stage = "removed", ![r].removed = gone]
    BY <1>7 DEF RemoveRows
  <2>5. [req[r] EXCEPT !.stage = "removed", !.removed = gone] \in HttpRequest
    <3>1. req[r] \in HttpRequest /\ gone \in SUBSET User
      BY DEF TypeOK
    <3> HIDE DEF gone
    <3> QED BY <3>1 DEF HttpRequest
  <2>6. req' \in [Request -> HttpRequest]
    <3> HIDE DEF gone
    <3> QED BY <2>4, <2>5 DEF TypeOK
  <2> QED BY <1>7, <2>3, <2>6 DEF RemoveRows, TypeOK
<1>8. ASSUME NEW r \in Request, AddRows(r) PROVE TypeOK'
  <2> DEFINE c             == req[r].case
             after(rows)   == WithAdditions(rows, req[r].add)
             changed(rows) == {u \in User : after(rows)[u] # rows[u]}
             written(rows) == [u \in User |-> IF u \in changed(rows) THEN after(rows)[u]
                                                                     ELSE None]
  <2>1. c \in Case
    BY <1>8 DEF AddRows, Grounded
  <2>2. PICK rows \in Known(r) :
          /\ Lock(r, c, changed(rows))
          /\ req' = [req EXCEPT ![r].stage = "counted", ![r].seen = Nobody,
                                ![r].written = written(rows)]
    BY <1>8 DEF AddRows
  <2>3. after(rows) \in Assignments
    BY <2>1, AfterType
  <2>4. written(rows) \in Assignments
    BY <2>3 DEF Assignments
  <2>5. rowLock' \in [Case -> [User -> Request \cup {None}]]
    <3> HIDE DEF c, after
    <3>1. changed(rows) \in SUBSET User
      OBVIOUS
    <3> QED BY <2>1, <2>2, <3>1, LockType
  <2>6. [req[r] EXCEPT !.stage = "counted", !.seen = Nobody,
                       !.written = written(rows)] \in HttpRequest
    <3>1. req[r] \in HttpRequest
      BY DEF TypeOK
    <3> HIDE DEF written
    <3> QED BY <2>4, <3>1, NobodyType DEF HttpRequest
  <2>7. req' \in [Request -> HttpRequest]
    <3> HIDE DEF written
    <3> QED BY <2>2, <2>6 DEF TypeOK
  <2> QED BY <1>8, <2>5, <2>7 DEF AddRows, TypeOK
<1>9. ASSUME NEW r \in Request, CommitAssignments(r) PROVE TypeOK'
  <2>1. req[r].case \in Case
    BY <1>9 DEF CommitAssignments, Grounded, TypeOK, HttpRequest
  <2>2. assigned' \in [Case -> Assignments]
    BY <1>9, <2>1, OutcomeType DEF CommitAssignments, TypeOK
  <2>3. raced' \subseteq Case
    BY <1>9, <2>1 DEF CommitAssignments, TypeOK
  <2>4. rowLock' \in [Case -> [User -> Request \cup {None}]]
    BY <1>9, LockType DEF CommitAssignments
  <2>5. req' \in [Request -> HttpRequest]
    BY <1>9, AnswerType DEF CommitAssignments
  <2> QED BY <1>9, <2>2, <2>3, <2>4, <2>5 DEF CommitAssignments, TypeOK
<1>10. ASSUME NEW r \in Request, Abort(r) PROVE TypeOK'
  BY <1>10, AnswerType, LockType DEF Abort, TypeOK
<1>11. CASE UNCHANGED vars
  BY <1>11 DEF vars, TypeOK
<1> QED BY <1>1, <1>2, <1>3, <1>4, <1>5, <1>6, <1>7, <1>8, <1>9, <1>10, <1>11
        DEF Next, RequestStep

--------------------------------------------------------------------------------
(***************************************************************************)
(* Requests are about cases that exist.                                    *)
(***************************************************************************)

\* A step of a request leaves the readings of the others alone.
LEMMA OthersKept ==
    ASSUME TypeOK, NEW r \in Request, RequestStep(r), NEW s \in Request, s # r
    PROVE  req'[s] = req[s]
BY DEF TypeOK, RequestStep, ReadCase, PatchCase, ArchiveCase, SoftDelete, Restore, Commits,
       RemoveRows, AddRows, CommitAssignments, Abort, Answer

\* A case that exists is never taken away.
LEMMA ExistsKept ==
    ASSUME TypeOK, [Next]_vars, NEW c \in Case, cases[c].exists
    PROVE  cases'[c].exists
<1>1. ASSUME NEW u \in User, NEW d \in Case, NEW rows \in Changes, CreateCase(u, d, rows)
      PROVE  cases'[c].exists
  BY <1>1 DEF CreateCase, TypeOK, CaseRow
<1>2. ASSUME NEW r \in Request, ArchiveCase(r) \/ SoftDelete(r) \/ Restore(r)
      PROVE  cases'[c].exists
  <2>1. cases \in [Case -> CaseRow]
    BY DEF TypeOK
  <2>2. CASE ArchiveCase(r)
    BY <2>1, <2>2 DEF ArchiveCase, CaseRow
  <2>3. CASE SoftDelete(r)
    BY <2>1, <2>3 DEF SoftDelete, CaseRow
  <2>4. CASE Restore(r)
    BY <2>1, <2>4 DEF Restore, CaseRow
  <2> QED BY <1>2, <2>2, <2>3, <2>4
<1>3. ASSUME NEW r \in Request, RequestStep(r), ~(ArchiveCase(r) \/ SoftDelete(r) \/ Restore(r))
      PROVE  cases' = cases
  BY <1>3 DEF RequestStep, ReadCase, PatchCase, RemoveRows, AddRows, CommitAssignments, Abort
<1>4. CASE UNCHANGED vars
  BY <1>4 DEF vars
<1> QED BY <1>1, <1>2, <1>3, <1>4 DEF Next

\* What the removals do to their request.
LEMMA RemoveRowsDoes ==
    ASSUME TypeOK, NEW r \in Request, RemoveRows(r)
    PROVE  /\ req[r].op = "assign" /\ req[r].stage = "read"
           /\ req'[r] = [req[r] EXCEPT !.stage = "removed", !.removed = Gone(r)]
           /\ req'[r].case = req[r].case /\ req'[r].user = req[r].user
           /\ req'[r].op = req[r].op /\ req'[r].seen = req[r].seen
           /\ req'[r].add = req[r].add /\ req'[r].remove = req[r].remove
           /\ req'[r].stage = "removed" /\ req'[r].removed = Gone(r)
           /\ UNCHANGED <<cases, assigned, raced>>
<1>1. req \in [Request -> HttpRequest]
  BY DEF TypeOK
<1>2. /\ req[r].op = "assign" /\ req[r].stage = "read"
      /\ req' = [req EXCEPT ![r].stage = "removed", ![r].removed = Gone(r)]
      /\ UNCHANGED <<cases, assigned, raced>>
  BY DEF RemoveRows, Gone
<1> HIDE DEF Gone
<1> QED BY <1>1, <1>2 DEF HttpRequest

\* What the additions and the count do to theirs.
LEMMA AddRowsDoes ==
    ASSUME TypeOK, NEW r \in Request, AddRows(r)
    PROVE  /\ req[r].op = "assign" /\ req[r].stage = "removed"
           /\ req'[r].case = req[r].case /\ req'[r].user = req[r].user
           /\ req'[r].op = req[r].op /\ req'[r].removed = req[r].removed
           /\ req'[r].add = req[r].add /\ req'[r].remove = req[r].remove
           /\ req'[r].stage = "counted"
           /\ UNCHANGED <<cases, assigned, raced>>
<1>1. req \in [Request -> HttpRequest]
  BY DEF TypeOK
<1>2. PICK w : req' = [req EXCEPT ![r].stage = "counted", ![r].seen = Nobody,
                                  ![r].written = w]
  BY DEF AddRows
<1>3. /\ req[r].op = "assign" /\ req[r].stage = "removed"
      /\ UNCHANGED <<cases, assigned, raced>>
  BY DEF AddRows
<1> QED BY <1>1, <1>2, <1>3 DEF HttpRequest

\* Requests stay about cases that exist.
LEMMA GroundedStep == TypeOK /\ Grounded /\ [Next]_vars => Grounded'
<1> SUFFICES ASSUME TypeOK, Grounded, [Next]_vars, NEW r \in Request
             PROVE  /\ req'[r].op # "idle" => /\ req'[r].case \in Case
                                              /\ req'[r].user \in User \cup {None}
                                              /\ cases'[req'[r].case].exists
                                              /\ req'[r].add \in Changes
                    /\ req'[r].op = "assign" => req'[r].user \in User
                    /\ req'[r].stage \in {"removed", "counted"} => req'[r].op = "assign"
  BY DEF Grounded
<1>1. CASE req'[r] = req[r]
  BY <1>1, ExistsKept DEF Grounded
<1>2. ASSUME req'[r] # req[r]
      PROVE  RequestStep(r)
  BY <1>2, OthersKept DEF Next, CreateCase, vars
<1>3. ASSUME NEW u \in User, NEW op \in Operation, NEW c \in Case, ReadCase(r, u, op, c)
      PROVE  /\ req'[r].case = c /\ req'[r].stage = "read" /\ req'[r].op = op
             /\ req'[r].user = (IF op \in {"archive", "assign"} THEN u ELSE None)
             /\ req'[r].add \in Changes
             /\ cases'[c].exists
  <2>1. PICK add \in Changes, remove \in Changes :
          req' = [req EXCEPT ![r] = Reading(u, op, c, add, remove)]
    BY <1>3 DEF ReadCase
  <2>2. cases'[c].exists
    BY <1>3 DEF ReadCase
  <2> QED BY <2>1, <2>2 DEF TypeOK, Reading, Idle
<1>4. ASSUME \/ PatchCase(r) \/ ArchiveCase(r) \/ SoftDelete(r) \/ Restore(r)
             \/ CommitAssignments(r) \/ Abort(r)
      PROVE  req'[r] = Idle
  BY <1>4 DEF PatchCase, ArchiveCase, SoftDelete, Restore, Commits, CommitAssignments, Abort,
              Answer, TypeOK
<1>5. ASSUME RemoveRows(r) \/ AddRows(r)
      PROVE  /\ req'[r].case = req[r].case /\ req'[r].user = req[r].user
             /\ req'[r].op = req[r].op /\ req[r].op = "assign"
             /\ req'[r].add = req[r].add
             /\ UNCHANGED cases
  <2>1. CASE RemoveRows(r)
    BY <2>1, RemoveRowsDoes
  <2>2. CASE AddRows(r)
    BY <2>2, AddRowsDoes
  <2> QED BY <1>5, <2>1, <2>2
<1>6. ASSUME RequestStep(r)
      PROVE  \/ \E u \in User, op \in Operation, c \in Case : ReadCase(r, u, op, c)
             \/ PatchCase(r) \/ ArchiveCase(r) \/ SoftDelete(r) \/ Restore(r)
             \/ CommitAssignments(r) \/ Abort(r)
             \/ RemoveRows(r) \/ AddRows(r)
  BY <1>6 DEF RequestStep
<1>7. Idle.op = "idle" /\ Idle.stage = "none"
  BY DEF Idle
<1> QED BY <1>1, <1>2, <1>3, <1>4, <1>5, <1>6, <1>7 DEF Grounded

--------------------------------------------------------------------------------
(***************************************************************************)
(* Leads.                                                                  *)
(***************************************************************************)

\* Without a race, the transaction sees the committed rows, less those it has removed.
LEMMA KnownWhenSteady ==
    ASSUME TypeOK, NEW r \in Request, req[r].case \in Case,
           req[r].seen = assigned[req[r].case], NEW rows \in Known(r)
    PROVE  rows = [u \in User |-> IF u \in req[r].removed THEN None
                                  ELSE assigned[req[r].case][u]]
BY DEF Known

\* What the count has counted is then what the commit leaves.
LEMMA CountedIsOutcome ==
    ASSUME TypeOK, TypeOK', Grounded, NEW r \in Request, AddRows(r),
           req[r].seen = assigned[req[r].case], req[r].removed = Gone(r)
    PROVE  Leads(Outcome(r)') # {} /\ AsAsked(r)'
<1> DEFINE c             == req[r].case
           add           == req[r].add
           remove        == req[r].remove
           after(rows)   == WithAdditions(rows, add)
           changed(rows) == {u \in User : after(rows)[u] # rows[u]}
           written(rows) == [u \in User |-> IF u \in changed(rows) THEN after(rows)[u]
                                                                   ELSE None]
<1>1. c \in Case /\ add \in Changes
  BY DEF AddRows, Grounded
<1>2. PICK rows \in Known(r) :
        /\ HasLead(r, after(rows))
        /\ req' = [req EXCEPT ![r].stage = "counted", ![r].seen = Nobody,
                              ![r].written = written(rows)]
  BY DEF AddRows
<1>3. rows = [u \in User |-> IF u \in req[r].removed THEN None ELSE assigned[c][u]]
  BY <1>1, KnownWhenSteady
<1>4. after(rows) \in Assignments
  BY <1>1, AfterType
<1>5. add \in SUBSET Change /\ remove \in SUBSET Change
  BY DEF TypeOK, HttpRequest
<1>6. ASSUME NEW u \in User, u \in changed(rows)
      PROVE  after(rows)[u] # None
  <2>1. \E a \in add : a[1] = u
    BY <1>6 DEF WithAdditions
  <2>2. (CHOOSE a \in add : a[1] = u) \in add
    BY <2>1
  <2>3. after(rows)[u] \in CaseAssignmentRole
    BY <1>5, <2>1, <2>2 DEF WithAdditions, Change
  <2> QED BY <2>3, NoneIsNone
<1>7. /\ req'[r].removed = req[r].removed /\ req'[r].case = c
      /\ req'[r].add = add /\ req'[r].remove = remove
      /\ req'[r].written = written(rows) /\ assigned' = assigned
  <2>1. req \in [Request -> HttpRequest] /\ assigned' = assigned
    BY DEF TypeOK, AddRows
  <2> HIDE DEF written
  <2> QED BY <1>2, <2>1 DEF HttpRequest
<1>8. ASSUME NEW u \in User
      PROVE  Outcome(r)'[u] = after(rows)[u]
  <2>1. Outcome(r)'[u] = IF written(rows)[u] # None THEN written(rows)[u]
                         ELSE IF u \in req[r].removed THEN None ELSE assigned[c][u]
    <3> HIDE DEF written
    <3> QED BY <1>7 DEF Outcome
  <2>2. rows[u] = IF u \in req[r].removed THEN None ELSE assigned[c][u]
    BY <1>3
  <2>3. CASE u \in changed(rows)
    <3>1. written(rows)[u] = after(rows)[u]
      BY <2>3
    <3> QED BY <1>6, <2>1, <2>3, <3>1
  <2>4. CASE u \notin changed(rows)
    <3>1. written(rows)[u] = None /\ after(rows)[u] = rows[u]
      BY <2>4
    <3> QED BY <2>1, <2>2, <3>1
  <2> QED BY <2>3, <2>4
<1>9. Leads(Outcome(r)') # {}
  BY <1>2, <1>8 DEF HasLead, Leads
<1>10. ASSUME NEW a \in add
       PROVE  a[1] \in User /\ after(rows)[a[1]] = a[2]
  <2>1. a[1] \in User
    BY <1>5 DEF Change
  <2>2. (CHOOSE b \in add : b[1] = a[1]) = a
    BY <1>1, OneAddition
  <2> QED BY <2>1, <2>2 DEF WithAdditions
<1>11. ASSUME NEW u \in User, ~\E a \in add : a[1] = u
       PROVE  after(rows)[u] = IF <<u, assigned[c][u]>> \in remove THEN None
                                                                  ELSE assigned[c][u]
  BY <1>3, <1>11 DEF WithAdditions, Gone
<1>12. ASSUME NEW b \in remove \ add
       PROVE  Outcome(r)'[b[1]] # b[2]
  <2>1. b = <<b[1], b[2]>> /\ b[1] \in User /\ b[2] \in CaseAssignmentRole
    BY <1>5 DEF Change
  <2>2. CASE \E a \in add : a[1] = b[1]
    <3>1. PICK a \in add : a[1] = b[1]
      BY <2>2
    <3>2. a = <<a[1], a[2]>>
      BY <1>5 DEF Change
    <3>3. a[2] # b[2]
      BY <2>1, <3>1, <3>2
    <3> QED BY <1>8, <1>10, <2>1, <3>1, <3>3
  <2>3. CASE ~\E a \in add : a[1] = b[1]
    <3>1. Outcome(r)'[b[1]] = IF <<b[1], assigned[c][b[1]]>> \in remove THEN None
                              ELSE assigned[c][b[1]]
      BY <1>8, <1>11, <2>1, <2>3
    <3> QED BY <2>1, <3>1, NoneIsNone
  <2> QED BY <2>2, <2>3
<1>13. ASSUME NEW u \in User, Outcome(r)'[u] # assigned[c][u]
       PROVE  \E a \in add \cup remove : a[1] = u
  <2>1. CASE ~\E a \in add : a[1] = u
    <3>1. <<u, assigned[c][u]>> \in remove
      BY <1>8, <1>11, <1>13, <2>1
    <3> QED BY <3>1
  <2> QED BY <2>1
<1>14. AsAsked(r)'
  BY <1>7, <1>8, <1>10, <1>12, <1>13 DEF AsAsked
<1> QED BY <1>9, <1>14

\* A step that leaves a request and the rows of its case alone leaves it fresh.
LEMMA FreshKept ==
    ASSUME NEW s \in Request, Fresh(s), req'[s] = req[s],
           assigned'[req[s].case] = assigned[req[s].case]
    PROVE  Fresh(s)'
<1>1. Outcome(s)' = Outcome(s) /\ Gone(s)' = Gone(s)
  BY DEF Outcome, Gone
<1>2. AsAsked(s)' = AsAsked(s)
  BY <1>1 DEF AsAsked
<1>3. Leads(Outcome(s))' = Leads(Outcome(s))
  BY <1>1 DEF Leads
<1>4. CanModifyAssignments(req[s].user, req[s].case)' =
          CanModifyAssignments(req[s].user, req[s].case)
  BY DEF CanModifyAssignments, HasAttorneyAssignment
<1> QED BY <1>1, <1>2, <1>3, <1>4 DEF Fresh

\* Requests stay steady.
LEMMA SteadyStep ==
    TypeOK /\ TypeOK' /\ Grounded /\ Steady /\ [Next]_vars => Steady'
<1> SUFFICES ASSUME TypeOK, TypeOK', Grounded, Steady, [Next]_vars, NEW s \in Request,
                    req'[s].op = "assign", req'[s].case \notin raced'
             PROVE  Fresh(s)'
  BY DEF Steady
<1>1. ASSUME NEW u \in User, NEW c \in Case, NEW rows \in Changes, CreateCase(u, c, rows)
      PROVE  /\ req'[s] = req[s] /\ raced' = raced
             /\ assigned'[req[s].case] = assigned[req[s].case]
  <2>1. req' = req /\ raced' = raced /\ ~cases[c].exists
    BY <1>1 DEF CreateCase
  <2>2. cases[req[s].case].exists /\ req[s].case \in Case
    BY <2>1 DEF Grounded
  <2> QED BY <1>1, <2>1, <2>2 DEF CreateCase, TypeOK
<1>2. ASSUME NEW r \in Request, RequestStep(r), ~CommitAssignments(r)
      PROVE  assigned' = assigned /\ raced' = raced
  BY <1>2 DEF RequestStep, ReadCase, PatchCase, ArchiveCase, SoftDelete, Restore, Commits,
              RemoveRows, AddRows, Abort
<1>3. ASSUME NEW r \in Request, CommitAssignments(r), r # s
      PROVE  /\ req'[s] = req[s] /\ raced \subseteq raced'
             /\ assigned'[req[s].case] = assigned[req[s].case]
  <2>1. req'[s] = req[s]
    BY <1>3, OthersKept DEF RequestStep
  <2>2. req[r].case # req[s].case
    <3>1. SUFFICES ASSUME req[r].case = req[s].case PROVE FALSE
      OBVIOUS
    <3>2. s \in Overlapping(r)
      BY <1>3, <2>1, <3>1 DEF Overlapping
    <3> QED BY <1>3, <2>1, <3>1, <3>2 DEF CommitAssignments
  <2> QED BY <1>3, <2>1, <2>2 DEF CommitAssignments, TypeOK
<1>4. ASSUME RequestStep(s)
      PROVE  Fresh(s)'
  <2>1. ASSUME NEW u \in User, NEW op \in Operation, NEW c \in Case, ReadCase(s, u, op, c)
        PROVE  Fresh(s)'
    <3>1. /\ req'[s].stage = "read" /\ req'[s].op = op /\ req'[s].case = c
          /\ op = "assign" => req'[s].seen = assigned[c] /\ req'[s].user = u
          /\ UNCHANGED assigned
      BY <2>1 DEF ReadCase, Reading, TypeOK, Idle
    <3>2. op = "assign"
      BY <3>1
    <3>3. CanModifyAssignments(u, c)
      BY <2>1, <3>2 DEF ReadCase, May
    <3>4. CanModifyAssignments(req[s].user, req[s].case)'
      BY <3>1, <3>2, <3>3 DEF CanModifyAssignments, HasAttorneyAssignment
    <3> QED BY <3>1, <3>2, <3>4 DEF Fresh
  <2>2. ASSUME \/ PatchCase(s) \/ ArchiveCase(s) \/ SoftDelete(s) \/ Restore(s)
               \/ CommitAssignments(s) \/ Abort(s)
        PROVE  FALSE
    <3>1. req'[s] = Idle
      BY <2>2 DEF PatchCase, ArchiveCase, SoftDelete, Restore, Commits, CommitAssignments,
                  Abort, Answer, TypeOK
    <3> QED BY <3>1 DEF Idle
  <2>3. ASSUME RemoveRows(s)
        PROVE  Fresh(s)'
    <3>1. Fresh(s)
      BY <2>3, RemoveRowsDoes DEF Steady
    <3>2. Gone(s)' = Gone(s)
      BY <2>3, RemoveRowsDoes DEF Gone
    <3>3. CanModifyAssignments(req[s].user, req[s].case)'
      BY <2>3, <3>1, RemoveRowsDoes DEF Fresh, CanModifyAssignments, HasAttorneyAssignment
    <3> QED BY <2>3, <3>1, <3>2, <3>3, RemoveRowsDoes DEF Fresh
  <2>4. ASSUME AddRows(s)
        PROVE  Fresh(s)'
    <3>1. Fresh(s)
      BY <2>4, AddRowsDoes DEF Steady
    <3>2. Leads(Outcome(s)') # {} /\ AsAsked(s)'
      BY <2>4, <3>1, AddRowsDoes, CountedIsOutcome DEF Fresh
    <3>3. CanModifyAssignments(req[s].user, req[s].case)'
      BY <2>4, <3>1, AddRowsDoes DEF Fresh, CanModifyAssignments, HasAttorneyAssignment
    <3> QED BY <2>4, <3>2, <3>3, AddRowsDoes DEF Fresh, Leads
  <2> QED BY <1>4, <2>1, <2>2, <2>3, <2>4 DEF RequestStep
<1>5. ASSUME NEW r \in Request, RequestStep(r), r # s
      PROVE  /\ req'[s] = req[s] /\ raced \subseteq raced'
             /\ assigned'[req[s].case] = assigned[req[s].case]
  BY <1>2, <1>3, <1>5, OthersKept
<1>6. ASSUME req'[s] = req[s], raced \subseteq raced',
             assigned'[req[s].case] = assigned[req[s].case]
      PROVE  Fresh(s)'
  BY <1>6, FreshKept DEF Steady
<1>7. CASE UNCHANGED vars
  BY <1>6, <1>7 DEF vars
<1> QED BY <1>1, <1>4, <1>5, <1>6, <1>7 DEF Next

\* Only its creation makes a case exist, and only it and a commit change the assignments.
LEMMA OnlyCommitsAssign ==
    ASSUME TypeOK, NEW r \in Request, RequestStep(r)
    PROVE  /\ \A c \in Case : cases'[c].exists = cases[c].exists
           /\ ~CommitAssignments(r) => UNCHANGED <<assigned, raced>>
<1>1. cases \in [Case -> CaseRow]
  BY DEF TypeOK
<1>2. ASSUME NEW c \in Case PROVE cases'[c].exists = cases[c].exists
  <2>1. CASE ArchiveCase(r)
    BY <1>1, <2>1 DEF ArchiveCase, CaseRow
  <2>2. CASE SoftDelete(r)
    BY <1>1, <2>2 DEF SoftDelete, CaseRow
  <2>3. CASE Restore(r)
    BY <1>1, <2>3 DEF Restore, CaseRow
  <2>4. CASE ~(ArchiveCase(r) \/ SoftDelete(r) \/ Restore(r))
    BY <2>4 DEF RequestStep, ReadCase, PatchCase, RemoveRows, AddRows, CommitAssignments, Abort
  <2> QED BY <2>1, <2>2, <2>3, <2>4
<1>3. ~CommitAssignments(r) => UNCHANGED <<assigned, raced>>
  BY DEF RequestStep, ReadCase, PatchCase, ArchiveCase, SoftDelete, Restore, Commits, RemoveRows,
         AddRows, Abort
<1> QED BY <1>2, <1>3

\* A created case has the lead that its request names.
LEMMA CreatedWithLead ==
    ASSUME NEW u \in User, NEW c \in Case, NEW rows \in Changes, CreateCase(u, c, rows)
    PROVE  Leads(WithAdditions(Nobody, rows)) # {}
<1>1. PICK a \in rows : a[2] = "lead_attorney"
  BY DEF CreateCase
<1>2. a[1] \in User
  BY ChangesType DEF Change
<1>3. (CHOOSE b \in rows : b[1] = a[1]) = a
  BY OneAddition
<1>4. WithAdditions(Nobody, rows)[a[1]] = "lead_attorney"
  BY <1>1, <1>2, <1>3 DEF WithAdditions
<1> QED BY <1>2, <1>4 DEF Leads

\* A case is without a lead only after a race.
LEMMA LeadStep ==
    TypeOK /\ Grounded /\ Steady /\ LeadUnlessRaced /\ [Next]_vars => LeadUnlessRaced'
<1> SUFFICES ASSUME TypeOK, Grounded, Steady, LeadUnlessRaced, [Next]_vars, NEW c \in Case,
                    cases'[c].exists, c \notin raced'
             PROVE  Leads(assigned'[c]) # {}
  BY DEF LeadUnlessRaced, Leads
<1>1. ASSUME NEW u \in User, NEW d \in Case, NEW rows \in Changes, CreateCase(u, d, rows)
      PROVE  Leads(assigned'[c]) # {}
  <2>1. CASE c = d
    <3>1. assigned'[c] = WithAdditions(Nobody, rows)
      BY <1>1, <2>1 DEF CreateCase, TypeOK
    <3> QED BY <1>1, <3>1, CreatedWithLead
  <2>2. CASE c # d
    <3>1. assigned'[c] = assigned[c] /\ cases'[c] = cases[c] /\ raced' = raced
      BY <1>1, <2>2 DEF CreateCase, TypeOK
    <3> QED BY <3>1 DEF LeadUnlessRaced
  <2> QED BY <2>1, <2>2
<1>2. ASSUME NEW r \in Request, CommitAssignments(r), RequestStep(r)
      PROVE  Leads(assigned'[c]) # {}
  <2>1. c \notin raced /\ cases[c].exists
    BY <1>2, OnlyCommitsAssign DEF CommitAssignments
  <2>2. CASE c = req[r].case
    <3>1. assigned'[c] = Outcome(r)
      BY <1>2, <2>2 DEF CommitAssignments, TypeOK
    <3>2. req[r].op = "assign" /\ req[r].stage = "counted"
      BY <1>2 DEF CommitAssignments, Grounded
    <3> QED BY <2>1, <2>2, <3>1, <3>2 DEF Steady, Fresh
  <2>3. CASE c # req[r].case
    <3>1. assigned'[c] = assigned[c]
      BY <1>2, <2>3 DEF CommitAssignments, TypeOK
    <3> QED BY <2>1, <3>1 DEF LeadUnlessRaced
  <2> QED BY <2>2, <2>3
<1>3. ASSUME NEW r \in Request, RequestStep(r), ~CommitAssignments(r)
      PROVE  Leads(assigned'[c]) # {}
  BY <1>3, OnlyCommitsAssign DEF LeadUnlessRaced
<1>4. CASE UNCHANGED vars
  BY <1>4 DEF vars, LeadUnlessRaced
<1> QED BY <1>1, <1>2, <1>3, <1>4 DEF Next

--------------------------------------------------------------------------------
(***************************************************************************)
(* The theorems.                                                           *)
(***************************************************************************)

\* The invariant holds initially, ...
LEMMA InvInit == Init => LeadInv
<1> SUFFICES ASSUME Init PROVE LeadInv
  OBVIOUS
<1>1. TypeOK
  BY TypeInit
<1>2. Grounded /\ Steady
  BY DEF Init, Idle, Grounded, Steady
<1>3. LeadUnlessRaced
  BY DEF Init, NoCase, LeadUnlessRaced
<1> QED BY <1>1, <1>2, <1>3 DEF LeadInv

\* ... and after every step.
LEMMA InvStep == LeadInv /\ [Next]_vars => LeadInv'
BY TypeStep, GroundedStep, SteadyStep, LeadStep DEF LeadInv

\* Every variable has its type in every state.
THEOREM TypeCorrect == Spec => []TypeOK
<1>1. LeadInv => TypeOK
  BY DEF LeadInv
<1> QED BY <1>1, InvInit, InvStep, PTL DEF Spec

\* A case is without a lead only after two changes of its assignments overlapped
\* (apply_assignment_changes).
THEOREM LeadsAreSafe == Spec => []LeadUnlessRaced
<1>1. LeadInv => LeadUnlessRaced
  BY DEF LeadInv
<1> QED BY <1>1, InvInit, InvStep, PTL DEF Spec

\* Until two changes of its assignments overlapped, whoever changes a case's assignments may
\* still do so, and the commit does what was asked for (patch_assignments,
\* apply_assignment_changes).
THEOREM ChangesAreSound == Spec => []ChangesSound
<1>1. LeadInv => ChangesSound
  BY DEF LeadInv, Steady, Fresh, ChangesSound
<1> QED BY <1>1, InvInit, InvStep, PTL DEF Spec

================================================================================
