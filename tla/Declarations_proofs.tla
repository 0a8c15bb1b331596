-------------------------- MODULE Declarations_proofs --------------------------
(***************************************************************************)
(* The numbering of drafts, the audit log, the refinement of               *)
(* VersionHistory, and the flags: no flag is closed or dropped without a   *)
(* trace, and a clean copy needs a decision about every required flag,     *)
(* however the requests that work on one draft overwrite each other's      *)
(* columns.                                                                *)
(***************************************************************************)
EXTENDS Declarations, TLAPS

\* The largest element of a set that is an initial segment of the naturals.
LEMMA MaxOfSegment ==
    ASSUME NEW n \in Nat
    PROVE  Max({0} \cup 1 .. n) = n
  <1>1. {0} \cup 1 .. n = 0 .. n
    OBVIOUS
  <1>2. n \in 0 .. n /\ \A y \in 0 .. n : n >= y
    OBVIOUS
  <1>3. \A x \in 0 .. n : (\A y \in 0 .. n : x >= y) => x = n
    BY <1>2
  <1> QED
    BY <1>1, <1>2, <1>3 DEF Max

\* On a gap-free history the next number follows the last one.
LEMMA NextVersionFollows ==
    ASSUME NEW c \in Case, NEW n \in Nat, Versions(c) = 1 .. n
    PROVE  NextVersion(c) = n + 1
  BY MaxOfSegment DEF NextVersion, Versions

\* The same in the state after a step.
LEMMA NextVersionFollowsPrime ==
    ASSUME NEW c \in Case, NEW n \in Nat, Versions(c)' = 1 .. n
    PROVE  NextVersion(c)' = n + 1
  BY MaxOfSegment DEF NextVersion, Versions

\* The flags raised on a draft form a flags map.
LEMMA RaisedType == \A new : Raised(new) \in FlagMap
  BY DEF Raised, FlagMap, FlagStatus

\* An idle session is a request record.
LEMMA IdleType == Idle \in Request
  BY RaisedType DEF Idle, Request, Operation

\* The blank row is a row.
LEMMA NoRowType == NoRow \in DraftRow
  BY RaisedType DEF NoRow, DraftRow, DraftStatus

\* Merging the flags of a parent into those of a revision gives a flags map
\* (merge_flags_on_revise).
LEMMA MergeType ==
    ASSUME NEW parent \in FlagMap, NEW new, NEW scope
    PROVE  MergeFlagsOnRevise(parent, new, scope) \in FlagMap
  BY DEF MergeFlagsOnRevise, FlagMap, FlagStatus

\* The audit rows of generation and export are audit entries.
LEMMA EntryType ==
    \A d \in Draft : /\ Entry("generate.start", d) \in AuditEntry
                     /\ Entry("generate.complete", d) \in AuditEntry
                     /\ Entry("generate.failed", d) \in AuditEntry
                     /\ Entry("export.clean", d) \in AuditEntry
  BY DEF Entry, AuditEntry

\* The status computed from the flags is one of a draft with content.
LEMMA StatusType ==
    \A flags : StatusAfterFlags(flags) \in DraftStatus \ {"absent", "pending", "failed"}
  BY DEF StatusAfterFlags, DraftStatus


--------------------------------------------------------------------------------
(***************************************************************************)
(* What a step can do to the table.  A row that exists keeps its case and  *)
(* its version; a row that does not is blank until a holder of the case's  *)
(* lock creates it.                                                        *)
(***************************************************************************)

\* The empty workspace satisfies the invariant of the numbering.
LEMMA InitNumbering == Init => NumberingInv
  <1> SUFFICES ASSUME Init PROVE NumberingInv
    OBVIOUS
  <1>1. TypeOK
    BY IdleType, NoRowType DEF Init, TypeOK, RunState
  <1>2. \A d \in Draft : ~Exists(d)
    BY DEF Init, Exists, NoRow
  <1>3. RowsWellFormed
    BY <1>2 DEF RowsWellFormed, Init
  <1>4. \A s \in Session : req[s].op = "idle"
    BY DEF Init, Idle
  <1>5. RequestsWellFormed
    BY <1>4 DEF RequestsWellFormed, Creating
  <1>6. LockHeld
    BY NoneIsNone DEF LockHeld, Init
  <1>7. VersionsDense
    <2> SUFFICES ASSUME NEW c \in Case
                 PROVE  NextVersion(c) \in Nat \ {0} /\ Versions(c) = 1 .. (NextVersion(c) - 1)
      BY DEF VersionsDense
    <2>1. Versions(c) = 1 .. 0
      BY <1>2 DEF Versions, DraftsOf
    <2> QED
      BY <2>1, NextVersionFollows
  <1>8. HolderNumbers
    BY <1>4 DEF HolderNumbers, Holding, Creating
  <1>9. LockedNotDeleted
    BY <1>4 DEF LockedNotDeleted, Holding, Creating
  <1>10. VersionsUnique
    BY <1>2 DEF VersionsUnique, DraftsOf
  <1> QED
    BY <1>1, <1>3, <1>5, <1>6, <1>7, <1>8, <1>9, <1>10 DEF NumberingInv


\* Every step keeps the types; it is a case of its own because the number of a new
\* version has its type only on a gap-free history.
LEMMA TypeStep ==
    ASSUME TypeOK, RequestsWellFormed, VersionsDense, [Next]_vars
    PROVE  TypeOK'
  <1> USE DEF TypeOK
  <1>1. ASSUME NEW s \in Session, NEW c \in Case, RequestGenerate(s, c)
        PROVE  TypeOK'
    BY <1>1, IdleType DEF RequestGenerate, Request, Operation
  <1>2. ASSUME NEW s \in Session, NEW c \in Case, NEW d \in Draft, RequestRevise(s, c, d)
        PROVE  TypeOK'
    BY <1>2, IdleType DEF RequestRevise, Request, Operation, DraftRow
  <1>3. ASSUME NEW s \in Session, NEW c \in Case, NEW d \in Draft, NEW f \in Flag,
               NEW decision \in Decision, RequestResolve(s, c, d, f, decision)
        PROVE  TypeOK'
    BY <1>3, IdleType DEF RequestResolve, Request, Operation, DraftRow
  <1>4. ASSUME NEW s \in Session, NEW c \in Case, NEW d \in Draft, NEW f \in Flag,
               NEW decision \in Decision, RequestApply(s, c, d, f, decision)
        PROVE  TypeOK'
    BY <1>4, IdleType DEF RequestApply, Request, Operation, DraftRow
  <1>5. ASSUME NEW s \in Session, NEW c \in Case, NEW d \in Draft, RequestCleanExport(s, c, d)
        PROVE  TypeOK'
    BY <1>5, IdleType DEF RequestCleanExport, Request, Operation
  <1>6. ASSUME NEW s \in Session, LockCase(s)
        PROVE  TypeOK'
    <2>1. NextVersion(req[s].case) \in Nat
      BY <1>6 DEF LockCase, Waiting, RequestsWellFormed, VersionsDense
    <2>2. [req[s] EXCEPT !.version = NextVersion(req[s].case)] \in Request
      BY <2>1 DEF Request
    <2> QED
      BY <1>6, <2>2 DEF LockCase
  <1>7. ASSUME NEW s \in Session, LockMissing(s)
        PROVE  TypeOK'
    BY <1>7, IdleType DEF LockMissing, Answer
  <1>8. ASSUME NEW s \in Session, NEW d \in Draft, CommitGenerate(s, d)
        PROVE  TypeOK'
    <2>1. drafts' \in [Draft -> DraftRow]
      BY <1>8, NoRowType DEF CommitGenerate, DraftRow, DraftStatus, Request
    <2>2. audit' \subseteq AuditEntry
      BY <1>8, EntryType DEF CommitGenerate, Record
    <2>3. run' \in [Draft -> RunState]
      BY <1>8 DEF CommitGenerate, RunState
    <2>4. lockedBy' \in [Case -> Session \cup {None}]
      BY <1>8 DEF CommitGenerate, Release
    <2>5. req' \in [Session -> Request] /\ deleted' \in [Case -> BOOLEAN]
      BY <1>8, IdleType DEF CommitGenerate, Answer
    <2> QED
      BY <2>1, <2>2, <2>3, <2>4, <2>5
  <1>9. ASSUME NEW s \in Session, NEW d \in Draft, NEW new, NEW scope,
               CommitRevise(s, d, new, scope)
        PROVE  TypeOK'
    <2> DEFINE flags == MergeFlagsOnRevise(req[s].flags, new, scope)
    <2>1. req[s] \in Request /\ flags \in FlagMap /\ StatusAfterFlags(flags) \in DraftStatus
      BY MergeType, StatusType DEF Request
    <2>2. drafts' \in [Draft -> DraftRow]
      BY <1>9, <2>1 DEF CommitRevise, DraftRow, Request
    <2>3. req[s].draft \in Draft
      BY <1>9 DEF CommitRevise, RequestsWellFormed
    <2>4. audit' \subseteq AuditEntry
      BY <1>9, <2>3 DEF CommitRevise, Record, RevisionEntry, Entry, AuditEntry
    <2> QED
      BY <1>9, <2>2, <2>4, IdleType DEF CommitRevise, Release, Answer
  <1>10. ASSUME NEW s \in Session, CommitResolve(s) \/ CommitApply(s)
         PROVE  TypeOK'
    <2>1. /\ req[s] \in Request
          /\ req[s].draft \in Draft
          /\ req[s].flag \in Flag
          /\ req[s].decision \in Decision
      BY <1>10 DEF CommitResolve, CommitApply, RequestsWellFormed
    <2>2. Decided(req[s]) \in FlagMap
      BY <2>1, Decisions DEF Decided, FlagMap, FlagStatus, Request
    <2> DEFINE row(text) == [drafts[req[s].draft] EXCEPT !.flags = Decided(req[s]),
                                                         !.status = StatusAfterFlags(Decided(req[s])),
                                                         !.text = text]
    <2>7. \A text \in SUBSET Flag : row(text) \in DraftRow
      BY <2>1, <2>2, StatusType DEF DraftRow
    <2>8. PICK text \in SUBSET Flag : drafts' = [drafts EXCEPT ![req[s].draft] = row(text)]
      <3>1. CASE CommitResolve(s)
        <4>1. drafts' = [drafts EXCEPT ![req[s].draft] = row(drafts[req[s].draft].text)]
          BY <2>1, <3>1 DEF CommitResolve, DraftRow
        <4> QED
          BY <2>1, <4>1 DEF DraftRow
      <3>2. CASE CommitApply(s)
        <4>1. req[s].text \cup (IF WritesText(req[s]) THEN {req[s].flag} ELSE {}) \in SUBSET Flag
          BY <2>1 DEF Request
        <4>2. drafts' = [drafts EXCEPT ![req[s].draft] =
                  row(req[s].text \cup IF WritesText(req[s]) THEN {req[s].flag} ELSE {})]
          BY <2>1, <3>2 DEF CommitApply, DraftRow
        <4> QED
          BY <4>1, <4>2
      <3> QED
        BY <1>10, <3>1, <3>2
    <2>3. drafts' \in [Draft -> DraftRow]
      BY <2>7, <2>8
    <2>4. \A action \in {"flag.resolve", "flag.apply"} :
              DecisionEntry(action, req[s].draft, req[s].flag, req[s].decision) \in AuditEntry
      BY <2>1 DEF DecisionEntry, Entry, AuditEntry
    <2>5. audit' \subseteq AuditEntry
      BY <1>10, <2>4 DEF CommitResolve, CommitApply, Record
    <2>6. req' \in [Session -> Request]
      BY <1>10, IdleType DEF CommitResolve, CommitApply, Answer
    <2> QED
      BY <1>10, <2>3, <2>5, <2>6 DEF CommitResolve, CommitApply
  <1>11. ASSUME NEW s \in Session, CommitExport(s)
         PROVE  TypeOK'
    <2>1. req[s].draft \in Draft
      BY <1>11 DEF CommitExport, RequestsWellFormed
    <2>2. audit' \subseteq AuditEntry
      BY <1>11, <2>1, EntryType DEF CommitExport, Record
    <2> QED
      BY <1>11, <2>2, IdleType DEF CommitExport, Answer
  <1>12. ASSUME NEW s \in Session, Abort(s)
         PROVE  TypeOK'
    BY <1>12, IdleType DEF Abort, Release, Answer
  <1>13. ASSUME NEW d \in Draft, NEW new, NEW acked \in BOOLEAN, RunComplete(d, new, acked)
         PROVE  TypeOK'
    <2>1. Raised(new) \in FlagMap /\ StatusAfterFlags(Raised(new)) \in DraftStatus
      BY RaisedType, StatusType
    <2> DEFINE row == [drafts[d] EXCEPT !.status = StatusAfterFlags(Raised(new)),
                                        !.content = TRUE, !.flags = Raised(new), !.text = {}]
    <2>5. row \in DraftRow
      BY <2>1 DEF DraftRow
    <2>6. drafts' = [drafts EXCEPT ![d] = row]
      BY <1>13 DEF RunComplete
    <2>2. drafts' \in [Draft -> DraftRow]
      BY <2>5, <2>6
    <2>3. audit' \subseteq AuditEntry
      BY <1>13, EntryType DEF RunComplete, Record
    <2>4. run' \in [Draft -> RunState]
      BY <1>13 DEF RunComplete, RunState
    <2> QED
      BY <1>13, <2>2, <2>3, <2>4 DEF RunComplete
  <1>14. ASSUME NEW d \in Draft, RunError(d) \/ RecordFailure(d) \/ RunDies(d)
         PROVE  TypeOK'
    <2>0. Entry("generate.failed", d) \in AuditEntry
      BY EntryType
    <2>1. audit' \subseteq AuditEntry
      BY <1>14, <2>0 DEF RunError, RecordFailure, RunDies, Record
    <2>2. run' \in [Draft -> RunState]
      BY <1>14 DEF RunError, RecordFailure, RunDies, RunState
    <2>3. [drafts[d] EXCEPT !.status = "failed"] \in DraftRow
      BY DEF DraftRow, DraftStatus
    <2>4. drafts' \in [Draft -> DraftRow]
      BY <1>14, <2>3 DEF RunError, RecordFailure, RunDies
    <2> QED
      BY <1>14, <2>1, <2>2, <2>4 DEF RunError, RecordFailure, RunDies
  <1>15. ASSUME NEW s \in AdminSession, NEW c \in Case, DeleteCase(s, c) \/ RestoreCase(s, c)
         PROVE  TypeOK'
    BY <1>15 DEF DeleteCase, RestoreCase
  <1>16. CASE UNCHANGED vars
    BY <1>16 DEF vars
  <1> QED
    BY <1>1, <1>2, <1>3, <1>4, <1>5, <1>6, <1>7, <1>8, <1>9, <1>10, <1>11, <1>12, <1>13, <1>14,
       <1>15, <1>16 DEF Next, RequestStep, CommitCreation, RunStep


--------------------------------------------------------------------------------
(***************************************************************************)
(* What a step does to the table: nothing, a rewrite of a row that keeps   *)
(* its case and version, or a new row by the holder of the case's lock.    *)
(***************************************************************************)
Rewrites(d) ==
    /\ Exists(d) /\ Exists(d)'
    /\ drafts'[d].case = drafts[d].case
    /\ drafts'[d].version = drafts[d].version
    /\ drafts'[d].status # "pending"
    /\ \A e \in Draft \ {d} : drafts'[e] = drafts[e]

Creates(s, d) ==
    /\ Holding(s)
    /\ ~Exists(d) /\ Exists(d)'
    /\ drafts'[d].case = req[s].case
    /\ drafts'[d].version = req[s].version
    /\ \A e \in Draft \ {d} : drafts'[e] = drafts[e]
    /\ Release(s)
    /\ Answer(s)

\* The steps that write to the table or to the audit log.
LEMMA Writers ==
    ASSUME [Next]_vars
    PROVE  \/ drafts' = drafts /\ audit' = audit
           \/ \E s \in Session : \/ CommitCreation(s)
                                 \/ CommitResolve(s)
                                 \/ CommitApply(s)
                                 \/ CommitExport(s)
           \/ \E d \in Draft : \/ \E new \in SUBSET Fresh, acked \in BOOLEAN :
                                      RunComplete(d, new, acked)
                               \/ RecordFailure(d)
  <1>1. CASE UNCHANGED vars
    BY <1>1 DEF vars
  <1>2. ASSUME NEW s \in Session, RequestStep(s)
        PROVE  \/ drafts' = drafts /\ audit' = audit
               \/ CommitCreation(s) \/ CommitResolve(s) \/ CommitApply(s) \/ CommitExport(s)
    <2>1. CASE LockCase(s) \/ LockMissing(s) \/ Abort(s)
      BY <2>1 DEF LockCase, LockMissing, Abort
    <2>2. ASSUME NEW c \in Case, RequestGenerate(s, c)
          PROVE  drafts' = drafts /\ audit' = audit
      BY <2>2 DEF RequestGenerate
    <2>3. ASSUME NEW c \in Case, NEW d \in Draft,
                 \/ RequestRevise(s, c, d)
                 \/ RequestCleanExport(s, c, d)
                 \/ \E f \in Flag, decision \in Decision :
                        RequestResolve(s, c, d, f, decision) \/ RequestApply(s, c, d, f, decision)
          PROVE  drafts' = drafts /\ audit' = audit
      BY <2>3 DEF RequestRevise, RequestCleanExport, RequestResolve, RequestApply
    <2> QED
      BY <1>2, <2>1, <2>2, <2>3 DEF RequestStep
  <1>3. CASE \E d \in Draft : RunStep(d)
    BY <1>3 DEF RunStep, RunError, RunDies
  <1>4. CASE \E s \in AdminSession, c \in Case : DeleteCase(s, c) \/ RestoreCase(s, c)
    BY <1>4 DEF DeleteCase, RestoreCase
  <1> QED
    BY <1>1, <1>2, <1>3, <1>4 DEF Next

\* A step leaves the table alone, rewrites one existing row in place, or creates one row.
LEMMA StepShape ==
    ASSUME NumberingInv, [Next]_vars
    PROVE  \/ drafts' = drafts
           \/ \E d \in Draft : Rewrites(d)
           \/ \E s \in Session, d \in Draft : Creates(s, d)
  <1> USE DEF NumberingInv, TypeOK
  <1>1. ASSUME NEW s \in Session, NEW d \in Draft, CommitGenerate(s, d)
        PROVE  Creates(s, d)
    BY <1>1 DEF CommitGenerate, Creates, Exists, NoRow
  <1>2. ASSUME NEW s \in Session, NEW d \in Draft, NEW new, NEW scope,
               CommitRevise(s, d, new, scope)
        PROVE  Creates(s, d)
    BY <1>2, StatusType DEF CommitRevise, Creates, Exists
  <1>3. ASSUME NEW s \in Session, CommitResolve(s) \/ CommitApply(s)
        PROVE  \E d \in Draft : Rewrites(d)
    <2>1. PICK d \in Draft : d = req[s].draft /\ Exists(d)
      BY <1>3 DEF CommitResolve, CommitApply, RequestsWellFormed
    <2>2. /\ StatusAfterFlags(Decided(req[s])) \notin {"absent", "pending"}
          /\ drafts[d] \in DraftRow
      BY StatusType
    <2>3. CASE CommitResolve(s)
      BY <2>1, <2>2, <2>3 DEF CommitResolve, Rewrites, Exists, DraftRow
    <2>4. CASE CommitApply(s)
      BY <2>1, <2>2, <2>4 DEF CommitApply, Rewrites, Exists, DraftRow
    <2> QED
      BY <1>3, <2>3, <2>4
  <1>4. ASSUME NEW d \in Draft, NEW new, NEW acked, RunComplete(d, new, acked)
        PROVE  Rewrites(d)
    <2>1. Exists(d)
      BY <1>4 DEF RunComplete, RowsWellFormed
    <2>2. StatusAfterFlags(Raised(new)) \notin {"absent", "pending"}
      BY StatusType
    <2> QED
      BY <1>4, <2>1, <2>2 DEF RunComplete, Rewrites, Exists, DraftRow
  <1>5. ASSUME NEW d \in Draft, RecordFailure(d)
        PROVE  Rewrites(d)
    <2>1. Exists(d)
      BY <1>5 DEF RecordFailure, RowsWellFormed
    <2> QED
      BY <1>5, <2>1 DEF RecordFailure, Rewrites, Exists, DraftRow
  <1>6. CASE \E s \in Session : CommitCreation(s)
    BY <1>6, <1>1, <1>2 DEF CommitCreation
  <1>7. CASE \E s \in Session : CommitExport(s)
    BY <1>7 DEF CommitExport
  <1> QED
    BY <1>3, <1>4, <1>5, <1>6, <1>7, Writers

\* A row that exists keeps its case and its version.
LEMMA RowsStable ==
    ASSUME NumberingInv, [Next]_vars, NEW d \in Draft, Exists(d)
    PROVE  /\ Exists(d)'
           /\ drafts'[d].case = drafts[d].case
           /\ drafts'[d].version = drafts[d].version
  BY StepShape DEF Rewrites, Creates, Exists

\* The history of a case changes only when a version is added to it.
LEMMA HistoryUnchanged ==
    ASSUME NumberingInv, [Next]_vars, NEW c \in Case,
           ~ \E s \in Session, d \in Draft : Creates(s, d) /\ req[s].case = c
    PROVE  /\ DraftsOf(c)' = DraftsOf(c)
           /\ \A d \in DraftsOf(c) : drafts'[d].version = drafts[d].version
           /\ Versions(c)' = Versions(c)
           /\ NextVersion(c)' = NextVersion(c)
  <1>1. \A d \in Draft : Exists(d)' /\ ~Exists(d) => drafts'[d].case # c
    BY StepShape DEF Rewrites, Creates, Exists
  <1>2. DraftsOf(c)' = DraftsOf(c)
    BY <1>1, RowsStable DEF DraftsOf
  <1>3. \A d \in DraftsOf(c) : drafts'[d].version = drafts[d].version
    BY RowsStable DEF DraftsOf
  <1>4. {drafts[d].version : d \in DraftsOf(c)}' = {drafts[d].version : d \in DraftsOf(c)}
    BY <1>2, <1>3
  <1> QED
    BY <1>2, <1>3, <1>4 DEF Versions, NextVersion

\* A new version extends the gap-free history of its case by one.
LEMMA HistoryExtended ==
    ASSUME NumberingInv, [Next]_vars, NEW s \in Session, NEW d \in Draft, Creates(s, d),
           NEW c \in Case, req[s].case = c
    PROVE  /\ DraftsOf(c)' = DraftsOf(c) \cup {d}
           /\ \A e \in DraftsOf(c) : drafts[e].version < req[s].version
           /\ Versions(c)' = 1 .. NextVersion(c)
           /\ NextVersion(c)' = NextVersion(c) + 1
  <1>2. PICK n \in Nat \ {0} : /\ n = NextVersion(c)
                               /\ Versions(c) = 1 .. (n - 1)
                               /\ req[s].version = n
    BY DEF NumberingInv, VersionsDense, HolderNumbers, Creates
  <1>3. DraftsOf(c)' = DraftsOf(c) \cup {d}
    BY DEF DraftsOf, Creates, Exists
  <1>4. \A e \in DraftsOf(c) : drafts'[e] = drafts[e]
    BY DEF DraftsOf, Creates
  <1>5. Versions(c)' = Versions(c) \cup {n}
    <2>1. drafts'[d].version = n
      BY <1>2 DEF Creates
    <2> QED
      BY <1>3, <1>4, <2>1 DEF Versions
  <1>6. Versions(c)' = 1 .. n
    BY <1>2, <1>5
  <1>7. NextVersion(c)' = n + 1
    BY <1>6, NextVersionFollowsPrime
  <1>8. \A e \in DraftsOf(c) : drafts[e].version \in 1 .. (n - 1)
    BY <1>2 DEF Versions
  <1> QED
    BY <1>2, <1>3, <1>6, <1>7, <1>8


--------------------------------------------------------------------------------
(***************************************************************************)
(* The numbering of versions.                                              *)
(***************************************************************************)
LEMMA DenseStep ==
    ASSUME NumberingInv, [Next]_vars
    PROVE  VersionsDense'
  <1> SUFFICES ASSUME NEW c \in Case
               PROVE  /\ NextVersion(c)' \in Nat \ {0}
                      /\ Versions(c)' = 1 .. (NextVersion(c)' - 1)
    BY DEF VersionsDense
  <1>1. NextVersion(c) \in Nat \ {0} /\ Versions(c) = 1 .. (NextVersion(c) - 1)
    BY DEF NumberingInv, VersionsDense
  <1>2. CASE \E s \in Session, d \in Draft : Creates(s, d) /\ req[s].case = c
    BY <1>1, <1>2, HistoryExtended
  <1>3. CASE ~ \E s \in Session, d \in Draft : Creates(s, d) /\ req[s].case = c
    BY <1>1, <1>3, HistoryUnchanged
  <1> QED
    BY <1>2, <1>3

\* No step gives two drafts of a case the same version.
LEMMA UniqueStep ==
    ASSUME NumberingInv, [Next]_vars
    PROVE  VersionsUnique'
  <1> SUFFICES ASSUME NEW c \in Case, NEW d \in DraftsOf(c)', NEW e \in DraftsOf(c)',
                      drafts'[d].version = drafts'[e].version
               PROVE  d = e
    BY DEF VersionsUnique
  <1>1. CASE ~ \E s \in Session, n \in Draft : Creates(s, n) /\ req[s].case = c
    <2>1. /\ d \in DraftsOf(c) /\ drafts'[d].version = drafts[d].version
          /\ e \in DraftsOf(c) /\ drafts'[e].version = drafts[e].version
      BY <1>1, HistoryUnchanged
    <2> QED
      BY <2>1 DEF NumberingInv, VersionsUnique
  <1>2. ASSUME NEW s \in Session, NEW n \in Draft, Creates(s, n), req[s].case = c
        PROVE  d = e
    <2>1. /\ DraftsOf(c)' = DraftsOf(c) \cup {n}
          /\ \A x \in DraftsOf(c) : drafts[x].version < req[s].version
      BY <1>2, HistoryExtended
    <2>2. \A x \in DraftsOf(c) : x # n /\ drafts'[x].version = drafts[x].version
      BY <1>2 DEF Creates, DraftsOf
    <2>3. drafts'[n].version = req[s].version
      BY <1>2 DEF Creates
    <2>4. \A x \in DraftsOf(c) : drafts[x].version \in Nat
      BY DEF NumberingInv, TypeOK, DraftRow, DraftsOf
    <2>5. req[s].version \in Nat
      BY DEF NumberingInv, TypeOK, Request
    <2>6. CASE d \in DraftsOf(c) /\ e \in DraftsOf(c)
      BY <2>2, <2>6 DEF NumberingInv, VersionsUnique
    <2>7. CASE d = n \/ e = n
      BY <2>1, <2>2, <2>3, <2>4, <2>5, <2>7
    <2> QED
      BY <2>1, <2>6, <2>7
  <1> QED
    BY <1>1, <1>2

\* Who may hold a lock after a step: who held it and did nothing, or who just took it.
LEMMA Holders ==
    ASSUME NumberingInv, [Next]_vars, NEW s \in Session, NEW c \in Case, lockedBy'[c] = s
    PROVE  \/ LockCase(s) /\ req[s].case = c
           \/ lockedBy[c] = s /\ req'[s] = req[s]
  <1> USE NoneIsNone DEF NumberingInv, TypeOK, LockHeld
  <1>1. None # s
    OBVIOUS
  <1>2. ASSUME NEW t \in Session, CommitCreation(t) \/ Abort(t)
        PROVE  lockedBy[c] = s /\ req'[s] = req[s]
    BY <1>1, <1>2 DEF CommitCreation, CommitGenerate, CommitRevise, Abort, Release, Answer
  <1>3. ASSUME NEW t \in Session, LockCase(t)
        PROVE  (LockCase(s) /\ req[s].case = c) \/ (lockedBy[c] = s /\ req'[s] = req[s])
    <2>1. CASE req[t].case = c
      BY <1>3, <2>1 DEF LockCase
    <2>2. CASE req[t].case # c
      BY <1>3, <2>2 DEF LockCase, Waiting
    <2> QED
      BY <2>1, <2>2
  <1>4. ASSUME NEW t \in Session, \/ LockMissing(t)
                                  \/ CommitResolve(t)
                                  \/ CommitApply(t)
                                  \/ CommitExport(t)
        PROVE  lockedBy[c] = s /\ req'[s] = req[s]
    BY <1>4 DEF LockMissing, CommitResolve, CommitApply, CommitExport, Waiting, Creating, Answer
  <1>5. ASSUME NEW t \in Session, NEW x \in Case, RequestGenerate(t, x)
        PROVE  lockedBy[c] = s /\ req'[s] = req[s]
    BY <1>5 DEF RequestGenerate, Arrives, Creating
  <1>6. ASSUME NEW t \in Session, NEW x \in Case, NEW d \in Draft,
               \/ RequestRevise(t, x, d)
               \/ RequestCleanExport(t, x, d)
               \/ \E f \in Flag, decision \in Decision :
                      RequestResolve(t, x, d, f, decision) \/ RequestApply(t, x, d, f, decision)
        PROVE  lockedBy[c] = s /\ req'[s] = req[s]
    <2>1. Arrives(t, x) /\ lockedBy' = lockedBy /\ \A u \in Session \ {t} : req'[u] = req[u]
      BY <1>6 DEF RequestRevise, RequestCleanExport, RequestResolve, RequestApply
    <2> QED
      BY <2>1 DEF Arrives, Creating
  <1>7. ASSUME NEW d \in Draft, RunStep(d)
        PROVE  lockedBy[c] = s /\ req'[s] = req[s]
    BY <1>7 DEF RunStep, RunComplete, RunError, RecordFailure, RunDies
  <1>8. CASE \E t \in AdminSession, x \in Case : DeleteCase(t, x) \/ RestoreCase(t, x)
    BY <1>8 DEF DeleteCase, RestoreCase
  <1>9. CASE UNCHANGED vars
    BY <1>9 DEF vars
  <1> QED
    BY <1>2, <1>3, <1>4, <1>5, <1>6, <1>7, <1>8, <1>9 DEF Next, RequestStep

\* The lock of a case is held by a session that is creating a draft of it.
LEMMA LockHeldStep ==
    ASSUME NumberingInv, [Next]_vars
    PROVE  LockHeld'
  <1> SUFFICES ASSUME NEW c \in Case, NEW s \in Session, lockedBy'[c] = s
               PROVE  Creating(s)' /\ req'[s].case = c
    BY DEF LockHeld
  <1>1. CASE LockCase(s) /\ req[s].case = c
    BY <1>1 DEF LockCase, Waiting, Creating, NumberingInv, TypeOK, Request
  <1>2. CASE lockedBy[c] = s /\ req'[s] = req[s]
    BY <1>2 DEF NumberingInv, LockHeld, Creating
  <1> QED
    BY <1>1, <1>2, Holders

\* Who starts, moves or ends a background run.
LEMMA RunShape ==
    ASSUME [Next]_vars
    PROVE  \/ run' = run
           \/ \E s \in Session, d \in Draft : CommitGenerate(s, d)
           \/ \E d \in Draft : RunStep(d)
  <1>1. ASSUME NEW s \in Session, RequestStep(s)
        PROVE  run' = run \/ \E d \in Draft : CommitGenerate(s, d)
    <2>1. ASSUME NEW c \in Case, RequestGenerate(s, c)
          PROVE  run' = run
      BY <2>1 DEF RequestGenerate
    <2>2. ASSUME NEW c \in Case, NEW d \in Draft,
                 \/ RequestRevise(s, c, d)
                 \/ RequestCleanExport(s, c, d)
                 \/ \E f \in Flag, decision \in Decision :
                        RequestResolve(s, c, d, f, decision) \/ RequestApply(s, c, d, f, decision)
          PROVE  run' = run
      BY <2>2 DEF RequestRevise, RequestCleanExport, RequestResolve, RequestApply
    <2>3. CASE \/ LockCase(s) \/ LockMissing(s) \/ CommitResolve(s) \/ CommitApply(s)
               \/ CommitExport(s) \/ Abort(s)
      BY <2>3 DEF LockCase, LockMissing, CommitResolve, CommitApply, CommitExport, Abort
    <2>4. CASE CommitCreation(s)
      BY <2>4 DEF CommitCreation, CommitRevise
    <2> QED
      BY <1>1, <2>1, <2>2, <2>3, <2>4 DEF RequestStep
  <1>2. CASE \E s \in AdminSession, c \in Case : DeleteCase(s, c) \/ RestoreCase(s, c)
    BY <1>2 DEF DeleteCase, RestoreCase
  <1>3. CASE UNCHANGED vars
    BY <1>3 DEF vars
  <1> QED
    BY <1>1, <1>2, <1>3 DEF Next

\* Rows that exist belong to a case; the others are blank.
LEMMA RowsStep ==
    ASSUME NumberingInv, [Next]_vars
    PROVE  RowsWellFormed'
  <1> USE DEF NumberingInv, TypeOK, RowsWellFormed
  <1>1. ASSUME NEW d \in Draft, Exists(d)'
        PROVE  drafts'[d].case \in Case
    <2>1. CASE Exists(d)
      BY <2>1, RowsStable
    <2>2. CASE ~Exists(d)
      <3>1. PICK s \in Session : Creates(s, d)
        BY <1>1, <2>2, StepShape DEF Rewrites, Creates, Exists
      <3> QED
        BY <3>1 DEF Creates, Holding, RequestsWellFormed
    <2> QED
      BY <2>1, <2>2
  <1>2. ASSUME NEW d \in Draft, ~Exists(d)'
        PROVE  drafts'[d] = NoRow
    <2>1. ~Exists(d)
      BY <1>2, RowsStable
    <2>2. drafts'[d] = drafts[d]
      BY <1>2, <2>1, StepShape DEF Rewrites, Creates
    <2> QED
      BY <2>1, <2>2
  <1>3. ASSUME NEW d \in Draft, ~Exists(d)'
        PROVE  run'[d] = "none"
    <2>1. ~Exists(d) /\ run[d] = "none"
      BY <1>3, RowsStable
    <2>2. ASSUME NEW s \in Session, NEW e \in Draft, CommitGenerate(s, e)
          PROVE  run'[d] = "none"
      <3>1. d # e
        BY <1>3, <2>2 DEF CommitGenerate, Exists
      <3> QED
        BY <2>1, <2>2, <3>1 DEF CommitGenerate
    <2>3. ASSUME NEW e \in Draft, RunStep(e)
          PROVE  run'[d] = "none"
      BY <2>1, <2>3 DEF RunStep, RunComplete, RunError, RecordFailure, RunDies
    <2> QED
      BY <2>1, <2>2, <2>3, RunShape
  <1> QED
    BY <1>1, <1>2, <1>3 DEF RowsWellFormed

\* What a step does to the request of a session: nothing, or it starts a request, gives
\* it the version number, or ends it.
LEMMA RequestShape ==
    ASSUME NumberingInv, [Next]_vars, NEW s \in Session
    PROVE  \/ req'[s] = req[s]
           \/ req'[s] = Idle
           \/ LockCase(s)
           \/ \E c \in Case :
                 \/ RequestGenerate(s, c)
                 \/ \E d \in Draft : \/ RequestRevise(s, c, d)
                                     \/ RequestCleanExport(s, c, d)
                                     \/ \E f \in Flag, decision \in Decision :
                                           \/ RequestResolve(s, c, d, f, decision)
                                           \/ RequestApply(s, c, d, f, decision)
  <1> USE DEF NumberingInv, TypeOK
  <1>1. ASSUME NEW t \in Session, \/ CommitCreation(t)
                                  \/ CommitResolve(t)
                                  \/ CommitApply(t)
                                  \/ CommitExport(t)
                                  \/ LockMissing(t)
                                  \/ Abort(t)
        PROVE  req'[s] = req[s] \/ req'[s] = Idle
    BY <1>1 DEF CommitCreation, CommitGenerate, CommitRevise, CommitResolve, CommitApply,
                CommitExport, LockMissing, Abort, Answer
  <1>2. ASSUME NEW t \in Session, t # s, LockCase(t)
        PROVE  req'[s] = req[s]
    BY <1>2 DEF LockCase
  <1>3. ASSUME NEW t \in Session, t # s, NEW c \in Case, RequestGenerate(t, c)
        PROVE  req'[s] = req[s]
    BY <1>3 DEF RequestGenerate
  <1>4. ASSUME NEW t \in Session, t # s, NEW c \in Case, NEW d \in Draft,
               \/ RequestRevise(t, c, d)
               \/ RequestCleanExport(t, c, d)
               \/ \E f \in Flag, decision \in Decision :
                      RequestResolve(t, c, d, f, decision) \/ RequestApply(t, c, d, f, decision)
        PROVE  req'[s] = req[s]
    BY <1>4 DEF RequestRevise, RequestCleanExport, RequestResolve, RequestApply
  <1>5. ASSUME NEW d \in Draft, RunStep(d)
        PROVE  req'[s] = req[s]
    BY <1>5 DEF RunStep, RunComplete, RunError, RecordFailure, RunDies
  <1>6. CASE \E t \in AdminSession, c \in Case : DeleteCase(t, c) \/ RestoreCase(t, c)
    BY <1>6 DEF DeleteCase, RestoreCase
  <1>7. CASE UNCHANGED vars
    BY <1>7 DEF vars
  <1> QED
    BY <1>1, <1>2, <1>3, <1>4, <1>5, <1>6, <1>7 DEF Next, RequestStep

\* A request names rows that exist, of the case it is about.
LEMMA RequestsStep ==
    ASSUME NumberingInv, [Next]_vars
    PROVE  RequestsWellFormed'
  <1> SUFFICES ASSUME NEW s \in Session
               PROVE  /\ Creating(s)' => req'[s].case \in Case
                      /\ req'[s].op \in {"revise", "resolve", "apply", "export"}
                             => req'[s].draft \in Draft /\ drafts'[req'[s].draft].status # "absent"
                      /\ req'[s].op = "revise" => drafts'[req'[s].draft].case = req'[s].case
                      /\ req'[s].op \in {"resolve", "apply"}
                             => req'[s].flag \in Flag /\ req'[s].decision \in Decision
    BY DEF RequestsWellFormed, Exists
  <1> USE DEF NumberingInv, TypeOK
  <1>1. CASE req'[s] = req[s]
    BY <1>1, RowsStable DEF RequestsWellFormed, Creating, Exists
  <1>2. CASE req'[s] = Idle
    BY <1>2 DEF Idle, Creating
  <1>3. CASE LockCase(s)
    <2>1. /\ req'[s] = [req[s] EXCEPT !.version = NextVersion(req[s].case)]
          /\ drafts' = drafts
          /\ req[s] \in Request
      BY <1>3 DEF LockCase
    <2> QED
      BY <2>1 DEF RequestsWellFormed, Creating, Exists, Request
  <1>4. ASSUME NEW c \in Case, RequestGenerate(s, c)
        PROVE  req'[s].op = "generate" /\ req'[s].case = c
    BY <1>4, IdleType DEF RequestGenerate, Idle
  <1>5. ASSUME NEW c \in Case, NEW d \in Draft, RequestRevise(s, c, d)
        PROVE  /\ req'[s].op = "revise" /\ req'[s].case = c /\ req'[s].draft = d
               /\ Exists(d)' /\ drafts'[d].case = c
    <2>1. Exists(d)
      BY <1>5 DEF RequestRevise, RowsWellFormed, NoRow
    <2> QED
      BY <1>5, <2>1 DEF RequestRevise, Idle, Exists
  <1>6. ASSUME NEW c \in Case, NEW d \in Draft, RequestCleanExport(s, c, d)
        PROVE  req'[s].op = "export" /\ req'[s].draft = d /\ Exists(d)'
    <2>1. Exists(d)
      BY <1>6 DEF RequestCleanExport, RowsWellFormed, NoRow
    <2> QED
      BY <1>6, <2>1 DEF RequestCleanExport, Idle, Exists
  <1>7. ASSUME NEW c \in Case, NEW d \in Draft, NEW f \in Flag, NEW decision \in Decision,
               RequestResolve(s, c, d, f, decision) \/ RequestApply(s, c, d, f, decision)
        PROVE  /\ req'[s].op \in {"resolve", "apply"} /\ req'[s].draft = d /\ Exists(d)'
               /\ req'[s].flag = f /\ req'[s].decision = decision
    <2>1. Exists(d)
      BY <1>7 DEF RequestResolve, RequestApply, RowsWellFormed, NoRow, OnDraft, Raised
    <2>2. CASE RequestResolve(s, c, d, f, decision)
      BY <2>1, <2>2 DEF RequestResolve, Idle, Exists
    <2>3. CASE RequestApply(s, c, d, f, decision)
      BY <2>1, <2>3 DEF RequestApply, Idle, Exists
    <2> QED
      BY <1>7, <2>2, <2>3
  <1>8. CASE \E c \in Case : RequestGenerate(s, c)
    BY <1>4, <1>8 DEF Creating
  <1>9. CASE \E c \in Case, d \in Draft : RequestRevise(s, c, d)
    BY <1>5, <1>9 DEF Creating, Exists
  <1>10. CASE \E c \in Case, d \in Draft : RequestCleanExport(s, c, d)
    BY <1>6, <1>10 DEF Creating, Exists
  <1>11. CASE \E c \in Case, d \in Draft, f \in Flag, decision \in Decision :
                  RequestResolve(s, c, d, f, decision) \/ RequestApply(s, c, d, f, decision)
    BY <1>7, <1>11 DEF Creating, Exists
  <1> QED
    BY <1>1, <1>2, <1>3, <1>8, <1>9, <1>10, <1>11, RequestShape

\* While a session holds the lock of a case its number stays the next one: nobody else
\* can add a row in between (SELECT ... FOR UPDATE on the case row).
LEMMA HolderNumbersStep ==
    ASSUME NumberingInv, [Next]_vars
    PROVE  HolderNumbers'
  <1> SUFFICES ASSUME NEW s \in Session, NEW c \in Case, Creating(s)', req'[s].case = c,
                      lockedBy'[c] = s
               PROVE  req'[s].version = NextVersion(c)'
    BY RequestsStep DEF HolderNumbers, Holding, RequestsWellFormed
  <1> USE DEF NumberingInv, TypeOK
  <1>1. CASE LockCase(s) /\ req[s].case = c
    <2>1. drafts' = drafts /\ req'[s].version = NextVersion(c)
      BY <1>1 DEF LockCase, Request
    <2>2. NextVersion(c)' = NextVersion(c)
      BY <2>1 DEF NextVersion, DraftsOf, Exists
    <2> QED
      BY <2>1, <2>2
  <1>2. CASE lockedBy[c] = s /\ req'[s] = req[s]
    <2>1. Holding(s) /\ req[s].version = NextVersion(c)
      BY <1>2 DEF Holding, Creating, HolderNumbers
    <2>2. ~ \E t \in Session, d \in Draft : Creates(t, d) /\ req[t].case = c
      <3> SUFFICES ASSUME NEW t \in Session, NEW d \in Draft, Creates(t, d), req[t].case = c
                   PROVE  FALSE
        OBVIOUS
      <3>1. t = s
        BY <1>2 DEF Creates, Holding
      <3>2. req'[s].op = "idle"
        BY <3>1 DEF Creates, Answer, Idle
      <3> QED
        BY <3>2 DEF Creating
    <2> QED
      BY <1>2, <2>1, <2>2, HistoryUnchanged
  <1> QED
    BY <1>1, <1>2, Holders

\* Deletion and restoration write nothing but the deleted_at column, and nothing else does.
LEMMA DeletionShape ==
    ASSUME [Next]_vars
    PROVE  \/ deleted' = deleted
           \/ /\ UNCHANGED <<drafts, req, lockedBy>>
              /\ \E s \in AdminSession, c \in Case : DeleteCase(s, c) \/ RestoreCase(s, c)
  <1>1. ASSUME NEW s \in Session, RequestStep(s)
        PROVE  deleted' = deleted
    <2>1. ASSUME NEW c \in Case, RequestGenerate(s, c)
          PROVE  deleted' = deleted
      BY <2>1 DEF RequestGenerate
    <2>2. ASSUME NEW c \in Case, NEW d \in Draft,
                 \/ RequestRevise(s, c, d)
                 \/ RequestCleanExport(s, c, d)
                 \/ \E f \in Flag, decision \in Decision :
                        RequestResolve(s, c, d, f, decision) \/ RequestApply(s, c, d, f, decision)
          PROVE  deleted' = deleted
      BY <2>2 DEF RequestRevise, RequestCleanExport, RequestResolve, RequestApply
    <2>3. CASE \/ LockCase(s) \/ LockMissing(s) \/ CommitResolve(s) \/ CommitApply(s)
               \/ CommitExport(s) \/ Abort(s)
      BY <2>3 DEF LockCase, LockMissing, CommitResolve, CommitApply, CommitExport, Abort
    <2>4. CASE CommitCreation(s)
      BY <2>4 DEF CommitCreation, CommitGenerate, CommitRevise
    <2> QED
      BY <1>1, <2>1, <2>2, <2>3, <2>4 DEF RequestStep
  <1>2. ASSUME NEW d \in Draft, RunStep(d)
        PROVE  deleted' = deleted
    BY <1>2 DEF RunStep, RunComplete, RunError, RecordFailure, RunDies
  <1>3. CASE \E s \in AdminSession, c \in Case : DeleteCase(s, c) \/ RestoreCase(s, c)
    BY <1>3 DEF DeleteCase, RestoreCase
  <1>4. CASE UNCHANGED vars
    BY <1>4 DEF vars
  <1> QED
    BY <1>1, <1>2, <1>3, <1>4 DEF Next

\* A case whose lock is held by a creation is not deleted meanwhile.
LEMMA LockedNotDeletedStep ==
    ASSUME NumberingInv, [Next]_vars
    PROVE  LockedNotDeleted'
  <1> SUFFICES ASSUME NEW s \in Session, NEW c \in Case, Creating(s)', req'[s].case = c,
                      lockedBy'[c] = s
               PROVE  ~deleted'[c]
    BY RequestsStep DEF LockedNotDeleted, Holding, RequestsWellFormed
  <1> USE NoneIsNone DEF NumberingInv, TypeOK
  <1>1. CASE LockCase(s) /\ req[s].case = c
    BY <1>1 DEF LockCase
  <1>2. CASE lockedBy[c] = s /\ req'[s] = req[s]
    <2>1. ~deleted[c]
      BY <1>2 DEF LockedNotDeleted, Holding, Creating
    <2>2. ASSUME NEW t \in AdminSession, NEW x \in Case, DeleteCase(t, x) \/ RestoreCase(t, x)
          PROVE  deleted'[c] = deleted[c]
      BY <1>2, <2>2 DEF DeleteCase, RestoreCase
    <2> QED
      BY <2>1, <2>2, DeletionShape
  <1> QED
    BY <1>1, <1>2, Holders

\* The invariant of the numbering is inductive.
LEMMA NumberingStep == NumberingInv /\ [Next]_vars => NumberingInv'
  BY TypeStep, RowsStep, RequestsStep, LockHeldStep, DenseStep, HolderNumbersStep, UniqueStep,
     LockedNotDeletedStep
     DEF NumberingInv

--------------------------------------------------------------------------------
(***************************************************************************)
(* The table and the audit log.                                            *)
(***************************************************************************)

\* RowsAudited of one row and one log.
RowAudited(log, d, row) ==
    /\ row.status # "absent"
           <=> \E e \in log : e.draft = d /\ e.action \in {"generate.start", "revise"}
    /\ row.content
           <=> \E e \in log : e.draft = d /\ e.action \in {"generate.complete", "revise"}
    /\ row.status = "failed" => \E e \in log : e.draft = d /\ e.action = "generate.failed"

\* RowsAudited is RowAudited of every row.
LEMMA RowByRow == RowsAudited <=> \A d \in Draft : RowAudited(audit, d, drafts[d])
  BY DEF RowsAudited, RowAudited, Exists

\* An entry about another draft, or about a decision or an export, leaves a row as audited
\* as it was.
LEMMA EntryElsewhere ==
    ASSUME NEW log, NEW d, NEW row, RowAudited(log, d, row), NEW entry,
           entry.draft = d => entry.action \in {"flag.resolve", "flag.apply", "export.clean"}
    PROVE  RowAudited(log \cup {entry}, d, row)
  BY DEF RowAudited

\* Nor do the columns matter that RowAudited does not name, or a status that only says how
\* far the flags are.
LEMMA ColumnsElsewhere ==
    ASSUME NEW log, NEW d, NEW old, NEW new, RowAudited(log, d, old),
           old.status # "absent", new.status \notin {"absent", "failed"},
           new.content <=> old.content
    PROVE  RowAudited(log, d, new)
  BY DEF RowAudited

\* Every commit adds the entry for what it writes.
LEMMA RowsAuditedStep ==
    ASSUME NumberingInv, RowsAudited, [Next]_vars
    PROVE  RowsAudited'
  <1> SUFFICES ASSUME NEW d \in Draft
               PROVE  RowAudited(audit', d, drafts'[d])
    BY DEF RowsAudited, RowAudited, Exists
  <1> USE DEF NumberingInv, TypeOK
  <1>0. RowAudited(audit, d, drafts[d])
    BY RowByRow
  <1>1. CASE drafts' = drafts /\ audit' = audit
    BY <1>0, <1>1
  <1>2. ASSUME NEW s \in Session, NEW x \in Draft, CommitGenerate(s, x)
        PROVE  RowAudited(audit', d, drafts'[d])
    <2> DEFINE entry == Entry("generate.start", x)
    <2>1. audit' = audit \cup {entry}
      BY <1>2 DEF CommitGenerate, Record
    <2>0. entry.draft = x /\ entry.action = "generate.start"
      BY DEF Entry
    <2> HIDE DEF entry
    <2>2. CASE d = x
      <3>1. drafts[d].status = "absent" /\ ~drafts[d].content
        BY <1>2, <2>2 DEF CommitGenerate, RowsWellFormed, Exists, NoRow
      <3>2. drafts'[d].status = "pending" /\ ~drafts'[d].content
        BY <1>2, <2>2 DEF CommitGenerate, NoRow
      <3> QED
        BY <1>0, <2>0, <2>1, <2>2, <3>1, <3>2 DEF RowAudited
    <2>3. CASE d # x
      <3>1. drafts'[d] = drafts[d]
        BY <1>2, <2>3 DEF CommitGenerate
      <3> QED
        BY <1>0, <2>0, <2>1, <2>3, <3>1, EntryElsewhere
    <2> QED
      BY <2>2, <2>3
  <1>3. ASSUME NEW s \in Session, NEW x \in Draft, NEW new, NEW scope,
               CommitRevise(s, x, new, scope)
        PROVE  RowAudited(audit', d, drafts'[d])
    <2> DEFINE entry == RevisionEntry(req[s].draft, x)
    <2>1. audit' = audit \cup {entry}
      BY <1>3 DEF CommitRevise, Record
    <2>2. entry.draft = x /\ entry.action = "revise"
      BY DEF RevisionEntry, Entry
    <2> HIDE DEF entry
    <2>3. CASE d = x
      <3>1. /\ drafts'[d].status \notin {"absent", "failed"}
            /\ drafts'[d].content
        BY <1>3, <2>3, StatusType DEF CommitRevise
      <3> QED
        BY <2>1, <2>2, <2>3, <3>1 DEF RowAudited
    <2>4. CASE d # x
      <3>1. drafts'[d] = drafts[d]
        BY <1>3, <2>4 DEF CommitRevise
      <3> QED
        BY <1>0, <2>1, <2>2, <2>4, <3>1, EntryElsewhere
    <2> QED
      BY <2>3, <2>4
  <1>4. ASSUME NEW s \in Session, CommitResolve(s) \/ CommitApply(s)
        PROVE  RowAudited(audit', d, drafts'[d])
    <2>1. PICK entry : /\ audit' = audit \cup {entry}
                       /\ entry.action \in {"flag.resolve", "flag.apply"}
      <3> DEFINE entry(action) ==
                     DecisionEntry(action, req[s].draft, req[s].flag, req[s].decision)
      <3>1. \A action : entry(action).action = action
        BY DEF DecisionEntry, Entry
      <3>2. \E action \in {"flag.resolve", "flag.apply"} : audit' = audit \cup {entry(action)}
        BY <1>4 DEF CommitResolve, CommitApply, Record
      <3> HIDE DEF entry
      <3> QED
        BY <3>1, <3>2
    <2>2. RowAudited(audit', d, drafts[d])
      BY <1>0, <2>1, EntryElsewhere
    <2>3. CASE d = req[s].draft
      <3>1. drafts[d].status # "absent"
        BY <1>4, <2>3 DEF CommitResolve, CommitApply, RequestsWellFormed, Exists
      <3>2. /\ drafts'[d].status = StatusAfterFlags(Decided(req[s]))
            /\ drafts'[d].content = drafts[d].content
        BY <1>4, <2>3 DEF CommitResolve, CommitApply, DraftRow
      <3> QED
        BY <2>2, <3>1, <3>2, StatusType, ColumnsElsewhere
    <2>4. CASE d # req[s].draft
      <3>1. drafts'[d] = drafts[d]
        BY <1>4, <2>4 DEF CommitResolve, CommitApply
      <3> QED
        BY <2>2, <3>1
    <2> QED
      BY <2>3, <2>4
  <1>5. ASSUME NEW s \in Session, CommitExport(s)
        PROVE  RowAudited(audit', d, drafts'[d])
    <2>1. /\ audit' = audit \cup {Entry("export.clean", req[s].draft)}
          /\ Entry("export.clean", req[s].draft).action = "export.clean"
          /\ drafts' = drafts
      BY <1>5 DEF CommitExport, Record, Entry
    <2> QED
      BY <1>0, <2>1, EntryElsewhere
  <1>6. ASSUME NEW x \in Draft, NEW new, NEW acked, RunComplete(x, new, acked)
        PROVE  RowAudited(audit', d, drafts'[d])
    <2> DEFINE entry == Entry("generate.complete", x)
    <2>1. audit' = audit \cup {entry}
      BY <1>6 DEF RunComplete, Record
    <2>2. entry.draft = x /\ entry.action = "generate.complete"
      BY DEF Entry
    <2> HIDE DEF entry
    <2>3. CASE d = x
      <3>1. drafts[d].status # "absent"
        BY <1>6, <2>3 DEF RunComplete, RowsWellFormed, Exists
      <3>2. drafts'[d].content /\ drafts'[d].status \notin {"absent", "failed"}
        BY <1>6, <2>3, StatusType DEF RunComplete, DraftRow
      <3> QED
        BY <1>0, <2>1, <2>2, <2>3, <3>1, <3>2 DEF RowAudited
    <2>4. CASE d # x
      <3>1. drafts'[d] = drafts[d]
        BY <1>6, <2>4 DEF RunComplete
      <3> QED
        BY <1>0, <2>1, <2>2, <2>4, <3>1, EntryElsewhere
    <2> QED
      BY <2>3, <2>4
  <1>7. ASSUME NEW x \in Draft, RecordFailure(x)
        PROVE  RowAudited(audit', d, drafts'[d])
    <2> DEFINE entry == Entry("generate.failed", x)
    <2>1. audit' = audit \cup {entry}
      BY <1>7 DEF RecordFailure, Record
    <2>2. entry.draft = x /\ entry.action = "generate.failed"
      BY DEF Entry
    <2> HIDE DEF entry
    <2>3. CASE d = x
      <3>1. drafts[d].status # "absent"
        BY <1>7, <2>3 DEF RecordFailure, RowsWellFormed, Exists
      <3>2. drafts'[d].status = "failed" /\ drafts'[d].content = drafts[d].content
        BY <1>7, <2>3 DEF RecordFailure, DraftRow
      <3> QED
        BY <1>0, <2>1, <2>2, <2>3, <3>1, <3>2 DEF RowAudited
    <2>4. CASE d # x
      <3>1. drafts'[d] = drafts[d]
        BY <1>7, <2>4 DEF RecordFailure
      <3> QED
        BY <1>0, <2>1, <2>2, <2>4, <3>1, EntryElsewhere
    <2> QED
      BY <2>3, <2>4
  <1> QED
    BY <1>1, <1>2, <1>3, <1>4, <1>5, <1>6, <1>7, Writers DEF CommitCreation

\* The invariant of the numbering holds throughout: versions are unique and gap-free because
\* only the holder of the lock on the case row numbers a draft (create_draft_with_artifact).
THEOREM NumberingSafe == Spec => []NumberingInv
  <1>1. Init => NumberingInv
    BY InitNumbering
  <1>2. NumberingInv /\ [Next]_vars => NumberingInv'
    BY NumberingStep
  <1> QED
    BY <1>1, <1>2, PTL DEF Spec

\* The tables and the requests stay well typed.
THEOREM TypeCorrect == Spec => []TypeOK
  <1>1. NumberingInv => TypeOK
    BY DEF NumberingInv
  <1> QED
    BY <1>1, NumberingSafe, PTL

\* No two drafts of a case share a version, whatever the number of sessions, cases and
\* drafts (create_draft_with_artifact).
THEOREM VersionsUniqueSafe == Spec => []VersionsUnique
  <1>1. NumberingInv => VersionsUnique
    BY DEF NumberingInv
  <1> QED
    BY <1>1, NumberingSafe, PTL

\* Rows and audit log tell the same story, since every commit of the declaration operations
\* writes its entry in the transaction of its change (record_audit).
THEOREM RowsAuditedSafe == Spec => []RowsAudited
  <1>1. Init => RowsAudited
    BY DEF Init, RowsAudited, Exists, NoRow
  <1>2. RowsAudited /\ NumberingInv /\ [Next]_vars => RowsAudited'
    BY RowsAuditedStep
  <1> QED
    BY <1>1, <1>2, NumberingSafe, PTL DEF Spec

--------------------------------------------------------------------------------
(***************************************************************************)
(* Nothing is left that nobody will end: what DraftsSettle and             *)
(* RequestsAnswered need besides fairness.                                 *)
(***************************************************************************)

\* A pending draft has its run, unless that was lost, as only a death of the process may do.
HasRun(d) == run[d] \in {"running", "failing"} \/ (run[d] = "lost" /\ ProcessMayDie)

PendingRuns == \A d \in Draft : drafts[d].status = "pending" => HasRun(d)

\* A case row is locked by a request at work, never by one that waits for another or is over.
LocksHaveHolders == \A c \in Case : lockedBy[c] # None => Holding(lockedBy[c])

LEMMA PendingRunsStep ==
    ASSUME NumberingInv, PendingRuns, [Next]_vars
    PROVE  PendingRuns'
  <1> SUFFICES ASSUME NEW d \in Draft, drafts'[d].status = "pending"
               PROVE  HasRun(d)'
    BY DEF PendingRuns
  <1>1. /\ drafts \in [Draft -> DraftRow] /\ run \in [Draft -> RunState]
        /\ drafts[d].status = "pending" => HasRun(d)
    BY DEF PendingRuns, NumberingInv, TypeOK
  <1>2. \A flags : StatusAfterFlags(flags) # "pending"
    BY StatusType
  <1>3. ASSUME NEW s \in Session, NEW e \in Draft, CommitGenerate(s, e)
        PROVE  HasRun(d)'
    BY <1>1, <1>3 DEF CommitGenerate, HasRun
  <1>4. ASSUME NEW s \in Session, NEW e \in Draft, NEW new, NEW scope,
               CommitRevise(s, e, new, scope)
        PROVE  drafts'[d] = drafts[d] /\ run' = run
    <2>1. e # d
      BY <1>1, <1>2, <1>4 DEF CommitRevise
    <2> QED
      BY <1>1, <1>4, <2>1 DEF CommitRevise
  <1>5. ASSUME NEW s \in Session, CommitResolve(s) \/ CommitApply(s)
        PROVE  drafts'[d] = drafts[d] /\ run' = run
    <2>1. req[s].draft # d
      <3>1. CASE CommitResolve(s) /\ req[s].draft = d
        BY <1>1, <1>2, <3>1 DEF CommitResolve, DraftRow
      <3>2. CASE CommitApply(s) /\ req[s].draft = d
        BY <1>1, <1>2, <3>2 DEF CommitApply, DraftRow
      <3> QED
        BY <1>5, <3>1, <3>2
    <2> QED
      BY <1>1, <1>5, <2>1 DEF CommitResolve, CommitApply
  <1>6. ASSUME NEW e \in Draft, RunStep(e)
        PROVE  HasRun(d)'
    <2>1. ASSUME NEW new, NEW acked, RunComplete(e, new, acked)
          PROVE  e # d
      BY <1>1, <1>2, <2>1 DEF RunComplete, DraftRow
    <2>2. RecordFailure(e) => e # d
      BY <1>1 DEF RecordFailure, DraftRow
    <2>3. CASE e = d
      BY <1>1, <1>6, <2>1, <2>2, <2>3 DEF RunStep, RunError, RunDies, HasRun
    <2>4. CASE e # d
      BY <1>1, <1>6, <2>4 DEF RunStep, RunComplete, RunError, RecordFailure, RunDies, HasRun
    <2> QED
      BY <2>3, <2>4
  <1>7. CASE drafts'[d] = drafts[d] /\ run' = run
    BY <1>1, <1>7 DEF HasRun
  <1>8. ASSUME NEW s \in Session, CommitCreation(s) \/ CommitExport(s)
        PROVE  \/ drafts'[d] = drafts[d]
               \/ \E e \in Draft : CommitGenerate(s, e)
    BY <1>4, <1>8 DEF CommitCreation, CommitExport
  <1>9. \/ drafts'[d] = drafts[d]
        \/ \E s \in Session, e \in Draft : CommitGenerate(s, e)
        \/ \E e \in Draft : RunStep(e)
    <2>1. ASSUME NEW e \in Draft, NEW new \in SUBSET Fresh, NEW acked \in BOOLEAN,
                 RunComplete(e, new, acked)
          PROVE  RunStep(e)
      BY <2>1 DEF RunStep
    <2>2. ASSUME NEW e \in Draft, RecordFailure(e)
          PROVE  RunStep(e)
      BY <2>2 DEF RunStep
    <2> QED
      BY <1>5, <1>8, <2>1, <2>2, Writers
  <1> QED
    BY <1>3, <1>6, <1>7, <1>8, <1>9, RunShape

\* No draft stays pending without a run that will end it, unless the process died, and no case row stays locked by a
\* request that does not work under the lock (_run_graph_background, _lock_case), for any
\* number of drafts, cases and sessions: the safety part of DraftsSettle and RequestsAnswered.
THEOREM NothingIsStranded == Spec => [](PendingRuns /\ LocksHaveHolders)
  <1>1. Init => PendingRuns
    BY DEF Init, PendingRuns, NoRow
  <1>2. NumberingInv /\ PendingRuns /\ [Next]_vars => PendingRuns'
    BY PendingRunsStep
  <1>3. NumberingInv => LocksHaveHolders
    BY DEF NumberingInv, TypeOK, LockHeld, LocksHaveHolders, Holding
  <1> QED
    BY <1>1, <1>2, <1>3, NumberingSafe, PTL DEF Spec

--------------------------------------------------------------------------------
(***************************************************************************)
(* The declaration workspace implements the abstract history of numbered   *)
(* artifacts: every step of it is a step of VersionHistory or a stutter.   *)
(***************************************************************************)

\* An empty drafts table is an empty history.
LEMMA InitHistory == Init => History!Init
  BY DEF Init, NoRow, History!Init

\* The artifacts the abstract history has of a case are the drafts of the case.
LEMMA OwnedDrafts ==
    ASSUME NumberingInv, NEW c \in Case
    PROVE  History!Owned(c) = DraftsOf(c)
  <1>1. c # None
    BY NoneIsNone
  <1>2. \A d \in Draft : drafts[d].case = c => Exists(d)
    BY <1>1 DEF NumberingInv, RowsWellFormed, NoRow
  <1> QED
    BY <1>2 DEF History!Owned, DraftsOf

\* The number the code computes (max of the case plus one) is that of the abstract history.
LEMMA SameNumber ==
    ASSUME NumberingInv, NEW c \in Case
    PROVE  History!NextVersion(c) = NextVersion(c)
  <1> DEFINE version == [d \in Draft |-> drafts[d].version]
  <1>1. \A d \in DraftsOf(c) : d \in Draft
    BY DEF DraftsOf
  <1>2. {version[a] : a \in History!Owned(c)} = {drafts[d].version : d \in DraftsOf(c)}
    BY <1>1, OwnedDrafts
  <1>3. History!NextVersion(c) = 1 + Max({0} \cup {version[a] : a \in History!Owned(c)})
    BY DEF History!NextVersion, History!Max, Max
  <1> HIDE DEF version
  <1> QED
    BY <1>2, <1>3 DEF NextVersion

\* An update of an existing row settles its artifact or is invisible to the history.
LEMMA RewriteSettles ==
    ASSUME NumberingInv, NEW d \in Draft, Rewrites(d)
    PROVE  History!Settle(d) \/ UNCHANGED History!vars
  <1> DEFINE owner == [a \in Draft |-> drafts[a].case]
             version == [a \in Draft |-> drafts[a].version]
             pending == {a \in Draft : drafts[a].status = "pending"}
  <1>1. owner' = owner /\ version' = version
    BY DEF Rewrites
  <1>2. pending' = pending \ {d}
    BY DEF Rewrites
  <1>3. CASE d \in pending
    BY <1>1, <1>2, <1>3 DEF History!Settle
  <1>4. CASE d \notin pending
    BY <1>1, <1>2, <1>4 DEF History!vars
  <1> QED
    BY <1>3, <1>4

\* A row created under the lock of its case is appended with the next number.
LEMMA CreationAppends ==
    ASSUME NumberingInv, NEW s \in Session, NEW d \in Draft, Creates(s, d)
    PROVE  \E c \in Case : History!Append(c, d)
  <1> DEFINE owner == [a \in Draft |-> drafts[a].case]
             version == [a \in Draft |-> drafts[a].version]
             pending == {a \in Draft : drafts[a].status = "pending"}
  <1>1. PICK c \in Case : c = req[s].case
    BY DEF Creates, Holding, NumberingInv, RequestsWellFormed
  <1>2. owner[d] = None
    BY DEF Creates, NumberingInv, RowsWellFormed, NoRow
  <1>3. owner' = [owner EXCEPT ![d] = c]
    BY <1>1 DEF Creates
  <1>4. req[s].version = NextVersion(c)
    BY <1>1 DEF Creates, NumberingInv, HolderNumbers
  <1>5. version' = [version EXCEPT ![d] = NextVersion(c)]
    BY <1>4 DEF Creates
  <1>6. pending' \in {pending, pending \cup {d}}
    <2>1. d \notin pending
      BY DEF Creates, Exists
    <2>2. CASE drafts'[d].status = "pending"
      BY <2>2 DEF Creates
    <2>3. CASE drafts'[d].status # "pending"
      BY <2>1, <2>3 DEF Creates
    <2> QED
      BY <2>2, <2>3
  <1>7. History!Append(c, d)
    BY <1>2, <1>3, <1>5, <1>6, SameNumber DEF History!Append
  <1> QED
    BY <1>7

\* Every step of the workspace is a step of the history or a stutter.
LEMMA StepHistory == NumberingInv /\ [Next]_vars => [History!Next]_(History!vars)
  <1> SUFFICES ASSUME NumberingInv, [Next]_vars
               PROVE  History!Next \/ UNCHANGED History!vars
    OBVIOUS
  <1>1. CASE drafts' = drafts
    BY <1>1 DEF History!vars
  <1>2. CASE \E d \in Draft : Rewrites(d)
    BY <1>2, RewriteSettles DEF History!Next
  <1>3. CASE \E s \in Session, d \in Draft : Creates(s, d)
    BY <1>3, CreationAppends DEF History!Next
  <1> QED
    BY <1>1, <1>2, <1>3, StepShape

\* The drafts table implements the history of numbered artifacts
\* (create_draft_with_artifact, update_draft_complete, update_draft_failed).
THEOREM ImplementsHistory == Spec => VersionHistory
  <1> QED
    BY InitHistory, StepHistory, NumberingSafe, PTL DEF Spec, VersionHistory, History!Spec

--------------------------------------------------------------------------------
(***************************************************************************)
(* So everything that is proved of that history is true of the drafts.     *)
(***************************************************************************)
Promises == INSTANCE VersionHistory_proofs WITH
                Artifact <- Draft,
                owner <- [d \in Draft |-> drafts[d].case],
                version <- [d \in Draft |-> drafts[d].version],
                pending <- {d \in Draft : drafts[d].status = "pending"}

\* The versions of a case are 1, 2, ... without a gap, each one draft's, and a draft keeps its
\* case and number and is never generated again once it has settled (create_draft_with_artifact,
\* update_draft_complete, update_draft_failed).
THEOREM HistoryIsKept ==
    Spec => [](History!GapFree /\ History!Unambiguous) /\ History!NeverRewritten
  <1>1. /\ Promises!Spec => [](Promises!GapFree /\ Promises!Unambiguous)
        /\ Promises!Spec => Promises!NeverRewritten
    BY NoneIsNone, Promises!HistoryIsGapFree, Promises!HistoryIsNeverRewritten
  <1>2. Promises!Init <=> History!Init
    BY DEF Promises!Init, History!Init
  <1>3. [Promises!Next]_(Promises!vars) <=> [History!Next]_(History!vars)
    BY DEF Promises!Next, History!Next, Promises!vars, History!vars, Promises!Settle,
           History!Settle, Promises!Append, History!Append, Promises!NextVersion,
           History!NextVersion, Promises!Owned, History!Owned, Promises!Max, History!Max
  <1>4. UNCHANGED Promises!vars <=> UNCHANGED History!vars
    BY DEF Promises!vars, History!vars
  <1>5. /\ Promises!GapFree <=> History!GapFree
        /\ Promises!Unambiguous <=> History!Unambiguous
    BY DEF Promises!GapFree, History!GapFree, Promises!Unambiguous, History!Unambiguous,
           Promises!Owned, History!Owned
  <1> QED
    BY <1>1, <1>2, <1>3, <1>4, <1>5, ImplementsHistory, PTL
    DEF VersionHistory, Promises!Spec, History!Spec, Promises!NeverRewritten, History!NeverRewritten

--------------------------------------------------------------------------------
\* No version is added to a deleted case (the deleted_at condition of _lock_case).
THEOREM NoDraftOnDeletedCaseSafe == Spec => NoDraftOnDeletedCase
  <1>1. NumberingInv /\ [Next]_vars
            => [\A d \in Draft : ~Exists(d) /\ Exists(d)' => ~deleted'[drafts'[d].case]]_vars
    <2> SUFFICES ASSUME NumberingInv, [Next]_vars, NEW d \in Draft, ~Exists(d), Exists(d)'
                 PROVE  ~deleted'[drafts'[d].case]
      OBVIOUS
    <2>1. PICK s \in Session : Creates(s, d)
      BY StepShape DEF Creates, Rewrites, Exists
    <2>2. deleted' = deleted
      BY <2>1, DeletionShape DEF Exists
    <2> QED
      BY <2>1, <2>2 DEF Creates, NumberingInv, LockedNotDeleted
  <1> QED
    BY <1>1, NumberingSafe, PTL DEF Spec, NoDraftOnDeletedCase

--------------------------------------------------------------------------------
(***************************************************************************)
(* The flag functions.                                                     *)
(***************************************************************************)
LEMMA RaisedOpen ==
    ASSUME NEW new \in SUBSET Flag
    PROVE  OnDraft(Raised(new)) = new /\ Closed(Raised(new)) = {}
  BY DEF Raised, OnDraft, Closed

\* Flags that a draft with these flags does not have.
NewTo(new, flags) == new \subseteq Flag /\ new \cap OnDraft(flags) = {}

\* A revision keeps every flag of its parent with its status and adds the new ones open.
LEMMA MergeKeeps ==
    ASSUME NEW parent \in FlagMap, NEW new, NewTo(new, parent),
           NEW scope, NEW flags, flags = MergeFlagsOnRevise(parent, new, scope)
    PROVE  /\ OnDraft(flags) = OnDraft(parent) \cup new
           /\ Closed(flags) = Closed(parent)
           /\ \A f \in OnDraft(parent) : flags[f] = parent[f]
  <1> USE DEF NewTo
  <1>1. \A f \in OnDraft(parent) : f \in Flag /\ flags[f] = parent[f]
    BY DEF MergeFlagsOnRevise, OnDraft
  <1>2. \A f \in new : f \in Flag /\ flags[f] = "open"
    <2>1. \A f \in UnresolvedRequired(parent) : f \in OnDraft(parent)
      BY DEF UnresolvedRequired, RequiredOn
    <2> QED
      BY <2>1 DEF MergeFlagsOnRevise
  <1>3. \A f \in Flag \ (OnDraft(parent) \cup new) : flags[f] = "none"
    BY DEF MergeFlagsOnRevise, OnDraft
  <1>4. OnDraft(flags) = OnDraft(parent) \cup new
    BY <1>1, <1>2, <1>3 DEF OnDraft
  <1>5. Closed(flags) = Closed(parent)
    BY <1>1, <1>2, <1>4 DEF Closed
  <1> QED
    BY <1>1, <1>4, <1>5

\* A decision touches one flag and leaves it on the draft.
LEMMA DecidedKeeps ==
    ASSUME NEW r \in Request, r.flag \in OnDraft(r.flags),
           r.decision \in {"resolved", "deferred"}
    PROVE  /\ OnDraft(Decided(r)) = OnDraft(r.flags)
           /\ Closed(Decided(r)) = Closed(r.flags) \cup {r.flag}
           /\ Decided(r)[r.flag] = r.decision
           /\ \A f \in Closed(r.flags) \ {r.flag} : Decided(r)[f] = r.flags[f]
  <1>1. r.flags \in FlagMap /\ r.flag \in Flag
    BY DEF Request, OnDraft
  <1>2. Decided(r) = [r.flags EXCEPT ![r.flag] = r.decision]
    BY DEF Decided
  <1>3. \A f \in Flag : Decided(r)[f] = IF f = r.flag THEN r.decision ELSE r.flags[f]
    BY <1>1, <1>2 DEF FlagMap
  <1> QED
    BY <1>1, <1>3 DEF OnDraft, Closed

--------------------------------------------------------------------------------
(***************************************************************************)
(* The status column.                                                      *)
(***************************************************************************)
LEMMA StatusStep ==
    ASSUME NumberingInv, StatusMatchesFlags, [Next]_vars
    PROVE  StatusMatchesFlags'
  <1> SUFFICES ASSUME NEW d \in Draft, drafts'[d].content, drafts'[d].status # "failed"
               PROVE  drafts'[d].status = StatusAfterFlags(drafts'[d].flags)
    BY DEF StatusMatchesFlags
  <1> USE DEF NumberingInv, TypeOK
  <1>1. CASE drafts'[d] = drafts[d]
    BY <1>1 DEF StatusMatchesFlags
  <1>2. ASSUME NEW s \in Session, NEW e \in Draft, CommitGenerate(s, e), drafts'[d] # drafts[d]
        PROVE  FALSE
    BY <1>2 DEF CommitGenerate, NoRow
  <1>3. ASSUME NEW s \in Session, NEW e \in Draft, NEW new, NEW scope,
               CommitRevise(s, e, new, scope), drafts'[d] # drafts[d]
        PROVE  drafts'[d].status = StatusAfterFlags(drafts'[d].flags)
    BY <1>3 DEF CommitRevise
  <1>4. ASSUME NEW s \in Session, CommitResolve(s) \/ CommitApply(s), drafts'[d] # drafts[d]
        PROVE  drafts'[d].status = StatusAfterFlags(drafts'[d].flags)
    <2>1. CASE CommitResolve(s)
      BY <1>4, <2>1 DEF CommitResolve, DraftRow
    <2>2. CASE CommitApply(s)
      BY <1>4, <2>2 DEF CommitApply, DraftRow
    <2> QED
      BY <1>4, <2>1, <2>2
  <1>5. ASSUME NEW e \in Draft, NEW new, NEW acked, RunComplete(e, new, acked),
               drafts'[d] # drafts[d]
        PROVE  drafts'[d].status = StatusAfterFlags(drafts'[d].flags)
    BY <1>5 DEF RunComplete, DraftRow
  <1>6. ASSUME NEW e \in Draft, RecordFailure(e), drafts'[d] # drafts[d]
        PROVE  FALSE
    BY <1>6 DEF RecordFailure, DraftRow
  <1>7. ASSUME NEW s \in Session, CommitExport(s)
        PROVE  drafts' = drafts
    BY <1>7 DEF CommitExport
  <1> QED
    BY <1>1, <1>2, <1>3, <1>4, <1>5, <1>6, <1>7, Writers DEF CommitCreation


--------------------------------------------------------------------------------
(***************************************************************************)
(* What stays as it is: the flags a draft with content has, and what the   *)
(* audit log says.                                                         *)
(***************************************************************************)
LEMMA InitFlag == Init => FlagInv
  <1> SUFFICES ASSUME Init PROVE FlagInv
    OBVIOUS
  <1>1. NumberingInv
    BY InitNumbering
  <1>2. \A d \in Draft : /\ ~drafts[d].content
                         /\ run[d] = "none"
                         /\ OnDraft(drafts[d].flags) = {}
    BY RaisedOpen DEF Init, NoRow
  <1>3. \A s \in Session : req[s].op = "idle"
    BY DEF Init, Idle
  <1>4. audit = {}
    BY DEF Init
  <1>5. ContentSettled /\ StatusMatchesFlags
    BY <1>2 DEF ContentSettled, StatusMatchesFlags
  <1>6. RequestsOnContent /\ SnapshotsAudited /\ ExportsAttested
    BY <1>3 DEF RequestsOnContent, SnapshotsAudited, ExportsAttested
  <1>7. AuditOnRows /\ CleanExportAttested /\ FlagsNeverDropped
    BY <1>4 DEF AuditOnRows, CleanExportAttested, FlagsNeverDropped
  <1>8. ClosedFlagsAudited
    BY <1>2 DEF ClosedFlagsAudited, Closed
  <1> QED
    BY <1>1, <1>5, <1>6, <1>7, <1>8 DEF FlagInv

\* The flag of a decision under way is on the draft, and was when it was read; what the
\* decision writes has the same flags, and closes just that one.
LEMMA DecisionUnderWay ==
    ASSUME FlagInv, NEW s \in Session, req[s].op \in {"resolve", "apply"}
    PROVE  \E d \in Draft : /\ d = req[s].draft
                            /\ Exists(d)
                            /\ drafts[d].content
                            /\ req[s].flag \in OnDraft(req[s].flags)
                            /\ OnDraft(Decided(req[s])) = OnDraft(drafts[d].flags)
                            /\ Closed(Decided(req[s])) = Closed(req[s].flags) \cup {req[s].flag}
                            /\ Decided(req[s])[req[s].flag] = req[s].decision
                            /\ \A f \in Closed(req[s].flags) \ {req[s].flag} :
                                   Decided(req[s])[f] = req[s].flags[f]
  <1>1. PICK d \in Draft : /\ d = req[s].draft
                           /\ Exists(d)
                           /\ drafts[d].content
                           /\ OnDraft(req[s].flags) = OnDraft(drafts[d].flags)
    BY DEF FlagInv, NumberingInv, RequestsWellFormed, RequestsOnContent
  <1>2. /\ req[s] \in Request
        /\ req[s].flag \in OnDraft(req[s].flags)
        /\ req[s].decision \in {"resolved", "deferred"}
    BY Decisions DEF FlagInv, NumberingInv, TypeOK, RequestsWellFormed, RequestsOnContent
  <1> QED
    BY <1>1, <1>2, DecidedKeeps

\* What a step leaves in a row that it does not create: the row as it was, or its flags
\* with one decision taken over what the request read, or the flags of a finished run on a
\* row without content, or the row marked as failed.
LEMMA RowStep ==
    ASSUME FlagInv, [Next]_vars, NEW d \in Draft, Exists(d)
    PROVE  \/ /\ drafts'[d].flags = drafts[d].flags
              /\ drafts'[d].content = drafts[d].content
           \/ \E s \in Session : /\ CommitResolve(s) \/ CommitApply(s)
                                 /\ d = req[s].draft
                                 /\ drafts'[d].flags = Decided(req[s])
                                 /\ drafts'[d].content = drafts[d].content
           \/ \E new \in SUBSET Flag : /\ ~drafts[d].content
                                       /\ drafts'[d].content
                                       /\ drafts'[d].flags = Raised(new)
                                       /\ run'[d] # "running"
  <1> USE DEF FlagInv, NumberingInv, TypeOK
  <1>1. ASSUME NEW s \in Session, CommitCreation(s)
        PROVE  drafts'[d] = drafts[d]
    BY <1>1 DEF CommitCreation, CommitGenerate, CommitRevise
  <1>2. ASSUME NEW s \in Session, CommitResolve(s), d = req[s].draft
        PROVE  /\ drafts'[d].flags = Decided(req[s])
               /\ drafts'[d].content = drafts[d].content
    BY <1>2 DEF CommitResolve, DraftRow
  <1>3. ASSUME NEW s \in Session, CommitApply(s), d = req[s].draft
        PROVE  /\ drafts'[d].flags = Decided(req[s])
               /\ drafts'[d].content = drafts[d].content
    BY <1>3 DEF CommitApply, DraftRow
  <1>4. ASSUME NEW s \in Session, CommitResolve(s) \/ CommitApply(s), d # req[s].draft
        PROVE  drafts'[d] = drafts[d]
    BY <1>4 DEF CommitResolve, CommitApply
  <1>5. ASSUME NEW new \in SUBSET Fresh, NEW acked, RunComplete(d, new, acked)
        PROVE  /\ new \in SUBSET Flag
               /\ ~drafts[d].content
               /\ drafts'[d].content
               /\ drafts'[d].flags = Raised(new)
               /\ run'[d] # "running"
    BY <1>5 DEF RunComplete, DraftRow, ContentSettled, Fresh
  <1>6. ASSUME NEW e \in Draft, NEW new, NEW acked, RunComplete(e, new, acked), d # e
        PROVE  drafts'[d] = drafts[d]
    BY <1>6 DEF RunComplete
  <1>7. ASSUME NEW e \in Draft, RecordFailure(e)
        PROVE  /\ drafts'[d].flags = drafts[d].flags
               /\ drafts'[d].content = drafts[d].content
    BY <1>7 DEF RecordFailure, DraftRow
  <1>8. ASSUME NEW s \in Session, CommitExport(s)
        PROVE  drafts' = drafts
    BY <1>8 DEF CommitExport
  <1>9. CASE drafts' = drafts
    BY <1>9
  <1>10. CASE \E s \in Session : CommitResolve(s) \/ CommitApply(s)
    BY <1>2, <1>3, <1>4, <1>10
  <1>11. CASE \E e \in Draft, new \in SUBSET Fresh, acked \in BOOLEAN : RunComplete(e, new, acked)
    BY <1>5, <1>6, <1>11
  <1> QED
    BY <1>1, <1>7, <1>8, <1>9, <1>10, <1>11, Writers

\* A draft with content keeps it, and keeps its flags.
LEMMA FlagsStable ==
    ASSUME FlagInv, [Next]_vars, NEW d \in Draft, drafts[d].content
    PROVE  drafts'[d].content /\ OnDraft(drafts'[d].flags) = OnDraft(drafts[d].flags)
  <1>1. Exists(d)
    BY DEF FlagInv, NumberingInv, RowsWellFormed, NoRow
  <1>2. ASSUME NEW s \in Session, CommitResolve(s) \/ CommitApply(s), d = req[s].draft
        PROVE  OnDraft(Decided(req[s])) = OnDraft(drafts[d].flags)
    BY <1>2, DecisionUnderWay DEF CommitResolve, CommitApply
  <1> QED
    BY <1>1, <1>2, RowStep

\* No step takes an audit row back: AuditRepository.append only ever inserts.
LEMMA AuditGrows ==
    ASSUME [Next]_vars
    PROVE  audit \subseteq audit'
  BY Writers DEF CommitCreation, CommitGenerate, CommitRevise, CommitResolve, CommitApply,
     CommitExport, RunComplete, RecordFailure, Record

\* What was audited by some version of a case stays audited by it and by the later ones.
LEMMA OutcomeStable ==
    ASSUME FlagInv, [Next]_vars, NEW c, NEW v \in Nat, NEW w \in Nat, v <= w, NEW f, NEW o,
           OutcomeAudited(c, v, f, o)
    PROVE  OutcomeAudited(c, w, f, o)'
  <1>1. PICK e \in audit : /\ e.action \in {"flag.resolve", "flag.apply"}
                           /\ e.flag = f
                           /\ e.decision = o
                           /\ drafts[e.draft].case = c
                           /\ drafts[e.draft].version <= v
    BY DEF OutcomeAudited
  <1>2. e.draft \in Draft /\ Exists(e.draft)
    BY DEF FlagInv, NumberingInv, TypeOK, AuditEntry, AuditOnRows
  <1>3. drafts[e.draft].version \in Nat
    BY <1>2 DEF FlagInv, NumberingInv, TypeOK, DraftRow
  <1>4. /\ drafts'[e.draft].case = c
        /\ drafts'[e.draft].version <= w
    BY <1>1, <1>2, <1>3, RowsStable DEF FlagInv
  <1>5. e \in audit'
    BY AuditGrows
  <1> QED
    BY <1>1, <1>4, <1>5 DEF OutcomeAudited

\* A flag decided by some version of a case stays decided for the later versions: the
\* audit row outlives the request that wrote it (resolve_flag, apply_flag_resolution).
LEMMA DecisionStable ==
    ASSUME FlagInv, [Next]_vars, NEW c, NEW v \in Nat, NEW f, DecisionAudited(c, v, f)
    PROVE  DecisionAudited(c, v, f)'
  <1>1. PICK e \in audit : /\ e.action \in {"flag.resolve", "flag.apply"}
                           /\ e.flag = f
                           /\ drafts[e.draft].case = c
                           /\ drafts[e.draft].version <= v
    BY DEF DecisionAudited
  <1>2. OutcomeAudited(c, v, f, e.decision)
    BY <1>1 DEF OutcomeAudited
  <1>3. OutcomeAudited(c, v, f, e.decision)'
    BY <1>2, OutcomeStable
  <1> QED
    BY <1>3 DEF OutcomeAudited, DecisionAudited


--------------------------------------------------------------------------------
(***************************************************************************)
(* The steps of the invariant.                                             *)
(***************************************************************************)
\* What a revision reads of its parent, and writes.
LEMMA RevisionUnderWay ==
    ASSUME FlagInv, NEW s \in Session, NEW d \in Draft, NEW new \in SUBSET Fresh, NEW scope,
           CommitRevise(s, d, new, scope)
    PROVE  \E p \in Draft :
              /\ p = req[s].draft
              /\ p # d
              /\ Exists(p)
              /\ drafts[p].content
              /\ drafts[p].case = req[s].case
              /\ drafts[p].version \in Nat
              /\ req[s].version \in Nat
              /\ drafts[p].version <= req[s].version
              /\ drafts'[d].content
              /\ drafts'[d].case = req[s].case
              /\ drafts'[d].version = req[s].version
              /\ OnDraft(drafts[p].flags) \subseteq OnDraft(drafts'[d].flags)
              /\ Closed(drafts'[d].flags) = Closed(req[s].flags)
              /\ \A f \in Closed(req[s].flags) : drafts'[d].flags[f] = req[s].flags[f]
  <1> USE DEF FlagInv, NumberingInv, TypeOK
  <1>1. Holding(s) /\ req[s].op = "revise" /\ ~Exists(d)
    BY DEF CommitRevise
  <1>2. PICK p \in Draft : /\ p = req[s].draft
                           /\ Exists(p)
                           /\ drafts[p].content
                           /\ drafts[p].case = req[s].case
                           /\ OnDraft(req[s].flags) = OnDraft(drafts[p].flags)
    BY <1>1 DEF RequestsWellFormed, RequestsOnContent
  <1>3. PICK c \in Case : c = req[s].case
    BY <1>1 DEF RequestsWellFormed, Holding
  <1>4. PICK n \in Nat \ {0} : Versions(c) = 1 .. (n - 1) /\ req[s].version = n
    BY <1>1, <1>3 DEF HolderNumbers, VersionsDense
  <1>5. drafts[p].version \in Versions(c)
    BY <1>2, <1>3 DEF Versions, DraftsOf
  <1>6. drafts[p].version \in Nat /\ drafts[p].version <= n
    BY <1>4, <1>5
  <1>7. /\ new \in SUBSET Flag
        /\ new \cap OnDraft(req[s].flags) = {}
        /\ req[s].flags \in FlagMap
    BY <1>2 DEF Fresh, OnDraft, Request
  <1>8. /\ drafts'[d].content
        /\ drafts'[d].case = req[s].case
        /\ drafts'[d].version = req[s].version
        /\ drafts'[d].flags = MergeFlagsOnRevise(req[s].flags, new, scope)
    BY DEF CommitRevise
  <1>9. /\ OnDraft(req[s].flags) \subseteq OnDraft(drafts'[d].flags)
        /\ Closed(drafts'[d].flags) = Closed(req[s].flags)
        /\ \A f \in OnDraft(req[s].flags) : drafts'[d].flags[f] = req[s].flags[f]
    <2>1. PICK parent \in FlagMap : parent = req[s].flags
      BY <1>7
    <2>2. PICK flags : flags = MergeFlagsOnRevise(parent, new, scope)
      OBVIOUS
    <2>3. NewTo(new, parent)
      BY <1>7, <2>1 DEF NewTo
    <2> HIDE DEF FlagInv, NumberingInv, TypeOK
    <2>4. /\ OnDraft(flags) = OnDraft(parent) \cup new
          /\ Closed(flags) = Closed(parent)
          /\ \A f \in OnDraft(parent) : flags[f] = parent[f]
      BY <2>2, <2>3, MergeKeeps
    <2>5. drafts'[d].flags = flags
      BY <1>8, <2>1, <2>2
    <2> QED
      BY <2>1, <2>4, <2>5
  <1>10. \A f \in Closed(req[s].flags) : f \in OnDraft(req[s].flags)
    BY DEF Closed
  <1> QED
    BY <1>1, <1>2, <1>4, <1>6, <1>8, <1>9, <1>10

\* A row is created by a commit of a generation, blank, or of a revision.
LEMMA CreatedBy ==
    ASSUME FlagInv, [Next]_vars, NEW d \in Draft, ~Exists(d), Exists(d)'
    PROVE  \/ \E s \in Session : CommitGenerate(s, d)
           \/ \E s \in Session, new \in SUBSET Fresh, scope \in SUBSET Paragraph :
                  CommitRevise(s, d, new, scope)
  <1> USE DEF FlagInv, NumberingInv, TypeOK
  <1>1. ASSUME NEW s \in Session, CommitCreation(s)
        PROVE  \/ CommitGenerate(s, d)
               \/ \E new \in SUBSET Fresh, scope \in SUBSET Paragraph :
                      CommitRevise(s, d, new, scope)
    <2>1. PICK e \in Draft : \/ CommitGenerate(s, e)
                             \/ \E new \in SUBSET Fresh, scope \in SUBSET Paragraph :
                                    CommitRevise(s, e, new, scope)
      BY <1>1 DEF CommitCreation
    <2>2. e = d
      BY <2>1 DEF CommitGenerate, CommitRevise, Exists
    <2> QED
      BY <2>1, <2>2
  <1>2. ~ \E e \in Draft : Rewrites(e)
    BY DEF Rewrites, Exists
  <1>3. PICK s \in Session : Creates(s, d)
    BY <1>2, StepShape DEF Creates, Exists
  <1>4. ~ \E t \in Session : CommitResolve(t) \/ CommitApply(t) \/ CommitExport(t)
    <2> SUFFICES ASSUME NEW t \in Session, CommitResolve(t) \/ CommitApply(t) \/ CommitExport(t)
                 PROVE  FALSE
      OBVIOUS
    <2>1. CASE CommitExport(t)
      BY <2>1 DEF CommitExport, Exists
    <2>2. CASE CommitResolve(t) \/ CommitApply(t)
      <3>1. d # req[t].draft
        BY <2>2, DecisionUnderWay DEF CommitResolve, CommitApply
      <3> QED
        BY <2>2, <3>1 DEF CommitResolve, CommitApply, Exists
    <2> QED
      BY <2>1, <2>2
  <1>5. ~ \E e \in Draft : \/ \E new \in SUBSET Fresh, acked \in BOOLEAN : RunComplete(e, new, acked)
                           \/ RecordFailure(e)
    <2> SUFFICES ASSUME NEW e \in Draft, \/ \E new \in SUBSET Fresh, acked \in BOOLEAN :
                                                RunComplete(e, new, acked)
                                         \/ RecordFailure(e)
                 PROVE  FALSE
      OBVIOUS
    <2>1. Exists(e)
      BY DEF RowsWellFormed, RunComplete, RecordFailure
    <2> QED
      BY <2>1 DEF RunComplete, RecordFailure, Exists
  <1> QED
    BY <1>1, <1>4, <1>5, Writers DEF Exists

\* A draft without content carries no flag: flags are only written together with content
\* (update_draft_complete) or on a draft that has some.
LEMMA ContentStep ==
    ASSUME FlagInv, [Next]_vars
    PROVE  ContentSettled'
  <1> USE DEF FlagInv, NumberingInv, TypeOK
  <1>1. ASSUME NEW d \in Draft, ~drafts'[d].content
        PROVE  OnDraft(drafts'[d].flags) = {}
    <2>1. CASE Exists(d)
      <3>1. ASSUME NEW s \in Session, CommitResolve(s) \/ CommitApply(s), d = req[s].draft
            PROVE  drafts[d].content
        BY <3>1, DecisionUnderWay DEF CommitResolve, CommitApply
      <3> QED
        BY <1>1, <2>1, <3>1, RowStep DEF ContentSettled
    <2>2. CASE ~Exists(d) /\ Exists(d)'
      <3>1. PICK s \in Session : CommitGenerate(s, d)
        BY <1>1, <2>2, CreatedBy DEF CommitRevise
      <3>2. drafts'[d].flags = Raised({})
        BY <3>1 DEF CommitGenerate, NoRow
      <3> QED
        BY <3>2, RaisedOpen
    <2>3. CASE ~Exists(d) /\ ~Exists(d)'
      <3>1. drafts'[d].flags = Raised({})
        BY <2>3, RowsStep DEF RowsWellFormed, NoRow
      <3> QED
        BY <3>1, RaisedOpen
    <2> QED
      BY <2>1, <2>2, <2>3
  <1>2. ASSUME NEW d \in Draft, run'[d] = "running"
        PROVE  ~drafts'[d].content
    <2>1. ASSUME NEW s \in Session, CommitGenerate(s, d)
          PROVE  ~drafts'[d].content
      BY <2>1 DEF CommitGenerate, NoRow
    <2>2. ASSUME NEW s \in Session, NEW e \in Draft, CommitGenerate(s, e), e # d
          PROVE  run'[d] = run[d] /\ drafts'[d] = drafts[d]
      BY <2>2 DEF CommitGenerate
    <2>3. ASSUME NEW e \in Draft, RunStep(e)
          PROVE  run[d] = "running" /\ drafts'[d].content = drafts[d].content
      BY <1>2, <2>3 DEF RunStep, RunComplete, RunError, RecordFailure, RunDies, DraftRow
    <2>4. CASE run' = run
      <3>1. ~drafts[d].content /\ Exists(d)
        BY <1>2, <2>4 DEF ContentSettled, RowsWellFormed
      <3>2. ASSUME NEW s \in Session, CommitResolve(s) \/ CommitApply(s), d = req[s].draft
            PROVE  drafts[d].content
        BY <3>2, DecisionUnderWay DEF CommitResolve, CommitApply
      <3> QED
        BY <1>2, <3>1, <3>2, RowStep
    <2>5. ASSUME NEW s \in Session, NEW e \in Draft, CommitGenerate(s, e)
          PROVE  ~drafts'[d].content
      BY <1>2, <2>1, <2>2, <2>5 DEF ContentSettled
    <2>6. ASSUME NEW e \in Draft, RunStep(e)
          PROVE  ~drafts'[d].content
      BY <2>3, <2>6 DEF ContentSettled
    <2> QED
      BY <2>4, <2>5, <2>6, RunShape
  <1> QED
    BY <1>1, <1>2 DEF ContentSettled

\* What a request holds when it has just read its draft.
LEMMA ReadStep ==
    ASSUME FlagInv, [Next]_vars, NEW s \in Session, req'[s] # req[s],
           req'[s].op \in {"revise", "resolve", "apply", "export"}, ~LockCase(s)
    PROVE  /\ drafts' = drafts
           /\ \E d \in Draft :
                 /\ req'[s].draft = d
                 /\ Exists(d)
                 /\ drafts[d].content
                 /\ req'[s].op \in {"revise", "resolve", "apply"}
                        => req'[s].flags = drafts[d].flags
                 /\ req'[s].op \in {"resolve", "apply"} => req'[s].flag \in OnDraft(drafts[d].flags)
                 /\ req'[s].op = "export" => UnresolvedRequired(drafts[d].flags) = {}
  <1> USE DEF FlagInv, NumberingInv, TypeOK
  <1>1. \A d \in Draft : drafts[d].content => Exists(d)
    BY DEF RowsWellFormed, NoRow
  <1>2. \A d \in Draft, f \in Flag : f \in OnDraft(drafts[d].flags) => drafts[d].content
    BY DEF ContentSettled
  <1>3. CASE \E c \in Case, d \in Draft : RequestRevise(s, c, d)
    BY <1>1, <1>3 DEF RequestRevise, Idle
  <1>4. CASE \E c \in Case, d \in Draft : RequestCleanExport(s, c, d)
    BY <1>1, <1>4 DEF RequestCleanExport, Idle
  <1>5. CASE \E c \in Case, d \in Draft, f \in Flag, decision \in Decision :
                 RequestResolve(s, c, d, f, decision)
    BY <1>1, <1>2, <1>5 DEF RequestResolve, Idle
  <1>6. CASE \E c \in Case, d \in Draft, f \in Flag, decision \in Decision :
                 RequestApply(s, c, d, f, decision)
    BY <1>1, <1>6 DEF RequestApply, Idle
  <1>7. ASSUME NEW c \in Case, RequestGenerate(s, c)
        PROVE  FALSE
    BY <1>7 DEF RequestGenerate, Idle
  <1>8. req'[s] # Idle
    BY DEF Idle
  <1> QED
    BY <1>3, <1>4, <1>5, <1>6, <1>7, <1>8, RequestShape

\* A step that takes the lock leaves what the request has read alone.
LEMMA LockKeeps ==
    ASSUME NumberingInv, NEW s \in Session, LockCase(s)
    PROVE  /\ drafts' = drafts
           /\ audit' = audit
           /\ req'[s].op = req[s].op
           /\ req'[s].draft = req[s].draft
           /\ req'[s].flag = req[s].flag
           /\ req'[s].flags = req[s].flags
  BY DEF LockCase, NumberingInv, TypeOK, Request

\* The requests that carry a flags map carry that of the draft they read: the set of
\* flags of a draft with content is never rewritten.
LEMMA RequestsOnContentStep ==
    ASSUME FlagInv, [Next]_vars
    PROVE  RequestsOnContent'
  <1> SUFFICES ASSUME NEW s \in Session
               PROVE  /\ req'[s].op \in {"revise", "resolve", "apply", "export"}
                             => drafts'[req'[s].draft].content
                      /\ req'[s].op \in {"revise", "resolve", "apply"}
                             => OnDraft(req'[s].flags) = OnDraft(drafts'[req'[s].draft].flags)
                      /\ req'[s].op \in {"resolve", "apply"} => req'[s].flag \in OnDraft(req'[s].flags)
    BY DEF RequestsOnContent, OnDraft
  <1>1. req[s].op \in {"revise", "resolve", "apply", "export"} => req[s].draft \in Draft
    BY DEF FlagInv, NumberingInv, RequestsWellFormed
  <1>2. CASE req'[s] = req[s]
    BY <1>1, <1>2, FlagsStable DEF FlagInv, RequestsOnContent
  <1>3. CASE LockCase(s)
    BY <1>3, LockKeeps DEF FlagInv, RequestsOnContent
  <1>4. CASE req'[s] # req[s] /\ ~LockCase(s)
    BY <1>4, ReadStep
  <1> QED
    BY <1>2, <1>3, <1>4

\* A step leaves every closed flag on a draft justified by an audit row
\* (merge_flags_on_revise keeps a decision, resolve_flag and apply_flag_resolution record theirs).
LEMMA ClosedStep ==
    ASSUME FlagInv, [Next]_vars
    PROVE  ClosedFlagsAudited'
  <1> SUFFICES ASSUME NEW d \in Draft, NEW f \in Closed(drafts'[d].flags),
                      NEW c, c = drafts'[d].case, NEW v, v = drafts'[d].version,
                      NEW o, o = drafts'[d].flags[f]
               PROVE  OutcomeAudited(c, v, f, o)'
    BY DEF ClosedFlagsAudited, OutcomeAudited, Closed, OnDraft
  <1> USE DEF FlagInv, NumberingInv, TypeOK
  <1>0. v \in Nat
    BY TypeStep DEF DraftRow
  <1>1. CASE Exists(d)
    <2>1. c = drafts[d].case /\ v = drafts[d].version
      BY <1>1, RowsStable
    <2>2. CASE drafts'[d].flags = drafts[d].flags
      <3>1. OutcomeAudited(c, v, f, o)
        BY <2>1, <2>2 DEF ClosedFlagsAudited
      <3> QED
        BY <1>0, <3>1, OutcomeStable
    <2>3. ASSUME NEW s \in Session, CommitResolve(s) \/ CommitApply(s), d = req[s].draft,
                 drafts'[d].flags = Decided(req[s])
          PROVE  OutcomeAudited(c, v, f, o)'
      <3>0. req[s].op \in {"resolve", "apply"}
        BY <2>3 DEF CommitResolve, CommitApply
      <3>1. /\ Closed(Decided(req[s])) = Closed(req[s].flags) \cup {req[s].flag}
            /\ Decided(req[s])[req[s].flag] = req[s].decision
            /\ \A x \in Closed(req[s].flags) \ {req[s].flag} :
                   Decided(req[s])[x] = req[s].flags[x]
        BY <3>0, DecisionUnderWay
      <3>2. CASE f = req[s].flag
        <4>0. PICK action \in {"flag.resolve", "flag.apply"} :
                  DecisionEntry(action, d, f, o) \in audit'
          BY <2>3, <3>1, <3>2 DEF CommitResolve, CommitApply, Record
        <4>1. PICK e \in audit' : /\ e.action \in {"flag.resolve", "flag.apply"}
                                  /\ e.draft = d
                                  /\ e.flag = f
                                  /\ e.decision = o
          BY <4>0 DEF DecisionEntry, Entry
        <4>2. drafts'[e.draft].case = c /\ drafts'[e.draft].version <= v
          BY <1>0, <4>1
        <4> QED
          BY <4>1, <4>2 DEF OutcomeAudited
      <3>3. CASE f # req[s].flag
        <4>1. f \in Closed(req[s].flags) /\ o = req[s].flags[f]
          BY <2>3, <3>1, <3>3
        <4>2. OutcomeAudited(c, v, f, o)
          BY <2>1, <2>3, <3>0, <4>1 DEF SnapshotsAudited
        <4> QED
          BY <1>0, <4>2, OutcomeStable
      <3> QED
        BY <3>2, <3>3
    <2>4. ASSUME NEW new \in SUBSET Flag, drafts'[d].flags = Raised(new)
          PROVE  FALSE
      BY <2>4, RaisedOpen
    <2> QED
      BY <1>1, <2>2, <2>3, <2>4, RowStep
  <1>2. CASE ~Exists(d) /\ Exists(d)'
    <2>1. ASSUME NEW s \in Session, CommitGenerate(s, d)
          PROVE  FALSE
      <3>1. drafts'[d].flags = Raised({})
        BY <2>1 DEF CommitGenerate, NoRow
      <3> QED
        BY <3>1, RaisedOpen
    <2>2. ASSUME NEW s \in Session, NEW new \in SUBSET Fresh, NEW scope \in SUBSET Paragraph,
                 CommitRevise(s, d, new, scope)
          PROVE  OutcomeAudited(c, v, f, o)'
      <3>1. PICK p \in Draft :
               /\ p = req[s].draft
               /\ drafts[p].case = c
               /\ drafts[p].version \in Nat
               /\ drafts[p].version <= v
               /\ f \in Closed(req[s].flags)
               /\ o = req[s].flags[f]
        <4> HIDE DEF FlagInv, NumberingInv, TypeOK
        <4>1. PICK p \in Draft :
                 /\ p = req[s].draft
                 /\ drafts[p].case = req[s].case
                 /\ drafts[p].version \in Nat
                 /\ drafts[p].version <= req[s].version
                 /\ drafts'[d].case = req[s].case
                 /\ drafts'[d].version = req[s].version
                 /\ Closed(drafts'[d].flags) = Closed(req[s].flags)
                 /\ \A x \in Closed(req[s].flags) : drafts'[d].flags[x] = req[s].flags[x]
          BY <2>2, RevisionUnderWay
        <4>2. /\ f \in Closed(drafts'[d].flags) /\ o = drafts'[d].flags[f]
              /\ c = drafts'[d].case /\ v = drafts'[d].version
          OBVIOUS
        <4> QED
          BY <4>1, <4>2
      <3>2. req[s].op = "revise"
        BY <2>2 DEF CommitRevise
      <3>3. PICK w \in Nat : w = drafts[p].version
        BY <3>1
      <3>4. OutcomeAudited(c, w, f, o)
        BY <3>1, <3>2, <3>3 DEF SnapshotsAudited
      <3> QED
        BY <1>0, <3>1, <3>3, <3>4, OutcomeStable
    <2> QED
      BY <1>2, <2>1, <2>2, CreatedBy
  <1>3. CASE ~Exists(d) /\ ~Exists(d)'
    <2>1. drafts'[d].flags = Raised({})
      BY <1>3, RowsStep DEF RowsWellFormed, NoRow
    <2> QED
      BY <2>1, RaisedOpen
  <1> QED
    BY <1>1, <1>2, <1>3

\* The same for the flags a request read earlier and will write back.
LEMMA SnapshotsStep ==
    ASSUME FlagInv, [Next]_vars
    PROVE  SnapshotsAudited'
  <1> SUFFICES ASSUME NEW s \in Session, req'[s].op \in {"revise", "resolve", "apply"},
                      NEW f \in Closed(req'[s].flags),
                      NEW c, c = drafts'[req'[s].draft].case,
                      NEW v, v = drafts'[req'[s].draft].version,
                      NEW o, o = req'[s].flags[f]
               PROVE  OutcomeAudited(c, v, f, o)'
    BY DEF SnapshotsAudited, OutcomeAudited, Closed, OnDraft
  <1> USE DEF FlagInv, NumberingInv, TypeOK
  <1>1. CASE req'[s] = req[s] \/ LockCase(s)
    <2>1. /\ req[s].op \in {"revise", "resolve", "apply"}
          /\ req'[s].draft = req[s].draft
          /\ req'[s].flags = req[s].flags
      BY <1>1, LockKeeps
    <2>2. PICK d \in Draft : d = req[s].draft /\ Exists(d)
      BY <2>1 DEF RequestsWellFormed
    <2>3. c = drafts[d].case /\ v = drafts[d].version /\ v \in Nat
      BY <2>1, <2>2, RowsStable DEF DraftRow
    <2>4. OutcomeAudited(c, v, f, o)
      BY <2>1, <2>2, <2>3 DEF SnapshotsAudited
    <2> QED
      BY <2>3, <2>4, OutcomeStable
  <1>2. CASE req'[s] # req[s] /\ ~LockCase(s)
    <2>1. PICK d \in Draft : /\ drafts' = drafts
                             /\ req'[s].draft = d
                             /\ req'[s].flags = drafts[d].flags
      BY <1>2, ReadStep
    <2>2. c = drafts[d].case /\ v = drafts[d].version /\ v \in Nat
      BY <2>1 DEF DraftRow
    <2>3. OutcomeAudited(c, v, f, o)
      BY <2>1, <2>2 DEF ClosedFlagsAudited
    <2> QED
      BY <2>2, <2>3, OutcomeStable
  <1> QED
    BY <1>1, <1>2

\* The same for an export that passed its check and has not recorded its audit row yet.
LEMMA ExportsStep ==
    ASSUME FlagInv, [Next]_vars
    PROVE  ExportsAttested'
  <1> SUFFICES ASSUME NEW s \in Session, req'[s].op = "export",
                      NEW f \in RequiredOn(drafts'[req'[s].draft].flags),
                      NEW c, c = drafts'[req'[s].draft].case,
                      NEW v, v = drafts'[req'[s].draft].version
               PROVE  DecisionAudited(c, v, f)'
    BY DEF ExportsAttested, DecisionAudited, RequiredOn, OnDraft
  <1> USE DEF FlagInv, NumberingInv, TypeOK
  <1>1. CASE req'[s] = req[s] \/ LockCase(s)
    <2>1. req[s].op = "export" /\ req'[s].draft = req[s].draft
      BY <1>1, LockKeeps
    <2>2. PICK d \in Draft : d = req[s].draft /\ Exists(d) /\ drafts[d].content
      BY <2>1 DEF RequestsWellFormed, RequestsOnContent
    <2>3. c = drafts[d].case /\ v = drafts[d].version /\ v \in Nat
      BY <2>1, <2>2, RowsStable DEF DraftRow
    <2>4. f \in RequiredOn(drafts[d].flags)
      BY <2>1, <2>2, FlagsStable DEF RequiredOn
    <2>5. DecisionAudited(c, v, f)
      BY <2>1, <2>2, <2>3, <2>4 DEF ExportsAttested
    <2> QED
      BY <2>3, <2>5, DecisionStable
  <1>2. CASE req'[s] # req[s] /\ ~LockCase(s)
    <2>1. PICK d \in Draft : /\ drafts' = drafts
                             /\ req'[s].draft = d
                             /\ UnresolvedRequired(drafts[d].flags) = {}
      BY <1>2, ReadStep
    <2>2. c = drafts[d].case /\ v = drafts[d].version /\ v \in Nat
      BY <2>1 DEF DraftRow
    <2>3. f \in Closed(drafts[d].flags)
      BY <2>1 DEF UnresolvedRequired, RequiredOn, Closed
    <2>4. OutcomeAudited(c, v, f, drafts[d].flags[f])
      BY <2>2, <2>3 DEF ClosedFlagsAudited
    <2>5. DecisionAudited(c, v, f)
      BY <2>4 DEF OutcomeAudited, DecisionAudited
    <2> QED
      BY <2>2, <2>5, DecisionStable
  <1> QED
    BY <1>1, <1>2

\* The fields of the audit rows the requests build.
LEMMA EntryFields ==
    \A action, d, p, f, o :
        /\ Entry(action, d).action = action /\ Entry(action, d).draft = d
        /\ DecisionEntry(action, d, f, o).action = action
        /\ DecisionEntry(action, d, f, o).draft = d
        /\ RevisionEntry(p, d).action = "revise"
        /\ RevisionEntry(p, d).draft = d
        /\ RevisionEntry(p, d).from = p
  BY DEF Entry, DecisionEntry, RevisionEntry

\* The entry that a step adds to the audit log.
LEMMA NewEntry ==
    ASSUME FlagInv, [Next]_vars, NEW e \in audit', e \notin audit
    PROVE  \/ \E s \in Session, d \in Draft : CommitGenerate(s, d) /\ e = Entry("generate.start", d)
           \/ \E s \in Session, d \in Draft, new \in SUBSET Fresh, scope \in SUBSET Paragraph :
                 CommitRevise(s, d, new, scope) /\ e = RevisionEntry(req[s].draft, d)
           \/ \E s \in Session, action \in {"flag.resolve", "flag.apply"} :
                 /\ CommitResolve(s) \/ CommitApply(s)
                 /\ e = DecisionEntry(action, req[s].draft, req[s].flag, req[s].decision)
           \/ \E s \in Session : CommitExport(s) /\ e = Entry("export.clean", req[s].draft)
           \/ \E d \in Draft, action \in {"generate.complete", "generate.failed"} :
                 Exists(d) /\ e = Entry(action, d)
  <1>1. ASSUME NEW s \in Session, CommitCreation(s)
        PROVE  \/ \E d \in Draft : CommitGenerate(s, d) /\ e = Entry("generate.start", d)
               \/ \E d \in Draft, new \in SUBSET Fresh, scope \in SUBSET Paragraph :
                     CommitRevise(s, d, new, scope) /\ e = RevisionEntry(req[s].draft, d)
    <2>1. CASE \E d \in Draft : CommitGenerate(s, d)
      <3>1. PICK d \in Draft : CommitGenerate(s, d)
        BY <2>1
      <3>2. e = Entry("generate.start", d)
        BY <3>1 DEF CommitGenerate, Record
      <3> QED
        BY <3>1, <3>2
    <2>2. CASE \E d \in Draft, new \in SUBSET Fresh, scope \in SUBSET Paragraph :
                   CommitRevise(s, d, new, scope)
      <3>1. PICK d \in Draft, new \in SUBSET Fresh, scope \in SUBSET Paragraph :
                     CommitRevise(s, d, new, scope)
        BY <2>2
      <3>2. e = RevisionEntry(req[s].draft, d)
        BY <3>1 DEF CommitRevise, Record
      <3> QED
        BY <3>1, <3>2
    <2> QED
      BY <1>1, <2>1, <2>2 DEF CommitCreation
  <1>2. ASSUME NEW s \in Session, CommitResolve(s) \/ CommitApply(s)
        PROVE  \E action \in {"flag.resolve", "flag.apply"} :
                   e = DecisionEntry(action, req[s].draft, req[s].flag, req[s].decision)
    <2>1. CASE CommitResolve(s)
      <3>1. e = DecisionEntry("flag.resolve", req[s].draft, req[s].flag, req[s].decision)
        BY <2>1 DEF CommitResolve, Record
      <3> QED
        BY <3>1
    <2>2. CASE CommitApply(s)
      <3>1. e = DecisionEntry("flag.apply", req[s].draft, req[s].flag, req[s].decision)
        BY <2>2 DEF CommitApply, Record
      <3> QED
        BY <3>1
    <2> QED
      BY <1>2, <2>1, <2>2
  <1>3. ASSUME NEW s \in Session, CommitExport(s)
        PROVE  e = Entry("export.clean", req[s].draft)
    BY <1>3 DEF CommitExport, Record
  <1>4. ASSUME NEW d \in Draft, \/ RecordFailure(d)
                                \/ \E new \in SUBSET Fresh, acked \in BOOLEAN :
                                       RunComplete(d, new, acked)
        PROVE  \E action \in {"generate.complete", "generate.failed"} :
                   Exists(d) /\ e = Entry(action, d)
    <2>1. run[d] # "none" /\ e \in {Entry("generate.complete", d), Entry("generate.failed", d)}
      BY <1>4 DEF RecordFailure, RunComplete, Record
    <2> QED
      BY <2>1 DEF FlagInv, NumberingInv, RowsWellFormed
  <1>5. CASE drafts' = drafts /\ audit' = audit
    BY <1>5
  <1>6. CASE \E s \in Session : CommitCreation(s)
    BY <1>6, <1>1
  <1>7. CASE \E s \in Session : CommitResolve(s) \/ CommitApply(s)
    BY <1>7, <1>2
  <1>8. CASE \E s \in Session : CommitExport(s)
    BY <1>8, <1>3
  <1>9. CASE \E d \in Draft : \/ \E new \in SUBSET Fresh, acked \in BOOLEAN :
                                     RunComplete(d, new, acked)
                              \/ RecordFailure(d)
    BY <1>9, <1>4
  <1> QED
    BY <1>5, <1>6, <1>7, <1>8, <1>9, Writers

\* Audit rows name drafts that exist, and those about content name drafts that have some.
LEMMA AuditOnRowsStep ==
    ASSUME FlagInv, [Next]_vars
    PROVE  AuditOnRows'
  <1> SUFFICES ASSUME NEW e \in audit'
               PROVE  /\ drafts'[e.draft].status # "absent"
                      /\ e.action \in {"revise", "export.clean"} => drafts'[e.draft].content
                      /\ e.action = "revise" => e.from \in Draft /\ drafts'[e.from].content
    BY DEF AuditOnRows, Exists
  <1> USE DEF FlagInv, NumberingInv, TypeOK
  <1>1. CASE e \in audit
    <2>1. e.draft \in Draft /\ Exists(e.draft)
      BY <1>1 DEF AuditEntry, AuditOnRows
    <2>2. drafts'[e.draft].status # "absent"
      BY <2>1, RowsStable DEF Exists
    <2> QED
      BY <1>1, <2>1, <2>2, FlagsStable DEF AuditOnRows
  <1>2. ASSUME NEW s \in Session, NEW d \in Draft, CommitGenerate(s, d),
               e = Entry("generate.start", d)
        PROVE  drafts'[e.draft].status # "absent" /\ e.action = "generate.start"
    BY <1>2, EntryFields DEF CommitGenerate, NoRow
  <1>3. ASSUME NEW s \in Session, NEW d \in Draft, NEW new \in SUBSET Fresh, NEW scope,
               CommitRevise(s, d, new, scope), e = RevisionEntry(req[s].draft, d)
        PROVE  /\ drafts'[e.draft].status # "absent" /\ drafts'[e.draft].content
               /\ e.from \in Draft /\ drafts'[e.from].content
    <2>1. e.draft = d /\ e.from = req[s].draft
      BY <1>3, EntryFields
    <2>2. PICK p \in Draft : /\ p = req[s].draft
                             /\ drafts[p].content
                             /\ OnDraft(drafts[p].flags) \subseteq OnDraft(drafts'[d].flags)
                             /\ drafts'[d].content
      BY <1>3, RevisionUnderWay
    <2>3. drafts'[p].content
      BY <2>2, FlagsStable
    <2>4. drafts'[d].status # "absent"
      BY <1>3, StatusType DEF CommitRevise
    <2> QED
      BY <2>1, <2>2, <2>3, <2>4
  <1>4. ASSUME NEW s \in Session, CommitResolve(s) \/ CommitApply(s) \/ CommitExport(s),
               e.draft = req[s].draft
        PROVE  drafts'[e.draft].status # "absent" /\ drafts'[e.draft].content
    <2>1. req[s].op \in {"resolve", "apply", "export"}
      BY <1>4 DEF CommitResolve, CommitApply, CommitExport
    <2>2. PICK d \in Draft : d = req[s].draft /\ Exists(d) /\ drafts[d].content
      BY <2>1 DEF RequestsWellFormed, RequestsOnContent
    <2> QED
      BY <1>4, <2>2, RowsStable, FlagsStable DEF Exists
  <1>5. ASSUME NEW s \in Session, NEW action \in {"flag.resolve", "flag.apply"},
               CommitResolve(s) \/ CommitApply(s),
               e = DecisionEntry(action, req[s].draft, req[s].flag, req[s].decision)
        PROVE  drafts'[e.draft].status # "absent" /\ e.action \in {"flag.resolve", "flag.apply"}
    BY <1>4, <1>5, EntryFields
  <1>6. ASSUME NEW s \in Session, CommitExport(s), e = Entry("export.clean", req[s].draft)
        PROVE  /\ drafts'[e.draft].status # "absent" /\ drafts'[e.draft].content
               /\ e.action = "export.clean"
    BY <1>4, <1>6, EntryFields
  <1>7. ASSUME NEW d \in Draft, NEW action \in {"generate.complete", "generate.failed"}, Exists(d),
               e = Entry(action, d)
        PROVE  /\ drafts'[e.draft].status # "absent"
               /\ e.action \in {"generate.complete", "generate.failed"}
    BY <1>7, EntryFields, RowsStable DEF Exists
  <1> QED
    BY <1>1, <1>2, <1>3, <1>5, <1>6, <1>7, NewEntry

\* A step keeps every recorded clean export attested (export_declaration_docx).
LEMMA CleanExportStep ==
    ASSUME FlagInv, [Next]_vars
    PROVE  CleanExportAttested'
  <1> SUFFICES ASSUME NEW x \in audit', x.action = "export.clean",
                      NEW f \in RequiredOn(drafts'[x.draft].flags),
                      NEW c, c = drafts'[x.draft].case,
                      NEW v, v = drafts'[x.draft].version
               PROVE  DecisionAudited(c, v, f)'
    BY DEF CleanExportAttested, DecisionAudited, RequiredOn, OnDraft
  <1> USE DEF FlagInv, NumberingInv, TypeOK
  <1>1. CASE x \in audit
    <2>1. x.draft \in Draft /\ Exists(x.draft) /\ drafts[x.draft].content
      BY <1>1 DEF AuditEntry, AuditOnRows
    <2>2. c = drafts[x.draft].case /\ v = drafts[x.draft].version /\ v \in Nat
      BY <2>1, RowsStable DEF DraftRow
    <2>3. f \in RequiredOn(drafts[x.draft].flags)
      BY <2>1, FlagsStable DEF RequiredOn
    <2>4. DecisionAudited(c, v, f)
      BY <1>1, <2>2, <2>3 DEF CleanExportAttested
    <2> QED
      BY <2>2, <2>4, DecisionStable
  <1>2. CASE x \notin audit
    <2>1. PICK s \in Session : CommitExport(s) /\ x.draft = req[s].draft
      BY <1>2, NewEntry, EntryFields
    <2>2. PICK d \in Draft : d = req[s].draft /\ Exists(d) /\ req[s].op = "export" /\ drafts' = drafts
      BY <2>1 DEF CommitExport, RequestsWellFormed
    <2>3. c = drafts[d].case /\ v = drafts[d].version /\ v \in Nat
      BY <2>1, <2>2 DEF DraftRow
    <2>4. f \in RequiredOn(drafts[d].flags)
      BY <2>1, <2>2
    <2>5. DecisionAudited(c, v, f)
      BY <2>2, <2>3, <2>4 DEF ExportsAttested
    <2> QED
      BY <2>3, <2>5, DecisionStable
  <1> QED
    BY <1>1, <1>2

\* A step keeps every recorded revision free of dropped flags (merge_flags_on_revise).
LEMMA NeverDroppedStep ==
    ASSUME FlagInv, [Next]_vars
    PROVE  FlagsNeverDropped'
  <1> SUFFICES ASSUME NEW e \in audit', e.action = "revise"
               PROVE  OnDraft(drafts'[e.from].flags) \subseteq OnDraft(drafts'[e.draft].flags)
    BY DEF FlagsNeverDropped, OnDraft
  <1> USE DEF FlagInv, NumberingInv, TypeOK
  <1>1. CASE e \in audit
    <2>1. /\ e.draft \in Draft /\ drafts[e.draft].content
          /\ e.from \in Draft /\ drafts[e.from].content
      BY <1>1 DEF AuditEntry, AuditOnRows
    <2>2. OnDraft(drafts[e.from].flags) \subseteq OnDraft(drafts[e.draft].flags)
      BY <1>1 DEF FlagsNeverDropped
    <2> QED
      BY <2>1, <2>2, FlagsStable
  <1>2. CASE e \notin audit
    <2>1. PICK s \in Session, d \in Draft, new \in SUBSET Fresh, scope \in SUBSET Paragraph :
             CommitRevise(s, d, new, scope) /\ e.draft = d /\ e.from = req[s].draft
      BY <1>2, NewEntry, EntryFields
    <2>2. PICK p \in Draft : /\ p = req[s].draft
                             /\ drafts[p].content
                             /\ OnDraft(drafts[p].flags) \subseteq OnDraft(drafts'[d].flags)
      BY <2>1, RevisionUnderWay
    <2> QED
      BY <2>1, <2>2, FlagsStable
  <1> QED
    BY <1>1, <1>2

--------------------------------------------------------------------------------
\* The invariant of the flags is inductive.
LEMMA FlagStep == FlagInv /\ [Next]_vars => FlagInv'
  BY NumberingStep, ContentStep, RequestsOnContentStep, AuditOnRowsStep, SnapshotsStep,
     ExportsStep, StatusStep, ClosedStep, CleanExportStep, NeverDroppedStep DEF FlagInv

\* The invariant of the flags holds throughout: what is closed on a draft, in a request or
\* behind a clean export was decided by an audited request (resolve_flag, apply_flag_resolution).
THEOREM FlagSafe == Spec => []FlagInv
  <1> QED
    BY InitFlag, FlagStep, PTL DEF Spec

\* The status column of a draft agrees with its flags column
\* (update_draft_flags, update_draft_content_and_flags).
THEOREM StatusMatchesFlagsSafe == Spec => []StatusMatchesFlags
  <1>1. FlagInv => StatusMatchesFlags
    BY DEF FlagInv
  <1> QED
    BY <1>1, FlagSafe, PTL

\* A closed flag was closed by a decision in the audit log (merge_flags_on_revise).
THEOREM ClosedFlagsAuditedSafe == Spec => []ClosedFlagsAudited
  <1>1. FlagInv => ClosedFlagsAudited
    BY DEF FlagInv
  <1> QED
    BY <1>1, FlagSafe, PTL

\* A clean copy needs a recorded decision about every required flag (render_clean_copy).
THEOREM CleanExportAttestedSafe == Spec => []CleanExportAttested
  <1>1. FlagInv => CleanExportAttested
    BY DEF FlagInv
  <1> QED
    BY <1>1, FlagSafe, PTL

\* Revisions never drop a flag (merge_flags_on_revise).
THEOREM FlagsNeverDroppedSafe == Spec => []FlagsNeverDropped
  <1>1. FlagInv => FlagsNeverDropped
    BY DEF FlagInv
  <1> QED
    BY <1>1, FlagSafe, PTL

================================================================================
