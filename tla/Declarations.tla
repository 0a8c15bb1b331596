------------------------------ MODULE Declarations ------------------------------
(***************************************************************************)
(* The declaration workspace: the endpoints of cases/router.py and the     *)
(* operations of declarations/service.py over the declaration_drafts       *)
(* table, run by concurrent HTTP requests and background LangGraph runs.   *)
(*                                                                         *)
(* A request is a database transaction at READ COMMITTED.  It reads a row  *)
(* once, computes on what it read, perhaps for as long as an LLM call      *)
(* takes, writes whole columns back and commits.  The model splits a       *)
(* request where other transactions can come between: the read (and the    *)
(* row lock of _lock_case) is one action, the write, its audit entry and   *)
(* the commit are another.                                                 *)
(***************************************************************************)
EXTENDS Naturals, FiniteSetsExt, DeclarationFlags

CONSTANTS Case,          \* the case files of one organisation
          Draft,         \* ids of drafts that can be created (bounds the history)
          Session,       \* sessions of users who may edit the cases
          AdminSession,  \* those of them that belong to an admin
          Paragraph,     \* paragraph ids that occur in the text of drafts
          Decision,      \* what a user may decide about a flag
          MaxDecisions,  \* how many different decisions are recorded or under way
          ProcessMayDie, \* whether the API process may die under a run
          None           \* "no draft", "no flag", "no case"

ASSUME AdminSessions == AdminSession \subseteq Session
ASSUME Decisions == Decision \subseteq {"resolved", "deferred"}
ASSUME DecisionBound == MaxDecisions \in Nat
ASSUME MayDie == ProcessMayDie \in BOOLEAN
ASSUME NoneIsNone == None \notin Case \cup Draft \cup Flag \cup Session

VARIABLES drafts,   \* the declaration_drafts table
          run,      \* the background run of each draft
          req,      \* what the request of each session has read so far
          lockedBy, \* the session whose transaction holds the case row FOR UPDATE
          deleted,  \* whether the case is soft-deleted
          audit     \* the audit entries of the declaration operations

vars == <<drafts, run, req, lockedBy, deleted, audit>>

(***************************************************************************)
(* A row of the table.  "text" holds the flags whose resolution text was   *)
(* written into the content of this version since it was composed.         *)
(***************************************************************************)
DraftStatus == {"absent", "pending", "draft_ready", "flags_unresolved", "failed"}

DraftRow == [status : DraftStatus, case : Case \cup {None}, version : Nat,
             content : BOOLEAN, flags : FlagMap, text : SUBSET Flag]

NoRow == [status |-> "absent", case |-> None, version |-> 0,
          content |-> FALSE, flags |-> Raised({}), text |-> {}]

RunState == {"none", "running", "failing", "lost"}

Operation == {"generate", "revise", "resolve", "apply", "export"}

\* A session serves one request at a time: touching the session row locks it until
\* the request's transaction ends.  flags and text are the columns the request read.
Request == [op : Operation \cup {"idle"}, case : Case \cup {None},
            draft : Draft \cup {None}, flag : Flag \cup {None},
            decision : Decision \cup {None}, version : Nat,
            flags : FlagMap, text : SUBSET Flag]

Idle == [op |-> "idle", case |-> None, draft |-> None, flag |-> None,
         decision |-> None, version |-> 0, flags |-> Raised({}), text |-> {}]

AuditEntry == [action : {"generate.start", "generate.complete", "generate.failed", "revise",
                         "flag.resolve", "flag.apply", "export.clean"},
               draft : Draft, from : Draft \cup {None},
               flag : Flag \cup {None}, decision : Decision \cup {None}]

Entry(action, d) ==
    [action |-> action, draft |-> d, from |-> None, flag |-> None, decision |-> None]

DecisionEntry(action, d, f, decision) ==
    [Entry(action, d) EXCEPT !.flag = f, !.decision = decision]

\* Mutant: the revised version is named as the entity instead of the new one.
RevisionEntryOfParent(parent, d) == [Entry("revise", parent) EXCEPT !.from = parent]

RevisionEntry(parent, d) == [Entry("revise", d) EXCEPT !.from = parent]

--------------------------------------------------------------------------------
Exists(d) == drafts[d].status # "absent"

DraftsOf(c) == {d \in Draft : Exists(d) /\ drafts[d].case = c}

\* Mutant: the next version number is one more than the number of live drafts.
NextVersionSkipsFailed(c) ==
    1 + Cardinality({d \in DraftsOf(c) : drafts[d].status # "failed"})

\* Mutant: max(version) without coalesce, NULL for the first draft of a case.
NextVersionOrNull(c) ==
    IF DraftsOf(c) = {} THEN None ELSE 1 + Max({drafts[d].version : d \in DraftsOf(c)})

\* coalesce(max(version), 0) + 1 over the drafts of the case.
NextVersion(c) == 1 + Max({0} \cup {drafts[d].version : d \in DraftsOf(c)})

\* A flag of uuid4() identity that no draft has yet.
Fresh == {f \in Flag : \A d \in Draft : drafts[d].flags[f] = "none"}

\* The paragraph of the flag is in the text; that of a gap the graph found is not.
Anchored(f) == ParagraphOf[f] \in Paragraph

\* validate_declaration_output: an inference must point into the text.
Valid(flags) == \A f \in OnDraft(flags) : TypeOf[f] = "INFERENCE" => Anchored(f)

\* _can_get_case and _can_edit_case: only an admin reaches a deleted case.
MayEdit(s, c) == s \in AdminSession \/ ~deleted[c]

Arrives(s, c) == req[s].op = "idle" /\ MayEdit(s, c)

Creating(s) == req[s].op \in {"generate", "revise"}

\* There is a draft id left for one more creating request (the bound on the history).
Room == Cardinality({s \in Session : Creating(s)})
            < Cardinality({d \in Draft : ~Exists(d)})

Answer(s) == req' = [req EXCEPT ![s] = Idle]

Record(entry) == audit' = audit \cup {entry}

--------------------------------------------------------------------------------
(***************************************************************************)
(* Creating a version: POST .../declarations and POST .../revise.  Both    *)
(* lock the case row before they number the version and hold it until they *)
(* commit; a revision holds it through its LLM call.                       *)
(***************************************************************************)
RequestGenerate(s, c) ==
    /\ Arrives(s, c)
    /\ Room
    /\ req' = [req EXCEPT ![s] = [Idle EXCEPT !.op = "generate", !.case = c]]
    /\ UNCHANGED <<drafts, run, lockedBy, deleted, audit>>

\* The parent is read, flags included, before the case is locked.
RequestRevise(s, c, parent) ==
    /\ Arrives(s, c)
    /\ Room
    /\ drafts[parent].content
    /\ drafts[parent].case = c
    /\ req' = [req EXCEPT ![s] = [Idle EXCEPT !.op = "revise", !.case = c, !.draft = parent,
                                              !.flags = drafts[parent].flags]]
    /\ UNCHANGED <<drafts, run, lockedBy, deleted, audit>>

Waiting(s) == Creating(s) /\ lockedBy[req[s].case] # s

Holding(s) == Creating(s) /\ lockedBy[req[s].case] = s

\* Mutant: the deletion check is left to the permission check at the start.
LockDeletedCaseToo(s) ==
    /\ Waiting(s)
    /\ lockedBy[req[s].case] = None
    /\ lockedBy' = [lockedBy EXCEPT ![req[s].case] = s]
    /\ req' = [req EXCEPT ![s].version = NextVersion(req[s].case)]
    /\ UNCHANGED <<drafts, run, deleted, audit>>

\* SELECT ... WHERE deleted_at IS NULL FOR UPDATE, and the number of the new version.
LockCase(s) ==
    /\ Waiting(s)
    /\ lockedBy[req[s].case] = None
    /\ ~deleted[req[s].case]
    /\ lockedBy' = [lockedBy EXCEPT ![req[s].case] = s]
    /\ req' = [req EXCEPT ![s].version = NextVersion(req[s].case)]
    /\ UNCHANGED <<drafts, run, deleted, audit>>

\* The case was deleted: the statement returns no row and the request ends in a 404.
LockMissing(s) ==
    /\ Waiting(s)
    /\ lockedBy[req[s].case] = None
    /\ deleted[req[s].case]
    /\ Answer(s)
    /\ UNCHANGED <<drafts, run, lockedBy, deleted, audit>>

Release(s) == lockedBy' = [c \in Case |-> IF lockedBy[c] = s THEN None ELSE lockedBy[c]]

\* The pending row is committed and its run is scheduled.
CommitGenerate(s, d) ==
    /\ Holding(s)
    /\ req[s].op = "generate"
    /\ ~Exists(d)
    /\ drafts' = [drafts EXCEPT ![d] = [NoRow EXCEPT !.status = "pending", !.case = req[s].case,
                                                     !.version = req[s].version]]
    /\ run' = [run EXCEPT ![d] = "running"]
    /\ Release(s)
    /\ Answer(s)
    /\ Record(Entry("generate.start", d))
    /\ UNCHANGED deleted

\* The LLM returned the revised text and the flags it raises anew.
CommitRevise(s, d, new, scope) ==
    LET flags == MergeFlagsOnRevise(req[s].flags, new, scope)
    IN  /\ Holding(s)
        /\ req[s].op = "revise"
        /\ ~Exists(d)
        /\ Valid(flags)
        /\ drafts' = [drafts EXCEPT ![d] = [status |-> StatusAfterFlags(flags),
                                            case |-> req[s].case, version |-> req[s].version,
                                            content |-> TRUE, flags |-> flags, text |-> {}]]
        /\ Release(s)
        /\ Answer(s)
        /\ Record(RevisionEntry(req[s].draft, d))
        /\ UNCHANGED <<run, deleted>>

--------------------------------------------------------------------------------
(***************************************************************************)
(* Deciding about a flag: PATCH .../flags/{flag_id} and POST .../apply.    *)
(* The path's case is what permission is checked on; the draft is looked   *)
(* up by its id alone.                                                     *)
(***************************************************************************)
DecisionsLeft ==
    Cardinality({e \in audit : e.action \in {"flag.resolve", "flag.apply"}})
        + Cardinality({s \in Session : req[s].op \in {"resolve", "apply"}}) < MaxDecisions

RequestResolve(s, c, d, f, decision) ==
    /\ Arrives(s, c)
    /\ DecisionsLeft
    /\ f \in OnDraft(drafts[d].flags)
    /\ req' = [req EXCEPT ![s] = [Idle EXCEPT !.op = "resolve", !.case = c, !.draft = d,
                                              !.flag = f, !.decision = decision,
                                              !.flags = drafts[d].flags]]
    /\ UNCHANGED <<drafts, run, lockedBy, deleted, audit>>

\* apply_resolution_to_draft returns the draft as it is for a flag that was deferred.
WritesText(request) ==
    request.decision = "resolved" /\ request.flags[request.flag] # "deferred"

RequestApply(s, c, d, f, decision) ==
    LET request == [Idle EXCEPT !.op = "apply", !.case = c, !.draft = d, !.flag = f,
                                !.decision = decision, !.flags = drafts[d].flags,
                                !.text = drafts[d].text]
    IN  /\ Arrives(s, c)
        /\ DecisionsLeft
        /\ drafts[d].content
        /\ f \in OnDraft(drafts[d].flags)
        /\ WritesText(request) => Anchored(f)
        /\ req' = [req EXCEPT ![s] = request]
        /\ UNCHANGED <<drafts, run, lockedBy, deleted, audit>>

Decided(request) == [request.flags EXCEPT ![request.flag] = request.decision]

\* Mutant: the status column is left as it was.
CommitResolveKeepsStatus(s) ==
    /\ req[s].op = "resolve"
    /\ drafts' = [drafts EXCEPT ![req[s].draft].flags = Decided(req[s])]
    /\ Record(DecisionEntry("flag.resolve", req[s].draft, req[s].flag, req[s].decision))
    /\ Answer(s)
    /\ UNCHANGED <<run, lockedBy, deleted>>

\* Mutant: the decision is not audited.
CommitResolveUnaudited(s) ==
    /\ req[s].op = "resolve"
    /\ drafts' = [drafts EXCEPT ![req[s].draft].flags = Decided(req[s]),
                                ![req[s].draft].status = StatusAfterFlags(Decided(req[s]))]
    /\ Answer(s)
    /\ UNCHANGED <<run, lockedBy, deleted, audit>>

\* The flags and status columns are overwritten with what follows from the flags read.
CommitResolve(s) ==
    /\ req[s].op = "resolve"
    /\ drafts' = [drafts EXCEPT ![req[s].draft].flags = Decided(req[s]),
                                ![req[s].draft].status = StatusAfterFlags(Decided(req[s]))]
    /\ Record(DecisionEntry("flag.resolve", req[s].draft, req[s].flag, req[s].decision))
    /\ Answer(s)
    /\ UNCHANGED <<run, lockedBy, deleted>>

\* The draft column too is overwritten with what follows from the one read.
CommitApply(s) ==
    /\ req[s].op = "apply"
    /\ drafts' = [drafts EXCEPT ![req[s].draft].flags = Decided(req[s]),
                                ![req[s].draft].status = StatusAfterFlags(Decided(req[s])),
                                ![req[s].draft].text =
                                    req[s].text \cup IF WritesText(req[s]) THEN {req[s].flag}
                                                                           ELSE {}]
    /\ Record(DecisionEntry("flag.apply", req[s].draft, req[s].flag, req[s].decision))
    /\ Answer(s)
    /\ UNCHANGED <<run, lockedBy, deleted>>

--------------------------------------------------------------------------------
(***************************************************************************)
(* GET .../export.docx?mode=clean.  The working copy only reads.           *)
(***************************************************************************)
RequestCleanExport(s, c, d) ==
    /\ Arrives(s, c)
    /\ drafts[d].content
    /\ drafts[d].case = c
    /\ UnresolvedRequired(drafts[d].flags) = {}
    /\ req' = [req EXCEPT ![s] = [Idle EXCEPT !.op = "export", !.case = c, !.draft = d]]
    /\ UNCHANGED <<drafts, run, lockedBy, deleted, audit>>

CommitExport(s) ==
    /\ req[s].op = "export"
    /\ Record(Entry("export.clean", req[s].draft))
    /\ Answer(s)
    /\ UNCHANGED <<drafts, run, lockedBy, deleted>>

\* Mutant: an error path returns the connection with its transaction still open.
AbortKeepsLock(s) ==
    /\ req[s].op # "idle"
    /\ Answer(s)
    /\ UNCHANGED <<drafts, run, lockedBy, deleted, audit>>

\* An LLM error, a failed validation, a lost client or connection: the transaction is
\* rolled back.
Abort(s) ==
    /\ req[s].op # "idle"
    /\ Release(s)
    /\ Answer(s)
    /\ UNCHANGED <<drafts, run, deleted, audit>>

--------------------------------------------------------------------------------
(***************************************************************************)
(* The background run of a generated draft, _run_graph_background.  Its    *)
(* "generating" status is overwritten before the one commit it makes, so   *)
(* no other transaction sees it.                                           *)
(***************************************************************************)

\* Mutant: a finished run does not record what it produced.
RunCompleteKeepsPending(d, new, acked) ==
    /\ run[d] = "running"
    /\ Valid(Raised(new))
    /\ drafts' = [drafts EXCEPT ![d].content = TRUE, ![d].flags = Raised(new), ![d].text = {}]
    /\ Record(Entry("generate.complete", d))
    /\ run' = [run EXCEPT ![d] = IF acked THEN "none" ELSE "failing"]
    /\ UNCHANGED <<req, lockedBy, deleted>>

\* The draft, its flags and the audit entry are committed.  If the acknowledgement of
\* the commit is lost the run goes on to its except clause.
RunComplete(d, new, acked) ==
    /\ run[d] = "running"
    /\ Valid(Raised(new))
    /\ drafts' = [drafts EXCEPT ![d].status = StatusAfterFlags(Raised(new)),
                                ![d].content = TRUE, ![d].flags = Raised(new), ![d].text = {}]
    /\ Record(Entry("generate.complete", d))
    /\ run' = [run EXCEPT ![d] = IF acked THEN "none" ELSE "failing"]
    /\ UNCHANGED <<req, lockedBy, deleted>>

\* A node, the validation or the database fails: the session is rolled back.
RunError(d) ==
    /\ run[d] = "running"
    /\ run' = [run EXCEPT ![d] = "failing"]
    /\ UNCHANGED <<drafts, req, lockedBy, deleted, audit>>

\* update_draft_failed, in a session of its own, whatever the row says by now.
RecordFailure(d) ==
    /\ run[d] = "failing"
    /\ drafts' = [drafts EXCEPT ![d].status = "failed"]
    /\ Record(Entry("generate.failed", d))
    /\ run' = [run EXCEPT ![d] = "none"]
    /\ UNCHANGED <<req, lockedBy, deleted>>

\* The process is killed, or the failure cannot be recorded either.
RunDies(d) ==
    /\ ProcessMayDie
    /\ run[d] \in {"running", "failing"}
    /\ run' = [run EXCEPT ![d] = "lost"]
    /\ UNCHANGED <<drafts, req, lockedBy, deleted, audit>>

--------------------------------------------------------------------------------
\* Soft deletion and restoration, by an admin only; both update the case row, so they
\* wait for its lock.
DeleteCase(s, c) ==
    /\ req[s].op = "idle"
    /\ lockedBy[c] = None
    /\ deleted' = [deleted EXCEPT ![c] = TRUE]
    /\ UNCHANGED <<drafts, run, req, lockedBy, audit>>

RestoreCase(s, c) ==
    /\ req[s].op = "idle"
    /\ lockedBy[c] = None
    /\ deleted' = [deleted EXCEPT ![c] = FALSE]
    /\ UNCHANGED <<drafts, run, req, lockedBy, audit>>

Init == /\ drafts = [d \in Draft |-> NoRow]
        /\ run = [d \in Draft |-> "none"]
        /\ req = [s \in Session |-> Idle]
        /\ lockedBy = [c \in Case |-> None]
        /\ deleted = [c \in Case |-> FALSE]
        /\ audit = {}

CommitCreation(s) ==
    \E d \in Draft : \/ CommitGenerate(s, d)
                     \/ \E new \in SUBSET Fresh, scope \in SUBSET Paragraph :
                            CommitRevise(s, d, new, scope)

RequestStep(s) ==
    \/ \E c \in Case : \/ RequestGenerate(s, c)
                       \/ \E d \in Draft : \/ RequestRevise(s, c, d)
                                           \/ RequestCleanExport(s, c, d)
                                           \/ \E f \in Flag, decision \in Decision :
                                                 \/ RequestResolve(s, c, d, f, decision)
                                                 \/ RequestApply(s, c, d, f, decision)
    \/ LockCase(s)
    \/ LockMissing(s)
    \/ CommitCreation(s)
    \/ CommitResolve(s)
    \/ CommitApply(s)
    \/ CommitExport(s)
    \/ Abort(s)

RunStep(d) ==
    \/ \E new \in SUBSET Fresh, acked \in BOOLEAN : RunComplete(d, new, acked)
    \/ RunError(d)
    \/ RecordFailure(d)
    \/ RunDies(d)

Next == \/ \E s \in Session : RequestStep(s)
        \/ \E d \in Draft : RunStep(d)
        \/ \E s \in AdminSession, c \in Case : DeleteCase(s, c) \/ RestoreCase(s, c)

Spec == Init /\ [][Next]_vars

(***************************************************************************)
(* Fairness.  A request that is not waiting for a lock ends: its handler   *)
(* returns or raises.  PostgreSQL queues lock waiters, so one that finds   *)
(* the lock free again and again gets it.  A run goes on to its commit or  *)
(* to its except clause, and from there to the end.                        *)
(***************************************************************************)
End(s) == \/ CommitCreation(s)
          \/ CommitResolve(s)
          \/ CommitApply(s)
          \/ CommitExport(s)
          \/ ~Waiting(s) /\ Abort(s)

Fairness ==
    /\ \A s \in Session : WF_vars(End(s)) /\ SF_vars(LockCase(s) \/ LockMissing(s))
    /\ \A d \in Draft : WF_vars(RunStep(d))

FairSpec == Spec /\ Fairness

--------------------------------------------------------------------------------
(***************************************************************************)
(* Properties                                                              *)
(***************************************************************************)

\* Every variable has its type (the columns of the table and the request's locals).
TypeOK == /\ drafts \in [Draft -> DraftRow]
          /\ run \in [Draft -> RunState]
          /\ req \in [Session -> Request]
          /\ lockedBy \in [Case -> Session \cup {None}]
          /\ deleted \in [Case -> BOOLEAN]
          /\ audit \subseteq AuditEntry

\* Two drafts of one case never get the same version number, however the creating
\* requests interleave (create_draft_with_artifact).
VersionsUnique ==
    \A c \in Case : \A d, e \in DraftsOf(c) :
        drafts[d].version = drafts[e].version => d = e

\* The status column never contradicts the flags column: a draft that did not fail is
\* draft_ready exactly if no required flag is open, although the two are written from
\* stale reads (update_draft_flags, update_draft_content_and_flags).
StatusMatchesFlags ==
    \A d \in Draft : drafts[d].content /\ drafts[d].status # "failed"
                        => drafts[d].status = StatusAfterFlags(drafts[d].flags)

\* By the time of version v of case c, a decision about f is in the audit log; with that
\* very outcome.
DecisionAudited(c, v, f) ==
    \E e \in audit : /\ e.action \in {"flag.resolve", "flag.apply"}
                     /\ e.flag = f
                     /\ drafts[e.draft].case = c
                     /\ drafts[e.draft].version <= v

OutcomeAudited(c, v, f, outcome) ==
    \E e \in audit : /\ e.action \in {"flag.resolve", "flag.apply"}
                     /\ e.flag = f
                     /\ e.decision = outcome
                     /\ drafts[e.draft].case = c
                     /\ drafts[e.draft].version <= v

Closed(flags) == {f \in OnDraft(flags) : flags[f] # "open"}

\* A flag that is closed on a draft was closed by somebody: the audit log holds that
\* decision, on this version or an earlier one of the case (merge_flags_on_revise, the
\* generation's and the revision's output never close a flag).
ClosedFlagsAudited ==
    \A d \in Draft : \A f \in Closed(drafts[d].flags) :
        OutcomeAudited(drafts[d].case, drafts[d].version, f, drafts[d].flags[f])

\* A clean copy left the system only after a decision was recorded about every flag
\* of its draft that a clean export requires (render_clean_copy).
CleanExportAttested ==
    \A x \in audit : x.action = "export.clean" =>
        \A f \in RequiredOn(drafts[x.draft].flags) :
            DecisionAudited(drafts[x.draft].case, drafts[x.draft].version, f)

\* A revision carries every flag of the version it revises, even those of the region
\* it rewrites, and no later request drops a flag from either (merge_flags_on_revise).
FlagsNeverDropped ==
    \A e \in audit : e.action = "revise" =>
        OnDraft(drafts[e.from].flags) \subseteq OnDraft(drafts[e.draft].flags)

\* What the audit log says of a draft and what its row says agree: a row exists only
\* with the entry of the operation that created it, has content only with the entry of
\* the operation that wrote it, and is failed only with the entry of the failure.
RowsAudited ==
    \A d \in Draft :
        LET logged(actions) == \E e \in audit : e.draft = d /\ e.action \in actions
        IN  /\ Exists(d) <=> logged({"generate.start", "revise"})
            /\ drafts[d].content <=> logged({"generate.complete", "revise"})
            /\ drafts[d].status = "failed" => logged({"generate.failed"})

\* No version is added to a case that is soft-deleted when it is committed, although
\* permission was checked long before (the deleted_at condition of _lock_case).
NoDraftOnDeletedCase ==
    [][\A d \in Draft : ~Exists(d) /\ Exists(d)' => ~deleted'[drafts'[d].case]]_vars

\* The drafts implement the abstract history of numbered artifacts.
History == INSTANCE VersionHistory WITH
               Artifact <- Draft,
               owner <- [d \in Draft |-> drafts[d].case],
               version <- [d \in Draft |-> drafts[d].version],
               pending <- {d \in Draft : drafts[d].status = "pending"}

VersionHistory == History!Spec

\* A pending draft is completed or marked failed (_run_graph_background ends in one of its
\* commits), unless its own run is lost: the process died under it, or its failure could not
\* be recorded either.
DraftsSettle ==
    \A d \in Draft :
        drafts[d].status = "pending" ~> drafts[d].status # "pending" \/ run[d] = "lost"

\* Every request is answered, those that queue for the case lock too.
RequestsAnswered == \A s \in Session : req[s].op # "idle" ~> req[s].op = "idle"

--------------------------------------------------------------------------------
\* What DATA_FLOW.md says of the two flag endpoints: after one of them, the flag is
\* resolved or deferred.
DecisionsStick ==
    \A e \in audit : e.action \in {"flag.resolve", "flag.apply"} =>
        drafts[e.draft].flags[e.flag] # "open"

\* ... and POST .../apply applies the resolution text to the flagged span.
ApplyWritesText ==
    [][\A e \in audit' \ audit :
          e.action = "flag.apply" /\ e.decision = "resolved"
              => e.flag \in drafts'[e.draft].text]_vars

--------------------------------------------------------------------------------
(***************************************************************************)
(* The inductive invariant behind the safety properties: how the table,    *)
(* the runs, the requests and the locks fit together between two steps.    *)
(***************************************************************************)
Versions(c) == {drafts[d].version : d \in DraftsOf(c)}

\* The drafts of a case are numbered 1, 2, ... without a gap.
VersionsDense ==
    \A c \in Case : /\ NextVersion(c) \in Nat \ {0}
                    /\ Versions(c) = 1 .. (NextVersion(c) - 1)

\* A row that does not exist is blank; one that does belongs to a case.
RowsWellFormed ==
    \A d \in Draft : /\ ~Exists(d) => drafts[d] = NoRow /\ run[d] = "none"
                     /\ Exists(d) => drafts[d].case \in Case

\* A request works on a row that exists, a creating one on a case, and a revision on a
\* parent of that case.
RequestsWellFormed ==
    \A s \in Session :
        /\ Creating(s) => req[s].case \in Case
        /\ req[s].op \in {"revise", "resolve", "apply", "export"}
               => req[s].draft \in Draft /\ Exists(req[s].draft)
        /\ req[s].op = "revise" => drafts[req[s].draft].case = req[s].case
        /\ req[s].op \in {"resolve", "apply"}
               => req[s].flag \in Flag /\ req[s].decision \in Decision

\* Only a creating request of the case holds its lock.
LockHeld ==
    \A c \in Case, s \in Session : lockedBy[c] = s => Creating(s) /\ req[s].case = c

\* The holder of the lock numbered its version right after the last one, and no version
\* was added since.
HolderNumbers ==
    \A s \in Session : Holding(s) => req[s].version = NextVersion(req[s].case)

\* A case whose row is locked is not deleted.
LockedNotDeleted == \A s \in Session : Holding(s) => ~deleted[req[s].case]

NumberingInv == /\ TypeOK
                /\ RowsWellFormed
                /\ RequestsWellFormed
                /\ LockHeld
                /\ VersionsDense
                /\ HolderNumbers
                /\ LockedNotDeleted
                /\ VersionsUnique

\* A running generation has no content yet, and a draft without content no flags.
ContentSettled ==
    \A d \in Draft : /\ run[d] = "running" => ~drafts[d].content
                     /\ ~drafts[d].content => OnDraft(drafts[d].flags) = {}

\* A request about a draft with content has read the flags that the draft still has; it
\* is their statuses that may be out of date.
RequestsOnContent ==
    \A s \in Session :
        /\ req[s].op \in {"revise", "resolve", "apply", "export"} => drafts[req[s].draft].content
        /\ req[s].op \in {"revise", "resolve", "apply"}
               => OnDraft(req[s].flags) = OnDraft(drafts[req[s].draft].flags)
        /\ req[s].op \in {"resolve", "apply"} => req[s].flag \in OnDraft(req[s].flags)

\* The audit log speaks of drafts that exist, and of exports and revisions of drafts with
\* content.
AuditOnRows ==
    \A e \in audit : /\ Exists(e.draft)
                     /\ e.action \in {"revise", "export.clean"} => drafts[e.draft].content
                     /\ e.action = "revise" => e.from \in Draft /\ drafts[e.from].content

\* What a request read as closed was closed by an audited decision.
SnapshotsAudited ==
    \A s \in Session : req[s].op \in {"revise", "resolve", "apply"} =>
        \A f \in Closed(req[s].flags) :
            OutcomeAudited(drafts[req[s].draft].case, drafts[req[s].draft].version, f,
                           req[s].flags[f])

\* A clean export under way found every required flag closed.
ExportsAttested ==
    \A s \in Session : req[s].op = "export" =>
        \A f \in RequiredOn(drafts[req[s].draft].flags) :
            DecisionAudited(drafts[req[s].draft].case, drafts[req[s].draft].version, f)

FlagInv == /\ NumberingInv
           /\ ContentSettled
           /\ RequestsOnContent
           /\ AuditOnRows
           /\ SnapshotsAudited
           /\ ExportsAttested
           /\ StatusMatchesFlags
           /\ ClosedFlagsAudited
           /\ CleanExportAttested
           /\ FlagsNeverDropped

================================================================================
