--------------------------- MODULE CountryConditions ---------------------------
(***************************************************************************)
(* Country conditions memos: the endpoints of cases/router.py that request *)
(* and export a memo, and country_conditions/service.py with the LangGraph *)
(* run that writes it.                                                     *)
(*                                                                         *)
(* A run goes through the nodes plan, retrieve, draft, verify, synthesize  *)
(* in one database transaction, which it commits at the very end; LangGraph*)
(* saves its state after each node over a connection of its own.  The text *)
(* of a section is abstracted to the passages it cites.                    *)
(***************************************************************************)
EXTENDS FiniteSetsExt, MemoCitations

CONSTANTS Case,          \* the case files of one organisation
          Memo,          \* ids of memos that can be created (bounds the history)
          Session,       \* sessions of users who may edit the cases
          AdminSession,  \* those of them that belong to an admin
          Sections,      \* how many sections a memo has
          Library,       \* the passages a search for each section may return
          MaxCites,      \* how often a section of the final memo cites
          ProcessMayDie, \* whether the API process may die under a run
          None           \* "no case", "no memo", "no session"

ASSUME AdminSessions == AdminSession \subseteq Session
ASSUME SectionCount == Sections \in Nat
ASSUME Libraries == Library \in [1 .. Sections -> SUBSET Passage]
ASSUME CiteBound == MaxCites \in Nat
ASSUME MayDie == ProcessMayDie \in BOOLEAN
ASSUME NoneIsNone == None \notin Case \cup Memo \cup Session

VARIABLES memos,      \* the country_conditions_memos table
          run,        \* the background run of each memo: its transaction and its state
          checkpoint, \* how many nodes' states LangGraph has saved for each memo
          req,        \* what the request of each session is doing
          lockedBy,   \* the session whose transaction holds the case row FOR UPDATE
          deleted,    \* whether the case is soft-deleted
          audit       \* the committed audit entries of the memo operations

vars == <<memos, run, checkpoint, req, lockedBy, deleted, audit>>

CC_SECTION_IDS == 1 .. Sections

\* What the texts of the sections cite, in order.
Bodies == [CC_SECTION_IDS -> BoundedSeq(Passage, MaxCites)]

FinalMemo(bodies) == [sections |-> bodies, bibliography |-> Bibliography(bodies)]

Output == {FinalMemo(bodies) : bodies \in Bodies}

NoOutput == FinalMemo([s \in CC_SECTION_IDS |-> <<>>])

\* "generating" is overwritten before the one commit of the run: nobody else sees it.
MemoStatus == {"absent", "pending", "complete", "failed"}

MemoRow == [status : MemoStatus, case : Case \cup {None}, version : Nat, output : Output]

NoRow == [status |-> "absent", case |-> None, version |-> 0, output |-> NoOutput]

Node == <<"plan", "retrieve", "draft", "verify", "synthesize">>

\* The audit entry of a node is country_conditions.<node>.complete.
StageEntries == {"plan", "retrieve", "draft", "verify", "synthesize"}

\* at is the number of nodes that have finished; retrieved, cites (of the latest section
\* texts) and final are the state of the graph as far as it is still used; log the audit
\* entries not yet committed.  retrieved stays after the run to say what the memo rests on.
Run == [phase : {"none", "running", "failing", "lost"}, at : 0 .. Len(Node),
        retrieved : [CC_SECTION_IDS -> SUBSET Passage],
        cites : [CC_SECTION_IDS -> SUBSET Passage],
        final : Output, log : SUBSET StageEntries]

NoCites == [s \in CC_SECTION_IDS |-> {}]

NoRun == [phase |-> "none", at |-> 0, retrieved |-> NoCites, cites |-> NoCites,
          final |-> NoOutput, log |-> {}]

Request == [op : {"idle", "generate", "export"}, case : Case \cup {None},
            memo : Memo \cup {None}, version : Nat]

Idle == [op |-> "idle", case |-> None, memo |-> None, version |-> 0]

AuditEntry == [action : {"generate.start", "generate.complete", "generate.failed", "export"}
                           \cup StageEntries,
               memo : Memo]

Entries(actions, m) == {[action |-> a, memo |-> m] : a \in actions}

--------------------------------------------------------------------------------
Exists(m) == memos[m].status # "absent"

MemosOf(c) == {m \in Memo : Exists(m) /\ memos[m].case = c}

\* Mutant: max(version) without coalesce, NULL for the first memo of a case.
NextVersionOrNull(c) ==
    IF MemosOf(c) = {} THEN None ELSE 1 + Max({memos[m].version : m \in MemosOf(c)})

\* Mutant: a failed memo's number is used again.
NextVersionSkipsFailed(c) ==
    1 + Max({0} \cup {memos[m].version : m \in {n \in MemosOf(c) : memos[n].status # "failed"}})

\* coalesce(max(version), 0) + 1 over the memos of the case.
NextVersion(c) == 1 + Max({0} \cup {memos[m].version : m \in MemosOf(c)})

\* _can_get_case and _can_edit_case: only an admin reaches a deleted case.
MayEdit(s, c) == s \in AdminSession \/ ~deleted[c]

Arrives(s, c) == req[s].op = "idle" /\ MayEdit(s, c)

\* There is a memo id left for one more request (the bound on the history).
Room == Cardinality({s \in Session : req[s].op = "generate"})
            < Cardinality({m \in Memo : ~Exists(m)})

Answer(s) == req' = [req EXCEPT ![s] = Idle]

Record(actions, m) == audit' = audit \cup Entries(actions, m)

--------------------------------------------------------------------------------
(***************************************************************************)
(* POST .../country-conditions.  The case row is locked only until the     *)
(* pending memo is committed.                                              *)
(***************************************************************************)
RequestMemo(s, c) ==
    /\ Arrives(s, c)
    /\ Room
    /\ req' = [req EXCEPT ![s] = [Idle EXCEPT !.op = "generate", !.case = c]]
    /\ UNCHANGED <<memos, run, checkpoint, lockedBy, deleted, audit>>

Waiting(s) == req[s].op = "generate" /\ lockedBy[req[s].case] # s

Holding(s) == req[s].op = "generate" /\ lockedBy[req[s].case] = s

\* Mutant: the deletion check is left to the permission check at the start.
LockDeletedCaseToo(s) ==
    /\ Waiting(s)
    /\ lockedBy[req[s].case] = None
    /\ lockedBy' = [lockedBy EXCEPT ![req[s].case] = s]
    /\ req' = [req EXCEPT ![s].version = NextVersion(req[s].case)]
    /\ UNCHANGED <<memos, run, checkpoint, deleted, audit>>

\* SELECT ... WHERE deleted_at IS NULL FOR UPDATE, and the number of the new version.
LockCase(s) ==
    /\ Waiting(s)
    /\ lockedBy[req[s].case] = None
    /\ ~deleted[req[s].case]
    /\ lockedBy' = [lockedBy EXCEPT ![req[s].case] = s]
    /\ req' = [req EXCEPT ![s].version = NextVersion(req[s].case)]
    /\ UNCHANGED <<memos, run, checkpoint, deleted, audit>>

\* The case was deleted meanwhile: the statement returns no row and the request fails.
LockMissing(s) ==
    /\ Waiting(s)
    /\ lockedBy[req[s].case] = None
    /\ deleted[req[s].case]
    /\ Answer(s)
    /\ UNCHANGED <<memos, run, checkpoint, lockedBy, deleted, audit>>

Release(s) == lockedBy' = [c \in Case |-> IF lockedBy[c] = s THEN None ELSE lockedBy[c]]

\* The pending row is committed and its run is scheduled.
CommitMemo(s, m) ==
    /\ Holding(s)
    /\ ~Exists(m)
    /\ memos' = [memos EXCEPT ![m] = [NoRow EXCEPT !.status = "pending", !.case = req[s].case,
                                                   !.version = req[s].version]]
    /\ run' = [run EXCEPT ![m].phase = "running"]
    /\ Release(s)
    /\ Answer(s)
    /\ Record({"generate.start"}, m)
    /\ UNCHANGED <<checkpoint, deleted>>

(***************************************************************************)
(* GET .../export.docx: the memo must be complete when it is read.         *)
(***************************************************************************)
RequestExport(s, c, m) ==
    /\ Arrives(s, c)
    /\ memos[m].case = c
    /\ memos[m].status = "complete"
    /\ req' = [req EXCEPT ![s] = [Idle EXCEPT !.op = "export", !.case = c, !.memo = m]]
    /\ UNCHANGED <<memos, run, checkpoint, lockedBy, deleted, audit>>

CommitExport(s) ==
    /\ req[s].op = "export"
    /\ Record({"export"}, req[s].memo)
    /\ Answer(s)
    /\ UNCHANGED <<memos, run, checkpoint, lockedBy, deleted>>

\* An error, a lost client or connection: the transaction is rolled back.
Abort(s) ==
    /\ req[s].op # "idle"
    /\ Release(s)
    /\ Answer(s)
    /\ UNCHANGED <<memos, run, checkpoint, deleted, audit>>

--------------------------------------------------------------------------------
(***************************************************************************)
(* The run.  A node that returns hands its result and its audit entry to   *)
(* the state, and LangGraph saves the state.                               *)
(***************************************************************************)
AtNode(m, node) == /\ run[m].phase = "running"
                   /\ run[m].at < Len(Node)
                   /\ Node[run[m].at + 1] = node

Finish(m, node, result) ==
    /\ AtNode(m, node)
    /\ run' = [run EXCEPT ![m] = [result EXCEPT !.at = @ + 1, !.log = @ \cup {node}]]
    /\ checkpoint' = [checkpoint EXCEPT ![m] = run[m].at + 1]
    /\ UNCHANGED <<memos, req, lockedBy, deleted, audit>>

Plan(m) == Finish(m, "plan", run[m])

\* One search per section.
Retrieve(m, found) ==
    /\ AtNode(m, "retrieve")
    /\ \A s \in CC_SECTION_IDS : found[s] \subseteq Library[s]
    /\ Finish(m, "retrieve", [run[m] EXCEPT !.retrieved = found])

\* assert_citations_subset: a section cites only what was retrieved for it.
CitesRetrieved(m, cites) == \A s \in CC_SECTION_IDS : cites[s] \subseteq run[m].retrieved[s]

Draft(m, cites) ==
    /\ AtNode(m, "draft")
    /\ CitesRetrieved(m, cites)
    /\ Finish(m, "draft", [run[m] EXCEPT !.cites = cites])

Verify(m, cites) ==
    /\ AtNode(m, "verify")
    /\ CitesRetrieved(m, cites)
    /\ Finish(m, "verify", [run[m] EXCEPT !.cites = cites])

\* _flatten_passage_meta: the passages with metadata, of all the sections.
PassageMeta(m) == UNION {run[m].retrieved[s] : s \in CC_SECTION_IDS}

\* Mutant: an unknown passage is left to the reader.
SynthesizeUnchecked(m, bodies) ==
    Finish(m, "synthesize",
           [run[m] EXCEPT !.cites = NoCites, !.final = FinalMemo(bodies)])

\* The LLM writes every section anew; build_bibliography rejects a passage of no section.
Synthesize(m, bodies) ==
    /\ AtNode(m, "synthesize")
    /\ Cited(bodies) \subseteq PassageMeta(m)
    /\ Finish(m, "synthesize",
              [run[m] EXCEPT !.cites = NoCites, !.final = FinalMemo(bodies)])

\* Mutant: the entries of the nodes are lost with the graph's own state.
SaveWithoutStages(m, acked) ==
    /\ run[m].phase = "running"
    /\ run[m].at = Len(Node)
    /\ memos' = [memos EXCEPT ![m].status = "complete", ![m].output = run[m].final]
    /\ Record({"generate.complete"}, m)
    /\ run' = [run EXCEPT ![m] = [NoRun EXCEPT !.phase = IF acked THEN "none" ELSE "failing",
                                               !.retrieved = run[m].retrieved]]
    /\ UNCHANGED <<checkpoint, req, lockedBy, deleted>>

\* The memo and the audit entries of the whole run are committed.  If the acknowledgement
\* of the commit is lost the run goes on to its except clause.
Save(m, acked) ==
    /\ run[m].phase = "running"
    /\ run[m].at = Len(Node)
    /\ memos' = [memos EXCEPT ![m].status = "complete", ![m].output = run[m].final]
    /\ Record(run[m].log \cup {"generate.complete"}, m)
    /\ run' = [run EXCEPT ![m] = [NoRun EXCEPT !.phase = IF acked THEN "none" ELSE "failing",
                                               !.retrieved = run[m].retrieved]]
    /\ UNCHANGED <<checkpoint, req, lockedBy, deleted>>

\* A node or the database fails, or the task is cancelled: the session is rolled back.
RunError(m) ==
    /\ run[m].phase = "running"
    /\ run' = [run EXCEPT ![m] = [NoRun EXCEPT !.phase = "failing"]]
    /\ UNCHANGED <<memos, checkpoint, req, lockedBy, deleted, audit>>

\* Mutant: the failure is logged and not recorded.
LogFailureOnly(m) ==
    /\ run[m].phase = "failing"
    /\ run' = [run EXCEPT ![m].phase = "none"]
    /\ UNCHANGED <<memos, checkpoint, req, lockedBy, deleted, audit>>

\* update_memo_failed, in a session of its own, whatever the row says by now.
RecordFailure(m) ==
    /\ run[m].phase = "failing"
    /\ memos' = [memos EXCEPT ![m].status = "failed"]
    /\ Record({"generate.failed"}, m)
    /\ run' = [run EXCEPT ![m].phase = "none"]
    /\ UNCHANGED <<checkpoint, req, lockedBy, deleted>>

\* The process is killed, or the failure cannot be recorded either.
RunDies(m) ==
    /\ ProcessMayDie
    /\ run[m].phase \in {"running", "failing"}
    /\ run' = [run EXCEPT ![m] = [NoRun EXCEPT !.phase = "lost", !.retrieved = run[m].retrieved]]
    /\ UNCHANGED <<memos, checkpoint, req, lockedBy, deleted, audit>>

--------------------------------------------------------------------------------
\* Soft deletion and restoration, by an admin only; both update the case row, so they
\* wait for its lock.
DeleteCase(s, c) ==
    /\ req[s].op = "idle"
    /\ lockedBy[c] = None
    /\ deleted' = [deleted EXCEPT ![c] = TRUE]
    /\ UNCHANGED <<memos, run, checkpoint, req, lockedBy, audit>>

RestoreCase(s, c) ==
    /\ req[s].op = "idle"
    /\ lockedBy[c] = None
    /\ deleted' = [deleted EXCEPT ![c] = FALSE]
    /\ UNCHANGED <<memos, run, checkpoint, req, lockedBy, audit>>

Init == /\ memos = [m \in Memo |-> NoRow]
        /\ run = [m \in Memo |-> NoRun]
        /\ checkpoint = [m \in Memo |-> 0]
        /\ req = [s \in Session |-> Idle]
        /\ lockedBy = [c \in Case |-> None]
        /\ deleted = [c \in Case |-> FALSE]
        /\ audit = {}

RequestStep(s) ==
    \/ \E c \in Case : RequestMemo(s, c) \/ \E m \in Memo : RequestExport(s, c, m)
    \/ LockCase(s)
    \/ LockMissing(s)
    \/ \E m \in Memo : CommitMemo(s, m)
    \/ CommitExport(s)
    \/ Abort(s)

RunStep(m) ==
    \/ Plan(m)
    \/ \E cites \in [CC_SECTION_IDS -> SUBSET Passage] :
          Retrieve(m, cites) \/ Draft(m, cites) \/ Verify(m, cites)
    \/ \E bodies \in Bodies : Synthesize(m, bodies)
    \/ \E acked \in BOOLEAN : Save(m, acked)
    \/ RunError(m)
    \/ RecordFailure(m)
    \/ RunDies(m)

Next == \/ \E s \in Session : RequestStep(s)
        \/ \E m \in Memo : RunStep(m)
        \/ \E s \in AdminSession, c \in Case : DeleteCase(s, c) \/ RestoreCase(s, c)

Spec == Init /\ [][Next]_vars

(***************************************************************************)
(* Fairness: a run goes on to its commit or to its except clause, and from *)
(* there to the end.                                                       *)
(***************************************************************************)
FairSpec == Spec /\ \A m \in Memo : WF_vars(RunStep(m))

--------------------------------------------------------------------------------
(***************************************************************************)
(* Properties                                                              *)
(***************************************************************************)

\* Every variable has its type (the columns of the table, the graph's state and the
\* requests' locals).
TypeOK == /\ memos \in [Memo -> MemoRow]
          /\ run \in [Memo -> Run]
          /\ checkpoint \in [Memo -> 0 .. Len(Node)]
          /\ req \in [Session -> Request]
          /\ lockedBy \in [Case -> Session \cup {None}]
          /\ deleted \in [Case -> BOOLEAN]
          /\ audit \subseteq AuditEntry

Logged(m, action) == [action |-> action, memo |-> m] \in audit

\* A memo that was saved, even one marked failed afterwards, cites only passages that
\* some search of its own run returned (assert_citations_subset, build_bibliography).
CitationsGrounded ==
    \A m \in Memo : Logged(m, "generate.complete")
                        => Cited(memos[m].output.sections) \subseteq PassageMeta(m)

\* The stored bibliography lists every cited passage once, in the order in which the
\* memo cites them first (build_bibliography).
BibliographyExact ==
    \A m \in Memo :
        LET cites == CitesIn(memos[m].output.sections)
            entries == memos[m].output.bibliography
            first(p) == CHOOSE i \in DOMAIN cites :
                            cites[i] = p /\ \A j \in 1 .. (i - 1) : cites[j] # p
        IN  /\ ToSet(entries) = ToSet(cites)
            /\ \A i, j \in DOMAIN entries : i < j => first(entries[i]) < first(entries[j])

\* In the exported document every superscript leads to the row of the passage that the
\* text cites, although the rows are sorted anew (docx_memo.py).
SuperscriptsResolve ==
    \A m \in Memo :
        LET bodies == memos[m].output.sections
        IN  \A s \in DOMAIN bodies : \A i \in DOMAIN bodies[s] :
                SortedRows(bodies)[Superscripts(bodies)[s][i]] = bodies[s][i]

\* What the audit log says of a memo and what its row says agree: it exists only with its
\* start, is complete or was exported only with the entries of every node and of the
\* completion, failed only with that of the failure, and a run that saved nothing left no
\* entry of a node.
MemosAudited ==
    \A m \in Memo :
        LET complete == Logged(m, "generate.complete")
        IN  /\ Exists(m) <=> Logged(m, "generate.start")
            /\ \A a \in StageEntries : Logged(m, a) <=> complete
            /\ memos[m].status = "complete" \/ Logged(m, "export") => complete
            /\ memos[m].status = "failed" <=> Logged(m, "generate.failed")

\* No memo is added to a case that is soft-deleted when it is committed, although
\* permission was checked before (the deleted_at condition of the locking read).
NoMemoOnDeletedCase ==
    [][\A m \in Memo : ~Exists(m) /\ Exists(m)' => ~deleted'[memos'[m].case]]_vars

\* The memos implement the abstract history of numbered artifacts.
History == INSTANCE VersionHistory WITH
               Artifact <- Memo,
               owner <- [m \in Memo |-> memos[m].case],
               version <- [m \in Memo |-> memos[m].version],
               pending <- {m \in Memo : memos[m].status = "pending"}

VersionHistory == History!Spec

\* A pending memo is completed or marked failed, unless the process dies under its run
\* (_run_graph_background ends in one of its commits).
MemosSettle ==
    \A m \in Memo : memos[m].status = "pending" ~>
                        memos[m].status \in {"complete", "failed"} \/ run[m].phase = "lost"

\* What the build plan says of checkpoints: a flow that was interrupted after a node is
\* resumed and completes.
InterruptedFlowCompletes ==
    \A m \in Memo : memos[m].status = "pending" /\ checkpoint[m] > 0
                        ~> memos[m].status \in {"complete", "failed"}

--------------------------------------------------------------------------------
(***************************************************************************)
(* The inductive invariant behind the safety properties: how the table,    *)
(* the runs, the requests, the locks and the audit log fit together        *)
(* between two steps.                                                      *)
(***************************************************************************)
Versions(c) == {memos[m].version : m \in MemosOf(c)}

\* The memos of a case are numbered 1, 2, ... without a gap.
VersionsDense ==
    \A c \in Case : /\ NextVersion(c) \in Nat \ {0}
                    /\ Versions(c) = 1 .. (NextVersion(c) - 1)

\* A row that does not exist is blank and has no run; one that does belongs to a case.
RowsWellFormed ==
    \A m \in Memo : /\ ~Exists(m) => memos[m] = NoRow /\ run[m] = NoRun
                    /\ Exists(m) => memos[m].case \in Case

\* A creating request is about a case, an export about a memo that was saved.
RequestsWellFormed ==
    \A s \in Session :
        /\ req[s].op = "generate" => req[s].case \in Case
        /\ req[s].op = "export" => /\ req[s].memo \in Memo
                                   /\ Exists(req[s].memo)
                                   /\ Logged(req[s].memo, "generate.complete")

\* Only a creating request of the case holds its lock.
LockHeld ==
    \A c \in Case, s \in Session : lockedBy[c] = s => req[s].op = "generate" /\ req[s].case = c

\* The holder of the lock numbered its version right after the last one, and no version
\* was added since.
HolderNumbers ==
    \A s \in Session : Holding(s) => req[s].version = NextVersion(req[s].case)

\* A case whose row is locked is not deleted.
LockedNotDeleted == \A s \in Session : Holding(s) => ~deleted[req[s].case]

\* A run that goes on has saved nothing yet, keeps the entry of each node that it has
\* finished, and after the last one holds a memo that cites what it retrieved.
RunsInOrder ==
    \A m \in Memo : run[m].phase = "running" =>
        /\ memos[m].status = "pending"
        /\ ~Logged(m, "generate.complete")
        /\ run[m].log = {Node[i] : i \in 1 .. run[m].at}
        /\ run[m].at = Len(Node) => Cited(run[m].final.sections) \subseteq PassageMeta(m)

\* The audit log speaks of memos that exist.
AuditOnRows == \A e \in audit : Exists(e.memo)

MemoInv == /\ TypeOK
           /\ RowsWellFormed
           /\ RequestsWellFormed
           /\ LockHeld
           /\ VersionsDense
           /\ HolderNumbers
           /\ LockedNotDeleted
           /\ RunsInOrder
           /\ AuditOnRows
           /\ MemosAudited
           /\ CitationsGrounded

================================================================================
