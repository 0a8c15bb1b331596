------------------------ MODULE CountryConditions_proofs ------------------------
(***************************************************************************)
(* Proofs about CountryConditions: the types, the numbering of memos (an   *)
(* implementation of VersionHistory), the agreement of rows and audit log, *)
(* and that what a saved memo cites was retrieved by its own run.          *)
(*                                                                         *)
(* What the run writes becomes visible in one commit at its very end, so   *)
(* the invariant speaks of what the transaction holds before it            *)
(* (RunsInOrder): an entry for each node that has finished, and after the  *)
(* last one a memo whose citations the run has retrieved.                  *)
(***************************************************************************)
EXTENDS CountryConditions, Lists_proofs

--------------------------------------------------------------------------------
(***************************************************************************)
(* Types.                                                                  *)
(***************************************************************************)

\* The five nodes.
LEMMA Nodes == /\ Len(Node) = 5
               /\ {Node[i] : i \in 1 .. Len(Node)} = StageEntries
               /\ \A i \in 1 .. Len(Node) : Node[i] \in StageEntries
               /\ Node[Len(Node)] = "synthesize"
<1>1. Len(Node) = 5
  BY DEF Node
<1>2. /\ Node[1] = "plan" /\ Node[2] = "retrieve" /\ Node[3] = "draft"
      /\ Node[4] = "verify" /\ Node[5] = "synthesize"
  BY DEF Node
<1>3. 1 .. Len(Node) = {1, 2, 3, 4, 5}
  BY <1>1
<1>4. {Node[i] : i \in 1 .. Len(Node)} = {Node[1], Node[2], Node[3], Node[4], Node[5]}
  BY <1>3
<1> QED BY <1>1, <1>2, <1>3, <1>4 DEF StageEntries

\* The parts of a final memo.
LEMMA FinalMemoParts ==
    /\ \A bodies : FinalMemo(bodies).sections = bodies
    /\ \A bodies \in Bodies : FinalMemo(bodies) \in Output
    /\ NoOutput \in Output
<1>1. \A bodies : FinalMemo(bodies).sections = bodies
  BY DEF FinalMemo
<1>2. <<>> \in BoundedSeq(Passage, MaxCites)
  <2>1. <<>> \in [1 .. 0 -> Passage] /\ 0 \in 0 .. MaxCites
    BY CiteBound
  <2> QED BY <2>1 DEF BoundedSeq, SeqOf
<1>3. [s \in CC_SECTION_IDS |-> <<>>] \in Bodies
  BY <1>2 DEF Bodies
<1> QED BY <1>1, <1>3 DEF Output, NoOutput

\* The blank values.
LEMMA Blanks == NoRow \in MemoRow /\ NoRun \in Run /\ Idle \in Request
<1>1. NoRow \in MemoRow
  BY FinalMemoParts DEF NoRow, MemoRow, MemoStatus
<1>2. NoRun \in Run
  BY FinalMemoParts, Nodes DEF NoRun, Run, NoCites
<1>3. Idle \in Request
  BY DEF Idle, Request
<1> QED BY <1>1, <1>2, <1>3

\* The audit rows are audit entries.
LEMMA EntriesType ==
    ASSUME NEW m \in Memo,
           NEW actions \in SUBSET ({"generate.start", "generate.complete", "generate.failed",
                                    "export"} \cup StageEntries)
    PROVE  Entries(actions, m) \subseteq AuditEntry
BY DEF Entries, AuditEntry

\* What is logged after a step that records.
LEMMA Recorded ==
    ASSUME NEW actions, NEW m, Record(actions, m)
    PROVE  \A n, a : Logged(n, a)' <=> Logged(n, a) \/ (n = m /\ a \in actions)
BY DEF Record, Entries, Logged

\* A node that returns hands on its result and its entry; after the last one the memo cites
\* what was retrieved.
Works(m) == \/ Plan(m)
            \/ \E cites \in [CC_SECTION_IDS -> SUBSET Passage] :
                  Retrieve(m, cites) \/ Draft(m, cites) \/ Verify(m, cites)
            \/ \E bodies \in Bodies : Synthesize(m, bodies)

Worked(m, r) ==
    /\ r \in Run
    /\ run' = [run EXCEPT ![m] = r]
    /\ r.phase = "running"
    /\ r.at = run[m].at + 1
    /\ r.log = run[m].log \cup {Node[r.at]}
    /\ r.at = Len(Node)
           => Cited(r.final.sections) \subseteq UNION {r.retrieved[s] : s \in CC_SECTION_IDS}

\* A node that finishes with a well-typed result.
LEMMA FinishShape ==
    ASSUME TypeOK, NEW m \in Memo, NEW node \in StageEntries, NEW result \in Run,
           result.phase = run[m].phase, result.at = run[m].at, result.log = run[m].log,
           Finish(m, node, result),
           node = "synthesize" => Cited(result.final.sections)
                                      \subseteq UNION {result.retrieved[s] : s \in CC_SECTION_IDS}
    PROVE  /\ run[m].phase = "running"
           /\ run[m].at \in 0 .. (Len(Node) - 1)
           /\ checkpoint' = [checkpoint EXCEPT ![m] = run[m].at + 1]
           /\ UNCHANGED <<memos, req, lockedBy, deleted, audit>>
           /\ \E r : Worked(m, r)
<1> DEFINE r == [result EXCEPT !.at = @ + 1, !.log = @ \cup {node}]
<1>1. /\ run[m].phase = "running" /\ run[m].at < Len(Node) /\ Node[run[m].at + 1] = node
      /\ run' = [run EXCEPT ![m] = r]
      /\ checkpoint' = [checkpoint EXCEPT ![m] = run[m].at + 1]
      /\ UNCHANGED <<memos, req, lockedBy, deleted, audit>>
  BY DEF Finish, AtNode
<1>2. run[m] \in Run /\ run[m].at \in 0 .. (Len(Node) - 1)
  BY <1>1, Nodes DEF TypeOK, Run
<1>3. /\ r \in Run
      /\ r.phase = "running"
      /\ r.at = run[m].at + 1
      /\ r.log = run[m].log \cup {node}
      /\ r.final = result.final
      /\ r.retrieved = result.retrieved
  <2>1. result.at + 1 \in 0 .. Len(Node) /\ result.log \cup {node} \subseteq StageEntries
    BY <1>2, Nodes DEF Run
  <2>2. r = [result EXCEPT !.at = result.at + 1, !.log = result.log \cup {node}]
    OBVIOUS
  <2>3. /\ [result EXCEPT !.at = result.at + 1, !.log = result.log \cup {node}] \in Run
        /\ r.phase = result.phase
        /\ r.at = result.at + 1
        /\ r.log = result.log \cup {node}
        /\ r.final = result.final
        /\ r.retrieved = result.retrieved
    BY <2>1, <2>2 DEF Run
  <2> HIDE DEF r
  <2> QED BY <1>1, <2>2, <2>3
<1>4. r.at = Len(Node) => node = "synthesize"
  BY <1>1, <1>3, Nodes
<1>5. Worked(m, r)
  <2> HIDE DEF r
  <2> QED BY <1>1, <1>3, <1>4 DEF Worked
<1> QED BY <1>1, <1>2, <1>5

\* Every node works like that.
LEMMA WorkShape ==
    ASSUME TypeOK, NEW m \in Memo, Works(m)
    PROVE  /\ run[m].phase = "running"
           /\ run[m].at \in 0 .. (Len(Node) - 1)
           /\ checkpoint' = [checkpoint EXCEPT ![m] = run[m].at + 1]
           /\ UNCHANGED <<memos, req, lockedBy, deleted, audit>>
           /\ \E r : Worked(m, r)
<1>0. run[m] \in Run
  BY DEF TypeOK
<1>1. CASE Plan(m)
  BY <1>0, <1>1, FinishShape DEF Plan, StageEntries
<1>2. ASSUME NEW cites \in [CC_SECTION_IDS -> SUBSET Passage],
             Retrieve(m, cites) \/ Draft(m, cites) \/ Verify(m, cites)
      PROVE  \E node \in StageEntries \ {"synthesize"}, result \in Run :
                 /\ Finish(m, node, result)
                 /\ result.phase = run[m].phase
                 /\ result.at = run[m].at
                 /\ result.log = run[m].log
  <2> DEFINE found == [run[m] EXCEPT !.retrieved = cites]
             cited == [run[m] EXCEPT !.cites = cites]
  <2>1. /\ found \in Run /\ found.phase = run[m].phase /\ found.at = run[m].at
        /\ found.log = run[m].log
        /\ cited \in Run /\ cited.phase = run[m].phase /\ cited.at = run[m].at
        /\ cited.log = run[m].log
    BY <1>0 DEF Run
  <2>2. \/ Finish(m, "retrieve", found)
        \/ Finish(m, "draft", cited)
        \/ Finish(m, "verify", cited)
    BY <1>2 DEF Retrieve, Draft, Verify
  <2>3. {"retrieve", "draft", "verify"} \subseteq StageEntries \ {"synthesize"}
    BY DEF StageEntries
  <2> HIDE DEF found, cited
  <2> QED BY <2>1, <2>2, <2>3
<1>3. ASSUME NEW bodies \in Bodies, Synthesize(m, bodies)
      PROVE  \E result \in Run :
                 /\ Finish(m, "synthesize", result)
                 /\ result.phase = run[m].phase
                 /\ result.at = run[m].at
                 /\ result.log = run[m].log
                 /\ Cited(result.final.sections)
                        \subseteq UNION {result.retrieved[s] : s \in CC_SECTION_IDS}
  <2> DEFINE result == [run[m] EXCEPT !.cites = NoCites, !.final = FinalMemo(bodies)]
  <2>1. NoCites \in [CC_SECTION_IDS -> SUBSET Passage]
    BY DEF NoCites
  <2>2. /\ result \in Run
        /\ result.phase = run[m].phase
        /\ result.at = run[m].at
        /\ result.log = run[m].log
        /\ result.final = FinalMemo(bodies)
        /\ result.retrieved = run[m].retrieved
    BY <1>0, <2>1, FinalMemoParts DEF Run
  <2>3. Finish(m, "synthesize", result) /\ Cited(bodies) \subseteq PassageMeta(m)
    BY <1>3 DEF Synthesize
  <2>4. result.final.sections = bodies
    BY <2>2, FinalMemoParts
  <2> HIDE DEF result
  <2> QED BY <2>2, <2>3, <2>4 DEF PassageMeta
<1>4. ASSUME NEW node \in StageEntries \ {"synthesize"}, NEW result \in Run,
             Finish(m, node, result), result.phase = run[m].phase, result.at = run[m].at,
             result.log = run[m].log
      PROVE  /\ run[m].phase = "running"
             /\ run[m].at \in 0 .. (Len(Node) - 1)
             /\ checkpoint' = [checkpoint EXCEPT ![m] = run[m].at + 1]
             /\ UNCHANGED <<memos, req, lockedBy, deleted, audit>>
             /\ \E r : Worked(m, r)
  BY <1>4, FinishShape
<1>5. "synthesize" \in StageEntries
  BY DEF StageEntries
<1>6. CASE \E cites \in [CC_SECTION_IDS -> SUBSET Passage] :
               Retrieve(m, cites) \/ Draft(m, cites) \/ Verify(m, cites)
  BY <1>2, <1>4, <1>6
<1>7. CASE \E bodies \in Bodies : Synthesize(m, bodies)
  BY <1>3, <1>5, <1>7, FinishShape
<1> QED BY <1>1, <1>6, <1>7 DEF Works

--------------------------------------------------------------------------------
(***************************************************************************)
(* What a step does: to the table and the log, to a run, to a request, to  *)
(* a lock.                                                                 *)
(***************************************************************************)

\* A row that exists and keeps its case and version.
Rewrites(m) ==
    /\ Exists(m) /\ Exists(m)'
    /\ memos'[m].case = memos[m].case
    /\ memos'[m].version = memos[m].version
    /\ memos'[m].status # "pending"
    /\ \A n \in Memo \ {m} : memos'[n] = memos[n]

\* A new row of the holder of the case's lock.
Creates(s, m) ==
    /\ Holding(s)
    /\ ~Exists(m)
    /\ memos' = [memos EXCEPT ![m] = [NoRow EXCEPT !.status = "pending", !.case = req[s].case,
                                                   !.version = req[s].version]]
    /\ Release(s)
    /\ Answer(s)
    /\ deleted' = deleted

\* The kinds of steps, apart from stutters.
LEMMA Kinds ==
    ASSUME [Next]_vars
    PROVE  \/ UNCHANGED vars
           \/ \E s \in Session, c \in Case : RequestMemo(s, c)
           \/ \E s \in Session, c \in Case, m \in Memo : RequestExport(s, c, m)
           \/ \E s \in Session : \/ LockCase(s) \/ LockMissing(s) \/ CommitExport(s) \/ Abort(s)
                                 \/ \E m \in Memo : CommitMemo(s, m)
           \/ \E m \in Memo : \/ Works(m)
                              \/ \E acked \in BOOLEAN : Save(m, acked)
                              \/ RunError(m) \/ RecordFailure(m) \/ RunDies(m)
           \/ \E s \in AdminSession, c \in Case : DeleteCase(s, c) \/ RestoreCase(s, c)
BY DEF Next, RequestStep, RunStep, Works

\* A commit of the request creates a row.
LEMMA CommitCreates ==
    ASSUME TypeOK, NEW s \in Session, NEW m \in Memo, CommitMemo(s, m)
    PROVE  /\ Creates(s, m)
           /\ Exists(m)'
           /\ memos'[m].case = req[s].case
           /\ memos'[m].version = req[s].version
           /\ memos'[m].status = "pending"
           /\ \A n \in Memo \ {m} : memos'[n] = memos[n]
<1>1. Creates(s, m)
  BY DEF CommitMemo, Creates
<1>2. memos'[m] = [NoRow EXCEPT !.status = "pending", !.case = req[s].case,
                                !.version = req[s].version]
  BY <1>1 DEF TypeOK, Creates
<1>3. memos'[m].status = "pending" /\ memos'[m].case = req[s].case
          /\ memos'[m].version = req[s].version
  BY <1>2 DEF NoRow
<1>4. \A n \in Memo \ {m} : memos'[n] = memos[n]
  BY <1>1 DEF TypeOK, Creates
<1> QED BY <1>1, <1>3, <1>4 DEF Exists

\* The commits of a run rewrite a row.
LEMMA RunRewrites ==
    ASSUME TypeOK, RowsWellFormed, NEW m \in Memo,
           (\E acked \in BOOLEAN : Save(m, acked)) \/ RecordFailure(m)
    PROVE  Rewrites(m)
<1>1. Exists(m)
  <2>1. run[m].phase # "none"
    BY DEF Save, RecordFailure
  <2>2. NoRun.phase = "none"
    BY DEF NoRun
  <2> QED BY <2>1, <2>2 DEF RowsWellFormed
<1>2. CASE \E acked \in BOOLEAN : Save(m, acked)
  <2>1. memos' = [memos EXCEPT ![m].status = "complete", ![m].output = run[m].final]
    BY <1>2 DEF Save
  <2> QED BY <1>1, <2>1 DEF Rewrites, Exists, TypeOK, MemoRow
<1>3. CASE RecordFailure(m)
  BY <1>1, <1>3 DEF RecordFailure, Rewrites, Exists, TypeOK, MemoRow
<1> QED BY <1>2, <1>3

\* A step leaves the table alone, rewrites one existing row in place, or creates one row.
LEMMA StepShape ==
    ASSUME TypeOK, RowsWellFormed, [Next]_vars
    PROVE  \/ memos' = memos
           \/ \E m \in Memo : Rewrites(m)
           \/ \E s \in Session, m \in Memo : CommitMemo(s, m)
<1>1. CASE \/ UNCHANGED vars
           \/ \E s \in Session, c \in Case : RequestMemo(s, c)
           \/ \E s \in Session, c \in Case, m \in Memo : RequestExport(s, c, m)
           \/ \E s \in Session : LockCase(s) \/ LockMissing(s) \/ CommitExport(s) \/ Abort(s)
           \/ \E m \in Memo : RunError(m) \/ RunDies(m)
           \/ \E s \in AdminSession, c \in Case : DeleteCase(s, c) \/ RestoreCase(s, c)
  BY <1>1 DEF vars, RequestMemo, RequestExport, LockCase, LockMissing, CommitExport, Abort,
              RunError, RunDies, DeleteCase, RestoreCase
<1>2. CASE \E m \in Memo : Works(m)
  BY <1>2, WorkShape
<1>3. CASE \E m \in Memo : (\E acked \in BOOLEAN : Save(m, acked)) \/ RecordFailure(m)
  BY <1>3, RunRewrites
<1> QED BY <1>1, <1>2, <1>3, Kinds

\* A row that exists keeps its case and its version.
LEMMA RowsStable ==
    ASSUME TypeOK, RowsWellFormed, [Next]_vars, NEW m \in Memo, Exists(m)
    PROVE  /\ Exists(m)'
           /\ memos'[m].case = memos[m].case
           /\ memos'[m].version = memos[m].version
<1>1. CASE memos' = memos
  BY <1>1 DEF Exists
<1>2. CASE \E n \in Memo : Rewrites(n)
  BY <1>2 DEF Rewrites, Exists
<1>3. CASE \E s \in Session, n \in Memo : CommitMemo(s, n)
  BY <1>3, CommitCreates DEF CommitMemo, Exists
<1> QED BY <1>1, <1>2, <1>3, StepShape

\* The log only grows.
LEMMA LogGrows ==
    ASSUME [Next]_vars
    PROVE  audit \subseteq audit'
<1>1. CASE \E m \in Memo : Works(m)
  BY <1>1 DEF Works, Plan, Retrieve, Draft, Verify, Synthesize, Finish
<1>2. CASE \/ UNCHANGED vars
           \/ \E s \in Session, c \in Case : RequestMemo(s, c)
           \/ \E s \in Session, c \in Case, m \in Memo : RequestExport(s, c, m)
           \/ \E s \in Session : LockCase(s) \/ LockMissing(s) \/ Abort(s)
           \/ \E m \in Memo : RunError(m) \/ RunDies(m)
           \/ \E s \in AdminSession, c \in Case : DeleteCase(s, c) \/ RestoreCase(s, c)
  BY <1>2 DEF vars, RequestMemo, RequestExport, LockCase, LockMissing, Abort,
              RunError, RunDies, DeleteCase, RestoreCase
<1>3. CASE \/ \E s \in Session : CommitExport(s) \/ \E m \in Memo : CommitMemo(s, m)
           \/ \E m \in Memo : (\E acked \in BOOLEAN : Save(m, acked)) \/ RecordFailure(m)
  BY <1>3 DEF CommitExport, CommitMemo, Save, RecordFailure, Record
<1> QED BY <1>1, <1>2, <1>3, Kinds

\* What a step does to the request of a session: nothing, or it starts a request, gives
\* it the version number, or ends it.
LEMMA RequestShape ==
    ASSUME TypeOK, [Next]_vars, NEW s \in Session
    PROVE  \/ req'[s] = req[s]
           \/ req'[s] = Idle
           \/ LockCase(s)
           \/ \E c \in Case : RequestMemo(s, c) \/ \E m \in Memo : RequestExport(s, c, m)
<1> USE DEF TypeOK
<1>1. CASE \E m \in Memo : Works(m)
  BY <1>1, WorkShape
<1>2. CASE \/ UNCHANGED vars
           \/ \E m \in Memo : \/ \E acked \in BOOLEAN : Save(m, acked)
                              \/ RunError(m) \/ RecordFailure(m) \/ RunDies(m)
           \/ \E t \in AdminSession, c \in Case : DeleteCase(t, c) \/ RestoreCase(t, c)
  BY <1>2 DEF vars, Save, RunError, RecordFailure, RunDies, DeleteCase, RestoreCase
<1>3. CASE \E t \in Session : \/ LockMissing(t) \/ CommitExport(t) \/ Abort(t)
                              \/ \E m \in Memo : CommitMemo(t, m)
  BY <1>3 DEF LockMissing, CommitExport, Abort, CommitMemo, Answer
<1>4. ASSUME NEW t \in Session, t # s,
             \/ LockCase(t)
             \/ \E c \in Case : RequestMemo(t, c) \/ \E m \in Memo : RequestExport(t, c, m)
      PROVE  req'[s] = req[s]
  BY <1>4 DEF LockCase, RequestMemo, RequestExport
<1> QED BY <1>1, <1>2, <1>3, <1>4, Kinds

\* Who may hold a lock after a step: who held it and did nothing, or who just took it.
LEMMA Holders ==
    ASSUME TypeOK, LockHeld, [Next]_vars, NEW s \in Session, NEW c \in Case, lockedBy'[c] = s
    PROVE  \/ LockCase(s) /\ req[s].case = c
           \/ lockedBy[c] = s /\ req'[s] = req[s]
<1> USE NoneIsNone DEF TypeOK, LockHeld
<1>0. None # s
  OBVIOUS
<1>1. CASE \E m \in Memo : Works(m)
  BY <1>1, WorkShape
<1>2. CASE \/ UNCHANGED vars
           \/ \E m \in Memo : \/ \E acked \in BOOLEAN : Save(m, acked)
                              \/ RunError(m) \/ RecordFailure(m) \/ RunDies(m)
           \/ \E t \in AdminSession, x \in Case : DeleteCase(t, x) \/ RestoreCase(t, x)
  BY <1>2 DEF vars, Save, RunError, RecordFailure, RunDies, DeleteCase, RestoreCase
<1>3. ASSUME NEW t \in Session, Abort(t) \/ \E m \in Memo : CommitMemo(t, m)
      PROVE  lockedBy[c] = s /\ req'[s] = req[s]
  BY <1>0, <1>3 DEF Abort, CommitMemo, Release, Answer
<1>4. ASSUME NEW t \in Session, LockCase(t)
      PROVE  (LockCase(s) /\ req[s].case = c) \/ (lockedBy[c] = s /\ req'[s] = req[s])
  <2>1. CASE req[t].case = c
    BY <1>4, <2>1 DEF LockCase
  <2>2. CASE req[t].case # c
    BY <1>4, <2>2 DEF LockCase, Waiting
  <2> QED BY <2>1, <2>2
<1>5. ASSUME NEW t \in Session, LockMissing(t) \/ CommitExport(t)
      PROVE  lockedBy[c] = s /\ req'[s] = req[s]
  BY <1>5 DEF LockMissing, CommitExport, Waiting, Answer
<1>6. ASSUME NEW t \in Session, NEW x \in Case,
             RequestMemo(t, x) \/ \E m \in Memo : RequestExport(t, x, m)
      PROVE  lockedBy[c] = s /\ req'[s] = req[s]
  BY <1>6 DEF RequestMemo, RequestExport, Arrives
<1> QED BY <1>1, <1>2, <1>3, <1>4, <1>5, <1>6, Kinds

--------------------------------------------------------------------------------
(***************************************************************************)
(* What a step does to one memo: its row, its run and its entries.         *)
(***************************************************************************)

\* The entries of the memo, and those for the given actions.
LogsAlso(m, actions) == \A a : Logged(m, a)' <=> Logged(m, a) \/ a \in actions

Rests(m) == run'[m] = run[m] /\ memos'[m] = memos[m] /\ LogsAlso(m, {})

Exported(m) ==
    /\ run'[m] = run[m] /\ memos'[m] = memos[m]
    /\ \E s \in Session : req[s].op = "export" /\ req[s].memo = m
    /\ LogsAlso(m, {"export"})

Created(m) ==
    /\ ~Exists(m)
    /\ memos'[m].status = "pending"
    /\ run'[m].phase = "running" /\ run'[m].at = 0 /\ run'[m].log = {}
    /\ LogsAlso(m, {"generate.start"})

Advanced(m) ==
    /\ run[m].phase = "running" /\ run[m].at \in 0 .. (Len(Node) - 1)
    /\ memos'[m] = memos[m]
    /\ LogsAlso(m, {})
    /\ Worked(m, run'[m])

Saved(m) ==
    /\ run[m].phase = "running" /\ run[m].at = Len(Node)
    /\ memos'[m].status = "complete" /\ memos'[m].output = run[m].final
    /\ run'[m].phase \in {"none", "failing"} /\ run'[m].retrieved = run[m].retrieved
    /\ LogsAlso(m, run[m].log \cup {"generate.complete"})

Stopped(m) ==
    /\ run[m].phase \in {"running", "failing"}
    /\ memos'[m] = memos[m]
    /\ LogsAlso(m, {})
    /\ run'[m].phase \in {"failing", "lost"}
    /\ run[m].phase # "running" => run'[m].retrieved = run[m].retrieved

Failed(m) ==
    /\ run[m].phase = "failing"
    /\ memos'[m].status = "failed" /\ memos'[m].output = memos[m].output
    /\ run'[m].phase = "none" /\ run'[m].retrieved = run[m].retrieved
    /\ LogsAlso(m, {"generate.failed"})

\* An action that leaves the log alone, and one that records.
LEMMA SameLog == \A m : audit' = audit => LogsAlso(m, {})
BY DEF LogsAlso, Logged

LEMMA RecordLogs ==
    ASSUME NEW actions, NEW n, Record(actions, n)
    PROVE  /\ LogsAlso(n, actions)
           /\ \A m : m # n => LogsAlso(m, {})
BY Recorded DEF LogsAlso

LEMMA MemoStep ==
    ASSUME TypeOK, RowsWellFormed, [Next]_vars, NEW m \in Memo
    PROVE  Rests(m) \/ Exported(m) \/ Created(m) \/ Advanced(m) \/ Saved(m) \/ Stopped(m)
               \/ Failed(m)
<1>1. CASE \/ UNCHANGED vars
           \/ \E s \in Session, c \in Case : RequestMemo(s, c)
           \/ \E s \in Session, c \in Case, n \in Memo : RequestExport(s, c, n)
           \/ \E s \in Session : LockCase(s) \/ LockMissing(s) \/ Abort(s)
           \/ \E s \in AdminSession, c \in Case : DeleteCase(s, c) \/ RestoreCase(s, c)
  <2>1. run' = run /\ memos' = memos /\ audit' = audit
    BY <1>1 DEF vars, RequestMemo, RequestExport, LockCase, LockMissing, Abort, DeleteCase,
                RestoreCase
  <2> QED BY <2>1, SameLog DEF Rests
<1>2. ASSUME NEW s \in Session, CommitExport(s)
      PROVE  Rests(m) \/ Exported(m)
  <2>1. /\ req[s].op = "export" /\ Record({"export"}, req[s].memo)
        /\ run' = run /\ memos' = memos
    BY <1>2 DEF CommitExport
  <2> QED BY <2>1, RecordLogs DEF Rests, Exported
<1>3. ASSUME NEW s \in Session, NEW n \in Memo, CommitMemo(s, n)
      PROVE  Rests(m) \/ Created(m)
  <2>1. /\ ~Exists(n) /\ Record({"generate.start"}, n)
        /\ run' = [run EXCEPT ![n].phase = "running"]
    BY <1>3 DEF CommitMemo
  <2>2. memos'[n].status = "pending" /\ \A x \in Memo \ {n} : memos'[x] = memos[x]
    BY <1>3, CommitCreates
  <2>3. run[n] = NoRun
    BY <2>1 DEF RowsWellFormed
  <2>4. CASE m = n
    <3>1. run'[n] = [NoRun EXCEPT !.phase = "running"]
      BY <2>1, <2>3 DEF TypeOK
    <3>2. run'[n].phase = "running" /\ run'[n].at = 0 /\ run'[n].log = {}
      BY <3>1 DEF NoRun
    <3> QED BY <2>1, <2>2, <2>4, <3>2, RecordLogs DEF Created
  <2>5. CASE m # n
    <3>1. run'[m] = run[m]
      BY <2>1, <2>5 DEF TypeOK
    <3> QED BY <2>1, <2>2, <2>5, <3>1, RecordLogs DEF Rests
  <2> QED BY <2>4, <2>5
<1>4. ASSUME NEW n \in Memo, Works(n)
      PROVE  Rests(m) \/ Advanced(m)
  <2>1. PICK r : Worked(n, r)
    BY <1>4, WorkShape
  <2>2. /\ run[n].phase = "running" /\ run[n].at \in 0 .. (Len(Node) - 1)
        /\ memos' = memos /\ audit' = audit
        /\ run' = [run EXCEPT ![n] = r]
    BY <1>4, <2>1, WorkShape DEF Worked
  <2>3. CASE m = n
    <3>1. run'[m] = r
      BY <2>2, <2>3 DEF TypeOK
    <3> QED BY <2>1, <2>2, <2>3, <3>1, SameLog DEF Advanced
  <2>4. CASE m # n
    <3>1. run'[m] = run[m]
      BY <2>2, <2>4 DEF TypeOK
    <3> QED BY <2>2, <3>1, SameLog DEF Rests
  <2> QED BY <2>3, <2>4
<1>5. ASSUME NEW n \in Memo, NEW acked \in BOOLEAN, Save(n, acked)
      PROVE  Rests(m) \/ Saved(m)
  <2>1. /\ run[n].phase = "running" /\ run[n].at = Len(Node)
        /\ Record(run[n].log \cup {"generate.complete"}, n)
        /\ memos' = [memos EXCEPT ![n].status = "complete", ![n].output = run[n].final]
        /\ run' = [run EXCEPT ![n] = [NoRun EXCEPT !.phase = IF acked THEN "none" ELSE "failing",
                                                   !.retrieved = run[n].retrieved]]
    BY <1>5 DEF Save
  <2>2. CASE m = n
    <3>1. /\ run'[n].phase = IF acked THEN "none" ELSE "failing"
          /\ run'[n].retrieved = run[n].retrieved
      BY <2>1 DEF TypeOK, NoRun
    <3>2. memos'[n].status = "complete" /\ memos'[n].output = run[n].final
      BY <2>1 DEF TypeOK, MemoRow
    <3> QED BY <2>1, <2>2, <3>1, <3>2, RecordLogs DEF Saved
  <2>3. CASE m # n
    <3>1. run'[m] = run[m] /\ memos'[m] = memos[m]
      BY <2>1, <2>3 DEF TypeOK
    <3> QED BY <2>1, <2>3, <3>1, RecordLogs DEF Rests
  <2> QED BY <2>2, <2>3
<1>6. ASSUME NEW n \in Memo, RunError(n) \/ RunDies(n)
      PROVE  Rests(m) \/ Stopped(m)
  <2>1. /\ run[n].phase \in {"running", "failing"}
        /\ memos' = memos /\ audit' = audit
    BY <1>6 DEF RunError, RunDies
  <2>2. CASE m = n
    <3>1. /\ run'[n].phase \in {"failing", "lost"}
          /\ run[n].phase # "running" => run'[n].retrieved = run[n].retrieved
      BY <1>6 DEF RunError, RunDies, TypeOK, NoRun
    <3> QED BY <2>1, <2>2, <3>1, SameLog DEF Stopped
  <2>3. CASE m # n
    <3>1. run'[m] = run[m]
      BY <1>6, <2>3 DEF RunError, RunDies, TypeOK
    <3> QED BY <2>1, <3>1, SameLog DEF Rests
  <2> QED BY <2>2, <2>3
<1>7. ASSUME NEW n \in Memo, RecordFailure(n)
      PROVE  Rests(m) \/ Failed(m)
  <2>1. /\ run[n].phase = "failing" /\ Record({"generate.failed"}, n)
        /\ memos' = [memos EXCEPT ![n].status = "failed"]
        /\ run' = [run EXCEPT ![n].phase = "none"]
    BY <1>7 DEF RecordFailure
  <2>2. CASE m = n
    <3>1. memos'[n].status = "failed" /\ memos'[n].output = memos[n].output
      BY <2>1 DEF TypeOK, MemoRow
    <3>2. run'[n].phase = "none" /\ run'[n].retrieved = run[n].retrieved
      BY <2>1 DEF TypeOK, Run
    <3> QED BY <2>1, <2>2, <3>1, <3>2, RecordLogs DEF Failed
  <2>3. CASE m # n
    <3>1. run'[m] = run[m] /\ memos'[m] = memos[m]
      BY <2>1, <2>3 DEF TypeOK
    <3> QED BY <2>1, <2>3, <3>1, RecordLogs DEF Rests
  <2> QED BY <2>2, <2>3
<1> QED BY <1>1, <1>2, <1>3, <1>4, <1>5, <1>6, <1>7, Kinds

--------------------------------------------------------------------------------
(***************************************************************************)
(* The audit log, the runs and the citations.                              *)
(***************************************************************************)

\* A run that goes on is that of a pending memo, and what it holds is in order.
LEMMA RunsInOrderStep ==
    ASSUME MemoInv, [Next]_vars
    PROVE  RunsInOrder'
<1> SUFFICES ASSUME NEW m \in Memo, run'[m].phase = "running"
             PROVE  /\ memos'[m].status = "pending"
                    /\ ~Logged(m, "generate.complete")'
                    /\ run'[m].log = {Node[i] : i \in 1 .. run'[m].at}
                    /\ run'[m].at = Len(Node)
                          => Cited(run'[m].final.sections)
                                 \subseteq UNION {run'[m].retrieved[s] : s \in CC_SECTION_IDS}
  BY DEF RunsInOrder, PassageMeta
<1>0. /\ TypeOK /\ RowsWellFormed
      /\ run[m].phase = "running" =>
            /\ memos[m].status = "pending"
            /\ ~Logged(m, "generate.complete")
            /\ run[m].log = {Node[i] : i \in 1 .. run[m].at}
            /\ run[m].at = Len(Node)
                  => Cited(run[m].final.sections)
                         \subseteq UNION {run[m].retrieved[s] : s \in CC_SECTION_IDS}
  BY DEF MemoInv, RunsInOrder, PassageMeta
<1>1. CASE Rests(m)
  BY <1>0, <1>1 DEF Rests, LogsAlso
<1>2. CASE Exported(m)
  BY <1>0, <1>2 DEF Exported, LogsAlso
<1>3. CASE Created(m)
  <2>1. /\ memos'[m].status = "pending" /\ run'[m].at = 0 /\ run'[m].log = {}
        /\ LogsAlso(m, {"generate.start"})
    BY <1>3 DEF Created
  <2>2. ~Logged(m, "generate.complete")
    <3>1. [action |-> "generate.complete", memo |-> m].memo = m
      OBVIOUS
    <3> QED BY <1>3, <3>1 DEF Created, MemoInv, AuditOnRows, Logged
  <2>3. ~Logged(m, "generate.complete")'
    BY <2>1, <2>2 DEF LogsAlso
  <2>4. {Node[i] : i \in 1 .. 0} = {}
    OBVIOUS
  <2> QED BY <2>1, <2>3, <2>4, Nodes
<1>4. CASE Advanced(m)
  <2>1. /\ memos'[m].status = "pending"
        /\ ~Logged(m, "generate.complete")'
    BY <1>0, <1>4 DEF Advanced, LogsAlso
  <2>2. PICK k \in Nat : k = run[m].at
    BY <1>4, Nodes DEF Advanced
  <2>3. /\ run'[m].at = k + 1
        /\ run'[m].log = {Node[i] : i \in 1 .. k} \cup {Node[k + 1]}
    BY <1>0, <1>4, <2>2 DEF Advanced, Worked
  <2>4. 1 .. (k + 1) = 1 .. k \cup {k + 1}
    OBVIOUS
  <2>5. {Node[i] : i \in 1 .. (k + 1)} = {Node[i] : i \in 1 .. k} \cup {Node[k + 1]}
    BY <2>4
  <2> QED BY <1>4, <2>1, <2>3, <2>5 DEF Advanced, Worked
<1>5. CASE Saved(m) \/ Stopped(m) \/ Failed(m)
  BY <1>5 DEF Saved, Stopped, Failed
<1> QED BY <1>0, <1>1, <1>2, <1>3, <1>4, <1>5, MemoStep

\* Entries are made about memos that exist.
LEMMA AuditOnRowsStep ==
    ASSUME MemoInv, [Next]_vars
    PROVE  AuditOnRows'
<1> SUFFICES ASSUME NEW e \in audit'
             PROVE  Exists(e.memo)'
  BY DEF AuditOnRows
<1> USE DEF MemoInv
<1>1. CASE e \in audit
  <2>1. e.memo \in Memo /\ Exists(e.memo)
    BY <1>1 DEF AuditOnRows, TypeOK, AuditEntry
  <2> QED BY <2>1, RowsStable
<1>2. ASSUME NEW m \in Memo, NEW actions, Record(actions, m), e \notin audit
      PROVE  e.memo = m
  BY <1>2 DEF Record, Entries
<1>3. ASSUME NEW s \in Session, CommitExport(s), e \notin audit
      PROVE  Exists(e.memo)'
  <2>1. req[s].memo \in Memo /\ Exists(req[s].memo)
    BY <1>3 DEF CommitExport, RequestsWellFormed
  <2> QED BY <1>2, <1>3, <2>1, RowsStable DEF CommitExport
<1>4. ASSUME NEW s \in Session, NEW m \in Memo, CommitMemo(s, m), e \notin audit
      PROVE  Exists(e.memo)'
  <2>1. e.memo = m
    BY <1>2, <1>4 DEF CommitMemo
  <2> QED BY <1>4, <2>1, CommitCreates
<1>5. ASSUME NEW m \in Memo, (\E acked \in BOOLEAN : Save(m, acked)) \/ RecordFailure(m),
             e \notin audit
      PROVE  Exists(e.memo)'
  <2>1. e.memo = m
    BY <1>2, <1>5 DEF Save, RecordFailure
  <2> QED BY <1>5, <2>1, RunRewrites DEF Rewrites
<1>6. CASE \E m \in Memo : Works(m)
  BY <1>1, <1>6, WorkShape
<1>7. CASE \/ UNCHANGED vars
           \/ \E s \in Session, c \in Case : RequestMemo(s, c)
           \/ \E s \in Session, c \in Case, m \in Memo : RequestExport(s, c, m)
           \/ \E s \in Session : LockCase(s) \/ LockMissing(s) \/ Abort(s)
           \/ \E m \in Memo : RunError(m) \/ RunDies(m)
           \/ \E s \in AdminSession, c \in Case : DeleteCase(s, c) \/ RestoreCase(s, c)
  <2>1. audit' = audit
    BY <1>7 DEF vars, RequestMemo, RequestExport, LockCase, LockMissing, Abort, RunError, RunDies,
                DeleteCase, RestoreCase
  <2> QED BY <1>1, <2>1
<1> QED BY <1>1, <1>3, <1>4, <1>5, <1>6, <1>7, Kinds

\* MemosAudited of one memo.
Audited(m) ==
    /\ Exists(m) <=> Logged(m, "generate.start")
    /\ \A a \in StageEntries : Logged(m, a) <=> Logged(m, "generate.complete")
    /\ memos[m].status = "complete" \/ Logged(m, "export") => Logged(m, "generate.complete")
    /\ memos[m].status = "failed" <=> Logged(m, "generate.failed")

\* Every commit adds the entries for what it writes.
LEMMA AuditedStep ==
    ASSUME MemoInv, [Next]_vars
    PROVE  MemosAudited'
<1> SUFFICES ASSUME NEW m \in Memo PROVE Audited(m)'
  BY DEF MemosAudited, Audited
<1>0. TypeOK /\ RowsWellFormed /\ Audited(m)
  BY DEF MemoInv, MemosAudited, Audited
<1> USE DEF Audited, LogsAlso, Exists
<1>1. CASE Rests(m)
  BY <1>0, <1>1 DEF Rests
<1>2. CASE Exported(m)
  <2>1. Logged(m, "generate.complete")
    BY <1>2 DEF Exported, MemoInv, RequestsWellFormed
  <2>2. "export" \notin StageEntries
    BY DEF StageEntries
  <2> QED BY <1>0, <1>2, <2>1, <2>2 DEF Exported
<1>3. CASE Created(m)
  <2>1. \A a : ~Logged(m, a)
    <3> SUFFICES ASSUME NEW a, Logged(m, a) PROVE FALSE
      OBVIOUS
    <3>1. [action |-> a, memo |-> m].memo = m
      OBVIOUS
    <3> QED BY <1>3, <3>1 DEF Created, MemoInv, AuditOnRows, Logged
  <2>2. "generate.start" \notin StageEntries
    BY DEF StageEntries
  <2> QED BY <1>3, <2>1, <2>2 DEF Created
<1>4. CASE Advanced(m)
  BY <1>0, <1>4 DEF Advanced
<1>5. CASE Saved(m)
  <2>1. /\ run[m].log = StageEntries
        /\ memos[m].status = "pending"
        /\ ~Logged(m, "generate.complete")
    BY <1>5, Nodes DEF Saved, MemoInv, RunsInOrder
  <2>2. \A a : Logged(m, a)' <=> Logged(m, a) \/ a \in StageEntries \/ a = "generate.complete"
    BY <1>5, <2>1 DEF Saved
  <2>3. "generate.start" \notin StageEntries /\ "generate.failed" \notin StageEntries
    BY DEF StageEntries
  <2>4. memos'[m].status = "complete"
    BY <1>5 DEF Saved
  <2>5. /\ Logged(m, "generate.start") /\ Logged(m, "generate.start")'
        /\ ~Logged(m, "generate.failed") /\ ~Logged(m, "generate.failed")'
    BY <1>0, <2>1, <2>2, <2>3
  <2> QED BY <2>2, <2>4, <2>5
<1>6. CASE Stopped(m)
  BY <1>0, <1>6 DEF Stopped
<1>7. CASE Failed(m)
  <2>1. Exists(m)
    <3>1. NoRun.phase = "none"
      BY DEF NoRun
    <3> QED BY <1>0, <1>7, <3>1 DEF Failed, RowsWellFormed
  <2>2. "generate.failed" \notin StageEntries
    BY DEF StageEntries
  <2> QED BY <1>0, <1>7, <2>1, <2>2 DEF Failed
<1> QED BY <1>0, <1>1, <1>2, <1>3, <1>4, <1>5, <1>6, <1>7, MemoStep

\* What is saved cites what was retrieved, which stays as it is once a memo is saved.
LEMMA GroundedStep ==
    ASSUME MemoInv, [Next]_vars
    PROVE  CitationsGrounded'
<1> SUFFICES ASSUME NEW m \in Memo, Logged(m, "generate.complete")'
             PROVE  Cited(memos'[m].output.sections)
                        \subseteq UNION {run'[m].retrieved[s] : s \in CC_SECTION_IDS}
  BY DEF CitationsGrounded, PassageMeta
<1>0. TypeOK /\ RowsWellFormed
  BY DEF MemoInv
<1>1. ASSUME Logged(m, "generate.complete")
      PROVE  /\ Cited(memos[m].output.sections)
                    \subseteq UNION {run[m].retrieved[s] : s \in CC_SECTION_IDS}
             /\ run[m].phase # "running"
             /\ Exists(m)
  <2>1. [action |-> "generate.complete", memo |-> m].memo = m
    OBVIOUS
  <2> QED BY <1>1, <2>1 DEF MemoInv, CitationsGrounded, RunsInOrder, PassageMeta, AuditOnRows,
                            Logged
<1> USE DEF LogsAlso
<1>2. CASE Rests(m) \/ Exported(m) \/ Advanced(m) \/ Stopped(m) \/ Failed(m)
  BY <1>1, <1>2 DEF Rests, Exported, Advanced, Stopped, Failed
<1>3. CASE Created(m)
  BY <1>1, <1>3 DEF Created
<1>4. CASE Saved(m)
  <2>1. Cited(run[m].final.sections) \subseteq UNION {run[m].retrieved[s] : s \in CC_SECTION_IDS}
    BY <1>4 DEF Saved, MemoInv, RunsInOrder, PassageMeta
  <2> QED BY <1>4, <2>1 DEF Saved
<1> QED BY <1>0, <1>2, <1>3, <1>4, MemoStep

--------------------------------------------------------------------------------
(***************************************************************************)
(* Rows, requests and locks.                                               *)
(***************************************************************************)

\* Rows that exist belong to a case; the others are blank and have no run.
LEMMA RowsStep ==
    ASSUME TypeOK, RowsWellFormed, RequestsWellFormed, [Next]_vars
    PROVE  RowsWellFormed'
<1>1. ASSUME NEW m \in Memo, Exists(m)'
      PROVE  memos'[m].case \in Case
  <2>1. CASE Exists(m)
    BY <2>1, RowsStable DEF RowsWellFormed
  <2>2. CASE ~Exists(m)
    <3>1. PICK s \in Session : CommitMemo(s, m)
      <4>1. CASE memos' = memos
        BY <1>1, <2>2, <4>1 DEF Exists
      <4>2. ASSUME NEW n \in Memo, Rewrites(n)
            PROVE  FALSE
        BY <1>1, <2>2, <4>2 DEF Rewrites, Exists
      <4>3. ASSUME NEW s \in Session, NEW n \in Memo, CommitMemo(s, n)
            PROVE  n = m
        BY <1>1, <2>2, <4>3, CommitCreates DEF Exists
      <4> QED BY <4>1, <4>2, <4>3, StepShape
    <3> QED BY <3>1, CommitCreates DEF CommitMemo, Holding, RequestsWellFormed
  <2> QED BY <2>1, <2>2
<1>2. ASSUME NEW m \in Memo, ~Exists(m)'
      PROVE  memos'[m] = NoRow /\ run'[m] = NoRun
  <2>1. memos[m] = NoRow /\ run[m] = NoRun
    BY <1>2, RowsStable DEF RowsWellFormed
  <2>2. NoRun.phase = "none"
    BY DEF NoRun
  <2>3. memos'[m].status = "absent"
    BY <1>2 DEF Exists
  <2>4. Rests(m) \/ Exported(m)
    BY <2>1, <2>2, <2>3, MemoStep DEF Created, Advanced, Saved, Stopped, Failed
  <2> QED BY <2>1, <2>4 DEF Rests, Exported
<1> QED BY <1>1, <1>2 DEF RowsWellFormed

\* A request is about a case, an export about a saved memo.
LEMMA RequestsStep ==
    ASSUME MemoInv, [Next]_vars
    PROVE  RequestsWellFormed'
<1> SUFFICES ASSUME NEW s \in Session
             PROVE  /\ req'[s].op = "generate" => req'[s].case \in Case
                    /\ req'[s].op = "export" => /\ req'[s].memo \in Memo
                                                /\ memos'[req'[s].memo].status # "absent"
                                                /\ [action |-> "generate.complete",
                                                    memo |-> req'[s].memo] \in audit'
  BY DEF RequestsWellFormed, Exists, Logged
<1> USE DEF MemoInv
<1>1. CASE req'[s] = req[s]
  BY <1>1, RowsStable, LogGrows DEF RequestsWellFormed, Exists, Logged
<1>2. CASE req'[s] = Idle
  BY <1>2 DEF Idle
<1>3. CASE LockCase(s)
  <2>1. /\ req'[s] = [req[s] EXCEPT !.version = NextVersion(req[s].case)]
        /\ req[s] \in Request
        /\ req[s].op = "generate"
    BY <1>3 DEF LockCase, Waiting, TypeOK
  <2> QED BY <2>1 DEF RequestsWellFormed, Request
<1>4. ASSUME NEW c \in Case, RequestMemo(s, c)
      PROVE  req'[s].op = "generate" /\ req'[s].case = c
  BY <1>4 DEF RequestMemo, Idle, TypeOK
<1>5. ASSUME NEW c \in Case, NEW m \in Memo, RequestExport(s, c, m)
      PROVE  /\ req'[s].op = "export" /\ req'[s].memo = m
             /\ memos'[m].status # "absent"
             /\ [action |-> "generate.complete", memo |-> m] \in audit'
  <2>1. memos[m].status = "complete" /\ memos' = memos /\ audit' = audit
    BY <1>5 DEF RequestExport
  <2>2. Logged(m, "generate.complete")
    BY <2>1 DEF MemosAudited
  <2> QED BY <1>5, <2>1, <2>2 DEF RequestExport, Idle, TypeOK, Logged
<1> QED BY <1>1, <1>2, <1>3, <1>4, <1>5, RequestShape

\* The lock of a case is held by a request for a memo of it.
LEMMA LockHeldStep ==
    ASSUME MemoInv, [Next]_vars
    PROVE  LockHeld'
<1> SUFFICES ASSUME NEW c \in Case, NEW s \in Session, lockedBy'[c] = s
             PROVE  req'[s].op = "generate" /\ req'[s].case = c
  BY DEF LockHeld
<1>1. CASE LockCase(s) /\ req[s].case = c
  BY <1>1 DEF LockCase, Waiting, MemoInv, TypeOK, Request
<1>2. CASE lockedBy[c] = s /\ req'[s] = req[s]
  BY <1>2 DEF MemoInv, LockHeld
<1> QED BY <1>1, <1>2, Holders DEF MemoInv

\* A case whose lock is held by a request for a memo is not deleted meanwhile.
LEMMA LockedNotDeletedStep ==
    ASSUME MemoInv, [Next]_vars
    PROVE  LockedNotDeleted'
<1> SUFFICES ASSUME NEW s \in Session, NEW c \in Case, req'[s].op = "generate",
                    req'[s].case = c, lockedBy'[c] = s
             PROVE  ~deleted'[c]
  BY RequestsStep DEF LockedNotDeleted, Holding, RequestsWellFormed
<1> USE NoneIsNone DEF MemoInv, TypeOK
<1>1. CASE LockCase(s) /\ req[s].case = c
  BY <1>1 DEF LockCase
<1>2. CASE lockedBy[c] = s /\ req'[s] = req[s]
  <2>1. ~deleted[c]
    BY <1>2 DEF LockedNotDeleted, Holding
  <2>2. ASSUME NEW t \in AdminSession, NEW x \in Case, DeleteCase(t, x) \/ RestoreCase(t, x)
        PROVE  deleted'[c] = deleted[c]
    BY <1>2, <2>2 DEF DeleteCase, RestoreCase
  <2>3. CASE \E m \in Memo : Works(m)
    BY <2>1, <2>3, WorkShape
  <2>4. CASE \/ UNCHANGED vars
             \/ \E t \in Session, x \in Case : RequestMemo(t, x)
             \/ \E t \in Session, x \in Case, m \in Memo : RequestExport(t, x, m)
             \/ \E t \in Session : \/ LockCase(t) \/ LockMissing(t) \/ CommitExport(t) \/ Abort(t)
                                   \/ \E m \in Memo : CommitMemo(t, m)
             \/ \E m \in Memo : \/ \E acked \in BOOLEAN : Save(m, acked)
                                \/ RunError(m) \/ RecordFailure(m) \/ RunDies(m)
    BY <2>1, <2>4 DEF vars, RequestMemo, RequestExport, LockCase, LockMissing, CommitExport, Abort,
                      CommitMemo, Save, RunError, RecordFailure, RunDies
  <2> QED BY <2>1, <2>2, <2>3, <2>4, Kinds
<1> QED BY <1>1, <1>2, Holders

--------------------------------------------------------------------------------
(***************************************************************************)
(* The numbering of versions.                                              *)
(***************************************************************************)

\* The largest element of a set that is an initial segment of the naturals.
LEMMA MaxOfSegment ==
    ASSUME NEW n \in Nat
    PROVE  Max({0} \cup 1 .. n) = n
<1>1. {0} \cup 1 .. n = 0 .. n
  OBVIOUS
<1>2. n \in 0 .. n /\ \A y \in 0 .. n : n >= y
  OBVIOUS
<1>3. \A x \in 0 .. n : (\A y \in 0 .. n : x >= y) => x = n
  BY <1>2
<1> QED BY <1>1, <1>2, <1>3 DEF Max

\* On a gap-free history the next number follows the last one, now and after a step.
LEMMA NextVersionFollows ==
    ASSUME NEW c \in Case, NEW n \in Nat, Versions(c) = 1 .. n
    PROVE  NextVersion(c) = n + 1
BY MaxOfSegment DEF NextVersion, Versions

LEMMA NextVersionFollowsPrime ==
    ASSUME NEW c \in Case, NEW n \in Nat, Versions(c)' = 1 .. n
    PROVE  NextVersion(c)' = n + 1
BY MaxOfSegment DEF NextVersion, Versions

\* The history of a case changes only when a memo is added to it.
LEMMA HistoryUnchanged ==
    ASSUME MemoInv, [Next]_vars, NEW c \in Case,
           ~ \E s \in Session, m \in Memo : CommitMemo(s, m) /\ req[s].case = c
    PROVE  /\ Versions(c)' = Versions(c)
           /\ NextVersion(c)' = NextVersion(c)
<1> USE DEF MemoInv
<1>1. \A m \in Memo : Exists(m)' /\ ~Exists(m) => memos'[m].case # c
  <2> SUFFICES ASSUME NEW m \in Memo, Exists(m)', ~Exists(m)
               PROVE  memos'[m].case # c
    OBVIOUS
  <2>1. memos' # memos
    BY DEF Exists
  <2>2. ASSUME NEW n \in Memo, Rewrites(n)
        PROVE  FALSE
    BY <2>2 DEF Rewrites, Exists
  <2>3. ASSUME NEW s \in Session, NEW n \in Memo, CommitMemo(s, n)
        PROVE  memos'[m].case # c
    BY <2>3, CommitCreates DEF Exists
  <2> QED BY <2>1, <2>2, <2>3, StepShape
<1>2. MemosOf(c)' = MemosOf(c)
  BY <1>1, RowsStable DEF MemosOf
<1>3. \A m \in MemosOf(c) : memos'[m].version = memos[m].version
  BY RowsStable DEF MemosOf
<1>4. {memos[m].version : m \in MemosOf(c)}' = {memos[m].version : m \in MemosOf(c)}
  BY <1>2, <1>3
<1> QED BY <1>4 DEF Versions, NextVersion

\* A new memo extends the gap-free history of its case by one.
LEMMA HistoryExtended ==
    ASSUME MemoInv, NEW s \in Session, NEW m \in Memo, CommitMemo(s, m),
           NEW c \in Case, req[s].case = c
    PROVE  /\ Versions(c)' = 1 .. NextVersion(c)
           /\ NextVersion(c)' = NextVersion(c) + 1
<1> USE DEF MemoInv
<1>1. PICK n \in Nat \ {0} : /\ n = NextVersion(c)
                             /\ Versions(c) = 1 .. (n - 1)
                             /\ req[s].version = n
  BY DEF VersionsDense, HolderNumbers, CommitMemo
<1>2. /\ ~Exists(m) /\ Exists(m)'
      /\ memos'[m].case = c /\ memos'[m].version = n
      /\ \A x \in Memo \ {m} : memos'[x] = memos[x]
  BY <1>1, CommitCreates DEF CommitMemo
<1>3. MemosOf(c)' = MemosOf(c) \cup {m}
  BY <1>2 DEF MemosOf, Exists
<1>4. \A x \in MemosOf(c) : memos'[x] = memos[x]
  BY <1>2 DEF MemosOf
<1>5. Versions(c)' = Versions(c) \cup {n}
  BY <1>2, <1>3, <1>4 DEF Versions
<1>6. Versions(c)' = 1 .. n
  BY <1>1, <1>5
<1>7. NextVersion(c)' = n + 1
  BY <1>6, NextVersionFollowsPrime
<1> QED BY <1>1, <1>6, <1>7

\* The memos of a case stay numbered without a gap.
LEMMA DenseStep ==
    ASSUME MemoInv, [Next]_vars
    PROVE  VersionsDense'
<1> SUFFICES ASSUME NEW c \in Case
             PROVE  /\ NextVersion(c)' \in Nat \ {0}
                    /\ Versions(c)' = 1 .. (NextVersion(c)' - 1)
  BY DEF VersionsDense
<1>1. NextVersion(c) \in Nat \ {0} /\ Versions(c) = 1 .. (NextVersion(c) - 1)
  BY DEF MemoInv, VersionsDense
<1>2. CASE \E s \in Session, m \in Memo : CommitMemo(s, m) /\ req[s].case = c
  BY <1>1, <1>2, HistoryExtended
<1>3. CASE ~ \E s \in Session, m \in Memo : CommitMemo(s, m) /\ req[s].case = c
  BY <1>1, <1>3, HistoryUnchanged
<1> QED BY <1>2, <1>3

\* While a session holds the lock of a case its number stays the next one.
LEMMA HolderNumbersStep ==
    ASSUME MemoInv, [Next]_vars
    PROVE  HolderNumbers'
<1> SUFFICES ASSUME NEW s \in Session, NEW c \in Case, req'[s].op = "generate",
                    req'[s].case = c, lockedBy'[c] = s
             PROVE  req'[s].version = NextVersion(c)'
  BY RequestsStep DEF HolderNumbers, Holding, RequestsWellFormed
<1> USE DEF MemoInv, TypeOK
<1>1. CASE LockCase(s) /\ req[s].case = c
  <2>1. memos' = memos /\ req'[s].version = NextVersion(c)
    BY <1>1 DEF LockCase, Request
  <2>2. NextVersion(c)' = NextVersion(c)
    BY <2>1 DEF NextVersion, MemosOf, Exists
  <2> QED BY <2>1, <2>2
<1>2. CASE lockedBy[c] = s /\ req'[s] = req[s]
  <2>1. Holding(s) /\ req[s].version = NextVersion(c)
    BY <1>2 DEF Holding, HolderNumbers
  <2>2. ASSUME NEW t \in Session, NEW m \in Memo, CommitMemo(t, m), req[t].case = c
        PROVE  FALSE
    <3>1. t = s
      BY <1>2, <2>2 DEF CommitMemo, Holding
    <3>2. req'[s].op = "idle"
      BY <2>2, <3>1 DEF CommitMemo, Answer, Idle
    <3> QED BY <3>2
  <2> QED BY <1>2, <2>1, <2>2, HistoryUnchanged
<1> QED BY <1>1, <1>2, Holders

--------------------------------------------------------------------------------
(***************************************************************************)
(* The types, and the invariant.                                           *)
(***************************************************************************)

\* Every step keeps the types; the number of a new version has its type only on a gap-free
\* history.
LEMMA TypeStep ==
    ASSUME MemoInv, [Next]_vars
    PROVE  TypeOK'
<1> USE DEF TypeOK
<1>0. TypeOK
  BY DEF MemoInv
<1>1. ASSUME NEW s \in Session, NEW c \in Case,
             RequestMemo(s, c) \/ \E m \in Memo : RequestExport(s, c, m)
      PROVE  TypeOK'
  <2>1. /\ [Idle EXCEPT !.op = "generate", !.case = c] \in Request
        /\ \A m \in Memo : [Idle EXCEPT !.op = "export", !.case = c, !.memo = m] \in Request
    BY Blanks DEF Request
  <2>2. CASE RequestMemo(s, c)
    BY <1>0, <2>1, <2>2 DEF RequestMemo
  <2>3. CASE \E m \in Memo : RequestExport(s, c, m)
    BY <1>0, <2>1, <2>3 DEF RequestExport
  <2> QED BY <1>1, <2>2, <2>3
<1>2. ASSUME NEW s \in Session, LockCase(s)
      PROVE  TypeOK'
  <2>1. NextVersion(req[s].case) \in Nat
    BY <1>2 DEF MemoInv, LockCase, Waiting, RequestsWellFormed, VersionsDense
  <2>2. [req[s] EXCEPT !.version = NextVersion(req[s].case)] \in Request
    BY <1>0, <2>1 DEF Request
  <2> QED BY <1>0, <1>2, <2>2 DEF LockCase
<1>3. ASSUME NEW s \in Session, LockMissing(s) \/ Abort(s)
      PROVE  TypeOK'
  BY <1>0, <1>3, Blanks DEF LockMissing, Abort, Release, Answer
<1>4. ASSUME NEW s \in Session, CommitExport(s)
      PROVE  TypeOK'
  <2>1. req[s].memo \in Memo
    BY <1>4 DEF MemoInv, RequestsWellFormed, CommitExport
  <2>2. audit' \subseteq AuditEntry
    BY <1>0, <1>4, <2>1, EntriesType DEF CommitExport, Record
  <2> QED BY <1>0, <1>4, <2>2, Blanks DEF CommitExport, Answer
<1>5. ASSUME NEW s \in Session, NEW m \in Memo, CommitMemo(s, m)
      PROVE  TypeOK'
  <2>1. [NoRow EXCEPT !.status = "pending", !.case = req[s].case, !.version = req[s].version]
            \in MemoRow
    BY <1>0, Blanks DEF MemoRow, MemoStatus, Request
  <2>2. memos' \in [Memo -> MemoRow]
    BY <1>0, <1>5, <2>1 DEF CommitMemo
  <2>3. [run[m] EXCEPT !.phase = "running"] \in Run
    BY <1>0 DEF Run
  <2>4. run' \in [Memo -> Run]
    BY <1>0, <1>5, <2>3 DEF CommitMemo
  <2>5. audit' \subseteq AuditEntry
    BY <1>0, <1>5, EntriesType DEF CommitMemo, Record
  <2> QED BY <1>0, <1>5, <2>2, <2>4, <2>5, Blanks DEF CommitMemo, Release, Answer
<1>6. ASSUME NEW m \in Memo, Works(m)
      PROVE  TypeOK'
  <2>1. PICK r \in Run : run' = [run EXCEPT ![m] = r]
    BY <1>0, <1>6, WorkShape DEF Worked
  <2>2. /\ checkpoint' = [checkpoint EXCEPT ![m] = run[m].at + 1]
        /\ run[m].at \in 0 .. (Len(Node) - 1)
        /\ UNCHANGED <<memos, req, lockedBy, deleted, audit>>
    BY <1>0, <1>6, WorkShape
  <2>3. checkpoint' \in [Memo -> 0 .. Len(Node)]
    BY <1>0, <2>2, Nodes
  <2> QED BY <1>0, <2>1, <2>2, <2>3
<1>7. ASSUME NEW m \in Memo, NEW acked \in BOOLEAN, Save(m, acked)
      PROVE  TypeOK'
  <2>0. run[m] \in Run
    BY <1>0
  <2>1. [memos[m] EXCEPT !.status = "complete", !.output = run[m].final] \in MemoRow
    <3>1. memos[m] \in MemoRow /\ run[m].final \in Output
      BY <1>0, <2>0 DEF Run
    <3> HIDE DEF TypeOK
    <3> QED BY <3>1 DEF MemoRow, MemoStatus
  <2>2. memos' \in [Memo -> MemoRow]
    <3>1. memos' = [memos EXCEPT ![m] = [memos[m] EXCEPT !.status = "complete",
                                                         !.output = run[m].final]]
      BY <1>0, <1>7 DEF Save
    <3> QED BY <1>0, <2>1, <3>1
  <2>3. [NoRun EXCEPT !.phase = IF acked THEN "none" ELSE "failing",
                      !.retrieved = run[m].retrieved] \in Run
    BY <2>0, Blanks DEF Run
  <2>4. run' \in [Memo -> Run]
    BY <1>0, <1>7, <2>3 DEF Save
  <2>5. audit' \subseteq AuditEntry
    BY <1>0, <1>7, <2>0, EntriesType DEF Save, Record, Run
  <2> QED BY <1>0, <1>7, <2>2, <2>4, <2>5 DEF Save
<1>8. ASSUME NEW m \in Memo, RunError(m) \/ RunDies(m)
      PROVE  TypeOK'
  <2>1. /\ [NoRun EXCEPT !.phase = "failing"] \in Run
        /\ [NoRun EXCEPT !.phase = "lost", !.retrieved = run[m].retrieved] \in Run
    <3>1. PICK found \in [CC_SECTION_IDS -> SUBSET Passage] : found = run[m].retrieved
      BY <1>0 DEF Run
    <3>2. [NoRun EXCEPT !.phase = "failing"] \in Run
      BY Blanks DEF Run
    <3>3. [NoRun EXCEPT !.phase = "lost", !.retrieved = found] \in Run
      BY Blanks DEF Run
    <3> QED BY <3>1, <3>2, <3>3
  <2> QED BY <1>0, <1>8, <2>1 DEF RunError, RunDies
<1>9. ASSUME NEW m \in Memo, RecordFailure(m)
      PROVE  TypeOK'
  <2>1. [memos[m] EXCEPT !.status = "failed"] \in MemoRow /\ [run[m] EXCEPT !.phase = "none"] \in Run
    <3>1. memos[m] \in MemoRow /\ run[m] \in Run
      BY <1>0
    <3>2. [memos[m] EXCEPT !.status = "failed"] \in MemoRow
      BY <3>1 DEF MemoRow, MemoStatus
    <3>3. [run[m] EXCEPT !.phase = "none"] \in Run
      BY <3>1 DEF Run
    <3> QED BY <3>2, <3>3
  <2>2. memos' \in [Memo -> MemoRow] /\ run' \in [Memo -> Run]
    BY <1>0, <1>9, <2>1 DEF RecordFailure
  <2>3. audit' \subseteq AuditEntry
    BY <1>0, <1>9, EntriesType DEF RecordFailure, Record
  <2> QED BY <1>0, <1>9, <2>2, <2>3 DEF RecordFailure
<1>10. ASSUME NEW s \in AdminSession, NEW c \in Case, DeleteCase(s, c) \/ RestoreCase(s, c)
       PROVE  TypeOK'
  BY <1>0, <1>10 DEF DeleteCase, RestoreCase
<1>11. CASE UNCHANGED vars
  BY <1>0, <1>11 DEF vars
<1> QED BY <1>1, <1>2, <1>3, <1>4, <1>5, <1>6, <1>7, <1>8, <1>9, <1>10, <1>11, Kinds

\* The invariant holds at the start ...
LEMMA MemoInit == Init => MemoInv
<1> SUFFICES ASSUME Init PROVE MemoInv
  OBVIOUS
<1>1. TypeOK
  BY Blanks, Nodes DEF Init, TypeOK
<1>2. /\ \A m \in Memo : ~Exists(m) /\ memos[m] = NoRow /\ run[m] = NoRun
      /\ \A s \in Session : req[s].op = "idle"
      /\ audit = {}
  BY DEF Init, Exists, NoRow, Idle
<1>3. RowsWellFormed /\ RequestsWellFormed /\ HolderNumbers /\ LockedNotDeleted
  BY <1>2 DEF RowsWellFormed, RequestsWellFormed, HolderNumbers, LockedNotDeleted, Holding
<1>4. LockHeld
  BY NoneIsNone DEF LockHeld, Init
<1>5. VersionsDense
  <2> SUFFICES ASSUME NEW c \in Case
               PROVE  NextVersion(c) \in Nat \ {0} /\ Versions(c) = 1 .. (NextVersion(c) - 1)
    BY DEF VersionsDense
  <2>1. Versions(c) = 1 .. 0
    BY <1>2 DEF Versions, MemosOf
  <2> QED BY <2>1, NextVersionFollows
<1>6. RunsInOrder
  <2>1. NoRun.phase = "none"
    BY DEF NoRun
  <2> QED BY <1>2, <2>1 DEF RunsInOrder
<1>7. AuditOnRows /\ CitationsGrounded
  BY <1>2 DEF AuditOnRows, CitationsGrounded, Logged
<1>8. MemosAudited
  BY <1>2 DEF MemosAudited, Logged, Exists
<1> QED BY <1>1, <1>3, <1>4, <1>5, <1>6, <1>7, <1>8 DEF MemoInv

\* ... and every step keeps it.
LEMMA MemoInvStep == MemoInv /\ [Next]_vars => MemoInv'
<1> SUFFICES ASSUME MemoInv, [Next]_vars PROVE MemoInv'
  OBVIOUS
<1>1. RowsWellFormed'
  BY RowsStep DEF MemoInv
<1> QED BY <1>1, TypeStep, RequestsStep, LockHeldStep, DenseStep, HolderNumbersStep,
           LockedNotDeletedStep, RunsInOrderStep, AuditOnRowsStep, AuditedStep, GroundedStep
        DEF MemoInv

--------------------------------------------------------------------------------
(***************************************************************************)
(* The citations of a memo.                                                *)
(***************************************************************************)

\* What FlattenSeq has put together after n lists, in terms of what it had before.
Joined(before, lists, n) == IF n = 1 THEN lists[n] ELSE before[n - 1] \o lists[n]

\* There is a function with the recursive definition of FlattenSeq.
LEMMA JoinedExists ==
    ASSUME NEW V, NEW L \in Nat \ {0}, NEW lists \in [1 .. L -> Seq(V)]
    PROVE  \E f : f = [n \in 1 .. L |-> Joined(f, lists, n)]
<1> DEFINE Upto(k) == {f \in [1 .. k -> Seq(V)] : \A n \in 1 .. k : f[n] = Joined(f, lists, n)}
           Good == {k \in Nat : k <= L => Upto(k) # {}}
<1> HIDE DEF Upto
<1>1. 0 \in Good
  <2>1. <<>> \in [1 .. 0 -> Seq(V)] /\ \A n \in 1 .. 0 : <<>>[n] = Joined(<<>>, lists, n)
    OBVIOUS
  <2>2. <<>> \in Upto(0)
    BY <2>1 DEF Upto
  <2> QED BY <2>2
<1>2. ASSUME NEW k \in Nat, k \in Good
      PROVE  k + 1 \in Good
  <2> SUFFICES ASSUME k + 1 <= L PROVE Upto(k + 1) # {}
    OBVIOUS
  <2>1. PICK f \in Upto(k) : TRUE
    BY <1>2
  <2>2. f \in [1 .. k -> Seq(V)] /\ \A n \in 1 .. k : f[n] = Joined(f, lists, n)
    BY <2>1 DEF Upto
  <2> DEFINE g == [n \in 1 .. k + 1 |-> IF n <= k THEN f[n] ELSE Joined(f, lists, k + 1)]
  <2>3. Joined(f, lists, k + 1) \in Seq(V)
    <3>1. lists[k + 1] \in Seq(V) /\ (k + 1 # 1 => k + 1 - 1 \in 1 .. k)
      OBVIOUS
    <3>2. k + 1 # 1 => f[k + 1 - 1] \in Seq(V)
      BY <2>2, <3>1
    <3> QED BY <3>1, <3>2 DEF Joined
  <2>4. g \in [1 .. k + 1 -> Seq(V)]
    BY <2>2, <2>3
  <2>5. ASSUME NEW n \in 1 .. k + 1
        PROVE  g[n] = Joined(g, lists, n)
    <3>1. n # 1 => g[n - 1] = f[n - 1]
      OBVIOUS
    <3>2. Joined(g, lists, n) = Joined(f, lists, n)
      BY <3>1 DEF Joined
    <3>3. n <= k \/ n = k + 1
      OBVIOUS
    <3> QED BY <2>2, <3>2, <3>3
  <2>6. g \in Upto(k + 1)
    BY <2>4, <2>5 DEF Upto
  <2> QED BY <2>6
<1> HIDE DEF Good
<1>3. Nat \subseteq Good
  BY <1>1, <1>2, InductionBySet
<1>4. PICK f \in Upto(L) : TRUE
  BY <1>3 DEF Good
<1>5. f = [n \in 1 .. L |-> Joined(f, lists, n)]
  BY <1>4 DEF Upto
<1> QED BY <1>5

\* What two lists make together.
LEMMA ConcatHasBoth ==
    ASSUME NEW V, NEW s \in Seq(V), NEW t \in Seq(V)
    PROVE  /\ s \o t \in Seq(V)
           /\ Len(s \o t) = Len(s) + Len(t)
           /\ \A i \in DOMAIN s : i \in DOMAIN (s \o t) /\ (s \o t)[i] = s[i]
           /\ \A i \in DOMAIN t : /\ Len(s) + i \in DOMAIN (s \o t)
                                  /\ (s \o t)[Len(s) + i] = t[i]
OBVIOUS

\* FlattenSeq returns a list with every element of every list.
LEMMA FlattenHasAll ==
    ASSUME NEW V, NEW L \in Nat, NEW lists \in [1 .. L -> Seq(V)]
    PROVE  /\ FlattenSeq(lists) \in Seq(V)
           /\ \A k \in 1 .. L : \A j \in DOMAIN lists[k] :
                  \E i \in DOMAIN FlattenSeq(lists) : FlattenSeq(lists)[i] = lists[k][j]
<1>1. lists \in Seq(Seq(V)) /\ Len(lists) = L
  OBVIOUS
<1>2. CASE L = 0
  <2>1. FlattenSeq(lists) = lists /\ lists = <<>>
    BY <1>1, <1>2 DEF FlattenSeq
  <2> QED BY <1>2, <2>1
<1>3. CASE L # 0
  <2> DEFINE f == CHOOSE g : g = [n \in 1 .. L |-> Joined(g, lists, n)]
             Sound(n) == /\ f[n] \in Seq(V)
                         /\ \A k \in 1 .. n : \A j \in DOMAIN lists[k] :
                                \E i \in DOMAIN f[n] : f[n][i] = lists[k][j]
             Good == {n \in Nat : n \in 1 .. L => Sound(n)}
  <2>1. f = [n \in 1 .. L |-> Joined(f, lists, n)]
    <3>1. L \in Nat \ {0}
      BY <1>3
    <3>2. \E g : g = [n \in 1 .. L |-> Joined(g, lists, n)]
      BY <3>1, JoinedExists
    <3> QED BY <3>2
  <2>2. FlattenSeq(lists) = f[L]
    BY <1>1, <1>3 DEF FlattenSeq, Joined
  <2> HIDE DEF f, Sound
  <2>3. \A n \in 1 .. L : f[n] = Joined(f, lists, n)
    BY <2>1
  <2>4. 0 \in Good
    OBVIOUS
  <2>5. ASSUME NEW n \in Nat, n \in Good
        PROVE  n + 1 \in Good
    <3> SUFFICES ASSUME n + 1 \in 1 .. L PROVE Sound(n + 1)
      OBVIOUS
    <3>1. lists[n + 1] \in Seq(V)
      OBVIOUS
    <3>2. CASE n = 0
      <4>1. f[1] = lists[1]
        BY <2>3, <3>2 DEF Joined
      <4>2. \A k \in 1 .. 1 : k = 1
        OBVIOUS
      <4> QED BY <3>1, <3>2, <4>1, <4>2 DEF Sound
    <3>3. CASE n # 0
      <4>1. /\ f[n] \in Seq(V) /\ f[n + 1] = f[n] \o lists[n + 1]
            /\ \A k \in 1 .. n : \A j \in DOMAIN lists[k] :
                   \E i \in DOMAIN f[n] : f[n][i] = lists[k][j]
        <5>1. n \in 1 .. L /\ n + 1 # 1 /\ n + 1 - 1 = n
          BY <3>3
        <5>2. Sound(n)
          BY <2>5, <5>1
        <5>3. f[n + 1] = f[n] \o lists[n + 1]
          <6>1. \A m \in 1 .. L : m # 1 => f[m] = f[m - 1] \o lists[m]
            BY <2>3, Zenon DEF Joined
          <6>2. PICK m \in 1 .. L : m = n + 1
            OBVIOUS
          <6>3. m # 1 /\ m - 1 = n
            BY <5>1, <6>2
          <6>4. f[m] = f[m - 1] \o lists[m]
            BY <6>1, <6>3, Zenon
          <6> QED BY <6>2, <6>3, <6>4, Zenon
        <5> QED BY <5>2, <5>3 DEF Sound
      <4>2. /\ f[n + 1] \in Seq(V)
            /\ Len(f[n + 1]) = Len(f[n]) + Len(lists[n + 1])
            /\ \A i \in DOMAIN f[n] : i \in DOMAIN f[n + 1] /\ f[n + 1][i] = f[n][i]
            /\ \A i \in DOMAIN lists[n + 1] : /\ Len(f[n]) + i \in DOMAIN f[n + 1]
                                              /\ f[n + 1][Len(f[n]) + i] = lists[n + 1][i]
        <5> DEFINE s == f[n]
                   t == lists[n + 1]
        <5>1. s \in Seq(V) /\ t \in Seq(V) /\ f[n + 1] = s \o t
          BY <3>1, <4>1
        <5> HIDE DEF s, t
        <5>2. /\ s \o t \in Seq(V)
              /\ Len(s \o t) = Len(s) + Len(t)
              /\ \A i \in DOMAIN s : i \in DOMAIN (s \o t) /\ (s \o t)[i] = s[i]
              /\ \A i \in DOMAIN t : /\ Len(s) + i \in DOMAIN (s \o t)
                                     /\ (s \o t)[Len(s) + i] = t[i]
          BY <5>1, ConcatHasBoth
        <5> QED BY <5>1, <5>2 DEF s, t
      <4>3. ASSUME NEW k \in 1 .. n + 1, NEW j \in DOMAIN lists[k]
            PROVE  \E i \in DOMAIN f[n + 1] : f[n + 1][i] = lists[k][j]
        <5>1. CASE k \in 1 .. n
          BY <4>1, <4>2, <5>1
        <5>2. CASE k = n + 1
          BY <4>2, <5>2
        <5> QED BY <5>1, <5>2
      <4> QED BY <4>2, <4>3 DEF Sound
    <3> QED BY <3>2, <3>3
  <2> HIDE DEF Good
  <2>6. Nat \subseteq Good
    BY <2>4, <2>5, InductionBySet
  <2>7. Sound(L)
    BY <1>3, <2>6 DEF Good
  <2> QED BY <2>2, <2>7 DEF Sound
<1> QED BY <1>2, <1>3

\* The citations of the sections are a list, which every section's citations are on.
LEMMA CitationsListed ==
    ASSUME NEW bodies \in Bodies
    PROVE  /\ CitesIn(bodies) \in Seq(Passage)
           /\ \A s \in DOMAIN bodies : \A i \in DOMAIN bodies[s] : bodies[s][i] \in Cited(bodies)
<1>1. BoundedSeq(Passage, MaxCites) \subseteq Seq(Passage)
  BY CiteBound DEF BoundedSeq, SeqOf
<1>2. bodies \in [1 .. Sections -> Seq(Passage)]
  BY <1>1 DEF Bodies, CC_SECTION_IDS
<1>3. /\ FlattenSeq(bodies) \in Seq(Passage)
      /\ \A s \in 1 .. Sections : \A j \in DOMAIN bodies[s] :
             \E i \in DOMAIN FlattenSeq(bodies) : FlattenSeq(bodies)[i] = bodies[s][j]
  BY <1>2, SectionCount, FlattenHasAll
<1> QED BY <1>2, <1>3 DEF CitesIn, Cited, ToSet

\* Passages are cited first at the places of FirstPlaces, and nowhere else twice.
LEMMA CitedFirst ==
    ASSUME NEW cites \in Seq(Passage), NEW p \in ToSet(cites)
    PROVE  \E i \in DOMAIN cites : i \in FirstPlaces(cites) /\ cites[i] = p
<1> DEFINE at == {i \in DOMAIN cites : cites[i] = p}
<1>1. at \in SUBSET Nat /\ at # {}
  BY DEF ToSet
<1> HIDE DEF at
<1>2. PICK i \in at : \A j \in at : i <= j
  BY <1>1, LeastNumber
<1>3. i \in DOMAIN cites /\ cites[i] = p
  BY <1>2 DEF at
<1>4. \A j \in 1 .. (i - 1) : cites[j] # p
  <2> SUFFICES ASSUME NEW j \in 1 .. (i - 1), cites[j] = p PROVE FALSE
    OBVIOUS
  <2>1. j \in at /\ j < i
    BY <1>3 DEF at
  <2> QED BY <1>1, <1>2, <2>1
<1> QED BY <1>3, <1>4 DEF FirstPlaces

\* The bibliography lists what is cited, each passage where it is cited first
\* (build_bibliography).
LEMMA BibliographyInOrder ==
    ASSUME NEW cites \in Seq(Passage)
    PROVE  LET entries == Picked(cites, FirstPlaces(cites))
               first(p) == CHOOSE i \in DOMAIN cites :
                               cites[i] = p /\ \A j \in 1 .. (i - 1) : cites[j] # p
           IN  /\ ToSet(entries) = ToSet(cites)
               /\ \A i, j \in DOMAIN entries : i < j => first(entries[i]) < first(entries[j])
<1> DEFINE entries == Picked(cites, FirstPlaces(cites))
           K == DOMAIN cites \cap FirstPlaces(cites)
           first(p) == CHOOSE i \in DOMAIN cites :
                           cites[i] = p /\ \A j \in 1 .. (i - 1) : cites[j] # p
<1>1. entries \in Seq(Passage) /\ ListsPlaces(entries, cites, K)
  BY PickedListsPlaces
<1> HIDE DEF entries
<1>2. PICK place : /\ Enumerates(place, Len(entries), K)
                   /\ \A i \in 1 .. Len(entries) : entries[i] = cites[place[i]]
  BY <1>1 DEF ListsPlaces
<1>3. DOMAIN entries = 1 .. Len(entries)
  BY <1>1
<1>4. \A i \in DOMAIN entries : place[i] \in K
  BY <1>2, <1>3 DEF Enumerates
<1>5. ToSet(entries) \subseteq ToSet(cites)
  BY <1>2, <1>3, <1>4 DEF ToSet
<1>6. ASSUME NEW p \in ToSet(cites)
      PROVE  p \in ToSet(entries)
  <2>1. PICK k \in K : cites[k] = p
    BY CitedFirst
  <2>2. PICK i \in 1 .. Len(entries) : place[i] = k
    BY <1>2 DEF Enumerates
  <2> QED BY <1>2, <1>3, <2>1, <2>2 DEF ToSet
<1>7. ASSUME NEW k \in K
      PROVE  first(cites[k]) = k
  <2>1. k \in DOMAIN cites /\ \A j \in 1 .. (k - 1) : cites[j] # cites[k]
    BY DEF FirstPlaces
  <2>2. ASSUME NEW i \in DOMAIN cites, cites[i] = cites[k],
               \A j \in 1 .. (i - 1) : cites[j] # cites[k]
        PROVE  i = k
    <3>1. i \in Nat \ {0} /\ k \in Nat \ {0}
      OBVIOUS
    <3>2. ~(i < k) /\ ~(k < i)
      BY <2>1, <2>2, <3>1
    <3> QED BY <3>1, <3>2
  <2> QED BY <2>1, <2>2
<1>8. ASSUME NEW i \in DOMAIN entries, NEW j \in DOMAIN entries, i < j
      PROVE  first(entries[i]) < first(entries[j])
  <2>1. place[i] < place[j] /\ entries[i] = cites[place[i]] /\ entries[j] = cites[place[j]]
    BY <1>2, <1>3, <1>8 DEF Enumerates
  <2> HIDE DEF first
  <2>2. first(entries[i]) = place[i] /\ first(entries[j]) = place[j]
    BY <1>4, <1>7, <2>1
  <2> QED BY <2>1, <2>2
<1>9. ToSet(entries) = ToSet(cites)
  BY <1>5, <1>6
<1> QED BY <1>8, <1>9 DEF entries

\* The sorted rows have the passage that a number stands for at that number
\* (_sorted_bibliography_rows, _citation_index_by_passage_id).
LEMMA NumberLeadsToRow ==
    ASSUME NEW bodies \in Bodies, NEW p \in Cited(bodies)
    PROVE  SortedRows(bodies)[CitationIndex(bodies)[p]] = p
<1> DEFINE cites == CitesIn(bodies)
           C == Cited(bodies)
           rows == SortedRows(bodies)
<1>1. cites \in Seq(Passage) /\ C = ToSet(cites)
  BY CitationsListed DEF Cited
<1>2. IsFiniteSet(C)
  <2>1. cites \in [1 .. Len(cites) -> C] /\ Len(cites) \in Nat
    BY <1>1 DEF ToSet
  <2>2. \A q \in C : \E i \in 1 .. Len(cites) : cites[i] = q
    BY <1>1 DEF ToSet
  <2> QED BY <2>1, <2>2, ListOfAll
<1>3. /\ \A q \in C : SortKey[q] \in Nat
      /\ \A q, r \in C : SortKey[q] = SortKey[r] => q = r
  <2>1. C \subseteq Passage
    BY <1>1 DEF ToSet
  <2> QED BY <2>1, SortKeys
<1>4. SortedBy(rows, C, SortKey)
  <2>1. \E sorted : SortedBy(sorted, C, SortKey)
    BY <1>2, <1>3, SortedExists
  <2> QED BY <2>1 DEF SortedRows, SortedBy
<1>5. \E i \in DOMAIN rows : rows[i] = p
  BY <1>2, <1>3, <1>4, SortedHasAll
<1> QED BY <1>5 DEF CitationIndex

--------------------------------------------------------------------------------
(***************************************************************************)
(* The theorems.                                                           *)
(***************************************************************************)

\* The table, the runs, the requests, the locks and the log fit together in every state.
THEOREM MemosSafe == Spec => []MemoInv
BY MemoInit, MemoInvStep, PTL DEF Spec

\* Every variable keeps its type.
THEOREM TypeCorrect == Spec => []TypeOK
<1>1. MemoInv => TypeOK
  BY DEF MemoInv
<1> QED BY <1>1, MemosSafe, PTL

\* A memo that was saved cites only what the searches of its own run returned
\* (build_bibliography rejects what no section retrieved).
THEOREM CitationsAreGrounded == Spec => []CitationsGrounded
<1>1. MemoInv => CitationsGrounded
  BY DEF MemoInv
<1> QED BY <1>1, MemosSafe, PTL

\* The stored bibliography lists every cited passage once, in the order in which the memo
\* cites them first (build_bibliography).
THEOREM BibliographyIsExact == Spec => []BibliographyExact
<1>1. ASSUME TypeOK, NEW m \in Memo
      PROVE  \E bodies \in Bodies : memos[m].output = FinalMemo(bodies)
  BY <1>1 DEF TypeOK, MemoRow, Output
<1>2. ASSUME TypeOK, NEW m \in Memo
      PROVE  /\ CitesIn(memos[m].output.sections) \in Seq(Passage)
             /\ memos[m].output.bibliography =
                    Picked(CitesIn(memos[m].output.sections),
                           FirstPlaces(CitesIn(memos[m].output.sections)))
  <2>1. PICK bodies \in Bodies : memos[m].output = FinalMemo(bodies)
    BY <1>1, <1>2
  <2>2. /\ FinalMemo(bodies).sections = bodies
        /\ FinalMemo(bodies).bibliography = Bibliography(bodies)
    BY DEF FinalMemo
  <2> QED BY <2>1, <2>2, CitationsListed DEF Bibliography
<1>3. TypeOK => BibliographyExact
  BY <1>2, BibliographyInOrder DEF BibliographyExact
<1> QED BY <1>3, TypeCorrect, PTL

\* In the exported document every superscript leads to the row of the passage that the text
\* cites (_append_prose_with_citations, _sorted_bibliography_rows).
THEOREM SuperscriptsAlwaysResolve == Spec => []SuperscriptsResolve
<1>1. ASSUME TypeOK, NEW m \in Memo
      PROVE  memos[m].output.sections \in Bodies
  BY <1>1, FinalMemoParts DEF TypeOK, MemoRow, Output
<1>2. ASSUME NEW bodies \in Bodies, NEW s \in DOMAIN bodies, NEW i \in DOMAIN bodies[s]
      PROVE  SortedRows(bodies)[Superscripts(bodies)[s][i]] = bodies[s][i]
  <2>1. bodies[s][i] \in Cited(bodies)
    BY CitationsListed
  <2> QED BY <2>1, NumberLeadsToRow DEF Superscripts
<1>3. TypeOK => SuperscriptsResolve
  BY <1>1, <1>2 DEF SuperscriptsResolve
<1> QED BY <1>3, TypeCorrect, PTL

\* Rows and audit log of the memos tell the same story (_run_graph_background commits both
\* at once).
THEOREM MemosAreAudited == Spec => []MemosAudited
<1>1. MemoInv => MemosAudited
  BY DEF MemoInv
<1> QED BY <1>1, MemosSafe, PTL

\* No memo is added to a deleted case (the deleted_at condition of _lock_case).
THEOREM NoMemoOnDeletedCaseSafe == Spec => NoMemoOnDeletedCase
<1>1. MemoInv /\ [Next]_vars
          => [\A m \in Memo : ~Exists(m) /\ Exists(m)' => ~deleted'[memos'[m].case]]_vars
  <2> SUFFICES ASSUME MemoInv, [Next]_vars, NEW m \in Memo, ~Exists(m), Exists(m)'
               PROVE  ~deleted'[memos'[m].case]
    OBVIOUS
  <2>1. ASSUME NEW s \in Session, NEW n \in Memo, CommitMemo(s, n)
        PROVE  ~deleted'[memos'[m].case]
    <3>1. n = m
      BY <2>1, CommitCreates DEF MemoInv, Exists
    <3> QED BY <2>1, <3>1, CommitCreates DEF MemoInv, LockedNotDeleted, CommitMemo
  <2>2. memos' # memos /\ ~ \E n \in Memo : Rewrites(n)
    BY DEF Rewrites, Exists
  <2> QED BY <2>1, <2>2, StepShape DEF MemoInv
<1> QED BY <1>1, MemosSafe, PTL DEF Spec, NoMemoOnDeletedCase

--------------------------------------------------------------------------------
(***************************************************************************)
(* Nothing is left that nobody will end: what MemosSettle needs besides    *)
(* fairness.                                                               *)
(***************************************************************************)

\* A pending memo has its run, unless the process died under it.
PendingRuns ==
    \A m \in Memo : memos[m].status = "pending" =>
        run[m].phase \in {"running", "failing"} \/ (run[m].phase = "lost" /\ ProcessMayDie)

\* A case row is locked by a request at work, never by one that waits for another or is over.
LocksHaveHolders == \A c \in Case : lockedBy[c] # None => Holding(lockedBy[c])

\* Only the death of the process loses a run.
LEMMA OnlyDeathLoses ==
    ASSUME TypeOK, [Next]_vars, NEW m \in Memo, run'[m].phase = "lost"
    PROVE  run[m].phase = "lost" \/ ProcessMayDie
<1>1. run \in [Memo -> Run]
  BY DEF TypeOK
<1>2. CASE \/ UNCHANGED vars
           \/ \E s \in Session, c \in Case : RequestMemo(s, c)
           \/ \E s \in Session, c \in Case, n \in Memo : RequestExport(s, c, n)
           \/ \E s \in Session : LockCase(s) \/ LockMissing(s) \/ CommitExport(s) \/ Abort(s)
           \/ \E s \in AdminSession, c \in Case : DeleteCase(s, c) \/ RestoreCase(s, c)
  BY <1>2 DEF vars, RequestMemo, RequestExport, LockCase, LockMissing, CommitExport, Abort,
              DeleteCase, RestoreCase
<1>3. ASSUME NEW s \in Session, NEW n \in Memo, CommitMemo(s, n)
      PROVE  run[m].phase = "lost"
  <2>1. run'[n].phase = "running"
    BY <1>1, <1>3 DEF CommitMemo, Run
  <2>2. n # m
    BY <2>1
  <2> QED BY <1>1, <1>3, <2>2 DEF CommitMemo
<1>4. ASSUME NEW n \in Memo, Works(n)
      PROVE  run[m].phase = "lost"
  <2>1. PICK r : Worked(n, r)
    BY <1>4, WorkShape
  <2>2. run[n].phase = "running"
    BY <1>4, WorkShape
  <2>3. n # m
    BY <1>1, <2>1, <2>2 DEF Worked
  <2> QED BY <1>1, <2>1, <2>3 DEF Worked
<1>5. ASSUME NEW n \in Memo, NEW phase \in {"none", "failing"}, NEW kept,
             run' = [run EXCEPT ![n] = [NoRun EXCEPT !.phase = phase, !.retrieved = kept]]
      PROVE  run[m].phase = "lost"
  <2>1. n # m
    BY <1>1, <1>5 DEF NoRun
  <2> QED BY <1>1, <1>5, <2>1
<1>6. ASSUME NEW n \in Memo, NEW acked, Save(n, acked)
      PROVE  run[m].phase = "lost"
  BY <1>5, <1>6 DEF Save
<1>7. ASSUME NEW n \in Memo, RunError(n) \/ RecordFailure(n)
      PROVE  run[m].phase = "lost"
  <2>1. n # m
    BY <1>1, <1>7 DEF RunError, RecordFailure, NoRun, Run
  <2> QED BY <1>1, <1>7, <2>1 DEF RunError, RecordFailure
<1>8. ASSUME NEW n \in Memo, RunDies(n)
      PROVE  ProcessMayDie
  BY <1>8 DEF RunDies
<1> QED BY <1>2, <1>3, <1>4, <1>6, <1>7, <1>8, Kinds

LEMMA PendingRunsStep ==
    ASSUME TypeOK, RowsWellFormed, PendingRuns, [Next]_vars
    PROVE  PendingRuns'
<1> SUFFICES ASSUME NEW m \in Memo, memos'[m].status = "pending"
             PROVE  \/ run'[m].phase \in {"running", "failing"}
                    \/ run'[m].phase = "lost" /\ ProcessMayDie
  BY DEF PendingRuns
<1>1. CASE Rests(m) \/ Exported(m) \/ Created(m)
  BY <1>1 DEF Rests, Exported, Created, PendingRuns
<1>2. CASE Advanced(m)
  BY <1>2 DEF Advanced, Worked
<1>3. CASE Stopped(m)
  <2>1. run[m].phase # "lost"
    BY <1>3 DEF Stopped
  <2> QED BY <1>3, <2>1, OnlyDeathLoses DEF Stopped
<1>4. ~Saved(m) /\ ~Failed(m)
  BY DEF Saved, Failed
<1> QED BY <1>1, <1>2, <1>3, <1>4, MemoStep

\* No memo stays pending without a run that will end it, unless the process died, and no case
\* row stays locked by a request that does not work under the lock (_run_graph_background,
\* _lock_case), for any number of memos, cases and sessions: the safety part of MemosSettle.
THEOREM NothingIsStranded == Spec => [](PendingRuns /\ LocksHaveHolders)
<1>1. Init => PendingRuns
  BY DEF Init, PendingRuns, NoRow
<1>2. MemoInv /\ PendingRuns /\ [Next]_vars => PendingRuns'
  BY PendingRunsStep DEF MemoInv
<1>3. MemoInv => LocksHaveHolders
  BY DEF MemoInv, TypeOK, LockHeld, LocksHaveHolders, Holding
<1> QED BY <1>1, <1>2, <1>3, MemosSafe, PTL DEF Spec

--------------------------------------------------------------------------------
(***************************************************************************)
(* The memos implement the abstract history of numbered artifacts.         *)
(***************************************************************************)

\* An empty table is an empty history.
LEMMA InitHistory == Init => History!Init
BY DEF Init, NoRow, History!Init

\* The number the code computes is that of the abstract history.
LEMMA SameNumber ==
    ASSUME RowsWellFormed, NEW c \in Case
    PROVE  History!NextVersion(c) = NextVersion(c)
<1> DEFINE version == [m \in Memo |-> memos[m].version]
<1>1. \A m \in Memo : memos[m].case = c => Exists(m)
  BY NoneIsNone DEF RowsWellFormed, NoRow
<1>2. History!Owned(c) = MemosOf(c)
  BY <1>1 DEF History!Owned, MemosOf
<1>3. \A m \in MemosOf(c) : m \in Memo
  BY DEF MemosOf
<1>4. {version[a] : a \in History!Owned(c)} = {memos[m].version : m \in MemosOf(c)}
  BY <1>2, <1>3
<1>5. History!NextVersion(c) = 1 + Max({0} \cup {version[a] : a \in History!Owned(c)})
  BY DEF History!NextVersion, History!Max, Max
<1> HIDE DEF version
<1> QED BY <1>4, <1>5 DEF NextVersion

\* A completion or a failure settles a memo or is invisible to the history.
LEMMA RewriteSettles ==
    ASSUME NEW m \in Memo, Rewrites(m)
    PROVE  History!Settle(m) \/ UNCHANGED History!vars
<1> DEFINE owner == [a \in Memo |-> memos[a].case]
           version == [a \in Memo |-> memos[a].version]
           pending == {a \in Memo : memos[a].status = "pending"}
<1>1. owner' = owner /\ version' = version
  BY DEF Rewrites
<1>2. pending' = pending \ {m}
  BY DEF Rewrites
<1>3. CASE m \in pending
  BY <1>1, <1>2, <1>3 DEF History!Settle
<1>4. CASE m \notin pending
  BY <1>1, <1>2, <1>4 DEF History!vars
<1> QED BY <1>3, <1>4

\* A memo created under the lock of its case is appended with the next number.
LEMMA CreationAppends ==
    ASSUME MemoInv, NEW s \in Session, NEW m \in Memo, CommitMemo(s, m)
    PROVE  \E c \in Case : History!Append(c, m)
<1> DEFINE owner == [a \in Memo |-> memos[a].case]
           version == [a \in Memo |-> memos[a].version]
           pending == {a \in Memo : memos[a].status = "pending"}
<1> USE DEF MemoInv
<1>1. PICK c \in Case : c = req[s].case
  BY DEF CommitMemo, Holding, RequestsWellFormed
<1>2. /\ memos'[m].case = c
      /\ memos'[m].version = NextVersion(c)
      /\ memos'[m].status = "pending"
      /\ \A n \in Memo \ {m} : memos'[n] = memos[n]
  BY <1>1, CommitCreates DEF CommitMemo, HolderNumbers
<1>3. owner[m] = None
  BY DEF CommitMemo, RowsWellFormed, NoRow
<1>4. owner' = [owner EXCEPT ![m] = c]
  BY <1>2
<1>5. version' = [version EXCEPT ![m] = NextVersion(c)]
  BY <1>2
<1>6. pending' = pending \cup {m}
  BY <1>2
<1>7. History!Append(c, m)
  BY <1>3, <1>4, <1>5, <1>6, SameNumber DEF History!Append
<1> QED BY <1>7

\* Every step is a step of the history or a stutter.
LEMMA StepHistory == MemoInv /\ [Next]_vars => [History!Next]_(History!vars)
<1> SUFFICES ASSUME MemoInv, [Next]_vars
             PROVE  History!Next \/ UNCHANGED History!vars
  OBVIOUS
<1>1. CASE memos' = memos
  BY <1>1 DEF History!vars
<1>2. CASE \E m \in Memo : Rewrites(m)
  BY <1>2, RewriteSettles DEF History!Next
<1>3. CASE \E s \in Session, m \in Memo : CommitMemo(s, m)
  BY <1>3, CreationAppends DEF History!Next
<1> QED BY <1>1, <1>2, <1>3, StepShape DEF MemoInv

\* The memo table implements the history of numbered artifacts
\* (create_memo_with_artifact, update_memo_complete, update_memo_failed).
THEOREM ImplementsHistory == Spec => VersionHistory
BY InitHistory, StepHistory, MemosSafe, PTL DEF Spec, VersionHistory, History!Spec

--------------------------------------------------------------------------------
(***************************************************************************)
(* So everything that is proved of that history is true of the memos.      *)
(***************************************************************************)
Promises == INSTANCE VersionHistory_proofs WITH
                Artifact <- Memo,
                owner <- [m \in Memo |-> memos[m].case],
                version <- [m \in Memo |-> memos[m].version],
                pending <- {m \in Memo : memos[m].status = "pending"}

\* The versions of a case are 1, 2, ... without a gap, each one memo's, and a memo keeps its
\* case and number and is never generated again once it has settled (create_memo_with_artifact,
\* update_memo_complete, update_memo_failed).
THEOREM HistoryIsKept ==
    Spec => [](History!GapFree /\ History!Unambiguous) /\ History!NeverRewritten
<1>1. /\ Promises!Spec => [](Promises!GapFree /\ Promises!Unambiguous)
      /\ Promises!Spec => Promises!NeverRewritten
  BY NoneIsNone, Promises!HistoryIsGapFree, Promises!HistoryIsNeverRewritten
<1>2. Promises!Init <=> History!Init
  BY DEF Promises!Init, History!Init
<1>3. [Promises!Next]_(Promises!vars) <=> [History!Next]_(History!vars)
  BY DEF Promises!Next, History!Next, Promises!vars, History!vars, Promises!Settle,
         History!Settle, Promises!Append, History!Append, Promises!NextVersion,
         History!NextVersion, Promises!Owned, History!Owned, Promises!Max, History!Max
<1>4. UNCHANGED Promises!vars <=> UNCHANGED History!vars
  BY DEF Promises!vars, History!vars
<1>5. /\ Promises!GapFree <=> History!GapFree
      /\ Promises!Unambiguous <=> History!Unambiguous
  BY DEF Promises!GapFree, History!GapFree, Promises!Unambiguous, History!Unambiguous,
         Promises!Owned, History!Owned
<1> QED
  BY <1>1, <1>2, <1>3, <1>4, <1>5, ImplementsHistory, PTL
  DEF VersionHistory, Promises!Spec, History!Spec, Promises!NeverRewritten, History!NeverRewritten

================================================================================
