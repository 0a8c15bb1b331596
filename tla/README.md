# Wellfounded in TLA+

Wellfounded is a case workspace for asylum attorneys: a FastAPI service (`apps/api`) over one
PostgreSQL database, a Next.js workbench (`apps/web`) that calls it, and LLM providers behind one
gateway. This directory holds TLA+ models of the service's own logic, the TLC configurations that
check them on small instances, and proofs that TLAPS checks for every instance.

## The system

Every HTTP request is one database session (`db/session.py`, autocommit off, PostgreSQL's default
READ COMMITTED isolation) that its handler commits at the end; a handler that raises leaves the
session to be rolled back. Long work (the two LangGraph flows and transcription) runs in
`asyncio.create_task` tasks of the API process, each with a session of its own. Nothing else
coordinates the processes: no queue, no lock service, only the database.

| Component | State | Operations | What is hard about it | What makes it correct |
|---|---|---|---|---|
| Declaration workspace (`declarations/service.py`, `repository.py`, `cases/router.py`) | `declaration_drafts` rows: version, status, draft, flags; the run of each draft; case row locks | generate, revise, decide about a flag (PATCH, apply), export, background run | read-modify-write of whole columns without locks, a row lock held through an LLM call, a late failure over a completed draft, the death of the process | unique gap-free versions, status that follows the flags, no flag closed or dropped without a decision, clean copies attested |
| Flag algebra (`declarations/flags.py`, `validators.py`, `apply_resolution.py`) | none | required flags, status, merge, validation | the merge along chains of revisions | nothing is dropped, new flags start open |
| Country conditions (`country_conditions/*`) | `country_conditions_memos` rows, LangGraph checkpoints | generate, five-node run, detail, export | a run in one transaction over five nodes and checkpoints outside it, failure, death | citations only of retrieved passages, an exact bibliography, audit entries for what is committed, every memo settles |
| Case files (`cases/repository.py`, `router.py`) | `cases`, `case_assignments` | create, patch, archive, assign, delete, restore | concurrent assignment changes, permission checked before the change | every case keeps a lead attorney, a change is made by someone who may make it and leaves what was asked |
| Sessions and magic links (`auth/routes.py`, `deps.py`, `tokens.py`) | users, tokens, sessions | request link, callback, logout, resolve | single use of a token by concurrent callbacks, expiry, email sent before commit | a token opens at most one session, nothing after expiry or logout |
| WebAuthn (`auth/webauthn_routes.py`) | challenges per session and purpose, credentials | register and authenticate, begin and finish | challenge replaced or replayed, sign counter written from a stale read | a challenge is used once, MFA only after a matching assertion |
| Transcription (`transcription/*`, `translation/*`, `cases/router.py`) | `interview_audio`, `transcripts`, `prior_statements`, audio objects in S3, the background pipeline | upload, pipeline (Whisper, NLLB, review), stream, seed a transcript, add a statement | object stored before the commit and under the case lock, crash between claim and result, a late failure over a completed transcript, the key revoked in between | rows never point at missing audio, status and audit log agree, drafts only from audio opened in time, every upload settles |
| Retrieval and cache (`retrieval/passage_search.py`, `cache.py`, `rerank.py`) | Redis candidate lists | search, rerank | lists that outlive what they were read from, ids repeated or made up by an LLM | results obey the filters, nothing deleted, no duplicates unless an id is repeated |
| Ingestion (`retrieval/ingestion/*`) | `source_documents` and their passages | fetch, embed, upsert, one commit for each reference | two ingestions insert one document | every run ends, whatever was read is in the library |
| LLM gateway (`llm/client.py`, `retry.py`) | `llm_call_records` | complete, structured, embed | retries, records in the caller's transaction | bounded attempts, a record of every call |
| Audit (`audit/writer.py`) | `audit_log_entries` | record | size limit, same transaction as the change | an entry if and only if the change is committed |
| Envelope encryption, organisations (`encryption/service.py`, `orgs/*`) | organisation data keys | create, revoke, encrypt, decrypt | a revoked key read from a stale session | only an admin with a second factor revokes; afterwards nobody newly let in decrypts |
| Web workbench, DOCX rendering, evals, scripts, migrations, infrastructure | - | - | presentation, offline tools | not modelled |

## Modules

| Module | What it is |
|---|---|
| `DeclarationFlags` | the flag algebra, pure: what is required, what status follows, how a revision merges flags |
| `Declarations` | the declaration workspace: requests, background runs, case locks, flags, audit |
| `VersionHistory` | abstract: what a case promises about numbered artifacts of any kind |
| `MemoCitations` | pure: citations of a memo, its stored and its exported bibliography, superscripts |
| `CountryConditions` | country conditions memos: requests, the five-node run, checkpoints, export |
| `SignIn` | magic links, sessions, passkeys as a second factor, the revocation of the data key |
| `CaseFiles` | case files: creation, patch, archive, assignments, deletion, restoration |
| `Transcription` | interview audio: uploads, pipelines, streams, transcripts by hand, the key revoked under them |
| `Rerank` | pure: the order in which a search hands back its candidates |
| `Lists` | pure: the loop that picks some elements of a list, in its order |
| `SourceLibrary` | ingestions, searches with cache and reranking, retries and call records of the gateway |
| `MCDeclarations`, `MCCountryConditions`, `MCSignIn`, `MCCaseFiles`, `MCTranscription`, `MCSourceLibrary` | the instances for TLC |
| `VersionHistory_proofs` | what a history of numbered artifacts promises |
| `Declarations_proofs` | numbering, audit agreement, refinement of `VersionHistory`, flags |
| `CountryConditions_proofs` | numbering, citations, bibliography, audit agreement, refinement of `VersionHistory` |
| `CaseFiles_proofs`, `SignIn_proofs` | leads and changes of assignments; links, sessions and challenges |
| `Transcription_proofs`, `SourceLibrary_proofs` | audio, outcomes and keys; call records, what is read, what is searched and answered |
| `Lists_proofs` | what `Picked` returns, finite lists and sorting by keys |

`Declarations` extends `DeclarationFlags`, `CountryConditions` extends `MemoCitations`, and
`SourceLibrary` extends `Rerank`; `MemoCitations` and `Rerank` extend `Lists`. The first two state `VersionHistory` as a property through
`INSTANCE VersionHistory WITH ...`, with the table's rows
as artifacts and the rows whose status is pending as the unsettled ones. Deletion and restoration
of a case appear in `CaseFiles` as operations, and in the models of what belongs to a case as what
their requests race with. `Transcription` says which transcripts a declaration may be drafted from
(`Draftable`, the check of `DeclarationsService.generate`), and `SourceLibrary` what a search of a
memo run answers, which `CountryConditions` takes as "some passages of the library".

### How transactions are modelled

A request runs in one transaction at READ COMMITTED and commits once, so nobody sees its writes
before that. A request is therefore split where other transactions can come between its parts and
nowhere else: what it reads, and on what reading it decides, is one action and stays in `req`; a
row lock that it waits for is another; what it writes, its audit entries and the commit are the
last. A lock that a SELECT FOR UPDATE, an UPDATE or a DELETE takes is a variable (`lockedBy`,
`seenBy`, `rowLock`) and is given back with the commit or the rollback. `Abort` is every refusal,
error, lost client or lost connection: the transaction is rolled back wherever it stands. An audit
entry belongs to the transaction of its operation, so it is added in the committing action.

### `Declarations`

| Code | Model |
|---|---|
| rows of `declaration_drafts` | `drafts` (status, case, version, whether it has content, flags, where resolution texts were written) |
| `asyncio` task of a generation | `run` |
| a handler's locals | `req` (the flags and text columns as it read them, the number it computed) |
| `_lock_case` | `LockCase`, `LockMissing`, `lockedBy` |
| `generate`, `revise_region`, the flag endpoints, exports | `Request...` (reading and permission) and `Commit...` (write, audit, commit) |
| `_run_graph_background` | `RunStep`: completion, failure, lost acknowledgement, the second session that records it |

`CommitResolve` and `CommitApply` write back the whole columns that were read; this is where
concurrent decisions are lost. A revision computes on the flags it read before its LLM call and
holds the case lock through that call. `RunDies` is the death of the process under a run, and also
a failure that cannot be recorded: nobody looks at the row again (`lost`), and `DraftsSettle`
excepts just these drafts.

`FlagsNeverDropped` states what the code does and `test_revise_preserves_open_flags` tests, and
more than the docstring of `merge_flags_on_revise` promises ("unless explicitly revised in scope",
`declarations/flags.py:51`). The branch for flags in scope (`flags.py:65`) suggests that a flag
which the revision raises again was once meant to be replaced; since the merge starts from all the
parent's flags, that branch changes nothing and the old flag stays next to the new one.

### `CountryConditions` and `MemoCitations`

A memo's text is abstracted to the sequence of passages each section cites. `run` carries the
state of the graph: how many nodes have finished, what the searches returned, what the sections
cite, the final output, and the audit entries of the nodes, which are in the run's transaction and
visible only after `Save`. `checkpoint` counts the states that LangGraph stores over its own
connection: they survive whatever happens to the transaction. `Save` commits output and entries;
`RunError` is an exception at any node or at the commit, including a commit whose acknowledgement
is lost; `RecordFailure` is the second session of the except clause; `RunDies` is the death of the
process. `Synthesize` lets the model write any sections, as the code does: nothing compares a
section with its own passages again, only `build_bibliography` looks every citation up.
`MemoInv`, at the end of the module, is the inductive invariant of its proofs.

### `SignIn`

| Code | Model |
|---|---|
| `magic_link_tokens`, `sessions`, `webauthn_challenges`, `webauthn_credentials` | `tokens`, `sessions`, `challenges`, `creds` |
| what was e-mailed, whether or not its row was committed | `emailed` |
| the row lock that the update of `last_seen_at` takes until the commit | `seenBy` |
| `request_magic_link`, `magic_link_callback` | `RequestLink`/`CommitLink`/`RefuseLink`, `OpenLink`/`ConsumeLink`/`LinkUsed` |
| `get_request_auth`, `require_role`, `require_mfa` | `ReadSession` with `Gate`, then `Touch` |
| `webauthn_*_begin`, `webauthn_*_finish` | `Begin`; `DropExpired`, `Verify`, `FinishRegistration`, `FinishAuthentication` |
| `logout`, `revoke_org_data_key` | `Logout`, `RevokeKey` |
| `soft_delete_user` (`orgs/repository.py`), which no endpoint calls | `Suspend` |
| authenticators, clocks (external) | `CreatePasskey`, `Sign`, `Expire` |

The signature check of the `webauthn` library is modelled by what it demands: an answer to this
very challenge by this passkey with a counter that has grown (or is 0 on both sides). Passkeys
that do not count (`Counterless`) are those for which the counter protects nothing.
`sessions[x].mfa` names the challenge whose finish set `mfa_verified_at`, which lets properties
say where a second factor came from. A session that is revoked between `ReadSession` and `Touch`
lets its request go on: the UPDATE matches no row, takes no lock, and its result is not looked at.

### `CaseFiles`

A change of assignments reads the case with its assignments (`ReadCase`), deletes (`RemoveRows`),
then refreshes, updates and inserts and counts the leads (`AddRows`), and commits
(`CommitAssignments`). The rows it has touched are locked and its writes invisible until then.
After the refresh the session may still hold the role of a row as it first loaded it, or as it is
now: `Known` allows both for each row. `raced` (two changes of one case overlapped) is a history
variable; the code has no such state. A request may name a user once in its additions and once in
its removals; the code also takes lists that name one twice (`cases/schemas.py:41`, `:92`): the
later addition then counts, or two inserts of one row collide and the request ends as in `Abort`. Who is suspended (`Inactive`) is a constant here. Audit entries of case files are left out.

Permission is decided on the rows of `ReadCase`, and an addition is skipped if the session believes
that the user has the role already. Both are stale once another change of the case commits: an
attorney who was just removed still completes his request, and an addition is acknowledged and
missing if the other request took the role away. `ChangesSound` says that nothing less than such an
overlap does this: until then whoever is about to commit may still change the assignments as they
are, and every addition and removal will be in them.

### `Transcription`

| Code | Model |
|---|---|
| `interview_audio`; `transcripts` and `prior_statements` | `audio`; `transcripts` (an upload's two rows have one name) |
| objects in S3 | `objects` |
| `upload_interview`: permission and key; `_lock_case` and the rows; `put_object`; commit and task | `AdmitUpload`; `LockAndInsert`, `CaseMissing`; `StoreObject`; `CommitUpload`; `AbortUpload` anywhere |
| `_run_pipeline_background` | `Claim` (with its commit), `Decrypt`, `Transcribe`, `Translate`, `Review`, `Complete` |
| its except clause, in a second session | `PipelineError`, `RecordFailure` |
| the death of the process, cancellation | `PipelineDies`, and the choice in `CommitUpload` |
| `GET .../interviews/{id}/audio` | `AdmitStream`, `Stream`, `AbortStream` |
| transcripts and statements entered by hand | `SeedTranscript`, `CreatePriorStatement` |
| `revoke_data_key`; deletion of the case | `RevokeKey`; `SetDeleted` |

Both checks of the key read the organisation through SQLAlchemy's identity map. In a request,
authentication has loaded that row and the session keeps it, so the second check of a stream sees
the key as it stood at authentication: `reading[r].revoked`. The task of a pipeline has a session
that keeps nothing after the commit of the claim, so its second check reads anew. A commit whose
acknowledgement is lost goes to the except clause (`Goes`), which writes `failed` over whatever the
rows say: a completed transcript then keeps its text and is failed. `opened` is a history variable:
what was decrypted, by whom, and how the key stood. Audio, segments and texts are one Boolean.

### `SourceLibrary` and `Rerank`

| Code | Model |
|---|---|
| rows of `source_documents`, with their passages | `documents` (absent, live or soft-deleted; its country) |
| a row flushed and not yet committed, whose unique key others wait for | `inserting` |
| Redis lists of candidates | `cache` (an empty list is none) |
| `SourceIngester.run`: fetch, parse, embed, `upsert_document`, commit | `StartIngest`, `Fetch`, `FetchNothing`, `EmbedPassages`, `Refresh`, `LookUp`, `Insert`, `Conflict`, `CommitRef` |
| `PassageSearchService.search` | `Ask`, `Load`, `EmbedQuery`, `AnnSearch`, `Store` |
| `Reranker.rerank`, `_apply_order`, the cross-encoder | `RankNothing`, `RankByLLM`, `RankByCrossEncoder`, with `Rerank` |
| `call_with_retries`, `LLMClient._persist` | `Retry`, `CallFails`, `Answered` |
| the caller's transaction | `open`, `Commit`, `CommitSearch`, `Fail`, `RollBack` |
| 24 hours, evictions; an operator | `Expire`; `SetDeleted` |

A content is what a reference may read as, told apart by family and hash; one filter, the country,
stands for all of them. The index is approximate and its hits are filtered after it returns them,
so `AnnSearch` may find any matching passages in any order up to the limit. An LLM may name ids in
any order, twice, or of no passage. A search is part of a memo run, and `CommitSearch` is the
commit of that run: only then do its call records exist, while the list it cached is for others at
once. `gone`, `hit`, `asked`, `repeats` and `read` are history variables.

## Runs

Every cfg gives the constants small sets and switches the deadlock check off: the histories are
bounded, so every behaviour ends with no draft, memo, link or challenge left to create, and the
system may rest.

| Run | Instance | What it shows |
|---|---|---|
| `decl_versions` | 1 case, 3 drafts while no flag is decided and nothing exported; or 2 drafts and all requests; 2 sessions (one an admin's), 1 flag, death, fairness | numbers are unique and gap-free under generation, revision, failure, death and deletion; rows and audit agree; no version on a deleted case; `VersionHistory` is implemented; drafts settle unless their run is lost; requests are answered |
| `decl_flags` | 2 drafts (a draft and its revision), 3 flags (two inferences at one place, one gap), 2 decisions, 2 sessions | status follows flags, closed flags were decided, clean copies are attested, no flag is dropped, all under stale reads |
| `decl_lost_decision` | 1 draft, 3 flags, 2 decisions | finding: a decision is lost |
| `decl_apply_deferred` | 1 draft, 1 flag | finding: the text of a deferred flag is dropped |
| `cc_memos` | 1 memo of 2 sections, 2 passages, 2 citations a section; or 2 plain memos of 2 sessions; death, fairness | citations are grounded, bibliography and superscripts exact, rows and audit agree, `VersionHistory` is implemented, nothing on a deleted case, the memo settles unless the process dies |
| `cc_resume` | 1 memo, death | finding: an interrupted flow is not resumed |
| `sign_in` | 1 admin, 2 links, 2 sessions, 2 challenges, 1 passkey without a counter, 2 requests, nobody suspended; or 2 admins with a session between them, 2 passkeys (one counts), 1 request, suspensions | single use of links and challenges, powerlessness of revoked sessions, whose passkey raised which session, who revoked the key |
| `case_files` | an admin, 2 attorneys, a suspended one, 1 case, 2 requests, one addition and one removal each, the latter not of the suspended | leads are lost, and changes wrong or made without authority, only by a race |
| `case_no_lead` | as `case_files` | finding: two changes together take both leads |
| `transcription` | 1 case, 2 interviews, 1 document by hand, 1 reader, death, fairness | rows never point at missing audio, both rows and the audit log agree, drafts are earned, the revocation holds, nothing on a deleted case, uploads settle |
| `library` | 2 ingestions of 2 references each; or an ingestion with a search; or two searches after an ingestion; 2 contents, 2 countries, 2 candidates, 1 retry, fairness | answers are sound, what was embedded or answered has its call records, every run ends and a finished ingestion has kept what it read |
| `library_calls` | as `library` | finding: a failed call has no record |

Four runs are unions of smaller instances, kept apart by the constraint `Scope` of their MC
modules. A behaviour of a sub-instance of `decl_versions` and `cc_memos`, and of the first two of
`library`, lies wholly inside the constraint, so nothing of it is cut and liveness is checked on all
of it. `Scope` of `decl_versions` also takes draft ids in order (`InOrder`): symmetry would say the
same, and is not sound with liveness. `Scope` of `case_files` leaves out requests to remove somebody
who was never assigned, which remove nothing. The
third of `library` is narrower: its two searches neither retry nor fail, the first is ranked by the
cross-encoder and kept as it was found, and one document of two may be deleted. It is there for the
cache that two searches share; retries and failures of a search are in the second.

Bounds. Two sessions or requests are enough for each race named in the hazards: each is between a
reader and one writer, and what they share is one row. Three drafts give a draft, a revision and a
version numbered while another failed; two drafts give merge and chain of flags. Three flags give
two at one place, where a revision can raise one "again", and one in no paragraph. Two sections
with two citations each give a passage cited twice, an order of first appearance that differs from
the sorted one, and a citation that wanders to the other section. Two links, sessions and
challenges give replay across sessions and purposes. `MaxDecisions`, `MaxCites`, `MaxSignCount`,
`MaxChange` bound decisions, citations, uses of a passkey and the size of a change; `Draft`,
`Memo`, `Token`, `UserSession`, `Challenge`, `Interview`, `Document`, `Ingestion` and `Search` bound
histories, `Assignee` and `Assignable` inputs. Two interviews share one case lock, and a document by
hand may point at either. Two references each let two ingestions meet the same two contents in
another order, the case in which waiting for each other's keys could close a circle; two contents
and two candidates give an order to change, an id to repeat and a passage to lose from a list; one
retry reaches the limit. Symmetry is used for interchangeable ids in runs without liveness only.

Fairness. Only `decl_versions`, `cc_memos`, `cc_resume`, `transcription` and `library` assume any. A
request that does not wait for a lock ends, because its handler returns or raises (weak fairness of
its end); a request that waits for the case row gets it if the row is free again and again, because
PostgreSQL queues lock waiters (strong fairness of `LockCase`, and of `LockAndInsert` or
`CaseMissing`); a run or a pipeline goes on to its commit or its except clause as long as the
process lives (weak fairness of its steps). An ingestion or a search goes on, and a call of a model
is answered or times out (weak fairness of its steps and those of its calls together: a retry is
one of them, so it is the limit that ends a call); an ingestion that waits for a unique key goes on
when the key is decided again and again (strong fairness of `Upsert`). Nothing is assumed about
users, deletions, expiry, deaths or which of success and failure comes.

## Findings

- `decl_lost_decision`: two decisions about two flags of one draft overlap; the later write of the
  whole column reopens the flag that the earlier one closed (`declarations/service.py:345`).
- `decl_apply_deferred`: applying a resolution to a flag that was deferred marks it resolved and
  writes the text nowhere (`declarations/apply_resolution.py:31`).
- `cc_resume`: no code resumes a flow from its checkpoints; after the death of the process its
  memo stays pending (`country_conditions/service.py:167`).
- `case_no_lead`: two overlapping changes of assignments leave a case without a lead attorney
  (`cases/repository.py:316`).
- `library_calls`: a call that fails is recorded in the session of its caller and raised again;
  nobody in an ingestion or a search catches it, and the record is rolled back (`llm/client.py:161`).
  `docs/05_cursor_build_plan.md:372` says "Every model call produces an `LLMCallRecord` row",
  `llm/models.py:28` "success or failure". What does hold is `CallsRecorded`: no document is in the
  library, and no search done, without the records of the calls behind it. `FailuresAreLost` proves
  how far the rule is missed: no failed call is ever in the table.

Met while modelling, and in no run of their own:

- `DATA_FLOW.md:131` ("each provider HTTP attempt inserts one row") also says more than the code
  does: a call has one row however often it was tried (`llm/client.py:161`).
- `retrieval/rerank.py:26` asks the LLM for "every candidate passage id exactly once"; an id named
  twice is returned twice, for `seen` is not asked (`AnswerKept` says what holds without one).
- `DATA_FLOW.md:77` says the revocation "blocks further decrypt"; a stream authenticated before it
  still decrypts (`RevocationHolds` says for whom it holds).
- A transcript seeded for an interview that has its own makes the interview's GET fail, as two rows
  are found (`OutcomesAudited` excepts just that case).
- A document that is ingested again is only refreshed: it stays deleted if it was, and keeps its
  country (`CountryKept`), so the same content under another country is not found there.

## Proofs

TLAPS checks the following for every value of the constants under the named assumptions of the
modules (`AdminSessions`, `FlagTypes`, `Admins`, `Roles`, `Users`, `SortKeys`, `SomeQuery`,
`NoneIsNone`, the bounds are natural numbers, and so on); TLC evaluates them in every run.

**Numbering of declarations** (`Declarations_proofs`: `TypeCorrect`, `NumberingSafe`,
`VersionsUniqueSafe`). That versions are unique is not inductive: a request commits a number it
computed earlier. `NumberingInv` adds that the versions of a case are 1, 2, ... without a gap
(`VersionsDense`) and that the holder of the case lock has the next number, nobody having added a
version since (`HolderNumbers`); it needs that only creating requests hold the lock (`LockHeld`)
and that rows and requests are well formed.

**Refinement and audit of declarations** (`Declarations_proofs`: `ImplementsHistory`,
`NoDraftOnDeletedCaseSafe`, `RowsAuditedSafe`). Each step is shown to be the creation of one draft
with the next number, a settlement, or a stutter of `VersionHistory`. That a locked case is not
deleted (`LockedNotDeleted`) gives the property about deletion. `RowsAudited` is shown row by row:
a step either leaves a row and its entries alone, or commits both.

**Memos** (`CountryConditions_proofs`: `MemosSafe`, `TypeCorrect`, `CitationsAreGrounded`,
`MemosAreAudited`, `NoMemoOnDeletedCaseSafe`, `ImplementsHistory`). The numbering is as for
declarations. What a run saves is decided long before its one commit, so `MemoInv` speaks of the
open transaction: while a run goes on its memo is pending, it holds the entry of each finished node
and no other, and after the last node its final text cites only what its searches returned
(`RunsInOrder`). `MemoStep` says once what a step can do to a memo (rest, work on a node, save,
stop, fail, be exported), and the properties follow from those six cases.

**Lists** (`Lists_proofs`). The loops of `build_bibliography` and `_apply_order` are one operator,
`Picked(list, places)`, a recursive function on how many elements have been seen.
`PickedListsPlaces`: for every list and every set of places it returns the elements there, each
once and in the order of the list. The induction goes by sets of numbers instead of predicates: a
set that has 0 and with each number the next has them all (`InductionBySet`), since the numbers it
lacked would have a least one. In the same way every finite set can be sorted by keys that tell
its elements apart (`SortedExists`), which is what `CHOOSE` needs in `SortedRows`.

**Bibliography and superscripts** (`CountryConditions_proofs`: `BibliographyIsExact`,
`SuperscriptsAlwaysResolve`). An output is only ever what `FinalMemo` makes of some sections, so
both are facts about `MemoCitations` for any number of sections and citations: the places that
cite what no earlier one did give each cited passage once and in the order of first citation
(`BibliographyInOrder`), and the rows sorted for the export have every cited passage, so that its
number leads to its row (`NumberLeadsToRow`). The second rests on `SortKeys`: no two passages tie,
because the key ends in the passage's id.

**Flags** (`Declarations_proofs`: `FlagSafe`, `StatusMatchesFlagsSafe`, `ClosedFlagsAuditedSafe`,
`CleanExportAttestedSafe`, `FlagsNeverDroppedSafe`). A stale write puts back what was read, so the
invariant must say of the readings what the properties say of the rows: every flag a request has
read as closed was closed by an audited decision (`SnapshotsAudited`), a clean export under way
has found every required flag decided (`ExportsAttested`), and a reading has the same set of flags
as the row has now (`RequestsOnContent`): only their statuses may be out of date.

**Case files** (`CaseFiles_proofs`: `TypeCorrect`, `LeadsAreSafe`, `ChangesAreSound`). Until
two changes of a case's assignments overlap, what a request has read of them is what is committed
(`Steady`), so that its permission stands, the rows it took as needing no change need none
(`CountedIsOutcome`), and its count at the end is a count of what its commit leaves; a commit under
another's reading makes the case raced.

**Links** (`SignIn_proofs`: `TypeCorrect`, `LinksSafe`, `OneSessionPerLinkSafe`). `Delivered` says
of the requests under way that a requested link was sent, has no row and is carried by one
request, and that a callback knows the user of its link's row. A session is opened in the same
step that marks the row, which nothing unmarks. `Sound` says what a request knows at each stage.

**Sessions and challenges** (`SignIn_proofs`: `RevokedStaysPowerlessSafe`, `ChallengesSafe`,
`ChallengeExclusiveSafe`, `ChallengeSpentSafe`, `SecondFactorEarnedSafe`,
`KeyRevokedWithSecondFactorSafe`). Lemmas first say what a step can do to a request, a session, a
challenge, a row's holder and the history. `Held`: a request past the update of `last_seen_at`
holds its session's row, or the session is revoked. `Placed`: a live challenge has one place, and
the requests that work on its answer are at that place, for the same session. Together they give
exclusiveness; a finish empties the only place, so the challenge is spent; and a challenge that
was answered is never issued again. `Answered` ties the verified answer to a passkey of the
request's user, and `Admitted` ties the second factor, and the requests it let in, to an audited
use of a passkey.

**Interview audio** (`Transcription_proofs`: `TypeCorrect`, `AudioIsStored`, `OutcomesAreAudited`,
`DraftableIsEarned`, `RevocationIsObeyed`, `DeletedCaseGetsNothing`). `Placed` follows an upload:
once its rows are committed the object is stored, and both rows say the same. `Told` follows its
pipeline: which entries there are, and that from the decryption on, and for good once the text is
written, the audio was opened in time. `LetIn` (whoever reads was let in with a usable key) carries
`RevocationHolds` over the stale second check, `Locking` carries the deletion over the locked stages.

**The source library** (`SourceLibrary_proofs`: `CallsAreRecorded`, `FailuresAreLost`,
`WhatIsReadIsKept`, `CandidatesAreSound`, `CountryIsKept`). Small invariants rather than one. `CallInv`: an
ingestion about to upsert, and a search past its calls, has the records in its open transaction,
all its own and successful unless it is about to fail; hence what is committed has its records, and
no failure is ever among them. `KeptInv`: what an ingestion has read is in
the library but for what it is at. `ExclusiveInv`: whoever has inserted a row is the only one, and
the row is new, so a commit never overwrites. `ListInv`: every cached list passes the filters of its
key, because rows keep their country, and a search takes a list whole or not at all.

**Answers of a search** (`SourceLibrary_proofs`: `TypeCorrect`, `AnswersAreSound`). `AnswerInv`
adds to `ListInv` the types, which the argument cannot do without (what is cached is what an
earlier search listed), that no cached list and no list of candidates names a passage twice
(`Distinct`), and what was answered. `Reorders` says what a reranker may do to its candidates:
nothing may be lost and nothing made up, and nothing repeated unless an id was named twice.
`ApplyOrderReorders` and `PermutedReorders` show it of the LLM's order, whatever ids it names, and
of the cross-encoder's, and the first k of such a list are an answer. `SomeQuery` (there is a
country and a k to ask for) is assumed because `Locals` has a query even while nobody asks.

**What liveness rests on** (`NothingIsStranded` in `Declarations_proofs`,
`CountryConditions_proofs`, `Transcription_proofs`; `NobodyWaitsInACircle` in
`SourceLibrary_proofs`). The safety parts of `DraftsSettle`, `RequestsAnswered`, `MemosSettle`,
`UploadsSettle` and `RunsEnd`, for any number of actors. `PendingRuns`: a row that still waits has
a run or pipeline that is not over, unless the process died, so that nothing waits for what will
never come. `LocksHaveHolders`: a locked case row is locked by a request at work under the lock,
which weak fairness ends. `KeysHaveHolders`: an ingestion that holds a document's unique key is
about to commit or to fail and never waits for a second one, so that no circle of waiting can
close. What is left to TLC is the step from these to the temporal properties.

**The abstract history** (`VersionHistory_proofs`: `HistoryIsGapFree`, `HistoryIsNeverRewritten`).
The versions of a case are 1, 2, ... without a gap (`GapFree`), each one artifact's (`Unambiguous`),
and an artifact keeps its case and number and is not generated twice (`NeverRewritten`), provided
that "no case" is not a case. `HistoryIsKept`, in `Declarations_proofs` and
`CountryConditions_proofs`, carries this over to drafts and to memos: it is `ImplementsHistory`
and the theorems of the abstract history, instantiated there as `Promises`.

Every inductive invariant was model-checked before it was proved; `PendingRuns`,
`LocksHaveHolders`, `KeysHaveHolders`, `GapFree`, `Unambiguous` and `NeverRewritten` too, on the
instances of the runs and a small one of `VersionHistory`, though no run of the project states them.
`CountryKept` and `ReadsKept` are also proved and in no run of their own.

**Model-checked only.** Liveness (`DraftsSettle`, `RequestsAnswered`, `MemosSettle`,
`UploadsSettle`, and that runs end in `RunsEnd`): the prover does not reason about fairness and
ENABLED. Every invariant and every other action property or refinement that a passing run checks is
proved. The five findings are counterexamples, which need no proof.

## What is not modelled

- The content of audio, segments and texts, and with it `transcription/validators.py` beyond "an
  upload may be refused"; the stubs of local runs.
- The eight families of ingesters beyond the template run: they differ in URLs and parsing. An
  embedding of passages is one call, where the code sends batches of 64. Similarities and scores.
  The setting that turns the cache off, which is as if every list had expired.
- The LLM gateway towards its providers: prompts, transports, usage, hashes. Calls of drafts, memos
  and reviews are steps that answer or fail; retries and records are modelled for the calls of
  searches and ingestions, and are the same code for the others.
- The cipher and its format, the creation of keys, organisations and users (scripts).
- The limits on the size of an audit entry: a refused entry is one of the errors after which a
  request rolls back. The entries of `CaseFiles`.
- Texts, prompts, DOCX layout, cookies, hashing, rate and size limits, the local end-to-end
  switches: data that no property here tells apart.
- Two sessions of one user that use one passkey at the same time may lower its sign counter
  (`auth/repository.py:265`): the model has this behaviour, and the repository promises nothing
  about it.
- The web workbench, offline evaluation, seeds, migrations, infrastructure.

## Plan

In order of importance; a module marked * is written.

1. `DeclarationFlags`*, `Declarations`*, `VersionHistory`* and their proofs*.
2. `MemoCitations`*, `CountryConditions`*: versions again implement `VersionHistory`; the pipeline
   with its citations, audit entries and checkpoints.
3. `CaseFiles`* and its proofs*.
4. `SignIn`* and its proofs*.
5. `Transcription`* and its proofs*.
6. `Rerank`*, `SourceLibrary`* (searches, cache, ingestion, call records) and its proofs*.
7. The proofs of `CountryConditions`* and the audit agreement of `Declarations`*.
8. `Lists`* and what it gives: the bibliography and superscripts of memos*, the answers of a
   search*; the safety parts of the liveness properties*; `VersionHistory` itself*.

Left: the audit entries of case files and of logging in, so that they too agree with what was
committed; the calls of drafts, memos and reviews through the gateway's retries, which would make
`SourceLibrary`'s `open` and `records` a module of their own.
