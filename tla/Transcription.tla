------------------------------ MODULE Transcription ------------------------------
(***************************************************************************)
(* Interview audio of one organisation (transcription/service.py and       *)
(* repository.py, the interview and transcript endpoints of                *)
(* cases/router.py): uploads, which store the encrypted audio before the   *)
(* rows that point at it are committed, the background pipeline of each    *)
(* upload, streams of the audio, transcripts and prior statements entered  *)
(* by hand, and the revocation of the organisation's data key under all of *)
(* them.                                                                   *)
(***************************************************************************)
EXTENDS Naturals

CONSTANTS Case,          \* the case files of the organisation
          Interview,     \* uploads that can be made (bounds the history); each creates an
                         \* interview_audio row and a transcripts row of the same name
          Document,      \* transcripts and prior statements that can be entered by hand
          Reader,        \* requests for audio that are served at the same time
          ProcessMayDie, \* whether the API process may die, or cancel its tasks
          None           \* "no case", "no interview", "nobody"

ASSUME MayDie == ProcessMayDie \in BOOLEAN
ASSUME Apart == Interview \cap Document = {}
ASSUME NoneIsNone == None \notin Case \cup Interview \cup Document

VARIABLES audio,       \* the interview_audio table
          transcripts, \* the transcripts and prior_statements tables
          objects,     \* the uploads whose encrypted audio is in the object store
          upload,      \* what the request of each upload is doing
          pipeline,    \* the background task of each upload
          reading,     \* what each request for audio has read so far
          lockedBy,    \* the upload whose transaction holds the case row FOR UPDATE
          deleted,     \* whether the case is soft-deleted
          keyRevoked,  \* whether organizations.data_key_revoked_at is set
          audit,       \* the committed audit entries
          opened       \* history: what was decrypted, and how the key stood

vars == <<audio, transcripts, objects, upload, pipeline, reading, lockedBy, deleted,
          keyRevoked, audit, opened>>

Transcript == Interview \cup Document

TranscriptStatus == {"absent", "pending", "processing", "complete", "failed"}

AudioRow == [status : TranscriptStatus, case : Case \cup {None}]

\* text stands for segments, full texts and model version: all set, or all null.
TranscriptRow == [status : TranscriptStatus, case : Case \cup {None},
                  audio : Interview \cup {None}, text : BOOLEAN]

NoAudio == [status |-> "absent", case |-> None]

NoTranscript == [status |-> "absent", case |-> None, audio |-> None, text |-> FALSE]

\* "admitted": authorised, key checked, audio validated; "locked": the case row is locked
\* and the rows are in the open transaction; "stored": so is the object; "over": answered.
UploadRequest == [stage : {"none", "admitted", "locked", "stored", "over"},
                  case : Case \cup {None}]

NoUpload == [stage |-> "none", case |-> None]

\* "clear": the audio is decrypted; "failing": in the except clause; "lost": nobody works
\* on the rows any more.
Working == {"processing", "clear", "transcribed", "translated", "reviewed"}

Phase == Working \cup {"none", "scheduled", "failing", "over", "lost"}

\* revoked is how the key stood in the organisation row that authentication loaded: the
\* request's session keeps the object, so a later check sees the same value again.
StreamRequest == [of : Interview \cup {None}, revoked : BOOLEAN]

NoStream == [of |-> None, revoked |-> FALSE]

AuditEntry == [action : {"interview.upload", "pipeline.start", "pipeline.complete",
                         "pipeline.failed", "stream", "document.create"},
               of : Transcript]

Entry(action, t) == [action |-> action, of |-> t]

\* admitted and now: whether the key was revoked when the request was authenticated, and
\* when it decrypted.  A pipeline authenticates nobody.
Opening == [by : {"pipeline", "stream"}, of : Interview, admitted : BOOLEAN, now : BOOLEAN]

Record(entries) == audit' = audit \cup entries

--------------------------------------------------------------------------------
(***************************************************************************)
(* POST /cases/{case_id}/interviews.                                       *)
(***************************************************************************)
\* Mutant: a check that lets everything through.
KeyAlwaysUsable(revoked) == TRUE

\* is_data_key_revoked on the row that the session knows.
KeyUsable(revoked) == ~revoked

\* Permission, key and audio are checked; whether the case is deleted will be looked at again.
AdmitUpload(i, c) ==
    /\ upload[i].stage = "none"
    /\ KeyUsable(keyRevoked)
    /\ upload' = [upload EXCEPT ![i] = [stage |-> "admitted", case |-> c]]
    /\ UNCHANGED <<audio, transcripts, objects, pipeline, reading, lockedBy, deleted,
                   keyRevoked, audit, opened>>

\* Mutant: the case is locked whatever has become of it.
LockDeletedToo(i) ==
    LET c == upload[i].case
    IN  /\ upload[i].stage = "admitted"
        /\ lockedBy[c] = None
        /\ lockedBy' = [lockedBy EXCEPT ![c] = i]
        /\ upload' = [upload EXCEPT ![i].stage = "locked"]
        /\ UNCHANGED <<audio, transcripts, objects, pipeline, reading, deleted, keyRevoked,
                       audit, opened>>

\* Mutant: the lock is entered under the case.
LockByCase(i) ==
    LET c == upload[i].case
    IN  /\ upload[i].stage = "admitted"
        /\ lockedBy[c] = None
        /\ ~deleted[c]
        /\ lockedBy' = [lockedBy EXCEPT ![c] = c]
        /\ upload' = [upload EXCEPT ![i].stage = "locked"]
        /\ UNCHANGED <<audio, transcripts, objects, pipeline, reading, deleted, keyRevoked,
                       audit, opened>>

\* _lock_case, and the rows: nobody sees them before the commit.
LockAndInsert(i) ==
    LET c == upload[i].case
    IN  /\ upload[i].stage = "admitted"
        /\ lockedBy[c] = None
        /\ ~deleted[c]
        /\ lockedBy' = [lockedBy EXCEPT ![c] = i]
        /\ upload' = [upload EXCEPT ![i].stage = "locked"]
        /\ UNCHANGED <<audio, transcripts, objects, pipeline, reading, deleted, keyRevoked,
                       audit, opened>>

\* The locking read finds no case.
CaseMissing(i) ==
    /\ upload[i].stage = "admitted"
    /\ lockedBy[upload[i].case] = None
    /\ deleted[upload[i].case]
    /\ upload' = [upload EXCEPT ![i].stage = "over"]
    /\ UNCHANGED <<audio, transcripts, objects, pipeline, reading, lockedBy, deleted,
                   keyRevoked, audit, opened>>

PutObject(i) == objects' = objects \cup {i}

\* put_object, under the lock and before the commit.
StoreObject(i) ==
    /\ upload[i].stage = "locked"
    /\ PutObject(i)
    /\ upload' = [upload EXCEPT ![i].stage = "stored"]
    /\ UNCHANGED <<audio, transcripts, pipeline, reading, lockedBy, deleted, keyRevoked,
                   audit, opened>>

Release(i) == lockedBy' = [c \in Case |-> IF lockedBy[c] = i THEN None ELSE lockedBy[c]]

\* Mutant: the object is stored after the commit.
CommitUploadUnstored(i) ==
    LET c == upload[i].case
    IN  /\ upload[i].stage = "locked"
        /\ audio' = [audio EXCEPT ![i] = [status |-> "pending", case |-> c]]
        /\ transcripts' = [transcripts EXCEPT ![i] = [status |-> "pending", case |-> c,
                                                      audio |-> i, text |-> FALSE]]
        /\ Record({Entry("interview.upload", i), Entry("pipeline.start", i)})
        /\ upload' = [upload EXCEPT ![i].stage = "over"]
        /\ pipeline' = [pipeline EXCEPT ![i] = "scheduled"]
        /\ Release(i)
        /\ UNCHANGED <<objects, reading, deleted, keyRevoked, opened>>

\* The commit of rows and audit entries, and the task.  If the acknowledgement of the commit
\* is lost, or the process dies before it creates the task, nobody works on the rows.
CommitUpload(i) ==
    LET c == upload[i].case
    IN  /\ upload[i].stage = "stored"
        /\ audio' = [audio EXCEPT ![i] = [status |-> "pending", case |-> c]]
        /\ transcripts' = [transcripts EXCEPT ![i] = [status |-> "pending", case |-> c,
                                                      audio |-> i, text |-> FALSE]]
        /\ Record({Entry("interview.upload", i), Entry("pipeline.start", i)})
        /\ upload' = [upload EXCEPT ![i].stage = "over"]
        /\ \E phase \in {"scheduled"} \cup (IF ProcessMayDie THEN {"lost"} ELSE {}) :
              pipeline' = [pipeline EXCEPT ![i] = phase]
        /\ Release(i)
        /\ UNCHANGED <<objects, reading, deleted, keyRevoked, opened>>

\* An error, a lost client, the death of the process: the transaction is rolled back.  The
\* object stays in the store, even if put_object itself reports an error.
AbortUpload(i) ==
    /\ upload[i].stage \in {"admitted", "locked", "stored"}
    /\ UNCHANGED objects \/ (upload[i].stage = "locked" /\ PutObject(i))
    /\ upload' = [upload EXCEPT ![i].stage = "over"]
    /\ Release(i)
    /\ UNCHANGED <<audio, transcripts, pipeline, reading, deleted, keyRevoked, audit, opened>>

--------------------------------------------------------------------------------
(***************************************************************************)
(* _run_pipeline_background.  Both rows are always written together.       *)
(***************************************************************************)
SetStatus(i, status) ==
    /\ audio' = [audio EXCEPT ![i].status = status]
    /\ transcripts' = [transcripts EXCEPT ![i].status = status]

\* A commit is followed by the next phase, or, if its acknowledgement is lost, by the except
\* clause.
Goes(i, next) == \E phase \in {next, "failing"} : pipeline' = [pipeline EXCEPT ![i] = phase]

\* The first check of the key, and the claim of the rows.
Claim(i) ==
    /\ pipeline[i] = "scheduled"
    /\ KeyUsable(keyRevoked)
    /\ SetStatus(i, "processing")
    /\ Goes(i, "processing")
    /\ UNCHANGED <<objects, upload, reading, lockedBy, deleted, keyRevoked, audit, opened>>

\* get_object_bytes has something to return.
Stored(i) == i \in objects

\* decrypt_audio_from_storage does not go by the key alone: the caller says if it is revoked.
Opens(i, revoked) == Stored(i) /\ KeyUsable(revoked)

\* Mutant: the key was checked when the pipeline started.
DecryptByFirstCheck(i) ==
    /\ pipeline[i] = "processing"
    /\ Stored(i)
    /\ opened' = opened \cup {[by |-> "pipeline", of |-> i, admitted |-> FALSE,
                               now |-> keyRevoked]}
    /\ pipeline' = [pipeline EXCEPT ![i] = "clear"]
    /\ UNCHANGED <<audio, transcripts, objects, upload, reading, lockedBy, deleted,
                   keyRevoked, audit>>

\* The object is fetched and the key checked a second time.  The task's session dropped the
\* organisation after the first check, so this check reads the row again.
Decrypt(i) ==
    /\ pipeline[i] = "processing"
    /\ Opens(i, keyRevoked)
    /\ opened' = opened \cup {[by |-> "pipeline", of |-> i, admitted |-> FALSE,
                               now |-> keyRevoked]}
    /\ pipeline' = [pipeline EXCEPT ![i] = "clear"]
    /\ UNCHANGED <<audio, transcripts, objects, upload, reading, lockedBy, deleted,
                   keyRevoked, audit>>

Advance(i, from, to) ==
    /\ pipeline[i] = from
    /\ pipeline' = [pipeline EXCEPT ![i] = to]
    /\ UNCHANGED <<audio, transcripts, objects, upload, reading, lockedBy, deleted,
                   keyRevoked, audit, opened>>

\* _segments_from_whisper: if nothing was heard, neither NLLB nor the LLM is asked.
AfterWhisper == {"transcribed", "reviewed"}

\* Whisper on the decrypted file, which is removed again; what it hears is only in memory.
Transcribe(i) == \E phase \in AfterWhisper : Advance(i, "clear", phase)

\* NLLB, segment by segment.
Translate(i) == Advance(i, "transcribed", "translated")

\* The LLM reviews all segments in one call, and must return as many texts.
Review(i) == Advance(i, "translated", "reviewed")

\* complete_pipeline and its audit entry, in one commit.
Complete(i) ==
    /\ pipeline[i] = "reviewed"
    /\ audio' = [audio EXCEPT ![i].status = "complete"]
    /\ transcripts' = [transcripts EXCEPT ![i].status = "complete", ![i].text = TRUE]
    /\ Record({Entry("pipeline.complete", i)})
    /\ Goes(i, "over")
    /\ UNCHANGED <<objects, upload, reading, lockedBy, deleted, keyRevoked, opened>>

\* The key is revoked, the object cannot be read, Whisper, NLLB or the review fails, a
\* statement or a commit fails: on to the except clause.
PipelineError(i) ==
    /\ pipeline[i] \in Working \cup {"scheduled"}
    /\ pipeline' = [pipeline EXCEPT ![i] = "failing"]
    /\ UNCHANGED <<audio, transcripts, objects, upload, reading, lockedBy, deleted,
                   keyRevoked, audit, opened>>

\* Mutant: the failure is recorded on the transcript only.
RecordFailureOnce(i) ==
    /\ pipeline[i] = "failing"
    /\ transcripts' = [transcripts EXCEPT ![i].status = "failed"]
    /\ Record({Entry("pipeline.failed", i)})
    /\ pipeline' = [pipeline EXCEPT ![i] = "over"]
    /\ UNCHANGED <<audio, objects, upload, reading, lockedBy, deleted, keyRevoked, opened>>

\* Mutant: the failure is only logged.
LogFailure(i) ==
    /\ pipeline[i] = "failing"
    /\ pipeline' = [pipeline EXCEPT ![i] = "over"]
    /\ UNCHANGED <<audio, transcripts, objects, upload, reading, lockedBy, deleted,
                   keyRevoked, audit, opened>>

\* fail_pipeline in a session of its own, whatever the rows say by now; a text stays.
RecordFailure(i) ==
    /\ pipeline[i] = "failing"
    /\ SetStatus(i, "failed")
    /\ Record({Entry("pipeline.failed", i)})
    /\ pipeline' = [pipeline EXCEPT ![i] = "over"]
    /\ UNCHANGED <<objects, upload, reading, lockedBy, deleted, keyRevoked, opened>>

\* The process dies, the task is cancelled (which except Exception does not catch), or the
\* failure cannot be recorded.
PipelineDies(i) ==
    /\ ProcessMayDie
    /\ pipeline[i] \in Working \cup {"scheduled", "failing"}
    /\ pipeline' = [pipeline EXCEPT ![i] = "lost"]
    /\ UNCHANGED <<audio, transcripts, objects, upload, reading, lockedBy, deleted,
                   keyRevoked, audit, opened>>

--------------------------------------------------------------------------------
(***************************************************************************)
(* GET /cases/{case_id}/interviews/{audio_id}/audio.                       *)
(***************************************************************************)
AdmitStream(r, i) ==
    /\ reading[r] = NoStream
    /\ KeyUsable(keyRevoked)
    /\ audio[i].status # "absent"
    /\ reading' = [reading EXCEPT ![r] = [of |-> i, revoked |-> keyRevoked]]
    /\ UNCHANGED <<audio, transcripts, objects, upload, pipeline, lockedBy, deleted,
                   keyRevoked, audit, opened>>

\* The second check asks the organisation that the session has loaded; the audit entry is
\* committed before the audio is sent.
Stream(r) ==
    LET i == reading[r].of
    IN  /\ Opens(i, reading[r].revoked)
        /\ opened' = opened \cup {[by |-> "stream", of |-> i, admitted |-> reading[r].revoked,
                                   now |-> keyRevoked]}
        /\ Record({Entry("stream", i)})
        /\ reading' = [reading EXCEPT ![r] = NoStream]
        /\ UNCHANGED <<audio, transcripts, objects, upload, pipeline, lockedBy, deleted,
                       keyRevoked>>

AbortStream(r) ==
    /\ reading[r] # NoStream
    /\ reading' = [reading EXCEPT ![r] = NoStream]
    /\ UNCHANGED <<audio, transcripts, objects, upload, pipeline, lockedBy, deleted,
                   keyRevoked, audit, opened>>

--------------------------------------------------------------------------------
(***************************************************************************)
(* Documents entered by hand.  All that such a request does after it has   *)
(* got the case lock is in its own transaction.                            *)
(***************************************************************************)
Enter(t, c, row) ==
    /\ transcripts[t].status = "absent"
    /\ lockedBy[c] = None
    /\ ~deleted[c]
    /\ transcripts' = [transcripts EXCEPT ![t] = row]
    /\ Record({Entry("document.create", t)})
    /\ UNCHANGED <<audio, objects, upload, pipeline, reading, lockedBy, deleted, keyRevoked,
                   opened>>

SeedRow(c, i) == [status |-> "complete", case |-> c, audio |-> i, text |-> TRUE]

\* POST .../transcripts: complete from the start; it may name any interview there is.
SeedTranscript(t, c, i) ==
    /\ i # None => audio[i].status # "absent"
    /\ Enter(t, c, SeedRow(c, i))

\* A prior statement belongs to no interview.
PriorStatement(c) == [status |-> "complete", case |-> c, audio |-> None, text |-> TRUE]

CreatePriorStatement(t, c) == Enter(t, c, PriorStatement(c))

--------------------------------------------------------------------------------
\* POST /orgs/admin/revoke-data-key.
RevokeKey ==
    /\ keyRevoked' = TRUE
    /\ UNCHANGED <<audio, transcripts, objects, upload, pipeline, reading, lockedBy, deleted,
                   audit, opened>>

\* Soft deletion and restoration update the case row and wait for its lock.
SetDeleted(c, d) ==
    /\ lockedBy[c] = None
    /\ deleted' = [deleted EXCEPT ![c] = d]
    /\ UNCHANGED <<audio, transcripts, objects, upload, pipeline, reading, lockedBy,
                   keyRevoked, audit, opened>>

Init == /\ audio = [i \in Interview |-> NoAudio]
        /\ transcripts = [t \in Transcript |-> NoTranscript]
        /\ objects = {}
        /\ upload = [i \in Interview |-> NoUpload]
        /\ pipeline = [i \in Interview |-> "none"]
        /\ reading = [r \in Reader |-> NoStream]
        /\ lockedBy = [c \in Case |-> None]
        /\ deleted = [c \in Case |-> FALSE]
        /\ keyRevoked = FALSE
        /\ audit = {}
        /\ opened = {}

UploadStep(i) == \/ \E c \in Case : AdmitUpload(i, c)
                 \/ LockAndInsert(i)
                 \/ CaseMissing(i)
                 \/ StoreObject(i)
                 \/ CommitUpload(i)
                 \/ AbortUpload(i)

PipelineStep(i) == \/ Claim(i)
                   \/ Decrypt(i)
                   \/ Transcribe(i)
                   \/ Translate(i)
                   \/ Review(i)
                   \/ Complete(i)
                   \/ PipelineError(i)
                   \/ RecordFailure(i)

StreamStep(r) == \/ \E i \in Interview : AdmitStream(r, i)
                 \/ Stream(r)
                 \/ AbortStream(r)

DocumentStep(t) == \E c \in Case : \/ \E i \in Interview \cup {None} : SeedTranscript(t, c, i)
                                   \/ CreatePriorStatement(t, c)

Next == \/ \E i \in Interview : UploadStep(i) \/ PipelineStep(i) \/ PipelineDies(i)
        \/ \E r \in Reader : StreamStep(r)
        \/ \E t \in Document : DocumentStep(t)
        \/ \E c \in Case, d \in BOOLEAN : SetDeleted(c, d)
        \/ RevokeKey

Spec == Init /\ [][Next]_vars

(***************************************************************************)
(* Fairness.  A handler that does not wait for the case row ends, one that *)
(* waits gets it if it is free again and again (PostgreSQL queues the      *)
(* waiters), and a pipeline goes on to one of its last commits.            *)
(***************************************************************************)
Fairness ==
    \A i \in Interview :
        /\ WF_vars(StoreObject(i) \/ CommitUpload(i))
        /\ SF_vars(LockAndInsert(i) \/ CaseMissing(i))
        /\ WF_vars(PipelineStep(i))

FairSpec == Spec /\ Fairness

--------------------------------------------------------------------------------
(***************************************************************************)
(* Properties                                                              *)
(***************************************************************************)
\* Every variable has its type.
TypeOK == /\ audio \in [Interview -> AudioRow]
          /\ transcripts \in [Transcript -> TranscriptRow]
          /\ objects \subseteq Interview
          /\ upload \in [Interview -> UploadRequest]
          /\ pipeline \in [Interview -> Phase]
          /\ reading \in [Reader -> StreamRequest]
          /\ lockedBy \in [Case -> Interview \cup {None}]
          /\ deleted \in [Case -> BOOLEAN]
          /\ keyRevoked \in BOOLEAN
          /\ audit \subseteq AuditEntry
          /\ opened \subseteq Opening

\* A row never points at audio that is not in the store, whatever fails on the way
\* (upload_interview stores before it commits).
AudioStored == \A i \in Interview : audio[i].status # "absent" => i \in objects

\* transcripts.interview_audio_id is not unique.
TranscriptsOf(i) == {t \in Transcript : transcripts[t].audio = i}

\* GET .../interviews/{id}: it raises if there are two transcripts of the interview.
GetInterviewAudio(i) ==
    IF \E t, u \in TranscriptsOf(i) : t # u THEN "error" ELSE audio[i].status

\* What GET .../interviews/{id} says of an interview, and GET .../transcripts/{id} of its
\* transcript, agree with each other and with the audit log: complete only with the entry of
\* a completion, failed only with that of a failure, and after a completion there is a text
\* (complete_pipeline, fail_pipeline and the entries of their commits), even when a failure
\* was recorded over it.  Only a transcript entered by hand can make the GET fail.
OutcomesAudited ==
    \A i \in Interview :
        /\ \/ GetInterviewAudio(i) = transcripts[i].status
           \/ \E t \in Document : i = transcripts[t].audio
        /\ audio[i].status = transcripts[i].status
        /\ audio[i].status = "complete" => Entry("pipeline.complete", i) \in audit
        /\ audio[i].status = "failed" <=> Entry("pipeline.failed", i) \in audit
        /\ transcripts[i].text <=> Entry("pipeline.complete", i) \in audit

\* What DeclarationsService.generate asks of a transcript before it drafts from it.
Draftable(t, c) == transcripts[t].status = "complete" /\ transcripts[t].case = c

\* A declaration can be drafted from a transcript only of this very case, with its text, and,
\* if it is an interview's, after its audio was decrypted with a key that was not revoked
\* at that time.
DraftableEarned ==
    \A c \in Case, t \in Transcript : Draftable(t, c) =>
        /\ transcripts[t].text
        /\ t \in Interview => /\ upload[t].case = c
                              /\ \E o \in opened : /\ o.by = "pipeline" /\ o.of = t
                                                   /\ ~o.now

\* After the revocation (revoke_data_key) no pipeline decrypts, and no stream that was
\* authenticated after it does; one that was authenticated before it may.
RevocationHolds == \A o \in opened : ~o.admitted /\ (o.by = "pipeline" => ~o.now)

\* No row is added to a deleted case: the deletion that commits after the permission check
\* is seen by the locking read.
NothingOnDeletedCase ==
    [][\A t \in Transcript :
          transcripts[t].status = "absent" /\ transcripts'[t].status # "absent"
              => ~deleted[transcripts'[t].case]]_vars

\* Every upload ends, although each holds the case row while its audio is stored: it leaves
\* no interview, or one that the client who polls will find completed or failed, unless the
\* process dies under its pipeline or before it is started.
UploadsSettle ==
    \A i \in Interview :
        upload[i].stage # "none" ~>
            /\ upload[i].stage = "over"
            /\ audio[i].status \in {"absent", "complete", "failed"} \/ pipeline[i] = "lost"

================================================================================
