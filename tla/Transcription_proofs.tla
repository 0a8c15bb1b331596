-------------------------- MODULE Transcription_proofs --------------------------
(***************************************************************************)
(* Transcription keeps its types, points at audio that is in the store,    *)
(* records what became of a pipeline, decrypts with a key that was not     *)
(* revoked and adds nothing to a deleted case, for every set of cases,     *)
(* interviews, documents and readers.                                      *)
(*                                                                         *)
(* The argument: each interview has one upload and then one pipeline, and  *)
(* where these are says what its rows and the audit log hold (Followed).   *)
(* A pipeline that may still write has not failed yet, so a failure is the *)
(* last that is said of an interview.  Between the lock and the commit the *)
(* upload holds its case row, which keeps a deletion out (Locking).        *)
(***************************************************************************)
EXTENDS Transcription, TLAPS

\* A pipeline has decrypted the audio while the key was not revoked.
OpenedInTime(i) == \E o \in opened : o.by = "pipeline" /\ o.of = i /\ ~o.now

\* What the rows of an interview and the store hold, by where its upload and its pipeline are.
Placed(i) ==
    /\ upload[i].stage # "none" => upload[i].case \in Case
    /\ upload[i].stage = "stored" => i \in objects
    /\ pipeline[i] = "none" <=> audio[i].status = "absent"
    /\ pipeline[i] # "none" => /\ upload[i].stage = "over"
                               /\ i \in objects
                               /\ transcripts[i].case = upload[i].case
    /\ transcripts[i].status = audio[i].status
    /\ transcripts[i].audio \in {None, i}

\* What has been said about it, and from which of its phases on.
Told(i) ==
    /\ audio[i].status = "failed" => pipeline[i] \in {"over", "lost"}
    /\ pipeline[i] = "none" => ~transcripts[i].text
    /\ audio[i].status = "complete" => Entry("pipeline.complete", i) \in audit
    /\ audio[i].status = "failed" <=> Entry("pipeline.failed", i) \in audit
    /\ transcripts[i].text <=> Entry("pipeline.complete", i) \in audit
    /\ \/ pipeline[i] \in {"clear", "transcribed", "translated", "reviewed"}
       \/ audio[i].status = "complete"
       => OpenedInTime(i)

Followed == \A i \in Interview : Placed(i) /\ Told(i)

\* What is entered by hand is complete with its text.
Entered == \A t \in Document : transcripts[t].status = "complete" => transcripts[t].text

\* Requests for audio were let in with a key that was not revoked.
LetIn == \A r \in Reader : ~reading[r].revoked

\* An upload that has the lock has it on its case, which is not deleted.
Locking ==
    \A i \in Interview : upload[i].stage \in {"locked", "stored"} =>
        lockedBy[upload[i].case] = i /\ ~deleted[upload[i].case]

Inv == TypeOK /\ Followed /\ Entered /\ LetIn /\ Locking /\ RevocationHolds

--------------------------------------------------------------------------------
(***************************************************************************)
(* What a step does.                                                       *)
(***************************************************************************)

\* The rows, the upload and the pipeline of an interview stay as they are.
Quiet(i) == /\ audio'[i] = audio[i] /\ transcripts'[i] = transcripts[i]
            /\ upload'[i] = upload[i] /\ pipeline'[i] = pipeline[i]

\* Uploads and pipelines leave those of other interviews alone.
LEMMA OwnSteps ==
    ASSUME TypeOK, NEW i \in Interview, NEW j \in Interview, i # j,
           UploadStep(j) \/ PipelineStep(j) \/ PipelineDies(j)
    PROVE  Quiet(i)
<1>1. /\ audio \in [Interview -> AudioRow] /\ upload \in [Interview -> UploadRequest]
      /\ transcripts \in [Transcript -> TranscriptRow] /\ pipeline \in [Interview -> Phase]
      /\ i \in Transcript
  BY DEF TypeOK, Transcript
<1>2. ASSUME UploadStep(j)
      PROVE  Quiet(i)
  <2>1. ASSUME NEW c \in Case, AdmitUpload(j, c)
        PROVE  Quiet(i)
    BY <1>1, <2>1 DEF AdmitUpload, Quiet
  <2>2. CASE LockAndInsert(j) \/ CaseMissing(j) \/ StoreObject(j) \/ AbortUpload(j)
    BY <1>1, <2>2 DEF LockAndInsert, CaseMissing, StoreObject, AbortUpload, Quiet
  <2>3. CASE CommitUpload(j)
    BY <1>1, <2>3 DEF CommitUpload, Quiet
  <2> QED BY <1>2, <2>1, <2>2, <2>3 DEF UploadStep
<1>3. ASSUME PipelineStep(j) \/ PipelineDies(j)
      PROVE  Quiet(i)
  <2>1. CASE Claim(j) \/ RecordFailure(j)
    BY <1>1, <2>1 DEF Claim, RecordFailure, SetStatus, Goes, Quiet
  <2>2. CASE Complete(j)
    BY <1>1, <2>2 DEF Complete, Goes, Quiet
  <2>3. CASE Decrypt(j) \/ PipelineError(j) \/ PipelineDies(j)
    BY <1>1, <2>3 DEF Decrypt, PipelineError, PipelineDies, Quiet
  <2>4. CASE Transcribe(j) \/ Translate(j) \/ Review(j)
    BY <1>1, <2>4 DEF Transcribe, Translate, Review, Advance, Quiet
  <2> QED BY <1>3, <2>1, <2>2, <2>3, <2>4 DEF PipelineStep
<1> QED BY <1>2, <1>3

\* So do all other steps.
LEMMA OtherSteps ==
    ASSUME TypeOK, NEW i \in Interview,
           \/ \E r \in Reader : StreamStep(r)
           \/ \E t \in Document : DocumentStep(t)
           \/ \E c \in Case, d \in BOOLEAN : SetDeleted(c, d)
           \/ RevokeKey
           \/ UNCHANGED vars
    PROVE  Quiet(i) /\ objects' = objects
<1>1. ASSUME NEW r \in Reader, StreamStep(r)
      PROVE  Quiet(i) /\ objects' = objects
  BY <1>1 DEF StreamStep, AdmitStream, Stream, AbortStream, Quiet
<1>2. ASSUME NEW t \in Document, DocumentStep(t)
      PROVE  Quiet(i) /\ objects' = objects
  <2>1. t # i /\ i \in Transcript /\ transcripts \in [Transcript -> TranscriptRow]
    BY Apart DEF TypeOK, Transcript
  <2>2. PICK c \in Case : \E row : Enter(t, c, row)
    BY <1>2 DEF DocumentStep, SeedTranscript, CreatePriorStatement
  <2>3. PICK row : Enter(t, c, row)
    BY <2>2
  <2> QED BY <2>1, <2>3 DEF Enter, Quiet
<1>3. CASE \/ \E c \in Case, d \in BOOLEAN : SetDeleted(c, d)
           \/ RevokeKey
           \/ UNCHANGED vars
  BY <1>3 DEF SetDeleted, RevokeKey, Quiet, vars
<1> QED BY <1>1, <1>2, <1>3

\* What is said of a pipeline in the audit log is kept, and said at its ends only.
LEMMA AuditEffect ==
    ASSUME [Next]_vars, NEW i \in Interview
    PROVE  /\ audit \subseteq audit'
           /\ Entry("pipeline.complete", i) \in audit' =>
                  Entry("pipeline.complete", i) \in audit \/ Complete(i)
           /\ Entry("pipeline.failed", i) \in audit' =>
                  Entry("pipeline.failed", i) \in audit \/ RecordFailure(i)
<1> DEFINE kept == /\ audit \subseteq audit'
                   /\ Entry("pipeline.complete", i) \in audit' =>
                          Entry("pipeline.complete", i) \in audit \/ Complete(i)
                   /\ Entry("pipeline.failed", i) \in audit' =>
                          Entry("pipeline.failed", i) \in audit \/ RecordFailure(i)
<1>1. ASSUME NEW j \in Interview, UploadStep(j)
      PROVE  kept
  <2>1. CASE CommitUpload(j)
    BY <2>1 DEF CommitUpload, Record, Entry
  <2>2. CASE ~CommitUpload(j)
    BY <1>1, <2>2 DEF UploadStep, AdmitUpload, LockAndInsert, CaseMissing, StoreObject, AbortUpload
  <2> QED BY <2>1, <2>2
<1>2. ASSUME NEW j \in Interview, PipelineStep(j) \/ PipelineDies(j)
      PROVE  kept
  <2>1. CASE Complete(j)
    <3>1. audit' = audit \cup {Entry("pipeline.complete", j)}
      BY <2>1 DEF Complete, Record
    <3>2. Entry("pipeline.complete", i) = Entry("pipeline.complete", j) => i = j
      BY DEF Entry
    <3>3. Entry("pipeline.failed", i) # Entry("pipeline.complete", j)
      BY DEF Entry
    <3> QED BY <2>1, <3>1, <3>2, <3>3
  <2>2. CASE RecordFailure(j)
    <3>1. audit' = audit \cup {Entry("pipeline.failed", j)}
      BY <2>2 DEF RecordFailure, Record
    <3>2. Entry("pipeline.failed", i) = Entry("pipeline.failed", j) => i = j
      BY DEF Entry
    <3>3. Entry("pipeline.complete", i) # Entry("pipeline.failed", j)
      BY DEF Entry
    <3> QED BY <2>2, <3>1, <3>2, <3>3
  <2>3. CASE ~Complete(j) /\ ~RecordFailure(j)
    BY <1>2, <2>3 DEF PipelineStep, Claim, Decrypt, Transcribe, Translate, Review, Advance,
                      PipelineError, PipelineDies
  <2> QED BY <2>1, <2>2, <2>3
<1>3. ASSUME NEW r \in Reader, StreamStep(r)
      PROVE  kept
  BY <1>3 DEF StreamStep, AdmitStream, Stream, AbortStream, Record, Entry
<1>4. ASSUME NEW t \in Document, DocumentStep(t)
      PROVE  kept
  <2>1. PICK c \in Case : \E row : Enter(t, c, row)
    BY <1>4 DEF DocumentStep, SeedTranscript, CreatePriorStatement
  <2> QED BY <2>1 DEF Enter, Record, Entry
<1>5. CASE \/ \E c \in Case, d \in BOOLEAN : SetDeleted(c, d)
           \/ RevokeKey
           \/ UNCHANGED vars
  BY <1>5 DEF SetDeleted, RevokeKey, vars
<1> QED BY <1>1, <1>2, <1>3, <1>4, <1>5 DEF Next

\* Nothing that was decrypted is forgotten, and nothing is removed from the store.
LEMMA KeptForGood ==
    ASSUME [Next]_vars
    PROVE  opened \subseteq opened' /\ objects \subseteq objects'
<1>1. ASSUME NEW j \in Interview, UploadStep(j)
      PROVE  opened \subseteq opened' /\ objects \subseteq objects'
  BY <1>1 DEF UploadStep, AdmitUpload, LockAndInsert, CaseMissing, StoreObject, CommitUpload,
              AbortUpload, PutObject
<1>2. ASSUME NEW j \in Interview, PipelineStep(j) \/ PipelineDies(j)
      PROVE  opened \subseteq opened' /\ objects \subseteq objects'
  BY <1>2 DEF PipelineStep, Claim, Decrypt, Transcribe, Translate, Review, Advance, Complete,
              PipelineError, RecordFailure, PipelineDies
<1>3. ASSUME NEW r \in Reader, StreamStep(r)
      PROVE  opened \subseteq opened' /\ objects \subseteq objects'
  BY <1>3 DEF StreamStep, AdmitStream, Stream, AbortStream
<1>4. ASSUME NEW t \in Document, DocumentStep(t)
      PROVE  opened \subseteq opened' /\ objects \subseteq objects'
  BY <1>4 DEF DocumentStep, SeedTranscript, CreatePriorStatement, Enter
<1>5. CASE \/ \E c \in Case, d \in BOOLEAN : SetDeleted(c, d)
           \/ RevokeKey
           \/ UNCHANGED vars
  BY <1>5 DEF SetDeleted, RevokeKey, vars
<1> QED BY <1>1, <1>2, <1>3, <1>4, <1>5 DEF Next

--------------------------------------------------------------------------------
(***************************************************************************)
(* Types.                                                                  *)
(***************************************************************************)

\* The audit entries the steps make, and the rows they start from.
LEMMA RowTypes ==
    /\ \A i \in Interview : /\ Entry("interview.upload", i) \in AuditEntry
                            /\ Entry("pipeline.start", i) \in AuditEntry
                            /\ Entry("pipeline.complete", i) \in AuditEntry
                            /\ Entry("pipeline.failed", i) \in AuditEntry
                            /\ Entry("stream", i) \in AuditEntry
    /\ \A t \in Document : Entry("document.create", t) \in AuditEntry
    /\ NoAudio \in AudioRow /\ NoTranscript \in TranscriptRow
    /\ NoUpload \in UploadRequest /\ NoStream \in StreamRequest
BY DEF Entry, AuditEntry, Transcript, NoAudio, AudioRow, NoTranscript, TranscriptRow, NoUpload,
       UploadRequest, NoStream, StreamRequest, TranscriptStatus

\* Every variable has its type at first.
LEMMA TypeInit == Init => TypeOK
BY RowTypes DEF Init, TypeOK, Phase

\* The steps of uploads keep the types.
LEMMA UploadType ==
    ASSUME TypeOK, NEW i \in Interview, UploadStep(i)
    PROVE  TypeOK'
<1> USE DEF TypeOK
<1>1. ASSUME NEW c \in Case, AdmitUpload(i, c)
      PROVE  TypeOK'
  BY <1>1 DEF AdmitUpload, UploadRequest
<1>2. CASE LockAndInsert(i)
  BY <1>2 DEF LockAndInsert, UploadRequest
<1>3. CASE CaseMissing(i)
  BY <1>3 DEF CaseMissing, UploadRequest
<1>4. CASE StoreObject(i)
  BY <1>4 DEF StoreObject, PutObject, UploadRequest
<1>5. CASE CommitUpload(i)
  <2>1. upload[i].case \in Case \cup {None} /\ upload' \in [Interview -> UploadRequest]
    BY <1>5 DEF CommitUpload, UploadRequest
  <2>2. audio' \in [Interview -> AudioRow]
    BY <1>5, <2>1 DEF CommitUpload, AudioRow, TranscriptStatus
  <2>3. transcripts' \in [Transcript -> TranscriptRow]
    BY <1>5, <2>1 DEF CommitUpload, TranscriptRow, TranscriptStatus
  <2>4. pipeline' \in [Interview -> Phase]
    BY <1>5 DEF CommitUpload, Phase
  <2>5. lockedBy' \in [Case -> Interview \cup {None}]
    BY <1>5 DEF CommitUpload, Release
  <2>6. audit' \subseteq AuditEntry
    BY <1>5, RowTypes DEF CommitUpload, Record
  <2> QED BY <1>5, <2>1, <2>2, <2>3, <2>4, <2>5, <2>6 DEF CommitUpload
<1>6. CASE AbortUpload(i)
  BY <1>6 DEF AbortUpload, Release, PutObject, UploadRequest
<1> QED BY <1>1, <1>2, <1>3, <1>4, <1>5, <1>6 DEF UploadStep

\* The steps of pipelines keep the types.
LEMMA PipelineType ==
    ASSUME TypeOK, NEW i \in Interview, PipelineStep(i) \/ PipelineDies(i)
    PROVE  TypeOK'
<1>1. ASSUME NEW status \in TranscriptStatus, SetStatus(i, status)
      PROVE  audio' \in [Interview -> AudioRow] /\ transcripts' \in [Transcript -> TranscriptRow]
  BY <1>1 DEF SetStatus, TypeOK, AudioRow, TranscriptRow
<1>2. CASE Claim(i)
  <2>1. SetStatus(i, "processing")
    BY <1>2 DEF Claim
  <2> QED BY <1>1, <1>2, <2>1 DEF Claim, Goes, TypeOK, Phase, Working, TranscriptStatus
<1>3. CASE Decrypt(i)
  <2>1. [by |-> "pipeline", of |-> i, admitted |-> FALSE, now |-> keyRevoked] \in Opening
    BY DEF TypeOK, Opening
  <2> QED BY <1>3, <2>1 DEF Decrypt, TypeOK, Phase, Working
<1>4. CASE Transcribe(i) \/ Translate(i) \/ Review(i)
  BY <1>4 DEF Transcribe, Translate, Review, Advance, AfterWhisper, TypeOK, Phase, Working
<1>5. CASE Complete(i)
  <2>1. audio' \in [Interview -> AudioRow]
    BY <1>5 DEF Complete, TypeOK, AudioRow, TranscriptStatus
  <2>2. transcripts' \in [Transcript -> TranscriptRow]
    <3>1. [transcripts EXCEPT ![i].status = "complete"] \in [Transcript -> TranscriptRow]
      BY DEF TypeOK, TranscriptRow, TranscriptStatus
    <3>2. \A rows \in [Transcript -> TranscriptRow] :
              [rows EXCEPT ![i].text = TRUE] \in [Transcript -> TranscriptRow]
      BY DEF TranscriptRow
    <3>3. transcripts' = [[transcripts EXCEPT ![i].status = "complete"] EXCEPT ![i].text = TRUE]
      BY <1>5 DEF Complete
    <3> QED BY <3>1, <3>2, <3>3
  <2> QED BY <1>5, <2>1, <2>2, RowTypes DEF Complete, Goes, Record, TypeOK, Phase, Working
<1>6. CASE PipelineError(i) \/ PipelineDies(i)
  BY <1>6 DEF PipelineError, PipelineDies, TypeOK, Phase
<1>7. CASE RecordFailure(i)
  <2>1. SetStatus(i, "failed")
    BY <1>7 DEF RecordFailure
  <2> QED BY <1>1, <1>7, <2>1, RowTypes DEF RecordFailure, Record, TypeOK, Phase, TranscriptStatus
<1> QED BY <1>2, <1>3, <1>4, <1>5, <1>6, <1>7 DEF PipelineStep

\* Every step keeps the types.
LEMMA TypeStep ==
    ASSUME TypeOK, [Next]_vars
    PROVE  TypeOK'
<1>1. ASSUME NEW r \in Reader, StreamStep(r)
      PROVE  TypeOK'
  <2>1. reading[r] \in StreamRequest
    BY DEF TypeOK
  <2>2. ASSUME NEW i \in Interview, AdmitStream(r, i)
        PROVE  TypeOK'
    BY <2>2 DEF AdmitStream, TypeOK, StreamRequest
  <2>3. CASE Stream(r)
    <3>1. reading[r].of \in Interview
      BY <2>1, <2>3, NoneIsNone DEF Stream, Opens, Stored, TypeOK
    <3>2. [by |-> "stream", of |-> reading[r].of, admitted |-> reading[r].revoked,
           now |-> keyRevoked] \in Opening
      BY <2>1, <3>1 DEF TypeOK, Opening, StreamRequest
    <3> QED BY <2>3, <3>1, <3>2, RowTypes DEF Stream, Record, TypeOK
  <2>4. CASE AbortStream(r)
    BY <2>4, RowTypes DEF AbortStream, TypeOK
  <2> QED BY <1>1, <2>2, <2>3, <2>4 DEF StreamStep
<1>2. ASSUME NEW t \in Document, DocumentStep(t)
      PROVE  TypeOK'
  <2>1. ASSUME NEW c \in Case, NEW row \in TranscriptRow, Enter(t, c, row)
        PROVE  TypeOK'
    BY <2>1, RowTypes DEF Enter, Record, TypeOK
  <2>2. \A c \in Case : /\ \A i \in Interview \cup {None} : SeedRow(c, i) \in TranscriptRow
                        /\ PriorStatement(c) \in TranscriptRow
    BY DEF SeedRow, PriorStatement, TranscriptRow, TranscriptStatus
  <2> QED BY <1>2, <2>1, <2>2 DEF DocumentStep, SeedTranscript, CreatePriorStatement
<1>3. CASE \/ \E c \in Case, d \in BOOLEAN : SetDeleted(c, d)
           \/ RevokeKey
           \/ UNCHANGED vars
  BY <1>3 DEF SetDeleted, RevokeKey, TypeOK, vars
<1> QED BY <1>1, <1>2, <1>3, UploadType, PipelineType DEF Next

--------------------------------------------------------------------------------
(***************************************************************************)
(* The other parts of the invariant.                                       *)
(***************************************************************************)

\* An interview that no step touches is followed as before.
LEMMA QuietFollowed ==
    ASSUME TypeOK, [Next]_vars, NEW i \in Interview, Placed(i), Told(i), Quiet(i),
           ~Complete(i), ~RecordFailure(i)
    PROVE  (Placed(i) /\ Told(i))'
<1>1. Placed(i)'
  BY KeptForGood DEF Placed, Quiet
<1>2. OpenedInTime(i) => OpenedInTime(i)'
  BY KeptForGood DEF OpenedInTime
<1>3. /\ Entry("pipeline.complete", i) \in audit' <=> Entry("pipeline.complete", i) \in audit
      /\ Entry("pipeline.failed", i) \in audit' <=> Entry("pipeline.failed", i) \in audit
  BY AuditEffect
<1>4. Told(i)'
  BY <1>2, <1>3 DEF Told, Quiet, Entry
<1> QED BY <1>1, <1>4

\* An upload's own step leaves its interview followed.
LEMMA UploadFollowed ==
    ASSUME TypeOK, [Next]_vars, NEW i \in Interview, Placed(i), Told(i), UploadStep(i)
    PROVE  (Placed(i) /\ Told(i))'
<1>1. /\ audio \in [Interview -> AudioRow] /\ upload \in [Interview -> UploadRequest]
      /\ transcripts \in [Transcript -> TranscriptRow] /\ pipeline \in [Interview -> Phase]
      /\ i \in Transcript
  BY DEF TypeOK, Transcript
<1>2. OpenedInTime(i) => OpenedInTime(i)'
  BY KeptForGood DEF OpenedInTime
<1>3. ~Complete(i) /\ ~RecordFailure(i)
  <2>1. pipeline[i] = "none"
    BY DEF Placed, UploadStep, AdmitUpload, LockAndInsert, CaseMissing, StoreObject,
           CommitUpload, AbortUpload
  <2> QED BY <2>1 DEF Complete, RecordFailure
<1>4. /\ Entry("pipeline.complete", i) \in audit' <=> Entry("pipeline.complete", i) \in audit
      /\ Entry("pipeline.failed", i) \in audit' <=> Entry("pipeline.failed", i) \in audit
  BY <1>3, AuditEffect
<1>5. ASSUME /\ audio'[i] = audio[i] /\ transcripts'[i] = transcripts[i]
             /\ pipeline'[i] = pipeline[i]
      PROVE  Told(i)'
  BY <1>2, <1>4, <1>5 DEF Told, Entry
<1>6. ASSUME NEW c \in Case, AdmitUpload(i, c)
      PROVE  (Placed(i) /\ Told(i))'
  <2>1. Placed(i)'
    BY <1>1, <1>6 DEF AdmitUpload, Placed
  <2> QED BY <1>5, <1>6, <2>1 DEF AdmitUpload
<1>7. CASE LockAndInsert(i) \/ CaseMissing(i) \/ StoreObject(i) \/ AbortUpload(i)
  <2>1. /\ audio' = audio /\ transcripts' = transcripts /\ pipeline' = pipeline
        /\ objects \subseteq objects'
    BY <1>7 DEF LockAndInsert, CaseMissing, StoreObject, AbortUpload, PutObject
  <2>2. /\ upload[i].stage \in {"admitted", "locked", "stored"}
        /\ upload'[i].case = upload[i].case
        /\ upload'[i].stage \in {"locked", "stored", "over"}
        /\ upload'[i].stage = "stored" => i \in objects'
    BY <1>1, <1>7 DEF LockAndInsert, CaseMissing, StoreObject, AbortUpload, PutObject, UploadRequest
  <2>3. Placed(i)'
    BY <2>1, <2>2 DEF Placed
  <2> QED BY <1>5, <2>1, <2>3
<1>8. CASE CommitUpload(i)
  <2>1. /\ upload[i].stage = "stored" /\ upload'[i].stage = "over"
        /\ upload'[i].case = upload[i].case
    BY <1>1, <1>8 DEF CommitUpload, UploadRequest
  <2>2. audio'[i].status = "pending"
    BY <1>1, <1>8 DEF CommitUpload
  <2>3. transcripts'[i] = [status |-> "pending", case |-> upload[i].case, audio |-> i,
                           text |-> FALSE]
    BY <1>1, <1>8 DEF CommitUpload
  <2>4. pipeline'[i] \in {"scheduled", "lost"}
    BY <1>1, <1>8 DEF CommitUpload
  <2>5. objects' = objects
    BY <1>8 DEF CommitUpload
  <2>6. pipeline[i] = "none" /\ audio[i].status = "absent"
    BY <2>1 DEF Placed
  <2>7. Placed(i)'
    BY <2>1, <2>2, <2>3, <2>4, <2>5 DEF Placed
  <2>8. Told(i)'
    BY <1>4, <2>2, <2>3, <2>4, <2>6 DEF Told, Entry
  <2> QED BY <2>7, <2>8
<1> QED BY <1>6, <1>7, <1>8 DEF UploadStep

\* A pipeline's own step leaves its interview followed.
LEMMA PipelineFollowed ==
    ASSUME TypeOK, [Next]_vars, NEW i \in Interview, Placed(i), Told(i),
           PipelineStep(i) \/ PipelineDies(i)
    PROVE  (Placed(i) /\ Told(i))'
<1>1. /\ audio \in [Interview -> AudioRow] /\ pipeline \in [Interview -> Phase]
      /\ transcripts \in [Transcript -> TranscriptRow] /\ i \in Transcript
      /\ transcripts[i] \in TranscriptRow /\ audio[i] \in AudioRow
  BY DEF TypeOK, Transcript
<1>2. OpenedInTime(i) => OpenedInTime(i)'
  BY KeptForGood DEF OpenedInTime
<1>3. /\ audit \subseteq audit'
      /\ ~Complete(i) => (Entry("pipeline.complete", i) \in audit' <=>
                              Entry("pipeline.complete", i) \in audit)
      /\ ~RecordFailure(i) => (Entry("pipeline.failed", i) \in audit' <=>
                                   Entry("pipeline.failed", i) \in audit)
  BY AuditEffect
<1>4. /\ upload' = upload /\ objects' = objects
      /\ pipeline[i] \in Working \cup {"scheduled", "failing"}
  BY DEF PipelineStep, Claim, Decrypt, Transcribe, Translate, Review, Advance, Complete,
         PipelineError, RecordFailure, PipelineDies, Working
<1>5. /\ upload[i].stage = "over" /\ i \in objects /\ transcripts[i].case = upload[i].case
      /\ transcripts[i].status = audio[i].status /\ audio[i].status \notin {"absent", "failed"}
      /\ Entry("pipeline.failed", i) \notin audit
  BY <1>4 DEF Placed, Told, Working
<1>6. ASSUME NEW status \in TranscriptStatus, SetStatus(i, status)
      PROVE  /\ audio'[i].status = status /\ transcripts'[i].status = status
             /\ transcripts'[i].case = transcripts[i].case
             /\ transcripts'[i].audio = transcripts[i].audio
             /\ transcripts'[i].text = transcripts[i].text
  BY <1>1, <1>6 DEF SetStatus, AudioRow, TranscriptRow
<1>7. CASE Claim(i)
  <2>1. SetStatus(i, "processing") /\ "processing" \in TranscriptStatus
    BY <1>7 DEF Claim, TranscriptStatus
  <2>2. pipeline'[i] \in {"processing", "failing"}
    BY <1>1, <1>7 DEF Claim, Goes
  <2>3. ~Complete(i) /\ ~RecordFailure(i)
    BY <1>7 DEF Claim, Complete, RecordFailure
  <2>4. Placed(i)'
    BY <1>4, <1>5, <1>6, <2>1, <2>2 DEF Placed
  <2>5. Told(i)'
    BY <1>3, <1>5, <1>6, <2>1, <2>2, <2>3 DEF Told, Entry
  <2> QED BY <2>4, <2>5
<1>8. CASE \/ Decrypt(i) \/ Transcribe(i) \/ Translate(i) \/ Review(i) \/ PipelineError(i)
           \/ PipelineDies(i)
  <2>1. /\ audio' = audio /\ transcripts' = transcripts /\ audit' = audit
        /\ pipeline'[i] \notin {"none", "over"}
    BY <1>1, <1>8 DEF Decrypt, Transcribe, Translate, Review, Advance, AfterWhisper,
                      PipelineError, PipelineDies
  <2>2. pipeline'[i] \in {"clear", "transcribed", "translated", "reviewed"} => OpenedInTime(i)'
    <3>1. CASE Decrypt(i)
      <4> DEFINE o == [by |-> "pipeline", of |-> i, admitted |-> FALSE, now |-> keyRevoked]
      <4>1. o \in opened' /\ o.by = "pipeline" /\ o.of = i /\ o.now = keyRevoked
        BY <3>1 DEF Decrypt
      <4>2. ~keyRevoked
        BY <3>1 DEF Decrypt, Opens, KeyUsable
      <4> QED BY <4>1, <4>2 DEF OpenedInTime
    <3>2. CASE Transcribe(i) \/ Translate(i) \/ Review(i)
      BY <1>2, <3>2 DEF Transcribe, Translate, Review, Advance, Told
    <3>3. CASE PipelineError(i) \/ PipelineDies(i)
      BY <1>1, <3>3 DEF PipelineError, PipelineDies
    <3> QED BY <1>8, <3>1, <3>2, <3>3
  <2>3. Placed(i)'
    BY <1>4, <1>5, <2>1 DEF Placed
  <2>4. Told(i)'
    BY <1>2, <1>5, <2>1, <2>2 DEF Told, Entry
  <2> QED BY <2>3, <2>4
<1>9. CASE Complete(i)
  <2>1. /\ audio'[i].status = "complete" /\ transcripts'[i].status = "complete"
        /\ transcripts'[i].case = transcripts[i].case
        /\ transcripts'[i].audio = transcripts[i].audio
        /\ transcripts'[i].text
    BY <1>1, <1>9 DEF Complete, AudioRow, TranscriptRow
  <2>2. pipeline[i] = "reviewed" /\ pipeline'[i] \in {"over", "failing"}
    BY <1>1, <1>9 DEF Complete, Goes
  <2>3. Entry("pipeline.complete", i) \in audit' /\ ~RecordFailure(i)
    BY <1>9 DEF Complete, Record, RecordFailure
  <2>4. Placed(i)'
    BY <1>4, <1>5, <2>1, <2>2 DEF Placed
  <2>5. OpenedInTime(i)'
    BY <1>2, <2>2 DEF Told
  <2>6. Told(i)'
    BY <1>3, <1>5, <2>1, <2>2, <2>3, <2>5 DEF Told, Entry
  <2> QED BY <2>4, <2>6
<1>10. CASE RecordFailure(i)
  <2>1. SetStatus(i, "failed") /\ "failed" \in TranscriptStatus
    BY <1>10 DEF RecordFailure, TranscriptStatus
  <2>2. pipeline'[i] = "over"
    BY <1>1, <1>10 DEF RecordFailure
  <2>3. Entry("pipeline.failed", i) \in audit' /\ ~Complete(i)
    BY <1>10 DEF RecordFailure, Record, Complete
  <2>4. Placed(i)'
    BY <1>4, <1>5, <1>6, <2>1, <2>2 DEF Placed
  <2>5. Told(i)'
    BY <1>3, <1>6, <2>1, <2>2, <2>3 DEF Told, Entry
  <2> QED BY <2>4, <2>5
<1> QED BY <1>7, <1>8, <1>9, <1>10 DEF PipelineStep

\* Every step leaves every interview followed.
LEMMA FollowedStep ==
    ASSUME TypeOK, Followed, [Next]_vars
    PROVE  Followed'
<1> SUFFICES ASSUME NEW i \in Interview
             PROVE  (Placed(i) /\ Told(i))'
  BY DEF Followed
<1>1. Placed(i) /\ Told(i)
  BY DEF Followed
<1>2. ASSUME NEW j \in Interview, UploadStep(j) \/ PipelineStep(j) \/ PipelineDies(j), i # j
      PROVE  (Placed(i) /\ Told(i))'
  <2>1. Quiet(i)
    BY <1>2, OwnSteps
  <2>2. CASE ~Complete(i) /\ ~RecordFailure(i)
    BY <1>1, <2>1, <2>2, QuietFollowed
  <2>3. CASE Complete(i) \/ RecordFailure(i)
    BY <1>1, <2>3, PipelineFollowed DEF PipelineStep
  <2> QED BY <2>2, <2>3
<1>3. CASE UploadStep(i)
  BY <1>1, <1>3, UploadFollowed
<1>4. CASE PipelineStep(i) \/ PipelineDies(i)
  BY <1>1, <1>4, PipelineFollowed
<1>5. CASE \/ \E r \in Reader : StreamStep(r)
           \/ \E t \in Document : DocumentStep(t)
           \/ \E c \in Case, d \in BOOLEAN : SetDeleted(c, d)
           \/ RevokeKey
           \/ UNCHANGED vars
  <2>1. Quiet(i)
    BY <1>5, OtherSteps
  <2>2. CASE ~Complete(i) /\ ~RecordFailure(i)
    BY <1>1, <2>1, <2>2, QuietFollowed
  <2>3. CASE Complete(i) \/ RecordFailure(i)
    BY <1>1, <2>3, PipelineFollowed DEF PipelineStep
  <2> QED BY <2>2, <2>3
<1> QED BY <1>2, <1>3, <1>4, <1>5 DEF Next

\* Uploads and pipelines do not write what is entered by hand.
LEMMA EnteredStep ==
    ASSUME TypeOK, Entered, [Next]_vars
    PROVE  Entered'
<1> SUFFICES ASSUME NEW t \in Document
             PROVE  transcripts'[t].status = "complete" => transcripts'[t].text
  BY DEF Entered
<1>1. /\ transcripts \in [Transcript -> TranscriptRow] /\ t \in Transcript /\ t \notin Interview
      /\ transcripts[t].status = "complete" => transcripts[t].text
  BY Apart DEF TypeOK, Transcript, Entered
<1>2. ASSUME NEW i \in Interview, UploadStep(i) \/ PipelineStep(i) \/ PipelineDies(i)
      PROVE  transcripts'[t] = transcripts[t]
  <2>1. CASE CommitUpload(i)
    BY <1>1, <2>1 DEF CommitUpload
  <2>2. CASE Complete(i)
    BY <1>1, <2>2 DEF Complete
  <2>3. CASE Claim(i) \/ RecordFailure(i)
    BY <1>1, <2>3 DEF Claim, RecordFailure, SetStatus
  <2>4. CASE ~(CommitUpload(i) \/ Complete(i) \/ Claim(i) \/ RecordFailure(i))
    BY <1>2, <2>4 DEF UploadStep, AdmitUpload, LockAndInsert, CaseMissing, StoreObject,
                      AbortUpload, PipelineStep, Decrypt, Transcribe, Translate, Review, Advance,
                      PipelineError, PipelineDies
  <2> QED BY <2>1, <2>2, <2>3, <2>4
<1>3. ASSUME NEW u \in Document, DocumentStep(u)
      PROVE  transcripts'[t] = transcripts[t] \/ transcripts'[t].text
  <2>1. ASSUME NEW c, NEW row, Enter(u, c, row), row.text
        PROVE  transcripts'[t] = transcripts[t] \/ transcripts'[t].text
    BY <1>1, <2>1 DEF Enter
  <2>2. \A c : PriorStatement(c).text /\ \A i : SeedRow(c, i).text
    BY DEF SeedRow, PriorStatement
  <2> QED BY <1>3, <2>1, <2>2 DEF DocumentStep, SeedTranscript, CreatePriorStatement
<1>4. ASSUME NEW r \in Reader, StreamStep(r)
      PROVE  transcripts' = transcripts
  BY <1>4 DEF StreamStep, AdmitStream, Stream, AbortStream
<1>5. CASE \/ \E c \in Case, d \in BOOLEAN : SetDeleted(c, d)
           \/ RevokeKey
           \/ UNCHANGED vars
  BY <1>1, <1>5 DEF SetDeleted, RevokeKey, vars
<1> QED BY <1>1, <1>2, <1>3, <1>4, <1>5 DEF Next

\* Nobody is let in, and nothing decrypted, once the key is revoked, except by a request that
\* was let in before.
LEMMA RevocationStep ==
    ASSUME TypeOK, LetIn, RevocationHolds, [Next]_vars
    PROVE  LetIn' /\ RevocationHolds'
<1>1. reading \in [Reader -> StreamRequest]
  BY DEF TypeOK
<1>2. ASSUME NEW r \in Reader, StreamStep(r)
      PROVE  LetIn' /\ RevocationHolds'
  <2>1. ASSUME NEW i \in Interview, AdmitStream(r, i)
        PROVE  LetIn' /\ opened' = opened
    BY <1>1, <2>1 DEF AdmitStream, KeyUsable, LetIn
  <2>2. CASE Stream(r)
    <3>1. LetIn'
      BY <1>1, <2>2 DEF Stream, LetIn, NoStream
    <3>2. opened' = opened \cup {[by |-> "stream", of |-> reading[r].of,
                                  admitted |-> reading[r].revoked, now |-> keyRevoked]}
      BY <2>2 DEF Stream
    <3> QED BY <3>1, <3>2 DEF LetIn, RevocationHolds
  <2>3. CASE AbortStream(r)
    BY <1>1, <2>3 DEF AbortStream, LetIn, NoStream, RevocationHolds
  <2> QED BY <1>2, <2>1, <2>2, <2>3 DEF StreamStep, RevocationHolds
<1>3. ASSUME NEW i \in Interview, UploadStep(i) \/ PipelineStep(i) \/ PipelineDies(i)
      PROVE  LetIn' /\ RevocationHolds'
  <2>1. CASE Decrypt(i)
    <3>1. reading' = reading /\ ~keyRevoked
      BY <2>1 DEF Decrypt, Opens, KeyUsable
    <3>2. opened' = opened \cup {[by |-> "pipeline", of |-> i, admitted |-> FALSE,
                                  now |-> keyRevoked]}
      BY <2>1 DEF Decrypt
    <3> QED BY <3>1, <3>2 DEF LetIn, RevocationHolds
  <2>2. CASE ~Decrypt(i)
    <3>1. reading' = reading /\ opened' = opened
      BY <1>3, <2>2 DEF UploadStep, AdmitUpload, LockAndInsert, CaseMissing, StoreObject,
                        CommitUpload, AbortUpload, PipelineStep, Claim, Transcribe, Translate,
                        Review, Advance, Complete, PipelineError, RecordFailure, PipelineDies
    <3> QED BY <3>1 DEF LetIn, RevocationHolds
  <2> QED BY <2>1, <2>2
<1>4. ASSUME NEW t \in Document, DocumentStep(t)
      PROVE  reading' = reading /\ opened' = opened
  BY <1>4 DEF DocumentStep, SeedTranscript, CreatePriorStatement, Enter
<1>5. CASE \/ \E t \in Document : DocumentStep(t)
           \/ \E c \in Case, d \in BOOLEAN : SetDeleted(c, d)
           \/ RevokeKey
           \/ UNCHANGED vars
  BY <1>4, <1>5 DEF SetDeleted, RevokeKey, LetIn, RevocationHolds, vars
<1> QED BY <1>2, <1>3, <1>5 DEF Next

\* An upload keeps the lock it has until it gives it back, and the case is not deleted under it.
LEMMA LockingStep ==
    ASSUME TypeOK, Followed, Locking, [Next]_vars
    PROVE  Locking'
<1> SUFFICES ASSUME NEW i \in Interview, upload'[i].stage \in {"locked", "stored"}
             PROVE  lockedBy'[upload'[i].case] = i /\ ~deleted'[upload'[i].case]
  BY DEF Locking
<1>1. /\ upload \in [Interview -> UploadRequest]
      /\ lockedBy \in [Case -> Interview \cup {None}] /\ i # None
      /\ upload[i].stage # "none" => upload[i].case \in Case
  BY NoneIsNone DEF TypeOK, Followed, Placed
<1> DEFINE c == upload[i].case
<1>2. upload'[i] = upload[i] =>
          upload[i].stage \in {"locked", "stored"} /\ c \in Case /\ lockedBy[c] = i /\ ~deleted[c]
  BY <1>1 DEF Locking
<1>3. ASSUME NEW j \in Interview, UploadStep(j), i # j
      PROVE  lockedBy'[upload'[i].case] = i /\ ~deleted'[upload'[i].case]
  <2>1. upload'[i] = upload[i]
    BY <1>3, OwnSteps DEF Quiet
  <2>2. ~(LockAndInsert(j) /\ upload[j].case = c)
    BY <1>1, <1>2, <2>1 DEF LockAndInsert
  <2>3. CASE LockAndInsert(j)
    BY <1>1, <1>2, <2>1, <2>2, <2>3 DEF LockAndInsert
  <2>4. CASE CommitUpload(j) \/ AbortUpload(j)
    BY <1>1, <1>2, <1>3, <2>1, <2>4 DEF CommitUpload, AbortUpload, Release
  <2>5. CASE (\E d \in Case : AdmitUpload(j, d)) \/ CaseMissing(j) \/ StoreObject(j)
    BY <1>2, <2>1, <2>5 DEF AdmitUpload, CaseMissing, StoreObject
  <2> QED BY <1>3, <2>3, <2>4, <2>5 DEF UploadStep
<1>4. CASE UploadStep(i)
  <2>1. CASE LockAndInsert(i)
    <3>1. upload'[i].case = c /\ c \in Case
      BY <1>1, <2>1 DEF LockAndInsert, UploadRequest
    <3> QED BY <1>1, <2>1, <3>1 DEF LockAndInsert
  <2>2. CASE StoreObject(i)
    <3>1. upload'[i].case = c /\ upload[i].stage = "locked"
      BY <1>1, <2>2 DEF StoreObject, UploadRequest
    <3> QED BY <2>2, <3>1 DEF StoreObject, Locking
  <2>3. CASE (\E d \in Case : AdmitUpload(i, d)) \/ CaseMissing(i) \/ CommitUpload(i) \/ AbortUpload(i)
    <3>1. ASSUME NEW d \in Case, AdmitUpload(i, d)
          PROVE  upload'[i].stage = "admitted"
      BY <1>1, <3>1 DEF AdmitUpload
    <3>2. CASE CaseMissing(i) \/ CommitUpload(i) \/ AbortUpload(i)
      <4>1. upload' = [upload EXCEPT ![i].stage = "over"]
        BY <3>2 DEF CaseMissing, CommitUpload, AbortUpload
      <4> QED BY <1>1, <4>1
    <3> QED BY <2>3, <3>1, <3>2
  <2> QED BY <1>4, <2>1, <2>2, <2>3 DEF UploadStep
<1>5. ASSUME NEW j \in Interview, PipelineStep(j) \/ PipelineDies(j)
      PROVE  upload' = upload /\ lockedBy' = lockedBy /\ deleted' = deleted
  BY <1>5 DEF PipelineStep, Claim, Decrypt, Transcribe, Translate, Review, Advance, Complete,
              PipelineError, RecordFailure, PipelineDies
<1>6. ASSUME NEW r \in Reader, StreamStep(r)
      PROVE  upload' = upload /\ lockedBy' = lockedBy /\ deleted' = deleted
  BY <1>6 DEF StreamStep, AdmitStream, Stream, AbortStream
<1>7. ASSUME NEW t \in Document, DocumentStep(t)
      PROVE  upload' = upload /\ lockedBy' = lockedBy /\ deleted' = deleted
  BY <1>7 DEF DocumentStep, SeedTranscript, CreatePriorStatement, Enter
<1>8. CASE RevokeKey \/ UNCHANGED vars
  BY <1>2, <1>8 DEF RevokeKey, vars
<1>9. ASSUME NEW e \in Case, NEW d \in BOOLEAN, SetDeleted(e, d)
      PROVE  lockedBy'[upload'[i].case] = i /\ ~deleted'[upload'[i].case]
  BY <1>1, <1>2, <1>9 DEF SetDeleted, TypeOK
<1> QED BY <1>2, <1>3, <1>4, <1>5, <1>6, <1>7, <1>8, <1>9 DEF Next

--------------------------------------------------------------------------------
(***************************************************************************)
(* The theorems.                                                           *)
(***************************************************************************)

\* The invariant holds initially.
LEMMA InvInit == Init => Inv
<1> SUFFICES ASSUME Init PROVE Inv
  OBVIOUS
<1>1. TypeOK
  BY TypeInit
<1>2. Followed
  BY DEF Init, Followed, Placed, Told, NoAudio, NoTranscript, NoUpload, Transcript
<1>3. Entered /\ LetIn /\ RevocationHolds
  BY DEF Init, Entered, LetIn, RevocationHolds, NoTranscript, NoStream, Transcript
<1>4. Locking
  BY DEF Init, Locking, NoUpload
<1> QED BY <1>1, <1>2, <1>3, <1>4 DEF Inv

\* It is inductive.
LEMMA InvStep == Inv /\ [Next]_vars => Inv'
BY TypeStep, FollowedStep, EnteredStep, RevocationStep, LockingStep DEF Inv

\* It holds in every state.
LEMMA Invariance == Spec => []Inv
BY InvInit, InvStep, PTL DEF Spec

\* Every variable has its type in every state.
THEOREM TypeCorrect == Spec => []TypeOK
<1>1. Inv => TypeOK
  BY DEF Inv
<1> QED BY <1>1, Invariance, PTL

\* A row never points at audio that is not in the store, whatever fails on the way
\* (upload_interview stores before it commits).
THEOREM AudioIsStored == Spec => []AudioStored
<1>1. Inv => AudioStored
  BY DEF Inv, Followed, Placed, AudioStored
<1> QED BY <1>1, Invariance, PTL

\* What becomes of an interview is said alike by both its rows and by the audit log, and only
\* a transcript entered by hand makes its GET fail (complete_pipeline, fail_pipeline).
THEOREM OutcomesAreAudited == Spec => []OutcomesAudited
<1>1. ASSUME Inv, NEW i \in Interview
      PROVE  \/ GetInterviewAudio(i) = transcripts[i].status
             \/ \E t \in Document : i = transcripts[t].audio
  <2>1. \A t \in Interview : transcripts[t].audio = i => t = i
    BY <1>1, NoneIsNone DEF Inv, Followed, Placed
  <2>2. audio[i].status = transcripts[i].status
    BY <1>1 DEF Inv, Followed, Placed
  <2>3. CASE \E t \in Document : transcripts[t].audio = i
    BY <2>3
  <2>4. CASE \A t \in Document : transcripts[t].audio # i
    <3>1. \A t \in TranscriptsOf(i) : t = i
      BY <2>1, <2>4 DEF TranscriptsOf, Transcript
    <3> QED BY <2>2, <3>1 DEF GetInterviewAudio
  <2> QED BY <2>3, <2>4
<1>2. Inv => OutcomesAudited
  BY <1>1 DEF Inv, Followed, Placed, Told, OutcomesAudited
<1> QED BY <1>2, Invariance, PTL

\* A declaration is drafted from a transcript only of this very case, with its text, and, if it
\* is an interview's, after its audio was decrypted with a key that was not revoked then
\* (DeclarationsService.generate, _run_pipeline_background).
THEOREM DraftableIsEarned == Spec => []DraftableEarned
<1>1. ASSUME Inv, NEW c \in Case, NEW i \in Interview, Draftable(i, c)
      PROVE  /\ transcripts[i].text /\ upload[i].case = c
             /\ \E o \in opened : o.by = "pipeline" /\ o.of = i /\ ~o.now
  <2>1. audio[i].status = "complete" /\ transcripts[i].case = c
    BY <1>1 DEF Inv, Followed, Placed, Draftable
  <2>2. transcripts[i].text /\ OpenedInTime(i)
    BY <1>1, <2>1 DEF Inv, Followed, Told
  <2>3. pipeline[i] # "none" /\ upload[i].case = c
    BY <1>1, <2>1 DEF Inv, Followed, Placed
  <2> QED BY <2>2, <2>3 DEF OpenedInTime
<1>2. ASSUME Inv, NEW c \in Case, NEW t \in Document, Draftable(t, c)
      PROVE  transcripts[t].text /\ t \notin Interview
  BY <1>2, Apart DEF Inv, Entered, Draftable
<1>3. Inv => DraftableEarned
  BY <1>1, <1>2 DEF DraftableEarned, Transcript
<1> QED BY <1>3, Invariance, PTL

\* After the revocation no pipeline decrypts, and no stream that was authenticated after it
\* (revoke_data_key, is_data_key_revoked).
THEOREM RevocationIsObeyed == Spec => []RevocationHolds
<1>1. Inv => RevocationHolds
  BY DEF Inv
<1> QED BY <1>1, Invariance, PTL

\* No row is added to a deleted case, though the deletion may commit after the permission
\* check (_lock_case).
THEOREM DeletedCaseGetsNothing == Spec => NothingOnDeletedCase
<1>1. ASSUME Inv, [Next]_vars, NEW t \in Transcript,
             transcripts[t].status = "absent", transcripts'[t].status # "absent"
      PROVE  ~deleted[transcripts'[t].case]
  <2>1. transcripts \in [Transcript -> TranscriptRow] /\ audio \in [Interview -> AudioRow]
    BY <1>1 DEF Inv, TypeOK
  <2>2. ASSUME NEW u \in Document, DocumentStep(u)
        PROVE  ~deleted[transcripts'[t].case]
    <3>1. ASSUME NEW c \in Case, NEW row, Enter(u, c, row), row.case = c
          PROVE  ~deleted[transcripts'[t].case]
      BY <1>1, <2>1, <3>1 DEF Enter
    <3>2. \A c : PriorStatement(c).case = c /\ \A i : SeedRow(c, i).case = c
      BY DEF SeedRow, PriorStatement
    <3> QED BY <2>2, <3>1, <3>2 DEF DocumentStep, SeedTranscript, CreatePriorStatement
  <2>3. ASSUME NEW i \in Interview, CommitUpload(i)
        PROVE  ~deleted[transcripts'[t].case]
    <3>1. t = i /\ transcripts'[t].case = upload[i].case
      BY <1>1, <2>1, <2>3 DEF CommitUpload
    <3>2. ~deleted[upload[i].case]
      BY <1>1, <2>3 DEF CommitUpload, Inv, Locking
    <3> QED BY <3>1, <3>2
  <2>4. ASSUME NEW i \in Interview, UploadStep(i), ~CommitUpload(i)
        PROVE  FALSE
    BY <1>1, <2>4 DEF UploadStep, AdmitUpload, LockAndInsert, CaseMissing, StoreObject, AbortUpload
  <2>5. ASSUME NEW i \in Interview, PipelineStep(i) \/ PipelineDies(i)
        PROVE  FALSE
    <3>1. transcripts[i].status # "absent"
      <4>1. pipeline[i] # "none"
        BY <2>5 DEF PipelineStep, Claim, Decrypt, Transcribe, Translate, Review, Advance, Complete,
                    PipelineError, RecordFailure, PipelineDies, Working
      <4> QED BY <1>1, <4>1 DEF Inv, Followed, Placed
    <3>2. t # i
      BY <1>1, <3>1
    <3>3. CASE Claim(i) \/ RecordFailure(i)
      BY <1>1, <2>1, <3>2, <3>3 DEF Claim, RecordFailure, SetStatus
    <3>4. CASE Complete(i)
      BY <1>1, <2>1, <3>2, <3>4 DEF Complete
    <3>5. CASE ~(Claim(i) \/ RecordFailure(i) \/ Complete(i))
      BY <1>1, <2>5, <3>5 DEF PipelineStep, Decrypt, Transcribe, Translate, Review, Advance,
                              PipelineError, PipelineDies
    <3> QED BY <3>3, <3>4, <3>5
  <2>6. ASSUME NEW r \in Reader, StreamStep(r)
        PROVE  FALSE
    BY <1>1, <2>6 DEF StreamStep, AdmitStream, Stream, AbortStream
  <2>7. CASE \/ \E c \in Case, d \in BOOLEAN : SetDeleted(c, d)
             \/ RevokeKey
             \/ UNCHANGED vars
    BY <1>1, <2>7 DEF SetDeleted, RevokeKey, vars
  <2> QED BY <1>1, <2>2, <2>3, <2>4, <2>5, <2>6, <2>7 DEF Next
<1>2. Inv /\ [Next]_vars =>
          \A t \in Transcript :
              transcripts[t].status = "absent" /\ transcripts'[t].status # "absent"
                  => ~deleted[transcripts'[t].case]
  BY <1>1
<1>3. Spec => [](Inv)
  BY Invariance
<1> QED BY <1>2, <1>3, PTL DEF Spec, NothingOnDeletedCase

--------------------------------------------------------------------------------
(***************************************************************************)
(* Nothing is left that nobody will end: what UploadsSettle needs besides  *)
(* fairness.                                                               *)
(***************************************************************************)

\* A pipeline that is over has said how, and only the death of the process loses one.
Settled ==
    \A i \in Interview : /\ pipeline[i] = "over" => audio[i].status \in {"complete", "failed"}
                         /\ pipeline[i] = "lost" => ProcessMayDie

\* Who has a case row is an upload between its lock and its commit.
LocksHaveHolders ==
    \A c \in Case, i \in Interview :
        lockedBy[c] = i => upload[i].stage \in {"locked", "stored"} /\ upload[i].case = c

\* An interview that the client still waits for has its pipeline, unless the process died.
PendingRuns ==
    \A i \in Interview : audio[i].status \in {"pending", "processing"} =>
        \/ pipeline[i] \in Working \cup {"scheduled", "failing"}
        \/ pipeline[i] = "lost" /\ ProcessMayDie

LEMMA SettledStep ==
    ASSUME TypeOK, Followed, Settled, [Next]_vars
    PROVE  Settled'
<1> SUFFICES ASSUME NEW i \in Interview
             PROVE  /\ pipeline'[i] = "over" => audio'[i].status \in {"complete", "failed"}
                    /\ pipeline'[i] = "lost" => ProcessMayDie
  BY DEF Settled
<1> DEFINE settled == /\ pipeline'[i] = "over" => audio'[i].status \in {"complete", "failed"}
                      /\ pipeline'[i] = "lost" => ProcessMayDie
<1>1. /\ audio \in [Interview -> AudioRow] /\ pipeline \in [Interview -> Phase]
      /\ pipeline[i] = "over" => audio[i].status \in {"complete", "failed"}
      /\ pipeline[i] = "lost" => ProcessMayDie
  BY DEF TypeOK, Settled
<1>2. CASE Quiet(i)
  BY <1>1, <1>2 DEF Quiet
<1>3. CASE UploadStep(i)
  <2>1. CASE CommitUpload(i)
    <3>1. pipeline'[i] = "scheduled" \/ (pipeline'[i] = "lost" /\ ProcessMayDie)
      BY <1>1, <2>1 DEF CommitUpload
    <3> QED BY <3>1
  <2>2. CASE \/ \E c \in Case : AdmitUpload(i, c)
             \/ LockAndInsert(i) \/ CaseMissing(i) \/ StoreObject(i) \/ AbortUpload(i)
    <3>1. audio' = audio /\ pipeline' = pipeline
      BY <2>2 DEF AdmitUpload, LockAndInsert, CaseMissing, StoreObject, AbortUpload
    <3> QED BY <1>1, <3>1
  <2> QED BY <1>3, <2>1, <2>2 DEF UploadStep
<1>4. CASE PipelineStep(i) \/ PipelineDies(i)
  <2>1. CASE Complete(i)
    <3>1. audio'[i].status = "complete" /\ pipeline'[i] \in {"over", "failing"}
      BY <1>1, <2>1 DEF Complete, Goes, AudioRow
    <3> QED BY <3>1
  <2>2. CASE RecordFailure(i)
    <3>1. audio'[i].status = "failed" /\ pipeline'[i] = "over"
      BY <1>1, <2>2 DEF RecordFailure, SetStatus, AudioRow
    <3> QED BY <3>1
  <2>3. CASE PipelineDies(i)
    BY <1>1, <2>3 DEF PipelineDies
  <2>4. CASE Claim(i) \/ Decrypt(i) \/ PipelineError(i)
    <3>1. pipeline'[i] \in {"processing", "clear", "failing"}
      BY <1>1, <2>4 DEF Claim, Goes, Decrypt, PipelineError
    <3> QED BY <3>1
  <2>5. CASE Transcribe(i) \/ Translate(i) \/ Review(i)
    <3>1. pipeline'[i] \in {"transcribed", "translated", "reviewed"}
      BY <1>1, <2>5 DEF Transcribe, AfterWhisper, Translate, Review, Advance
    <3> QED BY <3>1
  <2> QED BY <1>4, <2>1, <2>2, <2>3, <2>4, <2>5 DEF PipelineStep
<1>5. ASSUME NEW j \in Interview, UploadStep(j) \/ PipelineStep(j) \/ PipelineDies(j)
      PROVE  settled
  BY <1>2, <1>3, <1>4, <1>5, OwnSteps
<1> HIDE DEF settled
<1> QED BY <1>2, <1>5, OtherSteps DEF Next, settled

LEMMA LocksHaveHoldersStep ==
    ASSUME TypeOK, Followed, LocksHaveHolders, [Next]_vars
    PROVE  LocksHaveHolders'
<1> SUFFICES ASSUME NEW c \in Case, NEW i \in Interview, lockedBy'[c] = i
             PROVE  upload'[i].stage \in {"locked", "stored"} /\ upload'[i].case = c
  BY DEF LocksHaveHolders
<1>1. /\ upload \in [Interview -> UploadRequest]
      /\ lockedBy \in [Case -> Interview \cup {None}] /\ i # None
      /\ lockedBy[c] = i => upload[i].stage \in {"locked", "stored"} /\ upload[i].case = c
  BY NoneIsNone DEF TypeOK, LocksHaveHolders
<1>2. CASE UploadStep(i)
  <2>1. CASE LockAndInsert(i)
    <3>1. upload[i].case = c
      BY <1>1, <2>1 DEF LockAndInsert
    <3> QED BY <1>1, <2>1, <3>1 DEF LockAndInsert, UploadRequest
  <2>2. CASE StoreObject(i)
    BY <1>1, <2>2 DEF StoreObject, UploadRequest
  <2>3. CASE CommitUpload(i) \/ AbortUpload(i)
    BY <1>1, <2>3 DEF CommitUpload, AbortUpload, Release
  <2>4. CASE (\E d \in Case : AdmitUpload(i, d)) \/ CaseMissing(i)
    BY <1>1, <2>4 DEF AdmitUpload, CaseMissing
  <2> QED BY <1>2, <2>1, <2>2, <2>3, <2>4 DEF UploadStep
<1>3. ASSUME NEW j \in Interview, UploadStep(j), j # i
      PROVE  lockedBy[c] = i /\ upload'[i] = upload[i]
  <2>1. upload'[i] = upload[i]
    BY <1>3, OwnSteps DEF Quiet
  <2>2. lockedBy[c] = i
    BY <1>1, <1>3 DEF UploadStep, AdmitUpload, LockAndInsert, CaseMissing, StoreObject,
                      CommitUpload, AbortUpload, Release
  <2> QED BY <2>1, <2>2
<1>4. ASSUME NEW j \in Interview, PipelineStep(j) \/ PipelineDies(j)
      PROVE  upload' = upload /\ lockedBy' = lockedBy
  BY <1>4 DEF PipelineStep, Claim, Decrypt, Transcribe, Translate, Review, Advance, Complete,
              PipelineError, RecordFailure, PipelineDies
<1>5. ASSUME NEW r \in Reader, StreamStep(r)
      PROVE  upload' = upload /\ lockedBy' = lockedBy
  BY <1>5 DEF StreamStep, AdmitStream, Stream, AbortStream
<1>6. ASSUME NEW t \in Document, DocumentStep(t)
      PROVE  upload' = upload /\ lockedBy' = lockedBy
  BY <1>6 DEF DocumentStep, SeedTranscript, CreatePriorStatement, Enter
<1>7. CASE \/ \E d \in Case, is \in BOOLEAN : SetDeleted(d, is)
           \/ RevokeKey \/ UNCHANGED vars
  BY <1>1, <1>7 DEF SetDeleted, RevokeKey, vars
<1> QED BY <1>1, <1>2, <1>3, <1>4, <1>5, <1>6, <1>7 DEF Next

\* No interview stays pending or processing without a pipeline that will end it, unless the
\* process died, and no case row stays locked but by an upload that stores its audio
\* (_run_pipeline_background, upload_interview), for any number of cases, interviews and
\* readers: the safety part of UploadsSettle.
THEOREM NothingIsStranded == Spec => [](PendingRuns /\ LocksHaveHolders)
<1>1. Init => Settled /\ LocksHaveHolders
  BY NoneIsNone DEF Init, Settled, LocksHaveHolders
<1>2. Inv /\ Settled /\ LocksHaveHolders /\ [Next]_vars => Settled' /\ LocksHaveHolders'
  BY SettledStep, LocksHaveHoldersStep DEF Inv
<1>3. Inv /\ Settled => PendingRuns
  <2> SUFFICES ASSUME Inv, Settled, NEW i \in Interview, audio[i].status \in {"pending", "processing"}
               PROVE  \/ pipeline[i] \in Working \cup {"scheduled", "failing"}
                      \/ pipeline[i] = "lost" /\ ProcessMayDie
    BY DEF PendingRuns
  <2>1. pipeline[i] \in Phase \ {"none"}
    BY DEF Inv, TypeOK, Followed, Placed
  <2>2. pipeline[i] # "over"
    BY DEF Settled
  <2> QED BY <2>1, <2>2 DEF Phase, Settled
<1> QED BY <1>1, <1>2, <1>3, Invariance, PTL DEF Spec

================================================================================
