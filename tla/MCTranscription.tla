----------------------------- MODULE MCTranscription -----------------------------
(***************************************************************************)
(* A small instance of Transcription for TLC.                              *)
(***************************************************************************)
EXTENDS Transcription

CONSTANTS c1, i1, i2, t1, r1

================================================================================
