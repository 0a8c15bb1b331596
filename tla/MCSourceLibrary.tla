----------------------------- MODULE MCSourceLibrary -----------------------------
(***************************************************************************)
(* A small instance of SourceLibrary for TLC.                              *)
(***************************************************************************)
EXTENDS SourceLibrary, TLC

CONSTANTS g1, g2, s1, s2, a, b, er, hn

MCRefsOf == (g1 :> <<er, er>>) @@ (g2 :> <<er, hn>>)

Idle(actors) == \A x \in actors : stage[x] = "idle"

Smooth(x) == attempt[x] = 0 /\ stage[x] \notin {"failing", "failed"}

\* Two ingestions and no search; or one ingestion and one search; or, after an ingestion
\* in which nothing fails, two searches in which nothing fails, the first without an LLM,
\* while only one of the documents may be deleted.
TwoIngestions == Idle(Search)

OneOfEach == Idle({g2, s2})

TwoSearches == /\ stage[g1] = "done"
               /\ Idle({g2})
               /\ \A s \in Search : Smooth(s)
               /\ ~search[s1].asked
               /\ documents[b].state # "deleted"
               /\ search[s1].answer \in {<<>>, search[s1].candidates}

Scope == TwoIngestions \/ OneOfEach \/ TwoSearches

================================================================================
