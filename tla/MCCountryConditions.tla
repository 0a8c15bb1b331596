-------------------------- MODULE MCCountryConditions --------------------------
(***************************************************************************)
(* A small instance of CountryConditions for TLC.  Two memos with all the  *)
(* texts a run may write are more than TLC can go through, so Scope keeps  *)
(* the states of either instance: one memo with all its texts, or two      *)
(* memos and two sessions, the memos resting on one passage at most.       *)
(***************************************************************************)
EXTENDS CountryConditions, TLC

CONSTANTS c1, s1, s2, m1, m2, p1, p2

\* p2 comes before p1 in the exported bibliography.
MCSortKey == (p1 :> 2) @@ (p2 :> 1)

\* The second section may find a passage that the first does not: the synthesis may
\* move its citation.
MCLibrary == <<{p1}, {p1, p2}>>

OneMemo == ~Exists(m2) /\ req[s2].op = "idle"

\* Runs find p1 at most, for the first section only, and cite it once.
Plain == \A m \in Memo : /\ run[m].retrieved[1] \subseteq {p1} /\ run[m].retrieved[2] = {}
                         /\ \A s \in CC_SECTION_IDS : /\ Len(run[m].final.sections[s]) <= 2 - s
                                                       /\ Len(memos[m].output.sections[s]) <= 2 - s

Scope == OneMemo \/ Plain

================================================================================
