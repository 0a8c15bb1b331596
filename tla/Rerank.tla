---------------------------------- MODULE Rerank ----------------------------------
(***************************************************************************)
(* The order in which a search hands back its candidates                   *)
(* (retrieval/rerank.py).  Passages are sequences, best first; an LLM or a *)
(* cross-encoder says in which order they should be.                       *)
(***************************************************************************)
EXTENDS Naturals, Sequences, Functions, Lists

\* Mutant: the passages that were named are not remembered.
ApplyOrderForgetsSeen(passages, ids) ==
    LET known == {i \in DOMAIN ids : ids[i] \in Range(passages)}
    IN  Picked(ids, known) \o passages

\* The passages that ids names, as often as it names them, then those it does not name, in
\* the order they had; an id of no passage is passed over.
ApplyOrder(passages, ids) ==
    LET known == {i \in DOMAIN ids : ids[i] \in Range(passages)}
        unnamed == {i \in DOMAIN passages : passages[i] \notin Range(ids)}
    IN  Picked(ids, known) \o Picked(passages, unnamed)

\* The cross-encoder scores each passage once and sorts them.
Permuted(passages) ==
    {[i \in DOMAIN passages |-> passages[place[i]]] : place \in Bijection(DOMAIN passages, DOMAIN passages)}

FirstOf(passages, k) == SubSeq(passages, 1, IF k < Len(passages) THEN k ELSE Len(passages))

================================================================================
