------------------------------ MODULE MemoCitations ------------------------------
(***************************************************************************)
(* The citations of a country conditions memo: which passages its section  *)
(* bodies cite, the bibliography stored with it (country_conditions/       *)
(* schemas.py), and the numbers printed in its DOCX export (docx_memo.py). *)
(* A body is abstracted to the sequence of the passage ids in its <cite>   *)
(* tags; the bodies of a memo are a sequence in the order CC_SECTION_IDS.  *)
(***************************************************************************)
EXTENDS Naturals, SequencesExt, Lists

CONSTANTS Passage,   \* passages of the source library
          SortKey    \* a passage's place by (family, date descending, title, id)

\* The key ends in the passage id: no two passages tie.
ASSUME SortKeys == /\ SortKey \in [Passage -> Nat]
                   /\ \A p, q \in Passage : SortKey[p] = SortKey[q] => p = q

\* passage_ids_in_prose over the sections, in their order.
CitesIn(bodies) == FlattenSeq(bodies)

Cited(bodies) == ToSet(CitesIn(bodies))

\* Where a citation cites what no citation before it does.
FirstPlaces(cites) == {i \in DOMAIN cites : \A j \in 1 .. (i - 1) : cites[j] # cites[i]}

\* Mutant: a passage is listed again when another section cites it.
BibliographyPerSection(bodies) ==
    FlattenSeq([s \in DOMAIN bodies |-> Picked(bodies[s], FirstPlaces(bodies[s]))])

\* Unique ids by first appearance; the index of an entry is its position.
Bibliography(bodies) == Picked(CitesIn(bodies), FirstPlaces(CitesIn(bodies)))

\* The rows of the exported bibliography: the cited passages in the order of their keys.
SortedRows(bodies) ==
    CHOOSE rows \in [1 .. Cardinality(Cited(bodies)) -> Cited(bodies)] :
        \A i, j \in DOMAIN rows : i < j => SortKey[rows[i]] < SortKey[rows[j]]

\* Mutant: the number of a citation is its place in the stored bibliography.
CitationIndexStored(bodies) ==
    [p \in Cited(bodies) |-> CHOOSE i \in DOMAIN Bibliography(bodies) : Bibliography(bodies)[i] = p]

\* The number printed for each cited passage, in the text and in the bibliography.
CitationIndex(bodies) ==
    [p \in Cited(bodies) |-> CHOOSE i \in DOMAIN SortedRows(bodies) : SortedRows(bodies)[i] = p]

\* The superscripts of each section.
Superscripts(bodies) ==
    [s \in DOMAIN bodies |-> [i \in DOMAIN bodies[s] |-> CitationIndex(bodies)[bodies[s][i]]]]

================================================================================
