----------------------------- MODULE MCDeclarations -----------------------------
(***************************************************************************)
(* Small instances of Declarations for TLC.                                *)
(***************************************************************************)
EXTENDS Declarations, TLC

CONSTANTS c1, c2, s1, s2, s3, d1, d2, d3, p1, gap1, f1, f2, f3

\* f1 and f3 are inferences at the same place, so that a revision may raise f1 "again";
\* f2 is a gap that gap_check found, in no paragraph.
MCTypeOf == (f1 :> "INFERENCE") @@ (f2 :> "GAP") @@ (f3 :> "INFERENCE")
MCParagraphOf == (f1 :> p1) @@ (f2 :> gap1) @@ (f3 :> p1)
MCSpanOf == (f1 :> 1) @@ (f2 :> 0) @@ (f3 :> 1)

\* A single ambiguity, which a clean export does not require to be decided.
MCOneTypeOf == (f1 :> "AMBIGUITY")
MCOneParagraphOf == (f1 :> p1)
MCOneSpanOf == (f1 :> 1)

\* Drafts are told apart by their ids only, which are taken in order.
InOrder == (Exists(d2) => Exists(d1)) /\ (Exists(d3) => Exists(d2))

Decides == \/ \E s \in Session : req[s].op \in {"resolve", "apply", "export"}
           \/ \E e \in audit : e.action \in {"flag.resolve", "flag.apply", "export.clean"}

\* Two drafts, and all requests about them; or three drafts, while no flag is decided and
\* no clean copy exported.
TwoDrafts ==
    /\ ~Exists(d3)
    /\ Cardinality({s \in Session : Creating(s)}) <= Cardinality({d \in {d1, d2} : ~Exists(d)})

ThreeDrafts == ~Decides

Scope == InOrder /\ (TwoDrafts \/ ThreeDrafts)

Symmetry == Permutations({d1, d2, d3}) \cup Permutations({s1, s2})

================================================================================
