----------------------------------- MODULE Lists -----------------------------------
(***************************************************************************)
(* Loops that go through a list once and append some of its elements to    *)
(* another, as _apply_order (retrieval/rerank.py) and build_bibliography   *)
(* (country_conditions/schemas.py) do.                                     *)
(***************************************************************************)
EXTENDS Naturals, Sequences

\* The elements of list at these places, in the order of the list.
Picked(list, places) ==
    LET ordered[n \in 0 .. Len(list)] ==
            IF n = 0 THEN <<>>
            ELSE IF n \in places THEN Append(ordered[n - 1], list[n])
            ELSE ordered[n - 1]
    IN  ordered[Len(list)]

================================================================================
