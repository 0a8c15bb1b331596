-------------------------- MODULE VersionHistory_proofs --------------------------
(***************************************************************************)
(* What a history of numbered artifacts promises follows from its steps,   *)
(* for any number of cases and artifacts.  Whatever implements             *)
(* VersionHistory keeps these promises: drafts and memos do.               *)
(***************************************************************************)
EXTENDS VersionHistory, TLAPS

Shape == /\ owner \in [Artifact -> Case \cup {None}]
         /\ version \in [Artifact -> Nat]

HistoryInv == Shape /\ GapFree /\ Unambiguous

\* The largest number of a gap-free history is how many there are.
LEMMA MaxOfSegment ==
    ASSUME NEW n \in Nat
    PROVE  Max({0} \cup 1 .. n) = n
<1> DEFINE S == {0} \cup 1 .. n
<1>1. n \in S /\ \A m \in S : n >= m
  OBVIOUS
<1>2. \A m \in S : m \in Int
  OBVIOUS
<1> HIDE DEF S
<1>3. \A m \in S : (\A k \in S : m >= k) => m = n
  BY <1>1, <1>2
<1>4. Max(S) = n
  BY <1>1, <1>3 DEF Max
<1> QED BY <1>4 DEF S

\* A new artifact gets the number after the last one, which nobody has.
LEMMA AppendExtends ==
    ASSUME HistoryInv, None \notin Case, NEW c \in Case, NEW a \in Artifact, Append(c, a)
    PROVE  HistoryInv'
<1>1. PICK n \in Nat : {version[b] : b \in Owned(c)} = 1 .. n
  BY DEF HistoryInv, GapFree
<1>2. NextVersion(c) = n + 1
  BY <1>1, MaxOfSegment DEF NextVersion
<1>3. /\ owner \in [Artifact -> Case \cup {None}] /\ version \in [Artifact -> Nat]
      /\ owner[a] = None /\ owner'[a] = c /\ version'[a] = n + 1
      /\ \A b \in Artifact \ {a} : owner'[b] = owner[b] /\ version'[b] = version[b]
  BY <1>2 DEF Append, HistoryInv, Shape
<1>4. Shape'
  BY <1>2 DEF Append, HistoryInv, Shape
<1>5. ASSUME NEW d \in Case
      PROVE  \E k \in Nat : {version'[b] : b \in Owned(d)'} = 1 .. k
  <2>1. CASE d = c
    <3>1. Owned(c)' = Owned(c) \cup {a} /\ a \notin Owned(c) /\ Owned(c) \subseteq Artifact
      BY <1>3 DEF Owned
    <3>2. {version'[b] : b \in Owned(c)'} = {version[b] : b \in Owned(c)} \cup {n + 1}
      BY <1>3, <3>1
    <3>3. 1 .. n \cup {n + 1} = 1 .. (n + 1)
      OBVIOUS
    <3>4. {version'[b] : b \in Owned(c)'} = 1 .. (n + 1)
      BY <1>1, <3>2, <3>3
    <3>5. Owned(d)' = Owned(c)'
      BY <2>1 DEF Owned
    <3>6. {version'[b] : b \in Owned(d)'} = 1 .. (n + 1)
      BY <3>4, <3>5
    <3> QED BY <3>6
  <2>2. CASE d # c
    <3>1. Owned(d)' = Owned(d) /\ a \notin Owned(d) /\ Owned(d) \subseteq Artifact
      BY <1>3, <2>2 DEF Owned
    <3>2. {version'[b] : b \in Owned(d)'} = {version[b] : b \in Owned(d)}
      BY <1>3, <3>1
    <3> QED BY <3>2 DEF HistoryInv, GapFree
  <2> QED BY <2>1, <2>2
<1>6. \A b \in Artifact : owner[b] = c => version[b] # n + 1
  <2>1. \A b \in Artifact : owner[b] = c => version[b] \in 1 .. n
    BY <1>1 DEF Owned
  <2> QED BY <2>1
<1>7. Unambiguous'
  BY <1>3, <1>6 DEF HistoryInv, Unambiguous
<1> QED BY <1>4, <1>5, <1>7 DEF HistoryInv, GapFree

LEMMA HistoryStep ==
    ASSUME HistoryInv, None \notin Case, [Next]_vars
    PROVE  HistoryInv'
<1>1. CASE UNCHANGED <<owner, version>>
  BY <1>1 DEF HistoryInv, Shape, GapFree, Unambiguous, Owned
<1>2. CASE UNCHANGED vars \/ \E a \in Artifact : Settle(a)
  BY <1>1, <1>2 DEF vars, Settle
<1> QED BY <1>2, AppendExtends DEF Next

\* The invariant holds throughout.
LEMMA HistoryInvariant ==
    ASSUME None \notin Case
    PROVE  Spec => []HistoryInv
<1>1. Init => HistoryInv
  <2>1. ASSUME Init, NEW c \in Case
        PROVE  {version[a] : a \in Owned(c)} = 1 .. 0
    <3>1. Owned(c) = {}
      BY <2>1 DEF Init, Owned
    <3> QED BY <3>1
  <2> QED BY <2>1 DEF Init, HistoryInv, Shape, GapFree, Unambiguous
<1>2. HistoryInv /\ [Next]_vars => HistoryInv'
  BY HistoryStep
<1> QED BY <1>1, <1>2, PTL DEF Spec

\* The versions of a case are 1, 2, ... without a gap and each is one artifact's, in whatever
\* implements this history (create_draft_with_artifact, create_memo_with_artifact).
THEOREM HistoryIsGapFree ==
    ASSUME None \notin Case
    PROVE  Spec => [](GapFree /\ Unambiguous)
<1>1. HistoryInv => GapFree /\ Unambiguous
  BY DEF HistoryInv
<1> QED BY <1>1, HistoryInvariant, PTL

\* An artifact keeps its case and its number, and once it has settled it is never pending
\* again (update_draft_complete, update_memo_failed and the like change other columns).
THEOREM HistoryIsNeverRewritten ==
    ASSUME None \notin Case
    PROVE  Spec => NeverRewritten
<1>1. ASSUME HistoryInv, [Next]_vars, NEW a \in Artifact, owner[a] # None
      PROVE  owner'[a] = owner[a] /\ version'[a] = version[a] /\ (a \in pending' => a \in pending)
  <2>1. ASSUME NEW b \in Artifact, NEW c \in Case, Append(c, b)
        PROVE  owner'[a] = owner[a] /\ version'[a] = version[a] /\ (a \in pending' => a \in pending)
    <3>1. a # b
      BY <1>1, <2>1 DEF Append
    <3> QED BY <1>1, <2>1, <3>1 DEF Append, HistoryInv, Shape
  <2>2. CASE UNCHANGED vars \/ \E b \in Artifact : Settle(b)
    BY <2>2 DEF vars, Settle
  <2> QED BY <1>1, <2>1, <2>2 DEF Next
<1>2. HistoryInv /\ [Next]_vars =>
          [\A a \in Artifact : owner[a] # None =>
              /\ owner'[a] = owner[a]
              /\ version'[a] = version[a]
              /\ a \in pending' => a \in pending]_vars
  BY <1>1
<1> QED BY <1>2, HistoryInvariant, PTL DEF Spec, NeverRewritten

================================================================================
