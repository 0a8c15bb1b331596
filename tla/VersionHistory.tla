----------------------------- MODULE VersionHistory -----------------------------
(***************************************************************************)
(* What a case file promises about the artifacts generated for it,         *)
(* whatever their kind: each case has a gap-free history of numbered       *)
(* versions, a new artifact takes the next number in one step, an artifact *)
(* is never renumbered or moved to another case, and one that has settled  *)
(* (with content, or as failed) is never pending again.                    *)
(***************************************************************************)
EXTENDS Naturals, FiniteSetsExt

CONSTANTS Case,      \* case files
          Artifact,  \* artifact identifiers
          None       \* "no case"

VARIABLES owner,    \* the case an artifact was created for, or None
          version,  \* its version number, 0 while it does not exist
          pending   \* the artifacts whose generation has not settled

vars == <<owner, version, pending>>

Owned(c) == {a \in Artifact : owner[a] = c}

NextVersion(c) == 1 + Max({0} \cup {version[a] : a \in Owned(c)})

Init == /\ owner = [a \in Artifact |-> None]
        /\ version = [a \in Artifact |-> 0]
        /\ pending = {}

\* A new artifact enters the history of c, still to be generated or already complete.
Append(c, a) ==
    /\ owner[a] = None
    /\ owner' = [owner EXCEPT ![a] = c]
    /\ version' = [version EXCEPT ![a] = NextVersion(c)]
    /\ pending' \in {pending, pending \cup {a}}

Settle(a) ==
    /\ a \in pending
    /\ pending' = pending \ {a}
    /\ UNCHANGED <<owner, version>>

Next == \E a \in Artifact : Settle(a) \/ \E c \in Case : Append(c, a)

Spec == Init /\ [][Next]_vars

--------------------------------------------------------------------------------
\* The versions of a case are 1, 2, ... without a gap, and each is one artifact's.
GapFree ==
    \A c \in Case : \E n \in Nat : {version[a] : a \in Owned(c)} = 1 .. n

Unambiguous ==
    \A a, b \in Artifact :
        owner[a] # None /\ owner[a] = owner[b] /\ version[a] = version[b] => a = b

\* An artifact keeps its case and its number, and is not generated twice.
NeverRewritten ==
    [][\A a \in Artifact : owner[a] # None =>
           /\ owner'[a] = owner[a]
           /\ version'[a] = version[a]
           /\ a \in pending' => a \in pending]_vars

================================================================================
