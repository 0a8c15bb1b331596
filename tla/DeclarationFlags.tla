---------------------------- MODULE DeclarationFlags ----------------------------
(***************************************************************************)
(* The flags of a declaration draft and the pure functions of              *)
(* declarations/flags.py over them.  A flag identifier (a uuid) is an      *)
(* element of Flag; what a flag says about the draft never changes once it *)
(* is raised, so its type, paragraph and span are functions of the         *)
(* identifier.  The flags column of a draft, a list of flag objects keyed  *)
(* by id, is a function from Flag to the flag's status, "none" when the    *)
(* draft does not have the flag.                                           *)
(***************************************************************************)
CONSTANTS Flag,         \* flag identifiers
          TypeOf,       \* the type of a flag
          ParagraphOf,  \* the paragraph_id a flag points at
          SpanOf        \* the span of a flag in its paragraph

FlagType == {"GAP", "INFERENCE", "INCONSISTENCY", "AMBIGUITY", "TRANSLATION_UNCERTAINTY"}

FlagStatus == {"open", "resolved", "deferred"}

ASSUME FlagTypes == TypeOf \in [Flag -> FlagType]

FlagMap == [Flag -> FlagStatus \cup {"none"}]

OnDraft(flags) == {f \in Flag : flags[f] # "none"}

\* Newly raised flags start open.
Raised(new) == [f \in Flag |-> IF f \in new THEN "open" ELSE "none"]

--------------------------------------------------------------------------------
REQUIRED_FOR_CLEAN_EXPORT == {"GAP", "INFERENCE", "INCONSISTENCY"}

RequiredOn(flags) == {f \in OnDraft(flags) : TypeOf[f] \in REQUIRED_FOR_CLEAN_EXPORT}

\* Mutant: a flag type is missing from the required ones.
UnresolvedRequiredForgetsGaps(flags) ==
    {f \in RequiredOn(flags) : TypeOf[f] # "GAP" /\ flags[f] = "open"}

UnresolvedRequired(flags) == {f \in RequiredOn(flags) : flags[f] = "open"}

StatusAfterFlags(flags) ==
    IF UnresolvedRequired(flags) # {} THEN "flags_unresolved" ELSE "draft_ready"

--------------------------------------------------------------------------------
\* A revision's scope is the set of paragraphs it names (one paragraph, or those
\* of one section).
FlagInScope(f, scope) == ParagraphOf[f] \in scope

\* The revision raised a flag of the same type at the same place again.
Replaced(f, new) ==
    \E n \in new : /\ TypeOf[n] = TypeOf[f]
                   /\ ParagraphOf[n] = ParagraphOf[f]
                   /\ SpanOf[n] = SpanOf[f]

\* Mutant: the revised region's flags are dropped unless they are raised again.
MergeDropsScope(parent, new, scope) ==
    [f \in Flag |-> IF f \in new THEN "open"
                    ELSE IF FlagInScope(f, scope) THEN "none" ELSE parent[f]]

\* The parent's flags, the new ones over them (their ids are fresh), and over both the
\* parent's open required flags that lie outside the scope or were not raised again.
MergeFlagsOnRevise(parent, new, scope) ==
    LET kept == {f \in UnresolvedRequired(parent) :
                    FlagInScope(f, scope) => ~Replaced(f, new)}
    IN  [f \in Flag |-> IF f \in new \ kept THEN "open" ELSE parent[f]]

================================================================================
