------------------------------ MODULE DocNames ------------------------------
(***************************************************************************)
(* The retired-name half of scripts/check-doc-names.py: the names the      *)
(* codemod's tables retire must not appear in the comments of a Lean       *)
(* source, except on a line that says they are retired.                    *)
(***************************************************************************)
EXTENDS CodemodPasses

\* words by which a line says that its names are retired
RETIRED_CONTEXT == {"legacy", "retired", "codemod"}

RETIRED_LABELS == {"structural reading"}

\* Faulty variant of RetiredNames: only the names that have no successor
RetiredNamesRemoved ==
    {<<n>> : n \in DOMAIN MODULES \cup LEGACY_HINTS}

\* the names matched between delimiters: neither side may go on with a letter or
\* a dot
RetiredNames ==
    {RENAMES[i].old : i \in DOMAIN RENAMES}
    \cup {<<n>> : n \in DOMAIN MODULES \cup LEGACY_HINTS \cup {CLASS_BINDERS[i].old : i \in {1, 2}}}

\* retired_patterns: a name of the tables, or an identifier-level legacy token,
\* at position j
RetiredPattern(s, j) ==
    \/ \E name \in RetiredNames :
        /\ Occurs(s, name, j)
        /\ At(s, j - 1) # "." /\ At(s, j + Len(name)) # "."
    \/ s[j] \in LEGACY_TOKENS.head /\ At(s, j - 1) # "."
    \/ s[j] \in LEGACY_TOKENS.lemma \cup {"S["}

\* between the backticks of a code span
InCodeSpan(line, j) ==
    \E a \in 1 .. j, b \in j .. Len(line) :
        /\ line[a] = "tick_" /\ line[b] = "_tick"
        /\ \A k \in a + 1 .. b - 1 : line[k] \notin {"tick_", "_tick"}

\* retired_in
RetiredIn(line) ==
    /\ RETIRED_CONTEXT \cap ToSet(line) = {}
    /\ \/ \E j \in DOMAIN line : RetiredPattern(line, j)
       \/ /\ "PolyFun" \notin ToSet(line)
          /\ \E j \in DOMAIN line : line[j] \in RETIRED_LABELS /\ ~InCodeSpan(line, j)

\* the part of line n that lean_prose yields
ProseLine(s, n) ==
    LET positions == [j \in DOMAIN s |-> j]
        prose == LeanProse(s)
        kept == SelectSeq(positions, LAMBDA j : j \in prose /\ s[j] # NL /\ LineOf(s, j) = n)
    IN [i \in DOMAIN kept |-> s[kept[i]]]

\* check_retired, on one Lean source: the lines it fails
CheckRetired(s) == {n \in 1 .. LineOf(s, Len(s) + 1) : RetiredIn(ProseLine(s, n))}
=============================================================================
