------------------------------ MODULE LeanText ------------------------------
(***************************************************************************)
(* Lean source text as the maintenance scripts read it, at the granularity *)
(* of the tokens they tell apart, and the four loops that decide what is   *)
(* a comment: match_close and comment_spans of the probability codemod,    *)
(* prose of doc_refs.py and lean_prose of check-doc-names.py.              *)
(*                                                                         *)
(* A text is a sequence of tokens.  The blanks between two tokens of a     *)
(* line are left out; a newline and the indentation of a line are tokens.  *)
(* A string holds no escaped quote.                                        *)
(***************************************************************************)
EXTENDS Naturals, Sequences

Quote == "\""
NL == "\n"
Indent == "\t"
Blank == {NL, Indent}

\* an opening token and the bracket that closes it; `Pr[`, `Pr{` and `S[` end
\* in an opening bracket
Partner ==
    [t \in {"(", "[", "{", "<", "Pr[", "Pr{", "S["} |->
        CASE t = "(" -> ")" [] t = "<" -> ">" [] t \in {"{", "Pr{"} -> "}" [] OTHER -> "]"]

Opening == DOMAIN Partner
Closing == {")", "]", "}", ">"}

\* the first position from i on that holds t, or n
FirstFrom(s, t, i, n) ==
    IF \E j \in i .. Len(s) : s[j] = t
    THEN CHOOSE j \in i .. Len(s) : s[j] = t /\ \A k \in i .. j - 1 : s[k] # t
    ELSE n

\* skip_string: one past the quote that closes the string opened at j
SkipString(s, j) == FirstFrom(s, Quote, j + 1, Len(s)) + 1

\* the end of the line comment opened at j
LineEnd(s, j) == FirstFrom(s, NL, j, Len(s) + 1)

\* Faulty variant of SkipBlockComment: block comments do not nest
SkipBlockCommentFlat(s, j) == FirstFrom(s, "-/", j, Len(s)) + 1

\* skip_block_comment: one past the end of the nested comment opened at j
SkipBlockComment(s, j) ==
    LET after[k \in j .. Len(s) + 1, depth \in 0 .. Len(s)] ==
            IF k > Len(s) THEN k
            ELSE IF s[k] = "/-" THEN after[k + 1, depth + 1]
            ELSE IF s[k] = "-/" THEN IF depth = 1 THEN k + 1 ELSE after[k + 1, depth - 1]
            ELSE after[k + 1, depth]
    IN after[j, 0]

\* one past the string or comment that starts at j, or j
Skip(s, j) ==
    CASE s[j] = Quote -> SkipString(s, j)
      [] s[j] = "--" -> LineEnd(s, j)
      [] s[j] = "/-" -> SkipBlockComment(s, j)
      [] OTHER -> j

\* match_close: the bracket closing the one at i, outside strings and comments;
\* 0 when there is none or another bracket closes first, where the code raises
\* ValueError
MatchClose(s, i) ==
    LET scan[j \in 1 .. Len(s) + 2, stack \in Seq(Opening)] ==
            IF j > Len(s) THEN 0
            ELSE IF Skip(s, j) > j THEN scan[Skip(s, j), stack]
            ELSE IF s[j] \in Opening THEN scan[j + 1, <<s[j]>> \o stack]
            ELSE IF s[j] \notin Closing THEN scan[j + 1, stack]
            ELSE IF Partner[Head(stack)] # s[j] THEN 0
            ELSE IF Len(stack) = 1 THEN j
            ELSE scan[j + 1, Tail(stack)]
    IN scan[i + 1, <<s[i]>>]

\* Faulty variant of CommentSpans: a string can hold the start of a comment
CommentSpansUnquoted(s) ==
    LET spans[j \in 1 .. Len(s) + 2] ==
            IF j > Len(s) THEN {}
            ELSE IF Skip(s, j) = j \/ s[j] = Quote THEN spans[j + 1]
            ELSE (j .. Skip(s, j) - 1) \cup spans[Skip(s, j)]
    IN spans[1]

\* comment_spans: the positions inside comments, the delimiters included
CommentSpans(s) ==
    LET spans[j \in 1 .. Len(s) + 2] ==
            IF j > Len(s) THEN {}
            ELSE IF Skip(s, j) = j THEN spans[j + 1]
            ELSE IF s[j] = Quote THEN spans[Skip(s, j)]
            ELSE (j .. Skip(s, j) - 1) \cup spans[Skip(s, j)]
    IN spans[1]

\* the positions of the prose of a text: a loop over its tokens that keeps the
\* nesting depth of block comments and, outside them, whether it is in a string
\* or in a line comment; `carried` says whether a string goes on past the end of
\* its line
ProseOf(s, carried) ==
    LET scan[j \in 1 .. Len(s) + 1, depth \in 0 .. Len(s), in \in {"code", "string", "line"}] ==
            IF j > Len(s) THEN {}
            ELSE IF s[j] = NL
                 THEN scan[j + 1, depth, IF in = "string" /\ carried THEN in ELSE "code"]
            ELSE IF in = "line" THEN {j} \cup scan[j + 1, depth, in]
            ELSE IF in = "string"
                 THEN scan[j + 1, depth, IF s[j] = Quote THEN "code" ELSE in]
            ELSE IF s[j] = "/-" THEN scan[j + 1, depth + 1, in]
            ELSE IF depth > 0 /\ s[j] = "-/" THEN scan[j + 1, depth - 1, in]
            ELSE IF depth > 0 THEN {j} \cup scan[j + 1, depth, in]
            ELSE IF s[j] = "--" THEN {j} \cup scan[j + 1, depth, "line"]
            ELSE IF s[j] = Quote THEN scan[j + 1, depth, "string"]
            ELSE scan[j + 1, depth, in]
    IN scan[1, 0, "code"]

\* prose of doc_refs.py reads the whole text, lean_prose one line at a time
Prose(s) == ProseOf(s, TRUE)
LeanProse(s) == ProseOf(s, FALSE)

-----------------------------------------------------------------------------
(* Lines. *)

LineOf(s, j) == 1 + Len(SelectSeq(SubSeq(s, 1, j - 1), LAMBDA t : t = NL))

\* text.split("\n")
RECURSIVE LinesOf(_)
LinesOf(s) ==
    LET k == FirstFrom(s, NL, 1, 0)
    IN IF k = 0 THEN <<s>>
       ELSE <<SubSeq(s, 1, k - 1)>> \o LinesOf(SubSeq(s, k + 1, Len(s)))

\* "sep".join(parts)
RECURSIVE Join(_, _)
Join(parts, sep) ==
    IF parts = <<>> THEN <<>>
    ELSE IF Len(parts) = 1 THEN parts[1]
    ELSE parts[1] \o <<sep>> \o Join(Tail(parts), sep)

RECURSIVE LeftStrip(_)
LeftStrip(s) == IF s # <<>> /\ s[1] \in Blank THEN LeftStrip(Tail(s)) ELSE s

RECURSIVE RightStrip(_)
RightStrip(s) ==
    IF s # <<>> /\ s[Len(s)] \in Blank THEN RightStrip(SubSeq(s, 1, Len(s) - 1)) ELSE s

Strip(s) == LeftStrip(RightStrip(s))
=============================================================================
