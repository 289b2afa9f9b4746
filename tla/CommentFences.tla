---------------------------- MODULE CommentFences ----------------------------
(***************************************************************************)
(* The scanner of scripts/check-comment-fences.py, which keeps a block     *)
(* comment at the left margin from hiding the declaration after its end.   *)
(*                                                                         *)
(* block_comments reads a Lean source character by character: comments     *)
(* nest, strings hide comments, and the braces of an interpolated string   *)
(* hold code again.  Positions are 1-based here; the one word that makes a *)
(* string interpolated is Prefix, for `s!` and its variants.               *)
(***************************************************************************)
EXTENDS Integers, Sequences, FiniteSets

CONSTANT Sources        \* the files to read, sequences of characters

NL == "\n"
Quote == "\""
Backslash == "\\"
LeftBrace == "{"
RightBrace == "}"
Guillemets == <<"«", "»">>
Blank == {" ", NL}
Letters == {"r", "s", "x", "_"}
Prefix == <<"s", "!">>

ASSUME SourcesAssumption ==
    \A s \in Sources : s \in Seq(STRING)

VARIABLES
    source,         \* the file
    mode,           \* the loop the scanner is in: scan, comment, string, done
    index,          \* the next character to read
    line,           \* the current line, from 1
    lineStart,      \* where it starts
    depth,          \* of the open block comment
    opened,         \* where it opened: [line, col]
    interpolations, \* brace depth of each open interpolated string
    inLiteral,      \* in a literal chunk of the innermost one
    lastToken,      \* the last token read, ignoring blanks and comments
    result          \* the comments found: [line, col, close, cursor]

place == <<index, line, lineStart>>
comment == <<depth, opened, result>>
strings == <<interpolations, inLiteral, lastToken>>
vars == <<source, mode, place, comment, strings>>

N == Len(source)

\* source.startswith(<<c, d>>, i), and the next character
Pair(c, d, i) == i < N /\ source[i] = c /\ source[i + 1] = d
Char(c, i) == i <= N /\ source[i] = c

\* the first of some positions, or one past the end if there is none
First(positions) ==
    IF positions = {} THEN N + 1
    ELSE CHOOSE i \in positions : \A j \in positions : i <= j

Last(positions) == CHOOSE i \in positions : \A j \in positions : j <= i

IdentifierTail(i) == i >= 1 /\ (source[i] \in Letters \/ source[i] \in {"'", "!"})

NewlinesIn(from, end) == {i \in from .. end - 1 : source[i] = NL}

TypeOK ==
    /\ source \in Seq(STRING)
    /\ mode \in {"scan", "comment", "string", "done"}
    /\ index \in 1 .. N + 2
    /\ line \in 1 .. N + 1
    /\ lineStart \in 1 .. N + 2
    /\ depth \in 0 .. N
    /\ opened \in [line : Nat, col : Nat]
    /\ interpolations \in Seq(Nat)
    /\ inLiteral \in BOOLEAN
    /\ lastToken \in {"none", "prefix", "other"}
    /\ result \in Seq([line : Nat, col : Nat, close : Nat, cursor : Nat])

Init ==
    /\ source \in Sources
    /\ mode = "scan"
    /\ index = 1 /\ line = 1 /\ lineStart = 1
    /\ depth = 0 /\ opened = [line |-> 1, col |-> 0] /\ result = <<>>
    /\ interpolations = <<>> /\ inLiteral = FALSE /\ lastToken = "none"

-----------------------------------------------------------------------------
(* Moving on. *)

\* one character that is no newline, or several of them
To(i) == index' = i /\ UNCHANGED <<line, lineStart>>

NextLine(i) == index' = i /\ line' = line + 1 /\ lineStart' = i

\* the loop over the characters of a span that counts its newlines
Over(from, end) ==
    LET newlines == NewlinesIn(from, end)
    IN /\ index' = end
       /\ line' = line + Cardinality(newlines)
       /\ lineStart' = IF newlines = {} THEN lineStart ELSE 1 + Last(newlines)

\* Faulty variant of Escape: the newline of a gap escape is not counted.
EscapeUncounted == Char(Backslash, index) /\ To(index + 2)

\* a backslash and the character it escapes, which may be a newline
Escape ==
    /\ Char(Backslash, index)
    /\ IF Char(NL, index + 1) THEN NextLine(index + 2) ELSE To(index + 2)

Plain == IF Char(NL, index) THEN NextLine(index + 1) ELSE To(index + 1)

Scanning == mode = "scan" /\ index <= N /\ UNCHANGED source

Newline ==
    /\ Scanning /\ Char(NL, index)
    /\ NextLine(index + 1)
    /\ UNCHANGED <<mode, comment, strings>>

-----------------------------------------------------------------------------
(* A literal chunk of an interpolated string. *)

Literal == Scanning /\ inLiteral /\ ~Char(NL, index) /\ UNCHANGED <<mode, comment>>

Top == Len(interpolations)

LiteralEscape == Literal /\ Escape /\ UNCHANGED strings

\* Faulty variant of LiteralEnd: the closed string stays on the stack.
LiteralEndKept ==
    /\ Literal /\ Char(Quote, index)
    /\ To(index + 1)
    /\ inLiteral' = FALSE
    /\ lastToken' = "other"
    /\ UNCHANGED interpolations

LiteralEnd ==
    /\ Literal /\ Char(Quote, index)
    /\ To(index + 1)
    /\ interpolations' = SubSeq(interpolations, 1, Top - 1)
    /\ inLiteral' = FALSE
    /\ lastToken' = "other"

LiteralBrace ==
    /\ Literal /\ Char(LeftBrace, index)
    /\ To(index + 1)
    /\ interpolations' = [interpolations EXCEPT ![Top] = 1]
    /\ inLiteral' = FALSE
    /\ lastToken' = "other"

LiteralText ==
    /\ Literal /\ source[index] \notin {Backslash, Quote, LeftBrace}
    /\ To(index + 1)
    /\ UNCHANGED strings

-----------------------------------------------------------------------------
(* Comments. *)

Code == Scanning /\ ~inLiteral /\ ~Char(NL, index)

LineComment ==
    /\ Code /\ Pair("-", "-", index)
    /\ To(First({i \in index .. N : source[i] = NL}))
    /\ UNCHANGED <<mode, comment, strings>>

\* the loop starts over at the opening it was found by
BlockComment ==
    /\ Code /\ Pair("/", "-", index)
    /\ mode' = "comment"
    /\ opened' = [line |-> line, col |-> index - lineStart]
    /\ depth' = 0
    /\ UNCHANGED <<place, result, strings>>

InComment == mode = "comment" /\ UNCHANGED <<source, strings>>

\* Faulty variant of Record: the line of the opening is taken for the last one.
RecordOpening(cursor) ==
    /\ result' = Append(result, [line |-> opened.line, col |-> opened.col,
                                 close |-> opened.line, cursor |-> cursor])
    /\ mode' = "scan"

Record(cursor) ==
    /\ result' = Append(result, [line |-> opened.line, col |-> opened.col,
                                 close |-> line, cursor |-> cursor])
    /\ mode' = "scan"

CommentOpens ==
    /\ InComment /\ Pair("/", "-", index)
    /\ To(index + 2)
    /\ depth' = depth + 1
    /\ UNCHANGED <<mode, opened, result>>

CommentCloses ==
    /\ InComment /\ Pair("-", "/", index)
    /\ To(index + 2)
    /\ depth' = depth - 1
    /\ IF depth = 1 THEN Record(index + 2) ELSE UNCHANGED <<mode, result>>
    /\ UNCHANGED opened

CommentText ==
    /\ InComment /\ index <= N
    /\ ~Pair("/", "-", index) /\ ~Pair("-", "/", index)
    /\ Plain
    /\ UNCHANGED <<mode, comment>>

\* Faulty variant of CommentUnterminated: it waits for an end that never comes.
CommentUnterminatedWaits ==
    /\ InComment /\ index > N
    /\ UNCHANGED vars

\* a comment that is not terminated is reported as closing at the end
CommentUnterminated ==
    /\ InComment /\ index > N
    /\ Record(index)
    /\ UNCHANGED <<place, depth, opened>>

-----------------------------------------------------------------------------
(* Strings and the other tokens of code. *)

CodeToken ==
    Code /\ ~Pair("-", "-", index) /\ ~Pair("/", "-", index) /\ UNCHANGED comment

\* r"..." and r#"..."#: the closing quote is the one with as many hashes
Hashes == First({i \in index + 1 .. N : source[i] # "#"}) - index - 1

IsRaw == Char("r", index) /\ Char(Quote, index + 1 + Hashes)

RawEnd(i) ==
    /\ Char(Quote, i)
    /\ \A h \in 1 .. Hashes : Char("#", i + h)

RawString ==
    /\ CodeToken /\ IsRaw
    /\ LET from == index + 1 + Hashes
           closing == First({i \in from + 1 .. N : RawEnd(i)})
       IN Over(from, IF closing > N THEN N + 1 ELSE closing + 1 + Hashes)
    /\ lastToken' = "other"
    /\ UNCHANGED <<mode, interpolations, inLiteral>>

OpenString ==
    /\ CodeToken /\ Char(Quote, index)
    /\ To(index + 1)
    /\ IF lastToken = "prefix"
       THEN /\ interpolations' = Append(interpolations, 0)
            /\ inLiteral' = TRUE
            /\ UNCHANGED mode
       ELSE /\ mode' = "string"
            /\ UNCHANGED <<interpolations, inLiteral>>
    /\ lastToken' = "other"

InString == mode = "string" /\ UNCHANGED <<source, comment, strings>>

StringEscape == InString /\ Escape /\ UNCHANGED mode

StringEnd ==
    /\ InString /\ (index > N \/ Char(Quote, index))
    /\ To(IF index > N THEN index ELSE index + 1)
    /\ mode' = "scan"

StringText ==
    /\ InString /\ index <= N /\ source[index] \notin {Backslash, Quote}
    /\ Plain
    /\ UNCHANGED mode

\* skip_character_literal: the position after the literal, or 0 for a stray '
CharacterEnd ==
    IF Char(Backslash, index + 1)
    THEN LET closing == First({i \in index + 2 .. N : source[i] = "'"})
         IN IF closing > N THEN 0 ELSE closing + 1
    ELSE IF index + 1 <= N /\ Char("'", index + 2) THEN index + 3 ELSE 0

IsCharacter == Char("'", index) /\ ~IdentifierTail(index - 1) /\ CharacterEnd # 0

CharacterLiteral ==
    /\ CodeToken /\ IsCharacter
    /\ To(CharacterEnd)
    /\ lastToken' = "other"
    /\ UNCHANGED <<mode, interpolations, inLiteral>>

IsIdentifier == source[index] \in Letters /\ ~IsRaw

Identifier ==
    /\ CodeToken /\ IsIdentifier
    /\ LET end == First({i \in index + 1 .. N : ~IdentifierTail(i) /\ source[i] # "."})
       IN /\ To(end)
          /\ lastToken' = IF SubSeq(source, index, end - 1) = Prefix
                          THEN "prefix" ELSE "other"
    /\ UNCHANGED <<mode, interpolations, inLiteral>>

\* «...»
QuotedIdentifier ==
    /\ CodeToken /\ Char(Guillemets[1], index)
    /\ LET closing == First({i \in index .. N : source[i] = Guillemets[2]})
       IN Over(index, IF closing > N THEN N + 1 ELSE closing + 1)
    /\ lastToken' = "other"
    /\ UNCHANGED <<mode, interpolations, inLiteral>>

\* braces of the term in an interpolation
Nested(c) ==
    IF interpolations = <<>> THEN interpolations
    ELSE CASE c = LeftBrace -> [interpolations EXCEPT ![Top] = @ + 1]
           [] c = RightBrace -> [interpolations EXCEPT ![Top] = @ - 1]
           [] OTHER   -> interpolations

\* Faulty variant of EndsCode: the closing brace is counted and no more.
EndsCodeNever(c) == FALSE

\* the brace that opened the interpolation is closed again
EndsCode(c) == Top > 0 /\ c = RightBrace /\ interpolations[Top] = 1

\* any other character; a brace may end the code of an interpolation
Symbol ==
    /\ CodeToken
    /\ source[index] \notin {Quote, Guillemets[1]} /\ ~IsRaw /\ ~IsCharacter /\ ~IsIdentifier
    /\ To(index + 1)
    /\ interpolations' = Nested(source[index])
    /\ inLiteral' = EndsCode(source[index])
    /\ lastToken' = IF source[index] \in Blank THEN lastToken ELSE "other"
    /\ UNCHANGED mode

Finish ==
    /\ mode = "scan" /\ index > N
    /\ mode' = "done"
    /\ UNCHANGED <<source, place, comment, strings>>

Next ==
    \/ Newline
    \/ LiteralEscape \/ LiteralEnd \/ LiteralBrace \/ LiteralText
    \/ LineComment \/ BlockComment
    \/ CommentOpens \/ CommentCloses \/ CommentText \/ CommentUnterminated
    \/ RawString \/ OpenString \/ StringEscape \/ StringEnd \/ StringText
    \/ CharacterLiteral \/ Identifier \/ QuotedIdentifier \/ Symbol
    \/ Finish

Spec == Init /\ [][Next]_vars /\ WF_vars(Next)

-----------------------------------------------------------------------------
(* What is reported (hidden_code, violations). *)

\* hidden_code: what is left of the line after a comment's end, once complete
\* comments and a line comment are removed, is not empty.  A comment that
\* stays open is not removed.
Hides(cursor) ==
    LET end == First({i \in cursor .. N : source[i] = NL})
        On(c, d, i) == i + 1 < end /\ Pair(c, d, i)
        \* the position after the comment that opens at i, 0 if it stays open
        close[i \in 1 .. N + 2, n \in 0 .. N] ==
            IF i >= end THEN 0
            ELSE IF On("/", "-", i) THEN close[i + 2, n + 1]
            ELSE IF On("-", "/", i)
                 THEN IF n = 1 THEN i + 2 ELSE close[i + 2, n - 1]
            ELSE close[i + 1, n]
        left[i \in 1 .. N + 2] ==
            LET j == First({k \in i .. N : source[k] # " "})
            IN IF j >= end THEN FALSE
               ELSE IF On("/", "-", j)
                    THEN close[j, 0] = 0 \/ left[close[j, 0]]
               ELSE ~On("-", "-", j)
    IN left[cursor]

\* violations: comments at the left margin that hide what follows them
Reported == {i \in DOMAIN result : result[i].col = 0 /\ Hides(result[i].cursor)}

-----------------------------------------------------------------------------
(* Properties. *)

\* "Not counting that newline is how a naive scanner drifts off by a line"
\* (skip_string): wherever the scanner is, its line number and the start of
\* its line are those of the file. A newline can pass in seven places -
\* code, a literal chunk, a gap escape, a comment, a string, a raw string, a
\* quoted identifier - and each has to count it.
LineAccurate ==
    LET newlines == {i \in 1 .. N : i < index /\ source[i] = NL}
    IN /\ line = 1 + Cardinality(newlines)
       /\ lineStart = IF newlines = {} THEN 1 ELSE 1 + Last(newlines)

\* The stack of interpolated strings: a literal chunk always belongs to an
\* innermost string at brace depth 0, and whenever code is read every open
\* string is inside a brace. (interpolations[-1] of an empty stack would
\* raise, and a stale entry would turn later code into string text.)
InterpolationStack ==
    /\ inLiteral => mode \in {"scan", "done"} /\ Top > 0 /\ interpolations[Top] = 0
    /\ \A i \in DOMAIN interpolations :
          i < Top \/ ~inLiteral => interpolations[i] > 0

\* What is reported stands in the file where the message says: at the start
\* of a line there is a comment opening, and the line named in the message
\* has code after the end of that comment.
ReportsAreLocated ==
    mode = "done" =>
        \A i \in Reported :
            \E open \in 1 .. N :
                /\ Pair("/", "-", open)
                /\ open = 1 \/ source[open - 1] = NL
                /\ result[i].line = 1 + Cardinality(NewlinesIn(1, open))
                /\ result[i].close = 1 + Cardinality(NewlinesIn(1, result[i].cursor))

\* The scanner reads every file to its end, terminated or not.
Terminates == <>(mode = "done")
=============================================================================
