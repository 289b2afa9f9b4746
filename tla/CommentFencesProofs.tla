------------------------ MODULE CommentFencesProofs ------------------------
(***************************************************************************)
(* The invariants of the comment-fence scanner, for every file.            *)
(***************************************************************************)
EXTENDS CommentFences, FiniteSetTheorems, WellFoundedInduction, TLAPS

-----------------------------------------------------------------------------
(* Positions. *)

\* The least of some positions.
LEMMA Least ==
    ASSUME NEW S \in SUBSET Nat, S # {}
    PROVE  \E i \in S : \A j \in S : i <= j
<1>1. IsWellFoundedOn(OpToRel(<, Nat), Nat)
  BY NatLessThanWellFounded
<1>2. OpToRel(<, Nat) = {pair \in Nat \X Nat : pair[1] < pair[2]}
  BY DEF OpToRel
<1>3. PICK i \in S : \A j \in S : <<j, i>> \notin {pair \in Nat \X Nat : pair[1] < pair[2]}
  BY <1>1, <1>2, WFMin
<1>4. \A j \in S : ~(j < i)
  BY <1>3
<1>5. QED
  BY <1>4

\* The greatest of some positions below a bound.
LEMMA Greatest ==
    ASSUME NEW n \in Nat, NEW S \in SUBSET (1 .. n), S # {}
    PROVE  \E i \in S : \A j \in S : j <= i
<1> DEFINE below == {n - i : i \in S}
<1>1. \A i \in S : i \in 1 .. n /\ n - i \in Nat
  OBVIOUS
<1>2. below \in SUBSET Nat /\ below # {}
  BY <1>1
<1>3. \E k \in below : \A j \in below : k <= j
  <2> HIDE DEF below
  <2>1. QED
    BY <1>2, Least
<1>4. PICK i \in S : \A j \in S : n - i <= n - j
  BY <1>3
<1>5. \A j \in S : j <= i
  BY <1>1, <1>4
<1>6. QED
  BY <1>5

\* First is one of the positions and not behind any other, or one past the end.
LEMMA FirstPosition ==
    ASSUME N \in Nat, NEW S \in SUBSET (1 .. N)
    PROVE  /\ First(S) \in S \cup {N + 1}
           /\ \A j \in S : First(S) <= j
           /\ First(S) \in 1 .. N + 1
<1>1. CASE S = {}
  BY <1>1 DEF First
<1>2. CASE S # {}
  <2>1. \E i \in S : \A j \in S : i <= j
    BY <1>2, Least
  <2>2. First(S) = CHOOSE i \in S : \A j \in S : i <= j
    BY <1>2 DEF First
  <2>3. First(S) \in S /\ \A j \in S : First(S) <= j
    BY <2>1, <2>2
  <2>4. First(S) \in 1 .. N
    BY <2>3
  <2>5. QED
    BY <2>3, <2>4
<1>3. QED
  BY <1>1, <1>2

\* The newlines of a span are finitely many, and no more than its characters.
LEMMA NewlinesCount ==
    ASSUME NEW from \in Nat, NEW end \in Nat, from <= end
    PROVE  /\ IsFiniteSet(NewlinesIn(from, end))
           /\ Cardinality(NewlinesIn(from, end)) \in 0 .. end - from
<1>1. IsFiniteSet(from .. end - 1) /\ Cardinality(from .. end - 1) = end - from
  <2>1. end - 1 \in Int /\ from \in Int
    OBVIOUS
  <2>2. /\ IsFiniteSet(from .. end - 1)
        /\ Cardinality(from .. end - 1) = IF from > end - 1 THEN 0 ELSE end - 1 - from + 1
    BY <2>1, FS_Interval
  <2>3. QED
    BY <2>2
<1>2. NewlinesIn(from, end) \subseteq from .. end - 1
  BY DEF NewlinesIn
<1>3. /\ IsFiniteSet(NewlinesIn(from, end))
      /\ Cardinality(NewlinesIn(from, end)) <= end - from
  BY <1>1, <1>2, FS_Subset
<1>4. Cardinality(NewlinesIn(from, end)) \in Nat
  BY <1>3, FS_CardinalityType
<1>5. QED
  BY <1>3, <1>4

-----------------------------------------------------------------------------
(* How a step moves. *)

\* No newline stands in a span.
Clear(from, end) == \A i \in from .. end - 1 : i \in 1 .. N => source[i] # NL

\* The three ways to move: along a line, to the next one, and over the characters of a
\* token that may go on for several lines. Character literals are moved over along a
\* line whatever they hold.
Along(end) ==
    /\ end \in index .. N + 2
    /\ To(end)
    /\ CharacterLiteral \/ Clear(index, end)

Down(end) ==
    /\ end \in index + 1 .. N + 1
    /\ NextLine(end)
    /\ source[end - 1] = NL
    /\ Clear(index, end - 1)

Across(from, end) ==
    /\ from \in index .. N + 1 /\ end \in from .. N + 1
    /\ Clear(index, from)
    /\ Over(from, end)

Moves == \E end \in Nat : Along(end) \/ Down(end) \/ \E from \in Nat : Across(from, end)

\* The file has a length, and its positions are numbered from 1.
LEMMA FileType ==
    ASSUME TypeOK
    PROVE  N \in Nat /\ DOMAIN source = 1 .. N /\ index \in 1 .. N + 2 /\ index \in Nat
  BY DEF TypeOK, N

\* A move along a line over one character or two.
LEMMA AlongOne ==
    ASSUME TypeOK, index <= N, source[index] # NL, To(index + 1)
    PROVE  Moves
<1>1. Along(index + 1)
  BY FileType DEF Along, Clear
<1>2. QED
  BY <1>1, FileType DEF Moves

LEMMA AlongTwo ==
    ASSUME TypeOK, index <= N, source[index] # NL, ~Char(NL, index + 1), To(index + 2)
    PROVE  Moves
<1>1. Along(index + 2)
  BY FileType DEF Along, Clear, Char
<1>2. QED
  BY <1>1, FileType DEF Moves

LEMMA Stays ==
    ASSUME TypeOK, To(index)
    PROVE  Moves
<1>1. Along(index)
  BY FileType DEF Along, Clear
<1>2. QED
  BY <1>1, FileType DEF Moves

LEMMA DownOne ==
    ASSUME TypeOK, Char(NL, index), NextLine(index + 1)
    PROVE  Moves
<1>1. Down(index + 1)
  BY FileType DEF Down, Clear, Char
<1>2. QED
  BY <1>1, FileType DEF Moves

LEMMA PlainMoves ==
    ASSUME TypeOK, index <= N, Plain
    PROVE  Moves
  BY AlongOne, DownOne DEF Plain, Char

LEMMA EscapeMoves ==
    ASSUME TypeOK, Escape
    PROVE  Moves
<1>1. index <= N /\ source[index] # NL
  BY DEF Escape, Char, Backslash, NL
<1>2. CASE Char(NL, index + 1)
  <2>1. Down(index + 2)
    BY <1>1, <1>2, FileType DEF Escape, Down, Clear, Char
  <2>2. QED
    BY <2>1, FileType DEF Moves
<1>3. CASE ~Char(NL, index + 1)
  BY <1>1, <1>3, AlongTwo DEF Escape
<1>4. QED
  BY <1>2, <1>3

\* A line comment ends before the next newline.
LEMMA LineCommentMoves ==
    ASSUME TypeOK, LineComment
    PROVE  Moves
<1> DEFINE newlines == {i \in index .. N : source[i] = NL}
<1>1. newlines \in SUBSET (1 .. N)
  BY FileType
<1>2. /\ First(newlines) \in newlines \cup {N + 1}
      /\ \A j \in newlines : First(newlines) <= j
      /\ First(newlines) \in 1 .. N + 1
  BY <1>1, FileType, FirstPosition
<1>3. index <= N /\ To(First(newlines))
  BY FileType DEF LineComment, Pair
<1> HIDE DEF newlines
<1>4. First(newlines) \in index .. N + 1
  BY <1>2, <1>3, FileType DEF newlines
<1>5. Clear(index, First(newlines))
  BY <1>2, <1>4, FileType DEF newlines, Clear
<1>6. Along(First(newlines))
  BY <1>3, <1>4, <1>5, FileType DEF Along
<1>7. QED
  BY <1>4, <1>6, FileType DEF Moves

\* An identifier has no newline in it.
LEMMA IdentifierMoves ==
    ASSUME TypeOK, Identifier
    PROVE  Moves
<1> DEFINE others == {i \in index + 1 .. N : ~IdentifierTail(i) /\ source[i] # "."}
<1>1. others \in SUBSET (1 .. N)
  BY FileType
<1>2. /\ First(others) \in others \cup {N + 1}
      /\ \A j \in others : First(others) <= j
      /\ First(others) \in 1 .. N + 1
  BY <1>1, FileType, FirstPosition
<1>3. index <= N /\ source[index] # NL /\ To(First(others))
  BY FileType DEF Identifier, CodeToken, Code, Scanning, Char
<1> HIDE DEF others
<1>4. First(others) \in index + 1 .. N + 1
  BY <1>2, <1>3, FileType DEF others
<1>5. ASSUME NEW i \in index .. First(others) - 1 PROVE source[i] # NL
  <2>1. CASE i = index
    BY <1>3, <2>1
  <2>2. CASE i # index
    <3>1. i \in index + 1 .. N /\ i \notin others
      BY <1>2, <1>4, <1>5, <2>2, FileType
    <3>2. IdentifierTail(i) \/ source[i] = "."
      BY <3>1 DEF others
    <3>3. QED
      BY <3>2 DEF IdentifierTail, Letters, NL
  <2>3. QED
    BY <2>1, <2>2
<1>6. Along(First(others))
  BY <1>3, <1>4, <1>5, FileType DEF Along, Clear
<1>7. QED
  BY <1>4, <1>6, FileType DEF Moves

\* A quoted identifier ends at its closing quote, or at the end of the file.
LEMMA QuotedIdentifierMoves ==
    ASSUME TypeOK, QuotedIdentifier
    PROVE  Moves
<1> DEFINE quotes == {i \in index .. N : source[i] = Guillemets[2]}
           end == IF First(quotes) > N THEN N + 1 ELSE First(quotes) + 1
<1>1. quotes \in SUBSET (1 .. N)
  BY FileType
<1>2. First(quotes) \in quotes \cup {N + 1}
  BY <1>1, FileType, FirstPosition
<1>3. index <= N /\ Over(index, end)
  BY FileType DEF QuotedIdentifier, Char
<1>4. end \in index .. N + 1
  BY <1>2, <1>3, FileType
<1> HIDE DEF end
<1>5. Across(index, end) /\ end \in Nat
  BY <1>3, <1>4, FileType DEF Across, Clear
<1>6. QED
  BY <1>5, FileType DEF Moves

\* The hashes of a raw string.
LEMMA HashesType ==
    ASSUME TypeOK, index <= N
    PROVE  /\ Hashes \in 0 .. N - index
           /\ \A i \in index + 1 .. index + Hashes : source[i] = "#"
<1> DEFINE others == {i \in index + 1 .. N : source[i] # "#"}
<1>1. others \in SUBSET (1 .. N)
  BY FileType
<1>2. /\ First(others) \in others \cup {N + 1}
      /\ \A j \in others : First(others) <= j
  BY <1>1, FileType, FirstPosition
<1>3. Hashes = First(others) - index - 1
  BY DEF Hashes
<1> HIDE DEF others
<1>4. First(others) \in index + 1 .. N + 1
  BY <1>2, FileType DEF others
<1>5. ASSUME NEW i \in index + 1 .. First(others) - 1 PROVE source[i] = "#"
  <2>1. i \in index + 1 .. N /\ i \notin others
    BY <1>2, <1>4, <1>5, FileType
  <2>2. QED
    BY <2>1 DEF others
<1>6. QED
  BY <1>3, <1>4, <1>5, FileType

\* A raw string ends with the hashes behind its closing quote, or with the file.
LEMMA RawStringMoves ==
    ASSUME TypeOK, RawString
    PROVE  Moves
<1> DEFINE from == index + 1 + Hashes
           closings == {i \in from + 1 .. N : RawEnd(i)}
           closing == First(closings)
           end == IF closing > N THEN N + 1 ELSE closing + 1 + Hashes
<1>1. index <= N /\ from <= N /\ source[index] = "r" /\ Over(from, end)
  <2>1. index <= N /\ from <= N /\ source[index] = "r"
    BY DEF RawString, CodeToken, Code, Scanning, IsRaw, Char
  <2>2. Over(from, end)
    BY DEF RawString
  <2>3. QED
    BY <2>1, <2>2
<1>2. /\ Hashes \in 0 .. N - index
      /\ \A i \in index + 1 .. index + Hashes : source[i] = "#"
  BY <1>1, HashesType
<1>8. from \in index .. N /\ from \in Nat
  BY <1>1, <1>2, FileType
<1>9. Clear(index, from)
  <2>1. ASSUME NEW i \in index .. from - 1 PROVE source[i] \in {"r", "#"}
    BY <1>1, <1>2, FileType
  <2>2. QED
    BY <2>1 DEF Clear, NL
<1> HIDE DEF closing
<1>3. closings \in SUBSET (1 .. N)
  BY <1>2, FileType
<1>4. closing \in closings \cup {N + 1}
  BY <1>3, FileType, FirstPosition DEF closing
<1>5. CASE closing = N + 1
  <2>1. end = N + 1
    BY <1>5, FileType
  <2>2. QED
    BY <1>1, <1>8, <1>9, <2>1, FileType DEF Across, Moves
<1>6. CASE closing \in closings
  <2>1. closing \in from + 1 .. N /\ RawEnd(closing)
    BY <1>6
  <2>2. closing + Hashes <= N
    <3>1. CASE Hashes = 0
      BY <2>1, <3>1, <1>2, FileType
    <3>2. CASE Hashes # 0
      <4>1. Hashes \in 1 .. Hashes
        BY <1>2, <3>2, FileType
      <4>2. Char("#", closing + Hashes)
        BY <2>1, <4>1 DEF RawEnd
      <4>3. QED
        BY <4>2 DEF Char
    <3>3. QED
      BY <3>1, <3>2
  <2>3. end = closing + 1 + Hashes /\ end \in from .. N + 1
    BY <1>1, <1>2, <1>8, <2>1, <2>2, FileType
  <2> HIDE DEF end, from
  <2>4. Across(from, end) /\ end \in Nat
    BY <1>1, <1>8, <1>9, <2>3, FileType DEF Across
  <2>5. QED
    BY <1>8, <2>4 DEF Moves
<1>7. QED
  BY <1>4, <1>5, <1>6

\* A character literal ends in the file, behind its opening.
LEMMA CharacterEndType ==
    ASSUME TypeOK, index <= N, CharacterEnd # 0
    PROVE  CharacterEnd \in index + 1 .. N + 1
<1> DEFINE quotes == {i \in index + 2 .. N : source[i] = "'"}
<1>1. quotes \in SUBSET (1 .. N)
  BY FileType
<1>2. First(quotes) \in quotes \cup {N + 1}
  BY <1>1, FileType, FirstPosition
<1>3. CASE Char(Backslash, index + 1)
  <2>1. CharacterEnd = IF First(quotes) > N THEN 0 ELSE First(quotes) + 1
    BY <1>3 DEF CharacterEnd
  <2>2. QED
    BY <1>2, <2>1, FileType
<1>4. CASE ~Char(Backslash, index + 1)
  <2>1. CharacterEnd = IF index + 1 <= N /\ Char("'", index + 2) THEN index + 3 ELSE 0
    BY <1>4 DEF CharacterEnd
  <2>2. QED
    BY <2>1, FileType DEF Char
<1>5. QED
  BY <1>3, <1>4

LEMMA CharacterLiteralMoves ==
    ASSUME TypeOK, CharacterLiteral
    PROVE  Moves
<1>1. index <= N /\ CharacterEnd # 0 /\ To(CharacterEnd)
  BY DEF CharacterLiteral, IsCharacter, Char
<1>2. CharacterEnd \in index + 1 .. N + 1
  BY <1>1, CharacterEndType
<1>3. Along(CharacterEnd)
  BY <1>1, <1>2, FileType DEF Along
<1>4. QED
  BY <1>2, <1>3, FileType DEF Moves

\* Every step moves in one of the three ways.
LEMMA StepMoves ==
    ASSUME TypeOK, Next
    PROVE  Moves
<1>1. CASE Newline
  BY <1>1, DownOne DEF Newline
<1>2. CASE LiteralEscape
  BY <1>2, EscapeMoves DEF LiteralEscape
<1>3. CASE LiteralEnd \/ LiteralBrace \/ LiteralText
  BY <1>3, AlongOne DEF LiteralEnd, LiteralBrace, LiteralText, Literal, Scanning, Char
<1>4. CASE LineComment
  BY <1>4, LineCommentMoves
<1>5. CASE BlockComment \/ CommentUnterminated \/ Finish
  BY <1>5, Stays DEF BlockComment, CommentUnterminated, Finish, place, To
<1>6. CASE CommentOpens \/ CommentCloses
  <2>1. index <= N /\ source[index] # NL /\ ~Char(NL, index + 1) /\ To(index + 2)
    BY <1>6, FileType DEF CommentOpens, CommentCloses, Pair, Char, NL
  <2>2. QED
    BY <2>1, AlongTwo
<1>7. CASE CommentText
  BY <1>7, PlainMoves DEF CommentText
<1>8. CASE RawString
  BY <1>8, RawStringMoves
<1>9. CASE OpenString
  BY <1>9, AlongOne DEF OpenString, CodeToken, Code, Scanning, Char
<1>10. CASE StringEscape
  BY <1>10, EscapeMoves DEF StringEscape
<1>11. CASE StringEnd
  <2>1. CASE index > N
    BY <1>11, <2>1, Stays DEF StringEnd
  <2>2. CASE ~(index > N)
    <3>1. index <= N /\ source[index] # NL /\ To(index + 1)
      BY <1>11, <2>2, FileType DEF StringEnd, Char, Quote, NL
    <3>2. QED
      BY <3>1, AlongOne
  <2>3. QED
    BY <2>1, <2>2
<1>12. CASE StringText
  BY <1>12, PlainMoves DEF StringText
<1>13. CASE CharacterLiteral
  BY <1>13, CharacterLiteralMoves
<1>14. CASE Identifier
  BY <1>14, IdentifierMoves
<1>15. CASE QuotedIdentifier
  BY <1>15, QuotedIdentifierMoves
<1>16. CASE Symbol
  BY <1>16, AlongOne DEF Symbol, CodeToken, Code, Scanning, Char
<1>17. QED
  BY <1>1, <1>2, <1>3, <1>4, <1>5, <1>6, <1>7, <1>8, <1>9, <1>10, <1>11, <1>12, <1>13,
     <1>14, <1>15, <1>16 DEF Next

-----------------------------------------------------------------------------
(* Types, and the stack of interpolated strings. *)

\* The current line cannot start behind the next character, nor can there be more lines
\* than characters; an open comment has been opened as often as its depth says, and
\* before that the scanner is at its opening.
PlaceInv ==
    /\ line <= index /\ lineStart <= index
    /\ mode = "comment" =>
          /\ index <= N + 1 /\ depth < index
          /\ depth > 0 \/ Pair("/", "-", index)

SafeInv == TypeOK /\ InterpolationStack /\ PlaceInv

\* The last newline of a span is in it.
LEMMA LastNewline ==
    ASSUME N \in Nat, NEW from \in Nat, NEW end \in Nat, 1 <= from, end <= N + 1,
           NewlinesIn(from, end) # {}
    PROVE  /\ Last(NewlinesIn(from, end)) \in NewlinesIn(from, end)
           /\ \A j \in NewlinesIn(from, end) : j <= Last(NewlinesIn(from, end))
<1>1. NewlinesIn(from, end) \in SUBSET (1 .. N)
  BY DEF NewlinesIn
<1>2. \E i \in NewlinesIn(from, end) : \A j \in NewlinesIn(from, end) : j <= i
  BY <1>1, Greatest
<1>3. QED
  BY <1>2 DEF Last

\* The place stays in the file, and moves on.
LEMMA PlaceStep ==
    ASSUME TypeOK, line <= index, lineStart <= index, Moves
    PROVE  /\ index' \in 1 .. N + 2 /\ index <= index'
           /\ line' \in 1 .. N + 1 /\ line' <= index'
           /\ lineStart' \in 1 .. N + 2 /\ lineStart' <= index'
<1>0. /\ N \in Nat /\ index \in 1 .. N + 2 /\ line \in 1 .. N + 1 /\ lineStart \in 1 .. N + 2
  BY FileType DEF TypeOK
<1>1. ASSUME NEW end \in Nat, Along(end)
      PROVE  /\ index' = end /\ line' = line /\ lineStart' = lineStart
             /\ end \in index .. N + 2
  BY <1>1 DEF Along, To
<1>2. ASSUME NEW end \in Nat, Down(end)
      PROVE  /\ index' = end /\ line' = line + 1 /\ lineStart' = end
             /\ end \in index + 1 .. N + 1
  BY <1>2 DEF Down, NextLine
<1>3. ASSUME NEW end \in Nat, NEW from \in Nat, Across(from, end)
      PROVE  /\ index' = end /\ end \in index .. N + 1
             /\ line' \in line .. line + (end - index)
             /\ lineStart' \in {lineStart} \cup 1 .. end
  <2>1. /\ from \in index .. N + 1 /\ end \in from .. N + 1 /\ index' = end
        /\ line' = line + Cardinality(NewlinesIn(from, end))
    BY <1>3 DEF Across, Over
  <2>2. Cardinality(NewlinesIn(from, end)) \in 0 .. end - from
    BY <2>1, NewlinesCount
  <2>3. line' \in line .. line + (end - index)
    BY <1>0, <2>1, <2>2
  <2>4. CASE NewlinesIn(from, end) = {}
    BY <1>0, <1>3, <2>1, <2>3, <2>4 DEF Across, Over
  <2>5. CASE NewlinesIn(from, end) # {}
    <3> DEFINE last == Last(NewlinesIn(from, end))
    <3>1. last \in NewlinesIn(from, end)
      BY <1>0, <2>1, <2>5, LastNewline
    <3>2. lineStart' = 1 + last
      BY <1>3, <2>5 DEF Across, Over
    <3> HIDE DEF last
    <3>3. last \in from .. end - 1
      BY <3>1 DEF NewlinesIn
    <3>4. lineStart' \in 1 .. end
      BY <1>0, <2>1, <3>2, <3>3
    <3>5. QED
      BY <1>0, <2>1, <2>3, <3>4
  <2>6. QED
    BY <2>4, <2>5
<1>4. PICK end \in Nat : Along(end) \/ Down(end) \/ \E from \in Nat : Across(from, end)
  BY DEF Moves
<1>5. CASE Along(end)
  BY <1>0, <1>1, <1>5
<1>6. CASE Down(end)
  BY <1>0, <1>2, <1>6
<1>7. CASE \E from \in Nat : Across(from, end)
  <2>1. /\ index' = end /\ end \in index .. N + 1
        /\ line' \in line .. line + (end - index)
        /\ lineStart' \in {lineStart} \cup 1 .. end
    BY <1>3, <1>7
  <2>2. QED
    BY <1>0, <2>1
<1>8. QED
  BY <1>4, <1>5, <1>6, <1>7

\* A file stays what it is.
LEMMA SourceStep == ASSUME Next PROVE source' = source /\ N' = N
<1>1. source' = source
  BY DEF Next, Newline, LiteralEscape, LiteralEnd, LiteralBrace, LiteralText, Literal,
         LineComment, BlockComment, CommentOpens, CommentCloses, CommentText,
         CommentUnterminated, InComment, RawString, OpenString, StringEscape, StringEnd,
         StringText, InString, CharacterLiteral, Identifier, QuotedIdentifier, Symbol,
         CodeToken, Code, Scanning, Finish
<1>2. QED
  BY <1>1 DEF N

\* The stack of strings and whether a literal chunk of the innermost one is read.
StackInv ==
    /\ interpolations \in Seq(Nat) /\ inLiteral \in BOOLEAN
    /\ InterpolationStack

\* The innermost brace depth changes; the others stay as they are.
LEMMA SetTop ==
    ASSUME interpolations \in Seq(Nat), Top > 0, NEW n \in Nat
    PROVE  LET new == [interpolations EXCEPT ![Top] = n]
           IN /\ new \in Seq(Nat) /\ Len(new) = Top /\ DOMAIN new = 1 .. Top /\ new[Top] = n
              /\ \A i \in 1 .. Top - 1 : new[i] = interpolations[i]
<1>1. Top \in Nat /\ Top \in 1 .. Top /\ DOMAIN interpolations = 1 .. Top
  BY DEF Top
<1>2. /\ interpolations \in [1 .. Top -> Nat]
      /\ [interpolations EXCEPT ![Top] = n] \in [1 .. Top -> Nat]
  BY <1>1
<1>3. ASSUME NEW f \in [1 .. Top -> Nat] PROVE f \in Seq(Nat) /\ Len(f) = Top
  BY <1>1
<1>4. /\ [interpolations EXCEPT ![Top] = n] \in Seq(Nat)
      /\ Len([interpolations EXCEPT ![Top] = n]) = Top
  BY <1>2, <1>3
<1>5. QED
  BY <1>1, <1>2, <1>4

\* A brace opens code.
LEMMA BraceStack == ASSUME StackInv, LiteralBrace PROVE StackInv'
<1>1. /\ inLiteral /\ Top > 0
      /\ interpolations' = [interpolations EXCEPT ![Top] = 1] /\ inLiteral' = FALSE
  BY DEF LiteralBrace, Literal, StackInv, InterpolationStack
<1>2. /\ interpolations' \in Seq(Nat) /\ Len(interpolations') = Top
      /\ DOMAIN interpolations' = 1 .. Top /\ interpolations'[Top] = 1
      /\ \A i \in 1 .. Top - 1 : interpolations'[i] = interpolations[i]
  BY <1>1, SetTop DEF StackInv
<1>3. Top \in Nat /\ DOMAIN interpolations = 1 .. Top
  BY DEF StackInv, Top
<1>4. \A i \in 1 .. Top : interpolations'[i] > 0
  BY <1>2, <1>3 DEF StackInv, InterpolationStack
<1>5. QED
  BY <1>1, <1>2, <1>4 DEF StackInv, InterpolationStack

\* A quote closes the innermost string; the others are inside a brace.
LEMMA EndStack == ASSUME StackInv, LiteralEnd PROVE StackInv'
<1>1. /\ inLiteral /\ Top > 0
      /\ interpolations' = SubSeq(interpolations, 1, Top - 1) /\ inLiteral' = FALSE
  BY DEF LiteralEnd, Literal, StackInv, InterpolationStack
<1>2. /\ interpolations \in Seq(Nat) /\ Top \in Nat /\ Top = Len(interpolations)
      /\ DOMAIN interpolations = 1 .. Top
  BY DEF StackInv, Top
<1>3. /\ interpolations' \in Seq(Nat) /\ DOMAIN interpolations' = 1 .. Top - 1
      /\ \A i \in 1 .. Top - 1 : interpolations'[i] = interpolations[i]
  BY <1>1, <1>2
<1>4. \A i \in 1 .. Top - 1 : interpolations'[i] > 0
  <2>1. \A i \in 1 .. Top - 1 : i \in DOMAIN interpolations /\ i < Top
    BY <1>2
  <2>2. \A i \in 1 .. Top - 1 : interpolations[i] > 0
    BY <2>1 DEF StackInv, InterpolationStack
  <2>3. QED
    BY <1>3, <2>2
<1>5. QED
  BY <1>1, <1>3, <1>4 DEF StackInv, InterpolationStack

\* A new string is read as text; those around it are inside a brace.
LEMMA OpenStack == ASSUME StackInv, OpenString PROVE StackInv'
<1>1. ~inLiteral /\ mode = "scan"
  BY DEF OpenString, CodeToken, Code, Scanning
<1>2. CASE lastToken = "prefix"
  <2>1. interpolations' = Append(interpolations, 0) /\ inLiteral' = TRUE /\ mode' = mode
    BY <1>2 DEF OpenString
  <2>2. /\ interpolations \in Seq(Nat) /\ Top \in Nat /\ Top = Len(interpolations)
        /\ DOMAIN interpolations = 1 .. Top
    BY DEF StackInv, Top
  <2>3. /\ interpolations' \in Seq(Nat) /\ DOMAIN interpolations' = 1 .. Top + 1
        /\ Len(interpolations') = Top + 1 /\ interpolations'[Top + 1] = 0
        /\ \A i \in 1 .. Top : interpolations'[i] = interpolations[i]
    BY <2>1, <2>2
  <2>4. \A i \in 1 .. Top : interpolations'[i] > 0
    BY <1>1, <2>2, <2>3 DEF StackInv, InterpolationStack
  <2>5. Top' = Top + 1
    BY <2>3 DEF Top
  <2>6. QED
    BY <1>1, <2>1, <2>2, <2>3, <2>4, <2>5 DEF StackInv, InterpolationStack
<1>3. CASE lastToken # "prefix"
  BY <1>1, <1>3 DEF OpenString, StackInv, InterpolationStack, Top
<1>4. QED
  BY <1>2, <1>3

LEMMA Braces == LeftBrace # RightBrace
  BY DEF LeftBrace, RightBrace

\* A brace in code is counted; the one that closes the interpolation ends the code.
LEMMA SymbolStack == ASSUME StackInv, Symbol PROVE StackInv'
<1> DEFINE c == source[index]
<1>1. /\ ~inLiteral /\ mode = "scan" /\ mode' = mode
      /\ interpolations' = Nested(c) /\ inLiteral' = EndsCode(c)
  BY DEF Symbol, CodeToken, Code, Scanning
<1>2. /\ interpolations \in Seq(Nat) /\ Top \in Nat /\ Top = Len(interpolations)
      /\ DOMAIN interpolations = 1 .. Top
  BY DEF StackInv, Top
<1>3. \A i \in 1 .. Top : interpolations[i] > 0 /\ interpolations[i] \in Nat
  BY <1>1, <1>2 DEF StackInv, InterpolationStack
<1> HIDE DEF c
<1>4. CASE Top = 0 \/ c \notin {LeftBrace, RightBrace}
  <2>1. interpolations' = interpolations
    BY <1>1, <1>2, <1>4 DEF Nested
  <2>2. inLiteral' = FALSE
    <3>1. ~EndsCode(c)
      BY <1>4 DEF EndsCode
    <3>2. QED
      BY <1>1, <3>1
  <2>3. QED
    BY <1>2, <1>3, <2>1, <2>2 DEF StackInv, InterpolationStack
<1>5. CASE Top > 0 /\ c \in {LeftBrace, RightBrace}
  <2> DEFINE n == IF c = LeftBrace THEN interpolations[Top] + 1 ELSE interpolations[Top] - 1
  <2>1. n \in Nat /\ interpolations[Top] \in Nat
    BY <1>2, <1>3, <1>5
  <2>2. interpolations # <<>>
    BY <1>2, <1>5
  <2>3. interpolations' = [interpolations EXCEPT ![Top] = n]
    BY <1>1, <1>5, <2>2, Braces DEF Nested
  <2>4. inLiteral' = (n = 0)
    BY <1>1, <1>3, <1>2, <1>5, <2>1, Braces DEF EndsCode
  <2> HIDE DEF n
  <2>5. /\ interpolations' \in Seq(Nat) /\ Len(interpolations') = Top
        /\ DOMAIN interpolations' = 1 .. Top /\ interpolations'[Top] = n
        /\ \A i \in 1 .. Top - 1 : interpolations'[i] = interpolations[i]
    BY <1>2, <1>5, <2>1, <2>3, SetTop
  <2>6. Top' = Top
    BY <2>5 DEF Top
  <2>7. \A i \in 1 .. Top - 1 : interpolations'[i] > 0
    BY <1>3, <2>5
  <2>8. \A i \in 1 .. Top : i < Top \/ n # 0 => interpolations'[i] > 0
    BY <1>2, <1>5, <2>1, <2>5, <2>7
  <2>9. CASE n = 0
    BY <1>1, <1>2, <1>5, <2>4, <2>5, <2>6, <2>8, <2>9 DEF StackInv, InterpolationStack
  <2>10. CASE n # 0
    BY <1>1, <1>2, <1>5, <2>4, <2>5, <2>6, <2>8, <2>10 DEF StackInv, InterpolationStack
  <2>11. QED
    BY <2>9, <2>10
<1>6. QED
  BY <1>2, <1>4, <1>5

\* What does not touch the stack keeps it: in a comment or a string no literal chunk
\* is read.
LEMMA OtherStack ==
    ASSUME StackInv, UNCHANGED <<interpolations, inLiteral>>,
           ~inLiteral \/ mode' \in {"scan", "done"}
    PROVE  StackInv'
  BY DEF StackInv, InterpolationStack, Top

LEMMA StackStep == ASSUME TypeOK, InterpolationStack, Next PROVE StackInv'
<1>0. StackInv
  BY DEF StackInv, TypeOK
<1>1. CASE LiteralBrace
  BY <1>0, <1>1, BraceStack
<1>2. CASE LiteralEnd
  BY <1>0, <1>2, EndStack
<1>3. CASE OpenString
  BY <1>0, <1>3, OpenStack
<1>4. CASE Symbol
  BY <1>0, <1>4, SymbolStack
<1>5. CASE Newline \/ LiteralEscape \/ LiteralText \/ Finish
  <2>1. UNCHANGED <<interpolations, inLiteral>> /\ mode' \in {"scan", "done"}
    BY <1>5 DEF Newline, LiteralEscape, LiteralText, Literal, Scanning, Finish, strings
  <2>2. QED
    BY <1>0, <2>1, OtherStack
<1>6. CASE \/ LineComment \/ BlockComment \/ RawString \/ CharacterLiteral \/ Identifier
           \/ QuotedIdentifier
  <2>1. UNCHANGED <<interpolations, inLiteral>> /\ ~inLiteral
    BY <1>6 DEF LineComment, BlockComment, RawString, CharacterLiteral, Identifier,
                QuotedIdentifier, CodeToken, Code, strings
  <2>2. QED
    BY <1>0, <2>1, OtherStack
<1>7. CASE CommentOpens \/ CommentCloses \/ CommentText \/ CommentUnterminated
  <2>1. UNCHANGED <<interpolations, inLiteral>> /\ mode = "comment"
    BY <1>7 DEF CommentOpens, CommentCloses, CommentText, CommentUnterminated, InComment,
                strings
  <2>2. QED
    BY <1>0, <2>1, OtherStack DEF InterpolationStack
<1>8. CASE StringEscape \/ StringEnd \/ StringText
  <2>1. UNCHANGED <<interpolations, inLiteral>> /\ mode = "string"
    BY <1>8 DEF StringEscape, StringEnd, StringText, InString, strings
  <2>2. QED
    BY <1>0, <2>1, OtherStack DEF InterpolationStack
<1>9. QED
  BY <1>1, <1>2, <1>3, <1>4, <1>5, <1>6, <1>7, <1>8 DEF Next

\* What comments keep of a place: where it opened, how deep it is, what was found.
CommentInv ==
    /\ mode \in {"scan", "comment", "string", "done"}
    /\ depth \in 0 .. N
    /\ opened \in [line : Nat, col : Nat]
    /\ lastToken \in {"none", "prefix", "other"}
    /\ result \in Seq([line : Nat, col : Nat, close : Nat, cursor : Nat])
    /\ mode = "comment" =>
          /\ index <= N + 1 /\ depth < index
          /\ depth > 0 \/ Pair("/", "-", index)

\* A comment is added to those found.
LEMMA RecordType ==
    ASSUME SafeInv, NEW cursor \in Nat, Record(cursor)
    PROVE  /\ result' \in Seq([line : Nat, col : Nat, close : Nat, cursor : Nat])
           /\ mode' = "scan"
<1>1. [line |-> opened.line, col |-> opened.col, close |-> line, cursor |-> cursor]
        \in [line : Nat, col : Nat, close : Nat, cursor : Nat]
  BY DEF SafeInv, TypeOK
<1>2. QED
  BY <1>1 DEF Record, SafeInv, TypeOK

LEMMA CommentStep == ASSUME SafeInv, Next, N' = N, source' = source PROVE CommentInv'
<1>0. /\ N \in Nat /\ index \in 1 .. N + 2 /\ depth \in 0 .. N
      /\ line \in Nat /\ lineStart \in Nat /\ lineStart <= index
  BY FileType DEF SafeInv, TypeOK, PlaceInv
<1>1. CASE \/ Newline \/ LiteralEscape \/ LiteralEnd \/ LiteralBrace \/ LiteralText
           \/ LineComment \/ Finish
  BY <1>1 DEF Newline, LiteralEscape, LiteralEnd, LiteralBrace, LiteralText, Literal,
              LineComment, Code, Scanning, Finish, comment, strings, SafeInv, TypeOK,
              CommentInv
<1>2. CASE RawString \/ CharacterLiteral \/ QuotedIdentifier
  BY <1>2 DEF RawString, CharacterLiteral, QuotedIdentifier, CodeToken, Code, Scanning,
              comment, SafeInv, TypeOK, CommentInv
<1>3. CASE Identifier
  <2>1. /\ lastToken' \in {"prefix", "other"} /\ mode' = "scan" /\ UNCHANGED comment
    BY <1>3 DEF Identifier, CodeToken, Code, Scanning
  <2>2. QED
    BY <2>1 DEF comment, SafeInv, TypeOK, CommentInv
<1>4. CASE Symbol
  <2>1. /\ lastToken' \in {lastToken, "other"} /\ mode' = "scan" /\ UNCHANGED comment
    BY <1>4 DEF Symbol, CodeToken, Code, Scanning
  <2>2. QED
    BY <2>1 DEF comment, SafeInv, TypeOK, CommentInv
<1>5. CASE OpenString
  <2>1. /\ lastToken' = "other" /\ mode' \in {"scan", "string"} /\ UNCHANGED comment
    BY <1>5 DEF OpenString, CodeToken, Code, Scanning
  <2>2. QED
    BY <2>1 DEF comment, SafeInv, TypeOK, CommentInv
<1>6. CASE StringEscape \/ StringEnd \/ StringText
  BY <1>6 DEF StringEscape, StringEnd, StringText, InString, comment, strings, SafeInv,
              TypeOK, CommentInv
<1>7. CASE BlockComment
  <2>1. /\ mode' = "comment" /\ index < N /\ index' = index
        /\ opened' = [line |-> line, col |-> index - lineStart] /\ depth' = 0
        /\ UNCHANGED <<result, lastToken>> /\ Pair("/", "-", index)'
    BY <1>7 DEF BlockComment, Pair, place, strings
  <2>2. opened' \in [line : Nat, col : Nat]
    BY <1>0, <2>1
  <2>3. QED
    BY <1>0, <2>1, <2>2 DEF SafeInv, TypeOK, CommentInv
<1>8. CASE CommentOpens
  <2>1. /\ mode' = "comment" /\ index < N /\ index' = index + 2 /\ depth' = depth + 1
        /\ depth < index /\ UNCHANGED <<opened, result, lastToken>>
    BY <1>8 DEF CommentOpens, InComment, Pair, To, strings, SafeInv, PlaceInv
  <2>2. QED
    BY <1>0, <2>1 DEF SafeInv, TypeOK, CommentInv
<1>9. CASE CommentCloses
  <2>1. /\ mode = "comment" /\ index < N /\ index' = index + 2 /\ depth' = depth - 1
        /\ depth < index /\ depth > 0 /\ UNCHANGED <<opened, lastToken>>
    BY <1>9 DEF CommentCloses, InComment, Pair, To, strings, SafeInv, PlaceInv
  <2>2. CASE depth = 1
    <3>1. Record(index + 2)
      BY <1>9, <2>2 DEF CommentCloses
    <3>2. /\ result' \in Seq([line : Nat, col : Nat, close : Nat, cursor : Nat])
          /\ mode' = "scan"
      BY <1>0, <3>1, RecordType
    <3>3. QED
      BY <1>0, <2>1, <3>2 DEF SafeInv, TypeOK, CommentInv
  <2>3. CASE depth # 1
    <3>1. UNCHANGED <<mode, result>>
      BY <1>9, <2>3 DEF CommentCloses
    <3>2. QED
      BY <1>0, <2>1, <2>3, <3>1 DEF SafeInv, TypeOK, CommentInv
  <2>4. QED
    BY <2>2, <2>3
<1>10. CASE CommentText
  <2>1. /\ mode' = "comment" /\ mode = "comment" /\ index <= N /\ index' = index + 1
        /\ UNCHANGED <<depth, opened, result, lastToken>> /\ ~Pair("/", "-", index)
    BY <1>10 DEF CommentText, InComment, Plain, To, NextLine, comment, strings
  <2>2. QED
    BY <1>0, <2>1 DEF SafeInv, PlaceInv, TypeOK, CommentInv
<1>11. CASE CommentUnterminated
  <2>1. Record(index) /\ UNCHANGED <<depth, opened, lastToken>>
    BY <1>11 DEF CommentUnterminated, InComment, strings
  <2>2. /\ result' \in Seq([line : Nat, col : Nat, close : Nat, cursor : Nat])
        /\ mode' = "scan"
    BY <1>0, <2>1, RecordType
  <2>3. QED
    BY <1>0, <2>1, <2>2 DEF SafeInv, TypeOK, CommentInv
<1>12. QED
  BY <1>1, <1>2, <1>3, <1>4, <1>5, <1>6, <1>7, <1>8, <1>9, <1>10, <1>11 DEF Next

LEMMA SafeInit == Init => SafeInv
<1> SUFFICES ASSUME Init PROVE SafeInv
  OBVIOUS
<1>1. source \in Seq(STRING) /\ N \in Nat
  BY SourcesAssumption DEF Init, N
<1>2. TypeOK
  <2>1. opened \in [line : Nat, col : Nat]
    BY DEF Init
  <2>2. index \in 1 .. N + 2 /\ line \in 1 .. N + 1 /\ lineStart \in 1 .. N + 2 /\ depth \in 0 .. N
    BY <1>1 DEF Init
  <2>3. interpolations \in Seq(Nat) /\ result \in Seq([line : Nat, col : Nat, close : Nat, cursor : Nat])
    BY DEF Init
  <2>4. /\ mode \in {"scan", "comment", "string", "done"} /\ inLiteral \in BOOLEAN
        /\ lastToken \in {"none", "prefix", "other"}
    BY DEF Init
  <2>5. QED
    BY <1>1, <2>1, <2>2, <2>3, <2>4 DEF TypeOK
<1>3. InterpolationStack
  BY DEF Init, InterpolationStack, Top
<1>4. PlaceInv
  BY DEF Init, PlaceInv
<1>5. QED
  BY <1>2, <1>3, <1>4 DEF SafeInv

LEMMA SafeStep == SafeInv /\ [Next]_vars => SafeInv'
<1> SUFFICES ASSUME SafeInv, [Next]_vars PROVE SafeInv'
  OBVIOUS
<1>1. CASE Next
  <2>1. source' = source /\ N' = N /\ source' \in Seq(STRING)
    BY <1>1, SourceStep DEF SafeInv, TypeOK
  <2>2. /\ index' \in 1 .. N + 2
        /\ line' \in 1 .. N + 1 /\ line' <= index'
        /\ lineStart' \in 1 .. N + 2 /\ lineStart' <= index'
    BY <1>1, StepMoves, PlaceStep DEF SafeInv, PlaceInv
  <2>3. StackInv'
    BY <1>1, StackStep DEF SafeInv
  <2>4. CommentInv'
    BY <1>1, <2>1, CommentStep
  <2>5. QED
    BY <2>1, <2>2, <2>3, <2>4 DEF SafeInv, TypeOK, PlaceInv, StackInv, CommentInv
<1>2. CASE UNCHANGED vars
  BY <1>2 DEF vars, place, comment, strings, SafeInv, TypeOK, InterpolationStack, Top,
              PlaceInv, Pair, N
<1>3. QED
  BY <1>1, <1>2

LEMMA SafeAlways == Spec => []SafeInv
  BY SafeInit, SafeStep, PTL DEF Spec

\* The scanner stays in the file, or one escape past its end, and every counter keeps
\* its range.
THEOREM TypeCorrect == Spec => []TypeOK
<1>1. SafeInv => TypeOK
  BY DEF SafeInv
<1>2. QED
  BY <1>1, SafeAlways, PTL

\* A literal chunk always belongs to an innermost string at brace depth 0, and while
\* code is read every open string is inside a brace.
THEOREM InterpolationStackHolds == Spec => []InterpolationStack
<1>1. SafeInv => InterpolationStack
  BY DEF SafeInv
<1>2. QED
  BY <1>1, SafeAlways, PTL

-----------------------------------------------------------------------------
(* Lines. *)

\* The character literals that are read hold no newline: skip_character_literal does
\* not count it, so that the line number of other files drifts.
CharactersOnOneLine == [][CharacterLiteral => Clear(index, index')]_vars

\* The newlines before a position, which may be one behind the end or two.
Above(k) == {i \in 1 .. N : i < k /\ source[i] = NL}

LEMMA AboveNewlines ==
    ASSUME N \in Nat, NEW k \in 1 .. N + 1
    PROVE  Above(k) = NewlinesIn(1, k)
  BY DEF Above, NewlinesIn

LEMMA AboveFinite ==
    ASSUME N \in Nat, NEW k \in Nat
    PROVE  IsFiniteSet(Above(k)) /\ Cardinality(Above(k)) \in Nat
<1>1. IsFiniteSet(1 .. N)
  BY FS_Interval
<1>2. Above(k) \subseteq 1 .. N
  BY DEF Above
<1>3. IsFiniteSet(Above(k))
  BY <1>1, <1>2, FS_Subset
<1>4. QED
  BY <1>3, FS_CardinalityType

\* The greatest of some positions is the only one behind which there is none.
LEMMA LastOf ==
    ASSUME NEW S \in SUBSET Nat, NEW m \in S, \A j \in S : j <= m
    PROVE  Last(S) = m
<1>1. Last(S) \in S /\ \A j \in S : j <= Last(S)
  BY DEF Last
<1>2. Last(S) \in Nat /\ m \in Nat /\ Last(S) <= m /\ m <= Last(S)
  BY <1>1
<1>3. QED
  BY <1>2

\* What a line and its start have to be at a position.
LineAt(k) == 1 + Cardinality(Above(k))
StartAt(k) ==
    IF Above(k) = {} THEN 1 ELSE 1 + Last(Above(k))

LEMMA LineAccurateIs == LineAccurate <=> line = LineAt(index) /\ lineStart = StartAt(index)
  BY DEF LineAccurate, LineAt, StartAt, Above

LEMMA LineAccurateNext ==
    ASSUME source' = source, N' = N, line' = LineAt(index'), lineStart' = StartAt(index')
    PROVE  LineAccurate'
<1>1. {i \in 1 .. N' : i < index' /\ source'[i] = NL} = Above(index')
  BY DEF Above
<1>2. QED
  BY <1>1 DEF LineAccurate, LineAt, StartAt

\* A move along a line passes no newline.
LEMMA AlongLine ==
    ASSUME TypeOK, NEW end \in Nat, Along(end), Clear(index, end)
    PROVE  LineAt(end) = LineAt(index) /\ StartAt(end) = StartAt(index)
<1>1. ASSUME NEW i \in 1 .. N, i < end, source[i] = NL PROVE i < index
  BY <1>1, FileType DEF Along, Clear
<1>2. index <= end
  BY FileType DEF Along
<1>3. Above(end) = Above(index)
  BY <1>1, <1>2, FileType DEF Above
<1>4. QED
  BY <1>3 DEF LineAt, StartAt

\* A move to the next line passes one.
LEMMA DownLine ==
    ASSUME TypeOK, NEW end \in Nat, Down(end)
    PROVE  LineAt(end) = LineAt(index) + 1 /\ StartAt(end) = end
<1>1. /\ end \in index + 1 .. N + 1 /\ source[end - 1] = NL /\ end - 1 \in 1 .. N
      /\ Clear(index, end - 1)
  BY FileType DEF Down
<1>2. ASSUME NEW i \in 1 .. N, i < end, source[i] = NL PROVE i < index \/ i = end - 1
  BY <1>1, <1>2, FileType DEF Clear
<1>3. Above(end) = Above(index) \cup {end - 1} /\ end - 1 \notin Above(index)
  BY <1>1, <1>2, FileType DEF Above
<1>4. LineAt(end) = LineAt(index) + 1
  <2>1. IsFiniteSet(Above(index)) /\ Cardinality(Above(index)) \in Nat
    BY FileType, AboveFinite
  <2>2. Cardinality(Above(end)) = Cardinality(Above(index)) + 1
    BY <1>3, <2>1, FS_AddElement
  <2>3. QED
    BY <2>1, <2>2 DEF LineAt
<1>5. Above(end) \in SUBSET Nat /\ end - 1 \in Above(end) /\ \A j \in Above(end) : j <= end - 1
  BY <1>1, <1>3, FileType DEF Above
<1>6. Last(Above(end)) = end - 1
  BY <1>5, LastOf
<1>7. QED
  BY <1>1, <1>4, <1>5, <1>6 DEF StartAt

\* A move across several lines passes those of the span; the last one starts the line.
LEMMA AcrossLine ==
    ASSUME TypeOK, NEW from \in Nat, NEW end \in Nat, Across(from, end),
           line = LineAt(index), lineStart = StartAt(index)
    PROVE  line' = LineAt(end) /\ lineStart' = StartAt(end)
<1> DEFINE B == NewlinesIn(from, end)
           last == Last(B)
<1>1. /\ from \in index .. N + 1 /\ end \in from .. N + 1 /\ Clear(index, from)
      /\ line' = line + Cardinality(B)
      /\ lineStart' = IF B = {} THEN lineStart ELSE 1 + last
  BY DEF Across, Over
<1>2. N \in Nat /\ index \in 1 .. N + 1
  BY <1>1, FileType
<1>3. ASSUME NEW i \in 1 .. N, i < from, source[i] = NL PROVE i < index
  BY <1>1, <1>2, <1>3 DEF Clear
<1>4. Above(end) = Above(index) \cup B /\ Above(index) \cap B = {}
  BY <1>1, <1>2, <1>3 DEF Above, NewlinesIn
<1>5. line' = LineAt(end)
  <2>1. /\ IsFiniteSet(Above(index)) /\ Cardinality(Above(index)) \in Nat
        /\ IsFiniteSet(B) /\ Cardinality(B) \in Nat
    BY <1>1, <1>2, AboveFinite, NewlinesCount
  <2> HIDE DEF B
  <2>2. Cardinality(Above(end)) = Cardinality(Above(index)) + Cardinality(B) - Cardinality({})
    BY <1>4, <2>1, FS_Union
  <2>3. Cardinality({}) = 0
    BY FS_EmptySet
  <2>4. QED
    BY <1>1, <2>1, <2>2, <2>3 DEF LineAt
<1>6. CASE B = {}
  BY <1>1, <1>4, <1>5, <1>6 DEF StartAt
<1>7. CASE B # {}
  <2>1. last \in B /\ \A j \in B : j <= last
    BY <1>1, <1>2, <1>7, LastNewline
  <2> HIDE DEF last
  <2>2. last \in from .. end - 1 /\ last \in Nat
    BY <1>1, <2>1 DEF NewlinesIn
  <2>3. \A j \in Above(index) : j < last
    BY <1>1, <1>2, <2>2 DEF Above
  <2> HIDE DEF B
  <2>4. Above(end) \in SUBSET Nat /\ last \in Above(end) /\ \A j \in Above(end) : j <= last
    <3>1. Above(end) \in SUBSET Nat
      BY <1>2 DEF Above
    <3>2. last \in Above(end)
      BY <1>4, <2>1
    <3>3. ASSUME NEW j \in Above(end) PROVE j <= last
      <4>1. j \in Nat
        BY <3>1
      <4>2. j < last \/ j <= last
        BY <1>4, <2>1, <2>3
      <4>3. QED
        BY <2>2, <4>1, <4>2
    <3>4. QED
      BY <3>1, <3>2, <3>3
  <2>5. Last(Above(end)) = last
    BY <2>4, LastOf
  <2>6. StartAt(end) = 1 + last
    BY <2>4, <2>5 DEF StartAt
  <2>7. QED
    BY <1>1, <1>5, <1>7, <2>6
<1>8. QED
  BY <1>6, <1>7

LEMMA LineStep ==
    ASSUME SafeInv, LineAccurate, Next, CharacterLiteral => Clear(index, index')
    PROVE  LineAccurate'
<1>1. source' = source /\ N' = N /\ TypeOK
  BY SourceStep DEF SafeInv
<1>2. line = LineAt(index) /\ lineStart = StartAt(index)
  BY LineAccurateIs
<1>3. PICK end \in Nat : Along(end) \/ Down(end) \/ \E from \in Nat : Across(from, end)
  BY <1>1, StepMoves DEF Moves
<1>4. index' = end
  BY <1>3 DEF Along, To, Down, NextLine, Across, Over
<1>5. CASE Along(end)
  <2>1. Clear(index, end)
    BY <1>4, <1>5 DEF Along
  <2>2. line' = line /\ lineStart' = lineStart
    BY <1>5 DEF Along, To
  <2>3. line' = LineAt(index') /\ lineStart' = StartAt(index')
    BY <1>1, <1>2, <1>4, <1>5, <2>1, <2>2, AlongLine
  <2>4. QED
    BY <1>1, <2>3, LineAccurateNext
<1>6. CASE Down(end)
  <2>1. line' = line + 1 /\ lineStart' = end
    BY <1>6 DEF Down, NextLine
  <2>2. line' = LineAt(index') /\ lineStart' = StartAt(index')
    BY <1>1, <1>2, <1>4, <1>6, <2>1, DownLine
  <2>3. QED
    BY <1>1, <2>2, LineAccurateNext
<1>7. ASSUME NEW from \in Nat, Across(from, end) PROVE LineAccurate'
  <2>1. line' = LineAt(index') /\ lineStart' = StartAt(index')
    BY <1>1, <1>2, <1>4, <1>7, AcrossLine
  <2>2. QED
    BY <1>1, <2>1, LineAccurateNext
<1>8. QED
  BY <1>3, <1>5, <1>6, <1>7

LEMMA LineInit == Init => LineAccurate
<1> SUFFICES ASSUME Init PROVE LineAccurate
  OBVIOUS
<1>1. {i \in 1 .. N : i < index /\ source[i] = NL} = {}
  BY DEF Init
<1>2. QED
  BY <1>1, FS_EmptySet DEF Init, LineAccurate

LEMMA LineNext ==
    SafeInv /\ LineAccurate /\ [Next]_vars /\ [CharacterLiteral => Clear(index, index')]_vars
        => LineAccurate'
<1> SUFFICES ASSUME SafeInv, LineAccurate, [Next]_vars,
                    [CharacterLiteral => Clear(index, index')]_vars
             PROVE  LineAccurate'
  OBVIOUS
<1>1. CASE UNCHANGED vars
  BY <1>1 DEF vars, place, LineAccurate, N
<1>2. CASE ~UNCHANGED vars
  BY <1>2, LineStep
<1>3. QED
  BY <1>1, <1>2

LEMMA LineAlways == Spec /\ CharactersOnOneLine => []LineAccurate
  BY SafeAlways, LineInit, LineNext, PTL DEF Spec, CharactersOnOneLine

\* The line number and the start of the line are those of the file, wherever the
\* scanner is in a file whose character literals hold no newline.
THEOREM LineAccurateHolds == Spec /\ CharactersOnOneLine => []LineAccurate
  BY LineAlways

-----------------------------------------------------------------------------
(* Reports. *)

\* A comment opens at a position on a line, and at its start if its column is 0.
OpensAt(open, l, col) ==
    /\ Pair("/", "-", open)
    /\ l = 1 + Cardinality(NewlinesIn(1, open))
    /\ col = 0 => open = 1 \/ source[open - 1] = NL

\* A comment that was found has an opening, and its last line is that of its end.
Located(found) ==
    /\ \E open \in 1 .. N : OpensAt(open, found.line, found.col)
    /\ found.cursor \in 1 .. N + 1
    /\ found.close = 1 + Cardinality(NewlinesIn(1, found.cursor))

ReportInv ==
    /\ mode = "comment" => \E open \in 1 .. N : OpensAt(open, opened.line, opened.col)
    /\ \A i \in DOMAIN result : Located(result[i])

\* Where the scanner is, the line counter is the line of the position.
LEMMA LineHere ==
    ASSUME N \in Nat, LineAccurate, index \in 1 .. N + 1
    PROVE  /\ line = 1 + Cardinality(NewlinesIn(1, index))
           /\ lineStart = index => index = 1 \/ source[index - 1] = NL
<1>1. line = LineAt(index) /\ lineStart = StartAt(index) /\ Above(index) = NewlinesIn(1, index)
  BY LineAccurateIs, AboveNewlines
<1>2. line = 1 + Cardinality(NewlinesIn(1, index))
  BY <1>1 DEF LineAt
<1>3. ASSUME lineStart = index, index # 1 PROVE source[index - 1] = NL
  <2>1. CASE Above(index) = {}
    BY <1>1, <1>3, <2>1 DEF StartAt
  <2>2. CASE Above(index) # {}
    <3> DEFINE last == Last(NewlinesIn(1, index))
    <3>1. last \in NewlinesIn(1, index)
      BY <1>1, <2>2, LastNewline
    <3>2. lineStart = 1 + last
      BY <1>1, <2>2 DEF StartAt
    <3> HIDE DEF last
    <3>3. last = index - 1
      BY <1>3, <3>1, <3>2 DEF NewlinesIn
    <3>4. QED
      BY <3>1, <3>3 DEF NewlinesIn
  <2>3. QED
    BY <2>1, <2>2
<1>4. QED
  BY <1>2, <1>3

\* A comment is recorded with its opening and the line on which it ends.
LEMMA RecordLocated ==
    ASSUME SafeInv, ReportInv, mode = "comment", NEW cursor \in 1 .. N + 1, Record(cursor),
           line = 1 + Cardinality(NewlinesIn(1, cursor))
    PROVE  \A i \in DOMAIN result' : Located(result'[i])
<1> DEFINE new == [line |-> opened.line, col |-> opened.col, close |-> line, cursor |-> cursor]
<1>1. Located(new)
  BY DEF ReportInv, Located
<1>2. result' = Append(result, new) /\ Len(result) \in Nat /\ DOMAIN result = 1 .. Len(result)
  BY DEF Record, SafeInv, TypeOK
<1> HIDE DEF new
<1>3. /\ DOMAIN result' = 1 .. Len(result) + 1 /\ result'[Len(result) + 1] = new
      /\ \A i \in DOMAIN result : result'[i] = result[i]
  BY <1>2 DEF SafeInv, TypeOK
<1>4. \A i \in DOMAIN result : Located(result'[i])
  BY <1>3 DEF ReportInv
<1>5. QED
  BY <1>1, <1>2, <1>3, <1>4

\* What is found stays where it is in the file.
LEMMA ReportNext ==
    ASSUME source' = source, N' = N,
           mode' = "comment" => \E open \in 1 .. N : OpensAt(open, opened'.line, opened'.col),
           \A i \in DOMAIN result' : Located(result'[i])
    PROVE  ReportInv'
<1>1. \A end : NewlinesIn(1, end)' = NewlinesIn(1, end)
  BY DEF NewlinesIn
<1>2. \A open : Pair("/", "-", open)' <=> Pair("/", "-", open)
  BY DEF Pair
<1>3. \A open, l, col : OpensAt(open, l, col)' <=> OpensAt(open, l, col)
  BY <1>1, <1>2 DEF OpensAt
<1>4. \A found : Located(found)' <=> Located(found)
  BY <1>1, <1>3 DEF Located
<1>5. QED
  BY <1>3, <1>4 DEF ReportInv

\* The line counter after a step is the line of the position it moves to.
LEMMA LineThere ==
    ASSUME source' = source, N' = N, N \in Nat, LineAccurate', index' \in 1 .. N + 1
    PROVE  line' = 1 + Cardinality(NewlinesIn(1, index'))
<1>1. {i \in 1 .. N' : i < index' /\ source'[i] = NL} = NewlinesIn(1, index')
  BY DEF NewlinesIn
<1>2. QED
  BY <1>1 DEF LineAccurate

LEMMA ReportStep ==
    ASSUME SafeInv, LineAccurate, LineAccurate', ReportInv, Next
    PROVE  ReportInv'
<1>0. /\ source' = source /\ N' = N /\ N \in Nat /\ index \in 1 .. N + 2
      /\ lineStart \in Nat
  BY SourceStep, FileType DEF SafeInv, TypeOK
<1>1. CASE UNCHANGED comment /\ mode' # "comment"
  BY <1>0, <1>1, ReportNext DEF comment, ReportInv
<1>2. CASE BlockComment
  <2>1. /\ opened' = [line |-> line, col |-> index - lineStart] /\ result' = result
        /\ Pair("/", "-", index) /\ index \in 1 .. N
    BY <1>0, <1>2 DEF BlockComment, Pair
  <2>2. OpensAt(index, opened'.line, opened'.col)
    <3>1. /\ line = 1 + Cardinality(NewlinesIn(1, index))
          /\ lineStart = index => index = 1 \/ source[index - 1] = NL
      BY <1>0, <2>1, LineHere
    <3>2. opened'.col = 0 => lineStart = index
      BY <1>0, <2>1
    <3>3. QED
      BY <2>1, <3>1, <3>2 DEF OpensAt
  <2>3. QED
    BY <1>0, <2>1, <2>2, ReportNext DEF ReportInv
<1>3. CASE CommentOpens \/ CommentText
  <2>1. mode = "comment" /\ UNCHANGED <<opened, result>>
    BY <1>3 DEF CommentOpens, CommentText, InComment, comment
  <2>2. QED
    BY <1>0, <2>1, ReportNext DEF ReportInv
<1>4. CASE CommentCloses
  <2>1. /\ mode = "comment" /\ index < N /\ index' = index + 2 /\ line' = line
    BY <1>4 DEF CommentCloses, InComment, Pair, To
  <2>2. CASE depth = 1
    <3>1. Record(index') /\ mode' = "scan" /\ index' \in 1 .. N + 1
      BY <1>0, <1>4, <2>1, <2>2 DEF CommentCloses, Record
    <3>2. line = 1 + Cardinality(NewlinesIn(1, index'))
      BY <1>0, <2>1, <3>1, LineThere
    <3>3. \A i \in DOMAIN result' : Located(result'[i])
      BY <2>1, <3>1, <3>2, RecordLocated
    <3>4. QED
      BY <1>0, <3>1, <3>3, ReportNext
  <2>3. CASE depth # 1
    <3>1. UNCHANGED <<mode, opened, result>>
      BY <1>4, <2>3 DEF CommentCloses
    <3>2. QED
      BY <1>0, <2>1, <3>1, ReportNext DEF ReportInv
  <2>4. QED
    BY <2>2, <2>3
<1>5. CASE CommentUnterminated
  <2>1. mode = "comment" /\ Record(index) /\ mode' = "scan" /\ index \in 1 .. N + 1
    BY <1>0, <1>5 DEF CommentUnterminated, InComment, Record, SafeInv, PlaceInv
  <2>2. line = 1 + Cardinality(NewlinesIn(1, index))
    BY <1>0, <2>1, LineHere
  <2>3. \A i \in DOMAIN result' : Located(result'[i])
    BY <2>1, <2>2, RecordLocated
  <2>4. QED
    BY <1>0, <2>1, <2>3, ReportNext
<1>6. CASE Newline \/ LineComment
  BY <1>1, <1>6 DEF Newline, LineComment, Code, Scanning
<1>7. CASE LiteralEscape \/ LiteralEnd \/ LiteralBrace \/ LiteralText
  BY <1>1, <1>7 DEF LiteralEscape, LiteralEnd, LiteralBrace, LiteralText, Literal, Scanning
<1>8. CASE RawString \/ OpenString \/ CharacterLiteral \/ Identifier \/ QuotedIdentifier
           \/ Symbol
  BY <1>1, <1>8 DEF RawString, OpenString, CharacterLiteral, Identifier, QuotedIdentifier,
                    Symbol, CodeToken, Code, Scanning
<1>9. CASE StringEscape \/ StringEnd \/ StringText
  BY <1>1, <1>9 DEF StringEscape, StringEnd, StringText, InString
<1>10. CASE Finish
  BY <1>1, <1>10 DEF Finish
<1>11. QED
  BY <1>2, <1>3, <1>4, <1>5, <1>6, <1>7, <1>8, <1>9, <1>10 DEF Next

LEMMA ReportInit == Init => ReportInv
  BY DEF Init, ReportInv

LEMMA ReportAlwaysStep ==
    SafeInv /\ LineAccurate /\ LineAccurate' /\ ReportInv /\ [Next]_vars => ReportInv'
<1> SUFFICES ASSUME SafeInv, LineAccurate, LineAccurate', ReportInv, [Next]_vars
             PROVE  ReportInv'
  OBVIOUS
<1>1. CASE Next
  BY <1>1, ReportStep
<1>2. CASE UNCHANGED vars
  BY <1>2, ReportNext DEF vars, comment, N, ReportInv
<1>3. QED
  BY <1>1, <1>2

LEMMA ReportReports == ReportInv => ReportsAreLocated
<1> SUFFICES ASSUME ReportInv, NEW i \in Reported
             PROVE  \E open \in 1 .. N :
                       /\ Pair("/", "-", open)
                       /\ open = 1 \/ source[open - 1] = NL
                       /\ result[i].line = 1 + Cardinality(NewlinesIn(1, open))
                       /\ result[i].close = 1 + Cardinality(NewlinesIn(1, result[i].cursor))
  BY DEF ReportsAreLocated
<1>1. Located(result[i]) /\ result[i].col = 0
  BY DEF Reported, ReportInv
<1>2. QED
  BY <1>1 DEF Located, OpensAt

\* In a file whose character literals hold no newline, every report names the line of
\* the comment's end, and its opening stands at the start of the line it gives.
THEOREM ReportsAreLocatedHolds == Spec /\ CharactersOnOneLine => []ReportsAreLocated
<1>1. Spec /\ CharactersOnOneLine => []ReportInv
  BY SafeAlways, LineAlways, ReportInit, ReportAlwaysStep, PTL DEF Spec
<1>2. QED
  BY <1>1, ReportReports, PTL

-----------------------------------------------------------------------------
(* Progress. *)

\* The changes of mode that are possible at one position: from code to a comment, or at
\* the end of the file from an open comment or string to code and from code to the end.
Changes ==
    IF mode = "done" THEN 0
    ELSE IF mode = "scan" THEN 1
    ELSE IF index > N THEN 2 ELSE 0

\* What is left to do.
Work == 3 * (N + 2 - index) + Changes

LEMMA OverMoves == ASSUME NEW from, NEW end, Over(from, end) PROVE index' = end
  BY DEF Over

LEMMA LineCommentOnward ==
    ASSUME TypeOK, LineComment
    PROVE  index' > index
<1> DEFINE newlines == {i \in index .. N : source[i] = NL}
<1>1. newlines \in SUBSET (1 .. N)
  BY FileType
<1>2. First(newlines) \in newlines \cup {N + 1}
  BY <1>1, FileType, FirstPosition
<1>3. index <= N /\ source[index] # NL /\ index' = First(newlines)
  BY FileType DEF LineComment, Pair, To, NL
<1> HIDE DEF newlines
<1>4. CASE First(newlines) = N + 1
  BY <1>3, <1>4, FileType
<1>5. CASE First(newlines) \in newlines
  <2>1. First(newlines) \in index .. N /\ First(newlines) # index
    BY <1>3, <1>5 DEF newlines
  <2>2. QED
    BY <1>3, <2>1, FileType
<1>6. QED
  BY <1>2, <1>4, <1>5

LEMMA IdentifierOnward ==
    ASSUME TypeOK, Identifier
    PROVE  index' > index
<1> DEFINE others == {i \in index + 1 .. N : ~IdentifierTail(i) /\ source[i] # "."}
<1>1. others \in SUBSET (1 .. N)
  BY FileType
<1>2. First(others) \in others \cup {N + 1}
  BY <1>1, FileType, FirstPosition
<1>3. index <= N /\ index' = First(others)
  BY FileType DEF Identifier, CodeToken, Code, Scanning, To
<1> HIDE DEF others
<1>4. First(others) \in index + 1 .. N + 1
  BY <1>2, <1>3, FileType DEF others
<1>5. QED
  BY <1>3, <1>4, FileType

LEMMA QuotedIdentifierOnward ==
    ASSUME TypeOK, QuotedIdentifier
    PROVE  index' > index
<1> DEFINE quotes == {i \in index .. N : source[i] = Guillemets[2]}
           end == IF First(quotes) > N THEN N + 1 ELSE First(quotes) + 1
<1>1. quotes \in SUBSET (1 .. N)
  BY FileType
<1>2. First(quotes) \in quotes \cup {N + 1}
  BY <1>1, FileType, FirstPosition
<1>3. index <= N /\ Over(index, end)
  BY FileType DEF QuotedIdentifier, Char
<1>4. end > index
  BY <1>2, <1>3, FileType
<1> HIDE DEF end
<1>5. QED
  BY <1>3, <1>4, OverMoves

LEMMA RawStringOnward ==
    ASSUME TypeOK, RawString
    PROVE  index' > index
<1> DEFINE from == index + 1 + Hashes
           closings == {i \in from + 1 .. N : RawEnd(i)}
           closing == First(closings)
           end == IF closing > N THEN N + 1 ELSE closing + 1 + Hashes
<1>1. index <= N /\ Over(from, end)
  <2>1. index <= N
    BY DEF RawString, CodeToken, Code, Scanning
  <2>2. Over(from, end)
    BY DEF RawString
  <2>3. QED
    BY <2>1, <2>2
<1>2. Hashes \in 0 .. N - index
  BY <1>1, HashesType
<1>3. closings \in SUBSET (1 .. N)
  BY <1>2, FileType
<1> HIDE DEF closing
<1>4. closing \in closings \cup {N + 1}
  BY <1>3, FileType, FirstPosition DEF closing
<1>5. end > index
  BY <1>1, <1>2, <1>4, FileType
<1> HIDE DEF end, from
<1>6. QED
  BY <1>1, <1>5, OverMoves

\* Every step reads on, but for the changes of mode that Work counts.
LEMMA StepOnward ==
    ASSUME TypeOK, Next
    PROVE  \/ index' > index
           \/ BlockComment
           \/ (CommentUnterminated \/ StringEnd) /\ index > N /\ index' = index
           \/ Finish
<1>0. index \in Nat /\ N \in Nat
  BY FileType
<1>1. CASE Newline
  BY <1>0, <1>1 DEF Newline, NextLine
<1>2. CASE LiteralEscape \/ StringEscape
  BY <1>0, <1>2 DEF LiteralEscape, StringEscape, Escape, To, NextLine
<1>3. CASE LiteralEnd \/ LiteralBrace \/ LiteralText
  BY <1>0, <1>3 DEF LiteralEnd, LiteralBrace, LiteralText, To
<1>4. CASE LineComment
  BY <1>4, LineCommentOnward
<1>5. CASE CommentOpens \/ CommentCloses
  BY <1>0, <1>5 DEF CommentOpens, CommentCloses, To
<1>6. CASE CommentText \/ StringText
  BY <1>0, <1>6 DEF CommentText, StringText, Plain, To, NextLine
<1>7. CASE CommentUnterminated
  BY <1>7 DEF CommentUnterminated, place
<1>8. CASE RawString
  BY <1>8, RawStringOnward
<1>9. CASE OpenString \/ Symbol
  BY <1>0, <1>9 DEF OpenString, Symbol, To
<1>10. CASE StringEnd
  BY <1>0, <1>10 DEF StringEnd, To
<1>11. CASE CharacterLiteral
  <2>1. index <= N /\ CharacterEnd # 0 /\ index' = CharacterEnd
    BY <1>11 DEF CharacterLiteral, IsCharacter, Char, To
  <2>2. QED
    BY <1>0, <2>1, CharacterEndType
<1>12. CASE Identifier
  BY <1>12, IdentifierOnward
<1>13. CASE QuotedIdentifier
  BY <1>13, QuotedIdentifierOnward
<1>14. QED
  BY <1>1, <1>2, <1>3, <1>4, <1>5, <1>6, <1>7, <1>8, <1>9, <1>10, <1>11, <1>12, <1>13
     DEF Next

\* A character that is read outweighs the changes of mode.
LEMMA Outweighs ==
    ASSUME NEW n \in Nat, NEW i \in 1 .. n + 2, NEW j \in 1 .. n + 2,
           NEW c \in 0 .. 2, NEW d \in 0 .. 2
    PROVE  /\ 3 * (n + 2 - j) + d \in Nat
           /\ j > i => 3 * (n + 2 - j) + d < 3 * (n + 2 - i) + c
<1>1. n + 2 - j \in Nat /\ n + 2 - i \in Nat /\ c \in Nat /\ d \in Nat /\ d <= 2
  OBVIOUS
<1>2. j > i => n + 2 - j + 1 <= n + 2 - i
  OBVIOUS
<1> DEFINE a == n + 2 - j
           b == n + 2 - i
<1> HIDE DEF a, b
<1>3. a \in Nat /\ b \in Nat /\ (j > i => a + 1 <= b)
  BY <1>1, <1>2 DEF a, b
<1>4. 3 * a + d \in Nat /\ (j > i => 3 * a + d < 3 * b + c)
  BY <1>1, <1>3
<1>5. QED
  BY <1>4 DEF a, b

LEMMA WorkStep ==
    ASSUME SafeInv, SafeInv', Next
    PROVE  Work' \in Nat /\ Work' < Work
<1>1. /\ N' = N /\ N \in Nat /\ index \in 1 .. N + 2 /\ index' \in 1 .. N + 2
  BY SourceStep, FileType DEF SafeInv, TypeOK
<1>2. /\ Work' = 3 * (N + 2 - index') + Changes' /\ Changes' \in 0 .. 2
      /\ Work = 3 * (N + 2 - index) + Changes /\ Changes \in 0 .. 2
  BY <1>1 DEF Work, Changes
<1>3. Work' \in Nat
  BY <1>1, <1>2, Outweighs
<1>4. CASE index' > index
  BY <1>1, <1>2, <1>3, <1>4, Outweighs
<1>5. CASE BlockComment
  <2>1. mode = "scan" /\ mode' = "comment" /\ index' = index /\ index < N
    BY <1>5 DEF BlockComment, Code, Scanning, Pair, place
  <2>2. QED
    BY <1>1, <1>2, <2>1 DEF Changes
<1>6. CASE (CommentUnterminated \/ StringEnd) /\ index > N /\ index' = index
  <2>1. mode \in {"comment", "string"} /\ mode' = "scan"
    BY <1>6 DEF CommentUnterminated, InComment, Record, StringEnd, InString
  <2>2. QED
    BY <1>1, <1>2, <1>6, <2>1 DEF Changes
<1>7. CASE Finish
  <2>1. mode = "scan" /\ mode' = "done" /\ index' = index
    BY <1>7 DEF Finish, place
  <2>2. QED
    BY <1>1, <1>2, <2>1 DEF Changes
<1>8. QED
  BY <1>3, <1>4, <1>5, <1>6, <1>7, StepOnward DEF SafeInv

\* The safety half of Terminates: every round of the loops of block_comments, skip_string
\* and the others leaves less to do, so that no file of N characters keeps the scanner
\* for more than 3N + 4 steps; none of the loops can go round without moving on.
THEOREM ScannerAdvances == Spec => [][Work' \in Nat /\ Work' < Work]_vars
<1>1. SafeInv /\ SafeInv' /\ [Next]_vars => [Work' \in Nat /\ Work' < Work]_vars
  BY WorkStep
<1>2. QED
  BY <1>1, SafeAlways, PTL DEF Spec
=============================================================================
