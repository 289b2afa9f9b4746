----------------------------- MODULE GuideNames -----------------------------
(***************************************************************************)
(* The declaration names that the guides cite, as check-doc-names.py       *)
(* --resolve reads them.                                                   *)
(*                                                                         *)
(* A document is a sequence of lines.  A line is text, a table row, the    *)
(* separator under a table's header, or the mark of a fenced block; it     *)
(* holds cells, text a single one, and a cell is a sequence of tokens: a   *)
(* code span with its name, an arrow, a closing parenthesis or a word.     *)
(***************************************************************************)
EXTENDS Naturals, Sequences

CONSTANTS
    Targets,        \* the Lake targets and keywords
    RetiredNames,   \* the names that the codemod's tables retire
    CodemodTargets  \* the current names that those tables and hints cite

\* the marks of three backticks and of three tildes
Marks == {"backticks", "tildes"}

Span(name) == [kind |-> "span", name |-> name]
Word(name) == [kind |-> "word", name |-> name]
Arrow == [kind |-> "arrow", name |-> ""]
Close == [kind |-> "close", name |-> ""]

Text(tokens) == [kind |-> "text", cells |-> <<tokens>>]
Row(cells) == [kind |-> "row", cells |-> cells]
Separator == [kind |-> "separator", cells |-> <<>>]
Fence(mark) == [kind |-> mark, cells |-> <<>>]

Holds(cell, token) == \E j \in DOMAIN cell : cell[j] = token

\* a line that says its names are retired, and a header of current names
RetiredContext(line) ==
    \E k \in DOMAIN line.cells : \E w \in {"legacy", "retired"} : Holds(line.cells[k], Word(w))
CurrentHeader(cell) == \E w \in {"replacement", "current", "fix"} : Holds(cell, Word(w))

\* the lines outside fenced blocks; a block ends at the mark that opened it
Live(lines) ==
    LET fence[i \in 1 .. Len(lines) + 1] ==
            IF i = 1 THEN "none"
            ELSE IF lines[i - 1].kind \notin Marks THEN fence[i - 1]
            ELSE IF fence[i - 1] = "none" THEN lines[i - 1].kind
            ELSE IF fence[i - 1] = lines[i - 1].kind THEN "none"
            ELSE fence[i - 1]
    IN {i \in DOMAIN lines : lines[i].kind \notin Marks /\ fence[i] = "none"}

\* code_spans: the spans of an ordinary guide, each with its line, cell and position
CodeSpans(lines) ==
    UNION {UNION {{[line |-> i, cell |-> k, at |-> j] :
                        j \in {j \in DOMAIN lines[i].cells[k] : lines[i].cells[k][j].kind = "span"}} :
                  k \in DOMAIN lines[i].cells} :
           i \in Live(lines)}

NameOf(lines, s) == lines[s.line].cells[s.cell][s.at].name

KindAt(lines, i) == IF i \in DOMAIN lines THEN lines[i].kind ELSE "end"

IsHeader(lines, i) == lines[i].kind = "row" /\ KindAt(lines, i + 1) = "separator"

\* current_columns after line i
CurrentColumns(lines) ==
    LET columns[i \in 0 .. Len(lines)] ==
            IF i = 0 THEN {}
            ELSE IF i \notin Live(lines) THEN columns[i - 1]
            ELSE IF lines[i].kind = "text" THEN {}
            ELSE IF IsHeader(lines, i)
                 THEN {k \in DOMAIN lines[i].cells : CurrentHeader(lines[i].cells[k])}
            ELSE columns[i - 1]
    IN columns

StartsWithArrow(tokens) ==
    \/ tokens # <<>> /\ tokens[1] = Arrow
    \/ Len(tokens) > 1 /\ tokens[1] = Close /\ tokens[2] = Arrow

\* what follows a span in its cell; in text, the next line when nothing does
Following(lines, s) ==
    LET cell == lines[s.line].cells[s.cell]
        rest == SubSeq(cell, s.at + 1, Len(cell))
    IN IF rest = <<>> /\ lines[s.line].kind = "text" /\ KindAt(lines, s.line + 1) = "text"
       THEN lines[s.line + 1].cells[1] ELSE rest

\* guide_spans: those of the migration guide that name current declarations
GuideSpans(lines) ==
    {s \in CodeSpans(lines) :
        LET columns == CurrentColumns(lines)[s.line]
        IN /\ ~IsHeader(lines, s.line)
           /\ lines[s.line].kind = "row" /\ columns # {} => s.cell \in columns
           /\ ~StartsWithArrow(Following(lines, s))}

\* collect_tokens and codemod_targets, for an ordinary guide and the migration guide
Tokens(guide, migration) ==
    LET here == {s \in CodeSpans(guide) :
                    ~(NameOf(guide, s) \in RetiredNames /\ RetiredContext(guide[s.line]))}
        there == {s \in GuideSpans(migration) : NameOf(migration, s) \notin RetiredNames}
    IN (({NameOf(guide, s) : s \in here} \cup {NameOf(migration, s) : s \in there}) \ Targets)
       \cup CodemodTargets

\* check_retired, for an ordinary guide: a retired name on a line that does not
\* say so, wherever it stands
NamesRetired(guide) ==
    \E i \in DOMAIN guide :
        /\ ~RetiredContext(guide[i])
        /\ \E k \in DOMAIN guide[i].cells : \E j \in DOMAIN guide[i].cells[k] :
               guide[i].cells[k][j].name \in RetiredNames

\* Faulty variant of CheckPasses: entries of the allowlist that resolve are let be.
CheckPassesLeftover(guide, tokens, declared, allowlist) ==
    /\ ~NamesRetired(guide)
    /\ (tokens \ declared) \ allowlist = {}

\* main with --resolve, exit code 0, when the tokens have been collected: the
\* allowlist holds the unresolved ones
CheckPasses(guide, tokens, declared, allowlist) ==
    LET unresolved == tokens \ declared
    IN /\ ~NamesRetired(guide)
       /\ unresolved \ allowlist = {}
       /\ allowlist \ unresolved = {}

-----------------------------------------------------------------------------
(* The same documents as their author sees them: a sequence of blocks, each  *)
(* a paragraph of text lines, a fenced block, or a table with its header.    *)

Paragraph(texts) == [type |-> "paragraph", mark |-> "", header |-> <<>>, body |-> texts]
Fenced(mark, body) == [type |-> "fenced", mark |-> mark, header |-> <<>>, body |-> body]
Table(header, rows) == [type |-> "table", mark |-> "", header |-> header, body |-> rows]

RenderBlock(b) ==
    CASE b.type = "paragraph" -> [i \in DOMAIN b.body |-> Text(b.body[i])] \o <<Text(<<>>)>>
      [] b.type = "fenced" -> <<Fence(b.mark)>> \o b.body \o <<Fence(b.mark)>>
      [] b.type = "table" -> <<Row(b.header), Separator>> \o [i \in DOMAIN b.body |-> Row(b.body[i])]

Render(blocks) ==
    LET upto[n \in 0 .. Len(blocks)] ==
            IF n = 0 THEN <<>> ELSE upto[n - 1] \o RenderBlock(blocks[n])
    IN upto[Len(blocks)]

SpansOf(tokens) == {tokens[j].name : j \in {j \in DOMAIN tokens : tokens[j].kind = "span"}}

\* the names of a cell or a paragraph that no arrow leads away from
CurrentOf(tokens) ==
    {tokens[j].name : j \in {j \in DOMAIN tokens :
        tokens[j].kind = "span" /\ ~StartsWithArrow(SubSeq(tokens, j + 1, Len(tokens)))}}

Flat(texts) ==
    LET upto[n \in 0 .. Len(texts)] == IF n = 0 THEN <<>> ELSE upto[n - 1] \o texts[n]
    IN upto[Len(texts)]

\* the names that a block of an ordinary guide cites, those it calls retired aside
Cites(b) ==
    LET lines == RenderBlock(b)
    IN IF b.type = "fenced" THEN {}
       ELSE UNION {(UNION {SpansOf(lines[i].cells[k]) : k \in DOMAIN lines[i].cells})
                     \ (IF RetiredContext(lines[i]) THEN RetiredNames ELSE {}) : i \in DOMAIN lines}

\* the names that a block of the migration guide offers
Offers(b) ==
    CASE b.type = "paragraph" -> CurrentOf(Flat(b.body))
      [] b.type = "fenced" -> {}
      [] b.type = "table" ->
            LET current == {k \in DOMAIN b.header : CurrentHeader(b.header[k])}
                columns == IF current = {} THEN DOMAIN b.header ELSE current
            IN UNION {CurrentOf(b.body[i][k]) : i \in DOMAIN b.body, k \in columns}

\* the names that must resolve
Cited(guide, migration) ==
    LET offered == UNION {Offers(migration[n]) : n \in DOMAIN migration}
        cited == UNION {Cites(guide[n]) : n \in DOMAIN guide}
    IN ((cited \cup (offered \ RetiredNames)) \ Targets) \cup CodemodTargets
=============================================================================
