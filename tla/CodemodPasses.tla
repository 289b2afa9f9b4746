---------------------------- MODULE CodemodPasses ----------------------------
(***************************************************************************)
(* The rewriting passes of scripts/migrate-native-probability.py, which    *)
(* carries a Lean file from the discrete probability API to the measure    *)
(* API, as operators on texts.                                             *)
(*                                                                         *)
(* The tables of names are represented by one entry of each shape the      *)
(* passes tell apart: a plain name, a dotted one, a name that moves into a *)
(* namespace, a module with several successors.  A dotted name is a        *)
(* sequence of names and "."; a backtick touches the token after it        *)
(* ("tick_") or the one before it ("_tick").                               *)
(***************************************************************************)
EXTENDS LeanText, SequencesExt

\* the old name and its replacement, the longest old names first
RENAMES ==
    << [old |-> <<"AdvBound", ".", "of_gameEquiv">>, new |-> <<"AdvBound", ".", "of_evalDistEq">>],
       [old |-> <<"probOutput_bind_eq_tsum">>, new |-> <<"OracleComp", ".", "prEvent_bind_eq_tsum">>],
       [old |-> <<"probFailure">>, new |-> <<"prFail">>],
       [old |-> <<"GameEquiv">>, new |-> <<"EvalDistEq">>] >>

\* the qualifiers of the new names
NAMESPACE_PREFIXES == << <<"OracleComp", ".">>, <<"AdvBound", ".">> >>

\* these become `(new _)`
EXPLICIT_COMPUTATION_RENAMES == [probEvent_le_one |-> "prEvent_le_one"]

\* reported by name, not rewritten
REPORT_NAMES == {"hvzkBoundReal", "prEvent_le_one"}

MODULES ==
    [m \in {"VCVio.OracleComp.EvalDist.UniformCompatibility", "VCVio.Native",
            "ToMathlib.ProbabilityTheory.SPMF"} |->
        CASE m = "VCVio.Native" -> <<"VCVio.Foundations">>
          [] m = "ToMathlib.ProbabilityTheory.SPMF" -> <<>>
          [] OTHER -> <<"VCVio.OracleComp.EvalDist.Measure",
                        "VCVio.OracleComp.EvalDist.AnswerMeasure">>]

REMOVED_NAMESPACES == {"OracleComp.EvalDist"}

\* removed lemmas a hint is known for
LEGACY_HINTS == {"probEvent_compl", "neverFail_iff"}

\* the legacy heads, the legacy lemma names, and a measurable structure on every
\* answer type that is no instance binder
LEGACY_TOKENS ==
    [head |-> {"probOutput", "probEvent", "NeverFail"},
     lemma |-> {"probEvent_compl", "probEvent_le_one", "probOutput_bind_eq_tsum"},
     other |-> {"S[", "measurable"}]

\* `[an instance for every answer type]`
AnswerBinder == "[measurable]"

Punctuation ==
    Opening \cup Closing \cup Blank \cup LEGACY_TOKENS.other \cup
    {Quote, "--", "/-", "-/", "=", "hole", "bot", "|", "<-", "=>", ":", ";", ".", "tick_", "_tick",
     "0", "+", "=d", "==p", AnswerBinder}

\* a token of \w characters that starts with no digit, and one of \w characters
Identifier(t) == t \notin Punctuation
Word(t) == Identifier(t) \/ t = "0"

At(s, j) == IF j \in 1 .. Len(s) THEN s[j] ELSE NL
From(s, j) == SubSeq(s, j, Len(s))

\* the first position from j on that holds no blank
SkipBlank(s, j) == Len(s) + 1 - Len(LeftStrip(From(s, j)))

-----------------------------------------------------------------------------
(* Terms. *)

\* the positions outside brackets, strings and comments counting as text
TopPositions(s) ==
    {j \in 1 .. Len(s) :
        /\ s[j] \notin Opening \cup Closing
        /\ LET before == SubSeq(s, 1, j - 1)
           IN Len(SelectSeq(before, LAMBDA t : t \in Opening))
                = Len(SelectSeq(before, LAMBDA t : t \in Closing))}

\* the first occurrence of t outside brackets, or 0 where the code returns -1
TopLevel(s, t) ==
    LET found == {j \in TopPositions(s) : s[j] = t}
    IN IF found = {} THEN 0 ELSE CHOOSE j \in found : \A k \in found : j <= k

RECURSIVE SplitTopLevel(_, _)
SplitTopLevel(s, sep) ==
    LET k == TopLevel(s, sep)
    IN IF k = 0 THEN <<s>>
       ELSE <<SubSeq(s, 1, k - 1)>> \o SplitTopLevel(From(s, k + 1), sep)

\* the opening tokens that are one bracket
Bracket == {"(", "[", "{", "<"}

\* one bracket group
Group(term, opening) ==
    term # <<>> /\ term[1] \in opening /\ MatchClose(term, 1) = Len(term)

IsParenthesized(term) == Group(term, {"("})

RECURSIVE StripParens(_)
StripParens(term) ==
    IF IsParenthesized(Strip(term)) THEN StripParens(SubSeq(Strip(term), 2, Len(Strip(term)) - 1))
    ELSE Strip(term)

Dotted(term) ==
    Len(term) % 2 = 1 /\ \A j \in DOMAIN term : IF j % 2 = 1 THEN Identifier(term[j]) ELSE term[j] = "."

IsAtomic(term) ==
    Dotted(Strip(term)) \/ Group(Strip(term), Bracket)

\* a term whose first bracket has no partner, for which match_close raises
Raises(term, opening) ==
    LET t == Strip(term) IN t # <<>> /\ t[1] \in opening /\ MatchClose(t, 1) = 0

\* an identifier applied to identifiers and bracket groups
RECURSIVE OutsideGroups(_)
OutsideGroups(term) ==
    IF term = <<>> THEN <<>>
    ELSE IF term[1] \notin Opening THEN <<term[1]>> \o OutsideGroups(Tail(term))
    ELSE IF MatchClose(term, 1) = 0 THEN <<"|">>
    ELSE (IF term[1] \in Bracket THEN <<>> ELSE <<"Pr">>) \o OutsideGroups(From(term, MatchClose(term, 1) + 1))

PlainApplication(term) ==
    LET rest == Strip(OutsideGroups(Strip(term)))
    IN \/ IsAtomic(term)
       \/ /\ rest # <<>> /\ Identifier(rest[1])
          /\ \A j \in DOMAIN rest : Word(rest[j]) \/ rest[j] \in Blank \cup {"."}

Candidates == <<"x", "y", "z", "w", "v", "u", "a", "b">>

\* Faulty variant of FreshName: the first candidate, whether it occurs or not
FreshNameFixed(s, t) == Candidates[1]

\* a name that occurs in neither term
FreshName(s, t) ==
    Candidates[CHOOSE i \in DOMAIN Candidates :
        /\ Candidates[i] \notin ToSet(s) \cup ToSet(t)
        /\ \A k \in 1 .. i - 1 : Candidates[k] \in ToSet(s) \cup ToSet(t)]

Parens(term) == <<"(">> \o term \o <<")">>

\* the do statement that draws
Draw(binder, comp) ==
    LET c == Strip(comp)
    IN <<"let">> \o binder \o <<"<-">> \o
       (IF Contains(c, NL) /\ ~IsParenthesized(c) THEN Parens(c) ELSE c)

Native(binder, comp, body) ==
    <<"Pr{">> \o Draw(binder, comp) \o <<"}", "[">> \o body \o <<"]">>

Singleton(comp, value) ==
    LET x == FreshName(comp, value) IN Native(<<x>>, comp, <<x, "=">> \o value)

-----------------------------------------------------------------------------
(* Legacy events. *)

\* the binder and the body of `fun binder => body`, also with a type; the empty
\* record when the term is no such function
FunParts(s) ==
    LET typed == IF At(s, 2) = "(" /\ Len(s) > 3 /\ s[4] = ":" /\ Word(s[3])
                 THEN MatchClose(s, 2) ELSE 0
        pattern == IF At(s, 2) = "<" THEN FirstFrom(s, ">", 2, 0) ELSE 0
        single == IF At(s, 2) \in Blank \cup {":", "(", ")"} \/ Len(s) < 2 THEN 0 ELSE 2
        last == IF pattern > 0 THEN pattern ELSE single
        ascribed == FirstFrom(s, "=>", last, 0)
        arrow == IF typed > 0 /\ At(s, typed + 1) = "=>" THEN typed + 1
                 ELSE IF last = 0 \/ ascribed = 0 THEN 0
                 ELSE IF ascribed = last + 1 THEN ascribed
                 ELSE IF s[last + 1] = ":" /\ ascribed > last + 2
                         /\ ~Contains(SubSeq(s, last + 2, ascribed - 1), "=") THEN ascribed
                 ELSE 0
    IN IF At(s, 1) # "fun" \/ arrow = 0 \/ arrow >= Len(s) THEN [found |-> FALSE]
       ELSE [found |-> TRUE,
             binder |-> IF typed > 0 /\ arrow = typed + 1 THEN <<s[3]>> ELSE SubSeq(s, 2, last),
             body |-> Strip(From(s, arrow + 1))]

Rewritten(text) == [kind |-> "native", text |-> text]
NotUnderstood == [kind |-> "none"]
Raised == [kind |-> "raised"]

\* convert_legacy_event: the native form of `Pr[event | comp]`
ConvertLegacyEvent(event, comp, prose) ==
    LET e == Strip(event)
        c == Strip(comp)
        inner == StripParens(e)
        fun == FunParts(inner)
        x == FreshName(inner, c)
        y == FreshName(e, c)
    IN CASE e = <<>> \/ c = <<>> -> NotUnderstood
         [] e = <<"bot">> -> IF Raises(c, Bracket) THEN Raised
                           ELSE Rewritten(<<"prFail">> \o (IF IsAtomic(c) THEN c ELSE Parens(c)))
         [] e[1] = "=" /\ Len(e) > 1 -> Rewritten(Singleton(c, Strip(Tail(e))))
         [] Raises(e, {"("}) -> Raised
         [] /\ Len(inner) > 2 /\ inner[1] = "hole" /\ inner[2] = "="
            /\ ~Contains(From(inner, 3), "hole") -> Rewritten(Singleton(c, Strip(From(inner, 3))))
         [] fun.found -> IF Identifier(fun.binder[1]) \/ fun.binder[1] = "<"
                         THEN Rewritten(Native(fun.binder, c, fun.body)) ELSE NotUnderstood
         [] Contains(inner, "hole") ->
                IF Len(SelectSeq(inner, LAMBDA t : t = "hole")) # 1 \/ e[1] # "(" THEN NotUnderstood
                ELSE Rewritten(Native(<<x>>, c, ReplaceAll(inner, "hole", x)))
         [] prose -> NotUnderstood
         [] Raises(e, Bracket) -> Raised
         [] OTHER -> Rewritten(Native(<<y>>, c, (IF IsAtomic(e) THEN e ELSE Parens(e)) \o <<y>>))

Nothing == [text |-> <<>>, reports |-> {}, raised |-> FALSE]

Then(text, reports, rest) ==
    [rest EXCEPT !.text = text \o @, !.reports = reports \cup @]

\* rewrite_legacy_events, from position i on
RECURSIVE RewriteLegacyEventsFrom(_, _)
RewriteLegacyEventsFrom(s, i) ==
    LET k == FirstFrom(s, "Pr[", i, 0)
        close == MatchClose(s, k)
        inside == SubSeq(s, k + 1, close - 1)
        bar == TopLevel(inside, "|")
        prose == k \in CommentSpans(s)
        native == IF bar = 0 THEN NotUnderstood
                  ELSE ConvertLegacyEvent(SubSeq(inside, 1, bar - 1), From(inside, bar + 1), prose)
        left == IF prose THEN {} ELSE {[line |-> LineOf(s, k), about |-> "event"]}
    IN IF k = 0 THEN [Nothing EXCEPT !.text = From(s, i)]
       ELSE IF close = 0 THEN Then(SubSeq(s, i, k), {}, RewriteLegacyEventsFrom(s, k + 1))
       ELSE CASE native.kind = "raised" -> [Nothing EXCEPT !.raised = TRUE]
              [] native.kind = "none" ->
                    Then(SubSeq(s, i, close), left, RewriteLegacyEventsFrom(s, close + 1))
              [] native.kind = "native" ->
                    Then(SubSeq(s, i, k - 1) \o native.text, {},
                         RewriteLegacyEventsFrom(s, close + 1))

RewriteLegacyEvents(s) == RewriteLegacyEventsFrom(s, 1)

-----------------------------------------------------------------------------
(* Events and draws of earlier versions of the measure API. *)

\* the value of the singleton event whose bracket opens at j: `[= a]` or
\* `[(hole = a)]`; the empty text when there is none
EventValue(s, j) ==
    LET end == MatchClose(s, j)
        p == SkipBlank(s, j + 1)
        q == SkipBlank(s, p + 1)
        r == SkipBlank(s, q + 1)
        value(from) == Strip(SubSeq(s, from, end - 1))
    IN CASE At(s, j) # "[" \/ end = 0 -> <<>>
         [] At(s, p) = "=" -> value(p + 1)
         [] At(s, p) = "(" /\ At(s, q) = "hole" /\ At(s, r) = "=" /\ Last(<<NL>> \o value(r + 1)) = ")" ->
                Strip(Front(value(r + 1)))
         [] OTHER -> <<>>

RECURSIVE RewriteEqEventsFrom(_, _)
RewriteEqEventsFrom(s, i) ==
    LET k == FirstFrom(s, "Pr{", i, 0)
        close == MatchClose(s, k)
        value == EventValue(s, close + 1)
    IN IF k = 0 THEN From(s, i)
       ELSE IF close = 0 THEN SubSeq(s, i, k) \o RewriteEqEventsFrom(s, k + 1)
       ELSE IF value = <<>> THEN SubSeq(s, i, close) \o RewriteEqEventsFrom(s, close + 1)
       ELSE SubSeq(s, i, k - 1) \o Singleton(Strip(SubSeq(s, k + 1, close - 1)), value)
              \o RewriteEqEventsFrom(s, MatchClose(s, close + 1) + 1)

RewriteEqEvents(s) == RewriteEqEventsFrom(s, 1)

\* `S[A] = S[B]` from position i on
RECURSIVE RewriteSpmfEquationsFrom(_, _)
RewriteSpmfEquationsFrom(s, i) ==
    LET k == FirstFrom(s, "S[", i, 0)
        close == MatchClose(s, k)
        equals == SkipBlank(s, close + 1)
        k2 == SkipBlank(s, equals + 1)
        close2 == IF close > 0 /\ At(s, equals) = "=" /\ At(s, k2) = "S[" THEN MatchClose(s, k2) ELSE 0
        before == RightStrip(SubSeq(s, 1, k - 1))
        argument == before # <<>> /\ (Last(before) \in Closing \/ Word(Last(before)))
        applied == Word(At(s, close2 + 1)) \/ At(s, close2 + 1) \in {"(", "<"}
        side(from, to) == LET t == Strip(SubSeq(s, from, to)) IN IF PlainApplication(t) THEN t ELSE Parens(t)
    IN IF k = 0 THEN From(s, i)
       ELSE IF close2 = 0 \/ argument \/ applied
            THEN SubSeq(s, i, k) \o RewriteSpmfEquationsFrom(s, k + 1)
       ELSE SubSeq(s, i, k - 1) \o side(k + 1, close - 1) \o <<"=d">> \o side(k2 + 1, close2 - 1)
              \o RewriteSpmfEquationsFrom(s, close2 + 1)

RewriteSpmfEquations(s) == RewriteSpmfEquationsFrom(s, 1)

\* Faulty variant of IsDraw: a statement that is a `let` already is taken for a bare draw
IsDrawAny(part) == Contains(part, "<-")

\* one statement of a `Pr{..}` sequence: a bare draw becomes a `let`
IsDraw(part) ==
    LET p == LeftStrip(part)
    IN /\ Len(p) > 1 /\ Identifier(p[1])
       /\ p[2] = "<-" \/ (p[2] = ":" /\ FirstFrom(p, "<-", 3, 0) > 3)

Arrow(part) == FirstFrom(part, "<-", 1, 0)
DrawBody(part) == RightStrip(From(part, Arrow(part) + 1))
SpansLines(part) ==
    IsDraw(part) /\ Contains(DrawBody(part), NL) /\ ~IsParenthesized(Strip(DrawBody(part)))

DrawStatement(part) ==
    LET body == DrawBody(part)
        lead == Len(part) - Len(LeftStrip(part))
    IN IF ~IsDraw(part) THEN part
       ELSE SubSeq(part, 1, lead) \o <<"let">> \o SubSeq(part, lead + 1, Arrow(part))
              \o (IF SpansLines(part) THEN Parens(LeftStrip(body)) ELSE body)
              \o From(part, Arrow(part) + 1 + Len(body))

RECURSIVE RewriteDrawItemsFrom(_, _)
RewriteDrawItemsFrom(s, i) ==
    LET k == FirstFrom(s, "Pr{", i, 0)
        close == MatchClose(s, k)
        parts == SplitTopLevel(SubSeq(s, k + 1, close - 1), ";")
        layout == IF k \notin CommentSpans(s) /\ \E n \in 1 .. Len(parts) - 1 : SpansLines(parts[n])
                  THEN {[line |-> LineOf(s, k), about |-> "layout"]} ELSE {}
    IN IF k = 0 THEN [Nothing EXCEPT !.text = From(s, i)]
       ELSE IF close = 0 THEN Then(SubSeq(s, i, k), {}, RewriteDrawItemsFrom(s, k + 1))
       ELSE Then(SubSeq(s, i, k) \o Join([n \in DOMAIN parts |-> DrawStatement(parts[n])], ";") \o <<"}">>,
                 layout, RewriteDrawItemsFrom(s, close + 1))

RewriteDrawItems(s) == RewriteDrawItemsFrom(s, 1)

-----------------------------------------------------------------------------
(* Binders, imports, opens and names. *)

\* a line without its answer binders; a binder at its start leaves a blank
WithoutBinders(line) ==
    LET rest == SelectSeq(line, LAMBDA t : t # AnswerBinder)
    IN IF Strip(line)[1] = AnswerBinder THEN <<Indent>> \o LeftStrip(rest) ELSE rest

DeletedLine(line) ==
    Strip(WithoutBinders(line)) \in {<<>>, <<"omit", "in">>, <<"include", "in">>}

DeleteAnswerBinders(s) ==
    LET kept == SelectSeq(LinesOf(s), LAMBDA line : ~(Contains(line, AnswerBinder) /\ DeletedLine(line)))
        bare == [i \in DOMAIN kept |-> IF Contains(kept[i], AnswerBinder)
                                       THEN RightStrip(WithoutBinders(kept[i])) ELSE kept[i]]
        continued(line) == line # <<>> /\ line[1] = Indent /\ Strip(line) # <<>>
        empty(i) == bare[i] = <<"variable">> /\ i < Len(bare) /\ ~continued(bare[i + 1])
        numbers == SelectSeq([i \in DOMAIN bare |-> i], LAMBDA i : ~empty(i))
    IN Join([i \in DOMAIN numbers |-> bare[numbers[i]]], NL)

CLASS_BINDERS ==
    << [old |-> "IsProbabilitySpec", new |-> "AnswerMeasure"],
       [old |-> "IsUniformSpec", new |-> "UniformAnswerMeasure"] >>

\* the positions of the binders of a class
ClassBinders(s, class) ==
    {j \in 1 .. Len(s) :
        LET name == IF At(s, j + 1) = "OracleSpec" /\ At(s, j + 2) = "." THEN j + 3 ELSE j + 1
        IN s[j] = "[" /\ At(s, name) = class.old /\ name < Len(s)}

RECURSIVE ReplaceClass(_, _)
ReplaceClass(s, class) ==
    LET found == ClassBinders(s, class)
        j == CHOOSE j \in found : TRUE
        name == FirstFrom(s, class.old, j, 0)
    IN IF found = {} THEN s
       ELSE ReplaceClass(SubSeq(s, 1, j) \o <<"OracleSpec", ".", class.new>> \o From(s, name + 1), class)

RewriteClasses(s) ==
    LET half == ReplaceClass(s, CLASS_BINDERS[1])
    IN [text |-> ReplaceClass(half, CLASS_BINDERS[2]),
        reports |-> {[line |-> LineOf(half, j), about |-> "fintype"] : j \in ClassBinders(half, CLASS_BINDERS[2])},
        raised |-> FALSE]

\* s holds name at j
Occurs(s, name, j) ==
    j + Len(name) - 1 <= Len(s) /\ SubSeq(s, j, j + Len(name) - 1) = name

\* rename_pattern: an occurrence that is no quoted Lean name
RenamePattern(s, name, j) ==
    Occurs(s, name, j) /\ (At(s, j - 1) # "tick_" \/ At(s, j + Len(name)) = "_tick")

\* the positions at which to replace a name: its occurrences, or those of them
\* that rename_pattern matches
Sites(s, name, quoted) ==
    {j \in DOMAIN s : Occurs(s, name, j) /\ (quoted \/ RenamePattern(s, name, j))}

\* every name at one of the sites replaced, from position i on
RECURSIVE Replace(_, _, _, _, _)
Replace(s, sites, old, new, i) ==
    IF i > Len(s) THEN <<>>
    ELSE IF i \in sites THEN new \o Replace(s, sites, old, new, i + Len(old))
    ELSE <<s[i]>> \o Replace(s, sites, old, new, i + 1)

RenameExplicit(s) ==
    FlattenSeq([j \in DOMAIN s |->
        IF s[j] \notin DOMAIN EXPLICIT_COMPUTATION_RENAMES \/ ~RenamePattern(s, <<s[j]>>, j) THEN <<s[j]>>
        ELSE IF At(s, j + 1) = "_tick" THEN <<EXPLICIT_COMPUTATION_RENAMES[s[j]]>>
        ELSE <<"(", EXPLICIT_COMPUTATION_RENAMES[s[j]], "_", ")">>])

RewriteNames(s) ==
    LET renamed == FoldLeft(LAMBDA t, r : Replace(t, Sites(t, r.old, FALSE), r.old, r.new, 1),
                            s, RENAMES)
        collapsed == FoldLeft(LAMBDA t, p : Replace(t, Sites(t, p \o p, TRUE), p \o p, p, 1),
                              RenameExplicit(renamed), NAMESPACE_PREFIXES)
        applied(j) == At(collapsed, j) = "prEvent_le_one" /\ At(collapsed, j - 1) # "."
                      /\ At(collapsed, j + 1) = "_" /\ At(collapsed, j + 2) = "_"
        once == FlattenSeq([j \in DOMAIN collapsed |-> IF applied(j - 2) THEN <<>> ELSE <<collapsed[j]>>])
    IN ReplaceAll(once, "==p", "=d")

IsImport(line) == Len(line) = 2 /\ line[1] = "import"

RewriteImports(s) ==
    LET lines == LinesOf(s)
        imported == {lines[i][2] : i \in {i \in DOMAIN lines : IsImport(lines[i])}}
        add(acc, target) == IF target \in acc.imported THEN acc
                            ELSE [imported |-> acc.imported \cup {target},
                                  out |-> Append(acc.out, <<"import", target>>)]
        step(acc, line) == IF IsImport(line) /\ line[2] \in DOMAIN MODULES
                           THEN FoldLeft(add, acc, MODULES[line[2]])
                           ELSE [acc EXCEPT !.out = Append(@, line)]
    IN Join(FoldLeft(step, [imported |-> imported, out |-> <<>>], lines).out, NL)

\* the namespaces of an `open` line, which may end in `in`
RewriteOpens(s) ==
    LET isOpen(line) == Len(line) > 1 /\ LeftStrip(line)[1] = "open"
        kept(line) == SelectSeq(line, LAMBDA t : t \notin REMOVED_NAMESPACES)
        left(line) == \E j \in DOMAIN kept(line) : kept(line)[j] \notin {Indent, "open", "in"}
        lines == SelectSeq(LinesOf(s), LAMBDA line : isOpen(line) /\ kept(line) # line => left(line))
    IN Join([i \in DOMAIN lines |-> IF isOpen(lines[i]) THEN kept(lines[i]) ELSE lines[i]], NL)

\* report_legacy: what is left in code for a person
ReportedLegacy(s, j) ==
    \/ s[j] \in LEGACY_TOKENS.other \cup LEGACY_TOKENS.lemma
    \/ s[j] \in LEGACY_TOKENS.head /\ At(s, j - 1) # "."
    \/ /\ s[j] \in REPORT_NAMES /\ RenamePattern(s, <<s[j]>>, j)
       /\ s[j] = "prEvent_le_one" => ~(At(s, j + 1) = "_" /\ At(s, j + 2) # "_")

ReportLegacy(s) ==
    {[line |-> LineOf(s, j), about |-> s[j]] :
        j \in {j \in DOMAIN s \ CommentSpans(s) : ReportedLegacy(s, j)}}
=============================================================================
