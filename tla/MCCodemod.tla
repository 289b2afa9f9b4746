----------------------------- MODULE MCCodemod ------------------------------
(***************************************************************************)
(* The libraries the codemod is checked on: every form of the old API over *)
(* a few terms, nested in one another, in comments and in strings, and the *)
(* declarations, imports and names around them.                            *)
(***************************************************************************)
EXTENDS Codemod

Terms == {<<"x">>, <<"f", "y">>, <<"f", NL, Indent, "y">>}

\* the events of a term
EventsOf(t) ==
    {<<"=">> \o t, <<"(", "hole", "=">> \o t \o <<")">>, <<"(", "hole", "+">> \o t \o <<")">>,
     <<"fun", "x", "=>", "x">> \o t, <<"fun", "(", "x", ":", "a", ")", "=>", "x">> \o t,
     <<"(", "fun", "<", "x", "y", ">", "=>">> \o t \o <<")">>,
     <<"fun", "x", "y", "=>">> \o t, t}

LegacyForms(ts, cs) ==
    {<<"Pr[">> \o e \o <<"|">> \o c \o <<"]">> :
        e \in {<<"bot">>, <<"(", "hole", "+", "hole", ")">>} \cup UNION {EventsOf(t) : t \in ts}, c \in cs}

EarlierForms(ts, cs) ==
    {<<"Pr{">> \o c \o <<"}", "[">> \o e \o <<"]">> :
        c \in cs, e \in {<<"=">> \o t : t \in ts} \cup {<<"(", "hole", "=">> \o t \o <<")">> : t \in ts}}
    \cup {<<"Pr{", "x", "<-">> \o c \o <<";", "y", ":", "a", "<-">> \o t \o <<"}", "[", "x", "y", "]">> : c \in cs, t \in ts}
    \cup {<<"Pr{", "let", "y", "<-">> \o c \o <<"}", "[">> \o t \o <<"y", "]">> : c \in cs, t \in ts}
    \cup {<<"S[">> \o c \o <<"]", "=", "S[">> \o t \o <<"]">> : c \in cs, t \in ts}

Forms(ts, cs) == LegacyForms(ts, cs) \cup EarlierForms(ts, cs)

\* a form inside each part of another
Inner == Forms({<<"x">>}, {<<"y">>})
Nested == Forms(Inner, {<<"x">>}) \cup Forms({<<"y">>}, Inner)

\* comments and strings in a form, and bracketless or unclosed ones
Odd ==
    {<<"Pr[", "=", "x", "/-", "]", "-/", "|", "y", "]">>,
     <<"Pr[", "=", "f", Quote, "]", Quote, "|", "y", "]">>,
     <<"Pr[", "=", "f", Quote, "|", Quote, "]">>,
     <<"Pr[", "(", Quote, ")", Quote, "|", "y", ")", "]">>,
     <<"Pr[", "(", "x", "|", "y", "]">>,
     <<"Pr[", "x", "]">>,
     <<"Pr{", "x", "<-", "y", NL, "Pr[", "=", "x", "|", "y", "]">>,
     <<Quote, "--", NL, "/-", Quote, NL, "Pr[", "|", "y", "]">>,
     <<Quote, "/-", Quote, "Pr[", "fun", "x", "y", "=>", "p", "|", "y", "]">>,
     <<"--", Quote, NL, "Pr[", "|", "y", "]", Quote, "--", Quote>>,
     <<"/-", "/-", "-/", "Pr[", "=", "x", "|", "y", "]", NL, "-/", "Pr[", "|", "y", "]">>,
     <<"/-", "--", "-/", "Pr[", "|", "y", "]", "--", "-/", "GameEquiv">>}

\* the names, alone, qualified, quoted as a code span or as a Lean name
Cited == {RENAMES[i].old : i \in DOMAIN RENAMES} \cup
         {<<"OracleComp", ".">> \o RENAMES[2].old, <<"probEvent_le_one">>, <<"probEvent_compl">>,
          <<"neverFail_iff">>, <<"NeverFail">>, <<"prEvent_le_one", "_", "_">>, <<"structural reading">>}
Citations ==
    UNION {{n, n \o <<"x">>, <<"tick_">> \o n \o <<"_tick">>, <<"tick_">> \o n \o <<"x", "_tick">>} : n \in Cited}

Declarations ==
    {<<"import", "VCVio.OracleComp.EvalDist.UniformCompatibility", NL, "import", "VCVio.OracleComp.EvalDist.Measure">>,
     <<"import", "VCVio.Native", NL, "import", "ToMathlib.ProbabilityTheory.SPMF", NL, "open", "OracleComp.EvalDist">>,
     <<"open", "OracleComp.EvalDist", "a", "in", NL, "variable", AnswerBinder, NL, "x">>,
     <<"variable", NL, Indent, AnswerBinder, "[", "IsUniformSpec", "x", "]", NL, "omit", AnswerBinder, "in">>,
     <<"[", "OracleSpec", ".", "IsProbabilitySpec", "x", "]", "(", "a", ":", "measurable", ")", "x", ")">>}

InComments(ss) ==
    UNION {{<<"/-">> \o s \o <<"-/">>, <<"--">> \o s, <<"--", "legacy">> \o s, <<"x", "/-", NL>> \o s \o <<NL, "-/">>} : s \in ss}

Texts ==
    Forms(Terms, Terms) \cup Nested \cup Odd \cup Citations \cup Declarations
    \cup InComments(Citations \cup LegacyForms({<<"x">>}, {<<"y">>}))

\* a file that is not understood, before or after one that is rewritten
Pairs ==
    {<<s, t>> : s, t \in {<<"Pr[", "=", "x", "|", "y", "]">>, <<"Pr[", "|", "y", "]">>,
                          <<"Pr[", "(", Quote, ")", Quote, "|", "y", ")", "]">>, <<"[", "IsUniformSpec", "x", "]">>}}

MCLibraries == {<<s>> : s \in Texts} \cup Pairs
=============================================================================
