----------------------------- MODULE MCBuildJob -----------------------------
EXTENDS BuildJob

\* a library module, one that imports it, and a test that imports both
MCModules == {"Base", "Top", "Test"}
MCCone ==
    [m \in MCModules |->
        CASE m = "Base" -> {"Base"} [] m = "Top" -> {"Base", "Top"} [] m = "Test" -> MCModules]

Plain == [names |-> {"prEvent"}, warning |-> "none"]
Sorry == [names |-> {"prEvent", "prFail"}, warning |-> "sorry"]
Linted == [names |-> {}, warning |-> "linter"]

MCContents ==
    [m \in MCModules |->
        CASE m = "Base" -> {Plain, Sorry} [] m = "Top" -> {Plain, Linted} [] m = "Test" -> {Plain, Sorry}]

Cite(name) == <<Word("see"), Span(name)>>

\* a paragraph, the same name in a fenced block that holds the other mark, and a
\* name that the text calls retired
Guide(name) ==
    <<Paragraph(<<Cite("prEvent")>>),
      Fenced("backticks", <<Fence("tildes"), Text(Cite("prEvent"))>>),
      Paragraph(<<Cite(name), <<Word("retired"), Span("probEvent")>>>>)>>

\* a rename over the end of a line, and two tables, of which only the first has a
\* column of current names
Migration(name) ==
    <<Paragraph(<<Cite("probFailure"), <<Arrow, Span(name)>>>>),
      Table(<< <<Word("removed")>>, <<Word("replacement")>> >>,
            << << Cite("probOutput"), <<Span("old"), Close, Arrow, Span("prEvent")>> >> >>),
      Fenced("tildes", <<Text(Cite("gone"))>>),
      Table(<< <<Word("name")>>, <<Word("notes")>> >>, << << Cite("lake_target"), Cite(name) >> >>)>>

Both(name, other, allowlist) ==
    [guide |-> Guide(name), migration |-> Migration(other), allowlist |-> allowlist]

MCDocuments ==
    {Both("prEvent", "prEvent", {}), Both("prFail", "prEvent", {}), Both("prFail", "prFail", {"prFail"})}

MCFirst ==
    [sha |-> 0, deps |-> 0, source |-> [m \in MCModules |-> Plain], documents |-> Both("prEvent", "prEvent", {})]

\* the documents of the run are read as they were written: the theorem about
\* published builds applies to it
ASSUME DocumentsReadAsWritten == ReadAsWritten
=============================================================================
