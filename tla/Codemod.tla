------------------------------ MODULE Codemod -------------------------------
(***************************************************************************)
(* A person carries a library to the measure API with                      *)
(* scripts/migrate-native-probability.py.  A run reads each file, takes it *)
(* through the passes of migrate in their order, writes it back if it      *)
(* changed, and prints its reports only after the last file.  The run can  *)
(* be interrupted at any step, which loses the reports it has collected;   *)
(* write_text empties the file before it fills it.  An interrupted run, or *)
(* one that left nested forms behind, is started again.                    *)
(***************************************************************************)
EXTENDS DocNames

CONSTANTS
    Libraries,  \* the libraries to start from: sequences of texts
    MaxRuns     \* how often the person starts the script

VARIABLES
    source,     \* the library as it was
    files,      \* the files on disk
    pc,         \* the step of the run: a pass, or "idle", "read", "write", "filling"
    current,    \* index of the file being migrated
    text,       \* its text, in memory
    report,     \* the reports collected, in memory
    changed,    \* how many files this run has found to change
    dry,        \* the run only prints a diff
    started,    \* runs started
    complete,   \* runs that wrote and reached their end
    ended,      \* the last run reached its end and was no dry run
    printed     \* the reports of the last run that reached its end

vars == <<source, files, pc, current, text, report, changed, dry, started, complete, ended, printed>>

Init ==
    /\ source \in Libraries
    /\ files = source
    /\ pc = "idle" /\ current = 0 /\ text = <<>> /\ report = {} /\ changed = 0 /\ dry = FALSE
    /\ started = 0 /\ complete = 0 /\ ended = FALSE /\ printed = {}

\* main, up to its loop
Start ==
    /\ pc = "idle" /\ started < MaxRuns
    /\ dry' \in (IF started = 0 THEN BOOLEAN ELSE {FALSE})
    /\ pc' = "read" /\ current' = 1 /\ report' = {} /\ changed' = 0 /\ started' = started + 1
    /\ ended' = FALSE /\ printed' = {}
    /\ UNCHANGED <<source, files, text, complete>>

Read ==
    /\ pc = "read" /\ current <= Len(files)
    /\ text' = files[current]
    /\ pc' = "imports"
    /\ UNCHANGED <<source, files, current, report, changed, dry, started, complete, ended, printed>>

\* Faulty variant of Stop: the reports survive the run
StopKeepingReports ==
    /\ pc' = "idle" /\ current' = 0 /\ text' = <<>> /\ report' = report /\ dry' = FALSE

\* the state between runs
Stop ==
    /\ pc' = "idle" /\ current' = 0 /\ text' = <<>> /\ report' = {} /\ dry' = FALSE

\* one pass of migrate; a ValueError it does not catch ends the run
Pass(name, next, result) ==
    /\ pc = name
    /\ \/ /\ ~result.raised
          /\ pc' = next
          /\ text' = result.text
          /\ report' = report \cup {[file |-> current, line |-> r.line, about |-> r.about] : r \in result.reports}
          /\ UNCHANGED <<current, dry>>
       \/ /\ result.raised
          /\ Stop
    /\ UNCHANGED <<source, files, changed, started, complete, ended, printed>>

Silent(new) == [text |-> new, reports |-> {}, raised |-> FALSE]

ImportsPass == Pass("imports", "opens", Silent(RewriteImports(text)))
OpensPass == Pass("opens", "events", Silent(RewriteOpens(text)))
LegacyEventsPass == Pass("events", "eq", RewriteLegacyEvents(text))
EqEventsPass == Pass("eq", "spmf", Silent(RewriteEqEvents(text)))
SpmfPass == Pass("spmf", "draws", Silent(RewriteSpmfEquations(text)))
DrawItemsPass == Pass("draws", "binders", RewriteDrawItems(text))
BindersPass == Pass("binders", "classes", Silent(DeleteAnswerBinders(text)))
ClassesPass == Pass("classes", "names", RewriteClasses(text))
NamesPass == Pass("names", "legacy", Silent(RewriteNames(text)))
ReportPass == Pass("legacy", "write", [Silent(text) EXCEPT !.reports = ReportLegacy(text)])

\* an unchanged file is left alone, and a dry run writes nothing
Skipped ==
    /\ pc = "write" /\ (text = files[current] \/ dry)
    /\ changed' = changed + (IF text = files[current] THEN 0 ELSE 1)
    /\ pc' = "read" /\ current' = current + 1
    /\ UNCHANGED <<source, files, text, report, dry, started, complete, ended, printed>>

\* write_text opens the file, which empties it,
Truncate ==
    /\ pc = "write" /\ text # files[current] /\ ~dry
    /\ files' = [files EXCEPT ![current] = <<>>]
    /\ changed' = changed + 1
    /\ pc' = "filling"
    /\ UNCHANGED <<source, current, text, report, dry, started, complete, ended, printed>>

\* and fills it
Fill ==
    /\ pc = "filling"
    /\ files' = [files EXCEPT ![current] = text]
    /\ pc' = "read" /\ current' = current + 1
    /\ UNCHANGED <<source, text, report, changed, dry, started, complete, ended, printed>>

\* the end of main
Finish ==
    /\ pc = "read" /\ current > Len(files)
    /\ ended' = ~dry /\ printed' = report
    /\ complete' = complete + (IF dry THEN 0 ELSE 1)
    /\ Stop
    /\ UNCHANGED <<source, files, changed, started>>

\* Ctrl-C
Interrupt ==
    /\ pc # "idle"
    /\ Stop
    /\ UNCHANGED <<source, files, changed, started, complete, ended, printed>>

Next ==
    \/ Start \/ Read \/ Skipped \/ Truncate \/ Fill \/ Finish \/ Interrupt
    \/ ImportsPass \/ OpensPass \/ LegacyEventsPass \/ EqEventsPass \/ SpmfPass
    \/ DrawItemsPass \/ BindersPass \/ ClassesPass \/ NamesPass \/ ReportPass

Spec == Init /\ [][Next]_vars

-----------------------------------------------------------------------------
(* The scopes of a text. *)

\* the first position from j on at which the group that holds j ends, or one of
\* the tokens in `stop` separates its parts
GroupEnd(s, j, stop) ==
    LET end(p) == /\ s[p] \in Closing \cup stop
                  /\ LET between == SubSeq(s, j, p - 1)
                     IN Len(SelectSeq(between, LAMBDA t : t \in Opening))
                          = Len(SelectSeq(between, LAMBDA t : t \in Closing))
        ends == {p \in j .. Len(s) : end(p)}
    IN IF ends = {} THEN Len(s) + 1 ELSE CHOOSE p \in ends : \A q \in ends : p <= q

Names(s) == {j \in DOMAIN s : Identifier(s[j]) /\ s[j] \notin {"let", "fun", "prFail", "_"}}

\* `fun binder => body`: the binder, the type it may have, and the scope
FunScopes(s) ==
    {LET arrow == FirstFrom(s, "=>", f, f)
         typed == FirstFrom(SubSeq(s, 1, arrow), ":", f, arrow)
     IN [binder |-> f + 1 .. typed - 1,
         type |-> typed .. arrow,
         scope |-> arrow + 1 .. GroupEnd(s, arrow + 1, {"|"}) - 1] :
     f \in {f \in DOMAIN s : s[f] = "fun" /\ FirstFrom(s, "=>", f, 0) > 0}}

\* the draws of `Pr{draws}[event]`: each scopes over the later ones and the event
DrawScopes(s) ==
    {LET start == CHOOSE k \in 1 .. j : /\ s[k] \in {"Pr{", ";"}
                                        /\ \A i \in k + 1 .. j : s[i] \notin {"Pr{", ";"}
         close == GroupEnd(s, j + 1, {})
     IN [binder |-> start + 1 .. FirstFrom(SubSeq(s, 1, j), ":", start, j) - 1,
         type |-> {},
         scope |-> GroupEnd(s, j + 1, {";"}) .. (IF At(s, close + 1) = "[" THEN MatchClose(s, close + 1)
                                                ELSE close)] :
     j \in {j \in DOMAIN s : s[j] = "<-" /\ \E k \in 1 .. j : s[k] = "Pr{"}}

\* how often each name occurs outside the scopes that bind it
FreeNames(s) ==
    LET scopes == FunScopes(s) \cup DrawScopes(s)
        free == {j \in Names(s) : \A c \in scopes :
                    /\ j \notin c.binder \cup c.type
                    /\ j \in c.scope => s[j] \notin {s[b] : b \in c.binder}}
    IN [n \in {s[j] : j \in free} |-> Cardinality({j \in free : s[j] = n})]

\* the last token of the event form or equation that opens at k
FormEnd(s, k) ==
    LET close == MatchClose(s, k)
    IN IF s[k] = "Pr{" /\ At(s, close + 1) = "[" THEN MatchClose(s, close + 1) ELSE close

\* how many of them are open at once
Nesting(s) ==
    LET open(j) == {k \in 1 .. j : s[k] \in {"Pr[", "Pr{", "S["} /\ FormEnd(s, k) >= j}
        depths == {Cardinality(open(j)) : j \in DOMAIN s} \cup {0}
    IN CHOOSE d \in depths : \A e \in depths : e <= d

-----------------------------------------------------------------------------
(* Properties. *)

Steps == {"idle", "read", "imports", "opens", "events", "eq", "spmf", "draws", "binders",
          "classes", "names", "legacy", "write", "filling"}

\* Every variable stays in its range, and a run that is over holds nothing.
TypeOK ==
    /\ pc \in Steps /\ dry \in BOOLEAN
    /\ Len(files) = Len(source) /\ current \in 0 .. Len(files) + 1
    /\ started \in 0 .. MaxRuns /\ complete \in 0 .. started
    /\ changed \in 0 .. Len(files)
    /\ ended \in BOOLEAN /\ (ended => pc = "idle") /\ (pc = "idle" <=> current = 0)
    /\ pc = "idle" => report = {} /\ text = <<>>

\* a string holds the bar at which top_level would split an event
QuotedBar(s) ==
    \E j \in DOMAIN s : s[j] = "|" /\ Len(SelectSeq(SubSeq(s, 1, j), LAMBDA t : t = Quote)) % 2 = 1

\* The passes that rewrite events, draws and equations (651-931) capture no name:
\* a name that was free in the file stays free, as often as it occurred, and no
\* new one appears.  A bar in a string is taken for the one of the event.
FreeNamesKept ==
    [][pc' # "idle" /\ pc \in {"events", "eq", "spmf", "draws"} /\ ~QuotedBar(text)
            => FreeNames(text') = FreeNames(text)]_vars

\* main can be repeated until it reports nothing new: once as many runs have
\* ended as forms are nested in the library, whatever was interrupted between
\* them, a run changes nothing.
Settles ==
    ended /\ complete > 1 /\ (\A i \in DOMAIN source : complete > Nesting(source[i])) => changed = 0

\* the legacy events of a text that are in code and inside no other
LeftEvents(s) ==
    {k \in DOMAIN s \ Prose(s) :
        /\ s[k] = "Pr[" /\ MatchClose(s, k) > 0
        /\ \A i \in 1 .. k - 1 : s[i] = "Pr[" => MatchClose(s, i) < k}

\* No legacy event is lost: once a run changes nothing, every one in code that is
\* inside no other has been reported by that run, whatever runs were interrupted
\* before it (rewrite_legacy_events, 851-879).  A run that changes something may
\* leave an inner one that it has not looked at.
LeftEventsReported ==
    ended /\ changed = 0 => \A i \in DOMAIN files :
        Cardinality({LineOf(files[i], k) : k \in LeftEvents(files[i])})
            = Cardinality({r \in printed : r.file = i /\ r.about = "event"})

\* the occurrences of a renamed name that is no part of a longer one
Retired(s) ==
    {j \in DOMAIN s : \E n \in DOMAIN RENAMES :
        /\ Occurs(s, RENAMES[n].old, j)
        /\ At(s, j - 1) # "." /\ At(s, j + Len(RENAMES[n].old)) # "."}

\* No renamed name escapes both scripts: one that a run leaves is a quoted Lean
\* name, and in a comment check-doc-names fails its line, unless the line says
\* that the name is retired.
NothingEscapes ==
    ended => \A i \in DOMAIN files : \A j \in Retired(files[i]) :
        /\ At(files[i], j - 1) = "tick_"
        /\ j \in Prose(files[i]) =>
            LET n == LineOf(files[i], j)
            IN n \in CheckRetired(files[i]) \/ ToSet(ProseLine(files[i], n)) \cap RETIRED_CONTEXT # {}

\* The three scanners agree on what is a comment: comment_spans of the codemod
\* (827-843), prose of doc_refs.py (22-60), and, when no string goes on past the
\* end of its line, lean_prose of check-doc-names.py (104-130).
ScannersAgree ==
    \A i \in DOMAIN files :
        LET s == files[i]
            spans == CommentSpans(s)
            words == {j \in DOMAIN s : s[j] \notin {"/-", "-/", NL}}
            quotes(k) == {j \in 1 .. k \ spans : s[j] = Quote}
            carried == \E k \in DOMAIN s \ spans : s[k] = NL /\ Cardinality(quotes(k)) % 2 = 1
        IN /\ words \cap spans = words \cap Prose(s)
           /\ carried \/ Prose(s) = LeanProse(s)
=============================================================================
