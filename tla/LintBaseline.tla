---------------------------- MODULE LintBaseline ----------------------------
(***************************************************************************)
(* The exact, shrink-only exception baseline of scripts/lint.py.           *)
(*                                                                         *)
(* A developer edits sources, lints them and prunes the baseline in a      *)
(* checkout, where the script may fail, be killed or meet a power loss at  *)
(* any step, while files change under it.  The changes reach main through  *)
(* the merge queue, whose CI lints each entry on top of the one before it  *)
(* and compares its baseline with that one's.                              *)
(*                                                                         *)
(* Sources are represented by the lint findings they have: a tree is the   *)
(* findings of its sources and the exceptions its baseline lists.          *)
(***************************************************************************)
EXTENDS Naturals, Sequences, FiniteSets

CONSTANTS
    Findings,   \* records of the library, the linter and the declaration's name
    Libraries,  \* the default proof libraries
    MaxEdits,   \* how often the developer edits or merges
    MaxLints,   \* how often the script is started in the checkout
    MaxQueue    \* entries in the merge queue

ASSUME FindingsAssumption == \A f \in Findings : f.library \in Libraries
ASSUME BoundsAssumption == MaxEdits \in Nat /\ MaxLints \in Nat /\ MaxQueue \in Nat

Baselines == SUBSET Findings

\* the baseline file: complete, broken by hand, or only partly written, which
\* read_pairs rejects; and the temporary one
Files == [state : {"complete", "broken", "torn"}, pairs : Baselines]
Complete(pairs) == [state |-> "complete", pairs |-> pairs]
Broken == [state |-> "broken", pairs |-> {}]
Torn == [state |-> "torn", pairs |-> {}]
NoTemp == [exists |-> FALSE, pairs |-> {}, synced |-> FALSE]

Trees == [source : Baselines, baseline : Baselines]

VARIABLES
    main,       \* the tree of the main branch
    queue,      \* the merge queue: entries with their base, tree and verdict
    base,       \* the merge base of the checkout and main
    source,     \* findings of the checkout's sources
    built,      \* findings of the sources the oleans were built from
    file,       \* scripts/nolints.json
    disk,       \* the contents a power loss can leave that file with
    temp,       \* the temporary file of write_baseline
    pc,         \* the step the script is at
    mode,       \* its options
    old,        \* the baseline it has read
    todo,       \* the libraries it has still to collect
    current,    \* the findings it has collected
    outcome,    \* how the last run ended
    disturbed,  \* the files changed since it started, or were not on the disk by then
    edits, lints

repo == <<main, queue>>
checkout == <<base, source, edits>>
script == <<pc, mode, old, todo, current, outcome>>
vars == <<repo, checkout, built, file, disk, temp, script, disturbed, lints>>

-----------------------------------------------------------------------------
(* The naming policy. *)

\* acronym_led: a name is a sequence of components, a component a sequence of the
\* segments between underscores, each an acronym, capitalised or neither
AcronymLed(name) ==
    \A i \in DOMAIN name :
        Len(name[i]) > 1 =>
            /\ name[i][1] = "ACRONYM"
            /\ \A k \in 2 .. Len(name[i]) - 1 : name[i][k] \in {"ACRONYM", "Capital"}

AcceptedByPolicy(f) == f.linter = "defsWithUnderscore" /\ AcronymLed(f.name)

\* the findings that have to be in the baseline
Listed(findings) == {f \in findings : ~AcceptedByPolicy(f)}

\* check_delta: no unlisted finding, and no obsolete exception unless they are
\* to be pruned
CheckDelta(found, baseline, prune) ==
    /\ found \subseteq baseline
    /\ prune \/ baseline \subseteq found

-----------------------------------------------------------------------------
(* Branches. *)

\* git's merge of what changed from one version of a set to another onto a third
Merge3(from, to, onto) == (onto \cup (to \ from)) \ (from \ to)

NoMode == [prune |-> FALSE, noBuild |-> FALSE, baseRef |-> FALSE]

Init ==
    /\ main \in {t \in Trees : t.baseline = Listed(t.source)}
    /\ queue = <<>>
    /\ base = main /\ source = main.source /\ built = main.source
    /\ file = Complete(main.baseline) /\ disk = {file} /\ temp = NoTemp
    /\ pc = "idle" /\ mode = NoMode
    /\ old = {} /\ todo = {} /\ current = {} /\ outcome = "none" /\ disturbed = FALSE
    /\ edits = 0 /\ lints = 0

\* the developer's changes bring a finding or remove one
EditSource ==
    /\ edits < MaxEdits /\ edits' = edits + 1
    /\ \E f \in Findings : source' \in {source \cup {f}, source \ {f}}
    /\ disturbed' = TRUE
    /\ UNCHANGED <<repo, base, built, file, disk, temp, script, lints>>

\* the developer changes an entry of the baseline by hand, or breaks it
EditBaseline ==
    /\ edits < MaxEdits /\ edits' = edits + 1
    /\ \/ \E f \in Findings : file' \in {Complete(file.pairs \cup {f}), Complete(file.pairs \ {f})}
       \/ file' = Broken
    /\ disk' = {file'}
    /\ disturbed' = TRUE
    /\ UNCHANGED <<repo, base, source, built, temp, script, lints>>

\* the developer merges main into the checkout
MergeMain ==
    /\ edits < MaxEdits /\ edits' = edits + 1
    /\ file.state = "complete"
    /\ source' = Merge3(base.source, source, main.source)
    /\ file' = Complete(Merge3(base.baseline, file.pairs, main.baseline))
    /\ disk' = {file'}
    /\ base' = main
    /\ disturbed' = TRUE
    /\ UNCHANGED <<repo, built, temp, script, lints>>

\* the tree a new entry is put on top of
QueueEnd == IF queue = <<>> THEN main ELSE queue[Len(queue)].tree

\* the checkout is committed and enters the merge queue
Enqueue ==
    /\ Len(queue) < MaxQueue /\ file.state = "complete"
    /\ queue' = Append(queue,
           [base |-> QueueEnd,
            tree |-> [source |-> Merge3(base.source, source, QueueEnd.source),
                      baseline |-> Merge3(base.baseline, file.pairs, QueueEnd.baseline)],
            verdict |-> "pending"])
    /\ UNCHANGED <<main, checkout, built, file, disk, temp, script, disturbed, lints>>

\* Faulty variant of Gate: the run has no --base-ref.
GateWithoutBaseRef(entry) ==
    CheckDelta(Listed(entry.tree.source), entry.tree.baseline, FALSE)

\* Faulty variant of Gate: obsolete exceptions are let through.
GatePruning(entry) ==
    /\ entry.tree.baseline \subseteq entry.base.baseline
    /\ CheckDelta(Listed(entry.tree.source), entry.tree.baseline, TRUE)

\* CI lints an entry with its base as --base-ref: environment on a fresh build
Gate(entry) ==
    /\ entry.tree.baseline \subseteq entry.base.baseline
    /\ CheckDelta(Listed(entry.tree.source), entry.tree.baseline, FALSE)

\* the entries of the queue are checked in any order
Check ==
    \E i \in DOMAIN queue :
        /\ queue[i].verdict = "pending"
        /\ queue' = [queue EXCEPT ![i].verdict = IF Gate(queue[i]) THEN "passed" ELSE "failed"]
        /\ UNCHANGED <<main, checkout, built, file, disk, temp, script, disturbed, lints>>

MergeHead ==
    /\ queue # <<>> /\ queue[1].verdict = "passed"
    /\ main' = queue[1].tree
    /\ queue' = Tail(queue)
    /\ UNCHANGED <<checkout, built, file, disk, temp, script, disturbed, lints>>

\* an entry that fails or is withdrawn takes those behind it out of the queue
Remove ==
    \E i \in DOMAIN queue :
        /\ queue[i].verdict # "passed"
        /\ queue' = SubSeq(queue, 1, i - 1)
        /\ UNCHANGED <<main, checkout, built, file, disk, temp, script, disturbed, lints>>

-----------------------------------------------------------------------------
(* The script in the checkout. *)

\* environment reads the baseline; read_pairs raises on a malformed one
Start ==
    /\ pc = "idle" /\ lints < MaxLints /\ lints' = lints + 1
    /\ temp' = NoTemp /\ disturbed' = (disk # {file}) /\ current' = {}
    /\ IF file.state = "complete"
       THEN /\ mode' \in [prune : BOOLEAN, noBuild : BOOLEAN, baseRef : BOOLEAN]
            /\ pc' = "base" /\ old' = file.pairs /\ todo' = Libraries /\ outcome' = "running"
       ELSE UNCHANGED <<mode, pc, old, todo>> /\ outcome' = "malformed"
    /\ UNCHANGED <<repo, checkout, built, file, disk>>

End(how) ==
    /\ pc' = "idle" /\ outcome' = how
    /\ mode' = NoMode /\ todo' = {} /\ current' = {}

\* the run ends without touching the baseline; `finally` removes the temporary file
Fail ==
    /\ pc \notin {"idle", "report"}
    /\ End("failed") /\ temp' = NoTemp
    /\ UNCHANGED <<repo, checkout, built, file, disk, old, disturbed, lints>>

CheckBase ==
    /\ pc = "base"
    /\ mode.baseRef => old \subseteq base.baseline
    /\ pc' = "build"
    /\ UNCHANGED <<repo, checkout, built, file, disk, temp, mode, old, todo, current, outcome,
                   disturbed, lints>>

Build ==
    /\ pc = "build"
    /\ built' = IF mode.noBuild THEN built ELSE source
    /\ pc' = "collect"
    /\ UNCHANGED <<repo, checkout, file, disk, temp, mode, old, todo, current, outcome, disturbed, lints>>

\* collect, for one library whose linters ran to their end
Collect ==
    /\ pc = "collect"
    /\ \E library \in todo :
        /\ current' = current \cup {f \in built : f.library = library}
        /\ todo' = todo \ {library}
    /\ UNCHANGED <<repo, checkout, built, file, disk, temp, pc, mode, old, outcome, disturbed, lints>>

\* Faulty variant of Collected: one library is enough.
CollectedOne == todo # Libraries

\* every library has been collected
Collected == todo = {}

\* the verdict; only a prune that removes something goes on to write
Decide ==
    /\ pc = "collect" /\ Collected
    /\ CheckDelta(Listed(current), old, mode.prune)
    /\ IF mode.prune /\ Listed(current) # old
       THEN pc' = "write"
       ELSE pc' = "report"
    /\ UNCHANGED <<repo, checkout, built, file, disk, temp, mode, old, todo, current, outcome,
                   disturbed, lints>>

\* write_baseline: the pairs go to a temporary file,
WriteTemp ==
    /\ pc = "write"
    /\ temp' = [exists |-> TRUE, pairs |-> Listed(current), synced |-> FALSE]
    /\ pc' = "sync"
    /\ UNCHANGED <<repo, checkout, built, file, disk, mode, old, todo, current, outcome, disturbed, lints>>

\* Faulty variant of Sync: the data stay in the cache.
SyncNever ==
    /\ pc = "sync"
    /\ temp' = temp
    /\ pc' = "replace"
    /\ UNCHANGED <<repo, checkout, built, file, disk, mode, old, todo, current, outcome, disturbed, lints>>

\* which is flushed to the disk before anything else happens to it,
Sync ==
    /\ pc = "sync"
    /\ temp' = [temp EXCEPT !.synced = TRUE]
    /\ pc' = "replace"
    /\ UNCHANGED <<repo, checkout, built, file, disk, mode, old, todo, current, outcome, disturbed, lints>>

\* and takes the place of the baseline; the directory is not flushed, so until the
\* system does that a power loss can bring the old file back
Replace ==
    /\ pc = "replace"
    /\ file' = Complete(temp.pairs)
    /\ disk' = disk \cup {IF temp.synced THEN Complete(temp.pairs) ELSE Torn}
    /\ temp' = NoTemp
    /\ pc' = "report"
    /\ UNCHANGED <<repo, checkout, built, mode, old, todo, current, outcome, disturbed, lints>>

\* the run says what it has done and ends with status 0,
Report ==
    /\ pc = "report"
    /\ End("ok")
    /\ UNCHANGED <<repo, checkout, built, file, disk, temp, old, disturbed, lints>>

\* or a print raises, and main returns 1 for a run whose work is done
Unreported ==
    /\ pc = "report"
    /\ End("unreported")
    /\ UNCHANGED <<repo, checkout, built, file, disk, temp, old, disturbed, lints>>

\* the system writes its cache back
Flush ==
    /\ disk' = {file}
    /\ UNCHANGED <<repo, checkout, built, file, temp, script, disturbed, lints>>

\* the process is killed: no `finally` runs
Kill ==
    /\ pc # "idle"
    /\ End("killed")
    /\ UNCHANGED <<repo, checkout, built, file, disk, temp, old, disturbed, lints>>

PowerLoss ==
    /\ file' \in disk
    /\ disk' = {file'}
    /\ End(IF outcome \in {"running", "ok", "unreported"} THEN "killed" ELSE outcome)
    /\ UNCHANGED <<repo, checkout, built, temp, old, disturbed, lints>>

Next ==
    \/ EditSource \/ EditBaseline \/ MergeMain
    \/ Enqueue \/ Check \/ MergeHead \/ Remove
    \/ Start \/ Fail \/ CheckBase \/ Build \/ Collect \/ Decide
    \/ WriteTemp \/ Sync \/ Replace \/ Report \/ Unreported
    \/ Flush \/ Kill \/ PowerLoss

Spec == Init /\ [][Next]_vars

-----------------------------------------------------------------------------
(* Properties. *)

\* Every variable stays in its range, and no finding outlives its run.
TypeOK ==
    /\ main \in Trees
    /\ queue \in Seq([base : Trees, tree : Trees, verdict : {"pending", "passed", "failed"}])
    /\ base \in Trees /\ source \in Baselines /\ built \in Baselines
    /\ file \in Files /\ disk \subseteq Files
    /\ temp \in [exists : BOOLEAN, pairs : Baselines, synced : BOOLEAN]
    /\ pc \in {"idle", "base", "build", "collect", "write", "sync", "replace", "report"}
    /\ mode \in [prune : BOOLEAN, noBuild : BOOLEAN, baseRef : BOOLEAN]
    /\ old \in Baselines /\ todo \subseteq Libraries /\ current \in Baselines
    /\ outcome \in {"none", "running", "malformed", "failed", "killed", "ok", "unreported"}
    /\ pc = "idle" => outcome # "running" /\ todo = {} /\ current = {}
    /\ disturbed \in BOOLEAN
    /\ edits \in Nat /\ lints \in Nat

\* The baseline of main lists exactly the findings of its sources that the policy
\* does not accept, whatever the order in which branches were linted, merged,
\* tested in the queue and taken out of it.
MainExact == main.baseline = Listed(main.source)

\* No step adds an exception to main's baseline (the "shrink-only" of lint.py's
\* first line).
MainShrinks == [][main'.baseline \subseteq main.baseline]_vars

\* At no point, a power loss included, is the baseline left half written
\* (write_baseline, 208-221).
NeverTorn == file # Torn /\ Torn \notin disk

\* A run that nobody disturbed has done all of its work or none: when it succeeds,
\* or fails only to say that it did, the baseline is the findings of the build it
\* linted, taken from the entries it had before, when it fails before the baseline
\* is as it was, when it dies it is one of the two; and only a run that died leaves
\* its temporary file.
RunIsAtomic ==
    pc = "idle" /\ ~disturbed =>
        /\ outcome \in {"ok", "unreported"} =>
              file = Complete(Listed(built)) /\ Listed(built) \subseteq old
        /\ outcome = "failed" => file = Complete(old)
        /\ outcome = "killed" => file \in {Complete(old), Complete(Listed(built))}
        /\ outcome # "killed" => temp = NoTemp
=============================================================================
