------------------------------ MODULE BuildJob ------------------------------
(***************************************************************************)
(* The build job of CI (.github/workflows/build.yml) as far as its Python  *)
(* checks and records depend on the build that one run hands to the next:  *)
(* the warning budgets of check-warning-log.py, the cited names of         *)
(* check-doc-names.py --resolve, and the table of module_times.py.         *)
(*                                                                         *)
(* Commits reach main while a run on main and one on a pull request work   *)
(* in directories of their own.  A run restores the newest build it finds, *)
(* rebuilds what its commit changed, checks, tests and records; only a run *)
(* on main that gets to its end saves what it built.                       *)
(***************************************************************************)
EXTENDS GuideNames, ModuleTimes

CONSTANTS
    Modules,    \* of the library and of the tests
    Library,    \* those of the library
    Cone,       \* the modules that one imports, directly or not, itself included
    Contents,   \* the sources each module may have: records of the names it declares
                \* and of its warning
    First,      \* the first commit
    Documents,  \* records of an ordinary guide, the migration guide (both in blocks)
                \* and the allowlist
    MaxPushes,  \* commits after the first
    MaxRuns     \* runs of the job

ASSUME ConeAssumption ==
    /\ Library \subseteq Modules
    /\ \A m \in Modules : m \in Cone[m] /\ Cone[m] \subseteq Modules
ASSUME BoundsAssumption == MaxPushes \in Nat /\ MaxRuns \in Nat

\* A commit has its hash, represented by a number, the sources of the modules it
\* contains, the dependencies' revision and the documents.
Sources(commit) == DOMAIN commit.source

\* the hash of a pull request, which is no commit of main
PullSha == MaxPushes + 1

IsCommit(c) ==
    /\ c \in [sha : 0 .. PullSha, deps : {0, 1}, source : {c.source}, documents : Documents]
    /\ Sources(c) \subseteq Modules /\ \A m \in Sources(c) : c.source[m] \in Contents[m]

ASSUME FirstAssumption == IsCommit(First)

Runs == {"main", "pull"}

VARIABLES
    main,   \* the newest commit of main
    pushes,
    caches, \* the builds saved, oldest first: their commit, oleans and table
    jobs,   \* the run on main and the one on a pull request
    started

vars == <<main, pushes, caches, jobs, started>>

-----------------------------------------------------------------------------
\* what Lake hashes to decide whether a module is up to date
Inputs(commit, m) ==
    [deps |-> commit.deps, source |-> [k \in Cone[m] \cap Sources(commit) |-> commit.source[k]]]

\* a pull request, or the next commit: one module is written or deleted, the
\* dependencies move, or the documents change
Changes(commit) ==
    (UNION {{[commit EXCEPT !.source = Overlay(commit.source, [k \in {m} |-> c])] : c \in Contents[m]} :
               m \in Modules})
    \cup {[commit EXCEPT !.source = [k \in Sources(commit) \ {m} |-> commit.source[k]]] : m \in Modules}
    \cup {[commit EXCEPT !.deps = 1 - commit.deps]}
    \cup {[commit EXCEPT !.documents = d] : d \in Documents}
Edits(commit, sha) == {[c EXCEPT !.sha = sha] : c \in Changes(commit)}

NoTable == [readable |-> FALSE, modules |-> Empty]
NoLog == [built |-> {}, warnings |-> {}]
NoJob == [pc |-> "idle", commit |-> First, oleans |-> Empty, table |-> NoTable,
          library |-> NoLog, tests |-> NoLog]

Init ==
    /\ main = First
    /\ pushes = 0 /\ started = 0
    /\ caches = <<>>
    /\ jobs = [r \in Runs |-> NoJob]

Push ==
    /\ pushes < MaxPushes /\ pushes' = pushes + 1
    /\ main' \in Edits(main, pushes')
    /\ UNCHANGED <<caches, jobs, started>>

\* the caches are evicted to keep to their budget; without the last one, runs would
\* start clean, as they may anyway
Evict ==
    /\ Len(caches) > 1
    /\ \E i \in DOMAIN caches :
          caches' = [k \in 1 .. Len(caches) - 1 |-> IF k < i THEN caches[k] ELSE caches[k + 1]]
    /\ UNCHANGED <<main, pushes, jobs, started>>

\* the restore keys: a build of this commit, of the same dependencies, or any; the
\* newest of the best ones
Rank(cache, commit) ==
    CASE cache.commit.sha = commit.sha -> 2
      [] cache.commit.sha # commit.sha /\ cache.commit.deps = commit.deps -> 1
      [] OTHER -> 0
Restores(i, commit) ==
    \A k \in DOMAIN caches :
        LET best == Rank(caches[i], commit) IN
        Rank(caches[k], commit) < best \/ (Rank(caches[k], commit) = best /\ k <= i)

\* a run starts, from a cache or, when there is none or it is the nightly one, clean
Start(r) ==
    /\ jobs[r].pc = "idle" /\ started < MaxRuns /\ started' = started + 1
    /\ \E commit \in (IF r = "main" THEN {main} ELSE Edits(main, PullSha)) :
          \/ jobs' = [jobs EXCEPT ![r] = [NoJob EXCEPT !.pc = "restored", !.commit = commit]]
          \/ \E i \in DOMAIN caches :
                /\ Restores(i, commit)
                /\ jobs' = [jobs EXCEPT ![r] =
                       [NoJob EXCEPT !.pc = "restored", !.commit = commit, !.oleans = caches[i].oleans,
                                     !.table = [readable |-> TRUE, modules |-> caches[i].table]]]
    /\ UNCHANGED <<main, pushes, caches>>

\* the modules that Lake rebuilds
Stale(job, modules) ==
    {m \in modules \cap Sources(job.commit) :
        m \notin DOMAIN job.oleans \/ job.oleans[m] # Inputs(job.commit, m)}

Buildable(commit, modules) == \A m \in modules \cap Sources(commit) : Cone[m] \subseteq Sources(commit)

\* lake build of some modules: oleans of deleted ones stay where they are
Built(job, modules) ==
    Overlay(job.oleans, [m \in Stale(job, modules) |-> Inputs(job.commit, m)])

Elaborated(commit, m) == [module |-> m, facet |-> "", inputs |-> Inputs(commit, m)]
Native(commit, m) == [module |-> m, facet |-> "c.o", inputs |-> Inputs(commit, m)]

\* the log has a line for each module that was rebuilt and one for its native code,
\* and the warnings of every module, rebuilt or not
LogOf(job, modules) ==
    [built |-> {Elaborated(job.commit, m) : m \in Stale(job, modules)}
               \cup {Native(job.commit, m) : m \in Stale(job, modules)},
     warnings |-> {[module |-> m, kind |-> Built(job, modules)[m].source[m].warning] :
                    m \in modules \cap Sources(job.commit)}]

BuildLibrary(r) ==
    LET job == jobs[r]
    IN /\ job.pc = "restored" /\ Buildable(job.commit, Library)
       /\ jobs' = [jobs EXCEPT ![r] = [job EXCEPT !.pc = "built", !.oleans = Built(job, Library),
                                                  !.library = LogOf(job, Library)]]
       /\ UNCHANGED <<main, pushes, caches, started>>

\* check-warning-log.py: no warning under the prefixes, but those excluded
WarningsPass(log, prefixes, excluded) ==
    \A w \in log.warnings : w.module \in prefixes => w.kind \in {"none"} \cup excluded

\* the names that docnames finds in the oleans, from the library's root modules on
Declared(job) ==
    UNION {job.oleans[m].source[m].names : m \in Library \cap Sources(job.commit)}

\* the lines of the guides, and the tokens that the checker collects from them
GuideLines == [d \in Documents |-> Render(d.guide)]
GuideTokens == [d \in Documents |-> Tokens(GuideLines[d], Render(d.migration))]

\* the budget of the library and the names that the documents cite
CheckLibrary(r) ==
    LET job == jobs[r]
        documents == job.commit.documents
    IN /\ job.pc = "built"
       /\ WarningsPass(job.library, Library, {"sorry"})
       /\ CheckPasses(GuideLines[documents], GuideTokens[documents], Declared(job), documents.allowlist)
       /\ jobs' = [jobs EXCEPT ![r].pc = "checked"]
       /\ UNCHANGED <<main, pushes, caches, started>>

\* lake test, and the budget of the test libraries
Test(r) ==
    LET job == jobs[r]
        log == LogOf(job, Modules)
    IN /\ job.pc = "checked" /\ Buildable(job.commit, Modules)
       /\ WarningsPass(log, Modules \ Library, {})
       /\ jobs' = [jobs EXCEPT ![r] = [job EXCEPT !.pc = "tested", !.oleans = Built(job, Modules),
                                                  !.tests = log]]
       /\ UNCHANGED <<main, pushes, caches, started>>

\* module_times.py update
Record(r) ==
    LET job == jobs[r]
        samples == ParseLogs(job.library.built, job.tests.built, Modules)
        updated == UpdateTable(LoadTable(job.table), samples, Sources(job.commit))
    IN /\ job.pc = "tested"
       /\ jobs' = [jobs EXCEPT ![r] = [job EXCEPT !.pc = "recorded",
                                                  !.table = [readable |-> TRUE, modules |-> updated]]]
       /\ UNCHANGED <<main, pushes, caches, started>>

\* only main saves its build
Save ==
    LET job == jobs["main"]
    IN /\ job.pc = "recorded"
       /\ caches' = Append(caches, [commit |-> job.commit, oleans |-> job.oleans,
                                    table |-> job.table.modules])
       /\ jobs' = [jobs EXCEPT !["main"] = NoJob]
       /\ UNCHANGED <<main, pushes, started>>

\* Faulty variant of Discard: the directory is left to the next run.
DiscardKeeping(r) ==
    /\ jobs[r].pc # "idle"
    /\ jobs' = [jobs EXCEPT ![r].pc = "idle"]
    /\ UNCHANGED <<main, pushes, caches, started>>

\* a run fails, is cancelled, or was on a pull request
Discard(r) ==
    /\ jobs[r].pc # "idle"
    /\ jobs' = [jobs EXCEPT ![r] = NoJob]
    /\ UNCHANGED <<main, pushes, caches, started>>

Next ==
    \/ Push \/ Evict \/ Save
    \/ \E r \in Runs :
          Start(r) \/ BuildLibrary(r) \/ CheckLibrary(r) \/ Test(r) \/ Record(r) \/ Discard(r)

Spec == Init /\ [][Next]_vars

-----------------------------------------------------------------------------
(* Properties. *)

\* Every variable stays in its range, a run that has ended leaves nothing behind, and
\* what is in the caches was built to its end.
TypeOK ==
    /\ IsCommit(main) /\ pushes \in 0 .. MaxPushes /\ started \in 0 .. MaxRuns
    /\ \A i \in DOMAIN caches :
          /\ IsCommit(caches[i].commit)
          /\ Sources(caches[i].commit) \subseteq DOMAIN caches[i].oleans
          /\ DOMAIN caches[i].table \subseteq DOMAIN caches[i].oleans
    /\ \A r \in Runs :
          /\ jobs[r].pc \in {"idle", "restored", "built", "checked", "tested", "recorded"}
          /\ IF jobs[r].pc = "idle" THEN jobs[r] = NoJob ELSE IsCommit(jobs[r].commit)
          /\ DOMAIN jobs[r].oleans \subseteq Modules /\ DOMAIN jobs[r].table.modules \subseteq Modules

\* Every entry of a recorded table was measured on the inputs that its module has in
\* the commit (module_times.py, 9-10), whatever builds the run and those before it
\* started from.
EntriesFresh(commit, table) ==
    \A m \in DOMAIN table : m \in Sources(commit) /\ table[m] = Inputs(commit, m)

TableFresh ==
    /\ \A i \in DOMAIN caches : EntriesFresh(caches[i].commit, caches[i].table)
    /\ \A r \in Runs : jobs[r].pc = "recorded" => EntriesFresh(jobs[r].commit, jobs[r].table.modules)

\* what the documents cite, as their author sees them
Citations == [d \in Documents |-> Cited(d.guide, d.migration)]

\* the checker collects what their author cites
ReadAsWritten == GuideTokens = Citations

\* The build that later runs start from is one of a commit whose own sources have no
\* warning but sorry in the library, none in the tests, and whose allowlist holds
\* exactly the cited names that the library of that commit does not declare, however
\* many of its modules were taken from older builds.
PublishedIsChecked ==
    \A i \in DOMAIN caches :
        LET commit == caches[i].commit
            documents == commit.documents
            names == UNION {commit.source[m].names : m \in Library \cap Sources(commit)}
        IN /\ \A m \in Sources(commit) :
                 commit.source[m].warning \in {"none"} \cup (IF m \in Library THEN {"sorry"} ELSE {})
           /\ documents.allowlist = Citations[documents] \ names
=============================================================================
