--------------------------- MODULE BuildJobProofs ---------------------------
(***************************************************************************)
(* Proofs about BuildJob, for every set of modules, imports, contents and  *)
(* documents and every number of commits and runs.                         *)
(***************************************************************************)
EXTENDS BuildJob, SequenceTheorems, TLAPS

\* A job is a record with these fields.
Shape(job) ==
    job \in [pc : {job.pc}, commit : {job.commit}, oleans : {job.oleans}, table : {job.table},
             library : {job.library}, tests : {job.tests}]

\* An entry of the table is what the olean of its module was built from.
Consistent(oleans, table) ==
    \A m \in DOMAIN table : m \in Modules /\ m \in DOMAIN oleans /\ table[m] = oleans[m]

Lines(job) == job.library.built \cup job.tests.built

Sampled(job, m) == \E c \in Lines(job) : c.module = m /\ c.facet = ""

\* The logs of a run tell what its commit made Lake build.
LogTrue(log, commit) == \A c \in log : c.inputs = Inputs(commit, c.module)
LogsTrue(job) == LogTrue(job.library.built, job.commit) /\ LogTrue(job.tests.built, job.commit)

\* Only a module that the run built may have an entry that is not its olean's.
Covered(job) ==
    \A m \in DOMAIN job.table.modules :
        /\ m \in Modules /\ m \in DOMAIN job.oleans
        /\ job.table.modules[m] = job.oleans[m] \/ Sampled(job, m)

Current(job) ==
    \A m \in Modules \cap Sources(job.commit) :
        m \in DOMAIN job.oleans /\ job.oleans[m] = Inputs(job.commit, m)

JobInv(job) ==
    /\ Shape(job)
    /\ job.pc = "restored" => job.library = NoLog /\ job.tests = NoLog
    /\ job.pc \in {"built", "checked"} => job.tests = NoLog
    /\ job.pc \in {"restored", "built", "checked", "tested"} => LogsTrue(job) /\ Covered(job)
    /\ job.pc \in {"restored", "built", "checked", "tested"} /\ ~job.table.readable =>
          job.table.modules = Empty
    /\ job.pc = "tested" => Current(job)
    /\ job.pc = "recorded" =>
          EntriesFresh(job.commit, job.table.modules) /\ Consistent(job.oleans, job.table.modules)

CacheInv(cache) == EntriesFresh(cache.commit, cache.table) /\ Consistent(cache.oleans, cache.table)

\* The two parts of the invariant: the runs and the builds saved.
JobsInv ==
    /\ jobs \in [Runs -> {jobs[r] : r \in Runs}]
    /\ \A r \in Runs : JobInv(jobs[r])
CachesInv ==
    /\ caches \in Seq({caches[i] : i \in DOMAIN caches})
    /\ \A i \in DOMAIN caches : CacheInv(caches[i])

IInv == JobsInv /\ CachesInv

-----------------------------------------------------------------------------
(* The operators of ModuleTimes. *)

\* An overlay takes its entries from the second table, and the rest from the first.
LEMMA OverlayEntries ==
    ASSUME NEW f, NEW g
    PROVE  /\ DOMAIN Overlay(f, g) = DOMAIN f \cup DOMAIN g
           /\ \A m \in DOMAIN g : Overlay(f, g)[m] = g[m]
           /\ \A m \in DOMAIN f \ DOMAIN g : Overlay(f, g)[m] = f[m]
BY DEF Overlay

\* The samples of a log that tells the truth about a commit.
LEMMA SamplesTrue ==
    ASSUME NEW log, NEW commit, LogTrue(log, commit)
    PROVE  /\ \A m : m \in DOMAIN SamplesOf(log, Modules) <=>
                     m \in Modules /\ \E c \in log : c.module = m /\ c.facet = ""
           /\ \A m \in DOMAIN SamplesOf(log, Modules) : SamplesOf(log, Modules)[m] = Inputs(commit, m)
<1> DEFINE kept == {c \in log : IsModule(c, Modules)}
<1>1. kept = {c \in log : c.facet = "" /\ c.module \in Modules}
  BY DEF IsModule
<1>2. SamplesOf(log, Modules) =
        [m \in {c.module : c \in kept} |-> (CHOOSE c \in kept : c.module = m).inputs]
  BY DEF SamplesOf
<1>3. ASSUME NEW m \in {c.module : c \in kept}
      PROVE  (CHOOSE c \in kept : c.module = m).inputs = Inputs(commit, m)
  <2>1. \E c \in kept : c.module = m
    OBVIOUS
  <2>2. PICK d : d = (CHOOSE c \in kept : c.module = m)
    OBVIOUS
  <2>3. d \in kept /\ d.module = m
    BY <2>1, <2>2
  <2>4. QED
    BY <2>2, <2>3 DEF LogTrue
<1>4. \A m : m \in {c.module : c \in kept} <=> m \in Modules /\ \E c \in log : c.module = m /\ c.facet = ""
  BY <1>1
<1> HIDE DEF kept
<1>5. DOMAIN SamplesOf(log, Modules) = {c.module : c \in kept}
  BY <1>2
<1>6. \A m \in {c.module : c \in kept} : SamplesOf(log, Modules)[m] = Inputs(commit, m)
  BY <1>2, <1>3
<1>7. QED
  BY <1>4, <1>5, <1>6

\* What the two logs of a run say together.
LEMMA ParsedTrue ==
    ASSUME NEW job, LogsTrue(job)
    PROVE  LET samples == ParseLogs(job.library.built, job.tests.built, Modules)
           IN /\ \A m : m \in DOMAIN samples <=> m \in Modules /\ Sampled(job, m)
              /\ \A m \in DOMAIN samples : samples[m] = Inputs(job.commit, m)
<1> DEFINE lib == job.library.built
           tst == job.tests.built
           first == SamplesOf(lib, Modules)
           second == SamplesOf(tst, Modules)
<1>1. LogTrue(lib, job.commit) /\ LogTrue(tst, job.commit)
  BY DEF LogsTrue
<1> HIDE DEF lib, tst
<1>2. /\ \A m : m \in DOMAIN first <=> m \in Modules /\ \E c \in lib : c.module = m /\ c.facet = ""
      /\ \A m \in DOMAIN first : first[m] = Inputs(job.commit, m)
  BY <1>1, SamplesTrue
<1>3. /\ \A m : m \in DOMAIN second <=> m \in Modules /\ \E c \in tst : c.module = m /\ c.facet = ""
      /\ \A m \in DOMAIN second : second[m] = Inputs(job.commit, m)
  BY <1>1, SamplesTrue
<1>4. /\ DOMAIN Overlay(second, first) = DOMAIN second \cup DOMAIN first
      /\ \A m \in DOMAIN first : Overlay(second, first)[m] = first[m]
      /\ \A m \in DOMAIN second \ DOMAIN first : Overlay(second, first)[m] = second[m]
  BY OverlayEntries
<1>5. ParseLogs(lib, tst, Modules) = Overlay(second, first)
  BY DEF ParseLogs
<1> USE DEF lib, tst
<1>6. \A m : Sampled(job, m) <=>
        (\E c \in lib : c.module = m /\ c.facet = "") \/ (\E c \in tst : c.module = m /\ c.facet = "")
  BY DEF Sampled, Lines
<1> HIDE DEF first, second, lib, tst
<1>7. /\ \A m : m \in DOMAIN Overlay(second, first) <=> m \in Modules /\ Sampled(job, m)
      /\ \A m \in DOMAIN Overlay(second, first) : Overlay(second, first)[m] = Inputs(job.commit, m)
  BY <1>2, <1>3, <1>4, <1>6
<1>8. QED
  BY <1>5, <1>7 DEF lib, tst

-----------------------------------------------------------------------------
(* The steps of a run. *)

\* After lake build of some modules the log tells the truth, an entry of the table is
\* its olean's or the log has a sample, and what was built is current.
LEMMA BuildFacts ==
    ASSUME NEW job, NEW modules \in SUBSET Modules, Covered(job)
    PROVE  LET log == LogOf(job, modules).built
               oleans == Built(job, modules)
           IN /\ LogTrue(log, job.commit)
              /\ \A m \in DOMAIN job.table.modules :
                    /\ m \in Modules /\ m \in DOMAIN oleans
                    /\ \/ job.table.modules[m] = oleans[m]
                       \/ Sampled(job, m)
                       \/ \E c \in log : c.module = m /\ c.facet = ""
              /\ \A m \in modules \cap Sources(job.commit) :
                    m \in DOMAIN oleans /\ oleans[m] = Inputs(job.commit, m)
<1> DEFINE stale == Stale(job, modules)
           fresh == [m \in stale |-> Inputs(job.commit, m)]
           log == LogOf(job, modules).built
           oleans == Built(job, modules)
<1>1. log = {Elaborated(job.commit, m) : m \in stale} \cup {Native(job.commit, m) : m \in stale}
  BY DEF LogOf
<1>2. oleans = Overlay(job.oleans, fresh)
  BY DEF Built
<1>3. \A m \in modules \cap Sources(job.commit) :
        m \in stale \/ (m \in DOMAIN job.oleans \ stale /\ job.oleans[m] = Inputs(job.commit, m))
  BY DEF Stale
<1> HIDE DEF stale, log
<1>4. LogTrue(log, job.commit)
  <2>1. ASSUME NEW c \in log
        PROVE  c.inputs = Inputs(job.commit, c.module)
    <3>1. PICK m \in stale : c = Elaborated(job.commit, m) \/ c = Native(job.commit, m)
      BY <1>1
    <3>2. CASE c = Elaborated(job.commit, m)
      <4>1. c.module = m /\ c.inputs = Inputs(job.commit, m)
        BY <3>2 DEF Elaborated
      <4>2. QED
        BY <4>1, Zenon
    <3>3. CASE c = Native(job.commit, m)
      <4>1. c.module = m /\ c.inputs = Inputs(job.commit, m)
        BY <3>3 DEF Native
      <4>2. QED
        BY <4>1, Zenon
    <3>4. QED
      BY <3>1, <3>2, <3>3
  <2>2. QED
    BY <2>1 DEF LogTrue
<1>5. \A m \in stale : \E c \in log : c.module = m /\ c.facet = ""
  <2>1. ASSUME NEW m \in stale
        PROVE  \E c \in log : c.module = m /\ c.facet = ""
    <3>1. Elaborated(job.commit, m) \in log
      BY <1>1
    <3>2. Elaborated(job.commit, m).module = m /\ Elaborated(job.commit, m).facet = ""
      BY DEF Elaborated
    <3>3. QED
      BY <3>1, <3>2, Zenon
  <2>2. QED
    BY <2>1
<1>6. DOMAIN fresh = stale /\ \A m \in stale : fresh[m] = Inputs(job.commit, m)
  OBVIOUS
<1> HIDE DEF fresh, oleans
<1>7. /\ DOMAIN oleans = DOMAIN job.oleans \cup stale
      /\ \A m \in stale : oleans[m] = Inputs(job.commit, m)
      /\ \A m \in DOMAIN job.oleans \ stale : oleans[m] = job.oleans[m]
  <2>1. /\ DOMAIN Overlay(job.oleans, fresh) = DOMAIN job.oleans \cup DOMAIN fresh
        /\ \A m \in DOMAIN fresh : Overlay(job.oleans, fresh)[m] = fresh[m]
        /\ \A m \in DOMAIN job.oleans \ DOMAIN fresh : Overlay(job.oleans, fresh)[m] = job.oleans[m]
    BY OverlayEntries
  <2>2. QED
    BY <1>2, <1>6, <2>1
<1>8. \A m \in DOMAIN job.table.modules :
        /\ m \in Modules /\ m \in DOMAIN oleans
        /\ \/ job.table.modules[m] = oleans[m]
           \/ Sampled(job, m)
           \/ \E c \in log : c.module = m /\ c.facet = ""
  BY <1>5, <1>7 DEF Covered
<1>9. \A m \in modules \cap Sources(job.commit) :
        m \in DOMAIN oleans /\ oleans[m] = Inputs(job.commit, m)
  BY <1>3, <1>7
<1>10. QED
  BY <1>4, <1>8, <1>9 DEF log, oleans

\* The library is built by a run that has logged nothing.
LEMMA LibraryStep ==
    ASSUME NEW job, JobInv(job), job.pc = "restored"
    PROVE  JobInv([job EXCEPT !.pc = "built", !.oleans = Built(job, Library),
                              !.library = LogOf(job, Library)])
<1> DEFINE j == [job EXCEPT !.pc = "built", !.oleans = Built(job, Library), !.library = LogOf(job, Library)]
<1> Shape(job)
  BY DEF JobInv
<1>1. /\ Shape(j) /\ j.pc = "built" /\ j.commit = job.commit /\ j.table = job.table
      /\ j.oleans = Built(job, Library) /\ j.library = LogOf(job, Library) /\ j.tests = job.tests
  BY DEF Shape
<1> HIDE DEF j
<1>2. job.library.built = {} /\ job.tests.built = {} /\ job.tests = NoLog
  BY DEF JobInv, NoLog
<1>3. Library \in SUBSET Modules /\ Covered(job) /\ LogsTrue(job)
  BY ConeAssumption DEF JobInv
<1> DEFINE log == LogOf(job, Library).built
           oleans == Built(job, Library)
<1>4. /\ LogTrue(log, job.commit)
      /\ \A m \in DOMAIN job.table.modules :
            /\ m \in Modules /\ m \in DOMAIN oleans
            /\ \/ job.table.modules[m] = oleans[m]
               \/ Sampled(job, m)
               \/ \E c \in log : c.module = m /\ c.facet = ""
  BY <1>3, BuildFacts
<1>5. LogsTrue(j)
  BY <1>1, <1>3, <1>4 DEF LogsTrue
<1>6. Covered(j)
  <2>1. Lines(job) = {} /\ Lines(j) = log
    BY <1>1, <1>2 DEF Lines
  <2>2. \A m : ~Sampled(job, m) /\ (Sampled(j, m) <=> \E c \in log : c.module = m /\ c.facet = "")
    BY <2>1 DEF Sampled
  <2>3. j.table.modules = job.table.modules /\ j.oleans = oleans
    BY <1>1
  <2> HIDE DEF log, oleans
  <2>4. QED
    BY <1>4, <2>2, <2>3 DEF Covered
<1>7. ~j.table.readable => j.table.modules = Empty
  BY <1>1 DEF JobInv
<1>8. JobInv(j)
  BY <1>1, <1>2, <1>5, <1>6, <1>7 DEF JobInv
<1>9. QED
  BY <1>8 DEF j

\* The checks change nothing that the other steps rely on.
LEMMA CheckStep ==
    ASSUME NEW job, JobInv(job), job.pc = "built"
    PROVE  JobInv([job EXCEPT !.pc = "checked"])
<1> DEFINE j == [job EXCEPT !.pc = "checked"]
<1> Shape(job)
  BY DEF JobInv
<1>1. /\ Shape(j) /\ j.pc = "checked" /\ j.commit = job.commit /\ j.table = job.table
      /\ j.oleans = job.oleans /\ j.library = job.library /\ j.tests = job.tests
  BY DEF Shape
<1> HIDE DEF j
<1>2. job.tests = NoLog /\ LogsTrue(job) /\ Covered(job)
  BY DEF JobInv
<1>3. LogsTrue(j)
  BY <1>1, <1>2 DEF LogsTrue
<1>4. \A m : Sampled(j, m) <=> Sampled(job, m)
  BY <1>1 DEF Sampled, Lines
<1>5. Covered(j)
  BY <1>1, <1>2, <1>4 DEF Covered
<1>6. ~j.table.readable => j.table.modules = Empty
  BY <1>1 DEF JobInv
<1>7. JobInv(j)
  BY <1>1, <1>2, <1>3, <1>5, <1>6 DEF JobInv
<1>8. QED
  BY <1>7 DEF j

\* lake test adds its log to the library's, and leaves every olean of the commit current.
LEMMA TestStep ==
    ASSUME NEW job, JobInv(job), job.pc = "checked"
    PROVE  JobInv([job EXCEPT !.pc = "tested", !.oleans = Built(job, Modules),
                              !.tests = LogOf(job, Modules)])
<1> DEFINE j == [job EXCEPT !.pc = "tested", !.oleans = Built(job, Modules), !.tests = LogOf(job, Modules)]
<1> Shape(job)
  BY DEF JobInv
<1>1. /\ Shape(j) /\ j.pc = "tested" /\ j.commit = job.commit /\ j.table = job.table
      /\ j.oleans = Built(job, Modules) /\ j.tests = LogOf(job, Modules) /\ j.library = job.library
  BY DEF Shape
<1> HIDE DEF j
<1>2. job.tests.built = {} /\ Covered(job) /\ LogsTrue(job)
  BY DEF JobInv, NoLog
<1> DEFINE log == LogOf(job, Modules).built
           oleans == Built(job, Modules)
<1>3. /\ LogTrue(log, job.commit)
      /\ \A m \in DOMAIN job.table.modules :
            /\ m \in Modules /\ m \in DOMAIN oleans
            /\ \/ job.table.modules[m] = oleans[m]
               \/ Sampled(job, m)
               \/ \E c \in log : c.module = m /\ c.facet = ""
      /\ \A m \in Modules \cap Sources(job.commit) :
            m \in DOMAIN oleans /\ oleans[m] = Inputs(job.commit, m)
  <2>1. Modules \in SUBSET Modules
    OBVIOUS
  <2>2. QED
    BY <1>2, <2>1, BuildFacts
<1>4. LogsTrue(j)
  BY <1>1, <1>2, <1>3 DEF LogsTrue
<1>5. \A m : Sampled(j, m) <=> Sampled(job, m) \/ \E c \in log : c.module = m /\ c.facet = ""
  BY <1>1, <1>2 DEF Sampled, Lines
<1>6. j.table.modules = job.table.modules /\ j.oleans = oleans
  BY <1>1
<1>7. Current(j)
  BY <1>1, <1>3 DEF Current
<1>8. ~j.table.readable => j.table.modules = Empty
  BY <1>1 DEF JobInv
<1> HIDE DEF log, oleans
<1>9. Covered(j)
  BY <1>3, <1>5, <1>6 DEF Covered
<1>10. JobInv(j)
  BY <1>1, <1>4, <1>7, <1>8, <1>9 DEF JobInv
<1>11. QED
  BY <1>10 DEF j

\* What module_times.py records: every entry is a sample of this run, or one of the
\* table whose olean was restored with it and is current.
LEMMA RecordStep ==
    ASSUME NEW job, JobInv(job), job.pc = "tested"
    PROVE  LET samples == ParseLogs(job.library.built, job.tests.built, Modules)
               updated == UpdateTable(LoadTable(job.table), samples, Sources(job.commit))
           IN JobInv([job EXCEPT !.pc = "recorded", !.table = [readable |-> TRUE, modules |-> updated]])
<1> DEFINE samples == ParseLogs(job.library.built, job.tests.built, Modules)
           updated == UpdateTable(LoadTable(job.table), samples, Sources(job.commit))
           table == job.table.modules
           all == Overlay(table, samples)
           j == [job EXCEPT !.pc = "recorded", !.table = [readable |-> TRUE, modules |-> updated]]
<1> Shape(job)
  BY DEF JobInv
<1>1. LogsTrue(job) /\ Covered(job) /\ Current(job)
  BY DEF JobInv
<1>2. LoadTable(job.table) = table
  BY DEF JobInv, LoadTable
<1>3. updated = [m \in DOMAIN all \cap Sources(job.commit) |-> all[m]]
  BY <1>2 DEF UpdateTable
<1>4. /\ Shape(j) /\ j.pc = "recorded" /\ j.commit = job.commit /\ j.oleans = job.oleans
      /\ j.table.modules = updated
  BY DEF Shape
<1>5. /\ \A m : m \in DOMAIN samples <=> m \in Modules /\ Sampled(job, m)
      /\ \A m \in DOMAIN samples : samples[m] = Inputs(job.commit, m)
  BY <1>1, ParsedTrue
<1> HIDE DEF j, updated, samples
<1>6. /\ DOMAIN all = DOMAIN table \cup DOMAIN samples
      /\ \A m \in DOMAIN samples : all[m] = samples[m]
      /\ \A m \in DOMAIN table \ DOMAIN samples : all[m] = table[m]
  BY OverlayEntries
<1> HIDE DEF all
<1>7. ASSUME NEW m \in DOMAIN updated
      PROVE  /\ m \in Modules /\ m \in Sources(job.commit) /\ m \in DOMAIN job.oleans
             /\ updated[m] = Inputs(job.commit, m) /\ updated[m] = job.oleans[m]
  <2>1. m \in DOMAIN all /\ m \in Sources(job.commit) /\ updated[m] = all[m]
    BY <1>3
  <2>2. CASE m \in DOMAIN samples
    BY <1>1, <1>5, <1>6, <2>1, <2>2 DEF Current
  <2>3. CASE m \in DOMAIN table \ DOMAIN samples
    BY <1>1, <1>5, <1>6, <2>1, <2>3 DEF Current, Covered
  <2>4. QED
    BY <1>6, <2>1, <2>2, <2>3
<1>8. EntriesFresh(j.commit, j.table.modules) /\ Consistent(j.oleans, j.table.modules)
  BY <1>4, <1>7 DEF EntriesFresh, Consistent
<1>9. JobInv(j)
  BY <1>4, <1>8 DEF JobInv
<1>10. QED
  BY <1>9 DEF j, updated, samples

\* No job, and one that has just started clean or from a cache.
LEMMA IdleJob == JobInv(NoJob)
BY DEF JobInv, NoJob, Shape

LEMMA CleanStep ==
    ASSUME NEW commit
    PROVE  JobInv([NoJob EXCEPT !.pc = "restored", !.commit = commit])
<1> DEFINE j == [NoJob EXCEPT !.pc = "restored", !.commit = commit]
<1>1. /\ Shape(j) /\ j.pc = "restored" /\ j.table.modules = Empty
      /\ j.library = NoLog /\ j.tests = NoLog
  BY DEF Shape, NoJob, NoTable
<1> HIDE DEF j
<1>2. LogsTrue(j)
  BY <1>1 DEF LogsTrue, LogTrue, NoLog
<1>3. Covered(j)
  BY <1>1 DEF Covered, Empty
<1>4. JobInv(j)
  BY <1>1, <1>2, <1>3 DEF JobInv
<1>5. QED
  BY <1>4 DEF j

LEMMA StartStep ==
    ASSUME NEW commit, NEW oleans, NEW table,
           Consistent(oleans, table.modules), ~table.readable => table.modules = Empty
    PROVE  JobInv([NoJob EXCEPT !.pc = "restored", !.commit = commit, !.oleans = oleans, !.table = table])
<1> DEFINE j == [NoJob EXCEPT !.pc = "restored", !.commit = commit, !.oleans = oleans, !.table = table]
<1>1. /\ Shape(j) /\ j.pc = "restored" /\ j.oleans = oleans /\ j.table = table
      /\ j.library = NoLog /\ j.tests = NoLog
  BY DEF Shape, NoJob
<1> HIDE DEF j
<1>2. LogsTrue(j)
  BY <1>1 DEF LogsTrue, LogTrue, NoLog
<1>3. Covered(j)
  BY <1>1 DEF Covered, Consistent
<1>4. JobInv(j)
  BY <1>1, <1>2, <1>3 DEF JobInv
<1>5. QED
  BY <1>4 DEF j

-----------------------------------------------------------------------------
(* The invariant is inductive. *)

\* One job changes.
LEMMA OneJob ==
    ASSUME JobsInv, NEW r \in Runs, NEW j, JobInv(j), jobs' = [jobs EXCEPT ![r] = j]
    PROVE  JobsInv'
BY DEF JobsInv

\* A sequence is one of its own elements.
LEMMA OwnElements ==
    ASSUME NEW n \in Nat, NEW s, DOMAIN s = 1 .. n, s = [i \in 1 .. n |-> s[i]]
    PROVE  s \in Seq({s[i] : i \in DOMAIN s})
BY SeqDef

\* An eviction leaves some of the builds saved, in their order.
LEMMA EvictedCaches ==
    ASSUME CachesInv, Evict
    PROVE  /\ caches' \in Seq({caches'[i] : i \in DOMAIN caches'})
           /\ \A k \in DOMAIN caches' : \E i \in DOMAIN caches : caches'[k] = caches[i]
<1>1. Len(caches) \in Nat /\ Len(caches) > 1 /\ DOMAIN caches = 1 .. Len(caches)
  BY LenProperties DEF Evict, CachesInv
<1>2. PICK i \in DOMAIN caches :
        caches' = [k \in 1 .. Len(caches) - 1 |-> IF k < i THEN caches[k] ELSE caches[k + 1]]
  BY DEF Evict
<1>3. \A k \in 1 .. Len(caches) - 1 : k \in DOMAIN caches /\ k + 1 \in DOMAIN caches
  BY <1>1
<1>4. DOMAIN caches' = 1 .. Len(caches) - 1 /\ Len(caches) - 1 \in Nat
  BY <1>1, <1>2
<1>5. \A k \in DOMAIN caches' : caches'[k] = caches[k] \/ caches'[k] = caches[k + 1]
  BY <1>2, <1>4
<1>6. caches' = [k \in 1 .. Len(caches) - 1 |-> caches'[k]]
  BY <1>2
<1>7. caches' \in Seq({caches'[k] : k \in DOMAIN caches'})
  BY <1>4, <1>6, OwnElements
<1>8. QED
  BY <1>3, <1>4, <1>5, <1>7

\* What a run on main saves comes after the builds there are.
SavedCache ==
    [commit |-> jobs["main"].commit, oleans |-> jobs["main"].oleans, table |-> jobs["main"].table.modules]

LEMMA SavedCaches ==
    ASSUME CachesInv, Save
    PROVE  /\ caches' \in Seq({caches'[i] : i \in DOMAIN caches'})
           /\ \A k \in DOMAIN caches' :
                 caches'[k] = SavedCache \/ \E i \in DOMAIN caches : caches'[k] = caches[i]
<1> DEFINE S == {caches[i] : i \in DOMAIN caches} \cup {SavedCache}
<1>1. caches' = Append(caches, SavedCache)
  BY DEF Save, SavedCache
<1>2. caches \in Seq(S) /\ SavedCache \in S
  BY SeqMonotonic DEF CachesInv
<1> HIDE DEF S
<1>3. /\ Len(caches) \in Nat /\ DOMAIN caches = 1 .. Len(caches)
      /\ caches' \in Seq(S) /\ Len(caches') = Len(caches) + 1 /\ DOMAIN caches' = 1 .. Len(caches) + 1
      /\ \A i \in DOMAIN caches : caches'[i] = caches[i]
      /\ caches'[Len(caches) + 1] = SavedCache
  BY <1>1, <1>2, AppendProperties, LenProperties
<1>4. \A k \in DOMAIN caches' : k \in DOMAIN caches \/ k = Len(caches) + 1
  BY <1>3
<1>5. caches' = [i \in 1 .. Len(caches) + 1 |-> caches'[i]]
  BY <1>3, LenProperties
<1>6. Len(caches) + 1 \in Nat
  BY <1>3
<1>7. caches' \in Seq({caches'[i] : i \in DOMAIN caches'})
  BY <1>3, <1>5, <1>6, OwnElements
<1>8. QED
  BY <1>3, <1>4, <1>7

LEMMA InitInv == Init => IInv
<1> SUFFICES ASSUME Init PROVE IInv
  OBVIOUS
<1>1. JobsInv
  BY IdleJob DEF Init, JobsInv
<1>2. CachesInv
  BY DEF Init, CachesInv
<1>3. QED
  BY <1>1, <1>2 DEF IInv


LEMMA NextInv == IInv /\ [Next]_vars => IInv'
<1> SUFFICES ASSUME JobsInv, CachesInv, [Next]_vars PROVE JobsInv' /\ CachesInv'
  BY DEF IInv
<1>1. ASSUME caches' = caches
      PROVE  CachesInv'
  BY <1>1 DEF CachesInv
<1>2. ASSUME jobs' = jobs
      PROVE  JobsInv'
  BY <1>2 DEF JobsInv
<1>3. CASE Push
  BY <1>1, <1>2, <1>3 DEF Push
<1>4. CASE Evict
  <2>1. CachesInv'
    BY <1>4, EvictedCaches DEF CachesInv
  <2>2. QED
    BY <1>2, <1>4, <2>1 DEF Evict
<1>5. CASE Save
  <2>1. /\ jobs["main"].pc = "recorded" /\ jobs' = [jobs EXCEPT !["main"] = NoJob]
        /\ "main" \in Runs /\ JobInv(jobs["main"])
    BY <1>5 DEF Save, JobsInv, Runs
  <2>2. CacheInv(SavedCache)
    BY <2>1 DEF JobInv, CacheInv, SavedCache
  <2>3. CachesInv'
    BY <1>5, <2>2, SavedCaches DEF CachesInv
  <2>4. JobsInv'
    BY <2>1, IdleJob, OneJob
  <2>5. QED
    BY <2>3, <2>4
<1>6. ASSUME NEW r \in Runs, Start(r)
      PROVE  JobsInv' /\ CachesInv'
  <2>1. PICK commit :
          \/ jobs' = [jobs EXCEPT ![r] = [NoJob EXCEPT !.pc = "restored", !.commit = commit]]
          \/ \E i \in DOMAIN caches :
                jobs' = [jobs EXCEPT ![r] =
                    [NoJob EXCEPT !.pc = "restored", !.commit = commit, !.oleans = caches[i].oleans,
                                  !.table = [readable |-> TRUE, modules |-> caches[i].table]]]
    BY <1>6 DEF Start
  <2>2. CASE jobs' = [jobs EXCEPT ![r] = [NoJob EXCEPT !.pc = "restored", !.commit = commit]]
    <3>1. JobInv([NoJob EXCEPT !.pc = "restored", !.commit = commit])
      BY CleanStep
    <3>2. JobsInv'
      BY <2>2, <3>1, OneJob
    <3>3. QED
      BY <1>1, <1>6, <3>2 DEF Start
  <2>3. ASSUME NEW i \in DOMAIN caches,
               jobs' = [jobs EXCEPT ![r] =
                    [NoJob EXCEPT !.pc = "restored", !.commit = commit, !.oleans = caches[i].oleans,
                                  !.table = [readable |-> TRUE, modules |-> caches[i].table]]]
        PROVE  JobsInv'
    <3> DEFINE table == [readable |-> TRUE, modules |-> caches[i].table]
               j == [NoJob EXCEPT !.pc = "restored", !.commit = commit, !.oleans = caches[i].oleans,
                                  !.table = table]
    <3>1. Consistent(caches[i].oleans, table.modules) /\ table.readable
      BY DEF CachesInv, CacheInv
    <3> HIDE DEF table
    <3>2. JobInv(j)
      BY <3>1, StartStep
    <3>3. jobs' = [jobs EXCEPT ![r] = j]
      BY <2>3 DEF table
    <3> HIDE DEF j
    <3>4. QED
      BY <3>2, <3>3, OneJob
  <2>4. QED
    BY <1>1, <1>6, <2>1, <2>2, <2>3 DEF Start
<1>7. ASSUME NEW r \in Runs, BuildLibrary(r)
      PROVE  JobsInv' /\ CachesInv'
  <2>1. JobInv(jobs[r]) /\ jobs[r].pc = "restored"
    BY <1>7 DEF JobsInv, BuildLibrary
  <2>2. JobInv([jobs[r] EXCEPT !.pc = "built", !.oleans = Built(jobs[r], Library),
                               !.library = LogOf(jobs[r], Library)])
    BY <2>1, LibraryStep
  <2>3. QED
    BY <1>1, <1>7, <2>2, OneJob DEF BuildLibrary
<1>8. ASSUME NEW r \in Runs, CheckLibrary(r)
      PROVE  JobsInv' /\ CachesInv'
  <2>1. JobInv(jobs[r]) /\ jobs[r].pc = "built"
    BY <1>8 DEF JobsInv, CheckLibrary
  <2>2. JobInv([jobs[r] EXCEPT !.pc = "checked"])
    BY <2>1, CheckStep
  <2>3. jobs' = [jobs EXCEPT ![r] = [jobs[r] EXCEPT !.pc = "checked"]]
    BY <1>8 DEF CheckLibrary, JobsInv
  <2>4. QED
    BY <1>1, <1>8, <2>2, <2>3, OneJob DEF CheckLibrary
<1>9. ASSUME NEW r \in Runs, Test(r)
      PROVE  JobsInv' /\ CachesInv'
  <2>1. JobInv(jobs[r]) /\ jobs[r].pc = "checked"
    BY <1>9 DEF JobsInv, Test
  <2>2. JobInv([jobs[r] EXCEPT !.pc = "tested", !.oleans = Built(jobs[r], Modules),
                               !.tests = LogOf(jobs[r], Modules)])
    BY <2>1, TestStep
  <2>3. QED
    BY <1>1, <1>9, <2>2, OneJob DEF Test
<1>10. ASSUME NEW r \in Runs, Record(r)
       PROVE  JobsInv' /\ CachesInv'
  <2> DEFINE job == jobs[r]
             samples == ParseLogs(job.library.built, job.tests.built, Modules)
             updated == UpdateTable(LoadTable(job.table), samples, Sources(job.commit))
             j == [job EXCEPT !.pc = "recorded", !.table = [readable |-> TRUE, modules |-> updated]]
  <2>1. JobInv(job) /\ job.pc = "tested" /\ jobs' = [jobs EXCEPT ![r] = j] /\ caches' = caches
    BY <1>10 DEF JobsInv, Record
  <2>2. JobInv(j)
    BY <2>1, RecordStep
  <2> HIDE DEF j
  <2>3. QED
    BY <1>1, <2>1, <2>2, OneJob
<1>11. ASSUME NEW r \in Runs, Discard(r)
       PROVE  JobsInv' /\ CachesInv'
  BY <1>1, <1>11, IdleJob, OneJob DEF Discard
<1>12. CASE UNCHANGED vars
  BY <1>1, <1>2, <1>12 DEF vars
<1>13. QED
  BY <1>3, <1>4, <1>5, <1>6, <1>7, <1>8, <1>9, <1>10, <1>11, <1>12 DEF Next

-----------------------------------------------------------------------------

\* However builds are restored, evicted, cancelled or left unpublished, and however the
\* two runs interleave, every entry of a recorded or published table was measured on
\* the inputs that its module has in the commit (module_times.py update_table, run by
\* build.yml on a restored build).
THEOREM TableStaysFresh == Spec => []TableFresh
<1>1. IInv => TableFresh
  BY DEF IInv, JobsInv, CachesInv, JobInv, CacheInv, TableFresh
<1>2. QED
  BY <1>1, InitInv, NextInv, PTL DEF Spec

-----------------------------------------------------------------------------
(* Types, and what a published build was checked for. *)

\* The sources of the library and of the tests pass their budgets, and the allowlist
\* has exactly the collected names that the library's sources do not declare.
NamesOf(commit) == UNION {commit.source[m].names : m \in Library \cap Sources(commit)}

LibraryPassed(commit) ==
    /\ \A m \in Library \cap Sources(commit) : commit.source[m].warning \in {"none", "sorry"}
    /\ commit.documents.allowlist = GuideTokens[commit.documents] \ NamesOf(commit)

TestsPassed(commit) == \A m \in Sources(commit) \ Library : commit.source[m].warning = "none"

\* What the checks read is of the commit: the oleans of the library, wherever they
\* come from, and the log's warnings.
LibraryRead(job) ==
    \A m \in Library \cap Sources(job.commit) :
        /\ job.oleans[m] = Inputs(job.commit, m)
        /\ [module |-> m, kind |-> job.commit.source[m].warning] \in job.library.warnings

JobTyped(job) ==
    /\ job.pc \in {"idle", "restored", "built", "checked", "tested", "recorded"}
    /\ IF job.pc = "idle" THEN job = NoJob ELSE IsCommit(job.commit)
    /\ DOMAIN job.oleans \subseteq Modules

JobPassed(job) ==
    /\ job.pc = "built" => LibraryRead(job)
    /\ job.pc \in {"checked", "tested", "recorded"} => LibraryPassed(job.commit)
    /\ job.pc \in {"tested", "recorded"} => TestsPassed(job.commit) /\ Current(job)

JobKept(job) == JobTyped(job) /\ JobPassed(job)

CacheKept(cache) ==
    /\ IsCommit(cache.commit)
    /\ Sources(cache.commit) \subseteq DOMAIN cache.oleans /\ DOMAIN cache.oleans \subseteq Modules
    /\ LibraryPassed(cache.commit) /\ TestsPassed(cache.commit)

KeptInv ==
    /\ IsCommit(main) /\ pushes \in 0 .. MaxPushes /\ started \in 0 .. MaxRuns
    /\ \A r \in Runs : JobKept(jobs[r])
    /\ \A i \in DOMAIN caches : CacheKept(caches[i])

\* An edit of a commit is a commit.
LEMMA EditsAreCommits ==
    ASSUME NEW commit, IsCommit(commit), NEW sha \in 0 .. PullSha, NEW e \in Edits(commit, sha)
    PROVE  IsCommit(e)
<1>1. commit = [sha |-> commit.sha, deps |-> commit.deps, source |-> commit.source,
                documents |-> commit.documents]
  BY DEF IsCommit
<1>2. /\ commit.sha \in 0 .. PullSha /\ commit.deps \in {0, 1} /\ commit.documents \in Documents
      /\ Sources(commit) \subseteq Modules
      /\ \A m \in Sources(commit) : commit.source[m] \in Contents[m]
  BY DEF IsCommit
<1>3. ASSUME NEW source, DOMAIN source \subseteq Modules,
             \A m \in DOMAIN source : source[m] \in Contents[m],
             NEW deps \in {0, 1}, NEW documents \in Documents, NEW s \in 0 .. PullSha,
             NEW c, c = [sha |-> s, deps |-> deps, source |-> source, documents |-> documents]
      PROVE  IsCommit(c)
  BY <1>3 DEF IsCommit, Sources
<1>4. PICK d \in Changes(commit) : e = [d EXCEPT !.sha = sha]
  BY DEF Edits
<1>5. PICK source, deps, documents :
        /\ DOMAIN source \subseteq Modules /\ \A m \in DOMAIN source : source[m] \in Contents[m]
        /\ deps \in {0, 1} /\ documents \in Documents
        /\ d = [sha |-> commit.sha, deps |-> deps, source |-> source, documents |-> documents]
  <2>1. ASSUME NEW m \in Modules, NEW c \in Contents[m],
               d = [commit EXCEPT !.source = Overlay(commit.source, [k \in {m} |-> c])]
        PROVE  \E source \in {Overlay(commit.source, [k \in {m} |-> c])} :
                 /\ DOMAIN source \subseteq Modules /\ \A k \in DOMAIN source : source[k] \in Contents[k]
                 /\ d = [sha |-> commit.sha, deps |-> commit.deps, source |-> source,
                         documents |-> commit.documents]
    <3> DEFINE one == [k \in {m} |-> c]
               source == Overlay(commit.source, one)
    <3>1. DOMAIN one = {m} /\ one[m] = c
      OBVIOUS
    <3> HIDE DEF one
    <3>2. /\ DOMAIN source = Sources(commit) \cup {m} /\ source[m] = c
          /\ \A k \in Sources(commit) \ {m} : source[k] = commit.source[k]
      <4>1. /\ DOMAIN source = DOMAIN commit.source \cup DOMAIN one
            /\ \A k \in DOMAIN one : source[k] = one[k]
            /\ \A k \in DOMAIN commit.source \ DOMAIN one : source[k] = commit.source[k]
        BY OverlayEntries
      <4> HIDE DEF source
      <4>2. QED
        BY <3>1, <4>1 DEF Sources
    <3>3. d = [commit EXCEPT !.source = source]
      BY <2>1 DEF one
    <3> HIDE DEF source
    <3>4. d = [sha |-> commit.sha, deps |-> commit.deps, source |-> source,
               documents |-> commit.documents]
      BY <1>1, <3>3
    <3>5. DOMAIN source \subseteq Modules /\ \A k \in DOMAIN source : source[k] \in Contents[k]
      BY <1>2, <3>2
    <3>6. QED
      BY <3>4, <3>5 DEF source, one
  <2>2. ASSUME NEW m \in Modules,
               d = [commit EXCEPT !.source = [k \in Sources(commit) \ {m} |-> commit.source[k]]]
        PROVE  \E source \in {[k \in Sources(commit) \ {m} |-> commit.source[k]]} :
                 /\ DOMAIN source \subseteq Modules /\ \A k \in DOMAIN source : source[k] \in Contents[k]
                 /\ d = [sha |-> commit.sha, deps |-> commit.deps, source |-> source,
                         documents |-> commit.documents]
    <3> DEFINE source == [k \in Sources(commit) \ {m} |-> commit.source[k]]
    <3>1. DOMAIN source \subseteq Modules /\ \A k \in DOMAIN source : source[k] \in Contents[k]
      BY <1>2
    <3> HIDE DEF source
    <3>2. d = [commit EXCEPT !.source = source]
      BY <2>2 DEF source
    <3>3. d = [sha |-> commit.sha, deps |-> commit.deps, source |-> source,
               documents |-> commit.documents]
      BY <1>1, <3>2
    <3>4. QED
      BY <3>1, <3>3 DEF source
  <2>3. CASE d = [commit EXCEPT !.deps = 1 - commit.deps]
    <3>1. d = [sha |-> commit.sha, deps |-> 1 - commit.deps, source |-> commit.source,
               documents |-> commit.documents]
      BY <1>1, <2>3
    <3>2. 1 - commit.deps \in {0, 1}
      BY <1>2
    <3>3. QED
      BY <1>2, <3>1, <3>2 DEF Sources
  <2>4. ASSUME NEW documents \in Documents, d = [commit EXCEPT !.documents = documents]
        PROVE  d = [sha |-> commit.sha, deps |-> commit.deps, source |-> commit.source,
                    documents |-> documents]
    BY <1>1, <2>4
  <2>5. \/ \E m \in Modules : \E c \in Contents[m] :
              d = [commit EXCEPT !.source = Overlay(commit.source, [k \in {m} |-> c])]
        \/ \E m \in Modules :
              d = [commit EXCEPT !.source = [k \in Sources(commit) \ {m} |-> commit.source[k]]]
        \/ d = [commit EXCEPT !.deps = 1 - commit.deps]
        \/ \E documents \in Documents : d = [commit EXCEPT !.documents = documents]
    <3> DEFINE written == UNION {{[commit EXCEPT !.source = Overlay(commit.source, [k \in {m} |-> c])] :
                                     c \in Contents[m]} : m \in Modules}
               deleted == {[commit EXCEPT !.source = [k \in Sources(commit) \ {m} |-> commit.source[k]]] :
                             m \in Modules}
               moved == {[commit EXCEPT !.deps = 1 - commit.deps]}
               cited == {[commit EXCEPT !.documents = x] : x \in Documents}
    <3>0. Changes(commit) = written \cup deleted \cup moved \cup cited
      BY DEF Changes
    <3> HIDE DEF written, deleted, moved, cited
    <3>1. d \in written \/ d \in deleted \/ d \in moved \/ d \in cited
      BY <3>0
    <3>2. ASSUME d \in written
          PROVE  \E m \in Modules : \E c \in Contents[m] :
                    d = [commit EXCEPT !.source = Overlay(commit.source, [k \in {m} |-> c])]
      BY <3>2, Zenon DEF written
    <3>3. ASSUME d \in deleted
          PROVE  \E m \in Modules :
                    d = [commit EXCEPT !.source = [k \in Sources(commit) \ {m} |-> commit.source[k]]]
      BY <3>3, Zenon DEF deleted
    <3>4. ASSUME d \in moved
          PROVE  d = [commit EXCEPT !.deps = 1 - commit.deps]
      BY <3>4, Zenon DEF moved
    <3>5. ASSUME d \in cited
          PROVE  \E documents \in Documents : d = [commit EXCEPT !.documents = documents]
      BY <3>5, Zenon DEF cited
    <3>6. QED
      BY <3>1, <3>2, <3>3, <3>4, <3>5, Zenon
  <2>6. CASE \E m \in Modules : \E c \in Contents[m] :
                d = [commit EXCEPT !.source = Overlay(commit.source, [k \in {m} |-> c])]
    <3>1. PICK m \in Modules : \E c \in Contents[m] :
            d = [commit EXCEPT !.source = Overlay(commit.source, [k \in {m} |-> c])]
      BY <2>6
    <3>2. PICK source :
            /\ DOMAIN source \subseteq Modules /\ \A k \in DOMAIN source : source[k] \in Contents[k]
            /\ d = [sha |-> commit.sha, deps |-> commit.deps, source |-> source,
                    documents |-> commit.documents]
      BY <2>1, <3>1
    <3>3. QED
      BY <1>2, <3>2
  <2>7. CASE \E m \in Modules :
                d = [commit EXCEPT !.source = [k \in Sources(commit) \ {m} |-> commit.source[k]]]
    <3>1. PICK source :
            /\ DOMAIN source \subseteq Modules /\ \A k \in DOMAIN source : source[k] \in Contents[k]
            /\ d = [sha |-> commit.sha, deps |-> commit.deps, source |-> source,
                    documents |-> commit.documents]
      BY <2>2, <2>7
    <3>2. QED
      BY <1>2, <3>1
  <2>8. CASE \E documents \in Documents : d = [commit EXCEPT !.documents = documents]
    <3>1. PICK documents \in Documents :
            d = [sha |-> commit.sha, deps |-> commit.deps, source |-> commit.source,
                 documents |-> documents]
      BY <2>4, <2>8
    <3>2. QED
      BY <1>2, <3>1 DEF Sources
  <2>9. QED
    BY <2>3, <2>5, <2>6, <2>7, <2>8
<1>6. e = [sha |-> sha, deps |-> deps, source |-> source, documents |-> documents]
  BY <1>4, <1>5
<1>7. QED
  BY <1>3, <1>5, <1>6

\* The module is in its own cone, so its source is among its inputs.
LEMMA InputsOwn ==
    ASSUME NEW commit, NEW m \in Modules \cap Sources(commit)
    PROVE  Inputs(commit, m).source[m] = commit.source[m]
<1>1. m \in Cone[m] \cap Sources(commit)
  BY ConeAssumption
<1>2. Inputs(commit, m).source = [k \in Cone[m] \cap Sources(commit) |-> commit.source[k]]
  BY DEF Inputs
<1>3. QED
  BY <1>1, <1>2

\* A log has the warning that each module's source has, and lake build leaves no olean
\* of another module.
LEMMA WarningsTrue ==
    ASSUME NEW job, NEW modules \in SUBSET Modules, Covered(job)
    PROVE  /\ \A m \in modules \cap Sources(job.commit) :
                 [module |-> m, kind |-> job.commit.source[m].warning] \in LogOf(job, modules).warnings
           /\ DOMAIN Built(job, modules) \subseteq DOMAIN job.oleans \cup modules
<1>1. \A m \in modules \cap Sources(job.commit) : Built(job, modules)[m] = Inputs(job.commit, m)
  BY BuildFacts
<1>2. LogOf(job, modules).warnings =
        {[module |-> m, kind |-> Built(job, modules)[m].source[m].warning] :
            m \in modules \cap Sources(job.commit)}
  BY DEF LogOf
<1>3. ASSUME NEW m \in modules \cap Sources(job.commit)
      PROVE  [module |-> m, kind |-> job.commit.source[m].warning] \in LogOf(job, modules).warnings
  <2>1. Built(job, modules)[m].source[m] = job.commit.source[m]
    BY <1>1, InputsOwn
  <2>2. QED
    BY <1>2, <2>1
<1>4. DOMAIN Built(job, modules) \subseteq DOMAIN job.oleans \cup modules
  <2> DEFINE fresh == [m \in Stale(job, modules) |-> Inputs(job.commit, m)]
  <2>1. DOMAIN fresh \subseteq modules
    BY DEF Stale
  <2> HIDE DEF fresh
  <2>2. DOMAIN Overlay(job.oleans, fresh) = DOMAIN job.oleans \cup DOMAIN fresh
    BY OverlayEntries
  <2>3. Built(job, modules) = Overlay(job.oleans, fresh)
    BY DEF Built, fresh
  <2>4. QED
    BY <2>1, <2>2, <2>3
<1>5. QED
  BY <1>3, <1>4

\* The steps of a run keep its job typed and its commit checked.
LEMMA LibraryKeeps ==
    ASSUME NEW job, JobInv(job), JobKept(job), job.pc = "restored"
    PROVE  JobKept([job EXCEPT !.pc = "built", !.oleans = Built(job, Library),
                               !.library = LogOf(job, Library)])
<1> DEFINE j == [job EXCEPT !.pc = "built", !.oleans = Built(job, Library), !.library = LogOf(job, Library)]
<1> Shape(job)
  BY DEF JobInv
<1>1. /\ j.pc = "built" /\ j.commit = job.commit
      /\ j.oleans = Built(job, Library) /\ j.library = LogOf(job, Library)
  BY DEF Shape
<1> HIDE DEF j
<1>2. Library \in SUBSET Modules /\ Covered(job) /\ IsCommit(job.commit) /\ DOMAIN job.oleans \subseteq Modules
  BY ConeAssumption DEF JobInv, JobKept, JobTyped
<1>3. \A m \in Library \cap Sources(job.commit) : Built(job, Library)[m] = Inputs(job.commit, m)
  BY <1>2, BuildFacts
<1>4. /\ \A m \in Library \cap Sources(job.commit) :
            [module |-> m, kind |-> job.commit.source[m].warning] \in LogOf(job, Library).warnings
      /\ DOMAIN Built(job, Library) \subseteq DOMAIN job.oleans \cup Library
  BY <1>2, WarningsTrue
<1>5. LibraryRead(j)
  BY <1>1, <1>3, <1>4 DEF LibraryRead
<1>6. JobKept(j)
  BY <1>1, <1>2, <1>4, <1>5 DEF JobKept, JobTyped, JobPassed
<1>7. QED
  BY <1>6 DEF j

\* The checks find in the log and the oleans what the sources of the commit say.
LEMMA CheckKeeps ==
    ASSUME NEW job, JobInv(job), JobKept(job), job.pc = "built",
           WarningsPass(job.library, Library, {"sorry"}),
           CheckPasses(GuideLines[job.commit.documents], GuideTokens[job.commit.documents],
                       Declared(job), job.commit.documents.allowlist)
    PROVE  JobKept([job EXCEPT !.pc = "checked"])
<1> DEFINE j == [job EXCEPT !.pc = "checked"]
           commit == job.commit
<1> Shape(job)
  BY DEF JobInv
<1>1. j.pc = "checked" /\ j.commit = commit /\ j.oleans = job.oleans
  BY DEF Shape
<1> HIDE DEF j
<1>2. LibraryRead(job) /\ IsCommit(commit) /\ DOMAIN job.oleans \subseteq Modules /\ Library \subseteq Modules
  BY ConeAssumption DEF JobKept, JobTyped, JobPassed
<1>3. ASSUME NEW m \in Library \cap Sources(commit)
      PROVE  /\ commit.source[m].warning \in {"none", "sorry"}
             /\ job.oleans[m].source[m].names = commit.source[m].names
  <2>1. [module |-> m, kind |-> commit.source[m].warning] \in job.library.warnings
    BY <1>2 DEF LibraryRead
  <2>2. commit.source[m].warning \in {"none"} \cup {"sorry"}
    BY <2>1 DEF WarningsPass
  <2>3. job.oleans[m].source[m] = commit.source[m]
    BY <1>2, InputsOwn DEF LibraryRead
  <2>4. QED
    BY <2>2, <2>3
<1>4. Declared(job) = NamesOf(commit)
  <2>1. {job.oleans[m].source[m].names : m \in Library \cap Sources(commit)} =
        {commit.source[m].names : m \in Library \cap Sources(commit)}
    BY <1>3
  <2>2. QED
    BY <2>1 DEF Declared, NamesOf
<1>5. commit.documents.allowlist = GuideTokens[commit.documents] \ Declared(job)
  <2>1. ASSUME NEW tokens, NEW names, NEW allowlist,
               (tokens \ names) \ allowlist = {}, allowlist \ (tokens \ names) = {}
        PROVE  allowlist = tokens \ names
    BY <2>1
  <2>2. QED
    BY <2>1, Zenon DEF CheckPasses
<1>6. LibraryPassed(commit)
  BY <1>3, <1>4, <1>5 DEF LibraryPassed
<1>7. JobKept(j)
  BY <1>1, <1>2, <1>6 DEF JobKept, JobTyped, JobPassed
<1>8. QED
  BY <1>7 DEF j

LEMMA TestKeeps ==
    ASSUME NEW job, JobInv(job), JobKept(job), job.pc = "checked",
           WarningsPass(LogOf(job, Modules), Modules \ Library, {})
    PROVE  JobKept([job EXCEPT !.pc = "tested", !.oleans = Built(job, Modules),
                               !.tests = LogOf(job, Modules)])
<1> DEFINE j == [job EXCEPT !.pc = "tested", !.oleans = Built(job, Modules), !.tests = LogOf(job, Modules)]
           commit == job.commit
<1> Shape(job)
  BY DEF JobInv
<1>1. j.pc = "tested" /\ j.commit = commit /\ j.oleans = Built(job, Modules)
  BY DEF Shape
<1> HIDE DEF j
<1>2. /\ Modules \in SUBSET Modules /\ Covered(job) /\ LibraryPassed(commit) /\ IsCommit(commit)
      /\ Sources(commit) \subseteq Modules /\ DOMAIN job.oleans \subseteq Modules
  BY DEF JobInv, JobKept, JobTyped, JobPassed, IsCommit
<1>3. \A m \in Modules \cap Sources(commit) :
        m \in DOMAIN Built(job, Modules) /\ Built(job, Modules)[m] = Inputs(commit, m)
  BY <1>2, BuildFacts
<1>4. /\ \A m \in Modules \cap Sources(commit) :
            [module |-> m, kind |-> commit.source[m].warning] \in LogOf(job, Modules).warnings
      /\ DOMAIN Built(job, Modules) \subseteq DOMAIN job.oleans \cup Modules
  BY <1>2, WarningsTrue
<1>5. TestsPassed(commit)
  <2>1. ASSUME NEW m \in Sources(commit) \ Library
        PROVE  commit.source[m].warning = "none"
    <3> DEFINE w == [module |-> m, kind |-> commit.source[m].warning]
    <3>1. w \in LogOf(job, Modules).warnings /\ w.module \in Modules \ Library
      BY <1>2, <1>4
    <3>2. w.kind \in {"none"} \cup {}
      BY <3>1 DEF WarningsPass
    <3>3. QED
      BY <3>2
  <2>2. QED
    BY <2>1 DEF TestsPassed
<1>6. Current(j)
  BY <1>1, <1>3 DEF Current
<1>7. JobKept(j)
  BY <1>1, <1>2, <1>4, <1>5, <1>6 DEF JobKept, JobTyped, JobPassed
<1>8. QED
  BY <1>7 DEF j

LEMMA RecordKeeps ==
    ASSUME NEW job, JobInv(job), JobKept(job), job.pc = "tested", NEW table
    PROVE  JobKept([job EXCEPT !.pc = "recorded", !.table = table])
<1> DEFINE j == [job EXCEPT !.pc = "recorded", !.table = table]
<1> Shape(job)
  BY DEF JobInv
<1>1. j.pc = "recorded" /\ j.commit = job.commit /\ j.oleans = job.oleans
  BY DEF Shape
<1> HIDE DEF j
<1>2. /\ LibraryPassed(job.commit) /\ TestsPassed(job.commit) /\ Current(job)
      /\ IsCommit(job.commit) /\ DOMAIN job.oleans \subseteq Modules
  BY DEF JobKept, JobTyped, JobPassed
<1>3. Current(j)
  BY <1>1, <1>2 DEF Current
<1>4. JobKept(j)
  BY <1>1, <1>2, <1>3 DEF JobKept, JobTyped, JobPassed
<1>5. QED
  BY <1>4 DEF j

LEMMA IdleKept == JobKept(NoJob)
BY DEF JobKept, JobTyped, JobPassed, NoJob, Empty

LEMMA StartKeeps ==
    ASSUME NEW commit, IsCommit(commit), NEW oleans, DOMAIN oleans \subseteq Modules, NEW table
    PROVE  /\ JobKept([NoJob EXCEPT !.pc = "restored", !.commit = commit])
           /\ JobKept([NoJob EXCEPT !.pc = "restored", !.commit = commit, !.oleans = oleans, !.table = table])
BY DEF JobKept, JobTyped, JobPassed, NoJob, Empty

-----------------------------------------------------------------------------
(* The second invariant is inductive too, given the first. *)

LEMMA KeptInit == Init => KeptInv
<1> SUFFICES ASSUME Init PROVE KeptInv
  OBVIOUS
<1>1. \A r \in Runs : JobKept(jobs[r])
  BY IdleKept DEF Init
<1>2. IsCommit(main) /\ pushes \in 0 .. MaxPushes /\ started \in 0 .. MaxRuns
  BY FirstAssumption, BoundsAssumption DEF Init
<1>3. \A i \in DOMAIN caches : CacheKept(caches[i])
  BY DEF Init
<1>4. QED
  BY <1>1, <1>2, <1>3 DEF KeptInv

\* One job changes.
LEMMA OneKept ==
    ASSUME JobsInv, \A r \in Runs : JobKept(jobs[r]), NEW r \in Runs, NEW j, JobKept(j),
           jobs' = [jobs EXCEPT ![r] = j]
    PROVE  \A k \in Runs : JobKept(jobs'[k])
<1>1. \A k \in Runs : jobs'[k] = j \/ jobs'[k] = jobs[k]
  BY DEF JobsInv
<1>2. QED
  BY <1>1

LEMMA KeptNext == IInv /\ KeptInv /\ [Next]_vars => KeptInv'
<1> SUFFICES ASSUME JobsInv, CachesInv, KeptInv, [Next]_vars PROVE KeptInv'
  BY DEF IInv
<1> DEFINE Numbers == IsCommit(main) /\ pushes \in 0 .. MaxPushes /\ started \in 0 .. MaxRuns
           Jobs == \A r \in Runs : JobKept(jobs[r])
           Caches == \A i \in DOMAIN caches : CacheKept(caches[i])
<1>1. Numbers /\ Jobs /\ Caches /\ (Numbers' /\ Jobs' /\ Caches' => KeptInv')
  BY DEF KeptInv
<1>2. UNCHANGED <<main, pushes, started>> => Numbers'
  BY <1>1
<1>3. UNCHANGED jobs => Jobs'
  BY <1>1
<1>4. UNCHANGED caches => Caches'
  BY <1>1
<1>5. \A r \in Runs : JobInv(jobs[r])
  BY DEF JobsInv
<1>6. ASSUME NEW r \in Runs, NEW j, JobKept(j), jobs' = [jobs EXCEPT ![r] = j]
      PROVE  Jobs'
  BY <1>1, <1>6, OneKept
<1>7. CASE Push
  <2>1. pushes < MaxPushes /\ pushes' = pushes + 1 /\ main' \in Edits(main, pushes')
    BY <1>7 DEF Push
  <2>2. pushes' \in 0 .. MaxPushes /\ pushes' \in 0 .. PullSha
    BY <1>1, <2>1, BoundsAssumption DEF PullSha
  <2>3. IsCommit(main')
    BY <1>1, <2>1, <2>2, EditsAreCommits
  <2>4. QED
    BY <1>1, <1>3, <1>4, <1>7, <2>2, <2>3 DEF Push
<1>8. CASE Evict
  <2>1. Caches'
    BY <1>1, <1>8, EvictedCaches
  <2>2. QED
    BY <1>1, <1>2, <1>3, <1>8, <2>1 DEF Evict
<1>9. CASE Save
  <2>1. /\ jobs["main"].pc = "recorded" /\ jobs' = [jobs EXCEPT !["main"] = NoJob]
        /\ "main" \in Runs /\ JobKept(jobs["main"])
    BY <1>1, <1>9 DEF Save, Runs
  <2>2. SavedCache.commit = jobs["main"].commit /\ SavedCache.oleans = jobs["main"].oleans
    BY DEF SavedCache
  <2>3. CacheKept(SavedCache)
    <3>1. /\ IsCommit(jobs["main"].commit) /\ DOMAIN jobs["main"].oleans \subseteq Modules
          /\ LibraryPassed(jobs["main"].commit) /\ TestsPassed(jobs["main"].commit)
          /\ Current(jobs["main"])
      BY <2>1 DEF JobKept, JobTyped, JobPassed
    <3>2. Sources(jobs["main"].commit) \subseteq DOMAIN jobs["main"].oleans
      BY <3>1 DEF Current, IsCommit
    <3>3. QED
      BY <2>2, <3>1, <3>2 DEF CacheKept
  <2>4. Caches'
    BY <1>1, <1>9, <2>3, SavedCaches
  <2>5. Jobs'
    BY <1>6, <2>1, IdleKept
  <2>6. QED
    BY <1>1, <1>2, <1>9, <2>4, <2>5 DEF Save
<1>10. ASSUME NEW r \in Runs, Start(r)
       PROVE  KeptInv'
  <2>1. PICK commit \in (IF r = "main" THEN {main} ELSE Edits(main, PullSha)) :
          \/ jobs' = [jobs EXCEPT ![r] = [NoJob EXCEPT !.pc = "restored", !.commit = commit]]
          \/ \E i \in DOMAIN caches :
                jobs' = [jobs EXCEPT ![r] =
                    [NoJob EXCEPT !.pc = "restored", !.commit = commit, !.oleans = caches[i].oleans,
                                  !.table = [readable |-> TRUE, modules |-> caches[i].table]]]
    BY <1>10 DEF Start
  <2>2. IsCommit(commit)
    <3>1. PullSha \in 0 .. PullSha
      BY BoundsAssumption DEF PullSha
    <3>2. QED
      BY <1>1, <2>1, <3>1, EditsAreCommits
  <2>3. Numbers'
    <3>1. started < MaxRuns /\ started' = started + 1 /\ main' = main /\ pushes' = pushes
      BY <1>10 DEF Start
    <3>2. QED
      BY <1>1, <3>1, BoundsAssumption
  <2>4. ASSUME jobs' = [jobs EXCEPT ![r] = [NoJob EXCEPT !.pc = "restored", !.commit = commit]]
        PROVE  Jobs'
    <3>1. DOMAIN Empty \subseteq Modules
      BY DEF Empty
    <3>2. JobKept([NoJob EXCEPT !.pc = "restored", !.commit = commit])
      BY <2>2, <3>1, StartKeeps
    <3>3. QED
      BY <1>6, <2>4, <3>2
  <2>5. ASSUME NEW i \in DOMAIN caches,
               jobs' = [jobs EXCEPT ![r] =
                    [NoJob EXCEPT !.pc = "restored", !.commit = commit, !.oleans = caches[i].oleans,
                                  !.table = [readable |-> TRUE, modules |-> caches[i].table]]]
        PROVE  Jobs'
    <3> DEFINE table == [readable |-> TRUE, modules |-> caches[i].table]
               j == [NoJob EXCEPT !.pc = "restored", !.commit = commit, !.oleans = caches[i].oleans,
                                  !.table = table]
    <3>1. DOMAIN caches[i].oleans \subseteq Modules
      BY <1>1 DEF CacheKept
    <3>2. jobs' = [jobs EXCEPT ![r] = j]
      BY <2>5
    <3> HIDE DEF table
    <3>3. JobKept(j)
      BY <2>2, <3>1, StartKeeps
    <3> HIDE DEF j
    <3>4. QED
      BY <1>6, <3>2, <3>3
  <2>6. Jobs'
    BY <2>1, <2>4, <2>5
  <2>7. QED
    BY <1>1, <1>4, <1>10, <2>3, <2>6 DEF Start
<1>11. ASSUME NEW r \in Runs, BuildLibrary(r)
       PROVE  KeptInv'
  <2>1. JobInv(jobs[r]) /\ JobKept(jobs[r]) /\ jobs[r].pc = "restored"
    BY <1>1, <1>5, <1>11 DEF BuildLibrary
  <2>2. JobKept([jobs[r] EXCEPT !.pc = "built", !.oleans = Built(jobs[r], Library),
                                !.library = LogOf(jobs[r], Library)])
    BY <2>1, LibraryKeeps
  <2>3. Jobs'
    BY <1>6, <1>11, <2>2 DEF BuildLibrary
  <2>4. QED
    BY <1>1, <1>2, <1>4, <1>11, <2>3 DEF BuildLibrary
<1>12. ASSUME NEW r \in Runs, CheckLibrary(r)
       PROVE  KeptInv'
  <2>1. /\ JobInv(jobs[r]) /\ JobKept(jobs[r]) /\ jobs[r].pc = "built"
        /\ WarningsPass(jobs[r].library, Library, {"sorry"})
        /\ CheckPasses(GuideLines[jobs[r].commit.documents], GuideTokens[jobs[r].commit.documents],
                       Declared(jobs[r]), jobs[r].commit.documents.allowlist)
    BY <1>1, <1>5, <1>12 DEF CheckLibrary
  <2>2. JobKept([jobs[r] EXCEPT !.pc = "checked"])
    BY <2>1, CheckKeeps
  <2>3. jobs' = [jobs EXCEPT ![r] = [jobs[r] EXCEPT !.pc = "checked"]]
    BY <1>12 DEF CheckLibrary, JobsInv
  <2>4. Jobs'
    BY <1>6, <2>2, <2>3
  <2>5. QED
    BY <1>1, <1>2, <1>4, <1>12, <2>4 DEF CheckLibrary
<1>13. ASSUME NEW r \in Runs, Test(r)
       PROVE  KeptInv'
  <2>1. /\ JobInv(jobs[r]) /\ JobKept(jobs[r]) /\ jobs[r].pc = "checked"
        /\ WarningsPass(LogOf(jobs[r], Modules), Modules \ Library, {})
    BY <1>1, <1>5, <1>13 DEF Test
  <2>2. JobKept([jobs[r] EXCEPT !.pc = "tested", !.oleans = Built(jobs[r], Modules),
                                !.tests = LogOf(jobs[r], Modules)])
    BY <2>1, TestKeeps
  <2>3. Jobs'
    BY <1>6, <1>13, <2>2 DEF Test
  <2>4. QED
    BY <1>1, <1>2, <1>4, <1>13, <2>3 DEF Test
<1>14. ASSUME NEW r \in Runs, Record(r)
       PROVE  KeptInv'
  <2>1. JobInv(jobs[r]) /\ JobKept(jobs[r]) /\ jobs[r].pc = "tested"
    BY <1>1, <1>5, <1>14 DEF Record
  <2>2. PICK table : jobs' = [jobs EXCEPT ![r] = [jobs[r] EXCEPT !.pc = "recorded", !.table = table]]
    BY <1>14, Zenon DEF Record
  <2>3. JobKept([jobs[r] EXCEPT !.pc = "recorded", !.table = table])
    BY <2>1, RecordKeeps
  <2>4. Jobs'
    BY <1>6, <2>2, <2>3
  <2>5. QED
    BY <1>1, <1>2, <1>4, <1>14, <2>4 DEF Record
<1>15. ASSUME NEW r \in Runs, Discard(r)
       PROVE  KeptInv'
  <2>1. Jobs'
    BY <1>6, <1>15, IdleKept DEF Discard
  <2>2. QED
    BY <1>1, <1>2, <1>4, <1>15, <2>1 DEF Discard
<1>16. CASE UNCHANGED vars
  BY <1>1, <1>2, <1>3, <1>4, <1>16 DEF vars
<1>17. QED
  BY <1>7, <1>8, <1>9, <1>10, <1>11, <1>12, <1>13, <1>14, <1>15, <1>16 DEF Next

\* A run that is idle has no table entry, and an entry is always of a module.
LEMMA TableTyped ==
    ASSUME NEW job, JobInv(job), JobTyped(job)
    PROVE  DOMAIN job.table.modules \subseteq Modules
<1>1. CASE job.pc = "idle"
  BY <1>1 DEF JobTyped, NoJob, NoTable, Empty
<1>2. CASE job.pc = "recorded"
  BY <1>2 DEF JobInv, Consistent
<1>3. CASE job.pc \in {"restored", "built", "checked", "tested"}
  BY <1>3 DEF JobInv, Covered
<1>4. QED
  BY <1>1, <1>2, <1>3 DEF JobTyped

\* Every variable stays in its range, a run that has ended leaves nothing behind, and
\* what is in the caches was built to its end (build.yml: the build is saved by the
\* last step of a run on main).
THEOREM TypeCorrect == Spec => []TypeOK
<1>1. IInv /\ KeptInv => TypeOK
  <2> SUFFICES ASSUME IInv, KeptInv PROVE TypeOK
    OBVIOUS
  <2>1. ASSUME NEW i \in DOMAIN caches
        PROVE  /\ IsCommit(caches[i].commit)
               /\ Sources(caches[i].commit) \subseteq DOMAIN caches[i].oleans
               /\ DOMAIN caches[i].table \subseteq DOMAIN caches[i].oleans
    BY DEF IInv, CachesInv, CacheInv, Consistent, KeptInv, CacheKept
  <2>2. ASSUME NEW r \in Runs
        PROVE  /\ jobs[r].pc \in {"idle", "restored", "built", "checked", "tested", "recorded"}
               /\ IF jobs[r].pc = "idle" THEN jobs[r] = NoJob ELSE IsCommit(jobs[r].commit)
               /\ DOMAIN jobs[r].oleans \subseteq Modules /\ DOMAIN jobs[r].table.modules \subseteq Modules
    <3>1. JobInv(jobs[r]) /\ JobTyped(jobs[r])
      BY DEF IInv, JobsInv, KeptInv, JobKept
    <3>2. QED
      BY <3>1, TableTyped DEF JobTyped
  <2>3. QED
    BY <2>1, <2>2 DEF KeptInv, TypeOK
<1>2. QED
  BY <1>1, InitInv, NextInv, KeptInit, KeptNext, PTL DEF Spec

\* When the checker collects what the authors of the documents cite, the build that
\* later runs start from is one of a commit whose own sources have no warning but sorry
\* in the library and none in the tests, and whose allowlist is exact for the names that
\* its own library declares, however many oleans were taken from builds of other
\* commits (build.yml with check-warning-log.py and check-doc-names.py --resolve).
THEOREM PublishedIsCheckedHolds == ReadAsWritten => (Spec => []PublishedIsChecked)
<1> SUFFICES ASSUME ReadAsWritten PROVE Spec => []PublishedIsChecked
  OBVIOUS
<1>1. KeptInv => PublishedIsChecked
  <2> SUFFICES ASSUME KeptInv, NEW i \in DOMAIN caches
               PROVE  LET commit == caches[i].commit
                          documents == commit.documents
                          names == UNION {commit.source[m].names : m \in Library \cap Sources(commit)}
                      IN /\ \A m \in Sources(commit) :
                               commit.source[m].warning \in
                                  {"none"} \cup (IF m \in Library THEN {"sorry"} ELSE {})
                         /\ documents.allowlist = Citations[documents] \ names
    BY DEF PublishedIsChecked
  <2> DEFINE commit == caches[i].commit
  <2>1. LibraryPassed(commit) /\ TestsPassed(commit)
    BY DEF KeptInv, CacheKept
  <2>2. ASSUME NEW m \in Sources(commit)
        PROVE  commit.source[m].warning \in {"none"} \cup (IF m \in Library THEN {"sorry"} ELSE {})
    <3>1. CASE m \in Library
      BY <2>1, <3>1 DEF LibraryPassed
    <3>2. CASE m \notin Library
      BY <2>1, <3>2 DEF TestsPassed
    <3>3. QED
      BY <3>1, <3>2
  <2>3. commit.documents.allowlist = Citations[commit.documents] \ NamesOf(commit)
    BY <2>1 DEF LibraryPassed, ReadAsWritten
  <2>4. QED
    BY <2>2, <2>3 DEF NamesOf
<1>2. QED
  BY <1>1, InitInv, NextInv, KeptInit, KeptNext, PTL DEF Spec

==============================================================================
