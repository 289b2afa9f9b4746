# VCVio: TLA+ models, checks and proofs

VCVio is a Lean 4 library for verified cryptography: computations with oracles
(`OracleComp`), handlers that answer their queries, games between an adversary
and a protocol, and the Python and shell tooling that keeps a repository of
1791 files consistent. This directory models the parts of it that are state
machines, checks them with TLC on small instances and proves about them with
TLAPS for all instances.

The Lean library proves *probabilistic* statements. The models here are
possibilistic: a sampled value is a nondeterministic choice, and what is
checked is which states, answers, orders and verdicts are possible at all. Most
of the definitions a security theorem quantifies over (a handler, a game, a
verdict) are exactly that kind of thing, and nothing in Lean's kernel says that
they were written down right.

## Inventory

| Component | State it keeps | Operations | Interacts with |
|---|---|---|---|
| Query tracking (`OracleComp/QueryTracking`) | cache, log, seed, budget, counters, one `StateT`/`WriterT` layer each | one handler per layer, called once for each query | layers stacked: an outer one calls the next inner one or answers itself |
| Programmed random oracle (`ProgrammingOracle.lean`) | cache and a bad flag | `withProgramming`, `withCachingTrackingPolicy` | two handlers compared on the same samples |
| UAKE game (`CryptoFoundations/AKE/UAKE`) | clock, challenge session, list of keyed sessions, snapshot | `openT`, `stepT`, `revealT`, `stepChallenge`; the end of the challenge phase; the guess | an adversary drives parties, which are Mealy machines |
| Honest execution (`Party.runHonest`) | two private states, message list, fuel | the loop over alternating `step`s | the same parties as the game |
| Forking (`SeededFork`, `ReplayFork`) | generated seed, what the first run left of it, the seed of the second run | generate, run, select, resample, run again | seed layer of query tracking; the forking lemmas |
| UC runtimes (`Interaction/UC`) | process and environment state, requests in flight, trace | process tick, environment event, deliver, accept | processes, schedulers, an external library (PolyFun) |
| State-separating packages (`StateSeparating`) | a heap of typed cells, bad flags | read, write, handlers with footprints | packages linked over one heap |
| Merkle extraction (`CryptoFoundations/MerkleTree`) | query log, partially extracted tree | resolve children, rebuild, open, compare | log of query tracking |
| PRF tag/reader example (`Examples/PRFTagReader`) | counters and sessions of tags | tag and reader queries | PRF and query tracking |
| Comment-fence checker (`scripts/check-comment-fences.py`) | position, line, stack of interpolated strings, open comment | one scanner step per token | reads every Lean source in CI |
| Migration codemod (`scripts/migrate-native-probability.py`) | the text of one file, reports, the files on disk | ten rewriting passes per file, write back, report | run by hand over a library; its tables feed the documentation checker |
| Documentation name checker (`check-doc-names.py`, `doc_refs.py`) | fence and table column while scanning, allowlist | find retired names; collect cited names, resolve them in the oleans | the build whose oleans it reads |
| Lint baseline (`scripts/lint.py`) | `nolints.json`, a temporary file, findings of a build | read, compare with a base, build, collect, decide, replace | the developer's checkout, the merge queue, main |
| Timing table and warning budgets (`module_times.py`, `check-warning-log.py`) | a table of module times that travels with the cached build | overlay with the build's log, drop deleted modules; check a log | Lake, the CI cache |
| CI build job (`.github/workflows/build.yml`) | saved builds (oleans and table), one working directory per run | restore, build, check, test, record, save | commits and pull requests, cache eviction |
| Other scripts (fragments, error classifier, shell scripts), semantics, program logic, lattice and hash-based schemes, C wrappers, quantum | none that outlives a call | | |

No modelled component runs threads over shared memory. What is hard is
interleaving, order and failure all the same: the adversary of a game is an
arbitrary program that may call any operation at any time; layers of a stack
observe each other's effects; transcripts of several sessions are stamped by one
clock and compared after the fact; a fork runs one computation twice on partly
common randomness; hand-written scanners carry a line counter, a bracket or a
fence through every kind of token; a script works for an hour on files that
people edit, and may be killed or lose power at any step; branches are tested on
top of one another in a merge queue; CI runs hand a cached build from commit to
commit. What would make each component correct:

- query tracking: answers are those of one function fixed in advance; log,
  cache, seed, budget and counter account for each other;
- programming: two handlers stay equal until both flag the same event;
- forking: the two runs differ at the selected query, and before it nowhere;
- UAKE: a verdict depends on the relaying of messages and on reveals of actual
  partners, on nothing the adversary can do afterwards;
- honest runs: they end, complete with equal keys, and are recognised as
  relayed;
- the scanners: they know which line they are on, always reach the end, and
  agree on what is a comment;
- the codemod: it captures no name, comes to rest, and reports what it leaves;
- the lint baseline: on main it is exact and only shrinks, and no crash tears it;
- the build job: times and checks that travel with a build are of that build.

`PROJECT.json` lists every component, modelled or not, and every hazard at its
line, with the properties that cover it or the reason why none does yet.

## Modules

| Module | What it models |
|---|---|
| `QueryTracking` | the data structures of `Structures.lean`: cache, log, seed |
| `RandomFunction` | **abstract**: an oracle whose answers come from one total function, kept as the set of the functions still possible |
| `CachedOracle` | `simulateQ` over `enforceOracle` / cache and log / `withPregen` / live oracle, both orders of cache and seed |
| `QueryTrackingProofs` | lemmas about logs: counts and ordinals of queries |
| `SeededFork` | `seededFork` with `generateSeed`, `takeAtIndex`, `addValue` and the seeded oracle: two runs of one arbitrary computation |
| `SeededForkProofs` | theorems about it |
| `ProgrammedPair` | `withProgramming` and `withCachingTrackingPolicy` side by side |
| `OracleHandlerProofs` | theorems about `CachedOracle` and `ProgrammedPair` |
| `UAKETranscript` | `Transcript.lean`: entries, clock, `interleave`, `Matching`, `pingPong` |
| `UAKEParty` | `Party.lean`: parties as records of the supports of `init`, `step`, `output`; `Scheme.Admissible` of `Defs.lean` |
| `UAKEGame` | `Defs.lean`: the oracle operations, the experiment, `finalize` |
| `UAKEGameProofs` | theorems about it |
| `UAKEHonest` | `runHonest`; refines `UAKEGame` |
| `UAKEHonestProofs` | theorems about it, the refinement among them |
| `UAKESchemes` | the schemes the runs use; `interleave` by recursion, to compare with |
| `CommentFences` | the scanner `block_comments`, `hidden_code`, `violations` |
| `CommentFencesProofs` | theorems about it |
| `LeanText` | Lean source as a sequence of tokens: brackets, strings and comments as `match_close`, `comment_spans`, `prose` and `lean_prose` see them |
| `CodemodPasses` | the ten passes of `migrate`, each an operator from text to text and reports |
| `DocNames` | the retired-name check of `check-doc-names.py` |
| `Codemod` | `main` of the codemod over the files of a library; composes the three |
| `LintBaseline` | `lint.py` in a checkout, the checkout's life, the merge queue and main |
| `LintBaselineProofs` | theorems about it |
| `GuideNames` | `code_spans`, `guide_spans`, `collect_tokens` and `--resolve` of `check-doc-names.py`, and the blocks an author writes |
| `ModuleTimes` | `module_times.py`: parse, load, update |
| `BuildJob` | the build job of CI over commits, caches and runs; composes the two |
| `BuildJobProofs` | theorems about it |
| `MC*` | constants for TLC |

### Query tracking

One step of `CachedOracle` is one query of the computation, answered by
whichever layer stops it. `Denied` is `enforceOracle` out of budget (the
default, no layer reached). Otherwise `Forward` charges the budget and appends
to the log, and the answer comes from `FromCache` (a hit of `withCaching`),
`FromSeed` (`withPregen` with a value left) or `Fresh` (the live oracle, whose
answer is cached, counted by `calls`). `CacheFirst` says which of the two
middle layers is the outer one, the distinction `SeededOracle.lean` warns
about. `view` (what the computation received), `seed0` and `budget0` are history
variables. The dependent answer types of the source are one set `Answer`.

`RandomFunction` knows no cache. `CachedOracle` maps its cache to the set of the
functions that agree with it (`QueryCache.AgreesWithFn`): a hit or a fresh
answer is a query of the random function, a denied query is a stuttering step.

`ProgrammedPair` runs one computation against both handlers. While their
answers agree the computation is in the same place on both sides, so both get
the same query and the same fresh sample (`Together`); afterwards each side goes
on alone (`ProgAlone`, `TrackAlone`). Its parts have names of their own (`PairInit`,
`PairNext`, `PairSpec`), so that one module can prove about it and about
`CachedOracle` with the same lemmas.

### Forking

`SeededFork` has the seeds and the queries of `seededFork` as variables: the
generated seed, the one the run under way has left, the one the second run
starts from. `main` is *any* computation, but the same in both runs, and all
that is known of it is that what it asks and returns depends on the answers it
got. So `FirstQuery` asks anything, and `SecondQuery` repeats the first run as
long as the answers are the same (`Repeated`) and asks anything afterwards;
`SecondReturns` selects the same fork point if the second run is the first one.
`Resample` is the collision test with both of its branches and `ForkedSeed` the
line that builds the second seed. `live` counts the queries that fell through to
the real oracle. Each index may be asked more often than its budget, and the
seed may be generated from a list that misses the forked oracle or names it
twice, since `seededFork` assumes neither.

### UAKE

`UAKEGame` has the variables of `Env`, the challenge result, the hidden bit and
the verdict. Each query of `opImpl` that changes the environment is an action;
one that is answered without a change (an unknown or completed session, a
rejected message, a repeated reveal) is a stuttering step. The parties are
constants: for each state and message the *set* of results, so that a
probabilistic party is covered. `Rejected`, `Forged` and `Accepted` are the
branches of `Exp` with the snapshot of `challengeSession` and the first half of
`finalize`; `Guess` is its second half. The coin for a fully relayed, revealed
session is the verdict "coin".

`Interleave` is given in closed form, since provers do not unfold recursion; an
assumption of `UAKESchemes`, evaluated by TLC, compares it with the recursive
definition on lists of up to seven pairs.

`Admissible` (in `UAKEParty`) is what `Defs.lean` asks of a scheme before the game
says anything about it: `WellFormed`, `PerfectlyCorrect`, `HonestlyCompletes`, and
the convention "that party T speaks last", which its header (lines 24-27) names as
an assumption of the game that no predicate enforces. Statements about the honest
runs of a scheme are stated of a set `H` of configurations of `runHonestLoop` (two
states, the number of messages, the one in flight) that holds the initial ones and
is closed under steps (`HoldsHonestRuns`); each of them is as `HonestlyCorrect`
says. `UAKESchemes` computes `HonestConfigs`, the least such set of a finite scheme,
and both MC modules assume that their scheme is admissible with it
(`SchemeAdmissible`), which TLC evaluates: the theorems are about the schemes that
are checked.

`UAKEHonest` is `runHonest`. Its refinement mapping reconstructs the game's
transcripts and clock from the message list: message *i* was recorded by its
sender at tick 2i-2 and by its receiver at 2i-1.

### Comment fences

One step of `CommentFences` is one round of the loop in `block_comments` or of
a loop inside it (`CommentOpens`, `CommentCloses`, `CommentText`; `StringEscape`,
`StringEnd`, `StringText`); tokens that are skipped as a whole (raw strings,
character literals, identifiers) are one step. Characters are strings of length
one, the letters are those the tokens need, positions start at 1, and the one
interpolation prefix is `s!`. The prefixes of trace macros, Unicode classes and
the wording of messages are left out.

### Codemod and retired names

`Codemod` is a person with a library and the script. One action starts a run,
one reads a file, one is a pass of `migrate` (in the order of the code), and
writing is two: `write_text` empties the file (`Truncate`) before it fills it
(`Fill`). `Interrupt` may come anywhere and loses the reports, which `main`
prints only at the end; a `ValueError` that no pass catches does the same
(`Pass`, second disjunct). Reports are sets of file, line and subject.

A text is a sequence of tokens: the brackets, the quotes, the line break, one
blank, names. Regular expressions become conditions on neighbouring tokens.
The tables of the script (200 renames, 100 modules, 80 hints) are represented by
an entry of each shape that the passes tell apart: a name and a longer one it is
a prefix of, a qualified name, a name with placeholders. What a token spells is
abstracted; where one begins and ends is not, wherever a pass or a scanner looks.

`LeanText` has the four scanners that decide what is a comment, each translated
from its own code, so that `ScannersAgree` can compare them.

### Lint baseline

A tree is represented by the lint findings its sources have and the exceptions
its baseline lists. The developer edits sources and baseline, merges main and
queues the checkout (`EditSource`, `EditBaseline`, `MergeMain`, `Enqueue`); the
merge queue checks its entries in any order, merges its head and drops failed or
withdrawn entries with all behind them (`Check`, `MergeHead`, `Remove`). One run
of `lint.py` is `Start`, `CheckBase`, `Build`, `Collect` per library, `Decide`,
`WriteTemp`, `Sync`, `Replace`, `Report`; it may fail (`finally` removes the
temporary file), fail in its last prints, when the work is done (`Unreported`), be
killed (nothing removes the file), or meet a power loss, which leaves the baseline
with any contents in `disk`: `os.replace` is atomic, but the directory entry may
not have reached the disk, and data that were not synced may be torn.

The options of a run are chosen at its start: pruning, `--no-build`,
`--base-ref`. CI's gate is a run on a fresh build with the entry's base as
`--base-ref` (`Gate`).

### Build job

`BuildJob` has main's newest commit, the saved builds and two working
directories. A commit is the sources of its modules, the revision of the
dependencies and the documents; what Lake hashes for a module is a function of
the commit (`Inputs`), an olean and a time are represented by what they were made
from. A run restores the newest best-matching build or starts clean, and goes
through library build, warning budget and names check, tests, record; `Save` is
for main. `Discard` is a failure, a cancellation or the end of a pull request's
run, anywhere. Oleans of deleted modules stay in the build, as Lake leaves them.

`GuideNames` translates the document scanner and, next to it, says what a
document's blocks cite as their author sees them (`Cited`). `PublishedIsChecked`
compares the two through the whole job.

## Runs

| Run | States | What it shows |
|---|---|---|
| `CacheFirst` | 15114 | budget accounting, transparency of enforcement, log and cache agree, seeds used at most once, **implements `RandomFunction`** |
| `SeedFirst` | 19974 | in the other order: the seed in order, then one cached live answer |
| `ProgrammedPair` | 4097 | identical until bad; the flag is up exactly when a programmed, uncached point was asked; each side consistent |
| `UAKEToy3` | 74448 | clock discipline; matching means relayed; a guess counts, or is replaced by a coin, exactly for reveals of partners |
| `UAKENonce2` | 20796 | completed sessions frozen, challenge sealed, partners hold the same key |
| `Honest` | 1100 | runs end with any fuel, complete with equal keys within `rounds + 1` steps if nobody rejects, and **refine `UAKEGame`** also when cut short |
| `SeededFork` | 1015563 | answers shared, runs part at the fork only, success means a fork, live queries only behind it |
| `CommentFences` | 168065 | line counter, interpolation stack, located reports, termination |
| `Codemod` | 151117 | types, no name captured, repeated runs settle, what is left is reported, no renamed name escapes both scripts, the scanners agree |
| `LintBaseline` | 1614434 | main's baseline exact and shrinking, never torn, a run all or nothing |
| `BuildJob` | 555016 | types, recorded times fresh, published builds checked on their own sources |
| `CharacterNewline` | violation | a newline in a character literal is not counted |

Bounds, and why they are enough:

- *CacheFirst, SeedFirst*: two indices, two answers, five queries, seeds of
  length 0 to 2 and budgets that end before, at and after the queries do. A
  layer's behaviour at an index depends on hit or miss, seed left or not, budget
  left or not; all combinations occur, at two indices in every interleaving.
- *ProgrammedPair*: all nine policies and all nine caches over two points and
  two answers, three queries a side: programmed value equal to or different from
  the sample, cached and programmed at once, a repeated query after divergence.
- *UAKEToy3*: one challenge and three T sessions: a partner, a session that
  competes with it for the same messages, and one opened after the snapshot.
  *UAKENonce2*: two sessions, so that an answer can be replayed or crossed;
  two nonces, two keys.
- *Honest*: five messages, of which each is a fresh bit, so T leads and U
  completes; fuel 0 to 7, from no step to one more than a complete run takes;
  parties that may reject any message.
- *SeededFork*: the forked oracle with a budget of two and another with one, each
  asked up to once more than that; fork points 0, 1 and 2, the last one past the
  seed; a seed that covers both, one without the forked oracle, one with twice its
  answers. So the fork point lies before, at and past the end of the seed, and
  the second run before, at and past the fork.
- *CommentFences*: any three of seventeen tokens, any four after the opening of
  an interpolated string, any five after a comment at the margin. Each hazard of
  the scanner is a pair of a context and a token that ends or escapes it.
- *Codemod*: 836 libraries: every form of the old API over short terms, every form
  inside every part of another, in comments and strings, with unclosed brackets;
  names alone, qualified, as code spans, as quoted names; pairs of files of which
  one raises. Three runs, of which the first may be dry: two nested forms take two
  runs, the third must change nothing.
- *LintBaseline*: three findings (one in each of two libraries and one that the
  naming policy accepts), two edits, one run of the script, two queue entries: a
  prune by one entry and a source change by the other, in either order, with the
  first one dropped after the second was tested on it. The proofs need no bound.
- *BuildJob*: a module, one that imports it, and a test; two commits after the
  first and three runs on main or a pull request: delete, restore, change
  dependencies, evict the newer build. Three documents, of which one cites a name
  that only one version of the library declares.

The type invariants of `CachedOracle`, `ProgrammedPair`, `UAKEGame`, `SeededFork`
and `LintBaseline` are proved (`TypeCorrect`, `PairTypeCorrect`) and not checked by a run as well.

`LintBaseline` is checked for deadlock: somebody can always act. The other
configurations set `CHECK_DEADLOCK FALSE`: a computation stops when it returns or
when its bound is reached, a game is over after the verdict, a fork after its
second run, a scanner at the end of its file, and a codemod or CI has used up the
runs it is given.

Fairness is assumed in two specifications, `WF_vars(Next)`, and nowhere else.
`UAKEHonest`: the loop is structurally recursive on its fuel, in a monad that only
samples, so that a step that can be taken is taken. `CommentFences`: a
single-threaded loop that nothing suspends. The other specifications are driven
by an adversary, an arbitrary computation, or by people and machines that may
stop for good; no liveness is claimed of them. That the codemod comes to rest is
the invariant `Settles`, which counts the runs that reached their end.

### What the violation run shows

`CharacterNewline`: `skip_character_literal` steps over a newline that nobody
counts. Later reports of the file name the wrong line, which the docstrings of
`skip_string` and `skip_raw_string` name as the error to avoid. The run uses
sources with character quotes and newlines; `CommentFences` has character
literals without newlines and shows that the other places count correctly;
`LineAccurateHolds` proves it of every such file.

### Other observations

Seen while modelling, and not claimed as defects by any run:

- The docstring of `seededFork` (`SeededFork.lean:99-101`) says that it fails if the
  re-sampled answer equals the original. The code compares with the generated seed
  ("when present", as the comment at line 111 puts it): a computation that asks the
  forked oracle more often than its budget may fork at a query that was answered live,
  where there is nothing to compare with. Within the budget the docstring holds
  (`SuccessIsFork`).
- `module_times.py` (lines 9-13) concludes from the freshness of its entries, which
  holds (`TableFresh`), that the table covers the whole library. A module that was
  deleted and comes back unchanged is not rebuilt, because its olean was never
  removed: no log has a time for it, and its entry was dropped with its source.
  `TableFresh` excludes stale entries, not missing ones.
- A fork whose `cf` selects a query that was never asked succeeds with the same
  run twice, unless the fresh answer collides (`SuccessIsFork`, second branch).
- The docstrings of `Env.clock` (`Defs.lean:148`, `Transcript.lean:13`) say one
  tick per message sent; `recordOne` ticks for received ones too, and must, since
  Definition 3 orders sending before receipt.
- The codemod says "Everything the script cannot rewrite is reported" (line 28). That
  holds of the last of several runs: a form inside a rewritten one is looked at, and
  reported, only by the next run. The line of a report is counted in the text as an
  early pass saw it.
- `neverFail_iff`, `neverFail_bind_iff` and `evalDist_bind_congr_left` are among the
  hints but match none of the tokens that are reported. A quoted old name followed by
  a dot escapes the codemod and the checker.
- `lint.py` prints after it has replaced the baseline (lines 243-245); if that raises,
  it returns 1 for a run that has done its work. Status 1 does not say that the
  baseline is as it was (`RunIsAtomic`, outcome `unreported`).
- A bar inside a string splits an event in `top_level`; a line comment at the end of a
  computation swallows the bracket that the rewriting puts behind it; an uncaught
  `ValueError` ends the run and loses its reports (`Settles` and `LeftEventsReported`
  speak of runs that come to their end); `write_text` is not atomic.
- `lean_prose` starts every line outside strings; a string over several lines that
  holds a comment mark is taken for a comment (`ScannersAgree` excludes it).
- `guide_spans` takes a name followed by a parenthesis at the end of a line for
  current, although an arrow may follow on the next line.
- The docstring of `check-doc-names.py` says that the allowlist only shrinks; nothing
  compares it with an older one.

## Proofs

TLAPS checks the following for every value of the constants, from the named
assumptions that declare their types (`AnswerAssumption`,
`CachedOracleAssumption`, `ProgrammedPairAssumption`, `SeededForkAssumption`,
`MsgAssumption`, `KeyAssumption`, `GameAssumption`, `HonestAssumption`,
`FindingsAssumption`, `BoundsAssumption`, `ConeAssumption`, `FirstAssumption`,
`SourcesAssumption`). Further hypotheses are written into the theorems that need
them: the order of the layers, an admissible scheme, documents read as written,
character literals on one line.

- `QueryTrackingProofs`: a query counts at its index only, its ordinal is the
  count before it, earlier entries keep theirs. Later modules count by these.
- `OracleHandlerProofs`, of `CachedOracle`: `TypeCorrect`, `BudgetAccountingHolds` and
  `EnforcementTransparentHolds`; under `CacheFirst`,
  `CacheMatchesLogHolds`, `SeedUsedOnceHolds` and `Refinement`; under its negation
  `SeedServedInOrderHolds`. The budget
  properties are inductive together, by `CountQuery`. `SeedUsedOnce`
  is inductive together with the type: at each index it is a disjunction of the
  three lives an index can have, and each action either leaves the index in its
  life or moves it from the first to one of the others. For the refinement the
  invariant is that the cache determines the possible functions: a hit's answer
  is the only possible one, and caching a fresh answer removes exactly the
  functions that disagree. `SeedServedInOrder` is inductive with the type: it gives
  each position of the log its ordinal, which later queries do not change
  (`OrdinalQuery`), and says what is left of each seed by the count of its index.
- `SeededForkProofs`: `TypeCorrect` and the four properties of the run. The
  invariant says of each run what it has left of the seed it started from
  (`Left`), that its queries were answered from it in order (`Served`) and that
  ordinals are reached one after the other (`Reached`), and of the two together
  that they ask the same query after the same answers (`Determined`) and are
  equal so far or have a first difference (`Parted`). The last one makes the
  induction over positions unnecessary: a difference, once it exists, stays the
  first. `DivergesAtFork` compares the two seeds at the ordinal of a query; a
  query behind the fork point cannot come after equal answers, because the one at
  the fork point came before it.
- `OracleHandlerProofs`, of `ProgrammedPair`: `PairTypeCorrect` and the three
  properties of the run.
  `IdenticalUntilBad` is inductive with the type invariant: with the flags down
  both sides are one state, and a step either treats them alike or raises both
  flags; a raised flag is never lowered, whoever steps. The other two are about one
  side each and need one invariant together: the cache holds what was answered, and
  a point it did not hold at the start was asked before; so a programmed one raised
  the flag then.
- `UAKEGameProofs`: `MatchingIsRelaying` says, of any two increasing transcripts
  with disjoint timestamps, that the chain test of `Matching` holds exactly if
  every message was recorded by its sender first. `ClockSoundHolds` provides
  the premises: its inductive argument is that the stamps in use are exactly
  0 .. clock - 1, so a new stamp is both larger than and different from all
  others. Together they give `MatchingIffRelayedHolds`. `ChallengeSealedHolds` needs
  that `challengeDone` is set outside the challenge phase;
  `CompletedSessionsFrozenHolds` that only completed sessions are revealed.

  `PartnersAgreeHolds` and `VerdictByPartnersHolds` are about admissible schemes, and
  false of others: a T that goes on talking after U has its key could be stepped out
  of a match, or into one. The invariant (`AdmissibleInv`) follows each session
  against the challenge: as long as the two transcripts are in step (`InStep`: those of
  a relayed run, or with one message under way), their states are a configuration of `H`.
  Every query keeps that, because a query either delivers the message under way or
  makes the transcripts differ for good, by a message or by a timestamp. When U
  accepts, `rounds` messages have passed, of which T sent the last one; a matching
  session is then complete, with U's key, and frozen (`SnapshotInv`); one that does not
  match can only grow by entries younger than all of the challenge's (`Late`), and no
  such entry completes a match.
- `UAKEHonestProofs`: `ImplementsGameHolds` and `HonestlyCompletesHolds`, for
  admissible schemes, any fuel, and parties that may reject. The invariant
  (`HonestInv`) is that the run is in a configuration of `H` (`RunInv`), that
  the fuel left and the deliveries made are the bound given, and that a run that was
  neither rejected nor completed has spent its fuel. The step of the refinement is
  arithmetic on transcripts (`Tr`): a delivery appends one entry to the receiver's
  transcript at tick 2n - 1 and its answer, which leaves the sender's as it was, at
  2n (`ReceivedTr`, `ReplyTr`); so it is the query `stepT` or `stepChallenge` with
  that message. A run whose messages were all delivered has the timestamps
  0, 1, 2, ... in its chain (`DeliveredMatch`): U's key is then accepted and not
  taken for a forgery. While a message is in flight U has no key, and a run cut
  short is a rejected one. That complete runs have `rounds` messages and equal keys
  is what admissibility says of a scheme; what is proved is that the loop with a
  bound of `rounds + 1` gets there, and that the game recognises the run.
- `LintBaselineProofs`: all five properties, for every set of findings, libraries
  and bounds. For main, the invariant is that the queue is chained (each entry's base is the
  tree before it, `Chained`) and that what has passed satisfies the gate
  (`Judged`): then a head is merged only into the tree it was
  compared with, although it was queued behind another entry. For a run, `StepInv` says
  what it has collected and written at each step, and `FileInv` how it leaves the
  files: as they were up to the replacement, and done from then on (`Done`), whether
  or not the run gets to say so. Type correctness is needed everywhere.
- `BuildJobProofs`: `TableStaysFresh`. The invariant `IInv` is `JobsInv /\
  CachesInv`: an entry of the table is what its olean was built from, except for
  modules that this run built, of which the logs have a sample; a cached table
  agrees with its oleans. After the tests every olean of a module that exists is
  current, so that the overlaid table is. `TypeCorrect` rests on the commits
  staying well-formed under every edit (`EditsAreCommits`). `PublishedIsCheckedHolds`
  carries what a job has passed from the step that checked it to `Save`
  (`KeptInv`: from the build on, the oleans it reads and the warnings in its log are
  those of its commit; after the checks its library passes, after the tests its tests
  do; and so for every build a cache holds). It has one hypothesis, `ReadAsWritten`: the
  scanner finds in each of the documents the tokens that its blocks cite. That is
  an equality of two recursive functions over a document, an induction over data;
  it is an assumption of `MCBuildJob`, where TLC evaluates it for the documents of
  the run.
- `CommentFencesProofs`: the four invariants of the run, for every file. The work is in
  one lemma per kind of token, which says how a step moves (`Moves`): along a line
  without passing a newline (`Along`, which a character literal does whatever it
  holds), to the character after one (`Down`), or over a span whose newlines it counts
  (`Across`); `First` and `RawEnd` give the ends of the
  spans. `StepMoves` collects them for `Next`. From it `SafeInv` follows, the types
  with the place (`PlaceInv`: neither the line nor its start is ahead of the index;
  inside a comment the index is at most one past the end and the depth below it, and
  at depth 0 it is at an opening, so that the depth never falls below 0) and the stack
  (`InterpolationStack` is inductive with its type).

  `LineAccurate` is then an argument about sets of positions: a move along a line adds
  no newline above the index, a move down one, a move across those of the span, of
  which the last one starts the line. It has the hypothesis `CharactersOnOneLine`,
  that the character literals the scanner reads hold no newline; without it the
  property is false (see the violation run). The sources of the run `CommentFences`
  satisfy it and have such literals. `ReportsAreLocated` carries from the opening of
  a comment to its report where it opened (`ReportInv`): column 0 is the start of a
  line because the start of the line is accurate, and the last line of the comment is
  the counter behind its end. What `hidden_code` decides about the rest of that line
  does not matter to it.

  `ScannerAdvances` is the part of `Terminates` that needs no fairness: each step
  makes `Work`, a natural number below 3N + 5 for a file of N characters, smaller, so
  that none of the loops goes round without moving on. What is left to TLC is that
  before the end some step is always possible.

Only model-checked, and why:

- liveness (`Terminates` of `UAKEHonest` and `CommentFences`): under fairness, which
  needs `ENABLED` (of the latter, that every step advances is proved);
- the codemod: its passes are recursive operators, and what they do to every text is
  an induction over data;
- `ReadAsWritten`, and that the closed form of `Interleave` is the recursive
  `interleave` (`UAKESchemes`): evaluated by TLC on bounded inputs.

Some definitions are stated with quantifiers and counts where the source folds or
filters (`FullPingPong`, `SeedServedInOrder`), so that the same text is checked and
proved.

## Plan

What is left, in this order; proofs where marked (P).

1. `AsyncRuntime` (P): `runStepsAsync`, its two schedulers, tickets, weak and
   strong fairness; the synchronous runtime as the refined special case.
   `OracleNetwork` and `ReplayFork` as far as `src/` determines them.
2. `CellHeap` (P): write footprints of `StateSeparating`; `MerkleExtractor`
   over the query log.
3. The generated sections of `extract-doc-fragments.py` (an END mark before its
   BEGIN duplicates text), and `--style-only` of `lint.py`.

## Not modelled

- `ReplayFork`, the UC runtimes, `OracleNetwork`: their paths, contexts, processes and
  transition functions are types of an external library (PolyFun) that is not
  part of the repository; `src/` has laws about them.
- State-separating packages, Merkle extraction, the PRF tag/reader example: planned
  as above.
- Distributions and bounds on them, program logic and tactics: no state.
- Lattice arithmetic, hash-based signatures, the C wrappers and quantum
  semantics: data far beyond explicit-state checking.
- `extract-doc-fragments.py`, `check-agent-docs.py`, `classify-migration-errors.py`,
  the shell scripts: one pass over their input, no state that outlives it.
- Of modelled scripts: which files git lists, the wording of messages, exit codes
  other than success and failure, `--emit` and the link checks of the
  documentation checker, `--style-only`.
- Widgets and prose.
