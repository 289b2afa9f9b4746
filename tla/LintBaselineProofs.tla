------------------------- MODULE LintBaselineProofs -------------------------
(***************************************************************************)
(* Proofs about LintBaseline, for every set of findings and libraries and  *)
(* every bound.                                                            *)
(***************************************************************************)
EXTENDS LintBaseline, TLAPS

Entries == [base : Trees, tree : Trees, verdict : {"pending", "passed", "failed"}]

\* The initial states have their types.
LEMMA TypeInit == Init => TypeOK
<1> SUFFICES ASSUME Init PROVE TypeOK
  OBVIOUS
<1>1. main \in Trees
  BY DEF Init
<1>2. main.source \in Baselines /\ main.baseline \in Baselines
  BY <1>1 DEF Trees
<1>3. file \in Files /\ disk \subseteq Files
  BY <1>2 DEF Init, Files, Complete
<1>4. temp \in [exists : BOOLEAN, pairs : Baselines, synced : BOOLEAN]
  BY DEF Init, NoTemp, Baselines
<1>5. mode \in [prune : BOOLEAN, noBuild : BOOLEAN, baseRef : BOOLEAN]
  BY DEF Init, NoMode
<1>6. queue \in Seq(Entries)
  BY DEF Init
<1>7. old \in Baselines /\ todo \subseteq Libraries /\ current \in Baselines
  BY DEF Init, Baselines
<1>8. QED
  BY <1>1, <1>2, <1>3, <1>4, <1>5, <1>6, <1>7 DEF Init, TypeOK, Entries

\* Merging sets of findings gives a set of findings.
LEMMA MergeType ==
    ASSUME NEW from \in Baselines, NEW to \in Baselines, NEW onto \in Baselines
    PROVE  Merge3(from, to, onto) \in Baselines
BY DEF Merge3, Baselines

\* So does taking out what the naming policy accepts.
LEMMA ListedType ==
    ASSUME NEW findings \in Baselines
    PROVE  Listed(findings) \in Baselines /\ Listed(findings) \subseteq findings
BY DEF Listed, Baselines

\* A new entry of the queue is put on top of a tree.
LEMMA QueueEndType ==
    ASSUME main \in Trees, queue \in Seq(Entries)
    PROVE  QueueEnd \in Trees
<1>1. CASE queue = <<>>
  BY <1>1 DEF QueueEnd
<1>2. CASE queue # <<>>
  <2>1. Len(queue) \in 1 .. Len(queue)
    BY <1>2
  <2>2. queue[Len(queue)] \in Entries
    BY <2>1
  <2>3. QED
    BY <1>2, <2>2 DEF QueueEnd, Entries
<1>3. QED
  BY <1>1, <1>2

\* The entry a commit adds to the queue.
NewEntry ==
    [base |-> QueueEnd,
     tree |-> [source |-> Merge3(base.source, source, QueueEnd.source),
               baseline |-> Merge3(base.baseline, file.pairs, QueueEnd.baseline)],
     verdict |-> "pending"]

\* It is one.
LEMMA NewEntryType == ASSUME TypeOK PROVE NewEntry \in Entries
<1>1. QueueEnd \in Trees
  BY QueueEndType DEF TypeOK, Entries
<1>2. /\ base.source \in Baselines /\ base.baseline \in Baselines
      /\ source \in Baselines /\ file.pairs \in Baselines
      /\ QueueEnd.source \in Baselines /\ QueueEnd.baseline \in Baselines
  BY <1>1 DEF TypeOK, Trees, Files
<1>3. QED
  BY <1>1, <1>2, MergeType DEF NewEntry, Entries, Trees

\* Every step keeps the types of main and of the merge queue.
LEMMA QueueType ==
    ASSUME TypeOK, [Next]_vars
    PROVE  main' \in Trees /\ queue' \in Seq(Entries)
<1> /\ main \in Trees /\ queue \in Seq(Entries)
  BY DEF TypeOK, Entries
<1>2. CASE Enqueue
  BY <1>2, NewEntryType DEF Enqueue, NewEntry
<1>3. CASE Check
  <2>1. PICK i \in DOMAIN queue :
          queue' = [queue EXCEPT ![i].verdict = IF Gate(queue[i]) THEN "passed" ELSE "failed"]
    BY <1>3 DEF Check
  <2>2. queue[i] \in Entries
    OBVIOUS
  <2>3. [queue[i] EXCEPT !.verdict = IF Gate(queue[i]) THEN "passed" ELSE "failed"] \in Entries
    BY <2>2 DEF Entries
  <2>4. QED
    BY <1>3, <2>1, <2>3 DEF Check
<1>4. CASE MergeHead
  <2>1. queue[1] \in Entries
    BY <1>4 DEF MergeHead
  <2>2. QED
    BY <1>4, <2>1 DEF MergeHead, Entries
<1>5. CASE Remove
  <2>1. PICK i \in DOMAIN queue : queue' = SubSeq(queue, 1, i - 1)
    BY <1>5 DEF Remove
  <2>2. i \in 1 .. Len(queue) /\ \A k \in 1 .. i - 1 : queue[k] \in Entries
    OBVIOUS
  <2>3. QED
    BY <1>5, <2>1, <2>2 DEF Remove
<1>6. CASE UNCHANGED repo
  BY <1>6 DEF repo
<1>7. QED
  BY <1>2, <1>3, <1>4, <1>5, <1>6 DEF Next, vars, repo, EditSource, EditBaseline, MergeMain, Start,
     Fail, CheckBase, Build, Collect, Decide, WriteTemp, Sync, Replace, Report, Unreported, Flush,
     Kill, PowerLoss

\* The types of what main and the queue leave alone.
RestTyped ==
    /\ base \in Trees /\ source \in Baselines /\ built \in Baselines
    /\ file \in Files /\ disk \subseteq Files
    /\ temp \in [exists : BOOLEAN, pairs : Baselines, synced : BOOLEAN]
    /\ pc \in {"idle", "base", "build", "collect", "write", "sync", "replace", "report"}
    /\ mode \in [prune : BOOLEAN, noBuild : BOOLEAN, baseRef : BOOLEAN]
    /\ old \in Baselines /\ todo \subseteq Libraries /\ current \in Baselines
    /\ outcome \in {"none", "running", "malformed", "failed", "killed", "ok", "unreported"}
    /\ pc = "idle" => outcome # "running" /\ todo = {} /\ current = {}
    /\ disturbed \in BOOLEAN
    /\ edits \in Nat /\ lints \in Nat

\* A run that has ended has its types.
LEMMA EndType ==
    ASSUME NEW how \in {"failed", "killed", "ok", "unreported", "none", "malformed"}, End(how)
    PROVE  /\ pc' = "idle" /\ outcome' = how /\ todo' = {} /\ current' = {}
           /\ mode' \in [prune : BOOLEAN, noBuild : BOOLEAN, baseRef : BOOLEAN]
BY DEF End, NoMode

\* What the developer does to the checkout keeps the types.
LEMMA DeveloperType ==
    ASSUME TypeOK, EditSource \/ EditBaseline \/ MergeMain
    PROVE  RestTyped'
<1>1. CASE EditSource
  BY <1>1 DEF EditSource, TypeOK, RestTyped, script, Baselines
<1>2. CASE EditBaseline
  <2>1. file' \in Files
    <3>1. file.pairs \in Baselines
      BY DEF TypeOK, Files
    <3>2. \A f \in Findings : file.pairs \cup {f} \in Baselines /\ file.pairs \ {f} \in Baselines
      BY <3>1 DEF Baselines
    <3>3. Broken \in Files
      BY DEF Broken, Files, Baselines
    <3>4. \A pairs \in Baselines : Complete(pairs) \in Files
      BY DEF Complete, Files
    <3>5. QED
      BY <1>2, <3>2, <3>3, <3>4 DEF EditBaseline
  <2>2. QED
    BY <1>2, <2>1 DEF EditBaseline, TypeOK, RestTyped, script
<1>3. CASE MergeMain
  <2>1. /\ base.source \in Baselines /\ main.source \in Baselines
        /\ base.baseline \in Baselines /\ main.baseline \in Baselines /\ file.pairs \in Baselines
    BY DEF TypeOK, Trees, Files
  <2>2. source' \in Baselines
    BY <1>3, <2>1, MergeType DEF MergeMain, TypeOK
  <2>3. file' \in Files
    BY <1>3, <2>1, MergeType DEF MergeMain, Complete, Files
  <2>4. QED
    BY <1>3, <2>2, <2>3 DEF MergeMain, TypeOK, RestTyped, script
<1>4. QED
  BY <1>1, <1>2, <1>3

\* The steps of the script that read and decide keep the types.
LEMMA ReadType ==
    ASSUME TypeOK, Start \/ CheckBase \/ Build \/ Collect \/ Decide
    PROVE  RestTyped'
<1>1. CASE Start
  <2>1. temp' \in [exists : BOOLEAN, pairs : Baselines, synced : BOOLEAN] /\ current' \in Baselines
    BY <1>1 DEF Start, NoTemp, Baselines
  <2>2. file.pairs \in Baselines
    BY DEF TypeOK, Files
  <2>3. QED
    BY <1>1, <2>1, <2>2 DEF Start, TypeOK, RestTyped, checkout
<1>2. CASE CheckBase
  BY <1>2 DEF CheckBase, TypeOK, RestTyped, checkout
<1>3. CASE Build
  BY <1>3 DEF Build, TypeOK, RestTyped, checkout
<1>4. CASE Collect
  <2>1. current' \in Baselines
    BY <1>4 DEF Collect, TypeOK, Baselines
  <2>2. QED
    BY <1>4, <2>1 DEF Collect, TypeOK, RestTyped, checkout
<1>5. CASE Decide
  BY <1>5 DEF Decide, TypeOK, RestTyped, checkout
<1>6. QED
  BY <1>1, <1>2, <1>3, <1>4, <1>5

\* So do those that write, and the faults.
LEMMA WriteType ==
    ASSUME TypeOK, Fail \/ WriteTemp \/ Sync \/ Replace \/ Report \/ Unreported \/ Flush \/ Kill \/ PowerLoss
    PROVE  RestTyped'
<1>1. CASE Fail
  <2>1. End("failed") /\ temp' = NoTemp
    BY <1>1 DEF Fail
  <2>2. QED
    BY <1>1, <2>1, EndType DEF Fail, TypeOK, RestTyped, checkout, NoTemp, Baselines
<1>2. CASE WriteTemp
  <2>1. Listed(current) \in Baselines
    BY ListedType DEF TypeOK
  <2>2. QED
    BY <1>2, <2>1 DEF WriteTemp, TypeOK, RestTyped, checkout
<1>3. CASE Sync
  BY <1>3 DEF Sync, TypeOK, RestTyped, checkout
<1>4. CASE Replace
  <2>1. temp.pairs \in Baselines
    BY DEF TypeOK
  <2>2. Complete(temp.pairs) \in Files /\ Torn \in Files /\ NoTemp.pairs \in Baselines
    BY <2>1 DEF Complete, Torn, Files, NoTemp, Baselines
  <2>3. file' \in Files /\ disk' \subseteq Files
    BY <1>4, <2>2 DEF Replace, TypeOK
  <2>4. temp' \in [exists : BOOLEAN, pairs : Baselines, synced : BOOLEAN]
    BY <1>4 DEF Replace, NoTemp, Baselines
  <2>5. QED
    BY <1>4, <2>3, <2>4 DEF Replace, TypeOK, RestTyped, checkout
<1>5. CASE Flush
  BY <1>5 DEF Flush, TypeOK, RestTyped, checkout, script
<1>6. CASE Report \/ Unreported \/ Kill
  <2>1. PICK how \in {"ok", "unreported", "killed"} : End(how)
    BY <1>6 DEF Report, Unreported, Kill
  <2>2. UNCHANGED <<repo, checkout, built, file, disk, temp, old, disturbed, lints>>
    BY <1>6 DEF Report, Unreported, Kill
  <2>3. QED
    BY <2>1, <2>2, EndType DEF TypeOK, RestTyped, checkout, Baselines
<1>7. CASE PowerLoss
  <2>1. PICK how \in {"failed", "killed", "none", "malformed"} : End(how)
    BY <1>7 DEF PowerLoss, TypeOK
  <2>2. QED
    BY <1>7, <2>1, EndType DEF PowerLoss, TypeOK, RestTyped, checkout, Baselines
<1>8. QED
  BY <1>1, <1>2, <1>3, <1>4, <1>5, <1>6, <1>7

\* Every step keeps the types.
LEMMA TypeStep == TypeOK /\ [Next]_vars => TypeOK'
<1> SUFFICES ASSUME TypeOK, [Next]_vars PROVE TypeOK'
  OBVIOUS
<1>1. main' \in Trees /\ queue' \in Seq(Entries)
  BY QueueType
<1>2. RestTyped'
  <2>1. CASE EditSource \/ EditBaseline \/ MergeMain
    BY <2>1, DeveloperType
  <2>2. CASE Start \/ CheckBase \/ Build \/ Collect \/ Decide
    BY <2>2, ReadType
  <2>3. CASE Fail \/ WriteTemp \/ Sync \/ Replace \/ Report \/ Unreported \/ Flush \/ Kill \/ PowerLoss
    BY <2>3, WriteType
  <2>4. CASE UNCHANGED <<checkout, built, file, disk, temp, script, disturbed, lints>>
    BY <2>4 DEF TypeOK, RestTyped, checkout, script
  <2>5. CASE Enqueue \/ Check \/ MergeHead \/ Remove
    BY <2>4, <2>5 DEF Enqueue, Check, MergeHead, Remove
  <2>6. QED
    BY <2>1, <2>2, <2>3, <2>4, <2>5 DEF Next, vars
<1>3. QED
  BY <1>1, <1>2 DEF TypeOK, RestTyped, Entries

\* Every variable of the model of lint.py stays in its range.
THEOREM TypeCorrect == Spec => []TypeOK
BY TypeInit, TypeStep, PTL DEF Spec

-----------------------------------------------------------------------------
(* The merge queue. *)

\* Each entry was put on top of the one before it, the first on main.
Chained ==
    \A i \in 1 .. Len(queue) : queue[i].base = IF i = 1 THEN main ELSE queue[i - 1].tree

\* What has passed satisfies the gate.
Judged == \A i \in 1 .. Len(queue) : queue[i].verdict = "passed" => Gate(queue[i])

QueueInv == Chained /\ Judged /\ MainExact

\* Main's baseline is exact in the initial states, where the queue is empty.
LEMMA QueueInit == Init => QueueInv
BY DEF Init, QueueInv, Chained, Judged, MainExact

\* The head that is merged satisfied the gate against main itself.
LEMMA HeadGated ==
    ASSUME TypeOK, QueueInv, MergeHead
    PROVE  /\ main'.baseline = Listed(main'.source)
           /\ main'.baseline \subseteq main.baseline
<1>1. 1 \in 1 .. Len(queue)
  BY DEF MergeHead, TypeOK
<1>2. Gate(queue[1]) /\ queue[1].base = main /\ main' = queue[1].tree
  BY <1>1 DEF MergeHead, QueueInv, Judged, Chained
<1>3. QED
  BY <1>2 DEF Gate, CheckDelta

\* The gate looks at an entry's base and tree only.
LEMMA GateSame ==
    ASSUME NEW e, NEW f, e.base = f.base, e.tree = f.tree
    PROVE  Gate(e) <=> Gate(f)
BY DEF Gate

\* The queue stays chained and judged, and main exact.
LEMMA QueueStep == TypeOK /\ QueueInv /\ [Next]_vars => QueueInv'
<1> SUFFICES ASSUME TypeOK, QueueInv, [Next]_vars PROVE QueueInv'
  OBVIOUS
<1> main \in Trees /\ queue \in Seq(Entries)
  BY DEF TypeOK, Entries
<1>1. CASE Enqueue
  <2>1. main' = main /\ queue' = Append(queue, NewEntry) /\ NewEntry \in Entries
    BY <1>1, NewEntryType DEF Enqueue, NewEntry
  <2>2. NewEntry.base = QueueEnd /\ NewEntry.verdict = "pending"
    BY DEF NewEntry
  <2>3. /\ Len(queue') = Len(queue) + 1
        /\ \A i \in 1 .. Len(queue) : queue'[i] = queue[i]
        /\ queue'[Len(queue) + 1] = NewEntry
    BY <2>1
  <2>4. Chained'
    <3>1. Len(queue) = 0 <=> queue = <<>>
      OBVIOUS
    <3>2. QED
      BY <2>1, <2>2, <2>3, <3>1 DEF QueueInv, Chained, QueueEnd
  <2>5. Judged'
    BY <2>2, <2>3 DEF QueueInv, Judged
  <2>6. QED
    BY <2>1, <2>4, <2>5 DEF QueueInv, MainExact
<1>2. CASE Check
  <2>1. PICK i \in DOMAIN queue :
          queue' = [queue EXCEPT ![i].verdict = IF Gate(queue[i]) THEN "passed" ELSE "failed"]
    BY <1>2 DEF Check
  <2>2. main' = main /\ Len(queue') = Len(queue) /\ i \in 1 .. Len(queue)
    BY <1>2, <2>1 DEF Check
  <2>3. \A k \in 1 .. Len(queue) :
          /\ queue'[k].base = queue[k].base /\ queue'[k].tree = queue[k].tree
          /\ queue'[k].verdict = "passed" => (k = i /\ Gate(queue[i])) \/ queue[k].verdict = "passed"
    <3>1. SUFFICES ASSUME NEW k \in 1 .. Len(queue)
                  PROVE  /\ queue'[k].base = queue[k].base /\ queue'[k].tree = queue[k].tree
                         /\ queue'[k].verdict = "passed" =>
                               (k = i /\ Gate(queue[i])) \/ queue[k].verdict = "passed"
      OBVIOUS
    <3>2. CASE k # i
      BY <2>1, <3>2
    <3>3. CASE k = i
      <4>1. queue[i] \in Entries
        OBVIOUS
      <4>2. queue'[i] = [queue[i] EXCEPT !.verdict = IF Gate(queue[i]) THEN "passed" ELSE "failed"]
        BY <2>1
      <4>3. QED
        BY <3>3, <4>1, <4>2 DEF Entries
    <3>4. QED
      BY <3>2, <3>3
  <2>4. Chained'
    <3>1. \A k \in 1 .. Len(queue) : k = 1 \/ k - 1 \in 1 .. Len(queue)
      OBVIOUS
    <3>2. QED
      BY <2>2, <2>3, <3>1 DEF QueueInv, Chained
  <2>5. Judged'
    <3>1. ASSUME NEW k \in 1 .. Len(queue), queue'[k].verdict = "passed"
          PROVE  Gate(queue'[k])
      <4>1. Gate(queue[k])
        BY <2>3, <3>1 DEF QueueInv, Judged
      <4>2. QED
        BY <2>3, <4>1, GateSame
    <3>2. QED
      BY <2>2, <3>1 DEF Judged
  <2>6. QED
    BY <2>2, <2>4, <2>5 DEF QueueInv, MainExact
<1>3. CASE MergeHead
  <2>1. main' = queue[1].tree /\ queue' = Tail(queue) /\ queue # <<>>
    BY <1>3 DEF MergeHead
  <2>2. Len(queue') = Len(queue) - 1 /\ \A i \in 1 .. Len(queue') : queue'[i] = queue[i + 1]
    BY <2>1
  <2>3. Chained'
    BY <2>1, <2>2 DEF QueueInv, Chained
  <2>4. Judged'
    BY <2>2 DEF QueueInv, Judged
  <2>5. QED
    BY <1>3, <2>3, <2>4, HeadGated DEF QueueInv, MainExact
<1>4. CASE Remove
  <2>1. PICK i \in 1 .. Len(queue) : queue' = SubSeq(queue, 1, i - 1)
    BY <1>4 DEF Remove
  <2>2. main' = main /\ Len(queue') = i - 1 /\ \A k \in 1 .. i - 1 : queue'[k] = queue[k]
    BY <1>4, <2>1 DEF Remove
  <2>3. Chained'
    <3>1. i - 1 \in Nat /\ \A k \in 1 .. i - 1 :
            k \in 1 .. Len(queue) /\ (k = 1 \/ k - 1 \in 1 .. i - 1)
      OBVIOUS
    <3>2. QED
      BY <2>2, <3>1 DEF QueueInv, Chained
  <2>4. Judged'
    <3>1. i - 1 \in Nat /\ \A k \in 1 .. i - 1 : k \in 1 .. Len(queue)
      OBVIOUS
    <3>2. QED
      BY <2>2, <3>1 DEF QueueInv, Judged
  <2>5. QED
    BY <2>2, <2>3, <2>4 DEF QueueInv, MainExact
<1>5. CASE UNCHANGED repo
  BY <1>5 DEF repo, QueueInv, Chained, Judged, MainExact
<1>6. QED
  BY <1>1, <1>2, <1>3, <1>4, <1>5 DEF Next, vars, repo, EditSource, EditBaseline, MergeMain, Start,
     Fail, CheckBase, Build, Collect, Decide, WriteTemp, Sync, Replace, Report, Unreported, Flush,
     Kill, PowerLoss

\* Only the head of the queue reaches main, and it shrinks the baseline.
LEMMA ShrinkStep ==
    TypeOK /\ QueueInv /\ [Next]_vars => main'.baseline \subseteq main.baseline
<1> SUFFICES ASSUME TypeOK, QueueInv, [Next]_vars PROVE main'.baseline \subseteq main.baseline
  OBVIOUS
<1>1. CASE MergeHead
  BY <1>1, HeadGated
<1>2. CASE main' = main
  BY <1>2
<1>3. QED
  BY <1>1, <1>2 DEF Next, vars, repo, EditSource, EditBaseline, MergeMain, Enqueue, Check, Remove, Start,
     Fail, CheckBase, Build, Collect, Decide, WriteTemp, Sync, Replace, Report, Unreported, Flush,
     Kill, PowerLoss

\* Whatever enters the queue, from however stale a checkout, and in whatever order
\* its entries are checked, merged and removed, main's baseline lists exactly the
\* findings the policy does not accept.
THEOREM MainBaselineExact == Spec => []MainExact
<1>1. Init => TypeOK /\ QueueInv
  BY TypeInit, QueueInit
<1>2. TypeOK /\ QueueInv /\ [Next]_vars => TypeOK' /\ QueueInv'
  BY TypeStep, QueueStep
<1>3. QueueInv => MainExact
  BY DEF QueueInv
<1>4. QED
  BY <1>1, <1>2, <1>3, PTL DEF Spec

\* And it never gains an exception.
THEOREM MainBaselineShrinks == Spec => MainShrinks
<1>1. Init => TypeOK /\ QueueInv
  BY TypeInit, QueueInit
<1>2. TypeOK /\ QueueInv /\ [Next]_vars => TypeOK' /\ QueueInv'
  BY TypeStep, QueueStep
<1>3. TypeOK /\ QueueInv /\ [Next]_vars => [main'.baseline \subseteq main.baseline]_vars
  BY ShrinkStep
<1>4. QED
  BY <1>1, <1>2, <1>3, PTL DEF Spec, MainShrinks

-----------------------------------------------------------------------------
(* A run of the script. *)

\* What a run has collected and written when it is at a step.
StepInv ==
    /\ pc # "idle" => outcome = "running"
    /\ pc \in {"base", "build"} => current = {} /\ todo = Libraries
    /\ pc = "collect" => current = {f \in built : f.library \notin todo}
    /\ pc \in {"write", "sync", "replace", "report"} => current = built /\ Listed(built) \subseteq old
    /\ pc \in {"base", "build", "collect", "write", "report"} => temp = NoTemp
    /\ pc = "sync" => temp = [exists |-> TRUE, pairs |-> Listed(built), synced |-> FALSE]
    /\ pc = "replace" => temp = [exists |-> TRUE, pairs |-> Listed(built), synced |-> TRUE]

\* The baseline before and after the run, in the cache and on the disk.
Versions == {Complete(old), Complete(Listed(built))}

\* The work of a run is done, whether or not it has said so.
Done == file = Complete(Listed(built)) /\ Listed(built) \subseteq old /\ disk \subseteq Versions

\* How an undisturbed run leaves the files.
Left ==
    /\ outcome \in {"ok", "unreported"} => Done
    /\ outcome = "failed" => file = Complete(old) /\ disk = {file}
    /\ outcome = "killed" => file \in Versions /\ disk \subseteq Versions
    /\ outcome # "killed" => temp = NoTemp

FileInv ==
    ~disturbed =>
        /\ pc = "idle" => Left
        /\ pc = "report" => Done
        /\ pc \notin {"idle", "report"} => file = Complete(old) /\ disk = {file}

\* A complete file and a broken one are not torn.
LEMMA WholeFiles == Broken # Torn /\ \A pairs : Complete(pairs) # Torn
BY DEF Broken, Torn, Complete

\* A run has done nothing in the initial states.
LEMMA RunInit == Init => NeverTorn /\ StepInv /\ FileInv
BY WholeFiles DEF Init, NeverTorn, StepInv, FileInv, Left

\* A step of the run leads to the next one with what that one relies on.
LEMMA StepStep == TypeOK /\ StepInv /\ [Next]_vars => StepInv'
<1> SUFFICES ASSUME TypeOK, StepInv, [Next]_vars PROVE StepInv'
  OBVIOUS
<1>1. CASE UNCHANGED <<built, temp, script>>
  BY <1>1 DEF StepInv, script
<1>2. CASE pc' = "idle"
  BY <1>2 DEF StepInv
<1>3. CASE Start
  BY <1>3 DEF Start, StepInv, checkout
<1>4. CASE CheckBase
  BY <1>4 DEF CheckBase, StepInv, checkout
<1>5. CASE Build
  <2>1. built' \in Baselines
    BY <1>5 DEF Build, TypeOK
  <2>2. {f \in built' : f.library \notin Libraries} = {}
    BY <2>1, FindingsAssumption DEF Baselines
  <2>3. QED
    BY <1>5, <2>2 DEF Build, StepInv, checkout
<1>6. CASE Collect
  <2>1. PICK library \in todo :
          /\ current' = current \cup {f \in built : f.library = library}
          /\ todo' = todo \ {library}
    BY <1>6 DEF Collect
  <2>2. current' = {f \in built : f.library \notin todo'}
    BY <1>6, <2>1 DEF Collect, StepInv
  <2>3. QED
    BY <1>6, <2>2 DEF Collect, StepInv, checkout
<1>7. CASE Decide
  <2>1. current = built
    BY <1>7 DEF Decide, Collected, StepInv
  <2>2. Listed(current) \subseteq old
    BY <1>7 DEF Decide, CheckDelta
  <2>3. QED
    BY <1>7, <2>1, <2>2 DEF Decide, StepInv, checkout
<1>8. CASE WriteTemp
  BY <1>8 DEF WriteTemp, StepInv, checkout
<1>9. CASE Sync
  <2>1. temp = [exists |-> TRUE, pairs |-> Listed(built), synced |-> FALSE]
    BY <1>9 DEF Sync, StepInv
  <2>2. temp' = [temp EXCEPT !.synced = TRUE]
    BY <1>9 DEF Sync
  <2>3. temp' = [exists |-> TRUE, pairs |-> Listed(built), synced |-> TRUE]
    BY <2>1, <2>2
  <2>4. QED
    BY <1>9, <2>3 DEF Sync, StepInv, checkout
<1>10. CASE Replace
  BY <1>10 DEF Replace, StepInv, checkout
<1>11. QED
  BY <1>1, <1>2, <1>3, <1>4, <1>5, <1>6, <1>7, <1>8, <1>9, <1>10 DEF Next, vars, EditSource,
     EditBaseline, MergeMain, Enqueue, Check, MergeHead, Remove, Flush, Fail, Report, Unreported, Kill,
     PowerLoss, End

\* No step leaves a torn file, in the cache or on the disk.
LEMMA TornStep == StepInv /\ NeverTorn /\ [Next]_vars => NeverTorn'
<1> SUFFICES ASSUME StepInv, NeverTorn, [Next]_vars PROVE NeverTorn'
  OBVIOUS
<1>1. CASE UNCHANGED <<file, disk>>
  BY <1>1 DEF NeverTorn
<1>2. CASE EditBaseline
  BY <1>2, WholeFiles DEF EditBaseline, NeverTorn
<1>3. CASE MergeMain
  BY <1>3, WholeFiles DEF MergeMain, NeverTorn
<1>4. CASE Replace
  <2>1. temp.synced
    BY <1>4 DEF Replace, StepInv
  <2>2. QED
    BY <1>4, <2>1, WholeFiles DEF Replace, NeverTorn
<1>5. CASE Flush \/ PowerLoss
  BY <1>5 DEF Flush, PowerLoss, NeverTorn
<1>6. QED
  BY <1>1, <1>2, <1>3, <1>4, <1>5 DEF Next, vars, EditSource, Enqueue, Check, MergeHead, Remove,
     Start, Fail, CheckBase, Build, Collect, Decide, WriteTemp, Sync, Report, Unreported, Kill

\* The files are those the run left or found.
LEMMA FileStep == TypeOK /\ StepInv /\ FileInv /\ [Next]_vars => FileInv'
<1> SUFFICES ASSUME TypeOK, StepInv, FileInv, [Next]_vars PROVE FileInv'
  OBVIOUS
<1>1. CASE UNCHANGED <<built, file, disk, temp, script, disturbed>>
  BY <1>1 DEF FileInv, Left, Done, Versions, script
<1>2. CASE disturbed'
  BY <1>2 DEF FileInv
<1>3. CASE Start
  <2>1. CASE file.state = "complete"
    <3>1. file = Complete(file.pairs)
      BY <2>1 DEF TypeOK, Files, Complete
    <3>2. QED
      BY <1>3, <2>1, <3>1 DEF Start, FileInv
  <2>2. CASE file.state # "complete"
    BY <1>3, <2>2 DEF Start, FileInv, Left
  <2>3. QED
    BY <2>1, <2>2
<1>4. CASE Fail
  BY <1>4 DEF Fail, End, FileInv, Left
<1>5. CASE CheckBase \/ Build \/ Collect \/ WriteTemp \/ Sync
  BY <1>5 DEF CheckBase, Build, Collect, WriteTemp, Sync, FileInv, checkout
<1>6. CASE Decide
  <2>1. current = built /\ Listed(current) \subseteq old
    BY <1>6 DEF Decide, Collected, CheckDelta, StepInv
  <2>2. ~(mode.prune /\ Listed(current) # old) => Listed(current) = old
    BY <1>6 DEF Decide, CheckDelta
  <2>3. QED
    BY <1>6, <2>1, <2>2 DEF Decide, FileInv, Done, Versions
<1>7. CASE Replace
  <2>1. temp.pairs = Listed(built) /\ temp.synced /\ Listed(built) \subseteq old
    BY <1>7 DEF Replace, StepInv
  <2>2. QED
    BY <1>7, <2>1 DEF Replace, FileInv, Done, Versions
<1>8. CASE Report \/ Unreported
  BY <1>8 DEF Report, Unreported, End, StepInv, FileInv, Left, Done, Versions
<1>9. CASE Flush
  BY <1>9 DEF Flush, FileInv, Left, Done, Versions, script
<1>10. CASE Kill
  BY <1>10 DEF Kill, End, FileInv, Left, Done, Versions
<1>11. CASE PowerLoss
  <2>1. CASE pc = "idle"
    BY <1>11, <2>1 DEF PowerLoss, End, FileInv, Left, Done, Versions, TypeOK
  <2>2. CASE pc # "idle"
    BY <1>11, <2>2 DEF PowerLoss, End, FileInv, Left, Done, Versions, StepInv
  <2>3. QED
    BY <2>1, <2>2
<1>12. QED
  BY <1>1, <1>2, <1>3, <1>4, <1>5, <1>6, <1>7, <1>8, <1>9, <1>10, <1>11 DEF Next, vars, EditSource,
     EditBaseline, MergeMain, Enqueue, Check, MergeHead, Remove, checkout

\* The invariant of a run holds in every behaviour.
LEMMA RunInvariant == Spec => [](TypeOK /\ NeverTorn /\ StepInv /\ FileInv)
<1>1. Init => TypeOK /\ NeverTorn /\ StepInv /\ FileInv
  BY TypeInit, RunInit
<1>2. TypeOK /\ NeverTorn /\ StepInv /\ FileInv /\ [Next]_vars =>
        TypeOK' /\ NeverTorn' /\ StepInv' /\ FileInv'
  BY TypeStep, TornStep, StepStep, FileStep
<1>3. QED
  BY <1>1, <1>2, PTL DEF Spec

\* The baseline is never left half written, wherever a kill or a power loss hits
\* the run.
THEOREM BaselineNeverTorn == Spec => []NeverTorn
BY RunInvariant, PTL

\* A run nobody disturbs replaces the baseline by the findings of its build, even
\* if it then fails to say so, or leaves it as it was.
THEOREM PruneIsAtomic == Spec => []RunIsAtomic
<1>1. FileInv => RunIsAtomic
  BY DEF FileInv, Left, Done, Versions, RunIsAtomic
<1>2. QED
  BY RunInvariant, <1>1, PTL
=============================================================================
