-------------------------- MODULE UAKEHonestProofs --------------------------
(***************************************************************************)
(* Theorems about honest runs, for every admissible scheme: they complete  *)
(* with one key, and they are runs of the security game.                   *)
(***************************************************************************)
EXTENDS UAKEHonest, SequenceTheorems, TLAPS

-----------------------------------------------------------------------------
(* The transcripts, as a function of the messages and how many of them were  *)
(* delivered.                                                                *)

Mine(isT, i) == SentByT(TLeads, i) <=> isT

Stamp(isT, s, i) == [w |-> s[i], at |-> IF Mine(isT, i) THEN 2 * i - 2 ELSE 2 * i - 1]

Tr(isT, s, d) ==
    [i \in 1 .. (IF s # <<>> /\ ~Mine(isT, Len(s)) THEN d ELSE Len(s)) |-> Stamp(isT, s, i)]

LEMMA TranscriptIs ==
    ASSUME NEW isT \in BOOLEAN
    PROVE  TranscriptOf(isT) = Tr(isT, sent, delivered)
BY DEF TranscriptOf, Tr, Stamp, Mine, SenderEntry, ReceiverEntry

LEMMA NextTranscriptIs ==
    /\ TranscriptOf(TRUE)' = Tr(TRUE, sent', delivered')
    /\ TranscriptOf(FALSE)' = Tr(FALSE, sent', delivered')
<1>1. TranscriptOf(TRUE)' = Tr(TRUE, sent', delivered')
  BY DEF TranscriptOf, Tr, Stamp, Mine, SenderEntry, ReceiverEntry
<1>2. TranscriptOf(FALSE)' = Tr(FALSE, sent', delivered')
  BY DEF TranscriptOf, Tr, Stamp, Mine, SenderEntry, ReceiverEntry
<1>3. QED
  BY <1>1, <1>2

\* The parties take turns to send.
LEMMA Turns ==
    ASSUME NEW i \in Nat
    PROVE  /\ SentByT(TLeads, i + 1) <=> ~SentByT(TLeads, i)
           /\ Mine(TRUE, i) <=> SentByT(TLeads, i)
           /\ Mine(FALSE, i) <=> ~SentByT(TLeads, i)
<1>1. (i + 1) % 2 = 1 <=> ~(i % 2 = 1)
  OBVIOUS
<1>2. TLeads \in BOOLEAN
  BY DEF TLeads
<1>3. QED
  BY <1>1, <1>2 DEF SentByT, Mine

\* Before any message, and when only the opening was sent.
LEMMA EmptyTr ==
    ASSUME NEW isT \in BOOLEAN
    PROVE  Tr(isT, <<>>, 0) = <<>>
BY DEF Tr

LEMMA OpeningTr ==
    ASSUME NEW isT \in BOOLEAN, NEW w
    PROVE  Tr(isT, <<w>>, 0) = IF SentByT(TLeads, 1) <=> isT THEN <<[w |-> w, at |-> 0]>> ELSE <<>>
<1>1. Len(<<w>>) = 1 /\ <<w>> # <<>> /\ <<w>>[1] = w
  OBVIOUS
<1>2. CASE Mine(isT, 1)
  <2>1. Tr(isT, <<w>>, 0) = [i \in 1 .. 1 |-> Stamp(isT, <<w>>, i)]
    BY <1>1, <1>2 DEF Tr
  <2>2. Stamp(isT, <<w>>, 1) = [w |-> w, at |-> 0]
    BY <1>1, <1>2 DEF Stamp
  <2>3. Tr(isT, <<w>>, 0) = <<[w |-> w, at |-> 0]>>
    BY <2>1, <2>2
  <2>4. QED
    BY <1>2, <2>3 DEF Mine
<1>3. CASE ~Mine(isT, 1)
  <2>1. Tr(isT, <<w>>, 0) = [i \in 1 .. 0 |-> Stamp(isT, <<w>>, i)]
    BY <1>1, <1>3 DEF Tr
  <2>2. Tr(isT, <<w>>, 0) = <<>>
    BY <2>1
  <2>3. QED
    BY <1>3, <2>2 DEF Mine
<1>4. QED
  BY <1>2, <1>3

\* The side that sent the last message has all of them, delivered or not.
LEMMA SenderTr ==
    ASSUME NEW isT \in BOOLEAN, NEW s \in Seq(Msg), Len(s) > 0, Mine(isT, Len(s)), NEW d, NEW e
    PROVE  Tr(isT, s, d) = Tr(isT, s, e)
BY DEF Tr

\* The other side records it when it accepts it, and its reply a tick later; the first
\* one has nothing new then.
LEMMA ReceivedTr ==
    ASSUME NEW isT \in BOOLEAN, NEW s \in Seq(Msg), NEW n \in Nat, n = Len(s), n > 0, ~Mine(isT, n)
    PROVE  /\ Tr(isT, s, n - 1) \in Seq([w : Msg, at : Nat]) /\ Len(Tr(isT, s, n - 1)) = n - 1
           /\ Tr(isT, s, n) = Append(Tr(isT, s, n - 1), [w |-> s[n], at |-> 2 * n - 1])
<1>1. /\ Tr(isT, s, n - 1) = [i \in 1 .. n - 1 |-> Stamp(isT, s, i)]
      /\ Tr(isT, s, n) = [i \in 1 .. n |-> Stamp(isT, s, i)]
  BY DEF Tr
<1>2. ASSUME NEW i \in 1 .. n
      PROVE  Stamp(isT, s, i) \in [w : Msg, at : Nat]
  <2>1. s[i] \in Msg
    BY ElementOfSeq
  <2>2. 2 * i - 2 \in Nat /\ 2 * i - 1 \in Nat
    OBVIOUS
  <2>3. QED
    BY <2>1, <2>2 DEF Stamp
<1>3. Tr(isT, s, n - 1) \in Seq([w : Msg, at : Nat]) /\ Len(Tr(isT, s, n - 1)) = n - 1
  <2>1. n - 1 \in Nat /\ \A i \in 1 .. n - 1 : Stamp(isT, s, i) \in [w : Msg, at : Nat]
    BY <1>2
  <2>2. Tr(isT, s, n - 1) \in [1 .. n - 1 -> [w : Msg, at : Nat]]
    BY <1>1, <2>1
  <2>3. Tr(isT, s, n - 1) \in Seq([w : Msg, at : Nat])
    <3>1. PICK m \in Nat : m = n - 1
      BY <2>1
    <3> DEFINE S == [w : Msg, at : Nat]
               f == Tr(isT, s, m)
    <3>2. f \in [1 .. m -> S]
      BY <2>2, <3>1
    <3> HIDE DEF S, f
    <3>3. f \in Seq(S)
      BY <3>2, SeqDef
    <3>4. QED
      BY <3>1, <3>3 DEF S, f
  <2>4. DOMAIN Tr(isT, s, n - 1) = 1 .. n - 1
    BY <1>1
  <2>5. Len(Tr(isT, s, n - 1)) = n - 1
    BY <2>1, <2>3, <2>4, LenProperties
  <2>6. QED
    BY <2>3, <2>5
<1>4. Stamp(isT, s, n) = [w |-> s[n], at |-> 2 * n - 1]
  BY DEF Stamp
<1> DEFINE old == Tr(isT, s, n - 1)
           e == [w |-> s[n], at |-> 2 * n - 1]
<1>5. /\ Len(Append(old, e)) = n /\ DOMAIN Append(old, e) = 1 .. n
      /\ \A i \in 1 .. n - 1 : Append(old, e)[i] = old[i]
      /\ Append(old, e)[n] = e
      /\ Append(old, e) = [i \in 1 .. n |-> Append(old, e)[i]]
  <2> HIDE DEF old, e
  <2>1. \E S : old \in Seq(S) /\ e \in S
    <3>1. old \in Seq([w : Msg, at : Nat] \cup {e})
      BY <1>3, SeqMonotonic DEF old
    <3>2. QED
      BY <3>1
  <2>2. PICK S : old \in Seq(S) /\ e \in S
    BY <2>1
  <2>3. Len(old) = n - 1
    BY <1>3 DEF old
  <2>4. /\ Append(old, e) \in Seq(S) /\ Len(Append(old, e)) = n
        /\ \A i \in 1 .. n - 1 : Append(old, e)[i] = old[i]
        /\ Append(old, e)[n] = e
    <3>1. /\ Append(old, e) \in Seq(S)
          /\ Len(Append(old, e)) = Len(old) + 1
          /\ \A i \in 1 .. Len(old) : Append(old, e)[i] = old[i]
          /\ Append(old, e)[Len(old) + 1] = e
      BY <2>2, AppendProperties
    <3>2. QED
      BY <2>3, <3>1
  <2>5. DOMAIN Append(old, e) = 1 .. n
    BY <2>4, LenProperties
  <2>6. Append(old, e) = [i \in 1 .. n |-> Append(old, e)[i]]
    BY <2>4, <2>5, LenProperties
  <2>7. QED
    BY <2>4, <2>5, <2>6
<1>6. \A i \in 1 .. n : Append(old, e)[i] = Stamp(isT, s, i)
  <2>1. \A i \in 1 .. n - 1 : old[i] = Stamp(isT, s, i)
    BY <1>1
  <2>2. \A i \in 1 .. n : i \in 1 .. n - 1 \/ i = n
    OBVIOUS
  <2> HIDE DEF old, e
  <2>3. e = Stamp(isT, s, n)
    BY <1>4 DEF e
  <2>4. QED
    BY <1>5, <2>1, <2>2, <2>3
<1>7. Append(old, e) = [i \in 1 .. n |-> Stamp(isT, s, i)]
  <2> HIDE DEF old, e
  <2>1. QED
    BY <1>5, <1>6
<1>8. QED
  BY <1>1, <1>3, <1>7

\* A reply is in its sender's transcript at once, one tick after the message it answers;
\* the receiver of the reply has nothing new.
LEMMA ReplyTr ==
    ASSUME NEW isT \in BOOLEAN, NEW s \in Seq(Msg), NEW n \in Nat, n = Len(s), n > 0, NEW w \in Msg
    PROVE  /\ Mine(isT, n) => Tr(isT, Append(s, w), n) = Tr(isT, s, n - 1)
           /\ ~Mine(isT, n) =>
                 Tr(isT, Append(s, w), n) = Append(Tr(isT, s, n), [w |-> w, at |-> 2 * n])
<1> DEFINE a == Append(s, w)
<1>1. /\ a \in Seq(Msg) /\ Len(a) = n + 1 /\ a # <<>> /\ s # <<>>
      /\ \A i \in 1 .. n : a[i] = s[i]
      /\ a[n + 1] = w
  BY AppendProperties
<1> HIDE DEF a
<1>2. Mine(isT, n + 1) <=> ~Mine(isT, n)
  <2>1. SentByT(TLeads, n + 1) <=> ~SentByT(TLeads, n)
    BY Turns
  <2>2. SentByT(TLeads, n) \in BOOLEAN /\ SentByT(TLeads, n + 1) \in BOOLEAN
    BY DEF SentByT
  <2>3. QED
    BY <2>1, <2>2 DEF Mine
<1>3. \A i \in 1 .. n : Stamp(isT, a, i) = Stamp(isT, s, i)
  BY <1>1 DEF Stamp
<1>4. Stamp(isT, a, n + 1) = [w |-> w, at |-> IF Mine(isT, n + 1) THEN 2 * n ELSE 2 * n + 1]
  BY <1>1 DEF Stamp
<1>5. ASSUME Mine(isT, n)
      PROVE  Tr(isT, a, n) = Tr(isT, s, n - 1)
  <2>1. Tr(isT, a, n) = [i \in 1 .. n |-> Stamp(isT, a, i)]
    BY <1>1, <1>2, <1>5 DEF Tr
  <2>2. Tr(isT, s, n - 1) = [i \in 1 .. n |-> Stamp(isT, s, i)]
    BY <1>5 DEF Tr
  <2>3. QED
    BY <1>3, <2>1, <2>2
<1>6. ASSUME ~Mine(isT, n)
      PROVE  Tr(isT, a, n) = Append(Tr(isT, s, n), [w |-> w, at |-> 2 * n])
  <2> DEFINE old == Tr(isT, s, n)
             e == [w |-> w, at |-> 2 * n]
  <2>1. Tr(isT, a, n) = [i \in 1 .. n + 1 |-> Stamp(isT, a, i)]
    BY <1>1, <1>2, <1>6 DEF Tr
  <2>2. old = [i \in 1 .. n |-> Stamp(isT, s, i)]
    BY <1>1, <1>6 DEF Tr
  <2>3. old \in Seq([w : Msg, at : Nat]) /\ Len(old) = n
    <3>1. \A i \in 1 .. n : Stamp(isT, s, i) \in [w : Msg, at : Nat]
      <4>1. ASSUME NEW i \in 1 .. n
            PROVE  Stamp(isT, s, i) \in [w : Msg, at : Nat]
        <5>1. s[i] \in Msg /\ 2 * i - 2 \in Nat /\ 2 * i - 1 \in Nat
          BY ElementOfSeq
        <5>2. QED
          BY <5>1 DEF Stamp
      <4>2. QED
        BY <4>1
    <3> DEFINE S == [w : Msg, at : Nat]
    <3>2. old \in [1 .. n -> S] /\ DOMAIN old = 1 .. n
      BY <2>2, <3>1
    <3> HIDE DEF S, old
    <3>3. old \in Seq(S)
      BY <3>2, SeqDef
    <3>4. Len(old) = n
      BY <3>2, <3>3, LenProperties
    <3>5. QED
      BY <3>3, <3>4 DEF S
  <2>4. e = Stamp(isT, a, n + 1) /\ e \in [w : Msg, at : Nat]
    BY <1>2, <1>4, <1>6
  <2> HIDE DEF old, e
  <2>5. /\ Append(old, e) \in Seq([w : Msg, at : Nat]) /\ Len(Append(old, e)) = n + 1
        /\ \A i \in 1 .. n : Append(old, e)[i] = old[i]
        /\ Append(old, e)[n + 1] = e
    BY <2>3, <2>4, AppendProperties
  <2>6. Append(old, e) = [i \in 1 .. n + 1 |-> Append(old, e)[i]]
    BY <2>5, LenProperties
  <2>7. \A i \in 1 .. n + 1 : Append(old, e)[i] = Stamp(isT, a, i)
    <3>1. \A i \in 1 .. n + 1 : i \in 1 .. n \/ i = n + 1
      OBVIOUS
    <3>2. QED
      BY <1>3, <2>2, <2>4, <2>5, <3>1
  <2>8. QED
    BY <2>1, <2>6, <2>7 DEF old, e
<1>7. QED
  BY <1>5, <1>6 DEF a

\* When every message was delivered, the two transcripts match: the ticks of the
\* interleaving are 0, 1, 2 and so on.
LEMMA DeliveredMatch ==
    ASSUME NEW s \in Seq(Msg), NEW n \in Nat, n = Len(s)
    PROVE  Matching(TLeads, Tr(TRUE, s, n), Tr(FALSE, s, n))
<1> DEFINE A == Tr(TRUE, s, n)
           C == Tr(FALSE, s, n)
           pairs == ZipTimes(A, C)
           ts == Interleave(TLeads, pairs)
<1> HIDE DEF pairs, ts
<1>1. A = [i \in 1 .. n |-> Stamp(TRUE, s, i)] /\ C = [i \in 1 .. n |-> Stamp(FALSE, s, i)]
  BY DEF Tr
<1>2. ASSUME NEW i \in 1 .. n
      PROVE  /\ Stamp(TRUE, s, i) = [w |-> s[i], at |-> IF SentByT(TLeads, i) THEN 2 * i - 2 ELSE 2 * i - 1]
             /\ Stamp(FALSE, s, i) = [w |-> s[i], at |-> IF SentByT(TLeads, i) THEN 2 * i - 1 ELSE 2 * i - 2]
  <2>1. (Mine(TRUE, i) <=> SentByT(TLeads, i)) /\ (Mine(FALSE, i) <=> ~SentByT(TLeads, i))
    <3>1. i \in Nat
      OBVIOUS
    <3>2. QED
      BY <3>1, Turns, Zenon
  <2>2. QED
    BY <2>1, Zenon DEF Stamp
<1>3. /\ Len(A) = n /\ Len(C) = n
      /\ \A i \in 1 .. n : /\ A[i].w = s[i] /\ C[i].w = s[i]
                           /\ A[i].at = IF SentByT(TLeads, i) THEN 2 * i - 2 ELSE 2 * i - 1
                           /\ C[i].at = IF SentByT(TLeads, i) THEN 2 * i - 1 ELSE 2 * i - 2
  <2>1. Len(A) = n /\ Len(C) = n
    <3> HIDE DEF A, C
    <3>1. QED
      BY <1>1
  <2>2. ASSUME NEW i \in 1 .. n
        PROVE  /\ A[i].w = s[i] /\ C[i].w = s[i]
               /\ A[i].at = IF SentByT(TLeads, i) THEN 2 * i - 2 ELSE 2 * i - 1
               /\ C[i].at = IF SentByT(TLeads, i) THEN 2 * i - 1 ELSE 2 * i - 2
    <3>1. A[i] = Stamp(TRUE, s, i) /\ C[i] = Stamp(FALSE, s, i)
      BY <1>1
    <3> HIDE DEF A, C
    <3>2. /\ A[i] = [w |-> s[i], at |-> IF SentByT(TLeads, i) THEN 2 * i - 2 ELSE 2 * i - 1]
          /\ C[i] = [w |-> s[i], at |-> IF SentByT(TLeads, i) THEN 2 * i - 1 ELSE 2 * i - 2]
      BY <1>2, <3>1, Zenon
    <3>3. QED
      BY <3>2
  <2>3. QED
    BY <2>1, <2>2
<1> HIDE DEF A, C
<1>4. SameMessages(A, C)
  BY <1>3 DEF SameMessages
<1>5. /\ Len(pairs) = n
      /\ \A k \in 1 .. n : pairs[k] = <<A[k].at, C[k].at>>
  BY <1>3 DEF ZipTimes, pairs
<1>6. /\ Len(ts) = 2 * n
      /\ \A j \in 1 .. 2 * n :
            ts[j] = LET k == (j + 1) \div 2
                    IN IF (TLeads <=> k % 2 = 1) <=> j % 2 = 1 THEN pairs[k][1] ELSE pairs[k][2]
  BY <1>5 DEF Interleave, ts
<1>7. ASSUME NEW j \in 1 .. 2 * n
      PROVE  ts[j] = j - 1
  <2> DEFINE k == (j + 1) \div 2
  <2>1. k \in 1 .. n
    OBVIOUS
  <2>2. (j % 2 = 1 => j = 2 * k - 1) /\ (j % 2 # 1 => j = 2 * k)
    OBVIOUS
  <2>3. ts[j] = IF SentByT(TLeads, k) <=> j % 2 = 1 THEN A[k].at ELSE C[k].at
    <3>1. ts[j] = IF (TLeads <=> k % 2 = 1) <=> j % 2 = 1 THEN pairs[k][1] ELSE pairs[k][2]
      BY <1>6
    <3>2. pairs[k][1] = A[k].at /\ pairs[k][2] = C[k].at
      BY <1>5, <2>1
    <3> HIDE DEF k
    <3>3. QED
      BY <3>1, <3>2 DEF SentByT
  <2>4. /\ A[k].at = IF SentByT(TLeads, k) THEN 2 * k - 2 ELSE 2 * k - 1
        /\ C[k].at = IF SentByT(TLeads, k) THEN 2 * k - 1 ELSE 2 * k - 2
    BY <1>3, <2>1
  <2>5. SentByT(TLeads, k) \in BOOLEAN
    BY DEF SentByT
  <2> HIDE DEF k
  <2>6. QED
    BY <2>1, <2>2, <2>3, <2>4, <2>5
<1>8. IsChain(ts)
  <2>1. ASSUME NEW j \in 1 .. 2 * n - 1
        PROVE  ts[j] < ts[j + 1]
    <3>1. j \in 1 .. 2 * n /\ j + 1 \in 1 .. 2 * n
      OBVIOUS
    <3>2. ts[j] = j - 1 /\ ts[j + 1] = (j + 1) - 1
      BY <1>7, <3>1
    <3>3. QED
      BY <3>2
  <2>2. QED
    BY <1>6, <2>1 DEF IsChain
<1>9. QED
  BY <1>4, <1>8 DEF Matching, A, C, pairs, ts

-----------------------------------------------------------------------------
(* The actions of the game, in terms of the honest run. *)

\* What a party's output is taken to be is one of its outputs.
LEMMA OutputPicked ==
    ASSUME NEW P, NEW st, P.output[st] # {}
    PROVE  OutputOf(P, st) \in P.output[st]
BY DEF OutputOf

Clock == Len(sent) + delivered

Session ==
    [state |-> tState, transcript |-> TranscriptOf(TRUE), key |-> OutputOf(T, tState), revealed |-> FALSE]

Challenge == [state |-> uState, transcript |-> TranscriptOf(FALSE)]

\* RecordStep, with the clock as a parameter.
Recorded(tr, w, r, c) ==
    IF r.kind = "complete"
    THEN [tr |-> Append(tr, [w |-> w, at |-> c]), clock |-> c + 1]
    ELSE [tr |-> Append(Append(tr, [w |-> w, at |-> c]), [w |-> r.msg, at |-> c + 1]), clock |-> c + 1 + 1]

LEMMA RecordStepIs ==
    ASSUME NEW tr, NEW w, NEW r
    PROVE  Game!RecordStep(tr, w, r) = Recorded(tr, w, r, Clock)
BY DEF Game!RecordStep, Game!RecordTwo, Game!RecordOne, Recorded, Clock

\* Between the first message and the end the game is in its first part.
LEMMA GamePlaying ==
    ASSUME pc # "done", pc' # "done", uOut' = uOut
    PROVE  Game!Playing
BY DEF Game!Playing

LEMMA GameOpenT ==
    ASSUME pc = "start", pc' = "loop", uState' = uState, uOut' = uOut,
           NEW t0 \in T.init, tState' = t0.state, OutputOf(T, t0.state) = Pending,
           TranscriptOf(FALSE)' = TranscriptOf(FALSE),
           TranscriptOf(TRUE)' = RecordOpt(<<>>, t0.opening, Clock).tr,
           Clock' = RecordOpt(<<>>, t0.opening, Clock).clock
    PROVE  Game!OpenT
<1>1. Game!Playing
  BY GamePlaying
<1>2. OutputOf(T, tState)' = Pending /\ OutputOf(U, uState)' = OutputOf(U, uState)
  BY DEF OutputOf
<1>3. Game!RecordOpt(<<>>, t0.opening, Clock) = RecordOpt(<<>>, t0.opening, Clock)
  BY DEF Game!RecordOpt, Game!RecordOne, RecordOpt, RecordOne
<1>4. Len(<<>>) < 1 /\ \A e : Append(<<>>, e) = <<e>>
  OBVIOUS
<1>5. \A r : r = RecordOpt(<<>>, t0.opening, Clock) =>
        <<Session>>' = Append(<<>>, [state |-> t0.state, transcript |-> r.tr, key |-> Pending,
                                     revealed |-> FALSE])
  BY <1>2, <1>4 DEF Session
<1>6. /\ (Len(sent) + delivered)' = RecordOpt(<<>>, t0.opening, Clock).clock
      /\ Clock = Len(sent) + delivered
  BY DEF Clock
<1>7. UNCHANGED <<[state |-> uState, transcript |-> TranscriptOf(FALSE)],
                  pc = "done" \/ OutputOf(U, uState) # Pending>>
  BY <1>2
<1>8. QED
  BY <1>1, <1>3, <1>4, <1>5, <1>6, <1>7 DEF Game!OpenT, Session

LEMMA GameStepT ==
    ASSUME pc = "loop", pc' \in {"loop", "output"}, uState' = uState, uOut' = uOut,
           NEW w \in Msg, NEW r \in Accepting(T, tState, w), tState' = r.state,
           OutputOf(T, tState) = Pending,
           OutputOf(T, r.state) \in IF Finished(r) THEN T.output[r.state] ELSE {Pending},
           TranscriptOf(FALSE)' = TranscriptOf(FALSE),
           TranscriptOf(TRUE)' = Recorded(TranscriptOf(TRUE), w, r, Clock).tr,
           Clock' = Recorded(TranscriptOf(TRUE), w, r, Clock).clock
    PROVE  Game!StepT(1, w)
<1> DEFINE rec == Recorded(TranscriptOf(TRUE), w, r, Clock)
           new == [state |-> r.state, transcript |-> rec.tr, key |-> OutputOf(T, r.state),
                   revealed |-> FALSE]
<1>1. Game!Playing
  BY GamePlaying
<1>2. OutputOf(T, tState)' = OutputOf(T, r.state) /\ OutputOf(U, uState)' = OutputOf(U, uState)
  BY DEF OutputOf
<1>3. Game!RecordStep(TranscriptOf(TRUE), w, r) = rec
  BY RecordStepIs
<1>4. Session' = new
  BY <1>2 DEF Session
<1>5. (Len(sent) + delivered)' = rec.clock
  BY DEF Clock
<1>6. UNCHANGED <<[state |-> uState, transcript |-> TranscriptOf(FALSE)],
                  pc = "done" \/ OutputOf(U, uState) # Pending>>
  BY <1>2
<1>7. Session.state = tState /\ Session.transcript = TranscriptOf(TRUE) /\ Session.key = Pending
      /\ Session.revealed = FALSE
  BY DEF Session
<1>8. (IF pc = "start" THEN <<>> ELSE <<Session>>) = <<Session>>
      /\ (IF pc = "start" THEN <<>> ELSE <<Session>>)' = <<new>>
  BY <1>4
<1>9. r \in Game!Accepting(T, Session.state, w) /\ (Game!Finished(r) <=> Finished(r))
  BY <1>7 DEF Game!Accepting, Accepting, Game!Finished, Finished
<1> HIDE DEF rec
<1>10. \A S, e : [<<S>> EXCEPT ![1] = e] = <<e>> /\ <<S>>[1] = S
  OBVIOUS
<1>11. Game!Running(1)
  BY <1>7, <1>8, <1>10 DEF Game!Running, Session
<1> DEFINE Ss == IF pc = "start" THEN <<>> ELSE <<Session>>
<1>12. Game!StepT(1, w) <=>
         /\ Game!Playing
         /\ Game!Running(1)
         /\ \E q \in Game!Accepting(T, Ss[1].state, w) :
               /\ \E key \in IF Game!Finished(q) THEN T.output[q.state] ELSE {Pending} :
                     Ss' = [Ss EXCEPT ![1] =
                               [state |-> q.state, transcript |-> Game!RecordStep(Ss[1].transcript, w, q).tr,
                                key |-> key, revealed |-> @.revealed]]
               /\ (Len(sent) + delivered)' = Game!RecordStep(Ss[1].transcript, w, q).clock
         /\ UNCHANGED <<[state |-> uState, transcript |-> TranscriptOf(FALSE)],
                        pc = "done" \/ OutputOf(U, uState) # Pending>>
  BY Zenon DEF Game!StepT, Session
<1>13. Ss = <<Session>> /\ Ss' = <<new>> /\ Ss[1] = Session
  BY <1>8, <1>10
<1> HIDE DEF Ss
<1>14. Ss' = [Ss EXCEPT ![1] = [state |-> r.state, transcript |-> rec.tr, key |-> OutputOf(T, r.state),
                               revealed |-> @.revealed]]
  <2>1. [state |-> r.state, transcript |-> rec.tr, key |-> OutputOf(T, r.state),
         revealed |-> Ss[1].revealed] = new
    BY <1>7, <1>13
  <2>2. [Ss EXCEPT ![1] = new] = <<new>>
    BY <1>10, <1>13, Zenon
  <2>3. Ss' = <<new>>
    BY <1>13
  <2> HIDE DEF new
  <2>4. QED
    BY <2>1, <2>2, <2>3
<1>15. QED
  BY <1>1, <1>3, <1>5, <1>6, <1>7, <1>9, <1>11, <1>12, <1>13, <1>14, Zenon

LEMMA GameStepU ==
    ASSUME pc = "loop", pc' \in {"loop", "output"}, tState' = tState, uOut' = uOut,
           NEW w \in Msg, NEW r \in Accepting(U, uState, w), uState' = r.state,
           OutputOf(U, uState) = Pending, OutputOf(U, r.state) # Pending <=> Finished(r),
           TranscriptOf(TRUE)' = TranscriptOf(TRUE),
           TranscriptOf(FALSE)' = Recorded(TranscriptOf(FALSE), w, r, Clock).tr,
           Clock' = Recorded(TranscriptOf(FALSE), w, r, Clock).clock
    PROVE  Game!StepChallenge(w)
<1> DEFINE rec == Recorded(TranscriptOf(FALSE), w, r, Clock)
<1>1. Game!Playing
  BY GamePlaying
<1>2. OutputOf(U, uState)' = OutputOf(U, r.state) /\ OutputOf(T, tState)' = OutputOf(T, tState)
  BY DEF OutputOf
<1>3. Game!RecordStep(TranscriptOf(FALSE), w, r) = rec
  BY RecordStepIs
<1>4. Challenge' = [state |-> r.state, transcript |-> rec.tr]
      /\ Challenge.state = uState /\ Challenge.transcript = TranscriptOf(FALSE)
  BY DEF Challenge
<1>5. (Len(sent) + delivered)' = rec.clock
  BY DEF Clock
<1>6. r \in Game!Accepting(U, Challenge.state, w) /\ (Game!Finished(r) <=> Finished(r))
  BY <1>4 DEF Game!Accepting, Accepting, Game!Finished, Finished
<1>7. ~(pc = "done" \/ OutputOf(U, uState) # Pending)
      /\ (pc = "done" \/ OutputOf(U, uState) # Pending)' = Game!Finished(r)
  <2>1. Game!Finished(r) \in BOOLEAN
    BY DEF Game!Finished
  <2>2. QED
    BY <1>2, <1>6, <2>1
<1>8. UNCHANGED (IF pc = "start" THEN <<>> ELSE <<Session>>)
  BY <1>2 DEF Session
<1> HIDE DEF rec
<1>9. Game!StepChallenge(w) <=>
         /\ Game!Playing
         /\ ~(pc = "done" \/ OutputOf(U, uState) # Pending)
         /\ \E q \in Game!Accepting(U, Challenge.state, w) :
               /\ Challenge' = [state |-> q.state,
                                transcript |-> Game!RecordStep(Challenge.transcript, w, q).tr]
               /\ (Len(sent) + delivered)' = Game!RecordStep(Challenge.transcript, w, q).clock
               /\ (pc = "done" \/ OutputOf(U, uState) # Pending)' = Game!Finished(q)
         /\ UNCHANGED (IF pc = "start" THEN <<>> ELSE <<Session>>)
  BY Zenon DEF Game!StepChallenge, Session, Challenge
<1>10. QED
  BY <1>1, <1>3, <1>4, <1>5, <1>6, <1>7, <1>8, <1>9, Zenon

LEMMA OneTranscript ==
    ASSUME pc # "start"
    PROVE  Game!Transcripts(IF pc = "start" THEN <<>> ELSE <<Session>>) = <<TranscriptOf(TRUE)>>
<1>1. \A S : Game!Transcripts(<<S>>) = <<S.transcript>>
  <2>1. ASSUME NEW S
        PROVE  Game!Transcripts(<<S>>) = <<S.transcript>>
    <3>1. DOMAIN <<S>> = 1 .. 1 /\ <<S>>[1] = S
      OBVIOUS
    <3>2. Game!Transcripts(<<S>>) = [i \in 1 .. 1 |-> <<S>>[i].transcript]
      BY <3>1 DEF Game!Transcripts
    <3>3. \A i \in 1 .. 1 : <<S>>[i].transcript = S.transcript
      BY <3>1
    <3>4. QED
      BY <3>2, <3>3
  <2>2. QED
    BY <2>1
<1>2. Session.transcript = TranscriptOf(TRUE)
  BY DEF Session
<1>3. QED
  BY <1>1, <1>2

\* The end of the run is the end of the challenge phase.
LEMMA GameRejected ==
    ASSUME pc = "output", pc' = "done", UNCHANGED <<uState, tState, sent, delivered>>,
           uOut' \in U.output[uState], uOut' \notin Key, uOut = Pending
    PROVE  Game!Rejected
<1>1. TranscriptOf(TRUE)' = TranscriptOf(TRUE) /\ TranscriptOf(FALSE)' = TranscriptOf(FALSE)
  BY TranscriptIs, NextTranscriptIs
<1>2. Join(uOut)' = Bot /\ Join(uOut) = Bot /\ Game!Join(uOut') = Bot
  BY KeyAssumption DEF Join, Game!Join
<1>3. OutputOf(T, tState)' = OutputOf(T, tState)
  BY DEF OutputOf
<1>4. Result' = [K0 |-> Bot, challengeTr |-> Challenge.transcript, oracleTrs |-> <<TranscriptOf(TRUE)>>]
  BY <1>1, <1>2 DEF Result, Challenge
<1>5. Game!Transcripts(IF pc = "start" THEN <<>> ELSE <<Session>>) = <<TranscriptOf(TRUE)>>
  BY OneTranscript
<1>6. Game!Snapshot(Bot)
  BY <1>1, <1>3, <1>4, <1>5 DEF Game!Snapshot, Session, Challenge
<1>7. Game!Deliver(Bot)
  BY <1>2, <1>4 DEF Game!Deliver
<1>8. QED
  BY <1>2, <1>6, <1>7 DEF Game!Rejected

LEMMA GameAccepted ==
    ASSUME pc = "output", pc' = "done", UNCHANGED <<uState, tState, sent, delivered>>,
           uOut' \in U.output[uState], uOut' \in Key, uOut = Pending,
           Matching(TLeads, TranscriptOf(TRUE), TranscriptOf(FALSE))
    PROVE  Game!Accepted
<1>1. TranscriptOf(TRUE)' = TranscriptOf(TRUE) /\ TranscriptOf(FALSE)' = TranscriptOf(FALSE)
  BY TranscriptIs, NextTranscriptIs
<1>2. Join(uOut)' = uOut'
  BY DEF Join
<1>3. OutputOf(T, tState)' = OutputOf(T, tState)
  BY DEF OutputOf
<1>4. Result' = [K0 |-> uOut', challengeTr |-> Challenge.transcript, oracleTrs |-> <<TranscriptOf(TRUE)>>]
  BY <1>1, <1>2 DEF Result, Challenge
<1>5. Game!Transcripts(IF pc = "start" THEN <<>> ELSE <<Session>>) = <<TranscriptOf(TRUE)>>
  BY OneTranscript
<1>6. Game!Snapshot(uOut')
  BY <1>1, <1>3, <1>4, <1>5 DEF Game!Snapshot, Session, Challenge
<1>7. Game!Deliver(uOut')
  BY <1>2, <1>4 DEF Game!Deliver
<1>8. Game!IsPingPong(Result')
  <2>1. Result'.oracleTrs = <<TranscriptOf(TRUE)>> /\ Result'.challengeTr = TranscriptOf(FALSE)
    BY <1>4 DEF Challenge
  <2>2. Game!Matching(TLeads, TranscriptOf(TRUE), TranscriptOf(FALSE)) /\ Game!TLeads = TLeads
    BY DEF Game!Matching, Matching, Game!SameMessages, SameMessages, Game!IsChain, IsChain,
           Game!Interleave, Interleave, Game!ZipTimes, ZipTimes, Game!TLeads, TLeads
  <2>3. \A tr : 1 \in DOMAIN <<tr>> /\ <<tr>>[1] = tr
    OBVIOUS
  <2>4. QED
    BY <2>1, <2>2, <2>3, Zenon DEF Game!IsPingPong, Game!PingPong
<1>9. QED
  BY <1>4, <1>6, <1>7, <1>8 DEF Game!Accepted

-----------------------------------------------------------------------------
(* Configurations. *)

\* The configuration of a run after d deliveries.
Conf(u, t, s, d) ==
    [u |-> u, t |-> t, sent |-> Len(s), flight |-> IF d = Len(s) THEN NoMsg ELSE s[Len(s)]]

\* What a party may answer.
LEMMA AcceptingType ==
    ASSUME NEW P, IsParty(P), NEW st \in State, NEW w \in Msg, NEW r \in Accepting(P, st, w)
    PROVE  /\ r.state \in State /\ r.kind \in {"complete", "acceptAndSend"}
           /\ r.kind = "acceptAndSend" => r.msg \in Msg
<1>1. r \in StepResult /\ r.kind # "reject"
  BY DEF Accepting, IsParty
<1>2. QED
  BY <1>1 DEF StepResult

\* What a delivery makes of a configuration.
LEMMA DeliveredIs ==
    ASSUME NEW u, NEW t, NEW n \in Nat, NEW w, NEW r, NEW d,
           d = [u |-> u, t |-> t, sent |-> n, flight |-> w]
    PROVE  Delivered(d, r) =
               IF r.kind = "complete" THEN [u |-> u, t |-> t, sent |-> n, flight |-> NoMsg]
               ELSE [u |-> u, t |-> t, sent |-> n + 1, flight |-> r.msg]
<1>1. [d EXCEPT !.flight = NoMsg] = [u |-> u, t |-> t, sent |-> n, flight |-> NoMsg]
  OBVIOUS
<1>2. PICK m : m = n + 1
  OBVIOUS
<1>3. [d EXCEPT !.sent = @ + 1, !.flight = r.msg] = [[d EXCEPT !.sent = m] EXCEPT !.flight = r.msg]
  BY <1>2
<1>4. [d EXCEPT !.sent = m] = [u |-> u, t |-> t, sent |-> m, flight |-> w]
  OBVIOUS
<1>5. \A e : e = [u |-> u, t |-> t, sent |-> m, flight |-> w] =>
        [e EXCEPT !.flight = r.msg] = [u |-> u, t |-> t, sent |-> m, flight |-> r.msg]
  OBVIOUS
<1>6. QED
  BY <1>1, <1>2, <1>3, <1>4, <1>5 DEF Delivered

\* What H says of a configuration whose messages were all delivered.
LEMMA ConfOver ==
    ASSUME NEW CONSTANT H, Admissible(U, T, Rounds, H), NEW s \in Seq(Msg), NEW n \in Nat, n = Len(s),
           n > 0, NEW u, NEW t, Conf(u, t, s, n) \in H
    PROVE  /\ u \in State /\ t \in State /\ n = Rounds
           /\ \E k \in Key : U.output[u] = {k} /\ T.output[t] = {k}
<1> DEFINE c == Conf(u, t, s, n)
<1>1. c \in HonestConfig /\ HonestlyCorrect(U, T, TLeads, Rounds, c)
  BY DEF Admissible, TLeads
<1>2. c.u = u /\ c.t = t /\ c.sent = n /\ c.flight = NoMsg
  BY DEF Conf
<1> HIDE DEF c
<1>3. u \in State /\ t \in State
  BY <1>1, <1>2 DEF HonestConfig
<1>4. QED
  BY <1>1, <1>2, <1>3 DEF HonestlyCorrect

\* One whose last message is in flight.
LEMMA ConfInFlight ==
    ASSUME NEW CONSTANT H, Admissible(U, T, Rounds, H), NEW s \in Seq(Msg), NEW n \in Nat, n = Len(s),
           n > 0, NEW u, NEW t, Conf(u, t, s, n - 1) \in H
    PROVE  /\ u \in State /\ t \in State /\ n <= Rounds
           /\ U.output[u] = {Pending} /\ \E o : o \in T.output[t]
<1> DEFINE c == Conf(u, t, s, n - 1)
<1>1. c \in HonestConfig /\ HonestlyCorrect(U, T, TLeads, Rounds, c)
  BY DEF Admissible, TLeads
<1>2. c.u = u /\ c.t = t /\ c.sent = n /\ c.flight = s[n]
  BY DEF Conf
<1>3. s[n] \in Msg /\ s[n] # NoMsg
  BY MsgAssumption, ElementOfSeq
<1> HIDE DEF c
<1>4. u \in State /\ t \in State
  BY <1>1, <1>2 DEF HonestConfig
<1>5. QED
  BY <1>1, <1>2, <1>3, <1>4 DEF HonestlyCorrect

\* T has no key yet when the message is for it.
LEMMA PendingT ==
    ASSUME NEW CONSTANT H, Admissible(U, T, Rounds, H), NEW s \in Seq(Msg), NEW n \in Nat, n = Len(s),
           n > 0, NEW u, NEW t, Conf(u, t, s, n - 1) \in H, ~SentByT(TLeads, n), NEW o \in T.output[t]
    PROVE  o = Pending
<1> DEFINE c == Conf(u, t, s, n - 1)
<1>1. c \in HonestConfig /\ HonestlyCorrect(U, T, TLeads, Rounds, c)
  BY DEF Admissible, TLeads
<1>2. c.u = u /\ c.t = t /\ c.sent = n /\ c.flight = s[n]
  BY DEF Conf
<1>3. s[n] \in Msg /\ s[n] # NoMsg
  BY MsgAssumption, ElementOfSeq
<1> HIDE DEF c
<1>4. QED
  BY <1>1, <1>2, <1>3 DEF HonestlyCorrect

\* The two ends of a configuration with a message in flight.
LEMMA InFlight ==
    ASSUME NEW CONSTANT H, Admissible(U, T, Rounds, H), NEW s \in Seq(Msg), NEW n \in Nat, n = Len(s),
           n > 0, NEW u, NEW t, Conf(u, t, s, n - 1) \in H
    PROVE  LET c == [u |-> u, t |-> t, sent |-> n, flight |-> s[n]]
           IN HonestSteps(U, T, TLeads, c) \subseteq H /\ c.flight # NoMsg /\ s[n] \in Msg
<1> DEFINE c == [u |-> u, t |-> t, sent |-> n, flight |-> s[n]]
<1>1. s[n] \in Msg /\ s[n] # NoMsg
  BY MsgAssumption, ElementOfSeq
<1>2. Conf(u, t, s, n - 1) = c
  BY DEF Conf
<1>3. c \in H /\ c.flight # NoMsg
  BY <1>1, <1>2
<1> HIDE DEF c
<1>4. HonestSteps(U, T, TLeads, c) \subseteq H
  BY <1>3 DEF Admissible, HoldsHonestRuns, TLeads
<1>5. QED
  BY <1>1, <1>3, <1>4 DEF c

\* The message in flight is delivered, to T or to U.
LEMMA ConfStep ==
    ASSUME NEW CONSTANT H, Admissible(U, T, Rounds, H), NEW s \in Seq(Msg), NEW n \in Nat, n = Len(s),
           n > 0, NEW u, NEW t, Conf(u, t, s, n - 1) \in H,
           NEW r, NEW v, NEW q,
           \/ SentByT(TLeads, n) /\ r \in Accepting(U, u, s[n]) /\ v = r.state /\ q = t
           \/ ~SentByT(TLeads, n) /\ r \in Accepting(T, t, s[n]) /\ v = u /\ q = r.state
    PROVE  /\ r.kind = "complete" => Conf(v, q, s, n) \in H
           /\ r.kind = "acceptAndSend" => r.msg \in Msg /\ Conf(v, q, Append(s, r.msg), n) \in H
<1> DEFINE c == [u |-> u, t |-> t, sent |-> n, flight |-> s[n]]
           d == [u |-> v, t |-> q, sent |-> n, flight |-> s[n]]
<1>1. HonestSteps(U, T, TLeads, c) \subseteq H /\ c.flight # NoMsg /\ s[n] \in Msg
  BY InFlight
<1>2. c.u = u /\ c.t = t /\ c.sent = n /\ c.flight = s[n]
  OBVIOUS
<1>3. u \in State /\ t \in State
  BY ConfInFlight, Zenon
<1>4. Delivered(d, r) \in HonestSteps(U, T, TLeads, c)
  <2>1. CASE SentByT(TLeads, n)
    <3>1. [c EXCEPT !.u = r.state] = d
      BY <2>1
    <3> HIDE DEF c, d
    <3>2. QED
      BY <1>1, <1>2, <2>1, <3>1 DEF HonestSteps
  <2>2. CASE ~SentByT(TLeads, n)
    <3>1. [c EXCEPT !.t = r.state] = d
      BY <2>2
    <3> HIDE DEF c, d
    <3>2. QED
      BY <1>1, <1>2, <2>2, <3>1 DEF HonestSteps
  <2>3. QED
    BY <2>1, <2>2
<1>5. Delivered(d, r) \in H
  BY <1>1, <1>4
<1>6. Delivered(d, r) = IF r.kind = "complete" THEN [u |-> v, t |-> q, sent |-> n, flight |-> NoMsg]
                        ELSE [u |-> v, t |-> q, sent |-> n + 1, flight |-> r.msg]
  <2>1. d = [u |-> v, t |-> q, sent |-> n, flight |-> s[n]]
    OBVIOUS
  <2>2. PICK w : w = s[n]
    OBVIOUS
  <2> HIDE DEF c, d
  <2>3. QED
    BY <2>1, <2>2, DeliveredIs
<1> HIDE DEF c, d
<1>7. ASSUME r.kind = "complete"
      PROVE  Conf(v, q, s, n) \in H
  <2>1. Conf(v, q, s, n) = [u |-> v, t |-> q, sent |-> n, flight |-> NoMsg]
    BY DEF Conf
  <2>2. QED
    BY <1>5, <1>6, <1>7, <2>1
<1>8. ASSUME r.kind = "acceptAndSend"
      PROVE  r.msg \in Msg /\ Conf(v, q, Append(s, r.msg), n) \in H
  <2>1. r.msg \in Msg
    BY <1>1, <1>3, <1>8, HonestAssumption, AcceptingType
  <2>2. Len(Append(s, r.msg)) = n + 1 /\ Append(s, r.msg)[n + 1] = r.msg /\ n # n + 1
    BY <2>1, AppendProperties
  <2>3. Conf(v, q, Append(s, r.msg), n) = [u |-> v, t |-> q, sent |-> n + 1, flight |-> r.msg]
    BY <2>2 DEF Conf
  <2>4. QED
    BY <1>5, <1>6, <1>8, <2>1, <2>3
<1>9. QED
  BY <1>7, <1>8

-----------------------------------------------------------------------------
(* The invariant. *)

\* Before T is initialised U has at most sent its opening.
StartInv ==
    /\ delivered = 0 /\ ~rejected
    /\ \E u0 \in U.init : uState = u0.state /\ sent = Opening(u0.opening)

\* Afterwards the run is in a configuration of H, and its last message is in flight until
\* a party completes; without a reject only the fuel ends a run before that.
RunInv(H) ==
    /\ Len(sent) > 0 /\ delivered \in {Len(sent) - 1, Len(sent)}
    /\ Conf(uState, tState, sent, delivered) \in H
    /\ pc = "loop" =>
          /\ delivered = Len(sent) - 1 /\ ~rejected
          /\ tTurn <=> ~SentByT(TLeads, Len(sent))
    /\ ~rejected /\ delivered # Len(sent) => pc = "loop" \/ fuel = 0

OutputInv ==
    /\ pc # "done" => uOut = Pending /\ tOut = Pending
    /\ pc = "done" => uOut \in U.output[uState] /\ tOut \in T.output[tState]

HonestInv(H) ==
    /\ pc \in {"start", "loop", "output", "done"}
    /\ sent \in Seq(Msg) /\ given \in Nat /\ fuel \in Nat
    /\ ~rejected => fuel + delivered = given
    /\ pc = "start" => StartInv
    /\ pc # "start" => RunInv(H)
    /\ OutputInv

\* The opening of U, if it leads.
LEMMA OpeningFacts ==
    ASSUME NEW CONSTANT H, Admissible(U, T, Rounds, H), NEW u0 \in U.init
    PROVE  /\ Opening(u0.opening) = IF TLeads THEN <<>> ELSE <<u0.opening>>
           /\ ~TLeads => u0.opening \in Msg /\ u0.opening # NoMsg
           /\ TLeads => u0.opening = NoMsg
<1>1. u0.opening = NoMsg <=> TLeads
  BY DEF Admissible, TLeads
<1>2. u0.opening \in Msg \cup {NoMsg}
  BY HonestAssumption DEF IsParty
<1>3. QED
  BY <1>1, <1>2 DEF Opening

LEMMA HonestInit ==
    ASSUME NEW CONSTANT H, Admissible(U, T, Rounds, H), Init
    PROVE  HonestInv(H)
<1>1. PICK u0 \in U.init : uState = u0.state /\ sent = Opening(u0.opening)
  BY DEF Init
<1>2. sent \in Seq(Msg)
  <2>1. CASE TLeads
    <3>1. sent = <<>>
      BY <1>1, <2>1, OpeningFacts
    <3>2. QED
      BY <3>1
  <2>2. CASE ~TLeads
    <3>1. sent = <<u0.opening>> /\ u0.opening \in Msg
      BY <1>1, <2>2, OpeningFacts
    <3>2. QED
      BY <3>1
  <2>3. QED
    BY <2>1, <2>2
<1>3. StartInv
  BY <1>1 DEF Init, StartInv
<1>4. given \in Nat /\ fuel = given /\ delivered = 0
  BY HonestAssumption DEF Init
<1>5. QED
  BY <1>2, <1>3, <1>4 DEF Init, HonestInv, OutputInv

\* T is initialised, and the leader's opening is the first message.
LEMMA StartFacts ==
    ASSUME NEW CONSTANT H, Admissible(U, T, Rounds, H), HonestInv(H), Start
    PROVE  \E t0 \in T.init : \E w \in Msg :
              /\ tState' = t0.state /\ sent' = <<w>> /\ pc' = "loop"
              /\ tTurn' <=> ~TLeads
              /\ sent = IF TLeads THEN <<>> ELSE <<w>>
              /\ t0.opening = IF TLeads THEN w ELSE NoMsg
              /\ Conf(uState, t0.state, <<w>>, 0) \in H
<1>1. PICK u0 \in U.init : uState = u0.state /\ sent = Opening(u0.opening)
  BY DEF HonestInv, StartInv, Start
<1>2. PICK t0 \in T.init :
        /\ tState' = t0.state
        /\ tTurn' = (sent # <<>>)
        /\ sent' = IF sent = <<>> THEN Opening(t0.opening) ELSE sent
  BY DEF Start
<1>3. (t0.opening # NoMsg <=> TLeads) /\ t0.opening \in Msg \cup {NoMsg}
  BY HonestAssumption DEF Admissible, TLeads, IsParty
<1>4. HonestStart(TLeads, u0, t0) \in H
  BY DEF Admissible, HoldsHonestRuns, TLeads
<1>5. \A w : /\ <<w>> # <<>> /\ Len(<<w>>) = 1 /\ <<w>>[1] = w
             /\ Conf(uState, t0.state, <<w>>, 0) = [u |-> uState, t |-> t0.state, sent |-> 1, flight |-> w]
  BY DEF Conf
<1>6. CASE TLeads
  <2>1. sent = <<>> /\ t0.opening \in Msg /\ Opening(t0.opening) = <<t0.opening>>
    BY <1>1, <1>3, <1>6, OpeningFacts DEF Opening
  <2>2. HonestStart(TLeads, u0, t0) = Conf(uState, t0.state, <<t0.opening>>, 0)
    BY <1>1, <1>5, <1>6 DEF HonestStart
  <2>3. sent' = <<t0.opening>> /\ ~tTurn' /\ pc' = "loop"
    <3>1. sent' = <<t0.opening>> /\ tTurn' = FALSE
      BY <1>2, <2>1
    <3>2. sent' # <<>>
      BY <1>5, <3>1
    <3>3. QED
      BY <3>1, <3>2 DEF Start
  <2>4. QED
    BY <1>2, <1>4, <1>6, <2>1, <2>2, <2>3
<1>7. CASE ~TLeads
  <2>1. sent = <<u0.opening>> /\ u0.opening \in Msg /\ t0.opening = NoMsg
    BY <1>1, <1>3, <1>7, OpeningFacts
  <2>2. HonestStart(TLeads, u0, t0) = Conf(uState, t0.state, <<u0.opening>>, 0)
    BY <1>1, <1>5, <1>7 DEF HonestStart
  <2>3. sent' = <<u0.opening>> /\ tTurn' /\ pc' = "loop"
    <3>1. sent # <<>>
      BY <1>5, <2>1
    <3>2. sent' = <<u0.opening>> /\ tTurn' = TRUE
      BY <1>2, <2>1, <3>1
    <3>3. sent' # <<>>
      BY <1>5, <3>2
    <3>4. QED
      BY <3>2, <3>3 DEF Start
  <2>4. QED
    BY <1>2, <1>4, <1>7, <2>1, <2>2, <2>3
<1>8. QED
  BY <1>6, <1>7

\* One step of the loop, as the configurations see it.
LEMMA LoopFacts ==
    ASSUME NEW CONSTANT H, Admissible(U, T, Rounds, H), HonestInv(H), Looping,
           NEW r \in StepResults, r.kind # "reject"
    PROVE  LET n == Len(sent)
           IN /\ n \in Nat /\ n > 0 /\ delivered = n - 1 /\ sent[n] \in Msg /\ sent # <<>>
              /\ fuel \in Nat /\ fuel > 0 /\ ~rejected
              /\ uState \in State /\ tState \in State
              /\ Conf(uState, tState, sent, n - 1) \in H
              /\ tTurn => ~SentByT(TLeads, n) /\ r \in Accepting(T, tState, sent[n])
              /\ ~tTurn => SentByT(TLeads, n) /\ r \in Accepting(U, uState, sent[n])
<1> DEFINE n == Len(sent)
<1>1. RunInv(H) /\ sent \in Seq(Msg) /\ pc = "loop" /\ fuel \in Nat /\ fuel > 0
  BY DEF HonestInv, Looping
<1>2. n \in Nat /\ n > 0 /\ delivered = n - 1 /\ ~rejected /\ (tTurn <=> ~SentByT(TLeads, n))
  BY <1>1, LenProperties DEF RunInv
<1>3. sent[n] \in Msg /\ sent # <<>>
  BY <1>1, <1>2, ElementOfSeq
<1>4. Conf(uState, tState, sent, n - 1) \in H
  BY <1>1, <1>2 DEF RunInv
<1>5. uState \in State /\ tState \in State
  BY <1>1, <1>2, <1>4, ConfInFlight, Zenon
<1>6. (tTurn => r \in T.step[tState, sent[n]]) /\ (~tTurn => r \in U.step[uState, sent[n]])
  BY DEF StepResults
<1>7. QED
  BY <1>1, <1>2, <1>3, <1>4, <1>5, <1>6 DEF Accepting

LEMMA HonestNext ==
    ASSUME NEW CONSTANT H, Admissible(U, T, Rounds, H), HonestInv(H), [Next]_vars
    PROVE  HonestInv(H)'
<1>1. CASE Start
  <2>1. PICK t0 \in T.init, w \in Msg :
          /\ tState' = t0.state /\ sent' = <<w>> /\ pc' = "loop"
          /\ tTurn' <=> ~TLeads
          /\ Conf(uState, t0.state, <<w>>, 0) \in H
    BY <1>1, StartFacts
  <2>2. UNCHANGED <<given, fuel, rejected, uState, delivered, uOut, tOut>> /\ pc = "start"
    BY <1>1 DEF Start
  <2>3. Len(<<w>>) = 1 /\ <<w>> \in Seq(Msg)
    OBVIOUS
  <2>4. delivered' = 0 /\ ~rejected'
    BY <2>2 DEF HonestInv, StartInv
  <2>5. SentByT(TLeads, 1) <=> TLeads
    BY DEF SentByT, TLeads
  <2>6. RunInv(H)'
    BY <2>1, <2>2, <2>3, <2>4, <2>5 DEF RunInv
  <2>7. QED
    BY <2>1, <2>2, <2>3, <2>6 DEF HonestInv, OutputInv
<1>2. ASSUME Looping, NEW r \in StepResults, r.kind # "reject", Receive(r),
             NEW n, n = Len(sent),
             \/ r.kind = "complete" /\ pc' = "output" /\ sent' = sent
             \/ r.kind = "acceptAndSend" /\ pc' = "loop" /\ sent' = Append(sent, r.msg) /\ tTurn' = ~tTurn
      PROVE  HonestInv(H)'
  <2>1. /\ n \in Nat /\ n > 0 /\ delivered = n - 1 /\ sent[n] \in Msg
        /\ fuel \in Nat /\ fuel > 0 /\ ~rejected
        /\ Conf(uState, tState, sent, n - 1) \in H
        /\ tTurn => ~SentByT(TLeads, n) /\ r \in Accepting(T, tState, sent[n])
        /\ ~tTurn => SentByT(TLeads, n) /\ r \in Accepting(U, uState, sent[n])
    BY <1>2, LoopFacts
  <2>2. /\ fuel' = fuel - 1 /\ delivered' = n /\ UNCHANGED <<given, rejected, uOut, tOut>>
        /\ tTurn => tState' = r.state /\ uState' = uState
        /\ ~tTurn => uState' = r.state /\ tState' = tState
    BY <1>2 DEF Receive
  <2>3. sent \in Seq(Msg) /\ given \in Nat /\ fuel + delivered = given
    BY <2>1 DEF HonestInv
  <2>4. fuel' \in Nat /\ fuel' + delivered' = given'
    BY <2>1, <2>2, <2>3
  <2>5. /\ r.kind = "complete" => Conf(uState', tState', sent, n) \in H
        /\ r.kind = "acceptAndSend" => r.msg \in Msg /\ Conf(uState', tState', Append(sent, r.msg), n) \in H
    <3>1. CASE tTurn
      BY <1>2, <2>1, <2>2, <2>3, <3>1, ConfStep
    <3>2. CASE ~tTurn
      BY <1>2, <2>1, <2>2, <2>3, <3>2, ConfStep
    <3>3. QED
      BY <3>1, <3>2
  <2>6. OutputInv'
    BY <1>2, <2>2 DEF HonestInv, OutputInv, Looping
  <2>7. CASE r.kind = "complete"
    <3>1. pc' = "output" /\ sent' = sent /\ Len(sent') = n
      BY <1>2, <2>7
    <3>2. RunInv(H)'
      BY <2>1, <2>2, <2>5, <2>7, <3>1 DEF RunInv
    <3>3. QED
      BY <2>3, <2>2, <2>4, <2>6, <3>1, <3>2 DEF HonestInv
  <2>8. CASE r.kind = "acceptAndSend"
    <3>1. pc' = "loop" /\ sent' = Append(sent, r.msg) /\ tTurn' = ~tTurn
      BY <1>2, <2>8
    <3>2. r.msg \in Msg
      BY <2>5, <2>8
    <3>3. sent' \in Seq(Msg) /\ Len(sent') = n + 1
      BY <1>2, <2>3, <3>1, <3>2, AppendProperties
    <3>4. SentByT(TLeads, n + 1) <=> ~SentByT(TLeads, n)
      BY <2>1, Turns
    <3>5. tTurn' <=> ~SentByT(TLeads, n + 1)
      BY <2>1, <3>1, <3>4
    <3>6. Conf(uState', tState', sent', delivered') \in H /\ delivered' = n
      BY <2>2, <2>5, <2>8, <3>1
    <3>7. RunInv(H)'
      BY <2>1, <2>2, <3>1, <3>3, <3>5, <3>6 DEF RunInv
    <3>8. QED
      BY <2>2, <2>3, <2>4, <2>6, <3>1, <3>3, <3>7 DEF HonestInv
  <2>9. QED
    BY <1>2, <2>7, <2>8
<1>3. CASE Reply
  <2>1. PICK r \in StepResults :
          r.kind = "acceptAndSend" /\ Receive(r) /\ Send(r.msg) /\ tTurn' = ~tTurn /\ UNCHANGED pc
    BY <1>3 DEF Reply
  <2>2. Looping /\ pc' = "loop" /\ sent' = Append(sent, r.msg)
    BY <1>3, <2>1 DEF Reply, Looping, Send
  <2>3. QED
    BY <1>2, <2>1, <2>2
<1>4. CASE Completes
  <2>1. PICK r \in StepResults :
          r.kind = "complete" /\ Receive(r) /\ pc' = "output" /\ UNCHANGED <<tTurn, sent>>
    BY <1>4 DEF Completes
  <2>2. QED
    BY <1>2, <1>4, <2>1 DEF Completes
<1>5. CASE Rejects
  <2>1. /\ pc = "loop" /\ pc' = "output" /\ rejected' = TRUE /\ fuel' = fuel - 1 /\ fuel \in Nat /\ fuel > 0
        /\ UNCHANGED <<given, uState, tState, tTurn, sent, delivered, uOut, tOut>>
    BY <1>5 DEF Rejects, Looping, HonestInv
  <2>2. fuel' \in Nat
    BY <2>1
  <2>3. RunInv(H)'
    BY <2>1 DEF HonestInv, RunInv
  <2>4. QED
    BY <2>1, <2>2, <2>3 DEF HonestInv, OutputInv
<1>6. CASE OutOfFuel
  <2>1. /\ pc = "loop" /\ pc' = "output" /\ fuel = 0
        /\ UNCHANGED <<given, fuel, rejected, uState, tState, tTurn, sent, delivered, uOut, tOut>>
    BY <1>6 DEF OutOfFuel
  <2>2. RunInv(H)'
    BY <2>1 DEF HonestInv, RunInv
  <2>3. QED
    BY <2>1, <2>2 DEF HonestInv, OutputInv
<1>7. CASE ReadOutputs
  <2>1. /\ pc = "output" /\ pc' = "done"
        /\ uOut' \in U.output[uState] /\ tOut' \in T.output[tState]
        /\ UNCHANGED <<given, fuel, rejected, uState, tState, tTurn, sent, delivered>>
    BY <1>7 DEF ReadOutputs
  <2>2. RunInv(H)'
    BY <2>1 DEF HonestInv, RunInv
  <2>3. OutputInv'
    BY <2>1 DEF OutputInv
  <2>4. QED
    BY <2>1, <2>2, <2>3 DEF HonestInv
<1>8. CASE UNCHANGED vars
  BY <1>8 DEF vars, HonestInv, StartInv, RunInv, OutputInv
<1>9. QED
  BY <1>1, <1>3, <1>4, <1>5, <1>6, <1>7, <1>8 DEF Next

LEMMA HonestAlways ==
    ASSUME NEW CONSTANT H, Admissible(U, T, Rounds, H)
    PROVE  Spec => []HonestInv(H)
<1>1. Init => HonestInv(H)
  BY HonestInit
<1>2. HonestInv(H) /\ [Next]_vars => HonestInv(H)'
  BY HonestNext
<1>3. QED
  BY <1>1, <1>2, PTL DEF Spec

-----------------------------------------------------------------------------
(* The honest run is a run of the game. *)

\* The first entry of a transcript.
LEMMA FirstRecord ==
    ASSUME NEW w \in Msg
    PROVE  RecordOpt(<<>>, w, 0).tr = <<[w |-> w, at |-> 0]>> /\ RecordOpt(<<>>, w, 0).clock = 1
<1>1. w # NoMsg
  BY MsgAssumption
<1>2. Append(<<>>, [w |-> w, at |-> 0]) = <<[w |-> w, at |-> 0]>> /\ 0 + 1 = 1
  OBVIOUS
<1>3. QED
  BY <1>1, <1>2 DEF RecordOpt, RecordOne

LEMMA RefineInit ==
    ASSUME NEW CONSTANT H, Admissible(U, T, Rounds, H), Init
    PROVE  Game!Init
<1>1. PICK u0 \in U.init : uState = u0.state /\ sent = Opening(u0.opening)
  BY DEF Init
<1>2. PICK t0 \in T.init : TRUE
  BY DEF Admissible
<1>3. pc = "start" /\ delivered = 0 /\ uOut = Pending
  BY DEF Init
<1>4. OutputOf(U, uState) = Pending
  <2>1. U.output[u0.state] = {Pending}
    <3>1. HonestStart(TLeads, u0, t0) \in H
      BY DEF Admissible, HoldsHonestRuns, TLeads
    <3>2. HonestlyCorrect(U, T, TLeads, Rounds, HonestStart(TLeads, u0, t0))
      BY <3>1 DEF Admissible, TLeads
    <3>3. (IF TLeads THEN t0.opening ELSE u0.opening) # NoMsg
      BY DEF Admissible, TLeads
    <3>4. QED
      BY <3>2, <3>3 DEF HonestlyCorrect, HonestStart
  <2>2. QED
    BY <1>1, <2>1, OutputPicked
<1>5. LET r == RecordOpt(<<>>, u0.opening, 0) IN TranscriptOf(FALSE) = r.tr /\ Clock = r.clock
  <2>1. TranscriptOf(FALSE) = Tr(FALSE, sent, 0) /\ Clock = Len(sent) + 0
    BY <1>3, TranscriptIs DEF Clock
  <2>2. CASE TLeads
    <3>1. sent = <<>> /\ u0.opening = NoMsg /\ Len(<<>>) + 0 = 0
      BY <1>1, <2>2, OpeningFacts
    <3>2. Tr(FALSE, <<>>, 0) = <<>>
      BY EmptyTr
    <3>3. QED
      BY <2>1, <3>1, <3>2 DEF RecordOpt
  <2>3. CASE ~TLeads
    <3>1. sent = <<u0.opening>> /\ u0.opening # NoMsg
      BY <1>1, <2>3, OpeningFacts
    <3>2. SentByT(TLeads, 1) <=> FALSE
      BY <2>3 DEF SentByT
    <3>3. Tr(FALSE, <<u0.opening>>, 0) = <<[w |-> u0.opening, at |-> 0]>>
      BY <3>2, OpeningTr
    <3>4. PICK o \in Msg : o = u0.opening /\ o # NoMsg
      BY <2>3, <3>1, OpeningFacts
    <3>5. RecordOpt(<<>>, o, 0).tr = <<[w |-> o, at |-> 0]>> /\ RecordOpt(<<>>, o, 0).clock = 1
      BY <3>4, FirstRecord
    <3>6. Len(<<o>>) + 0 = 1
      OBVIOUS
    <3>7. TranscriptOf(FALSE) = <<[w |-> o, at |-> 0]>> /\ Clock = 1
      BY <2>1, <3>1, <3>3, <3>4, <3>6
    <3>8. QED
      BY <3>4, <3>5, <3>7, Zenon
  <2>4. QED
    BY <2>2, <2>3
<1>6. Game!RecordOpt(<<>>, u0.opening, 0) = RecordOpt(<<>>, u0.opening, 0)
  BY DEF Game!RecordOpt, Game!RecordOne, RecordOpt, RecordOne
<1>7. Join(uOut) = Bot
  BY <1>3, KeyAssumption DEF Join
<1>8. Challenge = [state |-> u0.state, transcript |-> RecordOpt(<<>>, u0.opening, 0).tr]
  BY <1>1, <1>5 DEF Challenge
<1>9. Len(sent) + delivered = RecordOpt(<<>>, u0.opening, 0).clock
  BY <1>5 DEF Clock
<1>10. QED
  BY <1>1, <1>3, <1>4, <1>6, <1>7, <1>8, <1>9 DEF Game!Init, Challenge

\* T is opened.
LEMMA RefineStart ==
    ASSUME NEW CONSTANT H, Admissible(U, T, Rounds, H), HonestInv(H), Start
    PROVE  Game!OpenT
<1>1. PICK t0 \in T.init, w \in Msg :
        /\ tState' = t0.state /\ sent' = <<w>> /\ pc' = "loop"
        /\ sent = IF TLeads THEN <<>> ELSE <<w>>
        /\ t0.opening = IF TLeads THEN w ELSE NoMsg
        /\ Conf(uState, t0.state, <<w>>, 0) \in H
  BY StartFacts
<1>2. pc = "start" /\ delivered = 0 /\ delivered' = 0 /\ uState' = uState /\ uOut' = uOut
  BY DEF Start, HonestInv, StartInv
<1>3. OutputOf(T, t0.state) = Pending
  <2>1. T.output[t0.state] # {}
    <3>1. <<w>> \in Seq(Msg) /\ Len(<<w>>) = 1
      OBVIOUS
    <3>2. PICK s, n : s = <<w>> /\ n = 1
      OBVIOUS
    <3>3. s \in Seq(Msg) /\ n \in Nat /\ n = Len(s) /\ n > 0 /\ n - 1 = 0
      BY <3>1, <3>2
    <3>4. Conf(uState, t0.state, s, n - 1) \in H
      BY <1>1, <3>2, <3>3, Zenon
    <3>5. \E o : o \in T.output[t0.state]
      BY <3>3, <3>4, ConfInFlight, Zenon
    <3>6. QED
      BY <3>5
  <2>2. T.output[t0.state] \subseteq {Pending}
    BY DEF Admissible, OutputsOnlyAtCompletion
  <2>3. QED
    BY <2>1, <2>2, OutputPicked
<1>4. SentByT(TLeads, 1) <=> TLeads
  BY DEF SentByT, TLeads
<1>5. \A v : Len(<<v>>) + 0 = 1 /\ Len(<<>>) + 0 = 0 /\ Append(<<>>, v) = <<v>>
  OBVIOUS
<1>6. /\ Tr(TRUE, <<w>>, 0) = IF TLeads THEN <<[w |-> w, at |-> 0]>> ELSE <<>>
      /\ Tr(FALSE, <<w>>, 0) = IF TLeads THEN <<>> ELSE <<[w |-> w, at |-> 0]>>
      /\ Tr(FALSE, <<>>, 0) = <<>>
  BY <1>4, OpeningTr, EmptyTr
<1>7. TranscriptOf(FALSE)' = TranscriptOf(FALSE)
  <2>1. TranscriptOf(FALSE) = Tr(FALSE, sent, 0) /\ TranscriptOf(FALSE)' = Tr(FALSE, <<w>>, 0)
    BY <1>1, <1>2, TranscriptIs, NextTranscriptIs
  <2>2. QED
    BY <1>1, <1>6, <2>1
<1>8. /\ TranscriptOf(TRUE)' = RecordOpt(<<>>, t0.opening, Clock).tr
      /\ Clock' = RecordOpt(<<>>, t0.opening, Clock).clock
  <2>1. TranscriptOf(TRUE)' = Tr(TRUE, <<w>>, 0)
    BY <1>1, <1>2, NextTranscriptIs
  <2>2. Clock = Len(sent) + 0 /\ Clock' = 1
    BY <1>1, <1>2, <1>5 DEF Clock
  <2>3. CASE TLeads
    <3>1. Clock = 0 /\ t0.opening = w
      BY <1>1, <1>5, <2>2, <2>3
    <3>2. RecordOpt(<<>>, w, 0).tr = <<[w |-> w, at |-> 0]>> /\ RecordOpt(<<>>, w, 0).clock = 1
      BY <1>1, FirstRecord
    <3>3. TranscriptOf(TRUE)' = <<[w |-> w, at |-> 0]>>
      BY <1>6, <2>1, <2>3
    <3>4. QED
      BY <2>2, <3>1, <3>2, <3>3, Zenon
  <2>4. CASE ~TLeads
    <3>1. Clock = 1 /\ t0.opening = NoMsg
      BY <1>1, <1>5, <2>2, <2>4
    <3>2. QED
      BY <1>6, <2>1, <2>2, <2>4, <3>1 DEF RecordOpt
  <2>5. QED
    BY <2>3, <2>4
<1>9. QED
  BY <1>1, <1>2, <1>3, <1>7, <1>8, GameOpenT

\* What a completed or answered delivery records.
LEMMA CompleteRecorded ==
    ASSUME NEW isT \in BOOLEAN, NEW s \in Seq(Msg), NEW n \in Nat, n = Len(s), n > 0, ~Mine(isT, n),
           NEW r, r.kind = "complete"
    PROVE  /\ Recorded(Tr(isT, s, n - 1), s[n], r, 2 * n - 1).tr = Tr(isT, s, n)
           /\ Recorded(Tr(isT, s, n - 1), s[n], r, 2 * n - 1).clock = 2 * n
<1>1. Tr(isT, s, n) = Append(Tr(isT, s, n - 1), [w |-> s[n], at |-> 2 * n - 1])
  BY ReceivedTr
<1>2. QED
  BY <1>1 DEF Recorded

LEMMA ReplyRecorded ==
    ASSUME NEW isT \in BOOLEAN, NEW s \in Seq(Msg), NEW n \in Nat, n = Len(s), n > 0, ~Mine(isT, n),
           NEW r, r.kind = "acceptAndSend", r.msg \in Msg
    PROVE  /\ Recorded(Tr(isT, s, n - 1), s[n], r, 2 * n - 1).tr = Tr(isT, Append(s, r.msg), n)
           /\ Recorded(Tr(isT, s, n - 1), s[n], r, 2 * n - 1).clock = 2 * n + 1
<1>1. Tr(isT, s, n) = Append(Tr(isT, s, n - 1), [w |-> s[n], at |-> 2 * n - 1])
  BY ReceivedTr
<1>2. Tr(isT, Append(s, r.msg), n) = Append(Tr(isT, s, n), [w |-> r.msg, at |-> 2 * n])
  BY ReplyTr
<1>3. (2 * n - 1) + 1 = 2 * n
  OBVIOUS
<1>4. Recorded(Tr(isT, s, n - 1), s[n], r, 2 * n - 1) =
        [tr |-> Append(Append(Tr(isT, s, n - 1), [w |-> s[n], at |-> 2 * n - 1]), [w |-> r.msg, at |-> 2 * n]),
         clock |-> 2 * n + 1]
  BY <1>3 DEF Recorded
<1>5. QED
  BY <1>1, <1>2, <1>4

\* A delivery is a query of the game to the party that receives the message.
LEMMA RefineDelivery ==
    ASSUME NEW CONSTANT H, Admissible(U, T, Rounds, H), HonestInv(H), HonestInv(H)', Looping,
           NEW r \in StepResults, r.kind # "reject", Receive(r),
           \/ r.kind = "complete" /\ pc' = "output" /\ sent' = sent
           \/ r.kind = "acceptAndSend" /\ pc' = "loop" /\ sent' = Append(sent, r.msg)
    PROVE  \E w \in Msg : Game!StepT(1, w) \/ Game!StepChallenge(w)
<1> DEFINE n == Len(sent)
           w == sent[n]
<1>1. /\ n \in Nat /\ n > 0 /\ delivered = n - 1 /\ w \in Msg
      /\ uState \in State /\ tState \in State
      /\ Conf(uState, tState, sent, n - 1) \in H
      /\ tTurn => ~SentByT(TLeads, n) /\ r \in Accepting(T, tState, w)
      /\ ~tTurn => SentByT(TLeads, n) /\ r \in Accepting(U, uState, w)
  BY LoopFacts
<1>2. /\ delivered' = n /\ uOut' = uOut
      /\ tTurn => tState' = r.state /\ uState' = uState
      /\ ~tTurn => uState' = r.state /\ tState' = tState
  BY DEF Receive
<1>3. sent \in Seq(Msg) /\ pc = "loop"
  BY DEF HonestInv, Looping
<1>4. r.kind = "acceptAndSend" => r.msg \in Msg
  BY <1>1, HonestAssumption, AcceptingType
<1>5. Clock = 2 * n - 1 /\ Clock' = Len(sent') + n
  BY <1>1, <1>2 DEF Clock
<1>6. /\ TranscriptOf(TRUE) = Tr(TRUE, sent, n - 1) /\ TranscriptOf(TRUE)' = Tr(TRUE, sent', n)
      /\ TranscriptOf(FALSE) = Tr(FALSE, sent, n - 1) /\ TranscriptOf(FALSE)' = Tr(FALSE, sent', n)
  BY <1>1, <1>2, TranscriptIs, NextTranscriptIs
<1>7. /\ U.output[uState] = {Pending}
      /\ ~SentByT(TLeads, n) => T.output[tState] = {Pending}
  <2>1. PICK m : m = n
    OBVIOUS
  <2>2. m \in Nat /\ m = Len(sent) /\ m > 0 /\ Conf(uState, tState, sent, m - 1) \in H
    BY <1>1, <2>1
  <2>3. U.output[uState] = {Pending}
    BY <1>3, <2>2, ConfInFlight, Zenon
  <2>4. \E o : o \in T.output[tState]
    BY <1>3, <2>2, ConfInFlight, Zenon
  <2>5. ASSUME ~SentByT(TLeads, m), NEW o \in T.output[tState]
        PROVE  o = Pending
    BY <1>3, <2>2, <2>5, PendingT, SMT
  <2>6. QED
    BY <2>1, <2>3, <2>4, <2>5
<1>8. T.output[tState'] # {} /\ U.output[uState'] # {}
  <2>1. RunInv(H)' /\ sent' \in Seq(Msg)
    BY DEF HonestInv
  <2>2. PICK s, m, u, t : s = sent' /\ m = Len(s) /\ u = uState' /\ t = tState'
    OBVIOUS
  <2>3. /\ s \in Seq(Msg) /\ m \in Nat /\ m > 0
        /\ Conf(u, t, s, m - 1) \in H \/ Conf(u, t, s, m) \in H
    <3>1. s \in Seq(Msg) /\ m \in Nat /\ m > 0
      BY <2>1, <2>2, LenProperties DEF RunInv
    <3>2. delivered' = m - 1 \/ delivered' = m
      BY <2>1, <2>2 DEF RunInv
    <3>3. Conf(u, t, s, delivered') \in H
      BY <2>1, <2>2 DEF RunInv
    <3>4. QED
      BY <3>1, <3>2, <3>3
  <2>4. CASE Conf(u, t, s, m - 1) \in H
    <3>1. \E o : o \in T.output[t]
      BY <2>2, <2>3, <2>4, ConfInFlight, Zenon
    <3>2. U.output[u] = {Pending}
      BY <2>2, <2>3, <2>4, ConfInFlight, Zenon
    <3>3. QED
      BY <2>2, <3>1, <3>2
  <2>5. CASE Conf(u, t, s, m) \in H
    <3>1. \E k \in Key : U.output[u] = {k} /\ T.output[t] = {k}
      BY <2>2, <2>3, <2>5, ConfOver, SMT
    <3>2. QED
      BY <2>2, <3>1
  <2>6. QED
    BY <2>3, <2>4, <2>5
<1>9. (Mine(TRUE, n) <=> SentByT(TLeads, n)) /\ (Mine(FALSE, n) <=> ~SentByT(TLeads, n))
  BY <1>1, Turns
<1>10. ASSUME NEW isT \in BOOLEAN, Mine(isT, n)
       PROVE  Tr(isT, sent', n) = Tr(isT, sent, n - 1)
  <2>1. CASE sent' = sent
    BY <1>1, <1>3, <1>10, <2>1, SenderTr
  <2>2. CASE r.kind = "acceptAndSend" /\ sent' = Append(sent, r.msg)
    BY <1>1, <1>3, <1>4, <1>10, <2>2, ReplyTr
  <2>3. QED
    BY <2>1, <2>2
<1>11. ASSUME NEW isT \in BOOLEAN, ~Mine(isT, n)
       PROVE  /\ Tr(isT, sent', n) = Recorded(Tr(isT, sent, n - 1), w, r, Clock).tr
              /\ Clock' = Recorded(Tr(isT, sent, n - 1), w, r, Clock).clock
  <2>1. PICK m : m = n
    OBVIOUS
  <2>2. m \in Nat /\ m = Len(sent) /\ m > 0 /\ ~Mine(isT, m) /\ sent[m] = w
    BY <1>1, <1>11, <2>1
  <2>3. CASE r.kind = "complete"
    <3>1. Recorded(Tr(isT, sent, m - 1), sent[m], r, 2 * m - 1).tr = Tr(isT, sent, m)
      BY <1>3, <2>2, <2>3, CompleteRecorded, Zenon
    <3>2. Recorded(Tr(isT, sent, m - 1), sent[m], r, 2 * m - 1).clock = 2 * m
      BY <1>3, <2>2, <2>3, CompleteRecorded, Zenon
    <3>3. sent' = sent /\ m + m = 2 * m
      BY <2>2, <2>3
    <3>4. QED
      BY <1>5, <2>1, <2>2, <3>1, <3>2, <3>3
  <2>4. CASE r.kind = "acceptAndSend"
    <3>1. r.msg \in Msg /\ sent' = Append(sent, r.msg)
      BY <1>4, <2>4
    <3>2. Recorded(Tr(isT, sent, m - 1), sent[m], r, 2 * m - 1).tr = Tr(isT, Append(sent, r.msg), m)
      BY <1>3, <2>2, <2>4, <3>1, ReplyRecorded, Zenon
    <3>3. Recorded(Tr(isT, sent, m - 1), sent[m], r, 2 * m - 1).clock = 2 * m + 1
      BY <1>3, <2>2, <2>4, <3>1, ReplyRecorded, Zenon
    <3>4. Len(sent') = m + 1 /\ (m + 1) + m = 2 * m + 1
      BY <1>3, <2>2, <3>1, AppendProperties
    <3>5. QED
      BY <1>5, <2>1, <2>2, <3>1, <3>2, <3>3, <3>4
  <2>5. QED
    BY <2>3, <2>4
<1> HIDE DEF n, w
<1>12. ASSUME tTurn
       PROVE  Game!StepT(1, w)
  <2>1. /\ r \in Accepting(T, tState, w) /\ tState' = r.state /\ uState' = uState
        /\ T.output[tState] = {Pending} /\ ~Mine(TRUE, n) /\ Mine(FALSE, n)
    BY <1>1, <1>2, <1>7, <1>9, <1>12
  <2>2. OutputOf(T, tState) = Pending /\ OutputOf(T, r.state) \in T.output[r.state]
    BY <1>8, <2>1, OutputPicked
  <2>3. OutputOf(T, r.state) \in IF Finished(r) THEN T.output[r.state] ELSE {Pending}
    <3>1. OutputOf(T, r.state) # Pending <=> Finished(r)
      BY <1>1, <2>1, <2>2 DEF Admissible, OutputsOnlyAtCompletion
    <3>2. QED
      BY <2>2, <3>1
  <2>4. /\ TranscriptOf(FALSE)' = TranscriptOf(FALSE)
        /\ TranscriptOf(TRUE)' = Recorded(TranscriptOf(TRUE), w, r, Clock).tr
        /\ Clock' = Recorded(TranscriptOf(TRUE), w, r, Clock).clock
    BY <1>6, <1>10, <1>11, <2>1
  <2>5. pc' \in {"loop", "output"}
    OBVIOUS
  <2>6. QED
    BY <1>1, <1>2, <1>3, <2>1, <2>2, <2>3, <2>4, <2>5, GameStepT
<1>13. ASSUME ~tTurn
       PROVE  Game!StepChallenge(w)
  <2>1. /\ r \in Accepting(U, uState, w) /\ uState' = r.state /\ tState' = tState
        /\ U.output[uState] = {Pending} /\ Mine(TRUE, n) /\ ~Mine(FALSE, n)
    BY <1>1, <1>2, <1>7, <1>9, <1>13
  <2>2. OutputOf(U, uState) = Pending /\ OutputOf(U, r.state) \in U.output[r.state]
    BY <1>8, <2>1, OutputPicked
  <2>3. OutputOf(U, r.state) # Pending <=> Finished(r)
    BY <1>1, <2>1, <2>2 DEF Admissible, OutputsOnlyAtCompletion
  <2>4. /\ TranscriptOf(TRUE)' = TranscriptOf(TRUE)
        /\ TranscriptOf(FALSE)' = Recorded(TranscriptOf(FALSE), w, r, Clock).tr
        /\ Clock' = Recorded(TranscriptOf(FALSE), w, r, Clock).clock
    BY <1>6, <1>10, <1>11, <2>1
  <2>5. pc' \in {"loop", "output"}
    OBVIOUS
  <2>6. QED
    BY <1>1, <1>2, <1>3, <2>1, <2>2, <2>3, <2>4, <2>5, GameStepU
<1>14. QED
  BY <1>1, <1>12, <1>13

\* A run that has all its messages delivered transferred `rounds` of them, with one key
\* on both sides, and its transcripts match.
LEMMA AllDelivered ==
    ASSUME NEW CONSTANT H, Admissible(U, T, Rounds, H), RunInv(H), sent \in Seq(Msg),
           delivered = Len(sent)
    PROVE  /\ Len(sent) = Rounds
           /\ \E k \in Key : U.output[uState] = {k} /\ T.output[tState] = {k}
           /\ Matching(TLeads, TranscriptOf(TRUE), TranscriptOf(FALSE))
<1>1. PICK n : n = Len(sent)
  OBVIOUS
<1>2. n \in Nat /\ n > 0 /\ Conf(uState, tState, sent, n) \in H
  BY <1>1, LenProperties DEF RunInv
<1>3. n = Rounds /\ \E k \in Key : U.output[uState] = {k} /\ T.output[tState] = {k}
  BY <1>1, <1>2, ConfOver, SMT
<1>4. Matching(TLeads, Tr(TRUE, sent, n), Tr(FALSE, sent, n))
  BY <1>1, <1>2, DeliveredMatch
<1>5. TranscriptOf(TRUE) = Tr(TRUE, sent, n) /\ TranscriptOf(FALSE) = Tr(FALSE, sent, n)
  BY <1>1, TranscriptIs
<1>6. QED
  BY <1>1, <1>3, <1>4, <1>5

\* While a message is in flight U has no key.
LEMMA PendingU ==
    ASSUME NEW CONSTANT H, Admissible(U, T, Rounds, H), RunInv(H), sent \in Seq(Msg),
           delivered # Len(sent)
    PROVE  Len(sent) <= Rounds /\ U.output[uState] = {Pending}
<1>1. PICK n : n = Len(sent)
  OBVIOUS
<1>2. n \in Nat /\ n > 0 /\ Conf(uState, tState, sent, n - 1) \in H
  BY <1>1, LenProperties DEF RunInv
<1>3. n <= Rounds
  BY <1>1, <1>2, ConfInFlight, Zenon
<1>4. U.output[uState] = {Pending}
  BY <1>1, <1>2, ConfInFlight, Zenon
<1>5. QED
  BY <1>1, <1>3, <1>4

\* The outputs are read: the run is rejected, or recognised as relayed.
LEMMA RefineOutputs ==
    ASSUME NEW CONSTANT H, Admissible(U, T, Rounds, H), HonestInv(H), ReadOutputs
    PROVE  Game!Rejected \/ Game!Accepted
<1>1. /\ pc = "output" /\ pc' = "done" /\ UNCHANGED <<uState, tState, sent, delivered>>
      /\ uOut' \in U.output[uState]
  BY DEF ReadOutputs
<1>2. RunInv(H) /\ sent \in Seq(Msg) /\ uOut = Pending
  BY <1>1 DEF HonestInv, OutputInv
<1>3. CASE uOut' \notin Key
  BY <1>1, <1>2, <1>3, GameRejected
<1>4. CASE uOut' \in Key
  <2>1. delivered = Len(sent)
    <3>1. ASSUME delivered # Len(sent)
          PROVE  FALSE
      <4>1. U.output[uState] = {Pending}
        BY <1>2, <3>1, PendingU
      <4>2. QED
        BY <1>1, <1>4, <4>1, KeyAssumption
    <3>2. QED
      BY <3>1
  <2>2. Matching(TLeads, TranscriptOf(TRUE), TranscriptOf(FALSE))
    BY <1>2, <2>1, AllDelivered
  <2>3. QED
    BY <1>1, <1>2, <1>4, <2>2, GameAccepted
<1>5. QED
  BY <1>3, <1>4

\* A reject and the end of the fuel leave the game where it is.
LEMMA RefineStop ==
    ASSUME pc = "loop", pc' = "output", UNCHANGED <<uState, tState, sent, delivered, uOut>>
    PROVE  UNCHANGED Game!vars
<1>1. TranscriptOf(TRUE)' = TranscriptOf(TRUE) /\ TranscriptOf(FALSE)' = TranscriptOf(FALSE)
  BY TranscriptIs, NextTranscriptIs
<1>2. Join(uOut)' = Join(uOut)
  BY DEF Join
<1>3. OutputOf(T, tState)' = OutputOf(T, tState) /\ OutputOf(U, uState)' = OutputOf(U, uState)
  BY DEF OutputOf
<1>4. QED
  BY <1>1, <1>2, <1>3 DEF Game!vars, Game!env

LEMMA RefineStutter ==
    ASSUME UNCHANGED vars
    PROVE  UNCHANGED Game!vars
<1>1. UNCHANGED <<pc, uState, tState, sent, delivered, uOut>>
  BY DEF vars
<1>2. TranscriptOf(TRUE)' = TranscriptOf(TRUE) /\ TranscriptOf(FALSE)' = TranscriptOf(FALSE)
  BY <1>1, TranscriptIs, NextTranscriptIs
<1>3. Join(uOut)' = Join(uOut)
  BY <1>1 DEF Join
<1>4. OutputOf(T, tState)' = OutputOf(T, tState) /\ OutputOf(U, uState)' = OutputOf(U, uState)
  BY <1>1 DEF OutputOf
<1>5. QED
  BY <1>1, <1>2, <1>3, <1>4 DEF Game!vars, Game!env, Result

LEMMA RefineNext ==
    ASSUME NEW CONSTANT H, Admissible(U, T, Rounds, H), HonestInv(H), HonestInv(H)', [Next]_vars
    PROVE  [Game!Next]_Game!vars
<1>1. ASSUME NEW w \in Msg, Game!StepT(1, w) \/ Game!StepChallenge(w), pc # "start"
      PROVE  Game!Next
  <2>1. 1 \in DOMAIN (IF pc = "start" THEN <<>> ELSE <<Session>>)
    BY <1>1
  <2>2. Game!StepT(1, w) => Game!Next
    BY <2>1 DEF Game!Next, Session
  <2>3. Game!StepChallenge(w) => Game!Next
    BY DEF Game!Next
  <2>4. QED
    BY <1>1, <2>2, <2>3
<1>2. CASE Start
  BY <1>2, RefineStart DEF Game!Next
<1>3. CASE Reply
  <2>1. PICK r \in StepResults :
          r.kind = "acceptAndSend" /\ Receive(r) /\ Send(r.msg) /\ UNCHANGED pc
    BY <1>3 DEF Reply
  <2>2. Looping /\ pc = "loop" /\ pc' = "loop" /\ sent' = Append(sent, r.msg)
    BY <1>3, <2>1 DEF Reply, Looping, Send
  <2>3. \E w \in Msg : Game!StepT(1, w) \/ Game!StepChallenge(w)
    BY <2>1, <2>2, RefineDelivery
  <2>4. QED
    BY <1>1, <2>2, <2>3
<1>4. CASE Completes
  <2>1. PICK r \in StepResults :
          r.kind = "complete" /\ Receive(r) /\ pc' = "output" /\ sent' = sent
    BY <1>4 DEF Completes
  <2>2. Looping /\ pc = "loop"
    BY <1>4 DEF Completes, Looping
  <2>3. \E w \in Msg : Game!StepT(1, w) \/ Game!StepChallenge(w)
    BY <2>1, <2>2, RefineDelivery
  <2>4. QED
    BY <1>1, <2>2, <2>3
<1>5. CASE Rejects
  BY <1>5, RefineStop DEF Rejects, Looping
<1>6. CASE OutOfFuel
  BY <1>6, RefineStop DEF OutOfFuel
<1>7. CASE ReadOutputs
  BY <1>7, RefineOutputs DEF Game!Next
<1>8. CASE UNCHANGED vars
  BY <1>8, RefineStutter
<1>9. QED
  BY <1>2, <1>3, <1>4, <1>5, <1>6, <1>7, <1>8 DEF Next

\* The honest run of an admissible scheme is a run of the security game: its
\* deliveries are oracle queries, and it never ends in a forgery, also when a
\* party rejects or the fuel runs out (Party.runHonest against Exp).
THEOREM ImplementsGameHolds ==
    ASSUME NEW CONSTANT H, Admissible(U, T, Rounds, H)
    PROVE  Spec => ImplementsGame
<1>1. Init => Game!Init
  BY RefineInit
<1>2. HonestInv(H) /\ HonestInv(H)' /\ [Next]_vars => [Game!Next]_Game!vars
  BY RefineNext
<1>3. Spec => []HonestInv(H)
  BY HonestAlways
<1>4. QED
  BY <1>1, <1>2, <1>3, PTL DEF Spec, ImplementsGame

\* With fuel rounds + 1 and no reject the run transfers exactly `rounds`
\* messages and both parties accept one key (CorrectExp, HonestCompletionExp).
THEOREM HonestlyCompletesHolds ==
    ASSUME NEW CONSTANT H, Admissible(U, T, Rounds, H)
    PROVE  Spec => []HonestlyCompletes
<1>1. ASSUME HonestInv(H), pc = "done", ~rejected, given > Rounds
      PROVE  /\ Len(sent) = Rounds /\ uOut \in Key /\ tOut = uOut
             /\ Matching(TLeads, TranscriptOf(TRUE), TranscriptOf(FALSE))
  <2>1. /\ RunInv(H) /\ sent \in Seq(Msg) /\ given \in Nat /\ fuel + delivered = given
        /\ uOut \in U.output[uState] /\ tOut \in T.output[tState]
    BY <1>1 DEF HonestInv, OutputInv
  <2>2. delivered = Len(sent)
    <3>1. ASSUME delivered # Len(sent)
          PROVE  FALSE
      <4>1. fuel = 0 /\ delivered = Len(sent) - 1 /\ Len(sent) \in Nat
        BY <1>1, <2>1, <3>1, LenProperties DEF RunInv
      <4>2. Len(sent) <= Rounds
        BY <2>1, <3>1, PendingU
      <4>3. Rounds \in Nat
        BY HonestAssumption
      <4>4. QED
        BY <1>1, <2>1, <4>1, <4>2, <4>3
    <3>2. QED
      BY <3>1
  <2>3. /\ Len(sent) = Rounds
        /\ \E k \in Key : U.output[uState] = {k} /\ T.output[tState] = {k}
        /\ Matching(TLeads, TranscriptOf(TRUE), TranscriptOf(FALSE))
    BY <2>1, <2>2, AllDelivered
  <2>4. PICK k \in Key : U.output[uState] = {k} /\ T.output[tState] = {k}
    BY <2>3
  <2>5. uOut = k /\ tOut = k
    BY <2>1, <2>4
  <2>6. QED
    BY <2>3, <2>4, <2>5
<1>2. HonestInv(H) => HonestlyCompletes
  BY <1>1 DEF HonestlyCompletes
<1>3. Spec => []HonestInv(H)
  BY HonestAlways
<1>4. QED
  BY <1>2, <1>3, PTL

=============================================================================
