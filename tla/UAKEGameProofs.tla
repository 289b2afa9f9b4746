--------------------------- MODULE UAKEGameProofs ---------------------------
(***************************************************************************)
(* Theorems about the UAKE game, for every scheme and any number of        *)
(* sessions.                                                               *)
(***************************************************************************)
EXTENDS UAKEGame, TLAPS

-----------------------------------------------------------------------------
(* Transcripts. *)

\* The entries of a transcript are pairs of a message and a tick.
LEMMA EntryType ==
    ASSUME NEW tr \in Transcript, NEW i \in 1 .. Len(tr)
    PROVE  tr[i].w \in Msg /\ tr[i].at \in Nat
<1>1. tr[i] \in Entry
      BY DEF Transcript
<1> QED BY <1>1 DEF Entry

\* The elements of an interleaving: the halves of the k-th pair, T's first
\* exactly if T sends the k-th message.
LEMMA InterleaveElements ==
    ASSUME NEW ab \in BOOLEAN, NEW pairs, Len(pairs) \in Nat,
           NEW k \in 1 .. Len(pairs)
    PROVE  /\ Interleave(ab, pairs)[2 * k - 1] =
                 IF SentByT(ab, k) THEN pairs[k][1] ELSE pairs[k][2]
           /\ Interleave(ab, pairs)[2 * k] =
                 IF SentByT(ab, k) THEN pairs[k][2] ELSE pairs[k][1]
<1> DEFINE n == Len(pairs)
<1>1. /\ 2 * k - 1 \in 1 .. 2 * n
      /\ 2 * k \in 1 .. 2 * n
      OBVIOUS
<1>2. /\ (2 * k - 1 + 1) \div 2 = k
      /\ (2 * k + 1) \div 2 = k
      /\ (2 * k - 1) % 2 = 1
      /\ (2 * k) % 2 = 0
      OBVIOUS
<1> QED BY <1>1, <1>2 DEF Interleave, SentByT

\* Matching, as the code computes it, is relaying: for transcripts in
\* chronological order the chain of alternating timestamps says no more and
\* no less than that each message left its sender before it was received.
THEOREM MatchingIsRelaying ==
    ASSUME NEW tLeads \in BOOLEAN, NEW A \in Transcript, NEW C \in Transcript,
           Increasing(A), Increasing(C)
    PROVE  Matching(tLeads, A, C) <=> Relayed(tLeads, A, C)
<1> SUFFICES ASSUME SameMessages(A, C)
             PROVE  IsChain(Interleave(tLeads, ZipTimes(A, C))) <=>
                       \A k \in 1 .. Len(A) :
                          IF SentByT(tLeads, k) THEN A[k].at < C[k].at
                                                ELSE C[k].at < A[k].at
    BY DEF Matching, Relayed, SameMessages, Transcript
<1> DEFINE n == Len(A)
           pairs == ZipTimes(A, C)
           ts == Interleave(tLeads, pairs)
<1>1. n \in Nat /\ Len(C) = n /\ DOMAIN A = 1 .. n /\ DOMAIN C = 1 .. n
      BY DEF SameMessages, Transcript
<1>2. \A k \in 1 .. n : A[k].at \in Int /\ C[k].at \in Int
      BY <1>1, EntryType
<1>3. /\ Len(pairs) = n
      /\ \A k \in 1 .. n : pairs[k] = <<A[k].at, C[k].at>>
      BY <1>1 DEF ZipTimes
<1>4. \A k \in 1 .. n :
         /\ ts[2 * k - 1] = IF SentByT(tLeads, k) THEN A[k].at ELSE C[k].at
         /\ ts[2 * k] = IF SentByT(tLeads, k) THEN C[k].at ELSE A[k].at
  <2> TAKE k \in 1 .. n
  <2>1. /\ ts[2 * k - 1] = IF SentByT(tLeads, k) THEN pairs[k][1] ELSE pairs[k][2]
        /\ ts[2 * k] = IF SentByT(tLeads, k) THEN pairs[k][2] ELSE pairs[k][1]
        BY <1>1, <1>3, InterleaveElements
  <2> QED BY <2>1, <1>3
<1>5. Len(ts) = 2 * n
      BY <1>1, <1>3 DEF Interleave
<1> HIDE DEF pairs, ts
<1>6. ASSUME IsChain(ts), NEW k \in 1 .. n
      PROVE  IF SentByT(tLeads, k) THEN A[k].at < C[k].at ELSE C[k].at < A[k].at
  <2>1. 2 * k - 1 \in 1 .. Len(ts) - 1 /\ (2 * k - 1) + 1 = 2 * k
        BY <1>1, <1>5
  <2>2. ts[2 * k - 1] < ts[2 * k]
        BY <1>6, <2>1 DEF IsChain
  <2> QED BY <2>2, <1>4
<1>7. ASSUME \A k \in 1 .. n :
                IF SentByT(tLeads, k) THEN A[k].at < C[k].at ELSE C[k].at < A[k].at,
             NEW i \in 1 .. Len(ts) - 1
      PROVE  ts[i] < ts[i + 1]
  <2>1. PICK k \in 1 .. n : i = 2 * k - 1 \/ (i = 2 * k /\ k + 1 \in 1 .. n)
    <3>1. CASE i % 2 = 1
      <4>1. (i + 1) \div 2 \in 1 .. n /\ i = 2 * ((i + 1) \div 2) - 1
            BY <3>1, <1>1, <1>5
      <4> QED BY <4>1
    <3>2. CASE i % 2 = 0
      <4>1. /\ i \div 2 \in 1 .. n /\ i = 2 * (i \div 2)
            /\ (i \div 2) + 1 \in 1 .. n
            BY <3>2, <1>1, <1>5
      <4> QED BY <4>1
    <3> QED BY <3>1, <3>2, <1>5, <1>1
  <2>2. CASE i = 2 * k - 1
    <3>1. ts[i] = ts[2 * k - 1] /\ ts[i + 1] = ts[2 * k]
          BY <2>2, <1>1
    <3> QED BY <3>1, <1>4, <1>7
  <2>3. CASE i = 2 * k /\ k + 1 \in 1 .. n
    <3>1. ts[i + 1] = ts[2 * (k + 1) - 1]
          BY <2>3, <1>1
    <3>2. SentByT(tLeads, k + 1) <=> ~SentByT(tLeads, k)
      <4>1. (k + 1) % 2 = 1 <=> ~(k % 2 = 1)
            BY <1>1
      <4> QED BY <4>1 DEF SentByT
    <3>3. A[k].at < A[k + 1].at /\ C[k].at < C[k + 1].at
          BY <2>3, <1>1 DEF Increasing
    <3> QED BY <3>1, <3>2, <3>3, <2>3, <1>4
  <2> QED BY <2>1, <2>2, <2>3
<1> QED BY <1>6, <1>7, <1>1 DEF IsChain, pairs, ts

-----------------------------------------------------------------------------
(* Recording. *)

\* What the game's bookkeeping does to a transcript that lies in the past:
\* it stays in order, and it takes exactly the ticks that pass.
Recorded(old, c, rec) ==
    /\ rec.tr \in Transcript
    /\ rec.clock \in Nat /\ rec.clock >= c
    /\ Increasing(old) /\ Stamps(old) \subseteq 0 .. c - 1 =>
          /\ Increasing(rec.tr)
          /\ Stamps(rec.tr) = Stamps(old) \cup c .. rec.clock - 1

LEMMA RecordOneRecords ==
    ASSUME NEW tr \in Transcript, NEW w \in Msg, NEW c \in Nat
    PROVE  Recorded(tr, c, RecordOne(tr, w, c))
<1> DEFINE e == [w |-> w, at |-> c]
           new == Append(tr, e)
           n == Len(tr)
<1>1. e \in Entry
      BY DEF Entry
<1>2. new \in Transcript
      BY <1>1 DEF Transcript
<1>3. /\ n \in Nat /\ DOMAIN tr = 1 .. n /\ DOMAIN new = 1 .. n + 1
      /\ \A i \in 1 .. n : new[i] = tr[i]
      /\ new[n + 1] = e
      BY <1>1 DEF Transcript
<1>4. RecordOne(tr, w, c).tr = new /\ RecordOne(tr, w, c).clock = c + 1
      BY DEF RecordOne
<1> HIDE DEF new
<1>5. e.at = c
      OBVIOUS
<1>6. ASSUME Increasing(tr), Stamps(tr) \subseteq 0 .. c - 1
      PROVE  Increasing(new) /\ Stamps(new) = Stamps(tr) \cup {c}
  <2>1. \A i \in 1 .. n : tr[i].at \in 0 .. c - 1
        BY <1>6, <1>3 DEF Stamps
  <2>2. Increasing(new)
        BY <2>1, <1>3, <1>5, <1>6 DEF Increasing
  <2>3. Stamps(new) = Stamps(tr) \cup {c}
        BY <1>3, <1>5 DEF Stamps
  <2> QED BY <2>2, <2>3
<1>7. {c} = c .. (c + 1) - 1
      OBVIOUS
<1> QED BY <1>2, <1>4, <1>6, <1>7 DEF Recorded

LEMMA RecordOptRecords ==
    ASSUME NEW tr \in Transcript, NEW w \in Msg \cup {NoMsg}, NEW c \in Nat
    PROVE  Recorded(tr, c, RecordOpt(tr, w, c))
<1>1. CASE w = NoMsg
  <2>1. RecordOpt(tr, w, c).tr = tr /\ RecordOpt(tr, w, c).clock = c
        BY <1>1 DEF RecordOpt
  <2>2. c .. c - 1 = {}
        OBVIOUS
  <2> QED BY <2>1, <2>2 DEF Recorded
<1>2. CASE w # NoMsg
  <2>1. RecordOpt(tr, w, c) = RecordOne(tr, w, c)
        BY <1>2 DEF RecordOpt
  <2> QED BY <1>2, <2>1, RecordOneRecords
<1> QED BY <1>1, <1>2

LEMMA RecordTwoRecords ==
    ASSUME NEW tr \in Transcript, NEW w \in Msg, NEW v \in Msg, NEW c \in Nat
    PROVE  Recorded(tr, c, RecordTwo(tr, w, v, c))
<1> DEFINE r1 == RecordOne(tr, w, c)
           r2 == RecordOne(r1.tr, v, r1.clock)
<1>1. Recorded(tr, c, r1) /\ r1.clock = c + 1
      BY RecordOneRecords DEF RecordOne
<1>2. r1.tr \in Transcript /\ r1.clock \in Nat
      BY <1>1 DEF Recorded
<1>3. Recorded(r1.tr, r1.clock, r2) /\ r2.clock = c + 2
  <2>1. Recorded(r1.tr, r1.clock, r2)
        BY <1>2, RecordOneRecords
  <2>2. r2.clock = r1.clock + 1
        BY DEF RecordOne
  <2> QED BY <2>1, <2>2, <1>1
<1>4. RecordTwo(tr, w, v, c) = r2
      BY DEF RecordTwo
<1> HIDE DEF r1, r2
<1>5. ASSUME Increasing(tr), Stamps(tr) \subseteq 0 .. c - 1
      PROVE  Increasing(r2.tr) /\ Stamps(r2.tr) = Stamps(tr) \cup c .. r2.clock - 1
  <2>1. Increasing(r1.tr) /\ Stamps(r1.tr) = Stamps(tr) \cup c .. c
        BY <1>1, <1>5 DEF Recorded
  <2>2. Stamps(r1.tr) \subseteq 0 .. r1.clock - 1
        BY <2>1, <1>1, <1>5
  <2>3. Increasing(r2.tr) /\ Stamps(r2.tr) = Stamps(r1.tr) \cup (c + 1) .. (c + 1)
        BY <2>1, <2>2, <1>1, <1>3 DEF Recorded
  <2>4. (c .. c) \cup ((c + 1) .. (c + 1)) = c .. (c + 2) - 1
        OBVIOUS
  <2> QED BY <2>1, <2>3, <2>4, <1>3
<1> QED BY <1>3, <1>4, <1>5 DEF Recorded

\* A step result that changes a session, and what it adds to a transcript.
LEMMA AcceptingType ==
    ASSUME NEW P, IsParty(P), NEW st \in State, NEW w \in Msg,
           NEW r \in Accepting(P, st, w)
    PROVE  /\ r.state \in State
           /\ r.kind = "complete" \/ (r.kind = "acceptAndSend" /\ r.msg \in Msg)
<1>1. r \in StepResult /\ r.kind # "reject"
      BY DEF Accepting, IsParty
<1>2. CASE r \in [kind : {"complete"}, state : State]
      BY <1>2
<1>3. CASE r \in [kind : {"acceptAndSend"}, state : State, msg : Msg, done : BOOLEAN]
      BY <1>3
<1> QED BY <1>1, <1>2, <1>3 DEF StepResult

LEMMA RecordStepRecords ==
    ASSUME NEW P, IsParty(P), NEW st \in State, NEW w \in Msg,
           NEW r \in Accepting(P, st, w), NEW tr \in Transcript, clock \in Nat
    PROVE  Recorded(tr, clock, RecordStep(tr, w, r))
<1>1. CASE r.kind = "complete"
      BY <1>1, RecordOneRecords DEF RecordStep
<1>2. CASE r.kind # "complete"
  <2>1. r.msg \in Msg
        BY <1>2, AcceptingType
  <2> QED BY <1>2, <2>1, RecordTwoRecords DEF RecordStep
<1> QED BY <1>1, <1>2

-----------------------------------------------------------------------------
(* Type correctness. *)

LEMMA EmptyTranscript ==
    /\ <<>> \in Transcript
    /\ Increasing(<<>>)
    /\ Stamps(<<>>) = {}
BY DEF Transcript, Increasing, Stamps

LEMMA OpeningRecords ==
    ASSUME NEW P, IsParty(P), NEW p0 \in P.init, NEW c \in Nat
    PROVE  p0.state \in State /\ Recorded(<<>>, c, RecordOpt(<<>>, p0.opening, c))
<1>1. p0 \in [state : State, opening : Msg \cup {NoMsg}]
      BY DEF IsParty
<1>2. p0.state \in State /\ p0.opening \in Msg \cup {NoMsg}
      BY <1>1
<1> QED BY <1>2, EmptyTranscript, RecordOptRecords

LEMMA SeqUpdateType ==
    ASSUME NEW S, NEW s \in Seq(S), NEW i \in DOMAIN s, NEW e \in S
    PROVE  /\ [s EXCEPT ![i] = e] \in Seq(S)
           /\ DOMAIN [s EXCEPT ![i] = e] = DOMAIN s
OBVIOUS

LEMMA TranscriptsType ==
    ASSUME NEW sessions \in Seq(TSession)
    PROVE  Transcripts(sessions) \in Seq(Transcript)
<1>1. /\ Len(sessions) \in Nat
      /\ DOMAIN sessions = 1 .. Len(sessions)
      /\ \A i \in 1 .. Len(sessions) : sessions[i] \in TSession
      OBVIOUS
<1>2. \A i \in 1 .. Len(sessions) : sessions[i].transcript \in Transcript
      BY <1>1 DEF TSession
<1>3. Transcripts(sessions) \in [1 .. Len(sessions) -> Transcript]
      BY <1>1, <1>2 DEF Transcripts
<1> QED BY <1>1, <1>3

\* A session of the game is well-formed, field by field.
LEMMA SessionType ==
    ASSUME TypeOK, NEW sid \in DOMAIN tSessions
    PROVE  /\ tSessions[sid] \in TSession
           /\ tSessions[sid].state \in State
           /\ tSessions[sid].transcript \in Transcript
           /\ tSessions[sid].key \in Output
           /\ tSessions[sid].revealed \in BOOLEAN
<1>1. tSessions[sid] \in TSession
      BY DEF TypeOK
<1> QED BY <1>1 DEF TSession

\* What OpenT does to the sessions and the clock.
LEMMA OpenTEffect ==
    ASSUME TypeOK, OpenT
    PROVE  \E st \in State, rec \in [tr : Transcript, clock : Nat] :
              /\ Recorded(<<>>, clock, rec)
              /\ tSessions' = Append(tSessions,
                    [state |-> st, transcript |-> rec.tr, key |-> Pending,
                     revealed |-> FALSE])
              /\ clock' = rec.clock
<1>1. PICK t0 \in T.init :
         LET r == RecordOpt(<<>>, t0.opening, clock)
         IN /\ tSessions' = Append(tSessions,
                  [state |-> t0.state, transcript |-> r.tr, key |-> Pending,
                   revealed |-> FALSE])
            /\ clock' = r.clock
      BY DEF OpenT
<1> DEFINE r == RecordOpt(<<>>, t0.opening, clock)
<1>2. IsParty(T) /\ clock \in Nat
      BY GameAssumption DEF TypeOK
<1>3. t0.state \in State /\ Recorded(<<>>, clock, r)
      BY <1>2, OpeningRecords
<1>4. r.tr \in Transcript /\ r.clock \in Nat
      BY <1>3 DEF Recorded
<1>5. r \in [tr : Transcript, clock : Nat]
      BY <1>4 DEF RecordOpt, RecordOne
<1> QED BY <1>1, <1>3, <1>5

\* What StepT does: one running session is replaced.
LEMMA StepTEffect ==
    ASSUME TypeOK, NEW sid \in DOMAIN tSessions, NEW w \in Msg, StepT(sid, w)
    PROVE  \E new \in TSession :
              /\ tSessions[sid].key = Pending
              /\ new.revealed = tSessions[sid].revealed
              /\ Recorded(tSessions[sid].transcript, clock,
                          [tr |-> new.transcript, clock |-> clock'])
              /\ tSessions' = [tSessions EXCEPT ![sid] = new]
              /\ clock' \in Nat
<1> DEFINE old == tSessions[sid]
<1>1. PICK r \in Accepting(T, old.state, w) :
         LET rec == RecordStep(old.transcript, w, r)
         IN /\ \E key \in IF Finished(r) THEN T.output[r.state] ELSE {Pending} :
                  tSessions' = [tSessions EXCEPT ![sid] =
                      [state |-> r.state, transcript |-> rec.tr, key |-> key,
                       revealed |-> @.revealed]]
            /\ clock' = rec.clock
      BY DEF StepT
<1> DEFINE rec == RecordStep(old.transcript, w, r)
<1>2. PICK key \in IF Finished(r) THEN T.output[r.state] ELSE {Pending} :
         tSessions' = [tSessions EXCEPT ![sid] =
             [state |-> r.state, transcript |-> rec.tr, key |-> key,
              revealed |-> @.revealed]]
      BY <1>1
<1>3. IsParty(T) /\ clock \in Nat /\ old.state \in State /\ old.transcript \in Transcript
      BY GameAssumption, SessionType DEF TypeOK
<1>4. r.state \in State /\ Recorded(old.transcript, clock, rec)
      BY <1>3, AcceptingType, RecordStepRecords
<1>5. rec.tr \in Transcript /\ rec.clock \in Nat
      BY <1>4 DEF Recorded
<1>6. key \in Output
      BY <1>3, <1>4 DEF IsParty, Output
<1> DEFINE new == [state |-> r.state, transcript |-> rec.tr, key |-> key,
                   revealed |-> old.revealed]
<1>7. new \in TSession
      BY <1>4, <1>5, <1>6, SessionType DEF TSession
<1>8. tSessions' = [tSessions EXCEPT ![sid] = new]
      BY <1>2
<1>9. Recorded(old.transcript, clock, [tr |-> new.transcript, clock |-> clock'])
      BY <1>1, <1>4 DEF Recorded
<1>10. old.key = Pending
      BY DEF StepT, Running
<1> QED BY <1>1, <1>5, <1>7, <1>8, <1>9, <1>10

\* What StepChallenge does.
LEMMA StepChallengeEffect ==
    ASSUME TypeOK, NEW w \in Msg, StepChallenge(w)
    PROVE  /\ challenge' \in [state : State, transcript : Transcript]
           /\ Recorded(challenge.transcript, clock,
                       [tr |-> challenge'.transcript, clock |-> clock'])
           /\ clock' \in Nat
           /\ challengeDone' \in BOOLEAN
<1>1. PICK r \in Accepting(U, challenge.state, w) :
         LET rec == RecordStep(challenge.transcript, w, r)
         IN /\ challenge' = [state |-> r.state, transcript |-> rec.tr]
            /\ clock' = rec.clock
            /\ challengeDone' = Finished(r)
      BY DEF StepChallenge
<1> DEFINE rec == RecordStep(challenge.transcript, w, r)
<1>2. /\ IsParty(U) /\ clock \in Nat
      /\ challenge.state \in State /\ challenge.transcript \in Transcript
      BY GameAssumption DEF TypeOK
<1>3. r.state \in State /\ Recorded(challenge.transcript, clock, rec)
      BY <1>2, AcceptingType, RecordStepRecords
<1>4. rec.tr \in Transcript /\ rec.clock \in Nat
      BY <1>3 DEF Recorded
<1>5. Finished(r) \in BOOLEAN
      BY DEF Finished
<1>6. Recorded(challenge.transcript, clock,
               [tr |-> challenge'.transcript, clock |-> clock'])
      BY <1>1, <1>3 DEF Recorded
<1> QED BY <1>1, <1>3, <1>4, <1>5, <1>6

\* What RevealT does: one completed session is marked, and keeps the rest.
LEMMA RevealTEffect ==
    ASSUME TypeOK, NEW sid \in DOMAIN tSessions, RevealT(sid)
    PROVE  \E new \in TSession :
              /\ tSessions[sid].key # Pending
              /\ new = [tSessions[sid] EXCEPT !.revealed = TRUE]
              /\ new.transcript = tSessions[sid].transcript
              /\ new.key = tSessions[sid].key
              /\ new.revealed
              /\ tSessions' = [tSessions EXCEPT ![sid] = new]
              /\ clock' = clock
<1> DEFINE new == [tSessions[sid] EXCEPT !.revealed = TRUE]
<1>1. /\ new \in TSession /\ new.transcript = tSessions[sid].transcript
      /\ new.key = tSessions[sid].key /\ new.revealed
      BY SessionType DEF TSession
<1>2. /\ tSessions' = [tSessions EXCEPT ![sid] = new] /\ clock' = clock
      /\ tSessions[sid].key # Pending
      BY DEF RevealT
<1> QED BY <1>1, <1>2

\* The variables the end of the challenge phase sets.
LEMMA SnapshotEffect ==
    ASSUME TypeOK, NEW K0 \in Key \cup {Bot}, Snapshot(K0)
    PROVE  /\ cr' \in [K0 : Key \cup {Bot}, challengeTr : Transcript,
                      oracleTrs : Seq(Transcript)]
           /\ cr'.K0 = K0
<1>1. challenge.transcript \in Transcript
      BY DEF TypeOK
<1>2. Transcripts(tSessions) \in Seq(Transcript)
      BY TranscriptsType DEF TypeOK
<1> QED BY <1>1, <1>2 DEF Snapshot

LEMMA InitType == Init => TypeOK
<1> SUFFICES ASSUME Init PROVE TypeOK
    OBVIOUS
<1>1. PICK u0 \in U.init :
         LET r == RecordOpt(<<>>, u0.opening, 0)
         IN /\ challenge = [state |-> u0.state, transcript |-> r.tr]
            /\ clock = r.clock
      BY DEF Init
<1>2. u0.state \in State /\ Recorded(<<>>, 0, RecordOpt(<<>>, u0.opening, 0))
      BY GameAssumption, OpeningRecords
<1>3. clock \in Nat /\ challenge \in [state : State, transcript : Transcript]
      BY <1>1, <1>2 DEF Recorded
<1>4. tSessions \in Seq(TSession)
      BY DEF Init
<1>5. cr \in [K0 : Key \cup {Bot}, challengeTr : Transcript, oracleTrs : Seq(Transcript)]
  <2>1. cr = [K0 |-> Bot, challengeTr |-> <<>>, oracleTrs |-> <<>>]
        BY DEF Init
  <2>2. <<>> \in Seq(Transcript)
        OBVIOUS
  <2> QED BY <2>1, <2>2, EmptyTranscript
<1> QED BY <1>3, <1>4, <1>5 DEF Init, TypeOK

LEMMA NextType == TypeOK /\ [Next]_vars => TypeOK'
<1> SUFFICES ASSUME TypeOK, [Next]_vars PROVE TypeOK'
    OBVIOUS
<1>1. ASSUME OpenT PROVE TypeOK'
  <2>1. PICK st \in State, rec \in [tr : Transcript, clock : Nat] :
           /\ tSessions' = Append(tSessions,
                 [state |-> st, transcript |-> rec.tr, key |-> Pending,
                  revealed |-> FALSE])
           /\ clock' = rec.clock
        BY <1>1, OpenTEffect
  <2>2. [state |-> st, transcript |-> rec.tr, key |-> Pending, revealed |-> FALSE]
           \in TSession
        BY DEF TSession, Output
  <2>3. tSessions' \in Seq(TSession) /\ clock' \in Nat
        BY <2>1, <2>2 DEF TypeOK
  <2> QED BY <1>1, <2>3 DEF OpenT, Playing, TypeOK
<1>2. ASSUME NEW sid \in DOMAIN tSessions, RevealT(sid) PROVE TypeOK'
  <2>1. tSessions' \in Seq(TSession)
    <3>1. PICK new \in TSession : tSessions' = [tSessions EXCEPT ![sid] = new]
          BY <1>2, RevealTEffect
    <3> QED BY <3>1, SeqUpdateType DEF TypeOK
  <2> QED BY <1>2, <2>1 DEF RevealT, Playing, TypeOK
<1>3. ASSUME NEW sid \in DOMAIN tSessions, NEW w \in Msg, StepT(sid, w) PROVE TypeOK'
  <2>1. tSessions' \in Seq(TSession) /\ clock' \in Nat
    <3>1. PICK new \in TSession :
             tSessions' = [tSessions EXCEPT ![sid] = new] /\ clock' \in Nat
          BY <1>3, StepTEffect
    <3> QED BY <3>1, SeqUpdateType DEF TypeOK
  <2> QED BY <1>3, <2>1 DEF StepT, Playing, TypeOK
<1>4. ASSUME NEW w \in Msg, StepChallenge(w) PROVE TypeOK'
  <2>1. /\ challenge' \in [state : State, transcript : Transcript]
        /\ clock' \in Nat /\ challengeDone' \in BOOLEAN
        BY <1>4, StepChallengeEffect
  <2> QED BY <1>4, <2>1 DEF StepChallenge, Playing, TypeOK
<1>5. ASSUME Rejected PROVE TypeOK'
  <2>1. /\ cr' \in [K0 : Key \cup {Bot}, challengeTr : Transcript,
                    oracleTrs : Seq(Transcript)]
        /\ cr'.K0 = Bot
        BY <1>5, SnapshotEffect DEF Rejected
  <2>2. Kb' = Bot
        BY <1>5, <2>1 DEF Rejected, Deliver
  <2> QED BY <1>5, <2>1, <2>2 DEF Rejected, Deliver, Snapshot, TypeOK
<1>6. ASSUME Forged PROVE TypeOK'
  <2>1. cr' \in [K0 : Key \cup {Bot}, challengeTr : Transcript,
                 oracleTrs : Seq(Transcript)]
        BY <1>6, SnapshotEffect DEF Forged
  <2> QED BY <1>6, <2>1 DEF Forged, Snapshot, TypeOK
<1>7. ASSUME Accepted PROVE TypeOK'
  <2>1. PICK out \in Key : Snapshot(out)
        BY <1>7 DEF Accepted
  <2>2. /\ cr' \in [K0 : Key \cup {Bot}, challengeTr : Transcript,
                    oracleTrs : Seq(Transcript)]
        /\ cr'.K0 = out
        BY <2>1, SnapshotEffect
  <2>3. Kb' \in Key
        BY <1>7, <2>2 DEF Accepted, Deliver
  <2> QED BY <1>7, <2>1, <2>2, <2>3 DEF Accepted, Deliver, Snapshot, TypeOK
<1>8. ASSUME Guess PROVE TypeOK'
      BY <1>8 DEF Guess, env, TypeOK
<1>9. ASSUME UNCHANGED vars PROVE TypeOK'
      BY <1>9 DEF vars, env, TypeOK
<1> QED BY <1>1, <1>2, <1>3, <1>4, <1>5, <1>6, <1>7, <1>8, <1>9 DEF Next

\* Every reachable state of the game is well-typed: for every scheme whose
\* operations are typed, the transcripts hold messages only, the handed-out
\* key is a key or none, and the verdict is one of those Exp can return.
THEOREM TypeCorrect == Spec => []TypeOK
<1> QED BY InitType, NextType, PTL DEF Spec

-----------------------------------------------------------------------------
(* The clock. *)

\* The parts of ClockSound in a form that the steps below preserve one by
\* one: Past bounds the timestamps, Covered says that no tick is skipped.
Past ==
    /\ Stamps(challenge.transcript) \subseteq 0 .. clock - 1
    /\ \A sid \in DOMAIN tSessions : SessionStamps(sid) \subseteq 0 .. clock - 1

Covered ==
    \A n \in 0 .. clock - 1 :
        \/ n \in Stamps(challenge.transcript)
        \/ \E sid \in DOMAIN tSessions : n \in SessionStamps(sid)

Ordered ==
    /\ Increasing(challenge.transcript)
    /\ \A sid \in DOMAIN tSessions : Increasing(tSessions[sid].transcript)

Apart ==
    /\ \A sid \in DOMAIN tSessions :
          SessionStamps(sid) \cap Stamps(challenge.transcript) = {}
    /\ \A s1, s2 \in DOMAIN tSessions :
          s1 # s2 => SessionStamps(s1) \cap SessionStamps(s2) = {}

ClockInv == Ordered /\ Apart /\ Past /\ Covered

LEMMA ClockInvIsClockSound == ClockInv <=> ClockSound
BY DEF ClockInv, ClockSound, Ordered, Apart, Past, Covered

LEMMA InitClock == Init => ClockInv
<1> SUFFICES ASSUME Init PROVE ClockInv
    OBVIOUS
<1>1. PICK u0 \in U.init :
         LET r == RecordOpt(<<>>, u0.opening, 0)
         IN /\ challenge = [state |-> u0.state, transcript |-> r.tr]
            /\ clock = r.clock
      BY DEF Init
<1>2. Recorded(<<>>, 0, RecordOpt(<<>>, u0.opening, 0))
      BY GameAssumption, OpeningRecords
<1>3. /\ Increasing(challenge.transcript)
      /\ Stamps(challenge.transcript) = 0 .. clock - 1
      BY <1>1, <1>2, EmptyTranscript DEF Recorded
<1>4. DOMAIN tSessions = {}
      BY DEF Init
<1> QED BY <1>3, <1>4 DEF ClockInv, Ordered, Apart, Past, Covered

\* A tick that has passed after a step had passed before or passes with it.
LEMMA TickCases ==
    ASSUME NEW c \in Nat, NEW d \in Nat, d >= c, NEW n \in 0 .. d - 1
    PROVE  n \in c .. d - 1 \/ n \in 0 .. c - 1
OBVIOUS

\* One transcript is replaced by a longer one that takes the next ticks.
LEMMA SessionTicks ==
    ASSUME TypeOK, ClockInv, NEW sid \in DOMAIN tSessions, NEW new \in TSession,
           Recorded(tSessions[sid].transcript, clock,
                    [tr |-> new.transcript, clock |-> clock']),
           tSessions' = [tSessions EXCEPT ![sid] = new],
           challenge' = challenge
    PROVE  ClockInv'
<1> DEFINE old == tSessions[sid].transcript
<1>1. clock \in Nat /\ clock' \in Nat /\ clock' >= clock
      BY DEF TypeOK, Recorded
<1>2. Increasing(old) /\ Stamps(old) = SessionStamps(sid)
      BY DEF ClockInv, Ordered, SessionStamps
<1>3. /\ Increasing(new.transcript)
      /\ Stamps(new.transcript) = SessionStamps(sid) \cup clock .. clock' - 1
      BY <1>2 DEF ClockInv, Past, Recorded
<1>4. /\ DOMAIN tSessions' = DOMAIN tSessions
      /\ tSessions'[sid].transcript = new.transcript
      /\ \A s \in DOMAIN tSessions \ {sid} : tSessions'[s] = tSessions[s]
      BY DEF TypeOK
<1>5. /\ SessionStamps(sid)' = SessionStamps(sid) \cup clock .. clock' - 1
      /\ \A s \in DOMAIN tSessions \ {sid} : SessionStamps(s)' = SessionStamps(s)
      BY <1>3, <1>4 DEF SessionStamps
<1>6. Ordered'
      BY <1>3, <1>4 DEF ClockInv, Ordered
<1>7. Past'
      BY <1>1, <1>4, <1>5 DEF ClockInv, Past
<1>8. Apart'
      BY <1>1, <1>4, <1>5 DEF ClockInv, Apart, Past
<1>9. Covered'
  <2> SUFFICES ASSUME NEW n \in 0 .. clock' - 1
               PROVE  \/ n \in Stamps(challenge'.transcript)
                      \/ \E s \in DOMAIN tSessions' : n \in SessionStamps(s)'
      BY DEF Covered
  <2>1. CASE n \in clock .. clock' - 1
        BY <2>1, <1>4, <1>5
  <2>2. CASE n \in 0 .. clock - 1
        BY <2>2, <1>4, <1>5 DEF ClockInv, Covered
  <2> QED BY <2>1, <2>2, <1>1
<1> QED BY <1>6, <1>7, <1>8, <1>9 DEF ClockInv

\* A step that leaves the transcripts and the clock alone.
LEMMA QuietTicks ==
    ASSUME TypeOK, ClockInv, clock' = clock,
           challenge'.transcript = challenge.transcript,
           DOMAIN tSessions' = DOMAIN tSessions,
           \A s \in DOMAIN tSessions : tSessions'[s].transcript = tSessions[s].transcript
    PROVE  ClockInv'
<1>1. \A s \in DOMAIN tSessions : SessionStamps(s)' = SessionStamps(s)
      BY DEF SessionStamps
<1> QED BY <1>1 DEF ClockInv, Ordered, Apart, Past, Covered

LEMMA NextClock == TypeOK /\ ClockInv /\ [Next]_vars => ClockInv'
<1> SUFFICES ASSUME TypeOK, ClockInv, [Next]_vars PROVE ClockInv'
    OBVIOUS
<1>1. ASSUME OpenT PROVE ClockInv'
  <2>1. PICK st \in State, rec \in [tr : Transcript, clock : Nat] :
           /\ Recorded(<<>>, clock, rec)
           /\ tSessions' = Append(tSessions,
                 [state |-> st, transcript |-> rec.tr, key |-> Pending,
                  revealed |-> FALSE])
           /\ clock' = rec.clock
        BY <1>1, OpenTEffect
  <2>a. PICK m \in Nat : m = Len(tSessions) + 1
        BY DEF TypeOK
  <2>2. /\ clock \in Nat /\ clock' \in Nat /\ clock' >= clock
        /\ Increasing(rec.tr) /\ Stamps(rec.tr) = clock .. clock' - 1
        BY <2>1, EmptyTranscript DEF Recorded, TypeOK
  <2>3. /\ DOMAIN tSessions' = DOMAIN tSessions \cup {m}
        /\ m \notin DOMAIN tSessions
        /\ tSessions'[m].transcript = rec.tr
        /\ \A s \in DOMAIN tSessions : tSessions'[s] = tSessions[s]
        BY <2>1, <2>a DEF TypeOK
  <2>4. challenge' = challenge
        BY <1>1 DEF OpenT
  <2>5. /\ SessionStamps(m)' = clock .. clock' - 1
        /\ \A s \in DOMAIN tSessions : SessionStamps(s)' = SessionStamps(s)
        BY <2>2, <2>3 DEF SessionStamps
  <2>6. Ordered'
        BY <2>2, <2>3, <2>4 DEF ClockInv, Ordered
  <2>7. Past'
        BY <2>2, <2>3, <2>4, <2>5 DEF ClockInv, Past
  <2>8. Apart'
        BY <2>2, <2>3, <2>4, <2>5 DEF ClockInv, Apart, Past
  <2>9. Covered'
    <3> SUFFICES ASSUME NEW n \in 0 .. clock' - 1
                 PROVE  \/ n \in Stamps(challenge'.transcript)
                        \/ \E s \in DOMAIN tSessions' : n \in SessionStamps(s)'
        BY DEF Covered
    <3>1. CASE n \in clock .. clock' - 1
          BY <3>1, <2>3, <2>5
    <3>2. CASE n \in 0 .. clock - 1
          BY <3>2, <2>3, <2>4, <2>5 DEF ClockInv, Covered
    <3>3. n \in clock .. clock' - 1 \/ n \in 0 .. clock - 1
          BY <2>2, TickCases
    <3> QED BY <3>1, <3>2, <3>3
  <2> QED BY <2>6, <2>7, <2>8, <2>9 DEF ClockInv
<1>2. ASSUME NEW sid \in DOMAIN tSessions, RevealT(sid) PROVE ClockInv'
  <2>1. PICK new \in TSession :
           /\ new.transcript = tSessions[sid].transcript
           /\ tSessions' = [tSessions EXCEPT ![sid] = new]
           /\ clock' = clock
        BY <1>2, RevealTEffect
  <2>2. /\ DOMAIN tSessions' = DOMAIN tSessions
        /\ \A s \in DOMAIN tSessions : tSessions'[s].transcript = tSessions[s].transcript
        BY <2>1 DEF TypeOK
  <2>3. challenge' = challenge
        BY <1>2 DEF RevealT
  <2> QED BY <2>1, <2>2, <2>3, QuietTicks
<1>3. ASSUME NEW sid \in DOMAIN tSessions, NEW w \in Msg, StepT(sid, w) PROVE ClockInv'
  <2>1. PICK new \in TSession :
           /\ Recorded(tSessions[sid].transcript, clock,
                       [tr |-> new.transcript, clock |-> clock'])
           /\ tSessions' = [tSessions EXCEPT ![sid] = new]
        BY <1>3, StepTEffect
  <2>2. challenge' = challenge
        BY <1>3 DEF StepT
  <2> QED BY <2>1, <2>2, SessionTicks
<1>4. ASSUME NEW w \in Msg, StepChallenge(w) PROVE ClockInv'
  <2> DEFINE old == challenge.transcript
             new == challenge'.transcript
  <2>1. clock \in Nat /\ clock' \in Nat /\ clock' >= clock
        BY <1>4, StepChallengeEffect DEF TypeOK, Recorded
  <2>2. Increasing(new) /\ Stamps(new) = Stamps(old) \cup clock .. clock' - 1
        BY <1>4, StepChallengeEffect DEF ClockInv, Ordered, Past, Recorded
  <2>3. tSessions' = tSessions
        BY <1>4 DEF StepChallenge
  <2>4. \A s \in DOMAIN tSessions : SessionStamps(s)' = SessionStamps(s)
        BY <2>3 DEF SessionStamps
  <2>5. Ordered'
        BY <2>2, <2>3 DEF ClockInv, Ordered
  <2>6. Past'
        BY <2>1, <2>2, <2>3, <2>4 DEF ClockInv, Past
  <2>7. Apart'
        BY <2>1, <2>2, <2>3, <2>4 DEF ClockInv, Apart, Past
  <2>8. Covered'
    <3> SUFFICES ASSUME NEW n \in 0 .. clock' - 1
                 PROVE  \/ n \in Stamps(new)
                        \/ \E s \in DOMAIN tSessions' : n \in SessionStamps(s)'
        BY DEF Covered
    <3>1. CASE n \in clock .. clock' - 1
          BY <3>1, <2>2
    <3>2. CASE n \in 0 .. clock - 1
      <4>1. CASE n \in Stamps(old)
            BY <4>1, <2>2
      <4>2. CASE \E s \in DOMAIN tSessions : n \in SessionStamps(s)
            BY <4>2, <2>3, <2>4
      <4> QED BY <3>2, <4>1, <4>2 DEF ClockInv, Covered
    <3>3. n \in clock .. clock' - 1 \/ n \in 0 .. clock - 1
          BY <2>1, TickCases
    <3> QED BY <3>1, <3>2, <3>3
  <2> QED BY <2>5, <2>6, <2>7, <2>8 DEF ClockInv
<1>5. ASSUME UNCHANGED <<clock, challenge, tSessions>> PROVE ClockInv'
      BY <1>5, QuietTicks
<1>6. ASSUME Rejected \/ Forged \/ Accepted \/ Guess \/ UNCHANGED vars PROVE ClockInv'
      BY <1>6, <1>5 DEF Rejected, Forged, Accepted, Guess, Snapshot, vars, env
<1> QED BY <1>1, <1>2, <1>3, <1>4, <1>6 DEF Next

\* The clock discipline holds in every game: timestamps order each session,
\* never collide between sessions, and leave no tick out, however the
\* adversary interleaves its queries over any number of sessions.
THEOREM ClockSoundHolds == Spec => []ClockSound
<1>1. Init => TypeOK /\ ClockInv
      BY InitType, InitClock
<1>2. TypeOK /\ ClockInv /\ [Next]_vars => (TypeOK /\ ClockInv)'
      BY NextType, NextClock
<1>3. TypeOK /\ ClockInv => ClockSound
      BY ClockInvIsClockSound
<1> QED BY <1>1, <1>2, <1>3, PTL DEF Spec

\* Hence the interleaving test of Matching is exactly the relaying of every
\* message between that session and the challenge.
THEOREM MatchingIffRelayedHolds == Spec => []MatchingIffRelayed
<1>1. TypeOK /\ ClockSound => MatchingIffRelayed
  <2> SUFFICES ASSUME TypeOK, ClockSound, NEW sid \in DOMAIN tSessions
               PROVE  LET tr == tSessions[sid].transcript
                      IN Matching(TLeads, tr, challenge.transcript)
                            <=> Relayed(TLeads, tr, challenge.transcript)
      BY DEF MatchingIffRelayed
  <2>1. /\ tSessions[sid].transcript \in Transcript
        /\ challenge.transcript \in Transcript
        BY SessionType DEF TypeOK
  <2>2. /\ Increasing(tSessions[sid].transcript)
        /\ Increasing(challenge.transcript)
        BY DEF ClockSound
  <2>3. TLeads \in BOOLEAN
        BY DEF TLeads
  <2> QED BY <2>1, <2>2, <2>3, MatchingIsRelaying
<1> QED BY <1>1, TypeCorrect, ClockSoundHolds, PTL

-----------------------------------------------------------------------------
(* Completed sessions. *)

\* Only completed sessions are revealed.
RevealedCompleted ==
    \A sid \in DOMAIN tSessions :
        tSessions[sid].revealed => tSessions[sid].key # Pending

\* What a step may do to a completed session, and to a reveal.
FrozenStep ==
    \A sid \in DOMAIN tSessions :
        LET t == tSessions[sid]
        IN /\ t.key # Pending \/ t.revealed =>
                 \E r \in BOOLEAN : tSessions'[sid] = [t EXCEPT !.revealed = r]
           /\ t.revealed => tSessions'[sid].revealed
           /\ tSessions'[sid].revealed => tSessions'[sid].key # Pending

LEMMA UntouchedFrozen ==
    ASSUME TypeOK, RevealedCompleted, NEW sid \in DOMAIN tSessions,
           tSessions'[sid] = tSessions[sid]
    PROVE  LET t == tSessions[sid]
           IN /\ \E r \in BOOLEAN : tSessions'[sid] = [t EXCEPT !.revealed = r]
              /\ t.revealed => tSessions'[sid].revealed
              /\ tSessions'[sid].revealed => tSessions'[sid].key # Pending
<1> DEFINE t == tSessions[sid]
<1>1. t = [t EXCEPT !.revealed = t.revealed] /\ t.revealed \in BOOLEAN
      BY SessionType DEF TSession
<1> QED BY <1>1 DEF RevealedCompleted

LEMMA NextFrozen ==
    ASSUME TypeOK, RevealedCompleted, [Next]_vars
    PROVE  FrozenStep /\ RevealedCompleted'
<1>1. ASSUME OpenT PROVE FrozenStep /\ RevealedCompleted'
  <2>1. PICK st \in State, rec \in [tr : Transcript, clock : Nat] :
           tSessions' = Append(tSessions,
                 [state |-> st, transcript |-> rec.tr, key |-> Pending,
                  revealed |-> FALSE])
        BY <1>1, OpenTEffect
  <2>2. PICK m \in Nat : m = Len(tSessions) + 1
        BY DEF TypeOK
  <2>3. /\ DOMAIN tSessions' = DOMAIN tSessions \cup {m}
        /\ tSessions'[m].revealed = FALSE
        /\ \A s \in DOMAIN tSessions : tSessions'[s] = tSessions[s]
        BY <2>1, <2>2 DEF TypeOK
  <2>4. FrozenStep
        BY <2>3, UntouchedFrozen DEF FrozenStep
  <2>5. RevealedCompleted'
        BY <2>3 DEF RevealedCompleted
  <2> QED BY <2>4, <2>5
<1>2. ASSUME NEW sid \in DOMAIN tSessions, NEW new \in TSession,
             tSessions' = [tSessions EXCEPT ![sid] = new],
             new.revealed => new.key # Pending,
             tSessions[sid].revealed => new.revealed,
             tSessions[sid].key # Pending =>
                \E r \in BOOLEAN : new = [tSessions[sid] EXCEPT !.revealed = r]
      PROVE  FrozenStep /\ RevealedCompleted'
  <2>1. /\ DOMAIN tSessions' = DOMAIN tSessions
        /\ tSessions'[sid] = new
        /\ \A s \in DOMAIN tSessions \ {sid} : tSessions'[s] = tSessions[s]
        BY <1>2 DEF TypeOK
  <2>2. tSessions[sid].revealed => tSessions[sid].key # Pending
        BY DEF RevealedCompleted
  <2>3. FrozenStep
        BY <1>2, <2>1, <2>2, UntouchedFrozen DEF FrozenStep
  <2>4. RevealedCompleted'
        BY <1>2, <2>1 DEF RevealedCompleted
  <2> QED BY <2>3, <2>4
<1>3. ASSUME NEW sid \in DOMAIN tSessions, RevealT(sid)
      PROVE  FrozenStep /\ RevealedCompleted'
  <2>1. PICK new \in TSession :
           /\ tSessions[sid].key # Pending
           /\ new = [tSessions[sid] EXCEPT !.revealed = TRUE]
           /\ new.key = tSessions[sid].key
           /\ new.revealed
           /\ tSessions' = [tSessions EXCEPT ![sid] = new]
        BY <1>3, RevealTEffect
  <2> QED BY <2>1, <1>2
<1>4. ASSUME NEW sid \in DOMAIN tSessions, NEW w \in Msg, StepT(sid, w)
      PROVE  FrozenStep /\ RevealedCompleted'
  <2>1. PICK new \in TSession :
           /\ tSessions[sid].key = Pending
           /\ new.revealed = tSessions[sid].revealed
           /\ tSessions' = [tSessions EXCEPT ![sid] = new]
        BY <1>4, StepTEffect
  <2>2. ~tSessions[sid].revealed
        BY <2>1 DEF RevealedCompleted
  <2> QED BY <2>1, <2>2, <1>2
<1>5. ASSUME UNCHANGED tSessions PROVE FrozenStep /\ RevealedCompleted'
      BY <1>5, UntouchedFrozen DEF FrozenStep, RevealedCompleted
<1>6. ASSUME NEW w \in Msg, StepChallenge(w) PROVE FrozenStep /\ RevealedCompleted'
      BY <1>6, <1>5 DEF StepChallenge
<1>7. ASSUME Rejected \/ Forged \/ Accepted \/ Guess \/ UNCHANGED vars
      PROVE  FrozenStep /\ RevealedCompleted'
      BY <1>7, <1>5 DEF Rejected, Forged, Accepted, Guess, Snapshot, vars, env
<1> QED BY <1>1, <1>3, <1>4, <1>6, <1>7 DEF Next

\* Whatever the parties of the scheme would still answer, the game never
\* changes the transcript or the key of a completed session, and a reveal is
\* final: only completed sessions are revealed.
THEOREM CompletedSessionsFrozenHolds == Spec => CompletedSessionsFrozen
<1>1. Init => RevealedCompleted
      BY DEF Init, RevealedCompleted
<1>2. TypeOK /\ RevealedCompleted /\ [Next]_vars => FrozenStep /\ RevealedCompleted'
      BY NextFrozen
<1>3. CompletedSessionsFrozen <=> [][FrozenStep]_vars
      BY DEF CompletedSessionsFrozen, FrozenStep
<1> QED BY <1>1, <1>2, <1>3, TypeCorrect, PTL DEF Spec

-----------------------------------------------------------------------------
(* The challenge session. *)

\* The snapshot is final, because finalize closes the session before the
\* adversary sees a key.
SealedInv ==
    /\ phase # "challenge" => challenge.transcript = cr.challengeTr
    /\ phase = "post" => challengeDone

LEMMA NextSealed == TypeOK /\ SealedInv /\ [Next]_vars => SealedInv'
<1> SUFFICES ASSUME TypeOK, SealedInv, [Next]_vars PROVE SealedInv'
    OBVIOUS
<1>1. CASE OpenT
      BY <1>1 DEF OpenT, Playing, SealedInv
<1>2. ASSUME NEW sid \in DOMAIN tSessions, RevealT(sid) PROVE SealedInv'
      BY <1>2 DEF RevealT, Playing, SealedInv
<1>3. ASSUME NEW sid \in DOMAIN tSessions, NEW w \in Msg, StepT(sid, w)
      PROVE  SealedInv'
      BY <1>3 DEF StepT, Playing, SealedInv
<1>4. ASSUME NEW w \in Msg, StepChallenge(w) PROVE SealedInv'
  <2>1. ~challengeDone /\ phase # "done" /\ phase' = phase
        BY <1>4 DEF StepChallenge, Playing
  <2>2. phase = "challenge"
        BY <2>1 DEF SealedInv, TypeOK
  <2> QED BY <2>1, <2>2 DEF SealedInv
<1>5. CASE Rejected
      BY <1>5 DEF Rejected, Snapshot, Deliver, SealedInv
<1>6. CASE Forged
      BY <1>6 DEF Forged, Snapshot, SealedInv
<1>7. CASE Accepted
      BY <1>7 DEF Accepted, Snapshot, Deliver, SealedInv
<1>8. CASE Guess
      BY <1>8 DEF Guess, env, SealedInv
<1>9. CASE UNCHANGED vars
      BY <1>9 DEF vars, env, SealedInv
<1> QED BY <1>1, <1>2, <1>3, <1>4, <1>5, <1>6, <1>7, <1>8, <1>9 DEF Next

\* The challenge transcript a game is judged by is the one that was complete
\* when the candidate key was handed out.
THEOREM ChallengeSealedHolds == Spec => []ChallengeSealed
<1>1. Init => SealedInv
      BY DEF Init, SealedInv
<1>2. SealedInv => ChallengeSealed
      BY DEF SealedInv, ChallengeSealed
<1> QED BY <1>1, <1>2, NextSealed, TypeCorrect, PTL DEF Spec

-----------------------------------------------------------------------------
(* Admissible schemes: the invariant.  H is a set of configurations that     *)
(* shows the scheme to be admissible.                                        *)

\* A and C are transcripts of T and U of which the first k messages were relayed.
RelayedUpTo(k, A, C) ==
    \A i \in 1 .. k :
        /\ A[i].w = C[i].w
        /\ IF SentByT(TLeads, i) THEN A[i].at < C[i].at ELSE C[i].at < A[i].at

\* A and C are what the parties of one honest run have recorded so far: relayed, but
\* for at most one message in flight.
InStep(A, C) ==
    \/ Len(A) = Len(C) /\ RelayedUpTo(Len(A), A, C)
    \/ Len(A) = Len(C) + 1 /\ SentByT(TLeads, Len(A)) /\ RelayedUpTo(Len(C), A, C)
    \/ Len(C) = Len(A) + 1 /\ ~SentByT(TLeads, Len(C)) /\ RelayedUpTo(Len(A), A, C)

\* The configuration of that honest run.
ConfigOf(u, t, A, C) ==
    [u |-> u, t |-> t,
     sent |-> IF Len(C) > Len(A) THEN Len(C) ELSE Len(A),
     flight |-> IF Len(A) = Len(C) THEN NoMsg
                ELSE IF Len(A) > Len(C) THEN A[Len(A)].w ELSE C[Len(C)].w]

\* A session that runs waits for a message of U, and has no output; a completed one
\* holds an output of its state.
SessionInv ==
    \A sid \in DOMAIN tSessions :
        LET t == tSessions[sid]
        IN IF t.key = Pending
           THEN ~SentByT(TLeads, Len(t.transcript) + 1) /\ T.output[t.state] \subseteq {Pending}
           ELSE t.key \in T.output[t.state]

\* The challenge session waits for a message of T until it has completed.
ChallengeInv ==
    /\ ~challengeDone => SentByT(TLeads, Len(challenge.transcript) + 1)
    /\ ~TLeads => Len(challenge.transcript) > 0
    /\ Len(challenge.transcript) = (IF TLeads THEN 0 ELSE 1) =>
          \E u0 \in U.init :
              /\ challenge.state = u0.state
              /\ ~TLeads => challenge.transcript[1].w = u0.opening

\* A session that is in step with the challenge is in an honest run with it.
HonestInv(H) ==
    \A sid \in DOMAIN tSessions :
        InStep(tSessions[sid].transcript, challenge.transcript) =>
            ConfigOf(challenge.state, tSessions[sid].state,
                     tSessions[sid].transcript, challenge.transcript) \in H

\* The last entry of tr, if any, is younger than all of C.
Late(C, tr) ==
    Len(tr) > 0 => \A j \in DOMAIN C : C[j].at < tr[Len(tr)].at

\* After a snapshot with a key: the partners have completed with that key, whatever
\* has changed since is late, and the verdict goes by the partners.
SnapshotInv ==
    /\ \A sid \in Partners :
          /\ sid \in DOMAIN tSessions
          /\ tSessions[sid].key = cr.K0
          /\ tSessions[sid].transcript = cr.oracleTrs[sid]
    /\ Partners # {} => Rounds > 0 /\ Len(cr.challengeTr) = Rounds
    /\ \A sid \in DOMAIN tSessions :
          \/ sid \in DOMAIN cr.oracleTrs /\ tSessions[sid].transcript = cr.oracleTrs[sid]
          \/ Late(cr.challengeTr, tSessions[sid].transcript)
    /\ phase = "post" => Partners # {}
    /\ verdict \in {"right", "wrong"} =>
          Partners # {} /\ \A sid \in Partners : ~tSessions[sid].revealed
    /\ verdict = "coin" => \E sid \in Partners : tSessions[sid].revealed

AdmissibleInv(H) ==
    /\ SessionInv
    /\ phase # "done" => verdict = "none"
    /\ phase = "challenge" => ChallengeInv /\ HonestInv(H) /\ cr.K0 = Bot
    /\ phase # "challenge" /\ cr.K0 \in Key => SnapshotInv

-----------------------------------------------------------------------------
(* Admissible schemes: transcripts. *)

\* What recording a step appends to a transcript.
LEMMA RecordStepShape ==
    ASSUME NEW tr \in Transcript, NEW w \in Msg, NEW r, clock \in Nat,
           r.kind = "complete" \/ (r.kind = "acceptAndSend" /\ r.msg \in Msg)
    PROVE  LET new == RecordStep(tr, w, r).tr
               n == Len(tr)
           IN /\ \A i \in 1 .. n : new[i] = tr[i]
              /\ new[n + 1].w = w /\ new[n + 1].at >= clock
              /\ r.kind = "complete" => Len(new) = n + 1
              /\ r.kind # "complete" =>
                    Len(new) = n + 2 /\ new[n + 2].w = r.msg /\ new[n + 2].at >= clock
<1> DEFINE e == [w |-> w, at |-> clock]
           one == Append(tr, e)
           n == Len(tr)
<1>1. e \in Entry /\ e.w = w /\ e.at >= clock
  BY DEF Entry
<1>2. /\ one \in Transcript /\ Len(one) = n + 1 /\ n \in Nat
      /\ \A i \in 1 .. n : one[i] = tr[i]
      /\ one[n + 1] = e
  BY <1>1 DEF Transcript
<1>3. RecordOne(tr, w, clock).tr = one /\ RecordOne(tr, w, clock).clock = clock + 1
  BY DEF RecordOne
<1> HIDE DEF e, one
<1>4. CASE r.kind = "complete"
  BY <1>1, <1>2, <1>3, <1>4 DEF RecordStep
<1>5. CASE r.kind # "complete"
  <2> DEFINE f == [w |-> r.msg, at |-> clock + 1]
             two == Append(one, f)
  <2>1. f \in Entry /\ f.w = r.msg /\ f.at >= clock
    BY <1>5 DEF Entry
  <2>2. /\ Len(two) = n + 2
        /\ \A i \in 1 .. n + 1 : two[i] = one[i]
        /\ two[n + 2] = f
    BY <2>1, <1>2 DEF Transcript
  <2>3. RecordStep(tr, w, r).tr = two
    BY <1>5, <1>3 DEF RecordStep, RecordTwo, RecordOne
  <2> HIDE DEF f, two
  <2>4. n + 1 \in 1 .. n + 1 /\ \A i \in 1 .. n : i \in 1 .. n + 1
    BY <1>2
  <2> QED BY <1>1, <1>2, <1>5, <2>1, <2>2, <2>3, <2>4
<1> QED BY <1>4, <1>5

\* new continues old by one entry or two, none of them recorded before now.
Continues(old, new, now) ==
    /\ Len(new) = Len(old) + 1 \/ Len(new) = Len(old) + 2
    /\ \A i \in 1 .. Len(old) : new[i] = old[i]
    /\ \A i \in Len(old) + 1 .. Len(new) : new[i].at >= now

LEMMA RecordStepContinues ==
    ASSUME NEW tr \in Transcript, NEW w \in Msg, NEW r, clock \in Nat,
           r.kind = "complete" \/ (r.kind = "acceptAndSend" /\ r.msg \in Msg)
    PROVE  Continues(tr, RecordStep(tr, w, r).tr, clock)
<1> DEFINE new == RecordStep(tr, w, r).tr
           n == Len(tr)
<1>1. n \in Nat
  BY DEF Transcript
<1>2. /\ \A i \in 1 .. n : new[i] = tr[i]
      /\ new[n + 1].at >= clock
      /\ r.kind = "complete" => Len(new) = n + 1
      /\ r.kind # "complete" => Len(new) = n + 2 /\ new[n + 2].at >= clock
  BY RecordStepShape
<1> SUFFICES Continues(tr, new, clock)
  OBVIOUS
<1> HIDE DEF new
<1>3. CASE r.kind = "complete"
  <2>1. \A i \in n + 1 .. Len(new) : i = n + 1
    BY <1>1, <1>2, <1>3
  <2> QED BY <1>2, <1>3, <2>1 DEF Continues
<1>4. CASE r.kind # "complete"
  <2>1. \A i \in n + 1 .. Len(new) : i = n + 1 \/ i = n + 2
    BY <1>1, <1>2, <1>4
  <2> QED BY <1>2, <1>4, <2>1 DEF Continues
<1> QED BY <1>3, <1>4

\* The parties speak in turn.
LEMMA InTurn ==
    ASSUME NEW i \in Nat
    PROVE  SentByT(TLeads, i + 1) <=> ~SentByT(TLeads, i)
<1>1. (i + 1) % 2 = 1 <=> ~(i % 2 = 1)
  OBVIOUS
<1> QED BY <1>1 DEF SentByT, TLeads

\* T records a message and still is in step with a challenge that lies in the past:
\* then it was in step before, and the message is the one in flight to it.
LEMMA TReceives ==
    ASSUME NEW A \in Transcript, NEW B, NEW C \in Transcript, NEW now \in Nat,
           Len(B) \in Nat, \A i \in 1 .. Len(B) : B[i].at \in Nat,
           Continues(A, B, now), \A i \in 1 .. Len(C) : C[i].at < now,
           ~SentByT(TLeads, Len(A) + 1), InStep(B, C)
    PROVE  /\ Len(C) = Len(A) + 1 /\ RelayedUpTo(Len(A), A, C)
           /\ B[Len(A) + 1].w = C[Len(C)].w
<1> DEFINE n == Len(A)
           m == Len(C)
           k == Len(B)
<1>1. n \in Nat /\ m \in Nat /\ k \in Nat /\ (k = n + 1 \/ k = n + 2)
  BY DEF Transcript, Continues
<1>2. SentByT(TLeads, n + 2) /\ ~SentByT(TLeads, n + 3)
  BY <1>1, InTurn
<1>3. \A i \in 1 .. m : C[i].at \in Nat
  BY EntryType
<1>4. \A i \in n + 1 .. k : i \in 1 .. m => C[i].at < B[i].at
  <2> SUFFICES ASSUME NEW i \in n + 1 .. k, i \in 1 .. m PROVE C[i].at < B[i].at
    OBVIOUS
  <2>1. B[i].at >= now /\ C[i].at < now /\ B[i].at \in Nat /\ C[i].at \in Nat
    BY <1>1, <1>3 DEF Continues
  <2> QED BY <2>1
<1>5. m = n + 1 /\ RelayedUpTo(n + 1, B, C)
  <2>1. CASE k = m /\ RelayedUpTo(k, B, C)
    <3>1. CASE k = n + 2
      <4>1. n + 2 \in 1 .. k /\ n + 2 \in n + 1 .. k
        BY <1>1, <3>1
      <4>2. B[n + 2].at < C[n + 2].at /\ B[n + 2].at \in Nat /\ C[n + 2].at \in Nat
        BY <1>2, <1>3, <2>1, <4>1 DEF RelayedUpTo
      <4> QED BY <1>4, <2>1, <4>1, <4>2
    <3> QED BY <1>1, <2>1, <3>1
  <2>2. CASE k = m + 1 /\ SentByT(TLeads, k) /\ RelayedUpTo(m, B, C)
    <3>1. k # n + 1
      BY <2>2
    <3> QED BY <1>1, <2>2, <3>1
  <2>3. CASE m = k + 1 /\ ~SentByT(TLeads, m) /\ RelayedUpTo(k, B, C)
    <3>1. k # n + 1
      BY <1>1, <1>2, <2>3
    <3>2. n + 2 \in 1 .. k /\ n + 2 \in n + 1 .. k /\ n + 2 \in 1 .. m
      BY <1>1, <2>3, <3>1
    <3>3. B[n + 2].at < C[n + 2].at /\ B[n + 2].at \in Nat /\ C[n + 2].at \in Nat
      BY <1>2, <1>3, <2>3, <3>2 DEF RelayedUpTo
    <3> QED BY <1>4, <3>2, <3>3
  <2> QED BY <2>1, <2>2, <2>3 DEF InStep
<1>6. n + 1 \in 1 .. n + 1 /\ \A i \in 1 .. n : i \in 1 .. n + 1 /\ B[i] = A[i]
  BY <1>1 DEF Continues
<1> QED BY <1>5, <1>6 DEF RelayedUpTo

\* The same for the challenge session.
LEMMA UReceives ==
    ASSUME NEW C \in Transcript, NEW B, NEW A \in Transcript, NEW now \in Nat,
           Len(B) \in Nat, \A i \in 1 .. Len(B) : B[i].at \in Nat,
           Continues(C, B, now), \A i \in 1 .. Len(A) : A[i].at < now,
           SentByT(TLeads, Len(C) + 1), InStep(A, B)
    PROVE  /\ Len(A) = Len(C) + 1 /\ RelayedUpTo(Len(C), A, C)
           /\ B[Len(C) + 1].w = A[Len(A)].w
<1> DEFINE n == Len(C)
           m == Len(A)
           k == Len(B)
<1>1. n \in Nat /\ m \in Nat /\ k \in Nat /\ (k = n + 1 \/ k = n + 2)
  BY DEF Transcript, Continues
<1>2. ~SentByT(TLeads, n + 2) /\ SentByT(TLeads, n + 3)
  BY <1>1, InTurn
<1>3. \A i \in 1 .. m : A[i].at \in Nat
  BY EntryType
<1>4. \A i \in n + 1 .. k : i \in 1 .. m => A[i].at < B[i].at
  <2> SUFFICES ASSUME NEW i \in n + 1 .. k, i \in 1 .. m PROVE A[i].at < B[i].at
    OBVIOUS
  <2>1. B[i].at >= now /\ A[i].at < now /\ B[i].at \in Nat /\ A[i].at \in Nat
    BY <1>1, <1>3 DEF Continues
  <2> QED BY <2>1
<1>5. m = n + 1 /\ RelayedUpTo(n + 1, A, B)
  <2>1. CASE k = m /\ RelayedUpTo(m, A, B)
    <3>1. CASE k = n + 2
      <4>1. n + 2 \in 1 .. m /\ n + 2 \in 1 .. k /\ n + 2 \in n + 1 .. k
        BY <1>1, <2>1, <3>1
      <4>2. B[n + 2].at < A[n + 2].at /\ B[n + 2].at \in Nat /\ A[n + 2].at \in Nat
        BY <1>2, <1>3, <2>1, <4>1 DEF RelayedUpTo
      <4> QED BY <1>4, <2>1, <4>1, <4>2
    <3> QED BY <1>1, <2>1, <3>1
  <2>2. CASE m = k + 1 /\ SentByT(TLeads, m) /\ RelayedUpTo(k, A, B)
    <3>1. k # n + 1
      BY <1>1, <1>2, <2>2
    <3>2. n + 2 \in 1 .. k /\ n + 2 \in n + 1 .. k /\ n + 2 \in 1 .. m
      BY <1>1, <2>2, <3>1
    <3>3. B[n + 2].at < A[n + 2].at /\ B[n + 2].at \in Nat /\ A[n + 2].at \in Nat
      BY <1>2, <1>3, <2>2, <3>2 DEF RelayedUpTo
    <3> QED BY <1>4, <3>2, <3>3
  <2>3. CASE k = m + 1 /\ ~SentByT(TLeads, k) /\ RelayedUpTo(m, A, B)
    <3>1. k # n + 1
      BY <2>3
    <3> QED BY <1>1, <2>3, <3>1
  <2> QED BY <2>1, <2>2, <2>3 DEF InStep
<1>6. n + 1 \in 1 .. n + 1 /\ \A i \in 1 .. n : i \in 1 .. n + 1 /\ B[i] = C[i]
  BY <1>1 DEF Continues
<1> QED BY <1>5, <1>6 DEF RelayedUpTo

-----------------------------------------------------------------------------
(* Admissible schemes: sessions. *)

\* The steps, as far as the invariant is concerned.
LEMMA OpenTAdds ==
    ASSUME TypeOK, OpenT
    PROVE  \E t0 \in T.init, m \in Nat :
              LET new == [state |-> t0.state, transcript |-> RecordOpt(<<>>, t0.opening, clock).tr,
                          key |-> Pending, revealed |-> FALSE]
              IN /\ m \notin DOMAIN tSessions
                 /\ DOMAIN tSessions' = DOMAIN tSessions \cup {m}
                 /\ tSessions'[m] = new
                 /\ \A s \in DOMAIN tSessions : tSessions'[s] = tSessions[s]
<1>1. PICK t0 \in T.init :
         tSessions' = Append(tSessions,
             [state |-> t0.state, transcript |-> RecordOpt(<<>>, t0.opening, clock).tr,
              key |-> Pending, revealed |-> FALSE])
  BY DEF OpenT
<1>2. PICK m \in Nat : m = Len(tSessions) + 1
  BY DEF TypeOK
<1> DEFINE new == [state |-> t0.state, transcript |-> RecordOpt(<<>>, t0.opening, clock).tr,
                   key |-> Pending, revealed |-> FALSE]
<1> HIDE DEF new
<1>3. /\ m \notin DOMAIN tSessions
      /\ DOMAIN tSessions' = DOMAIN tSessions \cup {m}
      /\ tSessions'[m] = new
      /\ \A s \in DOMAIN tSessions : tSessions'[s] = tSessions[s]
  <2>1. tSessions' = Append(tSessions, new)
    BY <1>1 DEF new
  <2> QED BY <1>2, <2>1 DEF TypeOK
<1> QED BY <1>3 DEF new

LEMMA StepTAdds ==
    ASSUME TypeOK, NEW sid \in DOMAIN tSessions, NEW w \in Msg, StepT(sid, w)
    PROVE  \E r \in Accepting(T, tSessions[sid].state, w) :
              LET old == tSessions[sid]
                  new == tSessions'[sid]
              IN /\ old.key = Pending
                 /\ new.state = r.state
                 /\ new.transcript = RecordStep(old.transcript, w, r).tr
                 /\ new.key \in (IF Finished(r) THEN T.output[r.state] ELSE {Pending})
                 /\ new.revealed = old.revealed
                 /\ DOMAIN tSessions' = DOMAIN tSessions
                 /\ \A s \in DOMAIN tSessions \ {sid} : tSessions'[s] = tSessions[s]
<1> DEFINE old == tSessions[sid]
<1>1. PICK r \in Accepting(T, old.state, w) :
         \E key \in IF Finished(r) THEN T.output[r.state] ELSE {Pending} :
            tSessions' = [tSessions EXCEPT ![sid] =
                [state |-> r.state, transcript |-> RecordStep(old.transcript, w, r).tr,
                 key |-> key, revealed |-> @.revealed]]
  BY DEF StepT
<1>2. PICK key \in IF Finished(r) THEN T.output[r.state] ELSE {Pending} :
         tSessions' = [tSessions EXCEPT ![sid] =
             [state |-> r.state, transcript |-> RecordStep(old.transcript, w, r).tr,
              key |-> key, revealed |-> @.revealed]]
  BY <1>1
<1> DEFINE new == [state |-> r.state, transcript |-> RecordStep(old.transcript, w, r).tr,
                   key |-> key, revealed |-> old.revealed]
<1>3. tSessions'[sid] = new /\ DOMAIN tSessions' = DOMAIN tSessions
      /\ \A s \in DOMAIN tSessions \ {sid} : tSessions'[s] = tSessions[s]
  BY <1>2
<1>4. old.key = Pending
  BY DEF StepT, Running
<1> QED BY <1>2, <1>3, <1>4

LEMMA StepChallengeAdds ==
    ASSUME NEW w \in Msg, StepChallenge(w)
    PROVE  \E r \in Accepting(U, challenge.state, w) :
              /\ challenge'.state = r.state
              /\ challenge'.transcript = RecordStep(challenge.transcript, w, r).tr
              /\ challengeDone' = Finished(r)
              /\ tSessions' = tSessions
BY DEF StepChallenge

\* The message that opens a session is its transcript.
LEMMA OpeningShape ==
    ASSUME NEW P, IsParty(P), NEW p0 \in P.init, NEW c \in Nat
    PROVE  LET tr == RecordOpt(<<>>, p0.opening, c).tr
           IN /\ tr \in Transcript
              /\ p0.opening = NoMsg => tr = <<>> /\ Len(tr) = 0
              /\ p0.opening # NoMsg => Len(tr) = 1 /\ tr[1].w = p0.opening /\ tr[1].at = c
<1>1. p0 \in [state : State, opening : Msg \cup {NoMsg}]
  BY DEF IsParty
<1>2. p0.opening \in Msg \cup {NoMsg} /\ RecordOpt(<<>>, p0.opening, c).tr \in Transcript
  BY <1>1, OpeningRecords DEF Recorded
<1>3. CASE p0.opening = NoMsg
  BY <1>2, <1>3 DEF RecordOpt
<1>4. CASE p0.opening # NoMsg
  <2> DEFINE e == [w |-> p0.opening, at |-> c]
  <2>1. RecordOpt(<<>>, p0.opening, c).tr = Append(<<>>, e)
    BY <1>4 DEF RecordOpt, RecordOne
  <2>2. e.w = p0.opening /\ e.at = c
    OBVIOUS
  <2> HIDE DEF e
  <2>3. Len(Append(<<>>, e)) = 1 /\ Append(<<>>, e)[1] = e
    OBVIOUS
  <2> QED BY <1>2, <1>4, <2>1, <2>2, <2>3
<1> QED BY <1>3, <1>4

\* A session of T waits for U, or holds an output of its state.
LEMMA NextSessionInv ==
    ASSUME NEW CONSTANT H, Admissible(U, T, Rounds, H), TypeOK, SessionInv, [Next]_vars
    PROVE  SessionInv'
<1>0. /\ OutputsOnlyAtCompletion(T) /\ IsParty(T)
      /\ \A t0 \in T.init : t0.opening # NoMsg <=> TLeads
      /\ clock \in Nat
  BY GameAssumption DEF Admissible, TLeads, TypeOK
<1>1. ASSUME UNCHANGED tSessions PROVE SessionInv'
  BY <1>1 DEF SessionInv
<1>2. ASSUME OpenT PROVE SessionInv'
  <2>1. PICK t0 \in T.init, m \in Nat :
           LET new == [state |-> t0.state, transcript |-> RecordOpt(<<>>, t0.opening, clock).tr,
                       key |-> Pending, revealed |-> FALSE]
           IN /\ m \notin DOMAIN tSessions
              /\ DOMAIN tSessions' = DOMAIN tSessions \cup {m}
              /\ tSessions'[m] = new
              /\ \A s \in DOMAIN tSessions : tSessions'[s] = tSessions[s]
    BY <1>2, OpenTAdds
  <2> DEFINE tr == RecordOpt(<<>>, t0.opening, clock).tr
  <2>2. /\ tSessions'[m].key = Pending /\ tSessions'[m].transcript = tr
        /\ tSessions'[m].state = t0.state
    BY <2>1
  <2>3. ~SentByT(TLeads, Len(tr) + 1)
    <3>1. Len(tr) = IF TLeads THEN 1 ELSE 0
      BY <1>0, OpeningShape
    <3> HIDE DEF tr
    <3> QED BY <3>1 DEF SentByT, TLeads
  <2>4. T.output[t0.state] \subseteq {Pending}
    BY <1>0 DEF OutputsOnlyAtCompletion
  <2> HIDE DEF tr
  <2> QED BY <2>1, <2>2, <2>3, <2>4 DEF SessionInv
<1>3. ASSUME NEW sid \in DOMAIN tSessions, NEW w \in Msg, StepT(sid, w) PROVE SessionInv'
  <2> DEFINE old == tSessions[sid]
             new == tSessions'[sid]
  <2>1. PICK r \in Accepting(T, old.state, w) :
           /\ old.key = Pending
           /\ new.state = r.state
           /\ new.transcript = RecordStep(old.transcript, w, r).tr
           /\ new.key \in (IF Finished(r) THEN T.output[r.state] ELSE {Pending})
           /\ DOMAIN tSessions' = DOMAIN tSessions
           /\ \A s \in DOMAIN tSessions \ {sid} : tSessions'[s] = tSessions[s]
    BY <1>3, StepTAdds
  <2>2. /\ old.state \in State /\ old.transcript \in Transcript
        /\ r.state \in State
        /\ r.kind = "complete" \/ (r.kind = "acceptAndSend" /\ r.msg \in Msg)
    BY <1>0, SessionType, AcceptingType
  <2>3. \A out \in T.output[r.state] : out # Pending <=> Finished(r)
    BY <1>0, <2>2 DEF OutputsOnlyAtCompletion
  <2>4. CASE Finished(r)
    BY <2>1, <2>3, <2>4 DEF SessionInv
  <2>5. CASE ~Finished(r)
    <3>1. r.kind # "complete" /\ new.key = Pending /\ T.output[new.state] \subseteq {Pending}
      BY <2>1, <2>3, <2>5 DEF Finished
    <3>2. Len(new.transcript) = Len(old.transcript) + 2
      BY <1>0, <2>1, <2>2, <3>1, RecordStepShape
    <3>3. ~SentByT(TLeads, Len(old.transcript) + 1)
      BY <2>1 DEF SessionInv
    <3>4. Len(old.transcript) \in Nat
      BY <2>2 DEF Transcript
    <3>5. ~SentByT(TLeads, Len(new.transcript) + 1)
      BY <3>2, <3>3, <3>4, InTurn
    <3> QED BY <2>1, <3>1, <3>5 DEF SessionInv
  <2> QED BY <2>4, <2>5
<1>4. ASSUME NEW sid \in DOMAIN tSessions, RevealT(sid) PROVE SessionInv'
  <2>1. PICK new \in TSession :
           /\ new = [tSessions[sid] EXCEPT !.revealed = TRUE]
           /\ new.transcript = tSessions[sid].transcript
           /\ new.key = tSessions[sid].key
           /\ tSessions' = [tSessions EXCEPT ![sid] = new]
    BY <1>4, RevealTEffect
  <2>2. new.state = tSessions[sid].state
    BY <2>1, SessionType DEF TSession
  <2> QED BY <2>1, <2>2 DEF SessionInv
<1>5. ASSUME NEW w \in Msg, StepChallenge(w) PROVE SessionInv'
  BY <1>1, <1>5 DEF StepChallenge
<1>6. ASSUME Rejected \/ Forged \/ Accepted \/ Guess \/ UNCHANGED vars PROVE SessionInv'
  BY <1>1, <1>6 DEF Rejected, Forged, Accepted, Guess, Snapshot, vars, env
<1> QED BY <1>2, <1>3, <1>4, <1>5, <1>6 DEF Next

\* The challenge session waits for T until it has completed, and remembers how it
\* was opened until it has moved on.
LEMMA InitChallengeInv ==
    ASSUME NEW CONSTANT H, Admissible(U, T, Rounds, H), Init
    PROVE  ChallengeInv
<1>1. PICK u0 \in U.init : challenge = [state |-> u0.state,
                                        transcript |-> RecordOpt(<<>>, u0.opening, 0).tr]
  BY DEF Init
<1>2. IsParty(U) /\ (u0.opening = NoMsg <=> TLeads)
  BY GameAssumption DEF Admissible, TLeads
<1> DEFINE tr == challenge.transcript
<1>3. /\ challenge.state = u0.state
      /\ u0.opening = NoMsg => Len(tr) = 0
      /\ u0.opening # NoMsg => Len(tr) = 1 /\ tr[1].w = u0.opening
  BY <1>1, <1>2, OpeningShape
<1>4. Len(tr) = IF TLeads THEN 0 ELSE 1
  BY <1>2, <1>3
<1> HIDE DEF tr
<1>5. SentByT(TLeads, Len(tr) + 1)
  BY <1>4 DEF SentByT, TLeads
<1> QED BY <1>2, <1>3, <1>4, <1>5 DEF ChallengeInv, tr

LEMMA StepChallengeInv ==
    ASSUME TypeOK, ChallengeInv, NEW w \in Msg, StepChallenge(w)
    PROVE  ChallengeInv'
<1> DEFINE old == challenge.transcript
           new == challenge'.transcript
<1>1. PICK r \in Accepting(U, challenge.state, w) :
         /\ new = RecordStep(old, w, r).tr
         /\ challengeDone' = Finished(r)
  BY StepChallengeAdds
<1>2. IsParty(U) /\ challenge.state \in State /\ old \in Transcript /\ clock \in Nat
  BY GameAssumption DEF TypeOK
<1>3. r.kind = "complete" \/ (r.kind = "acceptAndSend" /\ r.msg \in Msg)
  BY <1>2, AcceptingType
<1>4. /\ r.kind = "complete" => Len(new) = Len(old) + 1
      /\ r.kind # "complete" => Len(new) = Len(old) + 2
  BY <1>1, <1>2, <1>3, RecordStepShape
<1>5. Len(old) \in Nat /\ SentByT(TLeads, Len(old) + 1)
  BY <1>2 DEF Transcript, StepChallenge, ChallengeInv
<1>6. ~challengeDone' => SentByT(TLeads, Len(new) + 1)
  <2>1. ~challengeDone' => r.kind # "complete"
    BY <1>1 DEF Finished
  <2>2. SentByT(TLeads, (Len(old) + 2) + 1)
    <3>1. Len(old) + 1 \in Nat /\ Len(old) + 2 \in Nat /\ (Len(old) + 1) + 1 = Len(old) + 2
      BY <1>5
    <3> QED BY <1>5, <3>1, InTurn
  <2> QED BY <1>4, <2>1, <2>2
<1>7. Len(new) > 0 /\ (Len(new) = IF TLeads THEN 0 ELSE 1) = FALSE
  <2>1. ~TLeads => Len(old) > 0
    BY DEF ChallengeInv
  <2>2. Len(new) > Len(old) /\ Len(new) \in Nat
    BY <1>3, <1>4, <1>5
  <2> QED BY <1>5, <2>1, <2>2
<1> QED BY <1>6, <1>7 DEF ChallengeInv

-----------------------------------------------------------------------------
(* Admissible schemes: sessions in step with the challenge are honest runs. *)

\* What recording the result r of a message w makes of a transcript (RecordStepShape).
Recording(old, new, w, r) ==
    /\ new[Len(old) + 1].w = w
    /\ r.kind = "complete" => Len(new) = Len(old) + 1
    /\ r.kind # "complete" => Len(new) = Len(old) + 2 /\ new[Len(old) + 2].w = r.msg

\* What a delivery makes of a configuration.
LEMMA DeliveredRecord ==
    ASSUME NEW u, NEW t, NEW n \in Nat, NEW w, NEW r, NEW d,
           d = [u |-> u, t |-> t, sent |-> n, flight |-> w]
    PROVE  Delivered(d, r) =
               IF r.kind = "complete" THEN [u |-> u, t |-> t, sent |-> n, flight |-> NoMsg]
               ELSE [u |-> u, t |-> t, sent |-> n + 1, flight |-> r.msg]
<1>1. d.sent = n
  OBVIOUS
<1>2. [d EXCEPT !.flight = NoMsg] = [u |-> u, t |-> t, sent |-> n, flight |-> NoMsg]
  OBVIOUS
<1>3. [d EXCEPT !.sent = @ + 1, !.flight = r.msg]
         = [u |-> u, t |-> t, sent |-> n + 1, flight |-> r.msg]
  <2>1. [d EXCEPT !.sent = @ + 1, !.flight = r.msg] = [d EXCEPT !.sent = n + 1, !.flight = r.msg]
    BY <1>1
  <2>2. PICK m : m = n + 1
    OBVIOUS
  <2>3. [d EXCEPT !.sent = m, !.flight = r.msg] = [u |-> u, t |-> t, sent |-> m, flight |-> r.msg]
    <3>1. [d EXCEPT !.sent = m, !.flight = r.msg] = [[d EXCEPT !.sent = m] EXCEPT !.flight = r.msg]
      OBVIOUS
    <3>2. [d EXCEPT !.sent = m] = [u |-> u, t |-> t, sent |-> m, flight |-> w]
      OBVIOUS
    <3>3. \A e : e = [u |-> u, t |-> t, sent |-> m, flight |-> w] =>
             [e EXCEPT !.flight = r.msg] = [u |-> u, t |-> t, sent |-> m, flight |-> r.msg]
      OBVIOUS
    <3> QED BY <3>1, <3>2, <3>3
  <2> QED BY <2>1, <2>2, <2>3
<1> QED BY <1>2, <1>3 DEF Delivered

\* T answers the message in flight to it.
LEMMA HonestStepT ==
    ASSUME NEW CONSTANT H, Admissible(U, T, Rounds, H), NEW u, NEW t, NEW A \in Transcript,
           NEW C \in Transcript, NEW B, NEW w \in Msg, NEW r \in Accepting(T, t, w),
           Recording(A, B, w, r), Len(C) = Len(A) + 1, ~SentByT(TLeads, Len(C)),
           C[Len(C)].w = w, ConfigOf(u, t, A, C) \in H
    PROVE  ConfigOf(u, r.state, B, C) \in H
<1> DEFINE n == Len(A)
           c == [u |-> u, t |-> t, sent |-> n + 1, flight |-> w]
           d == [c EXCEPT !.t = r.state]
<1>1. n \in Nat /\ Len(C) = n + 1
  BY DEF Transcript
<1>2. ConfigOf(u, t, A, C) = c
  BY <1>1 DEF ConfigOf
<1>3. c \in H /\ c.flight = w /\ c.sent = n + 1 /\ c.t = t /\ w # NoMsg
  BY <1>2, MsgAssumption
<1>4. HonestSteps(U, T, TLeads, c) \subseteq H
  BY <1>3 DEF Admissible, HoldsHonestRuns, TLeads
<1>5. Delivered(d, r) \in HonestSteps(U, T, TLeads, c)
  BY <1>1, <1>3 DEF HonestSteps
<1>6. d = [u |-> u, t |-> r.state, sent |-> n + 1, flight |-> w]
  OBVIOUS
<1>7. ConfigOf(u, r.state, B, C) = Delivered(d, r)
  <2>1. CASE r.kind = "complete"
    <3>1. Delivered(d, r) = [u |-> u, t |-> r.state, sent |-> n + 1, flight |-> NoMsg]
      <4>1. n + 1 \in Nat
        BY <1>1
      <4> HIDE DEF d, n
      <4> QED BY <1>6, <2>1, <4>1, DeliveredRecord
    <3>2. Len(B) = n + 1
      BY <2>1 DEF Recording
    <3> QED BY <1>1, <3>1, <3>2 DEF ConfigOf
  <2>2. CASE r.kind # "complete"
    <3>1. Delivered(d, r) = [u |-> u, t |-> r.state, sent |-> n + 2, flight |-> r.msg]
      <4>1. n + 1 \in Nat /\ (n + 1) + 1 = n + 2
        BY <1>1
      <4> HIDE DEF d, n
      <4>2. Delivered(d, r) = IF r.kind = "complete" THEN [u |-> u, t |-> r.state, sent |-> n + 1, flight |-> NoMsg]
               ELSE [u |-> u, t |-> r.state, sent |-> (n + 1) + 1, flight |-> r.msg]
        BY <1>6, <4>1, DeliveredRecord
      <4> QED BY <2>2, <4>1, <4>2
    <3>2. Len(B) = n + 2 /\ B[n + 2].w = r.msg
      BY <2>2 DEF Recording
    <3> HIDE DEF c, d, n
    <3>3. ~(Len(C) > Len(B)) /\ Len(B) # Len(C) /\ Len(B) > Len(C)
      BY <1>1, <3>2
    <3> QED BY <3>1, <3>2, <3>3 DEF ConfigOf
  <2> QED BY <2>1, <2>2
<1> QED BY <1>4, <1>5, <1>7

\* U answers the message in flight to it.
LEMMA HonestStepU ==
    ASSUME NEW CONSTANT H, Admissible(U, T, Rounds, H), NEW u, NEW t, NEW A \in Transcript,
           NEW C \in Transcript, NEW B, NEW w \in Msg, NEW r \in Accepting(U, u, w),
           Recording(C, B, w, r), Len(A) = Len(C) + 1, SentByT(TLeads, Len(A)),
           A[Len(A)].w = w, ConfigOf(u, t, A, C) \in H
    PROVE  ConfigOf(r.state, t, A, B) \in H
<1> DEFINE n == Len(C)
           c == [u |-> u, t |-> t, sent |-> n + 1, flight |-> w]
           d == [c EXCEPT !.u = r.state]
<1>1. n \in Nat /\ Len(A) = n + 1
  BY DEF Transcript
<1>2. ConfigOf(u, t, A, C) = c
  BY <1>1 DEF ConfigOf
<1>3. c \in H /\ c.flight = w /\ c.sent = n + 1 /\ c.u = u /\ w # NoMsg
  BY <1>2, MsgAssumption
<1>4. HonestSteps(U, T, TLeads, c) \subseteq H
  BY <1>3 DEF Admissible, HoldsHonestRuns, TLeads
<1>5. Delivered(d, r) \in HonestSteps(U, T, TLeads, c)
  BY <1>1, <1>3 DEF HonestSteps
<1>6. d = [u |-> r.state, t |-> t, sent |-> n + 1, flight |-> w]
  OBVIOUS
<1>7. ConfigOf(r.state, t, A, B) = Delivered(d, r)
  <2>1. CASE r.kind = "complete"
    <3>1. Delivered(d, r) = [u |-> r.state, t |-> t, sent |-> n + 1, flight |-> NoMsg]
      <4>1. n + 1 \in Nat
        BY <1>1
      <4> HIDE DEF d, n
      <4> QED BY <1>6, <2>1, <4>1, DeliveredRecord
    <3>2. Len(B) = n + 1
      BY <2>1 DEF Recording
    <3> QED BY <1>1, <3>1, <3>2 DEF ConfigOf
  <2>2. CASE r.kind # "complete"
    <3>1. Delivered(d, r) = [u |-> r.state, t |-> t, sent |-> n + 2, flight |-> r.msg]
      <4>1. n + 1 \in Nat /\ (n + 1) + 1 = n + 2
        BY <1>1
      <4> HIDE DEF d, n
      <4>2. Delivered(d, r) = IF r.kind = "complete" THEN [u |-> r.state, t |-> t, sent |-> n + 1, flight |-> NoMsg]
               ELSE [u |-> r.state, t |-> t, sent |-> (n + 1) + 1, flight |-> r.msg]
        BY <1>6, <4>1, DeliveredRecord
      <4> QED BY <2>2, <4>1, <4>2
    <3>2. Len(B) = n + 2 /\ B[n + 2].w = r.msg
      BY <2>2 DEF Recording
    <3> HIDE DEF c, d, n
    <3>3. Len(B) > Len(A) /\ Len(A) # Len(B) /\ ~(Len(A) > Len(B))
      BY <1>1, <3>2
    <3> QED BY <3>1, <3>2, <3>3 DEF ConfigOf
  <2> QED BY <2>1, <2>2
<1> QED BY <1>4, <1>5, <1>7

\* A session that is opened in step with the challenge starts an honest run with it.
LEMMA HonestOpening ==
    ASSUME NEW CONSTANT H, Admissible(U, T, Rounds, H), ChallengeInv, NEW t0 \in T.init,
           clock \in Nat, challenge.transcript \in Transcript,
           \A i \in 1 .. Len(challenge.transcript) : challenge.transcript[i].at < clock,
           InStep(RecordOpt(<<>>, t0.opening, clock).tr, challenge.transcript)
    PROVE  ConfigOf(challenge.state, t0.state, RecordOpt(<<>>, t0.opening, clock).tr,
                    challenge.transcript) \in H
<1> DEFINE A == RecordOpt(<<>>, t0.opening, clock).tr
           C == challenge.transcript
           m == Len(C)
<1>1. /\ IsParty(T) /\ (t0.opening # NoMsg <=> TLeads)
      /\ \A u0 \in U.init : HonestStart(TLeads, u0, t0) \in H
  BY GameAssumption DEF Admissible, HoldsHonestRuns, TLeads
<1>2. /\ A \in Transcript
      /\ ~TLeads => Len(A) = 0
      /\ TLeads => Len(A) = 1 /\ A[1].w = t0.opening /\ A[1].at = clock
  BY <1>1, OpeningShape
<1>3. m \in Nat /\ \A i \in 1 .. m : C[i].at \in Nat
  BY EntryType DEF Transcript
<1> HIDE DEF A, C
<1>4. InStep(A, C)
  BY DEF A, C
<1>5. \A i \in 1 .. m : C[i].at < clock
  BY DEF C
<1>6. CASE TLeads
  <2>1. SentByT(TLeads, 1) /\ ~SentByT(TLeads, 2)
    BY <1>6 DEF SentByT
  <2>2. ~(m > 0 /\ RelayedUpTo(1, A, C))
    <3>1. SUFFICES ASSUME m > 0, RelayedUpTo(1, A, C) PROVE FALSE
      OBVIOUS
    <3>2. A[1].at < C[1].at /\ 1 \in 1 .. m
      BY <1>3, <2>1, <3>1 DEF RelayedUpTo
    <3> QED BY <1>2, <1>3, <1>5, <1>6, <3>2
  <2>3. m = 0
    <3>1. Len(A) = 1
      BY <1>2, <1>6
    <3> HIDE DEF m
    <3>2. CASE 1 = m /\ RelayedUpTo(1, A, C)
      BY <2>2, <3>2
    <3>3. CASE 1 = m + 1
      BY <1>3, <3>3
    <3>4. CASE m = 1 + 1 /\ RelayedUpTo(1, A, C)
      BY <1>3, <2>2, <3>4
    <3> QED BY <1>4, <3>1, <3>2, <3>3, <3>4 DEF InStep, m
  <2>4. PICK u0 \in U.init : challenge.state = u0.state
    BY <1>6, <2>3 DEF ChallengeInv, C
  <2>5. ConfigOf(challenge.state, t0.state, A, C) = HonestStart(TLeads, u0, t0)
    <3>1. Len(A) = 1 /\ Len(C) = 0 /\ A[1].w = t0.opening
      BY <1>2, <1>6, <2>3
    <3>2. ConfigOf(challenge.state, t0.state, A, C)
             = [u |-> challenge.state, t |-> t0.state, sent |-> 1, flight |-> t0.opening]
      BY <3>1 DEF ConfigOf
    <3> QED BY <1>6, <2>4, <3>2 DEF HonestStart
  <2> QED BY <1>1, <2>5 DEF A, C
<1>7. CASE ~TLeads
  <2>1. m > 0
    BY <1>7 DEF ChallengeInv, C
  <2>2. m = 1
    <3>1. Len(A) = 0
      BY <1>2, <1>7
    <3> HIDE DEF m
    <3>2. 0 = m \/ 0 = m + 1 \/ m = 0 + 1
      BY <1>4, <3>1 DEF InStep, m
    <3> QED BY <1>3, <2>1, <3>2
  <2>3. PICK u0 \in U.init : challenge.state = u0.state /\ C[1].w = u0.opening
    BY <1>7, <2>2 DEF ChallengeInv, C
  <2>4. ConfigOf(challenge.state, t0.state, A, C) = HonestStart(TLeads, u0, t0)
    <3>1. Len(A) = 0 /\ Len(C) = 1
      BY <1>2, <1>7, <2>2
    <3>2. ConfigOf(challenge.state, t0.state, A, C)
             = [u |-> challenge.state, t |-> t0.state, sent |-> 1, flight |-> C[1].w]
      BY <3>1 DEF ConfigOf
    <3> QED BY <1>7, <2>3, <3>2 DEF HonestStart
  <2> QED BY <1>1, <2>4 DEF A, C
<1> QED BY <1>6, <1>7

\* Every stamp has passed.
LEMMA StampsPast ==
    ASSUME TypeOK, ClockInv
    PROVE  /\ \A i \in 1 .. Len(challenge.transcript) : challenge.transcript[i].at < clock
           /\ \A sid \in DOMAIN tSessions : \A i \in 1 .. Len(tSessions[sid].transcript) :
                 tSessions[sid].transcript[i].at < clock
<1>1. clock \in Nat /\ challenge.transcript \in Transcript
  BY DEF TypeOK
<1>2. \A n \in 0 .. clock - 1 : n < clock
  BY <1>1
<1>3. \A i \in 1 .. Len(challenge.transcript) : challenge.transcript[i].at < clock
  <2>1. DOMAIN challenge.transcript = 1 .. Len(challenge.transcript)
    BY <1>1 DEF Transcript
  <2> QED BY <1>2, <2>1 DEF ClockInv, Past, Stamps
<1>4. ASSUME NEW sid \in DOMAIN tSessions, NEW i \in 1 .. Len(tSessions[sid].transcript)
      PROVE  tSessions[sid].transcript[i].at < clock
  <2>1. DOMAIN tSessions[sid].transcript = 1 .. Len(tSessions[sid].transcript)
    BY SessionType DEF Transcript
  <2>2. tSessions[sid].transcript[i].at \in SessionStamps(sid)
    BY <1>4, <2>1 DEF SessionStamps, Stamps
  <2> QED BY <1>2, <2>2 DEF ClockInv, Past
<1> QED BY <1>3, <1>4

\* The challenge phase keeps every session that is in step in an honest run.
LEMMA NextHonest ==
    ASSUME NEW CONSTANT H, Admissible(U, T, Rounds, H), TypeOK, ClockInv, SessionInv, ChallengeInv,
           HonestInv(H), TypeOK', phase' = "challenge", [Next]_vars
    PROVE  HonestInv(H)'
<1> DEFINE C == challenge.transcript
<1>0. /\ C \in Transcript /\ clock \in Nat
      /\ \A i \in 1 .. Len(C) : C[i].at < clock
  BY StampsPast DEF TypeOK
<1>1. ASSUME OpenT PROVE HonestInv(H)'
  <2>1. PICK t0 \in T.init, m \in Nat :
           LET new == [state |-> t0.state, transcript |-> RecordOpt(<<>>, t0.opening, clock).tr,
                       key |-> Pending, revealed |-> FALSE]
           IN /\ m \notin DOMAIN tSessions
              /\ DOMAIN tSessions' = DOMAIN tSessions \cup {m}
              /\ tSessions'[m] = new
              /\ \A s \in DOMAIN tSessions : tSessions'[s] = tSessions[s]
    BY <1>1, OpenTAdds
  <2>2. challenge' = challenge
    BY <1>1 DEF OpenT
  <2>3. /\ tSessions'[m].transcript = RecordOpt(<<>>, t0.opening, clock).tr
        /\ tSessions'[m].state = t0.state
    BY <2>1
  <2>4. InStep(tSessions'[m].transcript, C) =>
           ConfigOf(challenge.state, tSessions'[m].state, tSessions'[m].transcript, C) \in H
    BY <1>0, <2>3, HonestOpening
  <2> QED BY <2>1, <2>2, <2>4 DEF HonestInv
<1>2. ASSUME NEW sid \in DOMAIN tSessions, NEW w \in Msg, StepT(sid, w) PROVE HonestInv(H)'
  <2> DEFINE old == tSessions[sid]
             new == tSessions'[sid]
             A == old.transcript
             B == new.transcript
  <2>1. PICK r \in Accepting(T, old.state, w) :
           /\ old.key = Pending
           /\ new.state = r.state
           /\ B = RecordStep(A, w, r).tr
           /\ DOMAIN tSessions' = DOMAIN tSessions
           /\ \A s \in DOMAIN tSessions \ {sid} : tSessions'[s] = tSessions[s]
    BY <1>2, StepTAdds
  <2>2. challenge' = challenge
    BY <1>2 DEF StepT
  <2>3. /\ old.state \in State /\ A \in Transcript /\ IsParty(T)
        /\ r.kind = "complete" \/ (r.kind = "acceptAndSend" /\ r.msg \in Msg)
    BY SessionType, AcceptingType, GameAssumption
  <2>4. Recording(A, B, w, r) /\ Continues(A, B, clock)
    BY <1>0, <2>1, <2>3, RecordStepShape, RecordStepContinues DEF Recording
  <2>5. B \in Transcript
    <3>1. sid \in DOMAIN tSessions'
      BY <2>1
    <3>2. tSessions' \in Seq(TSession)
      BY DEF TypeOK
    <3>3. tSessions'[sid] \in TSession
      BY <3>1, <3>2
    <3> QED BY <3>3 DEF TSession
  <2>6. Len(B) \in Nat /\ \A i \in 1 .. Len(B) : B[i].at \in Nat
    BY <2>5, EntryType DEF Transcript
  <2>7. ~SentByT(TLeads, Len(A) + 1)
    BY <2>1 DEF SessionInv
  <2> HIDE DEF A, B, C
  <2>8. ASSUME InStep(B, C) PROVE ConfigOf(challenge.state, new.state, B, C) \in H
    <3>1. /\ Len(C) = Len(A) + 1 /\ RelayedUpTo(Len(A), A, C)
          /\ B[Len(A) + 1].w = C[Len(C)].w
      BY <1>0, <2>3, <2>4, <2>6, <2>7, <2>8, TReceives
    <3>2. C[Len(C)].w = w /\ ~SentByT(TLeads, Len(C))
      BY <2>4, <2>7, <3>1 DEF Recording
    <3>3. InStep(A, C)
      BY <3>1, <3>2 DEF InStep
    <3>4. ConfigOf(challenge.state, old.state, A, C) \in H
      BY <3>3 DEF HonestInv, A, C
    <3>5. ConfigOf(challenge.state, r.state, B, C) \in H
      BY <1>0, <2>3, <2>4, <3>1, <3>2, <3>4, HonestStepT
    <3> QED BY <2>1, <3>5
  <2> QED BY <2>1, <2>2, <2>8 DEF HonestInv, A, B, C
<1>3. ASSUME NEW w \in Msg, StepChallenge(w) PROVE HonestInv(H)'
  <2> DEFINE D == challenge'.transcript
  <2>1. PICK r \in Accepting(U, challenge.state, w) :
           /\ challenge'.state = r.state
           /\ D = RecordStep(C, w, r).tr
           /\ tSessions' = tSessions
    BY <1>3, StepChallengeAdds
  <2>2. /\ challenge.state \in State /\ IsParty(U)
        /\ r.kind = "complete" \/ (r.kind = "acceptAndSend" /\ r.msg \in Msg)
    BY AcceptingType, GameAssumption DEF TypeOK
  <2>3. Recording(C, D, w, r) /\ Continues(C, D, clock)
    BY <1>0, <2>1, <2>2, RecordStepShape, RecordStepContinues DEF Recording
  <2>4. D \in Transcript
    BY DEF TypeOK
  <2>5. Len(D) \in Nat /\ \A i \in 1 .. Len(D) : D[i].at \in Nat
    BY <2>4, EntryType DEF Transcript
  <2>6. SentByT(TLeads, Len(C) + 1)
    BY <1>3 DEF StepChallenge, ChallengeInv
  <2> HIDE DEF C, D
  <2>7. ASSUME NEW sid \in DOMAIN tSessions, InStep(tSessions[sid].transcript, D)
        PROVE  ConfigOf(challenge'.state, tSessions[sid].state, tSessions[sid].transcript, D) \in H
    <3> DEFINE A == tSessions[sid].transcript
    <3>1. A \in Transcript /\ \A i \in 1 .. Len(A) : A[i].at < clock
      BY SessionType, StampsPast
    <3> HIDE DEF A
    <3>2. InStep(A, D)
      BY <2>7 DEF A
    <3>3. /\ Len(A) = Len(C) + 1 /\ RelayedUpTo(Len(C), A, C)
          /\ D[Len(C) + 1].w = A[Len(A)].w
      BY <1>0, <2>3, <2>5, <2>6, <3>1, <3>2, UReceives
    <3>4. A[Len(A)].w = w /\ SentByT(TLeads, Len(A))
      BY <2>3, <2>6, <3>3 DEF Recording
    <3>5. InStep(A, C)
      BY <3>3, <3>4 DEF InStep
    <3>6. ConfigOf(challenge.state, tSessions[sid].state, A, C) \in H
      BY <3>5 DEF HonestInv, A, C
    <3>7. ConfigOf(r.state, tSessions[sid].state, A, D) \in H
      BY <1>0, <2>3, <3>1, <3>3, <3>4, <3>6, HonestStepU
    <3> QED BY <2>1, <3>7 DEF A
  <2> QED BY <2>1, <2>7 DEF HonestInv, D
<1>4. ASSUME NEW sid \in DOMAIN tSessions, RevealT(sid) PROVE HonestInv(H)'
  <2>1. PICK new \in TSession :
           /\ new = [tSessions[sid] EXCEPT !.revealed = TRUE]
           /\ new.transcript = tSessions[sid].transcript
           /\ tSessions' = [tSessions EXCEPT ![sid] = new]
    BY <1>4, RevealTEffect
  <2>2. new.state = tSessions[sid].state
    BY <2>1, SessionType DEF TSession
  <2>3. challenge' = challenge
    BY <1>4 DEF RevealT
  <2> QED BY <2>1, <2>2, <2>3 DEF HonestInv
<1>5. ASSUME UNCHANGED vars PROVE HonestInv(H)'
  BY <1>5 DEF vars, env, HonestInv
<1>6. ASSUME Rejected \/ Forged \/ Accepted \/ Guess PROVE FALSE
  BY <1>6 DEF Rejected, Forged, Accepted, Guess, Deliver
<1> QED BY <1>1, <1>2, <1>3, <1>4, <1>5, <1>6 DEF Next

-----------------------------------------------------------------------------
(* Admissible schemes: the snapshot and the verdict. *)

\* A step that stays in the challenge phase.
LEMMA ChallengePhaseStep ==
    ASSUME [Next]_vars, phase' = "challenge"
    PROVE  /\ phase = "challenge" /\ cr' = cr
           /\ \/ challenge' = challenge /\ challengeDone' = challengeDone
              \/ \E w \in Msg : StepChallenge(w)
<1>1. CASE OpenT
  BY <1>1 DEF OpenT, Playing
<1>2. CASE \E sid \in DOMAIN tSessions : RevealT(sid) \/ \E w \in Msg : StepT(sid, w)
  BY <1>2 DEF RevealT, StepT, Playing
<1>3. CASE \E w \in Msg : StepChallenge(w)
  BY <1>3 DEF StepChallenge, Playing
<1>4. CASE Rejected \/ Forged \/ Accepted \/ Guess
  BY <1>4 DEF Rejected, Forged, Accepted, Guess, Deliver
<1>5. CASE UNCHANGED vars
  BY <1>5 DEF vars, env
<1> QED BY <1>1, <1>2, <1>3, <1>4, <1>5 DEF Next

\* An accepted key is the key of every session that matches the challenge.
LEMMA MatchingSessionAgrees ==
    ASSUME NEW CONSTANT H, Admissible(U, T, Rounds, H), TypeOK, ClockInv, SessionInv, HonestInv(H),
           NEW out \in Key, out \in U.output[challenge.state],
           NEW sid \in DOMAIN tSessions,
           Matching(TLeads, tSessions[sid].transcript, challenge.transcript)
    PROVE  tSessions[sid].key = out /\ Len(challenge.transcript) = Rounds /\ Rounds > 0
<1> DEFINE t == tSessions[sid]
           A == t.transcript
           C == challenge.transcript
           c == ConfigOf(challenge.state, t.state, A, C)
<1>1. A \in Transcript /\ C \in Transcript /\ TLeads \in BOOLEAN
  BY SessionType DEF TypeOK, TLeads
<1>2. Increasing(A) /\ Increasing(C)
  BY DEF ClockInv, Ordered
<1>3. Relayed(TLeads, A, C)
  BY <1>1, <1>2, MatchingIsRelaying
<1>4. Len(A) = Len(C) /\ RelayedUpTo(Len(A), A, C)
  <2>1. DOMAIN A = 1 .. Len(A)
    BY <1>1 DEF Transcript
  <2> HIDE DEF A, C
  <2> QED BY <1>3, <2>1 DEF Relayed, SameMessages, RelayedUpTo
<1>5. c \in H
  BY <1>4 DEF HonestInv, InStep
<1>6. c.sent = Len(C) /\ c.flight = NoMsg /\ c.u = challenge.state /\ c.t = t.state
  <2> HIDE DEF A, C, t
  <2> QED BY <1>1, <1>4 DEF ConfigOf, Transcript
<1>7. c \in HonestConfig /\ HonestlyCorrect(U, T, TLeads, Rounds, c)
  BY <1>5 DEF Admissible, TLeads
<1>8. c.sent \in Nat \ {0}
  BY <1>7 DEF HonestConfig
<1> HIDE DEF c
<1>9. PICK k \in Key : c.sent = Rounds /\ U.output[c.u] = {k} /\ T.output[c.t] = {k}
  BY <1>6, <1>7 DEF HonestlyCorrect
<1>10. t.key = k
  BY <1>6, <1>9, KeyAssumption DEF SessionInv
<1> QED BY <1>6, <1>8, <1>9, <1>10

\* What the snapshot of the challenge phase holds.
LEMMA SnapshotPartners ==
    ASSUME NEW K0, Snapshot(K0)
    PROVE  /\ cr'.K0 = K0 /\ cr'.challengeTr = challenge.transcript
           /\ DOMAIN cr'.oracleTrs = DOMAIN tSessions
           /\ \A sid \in DOMAIN tSessions : cr'.oracleTrs[sid] = tSessions[sid].transcript
           /\ Partners' = {sid \in DOMAIN tSessions :
                 Matching(TLeads, tSessions[sid].transcript, challenge.transcript)}
           /\ IsPingPong(cr') <=> Partners' # {}
           /\ phase = "challenge" /\ tSessions' = tSessions
<1>1. cr' = [K0 |-> K0, challengeTr |-> challenge.transcript,
             oracleTrs |-> Transcripts(tSessions)]
  BY DEF Snapshot
<1>2. /\ cr'.K0 = K0 /\ cr'.challengeTr = challenge.transcript
      /\ DOMAIN cr'.oracleTrs = DOMAIN tSessions
      /\ \A sid \in DOMAIN tSessions : cr'.oracleTrs[sid] = tSessions[sid].transcript
  BY <1>1 DEF Transcripts
<1>3. Partners' = {sid \in DOMAIN cr'.oracleTrs :
                      Matching(TLeads, cr'.oracleTrs[sid], cr'.challengeTr)}
  BY DEF Partners, TLeads
<1>4. Partners' = {sid \in DOMAIN tSessions :
         Matching(TLeads, tSessions[sid].transcript, challenge.transcript)}
  BY <1>2, <1>3
<1>5. IsPingPong(cr') <=> Partners' # {}
  BY <1>3 DEF IsPingPong, PingPong
<1> QED BY <1>2, <1>4, <1>5 DEF Snapshot

\* A snapshot with a key: every partner has completed with that key.
LEMMA SnapshotTaken ==
    ASSUME NEW CONSTANT H, Admissible(U, T, Rounds, H), TypeOK, ClockInv, SessionInv, HonestInv(H),
           NEW out \in Key, out \in U.output[challenge.state], Snapshot(out),
           verdict' \notin {"right", "wrong", "coin"},
           phase' = "post" => IsPingPong(cr')
    PROVE  SnapshotInv'
<1>1. /\ cr'.K0 = out /\ cr'.challengeTr = challenge.transcript
      /\ DOMAIN cr'.oracleTrs = DOMAIN tSessions
      /\ \A sid \in DOMAIN tSessions : cr'.oracleTrs[sid] = tSessions[sid].transcript
      /\ Partners' = {sid \in DOMAIN tSessions :
            Matching(TLeads, tSessions[sid].transcript, challenge.transcript)}
      /\ IsPingPong(cr') <=> Partners' # {}
      /\ tSessions' = tSessions
  BY SnapshotPartners
<1>2. \A sid \in Partners' : tSessions[sid].key = out /\ Len(challenge.transcript) = Rounds /\ Rounds > 0
  BY <1>1, MatchingSessionAgrees
<1> QED BY <1>1, <1>2 DEF SnapshotInv

\* The session that sends the last message of a run cannot be late and match.
LEMMA LateNoMatch ==
    ASSUME NEW tr \in Transcript, cr.challengeTr \in Transcript, Increasing(tr),
           Increasing(cr.challengeTr), Late(cr.challengeTr, tr), Len(cr.challengeTr) = Rounds, Rounds > 0
    PROVE  ~Matching(TLeads, tr, cr.challengeTr)
<1> DEFINE C == cr.challengeTr
<1> SUFFICES ASSUME Matching(TLeads, tr, C) PROVE FALSE
  OBVIOUS
<1>1. Relayed(TLeads, tr, C)
  BY MatchingIsRelaying DEF TLeads
<1>2. Len(tr) = Rounds /\ Rounds \in Nat
  BY <1>1, GameAssumption DEF Relayed, SameMessages
<1>3. Rounds \in DOMAIN tr /\ Rounds \in DOMAIN C /\ Rounds \in 1 .. Len(tr) /\ Rounds \in 1 .. Len(C)
  BY <1>2 DEF Transcript
<1>4. tr[Rounds].at < C[Rounds].at
  BY <1>1, <1>3 DEF Relayed, SentByT, TLeads
<1>5. C[Rounds].at < tr[Rounds].at
  BY <1>2, <1>3 DEF Late
<1>6. tr[Rounds].at \in Nat /\ C[Rounds].at \in Nat
  BY <1>3, EntryType
<1> QED BY <1>4, <1>5, <1>6

\* With the key in hand the adversary changes only sessions that are no partners,
\* and makes them late.
LEMMA PostSnapshotInv ==
    ASSUME TypeOK, ClockInv, SealedInv, SnapshotInv, cr.K0 \in Key, phase = "post",
           verdict = "none", phase' = "post", [Next]_vars, TypeOK'
    PROVE  SnapshotInv'
<1>0. /\ clock \in Nat /\ challenge.transcript = cr.challengeTr
      /\ cr.challengeTr \in Transcript /\ DOMAIN cr.challengeTr = 1 .. Len(cr.challengeTr)
      /\ \A j \in DOMAIN cr.challengeTr : cr.challengeTr[j].at < clock /\ cr.challengeTr[j].at \in Nat
  <2>1. clock \in Nat /\ challenge.transcript = cr.challengeTr /\ cr.challengeTr \in Transcript
    BY DEF TypeOK, SealedInv
  <2>2. DOMAIN cr.challengeTr = 1 .. Len(cr.challengeTr)
    BY <2>1 DEF Transcript
  <2> QED BY <2>1, <2>2, StampsPast, EntryType
<1>1. ASSUME OpenT PROVE SnapshotInv'
  <2>1. PICK t0 \in T.init, m \in Nat :
           LET new == [state |-> t0.state, transcript |-> RecordOpt(<<>>, t0.opening, clock).tr,
                       key |-> Pending, revealed |-> FALSE]
           IN /\ m \notin DOMAIN tSessions
              /\ DOMAIN tSessions' = DOMAIN tSessions \cup {m}
              /\ tSessions'[m] = new
              /\ \A s \in DOMAIN tSessions : tSessions'[s] = tSessions[s]
    BY <1>1, OpenTAdds
  <2>2. cr' = cr /\ verdict' = verdict /\ Partners' = Partners
    BY <1>1 DEF OpenT, Playing, Partners, TLeads
  <2> DEFINE tr == RecordOpt(<<>>, t0.opening, clock).tr
  <2>3. tSessions'[m].transcript = tr
    BY <2>1
  <2>4. Late(cr.challengeTr, tr)
    <3>1. Len(tr) = 0 \/ (Len(tr) = 1 /\ tr[1].at = clock)
      BY <1>0, GameAssumption, OpeningShape
    <3> HIDE DEF tr
    <3> QED BY <1>0, <3>1 DEF Late
  <2> HIDE DEF tr
  <2>5. ASSUME NEW sid \in Partners
        PROVE  /\ sid \in DOMAIN tSessions'
               /\ tSessions'[sid].key = cr.K0
               /\ tSessions'[sid].transcript = cr.oracleTrs[sid]
    BY <2>1 DEF SnapshotInv
  <2>6. ASSUME NEW sid \in DOMAIN tSessions'
        PROVE  \/ sid \in DOMAIN cr.oracleTrs /\ tSessions'[sid].transcript = cr.oracleTrs[sid]
               \/ Late(cr.challengeTr, tSessions'[sid].transcript)
    BY <2>1, <2>3, <2>4 DEF SnapshotInv
  <2> QED BY <2>2, <2>5, <2>6 DEF SnapshotInv
<1>2. ASSUME NEW sid \in DOMAIN tSessions, RevealT(sid) PROVE SnapshotInv'
  <2>1. PICK new \in TSession :
           /\ new.transcript = tSessions[sid].transcript
           /\ new.key = tSessions[sid].key
           /\ tSessions' = [tSessions EXCEPT ![sid] = new]
    BY <1>2, RevealTEffect
  <2>2. cr' = cr /\ verdict' = verdict /\ Partners' = Partners
    BY <1>2 DEF RevealT, Playing, Partners, TLeads
  <2>3. /\ DOMAIN tSessions' = DOMAIN tSessions
        /\ \A s \in DOMAIN tSessions : /\ tSessions'[s].transcript = tSessions[s].transcript
                                      /\ tSessions'[s].key = tSessions[s].key
    BY <2>1
  <2> QED BY <2>2, <2>3 DEF SnapshotInv
<1>3. ASSUME NEW sid \in DOMAIN tSessions, NEW w \in Msg, StepT(sid, w) PROVE SnapshotInv'
  <2> DEFINE A == tSessions[sid].transcript
             B == tSessions'[sid].transcript
  <2>1. PICK r \in Accepting(T, tSessions[sid].state, w) :
           /\ tSessions[sid].key = Pending
           /\ B = RecordStep(A, w, r).tr
           /\ DOMAIN tSessions' = DOMAIN tSessions
           /\ \A s \in DOMAIN tSessions \ {sid} : tSessions'[s] = tSessions[s]
    BY <1>3, StepTAdds
  <2>2. cr' = cr /\ verdict' = verdict /\ Partners' = Partners
    BY <1>3 DEF StepT, Playing, Partners, TLeads
  <2>3. Continues(A, B, clock) /\ A \in Transcript
    <3>1. tSessions[sid].state \in State /\ A \in Transcript /\ IsParty(T)
      BY SessionType, GameAssumption
    <3>2. r.kind = "complete" \/ (r.kind = "acceptAndSend" /\ r.msg \in Msg)
      BY <3>1, AcceptingType
    <3> QED BY <1>0, <2>1, <3>1, <3>2, RecordStepContinues
  <2>4. Late(cr.challengeTr, B)
    <3>1. B \in Transcript
      <4>1. sid \in DOMAIN tSessions' /\ tSessions' \in Seq(TSession)
        BY <2>1 DEF TypeOK
      <4>2. tSessions'[sid] \in TSession
        BY <4>1
      <4> QED BY <4>2 DEF TSession
    <3> HIDE DEF A, B
    <3>2. Len(A) \in Nat /\ Len(B) \in Len(A) + 1 .. Len(B) /\ Len(B) \in 1 .. Len(B)
      BY <2>3, <3>1 DEF Continues, Transcript
    <3>3. B[Len(B)].at >= clock /\ B[Len(B)].at \in Nat
      BY <2>3, <3>1, <3>2, EntryType DEF Continues
    <3>4. \A j \in DOMAIN cr.challengeTr : cr.challengeTr[j].at < B[Len(B)].at
      BY <1>0, <3>3
    <3> QED BY <3>4 DEF Late
  <2>5. sid \notin Partners
    BY <2>1, KeyAssumption DEF SnapshotInv
  <2>6. ASSUME NEW s \in Partners
        PROVE  /\ s \in DOMAIN tSessions' /\ tSessions'[s] = tSessions[s]
               /\ tSessions'[s].key = cr.K0
               /\ tSessions'[s].transcript = cr.oracleTrs[s]
    BY <2>1, <2>5 DEF SnapshotInv
  <2>7. ASSUME NEW s \in DOMAIN tSessions'
        PROVE  \/ s \in DOMAIN cr.oracleTrs /\ tSessions'[s].transcript = cr.oracleTrs[s]
               \/ Late(cr.challengeTr, tSessions'[s].transcript)
    <3>1. CASE s = sid
      BY <2>4, <3>1
    <3>2. CASE s # sid
      BY <2>1, <3>2 DEF SnapshotInv
    <3> QED BY <3>1, <3>2
  <2> QED BY <2>2, <2>6, <2>7 DEF SnapshotInv
<1>4. ASSUME NEW w \in Msg, StepChallenge(w) PROVE FALSE
  BY <1>4 DEF StepChallenge, SealedInv
<1>5. ASSUME Rejected \/ Forged \/ Accepted \/ Guess PROVE FALSE
  BY <1>5 DEF Rejected, Forged, Accepted, Guess, Snapshot
<1>6. ASSUME UNCHANGED vars PROVE SnapshotInv'
  BY <1>6 DEF vars, env, SnapshotInv, Partners, TLeads
<1> QED BY <1>1, <1>2, <1>3, <1>4, <1>5, <1>6 DEF Next

\* The guess is judged by the partners: a session that has changed since the
\* snapshot is late, so it does not match.
LEMMA GuessSnapshotInv ==
    ASSUME TypeOK, ClockInv, SealedInv, SnapshotInv, cr.K0 \in Key, Guess
    PROVE  SnapshotInv'
<1>1. /\ phase = "post" /\ phase' = "done" /\ cr' = cr /\ tSessions' = tSessions
      /\ Partners' = Partners
  BY DEF Guess, env, Partners, TLeads
<1>2. /\ FullPingPong(tSessions, cr) => verdict' = "coin"
      /\ ~FullPingPong(tSessions, cr) => verdict' \in {"right", "wrong"}
  BY DEF Guess
<1>3. \A sid \in DOMAIN tSessions :
         Matching(TLeads, tSessions[sid].transcript, cr.challengeTr) => sid \in Partners
  <2> SUFFICES ASSUME NEW sid \in DOMAIN tSessions, sid \notin Partners
               PROVE  ~Matching(TLeads, tSessions[sid].transcript, cr.challengeTr)
    OBVIOUS
  <2>1. CASE sid \in DOMAIN cr.oracleTrs /\ tSessions[sid].transcript = cr.oracleTrs[sid]
    BY <2>1 DEF Partners
  <2>2. CASE Late(cr.challengeTr, tSessions[sid].transcript)
    <3>1. Len(cr.challengeTr) = Rounds /\ Rounds > 0
      BY <1>1 DEF SnapshotInv
    <3>2. tSessions[sid].transcript \in Transcript /\ cr.challengeTr \in Transcript
      BY SessionType DEF TypeOK
    <3>3. Increasing(tSessions[sid].transcript) /\ Increasing(cr.challengeTr)
      BY <1>1 DEF ClockInv, Ordered, SealedInv
    <3> QED BY <2>2, <3>1, <3>2, <3>3, LateNoMatch
  <2> QED BY <2>1, <2>2 DEF SnapshotInv
<1>4. \A sid \in Partners :
         sid \in DOMAIN tSessions /\ Matching(TLeads, tSessions[sid].transcript, cr.challengeTr)
  BY DEF SnapshotInv, Partners
<1>5. FullPingPong(tSessions, cr) <=> \E sid \in Partners : tSessions[sid].revealed
  BY <1>3, <1>4 DEF FullPingPong
<1> QED BY <1>1, <1>2, <1>5 DEF SnapshotInv

LEMMA InitAdmissible ==
    ASSUME NEW CONSTANT H, Admissible(U, T, Rounds, H), Init
    PROVE  AdmissibleInv(H)
<1>1. DOMAIN tSessions = {} /\ phase = "challenge" /\ verdict = "none" /\ cr.K0 = Bot
  BY DEF Init
<1> QED BY <1>1, InitChallengeInv DEF AdmissibleInv, SessionInv, HonestInv

LEMMA NextAdmissible ==
    ASSUME NEW CONSTANT H, Admissible(U, T, Rounds, H), TypeOK, TypeOK', ClockInv, SealedInv,
           AdmissibleInv(H), [Next]_vars
    PROVE  AdmissibleInv(H)'
<1>1. SessionInv /\ SessionInv'
  BY NextSessionInv DEF AdmissibleInv
<1>2. (phase # "done" => verdict = "none")'
  <2>1. phase' # "done" => phase # "done" /\ verdict' = verdict
    <3>1. CASE OpenT
      BY <3>1 DEF OpenT, Playing
    <3>2. CASE \E sid \in DOMAIN tSessions : RevealT(sid) \/ \E w \in Msg : StepT(sid, w)
      BY <3>2 DEF RevealT, StepT, Playing
    <3>3. CASE \E w \in Msg : StepChallenge(w)
      BY <3>3 DEF StepChallenge, Playing
    <3>4. CASE Rejected \/ Forged \/ Accepted \/ Guess
      BY <3>4 DEF Rejected, Forged, Accepted, Guess, Deliver, Snapshot
    <3>5. CASE UNCHANGED vars
      BY <3>5 DEF vars
    <3> QED BY <3>1, <3>2, <3>3, <3>4, <3>5 DEF Next
  <2> QED BY <2>1 DEF AdmissibleInv
<1>3. ASSUME phase' = "challenge" PROVE (ChallengeInv /\ HonestInv(H) /\ cr.K0 = Bot)'
  <2>1. /\ phase = "challenge" /\ cr' = cr
        /\ \/ challenge' = challenge /\ challengeDone' = challengeDone
           \/ \E w \in Msg : StepChallenge(w)
    BY <1>3, ChallengePhaseStep
  <2>2. ChallengeInv /\ HonestInv(H) /\ cr.K0 = Bot
    BY <2>1 DEF AdmissibleInv
  <2>3. ChallengeInv'
    <3>1. CASE challenge' = challenge /\ challengeDone' = challengeDone
      BY <2>2, <3>1 DEF ChallengeInv, TLeads
    <3>2. CASE \E w \in Msg : StepChallenge(w)
      BY <2>2, <3>2, StepChallengeInv
    <3> QED BY <2>1, <3>1, <3>2
  <2>4. HonestInv(H)'
    BY <1>1, <1>3, <2>2, NextHonest
  <2> QED BY <2>1, <2>2, <2>3, <2>4
<1>4. ASSUME phase' # "challenge", cr'.K0 \in Key PROVE SnapshotInv'
  <2>1. ASSUME phase = "challenge" PROVE SnapshotInv'
    <3>1. HonestInv(H) /\ verdict = "none"
      BY <2>1 DEF AdmissibleInv
    <3>2. CASE Forged
      <4>1. PICK out \in Key : out \in U.output[challenge.state] /\ Snapshot(out)
        BY <3>2 DEF Forged
      <4>2. verdict' = "forgery" /\ phase' = "done"
        BY <3>2 DEF Forged
      <4> QED BY <1>1, <3>1, <4>1, <4>2, SnapshotTaken
    <3>3. CASE Accepted
      <4>1. PICK out \in Key : out \in U.output[challenge.state] /\ Snapshot(out)
        BY <3>3 DEF Accepted
      <4>2. verdict' = "none" /\ IsPingPong(cr')
        BY <3>1, <3>3 DEF Accepted, Deliver
      <4> QED BY <1>1, <3>1, <4>1, <4>2, SnapshotTaken
    <3>4. ASSUME Rejected PROVE FALSE
      <4>1. cr'.K0 = Bot
        BY <3>4, SnapshotPartners DEF Rejected
      <4> QED BY <1>4, <4>1, KeyAssumption
    <3>5. ASSUME Guess PROVE FALSE
      BY <2>1, <3>5 DEF Guess
    <3>6. ASSUME \/ OpenT
                 \/ \E sid \in DOMAIN tSessions : RevealT(sid) \/ \E w \in Msg : StepT(sid, w)
                 \/ \E w \in Msg : StepChallenge(w)
                 \/ UNCHANGED vars
          PROVE  FALSE
      BY <1>4, <2>1, <3>6 DEF OpenT, RevealT, StepT, StepChallenge, Playing, vars
    <3> QED BY <3>2, <3>3, <3>4, <3>5, <3>6 DEF Next
  <2>2. ASSUME phase # "challenge" PROVE SnapshotInv'
    <3>1. ASSUME Rejected \/ Forged \/ Accepted PROVE FALSE
      BY <2>2, <3>1 DEF Rejected, Forged, Accepted, Snapshot
    <3>2. cr' = cr
      <4>1. CASE OpenT
        BY <4>1 DEF OpenT, Playing
      <4>2. CASE \E sid \in DOMAIN tSessions : RevealT(sid) \/ \E w \in Msg : StepT(sid, w)
        BY <4>2 DEF RevealT, StepT, Playing
      <4>3. CASE \E w \in Msg : StepChallenge(w)
        BY <4>3 DEF StepChallenge, Playing
      <4>4. CASE Guess \/ UNCHANGED vars
        BY <4>4 DEF Guess, vars
      <4> QED BY <3>1, <4>1, <4>2, <4>3, <4>4 DEF Next
    <3>3. cr.K0 \in Key /\ SnapshotInv
      BY <1>4, <2>2, <3>2 DEF AdmissibleInv
    <3>4. CASE Guess
      BY <3>3, <3>4, GuessSnapshotInv
    <3>5. CASE ~Guess
      <4>1. phase' = phase /\ (phase = "done" => UNCHANGED vars)
        <5>1. CASE OpenT
          BY <5>1 DEF OpenT, Playing
        <5>2. CASE \E sid \in DOMAIN tSessions : RevealT(sid) \/ \E w \in Msg : StepT(sid, w)
          BY <5>2 DEF RevealT, StepT, Playing
        <5>3. CASE \E w \in Msg : StepChallenge(w)
          BY <5>3 DEF StepChallenge, Playing
        <5>4. CASE UNCHANGED vars
          BY <5>4 DEF vars
        <5> QED BY <3>1, <3>5, <5>1, <5>2, <5>3, <5>4 DEF Next
      <4>2. CASE phase = "post"
        <5>1. verdict = "none"
          BY <4>2 DEF AdmissibleInv
        <5> QED BY <3>3, <4>1, <4>2, <5>1, PostSnapshotInv
      <4>3. CASE phase = "done"
        BY <3>3, <4>1, <4>3 DEF vars, env, SnapshotInv, Partners, TLeads
      <4> QED BY <2>2, <4>2, <4>3 DEF TypeOK
    <3> QED BY <3>4, <3>5
  <2> QED BY <2>1, <2>2
<1> QED BY <1>1, <1>2, <1>3, <1>4 DEF AdmissibleInv

LEMMA AdmissibleAlways ==
    ASSUME NEW CONSTANT H, Admissible(U, T, Rounds, H)
    PROVE  Spec => []AdmissibleInv(H)
<1>1. Init => TypeOK /\ ClockInv /\ SealedInv
  BY InitType, InitClock DEF Init, SealedInv
<1>2. Init => AdmissibleInv(H)
  BY InitAdmissible
<1>3. TypeOK /\ ClockInv /\ SealedInv /\ AdmissibleInv(H) /\ [Next]_vars
         => (TypeOK /\ ClockInv /\ SealedInv /\ AdmissibleInv(H))'
  <2> SUFFICES ASSUME TypeOK, ClockInv, SealedInv, AdmissibleInv(H), [Next]_vars
               PROVE  (TypeOK /\ ClockInv /\ SealedInv /\ AdmissibleInv(H))'
    OBVIOUS
  <2>1. TypeOK' /\ ClockInv' /\ SealedInv'
    BY NextType, NextClock, NextSealed
  <2> QED BY <2>1, NextAdmissible
<1> QED BY <1>1, <1>2, <1>3, PTL DEF Spec

\* For every admissible scheme: a partner that completed holds the challenge key,
\* whatever the adversary relays, drops, injects or reveals.
THEOREM PartnersAgreeHolds ==
    ASSUME NEW CONSTANT H, Admissible(U, T, Rounds, H)
    PROVE  Spec => []PartnersAgree
<1>1. AdmissibleInv(H) => PartnersAgree
  <2> SUFFICES ASSUME AdmissibleInv(H), cr.K0 \in Key
               PROVE  \A sid \in Partners : tSessions[sid].key \in {cr.K0, Pending}
    BY DEF PartnersAgree
  <2>1. SnapshotInv
    BY KeyAssumption DEF AdmissibleInv
  <2> QED BY <2>1 DEF SnapshotInv
<1> QED BY <1>1, AdmissibleAlways, PTL

\* For every admissible scheme: a guess counts exactly when no partner was revealed,
\* although finalize looks at the transcripts the sessions have at the end.
THEOREM VerdictByPartnersHolds ==
    ASSUME NEW CONSTANT H, Admissible(U, T, Rounds, H)
    PROVE  Spec => []VerdictByPartners
<1>1. AdmissibleInv(H) => VerdictByPartners
  <2> SUFFICES ASSUME AdmissibleInv(H), phase = "done", cr.K0 \in Key
               PROVE  /\ verdict \in {"right", "wrong"} =>
                            Partners # {} /\ \A sid \in Partners : ~tSessions[sid].revealed
                      /\ verdict = "coin" => \E sid \in Partners : tSessions[sid].revealed
    BY DEF VerdictByPartners
  <2> QED BY DEF AdmissibleInv, SnapshotInv
<1> QED BY <1>1, AdmissibleAlways, PTL
=============================================================================
