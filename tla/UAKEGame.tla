------------------------------ MODULE UAKEGame ------------------------------
(***************************************************************************)
(* The security game of unilaterally authenticated key exchange            *)
(* (AKE/UAKE/Defs.lean).  The adversary, an arbitrary OracleComp, drives   *)
(* one challenge session of the unkeyed party U and any number of sessions *)
(* of the keyed party T, reveals keys of completed T sessions, and finally *)
(* guesses whether it was handed the challenge key or a fresh one.         *)
(*                                                                         *)
(* A query that is answered without changing the game (an unknown session, *)
(* a completed one, a rejected message) is a stuttering step.              *)
(***************************************************************************)
EXTENDS UAKEParty, FiniteSets

CONSTANTS
    U, T,           \* the two parties, once setup has fixed their inputs
    Rounds,         \* Scheme.rounds
    MaxSessions     \* bound on the number of T sessions

ASSUME GameAssumption ==
    /\ IsParty(U) /\ IsParty(T)
    /\ Rounds \in Nat
    /\ MaxSessions \in Nat

VARIABLES
    phase,          \* "challenge", "post" (the two parts of Adversary), "done"
    clock,          \* Env.clock
    challenge,      \* Env.challenge: U's state and transcript
    challengeDone,  \* Env.challengeDone
    tSessions,      \* Env.tSessions
    b,              \* the hidden bit
    cr,             \* ChallengeResult: the snapshot before the key is handed out
    Kb,             \* the key handed to the adversary
    verdict         \* how Exp ended

env == <<clock, challenge, challengeDone, tSessions>>
vars == <<phase, env, b, cr, Kb, verdict>>

TSession == [state : State, transcript : Transcript, key : Output,
             revealed : BOOLEAN]

TypeOK ==
    /\ phase \in {"challenge", "post", "done"}
    /\ clock \in Nat
    /\ challenge \in [state : State, transcript : Transcript]
    /\ challengeDone \in BOOLEAN
    /\ tSessions \in Seq(TSession)
    /\ b \in BOOLEAN
    /\ cr \in [K0 : Key \cup {Bot}, challengeTr : Transcript,
               oracleTrs : Seq(Transcript)]
    /\ Kb \in Key \cup {Bot}
    /\ verdict \in {"none", "forgery", "coin", "right", "wrong"}

Transcripts(sessions) == [i \in DOMAIN sessions |-> sessions[i].transcript]

\* `rounds % 2 == 1`: T speaks last, so it leads when Rounds is odd
TLeads == Rounds % 2 = 1

\* Exp and challengeSession up to the first query of the adversary
Init ==
    /\ b \in BOOLEAN
    /\ \E u0 \in U.init :
          LET r == RecordOpt(<<>>, u0.opening, 0)
          IN /\ challenge = [state |-> u0.state, transcript |-> r.tr]
             /\ clock = r.clock
    /\ phase = "challenge"
    /\ challengeDone = FALSE
    /\ tSessions = <<>>
    /\ cr = [K0 |-> Bot, challengeTr |-> <<>>, oracleTrs |-> <<>>]
    /\ Kb = Bot
    /\ verdict = "none"

-----------------------------------------------------------------------------
(* The oracle operations (opImpl), available in both parts of the game. *)

Playing == phase # "done" /\ UNCHANGED <<phase, b, cr, Kb, verdict>>

OpenT ==
    /\ Playing
    /\ Len(tSessions) < MaxSessions
    /\ \E t0 \in T.init :
          LET r == RecordOpt(<<>>, t0.opening, clock)
          IN /\ tSessions' = Append(tSessions,
                    [state |-> t0.state, transcript |-> r.tr,
                     key |-> Pending, revealed |-> FALSE])
             /\ clock' = r.clock
    /\ UNCHANGED <<challenge, challengeDone>>

\* Faulty variant of RecordTwo: the tick of the reply is not handed on.
RecordTwoSlow(tr, w, reply, c) ==
    LET r == RecordOne(tr, w, c)
    IN [RecordOne(r.tr, reply, r.clock) EXCEPT !.clock = r.clock]

\* the incoming message and then the reply, each at its own tick
RecordTwo(tr, w, reply, c) ==
    LET r == RecordOne(tr, w, c) IN RecordOne(r.tr, reply, r.clock)

\* what an accepted message w with result r adds to the transcript
RecordStep(tr, w, r) ==
    IF r.kind = "complete" THEN RecordOne(tr, w, clock)
                           ELSE RecordTwo(tr, w, r.msg, clock)

\* Faulty variant of Running: a completed session may go on.
RunningAlways(sid) == TRUE

Running(sid) == tSessions[sid].key = Pending

StepT(sid, w) ==
    /\ Playing
    /\ Running(sid)
    /\ \E r \in Accepting(T, tSessions[sid].state, w) :
          LET rec == RecordStep(tSessions[sid].transcript, w, r)
          IN /\ \E key \in IF Finished(r) THEN T.output[r.state] ELSE {Pending} :
                   tSessions' = [tSessions EXCEPT ![sid] =
                       [state |-> r.state, transcript |-> rec.tr, key |-> key,
                        revealed |-> @.revealed]]
             /\ clock' = rec.clock
    /\ UNCHANGED <<challenge, challengeDone>>

RevealT(sid) ==
    /\ Playing
    /\ tSessions[sid].key # Pending
    /\ tSessions' = [tSessions EXCEPT ![sid].revealed = TRUE]
    /\ UNCHANGED <<clock, challenge, challengeDone>>

StepChallenge(w) ==
    /\ Playing
    /\ ~challengeDone
    /\ \E r \in Accepting(U, challenge.state, w) :
          LET rec == RecordStep(challenge.transcript, w, r)
          IN /\ challenge' = [state |-> r.state, transcript |-> rec.tr]
             /\ clock' = rec.clock
             /\ challengeDone' = Finished(r)
    /\ UNCHANGED tSessions

-----------------------------------------------------------------------------
(* The end of the challenge phase and of the game (Exp, finalize). *)

IsPingPong(c) == PingPong(TLeads, c.oracleTrs, c.challengeTr)

\* Faulty variant of FullPingPong: the wrong speaker is taken for the first one.
FullPingPongParity(sessions, c) ==
    \E sid \in DOMAIN sessions :
        sessions[sid].revealed /\ Matching(~TLeads, sessions[sid].transcript, c.challengeTr)

\* some session that matches the challenge was revealed
FullPingPong(sessions, c) ==
    \E sid \in DOMAIN sessions :
        sessions[sid].revealed /\ Matching(TLeads, sessions[sid].transcript, c.challengeTr)

\* the snapshot challengeSession returns
Snapshot(K0) ==
    /\ phase = "challenge"
    /\ cr' = [K0 |-> K0, challengeTr |-> challenge.transcript,
              oracleTrs |-> Transcripts(tSessions)]
    /\ UNCHANGED <<clock, challenge, tSessions, b>>

\* Faulty variant of Deliver: the challenge session stays open.
DeliverOpen(K1) ==
    /\ Kb' = IF b THEN K1 ELSE cr'.K0
    /\ phase' = "post"
    /\ UNCHANGED <<challengeDone, verdict>>

\* finalize, up to the first query of A.post
Deliver(K1) ==
    /\ Kb' = IF b THEN K1 ELSE cr'.K0
    /\ challengeDone' = TRUE
    /\ phase' = "post"
    /\ UNCHANGED verdict

\* the challenge party did not accept: both keys are none
Rejected ==
    /\ \E out \in U.output[challenge.state] : Join(out) = Bot
    /\ Snapshot(Bot)
    /\ Deliver(Bot)

\* it accepted without a matching T session: the adversary wins at once
Forged ==
    /\ \E out \in U.output[challenge.state] : out \in Key /\ Snapshot(out)
    /\ ~IsPingPong(cr')
    /\ phase' = "done"
    /\ verdict' = "forgery"
    /\ UNCHANGED <<challengeDone, Kb>>

\* it accepted a relayed session: the key or a uniform one is handed out
Accepted ==
    /\ \E out \in U.output[challenge.state] : out \in Key /\ Snapshot(out)
    /\ IsPingPong(cr')
    /\ \E K1 \in Key : Deliver(K1)

\* finalize, after A.post: a guess counts unless a matching session was
\* revealed, when a coin decides
Guess ==
    /\ phase = "post"
    /\ phase' = "done"
    /\ IF FullPingPong(tSessions, cr)
       THEN verdict' = "coin"
       ELSE \E guess \in BOOLEAN : verdict' = IF guess = b THEN "right" ELSE "wrong"
    /\ UNCHANGED <<env, b, cr, Kb>>

Next ==
    \/ OpenT
    \/ \E sid \in DOMAIN tSessions : RevealT(sid) \/ \E w \in Msg : StepT(sid, w)
    \/ \E w \in Msg : StepChallenge(w)
    \/ Rejected
    \/ Forged
    \/ Accepted
    \/ Guess

Spec == Init /\ [][Next]_vars

-----------------------------------------------------------------------------
(* The clock and the transcripts. *)

Stamps(tr) == {tr[i].at : i \in DOMAIN tr}

SessionStamps(sid) == Stamps(tSessions[sid].transcript)

\* The clock discipline of recordOne and recordOpt: every transcript lists
\* its entries in increasing order of time, no two sessions share a
\* timestamp, and the timestamps of all of them are exactly the ticks that
\* have passed.
ClockSound ==
    /\ Increasing(challenge.transcript)
    /\ \A sid \in DOMAIN tSessions : Increasing(tSessions[sid].transcript)
    /\ \A sid \in DOMAIN tSessions :
          SessionStamps(sid) \cap Stamps(challenge.transcript) = {}
    /\ \A s1, s2 \in DOMAIN tSessions :
          s1 # s2 => SessionStamps(s1) \cap SessionStamps(s2) = {}
    /\ Stamps(challenge.transcript) \cup UNION {SessionStamps(sid) : sid \in DOMAIN tSessions}
          = 0 .. clock - 1

\* Definition 3 says "interleaved", the code checks a chain of alternating
\* timestamps: under the clock discipline the two mean that every message
\* was recorded by its sender before its receiver.
MatchingIffRelayed ==
    \A sid \in DOMAIN tSessions :
        LET tr == tSessions[sid].transcript
        IN Matching(TLeads, tr, challenge.transcript)
              <=> Relayed(TLeads, tr, challenge.transcript)

-----------------------------------------------------------------------------
(* Completed sessions. *)

\* Once a T session has its key neither its transcript nor its key changes,
\* whatever the party would still answer, and a reveal is never taken back;
\* only a completed session is ever revealed.
CompletedSessionsFrozen ==
    [][\A sid \in DOMAIN tSessions :
          LET t == tSessions[sid]
          IN /\ t.key # Pending \/ t.revealed =>
                   \E r \in BOOLEAN : tSessions'[sid] = [t EXCEPT !.revealed = r]
             /\ t.revealed => tSessions'[sid].revealed
             /\ tSessions'[sid].revealed => tSessions'[sid].key # Pending]_vars

\* The challenge session ends with its phase: what the adversary does with
\* the candidate key in hand cannot change the transcript it is judged by.
ChallengeSealed ==
    phase # "challenge" => challenge.transcript = cr.challengeTr

-----------------------------------------------------------------------------
(* The verdict. *)

\* T sessions that matched the challenge when the snapshot was taken
Partners ==
    {sid \in DOMAIN cr.oracleTrs :
        Matching(TLeads, cr.oracleTrs[sid], cr.challengeTr)}

\* No evasion: when a guess on an accepted key counts, the challenge was
\* relayed, and no partner had its key revealed - before or after the
\* snapshot, also if the adversary went on stepping it afterwards.  And no
\* unfair coin: the guess is discarded only for the reveal of a partner; a
\* session opened or stepped with the key in hand is revealed without harm.
VerdictByPartners ==
    phase = "done" /\ cr.K0 \in Key =>
        /\ verdict \in {"right", "wrong"} =>
              Partners # {} /\ \A sid \in Partners : ~tSessions[sid].revealed
        /\ verdict = "coin" => \E sid \in Partners : tSessions[sid].revealed

\* A partner that completed holds the challenge key: matching ties together
\* the sessions of a correct scheme that agree.
PartnersAgree ==
    cr.K0 \in Key =>
        \A sid \in Partners : tSessions[sid].key \in {cr.K0, Pending}
=============================================================================
