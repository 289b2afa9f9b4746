----------------------------- MODULE UAKEHonest -----------------------------
(***************************************************************************)
(* Party.runHonest: the two parties of a scheme run against each other,    *)
(* each message handed straight to the other side, with a bound (fuel) on  *)
(* the number of party steps.  CorrectExp and HonestCompletionExp run U    *)
(* against T with fuel rounds + 1.                                         *)
(*                                                                         *)
(* The honest run is an adversary of UAKEGame that opens one T session and *)
(* only relays: ImplementsGame reconstructs the game's transcripts and     *)
(* clock from the list of messages.                                        *)
(***************************************************************************)
EXTENDS UAKEParty

CONSTANTS
    U, T,           \* the parties P and Q of runHonest
    Rounds,         \* Scheme.rounds
    Fuels           \* bounds on the number of party steps that runHonest is called with

ASSUME HonestAssumption ==
    /\ IsParty(U) /\ IsParty(T)
    /\ OutputsOnlyAtCompletion(U) /\ OutputsOnlyAtCompletion(T)
    /\ Rounds \in Nat
    /\ Fuels \subseteq Nat

VARIABLES
    pc,             \* "start", "loop", "output", "done"
    given, fuel,    \* the bound of this run, and the party steps left
    rejected,       \* history: a party rejected the last message
    uState, tState, \* private states; tState is Bot until T is initialised
    tTurn,          \* whether T is to receive the last message
    sent,           \* the messages so far, in chronological order
    delivered,      \* history: how many of them their receiver accepted
    uOut, tOut      \* the result, with `sent`

vars == <<pc, given, fuel, rejected, uState, tState, tTurn, sent, delivered, uOut, tOut>>

\* the messages InitResult.opening contributes
Opening(w) == IF w = NoMsg THEN <<>> ELSE <<w>>

\* P.init
Init ==
    /\ \E u0 \in U.init :
          /\ uState = u0.state
          /\ sent = Opening(u0.opening)
    /\ pc = "start"
    /\ given \in Fuels /\ fuel = given
    /\ rejected = FALSE
    /\ tState = Bot
    /\ tTurn = FALSE
    /\ delivered = 0
    /\ uOut = Pending /\ tOut = Pending

\* Q.init and runHonestStart: P's opening goes first if it has one
Start ==
    /\ pc = "start"
    /\ \E t0 \in T.init :
          /\ tState' = t0.state
          /\ tTurn' = (sent # <<>>)
          /\ sent' = IF sent = <<>> THEN Opening(t0.opening) ELSE sent
    /\ pc' = IF sent' = <<>> THEN "output" ELSE "loop"
    /\ UNCHANGED <<given, fuel, rejected, uState, delivered, uOut, tOut>>

\* Faulty variant of Send: the list is returned in the order it was consed.
SendFront(w) == sent' = <<w>> \o sent

Send(w) == sent' = Append(sent, w)

\* the message in flight is the last one sent
StepResults ==
    IF tTurn THEN T.step[tState, sent[Len(sent)]] ELSE U.step[uState, sent[Len(sent)]]

Looping == pc = "loop" /\ fuel > 0

Receive(r) ==
    /\ fuel' = fuel - 1
    /\ delivered' = Len(sent)
    /\ IF tTurn THEN tState' = r.state /\ UNCHANGED uState
                ELSE uState' = r.state /\ UNCHANGED tState
    /\ UNCHANGED <<given, rejected, uOut, tOut>>

\* Faulty variant of Reply: the loop stops when a party is done, although
\* its last message is still in flight.
ReplyStopsWhenDone ==
    Looping /\ \E r \in StepResults :
        /\ r.kind = "acceptAndSend"
        /\ Receive(r)
        /\ Send(r.msg)
        /\ tTurn' = ~tTurn
        /\ pc' = IF r.done THEN "output" ELSE "loop"

\* acceptAndSend: the turn passes on, whatever `done` says
Reply ==
    Looping /\ \E r \in StepResults :
        /\ r.kind = "acceptAndSend"
        /\ Receive(r)
        /\ Send(r.msg)
        /\ tTurn' = ~tTurn
        /\ UNCHANGED pc

Completes ==
    Looping /\ \E r \in StepResults :
        /\ r.kind = "complete"
        /\ Receive(r)
        /\ pc' = "output"
        /\ UNCHANGED <<tTurn, sent>>

\* reject: the run ends with the states as they are
Rejects ==
    /\ Looping
    /\ \E r \in StepResults : r.kind = "reject"
    /\ fuel' = fuel - 1
    /\ rejected' = TRUE
    /\ pc' = "output"
    /\ UNCHANGED <<given, uState, tState, tTurn, sent, delivered, uOut, tOut>>

\* Faulty variant of OutOfFuel: the bound is tested on T's turn only.
OutOfFuelHalf ==
    /\ pc = "loop" /\ fuel = 0 /\ tTurn
    /\ pc' = "output"
    /\ UNCHANGED <<given, fuel, rejected, uState, tState, tTurn, sent, delivered, uOut, tOut>>

OutOfFuel ==
    /\ pc = "loop" /\ fuel = 0
    /\ pc' = "output"
    /\ UNCHANGED <<given, fuel, rejected, uState, tState, tTurn, sent, delivered, uOut, tOut>>

ReadOutputs ==
    /\ pc = "output"
    /\ uOut' \in U.output[uState]
    /\ tOut' \in T.output[tState]
    /\ pc' = "done"
    /\ UNCHANGED <<given, fuel, rejected, uState, tState, tTurn, sent, delivered>>

Next ==
    \/ Start
    \/ Reply
    \/ Completes
    \/ Rejects
    \/ OutOfFuel
    \/ ReadOutputs

Spec == Init /\ [][Next]_vars /\ WF_vars(Next)

-----------------------------------------------------------------------------
(* The honest run as a run of the game. *)

TLeads == Rounds % 2 = 1

\* message i is recorded by its sender at 2i-2, by its receiver at 2i-1
SenderEntry(i) == [w |-> sent[i], at |-> 2 * i - 2]
ReceiverEntry(i) == [w |-> sent[i], at |-> 2 * i - 1]

\* one side's transcript: what it sent and what it accepted
TranscriptOf(isT) ==
    LET mine(i) == SentByT(TLeads, i) <=> isT
        n == IF sent # <<>> /\ ~mine(Len(sent)) THEN delivered ELSE Len(sent)
    IN [i \in 1 .. n |-> IF mine(i) THEN SenderEntry(i) ELSE ReceiverEntry(i)]

OutputOf(P, st) == CHOOSE out \in P.output[st] : TRUE

Result ==
    [K0 |-> Join(uOut), challengeTr |-> TranscriptOf(FALSE),
     oracleTrs |-> <<TranscriptOf(TRUE)>>]

Game == INSTANCE UAKEGame WITH
    MaxSessions <- 1,
    phase <- IF pc = "done" THEN "post" ELSE "challenge",
    clock <- Len(sent) + delivered,
    challenge <- [state |-> uState, transcript |-> TranscriptOf(FALSE)],
    challengeDone <- pc = "done" \/ OutputOf(U, uState) # Pending,
    tSessions <- IF pc = "start" THEN <<>>
                 ELSE <<[state |-> tState, transcript |-> TranscriptOf(TRUE),
                         key |-> OutputOf(T, tState), revealed |-> FALSE]>>,
    b <- FALSE,
    cr <- IF pc = "done" THEN Result
          ELSE [K0 |-> Bot, challengeTr |-> <<>>, oracleTrs |-> <<>>],
    Kb <- Join(uOut),
    verdict <- "none"

\* An honest run is a run of the security game in which messages are only
\* relayed: each step of the loop is one stepT or stepChallenge query, and
\* the run never ends in a forgery - it is rejected or recognised as relayed,
\* also when a party rejects or the fuel runs out half way.
ImplementsGame == Game!Init /\ [][Game!Next]_Game!vars

\* The loop always returns (fuel is a structural bound): a party that rejects
\* or a protocol that is too long ends the run.
Terminates == <>(pc = "done")

\* With fuel rounds + 1 or more, a run in which no party rejects transfers
\* exactly `rounds` messages (Scheme.WellFormed), and both parties end with
\* the same accepted key (CorrectExp, HonestCompletionExp): one step more
\* than the messages is enough for the last `complete`.  Its transcripts
\* match: relaying every message is recognised as ping-pong with the parity
\* that `rounds % 2` gives.
HonestlyCompletes ==
    pc = "done" /\ ~rejected /\ given > Rounds =>
        /\ Len(sent) = Rounds /\ uOut \in Key /\ tOut = uOut
        /\ Matching(TLeads, TranscriptOf(TRUE), TranscriptOf(FALSE))
=============================================================================
