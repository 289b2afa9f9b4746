----------------------------- MODULE UAKEParty -----------------------------
(***************************************************************************)
(* Protocol parties (AKE/UAKE/Party.lean): Mealy machines with a final     *)
(* output.  A party is a record of the supports of its operations once its *)
(* long-term input is fixed:                                               *)
(*   init    the [state, opening] it may start from; the opening is NoMsg  *)
(*           for waitForMsg;                                               *)
(*   step    for a state and a message, the possible results;              *)
(*   output  for a state: a key, Bot (`some none`), or Pending (`none`).   *)
(***************************************************************************)
EXTENDS UAKETranscript

CONSTANTS
    Key,            \* session keys K
    Bot,            \* the rejected key, and Option.none where K is expected
    Pending,        \* output of a party that has not completed
    State           \* private states of the parties

ASSUME KeyAssumption == Bot \notin Key /\ Pending \notin Key \cup {Bot}

Output == Key \cup {Bot, Pending}

Reject == [kind |-> "reject"]
Complete(st) == [kind |-> "complete", state |-> st]
AcceptAndSend(st, w, done) ==
    [kind |-> "acceptAndSend", state |-> st, msg |-> w, done |-> done]

StepResult ==
    [kind : {"reject"}]
      \cup [kind : {"complete"}, state : State]
      \cup [kind : {"acceptAndSend"}, state : State, msg : Msg, done : BOOLEAN]

IsParty(P) ==
    /\ P.init \subseteq [state : State, opening : Msg \cup {NoMsg}]
    /\ P.step \in [State \X Msg -> SUBSET StepResult]
    /\ P.output \in [State -> SUBSET Output]

\* the step results that change a session
Accepting(P, st, w) == {r \in P.step[st, w] : r.kind # "reject"}

Finished(r) == r.kind = "complete" \/ r.done

\* Party.OutputsOnlyAtCompletion
OutputsOnlyAtCompletion(P) ==
    /\ \A i \in P.init : P.output[i.state] \subseteq {Pending}
    /\ \A st \in State, w \in Msg : \A r \in Accepting(P, st, w) :
          \A out \in P.output[r.state] : out # Pending <=> Finished(r)

\* Option.join of an output
Join(out) == IF out \in Key THEN out ELSE Bot
-----------------------------------------------------------------------------
(* Admissible schemes (Scheme.WellFormed and Scheme.Admissible in Defs.lean, *)
(* with the convention that T speaks last).                                  *)

\* runHonestLoop between two steps: the private states, the number of messages
\* sent, and the one in flight; NoMsg when the last one has been delivered
HonestConfig ==
    [u : State, t : State, sent : Nat \ {0}, flight : Msg \cup {NoMsg}]

\* the receiver's result r, after its state was updated
Delivered(c, r) ==
    IF r.kind = "complete" THEN [c EXCEPT !.flight = NoMsg]
                           ELSE [c EXCEPT !.sent = @ + 1, !.flight = r.msg]

\* the configurations that may follow c when no party rejects
HonestSteps(PU, PT, tLeads, c) ==
    IF c.flight = NoMsg THEN {}
    ELSE IF SentByT(tLeads, c.sent)
    THEN {Delivered([c EXCEPT !.u = r.state], r) : r \in Accepting(PU, c.u, c.flight)}
    ELSE {Delivered([c EXCEPT !.t = r.state], r) : r \in Accepting(PT, c.t, c.flight)}

HonestStart(tLeads, u0, t0) ==
    [u |-> u0.state, t |-> t0.state, sent |-> 1,
     flight |-> IF tLeads THEN t0.opening ELSE u0.opening]

\* H holds every configuration of every honest run
HoldsHonestRuns(PU, PT, tLeads, H) ==
    /\ \A u0 \in PU.init, t0 \in PT.init : HonestStart(tLeads, u0, t0) \in H
    /\ \A c \in H : HonestSteps(PU, PT, tLeads, c) \subseteq H

\* what is required of a configuration: `rounds` messages are delivered when a run
\* ends, both parties then have the same key, and none has an output before the last
\* message of the run reaches it or leaves it
HonestlyCorrect(PU, PT, tLeads, rounds, c) ==
    /\ c.sent <= rounds
    /\ IF c.flight = NoMsg
       THEN c.sent = rounds /\ \E k \in Key : PU.output[c.u] = {k} /\ PT.output[c.t] = {k}
       ELSE /\ PU.output[c.u] = {Pending}
            /\ PT.output[c.t] # {}
            /\ ~SentByT(tLeads, c.sent) => PT.output[c.t] = {Pending}

\* the scheme is admissible, as the set H of configurations shows: the party that
\* the parity of rounds makes the first speaker is the one that opens
Admissible(PU, PT, rounds, H) ==
    LET tLeads == rounds % 2 = 1
    IN /\ OutputsOnlyAtCompletion(PU) /\ OutputsOnlyAtCompletion(PT)
       /\ PU.init # {} /\ PT.init # {}
       /\ \A u0 \in PU.init : u0.opening = NoMsg <=> tLeads
       /\ \A t0 \in PT.init : t0.opening # NoMsg <=> tLeads
       /\ H \subseteq HonestConfig
       /\ HoldsHonestRuns(PU, PT, tLeads, H)
       /\ \A c \in H : HonestlyCorrect(PU, PT, tLeads, rounds, c)
=============================================================================
