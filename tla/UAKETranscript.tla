--------------------------- MODULE UAKETranscript ---------------------------
(***************************************************************************)
(* Transcripts of the UAKE security game (AKE/UAKE/Transcript.lean): lists *)
(* of messages stamped with a global clock, and the "interleaved" matching *)
(* of the transcript of a keyed party T with the one of the challenge      *)
(* party U (Definition 3 of Dodis and Fiore 2017).                         *)
(***************************************************************************)
EXTENDS Integers, Sequences

CONSTANTS
    Msg,        \* protocol messages W
    NoMsg       \* Option.none at W

ASSUME MsgAssumption == NoMsg \notin Msg

\* an entry (w, timestamp); a transcript lists them in chronological order
Entry == [w : Msg, at : Nat]
Transcript == Seq(Entry)

\* recordOne and recordOpt return the transcript and the advanced clock
RecordOne(tr, w, clock) ==
    [tr |-> Append(tr, [w |-> w, at |-> clock]), clock |-> clock + 1]

RecordOpt(tr, w, clock) ==
    IF w = NoMsg THEN [tr |-> tr, clock |-> clock] ELSE RecordOne(tr, w, clock)

\* interleave, in closed form: the k-th pair contributes elements 2k-1 and
\* 2k, and its left half comes first in every other pair, in the first if ab
Interleave(ab, pairs) ==
    [i \in 1 .. 2 * Len(pairs) |->
        LET k == (i + 1) \div 2
        IN IF (ab <=> k % 2 = 1) <=> i % 2 = 1 THEN pairs[k][1] ELSE pairs[k][2]]

\* List.IsChain (. < .)
IsChain(s) == \A i \in 1 .. Len(s) - 1 : s[i] < s[i + 1]

\* the same messages in the same order
SameMessages(T, C) == Len(T) = Len(C) /\ \A i \in 1 .. Len(T) : T[i].w = C[i].w

\* the zip of the timestamps of transcripts of one length
ZipTimes(T, C) == [i \in 1 .. Len(T) |-> <<T[i].at, C[i].at>>]

\* Faulty variants of Matching: the timestamps, or the messages, are ignored.
MatchingMessages(oracleLeadsFirst, T, C) == SameMessages(T, C)

MatchingTimes(oracleLeadsFirst, T, C) ==
    /\ Len(T) = Len(C)
    /\ IsChain(Interleave(oracleLeadsFirst, ZipTimes(T, C)))

\* Matching: T is the transcript of a T session, C the challenge transcript
Matching(oracleLeadsFirst, T, C) ==
    /\ SameMessages(T, C)
    /\ IsChain(Interleave(oracleLeadsFirst, ZipTimes(T, C)))

\* pingPong, for a list of T transcripts
PingPong(oracleLeadsFirst, oracleTrs, C) ==
    \E i \in DOMAIN oracleTrs : Matching(oracleLeadsFirst, oracleTrs[i], C)

-----------------------------------------------------------------------------
(* What matching is meant to say. *)

Increasing(tr) == \A i, j \in DOMAIN tr : i < j => tr[i].at < tr[j].at

\* the i-th message of a run is sent by T when T leads and i is odd, or when
\* T does not lead and i is even
SentByT(tLeads, i) == tLeads <=> i % 2 = 1

\* C was relayed from and to T: each message was recorded by the party that
\* sends it before the party that receives it
Relayed(tLeads, T, C) ==
    /\ SameMessages(T, C)
    /\ \A i \in DOMAIN T : IF SentByT(tLeads, i) THEN T[i].at < C[i].at
                                                 ELSE C[i].at < T[i].at
=============================================================================
