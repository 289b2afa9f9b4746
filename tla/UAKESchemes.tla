---------------------------- MODULE UAKESchemes ----------------------------
(***************************************************************************)
(* Schemes for model-checking UAKEGame and UAKEHonest.                     *)
(*                                                                         *)
(* Toy3 is the three-message scheme of VCVioTest's ExperimentFixtures      *)
(* (T leads).  Nonce2 is a two-message scheme (U leads) with random        *)
(* choices on both sides: U sends a challenge, T answers it with a key     *)
(* that it draws, bound to the challenge.  Both its parties keep accepting *)
(* messages after they have completed, so that only the game stops them.   *)
(* The Chain schemes have any number of messages, each a fresh bit, and    *)
(* their parties may reject any of them.                                   *)
(***************************************************************************)
EXTENDS UAKEParty

\* interleave as the source has it, by recursion over the list of pairs
RECURSIVE InterleaveRec(_, _)
InterleaveRec(ab, pairs) ==
    IF pairs = <<>> THEN <<>>
    ELSE LET h == Head(pairs)
         IN (IF ab THEN <<h[1], h[2]>> ELSE <<h[2], h[1]>>)
               \o InterleaveRec(~ab, Tail(pairs))

\* The closed form of UAKETranscript computes the same list: interleave does
\* not look at the timestamps, so one list of distinct ones of each length
\* is enough.
ASSUME InterleaveAssumption ==
    \A ab \in BOOLEAN, n \in 0 .. 7 :
        LET pairs == [k \in 1 .. n |-> <<2 * k - 1, 2 * k>>]
        IN Interleave(ab, pairs) = InterleaveRec(ab, pairs)

Deterministic(f) == [x \in DOMAIN f |-> {f[x]}]

\* toyU3, toyT3: states and messages as in the fixtures, T's states 10 and 11
Toy3State == {0, 1, 2, 10, 11}
Toy3Msg == {1, 2, 3}

Toy3U ==
    [init   |-> {[state |-> 0, opening |-> NoMsg]},
     step   |-> [x \in Toy3State \X Toy3Msg |->
                   {IF x = <<0, 1>> THEN AcceptAndSend(1, 2, FALSE)
                    ELSE IF x = <<1, 3>> THEN Complete(2)
                    ELSE Reject}],
     output |-> Deterministic([s \in Toy3State |-> IF s = 2 THEN "k" ELSE Pending])]

Toy3T ==
    [init   |-> {[state |-> 10, opening |-> 1]},
     step   |-> [x \in Toy3State \X Toy3Msg |->
                   {IF x = <<10, 2>> THEN AcceptAndSend(11, 3, TRUE) ELSE Reject}],
     output |-> Deterministic([s \in Toy3State |-> IF s = 11 THEN "k" ELSE Pending])]

Toy3Key == {"k"}

\* Nonce2: challenges c1 and c2, keys k1 and k2; an answer is <<c, k>>
Nonce2Key == {"k1", "k2"}
Nonce == {"c1", "c2"}
Nonce2Msg == (Nonce \X {"challenge"}) \cup (Nonce \X Nonce2Key)
Nonce2State == (Nonce \X {"wait"}) \cup (Nonce \X Nonce2Key) \cup {<<"idle", "wait">>}

Nonce2Out ==
    Deterministic([s \in Nonce2State |-> IF s[2] \in Nonce2Key THEN s[2] ELSE Pending])

Nonce2U ==
    [init   |-> {[state |-> <<c, "wait">>, opening |-> <<c, "challenge">>] : c \in Nonce},
     step   |-> [x \in Nonce2State \X Nonce2Msg |->
                   {IF x[1][1] = x[2][1] /\ x[2][2] \in Nonce2Key
                    THEN Complete(x[2]) ELSE Reject}],
     output |-> Nonce2Out]

Nonce2T ==
    [init   |-> {[state |-> <<"idle", "wait">>, opening |-> NoMsg]},
     step   |-> [x \in Nonce2State \X Nonce2Msg |->
                   IF x[2][2] = "challenge"
                   THEN {AcceptAndSend(<<x[2][1], k>>, <<x[2][1], k>>, TRUE) : k \in Nonce2Key}
                   ELSE {Reject}],
     output |-> Nonce2Out]

\* Chain: r messages, each a fresh bit; a party's state is the list of bits
\* exchanged so far, and the complete list is the key
ChainMsg(r) == (1 .. r) \X {0, 1}
ChainState(r) == UNION {[1 .. n -> {0, 1}] : n \in 0 .. r}
ChainKey(r) == [1 .. r -> {0, 1}]

ChainParty(r, leads) ==
    [init   |-> IF leads THEN {[state |-> <<bit>>, opening |-> <<1, bit>>] : bit \in {0, 1}}
                ELSE {[state |-> <<>>, opening |-> NoMsg]},
     step   |-> [x \in ChainState(r) \X ChainMsg(r) |->
                   LET i == x[2][1]
                       seen == Append(x[1], x[2][2])
                   IN IF i # Len(x[1]) + 1 THEN {Reject}
                      ELSE IF i = r THEN {Complete(seen)}
                      ELSE {AcceptAndSend(Append(seen, bit), <<i + 1, bit>>, i + 1 = r) :
                               bit \in {0, 1}}],
     output |-> Deterministic([s \in ChainState(r) |->
                   IF s \in ChainKey(r) THEN s ELSE Pending])]

\* a party that may also reject any message
Flaky(P) == [P EXCEPT !.step = [x \in DOMAIN P.step |-> P.step[x] \cup {Reject}]]

\* five messages, T leads, and both may reject
Flaky5Msg == ChainMsg(5)
Flaky5State == ChainState(5)
Flaky5Key == ChainKey(5)
Flaky5U == Flaky(ChainParty(5, FALSE))
Flaky5T == Flaky(ChainParty(5, TRUE))

\* The configurations of the honest runs of a scheme, for Admissible: rounds party
\* steps deliver them all.
HonestConfigs(PU, PT, rounds) ==
    LET tLeads == rounds % 2 = 1
        upto[n \in 0 .. rounds] ==
            IF n = 0 THEN {HonestStart(tLeads, u0, t0) : u0 \in PU.init, t0 \in PT.init}
            ELSE upto[n - 1] \cup UNION {HonestSteps(PU, PT, tLeads, c) : c \in upto[n - 1]}
    IN upto[rounds]
=============================================================================
