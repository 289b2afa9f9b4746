-------------------------- MODULE ProgrammedPair --------------------------
(***************************************************************************)
(* The identical-until-bad pair of ProgrammingOracle.lean.  One            *)
(* computation is run against two handlers at once:                        *)
(*                                                                         *)
(*   withProgramming            a policy overrides uncached points         *)
(*   withCachingTrackingPolicy  the policy only raises the flag            *)
(*                                                                         *)
(* on a common initial cache and on the same fresh samples.  While both    *)
(* sides have given the same answers the computation asks both the same    *)
(* query; once an answer differs the two runs of it are on their own.      *)
(***************************************************************************)
EXTENDS QueryTracking

CONSTANTS
    Policies,       \* the policies ([Domain -> Option Answer]) considered
    MaxSideQueries  \* bound on the queries of each side

ASSUME ProgrammedPairAssumption ==
    /\ Policies \subseteq QueryCache
    /\ MaxSideQueries \in Nat

VARIABLES
    policy,         \* the programming policy; fixed
    cache0,         \* the cache both sides start from; fixed
    prog,           \* [cache, bad, view] of withProgramming
    track           \* [cache, bad, view] of withCachingTrackingPolicy

pairVars == <<policy, cache0, prog, track>>

\* state of one side: StateT (QueryCache x Bool), and the answers received
Side == [cache : QueryCache, bad : BOOLEAN, view : QueryLog]

PairTypeOK ==
    /\ policy \in Policies
    /\ cache0 \in QueryCache
    /\ prog \in Side
    /\ track \in Side

PairInit ==
    /\ policy \in Policies
    /\ cache0 \in QueryCache
    /\ prog = [cache |-> cache0, bad |-> FALSE, view |-> <<>>]
    /\ track = prog

Programmed(t) == policy[t] # NoAnswer

\* withCachingAux on a hit: both hit callbacks leave the flag alone
Hit(s, t) == [s EXCEPT !.view = LogQuery(@, t, s.cache[t])]

\* withCachingAux on a miss: install the answer, return it, take the new flag
Miss(s, t, u, bad) ==
    [cache |-> CacheQuery(s.cache, t, u), bad |-> bad, view |-> LogQuery(s.view, t, u)]

\* Faulty variants of ProgStep: the flag is forgotten; the policy is consulted
\* before the cache.
ProgStepUnflagged(s, t, u) ==
    IF s.cache[t] # NoAnswer THEN Hit(s, t)
    ELSE IF Programmed(t) THEN Miss(s, t, policy[t], s.bad)
    ELSE Miss(s, t, u, s.bad)

ProgStepPolicyFirst(s, t, u) ==
    IF Programmed(t) THEN Miss(s, t, policy[t], TRUE)
    ELSE IF s.cache[t] # NoAnswer THEN Hit(s, t)
    ELSE Miss(s, t, u, s.bad)

\* withProgramming answering t when a fresh sample would be u
ProgStep(s, t, u) ==
    IF s.cache[t] # NoAnswer THEN Hit(s, t)
    ELSE IF Programmed(t) THEN Miss(s, t, policy[t], TRUE)
    ELSE Miss(s, t, u, s.bad)

\* Faulty variant of TrackStep: a hit on a programmed point raises the flag.
TrackStepFlagOnHit(s, t, u) ==
    IF s.cache[t] # NoAnswer
    THEN [Hit(s, t) EXCEPT !.bad = @ \/ Programmed(t)]
    ELSE Miss(s, t, u, s.bad \/ Programmed(t))

\* withCachingTrackingPolicy answering t when a fresh sample would be u
TrackStep(s, t, u) ==
    IF s.cache[t] # NoAnswer THEN Hit(s, t)
    ELSE Miss(s, t, u, s.bad \/ Programmed(t))

CanAsk(s) == Len(s.view) < MaxSideQueries

\* the computation has seen the same answers on both sides
Together(t, u) ==
    /\ prog.view = track.view
    /\ CanAsk(prog)
    /\ prog' = ProgStep(prog, t, u)
    /\ track' = TrackStep(track, t, u)
    /\ UNCHANGED <<policy, cache0>>

\* the answers differ: the continuations, and with them the queries, diverge
ProgAlone(t, u) ==
    /\ prog.view # track.view
    /\ CanAsk(prog)
    /\ prog' = ProgStep(prog, t, u)
    /\ UNCHANGED <<policy, cache0, track>>

TrackAlone(t, u) ==
    /\ prog.view # track.view
    /\ CanAsk(track)
    /\ track' = TrackStep(track, t, u)
    /\ UNCHANGED <<policy, cache0, prog>>

PairNext ==
    \E t \in Domain, u \in Answer :
        \/ Together(t, u)
        \/ ProgAlone(t, u)
        \/ TrackAlone(t, u)

PairSpec == PairInit /\ [][PairNext]_pairVars

-----------------------------------------------------------------------------

\* Identical until bad: neither flag can be up on one side only, and while
\* they are down the two handlers are in the same state and have given the
\* same answers.  This is what the total-variation bound of
\* ProgramLogic/Relational/ProgrammingOracle.lean rests on.
IdenticalUntilBad ==
    /\ prog.bad = track.bad
    /\ ~prog.bad => prog = track

\* The flag is exactly "a programmed point that was not cached has been
\* asked": it is not raised by a hit, and no observable use of the policy
\* goes unflagged.
BadIffProgrammedPointAsked ==
    \A s \in {prog, track} :
        s.bad <=> \E i \in DOMAIN s.view :
                      Programmed(s.view[i].q) /\ cache0[s.view[i].q] = NoAnswer

\* Programming cannot be detected by repeating a query: each side answers as
\* one partial function that extends the initial cache, and on the programmed
\* side that function takes the policy's value wherever it was not cached.
ConsistentAnswers ==
    /\ \A s \in {prog, track} :
          /\ \A i \in DOMAIN s.view : s.cache[s.view[i].q] = s.view[i].a
          /\ \A t \in Domain : cache0[t] # NoAnswer => s.cache[t] = cache0[t]
    /\ \A i \in DOMAIN prog.view :
          LET t == prog.view[i].q
          IN Programmed(t) /\ cache0[t] = NoAnswer => prog.view[i].a = policy[t]
=============================================================================
