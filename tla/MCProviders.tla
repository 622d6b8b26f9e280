---------------------------- MODULE MCProviders -----------------------------
(***************************************************************************)
(* The way from a turn to a model and to a tool: providers, circuit        *)
(* breakers, limits, credentials, policies and gates. A behaviour follows  *)
(* one of them, chosen by part: the parts share no state, so one run       *)
(* checks them all. The constants of each module are bounded so that the   *)
(* cases its properties are about occur.                                   *)
(***************************************************************************)
EXTENDS Resilience, LiteLLM, Terminal, OtherProviders, Access

CONSTANT Parts

VARIABLE part

all == <<part, rlVars, cbVars, mrVars, lcVars, lrVars, tmVars, cxVars, lpVars, tkVars, akVars, tgVars, prVars>>

Init ==
    /\ part \in Parts
    /\ RlInit /\ CbInit /\ MrInit /\ LcInit /\ LrInit /\ TmInit /\ CxInit /\ LpInit /\ TkInit /\ AkInit /\ TgInit /\ PrInit

Next ==
    \/ part = "ChannelResilience" /\ RlNext /\ UNCHANGED <<part, cbVars, mrVars, lcVars, lrVars, tmVars, cxVars, lpVars, tkVars, akVars, tgVars, prVars>>
    \/ part = "CircuitBreaker" /\ CbNext /\ UNCHANGED <<part, rlVars, mrVars, lcVars, lrVars, tmVars, cxVars, lpVars, tkVars, akVars, tgVars, prVars>>
    \/ part = "ModelRouter" /\ MrNext /\ UNCHANGED <<part, rlVars, cbVars, lcVars, lrVars, tmVars, cxVars, lpVars, tkVars, akVars, tgVars, prVars>>
    \/ part = "LlmChat" /\ LcNext /\ UNCHANGED <<part, rlVars, cbVars, mrVars, lrVars, tmVars, cxVars, lpVars, tkVars, akVars, tgVars, prVars>>
    \/ part = "LlmRequest" /\ LrNext /\ UNCHANGED <<part, rlVars, cbVars, mrVars, lcVars, tmVars, cxVars, lpVars, tkVars, akVars, tgVars, prVars>>
    \/ part = "Terminal" /\ TmNext /\ UNCHANGED <<part, rlVars, cbVars, mrVars, lcVars, lrVars, cxVars, lpVars, tkVars, akVars, tgVars, prVars>>
    \/ part = "CodexProvider" /\ CxNext /\ UNCHANGED <<part, rlVars, cbVars, mrVars, lcVars, lrVars, tmVars, lpVars, tkVars, akVars, tgVars, prVars>>
    \/ part = "LocalProviders" /\ LpNext /\ UNCHANGED <<part, rlVars, cbVars, mrVars, lcVars, lrVars, tmVars, cxVars, tkVars, akVars, tgVars, prVars>>
    \/ part = "TokenLifecycle" /\ TkNext /\ UNCHANGED <<part, rlVars, cbVars, mrVars, lcVars, lrVars, tmVars, cxVars, lpVars, akVars, tgVars, prVars>>
    \/ part = "ApiKeys" /\ AkNext /\ UNCHANGED <<part, rlVars, cbVars, mrVars, lcVars, lrVars, tmVars, cxVars, lpVars, tkVars, tgVars, prVars>>
    \/ part = "ToolGate" /\ TgNext /\ UNCHANGED <<part, rlVars, cbVars, mrVars, lcVars, lrVars, tmVars, cxVars, lpVars, tkVars, akVars, prVars>>
    \/ part = "PolicyRules" /\ PrNext /\ UNCHANGED <<part, rlVars, cbVars, mrVars, lcVars, lrVars, tmVars, cxVars, lpVars, tkVars, akVars, tgVars>>

Spec ==
    /\ Init /\ [][Next]_all

\* What a provider sends and returns is what was asked: each attempt has
\* fresh parameters, an error means that every attempt failed, a caller's key
\* is in the environment only during its call; a request has no empty
\* content, at most four cache marks and tool answers linked to their calls;
\* streamed pieces are assembled to whole calls (LiteLLM, Codex); one vLLM
\* server, keys resolved, failures returned as errors.
RequestsFaithful ==
    /\ LcTypeOK /\ FreshParameters /\ ErrorMeansAllFailed /\ KeyOnlyDuringCall
    /\ NoEmptyContent /\ AtMostFourMarks /\ AnswersLinked /\ CallsAssembled
    /\ CxArgumentsWhole /\ CxOutputsLinked
    /\ LpOneServer /\ LpKeyResolved /\ LpFailuresAreErrors

\* Limits hold under any interleaving: the token bucket never grants more
\* than its rate and its lock comes free soon, only the last samples count, a
\* run of failures trips the breaker, a model is routed to only if it fits
\* and none is better in every respect; a terminal session has one sandbox,
\* sees the files written and runs validated commands only.
LimitsKept ==
    /\ RlTypeOK /\ RateKept /\ LastSamples /\ LockSoon
    /\ CbTypeOK /\ RunTrips
    /\ RoutedToAFit /\ NotDominated
    /\ TmTypeOK /\ FilesSeen /\ OneSandbox /\ ValidatedOnly

\* Credentials work as long as they should and no longer: a revoked token
\* stays revoked, a family has one live refresh token and ends when an old
\* one is presented; a chain of keys has one active key, which is found for
\* its own secret only; elevations end; a turn cannot run away with tool
\* calls, approvals are by the right person, codes and assertions count once;
\* a DENY holds whatever the order of rules, the strongest policy wins, and a
\* sandboxed task resolves under its own policy.
AccessRight ==
    /\ TkRevokedStays /\ TkOneLiveRefresh /\ TkReuseEnds
    /\ AkOneOfChain /\ AkRightKey /\ AkElevationEnds
    /\ TgNoRunaway /\ TgApprovedRightly /\ TgCodeOnce /\ TgAssertedOnce
    /\ PrOrderFree /\ PrElevationEnds /\ PrStrongest /\ PrSandboxed

\* The breaker opens on a run of failures only, closes on successful probes
\* made after the recovery time only, a failure never raises a health score,
\* the bucket grants nothing during a cool-down, and a task in a network
\* sandbox never connects to a private address.
GuardsHold ==
    /\ NoGrantInCooldown
    /\ TripsOnRun /\ ClosesOnProbes /\ FailureNeverRaises
    /\ PrNoPrivate
=============================================================================
