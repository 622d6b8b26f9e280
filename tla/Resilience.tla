----------------------------- MODULE Resilience -----------------------------
(***************************************************************************)
(* What keeps a failing or overloaded service from being called: the       *)
(* circuit breakers of the models (providers/resilience.py), the choice of *)
(* a model that respects them (providers/router.py), and the limits of the *)
(* channels (channels/resilience.py).                                      *)
(***************************************************************************)
EXTENDS Naturals, Sequences, FiniteSets

-----------------------------------------------------------------------------
(***************************************************************************)
(* providers/resilience.py and providers/litellm_client.py: the circuit    *)
(* breaker of one model, the calls and streams that run under it, its      *)
(* health tracker, and the bulkhead.  Scores are in thousandths.           *)
(***************************************************************************)
CONSTANTS
    CbCalls,        \* callers of generate, generate_stream and the bulkhead
    CbThreshold,    \* failure_threshold
    CbProbes,       \* half_open_success_threshold
    CbRecovery,     \* recovery_timeout_s
    CbWindow,       \* window_size
    BhMax,          \* max_concurrent
    CbMaxTime,      \* bound: time
    CbMaxLog        \* bound: outcomes recorded between two resets

ASSUME CbAssumption == {CbThreshold, CbProbes, CbRecovery, CbWindow, BhMax} \subseteq Nat \ {0} /\ IsFiniteSet(CbCalls)

VARIABLES
    cbOn,           \* "none" at first; then "breaker" or "bulkhead"
    cbNow,          \* time.time
    cbState,        \* _state
    cbFailures,     \* _failure_count
    cbSuccesses,    \* _success_count
    cbLastFailure,  \* _last_failure_time
    cbCall,         \* caller -> what it waits for
    cbHistory,      \* health_tracker._history
    cbConsecutive,  \* health_tracker.consecutive_failures
    bhActive,       \* active_count
    bhFree,         \* the semaphore's value
    \* History.
    cbLog           \* the outcomes since the last reset, with their times

breaker == <<cbState, cbFailures, cbSuccesses, cbLastFailure, cbHistory, cbConsecutive, cbLog>>
bulkhead == <<bhActive, bhFree>>
cbVars == <<cbOn, cbNow, cbCall, breaker, bulkhead>>

CbInit ==
    /\ cbOn = "none" /\ cbNow = CbRecovery /\ cbState = "closed" /\ cbFailures = 0 /\ cbSuccesses = 0 /\ cbLastFailure = 0
    /\ cbCall = [c \in CbCalls |-> "idle"] /\ cbHistory = <<>> /\ cbConsecutive = 0
    /\ bhActive = 0 /\ bhFree = BhMax /\ cbLog = <<>>

CbStart == cbOn = "none" /\ cbOn' \in {"breaker", "bulkhead"} /\ UNCHANGED <<cbNow, cbCall, breaker, bulkhead>>

\* The state property: an open circuit is half open once the recovery time is over.
Effective(state, last) == IF state = "open" /\ cbNow - last >= CbRecovery THEN "half_open" ELSE state

CanExecute == Effective(cbState, cbLastFailure) # "open"

-----------------------------------------------------------------------------
(* ProviderHealthTracker *)

CbLastOf(q, n) == IF Len(q) > n THEN SubSeq(q, Len(q) - n + 1, Len(q)) ELSE q

\* Mutant: the successes in a row are counted.
InARowSwapped(ok) == IF ok THEN cbConsecutive + 1 ELSE 0

InARow(ok) == IF ok THEN 0 ELSE cbConsecutive + 1

CbRecordCall(ok) ==
    /\ cbHistory' = CbLastOf(Append(cbHistory, ok), CbWindow)
    /\ cbConsecutive' = InARow(ok)
    /\ cbLog' = Append(cbLog, [ok |-> ok, at |-> cbNow])

Least(a, b) == IF a < b THEN a ELSE b
Minus(a, b) == IF a > b THEN a - b ELSE 0

ConsecutivePenalty(n) == Least(500, n * 100)

\* compute_health_score, of calls that are not slow (a p95 latency above 2 s costs up to 300 more).
HealthScore(state, history, consecutive) ==
    LET good == Cardinality({i \in DOMAIN history : history[i]})
        base == Minus((1000 * good) \div Len(history), ConsecutivePenalty(consecutive))
    IN  IF state = "open" THEN 0
        ELSE IF history = <<>> THEN IF state = "closed" THEN 1000 ELSE 500
        ELSE IF state = "half_open" THEN Least(base, 500) ELSE base

-----------------------------------------------------------------------------
(* CircuitBreaker *)

\* Mutant: a success while the circuit is closed leaves the failures counted.
ClearedNot == cbFailures

Cleared == 0

\* Mutant: one probe is enough.
RecoveredAtOnce == TRUE

Recovered == cbSuccesses + 1 >= CbProbes

CbRecordSuccess ==
    /\ CbRecordCall(TRUE)
    /\ CASE Effective(cbState, cbLastFailure) = "half_open" ->
               IF Recovered THEN cbState' = "closed" /\ cbFailures' = 0 /\ cbSuccesses' = 0
               ELSE cbSuccesses' = cbSuccesses + 1 /\ UNCHANGED <<cbState, cbFailures>>
         [] Effective(cbState, cbLastFailure) = "closed" -> cbFailures' = Cleared /\ UNCHANGED <<cbState, cbSuccesses>>
         [] OTHER -> UNCHANGED <<cbState, cbFailures, cbSuccesses>>
    /\ UNCHANGED cbLastFailure

\* Mutant: the failure that reaches the threshold does not trip.
TripsLate(n) == n > CbThreshold

Trips(n) == n >= CbThreshold

\* The time of the failure is stored before the state is read: a probe that fails finds the circuit open.
CbRecordFailure ==
    /\ CbRecordCall(FALSE)
    /\ cbLastFailure' = cbNow /\ cbFailures' = cbFailures + 1 /\ cbSuccesses' = 0
    /\ cbState' = IF Effective(cbState, cbNow) = "half_open" \/ Trips(cbFailures + 1) THEN "open" ELSE cbState

\* call_async: an open circuit refuses the call (or runs the fallback, which it does not watch).
CallBegins(c) ==
    /\ cbOn = "breaker" /\ cbCall[c] = "idle" /\ CanExecute /\ Len(cbLog) < CbMaxLog
    /\ cbCall' = [cbCall EXCEPT ![c] = "call"] /\ UNCHANGED <<cbOn, cbNow, breaker, bulkhead>>

\* generate_stream asks can_execute itself.
StreamBegins(c) ==
    /\ cbOn = "breaker" /\ cbCall[c] = "idle" /\ CanExecute /\ Len(cbLog) < CbMaxLog
    /\ cbCall' = [cbCall EXCEPT ![c] = "open"] /\ UNCHANGED <<cbOn, cbNow, breaker, bulkhead>>

\* An answer; a stream is a success when it is opened and is read after that.
CallSucceeds(c) ==
    /\ cbCall[c] \in {"call", "open"} /\ CbRecordSuccess
    /\ cbCall' = [cbCall EXCEPT ![c] = IF @ = "open" THEN "reading" ELSE "idle"]
    /\ UNCHANGED <<cbOn, cbNow, bulkhead>>

CallFails(c) ==
    /\ cbCall[c] \in {"call", "open", "reading"} /\ CbRecordFailure
    /\ cbCall' = [cbCall EXCEPT ![c] = "idle"] /\ UNCHANGED <<cbOn, cbNow, bulkhead>>

\* A stream read to its end, and a cancelled call: except Exception does not see a CancelledError.
CallEnds(c) ==
    /\ cbCall[c] \in {"call", "open", "reading"} /\ cbCall' = [cbCall EXCEPT ![c] = "idle"]
    /\ UNCHANGED <<cbOn, cbNow, breaker, bulkhead>>

\* reset, of the circuit but not of its health tracker (whose failures in a row bound the resets); calls may be under way.
CbReset ==
    /\ cbOn = "breaker" /\ cbLog # <<>> /\ cbConsecutive <= CbThreshold
    /\ cbState' = "closed" /\ cbFailures' = 0 /\ cbSuccesses' = 0 /\ cbLastFailure' = 0
    /\ cbLog' = <<>>
    /\ UNCHANGED <<cbOn, cbNow, cbCall, cbHistory, cbConsecutive, bulkhead>>

CbTick == cbOn = "breaker" /\ cbNow < CbMaxTime /\ cbNow' = cbNow + 1 /\ UNCHANGED <<cbOn, cbCall, breaker, bulkhead>>

-----------------------------------------------------------------------------
(* Bulkhead *)

\* Mutant: a full bulkhead does not refuse, its caller waits for the semaphore.
SaturatedNever == FALSE

Saturated == bhActive >= BhMax

\* acquire of a free slot does not suspend, and a full bulkhead raises before it asks for one.
Enter(c) ==
    /\ cbOn = "bulkhead" /\ cbCall[c] = "idle" /\ ~Saturated
    /\ IF bhFree = 0 THEN cbCall' = [cbCall EXCEPT ![c] = "waiting"] /\ UNCHANGED bulkhead
       ELSE cbCall' = [cbCall EXCEPT ![c] = "inside"] /\ bhFree' = bhFree - 1 /\ bhActive' = bhActive + 1
    /\ UNCHANGED <<cbOn, cbNow, breaker>>

\* __aexit__, however the body ends.
Leave(c) ==
    /\ cbCall[c] = "inside" /\ cbCall' = [cbCall EXCEPT ![c] = "idle"]
    /\ bhActive' = Minus(bhActive, 1) /\ bhFree' = bhFree + 1
    /\ UNCHANGED <<cbOn, cbNow, breaker>>

CbNext ==
    \/ CbStart \/ CbTick \/ CbReset
    \/ \E c \in CbCalls : CallBegins(c) \/ StreamBegins(c) \/ CallEnds(c) \/ Enter(c) \/ Leave(c)
    \/ \E c \in CbCalls : CallSucceeds(c) \/ CallFails(c)

CbSpec == CbInit /\ [][CbNext]_cbVars

-----------------------------------------------------------------------------
(* Properties *)

\* The variables have their types; the bulkhead never makes anybody wait, and
\* its counter and its semaphore agree with the callers inside.
CbTypeOK ==
    /\ cbState \in {"closed", "open"} /\ cbSuccesses \in 0 .. CbProbes - 1 /\ cbConsecutive \in Nat
    /\ Len(cbHistory) <= CbWindow /\ cbLastFailure <= cbNow
    /\ bhActive = Cardinality({c \in CbCalls : cbCall[c] = "inside"}) /\ bhFree = BhMax - bhActive
    /\ \A c \in CbCalls : cbCall[c] \in {"idle", "call", "open", "reading", "inside"}

\* A closed circuit trips only on a run of failures with no success between
\* them, whichever calls they belong to and in whatever order they end.
TripsOnRun ==
    [][cbState = "closed" /\ cbState' = "open" =>
        /\ Len(cbLog') >= CbThreshold
        /\ \A i \in DOMAIN cbLog' : i > Len(cbLog') - CbThreshold => ~cbLog'[i].ok]_cbVars

\* Every run of failures trips: a circuit that is closed has fewer failures
\* than the threshold at the end of its log, whatever was reset, probed and
\* cancelled before.  (A stream counts as a success when it is opened, so a
\* provider whose streams all break never has such a run.)
RunTrips ==
    Len(cbLog) >= CbThreshold /\ (\A i \in DOMAIN cbLog : i > Len(cbLog) - CbThreshold => ~cbLog[i].ok)
        => cbState = "open"

\* Apart from a reset, a circuit closes only on probes: the last outcomes are
\* successes that came a whole recovery time after the last failure.
ClosesOnProbes ==
    [][cbState = "open" /\ cbState' = "closed" /\ cbLog' # <<>> =>
        \A i \in DOMAIN cbLog' : i > Len(cbLog') - CbProbes =>
            /\ cbLog'[i].ok
            /\ \A j \in DOMAIN cbLog' : ~cbLog'[j].ok => cbLog'[i].at - cbLog'[j].at >= CbRecovery]_cbVars

\* A failure never raises the score the router ranks by, whatever leaves the
\* window for it and whatever it does to the circuit.
FailureNeverRaises ==
    [][cbLog' # <<>> /\ cbLog' # cbLog /\ ~cbLog'[Len(cbLog')].ok =>
        HealthScore(Effective(cbState', cbLastFailure'), cbHistory', cbConsecutive')
            <= HealthScore(Effective(cbState, cbLastFailure), cbHistory, cbConsecutive)]_cbVars

-----------------------------------------------------------------------------
(***************************************************************************)
(* providers/router.py and providers/capabilities.py: what a model can do, *)
(* remembered at the first look-up, and the choice of one of the candidate *)
(* models for a request.  Scores, costs and latencies are in tenths.       *)
(***************************************************************************)
CONSTANTS
    MrTenths,      \* the values a normalized score takes here
    MrFamilies     \* families of candidates

ASSUME MrAssumption == MrTenths \subseteq Nat

VARIABLES
    mrStage,       \* "off", "candidates", "choice"
    mrCands,       \* sequence of candidates: their family and what their circuit says
    mrReq,         \* the RoutingRequirement and the strategy
    mrWinner       \* index of selected_model in candidates

mrVars == <<mrStage, mrCands, mrReq, mrWinner>>

\* The families capabilities.py tells apart by the model's name.
Families == {"claude-3-5", "gpt-4o", "gemini-1.5", "deepseek-r1", "o1-", "other"}

\* _fallback_capabilities (context windows in thousands of tokens, costs by rank).
MrFallback(f) ==
    [vision |-> f \in {"claude-3-5", "gpt-4o", "gemini-1.5"}, audio |-> f = "gemini-1.5", tools |-> TRUE, json |-> TRUE,
     reasoning |-> f \in {"o1-", "deepseek-r1"}, context |-> IF f \in {"claude-3-5", "gpt-4o", "gemini-1.5"} THEN 128 ELSE 4,
     cost |-> 0]

\* get_model_info of LiteLLM, which knows of a model or not, and may know less than the name tells.
MrInfo(f) == [vision |-> FALSE, audio |-> FALSE, tools |-> TRUE, json |-> f # "other", reasoning |-> f \in {"o1-", "deepseek-r1"},
              context |-> 8, cost |-> IF f = "other" THEN 0 ELSE 2]

MrPriced(v, cost) == IF v.cost = 0 THEN cost ELSE v.cost

\* _apply_known_model_overrides
MrOverridden(f, v) ==
    CASE f = "claude-3-5"  -> [v EXCEPT !.context = 200, !.vision = TRUE, !.cost = MrPriced(v, 9)]
      [] f = "gpt-4o"      -> [v EXCEPT !.context = 128, !.vision = TRUE, !.cost = MrPriced(v, 6)]
      [] f = "gemini-1.5"  -> [v EXCEPT !.context = 1000, !.vision = TRUE, !.audio = TRUE]
      [] f = "deepseek-r1" -> [v EXCEPT !.context = 64, !.reasoning = TRUE, !.cost = MrPriced(v, 1)]
      [] OTHER             -> v

DetectCapabilities(f, known) == MrOverridden(f, IF known THEN MrInfo(f) ELSE MrFallback(f))

MrNeeds == {"none", "vision", "audio", "json", "reasoning", "context", "cheap"}

\* satisfies_requirements, for a requirement of one kind beside the default context window of 4096.
Satisfies(cap, need) ==
    /\ need \in {"vision", "audio", "json", "reasoning"} => cap[need]
    /\ cap.context >= IF need = "context" THEN 100 ELSE 4
    /\ need = "cheap" => cap.cost <= 2

MrInit == mrStage = "off" /\ mrCands = <<>> /\ mrReq = [need |-> "none", strategy |-> "balanced"] /\ mrWinner = 0

\* A candidate, with its circuit as resilience.py reports it: an open one has health 0.
MrCandidates == {c \in [family : MrFamilies, known : BOOLEAN, open : BOOLEAN, health : MrTenths, latency : MrTenths] : c.open => c.health = 0}

AddCandidate ==
    /\ mrStage \in {"off", "candidates"} /\ Len(mrCands) < 2 /\ mrStage' = "candidates"
    /\ \E c \in MrCandidates : mrCands' = Append(mrCands, c)
    /\ UNCHANGED <<mrReq, mrWinner>>

Cap(i) == DetectCapabilities(mrCands[i].family, mrCands[i].known)

\* cost_score: a lower cost is a higher score.
CostScore(i) == 10 - Cap(i).cost

\* The quality bonus, of at most 6.
MrQuality(i) == (IF Cap(i).reasoning THEN 3 ELSE 0) + IF Cap(i).context >= 150 THEN 3 ELSE Cap(i).context \div 50

\* Mutant: health is left out where the cost counts most.
MrScoreNoHealth(i, strategy) == CostScore(i)

MrScore(i, strategy) ==
    LET h == mrCands[i].health
        l == mrCands[i].latency
    IN
    CASE strategy = "cost"     -> 7 * CostScore(i) + 3 * h
      [] strategy = "latency"  -> 6 * l + 4 * h
      [] strategy = "quality"  -> 4 * h + 10 * MrQuality(i) + 2 * l
      [] OTHER                 -> 4 * h + 3 * CostScore(i) + 3 * l

Fit(need) == {i \in DOMAIN mrCands : Satisfies(Cap(i), need)}

\* Mutant: a circuit that is open is as good as another.
MrViableAny(need) == Fit(need)

\* Candidates whose circuit is not open, or all that fit if every circuit is.
MrViable(need) == LET closed == {i \in Fit(need) : ~mrCands[i].open} IN IF closed # {} THEN closed ELSE Fit(need)

\* The sort is stable: the first of the best wins.
MrBest(S, st) == {i \in S : \A j \in S : MrScore(i, st) > MrScore(j, st) \/ (MrScore(i, st) = MrScore(j, st) /\ i <= j)}

SelectOptimalModel ==
    /\ mrStage = "candidates" /\ mrStage' = "choice"
    /\ \E n \in MrNeeds, st \in {"cost", "latency", "quality", "balanced"} :
          /\ mrReq' = [need |-> n, strategy |-> st]
          /\ mrWinner' \in IF Fit(n) = {} THEN {1} ELSE MrBest(MrViable(n), st)
    /\ UNCHANGED mrCands

\* Mutant: the last model that fits is taken for the first.
MrFirstFitLast(S) == IF S = {} THEN 1 ELSE CHOOSE i \in S : \A j \in S : i >= j

MrFirstFit(S) == IF S = {} THEN 1 ELSE CHOOSE i \in S : \A j \in S : i <= j

\* The choice of LiteLLMProvider.chat: the first model that has what _analyze_requirements found, else the model asked for.
ChatSelect ==
    /\ mrStage = "candidates" /\ mrStage' = "choice"
    /\ \E n \in {"none", "vision", "reasoning", "context"} :
          mrReq' = [need |-> n, strategy |-> "first"] /\ mrWinner' = MrFirstFit(Fit(n))
    /\ UNCHANGED mrCands

MrNext == AddCandidate \/ SelectOptimalModel \/ ChatSelect

MrSpec == MrInit /\ [][MrNext]_mrVars

-----------------------------------------------------------------------------
(* Properties *)

\* A request goes to a model that cannot serve it, or to a circuit that will
\* refuse it, only if no candidate is better in that respect (chat does not
\* look at circuits), and chat leaves the model asked for only if it must.
RoutedToAFit ==
    mrStage = "choice" =>
        /\ Fit(mrReq.need) # {} => mrWinner \in Fit(mrReq.need)
        /\ mrReq.strategy # "first" /\ (\E i \in Fit(mrReq.need) : ~mrCands[i].open) => ~mrCands[mrWinner].open
        /\ mrReq.strategy = "first" /\ mrWinner > 1 => 1 \notin Fit(mrReq.need)

\* Whatever the strategy, the chosen model is not beaten in everything: no
\* candidate as fit as it is at least as healthy, as fast, as cheap and as
\* able, and healthier.
NotDominated ==
    mrStage = "choice" /\ mrReq.strategy # "first" => \A i \in MrViable(mrReq.need) :
        /\ mrCands[i].latency >= mrCands[mrWinner].latency /\ CostScore(i) >= CostScore(mrWinner)
        /\ MrQuality(i) >= MrQuality(mrWinner)
        => mrCands[i].health <= mrCands[mrWinner].health

-----------------------------------------------------------------------------
(***************************************************************************)
(* channels/resilience.py: the token bucket whose one lock all channels    *)
(* share and which is held while a caller sleeps out a 429, the reconnect  *)
(* back-off, and the delivery metrics.  Time is in ticks of 0.5 s.         *)
(***************************************************************************)
CONSTANTS
    RlCallers,     \* callers of acquire
    RlChannels,    \* channels
    RlRate,        \* tokens refilled in a tick
    RlCapacity,    \* capacity
    RlTimeout,     \* timeout, in ticks
    RlMaxTime,     \* bound: time
    RlMaxGrants,   \* bound: calls of acquire
    MaxBackoff,    \* max_delay, in units of initial_delay
    MaxRetries,    \* max_retries
    Samples        \* latencies kept (1000)

ASSUME RlAssumption ==
    /\ {RlRate, RlTimeout, RlMaxTime} \subseteq Nat /\ {RlCapacity, MaxBackoff, Samples} \subseteq Nat \ {0}
    /\ IsFiniteSet(RlCallers) /\ RlChannels # {}

VARIABLES
    rlOn,          \* which of the three classes, which share nothing, is in use; "none" at first
    rlNow,         \* time.monotonic
    rlBucket,      \* _buckets[channel]: [tokens, at], NoBucket if absent
    rlBlocked,     \* _rate_limited_until[channel]
    rlLock,        \* {the caller that holds _lock}, {} if nobody does
    rlCall,        \* caller -> [stage, channel, start, asked (for the lock), wake]
    rlReconn,      \* _failures, _states and the last delay
    rlStats,       \* deliveries so far and the sequence of latencies kept
    \* History.
    rlGrants,      \* channel -> the times of its grants
    rlCalls        \* calls so far

rlVars == <<rlOn, rlNow, rlBucket, rlBlocked, rlLock, rlCall, rlReconn, rlStats, rlGrants, rlCalls>>
limiter == <<rlNow, rlBucket, rlBlocked, rlLock, rlCall, rlGrants, rlCalls>>

NoBucket == [tokens |-> 0, at |-> RlMaxTime + 1]
Idle == [stage |-> "idle", channel |-> CHOOSE ch \in RlChannels : TRUE, start |-> 0, asked |-> 0, wake |-> 0]

RlInit ==
    /\ rlOn = "none" /\ rlNow = 0 /\ rlBucket = [ch \in RlChannels |-> NoBucket]
    /\ rlBlocked = [ch \in RlChannels |-> 0] /\ rlLock = {} /\ rlCall = [c \in RlCallers |-> Idle]
    /\ rlReconn = [failures |-> 0, state |-> "connected", delay |-> 0]
    /\ rlStats = [count |-> 0, kept |-> <<>>]
    /\ rlGrants = [ch \in RlChannels |-> <<>>] /\ rlCalls = 0

RlStart == rlOn = "none" /\ rlOn' \in {"limiter", "reconnect", "metrics"} /\ UNCHANGED <<limiter, rlReconn, rlStats>>

-----------------------------------------------------------------------------
(* acquire *)

\* A call; the loop asks for the lock.
Acquire(c, ch) ==
    /\ rlOn = "limiter" /\ rlCall[c].stage = "idle" /\ rlCalls < RlMaxGrants /\ rlCalls' = rlCalls + 1
    /\ rlCall' = [rlCall EXCEPT ![c] = [stage |-> "lock", channel |-> ch, start |-> rlNow, asked |-> rlNow, wake |-> 0]]
    /\ UNCHANGED <<rlOn, rlNow, rlBucket, rlBlocked, rlLock, rlReconn, rlStats, rlGrants>>

Refilled(b) ==
    IF b = NoBucket THEN RlCapacity
    ELSE LET t == b.tokens + (rlNow - b.at) * RlRate IN IF t < RlCapacity THEN t ELSE RlCapacity

\* Mutant: the bucket keeps the time of its last refill.
TakenOldTime(ch) == [tokens |-> Refilled(rlBucket[ch]) - 1, at |-> IF rlBucket[ch] = NoBucket THEN rlNow ELSE rlBucket[ch].at]

Taken(ch) == [tokens |-> Refilled(rlBucket[ch]) - 1, at |-> rlNow]

\* Mutant: a channel in its cool-down is not looked at.
CoolingNever(ch) == FALSE

Cooling(ch) == rlNow < rlBlocked[ch]

Ends(c) == rlCall' = [rlCall EXCEPT ![c] = Idle]
Sleeps(c, stage, until) == rlCall' = [rlCall EXCEPT ![c].stage = stage, ![c].wake = until]

\* Mutant: the whole cool-down is slept.
HeldForAll(ch) == rlBlocked[ch]

\* min(wait_needed, 0.5)
HeldFor(ch) == rlNow + 1

\* Inside the lock, which waiters get in their order.  A wait for the end of a 429 is slept with the lock held;
\* a wait that is too long for the timeout is refused at once.
Locked(c) ==
    LET ch == rlCall[c].channel IN
    /\ rlCall[c].stage = "lock" /\ rlLock = {}
    /\ \A d \in RlCallers : rlCall[d].stage = "lock" => rlCall[c].asked <= rlCall[d].asked
    /\ IF Cooling(ch)
          THEN IF rlBlocked[ch] - rlNow + (rlNow - rlCall[c].start) > RlTimeout
                  THEN Ends(c) /\ UNCHANGED <<rlLock, rlBucket, rlGrants>>
                  ELSE Sleeps(c, "held", HeldFor(ch)) /\ rlLock' = {c} /\ UNCHANGED <<rlBucket, rlGrants>>
       ELSE IF Refilled(rlBucket[ch]) >= 1
          THEN /\ rlBucket' = [rlBucket EXCEPT ![ch] = Taken(ch)]
               /\ rlGrants' = [rlGrants EXCEPT ![ch] = Append(@, rlNow)]
               /\ Ends(c) /\ UNCHANGED rlLock
       ELSE Sleeps(c, "retry", rlNow + 1) /\ UNCHANGED <<rlLock, rlBucket, rlGrants>>
    /\ UNCHANGED <<rlOn, rlNow, rlBlocked, rlReconn, rlStats, rlCalls>>

\* Mutant: the lock is kept by continue.
ReleasedNot(c) == UNCHANGED rlLock

Released(c) == rlLock' = rlLock \ {c}

\* The sleep is over; the loop tests the time and asks for the lock again.
Wakes(c) ==
    /\ rlCall[c].stage \in {"held", "retry"} /\ rlNow >= rlCall[c].wake
    /\ Released(c)
    /\ IF rlNow - rlCall[c].start < RlTimeout THEN rlCall' = [rlCall EXCEPT ![c].stage = "lock", ![c].asked = rlNow] ELSE Ends(c)
    /\ UNCHANGED <<rlOn, rlNow, rlBucket, rlBlocked, rlReconn, rlStats, rlGrants, rlCalls>>

\* report_rate_limit, for a Retry-After of d; it takes no lock.
ReportRateLimit(ch, d) ==
    /\ rlOn = "limiter" /\ rlNow + d <= RlMaxTime /\ rlBlocked[ch] = 0 /\ rlBlocked' = [rlBlocked EXCEPT ![ch] = rlNow + d]
    /\ UNCHANGED <<rlOn, rlNow, rlBucket, rlLock, rlCall, rlReconn, rlStats, rlGrants, rlCalls>>

\* Time passes when everybody waits.
RlTick ==
    /\ rlOn = "limiter" /\ rlNow < RlMaxTime /\ rlNow' = rlNow + 1
    /\ \A c \in RlCallers : rlCall[c].stage \in {"held", "retry"} => rlNow < rlCall[c].wake
    /\ rlLock = {} => \A c \in RlCallers : rlCall[c].stage # "lock"
    /\ UNCHANGED <<rlOn, rlBucket, rlBlocked, rlLock, rlCall, rlReconn, rlStats, rlGrants, rlCalls>>

-----------------------------------------------------------------------------
(* ChannelReconnectManager, ChannelMetricsTracker *)

\* initial_delay * multiplier ** n
Doubled(n) == LET delay[k \in 0 .. n] == IF k = 0 THEN 1 ELSE 2 * delay[k - 1] IN delay[n]

\* min(max_delay, initial_delay * multiplier ** (failures - 1))
BaseDelay(f) == IF Doubled(f - 1) < MaxBackoff THEN Doubled(f - 1) ELSE MaxBackoff

\* record_failure, then should_retry.
RecordFailure ==
    /\ rlOn = "reconnect" /\ rlReconn.state # "failed"
    /\ rlReconn' = [failures |-> rlReconn.failures + 1, delay |-> BaseDelay(rlReconn.failures + 1),
                    state |-> IF rlReconn.failures + 1 >= MaxRetries THEN "failed" ELSE "backoff"]
    /\ UNCHANGED <<rlOn, limiter, rlStats>>

RecordSuccess ==
    /\ rlOn = "reconnect" /\ rlReconn.failures > 0 /\ rlReconn' = [failures |-> 0, state |-> "connected", delay |-> 0]
    /\ UNCHANGED <<rlOn, limiter, rlStats>>

\* Mutant: the oldest samples are kept.
KeptFirst(q) == IF Len(q) > Samples THEN SubSeq(q, 1, Samples) ELSE q

Kept(q) == IF Len(q) > Samples THEN SubSeq(q, Len(q) - Samples + 1, Len(q)) ELSE q

\* record_delivery; a latency stands for the number of its delivery.
RecordDelivery ==
    /\ rlOn = "metrics" /\ rlStats.count < Samples + 2
    /\ rlStats' = [count |-> rlStats.count + 1, kept |-> Kept(Append(rlStats.kept, rlStats.count + 1))]
    /\ UNCHANGED <<rlOn, limiter, rlReconn>>

RlNext ==
    \/ RlStart \/ RlTick \/ RecordFailure \/ RecordSuccess \/ RecordDelivery
    \/ \E c \in RlCallers : Locked(c) \/ Wakes(c) \/ \E ch \in RlChannels : Acquire(c, ch)
    \/ \E ch \in RlChannels, d \in 1 .. RlTimeout : ReportRateLimit(ch, d)

RlSpec == RlInit /\ [][RlNext]_rlVars

-----------------------------------------------------------------------------
(* Properties *)

RlTypeOK ==
    /\ rlNow \in 0 .. RlMaxTime /\ rlLock \subseteq RlCallers
    /\ \A ch \in RlChannels : rlBucket[ch] = NoBucket \/ rlBucket[ch].tokens \in 0 .. RlCapacity
    /\ \A c \in RlCallers : rlCall[c].stage \in {"idle", "lock", "held", "retry"}
    /\ \A c \in RlCallers : rlCall[c].stage = "held" <=> rlLock = {c}
    /\ rlReconn.state \in {"connected", "backoff", "failed"} /\ rlReconn.delay \in 0 .. MaxBackoff
    /\ rlStats.kept \in Seq(1 .. rlStats.count)

\* The bucket's promise: in every stretch of time a channel gets no more grants
\* than a full bucket and what was refilled, whoever asks and in which order.
RateKept ==
    \A ch \in RlChannels : \A i, j \in DOMAIN rlGrants[ch] :
        i <= j => j - i + 1 <= RlCapacity + (rlGrants[ch][j] - rlGrants[ch][i]) * RlRate

\* No grant falls into the cool-down a 429 started, also for a caller that was
\* waiting when it was reported.
NoGrantInCooldown ==
    [][\A ch \in RlChannels : rlGrants'[ch] # rlGrants[ch] => rlNow >= rlBlocked[ch]]_rlVars

\* The delays and the samples: the cap holds after any number of failures and
\* the statistics are about the last deliveries.
LastSamples ==
    \A i \in DOMAIN rlStats.kept : rlStats.kept[i] = rlStats.count - Len(rlStats.kept) + i

\* Callers that sleep out a 429 with the lock held do not starve the callers of
\* other channels: each of them delays a caller by one nap.
LockSoon == \A c \in RlCallers : rlCall[c].stage = "lock" => rlNow - rlCall[c].asked < Cardinality(RlCallers)
=============================================================================
