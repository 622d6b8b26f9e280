---------------------------- MODULE SubagentPool ----------------------------
(***************************************************************************)
(* The helpers that keep track of asynchronous work, each in a mode of its *)
(* own: the subagent pool (subagent/pool.py with the workers of            *)
(* subagent/agent.py), the calls between subagents (subagent/rpc.py), the  *)
(* task registry (core/concurrency.py) and the event bus (core/events.py). *)
(* Tasks of the first two are given up by their own timeouts.              *)
(***************************************************************************)
EXTENDS Naturals, Sequences, FiniteSets

CONSTANTS
    SpTasks,            \* subagent tasks, calls, registered tasks or listeners
    SpMost,             \* max_concurrency
    SpMaxHistory,       \* _max_history
    SpMaxCancels,       \* bound: calls of cancel and cancel_all
    SpMaxDrains         \* bound: calls of drain

ASSUME SpAssumption == SpMost \in Nat \ {0} /\ IsFiniteSet(SpTasks)

VARIABLES
    spMode,             \* "off", "pool", "rpc", "registry" or "events"
    spAt,               \* task -> "none", "queued", "running", "done"
    spQueue,            \* waiters of _semaphore, the first comes next
    spFree,             \* slots left in _semaphore
    spCancelled,        \* tasks whose CancelledError is not delivered yet
    spActive,           \* keys of _active_workers, of _pending_calls or of the registry
    spSession,          \* _session_tasks of the one session
    spResult,           \* task -> outcome: _completed_results, or what call returned
    spRan,              \* history: tasks that got a slot
    spHistory,          \* length of _history
    spWaiting,          \* tasks a drain waits for
    spCancels, spDrains,
    spHandler,          \* handlers are registered / a listener is subscribed to these patterns
    spCalled            \* events: listener -> times it was called for the event

spVars == <<spMode, spAt, spQueue, spFree, spCancelled, spActive, spSession, spResult, spRan, spHistory, spWaiting,
            spCancels, spDrains, spHandler, spCalled>>
spPoolVars == <<spQueue, spFree, spSession, spRan>>
spEventVars == <<spHandler, spCalled>>

SpInit ==
    /\ spMode = "off" /\ spAt = [t \in SpTasks |-> "none"] /\ spQueue = <<>> /\ spFree = SpMost
    /\ spCancelled = {} /\ spActive = {} /\ spSession = {} /\ spResult = [t \in SpTasks |-> "none"] /\ spRan = {}
    /\ spHistory = 0 /\ spWaiting = {} /\ spCancels = 0 /\ spDrains = 0
    /\ spHandler = [t \in SpTasks |-> {}] /\ spCalled = [t \in SpTasks |-> 0]
SpStart(m) == spMode = "off" /\ spMode' = m /\ UNCHANGED <<spAt, spQueue, spFree, spCancelled, spActive, spSession,
                spResult, spRan, spHistory, spWaiting, spCancels, spDrains, spHandler, spCalled>>

SpSet(t, at) == spAt' = [spAt EXCEPT ![t] = at]
SpAnswers(t, r) == spResult' = [spResult EXCEPT ![t] = r]
SpDone(t) == spAt[t] = "done"
SpLive == {t \in SpTasks : spAt[t] \in {"queued", "running"}}

---------------------------------------------------------------------------
(* The pool. submit registers the worker and creates its task, which waits for the semaphore. *)
SpSubmit(t, session) ==
    /\ spMode = "pool" /\ spAt[t] = "none"
    /\ SpSet(t, "queued") /\ spQueue' = Append(spQueue, t) /\ spActive' = spActive \cup {t}
    /\ spSession' = IF session THEN spSession \cup {t} ELSE spSession
    /\ UNCHANGED <<spMode, spFree, spCancelled, spResult, spRan, spHistory, spWaiting, spCancels, spDrains, spEventVars>>

\* The first waiter gets a slot, and worker.run starts the runner.
SpTakesAlways == spQueue # <<>>
SpTakes == spQueue # <<>> /\ spFree > 0
SpRun ==
    /\ spMode = "pool" /\ SpTakes /\ Head(spQueue) \notin spCancelled /\ spAt[Head(spQueue)] = "queued"
    /\ LET t == Head(spQueue) IN SpSet(t, "running") /\ spRan' = spRan \cup {t}
    /\ spQueue' = Tail(spQueue) /\ spFree' = IF spFree > 0 THEN spFree - 1 ELSE 0
    /\ UNCHANGED <<spMode, spCancelled, spActive, spSession, spResult, spHistory, spWaiting, spCancels, spDrains, spEventVars>>

\* run ends: the runner returned, raised, ran out of time, or was cancelled (which it may swallow).
SpOutcomes(t) == IF t \in spCancelled THEN {"cancelled", "completed", "failed"} ELSE {"completed", "failed", "timeout"}
SpCleansIfReturned(r) == r # "cancelled"
SpCleans(r) == TRUE
SpReleasesIfReturned(r) == r # "cancelled"
SpReleases(r) == TRUE
SpFinish(t, r) ==
    /\ spMode = "pool" /\ spAt[t] = "running" /\ r \in SpOutcomes(t)
    /\ SpSet(t, "done") /\ SpAnswers(t, r)
    /\ spActive' = (IF SpCleans(r) THEN spActive \ {t} ELSE spActive) /\ spSession' = spSession \ {t}
    /\ spFree' = (IF SpReleases(r) THEN spFree + 1 ELSE spFree) /\ spCancelled' = spCancelled \ {t}
    /\ UNCHANGED <<spMode, spQueue, spRan, spHistory, spWaiting, spCancels, spDrains, spEventVars>>

\* Cancelled before it had a slot: the task ends without reaching its finally block.
SpQueueKept(t) == spQueue
SpQueueWithout(t) ==
    LET i == CHOOSE i \in DOMAIN spQueue : spQueue[i] = t
    IN [j \in 1..(Len(spQueue) - 1) |-> spQueue[IF j < i THEN j ELSE j + 1]]
SpNeverRuns(t) ==
    /\ spMode = "pool" /\ spAt[t] = "queued" /\ t \in spCancelled
    /\ SpSet(t, "done") /\ spQueue' = SpQueueWithout(t) /\ spCancelled' = spCancelled \ {t}
    /\ UNCHANGED <<spMode, spFree, spActive, spSession, spResult, spRan, spHistory, spWaiting, spCancels, spDrains, spEventVars>>

\* cancel, cancel_session, cancel_all: every task of the set that is not done.
SpCancel(ts) ==
    /\ spMode = "pool" /\ spCancels < SpMaxCancels /\ ts \cap SpLive # {}
    /\ spCancelled' = spCancelled \cup (ts \cap SpLive) /\ spCancels' = spCancels + 1
    /\ UNCHANGED <<spMode, spAt, spActive, spResult, spHistory, spWaiting, spDrains, spPoolVars, spEventVars>>

\* drain waits until the tasks that are not done now are, or its timeout is over.
SpDrain ==
    /\ spMode = "pool" /\ spWaiting = {} /\ spDrains < SpMaxDrains /\ SpLive # {}
    /\ spWaiting' = SpLive /\ spDrains' = spDrains + 1
    /\ UNCHANGED <<spMode, spAt, spCancelled, spActive, spResult, spHistory, spCancels, spPoolVars, spEventVars>>
SpDrained(expired) ==
    /\ spMode = "pool" /\ spWaiting # {} /\ (expired \/ \A t \in spWaiting : SpDone(t)) /\ spWaiting' = {}
    /\ UNCHANGED <<spMode, spAt, spCancelled, spActive, spResult, spHistory, spCancels, spDrains, spPoolVars, spEventVars>>

---------------------------------------------------------------------------
(* RPC: call registers a future and dispatches the message to the handler of the target. *)
SpMin(a, b) == IF a < b THEN a ELSE b
SpRecorded(n) == SpMin(n + 1, SpMaxHistory)
SpCall(t, handled) ==
    /\ spMode = "rpc" /\ spAt[t] = "none" /\ spHistory' = SpRecorded(spHistory)
    /\ IF handled
       THEN SpSet(t, "running") /\ spActive' = spActive \cup {t} /\ spWaiting' = spWaiting \cup {t} /\ UNCHANGED spResult
       ELSE SpSet(t, "done") /\ SpAnswers(t, "refused") /\ UNCHANGED <<spActive, spWaiting>>
    /\ UNCHANGED <<spMode, spCancelled, spCancels, spDrains, spPoolVars, spEventVars>>

\* _safe_dispatch and respond: the handler's value or error resolves the future of its call, once, if the
\* call still waits; a handler that returns None answers nothing.
SpResolvesLate(t) == TRUE
SpResolves(t) == t \in spActive /\ spResult[t] = "none"
SpHandled(t, r) ==
    /\ spMode = "rpc" /\ t \in spWaiting /\ r \in {"payload", "error", "nothing"} /\ spWaiting' = spWaiting \ {t}
    /\ spHistory' = (IF r = "nothing" THEN spHistory ELSE SpRecorded(spHistory))
    /\ IF r # "nothing" /\ SpResolves(t) THEN SpAnswers(t, r) ELSE UNCHANGED spResult
    /\ UNCHANGED <<spMode, spAt, spCancelled, spActive, spCancels, spDrains, spPoolVars, spEventVars>>

\* The caller goes on, with the answer or a TimeoutError; finally removes the future.
SpPopsOnAnswer(t) == IF spResult[t] = "none" THEN spActive ELSE spActive \ {t}
SpPops(t) == spActive \ {t}
SpReturns(t) ==
    /\ spMode = "rpc" /\ spAt[t] = "running" /\ SpSet(t, "done") /\ spActive' = SpPops(t)
    /\ IF spResult[t] = "none" THEN SpAnswers(t, "timeout") ELSE UNCHANGED spResult
    /\ UNCHANGED <<spMode, spCancelled, spHistory, spWaiting, spCancels, spDrains, spPoolVars, spEventVars>>

\* notify and send_progress: recorded, and nobody waits for the handler.
SpNotify ==
    /\ spMode = "rpc" /\ spHistory < SpMaxHistory /\ spHistory' = SpRecorded(spHistory)
    /\ UNCHANGED <<spMode, spAt, spCancelled, spActive, spResult, spWaiting, spCancels, spDrains, spPoolVars, spEventVars>>

---------------------------------------------------------------------------
(* TaskRegistry: a registered task removes itself when it is done. *)
SpRegister(t) ==
    /\ spMode = "registry" /\ spAt[t] = "none" /\ SpSet(t, "running") /\ spActive' = spActive \cup {t}
    /\ UNCHANGED <<spMode, spCancelled, spResult, spHistory, spWaiting, spCancels, spDrains, spPoolVars, spEventVars>>
SpTaskEnds(t) ==
    /\ spMode = "registry" /\ spAt[t] = "running" /\ SpSet(t, "done")
    /\ spActive' = spActive \ {t} /\ spCancelled' = spCancelled \ {t}
    /\ SpAnswers(t, IF t \in spCancelled THEN "cancelled" ELSE "completed")
    /\ UNCHANGED <<spMode, spHistory, spWaiting, spCancels, spDrains, spPoolVars, spEventVars>>

\* drain cancels what runs, waits for it, and forgets everything, also what was registered meanwhile.
SpDrainRegistry ==
    /\ spMode = "registry" /\ spWaiting = {} /\ spDrains < SpMaxDrains /\ spActive # {}
    /\ spWaiting' = spActive /\ spCancelled' = spCancelled \cup spActive /\ spDrains' = spDrains + 1
    /\ UNCHANGED <<spMode, spAt, spActive, spResult, spHistory, spCancels, spPoolVars, spEventVars>>
SpRegistryDrained(expired) ==
    /\ spMode = "registry" /\ spWaiting # {} /\ (expired \/ \A t \in spWaiting : SpDone(t))
    /\ spWaiting' = {} /\ spActive' = {}
    /\ UNCHANGED <<spMode, spAt, spCancelled, spResult, spHistory, spCancels, spDrains, spPoolVars, spEventVars>>

---------------------------------------------------------------------------
(* The event bus: listeners subscribe to a name, a family of names or everything. *)
SpEvents == {"agent.created", "ticket.created"}
SpPatterns == {"ticket.created", "agent.*", "*"}
SpMatches(pattern, event) == pattern \in {"*", event} \/ (pattern = "agent.*" /\ event = "agent.created")
SpSubscribe(t, p) ==
    /\ spMode = "events" /\ p \notin spHandler[t] /\ spHandler' = [spHandler EXCEPT ![t] = @ \cup {p}]
    /\ UNCHANGED <<spMode, spAt, spCancelled, spActive, spResult, spHistory, spWaiting, spCancels, spDrains, spPoolVars, spCalled>>
SpUnsubscribe(t, p) ==
    /\ spMode = "events" /\ p \in spHandler[t] /\ spHandler' = [spHandler EXCEPT ![t] = @ \ {p}]
    /\ UNCHANGED <<spMode, spAt, spCancelled, spActive, spResult, spHistory, spWaiting, spCancels, spDrains, spPoolVars, spCalled>>

\* emit collects one call per matching subscription, and gathers the calls, which may raise.
SpTargets(e) == {t \in SpTasks : \E p \in spHandler[t] : SpMatches(p, e)}
SpEmit(e) ==
    /\ spMode = "events" /\ spDrains < SpMaxDrains /\ spWaiting = {} /\ SpTargets(e) # {}
    /\ spWaiting' = SpTargets(e) /\ spDrains' = spDrains + 1 /\ spActive' = SpTargets(e)
    /\ spAt' = [t \in SpTasks |-> IF t \in SpTargets(e) THEN "running" ELSE "none"]
    /\ spCalled' = [t \in SpTasks |-> 0]
    /\ UNCHANGED <<spMode, spCancelled, spResult, spHistory, spCancels, spPoolVars, spHandler>>
SpGatherStops(raises) == IF raises THEN {} ELSE spWaiting
SpGather(raises) == spWaiting
SpCallback(t, raises) ==
    /\ spMode = "events" /\ t \in spWaiting /\ SpSet(t, "done") /\ spWaiting' = SpGather(raises) \ {t}
    /\ spCalled' = [spCalled EXCEPT ![t] = @ + 1]
    /\ UNCHANGED <<spMode, spCancelled, spActive, spResult, spHistory, spCancels, spDrains, spPoolVars, spHandler>>

---------------------------------------------------------------------------
SpPoolStep ==
    \/ SpRun
    \/ \E t \in SpTasks, r \in {"completed", "failed", "timeout", "cancelled"} : SpFinish(t, r)
    \/ \E t \in SpTasks : SpNeverRuns(t)
SpNext ==
    \/ \E m \in {"pool", "rpc", "registry", "events"} : SpStart(m)
    \/ \E t \in SpTasks, b \in BOOLEAN : SpSubmit(t, b) \/ SpCall(t, b)
    \/ SpPoolStep
    \/ \E ts \in {{t} : t \in SpTasks} \cup {spSession, SpTasks} : SpCancel(ts)
    \/ SpDrain \/ SpDrainRegistry \/ SpNotify
    \/ \E b \in BOOLEAN : SpDrained(b) \/ SpRegistryDrained(b)
    \/ \E t \in SpTasks : SpReturns(t) \/ SpRegister(t) \/ SpTaskEnds(t)
    \/ \E t \in SpTasks, r \in {"payload", "error", "nothing"} : SpHandled(t, r)
    \/ \E t \in SpTasks, p \in SpPatterns : SpSubscribe(t, p) \/ SpUnsubscribe(t, p)
    \/ \E e \in SpEvents : SpEmit(e)
    \/ \E t \in SpTasks, b \in BOOLEAN : SpCallback(t, b)

\* The event loop runs what is ready; runners and calls end by their timeouts at the latest.
SpFairness ==
    /\ WF_spVars(SpPoolStep)
    /\ \A t \in SpTasks : WF_spVars(SpReturns(t)) /\ WF_spVars(\E r \in {"completed", "failed", "timeout", "cancelled"} : SpFinish(t, r))
SpSpec == SpInit /\ [][SpNext]_spVars /\ SpFairness

---------------------------------------------------------------------------
\* SubagentPool never runs more than max_concurrency workers, and a slot is free or in use, never lost, however
\* submissions, timeouts and cancellations interleave (pool.py: submit, cancel).
SpSlotsKept ==
    spMode = "pool" =>
    /\ Cardinality({t \in SpTasks : spAt[t] = "running"}) <= SpMost
    /\ spFree + Cardinality({t \in SpTasks : spAt[t] = "running"}) = SpMost

\* A worker that got a slot is, when it is done, among the completed results and no longer among the active ones
\* or those of its session, also when it was cancelled (submit's finally); and a call that is over has left no
\* future behind (call's finally).
SpCleanedUp ==
    /\ spMode = "pool" => \A t \in spRan : SpDone(t) = (spResult[t] # "none" /\ t \notin spActive \cup spSession)
    /\ spMode = "rpc" => \A t \in SpTasks : SpDone(t) => t \notin spActive

\* What a call returned is final: an answer that comes after the caller has given up changes nothing
\* (respond looks the future up and leaves a finished one alone).
SpAnswerIsFinal == [][spMode = "rpc" => \A t \in SpTasks : SpDone(t) => spResult'[t] = spResult[t]]_spVars

\* Every submitted task ends, whatever is cancelled or times out before it (the semaphore's slots come back).
SpEveryTaskEnds == \A t \in SpTasks : []<>(spMode = "pool" => spAt[t] \in {"none", "done"})

\* Once no call of an emission is left, every listener that matched was called once, though others raised
\* (gather with return_exceptions).
SpEveryListener == (spMode = "events" /\ spWaiting = {}) => \A t \in spActive : spCalled[t] = 1

\* "Return the count of actively running or queued workers" (active_count): the active workers are queued or running.
SpActiveCount == spMode = "pool" => spActive \subseteq SpLive
=============================================================================
