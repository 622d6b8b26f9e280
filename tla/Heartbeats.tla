----------------------------- MODULE Heartbeats -----------------------------
(***************************************************************************)
(* heartbeat/: the service that wakes the agent (service.py), the engine   *)
(* that watches for processes that no longer ping (engine.py,              *)
(* isolation.py), and the restarts with a circuit breaker (recovery.py).   *)
(***************************************************************************)
EXTENDS Naturals, FiniteSets

CONSTANTS
    HbMaxStarts,        \* bound: starts of the service or of the engine
    HbMaxTriggers,      \* bound: manual triggers
    HbDeadAfter,        \* silence, in checks, after which a process is dead (3)
    HbIsolateAfter,     \* silence after which it is a zombie
    HbCallers,          \* tasks that call execute_recovery
    HbMaxAttempts,      \* max_attempts
    HbMaxCalls          \* bound: calls of execute_recovery

ASSUME HbAssumption ==
    /\ HbMaxAttempts \in Nat \ {0} /\ HbDeadAfter \in Nat \ {0}
    /\ HbMaxStarts \in Nat /\ IsFiniteSet(HbCallers)

VARIABLES
    hbMode,             \* "off", "service", "engine" or "recovery"
    hbRunning,          \* _running
    hbStarts,
    hbLoops,            \* loop -> "none", "sleep", "decide", "execute", "notify" or "ended"
    hbCancelled,        \* loops whose task is cancelled
    hbTask,             \* _task: the loop it refers to (0: None)
    hbTrigger,          \* trigger_now: "none", "decide" or "execute"
    hbTriggers,
    hbLateRun,          \* history: a loop began to execute tasks after it was stopped
    hbAge,              \* checks since the last ping of the process, capped
    hbAlive, hbIsolated, hbKilled,  \* is_alive; in _isolated; the process task was cancelled
    hbAttempts,         \* _attempts of the process
    hbTripped,          \* in _tripped_circuits
    hbCall,             \* caller -> "none", "backoff" or "restart"
    hbCalls

hbService == <<hbLoops, hbCancelled, hbTask, hbTrigger, hbTriggers, hbLateRun>>
hbEngine == <<hbAge, hbAlive, hbIsolated, hbKilled>>
hbRecovery == <<hbAttempts, hbTripped, hbCall, hbCalls>>
hbVars == <<hbMode, hbRunning, hbStarts, hbLoops, hbCancelled, hbTask, hbTrigger, hbTriggers, hbLateRun, hbAge, hbAlive, hbIsolated, hbKilled, hbAttempts, hbTripped, hbCall, hbCalls>>

HbAll == 1 .. HbMaxStarts

HbInit ==
    /\ hbMode = "off" /\ hbRunning = FALSE /\ hbStarts = 0
    /\ hbLoops = [l \in HbAll |-> "none"] /\ hbCancelled = {} /\ hbTask = 0 /\ hbTrigger = "none" /\ hbTriggers = 0 /\ hbLateRun = FALSE
    /\ hbAge = 0 /\ hbAlive = TRUE /\ hbIsolated = FALSE /\ hbKilled = FALSE
    /\ hbAttempts = 0 /\ hbTripped = FALSE /\ hbCall = [c \in HbCallers |-> "none"] /\ hbCalls = 0

HbChoose == hbMode = "off" /\ hbMode' \in {"service", "engine", "recovery"} /\ UNCHANGED <<hbRunning, hbStarts, hbService, hbEngine, hbRecovery>>

---------------------------------------------------------------------------
(* The service. *)

HbStart ==
    /\ hbMode = "service" /\ ~hbRunning /\ hbStarts < HbMaxStarts
    /\ hbRunning' = TRUE /\ hbStarts' = hbStarts + 1 /\ hbTask' = hbStarts'
    /\ hbLoops' = [hbLoops EXCEPT ![hbStarts'] = "sleep"]
    /\ UNCHANGED <<hbMode, hbCancelled, hbTrigger, hbTriggers, hbLateRun, hbEngine, hbRecovery>>

HbCancelledNot == hbCancelled
HbCancelledBy == IF hbTask = 0 THEN hbCancelled ELSE hbCancelled \cup {hbTask}
HbStop ==
    /\ hbMode = "service" /\ hbRunning /\ hbRunning' = FALSE /\ hbCancelled' = HbCancelledBy /\ hbTask' = 0
    /\ UNCHANGED <<hbMode, hbStarts, hbLoops, hbTrigger, hbTriggers, hbLateRun, hbEngine, hbRecovery>>

HbGoes(l, to) == hbLoops' = [hbLoops EXCEPT ![l] = to]
HbLoopOnly == UNCHANGED <<hbMode, hbRunning, hbStarts, hbCancelled, hbTask, hbTrigger, hbTriggers, hbEngine, hbRecovery>>

\* A cancelled loop ends at whatever it awaits.
HbLoopEnds(l) ==
    /\ hbLoops[l] \notin {"none", "ended"} /\ l \in hbCancelled /\ HbGoes(l, "ended") /\ HbLoopOnly /\ UNCHANGED hbLateRun

\* The end of a tick, by error or not: the loop goes on while the service runs.
HbAfterError(l) == "ended"
HbAfterTick(l) == IF hbRunning THEN "sleep" ELSE "ended"

\* The interval is over and HEARTBEAT.md is read: missing, empty or unreadable, or worth asking about.
HbWakes(l, content) ==
    /\ hbLoops[l] = "sleep" /\ l \notin hbCancelled
    /\ HbGoes(l, IF hbRunning /\ content THEN "decide" ELSE HbAfterTick(l)) /\ HbLoopOnly /\ UNCHANGED hbLateRun

\* _decide: skip, run, or the provider raises.
HbDecided(l, answer) ==
    /\ hbLoops[l] = "decide" /\ l \notin hbCancelled
    /\ HbGoes(l, IF answer = "run" THEN "execute" ELSE HbAfterTick(l))
    /\ hbLateRun' = (hbLateRun \/ (answer = "run" /\ ~hbRunning)) /\ HbLoopOnly
HbExecuted(l, response) ==
    /\ hbLoops[l] = "execute" /\ l \notin hbCancelled
    /\ HbGoes(l, IF response = "text" THEN "notify" ELSE HbAfterTick(l)) /\ HbLoopOnly /\ UNCHANGED hbLateRun
HbTickRaises(l) ==
    /\ hbLoops[l] \in {"decide", "execute", "notify"} /\ l \notin hbCancelled
    /\ HbGoes(l, HbAfterTick(l)) /\ HbLoopOnly /\ UNCHANGED hbLateRun
HbNotified(l) ==
    /\ hbLoops[l] = "notify" /\ l \notin hbCancelled /\ HbGoes(l, HbAfterTick(l)) /\ HbLoopOnly /\ UNCHANGED hbLateRun

\* trigger_now, which may overlap with a tick.
HbTriggerNow ==
    /\ hbMode = "service" /\ hbTrigger = "none" /\ hbTriggers < HbMaxTriggers /\ hbTrigger' = "decide" /\ hbTriggers' = hbTriggers + 1
    /\ UNCHANGED <<hbMode, hbRunning, hbStarts, hbLoops, hbCancelled, hbTask, hbLateRun, hbEngine, hbRecovery>>
HbTriggered ==
    /\ hbTrigger # "none" /\ hbTrigger' \in (IF hbTrigger = "decide" THEN {"execute", "none"} ELSE {"none"})
    /\ UNCHANGED <<hbMode, hbRunning, hbStarts, hbLoops, hbCancelled, hbTask, hbTriggers, hbLateRun, hbEngine, hbRecovery>>

---------------------------------------------------------------------------
(* The engine. *)

HbEngineStart ==
    /\ hbMode = "engine" /\ ~hbRunning /\ hbStarts < HbMaxStarts /\ hbRunning' = TRUE /\ hbStarts' = hbStarts + 1
    /\ UNCHANGED <<hbMode, hbService, hbEngine, hbRecovery>>
HbEngineStop == hbMode = "engine" /\ hbRunning /\ hbRunning' = FALSE /\ UNCHANGED <<hbMode, hbStarts, hbService, hbEngine, hbRecovery>>

HbPing ==
    /\ hbMode = "engine" /\ ~hbKilled /\ hbAge' = 0 /\ hbAlive' = TRUE
    /\ UNCHANGED <<hbMode, hbRunning, hbStarts, hbService, hbIsolated, hbKilled, hbRecovery>>

\* One round of _monitor_loop, an interval after the last one.
HbSilentSoon(age) == age >= HbDeadAfter
HbSilentNever(age) == FALSE
HbSilent(age) == age > HbDeadAfter
HbOlder(age) == IF age > HbDeadAfter + HbIsolateAfter THEN age ELSE age + 1
HbMonitor ==
    /\ hbMode = "engine" /\ hbRunning /\ hbAge' = HbOlder(hbAge)
    /\ hbAlive' = (hbAlive /\ ~HbSilent(HbOlder(hbAge)))
    /\ UNCHANGED <<hbMode, hbRunning, hbStarts, hbService, hbIsolated, hbKilled, hbRecovery>>

\* check_for_zombies, and isolate_process for what it found; release.
HbIsolate ==
    /\ hbMode = "engine" /\ ~hbIsolated /\ hbAge > HbIsolateAfter /\ hbIsolated' = TRUE /\ hbKilled' = TRUE
    /\ UNCHANGED <<hbMode, hbRunning, hbStarts, hbService, hbAge, hbAlive, hbRecovery>>
HbRelease ==
    /\ hbIsolated /\ hbIsolated' = FALSE /\ hbKilled' = FALSE
    /\ UNCHANGED <<hbMode, hbRunning, hbStarts, hbService, hbAge, hbAlive, hbRecovery>>

---------------------------------------------------------------------------
(* Recovery. *)

\* execute_recovery: refused, or the backoff is waited for; then the restart succeeds or raises.
HbCanRecoverUntripped == TRUE
HbCanRecover == ~hbTripped /\ hbAttempts < HbMaxAttempts
HbRecover(c) ==
    /\ hbMode = "recovery" /\ hbCall[c] = "none" /\ hbCalls < HbMaxCalls /\ hbCalls' = hbCalls + 1
    /\ hbCall' = [hbCall EXCEPT ![c] = IF HbCanRecover THEN "backoff" ELSE "none"]
    /\ UNCHANGED <<hbMode, hbRunning, hbStarts, hbService, hbEngine, hbAttempts, hbTripped>>
HbBackoffEnds(c) ==
    /\ hbCall[c] = "backoff" /\ hbCall' = [hbCall EXCEPT ![c] = "restart"]
    /\ UNCHANGED <<hbMode, hbRunning, hbStarts, hbService, hbEngine, hbAttempts, hbTripped, hbCalls>>

\* record_attempt
HbRecord(c, success) ==
    /\ hbCall[c] = "restart" /\ hbCall' = [hbCall EXCEPT ![c] = "none"]
    /\ hbAttempts' = (IF success THEN 0 ELSE hbAttempts + 1)
    /\ hbTripped' = (~success /\ (hbTripped \/ hbAttempts' >= HbMaxAttempts))
    /\ UNCHANGED <<hbMode, hbRunning, hbStarts, hbService, hbEngine, hbCalls>>
HbReset ==
    /\ hbMode = "recovery" /\ hbTripped /\ hbAttempts' = 0 /\ hbTripped' = FALSE
    /\ UNCHANGED <<hbMode, hbRunning, hbStarts, hbService, hbEngine, hbCall, hbCalls>>

HbLoopSteps(l) ==
    \/ HbLoopEnds(l) \/ HbTickRaises(l) \/ HbNotified(l)
    \/ \E content \in BOOLEAN : HbWakes(l, content)
    \/ \E answer \in {"run", "skip"} : HbDecided(l, answer)
    \/ \E response \in {"text", "empty"} : HbExecuted(l, response)
HbNext ==
    \/ HbChoose \/ HbStart \/ HbStop \/ HbTriggerNow \/ HbTriggered
    \/ \E l \in HbAll : HbLoopSteps(l)
    \/ HbEngineStart \/ HbEngineStop \/ HbPing \/ HbMonitor \/ HbIsolate \/ HbRelease
    \/ \E c \in HbCallers : HbRecover(c) \/ HbBackoffEnds(c) \/ \E success \in BOOLEAN : HbRecord(c, success)
    \/ HbReset

\* Timers fire, awaited calls return or raise, and the loop of the engine runs.
HbFairness == (\A l \in HbAll : WF_hbVars(HbLoopSteps(l))) /\ WF_hbVars(HbMonitor)

HbSpec == HbInit /\ [][HbNext]_hbVars /\ HbFairness

---------------------------------------------------------------------------
\* At most one loop of the service is not cancelled, and only while the service runs; once stopped, a loop that
\* waits for the decision never begins to execute the tasks (start, stop, _run_loop, _tick).
HbOneLoop ==
    /\ \A l \in HbAll : hbLoops[l] \notin {"none", "ended"} /\ l \notin hbCancelled => hbRunning /\ hbTask = l
    /\ ~hbLateRun

\* While the service runs its loop comes back to wait for the next heartbeat, whatever failed before (_run_loop, _tick).
HbKeepsBeating == []<>(hbMode = "service" /\ hbRunning => hbLoops[hbTask] = "sleep")

\* A process is dead only after more than HbDeadAfter intervals of silence, and a ping brings it back (ping, _monitor_loop).
HbDeadRightly == ~hbAlive => hbAge > HbDeadAfter

\* A process that is silent from some time on is found dead, unless the engine stops (_monitor_loop).
HbSilenceNoticed == <>[][~HbPing]_hbVars /\ <>[](hbMode = "engine" /\ hbRunning) => []<>~hbAlive

\* The breaker is tripped exactly when the failures in a row reach the limit, and only calls that were already
\* waiting add to them (can_recover, record_attempt).
HbBreakerHolds ==
    /\ hbTripped <=> hbAttempts >= HbMaxAttempts
    /\ hbAttempts < HbMaxAttempts + Cardinality(HbCallers)
=============================================================================
