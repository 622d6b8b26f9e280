----------------------------- MODULE Supervisor -----------------------------
(***************************************************************************)
(* ClawOSSupervisor (core/kernel.py): it starts the registered services as *)
(* tasks, restarts the ones that crash up to a limit, stops and restarts   *)
(* them on request, and turns system events into inbound messages for the  *)
(* agent.                                                                  *)
(*                                                                         *)
(* start, stop, restart_service and one pass of _supervisor_loop run under *)
(* one asyncio lock.  A step is what a coroutine does between two          *)
(* suspension points: a stop function, the end of a cancelled task and the *)
(* publication of an event are waited for, and tasks may end meanwhile.    *)
(***************************************************************************)
EXTENDS Naturals, Sequences, FiniteSets

CONSTANTS
    Services,      \* registered services
    MaxRestarts,   \* max_restarts
    Cooldown,      \* cooldown_period_s
    Diagnostics,   \* what run_diagnostics and the memory check may report
    MaxCrashes,    \* bound: tasks that end without having been cancelled
    MaxCalls,      \* bound: calls of start, stop and restart_service
    MaxHealth,     \* bound: passes of the health monitor that find something
    MaxTime        \* bound: clock

ASSUME SupervisorAssumption ==
    /\ Services # {}
    /\ MaxRestarts \in Nat /\ Cooldown \in Nat /\ MaxCrashes \in Nat
    /\ MaxCalls \in Nat /\ MaxHealth \in Nat /\ MaxTime \in Nat

Statuses == {"stopped", "running", "failed"}

Events == Services \union Diagnostics

\* Holders of _lock, with what is left to do: services that stop has not come
\* to, or that the loop has not looked at.
Holders == {"none", "stop", "stop_wait", "restart", "restart_wait", "loop", "recover"}

Locks == [op : Holders, svc : Services, todo : SUBSET Services]

VARIABLES
    status,     \* status[s]: svc["status"]
    task,       \* task[s]: svc["task"], by number; 0 is None
    restarts,   \* restarts[s]: svc["restarts"]
    lastTime,   \* lastTime[s]: svc["last_restart_time"]
    running,    \* _running, which is also whether the three loops exist
    lock,       \* holder of _lock
    live,       \* tasks that have not ended: <<service, number>>
    cancelled,  \* tasks whose cancellation was requested
    sysq,       \* the bus's system event queue
    alerts,     \* events published as inbound messages
    now,        \* time.time()
    \* History and bounds.
    created,    \* created[s]: tasks created so far
    recovered,  \* recovered[s]: times of the automatic restarts, in order
    crashes, calls, health

supVars == <<status, task, restarts, lastTime, running, lock, live, cancelled,
          sysq, alerts, now, created, recovered, crashes, calls, health>>

service == <<status, task, created, live>>
counters == <<restarts, lastTime, recovered>>
events == <<sysq, alerts, health>>

AnyService == CHOOSE s \in Services : TRUE

Free == [op |-> "none", svc |-> AnyService, todo |-> {}]

\* The epoch is long past: the first failure is never within the cool-down.
Start0 == Cooldown + 1

SupInit ==
    /\ status = [s \in Services |-> "stopped"]
    /\ task = [s \in Services |-> 0]
    /\ restarts = [s \in Services |-> 0]
    /\ lastTime = [s \in Services |-> 0]
    /\ running = FALSE
    /\ lock = Free
    /\ live = {} /\ cancelled = {}
    /\ sysq = <<>> /\ alerts = {}
    /\ now = Start0
    /\ created = [s \in Services |-> 0]
    /\ recovered = [s \in Services |-> <<>>]
    /\ crashes = 0 /\ calls = 0 /\ health = 0

-----------------------------------------------------------------------------
(* Tasks of services *)

TaskOf(s) == <<s, task[s]>>

\* task is None or task.done().
Down(s) == TaskOf(s) \notin live

\* Mutant: a task that was cancelled is not taken for a failure.
UnexpectedErrorsOnly(s) == status[s] = "running" /\ Down(s) /\ TaskOf(s) \notin cancelled

\* _supervisor_loop's test for a service that crashed or exited.
Unexpected(s) == status[s] = "running" /\ Down(s)

\* What _start_service_locked does to the services in S that are not running.
ToStart(S) == {s \in S : status[s] # "running"}

StartLocked(S) ==
    /\ status' = [s \in Services |-> IF s \in S THEN "running" ELSE status[s]]
    /\ created' = [s \in Services |-> IF s \in ToStart(S) THEN created[s] + 1 ELSE created[s]]
    /\ task' = [s \in Services |-> IF s \in ToStart(S) THEN created[s] + 1 ELSE task[s]]
    /\ live' = live \union {<<s, created[s] + 1>> : s \in ToStart(S)}

\* A service's start_fn returns or raises of its own accord; after cancel() too
\* it may end in another way than with the CancelledError.
TaskEnds(t) ==
    /\ t \in live
    /\ crashes < MaxCrashes
    /\ crashes' = crashes + 1
    /\ live' = live \ {t}
    /\ cancelled' = cancelled \ {t}
    /\ UNCHANGED <<status, task, created, counters, running, lock, events, now, calls>>

\* It ends with the CancelledError it was sent.
TaskCancelled(t) ==
    /\ t \in live /\ t \in cancelled
    /\ live' = live \ {t}
    /\ UNCHANGED <<status, task, created, cancelled, counters, running, lock, events, now, crashes, calls>>

-----------------------------------------------------------------------------
(* Calls *)

Call == lock = Free /\ calls < MaxCalls /\ calls' = calls + 1

\* start.
Start ==
    /\ Call
    /\ ~running
    /\ running' = TRUE
    /\ StartLocked(Services)
    /\ UNCHANGED <<lock, cancelled, counters, events, now, crashes>>

\* stop: cancel the loops, then take one service after the other.
Stop ==
    /\ Call
    /\ running
    /\ running' = FALSE
    /\ lock' = [lock EXCEPT !.op = "stop", !.todo = Services]
    /\ UNCHANGED <<service, cancelled, counters, events, now, crashes>>

\* stop, after the service's stop_fn has returned or raised.
StopService(s) ==
    /\ lock.op = "stop" /\ s \in lock.todo
    /\ cancelled' = IF Down(s) THEN cancelled ELSE cancelled \union {TaskOf(s)}
    /\ status' = [status EXCEPT ![s] = "stopped"]
    /\ task' = [task EXCEPT ![s] = 0]
    /\ lock' = [lock EXCEPT !.todo = @ \ {s},
                            !.op = IF lock.todo = {s} THEN "stop_wait" ELSE "stop"]
    /\ UNCHANGED <<created, live, counters, running, events, now, crashes, calls>>

\* Mutant: stop does not wait for the tasks it cancelled.
StoppedAtOnce ==
    /\ lock.op = "stop_wait"
    /\ lock' = Free
    /\ UNCHANGED <<service, cancelled, counters, running, events, now, crashes, calls>>

\* stop: the tasks it gathers have ended.
Stopped ==
    /\ lock.op = "stop_wait"
    /\ cancelled \intersect live = {}
    /\ lock' = Free
    /\ UNCHANGED <<service, cancelled, counters, running, events, now, crashes, calls>>

\* restart_service, up to the call of stop_fn.
Restart(s) ==
    /\ Call
    /\ lock' = [lock EXCEPT !.op = "restart", !.svc = s]
    /\ UNCHANGED <<service, cancelled, counters, running, events, now, crashes>>

\* The service's task is set to None and a new one is created.
Replace(s) ==
    /\ status' = [status EXCEPT ![s] = "running"]
    /\ created' = [created EXCEPT ![s] = @ + 1]
    /\ task' = [task EXCEPT ![s] = created[s] + 1]
    /\ live' = live \union {<<s, created[s] + 1>>}
    /\ lock' = Free

\* Mutant: the task that was cancelled is not waited for.
RestartStoppedAtOnce(s) ==
    /\ lock.op = "restart" /\ lock.svc = s
    /\ Replace(s)
    /\ cancelled' = IF Down(s) THEN cancelled ELSE cancelled \union {TaskOf(s)}
    /\ UNCHANGED <<counters, running, events, now, crashes, calls>>

\* _stop_service_locked after stop_fn: a task that has not ended is cancelled
\* and awaited; otherwise the service is started again.
RestartStopped(s) ==
    /\ lock.op = "restart" /\ lock.svc = s
    /\ IF Down(s)
       THEN Replace(s) /\ UNCHANGED cancelled
       ELSE /\ cancelled' = cancelled \union {TaskOf(s)}
            /\ lock' = [lock EXCEPT !.op = "restart_wait"]
            /\ UNCHANGED service
    /\ UNCHANGED <<counters, running, events, now, crashes, calls>>

\* The awaited task has ended.  Its CancelledError is not an Exception: it is
\* not suppressed, leaves restart_service and releases the lock, with the
\* service's status and task as they were.
RestartAwaited(s) ==
    /\ lock.op = "restart_wait" /\ lock.svc = s
    /\ Down(s)
    /\ IF TaskOf(s) \in cancelled
       THEN lock' = Free /\ UNCHANGED service
       ELSE Replace(s)
    /\ UNCHANGED <<cancelled, counters, running, events, now, crashes, calls>>

-----------------------------------------------------------------------------
(* _supervisor_loop *)

\* The sleep is over and the lock is taken.
LoopWakes ==
    /\ running /\ lock = Free
    /\ lock' = [lock EXCEPT !.op = "loop", !.todo = Services]
    /\ UNCHANGED <<service, cancelled, counters, running, events, now, crashes, calls>>

\* The next service is as it should be, or was stopped or given up.
LoopPasses(s) ==
    /\ lock.op = "loop" /\ s \in lock.todo
    /\ ~Unexpected(s)
    /\ lock' = IF lock.todo = {s} THEN Free ELSE [lock EXCEPT !.todo = @ \ {s}]
    /\ UNCHANGED <<service, cancelled, counters, running, events, now, crashes, calls>>

\* It is marked as failed and the event is published.
LoopFindsDown(s) ==
    /\ lock.op = "loop" /\ s \in lock.todo
    /\ Unexpected(s)
    /\ status' = [status EXCEPT ![s] = "failed"]
    /\ sysq' = Append(sysq, s)
    /\ lock' = [lock EXCEPT !.op = "recover", !.svc = s]
    /\ UNCHANGED <<task, created, live, cancelled, counters, running, alerts, health, now, crashes, calls>>

\* Mutant: the count is reset when the cool-down has just been reached.
RestartsNowEarly(s) == IF now - lastTime[s] >= Cooldown THEN 0 ELSE restarts[s]

\* The restarts that count against the limit: none, after the cool-down.
RestartsNow(s) == IF now - lastTime[s] > Cooldown THEN 0 ELSE restarts[s]

\* Mutant: one restart more than the limit.
MayRestartOnceMore(s) == RestartsNow(s) <= MaxRestarts

MayRestart(s) == RestartsNow(s) < MaxRestarts

\* The recovery that follows the event: restart the service, unless it was
\* restarted too often, and go on to the next.
LoopRecovers(s) ==
    /\ lock.op = "recover" /\ lock.svc = s
    /\ lock' = IF lock.todo = {s} THEN Free ELSE [lock EXCEPT !.op = "loop", !.todo = @ \ {s}]
    /\ IF MayRestart(s)
       THEN /\ restarts' = [restarts EXCEPT ![s] = RestartsNow(s) + 1]
            /\ lastTime' = [lastTime EXCEPT ![s] = now]
            /\ recovered' = [recovered EXCEPT ![s] = Append(@, now)]
            /\ StartLocked({s})
       ELSE /\ restarts' = [restarts EXCEPT ![s] = RestartsNow(s)]
            /\ UNCHANGED <<lastTime, recovered, service>>
    /\ UNCHANGED <<cancelled, running, events, now, crashes, calls>>

-----------------------------------------------------------------------------
(* The other loops, and time *)

\* _event_listener_loop: every event of this system is a warning or critical,
\* and becomes an inbound message of the channel "system".
Listen ==
    /\ running
    /\ sysq # <<>>
    /\ sysq' = Tail(sysq)
    /\ alerts' = alerts \union {Head(sysq)}
    /\ UNCHANGED <<service, cancelled, counters, running, lock, health, now, crashes, calls>>

\* _health_monitor_loop: what is wrong is published, one event after the other.
HealthCheck(d) ==
    /\ running
    /\ health < MaxHealth
    /\ health' = health + 1
    /\ sysq' = Append(sysq, d)
    /\ UNCHANGED <<service, cancelled, counters, running, lock, alerts, now, crashes, calls>>

Tick ==
    /\ now < MaxTime
    /\ now' = now + 1
    /\ UNCHANGED <<service, cancelled, counters, running, lock, events, crashes, calls>>

SupNext ==
    \/ Start \/ Stop \/ Stopped \/ LoopWakes \/ Listen \/ Tick
    \/ \E s \in Services :
        \/ StopService(s)
        \/ Restart(s) \/ RestartStopped(s) \/ RestartAwaited(s)
        \/ LoopPasses(s) \/ LoopFindsDown(s) \/ LoopRecovers(s)
    \/ \E t \in live : TaskEnds(t) \/ TaskCancelled(t)
    \/ \E d \in Diagnostics : HealthCheck(d)

\* Stop functions return, a cancelled task ends, the loop's sleep ends and the
\* listener keeps consuming.
SupFairness ==
    /\ WF_supVars(LoopWakes)
    /\ WF_supVars(Stopped) /\ WF_supVars(Listen)
    /\ \A s \in Services :
        /\ WF_supVars(StopService(s)) /\ WF_supVars(RestartStopped(s)) /\ WF_supVars(RestartAwaited(s))
        /\ WF_supVars(LoopPasses(s) \/ LoopFindsDown(s)) /\ WF_supVars(LoopRecovers(s))
    /\ WF_supVars(\E t \in live : TaskCancelled(t))

SupSpec == SupInit /\ [][SupNext]_supVars /\ SupFairness

-----------------------------------------------------------------------------
(* Properties *)

SupTypeOK ==
    /\ status \in [Services -> Statuses]
    /\ task \in [Services -> Nat]
    /\ restarts \in [Services -> 0 .. MaxRestarts]
    /\ lastTime \in [Services -> Nat]
    /\ running \in BOOLEAN
    /\ lock \in Locks
    /\ live \subseteq Services \X Nat
    /\ cancelled \subseteq Services \X Nat
    /\ sysq \in Seq(Events)
    /\ alerts \subseteq Events
    /\ now \in Nat
    /\ created \in [Services -> Nat]
    /\ recovered \in [Services -> Seq(Nat)]
    /\ crashes \in Nat /\ calls \in Nat /\ health \in Nat

\* A service never runs twice: a live task is the one its record names, or one
\* that stop has cancelled and waits for before it gives up the lock.  So no
\* interleaving of crashes, automatic and requested restarts and stop loses
\* track of a task or starts a second one next to it.
OneTask ==
    \A t \in live :
        \/ t = TaskOf(t[1])
        \/ t \in cancelled /\ lock.op \in {"stop", "stop_wait"}

\* A crash loop is cut: however its crashes, requested restarts and the
\* cool-down fall, a service is not restarted automatically more than
\* max_restarts times within one cool-down period.
CrashLoopCut ==
    \A s \in Services : \A i \in DOMAIN recovered[s] :
        i + MaxRestarts \in DOMAIN recovered[s] =>
            recovered[s][i + MaxRestarts] - recovered[s][i] > Cooldown

\* When stop returns, no service is left running ("Stop the supervisor and all
\* managed services").
StopLeavesNone ==
    [][(lock.op = "stop_wait" /\ lock'.op = "none") =>
          live' = {} /\ \A s \in Services : status'[s] = "stopped"]_supVars

\* A service that went down is not forgotten, also when it was taken down by a
\* restart_service call that did not bring it up again: as long as the
\* supervisor runs, the agent is told of it.
CrashReported ==
    \A s \in Services :
        []<>(running => (s \in alerts \/ (status[s] = "running" /\ ~Down(s))))

=============================================================================
