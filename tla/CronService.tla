----------------------------- MODULE CronService -----------------------------
(***************************************************************************)
(* The cron service of cron/service.py: a store of jobs cached in memory   *)
(* and kept in jobs.json, one timer task that sleeps until the earliest    *)
(* job and then executes the due jobs one after the other, and the API     *)
(* (add_job, remove_job, enable_job, run_job, list_jobs) that the agent's  *)
(* cron tool and the scheduler call from other tasks while a job executes. *)
(* Other processes (the `agent` command) edit the same file.               *)
(*                                                                         *)
(* A step is what a task does between two suspension points; the only      *)
(* suspension points are the timer's sleep and on_job.  Time is counted in *)
(* abstract units from 1; a next run of 0 stands for None.                 *)
(***************************************************************************)
EXTENDS Naturals

CONSTANTS
    OneShots,   \* jobs of kind "at" with delete_after_run (what the tool makes)
    Kept,       \* jobs of kind "at" without delete_after_run
    Recurring,  \* jobs of kind "every" (and "cron": the next run is after now)
    Every,      \* interval of the recurring jobs
    MaxTime,    \* bound: the clock
    MaxApi,     \* bound: API calls that change the store
    MaxRuns,    \* bound: run_job calls
    MaxExt,     \* bound: edits of jobs.json by another process
    MaxStops    \* bound: stops and crashes of the service

Jobs == OneShots \union Kept \union Recurring

ASSUME CronAssumption ==
    /\ Every \in Nat \ {0}
    /\ MaxTime \in Nat /\ MaxApi \in Nat /\ MaxRuns \in Nat
    /\ MaxExt \in Nat /\ MaxStops \in Nat
    /\ OneShots \intersect Kept = {}
    /\ Recurring \intersect (OneShots \union Kept) = {}

VARIABLES
    now,        \* _now_ms()
    store,      \* _store: the cached jobs
    disk,       \* jobs.json
    changed,    \* the file's mtime differs from _last_mtime
    running,    \* _running
    tick,       \* _timer_task: sleeping, or executing the due jobs
    manual,     \* the run_job call in progress
    \* History and bounds.
    used,       \* jobs that were ever added
    started,    \* started[j]: how often on_job was called for j
    api, runs, ext, stops

vars == <<now, store, disk, changed, running, tick, manual, used, started,
          api, runs, ext, stops>>

bounds == <<api, runs, ext, stops>>

JobStates == [present : BOOLEAN, enabled : BOOLEAN, next : Nat, at : Nat]
Absent == [present |-> FALSE, enabled |-> FALSE, next |-> 0, at |-> 0]

\* cur: the job being executed, as a set; rest: the due jobs after it; stale:
\* the cached store was replaced since the due jobs were taken from it, so
\* their CronJob objects are no longer in _store.
Ticks == [state : {"none", "sleep", "exec"}, wake : Nat,
          cur : SUBSET Jobs, rest : SUBSET Jobs, stale : BOOLEAN]
Manuals == [cur : SUBSET Jobs, stale : BOOLEAN]

NoTick == [state |-> "none", wake |-> 0, cur |-> {}, rest |-> {}, stale |-> FALSE]
NoRun == [cur |-> {}, stale |-> FALSE]

Init ==
    /\ now = 1
    /\ store = [j \in Jobs |-> Absent]
    /\ disk = store
    /\ changed = FALSE
    /\ running = FALSE
    /\ tick = NoTick
    /\ manual = NoRun
    /\ used = {}
    /\ started = [j \in Jobs |-> 0]
    /\ api = 0 /\ runs = 0 /\ ext = 0 /\ stops = 0

-----------------------------------------------------------------------------
(* Helpers of the service *)

\* Mutant: the delay is returned for a one-shot job, and a past one is missed.
ComputeNextRunDelay(j, at) == IF j \in Recurring THEN now + Every ELSE at - now

\* _compute_next_run: a one-shot job in the past has no next run.
ComputeNextRun(j, at) ==
    IF j \in Recurring THEN now + Every
    ELSE IF at > now THEN at ELSE 0

\* Mutant: the cached store is returned whatever happened to the file.
LoadCached == store

\* _load_store: the cached jobs, or those of the file if it was modified.
\* _last_mtime is only set by a save, so a modified file is loaded again by
\* every call until then.
Load == IF changed THEN disk ELSE store

\* The tick and the run_job call in progress after a _load_store: a reload
\* leaves them with jobs that are not in the store.
Restale(t) == [t EXCEPT !.stale = @ \/ changed]

\* Mutant: the store is kept in memory only.
SaveNothing(st) == store' = st /\ UNCHANGED <<disk, changed>>

\* _save_store, with _store set to st.
Save(st) == store' = st /\ disk' = st /\ changed' = FALSE

Runnable(st) == {j \in Jobs : st[j].present /\ st[j].enabled /\ st[j].next # 0}

\* Mutant: a job is due only after its time.
DueJobsStrict(st) == {j \in Runnable(st) : now > st[j].next}

\* The due jobs of _on_timer.
DueJobs(st) == {j \in Runnable(st) : now >= st[j].next}

\* _get_next_wake_ms.
NextWake(st) ==
    LET times == {st[j].next : j \in Runnable(st)}
    IN  IF times = {} THEN 0 ELSE CHOOSE t \in times : \A u \in times : t <= u

\* _arm_timer: the task there was is cancelled, even when it is executing a
\* job, and a new one sleeps until the earliest next run.
Armed(st, run) ==
    IF run /\ NextWake(st) # 0 THEN [NoTick EXCEPT !.state = "sleep", !.wake = NextWake(st)]
    ELSE NoTick

\* _recompute_next_runs.
Recomputed(st) ==
    [j \in Jobs |-> IF st[j].present /\ st[j].enabled
                    THEN [st[j] EXCEPT !.next = ComputeNextRun(j, st[j].at)]
                    ELSE st[j]]

\* The call of on_job at the start of _execute_job.
Begin(j) == started' = [started EXCEPT ![j] = @ + 1]

\* _execute_job after on_job returned or raised: a one-shot job is deleted
\* from the store (which is loaded again for that) or disabled, another job
\* gets its next run.  The last two write to the job object: without effect on
\* the store when that object has left it.
Executed(j, stale) ==
    IF j \in OneShots THEN [Load EXCEPT ![j] = Absent]
    ELSE IF stale \/ ~store[j].present THEN store
    ELSE IF j \in Kept THEN [store EXCEPT ![j].enabled = FALSE, ![j].next = 0]
    ELSE [store EXCEPT ![j].next = ComputeNextRun(j, 0)]

-----------------------------------------------------------------------------
(* Life of the service *)

\* start: load, recompute, save, arm.
Start ==
    /\ ~running
    /\ running' = TRUE
    /\ Save(Recomputed(Load))
    /\ tick' = Armed(Recomputed(Load), TRUE)
    /\ manual' = Restale(manual)
    /\ UNCHANGED <<now, used, started, bounds>>

\* stop: the timer task is cancelled; nothing is saved.
Stop ==
    /\ running
    /\ stops < MaxStops
    /\ stops' = stops + 1
    /\ running' = FALSE
    /\ tick' = NoTick
    /\ UNCHANGED <<now, store, disk, changed, manual, used, started, api, runs, ext>>

\* The process ends; the next one has nothing cached and loads the file.
Crash ==
    /\ stops < MaxStops
    /\ stops' = stops + 1
    /\ running' = FALSE
    /\ store' = disk
    /\ changed' = FALSE
    /\ tick' = NoTick
    /\ manual' = NoRun
    /\ UNCHANGED <<now, disk, used, started, api, runs, ext>>

PassTime ==
    /\ now < MaxTime
    /\ now' = now + 1
    /\ UNCHANGED <<store, disk, changed, running, tick, manual, used, started, bounds>>

-----------------------------------------------------------------------------
(* The timer task *)

\* The sleep is over: _on_timer loads the store and takes the due jobs, and
\* calls on_job for the first, or saves and arms again when there is none.
Fire ==
    LET st  == Load
        due == DueJobs(st)
    IN  /\ running
        /\ tick.state = "sleep" /\ tick.wake <= now
        /\ manual' = Restale(manual)
        /\ \/ /\ due = {}
              /\ Save(st)
              /\ tick' = Armed(st, TRUE)
              /\ UNCHANGED started
           \/ \E j \in due :
                /\ store' = st
                /\ tick' = [state |-> "exec", wake |-> 0, cur |-> {j},
                            rest |-> due \ {j}, stale |-> FALSE]
                /\ Begin(j)
                /\ UNCHANGED <<disk, changed>>
        /\ UNCHANGED <<now, running, used, bounds>>

\* on_job ends: the job's state is updated and the next due job begins; after
\* the last one _on_timer saves and arms the timer.
JobDone(j) ==
    LET st    == Executed(j, tick.stale)
        stale == tick.stale \/ (changed /\ j \in OneShots)
    IN  /\ tick.state = "exec" /\ tick.cur = {j}
        /\ manual' = IF j \in OneShots THEN Restale(manual) ELSE manual
        /\ \/ /\ tick.rest = {}
              /\ Save(st)
              /\ tick' = Armed(st, running)
              /\ UNCHANGED started
           \/ \E k \in tick.rest :
                /\ store' = st
                /\ tick' = [tick EXCEPT !.cur = {k}, !.rest = @ \ {k}, !.stale = stale]
                /\ Begin(k)
                /\ UNCHANGED <<disk, changed>>
        /\ UNCHANGED <<now, running, used, bounds>>

-----------------------------------------------------------------------------
(* The API, called from other tasks *)

\* Mutant: the timer is left alone when it is already set.
SaveAndArmOnce(st) ==
    /\ Save(st)
    /\ tick' = IF tick.state = "sleep" THEN tick ELSE Armed(st, running)
    /\ manual' = Restale(manual)
    /\ api < MaxApi
    /\ api' = api + 1
    /\ UNCHANGED <<now, running, started, runs, ext, stops>>

\* What every call that changes the store ends with.
SaveAndArm(st) ==
    /\ Save(st)
    /\ tick' = Armed(st, running)
    /\ manual' = Restale(manual)
    /\ api < MaxApi
    /\ api' = api + 1
    /\ UNCHANGED <<now, running, started, runs, ext, stops>>

NewJob(j, at) ==
    [present |-> TRUE, enabled |-> TRUE, next |-> ComputeNextRun(j, at), at |-> at]

AtTimes(j) == IF j \in Recurring THEN {0} ELSE 1 .. MaxTime

\* add_job; ids are fresh.
AddJob(j) ==
    /\ j \notin used
    /\ used' = used \union {j}
    /\ \E at \in AtTimes(j) : SaveAndArm([Load EXCEPT ![j] = NewJob(j, at)])

\* remove_job.
RemoveJob(j) ==
    /\ Load[j].present
    /\ SaveAndArm([Load EXCEPT ![j] = Absent])
    /\ UNCHANGED used

\* enable_job.
EnableJob(j, enabled) ==
    /\ Load[j].present
    /\ SaveAndArm([Load EXCEPT ![j].enabled = enabled,
                               ![j].next = IF enabled THEN ComputeNextRun(j, Load[j].at) ELSE 0])
    /\ UNCHANGED used

\* list_jobs and status, and a call for a job that is not there: the store is
\* loaded, nothing is saved and the timer is left as it is.
Reload ==
    /\ changed
    /\ store' = Load
    /\ tick' = Restale(tick)
    /\ manual' = Restale(manual)
    /\ UNCHANGED <<now, disk, changed, running, used, started, bounds>>

\* run_job, up to on_job.
RunJob(j, force) ==
    /\ manual.cur = {}
    /\ runs < MaxRuns
    /\ runs' = runs + 1
    /\ Load[j].present /\ (force \/ Load[j].enabled)
    /\ store' = Load
    /\ tick' = Restale(tick)
    /\ manual' = [cur |-> {j}, stale |-> FALSE]
    /\ Begin(j)
    /\ UNCHANGED <<now, disk, changed, running, used, api, ext, stops>>

\* run_job after on_job: update the job, save, arm.
RunJobDone(j) ==
    /\ manual.cur = {j}
    /\ Save(Executed(j, manual.stale))
    /\ tick' = Armed(Executed(j, manual.stale), running)
    /\ manual' = NoRun
    /\ UNCHANGED <<now, running, used, started, bounds>>

\* Another process adds, removes, enables or disables a job in the file.
ExternalEdit(j) ==
    /\ ext < MaxExt
    /\ ext' = ext + 1
    /\ changed' = TRUE
    /\ \/ /\ j \notin used
          /\ used' = used \union {j}
          /\ \E at \in AtTimes(j) : disk' = [disk EXCEPT ![j] = NewJob(j, at)]
       \/ /\ disk[j].present
          /\ disk' = [disk EXCEPT ![j] = Absent]
          /\ UNCHANGED used
       \/ /\ disk[j].present
          /\ \E enabled \in BOOLEAN :
                disk' = [disk EXCEPT ![j].enabled = enabled,
                           ![j].next = IF enabled THEN ComputeNextRun(j, disk[j].at) ELSE 0]
          /\ UNCHANGED used
    /\ UNCHANGED <<now, store, running, tick, manual, started, api, runs, stops>>

Next ==
    \/ Start \/ Stop \/ Crash \/ PassTime \/ Fire \/ Reload
    \/ \E j \in Jobs :
        \/ JobDone(j) \/ RunJobDone(j)
        \/ AddJob(j) \/ RemoveJob(j) \/ ExternalEdit(j)
        \/ \E b \in BOOLEAN : EnableJob(j, b) \/ RunJob(j, b)

Spec == Init /\ [][Next]_vars

\* The event loop resumes the timer task once its sleep is over, and on_job
\* returns (an agent turn ends).
Fairness == WF_vars(Fire) /\ \A j \in Jobs : WF_vars(JobDone(j))

FairSpec == Spec /\ Fairness

-----------------------------------------------------------------------------
(* Properties *)

TypeOK ==
    /\ now \in Nat
    /\ store \in [Jobs -> JobStates]
    /\ disk \in [Jobs -> JobStates]
    /\ changed \in BOOLEAN
    /\ running \in BOOLEAN
    /\ tick \in Ticks
    /\ manual \in Manuals
    /\ used \subseteq Jobs
    /\ started \in [Jobs -> Nat]
    /\ api \in 0 .. MaxApi /\ runs \in 0 .. MaxRuns
    /\ ext \in 0 .. MaxExt /\ stops \in 0 .. MaxStops

\* No missed wakeup: unless another process edited the file, a running service
\* that is not executing jobs has a timer set for its earliest job, whatever
\* API calls and run_job calls came in between (_arm_timer after every change).
TimerArmed ==
    (ext = 0 /\ running /\ tick.state # "exec") =>
        \A j \in Runnable(store) : tick.state = "sleep" /\ tick.wake <= store[j].next

\* Unless another process edited the file, it holds what the running service
\* has in memory whenever no tick is executing, also after a tick was
\* cancelled by an API call (_save_store before every _arm_timer).
StoreSaved ==
    (ext = 0 /\ running /\ tick.state # "exec") => disk = store

Due(j) == j \in Runnable(store) /\ store[j].next <= now

\* Unless another process edited the file, a job that is due is executed, if
\* it is not removed, disabled or put off, and the service does not stop,
\* first: API calls that cancel the tick do not make the
\* service forget the jobs the tick had not executed yet.
DueIsExecuted ==
    \A j \in Jobs :
        (running /\ Due(j)) ~> (ext > 0 \/ ~running \/ ~Due(j) \/ tick.cur = {j})

\* A tick begins only with jobs that are enabled in the file at that moment,
\* so an edit by another process is honoured (tests/unit/cron,
\* test_running_service_honors_external_disable).
ExternalEditsHonoured ==
    [][\A j \in Jobs :
         (tick.state = "sleep" /\ tick'.state = "exec" /\ started'[j] # started[j])
            => disk[j].present /\ disk[j].enabled]_vars

\* The cron tool offers "one-time execution": a one-shot job is not executed
\* a second time.
OneTimeExecution == \A j \in OneShots \union Kept : started[j] <= 1

=============================================================================
