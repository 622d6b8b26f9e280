--------------------------- MODULE CronServiceProofs ---------------------------
(***************************************************************************)
(* Proofs about CronService for every set of jobs, every interval and any  *)
(* number of API calls, edits by other processes, stops and crashes: no    *)
(* wake-up is missed, the file is current, and a tick begins only with     *)
(* jobs that the file has enabled.                                         *)
(***************************************************************************)
EXTENDS CronService, WellFoundedInduction, TLAPS

\* Only an edit by another process makes the cached store out of date.
ChangedByOthers == changed => ext # 0

\* A timer that sleeps was set right after a save: until somebody else changes
\* the file, it has what the service has in memory.
SleepsSaved == tick.state = "sleep" => changed \/ disk = store

\* The inductive invariant.
IInv ==
    /\ TypeOK
    /\ ChangedByOthers
    /\ SleepsSaved
    /\ StoreSaved
    /\ TimerArmed

-----------------------------------------------------------------------------
(* The helpers of the service *)

\* A set of times that is not empty has an earliest one.
LEMMA EarliestExists ==
  ASSUME NEW T \in SUBSET Nat, T # {}
  PROVE  \E t \in T : \A u \in T : t <= u
  <1> DEFINE R == {ss \in Nat \X Nat : ss[1] < ss[2]}
  <1>1. IsWellFoundedOn(R, Nat)
    BY NatLessThanWellFounded DEF OpToRel
  <1> HIDE DEF R
  <1>2. PICK x \in T : \A y \in T : ~(<<y, x>> \in R)
    BY <1>1, WFMin
  <1>3. ASSUME NEW u \in T PROVE x <= u
    <2>1. u \in Nat /\ x \in Nat /\ <<u, x>> \notin R
      BY <1>2
    <2>2. ~(u < x)
      BY <2>1, Zenon DEF R
    <2> QED BY <2>1, <2>2
  <1> QED BY <1>3

\* _get_next_wake_ms returns the earliest next run of a runnable job.
LEMMA NextWakeFacts ==
  ASSUME NEW st \in [Jobs -> JobStates]
  PROVE  /\ NextWake(st) \in Nat
         /\ \A j \in Runnable(st) : NextWake(st) # 0 /\ NextWake(st) <= st[j].next
  <1> DEFINE times == {st[j].next : j \in Runnable(st)}
  <1>1. \A j \in Runnable(st) : st[j].next \in Nat \ {0}
    BY DEF Runnable, JobStates
  <1>2. times \subseteq Nat \ {0}
    BY <1>1
  <1>3. CASE times = {}
    <2>1. NextWake(st) = 0
      BY <1>3 DEF NextWake
    <2>2. Runnable(st) = {}
      BY <1>3
    <2> QED BY <2>1, <2>2
  <1>4. CASE times # {}
    <2>1. \E t \in times : \A u \in times : t <= u
      BY <1>2, <1>4, EarliestExists
    <2>2. NextWake(st) = CHOOSE t \in times : \A u \in times : t <= u
      BY <1>4 DEF NextWake
    <2>3. NextWake(st) \in times /\ \A u \in times : NextWake(st) <= u
      <3> HIDE DEF times
      <3> QED BY <2>1, <2>2
    <2> QED BY <1>2, <2>3
  <1> QED BY <1>3, <1>4

\* _arm_timer sets a timer that is early enough for every job, or none when the
\* service does not run.
LEMMA ArmedFacts ==
  ASSUME NEW st \in [Jobs -> JobStates], NEW run \in BOOLEAN
  PROVE  /\ Armed(st, run) \in Ticks
         /\ Armed(st, run).state # "exec"
         /\ run => \A j \in Runnable(st) :
                      Armed(st, run).state = "sleep" /\ Armed(st, run).wake <= st[j].next
  <1>1. NextWake(st) \in Nat
    BY NextWakeFacts
  <1>2. CASE run /\ NextWake(st) # 0
    <2>1. Armed(st, run) = [state |-> "sleep", wake |-> NextWake(st), cur |-> {},
                            rest |-> {}, stale |-> FALSE]
      BY <1>2 DEF Armed, NoTick
    <2> HIDE DEF Armed
    <2> QED BY <1>1, <2>1, NextWakeFacts DEF Ticks
  <1>3. CASE ~(run /\ NextWake(st) # 0)
    <2>1. Armed(st, run) = [state |-> "none", wake |-> 0, cur |-> {},
                            rest |-> {}, stale |-> FALSE]
      BY <1>3 DEF Armed, NoTick
    <2>2. run => Runnable(st) = {}
      BY <1>3, NextWakeFacts
    <2> QED BY <2>1, <2>2 DEF Ticks
  <1> QED BY <1>2, <1>3

\* A next run is a time (0 stands for none).
LEMMA ComputeNextRunType ==
  ASSUME TypeOK, NEW j \in Jobs, NEW at \in Nat
  PROVE  ComputeNextRun(j, at) \in Nat
  BY CronAssumption DEF TypeOK, ComputeNextRun

\* _load_store returns a well-formed store.
LEMMA LoadType ==
  ASSUME TypeOK
  PROVE  Load \in [Jobs -> JobStates]
  BY DEF TypeOK, Load

\* Rewriting the state of one job keeps the store well-formed.
LEMMA JobUpdate ==
  ASSUME TypeOK, NEW st \in [Jobs -> JobStates], NEW j \in Jobs, NEW b \in BOOLEAN,
         NEW n \in Nat
  PROVE  /\ [st EXCEPT ![j] = Absent] \in [Jobs -> JobStates]
         /\ [st EXCEPT ![j].next = n] \in [Jobs -> JobStates]
         /\ [st EXCEPT ![j].enabled = b, ![j].next = n] \in [Jobs -> JobStates]
  <1>1. Absent \in JobStates
    BY DEF Absent, JobStates
  <1>2. /\ [st[j] EXCEPT !.next = n] \in JobStates
        /\ [st[j] EXCEPT !.enabled = b, !.next = n] \in JobStates
    BY DEF JobStates
  <1>3. [st EXCEPT ![j].next = n] = [st EXCEPT ![j] = [st[j] EXCEPT !.next = n]]
    OBVIOUS
  <1>4. [st EXCEPT ![j].enabled = b, ![j].next = n]
          = [st EXCEPT ![j] = [st[j] EXCEPT !.enabled = b, !.next = n]]
    OBVIOUS
  <1> QED BY <1>1, <1>2, <1>3, <1>4

\* What _execute_job leaves is a store.
LEMMA ExecutedType ==
  ASSUME TypeOK, NEW j \in Jobs, NEW stale
  PROVE  Executed(j, stale) \in [Jobs -> JobStates]
  <1>1. ComputeNextRun(j, 0) \in Nat /\ FALSE \in BOOLEAN /\ 0 \in Nat
    BY ComputeNextRunType
  <1>2. Load \in [Jobs -> JobStates] /\ store \in [Jobs -> JobStates]
    BY LoadType DEF TypeOK
  <1>3. /\ [Load EXCEPT ![j] = Absent] \in [Jobs -> JobStates]
        /\ [store EXCEPT ![j].next = ComputeNextRun(j, 0)] \in [Jobs -> JobStates]
        /\ [store EXCEPT ![j].enabled = FALSE, ![j].next = 0] \in [Jobs -> JobStates]
    BY <1>1, <1>2, JobUpdate
  <1> QED BY <1>2, <1>3 DEF Executed

\* _recompute_next_runs keeps the store well-formed.
LEMMA RecomputedType ==
  ASSUME TypeOK, NEW st \in [Jobs -> JobStates]
  PROVE  Recomputed(st) \in [Jobs -> JobStates]
  <1>1. ASSUME NEW j \in Jobs
        PROVE  [st[j] EXCEPT !.next = ComputeNextRun(j, st[j].at)] \in JobStates
    <2>1. st[j] \in JobStates /\ st[j].at \in Nat
      BY DEF JobStates
    <2>2. ComputeNextRun(j, st[j].at) \in Nat
      BY <2>1, ComputeNextRunType
    <2> QED BY <2>1, <2>2 DEF JobStates
  <1> QED BY <1>1 DEF Recomputed

-----------------------------------------------------------------------------
(* Every action keeps the invariant *)

\* Saving a store and arming the timer for it establishes what the invariant
\* says of the file and of the timer.
LEMMA SavedAndArmed ==
  ASSUME NEW st \in [Jobs -> JobStates], Save(st), running' \in BOOLEAN,
         tick' = Armed(st, running')
  PROVE  /\ store' \in [Jobs -> JobStates] /\ disk' \in [Jobs -> JobStates]
         /\ changed' = FALSE /\ tick' \in Ticks /\ tick'.state # "exec"
         /\ ChangedByOthers' /\ SleepsSaved' /\ StoreSaved' /\ TimerArmed'
  <1>1. store' = st /\ disk' = st /\ changed' = FALSE
    BY DEF Save
  <1>2. /\ tick' \in Ticks /\ tick'.state # "exec"
        /\ running' => \A j \in Runnable(st) : tick'.state = "sleep" /\ tick'.wake <= st[j].next
    BY ArmedFacts
  <1>3. Runnable(store)' = Runnable(st)
    BY <1>1 DEF Runnable
  <1>4. TimerArmed'
    BY <1>1, <1>2, <1>3 DEF TimerArmed
  <1> QED BY <1>1, <1>2, <1>4 DEF ChangedByOthers, SleepsSaved, StoreSaved

\* A reload changes what a tick holds only by making it stale.
LEMMA RestaleType ==
  ASSUME TypeOK
  PROVE  /\ Restale(manual) \in Manuals
         /\ Restale(tick) \in Ticks
         /\ Restale(tick).state = tick.state /\ Restale(tick).wake = tick.wake
  BY DEF TypeOK, Restale, Manuals, Ticks

\* While nobody else has edited the file, _load_store returns the cached store.
LEMMA LoadUnedited ==
  ASSUME TypeOK, ChangedByOthers, ext = 0
  PROVE  Load = store /\ ~changed
  BY DEF TypeOK, ChangedByOthers, Load

\* start loads, recomputes, saves and arms.
LEMMA StartStep ==
  ASSUME IInv, Start
  PROVE  IInv'
  <1> DEFINE st == Recomputed(Load)
  <1>1. TypeOK /\ st \in [Jobs -> JobStates]
    BY LoadType, RecomputedType DEF IInv
  <1>2. Save(st) /\ running' = TRUE /\ tick' = Armed(st, running') /\ manual' = Restale(manual)
    BY DEF Start
  <1> HIDE DEF st
  <1>3. /\ store' \in [Jobs -> JobStates] /\ disk' \in [Jobs -> JobStates]
        /\ changed' = FALSE /\ tick' \in Ticks
        /\ ChangedByOthers' /\ SleepsSaved' /\ StoreSaved' /\ TimerArmed'
    BY <1>1, <1>2, SavedAndArmed
  <1>4. manual' \in Manuals
    BY <1>1, <1>2, RestaleType
  <1>5. TypeOK'
    BY <1>1, <1>2, <1>3, <1>4 DEF Start, bounds, TypeOK
  <1> QED BY <1>3, <1>5 DEF IInv

\* No tick and no run_job call are well-formed.
LEMMA NothingType == NoTick \in Ticks /\ NoRun \in Manuals /\ NoTick.state = "none"
  BY DEF NoTick, NoRun, Ticks, Manuals

\* stop cancels the timer; TimerArmed speaks of a running service only.
LEMMA StopStep ==
  ASSUME IInv, Stop
  PROVE  IInv'
  <1>1. TypeOK'
    <2>1. stops' \in 0 .. MaxStops
      BY CronAssumption DEF IInv, TypeOK, Stop
    <2> QED BY <2>1, NothingType DEF IInv, TypeOK, Stop
  <1>2. running' = FALSE /\ tick'.state = "none" /\ UNCHANGED <<changed, ext>>
    BY NothingType DEF Stop
  <1> QED BY <1>1, <1>2 DEF IInv, ChangedByOthers, SleepsSaved, StoreSaved, TimerArmed

\* A crash leaves the file alone.
LEMMA CrashStep ==
  ASSUME IInv, Crash
  PROVE  IInv'
  <1>1. TypeOK'
    <2>1. stops' \in 0 .. MaxStops
      BY CronAssumption DEF IInv, TypeOK, Crash
    <2> QED BY <2>1, NothingType DEF IInv, TypeOK, Crash
  <1>2. running' = FALSE /\ tick'.state = "none" /\ changed' = FALSE
    BY NothingType DEF Crash
  <1> QED BY <1>1, <1>2 DEF IInv, ChangedByOthers, SleepsSaved, StoreSaved, TimerArmed

\* Time changes neither store nor timer.
LEMMA PassTimeStep ==
  ASSUME IInv, PassTime
  PROVE  IInv'
  <1>1. UNCHANGED <<store, disk, changed, running, tick, manual, used, started, bounds>>
    BY DEF PassTime
  <1>2. now' \in Nat
    BY DEF PassTime, IInv, TypeOK
  <1>3. TypeOK'
    BY <1>1, <1>2 DEF IInv, TypeOK, bounds
  <1> QED BY <1>1, <1>3
      DEF IInv, ChangedByOthers, SleepsSaved, StoreSaved, TimerArmed, Runnable, bounds

\* Counting a start keeps the counters naturals.
LEMMA BeginType ==
  ASSUME TypeOK, NEW j \in Jobs, Begin(j)
  PROVE  started' \in [Jobs -> Nat]
  BY DEF TypeOK, Begin

\* A tick that executes a job leaves only the types to show.
LEMMA ExecutingStep ==
  ASSUME TypeOK, ChangedByOthers, tick'.state = "exec", UNCHANGED <<changed, ext>>
  PROVE  ChangedByOthers' /\ SleepsSaved' /\ StoreSaved' /\ TimerArmed'
  BY DEF ChangedByOthers, SleepsSaved, StoreSaved, TimerArmed

\* The timer wakes: _on_timer reloads, finds the due jobs and begins the first.
LEMMA FireStep ==
  ASSUME IInv, Fire
  PROVE  IInv'
  <1>0. TypeOK /\ ChangedByOthers
    BY DEF IInv
  <1>1. Load \in [Jobs -> JobStates]
    BY <1>0, LoadType
  <1>2. running = TRUE /\ manual' = Restale(manual) /\ UNCHANGED <<now, running, used, bounds>>
    BY <1>0 DEF Fire, TypeOK
  <1>3. manual' \in Manuals
    BY <1>0, <1>2, RestaleType
  <1>4. CASE Save(Load) /\ tick' = Armed(Load, TRUE) /\ UNCHANGED started
    <2>1. /\ store' \in [Jobs -> JobStates] /\ disk' \in [Jobs -> JobStates]
          /\ changed' = FALSE /\ tick' \in Ticks
          /\ ChangedByOthers' /\ SleepsSaved' /\ StoreSaved' /\ TimerArmed'
      BY <1>1, <1>2, <1>4, SavedAndArmed
    <2>2. TypeOK'
      BY <1>0, <1>2, <1>3, <1>4, <2>1 DEF TypeOK, bounds
    <2> QED BY <2>1, <2>2 DEF IInv
  <1>5. ASSUME NEW j \in DueJobs(Load), store' = Load,
               tick' = [state |-> "exec", wake |-> 0, cur |-> {j},
                        rest |-> DueJobs(Load) \ {j}, stale |-> FALSE],
               Begin(j), UNCHANGED <<disk, changed>>
        PROVE  IInv'
    <2>1. DueJobs(Load) \subseteq Jobs
      BY DEF DueJobs, Runnable
    <2>2. tick' \in Ticks /\ tick'.state = "exec"
      BY <1>5, <2>1 DEF Ticks
    <2>3. started' \in [Jobs -> Nat]
      BY <1>0, <1>5, <2>1, BeginType
    <2>4. TypeOK'
      BY <1>0, <1>1, <1>2, <1>3, <1>5, <2>2, <2>3 DEF TypeOK, bounds
    <2> QED BY <1>0, <1>2, <1>5, <2>2, <2>4, ExecutingStep DEF IInv, bounds
  <1> QED BY <1>4, <1>5 DEF Fire

\* A job ends and the next begins, or the tick saves and re-arms.
LEMMA JobDoneStep ==
  ASSUME IInv, NEW j \in Jobs, JobDone(j)
  PROVE  IInv'
  <1> DEFINE st == Executed(j, tick.stale)
             stale == tick.stale \/ (changed /\ j \in OneShots)
  <1>0. TypeOK /\ ChangedByOthers
    BY DEF IInv
  <1>1. st \in [Jobs -> JobStates]
    BY <1>0, ExecutedType
  <1>2. /\ UNCHANGED <<now, running, used, bounds>> /\ running \in BOOLEAN
        /\ manual' = Restale(manual) \/ manual' = manual
    BY <1>0 DEF JobDone, TypeOK
  <1>3. manual' \in Manuals
    BY <1>0, <1>2, RestaleType DEF TypeOK
  <1>4. CASE Save(st) /\ tick' = Armed(st, running) /\ UNCHANGED started
    <2> HIDE DEF st
    <2>1. /\ store' \in [Jobs -> JobStates] /\ disk' \in [Jobs -> JobStates]
          /\ changed' = FALSE /\ tick' \in Ticks
          /\ ChangedByOthers' /\ SleepsSaved' /\ StoreSaved' /\ TimerArmed'
      BY <1>1, <1>2, <1>4, SavedAndArmed
    <2>2. TypeOK'
      BY <1>0, <1>2, <1>3, <1>4, <2>1 DEF TypeOK, bounds
    <2> QED BY <2>1, <2>2 DEF IInv
  <1>5. ASSUME NEW k \in tick.rest, store' = st,
               tick' = [tick EXCEPT !.cur = {k}, !.rest = @ \ {k}, !.stale = stale],
               Begin(k), UNCHANGED <<disk, changed>>
        PROVE  IInv'
    <2>1. tick \in Ticks /\ k \in Jobs /\ tick.state = "exec" /\ stale \in BOOLEAN
      BY <1>0 DEF TypeOK, Ticks, JobDone
    <2> HIDE DEF st, stale
    <2>2. tick' \in Ticks /\ tick'.state = "exec"
      BY <1>5, <2>1 DEF Ticks
    <2>3. started' \in [Jobs -> Nat]
      BY <1>0, <1>5, <2>1, BeginType
    <2>4. TypeOK'
      BY <1>0, <1>1, <1>2, <1>3, <1>5, <2>2, <2>3 DEF TypeOK, bounds
    <2> QED BY <1>0, <1>2, <1>5, <2>2, <2>4, ExecutingStep DEF IInv, bounds
  <1> QED BY <1>4, <1>5 DEF JobDone

\* What every API call that changes the store ends with keeps the invariant.
LEMMA SaveAndArmStep ==
  ASSUME IInv, NEW st \in [Jobs -> JobStates], SaveAndArm(st), used' \subseteq Jobs
  PROVE  IInv'
  <1>0. TypeOK
    BY DEF IInv
  <1>1. /\ Save(st) /\ tick' = Armed(st, running) /\ manual' = Restale(manual)
        /\ UNCHANGED <<now, running, started, runs, ext, stops>> /\ running \in BOOLEAN
    BY <1>0 DEF SaveAndArm, TypeOK
  <1>2. /\ store' \in [Jobs -> JobStates] /\ disk' \in [Jobs -> JobStates]
        /\ changed' = FALSE /\ tick' \in Ticks
        /\ ChangedByOthers' /\ SleepsSaved' /\ StoreSaved' /\ TimerArmed'
    BY <1>1, SavedAndArmed
  <1>3. api' \in 0 .. MaxApi
    BY <1>0, CronAssumption DEF SaveAndArm, TypeOK
  <1>4. manual' \in Manuals
    BY <1>0, <1>1, RestaleType
  <1>5. TypeOK'
    BY <1>0, <1>1, <1>2, <1>3, <1>4 DEF TypeOK
  <1> QED BY <1>2, <1>5 DEF IInv

\* add_job saves and arms, whatever tick it cancels.
LEMMA AddJobStep ==
  ASSUME IInv, NEW j \in Jobs, AddJob(j)
  PROVE  IInv'
  <1>0. TypeOK
    BY DEF IInv
  <1>1. PICK at \in AtTimes(j) : SaveAndArm([Load EXCEPT ![j] = NewJob(j, at)])
    BY DEF AddJob
  <1>2. at \in Nat
    BY CronAssumption DEF AtTimes
  <1>3. NewJob(j, at) \in JobStates
    BY <1>0, <1>2, ComputeNextRunType DEF NewJob, JobStates
  <1>4. [Load EXCEPT ![j] = NewJob(j, at)] \in [Jobs -> JobStates]
    BY <1>0, <1>3, LoadType
  <1>5. used' \subseteq Jobs
    BY <1>0 DEF AddJob, TypeOK
  <1> QED BY <1>1, <1>4, <1>5, SaveAndArmStep

\* remove_job of a job that is there saves and arms.
LEMMA RemoveJobStep ==
  ASSUME IInv, NEW j \in Jobs, RemoveJob(j)
  PROVE  IInv'
  <1>0. TypeOK /\ Load \in [Jobs -> JobStates]
    BY LoadType DEF IInv
  <1>1. [Load EXCEPT ![j] = Absent] \in [Jobs -> JobStates]
    BY <1>0, JobUpdate
  <1>2. used' \subseteq Jobs
    BY <1>0 DEF RemoveJob, TypeOK
  <1> QED BY <1>1, <1>2, SaveAndArmStep DEF RemoveJob

\* enable_job of a job that is there saves and arms.
LEMMA EnableJobStep ==
  ASSUME IInv, NEW j \in Jobs, NEW b \in BOOLEAN, EnableJob(j, b)
  PROVE  IInv'
  <1> DEFINE n == IF b THEN ComputeNextRun(j, Load[j].at) ELSE 0
  <1>0. TypeOK /\ Load \in [Jobs -> JobStates]
    BY LoadType DEF IInv
  <1>1. Load[j].at \in Nat
    BY <1>0 DEF JobStates
  <1>2. n \in Nat
    BY <1>0, <1>1, ComputeNextRunType
  <1>3. SaveAndArm([Load EXCEPT ![j].enabled = b, ![j].next = n]) /\ used' \subseteq Jobs
    BY <1>0 DEF EnableJob, TypeOK
  <1> HIDE DEF n
  <1>4. [Load EXCEPT ![j].enabled = b, ![j].next = n] \in [Jobs -> JobStates]
    BY <1>0, <1>2, JobUpdate
  <1> QED BY <1>3, <1>4, SaveAndArmStep

\* A call that only loads the store: nothing changes unless somebody else has
\* edited the file, and then the cached store becomes the file's.
LEMMA LoadStep ==
  ASSUME IInv, store' = Load, tick' = Restale(tick), UNCHANGED <<disk, changed, running, ext>>
  PROVE  /\ store' \in [Jobs -> JobStates] /\ tick' \in Ticks
         /\ ChangedByOthers' /\ SleepsSaved' /\ StoreSaved' /\ TimerArmed'
  <1>0. TypeOK /\ ChangedByOthers
    BY DEF IInv
  <1>1. store' \in [Jobs -> JobStates] /\ tick' \in Ticks
    BY <1>0, LoadType, RestaleType
  <1>2. tick'.state = tick.state /\ tick'.wake = tick.wake
    BY <1>0, RestaleType
  <1>3. ChangedByOthers' /\ SleepsSaved'
    BY <1>2 DEF IInv, ChangedByOthers, SleepsSaved, Load
  <1>4. ext = 0 => store' = store
    BY <1>0, LoadUnedited
  <1>5. StoreSaved' /\ TimerArmed'
    BY <1>2, <1>4 DEF IInv, StoreSaved, TimerArmed, Runnable
  <1> QED BY <1>1, <1>3, <1>5

\* A call that only loads the store may find a changed file.
LEMMA ReloadStep ==
  ASSUME IInv, Reload
  PROVE  IInv'
  <1>0. TypeOK
    BY DEF IInv
  <1>1. /\ store' = Load /\ tick' = Restale(tick) /\ manual' = Restale(manual)
        /\ UNCHANGED <<now, disk, changed, running, used, started, bounds>>
    BY DEF Reload
  <1>2. /\ store' \in [Jobs -> JobStates] /\ tick' \in Ticks
        /\ ChangedByOthers' /\ SleepsSaved' /\ StoreSaved' /\ TimerArmed'
    BY <1>1, LoadStep DEF bounds
  <1>3. manual' \in Manuals
    BY <1>0, <1>1, RestaleType
  <1>4. TypeOK'
    BY <1>0, <1>1, <1>2, <1>3 DEF TypeOK, bounds
  <1> QED BY <1>2, <1>4 DEF IInv

\* run_job begins its job on the store it loaded.
LEMMA RunJobStep ==
  ASSUME IInv, NEW j \in Jobs, NEW b \in BOOLEAN, RunJob(j, b)
  PROVE  IInv'
  <1>0. TypeOK
    BY DEF IInv
  <1>1. /\ store' = Load /\ tick' = Restale(tick) /\ manual' = [cur |-> {j}, stale |-> FALSE]
        /\ Begin(j) /\ UNCHANGED <<now, disk, changed, running, used, api, ext, stops>>
    BY DEF RunJob
  <1>2. /\ store' \in [Jobs -> JobStates] /\ tick' \in Ticks
        /\ ChangedByOthers' /\ SleepsSaved' /\ StoreSaved' /\ TimerArmed'
    BY <1>1, LoadStep
  <1>3. manual' \in Manuals /\ started' \in [Jobs -> Nat]
    BY <1>0, <1>1, BeginType DEF Manuals
  <1>4. runs' \in 0 .. MaxRuns
    BY <1>0, CronAssumption DEF RunJob, TypeOK
  <1>5. TypeOK'
    BY <1>0, <1>1, <1>2, <1>3, <1>4 DEF TypeOK
  <1> QED BY <1>2, <1>5 DEF IInv

\* run_job's job ends; its result is saved and the timer armed.
LEMMA RunJobDoneStep ==
  ASSUME IInv, NEW j \in Jobs, RunJobDone(j)
  PROVE  IInv'
  <1> DEFINE st == Executed(j, manual.stale)
  <1>0. TypeOK
    BY DEF IInv
  <1>1. st \in [Jobs -> JobStates]
    BY <1>0, ExecutedType
  <1>2. /\ Save(st) /\ tick' = Armed(st, running) /\ manual' = NoRun
        /\ UNCHANGED <<now, running, used, started, bounds>> /\ running \in BOOLEAN
    BY <1>0 DEF RunJobDone, TypeOK
  <1> HIDE DEF st
  <1>3. /\ store' \in [Jobs -> JobStates] /\ disk' \in [Jobs -> JobStates]
        /\ changed' = FALSE /\ tick' \in Ticks
        /\ ChangedByOthers' /\ SleepsSaved' /\ StoreSaved' /\ TimerArmed'
    BY <1>1, <1>2, SavedAndArmed
  <1>4. TypeOK'
    BY <1>0, <1>2, <1>3, NothingType DEF TypeOK, bounds
  <1> QED BY <1>3, <1>4 DEF IInv

\* Another process writes the file, which ext counts.
LEMMA ExternalEditStep ==
  ASSUME IInv, NEW j \in Jobs, ExternalEdit(j)
  PROVE  IInv'
  <1>0. TypeOK
    BY DEF IInv
  <1>1. /\ changed' = TRUE /\ ext' # 0 /\ ext' \in 0 .. MaxExt
        /\ UNCHANGED <<now, store, running, tick, manual, started, api, runs, stops>>
    BY <1>0, CronAssumption DEF ExternalEdit, TypeOK
  <1>2. used' \subseteq Jobs
    BY <1>0 DEF ExternalEdit, TypeOK
  <1>3. disk \in [Jobs -> JobStates] /\ disk[j].at \in Nat
    BY <1>0 DEF TypeOK, JobStates
  <1>4. \A at \in AtTimes(j) : [disk EXCEPT ![j] = NewJob(j, at)] \in [Jobs -> JobStates]
    <2> SUFFICES ASSUME NEW at \in AtTimes(j)
                 PROVE  [disk EXCEPT ![j] = NewJob(j, at)] \in [Jobs -> JobStates]
      OBVIOUS
    <2>1. at \in Nat
      BY CronAssumption DEF AtTimes
    <2>2. NewJob(j, at) \in JobStates
      BY <1>0, <2>1, ComputeNextRunType DEF NewJob, JobStates
    <2> QED BY <1>3, <2>2
  <1>5. \A b \in BOOLEAN :
            [disk EXCEPT ![j].enabled = b,
               ![j].next = IF b THEN ComputeNextRun(j, disk[j].at) ELSE 0] \in [Jobs -> JobStates]
    <2> SUFFICES ASSUME NEW b \in BOOLEAN
                 PROVE  [disk EXCEPT ![j].enabled = b,
                           ![j].next = IF b THEN ComputeNextRun(j, disk[j].at) ELSE 0]
                        \in [Jobs -> JobStates]
      OBVIOUS
    <2> DEFINE n == IF b THEN ComputeNextRun(j, disk[j].at) ELSE 0
    <2>1. n \in Nat
      BY <1>0, <1>3, ComputeNextRunType
    <2> HIDE DEF n
    <2>2. [disk EXCEPT ![j].enabled = b, ![j].next = n] \in [Jobs -> JobStates]
      BY <1>0, <1>3, <2>1, JobUpdate
    <2> QED BY <2>2 DEF n
  <1>6. [disk EXCEPT ![j] = Absent] \in [Jobs -> JobStates]
    BY <1>0, <1>3, JobUpdate
  <1>7. disk' \in [Jobs -> JobStates]
    BY <1>4, <1>5, <1>6, Zenon DEF ExternalEdit
  <1>8. TypeOK'
    BY <1>0, <1>1, <1>2, <1>7 DEF TypeOK
  <1> QED BY <1>1, <1>8 DEF IInv, ChangedByOthers, SleepsSaved, StoreSaved, TimerArmed

-----------------------------------------------------------------------------
(* The theorems *)

\* The invariant holds before the service starts.
LEMMA InitHolds == Init => IInv
  <1> SUFFICES ASSUME Init PROVE IInv
    OBVIOUS
  <1>1. Absent \in JobStates
    BY DEF Absent, JobStates
  <1>2. store \in [Jobs -> JobStates] /\ disk \in [Jobs -> JobStates] /\ started \in [Jobs -> Nat]
    BY <1>1 DEF Init
  <1>3. /\ api \in 0 .. MaxApi /\ runs \in 0 .. MaxRuns
        /\ ext \in 0 .. MaxExt /\ stops \in 0 .. MaxStops /\ now \in Nat
    BY CronAssumption DEF Init
  <1>4. changed = FALSE /\ running = FALSE /\ tick.state = "none"
    BY NothingType DEF Init
  <1>5. TypeOK
    BY <1>2, <1>3, <1>4, NothingType DEF Init, TypeOK
  <1> QED BY <1>4, <1>5 DEF IInv, ChangedByOthers, SleepsSaved, StoreSaved, TimerArmed

\* Every step keeps the invariant, action by action.
LEMMA StepHolds == IInv /\ [Next]_vars => IInv'
  <1> SUFFICES ASSUME IInv, [Next]_vars PROVE IInv'
    OBVIOUS
  <1>1. CASE UNCHANGED vars
    <2>1. UNCHANGED <<now, store, disk, changed, running, tick, manual, used, started,
                      api, runs, ext, stops>>
      BY <1>1 DEF vars
    <2>2. TypeOK'
      BY <2>1 DEF IInv, TypeOK
    <2> QED BY <2>1, <2>2
        DEF IInv, ChangedByOthers, SleepsSaved, StoreSaved, TimerArmed, Runnable
  <1>2. CASE Next
    BY <1>2, StartStep, StopStep, CrashStep, PassTimeStep, FireStep, ReloadStep, JobDoneStep,
       RunJobDoneStep, AddJobStep, RemoveJobStep, ExternalEditStep, EnableJobStep, RunJobStep
    DEF Next
  <1> QED BY <1>1, <1>2

\* The invariant holds at all times.
LEMMA Invariance == Spec => []IInv
  BY InitHolds, StepHolds, PTL DEF Spec

\* The store, the file, the timer and the calls in progress are well-formed at
\* all times.
THEOREM TypeCorrect == Spec => []TypeOK
<1>1. IInv => TypeOK
  BY DEF IInv
<1> QED BY <1>1, Invariance, PTL

\* As long as no other process edits jobs.json, a running service that is not
\* executing jobs has its timer set for the earliest job, and the file has what
\* the service has in memory, whatever calls cancelled its ticks.
THEOREM ArmedAndSaved == Spec => [](TimerArmed /\ StoreSaved)
<1>1. IInv => TimerArmed /\ StoreSaved
  BY DEF IInv
<1> QED BY <1>1, Invariance, PTL

\* A tick begins only with jobs that are enabled in jobs.json at that moment,
\* whoever wrote it last (_load_store at the start of _on_timer).
THEOREM EditsHonoured == Spec => ExternalEditsHonoured
<1> DEFINE A == \A j \in Jobs :
                  (tick.state = "sleep" /\ tick'.state = "exec" /\ started'[j] # started[j])
                     => disk[j].present /\ disk[j].enabled
<1>1. IInv /\ [Next]_vars => [A]_vars
  <2> SUFFICES ASSUME IInv, Next, NEW j \in Jobs,
                      tick.state = "sleep", tick'.state = "exec", started'[j] # started[j]
               PROVE  disk[j].present /\ disk[j].enabled
    OBVIOUS
  <2>0. TypeOK /\ Load = disk
    BY DEF IInv, SleepsSaved, Load
  <2>1. CASE Fire
    <3>1. PICK k \in DueJobs(Load) : Begin(k)
      BY <2>1 DEF Fire
    <3>2. k = j
      BY <2>0, <3>1 DEF Begin, TypeOK
    <3> QED BY <2>0, <3>1, <3>2 DEF DueJobs, Runnable
  <2>2. CASE \E i \in Jobs : JobDone(i)
    BY <2>2 DEF JobDone
  <2>3. CASE \E i \in Jobs, b \in BOOLEAN : RunJob(i, b)
    BY <2>0, <2>3, RestaleType DEF RunJob
  <2>4. CASE UNCHANGED started
    BY <2>4
  <2> QED BY <2>1, <2>2, <2>3, <2>4
      DEF Next, Start, Stop, Crash, PassTime, Reload, RunJobDone, AddJob, RemoveJob,
          EnableJob, SaveAndArm, ExternalEdit
<1> HIDE DEF A
<1>2. Spec => [][A]_vars
  BY <1>1, Invariance, PTL DEF Spec
<1> QED BY <1>2 DEF A, ExternalEditsHonoured

================================================================================
