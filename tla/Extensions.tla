----------------------------- MODULE Extensions -----------------------------
(***************************************************************************)
(* Tools that run outside of the program, one part per mode: the calls on  *)
(* the pipes of a plugin process (plugins/manager.py, plugins/host.py,     *)
(* "rpc"), starting and stopping the plugins ("start"), what a plugin is   *)
(* allowed (plugins/capabilities.py, "caps"), recurring plugin calls       *)
(* (plugins/scheduler.py, "sched") and MCP servers (agent/tools/mcp.py,    *)
(* "mcp").                                                                 *)
(***************************************************************************)
EXTENDS Integers, Sequences, FiniteSets

CONSTANTS
    XtCallers,          \* concurrent calls on one connection; jobs of the scheduler
    XtMaxCalls,         \* bound: calls
    XtMaxPrints,        \* bound: lines a plugin prints between its answers
    XtPlugins,          \* number of plugins, of MCP servers
    XtInterval,         \* interval_seconds
    XtMaxTime           \* bound: time

ASSUME XtAssumption == XtInterval \in Nat \ {0} /\ XtPlugins \in Nat /\ "nobody" \notin XtCallers

VARIABLES
    xtMode,             \* "off", "rpc", "start", "caps", "sched" or "mcp"
    xtCall,             \* caller -> [at, id, got]: "idle", "waiting", "expired" or "answered" (not resumed yet), "ok", "error"
    xtPending,          \* ids in _pending
    xtIn, xtOut,        \* lines in the pipes: ids; 0 is a line that is no answer
    xtHost,             \* 0: reads; an id: works on it; -1: dead
    xtReader,           \* _read_task runs
    xtNext, xtPrints,
    xtAt, xtPhase,      \* start: number of the plugin or server; "next", "tools", "closing", "done"
    xtProc,             \* plugin -> "none", "running", "dead"
    xtConns,            \* connections; mcp: servers with registered tools
    xtReading,          \* plugins whose read task was not cancelled
    xtStop, xtTodo,     \* stop: "no", "busy", "done"; connections it has to close
    xtOverlap,          \* history: stop was called while start was under way
    xtGood,             \* history: plugins or servers that did not fail; capabilities asked for
    xtJob,              \* job -> "none", "active", "cancelled" (is_active is false), "cleared"
    xtLast,             \* job -> last_run, -1 for None
    xtLeft, xtRunning,  \* jobs of the pass still to look at; the job that is invoked
    xtPass, xtClock,    \* now of the pass, -1 outside of one; the time
    xtDue,              \* history: jobs that were due when the pass began
    xtCancelled         \* mcp: the task of the call was cancelled from outside

xtRpcVars == <<xtCall, xtPending, xtIn, xtOut, xtHost, xtReader, xtNext, xtPrints>>
xtStartVars == <<xtAt, xtPhase, xtProc, xtConns, xtReading, xtStop, xtTodo, xtOverlap, xtGood, xtCancelled>>
xtSchedVars == <<xtJob, xtLast, xtLeft, xtRunning, xtPass, xtClock, xtDue>>
xtVars == <<xtMode, xtRpcVars, xtStartVars, xtSchedVars>>

XtIdle == [at |-> "idle", id |-> 0, got |-> 0]
XtNobody == "nobody"
XtInit ==
    /\ xtMode = "off"
    /\ xtCall = [c \in XtCallers |-> XtIdle] /\ xtPending = {} /\ xtIn = <<>> /\ xtOut = <<>> /\ xtHost = 0 /\ xtReader = TRUE /\ xtNext = 1 /\ xtPrints = 0
    /\ xtAt = 1 /\ xtPhase = "next" /\ xtProc = [p \in 1 .. XtPlugins |-> "none"] /\ xtConns = {} /\ xtReading = {}
    /\ xtStop = "no" /\ xtTodo = {} /\ xtOverlap = FALSE /\ xtGood = {} /\ xtCancelled = FALSE
    /\ xtJob = [j \in XtCallers |-> "none"] /\ xtLast = [j \in XtCallers |-> -1] /\ xtLeft = {} /\ xtRunning = XtNobody
    /\ xtPass = -1 /\ xtClock = 0 /\ xtDue = {}

XtChoose(m) == xtMode = "off" /\ xtMode' = m /\ UNCHANGED <<xtRpcVars, xtStartVars, xtSchedVars>>

---------------------------------------------------------------------------
(* Calls of a plugin. *)
XtOnlyRpc == UNCHANGED <<xtMode, xtStartVars, xtSchedVars>>

\* call: write the request and wait. Writing to a dead process may raise.
XtSend(c, ok) ==
    /\ xtMode = "rpc" /\ xtCall[c].at \in {"idle", "ok", "error"} /\ xtNext <= XtMaxCalls
    /\ ok \/ xtHost = -1
    /\ xtNext' = xtNext + 1
    /\ xtCall' = [xtCall EXCEPT ![c] = [at |-> IF ok THEN "waiting" ELSE "error", id |-> xtNext, got |-> 0]]
    /\ xtPending' = (IF ok THEN xtPending \cup {xtNext} ELSE xtPending) /\ xtIn' = IF ok THEN Append(xtIn, xtNext) ELSE xtIn
    /\ UNCHANGED <<xtOut, xtHost, xtReader, xtPrints>> /\ XtOnlyRpc

\* The host works on one line after the other; a tool may print to the same pipe, hang, or end the process.
XtHostTakes ==
    /\ xtMode = "rpc" /\ xtHost = 0 /\ xtIn # <<>> /\ xtHost' = Head(xtIn) /\ xtIn' = Tail(xtIn)
    /\ UNCHANGED <<xtCall, xtPending, xtOut, xtReader, xtNext, xtPrints>> /\ XtOnlyRpc
XtHostAnswers ==
    /\ xtMode = "rpc" /\ xtHost > 0 /\ xtOut' = Append(xtOut, xtHost) /\ xtHost' = 0
    /\ UNCHANGED <<xtCall, xtPending, xtIn, xtReader, xtNext, xtPrints>> /\ XtOnlyRpc
XtToolPrints ==
    /\ xtMode = "rpc" /\ xtHost > 0 /\ xtPrints < XtMaxPrints /\ xtPrints' = xtPrints + 1 /\ xtOut' = Append(xtOut, 0)
    /\ UNCHANGED <<xtCall, xtPending, xtIn, xtHost, xtReader, xtNext>> /\ XtOnlyRpc
XtHostDies ==
    /\ xtMode = "rpc" /\ xtHost # -1 /\ xtHost' = -1 /\ xtIn' = <<>>
    /\ UNCHANGED <<xtCall, xtPending, xtOut, xtReader, xtNext, xtPrints>> /\ XtOnlyRpc

\* _read_loop: a line that cannot be parsed, or answers a call whose future is done already, is logged.
XtCallOf(id) == CHOOSE c \in XtCallers : xtCall[c].id = id
XtMatchesAny(id) == IF xtPending = {} \/ id = 0 THEN 0 ELSE CHOOSE i \in xtPending : \A j \in xtPending : i <= j
XtMatches(id) == IF id \in xtPending THEN id ELSE 0
XtSurvivesParsingOnly(id) == id \notin xtPending \/ xtCall[XtCallOf(id)].at = "waiting"
XtSurvives(id) == TRUE
XtReads ==
    /\ xtMode = "rpc" /\ xtReader /\ xtOut # <<>> /\ xtOut' = Tail(xtOut)
    /\ LET line == Head(xtOut)
           id == XtMatches(line)
       IN /\ xtReader' = XtSurvives(line)
          /\ xtCall' = IF id # 0 /\ xtCall[XtCallOf(id)].at = "waiting"
                       THEN [xtCall EXCEPT ![XtCallOf(id)].at = "answered", ![XtCallOf(id)].got = line] ELSE xtCall
    /\ UNCHANGED <<xtPending, xtIn, xtHost, xtNext, xtPrints>> /\ XtOnlyRpc
XtReaderEnds ==
    /\ xtMode = "rpc" /\ xtReader /\ xtOut = <<>> /\ xtHost = -1 /\ xtReader' = FALSE
    /\ UNCHANGED <<xtCall, xtPending, xtIn, xtOut, xtHost, xtNext, xtPrints>> /\ XtOnlyRpc

\* wait_for gives up after 30 seconds and cancels the future; the caller resumes later and removes it.
XtGivesUpNever == FALSE
XtGivesUp == TRUE
XtTimeout(c) ==
    /\ xtMode = "rpc" /\ xtCall[c].at = "waiting" /\ XtGivesUp /\ xtCall' = [xtCall EXCEPT ![c].at = "expired"]
    /\ UNCHANGED <<xtPending, xtIn, xtOut, xtHost, xtReader, xtNext, xtPrints>> /\ XtOnlyRpc
XtPopsAnswered(c) == IF xtCall[c].at = "answered" THEN {xtCall[c].id} ELSE {}
XtPops(c) == {xtCall[c].id}
XtResumes(c) ==
    /\ xtMode = "rpc" /\ xtCall[c].at \in {"expired", "answered"}
    /\ xtPending' = xtPending \ XtPops(c) /\ xtCall' = [xtCall EXCEPT ![c].at = IF @ = "answered" THEN "ok" ELSE "error"]
    /\ UNCHANGED <<xtIn, xtOut, xtHost, xtReader, xtNext, xtPrints>> /\ XtOnlyRpc
XtRpcNext ==
    \/ XtHostTakes \/ XtHostAnswers \/ XtToolPrints \/ XtHostDies \/ XtReads \/ XtReaderEnds
    \/ \E c \in XtCallers : XtTimeout(c) \/ XtResumes(c) \/ (\E ok \in BOOLEAN : XtSend(c, ok))

---------------------------------------------------------------------------
(* PluginManager.start and stop. AgentLoop.stop runs stop in a task of its own, also while start is under way. *)
XtOnlyStart == UNCHANGED <<xtMode, xtRpcVars, xtSchedVars, xtCancelled>>
XtAdvance == xtAt' = xtAt + 1 /\ xtPhase' = "next"
XtSpawn(ok) ==
    /\ xtMode = "start" /\ xtPhase = "next" /\ xtAt <= XtPlugins
    /\ IF ok THEN /\ xtPhase' = "tools" /\ xtProc' = [xtProc EXCEPT ![xtAt] = "running"] /\ xtConns' = xtConns \cup {xtAt}
                  /\ xtReading' = xtReading \cup {xtAt} /\ UNCHANGED xtAt
       ELSE XtAdvance /\ UNCHANGED <<xtProc, xtConns, xtReading>>
    /\ UNCHANGED <<xtStop, xtTodo, xtOverlap, xtGood>> /\ XtOnlyStart

\* get_tools is answered, or with an error, or not in time; then the connection is closed and deleted.
XtTools(ok) ==
    /\ xtMode = "start" /\ xtPhase = "tools"
    /\ ok => xtProc[xtAt] = "running" /\ xtAt \in xtReading
    /\ IF ok THEN XtAdvance /\ xtGood' = xtGood \cup {xtAt} ELSE xtPhase' = "closing" /\ UNCHANGED <<xtAt, xtGood>>
    /\ UNCHANGED <<xtProc, xtConns, xtReading, xtStop, xtTodo, xtOverlap>> /\ XtOnlyStart
XtClosesNot(p) == xtProc
XtCloses(p) == [xtProc EXCEPT ![p] = IF @ = "running" THEN "dead" ELSE @]
XtClosed ==
    /\ xtMode = "start" /\ xtPhase = "closing" /\ xtProc' = XtCloses(xtAt) /\ xtConns' = xtConns \ {xtAt} /\ XtAdvance
    /\ UNCHANGED <<xtReading, xtStop, xtTodo, xtOverlap, xtGood>> /\ XtOnlyStart
XtPluginDies(p) ==
    /\ xtMode = "start" /\ xtProc[p] = "running" /\ xtProc' = [xtProc EXCEPT ![p] = "dead"]
    /\ UNCHANGED <<xtAt, xtPhase, xtConns, xtReading, xtStop, xtTodo, xtOverlap, xtGood>> /\ XtOnlyStart
XtStopAll ==
    /\ xtMode = "start" /\ xtStop = "no" /\ xtStop' = "busy" /\ xtTodo' = xtConns /\ xtOverlap' = (xtAt <= XtPlugins)
    /\ UNCHANGED <<xtAt, xtPhase, xtProc, xtConns, xtReading, xtGood>> /\ XtOnlyStart
XtStopOne(p) ==
    /\ xtMode = "start" /\ p \in xtTodo /\ xtTodo' = xtTodo \ {p} /\ xtReading' = xtReading \ {p} /\ xtProc' = [xtProc EXCEPT ![p] = "dead"]
    /\ UNCHANGED <<xtAt, xtPhase, xtConns, xtStop, xtOverlap, xtGood>> /\ XtOnlyStart
XtStopped ==
    /\ xtMode = "start" /\ xtStop = "busy" /\ xtTodo = {} /\ xtStop' = "done" /\ xtConns' = {}
    /\ UNCHANGED <<xtAt, xtPhase, xtProc, xtReading, xtTodo, xtOverlap, xtGood>> /\ XtOnlyStart
XtStartNext ==
    \/ XtClosed \/ XtStopAll \/ XtStopped \/ (\E ok \in BOOLEAN : XtSpawn(ok) \/ XtTools(ok))
    \/ \E p \in 1 .. XtPlugins : XtPluginDies(p) \/ XtStopOne(p)

---------------------------------------------------------------------------
(* apply_sandbox_with_capabilities: what the plugin may do afterwards; the kernel may refuse the file rules. *)
XtCaps == {"read", "write", "net", "env"}
XtAllowedFailOpen(caps, landlock) == IF landlock THEN caps ELSE XtCaps
XtAllowed(caps, landlock) ==
    (caps \cap {"net", "env"}) \cup (IF ~landlock \/ "write" \in caps THEN {"read", "write"} ELSE caps \cap {"read"})
XtApply(caps, landlock) ==
    /\ xtMode = "caps" /\ xtPhase = "next" /\ xtPhase' = (IF landlock THEN "done" ELSE "closing")
    /\ xtGood' = caps /\ xtConns' = XtAllowed(caps, landlock)
    /\ UNCHANGED <<xtMode, xtRpcVars, xtSchedVars, xtAt, xtProc, xtReading, xtStop, xtTodo, xtOverlap, xtCancelled>>
XtCapsNext == \E caps \in SUBSET XtCaps, b \in BOOLEAN : XtApply(caps, b)

---------------------------------------------------------------------------
(* Recurring calls. A pass takes a snapshot of the jobs; others schedule, cancel and clear meanwhile. *)
XtOnlySched == UNCHANGED <<xtMode, xtRpcVars, xtStartVars>>
XtSchedule(j) ==
    /\ xtMode = "sched" /\ xtJob[j] = "none" /\ xtJob' = [xtJob EXCEPT ![j] = "active"]
    /\ UNCHANGED <<xtLast, xtLeft, xtRunning, xtPass, xtClock, xtDue>> /\ XtOnlySched
XtCancelJob(j) ==
    /\ xtMode = "sched" /\ xtJob[j] = "active" /\ xtJob' = [xtJob EXCEPT ![j] = "cancelled"]
    /\ UNCHANGED <<xtLast, xtLeft, xtRunning, xtPass, xtClock, xtDue>> /\ XtOnlySched
XtClear ==
    /\ xtMode = "sched" /\ xtJob' = [j \in XtCallers |-> IF xtJob[j] = "active" THEN "cleared" ELSE xtJob[j]]
    /\ UNCHANGED <<xtLast, xtLeft, xtRunning, xtPass, xtClock, xtDue>> /\ XtOnlySched
XtElapsed(j, now) == xtLast[j] = -1 \/ now - xtLast[j] >= XtInterval
XtRunDue ==
    /\ xtMode = "sched" /\ xtPass = -1 /\ xtPass' = xtClock /\ xtLeft' = {j \in XtCallers : xtJob[j] = "active"}
    /\ xtDue' = {j \in xtLeft' : XtElapsed(j, xtClock)}
    /\ UNCHANGED <<xtJob, xtLast, xtRunning, xtClock>> /\ XtOnlySched
XtInvokesAll(j) == XtElapsed(j, xtPass)
XtInvokes(j) == xtJob[j] # "cancelled" /\ XtElapsed(j, xtPass)
XtTakes(j) ==
    /\ xtMode = "sched" /\ xtRunning = XtNobody /\ j \in xtLeft /\ xtLeft' = xtLeft \ {j}
    /\ xtRunning' = IF XtInvokes(j) THEN j ELSE XtNobody
    /\ UNCHANGED <<xtJob, xtLast, xtPass, xtClock, xtDue>> /\ XtOnlySched

\* The invoked tool returns or raises; either way the pass goes on.
XtGoesOnIfOk(ok) == IF ok THEN xtLeft ELSE {}
XtGoesOn(ok) == xtLeft
XtInvoked(ok) ==
    /\ xtMode = "sched" /\ xtRunning # XtNobody /\ xtRunning' = XtNobody /\ xtLast' = [xtLast EXCEPT ![xtRunning] = xtPass] /\ xtLeft' = XtGoesOn(ok)
    /\ UNCHANGED <<xtJob, xtPass, xtClock, xtDue>> /\ XtOnlySched
XtPassEnds ==
    /\ xtMode = "sched" /\ xtPass # -1 /\ xtLeft = {} /\ xtRunning = XtNobody /\ xtPass' = -1 /\ xtDue' = {}
    /\ UNCHANGED <<xtJob, xtLast, xtLeft, xtRunning, xtClock>> /\ XtOnlySched
XtTick ==
    /\ xtMode = "sched" /\ xtClock < XtMaxTime /\ xtClock' = xtClock + 1
    /\ UNCHANGED <<xtJob, xtLast, xtLeft, xtRunning, xtPass, xtDue>> /\ XtOnlySched
XtSchedNext ==
    \/ XtRunDue \/ XtClear \/ XtPassEnds \/ XtTick \/ (\E ok \in BOOLEAN : XtInvoked(ok))
    \/ \E j \in XtCallers : XtSchedule(j) \/ XtCancelJob(j) \/ XtTakes(j)

---------------------------------------------------------------------------
(* MCP servers: connect_mcp_servers goes through all of them; a call then ends in one of many ways. *)
XtOnlyMcp == UNCHANGED <<xtMode, xtRpcVars, xtSchedVars, xtProc, xtReading, xtStop, xtTodo, xtOverlap>>
XtAfterFailureNone == XtPlugins + 1
XtAfterFailure == xtAt + 1

\* No or an unknown transport, or an error of the transport, of the session, of initialize or of list_tools.
XtConnect(ok) ==
    /\ xtMode = "mcp" /\ xtPhase = "next" /\ xtAt <= XtPlugins
    /\ xtAt' = (IF ok THEN xtAt + 1 ELSE XtAfterFailure) /\ xtGood' = xtGood \cup (IF ok THEN {} ELSE {xtAt})
    /\ xtConns' = (IF ok THEN xtConns \cup {xtAt} ELSE xtConns) /\ UNCHANGED <<xtPhase, xtCancelled>> /\ XtOnlyMcp
XtExecute(p) ==
    /\ xtMode = "mcp" /\ xtPhase = "next" /\ xtAt > XtPlugins /\ p \in xtConns /\ xtPhase' = "calling"
    /\ UNCHANGED <<xtAt, xtConns, xtGood, xtCancelled>> /\ XtOnlyMcp

\* The turn of the caller is cancelled (/stop).
XtCancel ==
    /\ xtMode = "mcp" /\ xtPhase = "calling" /\ ~xtCancelled /\ xtCancelled' = TRUE
    /\ UNCHANGED <<xtAt, xtPhase, xtConns, xtGood>> /\ XtOnlyMcp

\* A CancelledError of the SDK is swallowed, one that was asked for is not; anything else becomes an answer.
XtCancelOutcomeSwallowed == "answered"
XtCancelOutcome == IF xtCancelled THEN "cancelled" ELSE "answered"
XtCallEnds(how) ==
    /\ xtMode = "mcp" /\ xtPhase = "calling"
    /\ how # "CancelledError" => ~xtCancelled
    /\ xtPhase' = IF how = "CancelledError" THEN XtCancelOutcome ELSE "answered"
    /\ UNCHANGED <<xtAt, xtConns, xtGood, xtCancelled>> /\ XtOnlyMcp
XtMcpNext ==
    \/ (\E ok \in BOOLEAN : XtConnect(ok)) \/ (\E p \in 1 .. XtPlugins : XtExecute(p)) \/ XtCancel
    \/ \E how \in {"result", "TimeoutError", "CancelledError", "Exception"} : XtCallEnds(how)

---------------------------------------------------------------------------
XtNext ==
    \/ \E m \in {"rpc", "start", "caps", "sched", "mcp"} : XtChoose(m)
    \/ XtRpcNext \/ XtStartNext \/ XtCapsNext \/ XtSchedNext \/ XtMcpNext

\* Timers fire, tasks that can go on do so; nothing is assumed of the plugin.
XtFairness == \A c \in XtCallers : WF_xtVars(XtTimeout(c)) /\ WF_xtVars(XtResumes(c))
XtSpec == XtInit /\ [][XtNext]_xtVars /\ XtFairness

---------------------------------------------------------------------------
(* Properties. *)

(* A call of a plugin that returns a result returns the answer to its own        *)
(* request, whatever calls overlap it, timed out before it or print meanwhile.   *)
XtOwnAnswer == \A c \in XtCallers : xtCall[c].at \in {"answered", "ok"} => xtCall[c].got = xtCall[c].id

(* _pending holds exactly the requests that are still waited for.                *)
XtPendingExact == xtPending = {xtCall[c].id : c \in {d \in XtCallers : xtCall[d].at \in {"waiting", "expired", "answered"}}}

(* The reading of answers never ends while the process lives: neither what a     *)
(* tool prints nor an answer that comes between the timeout of its call and the  *)
(* removal of its future ends _read_loop.                                        *)
XtReaderLives == xtHost # -1 => xtReader

(* Every call of a plugin ends, although the plugin may hang or die.             *)
XtCallsEnd == \A c \in XtCallers : []<>(xtCall[c].at \notin {"waiting", "answered", "expired"})

(* When start has ended and stop was called after that, no plugin process is     *)
(* left, also none that could not register its tools.                            *)
XtNoOrphan == xtMode = "start" /\ xtStop = "done" /\ ~xtOverlap => \A p \in 1 .. XtPlugins : xtProc[p] # "running"

(* stop "Terminates all plugin host execution processes." (plugins/manager.py,   *)
(* docstring of PluginManager.stop): once stop and start are over none is left.  *)
(* AgentLoop.stop does not wait for start, which goes on to the next plugin.     *)
XtStopTerminatesAll == xtMode = "start" /\ xtStop = "done" /\ xtAt > XtPlugins => \A p \in 1 .. XtPlugins : xtProc[p] # "running"

(* A plugin has exactly the capabilities of its manifest (writing includes       *)
(* reading); where the kernel has no file rules it still has neither network nor *)
(* environment that it did not ask for.                                          *)
XtCapsHold ==
    /\ xtMode = "caps" /\ xtPhase = "done" => xtConns = xtGood \cup (IF "write" \in xtGood THEN {"read"} ELSE {})
    /\ xtMode = "caps" /\ xtPhase # "next" => xtConns \cap {"net", "env"} = xtGood \cap {"net", "env"}

(* A job that is cancelled while a pass works on its snapshot is not invoked.    *)
XtCancelledNotRun == [][xtRunning' # xtRunning /\ xtRunning' # XtNobody => xtJob[xtRunning'] # "cancelled"]_xtVars

(* A pass runs every job that was due, also after one of them raised.            *)
XtAllDueRan ==
    xtMode = "sched" /\ xtPass # -1 /\ xtLeft = {} /\ xtRunning = XtNobody => \A j \in xtDue : xtJob[j] = "active" => xtLast[j] = xtPass

(* Every server that answers is connected, whichever others fail; and a call of  *)
(* a tool that the user cancelled ends cancelled, while a CancelledError that    *)
(* comes from the SDK alone never ends the turn.                                 *)
XtServersIndependent == xtMode = "mcp" /\ xtAt > XtPlugins => xtConns \cup xtGood = 1 .. XtPlugins
XtCancelRight ==
    /\ xtMode = "mcp" /\ xtPhase = "cancelled" => xtCancelled
    /\ xtMode = "mcp" /\ xtPhase = "answered" => ~xtCancelled
=============================================================================
