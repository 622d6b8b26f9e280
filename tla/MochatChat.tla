----------------------------- MODULE MochatChat -----------------------------
(***************************************************************************)
(* MochatChannel (channels/mochat.py) without the cursors of its sessions, *)
(* which are in MochatInbox: how it stays connected, and how it takes in   *)
(* the messages of a panel. The two share no state.                        *)
(***************************************************************************)
EXTENDS Naturals, FiniteSets, Sequences

-----------------------------------------------------------------------------
(***************************************************************************)
(* The connection of MochatChannel (channels/mochat.py): a Socket.IO       *)
(* connection that comes and goes, the connect and disconnect handlers,    *)
(* the polling workers that stand in while it is down, the refresh loop    *)
(* that looks for new targets and repairs the workers, and stop.           *)
(*                                                                         *)
(* A step is what a coroutine does between two suspension points.  A       *)
(* connect handler waits for two subscription calls and, with auto-        *)
(* discovery, for an HTTP request; a disconnect may fall into each of      *)
(* these waits, and the next connect starts a second handler.              *)
(***************************************************************************)
CONSTANTS
    Targets,     \* sessions and panels
    MaxConnects  \* bound: connections made

VARIABLES
    lkState,     \* "off", "starting" (start awaits connect), "running", "stopping", "stopped"
    lkAuto,      \* _auto_discover_sessions or _auto_discover_panels
    lkSocket,    \* _socket is there: the client reconnects by itself
    lkWire,      \* the connection, as it is
    lkConns,     \* connections made so far; the last is the current one
    lkConnected, \* _ws_connected
    lkReady,     \* _ws_ready
    lkFallback,  \* _fallback_mode
    lkKnown,     \* _session_set and _panel_set
    lkSubs,      \* targets subscribed on the current connection
    lkHandlers,  \* lkHandlers[n]: the connect handler of connection n
    lkTable,     \* lkTable[t]: the worker task registered for t, 0 if none
    lkLast,      \* lkLast[t]: worker tasks created for t so far
    lkAlive,     \* worker tasks that have not ended: <<target, number>>
    lkKilled     \* worker tasks that were cancelled

wire == <<lkSocket, lkWire, lkConns, lkConnected>>
workers == <<lkFallback, lkTable, lkLast, lkAlive, lkKilled>>
linkVars == <<lkState, lkAuto, wire, lkReady, lkKnown, lkSubs, lkHandlers, workers>>

Phases == {"none", "sessions", "panels", "refresh", "gather", "done"}
HandlerStates == [phase : Phases, ok : BOOLEAN, tasks : SUBSET (Targets \X Nat)]
NoHandler == [phase |-> "none", ok |-> TRUE, tasks |-> {}]

LinkInit ==
    /\ lkState = "off"
    /\ lkAuto \in BOOLEAN
    /\ lkSocket = FALSE /\ lkWire = FALSE /\ lkConns = 0
    /\ lkConnected = FALSE /\ lkReady = FALSE
    /\ \E configured \in SUBSET Targets : lkKnown = IF lkAuto THEN configured ELSE Targets
    /\ lkSubs = {}
    /\ lkHandlers = [n \in 1 .. MaxConnects |-> NoHandler]
    /\ lkFallback = FALSE
    /\ lkTable = [t \in Targets |-> 0] /\ lkLast = [t \in Targets |-> 0]
    /\ lkAlive = {} /\ lkKilled = {}

Running == lkState \in {"starting", "running"}

-----------------------------------------------------------------------------
(* The workers *)

Registered == {<<t, lkTable[t]>> : t \in {u \in Targets : lkTable[u] # 0}}

\* not t or t.done()
Missing(known) == {t \in known : <<t, lkTable[t]>> \notin lkAlive}

\* _ensure_fallback_workers, for the targets in known.
EnsureFallbackWorkers(known) ==
    IF Running
    THEN /\ lkFallback' = TRUE
         /\ lkLast' = [t \in Targets |-> IF t \in Missing(known) THEN lkLast[t] + 1 ELSE lkLast[t]]
         /\ lkTable' = [t \in Targets |-> IF t \in Missing(known) THEN lkLast[t] + 1 ELSE lkTable[t]]
         /\ lkAlive' = lkAlive \union {<<t, lkLast[t] + 1>> : t \in Missing(known)}
         /\ UNCHANGED lkKilled
    ELSE UNCHANGED workers

\* _stop_fallback_workers, up to its gather.
StopFallbackWorkers ==
    /\ lkFallback' = FALSE
    /\ lkKilled' = lkKilled \union Registered
    /\ UNCHANGED <<lkTable, lkLast, lkAlive>>

\* _session_watch_worker and _panel_poll_worker leave their loop.
WorkerEnds(w) ==
    /\ w \in lkAlive
    /\ w \in lkKilled \/ ~lkFallback \/ ~Running
    /\ lkAlive' = lkAlive \ {w}
    /\ UNCHANGED <<lkState, lkAuto, wire, lkReady, lkKnown, lkSubs, lkHandlers,
                   lkFallback, lkTable, lkLast, lkKilled>>

-----------------------------------------------------------------------------
(* start, and the socket *)

StartChannel ==
    /\ lkState = "off"
    /\ lkState' = "starting"
    /\ lkSocket' = TRUE
    /\ UNCHANGED <<lkAuto, lkWire, lkConns, lkConnected, lkReady, lkKnown, lkSubs, lkHandlers, workers>>

\* _start_socket_client: connect raised or timed out.  The client is given up.
ConnectFails ==
    /\ lkState = "starting"
    /\ lkState' = "running"
    /\ lkSocket' = FALSE /\ lkWire' = FALSE /\ lkSubs' = {}
    /\ IF lkWire
       THEN lkConnected' = FALSE /\ lkReady' = FALSE
       ELSE UNCHANGED <<lkConnected, lkReady>>
    /\ EnsureFallbackWorkers(lkKnown)
    /\ UNCHANGED <<lkAuto, lkConns, lkKnown, lkHandlers>>

\* client.connect returned; start creates the refresh task.
Connected ==
    /\ lkState = "starting" /\ lkConns > 0
    /\ lkState' = "running"
    /\ UNCHANGED <<lkAuto, wire, lkReady, lkKnown, lkSubs, lkHandlers, workers>>

\* The connect event: the handler, up to its first call.
Connect ==
    /\ lkSocket /\ ~lkWire
    /\ lkConns < MaxConnects
    /\ lkWire' = TRUE /\ lkConns' = lkConns + 1
    /\ lkConnected' = TRUE /\ lkReady' = FALSE
    /\ lkHandlers' = [lkHandlers EXCEPT ![lkConns + 1].phase = "sessions"]
    /\ UNCHANGED <<lkState, lkAuto, lkSocket, lkKnown, lkSubs, workers>>

\* Mutant: the workers are left to the refresh loop, which starts them only in
\* the fallback mode.
DisconnectNoWorkers ==
    /\ lkWire
    /\ lkWire' = FALSE /\ lkSubs' = {}
    /\ lkConnected' = FALSE /\ lkReady' = FALSE
    /\ UNCHANGED <<lkState, lkAuto, lkSocket, lkConns, lkKnown, lkHandlers, workers>>

\* The disconnect event and its handler.
Disconnect ==
    /\ lkWire
    /\ lkWire' = FALSE /\ lkSubs' = {}
    /\ IF Running
       THEN lkConnected' = FALSE /\ lkReady' = FALSE
       ELSE UNCHANGED <<lkConnected, lkReady>>
    /\ EnsureFallbackWorkers(lkKnown)
    /\ UNCHANGED <<lkState, lkAuto, lkSocket, lkConns, lkKnown, lkHandlers>>

\* What the connect handler does once it knows whether it is subscribed.
Conclude(n, ok) ==
    /\ lkReady' = ok
    /\ IF ok
       THEN /\ StopFallbackWorkers
            /\ lkHandlers' = [lkHandlers EXCEPT ![n] = [phase |-> "gather", ok |-> ok, tasks |-> Registered]]
       ELSE /\ EnsureFallbackWorkers(lkKnown)
            /\ lkHandlers' = [lkHandlers EXCEPT ![n] = [phase |-> "done", ok |-> ok, tasks |-> {}]]

\* A call of a handler whose connection is gone fails.
Answers(n) == IF lkWire /\ n = lkConns THEN BOOLEAN ELSE {FALSE}

\* _subscribe_sessions returns.
SessionsAck(n) ==
    /\ lkHandlers[n].phase = "sessions"
    /\ \E ok \in Answers(n) : lkHandlers' = [lkHandlers EXCEPT ![n].phase = "panels", ![n].ok = ok]
    /\ UNCHANGED <<lkState, lkAuto, wire, lkReady, lkKnown, lkSubs, workers>>

\* Mutant: the answer about the panels replaces the one about the sessions.
BothOkLast(first, second) == second

BothOk(first, second) == first /\ second

\* _subscribe_panels returns; with auto-discovery _subscribe_all goes on to
\* _refresh_targets.
PanelsAck(n) ==
    /\ lkHandlers[n].phase = "panels"
    /\ \E ok \in Answers(n) :
        LET both == BothOk(lkHandlers[n].ok, ok) IN
        /\ lkSubs' = IF ok /\ lkHandlers[n].ok THEN lkKnown ELSE lkSubs
        /\ IF lkAuto
           THEN /\ lkHandlers' = [lkHandlers EXCEPT ![n].phase = "refresh", ![n].ok = both]
                /\ UNCHANGED <<lkReady, workers>>
           ELSE Conclude(n, both)
    /\ UNCHANGED <<lkState, lkAuto, wire, lkKnown>>

\* Mutant: what was found is not added to the targets.
DiscoveredForgotten(found) == lkKnown

\* _refresh_targets: the targets, with those it found.
Discovered(found) == lkKnown \union found

\* _refresh_targets returns to the handler: it subscribes to nothing, since
\* _ws_ready is not set yet.
Refreshed(n) ==
    /\ lkHandlers[n].phase = "refresh"
    /\ \E found \in SUBSET (Targets \ lkKnown) : lkKnown' = Discovered(found)
    /\ Conclude(n, lkHandlers[n].ok)
    /\ UNCHANGED <<lkState, lkAuto, wire, lkSubs>>

\* The gather of _stop_fallback_workers is over; the tables are cleared.
Gathered(n) ==
    /\ lkHandlers[n].phase = "gather"
    /\ lkHandlers[n].tasks \intersect lkAlive = {}
    /\ lkTable' = [t \in Targets |-> 0]
    /\ lkHandlers' = [lkHandlers EXCEPT ![n] = [phase |-> "done", ok |-> TRUE, tasks |-> {}]]
    /\ UNCHANGED <<lkState, lkAuto, wire, lkReady, lkKnown, lkSubs, lkFallback, lkLast, lkAlive, lkKilled>>

\* One pass of _refresh_loop: new targets, subscribed to if the socket is ready,
\* and the workers of the fallback mode.
RefreshPass ==
    /\ lkState = "running"
    /\ \E found \in SUBSET (IF lkAuto THEN Targets \ lkKnown ELSE {}) :
        /\ lkKnown' = Discovered(found)
        /\ \E ok \in Answers(lkConns) :
            lkSubs' = IF lkReady /\ ok THEN lkSubs \union found ELSE lkSubs
        /\ IF lkFallback THEN EnsureFallbackWorkers(Discovered(found)) ELSE UNCHANGED workers
    /\ UNCHANGED <<lkState, lkAuto, wire, lkReady, lkHandlers>>

-----------------------------------------------------------------------------
(* stop *)

\* Up to the gather of _stop_fallback_workers.
StopChannel ==
    /\ Running
    /\ lkState' = "stopping"
    /\ StopFallbackWorkers
    /\ UNCHANGED <<lkAuto, wire, lkReady, lkKnown, lkSubs, lkHandlers>>

\* Mutant: the socket is left connected.
StopDoneConnected ==
    /\ lkState = "stopping"
    /\ Registered \intersect lkAlive = {}
    /\ lkState' = "stopped"
    /\ lkTable' = [t \in Targets |-> 0]
    /\ lkConnected' = FALSE /\ lkReady' = FALSE
    /\ UNCHANGED <<lkAuto, lkSocket, lkWire, lkSubs, lkConns, lkKnown, lkHandlers,
                   lkFallback, lkLast, lkAlive, lkKilled>>

\* The workers have ended; the socket is disconnected and the flags are reset.
StopDone ==
    /\ lkState = "stopping"
    /\ Registered \intersect lkAlive = {}
    /\ lkState' = "stopped"
    /\ lkTable' = [t \in Targets |-> 0]
    /\ lkSocket' = FALSE /\ lkWire' = FALSE /\ lkSubs' = {}
    /\ lkConnected' = FALSE /\ lkReady' = FALSE
    /\ UNCHANGED <<lkAuto, lkConns, lkKnown, lkHandlers, lkFallback, lkLast, lkAlive, lkKilled>>

LinkNext ==
    \/ StartChannel \/ ConnectFails \/ Connected
    \/ Connect \/ Disconnect \/ RefreshPass
    \/ StopChannel \/ StopDone
    \/ \E n \in 1 .. MaxConnects : SessionsAck(n) \/ PanelsAck(n) \/ Refreshed(n) \/ Gathered(n)
    \/ \E w \in lkAlive : WorkerEnds(w)

\* Calls time out, a cancelled worker ends, the refresh loop goes round.
LinkFair(k) ==
    \/ k = 1 /\ (ConnectFails \/ Connected)
    \/ k = 2 /\ StopDone
    \/ k = 3 /\ RefreshPass
    \/ k = 4 /\ (\E w \in lkAlive : WorkerEnds(w))
    \/ \E n \in 1 .. MaxConnects : k = 4 + n /\ (SessionsAck(n) \/ PanelsAck(n) \/ Refreshed(n) \/ Gathered(n))
LinkFairness == \A k \in 1 .. 4 + MaxConnects : WF_linkVars(LinkFair(k))

-----------------------------------------------------------------------------
(* Properties *)

LinkTypeOK ==
    /\ lkState \in {"off", "starting", "running", "stopping", "stopped"}
    /\ lkAuto \in BOOLEAN /\ lkSocket \in BOOLEAN /\ lkWire \in BOOLEAN
    /\ lkConns \in 0 .. MaxConnects
    /\ lkConnected \in BOOLEAN /\ lkReady \in BOOLEAN /\ lkFallback \in BOOLEAN
    /\ lkKnown \subseteq Targets /\ lkSubs \subseteq lkKnown
    /\ lkHandlers \in [1 .. MaxConnects -> HandlerStates]
    /\ lkTable \in [Targets -> Nat] /\ lkLast \in [Targets -> Nat]
    /\ lkAlive \subseteq Targets \X Nat /\ lkKilled \subseteq Targets \X Nat

\* Without auto-discovery a running channel is ready only on a connection that is up
\* and subscribed to every target: a connect handler that a disconnect or a
\* second connect overtook does not declare it ready.
ReadyIsSubscribed == (Running /\ lkReady /\ ~lkAuto) => (lkConnected /\ lkWire /\ lkSubs = lkKnown)

Polled(t) == <<t, lkTable[t]>> \in lkAlive \ lkKilled

\* "socket.io with fallback polling workers": without auto-discovery, while the
\* connection stays down every target gets a worker, however the disconnect
\* falls into a handler that is stopping the workers.
FallbackTakesOver ==
    []<>((lkState = "running" /\ ~lkWire /\ ~lkAuto) => \A t \in lkKnown : Polled(t))

\* The same with auto-discovery, where the connect handler still waits for the
\* list of targets after it was told that it is subscribed.
FallbackAlwaysTakesOver ==
    []<>((lkState = "running" /\ ~lkWire) => \A t \in lkKnown : Polled(t))

\* After stop, no worker and no connection is left, also if the stop came in
\* the middle of a connect handler or left a worker out of the tables.
StopIsFinal ==
    <>[](lkState \in {"stopping", "stopped"} => (lkState = "stopped" /\ ~lkWire /\ lkAlive = {}))

-----------------------------------------------------------------------------
(***************************************************************************)
(* How MochatChannel (channels/mochat.py) takes in the messages of one     *)
(* group panel: notified over the socket or polled (the last messages,     *)
(* every time), filtered by mention, and with reply_delay_mode             *)
(* "non-mention" collected in a buffer that a timer, restarted by each     *)
(* message, or a mention flushes.                                          *)
(***************************************************************************)
CONSTANTS
    PanelWindow,    \* MAX_SEEN_MESSAGE_IDS
    PollLimit,      \* messages in a poll's answer
    PollLag,        \* bound: messages that arrive while an earlier one or a poll is under way
    MaxPanelMsgs,   \* bound: messages in the panel
    PanelMentions   \* the sets of messages that may be the ones that mention the agent

ASSUME PanelAssumption ==
    /\ PanelWindow \in Nat /\ PollLimit \in Nat \ {0} /\ PollLag \in Nat /\ MaxPanelMsgs \in Nat
    /\ 2 * (PollLimit + PollLag) <= PanelWindow + 1
    /\ PanelMentions \subseteq SUBSET (1 .. MaxPanelMsgs)

VARIABLES
    pnState,     \* "off", "running", "stopping" (the socket is still connected), "stopped"
    pnDelay,     \* reply_delay_mode = "non-mention"
    pnRequire,   \* resolve_require_mention
    pnMentions,  \* messages that mention the agent
    pnLog,       \* messages in the panel
    pnNotes,     \* notifications on the socket, oldest first
    pnPoll,      \* the answer to a poll under way: a set of messages
    pnSeen,      \* _seen_queue
    pnEntries,   \* DelayState.entries
    pnTimer,     \* DelayState.timer, by number; 0 is None
    pnTimers,    \* timer tasks that sleep and were not cancelled
    pnLastTimer, \* timer tasks created so far
    \* History.
    pnOut,       \* messages of each dispatch, in order
    pnDropped    \* messages in a buffer that stop discarded

panelVars == <<pnState, pnDelay, pnRequire, pnMentions, pnLog, pnNotes, pnPoll, pnSeen,
               pnEntries, pnTimer, pnTimers, pnLastTimer, pnOut, pnDropped>>
policy == <<pnDelay, pnRequire, pnMentions>>
buffer == <<pnEntries, pnTimer, pnTimers, pnLastTimer>>

PanelMsgs == 1 .. MaxPanelMsgs

PanelInit ==
    /\ pnState = "off"
    /\ pnDelay \in BOOLEAN /\ pnRequire \in BOOLEAN
    /\ pnMentions \in PanelMentions
    /\ pnLog = 0 /\ pnNotes = <<>> /\ pnPoll = {}
    /\ pnSeen = <<>> /\ pnEntries = <<>>
    /\ pnTimer = 0 /\ pnTimers = {} /\ pnLastTimer = 0
    /\ pnOut = <<>> /\ pnDropped = {}

ElementsOf(q) == {q[i] : i \in DOMAIN q}

StartPanel ==
    /\ pnState = "off"
    /\ pnState' = "running"
    /\ UNCHANGED <<policy, pnLog, pnNotes, pnPoll, pnSeen, buffer, pnOut, pnDropped>>

\* Somebody writes in the panel; if the socket is up the channel is notified.
WriteInPanel ==
    /\ pnLog < MaxPanelMsgs
    /\ \A m \in pnPoll : pnLog < m + PollLimit + PollLag - 1
    /\ \A m \in ElementsOf(pnNotes) : pnLog < m + PollLag
    /\ pnLog' = pnLog + 1
    /\ \/ pnState \in {"running", "stopping"} /\ pnNotes' = Append(pnNotes, pnLog + 1)
       \/ UNCHANGED pnNotes
    /\ UNCHANGED <<pnState, policy, pnPoll, pnSeen, buffer, pnOut, pnDropped>>

\* _panel_poll_worker sends its request and the server answers.
PollPanel ==
    /\ pnState = "running" /\ pnPoll = {}
    /\ pnPoll' = {m \in 1 .. pnLog : m + PollLimit > pnLog}
    /\ pnPoll' # {}
    /\ UNCHANGED <<pnState, policy, pnLog, pnNotes, pnSeen, buffer, pnOut, pnDropped>>

-----------------------------------------------------------------------------
(* _process_inbound_event *)

\* Mutant: the window has as many ids as a poll's answer.
RememberedFew(q) == IF Len(q) > PollLimit THEN Tail(q) ELSE q

\* Mutant: no id ever leaves the window.
PanelRememberedAll(q) == q

\* _remember_message_id: the oldest id leaves the window.
Remembered(q) == IF Len(q) > PanelWindow THEN Tail(q) ELSE q

PanelSkipped(m) == ~pnDelay /\ pnRequire /\ m \notin pnMentions

\* Mutant: the timer of the first message is kept.
EnqueueOneTimer(m) ==
    /\ pnEntries' = Append(pnEntries, m)
    /\ pnLastTimer' = IF pnTimer = 0 THEN pnLastTimer + 1 ELSE pnLastTimer
    /\ pnTimer' = pnLastTimer'
    /\ pnTimers' = pnTimers
    /\ UNCHANGED pnOut

\* _enqueue_delayed_entry: the timer starts anew.
Enqueue(m) ==
    /\ pnEntries' = Append(pnEntries, m)
    /\ pnLastTimer' = pnLastTimer + 1
    /\ pnTimer' = pnLastTimer + 1
    /\ pnTimers' = (pnTimers \ {pnTimer}) \union {pnLastTimer + 1}
    /\ UNCHANGED pnOut

\* Mutant: a mention is dispatched and the buffer is left to its timer, which
\* was cancelled.
FlushMentionAlone(m) ==
    /\ pnOut' = Append(pnOut, <<m>>)
    /\ pnTimers' = pnTimers \ {pnTimer}
    /\ pnTimer' = 0
    /\ UNCHANGED <<pnEntries, pnLastTimer>>

\* _flush_delayed_entries for a mention: the timer is cancelled, and what was
\* collected is dispatched with the mention.
FlushMention(m) ==
    /\ pnOut' = Append(pnOut, Append(pnEntries, m))
    /\ pnTimers' = pnTimers \ {pnTimer}
    /\ pnTimer' = 0
    /\ pnEntries' = <<>>
    /\ UNCHANGED pnLastTimer

\* A message from the notifications or from a poll.
TakeIn(m) ==
    IF m \in ElementsOf(pnSeen)
    THEN UNCHANGED <<pnSeen, buffer, pnOut>>
    ELSE /\ pnSeen' = Remembered(Append(pnSeen, m))
         /\ CASE PanelSkipped(m)                    -> UNCHANGED <<buffer, pnOut>>
              [] ~PanelSkipped(m) /\ ~pnDelay       -> pnOut' = Append(pnOut, <<m>>) /\ UNCHANGED buffer
              [] pnDelay /\ m \in pnMentions    -> FlushMention(m)
              [] pnDelay /\ m \notin pnMentions -> Enqueue(m)

\* _handle_notify_chat_message
HandleNote ==
    /\ pnState \in {"running", "stopping"}
    /\ pnNotes # <<>>
    /\ pnNotes' = Tail(pnNotes)
    /\ TakeIn(Head(pnNotes))
    /\ UNCHANGED <<pnState, policy, pnLog, pnPoll, pnDropped>>

\* The socket loses a notification.
LoseNote ==
    /\ pnNotes # <<>>
    /\ pnNotes' = Tail(pnNotes)
    /\ UNCHANGED <<pnState, policy, pnLog, pnPoll, pnSeen, buffer, pnOut, pnDropped>>

\* The worker takes the messages of an answer, the oldest first.
HandlePolled(m) ==
    /\ pnState = "running"
    /\ m \in pnPoll /\ \A n \in pnPoll : m <= n
    /\ pnPoll' = pnPoll \ {m}
    /\ TakeIn(m)
    /\ UNCHANGED <<pnState, policy, pnLog, pnNotes, pnDropped>>

\* _delay_flush_after: the sleep of a timer that was not cancelled is over.
TimerFires(n) ==
    /\ n \in pnTimers
    /\ pnTimers' = pnTimers \ {n}
    /\ pnTimer' = 0
    /\ pnOut' = IF pnEntries = <<>> THEN pnOut ELSE Append(pnOut, pnEntries)
    /\ pnEntries' = <<>>
    /\ UNCHANGED <<pnState, policy, pnLog, pnNotes, pnPoll, pnSeen, pnLastTimer, pnDropped>>

-----------------------------------------------------------------------------
(* stop *)

\* The workers have ended; _cancel_delay_timers; the socket is not closed yet.
StopPanel ==
    /\ pnState = "running"
    /\ pnState' = "stopping"
    /\ pnPoll' = {}
    /\ pnTimers' = pnTimers \ {pnTimer} /\ pnTimer' = 0
    /\ pnEntries' = <<>>
    /\ pnDropped' = pnDropped \union ElementsOf(pnEntries)
    /\ UNCHANGED <<policy, pnLog, pnNotes, pnSeen, pnLastTimer, pnOut>>

SocketClosed ==
    /\ pnState = "stopping"
    /\ pnState' = "stopped"
    /\ pnNotes' = <<>>
    /\ UNCHANGED <<policy, pnLog, pnPoll, pnSeen, buffer, pnOut, pnDropped>>

PanelNext ==
    \/ StartPanel \/ WriteInPanel \/ PollPanel \/ HandleNote \/ LoseNote
    \/ \E m \in PanelMsgs : HandlePolled(m)
    \/ \E n \in pnTimers : TimerFires(n)
    \/ StopPanel \/ SocketClosed

PanelFair(k) ==
    \/ k = 1 /\ (\E n \in pnTimers : TimerFires(n))
    \/ k = 2 /\ HandleNote
PanelFairness == \A k \in 1 .. 2 : WF_panelVars(PanelFair(k))

-----------------------------------------------------------------------------
(* Properties *)

Dispatched == UNION {ElementsOf(pnOut[i]) : i \in DOMAIN pnOut}

PanelTypeOK ==
    /\ pnState \in {"off", "running", "stopping", "stopped"}
    /\ pnDelay \in BOOLEAN /\ pnRequire \in BOOLEAN
    /\ pnMentions \subseteq PanelMsgs /\ pnPoll \subseteq PanelMsgs /\ pnDropped \subseteq PanelMsgs
    /\ pnLog \in 0 .. MaxPanelMsgs
    /\ pnNotes \in Seq(PanelMsgs) /\ pnEntries \in Seq(PanelMsgs)
    /\ pnSeen \in Seq(PanelMsgs) /\ Len(pnSeen) <= PanelWindow
    /\ pnTimer \in Nat /\ pnTimers \subseteq Nat /\ pnLastTimer \in Nat
    /\ pnOut \in Seq(Seq(PanelMsgs))

\* A message of the panel is in one place only, the buffer or one dispatch,
\* although each poll brings the last messages again and notifications overlap
\* with it.
InOnePlace ==
    /\ \A i, j \in DOMAIN pnOut : i # j => ElementsOf(pnOut[i]) \intersect ElementsOf(pnOut[j]) = {}
    /\ ElementsOf(pnEntries) \intersect Dispatched = {}
    /\ Cardinality(ElementsOf(pnEntries)) = Len(pnEntries)
    /\ \A i \in DOMAIN pnOut : Cardinality(ElementsOf(pnOut[i])) = Len(pnOut[i])

\* The buffer has a timer whenever it has messages, and no second one: a timer
\* that was restarted or cancelled by a mention does not flush early, and one
\* that is lost would leave the messages in the buffer for good.
OneTimerPerBuffer ==
    /\ pnTimers \subseteq {pnTimer}
    /\ pnEntries # <<>> => pnTimer \in pnTimers

\* A buffered message is dispatched, or discarded by stop.
BufferedIsDispatched ==
    \A m \in PanelMsgs : []<>(m \in ElementsOf(pnEntries) => m \in Dispatched \union pnDropped)
=============================================================================
