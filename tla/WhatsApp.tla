------------------------------ MODULE WhatsApp ------------------------------
(***************************************************************************)
(* channels/whatsapp.py: the bridge subprocess that start spawns and stop  *)
(* terminates, the connection to the bridge with its reconnects, and the   *)
(* window of message ids against messages the bridge delivers again.       *)
(***************************************************************************)
EXTENDS Naturals, Sequences, FiniteSets

CONSTANTS
    WaWindow,    \* ids remembered (1000)
    WaLag,       \* bound: newer messages processed before one is delivered again
    MaxWaMsgs,   \* bound: messages sent by WhatsApp users
    MaxWaConns   \* bound: connections to the bridge

ASSUME WaAssumption == WaWindow \in Nat /\ WaLag \in Nat /\ WaLag < WaWindow

VARIABLES
    waRunning,   \* _running
    waTask,      \* start: "off", "spawning", "connecting", "listening", "backoff", "ended"
    waSpawn,     \* spawn_bridge
    waBridge,    \* the subprocess: "none", "up", "down"
    waProcess,   \* _bridge_process is set
    waWs,        \* _ws: "none", "open", "stale"
    waStop,      \* stop: "no", "closing" (the connection in use), "closingOld", "terminating", "killing", "done"
    waConnected, \* _connected
    waIds,       \* _processed_message_ids, oldest first
    \* History and bounds.
    waMsgs,      \* messages the bridge has
    waGot,       \* messages handed to the bus, in order
    waEarly,     \* stop was called while the bridge was being spawned
    waConns

waLink == <<waTask, waWs, waConnected, waConns>>
waProc == <<waSpawn, waBridge, waProcess>>
waInbox == <<waIds, waMsgs, waGot>>
waVars == <<waRunning, waLink, waProc, waStop, waInbox, waEarly>>

WaInit ==
    /\ waRunning = FALSE /\ waTask = "off" /\ waSpawn \in BOOLEAN
    /\ waBridge = (IF waSpawn THEN "none" ELSE "up") /\ waProcess = FALSE
    /\ waWs = "none" /\ waStop = "no" /\ waConnected = FALSE /\ waIds = <<>>
    /\ waMsgs = 0 /\ waGot = <<>> /\ waEarly = FALSE /\ waConns = 0

WaStart ==
    /\ waTask = "off" /\ waStop = "no"
    /\ waRunning' = TRUE /\ waTask' = IF waSpawn THEN "spawning" ELSE "connecting"
    /\ UNCHANGED <<waWs, waConnected, waConns, waProc, waStop, waInbox, waEarly>>

\* The test of the loop: while self._running.
NextPass == IF waRunning THEN "connecting" ELSE "ended"

\* spawn_isolated_whatsapp_bridge returns, or raises and is logged.
Spawned(ok) ==
    /\ waTask = "spawning" /\ waTask' = NextPass
    /\ waBridge' = (IF ok THEN "up" ELSE "none") /\ waProcess' = ok
    /\ UNCHANGED <<waRunning, waWs, waConnected, waConns, waSpawn, waStop, waInbox, waEarly>>

BridgeDies ==
    /\ waSpawn /\ waBridge = "up" /\ waBridge' = "down"
    /\ UNCHANGED <<waRunning, waLink, waSpawn, waProcess, waStop, waInbox, waEarly>>

WaConnect ==
    /\ waTask = "connecting" /\ waBridge = "up" /\ waConns < MaxWaConns
    /\ waTask' = "listening" /\ waWs' = "open" /\ waConnected' = TRUE /\ waConns' = waConns + 1
    /\ UNCHANGED <<waRunning, waProc, waStop, waInbox, waEarly>>

\* Mutant: after an error the loop connects again whatever _running says.
AfterWaErrorAlways == "connecting"

AfterWaError == IF waRunning THEN "backoff" ELSE "ended"

\* An exception, from connect or from a connection that broke.
WaError ==
    /\ \/ waTask = "connecting"
       \/ waTask = "listening"
    /\ waTask' = AfterWaError
    /\ waConnected' = FALSE /\ waWs' = "none"
    /\ UNCHANGED <<waRunning, waConns, waProc, waStop, waInbox, waEarly>>

\* The bridge closes the connection: the loop ends without an exception and
\* leaves _connected and _ws as they are.
WaClosed ==
    /\ waTask = "listening" /\ waTask' = NextPass
    /\ waWs' = (IF waWs = "open" THEN "stale" ELSE waWs)
    /\ UNCHANGED <<waRunning, waConnected, waConns, waProc, waStop, waInbox, waEarly>>

WaBackoffEnds ==
    /\ waTask = "backoff" /\ waTask' = NextPass
    /\ UNCHANGED <<waRunning, waWs, waConnected, waConns, waProc, waStop, waInbox, waEarly>>

\* Mutant: the newest id is evicted.
RememberedLast(q) == IF Len(q) > WaWindow THEN SubSeq(q, 1, Len(q) - 1) ELSE q

\* Mutant: ids are never evicted.
RememberedAll(q) == q

\* popitem(last=False) until the limit holds.
RememberedIds(q) == IF Len(q) > WaWindow THEN Tail(q) ELSE q

\* _handle_bridge_message of a message: new, or delivered again.
WaReceive(i) ==
    /\ waTask = "listening" /\ waBridge = "up"
    /\ i \in 1 .. MaxWaMsgs /\ i <= waMsgs + 1 /\ i + WaLag >= waMsgs
    /\ waMsgs' = (IF i > waMsgs THEN i ELSE waMsgs)
    /\ IF \E k \in DOMAIN waIds : waIds[k] = i
          THEN UNCHANGED <<waIds, waGot>>
          ELSE waIds' = RememberedIds(Append(waIds, i)) /\ waGot' = Append(waGot, i)
    /\ UNCHANGED <<waRunning, waLink, waProc, waStop, waEarly>>

\* A status message of the bridge.
WaStatus(up) ==
    /\ waTask = "listening" /\ waBridge = "up" /\ waConnected # up /\ waConnected' = up
    /\ UNCHANGED <<waRunning, waTask, waWs, waConns, waProc, waStop, waInbox, waEarly>>

\* What stop does once the connection is closed: terminate the process, if
\* there is one.
Terminating == IF waProcess THEN "terminating" ELSE "done"

\* stop, up to its first wait.
WaStopBegins ==
    /\ waRunning /\ waStop = "no"
    /\ waRunning' = FALSE /\ waConnected' = FALSE
    /\ waEarly' = (waTask = "spawning")
    /\ waStop' = CASE waWs = "none" -> Terminating [] waWs = "open" -> "closing" [] OTHER -> "closingOld"
    /\ UNCHANGED <<waTask, waWs, waConns, waProc, waInbox>>

\* _ws.close returns and _ws is None, also if start has connected again in the
\* meantime; only a loop that reads from the closed connection ends.
WaStopClosed ==
    /\ waStop \in {"closing", "closingOld"} /\ waStop' = Terminating /\ waWs' = "none"
    /\ waTask' = IF waTask = "listening" /\ waStop = "closing" THEN "ended" ELSE waTask
    /\ UNCHANGED <<waRunning, waConnected, waConns, waProc, waInbox, waEarly>>

\* wait() returns within 3 s: terminate was enough, or it was dead already.
Exits ==
    /\ waStop = "terminating" /\ waStop' = "done"
    /\ waBridge' = "down" /\ waProcess' = FALSE
    /\ UNCHANGED <<waRunning, waLink, waSpawn, waInbox, waEarly>>

\* Mutant: a process that does not exit is given up.
TimesOutGivesUp ==
    /\ waStop = "terminating" /\ waBridge = "up" /\ waStop' = "done" /\ waProcess' = FALSE
    /\ UNCHANGED <<waRunning, waLink, waSpawn, waBridge, waInbox, waEarly>>

\* It does not: stop kills it.
TimesOut ==
    /\ waStop = "terminating" /\ waBridge = "up" /\ waStop' = "killing"
    /\ UNCHANGED <<waRunning, waLink, waProc, waInbox, waEarly>>

Killed ==
    /\ waStop = "killing" /\ waStop' = "done" /\ waBridge' = "down" /\ waProcess' = FALSE
    /\ UNCHANGED <<waRunning, waLink, waSpawn, waInbox, waEarly>>

WaNext ==
    \/ WaStart \/ BridgeDies \/ WaConnect \/ WaError \/ WaClosed \/ WaBackoffEnds
    \/ WaStopBegins \/ WaStopClosed \/ Exits \/ TimesOut \/ Killed
    \/ \E b \in BOOLEAN : Spawned(b) \/ WaStatus(b)
    \/ \E i \in 1 .. MaxWaMsgs : WaReceive(i)

\* Requests, sleeps and the process's exit come; a connection to a bridge that
\* is gone breaks.
WaFair(k) ==
    \/ k = 1 /\ (\E b \in BOOLEAN : Spawned(b))
    \/ k = 2 /\ (WaConnect \/ (waTask = "connecting" /\ WaError))
    \/ k = 3 /\ WaBackoffEnds
    \/ k = 4 /\ WaStopClosed
    \/ k = 5 /\ (Exits \/ TimesOut)
    \/ k = 6 /\ Killed
    \/ k = 7 /\ (waBridge # "up" /\ waTask = "listening" /\ WaError)
WaFairness == \A k \in 1 .. 7 : WF_waVars(WaFair(k))

WaSpec == WaInit /\ [][WaNext]_waVars /\ WaFairness

-----------------------------------------------------------------------------
(* Properties *)

WaTypeOK ==
    /\ waTask \in {"off", "spawning", "connecting", "listening", "backoff", "ended"}
    /\ waStop \in {"no", "closing", "closingOld", "terminating", "killing", "done"}
    /\ waBridge \in {"none", "up", "down"} /\ waWs \in {"none", "open", "stale"}
    /\ Len(waIds) <= WaWindow /\ waProcess \in BOOLEAN /\ (waProcess => waSpawn)

\* A message the bridge delivers again, also on a new connection, is handed to
\* the agent once.
WaOnce == \A i, j \in DOMAIN waGot : i # j => waGot[i] # waGot[j]

\* stop leaves no bridge process behind, whether it exits, hangs or is dead,
\* unless stop was called while start was still spawning it.
BridgeReaped == (waStop = "done" /\ waSpawn /\ ~waEarly) => waBridge # "up"

\* With a bridge of its own, a channel that was told to stop ends, also when
\* stop came while it was connecting: the connection goes down with the bridge.
WaStopEnds ==
    []<>((waSpawn /\ ~waRunning /\ waTask # "off" /\ ~waEarly) => (waTask = "ended" /\ waStop = "done"))

=============================================================================
