--------------------------- MODULE ChannelManager ---------------------------
(***************************************************************************)
(* The channel manager of channels/manager.py: it starts one task per      *)
(* channel and the dispatcher, which takes outbound messages from the bus  *)
(* one at a time and hands each to its channel.  A send that raises is     *)
(* logged and the message is dropped; stop_all cancels the dispatcher,     *)
(* waits for it, and then stops the channels one after the other.          *)
(***************************************************************************)
EXTENDS Naturals, Sequences, FiniteSets

CONSTANTS
    Chans,       \* names of channels messages are addressed to
    MaxOut       \* bound: outbound messages published

ASSUME ChannelManagerAssumption == MaxOut \in Nat

VARIABLES
    cmState,     \* "off", "running", "stopping", "stopped": stop_all
    cmEnabled,   \* channels: the dictionary _init_channels fills
    cmShow,      \* send_progress and send_tool_hints, as the set of kinds let through
    cmChan,      \* cmChan[c]: "off", "running", "failed" (start raised), "stopped"
    cmQueue,     \* the bus's outbound queue
    cmTask,      \* the dispatcher: "none", "waiting", "sending", "cancelled", "done"
    cmCur,       \* the message in channel.send, if any
    \* History.
    cmLast,      \* messages published so far
    cmSent,      \* cmSent[c]: messages channel c was given and accepted, in order
    cmHandled    \* messages the dispatcher is done with, by id

cmVars == <<cmState, cmEnabled, cmShow, cmChan, cmQueue, cmTask, cmCur, cmLast, cmSent, cmHandled>>

OutKinds == {"answer", "progress", "tool_hint"}
OutMsgs == [id : 1 .. MaxOut, chan : Chans, kind : OutKinds]

CmInit ==
    /\ cmState = "off"
    /\ cmEnabled \in SUBSET Chans
    /\ cmShow \in SUBSET {"progress", "tool_hint"}
    /\ cmChan = [c \in Chans |-> "off"]
    /\ cmQueue = <<>> /\ cmTask = "none" /\ cmCur = {}
    /\ cmLast = 0 /\ cmSent = [c \in Chans |-> <<>>] /\ cmHandled = {}

\* start_all: without channels it starts nothing, the dispatcher included.
StartAll ==
    /\ cmState = "off"
    /\ cmState' = "running"
    /\ cmTask' = IF cmEnabled = {} THEN "none" ELSE "waiting"
    /\ UNCHANGED <<cmEnabled, cmShow, cmChan, cmQueue, cmCur, cmLast, cmSent, cmHandled>>

\* _start_channel: what start raises is logged and concerns no other channel.
StartOneChannel(c) ==
    /\ cmState # "off" /\ c \in cmEnabled /\ cmChan[c] = "off"
    /\ cmChan' \in {[cmChan EXCEPT ![c] = r] : r \in {"running", "failed"}}
    /\ UNCHANGED <<cmState, cmEnabled, cmShow, cmQueue, cmTask, cmCur, cmLast, cmSent, cmHandled>>

\* The agent publishes an outbound message.
PublishOut(c, k) ==
    /\ cmState # "off" /\ cmLast < MaxOut
    /\ cmLast' = cmLast + 1
    /\ cmQueue' = Append(cmQueue, [id |-> cmLast + 1, chan |-> c, kind |-> k])
    /\ UNCHANGED <<cmState, cmEnabled, cmShow, cmChan, cmTask, cmCur, cmSent, cmHandled>>

\* The dispatcher's tests: progress and tool hints only if configured, and a
\* message for an unknown channel is only logged.
PassedOn(m) == (m.kind = "answer" \/ m.kind \in cmShow) /\ m.chan \in cmEnabled

\* consume_outbound returns; the loop runs up to channel.send or the next wait.
Dispatch ==
    /\ cmTask = "waiting" /\ cmQueue # <<>>
    /\ cmQueue' = Tail(cmQueue)
    /\ IF PassedOn(Head(cmQueue))
          THEN cmTask' = "sending" /\ cmCur' = {Head(cmQueue)} /\ UNCHANGED cmHandled
          ELSE cmHandled' = cmHandled \union {Head(cmQueue).id} /\ UNCHANGED <<cmTask, cmCur>>
    /\ UNCHANGED <<cmState, cmEnabled, cmShow, cmChan, cmLast, cmSent>>

\* channel.send returns.
SendReturns(m) ==
    /\ cmTask = "sending" /\ m \in cmCur
    /\ cmTask' = "waiting" /\ cmCur' = {} /\ cmHandled' = cmHandled \union {m.id}
    /\ cmSent' = [cmSent EXCEPT ![m.chan] = Append(@, m.id)]
    /\ UNCHANGED <<cmState, cmEnabled, cmShow, cmChan, cmQueue, cmLast>>

\* Mutant: what channel.send raises ends the dispatcher.
SendRaisesThrough(m) ==
    /\ cmTask = "sending" /\ m \in cmCur
    /\ cmTask' = "done" /\ cmCur' = {} /\ cmHandled' = cmHandled \union {m.id}
    /\ UNCHANGED <<cmState, cmEnabled, cmShow, cmChan, cmQueue, cmLast, cmSent>>

\* Mutant: the message of a failed send is queued again.
SendRaisesRetried(m) ==
    /\ cmTask = "sending" /\ m \in cmCur
    /\ cmTask' = "waiting" /\ cmCur' = {} /\ cmQueue' = Append(cmQueue, m)
    /\ UNCHANGED <<cmState, cmEnabled, cmShow, cmChan, cmLast, cmSent, cmHandled>>

\* channel.send raises: logged, and the message is gone.
SendRaises(m) ==
    /\ cmTask = "sending" /\ m \in cmCur
    /\ cmTask' = "waiting" /\ cmCur' = {} /\ cmHandled' = cmHandled \union {m.id}
    /\ UNCHANGED <<cmState, cmEnabled, cmShow, cmChan, cmQueue, cmLast, cmSent>>

\* Mutant: the dispatcher is not cancelled.
StopAllUncancelled ==
    /\ cmState = "running"
    /\ cmState' = "stopping"
    /\ UNCHANGED <<cmEnabled, cmShow, cmChan, cmQueue, cmTask, cmCur, cmLast, cmSent, cmHandled>>

\* stop_all up to the wait for the dispatcher.
StopAll ==
    /\ cmState = "running"
    /\ cmState' = "stopping"
    /\ cmTask' = IF cmTask = "none" THEN "none" ELSE "cancelled"
    /\ UNCHANGED <<cmEnabled, cmShow, cmChan, cmQueue, cmCur, cmLast, cmSent, cmHandled>>

\* CancelledError reaches the dispatcher, in its wait or through channel.send
\* (whose request may have been made), and ends it.
DispatcherEnds ==
    /\ cmTask = "cancelled"
    /\ cmTask' = "done" /\ cmCur' = {}
    /\ cmSent' \in {cmSent} \union {[cmSent EXCEPT ![m.chan] = Append(@, m.id)] : m \in cmCur}
    /\ UNCHANGED <<cmState, cmEnabled, cmShow, cmChan, cmQueue, cmLast, cmHandled>>

\* Mutant: the channels are stopped without waiting for the dispatcher.
MayStopChannelsAtOnce == cmState = "stopping"

\* stop_all goes on when the task it cancelled has ended.
MayStopChannels == cmState = "stopping" /\ cmTask \in {"none", "done"}

\* channel.stop returns or raises; either way the next channel is stopped.
StopNextChannel(c) ==
    /\ MayStopChannels /\ c \in cmEnabled /\ cmChan[c] # "stopped"
    /\ cmChan' = [cmChan EXCEPT ![c] = "stopped"]
    /\ cmState' = IF \A d \in cmEnabled \ {c} : cmChan[d] = "stopped" THEN "stopped" ELSE "stopping"
    /\ UNCHANGED <<cmEnabled, cmShow, cmQueue, cmTask, cmCur, cmLast, cmSent, cmHandled>>

CmNext ==
    \/ StartAll \/ StopAll \/ DispatcherEnds \/ Dispatch
    \/ \E c \in Chans : StartOneChannel(c) \/ StopNextChannel(c)
    \/ \E c \in Chans, k \in OutKinds : PublishOut(c, k)
    \/ \E m \in cmCur : SendReturns(m) \/ SendRaises(m)

\* Tasks that can run do, and a send returns, raises or is cancelled (the
\* adapters have timeouts).
CmFair(k) ==
    \/ k = 1 /\ Dispatch
    \/ k = 2 /\ DispatcherEnds
    \/ k = 3 /\ (\E m \in cmCur : SendReturns(m) \/ SendRaises(m))
    \/ k = 4 /\ (\E c \in Chans : StopNextChannel(c))
CmFairness == \A k \in 1 .. 4 : WF_cmVars(CmFair(k))

CmSpec == CmInit /\ [][CmNext]_cmVars /\ CmFairness

-----------------------------------------------------------------------------
(* Properties *)

CmTypeOK ==
    /\ cmState \in {"off", "running", "stopping", "stopped"}
    /\ cmEnabled \subseteq Chans /\ cmChan \in [Chans -> {"off", "running", "failed", "stopped"}]
    /\ cmQueue \in Seq(OutMsgs) /\ cmCur \subseteq OutMsgs /\ Cardinality(cmCur) <= 1
    /\ cmTask \in {"none", "waiting", "sending", "cancelled", "done"}
    /\ cmTask \in {"waiting", "sending"} => cmState = "running"
    /\ cmSent \in [Chans -> Seq(1 .. MaxOut)] /\ cmHandled \subseteq 1 .. MaxOut

\* However sends fail and whichever channels are slow, a channel gets its
\* messages in the order they were published, each at most once.
ChannelOrder ==
    \A c \in Chans : \A i, j \in DOMAIN cmSent[c] : i < j => cmSent[c][i] < cmSent[c][j]

\* One channel's failing sends do not keep the messages of the others from
\* their channels: while the manager runs with a channel, every published
\* message is handled (_dispatch_outbound survives what channel.send raises).
OutboundHandled ==
    \A n \in 1 .. MaxOut :
        []<>(n <= cmLast => (n \in cmHandled \/ cmState # "running" \/ cmEnabled = {}))

\* A channel that was stopped is not given another message: the dispatcher has
\* ended before the first channel is stopped (stop_all awaits the task).
NoSendAfterStop ==
    [][\A c \in Chans : cmChan[c] = "stopped" => cmSent'[c] = cmSent[c]]_cmVars

=============================================================================
