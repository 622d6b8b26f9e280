---------------------------- MODULE Conversation ----------------------------
(***************************************************************************)
(* The agent loop and the channel manager together, as the gateway runs    *)
(* them (cli/commands/gateway.py): what a turn publishes goes through the  *)
(* bus's outbound queue to the dispatcher and to the channel of its chat.  *)
(* Every step of AgentLoop that publishes is taken together with           *)
(* ChannelManager's PublishOut; the other steps of both interleave.  The   *)
(* bus is the local one, where publish_outbound does not suspend; cron     *)
(* jobs and heartbeats (direct turns) and subagents stay with AgentLoop.   *)
(***************************************************************************)
EXTENDS Naturals, Sequences, FiniteSets

CONSTANTS
    CvChats,        \* chats, each of a channel of its own
    CvMaxTurns,     \* bound: messages of users
    CvMaxStops,     \* bound: /stop commands
    CvMaxExtra      \* bound: messages published in the middle of turns

ASSUME CvAssumption == CvChats # {} /\ CvMaxTurns \in Nat /\ CvMaxStops \in Nat /\ CvMaxExtra \in Nat

VARIABLES
    \* AgentLoop
    cvTurn, cvLast, cvInbound, cvLoop, cvCancelled, cvLockq, cvCtx, cvSentInTurn,
    cvSubs, cvSends, cvDirect, cvStops, cvSpawned,
    \* ChannelManager
    cvState, cvEnabled, cvShow, cvChan, cvQueue, cvTask, cvCur, cvOut, cvGiven, cvHandled,
    \* History.
    cvFrom,         \* what turns published: [id, turn, to, kind]
    cvStopping,     \* unfinished turns of the chat whose /stop is handled
    cvConfirmed     \* answers to /stop: [id, turns]

cvLoopVars == <<cvTurn, cvLast, cvInbound, cvLoop, cvCancelled, cvLockq, cvCtx, cvSentInTurn,
                cvSubs, cvSends, cvDirect, cvStops, cvSpawned>>
cvOutVars == <<cvState, cvEnabled, cvShow, cvChan, cvQueue, cvTask, cvCur, cvOut, cvGiven, cvHandled>>
cvHistory == <<cvFrom, cvStopping, cvConfirmed>>
cvVars == <<cvLoopVars, cvOutVars, cvHistory>>

CvMaxOut == CvMaxTurns + CvMaxStops + CvMaxExtra

Agent == INSTANCE AgentLoop WITH
    Chats <- CvChats, MaxTurns <- CvMaxTurns, MaxDirect <- 0, MaxStops <- CvMaxStops,
    MaxSends <- CvMaxExtra, MaxSubs <- 0,
    turn <- cvTurn, last <- cvLast, inbound <- cvInbound, loop <- cvLoop,
    cancelled <- cvCancelled, lockq <- cvLockq, ctx <- cvCtx, sent <- cvSentInTurn,
    subs <- cvSubs, sends <- cvSends, direct <- cvDirect, stops <- cvStops, spawned <- cvSpawned

Out == INSTANCE ChannelManager WITH
    Chans <- CvChats, MaxOut <- CvMaxOut,
    cmState <- cvState, cmEnabled <- cvEnabled, cmShow <- cvShow, cmChan <- cvChan,
    cmQueue <- cvQueue, cmTask <- cvTask, cmCur <- cvCur, cmLast <- cvOut,
    cmSent <- cvGiven, cmHandled <- cvHandled

CvIds == 1 .. CvMaxTurns

\* The gateway once its channels run, configured as by default; starting the
\* channels and shutting down are ChannelManager's.
CvInit ==
    /\ Agent!Init
    /\ cvState = "running" /\ cvTask = "waiting"
    /\ cvEnabled = CvChats /\ cvChan = [c \in CvChats |-> "running"]
    /\ cvShow = {"progress"}
    /\ cvQueue = <<>> /\ cvCur = {}
    /\ cvOut = 0 /\ cvGiven = [c \in CvChats |-> <<>>] /\ cvHandled = {}
    /\ cvFrom = {} /\ cvStopping = {} /\ cvConfirmed = {}

\* Turn t publishes a message to chat c.
CvPublishes(t, c, k) ==
    /\ Out!PublishOut(c, k)
    /\ cvFrom' = cvFrom \union {[id |-> cvOut + 1, turn |-> t, to |-> c, kind |-> k]}
    /\ UNCHANGED <<cvStopping, cvConfirmed>>

\* A message or a /stop comes from a channel.
CvArrive(c) ==
    /\ Agent!Arrive(c) \/ Agent!ArriveStop(c)
    /\ UNCHANGED <<cvOutVars, cvHistory>>

\* Steps of the loop and of its tasks that publish nothing.
CvLoopStep ==
    /\ Agent!Dispatch \/ (\E t \in CvIds : Agent!StopTurn(t) \/ Agent!Begin(t))
    /\ UNCHANGED <<cvOutVars, cvHistory>>

\* _handle_stop up to the wait for the tasks it cancelled.
CvHandleStop ==
    /\ Agent!HandleStop
    /\ cvStopping' = {t \in CvIds : Agent!Alive(t) /\ cvTurn[t].chat = Head(cvInbound).chat}
    /\ UNCHANGED <<cvOutVars, cvFrom, cvConfirmed>>

\* _handle_stop publishes what it has stopped.
CvStopDone ==
    /\ Agent!StopDone
    /\ Out!PublishOut(cvLoop.chat, "answer")
    /\ cvConfirmed' = cvConfirmed \union {[id |-> cvOut + 1, turns |-> cvStopping]}
    /\ cvStopping' = {}
    /\ UNCHANGED cvFrom

\* Messages published in the middle of turns so far.
CvExtra == Cardinality(cvSends) + Cardinality({m \in cvFrom : m.kind = "progress"})

\* MessageTool.run publishes through the send callback, which is
\* bus.publish_outbound.
CvSend(t) ==
    /\ CvExtra < CvMaxExtra
    /\ \/ Agent!SendMessage(t) /\ CvPublishes(t, cvCtx, "answer")
       \/ \E c \in CvChats : Agent!SendMessageTo(t, c) /\ CvPublishes(t, c, "answer")

\* _bus_progress
CvProgress(t) ==
    /\ Agent!Active(t)
    /\ CvExtra < CvMaxExtra
    /\ CvPublishes(t, cvTurn[t].chat, "progress")
    /\ UNCHANGED cvLoopVars

\* _dispatch: the response is published, unless _process_message returned None.
CvFinish(t) ==
    /\ Agent!Finish(t)
    /\ IF cvSentInTurn THEN UNCHANGED <<cvOutVars, cvHistory>>
                       ELSE CvPublishes(t, cvTurn[t].chat, "answer")

\* Mutant: an exception is only logged.
CvFailSilently(t) ==
    /\ Agent!Fail(t)
    /\ UNCHANGED <<cvOutVars, cvHistory>>

\* _dispatch: an exception is answered with an apology.
CvFail(t) ==
    /\ Agent!Fail(t)
    /\ CvPublishes(t, cvTurn[t].chat, "answer")

\* The dispatcher takes a message; its send returns or raises.
CvOutStep ==
    /\ Out!Dispatch \/ (\E m \in cvCur : Out!SendReturns(m) \/ Out!SendRaises(m))
    /\ UNCHANGED <<cvLoopVars, cvHistory>>

CvNext ==
    \/ \E c \in CvChats : CvArrive(c)
    \/ CvLoopStep \/ CvHandleStop \/ CvStopDone \/ CvOutStep
    \/ \E t \in CvIds : CvSend(t) \/ CvProgress(t) \/ CvFinish(t) \/ CvFail(t)

\* The fairness of the two components.
CvFair(k) ==
    \/ k = 1 /\ (CvLoopStep \/ CvHandleStop \/ CvStopDone)
    \/ k = 2 /\ CvOutStep
    \/ k = 3 /\ (\E t \in CvIds : CvFinish(t) \/ CvFail(t))
CvFairness == \A k \in 1 .. 3 : WF_cvVars(CvFair(k))

CvSpec == CvInit /\ [][CvNext]_cvVars /\ CvFairness

-----------------------------------------------------------------------------
(* Properties *)

\* A user who was told that her tasks are stopped hears nothing more of them:
\* in the channel, no message of a turn that was under way when /stop was
\* handled comes after the answer to /stop (_handle_stop awaits the cancelled
\* tasks, and the dispatcher keeps the order of the queue).
CvQuietAfterStop ==
    \A r \in cvConfirmed, c \in CvChats : \A i, j \in DOMAIN cvGiven[c] :
        (i < j /\ cvGiven[c][i] = r.id) =>
            \A m \in cvFrom : m.turn \in r.turns => m.id # cvGiven[c][j]

\* Every message of a user is answered end to end: its turn is stopped, or an
\* answer of that turn to its own chat is taken by the dispatcher and handed to
\* the channel, although other turns fail, sends raise and the tools' context
\* is shared.
CvEveryoneAnswered ==
    \A t \in CvIds : []<>(
        \/ cvTurn[t].state \in {"unused", "stopped"}
        \/ \E m \in cvFrom : /\ m.turn = t /\ m.to = cvTurn[t].chat /\ m.kind = "answer"
                             /\ m.id \in cvHandled)

=============================================================================
