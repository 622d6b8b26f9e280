----------------------------- MODULE MCRuntime ------------------------------
(***************************************************************************)
(* What runs beside the agent loop, and the loop with it: the outbound     *)
(* dispatcher, supervisor, heartbeats, subagent pool, sandboxes, plugins,  *)
(* the inference proxy, and the agent loop together with the dispatcher. A *)
(* behaviour follows one of them, chosen by part: the parts share no       *)
(* state, so one run checks them all. The constants of each module are     *)
(* bounded so that the cases its properties are about occur.               *)
(***************************************************************************)
EXTENDS ChannelManager, Heartbeats, SubagentPool, Sandbox, Extensions,
    Inference, Supervisor, Conversation

CONSTANT Parts

VARIABLE part

all == <<part, cmVars, hbVars, spVars, sbVars, xtVars, inVars, supVars, cvVars>>

Init ==
    /\ part \in Parts
    \* A part that is not followed has one configuration.
    /\ IF part = "ChannelManager" THEN TRUE ELSE cmEnabled = {} /\ cmShow = {}
    /\ CmInit /\ HbInit /\ SpInit /\ SbInit /\ XtInit /\ InInit /\ SupInit /\ CvInit

Next ==
    \/ part = "ChannelManager" /\ CmNext /\ UNCHANGED <<part, hbVars, spVars, sbVars, xtVars, inVars, supVars, cvVars>>
    \/ part = "Heartbeats" /\ HbNext /\ UNCHANGED <<part, cmVars, spVars, sbVars, xtVars, inVars, supVars, cvVars>>
    \/ part = "SubagentPool" /\ SpNext /\ UNCHANGED <<part, cmVars, hbVars, sbVars, xtVars, inVars, supVars, cvVars>>
    \/ part = "Sandbox" /\ SbNext /\ UNCHANGED <<part, cmVars, hbVars, spVars, xtVars, inVars, supVars, cvVars>>
    \/ part = "Extensions" /\ XtNext /\ UNCHANGED <<part, cmVars, hbVars, spVars, sbVars, inVars, supVars, cvVars>>
    \/ part = "Inference" /\ InNext /\ UNCHANGED <<part, cmVars, hbVars, spVars, sbVars, xtVars, supVars, cvVars>>
    \/ part = "Supervisor" /\ SupNext /\ UNCHANGED <<part, cmVars, hbVars, spVars, sbVars, xtVars, inVars, cvVars>>
    \/ part = "Conversation" /\ CvNext /\ UNCHANGED <<part, cmVars, hbVars, spVars, sbVars, xtVars, inVars, supVars>>

Spec ==
    /\ Init /\ [][Next]_all
    /\ CmFairness /\ HbFairness /\ SpFairness /\ SbFairness /\ XtFairness /\ InFairness /\ SupFairness /\ CvFairness

\* Each running thing is known and there is one of it: one task per service
\* and one heartbeat loop, no worker beyond the slots of the pool and none
\* forgotten, no pending call without a caller, a plugin reader that lives,
\* no plugin process or command left behind, messages of a channel sent in
\* order.
NothingStray ==
    /\ SupTypeOK /\ OneTask
    /\ HbOneLoop
    /\ SpSlotsKept /\ SpCleanedUp
    /\ XtPendingExact /\ XtReaderLives /\ XtNoOrphan
    /\ SbNothingLeft
    /\ CmTypeOK /\ ChannelOrder

\* A failure stays where it is: crash loops are cut, a process is declared
\* dead only when it was silent long enough and is recovered a limited number
\* of times, one failing listener, sandbox layer, plugin, job or MCP server
\* does not take another along, an answer goes to its own call, a
\* cancellation is told from an error, a stopped turn is not heard of after
\* the answer to /stop; archives and paths stay inside their bounds;
\* redaction leaves no match and errors are retried only when that can help.
FailuresContained ==
    /\ CrashLoopCut
    /\ HbDeadRightly /\ HbBreakerHolds
    /\ SpEveryListener
    /\ SbLayersIndependent /\ SbFilterExact /\ SbContained /\ SbUnpackBounded
    /\ XtOwnAnswer /\ XtCapsHold /\ XtAllDueRan /\ XtServersIndependent /\ XtCancelRight
    /\ InRedacted /\ InRetryRight
    /\ CvQuietAfterStop

\* Steps that must never happen: a stopped channel is sent a message, the
\* supervisor's stop returns with a service alive, an answer of an RPC call
\* changes after its end, a cancelled job is run, a provider is skipped that
\* did not fail often and recently enough.
NothingAfterEnd ==
    /\ NoSendAfterStop
    /\ StopLeavesNone
    /\ SpAnswerIsFinal
    /\ XtCancelledNotRun
    /\ InSkipsRecent

\* What was begun ends: every outbound message is handled and every user
\* answered end to end, a crash is noticed and the service restarted or given
\* up, heartbeats go on after errors and a silent process is noticed, every
\* task of the pool, plugin call, shell command and inference request ends.
EverythingEnds ==
    /\ OutboundHandled
    /\ CrashReported
    /\ HbKeepsBeating /\ HbSilenceNoticed
    /\ SpEveryTaskEnds
    /\ SbToolAnswers
    /\ XtCallsEnd
    /\ InRequestsEnd
    /\ CvEveryoneAnswered
=============================================================================
