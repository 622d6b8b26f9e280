------------------------------ MODULE AgentLoop ------------------------------
(***************************************************************************)
(* AgentLoop (agent/loop.py): the loop that consumes inbound messages and  *)
(* dispatches each as a task, the global processing lock under which those *)
(* tasks run their turn, /stop, which the loop handles itself, the turns   *)
(* of process_direct (cron jobs and heartbeats), which take no lock, and   *)
(* what all turns share: the message and spawn tools with their "current"  *)
(* chat (agent/tools/message.py, spawn.py) and the subagents               *)
(* (agent/subagent.py).                                                    *)
(*                                                                         *)
(* A chat stands for a channel and a chat id; its session key names it     *)
(* too.  A step is what a task does between two suspension points.  The    *)
(* inbound queue is the bus's, taken as a queue that does not overflow.    *)
(***************************************************************************)
EXTENDS Naturals, Sequences, FiniteSets

CONSTANTS
    Chats,      \* chats, one session each
    MaxTurns,   \* bound: turns in a behaviour, of every kind
    MaxDirect,  \* bound: process_direct turns among them
    MaxStops,   \* bound: /stop commands
    MaxSends,   \* bound: messages sent through the message tool
    MaxSubs     \* bound: subagents spawned

ASSUME LoopAssumption ==
    /\ Chats # {}
    /\ MaxTurns \in Nat /\ MaxDirect \in Nat /\ MaxStops \in Nat
    /\ MaxSends \in Nat /\ MaxSubs \in Nat

Ids == 1 .. MaxTurns

VARIABLES
    turn,       \* turn[t]: what is known of turn t
    last,       \* turns created so far
    inbound,    \* the bus's inbound queue: turns (their messages) and stops
    loop,       \* where run() is: consuming, or awaiting the tasks /stop cancelled
    cancelled,  \* turns whose task was cancelled
    lockq,      \* holder and waiters of _processing_lock
    ctx,        \* the chat in the tools' set_context
    sent,       \* MessageTool._sent_in_turn
    subs,       \* running subagents: <<number, chat of the session>>
    \* History and bounds.
    sends,      \* messages sent by the message tool: [turn, to, own]
    direct, stops, spawned

vars == <<turn, last, inbound, loop, cancelled, lockq, ctx, sent, subs,
          sends, direct, stops, spawned>>

\* user: a message of a channel; system: the announcement of a subagent, whose
\* task is registered under a key of its own ("system:<chat>"); direct: a call
\* of process_direct.
TurnKinds == {"user", "system", "direct"}

\* answered: the final content was published, or delivered by on_cron_job;
\* silent: it was withheld, because the message tool was used; failed: the
\* error answer was published (a direct turn raises to its caller instead).
Ended == {"answered", "silent", "failed", "stopped"}
TurnStates == {"unused", "queued", "waiting", "running"} \union Ended

TurnRecords == [chat : Chats, kind : TurnKinds, state : TurnStates]

QueueEntries == [type : {"turn"}, id : Ids] \union [type : {"stop"}, chat : Chats]

Sends == [turn : Ids, to : Chats, own : BOOLEAN]

Loops == [state : {"consuming", "stopping"}, chat : Chats, tasks : SUBSET Ids]

AnyChat == CHOOSE c \in Chats : TRUE

Consuming == [state |-> "consuming", chat |-> AnyChat, tasks |-> {}]

Init ==
    /\ turn = [t \in Ids |-> [chat |-> AnyChat, kind |-> "user", state |-> "unused"]]
    /\ last = 0
    /\ inbound = <<>>
    /\ loop = Consuming
    /\ cancelled = {}
    /\ lockq = <<>>
    /\ ctx = AnyChat
    /\ sent = FALSE
    /\ subs = {}
    /\ sends = {}
    /\ direct = 0 /\ stops = 0 /\ spawned = 0

-----------------------------------------------------------------------------

Alive(t) == turn[t].state \in {"waiting", "running"}

\* A turn that may take a step: running, and its task not cancelled (the
\* CancelledError is raised where the task is suspended).
Active(t) == turn[t].state = "running" /\ t \notin cancelled

SetState(t, s) == turn' = [turn EXCEPT ![t].state = s]

\* Mutant: a task that has begun its turn is no longer registered.
TasksOfWaiting(c) == {t \in Ids : turn[t].state = "waiting" /\ turn[t].kind = "user" /\ turn[t].chat = c}

\* _active_tasks[session_key]: the unfinished tasks run() created for messages
\* of the chat.
TasksOf(c) == {t \in Ids : Alive(t) /\ turn[t].kind = "user" /\ turn[t].chat = c}

\* The sequence q without its i-th element.
WithoutAt(q, i) == [j \in 1 .. Len(q) - 1 |-> IF j < i THEN q[j] ELSE q[j + 1]]

\* Leaving `async with self._processing_lock`, or its queue of waiters; a
\* process_direct turn is in neither.
Unlock(t) ==
    IF \E i \in DOMAIN lockq : lockq[i] = t
    THEN \E i \in DOMAIN lockq : lockq[i] = t /\ lockq' = WithoutAt(lockq, i)
    ELSE UNCHANGED lockq

\* A turn number for a new message or call.
NewTurn(c, kind, state) ==
    /\ last < MaxTurns
    /\ last' = last + 1
    /\ turn' = [turn EXCEPT ![last + 1] = [chat |-> c, kind |-> kind, state |-> state]]

\* A channel publishes a message on the bus.
Arrive(c) ==
    /\ NewTurn(c, "user", "queued")
    /\ inbound' = Append(inbound, [type |-> "turn", id |-> last + 1])
    /\ UNCHANGED <<loop, cancelled, lockq, ctx, sent, subs, sends, direct, stops, spawned>>

ArriveStop(c) ==
    /\ stops < MaxStops
    /\ stops' = stops + 1
    /\ inbound' = Append(inbound, [type |-> "stop", chat |-> c])
    /\ UNCHANGED <<turn, last, loop, cancelled, lockq, ctx, sent, subs, sends, direct, spawned>>

-----------------------------------------------------------------------------
(* AgentLoop.run *)

\* run: create the task of a message; it waits for the processing lock.
Dispatch ==
    /\ loop.state = "consuming"
    /\ inbound # <<>> /\ Head(inbound).type = "turn"
    /\ inbound' = Tail(inbound)
    /\ SetState(Head(inbound).id, "waiting")
    /\ lockq' = Append(lockq, Head(inbound).id)
    /\ UNCHANGED <<last, loop, cancelled, ctx, sent, subs, sends, direct, stops, spawned>>

\* Mutant: the cancelled tasks are not awaited.
HandleStopNoWait ==
    /\ loop.state = "consuming"
    /\ inbound # <<>> /\ Head(inbound).type = "stop"
    /\ inbound' = Tail(inbound)
    /\ cancelled' = cancelled \union TasksOf(Head(inbound).chat)
    /\ loop' = [state |-> "stopping", chat |-> Head(inbound).chat, tasks |-> {}]
    /\ UNCHANGED <<turn, last, lockq, ctx, sent, subs, sends, direct, stops, spawned>>

\* _handle_stop: take the session's tasks, cancel them and await them.
HandleStop ==
    /\ loop.state = "consuming"
    /\ inbound # <<>> /\ Head(inbound).type = "stop"
    /\ inbound' = Tail(inbound)
    /\ cancelled' = cancelled \union TasksOf(Head(inbound).chat)
    /\ loop' = [state |-> "stopping", chat |-> Head(inbound).chat,
                tasks |-> TasksOf(Head(inbound).chat)]
    /\ UNCHANGED <<turn, last, lockq, ctx, sent, subs, sends, direct, stops, spawned>>

\* Mutant: a cancelled task keeps the processing lock.
StopTurnLocked(t) ==
    /\ t \in cancelled /\ Alive(t)
    /\ SetState(t, "stopped")
    /\ UNCHANGED <<last, inbound, loop, cancelled, lockq, ctx, sent, subs, sends, direct, stops, spawned>>

\* _dispatch: CancelledError, in the turn or while waiting for the lock.
StopTurn(t) ==
    /\ t \in cancelled /\ Alive(t)
    /\ SetState(t, "stopped")
    /\ Unlock(t)
    /\ UNCHANGED <<last, inbound, loop, cancelled, ctx, sent, subs, sends, direct, stops, spawned>>

\* SubagentManager.cancel_by_session: the subagents end without announcement.
CancelBySession(c) == subs' = {s \in subs : s[2] # c}

\* Mutant: /stop also waits for the session's messages that are still queued.
StopDoneDrained ==
    /\ loop.state = "stopping"
    /\ \A t \in loop.tasks : ~Alive(t)
    /\ \A t \in Ids : turn[t].chat = loop.chat => turn[t].state # "queued"
    /\ CancelBySession(loop.chat)
    /\ loop' = Consuming
    /\ UNCHANGED <<turn, last, inbound, cancelled, lockq, ctx, sent, sends, direct, stops, spawned>>

\* _handle_stop, once the tasks have ended: cancel_by_session, then the answer.
StopDone ==
    /\ loop.state = "stopping"
    /\ \A t \in loop.tasks : ~Alive(t)
    /\ CancelBySession(loop.chat)
    /\ loop' = Consuming
    /\ UNCHANGED <<turn, last, inbound, cancelled, lockq, ctx, sent, sends, direct, stops, spawned>>

-----------------------------------------------------------------------------
(* Turns: _process_message *)

\* Mutant: the record of what was sent is not reset.
EnterTurnUnreset(t) ==
    /\ ctx' = turn[t].chat
    /\ UNCHANGED sent

\* Mutant: the tools keep the previous turn's chat.
EnterTurnNoContext(t) ==
    /\ UNCHANGED ctx
    /\ sent' = (turn[t].kind = "system" /\ sent)

\* _set_tool_context and, except for system messages, MessageTool.start_turn.
EnterTurn(t) ==
    /\ ctx' = turn[t].chat
    /\ sent' = (turn[t].kind = "system" /\ sent)

\* The task at the head of the lock's queue enters _process_message.
Begin(t) ==
    /\ turn[t].state = "waiting" /\ t \notin cancelled
    /\ Head(lockq) = t
    /\ SetState(t, "running")
    /\ EnterTurn(t)
    /\ UNCHANGED <<last, inbound, loop, cancelled, lockq, subs, sends, direct, stops, spawned>>

\* process_direct, up to the first LLM call.
BeginDirect(c) ==
    /\ direct < MaxDirect
    /\ direct' = direct + 1
    /\ NewTurn(c, "direct", "running")
    /\ ctx' = c
    /\ sent' = FALSE
    /\ UNCHANGED <<inbound, loop, cancelled, lockq, subs, sends, stops, spawned>>

\* MessageTool.run without a target: to the chat in the context.  own records
\* whether that is the chat of the turn that sent it.
SendMessage(t) ==
    /\ Active(t)
    /\ Cardinality(sends) < MaxSends
    /\ sends' = sends \union {[turn |-> t, to |-> ctx, own |-> ctx = turn[t].chat]}
    /\ sent' = TRUE
    /\ UNCHANGED <<turn, last, inbound, loop, cancelled, lockq, ctx, subs, direct, stops, spawned>>

\* MessageTool.run with an explicit target: it counts as sent in this turn
\* when the target is the chat in the context.
SendMessageTo(t, c) ==
    /\ Active(t)
    /\ Cardinality(sends) < MaxSends
    /\ sends' = sends \union {[turn |-> t, to |-> c, own |-> TRUE]}
    /\ sent' = (sent \/ c = ctx)
    /\ UNCHANGED <<turn, last, inbound, loop, cancelled, lockq, ctx, subs, direct, stops, spawned>>

\* Mutant: the subagent is registered under its own number.
SpawnUnkeyed(t) ==
    /\ Active(t)
    /\ spawned < MaxSubs
    /\ spawned' = spawned + 1
    /\ subs' = subs \union {<<spawned + 1, spawned + 1>>}
    /\ UNCHANGED <<turn, last, inbound, loop, cancelled, lockq, ctx, sent, sends, direct, stops>>

\* SpawnTool.run and SubagentManager.spawn, for the session in the context.
Spawn(t) ==
    /\ Active(t)
    /\ spawned < MaxSubs
    /\ spawned' = spawned + 1
    /\ subs' = subs \union {<<spawned + 1, ctx>>}
    /\ UNCHANGED <<turn, last, inbound, loop, cancelled, lockq, ctx, sent, sends, direct, stops>>

\* The end of _process_message and what _dispatch, or on_cron_job, does with
\* its result: published, unless the message tool was used.  A system message
\* is always answered.
Finish(t) ==
    /\ Active(t)
    /\ SetState(t, IF turn[t].kind # "system" /\ sent THEN "silent" ELSE "answered")
    /\ Unlock(t)
    /\ UNCHANGED <<last, inbound, loop, cancelled, ctx, sent, subs, sends, direct, stops, spawned>>

\* An exception in the turn.
Fail(t) ==
    /\ Active(t)
    /\ SetState(t, "failed")
    /\ Unlock(t)
    /\ UNCHANGED <<last, inbound, loop, cancelled, ctx, sent, subs, sends, direct, stops, spawned>>

\* _run_subagent ends, with a result or an error, and _announce_result puts it
\* on the inbound queue as a system message for the chat that spawned it.
SubagentDone(s) ==
    /\ s \in subs
    /\ subs' = subs \ {s}
    /\ NewTurn(s[2], "system", "queued")
    /\ inbound' = Append(inbound, [type |-> "turn", id |-> last + 1])
    /\ UNCHANGED <<loop, cancelled, lockq, ctx, sent, sends, direct, stops, spawned>>

Next ==
    \/ \E c \in Chats : Arrive(c) \/ ArriveStop(c) \/ BeginDirect(c)
    \/ Dispatch \/ HandleStop \/ StopDone
    \/ \E t \in Ids :
        \/ StopTurn(t) \/ Begin(t) \/ SendMessage(t) \/ Spawn(t) \/ Finish(t) \/ Fail(t)
        \/ \E c \in Chats : SendMessageTo(t, c)
    \/ \E s \in (1 .. MaxSubs) \X Chats : SubagentDone(s)

Spec == Init /\ [][Next]_vars

\* run() keeps consuming, the event loop raises a CancelledError and hands over
\* a free lock, and a turn ends (bounded iterations, LLM and tool timeouts).
Fairness ==
    /\ WF_vars(Dispatch) /\ WF_vars(HandleStop) /\ WF_vars(StopDone)
    /\ \A t \in Ids : WF_vars(StopTurn(t)) /\ WF_vars(Begin(t)) /\ WF_vars(Finish(t) \/ Fail(t))

FairSpec == Spec /\ Fairness

-----------------------------------------------------------------------------
(* Properties *)

TypeOK ==
    /\ turn \in [Ids -> TurnRecords]
    /\ last \in 0 .. MaxTurns
    /\ inbound \in Seq(QueueEntries)
    /\ loop \in Loops
    /\ cancelled \subseteq Ids
    /\ lockq \in Seq(Ids)
    /\ ctx \in Chats
    /\ sent \in BOOLEAN
    /\ subs \subseteq (Nat \X Chats)
    /\ sends \subseteq Sends
    /\ direct \in Nat /\ stops \in Nat /\ spawned \in Nat

\* Two turns that hold the processing lock never overlap, and the lock's queue
\* has exactly the turns that wait for it or hold it: a task that /stop
\* cancelled leaves neither a held lock nor a place in the queue behind.
LockExact ==
    /\ \A t \in Ids : (Alive(t) /\ turn[t].kind # "direct") <=> (\E i \in DOMAIN lockq : lockq[i] = t)
    /\ \A i, j \in DOMAIN lockq : lockq[i] = lockq[j] => i = j
    /\ \A t \in Ids : (turn[t].state = "running" /\ turn[t].kind # "direct") => Head(lockq) = t

\* As long as no process_direct turn has run, a turn whose answer is withheld
\* has itself sent a message to its chat: the user is never left without an
\* answer (_sent_in_turn, "per-turn send tracking").  A direct turn runs
\* outside of the lock and shares _sent_in_turn, so with one this fails.
AnsweredOrSent ==
    direct = 0 => \A t \in Ids : turn[t].state = "silent" =>
        \E m \in sends : m.turn = t /\ m.to = turn[t].chat

\* As long as no process_direct turn has run, a message sent without a target
\* goes to the chat of the turn that sends it ("the current message context"
\* of MessageTool.set_context).
SentToOwnChat == direct = 0 => \A m \in sends : m.own

\* When /stop has been handled, the session has none of the turns that were
\* under way when it came.
StopWaits ==
    [][(loop.state = "stopping" /\ loop'.state = "consuming") =>
          \A t \in Ids : (t \in cancelled /\ turn[t].chat = loop.chat) => ~Alive(t)]_vars

\* Every message gets its turn and every turn ends: /stop, which the loop
\* handles itself by waiting for the tasks it cancelled, blocks neither the
\* loop nor the lock for good.
TurnsEnd ==
    \A t \in Ids : (turn[t].state = "queued") ~> (turn[t].state \in Ended)

=============================================================================
