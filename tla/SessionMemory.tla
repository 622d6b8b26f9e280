---------------------------- MODULE SessionMemory ----------------------------
(***************************************************************************)
(* A conversation session (session/manager.py), the turns that append to   *)
(* it (AgentLoop._process_message and _save_turn of agent/loop.py) and the *)
(* memory consolidation that moves its old messages to HISTORY.md and      *)
(* MEMORY.md (MemoryStore.consolidate of agent/memory.py), with the three  *)
(* ways consolidation is started: the background task, the inline call of  *)
(* the context-budget check, and /new.                                     *)
(*                                                                         *)
(* A step is what a coroutine does between two suspension points; the      *)
(* suspension points are the LLM calls and the per-session consolidation   *)
(* lock.  Turns of one session are serial (AgentLoop._processing_lock, or  *)
(* the single caller of process_direct), turns of different sessions are   *)
(* not (process_direct takes no lock).  Storage is the JSONL file.         *)
(***************************************************************************)
EXTENDS Naturals, Sequences, FiniteSets

CONSTANTS
    Sessions,   \* session keys
    Window,     \* AgentLoop.memory_window
    MaxTurns,   \* bound: turns (and /new commands) in a behaviour
    MaxCrashes  \* bound: process crashes in a behaviour

ASSUME SessionAssumption ==
    /\ Window \in Nat
    /\ MaxTurns \in Nat
    /\ MaxCrashes \in Nat

VARIABLES
    messages,      \* messages[s]: Session.messages of the cached session
    lastCons,      \* lastCons[s]: Session.last_consolidated
    disk,          \* disk[s]: the session file
    turn,          \* turn[s]: the coroutine working on the session
    consolidating, \* _consolidating: keys of sessions being consolidated
    lockq,         \* lockq[s]: holder and waiters of _consolidation_locks[s]
    call,          \* call[s]: the consolidation made under the lock
    memory,        \* MEMORY.md, as the set of messages whose facts it holds
    archived,      \* messages summarised in HISTORY.md
    turns, crashes, \* how much of the bounds is used
    torn           \* a crash has cut the writing of a session file short

vars == <<messages, lastCons, disk, turn, consolidating, lockq, call,
          memory, archived, turns, crashes, torn>>

\* "call" is an assistant message with tool calls, "tool" its result.
Roles == {"user", "call", "tool", "assistant"}

Msg(t, r) == [turn |-> t, role |-> r]

Msgs == [turn : 1 .. MaxTurns, role : Roles]

\* keep_count of MemoryStore.consolidate.
Keep == Window \div 2

\* Python's seq[a:], seq[-n:] and seq[a:-n] (a stop of -0 is the stop 0).
From(seq, a) == SubSeq(seq, a + 1, Len(seq))
Last(seq, n) == IF n = 0 \/ n >= Len(seq) THEN seq
                ELSE SubSeq(seq, Len(seq) - n + 1, Len(seq))
Between(seq, a, n) == IF n = 0 \/ n > Len(seq) THEN <<>>
                      ELSE SubSeq(seq, a + 1, Len(seq) - n)

Elems(seq) == {seq[i] : i \in DOMAIN seq}

\* A consolidation waiting for the LLM: the messages in its prompt and the
\* long-term memory it read.
Calls == [old : SUBSET Msgs, mem : SUBSET Msgs]
NoCall == [old |-> {}, mem |-> {}]

Files == [msgs : Seq(Msgs), lc : Nat]
EmptyFile == [msgs |-> <<>>, lc |-> 0]

\* phase: "idle", "inline" (waiting for the inline consolidation), "llm"
\* (in _run_agent_loop), "new" (/new, waiting for the lock or its archival).
Idle == [phase |-> "idle", id |-> 0, hist |-> <<>>, inline |-> NoCall]

Turns == [phase : {"idle", "inline", "llm", "new"}, id : 0 .. MaxTurns,
          hist : Seq(Msgs), inline : Calls]

Init ==
    /\ messages = [s \in Sessions |-> <<>>]
    /\ lastCons = [s \in Sessions |-> 0]
    /\ disk = [s \in Sessions |-> EmptyFile]
    /\ turn = [s \in Sessions |-> Idle]
    /\ consolidating = {}
    /\ lockq = [s \in Sessions |-> <<>>]
    /\ call = [s \in Sessions |-> NoCall]
    /\ memory = {}
    /\ archived = {}
    /\ turns = 0
    /\ crashes = 0
    /\ torn = FALSE

-----------------------------------------------------------------------------
(* Session and MemoryStore *)

\* Session.get_history: the unconsolidated messages, at most Window of them,
\* without the messages in front of the first user message, if there is one.
GetHistory(s) ==
    LET sliced == Last(From(messages[s], lastCons[s]), Window)
        users  == {i \in DOMAIN sliced : sliced[i].role = "user"}
    IN  IF users = {} THEN sliced
        ELSE From(sliced, (CHOOSE i \in users : \A j \in users : i <= j) - 1)

\* MemoryStore.consolidate, up to the LLM call: the messages to archive, none
\* when the call returns True at once.
OldMessages(s) ==
    IF Len(messages[s]) <= Keep \/ Len(messages[s]) <= lastCons[s]
    THEN {}
    ELSE Elems(Between(messages[s], lastCons[s], Keep))

\* MemoryStore.consolidate after a successful answer: append_history, and
\* write_long_term with the LLM's "all existing facts plus new ones", existing
\* meaning the memory that was in the prompt.
Archive(c) ==
    /\ archived' = archived \union c.old
    /\ memory' = c.mem \union c.old

\* Mutant: every message in the session counts as consolidated.
AdvanceAll(s) ==
    lastCons' = [lastCons EXCEPT ![s] = Len(messages[s])]

\* Mutant: the whole window is kept back, also when the session is shorter.
AdvanceWindow(s) ==
    lastCons' = [lastCons EXCEPT ![s] = Len(messages[s]) - Window]

\* ... and the session's offset, from its length when the answer arrives.
Advance(s) ==
    lastCons' = [lastCons EXCEPT ![s] = Len(messages[s]) - Keep]

\* SessionManager.save, when it is not interrupted.
Save(s, ms, lc) == disk' = [disk EXCEPT ![s] = [msgs |-> ms, lc |-> lc]]

\* What a save cut short by a crash can leave in the file: the metadata line
\* and the first messages, or nothing that _load can read (then get_or_create
\* starts an empty session).
TornFiles(ms, lc) ==
    {[msgs |-> SubSeq(ms, 1, i), lc |-> lc] : i \in 0 .. Len(ms)} \union {EmptyFile}

-----------------------------------------------------------------------------
(* Turns *)

\* _process_message, the consolidation trigger: a task that will wait for the
\* session's lock, unless the session is already being consolidated.
Trigger(s) ==
    IF Len(messages[s]) >= lastCons[s] + Window /\ s \notin consolidating
    THEN /\ consolidating' = consolidating \union {s}
         /\ lockq' = [lockq EXCEPT ![s] = Append(@, "bg")]
    ELSE UNCHANGED <<consolidating, lockq>>

\* _process_message for an ordinary message, up to the first LLM call.  The
\* history is taken before the budget check; near the context limit the
\* session is consolidated inline, without the lock.
StartTurn(s) ==
    /\ turn[s].phase = "idle"
    /\ turns < MaxTurns
    /\ turns' = turns + 1
    /\ Trigger(s)
    /\ \/ turn' = [turn EXCEPT ![s] = [phase |-> "llm", id |-> turns',
                                         hist |-> GetHistory(s), inline |-> NoCall]]
       \/ /\ OldMessages(s) # {}
          /\ turn' = [turn EXCEPT ![s] =
                [phase |-> "inline", id |-> turns', hist |-> GetHistory(s),
                 inline |-> [old |-> OldMessages(s), mem |-> memory]]]
    /\ UNCHANGED <<messages, lastCons, disk, call, memory, archived, crashes, torn>>

\* _process_message for a message of the "system" channel (the result of a
\* subagent): neither trigger nor budget check.
StartSystemTurn(s) ==
    /\ turn[s].phase = "idle"
    /\ turns < MaxTurns
    /\ turns' = turns + 1
    /\ turn' = [turn EXCEPT ![s] = [phase |-> "llm", id |-> turns',
                                         hist |-> GetHistory(s), inline |-> NoCall]]
    /\ UNCHANGED <<messages, lastCons, disk, consolidating, lockq, call, memory, archived, crashes, torn>>

\* Mutant: a failed inline consolidation takes the offset of the file again.
InlineDoneReloads(s, ok) ==
    /\ turn[s].phase = "inline"
    /\ turn' = [turn EXCEPT ![s].phase = "llm", ![s].inline = NoCall]
    /\ IF ok THEN Archive(turn[s].inline) /\ Advance(s)
             ELSE /\ lastCons' = [lastCons EXCEPT ![s] = disk[s].lc]
                  /\ UNCHANGED <<memory, archived>>
    /\ UNCHANGED <<messages, disk, consolidating, lockq, call, turns, crashes, torn>>

\* The inline consolidation returns; the turn goes on whether it worked or not.
InlineDone(s, ok) ==
    /\ turn[s].phase = "inline"
    /\ turn' = [turn EXCEPT ![s].phase = "llm", ![s].inline = NoCall]
    /\ IF ok THEN Archive(turn[s].inline) /\ Advance(s)
             ELSE UNCHANGED <<memory, archived, lastCons>>
    /\ UNCHANGED <<messages, disk, consolidating, lockq, call, turns, crashes, torn>>

\* The messages the agent graph adds to those it is given: a final answer,
\* possibly after a round of tool calls; _save_turn skips an empty answer.
Replies(t) ==
    {<<>>, <<Msg(t, "assistant")>>, <<Msg(t, "call"), Msg(t, "tool"), Msg(t, "assistant")>>}

\* _run_agent_loop returns the messages it was given, without the system
\* prompt, and those the graph added; _save_turn saves all but the first
\* 1 + len(history).
NewMessages(hist, t, reply) ==
    From(hist \o <<Msg(t, "user")>> \o reply, 1 + Len(hist))

\* Mutant: a turn appends to the session in memory only.
FinishTurnUnsaved(s, reply) ==
    LET ms == messages[s] \o NewMessages(turn[s].hist, turn[s].id, reply)
    IN  /\ turn[s].phase = "llm"
        /\ messages' = [messages EXCEPT ![s] = ms]
        /\ turn' = [turn EXCEPT ![s] = Idle]
        /\ UNCHANGED <<lastCons, disk, consolidating, lockq, call, memory, archived, turns, crashes, torn>>

\* The end of a turn: _save_turn and SessionManager.save, one step.
FinishTurn(s, reply) ==
    LET ms == messages[s] \o NewMessages(turn[s].hist, turn[s].id, reply)
    IN  /\ turn[s].phase = "llm"
        /\ messages' = [messages EXCEPT ![s] = ms]
        /\ Save(s, ms, lastCons[s])
        /\ turn' = [turn EXCEPT ![s] = Idle]
        /\ UNCHANGED <<lastCons, consolidating, lockq, call, memory, archived, turns, crashes, torn>>

\* The turn ends without saving: the agent loop raised, or /stop cancelled
\* the task while it waited for an LLM.
AbortTurn(s) ==
    /\ turn[s].phase \in {"inline", "llm"}
    /\ turn' = [turn EXCEPT ![s] = Idle]
    /\ UNCHANGED <<messages, lastCons, disk, consolidating, lockq, call, memory, archived,
                   turns, crashes, torn>>

-----------------------------------------------------------------------------
(* The background consolidation, _consolidate_and_unlock *)

Holds(s, who) == lockq[s] # <<>> /\ Head(lockq[s]) = who

\* The end of a critical section: the lock goes to the next waiter and the
\* session's key leaves _consolidating, whoever put it there.
Release(s) ==
    /\ lockq' = [lockq EXCEPT ![s] = Tail(@)]
    /\ call' = [call EXCEPT ![s] = NoCall]
    /\ consolidating' = consolidating \ {s}

\* Mutant: a background task that has nothing to do keeps the lock.
BackgroundLockedStuck(s) ==
    /\ Holds(s, "bg") /\ call[s] = NoCall
    /\ OldMessages(s) # {}
    /\ call' = [call EXCEPT ![s] = [old |-> OldMessages(s), mem |-> memory]]
    /\ UNCHANGED <<messages, lastCons, disk, turn, consolidating, lockq, memory, archived,
                   turns, crashes, torn>>

\* The task has the lock: it calls the LLM, or has nothing to do.
BackgroundLocked(s) ==
    /\ Holds(s, "bg") /\ call[s] = NoCall
    /\ IF OldMessages(s) = {} THEN Release(s)
       ELSE /\ call' = [call EXCEPT ![s] = [old |-> OldMessages(s), mem |-> memory]]
            /\ UNCHANGED <<consolidating, lockq>>
    /\ UNCHANGED <<messages, lastCons, disk, turn, memory, archived, turns, crashes, torn>>

\* The LLM has answered, or failed (then nothing changes but the lock).
BackgroundDone(s, ok) ==
    /\ Holds(s, "bg") /\ call[s] # NoCall
    /\ IF ok THEN Archive(call[s]) /\ Advance(s)
             ELSE UNCHANGED <<memory, archived, lastCons>>
    /\ Release(s)
    /\ UNCHANGED <<messages, disk, turn, turns, crashes, torn>>

-----------------------------------------------------------------------------
(* /new *)

\* _process_message for /new: mark the session and ask for the lock.
StartNew(s) ==
    /\ turn[s].phase = "idle"
    /\ turns < MaxTurns
    /\ turns' = turns + 1
    /\ consolidating' = consolidating \union {s}
    /\ lockq' = [lockq EXCEPT ![s] = Append(@, "new")]
    /\ turn' = [turn EXCEPT ![s].phase = "new"]
    /\ UNCHANGED <<messages, lastCons, disk, call, memory, archived, crashes, torn>>

\* Session.clear, save and invalidate.
Clear(s) ==
    /\ messages' = [messages EXCEPT ![s] = <<>>]
    /\ lastCons' = [lastCons EXCEPT ![s] = 0]
    /\ Save(s, <<>>, 0)
    /\ turn' = [turn EXCEPT ![s] = Idle]

\* The lock is free: archive a copy of the unconsolidated messages, if any.
NewLocked(s) ==
    LET snapshot == Elems(From(messages[s], lastCons[s]))
    IN  /\ Holds(s, "new") /\ call[s] = NoCall
        /\ IF snapshot = {} THEN Release(s) /\ Clear(s)
           ELSE /\ call' = [call EXCEPT ![s] = [old |-> snapshot, mem |-> memory]]
                /\ UNCHANGED <<messages, lastCons, disk, turn, consolidating, lockq>>
        /\ UNCHANGED <<memory, archived, turns, crashes, torn>>

\* Mutant: the session is cleared although the archival failed.
NewDoneAlwaysClears(s, ok) ==
    /\ Holds(s, "new") /\ call[s] # NoCall
    /\ Release(s)
    /\ IF ok THEN Archive(call[s]) ELSE UNCHANGED <<memory, archived>>
    /\ Clear(s)
    /\ UNCHANGED <<turns, crashes, torn>>

\* The archival returns: clear the session, or report the failure.
NewDone(s, ok) ==
    /\ Holds(s, "new") /\ call[s] # NoCall
    /\ Release(s)
    /\ IF ok THEN Archive(call[s]) /\ Clear(s)
       ELSE /\ turn' = [turn EXCEPT ![s] = Idle]
            /\ UNCHANGED <<messages, lastCons, disk, memory, archived>>
    /\ UNCHANGED <<turns, crashes, torn>>

\* /stop cancels a /new that waits: it leaves the lock or the lock's queue,
\* where it is the last (no turn of the session starts behind it), and
\* `finally` takes the key out of _consolidating even when a background task
\* still holds the lock.
CancelNew(s) ==
    /\ turn[s].phase = "new"
    /\ IF Holds(s, "new") THEN Release(s)
       ELSE /\ lockq' = [lockq EXCEPT ![s] = SubSeq(@, 1, Len(@) - 1)]
            /\ consolidating' = consolidating \ {s}
            /\ UNCHANGED call
    /\ turn' = [turn EXCEPT ![s] = Idle]
    /\ UNCHANGED <<messages, lastCons, disk, memory, archived, turns, crashes, torn>>

-----------------------------------------------------------------------------

\* The process stops and starts again: the coroutines, the lock and the cached
\* sessions are gone, get_or_create loads d.
Restart(d) ==
    /\ crashes < MaxCrashes
    /\ crashes' = crashes + 1
    /\ disk' = d
    /\ messages' = [s \in Sessions |-> d[s].msgs]
    /\ lastCons' = [s \in Sessions |-> d[s].lc]
    /\ turn' = [s \in Sessions |-> Idle]
    /\ consolidating' = {}
    /\ lockq' = [s \in Sessions |-> <<>>]
    /\ call' = [s \in Sessions |-> NoCall]
    /\ UNCHANGED <<memory, archived, turns>>

Crash == Restart(disk) /\ UNCHANGED torn

\* A crash while FinishTurn writes the file.
CrashInSave(s, reply) ==
    /\ turn[s].phase = "llm"
    /\ torn' = TRUE
    /\ \E f \in TornFiles(messages[s] \o NewMessages(turn[s].hist, turn[s].id, reply), lastCons[s]) :
           Restart([disk EXCEPT ![s] = f])

Next ==
    \/ Crash
    \/ \E s \in Sessions :
        \/ StartTurn(s) \/ StartSystemTurn(s) \/ AbortTurn(s)
        \/ \E reply \in Replies(turn[s].id) : FinishTurn(s, reply) \/ CrashInSave(s, reply)
        \/ \E ok \in BOOLEAN : InlineDone(s, ok) \/ BackgroundDone(s, ok) \/ NewDone(s, ok)
        \/ BackgroundLocked(s)
        \/ StartNew(s) \/ NewLocked(s) \/ CancelNew(s)

Spec == Init /\ [][Next]_vars

\* The event loop runs a task whose lock is free, and every LLM call returns
\* or fails (the providers have request timeouts and a retry limit).
Fairness ==
    \A s \in Sessions :
        /\ WF_vars(BackgroundLocked(s)) /\ WF_vars(NewLocked(s))
        /\ WF_vars(\E ok \in BOOLEAN : BackgroundDone(s, ok))
        /\ WF_vars(\E ok \in BOOLEAN : NewDone(s, ok))

FairSpec == Spec /\ Fairness

-----------------------------------------------------------------------------
(* Properties *)

TypeOK ==
    /\ messages \in [Sessions -> Seq(Msgs)]
    /\ lastCons \in [Sessions -> Nat]
    /\ disk \in [Sessions -> Files]
    /\ turn \in [Sessions -> Turns]
    /\ consolidating \subseteq Sessions
    /\ lockq \in [Sessions -> Seq({"bg", "new"})]
    /\ call \in [Sessions -> Calls]
    /\ memory \subseteq Msgs
    /\ archived \subseteq Msgs
    /\ turns \in 0 .. MaxTurns
    /\ crashes \in 0 .. MaxCrashes
    /\ torn \in BOOLEAN

\* Consolidation leaves the LLM something to work with: the last Keep messages
\* of a session are never marked as consolidated, although the offset is
\* computed after the LLM answered, when turns, the inline call and the
\* background task may all have moved it (MemoryStore.consolidate).
RecentKept ==
    ~torn => \A s \in Sessions : lastCons[s] = 0 \/ lastCons[s] + Keep <= Len(messages[s])

\* Nothing a user saw answered is lost by a crash between steps: the file has
\* every message of the session, only its consolidation offset may be behind
\* (SessionManager.save at the end of a turn and of /new; consolidate does not
\* save).
Durable ==
    ~torn => \A s \in Sessions : disk[s].msgs = messages[s] /\ disk[s].lc <= lastCons[s]

\* /new discards no unconsolidated message that was not archived, although a
\* background task may hold the lock, and finish, while /new waits.
NewArchivesFirst ==
    [][\A s \in Sessions :
         (messages[s] # <<>> /\ messages'[s] = <<>> /\ crashes' = crashes)
            => Elems(From(messages[s], lastCons[s])) \subseteq archived']_vars

\* Consolidation never goes back: outside /new and restarts the offset only
\* grows, so two consolidations of a session that overlap do not show the LLM
\* again what it was told is archived.
OffsetGrows ==
    [][\A s \in Sessions :
         (messages'[s] # <<>> /\ crashes' = crashes) => lastCons[s] <= lastCons'[s]]_vars

\* A session does not stay marked as being consolidated, which would disable
\* consolidation for good, and /new gets its answer.
ConsolidationEnds ==
    \A s \in Sessions :
        /\ (s \in consolidating) ~> (s \notin consolidating)
        /\ (turn[s].phase = "new") ~> (turn[s].phase = "idle")

\* _save_turn is documented to "Save new-turn messages into session": an
\* answer in the session is preceded by the user message it answers.
TurnSavedWhole ==
    \A s \in Sessions : \A i \in DOMAIN messages[s] :
        messages[s][i].role = "assistant" =>
            \E j \in 1 .. i - 1 : messages[s][j] = Msg(messages[s][i].turn, "user")

\* Session.last_consolidated is documented as the "Number of messages already
\* consolidated to files": the messages below it have been archived.
ConsolidatedIsArchived ==
    \A s \in Sessions : \A i \in 1 .. lastCons[s] :
        i <= Len(messages[s]) => messages[s][i] \in archived

=============================================================================
