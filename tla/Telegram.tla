------------------------------ MODULE Telegram ------------------------------
(***************************************************************************)
(* channels/telegram.py, for one chat: updates are handled one at a time   *)
(* (the Application's default), each handler waits for downloads, an album *)
(* (media group) is collected in a buffer that a task forwards as one turn *)
(* 0.6 s after its first item, and a task per chat shows "typing..." until *)
(* the answer is sent.  The handler of an update and the tasks interleave  *)
(* with send and stop.                                                     *)
(***************************************************************************)
EXTENDS Naturals, Sequences, FiniteSets

CONSTANTS
    MaxUpdates,  \* bound: updates received
    ThreadCache  \* size of _message_threads (1000)

VARIABLES
    tgState,     \* "off", "running", "stopping" (stop awaits the Application), "stopped"
    tgSuspends,  \* publish_inbound suspends: the bus publishes through Redis
    tgUpdates,   \* updates the Application has not handled, oldest first
    tgHandling,  \* the update whose handler waits (download, identity), if any
    tgPending,   \* updates whose publish_inbound is suspended in the handler
    tgThreads,   \* _message_threads, oldest first
    tgBuf,       \* _media_group_buffers[key]: <<>> if the key is absent
    tgTask,      \* _media_group_tasks[key], by number; 0 if absent
    tgSleep,     \* flush tasks that sleep
    tgFlush,     \* the album a flush task is publishing, if publish_inbound suspended
    tgTyping,    \* _typing_tasks[chat_id], by number; 0 if absent
    tgTypers,    \* typing tasks that run and were not cancelled
    \* History.
    tgLast, tgTaskLast, tgTyperLast, \* updates, flush and typing tasks so far
    tgOut        \* turns published: a sequence of sequences of updates

tgTyped == <<tgTyping, tgTypers, tgTyperLast>>
tgAlbum == <<tgBuf, tgTask, tgSleep, tgFlush, tgTaskLast>>
tgVars == <<tgState, tgSuspends, tgUpdates, tgHandling, tgPending, tgThreads, tgAlbum, tgTyped, tgLast, tgOut>>

\* text stands for every message that is its own turn; other: a group message
\* that is not for the bot.
UpdateKinds == {"command", "text", "album", "other"}
Updates == [id : 1 .. MaxUpdates, kind : UpdateKinds]

TgInit ==
    /\ tgState = "off" /\ tgSuspends \in BOOLEAN
    /\ tgUpdates = <<>> /\ tgHandling = {} /\ tgPending = {} /\ tgThreads = <<>>
    /\ tgBuf = <<>> /\ tgTask = 0 /\ tgSleep = {} /\ tgFlush = <<>> /\ tgTaskLast = 0
    /\ tgTyping = 0 /\ tgTypers = {} /\ tgTyperLast = 0
    /\ tgLast = 0 /\ tgOut = <<>>

\* start, up to polling (pending updates are dropped).
TgStart ==
    /\ tgState = "off" /\ tgState' = "running"
    /\ UNCHANGED <<tgSuspends, tgUpdates, tgHandling, tgPending, tgThreads, tgAlbum, tgTyped, tgLast, tgOut>>

TgArrives(k) ==
    /\ tgState = "running" /\ tgLast < MaxUpdates
    /\ tgLast' = tgLast + 1
    /\ tgUpdates' = Append(tgUpdates, [id |-> tgLast + 1, kind |-> k])
    /\ UNCHANGED <<tgState, tgSuspends, tgHandling, tgPending, tgThreads, tgAlbum, tgTyped, tgOut>>

\* Mutant: the cache is never trimmed.
RememberAll(q, i) == Append(q, i)

\* _remember_thread_context: the oldest entry makes room.
Remember(q, i) ==
    LET r == Append(q, i) IN IF Len(r) > ThreadCache THEN Tail(r) ELSE r

\* A handler begins; it waits for the bot's identity and for downloads.
TgHandle ==
    /\ tgState \in {"running", "stopping"}
    /\ tgUpdates # <<>> /\ tgHandling = {} /\ tgPending = {}
    /\ tgHandling' = {Head(tgUpdates)} /\ tgUpdates' = Tail(tgUpdates)
    /\ tgThreads' = Remember(tgThreads, Head(tgUpdates).id)
    /\ UNCHANGED <<tgState, tgSuspends, tgPending, tgAlbum, tgTyped, tgLast, tgOut>>

\* Mutant: _start_typing does not stop the task the chat already has.
StartTypingAgain ==
    /\ tgTyperLast' = tgTyperLast + 1 /\ tgTyping' = tgTyperLast + 1
    /\ tgTypers' = tgTypers \union {tgTyperLast + 1}

\* _start_typing: the chat's task is replaced.
StartTyping ==
    /\ tgTyperLast' = tgTyperLast + 1 /\ tgTyping' = tgTyperLast + 1
    /\ tgTypers' = (tgTypers \ {tgTyping}) \union {tgTyperLast + 1}

\* _stop_typing.
StopTyping ==
    /\ tgTyping' = 0 /\ tgTypers' = tgTypers \ {tgTyping} /\ UNCHANGED tgTyperLast

\* _handle_message of the update's own turn; with Redis it suspends.
Publish(u) ==
    IF tgSuspends THEN tgPending' = {u} /\ UNCHANGED tgOut
                  ELSE tgOut' = Append(tgOut, <<u.id>>) /\ UNCHANGED tgPending

\* The test before a flush task is created: key not in _media_group_tasks.
NeedsTask == tgTask = 0

\* An item of an album: buffered, with a task that will forward the buffer.
Collect(u) ==
    /\ tgBuf' = Append(tgBuf, u.id)
    /\ IF tgBuf = <<>> THEN StartTyping ELSE UNCHANGED tgTyped
    /\ IF NeedsTask
          THEN tgTaskLast' = tgTaskLast + 1 /\ tgTask' = tgTaskLast + 1
               /\ tgSleep' = tgSleep \union {tgTaskLast + 1}
          ELSE UNCHANGED <<tgTask, tgSleep, tgTaskLast>>
    /\ UNCHANGED <<tgFlush, tgPending, tgOut>>

\* The rest of _on_message and _forward_command.
TgHandled(u) ==
    /\ u \in tgHandling /\ tgHandling' = {}
    /\ CASE u.kind = "other"   -> UNCHANGED <<tgAlbum, tgTyped, tgPending, tgOut>>
         [] u.kind = "command" -> Publish(u) /\ UNCHANGED <<tgAlbum, tgTyped>>
         [] u.kind = "text"    -> StartTyping /\ Publish(u) /\ UNCHANGED tgAlbum
         [] u.kind = "album"   -> Collect(u)
    /\ UNCHANGED <<tgState, tgSuspends, tgUpdates, tgThreads, tgLast>>

TgPublished(u) ==
    /\ u \in tgPending /\ tgPending' = {}
    /\ tgOut' = Append(tgOut, <<u.id>>)
    /\ UNCHANGED <<tgState, tgSuspends, tgUpdates, tgHandling, tgThreads, tgAlbum, tgTyped, tgLast>>

\* Mutant: the buffer is read and not taken.
TakenKept == tgBuf

\* What the flush leaves of the buffer it takes (pop).
Taken == <<>>

\* Mutant: the task stays registered.
UnregisteredNever == tgTask

\* The task leaves _media_group_tasks.
Unregistered == 0

\* _flush_media_group after its sleep: the buffer is taken and published; the
\* task leaves _media_group_tasks when that has returned.
FlushWakes(t) ==
    /\ t \in tgSleep /\ tgSleep' = tgSleep \ {t}
    /\ tgBuf' = Taken
    /\ IF tgSuspends /\ tgBuf # <<>>
          THEN tgFlush' = tgBuf /\ UNCHANGED <<tgTask, tgOut>>
          ELSE tgTask' = Unregistered /\ tgOut' = (IF tgBuf = <<>> THEN tgOut ELSE Append(tgOut, tgBuf))
               /\ UNCHANGED tgFlush
    /\ UNCHANGED <<tgState, tgSuspends, tgUpdates, tgHandling, tgPending, tgThreads, tgTyped, tgTaskLast, tgLast>>

FlushDone ==
    /\ tgFlush # <<>> /\ tgFlush' = <<>> /\ tgTask' = Unregistered
    /\ tgOut' = Append(tgOut, tgFlush)
    /\ UNCHANGED <<tgState, tgSuspends, tgUpdates, tgHandling, tgPending, tgThreads, tgBuf, tgSleep, tgTyped, tgTaskLast, tgLast>>

\* send: media and text chunks go out one after the other, failures are
\* logged; only a final answer ends the typing indicator, and does so first.
TgSend(final) ==
    /\ tgState \in {"running", "stopping"} /\ tgOut # <<>>
    /\ IF final THEN StopTyping ELSE UNCHANGED tgTyped
    /\ UNCHANGED <<tgState, tgSuspends, tgUpdates, tgHandling, tgPending, tgThreads, tgAlbum, tgLast, tgOut>>

\* Mutant: the loop does not look at _app.
TyperEndsOnError(n) ==
    /\ tgState # "stopped" /\ n \in tgTypers /\ tgTypers' = tgTypers \ {n}
    /\ UNCHANGED <<tgState, tgSuspends, tgUpdates, tgHandling, tgPending, tgThreads, tgAlbum, tgTyping, tgTyperLast, tgLast, tgOut>>

\* _typing_loop ends because the request failed, or because _app is None.
TyperEnds(n) ==
    /\ n \in tgTypers /\ tgTypers' = tgTypers \ {n}
    /\ UNCHANGED <<tgState, tgSuspends, tgUpdates, tgHandling, tgPending, tgThreads, tgAlbum, tgTyping, tgTyperLast, tgLast, tgOut>>

\* stop, up to the Application's shutdown: typing and flush tasks are
\* cancelled and the buffers are cleared.
TgStop ==
    /\ tgState = "running" /\ tgState' = "stopping"
    /\ StopTyping
    /\ tgSleep' = {} /\ tgFlush' = <<>> /\ tgTask' = 0 /\ tgBuf' = <<>>
    /\ UNCHANGED <<tgSuspends, tgUpdates, tgHandling, tgPending, tgThreads, tgTaskLast, tgLast, tgOut>>

\* The Application has handled what it had fetched and shuts down.
TgStopped ==
    /\ tgState = "stopping" /\ tgHandling = {} /\ tgPending = {} /\ tgUpdates = <<>>
    /\ tgState' = "stopped"
    /\ UNCHANGED <<tgSuspends, tgUpdates, tgHandling, tgPending, tgThreads, tgAlbum, tgTyped, tgLast, tgOut>>

TgNext ==
    \/ TgStart \/ TgStop \/ TgStopped \/ TgHandle \/ FlushDone
    \/ \E k \in UpdateKinds : TgArrives(k)
    \/ \E u \in tgHandling : TgHandled(u)
    \/ \E u \in tgPending : TgPublished(u)
    \/ \E t \in tgSleep : FlushWakes(t)
    \/ \E f \in BOOLEAN : TgSend(f)
    \/ \E n \in tgTypers : TyperEnds(n)

\* Sleeps end, requests return, and the typing loop sees that _app is None.
TgFair(k) ==
    \/ k = 1 /\ TgHandle
    \/ k = 2 /\ (\E u \in tgHandling : TgHandled(u))
    \/ k = 3 /\ (\E u \in tgPending : TgPublished(u))
    \/ k = 4 /\ (\E t \in tgSleep : FlushWakes(t))
    \/ k = 5 /\ FlushDone
    \/ k = 6 /\ TgStopped
    \/ k = 7 /\ (tgState = "stopped" /\ \E n \in tgTypers : TyperEnds(n))
TgFairness == \A k \in 1 .. 7 : WF_tgVars(TgFair(k))

TgSpec == TgInit /\ [][TgNext]_tgVars /\ TgFairness

-----------------------------------------------------------------------------
(* Properties *)

TgElems(q) == {q[i] : i \in DOMAIN q}

TgTypeOK ==
    /\ tgState \in {"off", "running", "stopping", "stopped"} /\ tgUpdates \in Seq(Updates)
    /\ Cardinality(tgHandling \union tgPending) <= 1
    /\ tgBuf \in Seq(1 .. MaxUpdates) /\ tgFlush \in Seq(1 .. MaxUpdates)
    /\ tgSleep \subseteq 1 .. tgTaskLast /\ tgTask \in 0 .. tgTaskLast
    /\ tgTypers \subseteq 1 .. tgTyperLast /\ tgTyping \in 0 .. tgTyperLast
    /\ Len(tgThreads) <= ThreadCache

\* An item is in one place: no update is forwarded twice, neither by two
\* flushes of an album nor while it is still buffered.
TurnOnce ==
    /\ TgElems(tgBuf) \cap TgElems(tgFlush) = {}
    /\ \A i \in DOMAIN tgOut :
          /\ TgElems(tgOut[i]) \cap (TgElems(tgBuf) \union TgElems(tgFlush)) = {}
          /\ \A j \in DOMAIN tgOut : i # j => TgElems(tgOut[i]) \cap TgElems(tgOut[j]) = {}

\* At most one typing task runs for the chat, and it is the registered one, so
\* that the answer or stop can end it.
OneTyper == tgTypers \subseteq {tgTyping}

\* With a bus whose publish does not suspend, every album item that was
\* buffered is forwarded, unless stop discards it.  (With Redis an item that
\* arrives while the flush publishes finds the old task still registered and
\* gets none of its own.)
AlbumForwarded ==
    \A n \in 1 .. MaxUpdates : []<>(~tgSuspends => n \notin TgElems(tgBuf))

\* Once stop has returned, no typing task is left running, although handlers
\* start some while stop waits for them.
TypingEnds == []<>(tgState = "stopped" => tgTypers = {})

=============================================================================
