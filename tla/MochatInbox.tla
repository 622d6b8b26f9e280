----------------------------- MODULE MochatInbox -----------------------------
(***************************************************************************)
(* How MochatChannel (channels/mochat.py) takes in the events of one       *)
(* session: answers of the polling worker, the acknowledgement of a        *)
(* subscription and the events pushed after it, the cursor with its file,  *)
(* the first answer that is taken for history, and the ids seen last.      *)
(*                                                                         *)
(* The server numbers the events of a session and delivers what comes      *)
(* after a cursor, in order, over the socket and by HTTP; the two are not  *)
(* ordered with each other.  Publishing on the bus does not suspend, so a  *)
(* payload is handled in one step.                                         *)
(***************************************************************************)
EXTENDS Integers, Sequences, FiniteSets

CONSTANTS
    Window,      \* MAX_SEEN_MESSAGE_IDS
    Limit,       \* watch_limit: events in one answer
    Lag,         \* bound: events a request, or the server's pushing, is behind
    MaxEvents,   \* bound: events of the session
    MaxRestarts  \* bound: crashes and stops

ASSUME InboxAssumption ==
    /\ Window \in Nat /\ Limit \in Nat \ {0} /\ Lag \in Nat
    /\ MaxEvents \in Nat /\ MaxRestarts \in Nat
    /\ Limit <= Lag /\ Limit <= MaxEvents
    \* Two payloads under way may each be Lag behind: with fewer ids remembered an event comes twice.
    /\ 2 * Lag < Window

VARIABLES
    ibUp,       \* the channel is running
    ibLog,      \* events the server has
    ibCursor,   \* _session_cursor[sid]; Absent if there is none
    ibFile,     \* the cursor in session_cursors.json
    ibSaving,   \* _cursor_save_task is waiting for its debounce
    ibCold,     \* sid \in _cold_sessions
    ibSeen,     \* _seen_queue, which has the same ids as _seen_set
    ibSub,      \* last event sent on the socket; Absent when not subscribed
    ibSocket,   \* payloads on the socket: an acknowledgement and pushed events
    ibHttp,     \* the answer under way to the polling worker, or none
    \* History.
    ibGot,      \* ibGot[e]: how often e was dispatched since the last start
    ibEver,     \* events dispatched, or discarded as history, at any time
    ibRestarts

inboxVars == <<ibUp, ibLog, ibCursor, ibFile, ibSaving, ibCold, ibSeen, ibSub,
               ibSocket, ibHttp, ibGot, ibEver, ibRestarts>>

Absent == -1
Events == 1 .. MaxEvents
\* The events from + 1 .. to; a watch payload also has a cursor, which is to.
Payloads == [kind : {"watch", "notify"}, from : Nat, to : Nat]
NoAnswer == [none |-> TRUE]

InboxInit ==
    /\ ibUp = FALSE
    /\ ibLog \in 0 .. Limit
    /\ ibCursor = Absent /\ ibFile = Absent
    /\ ibSaving = FALSE /\ ibCold = FALSE
    /\ ibSeen = <<>>
    /\ ibSub = Absent /\ ibSocket = <<>> /\ ibHttp = NoAnswer
    /\ ibGot = [e \in Events |-> 0]
    /\ ibEver = {}
    /\ ibRestarts = 0

Known(c) == IF c = Absent THEN 0 ELSE c
AtMost(n, m) == IF n < m THEN n ELSE m

\* The server's answer to a request with cursor c.
Since(c) == [kind |-> "watch", from |-> Known(c), to |-> AtMost(Known(c) + Limit, ibLog)]

-----------------------------------------------------------------------------

\* start: _load_session_cursors, _seed_targets_from_config.
StartInbox ==
    /\ ~ibUp
    /\ ibUp' = TRUE
    /\ ibCursor' = ibFile
    /\ ibCold' = (ibFile = Absent)
    /\ ibSeen' = <<>>
    /\ ibGot' = [e \in Events |-> 0]
    /\ UNCHANGED <<ibLog, ibFile, ibSaving, ibSub, ibSocket, ibHttp, ibEver, ibRestarts>>

\* In the code an answer has at most 100 events and the window 2000 ids: what is
\* under way is far less than the window.
UnderWay == {ibSocket[i] : i \in DOMAIN ibSocket} \union (IF ibHttp = NoAnswer THEN {} ELSE {ibHttp})
InLag(cursor, log) == log <= Known(cursor) + Lag

\* Somebody writes in the session.
PostEvent ==
    /\ ibLog < MaxEvents
    /\ \A p \in UnderWay : InLag(p.from, ibLog + 1)
    /\ ibSub # Absent => InLag(ibSub, ibLog + 1)
    /\ ibLog' = ibLog + 1
    /\ UNCHANGED <<ibUp, ibCursor, ibFile, ibSaving, ibCold, ibSeen, ibSub, ibSocket,
                   ibHttp, ibGot, ibEver, ibRestarts>>

\* _session_watch_worker sends its request and the server answers.
Watch ==
    /\ ibUp /\ ibHttp = NoAnswer
    /\ InLag(ibCursor, ibLog)
    /\ ibHttp' = Since(ibCursor)
    /\ UNCHANGED <<ibUp, ibLog, ibCursor, ibFile, ibSaving, ibCold, ibSeen, ibSub,
                   ibSocket, ibGot, ibEver, ibRestarts>>

\* _subscribe_sessions, on a new connection: the acknowledgement has the events
\* after the cursor, and what follows is pushed.
Subscribe ==
    /\ ibUp /\ ibSub = Absent
    /\ InLag(ibCursor, ibLog)
    /\ ibCold' = (ibCold \/ ibCursor = Absent)
    /\ ibSocket' = <<Since(ibCursor)>>
    /\ ibSub' = Since(ibCursor).to
    /\ UNCHANGED <<ibUp, ibLog, ibCursor, ibFile, ibSaving, ibSeen, ibHttp, ibGot, ibEver, ibRestarts>>

PushEvent ==
    /\ ibSub # Absent /\ ibSub < ibLog
    /\ ibSocket' = Append(ibSocket, [kind |-> "watch", from |-> ibSub, to |-> ibSub + 1])
    /\ ibSub' = ibSub + 1
    /\ UNCHANGED <<ibUp, ibLog, ibCursor, ibFile, ibSaving, ibCold, ibSeen, ibHttp,
                   ibGot, ibEver, ibRestarts>>

\* notify:chat.inbox.append, about an event that was pushed: no payload of the
\* session and without a cursor.
NotifyEvent ==
    /\ ibSub # Absent /\ ibSub > 0
    /\ Len(ibSocket) < Lag
    /\ ibSocket' = Append(ibSocket, [kind |-> "notify", from |-> ibSub - 1, to |-> ibSub])
    /\ UNCHANGED <<ibUp, ibLog, ibCursor, ibFile, ibSaving, ibCold, ibSeen, ibSub, ibHttp,
                   ibGot, ibEver, ibRestarts>>

\* The connection breaks: what was on it is lost.
LoseSocket ==
    /\ ibSub # Absent
    /\ ibSub' = Absent /\ ibSocket' = <<>>
    /\ UNCHANGED <<ibUp, ibLog, ibCursor, ibFile, ibSaving, ibCold, ibSeen, ibHttp,
                   ibGot, ibEver, ibRestarts>>

\* The request fails or its worker is cancelled.
LoseAnswer ==
    /\ ibHttp # NoAnswer
    /\ ibHttp' = NoAnswer
    /\ UNCHANGED <<ibUp, ibLog, ibCursor, ibFile, ibSaving, ibCold, ibSeen, ibSub,
                   ibSocket, ibGot, ibEver, ibRestarts>>

-----------------------------------------------------------------------------
(* _handle_watch_payload *)

InSeen(e) == \E i \in DOMAIN ibSeen : ibSeen[i] = e

\* Mutant: the window is one id short of an answer.
LastSeenShort(q) == SubSeq(q, IF Len(q) > Limit - 1 THEN Len(q) - Limit + 2 ELSE 1, Len(q))

\* Mutant: no id ever leaves the window.
LastSeenAll(q) == q

LastSeen(q) == SubSeq(q, IF Len(q) > Window THEN Len(q) - Window + 1 ELSE 1, Len(q))

\* The events of a payload that were not seen, in order: what
\* _remember_message_id lets through.  A payload has at most Limit events, so
\* the ids it evicts are older than its own.
NewIn(p) == {e \in p.from + 1 .. p.to : ~InSeen(e)}

\* The sequences, one for each set, that list it from the smallest on.
InOrder(S) ==
    {q \in [1 .. Cardinality(S) -> S] :
        /\ \A i, j \in DOMAIN q : i < j => q[i] < q[j]
        /\ \A e \in S : \E i \in DOMAIN q : q[i] = e}

\* Mutant: the cursor follows the payload, also back.
MarkBack(c) == ibCursor' = c

\* _mark_session_cursor
Mark(c) == ibCursor' = IF c < Known(ibCursor) THEN ibCursor ELSE c

\* _process_inbound_event, for the events of a payload.
Process(p) ==
    /\ \E q \in InOrder(NewIn(p)) : ibSeen' = LastSeen(ibSeen \o q)
    /\ ibGot' = [e \in Events |-> IF e \in NewIn(p) THEN ibGot[e] + 1 ELSE ibGot[e]]
    /\ ibEver' = ibEver \union NewIn(p)

\* The first payload of a session without a cursor is history.
Handle(p) ==
    /\ ibUp
    /\ Mark(p.to)
    /\ ibSaving' = (ibSaving \/ p.to >= Known(ibCursor))
    /\ IF ibCold
       THEN /\ ibCold' = FALSE
            /\ ibEver' = ibEver \union p.from + 1 .. p.to
            /\ UNCHANGED <<ibSeen, ibGot>>
       ELSE Process(p) /\ UNCHANGED ibCold

HandleAnswer ==
    /\ ibHttp # NoAnswer
    /\ Handle(ibHttp)
    /\ ibHttp' = NoAnswer
    /\ UNCHANGED <<ibUp, ibLog, ibFile, ibSub, ibSocket, ibRestarts>>

HandleSocket ==
    /\ ibSocket # <<>> /\ Head(ibSocket).kind = "watch"
    /\ Handle(Head(ibSocket))
    /\ ibSocket' = Tail(ibSocket)
    /\ UNCHANGED <<ibUp, ibLog, ibFile, ibSub, ibHttp, ibRestarts>>

\* _handle_notify_inbox_append, for a conversation that is known.
HandleNotify ==
    /\ ibUp
    /\ ibSocket # <<>> /\ Head(ibSocket).kind = "notify"
    /\ Process(Head(ibSocket))
    /\ ibSocket' = Tail(ibSocket)
    /\ UNCHANGED <<ibUp, ibLog, ibCursor, ibFile, ibSaving, ibCold, ibSub, ibHttp, ibRestarts>>

\* Mutant: the file has the server's newest event instead of the cursor.
SavedNewest == ibLog

\* _save_session_cursors
Saved == ibCursor

\* _save_cursor_debounced
SaveCursor ==
    /\ ibUp /\ ibSaving
    /\ ibSaving' = FALSE
    /\ ibFile' = Saved
    /\ UNCHANGED <<ibUp, ibLog, ibCursor, ibCold, ibSeen, ibSub, ibSocket, ibHttp,
                   ibGot, ibEver, ibRestarts>>

Down ==
    /\ ibUp /\ ibRestarts < MaxRestarts
    /\ ibUp' = FALSE
    /\ ibRestarts' = ibRestarts + 1
    /\ ibSaving' = FALSE /\ ibSub' = Absent /\ ibSocket' = <<>> /\ ibHttp' = NoAnswer
    /\ UNCHANGED <<ibLog, ibCursor, ibCold, ibSeen, ibGot, ibEver>>

\* stop: the cursors are saved last.
StopInbox == Down /\ ibFile' = Saved

CrashInbox == Down /\ UNCHANGED ibFile

InboxNext ==
    \/ StartInbox \/ PostEvent \/ Watch \/ Subscribe \/ PushEvent \/ NotifyEvent
    \/ LoseSocket \/ LoseAnswer
    \/ HandleAnswer \/ HandleSocket \/ HandleNotify \/ SaveCursor
    \/ StopInbox \/ CrashInbox

-----------------------------------------------------------------------------
(* Properties *)

InboxTypeOK ==
    /\ ibUp \in BOOLEAN /\ ibSaving \in BOOLEAN /\ ibCold \in BOOLEAN
    /\ ibLog \in 0 .. MaxEvents
    /\ ibCursor \in {Absent} \union 0 .. ibLog
    /\ ibFile \in {Absent} \union 0 .. ibLog
    /\ ibSub \in {Absent} \union 0 .. ibLog
    /\ ibSeen \in Seq(Events) /\ Len(ibSeen) <= Window
    /\ ibSocket \in Seq(Payloads)
    /\ ibGot \in [Events -> Nat]
    /\ ibEver \subseteq Events
    /\ ibRestarts \in 0 .. MaxRestarts

\* Overlapping answers of the worker, acknowledgements and pushes hand a message
\* to the agent at most once between two starts, although only the last ids are
\* remembered.
DispatchedOnce == \A e \in Events : ibGot[e] <= 1

\* What the cursor file claims was taken in: after a crash or a restart the
\* channel asks for events after that cursor, so every event up to it has been
\* dispatched, or was history when the channel first saw the session.
FileNeverAhead == \A e \in Events : e <= ibFile => e \in ibEver

=============================================================================
