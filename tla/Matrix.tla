------------------------------- MODULE Matrix -------------------------------
(***************************************************************************)
(* channels/matrix.py, one room: the sync loop runs the handlers of events *)
(* one after the other (external: matrix-nio), the dispatcher calls send,  *)
(* and both start and stop the room's typing keepalive, as does stop.      *)
(***************************************************************************)
EXTENDS Naturals, FiniteSets

CONSTANTS
    Files,        \* attachments an answer can have
    MaxMxMsgs,    \* bound: messages in the room
    MaxSyncs      \* bound: runs of sync_forever

VARIABLES
    mxRunning,    \* _running
    mxPolicy,     \* config.group_policy
    mxSync,       \* _sync_task: "off", "sync", "sleep", "done"
    mxSyncs,      \* runs of sync_forever so far
    mxHandler,    \* the handler: "none", "fetch" (a download), "unregister" and
                  \* "notice" (in _start_typing_keepalive), "publish", "undo" (its except)
    mxMsgs,       \* messages in the room so far
    mxTyper,      \* _typing_tasks[room], 0 if there is none
    mxTypers,     \* keepalive tasks that have not ended
    mxLast,       \* the newest keepalive
    mxOpen,       \* messages handed to the agent and not answered
    mxSend,       \* send: "none", "files", "text", "untype"
    mxFiles,      \* attachments of the answer not yet tried
    mxFailed,     \* its failures
    mxStop,       \* stop: "none", "typing", "grace", "cancel", "closed"
    \* History.
    mxAnswer,     \* the attachments of the answer that is being sent
    mxSent,       \* those the room has
    mxTold        \* failures named in the text the room got

mxVars == <<mxRunning, mxPolicy, mxSync, mxSyncs, mxHandler, mxMsgs, mxTyper, mxTypers, mxLast,
            mxOpen, mxSend, mxFiles, mxFailed, mxStop, mxAnswer, mxSent, mxTold>>
syncing == <<mxRunning, mxPolicy, mxSync, mxSyncs>>
typing == <<mxTyper, mxTypers, mxLast>>
sending == <<mxSend, mxFiles, mxFailed, mxAnswer, mxSent, mxTold>>

MxInit ==
    /\ mxRunning = FALSE /\ mxPolicy \in {"open", "allowlist", "mention"} /\ mxSync = "off" /\ mxSyncs = 0
    /\ mxHandler = "none" /\ mxMsgs = 0 /\ mxTyper = 0 /\ mxTypers = {} /\ mxLast = 0
    /\ mxOpen = 0 /\ mxSend = "none" /\ mxFiles = {} /\ mxFailed = {} /\ mxStop = "none"
    /\ mxAnswer = {} /\ mxSent = {} /\ mxTold = {}

MxStart ==
    /\ mxSync = "off" /\ mxSync' = "sync" /\ mxSyncs' = 1 /\ mxRunning' = TRUE
    /\ UNCHANGED <<mxPolicy, mxHandler, mxMsgs, typing, mxOpen, sending, mxStop>>

\* sync_forever raised, between two handlers or out of one.
SyncRaises == mxSync' = "sleep" /\ mxHandler' = "none"

MxSyncError ==
    /\ mxSync = "sync" /\ mxHandler = "none" /\ SyncRaises
    /\ UNCHANGED <<mxRunning, mxPolicy, mxSyncs, mxMsgs, typing, mxOpen, sending, mxStop>>

\* The sleep is over; _sync_loop tests _running.
MxSyncAgain ==
    /\ mxSync = "sleep"
    /\ IF mxRunning THEN mxSyncs < MaxSyncs /\ mxSync' = "sync" /\ mxSyncs' = mxSyncs + 1
                    ELSE mxSync' = "done" /\ UNCHANGED mxSyncs
    /\ UNCHANGED <<mxRunning, mxPolicy, mxHandler, mxMsgs, typing, mxOpen, sending, mxStop>>

-----------------------------------------------------------------------------
(* The handlers *)

Mentions == [allowed : BOOLEAN, direct : BOOLEAN, listed : BOOLEAN, mentioned : BOOLEAN]

\* _should_process_message
ShouldProcess(e) ==
    /\ e.allowed
    /\ \/ e.direct \/ mxPolicy = "open"
       \/ mxPolicy = "allowlist" /\ e.listed
       \/ mxPolicy = "mention" /\ e.mentioned

\* _on_message and _on_media_message, up to the first await.  A message that
\* is not for the bot has no effect.
MxArrives(e) ==
    /\ mxSync = "sync" /\ mxHandler = "none" /\ mxMsgs < MaxMxMsgs /\ ShouldProcess(e)
    /\ mxMsgs' = mxMsgs + 1 /\ mxHandler' \in {"fetch", "unregister"}
    /\ UNCHANGED <<syncing, typing, mxOpen, sending, mxStop>>

\* _fetch_media_attachment returns, with the file or with a note for the agent.
MxFetched ==
    /\ mxHandler = "fetch" /\ mxHandler' = "unregister"
    /\ UNCHANGED <<syncing, mxMsgs, typing, mxOpen, sending, mxStop>>

\* The download raised.
MxFetchRaises ==
    /\ mxHandler = "fetch" /\ SyncRaises
    /\ UNCHANGED <<mxRunning, mxPolicy, mxSyncs, mxMsgs, typing, mxOpen, sending, mxStop>>

\* Mutant: the old keepalive is not ended.
UnregisterNot == UNCHANGED <<mxTyper, mxTypers, mxLast>>

\* _stop_typing_keepalive: the registered task is cancelled, and ends before
\* the call goes on.
Unregister == mxTypers' = mxTypers \ {mxTyper} /\ mxTyper' = 0 /\ UNCHANGED mxLast

MxUnregisters ==
    /\ mxHandler = "unregister" /\ Unregister /\ mxHandler' = "notice"
    /\ UNCHANGED <<syncing, mxMsgs, mxOpen, sending, mxStop>>

\* Mutant: a keepalive is started although the channel was stopped.
KeepAliveAlways == mxTyper' = mxLast + 1 /\ mxTypers' = mxTypers \union {mxLast + 1} /\ mxLast' = mxLast + 1

\* _start_typing_keepalive after _set_typing: a new task, unless the channel
\* was stopped while it waited.
KeepAlive ==
    IF mxRunning THEN mxTyper' = mxLast + 1 /\ mxTypers' = mxTypers \union {mxLast + 1} /\ mxLast' = mxLast + 1
                 ELSE UNCHANGED typing

MxNoticed ==
    /\ mxHandler = "notice" /\ KeepAlive /\ mxHandler' = "publish"
    /\ UNCHANGED <<syncing, mxMsgs, mxOpen, sending, mxStop>>

\* _handle_message returns.
MxPublished ==
    /\ mxHandler = "publish" /\ mxHandler' = "none" /\ mxOpen' = mxOpen + 1
    /\ UNCHANGED <<syncing, mxMsgs, typing, sending, mxStop>>

\* Mutant: the handler does not end the keepalive it started.
PublishRaisesTyping ==
    /\ mxHandler = "publish" /\ mxHandler' = "undo"
    /\ UNCHANGED <<syncing, mxMsgs, typing, mxOpen, sending, mxStop>>

\* Mutant: the handler starts again.
PublishRaisesAgain ==
    /\ mxHandler = "publish" /\ Unregister /\ mxHandler' = "notice"
    /\ UNCHANGED <<syncing, mxMsgs, mxOpen, sending, mxStop>>

\* It raises: the keepalive is ended.
PublishRaises ==
    /\ mxHandler = "publish" /\ Unregister /\ mxHandler' = "undo"
    /\ UNCHANGED <<syncing, mxMsgs, mxOpen, sending, mxStop>>

MxUndone ==
    /\ mxHandler = "undo" /\ SyncRaises
    /\ UNCHANGED <<mxRunning, mxPolicy, mxSyncs, mxMsgs, typing, mxOpen, sending, mxStop>>

-----------------------------------------------------------------------------
(* send *)

\* The answer to a message, with attachments F (_collect_outbound_media_candidates).
MxSend(F) ==
    /\ mxOpen > 0 /\ mxSend = "none" /\ mxOpen' = mxOpen - 1
    /\ mxSend' = "files" /\ mxFiles' = F /\ mxFailed' = {}
    /\ mxAnswer' = F /\ mxSent' = {} /\ mxTold' = {}
    /\ UNCHANGED <<syncing, mxHandler, mxMsgs, typing, mxStop>>

\* Mutant: a failure is not remembered.
FailureDropped(f) == UNCHANGED mxFailed

Failure(f) == mxFailed' = mxFailed \union {f}

\* _upload_and_send_attachment returns None or a note.
MxAttach(f) ==
    /\ mxSend = "files" /\ f \in mxFiles /\ mxFiles' = mxFiles \ {f}
    /\ \/ mxSent' = mxSent \union {f} /\ UNCHANGED mxFailed
       \/ Failure(f) /\ UNCHANGED mxSent
    /\ UNCHANGED <<syncing, mxHandler, mxMsgs, typing, mxOpen, mxSend, mxStop, mxAnswer, mxTold>>

\* Nothing to say besides the attachments.
NoText(blank) == blank /\ mxAnswer # {} /\ mxFailed = {}

\* The text, with the failures; room_send returns or raises.
MxText(blank) ==
    /\ mxSend = "files" /\ mxFiles = {}
    /\ mxSend' = "untype"
    /\ mxTold' = IF NoText(blank) THEN {} ELSE mxFailed
    /\ UNCHANGED <<syncing, mxHandler, mxMsgs, typing, mxOpen, mxFiles, mxFailed, mxStop, mxAnswer, mxSent>>

MxTextRaises ==
    /\ mxSend = "files" /\ mxFiles = {}
    /\ mxSend' = "untype" /\ mxTold' = Files
    /\ UNCHANGED <<syncing, mxHandler, mxMsgs, typing, mxOpen, mxFiles, mxFailed, mxStop, mxAnswer, mxSent>>

\* The finally clause.
MxUntype ==
    /\ mxSend = "untype" /\ Unregister /\ mxSend' = "none"
    /\ UNCHANGED <<syncing, mxHandler, mxMsgs, mxOpen, mxStop, mxFiles, mxFailed, mxAnswer, mxSent, mxTold>>

-----------------------------------------------------------------------------
(* stop *)

MxStop ==
    /\ mxRunning /\ mxStop = "none" /\ mxRunning' = FALSE /\ mxStop' = "typing"
    /\ UNCHANGED <<mxPolicy, mxSync, mxSyncs, mxHandler, mxMsgs, typing, mxOpen, sending>>

MxStopTyping ==
    /\ mxStop = "typing" /\ Unregister /\ mxStop' = "grace"
    /\ UNCHANGED <<syncing, mxHandler, mxMsgs, mxOpen, sending>>

\* stop_sync_forever has its effect between two handlers.
MxSyncReturns ==
    /\ mxStop = "grace" /\ mxSync = "sync" /\ mxHandler = "none" /\ mxSync' = "done"
    /\ UNCHANGED <<mxRunning, mxPolicy, mxSyncs, mxHandler, mxMsgs, typing, mxOpen, sending, mxStop>>

\* The grace period is over: the task is cancelled where it waits, also in a
\* handler.
MxGraceOver ==
    /\ mxStop = "grace" /\ mxSync # "done"
    /\ mxStop' = "cancel" /\ mxSync' = "done" /\ mxHandler' = "none"
    /\ UNCHANGED <<mxRunning, mxPolicy, mxSyncs, mxMsgs, typing, mxOpen, sending>>

MxClosed ==
    /\ mxStop \in {"grace", "cancel"} /\ mxSync = "done" /\ mxStop' = "closed"
    /\ UNCHANGED <<syncing, mxHandler, mxMsgs, typing, mxOpen, sending>>

MxNext ==
    \/ MxStart \/ MxSyncError \/ MxSyncAgain
    \/ \E e \in Mentions : MxArrives(e)
    \/ MxFetched \/ MxFetchRaises \/ MxUnregisters \/ MxNoticed \/ MxPublished \/ PublishRaises \/ MxUndone
    \/ \E F \in SUBSET Files : MxSend(F)
    \/ \E f \in Files : MxAttach(f)
    \/ \E blank \in BOOLEAN : MxText(blank)
    \/ MxTextRaises \/ MxUntype
    \/ MxStop \/ MxStopTyping \/ MxSyncReturns \/ MxGraceOver \/ MxClosed

\* Requests return, the agent answers what it was given, and the wait for the
\* sync task has a limit.
MxFair(k) ==
    \/ k = 1 /\ (MxFetched \/ MxFetchRaises)
    \/ k = 2 /\ MxUnregisters
    \/ k = 3 /\ MxNoticed
    \/ k = 4 /\ (MxPublished \/ PublishRaises)
    \/ k = 5 /\ MxUndone
    \/ k = 6 /\ (\E F \in SUBSET Files : MxSend(F))
    \/ k = 7 /\ (\E f \in Files : MxAttach(f))
    \/ k = 8 /\ (MxTextRaises \/ \E blank \in BOOLEAN : MxText(blank))
    \/ k = 9 /\ MxUntype
    \/ k = 10 /\ MxStopTyping
    \/ k = 11 /\ (MxSyncReturns \/ MxGraceOver)
    \/ k = 12 /\ MxClosed
MxFairness == \A k \in 1 .. 12 : WF_mxVars(MxFair(k))

MxSpec == MxInit /\ [][MxNext]_mxVars /\ MxFairness

-----------------------------------------------------------------------------
(* Properties *)

MxTypeOK ==
    /\ mxRunning \in BOOLEAN /\ mxSync \in {"off", "sync", "sleep", "done"} /\ mxSyncs \in 0 .. MaxSyncs
    /\ mxHandler \in {"none", "fetch", "unregister", "notice", "publish", "undo"}
    /\ mxMsgs \in 0 .. MaxMxMsgs /\ mxOpen \in 0 .. mxMsgs /\ mxLast \in 0 .. MaxMxMsgs
    /\ mxSend \in {"none", "files", "untype"} /\ mxFiles \subseteq mxAnswer /\ mxFailed \subseteq mxAnswer
    /\ mxStop \in {"none", "typing", "grace", "cancel", "closed"}
    /\ mxSync = "done" => mxHandler = "none"

\* Handlers, answers and stop replace each other's keepalive without leaving
\* one that nobody can end: each that runs is the registered one.
NoStrayTyper == mxTypers \subseteq {mxTyper}

\* An attachment of an answer is in the room or named in the text as failed,
\* also if the answer has no text of its own (unless the text could not be
\* sent).
FilesAccounted == mxSend = "untype" => mxAnswer \subseteq mxSent \union mxTold

\* The bot does not type for ever: the keepalive ends with the answer, with a
\* handler that could not publish, or with stop.
MxTypingEnds == []<>(mxTypers = {})

\* stop ends although a handler or a sleep is in its way, and leaves no
\* keepalive behind.
MxStopEnds == <>[](mxStop # "none" => (mxStop = "closed" /\ mxTypers = {}))

=============================================================================
