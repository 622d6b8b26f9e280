------------------------------ MODULE Discord -------------------------------
(***************************************************************************)
(* channels/discord.py: the gateway loop with its reconnects, the          *)
(* heartbeat task that HELLO starts, the typing task of a channel, and     *)
(* send, which posts an answer chunk by chunk with three attempts each.    *)
(***************************************************************************)
EXTENDS Naturals, Sequences

CONSTANTS
    Chunks,      \* chunks of an answer
    MaxGateway,  \* bound: gateway connections
    MaxMsgs,     \* bound: messages received
    MaxSends     \* bound: answers sent

VARIABLES
    dcRunning,   \* _running
    dcTask,      \* start: "off", "connecting", "loop" (_gateway_loop), "backoff" (the 5 s), "ended"
    dcWs,        \* _ws: "none", "open", "stale" (a connection that is closed)
    dcHello,     \* HELLO was received on this connection
    dcStop,      \* stop waits for _ws.close: "no", "loop" (of the connection that is read), "other"
    dcBeat,      \* _heartbeat_task, by number; 0 is None
    dcBeats,     \* heartbeat tasks that run and were not cancelled
    dcTyping,    \* _typing_tasks[channel_id], by number; 0 if absent
    dcTypers,    \* typing tasks that run and were not cancelled
    dcChunk,     \* send: the chunk to post next; 0 when no send is under way
    dcTry,       \* send: attempts made for it
    \* History and bounds.
    dcPosted,    \* chunks of the current answer the server accepted, in order
    dcConns, dcBeatLast, dcTypeLast, dcMsgs, dcSends

dcGate == <<dcRunning, dcTask, dcWs, dcHello, dcStop, dcConns>>
dcHeart == <<dcBeat, dcBeats, dcBeatLast>>
dcTyped == <<dcTyping, dcTypers, dcTypeLast>>
dcPost == <<dcChunk, dcTry, dcPosted, dcSends>>
dcVars == <<dcGate, dcHeart, dcTyped, dcPost, dcMsgs>>

DcInit ==
    /\ dcRunning = FALSE /\ dcTask = "off" /\ dcWs = "none" /\ dcHello = FALSE /\ dcStop = "no"
    /\ dcBeat = 0 /\ dcBeats = {} /\ dcTyping = 0 /\ dcTypers = {}
    /\ dcChunk = 0 /\ dcTry = 0 /\ dcPosted = <<>>
    /\ dcConns = 0 /\ dcBeatLast = 0 /\ dcTypeLast = 0 /\ dcMsgs = 0 /\ dcSends = 0

DcStart ==
    /\ dcTask = "off" /\ dcTask' = "connecting" /\ dcRunning' = TRUE
    /\ UNCHANGED <<dcWs, dcHello, dcStop, dcConns, dcHeart, dcTyped, dcPost, dcMsgs>>

\* websockets.connect returns, also when stop came in the meantime.
DcConnected ==
    /\ dcTask = "connecting" /\ dcConns < MaxGateway
    /\ dcTask' = "loop" /\ dcWs' = "open" /\ dcHello' = FALSE /\ dcConns' = dcConns + 1
    /\ UNCHANGED <<dcRunning, dcStop, dcHeart, dcTyped, dcPost, dcMsgs>>

\* Mutant: an error leads to a reconnect also after stop.
AfterErrorAgain == "connecting"

\* What start does after an exception, and when _gateway_loop returned.
AfterError == IF dcRunning THEN "backoff" ELSE "ended"
AfterLoop == IF dcRunning THEN "connecting" ELSE "ended"

\* _ws keeps the connection that closed, unless stop has set it to None.
Closed == IF dcWs = "open" THEN "stale" ELSE dcWs

DcConnectFails ==
    /\ dcTask = "connecting" /\ dcTask' = AfterError
    /\ UNCHANGED <<dcRunning, dcWs, dcHello, dcStop, dcConns, dcHeart, dcTyped, dcPost, dcMsgs>>

DcBackoffEnds ==
    /\ dcTask = "backoff" /\ dcTask' = AfterLoop
    /\ UNCHANGED <<dcRunning, dcWs, dcHello, dcStop, dcConns, dcHeart, dcTyped, dcPost, dcMsgs>>

\* Mutant: the heartbeat of the previous connection is not cancelled.
StartHeartbeatOnly ==
    /\ dcBeat' = dcBeatLast + 1 /\ dcBeatLast' = dcBeatLast + 1
    /\ dcBeats' = dcBeats \union {dcBeatLast + 1}

\* _start_heartbeat; heartbeat_loop ends at once when _running is false.
StartHeartbeat ==
    /\ dcBeat' = dcBeatLast + 1 /\ dcBeatLast' = dcBeatLast + 1
    /\ dcBeats' = (dcBeats \ {dcBeat}) \union (IF dcRunning THEN {dcBeatLast + 1} ELSE {})

\* HELLO: the heartbeat is (re)started and IDENTIFY is sent.
DcHelloRead ==
    /\ dcTask = "loop" /\ ~dcHello /\ dcHello' = TRUE
    /\ StartHeartbeat
    /\ UNCHANGED <<dcRunning, dcTask, dcWs, dcStop, dcConns, dcTyped, dcPost, dcMsgs>>

\* heartbeat_loop: a send that fails, or no connection, ends it.
BeatEnds(n) ==
    /\ n \in dcBeats /\ (dcWs # "open" \/ ~dcRunning)
    /\ dcBeats' = dcBeats \ {n}
    /\ UNCHANGED <<dcGate, dcBeat, dcBeatLast, dcTyped, dcPost, dcMsgs>>

\* The server asks for a reconnect (op 7, op 9): start connects again at once.
DcReconnect ==
    /\ dcTask = "loop"
    /\ dcTask' = AfterLoop /\ dcWs' = Closed
    /\ UNCHANGED <<dcRunning, dcHello, dcStop, dcConns, dcHeart, dcTyped, dcPost, dcMsgs>>

\* The connection breaks, or the server closes it for want of heartbeats.
DcLost ==
    /\ dcTask = "loop"
    /\ dcTask' = AfterError /\ dcWs' = Closed
    /\ UNCHANGED <<dcRunning, dcHello, dcStop, dcConns, dcHeart, dcTyped, dcPost, dcMsgs>>

\* _start_typing replaces the channel's task; its loop ends if not _running.
DcStartTyping ==
    /\ dcTypeLast' = dcTypeLast + 1 /\ dcTyping' = dcTypeLast + 1
    /\ dcTypers' = (dcTypers \ {dcTyping}) \union (IF dcRunning THEN {dcTypeLast + 1} ELSE {})

\* _stop_typing.
DcStopTyping == dcTyping' = 0 /\ dcTypers' = dcTypers \ {dcTyping} /\ UNCHANGED dcTypeLast

\* MESSAGE_CREATE from an allowed sender, addressed to the bot.
DcMessage ==
    /\ dcTask = "loop" /\ dcHello /\ dcMsgs < MaxMsgs
    /\ dcMsgs' = dcMsgs + 1
    /\ DcStartTyping
    /\ UNCHANGED <<dcGate, dcHeart, dcPost>>

TyperFails(n) ==
    /\ n \in dcTypers /\ dcTypers' = dcTypers \ {n}
    /\ UNCHANGED <<dcGate, dcHeart, dcTyping, dcTypeLast, dcPost, dcMsgs>>

\* send: attachments have been posted the same way; the text follows.
DcSend ==
    /\ dcRunning /\ dcChunk = 0 /\ dcSends < MaxSends
    /\ dcChunk' = 1 /\ dcTry' = 0 /\ dcPosted' = <<>> /\ dcSends' = dcSends + 1
    /\ UNCHANGED <<dcGate, dcHeart, dcTyped, dcMsgs>>

\* Mutant: the typing indicator is stopped only if the answer went out.
EndSendOk(ok) == dcChunk' = 0 /\ dcTry' = 0 /\ IF ok THEN DcStopTyping ELSE UNCHANGED dcTyped

\* send returns: its finally clause stops the typing indicator.
EndSend(ok) == dcChunk' = 0 /\ dcTry' = 0 /\ DcStopTyping

\* _send_payload: the server accepts the chunk and the reply arrives.
PostOk ==
    /\ dcChunk > 0
    /\ dcPosted' = Append(dcPosted, dcChunk)
    /\ IF dcChunk < Chunks THEN dcChunk' = dcChunk + 1 /\ dcTry' = 0 /\ UNCHANGED dcTyped
                           ELSE EndSend(TRUE)
    /\ UNCHANGED <<dcGate, dcHeart, dcSends, dcMsgs>>

\* Mutant: after three attempts the next chunk is tried.
GiveUpChunk ==
    IF dcChunk < Chunks THEN dcChunk' = dcChunk + 1 /\ dcTry' = 0 /\ UNCHANGED dcTyped
                        ELSE EndSend(FALSE)

\* The third attempt failed: the remaining chunks are not sent.
GiveUp == EndSend(FALSE)

\* Mutant: a rate limit does not count as an attempt.
LastTryUnlimited == dcTry > 3

\* attempt == 2, or a rate limit in the last round.
LastTry == dcTry = 2

\* A rate limit, an error status, or a reply that is lost after the server
\* accepted the chunk: the next attempt follows a pause.
PostFails(accepted) ==
    /\ dcChunk > 0
    /\ dcPosted' = IF accepted THEN Append(dcPosted, dcChunk) ELSE dcPosted
    /\ IF LastTry THEN GiveUp ELSE dcTry' = dcTry + 1 /\ UNCHANGED <<dcChunk, dcTyped>>
    /\ UNCHANGED <<dcGate, dcHeart, dcSends, dcMsgs>>

\* stop, up to the close of the connection.
DcStop ==
    /\ dcRunning
    /\ dcRunning' = FALSE
    /\ dcBeat' = 0 /\ dcBeats' = dcBeats \ {dcBeat} /\ DcStopTyping
    /\ dcStop' = CASE dcWs = "none" -> "no" [] dcTask = "loop" -> "loop" [] OTHER -> "other"
    /\ UNCHANGED <<dcTask, dcWs, dcHello, dcConns, dcBeatLast, dcPost, dcMsgs>>

\* _ws.close returns and _ws is None, also when start has connected again; only
\* a loop that reads from the connection that was closed ends.
DcClosed ==
    /\ dcStop # "no" /\ dcStop' = "no" /\ dcWs' = "none"
    /\ dcTask' = IF dcTask = "loop" /\ dcStop = "loop" THEN "ended" ELSE dcTask
    /\ UNCHANGED <<dcRunning, dcHello, dcConns, dcHeart, dcTyped, dcPost, dcMsgs>>

DcNext ==
    \/ DcStart \/ DcConnected \/ DcConnectFails \/ DcBackoffEnds \/ DcHelloRead
    \/ DcReconnect \/ DcLost \/ DcMessage \/ DcSend \/ PostOk \/ DcStop \/ DcClosed
    \/ \E a \in BOOLEAN : PostFails(a)
    \/ \E n \in dcBeats : BeatEnds(n)
    \/ \E n \in dcTypers : TyperFails(n)

\* Requests return, sleeps end, a heartbeat notices a dead connection, and the
\* server closes a connection that nobody keeps alive.
DcFair(k) ==
    \/ k = 1 /\ (DcConnected \/ DcConnectFails)
    \/ k = 2 /\ DcBackoffEnds
    \/ k = 3 /\ DcClosed
    \/ k = 4 /\ (PostOk \/ \E a \in BOOLEAN : PostFails(a))
    \/ k = 5 /\ (\E n \in dcBeats : BeatEnds(n))
    \/ k = 6 /\ (~dcRunning /\ DcLost)
DcFairness == \A k \in 1 .. 6 : WF_dcVars(DcFair(k))

DcSpec == DcInit /\ [][DcNext]_dcVars /\ DcFairness

-----------------------------------------------------------------------------
(* Properties *)

DcTypeOK ==
    /\ dcTask \in {"off", "connecting", "loop", "backoff", "ended"}
    /\ dcWs \in {"none", "open", "stale"} /\ dcStop \in {"no", "loop", "other"} /\ (dcTask = "off" => dcWs = "none")
    /\ dcBeats \subseteq 1 .. dcBeatLast /\ dcTypers \subseteq 1 .. dcTypeLast
    /\ dcChunk \in 0 .. Chunks /\ dcTry \in 0 .. 2

\* However often the gateway reconnects, one heartbeat task runs, and it is the
\* one that stop and the next HELLO cancel.
OneHeartbeat == dcBeats \subseteq {dcBeat}

\* What a channel shows of an answer is a beginning of it: chunks arrive in
\* order, a lost reply may repeat one, and none follows a chunk that failed.
AnswerPrefix ==
    /\ dcPosted # <<>> => dcPosted[1] = 1
    /\ \A i \in DOMAIN dcPosted : i > 1 => dcPosted[i] \in {dcPosted[i - 1], dcPosted[i - 1] + 1}

\* An answer that was sent, also one that failed, leaves no typing indicator
\* running that was there before.
TypingStops ==
    [][dcChunk > 0 /\ dcChunk' = 0 => dcTypers' = {}]_dcVars

\* A channel that was told to stop ends, also when stop came while start was
\* connecting and the loop began afterwards.
DcStopEnds == []<>((dcTask # "off" /\ ~dcRunning) => (dcTask = "ended" /\ dcBeats = {}))

=============================================================================
