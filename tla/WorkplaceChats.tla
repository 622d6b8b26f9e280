--------------------------- MODULE WorkplaceChats ---------------------------
(***************************************************************************)
(* The channels of the workplace chats, whose client libraries keep the    *)
(* connection and call back with events: Feishu, DingTalk and Slack. The   *)
(* three share no state.                                                   *)
(***************************************************************************)
EXTENDS Naturals, Sequences, FiniteSets

-----------------------------------------------------------------------------
(***************************************************************************)
(* channels/feishu.py: the SDK's WebSocket client runs in a thread of its  *)
(* own and schedules a handler coroutine per event; handlers of several    *)
(* messages wait for reactions and downloads at the same time.  (What   *)
(* send makes of an answer is in OutboundText.)                            *)
(***************************************************************************)
CONSTANTS
    FsWindow,    \* message ids remembered (1000)
    FsLag,       \* bound: newer messages before one is delivered again, and handlers not yet begun
    MaxFsMsgs,   \* bound: messages
    MaxRuns      \* bound: runs of the WebSocket client

ASSUME FsAssumption == FsWindow \in Nat /\ FsLag \in Nat /\ 2 * FsLag < FsWindow

VARIABLES
    fsRunning,   \* _running
    fsThread,    \* run_ws: "off", "client" (_ws_client.start), "sleep", "ended"
    fsRuns,      \* runs of the client so far
    fsBots,      \* messages written by bots
    fsMsgs,      \* messages the server has
    fsSched,     \* handlers that were scheduled and have not begun, in order
    fsIds,       \* _processed_message_ids, oldest first
    fsActive,    \* messages whose handler waits for a reaction, a download or a transcription
    \* History.
    fsGot        \* messages handed to the bus, in order

fsVars == <<fsRunning, fsThread, fsRuns, fsBots, fsMsgs, fsSched, fsIds, fsActive, fsGot>>

FsInit ==
    /\ fsRunning = FALSE /\ fsThread = "off" /\ fsRuns = 0
    /\ fsBots \in {{}, {1}} /\ fsMsgs = 0 /\ fsSched = <<>> /\ fsIds = <<>> /\ fsActive = {}
    /\ fsGot = <<>>

FsStart ==
    /\ fsThread = "off" /\ fsRunning' = TRUE /\ fsThread' = "client" /\ fsRuns' = 1
    /\ UNCHANGED <<fsBots, fsMsgs, fsSched, fsIds, fsActive, fsGot>>

\* _ws_client.start returns or raises; run_ws tests _running twice.
ClientEnds ==
    /\ fsThread = "client" /\ fsThread' = IF fsRunning THEN "sleep" ELSE "ended"
    /\ UNCHANGED <<fsRunning, fsRuns, fsBots, fsMsgs, fsSched, fsIds, fsActive, fsGot>>

ClientAgain ==
    /\ fsThread = "sleep" /\ fsRuns < MaxRuns
    /\ fsThread' = (IF fsRunning THEN "client" ELSE "ended") /\ fsRuns' = fsRuns + 1
    /\ UNCHANGED <<fsRunning, fsBots, fsMsgs, fsSched, fsIds, fsActive, fsGot>>

\* An event: the thread schedules _on_message in the main loop.  The server
\* may deliver a message again; the client also delivers after stop.
FsEvent(i) ==
    /\ fsThread = "client" /\ Len(fsSched) < FsLag
    /\ i \in 1 .. MaxFsMsgs /\ i <= fsMsgs + 1 /\ i + FsLag >= fsMsgs
    /\ fsMsgs' = (IF i > fsMsgs THEN i ELSE fsMsgs)
    /\ fsSched' = Append(fsSched, i)
    /\ UNCHANGED <<fsRunning, fsThread, fsRuns, fsBots, fsIds, fsActive, fsGot>>

\* Mutant: the cache keeps one id more than its limit.
TrimmedLate(q) == IF Len(q) > FsWindow + 1 THEN Tail(q) ELSE q

\* "Trim cache".
Trimmed(q) == IF Len(q) > FsWindow THEN Tail(q) ELSE q

\* Mutant: the id is recorded when the message is handed over.
MarkedLate(i) == fsIds' = Trimmed(IF Len(fsGot) = 0 THEN fsIds ELSE Append(fsIds, fsGot[Len(fsGot)]))

\* The id is recorded before the first await.
MarkedFirst(i) == fsIds' = Trimmed(Append(fsIds, i))

\* Mutant: a handler that begins after stop returns at once.
FsBeginsRunning ==
    /\ fsSched # <<>> /\ fsSched' = Tail(fsSched)
    /\ LET i == Head(fsSched) IN
          IF ~fsRunning \/ \E k \in DOMAIN fsIds : fsIds[k] = i THEN UNCHANGED <<fsIds, fsActive>>
          ELSE MarkedFirst(i) /\ fsActive' = fsActive \union ({i} \ fsBots)
    /\ UNCHANGED <<fsRunning, fsThread, fsRuns, fsBots, fsMsgs, fsGot>>

\* The handler begins: deduplication, bots, and on to the first await.
FsBegins ==
    /\ fsSched # <<>> /\ fsSched' = Tail(fsSched)
    /\ LET i == Head(fsSched) IN
          IF \E k \in DOMAIN fsIds : fsIds[k] = i THEN UNCHANGED <<fsIds, fsActive>>
          ELSE MarkedFirst(i) /\ fsActive' = fsActive \union ({i} \ fsBots)
    /\ UNCHANGED <<fsRunning, fsThread, fsRuns, fsBots, fsMsgs, fsGot>>

\* What the text of a text, post or card message can be extracted to.
Extracted == {"some", "none"}

\* An attachment is always worth a word, also if its download failed.
Downloaded == {"path", "note"}

\* Its awaits are over: the message is handed to the bus, unless nothing was
\* extracted.  Handlers overtake each other here.
FsHandOver(i) ==
    /\ i \in fsActive /\ fsActive' = fsActive \ {i}
    /\ \E content \in Extracted \union Downloaded :
          fsGot' = IF content = "none" THEN fsGot ELSE Append(fsGot, i)
    /\ UNCHANGED <<fsRunning, fsThread, fsRuns, fsBots, fsMsgs, fsSched, fsIds>>

\* The handler raised: the message is gone.
FsGivesUp(i) ==
    /\ i \in fsActive /\ fsActive' = fsActive \ {i}
    /\ UNCHANGED <<fsRunning, fsThread, fsRuns, fsBots, fsMsgs, fsSched, fsIds, fsGot>>

\* stop: the SDK's client cannot be stopped.
FsStop ==
    /\ fsRunning /\ fsRunning' = FALSE
    /\ UNCHANGED <<fsThread, fsRuns, fsBots, fsMsgs, fsSched, fsIds, fsActive, fsGot>>

FsNext ==
    \/ FsStart \/ ClientEnds \/ ClientAgain \/ FsBegins \/ FsStop
    \/ \E i \in 1 .. MaxFsMsgs : FsEvent(i) \/ FsHandOver(i) \/ FsGivesUp(i)

\* Scheduled coroutines run, and the requests they wait for return.
FsFair(k) ==
    \/ k = 1 /\ FsBegins
    \/ \E i \in 1 .. MaxFsMsgs : k = 1 + i /\ (FsHandOver(i) \/ FsGivesUp(i))
FsFairness == \A k \in 1 .. 1 + MaxFsMsgs : WF_fsVars(FsFair(k))

FsSpec == FsInit /\ [][FsNext]_fsVars /\ FsFairness

-----------------------------------------------------------------------------
(* Properties *)

FsTypeOK ==
    /\ fsThread \in {"off", "client", "sleep", "ended"} /\ fsRuns \in 0 .. MaxRuns
    /\ fsSched \in Seq(1 .. fsMsgs) /\ fsActive \subseteq 1 .. fsMsgs
    /\ Len(fsIds) <= FsWindow

\* A message the server delivers again, also while the handler of the first
\* delivery is waiting, is handed to the agent once, and a bot's never.
FsOnce ==
    /\ \A i, j \in DOMAIN fsGot : i # j => fsGot[i] # fsGot[j]
    /\ \A i \in DOMAIN fsGot : fsGot[i] \notin fsActive \union fsBots

\* Every message that is delivered is taken up, also one that was scheduled
\* before stop, and its handler ends.
FsHandled ==
    /\ \A i \in 1 .. MaxFsMsgs :
          []<>(i \notin fsActive /\ \A k \in DOMAIN fsSched : fsSched[k] # i)
    /\ [][Len(fsSched') < Len(fsSched) => \E k \in DOMAIN fsIds' : fsIds'[k] = Head(fsSched)]_fsVars

-----------------------------------------------------------------------------
(***************************************************************************)
(* channels/dingtalk.py: events are acknowledged and handled in background *)
(* tasks; an answer is sent with a cached access token that was made to    *)
(* expire early, and an attachment is tried in up to three ways.           *)
(***************************************************************************)
CONSTANTS
    Life,         \* expireIn
    Margin,       \* the 60 s a token expires early
    MaxDelay,     \* bound: how long a request takes
    MaxNow,       \* bound: time
    MaxAnswers,   \* bound: answers
    MaxMediaRefs, \* bound: attachments of an answer
    MaxDtMsgs     \* bound: messages

ASSUME DtAssumption == MaxDelay \in Nat /\ Margin \in Nat /\ Life \in Nat /\ MaxDelay <= Margin /\ Margin < Life

VARIABLES
    dtRunning,    \* _running
    dtHttp,       \* there is an HTTP client (_http)
    dtStream,     \* start: "off", "client", "sleep", "ended"
    dtMsgs,       \* messages acknowledged so far
    dtTasks,      \* _background_tasks
    dtGot,        \* messages handed to the bus
    dtDropped,    \* messages whose task was cancelled
    dtNow,        \* the time
    dtWait,       \* how long the current request has taken
    dtToken,      \* _access_token and _token_expiry: [until (at the server), expiry]
    dtSend,       \* send: "none", "token", "text", "url", "read", "upload", "image", "file", "note"
    dtMedia,      \* what is left of the answer's attachments, the current one first
    dtAnswers,    \* answers so far
    \* History.
    dtUsed,       \* until which time the token of the send is good
    dtBegan,      \* when the send got its token
    dtShown       \* attachments of the answer that are settled: [shown, noted]

dtVars == <<dtRunning, dtHttp, dtStream, dtMsgs, dtTasks, dtGot, dtDropped, dtNow, dtWait, dtToken,
            dtSend, dtMedia, dtAnswers, dtUsed, dtBegan, dtShown>>
inbound == <<dtRunning, dtHttp, dtStream, dtMsgs, dtTasks, dtGot, dtDropped>>
clock == <<dtNow, dtWait>>
tokens == <<dtToken, dtUsed, dtBegan>>

Kinds == {"image_url", "image", "other"}
NoToken == [until |-> 0, expiry |-> 0]

DtInit ==
    /\ dtRunning = FALSE /\ dtHttp = FALSE /\ dtStream = "off" /\ dtMsgs = 0 /\ dtTasks = {} /\ dtGot = {}
    /\ dtDropped = {} /\ dtNow = 0 /\ dtWait = 0 /\ dtToken = NoToken /\ dtSend = "none" /\ dtMedia = <<>>
    /\ dtAnswers = 0 /\ dtUsed = 0 /\ dtBegan = 0 /\ dtShown = <<>>

DtStart ==
    /\ dtStream = "off" /\ dtRunning' = TRUE /\ dtHttp' = TRUE /\ dtStream' = "client"
    /\ UNCHANGED <<dtMsgs, dtTasks, dtGot, dtDropped, clock, tokens, dtSend, dtMedia, dtAnswers, dtShown>>

\* The stream ends or raises; start sleeps and tries again while it runs.
DtStreamEnds ==
    /\ dtStream = "client" /\ dtStream' = IF dtRunning THEN "sleep" ELSE "ended"
    /\ UNCHANGED <<dtRunning, dtHttp, dtMsgs, dtTasks, dtGot, dtDropped, clock, tokens, dtSend, dtMedia, dtAnswers, dtShown>>

DtStreamAgain ==
    /\ dtStream = "sleep" /\ dtStream' = IF dtRunning THEN "client" ELSE "ended"
    /\ UNCHANGED <<dtRunning, dtHttp, dtMsgs, dtTasks, dtGot, dtDropped, clock, tokens, dtSend, dtMedia, dtAnswers, dtShown>>

\* AmberClawDingTalkHandler.process: a task for the message, and OK at once.
\* The stream is not ended by stop.
DtEvent ==
    /\ dtStream = "client" /\ dtMsgs < MaxDtMsgs
    /\ dtMsgs' = dtMsgs + 1 /\ dtTasks' = dtTasks \union {dtMsgs + 1}
    /\ UNCHANGED <<dtRunning, dtHttp, dtStream, dtGot, dtDropped, clock, tokens, dtSend, dtMedia, dtAnswers, dtShown>>

\* Mutant: a task waits for the channel to be running.
DtOnMessageRunning(m) ==
    /\ m \in dtTasks /\ dtRunning /\ dtTasks' = dtTasks \ {m} /\ dtGot' = dtGot \union {m}
    /\ UNCHANGED <<dtRunning, dtHttp, dtStream, dtMsgs, dtDropped, clock, tokens, dtSend, dtMedia, dtAnswers, dtShown>>

\* _on_message in its task.
DtOnMessage(m) ==
    /\ m \in dtTasks /\ dtTasks' = dtTasks \ {m} /\ dtGot' = dtGot \union {m}
    /\ UNCHANGED <<dtRunning, dtHttp, dtStream, dtMsgs, dtDropped, clock, tokens, dtSend, dtMedia, dtAnswers, dtShown>>

\* stop, before and after the client is closed.
DtStop ==
    /\ dtRunning /\ dtRunning' = FALSE
    /\ UNCHANGED <<dtHttp, dtStream, dtMsgs, dtTasks, dtGot, dtDropped, clock, tokens, dtSend, dtMedia, dtAnswers, dtShown>>

\* Mutant: the references are dropped and the tasks left to the collector.
CancelledNone == dtTasks' = {} /\ UNCHANGED dtDropped

Cancelled == dtTasks' = {} /\ dtDropped' = dtDropped \union dtTasks

DtHttpClosed ==
    /\ ~dtRunning /\ dtHttp /\ dtHttp' = FALSE /\ Cancelled
    /\ UNCHANGED <<dtRunning, dtStream, dtMsgs, dtGot, clock, tokens, dtSend, dtMedia, dtAnswers, dtShown>>

\* Mutant: a request has no timeout.
DtTickOn ==
    /\ dtStream # "off" /\ dtNow < MaxNow /\ dtNow' = dtNow + 1
    /\ dtWait' = IF dtSend = "none" THEN dtWait ELSE dtWait + 1
    /\ UNCHANGED <<inbound, tokens, dtSend, dtMedia, dtAnswers, dtShown>>

\* Time passes; a request takes at most MaxDelay.
DtTick ==
    /\ dtStream # "off" /\ dtNow < MaxNow /\ dtNow' = dtNow + 1
    /\ IF dtSend = "none" THEN UNCHANGED dtWait ELSE dtWait < MaxDelay /\ dtWait' = dtWait + 1
    /\ UNCHANGED <<inbound, tokens, dtSend, dtMedia, dtAnswers, dtShown>>

-----------------------------------------------------------------------------
(* send *)

\* Mutant: the token is used until it expires.
ExpiryLate(now) == now + Life

\* "Expire 60s early to be safe".
Expiry(now) == now + Life - Margin

\* send, and _get_access_token if the token is fresh.
DtSend(media) ==
    /\ dtStream # "off" /\ dtSend = "none" /\ dtAnswers < MaxAnswers /\ dtAnswers' = dtAnswers + 1
    /\ dtMedia' = media /\ dtShown' = <<>> /\ dtWait' = 0
    /\ IF dtToken # NoToken /\ dtNow < dtToken.expiry
          THEN dtSend' = "text" /\ dtUsed' = dtToken.until /\ dtBegan' = dtNow
       ELSE IF dtHttp THEN dtSend' = "token" /\ UNCHANGED <<dtUsed, dtBegan>>
       ELSE dtSend' = "none" /\ UNCHANGED <<dtUsed, dtBegan>>
    /\ UNCHANGED <<inbound, dtNow, dtToken>>

\* The server issued the token at some time while the request was under way.
DtTokenComes(issued) ==
    /\ dtSend = "token" /\ issued \in dtNow - dtWait .. dtNow
    /\ dtToken' = [until |-> issued + Life, expiry |-> Expiry(dtNow)]
    /\ dtUsed' = issued + Life /\ dtBegan' = dtNow
    /\ dtSend' = "text" /\ dtWait' = 0
    /\ UNCHANGED <<inbound, dtNow, dtMedia, dtAnswers, dtShown>>

DtTokenFails ==
    /\ dtSend = "token" /\ dtSend' = "none" /\ dtWait' = 0
    /\ UNCHANGED <<inbound, dtNow, tokens, dtMedia, dtAnswers, dtShown>>

\* _send_media_ref: what is tried next when a step fails.
AfterFailure(stage, kind) ==
    CASE stage = "url"   -> "read"
      [] stage = "image" -> "file"
      [] OTHER           -> "note"

\* What follows a step that was a success, for a step that shows nothing.
AfterSuccess(stage, kind) ==
    CASE stage = "read"   -> "upload"
      [] stage = "upload" -> (IF kind = "other" THEN "file" ELSE "image")

\* Where the loop over the attachments goes on.
FirstStage(media) == IF media = <<>> THEN "none" ELSE IF Head(media) = "image_url" THEN "url" ELSE "read"

\* An attachment is settled: the next one.
Settle(how) ==
    /\ dtShown' = Append(dtShown, how) /\ dtMedia' = Tail(dtMedia) /\ dtSend' = FirstStage(Tail(dtMedia))

\* _send_markdown_text of the answer itself: its result is not looked at.
DtText ==
    /\ dtSend = "text" /\ dtSend' = FirstStage(dtMedia) /\ dtWait' = 0
    /\ UNCHANGED <<inbound, dtNow, tokens, dtMedia, dtAnswers, dtShown>>

\* A step of _send_media_ref returns a result.  Without a client every request
\* fails.
DtStepOk ==
    /\ dtSend \in {"url", "read", "upload", "image", "file"} /\ dtHttp /\ dtWait' = 0
    /\ IF dtSend \in {"url", "image", "file"} THEN Settle("shown")
       ELSE dtSend' = AfterSuccess(dtSend, Head(dtMedia)) /\ UNCHANGED <<dtMedia, dtShown>>
    /\ UNCHANGED <<inbound, dtNow, tokens, dtAnswers>>

DtStepFails ==
    /\ dtSend \in {"url", "read", "upload", "image", "file"} /\ dtWait' = 0
    /\ dtSend' = AfterFailure(dtSend, Head(dtMedia))
    /\ UNCHANGED <<inbound, dtNow, tokens, dtMedia, dtAnswers, dtShown>>

\* Mutant: the note ends the send.
NotedEnds == dtSend' = "none" /\ UNCHANGED <<dtShown, dtMedia>>

\* "[Attachment send failed: ...]"
Noted == Settle("noted")

DtNote ==
    /\ dtSend = "note" /\ dtWait' = 0 /\ Noted
    /\ UNCHANGED <<inbound, dtNow, tokens, dtAnswers>>

DtNext ==
    \/ DtStart \/ DtStreamEnds \/ DtStreamAgain \/ DtEvent \/ DtStop \/ DtHttpClosed \/ DtTick
    \/ \E m \in 1 .. MaxDtMsgs : DtOnMessage(m)
    \/ \E media \in UNION {[1 .. n -> Kinds] : n \in 0 .. MaxMediaRefs} : DtSend(media)
    \/ \E t \in 0 .. MaxNow : DtTokenComes(t)
    \/ DtTokenFails \/ DtText \/ DtStepOk \/ DtStepFails \/ DtNote

\* Tasks run, and requests return or time out.
DtFair(k) ==
    \/ k = 1 /\ DtTokenFails
    \/ k = 2 /\ DtText
    \/ k = 3 /\ (DtStepOk \/ DtStepFails)
    \/ k = 4 /\ DtNote
    \/ \E m \in 1 .. MaxDtMsgs : k = 4 + m /\ (DtOnMessage(m))
DtFairness == \A k \in 1 .. 4 + MaxDtMsgs : WF_dtVars(DtFair(k))

DtSpec == DtInit /\ [][DtNext]_dtVars /\ DtFairness

-----------------------------------------------------------------------------
(* Properties *)

DtTypeOK ==
    /\ dtRunning \in BOOLEAN /\ dtHttp \in BOOLEAN /\ dtStream \in {"off", "client", "sleep", "ended"}
    /\ dtTasks \subseteq 1 .. dtMsgs /\ dtGot \subseteq 1 .. dtMsgs /\ dtDropped \subseteq 1 .. dtMsgs
    /\ dtNow \in 0 .. MaxNow /\ dtWait \in 0 .. MaxDelay /\ dtToken.expiry \in 0 .. MaxNow + Life
    /\ dtSend \in {"none", "token", "text", "url", "read", "upload", "image", "file", "note"}
    /\ dtMedia \in Seq(Kinds) /\ dtShown \in Seq({"shown", "noted"})

\* An acknowledged message, which DingTalk will not send again, is handed to
\* the agent or was cancelled by stop: none is forgotten.
AckedIsHandled == 1 .. dtMsgs = dtTasks \union dtGot \union dtDropped

\* The token of a request is good at the server, however long its own request
\* took, as long as the send does not take longer than the margin allows.
TokenFresh ==
    (dtSend \notin {"none", "token"} /\ dtNow - dtBegan < Margin - MaxDelay) => dtNow < dtUsed

\* Every attachment of an answer is in the chat or noted as failed by the time
\* the send is over, and the send is over at last, also when the channel is
\* stopped under it.
DtSendEnds ==
    /\ []<>(dtSend = "none")
    /\ [][(dtSend \notin {"none", "token"} /\ dtSend' = "none") => dtMedia' = <<>>]_dtVars

\* Acknowledged messages do not pile up.
DtTasksEnd == \A m \in 1 .. MaxDtMsgs : []<>(m \notin dtTasks)

-----------------------------------------------------------------------------
(***************************************************************************)
(* channels/slack.py: Socket Mode delivers an event in an envelope until   *)
(* the envelope is acknowledged, and a mention in a channel in two events. *)
(***************************************************************************)
CONSTANTS
    MaxSlackMsgs,   \* bound: messages
    MaxLostAcks     \* bound: acknowledgements that get lost

ASSUME SlAssumption == MaxSlackMsgs \in Nat

VARIABLES
    slState,        \* "off", "running", "stopping", "stopped"
    slBot,          \* _bot_user_id is known (auth_test returned)
    slPolicy,       \* config.group_policy; "open" is also an allowlist with the channel, "none" one without
    slMsgs,         \* messages so far, each [mention, own, im]
    slEvents,       \* events Slack has still to deliver: [msg, type]
    slWork,         \* events whose handler was acknowledged and waits for a reaction or a download
    slLost,         \* acknowledgements lost so far
    \* History.
    slGot           \* how often a message was handed to the bus

slVars == <<slState, slBot, slPolicy, slMsgs, slEvents, slWork, slLost, slGot>>

SlMsgs == 1 .. MaxSlackMsgs

SlInit ==
    /\ slState = "off" /\ slBot = FALSE /\ slPolicy \in {"open", "mention", "none"}
    /\ slMsgs = <<>> /\ slEvents = {} /\ slWork = {} /\ slLost = 0 /\ slGot = [m \in SlMsgs |-> 0]

\* start: the listener is registered before auth_test, which may fail.
SlStart ==
    /\ slState = "off" /\ slState' = "running" /\ slBot' \in BOOLEAN
    /\ UNCHANGED <<slPolicy, slMsgs, slEvents, slWork, slLost, slGot>>

\* Somebody writes.  Slack sends "message", and "app_mention" for a mention in
\* a channel (external).
SlWritten(mention, own, im) ==
    /\ slState = "running" /\ Len(slMsgs) < MaxSlackMsgs
    /\ slMsgs' = Append(slMsgs, [mention |-> mention, own |-> own, im |-> im])
    /\ slEvents' = slEvents \union
          {[msg |-> Len(slMsgs) + 1, type |-> t] :
             t \in {"message"} \union (IF mention /\ ~im THEN {"app_mention"} ELSE {})}
    /\ UNCHANGED <<slState, slBot, slPolicy, slWork, slLost, slGot>>

\* Mutant: the mention is also taken from the plain message.
DoubledNot(e) == FALSE

\* "Prefer `app_mention`".
Doubled(e) == e.type = "message" /\ slBot /\ slMsgs[e.msg].mention

\* _should_respond_in_channel
ShouldRespond(e) ==
    \/ slPolicy = "open"
    \/ slPolicy = "mention" /\ (e.type = "app_mention" \/ (slBot /\ slMsgs[e.msg].mention))

\* Mutant: the bot answers itself.
AcceptedOwn(e) == ~Doubled(e) /\ (slMsgs[e.msg].im \/ ShouldRespond(e))

\* What _on_socket_request goes on with.
Accepted(e) ==
    /\ ~(slBot /\ slMsgs[e.msg].own) /\ ~Doubled(e)
    /\ slMsgs[e.msg].im \/ ShouldRespond(e)

\* Mutant: the envelope is acknowledged when the message was handed over.
AckedLate(e) == UNCHANGED slEvents

Acked(e) == slEvents' = slEvents \ {e}

\* An envelope arrives and is acknowledged right away; then the event is judged.
SlRequest(e) ==
    /\ e \in slEvents /\ slState \in {"running", "stopping"}
    /\ Acked(e)
    /\ slWork' = IF Accepted(e) THEN slWork \union {e} ELSE slWork
    /\ UNCHANGED <<slState, slBot, slPolicy, slMsgs, slLost, slGot>>

\* send_socket_mode_response raised: the handler is over, and Slack delivers the
\* envelope again.
SlAckRaises(e) ==
    /\ e \in slEvents /\ slState \in {"running", "stopping"} /\ slLost < MaxLostAcks
    /\ slLost' = slLost + 1
    /\ UNCHANGED <<slState, slBot, slPolicy, slMsgs, slEvents, slWork, slGot>>

\* The acknowledgement was sent and got lost.
SlAckLost(e) ==
    /\ e \in slEvents /\ slState \in {"running", "stopping"} /\ slLost < MaxLostAcks
    /\ slLost' = slLost + 1
    /\ slWork' = IF Accepted(e) THEN slWork \union {e} ELSE slWork
    /\ UNCHANGED <<slState, slBot, slPolicy, slMsgs, slEvents, slGot>>

\* Mutant: a download that fails ends the handler.
SlHandedOverNone(e) == UNCHANGED slGot

SlHandedOver(e) == slGot' = [slGot EXCEPT ![e.msg] = @ + 1]

\* The reaction and the downloads were made or failed; _handle_message.
SlHandOver(e) ==
    /\ e \in slWork /\ slWork' = slWork \ {e} /\ SlHandedOver(e)
    /\ UNCHANGED <<slState, slBot, slPolicy, slMsgs, slEvents, slLost>>

\* stop, and the socket is closed: handlers under way go on.
SlStop ==
    /\ slState = "running" /\ slState' = "stopping"
    /\ UNCHANGED <<slBot, slPolicy, slMsgs, slEvents, slWork, slLost, slGot>>

SlClosed ==
    /\ slState = "stopping" /\ slState' = "stopped"
    /\ UNCHANGED <<slBot, slPolicy, slMsgs, slEvents, slWork, slLost, slGot>>

SlEvents == [msg : SlMsgs, type : {"message", "app_mention"}]

SlNext ==
    \/ SlStart \/ SlStop \/ SlClosed
    \/ \E mention, own, im \in BOOLEAN : SlWritten(mention, own, im)
    \/ \E e \in SlEvents : SlRequest(e) \/ SlAckRaises(e) \/ SlAckLost(e) \/ SlHandOver(e)

\* Slack delivers while the socket is up, and handlers end.
SlFair(k) ==
    \E e \in SlEvents :
        LET i == 4 * e.msg - (IF e.type = "message" THEN 2 ELSE 0)
        IN (k = i - 1 /\ SlRequest(e)) \/ (k = i /\ SlHandOver(e))
SlFairness == \A k \in 1 .. 4 * MaxSlackMsgs : WF_slVars(SlFair(k))

SlSpec == SlInit /\ [][SlNext]_slVars /\ SlFairness

-----------------------------------------------------------------------------
(* Properties *)

SlTypeOK ==
    /\ slState \in {"off", "running", "stopping", "stopped"} /\ slBot \in BOOLEAN
    /\ DOMAIN slMsgs \subseteq SlMsgs /\ slEvents \subseteq SlEvents /\ slWork \subseteq SlEvents
    /\ slLost \in 0 .. MaxLostAcks /\ \A e \in slEvents \union slWork : e.msg \in DOMAIN slMsgs
    /\ \A e \in slWork : ~(slBot /\ slMsgs[e.msg].own)

\* If the bot knows its own id and no acknowledgement got lost, a message is
\* handed to the agent once, although a mention comes in two events, and the
\* bot's own messages never.
MentionOnce ==
    (slBot /\ slLost = 0) => \A m \in DOMAIN slMsgs : slGot[m] <= IF slMsgs[m].own THEN 0 ELSE 1

Expected(m) ==
    /\ slBot /\ ~slMsgs[m].own
    /\ IF slMsgs[m].im THEN ~slMsgs[m].mention
       ELSE slPolicy = "open" \/ (slPolicy = "mention" /\ slMsgs[m].mention)

\* A message the policy lets through reaches the agent unless the channel is
\* stopped, also if it is only one of its two events that is let through.  (A
\* direct message that mentions the bot has one event, which is dropped.)
SlackHandled ==
    \A m \in SlMsgs : []<>((m \in DOMAIN slMsgs /\ Expected(m)) => (slGot[m] > 0 \/ slState = "stopped"))
=============================================================================
