----------------------------- MODULE MCChannels -----------------------------
(***************************************************************************)
(* The chat channels and the delivery of texts. A behaviour follows one of *)
(* them, chosen by part: the parts share no state, so one run checks them  *)
(* all. The constants of each module are bounded so that the cases its     *)
(* properties are about occur.                                             *)
(***************************************************************************)
EXTENDS Telegram, Discord, Email, WhatsApp, MochatChat, OutboundText,
    WorkplaceChats, Matrix

CONSTANT Parts

VARIABLE part

all == <<part, tgVars, dcVars, emVars, waVars, linkVars, panelVars, txVars, fsVars, mxVars, dtVars, slVars>>

Init ==
    /\ part \in Parts
    \* A part that is not followed has one configuration.
    /\ IF part = "Telegram" THEN TRUE ELSE tgSuspends = FALSE
    /\ IF part = "Email" THEN TRUE ELSE emMark = FALSE /\ emAuto = FALSE /\ emTitled = {}
    /\ IF part = "WhatsApp" THEN TRUE ELSE waSpawn = FALSE
    /\ IF part = "MochatLink" THEN TRUE ELSE lkAuto = TRUE /\ lkKnown = {}
    /\ IF part = "MochatPanel" THEN TRUE ELSE pnDelay = FALSE /\ pnRequire = FALSE /\ pnMentions = {}
    /\ IF part = "Feishu" THEN TRUE ELSE fsBots = {}
    /\ IF part = "Matrix" THEN TRUE ELSE mxPolicy = "open"
    /\ IF part = "Slack" THEN TRUE ELSE slPolicy = "open"
    /\ TgInit /\ DcInit /\ EmInit /\ WaInit /\ LinkInit /\ PanelInit /\ TxInit /\ FsInit /\ MxInit /\ DtInit /\ SlInit

Next ==
    \/ part = "Telegram" /\ TgNext /\ UNCHANGED <<part, dcVars, emVars, waVars, linkVars, panelVars, txVars, fsVars, mxVars, dtVars, slVars>>
    \/ part = "Discord" /\ DcNext /\ UNCHANGED <<part, tgVars, emVars, waVars, linkVars, panelVars, txVars, fsVars, mxVars, dtVars, slVars>>
    \/ part = "Email" /\ EmNext /\ UNCHANGED <<part, tgVars, dcVars, waVars, linkVars, panelVars, txVars, fsVars, mxVars, dtVars, slVars>>
    \/ part = "WhatsApp" /\ WaNext /\ UNCHANGED <<part, tgVars, dcVars, emVars, linkVars, panelVars, txVars, fsVars, mxVars, dtVars, slVars>>
    \/ part = "MochatLink" /\ LinkNext /\ UNCHANGED <<part, tgVars, dcVars, emVars, waVars, panelVars, txVars, fsVars, mxVars, dtVars, slVars>>
    \/ part = "MochatPanel" /\ PanelNext /\ UNCHANGED <<part, tgVars, dcVars, emVars, waVars, linkVars, txVars, fsVars, mxVars, dtVars, slVars>>
    \/ part = "OutboundText" /\ TxNext /\ UNCHANGED <<part, tgVars, dcVars, emVars, waVars, linkVars, panelVars, fsVars, mxVars, dtVars, slVars>>
    \/ part = "Feishu" /\ FsNext /\ UNCHANGED <<part, tgVars, dcVars, emVars, waVars, linkVars, panelVars, txVars, mxVars, dtVars, slVars>>
    \/ part = "Matrix" /\ MxNext /\ UNCHANGED <<part, tgVars, dcVars, emVars, waVars, linkVars, panelVars, txVars, fsVars, dtVars, slVars>>
    \/ part = "DingTalk" /\ DtNext /\ UNCHANGED <<part, tgVars, dcVars, emVars, waVars, linkVars, panelVars, txVars, fsVars, mxVars, slVars>>
    \/ part = "Slack" /\ SlNext /\ UNCHANGED <<part, tgVars, dcVars, emVars, waVars, linkVars, panelVars, txVars, fsVars, mxVars, dtVars>>

Spec ==
    /\ Init /\ [][Next]_all
    /\ TgFairness /\ DcFairness /\ EmFairness /\ WaFairness /\ LinkFairness /\ PanelFairness /\ TxFairness /\ FsFairness /\ MxFairness /\ DtFairness /\ SlFairness

\* No message is handed over twice, and none is taken for handled before it
\* is, whatever the services redeliver: albums and their flush tasks
\* (Telegram), mails polled again and forgotten uids (Email), the id windows
\* of WhatsApp, Feishu and Mochat, the two events Slack sends for a mention,
\* and callbacks that DingTalk acknowledges.
MessageOnce ==
    /\ TurnOnce
    /\ MailOnce /\ SeenIsHandedOver
    /\ WaOnce
    /\ InOnePlace
    /\ FsOnce
    /\ MentionOnce
    /\ AckedIsHandled

\* What a channel keeps is sound while its coroutines interleave: one typing
\* task per chat, one heartbeat and one flush timer, no bridge process left
\* behind, a connection that is called ready is subscribed, a token is used
\* only while it is valid; a retried answer shows a beginning of itself, a
\* split one loses nothing, no automatic reply to somebody who did not write,
\* every attachment accounted for.
ChannelsSound ==
    /\ TgTypeOK /\ OneTyper
    /\ DcTypeOK /\ OneHeartbeat /\ AnswerPrefix
    /\ EmTypeOK /\ NoAutoReply
    /\ WaTypeOK /\ BridgeReaped
    /\ LinkTypeOK /\ ReadyIsSubscribed
    /\ PanelTypeOK /\ OneTimerPerBuffer
    /\ TxTypeOK /\ NothingLost /\ NoBlankChunk /\ CardLimit /\ CardsComplete
    /\ FsTypeOK
    /\ MxTypeOK /\ NoStrayTyper /\ FilesAccounted
    /\ DtTypeOK /\ TokenFresh
    /\ SlTypeOK

\* What arrived is handled in the end: the items of an album are forwarded, a
\* mail that no error took is delivered, buffered panel messages are
\* dispatched, events of Feishu and Slack are handled, and an answer under
\* way is sent or given up.
MessagesHandled ==
    /\ AlbumForwarded
    /\ MailDelivered
    /\ BufferedIsDispatched
    /\ AnswerSent
    /\ FsHandled
    /\ DtSendEnds /\ DtTasksEnd
    /\ SlackHandled

\* What was started ends: typing indicators end with the answer or with stop,
\* stop returns although a connect, a spawn or a sync is under way, nothing
\* is started after it, and polling takes over when the connection is lost.
ChannelsStop ==
    /\ TypingEnds
    /\ TypingStops /\ DcStopEnds
    /\ WaStopEnds
    /\ StopIsFinal /\ FallbackTakesOver
    /\ MxTypingEnds /\ MxStopEnds
=============================================================================
