---------------------------- MODULE OutboundText ----------------------------
(***************************************************************************)
(* How an answer becomes messages a platform accepts: split_message of     *)
(* utils/helpers.py, the loop every adapter runs over a long answer, and   *)
(* Feishu's cards (one table each).  Characters are told apart only as     *)
(* newline, space and other, which is all that split_message looks at.     *)
(***************************************************************************)
EXTENDS Naturals, Sequences, FiniteSets, SequencesExt

CONSTANTS
    MaxText,     \* bound: characters of an answer
    MaxLen,      \* max_len of the platform
    MaxElems,    \* bound: elements of a rendered answer
    MaxMedia,    \* bound: attachments of an answer
    MaxTables    \* max_tables: tables in one Feishu card

ASSUME TextAssumption == MaxLen \in Nat \ {0} /\ MaxTables \in Nat \ {0}

VARIABLES
    txState,     \* "off", "splitting" (the loop of split_message), "split",
                 \* "uploading" (send, the attachments), "sending" (the text), "sent"
    txText,      \* the answer
    txRest,      \* content: what the loop has not put in a chunk
    txChunks,    \* chunks
    txElems,     \* the elements of an answer rendered for Feishu
    txCards,     \* cards of it that are still to be sent
    txTried,     \* cards that were sent or failed
    txMedia,     \* attachments that are still to be sent
    txKeys       \* attachments that were uploaded and posted

txVars == <<txState, txText, txRest, txChunks, txElems, txCards, txTried, txMedia, txKeys>>

Chars == {"newline", "space", "x"}

TxInit ==
    /\ txState = "off" /\ txText = <<>> /\ txRest = <<>> /\ txChunks = <<>>
    /\ txElems = <<>> /\ txCards = <<>> /\ txTried = <<>>
    /\ txMedia = 0 /\ txKeys = 0

\* split_message is called; text that fits is one chunk.
Split(s) ==
    /\ txState = "off"
    /\ txText' = s
    /\ IF Len(s) <= MaxLen THEN txState' = "split" /\ txChunks' = <<s>> /\ txRest' = <<>>
                           ELSE txState' = "splitting" /\ txRest' = s /\ txChunks' = <<>>
    /\ UNCHANGED <<txElems, txCards, txTried, txMedia, txKeys>>

\* rfind, counted from 0; 0 also stands for "not found" (both are <= 0).
RFind(s, c) == LET P == {i \in DOMAIN s : s[i] = c} IN IF P = {} THEN 0 ELSE Max(P) - 1

\* Mutant: the hard break is one too far.
CutLong(s) ==
    LET cut == SubSeq(s, 1, MaxLen) IN
    IF RFind(cut, "newline") > 0 THEN RFind(cut, "newline")
    ELSE IF RFind(cut, "space") > 0 THEN RFind(cut, "space") ELSE MaxLen + 1

\* Where the chunk ends: at a newline, else at a space, else at the limit.
Cut(s) ==
    LET cut == SubSeq(s, 1, MaxLen) IN
    IF RFind(cut, "newline") > 0 THEN RFind(cut, "newline")
    ELSE IF RFind(cut, "space") > 0 THEN RFind(cut, "space") ELSE MaxLen

\* Mutant: the character at the break is dropped.
LStripOne(s) == IF s = <<>> THEN s ELSE Tail(s)

\* Mutant: the rest keeps its leading white space.
LStripNot(s) == s

\* lstrip.
LStrip(s) ==
    LET P == {i \in DOMAIN s : s[i] = "x"} IN IF P = {} THEN <<>> ELSE SubSeq(s, Min(P), Len(s))

\* A round of the loop.
SplitRound ==
    /\ txState = "splitting"
    /\ IF Len(txRest) <= MaxLen
          THEN /\ txChunks' = (IF txRest = <<>> THEN txChunks ELSE Append(txChunks, txRest))
               /\ txRest' = <<>> /\ txState' = "split"
          ELSE LET p == Cut(txRest) IN
               /\ txChunks' = Append(txChunks, SubSeq(txRest, 1, p))
               /\ txRest' = LStrip(SubSeq(txRest, p + 1, Len(txRest)))
               /\ UNCHANGED txState
    /\ UNCHANGED <<txText, txElems, txCards, txTried, txMedia, txKeys>>

\* Mutant: what follows the last table of a full card is forgotten.
AddElementDrops(acc, el) ==
    IF el = "table" /\ acc.tables >= MaxTables
       THEN [groups |-> Append(acc.groups, acc.current), current |-> <<el>>, tables |-> 1]
       ELSE IF el # "table" /\ acc.tables >= MaxTables THEN acc
       ELSE [acc EXCEPT !.current = Append(@, el), !.tables = IF el = "table" THEN @ + 1 ELSE @]

\* Mutant: the test for a full card is off by one.
AddElementOver(acc, el) ==
    IF el = "table" /\ acc.tables > MaxTables
       THEN [groups |-> Append(acc.groups, acc.current), current |-> <<el>>, tables |-> 1]
       ELSE [acc EXCEPT !.current = Append(@, el), !.tables = IF el = "table" THEN @ + 1 ELSE @]

\* A round of _split_elements_by_table_limit.
AddElement(acc, el) ==
    IF el = "table" /\ acc.tables >= MaxTables
       THEN [groups |-> Append(acc.groups, acc.current), current |-> <<el>>, tables |-> 1]
       ELSE [acc EXCEPT !.current = Append(@, el), !.tables = IF el = "table" THEN @ + 1 ELSE @]

SplitElements(es) ==
    LET end == FoldLeft(AddElement, [groups |-> <<>>, current |-> <<>>, tables |-> 0], es)
    IN  Append(end.groups, end.current)

\* What _detect_msg_format chooses between: plain text and a post are one
\* message, of which _markdown_to_post keeps the lines; a card has elements.
Formats == {"text", "post", "interactive"}

\* The elements that _build_card_elements makes of tables, headings and text.
Elements(fmt) ==
    IF fmt = "interactive" THEN UNION {[1 .. n -> {"table", "text"}] : n \in 1 .. MaxElems} ELSE {<<"text">>}

\* FeishuChannel.send is called for an answer with m attachments.
SendCards(m, es) ==
    /\ txState = "off" /\ txState' = "uploading"
    /\ txElems' = es /\ txCards' = SplitElements(es) /\ txMedia' = m
    /\ UNCHANGED <<txText, txRest, txChunks, txTried, txKeys>>

\* Mutant: a failed upload ends the send.
UploadStops ==
    /\ txState = "uploading"
    /\ IF txMedia = 0 THEN txState' = "sending" /\ UNCHANGED <<txMedia, txKeys>>
       ELSE \/ txMedia' = txMedia - 1 /\ txKeys' = txKeys + 1 /\ UNCHANGED txState
            \/ txMedia' = 0 /\ txState' = "sent" /\ UNCHANGED txKeys
    /\ UNCHANGED <<txText, txRest, txChunks, txElems, txCards, txTried>>

\* The next attachment: uploaded and posted, or skipped because there is no
\* such file or no key came back.
Upload ==
    /\ txState = "uploading"
    /\ IF txMedia = 0 THEN txState' = "sending" /\ UNCHANGED <<txMedia, txKeys>>
       ELSE txMedia' = txMedia - 1 /\ txKeys' \in {txKeys, txKeys + 1} /\ UNCHANGED txState
    /\ UNCHANGED <<txText, txRest, txChunks, txElems, txCards, txTried>>

\* _send_message_sync returns True or False; the next card follows either way.
PostCard ==
    /\ txState = "sending"
    /\ txTried' = Append(txTried, Head(txCards)) /\ txCards' = Tail(txCards)
    /\ txState' = IF Len(txCards) = 1 THEN "sent" ELSE "sending"
    /\ UNCHANGED <<txText, txRest, txChunks, txElems, txMedia, txKeys>>

TxNext ==
    \/ SplitRound \/ Upload \/ PostCard
    \/ \E n \in 1 .. MaxText : \E s \in [1 .. n -> Chars] : Split(s)
    \/ \E m \in 0 .. MaxMedia, fmt \in Formats : \E es \in Elements(fmt) : SendCards(m, es)

TxFair(k) ==
    \/ k = 1 /\ SplitRound
    \/ k = 2 /\ Upload
    \/ k = 3 /\ PostCard
TxFairness == \A k \in 1 .. 3 : WF_txVars(TxFair(k))

TxSpec == TxInit /\ [][TxNext]_txVars /\ TxFairness

-----------------------------------------------------------------------------
(* Properties *)

TxTypeOK ==
    /\ txState \in {"off", "splitting", "split", "uploading", "sending", "sent"}
    /\ txText \in Seq(Chars) /\ txRest \in Seq(Chars) /\ txChunks \in Seq(Seq(Chars))
    /\ txElems \in Seq({"table", "text"})
    /\ txMedia \in 0 .. MaxMedia /\ txKeys + txMedia <= MaxMedia
    /\ \A i \in DOMAIN txChunks : Len(txChunks[i]) \in 1 .. MaxLen

Visible(s) == SelectSeq(s, LAMBDA c : c = "x")

\* split_message loses and reorders nothing but white space: the visible
\* characters of the chunks, followed by those of the rest, are the answer's.
NothingLost == txState # "off" => Visible(FlattenSeq(txChunks) \o txRest) = Visible(txText)

\* An answer that does not begin with white space gives no blank chunk, which
\* a platform would refuse (and Discord's adapter then sends no further one).
NoBlankChunk ==
    (txText # <<>> /\ Head(txText) = "x") => \A i \in DOMAIN txChunks : Visible(txChunks[i]) # <<>>

\* No card has more tables than Feishu accepts ("a hard limit of one table per
\* card"), however tables and text alternate.
CardLimit ==
    \A c \in DOMAIN txCards :
        Cardinality({k \in DOMAIN txCards[c] : txCards[c][k] = "table"}) <= MaxTables

\* The cards together are the whole answer, in order: "every table reaches the
\* user", and a card that fails does not keep the next ones back.
CardsComplete == FlattenSeq(txTried \o txCards) = txElems

\* split_message ends for every text, and every card of an answer is tried,
\* also after an attachment or a card that failed.
AnswerSent ==
    []<>(/\ txState \notin {"splitting", "uploading", "sending"}
         /\ txState = "sent" => FlattenSeq(txTried) = txElems)

=============================================================================
