------------------------------ MODULE LiteLLM -------------------------------
(***************************************************************************)
(* The provider most models are reached through                            *)
(* (providers/litellm_provider.py, providers/base.py): the calls, with     *)
(* their retries and fallbacks, and what a request and an answer are made  *)
(* of.                                                                     *)
(***************************************************************************)
EXTENDS Naturals, Sequences, FiniteSets, SequencesExt

-----------------------------------------------------------------------------
(***************************************************************************)
(* providers/base.py (chat_with_retry) and providers/litellm_provider.py   *)
(* (chat): a request tried on several models, several times each, with one *)
(* dictionary of parameters for all of them and with the key put into the  *)
(* process environment for the time of each call.                          *)
(***************************************************************************)
CONSTANTS
    LcCallers,      \* tasks that call chat_with_retry
    LcRetries,      \* len(_CHAT_RETRY_DELAYS)
    LcMaxCalls,     \* bound: calls of chat_with_retry
    LcMaxFaults     \* bound: requests that fail

\* The model and the only fallback model, of chat_with_retry and of the provider: models_to_try of the one, and of
\* the other for the o-th model.
LcModels == <<"gpt", "claude">>
LcInner(o) == SubSeq(LcModels, o, Len(LcModels))

VARIABLES
    lcEnv,          \* the key in os.environ, {} if it is not set
    lcCall,         \* caller -> its call
    lcCalls,        \* calls so far
    lcFaults,       \* failed requests so far
    \* History.
    lcOverlap,      \* two requests have been under way at once
    lcTried,        \* caller -> outcomes of its requests, in order
    lcResult        \* caller -> what chat_with_retry returned last

lcVars == <<lcEnv, lcCall, lcCalls, lcFaults, lcOverlap, lcTried, lcResult>>

\* Model and attempt of chat_with_retry, model of chat, kwargs, old_env, and whether the call wants JSON and tools.
LcIdle == [stage |-> "idle", outer |-> 1, model |-> 0, attempt |-> 0, kwargs |-> {}, old |-> {}, json |-> FALSE]

\* Mutant: every request names the first model.
LcModelFirst(k) == LcModels[1]

LcModel(k) == LcInner(k.outer)[k.model]

LcInit ==
    /\ lcEnv = {} /\ lcCall = [c \in LcCallers |-> LcIdle] /\ lcCalls = 0 /\ lcFaults = 0 /\ lcOverlap = FALSE
    /\ lcTried = [c \in LcCallers |-> <<>>] /\ lcResult = [c \in LcCallers |-> "none"]

\* chat_with_retry; each attempt is a call of chat with kwargs of its own.
ChatWithRetry(c, json) ==
    /\ lcCall[c].stage = "idle" /\ lcCalls < LcMaxCalls /\ lcCalls' = lcCalls + 1
    /\ lcCall' = [lcCall EXCEPT ![c] = [LcIdle EXCEPT !.stage = "chat", !.model = 1, !.json = json]]
    /\ lcTried' = [lcTried EXCEPT ![c] = <<>>] /\ lcResult' = [lcResult EXCEPT ![c] = "none"]
    /\ UNCHANGED <<lcEnv, lcFaults, lcOverlap>>

\* Mutant: what another model was given stays.
DroppedNot(kwargs, names) == kwargs

Dropped(kwargs, names) == kwargs \ names

\* The optional parameters of a request to model m, from those of the request before: hints for OpenAI's cache,
\* JSON mode for a model that has it.
LcKwargs(m, json, kwargs) ==
    Dropped(kwargs, {"prompt_cache_key", "response_format"})
        \union (IF m = "gpt" THEN {"prompt_cache_key"} ELSE {}) \union (IF json /\ m = "gpt" THEN {"response_format"} ELSE {})

\* setdefault keeps a key that is there, or there already because of another call.
LcSetEnv(c) == lcEnv' = IF lcEnv = {} THEN {"key"} ELSE lcEnv

\* One turn of the loop of chat: the request is sent.
LcSend(c) ==
    /\ lcCall[c].stage = "chat" /\ LcSetEnv(c)
    /\ lcCall' = [lcCall EXCEPT ![c].stage = "waiting", ![c].old = lcEnv,
                               ![c].kwargs = LcKwargs(LcModel(lcCall[c]), lcCall[c].json, @)]
    /\ lcOverlap' = (lcOverlap \/ \E d \in LcCallers \ {c} : lcCall[d].stage = "waiting")
    /\ UNCHANGED <<lcCalls, lcFaults, lcTried, lcResult>>

\* Mutant: an exception skips the restoring.
LcRestoredOk(c, ok) == IF ok THEN lcCall[c].old ELSE lcEnv

\* The finally of _env_context.
LcRestored(c, ok) == lcCall[c].old

LcReturns(c, result) ==
    lcCall' = [lcCall EXCEPT ![c] = LcIdle] /\ lcResult' = [lcResult EXCEPT ![c] = result]

\* Another call of chat, from its first model.
LcAgain(k, outer, attempt) == [k EXCEPT !.stage = "chat", !.outer = outer, !.model = 1, !.kwargs = {}, !.attempt = attempt]

\* Mutant: a malformed answer is corrected for ever.
MayCorrectAgain(attempt) == TRUE

MayCorrect(attempt) == attempt < LcRetries

\* The request fails, with an error that is transient or not, in chat: the next model; after the last one the error
\* goes to chat_with_retry, which tries again (and sleeps) if the error is transient, then takes its next model.
LcFails(c, transient) ==
    LET k == lcCall[c] IN
    /\ k.stage = "waiting" /\ lcFaults < LcMaxFaults /\ lcFaults' = lcFaults + 1
    /\ lcEnv' = LcRestored(c, FALSE)
    /\ lcTried' = [lcTried EXCEPT ![c] = Append(@, <<LcModel(k), "error">>)]
    /\ IF k.model < Len(LcInner(k.outer))
          THEN lcCall' = [lcCall EXCEPT ![c].stage = "chat", ![c].model = k.model + 1] /\ UNCHANGED lcResult
       ELSE IF transient /\ k.attempt < LcRetries
          THEN lcCall' = [lcCall EXCEPT ![c] = LcAgain(k, k.outer, k.attempt + 1)] /\ UNCHANGED lcResult
       ELSE IF k.outer < Len(LcModels)
          THEN lcCall' = [lcCall EXCEPT ![c] = LcAgain(k, k.outer + 1, 0)] /\ UNCHANGED lcResult
       ELSE LcReturns(c, "error")
    /\ UNCHANGED <<lcCalls, lcOverlap>>

\* An answer; one whose tool call is malformed goes back with a correction, for as long as there are attempts.
LcAnswers(c, malformed) ==
    LET k == lcCall[c] IN
    /\ k.stage = "waiting" /\ lcEnv' = LcRestored(c, TRUE)
    /\ lcTried' = [lcTried EXCEPT ![c] = Append(@, <<LcModel(k), IF malformed THEN "malformed" ELSE "ok">>)]
    /\ IF malformed /\ MayCorrect(k.attempt)
          THEN lcCall' = [lcCall EXCEPT ![c] = LcAgain(k, k.outer, k.attempt + 1)] /\ UNCHANGED lcResult
          ELSE LcReturns(c, IF malformed THEN "malformed" ELSE "ok")
    /\ UNCHANGED <<lcCalls, lcFaults, lcOverlap>>

\* The task is cancelled while it waits: only the context manager runs.
LcCancelled(c) ==
    /\ lcCall[c].stage = "waiting" /\ lcEnv' = LcRestored(c, FALSE) /\ LcReturns(c, "cancelled")
    /\ UNCHANGED <<lcCalls, lcFaults, lcOverlap, lcTried>>

LcNext ==
    \E c \in LcCallers :
        \/ LcSend(c) \/ LcCancelled(c)
        \/ \E b \in BOOLEAN : ChatWithRetry(c, b) \/ LcFails(c, b) \/ LcAnswers(c, b)

LcSpec == LcInit /\ [][LcNext]_lcVars

-----------------------------------------------------------------------------
(* Properties *)

\* The variables have their types, and one call makes no more requests than
\* attempts times the models of both lists.
LcTypeOK ==
    /\ lcEnv \subseteq {"key"} /\ lcCalls <= LcMaxCalls
    /\ \A c \in LcCallers :
          /\ lcCall[c].stage \in {"idle", "chat", "waiting"} /\ lcCall[c].attempt \in 0 .. LcRetries
          /\ Len(lcTried[c]) <= (LcRetries + 1) * (Len(LcModels) + 1)

\* The parameters a request carries are those a fresh request to that model
\* would: nothing is left of the model that failed before it.
FreshParameters ==
    \A c \in LcCallers : lcCall[c].stage = "waiting" =>
        lcCall[c].kwargs = LcKwargs(LcModel(lcCall[c]), lcCall[c].json, {})

\* A call gives up with an error only when every model was asked and the last
\* request to each failed; an answer that is returned is the last request's,
\* and a malformed one only when no attempt is left.
ErrorMeansAllFailed ==
    \A c \in LcCallers :
        LET t == lcTried[c]
            Of(m) == {i \in DOMAIN t : t[i][1] = m}
        IN
        /\ lcResult[c] = "error" =>
              \A i \in DOMAIN LcModels : \E j \in Of(LcModels[i]) : t[j][2] = "error" /\ \A h \in Of(LcModels[i]) : h <= j
        /\ lcResult[c] \in {"ok", "malformed"} => t[Len(t)][2] = lcResult[c]
        /\ lcResult[c] = "malformed" => Len(t) > LcRetries

\* As long as no two requests overlap, the key is in the environment only
\* during a request, failed and cancelled ones included.  (With two at once
\* the second saves the first one's key as the value to restore, and the key
\* stays.)
KeyOnlyDuringCall == ~lcOverlap /\ (\A c \in LcCallers : lcCall[c].stage # "waiting") => lcEnv = {}

-----------------------------------------------------------------------------
(***************************************************************************)
(* providers/litellm_provider.py and providers/base.py: how the messages   *)
(* of a request are prepared (cache marks, empty contents, tool-call ids)  *)
(* and how an answer that is streamed in pieces is put together.           *)
(***************************************************************************)
CONSTANTS
    LrMaxMsgs,      \* bound: messages of a request
    LrMaxDeltas     \* bound: pieces of a streamed answer

VARIABLES
    lrStage,        \* "off", "messages", "request", "stream"
    lrMsgs,         \* the messages given to chat
    lrOut,          \* the messages of the request
    lrTools,        \* a tool's definition is marked
    lrDeltas,       \* tool-call pieces received, as [index, id, args]
    lrCalls         \* tool_calls_dict: index -> [id, args]

lrVars == <<lrStage, lrMsgs, lrOut, lrTools, lrDeltas, lrCalls>>

\* A content: absent, a string (one block), or a list of blocks: texts, empty texts, images.
LrContent(form, kinds) == [form |-> form, blocks |-> [i \in DOMAIN kinds |-> [kind |-> kinds[i], mark |-> FALSE]]]
LrNone == LrContent("none", <<>>)
LrText == LrContent("str", <<"text">>)
LrEmpty == LrContent("str", <<"e">>)
LrContents == {LrText, LrEmpty, LrContent("list", <<"image", "e">>)}

\* A tool message answers the call "long" of the assistant message before it (ids longer than 9 characters).
LrMessages ==
    [role : {"system", "user"}, content : LrContents, calls : {{}}, answers : {{}}]
    \union [role : {"assistant"}, content : {LrText, LrEmpty, LrNone}, calls : {{}, {"long"}}, answers : {{}}]
    \union [role : {"tool"}, content : {LrText, LrEmpty}, calls : {{}}, answers : {{"long"}}]

LrInit == lrStage = "off" /\ lrMsgs = <<>> /\ lrOut = <<>> /\ lrTools = FALSE /\ lrDeltas = <<>> /\ lrCalls = <<>>

\* A conversation: one system message, at its beginning.
LrMessage ==
    /\ lrStage \in {"off", "messages"} /\ Len(lrMsgs) < LrMaxMsgs /\ lrStage' = "messages"
    /\ \E m \in LrMessages :
          /\ m.role = "system" <=> lrMsgs = <<>>
          /\ m.role = "tool" => lrMsgs # <<>> /\ Last(lrMsgs).calls = m.answers
          /\ lrMsgs' = Append(lrMsgs, m)
    /\ UNCHANGED <<lrOut, lrTools, lrDeltas, lrCalls>>

-----------------------------------------------------------------------------
(* _apply_cache_control, _sanitize_empty_content, _sanitize_messages *)

\* The content as a list of blocks, the last of which has the mark.
LrMark(content) == [form |-> "list", blocks |-> [content.blocks EXCEPT ![Len(content.blocks)].mark = TRUE]]

\* Mutant: both ends and the middle of a long conversation are marked.
LrBreakpointsMore(idx) == LET n == Len(idx) IN IF n >= 4 THEN {idx[1], idx[n \div 2], idx[n - 1]} ELSE IF n >= 2 THEN {idx[1]} ELSE {}

\* Positions, among the user's and the assistant's messages, that get a mark.
LrBreakpoints(idx) == LET n == Len(idx) IN IF n >= 4 THEN {idx[n \div 2 + 1], idx[n - 1]} ELSE IF n >= 2 THEN {idx[1]} ELSE {}

LrCached(msgs) ==
    LET idx == SelectSeq([i \in DOMAIN msgs |-> i], LAMBDA i : msgs[i].role \in {"user", "assistant"})
        Marked(i) == (msgs[i].role = "system" \/ (i \in LrBreakpoints(idx))) /\ msgs[i].content.form # "none"
    IN  [i \in DOMAIN msgs |-> IF Marked(i) THEN [msgs[i] EXCEPT !.content = LrMark(@)] ELSE msgs[i]]

LrEmptyFor(m) == IF m.role = "assistant" /\ m.calls # {} THEN LrNone ELSE LrText

LrNonEmpty(content) == SelectSeq(content.blocks, LAMBDA b : b.kind # "e")

\* Mutant: a list whose texts are all empty is left empty.
LrSanitizedKeep(m) == IF m.content.form = "str" /\ m.content = LrEmpty THEN [m EXCEPT !.content = LrEmptyFor(m)]
                      ELSE [m EXCEPT !.content.blocks = LrNonEmpty(m.content)]

\* An empty text becomes "(empty)", or is left out beside tool calls; empty blocks go, and are replaced when nothing is left.
LrSanitized(m) ==
    IF m.content.form # "none" /\ LrNonEmpty(m.content) = <<>> THEN [m EXCEPT !.content = LrEmptyFor(m)]
    ELSE [m EXCEPT !.content.blocks = LrNonEmpty(m.content)]

\* Mutant: only the assistant's side of a call is renamed.
LrRenamedCalls(m) == [m EXCEPT !.calls = {"short" : x \in @}]

\* map_id: a call and its answer get the same short id.
LrRenamed(m) == [m EXCEPT !.calls = {"short" : x \in @}, !.answers = {"short" : x \in @}]

\* The marks come first, for a model that caches prompts; then the empty contents go; then the ids.
LrPrepare(caching) ==
    /\ lrStage = "messages" /\ lrStage' = "request"
    /\ LET cached == IF caching THEN LrCached(lrMsgs) ELSE lrMsgs IN lrOut' = [i \in DOMAIN cached |-> LrRenamed(LrSanitized(cached[i]))]
    /\ lrTools' = caching /\ UNCHANGED <<lrMsgs, lrDeltas, lrCalls>>

-----------------------------------------------------------------------------
(* A streamed answer: pieces of tool calls, told apart by their index; the id comes with the first one. *)

\* Mutant: a piece without an id begins a call.
LrIsNewId(d) == d.index \notin DOMAIN lrCalls \/ d.id = "none"

LrIsNew(d) == d.index \notin DOMAIN lrCalls

\* A call without an id gets one of ours.
LrDelta(d) ==
    /\ lrStage \in {"off", "stream"} /\ Len(lrDeltas) < LrMaxDeltas /\ lrStage' = "stream"
    /\ d.id # "none" <=> \A i \in DOMAIN lrDeltas : lrDeltas[i].index # d.index
    /\ lrDeltas' = Append(lrDeltas, d)
    /\ lrCalls' = IF LrIsNew(d) THEN (d.index :> [id |-> IF d.id = "none" THEN "ours" ELSE d.id, args |-> <<d.args>>]) @@ lrCalls
                  ELSE [lrCalls EXCEPT ![d.index].args = Append(@, d.args)]
    /\ UNCHANGED <<lrMsgs, lrOut, lrTools>>

LrNext ==
    \/ LrMessage \/ \E b \in BOOLEAN : LrPrepare(b)
    \/ \E i \in 0 .. 1, id \in {"none", "x", "y"}, a \in {"p", "q"} : LrDelta([index |-> i, id |-> id, args |-> a])

LrSpec == LrInit /\ [][LrNext]_lrVars

-----------------------------------------------------------------------------
(* Properties *)

\* No request has an empty text in it, in whatever order marks and clean-up
\* treat a content, and only an assistant message with calls lacks a content.
NoEmptyContent ==
    lrStage = "request" => \A i \in DOMAIN lrOut :
        LET content == lrOut[i].content IN
        IF content.form = "none" THEN lrOut[i].role = "assistant"
        ELSE content.blocks # <<>> /\ \A k \in DOMAIN content.blocks : content.blocks[k].kind # "e"

\* A request to a model that caches prompts carries at most the four marks
\* such models accept: one system message, the tools and two messages.
AtMostFourMarks ==
    lrStage = "request" =>
        Cardinality({i \in DOMAIN lrOut : \E k \in DOMAIN lrOut[i].content.blocks : lrOut[i].content.blocks[k].mark})
            + (IF lrTools THEN 1 ELSE 0) <= 4

\* Every tool message still answers a call of the message before it.
AnswersLinked ==
    \A i \in DOMAIN lrOut : lrOut[i].role = "tool" => i > 1 /\ lrOut[i].answers \subseteq lrOut[i - 1].calls

\* The pieces of calls that are streamed in turns come together: a call has the
\* arguments of its own pieces in their order, and the provider's id.
CallsAssembled ==
    \A ix \in DOMAIN lrCalls :
        LET own == SelectSeq(lrDeltas, LAMBDA d : d.index = ix) IN
        lrCalls[ix] = [id |-> own[1].id, args |-> [k \in DOMAIN own |-> own[k].args]]
=============================================================================
