--------------------------- MODULE OtherProviders ---------------------------
(***************************************************************************)
(* The providers that do not go through LiteLLM: the Codex endpoint, Azure *)
(* OpenAI, Ollama, a custom endpoint and vLLM.                             *)
(***************************************************************************)
EXTENDS Naturals, Sequences, SequencesExt, FiniteSets

-----------------------------------------------------------------------------
(***************************************************************************)
(* providers/openai_codex_provider.py: chat() turns the conversation into  *)
(* input items, and its stream of events back into tool calls.  The pieces *)
(* of one call's arguments are the numbers 1 and 2; a tool call's id is    *)
(* the pair "call id|item id", as the conversation keeps it.               *)
(***************************************************************************)
CONSTANTS
    CxCalls,      \* calls the model may make in one answer
    CxMaxTurns    \* bound: requests

VARIABLES
    cxMode,       \* "off", "stream", "answer", "error" or "raised"
    cxIds,        \* which argument events of the server name the call
    cxSent,       \* call -> events of it that arrived: "none", "added", "one", "two", "whole", "done"
    cxBuffers,    \* tool_call_buffers: call -> <<arguments>>, <<>> if there is no buffer
    cxToolCalls,  \* tool_calls
    cxFinish,     \* finish_reason
    cxHistory,    \* the conversation: assistant calls and tool answers with their ids
    cxInput,      \* input_items of the last request
    cxTurn        \* requests so far

cxVars == <<cxMode, cxIds, cxSent, cxBuffers, cxToolCalls, cxFinish, cxHistory, cxInput, cxTurn>>

CxWhole == <<1, 2>>
CxNoItem == <<"none">>     \* an id without "|", of a session begun with another provider

CxInit ==
    /\ cxMode = "off" /\ cxIds = {} /\ cxSent = [k \in CxCalls |-> "none"] /\ cxBuffers = [k \in CxCalls |-> <<>>]
    /\ cxToolCalls = <<>> /\ cxFinish = "stop" /\ cxHistory = <<>> /\ cxInput = <<>> /\ cxTurn = 0

\* _split_tool_call_id
CxSplit(id) == [call |-> id.call, item |-> id.item]

\* A mutation: the answer keeps the other part of the id.
CxItemSwapped(idx, m) ==
    IF m.role = "call"
    THEN [type |-> "function_call", call |-> CxSplit(m.id).call, item |-> CxSplit(m.id).item, of |-> m.id.call]
    ELSE [type |-> "function_call_output", call |-> m.id.item, item |-> CxNoItem, of |-> m.id.call]

\* _convert_messages: the item of a call, and of an answer; "of" remembers what the message was about.
CxItem(idx, m) ==
    LET id == CxSplit(m.id)
    IN IF m.role = "call"
       THEN [type |-> "function_call", call |-> id.call, item |-> IF id.item = CxNoItem THEN <<"fc", idx>> ELSE id.item, of |-> m.id.call]
       ELSE [type |-> "function_call_output", call |-> id.call, item |-> CxNoItem, of |-> m.id.call]
CxConverted == [i \in DOMAIN cxHistory |-> CxItem(i, cxHistory[i])]

\* A session that another provider began: ids without an item.
CxImport ==
    /\ cxMode = "off" /\ cxTurn = 0 /\ cxHistory = <<>>
    /\ cxHistory' = [i \in 1 .. 2 |-> [role |-> IF i = 1 THEN "call" ELSE "tool", id |-> [call |-> <<"call", 0, "x">>, item |-> CxNoItem]]]
    /\ UNCHANGED <<cxMode, cxIds, cxSent, cxBuffers, cxToolCalls, cxFinish, cxInput, cxTurn>>

\* chat up to _request_codex: converting and the token are outside the try.
CxChat ==
    /\ cxMode = "off" /\ cxTurn < CxMaxTurns
    /\ cxTurn' = cxTurn + 1 /\ cxInput' = CxConverted
    /\ cxIds' \in SUBSET {"delta", "done"}
    /\ cxMode' \in {"stream", "raised"}
    /\ cxSent' = [k \in CxCalls |-> "none"] /\ cxBuffers' = [k \in CxCalls |-> <<>>] /\ cxToolCalls' = <<>> /\ cxFinish' = "stop"
    /\ UNCHANGED cxHistory

CxBuffered(k) == cxBuffers[k] # <<>>
CxArrives(k, from, to) == cxMode = "stream" /\ cxFinish = "stop" /\ cxSent[k] = from /\ cxSent' = [cxSent EXCEPT ![k] = to]

\* response.output_item.added; the event may have no call id, and then there is no buffer.
CxAdded(k) ==
    /\ CxArrives(k, "none", "added")
    /\ cxBuffers' \in {cxBuffers, [cxBuffers EXCEPT ![k] = << <<>> >>]}
    /\ UNCHANGED <<cxMode, cxIds, cxToolCalls, cxFinish, cxHistory, cxInput, cxTurn>>

\* response.function_call_arguments.delta
CxDelta(k) ==
    /\ CxArrives(k, "added", "one") \/ CxArrives(k, "one", "two")
    /\ cxBuffers' = IF "delta" \in cxIds /\ CxBuffered(k)
                    THEN [cxBuffers EXCEPT ![k] = <<@[1] \o <<IF cxSent[k] = "added" THEN 1 ELSE 2>> >>]
                    ELSE cxBuffers
    /\ UNCHANGED <<cxMode, cxIds, cxToolCalls, cxFinish, cxHistory, cxInput, cxTurn>>

\* response.function_call_arguments.done puts the arguments in place of the pieces.
CxReplacedNot(pieces, whole) == pieces \o whole
CxReplaced(pieces, whole) == whole
CxArgumentsDone(k) ==
    /\ CxArrives(k, "two", "whole")
    /\ cxBuffers' = IF "done" \in cxIds /\ CxBuffered(k) THEN [cxBuffers EXCEPT ![k] = <<CxReplaced(@[1], CxWhole)>>] ELSE cxBuffers
    /\ UNCHANGED <<cxMode, cxIds, cxToolCalls, cxFinish, cxHistory, cxInput, cxTurn>>

\* response.output_item.done: the buffer's arguments if it has any, else the item's.
CxArguments(k) == IF CxBuffered(k) /\ cxBuffers[k][1] # <<>> THEN cxBuffers[k][1] ELSE CxWhole
CxItemDone(k) ==
    /\ CxArrives(k, "whole", "done")
    /\ cxToolCalls' = Append(cxToolCalls, [id |-> [call |-> <<"call", cxTurn, k>>, item |-> <<"item", cxTurn, k>>], args |-> CxArguments(k)])
    /\ UNCHANGED <<cxMode, cxIds, cxBuffers, cxFinish, cxHistory, cxInput, cxTurn>>

\* response.completed and _map_finish_reason: the stream goes on to its end.
CxMapFinish == [completed |-> "stop", incomplete |-> "length", failed |-> "error", cancelled |-> "error"]
CxCompleted(status) ==
    /\ cxMode = "stream" /\ \A k \in CxCalls : cxSent[k] \in {"none", "done"}
    /\ cxFinish' = CxMapFinish[status] /\ cxMode' = IF CxMapFinish[status] = "error" THEN "error" ELSE "answer"
    /\ UNCHANGED <<cxIds, cxSent, cxBuffers, cxToolCalls, cxHistory, cxInput, cxTurn>>

\* The stream is over before that: the answer is taken as it is.
CxEnds ==
    /\ cxMode = "stream" /\ cxMode' = "answer"
    /\ UNCHANGED <<cxIds, cxSent, cxBuffers, cxToolCalls, cxFinish, cxHistory, cxInput, cxTurn>>

\* A status other than 200, an error event, response.failed or a broken connection: chat answers with the error.
CxFails ==
    /\ cxMode = "stream" /\ cxMode' = "error" /\ cxToolCalls' = <<>> /\ cxFinish' = "error"
    /\ UNCHANGED <<cxIds, cxSent, cxBuffers, cxHistory, cxInput, cxTurn>>

\* The caller runs the tools and puts calls and answers into the conversation.
CxSaved ==
    /\ cxMode \in {"answer", "error", "raised"} /\ cxMode' = "off"
    /\ cxHistory' = IF cxMode = "answer"
                    THEN cxHistory \o [i \in DOMAIN cxToolCalls |-> [role |-> "call", id |-> cxToolCalls[i].id]]
                                   \o [i \in DOMAIN cxToolCalls |-> [role |-> "tool", id |-> cxToolCalls[i].id]]
                    ELSE cxHistory
    /\ UNCHANGED <<cxIds, cxSent, cxBuffers, cxToolCalls, cxFinish, cxInput, cxTurn>>

CxNext ==
    \/ CxImport \/ CxChat \/ CxEnds \/ CxFails \/ CxSaved
    \/ \E k \in CxCalls : CxAdded(k) \/ CxDelta(k) \/ CxArgumentsDone(k) \/ CxItemDone(k)
    \/ \E status \in DOMAIN CxMapFinish : CxCompleted(status)

CxSpec == CxInit /\ [][CxNext]_cxVars

---------------------------------------------------------------------------
\* Whichever argument events name their call and however the calls' events are interleaved, a call
\* that an answer holds has its arguments complete, and is there once (_consume_sse).
CxArgumentsWhole ==
    \A i \in DOMAIN cxToolCalls :
        /\ cxToolCalls[i].args = CxWhole
        /\ \A j \in DOMAIN cxToolCalls : cxToolCalls[i].id = cxToolCalls[j].id => i = j

\* In every request, an output item names the call id of exactly one earlier call item, that of the
\* call it answers; the API rejects the conversation otherwise (_convert_messages, _split_tool_call_id).
CxOutputsLinked ==
    \A j \in DOMAIN cxInput : cxInput[j].type = "function_call_output" =>
        LET callers == {i \in 1 .. j - 1 : cxInput[i].type = "function_call" /\ cxInput[i].call = cxInput[j].call}
        IN \E i \in callers : callers = {i} /\ cxInput[i].of = cxInput[j].of

-----------------------------------------------------------------------------
(***************************************************************************)
(* The providers that do without LiteLLM's routing: Azure OpenAI, Ollama   *)
(* and the custom endpoint, which speak HTTP themselves, and vLLM, which   *)
(* starts its own server when none answers (providers/azure_openai_        *)
(* provider.py, ollama_provider.py, custom_provider.py, vllm.py).          *)
(***************************************************************************)
CONSTANTS
    LpCallers,    \* tasks that call chat
    LpMaxServers, \* bound: vLLM processes
    LpMaxChats    \* bound: chats

VARIABLES
    lpKind,       \* the provider make_provider chose, "off" at first
    lpKey,        \* api_key of the client that all chats of a CustomProvider share
    lpServers,    \* vLLM processes that run
    lpReady,      \* those of them that answer
    lpProcess,    \* runner.process, 0 for None
    lpMade,       \* processes made so far
    lpChat,       \* caller -> its chat
    lpChats,      \* chats so far
    lpOverlap     \* two chats, or a chat and a stop, were under way at once

lpServer == <<lpServers, lpReady, lpProcess, lpMade>>
lpVars == <<lpKind, lpKey, lpServers, lpReady, lpProcess, lpMade, lpChat, lpChats, lpOverlap>>

LpIdle == [at |-> "idle", key |-> "none", reply |-> "none", response |-> "none"]

LpInit ==
    /\ lpKind = "off" /\ lpKey = "raw" /\ lpServers = {} /\ lpReady = {} /\ lpProcess = 0 /\ lpMade = 0
    /\ lpChat = [c \in LpCallers |-> LpIdle] /\ lpChats = 0 /\ lpOverlap = FALSE

\* make_provider
LpMakeProvider ==
    /\ lpKind = "off" /\ lpKind' \in {"azure", "ollama", "custom", "vllm"}
    /\ UNCHANGED <<lpKey, lpServers, lpReady, lpProcess, lpMade, lpChat, lpChats, lpOverlap>>

LpBusy == {c \in LpCallers : lpChat[c].at \notin {"idle", "done"}}
LpGoes(c, from, to) == lpChat[c].at = from /\ lpChat' = [lpChat EXCEPT ![c].at = to]
LpEnds(c, response) == lpChat' = [lpChat EXCEPT ![c].at = "done", ![c].response = response]

\* chat begins.  vLLM looks for its server.  Azure takes the resolved key into its own headers; a custom
\* provider puts it into the shared client.
LpBegins(c) ==
    /\ lpKind # "off" /\ lpChat[c].at = "idle" /\ lpChats < LpMaxChats
    /\ lpChats' = lpChats + 1 /\ lpOverlap' = (lpOverlap \/ LpBusy # {})
    /\ lpChat' = [lpChat EXCEPT ![c].at = IF lpKind = "vllm" THEN "health" ELSE "send"]
    /\ lpKey' = IF lpKind = "custom" THEN "resolved" ELSE lpKey
    /\ UNCHANGED <<lpKind, lpServer>>

\* check_health, before anything else and again in wait_for_ready
LpHealthy(c) ==
    /\ lpReady # {} /\ lpChat[c].at \in {"health", "wait"}
    /\ lpChat' = [lpChat EXCEPT ![c].at = "send"]
    /\ UNCHANGED <<lpKind, lpKey, lpServer, lpChats, lpOverlap>>

\* start looks at process, and then waits for the new one.
LpMayStartAlways == TRUE
LpMayStart == lpProcess = 0
LpUnhealthy(c) ==
    /\ lpReady = {} /\ LpGoes(c, "health", IF LpMayStart THEN "launch" ELSE "wait")
    /\ UNCHANGED <<lpKind, lpKey, lpServer, lpChats, lpOverlap>>

LpLaunched(c) ==
    /\ LpGoes(c, "launch", "wait") /\ lpMade < LpMaxServers
    /\ lpMade' = lpMade + 1 /\ lpProcess' = lpMade' /\ lpServers' = lpServers \cup {lpMade'}
    /\ UNCHANGED <<lpKind, lpKey, lpReady, lpChats, lpOverlap>>

\* Neither `python -m vllm` nor `vllm serve` can be run.
LpLaunchFails(c) ==
    /\ LpGoes(c, "launch", "wait") /\ lpProcess' = 0
    /\ UNCHANGED <<lpKind, lpKey, lpServers, lpReady, lpMade, lpChats, lpOverlap>>

\* wait_for_ready gives up
LpNotReady(c) ==
    /\ lpReady = {} /\ lpChat[c].at = "wait" /\ LpEnds(c, "error")
    /\ UNCHANGED <<lpKind, lpKey, lpServer, lpChats, lpOverlap>>

\* The server's model is loaded; the server dies.
LpLoaded ==
    /\ \E s \in lpServers \ lpReady : lpReady' = lpReady \cup {s}
    /\ UNCHANGED <<lpKind, lpKey, lpServers, lpProcess, lpMade, lpChat, lpChats, lpOverlap>>
LpDies ==
    /\ \E s \in lpServers : lpServers' = lpServers \ {s} /\ lpReady' = lpReady \ {s}
    /\ UNCHANGED <<lpKind, lpKey, lpProcess, lpMade, lpChat, lpChats, lpOverlap>>

\* stop
LpStop ==
    /\ lpKind = "vllm" /\ lpProcess # 0
    /\ lpServers' = lpServers \ {lpProcess} /\ lpReady' = lpReady \ {lpProcess} /\ lpProcess' = 0
    /\ lpOverlap' = (lpOverlap \/ LpBusy # {})
    /\ UNCHANGED <<lpKind, lpKey, lpMade, lpChat, lpChats>>

\* The request leaves; the OpenAI client reads its api_key for every attempt.
LpSend(c) ==
    /\ lpChat[c].at = "send"
    /\ lpChat' = [lpChat EXCEPT ![c].at = "reply", ![c].key = IF lpKind = "custom" THEN lpKey ELSE "resolved"]
    /\ UNCHANGED <<lpKind, lpKey, lpServer, lpChats, lpOverlap>>
LpSendsAgain(c) ==
    /\ lpKind = "custom" /\ LpGoes(c, "reply", "send")
    /\ UNCHANGED <<lpKind, lpKey, lpServer, lpChats, lpOverlap>>

\* What each chat makes of the reply: a status other than 200, a body without the expected fields,
\* a broken connection, an unfinished answer or an answer.
LpReplies == {"status", "fields", "broken", "unfinished", "answer"}
LpAzureTrusting == [status |-> {"error"}, fields |-> {"stop"}, broken |-> {"error"}, unfinished |-> {"length"}, answer |-> {"stop"}]
LpAzure == [status |-> {"error"}, fields |-> {"error"}, broken |-> {"error"}, unfinished |-> {"length"}, answer |-> {"stop"}]
LpCustom == [status |-> {"error"}, fields |-> {"error"}, broken |-> {"error"}, unfinished |-> {"length"}, answer |-> {"stop"}]
\* Ollama's parsers have a default for every field, and its stream skips lines that are no JSON.
LpOllama == [status |-> {"error"}, fields |-> {"stop", "length"}, broken |-> {"error"}, unfinished |-> {"stop", "length"}, answer |-> {"stop"}]
LpResponse(reply) == CASE lpKind = "azure" -> LpAzure[reply] [] lpKind = "ollama" -> LpOllama[reply] [] OTHER -> LpCustom[reply]

\* The finally of a custom chat puts the unresolved key back, also when the caller is cancelled.
LpKeyKept == lpKey
LpKeyAfter == IF lpKind = "custom" THEN "raw" ELSE lpKey
LpReply(c, reply) ==
    /\ lpChat[c].at = "reply"
    /\ \E r \in LpResponse(reply) : lpChat' = [lpChat EXCEPT ![c].at = "done", ![c].reply = reply, ![c].response = r]
    /\ lpKey' = LpKeyAfter
    /\ UNCHANGED <<lpKind, lpServer, lpChats, lpOverlap>>
LpCancelled(c) ==
    /\ lpChat[c].at \in {"send", "reply"} /\ LpEnds(c, "cancelled") /\ lpKey' = LpKeyAfter
    /\ UNCHANGED <<lpKind, lpServer, lpChats, lpOverlap>>

LpReturns(c) ==
    /\ lpChat[c].at = "done" /\ lpChat' = [lpChat EXCEPT ![c] = LpIdle]
    /\ UNCHANGED <<lpKind, lpKey, lpServer, lpChats, lpOverlap>>

LpNext ==
    \/ LpMakeProvider \/ LpLoaded \/ LpDies \/ LpStop
    \/ \E c \in LpCallers :
        \/ LpBegins(c) \/ LpHealthy(c) \/ LpUnhealthy(c) \/ LpLaunched(c) \/ LpLaunchFails(c) \/ LpNotReady(c)
        \/ LpSend(c) \/ LpSendsAgain(c) \/ LpCancelled(c) \/ LpReturns(c)
        \/ \E reply \in LpReplies : LpReply(c, reply)

LpSpec == LpInit /\ [][LpNext]_lpVars

---------------------------------------------------------------------------
\* Without overlapping calls, the only vLLM server that runs is the one the runner would stop: servers
\* that die, load slowly or cannot be launched lead to no second one (VLLMLocalRunner.start).
LpOneServer == ~lpOverlap => lpServers \subseteq {lpProcess}

\* Without overlap the key reference is never sent in place of the key, and it is the reference that
\* the client holds between chats, whatever ended them (CustomProvider.chat).
LpKeyResolved ==
    ~lpOverlap => /\ \A c \in LpCallers : lpChat[c].key # "raw"
                  /\ LpBusy = {} => lpKey = "raw"

\* A reply that holds no answer is reported as an error, the only thing chat_with_retry retries and
\* falls back on.  (Not by Ollama's lenient parsers when fields are missing.)
LpFailuresAreErrors ==
    \A c \in LpCallers : lpChat[c].response \in {"stop", "length"} => lpChat[c].reply \in {"answer", "unfinished"} \cup (IF lpKind = "ollama" THEN {"fields"} ELSE {})
=============================================================================
