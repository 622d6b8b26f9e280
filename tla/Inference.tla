------------------------------ MODULE Inference ------------------------------
(***************************************************************************)
(* The inference package, one part per mode: requests that try the models  *)
(* of a profile behind a circuit breaker per provider (inference/router.py,*)
(* proxy.py, profiles.py; "route"), the redaction of prompts               *)
(* (inference/pii_scanner.py; "redact") and the classification of provider *)
(* errors that decides about retries (providers/errors.py; "errors").      *)
(***************************************************************************)
EXTENDS Integers, Sequences, FiniteSets

CONSTANTS
    InRequests,         \* concurrent requests
    InAsked,            \* profiles that are asked for, known or not
    InThreshold, InRecovery,   \* circuit_breaker_failure_threshold, circuit_breaker_recovery_seconds
    InMaxTime,          \* bound: time
    InLength, InMask    \* bound: length of a prompt; length of a replacement

ASSUME InAssumption == InThreshold \in Nat \ {0} /\ InRecovery \in Nat \ {0} /\ InLength \in Nat /\ InMask \in Nat

VARIABLES
    inMode,             \* "off", "route", "redact", "errors"
    inReq,              \* request -> [at, list, k]: "idle", "next", "calling", "ok", "failed"; candidates; the one it is at
    inFail, inTrip,     \* provider -> _consecutive_failures, _tripped_at (-1: none)
    inClock,
    inRow, inLast,      \* history: provider -> failures since its last success, time of the last one
    inText, inTodo,     \* sanitized, matches still to replace
    inMatches, inSize,  \* history: the matches of the prompt and its length
    inErr               \* the error and what it was normalized to

inRouteVars == <<inReq, inFail, inTrip, inClock, inRow, inLast>>
inTextVars == <<inText, inTodo, inMatches, inSize>>
inVars == <<inMode, inRouteVars, inTextVars, inErr>>

\* The providers of model and fallback_models of each profile: the prefix before "/", or "default".
InProviders == {"default", "gemini", "deepseek", "ollama"}
InProfiles ==
    [fast |-> <<"default", "default", "gemini">>, balanced |-> <<"default", "default", "deepseek">>,
     accurate |-> <<"default", "default", "gemini">>, reasoning |-> <<"default", "default", "deepseek">>, offline |-> <<"ollama">>]
InProfile(name) == IF name \in DOMAIN InProfiles THEN InProfiles[name] ELSE InProfiles["balanced"]
InIdle == [at |-> "idle", list |-> <<>>, k |-> 1]
InNoError == [status |-> 0, words |-> {}, class |-> "none", retry |-> FALSE]
InInit ==
    /\ inMode = "off" /\ inReq = [r \in InRequests |-> InIdle] /\ inFail = [p \in InProviders |-> 0] /\ inTrip = [p \in InProviders |-> -1]
    /\ inClock = 0 /\ inRow = [p \in InProviders |-> 0] /\ inLast = [p \in InProviders |-> -1]
    /\ inText = <<>> /\ inTodo = {} /\ inMatches = {} /\ inSize = 0 /\ inErr = InNoError
InChoose(m) == inMode = "off" /\ inMode' = m /\ UNCHANGED <<inRouteVars, inTextVars, inErr>>

---------------------------------------------------------------------------
(* InferenceRouter.execute *)
InOnlyRoute == UNCHANGED <<inMode, inTextVars, inErr>>
InExecute(r, name, override) ==
    /\ inMode = "route" /\ inReq[r].at \in {"idle", "ok", "failed"}
    /\ inReq' = [inReq EXCEPT ![r] = [at |-> "next", list |-> IF override = "none" THEN InProfile(name) ELSE <<override>>, k |-> 1]]
    /\ UNCHANGED <<inFail, inTrip, inClock, inRow, inLast>> /\ InOnlyRoute

InAt(r) == inReq[r].list[inReq[r].k]
\* is_available: when the time to recover is over, the breaker forgets its failures.
InExpired(p) == inTrip[p] # -1 /\ inClock - inTrip[p] >= InRecovery
InForgottenNot(p) == inFail[p]
InForgotten(p) == IF InExpired(p) THEN 0 ELSE inFail[p]
InAvailable(p) == (inTrip[p] = -1 \/ InExpired(p)) /\ InForgotten(p) < InThreshold
InTake(r) ==
    /\ inMode = "route" /\ inReq[r].at = "next" /\ inReq[r].k <= Len(inReq[r].list)
    /\ LET p == InAt(r)
       IN /\ inReq' = IF InAvailable(p) THEN [inReq EXCEPT ![r].at = "calling"] ELSE [inReq EXCEPT ![r].k = @ + 1]
          /\ inFail' = [inFail EXCEPT ![p] = InForgotten(p)] /\ inTrip' = [inTrip EXCEPT ![p] = IF InExpired(p) THEN -1 ELSE @]
    /\ UNCHANGED <<inClock, inRow, inLast>> /\ InOnlyRoute
InAfterFailureSame(k) == k
InAfterFailure(k) == k + 1
\* record_success, record_failure
InRecord(p, ok) ==
    LET failures == IF ok THEN 0 ELSE inFail[p] + 1
    IN /\ inFail' = [inFail EXCEPT ![p] = failures]
       /\ inTrip' = [inTrip EXCEPT ![p] = IF ok THEN -1 ELSE IF failures >= InThreshold THEN inClock ELSE @]
InReturn(r, ok) ==
    /\ inMode = "route" /\ inReq[r].at = "calling"
    /\ LET p == InAt(r)
       IN /\ InRecord(p, ok)
          /\ inRow' = [inRow EXCEPT ![p] = IF ok THEN 0 ELSE IF @ < InThreshold THEN @ + 1 ELSE @]
          /\ inLast' = [inLast EXCEPT ![p] = IF ok THEN @ ELSE inClock]
    /\ inReq' = [inReq EXCEPT ![r] = IF ok THEN [InIdle EXCEPT !.at = "ok"] ELSE [at |-> "next", list |-> @.list, k |-> InAfterFailure(@.k)]]
    /\ UNCHANGED inClock /\ InOnlyRoute
InGiveUp(r) ==
    /\ inMode = "route" /\ inReq[r].at = "next" /\ inReq[r].k > Len(inReq[r].list) /\ inReq' = [inReq EXCEPT ![r] = [InIdle EXCEPT !.at = "failed"]]
    /\ UNCHANGED <<inFail, inTrip, inClock, inRow, inLast>> /\ InOnlyRoute
InTick ==
    /\ inMode = "route" /\ inClock < InMaxTime /\ inClock' = inClock + 1 /\ UNCHANGED <<inReq, inFail, inTrip, inRow, inLast>> /\ InOnlyRoute
InRouteNext ==
    \/ \E r \in InRequests : InTake(r) \/ InGiveUp(r) \/ (\E ok \in BOOLEAN : InReturn(r, ok))
    \/ \E r \in InRequests, name \in InAsked : InExecute(r, name, "none")
    \/ \E r \in InRequests : InExecute(r, "balanced", "deepseek")
    \/ InTick

---------------------------------------------------------------------------
(* InferencePIIScanner.scan: a prompt is the sequence of its positions, a replacement is InMask zeros. *)
InSpans == {m \in [from : 1 .. InLength, to : 1 .. InLength] : m.from <= m.to}
InApart(ms) == \A m, n \in ms : m # n => m.to < n.from \/ n.to < m.from
InScan(len, ms) ==
    /\ inMode = "redact" /\ inTodo = {} /\ inText = <<>> /\ InApart(ms) /\ \A m \in ms : m.to <= len
    /\ inText' = [i \in 1 .. len |-> i] /\ inTodo' = ms /\ inMatches' = ms /\ inSize' = len
    /\ UNCHANGED <<inMode, inRouteVars, inErr>>
InPickFirst == CHOOSE m \in inTodo : \A n \in inTodo : m.from <= n.from
InPick == CHOOSE m \in inTodo : \A n \in inTodo : m.from >= n.from
InReplace ==
    /\ inMode = "redact" /\ inTodo # {}
    /\ inText' = SubSeq(inText, 1, InPick.from - 1) \o [i \in 1 .. InMask |-> 0] \o SubSeq(inText, InPick.to + 1, Len(inText))
    /\ inTodo' = inTodo \ {InPick} /\ UNCHANGED <<inMode, inRouteVars, inMatches, inSize, inErr>>
InRedactNext == inMode = "redact" /\ ((\E len \in 1 .. InLength, ms \in SUBSET InSpans : InScan(len, ms)) \/ InReplace)

---------------------------------------------------------------------------
(* normalize_provider_error: the first class whose status or one of whose words fits. *)
InOrder == <<"rate", "auth", "context", "timeout", "missing", "server", "invalid">>
InStatuses == [rate |-> {429}, auth |-> {401, 403}, context |-> {}, timeout |-> {408, 504}, missing |-> {404}, server |-> {500, 503, 504}, invalid |-> {400}]
InFits(i, status, words) == status \in InStatuses[InOrder[i]] \/ InOrder[i] \in words
InClassLast(status, words) ==
    LET fit == {i \in DOMAIN InOrder : InFits(i, status, words)} IN IF fit = {} THEN "other" ELSE InOrder[CHOOSE i \in fit : \A j \in fit : i >= j]
InClass(status, words) ==
    LET fit == {i \in DOMAIN InOrder : InFits(i, status, words)} IN IF fit = {} THEN "other" ELSE InOrder[CHOOSE i \in fit : \A j \in fit : i <= j]
\* is_retryable of the classes
InRetryable(class) == class \in {"rate", "timeout", "server"}
InNormalize(status, words) ==
    /\ inMode = "errors" /\ inErr = InNoError
    /\ inErr' = [status |-> status, words |-> words, class |-> InClass(status, words), retry |-> InRetryable(InClass(status, words))]
    /\ UNCHANGED <<inMode, inRouteVars, inTextVars>>

InNext ==
    \/ \E m \in {"route", "redact", "errors"} : InChoose(m)
    \/ InRouteNext \/ InRedactNext
    \/ inMode = "errors" /\ \E status \in {0, 400, 401, 403, 404, 408, 418, 429, 500, 503, 504}, words \in SUBSET {InOrder[i] : i \in DOMAIN InOrder} : InNormalize(status, words)
\* execute does not stop between models, and a call of a provider ends: with an answer, an error or its timeout.
InFairness == \A r \in InRequests : WF_inVars(InTake(r)) /\ WF_inVars(InGiveUp(r)) /\ WF_inVars(\E ok \in BOOLEAN : InReturn(r, ok))
InSpec == InInit /\ [][InNext]_inVars /\ InFairness

---------------------------------------------------------------------------
(* A model is passed over only if its provider failed InThreshold times without a success in between and last failed less *)
(* than InRecovery ago: also when calls that were under way when the breaker tripped end later, with either result.       *)
InSkipsRecent ==
    [][\A r \in InRequests : (inMode = "route" /\ inReq[r].at = "next" /\ inReq'[r].at = "next" /\ inReq'[r].k = inReq[r].k + 1)
          => inRow[InAt(r)] >= InThreshold /\ (inClock - inLast[InAt(r)] < InRecovery)]_inVars

(* Every request ends: with the reply of a model or with the error that all of them failed.                               *)
InRequestsEnd == \A r \in InRequests : []<>(inReq[r].at \notin {"next", "calling"})

(* The sanitized prompt has a replacement for each match and everything else that was in the prompt, in its order.        *)
InHit(x) == \E m \in inMatches : m.from <= x /\ x <= m.to
InRedacted ==
    inMode = "redact" /\ inTodo = {} /\ inMatches # {} =>
        /\ \A i \in DOMAIN inText : inText[i] = 0 \/ (inText[i] \in 1 .. inSize /\ ~ InHit(inText[i]))
        /\ \A x \in 1 .. inSize : InHit(x) \/ \E i \in DOMAIN inText : inText[i] = x
        /\ \A i, j \in DOMAIN inText : i < j /\ inText[i] # 0 /\ inText[j] # 0 => inText[i] < inText[j]
        /\ Cardinality({i \in DOMAIN inText : inText[i] = 0}) = InMask * Cardinality(inMatches)

(* A request is repeated only for an error that may pass: never for one that also speaks of bad credentials or of a too   *)
(* long prompt, unless it is about a rate limit, and always for a status of that kind which the text does not contradict. *)
InRetryRight ==
    inErr # InNoError =>
        /\ inErr.retry => "rate" \in inErr.words \/ inErr.status = 429 \/ (inErr.words \cap {"auth", "context"} = {} /\ inErr.status \notin {401, 403})
        /\ (inErr.status \in {408, 429} \cup 500 .. 599 /\ inErr.words \subseteq {"rate", "timeout", "server", "invalid"}) => inErr.retry
=============================================================================
