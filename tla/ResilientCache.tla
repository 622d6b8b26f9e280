--------------------------- MODULE ResilientCache ---------------------------
(***************************************************************************)
(* cache/resilience.py: a cache in memory (L1, under a lock) over Redis    *)
(* (L2, outside of it), used by several threads. Redis may fail at any     *)
(* call and drop entries that have a time to live. Every stored value is a *)
(* new number.                                                             *)
(***************************************************************************)
EXTENDS Naturals, Sequences, FiniteSets

CONSTANTS
    RcThreads,
    RcKeys, RcTagNames,
    RcMaxItems,         \* max_l1_items
    RcThreshold,        \* failure_threshold
    RcMaxSets,          \* bound: values stored
    RcMaxOps            \* bound: other operations

ASSUME RcAssumption == RcMaxItems \in Nat \ {0} /\ RcThreshold \in Nat \ {0} /\ RcMaxSets \in Nat /\ RcMaxOps \in Nat

VARIABLES
    rcOn,
    rcL1,               \* _l1_cache, the oldest first: sequence of [key, val, tags, ttl]
    rcTags,             \* _tag_to_keys
    rcL2,               \* Redis: key -> [val, tags, ttl]; val 0: none
    rcState, rcFails,   \* state, _consecutive_redis_failures
    rcOp,               \* thread -> operation under way: [op, key, val, tags, ttl, keys], keys: what it still works on
    rcSets, rcOps,
    rcMixed,            \* history: threads whose operation overlaps with another one on some key
    rcDead,             \* history: values that were invalidated with nothing overlapping
    rcGot               \* value that get returned last, with its key (0: none, or forgotten when a key is deleted)

rcVars == <<rcOn, rcL1, rcTags, rcL2, rcState, rcFails, rcOp, rcSets, rcOps, rcMixed, rcDead, rcGot>>

RcNil == [val |-> 0, tags |-> {}, ttl |-> FALSE]
RcIdle == [op |-> "none", key |-> "none", val |-> 0, tags |-> {}, ttl |-> FALSE, keys |-> {}]

RcInit ==
    /\ rcOn = FALSE /\ rcL1 = <<>> /\ rcTags = [t \in RcTagNames |-> {}] /\ rcL2 = [k \in RcKeys |-> RcNil]
    /\ rcState = "normal" /\ rcFails = 0 /\ rcOp = [t \in RcThreads |-> RcIdle] /\ rcSets = 0 /\ rcOps = 0
    /\ rcMixed = {} /\ rcDead = {} /\ rcGot = [key |-> "none", val |-> 0]
RcStart == ~rcOn /\ rcOn' = TRUE /\ UNCHANGED <<rcL1, rcTags, rcL2, rcState, rcFails, rcOp, rcSets, rcOps, rcMixed, rcDead, rcGot>>

RcHas(k) == \E i \in DOMAIN rcL1 : rcL1[i].key = k
RcEntry(k) == rcL1[CHOOSE i \in DOMAIN rcL1 : rcL1[i].key = k]
\* The cache without some keys, in the order it had.
RcAscending(S) ==
    {at \in [1 .. Cardinality(S) -> S] : (\A i, j \in DOMAIN at : i < j => at[i] < at[j]) /\ (\A n \in S : \E i \in DOMAIN at : at[i] = n)}
RcWithout(cache, keys) == {[j \in DOMAIN at |-> cache[at[j]]] : at \in RcAscending({i \in DOMAIN cache : cache[i].key \notin keys})}
RcUntag(tags, e) == [t \in RcTagNames |-> IF t \in e.tags THEN tags[t] \ {e.key} ELSE tags[t]]
RcTagged(tags, e) == [t \in RcTagNames |-> IF t \in e.tags THEN tags[t] \cup {e.key} ELSE tags[t]]

\* _evict_l1_lru_if_needed, then the entry at the end, or in the place of the key.
RcFull(cache) == Len(cache) >= RcMaxItems
RcEvicted(cache) == IF RcFull(cache) THEN Tail(cache) ELSE cache
RcPut(cache, e) ==
    IF \E i \in DOMAIN cache : cache[i].key = e.key
    THEN [i \in DOMAIN cache |-> IF cache[i].key = e.key THEN e ELSE cache[i]] ELSE Append(cache, e)
RcStored(cache, e) == RcPut(RcEvicted(cache), e)
RcStoredTagsNone(cache, e) == IF RcFull(cache) THEN RcUntag(rcTags, Head(cache)) ELSE rcTags
RcStoredTags(cache, e) == RcTagged(IF RcFull(cache) THEN RcUntag(rcTags, Head(cache)) ELSE rcTags, e)

\* _on_redis_failure, _on_redis_success
RcFailed == rcFails' = rcFails + 1 /\ rcState' = IF rcFails' >= RcThreshold THEN "degraded" ELSE rcState
RcSucceededOnce == UNCHANGED rcFails /\ rcState' = "normal"
RcSucceeded == rcFails' = 0 /\ rcState' = IF rcState = "degraded" \/ rcFails > 0 THEN "normal" ELSE rcState
RcRedisKept == UNCHANGED <<rcFails, rcState>>

\* A thread begins an operation, or ends it.
RcBesides(t, keys) == {u \in RcThreads \ {t} : rcOp[u].keys \cap keys # {}}
RcBegin(t, o) ==
    /\ rcOp' = [rcOp EXCEPT ![t] = o]
    /\ LET others == RcBesides(t, o.keys) IN rcMixed' = IF others = {} THEN rcMixed ELSE rcMixed \cup others \cup {t}
RcEnd(t) == rcOp' = [rcOp EXCEPT ![t] = RcIdle] /\ rcMixed' = rcMixed \ {t}
RcIsIdle(t) == rcOn /\ rcOp[t].op = "none"

---------------------------------------------------------------------------
\* set: L1 under the lock; L2 unless degraded.
RcSet(t, k, tags, ttl) ==
    /\ RcIsIdle(t) /\ rcSets < RcMaxSets /\ rcSets' = rcSets + 1
    /\ LET e == [key |-> k, val |-> rcSets', tags |-> tags, ttl |-> ttl]
       IN /\ IF RcHas(k) THEN \E rest \in RcWithout(rcL1, {k}) : rcL1' = Append(rest, e) ELSE rcL1' = RcStored(rcL1, e)
          /\ rcTags' = IF RcHas(k) THEN RcTagged(rcTags, e) ELSE RcStoredTags(rcL1, e)
          /\ RcBegin(t, [op |-> "set", key |-> k, val |-> e.val, tags |-> tags, ttl |-> ttl, keys |-> {k}])
    /\ RcRedisKept /\ UNCHANGED <<rcOn, rcL2, rcOps, rcDead, rcGot>>
RcSetL2(t, ok) ==
    /\ rcOp[t].op = "set" /\ RcEnd(t)
    /\ LET o == rcOp[t]
       IN CASE rcState = "degraded" -> RcRedisKept /\ UNCHANGED rcL2
            [] rcState # "degraded" /\ ok -> RcSucceeded /\ rcL2' = [rcL2 EXCEPT ![o.key] = [val |-> o.val, tags |-> o.tags, ttl |-> o.ttl]]
            [] OTHER -> RcFailed /\ UNCHANGED rcL2
    /\ UNCHANGED <<rcOn, rcL1, rcTags, rcSets, rcOps, rcDead, rcGot>>

\* get: found in L1, or expired there, or not there.
RcAnswers(k, v) == rcGot' = [key |-> k, val |-> v]
RcGetL1(t, k, expired) ==
    /\ RcIsIdle(t) /\ rcOps < RcMaxOps /\ rcOps' = rcOps + 1
    /\ expired => (RcHas(k) /\ RcEntry(k).ttl)
    /\ IF RcHas(k) /\ ~expired
       THEN /\ \E rest \in RcWithout(rcL1, {k}) : rcL1' = Append(rest, RcEntry(k))
            /\ RcAnswers(k, RcEntry(k).val) /\ UNCHANGED <<rcTags, rcOp, rcMixed>>
       ELSE /\ rcL1' \in RcWithout(rcL1, {k}) /\ rcTags' = IF RcHas(k) THEN RcUntag(rcTags, RcEntry(k)) ELSE rcTags
            /\ RcBegin(t, [RcIdle EXCEPT !.op = "get", !.key = k, !.keys = {k}]) /\ UNCHANGED rcGot
    /\ RcRedisKept /\ UNCHANGED <<rcOn, rcL2, rcSets, rcDead>>

\* Redis is asked in any state, and the state leaves "degraded" once the probe interval is over.
RcGetL2(t, ok, due) ==
    /\ rcOp[t].op = "get"
    /\ due => rcState = "degraded"
    /\ LET k == rcOp[t].key
           found == rcL2[k]
       IN IF ~ok
          THEN /\ rcFails' = rcFails + 1 /\ rcState' = IF rcFails' >= RcThreshold THEN "degraded" ELSE IF due THEN "recovering" ELSE rcState
               /\ RcEnd(t) /\ RcAnswers(k, 0)
          ELSE /\ rcState' = (IF due THEN "recovering" ELSE rcState) /\ UNCHANGED rcFails
               /\ IF found.val = 0 THEN RcEnd(t) /\ RcAnswers(k, 0)
                  ELSE /\ rcOp' = [rcOp EXCEPT ![t] = [op |-> "promote", key |-> k, val |-> found.val, tags |-> found.tags, ttl |-> FALSE, keys |-> {k}]]
                       /\ UNCHANGED <<rcMixed, rcGot>>
    /\ UNCHANGED <<rcOn, rcL1, rcTags, rcL2, rcSets, rcOps, rcDead>>

\* What Redis answered is put into L1, without its time to live.
RcPromote(t) ==
    /\ rcOp[t].op = "promote"
    /\ LET o == rcOp[t]
           e == [key |-> o.key, val |-> o.val, tags |-> o.tags, ttl |-> FALSE]
       IN rcL1' = RcStored(rcL1, e) /\ rcTags' = RcStoredTags(rcL1, e) /\ RcAnswers(o.key, o.val)
    /\ RcSucceeded /\ RcEnd(t) /\ UNCHANGED <<rcOn, rcL2, rcSets, rcOps, rcDead>>

\* invalidate: L1, then L2 in any state.
RcInvalidate(t, k) ==
    /\ RcIsIdle(t) /\ rcOps < RcMaxOps /\ rcOps' = rcOps + 1
    /\ rcL1' \in RcWithout(rcL1, {k}) /\ rcTags' = IF RcHas(k) THEN RcUntag(rcTags, RcEntry(k)) ELSE rcTags
    /\ RcBegin(t, [RcIdle EXCEPT !.op = "delete", !.val = rcSets, !.keys = {k}])
    /\ RcRedisKept /\ UNCHANGED <<rcOn, rcL2, rcSets, rcDead, rcGot>>

\* invalidate_by_tag: what the index knows, in L1, then in L2.
RcInvalidateTag(t, tag) ==
    /\ RcIsIdle(t) /\ rcOps < RcMaxOps /\ rcOps' = rcOps + 1 /\ rcTags[tag] # {}
    /\ rcL1' \in RcWithout(rcL1, rcTags[tag]) /\ rcTags' = [rcTags EXCEPT ![tag] = {}]
    /\ RcBegin(t, [RcIdle EXCEPT !.op = "delete", !.val = rcSets, !.keys = rcTags[tag]])
    /\ RcRedisKept /\ UNCHANGED <<rcOn, rcL2, rcSets, rcDead, rcGot>>

\* One key is deleted from Redis, or the call fails and the key stays.
RcDeletesL1Only == FALSE
RcDeletes == TRUE
RcDelete(t, k, ok) ==
    /\ rcOp[t].op = "delete" /\ k \in rcOp[t].keys
    /\ LET rest == rcOp[t].keys \ {k}
       IN IF rest = {} THEN RcEnd(t) ELSE rcOp' = [rcOp EXCEPT ![t].keys = rest] /\ UNCHANGED rcMixed
    /\ IF ok
       THEN /\ rcL2' = (IF RcDeletes THEN [rcL2 EXCEPT ![k] = RcNil] ELSE rcL2)
            /\ rcDead' = IF t \in rcMixed THEN rcDead
                         ELSE rcDead \cup {[key |-> k, val |-> v] : v \in 1 .. rcOp[t].val}
            /\ RcRedisKept
       ELSE RcFailed /\ UNCHANGED <<rcL2, rcDead>>
    /\ RcAnswers(k, 0) /\ UNCHANGED <<rcOn, rcL1, rcTags, rcSets, rcOps>>

\* Redis drops a key whose time is over.
RcExpires(k) ==
    /\ rcL2[k].ttl /\ rcL2' = [rcL2 EXCEPT ![k] = RcNil]
    /\ UNCHANGED <<rcOn, rcL1, rcTags, rcState, rcFails, rcOp, rcSets, rcOps, rcMixed, rcDead, rcGot>>

\* clear
RcClear(t) ==
    /\ RcIsIdle(t) /\ rcOps < RcMaxOps /\ rcOps' = rcOps + 1 /\ rcL1 # <<>> /\ rcL1' = <<>> /\ rcTags' = [x \in RcTagNames |-> {}]
    /\ UNCHANGED <<rcOn, rcL2, rcState, rcFails, rcOp, rcSets, rcMixed, rcDead, rcGot>>

RcNext ==
    \/ RcStart
    \/ \E t \in RcThreads, k \in RcKeys, tags \in {{}, RcTagNames}, ttl \in BOOLEAN : RcSet(t, k, tags, ttl)
    \/ \E t \in RcThreads, ok \in BOOLEAN : RcSetL2(t, ok)
    \/ \E t \in RcThreads, k \in RcKeys, expired \in BOOLEAN : RcGetL1(t, k, expired)
    \/ \E t \in RcThreads, ok, due \in BOOLEAN : RcGetL2(t, ok, due)
    \/ \E t \in RcThreads : RcPromote(t) \/ RcClear(t)
    \/ \E t \in RcThreads, k \in RcKeys : RcInvalidate(t, k)
    \/ \E t \in RcThreads, tag \in RcTagNames : RcInvalidateTag(t, tag)
    \/ \E t \in RcThreads, k \in RcKeys, ok \in BOOLEAN : RcDelete(t, k, ok)
    \/ \E k \in RcKeys : RcExpires(k)

RcSpec == RcInit /\ [][RcNext]_rcVars

---------------------------------------------------------------------------
\* L1 keeps to its limit with one entry for a key, and the index knows every entry by all of its tags, whatever
\* was evicted, expired, replaced and promoted (set, get, _evict_l1_lru_if_needed).
RcIndexed ==
    /\ Len(rcL1) <= RcMaxItems /\ \A i, j \in DOMAIN rcL1 : rcL1[i].key = rcL1[j].key => i = j
    /\ \A i \in DOMAIN rcL1 : \A tag \in rcL1[i].tags : rcL1[i].key \in rcTags[tag]

\* A value is not returned after its key was invalidated while no other call was at work on the key, also when
\* Redis had failed before or the cache was degraded (invalidate, get).
RcInvalidatedGone == rcGot.val # 0 => rcGot \notin rcDead

\* The cache is degraded exactly by RcThreshold failures in a row, and not normal after so many
\* (_on_redis_failure, _on_redis_success, get).
RcDegradedRightly ==
    /\ rcState = "degraded" => rcFails >= RcThreshold
    /\ rcFails >= RcThreshold => rcState # "normal"
=============================================================================
