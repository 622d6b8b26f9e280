------------------------------- MODULE Access -------------------------------
(***************************************************************************)
(* Who may do what: the tokens, keys and emergency elevations of           *)
(* security/tokens.py, the gate in front of a tool call with its approvals *)
(* and second factors (security/approval.py, security/mfa.py), and the     *)
(* rule engines with the egress firewall (security/abac.py,                *)
(* security/network_policy.py). The parts share no state.                  *)
(***************************************************************************)
EXTENDS Naturals, Sequences, FiniteSets

-----------------------------------------------------------------------------
(***************************************************************************)
(* security/tokens.py, RefreshTokenManager and TokenRevocationStore, with  *)
(* the endpoints that use them (api/v1/auth_router.py) and the check that  *)
(* every request makes (api/auth.py): access tokens, refresh tokens that   *)
(* are rotated with reuse detection, and revocation.  Everything but the   *)
(* tokens themselves is kept in memory.                                    *)
(***************************************************************************)
CONSTANTS
    TkAccessLife,   \* access_expire_minutes
    TkRefreshLife,  \* refresh_expire_days
    TkRevokedFor,   \* how long revoke_jti remembers a jti
    TkMaxTokens,    \* bound: tokens issued
    TkMaxGone,      \* bound: tokens rotated or revoked
    TkMaxTime       \* bound: clock

\* A jti is forgotten only after its token expired; so with the defaults, both seven days.
ASSUME TkAssumption ==
    /\ {TkAccessLife, TkRefreshLife, TkRevokedFor, TkMaxTokens} \subseteq Nat
    /\ TkAccessLife <= TkRefreshLife /\ TkRefreshLife <= TkRevokedFor

VARIABLES
    tkNow,          \* the time; 0 before the service is up
    tkTokens,       \* tokens issued, by jti: [type, family, exp]; a family is one session
    tkActive,       \* _active_family_tokens
    tkRevoked,      \* _revoked_jtis: jti -> until when, 0 if it is not there
    tkDead,         \* _revoked_families
    tkEnded,        \* _revoked_sessions
    \* History.
    tkGone,         \* tokens that were revoked or rotated
    tkOut,          \* sessions that were revoked
    tkReused,       \* families in which a rotated token was presented again
    tkRestarted     \* the process was restarted

tkVars == <<tkNow, tkTokens, tkActive, tkRevoked, tkDead, tkEnded, tkGone, tkOut, tkReused, tkRestarted>>

TkJtis == 1 .. Len(tkTokens)
TkFamilies == {tkTokens[j].family : j \in TkJtis}

TkInit ==
    /\ tkNow = 0 /\ tkTokens = <<>> /\ tkActive = {} /\ tkRevoked = [j \in 1 .. TkMaxTokens |-> 0] /\ tkDead = {} /\ tkEnded = {}
    /\ tkGone = {} /\ tkOut = {} /\ tkReused = {} /\ tkRestarted = FALSE

TkUp == tkNow > 0
TkTick ==
    /\ tkNow < TkMaxTime /\ tkNow' = tkNow + 1
    /\ UNCHANGED <<tkTokens, tkActive, tkRevoked, tkDead, tkEnded, tkGone, tkOut, tkReused, tkRestarted>>

\* create_token_pair
TkPair(family) == <<[type |-> "access", family |-> family, exp |-> tkNow + TkAccessLife],
                    [type |-> "refresh", family |-> family, exp |-> tkNow + TkRefreshLife]>>
TkRoom == Len(tkTokens) + 2 <= TkMaxTokens

\* POST /token
TkLogin ==
    /\ TkUp /\ TkRoom
    /\ tkTokens' = tkTokens \o TkPair(Len(tkTokens) + 1) /\ tkActive' = tkActive \cup {Len(tkTokens) + 2}
    /\ UNCHANGED <<tkNow, tkRevoked, tkDead, tkEnded, tkGone, tkOut, tkReused, tkRestarted>>

\* jwt.decode
TkExpired(j) == tkNow > tkTokens[j].exp
\* is_jti_revoked
TkJtiRevoked(j) == tkRevoked[j] # 0 /\ tkNow <= tkRevoked[j]

\* revoke_jti with _cleanup
TkUntilEarly == tkNow + TkRefreshLife - 2
TkUntil == tkNow + TkRevokedFor
TkRevokeJti(j) == tkRevoked' = [i \in DOMAIN tkRevoked |-> IF i = j THEN TkUntil ELSE IF tkNow > tkRevoked[i] THEN 0 ELSE tkRevoked[i]]

\* The checks of rotate_refresh_token
TkPresentable(j) == ~TkExpired(j) /\ tkTokens[j].type = "refresh" /\ tkTokens[j].family \notin tkDead \cup tkEnded
TkIsReuseJtiOnly(j) == TkJtiRevoked(j)
TkIsReuse(j) == TkJtiRevoked(j) \/ j \notin tkActive
TkMayRotate(j) == TkPresentable(j) /\ ~TkIsReuse(j)

\* A rotation takes the old token out of the family's set and puts the new one in.
TkRotate(j) ==
    /\ TkUp /\ TkMayRotate(j) /\ TkRoom
    /\ TkRevokeJti(j) /\ tkGone' = tkGone \cup {j}
    /\ tkTokens' = tkTokens \o TkPair(tkTokens[j].family) /\ tkActive' = (tkActive \ {j}) \cup {Len(tkTokens) + 2}
    /\ UNCHANGED <<tkNow, tkDead, tkEnded, tkOut, tkReused, tkRestarted>>

\* Reuse: the family is revoked and its set dropped.
TkFamilyOf(j) == {i \in TkJtis : tkTokens[i].family = tkTokens[j].family}
TkRevokeTokenOnly(j) == tkDead' = tkDead /\ tkActive' = tkActive \ {j}
TkRevokeFamily(j) == tkDead' = tkDead \cup {tkTokens[j].family} /\ tkActive' = tkActive \ TkFamilyOf(j)
TkReuse(j) ==
    /\ TkUp /\ TkPresentable(j) /\ TkIsReuse(j)
    /\ TkRevokeFamily(j)
    /\ tkReused' = tkReused \cup {tkTokens[j].family}
    /\ UNCHANGED <<tkNow, tkTokens, tkRevoked, tkEnded, tkGone, tkOut, tkRestarted>>

\* POST /token/revoke with a jti, or with a session.
TkRevoke(j) ==
    /\ TkUp /\ Cardinality(tkGone) < TkMaxGone /\ TkRevokeJti(j) /\ tkGone' = tkGone \cup {j}
    /\ UNCHANGED <<tkNow, tkTokens, tkActive, tkDead, tkEnded, tkOut, tkReused, tkRestarted>>
TkRevokeSession(s) ==
    /\ TkUp /\ tkEnded' = tkEnded \cup {s} /\ tkOut' = tkOut \cup {s}
    /\ UNCHANGED <<tkNow, tkTokens, tkActive, tkRevoked, tkDead, tkGone, tkReused, tkRestarted>>

\* The process restarts; the signing key is the same.
TkRestart ==
    /\ TkUp /\ ~tkRestarted /\ tkRestarted' = TRUE
    /\ tkActive' = {} /\ tkRevoked' = [j \in DOMAIN tkRevoked |-> 0] /\ tkDead' = {} /\ tkEnded' = {}
    /\ UNCHANGED <<tkNow, tkTokens, tkGone, tkOut, tkReused>>

\* get_current_user
TkAccepted(j) == ~TkExpired(j) /\ ~TkJtiRevoked(j) /\ tkTokens[j].family \notin tkEnded

TkNext ==
    \/ TkTick \/ TkLogin \/ TkRestart
    \/ \E j \in TkJtis : TkRotate(j) \/ TkReuse(j) \/ TkRevoke(j)
    \/ \E s \in TkFamilies : TkRevokeSession(s)

TkSpec == TkInit /\ [][TkNext]_tkVars

---------------------------------------------------------------------------
\* A token that was rotated or revoked, alone or with its session, is accepted by no request for as long
\* as the process lives: its revocation outlasts it (revoke_jti, _cleanup, get_current_user).
TkRevokedStays ==
    ~tkRestarted => \A j \in TkJtis : j \in tkGone \/ tkTokens[j].family \in tkOut => ~TkAccepted(j)

\* Across restarts too, a refresh token gets at most one successor: what was rotated, revoked or ended
\* never rotates again, and no family has two tokens that could (rotate_refresh_token).
TkOneLiveRefresh ==
    \A j \in TkJtis : TkMayRotate(j) =>
        /\ j \notin tkGone /\ tkTokens[j].family \notin tkOut
        /\ \A i \in TkFamilyOf(j) : TkMayRotate(i) => i = j

\* Once a rotated token was presented again, no token of its family rotates, not even one issued since,
\* and not after a restart (rotate_refresh_token).
TkReuseEnds == \A j \in TkJtis : tkTokens[j].family \in tkReused => ~TkMayRotate(j)

-----------------------------------------------------------------------------
(***************************************************************************)
(* security/tokens.py, APIKeyManager and BreakGlassManager: API keys that  *)
(* are created, rotated and revoked, and emergency elevations that are     *)
(* granted for a limited time.  A key's prefix is the first 12 characters  *)
(* of which 8 are fixed, so two keys may share it.                         *)
(***************************************************************************)
CONSTANTS
    AkPrefixes,   \* key prefixes
    AkScopes,     \* scopes, without "*"
    AkLife,       \* expires_in_days when it is given
    AkMinutes,    \* duration_minutes that may be asked for
    AkLeast,      \* 5 minutes
    AkMost,       \* 120 minutes
    AkMaxKeys,    \* bound: keys
    AkMaxGrants,  \* bound: elevations
    AkMaxTime     \* bound: clock

ASSUME AkAssumption == {AkLife, AkLeast, AkMost} \subseteq Nat /\ AkLeast <= AkMost /\ AkMinutes \subseteq Nat

VARIABLES
    akNow,        \* the time; 0 before the service is up
    akKeys,       \* _keys: sequence of [prefix, scopes, exp, active], exp 0 for none
    akChain,      \* key -> the first key of its rotations
    akGrants,     \* _elevations: sequence of [granted, exp, active]
    akDenied,     \* elevations found expired or revoked
    akLast        \* what the last verification found: [key, scope, found]

akVars == <<akNow, akKeys, akChain, akGrants, akDenied, akLast>>

AkNone == [key |-> 0, scope |-> "none", found |-> 0]
AkInit == akNow = 0 /\ akKeys = <<>> /\ akChain = <<>> /\ akGrants = <<>> /\ akDenied = {} /\ akLast = AkNone

AkUp == akNow > 0
AkTick == akNow < AkMaxTime /\ akNow' = akNow + 1 /\ UNCHANGED <<akKeys, akChain, akGrants, akDenied, akLast>>

\* create_api_key; no scopes means all.
AkRecord(prefix, scopes, expires) ==
    [prefix |-> prefix, scopes |-> IF scopes = {} THEN {"*"} ELSE scopes, exp |-> IF expires THEN akNow + AkLife ELSE 0, active |-> TRUE]
AkCreate(prefix, scopes, expires) ==
    /\ AkUp /\ Len(akKeys) < AkMaxKeys
    /\ akKeys' = Append(akKeys, AkRecord(prefix, scopes, expires)) /\ akChain' = Append(akChain, Len(akKeys) + 1)
    /\ akLast' = AkNone /\ UNCHANGED <<akNow, akGrants, akDenied>>

\* rotate_api_key
AkRetiredNot(k) == akKeys
AkRetired(k) == [akKeys EXCEPT ![k].active = FALSE]
AkRotate(k, prefix, expires) ==
    /\ akKeys[k].active /\ Len(akKeys) < AkMaxKeys
    /\ akKeys' = Append(AkRetired(k), AkRecord(prefix, akKeys[k].scopes, expires)) /\ akChain' = Append(akChain, akChain[k])
    /\ akLast' = AkNone /\ UNCHANGED <<akNow, akGrants, akDenied>>

\* revoke_api_key
AkRevoke(k) ==
    /\ akKeys' = [akKeys EXCEPT ![k].active = FALSE]
    /\ akLast' = AkNone /\ UNCHANGED <<akNow, akChain, akGrants, akDenied>>

\* verify_api_key for the raw key k: the keys with its prefix are tried, the one whose hash fits decides.
AkMatchesPrefix(k, r) == akKeys[r].prefix = akKeys[k].prefix
AkMatches(k, r) == r = k
AkCandidates(k) == {r \in DOMAIN akKeys : akKeys[r].prefix = akKeys[k].prefix /\ akKeys[r].active}
AkExpired(r) == akKeys[r].exp # 0 /\ akNow > akKeys[r].exp
AkAllows(r, scope) == scope = "none" \/ "*" \in akKeys[r].scopes \/ scope \in akKeys[r].scopes
AkVerify(k, scope) ==
    /\ \E r \in {r \in AkCandidates(k) : AkMatches(k, r) /\ \A s \in AkCandidates(k) : AkMatches(k, s) => r <= s} :
        ~AkExpired(r) /\ AkAllows(r, scope) /\ akLast' = [key |-> k, scope |-> scope, found |-> r]
    /\ UNCHANGED <<akNow, akKeys, akChain, akGrants, akDenied>>

\* request_break_glass with a justification that is long enough
AkMinutesUnlimited(d) == IF d > AkLeast THEN d ELSE AkLeast
AkGranted(d) == IF d < AkLeast THEN AkLeast ELSE IF d > AkMost THEN AkMost ELSE d
AkRequest(d) ==
    /\ AkUp /\ Len(akGrants) < AkMaxGrants
    /\ akGrants' = Append(akGrants, [granted |-> akNow, exp |-> akNow + AkGranted(d), active |-> TRUE])
    /\ akLast' = AkNone /\ UNCHANGED <<akNow, akKeys, akChain, akDenied>>

\* verify_elevation marks what it finds expired; revoke_break_glass ends one.
AkElevated(g) == akGrants[g].active /\ akNow <= akGrants[g].exp
AkVerifyElevation(g) ==
    /\ ~AkElevated(g) /\ akGrants' = [akGrants EXCEPT ![g].active = FALSE] /\ akDenied' = akDenied \cup {g}
    /\ akLast' = AkNone /\ UNCHANGED <<akNow, akKeys, akChain>>
AkRevokeBreakGlass(g) ==
    /\ akGrants[g].active /\ akGrants' = [akGrants EXCEPT ![g].active = FALSE] /\ akDenied' = akDenied \cup {g}
    /\ akLast' = AkNone /\ UNCHANGED <<akNow, akKeys, akChain>>

AkNext ==
    \/ AkTick
    \/ \E p \in AkPrefixes, e \in BOOLEAN : (\E s \in SUBSET AkScopes : AkCreate(p, s, e)) \/ (\E k \in DOMAIN akKeys : AkRotate(k, p, e))
    \/ \E k \in DOMAIN akKeys : AkRevoke(k) \/ \E s \in AkScopes \cup {"none"} : AkVerify(k, s)
    \/ \E d \in AkMinutes : AkRequest(d)
    \/ \E g \in DOMAIN akGrants : AkVerifyElevation(g) \/ AkRevokeBreakGlass(g)

AkSpec == AkInit /\ [][AkNext]_akVars

---------------------------------------------------------------------------
\* However often a key is rotated, at most one key of the chain is active, and all its keys have the scopes
\* of the first, never more (rotate_api_key).
AkOneOfChain ==
    \A k, r \in DOMAIN akKeys : akChain[k] = akChain[r] =>
        akKeys[k].scopes = akKeys[r].scopes /\ (akKeys[k].active /\ akKeys[r].active => k = r)

\* A verification answers with the very key that was presented, also among keys that share its prefix, and
\* the key is in force and has the scope (verify_api_key).
AkRightKey ==
    akLast.found # 0 =>
        /\ akLast.found = akLast.key /\ akKeys[akLast.key].active
        /\ akLast.scope \in {"none"} \cup akKeys[akLast.key].scopes \/ "*" \in akKeys[akLast.key].scopes

\* An elevation ends at the latest AkMost after it was granted, and one that was revoked or found expired is
\* not in force again (request_break_glass, verify_elevation).
AkElevationEnds ==
    \A g \in DOMAIN akGrants : AkElevated(g) => akNow <= akGrants[g].granted + AkMost /\ g \notin akDenied

-----------------------------------------------------------------------------
(***************************************************************************)
(* security/approval.py and security/mfa.py: the checks a tool call passes *)
(* (loop guard, lists, human approval by ticket), and the second factor of *)
(* administrators (hardware keys with a signature counter, one-time codes  *)
(* by time step).                                                          *)
(***************************************************************************)
CONSTANTS
    TgMaxCalls,     \* max_calls_per_turn
    TgMaxSame,      \* max_duplicate_consecutive_calls
    TgWindow,       \* window of verify_totp
    TgKeepSteps,    \* steps after which used codes are evicted (10)
    TgMaxRecords,   \* bound: tool calls
    TgMaxTickets,   \* bound: tickets
    TgMaxCount,     \* bound: signature counter of the key
    TgMaxStep       \* bound: time steps

\* Codes are remembered at least as long as verify_totp takes them.
ASSUME TgAssumption ==
    /\ {TgMaxCalls, TgWindow, TgKeepSteps, TgMaxCount, TgMaxStep} \subseteq Nat /\ TgMaxSame \in Nat \ {0}
    /\ TgWindow <= TgKeepSteps

VARIABLES
    tgMode,         \* "off", "tools" or "mfa"
    tgList,         \* what the policy says of the agent and the tool: "none", "denied", "allowed", "other"
    tgCount,        \* _turn_call_counts of the turn
    tgSame,         \* _turn_consecutive of the turn: [call, count]
    tgPassed,       \* calls of the turn that the guard let pass
    tgTickets,      \* _pending_tickets: sequence of [level, status]
    tgApproved,     \* [level, bypass] of the last approved call
    tgStep,         \* current time step
    tgUsed,         \* _used_totp_codes
    tgTaken,        \* history: how often the code of each step was accepted
    tgChallenges,   \* _active_challenges
    tgIssued,       \* challenges issued
    tgSignCount,    \* sign_count of the credential
    tgAsserted      \* history: [challenge, count] of the assertions accepted

tgTools == <<tgList, tgCount, tgSame, tgPassed, tgTickets, tgApproved>>
tgFactors == <<tgStep, tgUsed, tgTaken, tgChallenges, tgIssued, tgSignCount, tgAsserted>>
tgVars == <<tgMode, tgList, tgCount, tgSame, tgPassed, tgTickets, tgApproved, tgStep, tgUsed, tgTaken, tgChallenges, tgIssued, tgSignCount, tgAsserted>>

TgLevels == {"read_only", "low", "medium", "high", "critical"}
TgByHuman == {"high", "critical"}
TgCalls == {"f", "g"}     \* a tool with its arguments

TgInit ==
    /\ tgMode = "off" /\ tgList = "none" /\ tgCount = 0 /\ tgSame = [call |-> "none", count |-> 0] /\ tgPassed = <<>>
    /\ tgTickets = <<>> /\ tgApproved = [level |-> "none", bypass |-> FALSE]
    /\ tgStep = 0 /\ tgUsed = {} /\ tgTaken = [s \in 0 .. TgMaxStep + TgWindow |-> 0]
    /\ tgChallenges = {} /\ tgIssued = 0 /\ tgSignCount = 0 /\ tgAsserted = <<>>

TgStart ==
    /\ tgMode = "off" /\ tgMode' \in {"tools", "mfa"} /\ tgList' \in {"none", "denied", "allowed", "other"}
    /\ UNCHANGED <<tgCount, tgSame, tgPassed, tgTickets, tgApproved, tgFactors>>

\* record_and_check: what it counts, and when it raises.
TgConsecutiveNot(call) == [call |-> call, count |-> 1]
TgConsecutive(call) == [call |-> call, count |-> IF tgSame.call = call THEN tgSame.count + 1 ELSE 1]
TgTooMany == tgCount + 1 > TgMaxCalls
TgRunaway(call) == TgTooMany \/ TgConsecutive(call).count >= TgMaxSame
TgRecord(call) ==
    /\ tgCount' = tgCount + 1 /\ tgSame' = IF TgTooMany THEN tgSame ELSE TgConsecutive(call)
    /\ tgPassed' = IF TgRunaway(call) THEN tgPassed ELSE Append(tgPassed, call)

\* The lists, then the level.
TgRejected == tgList \in {"denied", "other"}
TgNeedsHumanHighOnly(level, bypass) == ~bypass /\ level = "high"
TgNeedsHuman(level, bypass) == ~bypass /\ level \in TgByHuman

\* evaluate_tool_execution
TgEvaluate(call, level, bypass) ==
    /\ tgMode = "tools" /\ tgCount < TgMaxRecords /\ Len(tgTickets) < TgMaxTickets /\ TgRecord(call)
    /\ LET asked == ~TgRunaway(call) /\ ~TgRejected
       IN /\ tgTickets' = IF asked /\ TgNeedsHuman(level, bypass) THEN Append(tgTickets, [level |-> level, status |-> "pending"]) ELSE tgTickets
          /\ tgApproved' = IF asked /\ ~TgNeedsHuman(level, bypass) THEN [level |-> level, bypass |-> bypass] ELSE [level |-> "none", bypass |-> FALSE]
    /\ UNCHANGED <<tgMode, tgList, tgFactors>>

\* resolve_ticket does not look whether the ticket is still pending.
TgResolve(t, approved) ==
    /\ tgMode = "tools"
    /\ tgTickets' = [tgTickets EXCEPT ![t].status = IF approved THEN "approved" ELSE "rejected"]
    /\ UNCHANGED <<tgMode, tgList, tgCount, tgSame, tgPassed, tgApproved, tgFactors>>

\* reset_turn
TgResetTurn ==
    /\ tgMode = "tools" /\ tgCount > 0
    /\ tgCount' = 0 /\ tgSame' = [call |-> "none", count |-> 0] /\ tgPassed' = <<>>
    /\ UNCHANGED <<tgMode, tgList, tgTickets, tgApproved, tgFactors>>

TgTick == tgMode = "mfa" /\ tgStep < TgMaxStep /\ tgStep' = tgStep + 1 /\ UNCHANGED <<tgMode, tgTools, tgUsed, tgTaken, tgChallenges, tgIssued, tgSignCount, tgAsserted>>

\* verify_totp with the code of a step in the window; codes of old steps are evicted.
TgKeptFew == {s \in tgUsed : s >= tgStep}
TgKept == {s \in tgUsed : s + TgKeepSteps >= tgStep}
TgVerifyTotp(s) ==
    /\ tgMode = "mfa" /\ s + TgWindow >= tgStep /\ s <= tgStep + TgWindow /\ s \notin tgUsed
    /\ tgUsed' = TgKept \cup {s} /\ tgTaken' = [tgTaken EXCEPT ![s] = @ + 1]
    /\ UNCHANGED <<tgMode, tgTools, tgStep, tgChallenges, tgIssued, tgSignCount, tgAsserted>>

\* generate_challenge; a challenge may be left to expire.
TgChallenge ==
    /\ tgMode = "mfa" /\ tgIssued < 2 /\ tgIssued' = tgIssued + 1 /\ tgChallenges' = tgChallenges \cup {tgIssued'}
    /\ UNCHANGED <<tgMode, tgTools, tgStep, tgUsed, tgTaken, tgSignCount, tgAsserted>>

\* verify_fido2_assertion for a challenge in force, with a counter, in order or not: the challenge is used up,
\* whether the rest holds or not.
TgCounts(count) == count = 0 \/ count > tgSignCount
TgUsedUpNot(ch) == tgChallenges
TgUsedUp(ch) == tgChallenges \ {ch}
TgAssert(ch, count, good) ==
    /\ tgMode = "mfa" /\ ch \in tgChallenges /\ tgChallenges' = TgUsedUp(ch)
    /\ IF good /\ TgCounts(count)
       THEN tgSignCount' = count /\ tgAsserted' = Append(tgAsserted, [challenge |-> ch, count |-> count])
       ELSE UNCHANGED <<tgSignCount, tgAsserted>>
    /\ UNCHANGED <<tgMode, tgTools, tgStep, tgUsed, tgTaken, tgIssued>>

TgNext ==
    \/ TgStart \/ TgResetTurn \/ TgTick \/ TgChallenge
    \/ \E call \in TgCalls, level \in TgLevels, bypass \in BOOLEAN : TgEvaluate(call, level, bypass)
    \/ \E t \in DOMAIN tgTickets, approved \in BOOLEAN : TgResolve(t, approved)
    \/ \E s \in 0 .. TgMaxStep + TgWindow : TgVerifyTotp(s)
    \/ \E ch \in 1 .. 2, count \in 0 .. TgMaxCount, good \in BOOLEAN : TgAssert(ch, count, good)

TgSpec == TgInit /\ [][TgNext]_tgVars

---------------------------------------------------------------------------
\* In one turn at most TgMaxCalls tool calls pass, and never TgMaxSame identical ones in a row among the calls
\* made (record_and_check, reset_turn).
TgNoRunaway ==
    /\ Len(tgPassed) <= TgMaxCalls
    /\ \A i \in 1 .. Len(tgPassed) - TgMaxSame + 1 : \E j \in i .. i + TgMaxSame - 1 : tgPassed[j] # tgPassed[i]

\* A call that is approved at once is neither refused by a list nor one that a human must approve, unless the
\* caller asked to skip that (evaluate_tool_execution).
TgApprovedRightly ==
    tgApproved.level # "none" => tgList \notin {"denied", "other"} /\ (tgApproved.level \in TgByHuman => tgApproved.bypass)

\* The code of a time step is accepted once, although used codes are forgotten (verify_totp).
TgCodeOnce == \A s \in DOMAIN tgTaken : tgTaken[s] <= 1

\* A challenge is accepted once, and the counters of accepted assertions rise, except that an authenticator
\* without a counter sends 0 (verify_fido2_assertion).
TgAssertedOnce ==
    \A i, j \in DOMAIN tgAsserted : i < j =>
        /\ tgAsserted[i].challenge # tgAsserted[j].challenge
        /\ j = i + 1 => tgAsserted[j].count = 0 \/ tgAsserted[j].count > tgAsserted[i].count

-----------------------------------------------------------------------------
(***************************************************************************)
(* The rule engines: access by attributes with temporary elevation         *)
(* (security/abac.py), governance policies and compliance packs            *)
(* (governance/policies.py, governance/policy_packs.py), and the egress    *)
(* firewall that tasks enter and leave (security/network_policy.py,        *)
(* security/egress_controller.py).                                         *)
(***************************************************************************)
CONSTANTS
    PrTasks,        \* asyncio tasks
    PrMaxRules,     \* bound: rules of an engine
    PrMaxDepth,     \* bound: nested sandboxes
    PrMost,         \* longest elevation (60 minutes)
    PrMaxTime       \* bound: clock, in minutes

ASSUME PrAssumption == PrMost \in Nat \ {0}

VARIABLES
    prMode,         \* "off", "abac", "policies" or "egress"
    prRules,        \* rules of the ABAC engine, in order
    prNow, prGrant, \* clock; expires_at of the grant of a subject and a scope (0: none)
    prGranted,      \* history: when the elevation was granted last (0: never, or revoked)
    prElevated,     \* last answer of is_elevated
    prPolicies,     \* _policies in the order of their first registration: sequence of [id, actions, limit, enforcement]
    prStack,        \* task -> policies of the sandboxes it is in, the innermost last (with what was set before)
    prContext,      \* task -> _egress_active and _egress_policy: the policy in force, "none" when inactive
    prNames,        \* task -> [host, address] of the last resolution, or none
    prLast          \* last connection that a task asked for: [task, host, address, port, outcome]

prAbac == <<prRules, prNow, prGrant, prGranted, prElevated>>
prEgress == <<prStack, prContext, prNames, prLast>>
prVars == <<prMode, prRules, prNow, prGrant, prGranted, prElevated, prPolicies, prStack, prContext, prNames, prLast>>

PrNone == "none"
PrUnresolved == [host |-> PrNone, address |-> PrNone]
PrNoConnection == [task |-> PrNone, host |-> PrNone, address |-> PrNone, port |-> 0, outcome |-> PrNone]

PrInit ==
    /\ prMode = "off" /\ prRules = <<>> /\ prNow = 1 /\ prGrant = 0 /\ prGranted = 0 /\ prElevated = FALSE
    /\ prPolicies = <<>> /\ prStack = [t \in PrTasks |-> <<>>] /\ prContext = [t \in PrTasks |-> PrNone]
    /\ prNames = [t \in PrTasks |-> PrUnresolved] /\ prLast = PrNoConnection

---------------------------------------------------------------------------
(* Access by attributes. *)

PrRule == [effect : {"allow", "deny"}, action : {"*", "read"}, same : BOOLEAN, role : {"*", "admin"}, clearance : 0 .. 1]
PrRequest == [action : {"read", "write"}, org : BOOLEAN, project : BOOLEAN, role : {"user", "admin"}, clearance : 0 .. 1]

\* _rule_matches; resource types are matched as actions are.
PrMatches(rule, q) ==
    /\ rule.action \in {"*", q.action} /\ (rule.same => q.project)
    /\ rule.role \in {"*", q.role} /\ q.clearance >= rule.clearance

\* evaluate: the boundary of the organisation, then every DENY, then ALLOW, else deny.
PrFirstMatch(rules, q) ==
    q.org /\ \E i \in DOMAIN rules :
        /\ rules[i].effect = "allow" /\ PrMatches(rules[i], q)
        /\ \A j \in 1 .. i - 1 : ~(rules[j].effect = "deny" /\ PrMatches(rules[j], q))
PrEvaluate(rules, q) ==
    /\ q.org
    /\ ~\E i \in DOMAIN rules : rules[i].effect = "deny" /\ PrMatches(rules[i], q)
    /\ \E i \in DOMAIN rules : rules[i].effect = "allow" /\ PrMatches(rules[i], q)

PrAddRule(rule) ==
    /\ prMode = "abac" /\ Len(prRules) < PrMaxRules /\ prRules' = Append(prRules, rule)
    /\ UNCHANGED <<prMode, prNow, prGrant, prGranted, prElevated, prPolicies, prEgress>>

\* grant_elevation, is_elevated, revoke_elevation; a new grant replaces the old one.
PrBoundedNot(minutes) == minutes
PrBounded(minutes) == IF minutes > PrMost THEN PrMost ELSE IF minutes < 1 THEN 1 ELSE minutes
PrElevate(minutes) ==
    /\ prMode = "abac" /\ prRules = <<>> /\ prGrant' = prNow + PrBounded(minutes) /\ prGranted' = prNow
    /\ UNCHANGED <<prMode, prRules, prNow, prElevated, prPolicies, prEgress>>
PrIsElevated ==
    /\ prMode = "abac" /\ prRules = <<>> /\ prElevated' = (prNow < prGrant) /\ prGrant' = IF prNow < prGrant THEN prGrant ELSE 0
    /\ UNCHANGED <<prMode, prRules, prNow, prGranted, prPolicies, prEgress>>
PrRevoke ==
    /\ prMode = "abac" /\ prGrant # 0 /\ prGrant' = 0 /\ prGranted' = 0 /\ prElevated' = FALSE
    /\ UNCHANGED <<prMode, prRules, prNow, prPolicies, prEgress>>
PrTick ==
    /\ prMode = "abac" /\ prRules = <<>> /\ prNow < PrMaxTime /\ prNow' = prNow + 1 /\ prElevated' = FALSE
    /\ UNCHANGED <<prMode, prRules, prGrant, prGranted, prPolicies, prEgress>>

---------------------------------------------------------------------------
(* Governance policies. An action is described by its name, the pack whose tokens it contains and its cost. *)

PrStrength(enforcement) == CASE enforcement = "deny" -> 3 [] enforcement = "require_approval" -> 2 [] enforcement = "warn" -> 1 [] OTHER -> 0

\* The rules of _load_default_policies and of the packs: actions governed, tokens, cost limit, enforcement.
PrNoLimit == 9
PrPolicy(id, actions, token, limit, enforcement) ==
    [id |-> id, actions |-> actions, token |-> token, limit |-> limit, enforcement |-> enforcement]
PrDefaults ==
    << PrPolicy("root_exec", {"bash"}, "sudo", PrNoLimit, "deny"),
       PrPolicy("cost_limit", {"bash", "deploy", "export"}, PrNone, 5, "require_approval"),
       PrPolicy("prod_deploy", {"deploy", "bash"}, "production", PrNoLimit, "require_approval") >>
PrHipaa == <<PrPolicy("phi_block", {"export"}, "ssn", PrNoLimit, "deny"), PrPolicy("health_export", {"export"}, "ephi", PrNoLimit, "require_approval")>>
PrSoc2 == <<PrPolicy("prod_mutation", {"deploy"}, "drop", PrNoLimit, "require_approval"), PrPolicy("iam", {"grant"}, "admin", PrNoLimit, "deny")>>
PrGdpr == <<PrPolicy("cross_border", {"export"}, "region", PrNoLimit, "require_approval"), PrPolicy("pii", {"store"}, "passport", PrNoLimit, "deny")>>
PrAirGapped == <<PrPolicy("zero_egress", {"bash"}, "http", PrNoLimit, "deny")>>

\* get_pack; a standard without a pack gets that of SOC2.
PrPack(standard) ==
    CASE standard = "hipaa" -> PrHipaa [] standard = "gdpr" -> PrGdpr [] standard = "air_gapped" -> PrAirGapped [] OTHER -> PrSoc2

\* add_policy: registers, or replaces in place.
PrAdded(policies, p) ==
    IF \E i \in DOMAIN policies : policies[i].id = p.id
    THEN [i \in DOMAIN policies |-> IF policies[i].id = p.id THEN p ELSE policies[i]]
    ELSE Append(policies, p)
PrApplied(policies, pack) == IF Len(pack) = 1 THEN PrAdded(policies, pack[1]) ELSE PrAdded(PrAdded(policies, pack[1]), pack[2])

PrStart ==
    /\ prMode = "off" /\ prMode' \in {"abac", "policies", "egress"}
    /\ prPolicies' = IF prMode' = "policies" THEN PrDefaults ELSE <<>>
    /\ UNCHANGED <<prAbac, prEgress>>
PrApplyPack(standard) ==
    /\ prMode = "policies" /\ Len(prPolicies) < Len(PrDefaults) + PrMaxRules + 2
    /\ prPolicies' = PrApplied(prPolicies, PrPack(standard)) /\ UNCHANGED <<prMode, prAbac, prEgress>>
PrAddPolicy(enforcement) ==
    /\ prMode = "policies" /\ prPolicies' = PrAdded(prPolicies, PrPolicy("own", {"bash", "export"}, PrNone, PrNoLimit, enforcement))
    /\ UNCHANGED <<prMode, prAbac, prEgress>>
PrRemovePolicy(id) ==
    /\ prMode = "policies" /\ UNCHANGED <<prMode, prAbac, prEgress>>
    /\ \E i \in DOMAIN prPolicies :
        prPolicies[i].id = id /\ prPolicies' = SubSeq(prPolicies, 1, i - 1) \o SubSeq(prPolicies, i + 1, Len(prPolicies))

\* evaluate: a rule triggers for its actions when it has no constraint or one is met; then the strongest
\* enforcement of the triggered rules, found in one pass.
PrTriggered(p, action, token, cost) ==
    /\ action \in p.actions
    /\ \/ p.token = PrNone /\ p.limit = PrNoLimit
       \/ p.token # PrNone /\ p.token = token
       \/ p.limit # PrNoLimit /\ cost > p.limit
PrStrongerLast(final, enforcement) == enforcement
PrStronger(final, enforcement) ==
    CASE enforcement = "deny" -> "deny"
      [] enforcement = "require_approval" /\ final # "deny" -> "require_approval"
      [] enforcement = "warn" /\ final = "allow" -> "warn"
      [] OTHER -> final
PrEnforcement(policies, action, token, cost) ==
    LET final[n \in 0 .. Len(policies)] ==
            IF n = 0 THEN "allow"
            ELSE IF PrTriggered(policies[n], action, token, cost) THEN PrStronger(final[n - 1], policies[n].enforcement) ELSE final[n - 1]
    IN final[Len(policies)]

---------------------------------------------------------------------------
(* The egress firewall. *)

\* Policies: the hosts of the allow list, ports, enforce_tls_only.
PrNetworkPolicies ==
    [ default |-> [hosts |-> {"openai", "github"}, ports |-> {80, 443}, tls |-> FALSE],
      strict |-> [hosts |-> {"github"}, ports |-> {80, 443}, tls |-> TRUE],
      any |-> [hosts |-> {"openai", "github", "localhost", "public", "private"}, ports |-> {443}, tls |-> FALSE] ]
PrAddressOf == [openai |-> "public", github |-> "public", localhost |-> "private"]

\* is_allowed outside of a binary context
PrIsAllowed(policy, host, port) ==
    LET rules == PrNetworkPolicies[policy]
    IN (rules.tls => port = 443) /\ port \in rules.ports /\ host \in rules.hosts

\* egress_sandbox is entered and left, also by an exception: the tokens restore what was set before.
PrEnter(t, policy) ==
    /\ prMode = "egress" /\ Len(prStack[t]) < PrMaxDepth
    /\ prStack' = [prStack EXCEPT ![t] = Append(@, [policy |-> policy, before |-> prContext[t]])]
    /\ prContext' = [prContext EXCEPT ![t] = policy] /\ UNCHANGED <<prMode, prAbac, prPolicies, prNames, prLast>>
PrRestoredNone(t) == PrNone
PrRestored(t) == prStack[t][Len(prStack[t])].before
PrLeave(t) ==
    /\ prMode = "egress" /\ prStack[t] # <<>>
    /\ prStack' = [prStack EXCEPT ![t] = SubSeq(@, 1, Len(@) - 1)] /\ prContext' = [prContext EXCEPT ![t] = PrRestored(t)]
    /\ UNCHANGED <<prMode, prAbac, prPolicies, prNames, prLast>>

\* A name is resolved by the task itself (patched_getaddrinfo) or in a thread that has no sandbox.
PrResolves(t, host) ==
    prContext[t] # PrNone => PrIsAllowed(prContext[t], host, 443) /\ PrAddressOf[host] # "private"
PrResolve(t, host, thread) ==
    /\ prMode = "egress" /\ prNames[t] = PrUnresolved
    /\ ~thread => PrResolves(t, host)
    /\ prNames' = [prNames EXCEPT ![t] = [host |-> host, address |-> PrAddressOf[host]]]
    /\ UNCHANGED <<prMode, prAbac, prPolicies, prStack, prContext, prLast>>

\* patched_connect sees the address that the name was resolved to.
PrBlockedByPolicyOnly(t, address, port) == prContext[t] # PrNone /\ ~PrIsAllowed(prContext[t], address, port)
PrBlocked(t, address, port) ==
    prContext[t] # PrNone /\ (address = "private" \/ ~PrIsAllowed(prContext[t], address, port))
PrConnect(t, port) ==
    /\ prMode = "egress" /\ prNames[t] # PrUnresolved /\ prNames' = [prNames EXCEPT ![t] = PrUnresolved]
    /\ prLast' = [task |-> t, host |-> prNames[t].host, address |-> prNames[t].address, port |-> port,
                  outcome |-> IF PrBlocked(t, prNames[t].address, port) THEN "denied" ELSE "connected"]
    /\ UNCHANGED <<prMode, prAbac, prPolicies, prStack, prContext>>

PrNext ==
    \/ PrStart \/ PrIsElevated \/ PrRevoke \/ PrTick
    \/ \E rule \in PrRule : PrAddRule(rule)
    \/ \E minutes \in {0, 1, PrMost + 5} : PrElevate(minutes)
    \/ \E standard \in {"hipaa", "soc2", "gdpr", "air_gapped", "finra"} : PrApplyPack(standard)
    \/ \E enforcement \in {"warn", "require_approval"} : PrAddPolicy(enforcement)
    \/ \E id \in {"root_exec", "zero_egress", "own"} : PrRemovePolicy(id)
    \/ \E t \in PrTasks, policy \in DOMAIN PrNetworkPolicies : PrEnter(t, policy)
    \/ \E t \in PrTasks : PrLeave(t)
    \/ \E t \in PrTasks, host \in DOMAIN PrAddressOf, thread \in BOOLEAN : PrResolve(t, host, thread)
    \/ \E t \in PrTasks, port \in {80, 443} : PrConnect(t, port)

PrSpec == PrInit /\ [][PrNext]_prVars

---------------------------------------------------------------------------
\* Rules may come in any order: the answer is that of the rules taken as a set, so a DENY holds whatever ALLOW
\* stands before it, and nothing crosses the organisation (evaluate, add_rule).
PrOrderFree ==
    prMode = "abac" => \A q \in PrRequest : PrEvaluate(prRules, q) =>
        q.org /\ \A i \in DOMAIN prRules : PrMatches(prRules[i], q) => prRules[i].effect = "allow"

\* An elevation that is found in force was granted, not revoked since, and at most PrMost minutes ago
\* (grant_elevation, is_elevated).
PrElevationEnds == prElevated => prGranted # 0 /\ prNow < prGranted + PrMost

\* The single pass over the policies finds the strongest enforcement of those that apply, whatever packs were
\* applied, removed or replaced before (evaluate, add_policy, apply_pack).
PrStrongest ==
    prMode = "policies" =>
        \A action \in {"bash", "deploy", "export"}, token \in {PrNone, "sudo", "production", "ssn", "http"}, cost \in {0, 6} :
            LET hit == {i \in DOMAIN prPolicies : PrTriggered(prPolicies[i], action, token, cost)}
                found == PrEnforcement(prPolicies, action, token, cost)
            IN /\ hit = {} => found = "allow"
               /\ \A i \in hit : PrStrength(found) >= PrStrength(prPolicies[i].enforcement)
               /\ hit # {} => \E i \in hit : prPolicies[i].enforcement = found

\* A task that is in a sandbox has a policy in force, that of the innermost one, whatever it entered and left
\* before (egress_sandbox).
PrSandboxed ==
    \A t \in PrTasks : prContext[t] = IF prStack[t] = <<>> THEN PrNone ELSE prStack[t][Len(prStack[t])].policy

\* In a sandbox no private address is reached, although the name may have been resolved by a thread outside of it
\* or before it was entered (patched_getaddrinfo, patched_connect).
PrNoPrivate ==
    [][prLast' # prLast /\ prLast'.outcome = "connected" /\ prStack[prLast'.task] # <<>> => prLast'.address # "private"]_prVars

\* A host of the allow list can be reached from the sandbox. Fails: connect is asked for the address, which is not
\* on the list.
PrAllowedReachable ==
    [][prLast' # prLast /\ prStack[prLast'.task] # <<>> /\ prLast'.host # "localhost"
            /\ PrIsAllowed(prContext[prLast'.task], prLast'.host, prLast'.port) => prLast'.outcome = "connected"]_prVars
=============================================================================
