--------------------------- MODULE ProvidersProofs ---------------------------
(***************************************************************************)
(* Proofs about the parts of MCProviders, each with its inductive          *)
(* invariant: tokens (Tk), keys and elevations (Ak), the gate in front of  *)
(* tools (Tg), rule engines and egress firewall (Pr), the limits of the    *)
(* channels (Rl), circuit breaker and bulkhead (Cb), the router (Mr) and   *)
(* the terminal backends (Tm).  The last section joins them: AccessRight,  *)
(* LimitsKept and GuardsHold hold of every behaviour of the run, for all   *)
(* constants that satisfy the assumptions of Access, Resilience and        *)
(* Terminal.                                                               *)
(***************************************************************************)
EXTENDS MCProviders, SequenceTheorems, FiniteSetTheorems, WellFoundedInduction, TLAPS

\* The domain, the length and the elements of a sequence.
LEMMA SeqFacts ==
  ASSUME NEW S, NEW q \in Seq(S)
  PROVE  DOMAIN q = 1 .. Len(q) /\ Len(q) \in Nat /\ \A i \in DOMAIN q : q[i] \in S
  OBVIOUS

\* What Append does.
LEMMA Appended ==
  ASSUME NEW S, NEW q \in Seq(S), NEW x \in S
  PROVE  /\ Append(q, x) \in Seq(S) /\ Len(Append(q, x)) = Len(q) + 1 /\ DOMAIN Append(q, x) = DOMAIN q \union {Len(q) + 1}
         /\ Len(q) + 1 \notin DOMAIN q /\ Append(q, x)[Len(q) + 1] = x
         /\ \A i \in DOMAIN q : Append(q, x)[i] = q[i] /\ i < Len(q) + 1
  OBVIOUS

\* A set of numbers that is not empty has a least one.
LEMMA LeastNumber ==
  ASSUME NEW T \in SUBSET Nat, T # {}
  PROVE  \E t \in T : \A u \in T : t <= u
  <1> DEFINE R == {ss \in Nat \X Nat : ss[1] < ss[2]}
  <1>1. IsWellFoundedOn(R, Nat)
    BY NatLessThanWellFounded DEF OpToRel
  <1> HIDE DEF R
  <1>2. PICK t \in T : \A u \in T : ~(<<u, t>> \in R)
    BY <1>1, WFMin
  <1>3. ASSUME NEW u \in T PROVE t <= u
    <2>1. u \in Nat /\ t \in Nat /\ <<u, t>> \notin R
      BY <1>2
    <2>2. ~(u < t)
      BY <2>1, Zenon DEF R
    <2> QED BY <2>1, <2>2
  <1> QED BY <1>3

-----------------------------------------------------------------------------
(* Tokens *)

TkToken == [type : {"access", "refresh"}, family : Nat, exp : Nat]

\* What the variables are; a token lives no longer than a refresh token issued now.
TkTypes ==
    /\ tkNow \in Nat /\ tkTokens \in Seq(TkToken) /\ (tkTokens # <<>> => tkNow > 0)
    /\ Len(tkTokens) <= TkMaxTokens
    /\ tkRevoked \in [1 .. TkMaxTokens -> Nat] /\ tkActive \subseteq TkJtis /\ tkGone \subseteq TkJtis
    /\ \A j \in TkJtis : tkTokens[j].exp <= tkNow + TkRefreshLife

\* Families are numbered by the tokens they begin with.
TkNumbered ==
    /\ \A j \in TkJtis : tkTokens[j].family \in TkJtis
    /\ tkOut \subseteq TkJtis /\ tkReused \subseteq TkJtis

\* The revocation of a token that could still be used outlasts the token.
TkOutlasts ==
    \A j \in tkGone : j \in tkActive \/ ~tkRestarted => tkRevoked[j] >= tkTokens[j].exp \/ TkExpired(j)

\* What is active: one token of a family, none of a family that was reused, and
\* of a session that was revoked only while the process remembers that.
TkActiveInv ==
    /\ \A i, j \in tkActive : tkTokens[i].family = tkTokens[j].family => i = j
    /\ \A j \in tkActive : tkTokens[j].family \notin tkReused
    /\ \A j \in tkActive : tkTokens[j].family \in tkOut => tkTokens[j].family \in tkEnded
    /\ ~tkRestarted => tkOut \subseteq tkEnded

\* The inductive invariant.
TkIInv == TkTypes /\ TkNumbered /\ TkOutlasts /\ TkActiveInv

\* The service starts without tokens.
LEMMA TkInitInv == TkInit => TkIInv
  BY TkAssumption DEF TkInit, TkIInv, TkTypes, TkNumbered, TkOutlasts, TkActiveInv, TkJtis

\* Two tokens are added to those there are.
LEMMA TkIssued ==
  ASSUME TkTypes, NEW f \in Nat, tkTokens' = tkTokens \o TkPair(f)
  PROVE  /\ tkTokens' \in Seq(TkToken) /\ Len(tkTokens') = Len(tkTokens) + 2
         /\ \A j \in TkJtis : j \in TkJtis' /\ tkTokens'[j] = tkTokens[j]
         /\ \A j \in TkJtis' \ TkJtis : /\ j \in {Len(tkTokens) + 1, Len(tkTokens) + 2} /\ tkTokens'[j].family = f
                                        /\ tkTokens'[j].exp <= tkNow + TkRefreshLife
  <1> DEFINE p == TkPair(f)
  <1>1. p \in Seq(TkToken) /\ Len(p) = 2 /\ p[1] \in TkToken /\ p[2] \in TkToken /\ p[1].family = f /\ p[2].family = f
        /\ p[1].exp <= tkNow + TkRefreshLife /\ p[2].exp <= tkNow + TkRefreshLife
    BY SMTT(20), TkAssumption DEF TkTypes, TkPair, TkToken
  <1>2. tkTokens \in Seq(TkToken)
    BY DEF TkTypes
  <1> HIDE DEF p
  <1>3. tkTokens' = tkTokens \o p
    BY DEF p
  <1> DEFINE n == Len(tkTokens)
  <1>4. n \in Nat /\ tkTokens' \in Seq(TkToken) /\ Len(tkTokens') = n + Len(p)
    <2>1. n \in Nat
      BY <1>2
    <2>2. tkTokens \o p \in Seq(TkToken) /\ Len(tkTokens \o p) = n + Len(p)
      BY <1>1, <1>2, ConcatProperties
    <2> QED BY <1>3, <2>1, <2>2
  <1>5. \A j \in 1 .. n + Len(p) : tkTokens'[j] = IF j <= n THEN tkTokens[j] ELSE p[j - n]
    BY <1>1, <1>2, <1>3, ConcatProperties
  <1> HIDE DEF n
  <1>6. \A j \in 1 .. n : j \in 1 .. n + 2 /\ tkTokens'[j] = tkTokens[j]
    BY <1>1, <1>4, <1>5
  <1>7. ASSUME NEW j \in 1 .. n + 2, j \notin 1 .. n
        PROVE  j \in {n + 1, n + 2} /\ tkTokens'[j].family = f /\ tkTokens'[j].exp <= tkNow + TkRefreshLife
    <2>1. j = n + 1 \/ j = n + 2
      BY <1>4, <1>7
    <2>2. tkTokens'[j] = p[j - n] /\ (j - n = 1 \/ j - n = 2)
      BY <1>1, <1>4, <1>5, <2>1
    <2> QED BY <1>1, <2>1, <2>2
  <1> QED BY <1>1, <1>4, <1>6, <1>7 DEF TkJtis, n

\* What a token is.
LEMMA TkTokenFacts ==
  ASSUME TkTypes
  PROVE  /\ Len(tkTokens) \in Nat
         /\ \A j \in TkJtis : j \in 1 .. TkMaxTokens /\ tkTokens[j].family \in Nat /\ tkTokens[j].exp \in Nat /\ tkRevoked[j] \in Nat
  <1>1. tkTokens \in Seq(TkToken) /\ Len(tkTokens) \in Nat
    BY DEF TkTypes
  <1>2. \A j \in TkJtis : tkTokens[j] \in TkToken /\ j \in 1 .. TkMaxTokens
    BY <1>1, TkAssumption DEF TkTypes, TkJtis
  <1> QED BY <1>1, <1>2 DEF TkTypes, TkToken

\* A login issues the first tokens of a new family.
LEMMA TkLoginKeeps ==
  ASSUME TkIInv, TkLogin
  PROVE  TkIInv'
  <1> DEFINE n == Len(tkTokens)
  <1>1. TkTypes /\ TkNumbered /\ TkOutlasts /\ TkActiveInv
    BY DEF TkIInv
  <1>2. n \in Nat /\ tkTokens' = tkTokens \o TkPair(n + 1) /\ tkActive' = tkActive \cup {n + 2} /\ n + 2 <= TkMaxTokens /\ tkNow > 0
        /\ UNCHANGED <<tkNow, tkRevoked, tkDead, tkEnded, tkGone, tkOut, tkReused, tkRestarted>>
    BY <1>1, TkTokenFacts DEF TkLogin, TkRoom, TkUp
  <1>3. /\ tkTokens' \in Seq(TkToken) /\ Len(tkTokens') = n + 2
        /\ \A j \in TkJtis : j \in TkJtis' /\ tkTokens'[j] = tkTokens[j]
        /\ \A j \in TkJtis' \ TkJtis : j \in {n + 1, n + 2} /\ tkTokens'[j].family = n + 1 /\ tkTokens'[j].exp <= tkNow + TkRefreshLife
    <2>1. n + 1 \in Nat
      BY <1>2
    <2> QED BY <1>1, <1>2, <2>1, TkIssued
  <1>4. n + 2 \in TkJtis' /\ n + 1 \in TkJtis' /\ n + 2 \notin TkJtis /\ n + 1 \notin TkJtis
    BY <1>2, <1>3 DEF TkJtis
  <1> HIDE DEF n
  <1>5. TkTypes'
    BY <1>1, <1>2, <1>3, <1>4, TkTokenFacts, TkAssumption DEF TkTypes
  <1>6. TkNumbered'
    BY <1>1, <1>2, <1>3, <1>4 DEF TkNumbered
  <1>7. TkOutlasts'
    BY <1>1, <1>2, <1>3, <1>4 DEF TkOutlasts, TkTypes, TkExpired
  <1>8. TkActiveInv'
    <2>1. \A j \in tkActive' : (j \in tkActive /\ j \in TkJtis /\ tkTokens'[j] = tkTokens[j] /\ tkTokens[j].family \in TkJtis)
                                 \/ (j = n + 2 /\ tkTokens'[j].family = n + 1)
      BY <1>1, <1>2, <1>3, <1>4 DEF TkTypes, TkNumbered
    <2>2. n + 1 \notin tkReused /\ n + 1 \notin tkOut
      BY <1>1, <1>4 DEF TkNumbered
    <2>3. ASSUME NEW i \in tkActive', NEW j \in tkActive', tkTokens'[i].family = tkTokens'[j].family PROVE i = j
      BY <1>1, <1>4, <2>1, <2>3 DEF TkActiveInv
    <2>4. \A j \in tkActive' : tkTokens'[j].family \notin tkReused'
      BY <1>1, <1>2, <2>1, <2>2 DEF TkActiveInv
    <2>5. \A j \in tkActive' : tkTokens'[j].family \in tkOut' => tkTokens'[j].family \in tkEnded'
      BY <1>1, <1>2, <2>1, <2>2 DEF TkActiveInv
    <2> QED BY <1>1, <1>2, <2>3, <2>4, <2>5 DEF TkActiveInv
  <1> QED BY <1>5, <1>6, <1>7, <1>8 DEF TkIInv

\* revoke_jti forgets only revocations of tokens that have expired.
LEMMA TkRevokedKeeps ==
  ASSUME TkIInv, NEW j \in TkJtis, TkRevokeJti(j), tkNow' = tkNow
  PROVE  /\ tkRevoked' \in [1 .. TkMaxTokens -> Nat] /\ tkRevoked'[j] >= tkTokens[j].exp
         /\ \A i \in TkJtis : i # j /\ tkRevoked[i] >= tkTokens[i].exp => tkRevoked'[i] >= tkTokens[i].exp \/ TkExpired(i)
  <1>1. TkTypes /\ tkNow \in Nat /\ DOMAIN tkRevoked = 1 .. TkMaxTokens
    BY DEF TkIInv, TkTypes
  <1>2. tkNow + TkRevokedFor \in Nat /\ tkTokens[j].exp <= tkNow + TkRevokedFor
    BY <1>1, TkTokenFacts, TkAssumption DEF TkTypes
  <1>3. tkRevoked' = [i \in 1 .. TkMaxTokens |-> IF i = j THEN tkNow + TkRevokedFor ELSE IF tkNow > tkRevoked[i] THEN 0 ELSE tkRevoked[i]]
    BY <1>1 DEF TkRevokeJti, TkUntil
  <1>4. tkRevoked' \in [1 .. TkMaxTokens -> Nat]
    BY <1>1, <1>2, <1>3 DEF TkTypes
  <1> QED BY <1>1, <1>2, <1>3, <1>4, TkTokenFacts DEF TkExpired

\* A rotation replaces the active token of a family.
LEMMA TkRotateKeeps ==
  ASSUME TkIInv, NEW j \in TkJtis, TkRotate(j)
  PROVE  TkIInv'
  <1> DEFINE n == Len(tkTokens)
             f == tkTokens[j].family
  <1>1. TkTypes /\ TkNumbered /\ TkOutlasts /\ TkActiveInv
    BY DEF TkIInv
  <1>2. n \in Nat /\ f \in Nat /\ f \in TkJtis
    BY <1>1, TkTokenFacts DEF TkNumbered
  <1>3. /\ tkTokens' = tkTokens \o TkPair(f) /\ tkActive' = (tkActive \ {j}) \cup {n + 2} /\ n + 2 <= TkMaxTokens /\ tkNow > 0
        /\ tkGone' = tkGone \cup {j} /\ TkRevokeJti(j)
        /\ UNCHANGED <<tkNow, tkDead, tkEnded, tkOut, tkReused, tkRestarted>>
        /\ j \in tkActive /\ f \notin tkEnded
    BY DEF TkRotate, TkRoom, TkUp, TkMayRotate, TkIsReuse, TkPresentable
  <1>4. /\ tkTokens' \in Seq(TkToken) /\ Len(tkTokens') = n + 2
        /\ \A i \in TkJtis : i \in TkJtis' /\ tkTokens'[i] = tkTokens[i]
        /\ \A i \in TkJtis' \ TkJtis : i \in {n + 1, n + 2} /\ tkTokens'[i].family = f /\ tkTokens'[i].exp <= tkNow + TkRefreshLife
    BY <1>1, <1>2, <1>3, TkIssued
  <1>5. n + 2 \in TkJtis' /\ n + 1 \in TkJtis' /\ n + 2 \notin TkJtis /\ n + 1 \notin TkJtis
    BY <1>2, <1>4 DEF TkJtis
  <1>6. /\ tkRevoked' \in [1 .. TkMaxTokens -> Nat] /\ tkRevoked'[j] >= tkTokens[j].exp
        /\ \A i \in TkJtis : i # j /\ tkRevoked[i] >= tkTokens[i].exp => tkRevoked'[i] >= tkTokens[i].exp \/ TkExpired(i)
    BY <1>3, TkRevokedKeeps
  <1>7. f \notin tkReused /\ f \notin tkOut
    BY <1>1, <1>3 DEF TkActiveInv
  <1> HIDE DEF n, f
  <1>8. TkTypes'
    BY <1>1, <1>2, <1>3, <1>4, <1>5, <1>6, TkTokenFacts, TkAssumption DEF TkTypes
  <1>9. TkNumbered'
    BY <1>1, <1>2, <1>3, <1>4, <1>5 DEF TkNumbered
  <1>10. TkOutlasts'
    <2>1. \A i \in tkGone' : i = j \/ (i \in tkGone /\ i \in TkJtis /\ (i \in tkActive' => i \in tkActive))
      BY <1>1, <1>3, <1>5 DEF TkTypes
    <2>2. \A i \in TkJtis : tkTokens'[i] = tkTokens[i] /\ (TkExpired(i) => TkExpired(i)')
      BY <1>3, <1>4 DEF TkExpired
    <2> QED BY <1>1, <1>3, <1>6, <2>1, <2>2 DEF TkOutlasts
  <1>11. TkActiveInv'
    <2>1. \A i \in tkActive' : (i \in tkActive /\ i # j /\ i \in TkJtis /\ tkTokens'[i] = tkTokens[i])
                                 \/ (i = n + 2 /\ tkTokens'[i].family = f)
      BY <1>1, <1>3, <1>4, <1>5 DEF TkTypes
    <2>2. \A i \in tkActive : i # j => tkTokens[i].family # f
      BY <1>1, <1>3 DEF TkActiveInv, f
    <2>3. ASSUME NEW i \in tkActive', NEW k \in tkActive', tkTokens'[i].family = tkTokens'[k].family PROVE i = k
      BY <1>1, <2>1, <2>2, <2>3 DEF TkActiveInv
    <2>4. \A i \in tkActive' : tkTokens'[i].family \notin tkReused'
      BY <1>1, <1>3, <1>7, <2>1 DEF TkActiveInv
    <2>5. \A i \in tkActive' : tkTokens'[i].family \in tkOut' => tkTokens'[i].family \in tkEnded'
      BY <1>1, <1>3, <1>7, <2>1 DEF TkActiveInv
    <2> QED BY <1>1, <1>3, <2>3, <2>4, <2>5 DEF TkActiveInv
  <1> QED BY <1>8, <1>9, <1>10, <1>11 DEF TkIInv

\* A token that is presented again ends its family.
LEMMA TkReuseKeeps ==
  ASSUME TkIInv, NEW j \in TkJtis, TkReuse(j)
  PROVE  TkIInv'
  <1>1. /\ UNCHANGED <<tkNow, tkTokens, tkRevoked, tkEnded, tkGone, tkOut, tkRestarted>> /\ TkJtis' = TkJtis
        /\ tkActive' = tkActive \ TkFamilyOf(j) /\ tkReused' = tkReused \cup {tkTokens[j].family}
    BY DEF TkReuse, TkRevokeFamily, TkJtis
  <1>2. \A i \in tkActive' : i \in tkActive /\ i \in TkJtis /\ tkTokens[i].family # tkTokens[j].family
    BY <1>1 DEF TkIInv, TkTypes, TkFamilyOf
  <1>3. TkTypes' /\ TkNumbered'
    BY <1>1, <1>2 DEF TkIInv, TkTypes, TkNumbered
  <1>4. TkOutlasts'
    BY <1>1, <1>2 DEF TkIInv, TkOutlasts, TkExpired
  <1>5. TkActiveInv'
    BY <1>1, <1>2 DEF TkIInv, TkActiveInv
  <1> QED BY <1>3, <1>4, <1>5 DEF TkIInv

\* A revocation is remembered as long as the token lives.
LEMMA TkRevokeKeeps ==
  ASSUME TkIInv, NEW j \in TkJtis, TkRevoke(j)
  PROVE  TkIInv'
  <1>1. /\ TkRevokeJti(j) /\ tkGone' = tkGone \cup {j} /\ TkJtis' = TkJtis
        /\ UNCHANGED <<tkNow, tkTokens, tkActive, tkEnded, tkOut, tkReused, tkRestarted>>
    BY DEF TkRevoke, TkJtis
  <1>2. /\ tkRevoked' \in [1 .. TkMaxTokens -> Nat] /\ tkRevoked'[j] >= tkTokens[j].exp
        /\ \A i \in TkJtis : i # j /\ tkRevoked[i] >= tkTokens[i].exp => tkRevoked'[i] >= tkTokens[i].exp \/ TkExpired(i)
    BY <1>1, TkRevokedKeeps
  <1>3. TkTypes' /\ TkNumbered'
    BY <1>1, <1>2 DEF TkIInv, TkTypes, TkNumbered
  <1>4. TkOutlasts'
    BY <1>1, <1>2 DEF TkIInv, TkTypes, TkOutlasts, TkExpired
  <1>5. TkActiveInv'
    BY <1>1 DEF TkIInv, TkActiveInv
  <1> QED BY <1>3, <1>4, <1>5 DEF TkIInv

\* The clock, a revoked session and a restart of the process.
LEMMA TkOthersKeep ==
  ASSUME TkIInv, TkTick \/ TkRestart \/ (\E s \in TkFamilies : TkRevokeSession(s)) \/ UNCHANGED tkVars
  PROVE  TkIInv'
  <1>0. TkTypes /\ tkNow \in Nat
    BY DEF TkIInv, TkTypes
  <1>1. CASE TkTick
    <2>1. TkJtis' = TkJtis /\ tkNow' = tkNow + 1 /\ UNCHANGED <<tkTokens, tkActive, tkRevoked, tkEnded, tkGone, tkOut, tkReused, tkRestarted>>
      BY <1>1 DEF TkTick, TkJtis
    <2>2. \A j \in TkJtis : tkTokens[j].exp \in Nat
      BY <1>0, TkTokenFacts
    <2>3. TkTypes' /\ TkNumbered'
      BY <1>0, <2>1, <2>2, TkAssumption DEF TkIInv, TkTypes, TkNumbered
    <2>4. TkOutlasts' /\ TkActiveInv'
      BY <1>0, <2>1, <2>2 DEF TkIInv, TkTypes, TkOutlasts, TkActiveInv, TkExpired
    <2> QED BY <2>3, <2>4 DEF TkIInv
  <1>2. CASE TkRestart
    <2>1. /\ TkJtis' = TkJtis /\ tkActive' = {} /\ tkRestarted' = TRUE /\ tkRevoked' = [j \in 1 .. TkMaxTokens |-> 0]
          /\ UNCHANGED <<tkNow, tkTokens, tkGone, tkOut, tkReused>>
      BY <1>0, <1>2 DEF TkRestart, TkJtis, TkTypes
    <2>2. TkTypes' /\ TkNumbered'
      BY <2>1 DEF TkIInv, TkTypes, TkNumbered
    <2>3. TkOutlasts' /\ TkActiveInv'
      BY <2>1 DEF TkOutlasts, TkActiveInv
    <2> QED BY <2>2, <2>3 DEF TkIInv
  <1>3. ASSUME NEW s \in TkFamilies, TkRevokeSession(s) PROVE TkIInv'
    <2>1. /\ TkJtis' = TkJtis /\ tkEnded' = tkEnded \cup {s} /\ tkOut' = tkOut \cup {s} /\ s \in TkJtis
          /\ UNCHANGED <<tkNow, tkTokens, tkActive, tkRevoked, tkGone, tkReused, tkRestarted>>
      BY <1>3 DEF TkRevokeSession, TkJtis, TkFamilies, TkIInv, TkNumbered
    <2>2. TkTypes' /\ TkNumbered'
      BY <2>1 DEF TkIInv, TkTypes, TkNumbered
    <2>3. TkOutlasts' /\ TkActiveInv'
      BY <2>1 DEF TkIInv, TkOutlasts, TkActiveInv, TkExpired
    <2> QED BY <2>2, <2>3 DEF TkIInv
  <1>4. CASE UNCHANGED tkVars
    BY <1>4 DEF tkVars, TkIInv, TkTypes, TkNumbered, TkOutlasts, TkActiveInv, TkJtis, TkExpired
  <1> QED BY <1>1, <1>2, <1>3, <1>4

\* Every step of the token service keeps its invariant.
LEMMA TkStep == TkIInv /\ [TkNext]_tkVars => TkIInv'
  BY TkLoginKeeps, TkRotateKeeps, TkReuseKeeps, TkRevokeKeeps, TkOthersKeep DEF TkNext

\* The invariant implies the properties.
LEMMA TkInvImplies == TkIInv => TkRevokedStays /\ TkOneLiveRefresh /\ TkReuseEnds
  <1> SUFFICES ASSUME TkIInv PROVE TkRevokedStays /\ TkOneLiveRefresh /\ TkReuseEnds
    OBVIOUS
  <1>1. TkTypes /\ tkNow \in Nat /\ (\A j \in TkJtis : tkNow > 0 /\ tkTokens[j].exp \in Nat /\ tkRevoked[j] \in Nat)
    BY TkTokenFacts DEF TkIInv, TkTypes, TkJtis
  <1>2. \A j \in TkJtis : tkRevoked[j] >= tkTokens[j].exp => TkExpired(j) \/ TkJtiRevoked(j)
    BY <1>1 DEF TkExpired, TkJtiRevoked
  <1>3. TkRevokedStays
    BY <1>2 DEF TkIInv, TkTypes, TkOutlasts, TkActiveInv, TkRevokedStays, TkAccepted
  <1>4. TkOneLiveRefresh
    BY <1>2 DEF TkIInv, TkTypes, TkOutlasts, TkActiveInv, TkOneLiveRefresh, TkMayRotate, TkPresentable, TkIsReuse, TkFamilyOf
  <1>5. TkReuseEnds
    BY DEF TkIInv, TkActiveInv, TkReuseEnds, TkMayRotate, TkIsReuse
  <1> QED BY <1>3, <1>4, <1>5

-----------------------------------------------------------------------------
(* API keys and elevations *)

AkKey == [prefix : AkPrefixes, scopes : SUBSET (AkScopes \union {"*"}), exp : Nat, active : BOOLEAN]
AkGrant == [granted : Nat, exp : Nat, active : BOOLEAN]

\* Chains are numbered by their first keys; a key has a scope.
AkTypes ==
    /\ akNow \in Nat /\ akKeys \in Seq(AkKey) /\ akChain \in Seq(Nat) /\ Len(akChain) = Len(akKeys)
    /\ \A k \in DOMAIN akKeys : akKeys[k].scopes # {} /\ akChain[k] <= Len(akKeys)
    /\ akGrants \in Seq(AkGrant) /\ akDenied \subseteq DOMAIN akGrants

\* A grant is bounded, and one that was denied is not active.
AkBounded ==
    \A g \in DOMAIN akGrants : akGrants[g].exp <= akGrants[g].granted + AkMost /\ (g \in akDenied => ~akGrants[g].active)

AkIInv == AkTypes /\ AkOneOfChain /\ AkRightKey /\ AkBounded

\* A function on an initial interval is a sequence.
LEMMA Tabulated ==
  ASSUME NEW S, NEW n \in Nat, NEW f \in [1 .. n -> S]
  PROVE  f \in Seq(S) /\ Len(f) = n
  <1>1. f \in Seq(S)
    OBVIOUS
  <1>2. Len(f) \in Nat /\ 1 .. Len(f) = 1 .. n
    BY <1>1
  <1> QED BY <1>1, <1>2

\* A key is added to the keys, of which q has what there were.
AkMayAdd(q, r, c) ==
    /\ q \in Seq(AkKey) /\ DOMAIN q = DOMAIN akKeys /\ Len(q) = Len(akKeys)
    /\ r \in AkKey /\ r.scopes # {} /\ r.active /\ c \in Nat /\ c <= Len(akKeys) + 1
    /\ \A k \in DOMAIN akKeys : q[k].scopes = akKeys[k].scopes /\ (q[k].active => akKeys[k].active)
    /\ \A k \in DOMAIN akKeys : akChain[k] = c => q[k].scopes = r.scopes /\ ~q[k].active

\* A key is added that may be.
LEMMA AkKeyAdded ==
  ASSUME AkIInv, NEW q, NEW r, NEW c, AkMayAdd(q, r, c),
         akKeys' = Append(q, r), akChain' = Append(akChain, c), akLast' = AkNone, UNCHANGED <<akNow, akGrants, akDenied>>
  PROVE  AkIInv'
  <1> USE DEF AkMayAdd
  <1> DEFINE n == Len(akKeys)
             m == n + 1
  <1>1. akKeys \in Seq(AkKey) /\ akChain \in Seq(Nat) /\ Len(akChain) = n /\ n \in Nat /\ DOMAIN akKeys = 1 .. n /\ DOMAIN akChain = 1 .. n
    BY DEF AkIInv, AkTypes
  <1>2. /\ akKeys' \in Seq(AkKey) /\ Len(akKeys') = m /\ DOMAIN akKeys' = DOMAIN akKeys \union {m} /\ m \notin DOMAIN akKeys
        /\ akKeys'[m] = r /\ \A k \in DOMAIN akKeys : akKeys'[k] = q[k]
    BY Appended
  <1>3. /\ akChain' \in Seq(Nat) /\ Len(akChain') = m /\ akChain'[m] = c /\ \A k \in DOMAIN akKeys : akChain'[k] = akChain[k]
    BY <1>1, Appended
  <1>4. \A k \in DOMAIN akKeys : akChain[k] <= m /\ akChain[k] \in Nat
    BY <1>1 DEF AkIInv, AkTypes
  <1> HIDE DEF n, m
  <1>5. AkTypes'
    <2>1. c <= m
      BY DEF m, n
    <2>2. ASSUME NEW k \in DOMAIN akKeys' PROVE akKeys'[k].scopes # {} /\ akChain'[k] <= m
      <3>1. CASE k = m
        BY <1>2, <1>3, <2>1, <3>1
      <3>2. CASE k # m
        <4>1. k \in DOMAIN akKeys /\ akKeys[k].scopes # {}
          BY <1>2, <3>2 DEF AkIInv, AkTypes
        <4> QED BY <1>2, <1>3, <1>4, <4>1
      <3> QED BY <3>1, <3>2
    <2>3. akNow' \in Nat /\ akGrants' \in Seq(AkGrant) /\ akDenied' \subseteq DOMAIN akGrants'
      BY DEF AkIInv, AkTypes
    <2> QED BY <1>2, <1>3, <2>2, <2>3 DEF AkTypes
  <1>6. AkOneOfChain'
    <2> SUFFICES ASSUME NEW k \in DOMAIN akKeys', NEW i \in DOMAIN akKeys', akChain'[k] = akChain'[i]
                 PROVE  akKeys'[k].scopes = akKeys'[i].scopes /\ (akKeys'[k].active /\ akKeys'[i].active => k = i)
      BY DEF AkOneOfChain
    <2>1. CASE k = m
      BY <1>2, <1>3, <2>1
    <2>2. CASE i = m
      BY <1>2, <1>3, <2>2
    <2>3. CASE k # m /\ i # m
      <3>1. k \in DOMAIN akKeys /\ i \in DOMAIN akKeys /\ akChain[k] = akChain[i]
        BY <1>2, <1>3, <2>3
      <3>2. akKeys[k].scopes = akKeys[i].scopes /\ (akKeys[k].active /\ akKeys[i].active => k = i)
        BY <3>1 DEF AkIInv, AkOneOfChain
      <3> QED BY <1>2, <3>1, <3>2
    <2> QED BY <2>1, <2>2, <2>3
  <1>7. AkRightKey' /\ AkBounded'
    BY DEF AkIInv, AkRightKey, AkNone, AkBounded
  <1> QED BY <1>5, <1>6, <1>7 DEF AkIInv

\* The keys with k retired.
LEMMA AkRetires ==
  ASSUME AkIInv, NEW k \in DOMAIN akKeys, NEW q, q = [akKeys EXCEPT ![k].active = FALSE]
  PROVE  /\ q \in Seq(AkKey) /\ DOMAIN q = DOMAIN akKeys /\ Len(q) = Len(akKeys) /\ ~q[k].active
         /\ \A i \in DOMAIN akKeys : q[i].scopes = akKeys[i].scopes /\ (q[i].active => akKeys[i].active)
  <1>1. akKeys \in Seq(AkKey) /\ \A i \in DOMAIN akKeys : akKeys[i] \in AkKey
    BY DEF AkIInv, AkTypes
  <1>2. DOMAIN q = DOMAIN akKeys /\ \A i \in DOMAIN akKeys : q[i] = IF i = k THEN [akKeys[k] EXCEPT !.active = FALSE] ELSE akKeys[i]
    BY <1>1
  <1>3. [akKeys[k] EXCEPT !.active = FALSE] \in AkKey /\ ~[akKeys[k] EXCEPT !.active = FALSE].active
        /\ [akKeys[k] EXCEPT !.active = FALSE].scopes = akKeys[k].scopes
    BY <1>1 DEF AkKey
  <1>4. q \in Seq(AkKey) /\ Len(q) = Len(akKeys)
    <2>1. DOMAIN akKeys = 1 .. Len(akKeys) /\ Len(akKeys) \in Nat
      BY <1>1
    <2>2. q \in [1 .. Len(akKeys) -> AkKey]
      BY <1>1, <1>2, <1>3, <2>1
    <2>3. \A f \in [1 .. Len(akKeys) -> AkKey] : f \in Seq(AkKey) /\ Len(f) = Len(akKeys)
      BY <2>1, Tabulated
    <2> QED BY <2>2, <2>3
  <1> QED BY <1>2, <1>3, <1>4

\* A new key begins a chain.
LEMMA AkCreateKeeps ==
  ASSUME AkIInv, NEW p \in AkPrefixes, NEW s \in SUBSET AkScopes, NEW e \in BOOLEAN, AkCreate(p, s, e)
  PROVE  AkIInv'
  <1> DEFINE r == AkRecord(p, s, e)
             c == Len(akKeys) + 1
  <1>1. akKeys \in Seq(AkKey) /\ Len(akKeys) \in Nat /\ c \in Nat /\ akNow \in Nat
    BY DEF AkIInv, AkTypes
  <1>2. r \in AkKey /\ r.scopes # {} /\ r.active
    <2> DEFINE sc == IF s = {} THEN {"*"} ELSE s
               ex == IF e THEN akNow + AkLife ELSE 0
    <2>1. sc \in SUBSET (AkScopes \union {"*"}) /\ sc # {}
      OBVIOUS
    <2>e. ex \in Nat
      BY <1>1, AkAssumption
    <2>2. r = [prefix |-> p, scopes |-> sc, exp |-> ex, active |-> TRUE]
      BY DEF AkRecord
    <2> HIDE DEF sc, ex, r
    <2> QED BY <2>1, <2>e, <2>2 DEF AkKey
  <1>3. akKeys' = Append(akKeys, r) /\ akChain' = Append(akChain, c) /\ akLast' = AkNone /\ UNCHANGED <<akNow, akGrants, akDenied>>
    BY DEF AkCreate
  <1>4. \A k \in DOMAIN akKeys : akChain[k] # c
    <2>1. \A k \in DOMAIN akKeys : akChain[k] \in Nat /\ akChain[k] <= Len(akKeys)
      BY DEF AkIInv, AkTypes
    <2> QED BY <1>1, <2>1
  <1>5. c <= Len(akKeys) + 1
    BY <1>1
  <1> HIDE DEF r, c
  <1>6. AkMayAdd(akKeys, r, c)
    BY <1>1, <1>2, <1>4, <1>5 DEF AkMayAdd
  <1> QED BY <1>3, <1>6, AkKeyAdded

\* A rotation retires a key and adds one of its chain with its scopes.
LEMMA AkRotateKeeps ==
  ASSUME AkIInv, NEW k \in DOMAIN akKeys, NEW p \in AkPrefixes, NEW e \in BOOLEAN, AkRotate(k, p, e)
  PROVE  AkIInv'
  <1> DEFINE r == AkRecord(p, akKeys[k].scopes, e)
             c == akChain[k]
             q == AkRetired(k)
  <1>1. akKeys \in Seq(AkKey) /\ Len(akKeys) \in Nat /\ akNow \in Nat /\ akKeys[k] \in AkKey /\ akKeys[k].scopes # {}
        /\ c \in Nat /\ c <= Len(akKeys) + 1 /\ akKeys[k].active
    BY DEF AkIInv, AkTypes, AkRotate
  <1>2. r \in AkKey /\ r.scopes = akKeys[k].scopes /\ r.active
    BY <1>1, AkAssumption DEF AkRecord, AkKey
  <1>3. akKeys' = Append(q, r) /\ akChain' = Append(akChain, c) /\ akLast' = AkNone /\ UNCHANGED <<akNow, akGrants, akDenied>>
    BY DEF AkRotate
  <1>4. /\ q \in Seq(AkKey) /\ DOMAIN q = DOMAIN akKeys /\ Len(q) = Len(akKeys) /\ ~q[k].active
        /\ \A i \in DOMAIN akKeys : q[i].scopes = akKeys[i].scopes /\ (q[i].active => akKeys[i].active)
    <2>1. q = [akKeys EXCEPT ![k].active = FALSE]
      BY DEF AkRetired
    <2> HIDE DEF q
    <2> QED BY ZenonT(40), <2>1, AkRetires
  <1>5. \A i \in DOMAIN akKeys : akChain[i] = c => q[i].scopes = r.scopes /\ ~q[i].active
    <2> SUFFICES ASSUME NEW i \in DOMAIN akKeys, akChain[i] = akChain[k] PROVE q[i].scopes = r.scopes /\ ~q[i].active
      OBVIOUS
    <2>1. akKeys[i].scopes = akKeys[k].scopes /\ (akKeys[i].active /\ akKeys[k].active => i = k)
      BY DEF AkIInv, AkOneOfChain
    <2> HIDE DEF q, r
    <2> QED BY <1>1, <1>2, <1>4, <2>1
  <1>6. r.scopes # {}
    BY <1>1, <1>2
  <1> HIDE DEF r, c, q
  <1>7. AkMayAdd(q, r, c)
    BY <1>1, <1>2, <1>4, <1>5, <1>6 DEF AkMayAdd
  <1> QED BY <1>3, <1>7, AkKeyAdded

\* A revocation retires a key.
LEMMA AkRevokeKeeps ==
  ASSUME AkIInv, NEW k \in DOMAIN akKeys, AkRevoke(k)
  PROVE  AkIInv'
  <1>1. akKeys' = [akKeys EXCEPT ![k].active = FALSE] /\ akLast' = AkNone /\ UNCHANGED <<akNow, akChain, akGrants, akDenied>>
    BY DEF AkRevoke
  <1>2. /\ akKeys' \in Seq(AkKey) /\ DOMAIN akKeys' = DOMAIN akKeys /\ Len(akKeys') = Len(akKeys)
        /\ \A i \in DOMAIN akKeys : akKeys'[i].scopes = akKeys[i].scopes /\ (akKeys'[i].active => akKeys[i].active)
    BY ZenonT(40), <1>1, AkRetires
  <1>3. AkTypes' /\ AkOneOfChain'
    BY SMTT(20), <1>1, <1>2 DEF AkIInv, AkTypes, AkOneOfChain
  <1>4. AkRightKey' /\ AkBounded'
    BY <1>1 DEF AkIInv, AkRightKey, AkNone, AkBounded
  <1> QED BY <1>3, <1>4 DEF AkIInv

\* An elevation is granted.
LEMMA AkRequestKeeps ==
  ASSUME AkIInv, NEW d \in AkMinutes, AkRequest(d)
  PROVE  AkIInv'
  <1> DEFINE x == [granted |-> akNow, exp |-> akNow + AkGranted(d), active |-> TRUE]
             m == Len(akGrants) + 1
  <1>1. akNow \in Nat /\ akGrants \in Seq(AkGrant)
    BY DEF AkIInv, AkTypes
  <1>2. AkGranted(d) \in Nat /\ AkGranted(d) <= AkMost
    BY AkAssumption DEF AkGranted
  <1>3. x \in AkGrant /\ x.exp <= x.granted + AkMost
    BY <1>1, <1>2, AkAssumption DEF AkGrant
  <1>4. akGrants' = Append(akGrants, x) /\ akLast' = AkNone /\ UNCHANGED <<akNow, akKeys, akChain, akDenied>>
    BY DEF AkRequest
  <1> HIDE DEF x
  <1>5. /\ akGrants' \in Seq(AkGrant) /\ DOMAIN akGrants' = DOMAIN akGrants \union {m} /\ m \notin DOMAIN akGrants
        /\ akGrants'[m] = x /\ \A g \in DOMAIN akGrants : akGrants'[g] = akGrants[g]
    BY <1>1, <1>3, <1>4, Appended
  <1> HIDE DEF m
  <1>6. AkTypes' /\ AkOneOfChain' /\ AkRightKey'
    BY <1>4, <1>5 DEF AkIInv, AkTypes, AkOneOfChain, AkRightKey, AkNone
  <1>7. AkBounded'
    BY <1>3, <1>4, <1>5 DEF AkIInv, AkTypes, AkBounded
  <1> QED BY <1>6, <1>7 DEF AkIInv

\* An elevation ends.
LEMMA AkEndKeeps ==
  ASSUME AkIInv, NEW g \in DOMAIN akGrants, AkVerifyElevation(g) \/ AkRevokeBreakGlass(g)
  PROVE  AkIInv'
  <1>1. /\ akGrants' = [akGrants EXCEPT ![g].active = FALSE] /\ akDenied' = akDenied \union {g}
        /\ akLast' = AkNone /\ UNCHANGED <<akNow, akKeys, akChain>>
    BY DEF AkVerifyElevation, AkRevokeBreakGlass
  <1>2. akGrants \in Seq(AkGrant) /\ \A i \in DOMAIN akGrants : akGrants[i] \in AkGrant
    BY DEF AkIInv, AkTypes
  <1>3. DOMAIN akGrants' = DOMAIN akGrants /\ \A i \in DOMAIN akGrants : akGrants'[i] = IF i = g THEN [akGrants[g] EXCEPT !.active = FALSE] ELSE akGrants[i]
    BY <1>1, <1>2
  <1> DEFINE x == [akGrants[g] EXCEPT !.active = FALSE]
  <1>4. x \in AkGrant /\ ~x.active /\ x.granted = akGrants[g].granted /\ x.exp = akGrants[g].exp
    BY <1>2 DEF AkGrant
  <1>5. akGrants' \in Seq(AkGrant)
    <2>1. DOMAIN akGrants = 1 .. Len(akGrants) /\ Len(akGrants) \in Nat
      BY <1>2
    <2>2. akGrants' \in [1 .. Len(akGrants) -> AkGrant]
      <3>1. akGrants' = [i \in 1 .. Len(akGrants) |-> akGrants'[i]]
        BY <1>1, <1>2, <2>1
      <3>2. \A i \in 1 .. Len(akGrants) : akGrants'[i] \in AkGrant
        BY <1>2, <1>3, <1>4, <2>1
      <3> QED BY <3>1, <3>2
    <2> QED BY <2>1, <2>2
  <1> HIDE DEF x
  <1>6. AkTypes' /\ AkOneOfChain' /\ AkRightKey'
    <2>1. akDenied' \subseteq DOMAIN akGrants'
      BY <1>1, <1>3 DEF AkIInv, AkTypes
    <2>2. AkTypes'
      BY <1>1, <1>5, <2>1 DEF AkIInv, AkTypes
    <2> QED BY <1>1, <2>2 DEF AkIInv, AkOneOfChain, AkRightKey, AkNone
  <1>7. AkBounded'
    <2> SUFFICES ASSUME NEW i \in DOMAIN akGrants
                 PROVE  akGrants'[i].exp <= akGrants'[i].granted + AkMost /\ (i \in akDenied' => ~akGrants'[i].active)
      BY <1>3 DEF AkBounded
    <2>1. CASE i = g
      BY <1>3, <1>4, <2>1 DEF AkIInv, AkBounded, x
    <2>2. CASE i # g
      BY <1>1, <1>3, <2>2 DEF AkIInv, AkBounded
    <2> QED BY <2>1, <2>2
  <1> QED BY <1>6, <1>7 DEF AkIInv

\* Every step of the key manager keeps its invariant.
LEMMA AkStep == AkIInv /\ [AkNext]_akVars => AkIInv'
  <1> SUFFICES ASSUME AkIInv, [AkNext]_akVars PROVE AkIInv'
    OBVIOUS
  <1>1. CASE AkTick \/ UNCHANGED akVars
    <2>1. akNow' \in Nat /\ UNCHANGED <<akKeys, akChain, akGrants, akDenied, akLast>>
      BY <1>1 DEF AkTick, akVars, AkIInv, AkTypes
    <2> QED BY <2>1 DEF AkIInv, AkTypes, AkOneOfChain, AkRightKey, AkBounded
  <1>2. ASSUME NEW k \in DOMAIN akKeys, NEW s, AkVerify(k, s) PROVE AkIInv'
    <2>1. PICK r \in AkCandidates(k) : AkMatches(k, r) /\ AkAllows(r, s) /\ akLast' = [key |-> k, scope |-> s, found |-> r]
      BY <1>2 DEF AkVerify
    <2>2. r = k /\ akKeys[k].active /\ UNCHANGED <<akNow, akKeys, akChain, akGrants, akDenied>>
      BY <1>2, <2>1 DEF AkVerify, AkMatches, AkCandidates
    <2>3. AkRightKey'
      BY <2>1, <2>2 DEF AkRightKey, AkAllows
    <2>4. AkTypes' /\ AkOneOfChain'
      BY SMTT(20), <2>2 DEF AkIInv, AkTypes, AkOneOfChain
    <2>5. AkBounded'
      BY <2>2 DEF AkIInv, AkBounded
    <2> QED BY <2>3, <2>4, <2>5 DEF AkIInv
  <1> QED BY <1>1, <1>2, AkCreateKeeps, AkRotateKeeps, AkRevokeKeeps, AkRequestKeeps, AkEndKeeps DEF AkNext

\* There are no keys at first, and the invariant implies the properties.
LEMMA AkFacts == (AkInit => AkIInv) /\ (AkIInv => AkOneOfChain /\ AkRightKey /\ AkElevationEnds)
  <1>1. AkInit => AkIInv
    BY DEF AkInit, AkIInv, AkTypes, AkOneOfChain, AkRightKey, AkBounded, AkNone
  <1>2. ASSUME AkIInv PROVE AkElevationEnds
    <2> SUFFICES ASSUME NEW g \in DOMAIN akGrants, AkElevated(g) PROVE akNow <= akGrants[g].granted + AkMost /\ g \notin akDenied
      BY DEF AkElevationEnds
    <2>1. akGrants[g] \in AkGrant /\ akNow \in Nat
      BY <1>2 DEF AkIInv, AkTypes
    <2>2. akGrants[g].exp \in Nat /\ akGrants[g].granted \in Nat
      BY <2>1 DEF AkGrant
    <2> QED BY <1>2, <2>1, <2>2, AkAssumption DEF AkIInv, AkBounded, AkElevated
  <1> QED BY <1>1, <1>2 DEF AkIInv

-----------------------------------------------------------------------------
(* The gate in front of tools, and second factors *)

TgGateTypes ==
    /\ tgCount \in Nat /\ tgSame \in [call : TgCalls \union {"none"}, count : Nat]
    /\ tgPassed \in Seq(TgCalls) /\ Len(tgPassed) <= tgCount /\ Len(tgPassed) <= TgMaxCalls

\* The run of identical calls at the end is counted.
TgRunCounted ==
    /\ TgMaxSame = 1 => tgPassed = <<>>
    /\ tgPassed # <<>> => tgSame.call = tgPassed[Len(tgPassed)]
    /\ \A i \in 1 .. Len(tgPassed) : (\A j \in i .. Len(tgPassed) : tgPassed[j] = tgPassed[Len(tgPassed)]) =>
          Len(tgPassed) - i + 1 <= tgSame.count

TgGateInv == TgGateTypes /\ TgRunCounted /\ TgNoRunaway /\ TgApprovedRightly /\ (tgMode = "off" => tgApproved.level = "none")

\* A code that was taken is remembered or too old.
TgCodesInv ==
    /\ tgStep \in Nat /\ tgUsed \subseteq Nat /\ tgTaken \in [0 .. TgMaxStep + TgWindow -> Nat]
    /\ \A s \in 0 .. TgMaxStep + TgWindow : tgTaken[s] = 0 \/ (tgTaken[s] = 1 /\ (s \in tgUsed \/ s + TgWindow < tgStep))

\* A challenge in force was not used, and the counter is that of the last assertion.
TgAssertInv ==
    /\ tgIssued \in Nat /\ tgChallenges \subseteq 1 .. tgIssued /\ tgSignCount \in Nat
    /\ tgAsserted \in Seq([challenge : Nat, count : Nat])
    /\ \A i \in DOMAIN tgAsserted : tgAsserted[i].challenge <= tgIssued /\ tgAsserted[i].challenge \notin tgChallenges
    /\ tgAsserted # <<>> => tgSignCount = tgAsserted[Len(tgAsserted)].count
    /\ TgAssertedOnce

TgIInv == TgGateInv /\ TgCodesInv /\ TgAssertInv

\* A call passes the guard.
LEMMA TgPassKeeps ==
  ASSUME TgGateTypes, TgRunCounted, TgNoRunaway, NEW call \in TgCalls, TgRecord(call), ~TgRunaway(call)
  PROVE  TgGateTypes' /\ TgRunCounted' /\ TgNoRunaway'
  <1> DEFINE n == Len(tgPassed)
             m == n + 1
             t == IF tgSame.call = call THEN tgSame.count + 1 ELSE 1
  <1>1. tgPassed \in Seq(TgCalls) /\ n \in Nat /\ DOMAIN tgPassed = 1 .. n /\ tgCount \in Nat /\ n <= tgCount
        /\ tgSame.count \in Nat /\ tgSame.call \in TgCalls \union {"none"}
    BY DEF TgGateTypes
  <1>2. TgMaxSame \in Nat /\ TgMaxSame >= 1 /\ TgMaxCalls \in Nat
    BY TgAssumption
  <1>3. ~(tgCount + 1 > TgMaxCalls) /\ ~(t >= TgMaxSame) /\ tgSame' = [call |-> call, count |-> t]
        /\ tgPassed' = Append(tgPassed, call) /\ tgCount' = tgCount + 1
    BY Zenon DEF TgRecord, TgRunaway, TgTooMany, TgConsecutive
  <1>4. t \in Nat /\ t >= 1 /\ t < TgMaxSame
    BY <1>1, <1>2, <1>3
  <1>5. tgPassed' \in Seq(TgCalls) /\ Len(tgPassed') = m /\ tgPassed'[m] = call /\ \A i \in 1 .. n : tgPassed'[i] = tgPassed[i]
    BY <1>1, <1>3
  <1>t. tgSame.call = call => t = tgSame.count + 1
    OBVIOUS
  <1>u. tgSame'.call = call /\ tgSame'.count = t
    BY <1>3
  <1> HIDE DEF n, m, t
  <1>6. m = n + 1
    BY DEF m
  <1>7. TgGateTypes'
    <2>1. m <= tgCount' /\ m <= TgMaxCalls /\ tgCount' \in Nat
      BY <1>1, <1>2, <1>3, <1>6
    <2>2. tgSame' \in [call : TgCalls \union {"none"}, count : Nat]
      BY <1>3, <1>4
    <2> QED BY <1>5, <2>1, <2>2 DEF TgGateTypes
  <1>8. TgRunCounted'
    <2>1. TgMaxSame # 1
      BY <1>2, <1>4
    <2>2. ASSUME NEW i \in 1 .. m, \A j \in i .. m : tgPassed'[j] = tgPassed'[m] PROVE m - i + 1 <= t
      <3>1. CASE i = m
        BY <1>1, <1>4, <1>6, <3>1
      <3>2. CASE i # m
        <4>1. i \in 1 .. n /\ n \in 1 .. n /\ n \in i .. m /\ n >= 1
          BY <1>1, <1>6, <3>2
        <4>2. tgPassed[n] = call
          BY <1>5, <2>2, <4>1
        <4>3. \A j \in i .. n : tgPassed[j] = tgPassed[n]
          <5> TAKE j \in i .. n
          <5>1. j \in i .. m /\ j \in 1 .. n
            BY <1>1, <1>6, <4>1
          <5> QED BY <1>5, <2>2, <4>2, <5>1
        <4>4. tgPassed # <<>>
          BY <1>1, <4>1 DEF n
        <4>5. tgSame.call = call
          BY <4>2, <4>4 DEF TgRunCounted, n
        <4>6. n - i + 1 <= tgSame.count
          BY <4>1, <4>3 DEF TgRunCounted, n
        <4> QED BY <1>1, <1>4, <1>6, <1>t, <4>1, <4>5, <4>6
      <3> QED BY <3>1, <3>2
    <2> QED BY <1>5, <1>u, <2>1, <2>2 DEF TgRunCounted
  <1>9. TgNoRunaway'
    <2>1. m <= TgMaxCalls
      BY <1>1, <1>2, <1>3, <1>6
    <2>2. ASSUME NEW i \in 1 .. m - TgMaxSame + 1 PROVE \E j \in i .. i + TgMaxSame - 1 : tgPassed'[j] # tgPassed'[i]
      <3>1. CASE i \in 1 .. n - TgMaxSame + 1
        <4>1. PICK j \in i .. i + TgMaxSame - 1 : tgPassed[j] # tgPassed[i]
          BY <3>1 DEF TgNoRunaway, n
        <4>2. j \in 1 .. n /\ i \in 1 .. n
          BY <1>1, <1>2, <3>1
        <4> QED BY <1>5, <4>1, <4>2
      <3>2. CASE i = m - TgMaxSame + 1
        <4> SUFFICES ASSUME \A j \in i .. i + TgMaxSame - 1 : tgPassed'[j] = tgPassed'[i] PROVE FALSE
          OBVIOUS
        <4>1. i + TgMaxSame - 1 = m /\ m \in i .. m /\ i \in 1 .. m
          BY <1>1, <1>2, <1>6, <3>2
        <4>2. tgPassed'[m] = tgPassed'[i] /\ \A j \in i .. m : tgPassed'[j] = tgPassed'[i]
          BY <4>1
        <4>3. \A j \in i .. m : tgPassed'[j] = tgPassed'[m]
          BY <4>2
        <4>4. m - i + 1 <= t
          BY <1>5, <1>8, <1>u, <4>1, <4>3 DEF TgRunCounted
        <4> QED BY <1>1, <1>2, <1>4, <1>6, <3>2, <4>4
      <3>3. i \in 1 .. n - TgMaxSame + 1 \/ i = m - TgMaxSame + 1
        BY <1>1, <1>2, <1>6
      <3> QED BY <3>1, <3>2, <3>3
    <2> QED BY <1>5, <2>1, <2>2 DEF TgNoRunaway
  <1> QED BY <1>7, <1>8, <1>9

\* A call is stopped by the guard.
LEMMA TgStopKeeps ==
  ASSUME TgGateTypes, TgRunCounted, TgNoRunaway, NEW call \in TgCalls, TgRecord(call), TgRunaway(call)
  PROVE  TgGateTypes' /\ TgRunCounted' /\ TgNoRunaway'
  <1> DEFINE t == IF tgSame.call = call THEN tgSame.count + 1 ELSE 1
  <1>1. tgCount \in Nat /\ tgSame.count \in Nat /\ tgPassed \in Seq(TgCalls) /\ Len(tgPassed) \in Nat /\ TgMaxSame \in Nat /\ TgMaxSame >= 1
    BY TgAssumption DEF TgGateTypes
  <1>2. tgPassed' = tgPassed /\ tgCount' = tgCount + 1
    BY DEF TgRecord
  <1>3. TgNoRunaway'
    BY <1>2 DEF TgNoRunaway
  <1>4. CASE TgTooMany
    <2>1. tgSame' = tgSame
      BY <1>4 DEF TgRecord
    <2>2. TgGateTypes'
      BY <1>1, <1>2, <2>1 DEF TgGateTypes
    <2>3. TgRunCounted'
      BY <1>2, <2>1 DEF TgRunCounted
    <2> QED BY <1>3, <2>2, <2>3
  <1>5. CASE ~TgTooMany
    <2>1. tgSame' = [call |-> call, count |-> t] /\ t >= TgMaxSame
      BY <1>5, Zenon DEF TgRecord, TgConsecutive, TgRunaway
    <2>2. t \in Nat /\ (tgSame.call = call => t >= tgSame.count)
      BY <1>1
    <2>3. tgSame.call # call => TgMaxSame = 1
      BY <1>1, <2>1
    <2>s. tgSame'.call = call /\ tgSame'.count = t /\ tgSame' \in [call : TgCalls \union {"none"}, count : Nat]
      BY <2>1, <2>2
    <2> HIDE DEF t
    <2>4. TgGateTypes'
      BY <1>1, <1>2, <2>s DEF TgGateTypes
    <2>5. TgRunCounted'
      <3>1. CASE tgSame.call # call
        <4>1. tgPassed = <<>>
          BY <2>3, <3>1 DEF TgRunCounted
        <4> QED BY <1>2, <4>1 DEF TgRunCounted
      <3>2. CASE tgSame.call = call
        BY <1>1, <1>2, <2>2, <2>s, <3>2 DEF TgRunCounted
      <3> QED BY <3>1, <3>2
    <2> QED BY <1>3, <2>4, <2>5
  <1> QED BY <1>4, <1>5

\* A call is evaluated.
LEMMA TgEvaluateKeeps ==
  ASSUME TgGateInv, NEW call \in TgCalls, NEW level \in TgLevels, NEW bypass \in BOOLEAN, TgEvaluate(call, level, bypass)
  PROVE  TgGateInv'
  <1>1. TgRecord(call) /\ tgMode = "tools" /\ UNCHANGED <<tgMode, tgList>>
    BY DEF TgEvaluate
  <1>2. TgGateTypes' /\ TgRunCounted' /\ TgNoRunaway'
    BY <1>1, TgPassKeeps, TgStopKeeps DEF TgGateInv
  <1>3. TgApprovedRightly'
    <2> DEFINE asked == ~TgRunaway(call) /\ ~TgRejected
    <2>1. tgApproved' = IF asked /\ ~TgNeedsHuman(level, bypass) THEN [level |-> level, bypass |-> bypass] ELSE [level |-> "none", bypass |-> FALSE]
      BY DEF TgEvaluate
    <2>2. CASE asked /\ ~TgNeedsHuman(level, bypass)
      <3>1. tgApproved'.level = level /\ tgApproved'.bypass = bypass
        BY <2>1, <2>2
      <3>2. tgList \notin {"denied", "other"} /\ (level \in TgByHuman => bypass)
        BY <2>2 DEF TgRejected, TgNeedsHuman
      <3> QED BY <1>1, <3>1, <3>2 DEF TgApprovedRightly
    <2>3. CASE ~(asked /\ ~TgNeedsHuman(level, bypass))
      BY <2>1, <2>3 DEF TgApprovedRightly
    <2> QED BY <2>2, <2>3
  <1> QED BY <1>1, <1>2, <1>3 DEF TgGateInv

\* The code of a step is accepted.
LEMMA TgTotpKeeps ==
  ASSUME TgCodesInv, NEW s \in 0 .. TgMaxStep + TgWindow, TgVerifyTotp(s)
  PROVE  TgCodesInv'
  <1>1. /\ s + TgWindow >= tgStep /\ s \notin tgUsed /\ tgUsed' = {u \in tgUsed : u + TgKeepSteps >= tgStep} \union {s}
        /\ tgTaken' = [tgTaken EXCEPT ![s] = @ + 1] /\ tgStep' = tgStep
    BY DEF TgVerifyTotp, TgKept
  <1>2. tgStep \in Nat /\ tgUsed \subseteq Nat /\ tgTaken \in [0 .. TgMaxStep + TgWindow -> Nat] /\ s \in Nat
        /\ TgWindow \in Nat /\ TgKeepSteps \in Nat /\ TgWindow <= TgKeepSteps
    BY TgAssumption DEF TgCodesInv
  <1>3. tgTaken[s] = 0
    <2>1. ~(s + TgWindow < tgStep)
      BY <1>1, <1>2
    <2> QED BY <1>1, <2>1 DEF TgCodesInv
  <1>a. tgUsed' \subseteq Nat
    BY <1>1, <1>2
  <1>b. \A f \in [0 .. TgMaxStep + TgWindow -> Nat] :
            /\ [f EXCEPT ![s] = @ + 1] \in [0 .. TgMaxStep + TgWindow -> Nat] /\ [f EXCEPT ![s] = @ + 1][s] = f[s] + 1
            /\ \A u \in 0 .. TgMaxStep + TgWindow : u # s => [f EXCEPT ![s] = @ + 1][u] = f[u]
    OBVIOUS
  <1>c. /\ tgTaken' \in [0 .. TgMaxStep + TgWindow -> Nat] /\ tgTaken'[s] = tgTaken[s] + 1
        /\ \A u \in 0 .. TgMaxStep + TgWindow : u # s => tgTaken'[u] = tgTaken[u]
    BY <1>1, <1>2, <1>b
  <1>4. tgUsed' \subseteq Nat /\ tgTaken' \in [0 .. TgMaxStep + TgWindow -> Nat] /\ tgTaken'[s] = 1
        /\ \A u \in 0 .. TgMaxStep + TgWindow : u # s => tgTaken'[u] = tgTaken[u]
    BY <1>3, <1>a, <1>c
  <1>5. ASSUME NEW u \in 0 .. TgMaxStep + TgWindow, u # s, tgTaken[u] # 0 PROVE tgTaken[u] = 1 /\ (u \in tgUsed' \/ u + TgWindow < tgStep)
    <2>1. tgTaken[u] = 1 /\ (u \in tgUsed \/ u + TgWindow < tgStep)
      BY <1>5 DEF TgCodesInv
    <2>2. u \in Nat /\ (u + TgKeepSteps >= tgStep \/ u + TgWindow < tgStep)
      BY <1>2, TgAssumption
    <2> QED BY <1>1, <2>1, <2>2
  <1> QED BY <1>1, <1>2, <1>4, <1>5 DEF TgCodesInv

\* An assertion is accepted.
LEMMA TgAssertKeeps ==
  ASSUME TgAssertInv, NEW ch, NEW count \in 0 .. TgMaxCount, NEW good, TgAssert(ch, count, good)
  PROVE  TgAssertInv'
  <1> DEFINE R == [challenge : Nat, count : Nat]
             n == Len(tgAsserted)
             m == n + 1
             x == [challenge |-> ch, count |-> count]
  <1>1. ch \in tgChallenges /\ tgChallenges' = tgChallenges \ {ch} /\ UNCHANGED tgIssued
    BY DEF TgAssert, TgUsedUp
  <1>a. tgAsserted \in Seq(R) /\ tgIssued \in Nat /\ ch \in 1 .. tgIssued /\ tgSignCount \in Nat
    BY <1>1 DEF TgAssertInv
  <1>r. \A x_1 \in R : x_1.challenge \in Nat /\ x_1.count \in Nat
    OBVIOUS
  <1> HIDE DEF R
  <1>b. n \in Nat /\ DOMAIN tgAsserted = 1 .. n /\ \A i \in 1 .. n : tgAsserted[i] \in R
    BY <1>a
  <1>2. tgAsserted \in Seq(R) /\ n \in Nat /\ DOMAIN tgAsserted = 1 .. n /\ tgIssued \in Nat /\ ch \in 1 .. tgIssued /\ tgSignCount \in Nat
        /\ \A i \in 1 .. n : tgAsserted[i] \in R /\ tgAsserted[i].challenge \in Nat /\ tgAsserted[i].count \in Nat
    BY <1>a, <1>b, <1>r
  <1>3. CASE UNCHANGED <<tgSignCount, tgAsserted>>
    <2>1. TgAssertedOnce'
      BY <1>3 DEF TgAssertInv, TgAssertedOnce
    <2> QED BY <1>1, <1>3, <2>1 DEF TgAssertInv, R
  <1>4. CASE TgCounts(count) /\ tgSignCount' = count /\ tgAsserted' = Append(tgAsserted, x)
    <2>1. count \in Nat /\ x \in R /\ x.challenge = ch /\ x.count = count /\ (count = 0 \/ count > tgSignCount)
      BY <1>2, <1>4, TgAssumption DEF TgCounts, R
    <2> HIDE DEF x
    <2>2. /\ tgAsserted' \in Seq(R) /\ Len(tgAsserted') = m /\ DOMAIN tgAsserted' = DOMAIN tgAsserted \union {m} /\ m \notin DOMAIN tgAsserted
          /\ tgAsserted'[m] = x /\ \A i \in DOMAIN tgAsserted : tgAsserted'[i] = tgAsserted[i] /\ i < m
      BY <1>2, <1>4, <2>1, Appended
    <2>m. m = n + 1
      OBVIOUS
    <2> HIDE DEF n, m
    <2>3. \A i \in DOMAIN tgAsserted' : tgAsserted'[i].challenge <= tgIssued /\ tgAsserted'[i].challenge \notin tgChallenges'
      <3>1. \A i \in DOMAIN tgAsserted : tgAsserted[i].challenge <= tgIssued /\ tgAsserted[i].challenge \notin tgChallenges
        BY DEF TgAssertInv
      <3> QED BY <1>1, <1>2, <2>1, <2>2, <3>1
    <2>4. TgAssertedOnce'
      <3> SUFFICES ASSUME NEW i \in DOMAIN tgAsserted', NEW j \in DOMAIN tgAsserted', i < j
                   PROVE  /\ tgAsserted'[i].challenge # tgAsserted'[j].challenge
                          /\ j = i + 1 => tgAsserted'[j].count = 0 \/ tgAsserted'[j].count > tgAsserted'[i].count
        BY DEF TgAssertedOnce
      <3>1. i \in 1 .. n
        BY <1>2, <2>2, <2>m
      <3>2. CASE j = m
        <4>1. tgAsserted[i].challenge \notin tgChallenges
          BY <1>2, <3>1 DEF TgAssertInv
        <4>2. tgAsserted'[i].challenge # tgAsserted'[j].challenge
          BY <1>1, <1>2, <2>1, <2>2, <3>1, <3>2, <4>1
        <4>3. ASSUME j = i + 1 PROVE tgAsserted'[j].count = 0 \/ tgAsserted'[j].count > tgAsserted'[i].count
          <5>1. i = n
            BY <1>2, <2>m, <3>1, <3>2, <4>3
          <5>2. tgAsserted # <<>>
            BY <1>2, <3>1
          <5>3. tgSignCount = tgAsserted[i].count
            BY <5>1, <5>2 DEF TgAssertInv, n
          <5> QED BY <1>2, <2>1, <2>2, <3>1, <3>2, <5>3
        <4> QED BY <4>2, <4>3
      <3>3. CASE j # m
        <4>1. j \in DOMAIN tgAsserted /\ i \in DOMAIN tgAsserted
          BY <1>2, <2>2, <3>1, <3>3
        <4> QED BY <2>2, <4>1 DEF TgAssertInv, TgAssertedOnce
      <3> QED BY <3>2, <3>3
    <2>5. tgSignCount' = tgAsserted'[Len(tgAsserted')].count /\ tgSignCount' \in Nat
      BY <1>4, <2>1, <2>2
    <2> QED BY <1>1, <2>2, <2>3, <2>4, <2>5 DEF TgAssertInv, R
  <1> QED BY <1>3, <1>4 DEF TgAssert

\* Every step of the gate keeps its invariant.
LEMMA TgStep == TgIInv /\ [TgNext]_tgVars => TgIInv'
  <1> SUFFICES ASSUME TgIInv, [TgNext]_tgVars PROVE TgIInv'
    OBVIOUS
  <1>0. TgGateInv /\ TgCodesInv /\ TgAssertInv
    BY DEF TgIInv
  <1>a. ASSUME UNCHANGED <<tgMode, tgList, tgCount, tgSame, tgPassed, tgApproved>> PROVE TgGateInv'
    BY <1>0, <1>a DEF TgGateInv, TgGateTypes, TgRunCounted, TgNoRunaway, TgApprovedRightly
  <1>b. ASSUME UNCHANGED <<tgStep, tgUsed, tgTaken>> PROVE TgCodesInv'
    BY <1>0, <1>b DEF TgCodesInv
  <1>c. ASSUME UNCHANGED <<tgChallenges, tgIssued, tgSignCount, tgAsserted>> PROVE TgAssertInv'
    BY <1>0, <1>c DEF TgAssertInv, TgAssertedOnce
  <1>1. CASE TgStart
    <2>1. tgMode = "off" /\ tgMode' # "off" /\ UNCHANGED <<tgCount, tgSame, tgPassed, tgApproved, tgFactors>>
      BY <1>1 DEF TgStart
    <2>2. TgGateInv'
      BY <1>0, <2>1 DEF TgGateInv, TgGateTypes, TgRunCounted, TgNoRunaway, TgApprovedRightly
    <2> QED BY <1>b, <1>c, <2>1, <2>2 DEF TgIInv, tgFactors
  <1>2. CASE TgResetTurn
    <2>1. tgCount' = 0 /\ tgSame' = [call |-> "none", count |-> 0] /\ tgPassed' = <<>> /\ UNCHANGED <<tgMode, tgList, tgApproved, tgFactors>>
      BY <1>2 DEF TgResetTurn
    <2>2. TgGateTypes' /\ TgRunCounted' /\ TgNoRunaway'
      BY <2>1, TgAssumption DEF TgGateTypes, TgRunCounted, TgNoRunaway
    <2>3. TgGateInv'
      BY <1>0, <2>1, <2>2 DEF TgGateInv, TgApprovedRightly
    <2> QED BY <1>b, <1>c, <2>1, <2>3 DEF TgIInv, tgFactors
  <1>3. CASE TgTick
    <2>1. tgStep' = tgStep + 1 /\ UNCHANGED <<tgMode, tgTools, tgUsed, tgTaken, tgChallenges, tgIssued, tgSignCount, tgAsserted>>
      BY <1>3 DEF TgTick
    <2>2. TgCodesInv'
      BY <1>0, <2>1, TgAssumption DEF TgCodesInv
    <2> QED BY <1>a, <1>c, <2>1, <2>2 DEF TgIInv, tgTools
  <1>4. CASE TgChallenge
    <2>1. tgIssued' = tgIssued + 1 /\ tgChallenges' = tgChallenges \union {tgIssued + 1}
          /\ UNCHANGED <<tgMode, tgTools, tgStep, tgUsed, tgTaken, tgSignCount, tgAsserted>>
      BY <1>4 DEF TgChallenge
    <2>2. TgAssertInv'
      <3>a. tgAsserted \in Seq([challenge : Nat, count : Nat])
        BY <1>0 DEF TgAssertInv
      <3>b. \A i \in DOMAIN tgAsserted : tgAsserted[i] \in [challenge : Nat, count : Nat]
        BY <3>a, SeqFacts, Zenon
      <3>1. tgIssued \in Nat /\ \A i \in DOMAIN tgAsserted : tgAsserted[i].challenge \in Nat /\ tgAsserted[i].challenge <= tgIssued
        BY <1>0, <3>b DEF TgAssertInv
      <3>2. \A i \in DOMAIN tgAsserted' : tgAsserted'[i].challenge <= tgIssued' /\ tgAsserted'[i].challenge \notin tgChallenges'
        BY <1>0, <2>1, <3>1 DEF TgAssertInv
      <3>3. tgChallenges' \subseteq 1 .. tgIssued'
        BY <1>0, <2>1, <3>1 DEF TgAssertInv
      <3>4. TgAssertedOnce'
        BY <1>0, <2>1 DEF TgAssertInv, TgAssertedOnce
      <3> QED BY <1>0, <2>1, <3>1, <3>2, <3>3, <3>4 DEF TgAssertInv
    <2> QED BY <1>a, <1>b, <2>1, <2>2 DEF TgIInv, tgTools
  <1>5. ASSUME NEW call \in TgCalls, NEW level \in TgLevels, NEW bypass \in BOOLEAN, TgEvaluate(call, level, bypass) PROVE TgIInv'
    <2>1. UNCHANGED tgFactors /\ TgGateInv'
      BY <1>0, <1>5, TgEvaluateKeeps DEF TgEvaluate
    <2> QED BY <1>b, <1>c, <2>1 DEF TgIInv, tgFactors
  <1>6. ASSUME NEW t \in DOMAIN tgTickets, NEW approved \in BOOLEAN, TgResolve(t, approved) PROVE TgIInv'
    <2>1. UNCHANGED <<tgMode, tgList, tgCount, tgSame, tgPassed, tgApproved, tgFactors>>
      BY <1>6 DEF TgResolve
    <2> QED BY <1>a, <1>b, <1>c, <2>1 DEF TgIInv, tgFactors
  <1>7. ASSUME NEW s \in 0 .. TgMaxStep + TgWindow, TgVerifyTotp(s) PROVE TgIInv'
    <2>1. UNCHANGED <<tgMode, tgTools, tgChallenges, tgIssued, tgSignCount, tgAsserted>> /\ TgCodesInv'
      BY <1>0, <1>7, TgTotpKeeps DEF TgVerifyTotp
    <2> QED BY <1>a, <1>c, <2>1 DEF TgIInv, tgTools
  <1>8. ASSUME NEW ch \in 1 .. 2, NEW count \in 0 .. TgMaxCount, NEW good \in BOOLEAN, TgAssert(ch, count, good) PROVE TgIInv'
    <2>1. UNCHANGED <<tgMode, tgTools, tgStep, tgUsed, tgTaken>> /\ TgAssertInv'
      BY <1>0, <1>8, TgAssertKeeps DEF TgAssert
    <2> QED BY <1>a, <1>b, <2>1 DEF TgIInv, tgTools
  <1>9. CASE UNCHANGED tgVars
    BY <1>9, <1>a, <1>b, <1>c DEF tgVars, TgIInv
  <1> QED BY <1>1, <1>2, <1>3, <1>4, <1>5, <1>6, <1>7, <1>8, <1>9 DEF TgNext

\* The gate starts with nothing, and the invariant implies the properties.
LEMMA TgFacts == (TgInit => TgIInv) /\ (TgIInv => TgNoRunaway /\ TgApprovedRightly /\ TgCodeOnce /\ TgAssertedOnce)
  <1>1. ASSUME TgInit PROVE TgIInv
    <2>1. tgPassed = <<>> /\ tgCount = 0 /\ tgSame = [call |-> "none", count |-> 0] /\ tgApproved.level = "none"
      BY <1>1 DEF TgInit
    <2>2. TgGateTypes /\ TgRunCounted /\ TgNoRunaway
      BY <2>1, TgAssumption DEF TgGateTypes, TgRunCounted, TgNoRunaway
    <2>3. TgGateInv
      BY <2>1, <2>2 DEF TgGateInv, TgApprovedRightly
    <2>4. TgCodesInv
      BY <1>1 DEF TgInit, TgCodesInv
    <2>5. TgAssertInv
      BY <1>1 DEF TgInit, TgAssertInv, TgAssertedOnce
    <2> QED BY <2>3, <2>4, <2>5 DEF TgIInv
  <1>2. ASSUME TgIInv PROVE TgCodeOnce
    BY <1>2 DEF TgIInv, TgCodesInv, TgCodeOnce
  <1> QED BY <1>1, <1>2 DEF TgIInv, TgGateInv, TgAssertInv

-----------------------------------------------------------------------------
(* The rule engines and the egress firewall *)

PrEnforcements == {"deny", "require_approval", "warn"}
PrIds == {"root_exec", "cost_limit", "prod_deploy", "phi_block", "health_export", "prod_mutation", "iam", "cross_border", "pii", "zero_egress", "own"}
PrActions == {"bash", "deploy", "export", "grant", "store"}
PrTokens == {PrNone, "sudo", "production", "ssn", "ephi", "drop", "admin", "region", "passport", "http"}
PrPolicyRecord == [id : PrIds, actions : SUBSET PrActions, token : PrTokens, limit : Nat, enforcement : PrEnforcements]

\* What the pass of evaluate makes of a policy.
PrPass(p, action, token, cost, final) == IF PrTriggered(p, action, token, cost) THEN PrStronger(final, p.enforcement) ELSE final

\* The pass is defined: there is a function that follows the policies one by one.
LEMMA PrPassExists ==
  ASSUME NEW policies, Len(policies) \in Nat, NEW action, NEW token, NEW cost
  PROVE  \E f : f = [n \in 0 .. Len(policies) |-> IF n = 0 THEN "allow" ELSE PrPass(policies[n], action, token, cost, f[n - 1])]
  <1> DEFINE St(n, x) == PrPass(policies[n], action, token, cost, x)
             Ok(k) == \E f : f = [n \in 0 .. k |-> IF n = 0 THEN "allow" ELSE St(n, f[n - 1])]
             T == {k \in 0 .. Len(policies) : ~Ok(k)}
  <1> HIDE DEF St
  <1>1. Ok(0)
    <2> DEFINE f == [n \in 0 .. 0 |-> "allow"]
    <2>1. f = [n \in 0 .. 0 |-> IF n = 0 THEN "allow" ELSE St(n, f[n - 1])]
      OBVIOUS
    <2> QED BY <2>1
  <1>2. ASSUME NEW k \in Nat, Ok(k) PROVE Ok(k + 1)
    <2>1. PICK g : g = [n \in 0 .. k |-> IF n = 0 THEN "allow" ELSE St(n, g[n - 1])]
      BY <1>2
    <2> DEFINE f == [n \in 0 .. k + 1 |-> IF n = k + 1 THEN St(n, g[k]) ELSE g[n]]
               h == [n \in 0 .. k + 1 |-> IF n = 0 THEN "allow" ELSE St(n, f[n - 1])]
    <2>2. \A n \in 0 .. k : f[n] = g[n]
      BY <1>2
    <2>3. ASSUME NEW n \in 0 .. k + 1 PROVE f[n] = h[n]
      <3>1. CASE n = 0
        <4>1. g[0] = "allow" /\ f[0] = g[0] /\ 0 \in 0 .. k
          BY <2>1, <2>2
        <4> QED BY <3>1, <4>1
      <3>2. CASE n \in 1 .. k
        <4>1. n - 1 \in 0 .. k /\ n \in 0 .. k /\ n # 0
          BY <3>2
        <4>2. f[n] = g[n] /\ f[n - 1] = g[n - 1]
          BY <2>2, <4>1
        <4>3. g[n] = St(n, g[n - 1])
          BY <2>1, <4>1
        <4>4. h[n] = St(n, f[n - 1])
          BY <2>3, <4>1
        <4> QED BY <4>2, <4>3, <4>4
      <3>3. CASE n = k + 1
        <4>1. n - 1 = k /\ k \in 0 .. k /\ n # 0
          BY <3>3
        <4>2. f[n] = St(n, g[k])
          BY <2>3, <3>3
        <4>3. h[n] = St(n, f[k])
          BY <2>3, <4>1
        <4> QED BY <2>2, <4>1, <4>2, <4>3
      <3> QED BY <2>3, <3>1, <3>2, <3>3
    <2>4. DOMAIN f = 0 .. k + 1 /\ DOMAIN h = 0 .. k + 1 /\ f = [n \in 0 .. k + 1 |-> f[n]] /\ h = [n \in 0 .. k + 1 |-> h[n]]
      OBVIOUS
    <2>5. f = h
      <3> HIDE DEF f, h
      <3> QED BY <2>3, <2>4
    <2> QED BY <2>5
  <1>3. T = {}
    <2> SUFFICES ASSUME T # {} PROVE FALSE
      OBVIOUS
    <2> HIDE DEF Ok
    <2>1. T \in SUBSET Nat
      OBVIOUS
    <2>2. PICK t \in T : \A u \in T : t <= u
      BY <2>1, LeastNumber
    <2>3. t # 0 /\ t \in 0 .. Len(policies) /\ ~Ok(t)
      BY <1>1
    <2>4. t - 1 \in Nat /\ t - 1 \in 0 .. Len(policies) /\ ~(t <= t - 1) /\ (t - 1) + 1 = t
      BY <2>3
    <2>5. t - 1 \notin T
      BY <2>2, <2>4
    <2>6. Ok(t - 1)
      BY <2>4, <2>5
    <2>7. Ok((t - 1) + 1)
      BY <1>2, <2>4, <2>6
    <2> QED BY <2>3, <2>4, <2>7
  <1>4. Ok(Len(policies))
    <2> HIDE DEF Ok
    <2> QED BY <1>3
  <1> QED BY <1>4 DEF St

\* What the pass has found after the first n policies.
PrFoundOf(policies, action, token, cost, n, found) ==
    /\ found \in PrEnforcements \union {"allow"}
    /\ (\A i \in 1 .. n : ~PrTriggered(policies[i], action, token, cost)) => found = "allow"
    /\ \A i \in 1 .. n : PrTriggered(policies[i], action, token, cost) => PrStrength(found) >= PrStrength(policies[i].enforcement)
    /\ found # "allow" => \E i \in 1 .. n : PrTriggered(policies[i], action, token, cost) /\ policies[i].enforcement = found

\* One policy more: the stronger of what was found and of what it enforces.
LEMMA PrPassStep ==
  ASSUME NEW policies, NEW action, NEW token, NEW cost, NEW n \in Nat, NEW found, PrFoundOf(policies, action, token, cost, n, found),
         policies[n + 1].enforcement \in PrEnforcements
  PROVE  PrFoundOf(policies, action, token, cost, n + 1, PrPass(policies[n + 1], action, token, cost, found))
  <1> DEFINE Hit(i) == PrTriggered(policies[i], action, token, cost)
             E(i) == policies[i].enforcement
             m == n + 1
             new == PrPass(policies[m], action, token, cost, found)
  <1>1. /\ found \in PrEnforcements \union {"allow"} /\ E(m) \in PrEnforcements
        /\ (\A i \in 1 .. n : ~Hit(i)) => found = "allow"
        /\ \A i \in 1 .. n : Hit(i) => PrStrength(found) >= PrStrength(E(i))
        /\ found # "allow" => \E i \in 1 .. n : Hit(i) /\ E(i) = found
    BY DEF PrFoundOf
  <1>2. new = IF Hit(m) THEN PrStronger(found, E(m)) ELSE found
    BY DEF PrPass
  <1>3. m \in 1 .. m /\ \A i \in 1 .. m : i = m \/ i \in 1 .. n
    OBVIOUS
  <1>n. \A i \in 1 .. n : i \in 1 .. m
    OBVIOUS
  <1>s. PrStrength("deny") = 3 /\ PrStrength("require_approval") = 2 /\ PrStrength("warn") = 1 /\ PrStrength("allow") = 0
    BY DEF PrStrength
  <1>t. \A e : PrStrength(e) \in 0 .. 3
    BY DEF PrStrength
  <1>4. ASSUME NEW a \in PrEnforcements \union {"allow"}, NEW b \in PrEnforcements
        PROVE  /\ PrStronger(a, b) \in {a, b} /\ PrStronger(a, b) # "allow"
               /\ PrStrength(PrStronger(a, b)) >= PrStrength(a) /\ PrStrength(PrStronger(a, b)) >= PrStrength(b)
    <2>1. CASE b = "deny"
      BY <1>s, <1>t, <2>1 DEF PrStronger
    <2>2. CASE b = "require_approval"
      <3>1. PrStronger(a, b) = IF a # "deny" THEN b ELSE a
        BY <2>2 DEF PrStronger
      <3> QED BY <1>4, <1>s, <2>2, <3>1 DEF PrEnforcements
    <2>3. CASE b = "warn"
      <3>1. PrStronger(a, b) = IF a = "allow" THEN b ELSE a
        BY <2>3 DEF PrStronger
      <3> QED BY <1>4, <1>s, <2>3, <3>1 DEF PrEnforcements
    <2> QED BY <1>4, <2>1, <2>2, <2>3 DEF PrEnforcements
  <1> HIDE DEF Hit, E, m, new
  <1>5. CASE Hit(m)
    <2>1. new = PrStronger(found, E(m))
      BY <1>2, <1>5
    <2>2. /\ new \in {found, E(m)} /\ new # "allow" /\ PrStrength(new) >= PrStrength(found) /\ PrStrength(new) >= PrStrength(E(m))
      BY <1>1, <1>4, <2>1
    <2>3. new \in PrEnforcements \union {"allow"}
      BY <1>1, <2>2
    <2>4. \A i \in 1 .. m : Hit(i) => PrStrength(new) >= PrStrength(E(i))
      BY <1>1, <1>3, <1>t, <2>2
    <2>5. \E i \in 1 .. m : Hit(i) /\ E(i) = new
      BY <1>1, <1>3, <1>n, <1>5, <2>2
    <2>6. ~\A i \in 1 .. m : ~Hit(i)
      BY <1>3, <1>5
    <2>7. PrFoundOf(policies, action, token, cost, m, new)
      BY <2>3, <2>4, <2>5, <2>6, Zenon DEF PrFoundOf, Hit, E
    <2> QED BY <2>7 DEF m, new
  <1>6. CASE ~Hit(m)
    <2>1. new = found
      BY <1>2, <1>6
    <2>2. \A i \in 1 .. m : Hit(i) => PrStrength(new) >= PrStrength(E(i))
      BY <1>1, <1>3, <1>6, <2>1
    <2>3. new # "allow" => \E i \in 1 .. m : Hit(i) /\ E(i) = new
      BY <1>1, <1>n, <2>1
    <2>4. (\A i \in 1 .. m : ~Hit(i)) => new = "allow"
      BY <1>1, <1>n, <2>1
    <2>5. PrFoundOf(policies, action, token, cost, m, new)
      BY <1>1, <2>1, <2>2, <2>3, <2>4, Zenon DEF PrFoundOf, Hit, E
    <2> QED BY <2>5 DEF m, new
  <1> QED BY <1>5, <1>6

\* For any policies, the single pass of evaluate finds the strongest enforcement of those that apply.
LEMMA PrPassFinds ==
  ASSUME NEW policies \in Seq(PrPolicyRecord), NEW action, NEW token, NEW cost
  PROVE  PrFoundOf(policies, action, token, cost, Len(policies), PrEnforcement(policies, action, token, cost))
  <1> DEFINE N == Len(policies)
             Rec(f) == f = [n \in 0 .. N |-> IF n = 0 THEN "allow" ELSE PrPass(policies[n], action, token, cost, f[n - 1])]
             final == CHOOSE f : Rec(f)
             Good(n) == PrFoundOf(policies, action, token, cost, n, final[n])
             T == {n \in 0 .. N : ~Good(n)}
  <1>1. N \in Nat /\ \A i \in 1 .. N : policies[i].enforcement \in PrEnforcements
    <2>1. N \in Nat /\ \A i \in 1 .. N : policies[i] \in PrPolicyRecord
      BY SeqFacts
    <2> QED BY <2>1 DEF PrPolicyRecord
  <1>2. PrEnforcement(policies, action, token, cost) = final[N]
    BY DEF PrEnforcement, PrPass
  <1>3. \E f : Rec(f)
    BY SMTT(20), <1>1, PrPassExists
  <1>4. Rec(final)
    <2> HIDE DEF Rec
    <2> QED BY <1>3
  <1>5. final[0] = "allow" /\ \A n \in 1 .. N : final[n] = PrPass(policies[n], action, token, cost, final[n - 1])
    <2> HIDE DEF final
    <2>1. \A n \in 0 .. N : final[n] = IF n = 0 THEN "allow" ELSE PrPass(policies[n], action, token, cost, final[n - 1])
      BY <1>4, Zenon
    <2>2. 0 \in 0 .. N /\ \A n \in 1 .. N : n \in 0 .. N /\ n # 0
      BY <1>1
    <2> QED BY <2>1, <2>2
  <1> HIDE DEF final, N
  <1>6. Good(0)
    BY <1>5 DEF PrFoundOf
  <1>7. ASSUME NEW n \in 0 .. N, n # N, Good(n) PROVE Good(n + 1)
    <2>1. n \in Nat /\ n + 1 \in 1 .. N /\ (n + 1) - 1 = n
      BY <1>1, <1>7
    <2>2. final[n + 1] = PrPass(policies[n + 1], action, token, cost, final[n]) /\ policies[n + 1].enforcement \in PrEnforcements
      BY <1>1, <1>5, <2>1
    <2>3. PrFoundOf(policies, action, token, cost, n + 1, PrPass(policies[n + 1], action, token, cost, final[n]))
      BY <1>7, <2>1, <2>2, PrPassStep
    <2> QED BY <2>2, <2>3
  <1> HIDE DEF Good
  <1>8. T = {}
    <2> SUFFICES ASSUME T # {} PROVE FALSE
      OBVIOUS
    <2>1. T \in SUBSET Nat
      OBVIOUS
    <2>2. PICK t \in T : \A u \in T : t <= u
      BY <2>1, LeastNumber
    <2>3. t # 0 /\ t \in 0 .. N /\ ~Good(t)
      BY <1>6
    <2>4. t - 1 \in 0 .. N /\ t - 1 # N /\ ~(t <= t - 1) /\ (t - 1) + 1 = t
      BY <1>1, <2>3
    <2>5. Good(t - 1)
      BY <2>2, <2>4
    <2>6. Good((t - 1) + 1)
      BY <1>7, <2>4, <2>5
    <2> QED BY <2>3, <2>4, <2>6
  <1>9. Good(N)
    BY <1>1, <1>8
  <1> QED BY <1>2, <1>9 DEF Good, N

\* The policies and rules have their types; a grant has a time and a bound; a frame of a task's stack
\* holds what the frame below it, or nothing, had put in force.
PrSets == {"none", "default", "strict", "any"}
PrFrame == [policy : PrSets \ {"none"}, before : PrSets]
PrEnginesInv ==
    /\ prRules \in Seq(PrRule) /\ prPolicies \in Seq(PrPolicyRecord)
    /\ prNow \in Nat \ {0} /\ prGrant \in Nat /\ prGranted \in Nat
    /\ prGrant # 0 => prGranted # 0 /\ prGrant <= prGranted + PrMost
    /\ PrElevationEnds
PrChained(stack) == \A i \in DOMAIN stack : stack[i].before = IF i = 1 THEN PrNone ELSE stack[i - 1].policy
PrInForce(stack) == IF stack = <<>> THEN PrNone ELSE stack[Len(stack)].policy
PrStackInv ==
    /\ prStack \in [PrTasks -> Seq(PrFrame)] /\ prContext \in [PrTasks -> PrSets]
    /\ \A t \in PrTasks : PrChained(prStack[t]) /\ prContext[t] = PrInForce(prStack[t])
PrIInv == PrEnginesInv /\ PrStackInv

\* Adding a policy keeps the policies well formed.
LEMMA PrAddedType ==
  ASSUME NEW policies \in Seq(PrPolicyRecord), NEW p \in PrPolicyRecord
  PROVE  PrAdded(policies, p) \in Seq(PrPolicyRecord)
  <1>1. Append(policies, p) \in Seq(PrPolicyRecord)
    OBVIOUS
  <1>2. [i \in DOMAIN policies |-> IF policies[i].id = p.id THEN p ELSE policies[i]] \in Seq(PrPolicyRecord)
    <2>1. DOMAIN policies = 1 .. Len(policies) /\ Len(policies) \in Nat /\ \A i \in DOMAIN policies : policies[i] \in PrPolicyRecord
      BY SeqFacts
    <2> DEFINE q == [i \in 1 .. Len(policies) |-> IF policies[i].id = p.id THEN p ELSE policies[i]]
    <2>2. q \in [1 .. Len(policies) -> PrPolicyRecord]
      BY <2>1
    <2>3. q \in Seq(PrPolicyRecord)
      BY <2>1, <2>2
    <2> QED BY <2>1, <2>3
  <1> QED BY <1>1, <1>2 DEF PrAdded

\* The policies of the defaults and of the packs are well formed, and a pack has one or two.
LEMMA PrPacksType ==
  /\ PrDefaults \in Seq(PrPolicyRecord)
  /\ \A standard : PrPack(standard) \in Seq(PrPolicyRecord) /\ (Len(PrPack(standard)) = 1 \/ Len(PrPack(standard)) = 2)
  /\ \A e \in PrEnforcements : PrPolicy("own", {"bash", "export"}, PrNone, PrNoLimit, e) \in PrPolicyRecord
  <1>1. ASSUME NEW id \in PrIds, NEW actions \in SUBSET PrActions, NEW token \in PrTokens, NEW limit \in Nat, NEW e \in PrEnforcements
        PROVE  PrPolicy(id, actions, token, limit, e) \in PrPolicyRecord
    BY DEF PrPolicy, PrPolicyRecord
  <1>2. PrNoLimit \in Nat /\ 5 \in Nat /\ "deny" \in PrEnforcements /\ "require_approval" \in PrEnforcements
    BY DEF PrNoLimit, PrEnforcements
  <1>3. \A p, q, r \in PrPolicyRecord :
            /\ <<p>> \in Seq(PrPolicyRecord) /\ <<p, q>> \in Seq(PrPolicyRecord) /\ <<p, q, r>> \in Seq(PrPolicyRecord)
            /\ Len(<<p>>) = 1 /\ Len(<<p, q>>) = 2
    OBVIOUS
  <1> HIDE DEF PrPolicy
  <1>4. PrDefaults \in Seq(PrPolicyRecord)
    <2>1. PrPolicy("root_exec", {"bash"}, "sudo", PrNoLimit, "deny") \in PrPolicyRecord
      BY <1>1, <1>2 DEF PrIds, PrActions, PrTokens
    <2>2. PrPolicy("cost_limit", {"bash", "deploy", "export"}, PrNone, 5, "require_approval") \in PrPolicyRecord
      BY <1>1, <1>2 DEF PrIds, PrActions, PrTokens
    <2>3. PrPolicy("prod_deploy", {"deploy", "bash"}, "production", PrNoLimit, "require_approval") \in PrPolicyRecord
      BY <1>1, <1>2 DEF PrIds, PrActions, PrTokens
    <2> QED BY <1>3, <2>1, <2>2, <2>3 DEF PrDefaults
  <1>5. PrHipaa \in Seq(PrPolicyRecord) /\ Len(PrHipaa) = 2
    <2>1. PrPolicy("phi_block", {"export"}, "ssn", PrNoLimit, "deny") \in PrPolicyRecord
      BY <1>1, <1>2 DEF PrIds, PrActions, PrTokens
    <2>2. PrPolicy("health_export", {"export"}, "ephi", PrNoLimit, "require_approval") \in PrPolicyRecord
      BY <1>1, <1>2 DEF PrIds, PrActions, PrTokens
    <2> QED BY <1>3, <2>1, <2>2 DEF PrHipaa
  <1>6. PrSoc2 \in Seq(PrPolicyRecord) /\ Len(PrSoc2) = 2
    <2>1. PrPolicy("prod_mutation", {"deploy"}, "drop", PrNoLimit, "require_approval") \in PrPolicyRecord
      BY <1>1, <1>2 DEF PrIds, PrActions, PrTokens
    <2>2. PrPolicy("iam", {"grant"}, "admin", PrNoLimit, "deny") \in PrPolicyRecord
      BY <1>1, <1>2 DEF PrIds, PrActions, PrTokens
    <2> QED BY <1>3, <2>1, <2>2 DEF PrSoc2
  <1>7. PrGdpr \in Seq(PrPolicyRecord) /\ Len(PrGdpr) = 2
    <2>1. PrPolicy("cross_border", {"export"}, "region", PrNoLimit, "require_approval") \in PrPolicyRecord
      BY <1>1, <1>2 DEF PrIds, PrActions, PrTokens
    <2>2. PrPolicy("pii", {"store"}, "passport", PrNoLimit, "deny") \in PrPolicyRecord
      BY <1>1, <1>2 DEF PrIds, PrActions, PrTokens
    <2> QED BY <1>3, <2>1, <2>2 DEF PrGdpr
  <1>8. PrAirGapped \in Seq(PrPolicyRecord) /\ Len(PrAirGapped) = 1
    <2>1. PrPolicy("zero_egress", {"bash"}, "http", PrNoLimit, "deny") \in PrPolicyRecord
      BY <1>1, <1>2 DEF PrIds, PrActions, PrTokens
    <2> QED BY <1>3, <2>1 DEF PrAirGapped
  <1>9. \A standard : PrPack(standard) \in {PrHipaa, PrGdpr, PrAirGapped, PrSoc2}
    BY DEF PrPack
  <1>10. ASSUME NEW e \in PrEnforcements PROVE PrPolicy("own", {"bash", "export"}, PrNone, PrNoLimit, e) \in PrPolicyRecord
    BY <1>1, <1>2 DEF PrIds, PrActions, PrTokens
  <1> QED BY <1>4, <1>5, <1>6, <1>7, <1>8, <1>9, <1>10

\* A pack that is applied keeps the policies well formed.
LEMMA PrAppliedType ==
  ASSUME NEW policies \in Seq(PrPolicyRecord), NEW standard
  PROVE  PrApplied(policies, PrPack(standard)) \in Seq(PrPolicyRecord)
  <1> DEFINE pack == PrPack(standard)
  <1>1. pack \in Seq(PrPolicyRecord) /\ (Len(pack) = 1 \/ Len(pack) = 2)
    BY PrPacksType
  <1> HIDE DEF pack
  <1>2. pack[1] \in PrPolicyRecord /\ (Len(pack) # 1 => pack[2] \in PrPolicyRecord)
    BY <1>1, SeqFacts
  <1>3. PrApplied(policies, pack) \in Seq(PrPolicyRecord)
    BY <1>1, <1>2, PrAddedType DEF PrApplied
  <1> QED BY <1>3 DEF pack

\* A policy is removed.
LEMMA PrRemovedType ==
  ASSUME NEW policies \in Seq(PrPolicyRecord), NEW i \in DOMAIN policies
  PROVE  SubSeq(policies, 1, i - 1) \o SubSeq(policies, i + 1, Len(policies)) \in Seq(PrPolicyRecord)
  <1>1. DOMAIN policies = 1 .. Len(policies) /\ Len(policies) \in Nat /\ \A j \in DOMAIN policies : policies[j] \in PrPolicyRecord
    BY SeqFacts
  <1>2. \A a, b \in Int : (a >= 1 /\ b <= Len(policies)) => SubSeq(policies, a, b) \in Seq(PrPolicyRecord)
    BY <1>1
  <1>3. i - 1 \in Int /\ i + 1 \in Int /\ i + 1 >= 1 /\ i - 1 <= Len(policies)
    BY <1>1
  <1>4. SubSeq(policies, 1, i - 1) \in Seq(PrPolicyRecord) /\ SubSeq(policies, i + 1, Len(policies)) \in Seq(PrPolicyRecord)
    BY <1>1, <1>2, <1>3
  <1> QED BY <1>4

\* Every step of the rule engines keeps their invariant.
LEMMA PrEnginesStep == PrEnginesInv /\ [PrNext]_prVars => PrEnginesInv'
  <1> SUFFICES ASSUME PrEnginesInv, [PrNext]_prVars PROVE PrEnginesInv'
    OBVIOUS
  <1>0. /\ prRules \in Seq(PrRule) /\ prPolicies \in Seq(PrPolicyRecord)
        /\ prNow \in Nat /\ prNow # 0 /\ prGrant \in Nat /\ prGranted \in Nat
        /\ (prGrant # 0 => prGranted # 0 /\ prGrant <= prGranted + PrMost) /\ PrElevationEnds
    BY DEF PrEnginesInv
  <1>m. PrMost \in Nat /\ PrMost # 0
    BY PrAssumption
  <1>e. ASSUME UNCHANGED <<prNow, prGrant, prGranted, prElevated>>, prRules' \in Seq(PrRule), prPolicies' \in Seq(PrPolicyRecord)
        PROVE  PrEnginesInv'
    BY <1>e DEF PrEnginesInv, PrElevationEnds
  <1>1. CASE PrStart
    <2>1. prPolicies' \in Seq(PrPolicyRecord) /\ UNCHANGED prAbac
      BY <1>1, PrPacksType DEF PrStart
    <2> QED BY <1>0, <1>e, <2>1 DEF prAbac
  <1>2. CASE PrIsElevated
    <2>1. prElevated' = (prNow < prGrant) /\ prGrant' = IF prNow < prGrant THEN prGrant ELSE 0
      BY <1>2 DEF PrIsElevated
    <2>2. UNCHANGED <<prRules, prNow, prGranted, prPolicies>>
      BY <1>2 DEF PrIsElevated
    <2>3. prElevated' => prGranted # 0 /\ prNow < prGranted + PrMost
      <3>1. prNow < prGrant => prGranted # 0 /\ prNow < prGranted + PrMost
        BY <1>0, <1>m
      <3> QED BY <2>1, <3>1
    <2>4. PrElevationEnds'
      BY <2>2, <2>3 DEF PrElevationEnds
    <2>5. prGrant' \in {0, prGrant}
      BY <2>1
    <2> QED BY <1>0, <2>2, <2>4, <2>5 DEF PrEnginesInv
  <1>3. CASE PrRevoke
    BY <1>0, <1>3 DEF PrRevoke, PrEnginesInv, PrElevationEnds
  <1>4. CASE PrTick
    BY <1>0, <1>4 DEF PrTick, PrEnginesInv, PrElevationEnds
  <1>5. ASSUME NEW rule \in PrRule, PrAddRule(rule) PROVE PrEnginesInv'
    <2>1. Append(prRules, rule) \in Seq(PrRule)
      BY <1>0
    <2> QED BY <1>0, <1>5, <1>e, <2>1 DEF PrAddRule
  <1>6. ASSUME NEW minutes \in {0, 1, PrMost + 5}, PrElevate(minutes) PROVE PrEnginesInv'
    <2>1. prGrant' = prNow + PrBounded(minutes) /\ prGranted' = prNow /\ UNCHANGED <<prRules, prNow, prElevated, prPolicies>>
      BY <1>6 DEF PrElevate
    <2>2. PrBounded(minutes) \in Nat /\ PrBounded(minutes) <= PrMost
      BY <1>6, <1>m DEF PrBounded
    <2>3. PrElevationEnds'
      BY <1>0, <1>m, <2>1 DEF PrElevationEnds
    <2>4. prGrant' \in Nat /\ prGranted' # 0 /\ prGrant' <= prGranted' + PrMost
      BY <1>0, <1>m, <2>1, <2>2
    <2> QED BY <1>0, <2>1, <2>3, <2>4 DEF PrEnginesInv
  <1>7. ASSUME NEW standard, PrApplyPack(standard) PROVE PrEnginesInv'
    BY <1>0, <1>7, <1>e, PrAppliedType DEF PrApplyPack, prAbac
  <1>8. ASSUME NEW enforcement \in {"warn", "require_approval"}, PrAddPolicy(enforcement) PROVE PrEnginesInv'
    <2>1. enforcement \in PrEnforcements
      BY DEF PrEnforcements
    <2>2. PrPolicy("own", {"bash", "export"}, PrNone, PrNoLimit, enforcement) \in PrPolicyRecord
      BY <2>1, PrPacksType
    <2> QED BY <1>0, <1>8, <1>e, <2>2, PrAddedType DEF PrAddPolicy, prAbac
  <1>9. ASSUME NEW id, PrRemovePolicy(id) PROVE PrEnginesInv'
    BY <1>0, <1>9, <1>e, PrRemovedType DEF PrRemovePolicy, prAbac
  <1>10. ASSUME UNCHANGED <<prAbac, prPolicies>> PROVE PrEnginesInv'
    BY <1>0, <1>10, <1>e DEF prAbac
  <1>11. ASSUME NEW t \in PrTasks, NEW policy, PrEnter(t, policy) PROVE PrEnginesInv'
    BY <1>10, <1>11 DEF PrEnter
  <1>12. ASSUME NEW t \in PrTasks, PrLeave(t) PROVE PrEnginesInv'
    BY <1>10, <1>12 DEF PrLeave
  <1>13. ASSUME NEW t \in PrTasks, NEW host, NEW thread, PrResolve(t, host, thread) PROVE PrEnginesInv'
    BY <1>10, <1>13 DEF PrResolve
  <1>14. ASSUME NEW t \in PrTasks, NEW port, PrConnect(t, port) PROVE PrEnginesInv'
    BY <1>10, <1>14 DEF PrConnect
  <1>15. CASE UNCHANGED prVars
    BY <1>10, <1>15 DEF prVars, prAbac
  <1> QED BY <1>1, <1>2, <1>3, <1>4, <1>5, <1>6, <1>7, <1>8, <1>9, <1>11, <1>12, <1>13, <1>14, <1>15 DEF PrNext

\* Entering a sandbox puts a frame on the stack that remembers what was in force; leaving it restores that.
LEMMA PrFrames ==
  ASSUME NEW stack \in Seq(PrFrame), PrChained(stack), NEW policy \in PrSets \ {"none"}
  PROVE  /\ LET s == Append(stack, [policy |-> policy, before |-> PrInForce(stack)])
            IN  s \in Seq(PrFrame) /\ PrChained(s) /\ PrInForce(s) = policy
         /\ stack # <<>> =>
              LET s == SubSeq(stack, 1, Len(stack) - 1)
              IN  s \in Seq(PrFrame) /\ PrChained(s) /\ PrInForce(s) = stack[Len(stack)].before
         /\ PrInForce(stack) \in PrSets
  <1> DEFINE n == Len(stack)
  <1>1. n \in Nat /\ DOMAIN stack = 1 .. n /\ \A i \in 1 .. n : stack[i] \in PrFrame
    BY SeqFacts
  <1>2. \A f \in PrFrame : f.policy \in PrSets /\ f.before \in PrSets
    BY DEF PrFrame
  <1>e. stack = <<>> <=> n = 0
    BY EmptySeq
  <1> HIDE DEF n
  <1>3. PrInForce(stack) \in PrSets
    <2>1. CASE stack = <<>>
      BY <2>1 DEF PrInForce, PrNone, PrSets
    <2>2. CASE stack # <<>>
      BY <1>1, <1>2, <1>e, <2>2 DEF PrInForce, n
    <2> QED BY <2>1, <2>2
  <1>4. LET s == Append(stack, [policy |-> policy, before |-> PrInForce(stack)])
        IN  s \in Seq(PrFrame) /\ PrChained(s) /\ PrInForce(s) = policy
    <2> DEFINE x == [policy |-> policy, before |-> PrInForce(stack)]
               s == Append(stack, x)
    <2>1. x \in PrFrame /\ x.policy = policy /\ x.before = PrInForce(stack)
      BY <1>3 DEF PrFrame
    <2> HIDE DEF x
    <2>2. /\ s \in Seq(PrFrame) /\ Len(s) = n + 1 /\ DOMAIN s = DOMAIN stack \union {n + 1}
          /\ s[n + 1] = x /\ \A i \in DOMAIN stack : s[i] = stack[i]
      BY <2>1, Appended DEF n
    <2> HIDE DEF s
    <2>3. s # <<>>
      BY <1>1, <2>2, EmptySeq
    <2>4. PrInForce(s) = policy
      BY <2>1, <2>2, <2>3 DEF PrInForce
    <2>5. ASSUME NEW i \in DOMAIN s PROVE s[i].before = IF i = 1 THEN PrNone ELSE s[i - 1].policy
      <3>1. CASE i = n + 1
        <4>1. CASE n = 0
          BY <1>e, <2>1, <2>2, <3>1, <4>1 DEF PrInForce
        <4>2. CASE n # 0
          <5>1. n \in DOMAIN stack /\ i # 1 /\ i - 1 = n
            BY <1>1, <3>1, <4>2
          <5>2. s[i].before = stack[n].policy
            BY <1>e, <2>1, <2>2, <3>1, <4>2 DEF PrInForce, n
          <5> QED BY <2>2, <5>1, <5>2
        <4> QED BY <4>1, <4>2
      <3>2. CASE i # n + 1
        <4>1. i \in DOMAIN stack /\ (i # 1 => i - 1 \in DOMAIN stack)
          BY <1>1, <2>2, <2>5, <3>2
        <4> QED BY <2>2, <4>1 DEF PrChained
      <3> QED BY <3>1, <3>2
    <2>6. PrChained(s)
      BY <2>5 DEF PrChained
    <2> QED BY <2>2, <2>4, <2>6 DEF s, x
  <1>5. ASSUME stack # <<>>
        PROVE  LET s == SubSeq(stack, 1, Len(stack) - 1)
               IN  s \in Seq(PrFrame) /\ PrChained(s) /\ PrInForce(s) = stack[Len(stack)].before
    <2> DEFINE s == SubSeq(stack, 1, Len(stack) - 1)
    <2>1. n # 0 /\ n - 1 \in Nat
      BY <1>1, <1>5, <1>e
    <2>2. s \in Seq(PrFrame) /\ Len(s) = n - 1 /\ DOMAIN s = 1 .. n - 1 /\ \A i \in 1 .. n - 1 : s[i] = stack[i]
      BY <1>1, <2>1 DEF n
    <2>e. s = <<>> <=> n - 1 = 0
      BY <2>2, EmptySeq
    <2> HIDE DEF s
    <2>3. PrChained(s)
      <3> SUFFICES ASSUME NEW i \in DOMAIN s PROVE s[i].before = IF i = 1 THEN PrNone ELSE s[i - 1].policy
        BY DEF PrChained
      <3>1. i \in 1 .. n - 1 /\ i \in DOMAIN stack /\ (i # 1 => i - 1 \in 1 .. n - 1)
        BY <1>1, <2>1, <2>2
      <3> QED BY <2>2, <3>1 DEF PrChained
    <2>4. PrInForce(s) = stack[n].before
      <3>1. n \in DOMAIN stack
        BY <1>1, <2>1
      <3>2. stack[n].before = IF n = 1 THEN PrNone ELSE stack[n - 1].policy
        BY <3>1 DEF PrChained
      <3>3. CASE n = 1
        BY <2>e, <3>2, <3>3 DEF PrInForce
      <3>4. CASE n # 1
        <4>1. n - 1 # 0 /\ n - 1 \in 1 .. n - 1
          BY <1>1, <2>1, <3>4
        <4> QED BY <2>2, <2>e, <3>2, <3>4, <4>1 DEF PrInForce
      <3> QED BY <3>3, <3>4
    <2> QED BY <2>2, <2>3, <2>4 DEF s, n
  <1> QED BY <1>3, <1>4, <1>5

\* Every step keeps the stacks of sandboxes and what is in force in agreement.
LEMMA PrStackStep == PrStackInv /\ [PrNext]_prVars => PrStackInv'
  <1> SUFFICES ASSUME PrStackInv, [PrNext]_prVars PROVE PrStackInv'
    OBVIOUS
  <1>0. /\ prStack \in [PrTasks -> Seq(PrFrame)] /\ prContext \in [PrTasks -> PrSets]
        /\ \A t \in PrTasks : PrChained(prStack[t]) /\ prContext[t] = PrInForce(prStack[t])
    BY DEF PrStackInv
  <1>1. ASSUME UNCHANGED <<prStack, prContext>> PROVE PrStackInv'
    BY <1>0, <1>1 DEF PrStackInv
  <1>2. ASSUME NEW t \in PrTasks, NEW s \in Seq(PrFrame), NEW c \in PrSets, PrChained(s), PrInForce(s) = c,
               prStack' = [prStack EXCEPT ![t] = s], prContext' = [prContext EXCEPT ![t] = c]
        PROVE  PrStackInv'
    <2>1. prStack' \in [PrTasks -> Seq(PrFrame)] /\ prContext' \in [PrTasks -> PrSets]
      BY <1>0, <1>2
    <2>2. ASSUME NEW u \in PrTasks PROVE PrChained(prStack'[u]) /\ prContext'[u] = PrInForce(prStack'[u])
      <3>1. CASE u = t
        <4>1. prStack'[u] = s /\ prContext'[u] = c
          BY <1>0, <1>2, <3>1
        <4> QED BY <1>2, <4>1
      <3>2. CASE u # t
        <4>1. prStack'[u] = prStack[u] /\ prContext'[u] = prContext[u]
          BY <1>0, <1>2, <3>2
        <4> QED BY <1>0, <4>1
      <3> QED BY <3>1, <3>2
    <2> QED BY <2>1, <2>2 DEF PrStackInv
  <1>3. ASSUME NEW t \in PrTasks, NEW policy \in DOMAIN PrNetworkPolicies, PrEnter(t, policy) PROVE PrStackInv'
    <2> DEFINE s == Append(prStack[t], [policy |-> policy, before |-> PrInForce(prStack[t])])
    <2>1. policy \in PrSets \ {"none"}
      BY DEF PrNetworkPolicies, PrSets
    <2>2. prStack[t] \in Seq(PrFrame) /\ PrChained(prStack[t]) /\ prContext[t] = PrInForce(prStack[t])
      BY <1>0
    <2>3. s \in Seq(PrFrame) /\ PrChained(s) /\ PrInForce(s) = policy
      BY <2>1, <2>2, PrFrames
    <2>4. prStack' = [prStack EXCEPT ![t] = s] /\ prContext' = [prContext EXCEPT ![t] = policy]
      BY <1>3, <2>2 DEF PrEnter
    <2> HIDE DEF s
    <2> QED BY <1>2, <2>1, <2>3, <2>4
  <1>4. ASSUME NEW t \in PrTasks, PrLeave(t) PROVE PrStackInv'
    <2> DEFINE s == SubSeq(prStack[t], 1, Len(prStack[t]) - 1)
    <2>2. prStack[t] \in Seq(PrFrame) /\ PrChained(prStack[t]) /\ prStack[t] # <<>> /\ "any" \in PrSets \ {"none"}
      BY <1>0, <1>4 DEF PrLeave, PrSets
    <2>3. s \in Seq(PrFrame) /\ PrChained(s) /\ PrInForce(s) = prStack[t][Len(prStack[t])].before
      BY <2>2, PrFrames
    <2>4. prStack' = [prStack EXCEPT ![t] = s] /\ prContext' = [prContext EXCEPT ![t] = PrInForce(s)]
      BY <1>4, <2>3 DEF PrLeave, PrRestored
    <2>5. PrInForce(s) \in PrSets
      BY <2>2, <2>3, PrFrames
    <2> HIDE DEF s
    <2> QED BY <1>2, <2>3, <2>4, <2>5
  <1>5. CASE PrStart \/ PrIsElevated \/ PrRevoke \/ PrTick
    BY <1>1, <1>5 DEF PrStart, PrIsElevated, PrRevoke, PrTick, prEgress
  <1>6. ASSUME NEW rule \in PrRule, PrAddRule(rule) PROVE PrStackInv'
    BY <1>1, <1>6 DEF PrAddRule, prEgress
  <1>7. ASSUME NEW minutes, PrElevate(minutes) PROVE PrStackInv'
    BY <1>1, <1>7 DEF PrElevate, prEgress
  <1>8. ASSUME NEW a, PrApplyPack(a) \/ PrAddPolicy(a) \/ PrRemovePolicy(a) PROVE PrStackInv'
    BY <1>1, <1>8 DEF PrApplyPack, PrAddPolicy, PrRemovePolicy, prEgress
  <1>9. ASSUME NEW t \in PrTasks, NEW host, NEW thread, PrResolve(t, host, thread) PROVE PrStackInv'
    BY <1>1, <1>9 DEF PrResolve
  <1>10. ASSUME NEW t \in PrTasks, NEW port, PrConnect(t, port) PROVE PrStackInv'
    BY <1>1, <1>10 DEF PrConnect
  <1>11. CASE UNCHANGED prVars
    BY <1>1, <1>11 DEF prVars
  <1> QED BY <1>3, <1>4, <1>5, <1>6, <1>7, <1>8, <1>9, <1>10, <1>11 DEF PrNext

\* Every step of the rule engines and of the firewall keeps the invariant.
LEMMA PrStep == PrIInv /\ [PrNext]_prVars => PrIInv'
  BY PrEnginesStep, PrStackStep DEF PrIInv

\* The engines start empty, and the invariant implies the properties.
LEMMA PrFacts == (PrInit => PrIInv) /\ (PrIInv => PrOrderFree /\ PrElevationEnds /\ PrStrongest /\ PrSandboxed)
  <1>1. ASSUME PrInit PROVE PrIInv
    <2>1. PrEnginesInv
      BY <1>1 DEF PrInit, PrEnginesInv, PrElevationEnds
    <2>2. /\ prStack \in [PrTasks -> Seq(PrFrame)] /\ prContext \in [PrTasks -> PrSets]
          /\ \A t \in PrTasks : prStack[t] = <<>> /\ prContext[t] = PrNone
      BY <1>1 DEF PrInit, PrSets, PrNone
    <2>3. PrChained(<<>>) /\ PrInForce(<<>>) = PrNone
      BY DEF PrChained, PrInForce
    <2> QED BY <2>1, <2>2, <2>3 DEF PrIInv, PrStackInv
  <1>2. ASSUME PrIInv PROVE PrOrderFree
    <2> SUFFICES ASSUME NEW q \in PrRequest, PrEvaluate(prRules, q), NEW i \in DOMAIN prRules, PrMatches(prRules[i], q)
                 PROVE  prRules[i].effect = "allow"
      BY DEF PrOrderFree, PrEvaluate
    <2>1. prRules \in Seq(PrRule)
      BY <1>2 DEF PrIInv, PrEnginesInv
    <2>2. prRules[i] \in PrRule
      BY <2>1, SeqFacts
    <2>3. prRules[i].effect \in {"allow", "deny"}
      BY <2>2 DEF PrRule
    <2>4. prRules[i].effect # "deny"
      BY Zenon DEF PrEvaluate
    <2> QED BY <2>3, <2>4
  <1>3. ASSUME PrIInv PROVE PrStrongest
    <2>1. prPolicies \in Seq(PrPolicyRecord)
      BY <1>3 DEF PrIInv, PrEnginesInv
    <2>2. DOMAIN prPolicies = 1 .. Len(prPolicies) /\ \A i \in DOMAIN prPolicies : prPolicies[i].enforcement \in PrEnforcements
      <3>1. DOMAIN prPolicies = 1 .. Len(prPolicies) /\ \A i \in DOMAIN prPolicies : prPolicies[i] \in PrPolicyRecord
        BY <2>1, SeqFacts
      <3> QED BY <3>1 DEF PrPolicyRecord
    <2>3. ASSUME NEW action, NEW token, NEW cost
          PROVE  LET hit == {i \in DOMAIN prPolicies : PrTriggered(prPolicies[i], action, token, cost)}
                     found == PrEnforcement(prPolicies, action, token, cost)
                 IN /\ hit = {} => found = "allow"
                    /\ \A i \in hit : PrStrength(found) >= PrStrength(prPolicies[i].enforcement)
                    /\ hit # {} => \E i \in hit : prPolicies[i].enforcement = found
      <3> DEFINE Hit(i) == PrTriggered(prPolicies[i], action, token, cost)
                 hit == {i \in DOMAIN prPolicies : Hit(i)}
                 found == PrEnforcement(prPolicies, action, token, cost)
      <3>1. PrFoundOf(prPolicies, action, token, cost, Len(prPolicies), found)
        BY <2>1, PrPassFinds
      <3>2. /\ (\A i \in DOMAIN prPolicies : ~Hit(i)) => found = "allow"
            /\ \A i \in DOMAIN prPolicies : Hit(i) => PrStrength(found) >= PrStrength(prPolicies[i].enforcement)
            /\ found # "allow" => \E i \in DOMAIN prPolicies : Hit(i) /\ prPolicies[i].enforcement = found
        BY <2>2, <3>1, Zenon DEF PrFoundOf
      <3> HIDE DEF Hit, found
      <3>3. ASSUME NEW i \in hit PROVE found # "allow"
        <4>1. prPolicies[i].enforcement \in PrEnforcements /\ PrStrength(found) >= PrStrength(prPolicies[i].enforcement)
          BY <2>2, <3>2
        <4>2. PrStrength("allow") = 0 /\ \A e \in PrEnforcements : PrStrength(e) \in 1 .. 3
          BY DEF PrStrength, PrEnforcements
        <4> QED BY <4>1, <4>2
      <3>4. /\ hit = {} => found = "allow"
            /\ \A i \in hit : PrStrength(found) >= PrStrength(prPolicies[i].enforcement)
            /\ hit # {} => \E i \in hit : prPolicies[i].enforcement = found
        BY <3>2, <3>3
      <3> QED BY <3>4 DEF Hit, found
    <2> QED BY <2>3 DEF PrStrongest
  <1>4. ASSUME PrIInv PROVE PrSandboxed
    BY <1>4 DEF PrIInv, PrStackInv, PrSandboxed, PrInForce
  <1> QED BY <1>1, <1>2, <1>3, <1>4 DEF PrIInv, PrEnginesInv

-----------------------------------------------------------------------------
(* The limits of the channels *)

RlStages == {"idle", "lock", "held", "retry"}
RlCallRecord == [stage : RlStages, channel : RlChannels, start : Nat, asked : Nat, wake : Nat]

\* What the variables of the token bucket are.
RlTypes ==
    /\ rlNow \in 0 .. RlMaxTime /\ rlBucket \in [RlChannels -> [tokens : Nat, at : Nat]] /\ rlBlocked \in [RlChannels -> Nat]
    /\ rlCall \in [RlCallers -> RlCallRecord] /\ rlGrants \in [RlChannels -> Seq(Nat)]

\* The lock is held by the one caller that sleeps with it, for a nap of one tick.
RlHeldInv ==
    /\ rlLock = {} \/ \E c \in RlCallers : rlLock = {c}
    /\ \A c \in RlCallers : rlCall[c].stage = "held" <=> rlLock = {c}
    /\ \A c \in RlCallers : rlCall[c].stage = "held" => rlNow <= rlCall[c].wake /\ rlCall[c].wake <= rlNow + 1
    /\ \A c \in RlCallers : rlCall[c].stage = "lock" => rlCall[c].asked <= rlNow

\* A channel without a bucket had no grant; otherwise what is left and what was granted since any grant
\* are within a full bucket and the refill up to the last one.
RlChannelKept(b, g) ==
    /\ b.tokens <= RlCapacity /\ b.at <= rlNow
    /\ \A i \in DOMAIN g : g[i] <= b.at /\ b.tokens + (Len(g) - i + 1) <= RlCapacity + (b.at - g[i]) * RlRate
RlRateInv ==
    /\ \A ch \in RlChannels : rlBucket[ch] = NoBucket => rlGrants[ch] = <<>>
    /\ \A ch \in RlChannels : rlBucket[ch] # NoBucket => RlChannelKept(rlBucket[ch], rlGrants[ch])
    /\ RateKept

\* The sum of two stretches of time.
LEMMA Stretches == \A a, b, c, r \in Int : (b - a) * r + (c - b) * r = (c - a) * r
  OBVIOUS

\* A grant keeps the promise.
LEMMA RlGrantKept ==
  ASSUME NEW b \in [tokens : Nat, at : Nat], NEW g \in Seq(Nat), rlNow \in Nat, b # NoBucket => RlChannelKept(b, g), b = NoBucket => g = <<>>,
         \A i, j \in DOMAIN g : i <= j => j - i + 1 <= RlCapacity + (g[j] - g[i]) * RlRate, Refilled(b) >= 1
  PROVE  LET d == [tokens |-> Refilled(b) - 1, at |-> rlNow]
             h == Append(g, rlNow)
         IN  /\ d \in [tokens : Nat, at : Nat] /\ RlChannelKept(d, h)
             /\ \A i, j \in DOMAIN h : i <= j => j - i + 1 <= RlCapacity + (h[j] - h[i]) * RlRate
  <1> DEFINE d == [tokens |-> Refilled(b) - 1, at |-> rlNow]
             h == Append(g, rlNow)
             n == Len(g)
             t == Refilled(b) - 1
  <1>1. RlRate \in Nat /\ RlCapacity \in Nat
    BY RlAssumption
  <1>2. b.tokens \in Nat /\ b.at \in Nat
    OBVIOUS
  <1>3. n \in Nat /\ DOMAIN g = 1 .. n /\ \A i \in 1 .. n : g[i] \in Nat
    BY SeqFacts
  <1>4. /\ h \in Seq(Nat) /\ Len(h) = n + 1 /\ DOMAIN h = DOMAIN g \union {n + 1} /\ h[n + 1] = rlNow /\ \A i \in DOMAIN g : h[i] = g[i]
    BY Appended
  <1>5. t \in Nat /\ t + 1 <= RlCapacity
    <2>1. CASE b = NoBucket
      BY <1>1, <2>1 DEF Refilled
    <2>2. CASE b # NoBucket
      <3>1. b.at <= rlNow
        BY <2>2 DEF RlChannelKept
      <3>2. (rlNow - b.at) * RlRate \in Nat
        BY <1>1, <1>2, <3>1
      <3>3. Refilled(b) = IF b.tokens + (rlNow - b.at) * RlRate < RlCapacity THEN b.tokens + (rlNow - b.at) * RlRate ELSE RlCapacity
        BY <2>2 DEF Refilled
      <3> QED BY <1>1, <1>2, <3>2, <3>3
    <2> QED BY <2>1, <2>2
  <1>d. d \in [tokens : Nat, at : Nat] /\ d.tokens = t /\ d.at = rlNow
    BY <1>5
  <1>6. ASSUME NEW i \in 1 .. n PROVE g[i] <= rlNow /\ t + ((n + 1) - i + 1) <= RlCapacity + (rlNow - g[i]) * RlRate
    <2>1. b # NoBucket
      BY <1>3
    <2>2. b.at <= rlNow /\ g[i] <= b.at /\ b.tokens + (n - i + 1) <= RlCapacity + (b.at - g[i]) * RlRate
      BY <1>3, <2>1 DEF RlChannelKept
    <2>3. t + 1 <= b.tokens + (rlNow - b.at) * RlRate
      <3>1. (rlNow - b.at) * RlRate \in Int
        BY <1>1, <1>2
      <3>2. Refilled(b) = IF b.tokens + (rlNow - b.at) * RlRate < RlCapacity THEN b.tokens + (rlNow - b.at) * RlRate ELSE RlCapacity
        BY <2>1 DEF Refilled
      <3> QED BY SMTT(20), <1>1, <1>2, <3>1, <3>2
    <2>4. (b.at - g[i]) * RlRate + (rlNow - b.at) * RlRate = (rlNow - g[i]) * RlRate
      BY <1>1, <1>2, <1>3, Stretches
    <2>5. (b.at - g[i]) * RlRate \in Int /\ (rlNow - b.at) * RlRate \in Int /\ (rlNow - g[i]) * RlRate \in Int /\ g[i] \in Nat
      BY SMTT(20), <1>1, <1>2, <1>3
    <2> DEFINE x == (b.at - g[i]) * RlRate
               y == (rlNow - b.at) * RlRate
               z == (rlNow - g[i]) * RlRate
    <2>6. x + y = z /\ x \in Int /\ y \in Int /\ z \in Int /\ b.tokens + (n - i + 1) <= RlCapacity + x /\ t + 1 <= b.tokens + y
      BY <2>2, <2>3, <2>4, <2>5
    <2> HIDE DEF x, y, z, t, n
    <2>7. t + ((n + 1) - i + 1) <= RlCapacity + z
      BY <1>1, <1>2, <1>3, <1>5, <2>6
    <2> QED BY <1>2, <2>2, <2>5, <2>7 DEF z
  <1>0. (rlNow - rlNow) * RlRate = 0
    BY <1>1
  <1> HIDE DEF t, n, d, h
  <1>7. ASSUME NEW i \in DOMAIN h PROVE h[i] <= rlNow /\ h[i] \in Nat /\ t + (Len(h) - i + 1) <= RlCapacity + (rlNow - h[i]) * RlRate
    <2>1. CASE i = n + 1
      BY <1>0, <1>1, <1>3, <1>4, <1>5, <2>1
    <2>2. CASE i \in 1 .. n
      <3>1. h[i] = g[i] /\ Len(h) = n + 1
        BY <1>3, <1>4, <2>2
      <3> QED BY <1>3, <1>6, <2>2, <3>1
    <2> QED BY <1>3, <1>4, <2>1, <2>2
  <1>8. RlChannelKept(d, h)
    BY <1>1, <1>3, <1>5, <1>7, <1>d DEF RlChannelKept
  <1>9. ASSUME NEW i \in DOMAIN h, NEW j \in DOMAIN h, i <= j PROVE j - i + 1 <= RlCapacity + (h[j] - h[i]) * RlRate
    <2>1. CASE j = n + 1
      <3>1. h[j] = rlNow /\ Len(h) = j /\ i \in Nat /\ j \in Nat
        BY <1>3, <1>4, <2>1
      <3>2. t + (j - i + 1) <= RlCapacity + (rlNow - h[i]) * RlRate /\ (rlNow - h[i]) * RlRate \in Int
        BY <1>1, <1>7, <3>1
      <3> DEFINE z == (rlNow - h[i]) * RlRate
      <3>3. t + (j - i + 1) <= RlCapacity + z /\ z \in Int
        BY <3>2
      <3> HIDE DEF z
      <3>4. j - i + 1 <= RlCapacity + z
        BY <1>1, <1>5, <3>1, <3>3
      <3> QED BY <3>1, <3>4 DEF z
    <2>2. CASE j # n + 1
      <3>1. i \in DOMAIN g /\ j \in DOMAIN g
        BY <1>3, <1>4, <1>9, <2>2
      <3> QED BY <1>4, <1>9, <3>1
    <2> QED BY <2>1, <2>2
  <1> QED BY <1>8, <1>9, <1>d DEF d, h, t

\* The callers that a waiting caller still has before it: those that asked no later, and the one that naps.
RlAhead(c) == {d \in RlCallers : \/ d # c /\ rlCall[d].stage = "lock" /\ rlCall[d].asked <= rlCall[c].asked
                                 \/ rlCall[d].stage = "held" /\ rlNow < rlCall[d].wake}

\* Each of them costs at most one tick more.
RlWaitInv == \A c \in RlCallers : rlCall[c].stage = "lock" => (rlNow - rlCall[c].asked) + Cardinality(RlAhead(c)) < Cardinality(RlCallers)

RlLimiterInv == RlTypes /\ RlHeldInv /\ RlRateInv /\ RlWaitInv

\* Sets of callers and their sizes.
LEMMA RlSizes ==
  /\ Cardinality(RlCallers) \in Nat
  /\ \A S \in SUBSET RlCallers : IsFiniteSet(S) /\ Cardinality(S) \in Nat
  /\ \A S, T \in SUBSET RlCallers : S \subseteq T => Cardinality(S) <= Cardinality(T)
  /\ \A S, T \in SUBSET RlCallers : (S \subseteq T /\ S # T) => Cardinality(S) < Cardinality(T)
  <1>1. IsFiniteSet(RlCallers)
    BY RlAssumption
  <1>2. \A S \in SUBSET RlCallers : IsFiniteSet(S) /\ Cardinality(S) \in Nat
    BY <1>1, FS_Subset, FS_CardinalityType
  <1>3. ASSUME NEW S \in SUBSET RlCallers, NEW T \in SUBSET RlCallers, S \subseteq T
        PROVE  Cardinality(S) <= Cardinality(T) /\ (S # T => Cardinality(S) < Cardinality(T))
    <2>1. Cardinality(S) <= Cardinality(T) /\ (Cardinality(S) = Cardinality(T) => S = T)
      BY <1>2, <1>3, FS_Subset
    <2> QED BY <1>2, <2>1
  <1> QED BY <1>1, <1>2, <1>3, FS_CardinalityType

\* A caller changes what it does; time stands still.
LEMMA RlCallMoves ==
  ASSUME RlTypes, RlHeldInv, RlWaitInv, NEW c \in RlCallers, NEW r \in RlCallRecord, rlCall' = [rlCall EXCEPT ![c] = r], rlNow' = rlNow,
         r.stage = "lock" => r.asked = rlNow,
         \/ rlLock' = rlLock /\ r.stage # "held" /\ rlCall[c].stage # "held"
         \/ rlLock = {c} /\ rlLock' = {} /\ r.stage # "held"
         \/ /\ rlLock = {} /\ rlLock' = {c} /\ r.stage = "held" /\ r.wake = rlNow + 1 /\ rlCall[c].stage = "lock"
            /\ \A d \in RlCallers : rlCall[d].stage = "lock" => rlCall[c].asked <= rlCall[d].asked
  PROVE  RlHeldInv' /\ RlWaitInv'
  <1>0. rlNow \in Nat /\ rlCall \in [RlCallers -> RlCallRecord]
    BY DEF RlTypes
  <1>1. rlCall'[c] = r /\ \A d \in RlCallers : d # c => rlCall'[d] = rlCall[d]
    BY <1>0
  <1>2. \A d \in RlCallers : rlCall[d].asked \in Nat /\ rlCall[d].wake \in Nat
    BY <1>0 DEF RlCallRecord
  <1>3. r.asked \in Nat /\ r.wake \in Nat
    BY DEF RlCallRecord
  <1>4. RlHeldInv'
    <2>1. rlLock' = {} \/ \E d \in RlCallers : rlLock' = {d}
      BY DEF RlHeldInv
    <2>2. ASSUME NEW d \in RlCallers PROVE rlCall'[d].stage = "held" <=> rlLock' = {d}
      <3>1. CASE d = c
        BY <1>1, <3>1 DEF RlHeldInv
      <3>2. CASE d # c
        <4>1. rlCall[d].stage = "held" <=> rlLock = {d}
          BY DEF RlHeldInv
        <4> QED BY <1>1, <3>2, <4>1
      <3> QED BY <3>1, <3>2
    <2>3. ASSUME NEW d \in RlCallers PROVE /\ rlCall'[d].stage = "held" => rlNow <= rlCall'[d].wake /\ rlCall'[d].wake <= rlNow + 1
                                           /\ rlCall'[d].stage = "lock" => rlCall'[d].asked <= rlNow
      <3>1. CASE d = c
        BY <1>0, <1>1, <1>3, <3>1
      <3>2. CASE d # c
        BY <1>1, <3>2 DEF RlHeldInv
      <3> QED BY <3>1, <3>2
    <2> QED BY <2>1, <2>2, <2>3 DEF RlHeldInv
  <1>5. ASSUME NEW x \in RlCallers, rlCall'[x].stage = "lock"
        PROVE  (rlNow' - rlCall'[x].asked) + Cardinality(RlAhead(x)') < Cardinality(RlCallers)
    <2>1. RlAhead(x)' \in SUBSET RlCallers /\ RlAhead(x) \in SUBSET RlCallers /\ rlCall'[x].asked \in Nat /\ rlCall'[x].asked <= rlNow
      BY <1>1, <1>2, <1>3, <1>4, <1>5 DEF RlAhead, RlHeldInv
    <2>2. CASE rlCall'[x].asked = rlNow
      <3>1. x \notin RlAhead(x)'
        BY <1>5 DEF RlAhead
      <3>2. Cardinality(RlAhead(x)') < Cardinality(RlCallers) /\ Cardinality(RlAhead(x)') \in Nat /\ Cardinality(RlCallers) \in Nat
        BY <2>1, <3>1, RlSizes
      <3>3. rlNow' - rlCall'[x].asked = 0
        BY <1>0, <2>2
      <3> QED BY <3>2, <3>3
    <2>3. CASE rlCall'[x].asked # rlNow
      <3>1. x # c /\ rlCall'[x] = rlCall[x]
        BY <1>1, <1>5, <2>3
      <3>2. ASSUME NEW d \in RlAhead(x)' PROVE d \in RlAhead(x)
        <4>1. d \in RlCallers /\ (\/ d # x /\ rlCall'[d].stage = "lock" /\ rlCall'[d].asked <= rlCall[x].asked
                                  \/ rlCall'[d].stage = "held" /\ rlNow < rlCall'[d].wake)
          BY <3>1 DEF RlAhead
        <4>2. CASE d # c
          BY <1>1, <4>1, <4>2 DEF RlAhead
        <4>3. CASE d = c
          <5>1. r.stage # "lock"
            BY <1>0, <1>1, <2>1, <2>3, <3>1, <4>1, <4>3
          <5>2. r.stage = "held" /\ rlCall[c].stage = "lock" /\ rlCall[c].asked <= rlCall[x].asked
            BY <1>1, <1>5, <3>1, <4>1, <4>3, <5>1
          <5> QED BY <3>1, <4>3, <5>2 DEF RlAhead
        <4> QED BY <4>2, <4>3
      <3>3. Cardinality(RlAhead(x)') <= Cardinality(RlAhead(x)) /\ Cardinality(RlAhead(x)') \in Nat /\ Cardinality(RlAhead(x)) \in Nat
            /\ Cardinality(RlCallers) \in Nat
        BY <2>1, <3>2, RlSizes
      <3>4. (rlNow - rlCall[x].asked) + Cardinality(RlAhead(x)) < Cardinality(RlCallers)
        BY <1>5, <3>1 DEF RlWaitInv
      <3> QED BY <1>0, <2>1, <3>1, <3>3, <3>4
    <2> QED BY <2>2, <2>3
  <1> QED BY <1>4, <1>5 DEF RlWaitInv

\* A tick passes; the nap of the holder is over with it.
LEMMA RlTickKeeps ==
  ASSUME RlLimiterInv, RlTick
  PROVE  RlLimiterInv'
  <1>0. /\ rlNow \in Nat /\ rlNow < RlMaxTime /\ RlMaxTime \in Nat /\ rlNow' = rlNow + 1 /\ rlCall \in [RlCallers -> RlCallRecord]
        /\ UNCHANGED <<rlBucket, rlBlocked, rlLock, rlCall, rlGrants>>
        /\ \A c \in RlCallers : rlCall[c].stage \in {"held", "retry"} => rlNow < rlCall[c].wake
        /\ rlLock = {} => \A c \in RlCallers : rlCall[c].stage # "lock"
    BY RlAssumption DEF RlTick, RlLimiterInv, RlTypes
  <1>1. \A d \in RlCallers : rlCall[d].asked \in Nat /\ rlCall[d].wake \in Nat
    BY <1>0 DEF RlCallRecord
  <1>2. RlTypes'
    BY <1>0 DEF RlLimiterInv, RlTypes
  <1>3. RlHeldInv'
    <2>1. \A c \in RlCallers : /\ rlCall[c].stage = "held" => rlNow + 1 <= rlCall[c].wake /\ rlCall[c].wake <= (rlNow + 1) + 1
                               /\ rlCall[c].stage = "lock" => rlCall[c].asked <= rlNow + 1
      BY <1>0, <1>1 DEF RlLimiterInv, RlHeldInv
    <2> QED BY <1>0, <2>1 DEF RlLimiterInv, RlHeldInv
  <1>4. RlRateInv'
    <2>1. ASSUME NEW ch \in RlChannels, RlChannelKept(rlBucket[ch], rlGrants[ch]) PROVE RlChannelKept(rlBucket[ch], rlGrants[ch])'
      <3>1. rlBucket[ch].at \in Nat
        BY DEF RlLimiterInv, RlTypes
      <3>2. rlBucket'[ch] = rlBucket[ch] /\ rlGrants'[ch] = rlGrants[ch] /\ rlBucket[ch].at <= rlNow'
        BY <1>0, <2>1, <3>1 DEF RlChannelKept
      <3> QED BY <1>0, <2>1, <3>2 DEF RlChannelKept
    <2> QED BY <1>0, <2>1 DEF RlLimiterInv, RlRateInv, RateKept
  <1>5. ASSUME NEW x \in RlCallers, rlCall[x].stage = "lock" PROVE (rlNow' - rlCall[x].asked) + Cardinality(RlAhead(x)') < Cardinality(RlCallers)
    <2>1. PICK h \in RlCallers : rlCall[h].stage = "held" /\ rlNow < rlCall[h].wake /\ rlCall[h].wake <= rlNow + 1
      BY <1>0, <1>5 DEF RlLimiterInv, RlHeldInv
    <2>2. RlAhead(x)' \in SUBSET RlCallers /\ RlAhead(x) \in SUBSET RlCallers
      BY DEF RlAhead
    <2>3. RlAhead(x)' \subseteq RlAhead(x)
      BY <1>0, <1>1 DEF RlAhead
    <2>4. h \in RlAhead(x) /\ h \notin RlAhead(x)'
      <3>1. ~(rlNow + 1 < rlCall[h].wake)
        BY <1>0, <1>1, <2>1
      <3> QED BY <1>0, <2>1, <3>1 DEF RlAhead
    <2>5. Cardinality(RlAhead(x)') < Cardinality(RlAhead(x)) /\ Cardinality(RlAhead(x)') \in Nat /\ Cardinality(RlAhead(x)) \in Nat
          /\ Cardinality(RlCallers) \in Nat
      BY <2>2, <2>3, <2>4, RlSizes
    <2>6. (rlNow - rlCall[x].asked) + Cardinality(RlAhead(x)) < Cardinality(RlCallers)
      BY <1>5 DEF RlLimiterInv, RlWaitInv
    <2> QED BY <1>0, <1>1, <2>5, <2>6
  <1>6. RlWaitInv'
    BY <1>0, <1>5 DEF RlWaitInv
  <1> QED BY <1>2, <1>3, <1>4, <1>6 DEF RlLimiterInv

\* A caller at rest.
LEMMA RlIdle == Idle \in RlCallRecord /\ Idle.stage = "idle"
  <1>1. (CHOOSE ch \in RlChannels : TRUE) \in RlChannels
    BY RlAssumption
  <1> QED BY <1>1 DEF Idle, RlCallRecord, RlStages

RlAsking(c) == Wakes(c) \/ \E ch \in RlChannels : Acquire(c, ch)

\* A caller asks, or wakes up and asks again, or gives up: nothing is granted.
LEMMA RlAsks ==
  ASSUME RlLimiterInv, NEW c \in RlCallers, RlAsking(c)
  PROVE  RlLimiterInv'
  <1>0. rlNow \in Nat /\ rlCall \in [RlCallers -> RlCallRecord] /\ rlCall[c] \in RlCallRecord /\ Idle \in RlCallRecord /\ Idle.stage = "idle"
    BY RlAssumption, RlIdle DEF RlLimiterInv, RlTypes
  <1>1. ASSUME NEW r \in RlCallRecord, rlCall' = [rlCall EXCEPT ![c] = r], UNCHANGED <<rlNow, rlBucket, rlBlocked, rlGrants>>,
               r.stage = "lock" => r.asked = rlNow, r.stage # "held",
               (rlLock' = rlLock /\ rlCall[c].stage # "held") \/ (rlLock = {c} /\ rlLock' = {})
        PROVE  RlLimiterInv'
    <2>1. RlHeldInv' /\ RlWaitInv'
      BY <1>1, RlCallMoves DEF RlLimiterInv
    <2>2. RlTypes'
      BY <1>0, <1>1 DEF RlLimiterInv, RlTypes
    <2>3. RlRateInv'
      BY <1>1 DEF RlLimiterInv, RlRateInv, RateKept, RlChannelKept
    <2> QED BY <2>1, <2>2, <2>3 DEF RlLimiterInv
  <1>2. ASSUME NEW ch \in RlChannels, Acquire(c, ch) PROVE RlLimiterInv'
    <2> DEFINE r == [stage |-> "lock", channel |-> ch, start |-> rlNow, asked |-> rlNow, wake |-> 0]
    <2>1. rlCall[c].stage = "idle" /\ rlCall' = [rlCall EXCEPT ![c] = r] /\ UNCHANGED <<rlNow, rlBucket, rlBlocked, rlGrants, rlLock>>
      BY <1>2 DEF Acquire
    <2>2. r \in RlCallRecord /\ r.stage = "lock" /\ r.asked = rlNow
      BY <1>0 DEF RlCallRecord, RlStages
    <2> HIDE DEF r
    <2> QED BY <1>1, <2>1, <2>2
  <1>3. ASSUME Wakes(c) PROVE RlLimiterInv'
    <2>1. rlCall[c].stage \in {"held", "retry"} /\ rlLock' = rlLock \ {c} /\ UNCHANGED <<rlNow, rlBucket, rlBlocked, rlGrants>>
      BY <1>3 DEF Wakes, Released
    <2>2. (rlLock' = rlLock /\ rlCall[c].stage # "held") \/ (rlLock = {c} /\ rlLock' = {})
      <3>1. rlLock = {} \/ \E d \in RlCallers : rlLock = {d}
        BY DEF RlLimiterInv, RlHeldInv
      <3>2. rlCall[c].stage = "held" <=> rlLock = {c}
        BY DEF RlLimiterInv, RlHeldInv
      <3> QED BY <2>1, <3>1, <3>2
    <2>3. CASE rlCall' = [rlCall EXCEPT ![c].stage = "lock", ![c].asked = rlNow]
      <3> DEFINE r == [rlCall[c] EXCEPT !.stage = "lock", !.asked = rlNow]
      <3>1. r \in RlCallRecord /\ r.stage = "lock" /\ r.asked = rlNow
        BY <1>0 DEF RlCallRecord, RlStages
      <3>2. rlCall' = [rlCall EXCEPT ![c] = r]
        BY <1>0, <2>3
      <3> HIDE DEF r
      <3> QED BY <1>1, <2>1, <2>2, <3>1, <3>2
    <2>4. CASE rlCall' = [rlCall EXCEPT ![c] = Idle]
      BY <1>0, <1>1, <2>1, <2>2, <2>4
    <2> QED BY <1>3, <2>3, <2>4 DEF Wakes, Ends
  <1> QED BY <1>2, <1>3 DEF RlAsking

\* A caller has the lock: it is refused, naps with the lock, sleeps without it, or is granted.
LEMMA RlLocked ==
  ASSUME RlLimiterInv, NEW c \in RlCallers, Locked(c)
  PROVE  RlLimiterInv'
  <1> DEFINE ch == rlCall[c].channel
  <1>0. rlNow \in Nat /\ rlNow <= RlMaxTime /\ RlMaxTime \in Nat /\ rlCall \in [RlCallers -> RlCallRecord] /\ rlCall[c] \in RlCallRecord /\ Idle \in RlCallRecord /\ Idle.stage = "idle"
    BY RlAssumption, RlIdle DEF RlLimiterInv, RlTypes
  <1>1. /\ rlCall[c].stage = "lock" /\ rlLock = {} /\ UNCHANGED <<rlNow, rlBlocked>> /\ ch \in RlChannels
        /\ \A d \in RlCallers : rlCall[d].stage = "lock" => rlCall[c].asked <= rlCall[d].asked
    BY <1>0 DEF Locked, RlCallRecord
  <1>2. ASSUME NEW r \in RlCallRecord, rlCall' = [rlCall EXCEPT ![c] = r], r.stage # "lock",
               (rlLock' = rlLock /\ r.stage # "held") \/ (rlLock' = {c} /\ r.stage = "held" /\ r.wake = rlNow + 1)
        PROVE  RlHeldInv' /\ RlWaitInv' /\ rlCall' \in [RlCallers -> RlCallRecord]
    <2>1. RlHeldInv' /\ RlWaitInv'
      BY <1>1, <1>2, RlCallMoves DEF RlLimiterInv
    <2> QED BY <1>0, <1>2, <2>1
  <1>3. ASSUME UNCHANGED <<rlBucket, rlGrants>>, RlHeldInv', RlWaitInv', rlCall' \in [RlCallers -> RlCallRecord] PROVE RlLimiterInv'
    <2>1. RlTypes'
      BY <1>1, <1>3 DEF RlLimiterInv, RlTypes
    <2>2. RlRateInv'
      BY <1>1, <1>3 DEF RlLimiterInv, RlRateInv, RateKept, RlChannelKept
    <2> QED BY <1>3, <2>1, <2>2 DEF RlLimiterInv
  <1>4. CASE Ends(c) /\ UNCHANGED <<rlLock, rlBucket, rlGrants>>
    BY <1>0, <1>2, <1>3, <1>4 DEF Ends
  <1>5. CASE Sleeps(c, "held", HeldFor(ch)) /\ rlLock' = {c} /\ UNCHANGED <<rlBucket, rlGrants>>
    <2> DEFINE r == [rlCall[c] EXCEPT !.stage = "held", !.wake = rlNow + 1]
    <2>a. \A x \in RlCallRecord, w \in Nat :
            /\ [x EXCEPT !.stage = "held", !.wake = w] \in RlCallRecord
            /\ [x EXCEPT !.stage = "held", !.wake = w].stage = "held" /\ [x EXCEPT !.stage = "held", !.wake = w].wake = w
      BY DEF RlCallRecord, RlStages
    <2>b. rlNow + 1 \in Nat
      BY <1>0
    <2>1. r \in RlCallRecord /\ r.stage = "held" /\ r.wake = rlNow + 1
      BY <1>0, <2>a, <2>b, Zenon
    <2>2. rlCall' = [rlCall EXCEPT ![c] = r]
      BY <1>0, <1>5 DEF Sleeps, HeldFor
    <2> HIDE DEF r
    <2> QED BY <1>2, <1>3, <1>5, <2>1, <2>2
  <1>6. CASE Sleeps(c, "retry", rlNow + 1) /\ UNCHANGED <<rlLock, rlBucket, rlGrants>>
    <2> DEFINE r == [rlCall[c] EXCEPT !.stage = "retry", !.wake = rlNow + 1]
    <2>a. \A x \in RlCallRecord, w \in Nat :
            /\ [x EXCEPT !.stage = "retry", !.wake = w] \in RlCallRecord
            /\ [x EXCEPT !.stage = "retry", !.wake = w].stage = "retry" /\ [x EXCEPT !.stage = "retry", !.wake = w].wake = w
      BY DEF RlCallRecord, RlStages
    <2>b. rlNow + 1 \in Nat
      BY <1>0
    <2>1. r \in RlCallRecord /\ r.stage = "retry"
      BY <1>0, <2>a, <2>b, Zenon
    <2>2. rlCall' = [rlCall EXCEPT ![c] = r]
      BY <1>0, <1>6 DEF Sleeps
    <2> HIDE DEF r
    <2> QED BY <1>2, <1>3, <1>6, <2>1, <2>2
  <1>7. CASE /\ Refilled(rlBucket[ch]) >= 1 /\ rlBucket' = [rlBucket EXCEPT ![ch] = Taken(ch)]
             /\ rlGrants' = [rlGrants EXCEPT ![ch] = Append(@, rlNow)] /\ Ends(c) /\ UNCHANGED rlLock
    <2> DEFINE b == rlBucket[ch]
               g == rlGrants[ch]
               d == [tokens |-> Refilled(b) - 1, at |-> rlNow]
               h == Append(g, rlNow)
    <2>1. RlHeldInv' /\ RlWaitInv' /\ rlCall' \in [RlCallers -> RlCallRecord]
      BY <1>0, <1>2, <1>7 DEF Ends
    <2>2. /\ b \in [tokens : Nat, at : Nat] /\ g \in Seq(Nat) /\ rlBucket \in [RlChannels -> [tokens : Nat, at : Nat]] /\ rlGrants \in [RlChannels -> Seq(Nat)]
      BY <1>1 DEF RlLimiterInv, RlTypes
    <2>3. /\ b # NoBucket => RlChannelKept(b, g)
          /\ b = NoBucket => g = <<>>
      BY <1>1 DEF RlLimiterInv, RlRateInv
    <2>4. \A i, j \in DOMAIN g : i <= j => j - i + 1 <= RlCapacity + (g[j] - g[i]) * RlRate
      BY <1>1 DEF RlLimiterInv, RlRateInv, RateKept
    <2>5. /\ d \in [tokens : Nat, at : Nat] /\ RlChannelKept(d, h)
          /\ \A i, j \in DOMAIN h : i <= j => j - i + 1 <= RlCapacity + (h[j] - h[i]) * RlRate
      BY <1>0, <1>7, <2>2, <2>3, <2>4, RlGrantKept
    <2>6. d # NoBucket
      <3>1. d.at = rlNow /\ NoBucket.at = RlMaxTime + 1
        BY DEF NoBucket
      <3> QED BY <1>0, <3>1
    <2>7. h \in Seq(Nat)
      BY <1>0, <2>2
    <2>8. rlBucket' = [rlBucket EXCEPT ![ch] = d] /\ rlGrants' = [rlGrants EXCEPT ![ch] = h]
      BY <1>7 DEF Taken
    <2> HIDE DEF d, h, b, g, ch
    <2>9. /\ rlBucket' \in [RlChannels -> [tokens : Nat, at : Nat]] /\ rlGrants' \in [RlChannels -> Seq(Nat)] /\ rlBucket'[ch] = d /\ rlGrants'[ch] = h
      BY <1>1, <2>2, <2>5, <2>7, <2>8
    <2>10. \A x \in RlChannels : x # ch => rlBucket'[x] = rlBucket[x] /\ rlGrants'[x] = rlGrants[x]
      BY <2>2, <2>8
    <2>11. RlTypes'
      BY <1>1, <2>1, <2>9 DEF RlLimiterInv, RlTypes
    <2>n. NoBucket' = NoBucket
      BY DEF NoBucket
    <2>k. ASSUME NEW x, NEW y, RlChannelKept(x, y) PROVE /\ x.tokens <= RlCapacity /\ x.at <= rlNow'
                  /\ \A i \in DOMAIN y : y[i] <= x.at /\ x.tokens + (Len(y) - i + 1) <= RlCapacity + (x.at - y[i]) * RlRate
      BY <1>1, <2>k DEF RlChannelKept
    <2>12. \A x \in RlChannels : /\ rlBucket'[x] = NoBucket => rlGrants'[x] = <<>>
                                 /\ rlBucket'[x] # NoBucket => RlChannelKept(rlBucket'[x], rlGrants'[x])
      BY <2>5, <2>6, <2>9, <2>10 DEF RlLimiterInv, RlRateInv
    <2>13. RateKept'
      <3> SUFFICES ASSUME NEW x \in RlChannels
                   PROVE  \A i, j \in DOMAIN rlGrants'[x] : i <= j => j - i + 1 <= RlCapacity + (rlGrants'[x][j] - rlGrants'[x][i]) * RlRate
        BY DEF RateKept
      <3>1. CASE x = ch
        BY <2>5, <2>9, <3>1
      <3>2. CASE x # ch
        BY <2>10, <3>2 DEF RlLimiterInv, RlRateInv, RateKept
      <3> QED BY <3>1, <3>2
    <2>14. \A x \in RlChannels : rlBucket'[x] # NoBucket => RlChannelKept(rlBucket[x], rlGrants[x])'
      BY <2>12, <2>k DEF RlChannelKept
    <2>15. RlRateInv'
      BY <2>12, <2>13, <2>14, <2>n DEF RlRateInv
    <2> QED BY <2>1, <2>11, <2>15 DEF RlLimiterInv
  <1> QED BY <1>4, <1>5, <1>6, <1>7 DEF Locked

\* What the other classes keep: the delay is capped, and the samples are those of the last deliveries.
RlOthersInv ==
    /\ rlReconn.state \in {"connected", "backoff", "failed"} /\ rlReconn.failures \in Nat /\ rlReconn.delay \in 0 .. MaxBackoff
    /\ rlStats.count \in Nat /\ rlStats.kept \in Seq(1 .. rlStats.count) /\ Len(rlStats.kept) <= rlStats.count /\ LastSamples

RlIInv == RlLimiterInv /\ RlOthersInv

\* A delivery is recorded.
LEMMA RlDelivers ==
  ASSUME RlOthersInv, RecordDelivery
  PROVE  RlOthersInv'
  <1> DEFINE q == rlStats.kept
             n == Len(q)
             k == rlStats.count
             a == Append(q, k + 1)
             f == Len(a) - Samples
  <1>1. k \in Nat /\ q \in Seq(1 .. k) /\ n \in Nat /\ n <= k /\ DOMAIN q = 1 .. n /\ \A i \in 1 .. n : q[i] = k - n + i
    BY DEF RlOthersInv, LastSamples
  <1>2. rlStats' = [count |-> k + 1, kept |-> Kept(a)] /\ rlReconn' = rlReconn
    BY DEF RecordDelivery
  <1>s. rlStats'.count = k + 1 /\ rlStats'.kept = Kept(a)
    BY <1>2
  <1>3. a \in Seq(1 .. k + 1) /\ Len(a) = n + 1 /\ \A i \in 1 .. n + 1 : a[i] = (k + 1) - (n + 1) + i
    <2>1. q \in Seq(1 .. k + 1)
      BY <1>1
    <2>2. a \in Seq(1 .. k + 1) /\ Len(a) = n + 1 /\ a[n + 1] = k + 1 /\ \A i \in 1 .. n : a[i] = q[i]
      BY <1>1, <2>1
    <2> HIDE DEF a, n, q, k
    <2> QED BY <1>1, <2>2
  <1>4. Samples \in Nat \ {0}
    BY RlAssumption
  <1> HIDE DEF a, n, q, k
  <1>5. \E m \in Nat : /\ m <= k + 1 /\ Kept(a) \in Seq(1 .. k + 1) /\ Len(Kept(a)) = m /\ \A i \in 1 .. m : Kept(a)[i] = (k + 1) - m + i
    <2>1. CASE ~(Len(a) > Samples)
      BY <1>1, <1>3, <2>1 DEF Kept
    <2>2. CASE Len(a) > Samples
      <3>1. Kept(a) = SubSeq(a, f + 1, Len(a))
        BY <1>3, <2>2 DEF Kept
      <3>2. f \in Nat /\ f + Samples = n + 1 /\ Samples <= k + 1
        BY <1>1, <1>3, <1>4, <2>2
      <3> HIDE DEF f
      <3>3. SubSeq(a, f + 1, n + 1) \in Seq(1 .. k + 1) /\ Len(SubSeq(a, f + 1, n + 1)) = Samples
            /\ \A i \in 1 .. Samples : SubSeq(a, f + 1, n + 1)[i] = a[f + i]
        BY <1>1, <1>3, <1>4, <3>2
      <3>4. \A i \in 1 .. Samples : f + i \in 1 .. n + 1 /\ (k + 1) - (n + 1) + (f + i) = (k + 1) - Samples + i
        BY <1>1, <1>4, <3>2
      <3>5. Samples \in Nat /\ Kept(a) = SubSeq(a, f + 1, n + 1)
        BY <1>3, <1>4, <3>1
      <3>6. \A i \in 1 .. Samples : Kept(a)[i] = (k + 1) - Samples + i
        BY <1>3, <3>3, <3>4, <3>5
      <3> QED BY <3>2, <3>3, <3>5, <3>6
    <2> QED BY <2>1, <2>2
  <1>6. PICK m \in Nat : m <= k + 1 /\ Kept(a) \in Seq(1 .. k + 1) /\ Len(Kept(a)) = m /\ \A i \in 1 .. m : Kept(a)[i] = (k + 1) - m + i
    BY <1>5
  <1>7. DOMAIN Kept(a) = 1 .. m
    BY <1>6
  <1>8. LastSamples'
    BY <1>6, <1>7, <1>s DEF LastSamples
  <1> QED BY <1>1, <1>2, <1>6, <1>8, <1>s DEF RlOthersInv

\* Doubling is defined for any number of failures.
LEMMA RlDoublingExists ==
  ASSUME NEW m \in Nat
  PROVE  \E f : f = [k \in 0 .. m |-> IF k = 0 THEN 1 ELSE 2 * f[k - 1]]
  <1> DEFINE Ok(k) == \E f : f = [n \in 0 .. k |-> IF n = 0 THEN 1 ELSE 2 * f[n - 1]]
             T == {k \in Nat : ~Ok(k)}
  <1>1. Ok(0)
    <2> DEFINE f == [n \in 0 .. 0 |-> 1]
    <2>1. f = [n \in 0 .. 0 |-> IF n = 0 THEN 1 ELSE 2 * f[n - 1]]
      OBVIOUS
    <2> QED BY <2>1
  <1>2. ASSUME NEW k \in Nat, Ok(k) PROVE Ok(k + 1)
    <2>1. PICK g : g = [n \in 0 .. k |-> IF n = 0 THEN 1 ELSE 2 * g[n - 1]]
      BY <1>2
    <2> DEFINE f == [n \in 0 .. k + 1 |-> IF n = k + 1 THEN 2 * g[k] ELSE g[n]]
               h == [n \in 0 .. k + 1 |-> IF n = 0 THEN 1 ELSE 2 * f[n - 1]]
    <2>2. \A n \in 0 .. k : f[n] = g[n]
      BY <1>2
    <2>3. ASSUME NEW n \in 0 .. k + 1 PROVE f[n] = h[n]
      <3>1. CASE n = 0
        <4>1. g[0] = 1 /\ f[0] = g[0] /\ 0 \in 0 .. k
          BY <2>1, <2>2
        <4> QED BY <3>1, <4>1
      <3>2. CASE n \in 1 .. k
        <4>1. n - 1 \in 0 .. k /\ n \in 0 .. k /\ n # 0
          BY <3>2
        <4>2. f[n] = g[n] /\ f[n - 1] = g[n - 1]
          BY <2>2, <4>1
        <4>3. g[n] = 2 * g[n - 1]
          BY <2>1, <4>1
        <4>4. h[n] = 2 * f[n - 1]
          BY <2>3, <4>1
        <4> QED BY <4>2, <4>3, <4>4
      <3>3. CASE n = k + 1
        <4>1. n - 1 = k /\ k \in 0 .. k /\ n # 0
          BY <3>3
        <4>2. f[n] = 2 * g[k]
          BY <2>3, <3>3
        <4>3. h[n] = 2 * f[k]
          BY <2>3, <4>1
        <4> QED BY <2>2, <4>1, <4>2, <4>3
      <3> QED BY <2>3, <3>1, <3>2, <3>3
    <2>4. DOMAIN f = 0 .. k + 1 /\ DOMAIN h = 0 .. k + 1 /\ f = [n \in 0 .. k + 1 |-> f[n]] /\ h = [n \in 0 .. k + 1 |-> h[n]]
      OBVIOUS
    <2>5. f = h
      <3> HIDE DEF f, h
      <3> QED BY <2>3, <2>4
    <2> QED BY <2>5
  <1> HIDE DEF Ok
  <1>3. T = {}
    <2> SUFFICES ASSUME T # {} PROVE FALSE
      OBVIOUS
    <2>2. PICK t \in T : \A u \in T : t <= u
      BY LeastNumber
    <2>3. t # 0 /\ t \in Nat /\ ~Ok(t)
      BY <1>1
    <2>4. t - 1 \in Nat /\ ~(t <= t - 1) /\ (t - 1) + 1 = t
      BY <2>3
    <2>5. Ok(t - 1)
      BY <2>2, <2>4
    <2>6. Ok((t - 1) + 1)
      BY <1>2, <2>4, <2>5
    <2> QED BY <2>3, <2>4, <2>6
  <1>4. Ok(m)
    BY <1>3
  <1> QED BY <1>4 DEF Ok

\* A doubled delay is a number.
LEMMA RlDoubled ==
  ASSUME NEW m \in Nat
  PROVE  Doubled(m) \in Nat
  <1> DEFINE Rec(f) == f = [k \in 0 .. m |-> IF k = 0 THEN 1 ELSE 2 * f[k - 1]]
             delay == CHOOSE f : Rec(f)
             T == {k \in 0 .. m : delay[k] \notin Nat}
  <1>1. Doubled(m) = delay[m]
    BY DEF Doubled
  <1>2. \E f : Rec(f)
    BY RlDoublingExists
  <1>3. Rec(delay)
    <2> HIDE DEF Rec
    <2> QED BY <1>2
  <1>4. \A k \in 0 .. m : delay[k] = IF k = 0 THEN 1 ELSE 2 * delay[k - 1]
    <2> HIDE DEF delay
    <2> QED BY <1>3, Zenon
  <1> HIDE DEF delay
  <1>5. T = {}
    <2> SUFFICES ASSUME T # {} PROVE FALSE
      OBVIOUS
    <2>1. T \in SUBSET Nat
      OBVIOUS
    <2>2. PICK t \in T : \A u \in T : t <= u
      BY <2>1, LeastNumber
    <2>3. t \in 0 .. m /\ delay[t] \notin Nat /\ t # 0
      BY <1>4
    <2>4. t - 1 \in 0 .. m /\ ~(t <= t - 1)
      BY <2>3
    <2>5. delay[t - 1] \in Nat
      BY <2>2, <2>4
    <2>6. delay[t] = 2 * delay[t - 1]
      BY <1>4, <2>3
    <2> QED BY <2>3, <2>5, <2>6
  <1> QED BY <1>1, <1>5

\* A delay is at least nothing and at most max_delay, after any number of failures.
LEMMA RlDelays ==
  ASSUME NEW f \in Nat
  PROVE  BaseDelay(f + 1) \in 0 .. MaxBackoff
  <1>1. (f + 1) - 1 = f /\ Doubled(f) \in Nat /\ MaxBackoff \in Nat
    BY RlDoubled, RlAssumption
  <1>2. BaseDelay(f + 1) = IF Doubled(f) < MaxBackoff THEN Doubled(f) ELSE MaxBackoff
    BY <1>1, Zenon DEF BaseDelay
  <1> QED BY <1>1, <1>2

\* Every step of the limits of the channels keeps their invariant.
LEMMA RlStep == RlIInv /\ [RlNext]_rlVars => RlIInv'
  <1> SUFFICES ASSUME RlIInv, [RlNext]_rlVars PROVE RlIInv'
    OBVIOUS
  <1>0. RlLimiterInv /\ RlOthersInv
    BY DEF RlIInv
  <1>a. ASSUME UNCHANGED <<rlNow, rlBucket, rlBlocked, rlLock, rlCall, rlGrants>> PROVE RlLimiterInv'
    <2>1. RlTypes' /\ RlHeldInv' /\ RlWaitInv'
      BY <1>0, <1>a DEF RlLimiterInv, RlTypes, RlHeldInv, RlWaitInv, RlAhead
    <2>2. RlRateInv'
      BY <1>0, <1>a DEF RlLimiterInv, RlRateInv, RateKept, RlChannelKept
    <2> QED BY <2>1, <2>2 DEF RlLimiterInv
  <1>b. ASSUME UNCHANGED <<rlReconn, rlStats>> PROVE RlOthersInv'
    BY <1>0, <1>b DEF RlOthersInv, LastSamples
  <1>1. CASE RlStart
    BY <1>1, <1>a, <1>b DEF RlStart, limiter, RlIInv
  <1>2. CASE RlTick
    BY <1>0, <1>2, <1>b, RlTickKeeps DEF RlTick, RlIInv
  <1>3. CASE RecordFailure
    <2>1. UNCHANGED <<limiter, rlStats>> /\ rlReconn'.state \in {"connected", "backoff", "failed"} /\ rlReconn'.delay = BaseDelay(rlReconn.failures + 1)
          /\ rlReconn'.failures = rlReconn.failures + 1
      BY <1>3 DEF RecordFailure
    <2>2. BaseDelay(rlReconn.failures + 1) \in 0 .. MaxBackoff
      BY <1>0, RlDelays DEF RlOthersInv
    <2>3. RlOthersInv'
      BY <1>0, <2>1, <2>2 DEF RlOthersInv, LastSamples
    <2> QED BY <1>a, <2>1, <2>3 DEF limiter, RlIInv
  <1>4. CASE RecordSuccess
    <2>1. UNCHANGED <<limiter, rlStats>> /\ rlReconn'.state = "connected" /\ rlReconn'.delay = 0 /\ rlReconn'.failures = 0
      BY <1>4 DEF RecordSuccess
    <2>2. RlOthersInv'
      BY <1>0, <2>1, RlAssumption DEF RlOthersInv, LastSamples
    <2> QED BY <1>a, <2>1, <2>2 DEF limiter, RlIInv
  <1>5. CASE RecordDelivery
    BY <1>0, <1>5, <1>a, RlDelivers DEF RecordDelivery, limiter, RlIInv
  <1>6. ASSUME NEW c \in RlCallers, Locked(c) PROVE RlIInv'
    BY <1>0, <1>6, <1>b, RlLocked DEF Locked, RlIInv
  <1>7. ASSUME NEW c \in RlCallers, Wakes(c) PROVE RlIInv'
    <2>1. UNCHANGED <<rlReconn, rlStats>> /\ RlAsking(c)
      BY <1>7 DEF Wakes, RlAsking
    <2>2. RlLimiterInv'
      BY <1>0, <2>1, RlAsks
    <2> QED BY <1>b, <2>1, <2>2 DEF RlIInv
  <1>8. ASSUME NEW c \in RlCallers, NEW ch \in RlChannels, Acquire(c, ch) PROVE RlIInv'
    <2>1. UNCHANGED <<rlReconn, rlStats>> /\ RlAsking(c)
      BY <1>8 DEF Acquire, RlAsking
    <2>2. RlLimiterInv'
      BY <1>0, <2>1, RlAsks
    <2> QED BY <1>b, <2>1, <2>2 DEF RlIInv
  <1>9. ASSUME NEW ch \in RlChannels, NEW d \in 1 .. RlTimeout, ReportRateLimit(ch, d) PROVE RlIInv'
    <2>1. rlBlocked' = [rlBlocked EXCEPT ![ch] = rlNow + d] /\ UNCHANGED <<rlNow, rlBucket, rlLock, rlCall, rlGrants, rlReconn, rlStats>>
      BY <1>9 DEF ReportRateLimit
    <2>2. RlTypes'
      BY SMTT(20), <1>0, <2>1, RlAssumption DEF RlLimiterInv, RlTypes
    <2>3. RlHeldInv' /\ RlWaitInv'
      BY <1>0, <2>1 DEF RlLimiterInv, RlHeldInv, RlWaitInv, RlAhead
    <2>4. RlRateInv'
      BY <1>0, <2>1 DEF RlLimiterInv, RlRateInv, RateKept, RlChannelKept
    <2> QED BY <1>b, <2>1, <2>2, <2>3, <2>4 DEF RlLimiterInv, RlIInv
  <1>10. CASE UNCHANGED rlVars
    BY <1>10, <1>a, <1>b DEF rlVars, RlIInv
  <1> QED BY <1>1, <1>2, <1>3, <1>4, <1>5, <1>6, <1>7, <1>8, <1>9, <1>10 DEF RlNext

\* At first nothing was asked for, and the invariant implies the properties.
LEMMA RlFacts == (RlInit => RlIInv) /\ (RlIInv => RlTypeOK /\ RateKept /\ LastSamples /\ LockSoon)
  <1>1. ASSUME RlInit PROVE RlIInv
    <2>1. RlTypes
      BY <1>1, RlAssumption, RlIdle DEF RlInit, RlTypes, NoBucket
    <2>2. \A c \in RlCallers : rlCall[c].stage = "idle"
      BY <1>1, RlIdle DEF RlInit
    <2>3. RlHeldInv /\ RlWaitInv
      BY <1>1, <2>2 DEF RlInit, RlHeldInv, RlWaitInv
    <2>4. \A ch \in RlChannels : rlBucket[ch] = NoBucket /\ rlGrants[ch] = <<>>
      BY <1>1 DEF RlInit
    <2>5. RlRateInv
      BY <2>4 DEF RlRateInv, RateKept
    <2>6. RlOthersInv
      BY <1>1, RlAssumption DEF RlInit, RlOthersInv, LastSamples
    <2> QED BY <2>1, <2>3, <2>5, <2>6 DEF RlIInv, RlLimiterInv
  <1>2. ASSUME RlIInv PROVE RlTypeOK
    <2>1. rlNow \in 0 .. RlMaxTime /\ rlLock \subseteq RlCallers
      BY <1>2 DEF RlIInv, RlLimiterInv, RlTypes, RlHeldInv
    <2>2. \A ch \in RlChannels : rlBucket[ch] = NoBucket \/ rlBucket[ch].tokens \in 0 .. RlCapacity
      BY <1>2, RlAssumption DEF RlIInv, RlLimiterInv, RlTypes, RlRateInv, RlChannelKept
    <2>3. \A c \in RlCallers : rlCall[c].stage \in {"idle", "lock", "held", "retry"}
      BY <1>2 DEF RlIInv, RlLimiterInv, RlTypes, RlCallRecord, RlStages
    <2> QED BY <1>2, <2>1, <2>2, <2>3 DEF RlTypeOK, RlIInv, RlLimiterInv, RlHeldInv, RlOthersInv
  <1>3. ASSUME RlIInv PROVE LockSoon
    <2> SUFFICES ASSUME NEW c \in RlCallers, rlCall[c].stage = "lock" PROVE rlNow - rlCall[c].asked < Cardinality(RlCallers)
      BY DEF LockSoon
    <2>1. rlNow \in Nat /\ rlCall[c].asked \in Nat
      BY <1>3 DEF RlIInv, RlLimiterInv, RlTypes, RlCallRecord
    <2>2. (rlNow - rlCall[c].asked) + Cardinality(RlAhead(c)) < Cardinality(RlCallers)
      BY <1>3 DEF RlIInv, RlLimiterInv, RlWaitInv
    <2>3. Cardinality(RlAhead(c)) \in Nat /\ Cardinality(RlCallers) \in Nat
      <3>1. RlAhead(c) \in SUBSET RlCallers
        BY DEF RlAhead
      <3> QED BY <3>1, RlSizes
    <2> QED BY <2>1, <2>2, <2>3
  <1> QED BY <1>1, <1>2, <1>3 DEF RlIInv, RlLimiterInv, RlRateInv, RlOthersInv

-----------------------------------------------------------------------------
(* Circuit breaker and bulkhead *)

CbOutcome == [ok : BOOLEAN, at : Nat]
CbStages == {"idle", "call", "open", "reading", "inside"}

CbTypes ==
    /\ cbNow \in Nat /\ cbState \in {"closed", "open"} /\ cbFailures \in Nat /\ cbSuccesses \in 0 .. CbProbes - 1
    /\ cbLastFailure \in Nat /\ cbLastFailure <= cbNow /\ cbConsecutive \in Nat
    /\ cbHistory \in Seq(BOOLEAN) /\ Len(cbHistory) <= CbWindow /\ cbLog \in Seq(CbOutcome)

\* The callers inside are counted, and nobody waits.
CbInside == {c \in CbCalls : cbCall[c] = "inside"}
BhInv == cbCall \in [CbCalls -> CbStages] /\ bhActive = Cardinality(CbInside) /\ bhFree = BhMax - bhActive /\ bhActive \in 0 .. BhMax

\* A closed circuit counts the failures at the end of the log, exactly.
CbRunCounted(state, failures, log) ==
    state = "closed" =>
        /\ failures < CbThreshold /\ failures <= Len(log)
        /\ \A i \in DOMAIN log : i > Len(log) - failures => ~log[i].ok
        /\ failures = Len(log) \/ log[Len(log) - failures].ok

\* The successes that are counted are the last outcomes and came a recovery time after the last failure.
CbProbesCounted(state, successes, last, log) ==
    /\ state = "closed" => successes = 0
    /\ successes > 0 => cbNow - last >= CbRecovery
    /\ successes <= Len(log)
    /\ \A i \in DOMAIN log : i > Len(log) - successes => log[i].ok /\ log[i].at - last >= CbRecovery
    /\ \A i \in DOMAIN log : ~log[i].ok => log[i].at <= last

CbCountedInv == CbRunCounted(cbState, cbFailures, cbLog) /\ CbProbesCounted(cbState, cbSuccesses, cbLastFailure, cbLog)

CbIInv == CbTypes /\ BhInv /\ CbCountedInv

\* The last elements of a sequence.
LEMMA CbLastOfType ==
  ASSUME NEW S, NEW q \in Seq(S), NEW n \in Nat \ {0}
  PROVE  CbLastOf(q, n) \in Seq(S) /\ Len(CbLastOf(q, n)) <= n
  <1>1. Len(q) \in Nat
    OBVIOUS
  <1>2. CASE ~(Len(q) > n)
    BY <1>1, <1>2 DEF CbLastOf
  <1>3. CASE Len(q) > n
    <2> DEFINE a == Len(q) - n + 1
    <2>1. CbLastOf(q, n) = SubSeq(q, a, Len(q)) /\ a \in 1 .. Len(q)
      BY <1>1, <1>3 DEF CbLastOf
    <2>2. SubSeq(q, a, Len(q)) \in Seq(S) /\ Len(SubSeq(q, a, Len(q))) = Len(q) - a + 1
      BY <1>1, <2>1
    <2> QED BY <1>1, <2>1, <2>2
  <1> QED BY <1>2, <1>3

\* A success is recorded: the run of failures ends, and a probe is counted if it is one.
LEMMA CbSuccessKeeps ==
  ASSUME CbTypes, CbCountedInv, CbRecordSuccess, cbNow' = cbNow
  PROVE  CbTypes' /\ CbCountedInv' /\ (cbState = "closed" => cbState' = "closed")
         /\ (cbState = "open" /\ cbState' = "closed" =>
               \A i \in DOMAIN cbLog' : i > Len(cbLog') - CbProbes =>
                  cbLog'[i].ok /\ \A j \in DOMAIN cbLog' : ~cbLog'[j].ok => cbLog'[i].at - cbLog'[j].at >= CbRecovery)
  <1> DEFINE x == [ok |-> TRUE, at |-> cbNow]
             n == Len(cbLog)
             m == n + 1
  <1>0. /\ cbNow \in Nat /\ cbSuccesses \in Nat /\ cbSuccesses <= CbProbes - 1 /\ cbLastFailure \in Nat /\ cbLastFailure <= cbNow /\ cbFailures \in Nat
        /\ cbLog \in Seq(CbOutcome) /\ cbHistory \in Seq(BOOLEAN) /\ cbState \in {"closed", "open"}
        /\ CbProbes \in Nat \ {0} /\ CbThreshold \in Nat \ {0} /\ CbRecovery \in Nat \ {0} /\ CbWindow \in Nat \ {0}
    BY CbAssumption DEF CbTypes
  <1>1. cbLog' = Append(cbLog, x) /\ cbHistory' = CbLastOf(Append(cbHistory, TRUE), CbWindow) /\ cbConsecutive' \in Nat /\ cbLastFailure' = cbLastFailure
    BY DEF CbRecordSuccess, CbRecordCall, InARow
  <1>2. x \in CbOutcome /\ x.ok /\ x.at = cbNow
    BY <1>0 DEF CbOutcome
  <1>3. n \in Nat /\ DOMAIN cbLog = 1 .. n /\ \A i \in 1 .. n : cbLog[i] \in CbOutcome
    BY <1>0, SeqFacts
  <1>a. \A i \in 1 .. n : cbLog[i].at \in Nat
    BY <1>3 DEF CbOutcome
  <1> HIDE DEF x
  <1>4. /\ cbLog' \in Seq(CbOutcome) /\ Len(cbLog') = m /\ DOMAIN cbLog' = DOMAIN cbLog \union {m} /\ cbLog'[m] = x
        /\ \A i \in DOMAIN cbLog : cbLog'[i] = cbLog[i]
    BY <1>0, <1>1, <1>2, Appended
  <1>5. cbHistory' \in Seq(BOOLEAN) /\ Len(cbHistory') <= CbWindow
    <2>1. Append(cbHistory, TRUE) \in Seq(BOOLEAN)
      BY <1>0
    <2> QED BY <1>0, <1>1, <2>1, CbLastOfType
  <1>f. \A i \in DOMAIN cbLog' : ~cbLog'[i].ok => cbLog'[i].at <= cbLastFailure /\ cbLog'[i].at \in Nat
    BY <1>2, <1>3, <1>4, <1>a DEF CbCountedInv, CbProbesCounted
  <1>6. CASE Effective(cbState, cbLastFailure) = "half_open"
    <2>1. cbState = "open" /\ cbNow - cbLastFailure >= CbRecovery
      BY <1>0, <1>6 DEF Effective
    <2>2. \A i \in DOMAIN cbLog' : i > m - (cbSuccesses + 1) => cbLog'[i].ok /\ cbLog'[i].at - cbLastFailure >= CbRecovery /\ cbLog'[i].at \in Nat
      <3> SUFFICES ASSUME NEW i \in DOMAIN cbLog', i > m - (cbSuccesses + 1)
                   PROVE  cbLog'[i].ok /\ cbLog'[i].at - cbLastFailure >= CbRecovery /\ cbLog'[i].at \in Nat
        OBVIOUS
      <3>1. CASE i = m
        BY <1>0, <1>2, <1>4, <2>1, <3>1
      <3>2. CASE i # m
        <4>1. i \in 1 .. n /\ i > n - cbSuccesses
          BY <1>0, <1>3, <1>4, <3>2
        <4>2. cbLog[i].ok /\ cbLog[i].at - cbLastFailure >= CbRecovery
          BY <1>3, <4>1 DEF CbCountedInv, CbProbesCounted
        <4> QED BY <1>3, <1>4, <1>a, <4>1, <4>2
      <3> QED BY <3>1, <3>2
    <2>3. CASE Recovered
      <3>1. cbState' = "closed" /\ cbFailures' = 0 /\ cbSuccesses' = 0
        BY <1>6, <2>3 DEF CbRecordSuccess
      <3>2. cbSuccesses + 1 = CbProbes
        BY <1>0, <2>3 DEF Recovered
      <3>z. 0 \in 0 .. CbProbes - 1 /\ 0 \in Nat
        BY <1>0
      <3>3. CbTypes'
        BY <1>0, <1>1, <1>4, <1>5, <3>1, <3>z, Zenon DEF CbTypes
      <3>4. CbRunCounted(cbState, cbFailures, cbLog)'
        BY <1>0, <1>2, <1>3, <1>4, <3>1 DEF CbRunCounted
      <3>5. CbProbesCounted(cbState, cbSuccesses, cbLastFailure, cbLog)'
        BY <1>0, <1>1, <1>3, <1>4, <1>f, <3>1 DEF CbProbesCounted
      <3>6. ASSUME NEW i \in DOMAIN cbLog', i > m - CbProbes, NEW j \in DOMAIN cbLog', ~cbLog'[j].ok PROVE cbLog'[i].at - cbLog'[j].at >= CbRecovery
        <4>1. cbLog'[i].at - cbLastFailure >= CbRecovery /\ cbLog'[i].at \in Nat
          BY <2>2, <3>2, <3>6
        <4>2. cbLog'[j].at <= cbLastFailure /\ cbLog'[j].at \in Nat
          BY <1>f, <3>6
        <4> QED BY <1>0, <4>1, <4>2
      <3> QED BY <1>4, <2>1, <2>2, <3>2, <3>3, <3>4, <3>5, <3>6 DEF CbCountedInv
    <2>4. CASE ~Recovered
      <3>1. cbState' = cbState /\ cbFailures' = cbFailures /\ cbSuccesses' = cbSuccesses + 1
        BY <1>6, <2>4 DEF CbRecordSuccess
      <3>2. cbSuccesses + 1 <= CbProbes - 1
        BY <1>0, <2>4 DEF Recovered
      <3>z. cbSuccesses + 1 \in 0 .. CbProbes - 1
        BY <1>0, <3>2
      <3>3. CbTypes'
        BY <1>0, <1>1, <1>4, <1>5, <3>1, <3>z, Zenon DEF CbTypes
      <3>4. CbRunCounted(cbState, cbFailures, cbLog)'
        BY <2>1, <3>1 DEF CbRunCounted
      <3>5. cbSuccesses + 1 <= m
        BY <1>0, <1>3 DEF CbCountedInv, CbProbesCounted
      <3>6. CbProbesCounted(cbState, cbSuccesses, cbLastFailure, cbLog)'
        BY <1>1, <1>4, <1>f, <2>1, <2>2, <3>1, <3>5 DEF CbProbesCounted
      <3> QED BY <2>1, <3>1, <3>3, <3>4, <3>6 DEF CbCountedInv
    <2> QED BY <2>3, <2>4
  <1>7. CASE Effective(cbState, cbLastFailure) = "closed"
    <2>1. cbState = "closed" /\ cbState' = "closed" /\ cbFailures' = 0 /\ cbSuccesses' = cbSuccesses
      BY <1>7 DEF CbRecordSuccess, Effective, Cleared
    <2>2. cbSuccesses = 0
      BY <2>1 DEF CbCountedInv, CbProbesCounted
    <2>3. CbTypes'
      BY <1>0, <1>1, <1>4, <1>5, <2>1, <2>2 DEF CbTypes
    <2>4. CbRunCounted(cbState, cbFailures, cbLog)'
      BY <1>0, <1>2, <1>3, <1>4, <2>1 DEF CbRunCounted
    <2>5. CbProbesCounted(cbState, cbSuccesses, cbLastFailure, cbLog)'
      BY <1>0, <1>1, <1>3, <1>4, <1>f, <2>1, <2>2 DEF CbProbesCounted
    <2> QED BY <2>1, <2>3, <2>4, <2>5 DEF CbCountedInv
  <1>8. CASE Effective(cbState, cbLastFailure) = "open"
    <2>1. cbState = "open" /\ ~(cbNow - cbLastFailure >= CbRecovery)
      BY <1>0, <1>8 DEF Effective
    <2>2. cbState' = cbState /\ cbFailures' = cbFailures /\ cbSuccesses' = cbSuccesses
      BY <1>8 DEF CbRecordSuccess
    <2>3. cbSuccesses = 0
      BY <1>0, <2>1 DEF CbCountedInv, CbProbesCounted
    <2>4. CbTypes'
      BY <1>0, <1>1, <1>4, <1>5, <2>2 DEF CbTypes
    <2>5. CbRunCounted(cbState, cbFailures, cbLog)'
      BY <2>1, <2>2 DEF CbRunCounted
    <2>6. CbProbesCounted(cbState, cbSuccesses, cbLastFailure, cbLog)'
      BY <1>0, <1>1, <1>3, <1>4, <1>f, <2>1, <2>2, <2>3 DEF CbProbesCounted
    <2> QED BY <2>1, <2>2, <2>4, <2>5, <2>6 DEF CbCountedInv
  <1> QED BY <1>0, <1>6, <1>7, <1>8 DEF Effective

\* A failure is recorded: it is one more of its run, and the circuit opens if they are enough or if it was open.
LEMMA CbFailureKeeps ==
  ASSUME CbTypes, CbCountedInv, CbRecordFailure, cbNow' = cbNow
  PROVE  /\ CbTypes' /\ CbCountedInv'
         /\ cbState = "open" => cbState' = "open"
         /\ cbState = "closed" /\ cbState' = "open" =>
              Len(cbLog') >= CbThreshold /\ \A i \in DOMAIN cbLog' : i > Len(cbLog') - CbThreshold => ~cbLog'[i].ok
         /\ cbLastFailure' = cbNow /\ cbHistory' = CbLastOf(Append(cbHistory, FALSE), CbWindow) /\ cbConsecutive' = cbConsecutive + 1
  <1> DEFINE x == [ok |-> FALSE, at |-> cbNow]
             n == Len(cbLog)
             m == n + 1
             f == cbFailures + 1
  <1>0. /\ cbNow \in Nat /\ cbLastFailure \in Nat /\ cbLastFailure <= cbNow /\ cbFailures \in Nat /\ cbConsecutive \in Nat
        /\ cbLog \in Seq(CbOutcome) /\ cbHistory \in Seq(BOOLEAN) /\ cbState \in {"closed", "open"}
        /\ CbProbes \in Nat \ {0} /\ CbThreshold \in Nat \ {0} /\ CbRecovery \in Nat \ {0} /\ CbWindow \in Nat \ {0}
    BY CbAssumption DEF CbTypes
  <1>1. /\ cbLog' = Append(cbLog, x) /\ cbHistory' = CbLastOf(Append(cbHistory, FALSE), CbWindow) /\ cbConsecutive' = cbConsecutive + 1
        /\ cbLastFailure' = cbNow /\ cbFailures' = f /\ cbSuccesses' = 0
        /\ cbState' = IF Effective(cbState, cbNow) = "half_open" \/ Trips(f) THEN "open" ELSE cbState
    BY DEF CbRecordFailure, CbRecordCall, InARow
  <1>e. Effective(cbState, cbNow) = cbState
    BY <1>0 DEF Effective
  <1>s. cbState' = IF f >= CbThreshold THEN "open" ELSE cbState
    BY <1>0, <1>1, <1>e DEF Trips
  <1>2. x \in CbOutcome /\ ~x.ok /\ x.at = cbNow
    BY <1>0 DEF CbOutcome
  <1>3. n \in Nat /\ DOMAIN cbLog = 1 .. n /\ \A i \in 1 .. n : cbLog[i] \in CbOutcome
    BY <1>0, SeqFacts
  <1>a. \A i \in 1 .. n : cbLog[i].at \in Nat
    BY <1>3 DEF CbOutcome
  <1> HIDE DEF x
  <1>4. /\ cbLog' \in Seq(CbOutcome) /\ Len(cbLog') = m /\ DOMAIN cbLog' = DOMAIN cbLog \union {m} /\ cbLog'[m] = x
        /\ \A i \in DOMAIN cbLog : cbLog'[i] = cbLog[i]
    BY <1>0, <1>1, <1>2, Appended
  <1>5. cbHistory' \in Seq(BOOLEAN) /\ Len(cbHistory') <= CbWindow
    <2>1. Append(cbHistory, FALSE) \in Seq(BOOLEAN)
      BY <1>0
    <2> QED BY <1>0, <1>1, <2>1, CbLastOfType
  <1>6. CbTypes'
    <2>1. 0 \in 0 .. CbProbes - 1 /\ f \in Nat /\ cbConsecutive + 1 \in Nat /\ cbNow <= cbNow
      BY <1>0
    <2>2. cbState' \in {"closed", "open"}
      BY <1>0, <1>s
    <2> HIDE DEF f
    <2> QED BY <1>0, <1>1, <1>4, <1>5, <2>1, <2>2, Zenon DEF CbTypes
  <1>7. CbProbesCounted(cbState, cbSuccesses, cbLastFailure, cbLog)'
    <2>1. \A i \in DOMAIN cbLog' : ~cbLog'[i].ok => cbLog'[i].at <= cbNow
      <3> SUFFICES ASSUME NEW i \in DOMAIN cbLog', ~cbLog'[i].ok PROVE cbLog'[i].at <= cbNow
        OBVIOUS
      <3>1. CASE i = m
        BY <1>0, <1>2, <1>4, <3>1
      <3>2. CASE i # m
        <4>1. i \in 1 .. n /\ cbLog'[i] = cbLog[i]
          BY <1>3, <1>4, <3>2
        <4>2. cbLog[i].at <= cbLastFailure
          BY <1>3, <4>1 DEF CbCountedInv, CbProbesCounted
        <4> QED BY <1>0, <1>a, <4>1, <4>2
      <3> QED BY <3>1, <3>2
    <2>2. m - 0 = m /\ 0 <= m /\ ~(0 > 0) /\ \A i \in DOMAIN cbLog' : ~(i > m - 0)
      BY <1>3, <1>4
    <2> QED BY <1>1, <1>4, <2>1, <2>2 DEF CbProbesCounted
  <1>8. ASSUME cbState = "closed"
        PROVE  f <= m /\ (\A i \in DOMAIN cbLog' : i > m - f => ~cbLog'[i].ok) /\ (f = m \/ cbLog'[m - f].ok) /\ f <= CbThreshold
    <2>1. /\ cbFailures < CbThreshold /\ cbFailures <= n
          /\ \A i \in DOMAIN cbLog : i > n - cbFailures => ~cbLog[i].ok
          /\ cbFailures = n \/ cbLog[n - cbFailures].ok
      BY <1>8 DEF CbCountedInv, CbRunCounted
    <2>0. /\ n \in Nat /\ cbFailures \in Nat /\ CbThreshold \in Nat
          /\ cbFailures < CbThreshold /\ cbFailures <= n /\ m = n + 1 /\ f = cbFailures + 1
      BY <1>0, <1>3, <2>1
    <2>2. f <= m /\ f <= CbThreshold /\ m - f = n - cbFailures
      <3> HIDE DEF f, m, n
      <3> QED BY <2>0
    <2>3. \A i \in DOMAIN cbLog' : i > m - f => ~cbLog'[i].ok
      BY <1>2, <1>3, <1>4, <2>1, <2>2
    <2>4. f = m \/ cbLog'[m - f].ok
      <3>1. cbFailures # n => n - cbFailures \in DOMAIN cbLog
        <4>1. DOMAIN cbLog = 1 .. n
          BY <1>3
        <4> HIDE DEF f, m, n
        <4> QED BY <2>0, <4>1
      <3> QED BY <1>4, <2>1, <2>2, <3>1
    <2> QED BY <2>2, <2>3, <2>4
  <1>9. CbRunCounted(cbState, cbFailures, cbLog)'
    <2>1. CASE cbState' = "closed"
      <3>1. cbState = "closed" /\ ~(f >= CbThreshold)
        BY <1>s, <2>1
      <3>2. f < CbThreshold /\ f \in Nat
        BY <1>0, <3>1
      <3> QED BY <1>1, <1>4, <1>8, <3>1, <3>2 DEF CbRunCounted
    <2>2. CASE cbState' # "closed"
      BY <2>2 DEF CbRunCounted
    <2> QED BY <2>1, <2>2
  <1>10. ASSUME cbState = "closed", cbState' = "open"
         PROVE  m >= CbThreshold /\ \A i \in DOMAIN cbLog' : i > m - CbThreshold => ~cbLog'[i].ok
    <2>1. f >= CbThreshold
      BY <1>10, <1>s
    <2>2. f = CbThreshold /\ f <= m
      BY <1>0, <1>8, <1>10, <2>1
    <2> QED BY <1>0, <1>3, <1>8, <1>10, <2>2
  <1> QED BY <1>1, <1>4, <1>6, <1>7, <1>9, <1>10, <1>s DEF CbCountedInv

\* The callers inside, when one goes in or out, or when another changes.
LEMMA BhCounts ==
  ASSUME BhInv, NEW c \in CbCalls, NEW stage \in CbStages, cbCall' = [cbCall EXCEPT ![c] = stage]
  PROVE  /\ cbCall' \in [CbCalls -> CbStages]
         /\ cbCall[c] # "inside" /\ stage # "inside" => CbInside' = CbInside
         /\ cbCall[c] # "inside" /\ stage = "inside" => Cardinality(CbInside') = Cardinality(CbInside) + 1
         /\ cbCall[c] = "inside" /\ stage # "inside" => Cardinality(CbInside') = Cardinality(CbInside) - 1
  <1>0. cbCall \in [CbCalls -> CbStages]
    BY DEF BhInv
  <1>1. cbCall' \in [CbCalls -> CbStages] /\ cbCall'[c] = stage /\ \A d \in CbCalls : d # c => cbCall'[d] = cbCall[d]
    BY <1>0
  <1>2. IsFiniteSet(CbInside) /\ IsFiniteSet(CbCalls)
    BY CbAssumption, FS_Subset DEF CbInside
  <1>3. ASSUME cbCall[c] # "inside", stage # "inside" PROVE CbInside' = CbInside
    BY <1>1, <1>3 DEF CbInside
  <1>4. ASSUME cbCall[c] # "inside", stage = "inside" PROVE Cardinality(CbInside') = Cardinality(CbInside) + 1
    <2>1. CbInside' = CbInside \union {c} /\ c \notin CbInside
      BY <1>1, <1>4 DEF CbInside
    <2> QED BY <1>2, <2>1, FS_AddElement
  <1>5. ASSUME cbCall[c] = "inside", stage # "inside" PROVE Cardinality(CbInside') = Cardinality(CbInside) - 1
    <2>1. CbInside' = CbInside \ {c} /\ c \in CbInside
      BY <1>1, <1>5 DEF CbInside
    <2> QED BY <1>2, <2>1, FS_RemoveElement
  <1> QED BY <1>1, <1>3, <1>4, <1>5

\* Every step of the breaker and of the bulkhead keeps their invariant.
LEMMA CbStep == CbIInv /\ [CbNext]_cbVars => CbIInv'
  <1> SUFFICES ASSUME CbIInv, [CbNext]_cbVars PROVE CbIInv'
    OBVIOUS
  <1>0. CbTypes /\ BhInv /\ CbCountedInv
    BY DEF CbIInv
  <1>a. ASSUME UNCHANGED <<cbNow, breaker>> PROVE CbTypes' /\ CbCountedInv'
    <2>1. UNCHANGED <<cbNow, cbState, cbFailures, cbSuccesses, cbLastFailure, cbHistory, cbConsecutive, cbLog>>
      BY <1>a DEF breaker
    <2>2. CbTypes'
      BY <1>0, <2>1 DEF CbTypes
    <2>3. CbRunCounted(cbState, cbFailures, cbLog)' /\ CbProbesCounted(cbState, cbSuccesses, cbLastFailure, cbLog)'
      BY <1>0, <2>1 DEF CbCountedInv, CbRunCounted, CbProbesCounted
    <2> QED BY <2>2, <2>3 DEF CbCountedInv
  <1>b. ASSUME UNCHANGED <<cbCall, bulkhead>> PROVE BhInv'
    BY <1>0, <1>b DEF BhInv, CbInside, bulkhead
  <1>c. ASSUME NEW c \in CbCalls, NEW stage \in CbStages, cbCall' = [cbCall EXCEPT ![c] = stage], stage # "inside", cbCall[c] # "inside", UNCHANGED bulkhead
        PROVE  BhInv'
    <2>1. cbCall' \in [CbCalls -> CbStages] /\ CbInside' = CbInside
      BY <1>0, <1>c, BhCounts
    <2> QED BY <1>0, <1>c, <2>1 DEF BhInv, bulkhead
  <1>1. CASE CbStart
    BY <1>1, <1>a, <1>b DEF CbStart, CbIInv
  <1>2. CASE CbTick
    <2>1. cbNow' = cbNow + 1 /\ UNCHANGED <<cbCall, bulkhead, cbState, cbFailures, cbSuccesses, cbLastFailure, cbHistory, cbConsecutive, cbLog>>
      BY <1>2 DEF CbTick, breaker
    <2>2. CbTypes'
      BY <1>0, <2>1 DEF CbTypes
    <2>3. cbNow - cbLastFailure >= CbRecovery => cbNow' - cbLastFailure >= CbRecovery
      BY <1>0, <2>1, CbAssumption DEF CbTypes
    <2>4. CbRunCounted(cbState, cbFailures, cbLog)' /\ CbProbesCounted(cbState, cbSuccesses, cbLastFailure, cbLog)'
      BY <1>0, <2>1, <2>3 DEF CbCountedInv, CbRunCounted, CbProbesCounted
    <2> QED BY <1>b, <2>1, <2>2, <2>4 DEF CbIInv, CbCountedInv
  <1>3. CASE CbReset
    <2>1. /\ cbState' = "closed" /\ cbFailures' = 0 /\ cbSuccesses' = 0 /\ cbLastFailure' = 0 /\ cbLog' = <<>>
          /\ UNCHANGED <<cbNow, cbCall, cbHistory, cbConsecutive, bulkhead>>
      BY <1>3 DEF CbReset
    <2>2. CbTypes'
      BY <1>0, <2>1, CbAssumption DEF CbTypes
    <2>3. CbRunCounted(cbState, cbFailures, cbLog)' /\ CbProbesCounted(cbState, cbSuccesses, cbLastFailure, cbLog)'
      BY <2>1, CbAssumption DEF CbRunCounted, CbProbesCounted
    <2> QED BY <1>b, <2>1, <2>2, <2>3 DEF CbIInv, CbCountedInv
  <1>4. ASSUME NEW c \in CbCalls, CallBegins(c) \/ StreamBegins(c) \/ CallEnds(c) PROVE CbIInv'
    <2>1. UNCHANGED <<cbNow, breaker, bulkhead>> /\ cbCall[c] # "inside"
          /\ (cbCall' = [cbCall EXCEPT ![c] = "call"] \/ cbCall' = [cbCall EXCEPT ![c] = "open"] \/ cbCall' = [cbCall EXCEPT ![c] = "idle"])
      BY <1>4 DEF CallBegins, StreamBegins, CallEnds
    <2>2. "call" \in CbStages /\ "open" \in CbStages /\ "idle" \in CbStages
      BY DEF CbStages
    <2>3. BhInv'
      BY <1>c, <2>1, <2>2
    <2> QED BY <1>a, <2>1, <2>3 DEF CbIInv
  <1>5. ASSUME NEW c \in CbCalls, Enter(c) PROVE CbIInv'
    <2>1. cbCall[c] = "idle" /\ ~(bhActive >= BhMax) /\ UNCHANGED <<cbNow, breaker>>
      BY <1>5 DEF Enter, Saturated
    <2>2. BhMax \in Nat /\ bhActive \in Nat /\ bhFree # 0
      BY <1>0, <2>1, CbAssumption DEF BhInv
    <2>3. cbCall' = [cbCall EXCEPT ![c] = "inside"] /\ bhFree' = bhFree - 1 /\ bhActive' = bhActive + 1
      BY <1>5, <2>2 DEF Enter
    <2>4. cbCall' \in [CbCalls -> CbStages] /\ Cardinality(CbInside') = Cardinality(CbInside) + 1
      <3>1. "inside" \in CbStages
        BY DEF CbStages
      <3> QED BY <1>0, <2>1, <2>3, <3>1, BhCounts
    <2>5. BhInv'
      BY <1>0, <2>1, <2>2, <2>3, <2>4 DEF BhInv
    <2> QED BY <1>a, <2>1, <2>5 DEF CbIInv
  <1>6. ASSUME NEW c \in CbCalls, Leave(c) PROVE CbIInv'
    <2>1. /\ cbCall[c] = "inside" /\ cbCall' = [cbCall EXCEPT ![c] = "idle"] /\ bhActive' = Minus(bhActive, 1) /\ bhFree' = bhFree + 1
          /\ UNCHANGED <<cbNow, breaker>>
      BY <1>6 DEF Leave
    <2>2. cbCall' \in [CbCalls -> CbStages] /\ Cardinality(CbInside') = Cardinality(CbInside) - 1
      <3>1. "idle" \in CbStages
        BY DEF CbStages
      <3> QED BY <1>0, <2>1, <3>1, BhCounts
    <2>3. Cardinality(CbInside) \in Nat \ {0}
      <3>1. IsFiniteSet(CbInside) /\ c \in CbInside
        BY <2>1, CbAssumption, FS_Subset DEF CbInside
      <3> QED BY <3>1, FS_EmptySet, FS_CardinalityType
    <2>4. BhInv'
      BY <1>0, <2>1, <2>2, <2>3, CbAssumption DEF BhInv, Minus
    <2> QED BY <1>a, <2>1, <2>4 DEF CbIInv
  <1>7. ASSUME NEW c \in CbCalls, CallSucceeds(c) PROVE CbIInv'
    <2>1. /\ CbRecordSuccess /\ UNCHANGED <<cbNow, bulkhead>> /\ cbCall[c] # "inside"
          /\ cbCall' = [cbCall EXCEPT ![c] = IF cbCall[c] = "open" THEN "reading" ELSE "idle"]
      BY <1>7 DEF CallSucceeds
    <2>2. (IF cbCall[c] = "open" THEN "reading" ELSE "idle") \in CbStages \ {"inside"}
      BY DEF CbStages
    <2>3. BhInv'
      BY <1>c, <2>1, <2>2
    <2> QED BY <1>0, <2>1, <2>3, CbSuccessKeeps DEF CbIInv
  <1>8. ASSUME NEW c \in CbCalls, CallFails(c) PROVE CbIInv'
    <2>1. CbRecordFailure /\ UNCHANGED <<cbNow, bulkhead>> /\ cbCall[c] # "inside" /\ cbCall' = [cbCall EXCEPT ![c] = "idle"]
      BY <1>8 DEF CallFails
    <2>2. "idle" \in CbStages
      BY DEF CbStages
    <2>3. BhInv'
      BY <1>c, <2>1, <2>2
    <2> QED BY <1>0, <2>1, <2>3, CbFailureKeeps DEF CbIInv
  <1>9. CASE UNCHANGED cbVars
    BY <1>9, <1>a, <1>b DEF cbVars, CbIInv
  <1> QED BY <1>1, <1>2, <1>3, <1>4, <1>5, <1>6, <1>7, <1>8, <1>9 DEF CbNext

\* At first the circuit is closed and nobody is inside, and the invariant implies the properties.
LEMMA CbFacts == (CbInit => CbIInv) /\ (CbIInv => CbTypeOK /\ RunTrips)
  <1>1. ASSUME CbInit PROVE CbIInv
    <2>1. CbTypes
      BY <1>1, CbAssumption DEF CbInit, CbTypes
    <2>2. CbCountedInv
      BY <1>1, CbAssumption DEF CbInit, CbCountedInv, CbRunCounted, CbProbesCounted
    <2>3. CbInside = {} /\ cbCall \in [CbCalls -> CbStages] /\ bhActive = 0 /\ bhFree = BhMax
      BY <1>1 DEF CbInit, CbInside, CbStages
    <2>4. BhInv
      BY <2>3, CbAssumption, FS_EmptySet DEF BhInv
    <2> QED BY <2>1, <2>2, <2>4 DEF CbIInv
  <1>2. ASSUME CbIInv PROVE CbTypeOK
    BY <1>2 DEF CbIInv, CbTypes, BhInv, CbInside, CbStages, CbTypeOK
  <1>3. ASSUME CbIInv PROVE RunTrips
    <2> SUFFICES ASSUME Len(cbLog) >= CbThreshold, \A i \in DOMAIN cbLog : i > Len(cbLog) - CbThreshold => ~cbLog[i].ok, cbState = "closed"
                 PROVE  FALSE
      BY <1>3 DEF RunTrips, CbIInv, CbTypes
    <2> DEFINE n == Len(cbLog)
    <2>1. n \in Nat /\ DOMAIN cbLog = 1 .. n /\ cbFailures \in Nat /\ CbThreshold \in Nat
      BY <1>3, CbAssumption DEF CbIInv, CbTypes
    <2>2. cbFailures < CbThreshold /\ cbFailures <= n /\ (cbFailures = n \/ cbLog[n - cbFailures].ok)
      BY <1>3 DEF CbIInv, CbCountedInv, CbRunCounted
    <2>3. n >= CbThreshold
      OBVIOUS
    <2>4. cbFailures # n /\ n - cbFailures \in DOMAIN cbLog /\ n - cbFailures > n - CbThreshold
      <3>1. cbFailures < CbThreshold /\ cbFailures <= n
        BY <2>2
      <3> HIDE DEF n
      <3> QED BY <2>1, <2>3, <3>1
    <2> QED BY <2>2, <2>4
  <1> QED BY <1>1, <1>2, <1>3

-----------------------------------------------------------------------------
(* The choice of a model *)

\* What the numbers of a candidate are.
MrNumbers(i) ==
    mrCands[i].health \in Nat /\ mrCands[i].latency \in Nat /\ CostScore(i) \in Int /\ MrQuality(i) \in Nat

\* Candidates are given before the choice, and there is at least one; after it the choice is right.
MrIInv ==
    /\ mrStage \in {"off", "candidates", "choice"} /\ mrCands \in Seq(MrCandidates)
    /\ RoutedToAFit /\ NotDominated

\* The numbers of a candidate are numbers, whether LiteLLM knows of it or not.
LEMMA MrCandidateNumbers ==
  ASSUME mrCands \in Seq(MrCandidates), NEW i \in DOMAIN mrCands
  PROVE  MrNumbers(i)
  <1> DEFINE f == mrCands[i].family
             v == IF mrCands[i].known THEN MrInfo(f) ELSE MrFallback(f)
             caps == [vision : BOOLEAN, audio : BOOLEAN, tools : BOOLEAN, json : BOOLEAN, reasoning : BOOLEAN, context : Nat, cost : Nat]
  <1>1. mrCands[i] \in MrCandidates
    OBVIOUS
  <1>2. mrCands[i].health \in Nat /\ mrCands[i].latency \in Nat
    BY <1>1, MrAssumption DEF MrCandidates
  <1>3. v \in caps
    BY DEF MrInfo, MrFallback
  <1>4. \A w \in caps : MrPriced(w, 9) \in Nat /\ MrPriced(w, 6) \in Nat /\ MrPriced(w, 1) \in Nat
    BY DEF MrPriced
  <1>5. \A w \in caps : MrOverridden(f, w) \in caps
    <2> SUFFICES ASSUME NEW w \in caps PROVE MrOverridden(f, w) \in caps
      OBVIOUS
    <2>1. \A n \in Nat : [w EXCEPT !.context = 200, !.vision = TRUE, !.cost = n] \in caps
      BY ZenonT(40)
    <2>2. \A n \in Nat : [w EXCEPT !.context = 128, !.vision = TRUE, !.cost = n] \in caps
      OBVIOUS
    <2>3. \A n \in Nat : [w EXCEPT !.context = n, !.vision = TRUE, !.audio = TRUE] \in caps
      OBVIOUS
    <2>4. \A n \in Nat : [w EXCEPT !.context = 64, !.reasoning = TRUE, !.cost = n] \in caps
      OBVIOUS
    <2> HIDE DEF f, caps
    <2>5. 1000 \in Nat
      BY SMT
    <2> DEFINE r1 == [w EXCEPT !.context = 200, !.vision = TRUE, !.cost = MrPriced(w, 9)]
               r2 == [w EXCEPT !.context = 128, !.vision = TRUE, !.cost = MrPriced(w, 6)]
               r3 == [w EXCEPT !.context = 1000, !.vision = TRUE, !.audio = TRUE]
               r4 == [w EXCEPT !.context = 64, !.reasoning = TRUE, !.cost = MrPriced(w, 1)]
    <2>6. r1 \in caps /\ r2 \in caps
      BY <1>4, <2>1, <2>2, ZenonT(40)
    <2>7. r3 \in caps
      <3> DEFINE many == 1000
      <3>1. many \in Nat
        BY <2>5
      <3>2. r3 = [w EXCEPT !.context = many, !.vision = TRUE, !.audio = TRUE]
        OBVIOUS
      <3> HIDE DEF many, r3
      <3> QED BY <2>3, <3>1, <3>2, Zenon
    <2>9. r4 \in caps
      BY <1>4, <2>4, Zenon
    <2>8. MrOverridden(f, w) = CASE f = "claude-3-5" -> r1 [] f = "gpt-4o" -> r2 [] f = "gemini-1.5" -> r3 [] f = "deepseek-r1" -> r4 [] OTHER -> w
      BY Zenon DEF MrOverridden
    <2> HIDE DEF r1, r2, r3, r4
    <2> QED BY <2>6, <2>7, <2>8, <2>9
  <1>6. Cap(i) \in caps
    BY <1>3, <1>5 DEF Cap, DetectCapabilities
  <1>7. CostScore(i) \in Int /\ MrQuality(i) \in Nat
    <2> DEFINE cap == Cap(i)
    <2>1. cap.cost \in Nat /\ cap.context \in Nat
      BY <1>6
    <2>2. cap.context \div 50 \in Nat
      BY <2>1
    <2> QED BY <2>1, <2>2 DEF CostScore, MrQuality
  <1> QED BY <1>2, <1>7 DEF MrNumbers

\* The winner of the sort is one of the viable models, and no viable model has a higher score.
LEMMA MrBestIs ==
  ASSUME NEW S, NEW st, NEW w \in MrBest(S, st)
  PROVE  w \in S /\ \A j \in S : MrScore(w, st) > MrScore(j, st) \/ MrScore(w, st) = MrScore(j, st)
  BY DEF MrBest

\* A model that beats another in nothing else but is healthier has the higher score, whatever the weights.
LEMMA MrHealthier ==
  ASSUME NEW i, NEW w, MrNumbers(i), MrNumbers(w), NEW st,
         mrCands[i].latency >= mrCands[w].latency, CostScore(i) >= CostScore(w), MrQuality(i) >= MrQuality(w),
         mrCands[i].health > mrCands[w].health
  PROVE  MrScore(i, st) > MrScore(w, st) /\ MrScore(i, st) \in Int /\ MrScore(w, st) \in Int
  <1> DEFINE hi == mrCands[i].health  hw == mrCands[w].health  li == mrCands[i].latency  lw == mrCands[w].latency
             ci == CostScore(i)  cw == CostScore(w)  qi == MrQuality(i)  qw == MrQuality(w)
  <1>1. hi \in Int /\ hw \in Int /\ li \in Int /\ lw \in Int /\ ci \in Int /\ cw \in Int /\ qi \in Int /\ qw \in Int
    BY DEF MrNumbers
  <1>2. hi > hw /\ li >= lw /\ ci >= cw /\ qi >= qw
    OBVIOUS
  <1>3. /\ MrScore(i, st) = CASE st = "cost"     -> 7 * ci + 3 * hi
                              [] st = "latency"  -> 6 * li + 4 * hi
                              [] st = "quality"  -> 4 * hi + 10 * qi + 2 * li
                              [] OTHER           -> 4 * hi + 3 * ci + 3 * li
        /\ MrScore(w, st) = CASE st = "cost"     -> 7 * cw + 3 * hw
                              [] st = "latency"  -> 6 * lw + 4 * hw
                              [] st = "quality"  -> 4 * hw + 10 * qw + 2 * lw
                              [] OTHER           -> 4 * hw + 3 * cw + 3 * lw
    BY Zenon DEF MrScore
  <1> HIDE DEF hi, hw, li, lw, ci, cw, qi, qw
  <1> QED BY <1>1, <1>2, <1>3

\* The router's choice is right.
LEMMA MrSelectKeeps ==
  ASSUME MrIInv, SelectOptimalModel
  PROVE  MrIInv'
  <1>1. PICK n \in MrNeeds, st \in {"cost", "latency", "quality", "balanced"} :
          /\ mrReq' = [need |-> n, strategy |-> st]
          /\ mrWinner' \in IF Fit(n) = {} THEN {1} ELSE MrBest(MrViable(n), st)
    BY DEF SelectOptimalModel
  <1>2. mrStage' = "choice" /\ mrCands' = mrCands /\ mrReq'.need = n /\ mrReq'.strategy = st /\ st # "first"
    BY <1>1 DEF SelectOptimalModel
  <1>3. MrViable(n) \subseteq Fit(n) /\ Fit(n) \subseteq DOMAIN mrCands
    BY DEF MrViable, Fit
  <1>4. (\E i \in Fit(n) : ~mrCands[i].open) => \A i \in MrViable(n) : ~mrCands[i].open
    BY DEF MrViable
  <1>5. Fit(n)' = Fit(n) /\ MrViable(n)' = MrViable(n)
    BY <1>2 DEF Fit, Cap, MrViable
  <1>6. Fit(n) # {} => mrWinner' \in MrViable(n) /\ \A j \in MrViable(n) : MrScore(mrWinner', st) > MrScore(j, st) \/ MrScore(mrWinner', st) = MrScore(j, st)
    BY <1>1, MrBestIs
  <1>7. RoutedToAFit'
    <2>1. Fit(n) # {} => mrWinner' \in Fit(n)
      BY <1>3, <1>6
    <2>2. (\E i \in Fit(n) : ~mrCands[i].open) => ~mrCands[mrWinner'].open
      BY <1>4, <1>6
    <2> QED BY <1>2, <1>5, <2>1, <2>2 DEF RoutedToAFit
  <1>8. ASSUME NEW i \in MrViable(n), mrCands[i].latency >= mrCands[mrWinner'].latency, CostScore(i) >= CostScore(mrWinner'),
               MrQuality(i) >= MrQuality(mrWinner')
        PROVE  mrCands[i].health <= mrCands[mrWinner'].health
    <2>1. Fit(n) # {} /\ mrWinner' \in MrViable(n) /\ i \in DOMAIN mrCands /\ mrWinner' \in DOMAIN mrCands
      BY <1>3, <1>6, <1>8
    <2>2. MrNumbers(i) /\ MrNumbers(mrWinner')
      BY <2>1, MrCandidateNumbers DEF MrIInv
    <2>3. MrScore(mrWinner', st) > MrScore(i, st) \/ MrScore(mrWinner', st) = MrScore(i, st)
      BY <1>6, <2>1
    <2>4. CASE mrCands[i].health > mrCands[mrWinner'].health
      <3>1. MrScore(i, st) > MrScore(mrWinner', st) /\ MrScore(i, st) \in Int /\ MrScore(mrWinner', st) \in Int
        BY <1>8, <2>2, <2>4, MrHealthier
      <3> DEFINE a == MrScore(i, st)  b == MrScore(mrWinner', st)
      <3>2. a > b /\ a \in Int /\ b \in Int /\ (b > a \/ b = a)
        BY <2>3, <3>1
      <3> HIDE DEF a, b
      <3> QED BY <3>2
    <2> QED BY <2>2, <2>4 DEF MrNumbers
  <1>9. NotDominated'
    <2>1. \A i : CostScore(i)' = CostScore(i)' /\ MrQuality(i)' = MrQuality(i)'
      OBVIOUS
    <2> SUFFICES ASSUME NEW i \in MrViable(n),
                        mrCands'[i].latency >= mrCands'[mrWinner'].latency, CostScore(i)' >= CostScore(mrWinner)',
                        MrQuality(i)' >= MrQuality(mrWinner)'
                 PROVE  mrCands'[i].health <= mrCands'[mrWinner'].health
      BY <1>2, <1>5 DEF NotDominated
    <2>2. /\ CostScore(i)' = CostScore(i) /\ CostScore(mrWinner)' = CostScore(mrWinner')
          /\ MrQuality(i)' = MrQuality(i) /\ MrQuality(mrWinner)' = MrQuality(mrWinner')
      BY <1>2 DEF CostScore, MrQuality, Cap
    <2> QED BY <1>2, <1>8, <2>2
  <1> QED BY <1>2, <1>7, <1>9 DEF MrIInv

\* The choice of chat is right.
LEMMA MrChatKeeps ==
  ASSUME MrIInv, ChatSelect
  PROVE  MrIInv'
  <1>1. PICK n \in {"none", "vision", "reasoning", "context"} :
          mrReq' = [need |-> n, strategy |-> "first"] /\ mrWinner' = MrFirstFit(Fit(n))
    BY DEF ChatSelect
  <1>2. mrStage' = "choice" /\ mrCands' = mrCands /\ mrReq'.need = n /\ mrReq'.strategy = "first"
    BY <1>1 DEF ChatSelect
  <1>3. Fit(n)' = Fit(n)
    BY <1>2 DEF Fit, Cap
  <1>4. Fit(n) \subseteq Nat \ {0}
    BY DEF MrIInv, Fit
  <1>5. ASSUME Fit(n) # {} PROVE mrWinner' \in Fit(n) /\ \A j \in Fit(n) : mrWinner' <= j
    <2>1. \E i \in Fit(n) : \A j \in Fit(n) : i <= j
      BY <1>4, <1>5, LeastNumber
    <2> QED BY <1>1, <1>5, <2>1 DEF MrFirstFit
  <1>6. ASSUME mrWinner' > 1 PROVE 1 \notin Fit(n)
    <2>1. CASE Fit(n) = {}
      BY <2>1
    <2>2. CASE Fit(n) # {}
      BY <1>4, <1>5, <1>6, <2>2
    <2> QED BY <2>1, <2>2
  <1>7. RoutedToAFit'
    BY <1>2, <1>3, <1>5, <1>6 DEF RoutedToAFit
  <1> QED BY <1>2, <1>7 DEF MrIInv, NotDominated

\* The choice stays right in every step.
LEMMA MrStep == MrIInv /\ [MrNext]_mrVars => MrIInv'
  <1> SUFFICES ASSUME MrIInv, [MrNext]_mrVars PROVE MrIInv'
    OBVIOUS
  <1>1. CASE AddCandidate
    <2>1. PICK c \in MrCandidates : mrCands' = Append(mrCands, c)
      BY <1>1 DEF AddCandidate
    <2>2. mrCands' \in Seq(MrCandidates) /\ mrStage' = "candidates"
      BY <1>1, <2>1, Appended DEF MrIInv, AddCandidate
    <2> QED BY <2>2 DEF MrIInv, RoutedToAFit, NotDominated
  <1>2. CASE UNCHANGED mrVars
    BY <1>2 DEF mrVars, MrIInv, RoutedToAFit, NotDominated, Fit, Cap, MrViable, CostScore, MrQuality
  <1> QED BY <1>1, <1>2, MrSelectKeeps, MrChatKeeps DEF MrNext

\* At first nothing is chosen.
LEMMA MrFacts == (MrInit => MrIInv) /\ (MrIInv => RoutedToAFit /\ NotDominated)
  <1>1. ASSUME MrInit PROVE MrIInv
    <2>1. mrStage = "off" /\ mrCands = <<>>
      BY <1>1 DEF MrInit
    <2>2. <<>> \in Seq(MrCandidates) /\ "off" # "choice"
      OBVIOUS
    <2> QED BY <2>1, <2>2 DEF MrIInv, RoutedToAFit, NotDominated
  <1> QED BY <1>1 DEF MrIInv

-----------------------------------------------------------------------------
(* The terminal backends *)

TmAllKinds == {"e2b", "vercel", "modal", "daytona", "ssh", "docker"}
TmLocking == {"e2b", "vercel", "docker"}
TmCopying == {"e2b", "vercel", "modal"}
TmUnderway == {"hash", "read", "upload", "record", "run", "running"}
TmStages == {"idle", "lock", "check", "create", "validate"} \union TmUnderway
TmCallRecord == [stage : TmStages, box : Nat, hash : Nat, content : Nat]

\* The stages in which a call holds the lock.
TmHolding(kind, stage) ==
    \/ kind = "e2b" /\ stage \in {"check", "create"} \union TmUnderway
    \/ kind = "vercel" /\ stage \in {"check", "create"}
    \/ kind = "docker" /\ stage \in {"check", "create", "validate"}

\* What the variables are.
TmTypes ==
    /\ tmKind \in TmAllKinds \union {"off"} /\ tmLocal \in 1 .. TmMaxVersion /\ tmMade \in 0 .. TmMaxBoxes /\ tmBox \in 0 .. tmMade
    /\ tmLive \subseteq 1 .. tmMade /\ tmSynced \in 0 .. tmLocal /\ tmHas \in [1 .. TmMaxBoxes -> Nat]
    /\ tmCall \in [TmCallers -> TmCallRecord] /\ tmOverlap \in BOOLEAN /\ tmDropped \in BOOLEAN
    /\ tmKind = "off" => tmMade = 0 /\ tmSynced = 0
    /\ tmKind = "modal" => tmMade <= 1

\* One call at most holds the lock, and it is in a stage that does.
TmLockInv ==
    /\ tmLock = {} \/ \E c \in TmCallers : tmLock = {c}
    /\ \A c \in TmCallers : tmLock = {c} <=> TmHolding(tmKind, tmCall[c].stage)

\* Without overlap there is one call at a time.
TmAloneInv == ~tmOverlap => \A c, d \in TmCallers : tmCall[c].stage # "idle" /\ tmCall[d].stage # "idle" => c = d

\* When calls are one at a time from the look at the sandbox to the end of the command.
TmOneByOne == tmKind = "e2b" \/ ~tmOverlap
\* When the copies can be relied on.
TmFaithful == tmKind \in TmCopying /\ ~tmDropped /\ TmOneByOne
\* The sandbox in use has a version at least as new as n.
TmHolds(n) == tmBox # 0 => tmHas[tmBox] >= n

\* What the stage of a call says: the backend has that stage; a call that makes a sandbox found none, or (SSH) a
\* connection that is gone; a call that copies or runs does so in the sandbox in use; what it found is there.
TmGoodStage(c) ==
    /\ tmCall[c].hash <= tmLocal
    /\ tmCall[c].stage # "idle" => tmKind # "off"
    /\ tmCall[c].stage = "lock" => tmKind \in TmLocking
    /\ tmCall[c].stage = "validate" => tmKind = "docker"
    /\ tmCall[c].stage \in TmUnderway \ {"run", "running"} => tmKind \in TmCopying
TmGoodBox(c) ==
    /\ tmCall[c].stage = "create" /\ (tmKind \in TmLocking \/ ~tmOverlap) => tmBox = 0 \/ (tmKind = "ssh" /\ tmBox \notin tmLive)
    /\ tmCall[c].stage \in {"upload", "record", "running"} /\ TmOneByOne => tmCall[c].box = tmBox /\ tmBox # 0
    /\ tmCall[c].stage = "running" /\ tmKind = "docker" /\ ~tmOverlap => tmCall[c].box \in tmChecked
TmGoodFile(c) ==
    TmFaithful =>
        /\ tmCall[c].stage = "upload" => tmCall[c].content >= tmCall[c].hash /\ tmCall[c].content >= tmSynced
        /\ tmCall[c].stage \in {"record", "run", "running"} => TmHolds(tmCall[c].hash)
TmGood(c) == TmGoodStage(c) /\ TmGoodBox(c) /\ TmGoodFile(c)

\* What the table says was copied is in the sandbox in use.
TmTableInv == TmFaithful => TmHolds(tmSynced) /\ (tmBox = 0 => tmSynced = 0)

\* The container in use passed the validation, or is in it.
TmCheckedInv ==
    tmKind = "docker" /\ ~tmOverlap => tmBox = 0 \/ tmBox \in tmChecked \/ \E c \in TmCallers : tmCall[c].stage = "validate"

TmIInv ==
    /\ TmTypes /\ TmLockInv /\ TmAloneInv /\ TmTableInv /\ TmCheckedInv /\ OneSandbox
    /\ \A c \in TmCallers : TmGood(c)

\* The courses of the backends, spelled out.
LEMMA TmCourses ==
  /\ TmKinds = TmAllKinds
  /\ \A kind \in TmAllKinds : \A stage : TmLocked(kind, stage) <=> TmHolding(kind, stage)
  /\ \A kind \in TmAllKinds : TmCourse[kind].syncs <=> kind \in TmCopying
  /\ \A kind \in TmAllKinds : TmCourse[kind].first = IF kind = "docker" THEN "peek" ELSE IF kind \in TmLocking THEN "lock" ELSE "check"
  <1>1. TmKinds = TmAllKinds
    BY DEF TmKinds, TmCourse, TmAllKinds
  <1>2. /\ TmCourse["e2b"] = TmE2b /\ TmCourse["vercel"] = TmVercel /\ TmCourse["modal"] = TmModal
        /\ TmCourse["daytona"] = TmDaytona /\ TmCourse["ssh"] = TmSsh /\ TmCourse["docker"] = TmDocker
    BY DEF TmCourse
  <1>3. /\ TmE2b.locked = {"check", "create"} \union TmUnderway /\ TmVercel.locked = {"check", "create"} /\ TmModal.locked = {}
        /\ TmDaytona.locked = {} /\ TmSsh.locked = {} /\ TmDocker.locked = {"check", "create", "validate"}
    BY DEF TmE2b, TmVercel, TmModal, TmDaytona, TmSsh, TmDocker, TmUnderway
  <1>4. /\ TmE2b.syncs = TRUE /\ TmVercel.syncs = TRUE /\ TmModal.syncs = TRUE
        /\ TmDaytona.syncs = FALSE /\ TmSsh.syncs = FALSE /\ TmDocker.syncs = FALSE
    BY DEF TmE2b, TmVercel, TmModal, TmDaytona, TmSsh, TmDocker
  <1>5. /\ TmE2b.first = "lock" /\ TmVercel.first = "lock" /\ TmModal.first = "check"
        /\ TmDaytona.first = "check" /\ TmSsh.first = "check" /\ TmDocker.first = "peek"
    BY DEF TmE2b, TmVercel, TmModal, TmDaytona, TmSsh, TmDocker
  <1>6. ASSUME NEW kind \in TmAllKinds, NEW stage
        PROVE  TmLocked(kind, stage) <=> TmHolding(kind, stage)
    BY <1>2, <1>3 DEF TmAllKinds, TmLocked, TmHolding
  <1>7. ASSUME NEW kind \in TmAllKinds
        PROVE  TmCourse[kind].syncs <=> kind \in TmCopying
    BY <1>2, <1>4 DEF TmAllKinds, TmCopying
  <1>8. ASSUME NEW kind \in TmAllKinds
        PROVE  TmCourse[kind].first = IF kind = "docker" THEN "peek" ELSE IF kind \in TmLocking THEN "lock" ELSE "check"
    BY <1>2, <1>5 DEF TmAllKinds, TmLocking
  <1> QED BY <1>1, <1>6, <1>7, <1>8

\* Only one call changes.
TmOthersSame(c) == tmCall' \in [TmCallers -> TmCallRecord] /\ \A d \in TmCallers : d # c => tmCall'[d] = tmCall[d]
\* Its lock goes with its stage.
TmLockMoves(c, stage) ==
    \/ TmHolding(tmKind, stage) /\ TmHolding(tmKind, tmCall[c].stage) /\ tmLock' = tmLock
    \/ ~TmHolding(tmKind, stage) /\ tmLock' = tmLock \ {c}

\* What TmAt does.
LEMMA TmAtIs ==
  ASSUME TmTypes, NEW c \in TmCallers, NEW s \in TmStages, TmAt(c, s)
  PROVE  /\ TmOthersSame(c) /\ tmCall'[c].stage = s
         /\ tmCall'[c].box = tmCall[c].box /\ tmCall'[c].hash = tmCall[c].hash /\ tmCall'[c].content = tmCall[c].content
  <1>1. tmCall \in [TmCallers -> TmCallRecord]
    BY DEF TmTypes
  <1>2. tmCall[c] \in TmCallRecord
    BY <1>1
  <1>3. [tmCall[c] EXCEPT !.stage = s] \in TmCallRecord
    BY <1>2 DEF TmCallRecord
  <1>4. tmCall' = [tmCall EXCEPT ![c] = [tmCall[c] EXCEPT !.stage = s]]
    BY DEF TmAt
  <1>5. TmOthersSame(c) /\ tmCall'[c] = [tmCall[c] EXCEPT !.stage = s]
    BY <1>1, <1>3, <1>4 DEF TmOthersSame
  <1> QED BY <1>2, <1>5 DEF TmCallRecord

\* What TmDone does.
LEMMA TmDoneIs ==
  ASSUME TmTypes, NEW c \in TmCallers, TmDone(c)
  PROVE  /\ TmOthersSame(c) /\ tmCall'[c].stage = "idle" /\ tmCall'[c].hash = 0 /\ TmLockMoves(c, "idle")
  <1>1. tmCall \in [TmCallers -> TmCallRecord]
    BY DEF TmTypes
  <1>2. TmIdle \in TmCallRecord
    BY DEF TmIdle, TmCallRecord, TmStages
  <1>3. tmCall' = [tmCall EXCEPT ![c] = TmIdle] /\ tmLock' = tmLock \ {c}
    BY DEF TmDone
  <1>4. TmOthersSame(c) /\ tmCall'[c] = TmIdle
    BY <1>1, <1>2, <1>3 DEF TmOthersSame
  <1>5. ~TmHolding(tmKind, "idle")
    BY DEF TmHolding, TmUnderway
  <1> QED BY <1>3, <1>4, <1>5 DEF TmIdle, TmLockMoves

\* What TmMoves does.
LEMMA TmMovesIs ==
  ASSUME TmTypes, NEW c \in TmCallers, NEW s \in TmStages, TmMoves(c, s), tmKind \in TmAllKinds,
         TmHolding(tmKind, s) => TmHolding(tmKind, tmCall[c].stage)
  PROVE  /\ TmOthersSame(c) /\ tmCall'[c].stage = s /\ TmLockMoves(c, s)
         /\ tmCall'[c].box = tmCall[c].box /\ tmCall'[c].hash = tmCall[c].hash /\ tmCall'[c].content = tmCall[c].content
  <1>1. tmLock' = IF TmHolding(tmKind, s) THEN tmLock ELSE tmLock \ {c}
    BY TmCourses DEF TmMoves
  <1>2. TmLockMoves(c, s)
    BY <1>1 DEF TmLockMoves
  <1> QED BY <1>2, TmAtIs DEF TmMoves

\* The lock when a call moves.
LEMMA TmLockKept ==
  ASSUME TmLockInv, NEW c \in TmCallers, TmOthersSame(c), TmLockMoves(c, tmCall'[c].stage), tmKind' = tmKind
  PROVE  TmLockInv'
  <1>1. \A d \in TmCallers : d # c => tmCall'[d] = tmCall[d]
    BY DEF TmOthersSame
  <1>2. CASE TmHolding(tmKind, tmCall'[c].stage) /\ TmHolding(tmKind, tmCall[c].stage) /\ tmLock' = tmLock
    <2>1. \A d \in TmCallers : tmLock' = {d} <=> TmHolding(tmKind', tmCall'[d].stage)
      BY <1>1, <1>2 DEF TmLockInv
    <2> QED BY <1>2, <2>1 DEF TmLockInv
  <1>3. CASE ~TmHolding(tmKind, tmCall'[c].stage) /\ tmLock' = tmLock \ {c}
    <2>1. tmLock' = {} \/ tmLock' = tmLock
      BY <1>3 DEF TmLockInv
    <2>2. tmLock' # {c}
      BY <1>3
    <2>3. \A d \in TmCallers : d # c => (tmLock' = {d} <=> tmLock = {d})
      BY <1>3 DEF TmLockInv
    <2>4. \A d \in TmCallers : tmLock' = {d} <=> TmHolding(tmKind', tmCall'[d].stage)
      BY <1>1, <1>3, <2>2, <2>3 DEF TmLockInv
    <2> QED BY <2>1, <2>4 DEF TmLockInv
  <1> QED BY <1>2, <1>3 DEF TmLockMoves

\* The calls when one of them moves.
LEMMA TmAloneKept ==
  ASSUME TmAloneInv, NEW c \in TmCallers, TmOthersSame(c), tmCall[c].stage # "idle", tmOverlap' = tmOverlap
  PROVE  TmAloneInv'
  BY DEF TmAloneInv, TmOthersSame

\* While a call is past the lock, the others are not, when they are one by one; and while it holds the lock no other does.
LEMMA TmOthersOut ==
  ASSUME TmIInv, NEW c \in TmCallers, NEW d \in TmCallers, d # c, tmCall[c].stage \notin {"idle", "lock"}
  PROVE  /\ TmOneByOne => tmCall[d].stage \in {"idle", "lock"}
         /\ TmHolding(tmKind, tmCall[c].stage) => ~TmHolding(tmKind, tmCall[d].stage)
         /\ ~tmOverlap => tmCall[d].stage = "idle"
  <1>1. tmCall[c].stage \in TmStages /\ tmCall[d].stage \in TmStages
    BY DEF TmIInv, TmTypes, TmCallRecord
  <1>2. TmHolding(tmKind, tmCall[c].stage) => ~TmHolding(tmKind, tmCall[d].stage)
    BY DEF TmIInv, TmLockInv
  <1>3. ~tmOverlap => tmCall[d].stage = "idle"
    BY DEF TmIInv, TmAloneInv
  <1>4. tmKind = "e2b" => tmCall[c].stage # "validate" /\ tmCall[d].stage # "validate"
    BY DEF TmIInv, TmGood, TmGoodStage
  <1>5. tmKind = "e2b" => TmHolding(tmKind, tmCall[c].stage)
    BY <1>1, <1>4 DEF TmHolding, TmStages
  <1>6. tmKind = "e2b" => tmCall[d].stage \in {"idle", "lock"}
    BY <1>1, <1>2, <1>4, <1>5 DEF TmHolding, TmStages
  <1> QED BY <1>2, <1>3, <1>6 DEF TmOneByOne

\* A call moves and nothing else changes: what its new stage says is all there is to show.
LEMMA TmQuiet ==
  ASSUME TmIInv, NEW c \in TmCallers, TmOthersSame(c), TmLockMoves(c, tmCall'[c].stage), tmCall[c].stage \notin {"idle", "validate"},
         UNCHANGED <<tmKind, tmWorld, tmBox, tmSynced, tmOverlap, tmDropped>>, TmGood(c)'
  PROVE  TmIInv'
  <1>0. /\ tmKind' = tmKind /\ tmLocal' = tmLocal /\ tmMade' = tmMade /\ tmLive' = tmLive /\ tmHas' = tmHas /\ tmChecked' = tmChecked
        /\ tmBox' = tmBox /\ tmSynced' = tmSynced /\ tmOverlap' = tmOverlap /\ tmDropped' = tmDropped
    BY DEF tmWorld
  <1>1. TmTypes'
    BY <1>0 DEF TmIInv, TmTypes, TmOthersSame
  <1>2. TmLockInv'
    BY <1>0, TmLockKept DEF TmIInv
  <1>3. TmAloneInv'
    BY <1>0, TmAloneKept DEF TmIInv
  <1>4. TmTableInv'
    BY <1>0 DEF TmIInv, TmTableInv, TmFaithful, TmOneByOne, TmHolds
  <1>5. TmCheckedInv'
    BY <1>0 DEF TmIInv, TmCheckedInv, TmOthersSame
  <1>6. OneSandbox'
    BY <1>0 DEF TmIInv, OneSandbox
  <1>7. ASSUME NEW d \in TmCallers PROVE TmGood(d)'
    <2>1. CASE d = c
      BY <2>1
    <2>2. CASE d # c
      <3>1. tmCall'[d] = tmCall[d] /\ TmGood(d)
        BY <2>2 DEF TmIInv, TmOthersSame
      <3> QED BY <1>0, <3>1 DEF TmGood, TmGoodStage, TmGoodBox, TmGoodFile, TmFaithful, TmOneByOne, TmHolds
    <2> QED BY <2>1, <2>2
  <1> QED BY <1>1, <1>2, <1>3, <1>4, <1>5, <1>6, <1>7 DEF TmIInv

\* An ended call.
LEMMA TmIdleGood ==
  ASSUME NEW c \in TmCallers, tmCall[c].stage = "idle", tmCall[c].hash = 0, tmLocal \in Nat
  PROVE  TmGood(c)
  BY DEF TmGood, TmGoodStage, TmGoodBox, TmGoodFile, TmUnderway

\* The backend of a call.
LEMMA TmCallKind ==
  ASSUME TmIInv, NEW c \in TmCallers, tmCall[c].stage # "idle"
  PROVE  tmKind \in TmAllKinds /\ (TmCopies <=> tmKind \in TmCopying) /\ TmReady = IF tmKind \in TmCopying THEN "hash" ELSE "run"
  <1>1. tmKind \in TmAllKinds /\ tmKind # "off"
    BY DEF TmIInv, TmTypes, TmGood, TmGoodStage
  <1> QED BY <1>1, TmCourses DEF TmCopies, TmReady

\* A call begins.
LEMMA TmExecuteKeeps ==
  ASSUME TmIInv, NEW c \in TmCallers, TmExecute(c)
  PROVE  TmIInv'
  <1> DEFINE s == IF TmCourse[tmKind].first # "peek" THEN TmCourse[tmKind].first ELSE IF tmBox # 0 THEN "run" ELSE "lock"
  <1>0. /\ tmKind' = tmKind /\ tmLocal' = tmLocal /\ tmMade' = tmMade /\ tmLive' = tmLive /\ tmHas' = tmHas /\ tmChecked' = tmChecked
        /\ tmBox' = tmBox /\ tmSynced' = tmSynced /\ tmDropped' = tmDropped /\ tmLock' = tmLock
        /\ tmKind # "off" /\ tmCall[c].stage = "idle" /\ TmAt(c, s)
        /\ tmOverlap' = (tmOverlap \/ \E d \in TmCallers : tmCall[d].stage # "idle")
    BY DEF TmExecute, tmWorld
  <1>1. tmKind \in TmAllKinds
    BY <1>0 DEF TmIInv, TmTypes
  <1>2. s = IF tmKind = "docker" THEN IF tmBox # 0 THEN "run" ELSE "lock" ELSE IF tmKind \in TmLocking THEN "lock" ELSE "check"
    BY <1>1, TmCourses
  <1>3. s \in TmStages /\ ~TmHolding(tmKind, s) /\ ~TmHolding(tmKind, "idle")
    BY <1>2 DEF TmStages, TmHolding, TmUnderway, TmLocking
  <1> HIDE DEF s
  <1>4. /\ TmOthersSame(c) /\ tmCall'[c].stage = s /\ tmCall'[c].hash = tmCall[c].hash
    BY <1>0, <1>3, TmAtIs DEF TmIInv
  <1>5. tmLock # {c} /\ TmLockMoves(c, s)
    <2>1. tmLock # {c}
      BY <1>0, <1>3 DEF TmIInv, TmLockInv
    <2>2. tmLock \ {c} = tmLock
      BY <2>1 DEF TmIInv, TmLockInv
    <2> QED BY <1>0, <1>3, <2>1, <2>2 DEF TmLockMoves
  <1>6. ~tmOverlap' => ~tmOverlap /\ \A d \in TmCallers : tmCall[d].stage = "idle"
    BY <1>0
  <1>b. tmOverlap' \in BOOLEAN
    BY <1>0
  <1>7. TmTypes'
    BY <1>0, <1>4, <1>b DEF TmIInv, TmTypes, TmOthersSame
  <1>8. TmLockInv'
    BY <1>0, <1>4, <1>5, TmLockKept DEF TmIInv
  <1>9. TmAloneInv'
    BY <1>4, <1>6 DEF TmAloneInv, TmOthersSame
  <1>10. TmTableInv'
    BY <1>0, <1>6 DEF TmIInv, TmTableInv, TmFaithful, TmOneByOne, TmHolds
  <1>11. TmCheckedInv'
    BY <1>0, <1>6 DEF TmIInv, TmCheckedInv
  <1>12. OneSandbox'
    BY <1>0, <1>6 DEF TmIInv, OneSandbox
  <1>13. ASSUME NEW d \in TmCallers, d # c PROVE TmGood(d)'
    <2>1. tmCall'[d] = tmCall[d] /\ TmGood(d)
      BY <1>4, <1>13 DEF TmIInv, TmOthersSame
    <2> QED BY <1>0, <1>6, <2>1 DEF TmGood, TmGoodStage, TmGoodBox, TmGoodFile, TmFaithful, TmOneByOne, TmHolds
  <1>14. TmGood(c)'
    <2>1. tmCall'[c].hash <= tmLocal'
      BY <1>0, <1>4 DEF TmIInv, TmGood, TmGoodStage
    <2>2. s \in {"run", "lock", "check"} /\ (s = "lock" => tmKind \in TmLocking) /\ (s = "run" => tmKind \notin TmCopying)
      BY <1>2 DEF TmLocking, TmCopying
    <2> QED BY <1>0, <1>4, <2>1, <2>2 DEF TmGood, TmGoodStage, TmGoodBox, TmGoodFile, TmFaithful, TmUnderway
  <1> QED BY <1>7, <1>8, <1>9, <1>10, <1>11, <1>12, <1>13, <1>14 DEF TmIInv

\* A call gets the lock.
LEMMA TmAcquiresKeeps ==
  ASSUME TmIInv, NEW c \in TmCallers, TmAcquires(c)
  PROVE  TmIInv'
  <1>0. /\ tmKind' = tmKind /\ tmLocal' = tmLocal /\ tmMade' = tmMade /\ tmLive' = tmLive /\ tmHas' = tmHas /\ tmChecked' = tmChecked
        /\ tmBox' = tmBox /\ tmSynced' = tmSynced /\ tmDropped' = tmDropped /\ tmOverlap' = tmOverlap
        /\ tmCall[c].stage = "lock" /\ tmLock = {} /\ tmLock' = {c} /\ TmAt(c, "check")
    BY DEF TmAcquires, tmWorld
  <1>1. TmOthersSame(c) /\ tmCall'[c].stage = "check" /\ tmCall'[c].hash = tmCall[c].hash
    BY <1>0, TmAtIs DEF TmIInv, TmStages
  <1>2. TmHolding(tmKind, "check")
    BY <1>0 DEF TmIInv, TmGood, TmGoodStage, TmLocking, TmHolding
  <1>3. TmTypes'
    BY <1>0, <1>1 DEF TmIInv, TmTypes, TmOthersSame
  <1>4. TmLockInv'
    <2>1. \A d \in TmCallers : d # c => ~TmHolding(tmKind, tmCall[d].stage)
      BY <1>0 DEF TmIInv, TmLockInv
    <2> QED BY <1>0, <1>1, <1>2, <2>1 DEF TmLockInv, TmOthersSame
  <1>5. TmAloneInv'
    BY <1>0, <1>1, TmAloneKept DEF TmIInv
  <1>6. TmTableInv' /\ OneSandbox'
    BY <1>0 DEF TmIInv, TmTableInv, TmFaithful, TmOneByOne, TmHolds, OneSandbox
  <1>7. TmCheckedInv'
    BY <1>0, <1>1 DEF TmIInv, TmCheckedInv, TmOthersSame
  <1>8. ASSUME NEW d \in TmCallers, d # c PROVE TmGood(d)'
    <2>1. tmCall'[d] = tmCall[d] /\ TmGood(d)
      BY <1>1, <1>8 DEF TmIInv, TmOthersSame
    <2> QED BY <1>0, <2>1 DEF TmGood, TmGoodStage, TmGoodBox, TmGoodFile, TmFaithful, TmOneByOne, TmHolds
  <1>9. TmGood(c)'
    BY <1>0, <1>1 DEF TmIInv, TmGood, TmGoodStage, TmGoodBox, TmGoodFile, TmUnderway
  <1> QED BY <1>3, <1>4, <1>5, <1>6, <1>7, <1>8, <1>9 DEF TmIInv

\* A call looks for the sandbox.
LEMMA TmConnectKeeps ==
  ASSUME TmIInv, NEW c \in TmCallers, TmConnect(c)
  PROVE  TmIInv'
  <1> DEFINE s == IF TmHaveBox THEN TmReady ELSE "create"
  <1>0. /\ tmCall[c].stage = "check" /\ TmMoves(c, s) /\ UNCHANGED <<tmKind, tmWorld, tmBox, tmSynced, tmOverlap, tmDropped>>
    BY DEF TmConnect
  <1>1. tmKind \in TmAllKinds /\ TmReady = IF tmKind \in TmCopying THEN "hash" ELSE "run"
    BY <1>0, TmCallKind
  <1>2. s \in TmStages /\ s \in {"hash", "run", "create"} /\ (s = "create" <=> ~TmHaveBox) /\ (s = "hash" => tmKind \in TmCopying) /\ (s = "run" => tmKind \notin TmCopying)
    BY <1>1 DEF TmStages, TmUnderway
  <1> HIDE DEF s
  <1>3. TmHolding(tmKind, s) => TmHolding(tmKind, "check")
    BY <1>2 DEF TmHolding, TmUnderway
  <1>4. TmOthersSame(c) /\ tmCall'[c].stage = s /\ TmLockMoves(c, s) /\ tmCall'[c].hash = tmCall[c].hash
    BY <1>0, <1>1, <1>2, <1>3, TmMovesIs DEF TmIInv
  <1>5. TmGood(c)'
    <2>1. TmGoodStage(c)'
      BY <1>0, <1>2, <1>4 DEF TmIInv, TmGood, TmGoodStage, TmUnderway, tmWorld
    <2>2. TmGoodBox(c)'
      BY <1>0, <1>2, <1>4 DEF TmGoodBox, TmHaveBox, tmWorld
    <2>3. TmGoodFile(c)'
      BY <1>0, <1>2, <1>4 DEF TmGoodFile, TmFaithful
    <2> QED BY <2>1, <2>2, <2>3 DEF TmGood
  <1> QED BY <1>0, <1>4, <1>5, TmQuiet

\* A call ends while nothing else changes.
LEMMA TmEndsQuietly ==
  ASSUME TmIInv, NEW c \in TmCallers, TmDone(c), tmCall[c].stage \notin {"idle", "validate"},
         UNCHANGED <<tmKind, tmWorld, tmBox, tmSynced, tmOverlap, tmDropped>>
  PROVE  TmIInv'
  <1>1. TmOthersSame(c) /\ tmCall'[c].stage = "idle" /\ tmCall'[c].hash = 0 /\ TmLockMoves(c, "idle")
    BY TmDoneIs DEF TmIInv
  <1>2. TmGood(c)'
    <2>1. tmLocal' \in Nat
      BY DEF TmIInv, TmTypes, tmWorld
    <2> QED BY <1>1, <2>1 DEF TmGood, TmGoodStage, TmGoodBox, TmGoodFile, TmUnderway
  <1> QED BY <1>1, <1>2, TmQuiet

\* The file is hashed; it is read; the command begins.
LEMMA TmHashKeeps ==
  ASSUME TmIInv, NEW c \in TmCallers, TmHash(c)
  PROVE  TmIInv'
  <1> DEFINE s == IF tmSynced = tmLocal THEN "run" ELSE "read"
  <1>0. /\ tmCall[c].stage = "hash" /\ tmCall' = [tmCall EXCEPT ![c] = [tmCall[c] EXCEPT !.hash = tmLocal, !.stage = s]]
        /\ UNCHANGED <<tmKind, tmWorld, tmBox, tmSynced, tmOverlap, tmDropped>> /\ tmLock' = tmLock
    BY DEF TmHash
  <1>1. tmCall \in [TmCallers -> TmCallRecord] /\ tmCall[c] \in TmCallRecord /\ tmLocal \in Nat
    BY DEF TmIInv, TmTypes
  <1>2. s \in TmStages /\ s \in {"run", "read"} /\ (s = "run" => tmSynced = tmLocal)
    BY DEF TmStages, TmUnderway
  <1> HIDE DEF s
  <1>3. /\ [tmCall[c] EXCEPT !.hash = tmLocal, !.stage = s] \in TmCallRecord
        /\ [tmCall[c] EXCEPT !.hash = tmLocal, !.stage = s].hash = tmLocal /\ [tmCall[c] EXCEPT !.hash = tmLocal, !.stage = s].stage = s
    BY <1>1, <1>2 DEF TmCallRecord
  <1>4. TmOthersSame(c) /\ tmCall'[c].hash = tmLocal /\ tmCall'[c].stage = s
    BY <1>0, <1>1, <1>3 DEF TmOthersSame
  <1>5. tmKind \in TmCopying
    BY <1>0 DEF TmIInv, TmGood, TmGoodStage, TmUnderway
  <1>6. TmLockMoves(c, s)
    <2>1. TmHolding(tmKind, s) <=> TmHolding(tmKind, "hash")
      BY <1>2 DEF TmHolding, TmUnderway
    <2>2. CASE TmHolding(tmKind, "hash")
      BY <1>0, <2>1, <2>2 DEF TmLockMoves
    <2>3. CASE ~TmHolding(tmKind, "hash")
      <3>1. tmLock \ {c} = tmLock
        BY <1>0, <2>3 DEF TmIInv, TmLockInv
      <3> QED BY <1>0, <2>1, <2>3, <3>1 DEF TmLockMoves
    <2> QED BY <2>2, <2>3
  <1>7. TmGood(c)'
    <2>1. TmGoodStage(c)'
      BY <1>0, <1>1, <1>2, <1>4, <1>5 DEF TmGoodStage, TmUnderway, tmWorld, TmCopying
    <2>2. TmGoodBox(c)'
      BY <1>2, <1>4 DEF TmGoodBox
    <2>3. TmGoodFile(c)'
      BY <1>0, <1>2, <1>4 DEF TmIInv, TmTableInv, TmGoodFile, TmFaithful, TmOneByOne, TmHolds, tmWorld
    <2> QED BY <2>1, <2>2, <2>3 DEF TmGood
  <1> QED BY <1>0, <1>4, <1>6, <1>7, TmQuiet

\* The lock, between two stages that both hold it or both do not.
LEMMA TmLockStays ==
  ASSUME TmLockInv, NEW c \in TmCallers, NEW s, TmHolding(tmKind, s) <=> TmHolding(tmKind, tmCall[c].stage), tmLock' = tmLock
  PROVE  TmLockMoves(c, s)
  <1>1. CASE TmHolding(tmKind, s)
    BY <1>1 DEF TmLockMoves
  <1>2. CASE ~TmHolding(tmKind, s)
    <2>1. tmLock \ {c} = tmLock
      BY <1>2 DEF TmLockInv
    <2> QED BY <1>2, <2>1 DEF TmLockMoves
  <1> QED BY <1>1, <1>2

\* The content is read for a sandbox.
LEMMA TmReadKeeps ==
  ASSUME TmIInv, NEW c \in TmCallers, TmRead(c)
  PROVE  TmIInv'
  <1>0. tmCall[c].stage = "read" /\ UNCHANGED <<tmKind, tmWorld, tmBox, tmSynced, tmOverlap, tmDropped>>
    BY DEF TmRead
  <1>1. CASE tmBox = 0
    BY <1>0, <1>1, TmEndsQuietly DEF TmRead, TmFailed
  <1>2. CASE tmBox # 0
    <2> DEFINE r == [tmCall[c] EXCEPT !.content = tmLocal, !.box = tmBox, !.stage = "upload"]
    <2>0. tmCall' = [tmCall EXCEPT ![c] = r] /\ tmLock' = tmLock
      BY <1>2 DEF TmRead
    <2>1. tmCall \in [TmCallers -> TmCallRecord] /\ tmCall[c] \in TmCallRecord /\ tmLocal \in Nat /\ tmBox \in Nat /\ tmSynced <= tmLocal
      BY DEF TmIInv, TmTypes
    <2>2. "upload" \in TmStages
      BY DEF TmStages, TmUnderway
    <2>3. r \in TmCallRecord /\ r.content = tmLocal /\ r.box = tmBox /\ r.stage = "upload" /\ r.hash = tmCall[c].hash
      BY <2>1, <2>2 DEF TmCallRecord
    <2> HIDE DEF r
    <2>4. TmOthersSame(c) /\ tmCall'[c].content = tmLocal /\ tmCall'[c].box = tmBox /\ tmCall'[c].stage = "upload" /\ tmCall'[c].hash = tmCall[c].hash
      BY <2>0, <2>1, <2>3 DEF TmOthersSame
    <2>5. TmLockMoves(c, "upload")
      <3>1. TmHolding(tmKind, "upload") <=> TmHolding(tmKind, "read")
        BY DEF TmHolding, TmUnderway
      <3> QED BY <1>0, <2>0, <3>1, TmLockStays DEF TmIInv
    <2>6. tmCall[c].hash <= tmLocal /\ tmKind \in TmCopying
      BY <1>0 DEF TmIInv, TmGood, TmGoodStage, TmUnderway
    <2>7. TmGood(c)'
      <3>1. TmGoodStage(c)'
        BY <1>0, <2>4, <2>6 DEF TmGoodStage, TmUnderway, tmWorld, TmCopying
      <3>2. TmGoodBox(c)'
        BY <1>0, <1>2, <2>4 DEF TmGoodBox
      <3>3. TmGoodFile(c)'
        BY <1>0, <2>1, <2>4, <2>6 DEF TmGoodFile
      <3> QED BY <3>1, <3>2, <3>3 DEF TmGood
    <2> QED BY <1>0, <2>4, <2>5, <2>7, TmQuiet
  <1> QED BY <1>1, <1>2

\* The command begins.
LEMMA TmRunsKeeps ==
  ASSUME TmIInv, NEW c \in TmCallers, TmRuns(c)
  PROVE  TmIInv'
  <1>0. tmCall[c].stage = "run" /\ UNCHANGED <<tmKind, tmWorld, tmBox, tmSynced, tmOverlap, tmDropped>>
    BY DEF TmRuns
  <1>1. CASE tmBox = 0
    BY <1>0, <1>1, TmEndsQuietly DEF TmRuns, TmFailed
  <1>2. CASE tmBox # 0
    <2> DEFINE r == [tmCall[c] EXCEPT !.box = tmBox, !.stage = "running"]
    <2>0. tmCall' = [tmCall EXCEPT ![c] = r] /\ tmLock' = tmLock
      BY <1>2 DEF TmRuns
    <2>1. tmCall \in [TmCallers -> TmCallRecord] /\ tmCall[c] \in TmCallRecord /\ tmBox \in Nat
      BY DEF TmIInv, TmTypes
    <2>2. "running" \in TmStages
      BY DEF TmStages, TmUnderway
    <2>3. r \in TmCallRecord /\ r.box = tmBox /\ r.stage = "running" /\ r.hash = tmCall[c].hash
      BY <2>1, <2>2 DEF TmCallRecord
    <2> HIDE DEF r
    <2>4. TmOthersSame(c) /\ tmCall'[c].box = tmBox /\ tmCall'[c].stage = "running" /\ tmCall'[c].hash = tmCall[c].hash
      BY <2>0, <2>1, <2>3 DEF TmOthersSame
    <2>5. TmLockMoves(c, "running")
      <3>1. TmHolding(tmKind, "running") <=> TmHolding(tmKind, "run")
        BY DEF TmHolding, TmUnderway
      <3> QED BY <1>0, <2>0, <3>1, TmLockStays DEF TmIInv
    <2>6. TmGood(c)
      BY DEF TmIInv
    <2>7. tmKind = "docker" /\ ~tmOverlap => tmBox \in tmChecked
      <3>1. ~tmOverlap => \A d \in TmCallers : tmCall[d].stage # "validate"
        BY <1>0 DEF TmIInv, TmAloneInv
      <3> QED BY <1>2, <3>1 DEF TmIInv, TmCheckedInv
    <2>8. TmGood(c)'
      <3>1. TmGoodStage(c)'
        BY <1>0, <2>4, <2>6 DEF TmGood, TmGoodStage, tmWorld
      <3>2. TmGoodBox(c)'
        BY <1>0, <1>2, <2>4, <2>7 DEF TmGoodBox, tmWorld
      <3>3. TmGoodFile(c)'
        BY <1>0, <2>4, <2>6 DEF TmGood, TmGoodFile, TmFaithful, TmOneByOne, TmHolds, tmWorld
      <3> QED BY <3>1, <3>2, <3>3 DEF TmGood
    <2> QED BY <1>0, <2>4, <2>5, <2>8, TmQuiet
  <1> QED BY <1>1, <1>2

\* The upload lands.
LEMMA TmLandsKeeps ==
  ASSUME TmIInv, NEW c \in TmCallers, TmLands(c)
  PROVE  TmIInv'
  <1> DEFINE b == tmCall[c].box
             n == tmCall[c].content
  <1>0. /\ tmKind' = tmKind /\ tmLocal' = tmLocal /\ tmMade' = tmMade /\ tmLive' = tmLive /\ tmChecked' = tmChecked /\ tmLock' = tmLock
        /\ tmBox' = tmBox /\ tmSynced' = tmSynced /\ tmDropped' = tmDropped /\ tmOverlap' = tmOverlap
        /\ tmCall[c].stage = "upload" /\ b \in tmLive /\ tmHas' = [tmHas EXCEPT ![b] = n] /\ TmAt(c, "record")
    BY DEF TmLands
  <1>1. TmOthersSame(c) /\ tmCall'[c].stage = "record" /\ tmCall'[c].hash = tmCall[c].hash /\ tmCall'[c].box = b
    BY <1>0, TmAtIs DEF TmIInv, TmStages, TmUnderway
  <1>2. n \in Nat /\ b \in 1 .. TmMaxBoxes /\ tmHas \in [1 .. TmMaxBoxes -> Nat]
    BY <1>0, TmAssumption DEF TmIInv, TmTypes, TmCallRecord
  <1>3. tmHas' \in [1 .. TmMaxBoxes -> Nat] /\ tmHas'[b] = n
    BY <1>0, <1>2
  <1>4. TmGood(c)
    BY DEF TmIInv
  <1>5. TmFaithful => b = tmBox /\ n >= tmCall[c].hash /\ n >= tmSynced
    BY <1>0, <1>4 DEF TmGood, TmGoodBox, TmGoodFile, TmFaithful
  <1>6. TmTypes'
    BY <1>0, <1>1, <1>3 DEF TmIInv, TmTypes, TmOthersSame
  <1>7. TmLockInv'
    <2>1. TmHolding(tmKind, "record") <=> TmHolding(tmKind, "upload")
      BY DEF TmHolding, TmUnderway
    <2> QED BY <1>0, <1>1, <2>1, TmLockStays, TmLockKept DEF TmIInv
  <1>8. TmAloneInv'
    BY <1>0, <1>1, TmAloneKept DEF TmIInv
  <1>9. TmTableInv'
    BY <1>0, <1>3, <1>5 DEF TmIInv, TmTableInv, TmFaithful, TmOneByOne, TmHolds
  <1>10. TmCheckedInv' /\ OneSandbox'
    BY <1>0, <1>1 DEF TmIInv, TmCheckedInv, TmOthersSame, OneSandbox
  <1>11. TmGood(c)'
    <2>1. TmGoodStage(c)'
      BY <1>0, <1>1, <1>4 DEF TmGood, TmGoodStage, TmUnderway
    <2>2. TmGoodBox(c)'
      BY <1>0, <1>1, <1>4 DEF TmGood, TmGoodBox, TmOneByOne
    <2>3. TmGoodFile(c)'
      BY <1>0, <1>1, <1>3, <1>5 DEF TmGoodFile, TmFaithful, TmOneByOne, TmHolds
    <2> QED BY <2>1, <2>2, <2>3 DEF TmGood
  <1>12. ASSUME NEW d \in TmCallers, d # c PROVE TmGood(d)'
    <2>1. tmCall'[d] = tmCall[d] /\ TmGood(d)
      BY <1>1, <1>12 DEF TmIInv, TmOthersSame
    <2>2. TmOneByOne => tmCall[d].stage \in {"idle", "lock"}
      BY <1>0, <1>12, TmOthersOut
    <2>3. TmGoodStage(d)' /\ TmGoodBox(d)'
      BY <1>0, <2>1 DEF TmGood, TmGoodStage, TmGoodBox, TmOneByOne
    <2>4. TmGoodFile(d)'
      BY <1>0, <2>1, <2>2 DEF TmGoodFile, TmFaithful, TmOneByOne
    <2> QED BY <2>3, <2>4 DEF TmGood
  <1> QED BY <1>6, <1>7, <1>8, <1>9, <1>10, <1>11, <1>12 DEF TmIInv

\* The copy is put in the table.
LEMMA TmRecordKeeps ==
  ASSUME TmIInv, NEW c \in TmCallers, TmRecord(c)
  PROVE  TmIInv'
  <1>0. /\ tmKind' = tmKind /\ tmLocal' = tmLocal /\ tmMade' = tmMade /\ tmLive' = tmLive /\ tmHas' = tmHas /\ tmChecked' = tmChecked
        /\ tmBox' = tmBox /\ tmDropped' = tmDropped /\ tmOverlap' = tmOverlap /\ tmLock' = tmLock
        /\ tmCall[c].stage = "record" /\ tmSynced' = tmCall[c].hash /\ TmAt(c, "run")
    BY DEF TmRecord, TmRecorded, tmWorld
  <1>1. TmOthersSame(c) /\ tmCall'[c].stage = "run" /\ tmCall'[c].hash = tmCall[c].hash
    BY <1>0, TmAtIs DEF TmIInv, TmStages, TmUnderway
  <1>2. TmGood(c)
    BY DEF TmIInv
  <1>3. tmCall[c].hash \in 0 .. tmLocal /\ tmKind # "off"
    BY <1>0, <1>2 DEF TmGood, TmGoodStage, TmIInv, TmTypes, TmCallRecord
  <1>4. TmFaithful => TmHolds(tmCall[c].hash) /\ tmBox # 0
    BY <1>0, <1>2 DEF TmGood, TmGoodBox, TmGoodFile, TmFaithful
  <1>5. TmTypes'
    BY <1>0, <1>1, <1>3 DEF TmIInv, TmTypes, TmOthersSame
  <1>6. TmLockInv'
    <2>1. TmHolding(tmKind, "run") <=> TmHolding(tmKind, "record")
      BY DEF TmHolding, TmUnderway
    <2> QED BY <1>0, <1>1, <2>1, TmLockStays, TmLockKept DEF TmIInv
  <1>7. TmAloneInv'
    BY <1>0, <1>1, TmAloneKept DEF TmIInv
  <1>8. TmTableInv'
    BY <1>0, <1>4 DEF TmTableInv, TmFaithful, TmOneByOne, TmHolds
  <1>9. TmCheckedInv' /\ OneSandbox'
    BY <1>0, <1>1 DEF TmIInv, TmCheckedInv, TmOthersSame, OneSandbox
  <1>10. TmGood(c)'
    <2>1. TmGoodStage(c)'
      BY <1>0, <1>1, <1>2 DEF TmGood, TmGoodStage, TmUnderway
    <2>2. TmGoodBox(c)'
      BY <1>1 DEF TmGoodBox
    <2>3. TmGoodFile(c)'
      BY <1>0, <1>1, <1>4 DEF TmGoodFile, TmFaithful, TmOneByOne, TmHolds
    <2> QED BY <2>1, <2>2, <2>3 DEF TmGood
  <1>11. ASSUME NEW d \in TmCallers, d # c PROVE TmGood(d)'
    <2>1. tmCall'[d] = tmCall[d] /\ TmGood(d)
      BY <1>1, <1>11 DEF TmIInv, TmOthersSame
    <2>2. TmOneByOne => tmCall[d].stage \in {"idle", "lock"}
      BY <1>0, <1>11, TmOthersOut
    <2>3. TmGoodStage(d)' /\ TmGoodBox(d)'
      BY <1>0, <2>1 DEF TmGood, TmGoodStage, TmGoodBox, TmOneByOne
    <2>4. TmGoodFile(d)'
      BY <1>0, <2>1, <2>2 DEF TmGoodFile, TmFaithful, TmOneByOne
    <2> QED BY <2>3, <2>4 DEF TmGood
  <1> QED BY <1>5, <1>6, <1>7, <1>8, <1>9, <1>10, <1>11 DEF TmIInv

\* A request ends; E2B may give its sandbox up.
LEMMA TmRequestEnds ==
  ASSUME TmIInv, NEW c \in TmCallers, tmCall[c].stage \in {"upload", "running"}, TmGivesUp(c), TmDone(c),
         UNCHANGED <<tmKind, tmWorld, tmSynced, tmOverlap>>
  PROVE  TmIInv'
  <1>1. CASE ~(tmKind = "e2b" /\ tmCall[c].box \notin tmLive)
    BY <1>1, TmEndsQuietly DEF TmGivesUp
  <1>2. CASE tmKind = "e2b" /\ tmCall[c].box \notin tmLive
    <2>0. /\ tmKind' = tmKind /\ tmLocal' = tmLocal /\ tmMade' = tmMade /\ tmLive' = tmLive /\ tmHas' = tmHas /\ tmChecked' = tmChecked
          /\ tmSynced' = tmSynced /\ tmOverlap' = tmOverlap /\ tmBox' = 0 /\ tmDropped' = TRUE
      BY <1>2 DEF TmGivesUp, tmWorld
    <2>1. TmOthersSame(c) /\ tmCall'[c].stage = "idle" /\ tmCall'[c].hash = 0 /\ TmLockMoves(c, "idle")
      BY TmDoneIs DEF TmIInv
    <2>2. tmCall[c].box = tmBox
      BY <1>2 DEF TmIInv, TmGood, TmGoodBox, TmOneByOne
    <2>3. tmLive = {}
      BY <1>2, <2>2 DEF TmIInv, OneSandbox
    <2>4. TmTypes'
      BY <2>0, <2>1 DEF TmIInv, TmTypes, TmOthersSame
    <2>5. TmLockInv'
      BY <2>0, <2>1, TmLockKept DEF TmIInv
    <2>6. TmAloneInv'
      BY <2>0, <2>1, TmAloneKept DEF TmIInv
    <2>7. TmTableInv' /\ TmCheckedInv' /\ OneSandbox'
      BY <1>2, <2>0, <2>3 DEF TmTableInv, TmFaithful, TmCheckedInv, OneSandbox
    <2>8. TmGood(c)'
      BY <2>0, <2>1 DEF TmIInv, TmTypes, TmGood, TmGoodStage, TmGoodBox, TmGoodFile, TmUnderway
    <2>9. ASSUME NEW d \in TmCallers, d # c PROVE TmGood(d)'
      <3>1. tmCall'[d] = tmCall[d] /\ TmGood(d)
        BY <2>1, <2>9 DEF TmIInv, TmOthersSame
      <3>2. tmCall[d].stage \in {"idle", "lock"}
        BY <1>2, <2>9, TmOthersOut DEF TmOneByOne
      <3> QED BY <2>0, <3>1, <3>2 DEF TmGood, TmGoodStage, TmGoodBox, TmGoodFile
    <2> QED BY <2>4, <2>5, <2>6, <2>7, <2>8, <2>9 DEF TmIInv
  <1> QED BY <1>1, <1>2

\* The upload fails, for Modal too.
LEMMA TmUploadFailsKeeps ==
  ASSUME TmIInv, NEW c \in TmCallers, TmUploadFails(c)
  PROVE  TmIInv'
  <1>1. CASE tmKind # "modal"
    BY <1>1, TmRequestEnds DEF TmUploadFails, TmFailed
  <1>2. CASE tmKind = "modal"
    <2>0. /\ tmKind' = tmKind /\ tmLocal' = tmLocal /\ tmMade' = tmMade /\ tmLive' = tmLive /\ tmHas' = tmHas /\ tmChecked' = tmChecked
          /\ tmSynced' = tmSynced /\ tmOverlap' = tmOverlap /\ tmBox' = tmBox /\ tmLock' = tmLock /\ tmDropped' = TRUE
          /\ tmCall[c].stage = "upload" /\ TmAt(c, "run")
      BY <1>2 DEF TmUploadFails, tmWorld
    <2>1. TmOthersSame(c) /\ tmCall'[c].stage = "run" /\ tmCall'[c].hash = tmCall[c].hash
      BY <2>0, TmAtIs DEF TmIInv, TmStages, TmUnderway
    <2>2. TmTypes'
      BY <2>0, <2>1 DEF TmIInv, TmTypes, TmOthersSame
    <2>3. TmLockInv'
      <3>1. TmHolding(tmKind, "run") <=> TmHolding(tmKind, "upload")
        BY <1>2 DEF TmHolding
      <3> QED BY <2>0, <2>1, <3>1, TmLockStays, TmLockKept DEF TmIInv
    <2>4. TmAloneInv'
      BY <2>0, <2>1, TmAloneKept DEF TmIInv
    <2>5. TmTableInv' /\ TmCheckedInv' /\ OneSandbox'
      BY <1>2, <2>0 DEF TmIInv, TmTableInv, TmFaithful, TmCheckedInv, OneSandbox
    <2>6. TmGood(c)'
      <3>1. TmGoodStage(c)
        BY DEF TmIInv, TmGood
      <3> QED BY <2>0, <2>1, <3>1 DEF TmGood, TmGoodStage, TmGoodBox, TmGoodFile, TmFaithful, TmUnderway
    <2>7. ASSUME NEW d \in TmCallers, d # c PROVE TmGood(d)'
      <3>1. tmCall'[d] = tmCall[d] /\ TmGood(d)
        BY <2>1, <2>7 DEF TmIInv, TmOthersSame
      <3> QED BY <2>0, <3>1 DEF TmGood, TmGoodStage, TmGoodBox, TmGoodFile, TmFaithful, TmOneByOne
    <2> QED BY <2>2, <2>3, <2>4, <2>5, <2>6, <2>7 DEF TmIInv
  <1> QED BY <1>1, <1>2

\* The sandbox is made.
LEMMA TmCreatedKeeps ==
  ASSUME TmIInv, NEW c \in TmCallers, TmCreated(c)
  PROVE  TmIInv'
  <1> DEFINE b == IF tmKind = "modal" THEN 1 ELSE tmMade + 1
             s == IF tmKind = "docker" THEN "validate" ELSE TmReady
  <1>0. /\ tmKind' = tmKind /\ tmLocal' = tmLocal /\ tmHas' = tmHas /\ tmChecked' = tmChecked
        /\ tmSynced' = tmSynced /\ tmOverlap' = tmOverlap /\ tmDropped' = tmDropped
        /\ tmCall[c].stage = "create" /\ (tmMade < TmMaxBoxes \/ (tmKind = "modal" /\ tmMade > 0)) /\ TmMoves(c, s)
        /\ tmMade' = b /\ tmBox' = b /\ tmLive' = (IF tmKind = "ssh" THEN tmLive \ {tmBox} ELSE tmLive) \union {b}
    BY DEF TmCreated
  <1>1. tmKind \in TmAllKinds /\ TmReady = IF tmKind \in TmCopying THEN "hash" ELSE "run"
    BY <1>0, TmCallKind
  <1>2. /\ s \in TmStages /\ s \in {"hash", "run", "validate"} /\ (s = "validate" <=> tmKind = "docker")
        /\ (s = "hash" => tmKind \in TmCopying) /\ (s = "run" => tmKind \notin TmCopying)
    BY <1>1 DEF TmStages, TmUnderway, TmCopying
  <1>t. tmMade \in 0 .. TmMaxBoxes /\ TmMaxBoxes \in Nat /\ tmLive \subseteq 1 .. tmMade /\ (tmKind = "modal" => tmMade <= 1)
    BY TmAssumption DEF TmIInv, TmTypes
  <1>3. b \in 1 .. TmMaxBoxes /\ b # 0 /\ tmMade <= b /\ (tmKind = "modal" => b <= 1)
    BY <1>0, <1>t
  <1>4. tmLive' \subseteq 1 .. b
    <2> HIDE DEF b
    <2>1. tmLive \subseteq 1 .. b /\ b \in 1 .. b
      BY <1>3, <1>t
    <2> QED BY <1>0, <2>1
  <1> HIDE DEF s, b
  <1>5. TmOthersSame(c) /\ tmCall'[c].stage = s /\ TmLockMoves(c, s) /\ tmCall'[c].hash = tmCall[c].hash
    <2>1. TmHolding(tmKind, s) => TmHolding(tmKind, "create")
      BY <1>2 DEF TmHolding, TmUnderway
    <2> QED BY <1>0, <1>1, <1>2, <2>1, TmMovesIs DEF TmIInv
  <1>6. TmGood(c)
    BY DEF TmIInv
  <1>7. tmKind \in TmLocking \/ ~tmOverlap => tmBox = 0 \/ (tmKind = "ssh" /\ tmBox \notin tmLive)
    BY <1>0, <1>6 DEF TmGood, TmGoodBox
  <1>8. TmTypes'
    BY <1>0, <1>1, <1>3, <1>4, <1>5 DEF TmIInv, TmTypes, TmOthersSame, TmAllKinds
  <1>9. TmLockInv'
    BY <1>0, <1>5, TmLockKept DEF TmIInv
  <1>10. TmAloneInv'
    BY <1>0, <1>5, TmAloneKept DEF TmIInv
  <1>11. TmTableInv'
    <2> SUFFICES ASSUME TmFaithful' PROVE TmHolds(tmSynced)' /\ tmBox' # 0
      BY DEF TmTableInv
    <2>1. TmFaithful /\ tmKind \in TmCopying
      BY <1>0 DEF TmFaithful, TmOneByOne
    <2>2. tmBox = 0
      BY <1>7, <2>1 DEF TmFaithful, TmOneByOne, TmCopying, TmLocking
    <2>3. tmSynced = 0
      BY <2>1, <2>2 DEF TmIInv, TmTableInv
    <2>4. tmHas[b] \in Nat
      BY <1>3 DEF TmIInv, TmTypes
    <2> QED BY <1>0, <1>3, <2>3, <2>4 DEF TmHolds
  <1>12. TmCheckedInv'
    BY <1>0, <1>2, <1>5 DEF TmCheckedInv
  <1>13. OneSandbox'
    <2> SUFFICES ASSUME tmKind \in TmLocking \/ ~tmOverlap PROVE tmLive' \subseteq {b}
      BY <1>0 DEF OneSandbox, TmLocking
    <2>1. tmLive \subseteq {tmBox}
      BY DEF TmIInv, OneSandbox, TmLocking
    <2>2. tmBox = 0 \/ tmBox \notin tmLive
      BY <1>7
    <2>3. tmLive = {}
      BY <1>t, <2>1, <2>2
    <2> QED BY <1>0, <2>3
  <1>14. TmGood(c)'
    <2>1. TmGoodStage(c)'
      BY <1>0, <1>2, <1>5, <1>6 DEF TmGood, TmGoodStage, TmUnderway
    <2>2. TmGoodBox(c)'
      BY <1>2, <1>5 DEF TmGoodBox
    <2>3. TmGoodFile(c)'
      BY <1>0, <1>2, <1>5 DEF TmGoodFile, TmFaithful
    <2> QED BY <2>1, <2>2, <2>3 DEF TmGood
  <1>15. ASSUME NEW d \in TmCallers, d # c PROVE TmGood(d)'
    <2>1. tmCall'[d] = tmCall[d] /\ TmGood(d)
      BY <1>5, <1>15 DEF TmIInv, TmOthersSame
    <2>2. (TmOneByOne => tmCall[d].stage \in {"idle", "lock"}) /\ (~tmOverlap => tmCall[d].stage = "idle")
      BY <1>0, <1>15, TmOthersOut
    <2>3. tmKind \in TmLocking => tmCall[d].stage # "create"
      <3>1. tmKind \in TmLocking => TmHolding(tmKind, "create")
        BY DEF TmLocking, TmHolding
      <3> QED BY <1>0, <1>15, <3>1, TmOthersOut
    <2>4. TmGoodStage(d)'
      BY <1>0, <2>1 DEF TmGood, TmGoodStage
    <2>5. TmGoodBox(d)'
      BY <1>0, <2>1, <2>2, <2>3 DEF TmGoodBox, TmOneByOne
    <2>6. TmGoodFile(d)'
      BY <1>0, <2>1, <2>2 DEF TmGoodFile, TmFaithful, TmOneByOne
    <2> QED BY <2>4, <2>5, <2>6 DEF TmGood
  <1> QED BY <1>8, <1>9, <1>10, <1>11, <1>12, <1>13, <1>14, <1>15 DEF TmIInv

\* The container is validated, or stopped.
LEMMA TmValidateKeeps ==
  ASSUME TmIInv, NEW c \in TmCallers, NEW right \in BOOLEAN, TmValidate(c, right)
  PROVE  TmIInv'
  <1>0. /\ tmKind' = tmKind /\ tmLocal' = tmLocal /\ tmMade' = tmMade /\ tmHas' = tmHas
        /\ tmSynced' = tmSynced /\ tmOverlap' = tmOverlap /\ tmDropped' = tmDropped /\ tmCall[c].stage = "validate"
    BY DEF TmValidate
  <1>1. tmKind = "docker" /\ tmKind \in TmAllKinds
    BY <1>0 DEF TmIInv, TmGood, TmGoodStage, TmAllKinds
  <1>2. ASSUME NEW d \in TmCallers, d # c PROVE (~tmOverlap => tmCall[d].stage = "idle") /\ tmCall[d].stage # "create"
    <2>1. TmHolding(tmKind, "validate") /\ TmHolding(tmKind, "create")
      BY <1>1 DEF TmHolding
    <2> QED BY <1>0, <1>2, <2>1, TmOthersOut
  <1>3. CASE right
    <2>0. tmChecked' = tmChecked \union {tmBox} /\ TmMoves(c, "run") /\ tmBox' = tmBox /\ tmLive' = tmLive
      BY <1>3 DEF TmValidate
    <2>1. TmOthersSame(c) /\ tmCall'[c].stage = "run" /\ TmLockMoves(c, "run") /\ tmCall'[c].hash = tmCall[c].hash
      <3>1. ~TmHolding(tmKind, "run") /\ "run" \in TmStages
        BY <1>1 DEF TmHolding, TmStages, TmUnderway
      <3> QED BY <1>1, <2>0, <3>1, TmMovesIs DEF TmIInv
    <2>2. TmTypes'
      BY <1>0, <2>0, <2>1 DEF TmIInv, TmTypes, TmOthersSame
    <2>3. TmLockInv'
      BY <1>0, <2>1, TmLockKept DEF TmIInv
    <2>4. TmAloneInv'
      BY <1>0, <2>1, TmAloneKept DEF TmIInv
    <2>5. TmTableInv' /\ TmCheckedInv' /\ OneSandbox'
      BY <1>0, <1>1, <2>0 DEF TmIInv, TmTableInv, TmFaithful, TmCopying, TmCheckedInv, OneSandbox
    <2>6. TmGood(c)'
      <3>1. TmGoodStage(c)
        BY DEF TmIInv, TmGood
      <3> QED BY <1>0, <1>1, <2>1, <3>1 DEF TmGood, TmGoodStage, TmGoodBox, TmGoodFile, TmFaithful, TmUnderway, TmCopying
    <2>7. ASSUME NEW d \in TmCallers, d # c PROVE TmGood(d)'
      <3>1. tmCall'[d] = tmCall[d] /\ TmGood(d)
        BY <2>1, <2>7 DEF TmIInv, TmOthersSame
      <3> QED BY <1>0, <1>1, <2>0, <3>1 DEF TmGood, TmGoodStage, TmGoodBox, TmGoodFile, TmFaithful, TmOneByOne, TmCopying
    <2> QED BY <2>2, <2>3, <2>4, <2>5, <2>6, <2>7 DEF TmIInv
  <1>4. CASE ~right
    <2>0. tmChecked' = tmChecked /\ TmDone(c) /\ tmBox' = 0 /\ tmLive' = tmLive \ {tmBox}
      BY <1>4 DEF TmValidate, TmRefused, TmFailed
    <2>1. TmOthersSame(c) /\ tmCall'[c].stage = "idle" /\ tmCall'[c].hash = 0 /\ TmLockMoves(c, "idle")
      BY <2>0, TmDoneIs DEF TmIInv
    <2>2. TmTypes'
      BY <1>0, <2>0, <2>1 DEF TmIInv, TmTypes, TmOthersSame
    <2>3. TmLockInv'
      BY <1>0, <2>1, TmLockKept DEF TmIInv
    <2>4. TmAloneInv'
      BY <1>0, <2>1, TmAloneKept DEF TmIInv
    <2>5. TmTableInv' /\ TmCheckedInv' /\ OneSandbox'
      BY <1>0, <1>1, <2>0 DEF TmIInv, TmTableInv, TmFaithful, TmCopying, TmCheckedInv, OneSandbox
    <2>6. TmGood(c)'
      BY <1>0, <2>1 DEF TmIInv, TmTypes, TmGood, TmGoodStage, TmGoodBox, TmGoodFile, TmUnderway
    <2>7. ASSUME NEW d \in TmCallers, d # c PROVE TmGood(d)'
      <3>1. tmCall'[d] = tmCall[d] /\ TmGood(d) /\ (~tmOverlap => tmCall[d].stage = "idle")
        BY <1>2, <2>1, <2>7 DEF TmIInv, TmOthersSame
      <3> QED BY <1>0, <1>1, <2>0, <3>1 DEF TmGood, TmGoodStage, TmGoodBox, TmGoodFile, TmFaithful, TmOneByOne, TmCopying
    <2> QED BY <2>2, <2>3, <2>4, <2>5, <2>6, <2>7 DEF TmIInv
  <1> QED BY <1>3, <1>4

\* The sandbox is closed when nobody holds the lock.
LEMMA TmCloseKeeps ==
  ASSUME TmIInv, TmClose
  PROVE  TmIInv'
  <1>0. /\ tmKind' = tmKind /\ tmLocal' = tmLocal /\ tmMade' = tmMade /\ tmHas' = tmHas /\ tmChecked' = tmChecked /\ tmLock' = tmLock
        /\ tmCall' = tmCall /\ tmDropped' = tmDropped /\ tmLock = {} /\ tmBox' = 0 /\ tmLive' = tmLive \ {tmBox} /\ tmSynced' = 0
        /\ tmOverlap' = (tmOverlap \/ \E d \in TmCallers : tmCall[d].stage # "idle")
    BY DEF TmClose
  <1>1. ~tmOverlap' => ~tmOverlap /\ \A d \in TmCallers : tmCall[d].stage = "idle"
    BY <1>0
  <1>2. ASSUME NEW d \in TmCallers PROVE ~TmHolding(tmKind, tmCall[d].stage)
    BY <1>0 DEF TmIInv, TmLockInv
  <1>3. tmOverlap' \in BOOLEAN /\ 0 \in 0 .. tmMade /\ 0 \in 0 .. tmLocal
    BY <1>0 DEF TmIInv, TmTypes
  <1>4. TmTypes'
    BY <1>0, <1>3 DEF TmIInv, TmTypes
  <1>5. TmLockInv' /\ TmAloneInv'
    BY <1>0, <1>1 DEF TmIInv, TmLockInv, TmAloneInv
  <1>6. TmTableInv' /\ TmCheckedInv' /\ OneSandbox'
    BY <1>0, <1>1 DEF TmIInv, TmTableInv, TmHolds, TmCheckedInv, OneSandbox
  <1>7. ASSUME NEW d \in TmCallers PROVE TmGood(d)'
    <2>1. TmGood(d) /\ tmCall'[d] = tmCall[d]
      BY <1>0 DEF TmIInv
    <2>2. tmKind = "e2b" => tmCall[d].stage \notin {"upload", "record", "running"}
      BY <1>2 DEF TmHolding, TmUnderway
    <2>3. TmGoodStage(d)'
      BY <1>0, <2>1 DEF TmGood, TmGoodStage
    <2>4. TmGoodBox(d)'
      BY <1>0, <1>1, <2>1, <2>2 DEF TmGoodBox, TmOneByOne
    <2>5. TmGoodFile(d)'
      BY <1>0, <1>1, <2>1, <2>2 DEF TmGoodFile, TmFaithful, TmOneByOne, TmHolds
    <2> QED BY <2>3, <2>4, <2>5 DEF TmGood
  <1> QED BY <1>4, <1>5, <1>6, <1>7 DEF TmIInv

\* The sandbox ends by itself, the file is edited, and a backend is chosen.
LEMMA TmWorldKeeps ==
  ASSUME TmIInv, TmDies \/ TmEdited \/ TmCreateBackend
  PROVE  TmIInv'
  <1>0. /\ tmMade' = tmMade /\ tmHas' = tmHas /\ tmChecked' = tmChecked /\ tmLock' = tmLock /\ tmBox' = tmBox /\ tmSynced' = tmSynced
        /\ tmCall' = tmCall /\ tmDropped' = tmDropped /\ tmOverlap' = tmOverlap
    BY DEF TmDies, TmEdited, TmCreateBackend, tmWorld
  <1>1. CASE TmDies
    <2>0. tmKind' = tmKind /\ tmLocal' = tmLocal /\ tmLive' = tmLive \ {tmBox}
      BY <1>1 DEF TmDies
    <2>1. TmTypes' /\ TmLockInv' /\ TmAloneInv'
      BY <1>0, <2>0 DEF TmIInv, TmTypes, TmLockInv, TmAloneInv
    <2>2. TmTableInv' /\ TmCheckedInv' /\ OneSandbox'
      BY <1>0, <2>0 DEF TmIInv, TmTableInv, TmFaithful, TmOneByOne, TmHolds, TmCheckedInv, OneSandbox
    <2>3. ASSUME NEW d \in TmCallers PROVE TmGood(d)'
      BY <1>0, <2>0, <2>3 DEF TmIInv, TmGood, TmGoodStage, TmGoodBox, TmGoodFile, TmFaithful, TmOneByOne, TmHolds
    <2> QED BY <2>1, <2>2, <2>3 DEF TmIInv
  <1>2. CASE TmEdited
    <2>0. tmKind' = tmKind /\ tmLocal' = tmLocal + 1 /\ tmLocal < TmMaxVersion /\ tmLive' = tmLive
      BY <1>2 DEF TmEdited
    <2>1. tmLocal' \in 1 .. TmMaxVersion /\ tmSynced \in 0 .. tmLocal'
      BY <2>0, TmAssumption DEF TmIInv, TmTypes
    <2>2. TmTypes' /\ TmLockInv' /\ TmAloneInv'
      BY <1>0, <2>0, <2>1 DEF TmIInv, TmTypes, TmLockInv, TmAloneInv
    <2>3. TmTableInv' /\ TmCheckedInv' /\ OneSandbox'
      BY <1>0, <2>0 DEF TmIInv, TmTableInv, TmFaithful, TmOneByOne, TmHolds, TmCheckedInv, OneSandbox
    <2>4. ASSUME NEW d \in TmCallers PROVE TmGood(d)'
      <3>1. TmGood(d) /\ tmCall[d].hash \in Nat /\ tmLocal \in Nat
        BY DEF TmIInv, TmTypes, TmCallRecord
      <3> QED BY <1>0, <2>0, <3>1 DEF TmGood, TmGoodStage, TmGoodBox, TmGoodFile, TmFaithful, TmOneByOne, TmHolds
    <2> QED BY <2>2, <2>3, <2>4 DEF TmIInv
  <1>3. CASE TmCreateBackend
    <2>0. tmKind = "off" /\ tmKind' \in TmAllKinds /\ tmLocal' = tmLocal /\ tmLive' = tmLive
      BY <1>3, TmCourses DEF TmCreateBackend, tmWorld
    <2>1. \A d \in TmCallers : tmCall[d].stage = "idle"
      BY <2>0 DEF TmIInv, TmGood, TmGoodStage
    <2>2. tmMade = 0 /\ tmBox = 0 /\ tmLive = {} /\ tmSynced = 0
      BY <2>0 DEF TmIInv, TmTypes
    <2>3. TmTypes'
      BY <1>0, <2>0, <2>2 DEF TmIInv, TmTypes, TmAllKinds
    <2>4. TmLockInv' /\ TmAloneInv'
      BY <1>0, <2>0, <2>1 DEF TmIInv, TmLockInv, TmAloneInv, TmHolding, TmUnderway
    <2>5. TmTableInv' /\ TmCheckedInv' /\ OneSandbox'
      BY <1>0, <2>0, <2>2 DEF TmTableInv, TmHolds, TmCheckedInv, OneSandbox
    <2>6. ASSUME NEW d \in TmCallers PROVE TmGood(d)'
      BY <1>0, <2>0, <2>1 DEF TmIInv, TmGood, TmGoodStage, TmGoodBox, TmGoodFile, TmUnderway
    <2> QED BY <2>3, <2>4, <2>5, <2>6 DEF TmIInv
  <1> QED BY <1>1, <1>2, <1>3

\* Every step of a backend keeps the invariant.
LEMMA TmStep == TmIInv /\ [TmNext]_tmVars => TmIInv'
  <1> SUFFICES ASSUME TmIInv, [TmNext]_tmVars PROVE TmIInv'
    OBVIOUS
  <1>1. CASE TmCreateBackend \/ TmClose \/ TmDies \/ TmEdited
    BY <1>1, TmCloseKeeps, TmWorldKeeps
  <1>2. ASSUME NEW c \in TmCallers, TmExecute(c) \/ TmAcquires(c) \/ TmConnect(c) \/ TmCreated(c) PROVE TmIInv'
    BY <1>2, TmExecuteKeeps, TmAcquiresKeeps, TmConnectKeeps, TmCreatedKeeps
  <1>3. ASSUME NEW c \in TmCallers, TmCreateFails(c) PROVE TmIInv'
    BY <1>3, TmEndsQuietly DEF TmCreateFails, TmFailed
  <1>4. ASSUME NEW c \in TmCallers, NEW right \in BOOLEAN, TmValidate(c, right) PROVE TmIInv'
    BY <1>4, TmValidateKeeps
  <1>5. ASSUME NEW c \in TmCallers, TmHash(c) \/ TmRead(c) \/ TmLands(c) \/ TmRecord(c) \/ TmUploadFails(c) \/ TmRuns(c) PROVE TmIInv'
    BY <1>5, TmHashKeeps, TmReadKeeps, TmLandsKeeps, TmRecordKeeps, TmUploadFailsKeeps, TmRunsKeeps
  <1>6. ASSUME NEW c \in TmCallers, TmEnds(c) PROVE TmIInv'
    BY <1>6, TmRequestEnds DEF TmEnds
  <1>7. CASE UNCHANGED tmVars
    <2>1. TmTypes' /\ TmLockInv' /\ TmAloneInv' /\ TmTableInv' /\ TmCheckedInv' /\ OneSandbox'
      BY <1>7 DEF tmVars, TmIInv, TmTypes, TmLockInv, TmAloneInv, TmTableInv, TmCheckedInv, OneSandbox, TmFaithful, TmOneByOne, TmHolds
    <2>2. ASSUME NEW d \in TmCallers PROVE TmGood(d)'
      BY <1>7 DEF tmVars, TmIInv, TmGood, TmGoodStage, TmGoodBox, TmGoodFile, TmFaithful, TmOneByOne, TmHolds
    <2> QED BY <2>1, <2>2 DEF TmIInv
  <1> QED BY <1>1, <1>2, <1>3, <1>4, <1>5, <1>6, <1>7 DEF TmNext

\* At first no backend is chosen, and the invariant implies the properties.
LEMMA TmFacts == (TmInit => TmIInv) /\ (TmIInv => TmTypeOK /\ FilesSeen /\ OneSandbox /\ ValidatedOnly)
  <1>1. ASSUME TmInit PROVE TmIInv
    <2>1. tmCall \in [TmCallers -> TmCallRecord] /\ \A c \in TmCallers : tmCall[c].stage = "idle" /\ tmCall[c].hash = 0
      BY <1>1 DEF TmInit, TmIdle, TmCallRecord, TmStages
    <2>2. TmTypes
      <3>1. /\ tmKind = "off" /\ tmLocal = 1 /\ tmBox = 0 /\ tmMade = 0 /\ tmLive = {} /\ tmSynced = 0 /\ tmOverlap = FALSE /\ tmDropped = FALSE
            /\ tmHas = [b \in 1 .. TmMaxBoxes |-> 0]
        BY <1>1 DEF TmInit
      <3>2. 1 \in 1 .. TmMaxVersion /\ 0 \in 0 .. TmMaxBoxes /\ 0 \in 0 .. 1 /\ 0 \in 0 .. 0
        BY TmAssumption
      <3>3. tmHas \in [1 .. TmMaxBoxes -> Nat]
        BY <3>1
      <3>4. tmLocal \in 1 .. TmMaxVersion /\ tmMade \in 0 .. TmMaxBoxes /\ tmBox \in 0 .. tmMade /\ tmSynced \in 0 .. tmLocal
        BY <3>1, <3>2, Zenon
      <3>5. tmLive \subseteq 1 .. tmMade /\ tmKind \in TmAllKinds \union {"off"} /\ tmKind # "modal"
        BY <3>1
      <3> QED BY <2>1, <3>1, <3>3, <3>4, <3>5 DEF TmTypes
    <2>3. TmLockInv /\ TmAloneInv
      BY <1>1, <2>1 DEF TmInit, TmLockInv, TmAloneInv, TmHolding
    <2>4. TmTableInv /\ TmCheckedInv /\ OneSandbox
      BY <1>1 DEF TmInit, TmTableInv, TmHolds, TmCheckedInv, OneSandbox
    <2>5. ASSUME NEW c \in TmCallers PROVE TmGood(c)
      BY <1>1, <2>1, TmIdleGood DEF TmInit
    <2> QED BY <2>2, <2>3, <2>4, <2>5 DEF TmIInv
  <1>2. ASSUME TmIInv PROVE TmTypeOK
    <2>1. ASSUME NEW c \in TmCallers PROVE tmLock = {c} <=> tmKind # "off" /\ TmLocked(tmKind, tmCall[c].stage)
      <3>1. CASE tmKind = "off"
        <4>1. ~TmHolding(tmKind, tmCall[c].stage)
          BY <3>1 DEF TmHolding
        <4> QED BY <1>2, <3>1, <4>1 DEF TmIInv, TmLockInv
      <3>2. CASE tmKind # "off"
        <4>1. tmKind \in TmAllKinds
          BY <1>2, <3>2 DEF TmIInv, TmTypes
        <4> QED BY <1>2, <3>2, <4>1, TmCourses DEF TmIInv, TmLockInv
      <3> QED BY <3>1, <3>2
    <2> QED BY <1>2, <2>1 DEF TmIInv, TmTypes, TmTypeOK
  <1>3. ASSUME TmIInv PROVE FilesSeen
    <2> SUFFICES ASSUME NEW c \in TmCallers, tmCall[c].stage = "running", TmCopies, ~tmDropped, tmKind = "e2b" \/ ~tmOverlap
                 PROVE  tmHas[tmCall[c].box] >= tmCall[c].hash
      BY DEF FilesSeen
    <2>1. TmFaithful
      BY <1>3, TmCallKind DEF TmFaithful, TmOneByOne
    <2>2. TmGood(c)
      BY <1>3 DEF TmIInv
    <2> QED BY <2>1, <2>2 DEF TmGood, TmGoodBox, TmGoodFile, TmFaithful, TmHolds
  <1>4. ASSUME TmIInv PROVE ValidatedOnly
    BY <1>4 DEF TmIInv, TmGood, TmGoodBox, ValidatedOnly
  <1> QED BY <1>1, <1>2, <1>3, <1>4 DEF TmIInv

-----------------------------------------------------------------------------
(* What steps may not do *)

\* A grant is given only after the cool-down.
LEMMA RlNoGrantStep ==
  ASSUME RlIInv, RlNext
  PROVE  \A ch \in RlChannels : rlGrants'[ch] # rlGrants[ch] => rlNow >= rlBlocked[ch]
  <1> SUFFICES ASSUME NEW ch \in RlChannels, rlGrants'[ch] # rlGrants[ch] PROVE rlNow >= rlBlocked[ch]
    OBVIOUS
  <1>1. rlNow \in Nat /\ rlBlocked[ch] \in Nat /\ rlGrants \in [RlChannels -> Seq(Nat)] /\ rlCall \in [RlCallers -> RlCallRecord]
    BY SMTT(20), RlAssumption DEF RlIInv, RlLimiterInv, RlTypes
  <1>2. PICK c \in RlCallers : Locked(c)
    BY DEF RlNext, RlStart, RlTick, RecordFailure, RecordSuccess, RecordDelivery, Wakes, Acquire, ReportRateLimit, limiter
  <1> DEFINE x == rlCall[c].channel
  <1>3. ~Cooling(x) /\ rlGrants' = [rlGrants EXCEPT ![x] = Append(@, rlNow)]
    BY <1>2 DEF Locked
  <1>4. x = ch
    BY <1>1, <1>3
  <1> HIDE DEF x
  <1> QED BY <1>1, <1>3, <1>4 DEF Cooling

\* A connection from a sandbox is not to a private address.
LEMMA PrNoPrivateStep ==
  ASSUME PrIInv, PrNext, prLast' # prLast, prLast'.outcome = "connected", prStack[prLast'.task] # <<>>
  PROVE  prLast'.address # "private"
  <1>1. PICK t \in PrTasks, port \in {80, 443} : PrConnect(t, port)
    BY DEF PrNext, PrStart, PrIsElevated, PrRevoke, PrTick, PrAddRule, PrElevate, PrApplyPack, PrAddPolicy, PrRemovePolicy, PrEnter, PrLeave, PrResolve, prEgress
  <1>2. /\ prLast'.task = t /\ prLast'.address = prNames[t].address
        /\ prLast'.outcome = IF PrBlocked(t, prNames[t].address, port) THEN "denied" ELSE "connected"
    BY <1>1 DEF PrConnect
  <1>3. prStack[t] # <<>> /\ ~PrBlocked(t, prNames[t].address, port)
    BY <1>2
  <1>4. prContext[t] # PrNone
    <2>1. prStack[t] \in Seq(PrFrame) /\ prContext[t] = PrInForce(prStack[t])
      BY DEF PrIInv, PrStackInv
    <2>2. prStack[t][Len(prStack[t])] \in PrFrame
      BY <1>3, <2>1, EmptySeq
    <2> QED BY <1>3, <2>1, <2>2 DEF PrInForce, PrFrame, PrNone
  <1> QED BY <1>2, <1>3, <1>4 DEF PrBlocked

\* What a step does to the outcomes: a success or a failure is recorded, or there are as many or none.
LEMMA CbOutcomes ==
  ASSUME CbNext
  PROVE  \/ CbRecordSuccess /\ cbNow' = cbNow
         \/ CbRecordFailure /\ cbNow' = cbNow
         \/ cbState' = "closed" /\ cbLog' = <<>>
         \/ cbState' = cbState /\ cbLog' = cbLog
  BY DEF CbNext, CbStart, CbTick, CbReset, CallBegins, StreamBegins, CallEnds, Enter, Leave, CallSucceeds, CallFails, breaker

\* A circuit opens on a run of failures.
LEMMA CbTripsStep ==
  ASSUME CbIInv, CbNext, cbState = "closed", cbState' = "open"
  PROVE  Len(cbLog') >= CbThreshold /\ \A i \in DOMAIN cbLog' : i > Len(cbLog') - CbThreshold => ~cbLog'[i].ok
  BY CbOutcomes, CbSuccessKeeps, CbFailureKeeps DEF CbIInv

\* A circuit closes on probes.
LEMMA CbClosesStep ==
  ASSUME CbIInv, CbNext, cbState = "open", cbState' = "closed", cbLog' # <<>>
  PROVE  \A i \in DOMAIN cbLog' : i > Len(cbLog') - CbProbes =>
            /\ cbLog'[i].ok
            /\ \A j \in DOMAIN cbLog' : ~cbLog'[j].ok => cbLog'[i].at - cbLog'[j].at >= CbRecovery
  BY CbOutcomes, CbSuccessKeeps, CbFailureKeeps DEF CbIInv

\* Quotients grow with the dividend and shrink with the divisor.
LEMMA Quotients ==
  ASSUME NEW a \in Nat, NEW b \in Nat, NEW n \in Nat \ {0}, NEW m \in Nat \ {0}, a <= b, n <= m
  PROVE  a \div m <= b \div n /\ a \div m \in Nat
  <1> DEFINE p == a \div m
             q == b \div n
  <1>1. p \in Nat /\ m * p <= a
    OBVIOUS
  <1>2. q \in Nat /\ b < n * q + n
    OBVIOUS
  <1> HIDE DEF p, q
  <1>3. CASE p > q
    <2>1. p >= q + 1
      BY <1>1, <1>2, <1>3
    <2>2. n * p <= m * p /\ n * (q + 1) <= n * p
      BY <1>1, <1>2, <2>1
    <2>3. n * (q + 1) = n * q + n
      BY <1>2
    <2>4. n * (q + 1) \in Int /\ n * p \in Int /\ m * p \in Int
      BY <1>1, <1>2
    <2> QED BY <1>1, <1>2, <2>2, <2>3, <2>4
  <1> QED BY <1>1, <1>2, <1>3 DEF p, q

\* The good calls of a history.
CbGood(history) == Cardinality({i \in DOMAIN history : history[i]})

\* A failure adds no good call, whatever leaves the window for it.
LEMMA CbGoodFalls ==
  ASSUME NEW h \in Seq(BOOLEAN), Len(h) <= CbWindow, CbWindow \in Nat \ {0}
  PROVE  LET k == CbLastOf(Append(h, FALSE), CbWindow)
         IN  k \in Seq(BOOLEAN) /\ Len(k) \in Nat \ {0} /\ Len(h) <= Len(k) /\ CbGood(k) <= CbGood(h) /\ CbGood(k) \in Nat /\ CbGood(h) \in Nat
  <1> DEFINE g == Append(h, FALSE)
             n == Len(h)
             k == CbLastOf(g, CbWindow)
             H == {i \in DOMAIN h : h[i]}
             K == {i \in DOMAIN k : k[i]}
  <1>1. n \in Nat /\ DOMAIN h = 1 .. n
    OBVIOUS
  <1>2. g \in Seq(BOOLEAN) /\ Len(g) = n + 1 /\ DOMAIN g = 1 .. n + 1 /\ g[n + 1] = FALSE /\ \A i \in 1 .. n : g[i] = h[i]
    BY <1>1
  <1>3. IsFiniteSet(H) /\ Cardinality(H) \in Nat
    <2>1. IsFiniteSet(1 .. n)
      BY <1>1, FS_Interval
    <2>2. H \subseteq 1 .. n
      BY <1>1
    <2> HIDE DEF H, n
    <2>3. IsFiniteSet(H)
      BY <2>1, <2>2, FS_Subset
    <2> QED BY <2>3, FS_CardinalityType
  <1> HIDE DEF g
  <1>4. CASE n < CbWindow
    <2>1. k = g
      BY <1>1, <1>2, <1>4 DEF CbLastOf
    <2>2. K = H
      BY <1>1, <1>2, <2>1
    <2>3. k \in Seq(BOOLEAN) /\ Len(k) \in Nat \ {0} /\ n <= Len(k)
      BY <1>1, <1>2, <2>1
    <2>4. CbGood(k) = Cardinality(K) /\ CbGood(h) = Cardinality(H)
      BY DEF CbGood
    <2> HIDE DEF K, H, k, n
    <2>5. CbGood(k) <= CbGood(h) /\ CbGood(k) \in Nat /\ CbGood(h) \in Nat
      BY <1>3, <2>2, <2>4
    <2> QED BY <2>3, <2>5 DEF k, n, g
  <1>5. CASE n = CbWindow
    <2>1. k = SubSeq(g, 2, n + 1)
      BY <1>1, <1>2, <1>5 DEF CbLastOf
    <2>2. k \in Seq(BOOLEAN) /\ Len(k) = n /\ DOMAIN k = 1 .. n /\ \A i \in 1 .. n : k[i] = g[i + 1]
      BY <1>1, <1>2, <1>5, <2>1
    <2>3. \A i \in K : i + 1 \in H
      <3> SUFFICES ASSUME NEW i \in K PROVE i + 1 \in H
        OBVIOUS
      <3>1. i \in 1 .. n /\ g[i + 1] = TRUE
        BY <2>2
      <3>2. i # n
        BY <1>2, <3>1
      <3>3. i + 1 \in 1 .. n
        BY <1>1, <3>1, <3>2
      <3> QED BY <1>1, <1>2, <3>1, <3>3
    <2> DEFINE f == [i \in K |-> i + 1]
    <2>4. K \subseteq Int
      BY <2>2
    <2> HIDE DEF H, K
    <2>5. f \in Injection(K, H)
      <3>1. f \in [K -> H]
        BY <2>3
      <3>2. \A i, j \in K : f[i] = f[j] => i = j
        BY <2>4
      <3> HIDE DEF f
      <3> QED BY <3>1, <3>2 DEF Injection, IsInjective
    <2> HIDE DEF f
    <2>6. IsFiniteSet(K) /\ Cardinality(K) <= Cardinality(H)
      BY <1>3, <2>5, FS_Injection
    <2>7. Cardinality(K) \in Nat
      BY <2>6, FS_CardinalityType
    <2>8. CbGood(k) = Cardinality(K) /\ CbGood(h) = Cardinality(H)
      BY Zenon DEF CbGood, K, H
    <2>9. k \in Seq(BOOLEAN) /\ Len(k) \in Nat \ {0} /\ n <= Len(k)
      BY <1>1, <1>5, <2>2
    <2> HIDE DEF k, n
    <2> QED BY <1>3, <2>6, <2>7, <2>8, <2>9 DEF k, n, g
  <1>6. n \in Nat /\ n <= CbWindow /\ CbWindow \in Nat
    BY <1>1
  <1> HIDE DEF k, n
  <1>7. n < CbWindow \/ n = CbWindow
    BY <1>6
  <1> QED BY <1>4, <1>5, <1>7 DEF k, g

CbBase(good, n, consecutive) == Minus((1000 * good) \div n, ConsecutivePenalty(consecutive))

\* The score of a history before the circuit is looked at is a number, and failures lower it.
LEMMA CbScores ==
  ASSUME NEW g \in Nat, NEW k \in Nat, NEW n \in Nat \ {0}, NEW m \in Nat \ {0}, NEW c \in Nat, k <= g, n <= m
  PROVE  CbBase(g, n, c) \in Nat /\ CbBase(k, m, c + 1) <= CbBase(g, n, c)
  <1> DEFINE a == 1000 * k
             b == 1000 * g
             p == a \div m
             q == b \div n
             u == ConsecutivePenalty(c)
             v == ConsecutivePenalty(c + 1)
  <1>1. a \in Nat /\ b \in Nat /\ a <= b
    OBVIOUS
  <1>2. u \in Nat /\ v \in Nat /\ u <= v
    BY DEF ConsecutivePenalty, Least
  <1> HIDE DEF a, b, u, v
  <1>3. p <= q /\ p \in Nat
    BY <1>1, Quotients
  <1>4. q \in Nat
    BY <1>1, Quotients
  <1> HIDE DEF p, q
  <1>5. Minus(q, u) \in Nat /\ Minus(p, v) <= Minus(q, u)
    BY <1>2, <1>3, <1>4 DEF Minus
  <1> QED BY <1>5 DEF a, b, p, q, u, v, CbBase

\* A failure never raises the score.
LEMMA CbScoreStep ==
  ASSUME CbIInv, CbNext, cbLog' # <<>>, cbLog' # cbLog, ~cbLog'[Len(cbLog')].ok
  PROVE  HealthScore(Effective(cbState', cbLastFailure'), cbHistory', cbConsecutive')
            <= HealthScore(Effective(cbState, cbLastFailure), cbHistory, cbConsecutive)
  <1> DEFINE e == Effective(cbState, cbLastFailure)
             h == cbHistory
             k == CbLastOf(Append(cbHistory, FALSE), CbWindow)
             c == cbConsecutive
             before == CbBase(CbGood(h), Len(h), c)
             after == CbBase(CbGood(k), Len(k), c + 1)
  <1>0. CbTypes /\ CbCountedInv /\ cbNow \in Nat /\ c \in Nat /\ h \in Seq(BOOLEAN) /\ Len(h) <= CbWindow /\ CbWindow \in Nat \ {0} /\ CbRecovery \in Nat \ {0}
    BY CbAssumption DEF CbIInv, CbTypes
  <1>1. CbRecordFailure /\ cbNow' = cbNow
    <2>1. CASE CbRecordSuccess
      <3>1. cbLog' = Append(cbLog, [ok |-> TRUE, at |-> cbNow])
        BY <2>1 DEF CbRecordSuccess, CbRecordCall
      <3>2. cbLog \in Seq(CbOutcome) /\ [ok |-> TRUE, at |-> cbNow] \in CbOutcome
        BY <1>0 DEF CbTypes, CbOutcome
      <3>3. cbLog'[Len(cbLog')] = [ok |-> TRUE, at |-> cbNow]
        BY <3>1, <3>2
      <3> QED BY <3>3
    <2> QED BY <2>1, CbOutcomes
  <1>2. /\ cbHistory' = k /\ cbConsecutive' = c + 1 /\ cbLastFailure' = cbNow
        /\ cbState = "open" => cbState' = "open"
        /\ cbState' \in {"closed", "open"} /\ cbState \in {"closed", "open"}
    BY <1>0, <1>1, CbFailureKeeps DEF CbTypes
  <1>3. Effective(cbState', cbLastFailure') = cbState'
    BY <1>0, <1>1, <1>2 DEF Effective
  <1>4. k \in Seq(BOOLEAN) /\ Len(k) \in Nat \ {0} /\ Len(h) <= Len(k) /\ CbGood(k) <= CbGood(h) /\ CbGood(k) \in Nat /\ CbGood(h) \in Nat /\ k # <<>>
    <2>1. k \in Seq(BOOLEAN) /\ Len(k) \in Nat \ {0} /\ Len(h) <= Len(k) /\ CbGood(k) <= CbGood(h) /\ CbGood(k) \in Nat /\ CbGood(h) \in Nat
      BY <1>0, CbGoodFalls
    <2> HIDE DEF k
    <2> QED BY <2>1
  <1>5. HealthScore(cbState', k, c + 1) = IF cbState' = "open" THEN 0 ELSE after
    <2> HIDE DEF k
    <2> QED BY <1>2, <1>4 DEF HealthScore, CbGood, CbBase
  <1>6. HealthScore(e, h, c) = IF e = "open" THEN 0 ELSE IF h = <<>> THEN IF e = "closed" THEN 1000 ELSE 500 ELSE IF e = "half_open" THEN Least(before, 500) ELSE before
    BY DEF HealthScore, CbGood, CbBase
  <1>7. HealthScore(Effective(cbState', cbLastFailure'), cbHistory', cbConsecutive') = HealthScore(cbState', k, c + 1)
    BY <1>2, <1>3 DEF HealthScore
  <1>8. h # <<>> => before \in Nat /\ after <= before
    <2>1. h # <<>> => Len(h) \in Nat \ {0}
      BY <1>0, EmptySeq
    <2> SUFFICES ASSUME h # <<>> PROVE before \in Nat /\ after <= before
      OBVIOUS
    <2> DEFINE g == CbGood(h)
               x == CbGood(k)
               n == Len(h)
               m == Len(k)
    <2>2. g \in Nat /\ x \in Nat /\ n \in Nat \ {0} /\ m \in Nat \ {0} /\ c \in Nat /\ x <= g /\ n <= m
      BY <1>0, <1>4, <2>1, Zenon
    <2>3. CbBase(g, n, c) \in Nat /\ CbBase(x, m, c + 1) <= CbBase(g, n, c)
      <3> HIDE DEF g, x, n, m, c
      <3> QED BY <2>2, CbScores
    <2> QED BY <2>3
  <1>9. h = <<>> => after = 0
    <2> SUFFICES ASSUME h = <<>> PROVE after = 0
      OBVIOUS
    <2>1. CbGood(h) = 0
      BY FS_EmptySet DEF CbGood
    <2>2. CbGood(k) = 0
      <3> HIDE DEF h, k
      <3> QED BY <1>4, <2>1
    <2>3. ConsecutivePenalty(c + 1) \in Nat
      BY <1>0 DEF ConsecutivePenalty, Least
    <2>4. (1000 * 0) \div Len(k) = 0
      <3> HIDE DEF k
      <3> QED BY <1>4
    <2> QED BY <2>2, <2>3, <2>4 DEF Minus, CbBase
  <1>10. cbState' = "closed" => e = "closed"
    BY <1>2 DEF Effective
  <1> HIDE DEF e, h, k, c, before, after
  <1>11. e = "half_open" => Least(before, 500) \in Nat \/ before \notin Nat
    BY DEF Least
  <1>12. HealthScore(e, h, c) \in Nat
    BY <1>6, <1>8, <1>11
  <1>13. HealthScore(cbState', k, c + 1) <= HealthScore(e, h, c)
    <2>1. CASE cbState' = "open"
      BY <1>5, <1>12, <2>1
    <2>2. CASE cbState' = "closed"
      <3>1. e = "closed" /\ HealthScore(cbState', k, c + 1) = after
        BY <1>5, <1>10, <2>2
      <3>2. CASE h = <<>>
        <4>1. HealthScore(e, h, c) = 1000 /\ after = 0
          BY <1>6, <1>9, <3>1, <3>2
        <4> QED BY <3>1, <4>1
      <3>3. CASE h # <<>>
        <4>1. HealthScore(e, h, c) = before
          BY <1>6, <3>1, <3>3
        <4> QED BY <1>8, <3>1, <3>3, <4>1
      <3> QED BY <3>2, <3>3
    <2> QED BY <1>2, <2>1, <2>2
  <1> QED BY <1>7, <1>13 DEF e, h, c

-----------------------------------------------------------------------------
(* The run *)

\* What holds of credentials, keys, the gate and the rule engines in every state.
AccessInv == TkIInv /\ AkIInv /\ TgIInv /\ PrIInv

\* What holds of limits, breaker, router and terminal backends in every state.
LimitsInv == RlIInv /\ CbIInv /\ MrIInv /\ TmIInv

\* A step of the run is a step of at most one part, or of none of these.
LEMMA PartSteps ==
  Next => /\ [TkNext]_tkVars /\ [AkNext]_akVars /\ [TgNext]_tgVars /\ [PrNext]_prVars
          /\ [RlNext]_rlVars /\ [CbNext]_cbVars /\ [MrNext]_mrVars /\ [TmNext]_tmVars
  BY DEF Next

\* Credentials, keys, the gate and the rule engines keep their invariant.
LEMMA AccessInvariance == Spec => []AccessInv
  <1>1. Init => AccessInv
    BY TkInitInv, AkFacts, TgFacts, PrFacts DEF Init, AccessInv
  <1>2. AccessInv /\ [Next]_all => AccessInv'
    <2> SUFFICES ASSUME AccessInv, [Next]_all PROVE AccessInv'
      OBVIOUS
    <2>1. [TkNext]_tkVars /\ [AkNext]_akVars /\ [TgNext]_tgVars /\ [PrNext]_prVars
      BY PartSteps DEF all
    <2> QED BY <2>1, TkStep, AkStep, TgStep, PrStep DEF AccessInv
  <1> QED BY <1>1, <1>2, PTL DEF Spec

\* Limits, breaker, router and terminal backends keep theirs.
LEMMA LimitsInvariance == Spec => []LimitsInv
  <1>1. Init => LimitsInv
    BY RlFacts, CbFacts, MrFacts, TmFacts DEF Init, LimitsInv
  <1>2. LimitsInv /\ [Next]_all => LimitsInv'
    <2> SUFFICES ASSUME LimitsInv, [Next]_all PROVE LimitsInv'
      OBVIOUS
    <2>1. [RlNext]_rlVars /\ [CbNext]_cbVars /\ [MrNext]_mrVars /\ [TmNext]_tmVars
      BY PartSteps DEF all
    <2> QED BY <2>1, RlStep, CbStep, MrStep, TmStep DEF LimitsInv
  <1> QED BY <1>1, <1>2, PTL DEF Spec

\* Credentials work as long as they should and no longer, in every behaviour of every part and for all values
\* of the constants: tokens and refresh families, API keys and elevations, the gate in front of tools with its
\* second factors, and the rule engines with the egress firewall.
THEOREM CredentialsAndGates == Spec => []AccessRight
  <1>1. AccessInv => AccessRight
    BY TkInvImplies, AkFacts, TgFacts, PrFacts DEF AccessInv, AccessRight
  <1> QED BY <1>1, AccessInvariance, PTL

\* The limits hold under any interleaving, for all values of the constants: the token bucket keeps its rate and its
\* lock comes free soon, the samples are the last, a run of failures trips the breaker and the bulkhead counts right,
\* a request goes to a model that fits and is not beaten in everything, and a terminal backend has one sandbox that
\* has the files, was validated, and whose lock is held exactly where the code holds it.
THEOREM LimitsHold == Spec => []LimitsKept
  <1>1. LimitsInv => LimitsKept
    BY RlFacts, CbFacts, MrFacts, TmFacts DEF LimitsInv, LimitsKept
  <1> QED BY <1>1, LimitsInvariance, PTL

\* What no step may do, for all values of the constants: a grant in a cool-down, a circuit opened without a run of
\* failures or closed without probes after the recovery time, a failure that raises the score of a model, and a
\* connection to a private address from a sandbox.
THEOREM GuardsAlwaysHold == Spec => GuardsHold
  <1> DEFINE Inv == LimitsInv /\ AccessInv
             A1 == \A ch \in RlChannels : rlGrants'[ch] # rlGrants[ch] => rlNow >= rlBlocked[ch]
             A2 == cbState = "closed" /\ cbState' = "open" =>
                     /\ Len(cbLog') >= CbThreshold
                     /\ \A i \in DOMAIN cbLog' : i > Len(cbLog') - CbThreshold => ~cbLog'[i].ok
             A3 == cbState = "open" /\ cbState' = "closed" /\ cbLog' # <<>> =>
                     \A i \in DOMAIN cbLog' : i > Len(cbLog') - CbProbes =>
                        /\ cbLog'[i].ok
                        /\ \A j \in DOMAIN cbLog' : ~cbLog'[j].ok => cbLog'[i].at - cbLog'[j].at >= CbRecovery
             A4 == cbLog' # <<>> /\ cbLog' # cbLog /\ ~cbLog'[Len(cbLog')].ok =>
                     HealthScore(Effective(cbState', cbLastFailure'), cbHistory', cbConsecutive')
                        <= HealthScore(Effective(cbState, cbLastFailure), cbHistory, cbConsecutive)
             A5 == prLast' # prLast /\ prLast'.outcome = "connected" /\ prStack[prLast'.task] # <<>> => prLast'.address # "private"
  <1>1. ASSUME Inv, [Next]_all PROVE [A1]_rlVars /\ [A2]_cbVars /\ [A3]_cbVars /\ [A4]_cbVars /\ [A5]_prVars
    <2>1. [RlNext]_rlVars /\ [CbNext]_cbVars /\ [PrNext]_prVars
      BY <1>1, PartSteps DEF all
    <2>2. [A1]_rlVars
      BY <1>1, <2>1, RlNoGrantStep DEF LimitsInv
    <2>3. [A2]_cbVars
      BY <1>1, <2>1, CbTripsStep DEF LimitsInv
    <2>4. [A3]_cbVars
      BY <1>1, <2>1, CbClosesStep DEF LimitsInv
    <2>5. [A4]_cbVars
      BY <1>1, <2>1, CbScoreStep DEF LimitsInv
    <2>6. [A5]_prVars
      BY <1>1, <2>1, PrNoPrivateStep DEF AccessInv
    <2> QED BY <2>2, <2>3, <2>4, <2>5, <2>6
  <1>2. Spec => []Inv
    BY LimitsInvariance, AccessInvariance, PTL
  <1>3. Spec => [][A1]_rlVars /\ [][A2]_cbVars /\ [][A3]_cbVars /\ [][A4]_cbVars /\ [][A5]_prVars
    BY <1>1, <1>2, PTL DEF Spec
  <1> QED BY <1>3 DEF GuardsHold, NoGrantInCooldown, TripsOnRun, ClosesOnProbes, FailureNeverRaises, PrNoPrivate

=============================================================================
