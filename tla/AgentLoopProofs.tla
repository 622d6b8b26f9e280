---------------------------- MODULE AgentLoopProofs ----------------------------
(***************************************************************************)
(* Proofs about AgentLoop for every set of chats and any number of turns,  *)
(* /stop commands, messages and subagents: the processing lock is held     *)
(* exactly, /stop waits for what it cancelled and, when no turn goes       *)
(* around the lock, every withheld answer was replaced and every message   *)
(* goes to the chat of its turn.                                           *)
(***************************************************************************)
EXTENDS AgentLoop, TLAPS

\* The turns that were not created yet.
Fresh == \A t \in Ids : t > last => turn[t].state = "unused"

\* A turn in the inbound queue is there once and waits to be dispatched.
IsTurn(i) == i \in DOMAIN inbound /\ inbound[i].type = "turn"

Queued ==
    \A i \in DOMAIN inbound : IsTurn(i) =>
        /\ turn[inbound[i].id].state = "queued"
        /\ turn[inbound[i].id].kind # "direct"
        /\ \A j \in DOMAIN inbound : IsTurn(j) /\ inbound[j].id = inbound[i].id => j = i

\* A cancelled task that has not ended is one that /stop is waiting for.
Cancelled ==
    \A t \in cancelled :
        /\ turn[t].state \notin {"unused", "queued"}
        /\ Alive(t) => loop.state = "stopping" /\ t \in loop.tasks

\* Without direct turns the tools' context is that of the one turn that runs.
Replied(t) == \E m \in sends : m.turn = t /\ m.to = turn[t].chat

OwnContext ==
    \A t \in Ids :
        /\ turn[t].kind # "direct"
        /\ turn[t].state = "running" =>
              /\ ctx = turn[t].chat
              /\ (turn[t].kind # "system" /\ sent) => Replied(t)

Undisturbed == direct = 0 => OwnContext /\ AnsweredOrSent /\ SentToOwnChat

\* The inductive invariant.
IInv ==
    /\ TypeOK
    /\ Fresh
    /\ Queued
    /\ LockExact
    /\ Cancelled
    /\ Undisturbed

-----------------------------------------------------------------------------
(* The lock's queue *)

InQueue(t) == \E i \in DOMAIN lockq : lockq[i] = t

\* Taking one element out of a sequence.
LEMMA WithoutAtFacts ==
  ASSUME NEW S, NEW q \in Seq(S), NEW i \in 1 .. Len(q)
  PROVE  /\ WithoutAt(q, i) \in Seq(S)
         /\ Len(WithoutAt(q, i)) = Len(q) - 1
         /\ \A j \in 1 .. Len(q) - 1 :
               WithoutAt(q, i)[j] = IF j < i THEN q[j] ELSE q[j + 1]
  <1>1. Len(q) \in Nat /\ Len(q) - 1 \in Nat
    OBVIOUS
  <1>2. \A j \in 1 .. Len(q) - 1 : (IF j < i THEN q[j] ELSE q[j + 1]) \in S
    <2> TAKE j \in 1 .. Len(q) - 1
    <2>1. j \in 1 .. Len(q) /\ j + 1 \in 1 .. Len(q)
      BY <1>1
    <2> QED BY <2>1
  <1> QED BY <1>1, <1>2 DEF WithoutAt

\* Leaving the lock takes a turn, and no other, out of the queue and does not
\* pass over the turn at its head.
LEMMA UnlockFacts ==
  ASSUME TypeOK, LockExact, NEW t \in Ids, Unlock(t)
  PROVE  /\ lockq' \in Seq(Ids)
         /\ \A i, j \in DOMAIN lockq' : lockq'[i] = lockq'[j] => i = j
         /\ \A u \in Ids : InQueue(u)' <=> (InQueue(u) /\ u # t)
         /\ \A u \in Ids : (InQueue(u) /\ u # t /\ Head(lockq) = u) => Head(lockq') = u
  <1> DEFINE q == lockq
  <1>0. q \in Seq(Ids) /\ \A i, j \in DOMAIN q : q[i] = q[j] => i = j
    BY DEF TypeOK, LockExact
  <1>1. CASE ~InQueue(t)
    BY <1>0, <1>1 DEF Unlock, InQueue
  <1>2. CASE InQueue(t)
    <2>1. PICK i \in DOMAIN q : q[i] = t /\ lockq' = WithoutAt(q, i)
      BY <1>2 DEF Unlock, InQueue
    <2> DEFINE p == WithoutAt(q, i)
    <2>2. DOMAIN q = 1 .. Len(q) /\ Len(q) \in Nat
      BY <1>0
    <2>3. i \in 1 .. Len(q)
      BY <2>2
    <2>4. /\ p \in Seq(Ids) /\ Len(p) = Len(q) - 1
          /\ \A j \in 1 .. Len(q) - 1 : p[j] = IF j < i THEN q[j] ELSE q[j + 1]
      BY <1>0, <2>3, WithoutAtFacts
    <2> HIDE DEF p
    <2>5. DOMAIN p = 1 .. Len(q) - 1
      BY <2>4
    <2>6. lockq' = p
      BY <2>1 DEF p
    <2>7. \A j, k \in DOMAIN p : p[j] = p[k] => j = k
      <3> SUFFICES ASSUME NEW j \in DOMAIN p, NEW k \in DOMAIN p, p[j] = p[k] PROVE j = k
        OBVIOUS
      <3> DEFINE up(x) == IF x < i THEN x ELSE x + 1
      <3>1. up(j) \in DOMAIN q /\ up(k) \in DOMAIN q
        BY <2>2, <2>3, <2>5
      <3>2. p[j] = q[up(j)] /\ p[k] = q[up(k)]
        BY <2>4, <2>5
      <3>3. up(j) = up(k)
        BY <1>0, <3>1, <3>2
      <3> QED BY <2>2, <2>3, <2>5, <3>3
    <2>8. ASSUME NEW u \in Ids PROVE (\E j \in DOMAIN p : p[j] = u) <=> (InQueue(u) /\ u # t)
      <3>1. ASSUME NEW j \in DOMAIN p, p[j] = u PROVE InQueue(u) /\ u # t
        <4> DEFINE k == IF j < i THEN j ELSE j + 1
        <4>1. k \in DOMAIN q /\ k # i
          BY <2>2, <2>3, <2>5
        <4>2. q[k] = u
          BY <2>4, <2>5, <3>1
        <4> QED BY <1>0, <2>1, <4>1, <4>2 DEF InQueue
      <3>2. ASSUME InQueue(u), u # t PROVE \E j \in DOMAIN p : p[j] = u
        <4>1. PICK k \in DOMAIN q : q[k] = u
          BY <3>2 DEF InQueue
        <4>2. k # i
          BY <2>1, <3>2, <4>1
        <4>3. CASE k < i
          <5>1. k \in DOMAIN p /\ p[k] = q[k]
            BY <2>2, <2>3, <2>4, <2>5, <4>3
          <5> QED BY <4>1, <5>1
        <4>4. CASE k > i
          <5>1. k - 1 \in DOMAIN p /\ ~(k - 1 < i) /\ (k - 1) + 1 = k
            BY <2>2, <2>3, <2>5, <4>4
          <5>2. p[k - 1] = q[k]
            BY <2>4, <2>5, <5>1
          <5> QED BY <4>1, <5>1, <5>2
        <4> QED BY <2>2, <2>3, <4>2, <4>3, <4>4
      <3> QED BY <3>1, <3>2
    <2>9. ASSUME NEW u \in Ids, InQueue(u), u # t, Head(q) = u PROVE Head(p) = u
      <3>1. q[1] = u /\ 1 \in DOMAIN q
        BY <1>0, <2>2, <2>3, <2>9
      <3>2. i # 1
        BY <2>1, <2>9, <3>1
      <3>3. 1 \in DOMAIN p /\ p[1] = u
        BY <2>2, <2>3, <2>4, <2>5, <3>1, <3>2
      <3> QED BY <2>4, <3>3
    <2> QED BY <2>4, <2>6, <2>7, <2>8, <2>9 DEF InQueue
  <1> QED BY <1>1, <1>2

-----------------------------------------------------------------------------
(* The end of a turn *)

\* An entry of the inbound queue that is a turn names one.
LEMMA EntryFacts ==
  ASSUME TypeOK, NEW i \in DOMAIN inbound, IsTurn(i)
  PROVE  inbound[i].id \in Ids
  <1>1. inbound[i] \in QueueEntries
    BY DEF TypeOK
  <1> QED BY <1>1 DEF IsTurn, QueueEntries

\* A turn that runs or waits ends and leaves the lock: what StopTurn, Finish and
\* Fail have in common.  An answer is withheld only if something was sent.
LEMMA EndTurn ==
  ASSUME IInv, NEW t \in Ids, Alive(t), NEW x \in Ended, SetState(t, x), Unlock(t),
         UNCHANGED <<last, inbound, loop, cancelled, ctx, sent, subs, sends, direct, stops, spawned>>,
         x = "silent" => turn[t].state = "running" /\ turn[t].kind # "system" /\ sent
  PROVE  IInv'
  <1>0. TypeOK /\ LockExact
    BY DEF IInv
  <1>1. /\ turn'[t].state = x /\ turn'[t].kind = turn[t].kind /\ turn'[t].chat = turn[t].chat
        /\ \A u \in Ids : u # t => turn'[u] = turn[u]
        /\ \A u \in Ids : turn'[u].kind = turn[u].kind /\ turn'[u].chat = turn[u].chat
    BY <1>0 DEF SetState, TypeOK, TurnRecords
  <1>2. x \in TurnStates /\ x \notin {"waiting", "running", "queued", "unused"}
    BY DEF Ended, TurnStates
  <1>3. turn' \in [Ids -> TurnRecords]
    BY <1>0, <1>2 DEF SetState, TypeOK, TurnRecords
  <1>4. /\ lockq' \in Seq(Ids)
        /\ \A i, j \in DOMAIN lockq' : lockq'[i] = lockq'[j] => i = j
        /\ \A u \in Ids : InQueue(u)' <=> (InQueue(u) /\ u # t)
        /\ \A u \in Ids : (InQueue(u) /\ u # t /\ Head(lockq) = u) => Head(lockq') = u
    BY <1>0, UnlockFacts
  <1>5. TypeOK'
    BY <1>0, <1>3, <1>4 DEF TypeOK
  <1>6. ~Alive(t)' /\ \A u \in Ids : u # t => (Alive(u)' <=> Alive(u))
    BY <1>1, <1>2 DEF Alive
  <1>7. LockExact'
    <2>1. ASSUME NEW u \in Ids
          PROVE  (Alive(u) /\ turn[u].kind # "direct")' <=> InQueue(u)'
      <3>1. (Alive(u) /\ turn[u].kind # "direct") <=> InQueue(u)
        BY <1>0 DEF LockExact, InQueue
      <3> QED BY <1>1, <1>4, <1>6, <3>1
    <2>2. ASSUME NEW u \in Ids, turn'[u].state = "running", turn'[u].kind # "direct"
          PROVE  Head(lockq') = u
      <3>1. u # t /\ turn'[u] = turn[u]
        BY <1>1, <1>2, <2>2
      <3>2. Head(lockq) = u /\ InQueue(u)
        BY <1>0, <2>2, <3>1 DEF LockExact, Alive, InQueue
      <3> QED BY <1>4, <3>1, <3>2
    <2> QED BY <1>4, <2>1, <2>2 DEF LockExact, InQueue
  <1>8. Fresh'
    BY <1>1 DEF IInv, Fresh, Alive
  <1>9. Queued'
    <2>1. \A i \in DOMAIN inbound : IsTurn(i) => inbound[i].id \in Ids /\ inbound[i].id # t
      BY <1>0, EntryFacts DEF IInv, Queued, Alive
    <2> QED BY <1>1, <2>1 DEF IInv, Queued, IsTurn
  <1>10. Cancelled'
    <2>1. cancelled \subseteq Ids
      BY <1>0 DEF TypeOK
    <2> QED BY <1>1, <1>2, <1>6, <2>1 DEF IInv, Cancelled
  <1>11. Undisturbed'
    <2> SUFFICES ASSUME direct' = 0 PROVE (OwnContext /\ AnsweredOrSent /\ SentToOwnChat)'
      BY DEF Undisturbed
    <2>1. OwnContext /\ AnsweredOrSent /\ SentToOwnChat
      BY DEF IInv, Undisturbed
    <2>2. OwnContext'
      BY <1>1, <1>2, <2>1 DEF OwnContext, Replied
    <2>3. AnsweredOrSent'
      BY <1>1, <2>1 DEF AnsweredOrSent, OwnContext, Replied
    <2> QED BY <2>1, <2>2, <2>3 DEF SentToOwnChat
  <1> QED BY <1>5, <1>7, <1>8, <1>9, <1>10, <1>11 DEF IInv

\* A cancelled task ends, in its turn or in the lock's queue.
LEMMA StopTurnStep ==
  ASSUME IInv, NEW t \in Ids, StopTurn(t)
  PROVE  IInv'
  BY EndTurn DEF StopTurn, Ended

\* A turn ends silent only if the message tool was used in it.
LEMMA FinishStep ==
  ASSUME IInv, NEW t \in Ids, Finish(t)
  PROVE  IInv'
  <1> DEFINE x == IF turn[t].kind # "system" /\ sent THEN "silent" ELSE "answered"
  <1>1. Alive(t) /\ turn[t].state = "running"
    BY DEF Finish, Active, Alive
  <1>2. x \in Ended /\ (x = "silent" => turn[t].kind # "system" /\ sent)
    BY DEF Ended
  <1>3. /\ SetState(t, x) /\ Unlock(t)
        /\ UNCHANGED <<last, inbound, loop, cancelled, ctx, sent, subs, sends, direct, stops, spawned>>
    BY DEF Finish
  <1> HIDE DEF x
  <1> QED BY <1>1, <1>2, <1>3, EndTurn

\* A turn that raises is answered with an error and leaves the lock.
LEMMA FailStep ==
  ASSUME IInv, NEW t \in Ids, Fail(t)
  PROVE  IInv'
  BY EndTurn DEF Fail, Active, Alive, Ended

-----------------------------------------------------------------------------
(* New turns *)

\* The turn that NewTurn creates was unused: not in any queue, not cancelled.
LEMMA NewTurnFacts ==
  ASSUME IInv, NEW c \in Chats, NEW kind \in TurnKinds, NEW state \in TurnStates,
         NewTurn(c, kind, state)
  PROVE  /\ last + 1 \in Ids /\ last' = last + 1 /\ last' \in 0 .. MaxTurns
         /\ turn' \in [Ids -> TurnRecords]
         /\ turn[last + 1].state = "unused"
         /\ turn'[last + 1] = [chat |-> c, kind |-> kind, state |-> state]
         /\ \A u \in Ids : u # last + 1 => turn'[u] = turn[u]
         /\ ~InQueue(last + 1)
         /\ last + 1 \notin cancelled
         /\ \A i \in DOMAIN inbound : IsTurn(i) => inbound[i].id # last + 1
         /\ Fresh'
  <1>0. TypeOK /\ LockExact /\ Fresh /\ Queued /\ Cancelled
    BY DEF IInv
  <1>1. last + 1 \in Ids /\ last' = last + 1 /\ last' \in 0 .. MaxTurns
    BY <1>0, LoopAssumption DEF NewTurn, TypeOK, Ids
  <1>2. [chat |-> c, kind |-> kind, state |-> state] \in TurnRecords
    BY DEF TurnRecords
  <1>3. /\ turn' \in [Ids -> TurnRecords]
        /\ turn'[last + 1] = [chat |-> c, kind |-> kind, state |-> state]
        /\ \A u \in Ids : u # last + 1 => turn'[u] = turn[u]
    BY <1>0, <1>1, <1>2 DEF NewTurn, TypeOK
  <1>4. turn[last + 1].state = "unused"
    BY <1>0, <1>1 DEF Fresh, TypeOK
  <1>5. ~InQueue(last + 1)
    BY <1>0, <1>1, <1>4 DEF LockExact, InQueue, Alive
  <1>6. last + 1 \notin cancelled
    BY <1>0, <1>4 DEF Cancelled
  <1>7. \A i \in DOMAIN inbound : IsTurn(i) => inbound[i].id # last + 1
    BY <1>0, <1>4 DEF Queued
  <1>8. Fresh'
    <2> SUFFICES ASSUME NEW u \in Ids, u > last' PROVE turn'[u].state = "unused"
      BY DEF Fresh
    <2>1. u > last /\ u # last + 1
      BY <1>0, <1>1 DEF TypeOK, Ids
    <2> QED BY <1>0, <1>3, <2>1 DEF Fresh
  <1> QED BY <1>1, <1>3, <1>4, <1>5, <1>6, <1>7, <1>8

\* A message of a channel or of a subagent gets a turn at the end of the queue.
LEMMA EnqueueTurn ==
  ASSUME IInv, NEW c \in Chats, NEW kind \in {"user", "system"}, NewTurn(c, kind, "queued"),
         inbound' = Append(inbound, [type |-> "turn", id |-> last + 1]),
         UNCHANGED <<loop, cancelled, lockq, ctx, sent, sends, direct, stops, spawned>>,
         subs' \subseteq subs
  PROVE  IInv'
  <1>n. PICK n \in Ids : n = last + 1
    BY NewTurnFacts DEF TurnKinds, TurnStates
  <1> DEFINE e == [type |-> "turn", id |-> n]
  <1>0. /\ TypeOK /\ LockExact /\ Queued /\ Cancelled
        /\ kind \in TurnKinds /\ "queued" \in TurnStates
    BY DEF IInv, TurnKinds, TurnStates
  <1>1. /\ n \in Ids /\ last' = n /\ last' \in 0 .. MaxTurns
        /\ turn' \in [Ids -> TurnRecords]
        /\ turn[n].state = "unused"
        /\ turn'[n] = [chat |-> c, kind |-> kind, state |-> "queued"]
        /\ \A u \in Ids : u # n => turn'[u] = turn[u]
        /\ ~InQueue(n) /\ n \notin cancelled
        /\ \A i \in DOMAIN inbound : IsTurn(i) => inbound[i].id # n
        /\ Fresh'
    BY <1>0, <1>n, NewTurnFacts
  <1>2. e \in QueueEntries /\ inbound \in Seq(QueueEntries)
    BY <1>0, <1>1 DEF QueueEntries, TypeOK
  <1>3. inbound' = Append(inbound, e)
    BY <1>n
  <1>4. e.type = "turn" /\ e.id = n
    OBVIOUS
  <1> HIDE DEF e
  <1>5. /\ inbound' \in Seq(QueueEntries)
        /\ DOMAIN inbound = 1 .. Len(inbound) /\ Len(inbound) \in Nat
        /\ DOMAIN inbound' = 1 .. Len(inbound) + 1
        /\ inbound'[Len(inbound) + 1] = e
        /\ \A i \in DOMAIN inbound : inbound'[i] = inbound[i]
    BY <1>2, <1>3
  <1>6. TypeOK'
    BY <1>0, <1>1, <1>5 DEF TypeOK
  <1>7. \A u \in Ids : u # n => (Alive(u)' <=> Alive(u))
    BY <1>1 DEF Alive
  <1>8. ~Alive(n)'
    BY <1>1 DEF Alive
  <1>9. LockExact'
    BY <1>0, <1>1, <1>7, <1>8 DEF LockExact, InQueue
  <1>10. Queued'
    <2>1. ASSUME NEW i \in DOMAIN inbound', IsTurn(i)'
          PROVE  \/ i = Len(inbound) + 1 /\ inbound'[i].id = n
                 \/ i \in DOMAIN inbound /\ IsTurn(i) /\ inbound'[i] = inbound[i]
      BY <1>4, <1>5, <2>1 DEF IsTurn
    <2>2. ASSUME NEW i \in DOMAIN inbound', IsTurn(i)'
          PROVE  turn'[inbound'[i].id].state = "queued" /\ turn'[inbound'[i].id].kind # "direct"
      <3>1. CASE i = Len(inbound) + 1 /\ inbound'[i].id = n
        BY <1>1, <3>1
      <3>2. CASE i \in DOMAIN inbound /\ IsTurn(i) /\ inbound'[i] = inbound[i]
        <4>1. inbound[i].id \in Ids /\ inbound[i].id # n
          BY <1>0, <1>1, <3>2, EntryFacts
        <4>2. turn'[inbound'[i].id] = turn[inbound[i].id]
          BY <1>1, <3>2, <4>1
        <4>3. turn[inbound[i].id].state = "queued" /\ turn[inbound[i].id].kind # "direct"
          BY <1>0, <3>2 DEF Queued
        <4> QED BY <4>2, <4>3
      <3> QED BY <2>1, <2>2, <3>1, <3>2
    <2>3. ASSUME NEW i \in DOMAIN inbound', NEW j \in DOMAIN inbound', IsTurn(i)', IsTurn(j)',
                 inbound'[j].id = inbound'[i].id
          PROVE  j = i
      BY <1>0, <1>1, <2>1, <2>3 DEF Queued
    <2> QED BY <2>2, <2>3 DEF Queued
  <1>11. Cancelled'
    <2>1. cancelled \subseteq Ids
      BY <1>0 DEF TypeOK
    <2> QED BY <1>0, <1>1, <1>7, <2>1 DEF Cancelled
  <1>12. Undisturbed'
    <2> SUFFICES ASSUME direct' = 0 PROVE (OwnContext /\ AnsweredOrSent /\ SentToOwnChat)'
      BY DEF Undisturbed
    <2>1. OwnContext /\ AnsweredOrSent /\ SentToOwnChat
      BY DEF IInv, Undisturbed
    <2>2. OwnContext'
      BY <1>1, <2>1 DEF OwnContext, Replied
    <2>3. AnsweredOrSent'
      <3>1. \A u \in Ids : turn'[u].state = "silent" => turn'[u] = turn[u]
        <4>1. turn'[n].state = "queued"
          BY <1>1
        <4> QED BY <1>1, <4>1
      <3> QED BY <2>1, <3>1 DEF AnsweredOrSent
    <2> QED BY <2>1, <2>2, <2>3 DEF SentToOwnChat
  <1> QED BY <1>1, <1>6, <1>9, <1>10, <1>11, <1>12 DEF IInv

\* A channel's message.
LEMMA ArriveStep ==
  ASSUME IInv, NEW c \in Chats, Arrive(c)
  PROVE  IInv'
  BY EnqueueTurn DEF Arrive

\* A subagent's announcement, in the chat that spawned it.
LEMMA SubagentDoneStep ==
  ASSUME IInv, NEW s \in (1 .. MaxSubs) \X Chats, SubagentDone(s)
  PROVE  IInv'
  <1>1. s[2] \in Chats
    OBVIOUS
  <1> QED BY <1>1, EnqueueTurn DEF SubagentDone

\* A process_direct turn runs at once, outside of the lock's queue.
LEMMA BeginDirectStep ==
  ASSUME IInv, NEW c \in Chats, BeginDirect(c)
  PROVE  IInv'
  <1>n. PICK n \in Ids : n = last + 1
    BY NewTurnFacts DEF BeginDirect, TurnKinds, TurnStates
  <1>0. /\ TypeOK /\ LockExact /\ Queued /\ Cancelled
        /\ "direct" \in TurnKinds /\ "running" \in TurnStates
    BY DEF IInv, TurnKinds, TurnStates
  <1>1. /\ n \in Ids /\ last' \in 0 .. MaxTurns
        /\ turn' \in [Ids -> TurnRecords]
        /\ turn[n].state = "unused"
        /\ turn'[n] = [chat |-> c, kind |-> "direct", state |-> "running"]
        /\ \A u \in Ids : u # n => turn'[u] = turn[u]
        /\ ~InQueue(n) /\ n \notin cancelled
        /\ \A i \in DOMAIN inbound : IsTurn(i) => inbound[i].id # n
        /\ Fresh'
    BY <1>0, <1>n, NewTurnFacts DEF BeginDirect
  <1>2. /\ UNCHANGED <<inbound, loop, cancelled, lockq, subs, sends, stops, spawned>>
        /\ ctx' = c /\ sent' = FALSE /\ direct' = direct + 1 /\ direct < MaxDirect
    BY DEF BeginDirect
  <1>3. TypeOK'
    <2>1. direct' \in Nat
      BY <1>0, <1>2 DEF TypeOK
    <2>2. sent' \in BOOLEAN /\ ctx' \in Chats
      BY <1>2, Zenon
    <2> QED BY <1>0, <1>1, <1>2, <2>1, <2>2 DEF TypeOK
  <1>4. \A u \in Ids : u # n => (Alive(u)' <=> Alive(u))
    BY <1>1 DEF Alive
  <1>5. LockExact'
    BY <1>0, <1>1, <1>2, <1>4 DEF LockExact, InQueue
  <1>6. Queued'
    <2>1. \A i \in DOMAIN inbound : IsTurn(i) => inbound[i].id \in Ids
      BY <1>0, EntryFacts
    <2> QED BY <1>0, <1>1, <1>2, <2>1 DEF Queued, IsTurn
  <1>7. Cancelled'
    <2>1. cancelled \subseteq Ids
      BY <1>0 DEF TypeOK
    <2> QED BY <1>0, <1>1, <1>2, <1>4, <2>1 DEF Cancelled
  <1>8. Undisturbed'
    BY <1>0, <1>2 DEF Undisturbed, TypeOK
  <1> QED BY <1>1, <1>3, <1>5, <1>6, <1>7, <1>8 DEF IInv

-----------------------------------------------------------------------------
(* The loop and /stop *)

\* A /stop command joins the queue and is no turn.
LEMMA ArriveStopStep ==
  ASSUME IInv, NEW c \in Chats, ArriveStop(c)
  PROVE  IInv'
  <1> DEFINE e == [type |-> "stop", chat |-> c]
  <1>0. TypeOK
    BY DEF IInv
  <1>1. e \in QueueEntries /\ inbound \in Seq(QueueEntries)
    BY <1>0 DEF QueueEntries, TypeOK
  <1>2. /\ inbound' = Append(inbound, e) /\ stops' = stops + 1
        /\ UNCHANGED <<turn, last, loop, cancelled, lockq, ctx, sent, subs, sends, direct, spawned>>
    BY DEF ArriveStop
  <1>3. e.type = "stop"
    OBVIOUS
  <1> HIDE DEF e
  <1>4. /\ inbound' \in Seq(QueueEntries)
        /\ DOMAIN inbound = 1 .. Len(inbound) /\ Len(inbound) \in Nat
        /\ DOMAIN inbound' = 1 .. Len(inbound) + 1
        /\ inbound'[Len(inbound) + 1] = e
        /\ \A i \in DOMAIN inbound : inbound'[i] = inbound[i]
    BY <1>1, <1>2
  <1>5. TypeOK'
    BY <1>0, <1>2, <1>4 DEF TypeOK
  <1>6. \A i \in DOMAIN inbound' :
            IsTurn(i)' => i \in DOMAIN inbound /\ IsTurn(i) /\ inbound'[i] = inbound[i]
    BY <1>3, <1>4 DEF IsTurn
  <1>7. Queued'
    BY <1>2, <1>6 DEF IInv, Queued
  <1> QED BY <1>2, <1>5, <1>7
      DEF IInv, Fresh, LockExact, Cancelled, Alive, Undisturbed, OwnContext, Replied,
          AnsweredOrSent, SentToOwnChat

\* Taking the head of the inbound queue leaves the others as they were.
LEMMA DequeueFacts ==
  ASSUME TypeOK, inbound # <<>>, inbound' = Tail(inbound)
  PROVE  /\ inbound' \in Seq(QueueEntries)
         /\ 1 \in DOMAIN inbound /\ Head(inbound) = inbound[1]
         /\ \A i \in DOMAIN inbound' : /\ i + 1 \in DOMAIN inbound
                                       /\ i + 1 # 1 /\ i \in Nat
                                       /\ inbound'[i] = inbound[i + 1]
  BY DEF TypeOK

\* The dispatched turn moves from the inbound queue to the end of the lock's.
LEMMA DispatchStep ==
  ASSUME IInv, Dispatch
  PROVE  IInv'
  <1>0. TypeOK /\ LockExact /\ Queued /\ Cancelled /\ Fresh
    BY DEF IInv
  <1>1. /\ inbound # <<>> /\ inbound' = Tail(inbound) /\ Head(inbound).type = "turn"
        /\ loop.state = "consuming"
        /\ UNCHANGED <<last, loop, cancelled, ctx, sent, subs, sends, direct, stops, spawned>>
    BY DEF Dispatch
  <1>2. /\ inbound' \in Seq(QueueEntries)
        /\ 1 \in DOMAIN inbound /\ Head(inbound) = inbound[1]
        /\ \A i \in DOMAIN inbound' : /\ i + 1 \in DOMAIN inbound
                                      /\ i + 1 # 1 /\ i \in Nat
                                      /\ inbound'[i] = inbound[i + 1]
    BY <1>0, <1>1, DequeueFacts
  <1>3. IsTurn(1)
    BY <1>1, <1>2 DEF IsTurn
  <1>4. PICK n \in Ids : n = inbound[1].id
    BY <1>0, <1>2, <1>3, EntryFacts
  <1>5. turn[n].state = "queued" /\ turn[n].kind # "direct"
    BY <1>0, <1>2, <1>3, <1>4 DEF Queued
  <1>6. turn' = [turn EXCEPT ![n].state = "waiting"] /\ lockq' = Append(lockq, n)
    BY <1>2, <1>4 DEF Dispatch, SetState
  <1>7. /\ turn'[n].state = "waiting"
        /\ \A u \in Ids : turn'[u].kind = turn[u].kind /\ turn'[u].chat = turn[u].chat
        /\ \A u \in Ids : u # n => turn'[u] = turn[u]
    BY <1>0, <1>6 DEF TypeOK, TurnRecords
  <1>8. turn' \in [Ids -> TurnRecords]
    BY <1>0, <1>6 DEF TypeOK, TurnRecords, TurnStates
  <1>9. ~InQueue(n) /\ n \notin cancelled
    BY <1>0, <1>5 DEF LockExact, InQueue, Alive, Cancelled
  <1>10. /\ lockq' \in Seq(Ids) /\ lockq \in Seq(Ids)
         /\ DOMAIN lockq = 1 .. Len(lockq) /\ Len(lockq) \in Nat
         /\ DOMAIN lockq' = 1 .. Len(lockq) + 1
         /\ lockq'[Len(lockq) + 1] = n
         /\ \A i \in DOMAIN lockq : lockq'[i] = lockq[i]
    BY <1>0, <1>6 DEF TypeOK
  <1>11. TypeOK'
    BY <1>0, <1>1, <1>2, <1>8, <1>10 DEF TypeOK
  <1>12. \A u \in Ids : u # n => (Alive(u)' <=> Alive(u))
    BY <1>7 DEF Alive
  <1>13. Alive(n)'
    BY <1>7 DEF Alive
  <1>14. \A u \in Ids : InQueue(u)' <=> (InQueue(u) \/ u = n)
    <2> SUFFICES ASSUME NEW u \in Ids PROVE InQueue(u)' <=> (InQueue(u) \/ u = n)
      OBVIOUS
    <2>1. InQueue(u)' => (InQueue(u) \/ u = n)
      BY <1>10 DEF InQueue
    <2>2. InQueue(u) => InQueue(u)'
      BY <1>10 DEF InQueue
    <2>3. InQueue(n)'
      BY <1>10 DEF InQueue
    <2> QED BY <2>1, <2>2, <2>3
  <1>15. LockExact'
    <2>1. ASSUME NEW u \in Ids
          PROVE  (Alive(u) /\ turn[u].kind # "direct")' <=> InQueue(u)'
      <3>1. (Alive(u) /\ turn[u].kind # "direct") <=> InQueue(u)
        BY <1>0 DEF LockExact, InQueue
      <3> QED BY <1>5, <1>7, <1>12, <1>13, <1>14, <3>1
    <2>2. ASSUME NEW i \in DOMAIN lockq', NEW j \in DOMAIN lockq', lockq'[i] = lockq'[j]
          PROVE  i = j
      <3>1. \A k \in DOMAIN lockq : lockq[k] # n
        BY <1>9 DEF InQueue
      <3> QED BY <1>0, <1>10, <2>2, <3>1 DEF LockExact
    <2>3. ASSUME NEW u \in Ids, turn'[u].state = "running", turn'[u].kind # "direct"
          PROVE  Head(lockq') = u
      <3>1. u # n /\ turn'[u] = turn[u]
        BY <1>7, <2>3
      <3>2. Head(lockq) = u /\ InQueue(u)
        BY <1>0, <2>3, <3>1 DEF LockExact, Alive, InQueue
      <3> QED BY <1>10, <3>2 DEF InQueue
    <2> QED BY <2>1, <2>2, <2>3 DEF LockExact, InQueue
  <1>16. Fresh'
    BY <1>0, <1>1, <1>5, <1>7 DEF Fresh
  <1>17. Queued'
    <2>1. ASSUME NEW i \in DOMAIN inbound', IsTurn(i)'
          PROVE  /\ IsTurn(i + 1) /\ inbound[i + 1].id \in Ids /\ inbound[i + 1].id # n
                 /\ inbound'[i] = inbound[i + 1]
      <3>1. IsTurn(i + 1) /\ i + 1 \in DOMAIN inbound
        BY <1>2, <2>1 DEF IsTurn
      <3>2. inbound[i + 1].id # n
        BY <1>0, <1>2, <1>3, <1>4, <3>1 DEF Queued
      <3> QED BY <1>0, <1>2, <3>1, <3>2, EntryFacts
    <2>2. ASSUME NEW i \in DOMAIN inbound', IsTurn(i)'
          PROVE  turn'[inbound'[i].id].state = "queued" /\ turn'[inbound'[i].id].kind # "direct"
      <3>1. IsTurn(i + 1) /\ i + 1 \in DOMAIN inbound
        BY <1>2, <2>1, <2>2
      <3>2. turn'[inbound'[i].id] = turn[inbound[i + 1].id]
        BY <1>7, <2>1, <2>2
      <3> QED BY <1>0, <3>1, <3>2 DEF Queued
    <2>3. ASSUME NEW i \in DOMAIN inbound', NEW j \in DOMAIN inbound', IsTurn(i)', IsTurn(j)',
                 inbound'[j].id = inbound'[i].id
          PROVE  j = i
      <3>1. /\ IsTurn(i + 1) /\ IsTurn(j + 1)
            /\ i + 1 \in DOMAIN inbound /\ j + 1 \in DOMAIN inbound
            /\ inbound[j + 1].id = inbound[i + 1].id
        BY <1>2, <2>1, <2>3
      <3>2. j + 1 = i + 1
        BY <1>0, <3>1 DEF Queued
      <3> QED BY <1>2, <3>2
    <2> QED BY <2>2, <2>3 DEF Queued
  <1>18. Cancelled'
    <2>1. cancelled \subseteq Ids
      BY <1>0 DEF TypeOK
    <2> QED BY <1>0, <1>1, <1>7, <1>9, <1>12, <2>1 DEF Cancelled
  <1>19. Undisturbed'
    <2> SUFFICES ASSUME direct' = 0 PROVE (OwnContext /\ AnsweredOrSent /\ SentToOwnChat)'
      BY DEF Undisturbed
    <2>1. OwnContext /\ AnsweredOrSent /\ SentToOwnChat
      BY <1>1 DEF IInv, Undisturbed
    <2>2. OwnContext'
      BY <1>1, <1>7, <2>1 DEF OwnContext, Replied
    <2>3. AnsweredOrSent'
      <3>1. \A u \in Ids : turn'[u].state = "silent" => turn'[u] = turn[u]
        BY <1>7
      <3> QED BY <1>1, <2>1, <3>1 DEF AnsweredOrSent
    <2> QED BY <1>1, <2>1, <2>2, <2>3 DEF SentToOwnChat
  <1> QED BY <1>11, <1>15, <1>16, <1>17, <1>18, <1>19 DEF IInv

\* /stop cancels tasks that are under way and waits for exactly these: no other
\* cancelled task is alive when the loop is consuming.
LEMMA HandleStopStep ==
  ASSUME IInv, HandleStop
  PROVE  IInv'
  <1>0. TypeOK /\ LockExact /\ Queued /\ Cancelled
    BY DEF IInv
  <1>1. /\ inbound # <<>> /\ inbound' = Tail(inbound) /\ Head(inbound).type = "stop"
        /\ loop.state = "consuming"
        /\ UNCHANGED <<turn, last, lockq, ctx, sent, subs, sends, direct, stops, spawned>>
    BY DEF HandleStop
  <1>2. /\ inbound' \in Seq(QueueEntries)
        /\ 1 \in DOMAIN inbound /\ Head(inbound) = inbound[1]
        /\ \A i \in DOMAIN inbound' : /\ i + 1 \in DOMAIN inbound
                                      /\ i + 1 # 1 /\ i \in Nat
                                      /\ inbound'[i] = inbound[i + 1]
    BY <1>0, <1>1, DequeueFacts
  <1>3. PICK c \in Chats : c = Head(inbound).chat
    <2>1. inbound[1] \in QueueEntries
      BY <1>0, <1>2 DEF TypeOK
    <2> QED BY <1>1, <1>2, <2>1 DEF QueueEntries
  <1>4. /\ cancelled' = cancelled \union TasksOf(c)
        /\ loop' = [state |-> "stopping", chat |-> c, tasks |-> TasksOf(c)]
    BY <1>3 DEF HandleStop
  <1>5. TasksOf(c) \subseteq Ids /\ \A t \in TasksOf(c) : Alive(t)
    BY DEF TasksOf
  <1>6. TypeOK'
    <2>1. loop' \in Loops /\ cancelled' \subseteq Ids
      BY <1>0, <1>4, <1>5 DEF TypeOK, Loops
    <2> QED BY <1>0, <1>1, <1>2, <2>1 DEF TypeOK
  <1>7. Queued'
    <2>1. \A i \in DOMAIN inbound' : IsTurn(i)' => IsTurn(i + 1)
      BY <1>2 DEF IsTurn
    <2>2. ASSUME NEW i \in DOMAIN inbound', IsTurn(i)'
          PROVE  turn'[inbound'[i].id].state = "queued" /\ turn'[inbound'[i].id].kind # "direct"
      BY <1>0, <1>1, <1>2, <2>1, <2>2 DEF Queued
    <2>3. ASSUME NEW i \in DOMAIN inbound', NEW j \in DOMAIN inbound', IsTurn(i)', IsTurn(j)',
                 inbound'[j].id = inbound'[i].id
          PROVE  j = i
      <3>1. j + 1 = i + 1
        BY <1>0, <1>2, <2>1, <2>3 DEF Queued
      <3> QED BY <1>2, <3>1
    <2> QED BY <2>2, <2>3 DEF Queued
  <1>8. Cancelled'
    <2> SUFFICES ASSUME NEW t \in cancelled'
                 PROVE  /\ turn[t].state \notin {"unused", "queued"}
                        /\ Alive(t) => t \in TasksOf(c)
      BY <1>1, <1>4 DEF Cancelled, Alive
    <2>1. CASE t \in TasksOf(c)
      BY <1>5, <2>1 DEF Alive
    <2>2. CASE t \in cancelled
      BY <1>0, <1>1, <2>2 DEF Cancelled
    <2> QED BY <1>4, <2>1, <2>2
  <1> QED BY <1>1, <1>6, <1>7, <1>8
      DEF IInv, Fresh, LockExact, Alive, Undisturbed, OwnContext, Replied,
          AnsweredOrSent, SentToOwnChat

\* The loop resumes with no cancelled task alive.
LEMMA StopDoneStep ==
  ASSUME IInv, StopDone
  PROVE  IInv'
  <1>0. TypeOK /\ Cancelled
    BY DEF IInv
  <1>1. /\ loop.state = "stopping" /\ \A t \in loop.tasks : ~Alive(t)
        /\ loop' = Consuming /\ subs' \subseteq subs
        /\ UNCHANGED <<turn, last, inbound, cancelled, lockq, ctx, sent, sends, direct, stops, spawned>>
    BY DEF StopDone, CancelBySession
  <1>2. Consuming \in Loops
    <2>1. AnyChat \in Chats
      BY LoopAssumption DEF AnyChat
    <2> QED BY <2>1 DEF Consuming, Loops
  <1>3. TypeOK'
    BY <1>0, <1>1, <1>2 DEF TypeOK
  <1>4. Cancelled'
    BY <1>0, <1>1 DEF Cancelled, Alive
  <1> QED BY <1>1, <1>3, <1>4
      DEF IInv, Fresh, Queued, IsTurn, LockExact, Alive, Undisturbed, OwnContext, Replied,
          AnsweredOrSent, SentToOwnChat

-----------------------------------------------------------------------------
(* A turn with the lock *)

\* Without direct turns a turn that is at the head of the lock's queue, or that
\* runs, is the only one that runs.
LEMMA OnlyRunner ==
  ASSUME LockExact, OwnContext, NEW t \in Ids,
         Head(lockq) = t \/ turn[t].state = "running"
  PROVE  \A u \in Ids : turn[u].state = "running" => u = t
  BY DEF LockExact, OwnContext

\* The turn at the head of the queue sets the context to its own chat; no other
\* turn runs that could rely on it.
LEMMA BeginStep ==
  ASSUME IInv, NEW t \in Ids, Begin(t)
  PROVE  IInv'
  <1>0. TypeOK /\ LockExact /\ Queued /\ Cancelled /\ Fresh
    BY DEF IInv
  <1>1. /\ turn[t].state = "waiting" /\ t \notin cancelled /\ Head(lockq) = t
        /\ turn' = [turn EXCEPT ![t].state = "running"]
        /\ ctx' = turn[t].chat /\ sent' = (turn[t].kind = "system" /\ sent)
        /\ UNCHANGED <<last, inbound, loop, cancelled, lockq, subs, sends, direct, stops, spawned>>
    BY DEF Begin, SetState, EnterTurn
  <1>2. /\ turn'[t].state = "running"
        /\ \A u \in Ids : turn'[u].kind = turn[u].kind /\ turn'[u].chat = turn[u].chat
        /\ \A u \in Ids : u # t => turn'[u] = turn[u]
        /\ turn' \in [Ids -> TurnRecords]
    BY <1>0, <1>1 DEF TypeOK, TurnRecords, TurnStates
  <1>3. TypeOK'
    <2>1. ctx' \in Chats
      BY <1>0, <1>1 DEF TypeOK, TurnRecords
    <2>2. sent' \in BOOLEAN
      BY <1>1, Zenon
    <2> QED BY <1>0, <1>1, <1>2, <2>1, <2>2 DEF TypeOK
  <1>4. \A u \in Ids : Alive(u)' <=> Alive(u)
    BY <1>1, <1>2 DEF Alive
  <1>5. LockExact'
    <2>1. \A u \in Ids : (Alive(u) /\ turn[u].kind # "direct")' <=> InQueue(u)'
      BY <1>0, <1>1, <1>2, <1>4 DEF LockExact, InQueue
    <2>2. \A u \in Ids : (turn'[u].state = "running" /\ turn'[u].kind # "direct") => Head(lockq') = u
      BY <1>0, <1>1, <1>2 DEF LockExact
    <2> QED BY <1>0, <1>1, <2>1, <2>2 DEF LockExact, InQueue
  <1>6. Fresh'
    BY <1>0, <1>1, <1>2 DEF Fresh
  <1>7. Queued'
    <2>1. \A i \in DOMAIN inbound : IsTurn(i) => inbound[i].id \in Ids
      BY <1>0, EntryFacts
    <2> QED BY <1>0, <1>1, <1>2, <2>1 DEF Queued, IsTurn
  <1>8. Cancelled'
    <2>1. cancelled \subseteq Ids
      BY <1>0 DEF TypeOK
    <2> QED BY <1>0, <1>1, <1>2, <1>4, <2>1 DEF Cancelled
  <1>9. Undisturbed'
    <2> SUFFICES ASSUME direct' = 0 PROVE (OwnContext /\ AnsweredOrSent /\ SentToOwnChat)'
      BY DEF Undisturbed
    <2>1. OwnContext /\ AnsweredOrSent /\ SentToOwnChat
      BY <1>1 DEF IInv, Undisturbed
    <2>2. \A u \in Ids : turn'[u].state = "running" => u = t
      BY <1>0, <1>1, <1>2, <2>1, OnlyRunner
    <2>3. (turn'[t].kind # "system" /\ sent') => FALSE
      BY <1>1, <1>2
    <2>4. OwnContext'
      BY <1>1, <1>2, <2>1, <2>2, <2>3 DEF OwnContext
    <2>5. AnsweredOrSent'
      <3>1. \A u \in Ids : turn'[u].state = "silent" => turn'[u] = turn[u]
        BY <1>2
      <3> QED BY <1>1, <2>1, <3>1 DEF AnsweredOrSent
    <2> QED BY <1>1, <2>1, <2>4, <2>5 DEF SentToOwnChat
  <1> QED BY <1>3, <1>5, <1>6, <1>7, <1>8, <1>9 DEF IInv

\* What a step of a running turn that only sends, or spawns, leaves alone.
LEMMA SameTurns ==
  ASSUME IInv, UNCHANGED <<turn, last, inbound, loop, cancelled, lockq>>
  PROVE  (Fresh /\ Queued /\ LockExact /\ Cancelled)'
  BY DEF IInv, Fresh, Queued, IsTurn, LockExact, Cancelled, Alive

\* A message of the running turn t, recorded as sent to x: what the context and
\* the record of what was sent say of t remains true, and t is the only turn.
LEMMA SendFacts ==
  ASSUME IInv, NEW t \in Ids, Active(t), NEW m \in Sends, m.turn = t, m.own,
         sends' = sends \union {m}, UNCHANGED <<turn, ctx, direct>>, direct = 0,
         sent' => (sent \/ m.to = ctx)
  PROVE  (OwnContext /\ AnsweredOrSent /\ SentToOwnChat)'
  <1>0. LockExact /\ OwnContext /\ AnsweredOrSent /\ SentToOwnChat /\ turn[t].state = "running"
    BY DEF IInv, Undisturbed, Active
  <1>1. \A u \in Ids : turn[u].state = "running" => u = t
    BY <1>0, OnlyRunner
  <1>2. ctx = turn[t].chat
    BY <1>0 DEF OwnContext
  <1>3. (turn[t].kind # "system" /\ sent') => Replied(t)'
    <2>1. CASE sent /\ turn[t].kind # "system"
      BY <1>0, <2>1 DEF OwnContext, Replied
    <2>2. CASE m.to = ctx
      BY <1>2, <2>2 DEF Replied
    <2> QED BY <2>1, <2>2
  <1>4. OwnContext'
    BY <1>0, <1>1, <1>2, <1>3 DEF OwnContext
  <1>5. AnsweredOrSent'
    BY <1>0 DEF AnsweredOrSent
  <1>6. SentToOwnChat'
    BY <1>0 DEF SentToOwnChat
  <1> QED BY <1>4, <1>5, <1>6

\* A message without a target goes to the context's chat, which is the turn's.
LEMMA SendMessageStep ==
  ASSUME IInv, NEW t \in Ids, SendMessage(t)
  PROVE  IInv'
  <1> DEFINE m == [turn |-> t, to |-> ctx, own |-> ctx = turn[t].chat]
  <1>0. TypeOK
    BY DEF IInv
  <1>1. /\ Active(t) /\ sends' = sends \union {m} /\ sent' = TRUE
        /\ UNCHANGED <<turn, last, inbound, loop, cancelled, lockq, ctx, subs, direct, stops, spawned>>
    BY DEF SendMessage
  <1>2. (ctx = turn[t].chat) \in BOOLEAN
    BY Zenon
  <1>3. m \in Sends
    BY <1>0, <1>2, Zenon DEF TypeOK, Sends
  <1>4. TypeOK'
    <2>1. sends' \subseteq Sends
      BY <1>0, <1>1, <1>3 DEF TypeOK
    <2>2. sent' \in BOOLEAN
      BY <1>1
    <2> QED BY <1>0, <1>1, <2>1, <2>2 DEF TypeOK
  <1>5. Undisturbed'
    <2> SUFFICES ASSUME direct' = 0 PROVE (OwnContext /\ AnsweredOrSent /\ SentToOwnChat)'
      BY DEF Undisturbed
    <2>1. ctx = turn[t].chat
      BY <1>1 DEF IInv, Undisturbed, OwnContext, Active
    <2>2. m.turn = t /\ m.own /\ m.to = ctx
      BY <2>1, Zenon
    <2> HIDE DEF m
    <2> QED BY <1>1, <1>3, <2>2, SendFacts
  <1> QED BY <1>1, <1>4, <1>5, SameTurns DEF IInv

\* A message with a target counts as an answer only in the context's chat.
LEMMA SendMessageToStep ==
  ASSUME IInv, NEW t \in Ids, NEW c \in Chats, SendMessageTo(t, c)
  PROVE  IInv'
  <1> DEFINE m == [turn |-> t, to |-> c, own |-> TRUE]
  <1>0. TypeOK
    BY DEF IInv
  <1>1. /\ Active(t) /\ sends' = sends \union {m} /\ sent' = (sent \/ c = ctx)
        /\ UNCHANGED <<turn, last, inbound, loop, cancelled, lockq, ctx, subs, direct, stops, spawned>>
    BY DEF SendMessageTo
  <1>3. m \in Sends /\ m.turn = t /\ m.own /\ m.to = c
    BY <1>0 DEF TypeOK, Sends
  <1> HIDE DEF m
  <1>4. TypeOK'
    <2>1. sends' \subseteq Sends
      BY <1>0, <1>1, <1>3 DEF TypeOK
    <2>2. sent' \in BOOLEAN
      BY <1>1, Zenon
    <2> QED BY <1>0, <1>1, <2>1, <2>2 DEF TypeOK
  <1>5. Undisturbed'
    <2> SUFFICES ASSUME direct' = 0 PROVE (OwnContext /\ AnsweredOrSent /\ SentToOwnChat)'
      BY DEF Undisturbed
    <2> QED BY <1>1, <1>3, SendFacts
  <1> QED BY <1>1, <1>4, <1>5, SameTurns DEF IInv

\* A subagent is registered for the context's chat.
LEMMA SpawnStep ==
  ASSUME IInv, NEW t \in Ids, Spawn(t)
  PROVE  IInv'
  <1>0. TypeOK
    BY DEF IInv
  <1>1. /\ spawned' = spawned + 1 /\ subs' = subs \union {<<spawned + 1, ctx>>}
        /\ UNCHANGED <<turn, last, inbound, loop, cancelled, lockq, ctx, sent, sends, direct, stops>>
    BY DEF Spawn
  <1>2. TypeOK'
    <2>1. spawned' \in Nat /\ subs' \subseteq (Nat \X Chats)
      BY <1>0, <1>1 DEF TypeOK
    <2> QED BY <1>0, <1>1, <2>1 DEF TypeOK
  <1> QED BY <1>1, <1>2, SameTurns
      DEF IInv, Undisturbed, OwnContext, Replied, AnsweredOrSent, SentToOwnChat

-----------------------------------------------------------------------------
(* The invariant and the theorems *)

\* The invariant holds before the first message.
LEMMA InitHolds == Init => IInv
  <1> SUFFICES ASSUME Init PROVE IInv
    OBVIOUS
  <1>1. AnyChat \in Chats
    BY LoopAssumption DEF AnyChat
  <1>2. /\ turn = [t \in Ids |-> [chat |-> AnyChat, kind |-> "user", state |-> "unused"]]
        /\ last = 0 /\ inbound = <<>> /\ loop = Consuming /\ cancelled = {} /\ lockq = <<>>
        /\ ctx = AnyChat /\ sent = FALSE /\ subs = {} /\ sends = {}
        /\ direct = 0 /\ stops = 0 /\ spawned = 0
    BY DEF Init
  <1>3. TypeOK
    <2>1. turn \in [Ids -> TurnRecords]
      BY <1>1, <1>2 DEF TurnRecords, TurnKinds, TurnStates
    <2>2. loop \in Loops
      BY <1>1, <1>2 DEF Consuming, Loops
    <2>3. sent \in BOOLEAN /\ cancelled \subseteq Ids /\ sends \subseteq Sends
          /\ subs \subseteq (Nat \X Chats)
      BY <1>2
    <2>4. last \in 0 .. MaxTurns /\ inbound \in Seq(QueueEntries) /\ lockq \in Seq(Ids)
          /\ direct \in Nat /\ stops \in Nat /\ spawned \in Nat
      BY <1>2, LoopAssumption
    <2> QED BY <1>1, <1>2, <2>1, <2>2, <2>3, <2>4, Zenon DEF TypeOK
  <1>4. \A t \in Ids : turn[t].kind = "user" /\ turn[t].state = "unused"
    BY <1>2
  <1>5. DOMAIN inbound = {} /\ DOMAIN lockq = {}
    BY <1>2
  <1> QED BY <1>2, <1>3, <1>4, <1>5
      DEF IInv, Fresh, Queued, LockExact, Alive, Cancelled, Undisturbed, OwnContext,
          AnsweredOrSent, SentToOwnChat

\* Every step keeps the invariant, action by action.
LEMMA StepHolds == IInv /\ [Next]_vars => IInv'
  <1> SUFFICES ASSUME IInv, [Next]_vars PROVE IInv'
    OBVIOUS
  <1>1. CASE UNCHANGED vars
    <2>1. TypeOK'
      BY <1>1 DEF IInv, TypeOK, vars
    <2> QED BY <1>1, <2>1, SameTurns
        DEF vars, IInv, Undisturbed, OwnContext, Replied, AnsweredOrSent, SentToOwnChat
  <1>2. CASE Next
    BY <1>2, ArriveStep, ArriveStopStep, BeginDirectStep, DispatchStep, HandleStopStep,
       StopDoneStep, StopTurnStep, BeginStep, SendMessageStep, SendMessageToStep, SpawnStep,
       FinishStep, FailStep, SubagentDoneStep
    DEF Next
  <1> QED BY <1>1, <1>2

\* The invariant holds at all times.
LEMMA Invariance == Spec => []IInv
  BY InitHolds, StepHolds, PTL DEF Spec

\* The turns, the queues, the loop and the shared tool state are well-formed at
\* all times.
THEOREM TypeCorrect == Spec => []TypeOK
<1>1. IInv => TypeOK
  BY DEF IInv
<1> QED BY <1>1, Invariance, PTL

\* _processing_lock serialises the turns of _dispatch, and its queue has exactly
\* the tasks that wait or hold it, whatever /stop cancels.
THEOREM LockIsExact == Spec => []LockExact
<1>1. IInv => LockExact
  BY DEF IInv
<1> QED BY <1>1, Invariance, PTL

\* When every turn runs under the lock (no process_direct), an answer is withheld
\* only if the turn itself answered through the message tool, and a message
\* without a target goes to the chat of its turn.
THEOREM AnsweredWithoutDirect == Spec => [](AnsweredOrSent /\ SentToOwnChat)
<1>1. IInv => AnsweredOrSent /\ SentToOwnChat
  BY DEF IInv, Undisturbed, AnsweredOrSent, SentToOwnChat
<1> QED BY <1>1, Invariance, PTL

\* The loop leaves _handle_stop only when the tasks it cancelled have ended.
THEOREM StopWaitsForAll == Spec => StopWaits
<1> DEFINE A == (loop.state = "stopping" /\ loop'.state = "consuming") =>
                   \A t \in Ids : (t \in cancelled /\ turn[t].chat = loop.chat) => ~Alive(t)
<1>1. IInv /\ [Next]_vars => [A]_vars
  <2> SUFFICES ASSUME IInv, Next, loop.state = "stopping", loop'.state = "consuming",
                      NEW t \in Ids, t \in cancelled
               PROVE  ~Alive(t)
    OBVIOUS
  <2>1. CASE StopDone
    BY <2>1 DEF StopDone, IInv, Cancelled
  <2>2. CASE UNCHANGED loop \/ loop'.state = "stopping"
    BY <2>2
  <2> QED BY <2>1, <2>2
      DEF Next, Arrive, ArriveStop, BeginDirect, Dispatch, HandleStop, StopTurn, Begin,
          SendMessage, SendMessageTo, Spawn, Finish, Fail, SubagentDone
<1> HIDE DEF A
<1>2. Spec => [][A]_vars
  BY <1>1, Invariance, PTL DEF Spec
<1> QED BY <1>2 DEF A, StopWaits

================================================================================
