--------------------------- MODULE MessageBusProofs ---------------------------
(***************************************************************************)
(* Proofs about MessageBus for every number of nodes and messages, every   *)
(* queue capacity, with and without Redis.                                 *)
(***************************************************************************)
EXTENDS MessageBus, TLAPS

\* Updating one queue of one node keeps the type of the family of queues.
LEMMA UpdateType ==
  ASSUME NEW A, NEW B, NEW S, NEW f \in [A -> [B -> S]],
         NEW a \in A, NEW b \in B, NEW v \in S
  PROVE  [f EXCEPT ![a][b] = v] \in [A -> [B -> S]]
  OBVIOUS

\* Type correctness of the bus: every publish_*, consume_* and listener step
\* keeps the queues, the dead letter queue and the Redis state well-formed.
THEOREM TypeCorrect == Spec => []TypeOK
<1> USE BusAssumption
<1>1. Init => TypeOK
  BY DEF Init, TypeOK, Kinds, Entries, ListenerStates
<1>2. TypeOK /\ [Next]_vars => TypeOK'
  <2> SUFFICES ASSUME TypeOK, [Next]_vars
               PROVE  TypeOK'
    OBVIOUS
  <2> USE DEF TypeOK
  <2>a. ASSUME NEW n \in Nodes, EnsureListener(n)
        PROVE  listener' \in [Nodes -> ListenerStates]
    BY <2>a DEF EnsureListener, ListenerStates
  <2>b. ASSUME NEW n \in Nodes, NEW e \in Entries, PutLocal(n, e)
        PROVE  /\ queue' \in [Nodes -> [Kinds -> Seq(Msgs)]]
               /\ dlq' \in [Nodes -> Seq(Entries)]
               /\ accepted' \in [Nodes -> [Kinds -> Seq(Msgs)]]
               /\ dropped' \in [Nodes -> SUBSET Entries]
    <3>1. e[1] \in Kinds /\ e[2] \in Msgs
      BY DEF Entries
    <3>2. CASE Full(queue[n][e[1]])
      <4>1. PushToDlq(n, e) /\ UNCHANGED <<queue, accepted>>
        BY <2>b, <3>2 DEF PutLocal
      <4>2. Append(dlq[n], e) \in Seq(Entries) /\ dropped[n] \union {e} \in SUBSET Entries
        OBVIOUS
      <4>3. CASE Full(dlq[n])
        BY <4>1, <4>2, <4>3 DEF PushToDlq
      <4>4. CASE ~Full(dlq[n])
        BY <4>1, <4>2, <4>4 DEF PushToDlq
      <4> QED BY <4>3, <4>4
    <3>3. CASE ~Full(queue[n][e[1]])
      <4>1. /\ queue' = [queue EXCEPT ![n][e[1]] = Append(@, e[2])]
            /\ accepted' = [accepted EXCEPT ![n][e[1]] = Append(@, e[2])]
            /\ UNCHANGED <<dlq, dropped>>
        BY <2>b, <3>3 DEF PutLocal
      <4> DEFINE k == e[1]
                 m == e[2]
      <4>2. k \in Kinds /\ m \in Msgs
        BY <3>1
      <4>3. /\ queue' = [queue EXCEPT ![n][k] = Append(queue[n][k], m)]
            /\ accepted' = [accepted EXCEPT ![n][k] = Append(accepted[n][k], m)]
        BY <4>1
      <4> HIDE DEF k, m
      <4>4. /\ Append(queue[n][k], m) \in Seq(Msgs)
            /\ Append(accepted[n][k], m) \in Seq(Msgs)
        BY <4>2
      <4>5. queue' \in [Nodes -> [Kinds -> Seq(Msgs)]]
        BY <4>2, <4>3, <4>4, UpdateType
      <4>6. accepted' \in [Nodes -> [Kinds -> Seq(Msgs)]]
        BY <4>2, <4>3, <4>4, UpdateType
      <4> QED BY <4>1, <4>5, <4>6
    <3> QED BY <3>2, <3>3
  <2>c. ASSUME NEW e \in Entries, Broadcast(e)
        PROVE  backlog' \in [Nodes -> Seq(Entries)]
    BY <2>c DEF Broadcast
  <2>1. ASSUME NEW n \in Nodes, NEW e \in Entries, Publish(n, e)
        PROVE  TypeOK'
    <3>1. e[2] \in Msgs
      BY DEF Entries
    <3>2. published' \subseteq Msgs
      BY <2>1, <3>1 DEF Publish
    <3>3. CASE Redis
      <4> DEFINE r == [by |-> "producer", entry |-> e]
      <4>1. r \in Publications
        BY DEF Publications
      <4>1a. pending' = [pending EXCEPT ![n] = @ \union {r}]
        BY <2>1, <3>3 DEF Publish
      <4> HIDE DEF r
      <4>2. pending' \in [Nodes -> SUBSET Publications]
        BY <4>1, <4>1a
      <4>3. listener' \in [Nodes -> ListenerStates]
        BY <2>1, <2>a DEF Publish
      <4>4. UNCHANGED <<queue, dlq, accepted, dropped, backlog, failures, consumed, deadTaken>>
        BY <2>1, <3>3 DEF Publish
      <4> QED BY <3>2, <4>2, <4>3, <4>4
    <3>4. CASE ~Redis
      BY <2>1, <2>a, <2>b, <3>2, <3>4 DEF Publish
    <3> QED BY <3>3, <3>4
  <2>2. ASSUME NEW n \in Nodes, NEW p \in Publications, PublishOk(n, p)
        PROVE  TypeOK'
    BY <2>2, <2>c DEF PublishOk, Publications
  <2>3. ASSUME NEW n \in Nodes, NEW p \in Publications, PublishFail(n, p)
        PROVE  TypeOK'
    <3>1. p.entry \in Entries
      BY DEF Publications
    <3>2. backlog' \in [Nodes -> Seq(Entries)]
      BY <2>3, <2>c, <3>1 DEF PublishFail
    <3>3. /\ pending' = [pending EXCEPT ![n] = @ \ {p}]
          /\ failures' = failures + 1 /\ failures < MaxFailures
          /\ PutLocal(n, p.entry)
          /\ UNCHANGED <<listener, published, consumed, deadTaken>>
      BY <2>3 DEF PublishFail
    <3>4. pending' \in [Nodes -> SUBSET Publications]
      BY <3>3
    <3>5. failures' \in 0 .. MaxFailures
      BY <3>3
    <3>6. /\ queue' \in [Nodes -> [Kinds -> Seq(Msgs)]]
          /\ dlq' \in [Nodes -> Seq(Entries)]
          /\ accepted' \in [Nodes -> [Kinds -> Seq(Msgs)]]
          /\ dropped' \in [Nodes -> SUBSET Entries]
      BY <2>b, <3>1, <3>3
    <3> QED BY <3>2, <3>3, <3>4, <3>5, <3>6
  <2>4. ASSUME NEW n \in Nodes, Subscribe(n) PROVE TypeOK'
    BY <2>4 DEF Subscribe, ListenerStates
  <2>5. ASSUME NEW n \in Nodes, ListenerRead(n) PROVE TypeOK'
    <3>1. Head(backlog[n]) \in Entries /\ Tail(backlog[n]) \in Seq(Entries)
      BY <2>5 DEF ListenerRead
    <3>2. [by |-> "listener", entry |-> Head(backlog[n])] \in Publications
      BY <3>1 DEF Publications
    <3> QED BY <2>5, <3>1, <3>2 DEF ListenerRead
  <2>6. ASSUME NEW n \in Nodes, ListenerEnds(n) PROVE TypeOK'
    BY <2>6 DEF ListenerEnds, ListenerStates
  <2>7. ASSUME NEW n \in Nodes, NEW k \in Kinds, Consume(n, k) PROVE TypeOK'
    <3>1. Head(queue[n][k]) \in Msgs /\ Tail(queue[n][k]) \in Seq(Msgs)
      BY <2>7 DEF Consume
    <3> QED BY <2>7, <2>a, <3>1 DEF Consume
  <2>8. ASSUME NEW n \in Nodes, NEW k \in Kinds, ConsumeWait(n, k) PROVE TypeOK'
    BY <2>8, <2>a DEF ConsumeWait
  <2>9. ASSUME NEW n \in Nodes, ConsumeDeadLetter(n) PROVE TypeOK'
    <3>1. Head(dlq[n]) \in Entries /\ Tail(dlq[n]) \in Seq(Entries)
      BY <2>9 DEF ConsumeDeadLetter
    <3> QED BY <2>9, <3>1 DEF ConsumeDeadLetter
  <2>10. CASE UNCHANGED vars
    BY <2>10 DEF vars
  <2> QED
    BY <2>1, <2>2, <2>3, <2>4, <2>5, <2>6, <2>7, <2>8, <2>9, <2>10 DEF Next
<1> QED
  BY <1>1, <1>2, PTL DEF Spec

-----------------------------------------------------------------------------

\* Putting at the end and taking from the front, seen through the history
\* "taken so far, then still queued".
LEMMA PutKeepsHistory ==
  ASSUME NEW c \in Seq(Msgs), NEW q \in Seq(Msgs), NEW m \in Msgs
  PROVE  Append(c \o q, m) = c \o Append(q, m)
  OBVIOUS

\* Taking the head moves it from the queue to what was consumed.
LEMMA GetKeepsHistory ==
  ASSUME NEW c \in Seq(Msgs), NEW q \in Seq(Msgs), q # <<>>
  PROVE  Append(c, Head(q)) \o Tail(q) = c \o q
  OBVIOUS

\* One local enqueue: either the queue of the message's kind had room and got
\* it, or that queue is unchanged and the message went to the dead letter
\* queue, which had room, or the message was counted as dropped.
LEMMA PutLocalCases ==
  ASSUME TypeOK, NEW n \in Nodes, NEW e \in Entries, PutLocal(n, e)
  PROVE  \/ /\ ~Full(queue[n][e[1]])
            /\ queue' = [queue EXCEPT ![n][e[1]] = Append(queue[n][e[1]], e[2])]
            /\ accepted' = [accepted EXCEPT ![n][e[1]] = Append(accepted[n][e[1]], e[2])]
            /\ UNCHANGED <<dlq, dropped>>
         \/ /\ ~Full(dlq[n])
            /\ dlq' = [dlq EXCEPT ![n] = Append(dlq[n], e)]
            /\ UNCHANGED <<queue, accepted, dropped>>
         \/ /\ dropped' = [dropped EXCEPT ![n] = dropped[n] \union {e}]
            /\ UNCHANGED <<queue, accepted, dlq>>
<1>1. CASE Full(queue[n][e[1]])
  <2>1. PushToDlq(n, e) /\ UNCHANGED <<queue, accepted>>
    BY <1>1 DEF PutLocal
  <2> QED BY <2>1 DEF PushToDlq
<1>2. CASE ~Full(queue[n][e[1]])
  BY <1>2 DEF PutLocal
<1> QED BY <1>1, <1>2

\* A local enqueue respects the capacity of every queue.
LEMMA PutLocalBounded ==
  ASSUME TypeOK, Bounded, NEW n \in Nodes, NEW e \in Entries, PutLocal(n, e)
  PROVE  Bounded'
<1> USE BusAssumption DEF TypeOK
<1> DEFINE k == e[1]
           m == e[2]
<1>1. k \in Kinds /\ m \in Msgs
  BY DEF Entries
<1>2. CASE /\ ~Full(queue[n][k])
           /\ queue' = [queue EXCEPT ![n][k] = Append(queue[n][k], m)]
           /\ UNCHANGED <<dlq, dropped>>
  <2> HIDE DEF k, m
  <2>1. Len(Append(queue[n][k], m)) = Len(queue[n][k]) + 1
    BY <1>1
  <2>2. \A nn \in Nodes, kk \in Kinds :
           queue'[nn][kk] = IF nn = n /\ kk = k THEN Append(queue[n][k], m)
                                               ELSE queue[nn][kk]
    BY <1>1, <1>2
  <2>3. MaxSize > 0 => Len(queue[n][k]) < MaxSize
    BY <1>1, <1>2 DEF Full
  <2> QED BY <1>1, <1>2, <2>1, <2>2, <2>3 DEF Bounded
<1>3. CASE /\ ~Full(dlq[n])
           /\ dlq' = [dlq EXCEPT ![n] = Append(dlq[n], e)]
           /\ UNCHANGED queue
  <2>1. Len(Append(dlq[n], e)) = Len(dlq[n]) + 1
    OBVIOUS
  <2>2. \A nn \in Nodes : dlq'[nn] = IF nn = n THEN Append(dlq[n], e) ELSE dlq[nn]
    BY <1>3
  <2>3. MaxSize > 0 => Len(dlq[n]) < MaxSize
    BY <1>3 DEF Full
  <2> QED BY <1>3, <2>1, <2>2, <2>3 DEF Bounded
<1>4. CASE UNCHANGED <<queue, dlq>>
  BY <1>4 DEF Bounded
<1> QED BY <1>2, <1>3, <1>4, PutLocalCases

\* A local enqueue keeps every queue's history.
LEMMA PutLocalFifo ==
  ASSUME TypeOK, Fifo, NEW n \in Nodes, NEW e \in Entries, PutLocal(n, e),
         UNCHANGED consumed
  PROVE  Fifo'
<1> USE DEF TypeOK
<1> DEFINE k == e[1]
           m == e[2]
<1>1. k \in Kinds /\ m \in Msgs
  BY DEF Entries
<1>2. CASE /\ queue' = [queue EXCEPT ![n][k] = Append(queue[n][k], m)]
           /\ accepted' = [accepted EXCEPT ![n][k] = Append(accepted[n][k], m)]
  <2> HIDE DEF k, m
  <2>1. Append(accepted[n][k], m) = consumed[n][k] \o Append(queue[n][k], m)
    <3>1. /\ consumed[n][k] \in Seq(Msgs) /\ queue[n][k] \in Seq(Msgs)
          /\ accepted[n][k] = consumed[n][k] \o queue[n][k]
      BY <1>1 DEF Fifo
    <3> HIDE DEF TypeOK
    <3>2. Append(consumed[n][k] \o queue[n][k], m) = consumed[n][k] \o Append(queue[n][k], m)
      BY <1>1, <3>1, PutKeepsHistory
    <3> QED BY <3>1, <3>2
  <2>2. \A nn \in Nodes, kk \in Kinds :
           queue'[nn][kk] = IF nn = n /\ kk = k THEN Append(queue[n][k], m)
                                               ELSE queue[nn][kk]
    BY <1>1, <1>2
  <2>3. \A nn \in Nodes, kk \in Kinds :
           accepted'[nn][kk] = IF nn = n /\ kk = k THEN Append(accepted[n][k], m)
                                                  ELSE accepted[nn][kk]
    BY <1>1, <1>2
  <2> HIDE DEF TypeOK
  <2> QED BY ZenonT(40), <2>1, <2>2, <2>3 DEF Fifo
<1>3. CASE UNCHANGED <<queue, accepted>>
  BY <1>3 DEF Fifo
<1> QED BY <1>2, <1>3, PutLocalCases

\* The capacity of the queues and their FIFO discipline hold in every state,
\* with or without Redis, whatever the listener and the producers do.
THEOREM BoundedAndFifo == Spec => [](Bounded /\ Fifo)
<1> USE BusAssumption
<1>1. Init => Bounded /\ Fifo
  BY DEF Init, Bounded, Fifo, Kinds
<1>2. TypeOK /\ Bounded /\ Fifo /\ [Next]_vars => (Bounded /\ Fifo)'
  <2> SUFFICES ASSUME TypeOK, Bounded, Fifo, [Next]_vars
               PROVE  Bounded' /\ Fifo'
    OBVIOUS
  <2>1. ASSUME NEW n \in Nodes, NEW e \in Entries, Publish(n, e)
        PROVE  Bounded' /\ Fifo'
    <3>1. CASE Redis
      BY <2>1, <3>1 DEF Publish, Bounded, Fifo
    <3>2. CASE ~Redis
      BY <2>1, <3>2, PutLocalBounded, PutLocalFifo DEF Publish
    <3> QED BY <3>1, <3>2
  <2>2. ASSUME NEW n \in Nodes, NEW p \in Publications, PublishOk(n, p)
        PROVE  Bounded' /\ Fifo'
    BY <2>2 DEF PublishOk, Bounded, Fifo
  <2>3. ASSUME NEW n \in Nodes, NEW p \in Publications, PublishFail(n, p)
        PROVE  Bounded' /\ Fifo'
    <3>1. p.entry \in Entries
      BY DEF Publications
    <3> QED BY <2>3, <3>1, PutLocalBounded, PutLocalFifo DEF PublishFail
  <2>4. ASSUME NEW n \in Nodes, NEW k \in Kinds, Consume(n, k)
        PROVE  Bounded' /\ Fifo'
    <3> USE DEF TypeOK
    <3>1. /\ queue[n][k] # <<>>
          /\ queue' = [queue EXCEPT ![n][k] = Tail(queue[n][k])]
          /\ consumed' = [consumed EXCEPT ![n][k] = Append(consumed[n][k], Head(queue[n][k]))]
          /\ UNCHANGED <<dlq, accepted>>
      BY <2>4 DEF Consume
    <3>2. Len(Tail(queue[n][k])) = Len(queue[n][k]) - 1
      BY <3>1
    <3>3. \A nn \in Nodes, kk \in Kinds :
             queue'[nn][kk] = IF nn = n /\ kk = k THEN Tail(queue[n][k])
                                                 ELSE queue[nn][kk]
      BY <3>1
    <3>4. \A nn \in Nodes, kk \in Kinds :
             consumed'[nn][kk] = IF nn = n /\ kk = k
                                 THEN Append(consumed[n][k], Head(queue[n][k]))
                                 ELSE consumed[nn][kk]
      BY <3>1
    <3>5. \A nn \in Nodes, kk \in Kinds : Len(queue[nn][kk]) \in Nat
      OBVIOUS
    <3>6. queue[n][k] \in Seq(Msgs) /\ consumed[n][k] \in Seq(Msgs)
      OBVIOUS
    <3> HIDE DEF TypeOK
    <3>7. Bounded'
      BY <3>1, <3>2, <3>3, <3>5 DEF Bounded
    <3>8. Append(consumed[n][k], Head(queue[n][k])) \o Tail(queue[n][k])
             = consumed[n][k] \o queue[n][k]
      BY <3>1, <3>6, GetKeepsHistory
    <3>9. Fifo'
      <4> SUFFICES ASSUME NEW nn \in Nodes, NEW kk \in Kinds
                   PROVE  accepted'[nn][kk] = consumed'[nn][kk] \o queue'[nn][kk]
        BY DEF Fifo
      <4>1. accepted'[nn][kk] = consumed[nn][kk] \o queue[nn][kk]
        BY <3>1 DEF Fifo
      <4>2. CASE nn = n /\ kk = k
        BY <3>3, <3>4, <3>8, <4>1, <4>2
      <4>3. CASE ~(nn = n /\ kk = k)
        BY <3>3, <3>4, <4>1, <4>3
      <4> QED BY <4>2, <4>3
    <3> QED BY <3>7, <3>9
  <2>5. ASSUME NEW n \in Nodes, ConsumeDeadLetter(n)
        PROVE  Bounded' /\ Fifo'
    <3> USE DEF TypeOK
    <3>1. /\ dlq' = [dlq EXCEPT ![n] = Tail(dlq[n])]
          /\ dlq[n] # <<>>
          /\ UNCHANGED <<queue, accepted, consumed>>
      BY <2>5 DEF ConsumeDeadLetter
    <3>2. Len(Tail(dlq[n])) = Len(dlq[n]) - 1
      BY <3>1
    <3>3. \A nn \in Nodes : dlq'[nn] = IF nn = n THEN Tail(dlq[n]) ELSE dlq[nn]
      BY <3>1
    <3>4. \A nn \in Nodes : Len(dlq[nn]) \in Nat
      OBVIOUS
    <3> HIDE DEF TypeOK
    <3>5. Bounded'
      BY <3>1, <3>2, <3>3, <3>4 DEF Bounded
    <3>6. Fifo'
      BY <3>1 DEF Fifo
    <3> QED BY <3>5, <3>6
  <2>6. CASE \/ \E n \in Nodes : Subscribe(n) \/ ListenerRead(n) \/ ListenerEnds(n)
             \/ \E n \in Nodes, k \in Kinds : ConsumeWait(n, k)
             \/ UNCHANGED vars
    BY <2>6 DEF Subscribe, ListenerRead, ListenerEnds, ConsumeWait, vars, Bounded, Fifo
  <2> QED
    BY <2>1, <2>2, <2>3, <2>4, <2>5, <2>6 DEF Next
<1> QED
  BY <1>1, <1>2, TypeCorrect, PTL DEF Spec

-----------------------------------------------------------------------------
(* Without Redis: where messages are, and the mailbox *)

\* What the queue operations do to the set of a queue's messages.
LEMMA ElemsOfAppend ==
  ASSUME NEW S, NEW s \in Seq(S), NEW x \in S
  PROVE  Elems(Append(s, x)) = Elems(s) \union {x}
<1> DEFINE t == Append(s, x)
<1>1. Len(s) \in Nat /\ DOMAIN s = 1 .. Len(s) /\ DOMAIN t = 1 .. Len(s) + 1
  OBVIOUS
<1>2. t[Len(s) + 1] = x /\ \A i \in 1 .. Len(s) : t[i] = s[i]
  BY <1>1
<1> HIDE DEF t
<1>3. \A i \in DOMAIN t : t[i] \in Elems(s) \union {x}
  <2> SUFFICES ASSUME NEW i \in 1 .. Len(s) + 1
               PROVE  t[i] \in Elems(s) \union {x}
    BY <1>1
  <2>1. CASE i = Len(s) + 1
    BY <2>1, <1>2
  <2>2. CASE i # Len(s) + 1
    <3>1. i \in DOMAIN s /\ t[i] = s[i]
      BY <2>2, <1>1, <1>2
    <3> QED BY <3>1 DEF Elems
  <2> QED BY <2>1, <2>2
<1>4. \A i \in DOMAIN s : i \in DOMAIN t /\ t[i] = s[i]
  BY <1>1, <1>2
<1>5. Len(s) + 1 \in DOMAIN t
  BY <1>1
<1>6. Elems(t) = Elems(s) \union {x}
  BY <1>2, <1>3, <1>4, <1>5 DEF Elems
<1> QED BY <1>6 DEF t

\* A sequence has its head and what follows it.
LEMMA ElemsOfTail ==
  ASSUME NEW S, NEW s \in Seq(S), s # <<>>
  PROVE  Elems(s) = {Head(s)} \union Elems(Tail(s))
<1>1. Len(s) \in Nat /\ Len(s) > 0 /\ DOMAIN s = 1 .. Len(s)
  OBVIOUS
<1>2. Tail(s) \in Seq(S) /\ Len(Tail(s)) = Len(s) - 1 /\ DOMAIN Tail(s) = 1 .. Len(s) - 1
  BY <1>1
<1>3. \A i \in 1 .. Len(s) - 1 : Tail(s)[i] = s[i + 1]
  BY <1>1
<1>4. Head(s) = s[1]
  BY <1>1
<1>5. \A i \in DOMAIN s : s[i] \in {Head(s)} \union Elems(Tail(s))
  <2> SUFFICES ASSUME NEW i \in 1 .. Len(s)
               PROVE  s[i] \in {Head(s)} \union Elems(Tail(s))
    BY <1>1
  <2>1. CASE i = 1
    BY <2>1, <1>4
  <2>2. CASE i # 1
    <3>1. i - 1 \in 1 .. Len(s) - 1 /\ Tail(s)[i - 1] = s[(i - 1) + 1] /\ (i - 1) + 1 = i
      BY <2>2, <1>1, <1>3
    <3> QED BY <3>1, <1>2 DEF Elems
  <2> QED BY <2>1, <2>2
<1>6. \A j \in DOMAIN Tail(s) : Tail(s)[j] \in Elems(s)
  <2> SUFFICES ASSUME NEW j \in 1 .. Len(s) - 1
               PROVE  Tail(s)[j] \in Elems(s)
    BY <1>2
  <2>1. j + 1 \in DOMAIN s /\ Tail(s)[j] = s[j + 1]
    BY <1>1, <1>3
  <2> QED BY <2>1 DEF Elems
<1>7. Head(s) \in Elems(s)
  BY <1>1, <1>4 DEF Elems
<1> QED BY <1>5, <1>6, <1>7 DEF Elems

\* A local put either appends to the queue, which had room, or adds one entry
\* to the overflow of its node.
LEMMA PutLocalPlaces ==
  ASSUME TypeOK, NEW n \in Nodes, NEW e \in Entries, PutLocal(n, e), UNCHANGED deadTaken
  PROVE  \/ /\ Full(queue[n][e[1]])
            /\ UNCHANGED <<queue, accepted>>
            /\ \A nn \in Nodes : Overflow(nn)' = IF nn = n THEN Overflow(nn) \union {e} ELSE Overflow(nn)
         \/ /\ ~Full(queue[n][e[1]])
            /\ queue' = [queue EXCEPT ![n][e[1]] = Append(queue[n][e[1]], e[2])]
            /\ accepted' = [accepted EXCEPT ![n][e[1]] = Append(accepted[n][e[1]], e[2])]
            /\ \A nn \in Nodes : Overflow(nn)' = Overflow(nn)
<1>1. CASE ~Full(queue[n][e[1]])
  BY <1>1 DEF PutLocal, Overflow, Elems
<1>2. CASE Full(queue[n][e[1]])
  <2>1. PushToDlq(n, e) /\ UNCHANGED <<queue, accepted>>
    BY <1>2 DEF PutLocal
  <2>2. CASE Full(dlq[n])
    <3>1. /\ dropped' = [dropped EXCEPT ![n] = dropped[n] \union {e}]
          /\ dlq' = dlq
      BY <2>1, <2>2 DEF PushToDlq
    <3>2. \A nn \in Nodes : dropped'[nn] = IF nn = n THEN dropped[nn] \union {e} ELSE dropped[nn]
      BY <3>1 DEF TypeOK
    <3>3. \A nn \in Nodes : Overflow(nn)' = Elems(dlq[nn]) \union Elems(deadTaken[nn]) \union dropped'[nn]
      BY <3>1 DEF Overflow, Elems
    <3>4. \A nn \in Nodes : Overflow(nn)' = IF nn = n THEN Overflow(nn) \union {e} ELSE Overflow(nn)
      BY <3>2, <3>3 DEF Overflow
    <3> QED BY <1>2, <2>1, <3>4
  <2>3. CASE ~Full(dlq[n])
    <3>1. /\ dlq' = [dlq EXCEPT ![n] = Append(dlq[n], e)]
          /\ dropped' = dropped
      BY <2>1, <2>3 DEF PushToDlq
    <3>2. \A nn \in Nodes : dlq'[nn] = IF nn = n THEN Append(dlq[nn], e) ELSE dlq[nn]
      BY <3>1 DEF TypeOK
    <3>3. \A nn \in Nodes : Overflow(nn)' = Elems(dlq'[nn]) \union Elems(deadTaken[nn]) \union dropped[nn]
      BY <3>1 DEF Overflow, Elems
    <3>4. Elems(Append(dlq[n], e)) = Elems(dlq[n]) \union {e}
      BY ElemsOfAppend DEF TypeOK
    <3>5. \A nn \in Nodes : Overflow(nn)' = IF nn = n THEN Overflow(nn) \union {e} ELSE Overflow(nn)
      BY <3>2, <3>3, <3>4 DEF Overflow
    <3> QED BY <1>2, <2>1, <3>5
  <2> QED BY <2>2, <2>3
<1> QED BY <1>1, <1>2

\* The strengthening: without Redis nothing waits for it, and every message in
\* a queue, taken from one or set aside was published before.
Placed ==
    /\ \A n \in Nodes : pending[n] = {} /\ listener[n] = "none"
    /\ \A n \in Nodes, k \in Kinds :
          Elems(queue[n][k]) \union Elems(consumed[n][k]) \union Elems(accepted[n][k]) \subseteq published
    /\ \A n \in Nodes : \A e \in Overflow(n) : e[2] \in published

PlacedInv == ~Redis => Placed

\* The local put of a new message, as publish_* makes it without Redis.
LocalPublish(n, e) ==
    /\ e[2] \notin published
    /\ published' = published \union {e[2]}
    /\ PutLocal(n, e)
    /\ UNCHANGED <<listener, pending, consumed, deadTaken>>

\* The steps a bus without Redis can make.
LEMMA LocalSteps ==
  ASSUME TypeOK, ~Redis, Placed, [Next]_vars
  PROVE  \/ \E n \in Nodes, e \in Entries : LocalPublish(n, e)
         \/ \E n \in Nodes, k \in Kinds : Consume(n, k) /\ UNCHANGED listener
         \/ \E n \in Nodes : ConsumeDeadLetter(n)
         \/ UNCHANGED vars
<1>1. ASSUME NEW n \in Nodes, NEW e \in Entries, Publish(n, e)
      PROVE  LocalPublish(n, e)
  BY <1>1 DEF Publish, LocalPublish, EnsureListener
<1>2. ASSUME NEW n \in Nodes, NEW p \in Publications, PublishOk(n, p) \/ PublishFail(n, p)
      PROVE  FALSE
  BY <1>2 DEF PublishOk, PublishFail, Placed
<1>3. ASSUME NEW n \in Nodes, Subscribe(n) \/ ListenerRead(n) \/ ListenerEnds(n)
      PROVE  FALSE
  BY <1>3 DEF Subscribe, ListenerRead, ListenerEnds, Placed
<1>4. ASSUME NEW n \in Nodes, NEW k \in Kinds, Consume(n, k)
      PROVE  Consume(n, k) /\ UNCHANGED listener
  BY <1>4 DEF Consume, EnsureListener
<1>5. ASSUME NEW n \in Nodes, NEW k \in Kinds, ConsumeWait(n, k)
      PROVE  UNCHANGED vars
  BY <1>5 DEF ConsumeWait, EnsureListener, vars
<1> QED BY <1>1, <1>2, <1>3, <1>4, <1>5 DEF Next

\* Taking an entry from the dead letter queue keeps the overflow of a node.
LEMMA DeadLetterKeepsOverflow ==
  ASSUME TypeOK, NEW n \in Nodes, ConsumeDeadLetter(n)
  PROVE  \A nn \in Nodes : Overflow(nn)' = Overflow(nn)
<1>1. /\ dlq[n] # <<>>
      /\ dlq' = [dlq EXCEPT ![n] = Tail(dlq[n])]
      /\ deadTaken' = [deadTaken EXCEPT ![n] = Append(deadTaken[n], Head(dlq[n]))]
      /\ dropped' = dropped
  BY DEF ConsumeDeadLetter
<1>2. dlq[n] \in Seq(Entries) /\ deadTaken[n] \in Seq(Entries) /\ Head(dlq[n]) \in Entries
  BY <1>1 DEF TypeOK
<1>3. Elems(dlq[n]) = {Head(dlq[n])} \union Elems(Tail(dlq[n]))
  BY <1>1, <1>2, ElemsOfTail
<1>4. Elems(Append(deadTaken[n], Head(dlq[n]))) = Elems(deadTaken[n]) \union {Head(dlq[n])}
  BY <1>2, ElemsOfAppend
<1>5. \A nn \in Nodes :
        /\ dlq'[nn] = IF nn = n THEN Tail(dlq[n]) ELSE dlq[nn]
        /\ deadTaken'[nn] = IF nn = n THEN Append(deadTaken[n], Head(dlq[n])) ELSE deadTaken[nn]
  BY <1>1 DEF TypeOK
<1>6. \A nn \in Nodes : Overflow(nn)' = Elems(dlq'[nn]) \union Elems(deadTaken'[nn]) \union dropped[nn]
  BY <1>1 DEF Overflow, Elems
<1> QED BY <1>3, <1>4, <1>5, <1>6 DEF Overflow

\* A message that is published goes to the end of its queue, which has room,
\* or to the overflow of its node, because the queue is full.
LEMMA LocalPublishPlaces ==
  ASSUME TypeOK, NEW n \in Nodes, NEW k \in Kinds, NEW m \in Msgs, LocalPublish(n, <<k, m>>)
  PROVE  \/ /\ Full(queue[n][k])
            /\ UNCHANGED <<queue, accepted>>
            /\ \A nn \in Nodes : Overflow(nn)' = IF nn = n THEN Overflow(nn) \union {<<k, m>>} ELSE Overflow(nn)
         \/ /\ ~Full(queue[n][k])
            /\ \A nn \in Nodes, kk \in Kinds :
                  /\ queue'[nn][kk] = IF nn = n /\ kk = k THEN Append(queue[n][k], m) ELSE queue[nn][kk]
                  /\ accepted'[nn][kk] = IF nn = n /\ kk = k THEN Append(accepted[n][k], m) ELSE accepted[nn][kk]
            /\ \A nn \in Nodes : Overflow(nn)' = Overflow(nn)
<1> DEFINE e == <<k, m>>
<1>1. e \in Entries /\ e[1] = k /\ e[2] = m
  BY DEF Entries
<1>2. PutLocal(n, e) /\ UNCHANGED deadTaken
  BY DEF LocalPublish
<1>3. CASE Full(queue[n][k])
  <2> HIDE DEF e
  <2>1. /\ UNCHANGED <<queue, accepted>>
        /\ \A nn \in Nodes : Overflow(nn)' = IF nn = n THEN Overflow(nn) \union {e} ELSE Overflow(nn)
    BY <1>1, <1>2, <1>3, PutLocalPlaces
  <2> QED BY <1>3, <2>1 DEF e
<1>4. CASE ~Full(queue[n][k])
  <2> HIDE DEF e
  <2>1. /\ queue' = [queue EXCEPT ![n][k] = Append(queue[n][k], m)]
        /\ accepted' = [accepted EXCEPT ![n][k] = Append(accepted[n][k], m)]
        /\ \A nn \in Nodes : Overflow(nn)' = Overflow(nn)
    BY <1>1, <1>2, <1>4, PutLocalPlaces
  <2>2. \A nn \in Nodes, kk \in Kinds :
          /\ queue'[nn][kk] = IF nn = n /\ kk = k THEN Append(queue[n][k], m) ELSE queue[nn][kk]
          /\ accepted'[nn][kk] = IF nn = n /\ kk = k THEN Append(accepted[n][k], m) ELSE accepted[nn][kk]
    BY <2>1 DEF TypeOK
  <2> QED BY <1>4, <2>1, <2>2
<1> QED BY <1>3, <1>4

\* The strengthening is kept by every step.
LEMMA PlacedStep ==
  ASSUME TypeOK, ~Redis, Placed, [Next]_vars
  PROVE  Placed'
<1>1. ASSUME NEW n \in Nodes, NEW e \in Entries, LocalPublish(n, e)
      PROVE  Placed'
  <2> PICK k \in Kinds, m \in Msgs : e = <<k, m>>
    BY DEF Entries
  <2>1. published' = published \union {m} /\ UNCHANGED <<listener, pending, consumed>>
    BY <1>1 DEF LocalPublish
  <2>2. CASE Full(queue[n][k])
    <3>1. /\ UNCHANGED <<queue, accepted>>
          /\ \A nn \in Nodes : Overflow(nn)' = IF nn = n THEN Overflow(nn) \union {<<k, m>>} ELSE Overflow(nn)
      BY <1>1, <2>2, LocalPublishPlaces
    <3>2. \A nn \in Nodes : \A x \in Overflow(nn)' : x[2] \in published'
      BY <2>1, <3>1 DEF Placed
    <3> QED BY <2>1, <3>1, <3>2 DEF Placed, Elems
  <2>3. CASE ~Full(queue[n][k])
    <3>1. /\ \A nn \in Nodes, kk \in Kinds :
                /\ queue'[nn][kk] = IF nn = n /\ kk = k THEN Append(queue[n][k], m) ELSE queue[nn][kk]
                /\ accepted'[nn][kk] = IF nn = n /\ kk = k THEN Append(accepted[n][k], m) ELSE accepted[nn][kk]
          /\ \A nn \in Nodes : Overflow(nn)' = Overflow(nn)
      BY <1>1, <2>3, LocalPublishPlaces
    <3>2. /\ Elems(Append(queue[n][k], m)) = Elems(queue[n][k]) \union {m}
          /\ Elems(Append(accepted[n][k], m)) = Elems(accepted[n][k]) \union {m}
      BY ElemsOfAppend DEF TypeOK
    <3>3. \A nn \in Nodes, kk \in Kinds :
            Elems(queue'[nn][kk]) \union Elems(consumed'[nn][kk]) \union Elems(accepted'[nn][kk]) \subseteq published'
      BY <2>1, <3>1, <3>2 DEF Placed
    <3>4. \A nn \in Nodes : \A x \in Overflow(nn)' : x[2] \in published'
      BY <2>1, <3>1 DEF Placed
    <3> QED BY <2>1, <3>3, <3>4 DEF Placed, Elems
  <2> QED BY <2>2, <2>3
<1>2. ASSUME NEW n \in Nodes, NEW k \in Kinds, Consume(n, k) /\ UNCHANGED listener
      PROVE  Placed'
  <2>1. /\ queue[n][k] # <<>>
        /\ queue' = [queue EXCEPT ![n][k] = Tail(queue[n][k])]
        /\ consumed' = [consumed EXCEPT ![n][k] = Append(consumed[n][k], Head(queue[n][k]))]
        /\ UNCHANGED <<dlq, listener, pending, published, accepted, deadTaken, dropped>>
    BY <1>2 DEF Consume
  <2>2. queue[n][k] \in Seq(Msgs) /\ consumed[n][k] \in Seq(Msgs) /\ Head(queue[n][k]) \in Msgs
    BY <2>1 DEF TypeOK
  <2>3. Elems(queue[n][k]) = {Head(queue[n][k])} \union Elems(Tail(queue[n][k]))
    BY <2>1, <2>2, ElemsOfTail
  <2>4. Elems(Append(consumed[n][k], Head(queue[n][k]))) = Elems(consumed[n][k]) \union {Head(queue[n][k])}
    BY <2>2, ElemsOfAppend
  <2>5. \A nn \in Nodes, kk \in Kinds :
          /\ queue'[nn][kk] = IF nn = n /\ kk = k THEN Tail(queue[n][k]) ELSE queue[nn][kk]
          /\ consumed'[nn][kk] = IF nn = n /\ kk = k THEN Append(consumed[n][k], Head(queue[n][k]))
                                                     ELSE consumed[nn][kk]
    BY <2>1 DEF TypeOK
  <2>6. \A nn \in Nodes, kk \in Kinds :
          Elems(queue'[nn][kk]) \union Elems(consumed'[nn][kk]) \union Elems(accepted'[nn][kk]) \subseteq published'
    BY <2>1, <2>3, <2>4, <2>5 DEF Placed
  <2>7. \A nn \in Nodes : Overflow(nn)' = Overflow(nn)
    BY <2>1 DEF Overflow, Elems
  <2> QED BY <2>1, <2>6, <2>7 DEF Placed, Elems
<1>3. ASSUME NEW n \in Nodes, ConsumeDeadLetter(n)
      PROVE  Placed'
  <2>1. UNCHANGED <<queue, listener, pending, published, accepted, consumed>>
    BY <1>3 DEF ConsumeDeadLetter
  <2>2. \A nn \in Nodes : Overflow(nn)' = Overflow(nn)
    BY <1>3, DeadLetterKeepsOverflow
  <2> QED BY <2>1, <2>2 DEF Placed, Elems
<1>4. CASE UNCHANGED vars
  BY <1>4 DEF vars, Placed, Overflow, Elems
<1> QED BY <1>1, <1>2, <1>3, <1>4, LocalSteps

\* Every published message is in exactly one place: publish_* neither loses one
\* nor lets it both into the queue and into the dead letter queue, also when
\* both are full.
THEOREM NothingLostOrDoubled == Spec => [](NoSilentLoss /\ NoDuplicate)
<1>1. Init => PlacedInv /\ NoSilentLoss /\ NoDuplicate
  BY DEF Init, PlacedInv, Placed, NoSilentLoss, NoDuplicate, Overflow, Elems
<1>2. ASSUME TypeOK, PlacedInv, NoSilentLoss, NoDuplicate, [Next]_vars
      PROVE  PlacedInv' /\ NoSilentLoss' /\ NoDuplicate'
  <2> SUFFICES ASSUME ~Redis
               PROVE  Placed' /\ NoSilentLoss' /\ NoDuplicate'
    BY DEF PlacedInv, NoSilentLoss, NoDuplicate
  <2>0. Placed /\ Placed'
    BY <1>2, PlacedStep DEF PlacedInv
  <2>1. ASSUME NEW n \in Nodes, NEW e \in Entries, LocalPublish(n, e)
        PROVE  NoSilentLoss' /\ NoDuplicate'
    <3> PICK k \in Kinds, m \in Msgs : e = <<k, m>>
      BY DEF Entries
    <3>1. published' = published \union {m} /\ m \notin published
      BY <2>1 DEF LocalPublish
    <3>2. CASE Full(queue[n][k])
      <4>1. /\ UNCHANGED <<queue, accepted>>
            /\ \A nn \in Nodes : Overflow(nn)' = IF nn = n THEN Overflow(nn) \union {<<k, m>>} ELSE Overflow(nn)
        BY <1>2, <2>1, <3>2, LocalPublishPlaces
      <4>2. \A nn \in Nodes, kk \in Kinds, x \in Msgs : Landed(nn, <<kk, x>>) => Landed(nn, <<kk, x>>)'
        BY <4>1 DEF Landed, Elems
      <4>3. Landed(n, <<k, m>>)'
        BY <4>1 DEF Landed
      <4>4. NoSilentLoss'
        BY <1>2, <3>1, <4>2, <4>3 DEF NoSilentLoss, TypeOK
      <4>5. \A nn \in Nodes, kk \in Kinds : m \notin Elems(accepted[nn][kk])
        BY <2>0, <3>1 DEF Placed
      <4>6. NoDuplicate'
        BY <1>2, <4>1, <4>5 DEF NoDuplicate, Elems
      <4> QED BY <4>4, <4>6
    <3>3. CASE ~Full(queue[n][k])
      <4>1. /\ \A nn \in Nodes, kk \in Kinds :
                  accepted'[nn][kk] = IF nn = n /\ kk = k THEN Append(accepted[n][k], m) ELSE accepted[nn][kk]
            /\ \A nn \in Nodes : Overflow(nn)' = Overflow(nn)
        BY <1>2, <2>1, <3>3, LocalPublishPlaces
      <4>2. Elems(Append(accepted[n][k], m)) = Elems(accepted[n][k]) \union {m}
        BY <1>2, ElemsOfAppend DEF TypeOK
      <4>3. \A nn \in Nodes, kk \in Kinds :
              Elems(accepted'[nn][kk]) = IF nn = n /\ kk = k THEN Elems(accepted[n][k]) \union {m}
                                                             ELSE Elems(accepted[nn][kk])
        BY <4>1, <4>2
      <4>4. \A nn \in Nodes, kk \in Kinds, x \in Msgs : Landed(nn, <<kk, x>>) => Landed(nn, <<kk, x>>)'
        <5>1. \A nn \in Nodes, kk \in Kinds, x \in Msgs :
                Landed(nn, <<kk, x>>)' <=> x \in Elems(accepted'[nn][kk]) \/ <<kk, x>> \in Overflow(nn)'
          BY DEF Landed, Elems
        <5>2. \A nn \in Nodes, kk \in Kinds, x \in Msgs :
                Landed(nn, <<kk, x>>) <=> x \in Elems(accepted[nn][kk]) \/ <<kk, x>> \in Overflow(nn)
          BY DEF Landed
        <5> QED BY <4>1, <4>3, <5>1, <5>2
      <4>5. Landed(n, <<k, m>>)'
        <5>1. m \in Elems(accepted'[n][k])
          BY <4>3
        <5> QED BY <5>1 DEF Landed, Elems
      <4>6. NoSilentLoss'
        BY <1>2, <3>1, <4>4, <4>5 DEF NoSilentLoss, TypeOK
      <4>7. \A nn \in Nodes : m \notin Elems(accepted[nn][k]) /\ <<k, m>> \notin Overflow(nn)
        BY <2>0, <3>1 DEF Placed
      <4>8. ASSUME NEW nn \in Nodes, NEW kk \in Kinds
            PROVE  /\ \A i, j \in DOMAIN accepted'[nn][kk] :
                         accepted'[nn][kk][i] = accepted'[nn][kk][j] => i = j
                   /\ \A x \in Elems(accepted'[nn][kk]) : <<kk, x>> \notin Overflow(nn)'
        <5>1. \A x \in Elems(accepted'[nn][kk]) : <<kk, x>> \notin Overflow(nn)'
          BY <1>2, <4>1, <4>3, <4>7 DEF NoDuplicate
        <5>2. CASE ~(nn = n /\ kk = k)
          BY <1>2, <4>1, <5>1, <5>2 DEF NoDuplicate
        <5>3. CASE nn = n /\ kk = k
          <6> DEFINE s == accepted[n][k]
          <6>0. s \in Seq(Msgs)
            BY <1>2 DEF TypeOK
          <6>1. s \in Seq(Msgs) /\ Len(s) \in Nat /\ DOMAIN s = 1 .. Len(s)
            <7> HIDE DEF s
            <7> QED BY <6>0
          <6>2. \A i, j \in DOMAIN s : s[i] = s[j] => i = j
            BY <1>2 DEF NoDuplicate
          <6>3. \A i \in DOMAIN s : s[i] # m
            BY <4>7 DEF Elems
          <6>4. accepted'[nn][kk] = Append(s, m)
            BY <4>1, <5>3
          <6> HIDE DEF s
          <6>5. DOMAIN Append(s, m) = 1 .. Len(s) + 1 /\ Append(s, m)[Len(s) + 1] = m
            BY <6>1
          <6>6. \A i \in 1 .. Len(s) : Append(s, m)[i] = s[i]
            BY <6>1
          <6>7. \A i, j \in 1 .. Len(s) + 1 : Append(s, m)[i] = Append(s, m)[j] => i = j
            BY <6>1, <6>2, <6>3, <6>5, <6>6
          <6> QED BY <5>1, <6>4, <6>5, <6>7
        <5> QED BY <5>2, <5>3
      <4>9. NoDuplicate'
        BY <4>8 DEF NoDuplicate, Elems
      <4> QED BY <4>6, <4>9
    <3> QED BY <3>2, <3>3
  <2>2. ASSUME accepted' = accepted, published' = published, \A nn \in Nodes : Overflow(nn)' = Overflow(nn)
        PROVE  NoSilentLoss' /\ NoDuplicate'
    <3>1. \A nn \in Nodes, kk \in Kinds, x \in Msgs : Landed(nn, <<kk, x>>) => Landed(nn, <<kk, x>>)'
      BY <2>2 DEF Landed, Elems
    <3>2. NoSilentLoss'
      BY <1>2, <2>2, <3>1 DEF NoSilentLoss, TypeOK
    <3>3. NoDuplicate'
      BY <1>2, <2>2 DEF NoDuplicate, Elems
    <3> QED BY <3>2, <3>3
  <2>3. ASSUME NEW n \in Nodes, NEW k \in Kinds, Consume(n, k)
        PROVE  NoSilentLoss' /\ NoDuplicate'
    <3>1. \A nn \in Nodes : Overflow(nn)' = Overflow(nn)
      BY <2>3 DEF Consume, Overflow, Elems
    <3> QED BY <2>2, <2>3, <3>1 DEF Consume
  <2>4. ASSUME NEW n \in Nodes, ConsumeDeadLetter(n)
        PROVE  NoSilentLoss' /\ NoDuplicate'
    <3>1. \A nn \in Nodes : Overflow(nn)' = Overflow(nn)
      BY <1>2, <2>4, DeadLetterKeepsOverflow
    <3> QED BY <2>2, <2>4, <3>1 DEF ConsumeDeadLetter
  <2>5. CASE UNCHANGED vars
    <3>1. \A nn \in Nodes : Overflow(nn)' = Overflow(nn)
      BY <2>5 DEF vars, Overflow, Elems
    <3>2. accepted' = accepted /\ published' = published
      BY <2>5 DEF vars
    <3> QED BY <2>0, <2>2, <3>1, <3>2
  <2> QED BY <1>2, <2>0, <2>1, <2>3, <2>4, <2>5, LocalSteps
<1> QED BY <1>1, <1>2, TypeCorrect, PTL DEF Spec

\* The mailbox's variables under the refinement mapping.
waitingBar == [b \in Nodes \X Kinds |-> queue[b[1]][b[2]]]
receivedBar == [b \in Nodes \X Kinds |-> consumed[b[1]][b[2]]]
asideBar == {e[2] : e \in UNION {Overflow(n) : n \in Nodes}}

\* A box is a node and a kind.
LEMMA BoxParts ==
  ASSUME NEW n \in Nodes, NEW k \in Kinds, NEW c \in Nodes \X Kinds
  PROVE  c[1] \in Nodes /\ c[2] \in Kinds /\ (c = <<n, k>> <=> (c[1] = n /\ c[2] = k))
<1>1. c[1] \in Nodes /\ c[2] \in Kinds /\ c = <<c[1], c[2]>>
  OBVIOUS
<1> QED BY <1>1

\* A message that was not published is not in the mailbox.
LEMMA UnpublishedIsNew ==
  ASSUME Placed, NEW m, m \notin published
  PROVE  m \notin Mail!Posted
<1>1. m \notin asideBar
  BY DEF Placed, asideBar
<1>2. ASSUME NEW b \in Nodes \X Kinds
      PROVE  m \notin Mail!Contents(waitingBar[b]) \union Mail!Contents(receivedBar[b])
  <2>1. b[1] \in Nodes /\ b[2] \in Kinds
    OBVIOUS
  <2>2. m \notin Elems(queue[b[1]][b[2]]) \union Elems(consumed[b[1]][b[2]])
    BY <2>1 DEF Placed
  <2>3. waitingBar[b] = queue[b[1]][b[2]] /\ receivedBar[b] = consumed[b[1]][b[2]]
    BY DEF waitingBar, receivedBar
  <2> QED BY <2>2, <2>3 DEF Mail!Contents, Elems
<1> QED BY <1>1, <1>2 DEF Mail!Posted, asideBar, waitingBar, receivedBar

\* Without Redis, every step of the bus is a step of the mailbox or changes
\* nothing its users see.
LEMMA StepsImplementMailbox ==
  ASSUME TypeOK, ~Redis, Placed, [Next]_vars
  PROVE  [Mail!Next]_(Mail!mailVars)
<1>1. ASSUME NEW n \in Nodes, NEW e \in Entries, LocalPublish(n, e)
      PROVE  Mail!Next
  <2> PICK k \in Kinds, m \in Msgs : e = <<k, m>>
    BY DEF Entries
  <2> DEFINE b == <<n, k>>
  <2>0. b \in Nodes \X Kinds /\ b[1] = n /\ b[2] = k
    OBVIOUS
  <2>1. m \notin Mail!Posted
    BY <1>1, UnpublishedIsNew DEF LocalPublish
  <2>2. UNCHANGED consumed
    BY <1>1 DEF LocalPublish
  <2>3. receivedBar' = receivedBar
    BY <2>2 DEF receivedBar
  <2>4. waitingBar[b] = queue[n][k]
    BY <2>0 DEF waitingBar
  <2>5. Len(queue[n][k]) \in Nat
    BY DEF TypeOK
  <2>6. Full(queue[n][k]) <=> ~(MaxSize = 0 \/ Len(waitingBar[b]) < MaxSize)
    BY <2>4, <2>5, BusAssumption DEF Full
  <2>7. CASE Full(queue[n][k])
    <3>1. /\ UNCHANGED <<queue, accepted>>
          /\ \A nn \in Nodes : Overflow(nn)' = IF nn = n THEN Overflow(nn) \union {<<k, m>>} ELSE Overflow(nn)
      BY <1>1, <2>7, LocalPublishPlaces
    <3>2. waitingBar' = waitingBar
      BY <3>1 DEF waitingBar
    <3>3. asideBar' = asideBar \union {m}
      BY <3>1 DEF asideBar
    <3>4. Mail!SetAside(b, m)
      BY <2>1, <2>3, <2>6, <2>7, <3>2, <3>3
      DEF Mail!SetAside, Mail!HasRoom, waitingBar, receivedBar, asideBar
    <3> QED BY <2>0, <3>4 DEF Mail!Next
  <2>8. CASE ~Full(queue[n][k])
    <3>1. /\ \A nn \in Nodes, kk \in Kinds :
                queue'[nn][kk] = IF nn = n /\ kk = k THEN Append(queue[n][k], m) ELSE queue[nn][kk]
          /\ \A nn \in Nodes : Overflow(nn)' = Overflow(nn)
      BY <1>1, <2>8, LocalPublishPlaces
    <3>2. waitingBar' = [waitingBar EXCEPT ![b] = Append(waitingBar[b], m)]
      <4>1. \A c \in Nodes \X Kinds :
              queue'[c[1]][c[2]] = IF c = b THEN Append(queue[n][k], m) ELSE queue[c[1]][c[2]]
        BY <3>1, BoxParts
      <4>2. waitingBar' = [c \in Nodes \X Kinds |-> queue'[c[1]][c[2]]]
        BY DEF waitingBar
      <4> HIDE DEF b
      <4>3. waitingBar' = [waitingBar EXCEPT ![b] = Append(queue[n][k], m)]
        BY <4>1, <4>2 DEF waitingBar
      <4> QED BY <4>3, <2>4
    <3>3. asideBar' = asideBar
      BY <3>1 DEF asideBar
    <3>4. Mail!Post(b, m)
      BY <2>1, <2>3, <2>6, <2>8, <3>2, <3>3
      DEF Mail!Post, Mail!HasRoom, waitingBar, receivedBar, asideBar
    <3> QED BY <2>0, <3>4 DEF Mail!Next
  <2> QED BY <2>7, <2>8
<1>2. ASSUME NEW n \in Nodes, NEW k \in Kinds, Consume(n, k)
      PROVE  Mail!Next
  <2> DEFINE b == <<n, k>>
  <2>0. b \in Nodes \X Kinds /\ b[1] = n /\ b[2] = k
    OBVIOUS
  <2>1. /\ queue[n][k] # <<>>
        /\ queue' = [queue EXCEPT ![n][k] = Tail(queue[n][k])]
        /\ consumed' = [consumed EXCEPT ![n][k] = Append(consumed[n][k], Head(queue[n][k]))]
        /\ UNCHANGED <<dlq, deadTaken, dropped>>
    BY <1>2 DEF Consume
  <2>2. \A nn \in Nodes, kk \in Kinds :
          /\ queue'[nn][kk] = IF nn = n /\ kk = k THEN Tail(queue[n][k]) ELSE queue[nn][kk]
          /\ consumed'[nn][kk] = IF nn = n /\ kk = k THEN Append(consumed[n][k], Head(queue[n][k]))
                                                     ELSE consumed[nn][kk]
    BY <2>1 DEF TypeOK
  <2>3. waitingBar[b] = queue[n][k] /\ receivedBar[b] = consumed[n][k]
    BY <2>0 DEF waitingBar, receivedBar
  <2>4. waitingBar' = [waitingBar EXCEPT ![b] = Tail(waitingBar[b])]
    <3>1. \A c \in Nodes \X Kinds :
            queue'[c[1]][c[2]] = IF c = b THEN Tail(queue[n][k]) ELSE queue[c[1]][c[2]]
      BY <2>2, BoxParts
    <3>2. waitingBar' = [c \in Nodes \X Kinds |-> queue'[c[1]][c[2]]]
      BY DEF waitingBar
    <3> HIDE DEF b
    <3>3. waitingBar' = [waitingBar EXCEPT ![b] = Tail(queue[n][k])]
      BY <3>1, <3>2 DEF waitingBar
    <3> QED BY <3>3, <2>3
  <2>5. receivedBar' = [receivedBar EXCEPT ![b] = Append(receivedBar[b], Head(waitingBar[b]))]
    <3>1. \A c \in Nodes \X Kinds :
            consumed'[c[1]][c[2]] = IF c = b THEN Append(consumed[n][k], Head(queue[n][k])) ELSE consumed[c[1]][c[2]]
      BY <2>2, BoxParts
    <3>2. receivedBar' = [c \in Nodes \X Kinds |-> consumed'[c[1]][c[2]]]
      BY DEF receivedBar
    <3> HIDE DEF b
    <3>3. receivedBar' = [receivedBar EXCEPT ![b] = Append(consumed[n][k], Head(queue[n][k]))]
      BY <3>1, <3>2 DEF receivedBar
    <3> QED BY <3>3, <2>3
  <2>6. asideBar' = asideBar
    BY <2>1 DEF asideBar, Overflow, Elems
  <2>7. Mail!Receive(b)
    BY <2>1, <2>3, <2>4, <2>5, <2>6 DEF Mail!Receive, waitingBar, receivedBar, asideBar
  <2> QED BY <2>0, <2>7 DEF Mail!Next
<1>3. ASSUME NEW n \in Nodes, ConsumeDeadLetter(n)
      PROVE  UNCHANGED Mail!mailVars
  <2>1. UNCHANGED <<queue, consumed>>
    BY <1>3 DEF ConsumeDeadLetter
  <2>2. \A nn \in Nodes : Overflow(nn)' = Overflow(nn)
    BY <1>3, DeadLetterKeepsOverflow
  <2>3. waitingBar' = waitingBar /\ receivedBar' = receivedBar
    BY <2>1 DEF waitingBar, receivedBar
  <2>4. asideBar' = asideBar
    BY <2>2 DEF asideBar
  <2> QED BY <2>3, <2>4 DEF Mail!mailVars, waitingBar, receivedBar, asideBar
<1>4. CASE UNCHANGED vars
  <2>1. waitingBar' = waitingBar /\ receivedBar' = receivedBar
    BY <1>4 DEF vars, waitingBar, receivedBar
  <2>2. asideBar' = asideBar
    BY <1>4 DEF vars, asideBar, Overflow, Elems
  <2> QED BY <2>1, <2>2 DEF Mail!mailVars, waitingBar, receivedBar, asideBar
<1> QED BY <1>1, <1>2, <1>3, <1>4, LocalSteps

\* A bus without Redis implements the mailbox, for every number of nodes and
\* messages and every capacity: the queues, the dead letter queue and the count
\* of what was dropped are one promise to the callers of publish_* and
\* consume_*.
THEOREM BusImplementsMailbox ==
  ASSUME ~Redis
  PROVE  Spec => ImplementsMailbox
<1>1. Init => PlacedInv
  BY DEF Init, PlacedInv, Placed, Overflow, Elems
<1>2. TypeOK /\ PlacedInv /\ [Next]_vars => PlacedInv'
  BY PlacedStep DEF PlacedInv
<1>3. Spec => []PlacedInv
  BY <1>1, <1>2, TypeCorrect, PTL DEF Spec
<1>4. Init => Mail!Init
  <2> SUFFICES ASSUME Init
               PROVE  Mail!Init
    OBVIOUS
  <2>1. waitingBar = [b \in Nodes \X Kinds |-> <<>>] /\ receivedBar = [b \in Nodes \X Kinds |-> <<>>]
    BY DEF Init, waitingBar, receivedBar
  <2>2. \A n \in Nodes : Overflow(n) = {}
    <3>1. Elems(<<>>) = {}
      BY DEF Elems
    <3> QED BY <3>1 DEF Init, Overflow
  <2>3. asideBar = {}
    BY <2>2 DEF asideBar
  <2> QED BY <2>1, <2>3 DEF Mail!Init, waitingBar, receivedBar, asideBar
<1>5. TypeOK /\ PlacedInv /\ [Next]_vars => [Mail!Next]_(Mail!mailVars)
  BY StepsImplementMailbox DEF PlacedInv
<1> QED
  BY <1>3, <1>4, <1>5, TypeCorrect, PTL DEF Spec, ImplementsMailbox, Mail!Spec

=============================================================================
