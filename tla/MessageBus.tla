----------------------------- MODULE MessageBus -----------------------------
(***************************************************************************)
(* The asynchronous message bus of bus/queue.py: three bounded queues      *)
(* (inbound, outbound, system events), a bounded dead letter queue, and    *)
(* the optional Redis Pub/Sub bridge.  Every node of a deployment owns one *)
(* MessageBus; with Redis configured a publication goes to every node      *)
(* whose listener is subscribed.                                           *)
(*                                                                         *)
(* The code is asyncio: a step of this model is what a coroutine does      *)
(* between two suspension points.  `queue.full()` followed by              *)
(* `await queue.put()` does not suspend (the queue has room), so the local *)
(* enqueue is one step; `await client.publish(...)` does suspend.          *)
(***************************************************************************)
EXTENDS Naturals, Sequences

CONSTANTS
    Nodes,      \* processes of the deployment, one MessageBus each
    Msgs,       \* messages, told apart by identity only
    MaxSize,    \* the maxsize argument of MessageBus.__init__
    Redis,      \* TRUE iff get_redis() returns a client
    MaxBacklog, \* bound: Pub/Sub deliveries waiting at one node
    MaxFailures \* bound: Redis failures (publications, connections) in a behaviour

ASSUME BusAssumption ==
    /\ MaxSize \in Nat
    /\ MaxBacklog \in Nat
    /\ MaxFailures \in Nat
    /\ Redis \in BOOLEAN

VARIABLES
    queue,      \* queue[n][k]: the asyncio.Queue of kind k at node n
    dlq,        \* dlq[n]: dead_letter_queue, entries <<kind, message>>
    listener,   \* listener[n]: state of _listener_task
    backlog,    \* backlog[n]: deliveries the Redis listener has not read
    pending,    \* pending[n]: publications awaiting the Redis client
    published,  \* messages some producer has published
    failures,   \* Redis failures so far
    \* History: what the queues accepted and what was taken out of them.
    accepted,   \* accepted[n][k]: sequence of messages put in queue[n][k]
    consumed,   \* consumed[n][k]: sequence of messages got from queue[n][k]
    deadTaken,  \* deadTaken[n]: sequence of entries got from dlq[n]
    dropped     \* dropped[n]: entries lost because dlq[n] was full

vars == <<queue, dlq, listener, backlog, pending, published, failures,
          accepted, consumed, deadTaken, dropped>>

Kinds == {"inbound", "outbound", "system_events"}

Entries == Kinds \X Msgs

\* by = "producer": a publish_* call of the program; "listener": the same call
\* made by _redis_listener_loop for a message it read from Redis.
Publications == [by : {"producer", "listener"}, entry : Entries]

ListenerStates == {"none", "starting", "listening", "done"}

-----------------------------------------------------------------------------

\* Mutant: the capacity test is off by one.
FullOffByOne(q) == MaxSize > 0 /\ Len(q) > MaxSize

\* Mutant: the last place of a queue is never used.
FullEarly(q) == MaxSize > 0 /\ Len(q) + 1 >= MaxSize

\* asyncio.Queue.full(): a maxsize of 0 means unbounded.
Full(q) == MaxSize > 0 /\ Len(q) >= MaxSize

Init ==
    /\ queue = [n \in Nodes |-> [k \in Kinds |-> <<>>]]
    /\ dlq = [n \in Nodes |-> <<>>]
    /\ listener = [n \in Nodes |-> "none"]
    /\ backlog = [n \in Nodes |-> <<>>]
    /\ pending = [n \in Nodes |-> {}]
    /\ published = {}
    /\ failures = 0
    /\ accepted = [n \in Nodes |-> [k \in Kinds |-> <<>>]]
    /\ consumed = [n \in Nodes |-> [k \in Kinds |-> <<>>]]
    /\ deadTaken = [n \in Nodes |-> <<>>]
    /\ dropped = [n \in Nodes |-> {}]

\* _ensure_redis_listener: start the task if there is none or it has ended.
EnsureListener(n) ==
    listener' = IF Redis /\ listener[n] \in {"none", "done"}
                THEN [listener EXCEPT ![n] = "starting"]
                ELSE listener

\* Mutant: an overflowing message is discarded when the dead letter queue is
\* full, without being counted.
PushToDlqUncounted(n, e) ==
    /\ dlq' = IF Full(dlq[n]) THEN dlq ELSE [dlq EXCEPT ![n] = Append(@, e)]
    /\ UNCHANGED dropped

\* Mutant: the dead letter queue gets the message without its kind.
PushToDlqBare(n, e) ==
    IF Full(dlq[n])
    THEN /\ dropped' = [dropped EXCEPT ![n] = @ \union {e}]
         /\ UNCHANGED dlq
    ELSE /\ dlq' = [dlq EXCEPT ![n] = Append(@, e[2])]
         /\ UNCHANGED dropped

\* _push_to_dlq: put_nowait, or count the message as dropped on QueueFull.
PushToDlq(n, e) ==
    IF Full(dlq[n])
    THEN /\ dropped' = [dropped EXCEPT ![n] = @ \union {e}]
         /\ UNCHANGED dlq
    ELSE /\ dlq' = [dlq EXCEPT ![n] = Append(@, e)]
         /\ UNCHANGED dropped

\* Mutant: the missing `else`, an overflowing message is dead-lettered and
\* enqueued.
PutLocalTwice(n, e) ==
    /\ IF Full(queue[n][e[1]])
       THEN PushToDlq(n, e)
       ELSE UNCHANGED <<dlq, dropped>>
    /\ queue' = [queue EXCEPT ![n][e[1]] = Append(@, e[2])]
    /\ accepted' = [accepted EXCEPT ![n][e[1]] = Append(@, e[2])]

\* The tail of publish_inbound, publish_outbound and publish_system_event.
PutLocal(n, e) ==
    IF Full(queue[n][e[1]])
    THEN /\ PushToDlq(n, e)
         /\ UNCHANGED <<queue, accepted>>
    ELSE /\ queue' = [queue EXCEPT ![n][e[1]] = Append(@, e[2])]
         /\ accepted' = [accepted EXCEPT ![n][e[1]] = Append(@, e[2])]
         /\ UNCHANGED <<dlq, dropped>>

\* publish_*(msg) called by the program, up to its first suspension: without
\* a Redis client the message is enqueued at once, with one it is handed to
\* the client and the caller waits.
Publish(n, e) ==
    /\ e[2] \notin published
    /\ published' = published \union {e[2]}
    /\ EnsureListener(n)
    /\ IF Redis
       THEN /\ pending' = [pending EXCEPT ![n] = @ \union {[by |-> "producer", entry |-> e]}]
            /\ UNCHANGED <<queue, dlq, accepted, dropped>>
       ELSE /\ PutLocal(n, e)
            /\ UNCHANGED pending
    /\ UNCHANGED <<backlog, failures, consumed, deadTaken>>

\* What the Redis server does with a PUBLISH: every subscribed listener gets
\* the message, a node that is not subscribed never sees it.
Broadcast(e) ==
    /\ \A m \in Nodes : listener[m] = "listening" => Len(backlog[m]) < MaxBacklog
    /\ backlog' = [m \in Nodes |-> IF listener[m] = "listening"
                                   THEN Append(backlog[m], e) ELSE backlog[m]]

\* `await pub_res` returns: publish_* returns without touching a local queue.
PublishOk(n, p) ==
    /\ p \in pending[n]
    /\ Broadcast(p.entry)
    /\ pending' = [pending EXCEPT ![n] = @ \ {p}]
    /\ UNCHANGED <<queue, dlq, listener, published, failures,
                   accepted, consumed, deadTaken, dropped>>

\* `await pub_res` raises: the message is enqueued locally.  The exception may
\* come after the server has acted on the command (a lost reply).
PublishFail(n, p) ==
    /\ p \in pending[n]
    /\ failures < MaxFailures
    /\ pending' = [pending EXCEPT ![n] = @ \ {p}]
    /\ PutLocal(n, p.entry)
    /\ Broadcast(p.entry) \/ UNCHANGED backlog
    /\ failures' = failures + 1
    /\ UNCHANGED <<listener, published, consumed, deadTaken>>

\* _redis_listener_loop: subscribe to the three channels.
Subscribe(n) ==
    /\ listener[n] = "starting"
    /\ listener' = [listener EXCEPT ![n] = "listening"]
    /\ UNCHANGED <<queue, dlq, backlog, pending, published, failures,
                   accepted, consumed, deadTaken, dropped>>

\* _redis_listener_loop: read a delivery and call publish_* with it.  The
\* client is there, so the call hands the message back to Redis; the loop
\* reads no further delivery until that call returns.
ListenerRead(n) ==
    /\ listener[n] = "listening"
    /\ \A p \in pending[n] : p.by # "listener"
    /\ backlog[n] # <<>>
    /\ pending' = [pending EXCEPT ![n] =
                     @ \union {[by |-> "listener", entry |-> Head(backlog[n])]}]
    /\ backlog' = [backlog EXCEPT ![n] = Tail(@)]
    /\ UNCHANGED <<queue, dlq, listener, published, failures,
                   accepted, consumed, deadTaken, dropped>>

\* _redis_listener_loop: the connection breaks or the task is cancelled
\* while it waits for a delivery; `finally` unsubscribes, what was in flight
\* is lost.  The next publish or consume call starts a new listener.
ListenerEnds(n) ==
    /\ listener[n] \in {"starting", "listening"}
    /\ \A p \in pending[n] : p.by # "listener"
    /\ failures < MaxFailures
    /\ failures' = failures + 1
    /\ listener' = [listener EXCEPT ![n] = "done"]
    /\ backlog' = [backlog EXCEPT ![n] = <<>>]
    /\ UNCHANGED <<queue, dlq, pending, published, accepted, consumed, deadTaken, dropped>>

\* Mutant: the newest message is taken instead of the oldest.
ConsumeNewest(n, k) ==
    /\ queue[n][k] # <<>>
    /\ EnsureListener(n)
    /\ queue' = [queue EXCEPT ![n][k] = SubSeq(@, 1, Len(@) - 1)]
    /\ consumed' = [consumed EXCEPT ![n][k] = Append(@, queue[n][k][Len(queue[n][k])])]
    /\ UNCHANGED <<dlq, backlog, pending, published, failures,
                   accepted, deadTaken, dropped>>

\* Mutant: a full queue is never drained (the consumer waits for room).
ConsumeNotFull(n, k) ==
    /\ queue[n][k] # <<>>
    /\ ~Full(queue[n][k])
    /\ EnsureListener(n)
    /\ queue' = [queue EXCEPT ![n][k] = Tail(@)]
    /\ consumed' = [consumed EXCEPT ![n][k] = Append(@, Head(queue[n][k]))]
    /\ UNCHANGED <<dlq, backlog, pending, published, failures,
                   accepted, deadTaken, dropped>>

\* consume_*: ensure the listener, then wait for and take the oldest message.
Consume(n, k) ==
    /\ queue[n][k] # <<>>
    /\ EnsureListener(n)
    /\ queue' = [queue EXCEPT ![n][k] = Tail(@)]
    /\ consumed' = [consumed EXCEPT ![n][k] = Append(@, Head(queue[n][k]))]
    /\ UNCHANGED <<dlq, backlog, pending, published, failures,
                   accepted, deadTaken, dropped>>

\* consume_* on an empty queue: the listener is started and the caller waits
\* (the agent loop and the dispatcher give up after a second and call again).
ConsumeWait(n, k) ==
    /\ queue[n][k] = <<>>
    /\ EnsureListener(n)
    /\ UNCHANGED <<queue, dlq, backlog, pending, published, failures,
                   accepted, consumed, deadTaken, dropped>>

\* consume_dead_letter_queue.
ConsumeDeadLetter(n) ==
    /\ dlq[n] # <<>>
    /\ dlq' = [dlq EXCEPT ![n] = Tail(@)]
    /\ deadTaken' = [deadTaken EXCEPT ![n] = Append(@, Head(dlq[n]))]
    /\ UNCHANGED <<queue, listener, backlog, pending, published, failures,
                   accepted, consumed, dropped>>

Next ==
    \/ \E n \in Nodes, e \in Entries : Publish(n, e)
    \/ \E n \in Nodes, p \in Publications : PublishOk(n, p)
    \/ \E n \in Nodes, p \in Publications : PublishFail(n, p)
    \/ \E n \in Nodes : Subscribe(n)
    \/ \E n \in Nodes : ListenerRead(n)
    \/ \E n \in Nodes : ListenerEnds(n)
    \/ \E n \in Nodes, k \in Kinds : Consume(n, k)
    \/ \E n \in Nodes, k \in Kinds : ConsumeWait(n, k)
    \/ \E n \in Nodes : ConsumeDeadLetter(n)

Spec == Init /\ [][Next]_vars

\* The consumers run for the life of the process (AgentLoop.run,
\* ChannelManager._dispatch_outbound and the supervisor's event listener poll
\* for ever), the event loop resumes a coroutine whose awaited call returned,
\* and the listener task runs as long as its connection lasts.
Fairness ==
    /\ \A n \in Nodes, k \in Kinds : WF_vars(Consume(n, k))
    /\ \A n \in Nodes : WF_vars(\E p \in Publications : PublishOk(n, p))
    /\ \A n \in Nodes : WF_vars(Subscribe(n)) /\ WF_vars(ListenerRead(n))

FairSpec == Spec /\ Fairness

-----------------------------------------------------------------------------
(* Properties *)

TypeOK ==
    /\ queue \in [Nodes -> [Kinds -> Seq(Msgs)]]
    /\ dlq \in [Nodes -> Seq(Entries)]
    /\ listener \in [Nodes -> ListenerStates]
    /\ backlog \in [Nodes -> Seq(Entries)]
    /\ pending \in [Nodes -> SUBSET Publications]
    /\ published \subseteq Msgs
    /\ failures \in 0 .. MaxFailures
    /\ accepted \in [Nodes -> [Kinds -> Seq(Msgs)]]
    /\ consumed \in [Nodes -> [Kinds -> Seq(Msgs)]]
    /\ deadTaken \in [Nodes -> Seq(Entries)]
    /\ dropped \in [Nodes -> SUBSET Entries]

\* Back-pressure (MessageBus.__init__'s maxsize): no queue, the dead letter
\* queue included, ever holds more than MaxSize messages, whatever mixture of
\* producers, failed Redis publications and consumers is running.
Bounded ==
    MaxSize > 0 =>
        \A n \in Nodes : /\ \A k \in Kinds : Len(queue[n][k]) <= MaxSize
                         /\ Len(dlq[n]) <= MaxSize

\* Each queue is FIFO and loses nothing once put() succeeded: what consumers
\* got, followed by what is still queued, is exactly what was accepted.
Fifo ==
    \A n \in Nodes, k \in Kinds : accepted[n][k] = consumed[n][k] \o queue[n][k]

Elems(s) == {s[i] : i \in DOMAIN s}

\* What did not fit into a queue of node n: in the dead letter queue, taken
\* from it, or counted as dropped because it was full too.
Overflow(n) == Elems(dlq[n]) \union Elems(deadTaken[n]) \union dropped[n]

\* Where a published message can be accounted for at node n: accepted by its
\* queue, in the dead letter queue or taken from it, or counted as dropped.
Landed(n, e) ==
    \/ e[2] \in Elems(accepted[n][e[1]])
    \/ e \in Overflow(n)

\* Without Redis no publication vanishes: every published message landed in
\* its queue, in the dead letter queue, or was counted as dropped.
NoSilentLoss ==
    ~Redis => \A m \in published : \E n \in Nodes, k \in Kinds : Landed(n, <<k, m>>)

\* Without Redis a message that landed did so once: the dead letter path
\* never duplicates what the queue accepted and no message is accepted twice.
NoDuplicate ==
    ~Redis =>
        \A n \in Nodes, k \in Kinds :
            /\ \A i, j \in DOMAIN accepted[n][k] :
                   accepted[n][k][i] = accepted[n][k][j] => i = j
            /\ \A m \in Elems(accepted[n][k]) : <<k, m>> \notin Overflow(n)

\* The bus as its callers see it: one box per node and kind.
Mail == INSTANCE Mailbox WITH
    Boxes <- Nodes \X Kinds,
    Letters <- Msgs,
    Room <- MaxSize,
    waiting <- [b \in Nodes \X Kinds |-> queue[b[1]][b[2]]],
    received <- [b \in Nodes \X Kinds |-> consumed[b[1]][b[2]]],
    aside <- {e[2] : e \in UNION {Overflow(n) : n \in Nodes}}

\* Without Redis the bus implements the mailbox: whatever the interleaving of
\* publish_*, consume_* and consume_dead_letter_queue, a message is received
\* once and in order, and is set aside only if its queue was full.
ImplementsMailbox == Mail!Spec

\* An accepted message reaches a consumer: the consumers keep polling.
AcceptedIsConsumed ==
    \A n \in Nodes, k \in Kinds, m \in Msgs :
        (m \in Elems(queue[n][k])) ~> (m \in Elems(consumed[n][k]))

\* _redis_listener_loop is documented as "reading from Redis channels and
\* placing into local queues": a delivery waiting at a node lands in some
\* local queue or dead letter queue.
DeliveryIsPlacedLocally ==
    \A n \in Nodes, e \in Entries :
        (e \in Elems(backlog[n])) ~> (\E m \in Nodes : Landed(m, e))

=============================================================================
