--------------------------- MODULE RuntimeProofs ----------------------------
(***************************************************************************)
(* Proofs about what runs around the agent loop, for every value of the    *)
(* constants. First the parts, each with its inductive invariant, that its *)
(* steps keep it, and its theorems: the outbound dispatcher                *)
(* (ChannelManager), Supervisor, Heartbeats and SubagentPool, then what    *)
(* turns use: plugins, scheduler and MCP servers (Extensions), Sandbox and *)
(* the inference proxy (Inference). Then the agent loop composed with the  *)
(* dispatcher (Conversation), and the properties of MCRuntime from those   *)
(* of the parts.                                                           *)
(***************************************************************************)
EXTENDS MCRuntime, Integers, FiniteSetTheorems, SequenceTheorems,
    WellFoundedInduction, TLAPS

-----------------------------------------------------------------------------
(* The outbound dispatcher of the channel manager *)

\* A message is in one place: sent, with the dispatcher or queued; and along
\* that way the numbers grow.
CmInOrder ==
    /\ cmLast \in 0 .. MaxOut
    /\ \A i \in DOMAIN cmQueue : cmQueue[i].id <= cmLast
    /\ \A i, j \in DOMAIN cmQueue : i < j => cmQueue[i].id < cmQueue[j].id
    /\ \A m \in cmCur : m.id <= cmLast /\ \A i \in DOMAIN cmQueue : m.id < cmQueue[i].id
    /\ \A c \in Chans : \A i \in DOMAIN cmSent[c] :
        /\ cmSent[c][i] <= cmLast
        /\ \A m \in cmCur : cmSent[c][i] < m.id
        /\ \A j \in DOMAIN cmQueue : cmSent[c][i] < cmQueue[j].id

\* The dispatcher holds at most one message, and it has ended before the first
\* channel is stopped.
CmOne ==
    /\ cmCur = {} \/ \E m \in OutMsgs : cmCur = {m}
    /\ cmCur # {} => cmTask \in {"sending", "cancelled"}
    /\ \A c \in Chans : cmChan[c] = "stopped" =>
          cmState \in {"stopping", "stopped"} /\ cmTask \in {"none", "done"}
    /\ cmState = "off" => cmTask = "none"

\* The types of the variables.
CmTypes ==
    /\ cmState \in {"off", "running", "stopping", "stopped"}
    /\ cmEnabled \subseteq Chans /\ cmChan \in [Chans -> {"off", "running", "failed", "stopped"}]
    /\ cmQueue \in Seq(OutMsgs) /\ cmCur \subseteq OutMsgs
    /\ cmTask \in {"none", "waiting", "sending", "cancelled", "done"}
    /\ cmTask \in {"waiting", "sending"} => cmState = "running"
    /\ cmSent \in [Chans -> Seq(1 .. MaxOut)] /\ cmHandled \subseteq 1 .. MaxOut

\* The inductive invariant.
CmIInv == CmTypes /\ CmOne /\ CmInOrder /\ ChannelOrder

\* The domain, the length and the elements of a sequence.
LEMMA SeqFacts ==
  ASSUME NEW S, NEW q \in Seq(S)
  PROVE  DOMAIN q = 1 .. Len(q) /\ Len(q) \in Nat /\ \A i \in DOMAIN q : q[i] \in S
  OBVIOUS

\* Before start_all nothing is queued, sent or stopped.
LEMMA CmInitInv == CmInit => CmIInv
  BY ChannelManagerAssumption DEF CmInit, CmIInv, CmTypes, CmOne, CmInOrder, ChannelOrder, OutMsgs

\* What the dispatcher hands to a channel goes behind what that channel has.
LEMMA CmGiven ==
  ASSUME CmIInv, NEW m \in cmCur,
         cmSent' = [cmSent EXCEPT ![m.chan] = Append(@, m.id)],
         cmCur' = {}, UNCHANGED <<cmQueue, cmLast>>
  PROVE  cmSent' \in [Chans -> Seq(1 .. MaxOut)] /\ CmInOrder' /\ ChannelOrder'
  <1>1. /\ m \in OutMsgs /\ m.chan \in Chans /\ m.id \in 1 .. MaxOut /\ m.id <= cmLast
        /\ cmLast \in 0 .. MaxOut
    BY DEF CmIInv, CmTypes, CmInOrder, OutMsgs
  <1>2. cmSent \in [Chans -> Seq(1 .. MaxOut)]
    BY DEF CmIInv, CmTypes
  <1>3. \A c \in Chans : cmSent'[c] = IF c = m.chan THEN Append(cmSent[c], m.id) ELSE cmSent[c]
    BY <1>1, <1>2
  <1>4. \A c \in Chans : cmSent'[c] \in Seq(1 .. MaxOut)
    <2> TAKE c \in Chans
    <2>1. cmSent[c] \in Seq(1 .. MaxOut)
      BY <1>2
    <2>2. Append(cmSent[c], m.id) \in Seq(1 .. MaxOut)
      BY <1>1, <2>1
    <2> QED BY <1>3, <2>1, <2>2
  <1>5. ASSUME NEW c \in Chans, NEW i \in DOMAIN cmSent'[c]
        PROVE  \/ i \in DOMAIN cmSent[c] /\ cmSent'[c][i] = cmSent[c][i]
               \/ i = Len(cmSent[c]) + 1 /\ cmSent'[c][i] = m.id
    BY <1>1, <1>2, <1>3, <1>5
  <1>6. \A c \in Chans : \A i \in DOMAIN cmSent[c] : i \in 1 .. Len(cmSent[c]) /\ cmSent[c][i] \in 1 .. MaxOut /\ cmSent[c][i] < m.id
    <2> TAKE c \in Chans
    <2> TAKE i \in DOMAIN cmSent[c]
    <2>1. cmSent[c] \in Seq(1 .. MaxOut)
      BY <1>2
    <2>2. DOMAIN cmSent[c] = 1 .. Len(cmSent[c]) /\ \A k \in DOMAIN cmSent[c] : cmSent[c][k] \in 1 .. MaxOut
      BY <2>1, SeqFacts
    <2> QED BY <2>2 DEF CmIInv, CmInOrder
  <1>7. ChannelOrder'
    <2> SUFFICES ASSUME NEW c \in Chans, NEW i \in DOMAIN cmSent'[c], NEW j \in DOMAIN cmSent'[c], i < j
                 PROVE cmSent'[c][i] < cmSent'[c][j]
      BY DEF ChannelOrder
    <2>1. Len(cmSent[c]) \in Nat
      BY <1>2
    <2> QED BY <1>1, <1>5, <1>6, <2>1 DEF CmIInv, ChannelOrder
  <1>8. CmInOrder'
    <2>1. ASSUME NEW c \in Chans, NEW i \in DOMAIN cmSent'[c]
          PROVE cmSent'[c][i] <= cmLast /\ \A j \in DOMAIN cmQueue : cmSent'[c][i] < cmQueue[j].id
      BY <1>1, <1>5, <2>1 DEF CmIInv, CmInOrder
    <2> QED BY <2>1 DEF CmIInv, CmInOrder
  <1>9. cmSent' \in [Chans -> Seq(1 .. MaxOut)]
    BY <1>1, <1>2, <1>4
  <1> QED BY <1>7, <1>8, <1>9

\* Every step of the manager, the dispatcher and the publishers keeps the
\* invariant.
LEMMA CmStep == CmIInv /\ [CmNext]_cmVars => CmIInv'
  <1> SUFFICES ASSUME CmIInv, [CmNext]_cmVars PROVE CmIInv'
    OBVIOUS
  <1> USE ChannelManagerAssumption
  <1>1. CASE StartAll
    BY <1>1 DEF CmIInv, CmTypes, CmOne, CmInOrder, ChannelOrder, StartAll
  <1>2. CASE StopAll
    BY <1>2 DEF CmIInv, CmTypes, CmOne, CmInOrder, ChannelOrder, StopAll
  <1>3. CASE DispatcherEnds
    <2>1. cmTask = "cancelled" /\ cmTask' = "done" /\ cmCur' = {} /\ UNCHANGED <<cmState, cmEnabled, cmShow, cmChan, cmQueue, cmLast, cmHandled>>
      BY <1>3 DEF DispatcherEnds
    <2>2. cmSent' \in [Chans -> Seq(1 .. MaxOut)] /\ CmInOrder' /\ ChannelOrder'
      <3>1. CASE cmSent' = cmSent
        BY <2>1, <3>1 DEF CmIInv, CmTypes, CmInOrder, ChannelOrder
      <3>2. ASSUME NEW m \in cmCur, cmSent' = [cmSent EXCEPT ![m.chan] = Append(@, m.id)]
            PROVE cmSent' \in [Chans -> Seq(1 .. MaxOut)] /\ CmInOrder' /\ ChannelOrder'
        BY <2>1, <3>2, CmGiven
      <3> QED BY <1>3, <3>1, <3>2 DEF DispatcherEnds
    <2> QED BY <2>1, <2>2 DEF CmIInv, CmTypes, CmOne
  <1>4. CASE Dispatch
    <2>1. cmQueue \in Seq(OutMsgs) /\ cmQueue # <<>>
      BY <1>4 DEF Dispatch, CmIInv, CmTypes
    <2>2. /\ Head(cmQueue) \in OutMsgs /\ Head(cmQueue) = cmQueue[1] /\ 1 \in DOMAIN cmQueue
          /\ Tail(cmQueue) \in Seq(OutMsgs)
          /\ \A i \in DOMAIN Tail(cmQueue) : i + 1 \in DOMAIN cmQueue /\ Tail(cmQueue)[i] = cmQueue[i + 1] /\ i \in Nat /\ i > 0
      BY <2>1
    <2>3. /\ cmQueue' = Tail(cmQueue) /\ UNCHANGED <<cmState, cmEnabled, cmShow, cmChan, cmLast, cmSent>>
          /\ cmTask = "waiting" /\ cmCur = {}
      BY <1>4 DEF Dispatch, CmIInv, CmOne
    <2>4. Head(cmQueue).id \in 1 .. MaxOut
      BY <2>2 DEF OutMsgs
    <2>5. /\ cmCur' = {} \/ cmCur' = {Head(cmQueue)}
          /\ cmCur' # {} => cmTask' = "sending"
          /\ cmTask' \in {"waiting", "sending"} /\ cmHandled' \subseteq 1 .. MaxOut
      BY <1>4, <2>3, <2>4 DEF Dispatch, CmIInv, CmTypes
    <2>6. CmTypes' /\ CmOne'
      BY <2>2, <2>3, <2>5 DEF CmIInv, CmTypes, CmOne
    <2>7. \A i \in DOMAIN cmQueue' : cmQueue'[i].id <= cmLast /\ cmQueue[1].id < cmQueue'[i].id
      BY <2>2, <2>3 DEF CmIInv, CmInOrder
    <2>8. \A i, j \in DOMAIN cmQueue' : i < j => cmQueue'[i].id < cmQueue'[j].id
      BY <2>2, <2>3 DEF CmIInv, CmInOrder
    <2>9. \A c \in Chans : \A i \in DOMAIN cmSent[c] : \A j \in DOMAIN cmQueue' : cmSent[c][i] < cmQueue'[j].id
      BY <2>2, <2>3 DEF CmIInv, CmInOrder
    <2>10. CmInOrder' /\ ChannelOrder'
      BY <2>2, <2>3, <2>5, <2>7, <2>8, <2>9 DEF CmIInv, CmInOrder, ChannelOrder
    <2> QED BY <2>6, <2>10 DEF CmIInv
  <1>5. ASSUME NEW c \in Chans, StartOneChannel(c) PROVE CmIInv'
    BY <1>5 DEF CmIInv, CmTypes, CmOne, CmInOrder, ChannelOrder, StartOneChannel
  <1>6. ASSUME NEW c \in Chans, StopNextChannel(c) PROVE CmIInv'
    BY <1>6 DEF CmIInv, CmTypes, CmOne, CmInOrder, ChannelOrder, StopNextChannel, MayStopChannels
  <1>7. ASSUME NEW c \in Chans, NEW k \in OutKinds, PublishOut(c, k) PROVE CmIInv'
    <2> DEFINE m == [id |-> cmLast + 1, chan |-> c, kind |-> k]
    <2>1. /\ cmLast \in Nat /\ cmLast < MaxOut /\ cmLast' = cmLast + 1 /\ cmQueue' = Append(cmQueue, m)
          /\ UNCHANGED <<cmState, cmEnabled, cmShow, cmChan, cmTask, cmCur, cmSent, cmHandled>>
      BY <1>7 DEF PublishOut, CmIInv, CmInOrder
    <2>2. m \in OutMsgs /\ m.id = cmLast + 1 /\ cmQueue \in Seq(OutMsgs)
      BY <1>7, <2>1 DEF OutMsgs, CmIInv, CmTypes
    <2> HIDE DEF m
    <2>3. /\ cmQueue' \in Seq(OutMsgs)
          /\ \A i \in DOMAIN cmQueue' : \/ i \in DOMAIN cmQueue /\ cmQueue'[i] = cmQueue[i]
                                        \/ i = Len(cmQueue) + 1 /\ cmQueue'[i] = m
          /\ DOMAIN cmQueue = 1 .. Len(cmQueue) /\ Len(cmQueue) \in Nat
      BY <2>1, <2>2
    <2>4. CmTypes' /\ CmOne' /\ ChannelOrder'
      BY <2>1, <2>3 DEF CmIInv, CmTypes, CmOne, ChannelOrder
    <2>5. \A i \in DOMAIN cmQueue : cmQueue[i] \in OutMsgs /\ cmQueue[i].id \in Nat
      <3>1. \A i \in DOMAIN cmQueue : cmQueue[i] \in OutMsgs
        BY <2>2
      <3> QED BY <3>1 DEF OutMsgs
    <2>6. \A n \in cmCur : n.id \in Nat
      BY DEF CmIInv, CmTypes, OutMsgs
    <2>7. \A d \in Chans : \A i \in DOMAIN cmSent[d] : cmSent[d][i] \in Nat
      BY DEF CmIInv, CmTypes
    <2>8. /\ \A i \in DOMAIN cmQueue' : cmQueue'[i].id <= cmLast'
          /\ \A i, j \in DOMAIN cmQueue' : i < j => cmQueue'[i].id < cmQueue'[j].id
      BY <2>1, <2>2, <2>3, <2>5 DEF CmIInv, CmInOrder
    <2>9. \A n \in cmCur' : n.id <= cmLast' /\ \A i \in DOMAIN cmQueue' : n.id < cmQueue'[i].id
      BY <2>1, <2>2, <2>3, <2>5, <2>6 DEF CmIInv, CmInOrder
    <2>10. \A d \in Chans : \A i \in DOMAIN cmSent'[d] :
              /\ cmSent'[d][i] <= cmLast'
              /\ \A n \in cmCur' : cmSent'[d][i] < n.id
              /\ \A j \in DOMAIN cmQueue' : cmSent'[d][i] < cmQueue'[j].id
      BY <2>1, <2>2, <2>3, <2>5, <2>7 DEF CmIInv, CmInOrder
    <2>11. cmLast' \in 0 .. MaxOut
      BY <2>1
    <2>12. CmInOrder'
      BY <2>8, <2>9, <2>10, <2>11 DEF CmInOrder
    <2> QED BY <2>4, <2>12 DEF CmIInv
  <1>8. ASSUME NEW m \in cmCur, SendReturns(m) PROVE CmIInv'
    <2>1. m \in OutMsgs /\ m.id \in 1 .. MaxOut
      BY DEF CmIInv, CmTypes, OutMsgs
    <2>2. cmSent' \in [Chans -> Seq(1 .. MaxOut)] /\ CmInOrder' /\ ChannelOrder'
      BY <1>8, CmGiven DEF SendReturns
    <2> QED BY <1>8, <2>1, <2>2 DEF CmIInv, CmTypes, CmOne, SendReturns
  <1>9. ASSUME NEW m \in cmCur, SendRaises(m) PROVE CmIInv'
    <2>1. m \in OutMsgs /\ m.id \in 1 .. MaxOut
      BY DEF CmIInv, CmTypes, OutMsgs
    <2> QED BY <1>9, <2>1 DEF CmIInv, CmTypes, CmOne, CmInOrder, ChannelOrder, SendRaises
  <1>10. CASE UNCHANGED cmVars
    BY <1>10 DEF CmIInv, CmTypes, CmOne, CmInOrder, ChannelOrder, cmVars
  <1> QED BY <1>1, <1>2, <1>3, <1>4, <1>5, <1>6, <1>7, <1>8, <1>9, <1>10 DEF CmNext

\* What the invariant says of the properties: at most one message is with the
\* dispatcher.
LEMMA CmInvImplies == CmIInv => CmTypeOK /\ ChannelOrder
  <1> SUFFICES ASSUME CmIInv PROVE CmTypeOK /\ ChannelOrder
    OBVIOUS
  <1>1. CASE cmCur = {}
    <2>1. Cardinality(cmCur) = 0
      BY <1>1, FS_EmptySet
    <2> QED BY <2>1 DEF CmIInv, CmTypes, CmTypeOK
  <1>2. ASSUME NEW m \in OutMsgs, cmCur = {m} PROVE CmTypeOK /\ ChannelOrder
    <2>1. Cardinality(cmCur) = 1
      BY <1>2, FS_Singleton
    <2> QED BY <2>1 DEF CmIInv, CmTypes, CmTypeOK
  <1> QED BY <1>1, <1>2 DEF CmIInv, CmOne

\* Only the dispatcher sends, and it has ended when a channel is stopped.
LEMMA CmStopStep ==
  ASSUME CmIInv, [CmNext]_cmVars
  PROVE  \A c \in Chans : cmChan[c] = "stopped" => cmSent'[c] = cmSent[c]
  <1> SUFFICES ASSUME NEW c \in Chans, cmChan[c] = "stopped" PROVE cmSent' = cmSent
    OBVIOUS
  <1>1. cmTask \in {"none", "done"}
    BY DEF CmIInv, CmOne
  <1> QED BY <1>1 DEF CmNext, StartAll, StopAll, DispatcherEnds, Dispatch, StartOneChannel, StopNextChannel, PublishOut,
             SendReturns, SendRaises, cmVars


\* The invariant holds at all times.
LEMMA CmInvariance == CmSpec => []CmIInv
  BY CmInitInv, CmStep, PTL DEF CmSpec

\* What _dispatch_outbound hands to a channel it hands over in the order of
\* publication, one message at a time, through failing sends and a stop_all
\* that cancels it.
THEOREM ChannelsInOrder == CmSpec => [](CmTypeOK /\ ChannelOrder)
<1>1. CmIInv => CmTypeOK /\ ChannelOrder
  BY CmInvImplies
<1> QED BY <1>1, CmInvariance, PTL

\* stop_all ends the dispatcher before it stops the first channel: a channel
\* that was stopped is sent nothing more.
THEOREM NoSendToStopped == CmSpec => NoSendAfterStop
<1> DEFINE A == \A c \in Chans : cmChan[c] = "stopped" => cmSent'[c] = cmSent[c]
<1>1. CmIInv /\ [CmNext]_cmVars => [A]_cmVars
  BY CmStopStep
<1> HIDE DEF A
<1>2. CmSpec => [][A]_cmVars
  BY <1>1, CmInvariance, PTL DEF CmSpec
<1> QED BY <1>2 DEF A, NoSendAfterStop

-----------------------------------------------------------------------------
(* The service supervisor *)

\* The numbers of tasks, and that a service which is not running has none.
SupTasks ==
    /\ \A t \in live : 1 <= t[2] /\ t[2] <= created[t[1]]
    /\ \A s \in Services : task[s] <= created[s]
    /\ \A s \in Services : status[s] # "running" => Down(s)

\* What stop has come to is stopped.
Dealt(s) == status[s] = "stopped" /\ task[s] = 0
SupStops ==
    /\ lock.op = "stop" => \A s \in Services \ lock.todo : Dealt(s)
    /\ lock.op = "stop_wait" => \A s \in Services : Dealt(s)

\* The automatic restarts of a service: their times, and that the last
\* restarts[s] of them are the run that counts against the limit, with a
\* cool-down before its first.
RunOf(rec, k, latest, time) ==
    /\ \A i \in DOMAIN rec : rec[i] <= time
    /\ \A i, j \in DOMAIN rec : i <= j => rec[i] <= rec[j]
    /\ k <= Len(rec)
    /\ Len(rec) = 0 => latest = 0
    /\ Len(rec) > 0 => latest = rec[Len(rec)]
    /\ (k = 0 /\ Len(rec) > 0) => time - latest > Cooldown
    /\ (k > 0 /\ Len(rec) > k) => rec[Len(rec) - k + 1] - rec[Len(rec) - k] > Cooldown

SupRuns ==
    /\ now >= Start0
    /\ \A s \in Services : RunOf(recovered[s], restarts[s], lastTime[s], now)

\* The inductive invariant.
SupIInv == SupTypeOK /\ SupTasks /\ OneTask /\ SupStops /\ SupRuns /\ CrashLoopCut

\* The free lock of the supervisor is one of its states.
LEMMA FreeFacts == Free \in Locks /\ Free.op = "none" /\ AnyService \in Services
  <1>1. AnyService \in Services
    BY SupervisorAssumption DEF AnyService
  <1> QED BY <1>1 DEF Free, Locks, Holders

\* Before start nothing runs and nothing was restarted.
LEMMA SupInitInv == SupInit => SupIInv
  <1> SUFFICES ASSUME SupInit PROVE SupIInv
    OBVIOUS
  <1> USE SupervisorAssumption, FreeFacts
  <1>1. SupTypeOK
    <2>1. <<>> \in Seq(Events) /\ <<>> \in Seq(Nat) /\ Start0 \in Nat /\ 0 \in 0 .. MaxRestarts
      BY DEF Start0
    <2>2. /\ status \in [Services -> Statuses] /\ task \in [Services -> Nat] /\ created \in [Services -> Nat]
          /\ restarts \in [Services -> 0 .. MaxRestarts] /\ lastTime \in [Services -> Nat]
          /\ recovered \in [Services -> Seq(Nat)]
      BY <2>1 DEF SupInit, Statuses
    <2> QED BY <2>1, <2>2 DEF SupInit, SupTypeOK
  <1>2. SupTasks /\ OneTask /\ SupStops
    BY DEF SupInit, SupTasks, OneTask, SupStops, Down, TaskOf, Free
  <1>3. SupRuns /\ CrashLoopCut
    BY DEF SupInit, SupRuns, RunOf, CrashLoopCut, Start0
  <1> QED BY <1>1, <1>2, <1>3 DEF SupIInv

\* Starting services.
LEMMA StartTypes ==
  ASSUME SupTypeOK, NEW S \in SUBSET Services, StartLocked(S)
  PROVE  /\ status' \in [Services -> Statuses] /\ created' \in [Services -> Nat]
         /\ task' \in [Services -> Nat] /\ live' \subseteq Services \X Nat
  <1>1. ToStart(S) \subseteq Services
    BY DEF ToStart
  <1> QED BY SMTT(20), <1>1 DEF StartLocked, SupTypeOK, Statuses

\* Replacing a task keeps the types.
LEMMA ReplaceTypes ==
  ASSUME SupTypeOK, NEW s \in Services, Replace(s)
  PROVE  /\ status' \in [Services -> Statuses] /\ created' \in [Services -> Nat]
         /\ task' \in [Services -> Nat] /\ live' \subseteq Services \X Nat /\ lock' \in Locks
  BY SMTT(20), FreeFacts DEF Replace, SupTypeOK, Statuses

\* The changes of the lock keep its type.
LEMMA LockTypes ==
  ASSUME lock \in Locks, NEW op \in Holders, NEW s \in Services, NEW T \in SUBSET Services
  PROVE  /\ [lock EXCEPT !.op = op] \in Locks /\ [lock EXCEPT !.op = op, !.svc = s] \in Locks
         /\ [lock EXCEPT !.op = op, !.todo = T] \in Locks /\ [lock EXCEPT !.todo = T] \in Locks
         /\ [lock EXCEPT !.todo = T, !.op = op] \in Locks
  BY DEF Locks

\* Every step of the supervisor keeps the type invariant.
LEMMA SupTypeStep == SupTypeOK /\ [SupNext]_supVars => SupTypeOK'
  <1> SUFFICES ASSUME SupTypeOK, [SupNext]_supVars PROVE SupTypeOK'
    OBVIOUS
  <1> USE SupervisorAssumption DEF service, counters, events, Call
  <1>0. lock \in Locks /\ lock.todo \subseteq Services /\ lock.svc \in Services /\ Free \in Locks
    BY FreeFacts DEF SupTypeOK, Locks
  <1>1. CASE Start
    <2>1. StartLocked(Services)
      BY <1>1 DEF Start
    <2>2. calls' \in Nat
      BY <1>1 DEF Start, SupTypeOK
    <2> QED BY <1>1, <2>1, <2>2, StartTypes DEF Start, SupTypeOK
  <1>2. CASE Stop
    <2>1. lock' \in Locks
      BY <1>0, <1>2, LockTypes DEF Stop, Holders
    <2>2. calls' \in Nat
      BY SMTT(20), <1>2 DEF Stop, SupTypeOK
    <2> QED BY <1>2, <2>1, <2>2 DEF Stop, SupTypeOK
  <1>3. CASE Stopped
    BY <1>0, <1>3 DEF Stopped, SupTypeOK
  <1>4. CASE LoopWakes
    <2>1. lock' \in Locks
      BY <1>0, <1>4, LockTypes DEF LoopWakes, Holders
    <2> QED BY <1>4, <2>1 DEF LoopWakes, SupTypeOK
  <1>5. CASE Listen
    <2>1. sysq \in Seq(Events) /\ sysq # <<>>
      BY <1>5 DEF Listen, SupTypeOK
    <2>2. Head(sysq) \in Events /\ Tail(sysq) \in Seq(Events)
      BY <2>1
    <2> QED BY <1>5, <2>2 DEF Listen, SupTypeOK
  <1>6. CASE Tick
    <2>1. now' \in Nat
      BY <1>6 DEF Tick, SupTypeOK
    <2> QED BY <1>6, <2>1 DEF Tick, SupTypeOK
  <1>7. ASSUME NEW s \in Services, StopService(s) PROVE SupTypeOK'
    <2>1. (IF lock.todo = {s} THEN "stop_wait" ELSE "stop") \in Holders /\ lock.todo \ {s} \in SUBSET Services
      BY <1>0 DEF Holders
    <2>2. lock' \in Locks
      BY <1>0, <1>7, <2>1, LockTypes DEF StopService
    <2>3. TaskOf(s) \in Services \X Nat /\ cancelled \subseteq Services \X Nat
      BY DEF SupTypeOK, TaskOf
    <2>4. cancelled' \subseteq Services \X Nat
      BY <1>7, <2>3 DEF StopService
    <2> QED BY <1>7, <2>2, <2>4 DEF StopService, SupTypeOK, Statuses
  <1>8. ASSUME NEW s \in Services, Restart(s) PROVE SupTypeOK'
    <2>1. lock' \in Locks
      BY <1>0, <1>8, LockTypes DEF Restart, Holders
    <2>2. calls' = calls + 1 /\ calls \in Nat
      BY <1>8 DEF Restart, SupTypeOK
    <2>3. calls' \in Nat
      BY <2>2
    <2> QED BY <1>8, <2>1, <2>3 DEF Restart, SupTypeOK
  <1>9. ASSUME NEW s \in Services, RestartStopped(s) PROVE SupTypeOK'
    <2>1. CASE Down(s)
      BY <1>9, <2>1, ReplaceTypes DEF RestartStopped, SupTypeOK
    <2>2. CASE ~Down(s)
      <3>1. lock' \in Locks
        BY <1>0, <1>9, <2>2, LockTypes DEF RestartStopped, Holders
      <3>2. TaskOf(s) \in Services \X Nat /\ cancelled \subseteq Services \X Nat
        BY DEF SupTypeOK, TaskOf
      <3>3. cancelled' \subseteq Services \X Nat
        BY <1>9, <2>2, <3>2 DEF RestartStopped
      <3> QED BY <1>9, <2>2, <3>1, <3>3 DEF RestartStopped, SupTypeOK
    <2> QED BY <2>1, <2>2
  <1>10. ASSUME NEW s \in Services, RestartAwaited(s) PROVE SupTypeOK'
    <2>1. CASE TaskOf(s) \in cancelled
      BY <1>0, <1>10, <2>1 DEF RestartAwaited, SupTypeOK
    <2>2. CASE TaskOf(s) \notin cancelled
      BY <1>10, <2>2, ReplaceTypes DEF RestartAwaited, SupTypeOK
    <2> QED BY <2>1, <2>2
  <1>11. ASSUME NEW s \in Services, LoopPasses(s) PROVE SupTypeOK'
    <2>1. lock.todo \ {s} \in SUBSET Services
      BY <1>0
    <2>2. lock' \in Locks
      BY <1>0, <1>11, <2>1, LockTypes DEF LoopPasses, Holders
    <2> QED BY <1>11, <2>2 DEF LoopPasses, SupTypeOK
  <1>12. ASSUME NEW s \in Services, LoopFindsDown(s) PROVE SupTypeOK'
    <2>1. lock' \in Locks
      BY <1>0, <1>12, LockTypes DEF LoopFindsDown, Holders
    <2>2. sysq' \in Seq(Events)
      BY <1>12 DEF LoopFindsDown, SupTypeOK, Events
    <2> QED BY <1>12, <2>1, <2>2 DEF LoopFindsDown, SupTypeOK, Statuses
  <1>13. ASSUME NEW s \in Services, LoopRecovers(s) PROVE SupTypeOK'
    <2>1. lock.todo \ {s} \in SUBSET Services
      BY <1>0
    <2>2. lock' \in Locks
      BY <1>0, <1>13, <2>1, LockTypes DEF LoopRecovers, Holders
    <2>3. RestartsNow(s) \in 0 .. MaxRestarts /\ now \in Nat
      BY DEF RestartsNow, SupTypeOK
    <2>4. CASE MayRestart(s)
      <3>1. StartLocked({s}) /\ RestartsNow(s) + 1 \in 0 .. MaxRestarts
        BY <1>13, <2>3, <2>4 DEF LoopRecovers, MayRestart
      <3>2. Append(recovered[s], now) \in Seq(Nat)
        BY <2>3 DEF SupTypeOK
      <3>3. /\ restarts' = [restarts EXCEPT ![s] = RestartsNow(s) + 1] /\ lastTime' = [lastTime EXCEPT ![s] = now]
            /\ restarts' \in [Services -> 0 .. MaxRestarts] /\ lastTime' \in [Services -> Nat]
        <4>1. restarts' = [restarts EXCEPT ![s] = RestartsNow(s) + 1] /\ lastTime' = [lastTime EXCEPT ![s] = now]
          BY <1>13, <2>4 DEF LoopRecovers
        <4>2. restarts \in [Services -> 0 .. MaxRestarts] /\ lastTime \in [Services -> Nat]
          BY DEF SupTypeOK
        <4> QED BY <2>3, <3>1, <4>1, <4>2
      <3>4. recovered' \in [Services -> Seq(Nat)]
        BY <1>13, <2>4, <3>2 DEF LoopRecovers, SupTypeOK
      <3>5. {s} \in SUBSET Services
        OBVIOUS
      <3>6. /\ status' \in [Services -> Statuses] /\ created' \in [Services -> Nat]
            /\ task' \in [Services -> Nat] /\ live' \subseteq Services \X Nat
        BY <3>1, <3>5, StartTypes
      <3> QED BY <1>13, <2>2, <3>3, <3>4, <3>6 DEF LoopRecovers, SupTypeOK
    <2>5. CASE ~MayRestart(s)
      <3>1. restarts' \in [Services -> 0 .. MaxRestarts]
        BY <1>13, <2>3, <2>5 DEF LoopRecovers, SupTypeOK
      <3> QED BY <1>13, <2>2, <2>5, <3>1 DEF LoopRecovers, SupTypeOK
    <2> QED BY <2>4, <2>5
  <1>14. ASSUME NEW t \in live, TaskEnds(t) PROVE SupTypeOK'
    <2>1. crashes' \in Nat
      BY <1>14 DEF TaskEnds, SupTypeOK
    <2> QED BY <1>14, <2>1 DEF TaskEnds, SupTypeOK
  <1>15. ASSUME NEW t \in live, TaskCancelled(t) PROVE SupTypeOK'
    BY <1>15 DEF TaskCancelled, SupTypeOK
  <1>16. ASSUME NEW d \in Diagnostics, HealthCheck(d) PROVE SupTypeOK'
    <2>1. sysq' \in Seq(Events)
      BY <1>16 DEF HealthCheck, SupTypeOK, Events
    <2>2. health' \in Nat
      BY <1>16 DEF HealthCheck, SupTypeOK
    <2> QED BY <1>16, <2>1, <2>2 DEF HealthCheck, SupTypeOK
  <1>17. CASE UNCHANGED supVars
    BY <1>17 DEF supVars, SupTypeOK
  <1> QED BY <1>1, <1>2, <1>3, <1>4, <1>5, <1>6, <1>7, <1>8, <1>9, <1>10, <1>11, <1>12, <1>13, <1>14,
             <1>15, <1>16, <1>17 DEF SupNext

-----------------------------------------------------------------------------
(* One task per service *)

\* Starting services that have no live task leaves one task per service, when
\* nothing is left of a stop.
LEMMA StartOneTask ==
  ASSUME SupTypeOK, SupTasks, OneTask, lock.op \notin {"stop", "stop_wait"},
         NEW S \in SUBSET Services, StartLocked(S)
  PROVE  /\ SupTasks' /\ \A t \in live' : t = TaskOf(t[1])'
  <1> DEFINE New == {<<s, created[s] + 1>> : s \in ToStart(S)}
  <1>1. /\ status' = [s \in Services |-> IF s \in S THEN "running" ELSE status[s]]
        /\ created' = [s \in Services |-> IF s \in ToStart(S) THEN created[s] + 1 ELSE created[s]]
        /\ task' = [s \in Services |-> IF s \in ToStart(S) THEN created[s] + 1 ELSE task[s]]
        /\ live' = live \union New
    BY DEF StartLocked
  <1>2. /\ created \in [Services -> Nat] /\ task \in [Services -> Nat] /\ live \subseteq Services \X Nat
    BY DEF SupTypeOK
  <1>3. ToStart(S) \subseteq Services /\ \A s \in ToStart(S) : status[s] # "running"
    BY DEF ToStart
  <1>4. ASSUME NEW t \in live
        PROVE t[1] \in Services /\ t = <<t[1], task[t[1]]>> /\ t[1] \notin ToStart(S)
    <2>1. t[1] \in Services /\ t = TaskOf(t[1])
      BY <1>2 DEF OneTask
    <2> QED BY <1>3, <2>1 DEF SupTasks, Down, TaskOf
  <1>5. ASSUME NEW t \in New
        PROVE t[1] \in ToStart(S) /\ t[1] \in Services /\ t = <<t[1], created[t[1]] + 1>>
    BY <1>3
  <1>6. \A t \in live' : t = TaskOf(t[1])'
    BY <1>1, <1>4, <1>5 DEF TaskOf
  <1>7. \A t \in live' : 1 <= t[2] /\ t[2] <= created'[t[1]]
    <2> TAKE t \in live'
    <2>1. CASE t \in live
      BY <1>1, <1>2, <1>4, <2>1 DEF SupTasks
    <2>2. CASE t \in New
      BY <1>1, <1>2, <1>5, <2>2
    <2> QED BY <1>1, <2>1, <2>2
  <1>8. \A s \in Services : task'[s] <= created'[s]
    BY <1>1, <1>2 DEF SupTasks
  <1>9. \A s \in Services : status'[s] # "running" => Down(s)'
    <2> SUFFICES ASSUME NEW s \in Services, status'[s] # "running", <<s, task'[s]>> \in live' PROVE FALSE
      BY DEF Down, TaskOf
    <2>1. s \notin S /\ status[s] # "running" /\ s \notin ToStart(S) /\ task'[s] = task[s]
      BY <1>1 DEF ToStart
    <2>2. <<s, task[s]>> \notin live
      BY <2>1 DEF SupTasks, Down, TaskOf
    <2>3. <<s, task[s]>> \notin New
      BY <1>5, <2>1
    <2> QED BY <1>1, <2>1, <2>2, <2>3
  <1> QED BY <1>6, <1>7, <1>8, <1>9 DEF SupTasks

\* Replacing the task of a service that is down.
LEMMA ReplaceOneTask ==
  ASSUME SupTypeOK, SupTasks, OneTask, lock.op \notin {"stop", "stop_wait"},
         NEW s \in Services, Down(s), Replace(s)
  PROVE  /\ SupTasks' /\ \A t \in live' : t = TaskOf(t[1])'
  <1>1. /\ status' = [status EXCEPT ![s] = "running"]
        /\ created' = [created EXCEPT ![s] = created[s] + 1]
        /\ task' = [task EXCEPT ![s] = created[s] + 1]
        /\ live' = live \union {<<s, created[s] + 1>>}
    BY DEF Replace
  <1>2. /\ created \in [Services -> Nat] /\ task \in [Services -> Nat] /\ live \subseteq Services \X Nat
        /\ status \in [Services -> Statuses]
    BY DEF SupTypeOK
  <1>3. ASSUME NEW t \in live PROVE t[1] \in Services /\ t = <<t[1], task[t[1]]>> /\ t[1] # s
    <2>1. t[1] \in Services /\ t = TaskOf(t[1])
      BY <1>2 DEF OneTask
    <2> QED BY <2>1 DEF Down, TaskOf
  <1>4. \A t \in live' : t = TaskOf(t[1])'
    BY <1>1, <1>2, <1>3 DEF TaskOf
  <1>5. \A t \in live' : 1 <= t[2] /\ t[2] <= created'[t[1]]
    <2> TAKE t \in live'
    <2>1. CASE t \in live
      BY <1>1, <1>2, <1>3, <2>1 DEF SupTasks
    <2>2. CASE t = <<s, created[s] + 1>>
      BY <1>1, <1>2, <2>2
    <2> QED BY <1>1, <2>1, <2>2
  <1>6. \A u \in Services : task'[u] <= created'[u]
    BY <1>1, <1>2 DEF SupTasks
  <1>7. \A u \in Services : status'[u] # "running" => Down(u)'
    BY <1>1, <1>2 DEF SupTasks, Down, TaskOf
  <1> QED BY <1>4, <1>5, <1>6, <1>7 DEF SupTasks

\* Every step keeps one task per service, and what stop has dealt with stopped.
LEMMA SupTaskStep ==
  SupTypeOK /\ SupTasks /\ OneTask /\ SupStops /\ [SupNext]_supVars => SupTasks' /\ OneTask' /\ SupStops'
  <1> SUFFICES ASSUME SupTypeOK, SupTasks, OneTask, SupStops, [SupNext]_supVars PROVE SupTasks' /\ OneTask' /\ SupStops'
    OBVIOUS
  <1> USE DEF service, counters, events, Call
  <1>0. Free.op = "none" /\ lock \in Locks /\ live \subseteq Services \X Nat
    BY FreeFacts DEF SupTypeOK
  \* Steps that leave the services alone, or end a stop.
  <1>a. ASSUME UNCHANGED <<status, task, created>>, live' \subseteq live,
               \A t \in live' : t \in cancelled => t \in cancelled', UNCHANGED lock
        PROVE SupTasks' /\ OneTask' /\ SupStops'
    BY <1>0, <1>a DEF SupTasks, OneTask, SupStops, Down, TaskOf, Dealt
  <1>b. ASSUME UNCHANGED <<status, task, created, live>>, lock.op \notin {"stop", "stop_wait"},
               lock'.op \notin {"stop", "stop_wait"}
        PROVE SupTasks' /\ OneTask' /\ SupStops'
    BY <1>b DEF SupTasks, OneTask, SupStops, Down, TaskOf
  <1>1. CASE Start
    <2>1. SupTasks' /\ \A t \in live' : t = TaskOf(t[1])'
      BY <1>0, <1>1, StartOneTask DEF Start
    <2>2. lock'.op = "none"
      BY <1>0, <1>1 DEF Start
    <2> QED BY <2>1, <2>2 DEF OneTask, SupStops
  <1>2. CASE Stop
    <2>1. /\ UNCHANGED <<status, task, created, live, cancelled>> /\ lock = Free
          /\ lock' = [lock EXCEPT !.op = "stop", !.todo = Services]
      BY <1>2 DEF Stop
    <2>2. lock'.op = "stop" /\ lock'.todo = Services
      BY <1>0, <2>1 DEF Locks
    <2>3. OneTask' /\ SupTasks'
      BY <1>0, <2>1 DEF OneTask, SupTasks, Down, TaskOf
    <2> QED BY <2>2, <2>3 DEF SupStops
  <1>3. CASE Stopped
    <2>1. /\ UNCHANGED <<status, task, created, live, cancelled>> /\ lock' = Free
          /\ cancelled \intersect live = {}
      BY <1>3 DEF Stopped
    <2> QED BY <1>0, <2>1 DEF OneTask, SupTasks, SupStops, Down, TaskOf
  <1>4. CASE LoopWakes
    <2>1. lock.op = "none" /\ lock'.op = "loop"
      BY <1>0, <1>4 DEF LoopWakes, Locks
    <2> QED BY <1>4, <1>b, <2>1 DEF LoopWakes
  <1>5. CASE Listen
    BY <1>5, <1>a DEF Listen
  <1>6. CASE Tick
    BY <1>6, <1>a DEF Tick
  <1>7. ASSUME NEW s \in Services, StopService(s) PROVE SupTasks' /\ OneTask' /\ SupStops'
    <2>1. /\ lock.op = "stop" /\ s \in lock.todo
          /\ cancelled' = IF Down(s) THEN cancelled ELSE cancelled \union {TaskOf(s)}
          /\ status' = [status EXCEPT ![s] = "stopped"] /\ task' = [task EXCEPT ![s] = 0]
          /\ UNCHANGED <<created, live>>
      BY <1>7 DEF StopService
    <2>2. /\ lock'.todo = lock.todo \ {s}
          /\ lock'.op = IF lock.todo = {s} THEN "stop_wait" ELSE "stop"
      BY <1>0, <1>7 DEF StopService, Locks
    <2>3. status \in [Services -> Statuses] /\ task \in [Services -> Nat] /\ created \in [Services -> Nat]
      BY DEF SupTypeOK
    <2>4. OneTask'
      <3> SUFFICES ASSUME NEW t \in live, t \notin cancelled' PROVE t = <<t[1], task'[t[1]]>>
        BY <2>1, <2>2 DEF OneTask, TaskOf
      <3>1. t[1] \in Services /\ t = TaskOf(t[1])
        BY <1>0, <2>1 DEF OneTask
      <3>2. t[1] # s
        BY <2>1, <3>1 DEF Down
      <3> QED BY <2>1, <2>3, <3>1, <3>2 DEF TaskOf
    <2>5. SupTasks'
      <3>1. <<s, 0>> \notin live
        BY DEF SupTasks
      <3> QED BY <2>1, <2>3, <3>1 DEF SupTasks, Down, TaskOf
    <2>6. SupStops'
      BY <2>1, <2>2, <2>3 DEF SupStops, Dealt
    <2> QED BY <2>4, <2>5, <2>6
  <1>8. ASSUME NEW s \in Services, Restart(s) PROVE SupTasks' /\ OneTask' /\ SupStops'
    <2>1. lock.op = "none" /\ lock'.op = "restart"
      BY <1>0, <1>8 DEF Restart, Locks
    <2> QED BY <1>8, <1>b, <2>1 DEF Restart
  <1>9. ASSUME NEW s \in Services, RestartStopped(s) PROVE SupTasks' /\ OneTask' /\ SupStops'
    <2>1. CASE Down(s)
      <3>1. Replace(s) /\ lock.op = "restart" /\ lock' = Free
        BY <1>9, <2>1 DEF RestartStopped, Replace
      <3>2. SupTasks' /\ \A t \in live' : t = TaskOf(t[1])'
        BY <2>1, <3>1, ReplaceOneTask
      <3> QED BY <1>0, <3>1, <3>2 DEF OneTask, SupStops
    <2>2. CASE ~Down(s)
      <3>1. lock.op = "restart" /\ lock'.op = "restart_wait"
        BY <1>0, <1>9, <2>2 DEF RestartStopped, Locks
      <3> QED BY <1>9, <1>b, <2>2, <3>1 DEF RestartStopped
    <2> QED BY <2>1, <2>2
  <1>10. ASSUME NEW s \in Services, RestartAwaited(s) PROVE SupTasks' /\ OneTask' /\ SupStops'
    <2>1. CASE TaskOf(s) \in cancelled
      BY <1>0, <1>10, <1>b, <2>1 DEF RestartAwaited
    <2>2. CASE TaskOf(s) \notin cancelled
      <3>1. Replace(s) /\ lock.op = "restart_wait" /\ lock' = Free /\ Down(s)
        BY <1>10, <2>2 DEF RestartAwaited, Replace
      <3>2. SupTasks' /\ \A t \in live' : t = TaskOf(t[1])'
        BY <3>1, ReplaceOneTask
      <3> QED BY <1>0, <3>1, <3>2 DEF OneTask, SupStops
    <2> QED BY <2>1, <2>2
  <1>11. ASSUME NEW s \in Services, LoopPasses(s) PROVE SupTasks' /\ OneTask' /\ SupStops'
    <2>1. lock.op = "loop" /\ lock'.op \in {"none", "loop"}
      BY <1>0, <1>11 DEF LoopPasses, Locks
    <2> QED BY <1>11, <1>b, <2>1 DEF LoopPasses
  <1>12. ASSUME NEW s \in Services, LoopFindsDown(s) PROVE SupTasks' /\ OneTask' /\ SupStops'
    <2>1. lock.op = "loop" /\ lock'.op = "recover"
      BY <1>0, <1>12 DEF LoopFindsDown, Locks
    <2>2. /\ status' = [status EXCEPT ![s] = "failed"] /\ UNCHANGED <<task, created, live, cancelled>> /\ Down(s)
      BY <1>12 DEF LoopFindsDown, Unexpected
    <2>3. status \in [Services -> Statuses]
      BY DEF SupTypeOK
    <2> QED BY <2>1, <2>2, <2>3 DEF SupTasks, OneTask, SupStops, Down, TaskOf
  <1>13. ASSUME NEW s \in Services, LoopRecovers(s) PROVE SupTasks' /\ OneTask' /\ SupStops'
    <2>1. lock.op = "recover" /\ lock'.op \in {"none", "loop"}
      BY <1>0, <1>13 DEF LoopRecovers, Locks
    <2>2. CASE MayRestart(s)
      <3>1. StartLocked({s}) /\ {s} \in SUBSET Services
        BY <1>13, <2>2 DEF LoopRecovers
      <3>2. SupTasks' /\ \A t \in live' : t = TaskOf(t[1])'
        BY <2>1, <3>1, StartOneTask
      <3> QED BY <2>1, <3>2 DEF OneTask, SupStops
    <2>3. CASE ~MayRestart(s)
      BY <1>13, <1>b, <2>1, <2>3 DEF LoopRecovers
    <2> QED BY <2>2, <2>3
  <1>14. ASSUME NEW t \in live, TaskEnds(t) PROVE SupTasks' /\ OneTask' /\ SupStops'
    BY <1>14, <1>a DEF TaskEnds
  <1>15. ASSUME NEW t \in live, TaskCancelled(t) PROVE SupTasks' /\ OneTask' /\ SupStops'
    BY <1>15, <1>a DEF TaskCancelled
  <1>16. ASSUME NEW d \in Diagnostics, HealthCheck(d) PROVE SupTasks' /\ OneTask' /\ SupStops'
    BY <1>16, <1>a DEF HealthCheck
  <1>17. CASE UNCHANGED supVars
    BY <1>17, <1>a DEF supVars
  <1> QED BY <1>1, <1>2, <1>3, <1>4, <1>5, <1>6, <1>7, <1>8, <1>9, <1>10, <1>11, <1>12, <1>13, <1>14,
             <1>15, <1>16, <1>17 DEF SupNext

-----------------------------------------------------------------------------
(* Crash loops *)

\* A restart within the limit goes on with the run or begins one.
LEMMA RunGrows ==
  ASSUME NEW rec \in Seq(Nat), NEW k \in 0 .. MaxRestarts, NEW latest \in Nat,
         NEW time \in Nat, time >= Start0, RunOf(rec, k, latest, time),
         \A i \in DOMAIN rec : i + MaxRestarts \in DOMAIN rec => rec[i + MaxRestarts] - rec[i] > Cooldown,
         NEW r, r = IF time - latest > Cooldown THEN 0 ELSE k, r < MaxRestarts
  PROVE  LET new == Append(rec, time)
         IN /\ RunOf(new, r + 1, time, time)
            /\ \A i \in DOMAIN new : i + MaxRestarts \in DOMAIN new => new[i + MaxRestarts] - new[i] > Cooldown
  <1> DEFINE new == Append(rec, time)
             n == Len(rec)
  <1> USE SupervisorAssumption
  <1>1. n \in Nat /\ DOMAIN rec = 1 .. n /\ \A i \in 1 .. n : rec[i] \in Nat
    BY SeqFacts
  <1>2. /\ Len(new) = n + 1 /\ DOMAIN new = 1 .. n + 1 /\ new[n + 1] = time
        /\ \A i \in 1 .. n : new[i] = rec[i]
    BY <1>1
  <1>3. /\ \A i \in 1 .. n : rec[i] <= time
        /\ \A i, j \in 1 .. n : i <= j => rec[i] <= rec[j]
        /\ k <= n
        /\ n = 0 => latest = 0
        /\ n > 0 => latest = rec[n]
        /\ (k = 0 /\ n > 0) => time - latest > Cooldown
        /\ (k > 0 /\ n > k) => rec[n - k + 1] - rec[n - k] > Cooldown
    BY <1>1 DEF RunOf
  <1> HIDE DEF new, n
  <1>4. r \in 0 .. MaxRestarts /\ r <= n
    BY <1>1, <1>3
  <1>5. r = 0 => n = 0 \/ time - latest > Cooldown
    BY <1>1, <1>3 DEF Start0
  <1>6. r > 0 => r = k
    OBVIOUS
  <1>7. \A i \in 1 .. n + 1 : new[i] <= time /\ new[i] \in Nat
    BY <1>1, <1>2, <1>3
  <1>8. \A i, j \in 1 .. n + 1 : i <= j => new[i] <= new[j]
    BY <1>1, <1>2, <1>3
  <1>9. n + 1 > r + 1 => new[n + 1 - r] - new[n - r] > Cooldown
    <2> SUFFICES ASSUME n > r PROVE new[n + 1 - r] - new[n - r] > Cooldown
      BY <1>1, <1>4
    <2>1. CASE r = 0
      BY <1>1, <1>2, <1>3, <1>5, <2>1
    <2>2. CASE r > 0
      <3>1. n + 1 - r \in 1 .. n /\ n - r \in 1 .. n /\ n - r + 1 = n + 1 - r
        BY <1>1, <1>4, <2>2
      <3> QED BY <1>1, <1>2, <1>3, <1>6, <2>2, <3>1
    <2> QED BY <1>4, <2>1, <2>2
  <1>10. RunOf(new, r + 1, time, time)
    <2>1. Len(new) - (r + 1) + 1 = n + 1 - r /\ Len(new) - (r + 1) = n - r
      BY <1>1, <1>2, <1>4
    <2>3. /\ \A i \in DOMAIN new : new[i] <= time
          /\ \A i, j \in DOMAIN new : i <= j => new[i] <= new[j]
      BY <1>2, <1>7, <1>8
    <2>4. /\ r + 1 <= Len(new) /\ Len(new) > 0 /\ time = new[Len(new)]
          /\ (r + 1 > 0 /\ Len(new) > r + 1) => new[Len(new) - (r + 1) + 1] - new[Len(new) - (r + 1)] > Cooldown
      BY <1>1, <1>2, <1>4, <1>9, <2>1
    <2>5. r + 1 # 0 /\ Len(new) # 0
      BY <1>1, <1>2, <1>4
    <2> QED BY <2>3, <2>4, <2>5 DEF RunOf
  <1>11. ASSUME NEW i \in 1 .. n + 1, i + MaxRestarts \in 1 .. n + 1
         PROVE new[i + MaxRestarts] - new[i] > Cooldown
    <2>1. CASE i + MaxRestarts \in 1 .. n
      <3>1. i \in DOMAIN rec /\ i + MaxRestarts \in DOMAIN rec
        BY <1>1, <2>1
      <3>2. new[i] = rec[i] /\ new[i + MaxRestarts] = rec[i + MaxRestarts]
        BY <1>1, <1>2, <3>1
      <3> QED BY <3>1, <3>2
    <2>2. CASE i + MaxRestarts = n + 1
      <3>1. n > r /\ i <= n - r /\ n - r \in 1 .. n + 1 /\ n + 1 - r \in 1 .. n + 1
        BY <1>1, <1>4, <2>2
      <3>2. new[i] <= new[n - r] /\ new[n + 1 - r] <= new[n + 1]
        BY <1>1, <1>4, <1>8, <3>1
      <3>3. new[n + 1 - r] - new[n - r] > Cooldown
        BY <1>1, <1>4, <1>9, <3>1
      <3>4. /\ new[i] \in Nat /\ new[n - r] \in Nat /\ new[n + 1 - r] \in Nat
        BY <1>7, <3>1
      <3>5. new[n + 1] \in Nat
        BY <1>2
      <3>6. new[i + MaxRestarts] = new[n + 1]
        BY <2>2
      <3>7. \A a, b, c, d \in Nat : a <= b /\ c <= d /\ c - b > Cooldown => d - a > Cooldown
        OBVIOUS
      <3> QED BY <3>2, <3>3, <3>4, <3>5, <3>6, <3>7
    <2> QED BY <1>1, <1>11, <2>1, <2>2
  <1> QED BY <1>2, <1>10, <1>11 DEF new

\* Every step keeps the record of the restarts in agreement with the counter.
LEMMA SupRunStep ==
  SupTypeOK /\ SupRuns /\ CrashLoopCut /\ [SupNext]_supVars => SupRuns' /\ CrashLoopCut'
  <1> SUFFICES ASSUME SupTypeOK, SupRuns, CrashLoopCut, [SupNext]_supVars PROVE SupRuns' /\ CrashLoopCut'
    OBVIOUS
  <1> USE SupervisorAssumption DEF service, counters, events, Call
  <1>0. /\ now \in Nat /\ recovered \in [Services -> Seq(Nat)] /\ restarts \in [Services -> 0 .. MaxRestarts]
        /\ lastTime \in [Services -> Nat]
    BY DEF SupTypeOK
  <1>a. CASE UNCHANGED <<now, counters>>
    BY <1>a DEF SupRuns, RunOf, CrashLoopCut
  <1>1. CASE Tick
    <2>1. now' = now + 1 /\ UNCHANGED counters
      BY <1>1 DEF Tick
    <2>2. CrashLoopCut'
      BY <2>1 DEF CrashLoopCut
    <2>3. ASSUME NEW s \in Services PROVE RunOf(recovered[s], restarts[s], lastTime[s], now)'
      <3>1. recovered[s] \in Seq(Nat) /\ RunOf(recovered[s], restarts[s], lastTime[s], now) /\ lastTime[s] \in Nat
        BY <1>0 DEF SupRuns
      <3>2. \A i \in DOMAIN recovered[s] : recovered[s][i] \in Nat
        BY <3>1, SeqFacts
      <3> QED BY <1>0, <2>1, <3>1, <3>2 DEF RunOf
    <2>4. now' >= Start0
      BY <1>0, <2>1 DEF SupRuns, Start0
    <2> QED BY <2>2, <2>3, <2>4 DEF SupRuns
  <1>2. ASSUME NEW s \in Services, LoopRecovers(s) PROVE SupRuns' /\ CrashLoopCut'
    <2>0. /\ recovered[s] \in Seq(Nat) /\ restarts[s] \in 0 .. MaxRestarts /\ lastTime[s] \in Nat
          /\ RunOf(recovered[s], restarts[s], lastTime[s], now) /\ now >= Start0
      BY <1>0 DEF SupRuns
    <2>1. CASE MayRestart(s)
      <3>1. /\ restarts' = [restarts EXCEPT ![s] = RestartsNow(s) + 1] /\ lastTime' = [lastTime EXCEPT ![s] = now]
            /\ recovered' = [recovered EXCEPT ![s] = Append(@, now)] /\ now' = now
            /\ RestartsNow(s) < MaxRestarts
        BY <1>2, <2>1 DEF LoopRecovers, MayRestart
      <3>2. /\ RunOf(Append(recovered[s], now), RestartsNow(s) + 1, now, now)
            /\ \A i \in DOMAIN Append(recovered[s], now) :
                  i + MaxRestarts \in DOMAIN Append(recovered[s], now) =>
                     Append(recovered[s], now)[i + MaxRestarts] - Append(recovered[s], now)[i] > Cooldown
        <4> DEFINE rec == recovered[s]
                   k == restarts[s]
                   latest == lastTime[s]
                   r == RestartsNow(s)
        <4>1. \A i \in DOMAIN rec : i + MaxRestarts \in DOMAIN rec => rec[i + MaxRestarts] - rec[i] > Cooldown
          BY DEF CrashLoopCut
        <4>2. r = IF now - latest > Cooldown THEN 0 ELSE k
          BY DEF RestartsNow
        <4>3. rec \in Seq(Nat) /\ k \in 0 .. MaxRestarts /\ latest \in Nat /\ RunOf(rec, k, latest, now) /\ now >= Start0
          BY <2>0
        <4>4. r < MaxRestarts /\ UNCHANGED now /\ now \in Nat
          BY <1>0, <3>1
        <4> HIDE DEF rec, k, latest, r
        <4>5. LET new == Append(rec, now)
              IN /\ RunOf(new, r + 1, now, now)
                 /\ \A i \in DOMAIN new : i + MaxRestarts \in DOMAIN new => new[i + MaxRestarts] - new[i] > Cooldown
          BY <4>1, <4>2, <4>3, <4>4, RunGrows
        <4> QED BY <4>5 DEF rec, k, latest, r
      <3>3. /\ \A u \in Services : u # s => recovered'[u] = recovered[u] /\ restarts'[u] = restarts[u] /\ lastTime'[u] = lastTime[u]
            /\ recovered'[s] = Append(recovered[s], now) /\ restarts'[s] = RestartsNow(s) + 1 /\ lastTime'[s] = now
        BY <1>0, <3>1
      <3>4. \A u \in Services : RunOf(recovered'[u], restarts'[u], lastTime'[u], now)
        BY <3>2, <3>3 DEF SupRuns
      <3>5. CrashLoopCut'
        BY <3>2, <3>3 DEF CrashLoopCut
      <3> QED BY <3>1, <3>4, <3>5 DEF SupRuns
    <2>2. CASE ~MayRestart(s)
      <3>1. /\ restarts' = [restarts EXCEPT ![s] = RestartsNow(s)] /\ UNCHANGED <<lastTime, recovered, now>>
        BY <1>2, <2>2 DEF LoopRecovers
      <3>2. RunOf(recovered[s], RestartsNow(s), lastTime[s], now)
        BY <1>0, <2>0 DEF RunOf, RestartsNow
      <3> QED BY <1>0, <3>1, <3>2 DEF SupRuns, CrashLoopCut, RunOf
    <2> QED BY <2>1, <2>2
  <1>3. CASE UNCHANGED supVars
    BY <1>3, <1>a DEF supVars
  <1>4. ASSUME NEW s \in Services, StopService(s) \/ Restart(s) \/ RestartStopped(s) \/ RestartAwaited(s) \/ LoopPasses(s) \/ LoopFindsDown(s)
        PROVE UNCHANGED <<now, counters>>
    BY <1>4 DEF StopService, Restart, RestartStopped, RestartAwaited, LoopPasses, LoopFindsDown
  <1>5. Start \/ Stop \/ Stopped \/ LoopWakes \/ Listen => UNCHANGED <<now, counters>>
    BY DEF Start, Stop, Stopped, LoopWakes, Listen
  <1>6. ASSUME NEW t \in live, TaskEnds(t) \/ TaskCancelled(t) PROVE UNCHANGED <<now, counters>>
    BY <1>6 DEF TaskEnds, TaskCancelled
  <1>7. ASSUME NEW d \in Diagnostics, HealthCheck(d) PROVE UNCHANGED <<now, counters>>
    BY <1>7 DEF HealthCheck
  <1> QED BY <1>a, <1>1, <1>2, <1>3, <1>4, <1>5, <1>6, <1>7 DEF SupNext

\* Every step of the supervisor, its services and its callers keeps the
\* invariant.
LEMMA SupStep == SupIInv /\ [SupNext]_supVars => SupIInv'
  BY SupTypeStep, SupTaskStep, SupRunStep DEF SupIInv

\* The action property.
LEMMA StopStep ==
  ASSUME SupIInv, [SupNext]_supVars, lock.op = "stop_wait", lock'.op = "none"
  PROVE  live' = {} /\ \A s \in Services : status'[s] = "stopped"
  <1>0. lock \in Locks /\ live \subseteq Services \X Nat /\ Free.op = "none"
    BY FreeFacts DEF SupIInv, SupTypeOK
  <1>1. CASE Stopped
    <2>1. UNCHANGED <<live, status>> /\ cancelled \intersect live = {}
      BY <1>1 DEF Stopped, service
    <2>2. ASSUME NEW t \in live PROVE FALSE
      <3>1. t[1] \in Services /\ t = TaskOf(t[1]) /\ task[t[1]] = 0 /\ 1 <= t[2]
        BY <1>0, <2>1 DEF SupIInv, OneTask, SupStops, SupTasks, Dealt
      <3> QED BY <3>1 DEF TaskOf
    <2> QED BY <2>1, <2>2 DEF SupIInv, SupStops, Dealt
  <1>2. lock' = lock \/ lock.op # "stop_wait" \/ Stopped
    BY DEF SupNext, supVars, Start, Stop, LoopWakes, Listen, Tick, StopService, Restart, RestartStopped, RestartAwaited, LoopPasses, LoopFindsDown, LoopRecovers, TaskEnds, TaskCancelled, HealthCheck, Call, Free
  <1> QED BY <1>1, <1>2


\* The invariant implies the properties.
LEMMA SupInvImplies == SupIInv => SupTypeOK /\ OneTask /\ CrashLoopCut
  BY DEF SupIInv

\* The invariant holds at all times.
LEMMA SupInvariance == SupSpec => []SupIInv
  BY SupInitInv, SupStep, PTL DEF SupSpec

\* ServiceSupervisor: a service has at most one live task, whatever start,
\* stop, restart_service and the monitoring loop do to it in turn, and a crash
\* loop is cut at the limit of restarts within the cool-down.
THEOREM OneTaskPerService == SupSpec => [](SupTypeOK /\ OneTask /\ CrashLoopCut)
<1>1. SupIInv => SupTypeOK /\ OneTask /\ CrashLoopCut
  BY SupInvImplies
<1> QED BY <1>1, SupInvariance, PTL

\* When stop returns no service is left alive, and all are called stopped.
THEOREM StopIsComplete == SupSpec => StopLeavesNone
<1> DEFINE A == (lock.op = "stop_wait" /\ lock'.op = "none") =>
                   live' = {} /\ \A s \in Services : status'[s] = "stopped"
<1>1. SupIInv /\ [SupNext]_supVars => [A]_supVars
  BY StopStep
<1> HIDE DEF A
<1>2. SupSpec => [][A]_supVars
  BY <1>1, SupInvariance, PTL DEF SupSpec
<1> QED BY <1>2 DEF A, StopLeavesNone

-----------------------------------------------------------------------------
(* Heartbeats and recovery *)

\* The states of a heartbeat loop.
HbStates == {"none", "sleep", "decide", "execute", "notify", "ended"}

\* The types of the variables.
HbTypes ==
    /\ hbLoops \in [HbAll -> HbStates] /\ hbStarts \in 0 .. HbMaxStarts /\ hbTask \in 0 .. HbMaxStarts
    /\ hbRunning \in BOOLEAN /\ hbAge \in Nat /\ hbAlive \in BOOLEAN /\ hbTripped \in BOOLEAN
    /\ hbAttempts \in Nat /\ hbCall \in [HbCallers -> {"none", "backoff", "restart"}]

\* The loops belong to the service, and are numbered by its starts.
HbLoopsOf == \A l \in HbAll : hbLoops[l] # "none" => hbMode = "service" /\ l <= hbStarts

\* The calls of execute_recovery that passed the breaker and have not ended.
HbUnderWay == {c \in HbCallers : hbCall[c] # "none"}
HbBudget ==
    /\ hbTripped <=> hbAttempts >= HbMaxAttempts
    /\ hbAttempts + Cardinality(HbUnderWay) < HbMaxAttempts + Cardinality(HbCallers)

\* The inductive invariant.
HbIInv == HbTypes /\ HbLoopsOf /\ HbOneLoop /\ HbDeadRightly /\ HbBudget

\* There are finitely many calls under way, at most one per caller.
LEMMA HbFinite == /\ IsFiniteSet(HbUnderWay) /\ Cardinality(HbUnderWay) \in Nat
                  /\ Cardinality(HbUnderWay) <= Cardinality(HbCallers) /\ Cardinality(HbCallers) \in Nat
  <1>1. HbUnderWay \in SUBSET HbCallers /\ IsFiniteSet(HbCallers)
    BY HbAssumption DEF HbUnderWay
  <1> QED BY <1>1, FS_Subset, FS_CardinalityType

\* Before the first start there is no loop, no silence and no recovery.
LEMMA HbInitInv == HbInit => HbIInv
  <1> SUFFICES ASSUME HbInit PROVE HbIInv
    OBVIOUS
  <1>1. HbTypes /\ HbLoopsOf
    <2>1. /\ hbLoops \in [HbAll -> HbStates] /\ hbStarts \in 0 .. HbMaxStarts /\ hbTask \in 0 .. HbMaxStarts
          /\ hbAge \in Nat /\ hbAttempts \in Nat /\ hbCall \in [HbCallers -> {"none", "backoff", "restart"}]
      BY HbAssumption DEF HbInit, HbStates
    <2>2. hbRunning \in BOOLEAN /\ hbAlive \in BOOLEAN /\ hbTripped \in BOOLEAN
      BY DEF HbInit
    <2> QED BY <2>1, <2>2 DEF HbInit, HbTypes, HbLoopsOf
  <1>2. HbOneLoop
    BY DEF HbInit, HbOneLoop, HbAll
  <1>3. HbDeadRightly
    BY DEF HbInit, HbDeadRightly
  <1>4. HbUnderWay = {}
    BY DEF HbInit, HbUnderWay
  <1>5. Cardinality(HbUnderWay) = 0 /\ Cardinality(HbCallers) \in Nat
    BY <1>4, FS_EmptySet, HbFinite
  <1>6. HbBudget
    BY <1>5, HbAssumption DEF HbInit, HbBudget
  <1> QED BY <1>1, <1>2, <1>3, <1>6 DEF HbIInv

\* The service and its loops.
HbServiceInv == HbTypes /\ HbLoopsOf /\ HbOneLoop

\* The steps of the heartbeat service: start cancels nothing while a loop is
\* running, and stop leaves its task cancelled.
LEMMA HbServiceStep == HbServiceInv /\ HbNext /\ UNCHANGED <<hbEngine, hbRecovery>> => HbLoopsOf' /\ HbOneLoop' /\ HbTypes'
  <1> SUFFICES ASSUME HbServiceInv, HbNext, UNCHANGED <<hbEngine, hbRecovery>> PROVE HbLoopsOf' /\ HbOneLoop' /\ HbTypes'
    OBVIOUS
  <1> USE HbAssumption DEF HbServiceInv, hbService, hbEngine, hbRecovery
  <1>0. HbAll = 1 .. HbMaxStarts /\ hbLoops \in [HbAll -> HbStates]
    BY DEF HbAll, HbTypes
  <1>a. ASSUME UNCHANGED <<hbStarts, hbLoops, hbCancelled, hbTask, hbLateRun, hbRunning>>, hbMode # "off" => hbMode' = hbMode
        PROVE HbLoopsOf' /\ HbOneLoop' /\ HbTypes'
    BY <1>a DEF HbLoopsOf, HbOneLoop, HbTypes
  <1>1. CASE HbChoose
    BY <1>1, <1>a DEF HbChoose
  <1>2. CASE HbStart
    <2> DEFINE n == hbStarts + 1
    <2>1. /\ n \in HbAll /\ hbStarts' = n /\ hbTask' = n /\ hbRunning' = TRUE /\ hbLoops' = [hbLoops EXCEPT ![n] = "sleep"]
          /\ hbMode = "service" /\ ~hbRunning
          /\ UNCHANGED <<hbMode, hbCancelled, hbTrigger, hbTriggers, hbLateRun, hbEngine, hbRecovery>>
      BY <1>2, <1>0 DEF HbStart, HbTypes
    <2>2. \A l \in HbAll : hbLoops[l] \notin {"none", "ended"} => l \in hbCancelled
      BY <2>1 DEF HbOneLoop
    <2>3. HbTypes'
      BY <1>0, <2>1 DEF HbTypes, HbStates
    <2>4. HbOneLoop'
      BY <1>0, <2>1, <2>2 DEF HbOneLoop
    <2>5. HbLoopsOf'
      BY <1>0, <2>1 DEF HbLoopsOf, HbTypes
    <2> QED BY <2>3, <2>4, <2>5
  <1>3. CASE HbStop
    <2>1. /\ hbRunning' = FALSE /\ hbCancelled' = HbCancelledBy /\ hbTask' = 0
          /\ UNCHANGED <<hbMode, hbStarts, hbLoops, hbTrigger, hbTriggers, hbLateRun, hbEngine, hbRecovery>>
      BY <1>3 DEF HbStop
    <2>2. \A l \in HbAll : hbLoops[l] \notin {"none", "ended"} => l \in hbCancelled'
      BY <1>0, <2>1 DEF HbOneLoop, HbCancelledBy
    <2>3. hbRunning' \in BOOLEAN /\ hbTask' \in 0 .. HbMaxStarts
      <3>1. 0 \in 0 .. HbMaxStarts
        OBVIOUS
      <3> QED BY <2>1, <3>1
    <2>4. HbOneLoop' /\ HbLoopsOf'
      BY <1>0, <2>1, <2>2 DEF HbOneLoop, HbLoopsOf
    <2> QED BY <2>1, <2>3, <2>4 DEF HbTypes
  <1>4. CASE HbTriggerNow \/ HbTriggered
    BY <1>4, <1>a DEF HbTriggerNow, HbTriggered
  <1>5. ASSUME NEW l \in HbAll, HbLoopSteps(l) PROVE HbLoopsOf' /\ HbOneLoop' /\ HbTypes'
    <2>1. HbLoopOnly /\ hbLoops[l] # "none"
      BY <1>5 DEF HbLoopSteps, HbLoopEnds, HbTickRaises, HbNotified, HbWakes, HbDecided, HbExecuted
    <2>2. PICK to \in HbStates : HbGoes(l, to)
      BY <1>5 DEF HbLoopSteps, HbLoopEnds, HbTickRaises, HbNotified, HbWakes, HbDecided, HbExecuted, HbAfterTick, HbStates
    <2>3. (l \in hbCancelled) \/ hbLoops[l] \notin {"none", "ended"}
      BY <1>5 DEF HbLoopSteps, HbLoopEnds, HbTickRaises, HbNotified, HbWakes, HbDecided, HbExecuted
    <2>4. UNCHANGED hbLateRun \/ (l \notin hbCancelled /\ hbLateRun' = (hbLateRun \/ ~hbRunning)) \/ hbLateRun' = (hbLateRun \/ FALSE)
      <3>1. ASSUME NEW answer \in {"run", "skip"}, HbDecided(l, answer)
            PROVE (l \notin hbCancelled /\ hbLateRun' = (hbLateRun \/ ~hbRunning)) \/ hbLateRun' = (hbLateRun \/ FALSE)
        BY <3>1 DEF HbDecided
      <3> QED BY <1>5, <3>1 DEF HbLoopSteps, HbLoopEnds, HbTickRaises, HbNotified, HbWakes, HbExecuted
    <2>5. ~hbLateRun'
      BY <1>0, <2>3, <2>4 DEF HbOneLoop
    <2>6. hbLoops' = [hbLoops EXCEPT ![l] = to] /\ UNCHANGED <<hbMode, hbRunning, hbStarts, hbCancelled, hbTask>>
      BY <2>1, <2>2 DEF HbLoopOnly, HbGoes
    <2>7. HbTypes'
      BY <1>0, <2>1, <2>6 DEF HbTypes, HbLoopOnly
    <2>8. HbLoopsOf'
      BY <1>0, <2>1, <2>6 DEF HbLoopsOf
    <2>9. HbOneLoop'
      BY <1>0, <2>1, <2>3, <2>5, <2>6 DEF HbOneLoop
    <2> QED BY <2>7, <2>8, <2>9
  <1>6. CASE HbEngineStart \/ HbEngineStop
    <2>1. /\ hbMode = "engine" /\ hbRunning' \in BOOLEAN /\ hbStarts' \in 0 .. HbMaxStarts
          /\ UNCHANGED <<hbMode, hbLoops, hbCancelled, hbTask, hbLateRun>>
      <3>1. CASE HbEngineStart
        <4>1. hbStarts' \in 0 .. HbMaxStarts
          BY <3>1 DEF HbEngineStart, HbTypes
        <4> QED BY <3>1, <4>1 DEF HbEngineStart
      <3>2. CASE HbEngineStop
        BY <3>2 DEF HbEngineStop, HbTypes
      <3> QED BY <1>6, <3>1, <3>2
    <2>2. \A l \in HbAll : hbLoops[l] = "none"
      BY <2>1 DEF HbLoopsOf
    <2> QED BY <2>1, <2>2 DEF HbLoopsOf, HbOneLoop, HbTypes
  <1>7. CASE HbPing \/ HbMonitor \/ HbIsolate \/ HbRelease \/ HbReset
    BY <1>7, <1>a DEF HbPing, HbMonitor, HbIsolate, HbRelease, HbReset
  <1>8. ASSUME NEW c \in HbCallers, HbRecover(c) \/ HbBackoffEnds(c) \/ \E success \in BOOLEAN : HbRecord(c, success)
        PROVE HbLoopsOf' /\ HbOneLoop' /\ HbTypes'
    BY <1>8, <1>a DEF HbRecover, HbBackoffEnds, HbRecord
  <1> QED BY <1>1, <1>2, <1>3, <1>4, <1>5, <1>6, <1>7, <1>8 DEF HbNext

\* The engine and the restarts leave the service alone.
LEMMA HbSplit ==
  HbNext => \/ UNCHANGED <<hbEngine, hbRecovery>>
            \/ /\ HbPing \/ HbMonitor \/ HbIsolate \/ HbRelease
               /\ UNCHANGED <<hbMode, hbRunning, hbStarts, hbService, hbRecovery>>
            \/ /\ HbReset \/ \E c \in HbCallers : HbRecover(c) \/ HbBackoffEnds(c) \/ \E success \in BOOLEAN : HbRecord(c, success)
               /\ UNCHANGED <<hbMode, hbRunning, hbStarts, hbService, hbEngine>>
  BY DEF HbNext, HbChoose, HbStart, HbStop, HbTriggerNow, HbTriggered, HbLoopSteps, HbLoopEnds, HbTickRaises, HbNotified,
     HbWakes, HbDecided, HbExecuted, HbLoopOnly, HbEngineStart, HbEngineStop, HbPing, HbMonitor, HbIsolate, HbRelease,
     HbRecover, HbBackoffEnds, HbRecord, HbReset, hbService, hbEngine, hbRecovery

\* The steps of the watching engine: a process is declared dead only after the
\* timeout.
LEMMA HbEngineStep ==
  ASSUME HbIInv, HbPing \/ HbMonitor \/ HbIsolate \/ HbRelease
  PROVE  hbAge' \in Nat /\ hbAlive' \in BOOLEAN /\ HbDeadRightly'
  <1> USE HbAssumption DEF HbIInv, HbTypes
  <1>1. CASE HbPing
    BY <1>1 DEF HbPing, HbDeadRightly
  <1>2. CASE HbMonitor
    <2>1. hbAge' = HbOlder(hbAge) /\ hbAlive' = (hbAlive /\ ~HbSilent(HbOlder(hbAge)))
      BY <1>2 DEF HbMonitor
    <2>2. HbOlder(hbAge) \in Nat /\ HbOlder(hbAge) >= hbAge
      BY DEF HbOlder
    <2>3. hbAlive' \in BOOLEAN
      BY <2>1
    <2>4. ASSUME ~hbAlive' PROVE hbAge' > HbDeadAfter
      <3>1. CASE ~hbAlive
        BY <2>1, <2>2, <3>1 DEF HbDeadRightly
      <3>2. CASE HbSilent(HbOlder(hbAge))
        BY <2>1, <3>2 DEF HbSilent
      <3> QED BY <2>1, <2>4, <3>1, <3>2
    <2> QED BY <2>1, <2>2, <2>3, <2>4 DEF HbDeadRightly
  <1>3. CASE HbIsolate \/ HbRelease
    BY <1>3 DEF HbIsolate, HbRelease, HbDeadRightly
  <1> QED BY <1>1, <1>2, <1>3

\* The steps of the recoveries: a call passes the breaker only below the limit.
LEMMA HbRecoveryStep ==
  ASSUME HbIInv, HbReset \/ \E c \in HbCallers : HbRecover(c) \/ HbBackoffEnds(c) \/ \E success \in BOOLEAN : HbRecord(c, success)
  PROVE  /\ hbTripped' \in BOOLEAN /\ hbAttempts' \in Nat
         /\ hbCall' \in [HbCallers -> {"none", "backoff", "restart"}] /\ HbBudget'
  <1> USE HbAssumption DEF HbIInv, HbTypes
  <1>0. /\ IsFiniteSet(HbUnderWay) /\ Cardinality(HbUnderWay) \in Nat
        /\ Cardinality(HbUnderWay) <= Cardinality(HbCallers) /\ Cardinality(HbCallers) \in Nat
        /\ Cardinality(HbUnderWay') <= Cardinality(HbCallers) /\ Cardinality(HbUnderWay') \in Nat
    <2>1. HbUnderWay' \in SUBSET HbCallers /\ IsFiniteSet(HbCallers)
      BY DEF HbUnderWay
    <2> QED BY <2>1, HbFinite, FS_Subset, FS_CardinalityType
  <1>1. CASE HbReset
    <2>1. hbAttempts' = 0 /\ hbTripped' = FALSE /\ UNCHANGED hbCall
      BY <1>1 DEF HbReset
    <2>2. HbUnderWay' = HbUnderWay
      BY <2>1 DEF HbUnderWay
    <2>3. hbTripped' \in BOOLEAN /\ ~hbTripped'
      BY <2>1
    <2>4. ~(hbAttempts' >= HbMaxAttempts) /\ hbAttempts' \in Nat
      BY <2>1
    <2>5. hbAttempts' + Cardinality(HbUnderWay') < HbMaxAttempts + Cardinality(HbCallers)
      BY <1>0, <2>1
    <2> QED BY <2>1, <2>3, <2>4, <2>5 DEF HbBudget
  <1>2. ASSUME NEW c \in HbCallers, HbRecover(c)
        PROVE  /\ hbTripped' \in BOOLEAN /\ hbAttempts' \in Nat
               /\ hbCall' \in [HbCallers -> {"none", "backoff", "restart"}] /\ HbBudget'
    <2>1. UNCHANGED <<hbAttempts, hbTripped>> /\ hbCall' = [hbCall EXCEPT ![c] = IF HbCanRecover THEN "backoff" ELSE "none"]
          /\ hbCall[c] = "none"
      BY <1>2 DEF HbRecover
    <2>2. CASE HbCanRecover
      BY <1>0, <2>1, <2>2 DEF HbBudget, HbCanRecover
    <2>3. CASE ~HbCanRecover
      <3>1. HbUnderWay' = HbUnderWay
        BY <2>1, <2>3 DEF HbUnderWay
      <3> QED BY <2>1, <2>3, <3>1 DEF HbBudget
    <2> QED BY <2>2, <2>3
  <1>3. ASSUME NEW c \in HbCallers, HbBackoffEnds(c)
        PROVE  /\ hbTripped' \in BOOLEAN /\ hbAttempts' \in Nat
               /\ hbCall' \in [HbCallers -> {"none", "backoff", "restart"}] /\ HbBudget'
    <2>1. UNCHANGED <<hbAttempts, hbTripped>> /\ hbCall' = [hbCall EXCEPT ![c] = "restart"] /\ hbCall[c] = "backoff"
      BY <1>3 DEF HbBackoffEnds
    <2>2. HbUnderWay' = HbUnderWay
      BY <2>1 DEF HbUnderWay
    <2> QED BY <2>1, <2>2 DEF HbBudget
  <1>4. ASSUME NEW c \in HbCallers, NEW success \in BOOLEAN, HbRecord(c, success)
        PROVE  /\ hbTripped' \in BOOLEAN /\ hbAttempts' \in Nat
               /\ hbCall' \in [HbCallers -> {"none", "backoff", "restart"}] /\ HbBudget'
    <2>1. /\ hbCall' = [hbCall EXCEPT ![c] = "none"] /\ hbCall[c] = "restart"
          /\ hbAttempts' = (IF success THEN 0 ELSE hbAttempts + 1)
          /\ hbTripped' = (~success /\ (hbTripped \/ hbAttempts' >= HbMaxAttempts))
      BY <1>4 DEF HbRecord
    <2>2. HbUnderWay' = HbUnderWay \ {c} /\ c \in HbUnderWay
      BY <2>1 DEF HbUnderWay
    <2>3. Cardinality(HbUnderWay') = Cardinality(HbUnderWay) - 1
      BY <1>0, <2>2, FS_RemoveElement
    <2>4. hbCall' \in [HbCallers -> {"none", "backoff", "restart"}]
      BY <2>1
    <2>5. CASE success
      <3>1. hbAttempts' = 0 /\ hbTripped' = FALSE
        BY <2>1, <2>5
      <3>2. hbTripped' \in BOOLEAN /\ ~hbTripped'
        BY <3>1
      <3>3. ~(hbAttempts' >= HbMaxAttempts) /\ hbAttempts' \in Nat
        BY <3>1
      <3>4. hbAttempts' + Cardinality(HbUnderWay') < HbMaxAttempts + Cardinality(HbCallers)
        BY <1>0, <3>1
      <3> QED BY <2>4, <3>2, <3>3, <3>4 DEF HbBudget
    <2>6. CASE ~success
      <3>1. hbAttempts' = hbAttempts + 1 /\ hbTripped' = (hbTripped \/ hbAttempts' >= HbMaxAttempts)
        BY <2>1, <2>6
      <3>2. hbTripped' <=> hbAttempts' >= HbMaxAttempts
        <4>1. hbTripped => hbAttempts' >= HbMaxAttempts
          BY <3>1 DEF HbBudget
        <4> QED BY <3>1, <4>1
      <3>3. hbTripped' \in BOOLEAN
        BY <3>1
      <3> QED BY <1>0, <2>3, <2>4, <3>1, <3>2, <3>3 DEF HbBudget
    <2> QED BY <2>5, <2>6
  <1> QED BY <1>1, <1>2, <1>3, <1>4

\* Every step keeps the invariant.
LEMMA HbStep == HbIInv /\ [HbNext]_hbVars => HbIInv'
  <1> SUFFICES ASSUME HbIInv, [HbNext]_hbVars PROVE HbIInv'
    OBVIOUS
  <1>1. CASE HbNext /\ UNCHANGED <<hbEngine, hbRecovery>>
    <2>1. HbLoopsOf' /\ HbOneLoop' /\ HbTypes'
      BY <1>1, HbServiceStep DEF HbServiceInv, HbIInv
    <2>2. UNCHANGED <<hbAge, hbAlive, hbTripped, hbAttempts, hbCall>>
      BY <1>1 DEF hbEngine, hbRecovery
    <2> QED BY <2>1, <2>2 DEF HbIInv, HbDeadRightly, HbBudget, HbUnderWay
  <1>2. CASE /\ HbPing \/ HbMonitor \/ HbIsolate \/ HbRelease
             /\ UNCHANGED <<hbMode, hbRunning, hbStarts, hbService, hbRecovery>>
    <2>1. hbAge' \in Nat /\ hbAlive' \in BOOLEAN /\ HbDeadRightly'
      BY <1>2, HbEngineStep
    <2> QED BY <1>2, <2>1 DEF HbIInv, HbTypes, HbLoopsOf, HbOneLoop, HbBudget, HbUnderWay, hbService, hbRecovery
  <1>3. CASE /\ HbReset \/ \E c \in HbCallers : HbRecover(c) \/ HbBackoffEnds(c) \/ \E success \in BOOLEAN : HbRecord(c, success)
             /\ UNCHANGED <<hbMode, hbRunning, hbStarts, hbService, hbEngine>>
    <2>1. /\ hbTripped' \in BOOLEAN /\ hbAttempts' \in Nat
          /\ hbCall' \in [HbCallers -> {"none", "backoff", "restart"}] /\ HbBudget'
      BY <1>3, HbRecoveryStep
    <2> QED BY <1>3, <2>1 DEF HbIInv, HbTypes, HbLoopsOf, HbOneLoop, HbDeadRightly, hbService, hbEngine
  <1>4. CASE UNCHANGED hbVars
    BY <1>4 DEF HbIInv, HbTypes, HbLoopsOf, HbOneLoop, HbDeadRightly, HbBudget, HbUnderWay, hbVars
  <1> QED BY <1>1, <1>2, <1>3, <1>4, HbSplit

\* The invariant implies the properties.
LEMMA HbInvImplies == HbIInv => HbOneLoop /\ HbDeadRightly /\ HbBreakerHolds
  BY HbFinite, HbAssumption DEF HbIInv, HbTypes, HbBudget, HbBreakerHolds


\* The invariant holds at all times.
LEMMA HbInvariance == HbSpec => []HbIInv
  BY HbInitInv, HbStep, PTL DEF HbSpec

\* HeartbeatService has one loop that is not cancelled; the engine declares a
\* process dead only after the timeout; and executions of a recovery stay below
\* the limit of the breaker, for any number of concurrent callers.
THEOREM HeartbeatsSound == HbSpec => [](HbOneLoop /\ HbDeadRightly /\ HbBreakerHolds)
<1>1. HbIInv => HbOneLoop /\ HbDeadRightly /\ HbBreakerHolds
  BY HbInvImplies
<1> QED BY <1>1, HbInvariance, PTL

-----------------------------------------------------------------------------
(* The subagent pool, RPC calls and events *)

\* The states of a task, and the tasks that run.
SpStates == {"none", "queued", "running", "done"}
SpRunning == {t \in SpTasks : spAt[t] = "running"}

\* The types of the variables.
SpTypes ==
    /\ spAt \in [SpTasks -> SpStates] /\ DOMAIN spResult = SpTasks /\ DOMAIN spCalled = SpTasks
    /\ spQueue \in Seq(SpTasks) /\ spFree \in Nat /\ spRan \subseteq SpTasks /\ spActive \subseteq SpTasks
    /\ spWaiting \subseteq SpTasks

\* What the pool keeps: its slots, and each task as far as it has come.
SpPoolInv ==
    /\ spFree + Cardinality(SpRunning) = SpMost
    /\ \A t \in SpTasks :
        /\ spAt[t] \in {"queued", "running"} => t \in spActive
        /\ spAt[t] = "none" => t \notin spSession
        /\ t \in spRan =>
              \/ spAt[t] = "running"
              \/ spAt[t] = "done" /\ spResult[t] # "none" /\ t \notin spActive /\ t \notin spSession

\* A call waits for its future, and its future is known only then.
SpRpcInv == \A t \in spActive : spAt[t] = "running"

\* The calls of an emission that are under way were not made yet, the others once.
SpEventInv ==
    /\ spWaiting \subseteq spActive
    /\ \A t \in spActive : spCalled[t] = IF t \in spWaiting THEN 0 ELSE 1

\* The inductive invariant: each helper keeps its part.
SpIInv ==
    /\ SpTypes
    /\ spMode \in {"off", "pool"} => SpPoolInv
    /\ spMode \in {"off", "rpc"} => SpRpcInv
    /\ spMode \in {"off", "events"} => SpEventInv

\* The tasks that run are finitely many.
LEMMA SpFinite == IsFiniteSet(SpRunning) /\ Cardinality(SpRunning) \in Nat
  <1>1. SpRunning \in SUBSET SpTasks /\ IsFiniteSet(SpTasks)
    BY SpAssumption DEF SpRunning
  <1> QED BY <1>1, FS_Subset, FS_CardinalityType

\* Before the first task every slot is free.
LEMMA SpInitInv == SpInit => SpIInv
  <1> SUFFICES ASSUME SpInit PROVE SpIInv
    OBVIOUS
  <1>1. SpTypes
    BY SpAssumption DEF SpInit, SpTypes, SpStates
  <1>2. SpRunning = {}
    BY DEF SpInit, SpRunning
  <1>3. SpPoolInv
    BY <1>2, SpAssumption, FS_EmptySet DEF SpInit, SpPoolInv
  <1> QED BY <1>1, <1>3 DEF SpIInv, SpInit, SpRpcInv, SpEventInv

\* One lemma for each of the four helpers; a step belongs to one of them.
LEMMA SpPoolSteps ==
  ASSUME SpIInv, spMode = "pool", SpNext
  PROVE  SpTypes' /\ SpPoolInv' /\ spMode' = "pool"
  <1> USE SpAssumption DEF spPoolVars, spEventVars
  <1>0. /\ SpTypes /\ SpPoolInv /\ spAt \in [SpTasks -> SpStates]
        /\ IsFiniteSet(SpRunning) /\ Cardinality(SpRunning) \in Nat
    BY SpFinite DEF SpIInv, SpTypes
  <1>1. ASSUME NEW t \in SpTasks, NEW b \in BOOLEAN, SpSubmit(t, b) PROVE SpTypes' /\ SpPoolInv' /\ spMode' = "pool"
    <2>1. /\ spAt[t] = "none" /\ spAt' = [spAt EXCEPT ![t] = "queued"] /\ spQueue' = Append(spQueue, t)
          /\ spActive' = spActive \cup {t} /\ spSession' \subseteq spSession \cup {t}
          /\ UNCHANGED <<spMode, spFree, spCancelled, spResult, spRan, spHistory, spWaiting, spCancels, spDrains, spHandler, spCalled>>
      BY <1>1 DEF SpSubmit, SpSet
    <2>2. SpRunning' = SpRunning
      BY <1>0, <2>1 DEF SpRunning
    <2>3. spQueue' \in Seq(SpTasks)
      BY <1>0, <2>1 DEF SpTypes
    <2>4. SpTypes'
      BY <1>0, <2>1, <2>3 DEF SpTypes, SpStates
    <2>5. SpPoolInv'
      BY <1>0, <2>1, <2>2 DEF SpPoolInv
    <2> QED BY <2>1, <2>4, <2>5
  <1>2. ASSUME SpRun PROVE SpTypes' /\ SpPoolInv' /\ spMode' = "pool"
    <2> DEFINE t == Head(spQueue)
    <2>1. /\ spQueue # <<>> /\ spFree > 0 /\ spAt[t] = "queued" /\ spAt' = [spAt EXCEPT ![t] = "running"]
          /\ spRan' = spRan \cup {t} /\ spQueue' = Tail(spQueue) /\ spFree' = spFree - 1
          /\ UNCHANGED <<spMode, spCancelled, spActive, spSession, spResult, spHistory, spWaiting, spCancels, spDrains, spHandler, spCalled>>
      BY <1>2 DEF SpRun, SpTakes, SpSet
    <2>2. t \in SpTasks /\ spQueue' \in Seq(SpTasks)
      BY <1>0, <2>1 DEF SpTypes
    <2> HIDE DEF t
    <2>3. SpRunning' = SpRunning \cup {t} /\ t \notin SpRunning
      BY <1>0, <2>1, <2>2 DEF SpRunning
    <2>4. Cardinality(SpRunning') = Cardinality(SpRunning) + 1
      BY <1>0, <2>3, FS_AddElement
    <2>5. SpTypes'
      BY <1>0, <2>1, <2>2 DEF SpTypes, SpStates
    <2>6. spFree' + Cardinality(SpRunning') = SpMost
      BY <1>0, <2>1, <2>4 DEF SpPoolInv, SpTypes
    <2>7. SpPoolInv'
      BY <1>0, <2>1, <2>2, <2>6 DEF SpPoolInv
    <2> QED BY <2>1, <2>5, <2>7
  <1>3. ASSUME NEW t \in SpTasks, NEW r \in {"completed", "failed", "timeout", "cancelled"}, SpFinish(t, r)
        PROVE SpTypes' /\ SpPoolInv' /\ spMode' = "pool"
    <2>1. /\ spAt[t] = "running" /\ spAt' = [spAt EXCEPT ![t] = "done"] /\ spResult' = [spResult EXCEPT ![t] = r]
          /\ spActive' = spActive \ {t} /\ spSession' = spSession \ {t} /\ spFree' = spFree + 1
          /\ UNCHANGED <<spMode, spQueue, spRan, spHistory, spWaiting, spCancels, spDrains, spHandler, spCalled>>
      BY <1>3 DEF SpFinish, SpSet, SpAnswers, SpCleans, SpReleases
    <2>2. SpRunning' = SpRunning \ {t} /\ t \in SpRunning
      BY <1>0, <2>1 DEF SpRunning
    <2>3. Cardinality(SpRunning') = Cardinality(SpRunning) - 1
      BY <1>0, <2>2, FS_RemoveElement
    <2>4. SpTypes'
      BY <1>0, <2>1 DEF SpTypes, SpStates
    <2>5. spFree' + Cardinality(SpRunning') = SpMost
      BY <1>0, <2>1, <2>3 DEF SpPoolInv, SpTypes
    <2>6. SpPoolInv'
      BY <1>0, <2>1, <2>5 DEF SpPoolInv, SpTypes
    <2> QED BY <2>1, <2>4, <2>6
  <1>4. ASSUME NEW t \in SpTasks, SpNeverRuns(t) PROVE SpTypes' /\ SpPoolInv' /\ spMode' = "pool"
    <2>1. /\ spAt[t] = "queued" /\ spAt' = [spAt EXCEPT ![t] = "done"] /\ spQueue' = SpQueueWithout(t)
          /\ UNCHANGED <<spMode, spFree, spActive, spSession, spResult, spRan, spHistory, spWaiting, spCancels, spDrains, spHandler, spCalled>>
      BY <1>4 DEF SpNeverRuns, SpSet
    <2>2. SpRunning' = SpRunning
      BY <1>0, <2>1 DEF SpRunning
    <2>3. spQueue' \in Seq(SpTasks)
      <3> DEFINE i == CHOOSE i \in DOMAIN spQueue : spQueue[i] = t
                 k(j) == IF j < i THEN j ELSE j + 1
                 n == Len(spQueue) - 1
      <3>1. spQueue' = [j \in 1..n |-> spQueue[k(j)]]
        BY <2>1 DEF SpQueueWithout
      <3>2. Len(spQueue) \in Nat /\ \A m \in 1..Len(spQueue) : spQueue[m] \in SpTasks
        BY <1>0 DEF SpTypes
      <3>3. \A j \in 1..n : k(j) \in 1..Len(spQueue)
        BY <3>2
      <3> HIDE DEF k
      <3>4. \A j \in 1..n : spQueue[k(j)] \in SpTasks
        BY <3>2, <3>3
      <3>5. CASE n \in Nat
        BY <3>1, <3>4, <3>5
      <3>6. CASE n = -1
        <4>1. spQueue' = << >>
          BY <3>1, <3>6
        <4> QED BY <4>1
      <3>7. n \in Nat \/ n = -1
        BY <3>2
      <3> QED BY <3>5, <3>6, <3>7
    <2>4. SpTypes'
      BY <1>0, <2>1, <2>3 DEF SpTypes, SpStates
    <2>5. SpPoolInv'
      BY <1>0, <2>1, <2>2 DEF SpPoolInv
    <2> QED BY <2>1, <2>4, <2>5
  <1>5. ASSUME NEW ts, SpCancel(ts) PROVE SpTypes' /\ SpPoolInv' /\ spMode' = "pool"
    BY <1>0, <1>5 DEF SpCancel, SpTypes, SpPoolInv, SpRunning
  <1>6. ASSUME SpDrain PROVE SpTypes' /\ SpPoolInv' /\ spMode' = "pool"
    BY <1>0, <1>6 DEF SpDrain, SpTypes, SpPoolInv, SpRunning, SpLive
  <1>7. ASSUME NEW b \in BOOLEAN, SpDrained(b) PROVE SpTypes' /\ SpPoolInv' /\ spMode' = "pool"
    BY <1>0, <1>7 DEF SpDrained, SpTypes, SpPoolInv, SpRunning
  <1> QED BY <1>1, <1>2, <1>3, <1>4, <1>5, <1>6, <1>7 DEF SpNext, SpPoolStep, SpStart, SpCall, SpDrainRegistry, SpNotify,
             SpRegistryDrained, SpReturns, SpRegister, SpTaskEnds, SpHandled, SpSubscribe, SpUnsubscribe, SpEmit, SpCallback

\* The steps of the RPC client: only an open call gets a result.
LEMMA SpRpcSteps ==
  ASSUME SpIInv, spMode = "rpc", SpNext
  PROVE  /\ SpTypes' /\ SpRpcInv' /\ spMode' = "rpc"
         /\ \A t \in SpTasks : SpDone(t) => spResult'[t] = spResult[t]
  <1> USE DEF spPoolVars, spEventVars
  <1>0. SpTypes /\ SpRpcInv /\ spAt \in [SpTasks -> SpStates] /\ DOMAIN spResult = SpTasks
    BY DEF SpIInv, SpTypes
  <1> DEFINE Goal == /\ SpTypes' /\ SpRpcInv' /\ spMode' = "rpc"
                     /\ \A t \in SpTasks : SpDone(t) => spResult'[t] = spResult[t]
  <1>1. ASSUME NEW t \in SpTasks, NEW b \in BOOLEAN, SpCall(t, b) PROVE Goal
    <2>1. /\ spAt[t] = "none" /\ UNCHANGED <<spMode, spQueue, spFree, spSession, spRan, spHandler, spCalled>>
          /\ \/ /\ spAt' = [spAt EXCEPT ![t] = "running"] /\ spActive' = spActive \cup {t}
                /\ spWaiting' = spWaiting \cup {t} /\ UNCHANGED spResult
             \/ /\ spAt' = [spAt EXCEPT ![t] = "done"] /\ spResult' = [spResult EXCEPT ![t] = "refused"]
                /\ UNCHANGED <<spActive, spWaiting>>
      BY <1>1 DEF SpCall, SpSet, SpAnswers
    <2> QED BY <1>0, <2>1 DEF SpTypes, SpRpcInv, SpDone, SpStates
  <1>2. ASSUME NEW t \in SpTasks, NEW r \in {"payload", "error", "nothing"}, SpHandled(t, r) PROVE Goal
    <2>1. /\ UNCHANGED <<spMode, spAt, spActive, spQueue, spFree, spSession, spRan, spHandler, spCalled>>
          /\ spWaiting' = spWaiting \ {t}
          /\ UNCHANGED spResult \/ (t \in spActive /\ spResult' = [spResult EXCEPT ![t] = r])
      BY <1>2 DEF SpHandled, SpAnswers, SpResolves
    <2> QED BY <1>0, <2>1 DEF SpTypes, SpRpcInv, SpDone
  <1>3. ASSUME NEW t \in SpTasks, SpReturns(t) PROVE Goal
    <2>1. /\ UNCHANGED <<spMode, spWaiting, spQueue, spFree, spSession, spRan, spHandler, spCalled>>
          /\ spAt[t] = "running" /\ spAt' = [spAt EXCEPT ![t] = "done"] /\ spActive' = spActive \ {t}
          /\ UNCHANGED spResult \/ spResult' = [spResult EXCEPT ![t] = "timeout"]
      BY <1>3 DEF SpReturns, SpSet, SpAnswers, SpPops
    <2> QED BY <1>0, <2>1 DEF SpTypes, SpRpcInv, SpDone, SpStates
  <1>4. ASSUME SpNotify PROVE Goal
    BY <1>0, <1>4 DEF SpNotify, SpTypes, SpRpcInv
  <1> QED BY <1>1, <1>2, <1>3, <1>4 DEF SpNext, SpPoolStep, SpStart, SpSubmit, SpRun, SpFinish, SpNeverRuns, SpCancel, SpDrain,
             SpDrained, SpDrainRegistry, SpRegistryDrained, SpRegister, SpTaskEnds, SpSubscribe, SpUnsubscribe, SpEmit, SpCallback

\* The steps of the task registry.
LEMMA SpRegistrySteps ==
  ASSUME SpIInv, spMode = "registry", SpNext
  PROVE  SpTypes' /\ spMode' = "registry"
  <1> USE DEF spPoolVars, spEventVars
  <1>0. SpTypes /\ spAt \in [SpTasks -> SpStates] /\ DOMAIN spResult = SpTasks
    BY DEF SpIInv, SpTypes
  <1>1. ASSUME NEW t \in SpTasks, SpRegister(t) PROVE SpTypes' /\ spMode' = "registry"
    BY <1>0, <1>1 DEF SpRegister, SpSet, SpTypes, SpStates
  <1>2. ASSUME NEW t \in SpTasks, SpTaskEnds(t) PROVE SpTypes' /\ spMode' = "registry"
    BY <1>0, <1>2 DEF SpTaskEnds, SpSet, SpAnswers, SpTypes, SpStates
  <1>3. ASSUME SpDrainRegistry \/ \E b \in BOOLEAN : SpRegistryDrained(b) PROVE SpTypes' /\ spMode' = "registry"
    BY <1>0, <1>3 DEF SpDrainRegistry, SpRegistryDrained, SpTypes
  <1> QED BY <1>1, <1>2, <1>3 DEF SpNext, SpPoolStep, SpStart, SpSubmit, SpRun, SpFinish, SpNeverRuns, SpCancel, SpDrain,
             SpDrained, SpCall, SpReturns, SpNotify, SpHandled, SpSubscribe, SpUnsubscribe, SpEmit, SpCallback

\* The steps of the event emitter: a listener is called once, whatever the
\* others do.
LEMMA SpEventSteps ==
  ASSUME SpIInv, spMode = "events", SpNext
  PROVE  SpTypes' /\ SpEventInv' /\ spMode' = "events"
  <1> USE DEF spPoolVars
  <1>0. /\ SpTypes /\ SpEventInv /\ spAt \in [SpTasks -> SpStates] /\ DOMAIN spCalled = SpTasks
        /\ spActive \subseteq SpTasks
    BY DEF SpIInv, SpTypes
  <1>1. ASSUME NEW t \in SpTasks, NEW p \in SpPatterns, SpSubscribe(t, p) \/ SpUnsubscribe(t, p)
        PROVE SpTypes' /\ SpEventInv' /\ spMode' = "events"
    BY <1>0, <1>1 DEF SpSubscribe, SpUnsubscribe, SpTypes, SpEventInv
  <1>2. ASSUME NEW e \in SpEvents, SpEmit(e) PROVE SpTypes' /\ SpEventInv' /\ spMode' = "events"
    <2>1. SpTargets(e) \subseteq SpTasks
      BY DEF SpTargets
    <2> QED BY <1>0, <1>2, <2>1 DEF SpEmit, SpTypes, SpEventInv, SpStates
  <1>3. ASSUME NEW t \in SpTasks, NEW b \in BOOLEAN, SpCallback(t, b)
        PROVE SpTypes' /\ SpEventInv' /\ spMode' = "events"
    <2>1. /\ t \in spWaiting /\ spAt' = [spAt EXCEPT ![t] = "done"] /\ spWaiting' = spWaiting \ {t}
          /\ spCalled' = [spCalled EXCEPT ![t] = @ + 1]
          /\ UNCHANGED <<spMode, spActive, spResult, spQueue, spFree, spRan>>
      BY <1>3 DEF SpCallback, SpSet, SpGather
    <2>2. SpTypes'
      BY <1>0, <2>1 DEF SpTypes, SpStates
    <2>3. t \in spActive /\ spCalled[t] = 0
      BY <1>0, <2>1 DEF SpEventInv
    <2>4. SpEventInv'
      BY <1>0, <2>1, <2>3 DEF SpEventInv
    <2> QED BY <2>1, <2>2, <2>4
  <1> QED BY <1>1, <1>2, <1>3 DEF SpNext, SpPoolStep, SpStart, SpSubmit, SpRun, SpFinish, SpNeverRuns, SpCancel, SpDrain,
             SpDrained, SpCall, SpReturns, SpNotify, SpHandled, SpDrainRegistry, SpRegistryDrained, SpRegister, SpTaskEnds

\* A step belongs to one of the helpers.
LEMMA SpModes == SpNext => spMode \in {"off", "pool", "rpc", "registry", "events"}
  BY DEF SpNext, SpPoolStep, SpStart, SpSubmit, SpRun, SpFinish, SpNeverRuns, SpCancel, SpDrain, SpDrained, SpCall,
     SpReturns, SpNotify, SpHandled, SpDrainRegistry, SpRegistryDrained, SpRegister, SpTaskEnds, SpSubscribe, SpUnsubscribe, SpEmit, SpCallback

\* Every step keeps the invariant.
LEMMA SpStep == SpIInv /\ [SpNext]_spVars => SpIInv'
  <1> SUFFICES ASSUME SpIInv, [SpNext]_spVars PROVE SpIInv'
    OBVIOUS
  <1>1. CASE spMode = "pool" /\ SpNext
    BY <1>1, SpPoolSteps DEF SpIInv
  <1>2. CASE spMode = "rpc" /\ SpNext
    BY <1>2, SpRpcSteps DEF SpIInv
  <1>3. CASE spMode = "registry" /\ SpNext
    BY <1>3, SpRegistrySteps DEF SpIInv
  <1>4. CASE spMode = "events" /\ SpNext
    BY <1>4, SpEventSteps DEF SpIInv
  <1>5. CASE spMode = "off" /\ SpNext
    <2>1. \E m \in {"pool", "rpc", "registry", "events"} : SpStart(m)
      BY <1>5 DEF SpNext, SpPoolStep, SpSubmit, SpRun, SpFinish, SpNeverRuns, SpCancel, SpDrain, SpDrained, SpCall,
         SpReturns, SpNotify, SpHandled, SpDrainRegistry, SpRegistryDrained, SpRegister, SpTaskEnds, SpSubscribe, SpUnsubscribe, SpEmit, SpCallback
    <2> QED BY <1>5, <2>1 DEF SpStart, SpIInv, SpTypes, SpPoolInv, SpRpcInv, SpEventInv, SpRunning
  <1>6. CASE UNCHANGED spVars
    BY <1>6 DEF spVars, SpIInv, SpTypes, SpPoolInv, SpRpcInv, SpEventInv, SpRunning
  <1> QED BY <1>1, <1>2, <1>3, <1>4, <1>5, <1>6, SpModes

\* The invariant implies the properties: the slots in use and the free ones are
\* SpMost.
LEMMA SpInvImplies == SpIInv => SpSlotsKept /\ SpCleanedUp /\ SpEveryListener
  <1> SUFFICES ASSUME SpIInv PROVE SpSlotsKept /\ SpCleanedUp /\ SpEveryListener
    OBVIOUS
  <1>1. SpSlotsKept
    <2> SUFFICES ASSUME spMode = "pool"
                 PROVE Cardinality(SpRunning) <= SpMost /\ spFree + Cardinality(SpRunning) = SpMost
      BY DEF SpSlotsKept, SpRunning
    <2> QED BY SpFinite, SpAssumption DEF SpIInv, SpTypes, SpPoolInv
  <1>2. SpCleanedUp
    <2>1. ASSUME spMode = "pool", NEW t \in spRan
          PROVE SpDone(t) = (spResult[t] # "none" /\ t \notin spActive \cup spSession)
      <3>1. t \in SpTasks /\ SpPoolInv
        BY <2>1 DEF SpIInv, SpTypes
      <3> QED BY <2>1, <3>1 DEF SpPoolInv, SpDone
    <2>2. ASSUME spMode = "rpc", NEW t \in SpTasks, SpDone(t) PROVE t \notin spActive
      BY <2>2 DEF SpIInv, SpRpcInv, SpDone
    <2> QED BY <2>1, <2>2 DEF SpCleanedUp
  <1>3. SpEveryListener
    BY DEF SpIInv, SpEventInv, SpEveryListener
  <1> QED BY <1>1, <1>2, <1>3

\* The result of a call that is done does not change.
LEMMA SpFinalStep ==
  ASSUME SpIInv, [SpNext]_spVars
  PROVE  spMode = "rpc" => \A t \in SpTasks : SpDone(t) => spResult'[t] = spResult[t]
  BY SpRpcSteps DEF spVars


\* The invariant holds at all times.
LEMMA SpInvariance == SpSpec => []SpIInv
  BY SpInitInv, SpStep, PTL DEF SpSpec

\* The pool runs at most max_concurrent tasks and keeps nothing of a task that
\* ended, cancelled or not; every listener of an event is called once although
\* others raise.
THEOREM PoolSound == SpSpec => [](SpSlotsKept /\ SpCleanedUp /\ SpEveryListener)
<1>1. SpIInv => SpSlotsKept /\ SpCleanedUp /\ SpEveryListener
  BY SpInvImplies
<1> QED BY <1>1, SpInvariance, PTL

\* The result of an RPC call does not change once the call is done: a late
\* answer or a timeout after it changes nothing.
THEOREM AnswerFinal == SpSpec => SpAnswerIsFinal
<1> DEFINE A == spMode = "rpc" => \A t \in SpTasks : SpDone(t) => spResult'[t] = spResult[t]
<1>1. SpIInv /\ [SpNext]_spVars => [A]_spVars
  BY SpFinalStep
<1> HIDE DEF A
<1>2. SpSpec => [][A]_spVars
  BY <1>1, SpInvariance, PTL DEF SpSpec
<1> QED BY <1>2 DEF A, SpAnswerIsFinal

-----------------------------------------------------------------------------
(* Plugins, scheduler and MCP servers *)

\* The states of a call, and the calls that wait for their answer.
XtStates == {"idle", "waiting", "expired", "answered", "ok", "error"}
XtOpen(c) == xtCall[c].at \in {"waiting", "expired", "answered"}

\* Every request has a number of its own.
XtRpcInv ==
    /\ xtNext \in Nat \ {0}
    /\ xtCall \in [XtCallers -> [at : XtStates, id : Nat, got : Nat]]
    /\ \A c \in XtCallers : xtCall[c].id < xtNext /\ (XtOpen(c) => xtCall[c].id > 0)
    /\ \A c, d \in XtCallers : xtCall[c].id = xtCall[d].id /\ xtCall[c].id > 0 => c = d
    /\ \A c \in XtCallers : XtOpen(c) => xtCall[c].id \in xtPending
    /\ \A n \in xtPending : \E c \in XtCallers : XtOpen(c) /\ xtCall[c].id = n
    /\ XtOwnAnswer /\ XtReaderLives

\* What runs is known to start or to the stop that came after it.
XtStartInv ==
    /\ xtAt \in Nat /\ xtPhase \in {"next", "tools", "closing"} /\ (xtPhase # "next" => xtAt <= XtPlugins)
    /\ DOMAIN xtProc = 1 .. XtPlugins
    /\ xtStop = "no" => \A p \in 1 .. XtPlugins : xtProc[p] = "running" => p \in xtConns
    /\ xtStop # "no" /\ ~xtOverlap => /\ xtAt > XtPlugins
                                      /\ \A p \in 1 .. XtPlugins : xtProc[p] = "running" => p \in xtTodo
    /\ xtStop = "done" /\ ~xtOverlap => xtTodo = {}

\* A job of the pass that is still to be looked at has not run in it.
XtSchedInv ==
    /\ DOMAIN xtLast = XtCallers /\ DOMAIN xtJob = XtCallers /\ xtLeft \subseteq XtCallers /\ xtDue \subseteq XtCallers
    /\ xtRunning \in XtCallers \cup {XtNobody} /\ xtClock \in Nat
    /\ \A j \in xtDue : xtJob[j] # "none"
    /\ xtPass = -1 => xtDue = {} /\ xtLeft = {} /\ xtRunning = XtNobody
    /\ \A j \in xtDue : xtJob[j] = "active" =>
          \/ j \in xtLeft /\ XtElapsed(j, xtPass)
          \/ j = xtRunning
          \/ xtLast[j] = xtPass

\* A server that was looked at is connected or counted as failed; a
\* cancellation is that of the caller.
XtMcpInv ==
    /\ xtAt \in 1 .. XtPlugins + 1 /\ xtConns \cup xtGood = 1 .. (xtAt - 1)
    /\ xtPhase \in {"next", "calling", "answered", "cancelled"}
    /\ (xtPhase = "next" => ~xtCancelled) /\ (xtPhase = "cancelled" => xtCancelled) /\ (xtPhase = "answered" => ~xtCancelled)

\* The inductive invariant: each part in its mode.
XtIInv ==
    /\ XtRpcInv /\ XtSchedInv
    /\ xtMode \in {"off", "start"} => XtStartInv
    /\ xtMode \in {"off", "caps"} => xtPhase \in {"next", "done", "closing"}
    /\ XtCapsHold
    /\ xtMode \in {"off", "mcp"} => XtMcpInv

\* Before the first call nothing is pending, running or due.
LEMMA XtInitInv == XtInit => XtIInv
  <1> SUFFICES ASSUME XtInit PROVE XtIInv
    OBVIOUS
  <1> USE XtAssumption
  <1>1. XtRpcInv
    BY DEF XtInit, XtRpcInv, XtIdle, XtStates, XtOpen, XtOwnAnswer, XtReaderLives
  <1>2. XtSchedInv
    BY DEF XtInit, XtSchedInv
  <1>3. XtStartInv
    BY DEF XtInit, XtStartInv
  <1>4. XtMcpInv
    BY DEF XtInit, XtMcpInv
  <1> QED BY <1>1, <1>2, <1>3, <1>4 DEF XtInit, XtIInv, XtCapsHold

\* The steps of the plugin host's connection: requests, answers in any order,
\* timeouts, a death of the host.
LEMMA XtRpcStep ==
  ASSUME XtRpcInv, XtRpcNext
  PROVE  XtRpcInv' /\ XtOnlyRpc
  <1> DEFINE T == [at : XtStates, id : Nat, got : Nat]
  <1>0. xtCall \in [XtCallers -> T] /\ xtNext \in Nat \ {0}
    BY DEF XtRpcInv
  <1>1. CASE XtHostTakes \/ XtHostAnswers \/ XtToolPrints \/ XtHostDies \/ XtReaderEnds
    BY <1>1 DEF XtHostTakes, XtHostAnswers, XtToolPrints, XtHostDies, XtReaderEnds, XtRpcInv, XtOpen, XtOwnAnswer, XtReaderLives
  <1>2. CASE XtReads
    <2> DEFINE line == Head(xtOut)
               c == XtCallOf(line)
    <2>1. /\ xtReader' = TRUE /\ UNCHANGED <<xtPending, xtIn, xtHost, xtNext, xtPrints>> /\ XtOnlyRpc
          /\ \/ xtCall' = xtCall
             \/ /\ line \in xtPending /\ xtCall[c].at = "waiting"
                /\ xtCall' = [xtCall EXCEPT ![c].at = "answered", ![c].got = line]
      BY <1>2 DEF XtReads, XtSurvives, XtMatches
    <2>2. CASE xtCall' = xtCall
      BY <2>1, <2>2 DEF XtRpcInv, XtOpen, XtOwnAnswer, XtReaderLives
    <2>3. CASE line \in xtPending /\ xtCall[c].at = "waiting" /\ xtCall' = [xtCall EXCEPT ![c].at = "answered", ![c].got = line]
      <3>1. \E d \in XtCallers : xtCall[d].id = line
        BY <2>3 DEF XtRpcInv
      <3>2. c \in XtCallers /\ xtCall[c].id = line
        BY <3>1 DEF XtCallOf
      <3> HIDE DEF c, line
      <3>3. line \in Nat /\ xtCall[c] \in T
        BY <1>0, <3>2
      <3>4. /\ xtCall' \in [XtCallers -> T] /\ \A d \in XtCallers \ {c} : xtCall'[d] = xtCall[d]
            /\ xtCall'[c].at = "answered" /\ xtCall'[c].id = line /\ xtCall'[c].got = line
        BY <1>0, <2>3, <3>2, <3>3 DEF XtStates
      <3>5. \A d \in XtCallers : xtCall'[d].id = xtCall[d].id /\ (XtOpen(d)' <=> XtOpen(d))
        BY <2>3, <3>2, <3>4 DEF XtOpen
      <3> QED BY <2>1, <3>2, <3>4, <3>5 DEF XtRpcInv, XtOwnAnswer, XtReaderLives
    <2> QED BY <2>1, <2>2, <2>3
  <1>3. ASSUME NEW c \in XtCallers, XtTimeout(c) PROVE XtRpcInv' /\ XtOnlyRpc
    <2>1. /\ xtCall[c].at = "waiting" /\ XtOnlyRpc
          /\ xtCall' = [xtCall EXCEPT ![c].at = "expired"]
          /\ UNCHANGED <<xtPending, xtIn, xtOut, xtHost, xtReader, xtNext, xtPrints>>
      BY <1>3 DEF XtTimeout
    <2>2. /\ xtCall' \in [XtCallers -> T] /\ \A d \in XtCallers \ {c} : xtCall'[d] = xtCall[d]
          /\ xtCall'[c].at = "expired" /\ xtCall'[c].id = xtCall[c].id
      BY <1>0, <2>1 DEF XtStates
    <2>3. \A d \in XtCallers : xtCall'[d].id = xtCall[d].id /\ (XtOpen(d)' <=> XtOpen(d))
      BY <2>1, <2>2 DEF XtOpen
    <2> QED BY <2>1, <2>2, <2>3 DEF XtRpcInv, XtOwnAnswer, XtReaderLives
  <1>4. ASSUME NEW c \in XtCallers, XtResumes(c) PROVE XtRpcInv' /\ XtOnlyRpc
    <2> DEFINE a == IF xtCall[c].at = "answered" THEN "ok" ELSE "error"
    <2>1. /\ XtOpen(c) /\ XtOnlyRpc /\ xtPending' = xtPending \ {xtCall[c].id}
          /\ xtCall' = [xtCall EXCEPT ![c].at = a]
          /\ UNCHANGED <<xtIn, xtOut, xtHost, xtReader, xtNext, xtPrints>>
      BY <1>0, <1>4 DEF XtResumes, XtPops, XtOpen
    <2>2. a \in {"ok", "error"} /\ (a = "ok" => xtCall[c].at = "answered")
      OBVIOUS
    <2> HIDE DEF a
    <2>3. /\ xtCall' \in [XtCallers -> T] /\ \A d \in XtCallers : xtCall'[d].id = xtCall[d].id
          /\ \A d \in XtCallers \ {c} : xtCall'[d] = xtCall[d]
          /\ xtCall'[c].at = a /\ xtCall'[c].got = xtCall[c].got
      BY <1>0, <2>1, <2>2 DEF XtStates
    <2>4. \A d \in XtCallers : XtOpen(d)' <=> XtOpen(d) /\ d # c
      BY <2>2, <2>3 DEF XtOpen
    <2>5. \A d \in XtCallers \ {c} : XtOpen(d) => xtCall[d].id # xtCall[c].id
      BY <2>1 DEF XtRpcInv
    <2>6. XtOwnAnswer'
      BY <2>2, <2>3 DEF XtRpcInv, XtOwnAnswer
    <2>7. \A d \in XtCallers : XtOpen(d)' => xtCall'[d].id \in xtPending'
      BY <2>1, <2>3, <2>4, <2>5 DEF XtRpcInv
    <2>8. \A n \in xtPending' : \E d \in XtCallers : XtOpen(d)' /\ xtCall'[d].id = n
      <3> TAKE n \in xtPending'
      <3>1. n \in xtPending /\ n # xtCall[c].id
        BY <2>1
      <3>2. PICK d \in XtCallers : XtOpen(d) /\ xtCall[d].id = n
        BY <3>1 DEF XtRpcInv
      <3>3. d # c
        BY <3>1, <3>2
      <3> QED BY <2>3, <2>4, <3>2, <3>3
    <2>9. XtReaderLives'
      BY <2>1 DEF XtRpcInv, XtReaderLives
    <2>10. /\ \A d \in XtCallers : xtCall'[d].id < xtNext' /\ (XtOpen(d)' => xtCall'[d].id > 0)
           /\ \A d, e \in XtCallers : xtCall'[d].id = xtCall'[e].id /\ xtCall'[d].id > 0 => d = e
           /\ xtNext' \in Nat \ {0}
      BY <2>1, <2>3, <2>4 DEF XtRpcInv
    <2> QED BY <2>1, <2>3, <2>6, <2>7, <2>8, <2>9, <2>10 DEF XtRpcInv
  <1>5. ASSUME NEW c \in XtCallers, NEW ok \in BOOLEAN, XtSend(c, ok) PROVE XtRpcInv' /\ XtOnlyRpc
    <2> DEFINE a == IF ok THEN "waiting" ELSE "error"
    <2>1. /\ ~XtOpen(c) /\ XtOnlyRpc /\ xtNext' = xtNext + 1
          /\ xtPending' = IF ok THEN xtPending \cup {xtNext} ELSE xtPending
          /\ xtCall' = [xtCall EXCEPT ![c] = [at |-> a, id |-> xtNext, got |-> 0]]
          /\ UNCHANGED <<xtOut, xtHost, xtReader, xtPrints>>
      BY <1>0, <1>5 DEF XtSend, XtOpen
    <2>2. a \in {"waiting", "error"} /\ (a = "waiting" <=> ok)
      OBVIOUS
    <2> HIDE DEF a
    <2>3. /\ xtCall' \in [XtCallers -> T] /\ xtCall'[c].id = xtNext
          /\ \A d \in XtCallers \ {c} : xtCall'[d] = xtCall[d]
          /\ xtCall'[c].at = a
      BY <1>0, <2>1, <2>2 DEF XtStates
    <2>4. \A d \in XtCallers : XtOpen(d)' <=> IF d = c THEN ok ELSE XtOpen(d)
      BY <2>2, <2>3 DEF XtOpen
    <2>5. XtOwnAnswer' /\ XtReaderLives'
      BY <2>1, <2>2, <2>3 DEF XtRpcInv, XtOwnAnswer, XtReaderLives
    <2>6. /\ \A d \in XtCallers : xtCall'[d].id < xtNext' /\ (XtOpen(d)' => xtCall'[d].id > 0)
          /\ \A d, e \in XtCallers : xtCall'[d].id = xtCall'[e].id /\ xtCall'[d].id > 0 => d = e
          /\ xtNext' \in Nat \ {0}
      <3>1. \A d \in XtCallers : xtCall[d].id \in Nat /\ xtCall[d].id < xtNext
        BY <1>0 DEF XtRpcInv
      <3> QED BY <1>0, <2>1, <2>3, <2>4, <3>1 DEF XtRpcInv
    <2>7. \A d \in XtCallers : XtOpen(d)' => xtCall'[d].id \in xtPending'
      BY <2>1, <2>3, <2>4 DEF XtRpcInv
    <2>8. \A n \in xtPending' : \E d \in XtCallers : XtOpen(d)' /\ xtCall'[d].id = n
      <3> TAKE n \in xtPending'
      <3>1. CASE n \in xtPending
        <4>1. PICK d \in XtCallers : XtOpen(d) /\ xtCall[d].id = n
          BY <3>1 DEF XtRpcInv
        <4> QED BY <2>1, <2>3, <2>4, <4>1
      <3>2. CASE ok /\ n = xtNext
        BY <2>3, <2>4, <3>2
      <3> QED BY <2>1, <3>1, <3>2
    <2> QED BY <2>1, <2>3, <2>5, <2>6, <2>7, <2>8 DEF XtRpcInv
  <1> QED BY <1>1, <1>2, <1>3, <1>4, <1>5 DEF XtRpcNext

\* The steps of start_all and stop_all with plugins that die.
LEMMA XtStartStep ==
  ASSUME XtStartInv, XtStartNext
  PROVE  XtStartInv' /\ UNCHANGED <<xtMode, xtRpcVars, xtSchedVars, xtCancelled>>
  <1> USE XtAssumption DEF XtOnlyStart, XtAdvance
  <1>1. CASE XtClosed
    BY <1>1 DEF XtClosed, XtCloses, XtStartInv
  <1>2. CASE XtStopAll
    <2>1. /\ xtStop = "no" /\ xtStop' = "busy" /\ xtTodo' = xtConns /\ (xtOverlap' <=> xtAt <= XtPlugins)
          /\ UNCHANGED <<xtAt, xtPhase, xtProc, xtConns, xtReading, xtGood>> /\ XtOnlyStart
      BY <1>2 DEF XtStopAll
    <2>2. ~xtOverlap' => xtAt > XtPlugins
      BY <2>1 DEF XtStartInv
    <2> QED BY <2>1, <2>2 DEF XtStartInv
  <1>3. CASE XtStopped
    BY <1>3 DEF XtStopped, XtStartInv
  <1>4. ASSUME NEW ok \in BOOLEAN, XtSpawn(ok) PROVE XtStartInv' /\ XtOnlyStart
    BY <1>4 DEF XtSpawn, XtStartInv
  <1>5. ASSUME NEW ok \in BOOLEAN, XtTools(ok) PROVE XtStartInv' /\ XtOnlyStart
    BY <1>5 DEF XtTools, XtStartInv
  <1>6. ASSUME NEW p \in 1 .. XtPlugins, XtPluginDies(p) PROVE XtStartInv' /\ XtOnlyStart
    BY <1>6 DEF XtPluginDies, XtStartInv
  <1>7. ASSUME NEW p \in 1 .. XtPlugins, XtStopOne(p) PROVE XtStartInv' /\ XtOnlyStart
    BY <1>7 DEF XtStopOne, XtStartInv
  <1> QED BY <1>1, <1>2, <1>3, <1>4, <1>5, <1>6, <1>7 DEF XtStartNext

\* The steps of the scheduler and of the jobs it runs.
LEMMA XtSchedStep ==
  ASSUME XtSchedInv, XtSchedNext
  PROVE  XtSchedInv' /\ XtOnlySched
  <1> USE XtAssumption DEF XtNobody
  <1>1. CASE XtRunDue
    <2>1. /\ xtPass = -1 /\ xtPass' = xtClock /\ xtLeft' = {j \in XtCallers : xtJob[j] = "active"}
          /\ xtDue' \subseteq xtLeft' /\ \A j \in xtDue' : XtElapsed(j, xtPass')
          /\ UNCHANGED <<xtJob, xtLast, xtRunning, xtClock>> /\ XtOnlySched
      BY <1>1 DEF XtRunDue
    <2>2. xtClock # -1
      BY DEF XtSchedInv
    <2>3. \A j \in xtDue' : xtJob'[j] # "none" /\ (j \in xtLeft' /\ XtElapsed(j, xtPass)')
      BY <2>1 DEF XtElapsed
    <2> QED BY <2>1, <2>2, <2>3 DEF XtSchedInv
  <1>2. CASE XtClear
    BY <1>2 DEF XtClear, XtSchedInv, XtElapsed
  <1>3. CASE XtPassEnds
    BY <1>3 DEF XtPassEnds, XtSchedInv, XtElapsed
  <1>4. CASE XtTick
    BY <1>4 DEF XtTick, XtSchedInv, XtElapsed
  <1>5. ASSUME NEW ok \in BOOLEAN, XtInvoked(ok) PROVE XtSchedInv' /\ XtOnlySched
    BY <1>5 DEF XtInvoked, XtGoesOn, XtSchedInv, XtElapsed
  <1>6. ASSUME NEW j \in XtCallers, XtSchedule(j) PROVE XtSchedInv' /\ XtOnlySched
    BY <1>6 DEF XtSchedule, XtSchedInv, XtElapsed
  <1>7. ASSUME NEW j \in XtCallers, XtCancelJob(j) PROVE XtSchedInv' /\ XtOnlySched
    BY <1>7 DEF XtCancelJob, XtSchedInv, XtElapsed
  <1>8. ASSUME NEW j \in XtCallers, XtTakes(j) PROVE XtSchedInv' /\ XtOnlySched
    BY <1>8 DEF XtTakes, XtInvokes, XtSchedInv, XtElapsed
  <1> QED BY <1>1, <1>2, <1>3, <1>4, <1>5, <1>6, <1>7, <1>8 DEF XtSchedNext

\* The steps of the MCP connections and of a cancelled call.
LEMMA XtMcpStep ==
  ASSUME XtMcpInv, XtMcpNext
  PROVE  XtMcpInv' /\ UNCHANGED <<xtMode, xtRpcVars, xtSchedVars>>
  <1> USE XtAssumption DEF XtOnlyMcp
  <1>1. ASSUME NEW ok \in BOOLEAN, XtConnect(ok) PROVE XtMcpInv' /\ UNCHANGED <<xtMode, xtRpcVars, xtSchedVars>>
    <2>1. /\ xtAt \in 1 .. XtPlugins + 1 /\ xtAt <= XtPlugins /\ xtAt' = xtAt + 1 /\ xtConns' \cup xtGood' = (xtConns \cup xtGood) \cup {xtAt}
          /\ UNCHANGED <<xtPhase, xtCancelled, xtMode, xtRpcVars, xtSchedVars>>
      BY <1>1 DEF XtConnect, XtAfterFailure, XtMcpInv
    <2>2. 1 .. (xtAt' - 1) = (1 .. (xtAt - 1)) \cup {xtAt} /\ xtAt' \in 1 .. XtPlugins + 1
      BY <2>1
    <2> QED BY <2>1, <2>2 DEF XtMcpInv
  <1>2. ASSUME NEW p \in 1 .. XtPlugins, XtExecute(p) PROVE XtMcpInv' /\ UNCHANGED <<xtMode, xtRpcVars, xtSchedVars>>
    BY <1>2 DEF XtExecute, XtMcpInv
  <1>3. CASE XtCancel
    BY <1>3 DEF XtCancel, XtMcpInv
  <1>4. ASSUME NEW how, XtCallEnds(how) PROVE XtMcpInv' /\ UNCHANGED <<xtMode, xtRpcVars, xtSchedVars>>
    BY <1>4 DEF XtCallEnds, XtCancelOutcome, XtMcpInv
  <1> QED BY <1>1, <1>2, <1>3, <1>4 DEF XtMcpNext

\* The mode tells which of the five a step is of.
LEMMA XtModes ==
  /\ XtRpcNext => xtMode = "rpc"
  /\ XtStartNext => xtMode = "start"
  /\ XtCapsNext => xtMode = "caps"
  /\ XtSchedNext => xtMode = "sched"
  /\ XtMcpNext => xtMode = "mcp"
  BY DEF XtRpcNext, XtHostTakes, XtHostAnswers, XtToolPrints, XtHostDies, XtReads, XtReaderEnds, XtTimeout, XtResumes, XtSend,
     XtStartNext, XtClosed, XtStopAll, XtStopped, XtSpawn, XtTools, XtPluginDies, XtStopOne,
     XtCapsNext, XtApply, XtSchedNext, XtRunDue, XtClear, XtPassEnds, XtTick, XtInvoked, XtSchedule, XtCancelJob, XtTakes,
     XtMcpNext, XtConnect, XtExecute, XtCancel, XtCallEnds

\* Every step keeps the invariant.
LEMMA XtStep == XtIInv /\ [XtNext]_xtVars => XtIInv'
  <1> SUFFICES ASSUME XtIInv, [XtNext]_xtVars PROVE XtIInv'
    OBVIOUS
  <1>0. /\ UNCHANGED xtRpcVars => XtRpcInv'
        /\ UNCHANGED xtSchedVars => XtSchedInv'
        /\ UNCHANGED xtStartVars => (XtStartInv => XtStartInv') /\ (XtMcpInv => XtMcpInv')
    BY DEF XtIInv, xtRpcVars, xtSchedVars, xtStartVars, XtRpcInv, XtOpen, XtOwnAnswer, XtReaderLives, XtSchedInv, XtElapsed, XtStartInv, XtMcpInv
  <1>1. ASSUME NEW m \in {"rpc", "start", "caps", "sched", "mcp"}, XtChoose(m) PROVE XtIInv'
    <2>1. XtRpcInv' /\ XtSchedInv' /\ XtStartInv' /\ XtMcpInv'
      BY <1>0, <1>1 DEF XtIInv, XtChoose
    <2>2. xtPhase = "next" /\ xtPhase' = xtPhase
      BY <1>1 DEF XtIInv, XtChoose, xtStartVars, XtStartInv, XtMcpInv
    <2> QED BY <2>1, <2>2 DEF XtIInv, XtCapsHold
  <1>2. CASE XtRpcNext
    <2>1. xtMode = "rpc" /\ XtRpcInv' /\ UNCHANGED <<xtMode, xtStartVars, xtSchedVars>>
      BY <1>2, XtModes, XtRpcStep DEF XtIInv, XtOnlyRpc
    <2> QED BY <1>0, <2>1 DEF XtIInv, XtCapsHold
  <1>3. CASE XtStartNext
    <2>1. xtMode = "start" /\ XtStartInv' /\ UNCHANGED <<xtMode, xtRpcVars, xtSchedVars>>
      BY <1>3, XtModes, XtStartStep DEF XtIInv
    <2> QED BY <1>0, <2>1 DEF XtIInv, XtCapsHold
  <1>4. CASE XtCapsNext
    <2>1. PICK caps \in SUBSET XtCaps, b \in BOOLEAN : XtApply(caps, b)
      BY <1>4 DEF XtCapsNext
    <2>2. /\ xtMode = "caps" /\ UNCHANGED <<xtMode, xtRpcVars, xtSchedVars>> /\ xtPhase' = (IF b THEN "done" ELSE "closing")
          /\ xtGood' = caps /\ xtConns' = XtAllowed(caps, b)
      BY <2>1 DEF XtApply
    <2>3. /\ XtAllowed(caps, b) \cap {"net", "env"} = caps \cap {"net", "env"}
          /\ b => XtAllowed(caps, b) = caps \cup (IF "write" \in caps THEN {"read"} ELSE {})
      BY DEF XtAllowed, XtCaps
    <2>4. XtCapsHold'
      BY <2>2, <2>3 DEF XtCapsHold
    <2> QED BY <1>0, <2>2, <2>4 DEF XtIInv
  <1>5. CASE XtSchedNext
    <2>1. xtMode = "sched" /\ XtSchedInv' /\ UNCHANGED <<xtMode, xtRpcVars, xtStartVars>>
      BY <1>5, XtModes, XtSchedStep DEF XtIInv, XtOnlySched
    <2> QED BY <1>0, <2>1 DEF XtIInv, XtCapsHold
  <1>6. CASE XtMcpNext
    <2>1. xtMode = "mcp" /\ XtMcpInv' /\ UNCHANGED <<xtMode, xtRpcVars, xtSchedVars>>
      BY <1>6, XtModes, XtMcpStep DEF XtIInv
    <2> QED BY <1>0, <2>1 DEF XtIInv, XtCapsHold
  <1>7. CASE UNCHANGED xtVars
    <2>1. UNCHANGED <<xtMode, xtRpcVars, xtStartVars, xtSchedVars>>
      BY <1>7 DEF xtVars
    <2> QED BY <1>0, <2>1 DEF XtIInv, XtCapsHold, xtStartVars
  <1> QED BY <1>1, <1>2, <1>3, <1>4, <1>5, <1>6, <1>7 DEF XtNext

\* What the runs check of the extensions.
XtInvs ==
    /\ XtPendingExact /\ XtReaderLives /\ XtNoOrphan
    /\ XtOwnAnswer /\ XtCapsHold /\ XtAllDueRan /\ XtServersIndependent /\ XtCancelRight

\* The invariant implies the properties.
LEMMA XtInvImplies == XtIInv => XtInvs
  <1> SUFFICES ASSUME XtIInv PROVE XtInvs
    OBVIOUS
  <1> USE XtAssumption
  <1>1. XtPendingExact
    BY DEF XtIInv, XtRpcInv, XtOpen, XtPendingExact
  <1>2. XtReaderLives /\ XtOwnAnswer /\ XtCapsHold
    BY DEF XtIInv, XtRpcInv
  <1>3. XtNoOrphan
    BY DEF XtIInv, XtStartInv, XtNoOrphan
  <1>4. XtAllDueRan
    BY DEF XtIInv, XtSchedInv, XtAllDueRan, XtNobody
  <1>5. XtServersIndependent
    <2> SUFFICES ASSUME xtMode = "mcp", xtAt > XtPlugins PROVE xtConns \cup xtGood = 1 .. XtPlugins
      BY DEF XtServersIndependent
    <2>1. xtAt \in 1 .. XtPlugins + 1 /\ xtConns \cup xtGood = 1 .. (xtAt - 1)
      BY DEF XtIInv, XtMcpInv
    <2>2. xtAt - 1 = XtPlugins
      BY <2>1
    <2> QED BY <2>1, <2>2
  <1>6. XtCancelRight
    BY DEF XtIInv, XtMcpInv, XtCancelRight
  <1> QED BY <1>1, <1>2, <1>3, <1>4, <1>5, <1>6 DEF XtInvs

\* The scheduler looks at a job's state right before it runs it.
LEMMA XtCancelStep ==
  ASSUME [XtNext]_xtVars, xtRunning' # xtRunning, xtRunning' # XtNobody
  PROVE  xtJob[xtRunning'] # "cancelled"
  <1>1. XtSchedNext
    BY DEF XtNext, xtVars, xtSchedVars, XtChoose, XtCapsNext, XtApply,
       XtRpcNext, XtHostTakes, XtHostAnswers, XtToolPrints, XtHostDies, XtReads, XtReaderEnds, XtTimeout, XtResumes, XtSend, XtOnlyRpc,
       XtStartNext, XtClosed, XtStopAll, XtStopped, XtSpawn, XtTools, XtPluginDies, XtStopOne, XtOnlyStart,
       XtMcpNext, XtConnect, XtExecute, XtCancel, XtCallEnds, XtOnlyMcp
  <1> QED BY <1>1 DEF XtSchedNext, XtRunDue, XtClear, XtPassEnds, XtTick, XtInvoked, XtSchedule, XtCancelJob, XtTakes, XtInvokes


\* The invariant holds at all times.
LEMMA XtInvariance == XtSpec => []XtIInv
  BY XtInitInv, XtStep, PTL DEF XtSpec

\* A plugin's answer goes to the call that asked, with requests, answers, timeouts
\* and the death of the host in any order; pending calls are those whose callers
\* wait; no plugin process outlives stop_all; a pass of the scheduler runs every
\* job that was due; one MCP server that fails does not keep the others out.
THEOREM ExtensionsSound == XtSpec => []XtInvs
<1> QED BY XtInvImplies, XtInvariance, PTL

\* run_due_tasks does not run a job that was cancelled while the pass was at
\* another one.
THEOREM CancelledJobNotRun == XtSpec => XtCancelledNotRun
<1> DEFINE A == xtRunning' # xtRunning /\ xtRunning' # XtNobody => xtJob[xtRunning'] # "cancelled"
<1>1. XtIInv /\ [XtNext]_xtVars => [A]_xtVars
  BY XtCancelStep
<1> HIDE DEF A
<1>2. XtSpec => [][A]_xtVars
  BY <1>1, XtInvariance, PTL DEF XtSpec
<1> QED BY <1>2 DEF A, XtCancelledNotRun

-----------------------------------------------------------------------------
(* Sandboxes *)

\* A child that was given up by its timeout is dead; before it is started there is none.
SbExecInv ==
    /\ sbKind \in {"python", "bash", "tool"}
    /\ sbAt \in {"docker", "local", "waiting", "drain", "wait", "returned", "given up"}
    /\ sbAt \in {"docker", "local"} => sbProc = "none" /\ sbTmp = FALSE
    /\ sbAt \in {"drain", "wait"} => sbProc = "dead"
    /\ sbAt = "returned" => sbProc # "running" /\ sbTmp = FALSE
    /\ sbProc = "running" => sbLayers = SbApplied(sbKind, sbBroken)

\* What the seccomp program knows at each of its instructions.
SbBpfInv ==
    LET mine == sbCall.arch = SbAudit(sbKind)
        nr == sbCall.nr
    IN /\ sbKind \in SbArchs
       /\ \/ sbPc = 1
          \/ sbPc = 2 /\ sbAcc = sbCall.arch
          \/ sbPc = 3 /\ ~mine
          \/ sbPc = 4 /\ mine
          \/ sbPc = 5 /\ mine /\ sbAcc = nr
          \/ sbPc = 6 /\ nr = SbExecve(sbKind)
          \/ sbPc = 7 /\ mine /\ sbAcc = nr /\ nr # SbExecve(sbKind)
          \/ sbPc = 8 /\ nr = SbPtrace(sbKind)
          \/ sbPc = 9 /\ mine /\ nr \notin {SbExecve(sbKind), SbPtrace(sbKind)}
       /\ sbAt = "returned" => sbPc = 9
       /\ sbAt = "refused" => sbPc \in {3, 6, 8}

\* The counters of the unpacking agree with what was written.
SbUnpackInv ==
    /\ sbDone \in Seq(SbEntries) /\ sbLeft \in Seq(SbEntries)
    /\ IsFiniteSet(SbBytes) /\ Cardinality(SbBytes) = sbSum /\ sbSum \in Nat /\ sbSum <= SbMaxBytes
    /\ Len(sbDone) <= SbMaxFiles
    /\ sbKind \in {"zip", "tar"}
    /\ sbKind = "zip" /\ sbAt = "busy" => Len(sbDone) + Len(sbLeft) <= SbMaxFiles
    /\ \A i \in DOMAIN sbDone : sbDone[i].is # "link" /\ SbInside(SbPlace(sbDone[i]))

\* The inductive invariant: each part in its mode.
SbIInv ==
    /\ sbMode \in {"off", "exec", "bpf", "unpack", "path"}
    /\ sbMode = "off" => SbInit
    /\ sbMode = "exec" => SbExecInv
    /\ sbMode = "bpf" => SbBpfInv
    /\ sbMode = "unpack" => SbUnpackInv
    /\ sbMode = "path" => SbContained

\* Before anything is chosen the invariant holds.
LEMMA SbInitInv == SbInit => SbIInv
  BY DEF SbInit, SbIInv

\* The steps of a sandboxed command, with its children, its timeout and its
\* cancellation.
LEMMA SbExecSteps ==
  ASSUME SbIInv, sbMode = "exec", SbNext
  PROVE  SbExecInv' /\ sbMode' = "exec"
  <1>0. SbExecInv
    BY DEF SbIInv
  <1>1. CASE SbGuard \/ SbFork \/ SbChildEnds \/ SbKidsEnd \/ SbWaited \/ SbCancelled \/ SbCommunicated \/ SbTimeout
    BY <1>0, <1>1 DEF SbGuard, SbFork, SbChildEnds, SbKidsEnd, SbCommunicated, SbTimeout, SbWaited, SbCancelled, SbReturn, SbKilled,
       sbExecVars, SbExecInv
  <1>2. ASSUME NEW b \in BOOLEAN, SbDocker(b) PROVE SbExecInv' /\ sbMode' = "exec"
    BY <1>0, <1>2 DEF SbDocker, sbExecVars, SbExecInv
  <1>3. ASSUME NEW b \in BOOLEAN, NEW x \in SbBreakable, SbSpawn(b, x) PROVE SbExecInv' /\ sbMode' = "exec"
    <2>1. CASE b = TRUE
      BY <1>0, <1>3, <2>1 DEF SbSpawn, SbExecInv
    <2>2. CASE b = FALSE
      <3>1. sbTmp' = FALSE
        BY <1>3, <2>2 DEF SbSpawn
      <3> QED BY <1>0, <1>3, <2>2, <3>1 DEF SbSpawn, SbExecInv
    <2> QED BY <2>1, <2>2
  <1> QED BY <1>1, <1>2, <1>3 DEF SbNext, SbBegin, SbSyscall, SbBpfStep, SbEntry, SbUnpacked, SbCheck, SbUnpack

\* The instructions of the seccomp program.
LEMMA SbBpfSteps ==
  ASSUME SbIInv, sbMode = "bpf", SbNext
  PROVE  SbBpfInv' /\ sbMode' = "bpf"
  <1>0. SbBpfInv
    BY DEF SbIInv
  <1>1. SbBpfStep
    BY DEF SbNext, SbBegin, SbDocker, SbSpawn, SbGuard, SbFork, SbChildEnds, SbKidsEnd, SbCommunicated, SbTimeout, SbWaited, SbCancelled,
       SbSyscall, SbEntry, SbUnpacked, SbCheck, SbUnpack
  <1>2. UNCHANGED <<sbMode, sbKind, sbCall>> /\ sbAt = "busy"
    BY <1>1 DEF SbBpfStep, sbExecVars
  <1> DEFINE P == SbProgram(sbKind)
             i == P[sbPc]
  <1>3. /\ P[1] = SbLoad(4) /\ P[2] = SbIf(SbAudit(sbKind), 1, 0) /\ P[3] = SbRet(13) /\ P[4] = SbLoad(0)
        /\ P[5] = SbIf(SbExecve(sbKind), 0, 1) /\ P[6] = SbRet(13) /\ P[7] = SbIf(SbPtrace(sbKind), 0, 1)
        /\ P[8] = SbRet(13) /\ P[9] = SbRet(0)
    BY DEF SbProgram, SbDeny, SbAllow
  <1> HIDE DEF P
  <1>4. /\ i.op = "load" => sbAcc' = (IF i.k = 4 THEN sbCall.arch ELSE sbCall.nr) /\ sbPc' = sbPc + 1 /\ sbAt' = sbAt
        /\ i.op = "jeq" => sbPc' = sbPc + 1 + (IF sbAcc = i.k THEN i.jt ELSE i.jf) /\ UNCHANGED <<sbAcc, sbAt>>
        /\ i.op = "ret" => sbAt' = (IF i.k = 13 THEN "refused" ELSE "returned") /\ UNCHANGED <<sbPc, sbAcc>>
    BY <1>1 DEF SbBpfStep, SbDeny, P
  <1>5. CASE sbPc = 1 \/ sbPc = 4
    BY <1>0, <1>2, <1>3, <1>4, <1>5 DEF SbBpfInv, SbLoad
  <1>6. CASE sbPc = 2
    BY <1>0, <1>2, <1>3, <1>4, <1>6 DEF SbBpfInv, SbIf
  <1>7. CASE sbPc = 5
    BY <1>0, <1>2, <1>3, <1>4, <1>7 DEF SbBpfInv, SbIf
  <1>8. CASE sbPc = 7
    BY <1>0, <1>2, <1>3, <1>4, <1>8 DEF SbBpfInv, SbIf
  <1>9. CASE sbPc \in {3, 6, 8, 9}
    BY <1>0, <1>2, <1>3, <1>4, <1>9 DEF SbBpfInv, SbRet
  <1> QED BY <1>0, <1>2, <1>5, <1>6, <1>7, <1>8, <1>9 DEF SbBpfInv

\* The steps of unpacking: each entry is counted before it is written.
LEMMA SbUnpackSteps ==
  ASSUME SbIInv, sbMode = "unpack", SbNext
  PROVE  SbUnpackInv' /\ sbMode' = "unpack"
  <1> USE SbAssumption
  <1>0. SbUnpackInv
    BY DEF SbIInv
  <1>1. SbEntry \/ SbUnpacked
    BY DEF SbNext, SbBegin, SbDocker, SbSpawn, SbGuard, SbFork, SbChildEnds, SbKidsEnd, SbCommunicated, SbTimeout, SbWaited, SbCancelled,
       SbSyscall, SbBpfStep, SbCheck, SbUnpack
  <1>2. CASE SbUnpacked
    BY <1>0, <1>2 DEF SbUnpacked, sbExecVars, sbUnpackVars, SbUnpackInv, SbBytes
  <1>3. CASE SbEntry
    <2> DEFINE e == Head(sbLeft)
    <2>1. sbLeft # <<>> /\ sbAt = "busy" /\ UNCHANGED <<sbMode, sbKind>>
      BY <1>3 DEF SbEntry, sbExecVars
    <2>2. CASE SbRefused(e)
      BY <1>0, <1>3, <2>1, <2>2 DEF SbEntry, sbUnpackVars, SbUnpackInv, SbBytes
    <2>3. CASE ~SbRefused(e)
      <3>1. sbDone' = Append(sbDone, e) /\ sbLeft' = Tail(sbLeft) /\ sbSum' = sbSum + e.size /\ sbAt' = sbAt
        BY <1>3, <2>3 DEF SbEntry
      <3>2. /\ sbKind = "tar" => ~(Len(sbDone) + 1 > SbMaxFiles)
            /\ ~(sbSum + e.size > SbMaxBytes) /\ SbInside(SbPlace(e)) /\ e.is # "link"
        BY <2>3 DEF SbRefused, SbTooBig
      <3>3. e \in SbEntries /\ sbLeft' \in Seq(SbEntries) /\ Len(sbLeft) \in Nat /\ Len(sbLeft') = Len(sbLeft) - 1
        BY <1>0, <2>1, <3>1 DEF SbUnpackInv
      <3>4. e.size \in Nat
        BY <3>3 DEF SbEntries
      <3> HIDE DEF e
      <3> DEFINE n == Len(sbDone)
                 new == {n + 1} \X (1 .. e.size)
      <3>5. /\ sbDone \in Seq(SbEntries) /\ n \in Nat /\ sbDone' \in Seq(SbEntries) /\ Len(sbDone') = n + 1
            /\ DOMAIN sbDone = 1 .. n /\ DOMAIN sbDone' = 1 .. (n + 1) /\ sbDone'[n + 1] = e
            /\ \A i \in 1 .. n : sbDone'[i] = sbDone[i]
        BY <1>0, <3>1, <3>3 DEF SbUnpackInv
      <3>6. SbBytes' = SbBytes \cup new
        <4>1. \A x : x \in SbBytes <=> \E i \in 1 .. n : x \in {i} \X (1 .. sbDone[i].size)
          BY <3>5 DEF SbBytes
        <4>2. \A x : x \in SbBytes' <=> \E i \in 1 .. (n + 1) : x \in {i} \X (1 .. sbDone'[i].size)
          BY <3>5 DEF SbBytes
        <4>3. \A i : i \in 1 .. (n + 1) <=> i \in 1 .. n \/ i = n + 1
          BY <3>5
        <4>4. \A i \in 1 .. n : {i} \X (1 .. sbDone'[i].size) = {i} \X (1 .. sbDone[i].size)
          BY <3>5
        <4>5. {n + 1} \X (1 .. sbDone'[n + 1].size) = new
          BY <3>5
        <4> HIDE DEF new, n
        <4> QED BY <4>1, <4>2, <4>3, <4>4, <4>5, Zenon
      <3>7. SbBytes \cap new = {}
        <4>1. \A x \in SbBytes : x[1] \in 1 .. n
          BY <3>5 DEF SbBytes
        <4>2. \A x \in new : x[1] = n + 1
          OBVIOUS
        <4> QED BY <3>5, <4>1, <4>2
      <3>8. IsFiniteSet(new) /\ Cardinality(new) = e.size
        <4>1. IsFiniteSet({n + 1}) /\ Cardinality({n + 1}) = 1
          BY FS_Singleton
        <4>2. IsFiniteSet(1 .. e.size) /\ Cardinality(1 .. e.size) = e.size
          <5>1. \A k \in Nat : IsFiniteSet(1 .. k) /\ Cardinality(1 .. k) = IF 1 > k THEN 0 ELSE k - 1 + 1
            BY FS_Interval
          <5>2. \A k \in Nat : IsFiniteSet(1 .. k) /\ Cardinality(1 .. k) = k
            BY <5>1
          <5> QED BY <3>4, <5>2
        <4>3. IsFiniteSet(new) /\ Cardinality(new) = Cardinality({n + 1}) * Cardinality(1 .. e.size)
          BY <4>1, <4>2, FS_Product
        <4> QED BY <3>4, <4>1, <4>2, <4>3
      <3> HIDE DEF new
      <3>9. IsFiniteSet(SbBytes') /\ Cardinality(SbBytes') = sbSum'
        <4>1. IsFiniteSet(SbBytes) /\ Cardinality(SbBytes) = sbSum /\ sbSum \in Nat
          BY <1>0 DEF SbUnpackInv
        <4>2. Cardinality(SbBytes \cap new) = 0
          BY <3>7, FS_EmptySet
        <4>3. /\ IsFiniteSet(SbBytes \cup new)
              /\ Cardinality(SbBytes \cup new) = Cardinality(SbBytes) + Cardinality(new) - Cardinality(SbBytes \cap new)
          BY <3>8, <4>1, FS_Union
        <4>4. Cardinality(SbBytes \cup new) = sbSum + e.size
          BY <3>4, <3>8, <4>1, <4>2, <4>3
        <4> QED BY <3>1, <3>6, <4>3, <4>4
      <3>10. sbSum' \in Nat /\ sbSum' <= SbMaxBytes
        BY <1>0, <3>1, <3>2, <3>4 DEF SbUnpackInv
      <3>11. Len(sbDone') <= SbMaxFiles /\ (sbKind = "zip" => Len(sbDone') + Len(sbLeft') <= SbMaxFiles)
        <4>1. CASE sbKind = "tar"
          BY <3>2, <3>5, <4>1
        <4>2. CASE sbKind = "zip"
          <5>1. n + Len(sbLeft) <= SbMaxFiles
            BY <1>0, <2>1, <4>2 DEF SbUnpackInv
          <5>2. Len(sbLeft) # 0
            BY <1>0, <2>1 DEF SbUnpackInv
          <5> QED BY <3>3, <3>5, <5>1, <5>2
        <4> QED BY <1>0, <4>1, <4>2 DEF SbUnpackInv
      <3>12. \A i \in DOMAIN sbDone' : sbDone'[i].is # "link" /\ SbInside(SbPlace(sbDone'[i]))
        <4> TAKE i \in DOMAIN sbDone'
        <4>1. CASE i = n + 1
          BY <3>2, <3>5, <4>1
        <4>2. CASE i \in 1 .. n
          BY <1>0, <3>5, <4>2 DEF SbUnpackInv
        <4> QED BY <3>5, <4>1, <4>2
      <3> QED BY <1>0, <2>1, <3>3, <3>5, <3>9, <3>10, <3>11, <3>12 DEF SbUnpackInv
    <2> QED BY <2>2, <2>3
  <1> QED BY <1>1, <1>2, <1>3 DEF SbEntry, SbUnpacked

\* The choice of what is followed, and a path that is resolved.
LEMMA SbOffSteps ==
  ASSUME SbIInv, sbMode = "off", SbNext
  PROVE  SbIInv'
  <1> USE SbAssumption
  <1>0. SbInit
    BY DEF SbIInv
  <1>1. ASSUME NEW k \in {"python", "bash", "tool"}, NEW d \in BOOLEAN, SbBegin(k, d) PROVE SbIInv'
    BY <1>0, <1>1 DEF SbBegin, SbInit, SbIInv, SbExecInv
  <1>2. ASSUME NEW a \in SbArchs, NEW arch, NEW nr, SbSyscall(a, arch, nr) PROVE SbIInv'
    BY <1>0, <1>2 DEF SbSyscall, SbInit, SbIInv, SbBpfInv
  <1>3. ASSUME NEW p \in SbPaths, SbCheck(p) PROVE SbIInv'
    BY <1>0, <1>3 DEF SbCheck, SbIInv, SbContained, SbInside
  <1>4. ASSUME NEW k \in {"zip", "tar"}, NEW n \in 1 .. SbMaxEntries, NEW es \in [1 .. n -> SbEntries], SbUnpack(k, es) PROVE SbIInv'
    <2>1. es \in Seq(SbEntries)
      OBVIOUS
    <2>2. /\ sbMode' = "unpack" /\ sbKind' = k /\ sbLeft' = es /\ sbDone' = <<>> /\ sbSum' = 0
          /\ sbAt' = IF k = "zip" /\ Len(es) > SbMaxFiles THEN "refused" ELSE "busy"
      BY <1>0, <1>4 DEF SbUnpack, SbInit
    <2>3. SbBytes' = {}
      BY <2>2 DEF SbBytes
    <2>4. IsFiniteSet(SbBytes') /\ Cardinality(SbBytes') = 0
      BY <2>3, FS_EmptySet
    <2>5. k = "zip" /\ sbAt' = "busy" => Len(es) <= SbMaxFiles
      BY <2>1, <2>2
    <2>6. SbUnpackInv'
      BY <2>1, <2>2, <2>4, <2>5 DEF SbUnpackInv
    <2> QED BY <2>2, <2>6 DEF SbIInv
  <1> QED BY <1>1, <1>2, <1>3, <1>4 DEF SbNext, SbDocker, SbSpawn, SbGuard, SbFork, SbChildEnds, SbKidsEnd, SbCommunicated, SbTimeout,
             SbWaited, SbCancelled, SbBpfStep, SbEntry, SbUnpacked

\* Every step keeps the invariant.
LEMMA SbStep == SbIInv /\ [SbNext]_sbVars => SbIInv'
  <1> SUFFICES ASSUME SbIInv, [SbNext]_sbVars PROVE SbIInv'
    OBVIOUS
  <1>1. CASE UNCHANGED sbVars
    <2>1. SbInit => SbInit'
      BY <1>1 DEF sbVars, SbInit
    <2>2. SbExecInv => SbExecInv'
      BY <1>1 DEF sbVars, SbExecInv
    <2>3. SbBpfInv => SbBpfInv'
      BY <1>1 DEF sbVars, SbBpfInv
    <2>4. SbUnpackInv => SbUnpackInv'
      BY <1>1 DEF sbVars, SbUnpackInv, SbBytes
    <2>5. SbContained => SbContained'
      BY <1>1 DEF sbVars, SbContained
    <2> QED BY <1>1, <2>1, <2>2, <2>3, <2>4, <2>5 DEF sbVars, SbIInv
  <1>2. CASE SbNext /\ sbMode = "path"
    BY <1>2 DEF SbNext, SbBegin, SbDocker, SbSpawn, SbGuard, SbFork, SbChildEnds, SbKidsEnd, SbCommunicated, SbTimeout, SbWaited,
       SbCancelled, SbSyscall, SbBpfStep, SbEntry, SbUnpacked, SbCheck, SbUnpack
  <1>3. CASE SbNext /\ sbMode = "off"
    BY <1>3, SbOffSteps
  <1>4. CASE SbNext /\ sbMode = "exec"
    BY <1>4, SbExecSteps DEF SbIInv
  <1>5. CASE SbNext /\ sbMode = "bpf"
    BY <1>5, SbBpfSteps DEF SbIInv
  <1>6. CASE SbNext /\ sbMode = "unpack"
    BY <1>6, SbUnpackSteps DEF SbIInv
  <1> QED BY <1>1, <1>2, <1>3, <1>4, <1>5, <1>6 DEF SbIInv

\* What the runs check of the sandboxes.
SbInvs == SbNothingLeft /\ SbLayersIndependent /\ SbFilterExact /\ SbContained /\ SbUnpackBounded

\* The invariant implies the properties.
LEMMA SbInvImplies == SbIInv => SbInvs
  <1> SUFFICES ASSUME SbIInv PROVE SbInvs
    OBVIOUS
  <1>1. SbNothingLeft
    BY DEF SbIInv, SbExecInv, SbNothingLeft
  <1>2. SbLayersIndependent
    <2>1. {SbSteps[i] : i \in 1 .. 5} = {"namespaces", "limits", "capabilities", "landlock", "seccomp"}
      BY DEF SbSteps
    <2> QED BY <2>1 DEF SbIInv, SbExecInv, SbLayersIndependent, SbApplied
  <1>3. SbFilterExact
    <2> SUFFICES ASSUME sbMode = "bpf" PROVE SbFilterExact
      BY DEF SbFilterExact
    <2>1. SbBpfInv
      BY DEF SbIInv
    <2>2. DOMAIN SbProgram(sbKind) = 1 .. 9
      BY DEF SbProgram
    <2> QED BY <2>1, <2>2 DEF SbBpfInv, SbFilterExact
  <1>4. SbContained
    BY DEF SbIInv, SbContained
  <1>5. SbUnpackBounded
    BY DEF SbIInv, SbUnpackInv, SbUnpackBounded
  <1> QED BY <1>1, <1>2, <1>3, <1>4, <1>5 DEF SbInvs


\* The invariant holds at all times.
LEMMA SbInvariance == SbSpec => []SbIInv
  BY SbInitInv, SbStep, PTL DEF SbSpec

\* A command that returned left no process and no file behind, also after a
\* timeout; each layer is applied although another one failed; the seccomp program
\* refuses exactly execve and ptrace and foreign architectures; unpacking stays in
\* its directory and within its limits of files and bytes; a path that was accepted
\* lies in the workspace.
THEOREM SandboxesSound == SbSpec => []SbInvs
<1> QED BY SbInvImplies, SbInvariance, PTL

-----------------------------------------------------------------------------
(* The inference proxy *)

\* The types of the requests.
InLists == Seq(InProviders)
InReqs == [at : {"idle", "next", "calling", "ok", "failed"}, list : InLists, k : Nat \ {0}]

\* The breaker of a provider is tripped exactly while its failures reach the
\* threshold, since the last of them; and each of them was one of its row.
InRouteInv ==
    /\ inReq \in [InRequests -> InReqs] /\ inFail \in [InProviders -> Nat] /\ inRow \in [InProviders -> Nat]
    /\ inClock \in Nat /\ DOMAIN inTrip = InProviders /\ DOMAIN inLast = InProviders
    /\ \A r \in InRequests : inReq[r].at = "calling" => inReq[r].k <= Len(inReq[r].list)
    /\ \A p \in InProviders :
        /\ inTrip[p] = -1 => inFail[p] < InThreshold
        /\ inTrip[p] # -1 => inTrip[p] \in Nat /\ inFail[p] >= InThreshold /\ inTrip[p] = inLast[p]
        /\ inFail[p] >= InThreshold => inRow[p] >= InThreshold
        /\ inFail[p] < InThreshold => inFail[p] <= inRow[p]

\* The domain, the length and the elements of a sequence.
LEMMA InSeqFacts ==
  ASSUME NEW S, NEW q \in Seq(S)
  PROVE  DOMAIN q = 1 .. Len(q) /\ Len(q) \in Nat /\ \A i \in DOMAIN q : q[i] \in S
  OBVIOUS

\* A set of numbers that is not empty has a least one.
LEMMA InLeast ==
  ASSUME NEW T \in SUBSET Nat, T # {}
  PROVE  \E t \in T : \A u \in T : t <= u
  <1> DEFINE R == {ss \in Nat \X Nat : ss[1] < ss[2]}
  <1>1. IsWellFoundedOn(R, Nat)
    BY NatLessThanWellFounded DEF OpToRel
  <1> HIDE DEF R
  <1>2. PICK t \in T : \A u \in T : ~(<<u, t>> \in R)
    BY <1>1, WFMin
  <1>3. ASSUME NEW u \in T PROVE t <= u
    <2>1. u \in Nat /\ t \in Nat /\ <<u, t>> \notin R
      BY <1>2
    <2>2. ~(u < t)
      BY <2>1, Zenon DEF R
    <2> QED BY <2>1, <2>2
  <1> QED BY <1>3

\* The candidates of a profile, or of the default one, are providers.
LEMMA InProfileType ==
  ASSUME NEW name
  PROVE  InProfile(name) \in InLists
  <1>1. DOMAIN InProfiles = {"fast", "balanced", "accurate", "reasoning", "offline"}
    BY DEF InProfiles
  <1>2. \A n \in DOMAIN InProfiles : InProfiles[n] \in InLists
    <2>1. <<"default", "default", "gemini">> \in InLists /\ <<"default", "default", "deepseek">> \in InLists /\ <<"ollama">> \in InLists
      BY DEF InLists, InProviders
    <2>2. /\ InProfiles["fast"] = <<"default", "default", "gemini">> /\ InProfiles["balanced"] = <<"default", "default", "deepseek">>
          /\ InProfiles["accurate"] = <<"default", "default", "gemini">> /\ InProfiles["reasoning"] = <<"default", "default", "deepseek">>
          /\ InProfiles["offline"] = <<"ollama">>
      BY DEF InProfiles
    <2> QED BY <1>1, <2>1, <2>2
  <1> QED BY <1>1, <1>2 DEF InProfile

\* The candidate a request is at is a provider.
LEMMA InAtType ==
  ASSUME InRouteInv, NEW r \in InRequests, inReq[r].k <= Len(inReq[r].list)
  PROVE  InAt(r) \in InProviders
  <1>1. inReq[r].list \in Seq(InProviders) /\ inReq[r].k \in Nat \ {0}
    BY DEF InRouteInv, InReqs, InLists
  <1>2. inReq[r].k \in DOMAIN inReq[r].list
    BY <1>1, InSeqFacts
  <1> QED BY <1>1, <1>2, InSeqFacts DEF InAt

\* Every step of the requests and of the clock keeps the breakers in agreement
\* with what happened.
LEMMA InRouteStep ==
  ASSUME InRouteInv, InRouteNext
  PROVE  InRouteInv' /\ InOnlyRoute
  <1> USE InAssumption
  <1>0. /\ inReq \in [InRequests -> InReqs] /\ inFail \in [InProviders -> Nat] /\ inRow \in [InProviders -> Nat]
        /\ inClock \in Nat /\ DOMAIN inTrip = InProviders /\ DOMAIN inLast = InProviders
    BY DEF InRouteInv
  <1>1. ASSUME NEW r \in InRequests, NEW q \in InLists, inReq' = [inReq EXCEPT ![r] = [at |-> "next", list |-> q, k |-> 1]],
               UNCHANGED <<inFail, inTrip, inClock, inRow, inLast>>
        PROVE  InRouteInv'
    <2>1. [at |-> "next", list |-> q, k |-> 1] \in InReqs
      BY DEF InReqs
    <2> QED BY <1>0, <1>1, <2>1 DEF InRouteInv
  <1>2. ASSUME NEW r \in InRequests, NEW name \in InAsked, InExecute(r, name, "none") PROVE InRouteInv' /\ InOnlyRoute
    BY <1>1, <1>2, InProfileType DEF InExecute
  <1>3. ASSUME NEW r \in InRequests, InExecute(r, "balanced", "deepseek") PROVE InRouteInv' /\ InOnlyRoute
    <2>1. <<"deepseek">> \in InLists
      BY DEF InLists, InProviders
    <2> QED BY <1>1, <1>3, <2>1 DEF InExecute
  <1>4. ASSUME NEW r \in InRequests, InTake(r) PROVE InRouteInv' /\ InOnlyRoute
    <2> DEFINE p == InAt(r)
    <2>1. /\ inReq[r].at = "next" /\ inReq[r].k <= Len(inReq[r].list)
          /\ inReq' = [inReq EXCEPT ![r].at = "calling"] \/ inReq' = [inReq EXCEPT ![r].k = @ + 1]
          /\ inFail' = [inFail EXCEPT ![p] = InForgotten(p)] /\ inTrip' = [inTrip EXCEPT ![p] = IF InExpired(p) THEN -1 ELSE @]
          /\ UNCHANGED <<inClock, inRow, inLast>> /\ InOnlyRoute
      BY <1>4 DEF InTake
    <2>2. p \in InProviders
      BY <2>1, InAtType
    <2> HIDE DEF p
    <2>3. inReq' \in [InRequests -> InReqs] /\ \A s \in InRequests : inReq'[s].at = "calling" => inReq'[s].k <= Len(inReq'[s].list)
      <3>1. inReq[r] \in InReqs /\ \A s \in InRequests : inReq[s].at = "calling" => inReq[s].k <= Len(inReq[s].list)
        BY <1>0 DEF InRouteInv
      <3>2. CASE inReq' = [inReq EXCEPT ![r].at = "calling"]
        <4>1. /\ inReq' \in [InRequests -> InReqs] /\ inReq'[r].k = inReq[r].k /\ inReq'[r].list = inReq[r].list
              /\ \A s \in InRequests : s # r => inReq'[s] = inReq[s]
          BY <1>0, <3>1, <3>2 DEF InReqs
        <4> QED BY <2>1, <3>1, <4>1
      <3>3. CASE inReq' = [inReq EXCEPT ![r].k = @ + 1]
        <4>1. inReq[r].k + 1 \in Nat \ {0}
          BY <3>1 DEF InReqs
        <4>2. /\ inReq' \in [InRequests -> InReqs] /\ inReq'[r].at = "next"
              /\ \A s \in InRequests : s # r => inReq'[s] = inReq[s]
          BY <1>0, <2>1, <3>1, <3>3, <4>1 DEF InReqs
        <4> QED BY <3>1, <4>2
      <3> QED BY <2>1, <3>2, <3>3
    <2>4. inFail' \in [InProviders -> Nat] /\ DOMAIN inTrip' = InProviders
      BY <1>0, <2>1, <2>2 DEF InForgotten
    <2>5. \A s \in InProviders : s # p => inFail'[s] = inFail[s] /\ inTrip'[s] = inTrip[s]
      BY <1>0, <2>1
    <2>6. CASE InExpired(p)
      <3>1. inFail'[p] = 0 /\ inTrip'[p] = -1
        BY <1>0, <2>1, <2>2, <2>6 DEF InForgotten
      <3> QED BY <1>0, <2>1, <2>2, <2>3, <2>4, <2>5, <3>1 DEF InRouteInv
    <2>7. CASE ~InExpired(p)
      <3>1. inFail'[p] = inFail[p] /\ inTrip'[p] = inTrip[p]
        BY <1>0, <2>1, <2>2, <2>7 DEF InForgotten
      <3> QED BY <1>0, <2>1, <2>2, <2>3, <2>4, <2>5, <3>1 DEF InRouteInv
    <2> QED BY <2>6, <2>7
  <1>5. ASSUME NEW r \in InRequests, NEW ok \in BOOLEAN, InReturn(r, ok) PROVE InRouteInv' /\ InOnlyRoute
    <2> DEFINE p == InAt(r)
               f == IF ok THEN 0 ELSE inFail[p] + 1
    <2>1. /\ inReq[r].at = "calling" /\ InOnlyRoute /\ inClock' = inClock
          /\ inFail' = [inFail EXCEPT ![p] = f]
          /\ inTrip' = [inTrip EXCEPT ![p] = IF ok THEN -1 ELSE IF f >= InThreshold THEN inClock ELSE @]
          /\ inRow' = [inRow EXCEPT ![p] = IF ok THEN 0 ELSE IF @ < InThreshold THEN @ + 1 ELSE @]
          /\ inLast' = [inLast EXCEPT ![p] = IF ok THEN @ ELSE inClock]
          /\ inReq' = [inReq EXCEPT ![r] = IF ok THEN [InIdle EXCEPT !.at = "ok"] ELSE [at |-> "next", list |-> inReq[r].list, k |-> InAfterFailure(inReq[r].k)]]
      BY <1>5 DEF InReturn, InRecord
    <2>2. p \in InProviders
      BY <2>1, InAtType DEF InRouteInv
    <2> HIDE DEF p
    <2>3. inFail[p] \in Nat /\ inRow[p] \in Nat /\ f \in Nat
      BY <1>0, <2>2
    <2> HIDE DEF f
    <2>4. inReq' \in [InRequests -> InReqs] /\ \A s \in InRequests : inReq'[s].at = "calling" => inReq'[s].k <= Len(inReq'[s].list)
      <3>1. inReq[r] \in InReqs /\ inReq[r].k + 1 \in Nat \ {0}
        BY <1>0 DEF InReqs
      <3>2. CASE ok
        <4>1. <<>> \in InLists
          BY DEF InLists
        <4>2. [InIdle EXCEPT !.at = "ok"] \in InReqs /\ [InIdle EXCEPT !.at = "ok"].at = "ok"
          BY <4>1 DEF InIdle, InReqs
        <4> QED BY <1>0, <2>1, <3>2, <4>2 DEF InRouteInv
      <3>3. CASE ~ok
        <4>7. inReq'[r] \in InReqs /\ inReq'[r].at = "next"
          BY <1>0, <2>1, <3>1, <3>3 DEF InReqs, InAfterFailure
        <4>3. DOMAIN inReq' = InRequests /\ \A s \in InRequests : s # r => inReq'[s] = inReq[s]
          BY <1>0, <2>1
        <4>4. \A s \in InRequests : inReq'[s] \in InReqs
          BY <1>0, <4>7, <4>3
        <4>5. inReq' = [s \in InRequests |-> inReq'[s]]
          BY <1>0, <2>1
        <4>6. inReq' \in [InRequests -> InReqs]
          BY <4>4, <4>5
        <4> QED BY <4>7, <4>3, <4>6 DEF InRouteInv
      <3> QED BY <3>2, <3>3
    <2>5. /\ inFail' \in [InProviders -> Nat] /\ inRow' \in [InProviders -> Nat]
          /\ DOMAIN inTrip' = InProviders /\ DOMAIN inLast' = InProviders /\ inClock' \in Nat
          /\ \A s \in InProviders : s # p => inFail'[s] = inFail[s] /\ inTrip'[s] = inTrip[s] /\ inRow'[s] = inRow[s] /\ inLast'[s] = inLast[s]
      <3>1. inFail' \in [InProviders -> Nat] /\ \A s \in InProviders : s # p => inFail'[s] = inFail[s]
        BY <1>0, <2>1, <2>3
      <3>5. inRow[p] + 1 \in Nat /\ 0 \in Nat
        BY <2>3
      <3>6. PICK v \in Nat : inRow' = [inRow EXCEPT ![p] = v]
        <4>1. CASE ok
          BY <2>1, <3>5, <4>1
        <4>2. CASE ~ok /\ inRow[p] < InThreshold
          BY <2>1, <3>5, <4>2
        <4>3. CASE ~ok /\ ~(inRow[p] < InThreshold)
          BY <2>1, <2>3, <4>3
        <4> QED BY <4>1, <4>2, <4>3
      <3>2. inRow' \in [InProviders -> Nat] /\ \A s \in InProviders : s # p => inRow'[s] = inRow[s]
        BY <1>0, <3>6
      <3>3. DOMAIN inTrip' = InProviders /\ \A s \in InProviders : s # p => inTrip'[s] = inTrip[s]
        BY <1>0, <2>1
      <3>4. DOMAIN inLast' = InProviders /\ \A s \in InProviders : s # p => inLast'[s] = inLast[s]
        BY <1>0, <2>1
      <3> QED BY <1>0, <2>1, <3>1, <3>2, <3>3, <3>4
    <2>6. /\ inTrip'[p] = -1 => inFail'[p] < InThreshold
          /\ inTrip'[p] # -1 => inTrip'[p] \in Nat /\ inFail'[p] >= InThreshold /\ inTrip'[p] = inLast'[p]
          /\ inFail'[p] >= InThreshold => inRow'[p] >= InThreshold
          /\ inFail'[p] < InThreshold => inFail'[p] <= inRow'[p]
      <3>1. CASE ok
        <4>1. inFail'[p] = 0 /\ inTrip'[p] = -1 /\ inRow'[p] = 0
          BY <1>0, <2>1, <2>2, <3>1 DEF f
        <4> QED BY <4>1
      <3>2. CASE ~ok
        <4>1. /\ inFail'[p] = inFail[p] + 1 /\ inTrip'[p] = (IF inFail[p] + 1 >= InThreshold THEN inClock ELSE inTrip[p])
              /\ inRow'[p] = (IF inRow[p] < InThreshold THEN inRow[p] + 1 ELSE inRow[p]) /\ inLast'[p] = inClock
          BY <1>0, <2>1, <2>2, <3>2 DEF f
        <4>2. /\ inTrip[p] = -1 => inFail[p] < InThreshold
              /\ inTrip[p] # -1 => inFail[p] >= InThreshold
              /\ inFail[p] >= InThreshold => inRow[p] >= InThreshold
              /\ inFail[p] < InThreshold => inFail[p] <= inRow[p]
          BY <2>2 DEF InRouteInv
        <4> QED BY <1>0, <2>3, <4>1, <4>2
      <3> QED BY <3>1, <3>2
    <2> QED BY <2>1, <2>4, <2>5, <2>6 DEF InRouteInv
  <1>6. ASSUME NEW r \in InRequests, InGiveUp(r) PROVE InRouteInv' /\ InOnlyRoute
    <2>1. <<>> \in InLists
      BY DEF InLists
    <2>2. [InIdle EXCEPT !.at = "failed"] \in InReqs /\ [InIdle EXCEPT !.at = "failed"].at = "failed"
      BY <2>1 DEF InIdle, InReqs
    <2> QED BY <1>0, <1>6, <2>2 DEF InGiveUp, InRouteInv
  <1>7. CASE InTick
    BY <1>7 DEF InTick, InRouteInv
  <1> QED BY <1>2, <1>3, <1>4, <1>5, <1>6, <1>7 DEF InRouteNext

\* A provider that is passed over failed often and recently.
LEMMA InSkipFact ==
  ASSUME InRouteInv, NEW p \in InProviders, ~InAvailable(p)
  PROVE  inRow[p] >= InThreshold /\ inClock - inLast[p] < InRecovery
  <1> USE InAssumption
  <1>1. /\ inTrip[p] = -1 => inFail[p] < InThreshold
        /\ inTrip[p] # -1 => inTrip[p] \in Nat /\ inFail[p] >= InThreshold /\ inTrip[p] = inLast[p]
        /\ inFail[p] >= InThreshold => inRow[p] >= InThreshold
        /\ inClock \in Nat
    BY DEF InRouteInv
  <1>2. inTrip[p] # -1 /\ ~InExpired(p)
    BY <1>1 DEF InAvailable, InForgotten, InExpired
  <1> QED BY <1>1, <1>2 DEF InExpired

\* What InSkipsRecent says of a step.
InSkip(r) ==
    (inMode = "route" /\ inReq[r].at = "next" /\ inReq'[r].at = "next" /\ inReq'[r].k = inReq[r].k + 1)
       => inRow[InAt(r)] >= InThreshold /\ (inClock - inLast[InAt(r)] < InRecovery)

\* No step other than a look at an unavailable provider moves a request on to
\* the next candidate.
LEMMA InSkipStep ==
  ASSUME InRouteInv, [InNext]_inVars, NEW r \in InRequests
  PROVE  InSkip(r)
  <1> SUFFICES ASSUME inReq[r].at = "next", inReq'[r].at = "next", inReq'[r].k = inReq[r].k + 1
               PROVE  inRow[InAt(r)] >= InThreshold /\ (inClock - inLast[InAt(r)] < InRecovery)
    BY DEF InSkip
  <1>0. inReq \in [InRequests -> InReqs] /\ inReq[r].k \in Nat
    BY DEF InRouteInv, InReqs
  <1>1. ~UNCHANGED inReq
    BY <1>0
  <1>2. ASSUME NEW q \in InRequests, NEW name, NEW override, InExecute(q, name, override) PROVE FALSE
    <2>1. q # r
      BY <1>2 DEF InExecute
    <2>2. inReq'[r] = inReq[r]
      BY <1>0, <1>2, <2>1 DEF InExecute
    <2> QED BY <1>0, <2>2
  <1>3. ASSUME NEW q \in InRequests, NEW ok \in BOOLEAN, InReturn(q, ok) PROVE FALSE
    <2>1. q # r
      BY <1>3 DEF InReturn
    <2>2. inReq'[r] = inReq[r]
      BY <1>0, <1>3, <2>1 DEF InReturn
    <2> QED BY <1>0, <2>2
  <1>4. ASSUME NEW q \in InRequests, InGiveUp(q) PROVE FALSE
    <2>1. CASE q = r
      <3>1. inReq'[r].at = "failed"
        BY <1>0, <1>4, <2>1 DEF InGiveUp, InIdle
      <3> QED BY <3>1
    <2>2. CASE q # r
      <3>1. inReq'[r] = inReq[r]
        BY <1>0, <1>4, <2>2 DEF InGiveUp
      <3> QED BY <1>0, <3>1
    <2> QED BY <2>1, <2>2
  <1>5. ASSUME NEW q \in InRequests, InTake(q) PROVE inRow[InAt(r)] >= InThreshold /\ (inClock - inLast[InAt(r)] < InRecovery)
    <2>1. q = r
      <3>1. CASE q # r
        <4>1. inReq'[r] = inReq[r]
          BY <1>0, <1>5, <3>1 DEF InTake
        <4> QED BY <1>0, <4>1
      <3> QED BY <3>1
    <2>2. ~InAvailable(InAt(r))
      <3>1. CASE InAvailable(InAt(r))
        <4>1. inReq' = [inReq EXCEPT ![r].at = "calling"]
          BY <1>5, <2>1, <3>1 DEF InTake
        <4>2. inReq'[r].k = inReq[r].k
          BY <1>0, <4>1 DEF InReqs
        <4> QED BY <1>0, <4>2
      <3> QED BY <3>1
    <2>3. InAt(r) \in InProviders
      BY <1>5, <2>1, InAtType DEF InTake
    <2> QED BY <2>2, <2>3, InSkipFact
  <1>6. CASE InRouteNext
    BY <1>1, <1>2, <1>3, <1>4, <1>5, <1>6 DEF InRouteNext, InTick
  <1>7. CASE UNCHANGED inVars
    BY <1>1, <1>7 DEF inVars, inRouteVars
  <1>8. CASE InRedactNext
    BY <1>1, <1>8 DEF InRedactNext, InScan, InReplace, inRouteVars
  <1>9. ASSUME NEW m, InChoose(m) PROVE FALSE
    BY <1>1, <1>9 DEF InChoose, inRouteVars
  <1>10. ASSUME NEW code, NEW words, InNormalize(code, words) PROVE FALSE
    BY <1>1, <1>10 DEF InNormalize, inRouteVars
  <1> QED BY <1>6, <1>7, <1>8, <1>9, <1>10 DEF InNext

---------------------------------------------------------------------------
\* What the text of an error may speak of, and the errors as they were
\* normalized.
InWords == {"rate", "auth", "context", "timeout", "missing", "server", "invalid"}
InErrInv ==
    \/ inErr = InNoError
    \/ \E code \in {0, 400, 401, 403, 404, 408, 418, 429, 500, 503, 504}, words \in SUBSET InWords :
        inErr = [status |-> code, words |-> words, class |-> InClass(code, words), retry |-> InRetryable(InClass(code, words))]

\* The order in which the classes are tried.
LEMMA InOrderFacts ==
  /\ DOMAIN InOrder = 1 .. 7 /\ {InOrder[i] : i \in DOMAIN InOrder} = InWords
  /\ InOrder[1] = "rate" /\ InOrder[2] = "auth" /\ InOrder[3] = "context" /\ InOrder[4] = "timeout"
  /\ InOrder[5] = "missing" /\ InOrder[6] = "server" /\ InOrder[7] = "invalid"
  <1>1. DOMAIN InOrder = 1 .. 7
    BY DEF InOrder
  <1>2. /\ InOrder[1] = "rate" /\ InOrder[2] = "auth" /\ InOrder[3] = "context" /\ InOrder[4] = "timeout"
        /\ InOrder[5] = "missing" /\ InOrder[6] = "server" /\ InOrder[7] = "invalid"
    BY DEF InOrder
  <1>3. 1 .. 7 = {1, 2, 3, 4, 5, 6, 7}
    OBVIOUS
  <1>4. {InOrder[i] : i \in DOMAIN InOrder} = InWords
    BY <1>1, <1>2, <1>3 DEF InWords
  <1> QED BY <1>1, <1>2, <1>4

\* When each class fits.
LEMMA InFitFacts ==
  ASSUME NEW code, NEW words
  PROVE  /\ InFits(1, code, words) <=> code = 429 \/ "rate" \in words
         /\ InFits(2, code, words) <=> code \in {401, 403} \/ "auth" \in words
         /\ InFits(3, code, words) <=> "context" \in words
         /\ InFits(4, code, words) <=> code \in {408, 504} \/ "timeout" \in words
         /\ InFits(5, code, words) <=> code = 404 \/ "missing" \in words
         /\ InFits(6, code, words) <=> code \in {500, 503, 504} \/ "server" \in words
         /\ InFits(7, code, words) <=> code = 400 \/ "invalid" \in words
  <1>1. /\ InStatuses["rate"] = {429} /\ InStatuses["auth"] = {401, 403} /\ InStatuses["context"] = {}
        /\ InStatuses["timeout"] = {408, 504} /\ InStatuses["missing"] = {404}
        /\ InStatuses["server"] = {500, 503, 504} /\ InStatuses["invalid"] = {400}
    BY DEF InStatuses
  <1> QED BY <1>1, InOrderFacts DEF InFits

\* The class of an error is the first that fits.
LEMMA InClassFacts ==
  ASSUME NEW code, NEW words
  PROVE  \/ /\ \A i \in 1 .. 7 : ~InFits(i, code, words)
            /\ InClass(code, words) = "other"
         \/ \E i \in 1 .. 7 : /\ InClass(code, words) = InOrder[i] /\ InFits(i, code, words)
                              /\ \A j \in 1 .. 7 : j < i => ~InFits(j, code, words)
  <1> DEFINE fit == {i \in DOMAIN InOrder : InFits(i, code, words)}
             w == CHOOSE i \in fit : \A j \in fit : i <= j
  <1>1. fit = {i \in 1 .. 7 : InFits(i, code, words)}
    BY InOrderFacts
  <1>2. InClass(code, words) = IF fit = {} THEN "other" ELSE InOrder[w]
    BY DEF InClass
  <1> HIDE DEF fit
  <1>3. CASE fit = {}
    BY <1>1, <1>2, <1>3
  <1>4. CASE fit # {}
    <2>1. \E i \in fit : \A j \in fit : i <= j
      <3>1. fit \subseteq Nat
        BY <1>1
      <3> QED BY <1>4, <3>1, InLeast
    <2>2. w \in fit /\ \A j \in fit : w <= j
      BY <2>1
    <2> HIDE DEF w
    <2>3. \A j \in 1 .. 7 : j < w => ~InFits(j, code, words)
      BY <1>1, <2>2
    <2> QED BY <1>1, <1>2, <1>4, <2>2, <2>3
  <1> QED BY <1>3, <1>4

\* A classified error is retried rightly.
LEMMA InRetryFact ==
  ASSUME InErrInv
  PROVE  InRetryRight
  <1> SUFFICES ASSUME inErr # InNoError
               PROVE  /\ inErr.retry => "rate" \in inErr.words \/ inErr.status = 429 \/ (inErr.words \cap {"auth", "context"} = {} /\ inErr.status \notin {401, 403})
                      /\ (inErr.status \in {408, 429} \cup 500 .. 599 /\ inErr.words \subseteq {"rate", "timeout", "server", "invalid"}) => inErr.retry
    BY DEF InRetryRight
  <1>1. PICK code \in {0, 400, 401, 403, 404, 408, 418, 429, 500, 503, 504}, words \in SUBSET InWords :
            inErr = [status |-> code, words |-> words, class |-> InClass(code, words), retry |-> InRetryable(InClass(code, words))]
    BY DEF InErrInv
  <1>2. inErr.status = code /\ inErr.words = words /\ inErr.retry = InRetryable(InClass(code, words))
    BY <1>1
  <1> DEFINE c == InClass(code, words)
             R == InRetryable(InClass(code, words))
             A == "rate" \in words \/ code = 429 \/ ("auth" \notin words /\ "context" \notin words /\ code \notin {401, 403})
             B == (code \in {408, 429, 500, 503, 504} /\ words \subseteq {"rate", "timeout", "server", "invalid"})
  <1>3. R <=> c \in {"rate", "timeout", "server"}
    BY DEF InRetryable
  <1>4. (R => A) /\ (B => R)
    <2>1. CASE /\ \A i \in 1 .. 7 : ~InFits(i, code, words)
               /\ c = "other"
      <3>1. ~InFits(1, code, words) /\ ~InFits(4, code, words) /\ ~InFits(6, code, words)
        BY <2>1
      <3> QED BY <1>3, <2>1, <3>1, InFitFacts
    <2>2. CASE \E i \in 1 .. 7 : /\ c = InOrder[i] /\ InFits(i, code, words)
                                 /\ \A j \in 1 .. 7 : j < i => ~InFits(j, code, words)
      <3>1. PICK i \in 1 .. 7 : /\ c = InOrder[i] /\ InFits(i, code, words)
                                /\ \A j \in 1 .. 7 : j < i => ~InFits(j, code, words)
        BY <2>2
      <3> HIDE DEF c, R
      <3>2. CASE i = 1
        BY <1>3, <3>1, <3>2, InFitFacts, InOrderFacts
      <3>3. CASE i \in {2, 3, 5}
        BY <1>3, <3>1, <3>3, InFitFacts, InOrderFacts
      <3>4. CASE i \in {4, 6}
        <4>1. ~InFits(2, code, words) /\ ~InFits(3, code, words)
          BY <3>1, <3>4
        <4>2. c \in {"timeout", "server"}
          BY <3>1, <3>4, InOrderFacts
        <4> QED BY <1>3, <4>1, <4>2, InFitFacts
      <3>5. CASE i = 7
        <4>1. ~InFits(1, code, words) /\ ~InFits(4, code, words) /\ ~InFits(6, code, words) /\ c = "invalid"
          BY <3>1, <3>5, InOrderFacts
        <4> QED BY <1>3, <4>1, InFitFacts
      <3> QED BY <3>1, <3>2, <3>3, <3>4, <3>5
    <2> QED BY <2>1, <2>2, InClassFacts
  <1>5. inErr.status \in {408, 429} \cup 500 .. 599 => code \in {408, 429, 500, 503, 504}
    BY <1>2
  <1>6. A => "rate" \in inErr.words \/ inErr.status = 429 \/ (inErr.words \cap {"auth", "context"} = {} /\ inErr.status \notin {401, 403})
    BY <1>2
  <1> HIDE DEF R, A
  <1> QED BY <1>2, <1>4, <1>5, <1>6 DEF R

---------------------------------------------------------------------------
(* The redaction *)
\* A position inside a match, and the positions of replacements.
InIn(m, x) == m.from <= x /\ x <= m.to
InZeros(t) == {i \in DOMAIN t : t[i] = 0}
\* The text t of the matches ms of which the ones in todo are not replaced yet.
InTextOf(t, todo, ms, size) ==
    /\ todo \subseteq ms /\ ms \subseteq InSpans /\ InApart(ms) /\ size \in Nat /\ t \in Seq(Nat)
    /\ \A i \in DOMAIN t : t[i] = 0 \/ (t[i] \in 1 .. size /\ \A m \in ms \ todo : ~InIn(m, t[i]))
    /\ \A x \in 1 .. size : (\E m \in ms \ todo : InIn(m, x)) \/ \E i \in DOMAIN t : t[i] = x
    /\ \A i, j \in DOMAIN t : i < j /\ t[i] # 0 /\ t[j] # 0 => t[i] < t[j]
    /\ \A n \in todo : \A x \in 1 .. n.to : x \in DOMAIN t /\ t[x] = x
    /\ Cardinality(InZeros(t)) = InMask * Cardinality(ms \ todo)
    /\ \A m \in ms \ todo, n \in todo : n.to < m.from
\* It holds of the text at hand.
InTextInv == InTextOf(inText, inTodo, inMatches, inSize)

\* There are finitely many matches.
LEMMA InSpansFinite == IsFiniteSet(InSpans)
  <1> USE InAssumption
  <1> DEFINE P == (1 .. InLength) \X (1 .. InLength)
             f == [m \in InSpans |-> <<m.from, m.to>>]
  <1>1. IsFiniteSet(P)
    <2>1. IsFiniteSet(1 .. InLength)
      BY FS_Interval
    <2> QED BY <2>1, FS_Product
  <1>2. f \in Injection(InSpans, P)
    <2>1. f \in [InSpans -> P]
      BY DEF InSpans
    <2>2. ASSUME NEW m \in InSpans, NEW n \in InSpans, f[m] = f[n] PROVE m = n
      <3>1. m.from = n.from /\ m.to = n.to
        BY <2>2
      <3> QED BY <3>1 DEF InSpans
    <2> HIDE DEF f, P
    <2> QED BY <2>1, <2>2 DEF Injection, IsInjective
  <1> HIDE DEF f, P
  <1> QED BY <1>1, <1>2, FS_Injection

\* The bounds of a match.
LEMMA InSpanFacts ==
  ASSUME NEW m \in InSpans
  PROVE  m.from \in Nat /\ m.to \in Nat /\ 1 <= m.from /\ m.from <= m.to /\ m.to <= InLength
  BY InAssumption DEF InSpans

\* What a text is after the part from a to b was replaced.
InSplice(t, a, b) == SubSeq(t, 1, a - 1) \o [i \in 1 .. InMask |-> 0] \o SubSeq(t, b + 1, Len(t))

\* Where the characters of a text are after a replacement.
LEMMA InSpliceFacts ==
  ASSUME NEW t \in Seq(Nat), NEW a \in Nat, NEW b \in Nat, 1 <= a, a <= b, b <= Len(t)
  PROVE  LET u == InSplice(t, a, b)
             w == b - a + 1
         IN  /\ u \in Seq(Nat) /\ Len(u) = Len(t) - w + InMask
             /\ \A i \in 1 .. a - 1 : u[i] = t[i]
             /\ \A i \in a .. a + InMask - 1 : u[i] = 0
             /\ \A i \in (a + InMask) .. Len(u) : u[i] = t[i - InMask + w]
  <1> USE InAssumption
  <1> DEFINE p == SubSeq(t, 1, a - 1)
             z == [i \in 1 .. InMask |-> 0]
             q == SubSeq(t, b + 1, Len(t))
             u == InSplice(t, a, b)
             w == b - a + 1
  <1>0. Len(t) \in Nat /\ DOMAIN t = 1 .. Len(t) /\ \A i \in 1 .. Len(t) : t[i] \in Nat
    BY InSeqFacts
  <1>1. p \in Seq(Nat) /\ Len(p) = a - 1 /\ \A i \in 1 .. a - 1 : p[i] = t[i]
    <2> DEFINE n == a - 1
    <2>1. n \in Int /\ n >= 0 /\ \A i \in 1 .. n : t[i] \in Nat
      BY <1>0
    <2>2. p = SubSeq(t, 1, n)
      OBVIOUS
    <2> HIDE DEF n, p
    <2>3. /\ p \in Seq(Nat) /\ Len(p) = (IF 1 <= n THEN n - 1 + 1 ELSE 0)
          /\ \A i \in 1 .. n - 1 + 1 : p[i] = t[1 + i - 1]
      BY <2>1, <2>2, SubSeqProperties
    <2>4. Len(p) = n /\ \A i \in 1 .. n : p[i] = t[i]
      BY <2>1, <2>3
    <2> QED BY <2>3, <2>4 DEF n
  <1>2. z \in Seq(Nat) /\ Len(z) = InMask /\ \A i \in 1 .. InMask : z[i] = 0
    OBVIOUS
  <1>3. q \in Seq(Nat) /\ Len(q) = Len(t) - b /\ \A i \in 1 .. Len(t) - b : q[i] = t[b + i]
    <2>1. b + 1 \in Int /\ Len(t) \in Int /\ \A i \in b + 1 .. Len(t) : t[i] \in Nat
      BY <1>0
    <2>2. /\ q \in Seq(Nat) /\ Len(q) = (IF b + 1 <= Len(t) THEN Len(t) - (b + 1) + 1 ELSE 0)
          /\ \A i \in 1 .. Len(t) - (b + 1) + 1 : q[i] = t[(b + 1) + i - 1]
      BY <2>1, SubSeqProperties
    <2> HIDE DEF q
    <2>3. Len(q) = Len(t) - b
      <3>1. CASE b + 1 <= Len(t)
        <4>1. Len(t) - (b + 1) + 1 = Len(t) - b
          BY <1>0
        <4> QED BY <2>2, <3>1, <4>1
      <3>2. CASE ~(b + 1 <= Len(t))
        <4>2. \A x, y \in Nat : y <= x /\ ~(y + 1 <= x) => x - y = 0
          OBVIOUS
        <4>1. Len(t) - b = 0
          BY ONLY <1>0, <3>2, <4>2, b \in Nat, b <= Len(t)
        <4> QED BY <2>2, <3>2, <4>1
      <3> QED BY <3>1, <3>2
    <2>4. ASSUME NEW i \in 1 .. Len(t) - b PROVE q[i] = t[b + i]
      <3>1. i \in 1 .. Len(t) - (b + 1) + 1 /\ (b + 1) + i - 1 = b + i
        BY <1>0
      <3> QED BY <2>2, <3>1
    <2> QED BY <2>2, <2>3, <2>4
  <1> HIDE DEF p, z, q
  <1>4. /\ p \o z \in Seq(Nat) /\ Len(p \o z) = a - 1 + InMask
        /\ \A i \in 1 .. a - 1 + InMask : (p \o z)[i] = IF i <= a - 1 THEN p[i] ELSE z[i - (a - 1)]
    <2>1. /\ p \o z \in Seq(Nat) /\ Len(p \o z) = Len(p) + Len(z)
          /\ \A i \in 1 .. Len(p) + Len(z) : (p \o z)[i] = IF i <= Len(p) THEN p[i] ELSE z[i - Len(p)]
      BY <1>1, <1>2, ConcatProperties
    <2> QED BY <1>1, <1>2, <2>1
  <1>5. /\ (p \o z) \o q \in Seq(Nat) /\ Len((p \o z) \o q) = a - 1 + InMask + (Len(t) - b)
        /\ \A i \in 1 .. a - 1 + InMask + (Len(t) - b) :
              ((p \o z) \o q)[i] = IF i <= a - 1 + InMask THEN (p \o z)[i] ELSE q[i - (a - 1 + InMask)]
    <2> DEFINE v == p \o z
    <2>1. v \in Seq(Nat) /\ Len(v) = a - 1 + InMask
      BY <1>4
    <2> HIDE DEF v
    <2>2. /\ v \o q \in Seq(Nat) /\ Len(v \o q) = Len(v) + Len(q)
          /\ \A i \in 1 .. Len(v) + Len(q) : (v \o q)[i] = IF i <= Len(v) THEN v[i] ELSE q[i - Len(v)]
      BY <1>3, <2>1, ConcatProperties
    <2>3. /\ v \o q \in Seq(Nat) /\ Len(v \o q) = a - 1 + InMask + (Len(t) - b)
          /\ \A i \in 1 .. a - 1 + InMask + (Len(t) - b) :
                (v \o q)[i] = IF i <= a - 1 + InMask THEN v[i] ELSE q[i - (a - 1 + InMask)]
      BY <1>3, <2>1, <2>2
    <2> QED BY <2>3 DEF v
  <1>6. u = (p \o z) \o q
    BY DEF InSplice, p, z, q
  <1> HIDE DEF u
  <1>7. u \in Seq(Nat) /\ Len(u) = Len(t) - w + InMask
    BY <1>0, <1>5, <1>6
  <1>8. ASSUME NEW i \in 1 .. a - 1 PROVE u[i] = t[i]
    BY <1>0, <1>1, <1>4, <1>5, <1>6
  <1>9. ASSUME NEW i \in a .. a + InMask - 1 PROVE u[i] = 0
    <2>1. i - (a - 1) \in 1 .. InMask /\ i \in 1 .. a - 1 + InMask /\ ~(i <= a - 1) /\ i <= a - 1 + InMask
      OBVIOUS
    <2>2. (p \o z)[i] = 0
      BY <1>2, <1>4, <2>1
    <2>3. i \in 1 .. a - 1 + InMask + (Len(t) - b)
      BY <1>0, <2>1
    <2>4. u[i] = (p \o z)[i]
      BY <1>5, <1>6, <2>1, <2>3
    <2> QED BY <2>2, <2>4
  <1>10. ASSUME NEW i \in (a + InMask) .. Len(u) PROVE u[i] = t[i - InMask + w]
    <2>1. i - (a - 1 + InMask) \in 1 .. Len(t) - b /\ ~(i <= a - 1 + InMask) /\ i \in 1 .. a - 1 + InMask + (Len(t) - b)
      BY <1>0, <1>7
    <2>2. b + (i - (a - 1 + InMask)) = i - InMask + w
      BY <1>7
    <2>3. u[i] = q[i - (a - 1 + InMask)]
      BY <1>5, <1>6, <2>1
    <2> QED BY <1>3, <2>1, <2>2, <2>3
  <1> QED BY <1>7, <1>8, <1>9, <1>10 DEF u

\* The last match exists, and the others end before it begins.
LEMMA InPickFacts ==
  ASSUME InTextInv, inTodo # {}
  PROVE  InPick \in inTodo /\ \A n \in inTodo : n # InPick => n.to < InPick.from
  <1> USE InAssumption
  <1>0. inTodo \subseteq inMatches /\ inMatches \subseteq InSpans /\ InApart(inMatches)
    BY DEF InTextInv, InTextOf
  <1>1. \A m \in inTodo : m.from \in Nat /\ m.to \in Nat /\ 1 <= m.from /\ m.from <= m.to /\ m.to <= InLength
    BY <1>0, InSpanFacts
  <1> DEFINE T == {InLength - m.from : m \in inTodo}
  <1>2. T \in SUBSET Nat /\ T # {}
    BY <1>1
  <1>3. PICK t \in T : \A u \in T : t <= u
    <2> HIDE DEF T
    <2> QED BY <1>2, InLeast
  <1>4. PICK m \in inTodo : t = InLength - m.from
    BY <1>3
  <1>5. \A n \in inTodo : m.from >= n.from
    <2> SUFFICES ASSUME NEW n \in inTodo PROVE m.from >= n.from
      OBVIOUS
    <2>1. InLength - m.from <= InLength - n.from
      BY <1>3, <1>4
    <2> QED BY <1>1, <2>1
  <1>6. InPick \in inTodo /\ \A n \in inTodo : InPick.from >= n.from
    BY <1>5 DEF InPick
  <1>7. ASSUME NEW n \in inTodo, n # InPick PROVE n.to < InPick.from
    <2>1. n.to < InPick.from \/ InPick.to < n.from
      BY <1>0, <1>6, <1>7 DEF InApart
    <2> QED BY <1>1, <1>6, <2>1
  <1> QED BY <1>6, <1>7

\* The replacements are as many as before and the ones of the new mask.
LEMMA InZerosFacts ==
  ASSUME NEW t \in Seq(Nat), NEW a \in Nat, NEW b \in Nat, 1 <= a, a <= b, b <= Len(t),
         \A x \in 1 .. b : t[x] = x
  PROVE  Cardinality(InZeros(InSplice(t, a, b))) = Cardinality(InZeros(t)) + InMask
  <1> USE InAssumption
  <1> DEFINE u == InSplice(t, a, b)
             w == b - a + 1
             new == a .. a + InMask - 1
             moved == {i \in (a + InMask) .. Len(u) : t[i - InMask + w] = 0}
             f == [i \in InZeros(t) |-> i + InMask - w]
  <1>0. Len(t) \in Nat /\ DOMAIN t = 1 .. Len(t)
    BY InSeqFacts
  <1>1. /\ u \in Seq(Nat) /\ Len(u) = Len(t) - w + InMask
        /\ \A i \in 1 .. a - 1 : u[i] = t[i]
        /\ \A i \in a .. a + InMask - 1 : u[i] = 0
        /\ \A i \in (a + InMask) .. Len(u) : u[i] = t[i - InMask + w]
    BY InSpliceFacts
  <1> HIDE DEF u
  <1>2. DOMAIN u = 1 .. Len(u) /\ Len(u) \in Nat
    BY <1>1, InSeqFacts
  <1>3. InZeros(u) = new \cup moved
    <2>1. ASSUME NEW i \in InZeros(u) PROVE i \in new \cup moved
      <3>1. i \in 1 .. Len(u) /\ u[i] = 0
        BY <1>2, <2>1 DEF InZeros
      <3>2. ~(i <= a - 1)
        <4>1. CASE i <= a - 1
          <5>1. i \in 1 .. a - 1 /\ i \in 1 .. b
            BY <3>1, <4>1
          <5>2. u[i] = i
            BY <1>1, <5>1
          <5> QED BY <3>1, <5>2
        <4> QED BY <4>1
      <3>3. i \in new \/ i \in (a + InMask) .. Len(u)
        BY <3>1, <3>2
      <3>4. CASE i \in (a + InMask) .. Len(u)
        BY <1>1, <3>1, <3>4
      <3> QED BY <3>3, <3>4
    <2>2. ASSUME NEW i \in new PROVE i \in InZeros(u)
      <3>1. i \in 1 .. Len(u)
        BY <1>0, <1>1
      <3> QED BY <1>1, <1>2, <3>1 DEF InZeros
    <2>3. ASSUME NEW i \in moved PROVE i \in InZeros(u)
      <3>1. i \in 1 .. Len(u)
        BY <1>0, <1>1
      <3> QED BY <1>1, <1>2, <3>1 DEF InZeros
    <2> QED BY <2>1, <2>2, <2>3
  <1>4. \A i \in InZeros(t) : i \in (b + 1) .. Len(t) /\ t[i] = 0
    <2> SUFFICES ASSUME NEW i \in InZeros(t) PROVE i \in (b + 1) .. Len(t) /\ t[i] = 0
      OBVIOUS
    <2>1. i \in 1 .. Len(t) /\ t[i] = 0
      BY <1>0 DEF InZeros
    <2>2. ~(i <= b)
      <3>1. CASE i <= b
        <4>1. t[i] = i
          BY <2>1, <3>1
        <4> QED BY <2>1, <4>1
      <3> QED BY <3>1
    <2> QED BY <2>1, <2>2
  <1>5. f \in Bijection(InZeros(t), moved)
    <2>1. \A i \in InZeros(t) : f[i] = i + InMask - w
      OBVIOUS
    <2>2. ASSUME NEW i \in InZeros(t) PROVE f[i] \in moved
      <3>1. i \in (b + 1) .. Len(t) /\ t[i] = 0 /\ f[i] = i + InMask - w
        BY <1>4
      <3>2. f[i] \in (a + InMask) .. Len(u) /\ f[i] - InMask + w = i
        BY <1>0, <1>1, <3>1
      <3> QED BY <3>1, <3>2
    <2>3. ASSUME NEW i \in InZeros(t), NEW j \in InZeros(t), f[i] = f[j] PROVE i = j
      <3>1. i \in Int /\ j \in Int /\ i + InMask - w = j + InMask - w
        BY <1>4, <2>3
      <3> QED BY <3>1
    <2>4. ASSUME NEW k \in moved PROVE \E i \in InZeros(t) : f[i] = k
      <3>1. k \in (a + InMask) .. Len(u) /\ t[k - InMask + w] = 0
        OBVIOUS
      <3>2. k - InMask + w \in 1 .. Len(t) /\ (k - InMask + w) + InMask - w = k
        BY <1>0, <1>1, <3>1
      <3>3. k - InMask + w \in InZeros(t)
        BY <1>0, <3>1, <3>2 DEF InZeros
      <3> QED BY <3>2, <3>3
    <2>5. f \in [InZeros(t) -> moved]
      BY <2>1, <2>2
    <2> HIDE DEF f, moved
    <2> QED BY <2>3, <2>4, <2>5 DEF Bijection, Injection, Surjection, IsInjective
  <1>6. IsFiniteSet(InZeros(t)) /\ IsFiniteSet(new) /\ Cardinality(new) = InMask
    <2>1. IsFiniteSet(1 .. Len(t)) /\ InZeros(t) \in SUBSET (1 .. Len(t))
      BY <1>0, FS_Interval DEF InZeros
    <2>2. IsFiniteSet(InZeros(t))
      BY <2>1, FS_Subset
    <2>3. a \in Int /\ a + InMask - 1 \in Int
      OBVIOUS
    <2>4. IsFiniteSet(new) /\ Cardinality(new) = IF a > a + InMask - 1 THEN 0 ELSE (a + InMask - 1) - a + 1
      BY <2>3, FS_Interval
    <2>5. Cardinality(new) = InMask
      BY <2>4
    <2> QED BY <2>2, <2>4, <2>5
  <1>7. new \cap moved = {}
    OBVIOUS
  <1> HIDE DEF f, moved, new
  <1>8. IsFiniteSet(moved) /\ Cardinality(moved) = Cardinality(InZeros(t))
    BY <1>5, <1>6, FS_Bijection DEF ExistsBijection
  <1>9. Cardinality(new \cup moved) = Cardinality(new) + Cardinality(moved) - Cardinality(new \cap moved)
    BY <1>6, <1>8, FS_Union
  <1>10. Cardinality(InZeros(t)) \in Nat
    BY <1>6, FS_CardinalityType
  <1>11. Cardinality(new \cap moved) = 0
    BY <1>7, FS_EmptySet
  <1>12. Cardinality(InZeros(u)) = InMask + Cardinality(InZeros(t))
    BY <1>3, <1>6, <1>8, <1>9, <1>10, <1>11
  <1> QED BY <1>10, <1>12 DEF u

\* A replacement, of the last match that is left, keeps the invariant.
LEMMA InReplaceStep ==
  ASSUME InTextInv, InReplace
  PROVE  InTextInv'
  <1> USE InAssumption
  <1> DEFINE t == inText
             m == InPick
             a == InPick.from
             b == InPick.to
             w == b - a + 1
             D == inMatches \ inTodo
             u == InSplice(t, a, b)
  <1>0. /\ inTodo \subseteq inMatches /\ inMatches \subseteq InSpans /\ InApart(inMatches) /\ inSize \in Nat /\ t \in Seq(Nat)
        /\ \A i \in DOMAIN t : t[i] = 0 \/ (t[i] \in 1 .. inSize /\ \A n \in D : ~InIn(n, t[i]))
        /\ \A x \in 1 .. inSize : (\E n \in D : InIn(n, x)) \/ \E i \in DOMAIN t : t[i] = x
        /\ \A i, j \in DOMAIN t : i < j /\ t[i] # 0 /\ t[j] # 0 => t[i] < t[j]
        /\ \A n \in inTodo : \A x \in 1 .. n.to : x \in DOMAIN t /\ t[x] = x
        /\ Cardinality(InZeros(t)) = InMask * Cardinality(D)
        /\ \A n \in D, o \in inTodo : o.to < n.from
    BY DEF InTextInv, InTextOf
  <1>1. m \in inTodo /\ \A n \in inTodo : n # m => n.to < a
    BY InPickFacts DEF InReplace
  <1>2. inText' = u /\ inTodo' = inTodo \ {m} /\ inMatches' = inMatches /\ inSize' = inSize
    BY DEF InReplace, InSplice
  <1>3. a \in Nat /\ b \in Nat /\ 1 <= a /\ a <= b
    BY <1>0, <1>1, InSpanFacts
  <1>4. \A x \in 1 .. b : x \in DOMAIN t /\ t[x] = x
    BY <1>0, <1>1
  <1>5. Len(t) \in Nat /\ DOMAIN t = 1 .. Len(t) /\ \A i \in DOMAIN t : t[i] \in Nat
    BY <1>0, InSeqFacts
  <1>6. b <= Len(t)
    BY <1>3, <1>4, <1>5
  <1> HIDE DEF a, b, m, t
  <1>7. /\ u \in Seq(Nat) /\ Len(u) = Len(t) - w + InMask
        /\ \A i \in 1 .. a - 1 : u[i] = t[i]
        /\ \A i \in a .. a + InMask - 1 : u[i] = 0
        /\ \A i \in (a + InMask) .. Len(u) : u[i] = t[i - InMask + w]
    BY <1>0, <1>3, <1>6, InSpliceFacts
  <1>8. Cardinality(InZeros(u)) = Cardinality(InZeros(t)) + InMask
    BY <1>0, <1>3, <1>4, <1>6, InZerosFacts
  <1> HIDE DEF u
  <1>9. DOMAIN u = 1 .. Len(u) /\ Len(u) \in Nat
    BY <1>7, InSeqFacts
  <1>10. inMatches \ (inTodo \ {m}) = D \cup {m} /\ m \notin D
    BY <1>0, <1>1
  \* Where a character of the new text was in the old one.
  <1>11. ASSUME NEW i \in 1 .. Len(u), u[i] # 0
         PROVE  \/ i < a /\ i \in 1 .. Len(t) /\ u[i] = t[i] /\ t[i] = i
                \/ i >= a + InMask /\ i - InMask + w \in (b + 1) .. Len(t) /\ u[i] = t[i - InMask + w]
    <2>1. CASE i <= a - 1
      <3>1. i \in 1 .. a - 1 /\ i \in 1 .. b /\ i \in 1 .. Len(t)
        BY <1>3, <1>6, <2>1
      <3> QED BY <1>3, <1>4, <1>7, <3>1
    <2>2. CASE i \in a .. a + InMask - 1
      BY <1>7, <1>11, <2>2
    <2>3. CASE i >= a + InMask
      <3>1. i \in (a + InMask) .. Len(u)
        BY <1>9, <2>3
      <3>2. i - InMask + w \in (b + 1) .. Len(t)
        BY <1>3, <1>5, <1>7, <3>1
      <3> QED BY <1>7, <2>3, <3>1, <3>2
    <2> QED BY <1>3, <2>1, <2>2, <2>3
  <1>12. \A j \in (b + 1) .. Len(t) : t[j] # 0 => t[j] > b
    <2> SUFFICES ASSUME NEW j \in (b + 1) .. Len(t), t[j] # 0 PROVE t[j] > b
      OBVIOUS
    <2>1. b \in 1 .. b /\ b \in DOMAIN t /\ j \in DOMAIN t /\ b < j
      BY <1>3, <1>5, <1>6
    <2>2. t[b] = b /\ b # 0
      BY <1>3, <1>4, <2>1
    <2>3. t[b] < t[j]
      BY <1>0, <2>1, <2>2
    <2> QED BY <2>2, <2>3, <1>3, <1>5, <2>1
  <1>13. \A i \in DOMAIN u : u[i] = 0 \/ (u[i] \in 1 .. inSize /\ \A n \in D \cup {m} : ~InIn(n, u[i]))
    <2> SUFFICES ASSUME NEW i \in 1 .. Len(u), u[i] # 0 PROVE u[i] \in 1 .. inSize /\ \A n \in D \cup {m} : ~InIn(n, u[i])
      BY <1>9
    <2>1. PICK j \in DOMAIN t : u[i] = t[j] /\ ((t[j] = j /\ j < a) \/ j \in (b + 1) .. Len(t))
      <3>1. CASE i < a /\ i \in 1 .. Len(t) /\ u[i] = t[i] /\ t[i] = i
        BY <1>5, <3>1
      <3>2. CASE i - InMask + w \in (b + 1) .. Len(t) /\ u[i] = t[i - InMask + w]
        <4>1. i - InMask + w \in DOMAIN t
          BY <1>3, <1>5, <3>2
        <4> QED BY <3>2, <4>1
      <3> QED BY <1>11, <3>1, <3>2
    <2>2. u[i] \in 1 .. inSize /\ \A n \in D : ~InIn(n, u[i])
      BY <1>0, <2>1
    <2>3. ~(a <= u[i] /\ u[i] <= b)
      <3>1. CASE t[j] = j /\ j < a
        BY <1>3, <1>5, <2>1, <3>1
      <3>2. CASE j \in (b + 1) .. Len(t)
        <4>1. t[j] > b /\ t[j] \in Nat
          BY <1>5, <1>12, <2>1, <3>2
        <4> QED BY <1>3, <2>1, <4>1
      <3> QED BY <2>1, <3>1, <3>2
    <2>4. ~InIn(m, u[i])
      BY <2>3 DEF InIn, a, b, m
    <2> QED BY <2>2, <2>4
  <1>14. \A x \in 1 .. inSize : (\E n \in D \cup {m} : InIn(n, x)) \/ \E i \in DOMAIN u : u[i] = x
    <2> SUFFICES ASSUME NEW x \in 1 .. inSize, ~\E n \in D \cup {m} : InIn(n, x) PROVE \E i \in DOMAIN u : u[i] = x
      OBVIOUS
    <2>1. PICK j \in DOMAIN t : t[j] = x
      BY <1>0
    <2>2. ~(a <= x /\ x <= b)
      BY DEF InIn, a, b, m
    <2>3. j \in 1 .. Len(t)
      BY <1>5
    <2>4. CASE j <= a - 1
      <3>1. j \in 1 .. a - 1 /\ j \in 1 .. Len(u)
        BY <1>3, <1>5, <1>6, <1>7, <2>3, <2>4
      <3> QED BY <1>7, <1>9, <2>1, <3>1
    <2>5. CASE j \in a .. b
      <3>1. j \in 1 .. b
        BY <1>3, <2>5
      <3> QED BY <1>4, <2>1, <2>2, <2>5, <3>1
    <2>6. CASE j >= b + 1
      <3> DEFINE i == j + InMask - w
      <3>3. i \in Int /\ i - InMask + w = j /\ i >= a + InMask
        BY <1>3, <2>3, <2>6
      <3>4. i <= Len(u)
        BY <1>3, <1>5, <1>7, <2>3
      <3> HIDE DEF i
      <3>1. i \in (a + InMask) .. Len(u) /\ i \in 1 .. Len(u) /\ i - InMask + w = j
        BY <1>3, <1>9, <3>3, <3>4
      <3> HIDE DEF i
      <3>2. u[i] = t[j]
        BY <1>7, <3>1
      <3> QED BY <1>9, <2>1, <3>1, <3>2
    <2> QED BY <1>3, <2>3, <2>4, <2>5, <2>6
  <1>15. \A i, j \in DOMAIN u : i < j /\ u[i] # 0 /\ u[j] # 0 => u[i] < u[j]
    <2> SUFFICES ASSUME NEW i \in 1 .. Len(u), NEW j \in 1 .. Len(u), i < j, u[i] # 0, u[j] # 0 PROVE u[i] < u[j]
      BY <1>9
    <2>1. \/ i < a /\ i \in 1 .. Len(t) /\ u[i] = t[i] /\ t[i] = i
          \/ i >= a + InMask /\ i - InMask + w \in (b + 1) .. Len(t) /\ u[i] = t[i - InMask + w]
      BY <1>11
    <2>2. \/ j < a /\ j \in 1 .. Len(t) /\ u[j] = t[j] /\ t[j] = j
          \/ j >= a + InMask /\ j - InMask + w \in (b + 1) .. Len(t) /\ u[j] = t[j - InMask + w]
      BY <1>11
    <2>3. \E k, l \in DOMAIN t : k < l /\ u[i] = t[k] /\ u[j] = t[l]
      <3>1. CASE i < a /\ i \in 1 .. Len(t) /\ u[i] = t[i] /\ j < a /\ j \in 1 .. Len(t) /\ u[j] = t[j]
        BY <1>5, <3>1
      <3>2. CASE i < a /\ i \in 1 .. Len(t) /\ u[i] = t[i] /\ j - InMask + w \in (b + 1) .. Len(t) /\ u[j] = t[j - InMask + w]
        <4>1. j - InMask + w \in DOMAIN t /\ i < j - InMask + w
          BY <1>3, <1>5, <3>2
        <4> QED BY <1>5, <3>2, <4>1
      <3>3. CASE /\ i - InMask + w \in (b + 1) .. Len(t) /\ u[i] = t[i - InMask + w]
                 /\ j - InMask + w \in (b + 1) .. Len(t) /\ u[j] = t[j - InMask + w]
        <4>1. i - InMask + w \in DOMAIN t /\ j - InMask + w \in DOMAIN t /\ i - InMask + w < j - InMask + w
          BY <1>3, <1>5, <3>3
        <4> QED BY <3>3, <4>1
      <3>4. ~(i >= a + InMask /\ j < a)
        BY <1>3
      <3> QED BY <2>1, <2>2, <3>1, <3>2, <3>3, <3>4
    <2> QED BY <1>0, <2>3
  <1>16. \A n \in inTodo \ {m} : \A x \in 1 .. n.to : x \in DOMAIN u /\ u[x] = x
    <2> SUFFICES ASSUME NEW n \in inTodo, n # m, NEW x \in 1 .. n.to PROVE x \in DOMAIN u /\ u[x] = x
      OBVIOUS
    <2>1. n.to < a /\ n.to \in Nat
      BY <1>0, <1>1, InSpanFacts
    <2>2. x \in 1 .. a - 1 /\ x \in 1 .. b /\ x \in 1 .. Len(u)
      BY <1>3, <1>5, <1>6, <1>7, <2>1
    <2> QED BY <1>4, <1>7, <1>9, <2>2
  <1>17. Cardinality(InZeros(u)) = InMask * Cardinality(D \cup {m})
    <2>1. IsFiniteSet(D)
      <3>1. D \in SUBSET InSpans
        BY <1>0
      <3> HIDE DEF D
      <3> QED BY <3>1, InSpansFinite, FS_Subset
    <2> HIDE DEF D
    <2>2. Cardinality(D \cup {m}) = Cardinality(D) + 1 /\ Cardinality(D) \in Nat
      BY <1>10, <2>1, FS_AddElement, FS_CardinalityType
    <2>3. \A x, y \in Nat : x * (y + 1) = x * y + x
      OBVIOUS
    <2> QED BY <1>0, <1>8, <2>2, <2>3
  <1>18. \A n \in D \cup {m}, o \in inTodo \ {m} : o.to < n.from
    BY <1>0, <1>1 DEF a, m
  <1>19. InTextOf(u, inTodo \ {m}, inMatches, inSize)
    <2>1. inTodo \ {m} \subseteq inMatches
      BY <1>0
    <2> HIDE DEF D
    <2> QED BY <1>0, <1>7, <1>10, <1>13, <1>14, <1>15, <1>16, <1>17, <1>18, <2>1 DEF InTextOf
  <1> QED BY <1>2, <1>19 DEF InTextInv

\* A scanned prompt satisfies the invariant.
LEMMA InScanStep ==
  ASSUME NEW len \in 1 .. InLength, NEW ms \in SUBSET InSpans, InScan(len, ms)
  PROVE  InTextInv'
  <1> USE InAssumption
  <1> DEFINE t == [i \in 1 .. len |-> i]
  <1>1. inText' = t /\ inTodo' = ms /\ inMatches' = ms /\ inSize' = len /\ InApart(ms) /\ \A m \in ms : m.to <= len
    BY DEF InScan
  <1>2. t \in Seq(Nat) /\ DOMAIN t = 1 .. len /\ \A i \in 1 .. len : t[i] = i
    OBVIOUS
  <1> HIDE DEF t
  <1>3. InZeros(t) = {} /\ ms \ ms = {}
    BY <1>2 DEF InZeros
  <1>4. Cardinality(InZeros(t)) = InMask * Cardinality(ms \ ms)
    <2>1. Cardinality({}) = 0
      BY FS_EmptySet
    <2> QED BY <1>3, <2>1
  <1>5. \A n \in ms : \A x \in 1 .. n.to : x \in DOMAIN t /\ t[x] = x
    <2> SUFFICES ASSUME NEW n \in ms, NEW x \in 1 .. n.to PROVE x \in DOMAIN t /\ t[x] = x
      OBVIOUS
    <2>1. n.to \in Nat /\ n.to <= len
      BY <1>1, InSpanFacts
    <2> QED BY <1>2, <2>1
  <1>6. InTextOf(t, ms, ms, len)
    BY <1>1, <1>2, <1>3, <1>4, <1>5 DEF InTextOf
  <1> QED BY <1>1, <1>6 DEF InTextInv

---------------------------------------------------------------------------
\* The inductive invariant.
InIInv == InRouteInv /\ InErrInv /\ InTextInv

\* Before the first request, prompt and error the invariant holds.
LEMMA InInitInv == InInit => InIInv
  <1> USE InAssumption
  <1> SUFFICES ASSUME InInit PROVE InIInv
    OBVIOUS
  <1>1. InRouteInv
    <2>1. InIdle \in InReqs /\ InIdle.at = "idle"
      BY DEF InIdle, InReqs, InLists
    <2>2. inReq \in [InRequests -> InReqs] /\ \A r \in InRequests : inReq[r].at = "idle"
      BY <2>1 DEF InInit
    <2>3. /\ inFail = [p \in InProviders |-> 0] /\ inTrip = [p \in InProviders |-> -1] /\ inClock = 0
          /\ inRow = [p \in InProviders |-> 0] /\ inLast = [p \in InProviders |-> -1]
      BY DEF InInit
    <2> QED BY <2>2, <2>3 DEF InRouteInv
  <1>2. InErrInv
    BY DEF InInit, InErrInv
  <1>3. InTextInv
    <2>1. inText = <<>> /\ inTodo = {} /\ inMatches = {} /\ inSize = 0
      BY DEF InInit
    <2>2. <<>> \in Seq(Nat) /\ DOMAIN <<>> = {} /\ {} \ {} = {}
      OBVIOUS
    <2>3. Cardinality(InZeros(<<>>)) = InMask * Cardinality({})
      <3>1. InZeros(<<>>) = {} /\ Cardinality({}) = 0
        BY <2>2, FS_EmptySet DEF InZeros
      <3>2. InMask * 0 = 0
        OBVIOUS
      <3> QED BY <3>1, <3>2, Zenon
    <2>4. InTextOf(<<>>, {}, {}, 0)
      BY <2>2, <2>3 DEF InTextOf, InApart
    <2> QED BY <2>1, <2>4 DEF InTextInv
  <1> QED BY <1>1, <1>2, <1>3 DEF InIInv

\* Every step keeps the invariant.
LEMMA InStep == InIInv /\ [InNext]_inVars => InIInv'
  <1> SUFFICES ASSUME InIInv, [InNext]_inVars PROVE InIInv'
    OBVIOUS
  <1> USE DEF InIInv
  <1>a. UNCHANGED inRouteVars => InRouteInv'
    BY DEF InRouteInv, inRouteVars
  <1>b. UNCHANGED inErr => InErrInv'
    BY DEF InErrInv
  <1>c. UNCHANGED inTextVars => InTextInv'
    BY DEF InTextInv, inTextVars
  <1>1. ASSUME NEW m, InChoose(m) PROVE InIInv'
    BY <1>a, <1>b, <1>c, <1>1 DEF InChoose, inRouteVars, inTextVars
  <1>2. CASE InRouteNext
    <2>1. InRouteInv' /\ InOnlyRoute
      BY <1>2, InRouteStep
    <2> QED BY <1>b, <1>c, <2>1 DEF InOnlyRoute, inTextVars
  <1>3. CASE InRedactNext
    <2>1. UNCHANGED inRouteVars /\ UNCHANGED inErr
      BY <1>3 DEF InRedactNext, InScan, InReplace, inRouteVars
    <2>2. InTextInv'
      BY <1>3, InScanStep, InReplaceStep DEF InRedactNext
    <2> QED BY <1>a, <1>b, <2>1, <2>2
  <1>4. ASSUME NEW code \in {0, 400, 401, 403, 404, 408, 418, 429, 500, 503, 504},
               NEW words \in SUBSET {InOrder[i] : i \in DOMAIN InOrder}, InNormalize(code, words) PROVE InIInv'
    <2>1. InErrInv'
      <3>1. words \in SUBSET InWords
        BY InOrderFacts
      <3>2. inErr' = [status |-> code, words |-> words, class |-> InClass(code, words), retry |-> InRetryable(InClass(code, words))]
        BY <1>4 DEF InNormalize
      <3> QED BY <3>1, <3>2 DEF InErrInv
    <2>2. UNCHANGED inRouteVars /\ UNCHANGED inTextVars
      BY <1>4 DEF InNormalize, inRouteVars, inTextVars
    <2> QED BY <1>a, <1>c, <2>1, <2>2
  <1>5. CASE UNCHANGED inVars
    <2>1. UNCHANGED inRouteVars /\ UNCHANGED inErr /\ UNCHANGED inTextVars
      BY <1>5 DEF inVars, inRouteVars, inTextVars
    <2> QED BY <1>a, <1>b, <1>c, <2>1
  <1> QED BY <1>1, <1>2, <1>3, <1>4, <1>5 DEF InNext

\* The invariant implies the properties.
LEMMA InInvImplies == InIInv => InRedacted /\ InRetryRight
  <1> SUFFICES ASSUME InIInv PROVE InRedacted /\ InRetryRight
    OBVIOUS
  <1>1. InRetryRight
    BY InRetryFact DEF InIInv
  <1>2. InRedacted
    <2> SUFFICES ASSUME inTodo = {}
                 PROVE  /\ \A i \in DOMAIN inText : inText[i] = 0 \/ (inText[i] \in 1 .. inSize /\ ~ InHit(inText[i]))
                        /\ \A x \in 1 .. inSize : InHit(x) \/ \E i \in DOMAIN inText : inText[i] = x
                        /\ \A i, j \in DOMAIN inText : i < j /\ inText[i] # 0 /\ inText[j] # 0 => inText[i] < inText[j]
                        /\ Cardinality({i \in DOMAIN inText : inText[i] = 0}) = InMask * Cardinality(inMatches)
      BY DEF InRedacted
    <2>1. inMatches \ inTodo = inMatches
      OBVIOUS
    <2> QED BY <2>1 DEF InIInv, InTextInv, InTextOf, InZeros, InHit, InIn
  <1> QED BY <1>1, <1>2


\* The invariant holds at all times.
LEMMA InInvariance == InSpec => []InIInv
  BY InInitInv, InStep, PTL DEF InSpec

\* A sanitized prompt, for prompts and matches of any number and length, has a
\* replacement for each match and everything else in its order; and the class
\* of an error, whatever words and code it combines, is retried only when
\* that can help.
THEOREM RedactedAndRetried == InSpec => [](InRedacted /\ InRetryRight)
<1>1. InIInv => InRedacted /\ InRetryRight
  BY InInvImplies
<1> QED BY <1>1, InInvariance, PTL

\* The router passes over a model only if its provider failed often enough in a
\* row and recently enough, with any number of concurrent requests whose calls
\* end late.
THEOREM SkippedForCause == InSpec => InSkipsRecent
<1> DEFINE A == \A r \in InRequests : InSkip(r)
<1>1. InIInv /\ [InNext]_inVars => [A]_inVars
  BY InSkipStep DEF InIInv
<1> HIDE DEF A
<1>2. InSpec => [][A]_inVars
  BY <1>1, InInvariance, PTL DEF InSpec
<1> QED BY <1>2 DEF A, InSkip, InSkipsRecent

-----------------------------------------------------------------------------
(* The conversation: the agent loop with the dispatcher *)

\* The types of the turns, of the inbound entries and of the outbound messages.
CvEnded == {"answered", "silent", "failed", "stopped"}
CvTurns == [chat : CvChats, kind : {"user"}, state : {"unused", "queued", "waiting", "running"} \cup CvEnded]
CvEntries == [type : {"turn"}, id : CvIds] \cup [type : {"stop"}, chat : CvChats]
CvMsgs == [id : 1 .. CvMaxOut, chan : CvChats, kind : {"answer", "progress", "tool_hint"}]

\* The loop: a turn in the inbound queue was not dispatched before.
CvLoopInv ==
    /\ cvTurn \in [CvIds -> CvTurns] /\ cvLast \in 0 .. CvMaxTurns /\ cvInbound \in Seq(CvEntries)
    /\ cvLoop \in [state : {"consuming", "stopping"}, chat : CvChats, tasks : SUBSET CvIds] /\ cvCtx \in CvChats
    /\ \A t \in CvIds : t > cvLast => cvTurn[t].state = "unused"
    /\ \A i \in DOMAIN cvInbound : cvInbound[i].type = "turn" =>
        /\ cvTurn[cvInbound[i].id].state = "queued"
        /\ \A j \in DOMAIN cvInbound : cvInbound[j].type = "turn" /\ cvInbound[j].id = cvInbound[i].id => j = i

\* The outbound side: a message is given, with the dispatcher or queued, and
\* along that way the numbers grow.
CvOutTypes ==
    /\ cvOut \in 0 .. CvMaxOut /\ cvQueue \in Seq(CvMsgs) /\ cvCur \subseteq CvMsgs
    /\ cvGiven \in [CvChats -> Seq(1 .. CvMaxOut)]
CvOutOrder ==
    /\ \A i \in DOMAIN cvQueue : cvQueue[i].id <= cvOut
    /\ \A i, j \in DOMAIN cvQueue : i < j => cvQueue[i].id < cvQueue[j].id
    /\ \A m \in cvCur : m.id <= cvOut /\ \A i \in DOMAIN cvQueue : m.id < cvQueue[i].id
    /\ \A c \in CvChats : \A i \in DOMAIN cvGiven[c] :
        /\ cvGiven[c][i] <= cvOut
        /\ \A m \in cvCur : cvGiven[c][i] < m.id
        /\ \A j \in DOMAIN cvQueue : cvGiven[c][i] < cvQueue[j].id
    /\ \A c \in CvChats : \A i, j \in DOMAIN cvGiven[c] : i < j => cvGiven[c][i] < cvGiven[c][j]
\* Both.
CvOutInv == CvOutTypes /\ CvOutOrder

\* The turns of a /stop: awaited until its answer, ended and silent after it.
CvStopInv ==
    /\ cvLoop.state = "stopping" => cvStopping \subseteq cvLoop.tasks
    /\ \A t \in cvStopping : t \in CvIds /\ cvTurn[t].state \notin {"unused", "queued"}
    /\ \A m \in cvFrom : m.id \in 1 .. cvOut
    /\ \A r \in cvConfirmed : r.id \in 1 .. cvOut /\ \A t \in r.turns :
        /\ t \in CvIds /\ cvTurn[t].state \in CvEnded
        /\ \A m \in cvFrom : m.turn = t => m.id < r.id

\* The inductive invariant.
CvIInv == CvLoopInv /\ CvOutInv /\ CvStopInv

-----------------------------------------------------------------------------
(* The outbound side *)

\* The number of outbound messages has a bound.
LEMMA CvMax == CvMaxOut \in Nat
  BY CvAssumption DEF CvMaxOut

\* The ids of a sequence of messages are numbers.
LEMMA CvMsgFacts ==
  ASSUME NEW q \in Seq(CvMsgs)
  PROVE  /\ DOMAIN q = 1 .. Len(q) /\ Len(q) \in Nat
         /\ \A i \in DOMAIN q : q[i] \in CvMsgs /\ q[i].id \in Nat
  <1>1. DOMAIN q = 1 .. Len(q) /\ Len(q) \in Nat /\ \A i \in DOMAIN q : q[i] \in CvMsgs
    OBVIOUS
  <1>2. \A m \in CvMsgs : m.id \in Nat
    BY CvMax DEF CvMsgs
  <1> QED BY <1>1, <1>2

\* The domain, the length and the elements of a sequence.
LEMMA CvSeqFacts ==
  ASSUME NEW S, NEW q \in Seq(S)
  PROVE  /\ DOMAIN q = 1 .. Len(q) /\ Len(q) \in Nat /\ \A i \in DOMAIN q : q[i] \in S
         /\ \A x \in S : /\ DOMAIN Append(q, x) = 1 .. (Len(q) + 1) /\ Append(q, x)[Len(q) + 1] = x
                         /\ \A i \in 1 .. Len(q) : Append(q, x)[i] = q[i]
  OBVIOUS

\* A message that is published goes behind all others.
LEMMA CvPublishStep ==
  ASSUME CvOutInv, NEW c \in CvChats, NEW k \in {"answer", "progress", "tool_hint"}, Out!PublishOut(c, k)
  PROVE  CvOutInv' /\ cvOut' = cvOut + 1
  <1> USE CvMax
  <1> DEFINE m == [id |-> cvOut + 1, chan |-> c, kind |-> k]
  <1>1. /\ cvOut \in Nat /\ cvOut < CvMaxOut /\ cvOut' = cvOut + 1 /\ cvQueue' = Append(cvQueue, m)
        /\ UNCHANGED <<cvCur, cvGiven>>
    BY DEF Out!PublishOut, CvOutInv, CvOutTypes
  <1>2. m \in CvMsgs /\ m.id = cvOut + 1 /\ cvQueue \in Seq(CvMsgs)
    BY <1>1 DEF CvMsgs, CvOutInv, CvOutTypes
  <1> HIDE DEF m
  <1>3. /\ cvQueue' \in Seq(CvMsgs)
        /\ \A i \in DOMAIN cvQueue' : \/ i \in DOMAIN cvQueue /\ cvQueue'[i] = cvQueue[i]
                                      \/ i = Len(cvQueue) + 1 /\ cvQueue'[i] = m
        /\ DOMAIN cvQueue = 1 .. Len(cvQueue) /\ Len(cvQueue) \in Nat
    BY <1>1, <1>2
  <1>4. \A i \in DOMAIN cvQueue : cvQueue[i].id \in Nat
    BY <1>2, CvMsgFacts
  <1>5. \A n \in cvCur : n.id \in Nat
    BY DEF CvOutInv, CvOutTypes, CvMsgs
  <1>6. \A d \in CvChats : \A i \in DOMAIN cvGiven[d] : cvGiven[d][i] \in Nat
    BY DEF CvOutInv, CvOutTypes
  <1>7. cvOut' \in 0 .. CvMaxOut
    BY <1>1
  <1>8. CvOutTypes'
    BY <1>1, <1>3, <1>7 DEF CvOutInv, CvOutTypes
  <1>9. /\ \A i \in DOMAIN cvQueue' : cvQueue'[i].id <= cvOut'
        /\ \A i, j \in DOMAIN cvQueue' : i < j => cvQueue'[i].id < cvQueue'[j].id
    BY <1>1, <1>2, <1>3, <1>4 DEF CvOutInv, CvOutOrder
  <1>10. \A n \in cvCur' : n.id <= cvOut' /\ \A i \in DOMAIN cvQueue' : n.id < cvQueue'[i].id
    BY <1>1, <1>2, <1>3, <1>4, <1>5 DEF CvOutInv, CvOutOrder
  <1>11. \A d \in CvChats : \A i \in DOMAIN cvGiven'[d] :
            /\ cvGiven'[d][i] <= cvOut'
            /\ \A n \in cvCur' : cvGiven'[d][i] < n.id
            /\ \A j \in DOMAIN cvQueue' : cvGiven'[d][i] < cvQueue'[j].id
    BY <1>1, <1>2, <1>3, <1>4, <1>6 DEF CvOutInv, CvOutOrder
  <1>12. \A d \in CvChats : \A i, j \in DOMAIN cvGiven'[d] : i < j => cvGiven'[d][i] < cvGiven'[d][j]
    BY <1>1 DEF CvOutInv, CvOutOrder
  <1>13. CvOutOrder'
    BY <1>9, <1>10, <1>11, <1>12 DEF CvOutOrder
  <1> QED BY <1>1, <1>8, <1>13 DEF CvOutInv

\* The dispatcher takes the first message.
LEMMA CvDispatchStep ==
  ASSUME CvOutInv, Out!Dispatch
  PROVE  CvOutInv' /\ cvOut' = cvOut
  <1>1. /\ cvQueue # <<>> /\ cvQueue' = Tail(cvQueue) /\ UNCHANGED <<cvOut, cvGiven>>
        /\ cvCur' = {Head(cvQueue)} \/ cvCur' = cvCur
    BY DEF Out!Dispatch
  <1>2. cvQueue \in Seq(CvMsgs)
    BY DEF CvOutInv, CvOutTypes
  <1>3. /\ Head(cvQueue) \in CvMsgs /\ Head(cvQueue) = cvQueue[1] /\ 1 \in DOMAIN cvQueue
        /\ cvQueue' \in Seq(CvMsgs)
        /\ \A i \in DOMAIN cvQueue' : i + 1 \in DOMAIN cvQueue /\ cvQueue'[i] = cvQueue[i + 1] /\ i \in Nat /\ i > 0
    BY <1>1, <1>2
  <1>4. CvOutTypes'
    BY <1>1, <1>3 DEF CvOutInv, CvOutTypes
  <1>5. \A i \in DOMAIN cvQueue' : cvQueue'[i].id <= cvOut /\ cvQueue[1].id < cvQueue'[i].id
    BY <1>3 DEF CvOutInv, CvOutOrder
  <1>6. \A i, j \in DOMAIN cvQueue' : i < j => cvQueue'[i].id < cvQueue'[j].id
    BY SMTT(20), <1>3 DEF CvOutInv, CvOutOrder
  <1>7. \A m \in cvCur' : m.id <= cvOut /\ \A i \in DOMAIN cvQueue' : m.id < cvQueue'[i].id
    BY <1>1, <1>3, <1>5 DEF CvOutInv, CvOutOrder
  <1>8. \A c \in CvChats : \A i \in DOMAIN cvGiven[c] :
           /\ cvGiven[c][i] <= cvOut
           /\ \A m \in cvCur' : cvGiven[c][i] < m.id
           /\ \A j \in DOMAIN cvQueue' : cvGiven[c][i] < cvQueue'[j].id
    BY <1>1, <1>3 DEF CvOutInv, CvOutOrder
  <1>9. CvOutOrder'
    BY <1>1, <1>5, <1>6, <1>7, <1>8 DEF CvOutInv, CvOutOrder
  <1> QED BY <1>1, <1>4, <1>9 DEF CvOutInv

\* The channel gets the message, behind what it got before.
LEMMA CvSentStep ==
  ASSUME CvOutInv, NEW m \in cvCur, Out!SendReturns(m) \/ Out!SendRaises(m)
  PROVE  CvOutInv' /\ cvOut' = cvOut
  <1>1. CASE Out!SendRaises(m)
    BY <1>1 DEF Out!SendRaises, CvOutInv, CvOutTypes, CvOutOrder
  <1>2. CASE Out!SendReturns(m)
    <2>1. cvCur' = {} /\ cvGiven' = [cvGiven EXCEPT ![m.chan] = Append(@, m.id)] /\ UNCHANGED <<cvQueue, cvOut>>
      BY <1>2 DEF Out!SendReturns
    <2>2. m.chan \in CvChats /\ m.id \in 1 .. CvMaxOut /\ m.id <= cvOut /\ cvOut \in 0 .. CvMaxOut
      BY DEF CvOutInv, CvOutTypes, CvOutOrder, CvMsgs
    <2>3. cvGiven \in [CvChats -> Seq(1 .. CvMaxOut)]
      BY DEF CvOutInv, CvOutTypes
    <2>4. \A c \in CvChats : cvGiven'[c] = IF c = m.chan THEN Append(cvGiven[c], m.id) ELSE cvGiven[c]
      BY <2>1, <2>2, <2>3
    <2>5. \A c \in CvChats : cvGiven'[c] \in Seq(1 .. CvMaxOut)
      <3> TAKE c \in CvChats
      <3>1. cvGiven[c] \in Seq(1 .. CvMaxOut)
        BY <2>3
      <3>2. Append(cvGiven[c], m.id) \in Seq(1 .. CvMaxOut)
        BY <2>2, <3>1
      <3> QED BY <2>4, <3>1, <3>2
    <2>6. ASSUME NEW c \in CvChats, NEW i \in DOMAIN cvGiven'[c]
          PROVE  \/ i \in DOMAIN cvGiven[c] /\ cvGiven'[c][i] = cvGiven[c][i]
                 \/ i = Len(cvGiven[c]) + 1 /\ cvGiven'[c][i] = m.id
      <3>1. cvGiven[c] \in Seq(1 .. CvMaxOut)
        BY <2>3
      <3>2. Len(cvGiven[c]) \in Nat /\ DOMAIN cvGiven[c] = 1 .. Len(cvGiven[c])
        BY <3>1, CvSeqFacts
      <3>3. CASE c = m.chan
        <4>1. /\ DOMAIN cvGiven'[c] = 1 .. (Len(cvGiven[c]) + 1) /\ cvGiven'[c][Len(cvGiven[c]) + 1] = m.id
              /\ \A n \in 1 .. Len(cvGiven[c]) : cvGiven'[c][n] = cvGiven[c][n]
          <5>1. cvGiven'[c] = Append(cvGiven[c], m.id)
            BY <2>4, <3>3
          <5> QED BY ONLY <2>2, <3>1, <5>1, CvSeqFacts
        <4> QED BY <2>6, <3>2, <4>1
      <3> QED BY <2>4, <2>6, <3>3
    <2>7. \A c \in CvChats : \A i \in DOMAIN cvGiven[c] : i \in 1 .. Len(cvGiven[c]) /\ cvGiven[c][i] \in 1 .. CvMaxOut /\ cvGiven[c][i] < m.id
      <3> TAKE c \in CvChats
      <3> TAKE i \in DOMAIN cvGiven[c]
      <3>1. cvGiven[c] \in Seq(1 .. CvMaxOut)
        BY <2>3
      <3>2. DOMAIN cvGiven[c] = 1 .. Len(cvGiven[c]) /\ \A j \in DOMAIN cvGiven[c] : cvGiven[c][j] \in 1 .. CvMaxOut
        BY <3>1, CvSeqFacts
      <3> QED BY <3>2 DEF CvOutInv, CvOutOrder
    <2>8. ASSUME NEW c \in CvChats, NEW i \in DOMAIN cvGiven'[c], NEW j \in DOMAIN cvGiven'[c], i < j
          PROVE  cvGiven'[c][i] < cvGiven'[c][j]
      <3>1. Len(cvGiven[c]) \in Nat
        BY <2>3
      <3> QED BY <2>2, <2>6, <2>7, <2>8, <3>1 DEF CvOutInv, CvOutOrder
    <2>9. ASSUME NEW c \in CvChats, NEW i \in DOMAIN cvGiven'[c]
          PROVE cvGiven'[c][i] <= cvOut /\ \A j \in DOMAIN cvQueue : cvGiven'[c][i] < cvQueue[j].id
      BY <2>2, <2>6, <2>9 DEF CvOutInv, CvOutOrder
    <2>10. cvGiven' \in [CvChats -> Seq(1 .. CvMaxOut)]
      BY <2>1, <2>2, <2>3, <2>5
    <2>11. CvOutTypes'
      BY <2>1, <2>10 DEF CvOutInv, CvOutTypes
    <2>12. CvOutOrder'
      BY <2>1, <2>8, <2>9 DEF CvOutInv, CvOutOrder
    <2> QED BY <2>1, <2>11, <2>12 DEF CvOutInv
  <1>3. cvOut' = cvOut
    BY DEF Out!SendReturns, Out!SendRaises
  <1> QED BY <1>1, <1>2, <1>3

-----------------------------------------------------------------------------
(* The loop *)

\* An entry joins the inbound queue.
LEMMA CvEnqueue ==
  ASSUME cvInbound \in Seq(CvEntries), NEW e \in CvEntries, cvInbound' = Append(cvInbound, e)
  PROVE  /\ cvInbound' \in Seq(CvEntries) /\ DOMAIN cvInbound = 1 .. Len(cvInbound) /\ Len(cvInbound) \in Nat
         /\ \A i \in DOMAIN cvInbound' : \/ i \in DOMAIN cvInbound /\ cvInbound'[i] = cvInbound[i]
                                         \/ i = Len(cvInbound) + 1 /\ cvInbound'[i] = e
  OBVIOUS

\* The first entry leaves it.
LEMMA CvDequeue ==
  ASSUME cvInbound \in Seq(CvEntries), cvInbound # <<>>, cvInbound' = Tail(cvInbound)
  PROVE  /\ cvInbound' \in Seq(CvEntries) /\ 1 \in DOMAIN cvInbound /\ Head(cvInbound) = cvInbound[1] /\ cvInbound[1] \in CvEntries
         /\ \A i \in DOMAIN cvInbound' : /\ i + 1 \in DOMAIN cvInbound /\ cvInbound'[i] = cvInbound[i + 1]
                                         /\ i \in Nat /\ i > 0
  OBVIOUS

\* A turn that is under way goes on or ends.
LEMMA CvTurnStep ==
  ASSUME CvLoopInv, NEW t \in CvIds, cvTurn[t].state \in {"waiting", "running"},
         NEW s \in {"running"} \cup CvEnded, cvTurn' = [cvTurn EXCEPT ![t].state = s],
         UNCHANGED <<cvLast, cvInbound, cvLoop>>, cvCtx' \in CvChats
  PROVE  /\ CvLoopInv' /\ \A u \in CvIds : u # t => cvTurn'[u] = cvTurn[u]
         /\ cvTurn'[t].state = s
  <1>1. cvTurn \in [CvIds -> CvTurns]
    BY DEF CvLoopInv
  <1>2. /\ cvTurn' \in [CvIds -> CvTurns] /\ \A u \in CvIds : u # t => cvTurn'[u] = cvTurn[u]
        /\ cvTurn'[t].state = s
    BY <1>1 DEF CvTurns
  <1>3. \A i \in DOMAIN cvInbound : cvInbound[i].type = "turn" => cvInbound[i].id \in CvIds /\ cvInbound[i].id # t
    <2> TAKE i \in DOMAIN cvInbound
    <2>1. cvInbound[i] \in CvEntries
      BY DEF CvLoopInv
    <2>2. cvInbound[i].type = "turn" => cvInbound[i].id \in CvIds
      BY <2>1 DEF CvEntries
    <2> QED BY <2>2 DEF CvLoopInv
  <1>4. \A u \in CvIds : u > cvLast => u # t
    BY DEF CvLoopInv
  <1> QED BY <1>2, <1>3, <1>4 DEF CvLoopInv

\* What the steps of AgentLoop do to the turns: only a new message sets a turn
\* up, only its dispatch makes it alive, and what has ended stays so.
CvKept == \A t \in CvIds :
    /\ cvTurn[t].state \notin {"unused", "queued"} => cvTurn'[t].state \notin {"unused", "queued"}
    /\ cvTurn[t].state \in CvEnded => cvTurn'[t].state \in CvEnded

\* A message of a user, or a /stop, joins the inbound queue.
LEMMA CvArriveStep ==
  ASSUME CvLoopInv, NEW c \in CvChats, Agent!Arrive(c) \/ Agent!ArriveStop(c)
  PROVE  CvLoopInv' /\ CvKept /\ cvLoop' = cvLoop
  <1> USE CvAssumption
  <1>0. cvTurn \in [CvIds -> CvTurns] /\ cvInbound \in Seq(CvEntries) /\ cvLast \in 0 .. CvMaxTurns
    BY DEF CvLoopInv
  <1>1. CASE Agent!Arrive(c)
    <2> DEFINE n == cvLast + 1
               e == [type |-> "turn", id |-> n]
    <2>1. /\ cvLast < CvMaxTurns /\ cvLast' = n
          /\ cvTurn' = [cvTurn EXCEPT ![n] = [chat |-> c, kind |-> "user", state |-> "queued"]]
          /\ cvInbound' = Append(cvInbound, e) /\ UNCHANGED <<cvLoop, cvCtx>>
      BY <1>1 DEF Agent!Arrive, Agent!NewTurn
    <2>2. n \in CvIds /\ e \in CvEntries /\ e.id = n /\ e.type = "turn" /\ n \in 0 .. CvMaxTurns
      BY <1>0, <2>1 DEF CvIds, CvEntries
    <2>3. /\ cvTurn' \in [CvIds -> CvTurns] /\ \A u \in CvIds : u # n => cvTurn'[u] = cvTurn[u]
          /\ cvTurn'[n].state = "queued" /\ cvTurn[n].state = "unused"
      BY <1>0, <2>1, <2>2 DEF CvTurns, CvLoopInv
    <2>4. \A u \in CvIds : u > n => u > cvLast /\ u # n
      BY <1>0 DEF CvIds
    <2> HIDE DEF n, e
    <2>5. /\ cvInbound' \in Seq(CvEntries) /\ DOMAIN cvInbound = 1 .. Len(cvInbound) /\ Len(cvInbound) \in Nat
          /\ \A i \in DOMAIN cvInbound' : \/ i \in DOMAIN cvInbound /\ cvInbound'[i] = cvInbound[i]
                                          \/ i = Len(cvInbound) + 1 /\ cvInbound'[i] = e
      BY <1>0, <2>1, <2>2, CvEnqueue
    <2>6. \A i \in DOMAIN cvInbound : cvInbound[i].type = "turn" => cvInbound[i].id \in CvIds /\ cvInbound[i].id # n
      <3> TAKE i \in DOMAIN cvInbound
      <3>1. cvInbound[i] \in CvEntries
        BY <1>0
      <3>2. cvInbound[i].type = "turn" => cvInbound[i].id \in CvIds
        BY <3>1 DEF CvEntries
      <3> QED BY <2>3, <3>2 DEF CvLoopInv
    <2>7. \A i \in DOMAIN cvInbound' : cvInbound'[i].type = "turn" => cvTurn'[cvInbound'[i].id].state = "queued"
      <3> SUFFICES ASSUME NEW i \in DOMAIN cvInbound', cvInbound'[i].type = "turn" PROVE cvTurn'[cvInbound'[i].id].state = "queued"
        OBVIOUS
      <3>1. CASE cvInbound'[i] = e
        BY <2>2, <2>3, <3>1
      <3>2. CASE i \in DOMAIN cvInbound /\ cvInbound'[i] = cvInbound[i]
        BY <2>3, <2>6, <3>2 DEF CvLoopInv
      <3> QED BY <2>5, <3>1, <3>2
    <2>8. \A i, j \in DOMAIN cvInbound' : cvInbound'[i].type = "turn" /\ cvInbound'[j].type = "turn" /\ cvInbound'[j].id = cvInbound'[i].id => j = i
      BY <2>2, <2>5, <2>6 DEF CvLoopInv
    <2>9. \A u \in CvIds : u > cvLast' => cvTurn'[u].state = "unused"
      BY <2>1, <2>3, <2>4 DEF CvLoopInv
    <2>10. CvLoopInv'
      BY <2>1, <2>2, <2>3, <2>5, <2>7, <2>8, <2>9 DEF CvLoopInv
    <2>11. CvKept
      BY <2>2, <2>3 DEF CvKept, CvEnded
    <2> QED BY <2>1, <2>10, <2>11
  <1>2. CASE Agent!ArriveStop(c)
    <2> DEFINE e == [type |-> "stop", chat |-> c]
    <2>1. cvInbound' = Append(cvInbound, e) /\ UNCHANGED <<cvTurn, cvLast, cvLoop, cvCtx>>
      BY <1>2 DEF Agent!ArriveStop
    <2>2. e \in CvEntries /\ e.type = "stop"
      BY DEF CvEntries
    <2> HIDE DEF e
    <2>3. /\ cvInbound' \in Seq(CvEntries)
          /\ \A i \in DOMAIN cvInbound' : \/ i \in DOMAIN cvInbound /\ cvInbound'[i] = cvInbound[i]
                                          \/ i = Len(cvInbound) + 1 /\ cvInbound'[i] = e
      BY <1>0, <2>1, <2>2, CvEnqueue
    <2>4. CvLoopInv'
      BY <2>1, <2>2, <2>3 DEF CvLoopInv
    <2> QED BY <2>1, <2>4 DEF CvKept
  <1> QED BY <1>1, <1>2

\* The loop takes the message of a turn and makes a task of it.
LEMMA CvTakeTurn ==
  ASSUME CvLoopInv, Agent!Dispatch
  PROVE  CvLoopInv' /\ CvKept /\ cvLoop' = cvLoop
  <1>0. cvTurn \in [CvIds -> CvTurns] /\ cvInbound \in Seq(CvEntries)
    BY DEF CvLoopInv
  <1> DEFINE t == Head(cvInbound).id
  <1>1. /\ cvInbound # <<>> /\ Head(cvInbound).type = "turn" /\ cvInbound' = Tail(cvInbound)
        /\ cvTurn' = [cvTurn EXCEPT ![t].state = "waiting"] /\ UNCHANGED <<cvLast, cvLoop, cvCtx>>
    BY DEF Agent!Dispatch, Agent!SetState
  <1>2. /\ cvInbound' \in Seq(CvEntries) /\ 1 \in DOMAIN cvInbound /\ Head(cvInbound) = cvInbound[1] /\ cvInbound[1] \in CvEntries
        /\ \A i \in DOMAIN cvInbound' : i + 1 \in DOMAIN cvInbound /\ cvInbound'[i] = cvInbound[i + 1] /\ i \in Nat /\ i > 0
    BY <1>0, <1>1, CvDequeue
  <1>3. t \in CvIds /\ cvTurn[t].state = "queued"
    BY <1>1, <1>2 DEF CvEntries, CvLoopInv
  <1>4. \A i \in DOMAIN cvInbound : cvInbound[i].type = "turn" => cvInbound[i].id \in CvIds /\ (cvInbound[i].id = t => i = 1)
    <2> TAKE i \in DOMAIN cvInbound
    <2>1. cvInbound[i] \in CvEntries
      BY <1>0
    <2>2. cvInbound[i].type = "turn" => cvInbound[i].id \in CvIds
      BY <2>1 DEF CvEntries
    <2> QED BY <1>1, <1>2, <2>2 DEF CvLoopInv
  <1> HIDE DEF t
  <1>5. /\ cvTurn' \in [CvIds -> CvTurns] /\ \A u \in CvIds : u # t => cvTurn'[u] = cvTurn[u]
        /\ cvTurn'[t].state = "waiting"
    BY <1>0, <1>1, <1>3 DEF CvTurns
  <1>6. \A i \in DOMAIN cvInbound' : cvInbound'[i].type = "turn" => cvInbound'[i].id \in CvIds /\ cvInbound'[i].id # t
    <2> TAKE i \in DOMAIN cvInbound'
    <2>1. i + 1 # 1 /\ i + 1 \in DOMAIN cvInbound /\ cvInbound'[i] = cvInbound[i + 1]
      BY <1>2
    <2> QED BY <1>4, <2>1
  <1>7. \A i \in DOMAIN cvInbound' : cvInbound'[i].type = "turn" => cvTurn'[cvInbound'[i].id].state = "queued"
    BY <1>2, <1>5, <1>6 DEF CvLoopInv
  <1>8. \A i, j \in DOMAIN cvInbound' : cvInbound'[i].type = "turn" /\ cvInbound'[j].type = "turn" /\ cvInbound'[j].id = cvInbound'[i].id => j = i
    <2> TAKE i, j \in DOMAIN cvInbound'
    <2>1. /\ i + 1 \in DOMAIN cvInbound /\ cvInbound'[i] = cvInbound[i + 1] /\ i \in Nat
          /\ j + 1 \in DOMAIN cvInbound /\ cvInbound'[j] = cvInbound[j + 1] /\ j \in Nat
      BY <1>2
    <2>2. cvInbound'[i].type = "turn" /\ cvInbound'[j].type = "turn" /\ cvInbound'[j].id = cvInbound'[i].id => j + 1 = i + 1
      BY <2>1 DEF CvLoopInv
    <2> QED BY <2>1, <2>2
  <1>9. \A u \in CvIds : u > cvLast => cvTurn'[u].state = "unused"
    BY <1>3, <1>5 DEF CvLoopInv
  <1>10. CvLoopInv'
    BY <1>1, <1>2, <1>5, <1>7, <1>8, <1>9 DEF CvLoopInv
  <1>11. CvKept
    BY <1>3, <1>5 DEF CvKept, CvEnded
  <1> QED BY <1>1, <1>10, <1>11

\* _handle_stop takes the tasks of the chat, which are all of its turns.
LEMMA CvTakeStop ==
  ASSUME CvLoopInv, CvHandleStop
  PROVE  /\ CvLoopInv' /\ cvTurn' = cvTurn /\ cvStopping' \subseteq CvIds /\ cvStopping' \subseteq cvLoop'.tasks
         /\ \A t \in cvStopping' : cvTurn[t].state \notin {"unused", "queued"}
  <1>0. cvTurn \in [CvIds -> CvTurns] /\ cvInbound \in Seq(CvEntries)
    BY DEF CvLoopInv
  <1> DEFINE c == Head(cvInbound).chat
             T == {t \in CvIds : cvTurn[t].state \in {"waiting", "running"} /\ cvTurn[t].kind = "user" /\ cvTurn[t].chat = c}
  <1>1. /\ cvInbound # <<>> /\ Head(cvInbound).type = "stop" /\ cvInbound' = Tail(cvInbound)
        /\ cvLoop' = [state |-> "stopping", chat |-> c, tasks |-> T] /\ UNCHANGED <<cvTurn, cvLast, cvCtx>>
        /\ cvStopping' = {t \in CvIds : cvTurn[t].state \in {"waiting", "running"} /\ cvTurn[t].chat = c}
    BY DEF CvHandleStop, Agent!HandleStop, Agent!TasksOf, Agent!Alive, Agent!Ids, CvIds
  <1>2. /\ cvInbound' \in Seq(CvEntries) /\ 1 \in DOMAIN cvInbound /\ Head(cvInbound) = cvInbound[1] /\ cvInbound[1] \in CvEntries
        /\ \A i \in DOMAIN cvInbound' : i + 1 \in DOMAIN cvInbound /\ cvInbound'[i] = cvInbound[i + 1] /\ i \in Nat /\ i > 0
    BY <1>0, <1>1, CvDequeue
  <1>3. c \in CvChats
    BY <1>1, <1>2 DEF CvEntries
  <1>4. \A t \in CvIds : cvTurn[t].kind = "user"
    BY <1>0 DEF CvTurns
  <1>5. cvStopping' \subseteq T
    BY <1>1, <1>4
  <1>6. cvLoop' \in [state : {"consuming", "stopping"}, chat : CvChats, tasks : SUBSET CvIds] /\ cvLoop'.tasks = T
    BY <1>1, <1>3
  <1> HIDE DEF T
  <1>7. \A i, j \in DOMAIN cvInbound' : cvInbound'[i].type = "turn" =>
           /\ cvTurn[cvInbound'[i].id].state = "queued"
           /\ cvInbound'[j].type = "turn" /\ cvInbound'[j].id = cvInbound'[i].id => j = i
    <2> TAKE i, j \in DOMAIN cvInbound'
    <2>1. /\ i + 1 \in DOMAIN cvInbound /\ cvInbound'[i] = cvInbound[i + 1] /\ i \in Nat
          /\ j + 1 \in DOMAIN cvInbound /\ cvInbound'[j] = cvInbound[j + 1] /\ j \in Nat
      BY <1>2
    <2>2. cvInbound'[i].type = "turn" /\ cvInbound'[j].type = "turn" /\ cvInbound'[j].id = cvInbound'[i].id => j + 1 = i + 1
      BY <2>1 DEF CvLoopInv
    <2> QED BY <2>1, <2>2 DEF CvLoopInv
  <1>8. CvLoopInv'
    BY <1>1, <1>2, <1>6, <1>7 DEF CvLoopInv
  <1>9. \A t \in cvStopping' : cvTurn[t].state \notin {"unused", "queued"}
    BY <1>1
  <1> QED BY <1>1, <1>5, <1>6, <1>8, <1>9

-----------------------------------------------------------------------------
(* The answers to /stop *)

\* A step that publishes nothing for an ended turn keeps what is known of
\* answered /stops.
LEMMA CvQuietKept ==
  ASSUME CvStopInv, CvKept, cvOut \in Nat, cvOut' = cvOut \/ cvOut' = cvOut + 1, cvLoop' = cvLoop, UNCHANGED cvHistory
  PROVE  CvStopInv'
  BY DEF CvStopInv, CvKept, cvHistory

\* So does a message of a turn that is alive.
LEMMA CvQuietPublish ==
  ASSUME CvStopInv, CvKept, cvOut \in Nat, cvOut' = cvOut + 1, cvLoop' = cvLoop,
         NEW t \in CvIds, cvTurn[t].state = "running", NEW c, NEW k,
         cvFrom' = cvFrom \union {[id |-> cvOut + 1, turn |-> t, to |-> c, kind |-> k]},
         UNCHANGED <<cvStopping, cvConfirmed>>
  PROVE  CvStopInv'
  <1>1. \A m \in cvFrom' : m \in cvFrom \/ (m.id = cvOut + 1 /\ m.turn = t)
    OBVIOUS
  <1>2. \A m \in cvFrom' : m.id \in 1 .. cvOut'
    BY <1>1 DEF CvStopInv
  <1>3. \A r \in cvConfirmed : t \notin r.turns
    BY DEF CvStopInv, CvEnded
  <1>4. \A r \in cvConfirmed : r.id \in 1 .. cvOut'
    BY DEF CvStopInv
  <1> QED BY <1>1, <1>2, <1>3, <1>4 DEF CvStopInv, CvKept

\* The number of the last outbound message is a natural number.
LEMMA CvNumbers == CvOutInv => cvOut \in Nat
  BY CvMax DEF CvOutInv, CvOutTypes

\* Nothing of the loop or of the history changes with the outbound side.
LEMMA CvLoopSame ==
  ASSUME CvLoopInv, UNCHANGED <<cvTurn, cvLast, cvInbound, cvLoop, cvCtx>>
  PROVE  CvLoopInv' /\ CvKept
  BY DEF CvLoopInv, CvKept

\* Nothing of the outbound side changes with the loop.
LEMMA CvOutSame ==
  ASSUME CvOutInv, UNCHANGED cvOutVars
  PROVE  CvOutInv' /\ cvOut' = cvOut
  BY DEF CvOutInv, CvOutTypes, CvOutOrder, cvOutVars

\* Before the first message the invariant holds.
LEMMA CvInitInv == CvInit => CvIInv
  <1> SUFFICES ASSUME CvInit PROVE CvIInv
    OBVIOUS
  <1> USE CvAssumption, CvMax
  <1>1. Agent!AnyChat \in CvChats
    BY DEF Agent!AnyChat
  <1>2. /\ cvTurn = [t \in CvIds |-> [chat |-> Agent!AnyChat, kind |-> "user", state |-> "unused"]] /\ cvLast = 0 /\ cvInbound = <<>>
        /\ cvLoop = [state |-> "consuming", chat |-> Agent!AnyChat, tasks |-> {}] /\ cvCtx = Agent!AnyChat
    BY DEF CvInit, Agent!Init, Agent!Ids, Agent!Consuming, CvIds
  <1>3. CvLoopInv
    BY <1>1, <1>2 DEF CvLoopInv, CvTurns
  <1>4. CvOutInv
    BY DEF CvInit, CvOutInv, CvOutTypes, CvOutOrder
  <1>5. CvStopInv
    BY <1>2 DEF CvInit, CvStopInv
  <1> QED BY <1>3, <1>4, <1>5 DEF CvIInv

\* The end of a turn.
LEMMA CvEndStep ==
  ASSUME CvLoopInv, NEW t \in CvIds, Agent!Finish(t) \/ Agent!Fail(t) \/ Agent!StopTurn(t) \/ Agent!Begin(t)
  PROVE  CvLoopInv' /\ CvKept /\ cvLoop' = cvLoop
  <1>0. cvTurn \in [CvIds -> CvTurns] /\ cvCtx \in CvChats
    BY DEF CvLoopInv
  <1>1. cvTurn[t].chat \in CvChats
    BY <1>0 DEF CvTurns
  <1>2. /\ cvTurn[t].state \in {"waiting", "running"} /\ UNCHANGED <<cvLast, cvInbound, cvLoop>> /\ cvCtx' \in CvChats
        /\ \E s \in {"running"} \cup CvEnded : /\ cvTurn' = [cvTurn EXCEPT ![t].state = s]
    BY <1>0, <1>1 DEF Agent!Finish, Agent!Fail, Agent!StopTurn, Agent!Begin, Agent!Active, Agent!Alive, Agent!SetState, Agent!EnterTurn, CvEnded
  <1>3. PICK s \in {"running"} \cup CvEnded : cvTurn' = [cvTurn EXCEPT ![t].state = s]
    BY <1>2
  <1>4. CvLoopInv' /\ (\A u \in CvIds : u # t => cvTurn'[u] = cvTurn[u]) /\ cvTurn'[t].state = s
    BY <1>2, <1>3, CvTurnStep
  <1>5. CvKept
    BY <1>2, <1>4 DEF CvKept, CvEnded
  <1> QED BY <1>2, <1>4, <1>5

\* A running turn publishes a message.
LEMMA CvPublishesStep ==
  ASSUME CvIInv, CvLoopInv', CvKept, cvLoop' = cvLoop, NEW t \in CvIds, cvTurn[t].state = "running", NEW c \in CvChats,
         NEW k \in {"answer", "progress"}, CvPublishes(t, c, k)
  PROVE  CvIInv'
  <1>1. CvOutInv' /\ cvOut' = cvOut + 1
    BY CvPublishStep DEF CvIInv, CvPublishes
  <1>2. CvStopInv'
    BY <1>1, CvNumbers, CvQuietPublish DEF CvIInv, CvPublishes
  <1> QED BY <1>1, <1>2 DEF CvIInv

\* Every step of the loop, of its turns and of the dispatcher keeps the
\* invariant.
LEMMA CvStep == CvIInv /\ [CvNext]_cvVars => CvIInv'
  <1> SUFFICES ASSUME CvIInv, [CvNext]_cvVars PROVE CvIInv'
    OBVIOUS
  <1>0. CvLoopInv /\ CvOutInv /\ CvStopInv /\ cvOut \in Nat /\ cvCtx \in CvChats /\ \A t \in CvIds : cvTurn[t].chat \in CvChats
    BY CvNumbers DEF CvIInv, CvLoopInv, CvTurns
  <1>1. ASSUME NEW c \in CvChats, CvArrive(c) PROVE CvIInv'
    <2>1. CvLoopInv' /\ CvKept /\ cvLoop' = cvLoop
      BY <1>0, <1>1, CvArriveStep DEF CvArrive
    <2>2. UNCHANGED cvOutVars /\ UNCHANGED cvHistory
      BY <1>1 DEF CvArrive
    <2>3. CvOutInv' /\ cvOut' = cvOut
      BY <1>0, <2>2, CvOutSame
    <2>4. CvStopInv'
      BY <1>0, <2>1, <2>2, <2>3, CvQuietKept
    <2> QED BY <2>1, <2>3, <2>4 DEF CvIInv
  <1>2. CASE CvLoopStep
    <2>1. CvLoopInv' /\ CvKept /\ cvLoop' = cvLoop
      BY <1>0, <1>2, CvTakeTurn, CvEndStep DEF CvLoopStep
    <2>2. UNCHANGED cvOutVars /\ UNCHANGED cvHistory
      BY <1>2 DEF CvLoopStep
    <2>3. CvOutInv' /\ cvOut' = cvOut
      BY <1>0, <2>2, CvOutSame
    <2>4. CvStopInv'
      BY <1>0, <2>1, <2>2, <2>3, CvQuietKept
    <2> QED BY <2>1, <2>3, <2>4 DEF CvIInv
  <1>3. CASE CvHandleStop
    <2>1. /\ CvLoopInv' /\ cvTurn' = cvTurn /\ cvStopping' \subseteq CvIds /\ cvStopping' \subseteq cvLoop'.tasks
          /\ \A t \in cvStopping' : cvTurn[t].state \notin {"unused", "queued"}
      BY <1>0, <1>3, CvTakeStop
    <2>2. CvOutInv' /\ cvOut' = cvOut /\ UNCHANGED <<cvFrom, cvConfirmed>>
      BY <1>0, <1>3, CvOutSame DEF CvHandleStop
    <2>3. CvStopInv'
      BY <1>0, <2>1, <2>2 DEF CvStopInv
    <2> QED BY <2>1, <2>2, <2>3 DEF CvIInv
  <1>4. CASE CvStopDone
    <2>1. /\ cvLoop.state = "stopping" /\ \A t \in cvLoop.tasks : cvTurn[t].state \notin {"waiting", "running"}
          /\ cvLoop' = [state |-> "consuming", chat |-> Agent!AnyChat, tasks |-> {}]
          /\ UNCHANGED <<cvTurn, cvLast, cvInbound, cvCtx>>
      BY <1>4 DEF CvStopDone, Agent!StopDone, Agent!Alive, Agent!Consuming
    <2>2. Agent!AnyChat \in CvChats
      BY CvAssumption DEF Agent!AnyChat
    <2>3. CvLoopInv'
      BY <1>0, <2>1, <2>2 DEF CvLoopInv
    <2>4. CvOutInv' /\ cvOut' = cvOut + 1
      <3>1. cvLoop.chat \in CvChats
        BY <1>0 DEF CvLoopInv
      <3> QED BY <1>0, <1>4, <3>1, CvPublishStep DEF CvStopDone
    <2> DEFINE r == [id |-> cvOut + 1, turns |-> cvStopping]
    <2>5. cvConfirmed' = cvConfirmed \union {r} /\ cvStopping' = {} /\ cvFrom' = cvFrom /\ r.id = cvOut + 1 /\ r.turns = cvStopping
      BY <1>4 DEF CvStopDone
    <2> HIDE DEF r
    <2>6. \A t \in cvStopping : t \in CvIds /\ cvTurn[t].state \in CvEnded
      <3> TAKE t \in cvStopping
      <3>1. t \in CvIds /\ cvTurn[t].state \notin {"unused", "queued", "waiting", "running"}
        BY <1>0, <2>1 DEF CvStopInv
      <3>2. cvTurn[t].state \in {"unused", "queued", "waiting", "running"} \cup CvEnded
        BY <1>0, <3>1 DEF CvLoopInv, CvTurns
      <3> QED BY <3>1, <3>2
    <2>7. \A m \in cvFrom : m.id \in 1 .. cvOut
      BY <1>0 DEF CvStopInv
    <2>8. \A q \in cvConfirmed' : q.id \in 1 .. cvOut' /\ \A t \in q.turns :
             t \in CvIds /\ cvTurn'[t].state \in CvEnded /\ \A m \in cvFrom : m.turn = t => m.id < q.id
      <3> TAKE q \in cvConfirmed'
      <3>1. CASE q \in cvConfirmed
        BY <1>0, <2>1, <2>4, <3>1 DEF CvStopInv
      <3>2. CASE q = r
        BY <1>0, <2>1, <2>4, <2>5, <2>6, <2>7, <3>2
      <3> QED BY <2>5, <3>1, <3>2
    <2>9. CvStopInv'
      BY <1>0, <2>1, <2>4, <2>5, <2>7, <2>8 DEF CvStopInv
    <2> QED BY <2>3, <2>4, <2>9 DEF CvIInv
  <1>5. CASE CvOutStep
    <2>1. UNCHANGED <<cvTurn, cvLast, cvInbound, cvLoop, cvCtx>> /\ UNCHANGED cvHistory
      BY <1>5 DEF CvOutStep, cvLoopVars
    <2>2. CvLoopInv' /\ CvKept
      BY <1>0, <2>1, CvLoopSame
    <2>3. CvOutInv' /\ cvOut' = cvOut
      BY <1>0, <1>5, CvDispatchStep, CvSentStep DEF CvOutStep
    <2>4. CvStopInv'
      BY <1>0, <2>1, <2>2, <2>3, CvQuietKept
    <2> QED BY <2>2, <2>3, <2>4 DEF CvIInv
  <1>6. ASSUME NEW t \in CvIds, CvSend(t) PROVE CvIInv'
    <2>1. cvTurn[t].state = "running" /\ UNCHANGED <<cvTurn, cvLast, cvInbound, cvLoop, cvCtx>>
      BY <1>6 DEF CvSend, Agent!SendMessage, Agent!SendMessageTo, Agent!Active
    <2>2. CvLoopInv' /\ CvKept
      BY <1>0, <2>1, CvLoopSame
    <2>3. \E c \in CvChats : CvPublishes(t, c, "answer")
      BY <1>0, <1>6 DEF CvSend
    <2> QED BY <2>1, <2>2, <2>3, CvPublishesStep
  <1>7. ASSUME NEW t \in CvIds, CvProgress(t) PROVE CvIInv'
    <2>1. cvTurn[t].state = "running" /\ UNCHANGED <<cvTurn, cvLast, cvInbound, cvLoop, cvCtx>>
      BY <1>7 DEF CvProgress, Agent!Active, cvLoopVars
    <2>2. CvLoopInv' /\ CvKept
      BY <1>0, <2>1, CvLoopSame
    <2>3. CvPublishes(t, cvTurn[t].chat, "progress")
      BY <1>7 DEF CvProgress
    <2> QED BY <1>0, <2>1, <2>2, <2>3, CvPublishesStep
  <1>8. ASSUME NEW t \in CvIds, CvFinish(t) \/ CvFail(t) PROVE CvIInv'
    <2>1. cvTurn[t].state = "running"
      BY <1>8 DEF CvFinish, CvFail, Agent!Finish, Agent!Fail, Agent!Active
    <2>2. CvLoopInv' /\ CvKept /\ cvLoop' = cvLoop
      BY <1>0, <1>8, CvEndStep DEF CvFinish, CvFail
    <2>3. CASE CvPublishes(t, cvTurn[t].chat, "answer")
      BY <1>0, <2>1, <2>2, <2>3, CvPublishesStep
    <2>4. CASE UNCHANGED <<cvOutVars, cvHistory>>
      <3>1. CvOutInv' /\ cvOut' = cvOut /\ UNCHANGED cvHistory
        BY <1>0, <2>4, CvOutSame
      <3>2. CvStopInv'
        BY <1>0, <2>2, <3>1, CvQuietKept
      <3> QED BY <2>2, <3>1, <3>2 DEF CvIInv
    <2> QED BY <1>8, <2>3, <2>4 DEF CvFinish, CvFail
  <1>9. CASE UNCHANGED cvVars
    <2>1. UNCHANGED <<cvTurn, cvLast, cvInbound, cvLoop, cvCtx>> /\ UNCHANGED cvOutVars /\ UNCHANGED cvHistory
      BY <1>9 DEF cvVars, cvLoopVars
    <2>2. CvLoopInv' /\ CvKept /\ CvOutInv' /\ cvOut' = cvOut
      BY <1>0, <2>1, CvLoopSame, CvOutSame
    <2>3. CvStopInv'
      BY <1>0, <2>1, <2>2, CvQuietKept
    <2> QED BY <2>2, <2>3 DEF CvIInv
  <1> QED BY <1>1, <1>2, <1>3, <1>4, <1>5, <1>6, <1>7, <1>8, <1>9 DEF CvNext

\* The invariant implies the property.
LEMMA CvInvImplies == CvIInv => CvQuietAfterStop
  <1> SUFFICES ASSUME CvIInv, NEW r \in cvConfirmed, NEW c \in CvChats, NEW i \in DOMAIN cvGiven[c], NEW j \in DOMAIN cvGiven[c],
                      i < j, cvGiven[c][i] = r.id, NEW m \in cvFrom, m.turn \in r.turns
               PROVE  m.id # cvGiven[c][j]
    BY DEF CvQuietAfterStop
  <1>1. m.id < r.id /\ r.id \in Nat /\ m.id \in Nat
    BY CvNumbers DEF CvIInv, CvStopInv
  <1>2. r.id < cvGiven[c][j]
    BY DEF CvIInv, CvOutInv, CvOutOrder
  <1> QED BY <1>1, <1>2


\* The invariant holds at all times.
LEMMA CvInvariance == CvSpec => []CvIInv
  BY CvInitInv, CvStep, PTL DEF CvSpec

\* After a channel was given the answer to a /stop it is given nothing more of
\* the turns which that /stop cancelled: through the agent loop, the bus and
\* the dispatcher, for any number of chats, turns, /stop commands and messages
\* of a turn.
THEOREM QuietAfterStop == CvSpec => []CvQuietAfterStop
<1>1. CvIInv => CvQuietAfterStop
  BY CvInvImplies
<1> QED BY <1>1, CvInvariance, PTL

-----------------------------------------------------------------------------
(* The parts of a run together *)

\* The invariants of the parts. A part that is not followed keeps its own too.
IInv == CmIInv /\ SupIInv /\ HbIInv /\ SpIInv /\ XtIInv /\ SbIInv /\ InIInv /\ CvIInv

\* A step of the run is a step of each part, or leaves it alone.
LEMMA PartSteps ==
  ASSUME [Next]_all
  PROVE  /\ [CmNext]_cmVars /\ [SupNext]_supVars /\ [HbNext]_hbVars /\ [SpNext]_spVars
         /\ [XtNext]_xtVars /\ [SbNext]_sbVars /\ [InNext]_inVars /\ [CvNext]_cvVars
  BY DEF Next, all

\* Every part begins with its invariant.
LEMMA InitHolds == Init => IInv
  BY CmInitInv, SupInitInv, HbInitInv, SpInitInv, XtInitInv, SbInitInv, InInitInv, CvInitInv DEF Init, IInv

\* Every step keeps the invariants of all parts.
LEMMA StepHolds == IInv /\ [Next]_all => IInv'
  BY PartSteps, CmStep, SupStep, HbStep, SpStep, XtStep, SbStep, InStep, CvStep DEF IInv

\* The invariant holds at all times.
LEMMA Invariance == Spec => []IInv
  BY InitHolds, StepHolds, PTL DEF Spec

\* Each running thing is known and there is one of it: the tasks of the
\* supervisor, heartbeat loops, workers of the pool, pending plugin calls and
\* processes, sandboxed commands; and channels get their messages in order.
THEOREM NothingIsStray == Spec => []NothingStray
<1>1. IInv => NothingStray
  BY CmInvImplies, SupInvImplies, HbInvImplies, SpInvImplies, XtInvImplies, SbInvImplies
  DEF IInv, XtInvs, SbInvs, NothingStray
<1> QED BY <1>1, Invariance, PTL

\* A failure of a service, process, listener, sandbox layer, plugin, job, server
\* or provider stays where it is, a stopped turn is not heard of, and unpacking,
\* redaction and retries keep to their rules.
THEOREM FailuresAreContained == Spec => []FailuresContained
<1>1. IInv => FailuresContained
  BY SupInvImplies, HbInvImplies, SpInvImplies, XtInvImplies, SbInvImplies, InInvImplies, CvInvImplies
  DEF IInv, XtInvs, SbInvs, FailuresContained
<1> QED BY <1>1, Invariance, PTL

\* No step sends to a stopped channel, returns from stop with a service alive,
\* changes the answer of a finished RPC call, runs a cancelled job or passes over a
\* provider that did not fail often and recently enough.
THEOREM NothingHappensAfterEnd == Spec => NothingAfterEnd
<1> DEFINE CmA == \A c \in Chans : cmChan[c] = "stopped" => cmSent'[c] = cmSent[c]
           SupA == (lock.op = "stop_wait" /\ lock'.op = "none") =>
                   live' = {} /\ \A s \in Services : status'[s] = "stopped"
           SpA == spMode = "rpc" => \A t \in SpTasks : SpDone(t) => spResult'[t] = spResult[t]
           XtA == xtRunning' # xtRunning /\ xtRunning' # XtNobody => xtJob[xtRunning'] # "cancelled"
           InA == \A r \in InRequests : InSkip(r)
<1>1. IInv /\ [Next]_all => [CmA]_cmVars /\ [SupA]_supVars /\ [SpA]_spVars /\ [XtA]_xtVars /\ [InA]_inVars
  <2> SUFFICES ASSUME IInv, [Next]_all PROVE CmA /\ SupA /\ SpA /\ XtA /\ InA
    OBVIOUS
  <2>1. CmA
    BY PartSteps, CmStopStep DEF IInv
  <2>2. SupA
    BY PartSteps, StopStep DEF IInv
  <2>3. SpA
    BY PartSteps, SpFinalStep DEF IInv
  <2>4. XtA
    BY PartSteps, XtCancelStep
  <2>5. InA
    BY PartSteps, InSkipStep DEF IInv, InIInv
  <2> QED BY <2>1, <2>2, <2>3, <2>4, <2>5
<1> HIDE DEF CmA, SupA, SpA, XtA, InA
<1>2. Spec => [][CmA]_cmVars /\ [][SupA]_supVars /\ [][SpA]_spVars /\ [][XtA]_xtVars /\ [][InA]_inVars
  BY <1>1, Invariance, PTL DEF Spec
<1> QED
  BY <1>2 DEF CmA, SupA, SpA, XtA, InA, InSkip, NothingAfterEnd, NoSendAfterStop, StopLeavesNone, SpAnswerIsFinal,
     XtCancelledNotRun, InSkipsRecent
=============================================================================
