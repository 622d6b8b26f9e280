--------------------------- MODULE ChannelsProofs ---------------------------
(***************************************************************************)
(* Proofs about the chat channels of MCChannels, each with its inductive   *)
(* invariant: DingTalk (Dt), WhatsApp (Wa), Feishu (Fs), Slack (Sl), Email *)
(* (Em), Telegram (Tg) and Mochat's panels (Pn). A channel that remembers  *)
(* ids in a window is proved to remember each id for as long as it can be  *)
(* delivered again; one that buffers is proved to have each message in one *)
(* place. The last section joins them: MessageOnce holds of every          *)
(* behaviour of the run, for all constants that satisfy the assumptions of *)
(* the channel modules.                                                    *)
(***************************************************************************)
EXTENDS MCChannels, FiniteSetTheorems, SequenceTheorems, TLAPS

-----------------------------------------------------------------------------
(* DingTalk: acknowledged messages *)

\* Every step of DingTalk's channel keeps the acknowledged messages accounted for.
LEMMA DtStep == AckedIsHandled /\ dtMsgs \in Nat /\ [DtNext]_dtVars => AckedIsHandled' /\ dtMsgs' \in Nat
  BY DEF AckedIsHandled, DtNext, dtVars, DtStart, DtStreamEnds, DtStreamAgain, DtEvent, DtStop, DtHttpClosed, Cancelled, DtTick,
     DtOnMessage, DtSend, DtTokenComes, DtTokenFails, DtText, DtStepOk, DtStepFails, DtNote, inbound

-----------------------------------------------------------------------------
(* A window of ids that are taken in order *)

\* The window q has the last w of the ids 1 .. b.
LastOf(q, b, w) ==
    /\ q \in Seq(Nat) /\ Len(q) = (IF b <= w THEN b ELSE w)
    /\ \A k \in 1 .. Len(q) : q[k] = b - Len(q) + k

\* An id that is not too old is in the window, and a new one is not.
LEMMA WindowHas ==
  ASSUME NEW w \in Nat, NEW b \in Nat, NEW q, LastOf(q, b, w)
  PROVE  /\ \A i \in 1 .. b : b < i + w => \E k \in 1 .. Len(q) : q[k] = i
         /\ \A k \in 1 .. Len(q) : q[k] # b + 1
  <1>1. Len(q) \in Nat /\ Len(q) = (IF b <= w THEN b ELSE w) /\ \A k \in 1 .. Len(q) : q[k] = b - Len(q) + k
    BY DEF LastOf
  <1>2. ASSUME NEW i \in 1 .. b, b < i + w PROVE \E k \in 1 .. Len(q) : q[k] = i
    <2> DEFINE k == i - b + Len(q)
    <2>1. k \in 1 .. Len(q) /\ b - Len(q) + k = i
      BY <1>1, <1>2
    <2> QED BY <1>1, <2>1
  <1>3. \A k \in 1 .. Len(q) : q[k] # b + 1
    BY <1>1
  <1> QED BY <1>2, <1>3

\* A new id pushes the oldest one out of a window that is full.
LEMMA WindowKept ==
  ASSUME NEW w \in Nat \ {0}, NEW b \in Nat, NEW q, LastOf(q, b, w)
  PROVE  LastOf(IF Len(Append(q, b + 1)) > w THEN Tail(Append(q, b + 1)) ELSE Append(q, b + 1), b + 1, w)
  <1> DEFINE r == Append(q, b + 1)
             m == Len(r)
  <1>1. q \in Seq(Nat) /\ Len(q) \in Nat /\ Len(q) = (IF b <= w THEN b ELSE w) /\ \A k \in 1 .. Len(q) : q[k] = b - Len(q) + k
    BY DEF LastOf
  <1>2. r \in Seq(Nat) /\ Len(r) = m /\ m = Len(q) + 1 /\ r[m] = b + 1 /\ \A k \in 1 .. Len(q) : r[k] = q[k]
    BY <1>1
  <1> HIDE DEF r, m
  <1>3. \A k \in 1 .. m : r[k] = (b + 1) - m + k
    <2> SUFFICES ASSUME NEW k \in 1 .. m PROVE r[k] = (b + 1) - m + k
      OBVIOUS
    <2>1. CASE k = m
      <3>1. m \in Nat /\ (b + 1) - m + m = b + 1
        BY <1>1, <1>2
      <3> QED BY <1>2, <2>1, <3>1
    <2>2. CASE k \in 1 .. Len(q)
      BY <1>1, <1>2, <2>2
    <2> QED BY <1>1, <1>2, <2>1, <2>2
  <1>4. CASE m > w
    <2> DEFINE t == Tail(r)
    <2>1. m = w + 1 /\ b >= w
      BY <1>1, <1>2, <1>4
    <2>2. t \in Seq(Nat) /\ Len(t) = w /\ \A k \in 1 .. w : t[k] = r[k + 1]
      BY <1>2, <2>1
    <2> HIDE DEF t
    <2>3. \A k \in 1 .. w : t[k] = (b + 1) - w + k
      <3> TAKE k \in 1 .. w
      <3>1. k + 1 \in 1 .. m
        BY <2>1
      <3>2. t[k] = (b + 1) - m + (k + 1)
        BY <1>3, <2>2, <3>1
      <3> QED BY <2>1, <3>2
    <2>4. LastOf(t, b + 1, w)
      BY <2>1, <2>2, <2>3 DEF LastOf
    <2> QED BY <1>4, <2>4 DEF t, r, m
  <1>5. CASE ~(m > w)
    <2>1. m = b + 1 /\ b + 1 <= w
      BY <1>1, <1>2, <1>5
    <2>2. LastOf(r, b + 1, w)
      BY <1>2, <1>3, <2>1 DEF LastOf
    <2> QED BY <1>5, <2>2 DEF r, m
  <1> QED BY <1>4, <1>5

-----------------------------------------------------------------------------
(* WhatsApp: the window of message ids *)

\* Messages are taken in order, and the window has the last of them.
WaIInv ==
    /\ waMsgs \in Nat /\ LastOf(waIds, waMsgs, WaWindow)
    /\ waGot \in Seq(Nat) /\ Len(waGot) = waMsgs /\ \A k \in 1 .. Len(waGot) : waGot[k] = k

\* A message that is delivered again is still in the window.
LEMMA WaReceiveKeeps ==
  ASSUME WaIInv, NEW i \in 1 .. MaxWaMsgs, WaReceive(i)
  PROVE  WaIInv'
  <1>1. waMsgs \in Nat /\ waGot \in Seq(Nat) /\ i \in Nat /\ i >= 1 /\ LastOf(waIds, waMsgs, WaWindow) /\ waIds \in Seq(Nat)
    BY DEF WaIInv, LastOf
  <1>2. i <= waMsgs + 1 /\ i + WaLag >= waMsgs
    BY DEF WaReceive
  <1>3. CASE i <= waMsgs
    <2>1. i \in 1 .. waMsgs /\ waMsgs < i + WaWindow
      BY <1>1, <1>2, <1>3, WaAssumption
    <2>2. \E k \in DOMAIN waIds : waIds[k] = i
      <3>1. \A j \in 1 .. waMsgs : waMsgs < j + WaWindow => \E k \in 1 .. Len(waIds) : waIds[k] = j
        BY <1>1, WindowHas, WaAssumption
      <3>2. \E k \in 1 .. Len(waIds) : waIds[k] = i
        BY <2>1, <3>1, Zenon
      <3>3. DOMAIN waIds = 1 .. Len(waIds)
        BY <1>1
      <3> QED BY <3>2, <3>3, Zenon
    <2>3. UNCHANGED <<waIds, waGot, waMsgs>>
      BY <1>1, <1>3, <2>2 DEF WaReceive
    <2> QED BY <2>3 DEF WaIInv, LastOf
  <1>4. CASE i = waMsgs + 1
    <2>1. ~\E k \in DOMAIN waIds : waIds[k] = i
      <3>1. \A k \in 1 .. Len(waIds) : waIds[k] # waMsgs + 1
        BY <1>1, WindowHas, WaAssumption
      <3>2. DOMAIN waIds = 1 .. Len(waIds)
        BY <1>1
      <3> QED BY <1>4, <3>1, <3>2, Zenon
    <2>2. waMsgs' = i /\ waIds' = RememberedIds(Append(waIds, i)) /\ waGot' = Append(waGot, i)
      BY <1>1, <1>4, <2>1 DEF WaReceive
    <2>3. LastOf(waIds', i, WaWindow)
      BY <1>1, <1>4, <2>2, WindowKept, WaAssumption DEF RememberedIds
    <2>4. waGot' \in Seq(Nat) /\ Len(waGot') = i /\ \A k \in 1 .. i : waGot'[k] = k
      BY <1>1, <1>4, <2>2 DEF WaIInv
    <2> QED BY <1>1, <2>2, <2>3, <2>4 DEF WaIInv, LastOf
  <1> QED BY <1>1, <1>2, <1>3, <1>4

\* Every step of WhatsApp's channel keeps its invariant.
LEMMA WaStep == WaIInv /\ [WaNext]_waVars => WaIInv'
  <1> SUFFICES ASSUME WaIInv, [WaNext]_waVars PROVE WaIInv'
    OBVIOUS
  <1>1. ASSUME NEW i \in 1 .. MaxWaMsgs, WaReceive(i) PROVE WaIInv'
    BY <1>1, WaReceiveKeeps
  <1>2. CASE UNCHANGED <<waIds, waMsgs, waGot>>
    BY <1>2 DEF WaIInv, LastOf
  <1>3. UNCHANGED <<waIds, waMsgs, waGot>> \/ \E i \in 1 .. MaxWaMsgs : WaReceive(i)
    BY DEF WaNext, waVars, waInbox, WaStart, BridgeDies, WaConnect, WaError, WaClosed, WaBackoffEnds, WaStopBegins,
       WaStopClosed, Exits, TimesOut, Killed, Spawned, WaStatus
  <1> QED BY <1>1, <1>2, <1>3

\* A channel starts with nothing, and messages taken in order are taken once.
LEMMA WaFacts == (WaInit => WaIInv) /\ (WaIInv => WaOnce)
  <1>1. ASSUME WaInit PROVE WaIInv
    BY <1>1, WaAssumption DEF WaInit, WaIInv, LastOf
  <1>2. ASSUME WaIInv PROVE WaOnce
    <2>1. DOMAIN waGot = 1 .. Len(waGot) /\ \A k \in 1 .. Len(waGot) : waGot[k] = k
      BY <1>2 DEF WaIInv
    <2> QED BY <2>1 DEF WaOnce
  <1> QED BY <1>1, <1>2

-----------------------------------------------------------------------------
(* Feishu: handlers that begin in order and a window of message ids *)

\* The newest message whose handler began.
FsBegun == IF fsIds = <<>> THEN 0 ELSE fsIds[Len(fsIds)]

\* The window has the last of the messages that began.
FsIds ==
    /\ fsMsgs \in Nat /\ FsBegun \in Nat /\ FsBegun <= fsMsgs
    /\ LastOf(fsIds, FsBegun, FsWindow)

\* What is scheduled is not older than the window, and new messages are in order.
FsQueue ==
    /\ fsSched \in Seq(1 .. fsMsgs) /\ Len(fsSched) <= FsLag
    /\ \A k \in 1 .. Len(fsSched) : fsMsgs <= fsSched[k] + FsLag + Len(fsSched) - k
    /\ \A k \in 1 .. Len(fsSched) : fsSched[k] <= FsBegun + 1 \/ \E l \in 1 .. k - 1 : fsSched[l] = fsSched[k] - 1
    /\ \A v \in FsBegun + 1 .. fsMsgs : \E k \in 1 .. Len(fsSched) : fsSched[k] = v

\* What was handed over began, and is not handled any more.
FsPlaces ==
    /\ fsActive \subseteq 1 .. FsBegun /\ fsActive \cap fsBots = {}
    /\ fsGot \in Seq(1 .. FsBegun)
    /\ \A i, j \in 1 .. Len(fsGot) : i # j => fsGot[i] # fsGot[j]
    /\ \A i \in 1 .. Len(fsGot) : fsGot[i] \notin fsActive \union fsBots

FsIInv == FsIds /\ FsQueue /\ FsPlaces

\* A handler begins: it finds its message in the window, or the message is new.
LEMMA FsBeginsKeeps ==
  ASSUME FsIInv, FsBegins
  PROVE  FsIInv'
  <1> DEFINE b == FsBegun
             h == Head(fsSched)
             n == Len(fsSched)
  <1>1. /\ fsMsgs \in Nat /\ b \in Nat /\ b <= fsMsgs /\ fsSched \in Seq(1 .. fsMsgs) /\ n \in Nat
        /\ fsIds \in Seq(Nat) /\ LastOf(fsIds, b, FsWindow)
    BY DEF FsIInv, FsIds, FsQueue, LastOf
  <1>2. n >= 1 /\ h = fsSched[1] /\ h \in 1 .. fsMsgs /\ n <= FsLag
    BY <1>1 DEF FsBegins, FsIInv, FsQueue
  <1>3. h <= b + 1 /\ fsMsgs < h + FsWindow
    <2>1. fsMsgs <= fsSched[1] + FsLag + n - 1 /\ (fsSched[1] <= b + 1 \/ \E l \in 1 .. 1 - 1 : fsSched[l] = fsSched[1] - 1)
      BY <1>1, <1>2 DEF FsIInv, FsQueue
    <2> QED BY SMTT(20), <1>1, <1>2, <2>1, FsAssumption
  <1>4. fsSched' = Tail(fsSched) /\ UNCHANGED <<fsMsgs, fsBots, fsGot>>
    BY DEF FsBegins
  <1>5. Len(fsSched') = n - 1 /\ fsSched' \in Seq(1 .. fsMsgs) /\ \A k \in 1 .. n - 1 : fsSched'[k] = fsSched[k + 1]
    BY <1>1, <1>2, <1>4
  <1>6. ASSUME FsBegun' \in Nat, FsBegun' = IF h <= b THEN b ELSE h PROVE FsQueue'
    <2> HIDE DEF b, h, n
    <2>0. \A k \in 1 .. n : fsSched[k] \in 1 .. fsMsgs
      BY <1>1 DEF n
    <2>1. \A k \in 1 .. Len(fsSched') : fsMsgs' <= fsSched'[k] + FsLag + Len(fsSched') - k
      <3> SUFFICES ASSUME NEW k \in 1 .. n - 1 PROVE fsMsgs <= fsSched[k + 1] + FsLag + (n - 1) - k
        BY <1>1, <1>4, <1>5
      <3>1. k + 1 \in 1 .. n
        BY <1>1
      <3> QED BY <1>1, <3>1, <2>0, FsAssumption DEF FsIInv, FsQueue, n
    <2>2. \A k \in 1 .. Len(fsSched') : fsSched'[k] <= FsBegun' + 1 \/ \E l \in 1 .. k - 1 : fsSched'[l] = fsSched'[k] - 1
      <3> SUFFICES ASSUME NEW k \in 1 .. n - 1, ~(fsSched[k + 1] <= FsBegun' + 1)
                   PROVE  \E l \in 1 .. k - 1 : fsSched'[l] = fsSched[k + 1] - 1
        BY <1>1, <1>5
      <3>1. k + 1 \in 1 .. n /\ k \in Nat
        BY <1>1
      <3>2. PICK l \in 1 .. k : fsSched[l] = fsSched[k + 1] - 1
        <4>1. fsSched[k + 1] <= b + 1 \/ \E l \in 1 .. (k + 1) - 1 : fsSched[l] = fsSched[k + 1] - 1
          BY <3>1 DEF FsIInv, FsQueue, b, n
        <4>2. ~(fsSched[k + 1] <= b + 1)
          BY SMTT(20), <1>1, <1>2, <1>6, <2>0, <3>1
        <4> QED BY <3>1, <4>1, <4>2
      <3>3. l # 1
        <4>1. FsBegun' >= h
          BY <1>1, <1>2, <1>6
        <4>2. fsSched[k + 1] > FsBegun' + 1 /\ fsSched[k + 1] \in Nat
          BY <1>1, <1>6, <2>0, <3>1
        <4> QED BY SMTT(20), <1>1, <1>2, <1>6, <3>2, <4>1, <4>2
      <3>4. l - 1 \in 1 .. k - 1 /\ l - 1 \in 1 .. n - 1 /\ (l - 1) + 1 = l
        BY <1>1, <3>1, <3>3
      <3> QED BY <1>5, <3>2, <3>4
    <2>3. \A v \in FsBegun' + 1 .. fsMsgs' : \E k \in 1 .. Len(fsSched') : fsSched'[k] = v
      <3> SUFFICES ASSUME NEW v \in FsBegun' + 1 .. fsMsgs PROVE \E k \in 1 .. n - 1 : fsSched'[k] = v
        BY <1>4, <1>5
      <3>1. v \in b + 1 .. fsMsgs /\ v # h
        BY <1>1, <1>2, <1>6
      <3>2. PICK k \in 1 .. n : fsSched[k] = v
        BY <3>1 DEF FsIInv, FsQueue, b, n
      <3>3. k # 1
        BY <1>2, <3>1, <3>2
      <3>4. k - 1 \in 1 .. n - 1 /\ (k - 1) + 1 = k
        BY <1>1, <3>3
      <3> QED BY <1>5, <3>2, <3>4
    <2> QED BY <1>1, <1>2, <1>4, <1>5, <2>1, <2>2, <2>3, FsAssumption DEF FsQueue
  <1>7. CASE h <= b
    <2>1. \E k \in DOMAIN fsIds : fsIds[k] = h
      <3>1. h \in 1 .. b /\ b < h + FsWindow
        BY <1>1, <1>2, <1>3, <1>7, FsAssumption
      <3> HIDE DEF b, h
      <3>2. \E k \in 1 .. Len(fsIds) : fsIds[k] = h
        <4>1. \A j \in 1 .. b : b < j + FsWindow => \E k \in 1 .. Len(fsIds) : fsIds[k] = j
          BY SMTT(20), <1>1, WindowHas, FsAssumption
        <4> QED BY <3>1, <4>1, Zenon
      <3> QED BY <1>1, <3>2
    <2>2. UNCHANGED <<fsIds, fsActive>>
      BY <2>1 DEF FsBegins
    <2>3. FsBegun' = FsBegun
      BY <2>2 DEF FsBegun
    <2>4. FsIds' /\ FsPlaces'
      BY <1>4, <2>2, <2>3 DEF FsIInv, FsIds, FsPlaces, LastOf
    <2> QED BY <1>1, <1>6, <1>7, <2>3, <2>4 DEF FsIInv
  <1>8. CASE h = b + 1
    <2>1. ~\E k \in DOMAIN fsIds : fsIds[k] = h
      <3> HIDE DEF b, h
      <3>1. \A k \in 1 .. Len(fsIds) : fsIds[k] # b + 1
        BY <1>1, WindowHas, FsAssumption
      <3>2. DOMAIN fsIds = 1 .. Len(fsIds)
        BY <1>1
      <3> QED BY <1>8, <3>1, <3>2, Zenon
    <2>2. fsIds' = Trimmed(Append(fsIds, h)) /\ fsActive' = fsActive \union ({h} \ fsBots)
      BY <2>1 DEF FsBegins, MarkedFirst
    <2> HIDE DEF h, b
    <2>5. LastOf(fsIds', h, FsWindow)
      BY <1>1, <1>8, <2>2, WindowKept, FsAssumption DEF Trimmed
    <2>6. FsBegun' = h /\ h \in Nat /\ h >= 1
      <3>1. fsIds' \in Seq(Nat) /\ Len(fsIds') >= 1 /\ Len(fsIds') \in Nat /\ fsIds'[Len(fsIds')] = h - Len(fsIds') + Len(fsIds')
        BY <1>1, <1>8, <2>5, FsAssumption DEF LastOf
      <3> QED BY <1>1, <1>8, <3>1 DEF FsBegun
    <2>7. FsIds'
      BY <1>1, <1>2, <1>4, <2>5, <2>6 DEF FsIds, LastOf
    <2>8. FsPlaces'
      <3>1. fsActive' \subseteq 1 .. h /\ fsActive' \cap fsBots = {}
        <4>1. fsActive \subseteq 1 .. b /\ fsActive \cap fsBots = {}
          BY DEF FsIInv, FsPlaces, b
        <4>2. 1 .. b \subseteq 1 .. h /\ h \in 1 .. h
          BY <1>1, <1>8, <2>6
        <4> QED BY <2>2, <4>1, <4>2
      <3>2. fsGot \in Seq(1 .. b) /\ \A i \in 1 .. Len(fsGot) : fsGot[i] \in 1 .. b /\ fsGot[i] \notin fsActive \union fsBots
        <4>1. fsGot \in Seq(1 .. b) /\ \A i \in 1 .. Len(fsGot) : fsGot[i] \notin fsActive \union fsBots
          BY DEF FsIInv, FsPlaces, b
        <4>2. \A i \in 1 .. Len(fsGot) : fsGot[i] \in 1 .. b
          BY <4>1, ElementOfSeq
        <4> QED BY <4>1, <4>2
      <3>3. fsGot \in Seq(1 .. h)
        BY <1>1, <1>8, <3>2
      <3>4. \A i \in 1 .. Len(fsGot) : fsGot[i] \notin fsActive' \union fsBots
        BY <1>1, <1>8, <2>2, <3>2
      <3> QED BY <1>4, <2>6, <3>1, <3>3, <3>4 DEF FsIInv, FsPlaces
    <2> QED BY <1>1, <1>6, <1>8, <2>6, <2>7, <2>8 DEF FsIInv, b, h
  <1> QED BY <1>1, <1>2, <1>3, <1>7, <1>8

\* An event is scheduled.
LEMMA FsEventKeeps ==
  ASSUME FsIInv, NEW i \in 1 .. MaxFsMsgs, FsEvent(i)
  PROVE  FsIInv'
  <1> DEFINE b == FsBegun
             n == Len(fsSched)
  <1>1. fsMsgs \in Nat /\ b \in Nat /\ b <= fsMsgs /\ fsSched \in Seq(1 .. fsMsgs) /\ n \in Nat /\ i \in Nat /\ i >= 1
    BY DEF FsIInv, FsIds, FsQueue, FsBegun, LastOf
  <1>2. /\ i <= fsMsgs + 1 /\ i + FsLag >= fsMsgs /\ n < FsLag /\ fsSched' = Append(fsSched, i)
        /\ fsMsgs' = (IF i > fsMsgs THEN i ELSE fsMsgs) /\ UNCHANGED <<fsBots, fsIds, fsActive, fsGot>>
    BY DEF FsEvent
  <1>3. FsBegun' = b
    BY <1>2 DEF FsBegun
  <1>4. FsIds' /\ FsPlaces'
    BY <1>1, <1>2, <1>3 DEF FsIInv, FsIds, FsPlaces
  <1>5. \A k \in 1 .. n : fsSched[k] \in 1 .. fsMsgs
    BY <1>1
  <1>6. /\ fsMsgs' \in Nat /\ fsMsgs <= fsMsgs' /\ fsMsgs' <= fsMsgs + 1 /\ i <= fsMsgs' /\ (fsMsgs' = fsMsgs \/ fsMsgs' = i)
        /\ fsMsgs' <= i + FsLag
    BY <1>1, <1>2, FsAssumption
  <1>7. /\ fsSched' \in Seq(1 .. fsMsgs') /\ Len(fsSched') = n + 1 /\ fsSched'[n + 1] = i
        /\ \A k \in 1 .. n : fsSched'[k] = fsSched[k]
    <2>1. fsSched \in Seq(1 .. fsMsgs') /\ i \in 1 .. fsMsgs'
      BY <1>1, <1>5, <1>6
    <2> QED BY <1>2, <2>1
  <1> HIDE DEF b, n
  <1>8. \A k \in 1 .. n + 1 : fsMsgs' <= fsSched'[k] + FsLag + (n + 1) - k
    <2> SUFFICES ASSUME NEW k \in 1 .. n + 1 PROVE fsMsgs' <= fsSched'[k] + FsLag + (n + 1) - k
      OBVIOUS
    <2>1. CASE k = n + 1
      BY <1>1, <1>6, <1>7, <2>1, FsAssumption
    <2>2. CASE k \in 1 .. n
      <3>1. fsMsgs <= fsSched[k] + FsLag + n - k
        BY <2>2 DEF FsIInv, FsQueue, n
      <3> QED BY SMTT(20), <1>1, <1>5, <1>6, <1>7, <2>2, <3>1, FsAssumption
    <2> QED BY <1>1, <2>1, <2>2
  <1>9. \A k \in 1 .. n + 1 : fsSched'[k] <= b + 1 \/ \E l \in 1 .. k - 1 : fsSched'[l] = fsSched'[k] - 1
    <2> SUFFICES ASSUME NEW k \in 1 .. n + 1, ~(fsSched'[k] <= b + 1) PROVE \E l \in 1 .. k - 1 : fsSched'[l] = fsSched'[k] - 1
      OBVIOUS
    <2>1. CASE k = n + 1
      <3>1. i - 1 \in b + 1 .. fsMsgs
        BY <1>1, <1>2, <1>7, <2>1
      <3>2. PICK l \in 1 .. n : fsSched[l] = i - 1
        BY <3>1 DEF FsIInv, FsQueue, b, n
      <3> QED BY <1>1, <1>7, <2>1, <3>2
    <2>2. CASE k \in 1 .. n
      <3>1. PICK l \in 1 .. k - 1 : fsSched[l] = fsSched[k] - 1
        BY <1>7, <2>2 DEF FsIInv, FsQueue, b, n
      <3>2. l \in 1 .. n
        BY <1>1, <2>2
      <3> QED BY <1>7, <2>2, <3>1, <3>2
    <2> QED BY <1>1, <2>1, <2>2
  <1>10. \A v \in b + 1 .. fsMsgs' : \E k \in 1 .. n + 1 : fsSched'[k] = v
    <2> SUFFICES ASSUME NEW v \in b + 1 .. fsMsgs' PROVE \E k \in 1 .. n + 1 : fsSched'[k] = v
      OBVIOUS
    <2>1. CASE v = i
      BY <1>1, <1>7, <2>1
    <2>2. CASE v # i
      <3>1. v \in b + 1 .. fsMsgs
        BY <1>1, <1>2, <1>6, <2>2
      <3>2. PICK k \in 1 .. n : fsSched[k] = v
        BY <3>1 DEF FsIInv, FsQueue, b, n
      <3> QED BY <1>1, <1>7, <3>2
    <2> QED BY <2>1, <2>2
  <1>11. FsQueue'
    <2>1. Len(fsSched') = n + 1 /\ FsBegun' = b
      BY <1>3, <1>7
    <2>2. fsSched' \in Seq(1 .. fsMsgs') /\ n + 1 <= FsLag
      BY <1>1, <1>2, <1>7, FsAssumption DEF n
    <2> QED BY <1>8, <1>9, <1>10, <2>1, <2>2 DEF FsQueue
  <1> QED BY <1>4, <1>11 DEF FsIInv

\* A handler ends, with or without a message for the agent.
LEMMA FsEndsKeeps ==
  ASSUME FsIInv, NEW i, FsHandOver(i) \/ FsGivesUp(i)
  PROVE  FsIInv'
  <1>1. /\ i \in fsActive /\ fsActive' = fsActive \ {i} /\ UNCHANGED <<fsBots, fsMsgs, fsSched, fsIds>>
        /\ fsGot' = fsGot \/ fsGot' = Append(fsGot, i)
    BY DEF FsHandOver, FsGivesUp
  <1>2. FsBegun' = FsBegun /\ FsIds' /\ FsQueue'
    BY <1>1 DEF FsIInv, FsIds, FsQueue, FsBegun, LastOf
  <1>3. i \in 1 .. FsBegun /\ i \notin fsBots /\ fsGot \in Seq(1 .. FsBegun)
    BY <1>1 DEF FsIInv, FsPlaces
  <1>4. CASE fsGot' = fsGot
    BY <1>1, <1>2, <1>4 DEF FsIInv, FsPlaces
  <1>5. CASE fsGot' = Append(fsGot, i)
    <2>1. /\ fsGot' \in Seq(1 .. FsBegun) /\ Len(fsGot') = Len(fsGot) + 1 /\ fsGot'[Len(fsGot) + 1] = i /\ Len(fsGot) \in Nat
          /\ \A k \in 1 .. Len(fsGot) : fsGot'[k] = fsGot[k] /\ fsGot[k] # i
      BY <1>1, <1>3, <1>5 DEF FsIInv, FsPlaces
    <2>2. \A k, l \in 1 .. Len(fsGot') : k # l => fsGot'[k] # fsGot'[l]
      BY <2>1 DEF FsIInv, FsPlaces
    <2>3. \A k \in 1 .. Len(fsGot') : fsGot'[k] \notin fsActive' \union fsBots'
      BY <1>1, <1>3, <2>1 DEF FsIInv, FsPlaces
    <2> QED BY <1>1, <1>2, <2>1, <2>2, <2>3 DEF FsIInv, FsPlaces
  <1> QED BY <1>1, <1>2, <1>4, <1>5 DEF FsIInv

\* Every step of Feishu's channel keeps its invariant.
LEMMA FsStep == FsIInv /\ [FsNext]_fsVars => FsIInv'
  <1> SUFFICES ASSUME FsIInv, [FsNext]_fsVars PROVE FsIInv'
    OBVIOUS
  <1>1. CASE UNCHANGED <<fsBots, fsMsgs, fsSched, fsIds, fsActive, fsGot>>
    BY <1>1 DEF FsIInv, FsIds, FsQueue, FsPlaces, FsBegun, LastOf
  <1>2. \/ UNCHANGED <<fsBots, fsMsgs, fsSched, fsIds, fsActive, fsGot>> \/ FsBegins
        \/ \E i \in 1 .. MaxFsMsgs : FsEvent(i) \/ FsHandOver(i) \/ FsGivesUp(i)
    BY DEF FsNext, fsVars, FsStart, ClientEnds, ClientAgain, FsStop
  <1> QED BY <1>1, <1>2, FsBeginsKeeps, FsEventKeeps, FsEndsKeeps

\* A channel starts with nothing.
LEMMA FsFacts == (FsInit => FsIInv) /\ (FsIInv => FsOnce)
  <1>1. ASSUME FsInit PROVE FsIInv
    <2>1. FsBegun = 0 /\ fsIds = <<>> /\ fsSched = <<>> /\ fsGot = <<>> /\ fsMsgs = 0 /\ fsActive = {}
      BY <1>1 DEF FsInit, FsBegun
    <2> QED BY <2>1, FsAssumption DEF FsIInv, FsIds, FsQueue, FsPlaces, LastOf
  <1>2. FsIInv => FsOnce
    BY DEF FsIInv, FsPlaces, FsOnce
  <1> QED BY <1>1, <1>2
-----------------------------------------------------------------------------
(* Slack: a mention in two events *)

SlMessage == [mention : BOOLEAN, own : BOOLEAN, im : BOOLEAN]

\* The one event of a message that may be accepted by a bot that knows its id.
SlMain(m) == IF slMsgs[m].mention THEN "app_mention" ELSE "message"

\* Events are of messages, and only a mention has two.
SlTypes ==
    /\ slMsgs \in Seq(SlMessage) /\ Len(slMsgs) <= MaxSlackMsgs /\ slLost \in Nat /\ slGot \in [SlMsgs -> Nat]
    /\ slEvents \subseteq SlEvents /\ slWork \subseteq SlEvents
    /\ \A e \in slEvents \union slWork : e.msg \in 1 .. Len(slMsgs) /\ (e.type = "app_mention" => slMsgs[e.msg].mention)
    /\ \A m \in SlMsgs : m \notin 1 .. Len(slMsgs) => slGot[m] = 0
    /\ slState = "off" => slMsgs = <<>>

\* A message is on its way in one event only, or was handed over.
SlOneEvent ==
    (slBot /\ slLost = 0) =>
        /\ slEvents \cap slWork = {}
        /\ \A e \in slWork : ~slMsgs[e.msg].own /\ e.type = SlMain(e.msg) /\ slGot[e.msg] = 0
        /\ \A e \in slEvents : e.type = SlMain(e.msg) => slGot[e.msg] = 0
        /\ \A m \in 1 .. Len(slMsgs) : slGot[m] <= IF slMsgs[m].own THEN 0 ELSE 1

SlIInv == SlTypes /\ SlOneEvent

\* What the bot accepts when it knows its id.
LEMMA SlAcceptedIsMain ==
  ASSUME SlTypes, slBot, NEW e \in slEvents, Accepted(e)
  PROVE  ~slMsgs[e.msg].own /\ e.type = SlMain(e.msg)
  <1>1. e.type \in {"message", "app_mention"} /\ (e.type = "app_mention" => slMsgs[e.msg].mention)
    BY DEF SlTypes, SlEvents
  <1> QED BY <1>1 DEF Accepted, Doubled, SlMain

\* A message is written.
LEMMA SlWrittenKeeps ==
  ASSUME SlIInv, NEW mention \in BOOLEAN, NEW own \in BOOLEAN, NEW im \in BOOLEAN, SlWritten(mention, own, im)
  PROVE  SlIInv'
  <1> DEFINE n == Len(slMsgs)
             r == [mention |-> mention, own |-> own, im |-> im]
             new == slEvents' \ slEvents
  <1>1. slMsgs \in Seq(SlMessage) /\ n \in Nat /\ n < MaxSlackMsgs /\ r \in SlMessage
    BY DEF SlIInv, SlTypes, SlWritten, SlMessage
  <1>2. slMsgs' = Append(slMsgs, r) /\ slState # "off" /\ UNCHANGED <<slState, slBot, slWork, slLost, slGot>>
    BY DEF SlWritten
  <1>3. slMsgs' \in Seq(SlMessage) /\ Len(slMsgs') = n + 1 /\ slMsgs'[n + 1].mention = mention /\ slMsgs'[n + 1].own = own
        /\ \A m \in 1 .. n : slMsgs'[m] = slMsgs[m]
    BY <1>1, <1>2
  <1>4. n + 1 \in SlMsgs /\ n + 1 \notin 1 .. n /\ slGot[n + 1] = 0
    BY <1>1, SlAssumption DEF SlIInv, SlTypes, SlMsgs
  <1>5. slEvents \subseteq slEvents' /\ \A e \in new : e \in SlEvents /\ e.msg = n + 1 /\ (e.type = "app_mention" => mention)
    <2>1. slEvents' = slEvents \union {[msg |-> n + 1, type |-> t] : t \in {"message"} \union (IF mention /\ ~im THEN {"app_mention"} ELSE {})}
      BY DEF SlWritten
    <2> QED BY <1>4, <2>1 DEF SlEvents
  <1>6. \A e \in slEvents \union slWork : e.msg \in 1 .. n /\ slMsgs'[e.msg] = slMsgs[e.msg]
    BY <1>3 DEF SlIInv, SlTypes
  <1> HIDE DEF n, r, new
  <1>7. SlTypes'
    <2>1. \A e \in slEvents' \union slWork' : e \in slEvents \union slWork \/ e \in new
      BY <1>2 DEF new
    <2>2. \A e \in slEvents' \union slWork' : e \in SlEvents /\ e.msg \in 1 .. n + 1 /\ (e.type = "app_mention" => slMsgs'[e.msg].mention)
      BY <1>1, <1>3, <1>5, <1>6, <2>1 DEF SlIInv, SlTypes
    <2>3. \A m \in SlMsgs : m \notin 1 .. n + 1 => slGot[m] = 0
      BY <1>1 DEF SlIInv, SlTypes, n
    <2>4. n + 1 <= MaxSlackMsgs
      BY <1>1, SlAssumption
    <2> QED BY <1>2, <1>3, <2>2, <2>3, <2>4 DEF SlIInv, SlTypes
  <1>8. SlOneEvent'
    <2> SUFFICES ASSUME slBot, slLost = 0 PROVE SlOneEvent'
      BY <1>2 DEF SlOneEvent
    <2>1. slEvents' \cap slWork' = {}
      BY <1>1, <1>2, <1>4, <1>5, <1>6 DEF SlIInv, SlOneEvent, new
    <2>2. \A e \in slWork' : ~slMsgs'[e.msg].own /\ e.type = SlMain(e.msg)' /\ slGot'[e.msg] = 0
      BY <1>2, <1>6 DEF SlIInv, SlOneEvent, SlMain
    <2>3. \A e \in slEvents' : e.type = SlMain(e.msg)' => slGot'[e.msg] = 0
      BY <1>2, <1>4, <1>5, <1>6 DEF SlIInv, SlOneEvent, SlMain, new
    <2>4. \A m \in 1 .. n + 1 : slGot'[m] <= IF slMsgs'[m].own THEN 0 ELSE 1
      <3>1. \A m \in 1 .. n : slGot[m] <= IF slMsgs[m].own THEN 0 ELSE 1
        BY DEF SlIInv, SlOneEvent, n
      <3>2. \A m \in 1 .. n + 1 : m \in 1 .. n \/ m = n + 1
        BY <1>1
      <3> QED BY <1>2, <1>3, <1>4, <3>1, <3>2
    <2> QED BY <1>3, <2>1, <2>2, <2>3, <2>4 DEF SlOneEvent
  <1> QED BY <1>7, <1>8 DEF SlIInv

\* An envelope arrives; its acknowledgement arrives or is lost.
LEMMA SlRequestKeeps ==
  ASSUME SlIInv, NEW e, SlRequest(e) \/ SlAckLost(e) \/ SlAckRaises(e)
  PROVE  SlIInv'
  <1>1. /\ e \in slEvents /\ slEvents' \subseteq slEvents /\ (slLost' = 0 => slEvents' = slEvents \ {e}) /\ slLost' \in Nat
        /\ slWork' = slWork \/ (Accepted(e) /\ slWork' = slWork \union {e})
        /\ UNCHANGED <<slState, slBot, slMsgs, slGot>> /\ (slLost' = 0 => slLost = 0)
    BY DEF SlIInv, SlTypes, SlRequest, SlAckLost, SlAckRaises, Acked
  <1>2. SlTypes'
    BY <1>1 DEF SlIInv, SlTypes
  <1>3. SlOneEvent'
    <2> SUFFICES ASSUME slBot, slLost' = 0 PROVE SlOneEvent'
      BY <1>1 DEF SlOneEvent
    <2>1. Accepted(e) => ~slMsgs[e.msg].own /\ e.type = SlMain(e.msg) /\ slGot[e.msg] = 0
      BY <1>1, SlAcceptedIsMain DEF SlIInv, SlOneEvent
    <2>2. slEvents' \cap slWork' = {}
      BY <1>1 DEF SlIInv, SlOneEvent
    <2> QED BY <1>1, <2>1, <2>2 DEF SlIInv, SlOneEvent, SlMain
  <1> QED BY <1>2, <1>3 DEF SlIInv

\* The message of an accepted event is handed over.
LEMMA SlHandOverKeeps ==
  ASSUME SlIInv, NEW e, SlHandOver(e)
  PROVE  SlIInv'
  <1>1. e \in slWork /\ slWork' = slWork \ {e} /\ slGot' = [slGot EXCEPT ![e.msg] = @ + 1]
        /\ UNCHANGED <<slState, slBot, slMsgs, slEvents, slLost>>
    BY DEF SlHandOver, SlHandedOver
  <1>2. e \in SlEvents /\ e.msg \in SlMsgs /\ e.msg \in 1 .. Len(slMsgs) /\ slGot \in [SlMsgs -> Nat] /\ slMsgs \in Seq(SlMessage)
    BY <1>1 DEF SlIInv, SlTypes, SlEvents
  <1>3. slGot' \in [SlMsgs -> Nat] /\ slGot'[e.msg] = slGot[e.msg] + 1 /\ \A m \in SlMsgs : m # e.msg => slGot'[m] = slGot[m]
    BY <1>1, <1>2
  <1>4. SlTypes'
    BY <1>1, <1>2, <1>3 DEF SlIInv, SlTypes
  <1>5. SlOneEvent'
    <2> SUFFICES ASSUME slBot, slLost = 0 PROVE SlOneEvent'
      BY <1>1 DEF SlOneEvent
    <2>1. e.type = SlMain(e.msg) /\ ~slMsgs[e.msg].own /\ slGot'[e.msg] = 1
      BY <1>1, <1>2, <1>3 DEF SlIInv, SlOneEvent
    <2>2. \A d \in SlEvents : d.msg = e.msg /\ d.type = e.type => d = e
      BY <1>2 DEF SlEvents
    <2>3. \A d \in slWork' : d.msg # e.msg /\ d.msg \in SlMsgs
      BY <1>1, <2>1, <2>2 DEF SlIInv, SlOneEvent, SlTypes, SlEvents
    <2>4. \A d \in slEvents : d.type = SlMain(d.msg) => d.msg # e.msg /\ d.msg \in SlMsgs
      BY <1>1, <2>1, <2>2 DEF SlIInv, SlOneEvent, SlTypes, SlEvents
    <2>5. \A m \in 1 .. Len(slMsgs) : slGot'[m] <= IF slMsgs[m].own THEN 0 ELSE 1
      <3>1. \A m \in 1 .. Len(slMsgs) : m \in SlMsgs /\ slGot[m] <= IF slMsgs[m].own THEN 0 ELSE 1
        BY SlAssumption DEF SlIInv, SlOneEvent, SlTypes, SlMsgs
      <3> QED BY <1>3, <2>1, <3>1
    <2>6. \A d \in slWork' : ~slMsgs[d.msg].own /\ d.type = SlMain(d.msg) /\ slGot'[d.msg] = 0
      BY <1>1, <1>3, <2>3 DEF SlIInv, SlOneEvent
    <2>7. \A d \in slEvents : d.type = SlMain(d.msg) => slGot'[d.msg] = 0
      BY <1>1, <1>3, <2>4 DEF SlIInv, SlOneEvent
    <2>8. slEvents' \cap slWork' = {}
      BY <1>1 DEF SlIInv, SlOneEvent
    <2> QED BY <1>1, <2>5, <2>6, <2>7, <2>8 DEF SlOneEvent, SlMain
  <1> QED BY <1>4, <1>5 DEF SlIInv

\* Every step of Slack's channel keeps its invariant.
LEMMA SlStep == SlIInv /\ [SlNext]_slVars => SlIInv'
  <1> SUFFICES ASSUME SlIInv, [SlNext]_slVars PROVE SlIInv'
    OBVIOUS
  <1>1. CASE SlStart
    <2>1. slMsgs = <<>> /\ slState' = "running" /\ UNCHANGED <<slMsgs, slEvents, slWork, slLost, slGot>>
      BY <1>1 DEF SlStart, SlIInv, SlTypes
    <2>2. slEvents = {} /\ slWork = {}
      BY <2>1 DEF SlIInv, SlTypes
    <2> QED BY <2>1, <2>2 DEF SlIInv, SlTypes, SlOneEvent
  <1>2. CASE SlStop \/ SlClosed \/ UNCHANGED slVars
    <2>1. (slState' = "off" => slState = "off") /\ UNCHANGED <<slBot, slMsgs, slEvents, slWork, slLost, slGot>>
      BY <1>2 DEF SlStop, SlClosed, slVars
    <2> QED BY <2>1 DEF SlIInv, SlTypes, SlOneEvent, SlMain
  <1> QED BY <1>1, <1>2, SlWrittenKeeps, SlRequestKeeps, SlHandOverKeeps DEF SlNext

\* A channel starts with nothing.
LEMMA SlFacts == (SlInit => SlIInv) /\ (SlIInv => MentionOnce)
  <1>1. ASSUME SlInit PROVE SlIInv
    BY <1>1, SlAssumption DEF SlInit, SlIInv, SlTypes, SlOneEvent, SlMsgs
  <1>2. SlIInv => MentionOnce
    BY DEF SlIInv, SlTypes, SlOneEvent, MentionOnce
  <1> QED BY <1>1, <1>2

-----------------------------------------------------------------------------
(* Email: the flag and the processed uids *)

EmElems(q) == {q[i] : i \in DOMAIN q}

EmTypes ==
    /\ emItems \in Seq(Mails) /\ emFound \subseteq Mails /\ emUids \subseteq Mails /\ emBox \subseteq Mails /\ emSeen \subseteq Mails
    /\ emGot \in [Mails -> Nat] /\ emErrors \in Nat /\ emCrashes \in Nat /\ emMark \in BOOLEAN /\ emEvicted \in BOOLEAN
    /\ emState \notin {"fetch", "hand"} => emItems = <<>>

\* The memory of what was taken is complete.
EmRemembers == emMark \/ (emCrashes = 0 /\ ~emEvicted)

\* What was taken is in the memory, and was taken once.
EmTaken ==
    EmRemembers =>
        /\ \A i, j \in DOMAIN emItems : i # j => emItems[i] # emItems[j]
        /\ \A m \in Mails : emGot[m] <= 1 /\ (m \in EmElems(emItems) => emGot[m] = 0)
        /\ \A m \in Mails : emGot[m] > 0 \/ m \in EmElems(emItems) => m \in (IF emMark THEN emSeen ELSE emUids)
        /\ emMark => emFound \cap emSeen = {}

EmIInv == EmTypes /\ EmTaken /\ SeenIsHandedOver

\* One mail is taken into the list.
LEMMA EmListed ==
  ASSUME NEW m \in Mails, NEW q \in Seq(Mails), NEW r, r = Append(q, m)
  PROVE  /\ r \in Seq(Mails) /\ EmElems(r) = EmElems(q) \union {m}
         /\ (m \notin EmElems(q) /\ (\A i, j \in DOMAIN q : i # j => q[i] # q[j])) => \A i, j \in DOMAIN r : i # j => r[i] # r[j]
  <1>1. /\ r \in Seq(Mails) /\ DOMAIN r = 1 .. Len(q) + 1 /\ DOMAIN q = 1 .. Len(q) /\ Len(q) \in Nat
        /\ r[Len(q) + 1] = m /\ \A i \in 1 .. Len(q) : r[i] = q[i]
    OBVIOUS
  <1>2. \A i \in 1 .. Len(q) + 1 : i \in 1 .. Len(q) \/ i = Len(q) + 1
    BY <1>1
  <1>3. EmElems(r) = EmElems(q) \union {m}
    BY <1>1, <1>2 DEF EmElems
  <1>4. ASSUME m \notin EmElems(q), \A i, j \in DOMAIN q : i # j => q[i] # q[j] PROVE \A i, j \in DOMAIN r : i # j => r[i] # r[j]
    BY <1>1, <1>2, <1>4 DEF EmElems
  <1> QED BY <1>1, <1>3, <1>4

\* A uid is added, and none is forgotten unless that is recorded.
LEMMA EmUidAdded ==
  ASSUME EmTypes, NEW m \in Mails, AddUid(m)
  PROVE  /\ emUids' \subseteq Mails /\ emEvicted' \in BOOLEAN /\ (~emEvicted' => ~emEvicted)
         /\ ~emEvicted' => emUids' = emUids \union {m}
  <1> DEFINE S == emUids \union {m}
  <1>1. S \subseteq Mails /\ Cardinality(S) \in Nat
    <2>1. S \in SUBSET Mails
      BY DEF EmTypes
    <2> HIDE DEF S
    <2>2. IsFiniteSet(S)
      BY <2>1, FS_Subset, EmAssumption
    <2> QED BY <2>1, <2>2, FS_CardinalityType
  <1>2. emUids' \in Evicted(S) /\ emEvicted' = (emEvicted \/ Cardinality(S) > MaxUids)
    BY Zenon DEF AddUid
  <1> HIDE DEF S
  <1>3. emUids' \subseteq S
    BY <1>2 DEF Evicted
  <1>4. ASSUME ~(Cardinality(S) > MaxUids) PROVE emUids' = S
    <2>1. Cardinality(S) <= MaxUids
      BY <1>1, <1>4, EmAssumption
    <2> QED BY <1>2, <2>1, Zenon DEF Evicted
  <1> QED BY <1>1, <1>2, <1>3, <1>4 DEF EmTypes, S

\* The thread handles a mail of the search result.
LEMMA EmFetchOneKeeps ==
  ASSUME EmIInv, NEW m \in Mails, FetchOne(m)
  PROVE  EmIInv'
  <1>1. /\ m \in emFound /\ emFound' = emFound \ {m} /\ emState = "fetch"
        /\ UNCHANGED <<emState, emMark, emBox, emGot, emErrors, emCrashes>>
    BY DEF FetchOne, emConf
  <1>2. CASE m \in emUids
    <2>1. UNCHANGED <<emItems, emUids, emSeen, emEvicted>>
      BY <1>2 DEF FetchOne, Skipped
    <2> QED BY <1>1, <2>1 DEF EmIInv, EmTypes, EmTaken, EmRemembers, SeenIsHandedOver, EmElems
  <1>3. CASE m \notin emUids
    <2>1. emItems' = Append(emItems, m) /\ AddUid(m) /\ emSeen' = (IF emMark THEN emSeen \union {m} ELSE emSeen)
      BY <1>3 DEF FetchOne, Skipped, Marked
    <2>2. emUids' \subseteq Mails /\ emEvicted' \in BOOLEAN /\ (~emEvicted' => ~emEvicted /\ emUids' = emUids \union {m})
      BY <2>1, EmUidAdded DEF EmIInv
    <2>3. /\ emItems' \in Seq(Mails) /\ EmElems(emItems') = EmElems(emItems) \union {m}
          /\ (m \notin EmElems(emItems) /\ (\A i, j \in DOMAIN emItems : i # j => emItems[i] # emItems[j])) =>
                \A i, j \in DOMAIN emItems' : i # j => emItems'[i] # emItems'[j]
      <3>1. emItems \in Seq(Mails)
        BY DEF EmIInv, EmTypes
      <3> DEFINE r == Append(emItems, m)
      <3>2. /\ r \in Seq(Mails) /\ EmElems(r) = EmElems(emItems) \union {m}
            /\ (m \notin EmElems(emItems) /\ (\A i, j \in DOMAIN emItems : i # j => emItems[i] # emItems[j])) =>
                  \A i, j \in DOMAIN r : i # j => r[i] # r[j]
        BY <3>1, EmListed
      <3>3. emItems' = r
        BY <2>1
      <3> HIDE DEF r
      <3> QED BY <3>2, <3>3
    <2>4. EmTypes'
      BY <1>1, <2>1, <2>2, <2>3 DEF EmIInv, EmTypes
    <2>5. EmTaken'
      <3> SUFFICES ASSUME EmRemembers' PROVE EmTaken'
        BY DEF EmTaken
      <3>1. EmRemembers
        BY <1>1, <2>2 DEF EmRemembers
      <3>2. m \notin EmElems(emItems) /\ ~(emGot[m] > 0)
        BY <1>1, <1>3, <3>1 DEF EmIInv, EmTaken
      <3>3. emGot[m] = 0
        BY <3>2 DEF EmIInv, EmTypes
      <3>4. \A x \in Mails : emGot[x] <= 1 /\ (x \in EmElems(emItems') => emGot[x] = 0)
        BY <2>3, <3>1, <3>3 DEF EmIInv, EmTaken
      <3>5. \A x \in Mails : emGot[x] > 0 \/ x \in EmElems(emItems') => x \in (IF emMark THEN emSeen' ELSE emUids')
        <4>1. CASE emMark
          BY <2>1, <2>3, <3>1, <4>1 DEF EmIInv, EmTaken
        <4>2. CASE ~emMark
          BY <1>1, <2>2, <2>3, <3>1, <4>2 DEF EmIInv, EmTaken, EmRemembers
        <4> QED BY <4>1, <4>2
      <3>6. emMark => emFound' \cap emSeen' = {}
        BY <1>1, <2>1, <3>1 DEF EmIInv, EmTaken
      <3> QED BY <1>1, <2>3, <3>1, <3>2, <3>4, <3>5, <3>6 DEF EmIInv, EmTaken
    <2>6. SeenIsHandedOver'
      BY <1>1, <2>1, <2>3 DEF EmIInv, SeenIsHandedOver, EmElems
    <2> QED BY <2>4, <2>5, <2>6 DEF EmIInv
  <1> QED BY <1>2, <1>3

\* The first mail of the list is handed over.
LEMMA EmHandOverKeeps ==
  ASSUME EmIInv, HandOver
  PROVE  EmIInv'
  <1> DEFINE m == Head(emItems)
             n == Len(emItems)
  <1>1. emItems \in Seq(Mails) /\ emItems # <<>> /\ n \in Nat /\ n >= 1 /\ m = emItems[1] /\ m \in Mails /\ emGot \in [Mails -> Nat]
    BY DEF EmIInv, EmTypes, HandOver
  <1>2. /\ emGot' = [emGot EXCEPT ![m] = IF @ < MaxGot THEN @ + 1 ELSE @] /\ emItems' = Tail(emItems) /\ emState = "hand"
        /\ UNCHANGED <<emState, emMark, emBox, emSeen, emFound, emUids, emErrors, emEvicted, emCrashes>>
    BY DEF HandOver, emConf, emHist
  <1>3. emItems' \in Seq(Mails) /\ DOMAIN emItems' = 1 .. n - 1 /\ \A k \in 1 .. n - 1 : emItems'[k] = emItems[k + 1] /\ k + 1 \in 1 .. n
    BY <1>1, <1>2
  <1> HIDE DEF m, n
  <1>4. emGot' \in [Mails -> Nat] /\ \A x \in Mails \ {m} : emGot'[x] = emGot[x]
    BY <1>1, <1>2, EmAssumption
  <1>5. emGot'[m] > 0 /\ (emGot[m] = 0 => emGot'[m] = 1)
    BY <1>1, <1>2, EmAssumption
  <1>6. EmElems(emItems) = EmElems(emItems') \union {m}
    <2>1. DOMAIN emItems = 1 .. n
      BY <1>1 DEF n
    <2>2. \A i \in 1 .. n : i = 1 \/ (i - 1 \in 1 .. n - 1 /\ (i - 1) + 1 = i)
      BY <1>1
    <2>3. 1 \in 1 .. n
      BY <1>1
    <2>4. \A i \in 1 .. n : emItems[i] \in EmElems(emItems') \union {m}
      <3> TAKE i \in 1 .. n
      <3>1. CASE i = 1
        BY <1>1, <3>1
      <3>2. CASE i # 1
        <4> DEFINE k == i - 1
        <4>1. k \in 1 .. n - 1 /\ k + 1 = i
          BY <2>2, <3>2
        <4> HIDE DEF k
        <4>2. k \in DOMAIN emItems' /\ emItems'[k] = emItems[i]
          BY <1>3, <4>1
        <4> QED BY <4>2 DEF EmElems
      <3> QED BY <3>1, <3>2
    <2>5. \A k \in 1 .. n - 1 : emItems'[k] \in EmElems(emItems)
      BY <1>3, <2>1 DEF EmElems
    <2>6. m \in EmElems(emItems)
      BY <1>1, <2>1, <2>3 DEF EmElems
    <2>7. EmElems(emItems') \subseteq EmElems(emItems)
      BY <1>3, <2>5 DEF EmElems
    <2>8. EmElems(emItems) \subseteq EmElems(emItems') \union {m}
      <3> HIDE DEF EmElems
      <3> SUFFICES ASSUME NEW x \in EmElems(emItems) PROVE x \in EmElems(emItems') \union {m}
        OBVIOUS
      <3>1. PICK i \in 1 .. n : x = emItems[i]
        BY <2>1 DEF EmElems
      <3> QED BY <2>4, <3>1
    <2> QED BY <2>6, <2>7, <2>8
  <1>7. (\A i, j \in DOMAIN emItems : i # j => emItems[i] # emItems[j]) =>
            m \notin EmElems(emItems') /\ \A i, j \in DOMAIN emItems' : i # j => emItems'[i] # emItems'[j]
    <2>1. DOMAIN emItems = 1 .. n /\ 1 \in 1 .. n /\ \A k \in 1 .. n - 1 : k + 1 # 1 /\ k \in Int
      BY <1>1 DEF n
    <2> SUFFICES ASSUME \A i, j \in 1 .. n : i # j => emItems[i] # emItems[j]
                 PROVE  m \notin EmElems(emItems') /\ \A i, j \in DOMAIN emItems' : i # j => emItems'[i] # emItems'[j]
      BY <2>1
    <2>2. \A k \in 1 .. n - 1 : emItems'[k] # m
      BY <1>1, <1>3, <2>1
    <2>3. m \notin EmElems(emItems')
      BY <1>3, <2>2 DEF EmElems
    <2>4. ASSUME NEW i \in 1 .. n - 1, NEW j \in 1 .. n - 1, i # j PROVE emItems'[i] # emItems'[j]
      <3>1. i + 1 # j + 1
        BY <2>4
      <3> QED BY <1>3, <3>1
    <2> QED BY <1>3, <2>3, <2>4
  <1>8. EmTypes'
    BY <1>2, <1>3, <1>4 DEF EmIInv, EmTypes
  <1>9. EmTaken'
    <2> SUFFICES ASSUME EmRemembers PROVE EmTaken'
      BY <1>2 DEF EmTaken, EmRemembers
    <2>1. m \notin EmElems(emItems') /\ \A i, j \in DOMAIN emItems' : i # j => emItems'[i] # emItems'[j]
      BY <1>7 DEF EmIInv, EmTaken
    <2>2. emGot[m] = 0
      BY <1>1, <1>6 DEF EmIInv, EmTaken
    <2>3. \A x \in Mails : emGot'[x] <= 1 /\ (x \in EmElems(emItems') => emGot'[x] = 0)
      BY <1>1, <1>4, <1>5, <1>6, <2>1, <2>2 DEF EmIInv, EmTaken
    <2>4. \A x \in Mails : emGot'[x] > 0 \/ x \in EmElems(emItems') => x \in (IF emMark THEN emSeen ELSE emUids)
      BY <1>1, <1>4, <1>6 DEF EmIInv, EmTaken
    <2> QED BY <1>2, <2>1, <2>3, <2>4 DEF EmIInv, EmTaken
  <1>10. SeenIsHandedOver'
    BY <1>2, <1>4, <1>5, <1>6 DEF EmIInv, EmTypes, SeenIsHandedOver, EmElems
  <1> QED BY <1>8, <1>9, <1>10 DEF EmIInv

\* A poll, an error, a crash and what else leaves the mails alone.
LEMMA EmOthersKeep ==
  ASSUME EmIInv, [EmNext]_emVars, ~HandOver, \A m \in Mails : ~FetchOne(m)
  PROVE  EmIInv'
  <1>1. CASE Poll
    <2>1. emState = "sleep" /\ emFound' = emBox \ emSeen /\ emItems' = <<>>
          /\ UNCHANGED <<emMark, emBox, emSeen, emUids, emGot, emErrors, emEvicted, emCrashes>>
      BY <1>1 DEF Poll, emConf, emHist
    <2>2. emItems = <<>>
      BY <2>1 DEF EmIInv, EmTypes
    <2> QED BY <2>1, <2>2 DEF EmIInv, EmTypes, EmTaken, EmRemembers, SeenIsHandedOver, EmElems
  <1>2. CASE FetchRaises
    <2>1. /\ emState' = "sleep" /\ emItems' = <<>> /\ emFound' = {} /\ emErrors' = emErrors + 1
          /\ UNCHANGED <<emMark, emBox, emSeen, emGot, emCrashes>>
          /\ UNCHANGED <<emUids, emEvicted>> \/ \E m \in emFound \ emUids : AddUid(m)
      BY <1>2 DEF FetchRaises, emConf
    <2>2. emUids' \subseteq Mails /\ emEvicted' \in BOOLEAN /\ (~emEvicted' => ~emEvicted /\ emUids \subseteq emUids')
      BY <2>1, EmUidAdded DEF EmIInv, EmTypes
    <2>3. EmTypes'
      BY <2>1, <2>2 DEF EmIInv, EmTypes
    <2>4. EmTaken'
      BY <2>1, <2>2 DEF EmIInv, EmTypes, EmTaken, EmRemembers, EmElems
    <2>5. SeenIsHandedOver'
      BY <2>1 DEF EmIInv, EmTypes, SeenIsHandedOver
    <2> QED BY <2>3, <2>4, <2>5 DEF EmIInv
  <1>3. CASE EmCrash
    <2>1. /\ emState' = "off" /\ emItems' = <<>> /\ emFound' = {} /\ emUids' = {} /\ emCrashes' = emCrashes + 1
          /\ UNCHANGED <<emMark, emBox, emSeen, emGot, emErrors, emEvicted>>
      BY <1>3 DEF EmCrash, emConf
    <2>2. EmTypes'
      BY <2>1 DEF EmIInv, EmTypes
    <2>3. emCrashes' # 0
      BY <2>1 DEF EmIInv, EmTypes
    <2>4. EmTaken' /\ SeenIsHandedOver'
      BY <2>1, <2>3 DEF EmIInv, EmTypes, EmTaken, EmRemembers, SeenIsHandedOver, EmElems
    <2> QED BY <2>2, <2>4 DEF EmIInv
  <1>4. CASE \/ EmStart \/ FetchReturns \/ HandedOver \/ SleepEnds \/ EmStop \/ UNCHANGED emVars
             \/ \E m \in Mails : MailArrives(m) \/ Answer(m)
    <2>1. /\ emBox' \subseteq Mails /\ (emState' \notin {"fetch", "hand"} => emState \notin {"fetch", "hand"} \/ emItems = <<>>)
          /\ UNCHANGED <<emMark, emItems, emSeen, emFound, emUids, emGot, emErrors, emEvicted, emCrashes>>
      BY <1>4 DEF EmStart, FetchReturns, HandedOver, SleepEnds, EmStop, emVars, emConf, emHist, MailArrives, Answer, EmIInv, EmTypes
    <2>2. EmTypes'
      BY <2>1 DEF EmIInv, EmTypes
    <2> QED BY <2>1, <2>2 DEF EmIInv, EmTaken, EmRemembers, SeenIsHandedOver
  <1> QED BY <1>1, <1>2, <1>3, <1>4 DEF EmNext

\* Every step of the mail channel keeps its invariant.
LEMMA EmStep == EmIInv /\ [EmNext]_emVars => EmIInv'
  BY EmFetchOneKeeps, EmHandOverKeeps, EmOthersKeep

\* A channel starts with nothing.
LEMMA EmFacts == (EmInit => EmIInv) /\ (EmIInv => MailOnce /\ SeenIsHandedOver)
  <1>1. ASSUME EmInit PROVE EmIInv
    <2>1. emItems = <<>> /\ EmElems(emItems) = {}
      BY <1>1 DEF EmInit, EmElems
    <2>2. EmTypes
      <3>1. emItems \in Seq(Mails)
        BY <2>1
      <3>2. emGot \in [Mails -> Nat]
        BY <1>1 DEF EmInit
      <3>3. /\ emFound = {} /\ emUids = {} /\ emBox = {} /\ emSeen = {} /\ emErrors = 0 /\ emCrashes = 0
            /\ emMark \in BOOLEAN /\ emEvicted \in BOOLEAN
        BY <1>1 DEF EmInit
      <3> QED BY <2>1, <3>1, <3>2, <3>3 DEF EmTypes
    <2>3. EmTaken
      BY <1>1, <2>1 DEF EmInit, EmTaken
    <2> QED BY <1>1, <2>2, <2>3 DEF EmInit, EmIInv, SeenIsHandedOver
  <1>2. EmIInv => MailOnce /\ SeenIsHandedOver
    BY DEF EmIInv, EmTaken, EmRemembers, MailOnce
  <1> QED BY <1>1, <1>2

-----------------------------------------------------------------------------
(* Telegram: an update is in one place *)

TgUpdate == [id : Nat, kind : UpdateKinds]
TgBusy == tgHandling \union tgPending
TgPublishedIds == UNION {TgElems(tgOut[i]) : i \in DOMAIN tgOut}
TgPlaced == TgElems(tgBuf) \union TgElems(tgFlush) \union TgPublishedIds

TgTypes ==
    /\ tgLast \in Nat
    /\ tgUpdates \in Seq(TgUpdate) /\ \A i \in DOMAIN tgUpdates : tgUpdates[i].id <= tgLast
    /\ TgBusy \subseteq TgUpdate /\ \A u \in TgBusy : u.id <= tgLast
    /\ tgHandling = {} \/ tgPending = {}
    /\ tgBuf \in Seq(Nat) /\ tgFlush \in Seq(Nat) /\ tgOut \in Seq(Seq(Nat))

\* Ids grow along the way of an update: what is buffered, taken or published
\* came before what is handled, and that before what waits.
TgOrdered ==
    /\ \A i, j \in DOMAIN tgUpdates : i < j => tgUpdates[i].id < tgUpdates[j].id
    /\ \A u \in TgBusy : \A i \in DOMAIN tgUpdates : u.id < tgUpdates[i].id
    /\ \A x \in TgPlaced : /\ x <= tgLast /\ \A u \in TgBusy : x < u.id
                           /\ \A i \in DOMAIN tgUpdates : x < tgUpdates[i].id

TgIInv == TgTypes /\ TgOrdered /\ TurnOnce

\* The elements and the places of a sequence with one more.
LEMMA TgAppended ==
  ASSUME NEW S, NEW q \in Seq(S), NEW x \in S
  PROVE  /\ Append(q, x) \in Seq(S) /\ DOMAIN Append(q, x) = DOMAIN q \union {Len(q) + 1} /\ Len(q) + 1 \notin DOMAIN q
         /\ Append(q, x)[Len(q) + 1] = x /\ \A i \in DOMAIN q : Append(q, x)[i] = q[i] /\ i < Len(q) + 1
         /\ TgElems(Append(q, x)) = TgElems(q) \union {x}
  <1> DEFINE r == Append(q, x)
             m == Len(q) + 1
  <1>1. r \in Seq(S) /\ DOMAIN r = 1 .. m /\ DOMAIN q = 1 .. Len(q) /\ Len(q) \in Nat
        /\ r[m] = x /\ \A i \in 1 .. Len(q) : r[i] = q[i]
    OBVIOUS
  <1>2. 1 .. m = (1 .. Len(q)) \union {m} /\ m \notin 1 .. Len(q) /\ \A i \in 1 .. Len(q) : i < m
    BY <1>1
  <1> HIDE DEF r, m
  <1>3. TgElems(r) = TgElems(q) \union {x}
    BY <1>1, <1>2 DEF TgElems
  <1> QED BY <1>1, <1>2, <1>3 DEF r, m

\* A turn that shares nothing with what is placed is published.
LEMMA TgApart ==
  ASSUME NEW q \in Seq(Nat), TgTypes, TurnOnce, tgOut' = Append(tgOut, q),
         \A i \in DOMAIN tgOut : TgElems(tgOut[i]) \cap TgElems(q) = {},
         TgElems(tgBuf') \subseteq TgElems(tgBuf), TgElems(tgFlush') \subseteq TgElems(tgFlush),
         TgElems(q) \cap (TgElems(tgBuf') \union TgElems(tgFlush')) = {}
  PROVE  /\ TurnOnce' /\ tgOut' \in Seq(Seq(Nat)) /\ TgPublishedIds' = TgPublishedIds \union TgElems(q)
  <1> DEFINE m == Len(tgOut) + 1
  <1>1. /\ tgOut' \in Seq(Seq(Nat)) /\ DOMAIN tgOut' = DOMAIN tgOut \union {m}
        /\ m \notin DOMAIN tgOut /\ tgOut'[m] = q /\ \A i \in DOMAIN tgOut : tgOut'[i] = tgOut[i]
    <2>1. tgOut \in Seq(Seq(Nat))
      BY DEF TgTypes
    <2> QED BY <2>1, TgAppended
  <1> HIDE DEF m
  <1>2. TgPublishedIds' = TgPublishedIds \union TgElems(q)
    BY <1>1 DEF TgPublishedIds
  <1>3. TgElems(tgBuf') \cap TgElems(tgFlush') = {}
    BY DEF TurnOnce
  <1>4. ASSUME NEW i \in DOMAIN tgOut' PROVE TgElems(tgOut'[i]) \cap (TgElems(tgBuf') \union TgElems(tgFlush')) = {}
    BY <1>1 DEF TurnOnce
  <1>5. ASSUME NEW i \in DOMAIN tgOut', NEW j \in DOMAIN tgOut', i # j PROVE TgElems(tgOut'[i]) \cap TgElems(tgOut'[j]) = {}
    <2>1. CASE i = m
      BY <1>1, <1>5, <2>1
    <2>2. CASE j = m
      BY <1>1, <1>5, <2>2
    <2>3. CASE i # m /\ j # m
      <3>1. i \in DOMAIN tgOut /\ j \in DOMAIN tgOut
        BY <1>1, <2>3
      <3> QED BY <1>1, <1>5, <3>1 DEF TurnOnce
    <2> QED BY <2>1, <2>2, <2>3
  <1>6. TurnOnce'
    BY <1>3, <1>4, <1>5 DEF TurnOnce
  <1> QED BY <1>1, <1>2, <1>6

\* A turn of the update in the handler is published.
LEMMA TgPublishKeeps ==
  ASSUME TgIInv, NEW u \in TgBusy, TgBusy' = {}, tgOut' = Append(tgOut, <<u.id>>),
         UNCHANGED <<tgUpdates, tgBuf, tgFlush, tgLast>>
  PROVE  TgIInv'
  <1> DEFINE q == <<u.id>>
  <1>1. u.id \in Nat /\ u.id <= tgLast
    BY DEF TgIInv, TgTypes, TgUpdate
  <1>2. q \in Seq(Nat) /\ TgElems(q) = {u.id}
    BY <1>1 DEF TgElems
  <1>3. tgOut' = Append(tgOut, q)
    OBVIOUS
  <1> HIDE DEF q
  <1>4. u.id \notin TgPlaced
    <2>1. \A x \in TgPlaced : x < u.id
      BY DEF TgIInv, TgOrdered
    <2> QED BY <1>1, <2>1
  <1>5. TgElems(q) \cap TgPlaced = {}
    BY <1>2, <1>4
  <1>6. /\ \A i \in DOMAIN tgOut : TgElems(tgOut[i]) \cap TgElems(q) = {}
        /\ TgElems(q) \cap (TgElems(tgBuf') \union TgElems(tgFlush')) = {}
    BY <1>5 DEF TgPlaced, TgPublishedIds
  <1>7. TurnOnce' /\ tgOut' \in Seq(Seq(Nat)) /\ TgPublishedIds' = TgPublishedIds \union TgElems(q)
    BY <1>2, <1>3, <1>6, TgApart DEF TgIInv
  <1>8. TgTypes'
    BY <1>7 DEF TgIInv, TgTypes, TgBusy
  <1>9. TgPlaced' = TgPlaced \union {u.id}
    BY <1>2, <1>7 DEF TgPlaced
  <1>10. TgOrdered'
    <2>1. ASSUME NEW x \in TgPlaced' PROVE x <= tgLast /\ \A i \in DOMAIN tgUpdates : x < tgUpdates[i].id
      BY <1>1, <1>9 DEF TgIInv, TgOrdered
    <2> QED BY <2>1 DEF TgIInv, TgOrdered
  <1> QED BY <1>7, <1>8, <1>10 DEF TgIInv

\* The update in the handler is buffered.
LEMMA TgCollectKeeps ==
  ASSUME TgIInv, NEW u \in TgBusy, TgBusy' = {}, tgBuf' = Append(tgBuf, u.id),
         UNCHANGED <<tgUpdates, tgFlush, tgOut, tgLast>>
  PROVE  TgIInv'
  <1>1. u.id \in Nat /\ u.id <= tgLast
    BY DEF TgIInv, TgTypes, TgUpdate
  <1>2. tgBuf' \in Seq(Nat) /\ TgElems(tgBuf') = TgElems(tgBuf) \union {u.id}
    <2>1. tgBuf \in Seq(Nat)
      BY DEF TgIInv, TgTypes
    <2> QED BY <1>1, <2>1, TgAppended
  <1>3. u.id \notin TgPlaced
    <2>1. \A x \in TgPlaced : x < u.id
      BY DEF TgIInv, TgOrdered
    <2> QED BY <1>1, <2>1
  <1>4. u.id \notin TgElems(tgFlush) /\ \A i \in DOMAIN tgOut : u.id \notin TgElems(tgOut[i])
    BY <1>3 DEF TgPlaced, TgPublishedIds
  <1>5. TurnOnce'
    BY <1>2, <1>4 DEF TgIInv, TurnOnce
  <1>6. TgTypes'
    BY <1>2 DEF TgIInv, TgTypes, TgBusy
  <1>7. TgPlaced' = TgPlaced \union {u.id}
    BY <1>2 DEF TgPlaced, TgPublishedIds
  <1>8. TgOrdered'
    <2>1. ASSUME NEW x \in TgPlaced' PROVE x <= tgLast /\ \A i \in DOMAIN tgUpdates : x < tgUpdates[i].id
      BY <1>1, <1>7 DEF TgIInv, TgOrdered
    <2> QED BY <2>1 DEF TgIInv, TgOrdered
  <1> QED BY <1>5, <1>6, <1>8 DEF TgIInv

\* A buffered or a taken album is published.
LEMMA TgForwardKeeps ==
  ASSUME TgIInv, NEW q, UNCHANGED <<tgUpdates, tgHandling, tgPending, tgLast>>,
         \/ q = tgBuf /\ tgBuf' = <<>> /\ tgFlush' = tgFlush
         \/ q = tgFlush /\ tgFlush' = <<>> /\ tgBuf' = tgBuf,
         tgOut' = Append(tgOut, q)
  PROVE  TgIInv'
  <1>1. q \in Seq(Nat) /\ TgElems(q) \subseteq TgPlaced /\ TgElems(<<>>) = {}
    BY DEF TgIInv, TgTypes, TgPlaced, TgElems
  <1>2. /\ \A i \in DOMAIN tgOut : TgElems(tgOut[i]) \cap TgElems(q) = {}
        /\ TgElems(tgBuf') \subseteq TgElems(tgBuf) /\ TgElems(tgFlush') \subseteq TgElems(tgFlush)
        /\ TgElems(q) \cap (TgElems(tgBuf') \union TgElems(tgFlush')) = {}
    BY <1>1 DEF TgIInv, TurnOnce
  <1>3. TurnOnce' /\ tgOut' \in Seq(Seq(Nat)) /\ TgPublishedIds' = TgPublishedIds \union TgElems(q)
    BY <1>1, <1>2, TgApart DEF TgIInv
  <1>4. TgPlaced' \subseteq TgPlaced
    BY <1>1, <1>2, <1>3 DEF TgPlaced
  <1>5. tgBuf' \in Seq(Nat) /\ tgFlush' \in Seq(Nat)
    <2>1. <<>> \in Seq(Nat)
      OBVIOUS
    <2> QED BY <2>1 DEF TgIInv, TgTypes
  <1>6. TgTypes'
    BY <1>3, <1>5 DEF TgIInv, TgTypes, TgBusy
  <1>7. TgOrdered'
    BY <1>4 DEF TgIInv, TgOrdered, TgBusy
  <1> QED BY <1>3, <1>6, <1>7 DEF TgIInv

\* Nothing is published, and nothing is placed that was not.
LEMMA TgQuietKeeps ==
  ASSUME TgIInv, UNCHANGED <<tgUpdates, tgOut, tgLast>>, TgBusy' \subseteq TgBusy, tgHandling' = {} \/ tgPending' = {},
         \/ tgBuf' = tgBuf /\ tgFlush' = tgFlush
         \/ tgBuf' = <<>> /\ tgFlush' \in {<<>>, tgBuf, tgFlush}
  PROVE  TgIInv'
  <1>1. TgElems(<<>>) = {} /\ TgPublishedIds' = TgPublishedIds
    BY DEF TgElems, TgPublishedIds
  <1>2. TurnOnce'
    BY <1>1 DEF TgIInv, TurnOnce
  <1>3. TgPlaced' \subseteq TgPlaced
    BY <1>1 DEF TgPlaced
  <1>4. tgBuf' \in Seq(Nat) /\ tgFlush' \in Seq(Nat)
    <2>1. <<>> \in Seq(Nat)
      OBVIOUS
    <2> QED BY <2>1 DEF TgIInv, TgTypes
  <1>5. TgTypes'
    BY <1>4 DEF TgIInv, TgTypes
  <1>6. TgOrdered'
    BY <1>3 DEF TgIInv, TgOrdered
  <1> QED BY <1>2, <1>5, <1>6 DEF TgIInv

\* An update arrives.
LEMMA TgArrivesKeeps ==
  ASSUME TgIInv, NEW k \in UpdateKinds, TgArrives(k)
  PROVE  TgIInv'
  <1> DEFINE u == [id |-> tgLast + 1, kind |-> k]
             m == Len(tgUpdates) + 1
  <1>1. /\ tgLast' = tgLast + 1 /\ tgUpdates' = Append(tgUpdates, u)
        /\ UNCHANGED <<tgHandling, tgPending, tgBuf, tgFlush, tgOut>>
    BY DEF TgArrives, tgAlbum
  <1>2. tgLast \in Nat /\ tgUpdates \in Seq(TgUpdate) /\ u \in TgUpdate /\ u.id = tgLast + 1
    BY DEF TgIInv, TgTypes, TgUpdate
  <1>3. \A i \in DOMAIN tgUpdates : tgUpdates[i] \in TgUpdate
    BY <1>2
  <1> HIDE DEF u
  <1>4. /\ tgUpdates' \in Seq(TgUpdate) /\ DOMAIN tgUpdates' = DOMAIN tgUpdates \union {m} /\ m \notin DOMAIN tgUpdates
        /\ tgUpdates'[m] = u /\ \A i \in DOMAIN tgUpdates : tgUpdates'[i] = tgUpdates[i] /\ i < m
    BY <1>1, <1>2, TgAppended
  <1>m. m \in Nat /\ \A i \in DOMAIN tgUpdates : i \in Nat
    BY <1>2
  <1> HIDE DEF m
  <1>5. TgBusy' = TgBusy /\ TgPlaced' = TgPlaced
    BY <1>1 DEF TgBusy, TgPlaced, TgPublishedIds
  <1>6. TurnOnce'
    BY <1>1 DEF TgIInv, TurnOnce
  <1>7. \A i \in DOMAIN tgUpdates : tgUpdates[i].id \in Nat /\ tgUpdates[i].id <= tgLast
    BY <1>3 DEF TgIInv, TgTypes, TgUpdate
  <1>8. \A v \in TgBusy : v.id \in Nat /\ v.id <= tgLast
    BY DEF TgIInv, TgTypes, TgUpdate
  <1>9. TgTypes'
    <2>1. \A i \in DOMAIN tgUpdates' : tgUpdates'[i].id <= tgLast'
      BY <1>1, <1>2, <1>4, <1>7
    <2>2. \A v \in TgBusy' : v.id <= tgLast'
      BY <1>1, <1>2, <1>5, <1>8
    <2> QED BY <1>1, <1>2, <1>4, <1>5, <2>1, <2>2 DEF TgIInv, TgTypes
  <1>10. \A x \in TgPlaced : x \in Nat /\ x <= tgLast
    <2>1. \A i \in DOMAIN tgOut : tgOut[i] \in Seq(Nat)
      BY DEF TgIInv, TgTypes
    <2>2. \A q \in Seq(Nat) : TgElems(q) \subseteq Nat
      BY DEF TgElems
    <2>3. TgPlaced \subseteq Nat
      BY <2>1, <2>2 DEF TgIInv, TgTypes, TgPlaced, TgPublishedIds
    <2> QED BY <2>3 DEF TgIInv, TgOrdered
  <1>11. TgOrdered'
    <2>1. ASSUME NEW i \in DOMAIN tgUpdates', NEW j \in DOMAIN tgUpdates', i < j PROVE tgUpdates'[i].id < tgUpdates'[j].id
      <3>1. CASE j = m
        <4>1. i \in DOMAIN tgUpdates
          BY <1>4, <1>m, <2>1, <3>1
        <4> QED BY <1>2, <1>4, <1>7, <3>1, <4>1
      <3>2. CASE j # m
        <4>1. j \in DOMAIN tgUpdates /\ j < m
          BY <1>4, <3>2
        <4>2. i # m
          BY <1>m, <2>1, <4>1
        <4> QED BY <1>4, <2>1, <4>1, <4>2 DEF TgIInv, TgOrdered
      <3> QED BY <3>1, <3>2
    <2>2. \A v \in TgBusy : \A i \in DOMAIN tgUpdates' : v.id < tgUpdates'[i].id
      BY <1>2, <1>4, <1>8 DEF TgIInv, TgOrdered
    <2>3. ASSUME NEW x \in TgPlaced PROVE x <= tgLast' /\ (\A v \in TgBusy : x < v.id) /\ \A i \in DOMAIN tgUpdates' : x < tgUpdates'[i].id
      BY <1>1, <1>2, <1>4, <1>10 DEF TgIInv, TgOrdered
    <2> QED BY <1>5, <2>1, <2>2, <2>3 DEF TgOrdered
  <1> QED BY <1>6, <1>9, <1>11 DEF TgIInv

\* The handler of the oldest update begins.
LEMMA TgHandleKeeps ==
  ASSUME TgIInv, TgHandle
  PROVE  TgIInv'
  <1> DEFINE u == Head(tgUpdates)
             n == Len(tgUpdates)
  <1>1. /\ tgUpdates # <<>> /\ tgPending = {} /\ tgHandling' = {u} /\ tgUpdates' = Tail(tgUpdates)
        /\ UNCHANGED <<tgPending, tgBuf, tgFlush, tgLast, tgOut>>
    BY DEF TgHandle, tgAlbum
  <1>2. /\ tgUpdates \in Seq(TgUpdate) /\ n \in Nat /\ n >= 1 /\ u = tgUpdates[1] /\ u \in TgUpdate /\ DOMAIN tgUpdates = 1 .. n
        /\ tgUpdates' \in Seq(TgUpdate) /\ DOMAIN tgUpdates' = 1 .. n - 1
        /\ \A k \in 1 .. n - 1 : tgUpdates'[k] = tgUpdates[k + 1] /\ k + 1 \in 1 .. n
    BY <1>1 DEF TgIInv, TgTypes
  <1> HIDE DEF u, n
  <1>3. TgBusy' = {u} /\ TgPlaced' = TgPlaced
    BY <1>1 DEF TgBusy, TgPlaced, TgPublishedIds
  <1>4. TurnOnce'
    BY <1>1 DEF TgIInv, TurnOnce
  <1>5. 1 \in 1 .. n /\ \A k \in 1 .. n - 1 : 1 < k + 1
    BY <1>2
  <1>6. \A i \in 1 .. n : tgUpdates[i].id <= tgLast
    BY <1>2 DEF TgIInv, TgTypes
  <1>7. TgTypes'
    <2>1. \A i \in DOMAIN tgUpdates' : tgUpdates'[i].id <= tgLast'
      BY <1>1, <1>2, <1>6
    <2>2. \A v \in TgBusy' : v.id <= tgLast' /\ v \in TgUpdate
      BY <1>1, <1>2, <1>3, <1>5, <1>6
    <2> QED BY <1>1, <1>2, <2>1, <2>2 DEF TgIInv, TgTypes
  <1>8. TgOrdered'
    <2>1. ASSUME NEW i \in 1 .. n - 1, NEW j \in 1 .. n - 1, i < j PROVE tgUpdates'[i].id < tgUpdates'[j].id
      <3>1. i + 1 < j + 1
        BY <2>1
      <3> QED BY <1>2, <3>1 DEF TgIInv, TgOrdered
    <2>2. \A i \in 1 .. n - 1 : u.id < tgUpdates'[i].id
      BY <1>2, <1>5 DEF TgIInv, TgOrdered
    <2>3. ASSUME NEW x \in TgPlaced PROVE x <= tgLast' /\ x < u.id /\ \A i \in 1 .. n - 1 : x < tgUpdates'[i].id
      BY <1>1, <1>2, <1>5 DEF TgIInv, TgOrdered
    <2> QED BY <1>2, <1>3, <2>1, <2>2, <2>3 DEF TgOrdered
  <1> QED BY <1>4, <1>7, <1>8 DEF TgIInv

\* The handler ends: nothing, a turn of its own, or a part of an album.
LEMMA TgHandledKeeps ==
  ASSUME TgIInv, NEW u \in tgHandling, TgHandled(u)
  PROVE  TgIInv'
  <1>1. tgPending = {} /\ u \in TgBusy /\ u \in TgUpdate
    BY DEF TgIInv, TgTypes, TgBusy
  <1>2. tgHandling' = {} /\ UNCHANGED <<tgUpdates, tgLast>>
    BY DEF TgHandled
  <1>3. CASE u.kind = "other"
    <2>1. UNCHANGED <<tgBuf, tgFlush, tgPending, tgOut>>
      BY <1>3 DEF TgHandled, tgAlbum
    <2> QED BY <1>1, <1>2, <2>1, TgQuietKeeps DEF TgBusy
  <1>4. CASE u.kind \in {"command", "text"}
    <2>1. Publish(u) /\ UNCHANGED <<tgBuf, tgFlush>>
      BY <1>4 DEF TgHandled, tgAlbum
    <2>2. CASE tgSuspends
      <3>1. tgPending' = {u} /\ UNCHANGED tgOut
        BY <2>1, <2>2 DEF Publish
      <3> QED BY <1>1, <1>2, <2>1, <3>1, TgQuietKeeps DEF TgBusy
    <2>3. CASE ~tgSuspends
      <3>1. tgOut' = Append(tgOut, <<u.id>>) /\ UNCHANGED tgPending
        BY <2>1, <2>3 DEF Publish
      <3>2. TgBusy' = {}
        BY <1>1, <1>2, <3>1 DEF TgBusy
      <3> QED BY <1>1, <1>2, <2>1, <3>1, <3>2, TgPublishKeeps
    <2> QED BY <2>2, <2>3
  <1>5. CASE u.kind = "album"
    <2>1. Collect(u)
      BY <1>5 DEF TgHandled
    <2>2. tgBuf' = Append(tgBuf, u.id) /\ UNCHANGED <<tgFlush, tgPending, tgOut>>
      BY <2>1 DEF Collect
    <2>3. TgBusy' = {}
      BY <1>1, <1>2, <2>2 DEF TgBusy
    <2> QED BY <1>1, <1>2, <2>2, <2>3, TgCollectKeeps
  <1>6. u.kind \in UpdateKinds
    BY <1>1 DEF TgUpdate
  <1> QED BY <1>3, <1>4, <1>5, <1>6 DEF UpdateKinds

\* A flush task wakes.
LEMMA TgFlushKeeps ==
  ASSUME TgIInv, NEW t, FlushWakes(t)
  PROVE  TgIInv'
  <1>1. tgBuf' = <<>> /\ UNCHANGED <<tgUpdates, tgHandling, tgPending, tgLast>>
    BY DEF FlushWakes, Taken
  <1>2. CASE tgSuspends /\ tgBuf # <<>>
    <2>1. tgFlush' = tgBuf /\ UNCHANGED tgOut
      BY <1>2 DEF FlushWakes
    <2> QED BY <1>1, <2>1, TgQuietKeeps DEF TgBusy, TgIInv, TgTypes
  <1>3. CASE tgBuf = <<>>
    <2>1. UNCHANGED <<tgFlush, tgOut>>
      BY <1>3 DEF FlushWakes
    <2> QED BY <1>1, <2>1, TgQuietKeeps DEF TgBusy, TgIInv, TgTypes
  <1>4. CASE ~tgSuspends /\ tgBuf # <<>>
    <2>1. tgOut' = Append(tgOut, tgBuf) /\ UNCHANGED tgFlush
      BY <1>4 DEF FlushWakes
    <2> QED BY <1>1, <2>1, TgForwardKeeps
  <1> QED BY <1>2, <1>3, <1>4

\* Every step of the Telegram channel keeps its invariant.
LEMMA TgStep == TgIInv /\ [TgNext]_tgVars => TgIInv'
  <1> SUFFICES ASSUME TgIInv, [TgNext]_tgVars PROVE TgIInv'
    OBVIOUS
  <1>1. ASSUME NEW u \in tgPending, TgPublished(u) PROVE TgIInv'
    <2>1. tgHandling = {} /\ u \in TgBusy
      BY <1>1 DEF TgIInv, TgTypes, TgBusy
    <2>2. tgOut' = Append(tgOut, <<u.id>>) /\ TgBusy' = {} /\ UNCHANGED <<tgUpdates, tgBuf, tgFlush, tgLast>>
      BY <1>1, <2>1 DEF TgPublished, tgAlbum, TgBusy
    <2> QED BY <2>1, <2>2, TgPublishKeeps
  <1>2. CASE FlushDone
    <2>1. tgFlush' = <<>> /\ tgOut' = Append(tgOut, tgFlush) /\ UNCHANGED <<tgBuf, tgUpdates, tgHandling, tgPending, tgLast>>
      BY <1>2 DEF FlushDone
    <2> QED BY <2>1, TgForwardKeeps
  <1>3. CASE \/ TgStart \/ TgStop \/ TgStopped \/ UNCHANGED tgVars
             \/ \E f \in BOOLEAN : TgSend(f)
             \/ \E n \in tgTypers : TyperEnds(n)
    <2>1. /\ UNCHANGED <<tgUpdates, tgHandling, tgPending, tgOut, tgLast>>
          /\ (tgBuf' = tgBuf /\ tgFlush' = tgFlush) \/ (tgBuf' = <<>> /\ tgFlush' = <<>>)
      <3>1. CASE TgStart
        BY <3>1 DEF TgStart, tgAlbum
      <3>2. CASE TgStop
        BY <3>2 DEF TgStop
      <3>3. CASE TgStopped
        BY <3>3 DEF TgStopped, tgAlbum
      <3>4. CASE \E f \in BOOLEAN : TgSend(f)
        BY <3>4 DEF TgSend, tgAlbum
      <3>5. CASE \E n \in tgTypers : TyperEnds(n)
        BY <3>5 DEF TyperEnds, tgAlbum
      <3>6. CASE UNCHANGED tgVars
        BY <3>6 DEF tgVars, tgAlbum
      <3> QED BY <1>3, <3>1, <3>2, <3>3, <3>4, <3>5, <3>6
    <2> QED BY <2>1, TgQuietKeeps DEF TgBusy, TgIInv, TgTypes
  <1> QED BY <1>1, <1>2, <1>3, TgArrivesKeeps, TgHandleKeeps, TgHandledKeeps, TgFlushKeeps DEF TgNext

\* The channel starts with nothing.
LEMMA TgFacts == (TgInit => TgIInv) /\ (TgIInv => TurnOnce)
  <1>1. ASSUME TgInit PROVE TgIInv
    <2>1. tgUpdates = <<>> /\ tgBuf = <<>> /\ tgFlush = <<>> /\ tgOut = <<>> /\ tgHandling = {} /\ tgPending = {} /\ tgLast = 0
      BY <1>1 DEF TgInit
    <2>2. TgBusy = {} /\ TgElems(<<>>) = {} /\ DOMAIN tgOut = {} /\ DOMAIN tgUpdates = {}
      BY <2>1 DEF TgBusy, TgElems
    <2>3. TgPlaced = {}
      BY <2>1, <2>2 DEF TgPlaced, TgPublishedIds
    <2>4. tgUpdates \in Seq(TgUpdate) /\ tgBuf \in Seq(Nat) /\ tgFlush \in Seq(Nat) /\ tgOut \in Seq(Seq(Nat))
      BY <2>1
    <2>5. TgTypes
      BY <2>1, <2>2, <2>4 DEF TgTypes
    <2> QED BY <2>1, <2>2, <2>3, <2>5 DEF TgIInv, TgOrdered, TurnOnce
  <1> QED BY <1>1 DEF TgIInv

-----------------------------------------------------------------------------
(* Mochat's panel: a window of ids over polls and notifications *)

\* A message under way is younger than this many messages.
PnSpan == PollLimit + PollLag
PnDistinct(q) == \A i, j \in DOMAIN q : i # j => q[i] # q[j]
PnPlaced == ElementsOf(pnEntries) \union Dispatched

PnTypes ==
    /\ pnLog \in Nat /\ pnPoll \subseteq Nat /\ pnNotes \in Seq(Nat)
    /\ pnSeen \in Seq(Nat) /\ pnEntries \in Seq(Nat) /\ pnOut \in Seq(Seq(Nat))

\* What a poll or a notification brings is young.
PnYoung == \A m \in pnPoll \union ElementsOf(pnNotes) : m <= pnLog /\ pnLog < m + PnSpan

\* The window has no id twice, and its order is that of the messages but for the span.
PnWindowed(q) ==
    /\ PnDistinct(q) /\ \A k \in DOMAIN q : q[k] <= pnLog
    /\ \A k, l \in DOMAIN q : k < l => q[k] < q[l] + PnSpan

\* What was taken in is in the window, or too old to be brought again.
PnKnown == \A x \in PnPlaced : x <= pnLog /\ (x \in ElementsOf(pnSeen) \/ x + PnSpan <= pnLog)

PnApart ==
    /\ \A i, j \in DOMAIN pnOut : i # j => ElementsOf(pnOut[i]) \cap ElementsOf(pnOut[j]) = {}
    /\ ElementsOf(pnEntries) \cap Dispatched = {}
    /\ PnDistinct(pnEntries) /\ \A i \in DOMAIN pnOut : PnDistinct(pnOut[i])

PnIInv == PnTypes /\ PnYoung /\ PnWindowed(pnSeen) /\ Len(pnSeen) <= PanelWindow /\ PnKnown /\ PnApart

\* The window holds what may be under way twice over.
LEMMA PnConstants == PnSpan \in Nat /\ PnSpan >= 1 /\ PanelWindow \in Nat /\ PanelWindow >= 1 /\ 2 * PnSpan <= PanelWindow + 1
  BY PanelAssumption DEF PnSpan

\* A sequence without repetitions has as many elements as places.
LEMMA PnCounted ==
  ASSUME NEW q \in Seq(Nat), PnDistinct(q)
  PROVE  Cardinality(ElementsOf(q)) = Len(q)
  <1> DEFINE S == 1 .. Len(q)
             T == ElementsOf(q)
  <1>1. Len(q) \in Nat /\ DOMAIN q = S /\ q = [i \in S |-> q[i]]
    OBVIOUS
  <1>2. \A i \in S : q[i] \in T
    BY <1>1 DEF ElementsOf
  <1>3. \A x \in T : \E i \in S : q[i] = x
    BY <1>1 DEF ElementsOf
  <1>4. IsFiniteSet(S) /\ Cardinality(S) = Len(q)
    <2>0. 1 \in Int /\ Len(q) \in Int
      BY <1>1
    <2>1. IsFiniteSet(1 .. Len(q)) /\ Cardinality(1 .. Len(q)) = IF 1 > Len(q) THEN 0 ELSE Len(q) - 1 + 1
      BY <2>0, FS_Interval
    <2>2. (IF 1 > Len(q) THEN 0 ELSE Len(q) - 1 + 1) = Len(q)
      BY <1>1
    <2> QED BY <2>1, <2>2
  <1>5. \A i, j \in S : q[i] = q[j] => i = j
    BY <1>1 DEF PnDistinct
  <1> HIDE DEF S, T
  <1>6. q \in [S -> T]
    BY <1>1, <1>2
  <1>7. q \in Surjection(S, T)
    BY <1>3, <1>6 DEF Surjection
  <1>8. q \in Injection(S, T)
    <2>1. DOMAIN q = S
      BY <1>6
    <2>2. IsInjective(q)
      BY <1>5, <2>1 DEF IsInjective
    <2> QED BY <1>6, <2>2 DEF Injection
  <1>9. Cardinality(T) = Cardinality(S)
    BY <1>4, <1>7, <1>8, FS_Surjection
  <1> QED BY <1>4, <1>9 DEF T

\* An id that leaves the window is too old to be brought again.
LEMMA PnEvicted ==
  ASSUME NEW q \in Seq(Nat), pnLog \in Nat, PnWindowed(q), Len(q) > PanelWindow
  PROVE  q[1] + PnSpan <= pnLog
  <1> SUFFICES ASSUME ~(q[1] + PnSpan <= pnLog) PROVE FALSE
    OBVIOUS
  <1> DEFINE e == q[1]
             b == PnSpan
             n == Len(q)
             S == 1 .. n
             T == (e - b) + 1 .. (e + b) - 1
  <1>1. b \in Nat /\ b >= 1 /\ n \in Nat /\ n >= 2 * b /\ n >= 1
    BY PnConstants
  <1>2. DOMAIN q = S /\ q = [i \in S |-> q[i]] /\ \A i \in S : q[i] \in Nat
    OBVIOUS
  <1>3. e \in Nat /\ 1 \in S /\ pnLog < e + b
    BY <1>1, <1>2
  <1>4. /\ \A k \in S : q[k] <= pnLog /\ \A l \in S : k < l => q[k] < q[l] + b
        /\ \A i, j \in S : i # j => q[i] # q[j]
    BY <1>2 DEF PnWindowed, PnDistinct
  <1>5. IsFiniteSet(S) /\ Cardinality(S) = n
    <2>1. IsFiniteSet(1 .. n) /\ Cardinality(1 .. n) = IF 1 > n THEN 0 ELSE n - 1 + 1
      BY <1>1, FS_Interval
    <2>2. (IF 1 > n THEN 0 ELSE n - 1 + 1) = n
      BY <1>1
    <2> QED BY <2>1, <2>2
  <1>6. IsFiniteSet(T) /\ Cardinality(T) < n
    <2> DEFINE u == (e - b) + 1
               v == (e + b) - 1
    <2>1. u \in Int /\ v \in Int /\ ~(u > v) /\ v - u + 1 < n
      <3> HIDE DEF e, b, n
      <3> QED BY <1>1, <1>3
    <2>2. T = u .. v
      OBVIOUS
    <2> HIDE DEF u, v, T
    <2>3. IsFiniteSet(u .. v) /\ Cardinality(u .. v) = v - u + 1
      BY <2>1, FS_Interval
    <2> QED BY <2>1, <2>2, <2>3
  <1>7. \A i \in S : q[i] \in T
    <2> SUFFICES ASSUME NEW i \in S PROVE q[i] \in T
      OBVIOUS
    <2>1. q[i] \in Nat /\ q[i] <= pnLog
      BY <1>2, <1>4
    <2>2. CASE i = 1
      BY <1>1, <1>3, <2>2
    <2>3. CASE i # 1
      <3>1. e < q[i] + b
        BY <1>1, <1>3, <1>4, <2>3
      <3> HIDE DEF e, b, n
      <3> QED BY <1>1, <1>3, <2>1, <3>1
    <2> QED BY <2>2, <2>3
  <1>8. \A i, j \in S : i # j => q[i] # q[j]
    BY <1>4
  <1> HIDE DEF S, T, n, b, e
  <1>9. q \in [S -> T]
    BY <1>2, <1>7
  <1>10. Cardinality(T) < Cardinality(S)
    BY <1>5, <1>6
  <1>11. \E i, j \in S : i # j /\ q[i] = q[j]
    BY <1>5, <1>6, <1>9, <1>10, FS_PigeonHole
  <1> QED BY <1>8, <1>11

\* A message is remembered.
LEMMA PnRemembered ==
  ASSUME PnIInv, NEW m \in Nat, m <= pnLog, pnLog < m + PnSpan, m \notin ElementsOf(pnSeen),
         pnSeen' = Remembered(Append(pnSeen, m)), pnLog' = pnLog
  PROVE  /\ pnSeen' \in Seq(Nat) /\ PnWindowed(pnSeen)' /\ Len(pnSeen') <= PanelWindow
         /\ \A x \in ElementsOf(pnSeen) \union {m} : x \in ElementsOf(pnSeen') \/ x + PnSpan <= pnLog
  <1> DEFINE q == Append(pnSeen, m)
             n == Len(pnSeen)
  <1>1. pnSeen \in Seq(Nat) /\ n \in Nat /\ n <= PanelWindow /\ pnLog \in Nat /\ PnSpan \in Nat
    BY PnConstants DEF PnIInv, PnTypes
  <1>2. /\ q \in Seq(Nat) /\ DOMAIN q = DOMAIN pnSeen \union {n + 1} /\ n + 1 \notin DOMAIN pnSeen
        /\ q[n + 1] = m /\ \A i \in DOMAIN pnSeen : q[i] = pnSeen[i] /\ i < n + 1
        /\ ElementsOf(q) = ElementsOf(pnSeen) \union {m}
    BY <1>1, TgAppended DEF ElementsOf, TgElems
  <1>3. Len(q) = n + 1 /\ DOMAIN q = 1 .. n + 1 /\ \A i \in DOMAIN pnSeen : pnSeen[i] \in Nat /\ i \in Nat /\ i # n + 1
    BY <1>1
  <1> HIDE DEF q, n
  <1>4. \A i \in DOMAIN pnSeen : q[i] # m /\ q[i] <= pnLog /\ q[i] \in Nat
    BY <1>2, <1>3 DEF ElementsOf, PnIInv, PnWindowed
  <1>5. PnWindowed(q)
    <2>1. PnDistinct(q)
      BY <1>2, <1>4 DEF PnIInv, PnWindowed, PnDistinct
    <2>2. \A k \in DOMAIN q : q[k] <= pnLog
      BY <1>2, <1>4
    <2>3. ASSUME NEW k \in DOMAIN q, NEW l \in DOMAIN q, k < l PROVE q[k] < q[l] + PnSpan
      <3>1. k \in DOMAIN pnSeen
        BY <1>1, <1>2, <1>3, <2>3
      <3>2. CASE l = n + 1
        BY <1>1, <1>2, <1>4, <3>1, <3>2
      <3>3. CASE l # n + 1
        BY <1>2, <2>3, <3>1, <3>3 DEF PnIInv, PnWindowed
      <3> QED BY <3>2, <3>3
    <2> QED BY <2>1, <2>2, <2>3 DEF PnWindowed
  <1>6. CASE Len(q) > PanelWindow
    <2>1. pnSeen' = Tail(q)
      BY <1>6 DEF Remembered, q
    <2>2. /\ pnSeen' \in Seq(Nat) /\ Len(pnSeen') = n /\ DOMAIN pnSeen' = 1 .. n
          /\ \A k \in 1 .. n : pnSeen'[k] = q[k + 1] /\ k + 1 \in 1 .. n + 1
      BY <1>1, <1>2, <1>3, <2>1
    <2>3. q[1] + PnSpan <= pnLog
      BY <1>1, <1>2, <1>5, <1>6, PnEvicted
    <2>4. PnDistinct(pnSeen') /\ \A k \in DOMAIN pnSeen' : pnSeen'[k] <= pnLog'
      <3>1. ASSUME NEW i \in 1 .. n, NEW j \in 1 .. n, i # j PROVE pnSeen'[i] # pnSeen'[j]
        <4>1. i + 1 # j + 1
          BY <1>1, <3>1
        <4>2. \A k, l \in 1 .. n + 1 : k # l => q[k] # q[l]
          BY <1>3, <1>5 DEF PnWindowed, PnDistinct
        <4> QED BY <2>2, <4>1, <4>2
      <3>2. PnDistinct(pnSeen')
        BY <2>2, <3>1 DEF PnDistinct
      <3>3. \A k \in 1 .. n + 1 : q[k] <= pnLog
        BY <1>3, <1>5 DEF PnWindowed
      <3> QED BY <2>2, <3>2, <3>3
    <2>5. ASSUME NEW k \in 1 .. n, NEW l \in 1 .. n, k < l PROVE pnSeen'[k] < pnSeen'[l] + PnSpan
      <3>1. k + 1 < l + 1
        BY <1>1, <2>5
      <3> QED BY <1>3, <1>5, <2>2, <3>1 DEF PnWindowed
    <2>6. ASSUME NEW x \in ElementsOf(q) PROVE x \in ElementsOf(pnSeen') \/ x + PnSpan <= pnLog
      <3>1. PICK i \in 1 .. n + 1 : x = q[i]
        BY <1>3 DEF ElementsOf
      <3>2. CASE i = 1
        BY <2>3, <3>1, <3>2
      <3>3. CASE i # 1
        <4> DEFINE k == i - 1
        <4>1. k \in 1 .. n /\ k + 1 = i
          BY <1>1, <3>3
        <4> HIDE DEF k
        <4>2. k \in DOMAIN pnSeen' /\ pnSeen'[k] = x
          BY <2>2, <3>1, <4>1
        <4> QED BY <4>2 DEF ElementsOf
      <3> QED BY <3>2, <3>3
    <2> QED BY <1>1, <1>2, <2>2, <2>4, <2>5, <2>6 DEF PnWindowed
  <1>7. CASE ~(Len(q) > PanelWindow)
    <2>1. pnSeen' = q
      BY <1>7 DEF Remembered, q
    <2>2. Len(pnSeen') <= PanelWindow
      BY <1>1, <1>3, <1>7, <2>1, PnConstants
    <2>3. PnWindowed(pnSeen)'
      BY <1>5, <2>1 DEF PnWindowed
    <2> QED BY <1>2, <2>1, <2>2, <2>3
  <1> QED BY <1>6, <1>7

\* A turn that shares nothing with the others, nor with what stays in the buffer, is dispatched.
LEMMA PnTurn ==
  ASSUME NEW q \in Seq(Nat), PnDistinct(q), PnTypes, PnApart, pnOut' = Append(pnOut, q),
         \A i \in DOMAIN pnOut : ElementsOf(pnOut[i]) \cap ElementsOf(q) = {},
         pnEntries' = pnEntries \/ pnEntries' = <<>>, ElementsOf(q) \cap ElementsOf(pnEntries') = {}
  PROVE  PnApart' /\ pnOut' \in Seq(Seq(Nat)) /\ Dispatched' = Dispatched \union ElementsOf(q)
  <1> DEFINE m == Len(pnOut) + 1
  <1>1. /\ pnOut' \in Seq(Seq(Nat)) /\ DOMAIN pnOut' = DOMAIN pnOut \union {m}
        /\ m \notin DOMAIN pnOut /\ pnOut'[m] = q /\ \A i \in DOMAIN pnOut : pnOut'[i] = pnOut[i]
    <2>1. pnOut \in Seq(Seq(Nat))
      BY DEF PnTypes
    <2> QED BY <2>1, TgAppended
  <1> HIDE DEF m
  <1>2. Dispatched' = Dispatched \union ElementsOf(q)
    <2>1. \A x : x \in Dispatched' <=> \E i \in DOMAIN pnOut' : x \in ElementsOf(pnOut'[i])
      BY DEF Dispatched
    <2>2. \A x : x \in Dispatched <=> \E i \in DOMAIN pnOut : x \in ElementsOf(pnOut[i])
      BY DEF Dispatched
    <2>3. ASSUME NEW x PROVE x \in Dispatched' <=> x \in Dispatched \union ElementsOf(q)
      BY <1>1, <2>1, <2>2
    <2> QED BY <2>3
  <1>3. PnDistinct(pnEntries') /\ ElementsOf(pnEntries') \subseteq ElementsOf(pnEntries)
    BY DEF PnApart, PnDistinct, ElementsOf
  <1>4. ElementsOf(pnEntries') \cap Dispatched' = {}
    BY <1>2, <1>3 DEF PnApart
  <1>5. \A i \in DOMAIN pnOut' : PnDistinct(pnOut'[i])
    BY <1>1 DEF PnApart
  <1>6. ASSUME NEW i \in DOMAIN pnOut', NEW j \in DOMAIN pnOut', i # j PROVE ElementsOf(pnOut'[i]) \cap ElementsOf(pnOut'[j]) = {}
    <2>1. CASE i = m
      BY <1>1, <1>6, <2>1
    <2>2. CASE j = m
      BY <1>1, <1>6, <2>2
    <2>3. CASE i # m /\ j # m
      <3>1. i \in DOMAIN pnOut /\ j \in DOMAIN pnOut
        BY <1>1, <2>3
      <3> QED BY <1>1, <1>6, <3>1 DEF PnApart
    <2> QED BY <2>1, <2>2, <2>3
  <1> QED BY <1>1, <1>2, <1>3, <1>4, <1>5, <1>6 DEF PnApart

\* A message that is in no place joins a sequence of messages.
LEMMA PnJoined ==
  ASSUME NEW q \in Seq(Nat), PnDistinct(q), NEW m \in Nat, m \notin ElementsOf(q)
  PROVE  Append(q, m) \in Seq(Nat) /\ PnDistinct(Append(q, m)) /\ ElementsOf(Append(q, m)) = ElementsOf(q) \union {m}
  <1> DEFINE r == Append(q, m)
             n == Len(q) + 1
  <1>1. /\ r \in Seq(Nat) /\ DOMAIN r = DOMAIN q \union {n} /\ n \notin DOMAIN q
        /\ r[n] = m /\ \A i \in DOMAIN q : r[i] = q[i]
        /\ ElementsOf(r) = ElementsOf(q) \union {m}
    BY TgAppended DEF ElementsOf, TgElems
  <1> HIDE DEF r, n
  <1>2. \A i \in DOMAIN q : q[i] # m
    BY DEF ElementsOf
  <1>3. PnDistinct(r)
    BY <1>1, <1>2 DEF PnDistinct
  <1> QED BY <1>1, <1>3 DEF r

\* What a message that is taken in does to the buffer and the dispatches.
LEMMA PnPlacedNew ==
  ASSUME PnIInv, NEW m \in Nat, m \notin PnPlaced,
         \/ UNCHANGED <<pnEntries, pnOut>>
         \/ pnOut' = Append(pnOut, <<m>>) /\ UNCHANGED pnEntries
         \/ FlushMention(m)
         \/ Enqueue(m)
  PROVE  /\ PnApart' /\ pnEntries' \in Seq(Nat) /\ pnOut' \in Seq(Seq(Nat))
         /\ PnPlaced' \subseteq PnPlaced \union {m}
  <1>1. PnTypes /\ PnApart /\ pnEntries \in Seq(Nat) /\ pnOut \in Seq(Seq(Nat)) /\ PnDistinct(pnEntries)
    BY DEF PnIInv, PnTypes, PnApart
  <1>2. m \notin ElementsOf(pnEntries) /\ \A i \in DOMAIN pnOut : m \notin ElementsOf(pnOut[i])
    BY DEF PnPlaced, Dispatched
  <1>3. CASE UNCHANGED <<pnEntries, pnOut>>
    BY <1>1, <1>3 DEF PnApart, PnPlaced, Dispatched
  <1>4. CASE pnOut' = Append(pnOut, <<m>>) /\ UNCHANGED pnEntries
    <2> DEFINE q == <<m>>
    <2>1. q \in Seq(Nat) /\ PnDistinct(q) /\ ElementsOf(q) = {m} /\ pnOut' = Append(pnOut, q)
      BY <1>4 DEF PnDistinct, ElementsOf
    <2> HIDE DEF q
    <2>2. /\ \A i \in DOMAIN pnOut : ElementsOf(pnOut[i]) \cap ElementsOf(q) = {}
          /\ ElementsOf(q) \cap ElementsOf(pnEntries') = {}
      BY <1>2, <1>4, <2>1
    <2>3. PnApart' /\ pnOut' \in Seq(Seq(Nat)) /\ Dispatched' = Dispatched \union ElementsOf(q)
      BY <1>1, <1>4, <2>1, <2>2, PnTurn
    <2> QED BY <1>1, <1>4, <2>1, <2>3 DEF PnPlaced
  <1>5. CASE FlushMention(m)
    <2> DEFINE q == Append(pnEntries, m)
    <2>1. q \in Seq(Nat) /\ PnDistinct(q) /\ ElementsOf(q) = ElementsOf(pnEntries) \union {m}
      BY <1>1, <1>2, PnJoined
    <2>2. pnOut' = Append(pnOut, q) /\ pnEntries' = <<>>
      BY <1>5 DEF FlushMention
    <2> HIDE DEF q
    <2>3. ElementsOf(pnEntries') = {} /\ pnEntries' \in Seq(Nat)
      BY <2>2 DEF ElementsOf
    <2>4. \A i \in DOMAIN pnOut : ElementsOf(pnOut[i]) \cap ElementsOf(q) = {}
      BY <1>1, <1>2, <2>1 DEF PnApart, Dispatched
    <2>5. PnApart' /\ pnOut' \in Seq(Seq(Nat)) /\ Dispatched' = Dispatched \union ElementsOf(q)
      BY <1>1, <2>1, <2>2, <2>3, <2>4, PnTurn
    <2> QED BY <2>1, <2>3, <2>5 DEF PnPlaced
  <1>6. CASE Enqueue(m)
    <2>1. pnEntries' = Append(pnEntries, m) /\ UNCHANGED pnOut
      BY <1>6 DEF Enqueue
    <2>2. pnEntries' \in Seq(Nat) /\ PnDistinct(pnEntries') /\ ElementsOf(pnEntries') = ElementsOf(pnEntries) \union {m}
      BY <1>1, <1>2, <2>1, PnJoined
    <2>3. Dispatched' = Dispatched /\ m \notin Dispatched
      BY <2>1 DEF Dispatched, PnPlaced
    <2>4. PnApart'
      BY <1>1, <2>1, <2>2, <2>3 DEF PnApart
    <2> QED BY <1>1, <2>1, <2>2, <2>3, <2>4 DEF PnPlaced
  <1> QED BY <1>3, <1>4, <1>5, <1>6

\* A message of a poll or a notification is taken in.
LEMMA PnTakeInKeeps ==
  ASSUME PnIInv, NEW m \in pnPoll \union ElementsOf(pnNotes), TakeIn(m), UNCHANGED pnLog,
         pnPoll' \subseteq pnPoll, pnNotes' \in Seq(Nat), ElementsOf(pnNotes') \subseteq ElementsOf(pnNotes)
  PROVE  PnIInv'
  <1>1. pnLog \in Nat /\ PnSpan \in Nat /\ m \in Nat /\ m <= pnLog /\ pnLog < m + PnSpan
    <2>1. ElementsOf(pnNotes) \subseteq Nat
      BY DEF PnIInv, PnTypes, ElementsOf
    <2> QED BY <2>1, PnConstants DEF PnIInv, PnTypes, PnYoung
  <1>2. PnYoung'
    BY DEF PnIInv, PnYoung
  <1>3. CASE m \in ElementsOf(pnSeen)
    <2>1. UNCHANGED <<pnSeen, pnEntries, pnOut>>
      BY <1>3 DEF TakeIn, buffer
    <2> QED BY ZenonT(40), <1>2, <2>1 DEF PnIInv, PnTypes, PnWindowed, PnKnown, PnApart, PnPlaced, Dispatched
  <1>4. CASE m \notin ElementsOf(pnSeen)
    <2>1. pnSeen' = Remembered(Append(pnSeen, m))
      BY <1>4 DEF TakeIn
    <2>2. \/ UNCHANGED <<pnEntries, pnOut>>
          \/ pnOut' = Append(pnOut, <<m>>) /\ UNCHANGED pnEntries
          \/ FlushMention(m)
          \/ Enqueue(m)
      <3>1. CASE PanelSkipped(m)
        BY <1>4, <3>1 DEF TakeIn, buffer, PanelSkipped
      <3>2. CASE ~PanelSkipped(m) /\ ~pnDelay
        BY <1>4, <3>2 DEF TakeIn, buffer
      <3>3. CASE ~PanelSkipped(m) /\ pnDelay
        BY <1>4, <3>3, Zenon DEF TakeIn
      <3> QED BY <3>1, <3>2, <3>3
    <2>3. /\ pnSeen' \in Seq(Nat) /\ PnWindowed(pnSeen)' /\ Len(pnSeen') <= PanelWindow
          /\ \A x \in ElementsOf(pnSeen) \union {m} : x \in ElementsOf(pnSeen') \/ x + PnSpan <= pnLog
      BY <1>1, <1>4, <2>1, PnRemembered
    <2>4. m \notin PnPlaced
      BY <1>1, <1>4 DEF PnIInv, PnKnown
    <2>5. /\ PnApart' /\ pnEntries' \in Seq(Nat) /\ pnOut' \in Seq(Seq(Nat)) /\ PnPlaced' \subseteq PnPlaced \union {m}
      BY <1>1, <2>2, <2>4, PnPlacedNew
    <2>6. PnKnown'
      <3> SUFFICES ASSUME NEW x \in PnPlaced' PROVE x <= pnLog /\ (x \in ElementsOf(pnSeen') \/ x + PnSpan <= pnLog)
        BY DEF PnKnown
      <3>1. CASE x = m
        BY <1>1, <2>3, <3>1
      <3>2. CASE x \in PnPlaced
        BY <2>3, <3>2 DEF PnIInv, PnKnown
      <3> QED BY <2>5, <3>1, <3>2
    <2>7. PnTypes'
      BY <2>3, <2>5 DEF PnIInv, PnTypes
    <2> QED BY <1>2, <2>3, <2>5, <2>6, <2>7 DEF PnIInv
  <1> QED BY <1>3, <1>4

\* The buffer is dispatched, emptied or left, and nothing is taken in.
LEMMA PnQuietKeeps ==
  ASSUME PnIInv, UNCHANGED <<pnLog, pnSeen>>, pnPoll' \subseteq Nat, pnNotes' \in Seq(Nat), PnYoung',
         \/ UNCHANGED <<pnEntries, pnOut>>
         \/ pnEntries' = <<>> /\ UNCHANGED pnOut
         \/ pnEntries' = <<>> /\ pnOut' = Append(pnOut, pnEntries)
  PROVE  PnIInv'
  <1>1. PnApart' /\ pnOut' \in Seq(Seq(Nat)) /\ pnEntries' \in Seq(Nat) /\ PnPlaced' \subseteq PnPlaced
    <2>1. CASE UNCHANGED <<pnEntries, pnOut>>
      BY <2>1 DEF PnIInv, PnTypes, PnApart, PnPlaced, Dispatched
    <2>2. ASSUME pnEntries' = <<>> PROVE ElementsOf(pnEntries') = {} /\ PnDistinct(pnEntries') /\ pnEntries' \in Seq(Nat)
      BY <2>2 DEF ElementsOf, PnDistinct
    <2>3. CASE pnEntries' = <<>> /\ UNCHANGED pnOut
      BY <2>2, <2>3 DEF PnIInv, PnTypes, PnApart, PnPlaced, Dispatched
    <2>4. CASE pnEntries' = <<>> /\ pnOut' = Append(pnOut, pnEntries)
      <3>1. PnTypes /\ PnApart /\ pnEntries \in Seq(Nat) /\ PnDistinct(pnEntries)
        BY DEF PnIInv, PnTypes, PnApart
      <3>2. \A i \in DOMAIN pnOut : ElementsOf(pnOut[i]) \cap ElementsOf(pnEntries) = {}
        BY <3>1 DEF PnApart, Dispatched
      <3>3. PnApart' /\ pnOut' \in Seq(Seq(Nat)) /\ Dispatched' = Dispatched \union ElementsOf(pnEntries)
        BY <2>2, <2>4, <3>1, <3>2, PnTurn
      <3> QED BY <2>2, <2>4, <3>3 DEF PnPlaced
    <2> QED BY <2>1, <2>3, <2>4
  <1>2. PnTypes'
    BY <1>1 DEF PnIInv, PnTypes
  <1>3. PnKnown'
    BY <1>1 DEF PnIInv, PnKnown
  <1> QED BY <1>1, <1>2, <1>3 DEF PnIInv, PnWindowed

\* The oldest notification is gone.
LEMMA PnNoteGone ==
  ASSUME PnIInv, pnNotes # <<>>, pnNotes' = Tail(pnNotes)
  PROVE  Head(pnNotes) \in ElementsOf(pnNotes) /\ pnNotes' \in Seq(Nat) /\ ElementsOf(pnNotes') \subseteq ElementsOf(pnNotes)
  <1> DEFINE n == Len(pnNotes)
  <1>1. pnNotes \in Seq(Nat)
    BY DEF PnIInv, PnTypes
  <1>2. n \in Nat /\ n >= 1 /\ DOMAIN pnNotes = 1 .. n /\ Head(pnNotes) = pnNotes[1]
    BY <1>1
  <1>3. pnNotes' \in Seq(Nat) /\ DOMAIN pnNotes' = 1 .. n - 1 /\ \A k \in 1 .. n - 1 : pnNotes'[k] = pnNotes[k + 1] /\ k + 1 \in 1 .. n
    BY <1>1
  <1>4. 1 \in 1 .. n
    BY <1>2
  <1> HIDE DEF n
  <1> QED BY <1>2, <1>3, <1>4 DEF ElementsOf

\* Somebody writes in the panel.
LEMMA PnWriteKeeps ==
  ASSUME PnIInv, WriteInPanel
  PROVE  PnIInv'
  <1>1. /\ \A m \in pnPoll : pnLog < m + PollLimit + PollLag - 1
        /\ \A m \in ElementsOf(pnNotes) : pnLog < m + PollLag
        /\ pnLog' = pnLog + 1 /\ (pnNotes' = Append(pnNotes, pnLog + 1) \/ UNCHANGED pnNotes)
        /\ UNCHANGED <<pnPoll, pnSeen, pnEntries, pnOut>>
    BY DEF WriteInPanel, buffer
  <1>2. pnLog \in Nat /\ pnPoll \subseteq Nat /\ pnNotes \in Seq(Nat) /\ pnLog + 1 \in Nat
    BY DEF PnIInv, PnTypes
  <1>3. pnNotes' \in Seq(Nat) /\ ElementsOf(pnNotes') \subseteq ElementsOf(pnNotes) \union {pnLog + 1}
    <2>1. CASE UNCHANGED pnNotes
      BY <1>2, <2>1
    <2>2. CASE pnNotes' = Append(pnNotes, pnLog + 1)
      BY <1>2, <2>2, TgAppended DEF ElementsOf, TgElems
    <2> QED BY <1>1, <2>1, <2>2
  <1>4. ElementsOf(pnNotes) \subseteq Nat
    BY <1>2 DEF ElementsOf
  <1>5. PnYoung'
    <2> SUFFICES ASSUME NEW m \in pnPoll \union ElementsOf(pnNotes) \union {pnLog + 1}
                 PROVE  m <= pnLog + 1 /\ pnLog + 1 < m + PnSpan
      BY <1>1, <1>3 DEF PnYoung
    <2>1. CASE m \in pnPoll
      BY <1>1, <1>2, <2>1, PanelAssumption DEF PnIInv, PnYoung, PnSpan
    <2>2. CASE m \in ElementsOf(pnNotes)
      BY <1>1, <1>2, <1>4, <2>2, PanelAssumption DEF PnIInv, PnYoung, PnSpan
    <2>3. CASE m = pnLog + 1
      BY <1>2, <2>3, PanelAssumption DEF PnSpan
    <2> QED BY <2>1, <2>2, <2>3
  <1>6. PnTypes'
    BY <1>1, <1>2, <1>3 DEF PnIInv, PnTypes
  <1>7. PnWindowed(pnSeen)'
    <2>1. \A k \in DOMAIN pnSeen : pnSeen[k] \in Nat
      BY DEF PnIInv, PnTypes
    <2> QED BY <1>1, <1>2, <2>1 DEF PnIInv, PnWindowed
  <1>8. PnApart' /\ PnPlaced' = PnPlaced
    BY <1>1 DEF PnIInv, PnApart, PnPlaced, Dispatched
  <1>9. PnPlaced \subseteq Nat
    <2>1. \A i \in DOMAIN pnOut : pnOut[i] \in Seq(Nat)
      BY DEF PnIInv, PnTypes
    <2>2. \A q \in Seq(Nat) : ElementsOf(q) \subseteq Nat
      BY DEF ElementsOf
    <2> QED BY <2>1, <2>2 DEF PnIInv, PnTypes, PnPlaced, Dispatched
  <1>10. PnKnown'
    <2> SUFFICES ASSUME NEW x \in PnPlaced PROVE x <= pnLog + 1 /\ (x \in ElementsOf(pnSeen) \/ x + PnSpan <= pnLog + 1)
      BY <1>1, <1>8 DEF PnKnown
    <2>1. x \in Nat /\ x <= pnLog /\ (x \in ElementsOf(pnSeen) \/ x + PnSpan <= pnLog)
      BY <1>9 DEF PnIInv, PnKnown
    <2> QED BY <1>2, <2>1, PnConstants
  <1> QED BY <1>1, <1>5, <1>6, <1>7, <1>8, <1>10 DEF PnIInv

\* Every step of the panel keeps its invariant.
LEMMA PnStep == PnIInv /\ [PanelNext]_panelVars => PnIInv'
  <1> SUFFICES ASSUME PnIInv, [PanelNext]_panelVars PROVE PnIInv'
    OBVIOUS
  <1>t. pnPoll \subseteq Nat /\ pnNotes \in Seq(Nat) /\ PnYoung /\ pnLog \in Nat
    BY DEF PnIInv, PnTypes
  <1>1. CASE HandleNote
    <2>1. pnNotes # <<>> /\ pnNotes' = Tail(pnNotes) /\ TakeIn(Head(pnNotes)) /\ UNCHANGED <<pnLog, pnPoll>>
      BY <1>1 DEF HandleNote
    <2> QED BY <2>1, PnNoteGone, PnTakeInKeeps
  <1>2. ASSUME NEW m \in PanelMsgs, HandlePolled(m) PROVE PnIInv'
    <2>1. m \in pnPoll /\ pnPoll' \subseteq pnPoll /\ TakeIn(m) /\ UNCHANGED <<pnLog, pnNotes>>
      BY <1>2 DEF HandlePolled
    <2> QED BY <1>t, <2>1, PnTakeInKeeps
  <1>3. CASE LoseNote
    <2>1. pnNotes # <<>> /\ pnNotes' = Tail(pnNotes) /\ UNCHANGED <<pnLog, pnPoll, pnSeen, pnEntries, pnOut>>
      BY <1>3 DEF LoseNote, buffer
    <2>2. pnNotes' \in Seq(Nat) /\ ElementsOf(pnNotes') \subseteq ElementsOf(pnNotes)
      BY <2>1, PnNoteGone
    <2>3. PnYoung'
      BY <1>t, <2>1, <2>2 DEF PnYoung
    <2> QED BY <1>t, <2>1, <2>2, <2>3, PnQuietKeeps
  <1>4. CASE PollPanel
    <2>1. pnPoll' = {m \in 1 .. pnLog : m + PollLimit > pnLog} /\ UNCHANGED <<pnLog, pnNotes, pnSeen, pnEntries, pnOut>>
      BY <1>4 DEF PollPanel, buffer
    <2>2. \A m \in pnPoll' : m \in Nat /\ m <= pnLog /\ pnLog < m + PnSpan
      BY <1>t, <2>1, PanelAssumption DEF PnSpan
    <2>3. PnYoung'
      BY <1>t, <2>1, <2>2 DEF PnYoung
    <2>4. pnPoll' \subseteq Nat
      BY <2>2
    <2> QED BY <1>t, <2>1, <2>3, <2>4, PnQuietKeeps
  <1>5. CASE SocketClosed
    <2>1. pnNotes' = <<>> /\ UNCHANGED <<pnLog, pnPoll, pnSeen, pnEntries, pnOut>>
      BY <1>5 DEF SocketClosed, buffer
    <2>2. pnNotes' \in Seq(Nat) /\ ElementsOf(pnNotes') = {}
      BY <2>1 DEF ElementsOf
    <2>3. PnYoung'
      BY <1>t, <2>1, <2>2 DEF PnYoung
    <2> QED BY <1>t, <2>1, <2>2, <2>3, PnQuietKeeps
  <1>6. CASE StopPanel
    <2>1. pnPoll' = {} /\ pnEntries' = <<>> /\ UNCHANGED <<pnLog, pnNotes, pnSeen, pnOut>>
      BY <1>6 DEF StopPanel
    <2>2. PnYoung'
      BY <1>t, <2>1 DEF PnYoung
    <2> QED BY <1>t, <2>1, <2>2, PnQuietKeeps
  <1>7. CASE StartPanel \/ (\E n \in pnTimers : TimerFires(n)) \/ UNCHANGED panelVars
    <2>1. /\ UNCHANGED <<pnLog, pnNotes, pnPoll, pnSeen>>
          /\ \/ UNCHANGED <<pnEntries, pnOut>>
             \/ pnEntries' = <<>> /\ UNCHANGED pnOut
             \/ pnEntries' = <<>> /\ pnOut' = Append(pnOut, pnEntries)
      <3>1. CASE StartPanel
        BY <3>1 DEF StartPanel, buffer
      <3>2. ASSUME NEW n \in pnTimers, TimerFires(n)
            PROVE  /\ UNCHANGED <<pnLog, pnNotes, pnPoll, pnSeen>>
                   /\ pnEntries' = <<>> /\ (UNCHANGED pnOut \/ pnOut' = Append(pnOut, pnEntries))
        BY <3>2, Zenon DEF TimerFires
      <3>3. CASE UNCHANGED panelVars
        BY <3>3 DEF panelVars
      <3> QED BY <1>7, <3>1, <3>2, <3>3
    <2>2. PnYoung'
      BY <1>t, <2>1 DEF PnYoung
    <2> QED BY <1>t, <2>1, <2>2, PnQuietKeeps
  <1> QED BY <1>1, <1>2, <1>3, <1>4, <1>5, <1>6, <1>7, PnWriteKeeps DEF PanelNext

\* The panel starts with nothing; distinct messages are counted once.
LEMMA PnFacts == (PanelInit => PnIInv) /\ (PnIInv => InOnePlace)
  <1>1. ASSUME PanelInit PROVE PnIInv
    <2>1. pnLog = 0 /\ pnNotes = <<>> /\ pnPoll = {} /\ pnSeen = <<>> /\ pnEntries = <<>> /\ pnOut = <<>>
      BY <1>1 DEF PanelInit
    <2>2. ElementsOf(<<>>) = {} /\ Dispatched = {} /\ PnDistinct(<<>>) /\ DOMAIN pnOut = {}
      BY <2>1 DEF ElementsOf, Dispatched, PnDistinct
    <2>3. PnTypes
      BY <2>1 DEF PnTypes
    <2>4. PnYoung /\ PnKnown /\ PnApart
      BY <2>1, <2>2 DEF PnYoung, PnKnown, PnPlaced, PnApart
    <2>5. PnWindowed(pnSeen) /\ Len(pnSeen) <= PanelWindow
      BY <2>1, <2>2, PnConstants DEF PnWindowed
    <2> QED BY <2>3, <2>4, <2>5 DEF PnIInv
  <1>2. ASSUME PnIInv PROVE InOnePlace
    <2>1. PnApart /\ pnEntries \in Seq(Nat) /\ \A i \in DOMAIN pnOut : pnOut[i] \in Seq(Nat)
      BY <1>2 DEF PnIInv, PnTypes
    <2>2. Cardinality(ElementsOf(pnEntries)) = Len(pnEntries)
      BY <2>1, PnCounted DEF PnApart
    <2>3. \A i \in DOMAIN pnOut : Cardinality(ElementsOf(pnOut[i])) = Len(pnOut[i])
      BY <2>1, PnCounted DEF PnApart
    <2> QED BY <2>1, <2>2, <2>3 DEF InOnePlace, PnApart
  <1> QED BY <1>1, <1>2

-----------------------------------------------------------------------------
(* The channels together *)

\* The parts are in their own invariants.
IInv == TgIInv /\ EmIInv /\ WaIInv /\ PnIInv /\ FsIInv /\ SlIInv /\ AckedIsHandled /\ dtMsgs \in Nat

\* A step of the channels is a step of one part; the others stutter.
LEMMA PartSteps ==
  [Next]_all => /\ [TgNext]_tgVars /\ [EmNext]_emVars /\ [WaNext]_waVars /\ [PanelNext]_panelVars
                /\ [FsNext]_fsVars /\ [SlNext]_slVars /\ [DtNext]_dtVars
  BY DEF Next, all

\* MessageOnce: whatever the services redeliver, polls bring again, crashes
\* forget and handlers interleave, no message is handed over twice and none
\* is taken for handled before it is.
THEOREM MessagesHandedOverOnce == Spec => []MessageOnce
  <1>1. Init => IInv
    BY TgFacts, EmFacts, WaFacts, PnFacts, FsFacts, SlFacts DEF Init, IInv, DtInit, AckedIsHandled
  <1>2. IInv /\ [Next]_all => IInv'
    BY PartSteps, TgStep, EmStep, WaStep, PnStep, FsStep, SlStep, DtStep DEF IInv
  <1>3. IInv => MessageOnce
    BY TgFacts, EmFacts, WaFacts, PnFacts, FsFacts, SlFacts DEF IInv, MessageOnce
  <1> QED BY <1>1, <1>2, <1>3, PTL DEF Spec

=============================================================================
