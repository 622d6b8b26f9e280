-------------------------- MODULE SessionMemoryProofs --------------------------
(***************************************************************************)
(* Proofs about SessionMemory for every set of sessions, memory window and *)
(* number of turns and crashes: what survives a crash, what consolidation  *)
(* may mark as consolidated, and what /new may discard.                    *)
(***************************************************************************)
EXTENDS SessionMemory, WellFoundedInduction, TLAPS

-----------------------------------------------------------------------------
(* What the inductive invariant says of a session *)

\* A turn that works has a number.
Numbered(s) == turn[s].phase \in {"inline", "llm"} => turn[s].id # 0

\* A /new is in the lock's queue exactly while its turn waits, as the last:
\* turns of a session are serial, so none triggers a consolidation behind it.
NewIsLast(s) ==
    /\ turn[s].phase = "new" => lockq[s] # <<>> /\ lockq[s][Len(lockq[s])] = "new"
    /\ \A i \in 1 .. Len(lockq[s]) :
          lockq[s][i] = "new" => turn[s].phase = "new" /\ i = Len(lockq[s])

\* There is room for the kept messages above the offset while a consolidation
\* waits for the LLM, so the offset it computes later is not below the present.
Room(s) == lastCons[s] + Keep <= Len(messages[s])

\* What is known of a consolidation under the lock: the background task has
\* room, and /new has archived what is above the offset.
CallFacts(s) ==
    call[s] # NoCall =>
        /\ lockq[s] # <<>>
        /\ lockq[s][1] = "bg" => Room(s)
        /\ lockq[s][1] = "new" => call[s].old = Elems(From(messages[s], lastCons[s]))

\* The inline consolidation, which has no lock, has room too.
InlineFacts(s) == turn[s].phase = "inline" => Room(s)

\* RecentKept and Durable for one session.
Kept(s) == ~torn => lastCons[s] = 0 \/ Room(s)
Saved(s) == ~torn => disk[s].msgs = messages[s] /\ disk[s].lc <= lastCons[s]

Good(s) ==
    /\ Numbered(s)
    /\ NewIsLast(s)
    /\ CallFacts(s)
    /\ InlineFacts(s)
    /\ Kept(s)
    /\ Saved(s)

\* The inductive invariant.
IInv == TypeOK /\ \A s \in Sessions : Good(s)

-----------------------------------------------------------------------------
(* Slices of sequences *)

\* keep_count is a natural.
LEMMA KeepType == Keep \in Nat
  BY SessionAssumption DEF Keep

\* A slice is a sequence over the same set, empty when it starts beyond its end.
LEMMA SliceType ==
  ASSUME NEW S, NEW q \in Seq(S), NEW m \in Nat \ {0}, NEW n \in 0 .. Len(q)
  PROVE  /\ SubSeq(q, m, n) \in Seq(S)
         /\ m > n => SubSeq(q, m, n) = <<>>
         /\ m <= n => Len(SubSeq(q, m, n)) = n - m + 1
  OBVIOUS

\* The elements of a sequence over a set are in that set.
LEMMA ElemsType ==
  ASSUME NEW S, NEW q \in Seq(S)
  PROVE  Elems(q) \in SUBSET S
  BY DEF Elems

\* What is above an offset is a sequence of the same elements.
LEMMA FromType ==
  ASSUME NEW S, NEW q \in Seq(S), NEW a \in Nat
  PROVE  From(q, a) \in Seq(S)
  BY SliceType DEF From

\* The last n messages are a sequence of the same elements.
LEMMA LastType ==
  ASSUME NEW S, NEW q \in Seq(S), NEW n \in Nat
  PROVE  Last(q, n) \in Seq(S)
  <1>1. CASE n = 0 \/ n >= Len(q)
    BY <1>1 DEF Last
  <1>2. CASE ~(n = 0 \/ n >= Len(q))
    BY <1>2, SliceType DEF Last
  <1> QED BY <1>1, <1>2

\* seq[a:-n] has elements only when a + n is less than the length.
LEMMA BetweenFacts ==
  ASSUME NEW S, NEW q \in Seq(S), NEW a \in Nat, NEW n \in Nat
  PROVE  /\ Between(q, a, n) \in Seq(S)
         /\ Elems(Between(q, a, n)) # {} => a + n < Len(q)
  <1>1. CASE n = 0 \/ n > Len(q)
    BY <1>1 DEF Between, Elems
  <1>2. CASE ~(n = 0 \/ n > Len(q))
    <2>1. /\ Between(q, a, n) = SubSeq(q, a + 1, Len(q) - n)
          /\ Len(q) - n \in 0 .. Len(q) /\ a + 1 \in Nat \ {0}
      BY <1>2 DEF Between
    <2>2. /\ Between(q, a, n) \in Seq(S)
          /\ a + 1 > Len(q) - n => Between(q, a, n) = <<>>
      BY <2>1, SliceType
    <2>3. Elems(<<>>) = {}
      BY DEF Elems
    <2>4. Elems(Between(q, a, n)) # {} => ~(a + 1 > Len(q) - n)
      BY <2>2, <2>3
    <2>5. Len(q) \in Nat
      OBVIOUS
    <2>6. ~(a + 1 > Len(q) - n) => a + n < Len(q)
      BY <2>5
    <2> QED BY <2>2, <2>4, <2>6
  <1> QED BY <1>1, <1>2

\* A set of naturals that is not empty has a least element.
LEMMA LeastExists ==
  ASSUME NEW T \in SUBSET Nat, T # {}
  PROVE  \E i \in T : \A j \in T : i <= j
  <1> DEFINE R == {ss \in Nat \X Nat : ss[1] < ss[2]}
  <1>1. IsWellFoundedOn(R, Nat)
    BY NatLessThanWellFounded DEF OpToRel
  <1> HIDE DEF R
  <1>2. PICK x \in T : \A y \in T : ~(<<y, x>> \in R)
    BY <1>1, WFMin
  <1>3. ASSUME NEW j \in T PROVE x <= j
    <2>1. j \in Nat /\ x \in Nat /\ <<j, x>> \notin R
      BY <1>2
    <2>2. ~(j < x)
      BY <2>1, Zenon DEF R
    <2> QED BY <2>1, <2>2
  <1> QED BY <1>3

\* Session.get_history returns messages.
LEMMA GetHistoryType ==
  ASSUME TypeOK, NEW s \in Sessions
  PROVE  GetHistory(s) \in Seq(Msgs)
  <1> DEFINE sliced == Last(From(messages[s], lastCons[s]), Window)
             users  == {i \in DOMAIN sliced : sliced[i].role = "user"}
             first  == CHOOSE i \in users : \A j \in users : i <= j
  <1>1. messages[s] \in Seq(Msgs) /\ lastCons[s] \in Nat
    BY DEF TypeOK
  <1>2. sliced \in Seq(Msgs)
    BY <1>1, FromType, LastType, SessionAssumption
  <1>3. CASE users = {}
    BY <1>2, <1>3 DEF GetHistory
  <1>4. CASE users # {}
    <2>1. users \subseteq Nat \ {0}
      BY <1>2
    <2>2. \E i \in users : \A j \in users : i <= j
      BY <1>4, <2>1, LeastExists
    <2>3. first \in Nat \ {0}
      BY <2>1, <2>2
    <2>4. GetHistory(s) = From(sliced, first - 1)
      BY <1>4 DEF GetHistory
    <2> QED BY <1>2, <2>3, <2>4, FromType
  <1> QED BY <1>3, <1>4

\* What consolidate archives are messages, and there are some only when the
\* kept messages fit above the offset.
LEMMA OldMessagesFacts ==
  ASSUME TypeOK, NEW s \in Sessions
  PROVE  /\ OldMessages(s) \in SUBSET Msgs
         /\ OldMessages(s) # {} => Room(s)
  <1> DEFINE b == Between(messages[s], lastCons[s], Keep)
  <1>1. messages[s] \in Seq(Msgs) /\ lastCons[s] \in Nat
    BY DEF TypeOK
  <1>2. Elems(b) \in SUBSET Msgs /\ (Elems(b) # {} => lastCons[s] + Keep < Len(messages[s]))
    <2>1. b \in Seq(Msgs) /\ (Elems(b) # {} => lastCons[s] + Keep < Len(messages[s]))
      BY <1>1, BetweenFacts, KeepType
    <2> QED BY <2>1, ElemsType
  <1>3. OldMessages(s) = {} \/ OldMessages(s) = Elems(b)
    BY DEF OldMessages
  <1> QED BY <1>1, <1>2, <1>3, KeepType DEF Room

\* A turn adds messages of its own to the session.
LEMMA NewMessagesType ==
  ASSUME NEW h \in Seq(Msgs), NEW t \in 1 .. MaxTurns, NEW reply \in Replies(t)
  PROVE  NewMessages(h, t, reply) \in Seq(Msgs)
  <1>1. \A r \in Roles : Msg(t, r) \in Msgs
    BY DEF Msg, Msgs
  <1>2. reply \in Seq(Msgs) /\ <<Msg(t, "user")>> \in Seq(Msgs)
    <2>1. /\ Msg(t, "user") \in Msgs /\ Msg(t, "assistant") \in Msgs
          /\ Msg(t, "call") \in Msgs /\ Msg(t, "tool") \in Msgs
      BY <1>1 DEF Roles
    <2>2. \/ reply = <<>>
          \/ reply = <<Msg(t, "assistant")>>
          \/ reply = <<Msg(t, "call"), Msg(t, "tool"), Msg(t, "assistant")>>
      BY DEF Replies
    <2>3. /\ <<>> \in Seq(Msgs)
          /\ <<Msg(t, "user")>> \in Seq(Msgs)
          /\ <<Msg(t, "assistant")>> \in Seq(Msgs)
      BY <2>1
    <2>4. <<Msg(t, "call"), Msg(t, "tool"), Msg(t, "assistant")>> \in Seq(Msgs)
      BY <2>1
    <2> QED BY <2>2, <2>3, <2>4, Zenon
  <1>3. (h \o <<Msg(t, "user")>>) \o reply \in Seq(Msgs)
    BY <1>2
  <1>4. 1 + Len(h) \in Nat
    OBVIOUS
  <1> QED BY <1>3, <1>4, FromType DEF NewMessages

-----------------------------------------------------------------------------
(* Types are kept *)

\* The pieces that several actions share keep the types.
LEMMA TriggerType ==
  ASSUME TypeOK, NEW s \in Sessions, Trigger(s)
  PROVE  consolidating' \subseteq Sessions /\ lockq' \in [Sessions -> Seq({"bg", "new"})]
  <1>1. Append(lockq[s], "bg") \in Seq({"bg", "new"})
    BY DEF TypeOK
  <1>2. lockq' = lockq \/ lockq' = [lockq EXCEPT ![s] = Append(lockq[s], "bg")]
    BY DEF Trigger
  <1>3. consolidating' \subseteq Sessions
    BY DEF TypeOK, Trigger
  <1> QED BY <1>1, <1>2, <1>3 DEF TypeOK

\* Releasing the lock hands it to the next in its queue.
LEMMA ReleaseType ==
  ASSUME TypeOK, NEW s \in Sessions, lockq[s] # <<>>, Release(s)
  PROVE  /\ consolidating' \subseteq Sessions
         /\ lockq' \in [Sessions -> Seq({"bg", "new"})]
         /\ call' \in [Sessions -> Calls]
  <1>1. Tail(lockq[s]) \in Seq({"bg", "new"})
    BY DEF TypeOK
  <1>2. NoCall \in Calls
    BY DEF NoCall, Calls
  <1> QED BY <1>1, <1>2 DEF TypeOK, Release

\* What a consolidation writes to the memory files are messages.
LEMMA ArchiveType ==
  ASSUME TypeOK, NEW c \in Calls, Archive(c)
  PROVE  memory' \subseteq Msgs /\ archived' \subseteq Msgs
  BY DEF TypeOK, Archive, Calls

\* With room for the kept messages the new offset is a natural, not below the old.
LEMMA AdvanceType ==
  ASSUME TypeOK, NEW s \in Sessions, Room(s), Advance(s)
  PROVE  /\ lastCons' \in [Sessions -> Nat]
         /\ lastCons[s] <= lastCons'[s]
         /\ lastCons'[s] + Keep = Len(messages[s])
         /\ \A r \in Sessions \ {s} : lastCons'[r] = lastCons[r]
  <1>1. messages[s] \in Seq(Msgs) /\ lastCons[s] \in Nat
    BY DEF TypeOK
  <1>2. Len(messages[s]) - Keep \in Nat /\ Len(messages[s]) - Keep >= lastCons[s]
    BY <1>1, KeepType DEF Room
  <1> QED BY <1>1, <1>2, KeepType DEF TypeOK, Advance

\* The values of an idle session are well-formed.
LEMMA IdleType == Idle \in Turns /\ NoCall \in Calls /\ EmptyFile \in Files
  BY SessionAssumption DEF Idle, Turns, NoCall, Calls, EmptyFile, Files

\* Clearing a session keeps its state well-formed.
LEMMA ClearType ==
  ASSUME TypeOK, NEW s \in Sessions, Clear(s)
  PROVE  /\ messages' \in [Sessions -> Seq(Msgs)]
         /\ lastCons' \in [Sessions -> Nat]
         /\ disk' \in [Sessions -> Files]
         /\ turn' \in [Sessions -> Turns]
  <1>1. [msgs |-> <<>>, lc |-> 0] \in Files
    BY DEF Files
  <1> QED BY <1>1, IdleType DEF TypeOK, Clear, Save

\* A turn that has a number adds messages to the session and loses none.
LEMMA TurnMessages ==
  ASSUME TypeOK, NEW s \in Sessions, Numbered(s), turn[s].phase = "llm",
         NEW reply \in Replies(turn[s].id)
  PROVE  LET ms == messages[s] \o NewMessages(turn[s].hist, turn[s].id, reply)
         IN  ms \in Seq(Msgs) /\ Len(ms) \in Nat /\ Len(messages[s]) <= Len(ms)
  <1>1. turn[s].id \in 1 .. MaxTurns /\ turn[s].hist \in Seq(Msgs)
    BY SessionAssumption DEF TypeOK, Turns, Numbered
  <1>2. NewMessages(turn[s].hist, turn[s].id, reply) \in Seq(Msgs)
    BY <1>1, NewMessagesType
  <1>3. messages[s] \in Seq(Msgs)
    BY DEF TypeOK
  <1> DEFINE new == NewMessages(turn[s].hist, turn[s].id, reply)
  <1> HIDE DEF new
  <1>4. new \in Seq(Msgs)
    BY <1>2 DEF new
  <1>5. /\ messages[s] \o new \in Seq(Msgs)
        /\ Len(messages[s] \o new) \in Nat
        /\ Len(messages[s]) <= Len(messages[s] \o new)
    BY <1>3, <1>4
  <1> QED BY <1>5 DEF new

\* StartTurn keeps the state well-formed.
LEMMA StartTurnType ==
  ASSUME TypeOK, NEW s \in Sessions, StartTurn(s)
  PROVE  TypeOK'
  <1>1. turns' \in 0 .. MaxTurns
    BY SessionAssumption DEF TypeOK, StartTurn
  <1>2. consolidating' \subseteq Sessions /\ lockq' \in [Sessions -> Seq({"bg", "new"})]
    BY TriggerType DEF StartTurn
  <1>3. GetHistory(s) \in Seq(Msgs)
    BY GetHistoryType
  <1>4. [old |-> OldMessages(s), mem |-> memory] \in Calls
    BY OldMessagesFacts DEF TypeOK, Calls
  <1>5. /\ [phase |-> "llm", id |-> turns', hist |-> GetHistory(s), inline |-> NoCall] \in Turns
        /\ [phase |-> "inline", id |-> turns', hist |-> GetHistory(s),
            inline |-> [old |-> OldMessages(s), mem |-> memory]] \in Turns
    BY <1>1, <1>3, <1>4, IdleType DEF Turns
  <1>6. turn' \in [Sessions -> Turns]
    BY <1>5 DEF TypeOK, StartTurn
  <1>7. UNCHANGED <<messages, lastCons, disk, call, memory, archived, crashes, torn>>
    BY DEF StartTurn
  <1> QED BY <1>1, <1>2, <1>6, <1>7 DEF TypeOK

\* StartSystemTurn keeps the state well-formed.
LEMMA StartSystemTurnType ==
  ASSUME TypeOK, NEW s \in Sessions, StartSystemTurn(s)
  PROVE  TypeOK'
  <1>1. turns' \in 0 .. MaxTurns
    BY SessionAssumption DEF TypeOK, StartSystemTurn
  <1>2. GetHistory(s) \in Seq(Msgs)
    BY GetHistoryType
  <1>3. [phase |-> "llm", id |-> turns', hist |-> GetHistory(s), inline |-> NoCall] \in Turns
    BY <1>1, <1>2, IdleType DEF Turns
  <1>4. turn' \in [Sessions -> Turns]
    BY <1>3 DEF TypeOK, StartSystemTurn
  <1> QED BY <1>1, <1>4 DEF TypeOK, StartSystemTurn

\* InlineDone keeps the state well-formed.
LEMMA InlineDoneType ==
  ASSUME TypeOK, NEW s \in Sessions, InlineFacts(s), NEW ok \in BOOLEAN, InlineDone(s, ok)
  PROVE  TypeOK'
  <1>1. turn[s].inline \in Calls
    BY DEF TypeOK, Turns
  <1>2. turn' \in [Sessions -> Turns]
    BY IdleType DEF TypeOK, Turns, InlineDone
  <1>3. memory' \subseteq Msgs /\ archived' \subseteq Msgs /\ lastCons' \in [Sessions -> Nat]
    <2>1. CASE ok
      BY <1>1, <2>1, ArchiveType, AdvanceType DEF InlineDone, InlineFacts
    <2>2. CASE ~ok
      BY <2>2 DEF InlineDone, TypeOK
    <2> QED BY <2>1, <2>2
  <1> QED BY <1>2, <1>3 DEF TypeOK, InlineDone

\* FinishTurn keeps the state well-formed.
LEMMA FinishTurnType ==
  ASSUME TypeOK, NEW s \in Sessions, Numbered(s), NEW reply \in Replies(turn[s].id),
         FinishTurn(s, reply)
  PROVE  TypeOK'
  <1> DEFINE ms == messages[s] \o NewMessages(turn[s].hist, turn[s].id, reply)
  <1>1. ms \in Seq(Msgs)
    BY TurnMessages DEF FinishTurn
  <1>2. [msgs |-> ms, lc |-> lastCons[s]] \in Files
    BY <1>1 DEF Files, TypeOK
  <1>3. /\ messages' = [messages EXCEPT ![s] = ms]
        /\ disk' = [disk EXCEPT ![s] = [msgs |-> ms, lc |-> lastCons[s]]]
        /\ turn' = [turn EXCEPT ![s] = Idle]
        /\ UNCHANGED <<lastCons, consolidating, lockq, call, memory, archived, turns, crashes, torn>>
    BY DEF FinishTurn, Save
  <1> HIDE DEF ms
  <1> QED BY <1>1, <1>2, <1>3, IdleType DEF TypeOK

\* AbortTurn keeps the state well-formed.
LEMMA AbortTurnType ==
  ASSUME TypeOK, NEW s \in Sessions, AbortTurn(s)
  PROVE  TypeOK'
  BY IdleType DEF TypeOK, AbortTurn

\* BackgroundLocked keeps the state well-formed.
LEMMA BackgroundLockedType ==
  ASSUME TypeOK, NEW s \in Sessions, BackgroundLocked(s)
  PROVE  TypeOK'
  <1>1. [old |-> OldMessages(s), mem |-> memory] \in Calls
    BY OldMessagesFacts DEF TypeOK, Calls
  <1>2. CASE OldMessages(s) = {}
    <2>1. lockq[s] # <<>> /\ Release(s)
      BY <1>2 DEF BackgroundLocked, Holds
    <2> QED BY <2>1, ReleaseType DEF TypeOK, BackgroundLocked
  <1>3. CASE OldMessages(s) # {}
    BY <1>1, <1>3 DEF TypeOK, BackgroundLocked
  <1> QED BY <1>2, <1>3

\* BackgroundDone keeps the state well-formed.
LEMMA BackgroundDoneType ==
  ASSUME TypeOK, NEW s \in Sessions, CallFacts(s), NEW ok \in BOOLEAN, BackgroundDone(s, ok)
  PROVE  TypeOK'
  <1>1. lockq[s] # <<>> /\ Head(lockq[s]) = "bg" /\ call[s] # NoCall /\ Release(s)
    BY DEF BackgroundDone, Holds
  <1>2. Room(s) /\ call[s] \in Calls
    <2>1. lockq[s] \in Seq({"bg", "new"})
      BY DEF TypeOK
    <2>2. lockq[s][1] = "bg"
      BY <1>1, <2>1
    <2> QED BY <1>1, <2>2 DEF TypeOK, CallFacts
  <1>3. memory' \subseteq Msgs /\ archived' \subseteq Msgs /\ lastCons' \in [Sessions -> Nat]
    <2>1. CASE ok
      BY <1>2, <2>1, ArchiveType, AdvanceType DEF BackgroundDone
    <2>2. CASE ~ok
      BY <2>2 DEF BackgroundDone, TypeOK
    <2> QED BY <2>1, <2>2
  <1> QED BY <1>1, <1>3, ReleaseType DEF TypeOK, BackgroundDone

\* StartNew keeps the state well-formed.
LEMMA StartNewType ==
  ASSUME TypeOK, NEW s \in Sessions, StartNew(s)
  PROVE  TypeOK'
  <1>1. Append(lockq[s], "new") \in Seq({"bg", "new"})
    BY DEF TypeOK
  <1>2. lockq' = [lockq EXCEPT ![s] = Append(lockq[s], "new")]
    BY DEF StartNew
  <1>3. lockq' \in [Sessions -> Seq({"bg", "new"})]
    BY <1>1, <1>2 DEF TypeOK
  <1>4. turn' \in [Sessions -> Turns]
    BY DEF TypeOK, Turns, StartNew
  <1>5. turns' \in 0 .. MaxTurns
    BY SessionAssumption DEF TypeOK, StartNew
  <1> QED BY <1>3, <1>4, <1>5 DEF TypeOK, StartNew

\* NewLocked keeps the state well-formed.
LEMMA NewLockedType ==
  ASSUME TypeOK, NEW s \in Sessions, NewLocked(s)
  PROVE  TypeOK'
  <1> DEFINE snapshot == Elems(From(messages[s], lastCons[s]))
  <1>1. snapshot \in SUBSET Msgs
    <2>1. messages[s] \in Seq(Msgs) /\ lastCons[s] \in Nat
      BY DEF TypeOK
    <2> QED BY <2>1, FromType, ElemsType
  <1>2. [old |-> snapshot, mem |-> memory] \in Calls
    BY <1>1 DEF TypeOK, Calls
  <1>3. CASE snapshot = {}
    <2>1. lockq[s] # <<>> /\ Release(s) /\ Clear(s)
      BY <1>3 DEF NewLocked, Holds
    <2> QED BY <2>1, ReleaseType, ClearType DEF TypeOK, NewLocked
  <1>4. CASE snapshot # {}
    BY <1>2, <1>4 DEF TypeOK, NewLocked
  <1> QED BY <1>3, <1>4

\* NewDone keeps the state well-formed.
LEMMA NewDoneType ==
  ASSUME TypeOK, NEW s \in Sessions, NEW ok \in BOOLEAN, NewDone(s, ok)
  PROVE  TypeOK'
  <1>1. lockq[s] # <<>> /\ Release(s) /\ call[s] \in Calls
    BY DEF NewDone, Holds, TypeOK
  <1>2. CASE ok
    BY <1>1, <1>2, ReleaseType, ArchiveType, ClearType DEF TypeOK, NewDone
  <1>3. CASE ~ok
    BY <1>1, <1>3, ReleaseType, IdleType DEF TypeOK, NewDone
  <1> QED BY <1>2, <1>3

\* CancelNew keeps the state well-formed.
LEMMA CancelNewType ==
  ASSUME TypeOK, NEW s \in Sessions, NewIsLast(s), CancelNew(s)
  PROVE  TypeOK'
  <1>1. lockq[s] \in Seq({"bg", "new"}) /\ lockq[s] # <<>>
    BY DEF TypeOK, NewIsLast, CancelNew
  <1>2. turn' \in [Sessions -> Turns]
    BY IdleType DEF TypeOK, CancelNew
  <1>3. CASE Holds(s, "new")
    BY <1>1, <1>2, <1>3, ReleaseType DEF TypeOK, CancelNew
  <1>4. CASE ~Holds(s, "new")
    <2>1. SubSeq(lockq[s], 1, Len(lockq[s]) - 1) \in Seq({"bg", "new"})
      BY <1>1, SliceType
    <2>2. lockq' = [lockq EXCEPT ![s] = SubSeq(lockq[s], 1, Len(lockq[s]) - 1)]
      BY <1>4 DEF CancelNew
    <2>3. lockq' \in [Sessions -> Seq({"bg", "new"})]
      BY <2>1, <2>2 DEF TypeOK
    <2> QED BY <1>2, <1>4, <2>3 DEF TypeOK, CancelNew
  <1> QED BY <1>3, <1>4

\* Restart keeps the state well-formed.
LEMMA RestartType ==
  ASSUME TypeOK, NEW d \in [Sessions -> Files], Restart(d), torn' \in BOOLEAN
  PROVE  TypeOK'
  <1>1. messages' \in [Sessions -> Seq(Msgs)] /\ lastCons' \in [Sessions -> Nat]
    BY DEF Restart, Files
  <1>2. crashes' \in 0 .. MaxCrashes
    BY SessionAssumption DEF TypeOK, Restart
  <1>3. lockq' \in [Sessions -> Seq({"bg", "new"})]
    BY DEF Restart
  <1> QED BY <1>1, <1>2, <1>3, IdleType DEF TypeOK, Restart

\* CrashInSave keeps the state well-formed.
LEMMA CrashInSaveType ==
  ASSUME TypeOK, NEW s \in Sessions, Numbered(s), NEW reply \in Replies(turn[s].id),
         CrashInSave(s, reply)
  PROVE  TypeOK'
  <1> DEFINE ms == messages[s] \o NewMessages(turn[s].hist, turn[s].id, reply)
  <1>1. ms \in Seq(Msgs)
    BY TurnMessages DEF CrashInSave
  <1>2. PICK f \in TornFiles(ms, lastCons[s]) : Restart([disk EXCEPT ![s] = f])
    BY DEF CrashInSave
  <1> HIDE DEF ms
  <1>3. f \in Files
    <2>1. ASSUME NEW i \in 0 .. Len(ms)
          PROVE  [msgs |-> SubSeq(ms, 1, i), lc |-> lastCons[s]] \in Files
      <3>1. SubSeq(ms, 1, i) \in Seq(Msgs)
        BY <1>1, SliceType
      <3> QED BY <3>1 DEF Files, TypeOK
    <2> QED BY <2>1, IdleType DEF TornFiles
  <1>4. [disk EXCEPT ![s] = f] \in [Sessions -> Files]
    BY <1>3 DEF TypeOK
  <1>5. torn' \in BOOLEAN
    BY DEF CrashInSave
  <1> QED BY <1>2, <1>4, <1>5, RestartType

-----------------------------------------------------------------------------
(* The rest of the invariant is kept, session by session *)

\* What a step leaves as it is.
Same(r) ==
    /\ messages'[r] = messages[r] /\ lastCons'[r] = lastCons[r] /\ disk'[r] = disk[r]
    /\ turn'[r] = turn[r] /\ lockq'[r] = lockq[r] /\ call'[r] = call[r]

\* A session that a step leaves alone stays good.
LEMMA SameGood ==
  ASSUME NEW r \in Sessions, Good(r), Same(r), torn' = torn
  PROVE  Good(r)'
  BY DEF Good, Same, Numbered, NewIsLast, CallFacts, InlineFacts, Kept, Saved, Room

\* A step of session s that leaves the other sessions alone.
Local(s) == torn' = torn /\ \A r \in Sessions \ {s} : Same(r)

\* StartTurn keeps its session good and leaves the others alone.
LEMMA StartTurnGood ==
  ASSUME TypeOK, NEW s \in Sessions, Good(s), StartTurn(s)
  PROVE  Good(s)' /\ Local(s)
  <1>1. /\ messages' = messages /\ lastCons' = lastCons /\ disk' = disk
        /\ call' = call /\ torn' = torn
        /\ lockq' = lockq \/ lockq' = [lockq EXCEPT ![s] = Append(lockq[s], "bg")]
        /\ turn[s].phase = "idle"
        /\ turns' # 0
    BY DEF StartTurn, Trigger, TypeOK
  <1>2. /\ turn'[s].phase = "llm" \/ (turn'[s].phase = "inline" /\ OldMessages(s) # {})
        /\ turn'[s].id = turns'
        /\ \A r \in Sessions \ {s} : turn'[r] = turn[r]
    BY DEF StartTurn, TypeOK
  <1>3. lockq[s] \in Seq({"bg", "new"}) /\ lockq'[s] \in Seq({"bg", "new"})
    BY TriggerType DEF TypeOK, StartTurn
  <1>4. Local(s)
    BY <1>1, <1>2 DEF Local, Same, TypeOK
  <1>5. \A i \in 1 .. Len(lockq[s]) : lockq[s][i] # "new"
    BY <1>1 DEF Good, NewIsLast
  <1>6. lockq'[s] = lockq[s] \/ lockq'[s] = Append(lockq[s], "bg")
    BY <1>1 DEF TypeOK
  <1>7. \A i \in 1 .. Len(lockq'[s]) : lockq'[s][i] # "new"
    BY <1>3, <1>5, <1>6
  <1>8. lockq[s] # <<>> => lockq'[s] # <<>> /\ lockq'[s][1] = lockq[s][1]
    BY <1>3, <1>6
  <1>9. Numbered(s)' /\ NewIsLast(s)'
    BY <1>1, <1>2, <1>7 DEF Numbered, NewIsLast
  <1>10. CallFacts(s)'
    BY <1>1, <1>8 DEF Good, CallFacts, Room
  <1>11. InlineFacts(s)'
    BY <1>1, <1>2, OldMessagesFacts DEF InlineFacts, Room
  <1>12. Kept(s)' /\ Saved(s)'
    BY <1>1 DEF Good, Kept, Saved, Room
  <1> QED BY <1>4, <1>9, <1>10, <1>11, <1>12 DEF Good

\* StartSystemTurn keeps its session good and leaves the others alone.
LEMMA StartSystemTurnGood ==
  ASSUME TypeOK, NEW s \in Sessions, Good(s), StartSystemTurn(s)
  PROVE  Good(s)' /\ Local(s)
  <1>1. /\ UNCHANGED <<messages, lastCons, disk, call, lockq, torn>>
        /\ turn[s].phase = "idle" /\ turns' # 0
        /\ turn'[s].phase = "llm" /\ turn'[s].id = turns'
        /\ \A r \in Sessions \ {s} : turn'[r] = turn[r]
    BY DEF StartSystemTurn, TypeOK
  <1>2. Local(s)
    BY <1>1 DEF Local, Same
  <1> QED BY <1>1, <1>2
      DEF Good, Numbered, NewIsLast, CallFacts, InlineFacts, Kept, Saved, Room

\* AbortTurn keeps its session good and leaves the others alone.
LEMMA AbortTurnGood ==
  ASSUME TypeOK, NEW s \in Sessions, Good(s), AbortTurn(s)
  PROVE  Good(s)' /\ Local(s)
  <1>1. /\ UNCHANGED <<messages, lastCons, disk, call, lockq, torn>>
        /\ turn[s].phase \in {"inline", "llm"} /\ turn'[s].phase = "idle"
        /\ \A r \in Sessions \ {s} : turn'[r] = turn[r]
    BY DEF AbortTurn, TypeOK, Idle
  <1>2. Local(s)
    BY <1>1 DEF Local, Same
  <1> QED BY <1>1, <1>2
      DEF Good, Numbered, NewIsLast, CallFacts, InlineFacts, Kept, Saved, Room

\* FinishTurn keeps its session good and leaves the others alone.
LEMMA FinishTurnGood ==
  ASSUME TypeOK, NEW s \in Sessions, Good(s), NEW reply \in Replies(turn[s].id),
         FinishTurn(s, reply)
  PROVE  /\ Good(s)' /\ Local(s)
         /\ Len(messages[s]) <= Len(messages'[s])
  <1> DEFINE ms == messages[s] \o NewMessages(turn[s].hist, turn[s].id, reply)
  <1>1. turn[s].phase = "llm"
    BY DEF FinishTurn
  <1>2. ms \in Seq(Msgs) /\ Len(ms) \in Nat /\ Len(messages[s]) <= Len(ms)
    BY <1>1, TurnMessages DEF Good
  <1>3. /\ messages' = [messages EXCEPT ![s] = ms]
        /\ disk' = [disk EXCEPT ![s] = [msgs |-> ms, lc |-> lastCons[s]]]
        /\ turn' = [turn EXCEPT ![s] = Idle]
        /\ UNCHANGED <<lastCons, lockq, call, torn>>
    BY DEF FinishTurn, Save
  <1> HIDE DEF ms
  <1>4. /\ messages'[s] = ms /\ disk'[s] = [msgs |-> ms, lc |-> lastCons[s]]
        /\ turn'[s].phase = "idle"
    BY <1>3 DEF TypeOK, Idle
  <1>5. Local(s)
    BY <1>3 DEF TypeOK, Local, Same
  <1>6. lastCons[s] \in Nat /\ messages[s] \in Seq(Msgs) /\ Len(messages[s]) \in Nat
    BY DEF TypeOK
  <1>7. Room(s) => Room(s)'
    BY <1>2, <1>3, <1>4, <1>6, KeepType DEF Room
  <1>8. lockq[s] \in Seq({"bg", "new"})
    BY DEF TypeOK
  <1>9. \A i \in 1 .. Len(lockq[s]) : lockq[s][i] # "new"
    BY <1>1 DEF Good, NewIsLast
  <1>10. Numbered(s)' /\ NewIsLast(s)' /\ InlineFacts(s)'
    BY <1>3, <1>4, <1>9 DEF Numbered, NewIsLast, InlineFacts
  <1>11. CallFacts(s)'
    <2>1. lockq[s] # <<>> => lockq[s][1] # "new"
      BY <1>8, <1>9
    <2> QED BY <1>3, <1>7, <2>1 DEF Good, CallFacts
  <1>12. Kept(s)' /\ Saved(s)'
    BY <1>3, <1>4, <1>6, <1>7 DEF Good, Kept, Saved
  <1> QED BY <1>2, <1>4, <1>5, <1>10, <1>11, <1>12 DEF Good

\* The offset that a consolidation sets keeps the invariant about the offset.
LEMMA AdvanceGood ==
  ASSUME TypeOK, NEW s \in Sessions, Good(s), Room(s), Advance(s),
         messages' = messages, disk' = disk, torn' = torn
  PROVE  /\ Room(s)' /\ Kept(s)' /\ Saved(s)'
         /\ lastCons[s] <= lastCons'[s]
         /\ \A r \in Sessions \ {s} : lastCons'[r] = lastCons[r]
  <1>1. /\ lastCons'[s] \in Nat /\ lastCons[s] <= lastCons'[s]
        /\ lastCons'[s] + Keep = Len(messages[s])
        /\ \A r \in Sessions \ {s} : lastCons'[r] = lastCons[r]
    BY AdvanceType
  <1>2. lastCons[s] \in Nat /\ disk[s].lc \in Nat /\ Len(messages[s]) \in Nat
    BY DEF TypeOK, Files
  <1>3. Room(s)'
    BY <1>1, <1>2, KeepType DEF Room
  <1>4. Kept(s)' /\ Saved(s)'
    BY <1>1, <1>2, <1>3 DEF Good, Kept, Saved
  <1> QED BY <1>1, <1>3, <1>4

\* InlineDone keeps its session good and leaves the others alone.
LEMMA InlineDoneGood ==
  ASSUME TypeOK, NEW s \in Sessions, Good(s), NEW ok \in BOOLEAN, InlineDone(s, ok)
  PROVE  Good(s)' /\ Local(s) /\ lastCons[s] <= lastCons'[s]
  <1>1. /\ UNCHANGED <<messages, disk, lockq, call, torn>>
        /\ turn[s].phase = "inline" /\ turn'[s].phase = "llm" /\ turn'[s].id = turn[s].id
        /\ \A r \in Sessions \ {s} : turn'[r] = turn[r]
    BY DEF InlineDone, TypeOK, Turns
  <1>2. Room(s) /\ lastCons[s] \in Nat
    BY <1>1 DEF Good, InlineFacts, TypeOK
  <1>3. /\ Room(s)' /\ Kept(s)' /\ Saved(s)'
        /\ lastCons[s] <= lastCons'[s]
        /\ \A r \in Sessions \ {s} : lastCons'[r] = lastCons[r]
    <2>1. CASE ok
      BY <1>1, <1>2, <2>1, AdvanceGood DEF InlineDone
    <2>2. CASE ~ok
      BY <1>1, <1>2, <2>2 DEF InlineDone, Room, Good, Kept, Saved
    <2> QED BY <2>1, <2>2
  <1>4. lockq[s] # <<>> => lockq[s][1] # "new"
    <2>1. lockq[s] \in Seq({"bg", "new"})
      BY DEF TypeOK
    <2>2. \A i \in 1 .. Len(lockq[s]) : lockq[s][i] # "new"
      BY <1>1 DEF Good, NewIsLast
    <2> QED BY <2>1, <2>2
  <1>5. Numbered(s)' /\ NewIsLast(s)' /\ InlineFacts(s)'
    BY <1>1 DEF Good, Numbered, NewIsLast, InlineFacts
  <1>6. CallFacts(s)'
    BY <1>1, <1>3, <1>4 DEF Good, CallFacts
  <1>7. Local(s)
    BY <1>1, <1>3 DEF Local, Same
  <1> QED BY <1>3, <1>5, <1>6, <1>7 DEF Good

\* The background task leaves the lock: a /new that waits stays the last.
LEMMA BackgroundRelease ==
  ASSUME TypeOK, NEW s \in Sessions, Good(s), Holds(s, "bg"), Release(s), turn' = turn
  PROVE  /\ NewIsLast(s)' /\ Numbered(s)' /\ CallFacts(s)'
         /\ \A r \in Sessions \ {s} : lockq'[r] = lockq[r] /\ call'[r] = call[r]
  <1>1. lockq[s] \in Seq({"bg", "new"}) /\ lockq[s] # <<>> /\ lockq[s][1] = "bg"
    BY DEF TypeOK, Holds
  <1>2. lockq'[s] = Tail(lockq[s]) /\ call'[s] = NoCall
    BY DEF TypeOK, Release
  <1>3. \A r \in Sessions \ {s} : lockq'[r] = lockq[r] /\ call'[r] = call[r]
    BY DEF TypeOK, Release
  <1> DEFINE q == lockq[s]
             p == Tail(q)
  <1>4. /\ q \in Seq({"bg", "new"}) /\ q # <<>> /\ q[1] = "bg"
        /\ turn[s].phase = "new" => q[Len(q)] = "new"
        /\ \A i \in 1 .. Len(q) : q[i] = "new" => turn[s].phase = "new" /\ i = Len(q)
    BY <1>1 DEF Good, NewIsLast
  <1> HIDE DEF q
  <1>5. /\ p \in Seq({"bg", "new"}) /\ Len(p) = Len(q) - 1 /\ Len(q) \in Nat /\ Len(q) >= 1
        /\ \A i \in 1 .. Len(p) : p[i] = q[i + 1]
    BY <1>4
  <1> HIDE DEF p
  <1>6. turn[s].phase = "new" => p # <<>> /\ p[Len(p)] = "new"
    <2> SUFFICES ASSUME turn[s].phase = "new" PROVE p # <<>> /\ p[Len(p)] = "new"
      OBVIOUS
    <2>1. Len(q) # 1
      BY <1>4
    <2>2. Len(p) >= 1 /\ Len(p) \in 1 .. Len(p) /\ Len(p) + 1 = Len(q)
      BY <1>5, <2>1
    <2> QED BY <1>4, <1>5, <2>2
  <1>7. \A i \in 1 .. Len(p) : p[i] = "new" => turn[s].phase = "new" /\ i = Len(p)
    <2> SUFFICES ASSUME NEW i \in 1 .. Len(p), p[i] = "new"
                 PROVE  turn[s].phase = "new" /\ i = Len(p)
      OBVIOUS
    <2>1. i + 1 \in 1 .. Len(q) /\ q[i + 1] = "new"
      BY <1>5
    <2> QED BY <1>4, <1>5, <2>1
  <1>8. lockq'[s] = p
    BY <1>2 DEF p, q
  <1> QED BY <1>2, <1>3, <1>6, <1>7, <1>8 DEF Good, NewIsLast, Numbered, CallFacts

\* BackgroundLocked keeps its session good and leaves the others alone.
LEMMA BackgroundLockedGood ==
  ASSUME TypeOK, NEW s \in Sessions, Good(s), BackgroundLocked(s)
  PROVE  Good(s)' /\ Local(s)
  <1>1. UNCHANGED <<messages, lastCons, disk, turn, torn>> /\ Holds(s, "bg")
    BY DEF BackgroundLocked
  <1>2. InlineFacts(s)' /\ Kept(s)' /\ Saved(s)'
    BY <1>1 DEF Good, InlineFacts, Kept, Saved, Room
  <1>3. CASE OldMessages(s) = {}
    <2>1. /\ NewIsLast(s)' /\ Numbered(s)' /\ CallFacts(s)'
          /\ \A r \in Sessions \ {s} : lockq'[r] = lockq[r] /\ call'[r] = call[r]
      BY <1>1, <1>3, BackgroundRelease DEF BackgroundLocked
    <2> QED BY <1>1, <1>2, <2>1 DEF Good, Local, Same
  <1>4. CASE OldMessages(s) # {}
    <2>1. lockq' = lockq /\ \A r \in Sessions \ {s} : call'[r] = call[r]
      BY <1>4 DEF BackgroundLocked, TypeOK
    <2>2. Room(s) /\ lockq[s] # <<>> /\ lockq[s][1] = "bg"
      BY <1>1, <1>4, OldMessagesFacts DEF Holds, TypeOK
    <2>3. CallFacts(s)'
      BY <1>1, <2>1, <2>2 DEF CallFacts, Room
    <2>4. Numbered(s)' /\ NewIsLast(s)'
      BY <1>1, <2>1 DEF Good, Numbered, NewIsLast
    <2> QED BY <1>1, <1>2, <2>1, <2>3, <2>4 DEF Good, Local, Same
  <1> QED BY <1>3, <1>4

\* BackgroundDone keeps its session good and leaves the others alone.
LEMMA BackgroundDoneGood ==
  ASSUME TypeOK, NEW s \in Sessions, Good(s), NEW ok \in BOOLEAN, BackgroundDone(s, ok)
  PROVE  Good(s)' /\ Local(s) /\ lastCons[s] <= lastCons'[s]
  <1>1. UNCHANGED <<messages, disk, turn, torn>> /\ Holds(s, "bg") /\ call[s] # NoCall /\ Release(s)
    BY DEF BackgroundDone
  <1>2. Room(s) /\ lastCons[s] \in Nat
    BY <1>1 DEF Good, CallFacts, Holds, TypeOK
  <1>3. /\ NewIsLast(s)' /\ Numbered(s)' /\ CallFacts(s)'
        /\ \A r \in Sessions \ {s} : lockq'[r] = lockq[r] /\ call'[r] = call[r]
    BY <1>1, BackgroundRelease
  <1>4. /\ Room(s)' /\ Kept(s)' /\ Saved(s)'
        /\ lastCons[s] <= lastCons'[s]
        /\ \A r \in Sessions \ {s} : lastCons'[r] = lastCons[r]
    <2>1. CASE ok
      BY <1>1, <1>2, <2>1, AdvanceGood DEF BackgroundDone
    <2>2. CASE ~ok
      BY <1>1, <1>2, <2>2 DEF BackgroundDone, Room, Good, Kept, Saved
    <2> QED BY <2>1, <2>2
  <1> QED BY <1>1, <1>3, <1>4 DEF Good, InlineFacts, Local, Same

\* StartNew keeps its session good and leaves the others alone.
LEMMA StartNewGood ==
  ASSUME TypeOK, NEW s \in Sessions, Good(s), StartNew(s)
  PROVE  Good(s)' /\ Local(s)
  <1>1. /\ UNCHANGED <<messages, lastCons, disk, call, torn>>
        /\ turn[s].phase = "idle" /\ turn'[s].phase = "new"
        /\ \A r \in Sessions \ {s} : turn'[r] = turn[r] /\ lockq'[r] = lockq[r]
    BY DEF StartNew, TypeOK, Turns
  <1> DEFINE q == lockq[s]
  <1>2. q \in Seq({"bg", "new"}) /\ \A i \in 1 .. Len(q) : q[i] # "new"
    BY <1>1 DEF TypeOK, Good, NewIsLast
  <1>3. lockq'[s] = Append(q, "new")
    BY DEF TypeOK, StartNew
  <1> HIDE DEF q
  <1>4. /\ lockq'[s] # <<>> /\ Len(lockq'[s]) = Len(q) + 1 /\ Len(q) \in Nat
        /\ lockq'[s][Len(q) + 1] = "new"
        /\ \A i \in 1 .. Len(q) : lockq'[s][i] = q[i]
        /\ q # <<>> => lockq'[s][1] = q[1]
    BY <1>2, <1>3
  <1>5. NewIsLast(s)'
    BY <1>1, <1>2, <1>4 DEF NewIsLast
  <1>6. CallFacts(s)'
    BY <1>1, <1>4 DEF Good, CallFacts, Room, q
  <1>7. Local(s)
    BY <1>1 DEF Local, Same
  <1> QED BY <1>1, <1>5, <1>6, <1>7 DEF Good, Numbered, InlineFacts, Kept, Saved, Room

\* A /new that leaves the lock leaves an empty queue.
LEMMA NewRelease ==
  ASSUME TypeOK, NEW s \in Sessions, Good(s), Holds(s, "new"), Release(s),
         turn' = [turn EXCEPT ![s] = Idle]
  PROVE  /\ NewIsLast(s)' /\ Numbered(s)' /\ CallFacts(s)' /\ InlineFacts(s)'
         /\ \A r \in Sessions \ {s} :
                lockq'[r] = lockq[r] /\ call'[r] = call[r] /\ turn'[r] = turn[r]
  <1>1. lockq[s] \in Seq({"bg", "new"}) /\ lockq[s] # <<>> /\ lockq[s][1] = "new"
    BY DEF TypeOK, Holds
  <1>2. lockq'[s] = Tail(lockq[s]) /\ call'[s] = NoCall /\ turn'[s].phase = "idle"
    BY DEF TypeOK, Release, Idle
  <1>3. \A r \in Sessions \ {s} :
            lockq'[r] = lockq[r] /\ call'[r] = call[r] /\ turn'[r] = turn[r]
    BY DEF TypeOK, Release
  <1>4. Len(lockq[s]) = 1
    <2>1. 1 \in 1 .. Len(lockq[s])
      BY <1>1
    <2> QED BY <1>1, <2>1 DEF Good, NewIsLast
  <1>5. Len(lockq'[s]) = 0
    BY <1>1, <1>2, <1>4
  <1> QED BY <1>2, <1>3, <1>5 DEF NewIsLast, Numbered, CallFacts, InlineFacts

\* A cleared session keeps nothing and its file says so.
LEMMA ClearGood ==
  ASSUME TypeOK, NEW s \in Sessions, Clear(s), torn' = torn
  PROVE  /\ Kept(s)' /\ Saved(s)'
         /\ messages'[s] = <<>>
         /\ \A r \in Sessions \ {s} : /\ messages'[r] = messages[r]
                                      /\ lastCons'[r] = lastCons[r]
                                      /\ disk'[r] = disk[r]
  BY DEF TypeOK, Clear, Save, Kept, Saved

\* NewLocked keeps its session good and leaves the others alone.
LEMMA NewLockedGood ==
  ASSUME TypeOK, NEW s \in Sessions, Good(s), NewLocked(s)
  PROVE  Good(s)' /\ Local(s)
  <1> DEFINE snapshot == Elems(From(messages[s], lastCons[s]))
  <1>1. Holds(s, "new") /\ call[s] = NoCall /\ torn' = torn
    BY DEF NewLocked
  <1>2. CASE snapshot = {}
    <2>1. Release(s) /\ Clear(s) /\ turn' = [turn EXCEPT ![s] = Idle]
      BY <1>2 DEF NewLocked, Clear
    <2>2. /\ NewIsLast(s)' /\ Numbered(s)' /\ CallFacts(s)' /\ InlineFacts(s)'
          /\ \A r \in Sessions \ {s} :
                 lockq'[r] = lockq[r] /\ call'[r] = call[r] /\ turn'[r] = turn[r]
      BY <1>1, <2>1, NewRelease
    <2> QED BY <1>1, <2>1, <2>2, ClearGood DEF Good, Local, Same
  <1>3. CASE snapshot # {}
    <2>1. /\ UNCHANGED <<messages, lastCons, disk, turn, lockq>>
          /\ call'[s].old = snapshot
          /\ \A r \in Sessions \ {s} : call'[r] = call[r]
      BY <1>3 DEF NewLocked, TypeOK
    <2>2. lockq[s] # <<>> /\ lockq[s][1] = "new"
      BY <1>1 DEF Holds, TypeOK
    <2>3. CallFacts(s)'
      BY <2>1, <2>2 DEF CallFacts, Room
    <2> QED BY <1>1, <2>1, <2>3
        DEF Good, Numbered, NewIsLast, InlineFacts, Kept, Saved, Room, Local, Same
  <1> QED BY <1>2, <1>3

\* NewDone keeps its session good and leaves the others alone.
LEMMA NewDoneGood ==
  ASSUME TypeOK, NEW s \in Sessions, Good(s), NEW ok \in BOOLEAN, NewDone(s, ok)
  PROVE  Good(s)' /\ Local(s)
  <1>1. /\ Holds(s, "new") /\ Release(s) /\ torn' = torn
        /\ turn' = [turn EXCEPT ![s] = Idle]
    BY DEF NewDone, Clear
  <1>2. /\ NewIsLast(s)' /\ Numbered(s)' /\ CallFacts(s)' /\ InlineFacts(s)'
        /\ \A r \in Sessions \ {s} :
               lockq'[r] = lockq[r] /\ call'[r] = call[r] /\ turn'[r] = turn[r]
    BY <1>1, NewRelease
  <1>3. CASE ok
    BY <1>1, <1>2, <1>3, ClearGood DEF NewDone, Good, Local, Same
  <1>4. CASE ~ok
    BY <1>1, <1>2, <1>4 DEF NewDone, Good, Kept, Saved, Room, Local, Same
  <1> QED BY <1>3, <1>4

\* CancelNew keeps its session good and leaves the others alone.
LEMMA CancelNewGood ==
  ASSUME TypeOK, NEW s \in Sessions, Good(s), CancelNew(s)
  PROVE  Good(s)' /\ Local(s)
  <1>1. /\ UNCHANGED <<messages, lastCons, disk, torn>>
        /\ turn[s].phase = "new" /\ turn' = [turn EXCEPT ![s] = Idle]
        /\ turn'[s].phase = "idle"
        /\ \A r \in Sessions \ {s} : turn'[r] = turn[r]
    BY DEF CancelNew, TypeOK, Idle
  <1>2. Kept(s)' /\ Saved(s)' /\ Numbered(s)' /\ InlineFacts(s)'
    BY <1>1 DEF Good, Kept, Saved, Room, Numbered, InlineFacts
  <1>3. CASE Holds(s, "new")
    <2>1. /\ NewIsLast(s)' /\ CallFacts(s)'
          /\ \A r \in Sessions \ {s} : lockq'[r] = lockq[r] /\ call'[r] = call[r]
      BY <1>1, <1>3, NewRelease DEF CancelNew
    <2> QED BY <1>1, <1>2, <2>1 DEF Good, Local, Same
  <1>4. CASE ~Holds(s, "new")
    <2> DEFINE q == lockq[s]
    <2>1. /\ q \in Seq({"bg", "new"}) /\ q # <<>> /\ q[Len(q)] = "new" /\ q[1] # "new"
          /\ \A i \in 1 .. Len(q) : q[i] = "new" => i = Len(q)
      BY <1>1, <1>4 DEF Good, NewIsLast, TypeOK, Holds
    <2>2. /\ call' = call /\ lockq'[s] = SubSeq(q, 1, Len(q) - 1)
          /\ \A r \in Sessions \ {s} : lockq'[r] = lockq[r]
      BY <1>4 DEF CancelNew, TypeOK
    <2> HIDE DEF q
    <2>3. Len(q) \in Nat /\ Len(q) >= 2
      BY <2>1
    <2>4. /\ Len(lockq'[s]) = Len(q) - 1 /\ lockq'[s] # <<>>
          /\ \A i \in 1 .. Len(q) - 1 : lockq'[s][i] = q[i]
      <3>1. Len(SubSeq(q, 1, Len(q) - 1)) = Len(q) - 1
        BY <2>1, <2>3
      <3>2. ASSUME NEW i \in 1 .. Len(q) - 1 PROVE SubSeq(q, 1, Len(q) - 1)[i] = q[i]
        BY <2>1, <2>3
      <3>3. Len(SubSeq(q, 1, Len(q) - 1)) # 0
        BY <2>3, <3>1
      <3>4. lockq'[s] # <<>>
        <4>1. Len(lockq'[s]) # 0
          BY <2>2, <3>3, Zenon
        <4>2. Len(<<>>) = 0
          OBVIOUS
        <4> QED BY <4>1, <4>2, Zenon
      <3>5. \A i \in 1 .. Len(q) - 1 : lockq'[s][i] = q[i]
        BY <2>2, <3>2
      <3> QED BY <2>2, <3>1, <3>4, <3>5
    <2>5. NewIsLast(s)'
      BY <1>1, <2>1, <2>3, <2>4 DEF NewIsLast
    <2>6. lockq'[s][1] = lockq[s][1] /\ lockq[s] # <<>>
      BY <2>1, <2>3, <2>4 DEF q
    <2>7. CallFacts(s)'
      BY <1>1, <2>2, <2>4, <2>6 DEF Good, CallFacts, Room
    <2> QED BY <1>1, <1>2, <2>2, <2>5, <2>7 DEF Good, Local, Same
  <1> QED BY <1>3, <1>4

\* After a restart the sessions are what the files say.  A crash between steps
\* leaves the files of before; one in the middle of a save sets torn.
LEMMA RestartGood ==
  ASSUME TypeOK, \A s \in Sessions : Good(s), NEW d \in [Sessions -> Files], Restart(d),
         torn' \in BOOLEAN, torn' \/ (torn' = torn /\ d = disk)
  PROVE  \A s \in Sessions : Good(s)'
  <1> SUFFICES ASSUME NEW s \in Sessions PROVE Good(s)'
    OBVIOUS
  <1>1. /\ messages'[s] = d[s].msgs /\ lastCons'[s] = d[s].lc /\ disk'[s] = d[s]
        /\ turn'[s].phase = "idle" /\ lockq'[s] = <<>> /\ call'[s] = NoCall
    BY DEF Restart, Idle
  <1>2. d[s].lc \in Nat /\ lastCons[s] \in Nat /\ messages[s] \in Seq(Msgs)
    BY DEF TypeOK, Files
  <1>3. Numbered(s)' /\ NewIsLast(s)' /\ CallFacts(s)' /\ InlineFacts(s)'
    BY <1>1 DEF Numbered, NewIsLast, CallFacts, InlineFacts
  <1>4. Saved(s)'
    BY <1>1, <1>2 DEF Saved
  <1>5. Kept(s)'
    BY <1>1, <1>2, KeepType DEF Good, Kept, Saved, Room
  <1> QED BY <1>3, <1>4, <1>5 DEF Good

-----------------------------------------------------------------------------
(* The theorems *)

\* The invariant holds at the first start.
LEMMA InitGood == Init => IInv
  <1> SUFFICES ASSUME Init PROVE IInv
    OBVIOUS
  <1>1. TypeOK
    <2>1. /\ messages \in [Sessions -> Seq(Msgs)] /\ lastCons \in [Sessions -> Nat]
          /\ lockq \in [Sessions -> Seq({"bg", "new"})]
      BY DEF Init
    <2>2. /\ disk \in [Sessions -> Files] /\ turn \in [Sessions -> Turns]
          /\ call \in [Sessions -> Calls]
      BY IdleType DEF Init
    <2>3. turns \in 0 .. MaxTurns /\ crashes \in 0 .. MaxCrashes
      BY SessionAssumption DEF Init
    <2>4. torn \in BOOLEAN
      BY Zenon DEF Init
    <2> QED BY <2>1, <2>2, <2>3, <2>4 DEF Init, TypeOK
  <1>2. ASSUME NEW s \in Sessions PROVE Good(s)
    <2>1. /\ messages[s] = <<>> /\ lastCons[s] = 0 /\ disk[s].msgs = <<>> /\ disk[s].lc = 0
          /\ turn[s].phase = "idle" /\ lockq[s] = <<>> /\ call[s] = NoCall
      BY DEF Init, EmptyFile, Idle
    <2> QED BY <2>1 DEF Good, Numbered, NewIsLast, CallFacts, InlineFacts, Kept, Saved
  <1> QED BY <1>1, <1>2 DEF IInv

\* A step of one session is enough to show the invariant of all.
LEMMA LocalGood ==
  ASSUME \A r \in Sessions : Good(r), NEW s \in Sessions, Good(s)', Local(s)
  PROVE  \A r \in Sessions : Good(r)'
  <1> SUFFICES ASSUME NEW r \in Sessions PROVE Good(r)'
    OBVIOUS
  <1>1. CASE r = s
    BY <1>1
  <1>2. CASE r # s
    BY <1>2, SameGood DEF Local
  <1> QED BY <1>1, <1>2

\* Every step keeps the invariant, action by action.
LEMMA StepGood == IInv /\ [Next]_vars => IInv'
  <1> SUFFICES ASSUME IInv, [Next]_vars PROVE IInv'
    OBVIOUS
  <1>0. TypeOK /\ \A r \in Sessions : Good(r)
    BY DEF IInv
  <1>1. CASE Crash
    <2>1. /\ Restart(disk) /\ torn' = torn /\ torn' \in BOOLEAN
          /\ disk \in [Sessions -> Files]
      BY <1>0, <1>1 DEF Crash, TypeOK
    <2>2. TypeOK'
      BY <1>0, <2>1, RestartType
    <2>3. \A s \in Sessions : Good(s)'
      BY <1>0, <2>1, RestartGood
    <2> QED BY <2>2, <2>3 DEF IInv
  <1>2. ASSUME NEW s \in Sessions, StartTurn(s) PROVE IInv'
    BY <1>0, <1>2, StartTurnType, StartTurnGood, LocalGood DEF IInv
  <1>3. ASSUME NEW s \in Sessions, StartSystemTurn(s) PROVE IInv'
    BY <1>0, <1>3, StartSystemTurnType, StartSystemTurnGood, LocalGood DEF IInv
  <1>4. ASSUME NEW s \in Sessions, AbortTurn(s) PROVE IInv'
    BY <1>0, <1>4, AbortTurnType, AbortTurnGood, LocalGood DEF IInv
  <1>5. ASSUME NEW s \in Sessions, NEW reply \in Replies(turn[s].id), FinishTurn(s, reply)
        PROVE  IInv'
    <2>1. Good(s) /\ Numbered(s)
      BY <1>0 DEF Good
    <2> QED BY <1>0, <1>5, <2>1, FinishTurnType, FinishTurnGood, LocalGood DEF IInv
  <1>6. ASSUME NEW s \in Sessions, NEW reply \in Replies(turn[s].id), CrashInSave(s, reply)
        PROVE  IInv'
    <2>1. Numbered(s)
      BY <1>0 DEF Good
    <2>2. TypeOK'
      BY <1>0, <1>6, <2>1, CrashInSaveType
    <2>3. PICK d : Restart(d)
      BY <1>6 DEF CrashInSave
    <2>4. d \in [Sessions -> Files]
      BY <2>2, <2>3 DEF Restart, TypeOK
    <2>5. torn' = TRUE
      BY <1>6 DEF CrashInSave
    <2>6. \A r \in Sessions : Good(r)'
      BY <1>0, <2>3, <2>4, <2>5, RestartGood
    <2> QED BY <2>2, <2>6 DEF IInv
  <1>7. ASSUME NEW s \in Sessions, NEW ok \in BOOLEAN, InlineDone(s, ok) PROVE IInv'
    <2>1. InlineFacts(s)
      BY <1>0 DEF Good
    <2> QED BY <1>0, <1>7, <2>1, InlineDoneType, InlineDoneGood, LocalGood DEF IInv
  <1>8. ASSUME NEW s \in Sessions, NEW ok \in BOOLEAN, BackgroundDone(s, ok) PROVE IInv'
    <2>1. CallFacts(s)
      BY <1>0 DEF Good
    <2> QED BY <1>0, <1>8, <2>1, BackgroundDoneType, BackgroundDoneGood, LocalGood DEF IInv
  <1>9. ASSUME NEW s \in Sessions, NEW ok \in BOOLEAN, NewDone(s, ok) PROVE IInv'
    BY <1>0, <1>9, NewDoneType, NewDoneGood, LocalGood DEF IInv
  <1>10. ASSUME NEW s \in Sessions, BackgroundLocked(s) PROVE IInv'
    BY <1>0, <1>10, BackgroundLockedType, BackgroundLockedGood, LocalGood DEF IInv
  <1>11. ASSUME NEW s \in Sessions, StartNew(s) PROVE IInv'
    BY <1>0, <1>11, StartNewType, StartNewGood, LocalGood DEF IInv
  <1>12. ASSUME NEW s \in Sessions, NewLocked(s) PROVE IInv'
    BY <1>0, <1>12, NewLockedType, NewLockedGood, LocalGood DEF IInv
  <1>13. ASSUME NEW s \in Sessions, CancelNew(s) PROVE IInv'
    <2>1. NewIsLast(s)
      BY <1>0 DEF Good
    <2> QED BY <1>0, <1>13, <2>1, CancelNewType, CancelNewGood, LocalGood DEF IInv
  <1>14. CASE UNCHANGED vars
    <2>1. TypeOK'
      BY <1>0, <1>14 DEF vars, TypeOK
    <2>2. ASSUME NEW r \in Sessions PROVE Good(r)'
      BY <1>0, <1>14, SameGood DEF vars, Same
    <2> QED BY <2>1, <2>2 DEF IInv
  <1> QED
    BY <1>1, <1>2, <1>3, <1>4, <1>5, <1>6, <1>7, <1>8, <1>9, <1>10, <1>11, <1>12, <1>13, <1>14
    DEF Next

\* The invariant holds at all times.
LEMMA Invariance == Spec => []IInv
  BY InitGood, StepGood, PTL DEF Spec

\* Sessions, files, turns and locks are well-formed at all times: in particular
\* the consolidation offset, which MemoryStore.consolidate computes by a
\* subtraction, is never negative.
THEOREM TypeCorrect == Spec => []TypeOK
<1>1. IInv => TypeOK
  BY DEF IInv
<1> QED BY <1>1, Invariance, PTL

\* The last Keep messages of a session are never marked as consolidated, and
\* the file has every message of the session, as long as no crash has hit the
\* middle of a save (MemoryStore.consolidate, SessionManager.save).
THEOREM RecentAndDurable == Spec => [](RecentKept /\ Durable)
<1>1. IInv => RecentKept /\ Durable
  BY DEF IInv, Good, Kept, Saved, Room, RecentKept, Durable
<1> QED BY <1>1, Invariance, PTL

\* Outside /new and restarts the consolidation offset never goes back, although
\* the background task and the inline call overlap and each sets it from what
\* it finds when the LLM answers.
THEOREM OffsetNeverBack == Spec => OffsetGrows
<1> DEFINE A == \A s \in Sessions :
                  (messages'[s] # <<>> /\ crashes' = crashes) => lastCons[s] <= lastCons'[s]
<1>1. IInv /\ [Next]_vars => [A]_vars
  <2> SUFFICES ASSUME IInv, Next, NEW r \in Sessions,
                      messages'[r] # <<>>, crashes' = crashes
               PROVE  lastCons[r] <= lastCons'[r]
    OBVIOUS
  <2>0. /\ TypeOK /\ \A s \in Sessions : Good(s)
        /\ lastCons[r] \in Nat /\ crashes \in Nat
    BY SessionAssumption DEF IInv, TypeOK
  <2>1. \A d : ~Restart(d)
    BY <2>0 DEF Restart
  <2>2. \A s \in Sessions : Local(s) /\ s # r => lastCons'[r] = lastCons[r]
    BY DEF Local, Same
  <2>3. ASSUME NEW s \in Sessions,
               \/ StartTurn(s) \/ StartSystemTurn(s) \/ AbortTurn(s) \/ BackgroundLocked(s)
               \/ StartNew(s) \/ CancelNew(s)
               \/ \E reply \in Replies(turn[s].id) : FinishTurn(s, reply)
        PROVE  lastCons[r] <= lastCons'[r]
    <3>1. lastCons' = lastCons
      BY <2>3 DEF StartTurn, StartSystemTurn, AbortTurn, BackgroundLocked, StartNew,
                  CancelNew, FinishTurn
    <3> QED BY <2>0, <3>1
  <2>4. ASSUME NEW s \in Sessions, NEW ok \in BOOLEAN,
               InlineDone(s, ok) \/ BackgroundDone(s, ok)
        PROVE  lastCons[r] <= lastCons'[r]
    <3>1. Local(s) /\ lastCons[s] <= lastCons'[s]
      BY <2>0, <2>4, InlineDoneGood, BackgroundDoneGood
    <3> QED BY <2>0, <2>2, <3>1
  <2>5. ASSUME NEW s \in Sessions, NewLocked(s) \/ \E ok \in BOOLEAN : NewDone(s, ok)
        PROVE  lastCons[r] <= lastCons'[r]
    <3>1. Local(s)
      BY <2>0, <2>5, NewLockedGood, NewDoneGood
    <3>2. UNCHANGED <<messages, lastCons>> \/ messages'[s] = <<>>
      BY <2>0, <2>5 DEF NewLocked, NewDone, Clear, TypeOK
    <3> QED BY <2>0, <2>2, <3>1, <3>2
  <2>6. ~Crash /\ \A s \in Sessions : \A reply : ~CrashInSave(s, reply)
    BY <2>1 DEF Crash, CrashInSave
  <2> QED BY <2>3, <2>4, <2>5, <2>6 DEF Next
<1> HIDE DEF A
<1>2. Spec => [][A]_vars
  BY <1>1, Invariance, PTL DEF Spec
<1> QED BY <1>2 DEF A, OffsetGrows

\* /new discards no unconsolidated message that is not in HISTORY.md, although
\* it archives a copy it took before an LLM call and clears what is there after
\* it.
THEOREM NewDiscardsArchivedOnly == Spec => NewArchivesFirst
<1> DEFINE A == \A s \in Sessions :
                  (messages[s] # <<>> /\ messages'[s] = <<>> /\ crashes' = crashes)
                     => Elems(From(messages[s], lastCons[s])) \subseteq archived'
<1>1. IInv /\ [Next]_vars => [A]_vars
  <2> SUFFICES ASSUME IInv, Next, NEW r \in Sessions,
                      messages[r] # <<>>, messages'[r] = <<>>, crashes' = crashes
               PROVE  Elems(From(messages[r], lastCons[r])) \subseteq archived'
    OBVIOUS
  <2>0. /\ TypeOK /\ \A s \in Sessions : Good(s)
        /\ crashes \in Nat /\ messages[r] \in Seq(Msgs)
    BY SessionAssumption DEF IInv, TypeOK
  <2>1. \A d : ~Restart(d)
    BY <2>0 DEF Restart
  <2>2. \A s \in Sessions : Local(s) => s = r
    BY DEF Local, Same
  <2>3. ~(messages' = messages)
    OBVIOUS
  <2>4. ASSUME NEW s \in Sessions, NEW reply \in Replies(turn[s].id), FinishTurn(s, reply)
        PROVE  FALSE
    <3>1. Local(s) /\ Len(messages[s]) <= Len(messages'[s])
      BY <2>0, <2>4, FinishTurnGood
    <3>2. Len(messages[r]) <= 0
      BY <2>2, <3>1
    <3> QED BY <2>0, <3>2
  <2>5. ASSUME NEW s \in Sessions, NewLocked(s)
        PROVE  Elems(From(messages[r], lastCons[r])) \subseteq archived'
    <3>1. s = r
      BY <2>0, <2>2, <2>5, NewLockedGood
    <3> QED BY <2>3, <2>5, <3>1 DEF NewLocked
  <2>6. ASSUME NEW s \in Sessions, NEW ok \in BOOLEAN, NewDone(s, ok)
        PROVE  Elems(From(messages[r], lastCons[r])) \subseteq archived'
    <3>1. s = r
      BY <2>0, <2>2, <2>6, NewDoneGood
    <3>2. ok /\ Archive(call[s]) /\ call[s] # NoCall /\ Holds(s, "new")
      BY <2>3, <2>6 DEF NewDone
    <3>3. call[s].old = Elems(From(messages[s], lastCons[s]))
      BY <2>0, <3>2 DEF Good, CallFacts, Holds, TypeOK
    <3> QED BY <3>1, <3>2, <3>3 DEF Archive
  <2>7. ASSUME NEW s \in Sessions,
               \/ StartTurn(s) \/ StartSystemTurn(s) \/ AbortTurn(s) \/ BackgroundLocked(s)
               \/ StartNew(s) \/ CancelNew(s)
               \/ \E ok \in BOOLEAN : InlineDone(s, ok) \/ BackgroundDone(s, ok)
        PROVE  FALSE
    BY <2>3, <2>7 DEF StartTurn, StartSystemTurn, AbortTurn, BackgroundLocked, StartNew,
                      CancelNew, InlineDone, BackgroundDone
  <2>8. ~Crash /\ \A s \in Sessions : \A reply : ~CrashInSave(s, reply)
    BY <2>1 DEF Crash, CrashInSave
  <2> QED BY <2>4, <2>5, <2>6, <2>7, <2>8 DEF Next
<1> HIDE DEF A
<1>2. Spec => [][A]_vars
  BY <1>1, Invariance, PTL DEF Spec
<1> QED BY <1>2 DEF A, NewArchivesFirst

================================================================================
