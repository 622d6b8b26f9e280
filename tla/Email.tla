------------------------------- MODULE Email --------------------------------
(***************************************************************************)
(* channels/email.py: a loop polls IMAP in a thread (one step here per     *)
(* mail the thread handles), hands the fetched mails to the bus, and       *)
(* sleeps; send answers by SMTP.  A fetch that raises discards the mails   *)
(* it had already marked; a crash forgets the processed uids.              *)
(***************************************************************************)
EXTENDS Naturals, Sequences, FiniteSets

CONSTANTS
    Mails,       \* mails, each of a sender of its own
    MaxUids,     \* _MAX_PROCESSED_UIDS
    MaxGot,      \* bound: how far the hand-overs of a mail are counted
    MaxErrors,   \* bound: requests that raise
    MaxCrashes   \* bound: crashes and restarts

\* A second hand-over of a mail is counted.
ASSUME EmAssumption == IsFiniteSet(Mails) /\ MaxUids \in Nat /\ MaxGot \in Nat /\ MaxGot >= 2

VARIABLES
    emState,     \* "off", "sleep", "fetch" (the thread works), "hand" (items are handed over), "ended"
    emRunning,   \* _running
    emMark,      \* mark_seen
    emAuto,      \* auto_reply_enabled
    emTitled,    \* mails with a subject
    emBox,       \* mails in the mailbox
    emSeen,      \* mails with the \Seen flag
    emFound,     \* mails of the search result the thread has not handled
    emUids,      \* _processed_uids
    emItems,     \* the list _fetch_messages builds, then what start still has to hand over
    emSubjects,  \* senders in _last_subject_by_chat
    \* History.
    emGot,       \* emGot[m]: how often m was handed to the bus
    emReplies,   \* unforced answers sent
    emErrors, emEvicted, emCrashes

emConf == <<emMark, emAuto, emTitled>>
emHist == <<emErrors, emEvicted, emCrashes>>
emVars == <<emState, emRunning, emConf, emBox, emSeen, emFound, emUids, emItems, emSubjects, emGot, emReplies, emHist>>

EmInit ==
    /\ emState = "off" /\ emRunning = FALSE
    /\ emMark \in BOOLEAN /\ emAuto \in BOOLEAN /\ emTitled \in {Mails, {}}
    /\ emBox = {} /\ emSeen = {} /\ emFound = {} /\ emUids = {} /\ emItems = <<>> /\ emSubjects = {}
    /\ emGot = [m \in Mails |-> 0] /\ emReplies = {}
    /\ emErrors = 0 /\ emEvicted = FALSE /\ emCrashes = 0

EmStart ==
    /\ emState = "off" /\ emState' = "sleep" /\ emRunning' = TRUE
    /\ UNCHANGED <<emConf, emBox, emSeen, emFound, emUids, emItems, emSubjects, emGot, emReplies, emHist>>

MailArrives(m) ==
    /\ m \notin emBox /\ emBox' = emBox \union {m}
    /\ UNCHANGED <<emState, emRunning, emConf, emSeen, emFound, emUids, emItems, emSubjects, emGot, emReplies, emHist>>

\* A pass of the loop: login, select and the search for UNSEEN mails.
Poll ==
    /\ emState = "sleep" /\ emRunning
    /\ emState' = "fetch" /\ emFound' = emBox \ emSeen /\ emItems' = <<>>
    /\ UNCHANGED <<emRunning, emConf, emBox, emSeen, emUids, emSubjects, emGot, emReplies, emHist>>

\* Mutant: over the limit only one uid is to go, and the test is off by one.
EvictedLate(S) == IF Cardinality(S) <= MaxUids + 1 THEN {S} ELSE {S \ {x} : x \in S}

\* Over the limit, half of the uids (in no order) is forgotten.
Evicted(S) ==
    IF Cardinality(S) <= MaxUids THEN {S}
    ELSE {T \in SUBSET S : Cardinality(T) = Cardinality(S) - Cardinality(S) \div 2}

AddUid(m) ==
    /\ emUids' \in Evicted(emUids \union {m})
    /\ emEvicted' = (emEvicted \/ Cardinality(emUids \union {m}) > MaxUids)

\* Mutant: the flag is never set.
MarkedNever(m) == emSeen

\* Mutant: the flag is set for the whole search result at once.
MarkedAtOnce(m) == IF emMark THEN emSeen \union emFound ELSE emSeen

\* client.store(imap_id, "+FLAGS", "\\Seen").
Marked(m) == IF emMark THEN emSeen \union {m} ELSE emSeen

\* dedupe and uid in _processed_uids.
Skipped(m) == m \in emUids

\* The thread handles one mail of the search result.
FetchOne(m) ==
    /\ emState = "fetch" /\ m \in emFound /\ emFound' = emFound \ {m}
    /\ IF Skipped(m)
          THEN UNCHANGED <<emItems, emUids, emSeen, emEvicted>>
          ELSE /\ emItems' = Append(emItems, m)
               /\ AddUid(m)
               /\ emSeen' = Marked(m)
    /\ UNCHANGED <<emState, emRunning, emConf, emBox, emSubjects, emGot, emReplies, emErrors, emCrashes>>

\* A request of the thread raises, before or after the uid was recorded: what
\* was fetched so far is discarded with the list.
FetchRaises ==
    /\ emState = "fetch" /\ emErrors < MaxErrors
    /\ emErrors' = emErrors + 1
    /\ emState' = "sleep" /\ emItems' = <<>> /\ emFound' = {}
    /\ \/ UNCHANGED <<emUids, emEvicted>>
       \/ \E m \in emFound \ emUids : AddUid(m)
    /\ UNCHANGED <<emRunning, emConf, emBox, emSeen, emSubjects, emGot, emReplies, emCrashes>>

\* Mutant: the thread returns after the first mail, and the next poll begins.
FetchedFirst == Cardinality(emFound) <= 1

Fetched == emFound = {}

FetchReturns ==
    /\ emState = "fetch" /\ Fetched /\ emState' = "hand"
    /\ UNCHANGED <<emRunning, emConf, emBox, emSeen, emFound, emUids, emItems, emSubjects, emGot, emReplies, emHist>>

\* Mutant: the subject is recorded after the mail was handed over.
RecordedLate(m) == emSubjects \union {x \in emTitled : emGot[x] > 0}

\* The sender's last subject is recorded before the mail is handed over.
Recorded(m) == IF m \in emTitled THEN emSubjects \union {m} ELSE emSubjects

HandOver ==
    /\ emState = "hand" /\ emItems # <<>>
    /\ LET m == Head(emItems) IN
          /\ emSubjects' = Recorded(m)
          /\ emGot' = [emGot EXCEPT ![m] = IF @ < MaxGot THEN @ + 1 ELSE @]
    /\ emItems' = Tail(emItems)
    /\ UNCHANGED <<emState, emRunning, emConf, emBox, emSeen, emFound, emUids, emReplies, emHist>>

\* The batch is handed over; after the sleep the loop tests _running.
HandedOver ==
    /\ emState = "hand" /\ emItems = <<>>
    /\ emState' = IF emRunning THEN "sleep" ELSE "ended"
    /\ UNCHANGED <<emRunning, emConf, emBox, emSeen, emFound, emUids, emItems, emSubjects, emGot, emReplies, emHist>>

SleepEnds ==
    /\ emState = "sleep" /\ ~emRunning /\ emState' = "ended"
    /\ UNCHANGED <<emRunning, emConf, emBox, emSeen, emFound, emUids, emItems, emSubjects, emGot, emReplies, emHist>>

\* send: an answer to somebody who wrote goes out only if auto replies are
\* enabled; SMTP may fail.
Answer(m) ==
    /\ emGot[m] > 0 /\ m \notin emReplies
    /\ m \in emSubjects => emAuto
    /\ emReplies' = emReplies \union {m}
    /\ UNCHANGED <<emState, emRunning, emConf, emBox, emSeen, emFound, emUids, emItems, emSubjects, emGot, emHist>>

EmStop ==
    /\ emRunning /\ emRunning' = FALSE
    /\ UNCHANGED <<emState, emConf, emBox, emSeen, emFound, emUids, emItems, emSubjects, emGot, emReplies, emHist>>

\* The process ends and is started again: nothing but the mailbox persists.
EmCrash ==
    /\ emState \notin {"off", "ended"} /\ emCrashes < MaxCrashes
    /\ emCrashes' = emCrashes + 1
    /\ emState' = "off" /\ emRunning' = FALSE
    /\ emFound' = {} /\ emUids' = {} /\ emItems' = <<>> /\ emSubjects' = {}
    /\ UNCHANGED <<emConf, emBox, emSeen, emGot, emReplies, emErrors, emEvicted>>

EmNext ==
    \/ EmStart \/ Poll \/ FetchRaises \/ FetchReturns \/ HandOver \/ HandedOver \/ SleepEnds \/ EmStop \/ EmCrash
    \/ \E m \in Mails : MailArrives(m) \/ FetchOne(m) \/ Answer(m)

\* The loop's thread and its sleeps end.
EmFair(k) ==
    \/ k = 1 /\ Poll
    \/ k = 2 /\ (\E m \in Mails : FetchOne(m))
    \/ k = 3 /\ FetchReturns
    \/ k = 4 /\ HandOver
    \/ k = 5 /\ HandedOver
    \/ k = 6 /\ SleepEnds
EmFairness == \A k \in 1 .. 6 : WF_emVars(EmFair(k))

EmSpec == EmInit /\ [][EmNext]_emVars /\ EmFairness

-----------------------------------------------------------------------------
(* Properties *)

EmTypeOK ==
    /\ emState \in {"off", "sleep", "fetch", "hand", "ended"}
    /\ emSeen \subseteq emBox /\ emFound \subseteq emBox /\ emSubjects \subseteq emTitled
    /\ emItems \in Seq(Mails) /\ Cardinality(emUids) <= MaxUids

\* A mail is handed to the agent at most once: with mark_seen also across
\* restarts and when uids are evicted ("mark_seen is the primary dedup"),
\* without it as long as the set of uids is complete.
MailOnce ==
    (emMark \/ (emCrashes = 0 /\ ~emEvicted)) => \A m \in Mails : emGot[m] <= 1

\* Without a failure or a restart no mail is lost: one that is marked as seen
\* has been handed over or is about to be.
SeenIsHandedOver ==
    (emErrors = 0 /\ emCrashes = 0) =>
        \A m \in emSeen : emGot[m] > 0 \/ m \in {emItems[i] : i \in DOMAIN emItems}

\* With auto replies off, an answer to a mail that has a subject is never sent
\* unless it is forced, whenever the agent answers.  (A mail without a subject
\* is not remembered, so it is answered.)
NoAutoReply ==
    (~emAuto /\ emCrashes = 0) => emReplies \cap emTitled = {}

\* Every mail reaches the agent, unless a fetch fails, the process crashes or
\* the channel is stopped first.
MailDelivered ==
    \A m \in Mails :
        []<>((emRunning /\ m \in emBox) => (emGot[m] > 0 \/ emErrors > 0 \/ emCrashes > 0))

=============================================================================
