------------------------------- MODULE Memory -------------------------------
(***************************************************************************)
(* What the agent can look up: its conversations and its documents.        *)
(***************************************************************************)
EXTENDS FiniteSets, Integers, Sequences

-----------------------------------------------------------------------------
(***************************************************************************)
(* What the agent remembers of its conversations: the turns in SQLite with *)
(* their full-text index (memory/session_db.py), the buffers and the       *)
(* recall of memory/manager.py, and the vector store, BM25 list and hashes *)
(* of HybridRetriever (memory/rag_pipeline.py). Sessions are indexed at    *)
(* once, by a thread, in batches or when they are flushed. A turn and the  *)
(* document made from it have the same number.                             *)
(***************************************************************************)
CONSTANTS
    MsSessions, MsOrgs,
    MsBatch,            \* write_frequency when it is a number
    MsMaxTurns,         \* bound: turns added
    MsMaxFaults,        \* bound: failing stores and lost updates
    MsMaxCrashes,       \* bound: restarts of the process
    MsMaxDeletes        \* bound: deletions and updates

ASSUME MsAssumption ==
    /\ MsBatch \in Nat /\ MsMaxTurns \in Nat /\ MsMaxFaults \in Nat /\ MsMaxCrashes \in Nat /\ MsMaxDeletes \in Nat
    /\ "none" \notin MsSessions

VARIABLES
    msFreq,             \* "off", or write_frequency: "turn", "async", "session", "batch"
    msOf,               \* number -> [session, org] the turn was added with
    msTurns,            \* session_turns: number -> [index, text]; index 0: not there
    msLast,             \* last rowid
    msFts,              \* session_turns_fts: number -> text; 0: not there
    msBuffer,           \* turn_buffers: session -> documents
    msTasks,            \* ingests that run in a thread: document -> "none", "vector", "bm25"
    msHashes, msVector, msBm25, msDisk,
    msFaults, msCrashes, msDeletes,
    msForgotten         \* history: documents of sessions that were deleted, with no ingest of theirs under way

msVars == <<msFreq, msOf, msTurns, msLast, msFts, msBuffer, msTasks, msHashes, msVector, msBm25, msDisk, msFaults, msCrashes, msDeletes, msForgotten>>
msIndex == <<msHashes, msVector, msBm25, msDisk>>
msCounts == <<msCrashes, msDeletes>>

MsIds == 1 .. MsMaxTurns
MsInit ==
    /\ msFreq = "off" /\ msOf = [i \in MsIds |-> [session |-> "none", org |-> "none"]]
    /\ msTurns = [i \in MsIds |-> [index |-> 0, text |-> 0]] /\ msLast = 0 /\ msFts = [i \in MsIds |-> 0]
    /\ msBuffer = [s \in MsSessions |-> {}] /\ msTasks = [i \in MsIds |-> "none"]
    /\ msHashes = {} /\ msVector = {} /\ msBm25 = {} /\ msDisk = {}
    /\ msFaults = 0 /\ msCrashes = 0 /\ msDeletes = 0 /\ msForgotten = {}
MsStart(f) ==
    /\ msFreq = "off" /\ msFreq' = f
    /\ UNCHANGED <<msOf, msTurns, msLast, msFts, msBuffer, msTasks, msIndex, msFaults, msCounts, msForgotten>>

MsStored(i) == msTurns[i].index > 0
MsOfSession(s) == {i \in MsIds : MsStored(i) /\ msOf[i].session = s}
MsFault(f) == IF f = "none" THEN UNCHANGED msFaults ELSE msFaults < MsMaxFaults /\ msFaults' = msFaults + 1

---------------------------------------------------------------------------
\* ingest: documents with a known hash are skipped; the hash is kept although the vector store then fails.
MsNew(docs) == docs \ msHashes
MsIngest(docs, fault) ==
    LET new == MsNew(docs)
    IN /\ MsFault(fault) /\ fault \in {"none", "vector", "disk"}
       /\ msHashes' = msHashes \cup new
       /\ msVector' = IF fault = "vector" THEN msVector ELSE msVector \cup new
       /\ msBm25' = IF fault = "vector" THEN msBm25 ELSE msBm25 \cup new
       /\ msDisk' = IF fault = "none" /\ new # {} THEN msBm25' ELSE msDisk

\* SessionDB.add_turn: the next index of the session, and the insert trigger.
MsNextIndex(s) ==
    LET used == {msTurns[i].index : i \in MsOfSession(s)}
    IN IF used = {} THEN 1 ELSE 1 + CHOOSE n \in used : \A m \in used : m <= n
MsInsert(s, o) ==
    /\ msLast < MsMaxTurns /\ msLast' = msLast + 1
    /\ msOf' = [msOf EXCEPT ![msLast'] = [session |-> s, org |-> o]]
    /\ msTurns' = [msTurns EXCEPT ![msLast'] = [index |-> MsNextIndex(s), text |-> 1]]
    /\ msFts' = [msFts EXCEPT ![msLast'] = 1]

\* MemoryManager.add_turn: written to SQLite first, then indexed as write_frequency says.
MsFull(s) == msFreq = "batch" /\ Cardinality(msBuffer[s]) + 1 >= MsBatch
MsBuffered(s, i) == [msBuffer EXCEPT ![s] = @ \cup {i}]
MsFlushedLast(s, i) == {i}
MsFlushed(s, i) == msBuffer[s] \cup {i}
MsAddTurn(s, o, fault) ==
    /\ msFreq # "off" /\ MsInsert(s, o)
    /\ CASE msFreq = "turn" -> MsIngest({msLast'}, fault) /\ UNCHANGED <<msBuffer, msTasks>>
         [] msFreq = "async" -> fault = "none" /\ msTasks' = [msTasks EXCEPT ![msLast'] = "vector"] /\ UNCHANGED <<msBuffer, msIndex, msFaults>>
         [] MsFull(s) -> MsIngest(MsFlushed(s, msLast'), fault) /\ msBuffer' = [msBuffer EXCEPT ![s] = {}] /\ UNCHANGED msTasks
         [] OTHER -> fault = "none" /\ msBuffer' = MsBuffered(s, msLast') /\ UNCHANGED <<msTasks, msIndex, msFaults>>
    /\ UNCHANGED <<msFreq, msCounts, msForgotten>>

\* flush takes the buffer away before it ingests.
MsFlush(s, fault) ==
    /\ msBuffer[s] # {} /\ MsIngest(msBuffer[s], fault) /\ msBuffer' = [msBuffer EXCEPT ![s] = {}]
    /\ UNCHANGED <<msFreq, msOf, msTurns, msLast, msFts, msTasks, msCounts, msForgotten>>

\* The thread of an ingest: hash and vector store, then the BM25 list and its file.
MsThreadVector(i, fault) ==
    /\ msTasks[i] = "vector" /\ MsFault(fault) /\ fault \in {"none", "vector"} /\ msHashes' = msHashes \cup {i}
    /\ msVector' = (IF fault = "none" THEN msVector \cup {i} ELSE msVector)
    /\ msTasks' = [msTasks EXCEPT ![i] = IF fault = "none" THEN "bm25" ELSE "none"]
    /\ UNCHANGED <<msFreq, msOf, msTurns, msLast, msFts, msBuffer, msBm25, msDisk, msCounts, msForgotten>>
MsThreadBm25(i, fault) ==
    /\ msTasks[i] = "bm25" /\ MsFault(fault) /\ fault \in {"none", "disk"} /\ msBm25' = msBm25 \cup {i}
    /\ msDisk' = (IF fault = "none" THEN msBm25' ELSE msDisk) /\ msTasks' = [msTasks EXCEPT ![i] = "none"]
    /\ UNCHANGED <<msFreq, msOf, msTurns, msLast, msFts, msBuffer, msHashes, msVector, msCounts, msForgotten>>

---------------------------------------------------------------------------
MsChange == msFreq # "off" /\ msDeletes < MsMaxDeletes /\ msDeletes' = msDeletes + 1 /\ UNCHANGED <<msFreq, msOf, msLast, msCrashes>>
MsGone(ids) == msTurns' = [i \in MsIds |-> IF i \in ids THEN [index |-> 0, text |-> 0] ELSE msTurns[i]]

\* The triggers after_turn_delete and after_turn_update.
MsUnindexed(ids) == msFts' = [i \in MsIds |-> IF i \in ids THEN 0 ELSE msFts[i]]
MsReindexedNever(i) == UNCHANGED msFts
MsReindexed(i) == msFts' = [msFts EXCEPT ![i] = 2]

MsDeleteTurn(i) ==
    /\ MsChange /\ MsStored(i) /\ MsGone({i}) /\ MsUnindexed({i})
    /\ UNCHANGED <<msBuffer, msTasks, msIndex, msFaults, msForgotten>>
MsUpdateTurn(i) ==
    /\ MsChange /\ MsStored(i) /\ msTurns' = [msTurns EXCEPT ![i].text = 2] /\ MsReindexed(i)
    /\ UNCHANGED <<msBuffer, msTasks, msIndex, msFaults, msForgotten>>
MsPurge ==
    /\ MsChange /\ MsGone(MsIds) /\ MsUnindexed(MsIds)
    /\ UNCHANGED <<msBuffer, msTasks, msIndex, msFaults, msForgotten>>

\* delete_session: the buffer, the turns of every organisation, and the documents of the given one (of all if
\* none is given). The vector store's failure is swallowed. A thread that appends to the BM25 list while it is
\* being replaced loses its document there (lost).
MsHit(s, o) == {i \in msBm25 : msOf[i].session = s /\ (o = "none" \/ msOf[i].org = o)}
MsHashesKept(hit) == msHashes
MsHashesLeft(hit) == msHashes \ hit
MsBufferKept(s) == msBuffer
MsBufferDropped(s) == [msBuffer EXCEPT ![s] = {}]
MsDeleteSession(s, o, fault, lost) ==
    LET hit == MsHit(s, o)
        gone == {i \in MsIds : msOf[i].session = s /\ (o = "none" \/ msOf[i].org = o) /\ msTasks[i] = "none"}
    IN /\ MsChange /\ MsGone(MsOfSession(s)) /\ MsUnindexed(MsOfSession(s)) /\ msBuffer' = MsBufferDropped(s)
       /\ MsFault(IF lost = {} THEN fault ELSE "race") /\ (lost # {} => (fault = "none" /\ hit # {} /\ \A i \in lost : msTasks[i] = "bm25"))
       /\ msHashes' = MsHashesLeft(hit) /\ msBm25' = msBm25 \ hit
       /\ msVector' = IF fault = "vector" THEN msVector ELSE msVector \ hit
       /\ msDisk' = IF fault = "disk" \/ hit = {} THEN msDisk ELSE msBm25'
       /\ msTasks' = [i \in MsIds |-> IF i \in lost THEN "none" ELSE msTasks[i]]
       /\ msForgotten' = msForgotten \cup gone

\* A restart: the buffers and threads are gone, the BM25 list and the hashes are read from the file.
MsRestart ==
    /\ msFreq # "off" /\ msCrashes < MsMaxCrashes /\ msCrashes' = msCrashes + 1
    /\ msBuffer' = [s \in MsSessions |-> {}] /\ msTasks' = [i \in MsIds |-> "none"] /\ msBm25' = msDisk /\ msHashes' = msDisk
    /\ UNCHANGED <<msFreq, msOf, msTurns, msLast, msFts, msVector, msDisk, msFaults, msDeletes, msForgotten>>

---------------------------------------------------------------------------
\* recall in hybrid mode for a session of an organisation: documents of the organisation and of the session, and
\* turns found by full text whose session or organisation fits (hierarchical: the conditions are joined by OR).
MsRagFound(s, o) == {i \in msBm25 \cup msVector : msOf[i].org = o /\ msOf[i].session = s}
MsFtsFound(s, o) == {i \in MsIds : MsStored(i) /\ msFts[i] > 0 /\ (msOf[i].session = s \/ msOf[i].org = o)}
MsRecall(s, o) == MsRagFound(s, o) \cup MsFtsFound(s, o)

MsFaultKinds == {"none", "vector", "disk"}
MsNext ==
    \/ \E f \in {"turn", "async", "session", "batch"} : MsStart(f)
    \/ \E s \in MsSessions, o \in MsOrgs, f \in MsFaultKinds : MsAddTurn(s, o, f)
    \/ \E s \in MsSessions, f \in MsFaultKinds : MsFlush(s, f)
    \/ \E i \in MsIds, f \in MsFaultKinds : MsThreadVector(i, f) \/ MsThreadBm25(i, f)
    \/ \E i \in MsIds : MsDeleteTurn(i) \/ MsUpdateTurn(i)
    \/ MsPurge \/ MsRestart
    \/ \E s \in MsSessions, o \in MsOrgs \cup {"none"}, f \in MsFaultKinds, l \in SUBSET MsIds : MsDeleteSession(s, o, f, l)
MsSpec == MsInit /\ [][MsNext]_msVars

---------------------------------------------------------------------------
\* search_turns finds a turn by the text it has now, and none that was deleted: the full-text table follows the
\* turns through the triggers of _init_db and the deletions of delete_session and purge_all_sessions.
MsFullTextInStep == \A i \in MsIds : msFts[i] = msTurns[i].text

\* As long as no store failed, a document is known to all of the hashes, the BM25 list, its file and the vector
\* store or to none of them, except while a thread is between two of them and after a restart that stopped it
\* there (ingest, _delete_matching, _load_bm25_index).
MsStoresAgree ==
    (msFaults = 0 /\ (msFreq # "async" \/ msCrashes = 0)) =>
    \A i \in MsIds : msTasks[i] # "bm25" => (Cardinality({x \in {1, 2, 3, 4} : i \in <<msHashes, msVector, msBm25, msDisk>>[x]}) \in {0, 4})

\* As long as nothing failed, every turn in the database can be found in the index or is waiting to be put there;
\* turns that wait in a buffer or a thread are the only ones a restart loses (add_turn, flush).
MsNoTurnUnindexed ==
    (msFaults = 0 /\ (msFreq = "turn" \/ msCrashes = 0)) =>
    \A i \in MsIds : MsStored(i) => (i \in msBm25 \/ i \in msBuffer[msOf[i].session] \/ msTasks[i] # "none")

\* As long as no store failed, what belonged to a deleted session is in no store or buffer, and no flush, batch or
\* restart brings it back (delete_session).
MsForgottenForGood ==
    (msFaults = 0 /\ (msFreq # "async" \/ msCrashes = 0)) => \A i \in msForgotten :
        /\ i \notin msBm25 \cup msVector \cup msDisk \cup UNION {msBuffer[s] : s \in MsSessions}
        /\ ~MsStored(i)

\* "Invariant tenant isolation": what recall returns for an organisation belongs to it.
MsRecallScoped == \A s \in MsSessions, o \in MsOrgs, i \in MsIds : i \in MsRecall(s, o) => msOf[i].org = o

-----------------------------------------------------------------------------
(***************************************************************************)
(* How documents get into and out of the knowledge indexes, one part per   *)
(* mode: the sliding windows of TextChunker (rag/chunker.py, "chunk") and  *)
(* of DocumentIngestor._fallback_split (memory/rag_pipeline.py, "split"),  *)
(* the fusion of two rankings (rag/retriever.py, "fuse"), and the files of *)
(* the knowledge tools (agent/tools/personal_rag.py, "tool"), whose        *)
(* embedding is awaited between the reading and the writing.               *)
(***************************************************************************)
CONSTANTS
    KbMaxText,          \* bound: characters of a text
    KbMaxSize,          \* bound: chunk_size
    KbChunks,           \* chunks that are ranked
    KbCallers,          \* concurrent runs of knowledge_add
    KbMaxAdds           \* bound: runs of knowledge_add

ASSUME KbBoundAssumption == KbMaxText \in Nat /\ KbMaxSize \in Nat
\* Shares of a rank are exact for three ranks.
ASSUME KbChunksAssumption == IsFiniteSet(KbChunks) /\ Cardinality(KbChunks) <= 3

VARIABLES
    kbMode,             \* "off", "chunk", "split", "fuse" or "tool"
    kbText,             \* characters: "w" of a word, "s" blank, "p" separator
    kbSize, kbOver,     \* chunk_size, chunk_overlap
    kbPos,              \* pos or start, counted from 0
    kbOut,              \* chunks so far: [from, to), from 0
    kbDone,
    kbVec, kbKw,        \* rankings by vector and by keyword, the best first
    kbEntries,          \* knowledge_base.json: numbers of its entries
    kbRows,             \* knowledge_base.vectors.npy: the entry each row was made from
    kbRun,              \* caller -> [at, read]: "idle" or "embed", and the entries it has read
    kbAdds,
    kbMixed,            \* history: runs of knowledge_add overlapped
    kbCut               \* history: a crash between the two files

kbVars == <<kbMode, kbText, kbSize, kbOver, kbPos, kbOut, kbDone, kbVec, kbKw, kbEntries, kbRows, kbRun, kbAdds, kbMixed, kbCut>>
kbTextVars == <<kbText, kbSize, kbOver, kbPos, kbOut, kbDone>>
kbToolVars == <<kbEntries, kbRows, kbRun, kbAdds, kbMixed, kbCut>>

KbIdle == [at |-> "idle", read |-> <<>>]
KbInit ==
    /\ kbMode = "off" /\ kbText = <<>> /\ kbSize = 1 /\ kbOver = 0 /\ kbPos = 0 /\ kbOut = {} /\ kbDone = FALSE
    /\ kbVec = <<>> /\ kbKw = <<>>
    /\ kbEntries = <<>> /\ kbRows = <<>> /\ kbRun = [c \in KbCallers |-> KbIdle] /\ kbAdds = 0 /\ kbMixed = FALSE /\ kbCut = FALSE

KbTexts(chars) == UNION {[1 .. n -> chars] : n \in 1 .. KbMaxText}

\* The constructor of TextChunker refuses other sizes; ingest is called with its defaults or with such sizes.
KbSizes == {so \in (1 .. KbMaxSize) \X (0 .. KbMaxSize) : so[2] < so[1]}
KbRead(m, chars) ==
    /\ kbMode = "off" /\ kbMode' = m
    /\ kbText' \in KbTexts(chars) /\ \E so \in KbSizes : kbSize' = so[1] /\ kbOver' = so[2]
    /\ UNCHANGED <<kbPos, kbOut, kbDone, kbVec, kbKw, kbToolVars>>

KbMin(a, b) == IF a < b THEN a ELSE b
KbBigger(a, b) == IF a > b THEN a ELSE b
KbLast(ch, from, to) == LET at == {i \in from .. to - 1 : kbText[i + 1] = ch} IN IF at = {} THEN -1 ELSE CHOOSE i \in at : \A j \in at : j <= i

\* chunk_text: the window ends at the last separator or blank of its second part.
KbEnd ==
    LET end == KbMin(kbPos + kbSize, Len(kbText))
        para == KbLast("p", kbPos + kbOver, end)
        cut == IF para # -1 THEN para ELSE KbLast("s", kbPos + kbOver, end)
    IN IF end < Len(kbText) /\ cut > kbPos THEN cut ELSE end
KbBlank(from, to) == \A i \in from .. to - 1 : kbText[i + 1] # "w"
KbStepFixed(end) == kbSize - kbOver
KbStepAny(end) == (end - kbPos) - kbOver
KbStep(end) == KbBigger(1, (end - kbPos) - kbOver)
KbWindow ==
    /\ kbMode = "chunk" /\ ~kbDone /\ kbPos < Len(kbText)
    /\ LET end == KbEnd
       IN /\ kbOut' = IF KbBlank(kbPos, end) THEN kbOut ELSE kbOut \cup {<<kbPos, end>>}
          /\ kbDone' = (end >= Len(kbText)) /\ kbPos' = IF kbDone' THEN kbPos ELSE kbPos + KbStep(end)
    /\ UNCHANGED <<kbMode, kbText, kbSize, kbOver, kbVec, kbKw, kbToolVars>>

\* _fallback_split: windows of one size.
KbSplit ==
    /\ kbMode = "split" /\ ~kbDone /\ kbPos < Len(kbText)
    /\ kbOut' = kbOut \cup {<<kbPos, KbMin(kbPos + kbSize, Len(kbText))>>}
    /\ kbDone' = (kbPos + kbSize >= Len(kbText)) /\ kbPos' = IF kbDone' THEN kbPos ELSE kbPos + (kbSize - kbOver)
    /\ UNCHANGED <<kbMode, kbText, kbSize, kbOver, kbVec, kbKw, kbToolVars>>

---------------------------------------------------------------------------
\* search_vector and search_keyword rank any chunks in any order; retrieve_hybrid adds up the reciprocal ranks
\* with weights 0.6 and 0.4 (here: times 10 * 61 * 62 * 63, the denominators of the first three ranks).
KbRankings == UNION {{q \in [1 .. n -> KbChunks] : Cardinality({q[i] : i \in 1 .. n}) = n} : n \in 0 .. Cardinality(KbChunks)}
KbRank(q, c) == IF \E i \in DOMAIN q : q[i] = c THEN CHOOSE i \in DOMAIN q : q[i] = c ELSE 0
KbShareFlat(q, c) == IF KbRank(q, c) = 0 THEN 0 ELSE KbRank(q, c)
KbShare(q, c) == IF KbRank(q, c) = 0 THEN 0 ELSE (61 * 62 * 63) \div (60 + KbRank(q, c))
KbScore(c) == 6 * KbShare(kbVec, c) + 4 * KbShare(kbKw, c)
KbFuse ==
    /\ kbMode = "off" /\ kbMode' = "fuse" /\ kbVec' \in KbRankings /\ kbKw' \in KbRankings
    /\ UNCHANGED <<kbTextVars, kbToolVars>>

---------------------------------------------------------------------------
\* knowledge_add: reads the entries, awaits the embedding, appends, and writes both files.
KbTool == kbMode = "off" /\ kbMode' = "tool" /\ UNCHANGED <<kbTextVars, kbVec, kbKw, kbToolVars>>
KbAdd(c) ==
    /\ kbMode = "tool" /\ kbRun[c].at = "idle" /\ kbAdds < KbMaxAdds /\ kbAdds' = kbAdds + 1
    /\ kbRun' = [kbRun EXCEPT ![c] = [at |-> "embed", read |-> kbEntries]]
    /\ kbMixed' = (kbMixed \/ \E d \in KbCallers \ {c} : kbRun[d].at = "embed")
    /\ UNCHANGED <<kbMode, kbTextVars, kbVec, kbKw, kbEntries, kbRows, kbCut>>

\* The rows are read again after the await; a row of another dimension makes it embed all entries anew.
KbRowsAfter(n, entries, rebuild) == IF rebuild THEN entries ELSE Append(kbRows, n)
KbEntry(c) == 1 + Cardinality({kbEntries[i] : i \in DOMAIN kbEntries} \cup {kbRows[i] : i \in DOMAIN kbRows})
KbSave(c, rebuild, dies) ==
    /\ kbRun[c].at = "embed" /\ kbRun' = [kbRun EXCEPT ![c] = KbIdle] /\ (rebuild => kbRows # <<>>)
    /\ kbEntries' = Append(kbRun[c].read, KbEntry(c))
    /\ kbRows' = (IF dies THEN kbRows ELSE KbRowsAfter(KbEntry(c), kbEntries', rebuild)) /\ kbCut' = (kbCut \/ dies)
    /\ UNCHANGED <<kbMode, kbTextVars, kbVec, kbKw, kbAdds, kbMixed>>

\* knowledge_search uses the rows only if there are as many as entries; entry i is then scored by row i.
KbSemanticAny == kbRows # <<>>
KbSemantic == kbRows # <<>> /\ Len(kbRows) = Len(kbEntries)

KbNext ==
    \/ KbRead("chunk", {"w", "s", "p"}) \/ KbRead("split", {"w"}) \/ KbFuse \/ KbTool
    \/ KbWindow \/ KbSplit
    \/ \E c \in KbCallers : KbAdd(c) \/ \E r, d \in BOOLEAN : KbSave(c, r, d)
KbSpec == KbInit /\ [][KbNext]_kbVars

---------------------------------------------------------------------------
KbIn(i) == \E c \in kbOut : c[1] <= i /\ i < c[2]

\* When the loop is over, every character of a word is in some chunk, wherever the windows were cut and moved
\* (chunk_text, _fallback_split).
KbAllCovered == kbDone => \A i \in 0 .. Len(kbText) - 1 : kbText[i + 1] = "w" => KbIn(i)

\* Every turn of the loop ends it or moves the window forward, so that chunking ends for every text and every
\* size (the max(1, ...) of chunk_text).
KbMovesOn == [][(kbMode \in {"chunk", "split"}) => (kbDone' \/ (kbPos' > kbPos))]_kbVars

\* A chunk that both rankings put before another one is before it in the fused ranking (retrieve_hybrid).
KbFusionFair ==
    kbMode = "fuse" => \A c, d \in KbChunks :
        LET ahead(q) == KbRank(q, c) > 0 /\ (KbRank(q, d) = 0 \/ KbRank(q, c) < KbRank(q, d))
        IN (ahead(kbVec) /\ ahead(kbKw)) => KbScore(c) > KbScore(d)

\* As long as runs of knowledge_add do not overlap, a search that uses the vectors scores every entry by its own
\* row, also after a crash between the two files and a rebuild (knowledge_search compares only the lengths).
KbOwnRow == (kbMode = "tool" /\ ~kbMixed /\ KbSemantic) => kbRows = kbEntries
=============================================================================
