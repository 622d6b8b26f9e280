------------------------------ MODULE Records -------------------------------
(***************************************************************************)
(* Files that must stay complete and verifiable: audit logs, vault and key *)
(* ring, and records under retention.                                      *)
(***************************************************************************)
EXTENDS Naturals, Sequences, SequencesExt, FiniteSets

-----------------------------------------------------------------------------
(***************************************************************************)
(* Three files the security package keeps: the audit log with its chain of *)
(* hashes (security/audit.py), the vault of secrets (security/vault.py)    *)
(* and the ring of key encryption keys with the envelopes made under them  *)
(* (security/envelope.py).  Other processes (the CLI, a second gateway)    *)
(* use the same files.  A hash or a key is a fresh number.                 *)
(***************************************************************************)
CONSTANTS
    KsProcs,      \* processes
    KsNames,      \* names of secrets
    KsMax         \* bound: entries, stores, keys and envelopes

VARIABLES
    ksMode,       \* "off", "audit", "vault" or "envelope"
    ksLog,        \* audit.jsonl: [index, prev, hash, line]
    ksRead,       \* process -> what it read before it writes, <<>> if it is not writing
    ksFresh,      \* hashes, values and keys made so far
    ksVault,      \* vault.enc: <<name -> value>>, 0 for none; <<>> if it cannot be decrypted
    ksStored,     \* history: name -> value last stored
    ksKeks,       \* _keks of the manager: version -> key
    ksRing,       \* <<keyrings.json>>, <<>> if it cannot be read
    ksEnvelopes,  \* envelopes: [version, key]
    ksDisturbed,  \* two processes wrote at once, a process died while writing, a line was too long, or the key changed
    ksTampered    \* an entry of the log other than the last was taken out

ksAudit == <<ksLog, ksTampered>>
ksSecrets == <<ksVault, ksStored>>
ksKeys == <<ksKeks, ksRing, ksEnvelopes>>
ksVars == <<ksMode, ksLog, ksRead, ksFresh, ksVault, ksStored, ksKeks, ksRing, ksEnvelopes, ksDisturbed, ksTampered>>

KsEmpty == [n \in KsNames |-> 0]
KsInit ==
    /\ ksMode = "off" /\ ksLog = <<>> /\ ksRead = [p \in KsProcs |-> <<>>] /\ ksFresh = 0 /\ ksVault = <<KsEmpty>> /\ ksStored = KsEmpty
    /\ ksKeks = <<>> /\ ksRing = <<>> /\ ksEnvelopes = {} /\ ksDisturbed = FALSE /\ ksTampered = FALSE

\* _init_keystore makes the key v1.
KsStart ==
    /\ ksMode = "off" /\ ksMode' \in {"audit", "vault", "envelope"}
    /\ ksFresh' = 1 /\ ksKeks' = <<1>> /\ ksRing' = << <<1>> >>
    /\ UNCHANGED <<ksAudit, ksRead, ksSecrets, ksEnvelopes, ksDisturbed>>

KsWriters == {p \in KsProcs : ksRead[p] # <<>>}
KsMore == ksFresh < KsMax
KsDisturbs(p) == ksDisturbed' = (ksDisturbed \/ KsWriters \ {p} # {})

\* _get_last_entry: index -1 and hash 0 if there is none, or if its line cannot be read.
KsLastEntry ==
    IF ksLog = <<>> \/ Last(ksLog).line # "ok" THEN [index |-> 0, prev |-> 0] ELSE [index |-> Last(ksLog).index + 1, prev |-> Last(ksLog).hash]
\* log_event reads the last entry, and then writes the next.
KsLogReads(p) ==
    /\ ksMode = "audit" /\ ksRead[p] = <<>> /\ KsMore /\ ksRead' = [ksRead EXCEPT ![p] = <<KsLastEntry>>] /\ KsDisturbs(p)
    /\ UNCHANGED <<ksMode, ksAudit, ksFresh, ksSecrets, ksKeys>>
\* A line longer than the 4096 bytes that are read back does no harm to itself, but the next one starts a new chain; a
\* process may die half way through a line, and the next line is then glued to the rest.
KsChainedAnew(p) == 0
KsChained(p) == ksRead[p][1].prev
KsLogWrites(p, readable, cut) ==
    /\ ksMode = "audit" /\ ksRead[p] # <<>> /\ KsMore
    /\ ksFresh' = ksFresh + 1 /\ ksRead' = [ksRead EXCEPT ![p] = <<>>]
    /\ LET glued == ksLog # <<>> /\ Last(ksLog).line = "cut"
           line == IF cut THEN "cut" ELSE IF glued THEN "bad" ELSE IF readable THEN "ok" ELSE "long"
       IN ksLog' = Append(ksLog, [index |-> ksRead[p][1].index, prev |-> KsChained(p), hash |-> ksFresh', line |-> line])
    /\ ksDisturbed' = (ksDisturbed \/ ~readable \/ cut)
    /\ UNCHANGED <<ksMode, ksTampered, ksSecrets, ksKeys>>

KsTamper ==
    /\ ksMode = "audit" /\ ~ksTampered /\ \E i \in 1 .. Len(ksLog) - 1 : ksLog' = RemoveAt(ksLog, i)
    /\ ksTampered' = TRUE /\ UNCHANGED <<ksMode, ksRead, ksFresh, ksSecrets, ksKeys, ksDisturbed>>

\* verify_integrity
KsLinked(i) == ksLog[i].prev = IF i = 1 THEN 0 ELSE ksLog[i - 1].hash
KsVerifies == \A i \in DOMAIN ksLog : ksLog[i].index = i - 1 /\ KsLinked(i) /\ ksLog[i].line \in {"ok", "long"}

\* store_secret: _load_vault_data, which is empty if the file cannot be decrypted, then _save_vault_data.
KsLoaded == IF ksVault = <<>> THEN KsEmpty ELSE ksVault[1]
KsLoads(p, n) ==
    /\ ksMode = "vault" /\ ksRead[p] = <<>> /\ KsMore /\ ksRead' = [ksRead EXCEPT ![p] = <<n, KsLoaded>>] /\ KsDisturbs(p)
    /\ UNCHANGED <<ksMode, ksAudit, ksFresh, ksSecrets, ksKeys>>
KsWithOnly(data, n, v) == [KsEmpty EXCEPT ![n] = v]
KsWith(data, n, v) == [data EXCEPT ![n] = v]
KsSaves(p) ==
    /\ ksMode = "vault" /\ ksRead[p] # <<>> /\ KsMore
    /\ ksFresh' = ksFresh + 1 /\ ksVault' = <<KsWith(ksRead[p][2], ksRead[p][1], ksFresh')>> /\ ksStored' = [ksStored EXCEPT ![ksRead[p][1]] = ksFresh']
    /\ ksRead' = [ksRead EXCEPT ![p] = <<>>]
    /\ UNCHANGED <<ksMode, ksAudit, ksKeys, ksDisturbed>>
\* The process dies while it writes, or AMBERCLAW_VAULT_KEY is another one since.
KsVaultLost ==
    /\ ksMode = "vault" /\ ksVault' = <<>> /\ ksDisturbed' = TRUE /\ ksRead' = [p \in KsProcs |-> <<>>]
    /\ UNCHANGED <<ksMode, ksAudit, ksFresh, ksStored, ksKeys>>

\* rotate_kek: the new key becomes the active one, the old ones stay; the ring is written.
KsRotatedAll(key) == [v \in 1 .. Len(ksKeks) + 1 |-> key]
KsRotated(key) == Append(ksKeks, key)
KsRotate(torn) ==
    /\ ksMode = "envelope" /\ KsMore
    /\ ksFresh' = ksFresh + 1 /\ ksKeks' = KsRotated(ksFresh')
    /\ ksRing' = IF torn THEN <<>> ELSE <<ksKeks'>>
    /\ ksDisturbed' = (ksDisturbed \/ torn)
    /\ UNCHANGED <<ksMode, ksAudit, ksRead, ksSecrets, ksEnvelopes>>

\* The process dies before the new ring is written; a new one reads the ring, or makes a new v1 if it cannot.
KsRestart ==
    /\ ksMode = "envelope" /\ KsMore
    /\ IF ksRing = <<>>
       THEN ksFresh' = ksFresh + 1 /\ ksKeks' = <<ksFresh'>> /\ ksRing' = <<ksKeks'>>
       ELSE ksKeks' = ksRing[1] /\ UNCHANGED <<ksFresh, ksRing>>
    /\ UNCHANGED <<ksMode, ksAudit, ksRead, ksSecrets, ksEnvelopes, ksDisturbed>>

\* encrypt: the data key of the envelope is wrapped by the active key.  re_wrap opens one and encrypts again.
KsActive == Len(ksKeks)
KsOpens(e) == e.version \in DOMAIN ksKeks /\ ksKeks[e.version] = e.key
KsWrapped == [version |-> KsActive, key |-> ksKeks[KsActive]]
KsEncrypt ==
    /\ ksMode = "envelope" /\ ksEnvelopes' = ksEnvelopes \cup {KsWrapped}
    /\ UNCHANGED <<ksMode, ksAudit, ksRead, ksFresh, ksSecrets, ksKeks, ksRing, ksDisturbed>>
KsReWrap(e) ==
    /\ e.version # KsActive /\ KsOpens(e) /\ ksEnvelopes' = (ksEnvelopes \ {e}) \cup {KsWrapped}
    /\ UNCHANGED <<ksMode, ksAudit, ksRead, ksFresh, ksSecrets, ksKeks, ksRing, ksDisturbed>>

KsNext ==
    \/ KsStart \/ KsTamper \/ KsVaultLost \/ KsRestart \/ KsEncrypt
    \/ \E p \in KsProcs : \/ KsLogReads(p) \/ KsSaves(p)
                          \/ \E n \in KsNames : KsLoads(p, n)
                          \/ \E readable, cut \in BOOLEAN : KsLogWrites(p, readable, cut)
    \/ \E torn \in BOOLEAN : KsRotate(torn)
    \/ \E e \in ksEnvelopes : KsReWrap(e)

KsSpec == KsInit /\ [][KsNext]_ksVars

---------------------------------------------------------------------------
\* A log that one process at a time wrote verifies; one from which an entry other than the last was taken
\* never does, however much is logged since (log_event, verify_integrity).
KsChainHonest ==
    ~ksDisturbed => (KsVerifies <=> ~ksTampered)

\* As long as nothing disturbs the file, storing a secret changes no other: the vault has what was last stored
\* under each name (store_secret).
KsSecretsKept == ~ksDisturbed => ksVault = <<ksStored>>

\* Every envelope can be opened by the manager, after any rotations and re-wrappings, and after restarts unless
\* one cut the writing of the ring (rotate_kek, _init_keystore).
KsEnvelopesOpen == ~ksDisturbed => \A e \in ksEnvelopes : KsOpens(e)

-----------------------------------------------------------------------------
(***************************************************************************)
(* Records that must outlive their use: retention of the security log      *)
(* (security/siem.py), the daily governance log (governance/audit.py), and *)
(* expiry, deletion and legal holds of user data (security/retention.py).  *)
(***************************************************************************)
CONSTANTS
    CpTtl,          \* retention, in half days
    CpMaxTime,      \* bound: clock, in half days
    CpMaxRecords,   \* bound: records logged
    CpMaxPrunes     \* bound: prunings

ASSUME CpAssumption == CpTtl \in Nat /\ CpMaxTime \in Nat /\ CpMaxRecords \in Nat /\ CpMaxPrunes \in Nat

VARIABLES
    cpMode,         \* "off", "siem", "daily" or "hold"
    cpNow,          \* half days
    cpMade,         \* records made: record n at time cpMade[n]
    cpLog,          \* audit.jsonl: sequence of [rec, index, prev]; prev is the record chained to (0: none)
    cpArchives,     \* day -> records in the archive of that day
    cpPrune,        \* pruning under way: [phase, old, kept] (the old records and the lines that stay) or idle
    cpPruned,       \* history: days on which records were archived
    cpTwice,        \* history: two prunings archived records on one day, or one was cut off
    cpPrunes,
    cpDaily,        \* day -> lines of the daily file: [rec, index, prev, whole]
    cpHold,         \* legal hold of the user: "none", "active" or "released"
    cpData,         \* records of the user that exist
    cpHeld          \* history: records that existed when the hold was placed

cpSiem == <<cpLog, cpArchives, cpPrune, cpPruned, cpTwice, cpPrunes>>
cpUser == <<cpHold, cpData, cpHeld>>
cpVars == <<cpMode, cpNow, cpMade, cpLog, cpArchives, cpPrune, cpPruned, cpTwice, cpPrunes, cpDaily, cpHold, cpData, cpHeld>>

CpIdle == [phase |-> "idle", old |-> {}, kept |-> <<>>]
CpDayOf(time) == time \div 2
CpDays == 0 .. CpDayOf(CpMaxTime)

CpInit ==
    /\ cpMode = "off" /\ cpNow = 0 /\ cpMade = <<>> /\ cpLog = <<>> /\ cpArchives = [d \in CpDays |-> {}] /\ cpPrune = CpIdle
    /\ cpPruned = {} /\ cpTwice = FALSE /\ cpPrunes = 0 /\ cpDaily = [d \in CpDays |-> <<>>]
    /\ cpHold = "none" /\ cpData = {} /\ cpHeld = {}

CpStart == cpMode = "off" /\ cpMode' \in {"siem", "daily", "hold"} /\ UNCHANGED <<cpNow, cpMade, cpSiem, cpDaily, cpUser>>
CpTick == cpMode # "off" /\ cpNow < CpMaxTime /\ cpNow' = cpNow + 1 /\ UNCHANGED <<cpMode, cpMade, cpSiem, cpDaily, cpUser>>
CpMake == Len(cpMade) < CpMaxRecords /\ cpMade' = Append(cpMade, cpNow)

\* A chain verifies when indices count from 0 and every entry names the one before it.
CpVerifies(chain) ==
    \A i \in DOMAIN chain : chain[i].index = i - 1 /\ chain[i].prev = IF i = 1 THEN 0 ELSE chain[i - 1].rec

\* log_event, while nothing is being pruned.
CpLogEvent ==
    /\ cpMode = "siem" /\ cpPrune = CpIdle /\ CpMake
    /\ LET last == IF cpLog = <<>> THEN [rec |-> 0, index |-> 0] ELSE [rec |-> cpLog[Len(cpLog)].rec, index |-> cpLog[Len(cpLog)].index + 1]
       IN cpLog' = Append(cpLog, [rec |-> Len(cpMade'), index |-> last.index, prev |-> last.rec])
    /\ UNCHANGED <<cpMode, cpNow, cpArchives, cpPrune, cpPruned, cpTwice, cpPrunes, cpDaily, cpUser>>

\* prune_and_archive: verify and split by age,
CpOld(e) == cpMade[e.rec] + CpTtl < cpNow
\* The positions of a set from the first to the last.
CpAscending(S) ==
    {at \in [1 .. Cardinality(S) -> S] : (\A i, j \in DOMAIN at : i < j => at[i] < at[j]) /\ (\A n \in S : \E i \in DOMAIN at : at[i] = n)}
CpPruneReads ==
    /\ cpMode = "siem" /\ cpPrune = CpIdle /\ cpPrunes < CpMaxPrunes /\ cpPrunes' = cpPrunes + 1 /\ CpVerifies(cpLog)
    /\ LET old == {i \in DOMAIN cpLog : CpOld(cpLog[i])}
       IN \E at \in CpAscending(DOMAIN cpLog \ old) :
             cpPrune' = [phase |-> "archive", old |-> {cpLog[i].rec : i \in old}, kept |-> [j \in DOMAIN at |-> cpLog[at[j]]]]
    /\ UNCHANGED <<cpMode, cpNow, cpMade, cpLog, cpArchives, cpPruned, cpTwice, cpDaily, cpUser>>

\* write the archive of the day anew,
CpArchive ==
    /\ cpPrune.phase = "archive" /\ cpPrune' = [cpPrune EXCEPT !.phase = "rewrite"]
    /\ LET day == CpDayOf(cpNow)
       IN IF cpPrune.old = {} THEN UNCHANGED <<cpArchives, cpPruned, cpTwice>>
          ELSE /\ cpArchives' = [cpArchives EXCEPT ![day] = cpPrune.old]
               /\ cpTwice' = (cpTwice \/ day \in cpPruned) /\ cpPruned' = cpPruned \cup {day}
    /\ UNCHANGED <<cpMode, cpNow, cpMade, cpLog, cpPrunes, cpDaily, cpUser>>

\* and the log, chained anew.
CpRechainedNot(kept) == kept
CpRechained(kept) == [i \in DOMAIN kept |-> [rec |-> kept[i].rec, index |-> i - 1, prev |-> IF i = 1 THEN 0 ELSE kept[i - 1].rec]]
CpRewrite ==
    /\ cpPrune.phase = "rewrite" /\ cpPrune' = CpIdle /\ cpLog' = CpRechained(cpPrune.kept)
    /\ UNCHANGED <<cpMode, cpNow, cpMade, cpArchives, cpPruned, cpTwice, cpPrunes, cpDaily, cpUser>>

\* The process dies: before the rewrite the log is as it was, in it only some first lines are left.
CpCrash(left) ==
    /\ cpPrune # CpIdle /\ cpPrune' = CpIdle
    /\ IF cpPrune.phase = "rewrite" /\ left < Len(cpPrune.kept)
       THEN cpLog' = SubSeq(CpRechained(cpPrune.kept), 1, left) /\ cpTwice' = TRUE
       ELSE UNCHANGED <<cpLog, cpTwice>>
    /\ UNCHANGED <<cpMode, cpNow, cpMade, cpArchives, cpPruned, cpPrunes, cpDaily, cpUser>>

---------------------------------------------------------------------------
\* log_action: chained to the last record of the day's file; a torn last line counts as none, and the new record
\* is glued to it.
CpTail(file) ==
    IF file = <<>> \/ ~file[Len(file)].whole THEN [rec |-> 0, index |-> 0]
    ELSE [rec |-> file[Len(file)].rec, index |-> file[Len(file)].index + 1]
CpFileOfWrong == cpDaily[0]
CpFileOf == cpDaily[CpDayOf(cpNow)]
CpLogAction(whole) ==
    /\ cpMode = "daily" /\ CpMake
    /\ LET day == CpDayOf(cpNow)
           file == cpDaily[day]
           last == CpTail(CpFileOf)
           line == [rec |-> Len(cpMade'), index |-> last.index, prev |-> last.rec, whole |-> whole]
       IN cpDaily' = [cpDaily EXCEPT ![day] = IF file # <<>> /\ ~file[Len(file)].whole
                                                THEN [file EXCEPT ![Len(file)] = [line EXCEPT !.whole = FALSE]]
                                                ELSE Append(file, line)]
    /\ UNCHANGED <<cpMode, cpNow, cpSiem, cpUser>>

\* verify_chain
CpFileVerifies(file) == (\A i \in DOMAIN file : file[i].whole) /\ CpVerifies(file)

---------------------------------------------------------------------------
\* The user's data grows; set_legal_hold, release_legal_hold, purge_expired_records, delete_user_data_compliance
\* (its handlers delete in turn, and one may raise).
CpStore ==
    /\ cpMode = "hold" /\ CpMake /\ cpData' = cpData \cup {Len(cpMade')}
    /\ UNCHANGED <<cpMode, cpNow, cpSiem, cpDaily, cpHold, cpHeld>>
CpSetHold ==
    /\ cpMode = "hold" /\ cpHold' = "active" /\ cpHeld' = cpData
    /\ UNCHANGED <<cpMode, cpNow, cpMade, cpSiem, cpDaily, cpData>>
CpRelease ==
    /\ cpMode = "hold" /\ cpHold = "active" /\ cpHold' = "released" /\ cpHeld' = {}
    /\ UNCHANGED <<cpMode, cpNow, cpMade, cpSiem, cpDaily, cpData>>
CpOnHoldNever == FALSE
CpOnHold == cpHold = "active"
CpPurge ==
    /\ cpMode = "hold" /\ ~CpOnHold /\ cpData' = {n \in cpData : cpMade[n] + CpTtl >= cpNow}
    /\ UNCHANGED <<cpMode, cpNow, cpMade, cpSiem, cpDaily, cpHold, cpHeld>>
CpDelete(done) ==
    /\ cpMode = "hold" /\ ~CpOnHold /\ cpData' = cpData \ done
    /\ UNCHANGED <<cpMode, cpNow, cpMade, cpSiem, cpDaily, cpHold, cpHeld>>

CpNext ==
    \/ CpStart \/ CpTick \/ CpLogEvent \/ CpPruneReads \/ CpArchive \/ CpRewrite
    \/ \E left \in 0 .. CpMaxRecords : CpCrash(left)
    \/ \E whole \in BOOLEAN : CpLogAction(whole)
    \/ CpStore \/ CpSetHold \/ CpRelease \/ CpPurge
    \/ \E done \in {{}, {1}, cpData} : CpDelete(done)

CpSpec == CpInit /\ [][CpNext]_cpVars

---------------------------------------------------------------------------
\* Every record is in the log or in an archive, and the log verifies, whatever was pruned when; except after a
\* second archive on one day, which replaces the first, or a crash in the rewrite (prune_and_archive).
CpNothingLost ==
    /\ CpVerifies(cpLog)
    /\ cpMode = "siem" /\ ~cpTwice =>
        \A n \in DOMAIN cpMade : (\E i \in DOMAIN cpLog : cpLog[i].rec = n) \/ (\E d \in CpDays : n \in cpArchives[d])

\* The file of every day verifies by itself exactly when none of its lines was torn (log_action, verify_chain).
CpDailyVerifies ==
    \A d \in CpDays : (\A i \in DOMAIN cpDaily[d] : cpDaily[d][i].whole) => CpFileVerifies(cpDaily[d])

\* What existed when a legal hold was placed still exists while it lasts (set_legal_hold, purge_expired_records,
\* delete_user_data_compliance).
CpHeldKept == cpHold = "active" => cpHeld \subseteq cpData
=============================================================================
