----------------------------- MODULE DataStores -----------------------------
(***************************************************************************)
(* What the program keeps on disk, one part per mode: backups, their       *)
(* restoration and the drill (storage/backup.py, "backup"), the partitions *)
(* of the tenants (storage/tenant.py, "tenant"), the state file with its   *)
(* checkpoints (state/manager.py, "state") and the schema steps            *)
(* (state/migration.py, "migrate").                                        *)
(***************************************************************************)
EXTENDS Integers, Sequences, FiniteSets

CONSTANTS
    DsTasks,            \* tasks, each with a context of its own
    DsTenants,
    DsKeys,             \* keys of the state file
    DsMaxWrites,        \* bound: changes of a data file, of the state
    DsMaxBackups,       \* bound: backups made
    DsMaxDepth,         \* bound: nested TenantContexts of a task
    DsMaxVersion        \* bound: schema versions

DsNo == 0
ASSUME DsVersionAssumption == DsMaxVersion \in Nat \ {0}
ASSUME DsTenantsAssumption == DsNo \notin DsTenants
DsFiles == {"db", "log"}        \* a database under data/, an audit log under logs/
DsIds == {"named", "drill"}

VARIABLES
    dsMode,             \* "off", "backup", "tenant", "state" or "migrate"
    dsLive,             \* file -> its committed version
    dsMain,             \* version in the database file itself, without its WAL
    dsJob,              \* "idle", "stage", "pack", "seal", "restore" or "extract"
    dsId,               \* backup the job is about
    dsWith,             \* files the job includes or has still to extract
    dsStaged,           \* file -> staged version
    dsArch, dsSide,     \* id -> archive [whole, data, since, copied], sidecar manifest
    dsTarget,           \* file -> version in the directory restored to
    dsForce, dsDrill,   \* the restoration is forced, belongs to a drill
    dsMade,
    dsSince,            \* history: file -> version when the backup began
    dsAgain,            \* history: names used for a second backup
    dsCopied,           \* history: the database of this backup was copied as a file
    dsDied,             \* history: the process died or a job was cut short
    dsCtx, dsStack,     \* task -> current tenant, values that the open contexts reset to
    dsNest,             \* history: task -> tenants of the blocks it is in
    dsRows,             \* tenant -> rows of its partition, each the tenant it was written for
    dsWrong,            \* history: rows were read or deleted in a block of another tenant
    dsMem, dsFile,      \* the state in memory, in state.json
    dsTmp,              \* contents of state.json.tmp between write and replace
    dsCheck,            \* checkpoint id -> snapshot
    dsSaves, dsFailed,  \* bound; history: a save raised
    dsSteps,            \* registered steps <<from, to>>, in order
    dsGoal,             \* target_version
    dsVersion,          \* current_version
    dsApplied,          \* history: steps applied
    dsEnd               \* "no", "returned" or "raised"

dsBackupVars == <<dsLive, dsMain, dsJob, dsId, dsWith, dsStaged, dsArch, dsSide, dsTarget, dsForce, dsDrill, dsMade, dsSince, dsAgain, dsCopied, dsDied>>
dsTenantVars == <<dsCtx, dsStack, dsNest, dsRows, dsWrong>>
dsStateVars == <<dsMem, dsFile, dsTmp, dsCheck, dsSaves, dsFailed>>
dsMigrateVars == <<dsSteps, dsGoal, dsVersion, dsApplied, dsEnd>>
dsVars == <<dsMode, dsBackupVars, dsTenantVars, dsStateVars, dsMigrateVars>>

DsNothing == [f \in DsFiles |-> DsNo]
DsNone == [whole |-> FALSE, data |-> DsNothing, since |-> DsNothing, copied |-> FALSE]
DsInit ==
    /\ dsMode = "off"
    /\ dsLive = [f \in DsFiles |-> 1] /\ dsMain = 1 /\ dsJob = "idle" /\ dsId = "named" /\ dsWith = {} /\ dsStaged = DsNothing
    /\ dsArch = [i \in {} |-> DsNone] /\ dsSide = [i \in {} |-> DsNothing] /\ dsTarget = DsNothing
    /\ dsForce = FALSE /\ dsDrill = FALSE /\ dsMade = 0 /\ dsSince = DsNothing /\ dsAgain = {} /\ dsCopied = FALSE /\ dsDied = FALSE
    /\ dsCtx = [t \in DsTasks |-> DsNo] /\ dsStack = [t \in DsTasks |-> <<>>] /\ dsNest = [t \in DsTasks |-> <<>>]
    /\ dsRows = [n \in DsTenants |-> {}] /\ dsWrong = FALSE
    /\ dsMem = [k \in DsKeys |-> DsNo] /\ dsFile = [k \in DsKeys |-> DsNo] /\ dsTmp = <<>> /\ dsCheck = <<>>
    /\ dsSaves = 0 /\ dsFailed = FALSE
    /\ dsSteps = <<>> /\ dsGoal = 1 /\ dsVersion = 1 /\ dsApplied = <<>> /\ dsEnd = "no"

DsChoose(m) == dsMode = "off" /\ dsMode' = m /\ UNCHANGED <<dsBackupVars, dsTenantVars, dsStateVars, dsMigrateVars>>

---------------------------------------------------------------------------
(* Backups. *)
DsUnchangedButBackup == UNCHANGED <<dsMode, dsTenantVars, dsStateVars, dsMigrateVars>>

\* Between two jobs nothing of the last one is left in memory.
DsIdle ==
    /\ dsJob' = "idle" /\ dsId' = "named" /\ dsWith' = {} /\ dsStaged' = DsNothing /\ dsSince' = DsNothing /\ dsTarget' = DsNothing
    /\ dsCopied' = FALSE /\ dsForce' = FALSE /\ dsDrill' = FALSE

\* Another connection commits to the database (first into its WAL) or appends to the log; SQLite empties the WAL.
DsWrite(f) ==
    /\ dsMode = "backup" /\ dsLive[f] <= DsMaxWrites /\ dsLive' = [dsLive EXCEPT ![f] = @ + 1]
    /\ UNCHANGED <<dsMain, dsJob, dsId, dsWith, dsStaged, dsArch, dsSide, dsTarget, dsForce, dsDrill, dsMade, dsSince, dsAgain, dsCopied, dsDied>>
    /\ DsUnchangedButBackup
DsWalCheckpoint ==
    /\ dsMode = "backup" /\ dsMain # dsLive["db"] /\ dsMain' = dsLive["db"]
    /\ UNCHANGED <<dsLive, dsJob, dsId, dsWith, dsStaged, dsArch, dsSide, dsTarget, dsForce, dsDrill, dsMade, dsSince, dsAgain, dsCopied, dsDied>>
    /\ DsUnchangedButBackup

\* create_backup begins, for a caller or for run_dr_drill.
DsCreate(id, logs) ==
    /\ dsMode = "backup" /\ dsJob = "idle" /\ dsMade < DsMaxBackups
    /\ id = "drill" => logs
    /\ dsJob' = "stage" /\ dsId' = id /\ dsWith' = (IF logs THEN DsFiles ELSE {"db"}) /\ dsStaged' = DsNothing
    /\ dsMade' = dsMade + 1 /\ dsSince' = dsLive /\ dsDrill' = (id = "drill")
    /\ dsAgain' = IF id \in DOMAIN dsArch \cup DOMAIN dsSide THEN dsAgain \cup {id} ELSE dsAgain
    /\ dsCopied' = FALSE
    /\ UNCHANGED <<dsLive, dsMain, dsArch, dsSide, dsTarget, dsForce, dsDied>>
    /\ DsUnchangedButBackup

\* _backup_sqlite_db reads what is committed; when the online backup fails the file is copied without its WAL.
DsBackupSqliteFileOnly == dsMain
DsBackupSqlite == dsLive["db"]
DsStage(f, api) ==
    /\ dsMode = "backup" /\ dsJob = "stage" /\ f \in dsWith /\ dsStaged[f] = DsNo
    /\ f = "log" => api
    /\ dsStaged' = [dsStaged EXCEPT ![f] = IF f = "db" THEN (IF api THEN DsBackupSqlite ELSE dsMain) ELSE dsLive[f]]
    /\ dsCopied' = (dsCopied \/ ~api)
    /\ UNCHANGED <<dsLive, dsMain, dsJob, dsId, dsWith, dsArch, dsSide, dsTarget, dsForce, dsDrill, dsMade, dsSince, dsAgain, dsDied>>
    /\ DsUnchangedButBackup

\* The archive is opened, which truncates one of the same name, and filled; then the sidecar is written.
DsSealsFirst == TRUE
DsSeals == FALSE
DsPack ==
    /\ dsMode = "backup" /\ dsJob = "stage" /\ \A f \in dsWith : dsStaged[f] # DsNo
    /\ dsJob' = "pack"
    /\ dsArch' = [i \in DOMAIN dsArch \cup {dsId} |-> IF i = dsId THEN DsNone ELSE dsArch[i]]
    /\ dsSide' = IF DsSeals THEN [i \in DOMAIN dsSide \cup {dsId} |-> IF i = dsId THEN dsStaged ELSE dsSide[i]] ELSE dsSide
    /\ UNCHANGED <<dsLive, dsMain, dsId, dsWith, dsStaged, dsTarget, dsForce, dsDrill, dsMade, dsSince, dsAgain, dsCopied, dsDied>>
    /\ DsUnchangedButBackup
DsPacked ==
    /\ dsMode = "backup" /\ dsJob = "pack" /\ dsJob' = "seal"
    /\ dsArch' = [dsArch EXCEPT ![dsId] = [whole |-> TRUE, data |-> dsStaged, since |-> dsSince, copied |-> dsCopied]]
    /\ UNCHANGED <<dsLive, dsMain, dsId, dsWith, dsStaged, dsSide, dsTarget, dsForce, dsDrill, dsMade, dsSince, dsAgain, dsCopied, dsDied>>
    /\ DsUnchangedButBackup
DsSeal ==
    /\ dsMode = "backup" /\ dsJob = "seal"
    /\ dsSide' = [i \in DOMAIN dsSide \cup {dsId} |-> IF i = dsId THEN dsStaged ELSE dsSide[i]]
    /\ IF dsDrill THEN dsJob' = "restore" /\ dsForce' = TRUE /\ UNCHANGED <<dsId, dsWith, dsStaged, dsSince, dsTarget, dsCopied, dsDrill>>
       ELSE DsIdle
    /\ UNCHANGED <<dsLive, dsMain, dsArch, dsMade, dsAgain, dsDied>>
    /\ DsUnchangedButBackup

\* restore_backup of an archive that may be torn, into a directory that may hold files.
DsRestore(id, force, there) ==
    /\ dsMode = "backup" /\ dsJob = "idle" /\ id \in DOMAIN dsArch /\ dsJob' = "restore" /\ dsId' = id /\ dsForce' = force
    /\ dsDrill' = FALSE /\ dsTarget' = [f \in DsFiles |-> IF f \in there THEN DsMaxWrites + 9 ELSE DsNo]
    /\ UNCHANGED <<dsLive, dsMain, dsWith, dsStaged, dsArch, dsSide, dsMade, dsSince, dsAgain, dsCopied, dsDied>>
    /\ DsUnchangedButBackup
DsMembers(id) == {f \in DsFiles : dsArch[id].data[f] # DsNo}

\* The end of a job; run_dr_drill removes the archive and the sidecar of its backup.
DsDropsNothing == {}
DsDrops == {"drill"}
DsFinish ==
    LET gone == IF dsDrill THEN DsDrops ELSE {}
    IN /\ DsIdle /\ dsArch' = [i \in DOMAIN dsArch \ gone |-> dsArch[i]] /\ dsSide' = [i \in DOMAIN dsSide \ gone |-> dsSide[i]]

\* An unreadable archive and, without force, an existing file of the manifest end the restoration before it wrote.
DsRefusesIfAll(id) == ~dsArch[id].whole \/ (~dsForce /\ \A f \in DsMembers(id) : dsTarget[f] # DsNo)
DsRefuses(id) == ~dsArch[id].whole \/ (~dsForce /\ \E f \in DsMembers(id) : dsTarget[f] # DsNo)
DsOpens ==
    /\ dsMode = "backup" /\ dsJob = "restore"
    /\ IF DsRefuses(dsId) THEN DsFinish
       ELSE /\ dsJob' = "extract" /\ dsWith' = DsMembers(dsId)
            /\ UNCHANGED <<dsId, dsStaged, dsSince, dsTarget, dsCopied, dsForce, dsDrill, dsArch, dsSide>>
    /\ UNCHANGED <<dsLive, dsMain, dsMade, dsAgain, dsDied>>
    /\ DsUnchangedButBackup
DsExtract(f) ==
    /\ dsMode = "backup" /\ dsJob = "extract" /\ f \in dsWith /\ dsWith' = dsWith \ {f}
    /\ dsTarget' = [dsTarget EXCEPT ![f] = dsArch[dsId].data[f]]
    /\ UNCHANGED <<dsLive, dsMain, dsJob, dsId, dsStaged, dsArch, dsSide, dsForce, dsDrill, dsMade, dsSince, dsAgain, dsCopied, dsDied>>
    /\ DsUnchangedButBackup

\* The integrity check of the restored databases passes or raises: the job ends.
DsVerified ==
    /\ dsMode = "backup" /\ dsJob = "extract" /\ dsWith = {} /\ DsFinish
    /\ UNCHANGED <<dsLive, dsMain, dsMade, dsAgain, dsDied>>
    /\ DsUnchangedButBackup

\* The process dies, or a disk error ends create_backup: what has been written stays.
DsDies ==
    /\ dsMode = "backup" /\ dsJob # "idle" /\ DsIdle /\ dsDied' = TRUE
    /\ UNCHANGED <<dsLive, dsMain, dsArch, dsSide, dsMade, dsAgain>>
    /\ DsUnchangedButBackup

DsBackupNext ==
    \/ \E f \in DsFiles : DsWrite(f) \/ DsExtract(f) \/ (\E api \in BOOLEAN : DsStage(f, api))
    \/ DsWalCheckpoint \/ DsPack \/ DsPacked \/ DsSeal \/ DsOpens \/ DsVerified \/ DsDies
    \/ \E id \in DsIds, logs \in BOOLEAN : DsCreate(id, logs)
    \/ \E force \in BOOLEAN, there \in SUBSET DsFiles : DsRestore("named", force, there)

---------------------------------------------------------------------------
(* Tenants. A task runs in a copy of the context it was started from. *)
DsUnchangedButTenant == UNCHANGED <<dsMode, dsBackupVars, dsStateVars, dsMigrateVars>>

\* ContextVar.set changes the context of the running task only.
DsSetEverywhere(t, n) == [u \in DsTasks |-> n]
DsSet(t, n) == [dsCtx EXCEPT ![t] = n]
DsEnter(t, n) ==
    /\ dsMode = "tenant" /\ Len(dsStack[t]) < DsMaxDepth
    /\ dsStack' = [dsStack EXCEPT ![t] = Append(@, dsCtx[t])] /\ dsCtx' = DsSet(t, n) /\ dsNest' = [dsNest EXCEPT ![t] = Append(@, n)]
    /\ UNCHANGED <<dsRows, dsWrong>> /\ DsUnchangedButTenant
DsTop(s) == IF s = <<>> THEN DsNo ELSE s[Len(s)]
DsExit(t) ==
    /\ dsMode = "tenant" /\ dsStack[t] # <<>> /\ dsCtx' = DsSet(t, DsTop(dsStack[t]))
    /\ dsStack' = [dsStack EXCEPT ![t] = SubSeq(@, 1, Len(@) - 1)] /\ dsNest' = [dsNest EXCEPT ![t] = SubSeq(@, 1, Len(@) - 1)]
    /\ UNCHANGED <<dsRows, dsWrong>> /\ DsUnchangedButTenant

\* t starts u, which takes over its context and has no block of its own open.
DsSpawn(t, u) ==
    /\ dsMode = "tenant" /\ t # u /\ dsStack[u] = <<>>
    /\ dsCtx' = [dsCtx EXCEPT ![u] = dsCtx[t]] /\ dsNest' = [dsNest EXCEPT ![u] = IF dsNest[t] = <<>> THEN <<>> ELSE <<DsTop(dsNest[t])>>]
    /\ UNCHANGED <<dsStack, dsRows, dsWrong>> /\ DsUnchangedButTenant

\* _resolve_tenant: an explicit tenant must be the current one, and there must be one of them.
DsResolveExplicit(t, n) == IF n # DsNo THEN n ELSE dsCtx[t]
DsResolve(t, n) == IF n # DsNo /\ dsCtx[t] # DsNo /\ n # dsCtx[t] THEN DsNo ELSE IF n # DsNo THEN n ELSE dsCtx[t]

\* add_turn and set, get and search, delete and purge_tenant_memory; n is the explicit tenant_id.
DsFor(t, n) == IF dsNest[t] = <<>> THEN n ELSE DsTop(dsNest[t])
DsAccess(t, n, op) ==
    LET p == DsResolve(t, n)
    IN /\ dsMode = "tenant" /\ p # DsNo
       /\ dsRows' = [dsRows EXCEPT ![p] = CASE op = "add" -> @ \cup {DsFor(t, n)} [] op = "purge" -> {} [] op = "get" -> @]
       /\ dsWrong' = (dsWrong \/ p # DsFor(t, n))
       /\ UNCHANGED <<dsCtx, dsStack, dsNest>> /\ DsUnchangedButTenant
DsTenantNext ==
    \E t \in DsTasks :
        \/ DsExit(t) \/ (\E n \in DsTenants : DsEnter(t, n)) \/ (\E u \in DsTasks : DsSpawn(t, u))
        \/ \E n \in DsTenants \cup {DsNo}, op \in {"add", "get", "purge"} : DsAccess(t, n, op)

---------------------------------------------------------------------------
(* The state file. *)
DsUnchangedButState == UNCHANGED <<dsMode, dsBackupVars, dsTenantVars, dsMigrateVars>>
DsMay == dsMode = "state" /\ dsTmp = <<>> /\ dsSaves < DsMaxWrites + 2

\* save_state and delete_state change the memory and write state.json.tmp; replace follows, or the write raises.
DsSaveState(k, v, ok) ==
    /\ DsMay /\ (v = DsNo => dsMem[k] # DsNo)
    /\ dsMem' = [dsMem EXCEPT ![k] = v] /\ dsTmp' = (IF ok THEN <<dsMem'>> ELSE <<>>) /\ dsSaves' = dsSaves + 1 /\ dsFailed' = ~ok
    /\ UNCHANGED <<dsFile, dsCheck>> /\ DsUnchangedButState
DsReplace ==
    /\ dsMode = "state" /\ dsTmp # <<>> /\ dsFile' = dsTmp[1] /\ dsTmp' = <<>>
    /\ UNCHANGED <<dsMem, dsCheck, dsSaves, dsFailed>> /\ DsUnchangedButState

\* create_checkpoint keeps a snapshot in memory; restore_checkpoint saves what it brings back.
DsCheckpoint ==
    /\ DsMay /\ dsCheck' = <<dsMem>>
    /\ UNCHANGED <<dsMem, dsFile, dsTmp, dsSaves, dsFailed>> /\ DsUnchangedButState
DsRestoredUnsaved(m, ok) == <<>>
DsRestoredSaved(m, ok) == IF ok THEN <<m>> ELSE <<>>
DsRestoreCheckpoint(ok) ==
    /\ DsMay /\ dsCheck # <<>> /\ dsMem' = dsCheck[1] /\ dsTmp' = DsRestoredSaved(dsMem', ok) /\ dsSaves' = dsSaves + 1 /\ dsFailed' = ~ok
    /\ UNCHANGED <<dsFile, dsCheck>> /\ DsUnchangedButState

\* A restart reads state.json; the checkpoints and a leftover temporary file are gone.
DsRestart ==
    /\ dsMode = "state" /\ dsMem' = dsFile /\ dsTmp' = <<>> /\ dsCheck' = <<>> /\ dsFailed' = FALSE
    /\ UNCHANGED <<dsFile, dsSaves>> /\ DsUnchangedButState
DsStateNext ==
    \/ DsReplace \/ DsCheckpoint \/ DsRestart
    \/ \E ok \in BOOLEAN : DsRestoreCheckpoint(ok) \/ (\E k \in DsKeys, v \in {DsNo, 1, 2} : DsSaveState(k, v, ok))

---------------------------------------------------------------------------
(* Migration of a state from its schema version to target_version. *)
DsUnchangedButMigrate == UNCHANGED <<dsMode, dsBackupVars, dsTenantVars, dsStateVars>>

\* Steps that raise the version, as every caller registers them.
DsStepSet == {st \in (1 .. DsMaxVersion) \X (1 .. DsMaxVersion) : st[1] < st[2]}
DsRegisterStep(st) ==
    /\ dsMode = "migrate" /\ dsEnd = "no" /\ dsApplied = <<>> /\ Len(dsSteps) < DsMaxVersion /\ dsSteps' = Append(dsSteps, st)
    /\ UNCHANGED <<dsGoal, dsVersion, dsApplied, dsEnd>> /\ DsUnchangedButMigrate

\* The first registered step that starts here and does not go too far.
DsFitsAny(i) == dsSteps[i][1] = dsVersion
DsFits(i) == dsSteps[i][1] = dsVersion /\ dsSteps[i][2] <= dsGoal
DsMigrate(goal) ==
    /\ dsMode = "migrate" /\ dsEnd = "no" /\ dsApplied = <<>> /\ dsGoal' = goal
    /\ dsVersion' \in 1 .. DsMaxVersion
    /\ dsEnd' = IF dsVersion' >= goal THEN "returned" ELSE "busy"
    /\ UNCHANGED <<dsSteps, dsApplied>> /\ DsUnchangedButMigrate
DsStep ==
    LET fit == {i \in DOMAIN dsSteps : DsFits(i)}
        i == CHOOSE j \in fit : \A k \in fit : j <= k
    IN /\ dsMode = "migrate" /\ dsEnd = "busy"
       /\ IF fit = {} THEN dsEnd' = "raised" /\ UNCHANGED <<dsVersion, dsApplied>>
          ELSE dsVersion' = dsSteps[i][2] /\ dsApplied' = Append(dsApplied, dsSteps[i]) /\ dsEnd' = IF dsVersion' < dsGoal THEN "busy" ELSE "returned"
       /\ UNCHANGED <<dsSteps, dsGoal>> /\ DsUnchangedButMigrate
DsMigrateNext == DsStep \/ (\E g \in 1 .. DsMaxVersion : DsMigrate(g)) \/ (\E st \in DsStepSet : DsRegisterStep(st))

---------------------------------------------------------------------------
DsNext ==
    \/ \E m \in {"backup", "tenant", "state", "migrate"} : DsChoose(m)
    \/ DsBackupNext \/ DsTenantNext \/ DsStateNext \/ DsMigrateNext
DsSpec == DsInit /\ [][DsNext]_dsVars

---------------------------------------------------------------------------
(* Properties. *)

(* A backup that list_backups shows has an archive that can be read and whose    *)
(* files are those of the manifest, wherever create_backup died; except when its *)
(* name was used before.                                                         *)
DsListedWhole ==
    \A i \in DOMAIN dsSide \ dsAgain :
        /\ i \in DOMAIN dsArch
        /\ dsArch[i].whole /\ dsArch[i].data = dsSide[i]

(* A complete archive holds everything that was committed before create_backup   *)
(* began, also what is still in the WAL of a database, unless the online backup  *)
(* failed and the file was copied.                                               *)
DsCommittedKept ==
    \A i \in DOMAIN dsArch : \A f \in DsFiles :
        dsArch[i].whole /\ ~dsArch[i].copied /\ dsArch[i].data[f] # DsNo => dsArch[i].data[f] >= dsArch[i].since[f]

(* A drill that is not cut short leaves neither its archive nor its manifest     *)
(* among the backups.                                                            *)
DsDrillCleansUp == dsJob = "idle" /\ ~dsDied => "drill" \notin DOMAIN dsArch \cup DOMAIN dsSide

(* Without force restore_backup never replaces a file of the target, not even    *)
(* when only some of the files of the manifest exist there.                      *)
DsNotOverwritten ==
    [][dsJob = "extract" /\ dsJob' = "extract" /\ ~dsForce => \A f \in DsFiles : dsTarget[f] # DsNo => dsTarget'[f] = dsTarget[f]]_dsVars

(* Whatever contexts tasks enter, leave and hand on to tasks they start, an      *)
(* operation goes to the partition of the innermost block it runs in, so a       *)
(* partition holds rows of its tenant only.                                      *)
DsOwnPartition == ~dsWrong /\ \A n \in DsTenants : dsRows[n] \subseteq {n}

(* Between two operations state.json holds the state in memory, unless the last  *)
(* save raised; a save that failed is made up for by the next one.               *)
DsFileFollows == dsMode = "state" /\ dsTmp = <<>> /\ ~dsFailed => dsFile = dsMem

(* migrate returns a state at the target version, or above it without a change,  *)
(* by steps that join, and never oversteps the target.                           *)
DsMigrated ==
    /\ dsEnd = "returned" => dsVersion = dsGoal \/ (dsApplied = <<>> /\ dsVersion > dsGoal)
    /\ \A i \in 2 .. Len(dsApplied) : dsApplied[i][1] = dsApplied[i - 1][2]
=============================================================================
