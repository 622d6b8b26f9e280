------------------------------ MODULE Terminal ------------------------------
(***************************************************************************)
(* terminal/: the backends that run commands somewhere else.  Each makes   *)
(* its sandbox (container, connection) when it is first needed; E2B,       *)
(* Vercel and Modal copy changed files of the workspace to it before every *)
(* command, and keep a table of what they copied.  One file stands for the *)
(* workspace; its versions are numbers.                                    *)
(***************************************************************************)
EXTENDS Naturals, FiniteSets

CONSTANTS
    TmCallers,     \* tasks that call execute_bash or execute_python
    TmMaxVersion,  \* bound: versions of the file
    TmMaxBoxes,    \* bound: sandboxes made
    TmMaxRuns      \* bound: calls

ASSUME TmAssumption == TmMaxVersion \in Nat \ {0} /\ TmMaxBoxes \in Nat

VARIABLES
    tmKind,        \* the backend, "off" at first
    tmLocal,       \* version of the file in the workspace
    tmBox,         \* sandbox, client or container_running: the sandbox in use, 0 if there is none
    tmMade,        \* sandboxes made so far
    tmLive,        \* sandboxes that exist
    tmHas,         \* sandbox -> version of the file it holds
    tmSynced,      \* _synced_files
    tmLock,        \* {the task that holds _lock}
    tmCall,        \* caller -> its call
    \* History.
    tmChecked,     \* containers that _validate_sandbox found right
    tmRuns,        \* calls so far
    tmOverlap,     \* two calls, or a call and a close, were under way at once
    tmDropped      \* a dead sandbox was given up without close, or (Modal) a file that could not be copied

tmWorld == <<tmLocal, tmMade, tmLive, tmHas, tmChecked>>
tmVars == <<tmKind, tmLocal, tmBox, tmMade, tmLive, tmHas, tmSynced, tmLock, tmCall, tmChecked, tmRuns, tmOverlap, tmDropped>>

\* The course of a call: where it begins, the stages it is in under the lock, and whether it copies files.
\* E2B: everything under the lock.
TmE2b == [first |-> "lock", syncs |-> TRUE, locked |-> {"check", "create", "hash", "read", "upload", "record", "run", "running"}]
\* Vercel: connect takes the lock, copying and running do not.
TmVercel == [first |-> "lock", syncs |-> TRUE, locked |-> {"check", "create"}]
\* Modal: no lock, and one network file system for ever.
TmModal == [first |-> "check", syncs |-> TRUE, locked |-> {}]
\* Daytona and SSH: the call's thread looks for a sandbox or connection and makes one; only connect and close take the lock.
TmDaytona == [first |-> "check", syncs |-> FALSE, locked |-> {}]
TmSsh == [first |-> "check", syncs |-> FALSE, locked |-> {}]
\* Docker: container_running is looked at first; start takes the lock; the workspace is mounted.
TmDocker == [first |-> "peek", syncs |-> FALSE, locked |-> {"check", "create", "validate"}]

TmCourse == [e2b |-> TmE2b, vercel |-> TmVercel, modal |-> TmModal, daytona |-> TmDaytona, ssh |-> TmSsh, docker |-> TmDocker]
TmKinds == DOMAIN TmCourse
TmCopies == tmKind # "off" /\ TmCourse[tmKind].syncs
TmIdle == [stage |-> "idle", box |-> 0, hash |-> 0, content |-> 0]

TmInit ==
    /\ tmKind = "off" /\ tmLocal = 1 /\ tmBox = 0 /\ tmMade = 0 /\ tmLive = {} /\ tmHas = [b \in 1 .. TmMaxBoxes |-> 0]
    /\ tmSynced = 0 /\ tmLock = {} /\ tmCall = [c \in TmCallers |-> TmIdle]
    /\ tmChecked = {} /\ tmRuns = 0 /\ tmOverlap = FALSE /\ tmDropped = FALSE

\* create_backend
TmCreateBackend ==
    /\ tmKind = "off" /\ tmKind' \in TmKinds
    /\ UNCHANGED <<tmWorld, tmBox, tmSynced, tmLock, tmCall, tmRuns, tmOverlap, tmDropped>>

TmAt(c, stage) == tmCall' = [tmCall EXCEPT ![c].stage = stage]
TmLocked(kind, stage) == stage \in TmCourse[kind].locked

\* The stage after the sandbox is there.
TmReady == IF TmCopies THEN "hash" ELSE "run"

\* Leaves the lock when the stage is one that does not hold it.
TmMoves(c, stage) == TmAt(c, stage) /\ tmLock' = IF TmLocked(tmKind, stage) THEN tmLock ELSE tmLock \ {c}
\* A call that ends, with an exit code or an error.
TmDone(c) == tmCall' = [tmCall EXCEPT ![c] = TmIdle] /\ tmLock' = tmLock \ {c}

\* Mutant: a failure leaves the lock held.
TmFailedHeld(c) == tmCall' = [tmCall EXCEPT ![c] = TmIdle] /\ UNCHANGED tmLock

TmFailed(c) == TmDone(c)

\* execute_bash, execute_python
TmExecute(c) ==
    /\ tmKind # "off" /\ tmCall[c].stage = "idle" /\ tmRuns < TmMaxRuns /\ tmRuns' = tmRuns + 1
    /\ TmAt(c, IF TmCourse[tmKind].first # "peek" THEN TmCourse[tmKind].first ELSE IF tmBox # 0 THEN "run" ELSE "lock")
    /\ tmOverlap' = (tmOverlap \/ \E d \in TmCallers : tmCall[d].stage # "idle")
    /\ UNCHANGED <<tmKind, tmWorld, tmBox, tmSynced, tmLock, tmDropped>>

TmAcquires(c) ==
    /\ tmCall[c].stage = "lock" /\ tmLock = {} /\ tmLock' = {c} /\ TmAt(c, "check")
    /\ UNCHANGED <<tmKind, tmWorld, tmBox, tmSynced, tmRuns, tmOverlap, tmDropped>>

\* Mutant: start does not look again once it has the lock.
TmHaveBoxNoLook == tmBox # 0 /\ tmKind # "docker"

\* SSH looks whether the transport is active as well.
TmHaveBox == tmBox # 0 /\ (tmKind = "ssh" => tmBox \in tmLive)

TmConnect(c) ==
    /\ tmCall[c].stage = "check" /\ IF TmHaveBox THEN TmMoves(c, TmReady) ELSE TmMoves(c, "create")
    /\ UNCHANGED <<tmKind, tmWorld, tmBox, tmSynced, tmRuns, tmOverlap, tmDropped>>

\* The sandbox is made; Modal looks its deployed app up, or deploys it, and has one network file system.
TmCreated(c) ==
    /\ tmCall[c].stage = "create" /\ (tmMade < TmMaxBoxes \/ (tmKind = "modal" /\ tmMade > 0))
    /\ LET b == IF tmKind = "modal" THEN 1 ELSE tmMade + 1 IN
          /\ tmMade' = b /\ tmBox' = b
          /\ tmLive' = (IF tmKind = "ssh" THEN tmLive \ {tmBox} ELSE tmLive) \union {b}
    /\ TmMoves(c, IF tmKind = "docker" THEN "validate" ELSE TmReady)
    /\ UNCHANGED <<tmKind, tmLocal, tmHas, tmChecked, tmSynced, tmRuns, tmOverlap, tmDropped>>

TmCreateFails(c) == tmCall[c].stage = "create" /\ TmFailed(c) /\ UNCHANGED <<tmKind, tmWorld, tmBox, tmSynced, tmRuns, tmOverlap, tmDropped>>

\* Mutant: a container that fails the validation is kept.
TmRefusedKept(b) == UNCHANGED <<tmBox, tmLive>>

\* _stop_container
TmRefused(b) == tmBox' = 0 /\ tmLive' = tmLive \ {b}

\* _validate_sandbox runs two programs in the container; container_running is set already.
TmValidate(c, right) ==
    /\ tmCall[c].stage = "validate"
    /\ IF right THEN tmChecked' = tmChecked \union {tmBox} /\ TmMoves(c, "run") /\ UNCHANGED <<tmBox, tmLive>>
       ELSE TmRefused(tmBox) /\ TmFailed(c) /\ UNCHANGED tmChecked
    /\ UNCHANGED <<tmKind, tmLocal, tmMade, tmHas, tmSynced, tmRuns, tmOverlap, tmDropped>>

-----------------------------------------------------------------------------
(* _sync_workspace *)

TmHash(c) ==
    /\ tmCall[c].stage = "hash"
    /\ tmCall' = [tmCall EXCEPT ![c].hash = tmLocal, ![c].stage = IF tmSynced = tmLocal THEN "run" ELSE "read"]
    /\ UNCHANGED <<tmKind, tmWorld, tmBox, tmSynced, tmLock, tmRuns, tmOverlap, tmDropped>>

\* The content is read after the hash; then the upload begins, if the sandbox is still there.
TmRead(c) ==
    /\ tmCall[c].stage = "read"
    /\ IF tmBox = 0 THEN TmFailed(c)
       ELSE tmCall' = [tmCall EXCEPT ![c].content = tmLocal, ![c].box = tmBox, ![c].stage = "upload"] /\ UNCHANGED tmLock
    /\ UNCHANGED <<tmKind, tmWorld, tmBox, tmSynced, tmRuns, tmOverlap, tmDropped>>

\* write_files, at the service.
TmLands(c) ==
    /\ tmCall[c].stage = "upload" /\ tmCall[c].box \in tmLive
    /\ tmHas' = [tmHas EXCEPT ![tmCall[c].box] = tmCall[c].content] /\ TmAt(c, "record")
    /\ UNCHANGED <<tmKind, tmLocal, tmMade, tmLive, tmChecked, tmBox, tmSynced, tmLock, tmRuns, tmOverlap, tmDropped>>

\* Mutant: the file is hashed again for the table.
TmRecordedNow(c) == tmLocal

TmRecorded(c) == tmCall[c].hash

TmRecord(c) ==
    /\ tmCall[c].stage = "record" /\ tmSynced' = TmRecorded(c) /\ TmAt(c, "run")
    /\ UNCHANGED <<tmKind, tmWorld, tmBox, tmLock, tmRuns, tmOverlap, tmDropped>>

\* E2B forgets a sandbox whose request raised a SandboxException, but not what was copied to it.
TmGivesUp(c) == IF tmKind = "e2b" /\ tmCall[c].box \notin tmLive THEN tmBox' = 0 /\ tmDropped' = TRUE ELSE UNCHANGED <<tmBox, tmDropped>>

\* The upload fails: Modal only logs that and runs the command without the file.
TmUploadFails(c) ==
    /\ tmCall[c].stage = "upload"
    /\ IF tmKind = "modal" THEN TmAt(c, "run") /\ tmDropped' = TRUE /\ UNCHANGED <<tmLock, tmBox>> ELSE TmGivesUp(c) /\ TmFailed(c)
    /\ UNCHANGED <<tmKind, tmWorld, tmSynced, tmRuns, tmOverlap>>

-----------------------------------------------------------------------------
(* The command *)

TmRuns(c) ==
    /\ tmCall[c].stage = "run"
    /\ IF tmBox = 0 THEN TmFailed(c) ELSE tmCall' = [tmCall EXCEPT ![c].box = tmBox, ![c].stage = "running"] /\ UNCHANGED tmLock
    /\ UNCHANGED <<tmKind, tmWorld, tmBox, tmSynced, tmRuns, tmOverlap, tmDropped>>

\* An exit code, a timeout (-9), or an error (-1).
TmEnds(c) ==
    /\ tmCall[c].stage = "running" /\ TmGivesUp(c) /\ TmDone(c)
    /\ UNCHANGED <<tmKind, tmWorld, tmSynced, tmRuns, tmOverlap>>

\* close or stop, under the lock; Modal has none.
TmClose ==
    /\ tmKind \notin {"off", "modal"} /\ tmBox # 0 /\ tmLock = {}
    /\ tmBox' = 0 /\ tmLive' = tmLive \ {tmBox} /\ tmSynced' = 0
    /\ tmOverlap' = (tmOverlap \/ \E d \in TmCallers : tmCall[d].stage # "idle")
    /\ UNCHANGED <<tmKind, tmLocal, tmMade, tmHas, tmChecked, tmLock, tmCall, tmRuns, tmDropped>>

\* The service ends the sandbox, or the connection breaks.
TmDies ==
    /\ tmKind \notin {"off", "modal"} /\ tmBox \in tmLive /\ tmLive' = tmLive \ {tmBox}
    /\ UNCHANGED <<tmKind, tmLocal, tmBox, tmMade, tmHas, tmChecked, tmSynced, tmLock, tmCall, tmRuns, tmOverlap, tmDropped>>

TmEdited ==
    /\ TmCopies /\ tmLocal < TmMaxVersion /\ tmLocal' = tmLocal + 1
    /\ UNCHANGED <<tmKind, tmBox, tmMade, tmLive, tmHas, tmChecked, tmSynced, tmLock, tmCall, tmRuns, tmOverlap, tmDropped>>

TmNext ==
    \/ TmCreateBackend \/ TmClose \/ TmDies \/ TmEdited
    \/ \E c \in TmCallers :
          \/ TmExecute(c) \/ TmAcquires(c) \/ TmConnect(c) \/ TmCreated(c) \/ TmCreateFails(c) \/ \E right \in BOOLEAN : TmValidate(c, right)
          \/ TmHash(c) \/ TmRead(c) \/ TmLands(c) \/ TmRecord(c) \/ TmUploadFails(c) \/ TmRuns(c) \/ TmEnds(c)

TmSpec == TmInit /\ [][TmNext]_tmVars

-----------------------------------------------------------------------------
(* Properties *)

\* The variables have their types, and the lock is held exactly by the call
\* that is in a part of the code under it, whatever failed before.
TmTypeOK ==
    /\ tmLocal \in 1 .. TmMaxVersion /\ tmBox \in 0 .. tmMade /\ tmLive \subseteq 1 .. tmMade /\ tmSynced \in 0 .. tmLocal
    /\ \A c \in TmCallers : tmLock = {c} <=> tmKind # "off" /\ TmLocked(tmKind, tmCall[c].stage)

\* A command finds the file at least as new as it was when the call looked at
\* it.  With E2B that holds also for calls at once, but not after a sandbox was
\* given up: the table still says that the file was copied.  Modal runs the
\* command also when the copying failed.  With Vercel and Modal two calls at once can copy an old version over a new one.
FilesSeen ==
    \A c \in TmCallers :
        /\ tmCall[c].stage = "running" /\ TmCopies /\ ~tmDropped /\ (tmKind = "e2b" \/ ~tmOverlap)
        /\ tmCall[c].box \in tmLive
        => tmHas[tmCall[c].box] >= tmCall[c].hash

\* Nothing runs on unreferenced and nothing is made twice: a sandbox that
\* exists is the one in use.  The threads of SSH and Daytona look and make
\* without a lock, so for them two calls at once are excluded.
OneSandbox == tmKind \in {"e2b", "vercel", "docker"} \/ ~tmOverlap => tmLive \subseteq {tmBox}

\* A command runs only in a container that passed the validation, unless it
\* came while another call was making the container.
ValidatedOnly ==
    \A c \in TmCallers : tmKind = "docker" /\ tmCall[c].stage = "running" /\ ~tmOverlap => tmCall[c].box \in tmChecked

=============================================================================
