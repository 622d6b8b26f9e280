------------------------------- MODULE Sandbox -------------------------------
(***************************************************************************)
(* Running and confining what the agent executes, one part per mode: code  *)
(* and commands in a child process (CodeSandbox of security/sandbox.py and *)
(* ExecTool of agent/tools/shell.py, "exec"), the seccomp program ("bpf"), *)
(* the unpacking of archives ("unpack"), and the checks of paths in the    *)
(* file tools, archives, temporary and subagent workspaces ("path").       *)
(***************************************************************************)
EXTENDS Integers, Sequences, FiniteSets, SequencesExt

CONSTANTS
    SbMaxBytes, SbMaxFiles,     \* max_bytes, max_files
    SbMaxEntries,               \* bound: entries of an archive
    SbMaxPath                   \* bound: components of a path

ASSUME SbAssumption == SbMaxBytes \in Nat /\ SbMaxFiles \in Nat /\ SbMaxEntries \in Nat

VARIABLES
    sbMode,             \* "off", "exec", "bpf", "unpack" or "path"
    sbKind,             \* exec: "python", "bash", "tool"; unpack: "zip", "tar"
    sbAt,               \* exec: "docker", "local", "waiting", "drain", "wait", "returned", "given up"; others: "busy", "returned", "refused"
    sbProc,             \* the child: "none", "running", "dead"
    sbKids,             \* children of the shell run and hold its pipes
    sbLayers,           \* restrictions in force in the child
    sbBroken,           \* restrictions the kernel or libc refuses
    sbTmp,              \* the temporary directory with the code exists
    sbPc, sbAcc,        \* bpf: program counter, accumulator
    sbCall,             \* bpf: [arch, nr] of the system call
    sbLeft, sbDone,     \* unpack: entries to come, entries written
    sbSum,              \* unpack: total_uncompressed
    sbPath              \* path: [abs, parts]

sbVars == <<sbMode, sbKind, sbAt, sbProc, sbKids, sbLayers, sbBroken, sbTmp, sbPc, sbAcc, sbCall, sbLeft, sbDone, sbSum, sbPath>>
sbExecVars == <<sbKind, sbProc, sbKids, sbLayers, sbBroken, sbTmp>>
sbBpfVars == <<sbPc, sbAcc, sbCall>>
sbUnpackVars == <<sbLeft, sbDone, sbSum>>

SbNoPath == [abs |-> FALSE, parts |-> <<>>]
SbInit ==
    /\ sbMode = "off" /\ sbKind = "none" /\ sbAt = "busy" /\ sbProc = "none" /\ sbKids = FALSE /\ sbLayers = {} /\ sbBroken = {}
    /\ sbTmp = FALSE /\ sbPc = 1 /\ sbAcc = 0 /\ sbCall = [arch |-> 0, nr |-> 0] /\ sbLeft = <<>> /\ sbDone = <<>> /\ sbSum = 0
    /\ sbPath = SbNoPath

---------------------------------------------------------------------------
(* Execution in a child. *)
SbSteps == <<"namespaces", "limits", "capabilities", "landlock", "seccomp">>

\* apply_sandbox_to_current_process attempts one after the other and suppresses what they raise; dropping
\* capabilities needs the libc that the first one loaded. ExecTool applies Landlock only.
SbUntilBroken(kind, broken) ==
    {SbSteps[i] : i \in {i \in 1 .. 5 : \A j \in 1 .. i : SbSteps[j] \notin broken}} \ (IF kind = "bash" THEN {"seccomp"} ELSE {})
SbApplied(kind, broken) ==
    IF kind = "tool" THEN {"landlock"} \ broken
    ELSE ({SbSteps[i] : i \in 1 .. 5} \ broken) \ ((IF kind = "bash" THEN {"seccomp"} ELSE {}) \cup (IF "libc" \in broken THEN {"namespaces", "capabilities", "landlock", "seccomp"} ELSE {}))

SbBegin(kind, docker) ==
    /\ sbMode = "off" /\ sbMode' = "exec" /\ sbKind' = kind
    /\ kind = "tool" => ~docker
    /\ sbAt' = IF docker THEN "docker" ELSE "local"
    /\ UNCHANGED <<sbProc, sbKids, sbLayers, sbBroken, sbTmp, sbBpfVars, sbUnpackVars, sbPath>>

\* _guard_command refuses the command.
SbGuard ==
    /\ sbMode = "exec" /\ sbKind = "tool" /\ sbAt = "local" /\ sbAt' = "returned"
    /\ UNCHANGED <<sbMode, sbExecVars, sbBpfVars, sbUnpackVars, sbPath>>

\* The Docker backend answers, or fails and the local sandbox is used instead.
SbDocker(ok) ==
    /\ sbMode = "exec" /\ sbAt = "docker" /\ sbAt' = IF ok THEN "returned" ELSE "local"
    /\ UNCHANGED <<sbMode, sbExecVars, sbBpfVars, sbUnpackVars, sbPath>>
SbSpawn(ok, broken) ==
    /\ sbMode = "exec" /\ sbAt = "local" /\ sbBroken' = broken
    /\ sbAt' = (IF ok THEN "waiting" ELSE "returned") /\ sbProc' = (IF ok THEN "running" ELSE "none")
    /\ sbLayers' = (IF ok THEN SbApplied(sbKind, broken) ELSE {}) /\ sbTmp' = (ok /\ sbKind = "python")
    /\ UNCHANGED <<sbMode, sbKind, sbKids, sbBpfVars, sbUnpackVars, sbPath>>

\* The child starts others, ends, and they end.
SbFork ==
    /\ sbMode = "exec" /\ sbProc = "running" /\ sbKind # "python" /\ ~sbKids /\ sbAt = "waiting" /\ sbKids' = TRUE
    /\ UNCHANGED <<sbMode, sbKind, sbAt, sbProc, sbLayers, sbBroken, sbTmp, sbBpfVars, sbUnpackVars, sbPath>>
SbChildEnds ==
    /\ sbMode = "exec" /\ sbProc = "running" /\ sbProc' = "dead"
    /\ UNCHANGED <<sbMode, sbKind, sbAt, sbKids, sbLayers, sbBroken, sbTmp, sbBpfVars, sbUnpackVars, sbPath>>
SbKidsEnd ==
    /\ sbMode = "exec" /\ sbKids /\ sbKids' = FALSE
    /\ UNCHANGED <<sbMode, sbKind, sbAt, sbProc, sbLayers, sbBroken, sbTmp, sbBpfVars, sbUnpackVars, sbPath>>

\* communicate returns once the child is dead and its pipes are closed.
SbReturn == sbAt' = "returned" /\ sbTmp' = FALSE
SbCommunicated ==
    /\ sbMode = "exec" /\ sbAt \in {"waiting", "drain"} /\ sbProc = "dead" /\ ~sbKids /\ SbReturn
    /\ UNCHANGED <<sbMode, sbKind, sbProc, sbKids, sbLayers, sbBroken, sbBpfVars, sbUnpackVars, sbPath>>

\* The timeout kills the child; CodeSandbox then reads its pipes to the end, ExecTool waits for it for 5 seconds.
SbKilledNot == sbProc
SbKilled == "dead"
SbTimeout ==
    /\ sbMode = "exec" /\ sbAt = "waiting" /\ sbProc' = SbKilled /\ sbAt' = IF sbKind = "tool" THEN "wait" ELSE "drain"
    /\ UNCHANGED <<sbMode, sbKind, sbKids, sbLayers, sbBroken, sbTmp, sbBpfVars, sbUnpackVars, sbPath>>
SbWaitsForPipes == ~sbKids
SbWaits == TRUE
SbWaited ==
    /\ sbMode = "exec" /\ sbAt = "wait" /\ SbWaits /\ SbReturn
    /\ UNCHANGED <<sbMode, sbKind, sbProc, sbKids, sbLayers, sbBroken, sbBpfVars, sbUnpackVars, sbPath>>

\* The caller is cancelled: the temporary directory goes, the child stays.
SbCancelled ==
    /\ sbMode = "exec" /\ sbAt \in {"waiting", "drain", "wait"} /\ sbAt' = "given up" /\ sbTmp' = FALSE
    /\ UNCHANGED <<sbMode, sbKind, sbProc, sbKids, sbLayers, sbBroken, sbBpfVars, sbUnpackVars, sbPath>>

---------------------------------------------------------------------------
(* The seccomp program: load, compare and jump, return. Offsets 4 and 0 hold the architecture and the number. *)
SbArchs == {"x86_64", "aarch64"}
SbExecve(a) == IF a = "x86_64" THEN 59 ELSE 221
SbPtrace(a) == IF a = "x86_64" THEN 101 ELSE 117
SbAudit(a) == IF a = "x86_64" THEN 62 ELSE 183
SbLoad(k) == [op |-> "load", k |-> k, jt |-> 0, jf |-> 0]
SbIf(k, jt, jf) == [op |-> "jeq", k |-> k, jt |-> jt, jf |-> jf]
SbRet(k) == [op |-> "ret", k |-> k, jt |-> 0, jf |-> 0]
SbDeny == 13
SbAllow == 0
SbProgramSwapped(a) ==
    <<SbLoad(4), SbIf(SbAudit(a), 1, 0), SbRet(SbDeny), SbLoad(0), SbIf(SbExecve(a), 1, 0), SbRet(SbDeny),
      SbIf(SbPtrace(a), 0, 1), SbRet(SbDeny), SbRet(SbAllow)>>
SbProgram(a) ==
    <<SbLoad(4), SbIf(SbAudit(a), 1, 0), SbRet(SbDeny), SbLoad(0), SbIf(SbExecve(a), 0, 1), SbRet(SbDeny),
      SbIf(SbPtrace(a), 0, 1), SbRet(SbDeny), SbRet(SbAllow)>>

SbSyscall(a, arch, nr) ==
    /\ sbMode = "off" /\ sbMode' = "bpf" /\ sbKind' = a /\ sbCall' = [arch |-> arch, nr |-> nr]
    /\ UNCHANGED <<sbAt, sbProc, sbKids, sbLayers, sbBroken, sbTmp, sbPc, sbAcc, sbUnpackVars, sbPath>>
SbBpfStep ==
    /\ sbMode = "bpf" /\ sbAt = "busy"
    /\ LET i == SbProgram(sbKind)[sbPc]
       IN CASE i.op = "load" -> sbAcc' = (IF i.k = 4 THEN sbCall.arch ELSE sbCall.nr) /\ sbPc' = sbPc + 1 /\ UNCHANGED sbAt
            [] i.op = "jeq" -> sbPc' = sbPc + 1 + (IF sbAcc = i.k THEN i.jt ELSE i.jf) /\ UNCHANGED <<sbAcc, sbAt>>
            [] i.op = "ret" -> sbAt' = (IF i.k = SbDeny THEN "refused" ELSE "returned") /\ UNCHANGED <<sbPc, sbAcc>>
    /\ UNCHANGED <<sbMode, sbExecVars, sbCall, sbUnpackVars, sbPath>>

---------------------------------------------------------------------------
(* Paths: "r" is the root, "r2" a directory beside it, "l" a symbolic link in the root to the directory "o". *)
SbParts == {"r", "r2", "x", "..", "l"}
SbPaths == [abs : BOOLEAN, parts : UNION {[1 .. n -> SbParts] : n \in 0 .. SbMaxPath}]
SbGo(at, part) ==
    CASE part = ".." -> IF at = <<>> THEN <<>> ELSE Front(at)
      [] part = "l" /\ at = <<"r">> -> <<"o">>
      [] OTHER -> Append(at, part)
SbResolve(p) == FoldLeft(SbGo, IF p.abs THEN <<>> ELSE <<"r">>, p.parts)

\* Some parent of the resolved path, or the path itself, is the root; resolve() has removed links and "..".
SbInsideByName(p) == LET q == IF p.abs THEN p.parts ELSE <<"r">> \o p.parts IN q # <<>> /\ q[1] = "r"
SbInside(p) == LET q == SbResolve(p) IN q # <<>> /\ q[1] = "r"
SbCheck(p) ==
    /\ sbMode = "off" /\ sbMode' = "path" /\ sbPath' = p /\ sbAt' = IF SbInside(p) THEN "returned" ELSE "refused"
    /\ UNCHANGED <<sbExecVars, sbBpfVars, sbUnpackVars>>

---------------------------------------------------------------------------
(* Archives: an entry has a size and may lie outside, be a link, or bring the totals of a zip above max_ratio; what *)
(* was written stays when a later one is refused. *)
SbEntries == [size : 0 .. 2, is : {"plain", "outside", "link", "dense"}]
SbPlace(e) == [abs |-> FALSE, parts |-> IF e.is = "outside" THEN <<"..", "r2">> ELSE <<"x">>]
SbUnpack(kind, entries) ==
    /\ sbMode = "off" /\ sbMode' = "unpack" /\ sbKind' = kind /\ sbLeft' = entries
    /\ sbAt' = IF kind = "zip" /\ Len(entries) > SbMaxFiles THEN "refused" ELSE "busy"
    /\ UNCHANGED <<sbProc, sbKids, sbLayers, sbBroken, sbTmp, sbBpfVars, sbDone, sbSum, sbPath>>
SbTooBigEach(sum, e) == e.size > SbMaxBytes
SbTooBig(sum, e) == sum + e.size > SbMaxBytes
SbRefused(e) ==
    \/ sbKind = "tar" /\ Len(sbDone) + 1 > SbMaxFiles
    \/ SbTooBig(sbSum, e)
    \/ sbKind = "zip" /\ e.is = "dense"
    \/ ~SbInside(SbPlace(e))
    \/ e.is = "link"
SbEntry ==
    /\ sbMode = "unpack" /\ sbAt = "busy" /\ sbLeft # <<>>
    /\ LET e == Head(sbLeft)
       IN IF SbRefused(e) THEN sbAt' = "refused" /\ UNCHANGED sbUnpackVars
          ELSE sbDone' = Append(sbDone, e) /\ sbLeft' = Tail(sbLeft) /\ sbSum' = sbSum + e.size /\ UNCHANGED sbAt
    /\ UNCHANGED <<sbMode, sbExecVars, sbBpfVars, sbPath>>
SbUnpacked ==
    /\ sbMode = "unpack" /\ sbAt = "busy" /\ sbLeft = <<>> /\ sbAt' = "returned"
    /\ UNCHANGED <<sbMode, sbExecVars, sbBpfVars, sbUnpackVars, sbPath>>

---------------------------------------------------------------------------
SbBreakable == {{}, {"libc"}, {"namespaces"}, {"limits", "landlock"}, {"landlock", "seccomp"}}
SbNext ==
    \/ \E k \in {"python", "bash", "tool"}, d \in BOOLEAN : SbBegin(k, d)
    \/ \E b \in BOOLEAN : SbDocker(b) \/ \E x \in SbBreakable : SbSpawn(b, x)
    \/ SbGuard \/ SbFork \/ SbChildEnds \/ SbKidsEnd \/ SbCommunicated \/ SbTimeout \/ SbWaited \/ SbCancelled
    \/ \E a \in SbArchs, arch \in {62, 183}, nr \in {0, 59, 101, 117, 221} : SbSyscall(a, arch, nr)
    \/ SbBpfStep \/ SbEntry \/ SbUnpacked
    \/ \E p \in SbPaths : SbCheck(p)
    \/ \E k \in {"zip", "tar"}, n \in 1 .. SbMaxEntries : \E es \in [1 .. n -> SbEntries] : SbUnpack(k, es)

\* Timeouts fire and the waits they start go on.
SbFairness == WF_sbVars(SbCommunicated) /\ WF_sbVars(SbTimeout) /\ WF_sbVars(SbWaited)
SbSpec == SbInit /\ [][SbNext]_sbVars /\ SbFairness

---------------------------------------------------------------------------
\* When execute_python, execute_bash or ExecTool returns, the process it started is not running and the directory
\* with the code is gone (a cancelled caller leaves the process behind).
SbNothingLeft == (sbMode = "exec" /\ sbAt = "returned") => (sbProc # "running" /\ ~sbTmp)

\* A restriction that cannot be set does not keep the others from being set: what runs in the local sandbox has
\* every restriction the system supports (apply_sandbox_to_current_process).
SbLayersIndependent ==
    (sbMode = "exec" /\ sbProc = "running" /\ "libc" \notin sbBroken) =>
    (IF sbKind = "tool" THEN {"landlock"} ELSE {"namespaces", "limits", "capabilities", "landlock"} \cup (IF sbKind = "python" THEN {"seccomp"} ELSE {})) \ sbBroken \subseteq sbLayers

\* ExecTool answers after its timeout although processes the command started hold its pipes open.
SbToolAnswers == []<>(sbKind = "tool" => sbAt \notin {"waiting", "wait", "drain"})

\* The seccomp program stays within its instructions, ends, and lets a system call pass exactly if it is of the
\* architecture the program is for and is neither execve nor ptrace (apply_seccomp_filters).
SbFilterExact ==
    sbMode = "bpf" => (sbPc \in DOMAIN SbProgram(sbKind)
        /\ (sbAt = "returned" => (sbCall.arch = SbAudit(sbKind) /\ sbCall.nr \notin {SbExecve(sbKind), SbPtrace(sbKind)}))
        /\ (sbAt = "refused" => (sbCall.arch # SbAudit(sbKind) \/ sbCall.nr \in {SbExecve(sbKind), SbPtrace(sbKind)})))

\* An accepted path leads, link by link, to a place under the root, however it is written (_resolve_path,
\* resolve_safe_path, is_path_allowed).
SbContained == (sbMode = "path" /\ sbAt = "returned") => (SbResolve(sbPath) # <<>> /\ SbResolve(sbPath)[1] = "r")

\* At every moment of the unpacking, of an archive that is refused later too, the files written are within the
\* limits of size and number and none is outside or a link (extract_zip, extract_tar).
SbBytes == UNION {{i} \X (1 .. sbDone[i].size) : i \in DOMAIN sbDone}
SbUnpackBounded ==
    sbMode = "unpack" => (Cardinality(SbBytes) <= SbMaxBytes /\ Len(sbDone) <= SbMaxFiles /\ \A i \in DOMAIN sbDone : sbDone[i].is # "link" /\ SbInside(SbPlace(sbDone[i])))
=============================================================================
