------------------------------- MODULE Skills -------------------------------
(***************************************************************************)
(* What the agent learns and keeps as skills, one part per mode: the files *)
(* of created, edited, merged, refined and deleted skills                  *)
(* (agent/learning/skill_creator.py, skill_improver.py, the tool           *)
(* skill_manage of agent/tools/skills.py; "files"), installed skills and   *)
(* their scan (skill_install, agent/skills.py; "install"), the registry of *)
(* the API (skills/, api/v1/skills.py; "registry") and the refinement of   *)
(* an answer (agent/learning_loop.py; "learn").                            *)
(***************************************************************************)
EXTENDS Integers, Sequences, FiniteSets

CONSTANTS
    SkNames,            \* names of skills
    SkPairs,            \* bound: pairs of names that are merged
    SkInstalls,         \* concurrent calls of skill_install
    SkMaxPieces,        \* bound: contents written
    SkMaxRuns,          \* bound: executions in the telemetry
    SkMaxIterations,    \* max_iterations
    SkTarget            \* target_score, in tenths

ASSUME SkIterationsAssumption == SkMaxIterations \in Nat \ {0}
ASSUME SkPairsAssumption == SkPairs \subseteq SkNames \X SkNames

VARIABLES
    skMode,             \* "off", "files", "install", "registry" or "learn"
    skFile,             \* place -> name -> the pieces of knowledge of the file
    skTodo,             \* file operations of the running handler: <<place, name, content>>
    skCut,              \* history: names whose last operation was interrupted
    skKeep,             \* history: what the last merge read
    skRefine,           \* check_and_refine that waits for the LLM: <<name, content read>>, or <<>>
    skRuns,             \* telemetry: name -> [ok, bad]
    skNext,             \* next piece
    skRoot,             \* name -> skills/<name> of the workspace: "none", "safe" or "risky"
    skInst,             \* call -> [at, slug]
    skReport,           \* name -> what the last finished installation said, "none"
    skDisk,             \* directory -> [name, on] of its SKILL.md or skill.json; 0 is the search path itself
    skReg, skUser,      \* name -> "none", "on", "off": registered; history: what the operator asked for
    skIter, skPhase,    \* iteration; "reflect", "revise", "done", "failed"
    skResp, skScored,   \* version of the answer; the version that final_score is about
    skScore, skGood     \* quality_score in tenths, is_successful

skFileVars == <<skFile, skTodo, skCut, skKeep, skRefine, skRuns, skNext>>
skInstVars == <<skRoot, skInst, skReport>>
skRegVars == <<skDisk, skReg, skUser>>
skLearnVars == <<skIter, skPhase, skResp, skScored, skScore, skGood>>
skVars == <<skMode, skFileVars, skInstVars, skRegVars, skLearnVars>>

\* ~/.amberclaw/skills/auto-created/X.md, skills/auto-created/X/SKILL.md and skills/X of the workspace.
SkPlaces == {"global", "auto", "root"}
SkPlain == {<<n>> : n \in SkNames}
SkMergedNames == SkPairs
SkAbsent == {0}
SkDirs == 0 .. 2
SkNoDir == [name |-> "none", on |-> TRUE]
SkInit ==
    /\ skMode = "off"
    /\ skFile = [p \in SkPlaces |-> [n \in SkPlain \cup SkMergedNames |-> SkAbsent]]
    /\ skTodo = <<>> /\ skCut = {} /\ skKeep = {} /\ skRefine = <<>> /\ skRuns = [n \in SkPlain |-> [ok |-> 0, bad |-> 0]] /\ skNext = 1
    /\ skRoot = [n \in SkNames |-> "none"] /\ skInst = [i \in SkInstalls |-> [at |-> "idle", slug |-> "none"]] /\ skReport = [n \in SkNames |-> "none"]
    /\ skDisk = [d \in SkDirs |-> SkNoDir] /\ skReg = [n \in SkNames |-> "none"] /\ skUser = [n \in SkNames |-> "none"]
    /\ skIter = 1 /\ skPhase = "reflect" /\ skResp = 0 /\ skScored = -1 /\ skScore = 0 /\ skGood = FALSE
SkChoose(m) == skMode = "off" /\ skMode' = m /\ UNCHANGED <<skFileVars, skInstVars, skRegVars, skLearnVars>>

---------------------------------------------------------------------------
(* The files of skills. A handler writes and removes them without an await, so only a crash or an error interrupts it. *)
SkOnlyFiles == UNCHANGED <<skMode, skInstVars, skRegVars, skLearnVars>>
SkExists(p, n) == skFile[p][n] # SkAbsent
SkIdle == skMode = "files" /\ skTodo = <<>>

\* _load_skill_content: the global copy before the one of the workspace; an empty file counts as none.
SkLoadContent(n) ==
    LET p == IF SkExists("global", n) THEN "global" ELSE IF SkExists("auto", n) THEN "auto" ELSE "root"
    IN skFile[p][n] \ SkAbsent

SkBothCopiesGlobal(n, content) == <<<<"global", n, content>>>>
SkBothCopies(n, content) == <<<<"global", n, content>>, <<"auto", n, content>>>>
SkRemoval(n) == <<<<"global", n, SkAbsent>>, <<"auto", n, SkAbsent>>, <<"root", n, SkAbsent>>>>
SkStart(todo, keep, fresh) ==
    /\ skTodo' = todo /\ skKeep' = keep /\ skNext' = skNext + fresh
    /\ skCut' = skCut \ {todo[i][2] : i \in {j \in 1 .. Len(todo) : todo[j][1] = "auto"}}

\* monitor_and_create writes a skill only for long trajectories, under the name the LLM gives it; the reply may be nothing but a fence.
SkWorthIt(turns, calls) == ~ (turns <= 3 /\ calls <= 5)
SkCreate(n, turns, calls, empty) ==
    /\ SkIdle /\ skNext <= SkMaxPieces /\ SkWorthIt(turns, calls)
    /\ SkStart(SkBothCopies(n, IF empty THEN {} ELSE {skNext}), {}, 1)
    /\ UNCHANGED <<skFile, skRefine, skRuns>> /\ SkOnlyFiles
SkEdit(n) ==
    /\ SkIdle /\ skNext <= SkMaxPieces /\ SkStart(SkBothCopies(n, {skNext}), {}, 1)
    /\ UNCHANGED <<skFile, skRefine, skRuns>> /\ SkOnlyFiles
\* skill_install puts a skill into the workspace.
SkPlaced(n) ==
    /\ SkIdle /\ skNext <= SkMaxPieces /\ SkStart(<<<<"root", n, {skNext}>>>>, {}, 1)
    /\ UNCHANGED <<skFile, skRefine, skRuns>> /\ SkOnlyFiles
SkDelete(n) ==
    /\ SkIdle /\ SkStart(SkRemoval(n), {}, 0) /\ UNCHANGED <<skFile, skRefine, skRuns>> /\ SkOnlyFiles

\* merge without content joins what it reads, writes the new skill and removes both sources.
SkMergePlanRemovesFirst(s, t, both) == SkRemoval(s) \o SkRemoval(t) \o SkBothCopies(s \o t, both)
SkMergePlan(s, t, both) == SkBothCopies(s \o t, both) \o SkRemoval(s) \o SkRemoval(t)
SkMerge(s, t) ==
    /\ SkIdle /\ SkLoadContent(s) # {} /\ SkLoadContent(t) # {}
    /\ LET both == SkLoadContent(s) \cup SkLoadContent(t) IN SkStart(SkMergePlan(s, t, both), both, 0)
    /\ UNCHANGED <<skFile, skRefine, skRuns>> /\ SkOnlyFiles

SkStep ==
    /\ skMode = "files" /\ skTodo # <<>>
    /\ LET op == Head(skTodo) IN skFile' = [skFile EXCEPT ![op[1]][op[2]] = op[3]]
    /\ skTodo' = Tail(skTodo) /\ UNCHANGED <<skCut, skKeep, skRefine, skRuns, skNext>> /\ SkOnlyFiles
\* The process dies or the disk is full: the file that is being written is cut off.
SkBreaks ==
    /\ skMode = "files" /\ skTodo # <<>> /\ skCut = {}
    /\ \/ UNCHANGED skFile
       \/ /\ Head(skTodo)[3] # SkAbsent
          /\ skFile' = [skFile EXCEPT ![Head(skTodo)[1]][Head(skTodo)[2]] = {}]
    /\ skCut' = skCut \cup {skTodo[i][2] : i \in 1 .. Len(skTodo)} /\ skTodo' = <<>> /\ skRefine' = <<>>
    /\ UNCHANGED <<skKeep, skRuns, skNext>> /\ SkOnlyFiles

SkLogExecution(n, ok) ==
    /\ SkIdle /\ (\A m \in SkPlain : skRuns[m].ok + skRuns[m].bad < (IF m = n THEN SkMaxRuns ELSE 1))
    /\ skRuns' = [skRuns EXCEPT ![n] = [ok |-> @.ok + (IF ok THEN 1 ELSE 0), bad |-> @.bad + (IF ok THEN 0 ELSE 1)]]
    /\ UNCHANGED <<skFile, skTodo, skCut, skKeep, skRefine, skNext>> /\ SkOnlyFiles
\* get_success_rate below 50%; the telemetry stays when the skill was refined, or deleted.
SkFailing(n) == skRuns[n].ok + skRuns[n].bad > 0 /\ 2 * skRuns[n].ok < skRuns[n].ok + skRuns[n].bad
SkCheckAndRefine(n) ==
    /\ SkIdle /\ skRefine = <<>> /\ SkFailing(n)
    /\ LET seen == IF SkExists("global", n) \/ SkExists("auto", n) THEN SkLoadContent(n) ELSE {}
       IN seen # {} /\ skRefine' = <<n, seen>>
    /\ UNCHANGED <<skFile, skTodo, skCut, skKeep, skRuns, skNext>> /\ SkOnlyFiles
\* _save_skill_content writes the copies that still exist.
SkSavesAll(n, op) == TRUE
SkSaves(n, op) == SkExists(op[1], n)
SkSaved(n, op) == IF SkSaves(n, op) THEN <<op>> ELSE <<>>
SkRefined(ok) ==
    /\ SkIdle /\ skRefine # <<>> /\ skRefine' = <<>>
    /\ IF ok /\ skNext <= SkMaxPieces
       THEN LET n == skRefine[1]
                better == skRefine[2] \cup {skNext}
            IN /\ skTodo' = SkSaved(n, <<"global", n, better>>) \o SkSaved(n, <<"auto", n, better>>)
               /\ skKeep' = {} /\ skNext' = skNext + 1
       ELSE UNCHANGED <<skTodo, skKeep, skNext>>
    /\ UNCHANGED <<skFile, skCut, skRuns>> /\ SkOnlyFiles
SkFilesNext ==
    \/ \E n \in SkPlain : SkEdit(n) \/ SkPlaced(n) \/ SkDelete(n) \/ SkCheckAndRefine(n) \/ (\E ok \in BOOLEAN : SkLogExecution(n, ok))
    \/ \E n \in SkPlain, turns \in {3, 4}, calls \in {5, 6}, empty \in BOOLEAN : SkCreate(n, turns, calls, empty)
    \/ \E p \in SkPairs : SkMerge(<<p[1]>>, <<p[2]>>)
    \/ SkStep \/ SkBreaks \/ (\E ok \in BOOLEAN : SkRefined(ok))

---------------------------------------------------------------------------
(* skill_install waits for npx, then scans what the loader finds under the name; a built-in skill stands in for a missing one. *)
SkOnlyInst == UNCHANGED <<skMode, skFileVars, skRegVars, skLearnVars>>
SkLoadSkill(n) == IF skRoot[n] # "none" THEN skRoot[n] ELSE "safe"
SkInstall(i, n) ==
    /\ skMode = "install" /\ skInst[i].at = "idle" /\ skInst' = [skInst EXCEPT ![i] = [at |-> "npx", slug |-> n]]
    /\ UNCHANGED <<skRoot, skReport>> /\ SkOnlyInst
SkNpx(i, what) ==
    /\ skMode = "install" /\ skInst[i].at = "npx"
    /\ IF what = "failed" THEN skInst' = [skInst EXCEPT ![i] = [at |-> "idle", slug |-> "none"]] /\ UNCHANGED skRoot
       ELSE skInst' = [skInst EXCEPT ![i].at = "installed"] /\ skRoot' = [skRoot EXCEPT ![skInst[i].slug] = what]
    /\ UNCHANGED skReport /\ SkOnlyInst
SkScansUnlessKnown(n) == IF skReport[n] = "none" THEN SkLoadSkill(n) ELSE skReport[n]
SkScans(n) == SkLoadSkill(n)
SkScanSkill(i) ==
    /\ skMode = "install" /\ skInst[i].at = "installed"
    /\ skReport' = [skReport EXCEPT ![skInst[i].slug] = SkScans(skInst[i].slug)]
    /\ skInst' = [skInst EXCEPT ![i] = [at |-> "idle", slug |-> "none"]] /\ UNCHANGED skRoot /\ SkOnlyInst
SkRemove(n) ==
    /\ skMode = "install" /\ skRoot[n] # "none" /\ skRoot' = [skRoot EXCEPT ![n] = "none"] /\ skReport' = [skReport EXCEPT ![n] = "none"]
    /\ UNCHANGED skInst /\ SkOnlyInst
SkInstallNext ==
    \E n \in SkNames : SkRemove(n) \/ (\E i \in SkInstalls : SkInstall(i, n) \/ SkScanSkill(i) \/ (\E what \in {"safe", "risky", "failed"} : SkNpx(i, what)))

---------------------------------------------------------------------------
(* The registry behind the API. *)
SkOnlyReg == UNCHANGED <<skMode, skFileVars, skInstVars, skLearnVars>>
SkDirChanges(d, n, on) ==
    /\ skMode = "registry"
    /\ skDisk' = [skDisk EXCEPT ![d] = IF n = "none" THEN SkNoDir ELSE [name |-> n, on |-> on]] /\ UNCHANGED <<skReg, skUser>> /\ SkOnlyReg
\* scan: the search path itself first, then its directories in any order; the first of a name counts.
SkFound(n) == {d \in SkDirs : skDisk[d].name = n}
SkScanned(n, d) == d \in SkFound(n) /\ (0 \in SkFound(n) => d = 0)
SkReloadedAfresh(n, d) == IF skDisk[d].on THEN "on" ELSE "off"
SkReloaded(n, d) == IF skReg[n] = "off" \/ ~ skDisk[d].on THEN "off" ELSE "on"
SkReload ==
    /\ skMode = "registry"
    /\ \E pick \in [SkNames -> SkDirs] :
          /\ \A n \in SkNames : SkFound(n) # {} => SkScanned(n, pick[n])
          /\ skReg' = [n \in SkNames |-> IF SkFound(n) = {} THEN skReg[n] ELSE SkReloaded(n, pick[n])]
    /\ UNCHANGED <<skDisk, skUser>> /\ SkOnlyReg
SkSetEnabled(n, to) ==
    /\ skMode = "registry" /\ skReg[n] # "none" /\ skReg' = [skReg EXCEPT ![n] = to] /\ skUser' = [skUser EXCEPT ![n] = to]
    /\ UNCHANGED skDisk /\ SkOnlyReg
SkRegistryNext ==
    \/ SkReload \/ (\E n \in SkNames, to \in {"on", "off"} : SkSetEnabled(n, to))
    \/ \E d \in SkDirs, n \in SkNames \cup {"none"}, on \in BOOLEAN : SkDirChanges(d, n, on)

---------------------------------------------------------------------------
(* run_refinement_cycle. *)
SkOnlyLearn == UNCHANGED <<skMode, skFileVars, skInstVars, skRegVars>>
\* The score the auditor gives, or one computed from what is missing; a failing reflection counts as success.
SkQuality(good, missing) == IF good THEN 10 ELSE IF 10 - 2 * missing > 1 THEN 10 - 2 * missing ELSE 1
SkConverged(good, score) == good /\ score >= SkTarget
SkLastLate == skIter > SkMaxIterations
SkLast == skIter >= SkMaxIterations
SkReflect(good, missing, given) ==
    /\ skMode = "learn" /\ skPhase = "reflect" /\ skIter <= SkMaxIterations
    /\ LET score == IF given # -1 THEN given ELSE SkQuality(good, missing)
       IN /\ skScore' = score /\ skGood' = good /\ skScored' = skResp
          /\ skPhase' = IF SkConverged(good, score) \/ SkLast THEN "done" ELSE "revise"
    /\ UNCHANGED <<skIter, skResp>> /\ SkOnlyLearn
\* An empty revision keeps the answer; an error of the provider ends the cycle.
SkRevise(how) ==
    /\ skMode = "learn" /\ skPhase = "revise"
    /\ skPhase' = (IF how = "error" THEN "failed" ELSE IF skIter + 1 > SkMaxIterations THEN "done" ELSE "reflect") /\ skIter' = skIter + 1
    /\ skResp' = IF how = "new" THEN skResp + 1 ELSE skResp
    /\ UNCHANGED <<skScored, skScore, skGood>> /\ SkOnlyLearn
SkLearnNext ==
    \/ \E good \in BOOLEAN, missing \in 0 .. 5, given \in {-1, 0, SkTarget - 1, SkTarget, 10} : SkReflect(good, missing, given)
    \/ \E how \in {"new", "empty", "error"} : SkRevise(how)

SkNext ==
    \/ \E m \in {"files", "install", "registry", "learn"} : SkChoose(m)
    \/ SkFilesNext \/ SkInstallNext \/ SkRegistryNext \/ SkLearnNext
SkSpec == SkInit /\ [][SkNext]_skVars

---------------------------------------------------------------------------
(* What a merge reads of its two skills can be read under some name while the merge runs, after it, and after a crash in  *)
(* the middle of it, also when a file was cut off and when a skill is merged with itself.                                 *)
SkMergeKeeps == skKeep \subseteq UNION {SkLoadContent(n) : n \in SkPlain \cup SkMergedNames}

(* Unless an operation on it was interrupted, a skill has the same content in the directory of the user and in the        *)
(* workspace, or is in neither of them.                                                                                   *)
SkCopiesAgree == skTodo = <<>> => \A n \in (SkPlain \cup SkMergedNames) \ skCut : skFile["global"][n] = skFile["auto"][n]

(* A refinement that was waiting for the LLM while its skill was deleted or merged away does not bring it back.           *)
SkNotRevived ==
    [][(skRefine # <<>> /\ skTodo' # <<>> /\ skRefine' = <<>>) => \A i \in 1 .. Len(skTodo') : SkExists(skTodo'[i][1], skTodo'[i][2])]_skVars

(* What the last installation of a skill said about its risks is true of the skill that the loader will load, once no     *)
(* installation of it is under way.                                                                                       *)
SkReportTrue ==
    \A n \in SkNames : (skReport[n] # "none" /\ \A i \in SkInstalls : skInst[i].slug # n) => skReport[n] = SkLoadSkill(n)

(* A skill that the operator disabled stays disabled until it is enabled again: also when it is scanned again, when its   *)
(* directory is gone and comes back, and when another directory takes its name.                                           *)
SkDisabledStays == \A n \in SkNames : skUser[n] = "off" => skReg[n] = "off"

(* final_score is the score of final_response.                                                                            *)
SkFinalScored == skMode = "learn" /\ skPhase = "done" => skScored = skResp

(* Preserve user-configured enabled status if already registered (api/v1/skills.py:46).                                   *)
SkStatusKept == \A n \in SkNames : skUser[n] # "none" => skReg[n] = skUser[n]
=============================================================================
