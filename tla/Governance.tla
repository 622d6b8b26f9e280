----------------------------- MODULE Governance -----------------------------
(***************************************************************************)
(* Decisions that people take: the governance board with its tickets, and  *)
(* the desks with their votes, plans and issues.                           *)
(***************************************************************************)
EXTENDS Naturals, Sequences, FiniteSets

-----------------------------------------------------------------------------
(***************************************************************************)
(* governance/board.py with governance/tickets.py on                       *)
(* storage/persistence.py, services/ticket_service.py and                  *)
(* api/v1/tickets.py: agents propose actions, the board lets a cheap and   *)
(* harmless one pass and opens a ticket for any other, then polls the      *)
(* ticket a fixed number of times while operators resolve tickets or       *)
(* approve the action at the board. The process may crash at any time;     *)
(* tickets are in a JSON file that is replaced as a whole, or not at all   *)
(* when a save fails.                                                      *)
(***************************************************************************)
CONSTANTS
    GbProposals,        \* proposals of the agents
    GbLimit,            \* max_auto_budget
    GbMaxPolls,         \* polls of a ticket (50)
    GbMaxResolves,      \* bound: resolutions of tickets
    GbMaxFaults         \* bound: failed saves and crashes

ASSUME GbAssumption == GbLimit \in Nat /\ GbMaxPolls \in Nat \ {0}

VARIABLES
    gbUp,               \* the process runs
    gbEval,             \* proposal -> "new", "waiting", "passed" or "refused"
    gbCost,             \* proposal -> cost_estimate
    gbRisk,             \* proposal -> risk_level
    gbPending,          \* _pending_approvals: the proposals on the list, each once; only membership is asked for
    gbPolls,            \* proposal -> polls made
    gbItems,            \* _items of the ticket store: sequence of [for, status]
    gbDisk,             \* tickets.json
    gbUnsaved, gbLost,  \* history: proposals whose ticket is not saved as it is, or was not when the process died
    gbResolves, gbFaults,
    gbSaid,             \* history: proposal -> answers given by operators, in order
    gbGranted           \* history: proposals whose approve_action returned TRUE

gbVars == <<gbUp, gbEval, gbCost, gbRisk, gbPending, gbPolls, gbItems, gbDisk, gbUnsaved, gbLost, gbResolves, gbFaults, gbSaid, gbGranted>>

GbRisks == <<"low", "medium", "high", "critical">>
GbRiskValue(level) == CHOOSE n \in 1 .. 4 : GbRisks[n] = level

GbInit ==
    /\ gbUp = FALSE /\ gbEval = [p \in GbProposals |-> "new"] /\ gbPending = {}
    /\ gbCost = [p \in GbProposals |-> 0] /\ gbRisk = [p \in GbProposals |-> "low"]
    /\ gbPolls = [p \in GbProposals |-> 0] /\ gbItems = <<>> /\ gbDisk = <<>> /\ gbUnsaved = {} /\ gbLost = {}
    /\ gbResolves = 0 /\ gbFaults = 0 /\ gbSaid = [p \in GbProposals |-> <<>>] /\ gbGranted = {}

\* The ticket store is created and reads its file.
GbLoaded == gbDisk
GbStart ==
    /\ ~gbUp /\ gbUp' = TRUE /\ gbItems' = GbLoaded
    /\ UNCHANGED <<gbEval, gbCost, gbRisk, gbPending, gbPolls, gbDisk, gbUnsaved, gbLost, gbResolves, gbFaults, gbSaid, gbGranted>>

\* set: the item in memory, then the whole file through a temporary one; a failed save leaves the old file.
GbWrittenOld(items) == gbItems
GbWritten(items) == items
GbSet(items, p) ==
    /\ gbItems' = items /\ gbLost' = gbLost \ {p}
    /\ \/ gbDisk' = GbWritten(items) /\ gbUnsaved' = {} /\ UNCHANGED gbFaults
       \/ gbFaults < GbMaxFaults /\ gbFaults' = gbFaults + 1 /\ gbUnsaved' = gbUnsaved \cup {p} /\ UNCHANGED gbDisk

\* evaluate_proposal: passed at once, or put on the list with a ticket.
GbNeedsHuman(cost, risk) == cost > GbLimit \/ GbRiskValue(risk) >= GbRiskValue("high")
GbPropose(p, cost, risk) ==
    /\ gbUp /\ gbEval[p] = "new" /\ gbCost' = [gbCost EXCEPT ![p] = cost] /\ gbRisk' = [gbRisk EXCEPT ![p] = risk]
    /\ IF GbNeedsHuman(cost, risk)
       THEN /\ gbEval' = [gbEval EXCEPT ![p] = "waiting"] /\ gbPending' = gbPending \cup {p}
            /\ GbSet(Append(gbItems, [for |-> p, status |-> "pending"]), p)
       ELSE gbEval' = [gbEval EXCEPT ![p] = "passed"] /\ UNCHANGED <<gbPending, gbItems, gbDisk, gbUnsaved, gbLost, gbFaults>>
    /\ UNCHANGED <<gbUp, gbPolls, gbResolves, gbSaid, gbGranted>>

GbTicketOf(p) == CHOOSE t \in DOMAIN gbItems : gbItems[t].for = p

\* One poll: a resolved ticket, or the last poll, ends the wait and takes the proposal off the list.
GbWithoutNot(p) == gbPending
GbWithout(p) == gbPending \ {p}
GbDecidedRejectedOnly(status) == IF status = "rejected" THEN "refused" ELSE "passed"
GbDecided(status) == IF status = "approved" THEN "passed" ELSE "refused"
GbPoll(p) ==
    /\ gbUp /\ gbEval[p] = "waiting" /\ gbPolls' = [gbPolls EXCEPT ![p] = @ + 1]
    /\ LET status == gbItems[GbTicketOf(p)].status
       IN IF status # "pending" \/ gbPolls'[p] = GbMaxPolls
          THEN gbEval' = [gbEval EXCEPT ![p] = GbDecided(status)] /\ gbPending' = GbWithout(p)
          ELSE UNCHANGED <<gbEval, gbPending>>
    /\ UNCHANGED <<gbUp, gbCost, gbRisk, gbItems, gbDisk, gbUnsaved, gbLost, gbResolves, gbFaults, gbSaid, gbGranted>>

GbSays(t, status) == gbSaid' = [gbSaid EXCEPT ![gbItems[t].for] = Append(@, status)]

\* resolve_ticket, through the API or the service; the ticket need not be pending.
GbResolved(t, status) == [gbItems EXCEPT ![t].status = status]
GbResolve(t, status) ==
    /\ gbUp /\ gbResolves < GbMaxResolves /\ gbResolves' = gbResolves + 1
    /\ GbSet(GbResolved(t, status), gbItems[t].for) /\ GbSays(t, status)
    /\ UNCHANGED <<gbUp, gbEval, gbCost, gbRisk, gbPending, gbPolls, gbGranted>>

\* approve_action: the first pending ticket of the action is approved; without one the proposal leaves the list.
GbOnList(p) == p \in gbPending
GbApprove(p) ==
    /\ gbUp /\ gbResolves < GbMaxResolves /\ gbResolves' = gbResolves + 1
    /\ GbOnList(p) /\ gbGranted' = gbGranted \cup {p}
    /\ LET t == GbTicketOf(p)
       IN IF gbItems[t].status = "pending"
          THEN GbSet(GbResolved(t, "approved"), p) /\ GbSays(t, "approved") /\ UNCHANGED gbPending
          ELSE gbPending' = GbWithout(p) /\ UNCHANGED <<gbItems, gbDisk, gbUnsaved, gbLost, gbFaults, gbSaid>>
    /\ UNCHANGED <<gbUp, gbEval, gbCost, gbRisk, gbPolls>>

\* The process dies; proposals that wait are gone with it, tickets are read again at the next start.
GbCrash ==
    /\ gbUp /\ gbFaults < GbMaxFaults /\ gbFaults' = gbFaults + 1 /\ gbUp' = FALSE /\ gbPending' = {}
    /\ gbEval' = [p \in GbProposals |-> IF gbEval[p] = "waiting" THEN "lost" ELSE gbEval[p]]
    /\ gbLost' = gbLost \cup gbUnsaved /\ gbUnsaved' = {}
    /\ UNCHANGED <<gbCost, gbRisk, gbPolls, gbItems, gbDisk, gbResolves, gbSaid, gbGranted>>

GbNext ==
    \/ GbStart \/ GbCrash
    \/ \E p \in GbProposals, cost \in {GbLimit, GbLimit + 1}, risk \in {"medium", "high"} : GbPropose(p, cost, risk)
    \/ \E p \in GbProposals : GbPoll(p) \/ GbApprove(p)
    \/ \E t \in DOMAIN gbItems, status \in {"approved", "rejected"} : GbResolve(t, status)

GbSpec == GbInit /\ [][GbNext]_gbVars

---------------------------------------------------------------------------
\* An action over the budget or of high risk passes only when an operator approved it (evaluate_proposal,
\* resolve_ticket, approve_action).
GbPassedApproved ==
    \A p \in GbProposals : gbEval[p] = "passed" /\ GbNeedsHuman(gbCost[p], gbRisk[p]) =>
        \E i \in DOMAIN gbSaid[p] : gbSaid[p][i] = "approved"

\* When the board answered an operator that an action is approved and nobody rejected its ticket, the evaluation
\* that waits for it does not end refused: no answer comes too late (approve_action against the last poll).
GbGrantHolds ==
    \A p \in gbGranted : gbEval[p] = "refused" => \E i \in DOMAIN gbSaid[p] : gbSaid[p][i] = "rejected"

\* Tickets, and what an operator said of them last, survive crashes, except what could not be saved before the
\* crash and was not said again (JSONStateStore, TicketSystem).
GbAnswersSurvive ==
    gbUp => \A p \in GbProposals \ gbLost : gbEval[p] # "new" /\ GbNeedsHuman(gbCost[p], gbRisk[p]) =>
        \E t \in DOMAIN gbItems :
            /\ gbItems[t].for = p
            /\ gbItems[t].status = IF gbSaid[p] = <<>> THEN "pending" ELSE gbSaid[p][Len(gbSaid[p])]

-----------------------------------------------------------------------------
(***************************************************************************)
(* The desks of the operators: approval requests that reviewers vote on    *)
(* (governance/workflow.py), plans of compensating steps                   *)
(* (governance/rollback.py), and issues with leases and a triage queue     *)
(* (tickets/issue.py, tickets/checkout.py, tickets/inbox.py).              *)
(***************************************************************************)
CONSTANTS
    WdWorkers,          \* agents and operators
    WdIssues,           \* issues of the desk
    WdLease,            \* lease_seconds
    WdTtl,              \* time after which a request expires
    WdMaxTime,          \* bound: clock
    WdMaxVotes,         \* bound: votes
    WdMaxSteps          \* bound: steps of the plan

ASSUME WdAssumption == WdLease \in Nat /\ WdTtl \in Nat

VARIABLES
    wdMode,             \* "off", "vote", "plan" or "desk"
    wdNow,
    wdStage, wdRequired, wdVotes,   \* the request: stage, required_approvals, votes
    wdPlan, wdSteps, wdRun,         \* the plan: status, status of its steps, next step of execute_plan (0: not running)
    wdStatus, wdSeverity, wdResolvedAt, wdAssignee,     \* issue -> fields of Issue
    wdLeases,           \* issue -> checkout: [by, until, active]
    wdPicked,           \* worker -> issue at the head of the queue it was shown
    wdHolds             \* history: worker -> issue -> until when it was told that it holds the lease

wdVote == <<wdStage, wdRequired, wdVotes>>
wdRoll == <<wdPlan, wdSteps, wdRun>>
wdDesk == <<wdStatus, wdSeverity, wdResolvedAt, wdAssignee, wdLeases, wdPicked, wdHolds>>
wdVars == <<wdMode, wdNow, wdStage, wdRequired, wdVotes, wdPlan, wdSteps, wdRun, wdStatus, wdSeverity, wdResolvedAt, wdAssignee, wdLeases, wdPicked, wdHolds>>

WdStatuses == {"open", "triaged", "in_progress", "blocked", "resolved", "closed"}
WdDone == {"resolved", "closed"}
WdRank(severity) == IF severity = "critical" THEN 0 ELSE IF severity = "major" THEN 1 ELSE IF severity = "minor" THEN 2 ELSE 3
WdNobody == "nobody"

WdInit ==
    /\ wdMode = "off" /\ wdNow = 1 /\ wdStage = "none" /\ wdRequired = 0 /\ wdVotes = <<>>
    /\ wdPlan = "none" /\ wdSteps = <<>> /\ wdRun = 0
    /\ wdStatus = [i \in WdIssues |-> "open"] /\ wdSeverity = [i \in WdIssues |-> "minor"]
    /\ wdResolvedAt = [i \in WdIssues |-> 0] /\ wdAssignee = [i \in WdIssues |-> WdNobody]
    /\ wdLeases = [i \in WdIssues |-> [by |-> WdNobody, until |-> 0, active |-> FALSE]]
    /\ wdPicked = [w \in WdWorkers |-> WdNobody] /\ wdHolds = [w \in WdWorkers |-> [i \in WdIssues |-> 0]]

\* The managers are created; create_issue for the issues of the desk.
WdStart ==
    /\ wdMode = "off" /\ wdMode' \in {"vote", "plan", "desk"} /\ wdSeverity' \in [WdIssues -> {"major", "minor"}]
    /\ UNCHANGED <<wdNow, wdVote, wdRoll, wdStatus, wdResolvedAt, wdAssignee, wdLeases, wdPicked, wdHolds>>
WdTick == wdMode \in {"vote", "desk"} /\ wdNow < WdMaxTime /\ wdNow' = wdNow + 1 /\ UNCHANGED <<wdMode, wdVote, wdRoll, wdDesk>>

\* submit_request at time 1, with or without the automated checks.
WdSubmit(required, checked) ==
    /\ wdMode = "vote" /\ wdStage = "none" /\ wdNow = 1 /\ wdRequired' = required
    /\ wdStage' = (IF checked THEN "human_review" ELSE "submitted")
    /\ UNCHANGED <<wdMode, wdNow, wdVotes, wdRoll, wdDesk>>

\* cast_vote
WdFinal == {"approved", "rejected", "expired"}
WdApprovals(votes) == Cardinality({v \in DOMAIN votes : votes[v].approved})
WdStageAfter(votes, approved) ==
    IF ~approved THEN "rejected" ELSE IF WdApprovals(votes) >= wdRequired THEN "approved" ELSE wdStage
WdMayVoteAlways == wdStage # "none"
WdMayVote == wdStage # "none" /\ wdStage \notin WdFinal
WdCast(w, approved) ==
    /\ wdMode = "vote" /\ WdMayVote /\ Len(wdVotes) < WdMaxVotes
    /\ IF wdNow > 1 + WdTtl THEN wdStage' = "expired" /\ UNCHANGED wdVotes
       ELSE /\ wdVotes' = Append(wdVotes, [by |-> w, approved |-> approved, at |-> wdNow])
            /\ wdStage' = WdStageAfter(wdVotes', approved)
    /\ UNCHANGED <<wdMode, wdNow, wdRequired, wdRoll, wdDesk>>

\* create_plan, add_step; execute_plan step by step, every handler called whatever the ones before it did.
WdCreatePlan == wdMode = "plan" /\ wdPlan = "none" /\ wdPlan' = "pending" /\ UNCHANGED <<wdMode, wdNow, wdVote, wdSteps, wdRun, wdDesk>>
WdAddStep ==
    /\ wdMode = "plan" /\ wdPlan # "none" /\ wdRun = 0 /\ Len(wdSteps) < WdMaxSteps /\ wdSteps' = Append(wdSteps, "pending")
    /\ UNCHANGED <<wdMode, wdNow, wdVote, wdPlan, wdRun, wdDesk>>
WdExecute ==
    /\ wdMode = "plan" /\ wdPlan # "none" /\ wdRun = 0 /\ wdPlan' = "executing" /\ wdRun' = 1
    /\ UNCHANGED <<wdMode, wdNow, wdVote, wdSteps, wdDesk>>
WdHandler(success) ==
    /\ wdRun \in DOMAIN wdSteps /\ wdRun' = wdRun + 1
    /\ wdSteps' = [wdSteps EXCEPT ![wdRun] = IF success THEN "completed" ELSE "failed"]
    /\ UNCHANGED <<wdMode, wdNow, wdVote, wdPlan, wdDesk>>
WdOutcomeOfLast == IF wdSteps # <<>> /\ wdSteps[Len(wdSteps)] = "failed" THEN "failed" ELSE "completed"
WdOutcome == IF \E s \in DOMAIN wdSteps : wdSteps[s] = "failed" THEN "failed" ELSE "completed"
WdExecuted ==
    /\ wdRun = Len(wdSteps) + 1 /\ wdPlan' = WdOutcome /\ wdRun' = 0
    /\ UNCHANGED <<wdMode, wdNow, wdVote, wdSteps, wdDesk>>

\* update_status
WdResolvedAtKept(i, status) == IF status \in WdDone /\ wdResolvedAt[i] = 0 THEN wdNow ELSE wdResolvedAt[i]
WdResolvedAtAfter(i, status) == IF status \notin WdDone THEN 0 ELSE IF wdResolvedAt[i] = 0 THEN wdNow ELSE wdResolvedAt[i]
WdUpdate(i, status) ==
    /\ wdMode = "desk" /\ wdStatus' = [wdStatus EXCEPT ![i] = status]
    /\ wdResolvedAt' = [wdResolvedAt EXCEPT ![i] = WdResolvedAtAfter(i, status)]
    /\ UNCHANGED <<wdMode, wdNow, wdVote, wdRoll, wdSeverity, wdAssignee, wdLeases, wdPicked, wdHolds>>

\* assign
WdAssign(i, w) ==
    /\ wdMode = "desk" /\ wdAssignee' = [wdAssignee EXCEPT ![i] = w]
    /\ wdStatus' = [wdStatus EXCEPT ![i] = IF w # WdNobody /\ @ = "open" THEN "in_progress" ELSE @]
    /\ UNCHANGED <<wdMode, wdNow, wdVote, wdRoll, wdSeverity, wdResolvedAt, wdLeases, wdPicked, wdHolds>>

\* is_claimed also switches an expired lease off.
WdClaimedLong(i) == wdLeases[i].active /\ wdNow + 1 < wdLeases[i].until
WdClaimed(i) == wdLeases[i].active /\ wdNow < wdLeases[i].until
WdChecked == [i \in WdIssues |-> [wdLeases[i] EXCEPT !.active = WdClaimed(i)]]

\* get_triage_queue without claimed issues: most severe first; issues are created in any order.
WdShown(status) == {i \in WdIssues : wdStatus[i] = status /\ ~WdClaimed(i)}
WdPick(w, status) ==
    /\ wdMode = "desk" /\ WdShown(status) # {}
    /\ wdPicked' = [wdPicked EXCEPT ![w] = CHOOSE i \in WdShown(status) : \A j \in WdShown(status) : WdRank(wdSeverity[i]) <= WdRank(wdSeverity[j])]
    /\ wdLeases' = [i \in WdIssues |-> IF wdStatus[i] = status THEN WdChecked[i] ELSE wdLeases[i]]
    /\ UNCHANGED <<wdMode, wdNow, wdVote, wdRoll, wdStatus, wdSeverity, wdResolvedAt, wdAssignee, wdHolds>>

\* claim_ticket of what the queue showed: refused while another worker has it, new lease otherwise.
WdTaken(i, w) == WdClaimed(i) /\ wdLeases[i].by # w
WdClaim(w) ==
    LET i == wdPicked[w]
        until == wdNow + WdLease
    IN /\ wdMode = "desk" /\ i # WdNobody /\ wdPicked' = [wdPicked EXCEPT ![w] = WdNobody]
       /\ IF WdTaken(i, w) THEN UNCHANGED <<wdLeases, wdHolds>>
          ELSE /\ wdLeases' = [wdLeases EXCEPT ![i] = [by |-> w, until |-> until, active |-> TRUE]]
               /\ wdHolds' = [wdHolds EXCEPT ![w][i] = until]
       /\ UNCHANGED <<wdMode, wdNow, wdVote, wdRoll, wdStatus, wdSeverity, wdResolvedAt, wdAssignee>>

\* renew_lease
WdRenew(w, i) ==
    /\ wdMode = "desk" /\ WdClaimed(i) /\ wdLeases[i].by = w
    /\ wdLeases' = [wdLeases EXCEPT ![i].until = wdNow + WdLease] /\ wdHolds' = [wdHolds EXCEPT ![w][i] = wdNow + WdLease]
    /\ UNCHANGED <<wdMode, wdNow, wdVote, wdRoll, wdStatus, wdSeverity, wdResolvedAt, wdAssignee, wdPicked>>

\* release_ticket
WdRelease(w, i) ==
    /\ wdMode = "desk" /\ wdLeases[i].active /\ wdLeases[i].by = w
    /\ wdLeases' = [wdLeases EXCEPT ![i].active = FALSE] /\ wdHolds' = [wdHolds EXCEPT ![w][i] = 0]
    /\ UNCHANGED <<wdMode, wdNow, wdVote, wdRoll, wdStatus, wdSeverity, wdResolvedAt, wdAssignee, wdPicked>>

WdNext ==
    \/ WdStart \/ WdTick \/ WdCreatePlan \/ WdAddStep \/ WdExecute \/ WdExecuted
    \/ \E required \in 1 .. 2, checked \in BOOLEAN : WdSubmit(required, checked)
    \/ \E w \in WdWorkers, approved \in BOOLEAN : WdCast(w, approved)
    \/ \E success \in BOOLEAN : WdHandler(success)
    \/ \E i \in WdIssues, status \in {"open", "triaged", "resolved"} : WdUpdate(i, status)
    \/ \E i \in WdIssues, w \in {CHOOSE v \in WdWorkers : TRUE, WdNobody} : WdAssign(i, w)
    \/ \E w \in WdWorkers : WdClaim(w) \/ \E status \in {"open", "in_progress"} : WdPick(w, status)
    \/ \E w \in WdWorkers, i \in WdIssues : WdRenew(w, i) \/ WdRelease(w, i)

WdSpec == WdInit /\ [][WdNext]_wdVars

---------------------------------------------------------------------------
\* A request is approved only by enough approving votes and no rejection, all of them cast in time, and a decided
\* request stays as it was decided (cast_vote, is_finalized).
WdDecidedRightly ==
    /\ wdStage = "approved" => WdApprovals(wdVotes) = wdRequired /\ WdApprovals(wdVotes) = Len(wdVotes)
    /\ wdStage = "rejected" => ~wdVotes[Len(wdVotes)].approved
    /\ \A v \in DOMAIN wdVotes : wdVotes[v].at <= 1 + WdTtl

\* An executed plan counts as completed exactly when none of its steps failed, in whatever place (execute_plan).
WdPlanHonest ==
    /\ wdPlan = "completed" => \A s \in DOMAIN wdSteps : wdSteps[s] # "failed"
    /\ wdPlan = "failed" => \E s \in DOMAIN wdSteps : wdSteps[s] = "failed"

\* An issue has a time of resolution exactly while it is resolved or closed (update_status, assign).
WdResolvedKnown == \A i \in WdIssues : wdResolvedAt[i] # 0 <=> wdStatus[i] \in WdDone

\* No two workers hold unexpired leases on one issue, although the queue they choose from may be old when they
\* claim (claim_ticket, renew_lease, release_ticket).
WdOneHolder ==
    \A i \in WdIssues, v, w \in WdWorkers : wdHolds[v][i] > wdNow /\ wdHolds[w][i] > wdNow => v = w
=============================================================================
