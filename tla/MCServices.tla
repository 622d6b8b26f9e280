----------------------------- MODULE MCServices -----------------------------
(***************************************************************************)
(* Services behind the agent: governance, records, caches, memory, skills  *)
(* and storage. A behaviour follows one of them, chosen by part: the parts *)
(* share no state, so one run checks them all. The constants of each       *)
(* module are bounded so that the cases its properties are about occur.    *)
(***************************************************************************)
EXTENDS MochatInbox, Records, Governance, ResilientCache, Memory, DataStores,
    Enclave, Skills

CONSTANTS a, b
\* A skill is merged with another one, and with itself.
MCSkPairs == {<<a, b>>, <<a, a>>}

CONSTANT Parts

VARIABLE part

all == <<part, inboxVars, ksVars, gbVars, wdVars, cpVars, rcVars, msVars, kbVars, dsVars, enVars, skVars>>

Init ==
    /\ part \in Parts
    \* A part that is not followed has one configuration.
    /\ IF part = "MochatInbox" THEN TRUE ELSE ibLog = 0
    /\ InboxInit /\ KsInit /\ GbInit /\ WdInit /\ CpInit /\ RcInit /\ MsInit /\ KbInit /\ DsInit /\ EnInit /\ SkInit

Next ==
    \/ part = "MochatInbox" /\ InboxNext /\ UNCHANGED <<part, ksVars, gbVars, wdVars, cpVars, rcVars, msVars, kbVars, dsVars, enVars, skVars>>
    \/ part = "KeyStores" /\ KsNext /\ UNCHANGED <<part, inboxVars, gbVars, wdVars, cpVars, rcVars, msVars, kbVars, dsVars, enVars, skVars>>
    \/ part = "GovernanceBoard" /\ GbNext /\ UNCHANGED <<part, inboxVars, ksVars, wdVars, cpVars, rcVars, msVars, kbVars, dsVars, enVars, skVars>>
    \/ part = "WorkDesk" /\ WdNext /\ UNCHANGED <<part, inboxVars, ksVars, gbVars, cpVars, rcVars, msVars, kbVars, dsVars, enVars, skVars>>
    \/ part = "Compliance" /\ CpNext /\ UNCHANGED <<part, inboxVars, ksVars, gbVars, wdVars, rcVars, msVars, kbVars, dsVars, enVars, skVars>>
    \/ part = "ResilientCache" /\ RcNext /\ UNCHANGED <<part, inboxVars, ksVars, gbVars, wdVars, cpVars, msVars, kbVars, dsVars, enVars, skVars>>
    \/ part = "MemoryStore" /\ MsNext /\ UNCHANGED <<part, inboxVars, ksVars, gbVars, wdVars, cpVars, rcVars, kbVars, dsVars, enVars, skVars>>
    \/ part = "KnowledgeIndex" /\ KbNext /\ UNCHANGED <<part, inboxVars, ksVars, gbVars, wdVars, cpVars, rcVars, msVars, dsVars, enVars, skVars>>
    \/ part = "DataStores" /\ DsNext /\ UNCHANGED <<part, inboxVars, ksVars, gbVars, wdVars, cpVars, rcVars, msVars, kbVars, enVars, skVars>>
    \/ part = "Enclave" /\ EnNext /\ UNCHANGED <<part, inboxVars, ksVars, gbVars, wdVars, cpVars, rcVars, msVars, kbVars, dsVars, skVars>>
    \/ part = "Skills" /\ SkNext /\ UNCHANGED <<part, inboxVars, ksVars, gbVars, wdVars, cpVars, rcVars, msVars, kbVars, dsVars, enVars>>

Spec ==
    /\ Init /\ [][Next]_all

\* A decision follows from what people said and from the rules: an action
\* that passed was approved or needed no approval, a confirmed approval
\* counts although the board stops polling, answers survive crashes that do
\* not fall into a save; votes, plans, issues and leases agree with their
\* history.
DecisionsRight ==
    /\ GbPassedApproved /\ GbGrantHolds /\ GbAnswersSurvive
    /\ WdDecidedRightly /\ WdPlanHonest /\ WdResolvedKnown /\ WdOneHolder

\* What was recorded is still there and verifiable: archived and retained log
\* records, daily chains, data under legal hold, secrets and envelopes after
\* rotations and restarts; full text, vectors, BM25 list and hashes agree,
\* deleted sessions stay forgotten; listed backups are whole, committed rows
\* kept, migrations ordered; Mochat's saved cursor is never ahead of what was
\* dispatched, and no event is dispatched twice.
RecordsKept ==
    /\ CpNothingLost /\ CpDailyVerifies /\ CpHeldKept
    /\ KsChainHonest /\ KsSecretsKept /\ KsEnvelopesOpen
    /\ MsFullTextInStep /\ MsStoresAgree /\ MsNoTurnUnindexed /\ MsForgottenForGood
    /\ DsListedWhole /\ DsCommittedKept /\ DsDrillCleansUp /\ DsOwnPartition /\ DsFileFollows /\ DsMigrated
    /\ InboxTypeOK /\ DispatchedOnce /\ FileNeverAhead

\* Things kept in two places agree: the tag index and L1, L1 and Redis after
\* an invalidation, the chunks and their text, rankings and their fusion,
\* entries and their vectors, an open enclave and its attestation, an
\* envelope and its data key, the two copies of a skill, a scan report and
\* what is installed, the registry and its directories.
CopiesAgree ==
    /\ RcIndexed /\ RcInvalidatedGone /\ RcDegradedRightly
    /\ KbAllCovered /\ KbFusionFair /\ KbOwnRow
    /\ EnAttestedOnly /\ EnTamperedRefused /\ EnSecretsKept
    /\ SkMergeKeeps /\ SkCopiesAgree /\ SkReportTrue /\ SkDisabledStays /\ SkFinalScored

\* Steps that must never happen: the window of a text does not move on, a
\* restore that is not forced overwrites a file, an execution of an enclave
\* is answered after stop, a refinement revives a skill that was deleted
\* meanwhile.
NeverUndone ==
    /\ KbMovesOn
    /\ DsNotOverwritten
    /\ EnNoAnswerAfterStop
    /\ SkNotRevived
=============================================================================
