--------------------------- MODULE ServicesProofs ---------------------------
(***************************************************************************)
(* Proofs about the services behind the agent: the governance board, and   *)
(* the desks for votes, plans, issues and leases (Governance); what steps  *)
(* of the chunkers, the enclave, restores and refinements may not do; logs *)
(* and secrets (Records), the stores of the memory (Memory), backups,      *)
(* tenants, the state file and migrations (DataStores) and the cursors of  *)
(* Mochat (MochatInbox); the cache over Redis (ResilientCache), chunks,    *)
(* rankings and vectors (Memory), enclaves and envelopes (Enclave) and     *)
(* skills (Skills). A step of the run is a step or a stutter of each part, *)
(* so the invariant of each part holds in every behaviour of it.           *)
(***************************************************************************)
EXTENDS MCServices, FiniteSetTheorems, WellFoundedInduction, TLAPS

-----------------------------------------------------------------------------
(* The governance board *)

GbTickets == [for : GbProposals, status : {"pending", "approved", "rejected"}]
GbAnswers == {"approved", "rejected"}

\* What the variables are.
GbTypes ==
    /\ gbUp \in BOOLEAN /\ gbPending \subseteq GbProposals /\ gbGranted \subseteq GbProposals
    /\ gbEval \in [GbProposals -> {"new", "waiting", "passed", "refused", "lost"}]
    /\ gbCost \in [GbProposals -> Nat] /\ gbRisk \in [GbProposals -> {"low", "medium", "high"}]
    /\ gbItems \in Seq(GbTickets) /\ gbDisk \in Seq(GbTickets)
    /\ gbSaid \in [GbProposals -> Seq(GbAnswers)]

\* Tickets, in memory or in the file: one per proposal that was evaluated, and a
\* resolved one has what an operator said.
GbOnce(items) == \A s, t \in DOMAIN items : items[s].for = items[t].for => s = t
GbKnown(items) ==
    \A t \in DOMAIN items :
        /\ gbEval[items[t].for] # "new"
        /\ items[t].status # "pending" =>
             \E i \in DOMAIN gbSaid[items[t].for] : gbSaid[items[t].for][i] = items[t].status

\* A proposal that waits has a ticket, which is resolved if the board granted it.
GbWaits ==
    /\ \A p \in gbPending : gbEval[p] = "waiting"
    /\ \A p \in GbProposals : gbEval[p] = "waiting" =>
        /\ gbUp
        /\ \E t \in DOMAIN gbItems : gbItems[t].for = p
        /\ p \in gbGranted => \A t \in DOMAIN gbItems : gbItems[t].for = p => gbItems[t].status # "pending"
    /\ \A p \in gbGranted : gbEval[p] # "new"

\* The ticket of p is in items as it was resolved last.
GbAsSaid(items, p) ==
    \E t \in DOMAIN items :
        /\ items[t].for = p
        /\ items[t].status = IF gbSaid[p] = <<>> THEN "pending" ELSE gbSaid[p][Len(gbSaid[p])]
GbHuman(p) == gbEval[p] # "new" /\ GbNeedsHuman(gbCost[p], gbRisk[p])
GbKept ==
    /\ ~gbUp => gbUnsaved = {}
    /\ \A p \in GbProposals \ gbLost : GbHuman(p) =>
        /\ gbUp => GbAsSaid(gbItems, p)
        /\ p \notin gbUnsaved => GbAsSaid(gbDisk, p)

\* Nobody speaks of a proposal that was not evaluated.
GbSilent == \A p \in GbProposals : gbEval[p] = "new" => gbSaid[p] = <<>>

\* The inductive invariant.
GbIInv ==
    /\ GbTypes /\ GbSilent
    /\ GbOnce(gbItems) /\ GbKnown(gbItems) /\ GbOnce(gbDisk) /\ GbKnown(gbDisk)
    /\ GbWaits /\ GbPassedApproved /\ GbGrantHolds /\ GbKept

\* A ticket is added at the end.
LEMMA GbAppended ==
  ASSUME NEW q \in Seq(GbTickets), NEW x \in GbTickets
  PROVE  /\ Append(q, x) \in Seq(GbTickets) /\ DOMAIN q = 1 .. Len(q) /\ Len(q) \in Nat
         /\ DOMAIN Append(q, x) = 1 .. Len(q) + 1 /\ Append(q, x)[Len(q) + 1] = x
         /\ \A i \in DOMAIN q : i \in DOMAIN Append(q, x) /\ Append(q, x)[i] = q[i]
         /\ \A i \in DOMAIN Append(q, x) : i = Len(q) + 1 \/ i \in DOMAIN q
         /\ Len(q) + 1 \notin DOMAIN q
  OBVIOUS

\* One ticket is resolved.
LEMMA GbReplaced ==
  ASSUME NEW q \in Seq(GbTickets), NEW t \in DOMAIN q, NEW s \in GbAnswers
  PROVE  LET r == [q EXCEPT ![t].status = s]
         IN /\ r \in Seq(GbTickets) /\ DOMAIN r = DOMAIN q
            /\ \A i \in DOMAIN q : /\ r[i] \in GbTickets /\ q[i] \in GbTickets
                                   /\ r[i].for = q[i].for
                                   /\ r[i].status = IF i = t THEN s ELSE q[i].status
  <1> DEFINE r == [q EXCEPT ![t].status = s]
  <1>1. DOMAIN q = 1 .. Len(q) /\ Len(q) \in Nat /\ \A i \in DOMAIN q : q[i] \in GbTickets
    OBVIOUS
  <1>2. DOMAIN r = DOMAIN q /\ \A i \in DOMAIN q : r[i] = IF i = t THEN [q[t] EXCEPT !.status = s] ELSE q[i]
    OBVIOUS
  <1>3. [q[t] EXCEPT !.status = s] \in GbTickets /\ [q[t] EXCEPT !.status = s].for = q[t].for
        /\ [q[t] EXCEPT !.status = s].status = s
    BY <1>1 DEF GbTickets, GbAnswers
  <1>4. \A i \in DOMAIN q : r[i] \in GbTickets /\ r[i].for = q[i].for /\ r[i].status = IF i = t THEN s ELSE q[i].status
    BY <1>1, <1>2, <1>3
  <1>5. r = [i \in 1 .. Len(q) |-> r[i]]
    BY <1>1, <1>2
  <1>6. r \in [1 .. Len(q) -> GbTickets]
    BY <1>1, <1>2, <1>4, <1>5
  <1>7. r \in Seq(GbTickets)
    BY <1>1, <1>6
  <1> QED BY <1>1, <1>2, <1>4, <1>7

\* A ticket is about a proposal, and pending or resolved.
LEMMA GbTicketFacts ==
  ASSUME NEW q \in Seq(GbTickets), NEW t \in DOMAIN q
  PROVE  q[t].for \in GbProposals /\ q[t].status \in {"pending"} \cup GbAnswers
  <1>1. q[t] \in GbTickets
    OBVIOUS
  <1> QED BY <1>1 DEF GbTickets, GbAnswers

\* An answer is added to what was said of a proposal.
LEMMA GbSaidMore ==
  ASSUME NEW q \in Seq(GbAnswers), NEW s \in GbAnswers
  PROVE  /\ Append(q, s) \in Seq(GbAnswers) /\ Append(q, s) # <<>>
         /\ Append(q, s)[Len(Append(q, s))] = s /\ Len(Append(q, s)) \in DOMAIN Append(q, s)
         /\ \A i \in DOMAIN q : i \in DOMAIN Append(q, s) /\ Append(q, s)[i] = q[i]
  OBVIOUS

\* A board that was never used satisfies the invariant.
LEMMA GbInitInv == GbInit => GbIInv
  <1> SUFFICES ASSUME GbInit PROVE GbIInv
    OBVIOUS
  <1> USE GbAssumption DEF GbInit
  <1>1. GbTypes
    <2>1. gbItems \in Seq(GbTickets) /\ gbDisk \in Seq(GbTickets)
      OBVIOUS
    <2>2. gbSaid \in [GbProposals -> Seq(GbAnswers)]
      OBVIOUS
    <2> QED BY <2>1, <2>2 DEF GbTypes
  <1>2. GbOnce(gbItems) /\ GbKnown(gbItems) /\ GbOnce(gbDisk) /\ GbKnown(gbDisk)
    BY DEF GbOnce, GbKnown
  <1>3. GbWaits /\ GbPassedApproved /\ GbGrantHolds /\ GbKept /\ GbSilent
    BY DEF GbSilent, GbWaits, GbPassedApproved, GbGrantHolds, GbKept, GbHuman
  <1> QED BY <1>1, <1>2, <1>3 DEF GbIInv

\* The process that starts again loads the tickets of the file.
LEMMA GbStartKeeps == GbIInv /\ GbStart => GbIInv'
  <1> SUFFICES ASSUME GbIInv, GbStart PROVE GbIInv'
    OBVIOUS
  <1> USE DEF GbIInv, GbStart, GbLoaded
  <1>1. GbTypes'
    BY DEF GbTypes
  <1>2. (GbOnce(gbItems) /\ GbKnown(gbItems) /\ GbOnce(gbDisk) /\ GbKnown(gbDisk))'
    BY DEF GbOnce, GbKnown
  <1>3. GbWaits' /\ GbPassedApproved' /\ GbGrantHolds' /\ GbSilent'
    BY DEF GbSilent, GbTypes, GbWaits, GbPassedApproved, GbGrantHolds
  <1>4. GbKept'
    BY DEF GbTypes, GbKept, GbHuman, GbAsSaid
  <1> QED BY <1>1, <1>2, <1>3, <1>4

\* A crash loses the proposals that wait and keeps their tickets.
LEMMA GbCrashKeeps == GbIInv /\ GbCrash => GbIInv'
  <1> SUFFICES ASSUME GbIInv, GbCrash PROVE GbIInv'
    OBVIOUS
  <1> USE DEF GbIInv, GbCrash
  <1>1. GbTypes'
    BY DEF GbTypes
  <1>2. \A p \in GbProposals : /\ gbEval'[p] # "waiting" /\ (gbEval'[p] = "new" <=> gbEval[p] = "new")
                               /\ (gbEval'[p] \in {"passed", "refused"} => gbEval'[p] = gbEval[p])
    BY DEF GbTypes
  <1>3. (GbOnce(gbItems) /\ GbKnown(gbItems) /\ GbOnce(gbDisk) /\ GbKnown(gbDisk))'
    BY <1>2, GbTicketFacts DEF GbOnce, GbKnown, GbTypes
  <1>4. GbWaits' /\ GbPassedApproved' /\ GbGrantHolds' /\ GbSilent'
    BY <1>2 DEF GbSilent, GbTypes, GbWaits, GbPassedApproved, GbGrantHolds
  <1>5. GbKept'
    BY <1>2 DEF GbTypes, GbKept, GbHuman, GbAsSaid
  <1> QED BY <1>1, <1>3, <1>4, <1>5


\* A proposal passes, or gets a ticket, saved or not.
LEMMA GbProposeKeeps ==
  ASSUME NEW p \in GbProposals, NEW cost \in {GbLimit, GbLimit + 1}, NEW risk \in {"medium", "high"},
         GbIInv, GbPropose(p, cost, risk)
  PROVE  GbIInv'
  <1> USE GbAssumption
  <1>0. gbUp /\ gbUp'
    BY DEF GbPropose
  <1>1. /\ gbEval[p] = "new" /\ gbSaid' = gbSaid /\ gbGranted' = gbGranted
        /\ gbCost' = [gbCost EXCEPT ![p] = cost] /\ gbRisk' = [gbRisk EXCEPT ![p] = risk]
    BY DEF GbPropose
  <1>2. GbTypes /\ gbCost' \in [GbProposals -> Nat] /\ gbRisk' \in [GbProposals -> {"low", "medium", "high"}]
    BY <1>1 DEF GbTypes, GbIInv
  <1>3. \A t \in DOMAIN gbItems : gbItems[t].for # p /\ gbItems[t].for \in GbProposals
    BY <1>1, <1>2, GbTicketFacts DEF GbIInv, GbKnown, GbTypes
  <1>4. \A t \in DOMAIN gbDisk : gbDisk[t].for # p /\ gbDisk[t].for \in GbProposals
    BY <1>1, <1>2, GbTicketFacts DEF GbIInv, GbKnown, GbTypes
  <1>5. \A q \in GbProposals : q # p => gbCost'[q] = gbCost[q] /\ gbRisk'[q] = gbRisk[q]
    BY <1>1, <1>2 DEF GbTypes
  <1>6. gbCost'[p] = cost /\ gbRisk'[p] = risk
    BY <1>1, <1>2 DEF GbTypes
  <1>7. p \notin gbGranted /\ p \notin gbPending
    BY <1>1 DEF GbIInv, GbWaits
  <1>8. CASE ~GbNeedsHuman(cost, risk)
    <2>1. /\ gbEval' = [gbEval EXCEPT ![p] = "passed"]
          /\ UNCHANGED <<gbPending, gbItems, gbDisk, gbUnsaved, gbLost>>
      BY <1>8 DEF GbPropose
    <2>2. gbEval'[p] = "passed" /\ \A q \in GbProposals : q # p => gbEval'[q] = gbEval[q]
      BY <2>1, <1>2 DEF GbTypes
    <2>3. GbTypes'
      BY <2>1, <1>0, <1>1, <1>2 DEF GbTypes
    <2>4. (GbOnce(gbItems) /\ GbKnown(gbItems) /\ GbOnce(gbDisk) /\ GbKnown(gbDisk))'
      BY <2>1, <2>2, <1>1, <1>3, <1>4 DEF GbIInv, GbOnce, GbKnown
    <2>5. GbWaits'
      <3>1. \A q \in gbPending' : gbEval'[q] = "waiting"
        BY <2>1, <2>2, <1>2, <1>7 DEF GbIInv, GbWaits, GbTypes
      <3>2. \A q \in gbGranted' : gbEval'[q] # "new"
        BY <2>1, <2>2, <1>1, <1>2, <1>7 DEF GbIInv, GbWaits, GbTypes
      <3>3. \A q \in GbProposals : gbEval'[q] = "waiting" => gbEval[q] = "waiting"
        BY <2>2
      <3> QED BY <3>1, <3>2, <3>3, <2>1, <1>0, <1>1 DEF GbIInv, GbWaits
    <2>6. GbPassedApproved' /\ GbGrantHolds'
      BY <2>1, <2>2, <1>1, <1>2, <1>5, <1>6, <1>7, <1>8 DEF GbIInv, GbPassedApproved, GbGrantHolds, GbTypes
    <2>7. GbKept' /\ GbSilent'
      BY <2>1, <2>2, <1>0, <1>1, <1>5, <1>6, <1>8 DEF GbIInv, GbSilent, GbKept, GbHuman, GbAsSaid
    <2> QED BY <2>3, <2>4, <2>5, <2>6, <2>7 DEF GbIInv
  <1>9. CASE GbNeedsHuman(cost, risk)
    <2> DEFINE x == [for |-> p, status |-> "pending"]
               items == Append(gbItems, x)
    <2>1. /\ gbEval' = [gbEval EXCEPT ![p] = "waiting"] /\ gbPending' = gbPending \cup {p}
          /\ gbItems' = items /\ gbLost' = gbLost \ {p}
          /\ \/ gbDisk' = items /\ gbUnsaved' = {}
             \/ gbDisk' = gbDisk /\ gbUnsaved' = gbUnsaved \cup {p}
      BY <1>9 DEF GbPropose, GbSet, GbWritten
    <2>2. gbEval'[p] = "waiting" /\ \A q \in GbProposals : q # p => gbEval'[q] = gbEval[q]
      BY <2>1, <1>2 DEF GbTypes
    <2>3. x \in GbTickets /\ x.for = p /\ x.status = "pending"
      BY DEF GbTickets
    <2>4. /\ items \in Seq(GbTickets) /\ DOMAIN gbItems = 1 .. Len(gbItems) /\ Len(gbItems) \in Nat
          /\ DOMAIN items = 1 .. Len(gbItems) + 1 /\ items[Len(gbItems) + 1] = x
          /\ \A i \in DOMAIN gbItems : i \in DOMAIN items /\ items[i] = gbItems[i]
          /\ \A i \in DOMAIN items : i = Len(gbItems) + 1 \/ i \in DOMAIN gbItems
          /\ Len(gbItems) + 1 \notin DOMAIN gbItems
      BY <2>3, <1>2, GbAppended DEF GbTypes
    <2> HIDE DEF items, x
    <2>5. GbTypes'
      BY <2>1, <2>4, <1>0, <1>1, <1>2 DEF GbTypes
    <2>6. GbOnce(items) /\ GbOnce(gbDisk)
      BY <2>3, <2>4, <1>3 DEF GbIInv, GbOnce
    <2>7. \A t \in DOMAIN items :
             /\ gbEval'[items[t].for] # "new"
             /\ items[t].status # "pending" =>
                  \E i \in DOMAIN gbSaid[items[t].for] : gbSaid[items[t].for][i] = items[t].status
      BY <2>2, <2>3, <2>4, <1>3 DEF GbIInv, GbKnown
    <2>8. \A t \in DOMAIN gbDisk :
             /\ gbEval'[gbDisk[t].for] # "new"
             /\ gbDisk[t].status # "pending" =>
                  \E i \in DOMAIN gbSaid[gbDisk[t].for] : gbSaid[gbDisk[t].for][i] = gbDisk[t].status
      BY <2>2, <1>4 DEF GbIInv, GbKnown
    <2>9. (GbOnce(gbItems) /\ GbKnown(gbItems) /\ GbOnce(gbDisk) /\ GbKnown(gbDisk))'
      <3>1. (GbOnce(gbItems) /\ GbKnown(gbItems))'
        <4>1. gbItems' = items /\ gbSaid' = gbSaid
          BY <2>1, <1>1
        <4> QED BY <4>1, <2>6, <2>7 DEF GbOnce, GbKnown
      <3>2. CASE gbDisk' = items
        <4>1. gbSaid' = gbSaid
          BY <1>1
        <4> QED BY <3>1, <3>2, <4>1, <2>6, <2>7 DEF GbOnce, GbKnown
      <3>3. CASE gbDisk' = gbDisk
        <4>1. gbSaid' = gbSaid
          BY <1>1
        <4> QED BY <3>1, <3>3, <4>1, <2>6, <2>8 DEF GbOnce, GbKnown
      <3> QED BY <3>2, <3>3, <2>1
    <2>10. GbWaits'
      <3>1. \A q \in gbPending' : gbEval'[q] = "waiting"
        BY <2>1, <2>2, <1>2 DEF GbIInv, GbWaits, GbTypes
      <3>2. \A q \in GbProposals : gbEval'[q] = "waiting" => \E t \in DOMAIN items : items[t].for = q
        BY <2>2, <2>3, <2>4 DEF GbIInv, GbWaits
      <3>3. \A q \in GbProposals : gbEval'[q] = "waiting" /\ q \in gbGranted =>
               \A t \in DOMAIN items : items[t].for = q => items[t].status # "pending"
        BY <2>2, <2>3, <2>4, <1>7 DEF GbIInv, GbWaits
      <3>4. \A q \in gbGranted' : gbEval'[q] # "new"
        BY <2>2, <1>1, <1>2 DEF GbIInv, GbWaits, GbTypes
      <3> QED BY <3>1, <3>2, <3>3, <3>4, <2>1, <1>0, <1>1 DEF GbWaits
    <2>11. GbPassedApproved' /\ GbGrantHolds'
      BY <2>1, <2>2, <1>1, <1>2, <1>5, <1>7 DEF GbIInv, GbPassedApproved, GbGrantHolds, GbTypes
    <2>12. GbAsSaid(items, p)
      BY <2>3, <2>4, <1>1 DEF GbAsSaid, GbIInv, GbSilent
    <2>13. \A q \in GbProposals : q # p /\ GbAsSaid(gbItems, q) => GbAsSaid(items, q)
      BY <2>4 DEF GbAsSaid
    <2>14. \A q \in GbProposals \ gbLost' : GbHuman(q)' => GbAsSaid(items, q) /\ (q \notin gbUnsaved' => GbAsSaid(gbDisk', q))
      <3> SUFFICES ASSUME NEW q \in GbProposals \ gbLost', GbHuman(q)'
                   PROVE  GbAsSaid(items, q) /\ (q \notin gbUnsaved' => GbAsSaid(gbDisk', q))
        OBVIOUS
      <3>1. q # p => GbHuman(q) /\ q \notin gbLost
        BY <2>1, <2>2, <1>5 DEF GbHuman
      <3>2. q # p => GbAsSaid(gbItems, q) /\ (q \notin gbUnsaved => GbAsSaid(gbDisk, q))
        BY <3>1, <1>0 DEF GbIInv, GbKept
      <3>3. GbAsSaid(items, q)
        BY <3>2, <2>12, <2>13
      <3> QED BY <3>2, <3>3, <2>1
    <2>15. GbKept'
      <3>1. \A q, z : GbAsSaid(z, q)' <=> GbAsSaid(z, q)
        BY <1>1 DEF GbAsSaid
      <3> QED BY <3>1, <2>14, <2>1, <1>0 DEF GbKept
    <2>16. GbSilent'
      BY <2>2, <1>1 DEF GbIInv, GbSilent
    <2> QED BY <2>5, <2>9, <2>10, <2>11, <2>15, <2>16 DEF GbIInv
  <1> QED BY <1>8, <1>9


\* A ticket is resolved, and the answer is stored, saved or not.
LEMMA GbAnswerKeeps ==
  ASSUME NEW t \in DOMAIN gbItems, NEW answer \in GbAnswers, GbIInv, gbUp, gbUp',
         GbSet(GbResolved(t, answer), gbItems[t].for), GbSays(t, answer),
         UNCHANGED <<gbEval, gbCost, gbRisk, gbPending>>,
         \/ gbGranted' = gbGranted
         \/ gbGranted' = gbGranted \cup {gbItems[t].for} /\ gbEval[gbItems[t].for] = "waiting"
  PROVE  GbIInv'
  <1> DEFINE p == gbItems[t].for
             items == [gbItems EXCEPT ![t].status = answer]
  <1>1. GbTypes /\ p \in GbProposals /\ gbEval[p] # "new"
    BY GbTicketFacts DEF GbIInv, GbTypes, GbKnown
  <1>2. /\ items \in Seq(GbTickets) /\ DOMAIN items = DOMAIN gbItems
        /\ \A i \in DOMAIN gbItems : /\ items[i].for = gbItems[i].for
                                     /\ items[i].status = IF i = t THEN answer ELSE gbItems[i].status
    <2>1. gbItems \in Seq(GbTickets)
      BY <1>1 DEF GbTypes
    <2> QED BY <2>1, GbReplaced
  <1>3. /\ gbItems' = items /\ gbLost' = gbLost \ {p}
        /\ \/ gbDisk' = items /\ gbUnsaved' = {}
           \/ gbDisk' = gbDisk /\ gbUnsaved' = gbUnsaved \cup {p}
    BY DEF GbSet, GbResolved, GbWritten
  <1>4. \A i \in DOMAIN gbItems : gbItems[i].for \in GbProposals /\ (gbItems[i].for = p <=> i = t)
    BY <1>1, GbTicketFacts DEF GbIInv, GbTypes, GbOnce
  <1>5. \A i \in DOMAIN gbDisk : gbDisk[i].for \in GbProposals
    BY <1>1, GbTicketFacts DEF GbTypes
  <1>6. gbSaid' = [gbSaid EXCEPT ![p] = Append(gbSaid[p], answer)]
    BY DEF GbSays
  <1> HIDE DEF items, p
  <1>7. /\ gbSaid'[p] = Append(gbSaid[p], answer) /\ gbSaid[p] \in Seq(GbAnswers)
        /\ \A q \in GbProposals : q # p => gbSaid'[q] = gbSaid[q]
    BY <1>1, <1>6 DEF GbTypes
  <1>8. /\ gbSaid'[p] \in Seq(GbAnswers) /\ gbSaid'[p] # <<>>
        /\ gbSaid'[p][Len(gbSaid'[p])] = answer /\ Len(gbSaid'[p]) \in DOMAIN gbSaid'[p]
        /\ \A i \in DOMAIN gbSaid[p] : i \in DOMAIN gbSaid'[p] /\ gbSaid'[p][i] = gbSaid[p][i]
    BY <1>7, GbSaidMore
  <1>9. \A q \in GbProposals, ans \in GbAnswers :
           (\E i \in DOMAIN gbSaid[q] : gbSaid[q][i] = ans) => \E i \in DOMAIN gbSaid'[q] : gbSaid'[q][i] = ans
    BY <1>7, <1>8
  <1>10. \A q \in gbGranted' : q \in gbGranted \/ (q = p /\ gbEval[p] = "waiting")
    BY DEF p
  <1>11. GbTypes'
    <2>1. gbSaid' \in [GbProposals -> Seq(GbAnswers)]
      BY <1>1, <1>6, <1>7, <1>8 DEF GbTypes
    <2>2. gbItems' \in Seq(GbTickets) /\ gbDisk' \in Seq(GbTickets)
      BY <1>1, <1>2, <1>3 DEF GbTypes
    <2>3. gbGranted' \subseteq GbProposals
      BY <1>1, <1>10 DEF GbTypes
    <2> QED BY <2>1, <2>2, <2>3, <1>1 DEF GbTypes
  <1>12. (GbOnce(gbItems) /\ GbOnce(gbDisk))'
    BY <1>2, <1>3 DEF GbIInv, GbOnce
  <1>13. \A i \in DOMAIN items :
            /\ gbEval[items[i].for] # "new"
            /\ items[i].status # "pending" =>
                 \E k \in DOMAIN gbSaid'[items[i].for] : gbSaid'[items[i].for][k] = items[i].status
    <2> SUFFICES ASSUME NEW i \in DOMAIN items, items[i].status # "pending"
                 PROVE  \E k \in DOMAIN gbSaid'[items[i].for] : gbSaid'[items[i].for][k] = items[i].status
      BY <1>2 DEF GbIInv, GbKnown
    <2>1. CASE i = t
      <3>1. items[i].for = p /\ items[i].status = answer
        BY <2>1, <1>2, <1>4
      <3> QED BY <3>1, <1>8
    <2>2. CASE i # t
      <3>1. items[i].for = gbItems[i].for /\ items[i].status = gbItems[i].status /\ gbItems[i].status \in GbAnswers
        BY <2>2, <1>1, <1>2, GbTicketFacts DEF GbTypes
      <3>2. \E k \in DOMAIN gbSaid[gbItems[i].for] : gbSaid[gbItems[i].for][k] = gbItems[i].status
        BY <3>1, <1>2 DEF GbIInv, GbKnown
      <3> QED BY <3>1, <3>2, <1>2, <1>4, <1>9
    <2> QED BY <2>1, <2>2
  <1>14. \A i \in DOMAIN gbDisk :
            /\ gbEval[gbDisk[i].for] # "new"
            /\ gbDisk[i].status # "pending" =>
                 \E k \in DOMAIN gbSaid'[gbDisk[i].for] : gbSaid'[gbDisk[i].for][k] = gbDisk[i].status
    <2> SUFFICES ASSUME NEW i \in DOMAIN gbDisk, gbDisk[i].status # "pending"
                 PROVE  \E k \in DOMAIN gbSaid'[gbDisk[i].for] : gbSaid'[gbDisk[i].for][k] = gbDisk[i].status
      BY DEF GbIInv, GbKnown
    <2>1. gbDisk[i].status \in GbAnswers
      BY <1>1, GbTicketFacts DEF GbTypes
    <2>2. \E k \in DOMAIN gbSaid[gbDisk[i].for] : gbSaid[gbDisk[i].for][k] = gbDisk[i].status
      BY DEF GbIInv, GbKnown
    <2> QED BY <2>1, <2>2, <1>5, <1>9
  <1>15. (GbKnown(gbItems) /\ GbKnown(gbDisk))'
    <2>1. gbEval' = gbEval
      OBVIOUS
    <2>2. GbKnown(gbItems)'
      BY <2>1, <1>3, <1>13 DEF GbKnown
    <2>3. CASE gbDisk' = items
      BY <2>1, <2>2, <2>3, <1>13 DEF GbKnown
    <2>4. CASE gbDisk' = gbDisk
      BY <2>1, <2>2, <2>4, <1>14 DEF GbKnown
    <2> QED BY <2>3, <2>4, <1>3
  <1>16. GbWaits'
    <2>1. gbEval' = gbEval /\ gbPending' = gbPending
      OBVIOUS
    <2>2. \A q \in GbProposals : gbEval[q] = "waiting" => \E i \in DOMAIN items : items[i].for = q
      BY <1>2 DEF GbIInv, GbWaits
    <2>3. \A q \in GbProposals : gbEval[q] = "waiting" /\ q \in gbGranted' =>
             \A i \in DOMAIN items : items[i].for = q => items[i].status # "pending"
      BY <1>2, <1>4, <1>10 DEF GbIInv, GbWaits, GbAnswers
    <2>4. \A q \in gbGranted' : gbEval[q] # "new"
      BY <1>1, <1>10 DEF GbIInv, GbWaits
    <2> QED BY <2>1, <2>2, <2>3, <2>4, <1>3 DEF GbIInv, GbWaits
  <1>17. GbPassedApproved' /\ GbGrantHolds'
    <2>1. gbEval' = gbEval /\ gbCost' = gbCost /\ gbRisk' = gbRisk
      OBVIOUS
    <2>2. \A q \in gbGranted' : gbEval[q] = "refused" => q \in gbGranted /\ q \in GbProposals
      BY <1>1, <1>10 DEF GbTypes
    <2>3. "approved" \in GbAnswers /\ "rejected" \in GbAnswers
      BY DEF GbAnswers
    <2>4. GbPassedApproved'
      BY <2>1, <2>3, <1>9 DEF GbIInv, GbPassedApproved
    <2>5. GbGrantHolds'
      BY <2>1, <2>2, <2>3, <1>9 DEF GbIInv, GbGrantHolds
    <2> QED BY <2>4, <2>5
  <1>18. GbSilent'
    BY <1>1, <1>7 DEF GbIInv, GbSilent
  <1>19. GbKept'
    <2> DEFINE LastSaid(q) == IF gbSaid'[q] = <<>> THEN "pending" ELSE gbSaid'[q][Len(gbSaid'[q])]
               In(z, q) == \E i \in DOMAIN z : z[i].for = q /\ z[i].status = LastSaid(q)
    <2>1. In(items, p)
      BY <1>2, <1>4, <1>8
    <2>2. \A q \in GbProposals : q # p /\ GbAsSaid(gbItems, q) => In(items, q)
      BY <1>2, <1>4, <1>7 DEF GbAsSaid
    <2>3. \A q \in GbProposals : q # p /\ GbAsSaid(gbDisk, q) => In(gbDisk, q)
      BY <1>7 DEF GbAsSaid
    <2>4. \A q \in GbProposals \ gbLost' : GbHuman(q)' => In(gbItems', q) /\ (q \notin gbUnsaved' => In(gbDisk', q))
      <3> SUFFICES ASSUME NEW q \in GbProposals \ gbLost', GbHuman(q)'
                   PROVE  In(gbItems', q) /\ (q \notin gbUnsaved' => In(gbDisk', q))
        OBVIOUS
      <3>1. q # p => GbHuman(q) /\ q \notin gbLost
        BY <1>3 DEF GbHuman
      <3>2. q # p => GbAsSaid(gbItems, q) /\ (q \notin gbUnsaved => GbAsSaid(gbDisk, q))
        BY <3>1 DEF GbIInv, GbKept
      <3>3. In(items, q) /\ (q # p /\ q \notin gbUnsaved => In(gbDisk, q))
        BY <3>2, <2>1, <2>2, <2>3
      <3> HIDE DEF In
      <3> QED BY <3>3, <1>3
    <2> QED BY <2>4 DEF GbKept, GbAsSaid
  <1> QED BY <1>11, <1>12, <1>15, <1>16, <1>17, <1>18, <1>19 DEF GbIInv


\* What an operator answers keeps the invariant.
LEMMA GbResolveKeeps ==
  ASSUME NEW t \in DOMAIN gbItems, NEW answer \in GbAnswers, GbIInv, GbResolve(t, answer)
  PROVE  GbIInv'
  <1>1. /\ gbUp /\ gbUp' /\ GbSet(GbResolved(t, answer), gbItems[t].for) /\ GbSays(t, answer)
        /\ UNCHANGED <<gbEval, gbCost, gbRisk, gbPending>> /\ gbGranted' = gbGranted
    BY DEF GbResolve
  <1> QED BY <1>1, GbAnswerKeeps

\* The ticket of a proposal that waits.
LEMMA GbTicketFound ==
  ASSUME GbIInv, NEW p \in GbProposals, gbEval[p] = "waiting"
  PROVE  /\ GbTicketOf(p) \in DOMAIN gbItems /\ gbItems[GbTicketOf(p)].for = p
         /\ gbItems[GbTicketOf(p)].status \in {"pending"} \cup GbAnswers
         /\ \A t \in DOMAIN gbItems : gbItems[t].for = p => t = GbTicketOf(p)
  <1>1. \E t \in DOMAIN gbItems : gbItems[t].for = p
    BY DEF GbIInv, GbWaits
  <1>2. GbTicketOf(p) \in DOMAIN gbItems /\ gbItems[GbTicketOf(p)].for = p
    BY <1>1 DEF GbTicketOf
  <1>3. gbItems[GbTicketOf(p)].status \in {"pending"} \cup GbAnswers
    BY <1>2, GbTicketFacts DEF GbIInv, GbTypes
  <1> QED BY <1>2, <1>3 DEF GbIInv, GbOnce

\* A confirmed approval resolves the ticket of the proposal it is about.
LEMMA GbApproveKeeps ==
  ASSUME NEW p \in GbProposals, GbIInv, GbApprove(p)
  PROVE  GbIInv'
  <1> DEFINE t == GbTicketOf(p)
  <1>1. gbEval[p] = "waiting"
    BY DEF GbApprove, GbOnList, GbIInv, GbWaits
  <1>2. /\ t \in DOMAIN gbItems /\ gbItems[t].for = p /\ gbItems[t].status \in {"pending"} \cup GbAnswers
        /\ \A i \in DOMAIN gbItems : gbItems[i].for = p => i = t
    BY <1>1, GbTicketFound
  <1>3. gbUp /\ gbUp' /\ gbGranted' = gbGranted \cup {p} /\ UNCHANGED <<gbEval, gbCost, gbRisk>>
    BY DEF GbApprove
  <1>4. CASE gbItems[t].status = "pending"
    <2>1. GbSet(GbResolved(t, "approved"), gbItems[t].for) /\ GbSays(t, "approved") /\ UNCHANGED gbPending
      BY <1>2, <1>4 DEF GbApprove
    <2>2. "approved" \in GbAnswers
      BY DEF GbAnswers
    <2> HIDE DEF t
    <2> QED BY <1>1, <1>2, <1>3, <2>1, <2>2, GbAnswerKeeps
  <1>5. CASE gbItems[t].status # "pending"
    <2>1. gbPending' = gbPending \ {p} /\ UNCHANGED <<gbItems, gbDisk, gbUnsaved, gbLost, gbSaid>>
      BY <1>5 DEF GbApprove, GbWithout
    <2> HIDE DEF t
    <2>2. GbTypes' /\ GbSilent'
      BY <2>1, <1>3 DEF GbIInv, GbTypes, GbSilent
    <2>3. (GbOnce(gbItems) /\ GbKnown(gbItems) /\ GbOnce(gbDisk) /\ GbKnown(gbDisk))'
      BY <2>1, <1>3 DEF GbIInv, GbOnce, GbKnown
    <2>4. GbWaits'
      <3>1. \A i \in DOMAIN gbItems : gbItems[i].for = p => gbItems[i].status # "pending"
        BY <1>2, <1>5
      <3> QED BY <3>1, <2>1, <1>1, <1>3 DEF GbIInv, GbWaits
    <2>5. GbPassedApproved' /\ GbGrantHolds'
      BY <2>1, <1>1, <1>3 DEF GbIInv, GbPassedApproved, GbGrantHolds
    <2>6. GbKept'
      BY <2>1, <1>3 DEF GbIInv, GbKept, GbHuman, GbAsSaid
    <2> QED BY <2>2, <2>3, <2>4, <2>5, <2>6 DEF GbIInv
  <1> QED BY <1>4, <1>5

\* A poll that ends a wait finds a resolved ticket or runs out of polls.
LEMMA GbPollKeeps ==
  ASSUME NEW p \in GbProposals, GbIInv, GbPoll(p)
  PROVE  GbIInv'
  <1> DEFINE t == GbTicketOf(p)
             status == gbItems[t].status
  <1>1. gbEval[p] = "waiting" /\ gbUp /\ gbUp' /\ UNCHANGED <<gbCost, gbRisk, gbItems, gbDisk, gbUnsaved, gbLost, gbSaid, gbGranted>>
    BY DEF GbPoll
  <1>2. /\ t \in DOMAIN gbItems /\ gbItems[t].for = p /\ status \in {"pending"} \cup GbAnswers
        /\ \A i \in DOMAIN gbItems : gbItems[i].for = p => i = t
    BY <1>1, GbTicketFound
  <1>3. CASE gbEval' = gbEval /\ gbPending' = gbPending
    <2>1. GbTypes' /\ GbSilent'
      BY <1>3, <1>1 DEF GbIInv, GbTypes, GbSilent
    <2>2. (GbOnce(gbItems) /\ GbKnown(gbItems) /\ GbOnce(gbDisk) /\ GbKnown(gbDisk))'
      BY <1>3, <1>1 DEF GbIInv, GbOnce, GbKnown
    <2>3. GbWaits' /\ GbPassedApproved' /\ GbGrantHolds'
      BY <1>3, <1>1 DEF GbIInv, GbWaits, GbPassedApproved, GbGrantHolds
    <2>4. GbKept'
      BY <1>3, <1>1 DEF GbIInv, GbKept, GbHuman, GbAsSaid
    <2> QED BY <2>1, <2>2, <2>3, <2>4 DEF GbIInv
  <1>4. CASE gbEval' = [gbEval EXCEPT ![p] = GbDecided(status)] /\ gbPending' = gbPending \ {p}
    <2>1. GbTypes
      BY DEF GbIInv
    <2>2. /\ gbEval'[p] = IF status = "approved" THEN "passed" ELSE "refused"
          /\ \A q \in GbProposals : q # p => gbEval'[q] = gbEval[q]
      BY <1>4, <2>1 DEF GbDecided, GbTypes
    <2> HIDE DEF t, status
    <2>3. GbTypes' /\ GbSilent'
      BY <1>1, <1>4, <2>1, <2>2 DEF GbIInv, GbTypes, GbSilent, GbDecided
    <2>4. \A q \in GbProposals : gbEval'[q] = "new" => gbEval[q] = "new"
      BY <2>2
    <2>5. (GbOnce(gbItems) /\ GbKnown(gbItems) /\ GbOnce(gbDisk) /\ GbKnown(gbDisk))'
      BY <1>1, <2>1, <2>4, GbTicketFacts DEF GbIInv, GbOnce, GbKnown, GbTypes
    <2>6. GbWaits'
      <3>1. \A q \in gbPending' : gbEval'[q] = "waiting"
        BY <1>4, <2>1, <2>2 DEF GbIInv, GbWaits, GbTypes
      <3>2. \A q \in GbProposals : gbEval'[q] = "waiting" => gbEval[q] = "waiting"
        BY <2>2
      <3>3. \A q \in gbGranted : gbEval'[q] # "new"
        BY <2>1, <2>4 DEF GbIInv, GbWaits, GbTypes
      <3> QED BY <3>1, <3>2, <3>3, <1>1 DEF GbIInv, GbWaits
    <2>7. status # "pending" => \E i \in DOMAIN gbSaid[p] : gbSaid[p][i] = status
      BY <1>2 DEF GbIInv, GbKnown, status
    <2>8. GbPassedApproved'
      BY <1>1, <2>2, <2>7 DEF GbIInv, GbPassedApproved
    <2>9. GbGrantHolds'
      <3>1. p \in gbGranted => status # "pending"
        BY <1>1, <1>2 DEF GbIInv, GbWaits, status
      <3>2. p \in gbGranted /\ gbEval'[p] = "refused" => status = "rejected"
        BY <3>1, <1>2, <2>2 DEF GbAnswers
      <3>3. p \in gbGranted /\ gbEval'[p] = "refused" => \E i \in DOMAIN gbSaid[p] : gbSaid[p][i] = "rejected"
        BY <3>2, <2>7
      <3>4. \A q \in gbGranted : q # p /\ gbEval'[q] = "refused" => \E i \in DOMAIN gbSaid[q] : gbSaid[q][i] = "rejected"
        BY <2>1, <2>2 DEF GbIInv, GbGrantHolds, GbTypes
      <3> QED BY <3>3, <3>4, <1>1 DEF GbGrantHolds
    <2>10. GbKept'
      BY <1>1, <2>2 DEF GbIInv, GbKept, GbHuman, GbAsSaid
    <2> QED BY <2>3, <2>5, <2>6, <2>8, <2>9, <2>10 DEF GbIInv
  <1> QED BY <1>3, <1>4 DEF GbPoll, GbWithout

\* Every step of the board keeps its invariant.
LEMMA GbStep == GbIInv /\ [GbNext]_gbVars => GbIInv'
  <1> SUFFICES ASSUME GbIInv, [GbNext]_gbVars PROVE GbIInv'
    OBVIOUS
  <1>1. CASE GbStart \/ GbCrash
    BY <1>1, GbStartKeeps, GbCrashKeeps
  <1>2. CASE \E p \in GbProposals, cost \in {GbLimit, GbLimit + 1}, risk \in {"medium", "high"} : GbPropose(p, cost, risk)
    BY <1>2, GbProposeKeeps
  <1>3. CASE \E p \in GbProposals : GbPoll(p) \/ GbApprove(p)
    BY <1>3, GbPollKeeps, GbApproveKeeps
  <1>4. CASE \E t \in DOMAIN gbItems, status \in {"approved", "rejected"} : GbResolve(t, status)
    BY <1>4, GbResolveKeeps DEF GbAnswers
  <1>5. CASE UNCHANGED gbVars
    BY <1>5 DEF gbVars, GbIInv, GbTypes, GbSilent, GbOnce, GbKnown, GbWaits, GbPassedApproved, GbGrantHolds, GbKept, GbHuman, GbAsSaid
  <1> QED BY <1>1, <1>2, <1>3, <1>4, <1>5 DEF GbNext

\* The invariant implies the properties.
LEMMA GbInvImplies == GbIInv => GbPassedApproved /\ GbGrantHolds /\ GbAnswersSurvive
  BY DEF GbIInv, GbKept, GbHuman, GbAsSaid, GbAnswersSurvive


-----------------------------------------------------------------------------
(* The desks *)

WdBallots == [by : WdWorkers, approved : BOOLEAN, at : Nat]

\* The request: while it is open all votes approve and are too few; votes are
\* cast in time.
WdVoteInv ==
    /\ wdNow \in Nat \ {0} /\ wdVotes \in Seq(WdBallots) /\ wdRequired \in Nat
    /\ wdStage \in {"none", "human_review", "submitted", "approved", "rejected", "expired"}
    /\ wdStage = "none" => wdVotes = <<>>
    /\ wdStage \in {"human_review", "submitted"} =>
        Len(wdVotes) < wdRequired /\ \A v \in DOMAIN wdVotes : wdVotes[v].approved
    /\ wdStage = "approved" => Len(wdVotes) = wdRequired /\ \A v \in DOMAIN wdVotes : wdVotes[v].approved
    /\ wdStage = "rejected" => Len(wdVotes) > 0 /\ ~wdVotes[Len(wdVotes)].approved
    /\ \A v \in DOMAIN wdVotes : wdVotes[v].at <= 1 + WdTtl

\* The plan: its status is open while it is executed.
WdPlanInv ==
    /\ wdSteps \in Seq({"pending", "completed", "failed"}) /\ wdRun \in Nat
    /\ wdRun # 0 => wdPlan = "executing"
    /\ WdPlanHonest

\* The desk: who was told that it holds a lease has the lease of the issue.
WdLeaseSet == [by : WdWorkers \cup {WdNobody}, until : Nat, active : BOOLEAN]
WdDeskInv ==
    /\ wdStatus \in [WdIssues -> WdStatuses] /\ wdResolvedAt \in [WdIssues -> Nat]
    /\ WdResolvedKnown
    /\ wdLeases \in [WdIssues -> WdLeaseSet] /\ wdHolds \in [WdWorkers -> [WdIssues -> Nat]]
    /\ \A w \in WdWorkers, i \in WdIssues : wdHolds[w][i] > wdNow =>
        wdLeases[i].active /\ wdLeases[i].by = w /\ wdLeases[i].until = wdHolds[w][i]

\* The inductive invariant.
WdIInv == WdVoteInv /\ WdPlanInv /\ WdDeskInv

\* The empty desk satisfies the invariant.
LEMMA WdInitInv == WdInit => WdIInv
  <1> SUFFICES ASSUME WdInit PROVE WdIInv
    OBVIOUS
  <1> USE WdAssumption DEF WdInit
  <1>1. WdVoteInv
    BY DEF WdVoteInv
  <1>2. WdPlanInv
    BY DEF WdPlanInv, WdPlanHonest
  <1>3. WdDeskInv
    BY DEF WdDeskInv, WdStatuses, WdLeaseSet, WdResolvedKnown, WdDone
  <1> QED BY <1>1, <1>2, <1>3 DEF WdIInv

\* If all votes approve there are as many approvals as votes.
LEMMA WdAllApprove ==
  ASSUME NEW votes \in Seq(WdBallots), \A v \in DOMAIN votes : votes[v].approved
  PROVE  WdApprovals(votes) = Len(votes)
  <1>1. {v \in DOMAIN votes : votes[v].approved} = 1 .. Len(votes) /\ Len(votes) \in Nat
    OBVIOUS
  <1>2. \A k \in Nat : Cardinality(1 .. k) = IF 1 > k THEN 0 ELSE k - 1 + 1
    BY FS_Interval
  <1>3. \A k \in Nat : Cardinality(1 .. k) = k
    BY <1>2
  <1> QED BY <1>1, <1>3 DEF WdApprovals

\* A vote is added at the end.
LEMMA WdVoted ==
  ASSUME NEW q \in Seq(WdBallots), NEW x \in WdBallots
  PROVE  /\ Append(q, x) \in Seq(WdBallots) /\ Len(q) \in Nat /\ Len(Append(q, x)) = Len(q) + 1
         /\ Append(q, x)[Len(q) + 1] = x
         /\ \A i \in DOMAIN Append(q, x) : i = Len(q) + 1 \/ (i \in DOMAIN q /\ Append(q, x)[i] = q[i])
  OBVIOUS

\* Steps of the request leave plan and desk alone.
LEMMA WdCastKeeps ==
  ASSUME NEW w \in WdWorkers, NEW approved \in BOOLEAN, WdVoteInv, WdCast(w, approved)
  PROVE  WdVoteInv'
  <1> USE WdAssumption
  <1>1. wdStage \in {"human_review", "submitted"} /\ wdNow' = wdNow /\ wdRequired' = wdRequired
    BY DEF WdCast, WdMayVote, WdFinal, WdVoteInv
  <1>2. CASE wdNow > 1 + WdTtl
    BY <1>1, <1>2 DEF WdCast, WdVoteInv
  <1>3. CASE ~(wdNow > 1 + WdTtl)
    <2> DEFINE x == [by |-> w, approved |-> approved, at |-> wdNow]
               votes == Append(wdVotes, x)
    <2>1. wdVotes' = votes /\ wdStage' = WdStageAfter(votes, approved)
      BY <1>3 DEF WdCast
    <2>2. x \in WdBallots /\ x.approved = approved /\ x.at = wdNow
      BY DEF WdVoteInv, WdBallots
    <2>3. /\ votes \in Seq(WdBallots) /\ Len(wdVotes) \in Nat /\ Len(votes) = Len(wdVotes) + 1
          /\ votes[Len(wdVotes) + 1] = x
          /\ \A i \in DOMAIN votes : i = Len(wdVotes) + 1 \/ (i \in DOMAIN wdVotes /\ votes[i] = wdVotes[i])
      BY <2>2, WdVoted DEF WdVoteInv
    <2> HIDE DEF votes, x
    <2>4. \A v \in DOMAIN votes : votes[v].at <= 1 + WdTtl
      BY <1>3, <2>2, <2>3 DEF WdVoteInv
    <2>5. CASE ~approved
      <3>1. wdStage' = "rejected"
        BY <2>1, <2>5 DEF WdStageAfter
      <3> QED BY <3>1, <1>1, <2>1, <2>2, <2>3, <2>4, <2>5 DEF WdVoteInv
    <2>6. CASE approved
      <3>1. \A v \in DOMAIN votes : votes[v].approved
        BY <1>1, <2>2, <2>3, <2>6 DEF WdVoteInv
      <3>2. WdApprovals(votes) = Len(votes)
        BY <3>1, <2>3, WdAllApprove
      <3>3. wdStage' = IF Len(votes) >= wdRequired THEN "approved" ELSE wdStage
        BY <3>2, <2>1, <2>6 DEF WdStageAfter
      <3>4. Len(wdVotes) < wdRequired /\ wdRequired \in Nat
        BY <1>1 DEF WdVoteInv
      <3> QED BY <3>1, <3>3, <3>4, <1>1, <2>1, <2>3, <2>4 DEF WdVoteInv
    <2> QED BY <2>5, <2>6
  <1> QED BY <1>2, <1>3


\* A plan that is executed, or gets a step, is honest.
LEMMA WdPlanKeeps ==
  ASSUME WdPlanInv, WdAddStep \/ WdExecute \/ WdExecuted \/ WdCreatePlan \/ \E success \in BOOLEAN : WdHandler(success)
  PROVE  WdPlanInv'
  <1>1. CASE WdAddStep
    BY <1>1 DEF WdAddStep, WdPlanInv, WdPlanHonest
  <1>2. CASE WdExecute
    BY <1>2 DEF WdExecute, WdPlanInv, WdPlanHonest
  <1>3. CASE WdExecuted
    BY <1>3 DEF WdExecuted, WdPlanInv, WdPlanHonest, WdOutcome
  <1>4. CASE WdCreatePlan
    BY <1>4 DEF WdCreatePlan, WdPlanInv, WdPlanHonest
  <1>5. CASE \E success \in BOOLEAN : WdHandler(success)
    <2> PICK success \in BOOLEAN : WdHandler(success)
      BY <1>5
    <2>1. wdRun \in DOMAIN wdSteps /\ wdRun # 0 /\ wdPlan = "executing"
      BY DEF WdHandler, WdPlanInv
    <2>2. wdSteps' \in Seq({"pending", "completed", "failed"}) /\ wdRun' \in Nat /\ wdPlan' = wdPlan
      BY <2>1 DEF WdHandler, WdPlanInv
    <2> QED BY <2>1, <2>2 DEF WdPlanInv, WdPlanHonest
  <1> QED BY <1>1, <1>2, <1>3, <1>4, <1>5

\* The lease of issue i becomes l and what w was told becomes h: nobody else was
\* told that it holds the issue.
LEMMA WdLeaseKeeps ==
  ASSUME WdDeskInv, wdNow \in Nat, NEW w \in WdWorkers, NEW i \in WdIssues, NEW l \in WdLeaseSet, NEW h \in Nat,
         \A v \in WdWorkers : v # w => ~(wdHolds[v][i] > wdNow),
         h > wdNow => l.active /\ l.by = w /\ l.until = h,
         wdLeases' = [wdLeases EXCEPT ![i] = l], wdHolds' = [wdHolds EXCEPT ![w][i] = h],
         UNCHANGED <<wdNow, wdStatus, wdResolvedAt>>
  PROVE  WdDeskInv'
  <1>1. wdLeases' \in [WdIssues -> WdLeaseSet] /\ wdHolds' \in [WdWorkers -> [WdIssues -> Nat]]
    BY DEF WdDeskInv
  <1>2. wdLeases'[i] = l /\ wdHolds'[w][i] = h
    BY DEF WdDeskInv
  <1>3. \A j \in WdIssues : j # i => wdLeases'[j] = wdLeases[j]
    BY DEF WdDeskInv
  <1>4. \A v \in WdWorkers, j \in WdIssues : v # w \/ j # i => wdHolds'[v][j] = wdHolds[v][j]
    BY DEF WdDeskInv
  <1>5. \A v \in WdWorkers, j \in WdIssues : wdHolds'[v][j] > wdNow =>
           wdLeases'[j].active /\ wdLeases'[j].by = v /\ wdLeases'[j].until = wdHolds'[v][j]
    BY <1>2, <1>3, <1>4 DEF WdDeskInv
  <1> QED BY <1>1, <1>5 DEF WdDeskInv, WdResolvedKnown

\* A claim of an issue makes its worker the only holder of the lease.
LEMMA WdClaimKeeps ==
  ASSUME WdDeskInv, wdNow \in Nat, NEW w \in WdWorkers, WdClaim(w)
  PROVE  WdDeskInv'
  <1> USE WdAssumption
  <1> DEFINE i == wdPicked[w]
             l == [by |-> w, until |-> wdNow + WdLease, active |-> TRUE]
  <1>1. UNCHANGED <<wdNow, wdStatus, wdResolvedAt>>
    BY DEF WdClaim
  <1>2. CASE UNCHANGED <<wdLeases, wdHolds>>
    BY <1>1, <1>2 DEF WdDeskInv, WdResolvedKnown
  <1>3. CASE /\ ~WdTaken(i, w) /\ wdLeases' = [wdLeases EXCEPT ![i] = l]
             /\ wdHolds' = [wdHolds EXCEPT ![w][i] = wdNow + WdLease]
    <2>1. CASE i \notin WdIssues
      <3>1. wdLeases' = wdLeases /\ wdHolds' = wdHolds
        <4>1. DOMAIN wdLeases = WdIssues /\ DOMAIN wdHolds[w] = WdIssues /\ w \in DOMAIN wdHolds
          BY DEF WdDeskInv
        <4>2. wdLeases' = wdLeases
          BY <1>3, <2>1, <4>1 DEF WdDeskInv
        <4>3. [wdHolds[w] EXCEPT ![i] = wdNow + WdLease] = wdHolds[w]
          BY <2>1, <4>1 DEF WdDeskInv
        <4>4. wdHolds' = [wdHolds EXCEPT ![w] = wdHolds[w]]
          BY <1>3, <4>3
        <4> QED BY <4>2, <4>4 DEF WdDeskInv
      <3> QED BY <3>1, <1>1 DEF WdDeskInv, WdResolvedKnown
    <2>2. CASE i \in WdIssues
      <3>1. \A v \in WdWorkers : v # w => ~(wdHolds[v][i] > wdNow)
        BY <1>3, <2>2 DEF WdDeskInv, WdTaken, WdClaimed
      <3>2. l \in WdLeaseSet /\ l.active /\ l.by = w /\ l.until = wdNow + WdLease /\ wdNow + WdLease \in Nat
        BY DEF WdLeaseSet
      <3> HIDE DEF i, l
      <3> QED BY <3>1, <3>2, <1>1, <1>3, <2>2, WdLeaseKeeps
    <2> QED BY <2>1, <2>2
  <1> QED BY <1>2, <1>3 DEF WdClaim

\* A renewal extends the lease of its holder only.
LEMMA WdRenewKeeps ==
  ASSUME WdDeskInv, wdNow \in Nat, NEW w \in WdWorkers, NEW i \in WdIssues, WdRenew(w, i) \/ WdRelease(w, i)
  PROVE  WdDeskInv'
  <1> USE WdAssumption
  <1>1. UNCHANGED <<wdNow, wdStatus, wdResolvedAt>> /\ wdLeases[i].active /\ wdLeases[i].by = w /\ wdLeases[i] \in WdLeaseSet
    BY DEF WdRenew, WdRelease, WdClaimed, WdDeskInv
  <1>2. \A v \in WdWorkers : v # w => ~(wdHolds[v][i] > wdNow)
    BY <1>1 DEF WdDeskInv
  <1>3. CASE WdRenew(w, i)
    <2> DEFINE l == [wdLeases[i] EXCEPT !.until = wdNow + WdLease]
    <2>1. l \in WdLeaseSet /\ l.active /\ l.by = w /\ l.until = wdNow + WdLease /\ wdNow + WdLease \in Nat
      BY <1>1 DEF WdLeaseSet
    <2>2. wdLeases' = [wdLeases EXCEPT ![i] = l] /\ wdHolds' = [wdHolds EXCEPT ![w][i] = wdNow + WdLease]
      BY <1>3 DEF WdRenew
    <2> HIDE DEF l
    <2> QED BY <2>1, <2>2, <1>1, <1>2, WdLeaseKeeps
  <1>4. CASE WdRelease(w, i)
    <2> DEFINE l == [wdLeases[i] EXCEPT !.active = FALSE]
    <2>1. l \in WdLeaseSet
      BY <1>1 DEF WdLeaseSet
    <2>2. wdLeases' = [wdLeases EXCEPT ![i] = l] /\ wdHolds' = [wdHolds EXCEPT ![w][i] = 0]
      BY <1>4 DEF WdRelease
    <2>3. 0 \in Nat /\ ~(0 > wdNow)
      OBVIOUS
    <2> HIDE DEF l
    <2> QED BY <2>1, <2>2, <2>3, <1>1, <1>2, WdLeaseKeeps
  <1> QED BY <1>3, <1>4

\* Picking up an issue keeps its history and its lease.
LEMMA WdPickKeeps ==
  ASSUME WdDeskInv, wdNow \in Nat, NEW w \in WdWorkers, NEW status, WdPick(w, status)
  PROVE  WdDeskInv'
  <1>1. UNCHANGED <<wdNow, wdStatus, wdResolvedAt, wdHolds>>
        /\ wdLeases' = [i \in WdIssues |-> IF wdStatus[i] = status THEN WdChecked[i] ELSE wdLeases[i]]
    BY DEF WdPick
  <1>2. \A i \in WdIssues : WdChecked[i] \in WdLeaseSet /\ WdChecked[i].by = wdLeases[i].by /\ WdChecked[i].until = wdLeases[i].until
                            /\ WdChecked[i].active = (wdLeases[i].active /\ wdNow < wdLeases[i].until)
    <2> SUFFICES ASSUME NEW i \in WdIssues
                 PROVE  /\ WdChecked[i] \in WdLeaseSet /\ WdChecked[i].by = wdLeases[i].by /\ WdChecked[i].until = wdLeases[i].until
                        /\ WdChecked[i].active = (wdLeases[i].active /\ wdNow < wdLeases[i].until)
      OBVIOUS
    <2>1. wdLeases[i] \in WdLeaseSet /\ WdChecked[i] = [wdLeases[i] EXCEPT !.active = WdClaimed(i)]
      BY DEF WdDeskInv, WdChecked
    <2>2. WdClaimed(i) \in BOOLEAN /\ WdClaimed(i) = (wdLeases[i].active /\ wdNow < wdLeases[i].until)
      BY <2>1 DEF WdClaimed, WdLeaseSet
    <2> HIDE DEF WdClaimed
    <2> QED BY <2>1, <2>2 DEF WdLeaseSet
  <1>3. wdLeases' \in [WdIssues -> WdLeaseSet]
    BY <1>1, <1>2 DEF WdDeskInv
  <1>4. \A i \in WdIssues : /\ wdLeases'[i].by = wdLeases[i].by /\ wdLeases'[i].until = wdLeases[i].until
                            /\ (wdLeases[i].active /\ wdNow < wdLeases[i].until => wdLeases'[i].active)
    BY <1>1, <1>2
  <1>5. \A v \in WdWorkers, i \in WdIssues : wdHolds[v][i] > wdNow =>
           wdLeases'[i].active /\ wdLeases'[i].by = v /\ wdLeases'[i].until = wdHolds[v][i]
    BY <1>4 DEF WdDeskInv
  <1> QED BY <1>1, <1>3, <1>5 DEF WdDeskInv, WdResolvedKnown

\* An update of the status of an issue keeps its history and its lease.
LEMMA WdUpdateKeeps ==
  ASSUME WdDeskInv, wdNow \in Nat \ {0}, NEW i \in WdIssues,
         \/ \E status \in {"open", "triaged", "resolved"} : WdUpdate(i, status)
         \/ \E w \in {CHOOSE v \in WdWorkers : TRUE, WdNobody} : WdAssign(i, w)
  PROVE  WdDeskInv'
  <1>1. UNCHANGED <<wdNow, wdLeases, wdHolds>>
    BY DEF WdUpdate, WdAssign
  <1>2. CASE \E status \in {"open", "triaged", "resolved"} : WdUpdate(i, status)
    <2>1. wdStatus' \in [WdIssues -> WdStatuses] /\ wdResolvedAt' \in [WdIssues -> Nat]
      BY <1>2 DEF WdUpdate, WdResolvedAtAfter, WdDeskInv, WdStatuses
    <2>2. WdResolvedKnown'
      BY <1>2 DEF WdUpdate, WdResolvedAtAfter, WdDeskInv, WdResolvedKnown, WdDone
    <2> QED BY <1>1, <2>1, <2>2 DEF WdDeskInv
  <1>3. CASE \E w \in {CHOOSE v \in WdWorkers : TRUE, WdNobody} : WdAssign(i, w)
    <2>1. wdResolvedAt' = wdResolvedAt
      BY <1>3 DEF WdAssign
    <2>2. wdStatus' = wdStatus \/ (wdStatus[i] = "open" /\ wdStatus' = [wdStatus EXCEPT ![i] = "in_progress"])
      BY <1>3 DEF WdAssign, WdDeskInv
    <2>3. wdStatus' \in [WdIssues -> WdStatuses]
      BY <2>2 DEF WdDeskInv, WdStatuses
    <2>4. WdResolvedKnown'
      BY <2>1, <2>2 DEF WdDeskInv, WdResolvedKnown, WdDone
    <2> QED BY <1>1, <2>1, <2>3, <2>4 DEF WdDeskInv
  <1> QED BY <1>2, <1>3


\* Every step of the desk keeps its invariant.
LEMMA WdStep == WdIInv /\ [WdNext]_wdVars => WdIInv'
  <1> SUFFICES ASSUME WdIInv, [WdNext]_wdVars PROVE WdIInv'
    OBVIOUS
  <1> USE WdAssumption
  <1>1. wdNow \in Nat \ {0} /\ wdNow \in Nat
    BY DEF WdIInv, WdVoteInv
  <1>2. CASE UNCHANGED wdVote /\ UNCHANGED wdNow
    <2> WdVoteInv'
      BY <1>2 DEF WdIInv, WdVoteInv, wdVote
    <2>1. CASE UNCHANGED wdRoll /\ UNCHANGED <<wdStatus, wdResolvedAt, wdLeases, wdHolds>>
      BY <1>2, <2>1 DEF WdIInv, WdPlanInv, WdPlanHonest, WdDeskInv, WdResolvedKnown, wdRoll
    <2>2. CASE UNCHANGED wdDesk /\ (WdAddStep \/ WdExecute \/ WdExecuted \/ WdCreatePlan \/ \E success \in BOOLEAN : WdHandler(success))
      <3>1. WdPlanInv'
        BY <2>2, WdPlanKeeps DEF WdIInv
      <3>2. WdDeskInv'
        BY <1>2, <2>2 DEF WdIInv, WdDeskInv, WdResolvedKnown, wdDesk
      <3> QED BY <3>1, <3>2 DEF WdIInv
    <2>3. CASE UNCHANGED wdRoll /\ WdDeskInv'
      BY <2>3 DEF WdIInv, WdPlanInv, WdPlanHonest, wdRoll
    <2>4. CASE WdStart \/ UNCHANGED wdVars
      BY <2>1, <2>4 DEF WdStart, wdVars, wdRoll
    <2>5. CASE WdAddStep \/ WdExecute \/ WdExecuted \/ WdCreatePlan \/ \E success \in BOOLEAN : WdHandler(success)
      BY <2>2, <2>5 DEF WdAddStep, WdExecute, WdExecuted, WdCreatePlan, WdHandler
    <2>6. CASE \/ \E i \in WdIssues, status \in {"open", "triaged", "resolved"} : WdUpdate(i, status)
               \/ \E i \in WdIssues, w \in {CHOOSE v \in WdWorkers : TRUE, WdNobody} : WdAssign(i, w)
      <3>1. UNCHANGED wdRoll
        BY <2>6 DEF WdUpdate, WdAssign
      <3>2. WdDeskInv'
        BY <2>6, <1>1, WdUpdateKeeps DEF WdIInv
      <3> QED BY <3>1, <3>2, <2>3
    <2>7. CASE \E w \in WdWorkers : WdClaim(w) \/ \E status \in {"open", "in_progress"} : WdPick(w, status)
      <3>1. UNCHANGED wdRoll
        BY <2>7 DEF WdClaim, WdPick
      <3>2. WdDeskInv'
        BY <2>7, <1>1, WdClaimKeeps, WdPickKeeps DEF WdIInv
      <3> QED BY <3>1, <3>2, <2>3
    <2>8. CASE \E w \in WdWorkers, i \in WdIssues : WdRenew(w, i) \/ WdRelease(w, i)
      <3>1. UNCHANGED wdRoll
        BY <2>8 DEF WdRenew, WdRelease
      <3>2. WdDeskInv'
        BY <2>8, <1>1, WdRenewKeeps DEF WdIInv
      <3> QED BY <3>1, <3>2, <2>3
    <2>9. CASE WdTick
      BY <1>1, <1>2, <2>9 DEF WdTick
    <2>10. CASE \/ \E required \in 1 .. 2, checked \in BOOLEAN : WdSubmit(required, checked)
                \/ \E w \in WdWorkers, approved \in BOOLEAN : WdCast(w, approved)
      BY <2>1, <2>10 DEF WdSubmit, WdCast, wdDesk
    <2> QED BY <2>4, <2>5, <2>6, <2>7, <2>8, <2>9, <2>10 DEF WdNext
  <1>3. CASE UNCHANGED wdRoll /\ UNCHANGED wdDesk /\ wdNow' \in Nat /\ wdNow' >= wdNow /\ WdVoteInv'
    BY <1>1, <1>3 DEF WdIInv, WdPlanInv, WdPlanHonest, WdDeskInv, WdResolvedKnown, wdRoll, wdDesk
  <1>4. CASE WdTick
    <2>1. UNCHANGED wdRoll /\ UNCHANGED wdDesk /\ wdNow' = wdNow + 1 /\ UNCHANGED wdVote
      BY <1>4 DEF WdTick
    <2>2. WdVoteInv'
      BY <2>1, <1>1 DEF WdIInv, WdVoteInv, wdVote
    <2> QED BY <2>1, <2>2, <1>1, <1>3
  <1>5. CASE \E required \in 1 .. 2, checked \in BOOLEAN : WdSubmit(required, checked)
    <2>1. UNCHANGED wdRoll /\ UNCHANGED wdDesk /\ wdNow' = wdNow
      BY <1>5 DEF WdSubmit
    <2>2. WdVoteInv'
      BY <1>5, <1>1 DEF WdIInv, WdSubmit, WdVoteInv
    <2> QED BY <2>1, <2>2, <1>1, <1>3
  <1>6. CASE \E w \in WdWorkers, approved \in BOOLEAN : WdCast(w, approved)
    <2>1. UNCHANGED wdRoll /\ UNCHANGED wdDesk /\ wdNow' = wdNow
      BY <1>6 DEF WdCast
    <2>2. WdVoteInv'
      BY <1>6, WdCastKeeps DEF WdIInv
    <2> QED BY <2>1, <2>2, <1>1, <1>3
  <1>7. CASE ~(UNCHANGED wdVote /\ UNCHANGED wdNow) /\ WdNext
    BY <1>4, <1>5, <1>6, <1>7
    DEF WdNext, WdStart, WdCreatePlan, WdAddStep, WdExecute, WdExecuted, WdHandler, WdUpdate, WdAssign, WdClaim, WdPick, WdRenew, WdRelease
  <1>8. UNCHANGED wdVars => UNCHANGED wdVote /\ UNCHANGED wdNow
    BY DEF wdVars, wdVote
  <1> QED BY <1>2, <1>7, <1>8

\* The invariant implies the properties.
LEMMA WdInvImplies == WdIInv => WdDecidedRightly /\ WdPlanHonest /\ WdResolvedKnown /\ WdOneHolder
  <1> SUFFICES ASSUME WdIInv PROVE WdDecidedRightly /\ WdPlanHonest /\ WdResolvedKnown /\ WdOneHolder
    OBVIOUS
  <1>1. WdDecidedRightly
    BY WdAllApprove DEF WdIInv, WdVoteInv, WdDecidedRightly
  <1>2. WdOneHolder
    BY DEF WdIInv, WdDeskInv, WdOneHolder
  <1> QED BY <1>1, <1>2 DEF WdIInv, WdPlanInv, WdDeskInv

-----------------------------------------------------------------------------
(* Steps that never happen *)

\* A set of naturals below a bound that is not empty has a largest element.
LEMMA HasLargest ==
  ASSUME NEW n \in Nat, NEW S \in SUBSET (0 .. n), S # {}
  PROVE  \E i \in S : \A j \in S : j <= i
  <1> DEFINE T == {k \in Nat : n - k \in S}
  <1>1. T \subseteq Nat /\ T # {}
    <2>1. PICK i \in S : TRUE
      OBVIOUS
    <2>2. n - i \in Nat /\ n - (n - i) = i
      BY <2>1
    <2> QED BY <2>1, <2>2
  <1>2. PICK k \in T : \A l \in T : ~ (<<l, k>> \in OpToRel(<, Nat))
    <2> HIDE DEF T
    <2> QED BY <1>1, NatLessThanWellFounded, WFMin, Zenon
  <1>3. \A l \in T : ~ (l < k)
    BY <1>2 DEF OpToRel
  <1>4. \A j \in S : n - j \in T
    BY SMT
  <1>5. \A j \in S : j <= n - k
    BY <1>3, <1>4, SMT
  <1> QED BY <1>5

\* The window of a text: sizes that the constructor of TextChunker accepts.
KbSized ==
    /\ kbPos \in Nat /\ kbSize \in Nat /\ kbOver \in Nat /\ kbOver < kbSize
    /\ Len(kbText) \in Nat

\* Only the tools wait for an embedding.
KbQuiet == kbMode # "tool" => \A c \in KbCallers : kbRun[c].at = "idle"

\* The chunker starts before the text, and nobody waits.
LEMMA KbMovesInit == KbInit => KbSized /\ KbQuiet
  BY DEF KbInit, KbSized, KbQuiet, KbIdle

\* A separator is found in the part of the text that was searched, or none is.
LEMMA KbLastBounds ==
  ASSUME NEW ch, NEW from \in Nat, NEW to \in Nat
  PROVE  KbLast(ch, from, to) \in Int /\ (KbLast(ch, from, to) # -1 => KbLast(ch, from, to) \in from .. to - 1)
  <1> DEFINE at == {i \in from .. to - 1 : kbText[i + 1] = ch}
  <1>1. at # {} => \E i \in at : \A j \in at : j <= i
    <2>1. at \in SUBSET (0 .. to)
      BY SMT
    <2> HIDE DEF at
    <2> QED BY <2>1, HasLargest
  <1>2. at # {} => (CHOOSE i \in at : \A j \in at : j <= i) \in at
    <2> HIDE DEF at
    <2> QED BY <1>1
  <1> QED BY <1>2 DEF KbLast

\* The window ends inside the text, at a character.
LEMMA KbEndBounds ==
  ASSUME KbSized
  PROVE  KbEnd \in Int
  <1> DEFINE end == KbMin(kbPos + kbSize, Len(kbText))
             para == KbLast("p", kbPos + kbOver, end)
             blank == KbLast("s", kbPos + kbOver, end)
  <1>1. end \in Nat /\ kbPos + kbOver \in Nat
    BY DEF KbSized, KbMin
  <1>2. para \in Int /\ blank \in Int
    <2> HIDE DEF end
    <2> QED BY <1>1, KbLastBounds
  <1>3. KbEnd = IF end < Len(kbText) /\ (IF para # -1 THEN para ELSE blank) > kbPos
                THEN (IF para # -1 THEN para ELSE blank) ELSE end
    BY DEF KbEnd
  <1> HIDE DEF end, para, blank
  <1> QED BY <1>1, <1>2, <1>3

\* A window that does not end the loop is followed by one that starts later.
LEMMA KbWindowMoves ==
  ASSUME KbSized, KbWindow \/ KbSplit
  PROVE  KbSized' /\ (kbDone' \/ kbPos' > kbPos)
  <1>1. CASE KbWindow
    <2>1. KbStep(KbEnd) \in Nat /\ KbStep(KbEnd) >= 1
      BY KbEndBounds DEF KbStep, KbBigger, KbSized
    <2>2. kbPos' = (IF kbDone' THEN kbPos ELSE kbPos + KbStep(KbEnd)) /\ kbText' = kbText /\ kbSize' = kbSize /\ kbOver' = kbOver
      BY <1>1 DEF KbWindow
    <2> QED BY <2>1, <2>2 DEF KbSized
  <1>2. CASE KbSplit
    BY <1>2 DEF KbSplit, KbSized
  <1> QED BY <1>1, <1>2

\* Every step of the knowledge index keeps the sizes sensible, and moves a window on.
LEMMA KbMoves == KbSized /\ KbQuiet /\ [KbNext]_kbVars =>
                   /\ KbSized' /\ KbQuiet'
                   /\ [(kbMode \in {"chunk", "split"}) => (kbDone' \/ (kbPos' > kbPos))]_kbVars
  <1> SUFFICES ASSUME KbSized, KbQuiet, [KbNext]_kbVars
               PROVE  /\ KbSized' /\ KbQuiet'
                      /\ (kbMode \in {"chunk", "split"}) => (kbDone' \/ (kbPos' > kbPos)) \/ UNCHANGED kbVars
    OBVIOUS
  <1>1. CASE KbWindow \/ KbSplit
    <2>1. kbMode' = kbMode /\ kbRun' = kbRun
      BY <1>1 DEF KbWindow, KbSplit, kbToolVars
    <2> QED BY <1>1, <2>1, KbWindowMoves DEF KbQuiet
  <1>2. ASSUME NEW m, NEW chars, KbRead(m, chars) PROVE kbMode = "off" /\ KbSized' /\ KbQuiet'
    <2>1. PICK l \in 1 .. KbMaxText : kbText' \in [1 .. l -> chars]
      BY <1>2 DEF KbRead, KbTexts
    <2>2. Len(kbText') \in Nat
      BY <2>1, KbBoundAssumption
    <2>3. PICK so \in KbSizes : kbSize' = so[1] /\ kbOver' = so[2]
      BY <1>2 DEF KbRead
    <2>4. KbSized'
      BY <1>2, <2>2, <2>3, KbBoundAssumption DEF KbRead, KbSizes, KbSized
    <2> QED BY <1>2, <2>4 DEF KbRead, KbQuiet, kbToolVars
  <1>3. CASE KbFuse \/ KbTool
    BY <1>3 DEF KbFuse, KbTool, KbSized, KbQuiet, kbTextVars, kbToolVars
  <1>4. ASSUME NEW c \in KbCallers, KbAdd(c) \/ \E r, d \in BOOLEAN : KbSave(c, r, d)
        PROVE  kbMode = "tool" /\ KbSized' /\ KbQuiet'
    <2>1. kbMode' = kbMode /\ kbTextVars' = kbTextVars
      BY <1>4 DEF KbAdd, KbSave
    <2>2. kbMode = "tool"
      BY <1>4 DEF KbAdd, KbSave, KbQuiet
    <2> QED BY <2>1, <2>2 DEF kbTextVars, KbSized, KbQuiet
  <1>5. CASE UNCHANGED kbVars
    BY <1>5 DEF kbVars, KbSized, KbQuiet
  <1> QED BY <1>1, <1>2, <1>3, <1>4, <1>5 DEF KbNext

\* An enclave with an open channel is ready; a caller has one execution at most.
EnOpen ==
    /\ enChannel # 0 => enStatus = "ready"
    /\ enRun = [c \in EnCallers |-> [at |-> enRun[c].at, key |-> enRun[c].key]]

\* An enclave that was not started has no channel.
LEMMA EnOpenInit == EnInit => EnOpen
  BY DEF EnInit, EnOpen, EnNobody

\* A start that is refused happens only while no channel is open.
LEMMA EnStartedOpen ==
  ASSUME NEW valid \in BOOLEAN, EnOpen,
         IF EnIsReady THEN UNCHANGED <<enStatus, enChannel, enStarts, enVerified>> ELSE EnStarted(valid)
  PROVE  (enChannel # 0 => enStatus = "ready")'
  BY DEF EnOpen, EnIsReady, EnStarted

\* Every step keeps that, and an execution that was under way is answered only
\* through an open channel, which a ready enclave has.
LEMMA EnAnswers == EnOpen /\ [EnNext]_enVars =>
    EnOpen' /\ [\A c \in EnCallers : enRun[c].at = "inside" /\ enRun'[c].at = "returned" => enStatus = "ready"]_enVars
  <1> SUFFICES ASSUME EnOpen, [EnNext]_enVars
               PROVE  /\ EnOpen'
                      /\ \A c \in EnCallers : enRun[c].at = "inside" /\ enRun'[c].at = "returned" => enStatus = "ready"
    OBVIOUS
  <1>1. CASE enRun' = enRun /\ enStatus' = enStatus /\ enChannel' = enChannel
    BY <1>1 DEF EnOpen
  <1>2. ASSUME NEW valid \in BOOLEAN, EnStart(valid) PROVE enRun' = enRun /\ EnOpen'
    BY <1>2, EnStartedOpen DEF EnStart, EnOpen
  <1>3. ASSUME NEW valid \in BOOLEAN, NEW c \in EnCallers, EnExecute(c, valid)
        PROVE  EnOpen' /\ enRun[c].at # "inside" /\ \A d \in EnCallers \ {c} : enRun'[d] = enRun[d]
    <2>1. (enChannel # 0 => enStatus = "ready")'
      BY <1>3, EnStartedOpen DEF EnExecute
    <2> QED BY <1>3, <2>1 DEF EnExecute, EnOpen
  <1>4. ASSUME NEW c \in EnCallers, EnReturns(c)
        PROVE  EnOpen' /\ (enRun'[c].at = "returned" => enStatus = "ready") /\ \A d \in EnCallers \ {c} : enRun'[d] = enRun[d]
    BY <1>4 DEF EnReturns, EnOpen
  <1>5. CASE EnStop
    BY <1>5 DEF EnStop, EnCloses, EnOpen
  <1>6. CASE EnKmsNext
    <2>1. enRunVars' = enRunVars
      BY <1>6 DEF EnKmsNext, EnRotated, EnRestart, EnExpires, EnEncrypt, EnDecrypt, EnRotate, EnOnlyKms
    <2> QED BY <2>1, <1>1 DEF enRunVars
  <1> QED
    <2>1. CASE \E m \in {"run", "attest", "kms"}, p \in {"local", "aws", "gcp", "vault"}, cl \in BOOLEAN : EnChoose(m, p, cl)
      BY <2>1, <1>1 DEF EnChoose, enRunVars
    <2>2. CASE enMode = "attest" /\ \E doc \in SUBSET (EnFields \cup EnFaults) : Cardinality(doc) <= 3 /\ EnAttest(doc)
      BY <2>2, <1>1 DEF EnAttest, enRunVars
    <2>3. CASE UNCHANGED enVars
      BY <2>3, <1>1 DEF enVars, enRunVars
    <2>4. CASE EnRunNext
      BY <2>4, <1>2, <1>3, <1>4, <1>5 DEF EnRunNext
    <2> QED BY <2>1, <2>2, <2>3, <2>4, <1>6 DEF EnNext

\* What a restoration that is not forced has still to extract is not in the target.
DsFree ==
    /\ dsTarget = [f \in DsFiles |-> dsTarget[f]] /\ dsWith \subseteq DsFiles
    /\ dsJob = "extract" /\ ~dsForce => \A f \in dsWith : dsTarget[f] = DsNo

\* Nothing is restored at first.
LEMMA DsFreeInit == DsInit => DsFree
  BY DEF DsInit, DsFree, DsNothing

\* Between two jobs nothing is restored.
LEMMA DsIdleFree == DsIdle => DsFree' /\ dsJob' = "idle"
  BY DEF DsIdle, DsFree, DsNothing

\* Every step keeps that, and extract replaces no file of the target.
LEMMA DsKeepsTarget == DsFree /\ [DsNext]_dsVars =>
    DsFree' /\ [dsJob = "extract" /\ dsJob' = "extract" /\ ~dsForce => \A f \in DsFiles : dsTarget[f] # DsNo => dsTarget'[f] = dsTarget[f]]_dsVars
  <1> SUFFICES ASSUME DsFree, [DsNext]_dsVars
               PROVE  /\ DsFree'
                      /\ dsJob = "extract" /\ dsJob' = "extract" /\ ~dsForce =>
                           \A f \in DsFiles : dsTarget[f] # DsNo => dsTarget'[f] = dsTarget[f]
    OBVIOUS
  <1>1. CASE dsJob' = dsJob /\ dsWith' = dsWith /\ dsTarget' = dsTarget /\ dsForce' = dsForce
    BY <1>1 DEF DsFree
  <1>2. CASE DsIdle
    BY <1>2, DsIdleFree
  <1>3. ASSUME NEW f \in DsFiles, DsExtract(f)
        PROVE  DsFree' /\ (~dsForce => \A g \in DsFiles : dsTarget[g] # DsNo => dsTarget'[g] = dsTarget[g])
    BY <1>3 DEF DsExtract, DsFree
  <1>4. CASE DsOpens
    <2>1. CASE DsRefuses(dsId)
      BY <1>4, <2>1, <1>2 DEF DsOpens, DsFinish
    <2>2. CASE ~DsRefuses(dsId)
      BY <1>4, <2>2 DEF DsOpens, DsRefuses, DsMembers, DsFree
    <2> QED BY <2>1, <2>2
  <1>5. ASSUME NEW id, NEW logs, DsCreate(id, logs) PROVE DsFree' /\ dsJob # "extract"
    BY <1>5 DEF DsCreate, DsFree, DsFiles
  <1>6. ASSUME NEW id, NEW force, NEW there, DsRestore(id, force, there) PROVE DsFree' /\ dsJob # "extract"
    BY <1>6 DEF DsRestore, DsFree
  <1>7. CASE DsSeal
    BY <1>7, <1>2 DEF DsSeal, DsFree
  <1>8. CASE DsPack \/ DsPacked
    BY <1>8 DEF DsPack, DsPacked, DsFree
  <1>9. CASE DsVerified \/ DsDies
    BY <1>9, <1>2 DEF DsVerified, DsDies, DsFinish
  <1>10. CASE DsWalCheckpoint \/ \E f \in DsFiles : DsWrite(f) \/ (\E api \in BOOLEAN : DsStage(f, api))
    BY <1>10, <1>1 DEF DsWalCheckpoint, DsWrite, DsStage
  <1>11. CASE DsBackupNext
    BY <1>11, <1>3, <1>4, <1>5, <1>6, <1>7, <1>8, <1>9, <1>10 DEF DsBackupNext
  <1>12. CASE UNCHANGED dsBackupVars
    BY <1>12, <1>1 DEF dsBackupVars
  <1>13. (\E m \in {"backup", "tenant", "state", "migrate"} : DsChoose(m)) \/ DsTenantNext \/ DsStateNext \/ DsMigrateNext
            => UNCHANGED dsBackupVars
    <2>1. DsTenantNext => UNCHANGED dsBackupVars
      BY DEF DsTenantNext, DsExit, DsEnter, DsSpawn, DsAccess, DsUnchangedButTenant
    <2>2. DsStateNext => UNCHANGED dsBackupVars
      BY DEF DsStateNext, DsReplace, DsCheckpoint, DsRestart, DsRestoreCheckpoint, DsSaveState, DsUnchangedButState
    <2>3. DsMigrateNext => UNCHANGED dsBackupVars
      BY DEF DsMigrateNext, DsRegisterStep, DsMigrate, DsStep, DsUnchangedButMigrate
    <2> QED BY <2>1, <2>2, <2>3 DEF DsChoose
  <1>14. CASE UNCHANGED dsVars
    BY <1>14, <1>12 DEF dsVars
  <1> QED BY <1>11, <1>12, <1>13, <1>14 DEF DsNext

\* A copy that is written again exists.
LEMMA SkSavedExists ==
  ASSUME NEW n, NEW better, NEW p, NEW q
  PROVE  LET todo == SkSaved(n, <<p, n, better>>) \o SkSaved(n, <<q, n, better>>)
         IN  \A i \in 1 .. Len(todo) : SkExists(todo[i][1], todo[i][2])
  <1> DEFINE x == <<p, n, better>>
             y == <<q, n, better>>
             todo == SkSaved(n, x) \o SkSaved(n, y)
  <1>1. /\ SkSaved(n, x) = IF SkExists(p, n) THEN <<x>> ELSE <<>>
        /\ SkSaved(n, y) = IF SkExists(q, n) THEN <<y>> ELSE <<>>
    BY DEF SkSaved, SkSaves
  <1>2. \A i \in 1 .. Len(todo) : (todo[i] = x /\ SkExists(p, n)) \/ (todo[i] = y /\ SkExists(q, n))
    <2> HIDE DEF x, y
    <2> QED BY <1>1
  <1>3. x[1] = p /\ x[2] = n /\ y[1] = q /\ y[2] = n
    OBVIOUS
  <1> HIDE DEF x, y
  <1>4. \A i \in 1 .. Len(todo) : SkExists(todo[i][1], todo[i][2])
    <2> HIDE DEF todo
    <2> QED BY <1>2, <1>3
  <1> QED BY <1>4 DEF x, y

\* What a refinement writes when the LLM has answered, it writes over copies that exist.
LEMMA SkRevivesNothing == [SkNext]_skVars =>
    [(skRefine # <<>> /\ skTodo' # <<>> /\ skRefine' = <<>>) => \A i \in 1 .. Len(skTodo') : SkExists(skTodo'[i][1], skTodo'[i][2])]_skVars
  <1> SUFFICES ASSUME [SkNext]_skVars, skRefine # <<>>, skTodo' # <<>>, skRefine' = <<>>
               PROVE  \A i \in 1 .. Len(skTodo') : SkExists(skTodo'[i][1], skTodo'[i][2])
    OBVIOUS
  <1>1. ASSUME NEW ok \in BOOLEAN, SkRefined(ok) PROVE \A i \in 1 .. Len(skTodo') : SkExists(skTodo'[i][1], skTodo'[i][2])
    <2>1. PICK n, better : skTodo' = SkSaved(n, <<"global", n, better>>) \o SkSaved(n, <<"auto", n, better>>)
      BY <1>1 DEF SkRefined, SkIdle
    <2> QED BY <2>1, SkSavedExists
  <1>2. ~SkBreaks /\ ~SkStep
    BY DEF SkBreaks, SkStep
  <1>3. \A n \in SkPlain : ~SkEdit(n) /\ ~SkPlaced(n) /\ ~SkDelete(n) /\ ~SkCheckAndRefine(n) /\ \A ok \in BOOLEAN : ~SkLogExecution(n, ok)
    BY DEF SkEdit, SkPlaced, SkDelete, SkCheckAndRefine, SkLogExecution
  <1>4. \A n \in SkPlain, turns \in {3, 4}, calls \in {5, 6}, empty \in BOOLEAN : ~SkCreate(n, turns, calls, empty)
    BY DEF SkCreate
  <1>5. \A p \in SkPairs : ~SkMerge(<<p[1]>>, <<p[2]>>)
    BY DEF SkMerge
  <1>6. ~(UNCHANGED skFileVars)
    BY DEF skFileVars
  <1>7. (\E m \in {"files", "install", "registry", "learn"} : SkChoose(m)) \/ SkInstallNext \/ SkRegistryNext \/ SkLearnNext \/ UNCHANGED skVars
            => UNCHANGED skFileVars
    <2>1. SkInstallNext => UNCHANGED skFileVars
      BY DEF SkInstallNext, SkRemove, SkInstall, SkScanSkill, SkNpx, SkOnlyInst
    <2>2. SkRegistryNext => UNCHANGED skFileVars
      BY DEF SkRegistryNext, SkReload, SkSetEnabled, SkDirChanges, SkOnlyReg
    <2>3. SkLearnNext => UNCHANGED skFileVars
      BY DEF SkLearnNext, SkReflect, SkRevise, SkOnlyLearn
    <2> QED BY <2>1, <2>2, <2>3 DEF SkChoose, skVars
  <1> QED BY <1>1, <1>2, <1>3, <1>4, <1>5, <1>6, <1>7 DEF SkNext, SkFilesNext

-----------------------------------------------------------------------------
(* Records under retention *)

CpEntries == [rec : Nat, index : Nat, prev : Nat]
CpLines == [rec : Nat, index : Nat, prev : Nat, whole : BOOLEAN]

\* What the variables are, as far as the steps depend on it.
CpTypes ==
    /\ cpNow \in 0 .. CpMaxTime /\ cpMade \in Seq(Nat) /\ cpTwice \in BOOLEAN
    /\ cpLog \in Seq(CpEntries) /\ cpArchives \in [CpDays -> SUBSET Nat] /\ cpPruned \subseteq CpDays
    /\ cpPrune \in [phase : {"idle", "archive", "rewrite"}, old : SUBSET Nat, kept : Seq(CpEntries)]
    /\ cpDaily \in [CpDays -> Seq(CpLines)]

\* Record n is a line of the chain, or in an archive.
CpIn(chain, n) == \E i \in DOMAIN chain : chain[i].rec = n
CpArchived(n) == \E d \in CpDays : n \in cpArchives[d]

\* Every record is somewhere; while the log is pruned, what is not kept is old, and later archived.
CpCovered ==
    /\ \A n \in DOMAIN cpMade : CpIn(cpLog, n) \/ CpArchived(n)
    /\ cpPrune.phase = "archive" => \A n \in Nat : CpIn(cpLog, n) => n \in cpPrune.old \/ CpIn(cpPrune.kept, n)
    /\ cpPrune.phase = "rewrite" => \A n \in Nat : CpIn(cpLog, n) => CpArchived(n) \/ CpIn(cpPrune.kept, n)

\* The inductive invariant.
CpIInv ==
    /\ CpTypes /\ CpVerifies(cpLog)
    /\ cpMode # "siem" => cpPrune.phase = "idle"
    /\ cpMode \in {"off", "daily", "hold"} => cpLog = <<>>
    /\ \A d \in CpDays : cpArchives[d] # {} => d \in cpPruned
    /\ cpMode = "off" => cpMade = <<>>
    /\ cpMode = "siem" /\ ~cpTwice => CpCovered
    /\ CpDailyVerifies /\ CpHeldKept

\* Without records nothing is lost.
LEMMA CpInitInv == CpInit => CpIInv
  <1> SUFFICES ASSUME CpInit PROVE CpIInv
    OBVIOUS
  <1>1. CpTypes
    <2>1. cpArchives \in [CpDays -> SUBSET Nat] /\ cpNow \in 0 .. CpMaxTime
      BY CpAssumption DEF CpInit
    <2>2. cpDaily \in [CpDays -> Seq(CpLines)]
      BY DEF CpInit
    <2>3. cpPrune \in [phase : {"idle", "archive", "rewrite"}, old : SUBSET Nat, kept : Seq(CpEntries)]
      BY DEF CpInit, CpIdle
    <2>4. cpMade \in Seq(Nat) /\ cpLog \in Seq(CpEntries) /\ cpTwice \in BOOLEAN /\ cpPruned \subseteq CpDays
      <3>1. cpMade = <<>> /\ cpLog = <<>> /\ cpTwice = FALSE /\ cpPruned = {}
        BY DEF CpInit
      <3>2. cpMade \in Seq(Nat) /\ cpLog \in Seq(CpEntries)
        BY <3>1
      <3> QED BY <3>1, <3>2, Zenon
    <2> QED BY <2>1, <2>2, <2>3, <2>4 DEF CpTypes
  <1>2. CpDailyVerifies
    BY DEF CpInit, CpDailyVerifies, CpFileVerifies, CpVerifies
  <1> QED BY <1>1, <1>2 DEF CpInit, CpIInv, CpVerifies, CpIdle, CpHeldKept

\* The day of the clock is one of the days.
LEMMA CpToday == CpTypes => CpDayOf(cpNow) \in CpDays
  BY CpAssumption DEF CpTypes, CpDayOf, CpDays

\* A chain grows by an entry that names the last one.
LEMMA CpGrows ==
  ASSUME NEW S, NEW chain \in Seq(S), NEW e \in S, CpVerifies(chain), e.index = Len(chain),
         e.prev = IF chain = <<>> THEN 0 ELSE chain[Len(chain)].rec
  PROVE  CpVerifies(Append(chain, e))
  <1>1. /\ DOMAIN Append(chain, e) = 1 .. Len(chain) + 1 /\ DOMAIN chain = 1 .. Len(chain) /\ Len(chain) \in Nat
        /\ Append(chain, e)[Len(chain) + 1] = e /\ \A i \in DOMAIN chain : Append(chain, e)[i] = chain[i]
    OBVIOUS
  <1>2. chain = <<>> <=> Len(chain) = 0
    OBVIOUS
  <1> DEFINE c == Append(chain, e)
  <1> HIDE DEF c
  <1>3. ASSUME NEW i \in DOMAIN c PROVE c[i].index = i - 1 /\ c[i].prev = IF i = 1 THEN 0 ELSE c[i - 1].rec
    <2>1. CASE i \in DOMAIN chain
      <3>1. i # 1 => i - 1 \in DOMAIN chain
        BY <2>1, <1>1
      <3> QED BY <2>1, <3>1, <1>1 DEF c, CpVerifies
    <2>2. CASE i = Len(chain) + 1
      <3>1. Len(chain) # 0 => Len(chain) \in DOMAIN chain
        BY <1>1
      <3>2. i - 1 = Len(chain) /\ (i = 1 <=> chain = <<>>)
        BY <2>2, <1>1, <1>2
      <3>3. c[i] = e /\ (i # 1 => c[i - 1] = chain[Len(chain)])
        BY <2>2, <3>1, <3>2, <1>1, <1>2 DEF c
      <3> QED BY <3>2, <3>3
    <2> QED BY <2>1, <2>2, <1>1 DEF c
  <1> QED BY <1>3 DEF c, CpVerifies

\* What is chained anew verifies, has the same records, and so does every beginning of it.
LEMMA CpRechains ==
  ASSUME NEW kept \in Seq(CpEntries)
  PROVE  /\ CpRechained(kept) \in Seq(CpEntries) /\ CpVerifies(CpRechained(kept))
         /\ \A n : CpIn(CpRechained(kept), n) <=> CpIn(kept, n)
         /\ \A m \in Nat : m < Len(kept) => SubSeq(CpRechained(kept), 1, m) \in Seq(CpEntries) /\ CpVerifies(SubSeq(CpRechained(kept), 1, m))
  <1> DEFINE c == CpRechained(kept)
  <1>1. DOMAIN kept = 1 .. Len(kept) /\ Len(kept) \in Nat /\ \A i \in DOMAIN kept : kept[i] \in CpEntries
    OBVIOUS
  <1>2. \A i \in DOMAIN kept : kept[i].rec \in Nat
    BY <1>1 DEF CpEntries
  <1>3. /\ c = [i \in 1 .. Len(kept) |-> [rec |-> kept[i].rec, index |-> i - 1, prev |-> IF i = 1 THEN 0 ELSE kept[i - 1].rec]]
        /\ \A i \in DOMAIN kept : [rec |-> kept[i].rec, index |-> i - 1, prev |-> IF i = 1 THEN 0 ELSE kept[i - 1].rec] \in CpEntries
    BY <1>1, <1>2 DEF CpRechained, CpEntries
  <1>4. /\ DOMAIN c = 1 .. Len(kept)
        /\ \A i \in 1 .. Len(kept) : c[i].rec = kept[i].rec /\ c[i].index = i - 1 /\ c[i].prev = IF i = 1 THEN 0 ELSE kept[i - 1].rec
    BY <1>3
  <1>5. c \in Seq(CpEntries) /\ Len(c) = Len(kept)
    <2>1. c \in [1 .. Len(kept) -> CpEntries]
      BY <1>1, <1>3
    <2> HIDE DEF c
    <2> QED BY <1>1, <2>1
  <1> HIDE DEF c
  <1>6. \A i \in 1 .. Len(kept) : i # 1 => c[i - 1].rec = kept[i - 1].rec
    <2>1. \A i \in 1 .. Len(kept) : i # 1 => i - 1 \in 1 .. Len(kept)
      BY <1>1
    <2> QED BY <2>1, <1>4
  <1>7. CpVerifies(c)
    BY <1>4, <1>6 DEF CpVerifies
  <1>8. \A n : CpIn(c, n) <=> CpIn(kept, n)
    BY <1>1, <1>4 DEF CpIn
  <1>9. ASSUME NEW m \in Nat, m < Len(kept) PROVE SubSeq(c, 1, m) \in Seq(CpEntries) /\ CpVerifies(SubSeq(c, 1, m))
    <2>1. SubSeq(c, 1, m) \in Seq(CpEntries) /\ DOMAIN SubSeq(c, 1, m) = 1 .. m /\ \A i \in 1 .. m : SubSeq(c, 1, m)[i] = c[i]
      BY <1>5, <1>9
    <2>2. \A i \in 1 .. m : i \in DOMAIN c /\ (i # 1 => i - 1 \in 1 .. m)
      BY <1>4, <1>9, <1>1
    <2> QED BY <2>1, <2>2, <1>7 DEF CpVerifies
  <1> QED BY <1>5, <1>7, <1>8, <1>9 DEF c

\* log_event adds a record to the log.
LEMMA CpLogEventKeeps == CpIInv /\ CpLogEvent => CpIInv'
  <1> SUFFICES ASSUME CpIInv, CpLogEvent PROVE CpIInv'
    OBVIOUS
  <1> DEFINE last == IF cpLog = <<>> THEN [rec |-> 0, index |-> 0] ELSE [rec |-> cpLog[Len(cpLog)].rec, index |-> cpLog[Len(cpLog)].index + 1]
             e == [rec |-> Len(cpMade) + 1, index |-> last.index, prev |-> last.rec]
  <1>1. /\ cpMode = "siem" /\ cpPrune = CpIdle /\ cpMade' = Append(cpMade, cpNow) /\ cpMade \in Seq(Nat) /\ cpNow \in Nat
        /\ cpLog \in Seq(CpEntries)
    BY CpAssumption DEF CpIInv, CpTypes, CpLogEvent, CpMake
  <1>2. Len(cpMade') = Len(cpMade) + 1 /\ Len(cpMade) \in Nat /\ cpMade' \in Seq(Nat) /\ DOMAIN cpMade' = DOMAIN cpMade \cup {Len(cpMade) + 1}
    BY <1>1
  <1>3. cpLog' = Append(cpLog, e)
    BY <1>2 DEF CpLogEvent
  <1>4. /\ last.index = Len(cpLog) /\ last.rec = IF cpLog = <<>> THEN 0 ELSE cpLog[Len(cpLog)].rec
        /\ last.rec \in Nat /\ last.index \in Nat
    <2>1. CASE cpLog = <<>>
      BY <2>1
    <2>2. CASE cpLog # <<>>
      <3>1. Len(cpLog) \in DOMAIN cpLog /\ cpLog[Len(cpLog)] \in CpEntries /\ Len(cpLog) \in Nat
        BY <1>1, <2>2
      <3>2. cpLog[Len(cpLog)].index = Len(cpLog) - 1 /\ cpLog[Len(cpLog)].rec \in Nat
        BY <3>1 DEF CpIInv, CpVerifies, CpEntries
      <3> QED BY <2>2, <3>1, <3>2
    <2> QED BY <2>1, <2>2
  <1> HIDE DEF last
  <1>5. e \in CpEntries /\ e.index = Len(cpLog) /\ (e.prev = IF cpLog = <<>> THEN 0 ELSE cpLog[Len(cpLog)].rec) /\ e.rec = Len(cpMade) + 1
    BY <1>2, <1>4 DEF CpEntries
  <1> HIDE DEF e
  <1>6. cpLog' \in Seq(CpEntries) /\ CpVerifies(cpLog')
    BY <1>1, <1>3, <1>5, CpGrows DEF CpIInv
  <1>7. CpIn(cpLog', Len(cpMade) + 1) /\ \A n : CpIn(cpLog, n) => CpIn(cpLog', n)
    <2>1. /\ Append(cpLog, e)[Len(cpLog) + 1] = e /\ Len(cpLog) + 1 \in DOMAIN Append(cpLog, e)
          /\ \A i \in DOMAIN cpLog : i \in DOMAIN Append(cpLog, e) /\ Append(cpLog, e)[i] = cpLog[i]
      BY <1>1, <1>5
    <2> QED BY <2>1, <1>3, <1>5 DEF CpIn
  <1>8. UNCHANGED <<cpMode, cpNow, cpArchives, cpPrune, cpPruned, cpTwice, cpPrunes, cpDaily, cpHold, cpData, cpHeld>>
    BY DEF CpLogEvent, cpUser
  <1>9. CpTypes'
    BY <1>2, <1>6, <1>8 DEF CpIInv, CpTypes
  <1>10. (cpMode = "siem" /\ ~cpTwice => CpCovered)'
    BY <1>1, <1>2, <1>7, <1>8 DEF CpIInv, CpCovered, CpArchived, CpIdle
  <1>11. CpDailyVerifies' /\ CpHeldKept'
    BY <1>8 DEF CpIInv, CpDailyVerifies, CpHeldKept
  <1> QED BY <1>1, <1>6, <1>8, <1>9, <1>10, <1>11 DEF CpIInv

\* prune_and_archive splits the log,
LEMMA CpPruneReadsKeeps == CpIInv /\ CpPruneReads => CpIInv'
  <1> SUFFICES ASSUME CpIInv, CpPruneReads PROVE CpIInv'
    OBVIOUS
  <1> DEFINE old == {i \in DOMAIN cpLog : CpOld(cpLog[i])}
  <1>1. PICK at \in CpAscending(DOMAIN cpLog \ old) :
           cpPrune' = [phase |-> "archive", old |-> {cpLog[i].rec : i \in old}, kept |-> [j \in DOMAIN at |-> cpLog[at[j]]]]
    BY DEF CpPruneReads
  <1> DEFINE kept == [j \in DOMAIN at |-> cpLog[at[j]]]
             gone == {cpLog[i].rec : i \in old}
  <1>2. old \subseteq DOMAIN cpLog
    OBVIOUS
  <1> HIDE DEF old
  <1>3. cpLog \in Seq(CpEntries) /\ DOMAIN cpLog = 1 .. Len(cpLog) /\ Len(cpLog) \in Nat
    BY DEF CpIInv, CpTypes
  <1>4. Cardinality(DOMAIN cpLog \ old) \in Nat
    <2>1. IsFiniteSet(1 .. Len(cpLog))
      BY <1>3, FS_Interval
    <2> QED BY <1>3, <2>1, FS_Subset, FS_CardinalityType
  <1> DEFINE size == Cardinality(DOMAIN cpLog \ old)
  <1>5. at \in [1 .. size -> DOMAIN cpLog \ old] /\ \A n \in DOMAIN cpLog \ old : \E i \in DOMAIN at : at[i] = n
    BY <1>1 DEF CpAscending
  <1> HIDE DEF size
  <1>6. kept = [j \in 1 .. size |-> cpLog[at[j]]] /\ \A j \in 1 .. size : cpLog[at[j]] \in CpEntries
    BY <1>3, <1>5
  <1>7. kept \in Seq(CpEntries)
    <2>1. kept \in [1 .. size -> CpEntries] /\ size \in Nat
      BY <1>4, <1>6, Zenon DEF size
    <2> HIDE DEF kept
    <2> QED BY <2>1
  <1>8. gone \subseteq Nat
    <2>1. \A i \in old : cpLog[i] \in CpEntries
      BY <1>2, <1>3
    <2> QED BY <2>1 DEF CpEntries
  <1>9. \A n : CpIn(cpLog, n) => n \in gone \/ CpIn(kept, n)
    <2>1. \A i \in DOMAIN cpLog : i \notin old => \E j \in DOMAIN kept : kept[j] = cpLog[i]
      BY <1>5, <1>6
    <2> QED BY <2>1 DEF CpIn
  <1> HIDE DEF kept, gone
  <1>10. cpPrune' = [phase |-> "archive", old |-> gone, kept |-> kept]
    BY <1>1 DEF kept, gone
  <1>11. cpMode = "siem" /\ cpPrune = CpIdle /\ UNCHANGED <<cpMode, cpNow, cpMade, cpLog, cpArchives, cpPruned, cpTwice, cpDaily, cpHold, cpData, cpHeld>>
    BY DEF CpPruneReads, cpUser
  <1>12. CpTypes'
    BY <1>7, <1>8, <1>10, <1>11 DEF CpIInv, CpTypes
  <1>13. CpCovered => CpCovered'
    BY <1>9, <1>10, <1>11 DEF CpCovered, CpIn, CpArchived
  <1>14. CpDailyVerifies' /\ CpHeldKept'
    BY <1>11 DEF CpIInv, CpDailyVerifies, CpHeldKept
  <1> QED BY <1>11, <1>12, <1>13, <1>14 DEF CpIInv

\* writes the archive of the day,
LEMMA CpArchiveKeeps == CpIInv /\ CpArchive => CpIInv'
  <1> SUFFICES ASSUME CpIInv, CpArchive PROVE CpIInv'
    OBVIOUS
  <1> DEFINE day == CpDayOf(cpNow)
  <1>1. day \in CpDays
    BY CpToday DEF CpIInv
  <1>2. /\ cpPrune.phase = "archive" /\ cpPrune' = [cpPrune EXCEPT !.phase = "rewrite"]
        /\ IF cpPrune.old = {} THEN UNCHANGED <<cpArchives, cpPruned, cpTwice>>
           ELSE /\ cpArchives' = [cpArchives EXCEPT ![day] = cpPrune.old]
                /\ cpTwice' = (cpTwice \/ day \in cpPruned) /\ cpPruned' = cpPruned \cup {day}
        /\ UNCHANGED <<cpMode, cpNow, cpMade, cpLog, cpDaily, cpHold, cpData, cpHeld>>
    BY DEF CpArchive, cpUser
  <1> HIDE DEF day
  <1>3. cpPrune.old \in SUBSET Nat /\ cpPrune'.phase = "rewrite" /\ cpPrune'.kept = cpPrune.kept /\ cpPrune'.old = cpPrune.old
        /\ cpPrune' \in [phase : {"idle", "archive", "rewrite"}, old : SUBSET Nat, kept : Seq(CpEntries)]
    BY <1>2 DEF CpIInv, CpTypes
  <1>4. CpTypes'
    BY <1>1, <1>2, <1>3 DEF CpIInv, CpTypes
  <1>5. \A d \in CpDays : cpArchives'[d] # {} => d \in cpPruned'
    BY <1>1, <1>2, <1>3 DEF CpIInv, CpTypes
  <1>6. ASSUME ~cpTwice' PROVE CpCovered'
    <2>1. ~cpTwice /\ CpCovered
      BY <1>2, <1>6 DEF CpIInv
    <2>2. (\A n : CpArchived(n) => CpArchived(n)') /\ \A n \in cpPrune.old : CpArchived(n)'
      BY <1>1, <1>2, <1>6 DEF CpIInv, CpTypes, CpArchived
    <2> QED BY <2>1, <2>2, <1>2, <1>3 DEF CpCovered, CpIn
  <1>7. CpDailyVerifies' /\ CpHeldKept'
    BY <1>2 DEF CpIInv, CpDailyVerifies, CpHeldKept
  <1>8. cpMode' = "siem"
    BY <1>2 DEF CpIInv
  <1> QED BY <1>2, <1>4, <1>5, <1>6, <1>7, <1>8 DEF CpIInv

\* and the log, chained anew.
LEMMA CpRewriteKeeps == CpIInv /\ CpRewrite => CpIInv'
  <1> SUFFICES ASSUME CpIInv, CpRewrite PROVE CpIInv'
    OBVIOUS
  <1>1. /\ cpPrune.phase = "rewrite" /\ cpPrune' = CpIdle /\ cpLog' = CpRechained(cpPrune.kept)
        /\ UNCHANGED <<cpMode, cpNow, cpMade, cpArchives, cpPruned, cpTwice, cpDaily, cpHold, cpData, cpHeld>>
    BY DEF CpRewrite, cpUser
  <1>2. cpPrune.kept \in Seq(CpEntries)
    BY DEF CpIInv, CpTypes
  <1>3. CpTypes' /\ CpVerifies(cpLog')
    BY <1>1, <1>2, CpRechains DEF CpIInv, CpTypes, CpIdle
  <1>4. \A n : CpIn(cpLog', n) <=> CpIn(cpPrune.kept, n)
    BY <1>1, <1>2, CpRechains
  <1>5. CpCovered => CpCovered'
    <2>1. \A n \in DOMAIN cpMade : n \in Nat
      BY DEF CpIInv, CpTypes
    <2> QED BY <2>1, <1>1, <1>4 DEF CpCovered, CpArchived, CpIdle
  <1>6. CpDailyVerifies' /\ CpHeldKept'
    BY <1>1 DEF CpIInv, CpDailyVerifies, CpHeldKept
  <1>7. cpMode' = "siem"
    BY <1>1 DEF CpIInv
  <1> QED BY <1>1, <1>3, <1>5, <1>6, <1>7 DEF CpIInv, CpIdle

\* The process dies in between.
LEMMA CpCrashKeeps ==
  ASSUME CpIInv, NEW left \in 0 .. CpMaxRecords, CpCrash(left)
  PROVE  CpIInv'
  <1>1. /\ cpPrune' = CpIdle /\ UNCHANGED <<cpMode, cpNow, cpMade, cpArchives, cpPruned, cpDaily, cpHold, cpData, cpHeld>>
        /\ \/ left < Len(cpPrune.kept) /\ cpPrune.phase = "rewrite" /\ cpLog' = SubSeq(CpRechained(cpPrune.kept), 1, left) /\ cpTwice' = TRUE
           \/ cpLog' = cpLog /\ cpTwice' = cpTwice
    BY DEF CpCrash, cpUser
  <1>2. cpPrune.kept \in Seq(CpEntries) /\ left \in Nat
    BY CpAssumption DEF CpIInv, CpTypes
  <1>3. cpLog' \in Seq(CpEntries) /\ CpVerifies(cpLog') /\ cpTwice' \in BOOLEAN
    BY <1>1, <1>2, CpRechains DEF CpIInv, CpTypes
  <1>4. CpTypes'
    BY <1>1, <1>3 DEF CpIInv, CpTypes, CpIdle
  <1>5. ~cpTwice' /\ CpCovered => CpCovered'
    BY <1>1 DEF CpCovered, CpIn, CpArchived, CpIdle
  <1>6. CpDailyVerifies' /\ CpHeldKept'
    BY <1>1 DEF CpIInv, CpDailyVerifies, CpHeldKept
  <1>7. cpMode # "siem" => cpLog' = cpLog
    BY <1>1 DEF CpIInv
  <1>8. ~cpTwice' => ~cpTwice
    BY <1>1 DEF CpIInv, CpTypes
  <1> QED BY <1>1, <1>3, <1>4, <1>5, <1>6, <1>7, <1>8 DEF CpIInv, CpIdle

\* log_action adds a record to the file of the day.
LEMMA CpLogActionKeeps ==
  ASSUME CpIInv, NEW whole \in BOOLEAN, CpLogAction(whole)
  PROVE  CpIInv'
  <1> DEFINE day == CpDayOf(cpNow)
             file == cpDaily[day]
             last == CpTail(file)
             line == [rec |-> Len(cpMade) + 1, index |-> last.index, prev |-> last.rec, whole |-> whole]
             torn == file # <<>> /\ ~file[Len(file)].whole
             new == IF torn THEN [file EXCEPT ![Len(file)] = [line EXCEPT !.whole = FALSE]] ELSE Append(file, line)
  <1>1. day \in CpDays
    BY CpToday DEF CpIInv
  <1>2. /\ cpMode = "daily" /\ cpMade' = Append(cpMade, cpNow) /\ cpMade \in Seq(Nat) /\ cpNow \in Nat
        /\ UNCHANGED <<cpMode, cpNow, cpLog, cpArchives, cpPrune, cpPruned, cpTwice, cpHold, cpData, cpHeld>>
    BY CpAssumption DEF CpIInv, CpTypes, CpLogAction, CpMake, cpSiem, cpUser
  <1>3. Len(cpMade') = Len(cpMade) + 1 /\ Len(cpMade) \in Nat /\ cpMade' \in Seq(Nat)
    BY <1>2
  <1>4. cpDaily' = [cpDaily EXCEPT ![day] = new]
    BY <1>3 DEF CpLogAction, CpFileOf
  <1>5. file \in Seq(CpLines) /\ Len(file) \in Nat
    BY <1>1 DEF CpIInv, CpTypes
  <1> HIDE DEF day, file
  <1>6. file # <<>> => Len(file) \in DOMAIN file /\ file[Len(file)] \in CpLines
    BY <1>5
  <1>7. last.rec \in Nat /\ last.index \in Nat
    BY <1>6 DEF CpTail, CpLines
  <1>8. ASSUME ~torn, CpVerifies(file) PROVE last.index = Len(file) /\ last.rec = IF file = <<>> THEN 0 ELSE file[Len(file)].rec
    <2>1. CASE file = <<>>
      BY <2>1 DEF CpTail
    <2>2. CASE file # <<>>
      <3>1. file[Len(file)].index = Len(file) - 1
        BY <1>6, <1>8, <2>2 DEF CpVerifies
      <3> QED BY <2>2, <3>1, <1>5, <1>8 DEF CpTail
    <2> QED BY <2>1, <2>2
  <1> HIDE DEF last
  <1>9. line \in CpLines /\ line.index = last.index /\ line.prev = last.rec /\ line.whole = whole
        /\ [line EXCEPT !.whole = FALSE] \in CpLines /\ [line EXCEPT !.whole = FALSE].whole = FALSE
    <2>1. line \in CpLines
      BY <1>3, <1>7 DEF CpLines
    <2>2. line.index = last.index /\ line.prev = last.rec /\ line.whole = whole
      OBVIOUS
    <2> HIDE DEF line
    <2>3. [line EXCEPT !.whole = FALSE] \in CpLines /\ [line EXCEPT !.whole = FALSE].whole = FALSE
      BY <2>1 DEF CpLines
    <2> QED BY <2>1, <2>2, <2>3
  <1> HIDE DEF line
  <1>10. new \in Seq(CpLines) /\ ((\A i \in DOMAIN new : new[i].whole) => CpFileVerifies(new))
    <2>1. CASE torn
      <3>1. /\ [file EXCEPT ![Len(file)] = [line EXCEPT !.whole = FALSE]] \in Seq(CpLines)
            /\ DOMAIN [file EXCEPT ![Len(file)] = [line EXCEPT !.whole = FALSE]] = DOMAIN file
            /\ [file EXCEPT ![Len(file)] = [line EXCEPT !.whole = FALSE]][Len(file)] = [line EXCEPT !.whole = FALSE]
        BY <1>5, <1>6, <1>9, <2>1
      <3> QED BY <3>1, <2>1, <1>6, <1>9
    <2>2. CASE ~torn
      <3>1. new = Append(file, line)
        BY <2>2
      <3>2. /\ Append(file, line) \in Seq(CpLines) /\ DOMAIN Append(file, line) = 1 .. Len(file) + 1 /\ DOMAIN file = 1 .. Len(file)
            /\ \A i \in DOMAIN file : i \in DOMAIN Append(file, line) /\ Append(file, line)[i] = file[i]
        BY <1>5, <1>9
      <3>3. ASSUME \A i \in DOMAIN new : new[i].whole PROVE CpFileVerifies(new)
        <4>1. \A i \in DOMAIN file : file[i].whole
          BY <3>1, <3>2, <3>3
        <4>2. CpVerifies(file)
          BY <4>1, <1>1 DEF CpIInv, CpDailyVerifies, CpFileVerifies, file
        <4>3. line.index = Len(file) /\ line.prev = IF file = <<>> THEN 0 ELSE file[Len(file)].rec
          BY <4>2, <2>2, <1>8, <1>9
        <4>4. CpVerifies(Append(file, line))
          BY <4>2, <4>3, <1>5, <1>9, CpGrows
        <4> QED BY <3>1, <3>3, <4>4 DEF CpFileVerifies
      <3> QED BY <3>1, <3>2, <3>3
    <2> QED BY <2>1, <2>2
  <1> HIDE DEF new, torn
  <1>11. \A d \in CpDays : cpDaily'[d] = IF d = day THEN new ELSE cpDaily[d]
    BY <1>4 DEF CpIInv, CpTypes
  <1>12. CpTypes'
    <2>1. cpDaily' \in [CpDays -> Seq(CpLines)]
      BY <1>4, <1>10 DEF CpIInv, CpTypes
    <2> QED BY <2>1, <1>2, <1>3 DEF CpIInv, CpTypes
  <1>13. CpDailyVerifies'
    BY <1>10, <1>11 DEF CpIInv, CpDailyVerifies
  <1>14. CpHeldKept'
    BY <1>2 DEF CpIInv, CpHeldKept
  <1> QED BY <1>2, <1>12, <1>13, <1>14 DEF CpIInv

\* Steps that leave the logs alone.
LEMMA CpLogsKept ==
  ASSUME CpIInv, CpHeldKept', UNCHANGED <<cpLog, cpArchives, cpPrune, cpPruned, cpTwice, cpPrunes, cpDaily>>,
         cpNow' \in 0 .. CpMaxTime, cpMade' \in Seq(Nat),
         \/ cpMode' = cpMode /\ cpMade' = cpMade
         \/ cpMode = "off" /\ cpMode' \in {"siem", "daily", "hold"} /\ cpMade' = cpMade
         \/ cpMode = "hold" /\ cpMode' = "hold"
  PROVE  CpIInv'
  <1>1. CpTypes'
    BY DEF CpIInv, CpTypes
  <1>2. CpVerifies(cpLog)' /\ CpDailyVerifies'
    BY DEF CpIInv, CpDailyVerifies
  <1>3. cpMode' = "siem" /\ ~cpTwice' => CpCovered'
    <2>1. CASE cpMode = "siem" /\ cpMode' = "siem"
      BY <2>1 DEF CpIInv, CpCovered, CpArchived
    <2>2. CASE cpMode = "off" /\ cpMode' = "siem"
      BY <2>2 DEF CpIInv, CpCovered, CpArchived
    <2> QED BY <2>1, <2>2
  <1> QED BY <1>1, <1>2, <1>3 DEF CpIInv

\* Every step keeps the invariant.
LEMMA CpStep == CpIInv /\ [CpNext]_cpVars => CpIInv'
  <1> SUFFICES ASSUME CpIInv, [CpNext]_cpVars PROVE CpIInv'
    OBVIOUS
  <1> USE DEF cpSiem, cpUser
  <1>1. cpNow \in 0 .. CpMaxTime /\ cpMade \in Seq(Nat) /\ CpHeldKept /\ cpNow \in Nat
    BY CpAssumption DEF CpIInv, CpTypes
  <1>2. CASE UNCHANGED cpVars
    BY <1>1, <1>2, CpLogsKept DEF cpVars, CpHeldKept
  <1>3. CASE CpStart
    BY <1>1, <1>3, CpLogsKept DEF CpStart, CpHeldKept
  <1>4. CASE CpTick
    BY <1>1, <1>4, CpLogsKept, CpAssumption DEF CpTick, CpHeldKept
  <1>5. CASE CpStore
    <2>1. Append(cpMade, cpNow) \in Seq(Nat)
      BY <1>1
    <2> QED BY <1>1, <1>5, <2>1, CpLogsKept DEF CpStore, CpMake, CpHeldKept
  <1>6. CASE CpSetHold
    BY <1>1, <1>6, CpLogsKept DEF CpSetHold, CpHeldKept
  <1>7. CASE CpRelease
    BY <1>1, <1>7, CpLogsKept DEF CpRelease, CpHeldKept
  <1>8. CASE CpPurge
    BY <1>1, <1>8, CpLogsKept DEF CpPurge, CpHeldKept, CpOnHold
  <1>9. ASSUME NEW done, CpDelete(done) PROVE CpIInv'
    BY <1>1, <1>9, CpLogsKept DEF CpDelete, CpHeldKept, CpOnHold
  <1> QED BY <1>2, <1>3, <1>4, <1>5, <1>6, <1>7, <1>8, <1>9, CpLogEventKeeps, CpPruneReadsKeeps, CpArchiveKeeps, CpRewriteKeeps,
             CpCrashKeeps, CpLogActionKeeps DEF CpNext

\* The invariant gives the properties.
LEMMA CpInvImplies == CpIInv => CpNothingLost /\ CpDailyVerifies /\ CpHeldKept
  BY DEF CpIInv, CpNothingLost, CpCovered, CpIn, CpArchived

-----------------------------------------------------------------------------
(* The audit log, the vault and the key ring *)

KsEntries == [index : Nat, prev : Nat, hash : Nat, line : {"ok", "long", "bad", "cut"}]
KsVaults == [KsNames -> Nat]

\* What the variables are, as far as the steps depend on it.
KsTypes ==
    /\ ksMode \in {"off", "audit", "vault", "envelope"}
    /\ ksFresh \in Nat /\ ksTampered \in BOOLEAN /\ ksDisturbed \in BOOLEAN
    /\ ksLog \in Seq(KsEntries) /\ ksStored \in KsVaults
    /\ ksKeks \in Seq(Nat) /\ ksEnvelopes \subseteq [version : Nat, key : Nat]
    /\ ksMode # "off" => ksKeks # <<>>
    /\ ksRing = <<>> \/ (\E k \in Seq(Nat) \ {<<>>} : ksRing = <<k>>)
    /\ ksVault = <<>> \/ (\E d \in KsVaults : ksVault = <<d>>)

\* What a process has read before it writes.
KsReads ==
    /\ DOMAIN ksRead = KsProcs
    /\ ksMode = "audit" => \A p \in KsProcs : ksRead[p] # <<>> => \E r \in [index : Nat, prev : Nat] : ksRead[p] = <<r>>
    /\ ksMode = "vault" => \A p \in KsProcs : ksRead[p] # <<>> => \E n \in KsNames, d \in KsVaults : ksRead[p] = <<n, d>>

\* Before the start nothing was read or made.
KsBefore ==
    /\ ksMode = "off" => /\ ksLog = <<>> /\ ksEnvelopes = {} /\ ~ksDisturbed
                         /\ \A p \in KsProcs : ksRead[p] = <<>>
    /\ ksMode \notin {"off", "audit"} => ksLog = <<>>
    /\ ksMode \in {"audit", "vault"} => ksEnvelopes = {}
    /\ ksMode = "envelope" => \A p \in KsProcs : ksRead[p] = <<>>
    /\ ksLog = <<>> => ~ksTampered

\* One process at a time writes, and what it read is still what the file says.
KsAlone ==
    /\ \A p, q \in KsProcs : ksRead[p] # <<>> /\ ksRead[q] # <<>> => p = q
    /\ ksMode = "audit" => \A p \in KsProcs : ksRead[p] # <<>> => ksRead[p] = <<KsLastEntry>>
    /\ ksMode = "vault" => \A p \in KsProcs : ksRead[p] # <<>> => \E n \in KsNames : ksRead[p] = <<n, ksStored>>

\* Every line can be read; the chain is whole, or an index shows where an entry is missing.
KsWhole ==
    /\ \A i \in DOMAIN ksLog : ksLog[i].line = "ok"
    /\ ~ksTampered => \A i \in DOMAIN ksLog : ksLog[i].index = i - 1 /\ KsLinked(i)
    /\ ksTampered => \E i \in DOMAIN ksLog : ksLog[i].index # i - 1

\* The ring in the file is the one in memory, and opens every envelope.
KsRingKept ==
    /\ ksMode # "off" => ksRing = <<ksKeks>>
    /\ \A e \in ksEnvelopes : KsOpens(e)

\* The inductive invariant.
KsIInv ==
    /\ KsTypes /\ KsReads /\ KsBefore
    /\ ~ksDisturbed => KsAlone /\ KsWhole /\ ksVault = <<ksStored>> /\ KsRingKept

\* Files that were never used satisfy the invariant.
LEMMA KsInitInv == KsInit => KsIInv
  <1> SUFFICES ASSUME KsInit PROVE KsIInv
    OBVIOUS
  <1>1. KsTypes
    <2>1. KsEmpty \in KsVaults /\ ksVault = <<KsEmpty>>
      BY DEF KsInit, KsVaults, KsEmpty
    <2>2. ksVault = <<>> \/ (\E d \in KsVaults : ksVault = <<d>>)
      BY <2>1, Zenon
    <2>3. ksStored \in KsVaults
      BY <2>1 DEF KsInit
    <2>4. /\ ksMode = "off" /\ ksFresh = 0 /\ ksTampered = FALSE /\ ksDisturbed = FALSE /\ ksLog = <<>> /\ ksKeks = <<>>
          /\ ksRing = <<>> /\ ksEnvelopes = {}
      BY DEF KsInit
    <2>5. ksLog \in Seq(KsEntries) /\ ksKeks \in Seq(Nat) /\ ksFresh \in Nat /\ ksMode \in {"off", "audit", "vault", "envelope"}
      BY <2>4
    <2> QED BY <2>2, <2>3, <2>4, <2>5, Zenon DEF KsTypes
  <1>2. KsReads /\ KsBefore /\ KsAlone /\ KsWhole /\ ksVault = <<ksStored>> /\ KsRingKept
    BY DEF KsInit, KsReads, KsBefore, KsAlone, KsWhole, KsRingKept
  <1> QED BY <1>1, <1>2 DEF KsIInv

\* The start makes the first key.
LEMMA KsStartKeeps == KsIInv /\ KsStart => KsIInv'
  <1> SUFFICES ASSUME KsIInv, KsStart PROVE KsIInv'
    OBVIOUS
  <1> USE DEF KsIInv, KsStart, ksAudit, ksSecrets
  <1>1. KsTypes'
    <2>1. <<1>> \in Seq(Nat) \ {<<>>} /\ ksRing' = << <<1>> >>
      OBVIOUS
    <2> QED BY <2>1 DEF KsTypes
  <1>2. KsBefore' /\ KsReads'
    BY DEF KsBefore, KsReads, KsTypes
  <1>3. KsAlone' /\ KsWhole' /\ (ksVault = <<ksStored>>)' /\ KsRingKept'
    BY DEF KsBefore, KsAlone, KsWhole, KsRingKept, KsTypes
  <1> QED BY <1>1, <1>2, <1>3

\* The entry the next one is chained to.
LEMMA KsLastFacts ==
  ASSUME KsTypes
  PROVE  /\ KsLastEntry \in [index : Nat, prev : Nat]
         /\ KsWhole /\ ~ksTampered => KsLastEntry.index = Len(ksLog)
         /\ KsWhole => KsLastEntry.prev = IF ksLog = <<>> THEN 0 ELSE ksLog[Len(ksLog)].hash
  <1>1. CASE ksLog = <<>>
    BY <1>1 DEF KsLastEntry
  <1>2. CASE ksLog # <<>>
    <2>1. Len(ksLog) \in DOMAIN ksLog /\ Len(ksLog) \in Nat \ {0} /\ ksLog[Len(ksLog)] \in KsEntries /\ Last(ksLog) = ksLog[Len(ksLog)]
      BY <1>2 DEF KsTypes, Last
    <2>2. ksLog[Len(ksLog)].index \in Nat /\ ksLog[Len(ksLog)].hash \in Nat
      BY <2>1 DEF KsEntries
    <2>3. KsWhole => Last(ksLog).line = "ok"
      BY <2>1 DEF KsWhole
    <2>4. KsWhole /\ ~ksTampered => ksLog[Len(ksLog)].index = Len(ksLog) - 1
      BY <2>1 DEF KsWhole
    <2>5. KsLastEntry = [index |-> 0, prev |-> 0] \/ KsLastEntry = [index |-> ksLog[Len(ksLog)].index + 1, prev |-> ksLog[Len(ksLog)].hash]
      BY <2>1 DEF KsLastEntry
    <2>6. KsWhole => KsLastEntry = [index |-> ksLog[Len(ksLog)].index + 1, prev |-> ksLog[Len(ksLog)].hash]
      BY <2>1, <2>3, <1>2 DEF KsLastEntry
    <2> QED BY <2>1, <2>2, <2>4, <2>5, <2>6, <1>2
  <1> QED BY <1>1, <1>2

\* A process reads the last entry of the log.
LEMMA KsLogReadsKeeps ==
  ASSUME KsIInv, NEW p \in KsProcs, KsLogReads(p)
  PROVE  KsIInv'
  <1> USE DEF KsIInv, KsLogReads, ksAudit, ksSecrets, ksKeys
  <1>1. KsTypes'
    BY DEF KsTypes, KsDisturbs
  <1>2. \A q \in KsProcs : ksRead'[q] = IF q = p THEN <<KsLastEntry>> ELSE ksRead[q]
    BY DEF KsReads
  <1>3. KsBefore' /\ KsReads'
    <2>1. KsLastEntry \in [index : Nat, prev : Nat]
      BY KsLastFacts
    <2>2. KsReads'
      BY <1>2, <2>1 DEF KsReads
    <2> QED BY <2>2 DEF KsBefore
  <1>4. ASSUME ~ksDisturbed' PROVE KsAlone' /\ KsWhole' /\ (ksVault = <<ksStored>>)' /\ KsRingKept'
    <2>1. ~ksDisturbed /\ \A q \in KsProcs : q # p => ksRead[q] = <<>>
      BY <1>4 DEF KsDisturbs, KsWriters, KsTypes
    <2>2. KsWhole' /\ (ksVault = <<ksStored>>)' /\ KsRingKept'
      BY <2>1 DEF KsWhole, KsLinked, KsRingKept, KsOpens
    <2>3. KsLastEntry' = KsLastEntry
      BY DEF KsLastEntry
    <2>4. KsAlone'
      BY <2>1, <2>3, <1>2 DEF KsAlone
    <2> QED BY <2>2, <2>4
  <1> QED BY <1>1, <1>3, <1>4

\* and writes the next one.
LEMMA KsLogWritesKeeps ==
  ASSUME KsIInv, NEW p \in KsProcs, NEW readable \in BOOLEAN, NEW cut \in BOOLEAN, KsLogWrites(p, readable, cut)
  PROVE  KsIInv'
  <1> USE DEF KsIInv, ksAudit, ksSecrets, ksKeys
  <1> DEFINE glued == ksLog # <<>> /\ Last(ksLog).line = "cut"
             line == IF cut THEN "cut" ELSE IF glued THEN "bad" ELSE IF readable THEN "ok" ELSE "long"
             e == [index |-> ksRead[p][1].index, prev |-> ksRead[p][1].prev, hash |-> ksFresh + 1, line |-> line]
  <1>1. /\ ksMode = "audit" /\ ksRead[p] # <<>> /\ ksFresh' = ksFresh + 1 /\ ksRead' = [ksRead EXCEPT ![p] = <<>>]
        /\ ksLog' = Append(ksLog, e) /\ ksDisturbed' = (ksDisturbed \/ ~readable \/ cut)
        /\ ksMode' = ksMode /\ ksTampered' = ksTampered /\ ksVault' = ksVault /\ ksStored' = ksStored
        /\ ksKeks' = ksKeks /\ ksRing' = ksRing /\ ksEnvelopes' = ksEnvelopes
    BY DEF KsLogWrites, KsChained
  <1>2. PICK r \in [index : Nat, prev : Nat] : ksRead[p] = <<r>>
    BY <1>1 DEF KsReads
  <1>3. line \in {"ok", "long", "bad", "cut"} /\ (~ksDisturbed' => line = "ok")
    <2>1. ~ksDisturbed => ~glued
      BY DEF KsWhole, KsTypes, Last
    <2> QED BY <1>1, <2>1
  <1> HIDE DEF line
  <1>4. e = [index |-> r.index, prev |-> r.prev, hash |-> ksFresh + 1, line |-> line] /\ e \in KsEntries
    BY <1>2, <1>3 DEF KsEntries, KsTypes
  <1> HIDE DEF e
  <1>5. \A q \in KsProcs : ksRead'[q] = IF q = p THEN <<>> ELSE ksRead[q]
    BY <1>1 DEF KsReads
  <1>6. /\ ksLog' \in Seq(KsEntries) /\ Len(ksLog) \in Nat /\ DOMAIN ksLog' = 1 .. Len(ksLog) + 1 /\ DOMAIN ksLog = 1 .. Len(ksLog)
        /\ ksLog'[Len(ksLog) + 1] = e /\ \A i \in DOMAIN ksLog : ksLog'[i] = ksLog[i]
    BY <1>1, <1>4 DEF KsTypes
  <1>7. KsTypes'
    BY <1>1, <1>6 DEF KsTypes
  <1>8. KsReads' /\ KsBefore'
    <2>1. ksLog' # <<>>
      BY <1>6
    <2>2. KsReads'
      BY <1>1, <1>5 DEF KsReads
    <2> QED BY <2>1, <2>2, <1>1 DEF KsBefore
  <1>9. ASSUME ~ksDisturbed' PROVE KsAlone' /\ KsWhole' /\ (ksVault = <<ksStored>>)' /\ KsRingKept'
    <2>1. ~ksDisturbed /\ KsAlone /\ KsWhole /\ line = "ok"
      BY <1>1, <1>3, <1>9
    <2>2. KsAlone'
      BY <2>1, <1>1, <1>5 DEF KsAlone
    <2>3. KsRingKept' /\ (ksVault = <<ksStored>>)'
      BY <1>1, <2>1 DEF KsRingKept, KsOpens
    <2>4. r = KsLastEntry
      <3>1. ksRead[p] = <<KsLastEntry>>
        BY <1>1, <2>1 DEF KsAlone
      <3> QED BY <3>1, <1>2
    <2>5. \A i \in DOMAIN ksLog' : ksLog'[i].line = "ok"
      BY <1>4, <1>6, <2>1 DEF KsWhole
    <2>6. ASSUME ~ksTampered, NEW i \in DOMAIN ksLog' PROVE ksLog'[i].index = i - 1 /\ KsLinked(i)'
      <3>1. CASE i \in DOMAIN ksLog
        <4>1. ksLog[i].index = i - 1 /\ KsLinked(i)
          BY <2>1, <2>6, <3>1 DEF KsWhole
        <4>2. i # 1 => i - 1 \in DOMAIN ksLog
          BY <3>1, <1>6
        <4> QED BY <4>1, <4>2, <3>1, <1>6 DEF KsLinked
      <3>2. CASE i = Len(ksLog) + 1
        <4>1. e.index = Len(ksLog) /\ e.prev = IF ksLog = <<>> THEN 0 ELSE ksLog[Len(ksLog)].hash
          BY KsLastFacts, <2>1, <2>4, <2>6, <1>4
        <4>2. ksLog = <<>> <=> Len(ksLog) = 0
          BY DEF KsTypes
        <4>3. Len(ksLog) # 0 => ksLog'[Len(ksLog)] = ksLog[Len(ksLog)]
          BY <1>6
        <4> QED BY <4>1, <4>2, <4>3, <3>2, <1>6 DEF KsLinked
      <3> QED BY <3>1, <3>2, <1>6
    <2>7. ksTampered => \E i \in DOMAIN ksLog' : ksLog'[i].index # i - 1
      BY <1>6, <2>1 DEF KsWhole
    <2>8. KsWhole'
      BY <2>5, <2>6, <2>7, <1>1 DEF KsWhole
    <2> QED BY <2>2, <2>3, <2>8
  <1> QED BY <1>7, <1>8, <1>9

\* Without its entry i a log is shorter by one, and what followed moves up.
LEMMA KsRemoved ==
  ASSUME NEW S, NEW q \in Seq(S), NEW i \in 1 .. Len(q) - 1
  PROVE  /\ RemoveAt(q, i) \in Seq(S) /\ Len(RemoveAt(q, i)) = Len(q) - 1 /\ Len(q) \in Nat
         /\ \A j \in 1 .. Len(q) - 1 : RemoveAt(q, i)[j] = IF j < i THEN q[j] ELSE q[j + 1]
  <1>1. /\ SubSeq(q, 1, i - 1) \in Seq(S) /\ Len(SubSeq(q, 1, i - 1)) = i - 1
        /\ \A j \in 1 .. i - 1 : SubSeq(q, 1, i - 1)[j] = q[j]
    OBVIOUS
  <1>2. /\ SubSeq(q, i + 1, Len(q)) \in Seq(S) /\ Len(SubSeq(q, i + 1, Len(q))) = Len(q) - i
        /\ \A j \in 1 .. Len(q) - i : SubSeq(q, i + 1, Len(q))[j] = q[i + j]
    OBVIOUS
  <1>3. RemoveAt(q, i) = SubSeq(q, 1, i - 1) \o SubSeq(q, i + 1, Len(q))
    BY DEF RemoveAt
  <1> DEFINE A == SubSeq(q, 1, i - 1)
             B == SubSeq(q, i + 1, Len(q))
  <1> HIDE DEF A, B
  <1>4. A \o B \in Seq(S) /\ Len(A \o B) = Len(q) - 1
    BY <1>1, <1>2 DEF A, B
  <1>5. \A j \in 1 .. Len(q) - 1 : (A \o B)[j] = IF j <= Len(A) THEN A[j] ELSE B[j - Len(A)]
    BY <1>1, <1>2 DEF A, B
  <1>6. ASSUME NEW j \in 1 .. Len(q) - 1 PROVE (A \o B)[j] = IF j < i THEN q[j] ELSE q[j + 1]
    <2>1. CASE j < i
      BY <2>1, <1>5, <1>1 DEF A
    <2>2. CASE j >= i
      <3>0. Len(q) \in Nat /\ i \in Nat /\ j \in Nat /\ Len(A) = i - 1 /\ ~(j <= Len(A))
        BY <2>2, <1>1 DEF A
      <3>1. (A \o B)[j] = B[j - (i - 1)] /\ j - (i - 1) \in 1 .. Len(q) - i
        <4>1. (A \o B)[j] = B[j - Len(A)]
          BY <3>0, <1>5
        <4> QED BY <4>1, <3>0, <2>2
      <3>2. B[j - (i - 1)] = q[i + (j - (i - 1))]
        BY <3>1, <1>2 DEF B
      <3> QED BY <3>1, <3>2, <2>2
    <2>3. j < i \/ j >= i
      OBVIOUS
    <2> QED BY <2>1, <2>2, <2>3, Zenon
  <1>7. RemoveAt(q, i) = A \o B /\ Len(q) \in Nat
    BY <1>3 DEF A, B
  <1> QED BY <1>4, <1>6, <1>7

\* An entry other than the last is taken out: the one that follows it has a wrong index from then on.
LEMMA KsTamperKeeps == KsIInv /\ KsTamper => KsIInv'
  <1> SUFFICES ASSUME KsIInv, KsTamper PROVE KsIInv'
    OBVIOUS
  <1> USE DEF KsIInv, ksSecrets, ksKeys
  <1>1. PICK i \in 1 .. Len(ksLog) - 1 : ksLog' = RemoveAt(ksLog, i)
    BY DEF KsTamper
  <1>2. /\ ksMode = "audit" /\ ~ksTampered /\ ksTampered' = TRUE /\ ksMode' = ksMode /\ ksRead' = ksRead /\ ksFresh' = ksFresh
        /\ ksVault' = ksVault /\ ksStored' = ksStored /\ ksKeks' = ksKeks /\ ksRing' = ksRing /\ ksEnvelopes' = ksEnvelopes
        /\ ksDisturbed' = ksDisturbed
    BY DEF KsTamper
  <1>3. /\ ksLog' \in Seq(KsEntries) /\ Len(ksLog') = Len(ksLog) - 1 /\ Len(ksLog) \in Nat
        /\ \A j \in 1 .. Len(ksLog) - 1 : ksLog'[j] = IF j < i THEN ksLog[j] ELSE ksLog[j + 1]
    BY <1>1, KsRemoved DEF KsTypes
  <1>4. KsTypes'
    BY <1>2, <1>3 DEF KsTypes
  <1>5. ksLog' # <<>> /\ ksLog # <<>> /\ DOMAIN ksLog' = 1 .. Len(ksLog) - 1 /\ DOMAIN ksLog = 1 .. Len(ksLog)
    BY <1>1, <1>3 DEF KsTypes
  <1>6. KsReads' /\ KsBefore'
    BY <1>2, <1>5 DEF KsReads, KsBefore
  <1>7. ASSUME ~ksDisturbed PROVE KsAlone' /\ KsWhole' /\ (ksVault = <<ksStored>>)' /\ KsRingKept'
    <2>1. ksLog'[Len(ksLog')] = ksLog[Len(ksLog)]
      BY <1>1, <1>3, <1>5
    <2>2. KsLastEntry' = KsLastEntry
      BY <2>1, <1>5 DEF KsLastEntry, Last
    <2>3. KsAlone'
      BY <1>2, <1>7, <2>2 DEF KsAlone
    <2>4. \A j \in DOMAIN ksLog' : ksLog'[j].line = "ok"
      BY <1>3, <1>5, <1>7 DEF KsWhole
    <2>5. ksLog'[i] = ksLog[i + 1] /\ i + 1 \in DOMAIN ksLog /\ i \in DOMAIN ksLog'
      BY <1>3, <1>5
    <2>6. ksLog'[i].index = (i + 1) - 1
      BY <2>5, <1>2, <1>7 DEF KsWhole
    <2>7. KsWhole'
      BY <2>4, <2>5, <2>6, <1>2 DEF KsWhole
    <2> QED BY <2>3, <2>7, <1>2, <1>7 DEF KsRingKept, KsOpens
  <1> QED BY <1>2, <1>4, <1>6, <1>7

\* A process reads the vault.
LEMMA KsLoadsKeeps ==
  ASSUME KsIInv, NEW p \in KsProcs, NEW n \in KsNames, KsLoads(p, n)
  PROVE  KsIInv'
  <1> USE DEF KsIInv, KsLoads, ksAudit, ksSecrets, ksKeys
  <1>1. KsTypes'
    BY DEF KsTypes, KsDisturbs
  <1>2. \A q \in KsProcs : ksRead'[q] = IF q = p THEN <<n, KsLoaded>> ELSE ksRead[q]
    BY DEF KsReads
  <1>3. KsLoaded \in KsVaults /\ (~ksDisturbed => KsLoaded = ksStored)
    <2>1. KsEmpty \in KsVaults
      BY DEF KsVaults, KsEmpty
    <2>2. ksVault # <<>> => \E d \in KsVaults : ksVault = <<d>> /\ ksVault[1] = d
      BY DEF KsTypes
    <2>3. ~ksDisturbed => ksVault # <<>> /\ ksVault[1] = ksStored
      OBVIOUS
    <2> QED BY <2>1, <2>2, <2>3 DEF KsLoaded
  <1>4. KsReads' /\ KsBefore'
    <2>1. KsReads'
      BY <1>2, <1>3 DEF KsReads
    <2> QED BY <2>1 DEF KsBefore
  <1>5. ASSUME ~ksDisturbed' PROVE KsAlone' /\ KsWhole' /\ (ksVault = <<ksStored>>)' /\ KsRingKept'
    <2>1. ~ksDisturbed /\ \A q \in KsProcs : q # p => ksRead[q] = <<>>
      BY <1>5 DEF KsDisturbs, KsWriters, KsTypes
    <2>2. KsWhole' /\ (ksVault = <<ksStored>>)' /\ KsRingKept'
      BY <2>1 DEF KsWhole, KsLinked, KsRingKept, KsOpens
    <2>3. KsAlone'
      BY <2>1, <1>2, <1>3 DEF KsAlone
    <2> QED BY <2>2, <2>3
  <1> QED BY <1>1, <1>4, <1>5

\* and writes it back with its secret.
LEMMA KsSavesKeeps ==
  ASSUME KsIInv, NEW p \in KsProcs, KsSaves(p)
  PROVE  KsIInv'
  <1> USE DEF KsIInv, ksAudit, ksKeys
  <1>1. PICK n \in KsNames, d \in KsVaults : ksRead[p] = <<n, d>>
    BY DEF KsSaves, KsReads
  <1> DEFINE v == ksFresh + 1
  <1>2. /\ ksMode = "vault" /\ ksRead[p] # <<>> /\ ksFresh' = v /\ ksVault' = <<[d EXCEPT ![n] = v]>>
        /\ ksStored' = [ksStored EXCEPT ![n] = v] /\ ksRead' = [ksRead EXCEPT ![p] = <<>>]
        /\ ksMode' = ksMode /\ ksLog' = ksLog /\ ksTampered' = ksTampered /\ ksDisturbed' = ksDisturbed
        /\ ksKeks' = ksKeks /\ ksRing' = ksRing /\ ksEnvelopes' = ksEnvelopes
    BY <1>1 DEF KsSaves, KsWith
  <1>3. v \in Nat
    BY DEF KsTypes
  <1> HIDE DEF v
  <1>4. \A q \in KsProcs : ksRead'[q] = IF q = p THEN <<>> ELSE ksRead[q]
    BY <1>2 DEF KsReads
  <1>5. KsTypes'
    <2>1. [d EXCEPT ![n] = v] \in KsVaults /\ [ksStored EXCEPT ![n] = v] \in KsVaults
      BY <1>3 DEF KsVaults, KsTypes
    <2> QED BY <1>2, <1>3, <2>1 DEF KsTypes
  <1>6. KsReads' /\ KsBefore'
    <2>1. KsReads'
      BY <1>2, <1>4 DEF KsReads
    <2> QED BY <2>1, <1>2 DEF KsBefore
  <1>7. ASSUME ~ksDisturbed PROVE KsAlone' /\ KsWhole' /\ (ksVault = <<ksStored>>)' /\ KsRingKept'
    <2>1. d = ksStored
      BY <1>1, <1>2, <1>7 DEF KsAlone
    <2>2. \A q \in KsProcs : ksRead'[q] = <<>>
      BY <1>2, <1>4, <1>7 DEF KsAlone
    <2>3. KsAlone'
      BY <2>2 DEF KsAlone
    <2>4. KsWhole' /\ KsRingKept'
      BY <1>2, <1>7 DEF KsWhole, KsLinked, KsRingKept, KsOpens
    <2> QED BY <2>1, <2>3, <2>4, <1>2
  <1> QED BY <1>2, <1>5, <1>6, <1>7

\* The vault can no longer be decrypted.
LEMMA KsVaultLostKeeps == KsIInv /\ KsVaultLost => KsIInv'
  <1> SUFFICES ASSUME KsIInv, KsVaultLost PROVE KsIInv'
    OBVIOUS
  <1> USE DEF KsIInv, KsVaultLost, ksAudit, ksKeys
  <1>1. KsTypes'
    BY DEF KsTypes
  <1> QED BY <1>1 DEF KsReads, KsBefore

\* A new key becomes the active one; the old ones stay.
LEMMA KsRotateKeeps ==
  ASSUME KsIInv, NEW torn \in BOOLEAN, KsRotate(torn)
  PROVE  KsIInv'
  <1> USE DEF KsIInv, KsRotate, KsRotated, ksAudit, ksSecrets
  <1>1. /\ ksKeks' \in Seq(Nat) /\ ksKeks' # <<>> /\ DOMAIN ksKeks' = 1 .. Len(ksKeks) + 1 /\ DOMAIN ksKeks = 1 .. Len(ksKeks)
        /\ \A v \in DOMAIN ksKeks : v \in DOMAIN ksKeks' /\ ksKeks'[v] = ksKeks[v]
    BY DEF KsTypes
  <1>2. KsTypes'
    <2>1. ksRing' = <<>> \/ (ksRing' = <<ksKeks'>> /\ ksKeks' \in Seq(Nat) \ {<<>>})
      BY <1>1
    <2>2. ksFresh' \in Nat /\ ksDisturbed' \in BOOLEAN
      BY DEF KsTypes
    <2> QED BY <1>1, <2>1, <2>2 DEF KsTypes
  <1>3. KsReads' /\ KsBefore'
    BY DEF KsReads, KsBefore
  <1>4. ASSUME ~ksDisturbed' PROVE KsAlone' /\ KsWhole' /\ (ksVault = <<ksStored>>)' /\ KsRingKept'
    <2>1. ~ksDisturbed /\ ~torn /\ ksRing' = <<ksKeks'>>
      BY <1>4
    <2>2. \A e \in ksEnvelopes : KsOpens(e) => KsOpens(e)'
      BY <1>1 DEF KsOpens
    <2>3. KsRingKept'
      BY <1>1, <2>1, <2>2 DEF KsRingKept
    <2> QED BY <2>1, <2>3 DEF KsAlone, KsWhole, KsLinked
  <1> QED BY <1>2, <1>3, <1>4

\* A new process reads the ring, or makes a new first key.
LEMMA KsRestartKeeps == KsIInv /\ KsRestart => KsIInv'
  <1> SUFFICES ASSUME KsIInv, KsRestart PROVE KsIInv'
    OBVIOUS
  <1> USE DEF KsIInv, KsRestart, ksAudit, ksSecrets
  <1>1. KsTypes'
    <2>1. CASE ksRing = <<>>
      <3>1. <<ksFresh'>> \in Seq(Nat) \ {<<>>} /\ ksFresh' \in Nat /\ ksKeks' = <<ksFresh'>> /\ ksRing' = <<ksKeks'>>
        BY <2>1 DEF KsTypes
      <3> QED BY <3>1 DEF KsTypes
    <2>2. CASE ksRing # <<>>
      <3>1. PICK k \in Seq(Nat) \ {<<>>} : ksRing = <<k>>
        BY <2>2 DEF KsTypes
      <3>2. ksKeks' = k /\ ksRing' = <<k>> /\ ksFresh' = ksFresh
        BY <2>2, <3>1
      <3> QED BY <3>2 DEF KsTypes
    <2> QED BY <2>1, <2>2
  <1>2. KsReads' /\ KsBefore'
    BY DEF KsReads, KsBefore
  <1>3. ASSUME ~ksDisturbed' PROVE KsAlone' /\ KsWhole' /\ (ksVault = <<ksStored>>)' /\ KsRingKept'
    <2>1. ~ksDisturbed /\ ksRing = <<ksKeks>> /\ ksKeks' = ksKeks /\ ksRing' = ksRing
      BY <1>3 DEF KsRingKept
    <2> QED BY <2>1 DEF KsAlone, KsWhole, KsLinked, KsRingKept, KsOpens
  <1> QED BY <1>1, <1>2, <1>3

\* A new envelope is made under the active key.
LEMMA KsEnvelopesKeep ==
  ASSUME KsIInv, ksMode = "envelope", ksEnvelopes' \subseteq ksEnvelopes \cup {KsWrapped},
         UNCHANGED <<ksMode, ksAudit, ksRead, ksFresh, ksSecrets, ksKeks, ksRing, ksDisturbed>>
  PROVE  KsIInv' 
  <1> USE DEF KsIInv, ksAudit, ksSecrets
  <1>1. KsActive \in DOMAIN ksKeks /\ KsActive \in Nat /\ ksKeks[KsActive] \in Nat
    BY DEF KsTypes, KsActive
  <1>2. KsWrapped \in [version : Nat, key : Nat] /\ KsOpens(KsWrapped)
    BY <1>1 DEF KsWrapped, KsOpens
  <1>3. KsTypes'
    BY <1>2 DEF KsTypes
  <1>4. KsReads' /\ KsBefore'
    BY DEF KsReads, KsBefore
  <1>5. \A e : KsOpens(e)' <=> KsOpens(e)
    BY DEF KsOpens
  <1>6. ~ksDisturbed => KsAlone' /\ KsWhole' /\ (ksVault = <<ksStored>>)' /\ KsRingKept'
    BY <1>2, <1>5 DEF KsAlone, KsWhole, KsLinked, KsRingKept
  <1> QED BY <1>3, <1>4, <1>6

\* Every step keeps the invariant.
LEMMA KsStep == KsIInv /\ [KsNext]_ksVars => KsIInv'
  <1> SUFFICES ASSUME KsIInv, [KsNext]_ksVars PROVE KsIInv'
    OBVIOUS
  <1>1. CASE UNCHANGED ksVars
    <2> USE <1>1 DEF ksVars
    <2>1. (KsTypes <=> KsTypes') /\ (KsReads <=> KsReads') /\ (KsBefore <=> KsBefore')
      BY DEF KsTypes, KsReads, KsBefore
    <2>2. (KsAlone <=> KsAlone') /\ (KsWhole <=> KsWhole') /\ (KsRingKept <=> KsRingKept')
      BY DEF KsAlone, KsWhole, KsLinked, KsLastEntry, KsRingKept, KsOpens
    <2> QED BY <2>1, <2>2 DEF KsIInv
  <1>2. CASE KsEncrypt
    BY <1>2, KsEnvelopesKeep DEF KsEncrypt
  <1>3. ASSUME NEW e \in ksEnvelopes, KsReWrap(e) PROVE KsIInv'
    <2>1. ksMode = "envelope"
      BY DEF KsIInv, KsTypes, KsBefore
    <2> QED BY <1>3, <2>1, KsEnvelopesKeep DEF KsReWrap
  <1> QED BY <1>1, <1>2, <1>3, KsStartKeeps, KsTamperKeeps, KsVaultLostKeeps, KsRestartKeeps, KsLogReadsKeeps, KsSavesKeeps,
             KsLoadsKeeps, KsLogWritesKeeps, KsRotateKeeps DEF KsNext

\* The invariant gives the properties.
LEMMA KsInvImplies == KsIInv => KsChainHonest /\ KsSecretsKept /\ KsEnvelopesOpen
  <1> SUFFICES ASSUME KsIInv PROVE KsChainHonest /\ KsSecretsKept /\ KsEnvelopesOpen
    OBVIOUS
  <1>1. ~ksDisturbed => (KsVerifies <=> ~ksTampered)
    BY DEF KsIInv, KsTypes, KsWhole, KsVerifies
  <1> QED BY <1>1 DEF KsIInv, KsChainHonest, KsSecretsKept, KsEnvelopesOpen, KsRingKept

-----------------------------------------------------------------------------
(* What the agent remembers *)

\* What the variables are, as far as the steps depend on it.
MsTypes ==
    /\ msFreq \in {"off", "turn", "async", "session", "batch"}
    /\ msLast \in 0 .. MsMaxTurns /\ msFaults \in Nat /\ msCrashes \in Nat
    /\ msOf = [i \in MsIds |-> [session |-> msOf[i].session, org |-> msOf[i].org]]
    /\ msTurns = [i \in MsIds |-> [index |-> msTurns[i].index, text |-> msTurns[i].text]]
    /\ DOMAIN msFts = MsIds /\ msBuffer \in [MsSessions -> SUBSET MsIds]
    /\ msTasks \in [MsIds -> {"none", "vector", "bm25"}]
    /\ msHashes \subseteq MsIds /\ msVector \subseteq MsIds /\ msBm25 \subseteq MsIds /\ msDisk \subseteq MsIds
    /\ msForgotten \subseteq MsIds

\* The number of the next turn is in no store.
MsUnused(i) ==
    /\ i \notin msHashes /\ i \notin msVector /\ i \notin msBm25 /\ i \notin msDisk /\ i \notin msForgotten
    /\ msOf[i].session = "none" /\ ~MsStored(i) /\ msTasks[i] = "none"
MsFresh == \A i \in MsIds : i > msLast => MsUnused(i)

\* Only asynchronous indexing has threads, the others may have buffers, which have turns of their session.
MsWays ==
    /\ msFreq = "off" => msLast = 0
    /\ msFreq # "async" => \A i \in MsIds : msTasks[i] = "none"
    /\ msFreq \in {"off", "turn", "async"} => \A s \in MsSessions : msBuffer[s] = {}
    /\ \A s \in MsSessions : \A i \in msBuffer[s] : msOf[i].session = s /\ i <= msLast
    /\ \A i \in MsIds : MsStored(i) => msOf[i].session \in MsSessions
    /\ \A i \in MsIds : msTasks[i] = "vector" => i \notin msHashes /\ i \notin msVector /\ i \notin msBm25 /\ i \notin msDisk

\* No store failed, and no restart stopped a thread.
MsSound == msFaults = 0 /\ (msFreq # "async" \/ msCrashes = 0)

\* The stores agree except on what a thread has half done.
MsAgree ==
    /\ msHashes = msVector /\ msBm25 = msDisk /\ msBm25 \subseteq msHashes
    /\ \A i \in MsIds : msTasks[i] = "bm25" <=> i \in msHashes /\ i \notin msBm25

\* What was forgotten is nowhere.
MsAway ==
    \A i \in msForgotten : /\ i \notin msHashes /\ ~MsStored(i) /\ msTasks[i] = "none"
                           /\ \A s \in MsSessions : i \notin msBuffer[s]

\* The inductive invariant.
MsIInv ==
    /\ MsTypes /\ MsFresh /\ MsWays /\ MsFullTextInStep
    /\ MsSound => MsAgree /\ MsAway
    /\ MsNoTurnUnindexed

\* Nothing is remembered at first.
LEMMA MsInitInv == MsInit => MsIInv
  <1> SUFFICES ASSUME MsInit PROVE MsIInv
    OBVIOUS
  <1> USE MsAssumption DEF MsInit
  <1>1. \A i \in MsIds : msOf[i].session = "none" /\ msTurns[i].index = 0 /\ msTurns[i].text = 0 /\ msFts[i] = 0 /\ msTasks[i] = "none" /\ ~MsStored(i)
    BY DEF MsStored
  <1>2. MsTypes
    BY DEF MsTypes
  <1>3. MsFresh
    BY <1>1 DEF MsFresh, MsUnused
  <1>4. MsWays
    BY <1>1 DEF MsWays
  <1> QED BY <1>1, <1>2, <1>3, <1>4 DEF MsIInv, MsFullTextInStep, MsAgree, MsAway, MsNoTurnUnindexed

\* A fault is counted.
LEMMA MsFaultFacts ==
  ASSUME NEW f, msFaults \in Nat, MsFault(f)
  PROVE  msFaults' \in Nat /\ (msFaults' = 0 => msFaults = 0 /\ f = "none")
  BY DEF MsFault

\* What ingest does to the stores: documents are added, and without a fault to all of them.
LEMMA MsIngestFacts ==
  ASSUME MsTypes, NEW docs \in SUBSET MsIds, NEW f, MsIngest(docs, f)
  PROVE  /\ msFaults' \in Nat
         /\ msHashes' = msHashes \cup docs
         /\ msVector' \subseteq msVector \cup docs /\ msBm25' \subseteq msBm25 \cup docs /\ msDisk' \subseteq msDisk \cup msBm25 \cup docs
         /\ msFaults' = 0 => /\ msFaults = 0 /\ msVector' = msVector \cup (docs \ msHashes) /\ msBm25' = msBm25 \cup (docs \ msHashes)
                             /\ msDisk' = IF docs \subseteq msHashes THEN msDisk ELSE msBm25'
  <1>1. MsFault(f) /\ msFaults \in Nat
    BY DEF MsIngest, MsTypes
  <1>2. msFaults' \in Nat /\ (msFaults' = 0 => msFaults = 0 /\ f = "none")
    BY <1>1, MsFaultFacts
  <1>3. docs \ msHashes = {} <=> docs \subseteq msHashes
    OBVIOUS
  <1>4. msHashes' = msHashes \cup docs /\ msVector' \subseteq msVector \cup docs /\ msBm25' \subseteq msBm25 \cup docs
    BY DEF MsIngest, MsNew
  <1>5. msDisk' \subseteq msDisk \cup msBm25 \cup docs
    BY <1>4 DEF MsIngest, MsNew
  <1> QED BY <1>2, <1>3, <1>4, <1>5 DEF MsIngest, MsNew

\* Stores that agree, and no thread: after an ingest without a fault they agree.
LEMMA MsIngestAgrees ==
  ASSUME MsTypes, MsAgree, NEW docs \in SUBSET MsIds, NEW f, MsIngest(docs, f), msFaults' = 0,
         \A i \in MsIds : msTasks[i] = "none", msTasks' = msTasks
  PROVE  MsAgree' /\ docs \subseteq msBm25'
  <1>1. msHashes = msBm25 /\ msHashes = msVector /\ msBm25 = msDisk
    BY DEF MsAgree, MsTypes
  <1>2. /\ msHashes' = msHashes \cup docs
        /\ msVector' = msVector \cup (docs \ msHashes) /\ msBm25' = msBm25 \cup (docs \ msHashes)
        /\ msDisk' = IF docs \subseteq msHashes THEN msDisk ELSE msBm25'
    BY MsIngestFacts
  <1>3. msHashes' = msVector' /\ msVector' = msBm25' /\ msBm25' = msDisk' /\ docs \subseteq msBm25'
    BY <1>1, <1>2
  <1>4. \A i \in MsIds : msTasks'[i] # "bm25"
    BY Zenon
  <1> QED BY <1>3, <1>4 DEF MsAgree

\* A turn is stored under the next number.
LEMMA MsInsertFacts ==
  ASSUME MsIInv, NEW s \in MsSessions, NEW o, MsInsert(s, o)
  PROVE  /\ msLast' = msLast + 1 /\ msLast' \in MsIds /\ msLast' \in 0 .. MsMaxTurns /\ MsUnused(msLast')
         /\ msLast \in Nat
         /\ msOf' = [i \in MsIds |-> [session |-> msOf'[i].session, org |-> msOf'[i].org]]
         /\ msTurns' = [i \in MsIds |-> [index |-> msTurns'[i].index, text |-> msTurns'[i].text]]
         /\ DOMAIN msFts' = MsIds /\ msOf'[msLast'].session = s
         /\ \A i \in MsIds : i # msLast' => msOf'[i] = msOf[i] /\ msTurns'[i] = msTurns[i] /\ (MsStored(i)' <=> MsStored(i))
         /\ MsFullTextInStep'
  <1> USE MsAssumption
  <1>1. msLast \in Nat /\ msLast' = msLast + 1 /\ msLast' \in MsIds /\ msLast' \in 0 .. MsMaxTurns /\ msLast' > msLast
    BY DEF MsIInv, MsTypes, MsInsert, MsIds
  <1>2. MsUnused(msLast')
    BY <1>1 DEF MsIInv, MsFresh
  <1>3. /\ msOf' = [msOf EXCEPT ![msLast'] = [session |-> s, org |-> o]]
        /\ msTurns' = [msTurns EXCEPT ![msLast'] = [index |-> MsNextIndex(s), text |-> 1]] /\ msFts' = [msFts EXCEPT ![msLast'] = 1]
    BY DEF MsInsert
  <1>4. DOMAIN msOf = MsIds /\ DOMAIN msTurns = MsIds /\ DOMAIN msFts = MsIds
    BY DEF MsIInv, MsTypes
  <1>5. /\ \A i \in MsIds : msOf'[i] = IF i = msLast' THEN [session |-> s, org |-> o] ELSE msOf[i]
        /\ \A i \in MsIds : msTurns'[i] = IF i = msLast' THEN [index |-> MsNextIndex(s), text |-> 1] ELSE msTurns[i]
        /\ \A i \in MsIds : msFts'[i] = IF i = msLast' THEN 1 ELSE msFts[i]
        /\ DOMAIN msOf' = MsIds /\ DOMAIN msTurns' = MsIds /\ DOMAIN msFts' = MsIds
    BY <1>3, <1>4
  <1>6. msOf' = [i \in MsIds |-> [session |-> msOf'[i].session, org |-> msOf'[i].org]]
    <2>1. \A i \in MsIds : msOf[i] = [session |-> msOf[i].session, org |-> msOf[i].org]
      BY DEF MsIInv, MsTypes
    <2>2. \A i \in MsIds : msOf'[i] = [session |-> msOf'[i].session, org |-> msOf'[i].org]
      BY <1>5, <2>1
    <2> QED BY <1>3, <1>5, <2>2
  <1>7. msTurns' = [i \in MsIds |-> [index |-> msTurns'[i].index, text |-> msTurns'[i].text]]
    <2>1. \A i \in MsIds : msTurns[i] = [index |-> msTurns[i].index, text |-> msTurns[i].text]
      BY DEF MsIInv, MsTypes
    <2>2. \A i \in MsIds : msTurns'[i] = [index |-> msTurns'[i].index, text |-> msTurns'[i].text]
      BY <1>5, <2>1
    <2> QED BY <1>3, <1>5, <2>2
  <1>8. MsFullTextInStep'
    BY <1>5 DEF MsIInv, MsFullTextInStep
  <1> QED BY <1>1, <1>2, <1>5, <1>6, <1>7, <1>8 DEF MsStored

\* add_turn puts the turn, and what waited in the buffer of its session, into the stores.
LEMMA MsAddIngestKeeps ==
  ASSUME MsIInv, NEW s \in MsSessions, NEW o, NEW f, MsInsert(s, o), msFreq \notin {"off", "async"},
         MsIngest(msBuffer[s] \cup {msLast'}, f), msBuffer' = [msBuffer EXCEPT ![s] = {}],
         UNCHANGED <<msTasks, msFreq, msCrashes, msDeletes, msForgotten>>
  PROVE  MsIInv'
  <1> DEFINE new == msLast'
             docs == msBuffer[s] \cup {new}
  <1>1. /\ new = msLast + 1 /\ new \in MsIds /\ new \in 0 .. MsMaxTurns /\ MsUnused(new) /\ msLast \in Nat
        /\ msOf' = [i \in MsIds |-> [session |-> msOf'[i].session, org |-> msOf'[i].org]]
        /\ msTurns' = [i \in MsIds |-> [index |-> msTurns'[i].index, text |-> msTurns'[i].text]]
        /\ DOMAIN msFts' = MsIds /\ msOf'[new].session = s
        /\ \A i \in MsIds : i # new => msOf'[i] = msOf[i] /\ msTurns'[i] = msTurns[i] /\ (MsStored(i)' <=> MsStored(i))
        /\ MsFullTextInStep'
    BY MsInsertFacts
  <1>2. docs \in SUBSET MsIds /\ msBuffer[s] \subseteq MsIds
    BY <1>1 DEF MsIInv, MsTypes
  <1> HIDE DEF new
  <1>3. /\ msFaults' \in Nat /\ msHashes' = msHashes \cup docs
        /\ msVector' \subseteq msVector \cup docs /\ msBm25' \subseteq msBm25 \cup docs /\ msDisk' \subseteq msDisk \cup msBm25 \cup docs
        /\ msFaults' = 0 => msFaults = 0
    BY <1>2, MsIngestFacts DEF MsIInv, new
  <1>4. \A i \in docs : i = new \/ (i <= msLast /\ msOf[i].session = s)
    BY DEF MsIInv, MsWays
  <1>5. \A i \in MsIds : msTasks[i] = "none"
    BY DEF MsIInv, MsWays
  <1>6. \A t \in MsSessions : msBuffer'[t] = IF t = s THEN {} ELSE msBuffer[t]
    BY DEF MsIInv, MsTypes
  <1>7. MsTypes'
    <2>1. msBuffer' \in [MsSessions -> SUBSET MsIds]
      BY DEF MsIInv, MsTypes
    <2>2. msHashes' \subseteq MsIds /\ msVector' \subseteq MsIds /\ msBm25' \subseteq MsIds /\ msDisk' \subseteq MsIds
      BY <1>2, <1>3 DEF MsIInv, MsTypes
    <2> QED BY <1>1, <1>3, <2>1, <2>2 DEF MsIInv, MsTypes, new
  <1>8. MsFresh'
    <2>1. ASSUME NEW i \in MsIds, i > new PROVE MsUnused(i)'
      <3>1. i > msLast /\ i # new /\ i \notin docs
        BY <1>1, <1>4, <2>1 DEF MsIds
      <3>2. MsUnused(i)
        BY <3>1 DEF MsIInv, MsFresh
      <3> QED BY <3>1, <3>2, <1>1, <1>3 DEF MsUnused
    <2> QED BY <2>1 DEF MsFresh, new
  <1>9. MsWays'
    <2>1. \A i \in MsIds : MsStored(i)' => msOf'[i].session \in MsSessions
      BY <1>1 DEF MsIInv, MsWays
    <2>2. \A t \in MsSessions : \A i \in msBuffer'[t] : msOf'[i].session = t /\ i <= new
      <3>1. ASSUME NEW t \in MsSessions, NEW i \in msBuffer'[t] PROVE msOf'[i].session = t /\ i <= new
        <4>1. i \in msBuffer[t] /\ i \in MsIds /\ i <= msLast /\ msOf[i].session = t
          <5>1. i \in msBuffer[t]
            BY <1>6, <3>1
          <5> QED BY <5>1 DEF MsIInv, MsTypes, MsWays
        <4> QED BY <4>1, <1>1 DEF MsIds
      <3> QED BY <3>1
    <2> QED BY <2>1, <2>2, <1>5, <1>6 DEF MsIInv, MsWays, new
  <1>10. ASSUME MsSound' PROVE MsAgree' /\ MsAway'
    <2>1. MsSound /\ MsAgree /\ MsAway /\ msFaults' = 0
      BY <1>3, <1>10 DEF MsIInv, MsSound
    <2>2. MsAgree'
      BY <2>1, <1>2, <1>5, MsIngestAgrees DEF MsIInv, new
    <2>3. MsAway'
      <3>1. \A i \in msForgotten : i \in MsIds /\ i # new /\ i \notin msBuffer[s]
        BY <2>1, <1>1 DEF MsAway, MsUnused, MsIInv, MsTypes
      <3> QED BY <3>1, <2>1, <1>1, <1>3, <1>6 DEF MsAway
    <2> QED BY <2>2, <2>3
  <1>11. MsNoTurnUnindexed'
    <2>1. SUFFICES ASSUME msFaults' = 0, NEW i \in MsIds, MsStored(i)', msFreq = "turn" \/ msCrashes = 0
                   PROVE  i \in msBm25' \/ i \in msBuffer'[msOf'[i].session] \/ msTasks'[i] # "none"
      BY DEF MsNoTurnUnindexed
    <2>2. MsSound /\ MsAgree
      BY <1>3, <2>1 DEF MsIInv, MsSound
    <2>3. docs \subseteq msBm25'
      BY <2>1, <2>2, <1>2, <1>5, MsIngestAgrees DEF MsIInv, new
    <2>4. msBm25 \subseteq msBm25'
      <3>1. msBm25' = msBm25 \cup (docs \ msHashes)
        BY <2>1, <1>2, MsIngestFacts DEF MsIInv, new
      <3> QED BY <3>1
    <2>5. CASE i # new
      <3>1. i \in msBm25 \/ i \in msBuffer[msOf[i].session]
        BY <2>5, <2>1, <1>1, <1>3, <1>5 DEF MsIInv, MsNoTurnUnindexed
      <3>2. msOf'[i].session \in MsSessions /\ msOf'[i] = msOf[i]
        BY <2>5, <2>1, <1>1 DEF MsIInv, MsWays
      <3> QED BY <3>1, <3>2, <2>3, <2>4, <1>6
    <2>6. CASE i = new
      BY <2>6, <2>3
    <2> QED BY <2>5, <2>6
  <1> QED BY <1>1, <1>7, <1>8, <1>9, <1>10, <1>11 DEF MsIInv

\* The buffer of a session is put into the stores.
LEMMA MsFlushKeeps ==
  ASSUME MsIInv, NEW s \in MsSessions, NEW f, MsFlush(s, f)
  PROVE  MsIInv'
  <1> DEFINE docs == msBuffer[s]
  <1> USE DEF msCounts
  <1>1. /\ docs # {} /\ MsIngest(docs, f) /\ msBuffer' = [msBuffer EXCEPT ![s] = {}]
        /\ UNCHANGED <<msFreq, msOf, msTurns, msLast, msFts, msTasks, msCrashes, msDeletes, msForgotten>>
    BY DEF MsFlush
  <1>2. docs \in SUBSET MsIds
    BY DEF MsIInv, MsTypes
  <1>3. /\ msFaults' \in Nat /\ msHashes' = msHashes \cup docs
        /\ msVector' \subseteq msVector \cup docs /\ msBm25' \subseteq msBm25 \cup docs /\ msDisk' \subseteq msDisk \cup msBm25 \cup docs
        /\ msFaults' = 0 => msFaults = 0
    BY <1>1, <1>2, MsIngestFacts DEF MsIInv
  <1>4. \A i \in docs : i <= msLast /\ msOf[i].session = s
    BY DEF MsIInv, MsWays
  <1>5. \A i \in MsIds : msTasks[i] = "none"
    BY <1>1 DEF MsIInv, MsWays
  <1>6. \A t \in MsSessions : msBuffer'[t] = IF t = s THEN {} ELSE msBuffer[t]
    BY <1>1 DEF MsIInv, MsTypes
  <1>7. MsTypes'
    <2>1. msBuffer' \in [MsSessions -> SUBSET MsIds]
      BY <1>1 DEF MsIInv, MsTypes
    <2>2. msHashes' \subseteq MsIds /\ msVector' \subseteq MsIds /\ msBm25' \subseteq MsIds /\ msDisk' \subseteq MsIds
      BY <1>2, <1>3 DEF MsIInv, MsTypes
    <2> QED BY <1>1, <1>3, <2>1, <2>2 DEF MsIInv, MsTypes
  <1>8. MsFresh'
    <2>1. ASSUME NEW i \in MsIds, i > msLast PROVE MsUnused(i)'
      <3>1. i \notin docs
        BY <1>4, <2>1 DEF MsIInv, MsTypes, MsIds
      <3>2. MsUnused(i)
        BY <2>1 DEF MsIInv, MsFresh
      <3> QED BY <3>1, <3>2, <1>1, <1>3 DEF MsUnused, MsStored
    <2> QED BY <2>1, <1>1 DEF MsFresh
  <1>9. MsWays'
    BY <1>1, <1>5, <1>6 DEF MsIInv, MsWays, MsStored
  <1>10. ASSUME MsSound' PROVE MsAgree' /\ MsAway'
    <2>1. MsSound /\ MsAgree /\ MsAway /\ msFaults' = 0
      BY <1>1, <1>3, <1>10 DEF MsIInv, MsSound
    <2>2. MsAgree'
      BY <2>1, <1>1, <1>2, <1>5, MsIngestAgrees DEF MsIInv
    <2>3. MsAway'
      BY <2>1, <1>1, <1>3, <1>6 DEF MsAway, MsStored
    <2> QED BY <2>2, <2>3
  <1>11. MsNoTurnUnindexed'
    <2>1. SUFFICES ASSUME msFaults' = 0, NEW i \in MsIds, MsStored(i)', msFreq = "turn" \/ msCrashes = 0
                   PROVE  i \in msBm25' \/ i \in msBuffer'[msOf'[i].session] \/ msTasks'[i] # "none"
      BY <1>1 DEF MsNoTurnUnindexed
    <2>2. MsSound /\ MsAgree
      BY <1>3, <2>1 DEF MsIInv, MsSound
    <2>3. docs \subseteq msBm25'
      BY <2>1, <2>2, <1>1, <1>2, <1>5, MsIngestAgrees DEF MsIInv
    <2>4. msBm25 \subseteq msBm25'
      <3>1. msBm25' = msBm25 \cup (docs \ msHashes)
        BY <2>1, <1>1, <1>2, MsIngestFacts DEF MsIInv
      <3> QED BY <3>1
    <2>5. MsStored(i)
      BY <2>1, <1>1 DEF MsStored
    <2>6. i \in msBm25 \/ i \in msBuffer[msOf[i].session]
      BY <2>1, <2>5, <1>3, <1>5 DEF MsIInv, MsNoTurnUnindexed
    <2>7. msOf[i].session \in MsSessions
      BY <2>5 DEF MsIInv, MsWays
    <2> QED BY <2>3, <2>4, <2>6, <2>7, <1>1, <1>6
  <1>12. MsFullTextInStep'
    BY <1>1 DEF MsIInv, MsFullTextInStep
  <1> QED BY <1>7, <1>8, <1>9, <1>10, <1>11, <1>12 DEF MsIInv

\* add_turn leaves the turn to a thread, or in the buffer of its session.
LEMMA MsAddLaterKeeps ==
  ASSUME MsIInv, NEW s \in MsSessions, NEW o, MsInsert(s, o),
         \/ msFreq = "async" /\ msTasks' = [msTasks EXCEPT ![msLast'] = "vector"] /\ msBuffer' = msBuffer
         \/ msFreq \in {"session", "batch"} /\ msTasks' = msTasks /\ msBuffer' = [msBuffer EXCEPT ![s] = @ \cup {msLast'}],
         UNCHANGED <<msIndex, msFaults, msFreq, msCrashes, msDeletes, msForgotten>>
  PROVE  MsIInv'
  <1> DEFINE new == msLast'
  <1> USE DEF msIndex
  <1>1. /\ new = msLast + 1 /\ new \in MsIds /\ new \in 0 .. MsMaxTurns /\ MsUnused(new) /\ msLast \in Nat
        /\ msOf' = [i \in MsIds |-> [session |-> msOf'[i].session, org |-> msOf'[i].org]]
        /\ msTurns' = [i \in MsIds |-> [index |-> msTurns'[i].index, text |-> msTurns'[i].text]]
        /\ DOMAIN msFts' = MsIds /\ msOf'[new].session = s
        /\ \A i \in MsIds : i # new => msOf'[i] = msOf[i] /\ msTurns'[i] = msTurns[i] /\ (MsStored(i)' <=> MsStored(i))
        /\ MsFullTextInStep'
    BY MsInsertFacts
  <1>2. /\ \A i \in MsIds : i # new => msTasks'[i] = msTasks[i]
        /\ msTasks'[new] = IF msFreq = "async" THEN "vector" ELSE "none"
        /\ msTasks' \in [MsIds -> {"none", "vector", "bm25"}]
    BY <1>1 DEF MsIInv, MsTypes, MsUnused
  <1>3. /\ \A t \in MsSessions : msBuffer'[t] = IF t = s /\ msFreq # "async" THEN msBuffer[t] \cup {new} ELSE msBuffer[t]
        /\ msBuffer' \in [MsSessions -> SUBSET MsIds]
    <2> HIDE DEF new
    <2>1. msBuffer \in [MsSessions -> SUBSET MsIds] /\ new \in MsIds
      BY <1>1 DEF MsIInv, MsTypes
    <2>2. CASE msFreq = "async"
      BY <2>1, <2>2
    <2>3. CASE msFreq # "async"
      <3>1. msBuffer' = [msBuffer EXCEPT ![s] = msBuffer[s] \cup {new}]
        BY <2>3 DEF new
      <3> QED BY <2>1, <2>3, <3>1
    <2> QED BY <2>2, <2>3
  <1>4. MsTypes'
    BY <1>1, <1>2, <1>3 DEF MsIInv, MsTypes, new
  <1> HIDE DEF new
  <1>5. MsFresh'
    <2>1. ASSUME NEW i \in MsIds, i > new PROVE MsUnused(i)'
      <3>1. i > msLast /\ i # new
        BY <1>1, <2>1 DEF MsIds
      <3>2. MsUnused(i)
        BY <3>1 DEF MsIInv, MsFresh
      <3> QED BY <3>1, <3>2, <1>1, <1>2 DEF MsUnused
    <2> QED BY <2>1 DEF MsFresh, new
  <1>6. MsWays'
    <2>1. \A i \in MsIds : MsStored(i)' => msOf'[i].session \in MsSessions
      BY <1>1 DEF MsIInv, MsWays
    <2>2. \A t \in MsSessions : \A i \in msBuffer'[t] : msOf'[i].session = t /\ i <= new
      <3>1. ASSUME NEW t \in MsSessions, NEW i \in msBuffer'[t] PROVE msOf'[i].session = t /\ i <= new
        <4>1. CASE i \in msBuffer[t]
          <5>1. i \in MsIds /\ i <= msLast /\ msOf[i].session = t
            BY <4>1 DEF MsIInv, MsTypes, MsWays
          <5> QED BY <5>1, <1>1 DEF MsIds
        <4>2. CASE i = new /\ t = s
          BY <4>2, <1>1
        <4> QED BY <4>1, <4>2, <1>3, <3>1
      <3> QED BY <3>1
    <2>3. msFreq # "async" => \A i \in MsIds : msTasks'[i] = "none"
      BY <1>1, <1>2 DEF MsIInv, MsWays
    <2>4. msFreq \in {"off", "turn", "async"} => \A t \in MsSessions : msBuffer'[t] = {}
      BY <1>3 DEF MsIInv, MsWays
    <2>5. \A i \in MsIds : msTasks'[i] = "vector" => i \notin msHashes /\ i \notin msVector /\ i \notin msBm25 /\ i \notin msDisk
      BY <1>1, <1>2 DEF MsIInv, MsWays, MsUnused
    <2> QED BY <2>1, <2>2, <2>3, <2>4, <2>5 DEF MsWays, new
  <1>7. ASSUME MsSound' PROVE MsAgree' /\ MsAway'
    <2>1. MsAgree /\ MsAway
      BY <1>7 DEF MsIInv, MsSound
    <2>2. MsAgree'
      BY <2>1, <1>1, <1>2 DEF MsAgree, MsUnused
    <2>3. \A i \in msForgotten : i # new /\ i \in MsIds
      BY <1>1 DEF MsUnused, MsIInv, MsTypes
    <2>4. MsAway'
      BY <2>1, <2>3, <1>1, <1>2, <1>3 DEF MsAway
    <2> QED BY <2>2, <2>4
  <1>8. MsNoTurnUnindexed'
    <2>1. SUFFICES ASSUME msFaults = 0, NEW i \in MsIds, MsStored(i)', msFreq = "turn" \/ msCrashes = 0
                   PROVE  i \in msBm25 \/ i \in msBuffer'[msOf'[i].session] \/ msTasks'[i] # "none"
      BY DEF MsNoTurnUnindexed
    <2>2. CASE i # new
      <3>1. i \in msBm25 \/ i \in msBuffer[msOf[i].session] \/ msTasks[i] # "none"
        BY <2>1, <2>2, <1>1 DEF MsIInv, MsNoTurnUnindexed
      <3>2. msOf'[i] = msOf[i] /\ msOf[i].session \in MsSessions
        BY <2>1, <2>2, <1>1 DEF MsIInv, MsWays
      <3> QED BY <2>2, <3>1, <3>2, <1>2, <1>3
    <2>3. CASE i = new
      BY <2>3, <1>1, <1>2, <1>3
    <2> QED BY <2>2, <2>3
  <1> QED BY <1>1, <1>4, <1>5, <1>6, <1>7, <1>8 DEF MsIInv

\* A turn is added, in whichever way it is indexed.
LEMMA MsAddTurnKeeps ==
  ASSUME MsIInv, NEW s \in MsSessions, NEW o, NEW f, MsAddTurn(s, o, f)
  PROVE  MsIInv'
  <1> USE DEF msCounts
  <1>1. /\ msFreq # "off" /\ MsInsert(s, o) /\ UNCHANGED <<msFreq, msCrashes, msDeletes, msForgotten>>
        /\ msFreq \in {"turn", "async", "session", "batch"}
    BY DEF MsAddTurn, MsIInv, MsTypes
  <1>2. CASE msFreq = "turn"
    <2>1. MsIngest({msLast'}, f) /\ msBuffer' = msBuffer /\ msTasks' = msTasks
      BY <1>2 DEF MsAddTurn, MsFull
    <2>2. msBuffer[s] = {}
      BY <1>2 DEF MsIInv, MsWays
    <2>3. msBuffer[s] \cup {msLast'} = {msLast'} /\ msBuffer' = [msBuffer EXCEPT ![s] = {}]
      BY <2>1, <2>2 DEF MsIInv, MsTypes
    <2>4. MsIngest(msBuffer[s] \cup {msLast'}, f)
      BY <2>1, <2>3
    <2> QED BY <1>1, <1>2, <2>1, <2>3, <2>4, MsAddIngestKeeps
  <1>3. CASE msFreq = "async"
    <2>1. msTasks' = [msTasks EXCEPT ![msLast'] = "vector"] /\ msBuffer' = msBuffer /\ UNCHANGED <<msIndex, msFaults>>
      BY <1>3 DEF MsAddTurn, MsFull
    <2> QED BY <1>1, <1>3, <2>1, MsAddLaterKeeps
  <1>4. CASE msFreq \in {"session", "batch"} /\ MsFull(s)
    <2>1. MsIngest(msBuffer[s] \cup {msLast'}, f) /\ msBuffer' = [msBuffer EXCEPT ![s] = {}] /\ msTasks' = msTasks
      BY <1>4 DEF MsAddTurn, MsFlushed
    <2> QED BY <1>1, <1>4, <2>1, MsAddIngestKeeps
  <1>5. CASE msFreq \in {"session", "batch"} /\ ~MsFull(s)
    <2>1. msTasks' = msTasks /\ msBuffer' = [msBuffer EXCEPT ![s] = @ \cup {msLast'}] /\ UNCHANGED <<msIndex, msFaults>>
      BY <1>5 DEF MsAddTurn, MsBuffered
    <2> QED BY <1>1, <1>5, <2>1, MsAddLaterKeeps
  <1> QED BY <1>1, <1>2, <1>3, <1>4, <1>5

\* The thread of an ingest: hash and vector store,
LEMMA MsThreadVectorKeeps ==
  ASSUME MsIInv, NEW i \in MsIds, NEW f, MsThreadVector(i, f)
  PROVE  MsIInv'
  <1> USE DEF msCounts
  <1>1. /\ msTasks[i] = "vector" /\ MsFault(f) /\ msHashes' = msHashes \cup {i}
        /\ msVector' = (IF f = "none" THEN msVector \cup {i} ELSE msVector)
        /\ msTasks' = [msTasks EXCEPT ![i] = IF f = "none" THEN "bm25" ELSE "none"]
        /\ UNCHANGED <<msFreq, msOf, msTurns, msLast, msFts, msBuffer, msBm25, msDisk, msCrashes, msDeletes, msForgotten>>
    BY DEF MsThreadVector
  <1>2. msFaults' \in Nat /\ (msFaults' = 0 => msFaults = 0 /\ f = "none")
    BY <1>1, MsFaultFacts DEF MsIInv, MsTypes
  <1>3. i <= msLast /\ msFreq = "async"
    <2>1. ~(i > msLast) /\ msFreq = "async"
      BY <1>1 DEF MsIInv, MsWays, MsFresh, MsUnused
    <2> QED BY <2>1 DEF MsIInv, MsTypes, MsIds
  <1>4. /\ \A j \in MsIds : j # i => msTasks'[j] = msTasks[j]
        /\ msTasks'[i] \in {"bm25", "none"} /\ (f = "none" => msTasks'[i] = "bm25")
        /\ msTasks' \in [MsIds -> {"none", "vector", "bm25"}]
    BY <1>1 DEF MsIInv, MsTypes
  <1>5. MsTypes'
    BY <1>1, <1>2, <1>4 DEF MsIInv, MsTypes
  <1>6. MsFresh'
    <2>1. ASSUME NEW j \in MsIds, j > msLast PROVE MsUnused(j)'
      <3>1. j # i /\ MsUnused(j)
        BY <2>1, <1>3 DEF MsIInv, MsFresh, MsTypes, MsIds
      <3> QED BY <3>1, <1>1, <1>4 DEF MsUnused, MsStored
    <2> QED BY <2>1, <1>1 DEF MsFresh
  <1>7. MsWays'
    BY <1>1, <1>3, <1>4 DEF MsIInv, MsWays, MsStored
  <1>8. ASSUME MsSound' PROVE MsAgree' /\ MsAway'
    <2>1. MsAgree /\ MsAway /\ f = "none"
      BY <1>1, <1>2, <1>8 DEF MsIInv, MsSound
    <2>2. i \notin msHashes /\ i \notin msBm25
      BY <1>1 DEF MsIInv, MsWays
    <2>3. MsAgree'
      BY <2>1, <2>2, <1>1, <1>4 DEF MsAgree
    <2>4. i \notin msForgotten
      BY <2>1, <1>1 DEF MsAway
    <2>5. MsAway'
      BY <2>1, <2>4, <1>1, <1>4 DEF MsAway, MsStored, MsIInv, MsTypes
    <2> QED BY <2>3, <2>5
  <1>9. MsNoTurnUnindexed'
    BY <1>1, <1>2, <1>4 DEF MsIInv, MsNoTurnUnindexed, MsStored
  <1>10. MsFullTextInStep'
    BY <1>1 DEF MsIInv, MsFullTextInStep
  <1> QED BY <1>5, <1>6, <1>7, <1>8, <1>9, <1>10 DEF MsIInv

\* then the BM25 list and its file.
LEMMA MsThreadBm25Keeps ==
  ASSUME MsIInv, NEW i \in MsIds, NEW f, MsThreadBm25(i, f)
  PROVE  MsIInv'
  <1> USE DEF msCounts
  <1>1. /\ msTasks[i] = "bm25" /\ MsFault(f) /\ msBm25' = msBm25 \cup {i}
        /\ msDisk' = (IF f = "none" THEN msBm25' ELSE msDisk) /\ msTasks' = [msTasks EXCEPT ![i] = "none"]
        /\ UNCHANGED <<msFreq, msOf, msTurns, msLast, msFts, msBuffer, msHashes, msVector, msCrashes, msDeletes, msForgotten>>
    BY DEF MsThreadBm25
  <1>2. msFaults' \in Nat /\ (msFaults' = 0 => msFaults = 0 /\ f = "none")
    BY <1>1, MsFaultFacts DEF MsIInv, MsTypes
  <1>3. i <= msLast /\ msFreq = "async"
    <2>1. ~(i > msLast) /\ msFreq = "async"
      BY <1>1 DEF MsIInv, MsWays, MsFresh, MsUnused
    <2> QED BY <2>1 DEF MsIInv, MsTypes, MsIds
  <1>4. /\ \A j \in MsIds : j # i => msTasks'[j] = msTasks[j]
        /\ msTasks'[i] = "none" /\ msTasks' \in [MsIds -> {"none", "vector", "bm25"}]
    BY <1>1 DEF MsIInv, MsTypes
  <1>5. MsTypes'
    BY <1>1, <1>2, <1>4 DEF MsIInv, MsTypes
  <1>6. MsFresh'
    <2>1. ASSUME NEW j \in MsIds, j > msLast PROVE MsUnused(j)'
      <3>1. j # i /\ MsUnused(j)
        BY <2>1, <1>3 DEF MsIInv, MsFresh, MsTypes, MsIds
      <3> QED BY <3>1, <1>1, <1>4 DEF MsUnused, MsStored
    <2> QED BY <2>1, <1>1 DEF MsFresh
  <1>7. MsWays'
    <2>1. ASSUME NEW j \in MsIds, msTasks'[j] = "vector" PROVE j \notin msHashes' /\ j \notin msVector' /\ j \notin msBm25' /\ j \notin msDisk'
      <3>1. j # i /\ msTasks[j] = "vector"
        BY <2>1, <1>4
      <3> QED BY <3>1, <1>1 DEF MsIInv, MsWays
    <2> QED BY <2>1, <1>1, <1>3, <1>4 DEF MsIInv, MsWays, MsStored
  <1>8. ASSUME MsSound' PROVE MsAgree' /\ MsAway'
    <2>1. MsAgree /\ MsAway /\ f = "none"
      BY <1>1, <1>2, <1>8 DEF MsIInv, MsSound
    <2>2. MsAgree'
      BY <2>1, <1>1, <1>4 DEF MsAgree
    <2>3. MsAway'
      BY <2>1, <1>1, <1>4 DEF MsAway, MsStored, MsIInv, MsTypes
    <2> QED BY <2>2, <2>3
  <1>9. MsNoTurnUnindexed'
    BY <1>1, <1>2, <1>4 DEF MsIInv, MsNoTurnUnindexed, MsStored
  <1>10. MsFullTextInStep'
    BY <1>1 DEF MsIInv, MsFullTextInStep
  <1> QED BY <1>5, <1>6, <1>7, <1>8, <1>9, <1>10 DEF MsIInv

\* Turns that are deleted leave both tables.
LEMMA MsGoneFacts ==
  ASSUME MsIInv, NEW ids, MsGone(ids), MsUnindexed(ids)
  PROVE  /\ msTurns' = [i \in MsIds |-> [index |-> msTurns'[i].index, text |-> msTurns'[i].text]] /\ DOMAIN msFts' = MsIds
         /\ \A i \in MsIds : MsStored(i)' <=> MsStored(i) /\ i \notin ids
         /\ MsFullTextInStep'
  <1>1. \A i \in MsIds : msTurns'[i] = IF i \in ids THEN [index |-> 0, text |-> 0] ELSE msTurns[i]
    BY DEF MsGone
  <1>2. \A i \in MsIds : msTurns[i] = [index |-> msTurns[i].index, text |-> msTurns[i].text]
    BY DEF MsIInv, MsTypes
  <1>3. \A i \in MsIds : msTurns'[i] = [index |-> msTurns'[i].index, text |-> msTurns'[i].text]
    BY <1>1, <1>2
  <1>4. \A i \in MsIds : MsStored(i)' <=> MsStored(i) /\ i \notin ids
    BY <1>1 DEF MsStored
  <1>5. DOMAIN msFts' = MsIds /\ MsFullTextInStep'
    BY <1>1 DEF MsUnindexed, MsIInv, MsFullTextInStep
  <1> QED BY <1>3, <1>4, <1>5 DEF MsGone

\* Changes of turns, none of which are added.
LEMMA MsTurnsKeep ==
  ASSUME MsIInv, MsFullTextInStep', DOMAIN msFts' = MsIds,
         msTurns' = [i \in MsIds |-> [index |-> msTurns'[i].index, text |-> msTurns'[i].text]],
         \A i \in MsIds : MsStored(i)' => MsStored(i),
         UNCHANGED <<msFreq, msOf, msLast, msCrashes, msBuffer, msTasks, msIndex, msFaults, msForgotten>>
  PROVE  MsIInv'
  <1> USE DEF msIndex
  <1>1. MsTypes'
    BY DEF MsIInv, MsTypes
  <1>2. MsFresh'
    BY DEF MsIInv, MsFresh, MsUnused
  <1>3. MsWays'
    BY DEF MsIInv, MsWays
  <1>4. MsSound' => MsAgree' /\ MsAway'
    <2>1. MsSound' => MsAgree /\ MsAway
      BY DEF MsIInv, MsSound
    <2>2. MsAgree => MsAgree'
      BY DEF MsAgree
    <2>3. MsAway => MsAway'
      BY DEF MsAway, MsIInv, MsTypes
    <2> QED BY <2>1, <2>2, <2>3
  <1>5. MsNoTurnUnindexed'
    BY DEF MsIInv, MsNoTurnUnindexed
  <1> QED BY <1>1, <1>2, <1>3, <1>4, <1>5 DEF MsIInv

\* A turn gets another text, and so does its entry.
LEMMA MsUpdateTurnKeeps ==
  ASSUME MsIInv, NEW i \in MsIds, MsUpdateTurn(i)
  PROVE  MsIInv'
  <1>1. /\ msTurns' = [msTurns EXCEPT ![i].text = 2] /\ msFts' = [msFts EXCEPT ![i] = 2]
        /\ UNCHANGED <<msFreq, msOf, msLast, msCrashes, msBuffer, msTasks, msIndex, msFaults, msForgotten>>
    BY DEF MsUpdateTurn, MsChange, MsReindexed
  <1>2. DOMAIN msTurns = MsIds /\ DOMAIN msFts = MsIds /\ \A j \in MsIds : msTurns[j] = [index |-> msTurns[j].index, text |-> msTurns[j].text]
    BY DEF MsIInv, MsTypes
  <1>3. /\ DOMAIN msTurns' = MsIds /\ DOMAIN msFts' = MsIds
        /\ \A j \in MsIds : msTurns'[j] = IF j = i THEN [index |-> msTurns[j].index, text |-> 2] ELSE msTurns[j]
        /\ \A j \in MsIds : msFts'[j] = IF j = i THEN 2 ELSE msFts[j]
    BY <1>1, <1>2
  <1>4. \A j \in MsIds : msTurns'[j].index = msTurns[j].index /\ msTurns'[j].text = IF j = i THEN 2 ELSE msTurns[j].text
    BY <1>3
  <1>5. MsFullTextInStep'
    BY <1>3, <1>4 DEF MsIInv, MsFullTextInStep
  <1>6. msTurns' = [j \in MsIds |-> [index |-> msTurns'[j].index, text |-> msTurns'[j].text]]
    <2>1. \A j \in MsIds : msTurns'[j] = [index |-> msTurns'[j].index, text |-> msTurns'[j].text]
      BY <1>2, <1>3
    <2> QED BY <1>1, <1>3, <2>1
  <1>7. \A j \in MsIds : MsStored(j)' => MsStored(j)
    BY <1>4 DEF MsStored
  <1> QED BY <1>1, <1>3, <1>5, <1>6, <1>7, MsTurnsKeep

\* delete_session, for an organisation or for all.
LEMMA MsDeleteSessionKeeps ==
  ASSUME MsIInv, NEW s \in MsSessions, NEW o, NEW f, NEW lost \in SUBSET MsIds, MsDeleteSession(s, o, f, lost)
  PROVE  MsIInv'
  <1> DEFINE hit == MsHit(s, o)
             gone == {i \in MsIds : msOf[i].session = s /\ (o = "none" \/ msOf[i].org = o) /\ msTasks[i] = "none"}
  <1>1. /\ MsGone(MsOfSession(s)) /\ MsUnindexed(MsOfSession(s)) /\ msBuffer' = [msBuffer EXCEPT ![s] = {}]
        /\ MsFault(IF lost = {} THEN f ELSE "race")
        /\ msHashes' = msHashes \ hit /\ msBm25' = msBm25 \ hit
        /\ msVector' = IF f = "vector" THEN msVector ELSE msVector \ hit
        /\ msDisk' = IF f = "disk" \/ hit = {} THEN msDisk ELSE msBm25'
        /\ msTasks' = [i \in MsIds |-> IF i \in lost THEN "none" ELSE msTasks[i]]
        /\ msForgotten' = msForgotten \cup gone
        /\ UNCHANGED <<msFreq, msOf, msLast, msCrashes>>
    BY DEF MsDeleteSession, MsBufferDropped, MsHashesLeft, MsChange
  <1>2. msFaults' \in Nat /\ (msFaults' = 0 => msFaults = 0 /\ lost = {} /\ f = "none")
    <2>1. msFaults' \in Nat /\ (msFaults' = 0 => msFaults = 0 /\ (IF lost = {} THEN f ELSE "race") = "none")
      BY <1>1, MsFaultFacts DEF MsIInv, MsTypes
    <2> QED BY <2>1
  <1>3. hit = {i \in msBm25 : msOf[i].session = s /\ (o = "none" \/ msOf[i].org = o)}
    BY DEF MsHit
  <1>4. /\ msTurns' = [i \in MsIds |-> [index |-> msTurns'[i].index, text |-> msTurns'[i].text]] /\ DOMAIN msFts' = MsIds
        /\ \A i \in MsIds : MsStored(i)' <=> MsStored(i) /\ i \notin MsOfSession(s)
        /\ MsFullTextInStep'
    BY <1>1, MsGoneFacts
  <1>5. \A i \in MsIds : MsStored(i)' <=> MsStored(i) /\ msOf[i].session # s
    BY <1>4 DEF MsOfSession
  <1>6. \A t \in MsSessions : msBuffer'[t] = IF t = s THEN {} ELSE msBuffer[t]
    BY <1>1 DEF MsIInv, MsTypes
  <1>7. \A i \in MsIds : msTasks'[i] = IF i \in lost THEN "none" ELSE msTasks[i]
    BY <1>1
  <1>8. gone \subseteq MsIds /\ \A i \in gone : msOf[i].session = s /\ msTasks[i] = "none"
    OBVIOUS
  <1>9. \A i \in gone : i \notin msBm25 \/ i \in hit
    BY <1>3
  <1> HIDE DEF hit, gone
  <1>10. MsTypes'
    <2>1. msBuffer' \in [MsSessions -> SUBSET MsIds] /\ msTasks' \in [MsIds -> {"none", "vector", "bm25"}]
      BY <1>1 DEF MsIInv, MsTypes
    <2>2. msHashes' \subseteq MsIds /\ msVector' \subseteq MsIds /\ msBm25' \subseteq MsIds /\ msDisk' \subseteq MsIds /\ msForgotten' \subseteq MsIds
      BY <1>1, <1>8 DEF MsIInv, MsTypes
    <2> QED BY <1>1, <1>2, <1>4, <2>1, <2>2 DEF MsIInv, MsTypes
  <1>11. MsFresh'
    <2>1. ASSUME NEW i \in MsIds, i > msLast PROVE MsUnused(i)'
      <3>1. MsUnused(i)
        BY <2>1 DEF MsIInv, MsFresh
      <3>2. i \notin gone
        BY <3>1, <1>8, MsAssumption DEF MsUnused
      <3> QED BY <3>1, <3>2, <1>1, <1>5, <1>7 DEF MsUnused
    <2> QED BY <2>1, <1>1 DEF MsFresh
  <1>12. MsWays'
    <2>1. \A i \in MsIds : msTasks'[i] = "vector" => i \notin msHashes' /\ i \notin msVector' /\ i \notin msBm25' /\ i \notin msDisk'
      BY <1>1, <1>7 DEF MsIInv, MsWays
    <2>2. msFreq # "async" => \A i \in MsIds : msTasks'[i] = "none"
      BY <1>7 DEF MsIInv, MsWays
    <2> QED BY <2>1, <2>2, <1>1, <1>5, <1>6 DEF MsIInv, MsWays
  <1>13. ASSUME MsSound' PROVE MsAgree' /\ MsAway'
    <2>1. MsAgree /\ MsAway /\ f = "none" /\ lost = {}
      BY <1>1, <1>2, <1>13 DEF MsIInv, MsSound
    <2>2. hit \subseteq msBm25
      BY <1>3
    <2>3. msDisk' = msBm25' /\ msVector' = msHashes'
      BY <2>1, <1>1 DEF MsAgree
    <2>4. \A i \in MsIds : msTasks'[i] = msTasks[i]
      BY <2>1, <1>7
    <2>5. MsAgree'
      BY <2>1, <2>2, <2>3, <2>4, <1>1 DEF MsAgree
    <2>6. ASSUME NEW i \in msForgotten' PROVE i \notin msHashes' /\ ~MsStored(i)' /\ msTasks'[i] = "none" /\ \A t \in MsSessions : i \notin msBuffer'[t]
      <3>1. CASE i \in msForgotten
        BY <3>1, <2>1, <2>4, <1>1, <1>5, <1>6 DEF MsAway, MsIInv, MsTypes
      <3>2. CASE i \in gone
        <4>1. i \in MsIds /\ msOf[i].session = s /\ msTasks[i] = "none"
          BY <3>2, <1>8
        <4>2. i \notin msHashes'
          BY <3>2, <4>1, <1>1, <1>9, <2>1 DEF MsAgree
        <4>3. \A t \in MsSessions : i \notin msBuffer'[t]
          BY <4>1, <1>6 DEF MsIInv, MsWays
        <4> QED BY <4>1, <4>2, <4>3, <1>5, <2>4
      <3> QED BY <3>1, <3>2, <1>1
    <2>7. MsAway'
      BY <2>6 DEF MsAway
    <2> QED BY <2>5, <2>7
  <1>14. MsNoTurnUnindexed'
    <2>1. SUFFICES ASSUME msFaults' = 0, NEW i \in MsIds, MsStored(i)', msFreq = "turn" \/ msCrashes = 0
                   PROVE  i \in msBm25' \/ i \in msBuffer'[msOf[i].session] \/ msTasks'[i] # "none"
      BY <1>1 DEF MsNoTurnUnindexed
    <2>2. MsStored(i) /\ msOf[i].session # s /\ msOf[i].session \in MsSessions /\ i \notin hit
      BY <2>1, <1>3, <1>5 DEF MsIInv, MsWays
    <2>3. i \in msBm25 \/ i \in msBuffer[msOf[i].session] \/ msTasks[i] # "none"
      BY <2>1, <2>2, <1>2 DEF MsIInv, MsNoTurnUnindexed
    <2> QED BY <2>1, <2>2, <2>3, <1>1, <1>2, <1>6, <1>7
  <1> QED BY <1>4, <1>10, <1>11, <1>12, <1>13, <1>14 DEF MsIInv

\* A restart keeps what is in the files.
LEMMA MsRestartKeeps == MsIInv /\ MsRestart => MsIInv'
  <1> SUFFICES ASSUME MsIInv, MsRestart PROVE MsIInv'
    OBVIOUS
  <1>1. /\ msCrashes' = msCrashes + 1 /\ msCrashes \in Nat
        /\ msBuffer' = [s \in MsSessions |-> {}] /\ msTasks' = [i \in MsIds |-> "none"] /\ msBm25' = msDisk /\ msHashes' = msDisk
        /\ UNCHANGED <<msFreq, msOf, msTurns, msLast, msFts, msVector, msDisk, msFaults, msDeletes, msForgotten>>
    BY DEF MsRestart, MsIInv, MsTypes
  <1>2. (\A s \in MsSessions : msBuffer'[s] = {}) /\ \A i \in MsIds : msTasks'[i] = "none"
    BY <1>1
  <1>3. \A i : MsStored(i)' <=> MsStored(i)
    BY <1>1 DEF MsStored
  <1>4. MsTypes'
    BY <1>1 DEF MsIInv, MsTypes
  <1>5. MsFresh'
    BY <1>1, <1>2, <1>3 DEF MsIInv, MsFresh, MsUnused
  <1>6. MsWays'
    BY <1>1, <1>2, <1>3 DEF MsIInv, MsWays
  <1>7. msFaults = 0 /\ msFreq # "async" => msHashes = msDisk /\ msBm25 = msDisk /\ msVector = msDisk
    BY DEF MsIInv, MsSound, MsAgree, MsWays, MsTypes
  <1>8. ASSUME MsSound' PROVE MsAgree' /\ MsAway'
    <2>1. msFaults = 0 /\ msFreq # "async" /\ MsAway
      BY <1>1, <1>8 DEF MsSound, MsIInv
    <2>2. MsAgree'
      BY <2>1, <1>1, <1>2, <1>7 DEF MsAgree
    <2>3. MsAway'
      BY <2>1, <1>1, <1>2, <1>3, <1>7 DEF MsAway, MsIInv, MsTypes
    <2> QED BY <2>2, <2>3
  <1>9. MsNoTurnUnindexed'
    <2>1. SUFFICES ASSUME msFaults = 0, msFreq = "turn", NEW i \in MsIds, MsStored(i) PROVE i \in msBm25'
      BY <1>1, <1>3 DEF MsNoTurnUnindexed
    <2>2. i \in msBm25 \/ i \in msBuffer[msOf[i].session] \/ msTasks[i] # "none"
      BY <2>1 DEF MsIInv, MsNoTurnUnindexed
    <2> QED BY <2>1, <2>2, <1>1, <1>7 DEF MsIInv, MsWays
  <1>10. MsFullTextInStep'
    BY <1>1 DEF MsIInv, MsFullTextInStep
  <1> QED BY <1>4, <1>5, <1>6, <1>8, <1>9, <1>10 DEF MsIInv

\* Every step keeps the invariant.
LEMMA MsStep == MsIInv /\ [MsNext]_msVars => MsIInv'
  <1> SUFFICES ASSUME MsIInv, [MsNext]_msVars PROVE MsIInv'
    OBVIOUS
  <1>1. CASE UNCHANGED msVars
    <2> USE <1>1 DEF msVars, msIndex
    <2>1. DOMAIN msFts' = MsIds /\ msTurns' = [i \in MsIds |-> [index |-> msTurns'[i].index, text |-> msTurns'[i].text]]
      BY DEF MsIInv, MsTypes
    <2>2. MsFullTextInStep' /\ \A i \in MsIds : MsStored(i)' => MsStored(i)
      BY DEF MsIInv, MsFullTextInStep, MsStored
    <2> QED BY <2>1, <2>2, MsTurnsKeep
  <1>2. ASSUME NEW f \in {"turn", "async", "session", "batch"}, MsStart(f) PROVE MsIInv'
    <2>1. /\ msFreq = "off" /\ msFreq' = f
          /\ UNCHANGED <<msOf, msTurns, msLast, msFts, msBuffer, msTasks, msHashes, msVector, msBm25, msDisk, msFaults, msCrashes, msForgotten>>
      BY <1>2 DEF MsStart, msIndex, msCounts
    <2>2. \A i : MsStored(i)' <=> MsStored(i)
      BY <2>1 DEF MsStored
    <2>3. MsTypes' /\ MsFresh' /\ MsFullTextInStep'
      BY <2>1, <2>2 DEF MsIInv, MsTypes, MsFresh, MsUnused, MsFullTextInStep
    <2>4. MsWays'
      BY <2>1, <2>2 DEF MsIInv, MsWays
    <2>5. msFaults = 0 => MsAgree' /\ MsAway'
      BY <2>1, <2>2 DEF MsIInv, MsSound, MsAgree, MsAway
    <2>6. MsNoTurnUnindexed'
      <3>1. \A i \in MsIds : ~MsStored(i)
        BY <2>1 DEF MsIInv, MsWays, MsFresh, MsUnused, MsIds
      <3> QED BY <3>1, <2>2 DEF MsNoTurnUnindexed
    <2> QED BY <2>1, <2>3, <2>4, <2>5, <2>6 DEF MsIInv, MsSound
  <1>3. ASSUME NEW i \in MsIds, MsDeleteTurn(i) PROVE MsIInv'
    BY <1>3, MsGoneFacts, MsTurnsKeep DEF MsDeleteTurn, MsChange
  <1>4. CASE MsPurge
    BY <1>4, MsGoneFacts, MsTurnsKeep DEF MsPurge, MsChange
  <1> QED BY <1>1, <1>2, <1>3, <1>4, MsAddTurnKeeps, MsFlushKeeps, MsThreadVectorKeeps, MsThreadBm25Keeps, MsUpdateTurnKeeps,
             MsRestartKeeps, MsDeleteSessionKeeps DEF MsNext

\* The invariant gives the properties.
LEMMA MsInvImplies == MsIInv => MsFullTextInStep /\ MsStoresAgree /\ MsNoTurnUnindexed /\ MsForgottenForGood
  <1> SUFFICES ASSUME MsIInv PROVE MsFullTextInStep /\ MsStoresAgree /\ MsNoTurnUnindexed /\ MsForgottenForGood
    OBVIOUS
  <1>1. ASSUME MsSound, NEW i \in MsIds, msTasks[i] # "bm25"
        PROVE  Cardinality({x \in {1, 2, 3, 4} : i \in <<msHashes, msVector, msBm25, msDisk>>[x]}) \in {0, 4}
    <2>1. MsAgree
      BY <1>1 DEF MsIInv
    <2>2. CASE i \in msHashes
      <3>1. i \in msVector /\ i \in msBm25 /\ i \in msDisk
        BY <2>1, <2>2, <1>1 DEF MsAgree
      <3>2. PICK n \in Int : n = 4
        OBVIOUS
      <3>3. {x \in {1, 2, 3, 4} : i \in <<msHashes, msVector, msBm25, msDisk>>[x]} = 1 .. n
        BY <3>1, <3>2, <2>2
      <3>4. Cardinality(1 .. n) = IF 1 > n THEN 0 ELSE n - 1 + 1
        BY FS_Interval
      <3> QED BY <3>2, <3>3, <3>4
    <2>3. CASE i \notin msHashes
      <3>1. i \notin msVector /\ i \notin msBm25 /\ i \notin msDisk
        BY <2>1, <2>3, <1>1 DEF MsAgree
      <3>2. {x \in {1, 2, 3, 4} : i \in <<msHashes, msVector, msBm25, msDisk>>[x]} = {}
        BY <3>1, <2>3
      <3> QED BY <3>2, FS_EmptySet
    <2> QED BY <2>2, <2>3
  <1>2. MsStoresAgree
    BY <1>1 DEF MsStoresAgree, MsSound
  <1>3. MsForgottenForGood
    BY DEF MsIInv, MsSound, MsAgree, MsAway, MsForgottenForGood
  <1> QED BY <1>2, <1>3 DEF MsIInv

-----------------------------------------------------------------------------
(* DataStores: backups, tenants, the state file and the schema steps. *)

\* A complete archive has what was committed when its backup began, unless the file was copied.
DsSound(r) == r.whole /\ ~r.copied => \A f \in DsFiles : r.data[f] # DsNo => r.data[f] >= r.since[f]
DsMatches(r, d) == r.whole /\ r.data = d

\* What create_backup, restore_backup and run_dr_drill rely on between their steps.
DsCreating == dsJob \in {"stage", "pack", "seal"}
DsBackupIInv ==
    /\ dsLive \in [DsFiles -> Nat]
    /\ dsStaged \in [DsFiles -> Nat] /\ dsMain \in Nat /\ dsSince \in [DsFiles -> Nat]
    /\ \A i \in DOMAIN dsSide \ dsAgain : i \in DOMAIN dsArch /\ DsMatches(dsArch[i], dsSide[i])
    /\ \A i \in DOMAIN dsArch : DsSound(dsArch[i])
    /\ DsCreating /\ dsId \in DOMAIN dsSide => dsId \in dsAgain
    /\ dsJob \in {"pack", "seal"} => dsId \in DOMAIN dsArch
    /\ dsJob = "seal" => DsMatches(dsArch[dsId], dsStaged)
    /\ DsCreating /\ ~dsCopied => \A f \in DsFiles : dsStaged[f] # DsNo => dsStaged[f] >= dsSince[f]
    /\ DsCreating => \A f \in DsFiles : dsLive[f] >= dsSince[f]
    /\ ~dsDied /\ "drill" \in DOMAIN dsArch \cup DOMAIN dsSide => dsJob # "idle" /\ dsDrill
    /\ DsCreating => (dsDrill <=> dsId = "drill")

\* The tenant of the running block is the current one, and every open context resets to the block around it.
DsBlocks(c, s, n) ==
    /\ s \in Seq(DsTenants \cup {DsNo}) /\ n \in Seq(DsTenants) /\ Len(s) <= Len(n)
    /\ c = DsTop(n)
    /\ \A j \in 1 .. Len(s) : s[j] = IF Len(n) - Len(s) + j = 1 THEN DsNo ELSE n[Len(n) - Len(s) + j - 1]
DsTenantIInv ==
    /\ dsCtx \in [DsTasks -> DsTenants \cup {DsNo}]
    /\ dsStack \in [DsTasks -> Seq(DsTenants \cup {DsNo})] /\ dsNest \in [DsTasks -> Seq(DsTenants)]
    /\ \A t \in DsTasks : DsBlocks(dsCtx[t], dsStack[t], dsNest[t])
    /\ dsRows \in [DsTenants -> SUBSET DsTenants] /\ \A n \in DsTenants : dsRows[n] \subseteq {n}
    /\ dsWrong = FALSE

\* state.json.tmp is what save_state left in memory.
DsStateIInv ==
    /\ dsTmp # <<>> => dsTmp[1] = dsMem
    /\ dsTmp = <<>> /\ ~dsFailed => dsFile = dsMem

\* The state is at the version the last applied step leads to.
DsMigrateIInv ==
    /\ dsSteps \in Seq(Nat \X Nat) /\ dsApplied \in Seq(Nat \X Nat) /\ dsGoal \in Nat /\ dsVersion \in Nat
    /\ dsApplied # <<>> => dsApplied[Len(dsApplied)][2] = dsVersion
    /\ dsEnd = "busy" => dsVersion < dsGoal
    /\ dsEnd = "no" => dsApplied = <<>>
    /\ DsMigrated

DsIInv == DsBackupIInv /\ DsTenantIInv /\ DsStateIInv /\ DsMigrateIInv

\* The stores start empty.
LEMMA DsInitInv == DsInit => DsIInv
  <1> SUFFICES ASSUME DsInit PROVE DsIInv
    OBVIOUS
  <1>1. DsBackupIInv
    BY DEF DsInit, DsBackupIInv, DsCreating, DsFiles, DsNothing, DsNo
  <1>2. DsTenantIInv
    BY DEF DsInit, DsTenantIInv, DsBlocks, DsTop
  <1>3. DsStateIInv
    BY DEF DsInit, DsStateIInv
  <1>4. DsMigrateIInv
    BY DEF DsInit, DsMigrateIInv, DsMigrated
  <1> QED BY <1>1, <1>2, <1>3, <1>4 DEF DsIInv

\* A step of the stores is a step of one of them; the others stutter.
LEMMA DsModeSteps ==
  [DsNext]_dsVars => /\ DsBackupNext \/ UNCHANGED dsBackupVars
                     /\ DsTenantNext \/ UNCHANGED dsTenantVars
                     /\ DsStateNext \/ UNCHANGED dsStateVars
                     /\ DsMigrateNext \/ UNCHANGED dsMigrateVars
  <1>1. DsBackupNext => UNCHANGED <<dsTenantVars, dsStateVars, dsMigrateVars>>
    BY DEF DsBackupNext, DsWrite, DsExtract, DsStage, DsWalCheckpoint, DsPack, DsPacked, DsSeal, DsOpens, DsVerified, DsDies,
           DsCreate, DsRestore, DsUnchangedButBackup
  <1>2. DsTenantNext => UNCHANGED <<dsBackupVars, dsStateVars, dsMigrateVars>>
    BY DEF DsTenantNext, DsExit, DsEnter, DsSpawn, DsAccess, DsUnchangedButTenant
  <1>3. DsStateNext => UNCHANGED <<dsBackupVars, dsTenantVars, dsMigrateVars>>
    BY DEF DsStateNext, DsReplace, DsCheckpoint, DsRestart, DsRestoreCheckpoint, DsSaveState, DsUnchangedButState
  <1>4. DsMigrateNext => UNCHANGED <<dsBackupVars, dsTenantVars, dsStateVars>>
    BY DEF DsMigrateNext, DsRegisterStep, DsMigrate, DsStep, DsUnchangedButMigrate
  <1> QED BY <1>1, <1>2, <1>3, <1>4 DEF DsNext, DsChoose, dsVars

\* save_state, delete_state, checkpoints, replace and restarts.
LEMMA DsStateStep == DsStateIInv /\ (DsStateNext \/ UNCHANGED dsStateVars) => DsStateIInv'
  <1> SUFFICES ASSUME DsStateIInv, DsStateNext \/ UNCHANGED dsStateVars PROVE DsStateIInv'
    OBVIOUS
  <1>1. CASE UNCHANGED dsStateVars
    BY <1>1 DEF DsStateIInv, dsStateVars
  <1>2. CASE DsReplace
    BY <1>2 DEF DsStateIInv, DsReplace
  <1>3. CASE DsCheckpoint
    BY <1>3 DEF DsStateIInv, DsCheckpoint
  <1>4. CASE DsRestart
    BY <1>4 DEF DsStateIInv, DsRestart
  <1>5. ASSUME NEW ok \in BOOLEAN, DsRestoreCheckpoint(ok) PROVE DsStateIInv'
    <2>1. CASE ok
      BY <1>5, <2>1 DEF DsStateIInv, DsRestoreCheckpoint, DsRestoredSaved
    <2>2. CASE ~ok
      BY <1>5, <2>2 DEF DsStateIInv, DsRestoreCheckpoint, DsRestoredSaved
    <2> QED BY <2>1, <2>2
  <1>6. ASSUME NEW ok \in BOOLEAN, NEW k \in DsKeys, NEW v \in {DsNo, 1, 2}, DsSaveState(k, v, ok) PROVE DsStateIInv'
    <2>1. CASE ok
      BY <1>6, <2>1 DEF DsStateIInv, DsSaveState
    <2>2. CASE ~ok
      BY <1>6, <2>2 DEF DsStateIInv, DsSaveState
    <2> QED BY <2>1, <2>2
  <1> QED BY <1>1, <1>2, <1>3, <1>4, <1>5, <1>6 DEF DsStateNext

\* A non-empty set of naturals has a smallest member, which CHOOSE returns.
LEMMA DsFirst ==
  ASSUME NEW S \in SUBSET Nat, S # {}
  PROVE  LET i == CHOOSE j \in S : \A k \in S : j <= k IN i \in S
  <1>1. IsWellFoundedOn(OpToRel(<, Nat), Nat)
    BY NatLessThanWellFounded
  <1>2. PICK j \in S : \A k \in S : ~ (<<k, j>> \in OpToRel(<, Nat))
    BY <1>1, WFMin
  <1>3. \A k \in S : j <= k
    <2> TAKE k \in S
    <2>1. j \in Nat /\ k \in Nat
      OBVIOUS
    <2>2. ~(k < j)
      BY <1>2, <2>1 DEF OpToRel
    <2> QED BY <2>1, <2>2
  <1> QED BY <1>3

\* register_step and migrate.
LEMMA DsMigrateStep == DsMigrateIInv /\ (DsMigrateNext \/ UNCHANGED dsMigrateVars) => DsMigrateIInv'
  <1> SUFFICES ASSUME DsMigrateIInv, DsMigrateNext \/ UNCHANGED dsMigrateVars PROVE DsMigrateIInv'
    OBVIOUS
  <1>1. CASE UNCHANGED dsMigrateVars
    BY <1>1 DEF DsMigrateIInv, DsMigrated, dsMigrateVars
  <1>2. ASSUME NEW st \in DsStepSet, DsRegisterStep(st) PROVE DsMigrateIInv'
    <2>1. st \in Nat \X Nat
      BY DsVersionAssumption DEF DsStepSet
    <2> QED BY <1>2, <2>1 DEF DsMigrateIInv, DsMigrated, DsRegisterStep
  <1>3. ASSUME NEW g \in 1 .. DsMaxVersion, DsMigrate(g) PROVE DsMigrateIInv'
    BY <1>3, DsVersionAssumption DEF DsMigrateIInv, DsMigrated, DsMigrate
  <1>4. CASE DsStep
    <2> DEFINE fit == {i \in DOMAIN dsSteps : DsFits(i)}
               i == CHOOSE j \in fit : \A k \in fit : j <= k
    <2>1. CASE fit = {}
      BY <1>4, <2>1 DEF DsStep, DsMigrateIInv, DsMigrated
    <2>2. CASE fit # {}
      <3>1. fit \in SUBSET Nat
        BY DEF DsMigrateIInv
      <3>2. i \in fit
        <4> HIDE DEF fit
        <4> QED BY <2>2, <3>1, DsFirst
      <3>3. dsVersion' = dsSteps[i][2] /\ dsApplied' = Append(dsApplied, dsSteps[i]) /\ dsEnd' = (IF dsVersion' < dsGoal THEN "busy" ELSE "returned")
            /\ dsEnd = "busy" /\ dsSteps' = dsSteps /\ dsGoal' = dsGoal
        BY <1>4, <2>2 DEF DsStep
      <3> HIDE DEF i
      <3>4. i \in DOMAIN dsSteps /\ dsSteps[i][1] = dsVersion /\ dsSteps[i][2] <= dsGoal
        BY <3>2 DEF DsFits
      <3>5. PICK st \in Nat \X Nat : st = dsSteps[i]
        BY <3>4 DEF DsMigrateIInv
      <3>6. dsApplied' \in Seq(Nat \X Nat) /\ Len(dsApplied') = Len(dsApplied) + 1 /\ dsApplied'[Len(dsApplied) + 1] = st
            /\ \A k \in 1 .. Len(dsApplied) : dsApplied'[k] = dsApplied[k]
        BY <3>3, <3>5 DEF DsMigrateIInv
      <3>7. st[1] = dsVersion /\ st[2] <= dsGoal /\ dsVersion' = st[2] /\ st[2] \in Nat
        BY <3>3, <3>4, <3>5
      <3>8. \A k \in 2 .. Len(dsApplied') : dsApplied'[k][1] = dsApplied'[k - 1][2]
        <4> TAKE k \in 2 .. Len(dsApplied')
        <4>1. Len(dsApplied) \in Nat /\ k - 1 \in 1 .. Len(dsApplied) /\ dsApplied'[k - 1] = dsApplied[k - 1] /\ dsApplied # <<>>
          <5>1. dsApplied \in Seq(Nat \X Nat)
            BY DEF DsMigrateIInv
          <5>2. PICK n \in Nat : n = Len(dsApplied) /\ Len(dsApplied') = n + 1
            BY <5>1, <3>6
          <5>3. k \in 2 .. (n + 1)
            BY <5>2
          <5>4. k - 1 \in 1 .. n /\ n # 0
            BY <5>3
          <5>5. dsApplied # <<>>
            BY <5>2, <5>4
          <5>6. k - 1 \in 1 .. Len(dsApplied) /\ Len(dsApplied) \in Nat
            BY <5>2, <5>4
          <5> QED BY <5>5, <5>6, <3>6, Zenon
        <4>2. CASE k = Len(dsApplied')
          <5>1. k - 1 = Len(dsApplied) /\ dsApplied'[k] = st
            BY <4>1, <4>2, <3>6
          <5>2. dsApplied[Len(dsApplied)][2] = dsVersion
            BY <4>1 DEF DsMigrateIInv
          <5> QED BY <4>1, <5>1, <5>2, <3>7, Zenon
        <4>3. CASE k # Len(dsApplied')
          <5>1. k \in 2 .. Len(dsApplied) /\ dsApplied'[k] = dsApplied[k]
            <6>1. PICK n \in Nat : n = Len(dsApplied) /\ Len(dsApplied') = n + 1
              BY <4>1, <3>6
            <6>2. k \in 2 .. (n + 1) /\ k # n + 1
              BY <6>1, <4>3
            <6>3. k \in 2 .. n /\ k \in 1 .. n
              BY <6>2
            <6> QED BY <6>1, <6>3, <3>6
          <5>2. dsApplied[k][1] = dsApplied[k - 1][2]
            BY <5>1 DEF DsMigrateIInv, DsMigrated
          <5> QED BY <4>1, <5>1, <5>2, Zenon
        <4> QED BY <4>2, <4>3
      <3>9. dsApplied'[Len(dsApplied')][2] = dsVersion' /\ dsApplied' # <<>>
        <4>1. dsApplied'[Len(dsApplied')] = st
          BY <3>6, Zenon
        <4> QED BY <4>1, <3>6, <3>7
      <3>10. dsVersion' \in Nat /\ dsVersion' <= dsGoal /\ dsGoal \in Nat
        BY <3>7 DEF DsMigrateIInv
      <3>11. dsSteps' \in Seq(Nat \X Nat) /\ dsGoal' = dsGoal
        BY <3>3 DEF DsMigrateIInv
      <3>12. (dsEnd' = "busy" => dsVersion' < dsGoal') /\ dsEnd' # "no" /\ (dsEnd' = "returned" => dsVersion' = dsGoal')
        BY <3>3, <3>10
      <3> QED BY <3>6, <3>8, <3>9, <3>10, <3>11, <3>12, Zenon DEF DsMigrateIInv, DsMigrated
    <2> QED BY <2>1, <2>2
  <1> QED BY <1>1, <1>2, <1>3, <1>4 DEF DsMigrateNext

\* Entering a block of tenant n.
LEMMA DsBlocksEnter ==
  ASSUME NEW c, NEW s, NEW n, DsBlocks(c, s, n), NEW x \in DsTenants
  PROVE  DsBlocks(x, Append(s, c), Append(n, x)) /\ Append(s, c) \in Seq(DsTenants \cup {DsNo}) /\ Append(n, x) \in Seq(DsTenants)
  <1>1. PICK p \in Nat, q \in Nat : p = Len(s) /\ q = Len(n) /\ p <= q
    BY DEF DsBlocks
  <1>2. s \in Seq(DsTenants \cup {DsNo}) /\ n \in Seq(DsTenants) /\ c = IF q = 0 THEN DsNo ELSE n[q]
    BY <1>1 DEF DsBlocks, DsTop
  <1>3. c \in DsTenants \cup {DsNo}
    BY <1>1, <1>2
  <1>4. /\ Append(s, c) \in Seq(DsTenants \cup {DsNo}) /\ Len(Append(s, c)) = p + 1 /\ Append(s, c)[p + 1] = c
        /\ \A j \in 1 .. p : Append(s, c)[j] = s[j]
    BY <1>1, <1>2, <1>3
  <1>5. /\ Append(n, x) \in Seq(DsTenants) /\ Len(Append(n, x)) = q + 1 /\ Append(n, x)[q + 1] = x /\ Append(n, x) # <<>>
        /\ \A j \in 1 .. q : Append(n, x)[j] = n[j]
    <2>1. n \in Seq(DsTenants) /\ Len(n) = q /\ q \in Nat
      BY <1>1, <1>2
    <2>2. Append(n, x) \in Seq(DsTenants) /\ Len(Append(n, x)) = q + 1
      BY <2>1
    <2>3. Append(n, x)[q + 1] = x /\ \A j \in 1 .. q : Append(n, x)[j] = n[j]
      BY <2>1
    <2>4. Append(n, x) # <<>>
      BY <2>1, <2>2
    <2> QED BY <2>2, <2>3, <2>4
  <1>6. DsTop(Append(n, x)) = x
    BY <1>5, Zenon DEF DsTop
  <1> DEFINE t == Append(s, c)
             m == Append(n, x)
  <1>7. \A j \in 1 .. p + 1 : t[j] = IF q + 1 - (p + 1) + j = 1 THEN DsNo ELSE m[q + 1 - (p + 1) + j - 1]
    <2> TAKE j \in 1 .. p + 1
    <2>1. PICK k \in Int : k = q + 1 - (p + 1) + j /\ k = q - p + j /\ k >= 1 /\ k - 1 = q - p + j - 1
      BY <1>1
    <2>2. CASE j = p + 1
      <3>1. k = q + 1 /\ t[j] = c
        BY <2>1, <2>2, <1>1, <1>4
      <3>2. CASE q = 0
        BY <3>1, <3>2, <1>2, <2>1
      <3>3. CASE q # 0
        <4>1. k - 1 = q /\ q \in 1 .. q /\ k # 1
          BY <3>1, <3>3
        <4>2. m[q] = n[q]
          BY <4>1, <1>5
        <4>3. c = n[q]
          BY <1>2, <3>3, Zenon
        <4>4. q + 1 - (p + 1) + j # 1 /\ q + 1 - (p + 1) + j - 1 = q
          BY <2>1, <4>1
        <4> QED BY <3>1, <4>2, <4>3, <4>4, Zenon
      <3> QED BY <3>2, <3>3
    <2>3. CASE j # p + 1
      <3>1. j \in 1 .. p /\ t[j] = s[j]
        BY <2>3, <1>4
      <3>2. s[j] = IF k = 1 THEN DsNo ELSE n[k - 1]
        BY <3>1, <2>1, <1>1 DEF DsBlocks
      <3>3. k # 1 => k - 1 \in 1 .. q
        BY <3>1, <2>1, <1>1
      <3>4. k # 1 => m[k - 1] = n[k - 1]
        BY <3>3, <1>5
      <3> HIDE DEF t, m
      <3> QED BY <3>1, <3>2, <3>4, <2>1
    <2> QED BY <2>2, <2>3
  <1>8. Len(t) <= Len(m) /\ Len(t) = p + 1 /\ Len(m) = q + 1 /\ t \in Seq(DsTenants \cup {DsNo}) /\ m \in Seq(DsTenants) /\ x = DsTop(m)
    BY <1>1, <1>4, <1>5, <1>6
  <1> HIDE DEF t, m
  <1>9. DsBlocks(x, t, m)
    BY <1>7, <1>8 DEF DsBlocks
  <1> QED BY <1>8, <1>9 DEF t, m

\* Leaving a block: the token resets the context to the block around it.
LEMMA DsBlocksExit ==
  ASSUME NEW c, NEW s, NEW n, DsBlocks(c, s, n), s # <<>>
  PROVE  /\ DsBlocks(DsTop(s), SubSeq(s, 1, Len(s) - 1), SubSeq(n, 1, Len(n) - 1))
         /\ SubSeq(s, 1, Len(s) - 1) \in Seq(DsTenants \cup {DsNo}) /\ SubSeq(n, 1, Len(n) - 1) \in Seq(DsTenants)
  <1>1. PICK p \in Nat, q \in Nat : p = Len(s) /\ q = Len(n) /\ p <= q /\ p # 0
    BY DEF DsBlocks
  <1>2. s \in Seq(DsTenants \cup {DsNo}) /\ n \in Seq(DsTenants)
    BY DEF DsBlocks
  <1> DEFINE t == SubSeq(s, 1, p - 1)
             m == SubSeq(n, 1, q - 1)
  <1>3. t \in Seq(DsTenants \cup {DsNo}) /\ Len(t) = p - 1 /\ \A j \in 1 .. p - 1 : t[j] = s[j]
    BY <1>1, <1>2
  <1>4. m \in Seq(DsTenants) /\ Len(m) = q - 1 /\ \A j \in 1 .. q - 1 : m[j] = n[j]
    BY <1>1, <1>2
  <1> HIDE DEF t, m
  <1>5. DsTop(s) = IF q = 1 THEN DsNo ELSE n[q - 1]
    <2>1. p \in 1 .. Len(s) /\ q - p + p = q
      BY <1>1
    <2>2. s[p] = IF q = 1 THEN DsNo ELSE n[q - 1]
      BY SMTT(20), <2>1, <1>1 DEF DsBlocks
    <2> QED BY <2>2, <1>1 DEF DsTop
  <1>6. DsTop(m) = IF q = 1 THEN DsNo ELSE n[q - 1]
    <2>1. CASE q = 1
      BY <2>1, <1>4 DEF DsTop
    <2>2. CASE q # 1
      <3>1. q - 1 \in 1 .. q - 1 /\ m # <<>>
        BY <2>2, <1>1, <1>4
      <3> QED BY <3>1, <1>4, <2>2 DEF DsTop
    <2> QED BY <2>1, <2>2
  <1>7. \A j \in 1 .. p - 1 : t[j] = IF q - 1 - (p - 1) + j = 1 THEN DsNo ELSE m[q - 1 - (p - 1) + j - 1]
    <2> TAKE j \in 1 .. p - 1
    <2>1. PICK k \in Int : k = q - 1 - (p - 1) + j /\ k = q - p + j /\ k >= 1 /\ k <= q - 1
      BY SMTT(20), <1>1
    <2>2. j \in 1 .. p /\ t[j] = s[j]
      BY <1>1, <1>3
    <2>3. s[j] = IF k = 1 THEN DsNo ELSE n[k - 1]
      BY <2>2, <2>1, <1>1 DEF DsBlocks
    <2>4. k # 1 => k - 1 \in 1 .. q - 1
      BY <2>1, <1>1
    <2>5. k # 1 => m[k - 1] = n[k - 1]
      BY <2>4, <1>4
    <2> QED BY <2>1, <2>2, <2>3, <2>5
  <1>8. Len(t) <= Len(m)
    BY <1>1, <1>3, <1>4
  <1>9. DsBlocks(DsTop(s), t, m)
    <2>1. DsTop(s) = DsTop(m)
      BY <1>5, <1>6
    <2> QED BY <1>3, <1>4, <2>1, <1>7, <1>8 DEF DsBlocks
  <1> QED BY <1>1, <1>3, <1>4, <1>9 DEF t, m

\* A task is started in the block of its parent.
LEMMA DsBlocksSpawn ==
  ASSUME NEW c, NEW s, NEW n, DsBlocks(c, s, n)
  PROVE  LET m == IF n = <<>> THEN <<>> ELSE <<DsTop(n)>> IN DsBlocks(c, <<>>, m) /\ m \in Seq(DsTenants)
  BY DEF DsBlocks, DsTop

\* Every operation goes to the partition of the block it runs in.
LEMMA DsResolved ==
  ASSUME NEW t \in DsTasks, DsTenantIInv, NEW n \in DsTenants \cup {DsNo}, DsResolve(t, n) # DsNo
  PROVE  DsResolve(t, n) \in DsTenants /\ DsResolve(t, n) = DsFor(t, n)
  <1>1. DsBlocks(dsCtx[t], dsStack[t], dsNest[t])
    BY DEF DsTenantIInv
  <1>2. dsCtx[t] = DsTop(dsNest[t]) /\ (dsNest[t] # <<>> => DsTop(dsNest[t]) \in DsTenants)
    BY <1>1 DEF DsBlocks, DsTop
  <1>3. dsNest[t] = <<>> => dsCtx[t] = DsNo
    BY <1>2 DEF DsTop
  <1> QED BY <1>2, <1>3, DsTenantsAssumption, Zenon DEF DsResolve, DsFor

\* Blocks, tasks and the operations on the partitions.
LEMMA DsTenantStep == DsTenantIInv /\ (DsTenantNext \/ UNCHANGED dsTenantVars) => DsTenantIInv'
  <1> SUFFICES ASSUME DsTenantIInv, DsTenantNext \/ UNCHANGED dsTenantVars PROVE DsTenantIInv'
    OBVIOUS
  <1>1. CASE UNCHANGED dsTenantVars
    BY <1>1 DEF DsTenantIInv, dsTenantVars
  <1>2. ASSUME NEW t \in DsTasks, NEW x \in DsTenants, DsEnter(t, x) PROVE DsTenantIInv'
    <2>1. DsBlocks(dsCtx[t], dsStack[t], dsNest[t])
      BY DEF DsTenantIInv
    <2>2. PICK s \in Seq(DsTenants \cup {DsNo}), m \in Seq(DsTenants) : s = Append(dsStack[t], dsCtx[t]) /\ m = Append(dsNest[t], x) /\ DsBlocks(x, s, m)
      BY <2>1, DsBlocksEnter
    <2>3. dsStack' = [dsStack EXCEPT ![t] = s] /\ dsCtx' = [dsCtx EXCEPT ![t] = x] /\ dsNest' = [dsNest EXCEPT ![t] = m] /\ dsRows' = dsRows /\ dsWrong' = dsWrong
      BY <1>2, <2>2 DEF DsEnter, DsSet
    <2> QED BY <2>2, <2>3 DEF DsTenantIInv
  <1>3. ASSUME NEW t \in DsTasks, DsExit(t) PROVE DsTenantIInv'
    <2>1. DsBlocks(dsCtx[t], dsStack[t], dsNest[t]) /\ dsStack[t] # <<>>
      BY <1>3 DEF DsTenantIInv, DsExit
    <2>2. PICK s \in Seq(DsTenants \cup {DsNo}), m \in Seq(DsTenants) :
             s = SubSeq(dsStack[t], 1, Len(dsStack[t]) - 1) /\ m = SubSeq(dsNest[t], 1, Len(dsNest[t]) - 1) /\ DsBlocks(DsTop(dsStack[t]), s, m)
      BY <2>1, DsBlocksExit
    <2>3. PICK x \in DsTenants \cup {DsNo} : x = DsTop(dsStack[t])
      BY <2>1 DEF DsBlocks, DsTop
    <2>4. dsStack' = [dsStack EXCEPT ![t] = s] /\ dsCtx' = [dsCtx EXCEPT ![t] = x] /\ dsNest' = [dsNest EXCEPT ![t] = m] /\ dsRows' = dsRows /\ dsWrong' = dsWrong
      BY <1>3, <2>2, <2>3 DEF DsExit, DsSet
    <2> QED BY <2>2, <2>3, <2>4 DEF DsTenantIInv
  <1>4. ASSUME NEW t \in DsTasks, NEW u \in DsTasks, DsSpawn(t, u) PROVE DsTenantIInv'
    <2>1. DsBlocks(dsCtx[t], dsStack[t], dsNest[t])
      BY DEF DsTenantIInv
    <2>2. PICK m \in Seq(DsTenants) : m = (IF dsNest[t] = <<>> THEN <<>> ELSE <<DsTop(dsNest[t])>>) /\ DsBlocks(dsCtx[t], <<>>, m)
      BY <2>1, DsBlocksSpawn
    <2>3. dsStack' = dsStack /\ dsStack[u] = <<>> /\ dsCtx' = [dsCtx EXCEPT ![u] = dsCtx[t]] /\ dsNest' = [dsNest EXCEPT ![u] = m] /\ dsRows' = dsRows /\ dsWrong' = dsWrong
      BY <1>4, <2>2 DEF DsSpawn
    <2> QED BY <2>2, <2>3 DEF DsTenantIInv
  <1>5. ASSUME NEW t \in DsTasks, NEW n \in DsTenants \cup {DsNo}, NEW op \in {"add", "get", "purge"}, DsAccess(t, n, op) PROVE DsTenantIInv'
    <2>1. PICK p \in DsTenants : p = DsResolve(t, n) /\ p = DsFor(t, n)
      BY <1>5, DsResolved DEF DsAccess
    <2>2. PICK r : r = (CASE op = "add" -> dsRows[p] \cup {p} [] op = "purge" -> {} [] op = "get" -> dsRows[p])
      OBVIOUS
    <2>3. r \subseteq {p} /\ r \in SUBSET DsTenants
      BY <2>2 DEF DsTenantIInv
    <2>4. dsRows' = [dsRows EXCEPT ![p] = r]
      BY <1>5, <2>1, <2>2 DEF DsAccess
    <2>5. dsWrong' = FALSE
      BY <1>5, <2>1, Zenon DEF DsAccess, DsTenantIInv
    <2>6. dsCtx' = dsCtx /\ dsStack' = dsStack /\ dsNest' = dsNest
      BY <1>5 DEF DsAccess
    <2> QED BY <2>3, <2>4, <2>5, <2>6 DEF DsTenantIInv
  <1> QED BY <1>1, <1>2, <1>3, <1>4, <1>5 DEF DsTenantNext

\* A job that ends, however it ends, leaves the archives as they are.
LEMMA DsIdleInv ==
  ASSUME DsBackupIInv, DsIdle, dsLive' = dsLive, dsMain' = dsMain, dsAgain' = dsAgain,
         \A i \in DOMAIN dsSide' \ dsAgain : i \in DOMAIN dsArch' /\ DsMatches(dsArch'[i], dsSide'[i]),
         \A i \in DOMAIN dsArch' : DsSound(dsArch'[i]),
         dsDied' \/ "drill" \notin DOMAIN dsArch' \cup DOMAIN dsSide'
  PROVE  DsBackupIInv'
  <1>1. dsJob' = "idle" /\ dsStaged' \in [DsFiles -> Nat] /\ dsSince' \in [DsFiles -> Nat]
    BY DEF DsIdle, DsNothing, DsNo
  <1> QED BY <1>1 DEF DsBackupIInv, DsCreating, DsMatches, DsSound

\* DsFinish restricts the archives and the sidecars to the same names.
LEMMA DsFinishInv ==
  ASSUME DsBackupIInv, DsFinish, dsLive' = dsLive, dsMain' = dsMain, dsAgain' = dsAgain, dsDied' = dsDied, dsJob # "idle"
  PROVE  DsBackupIInv'
  <1>1. PICK gone : gone = (IF dsDrill THEN {"drill"} ELSE {})
    OBVIOUS
  <1>2. DsIdle /\ dsArch' = [i \in DOMAIN dsArch \ gone |-> dsArch[i]] /\ dsSide' = [i \in DOMAIN dsSide \ gone |-> dsSide[i]]
    BY <1>1 DEF DsFinish, DsDrops
  <1>3. DOMAIN dsArch' = DOMAIN dsArch \ gone /\ DOMAIN dsSide' = DOMAIN dsSide \ gone
    BY <1>2
  <1>4. /\ \A i \in DOMAIN dsArch' : dsArch'[i] = dsArch[i] /\ i \in DOMAIN dsArch
        /\ \A i \in DOMAIN dsSide' : dsSide'[i] = dsSide[i] /\ i \in DOMAIN dsSide
    BY <1>2
  <1>5. \A i \in DOMAIN dsSide' \ dsAgain : i \in DOMAIN dsArch' /\ DsMatches(dsArch'[i], dsSide'[i])
    BY <1>3, <1>4, Zenon DEF DsBackupIInv
  <1>6. \A i \in DOMAIN dsArch' : DsSound(dsArch'[i])
    BY <1>4, Zenon DEF DsBackupIInv
  <1>7. dsDied' \/ "drill" \notin DOMAIN dsArch' \cup DOMAIN dsSide'
    BY <1>1, <1>3 DEF DsBackupIInv
  <1> QED BY <1>2, <1>5, <1>6, <1>7, DsIdleInv

\* create_backup, restore_backup, the drill, their crashes, and the writers beside them.
LEMMA DsBackupStep == DsBackupIInv /\ (DsBackupNext \/ UNCHANGED dsBackupVars) => DsBackupIInv'
  <1> SUFFICES ASSUME DsBackupIInv, DsBackupNext \/ UNCHANGED dsBackupVars PROVE DsBackupIInv'
    OBVIOUS
  <1>1. CASE UNCHANGED dsBackupVars
    BY <1>1 DEF DsBackupIInv, dsBackupVars, DsCreating, DsMatches, DsSound
  <1>2. ASSUME NEW f \in DsFiles, DsWrite(f) PROVE DsBackupIInv'
    <2>1. dsLive' \in [DsFiles -> Nat] /\ \A g \in DsFiles : dsLive'[g] >= dsLive[g] /\ dsLive[g] \in Nat /\ dsLive'[g] \in Nat /\ dsSince[g] \in Nat
      BY <1>2 DEF DsWrite, DsBackupIInv
    <2>2. \A g \in DsFiles : dsLive[g] >= dsSince[g] => dsLive'[g] >= dsSince[g]
      BY <2>1
    <2> QED BY <1>2, <2>1, <2>2 DEF DsWrite, DsBackupIInv, DsCreating, DsMatches, DsSound
  <1>3. ASSUME NEW f \in DsFiles, DsExtract(f) PROVE DsBackupIInv'
    BY <1>3 DEF DsExtract, DsBackupIInv, DsCreating, DsMatches, DsSound
  <1>4. ASSUME NEW f \in DsFiles, NEW api \in BOOLEAN, DsStage(f, api) PROVE DsBackupIInv'
    <2>1. PICK v \in Nat : v = IF f = "db" THEN (IF api THEN DsBackupSqlite ELSE dsMain) ELSE dsLive[f]
      BY DEF DsBackupIInv, DsBackupSqlite, DsFiles
    <2>2. dsStaged' = [dsStaged EXCEPT ![f] = v] /\ dsJob = "stage" /\ (f = "log" => api) /\ dsCopied' = (dsCopied \/ ~api)
      BY <1>4, <2>1 DEF DsStage
    <2>3. ~dsCopied' => api /\ ~dsCopied
      BY <2>2, Zenon
    <2>4. ~dsCopied' => \A g \in DsFiles : dsStaged'[g] # DsNo => dsStaged'[g] >= dsSince[g]
      <3>1. api => v = dsLive[f]
        BY <2>1 DEF DsFiles, DsBackupSqlite
      <3>2. v >= dsSince[f] \/ ~api
        BY <3>1, <2>2 DEF DsBackupIInv, DsCreating
      <3> QED BY <2>2, <2>3, <3>2 DEF DsBackupIInv, DsCreating
    <2>5. dsStaged' \in [DsFiles -> Nat]
      BY <2>2 DEF DsBackupIInv
    <2> QED BY <1>4, <2>2, <2>4, <2>5 DEF DsStage, DsBackupIInv, DsCreating, DsMatches, DsSound
  <1>5. CASE DsWalCheckpoint
    BY <1>5 DEF DsWalCheckpoint, DsBackupIInv, DsCreating, DsMatches, DsSound, DsFiles
  <1>6. CASE DsPack
    <2>1. DsSound(DsNone)
      BY DEF DsSound, DsNone
    <2>2. /\ dsArch' = [i \in DOMAIN dsArch \cup {dsId} |-> IF i = dsId THEN DsNone ELSE dsArch[i]]
          /\ dsSide' = dsSide /\ dsJob = "stage" /\ dsJob' = "pack"
      BY <1>6 DEF DsPack, DsSeals
    <2>3. DOMAIN dsArch' = DOMAIN dsArch \cup {dsId} /\ dsArch'[dsId] = DsNone /\ \A i \in DOMAIN dsArch : i # dsId => dsArch'[i] = dsArch[i]
      BY <2>2
    <2>4. \A i \in DOMAIN dsArch' : DsSound(dsArch'[i])
      BY <2>1, <2>3 DEF DsBackupIInv
    <2>5. \A i \in DOMAIN dsSide' \ dsAgain : i \in DOMAIN dsArch' /\ DsMatches(dsArch'[i], dsSide'[i])
      BY <2>2, <2>3 DEF DsBackupIInv, DsCreating
    <2>6. dsId = "drill" => dsDrill
      BY <2>2 DEF DsBackupIInv, DsCreating
    <2>7. ~dsDied /\ "drill" \in DOMAIN dsArch' \cup DOMAIN dsSide' => dsDrill
      BY <2>2, <2>3, <2>6 DEF DsBackupIInv
    <2> QED BY <1>6, <2>2, <2>3, <2>4, <2>5, <2>7 DEF DsPack, DsBackupIInv, DsCreating
  <1>7. CASE DsPacked
    <2> DEFINE r == [whole |-> TRUE, data |-> dsStaged, since |-> dsSince, copied |-> dsCopied]
    <2>1. DsMatches(r, dsStaged)
      BY DEF DsMatches
    <2>2. dsJob = "pack" /\ dsJob' = "seal" /\ dsArch' = [dsArch EXCEPT ![dsId] = r] /\ dsId \in DOMAIN dsArch /\ dsStaged' = dsStaged /\ dsSide' = dsSide /\ dsAgain' = dsAgain
      BY <1>7 DEF DsPacked, DsBackupIInv
    <2>3. DsSound(r)
      <3>1. ~dsCopied => \A f \in DsFiles : dsStaged[f] # DsNo => dsStaged[f] >= dsSince[f]
        BY <2>2 DEF DsBackupIInv, DsCreating
      <3>2. r.copied = dsCopied /\ r.data = dsStaged /\ r.since = dsSince
        OBVIOUS
      <3> HIDE DEF r
      <3> QED BY <3>1, <3>2, Zenon DEF DsSound
    <2> HIDE DEF r
    <2>4. DOMAIN dsArch' = DOMAIN dsArch /\ dsArch'[dsId] = r /\ \A i \in DOMAIN dsArch : i # dsId => dsArch'[i] = dsArch[i]
      BY <2>2
    <2>5. \A i \in DOMAIN dsArch' : DsSound(dsArch'[i])
      BY <2>3, <2>4 DEF DsBackupIInv
    <2>6. \A i \in DOMAIN dsSide' \ dsAgain' : i \in DOMAIN dsArch' /\ DsMatches(dsArch'[i], dsSide'[i])
      BY <2>2, <2>4 DEF DsBackupIInv, DsCreating
    <2> QED BY <1>7, <2>1, <2>2, <2>4, <2>5, <2>6 DEF DsPacked, DsBackupIInv, DsCreating
  <1>8. CASE DsSeal
    <2>1. /\ dsJob = "seal" /\ dsSide' = [i \in DOMAIN dsSide \cup {dsId} |-> IF i = dsId THEN dsStaged ELSE dsSide[i]]
          /\ dsArch' = dsArch /\ dsAgain' = dsAgain /\ dsLive' = dsLive /\ dsMain' = dsMain /\ dsDied' = dsDied
      BY <1>8 DEF DsSeal
    <2>2. DOMAIN dsSide' = DOMAIN dsSide \cup {dsId} /\ dsSide'[dsId] = dsStaged /\ \A i \in DOMAIN dsSide : i # dsId => dsSide'[i] = dsSide[i]
      BY <2>1
    <2>3. dsId \in DOMAIN dsArch /\ DsMatches(dsArch[dsId], dsStaged)
      BY <2>1 DEF DsBackupIInv
    <2>4. \A i \in DOMAIN dsSide' \ dsAgain : i \in DOMAIN dsArch' /\ DsMatches(dsArch'[i], dsSide'[i])
      BY <2>1, <2>2, <2>3 DEF DsBackupIInv
    <2>5. \A i \in DOMAIN dsArch' : DsSound(dsArch'[i])
      BY <2>1 DEF DsBackupIInv
    <2>6. CASE dsDrill
      <3>1. dsJob' = "restore" /\ UNCHANGED <<dsId, dsWith, dsStaged, dsSince, dsTarget, dsCopied, dsDrill>>
        BY <1>8, <2>6 DEF DsSeal
      <3> QED BY <2>1, <2>4, <2>5, <2>6, <3>1 DEF DsBackupIInv, DsCreating
    <2>7. CASE ~dsDrill
      <3>1. DsIdle
        BY <1>8, <2>7 DEF DsSeal
      <3>2. dsDied' \/ "drill" \notin DOMAIN dsArch' \cup DOMAIN dsSide'
        BY <2>1, <2>2, <2>7 DEF DsBackupIInv, DsCreating
      <3> QED BY <3>1, <3>2, <2>1, <2>4, <2>5, DsIdleInv
    <2> QED BY <2>6, <2>7
  <1>9. CASE DsOpens
    <2>1. CASE DsRefuses(dsId)
      BY <1>9, <2>1, DsFinishInv DEF DsOpens
    <2>2. CASE ~DsRefuses(dsId)
      BY <1>9, <2>2 DEF DsOpens, DsBackupIInv, DsCreating, DsMatches, DsSound
    <2> QED BY <2>1, <2>2
  <1>10. CASE DsVerified
    BY <1>10, DsFinishInv DEF DsVerified
  <1>11. CASE DsDies
    <2>1. \A i \in DOMAIN dsSide' \ dsAgain : i \in DOMAIN dsArch' /\ DsMatches(dsArch'[i], dsSide'[i])
      BY <1>11 DEF DsDies, DsBackupIInv
    <2>2. \A i \in DOMAIN dsArch' : DsSound(dsArch'[i])
      BY <1>11 DEF DsDies, DsBackupIInv
    <2> QED BY <1>11, <2>1, <2>2, DsIdleInv DEF DsDies
  <1>12. ASSUME NEW id \in DsIds, NEW logs \in BOOLEAN, DsCreate(id, logs) PROVE DsBackupIInv'
    <2>1. /\ dsJob = "idle" /\ dsJob' = "stage" /\ dsId' = id /\ dsStaged' = DsNothing /\ dsSince' = dsLive /\ dsDrill' = (id = "drill")
          /\ dsAgain' = (IF id \in DOMAIN dsArch \cup DOMAIN dsSide THEN dsAgain \cup {id} ELSE dsAgain)
          /\ UNCHANGED <<dsLive, dsMain, dsArch, dsSide, dsTarget, dsForce, dsDied>>
      BY <1>12 DEF DsCreate
    <2>2. dsStaged' \in [DsFiles -> Nat] /\ \A f \in DsFiles : dsStaged'[f] = DsNo
      BY <2>1 DEF DsNothing, DsNo
    <2>3. \A i \in DOMAIN dsSide' \ dsAgain' : i \in DOMAIN dsArch' /\ DsMatches(dsArch'[i], dsSide'[i])
      BY <2>1 DEF DsBackupIInv
    <2>4. \A i \in DOMAIN dsArch' : DsSound(dsArch'[i])
      BY <2>1 DEF DsBackupIInv
    <2>5. \A f \in DsFiles : dsLive[f] >= dsLive[f]
      BY DEF DsBackupIInv
    <2>6. dsDrill' <=> dsId' = "drill"
      BY <2>1, Zenon
    <2>7. ~dsDied' => "drill" \notin DOMAIN dsArch' \cup DOMAIN dsSide'
      BY <2>1 DEF DsBackupIInv
    <2>8. dsId' \in DOMAIN dsSide' => dsId' \in dsAgain'
      BY <2>1
    <2> QED BY <2>1, <2>2, <2>3, <2>4, <2>5, <2>6, <2>7, <2>8 DEF DsBackupIInv, DsCreating
  <1>13. ASSUME NEW force \in BOOLEAN, NEW there \in SUBSET DsFiles, DsRestore("named", force, there) PROVE DsBackupIInv'
    BY <1>13 DEF DsRestore, DsBackupIInv, DsCreating, DsMatches, DsSound
  <1> QED BY <1>1, <1>2, <1>3, <1>4, <1>5, <1>6, <1>7, <1>8, <1>9, <1>10, <1>11, <1>12, <1>13 DEF DsBackupNext

\* Every step keeps the invariant of the stores.
LEMMA DsStepInv == DsIInv /\ [DsNext]_dsVars => DsIInv'
  BY DsModeSteps, DsBackupStep, DsTenantStep, DsStateStep, DsMigrateStep DEF DsIInv

\* What it says about backups, partitions, the state file and migrations.
LEMMA DsInvImplies ==
  DsIInv => DsListedWhole /\ DsCommittedKept /\ DsDrillCleansUp /\ DsOwnPartition /\ DsFileFollows /\ DsMigrated
  <1> SUFFICES ASSUME DsIInv PROVE DsListedWhole /\ DsCommittedKept /\ DsDrillCleansUp /\ DsOwnPartition /\ DsFileFollows /\ DsMigrated
    OBVIOUS
  <1>1. DsListedWhole
    BY Zenon DEF DsIInv, DsBackupIInv, DsListedWhole, DsMatches
  <1>2. DsCommittedKept
    BY Zenon DEF DsIInv, DsBackupIInv, DsCommittedKept, DsSound
  <1>3. DsDrillCleansUp
    BY DEF DsIInv, DsBackupIInv, DsDrillCleansUp
  <1>4. DsOwnPartition
    BY DEF DsIInv, DsTenantIInv, DsOwnPartition
  <1>5. DsFileFollows /\ DsMigrated
    BY DEF DsIInv, DsStateIInv, DsMigrateIInv, DsFileFollows
  <1> QED BY <1>1, <1>2, <1>3, <1>4, <1>5

-----------------------------------------------------------------------------
(* MochatInbox: the events of a session. *)

\* A payload is about events the server has, and not far behind.
InboxFresh(p, log) == p \in Payloads /\ p.from <= p.to /\ p.to <= log /\ log <= p.from + 1 + Lag

\* The ids in the order they were taken in: each once, and no event was much newer than the next.
InboxQueue(q, log) ==
    /\ q \in Seq(Events)
    /\ \A i \in DOMAIN q : q[i] <= log
    /\ \A i, j \in DOMAIN q : i < j => q[i] # q[j] /\ q[i] <= q[j] + Lag

\* One of the first n payloads of the socket has event e.
InboxBrings(s, n, e) == \E i \in 1 .. n : s[i].kind = "watch" /\ e \in s[i].from + 1 .. s[i].to

\* Every event before a payload was taken in or comes before it; so was or does every event that was sent.
InboxGapless(s, ever) ==
    \A j \in DOMAIN s : s[j].kind = "watch" => \A e \in Events : e <= s[j].from => e \in ever \/ InboxBrings(s, j - 1, e)
InboxSent(s, ever, sub) == \A e \in Events : e <= sub => e \in ever \/ InboxBrings(s, Len(s), e)

\* What left the window is older than anything a payload under way has.
InboxForgotten(got, q, log) == \A e \in Events : got[e] >= 1 => (\E i \in DOMAIN q : q[i] = e) \/ e + Lag < log

InboxIInv ==
    /\ InboxTypeOK /\ DispatchedOnce /\ FileNeverAhead
    /\ \A j \in DOMAIN ibSocket : InboxFresh(ibSocket[j], ibLog)
    /\ ibHttp # NoAnswer => InboxFresh(ibHttp, ibLog) /\ \A e \in Events : e <= ibHttp.from => e \in ibEver
    /\ ibSub # Absent => ibLog <= ibSub + Lag
    /\ InboxQueue(ibSeen, ibLog)
    /\ \A i \in DOMAIN ibSeen : ibSeen[i] \in ibEver
    /\ InboxForgotten(ibGot, ibSeen, ibLog)
    /\ \A e \in Events : e <= ibCursor => e \in ibEver
    /\ InboxGapless(ibSocket, ibEver)
    /\ InboxSent(ibSocket, ibEver, ibSub)

\* The inbox starts empty.
LEMMA InboxInitInv == InboxInit => InboxIInv
  <1> SUFFICES ASSUME InboxInit PROVE InboxIInv
    OBVIOUS
  <1>1. InboxTypeOK
    <2>1. ibSeen \in Seq(Events) /\ Len(ibSeen) <= Window /\ ibSocket \in Seq(Payloads)
      BY InboxAssumption DEF InboxInit
    <2>2. ibGot \in [Events -> Nat] /\ ibEver \subseteq Events
      BY DEF InboxInit
    <2>3. ibLog \in 0 .. MaxEvents /\ ibRestarts \in 0 .. MaxRestarts
      BY InboxAssumption DEF InboxInit
    <2> QED BY <2>1, <2>2, <2>3 DEF InboxInit, InboxTypeOK
  <1>2. DispatchedOnce /\ FileNeverAhead
    BY DEF InboxInit, DispatchedOnce, FileNeverAhead, Absent, Events
  <1>3. InboxQueue(ibSeen, ibLog) /\ InboxGapless(ibSocket, ibEver)
    BY DEF InboxInit, InboxQueue, InboxGapless
  <1>4. \A e \in Events : ~(e <= Absent) /\ ibGot[e] = 0
    BY DEF InboxInit, Absent, Events
  <1>5. InboxForgotten(ibGot, ibSeen, ibLog) /\ InboxSent(ibSocket, ibEver, ibSub)
    BY <1>4 DEF InboxInit, InboxForgotten, InboxSent
  <1> QED BY <1>1, <1>2, <1>3, <1>4, <1>5 DEF InboxIInv, InboxInit

\* An id that has Window newer ones behind it in the queue is more than Lag events old.
LEMMA InboxEvicted ==
  ASSUME NEW z, NEW log \in Nat, InboxQueue(z, log), NEW i \in DOMAIN z, Len(z) - i >= Window
  PROVE  z[i] + Lag < log
  <1>1. Window \in Nat /\ Lag \in Nat /\ 2 * Lag < Window
    BY InboxAssumption
  <1>2. z \in Seq(Events) /\ Len(z) \in Nat /\ DOMAIN z = 1 .. Len(z) /\ i \in Nat /\ i >= 1 /\ i <= Len(z)
    BY DEF InboxQueue
  <1>3. PICK e \in Nat : e = z[i] /\ e <= log
    BY <1>2, InboxAssumption DEF InboxQueue, Events
  <1> DEFINE J == (i + 1) .. Len(z)
             T == ((e - Lag) .. log) \ {e}
             f == [j \in J |-> z[j]]
  <1>4. \A j \in J : j \in DOMAIN z /\ i < j
    BY <1>2
  <1>5. \A j \in J : z[j] \in T
    <2> TAKE j \in J
    <2>1. z[j] \in Nat /\ z[j] <= log /\ e # z[j] /\ e <= z[j] + Lag
      <3>1. j \in DOMAIN z /\ i < j
        BY <1>4
      <3>2. z[j] <= log /\ z[i] # z[j] /\ z[i] <= z[j] + Lag
        BY <3>1 DEF InboxQueue
      <3>3. z[j] \in Nat
        BY <3>1, <1>2, InboxAssumption DEF Events
      <3> QED BY <3>2, <3>3, <1>3
    <2> QED BY <2>1, <1>1, <1>3
  <1>6. \A j, k \in J : j # k => z[j] # z[k]
    <2> TAKE j, k \in J
    <2>1. j \in DOMAIN z /\ k \in DOMAIN z /\ j \in Int /\ k \in Int /\ i < j /\ i < k
      BY <1>4
    <2> QED BY <2>1 DEF InboxQueue
  <1>7. f \in Injection(J, T)
    <2> HIDE DEF T, J
    <2> QED BY <1>5, <1>6, Zenon DEF Injection, IsInjective
  <1>8. IsFiniteSet((e - Lag) .. log) /\ Cardinality((e - Lag) .. log) = log - (e - Lag) + 1
    <2>1. e - Lag \in Int /\ log \in Int /\ ~(e - Lag > log)
      BY <1>1, <1>3
    <2> QED BY <2>1, FS_Interval
  <1>9. IsFiniteSet(T) /\ Cardinality(T) = log - (e - Lag) + 1 - 1
    <2>1. e \in (e - Lag) .. log
      BY <1>1, <1>3
    <2> DEFINE I == (e - Lag) .. log
    <2>2. e \in I /\ IsFiniteSet(I) /\ Cardinality(I) = log - (e - Lag) + 1
      BY <2>1, <1>8
    <2> HIDE DEF I
    <2>3. IsFiniteSet(I \ {e}) /\ Cardinality(I \ {e}) = Cardinality(I) - 1
      BY <2>2, FS_RemoveElement
    <2>4. T = I \ {e}
      BY DEF I
    <2> HIDE DEF T
    <2>5. IsFiniteSet(T)
      BY <2>3, <2>4, Zenon
    <2>6. Cardinality(T) = Cardinality(I) - 1
      BY <2>3, <2>4, Zenon
    <2>7. Cardinality(T) = log - (e - Lag) + 1 - 1
      BY <1>1, <1>3, <2>2, <2>6
    <2> QED BY <2>5, <2>7, Zenon
  <1>10. Cardinality(J) = Len(z) - i
    <2>1. i + 1 \in Int /\ Len(z) \in Int
      BY <1>2
    <2>2. Cardinality(J) = IF i + 1 > Len(z) THEN 0 ELSE Len(z) - (i + 1) + 1
      BY <2>1, FS_Interval
    <2> QED BY <2>2, <1>2
  <1> HIDE DEF J, T, f
  <1>11. Cardinality(J) <= Cardinality(T)
    BY <1>7, <1>9, FS_Injection
  <1> QED BY <1>1, <1>2, <1>3, <1>9, <1>10, <1>11

\* LastSeen drops ids from the front, and only as many as the window requires.
LEMMA InboxLast ==
  ASSUME NEW z \in Seq(Events)
  PROVE  \E d \in Nat :
            /\ d <= Len(z) /\ (d # 0 => Len(z) - d = Window)
            /\ LastSeen(z) \in Seq(Events) /\ Len(LastSeen(z)) = Len(z) - d /\ Len(z) - d <= Window
            /\ \A k \in 1 .. Len(z) - d : LastSeen(z)[k] = z[k + d]
  <1>1. Window \in Nat /\ Len(z) \in Nat
    BY InboxAssumption
  <1>2. CASE Len(z) > Window
    <2> DEFINE d == Len(z) - Window
    <2>1. d \in Nat /\ d <= Len(z) /\ Len(z) - d = Window
      BY <1>1, <1>2
    <2>2. LastSeen(z) = SubSeq(z, d + 1, Len(z))
      BY <1>2, <1>1 DEF LastSeen
    <2> HIDE DEF d
    <2>3. LastSeen(z) \in Seq(Events) /\ Len(LastSeen(z)) = Len(z) - d /\ \A k \in 1 .. Len(z) - d : LastSeen(z)[k] = z[k + d]
      BY <2>1, <2>2, <1>1
    <2>4. d <= Len(z) /\ (d # 0 => Len(z) - d = Window) /\ Len(z) - d <= Window
      BY <2>1, <1>1
    <2> d \in Nat
      BY <2>1
    <2> WITNESS d \in Nat
    <2> QED BY <2>3, <2>4
  <1>3. CASE ~(Len(z) > Window)
    <2>1. LastSeen(z) = SubSeq(z, 1, Len(z))
      BY <1>3 DEF LastSeen
    <2>2. LastSeen(z) \in Seq(Events) /\ Len(LastSeen(z)) = Len(z) /\ \A k \in 1 .. Len(z) : LastSeen(z)[k] = z[k]
      BY <2>1, <1>1
    <2> WITNESS 0 \in Nat
    <2> QED BY <2>2, <1>1, <1>3
  <1> QED BY <1>2, <1>3

\* Ids of new events join a queue of older ones.
LEMMA InboxJoin ==
  ASSUME NEW q, NEW log \in Nat, InboxQueue(q, log), NEW S \in SUBSET Events, NEW r \in InOrder(S),
         \A e \in S : e <= log /\ log <= e + Lag /\ \A i \in DOMAIN q : q[i] # e
  PROVE  /\ InboxQueue(q \o r, log)
         /\ \A e \in S : \E i \in DOMAIN (q \o r) : (q \o r)[i] = e
         /\ \A i \in DOMAIN q : i \in DOMAIN (q \o r) /\ (q \o r)[i] = q[i]
         /\ \A i \in DOMAIN (q \o r) : i \in DOMAIN q \/ (q \o r)[i] \in S
  <1>1. IsFiniteSet(Events)
    BY FS_Interval, InboxAssumption DEF Events
  <1>2. PICK n \in Nat : n = Cardinality(S)
    BY <1>1, FS_Subset, FS_CardinalityType
  <1>3. /\ r \in [1 .. n -> S] /\ \A i, j \in 1 .. n : i < j => r[i] < r[j]
        /\ \A e \in S : \E i \in 1 .. n : r[i] = e
    BY <1>2 DEF InOrder
  <1>4. r \in Seq(Events) /\ Len(r) = n
    <2>1. r \in [1 .. n -> Events]
      BY <1>3
    <2> QED BY <2>1
  <1>5. PICK m \in Nat : m = Len(q) /\ q \in Seq(Events) /\ DOMAIN q = 1 .. m
    BY DEF InboxQueue
  <1> DEFINE z == q \o r
  <1>6. z \in Seq(Events) /\ Len(z) = m + n /\ DOMAIN z = 1 .. m + n
    BY <1>4, <1>5
  <1>7. (\A i \in 1 .. m : z[i] = q[i]) /\ \A i \in m + 1 .. m + n : z[i] = r[i - m]
    BY <1>4, <1>5
  <1> HIDE DEF z
  <1>8. \A i \in 1 .. m + n : i \in 1 .. m \/ (i \in m + 1 .. m + n /\ i - m \in 1 .. n)
    OBVIOUS
  <1>9. \A i \in DOMAIN z : i \in 1 .. m \/ (z[i] \in S /\ z[i] = r[i - m] /\ i - m \in 1 .. n)
    <2> TAKE i \in DOMAIN z
    <2>1. CASE i \in 1 .. m
      BY <2>1
    <2>2. CASE i \in m + 1 .. m + n /\ i - m \in 1 .. n
      BY <2>2, <1>3, <1>7
    <2> QED BY <2>1, <2>2, <1>6, <1>8
  <1>10. \A i \in DOMAIN z : z[i] <= log
    BY <1>5, <1>7, <1>9 DEF InboxQueue
  <1>11. \A i, j \in DOMAIN z : i < j => z[i] # z[j] /\ z[i] <= z[j] + Lag
    <2> SUFFICES ASSUME NEW i \in DOMAIN z, NEW j \in DOMAIN z, i < j PROVE z[i] # z[j] /\ z[i] <= z[j] + Lag
      OBVIOUS
    <2>1. i \in Int /\ j \in Int /\ z[i] \in Nat /\ z[j] \in Nat /\ z[i] <= log /\ Lag \in Nat
      BY <1>6, <1>10, InboxAssumption DEF Events
    <2>2. CASE j \in 1 .. m
      <3>1. i \in 1 .. m
        BY <2>2, <1>6
      <3> QED BY <3>1, <2>2, <1>5, <1>7 DEF InboxQueue
    <2>3. CASE j \notin 1 .. m
      <3>1. z[j] \in S /\ z[j] = r[j - m] /\ j - m \in 1 .. n
        BY <2>3, <1>9
      <3>2. CASE i \in 1 .. m
        <4>1. z[i] = q[i] /\ i \in DOMAIN q
          BY <3>2, <1>5, <1>7
        <4>2. q[i] # z[j] /\ log <= z[j] + Lag
          BY <3>1, <4>1
        <4> QED BY <4>1, <4>2, <2>1
      <3>3. CASE i \notin 1 .. m
        <4>1. z[i] = r[i - m] /\ i - m \in 1 .. n
          BY <3>3, <1>9
        <4>2. i - m < j - m
          BY <2>1
        <4>3. r[i - m] < r[j - m]
          BY <4>1, <4>2, <3>1, <1>3
        <4> QED BY <4>1, <4>3, <3>1, <2>1
      <3> QED BY <3>2, <3>3
    <2> QED BY <2>2, <2>3
  <1>12. \A e \in S : \E i \in DOMAIN z : z[i] = e
    <2> TAKE e \in S
    <2>1. PICK k \in 1 .. n : r[k] = e
      BY <1>3
    <2>2. k + m \in m + 1 .. m + n /\ k + m \in 1 .. m + n /\ k + m - m = k
      OBVIOUS
    <2>3. z[k + m] = r[k + m - m]
      BY <2>2, <1>7
    <2>4. z[k + m] = e /\ k + m \in DOMAIN z
      BY <2>1, <2>2, <2>3, <1>6
    <2> QED BY <2>4
  <1>13. InboxQueue(z, log)
    BY <1>6, <1>10, <1>11 DEF InboxQueue
  <1>14. \A i \in DOMAIN q : i \in DOMAIN z /\ z[i] = q[i]
    BY <1>5, <1>6, <1>7
  <1>15. \A i \in DOMAIN z : i \in DOMAIN q \/ z[i] \in S
    BY <1>5, <1>9
  <1> QED BY <1>12, <1>13, <1>14, <1>15 DEF z

\* What taking in payload p does to the queue, the counts and the events known.
InboxTaken(p) ==
    /\ InboxQueue(ibSeen', ibLog) /\ Len(ibSeen') <= Window
    /\ ibGot' \in [Events -> Nat] /\ \A e \in Events : ibGot'[e] <= 1
    /\ InboxForgotten(ibGot', ibSeen', ibLog)
    /\ ibEver \subseteq ibEver' /\ ibEver' \subseteq Events
    /\ \A i \in DOMAIN ibSeen' : ibSeen'[i] \in ibEver'
    /\ \A e \in p.from + 1 .. p.to : e \in ibEver'

\* _process_inbound_event dispatches what is new, once.
LEMMA InboxProcess ==
  ASSUME InboxIInv, NEW p, InboxFresh(p, ibLog), Process(p)
  PROVE  InboxTaken(p)
  <1>1. PICK log \in Nat : log = ibLog /\ log <= MaxEvents /\ MaxEvents \in Nat /\ Lag \in Nat
    BY InboxAssumption DEF InboxIInv, InboxTypeOK
  <1>2. PICK lo \in Nat, hi \in Nat : lo = p.from /\ hi = p.to /\ lo <= hi /\ hi <= log /\ log <= lo + 1 + Lag
    BY <1>1 DEF InboxFresh, Payloads
  <1>3. PICK S \in SUBSET Events : S = NewIn(p)
    <2>1. p.from + 1 .. p.to \subseteq Events
      BY <1>1, <1>2 DEF Events
    <2> QED BY <2>1 DEF NewIn
  <1>4. \A e \in S : e \in lo + 1 .. hi /\ e <= log /\ log <= e + Lag /\ \A i \in DOMAIN ibSeen : ibSeen[i] # e
    BY <1>1, <1>2, <1>3 DEF NewIn, InSeen
  <1>5. \A e \in lo + 1 .. hi : e \in S \/ \E i \in DOMAIN ibSeen : ibSeen[i] = e
    BY <1>2, <1>3 DEF NewIn, InSeen
  <1>6. PICK r \in InOrder(S) : ibSeen' = LastSeen(ibSeen \o r)
    BY <1>3 DEF Process
  <1>7. InboxQueue(ibSeen, log)
    BY <1>1 DEF InboxIInv
  <1>8. PICK z \in Seq(Events) :
           /\ z = ibSeen \o r /\ InboxQueue(z, log)
           /\ \A e \in S : \E i \in DOMAIN z : z[i] = e
           /\ \A i \in DOMAIN ibSeen : i \in DOMAIN z /\ z[i] = ibSeen[i]
           /\ \A i \in DOMAIN z : i \in DOMAIN ibSeen \/ z[i] \in S
    <2>1. \A e \in S : e <= log /\ log <= e + Lag /\ \A i \in DOMAIN ibSeen : ibSeen[i] # e
      BY <1>4
    <2>2. /\ InboxQueue(ibSeen \o r, log)
          /\ \A e \in S : \E i \in DOMAIN (ibSeen \o r) : (ibSeen \o r)[i] = e
          /\ \A i \in DOMAIN ibSeen : i \in DOMAIN (ibSeen \o r) /\ (ibSeen \o r)[i] = ibSeen[i]
          /\ \A i \in DOMAIN (ibSeen \o r) : i \in DOMAIN ibSeen \/ (ibSeen \o r)[i] \in S
      BY <2>1, <1>7, InboxJoin
    <2> QED BY <2>2 DEF InboxQueue
  <1>9. PICK d \in Nat :
           /\ d <= Len(z) /\ (d # 0 => Len(z) - d = Window)
           /\ ibSeen' \in Seq(Events) /\ Len(ibSeen') = Len(z) - d /\ Len(z) - d <= Window
           /\ \A k \in 1 .. Len(z) - d : ibSeen'[k] = z[k + d]
    BY <1>6, <1>8, InboxLast
  <1>10. PICK n \in Nat : n = Len(z) /\ DOMAIN z = 1 .. n /\ DOMAIN ibSeen' = 1 .. (n - d)
    BY <1>8, <1>9
  <1>11. \A k \in 1 .. (n - d) : k + d \in 1 .. n
    BY <1>9, <1>10
  <1>12. InboxQueue(ibSeen', log)
    <2>1. \A k \in DOMAIN ibSeen' : ibSeen'[k] <= log
      <3> TAKE k \in DOMAIN ibSeen'
      <3>1. k + d \in DOMAIN z /\ ibSeen'[k] = z[k + d]
        BY <1>9, <1>10, <1>11
      <3> QED BY <3>1, <1>8 DEF InboxQueue
    <2>2. \A j, k \in DOMAIN ibSeen' : j < k => ibSeen'[j] # ibSeen'[k] /\ ibSeen'[j] <= ibSeen'[k] + Lag
      <3> SUFFICES ASSUME NEW j \in 1 .. (n - d), NEW k \in 1 .. (n - d), j < k
                   PROVE  ibSeen'[j] # ibSeen'[k] /\ ibSeen'[j] <= ibSeen'[k] + Lag
        BY <1>10
      <3>1. j + d \in DOMAIN z /\ k + d \in DOMAIN z /\ j + d < k + d
        BY <1>10, <1>11
      <3>2. z[j + d] # z[k + d] /\ z[j + d] <= z[k + d] + Lag
        BY <3>1, <1>8 DEF InboxQueue
      <3>3. ibSeen'[j] = z[j + d] /\ ibSeen'[k] = z[k + d]
        BY <1>9, <1>10
      <3> QED BY <3>2, <3>3
    <2> QED BY <2>1, <2>2, <1>9 DEF InboxQueue
  <1>13. \A i \in DOMAIN z : (\E k \in DOMAIN ibSeen' : ibSeen'[k] = z[i]) \/ z[i] + Lag < log
    <2> TAKE i \in DOMAIN z
    <2>1. CASE i <= d
      <3>1. d # 0 /\ Len(z) - d = Window /\ Len(z) - i >= Window
        BY <2>1, <1>9, <1>10
      <3> QED BY <3>1, <1>8, InboxEvicted
    <2>2. CASE ~(i <= d)
      <3>1. i - d \in 1 .. (n - d) /\ i - d + d = i
        BY <2>2, <1>9, <1>10
      <3>2. ibSeen'[i - d] = z[i - d + d]
        BY <3>1, <1>9, <1>10
      <3> QED BY <3>1, <3>2, <1>10
    <2> QED BY <2>1, <2>2
  <1>14. ibGot' = [e \in Events |-> IF e \in S THEN ibGot[e] + 1 ELSE ibGot[e]] /\ ibEver' = ibEver \union S
    BY <1>3 DEF Process
  <1>15. ibGot \in [Events -> Nat] /\ \A e \in Events : ibGot[e] <= 1
    BY DEF InboxIInv, InboxTypeOK, DispatchedOnce
  <1>16. \A e \in Events : ibGot[e] >= 1 => (\E i \in DOMAIN ibSeen : ibSeen[i] = e) \/ e + Lag < log
    BY <1>1 DEF InboxIInv, InboxForgotten
  <1>17. \A e \in S : ibGot[e] = 0
    <2> TAKE e \in S
    <2>1. e \in Nat /\ ibGot[e] \in Nat /\ e \in Events
      BY <1>15, InboxAssumption DEF Events
    <2>2. ~(e + Lag < log)
      BY <1>1, <1>4, <2>1
    <2> QED BY <2>1, <2>2, <1>4, <1>16
  <1>18. ibGot' \in [Events -> Nat] /\ \A e \in Events : ibGot'[e] <= 1
    BY <1>14, <1>15, <1>17
  <1>19. InboxForgotten(ibGot', ibSeen', log)
    <2> SUFFICES ASSUME NEW e \in Events, ibGot'[e] >= 1
                 PROVE  (\E k \in DOMAIN ibSeen' : ibSeen'[k] = e) \/ e + Lag < log
      BY DEF InboxForgotten
    <2>1. CASE e \in S
      BY <2>1, <1>8, <1>13
    <2>2. CASE e \notin S
      <3>1. ibGot[e] >= 1
        BY <2>2, <1>14
      <3>2. CASE e + Lag < log
        BY <3>2
      <3>3. CASE \E i \in DOMAIN ibSeen : ibSeen[i] = e
        <4>1. PICK i \in DOMAIN z : z[i] = e
          BY <3>3, <1>8, Zenon
        <4> QED BY <4>1, <1>13, Zenon
      <3> QED BY <3>1, <3>2, <3>3, <1>16
    <2> QED BY <2>1, <2>2
  <1>20. \A i \in DOMAIN ibSeen : ibSeen[i] \in ibEver
    BY DEF InboxIInv
  <1>21. \A i \in DOMAIN z : z[i] \in ibEver'
    BY <1>8, <1>14, <1>20
  <1>22. \A k \in DOMAIN ibSeen' : ibSeen'[k] \in ibEver'
    <2> TAKE k \in DOMAIN ibSeen'
    <2>1. k + d \in DOMAIN z /\ ibSeen'[k] = z[k + d]
      BY <1>9, <1>10, <1>11
    <2> QED BY <2>1, <1>21
  <1>23. \A e \in p.from + 1 .. p.to : e \in ibEver'
    BY <1>2, <1>5, <1>14, <1>20
  <1>24. ibEver \subseteq ibEver' /\ ibEver' \subseteq Events
    BY <1>14 DEF InboxIInv, InboxTypeOK
  <1>25. Len(ibSeen') <= Window
    BY <1>9
  <1> QED BY <1>1, <1>12, <1>18, <1>19, <1>22, <1>23, <1>24, <1>25 DEF InboxTaken

\* _handle_watch_payload takes a payload in and moves the cursor to its end, unless it is further.
LEMMA InboxHandle ==
  ASSUME InboxIInv, NEW p, InboxFresh(p, ibLog), Handle(p)
  PROVE  InboxTaken(p) /\ ibCold' \in BOOLEAN /\ ibSaving' \in BOOLEAN /\ (ibCursor' = ibCursor \/ ibCursor' = p.to)
  <1>1. ibCursor' = ibCursor \/ ibCursor' = p.to
    BY DEF Handle, Mark
  <1>2. ibSaving' \in BOOLEAN
    BY Zenon DEF Handle
  <1>3. CASE ibCold
    <2>1. ibCold' = FALSE /\ ibEver' = ibEver \union p.from + 1 .. p.to /\ ibSeen' = ibSeen /\ ibGot' = ibGot
      BY <1>3 DEF Handle
    <2>2. PICK log \in Nat : log = ibLog /\ log <= MaxEvents /\ MaxEvents \in Nat
      BY InboxAssumption DEF InboxIInv, InboxTypeOK
    <2>3. p.from \in Nat /\ p.to \in Nat /\ p.to <= log
      BY <2>2 DEF InboxFresh, Payloads
    <2>4. p.from + 1 .. p.to \subseteq Events
      BY <2>2, <2>3 DEF Events
    <2>5. InboxQueue(ibSeen', ibLog) /\ Len(ibSeen') <= Window /\ InboxForgotten(ibGot', ibSeen', ibLog)
      BY <2>1 DEF InboxIInv, InboxTypeOK
    <2>6. ibGot' \in [Events -> Nat] /\ \A e \in Events : ibGot'[e] <= 1
      BY <2>1 DEF InboxIInv, InboxTypeOK, DispatchedOnce
    <2>7. ibEver \subseteq ibEver' /\ ibEver' \subseteq Events /\ \A e \in p.from + 1 .. p.to : e \in ibEver'
      BY <2>1, <2>4, Zenon DEF InboxIInv, InboxTypeOK
    <2>8. \A i \in DOMAIN ibSeen' : ibSeen'[i] \in ibEver'
      BY <2>1, <2>7, Zenon DEF InboxIInv
    <2> QED BY <1>1, <1>2, <2>1, <2>5, <2>6, <2>7, <2>8 DEF InboxTaken
  <1>4. CASE ~ibCold
    <2>1. Process(p) /\ ibCold' = ibCold
      BY <1>4 DEF Handle
    <2> QED BY <1>1, <1>2, <2>1, InboxProcess DEF InboxIInv, InboxTypeOK
  <1> QED BY <1>3, <1>4

\* A socket that lost its first payload, which was taken in.
LEMMA InboxTail ==
  ASSUME NEW s \in Seq(Payloads), s # <<>>, NEW E, NEW F, E \subseteq F,
         s[1].kind = "watch" => \A e \in s[1].from + 1 .. s[1].to : e \in F,
         NEW log, \A j \in DOMAIN s : InboxFresh(s[j], log),
         InboxGapless(s, E), NEW sub, InboxSent(s, E, sub)
  PROVE  /\ Tail(s) \in Seq(Payloads) /\ \A j \in DOMAIN Tail(s) : InboxFresh(Tail(s)[j], log)
         /\ InboxGapless(Tail(s), F) /\ InboxSent(Tail(s), F, sub)
  <1> DEFINE t == Tail(s)
  <1>1. PICK n \in Nat : Len(s) = n + 1 /\ DOMAIN s = 1 .. n + 1
    <2>1. Len(s) \in Nat /\ Len(s) # 0 /\ DOMAIN s = 1 .. Len(s)
      OBVIOUS
    <2>2. Len(s) - 1 \in Nat /\ Len(s) = (Len(s) - 1) + 1
      BY <2>1
    <2> QED BY <2>1, <2>2
  <1>2. t \in Seq(Payloads) /\ Len(t) = n /\ DOMAIN t = 1 .. n /\ \A j \in 1 .. n : t[j] = s[j + 1] /\ j + 1 \in DOMAIN s
    BY <1>1
  <1> HIDE DEF t
  <1>3. ASSUME NEW m \in Int, m <= n, NEW e, InboxBrings(s, m + 1, e) PROVE e \in F \/ InboxBrings(t, m, e)
    <2>1. PICK i \in 1 .. m + 1 : s[i].kind = "watch" /\ e \in s[i].from + 1 .. s[i].to
      BY <1>3 DEF InboxBrings
    <2>2. CASE i = 1
      BY <2>1, <2>2
    <2>3. CASE i # 1
      <3>1. i - 1 \in 1 .. m /\ i - 1 \in 1 .. n /\ i - 1 + 1 = i
        BY <2>3, <1>3
      <3>2. t[i - 1] = s[i]
        BY <3>1, <1>2
      <3> QED BY <2>1, <3>1, <3>2 DEF InboxBrings
    <2> QED BY <2>2, <2>3
  <1>4. \A j \in DOMAIN t : InboxFresh(t[j], log)
    BY <1>2
  <1>5. InboxGapless(t, F)
    <2> SUFFICES ASSUME NEW j \in DOMAIN t, t[j].kind = "watch", NEW e \in Events, e <= t[j].from
                 PROVE  e \in F \/ InboxBrings(t, j - 1, e)
      BY DEF InboxGapless
    <2>1. t[j] = s[j + 1] /\ j + 1 \in DOMAIN s /\ j \in 1 .. n
      BY <1>2
    <2>2. e \in E \/ InboxBrings(s, j + 1 - 1, e)
      BY <2>1 DEF InboxGapless
    <2>3. j + 1 - 1 = (j - 1) + 1 /\ j - 1 \in Int /\ j - 1 <= n
      BY <2>1
    <2>4. InboxBrings(s, (j - 1) + 1, e) => e \in F \/ InboxBrings(t, j - 1, e)
      BY <2>3, <1>3
    <2>5. e \in E \/ InboxBrings(s, (j - 1) + 1, e)
      BY <2>2, <2>3
    <2> QED BY <2>4, <2>5
  <1>6. InboxSent(t, F, sub)
    <2> SUFFICES ASSUME NEW e \in Events, e <= sub PROVE e \in F \/ InboxBrings(t, n, e)
      BY <1>2 DEF InboxSent
    <2>1. e \in E \/ InboxBrings(s, n + 1, e)
      BY <1>1 DEF InboxSent
    <2> QED BY <2>1, <1>3
  <1> QED BY <1>2, <1>4, <1>5, <1>6 DEF t

\* A socket on which a payload is sent.
LEMMA InboxSend ==
  ASSUME NEW s \in Seq(Payloads), NEW E, NEW log, \A j \in DOMAIN s : InboxFresh(s[j], log),
         InboxGapless(s, E), NEW sub, InboxSent(s, E, sub),
         NEW p, InboxFresh(p, log), NEW newer \in Int, sub \in Int,
         IF p.kind = "watch" THEN p.from = sub /\ p.to = newer ELSE newer = sub
  PROVE  /\ Append(s, p) \in Seq(Payloads) /\ \A j \in DOMAIN Append(s, p) : InboxFresh(Append(s, p)[j], log)
         /\ InboxGapless(Append(s, p), E) /\ InboxSent(Append(s, p), E, newer)
  <1> DEFINE t == Append(s, p)
  <1>1. PICK n \in Nat : Len(s) = n /\ DOMAIN s = 1 .. n
    OBVIOUS
  <1>2. p \in Payloads /\ p.from \in Nat /\ p.to \in Nat
    BY DEF InboxFresh, Payloads
  <1>3. t \in Seq(Payloads) /\ Len(t) = n + 1 /\ DOMAIN t = 1 .. n + 1 /\ t[n + 1] = p /\ \A j \in 1 .. n : t[j] = s[j]
    BY <1>1, <1>2
  <1> HIDE DEF t
  <1>4. \A j \in 1 .. n + 1 : j = n + 1 \/ j \in 1 .. n
    OBVIOUS
  <1>5. ASSUME NEW m \in Int, m <= n, NEW e, InboxBrings(s, m, e) PROVE InboxBrings(t, m, e) /\ InboxBrings(t, n + 1, e)
    <2>1. PICK i \in 1 .. m : s[i].kind = "watch" /\ e \in s[i].from + 1 .. s[i].to
      BY <1>5 DEF InboxBrings
    <2>2. i \in 1 .. n /\ i \in 1 .. n + 1
      BY <1>5
    <2>3. t[i] = s[i]
      BY <2>2, <1>3
    <2> QED BY <2>1, <2>2, <2>3 DEF InboxBrings
  <1>6. \A j \in DOMAIN t : InboxFresh(t[j], log)
    BY <1>1, <1>3, <1>4
  <1>7. InboxGapless(t, E)
    <2> SUFFICES ASSUME NEW j \in 1 .. n + 1, t[j].kind = "watch", NEW e \in Events, e <= t[j].from
                 PROVE  e \in E \/ InboxBrings(t, j - 1, e)
      BY <1>3 DEF InboxGapless
    <2>1. CASE j = n + 1
      <3>1. j - 1 = n /\ t[j] = p /\ p.from = sub
        BY <2>1, <1>3
      <3>2. e \in E \/ InboxBrings(s, n, e)
        BY <3>1, <1>1 DEF InboxSent
      <3>3. n \in Int /\ n <= n
        OBVIOUS
      <3>4. InboxBrings(s, n, e) => InboxBrings(t, n, e)
        BY <3>3, <1>5
      <3> QED BY <3>1, <3>2, <3>4
    <2>2. CASE j \in 1 .. n
      <3>1. t[j] = s[j] /\ j \in DOMAIN s
        BY <2>2, <1>1, <1>3
      <3>2. e \in E \/ InboxBrings(s, j - 1, e)
        BY <3>1 DEF InboxGapless
      <3>3. j - 1 \in Int /\ j - 1 <= n
        BY <2>2
      <3>4. InboxBrings(s, j - 1, e) => InboxBrings(t, j - 1, e)
        BY <3>3, <1>5
      <3> QED BY <3>2, <3>4
    <2> QED BY <2>1, <2>2, <1>4
  <1>8. InboxSent(t, E, newer)
    <2> SUFFICES ASSUME NEW e \in Events, e <= newer PROVE e \in E \/ InboxBrings(t, n + 1, e)
      BY <1>3 DEF InboxSent
    <2>1. e \in Int
      BY DEF Events
    <2>2. CASE e <= sub
      <3>1. e \in E \/ InboxBrings(s, n, e)
        BY <2>2, <1>1 DEF InboxSent
      <3>2. n \in Int /\ n <= n
        OBVIOUS
      <3>3. InboxBrings(s, n, e) => InboxBrings(t, n + 1, e)
        BY <3>2, <1>5
      <3> QED BY <3>1, <3>3
    <2>3. CASE ~(e <= sub)
      <3>1. p.kind = "watch" /\ e \in p.from + 1 .. p.to
        BY <2>1, <2>3
      <3>2. n + 1 \in 1 .. n + 1
        OBVIOUS
      <3> QED BY <3>1, <3>2, <1>3 DEF InboxBrings
    <2> QED BY <2>2, <2>3
  <1> QED BY <1>3, <1>6, <1>7, <1>8 DEF t

\* The parts of the invariant that only the socket, the answer and the log can disturb.
InboxKeptTypes ==
    /\ ibUp' \in BOOLEAN /\ ibSaving' \in BOOLEAN /\ ibCold' \in BOOLEAN
    /\ ibLog' \in 0 .. MaxEvents /\ ibRestarts' \in 0 .. MaxRestarts
    /\ ibCursor' \in {Absent} \union 0 .. ibLog' /\ ibFile' \in {Absent} \union 0 .. ibLog' /\ ibSub' \in {Absent} \union 0 .. ibLog'

\* Since answers a request that is not far behind.
LEMMA InboxSince ==
  ASSUME InboxIInv, InLag(ibCursor, ibLog)
  PROVE  /\ InboxFresh(Since(ibCursor), ibLog) /\ Since(ibCursor).kind = "watch"
         /\ \A e \in Events : e <= Since(ibCursor).from => e \in ibEver
         /\ ibLog <= Since(ibCursor).to + Lag /\ Since(ibCursor).to \in 0 .. ibLog
  <1>1. Limit \in Nat /\ Lag \in Nat /\ ibLog \in Nat /\ ibCursor \in {Absent} \union 0 .. ibLog
    BY InboxAssumption DEF InboxIInv, InboxTypeOK
  <1>2. PICK c \in 0 .. ibLog : c = Known(ibCursor)
    BY <1>1 DEF Known, Absent
  <1>3. PICK d \in c .. ibLog : d = AtMost(Known(ibCursor) + Limit, ibLog)
    BY <1>1, <1>2 DEF AtMost
  <1>4. ibLog <= c + Lag
    BY <1>2 DEF InLag
  <1>5. Since(ibCursor) = [kind |-> "watch", from |-> c, to |-> d]
    BY <1>2, <1>3 DEF Since
  <1>6. \A e \in Events : e <= c => e \in ibEver
    <2> SUFFICES ASSUME NEW e \in Events, e <= c PROVE e \in ibEver
      OBVIOUS
    <2>1. e \in Int /\ e >= 1
      BY DEF Events
    <2>2. c = ibCursor
      BY <2>1, <1>2 DEF Known
    <2> QED BY <2>2 DEF InboxIInv
  <1>7. Since(ibCursor) \in Payloads /\ Since(ibCursor).from = c /\ Since(ibCursor).to = d /\ Since(ibCursor).kind = "watch"
    BY <1>1, <1>5 DEF Payloads
  <1>8. c <= d /\ d <= ibLog /\ ibLog <= c + 1 + Lag /\ ibLog <= d + Lag /\ d \in 0 .. ibLog
    BY <1>1, <1>3, <1>4
  <1> QED BY <1>6, <1>7, <1>8 DEF InboxFresh

\* What a step that takes payload p in has to leave of the rest.
LEMMA InboxTakes ==
  ASSUME InboxIInv, NEW p, InboxFresh(p, ibLog), InboxTaken(p), InboxKeptTypes, ibLog' = ibLog, ibFile' = ibFile, ibSub' = ibSub,
         ibCursor' = ibCursor \/ (ibCursor' = p.to /\ \A e \in Events : e <= p.from => e \in ibEver),
         ibHttp' = NoAnswer \/ ibHttp' = ibHttp,
         ibSocket' \in Seq(Payloads), \A j \in DOMAIN ibSocket' : InboxFresh(ibSocket'[j], ibLog),
         InboxGapless(ibSocket', ibEver'), InboxSent(ibSocket', ibEver', ibSub)
  PROVE  InboxIInv'
  <1>1. ibEver \subseteq ibEver'
    BY DEF InboxTaken
  <1>2. InboxTypeOK'
    BY DEF InboxKeptTypes, InboxTaken, InboxTypeOK, InboxQueue
  <1>3. DispatchedOnce' /\ FileNeverAhead'
    BY <1>1 DEF InboxIInv, InboxTaken, DispatchedOnce, FileNeverAhead
  <1>4. (ibHttp # NoAnswer => InboxFresh(ibHttp, ibLog) /\ \A e \in Events : e <= ibHttp.from => e \in ibEver)'
    BY <1>1 DEF InboxIInv
  <1>5. \A e \in Events : e <= ibCursor' => e \in ibEver'
    <2>1. CASE ibCursor' = ibCursor
      BY <1>1, <2>1 DEF InboxIInv
    <2>2. CASE ibCursor' = p.to /\ \A e \in Events : e <= p.from => e \in ibEver
      <3> SUFFICES ASSUME NEW e \in Events, e <= p.to PROVE e \in ibEver'
        BY <2>2
      <3>1. e \in Int /\ p.from \in Int /\ p.to \in Int
        BY DEF Events, InboxFresh, Payloads
      <3>2. e <= p.from \/ e \in p.from + 1 .. p.to
        BY <3>1
      <3> QED BY <3>2, <2>2, <1>1 DEF InboxTaken
    <2> QED BY <2>1, <2>2
  <1>6. (ibSub # Absent => ibLog <= ibSub + Lag)' /\ (\A j \in DOMAIN ibSocket : InboxFresh(ibSocket[j], ibLog))'
    BY DEF InboxIInv
  <1>7. InboxQueue(ibSeen', ibLog') /\ InboxForgotten(ibGot', ibSeen', ibLog') /\ \A i \in DOMAIN ibSeen' : ibSeen'[i] \in ibEver'
    BY DEF InboxTaken
  <1>8. InboxGapless(ibSocket', ibEver') /\ InboxSent(ibSocket', ibEver', ibSub')
    OBVIOUS
  <1> QED BY <1>2, <1>3, <1>4, <1>5, <1>6, <1>7, <1>8 DEF InboxIInv, InboxFresh, InboxQueue, InboxForgotten, InboxGapless, InboxSent, InboxBrings

\* A step that takes nothing in.
LEMMA InboxRests ==
  ASSUME InboxIInv, InboxKeptTypes, ibLog' = ibLog, UNCHANGED <<ibSeen, ibGot, ibEver>>,
         ibCursor' = ibCursor \/ ibCursor' = ibFile, ibFile' = ibFile \/ ibFile' = ibCursor,
         ibHttp' = NoAnswer \/ ibHttp' = ibHttp \/ (InboxFresh(ibHttp', ibLog) /\ \A e \in Events : e <= ibHttp'.from => e \in ibEver),
         ibSocket' \in Seq(Payloads), \A j \in DOMAIN ibSocket' : InboxFresh(ibSocket'[j], ibLog),
         ibSub' # Absent => ibLog <= ibSub' + Lag,
         InboxGapless(ibSocket', ibEver), InboxSent(ibSocket', ibEver, ibSub')
  PROVE  InboxIInv'
  <1>1. InboxTypeOK'
    BY DEF InboxKeptTypes, InboxTypeOK, InboxIInv
  <1>2. DispatchedOnce' /\ FileNeverAhead' /\ \A e \in Events : e <= ibCursor' => e \in ibEver'
    BY DEF InboxIInv, DispatchedOnce, FileNeverAhead
  <1>3. (ibHttp # NoAnswer => InboxFresh(ibHttp, ibLog) /\ \A e \in Events : e <= ibHttp.from => e \in ibEver)'
    BY DEF InboxIInv
  <1>4. InboxQueue(ibSeen', ibLog') /\ InboxForgotten(ibGot', ibSeen', ibLog') /\ \A i \in DOMAIN ibSeen' : ibSeen'[i] \in ibEver'
    BY DEF InboxIInv
  <1>5. InboxGapless(ibSocket', ibEver') /\ InboxSent(ibSocket', ibEver', ibSub')
    OBVIOUS
  <1>6. (\A j \in DOMAIN ibSocket : InboxFresh(ibSocket[j], ibLog))'
    OBVIOUS
  <1> QED BY <1>1, <1>2, <1>3, <1>4, <1>5, <1>6 DEF InboxIInv, InboxFresh, InboxQueue, InboxForgotten, InboxGapless, InboxSent, InboxBrings

\* Every step of the channel, the server and the connections keeps the invariant.
LEMMA InboxStep == InboxIInv /\ [InboxNext]_inboxVars => InboxIInv'
  <1> SUFFICES ASSUME InboxIInv, [InboxNext]_inboxVars PROVE InboxIInv'
    OBVIOUS
  <1> DEFINE Sock == /\ ibSocket \in Seq(Payloads) /\ \A j \in DOMAIN ibSocket : InboxFresh(ibSocket[j], ibLog)
                     /\ InboxGapless(ibSocket, ibEver) /\ InboxSent(ibSocket, ibEver, ibSub)
  <1>1. /\ ibUp \in BOOLEAN /\ ibSaving \in BOOLEAN /\ ibCold \in BOOLEAN
        /\ ibLog \in Nat /\ ibLog <= MaxEvents /\ ibRestarts \in 0 .. MaxRestarts /\ MaxEvents \in Nat /\ MaxRestarts \in Nat /\ Lag \in Nat
        /\ ibCursor \in {Absent} \union 0 .. ibLog /\ ibFile \in {Absent} \union 0 .. ibLog /\ ibSub \in {Absent} \union 0 .. ibLog
        /\ (ibSub # Absent => ibLog <= ibSub + Lag) /\ Sock
    BY InboxAssumption DEF InboxIInv, InboxTypeOK
  <1>2. \A F : InboxGapless(<<>>, F) /\ InboxSent(<<>>, F, Absent) /\ <<>> \in Seq(Payloads) /\ DOMAIN <<>> = {}
    <2>1. \A e \in Events : ~(e <= Absent)
      BY DEF Events, Absent
    <2> QED BY <2>1 DEF InboxGapless, InboxSent
  <1>3. CASE UNCHANGED inboxVars
    BY <1>3 DEF inboxVars, InboxIInv, InboxTypeOK, DispatchedOnce, FileNeverAhead
  <1>4. CASE StartInbox
    <2>1. /\ ibUp' = TRUE /\ ibCursor' = ibFile /\ ibCold' = (ibFile = Absent) /\ ibSeen' = <<>> /\ ibGot' = [e \in Events |-> 0]
          /\ UNCHANGED <<ibLog, ibFile, ibSaving, ibSub, ibSocket, ibHttp, ibEver, ibRestarts>>
      BY <1>4 DEF StartInbox
    <2>2. ibSeen' \in Seq(Events) /\ DOMAIN ibSeen' = {} /\ Len(ibSeen') <= Window
      BY <2>1, InboxAssumption
    <2>3. InboxTypeOK'
      BY <2>1, <2>2 DEF InboxTypeOK, InboxIInv
    <2>4. DispatchedOnce' /\ FileNeverAhead' /\ InboxQueue(ibSeen', ibLog') /\ InboxForgotten(ibGot', ibSeen', ibLog')
      BY <2>1, <2>2 DEF InboxIInv, DispatchedOnce, FileNeverAhead, InboxQueue, InboxForgotten
    <2>5. \A e \in Events : e <= ibCursor' => e \in ibEver'
      BY <2>1 DEF InboxIInv, FileNeverAhead
    <2> QED BY <1>1, <2>1, <2>2, <2>3, <2>4, <2>5 DEF InboxIInv
  <1>5. CASE PostEvent
    <2>1. ibLog' = ibLog + 1 /\ ibLog < MaxEvents /\ UNCHANGED <<ibUp, ibCursor, ibFile, ibSaving, ibCold, ibSeen, ibSub, ibSocket, ibHttp, ibGot, ibEver, ibRestarts>>
      BY <1>5 DEF PostEvent
    <2>2. \A p : InboxFresh(p, ibLog) /\ InLag(p.from, ibLog + 1) => InboxFresh(p, ibLog')
      <3> SUFFICES ASSUME NEW p, InboxFresh(p, ibLog), InLag(p.from, ibLog + 1) PROVE InboxFresh(p, ibLog')
        OBVIOUS
      <3>1. p.from \in Nat /\ p.to \in Nat
        BY DEF InboxFresh, Payloads
      <3>2. Known(p.from) = p.from
        BY <3>1 DEF Known, Absent
      <3>3. ibLog + 1 <= p.from + Lag
        BY <3>2 DEF InLag
      <3> QED BY <1>1, <2>1, <3>1, <3>3 DEF InboxFresh
    <2>3. \A j \in DOMAIN ibSocket : InboxFresh(ibSocket[j], ibLog')
      <3> TAKE j \in DOMAIN ibSocket
      <3>1. InLag(ibSocket[j].from, ibLog + 1)
        BY <1>5 DEF PostEvent, UnderWay
      <3> QED BY <1>1, <2>2, <3>1
    <2>4. ibHttp # NoAnswer => InboxFresh(ibHttp, ibLog')
      <3> SUFFICES ASSUME ibHttp # NoAnswer PROVE InboxFresh(ibHttp, ibLog')
        OBVIOUS
      <3>1. InLag(ibHttp.from, ibLog + 1)
        BY <1>5 DEF PostEvent, UnderWay
      <3> QED BY <2>2, <3>1 DEF InboxIInv
    <2>5. ibSub # Absent => ibLog' <= ibSub + Lag
      <3> SUFFICES ASSUME ibSub # Absent PROVE ibLog' <= ibSub + Lag
        OBVIOUS
      <3> QED BY <1>5, <2>1 DEF PostEvent, InLag, Known
    <2>6. InboxQueue(ibSeen', ibLog') /\ InboxForgotten(ibGot', ibSeen', ibLog')
      <3>1. \A e \in Events : e \in Int
        BY DEF Events
      <3>2. InboxQueue(ibSeen', ibLog')
        <4>1. ibSeen \in Seq(Events) /\ \A i \in DOMAIN ibSeen : ibSeen[i] <= ibLog
          BY DEF InboxIInv, InboxQueue
        <4>2. \A i \in DOMAIN ibSeen : ibSeen[i] <= ibLog'
          BY <4>1, <3>1, <2>1, <1>1
        <4> QED BY <4>1, <4>2, <2>1 DEF InboxIInv, InboxQueue
      <3>3. \A e \in Events : e + Lag < ibLog => e + Lag < ibLog'
        BY <3>1, <2>1, <1>1
      <3> QED BY <3>2, <3>3, <2>1 DEF InboxIInv, InboxForgotten
    <2>7. InboxTypeOK'
      <3>1. ibLog' \in 0 .. MaxEvents /\ \A x \in {Absent} \union 0 .. ibLog : x \in {Absent} \union 0 .. ibLog'
        BY <1>1, <2>1
      <3> QED BY <1>1, <2>1, <3>1 DEF InboxTypeOK, InboxIInv
    <2>8. DispatchedOnce' /\ FileNeverAhead'
      BY <2>1 DEF InboxIInv, DispatchedOnce, FileNeverAhead
    <2> QED BY <2>1, <2>3, <2>4, <2>5, <2>6, <2>7, <2>8, <1>1 DEF InboxIInv
  <1>6. CASE Watch
    <2>1. ibHttp' = Since(ibCursor) /\ InLag(ibCursor, ibLog) /\ UNCHANGED <<ibUp, ibLog, ibCursor, ibFile, ibSaving, ibCold, ibSeen, ibSub, ibSocket, ibGot, ibEver, ibRestarts>>
      BY <1>6 DEF Watch
    <2>2. InboxKeptTypes
      BY <1>1, <2>1 DEF InboxKeptTypes
    <2>3. InboxFresh(ibHttp', ibLog) /\ \A e \in Events : e <= ibHttp'.from => e \in ibEver
      BY <2>1, InboxSince
    <2> QED BY <1>1, <2>1, <2>2, <2>3, InboxRests
  <1>7. CASE Subscribe
    <2>1. /\ InLag(ibCursor, ibLog) /\ ibCold' = (ibCold \/ ibCursor = Absent) /\ ibSocket' = <<Since(ibCursor)>> /\ ibSub' = Since(ibCursor).to
          /\ UNCHANGED <<ibUp, ibLog, ibCursor, ibFile, ibSaving, ibSeen, ibHttp, ibGot, ibEver, ibRestarts>>
      BY <1>7 DEF Subscribe
    <2>2. PICK p : /\ p = Since(ibCursor) /\ InboxFresh(p, ibLog) /\ p.kind = "watch" /\ p \in Payloads
                   /\ (\A e \in Events : e <= p.from => e \in ibEver) /\ ibLog <= p.to + Lag /\ p.to \in 0 .. ibLog
      BY <2>1, InboxSince DEF InboxFresh
    <2>3. ibSocket' = <<p>> /\ ibSocket' \in Seq(Payloads) /\ DOMAIN ibSocket' = 1 .. 1 /\ Len(ibSocket') = 1 /\ ibSocket'[1] = p
      BY <2>1, <2>2
    <2>4. \A j \in DOMAIN ibSocket' : j = 1
      BY <2>3
    <2>5. InboxGapless(ibSocket', ibEver)
      BY <2>2, <2>3, <2>4 DEF InboxGapless
    <2>6. InboxSent(ibSocket', ibEver, ibSub')
      <3> SUFFICES ASSUME NEW e \in Events, e <= p.to PROVE e \in ibEver \/ InboxBrings(ibSocket', 1, e)
        BY <2>1, <2>2, <2>3 DEF InboxSent
      <3>1. e \in Int /\ p.from \in Int /\ p.to \in Int
        BY <2>2 DEF Events, Payloads
      <3>2. e <= p.from \/ e \in p.from + 1 .. p.to
        BY <3>1
      <3>3. 1 \in 1 .. 1
        OBVIOUS
      <3> QED BY <3>2, <3>3, <2>2, <2>3 DEF InboxBrings
    <2>7. InboxKeptTypes
      <3>1. ibCold' \in BOOLEAN
        BY <2>1, Zenon
      <3> QED BY <1>1, <2>1, <2>2, <3>1 DEF InboxKeptTypes
    <2>8. \A j \in DOMAIN ibSocket' : InboxFresh(ibSocket'[j], ibLog)
      BY <2>2, <2>3, <2>4
    <2>9. ibLog <= ibSub' + Lag
      BY <2>1, <2>2
    <2> QED BY <2>1, <2>3, <2>5, <2>6, <2>7, <2>8, <2>9, InboxRests
  <1>8. CASE PushEvent
    <2> DEFINE p == [kind |-> "watch", from |-> ibSub, to |-> ibSub + 1]
    <2>1. /\ ibSub # Absent /\ ibSub < ibLog /\ ibSocket' = Append(ibSocket, p) /\ ibSub' = ibSub + 1
          /\ UNCHANGED <<ibUp, ibLog, ibCursor, ibFile, ibSaving, ibCold, ibSeen, ibHttp, ibGot, ibEver, ibRestarts>>
      BY <1>8 DEF PushEvent
    <2>2. ibSub \in Nat /\ ibSub + 1 \in Nat /\ ibLog <= ibSub + Lag
      BY <1>1, <2>1
    <2>3. p \in Payloads /\ p.kind = "watch" /\ p.from = ibSub /\ p.to = ibSub + 1
      BY <2>2 DEF Payloads
    <2> HIDE DEF p
    <2>4. InboxFresh(p, ibLog)
      BY <1>1, <2>1, <2>2, <2>3 DEF InboxFresh
    <2>5. /\ ibSocket' \in Seq(Payloads) /\ \A j \in DOMAIN ibSocket' : InboxFresh(ibSocket'[j], ibLog)
          /\ InboxGapless(ibSocket', ibEver) /\ InboxSent(ibSocket', ibEver, ibSub')
      <3>1. ibSub' \in Int /\ ibSub \in Int /\ IF p.kind = "watch" THEN p.from = ibSub /\ p.to = ibSub' ELSE ibSub' = ibSub
        BY <2>1, <2>2, <2>3
      <3> QED BY <1>1, <2>1, <2>4, <3>1, InboxSend, Zenon
    <2>6. InboxKeptTypes
      BY <1>1, <2>1, <2>2 DEF InboxKeptTypes
    <2>7. ibLog <= ibSub' + Lag
      BY <1>1, <2>1, <2>2
    <2> QED BY <2>1, <2>5, <2>6, <2>7, InboxRests
  <1>9. CASE NotifyEvent
    <2> DEFINE p == [kind |-> "notify", from |-> ibSub - 1, to |-> ibSub]
    <2>1. /\ ibSub # Absent /\ ibSub > 0 /\ ibSocket' = Append(ibSocket, p) /\ ibSub' = ibSub
          /\ UNCHANGED <<ibUp, ibLog, ibCursor, ibFile, ibSaving, ibCold, ibSeen, ibHttp, ibGot, ibEver, ibRestarts>>
      BY <1>9 DEF NotifyEvent
    <2>2. ibSub \in Nat /\ ibSub - 1 \in Nat /\ ibLog <= ibSub + Lag /\ ibSub <= ibLog
      BY <1>1, <2>1
    <2>3. p \in Payloads /\ p.kind = "notify" /\ p.from = ibSub - 1 /\ p.to = ibSub
      BY <2>2 DEF Payloads
    <2> HIDE DEF p
    <2>4. InboxFresh(p, ibLog)
      BY <1>1, <2>1, <2>2, <2>3 DEF InboxFresh
    <2>5. /\ ibSocket' \in Seq(Payloads) /\ \A j \in DOMAIN ibSocket' : InboxFresh(ibSocket'[j], ibLog)
          /\ InboxGapless(ibSocket', ibEver) /\ InboxSent(ibSocket', ibEver, ibSub')
      <3>1. ibSub' \in Int /\ ibSub \in Int /\ IF p.kind = "watch" THEN p.from = ibSub /\ p.to = ibSub' ELSE ibSub' = ibSub
        BY <2>1, <2>2, <2>3
      <3> QED BY <1>1, <2>1, <2>4, <3>1, InboxSend, Zenon
    <2>6. InboxKeptTypes
      BY <1>1, <2>1, <2>2 DEF InboxKeptTypes
    <2> QED BY <2>1, <2>2, <2>5, <2>6, InboxRests
  <1>10. CASE LoseSocket
    <2>1. ibSub' = Absent /\ ibSocket' = <<>> /\ UNCHANGED <<ibUp, ibLog, ibCursor, ibFile, ibSaving, ibCold, ibSeen, ibHttp, ibGot, ibEver, ibRestarts>>
      BY <1>10 DEF LoseSocket
    <2>2. InboxKeptTypes
      BY <1>1, <2>1 DEF InboxKeptTypes
    <2> QED BY <1>2, <2>1, <2>2, InboxRests
  <1>11. CASE LoseAnswer
    <2>1. ibHttp' = NoAnswer /\ UNCHANGED <<ibUp, ibLog, ibCursor, ibFile, ibSaving, ibCold, ibSeen, ibSub, ibSocket, ibGot, ibEver, ibRestarts>>
      BY <1>11 DEF LoseAnswer
    <2>2. InboxKeptTypes
      BY <1>1, <2>1 DEF InboxKeptTypes
    <2> QED BY <1>1, <2>1, <2>2, InboxRests
  <1>12. CASE HandleAnswer
    <2>1. PICK p : p = ibHttp /\ InboxFresh(p, ibLog) /\ (\A e \in Events : e <= p.from => e \in ibEver) /\ Handle(p) /\ p \in Payloads
      BY <1>12 DEF HandleAnswer, InboxIInv, InboxFresh
    <2>2. ibHttp' = NoAnswer /\ UNCHANGED <<ibUp, ibLog, ibFile, ibSub, ibSocket, ibRestarts>>
      BY <1>12 DEF HandleAnswer
    <2>3. InboxTaken(p) /\ ibCold' \in BOOLEAN /\ ibSaving' \in BOOLEAN /\ (ibCursor' = ibCursor \/ ibCursor' = p.to)
      BY <2>1, InboxHandle
    <2>4. p.to \in 0 .. ibLog
      BY <1>1, <2>1 DEF InboxFresh, Payloads
    <2>5. InboxKeptTypes
      BY <1>1, <2>2, <2>3, <2>4 DEF InboxKeptTypes
    <2>6. InboxGapless(ibSocket', ibEver') /\ InboxSent(ibSocket', ibEver', ibSub)
      <3>1. ibEver \subseteq ibEver'
        BY <2>3 DEF InboxTaken
      <3> QED BY <1>1, <2>2, <3>1 DEF InboxGapless, InboxSent
    <2>7. ibSocket' \in Seq(Payloads) /\ \A j \in DOMAIN ibSocket' : InboxFresh(ibSocket'[j], ibLog)
      BY <1>1, <2>2
    <2> QED BY <2>1, <2>2, <2>3, <2>5, <2>6, <2>7, InboxTakes
  <1>13. CASE HandleSocket \/ HandleNotify
    <2>1. ibSocket # <<>> /\ ibSocket' = Tail(ibSocket) /\ UNCHANGED <<ibUp, ibLog, ibFile, ibSub, ibHttp, ibRestarts>>
      BY <1>13 DEF HandleSocket, HandleNotify
    <2>2. PICK p : p = Head(ibSocket) /\ p = ibSocket[1] /\ 1 \in DOMAIN ibSocket
      BY <1>1, <2>1
    <2>3. InboxFresh(p, ibLog) /\ p \in Payloads
      BY <1>1, <2>2 DEF InboxFresh
    <2>4. p.kind = "watch" => \A e \in Events : e <= p.from => e \in ibEver
      BY <1>1, <2>2 DEF InboxGapless, InboxBrings
    <2>5. /\ InboxTaken(p) /\ ibCold' \in BOOLEAN /\ ibSaving' \in BOOLEAN
          /\ ibCursor' = ibCursor \/ (ibCursor' = p.to /\ p.kind = "watch")
      <3>1. CASE HandleSocket
        BY <2>2, <2>3, <3>1, InboxHandle DEF HandleSocket
      <3>2. CASE HandleNotify
        BY <1>1, <2>2, <2>3, <3>2, InboxProcess DEF HandleNotify
      <3> QED BY <1>13, <3>1, <3>2
    <2>6. p.to \in 0 .. ibLog
      BY <1>1, <2>3 DEF InboxFresh, Payloads
    <2>7. InboxKeptTypes
      BY <1>1, <2>1, <2>5, <2>6 DEF InboxKeptTypes
    <2>8. /\ ibSocket' \in Seq(Payloads) /\ \A j \in DOMAIN ibSocket' : InboxFresh(ibSocket'[j], ibLog)
          /\ InboxGapless(ibSocket', ibEver') /\ InboxSent(ibSocket', ibEver', ibSub)
      <3>1. ibEver \subseteq ibEver' /\ \A e \in p.from + 1 .. p.to : e \in ibEver'
        BY <2>5 DEF InboxTaken
      <3> QED BY <1>1, <2>1, <2>2, <3>1, InboxTail
    <2> QED BY <2>1, <2>3, <2>4, <2>5, <2>7, <2>8, InboxTakes
  <1>14. CASE SaveCursor
    <2>1. ibSaving' = FALSE /\ ibFile' = ibCursor /\ UNCHANGED <<ibUp, ibLog, ibCursor, ibCold, ibSeen, ibSub, ibSocket, ibHttp, ibGot, ibEver, ibRestarts>>
      BY <1>14 DEF SaveCursor, Saved
    <2>2. ibFile' \in {Absent} \union 0 .. ibLog /\ ibLog \in 0 .. MaxEvents
      BY <1>1, <2>1
    <2>3. InboxKeptTypes
      BY <1>1, <2>1, <2>2, Zenon DEF InboxKeptTypes
    <2> QED BY <1>1, <2>1, <2>3, InboxRests
  <1>15. CASE StopInbox \/ CrashInbox
    <2>1. /\ ibUp' = FALSE /\ ibRestarts < MaxRestarts /\ ibRestarts' = ibRestarts + 1
          /\ ibSaving' = FALSE /\ ibSub' = Absent /\ ibSocket' = <<>> /\ ibHttp' = NoAnswer
          /\ UNCHANGED <<ibLog, ibCursor, ibCold, ibSeen, ibGot, ibEver>> /\ (ibFile' = ibFile \/ ibFile' = ibCursor)
      BY <1>15 DEF StopInbox, CrashInbox, Down, Saved
    <2>2. ibRestarts' \in 0 .. MaxRestarts /\ ibFile' \in {Absent} \union 0 .. ibLog /\ ibLog \in 0 .. MaxEvents /\ ibSub' \in {Absent} \union 0 .. ibLog
      BY <1>1, <2>1
    <2>3. InboxKeptTypes
      BY <1>1, <2>1, <2>2, Zenon DEF InboxKeptTypes
    <2> QED BY <1>2, <2>1, <2>3, InboxRests
  <1> QED BY <1>3, <1>4, <1>5, <1>6, <1>7, <1>8, <1>9, <1>10, <1>11, <1>12, <1>13, <1>14, <1>15 DEF InboxNext

-----------------------------------------------------------------------------
(* The cache over Redis *)

RcEntries == [key : RcKeys, val : Nat, tags : SUBSET RcTagNames, ttl : BOOLEAN]
RcOperations ==
    [op : {"none", "set", "get", "promote", "delete"}, key : RcKeys \cup {"none"}, val : Nat,
     tags : SUBSET RcTagNames, ttl : BOOLEAN, keys : SUBSET RcKeys]

\* What the variables are; an operation on one key works on that key.
RcTypes ==
    /\ rcL1 \in Seq(RcEntries) /\ rcTags \in [RcTagNames -> SUBSET RcKeys]
    /\ rcL2 \in [RcKeys -> [val : Nat, tags : SUBSET RcTagNames, ttl : BOOLEAN]]
    /\ rcFails \in Nat /\ rcSets \in Nat /\ rcOp \in [RcThreads -> RcOperations]
    /\ rcDead \subseteq [key : RcKeys, val : Nat \ {0}]
RcOneKey == \A t \in RcThreads : rcOp[t].op \in {"set", "get", "promote"} => rcOp[t].key \in RcKeys /\ rcOp[t].keys = {rcOp[t].key}

\* Values are numbered in the order of set.
RcNumbered ==
    /\ \A i \in DOMAIN rcL1 : rcL1[i].val <= rcSets
    /\ \A k \in RcKeys : rcL2[k].val <= rcSets
    /\ \A t \in RcThreads : rcOp[t].val <= rcSets
    /\ \A d \in rcDead : d.val <= rcSets

\* An invalidated value is in neither tier, and no call is about to bring it back.
RcBuried ==
    \A d \in rcDead :
        /\ \A i \in DOMAIN rcL1 : rcL1[i].key = d.key => rcL1[i].val # d.val
        /\ rcL2[d.key].val # d.val
        /\ \A t \in RcThreads : rcOp[t].op \in {"set", "promote"} /\ rcOp[t].key = d.key => rcOp[t].val # d.val

\* An invalidation that nothing overlaps has its keys for itself, and they are gone from L1.
RcAlone ==
    \A t \in RcThreads \ rcMixed : rcOp[t].op = "delete" =>
        /\ \A u \in RcThreads \ {t} : rcOp[u].keys \cap rcOp[t].keys = {}
        /\ \A i \in DOMAIN rcL1 : rcL1[i].key \notin rcOp[t].keys

RcIInv == RcTypes /\ RcOneKey /\ RcIndexed /\ RcNumbered /\ RcBuried /\ RcAlone /\ RcInvalidatedGone /\ RcDegradedRightly

\* Removing keys keeps the order and the other entries, and makes room if one of the keys was there.
LEMMA RcRemoves ==
  ASSUME NEW cache \in Seq(RcEntries), NEW keys, NEW rest \in RcWithout(cache, keys),
         \A i, j \in DOMAIN cache : cache[i].key = cache[j].key => i = j
  PROVE  /\ rest \in Seq(RcEntries) /\ Len(rest) <= Len(cache)
         /\ (\E i \in DOMAIN cache : cache[i].key \in keys) => Len(rest) < Len(cache)
         /\ \A j \in DOMAIN rest : rest[j].key \notin keys /\ \E i \in DOMAIN cache : rest[j] = cache[i]
         /\ \A i, j \in DOMAIN rest : rest[i].key = rest[j].key => i = j
PROOF
  <1> DEFINE S == {i \in DOMAIN cache : cache[i].key \notin keys}
  <1>1. IsFiniteSet(DOMAIN cache) /\ Cardinality(DOMAIN cache) = Len(cache)
    <2>1. DOMAIN cache = 1 .. Len(cache) /\ Len(cache) \in Nat
      OBVIOUS
    <2>2. QED
      BY SMTT(20), <2>1, FS_Interval, 1 \in Int, Len(cache) \in Int
  <1>2. S \subseteq DOMAIN cache /\ IsFiniteSet(S) /\ Cardinality(S) <= Len(cache) /\ (S # DOMAIN cache => Cardinality(S) # Len(cache))
    BY <1>1, FS_Subset
  <1>3. Cardinality(S) \in Nat
    BY <1>2, FS_CardinalityType
  <1>4. PICK at \in RcAscending(S) : rest = [j \in DOMAIN at |-> cache[at[j]]]
    BY DEF RcWithout
  <1> HIDE DEF S
  <1>5. at \in [1 .. Cardinality(S) -> S] /\ \A i, j \in DOMAIN at : i < j => at[i] < at[j]
    BY DEF RcAscending
  <1>6. rest \in [1 .. Cardinality(S) -> RcEntries]
    BY <1>2, <1>4, <1>5
  <1>7. rest \in Seq(RcEntries) /\ Len(rest) = Cardinality(S) /\ DOMAIN rest = 1 .. Cardinality(S)
    BY <1>3, <1>6
  <1>8. \A j \in DOMAIN rest : at[j] \in S /\ rest[j] = cache[at[j]]
    BY <1>4, <1>5, <1>7
  <1>9. \A i, j \in DOMAIN rest : at[i] = at[j] => i = j
    <2>1. SUFFICES ASSUME NEW i \in DOMAIN rest, NEW j \in DOMAIN rest, at[i] = at[j], i # j
                   PROVE  FALSE
      OBVIOUS
    <2>2. i \in Nat /\ j \in Nat /\ i \in DOMAIN at /\ j \in DOMAIN at
      BY <1>3, <1>5, <1>7
    <2>3. at[i] \in Nat /\ at[j] \in Nat
      BY <1>2, <1>8
    <2>4. i < j \/ j < i
      BY <2>1, <2>2
    <2>5. at[i] < at[j] \/ at[j] < at[i]
      BY <1>5, <2>2, <2>4
    <2>6. QED
      BY <2>1, <2>3, <2>5
  <1>10. \A i, j \in DOMAIN rest : rest[i].key = rest[j].key => i = j
    BY <1>2, <1>8, <1>9
  <1>11. \A j \in DOMAIN rest : rest[j].key \notin keys /\ \E i \in DOMAIN cache : rest[j] = cache[i]
    BY <1>8 DEF S
  <1>12. (\E i \in DOMAIN cache : cache[i].key \in keys) => Len(rest) < Len(cache)
    <2>1. (\E i \in DOMAIN cache : cache[i].key \in keys) => S # DOMAIN cache
      BY DEF S
    <2>2. QED
      BY <1>2, <1>3, <1>7, <2>1
  <1>13. QED
    BY <1>2, <1>7, <1>10, <1>11, <1>12

\* The entry of a key that L1 has.
LEMMA RcEntryOf ==
  ASSUME RcTypes, NEW k, RcHas(k)
  PROVE  \E i \in DOMAIN rcL1 : RcEntry(k) = rcL1[i] /\ rcL1[i].key = k
PROOF
  BY DEF RcHas, RcEntry

\* L1 with its limit, its keys and its index.
RcHolds(cache, tags) ==
    /\ cache \in Seq(RcEntries) /\ tags \in [RcTagNames -> SUBSET RcKeys]
    /\ Len(cache) <= RcMaxItems /\ \A i, j \in DOMAIN cache : cache[i].key = cache[j].key => i = j
    /\ \A i \in DOMAIN cache : \A tag \in cache[i].tags : cache[i].key \in tags[tag]
RcFrom(new, cache, e) == \A j \in DOMAIN new : new[j] = e \/ \E i \in DOMAIN cache : new[j] = cache[i]

\* An entry is stored in a cache that has room for it.
LEMMA RcPuts ==
  ASSUME NEW cache, NEW tags, RcHolds(cache, tags), Len(cache) < RcMaxItems, NEW e \in RcEntries
  PROVE  RcHolds(RcPut(cache, e), RcTagged(tags, e)) /\ RcFrom(RcPut(cache, e), cache, e)
PROOF
  <1> DEFINE new == RcPut(cache, e)
  <1>1. cache \in Seq(RcEntries) /\ Len(cache) \in Nat /\ DOMAIN cache = 1 .. Len(cache) /\ tags \in [RcTagNames -> SUBSET RcKeys]
    BY DEF RcHolds
  <1>2. e.key \in RcKeys /\ e.tags \subseteq RcTagNames
    BY DEF RcEntries
  <1>3. RcTagged(tags, e) \in [RcTagNames -> SUBSET RcKeys]
    BY <1>1, <1>2 DEF RcTagged
  <1>4. \A tag \in RcTagNames : tags[tag] \subseteq RcTagged(tags, e)[tag] /\ (tag \in e.tags => e.key \in RcTagged(tags, e)[tag])
    BY DEF RcTagged
  <1>5. CASE \E i \in DOMAIN cache : cache[i].key = e.key
    <2>1. new = [i \in DOMAIN cache |-> IF cache[i].key = e.key THEN e ELSE cache[i]]
      BY <1>5 DEF RcPut
    <2> HIDE DEF new
    <2>2. new \in [1 .. Len(cache) -> RcEntries]
      BY <1>1, <2>1
    <2>3. new \in Seq(RcEntries) /\ Len(new) = Len(cache) /\ DOMAIN new = DOMAIN cache
      BY <1>1, <2>2
    <2>4. \A i \in DOMAIN new : new[i].key = cache[i].key /\ (new[i] = e \/ new[i] = cache[i])
      BY <2>1, <2>3
    <2>5. \A i, j \in DOMAIN new : new[i].key = new[j].key => i = j
      BY <2>3, <2>4 DEF RcHolds
    <2>6. \A i \in DOMAIN new : \A tag \in new[i].tags : new[i].key \in RcTagged(tags, e)[tag]
      <3>1. SUFFICES ASSUME NEW i \in DOMAIN new, NEW tag \in new[i].tags
                     PROVE  new[i].key \in RcTagged(tags, e)[tag]
        OBVIOUS
      <3>2. tag \in RcTagNames
        <4>1. new[i] \in RcEntries
          BY <2>3
        <4>2. QED
          BY <4>1 DEF RcEntries
      <3>3. CASE new[i] = e
        BY <1>4, <3>2, <3>3
      <3>4. CASE new[i] = cache[i]
        BY <1>4, <2>3, <3>2, <3>4 DEF RcHolds
      <3>5. QED
        BY <2>4, <3>3, <3>4
    <2>7. RcFrom(new, cache, e)
      BY <2>3, <2>4 DEF RcFrom
    <2>8. QED
      BY <1>3, <2>3, <2>5, <2>6, <2>7 DEF RcHolds, new
  <1>6. CASE ~\E i \in DOMAIN cache : cache[i].key = e.key
    <2>1. new = Append(cache, e)
      BY <1>6 DEF RcPut
    <2> HIDE DEF new
    <2>2. new \in Seq(RcEntries) /\ Len(new) = Len(cache) + 1 /\ DOMAIN new = 1 .. Len(cache) + 1 /\ new[Len(cache) + 1] = e
      BY <1>1, <2>1
    <2>3. \A i \in DOMAIN cache : new[i] = cache[i]
      BY <1>1, <2>1
    <2>4. \A i \in DOMAIN new : i = Len(cache) + 1 \/ i \in DOMAIN cache
      BY <1>1, <2>2
    <2>5. \A i, j \in DOMAIN new : new[i].key = new[j].key => i = j
      BY <1>6, <2>2, <2>3, <2>4 DEF RcHolds
    <2>6. \A i \in DOMAIN new : \A tag \in new[i].tags : new[i].key \in RcTagged(tags, e)[tag]
      <3>1. SUFFICES ASSUME NEW i \in DOMAIN new, NEW tag \in new[i].tags
                     PROVE  new[i].key \in RcTagged(tags, e)[tag]
        OBVIOUS
      <3>2. tag \in RcTagNames
        <4>1. new[i] \in RcEntries
          BY <2>2
        <4>2. QED
          BY <4>1 DEF RcEntries
      <3>3. CASE i = Len(cache) + 1
        BY <1>4, <2>2, <3>2, <3>3
      <3>4. CASE i \in DOMAIN cache
        BY <1>4, <2>3, <3>2, <3>4 DEF RcHolds
      <3>5. QED
        BY <2>4, <3>3, <3>4
    <2>7. RcFrom(new, cache, e)
      BY <2>2, <2>3, <2>4 DEF RcFrom
    <2>8. Len(new) <= RcMaxItems
      BY <1>1, <2>2, RcAssumption
    <2>9. QED
      BY <1>3, <2>2, <2>5, <2>6, <2>7, <2>8 DEF RcHolds, new
  <1>7. QED
    BY <1>5, <1>6

\* The oldest entry makes room.
LEMMA RcStores ==
  ASSUME RcHolds(rcL1, rcTags), NEW e \in RcEntries
  PROVE  RcHolds(RcStored(rcL1, e), RcStoredTags(rcL1, e)) /\ RcFrom(RcStored(rcL1, e), rcL1, e)
PROOF
  <1>1. rcL1 \in Seq(RcEntries) /\ Len(rcL1) \in Nat /\ DOMAIN rcL1 = 1 .. Len(rcL1) /\ rcTags \in [RcTagNames -> SUBSET RcKeys] /\ Len(rcL1) <= RcMaxItems
    BY DEF RcHolds
  <1>2. CASE RcFull(rcL1)
    <2> DEFINE cache == Tail(rcL1)
               tags == RcUntag(rcTags, Head(rcL1))
    <2>1. Len(rcL1) > 0 /\ rcL1 # <<>>
      BY <1>1, <1>2, RcAssumption DEF RcFull
    <2>2. cache \in Seq(RcEntries) /\ Len(cache) = Len(rcL1) - 1 /\ DOMAIN cache = 1 .. Len(rcL1) - 1 /\ Head(rcL1) = rcL1[1]
      BY <1>1, <2>1
    <2>3. \A i \in DOMAIN cache : cache[i] = rcL1[i + 1] /\ i + 1 \in DOMAIN rcL1
      BY <1>1, <2>1, <2>2
    <2>4. tags \in [RcTagNames -> SUBSET RcKeys]
      BY <1>1 DEF RcUntag
    <2>5. \A tag \in RcTagNames : rcTags[tag] \ {rcL1[1].key} \subseteq tags[tag]
      BY <2>2 DEF RcUntag
    <2> HIDE DEF cache, tags
    <2>6. \A i, j \in DOMAIN cache : cache[i].key = cache[j].key => i = j
      <3>1. SUFFICES ASSUME NEW i \in DOMAIN cache, NEW j \in DOMAIN cache, cache[i].key = cache[j].key
                     PROVE  i = j
        OBVIOUS
      <3>2. i + 1 = j + 1
        BY <2>3, <3>1 DEF RcHolds
      <3>3. QED
        BY <1>1, <2>2, <3>2
    <2>7. \A i \in DOMAIN cache : \A tag \in cache[i].tags : cache[i].key \in tags[tag]
      <3>1. SUFFICES ASSUME NEW i \in DOMAIN cache, NEW tag \in cache[i].tags
                     PROVE  cache[i].key \in tags[tag]
        OBVIOUS
      <3>2. tag \in RcTagNames
        <4>1. cache[i] \in RcEntries
          BY <2>2
        <4>2. QED
          BY <4>1 DEF RcEntries
      <3>3. cache[i].key \in rcTags[tag]
        BY <2>3 DEF RcHolds
      <3>4. 1 \in DOMAIN rcL1 /\ i + 1 # 1
        BY <1>1, <2>1, <2>2
      <3>5. rcL1[i + 1].key # rcL1[1].key
        BY <2>3, <3>4 DEF RcHolds
      <3>6. QED
        BY <2>3, <2>5, <3>2, <3>3, <3>5
    <2>8. RcHolds(cache, tags) /\ Len(cache) < RcMaxItems
      BY <1>1, <2>2, <2>4, <2>6, <2>7, RcAssumption DEF RcHolds
    <2>9. RcStored(rcL1, e) = RcPut(cache, e) /\ RcStoredTags(rcL1, e) = RcTagged(tags, e)
      BY <1>2 DEF RcStored, RcStoredTags, RcEvicted, cache, tags
    <2>10. RcHolds(RcPut(cache, e), RcTagged(tags, e)) /\ RcFrom(RcPut(cache, e), cache, e)
      BY <2>8, RcPuts
    <2>11. RcFrom(RcPut(cache, e), rcL1, e)
      BY <2>3, <2>10 DEF RcFrom
    <2>12. QED
      BY <2>9, <2>10, <2>11
  <1>3. CASE ~RcFull(rcL1)
    <2>1. Len(rcL1) < RcMaxItems
      BY <1>1, <1>3, RcAssumption DEF RcFull
    <2>2. RcStored(rcL1, e) = RcPut(rcL1, e) /\ RcStoredTags(rcL1, e) = RcTagged(rcTags, e)
      BY <1>3 DEF RcStored, RcStoredTags, RcEvicted
    <2>3. QED
      BY <2>1, <2>2, RcPuts
  <1>4. QED
    BY <1>2, <1>3

\* Removing some keys, with an index that still knows what is left.
LEMMA RcLeaves ==
  ASSUME RcHolds(rcL1, rcTags), NEW keys, NEW rest \in RcWithout(rcL1, keys), NEW tags \in [RcTagNames -> SUBSET RcKeys],
         \A i \in DOMAIN rcL1 : rcL1[i].key \notin keys => \A tag \in rcL1[i].tags : rcL1[i].key \in tags[tag]
  PROVE  /\ RcHolds(rest, tags)
         /\ \A j \in DOMAIN rest : rest[j].key \notin keys /\ \E i \in DOMAIN rcL1 : rest[j] = rcL1[i]
PROOF
  <1>1. rcL1 \in Seq(RcEntries) /\ Len(rcL1) \in Nat /\ Len(rcL1) <= RcMaxItems /\ \A i, j \in DOMAIN rcL1 : rcL1[i].key = rcL1[j].key => i = j
    BY DEF RcHolds
  <1>2. /\ rest \in Seq(RcEntries) /\ Len(rest) <= Len(rcL1)
        /\ \A j \in DOMAIN rest : rest[j].key \notin keys /\ \E i \in DOMAIN rcL1 : rest[j] = rcL1[i]
        /\ \A i, j \in DOMAIN rest : rest[i].key = rest[j].key => i = j
    BY <1>1, RcRemoves
  <1>3. Len(rest) <= RcMaxItems
    BY <1>1, <1>2, RcAssumption
  <1>4. \A j \in DOMAIN rest : \A tag \in rest[j].tags : rest[j].key \in tags[tag]
    BY <1>2
  <1>5. QED
    BY <1>2, <1>3, <1>4 DEF RcHolds

\* A key leaves L1 and the index.
LEMMA RcLeavesKey ==
  ASSUME RcHolds(rcL1, rcTags), NEW k, NEW rest \in RcWithout(rcL1, {k})
  PROVE  RcHolds(rest, IF RcHas(k) THEN RcUntag(rcTags, RcEntry(k)) ELSE rcTags)
PROOF
  <1> DEFINE tags == IF RcHas(k) THEN RcUntag(rcTags, RcEntry(k)) ELSE rcTags
  <1>1. rcTags \in [RcTagNames -> SUBSET RcKeys]
    BY DEF RcHolds
  <1>2. tags \in [RcTagNames -> SUBSET RcKeys]
    BY <1>1 DEF RcUntag
  <1>3. RcHas(k) => RcEntry(k).key = k
    BY DEF RcHas, RcEntry
  <1>4. \A tag \in RcTagNames : rcTags[tag] \ {k} \subseteq tags[tag]
    BY <1>3 DEF RcUntag
  <1> HIDE DEF tags
  <1>5. \A i \in DOMAIN rcL1 : rcL1[i].key \notin {k} => \A tag \in rcL1[i].tags : rcL1[i].key \in tags[tag]
    <2>1. SUFFICES ASSUME NEW i \in DOMAIN rcL1, rcL1[i].key # k, NEW tag \in rcL1[i].tags
                   PROVE  rcL1[i].key \in tags[tag]
      OBVIOUS
    <2>2. rcL1[i] \in RcEntries /\ rcL1[i].key \in rcTags[tag]
      BY DEF RcHolds
    <2>3. tag \in RcTagNames
      BY <2>2 DEF RcEntries
    <2>4. QED
      BY <1>4, <2>1, <2>2, <2>3
  <1>6. RcHolds(rest, tags)
    BY <1>2, <1>5, RcLeaves
  <1>7. QED
    BY <1>6 DEF tags

\* A key moves to the end of L1, with a new entry or the one it had.
LEMMA RcMoves ==
  ASSUME RcHolds(rcL1, rcTags), NEW e \in RcEntries, RcHas(e.key), NEW rest \in RcWithout(rcL1, {e.key})
  PROVE  /\ RcHolds(Append(rest, e), RcTagged(rcTags, e)) /\ RcFrom(Append(rest, e), rcL1, e)
         /\ e = RcEntry(e.key) => RcHolds(Append(rest, e), rcTags)
PROOF
  <1>1. rcL1 \in Seq(RcEntries) /\ Len(rcL1) \in Nat /\ Len(rcL1) <= RcMaxItems /\ rcTags \in [RcTagNames -> SUBSET RcKeys]
    BY DEF RcHolds
  <1>2. /\ RcHolds(rest, rcTags)
        /\ \A j \in DOMAIN rest : rest[j].key \notin {e.key} /\ \E i \in DOMAIN rcL1 : rest[j] = rcL1[i]
    <2>1. \A i \in DOMAIN rcL1 : rcL1[i].key \notin {e.key} => \A tag \in rcL1[i].tags : rcL1[i].key \in rcTags[tag]
      BY DEF RcHolds
    <2>2. QED
      BY <1>1, <2>1, RcLeaves
  <1>3. Len(rest) < Len(rcL1) /\ rest \in Seq(RcEntries) /\ Len(rest) \in Nat
    <2>1. \E i \in DOMAIN rcL1 : rcL1[i].key \in {e.key}
      BY DEF RcHas
    <2>2. \A i, j \in DOMAIN rcL1 : rcL1[i].key = rcL1[j].key => i = j
      BY DEF RcHolds
    <2>3. Len(rest) < Len(rcL1) /\ rest \in Seq(RcEntries)
      BY <1>1, <2>1, <2>2, RcRemoves
    <2>4. QED
      BY <2>3
  <1>4. Len(rest) < RcMaxItems
    BY <1>1, <1>3, RcAssumption
  <1>5. RcPut(rest, e) = Append(rest, e)
    BY <1>2 DEF RcPut
  <1>6. RcHolds(Append(rest, e), RcTagged(rcTags, e)) /\ RcFrom(Append(rest, e), rest, e)
    BY <1>2, <1>4, <1>5, RcPuts
  <1>7. RcFrom(Append(rest, e), rcL1, e)
    BY <1>2, <1>6 DEF RcFrom
  <1>8. ASSUME e = RcEntry(e.key)
        PROVE  RcTagged(rcTags, e) = rcTags
    <2>1. PICK i \in DOMAIN rcL1 : e = rcL1[i]
      BY <1>8 DEF RcHas, RcEntry
    <2>2. \A tag \in e.tags : e.key \in rcTags[tag]
      BY <2>1 DEF RcHolds
    <2>3. QED
      BY <1>1, <2>2 DEF RcTagged
  <1>9. QED
    BY <1>6, <1>7, <1>8

\* Operations begin and end.
LEMMA RcBegins ==
  ASSUME RcTypes, RcAlone, NEW t \in RcThreads, NEW o \in RcOperations, RcBegin(t, o),
         \A j \in DOMAIN rcL1' : (rcL1'[j].key \in o.keys /\ o.op # "delete") \/ \E i \in DOMAIN rcL1 : rcL1'[j] = rcL1[i],
         o.op = "delete" => \A j \in DOMAIN rcL1' : rcL1'[j].key \notin o.keys
  PROVE  RcAlone'
PROOF
  <1>1. SUFFICES ASSUME NEW x \in RcThreads \ rcMixed', rcOp'[x].op = "delete"
                 PROVE  /\ \A u \in RcThreads \ {x} : rcOp'[u].keys \cap rcOp'[x].keys = {}
                        /\ \A i \in DOMAIN rcL1' : rcL1'[i].key \notin rcOp'[x].keys
    BY DEF RcAlone
  <1>2. \A u \in RcThreads : rcOp'[u] = IF u = t THEN o ELSE rcOp[u]
    BY DEF RcTypes, RcBegin
  <1>3. rcMixed \subseteq rcMixed' /\ (RcBesides(t, o.keys) # {} => t \in rcMixed' /\ RcBesides(t, o.keys) \subseteq rcMixed')
    BY DEF RcBegin
  <1>4. CASE x = t
    <2>1. RcBesides(t, o.keys) = {}
      BY <1>1, <1>3, <1>4
    <2>2. \A u \in RcThreads \ {t} : rcOp[u].keys \cap o.keys = {}
      BY <2>1 DEF RcBesides
    <2>3. QED
      BY <1>1, <1>2, <1>4, <2>2
  <1>5. CASE x # t
    <2>1. rcOp'[x] = rcOp[x] /\ x \in RcThreads \ rcMixed /\ x \notin RcBesides(t, o.keys)
      BY <1>1, <1>2, <1>3, <1>5
    <2>2. rcOp[x].keys \cap o.keys = {}
      BY <1>5, <2>1 DEF RcBesides
    <2>3. \A u \in RcThreads \ {x} : rcOp[u].keys \cap rcOp[x].keys = {}
      BY <1>1, <2>1 DEF RcAlone
    <2>4. \A i \in DOMAIN rcL1 : rcL1[i].key \notin rcOp[x].keys
      BY <1>1, <2>1 DEF RcAlone
    <2>5. \A u \in RcThreads \ {x} : rcOp'[u].keys \cap rcOp'[x].keys = {}
      BY <1>2, <2>1, <2>2, <2>3
    <2>6. \A j \in DOMAIN rcL1' : rcL1'[j].key \notin rcOp[x].keys
      BY <2>2, <2>4
    <2>7. QED
      BY <2>1, <2>5, <2>6
  <1>6. QED
    BY <1>4, <1>5

\* An idle thread is an operation too.
LEMMA RcIdleTyped == RcIdle \in RcOperations
PROOF
  BY DEF RcIdle, RcOperations

\* An operation ends: entries that its end did not bring were there before, so no other invalidation is disturbed.
LEMMA RcEnds ==
  ASSUME RcTypes, RcAlone, NEW t \in RcThreads, RcEnd(t),
         \A j \in DOMAIN rcL1' : (rcL1'[j].key \in rcOp[t].keys /\ rcOp[t].op # "delete") \/ \E i \in DOMAIN rcL1 : rcL1'[j] = rcL1[i]
  PROVE  RcAlone'
PROOF
  <1>1. SUFFICES ASSUME NEW x \in RcThreads \ rcMixed', rcOp'[x].op = "delete"
                 PROVE  /\ \A u \in RcThreads \ {x} : rcOp'[u].keys \cap rcOp'[x].keys = {}
                        /\ \A i \in DOMAIN rcL1' : rcL1'[i].key \notin rcOp'[x].keys
    BY DEF RcAlone
  <1>2. \A u \in RcThreads : rcOp'[u] = IF u = t THEN RcIdle ELSE rcOp[u]
    BY DEF RcTypes, RcEnd
  <1>3. x # t /\ x \in RcThreads \ rcMixed /\ rcOp'[x] = rcOp[x]
    BY <1>1, <1>2 DEF RcEnd, RcIdle
  <1>4. \A u \in RcThreads \ {x} : rcOp[u].keys \cap rcOp[x].keys = {}
    BY <1>1, <1>3 DEF RcAlone
  <1>5. \A i \in DOMAIN rcL1 : rcL1[i].key \notin rcOp[x].keys
    BY <1>1, <1>3 DEF RcAlone
  <1>6. \A u \in RcThreads \ {x} : rcOp'[u].keys \cap rcOp'[x].keys = {}
    BY <1>2, <1>3, <1>4 DEF RcIdle
  <1>7. \A j \in DOMAIN rcL1' : rcL1'[j].key \notin rcOp[x].keys
    BY <1>3, <1>4, <1>5
  <1>8. QED
    BY <1>3, <1>6, <1>7

\* What set stores and what get promotes.
LEMMA RcStepSet ==
  ASSUME RcIInv, NEW t \in RcThreads, NEW k \in RcKeys, NEW tags \in SUBSET RcTagNames, NEW ttl \in BOOLEAN, RcSet(t, k, tags, ttl)
  PROVE  RcIInv'
PROOF
  <1> DEFINE e == [key |-> k, val |-> rcSets + 1, tags |-> tags, ttl |-> ttl]
             o == [op |-> "set", key |-> k, val |-> rcSets + 1, tags |-> tags, ttl |-> ttl, keys |-> {k}]
  <1>1. RcTypes /\ RcOneKey /\ RcNumbered /\ RcBuried /\ RcAlone /\ RcHolds(rcL1, rcTags) /\ rcSets \in Nat
    BY DEF RcIInv, RcTypes, RcIndexed, RcHolds
  <1>2. e \in RcEntries /\ o \in RcOperations /\ e.key = k /\ e.val = rcSets + 1 /\ e.tags = tags
    BY <1>1 DEF RcEntries, RcOperations
  <1>3. /\ rcSets' = rcSets + 1 /\ RcBegin(t, o) /\ UNCHANGED <<rcFails, rcState, rcL2, rcDead, rcGot>>
        /\ IF RcHas(k) THEN \E rest \in RcWithout(rcL1, {k}) : rcL1' = Append(rest, e) ELSE rcL1' = RcStored(rcL1, e)
        /\ rcTags' = IF RcHas(k) THEN RcTagged(rcTags, e) ELSE RcStoredTags(rcL1, e)
    BY DEF RcSet, RcRedisKept
  <1> HIDE DEF e
  <1>4. RcHolds(rcL1', rcTags') /\ RcFrom(rcL1', rcL1, e)
    <2>1. CASE RcHas(k)
      <3>1. PICK rest \in RcWithout(rcL1, {e.key}) : rcL1' = Append(rest, e)
        BY <1>2, <1>3, <2>1
      <3>2. rcTags' = RcTagged(rcTags, e)
        BY <1>3, <2>1
      <3>3. RcHas(e.key)
        BY <1>2, <2>1
      <3>4. RcHolds(Append(rest, e), RcTagged(rcTags, e)) /\ RcFrom(Append(rest, e), rcL1, e)
        BY <1>1, <1>2, <3>3, RcMoves
      <3>5. QED
        BY <3>1, <3>2, <3>4
    <2>2. CASE ~RcHas(k)
      <3>1. rcL1' = RcStored(rcL1, e) /\ rcTags' = RcStoredTags(rcL1, e)
        BY <1>3, <2>2
      <3>2. QED
        BY <1>1, <1>2, <3>1, RcStores
    <2>3. QED
      BY <2>1, <2>2
  <1>5. \A u \in RcThreads : rcOp'[u] = IF u = t THEN o ELSE rcOp[u]
    BY <1>1, <1>3 DEF RcTypes, RcBegin
  <1>6. rcOp' \in [RcThreads -> RcOperations]
    BY <1>1, <1>2, <1>3 DEF RcTypes, RcBegin
  <1>7. RcTypes'
    BY <1>1, <1>3, <1>4, <1>6 DEF RcTypes, RcHolds
  <1>8. RcOneKey'
    BY <1>1, <1>5 DEF RcOneKey
  <1>9. RcIndexed'
    BY <1>4 DEF RcHolds, RcIndexed
  <1>10. RcNumbered'
    <2>1. \A i \in DOMAIN rcL1' : rcL1'[i].val <= rcSets'
      <3>1. SUFFICES ASSUME NEW j \in DOMAIN rcL1'
                     PROVE  rcL1'[j].val <= rcSets + 1
        BY <1>3
      <3>2. CASE rcL1'[j] = e
        BY <1>1, <1>2, <3>2
      <3>3. ASSUME NEW i \in DOMAIN rcL1, rcL1'[j] = rcL1[i]
            PROVE  rcL1'[j].val <= rcSets + 1
        <4>1. rcL1[i] \in RcEntries /\ rcL1[i].val <= rcSets
          BY <1>1 DEF RcTypes, RcNumbered
        <4>2. rcL1[i].val \in Nat
          BY <4>1 DEF RcEntries
        <4>3. QED
          BY <1>1, <3>3, <4>1, <4>2
      <3>4. QED
        BY <1>4, <3>2, <3>3 DEF RcFrom
    <2>2. \A x \in RcKeys : rcL2[x].val \in Nat /\ rcL2[x].val <= rcSets
      BY <1>1 DEF RcTypes, RcNumbered
    <2>3. \A u \in RcThreads : rcOp[u].val \in Nat /\ rcOp[u].val <= rcSets
      BY <1>1 DEF RcTypes, RcNumbered, RcOperations
    <2>4. \A d \in rcDead : d.val \in Nat /\ d.val <= rcSets
      BY <1>1 DEF RcTypes, RcNumbered
    <2>5. \A u \in RcThreads : rcOp'[u].val <= rcSets + 1
      BY <1>1, <1>5, <2>3
    <2>6. QED
      BY <1>1, <1>3, <2>1, <2>2, <2>4, <2>5 DEF RcNumbered
  <1>11. RcBuried'
    <2>1. \A d \in rcDead : d.val # rcSets + 1
      BY <1>1 DEF RcTypes, RcNumbered
    <2>2. \A d \in rcDead : \A j \in DOMAIN rcL1' : rcL1'[j].key = d.key => rcL1'[j].val # d.val
      BY <1>1, <1>2, <1>4, <2>1 DEF RcFrom, RcBuried
    <2>3. QED
      BY <1>1, <1>3, <1>5, <2>1, <2>2 DEF RcBuried
  <1>12. RcAlone'
    <2>1. o.keys = {k} /\ o.op = "set"
      OBVIOUS
    <2>2. \A j \in DOMAIN rcL1' : rcL1'[j].key \in o.keys \/ \E i \in DOMAIN rcL1 : rcL1'[j] = rcL1[i]
      BY <1>2, <1>4 DEF RcFrom
    <2> HIDE DEF o
    <2>3. QED
      BY <1>1, <1>2, <1>3, <2>1, <2>2, RcBegins
  <1>13. RcInvalidatedGone' /\ RcDegradedRightly'
    BY <1>3 DEF RcIInv, RcInvalidatedGone, RcDegradedRightly
  <1>14. QED
    BY <1>7, <1>8, <1>9, <1>10, <1>11, <1>12, <1>13 DEF RcIInv

\* The parts of the invariant that L1, L2 and the operations have to themselves, when nothing was stored anew.
LEMMA RcOlder ==
  ASSUME RcTypes, RcTypes', RcNumbered, RcBuried, rcSets' = rcSets, rcDead' = rcDead,
         \A j \in DOMAIN rcL1' : (\E i \in DOMAIN rcL1 : rcL1'[j] = rcL1[i])
                                 \/ (\E u \in RcThreads : rcOp[u].op = "promote" /\ rcL1'[j].key = rcOp[u].key /\ rcL1'[j].val = rcOp[u].val),
         \A k \in RcKeys : rcL2'[k] \in {rcL2[k], RcNil} \/ \E u \in RcThreads : rcOp[u].op = "set" /\ rcOp[u].key = k /\ rcL2'[k].val = rcOp[u].val,
         \A u \in RcThreads : \/ rcOp'[u].op = rcOp[u].op /\ rcOp'[u].key = rcOp[u].key /\ rcOp'[u].val = rcOp[u].val
                              \/ rcOp'[u].op \notin {"set", "promote"} /\ rcOp'[u].val \in {0, rcSets}
                              \/ \E k \in RcKeys : rcOp'[u].op = "promote" /\ rcOp'[u].key = k /\ rcOp'[u].val = rcL2[k].val
  PROVE  RcNumbered' /\ RcBuried'
PROOF
  <1>1. rcSets \in Nat /\ RcNil.val = 0
    BY DEF RcTypes, RcNil
  <1>2. \A d \in rcDead : d.key \in RcKeys /\ d.val \in Nat \ {0} /\ d.val <= rcSets
    BY DEF RcTypes, RcNumbered
  <1>3. \A k \in RcKeys : rcL2[k].val \in Nat /\ rcL2[k].val <= rcSets
    BY DEF RcTypes, RcNumbered
  <1>4. \A u \in RcThreads : rcOp[u].val \in Nat /\ rcOp[u].val <= rcSets
    BY DEF RcTypes, RcNumbered, RcOperations
  <1>5. \A i \in DOMAIN rcL1 : rcL1[i].val <= rcSets
    BY DEF RcNumbered
  <1>6. \A j \in DOMAIN rcL1' : rcL1'[j].val <= rcSets
    BY <1>4, <1>5
  <1>7. \A k \in RcKeys : rcL2'[k].val <= rcSets
    BY <1>1, <1>3, <1>4
  <1>8. \A u \in RcThreads : rcOp'[u].val <= rcSets
    BY <1>1, <1>3, <1>4
  <1>9. RcNumbered'
    BY <1>2, <1>6, <1>7, <1>8 DEF RcNumbered
  <1>10. RcBuried'
    <2>1. SUFFICES ASSUME NEW d \in rcDead
                   PROVE  /\ \A i \in DOMAIN rcL1' : rcL1'[i].key = d.key => rcL1'[i].val # d.val
                          /\ rcL2'[d.key].val # d.val
                          /\ \A u \in RcThreads : rcOp'[u].op \in {"set", "promote"} /\ rcOp'[u].key = d.key => rcOp'[u].val # d.val
      BY DEF RcBuried
    <2>2. /\ \A i \in DOMAIN rcL1 : rcL1[i].key = d.key => rcL1[i].val # d.val
          /\ rcL2[d.key].val # d.val
          /\ \A u \in RcThreads : rcOp[u].op \in {"set", "promote"} /\ rcOp[u].key = d.key => rcOp[u].val # d.val
      BY DEF RcBuried
    <2>3. \A i \in DOMAIN rcL1' : rcL1'[i].key = d.key => rcL1'[i].val # d.val
      BY <2>2
    <2>4. rcL2'[d.key].val # d.val
      BY <1>1, <1>2, <2>2
    <2>5. \A u \in RcThreads : rcOp'[u].op \in {"set", "promote"} /\ rcOp'[u].key = d.key => rcOp'[u].val # d.val
      BY <2>2
    <2>6. QED
      BY <2>3, <2>4, <2>5
  <1>11. QED
    BY <1>9, <1>10

\* The invariant has what the lemmas about removing and storing need.
LEMMA RcHoldsHere ==
  ASSUME RcIInv
  PROVE  RcHolds(rcL1, rcTags)
PROOF
  BY DEF RcIInv, RcTypes, RcIndexed, RcHolds

\* The answers of Redis are counted right.
LEMMA RcCounted ==
  ASSUME RcTypes, RcDegradedRightly, RcFailed \/ RcSucceeded \/ RcRedisKept
  PROVE  RcDegradedRightly' /\ rcFails' \in Nat
PROOF
  <1>1. rcFails \in Nat
    BY DEF RcTypes
  <1>2. QED
    BY <1>1, RcAssumption DEF RcFailed, RcSucceeded, RcRedisKept, RcDegradedRightly

\* set writes to Redis, or fails to, after it wrote to L1.
LEMMA RcStepSetL2 ==
  ASSUME RcIInv, NEW t \in RcThreads, NEW ok \in BOOLEAN, RcSetL2(t, ok)
  PROVE  RcIInv'
PROOF
  <1>1. RcTypes /\ RcOneKey /\ RcNumbered /\ RcBuried /\ RcAlone /\ RcDegradedRightly
    BY DEF RcIInv
  <1>2. rcOp[t].op = "set" /\ RcEnd(t) /\ UNCHANGED <<rcL1, rcTags, rcSets, rcDead, rcGot>>
    BY DEF RcSetL2
  <1>3. rcOp[t] \in RcOperations /\ rcOp[t].key \in RcKeys
    BY <1>1, <1>2 DEF RcTypes, RcOneKey
  <1>4. /\ RcFailed \/ RcSucceeded \/ RcRedisKept
        /\ rcL2' = rcL2 \/ rcL2' = [rcL2 EXCEPT ![rcOp[t].key] = [val |-> rcOp[t].val, tags |-> rcOp[t].tags, ttl |-> rcOp[t].ttl]]
    BY DEF RcSetL2
  <1>5. [val |-> rcOp[t].val, tags |-> rcOp[t].tags, ttl |-> rcOp[t].ttl] \in [val : Nat, tags : SUBSET RcTagNames, ttl : BOOLEAN]
    BY <1>3 DEF RcOperations
  <1>6. rcL2' \in [RcKeys -> [val : Nat, tags : SUBSET RcTagNames, ttl : BOOLEAN]]
    BY <1>1, <1>3, <1>4, <1>5 DEF RcTypes
  <1>7. \A k \in RcKeys : rcL2'[k] = rcL2[k] \/ (rcOp[t].key = k /\ rcL2'[k].val = rcOp[t].val)
    BY <1>1, <1>3, <1>4 DEF RcTypes
  <1>8. rcOp' \in [RcThreads -> RcOperations] /\ \A u \in RcThreads : rcOp'[u] = IF u = t THEN RcIdle ELSE rcOp[u]
    BY <1>1, <1>2, RcIdleTyped DEF RcTypes, RcEnd
  <1>9. RcDegradedRightly' /\ rcFails' \in Nat
    BY <1>1, <1>4, RcCounted
  <1>10. RcTypes'
    BY <1>1, <1>2, <1>6, <1>8, <1>9 DEF RcTypes
  <1>11. RcOneKey'
    BY <1>1, <1>8 DEF RcOneKey, RcIdle
  <1>12. RcNumbered' /\ RcBuried'
    <2>1. \A j \in DOMAIN rcL1' : \E i \in DOMAIN rcL1 : rcL1'[j] = rcL1[i]
      BY <1>2
    <2>2. \A k \in RcKeys : rcL2'[k] \in {rcL2[k], RcNil} \/ \E u \in RcThreads : rcOp[u].op = "set" /\ rcOp[u].key = k /\ rcL2'[k].val = rcOp[u].val
      BY <1>2, <1>7
    <2>3. \A u \in RcThreads : \/ rcOp'[u].op = rcOp[u].op /\ rcOp'[u].key = rcOp[u].key /\ rcOp'[u].val = rcOp[u].val
                               \/ rcOp'[u].op \notin {"set", "promote"} /\ rcOp'[u].val \in {0, rcSets}
      BY <1>8 DEF RcIdle
    <2>4. QED
      BY <1>1, <1>2, <1>10, <2>1, <2>2, <2>3, RcOlder
  <1>13. RcAlone'
    <2>1. \A j \in DOMAIN rcL1' : \E i \in DOMAIN rcL1 : rcL1'[j] = rcL1[i]
      BY <1>2
    <2>2. QED
      BY <1>1, <1>2, <2>1, RcEnds
  <1>14. RcIndexed' /\ RcInvalidatedGone'
    BY <1>2 DEF RcIInv, RcIndexed, RcInvalidatedGone
  <1>15. QED
    BY <1>9, <1>10, <1>11, <1>12, <1>13, <1>14 DEF RcIInv

\* L1 changes, and an operation on keys begins that stores nothing.
LEMMA RcStepBegin ==
  ASSUME RcIInv, NEW t \in RcThreads, NEW o \in RcOperations, RcBegin(t, o),
         (o.op = "get" /\ o.val = 0 /\ o.key \in RcKeys /\ o.keys = {o.key}) \/ (o.op = "delete" /\ o.val = rcSets),
         RcHolds(rcL1', rcTags'),
         \A j \in DOMAIN rcL1' : rcL1'[j].key \notin o.keys /\ \E i \in DOMAIN rcL1 : rcL1'[j] = rcL1[i],
         UNCHANGED <<rcL2, rcFails, rcState, rcSets, rcDead, rcGot>>
  PROVE  RcIInv'
PROOF
  <1>1. RcTypes /\ RcOneKey /\ RcNumbered /\ RcBuried /\ RcAlone /\ RcDegradedRightly
    BY DEF RcIInv
  <1>2. rcOp' \in [RcThreads -> RcOperations] /\ \A u \in RcThreads : rcOp'[u] = IF u = t THEN o ELSE rcOp[u]
    BY <1>1 DEF RcTypes, RcBegin
  <1>3. RcTypes'
    BY <1>1, <1>2 DEF RcTypes, RcHolds
  <1>4. RcOneKey'
    BY <1>1, <1>2 DEF RcOneKey
  <1>5. RcNumbered' /\ RcBuried'
    <2>1. \A k \in RcKeys : rcL2'[k] \in {rcL2[k], RcNil}
      OBVIOUS
    <2>2. \A u \in RcThreads : \/ rcOp'[u].op = rcOp[u].op /\ rcOp'[u].key = rcOp[u].key /\ rcOp'[u].val = rcOp[u].val
                               \/ rcOp'[u].op \notin {"set", "promote"} /\ rcOp'[u].val \in {0, rcSets}
      BY <1>2
    <2>3. QED
      BY <1>1, <1>3, <2>1, <2>2, RcOlder
  <1>6. RcAlone'
    BY <1>1, RcBegins
  <1>7. RcIndexed'
    BY DEF RcHolds, RcIndexed
  <1>8. RcInvalidatedGone' /\ RcDegradedRightly'
    BY DEF RcIInv, RcInvalidatedGone, RcDegradedRightly
  <1>9. QED
    BY <1>3, <1>4, <1>5, <1>6, <1>7, <1>8 DEF RcIInv

\* What is left of L1 is L1 without some keys.
LEMMA RcRest ==
  ASSUME RcHolds(rcL1, rcTags), NEW keys, NEW rest \in RcWithout(rcL1, keys)
  PROVE  \A j \in DOMAIN rest : rest[j].key \notin keys /\ \E i \in DOMAIN rcL1 : rest[j] = rcL1[i]
PROOF
  <1>1. rcL1 \in Seq(RcEntries) /\ \A i, j \in DOMAIN rcL1 : rcL1[i].key = rcL1[j].key => i = j
    BY DEF RcHolds
  <1>2. QED
    BY <1>1, RcRemoves

\* invalidate removes the key from L1 first.
LEMMA RcStepInvalidate ==
  ASSUME RcIInv, NEW t \in RcThreads, NEW k \in RcKeys, RcInvalidate(t, k)
  PROVE  RcIInv'
PROOF
  <1> DEFINE o == [RcIdle EXCEPT !.op = "delete", !.val = rcSets, !.keys = {k}]
  <1>1. RcHolds(rcL1, rcTags) /\ rcSets \in Nat
    BY RcHoldsHere DEF RcIInv, RcTypes
  <1>2. /\ rcL1' \in RcWithout(rcL1, {k}) /\ rcTags' = IF RcHas(k) THEN RcUntag(rcTags, RcEntry(k)) ELSE rcTags
        /\ RcBegin(t, o) /\ UNCHANGED <<rcL2, rcFails, rcState, rcSets, rcDead, rcGot>>
    BY DEF RcInvalidate, RcRedisKept
  <1>3. o \in RcOperations /\ o.op = "delete" /\ o.val = rcSets /\ o.keys = {k}
    BY <1>1 DEF RcIdle, RcOperations
  <1> HIDE DEF o
  <1>4. RcHolds(rcL1', rcTags')
    BY <1>1, <1>2, RcLeavesKey
  <1>5. \A j \in DOMAIN rcL1' : rcL1'[j].key \notin o.keys /\ \E i \in DOMAIN rcL1 : rcL1'[j] = rcL1[i]
    BY <1>1, <1>2, <1>3, RcRest
  <1>6. QED
    BY <1>2, <1>3, <1>4, <1>5, RcStepBegin

\* invalidate_by_tag removes the keys of the tag from L1 first.
LEMMA RcStepInvalidateTag ==
  ASSUME RcIInv, NEW t \in RcThreads, NEW tag \in RcTagNames, RcInvalidateTag(t, tag)
  PROVE  RcIInv'
PROOF
  <1> DEFINE o == [RcIdle EXCEPT !.op = "delete", !.val = rcSets, !.keys = rcTags[tag]]
  <1>1. RcHolds(rcL1, rcTags) /\ rcSets \in Nat /\ rcTags \in [RcTagNames -> SUBSET RcKeys]
    BY RcHoldsHere DEF RcIInv, RcTypes
  <1>2. /\ rcL1' \in RcWithout(rcL1, rcTags[tag]) /\ rcTags' = [rcTags EXCEPT ![tag] = {}]
        /\ RcBegin(t, o) /\ UNCHANGED <<rcL2, rcFails, rcState, rcSets, rcDead, rcGot>>
    BY DEF RcInvalidateTag, RcRedisKept
  <1>3. o \in RcOperations /\ o.op = "delete" /\ o.val = rcSets /\ o.keys = rcTags[tag]
    BY <1>1 DEF RcIdle, RcOperations
  <1> HIDE DEF o
  <1>4. RcHolds(rcL1', rcTags')
    <2>1. rcTags' \in [RcTagNames -> SUBSET RcKeys] /\ \A x \in RcTagNames : x # tag => rcTags'[x] = rcTags[x]
      BY <1>1, <1>2
    <2>2. ASSUME NEW i \in DOMAIN rcL1, rcL1[i].key \notin rcTags[tag], NEW x \in rcL1[i].tags
          PROVE  rcL1[i].key \in rcTags'[x]
      <3>1. rcL1[i] \in RcEntries /\ rcL1[i].key \in rcTags[x]
        BY <1>1 DEF RcHolds
      <3>2. x \in RcTagNames /\ x # tag
        BY <2>2, <3>1 DEF RcEntries
      <3>3. QED
        BY <2>1, <3>1, <3>2
    <2>3. QED
      BY <1>1, <1>2, <2>1, <2>2, RcLeaves
  <1>5. \A j \in DOMAIN rcL1' : rcL1'[j].key \notin o.keys /\ \E i \in DOMAIN rcL1 : rcL1'[j] = rcL1[i]
    BY <1>1, <1>2, <1>3, RcRest
  <1>6. QED
    BY <1>2, <1>3, <1>4, <1>5, RcStepBegin

\* get looks into L1, and goes on to Redis when the key is missing or expired.
LEMMA RcStepGetL1 ==
  ASSUME RcIInv, NEW t \in RcThreads, NEW k \in RcKeys, NEW expired \in BOOLEAN, RcGetL1(t, k, expired)
  PROVE  RcIInv'
PROOF
  <1>1. RcHolds(rcL1, rcTags) /\ RcTypes /\ RcOneKey /\ RcNumbered /\ RcBuried /\ RcAlone /\ RcDegradedRightly
    BY RcHoldsHere DEF RcIInv
  <1>2. UNCHANGED <<rcL2, rcFails, rcState, rcSets, rcDead>>
    BY DEF RcGetL1, RcRedisKept
  <1>3. CASE RcHas(k) /\ ~expired
    <2> DEFINE e == RcEntry(k)
    <2>1. PICK i \in DOMAIN rcL1 : e = rcL1[i] /\ rcL1[i].key = k
      BY <1>1, <1>3, RcEntryOf
    <2>2. e \in RcEntries /\ e.key = k /\ e = RcEntry(e.key)
      <3>1. rcL1[i] \in RcEntries
        BY <1>1 DEF RcHolds
      <3>2. QED
        BY <2>1, <3>1
    <2>3. PICK rest \in RcWithout(rcL1, {k}) : rcL1' = Append(rest, e)
      BY <1>3 DEF RcGetL1
    <2>4. rcGot' = [key |-> k, val |-> e.val] /\ UNCHANGED <<rcTags, rcOp, rcMixed>>
      BY <1>3 DEF RcGetL1, RcAnswers
    <2> HIDE DEF e
    <2>5. RcHas(e.key) /\ rest \in RcWithout(rcL1, {e.key})
      BY <1>3, <2>2, <2>3
    <2>6. RcHolds(rcL1', rcTags') /\ RcFrom(rcL1', rcL1, e)
      BY <1>1, <2>2, <2>3, <2>4, <2>5, RcMoves
    <2>7. \A j \in DOMAIN rcL1' : \E x \in DOMAIN rcL1 : rcL1'[j] = rcL1[x]
      BY <2>1, <2>6 DEF RcFrom
    <2>8. RcTypes'
      BY <1>1, <1>2, <2>4, <2>6 DEF RcTypes, RcHolds
    <2>9. RcOneKey' /\ RcDegradedRightly'
      BY <1>1, <1>2, <2>4 DEF RcOneKey, RcDegradedRightly
    <2>10. RcNumbered' /\ RcBuried'
      <3>1. \A x \in RcKeys : rcL2'[x] \in {rcL2[x], RcNil}
        BY <1>2
      <3>2. \A u \in RcThreads : rcOp'[u].op = rcOp[u].op /\ rcOp'[u].key = rcOp[u].key /\ rcOp'[u].val = rcOp[u].val
        BY <2>4
      <3>3. QED
        BY <1>1, <1>2, <2>7, <2>8, <3>1, <3>2, RcOlder
    <2>11. RcAlone'
      BY <1>1, <2>4, <2>7 DEF RcAlone
    <2>12. RcIndexed'
      BY <2>6 DEF RcHolds, RcIndexed
    <2>13. RcInvalidatedGone'
      <3>1. SUFFICES ASSUME rcGot' \in rcDead
                     PROVE  FALSE
        BY <1>2 DEF RcInvalidatedGone
      <3>2. rcGot'.key = k /\ rcGot'.val = rcL1[i].val
        BY <2>1, <2>4
      <3>3. QED
        BY <1>1, <2>1, <3>1, <3>2 DEF RcBuried
    <2>14. QED
      BY <2>8, <2>9, <2>10, <2>11, <2>12, <2>13 DEF RcIInv
  <1>4. CASE ~(RcHas(k) /\ ~expired)
    <2> DEFINE o == [RcIdle EXCEPT !.op = "get", !.key = k, !.keys = {k}]
    <2>1. /\ rcL1' \in RcWithout(rcL1, {k}) /\ rcTags' = IF RcHas(k) THEN RcUntag(rcTags, RcEntry(k)) ELSE rcTags
          /\ RcBegin(t, o) /\ UNCHANGED rcGot
      BY <1>4 DEF RcGetL1
    <2>2. o \in RcOperations /\ o.op = "get" /\ o.val = 0 /\ o.key = k /\ o.keys = {k}
      BY <1>1 DEF RcIdle, RcOperations
    <2> HIDE DEF o
    <2>3. RcHolds(rcL1', rcTags')
      BY <1>1, <2>1, RcLeavesKey
    <2>4. \A j \in DOMAIN rcL1' : rcL1'[j].key \notin o.keys /\ \E i \in DOMAIN rcL1 : rcL1'[j] = rcL1[i]
      BY <1>1, <2>1, <2>2, RcRest
    <2>5. UNCHANGED <<rcL2, rcFails, rcState, rcSets, rcDead, rcGot>> /\ RcBegin(t, o)
      BY <1>2, <2>1
    <2>6. (o.op = "get" /\ o.val = 0 /\ o.key \in RcKeys /\ o.keys = {o.key}) \/ (o.op = "delete" /\ o.val = rcSets)
      BY <2>2
    <2>7. QED
      BY <2>2, <2>3, <2>4, <2>5, <2>6, RcStepBegin
  <1>5. QED
    BY <1>3, <1>4

\* Nothing is promoted that was invalidated.
LEMMA RcStepGetL2 ==
  ASSUME RcIInv, NEW t \in RcThreads, NEW ok \in BOOLEAN, NEW due \in BOOLEAN, RcGetL2(t, ok, due)
  PROVE  RcIInv'
PROOF
  <1> DEFINE k == rcOp[t].key
             p == [op |-> "promote", key |-> k, val |-> rcL2[k].val, tags |-> rcL2[k].tags, ttl |-> FALSE, keys |-> {k}]
  <1>1. RcTypes /\ RcOneKey /\ RcNumbered /\ RcBuried /\ RcAlone /\ RcDegradedRightly /\ rcFails \in Nat
    BY DEF RcIInv, RcTypes
  <1>2. rcOp[t].op = "get" /\ k \in RcKeys /\ rcOp[t].keys = {k} /\ UNCHANGED <<rcL1, rcTags, rcL2, rcSets, rcDead>>
    BY <1>1 DEF RcGetL2, RcOneKey
  <1>3. \/ RcEnd(t) /\ rcGot' = [key |-> k, val |-> 0]
        \/ rcOp' = [rcOp EXCEPT ![t] = p] /\ UNCHANGED <<rcMixed, rcGot>>
    BY DEF RcGetL2, RcAnswers
  <1>4. RcDegradedRightly' /\ rcFails' \in Nat
    BY <1>1, RcAssumption DEF RcGetL2, RcDegradedRightly
  <1>5. p \in RcOperations
    BY <1>1, <1>2 DEF RcTypes, RcOperations
  <1>6. p.op = "promote" /\ p.key = k /\ p.val = rcL2[k].val /\ p.keys = {k}
    OBVIOUS
  <1> HIDE DEF p, k
  <1>7. /\ rcOp' \in [RcThreads -> RcOperations]
        /\ \A u \in RcThreads : rcOp'[u] = rcOp[u] \/ (u = t /\ rcOp'[u] \in {RcIdle, p})
    <2>1. rcOp \in [RcThreads -> RcOperations]
      BY <1>1 DEF RcTypes
    <2>2. rcOp' = [rcOp EXCEPT ![t] = RcIdle] \/ rcOp' = [rcOp EXCEPT ![t] = p]
      BY <1>3 DEF RcEnd
    <2>3. CASE rcOp' = [rcOp EXCEPT ![t] = RcIdle]
      BY <2>1, <2>3, RcIdleTyped
    <2>4. CASE rcOp' = [rcOp EXCEPT ![t] = p]
      BY <1>5, <2>1, <2>4
    <2>5. QED
      BY <2>2, <2>3, <2>4
  <1>8. RcTypes'
    BY <1>1, <1>2, <1>4, <1>7 DEF RcTypes
  <1>9. RcOneKey'
    BY <1>1, <1>2, <1>6, <1>7 DEF RcOneKey, RcIdle
  <1>10. RcNumbered' /\ RcBuried'
    <2>1. \A j \in DOMAIN rcL1' : \E i \in DOMAIN rcL1 : rcL1'[j] = rcL1[i]
      BY <1>2
    <2>2. \A x \in RcKeys : rcL2'[x] \in {rcL2[x], RcNil}
      BY <1>2
    <2>3. \A u \in RcThreads : \/ rcOp'[u].op = rcOp[u].op /\ rcOp'[u].key = rcOp[u].key /\ rcOp'[u].val = rcOp[u].val
                               \/ rcOp'[u].op \notin {"set", "promote"} /\ rcOp'[u].val \in {0, rcSets}
                               \/ \E x \in RcKeys : rcOp'[u].op = "promote" /\ rcOp'[u].key = x /\ rcOp'[u].val = rcL2[x].val
      BY <1>2, <1>6, <1>7 DEF RcIdle
    <2>4. QED
      BY <1>1, <1>2, <1>8, <2>1, <2>2, <2>3, RcOlder
  <1>11. RcAlone'
    <2>1. CASE RcEnd(t)
      <3>1. \A j \in DOMAIN rcL1' : \E i \in DOMAIN rcL1 : rcL1'[j] = rcL1[i]
        BY <1>2
      <3>2. QED
        BY <1>1, <2>1, <3>1, RcEnds
    <2>2. CASE rcOp' = [rcOp EXCEPT ![t] = p] /\ UNCHANGED <<rcMixed, rcGot>>
      <3>1. \A u \in RcThreads : rcOp'[u] = IF u = t THEN p ELSE rcOp[u]
        BY <1>1, <2>2 DEF RcTypes
      <3>2. \A u \in RcThreads : rcOp'[u].keys = rcOp[u].keys /\ (rcOp'[u].op = "delete" => rcOp[u].op = "delete")
        BY <1>2, <1>6, <3>1
      <3>3. QED
        BY <1>1, <1>2, <2>2, <3>2 DEF RcAlone
    <2>3. QED
      BY <1>3, <2>1, <2>2
  <1>12. RcIndexed' /\ RcInvalidatedGone'
    BY <1>2, <1>3 DEF RcIInv, RcIndexed, RcInvalidatedGone
  <1>13. QED
    BY <1>4, <1>8, <1>9, <1>10, <1>11, <1>12 DEF RcIInv

\* get puts what it found in Redis into L1.
LEMMA RcStepPromote ==
  ASSUME RcIInv, NEW t \in RcThreads, RcPromote(t)
  PROVE  RcIInv'
PROOF
  <1> DEFINE e == [key |-> rcOp[t].key, val |-> rcOp[t].val, tags |-> rcOp[t].tags, ttl |-> FALSE]
  <1>1. RcHolds(rcL1, rcTags) /\ RcTypes /\ RcOneKey /\ RcNumbered /\ RcBuried /\ RcAlone /\ RcDegradedRightly
    BY RcHoldsHere DEF RcIInv
  <1>2. rcOp[t].op = "promote" /\ RcSucceeded /\ RcEnd(t) /\ UNCHANGED <<rcL2, rcSets, rcDead>>
    BY DEF RcPromote
  <1>3. rcL1' = RcStored(rcL1, e) /\ rcTags' = RcStoredTags(rcL1, e) /\ rcGot' = [key |-> rcOp[t].key, val |-> rcOp[t].val]
    BY DEF RcPromote, RcAnswers
  <1>4. rcOp[t] \in RcOperations /\ rcOp[t].key \in RcKeys /\ rcOp[t].keys = {rcOp[t].key}
    BY <1>1, <1>2 DEF RcTypes, RcOneKey
  <1>5. e \in RcEntries /\ e.key = rcOp[t].key /\ e.val = rcOp[t].val
    BY <1>4 DEF RcOperations, RcEntries
  <1> HIDE DEF e
  <1>6. RcHolds(rcL1', rcTags') /\ RcFrom(rcL1', rcL1, e)
    BY <1>1, <1>3, <1>5, RcStores
  <1>7. RcDegradedRightly' /\ rcFails' \in Nat
    BY <1>1, <1>2, RcCounted
  <1>8. rcOp' \in [RcThreads -> RcOperations] /\ \A u \in RcThreads : rcOp'[u] = IF u = t THEN RcIdle ELSE rcOp[u]
    BY <1>1, <1>2, RcIdleTyped DEF RcTypes, RcEnd
  <1>9. RcTypes'
    BY <1>1, <1>2, <1>6, <1>7, <1>8 DEF RcTypes, RcHolds
  <1>10. RcOneKey'
    BY <1>1, <1>8 DEF RcOneKey, RcIdle
  <1>11. \A j \in DOMAIN rcL1' : (\E i \in DOMAIN rcL1 : rcL1'[j] = rcL1[i]) \/ (rcL1'[j].key = rcOp[t].key /\ rcL1'[j].val = rcOp[t].val)
    BY <1>5, <1>6 DEF RcFrom
  <1>12. RcNumbered' /\ RcBuried'
    <2>1. \A j \in DOMAIN rcL1' : (\E i \in DOMAIN rcL1 : rcL1'[j] = rcL1[i])
                                  \/ (\E u \in RcThreads : rcOp[u].op = "promote" /\ rcL1'[j].key = rcOp[u].key /\ rcL1'[j].val = rcOp[u].val)
      BY <1>2, <1>11
    <2>2. \A k \in RcKeys : rcL2'[k] \in {rcL2[k], RcNil}
      BY <1>2
    <2>3. \A u \in RcThreads : \/ rcOp'[u].op = rcOp[u].op /\ rcOp'[u].key = rcOp[u].key /\ rcOp'[u].val = rcOp[u].val
                               \/ rcOp'[u].op \notin {"set", "promote"} /\ rcOp'[u].val \in {0, rcSets}
      BY <1>8 DEF RcIdle
    <2>4. QED
      BY <1>1, <1>2, <1>9, <2>1, <2>2, <2>3, RcOlder
  <1>13. RcAlone'
    <2>1. \A j \in DOMAIN rcL1' : (rcL1'[j].key \in rcOp[t].keys /\ rcOp[t].op # "delete") \/ \E i \in DOMAIN rcL1 : rcL1'[j] = rcL1[i]
      BY <1>2, <1>4, <1>11
    <2>2. QED
      BY <1>1, <1>2, <2>1, RcEnds
  <1>14. RcIndexed'
    BY <1>6 DEF RcHolds, RcIndexed
  <1>15. RcInvalidatedGone'
    <2>1. SUFFICES ASSUME rcGot' \in rcDead
                   PROVE  FALSE
      BY <1>2 DEF RcInvalidatedGone
    <2>2. rcGot'.key = rcOp[t].key /\ rcGot'.val = rcOp[t].val
      BY <1>3
    <2>3. QED
      BY <1>1, <1>2, <2>1, <2>2 DEF RcBuried
  <1>16. QED
    BY <1>7, <1>9, <1>10, <1>12, <1>13, <1>14, <1>15 DEF RcIInv

\* A key that is deleted while nothing overlaps is buried with all the values it had.
LEMMA RcStepDelete ==
  ASSUME RcIInv, NEW t \in RcThreads, NEW k \in RcKeys, NEW ok \in BOOLEAN, RcDelete(t, k, ok)
  PROVE  RcIInv'
PROOF
  <1> DEFINE dead == {[key |-> k, val |-> v] : v \in 1 .. rcOp[t].val}
             rest == rcOp[t].keys \ {k}
  <1>1. RcTypes /\ RcOneKey /\ RcNumbered /\ RcBuried /\ RcAlone /\ RcDegradedRightly
    BY DEF RcIInv
  <1>2. rcOp[t].op = "delete" /\ k \in rcOp[t].keys /\ rcGot' = [key |-> k, val |-> 0] /\ UNCHANGED <<rcL1, rcTags, rcSets>>
    BY DEF RcDelete, RcAnswers
  <1>3. RcEnd(t) \/ (rcOp' = [rcOp EXCEPT ![t].keys = rest] /\ UNCHANGED rcMixed)
    BY DEF RcDelete
  <1>4. /\ RcFailed \/ RcRedisKept
        /\ rcL2' = rcL2 \/ rcL2' = [rcL2 EXCEPT ![k] = RcNil]
        /\ rcDead' = rcDead \/ (t \notin rcMixed /\ rcDead' = rcDead \cup dead /\ rcL2' = [rcL2 EXCEPT ![k] = RcNil])
    BY DEF RcDelete, RcDeletes
  <1>5. rcOp[t] \in RcOperations /\ rcOp[t].val \in Nat /\ rcOp[t].val <= rcSets /\ rcSets \in Nat
    <2>1. rcOp[t] \in RcOperations
      BY <1>1 DEF RcTypes
    <2>2. QED
      BY <1>1, <2>1 DEF RcTypes, RcNumbered, RcOperations
  <1>6. dead \subseteq [key : RcKeys, val : Nat \ {0}] /\ \A d \in dead : d.key = k /\ d.val <= rcSets
    BY <1>5
  <1>7. RcNil \in [val : Nat, tags : SUBSET RcTagNames, ttl : BOOLEAN] /\ RcNil.val = 0
    BY DEF RcNil
  <1> HIDE DEF dead
  <1>8. /\ rcOp' \in [RcThreads -> RcOperations]
        /\ \A u \in RcThreads : rcOp'[u] = rcOp[u] \/ (u = t /\ rcOp'[u] = RcIdle) \/ (u = t /\ rcOp'[u] = [rcOp[t] EXCEPT !.keys = rest])
    <2>1. [rcOp[t] EXCEPT !.keys = rest] \in RcOperations
      BY <1>5 DEF RcOperations
    <2>2. QED
      <3>1. rcOp \in [RcThreads -> RcOperations]
        BY <1>1 DEF RcTypes
      <3>2. rcOp' = [rcOp EXCEPT ![t] = RcIdle] \/ rcOp' = [rcOp EXCEPT ![t] = [rcOp[t] EXCEPT !.keys = rest]]
        BY <1>3 DEF RcEnd
      <3>3. CASE rcOp' = [rcOp EXCEPT ![t] = RcIdle]
        BY <3>1, <3>3, RcIdleTyped
      <3>4. CASE rcOp' = [rcOp EXCEPT ![t] = [rcOp[t] EXCEPT !.keys = rest]]
        BY <2>1, <3>1, <3>4
      <3>5. QED
        BY <3>2, <3>3, <3>4
  <1>9. RcDegradedRightly' /\ rcFails' \in Nat
    BY <1>1, <1>4, RcCounted
  <1>10. /\ rcL2' \in [RcKeys -> [val : Nat, tags : SUBSET RcTagNames, ttl : BOOLEAN]]
         /\ \A x \in RcKeys : rcL2'[x] = rcL2[x] \/ rcL2'[x] = RcNil
    BY <1>1, <1>4, <1>7 DEF RcTypes
  <1>11. RcTypes'
    BY <1>1, <1>2, <1>4, <1>6, <1>8, <1>9, <1>10 DEF RcTypes
  <1>12. \A u \in RcThreads : /\ rcOp'[u].op \in {"set", "get", "promote"} => rcOp'[u] = rcOp[u]
                              /\ rcOp'[u].op = "delete" => rcOp[u].op = "delete" /\ rcOp'[u].keys \subseteq rcOp[u].keys
                              /\ rcOp'[u].val = rcOp[u].val \/ rcOp'[u].val = 0
                              /\ rcOp'[u].keys \subseteq rcOp[u].keys
    <2>1. [rcOp[t] EXCEPT !.keys = rest].op = "delete" /\ [rcOp[t] EXCEPT !.keys = rest].keys = rest /\ [rcOp[t] EXCEPT !.keys = rest].val = rcOp[t].val
      BY <1>2, <1>5 DEF RcOperations
    <2> HIDE DEF rest
    <2>2. rest \subseteq rcOp[t].keys
      BY DEF rest
    <2>3. RcIdle.op = "none" /\ RcIdle.keys = {} /\ RcIdle.val = 0
      BY DEF RcIdle
    <2>4. SUFFICES ASSUME NEW u \in RcThreads
                   PROVE  /\ rcOp'[u].op \in {"set", "get", "promote"} => rcOp'[u] = rcOp[u]
                          /\ rcOp'[u].op = "delete" => rcOp[u].op = "delete" /\ rcOp'[u].keys \subseteq rcOp[u].keys
                          /\ rcOp'[u].val = rcOp[u].val \/ rcOp'[u].val = 0
                          /\ rcOp'[u].keys \subseteq rcOp[u].keys
      OBVIOUS
    <2>5. CASE rcOp'[u] = rcOp[u]
      BY <2>5
    <2>6. CASE u = t /\ rcOp'[u] = RcIdle
      BY <2>3, <2>6
    <2>7. CASE u = t /\ rcOp'[u] = [rcOp[t] EXCEPT !.keys = rest]
      <3>1. rcOp'[u].op = "delete" /\ rcOp'[u].keys = rest /\ rcOp'[u].val = rcOp[u].val /\ rcOp[u].op = "delete" /\ rest \subseteq rcOp[u].keys
        BY <1>2, <2>1, <2>2, <2>7
      <3>2. QED
        BY <3>1
    <2>8. QED
      BY <1>8, <2>5, <2>6, <2>7
  <1>13. RcOneKey'
    BY <1>1, <1>12 DEF RcOneKey
  <1>14. RcAlone'
    <2>1. rcMixed' = rcMixed \/ RcEnd(t)
      BY <1>3
    <2>2. CASE RcEnd(t)
      <3>1. \A j \in DOMAIN rcL1' : \E i \in DOMAIN rcL1 : rcL1'[j] = rcL1[i]
        BY <1>2
      <3>2. QED
        BY <1>1, <2>2, <3>1, RcEnds
    <2>3. CASE rcMixed' = rcMixed
      <3>1. SUFFICES ASSUME NEW x \in RcThreads \ rcMixed, rcOp'[x].op = "delete"
                     PROVE  /\ \A u \in RcThreads \ {x} : rcOp'[u].keys \cap rcOp'[x].keys = {}
                            /\ \A i \in DOMAIN rcL1 : rcL1[i].key \notin rcOp'[x].keys
        BY <1>2, <2>3 DEF RcAlone
      <3>2. /\ \A u \in RcThreads \ {x} : rcOp[u].keys \cap rcOp[x].keys = {}
            /\ \A i \in DOMAIN rcL1 : rcL1[i].key \notin rcOp[x].keys
        BY <1>1, <1>12, <3>1 DEF RcAlone
      <3>3. QED
        BY <1>12, <3>1, <3>2
    <2>4. QED
      BY <2>1, <2>2, <2>3
  <1>15. RcNumbered'
    <2>1. \A i \in DOMAIN rcL1' : rcL1'[i].val <= rcSets'
      BY <1>1, <1>2 DEF RcNumbered
    <2>2. \A x \in RcKeys : rcL2'[x].val <= rcSets'
      BY <1>1, <1>2, <1>5, <1>7, <1>10 DEF RcNumbered
    <2>3. \A u \in RcThreads : rcOp'[u].val <= rcSets'
      BY <1>1, <1>2, <1>5, <1>12 DEF RcNumbered
    <2>4. \A d \in rcDead' : d.val <= rcSets'
      BY <1>1, <1>2, <1>4, <1>6 DEF RcNumbered
    <2>5. QED
      BY <2>1, <2>2, <2>3, <2>4 DEF RcNumbered
  <1>16. RcBuried'
    <2>1. SUFFICES ASSUME NEW d \in rcDead'
                   PROVE  /\ \A i \in DOMAIN rcL1 : rcL1[i].key = d.key => rcL1[i].val # d.val
                          /\ rcL2'[d.key].val # d.val
                          /\ \A u \in RcThreads : rcOp'[u].op \in {"set", "promote"} /\ rcOp'[u].key = d.key => rcOp'[u].val # d.val
      BY <1>2 DEF RcBuried
    <2>2. d.key \in RcKeys /\ d.val # 0
      BY <1>11 DEF RcTypes
    <2>3. CASE d \in rcDead
      <3>1. /\ \A i \in DOMAIN rcL1 : rcL1[i].key = d.key => rcL1[i].val # d.val
            /\ rcL2[d.key].val # d.val
            /\ \A u \in RcThreads : rcOp[u].op \in {"set", "promote"} /\ rcOp[u].key = d.key => rcOp[u].val # d.val
        BY <1>1, <2>3 DEF RcBuried
      <3>2. rcL2'[d.key].val # d.val
        BY <1>7, <1>10, <2>2, <3>1
      <3>3. QED
        BY <1>12, <3>1, <3>2
    <2>4. CASE d \in dead /\ t \notin rcMixed /\ rcL2' = [rcL2 EXCEPT ![k] = RcNil]
      <3>1. d.key = k /\ rcL2'[k] = RcNil
        BY <1>1, <1>6, <2>4 DEF RcTypes
      <3>2. /\ \A u \in RcThreads \ {t} : rcOp[u].keys \cap rcOp[t].keys = {}
            /\ \A i \in DOMAIN rcL1 : rcL1[i].key \notin rcOp[t].keys
        BY <1>1, <1>2, <2>4 DEF RcAlone
      <3>3. \A u \in RcThreads : rcOp'[u].op \in {"set", "promote"} => rcOp'[u].key # k
        BY <1>1, <1>2, <1>12, <3>2 DEF RcOneKey
      <3>4. QED
        BY <1>2, <1>7, <2>2, <3>1, <3>2, <3>3
    <2>5. QED
      BY <1>4, <2>1, <2>3, <2>4
  <1>17. RcIndexed' /\ RcInvalidatedGone'
    BY <1>2 DEF RcIInv, RcIndexed, RcInvalidatedGone
  <1>18. QED
    BY <1>9, <1>11, <1>13, <1>14, <1>15, <1>16, <1>17 DEF RcIInv

\* Redis forgets, or L1 is cleared, or nothing of this happens.
LEMMA RcStepOther ==
  ASSUME RcIInv, RcStart \/ (\E k \in RcKeys : RcExpires(k)) \/ (\E t \in RcThreads : RcClear(t)) \/ UNCHANGED rcVars
  PROVE  RcIInv'
PROOF
  <1>1. RcTypes /\ RcOneKey /\ RcNumbered /\ RcBuried /\ RcAlone /\ RcDegradedRightly /\ RcIndexed /\ RcInvalidatedGone
    BY DEF RcIInv
  <1>2. UNCHANGED <<rcState, rcFails, rcOp, rcSets, rcMixed, rcDead, rcGot>>
    BY DEF RcStart, RcExpires, RcClear, rcVars
  <1>3. UNCHANGED <<rcL1, rcTags>> \/ (rcL1' = <<>> /\ rcTags' = [x \in RcTagNames |-> {}])
    BY DEF RcStart, RcExpires, RcClear, rcVars
  <1>4. rcL2' = rcL2 \/ \E k \in RcKeys : rcL2' = [rcL2 EXCEPT ![k] = RcNil]
    BY DEF RcStart, RcExpires, RcClear, rcVars
  <1>5. RcNil \in [val : Nat, tags : SUBSET RcTagNames, ttl : BOOLEAN]
    BY DEF RcNil
  <1>6. /\ rcL2' \in [RcKeys -> [val : Nat, tags : SUBSET RcTagNames, ttl : BOOLEAN]]
        /\ \A x \in RcKeys : rcL2'[x] = rcL2[x] \/ rcL2'[x] = RcNil
    BY <1>1, <1>4, <1>5 DEF RcTypes
  <1>7. RcTypes'
    <2>1. rcL1' \in Seq(RcEntries) /\ rcTags' \in [RcTagNames -> SUBSET RcKeys]
      <3>1. <<>> \in Seq(RcEntries) /\ [x \in RcTagNames |-> {}] \in [RcTagNames -> SUBSET RcKeys]
        OBVIOUS
      <3>2. QED
        BY <1>1, <1>3, <3>1 DEF RcTypes
    <2>2. QED
      BY <1>1, <1>2, <1>6, <2>1 DEF RcTypes
  <1>8. \A j \in DOMAIN rcL1' : \E i \in DOMAIN rcL1 : rcL1'[j] = rcL1[i]
    BY <1>3
  <1>9. RcNumbered' /\ RcBuried'
    <2>1. \A k \in RcKeys : rcL2'[k] \in {rcL2[k], RcNil}
      BY <1>6
    <2>2. \A u \in RcThreads : rcOp'[u].op = rcOp[u].op /\ rcOp'[u].key = rcOp[u].key /\ rcOp'[u].val = rcOp[u].val
      BY <1>2
    <2>3. QED
      BY <1>1, <1>2, <1>7, <1>8, <2>1, <2>2, RcOlder
  <1>10. RcAlone'
    BY <1>1, <1>2, <1>8 DEF RcAlone
  <1>11. RcIndexed'
    BY <1>1, <1>3, RcAssumption DEF RcIndexed
  <1>12. RcOneKey' /\ RcDegradedRightly' /\ RcInvalidatedGone'
    BY <1>1, <1>2 DEF RcOneKey, RcDegradedRightly, RcInvalidatedGone
  <1>13. QED
    BY <1>7, <1>9, <1>10, <1>11, <1>12 DEF RcIInv

\* Both caches are empty at first.
LEMMA RcStarts == RcInit => RcIInv
PROOF
  <1>1. SUFFICES ASSUME RcInit
                 PROVE  RcIInv
    OBVIOUS
  <1>2. RcNil \in [val : Nat, tags : SUBSET RcTagNames, ttl : BOOLEAN] /\ RcNil.val = 0
    BY DEF RcNil
  <1>3. RcTypes
    BY <1>1, <1>2, RcIdleTyped DEF RcInit, RcTypes
  <1>4. \A t \in RcThreads : rcOp[t].op = "none" /\ rcOp[t].val = 0
    BY <1>1 DEF RcInit, RcIdle
  <1>5. RcOneKey /\ RcAlone
    BY <1>4 DEF RcOneKey, RcAlone
  <1>6. RcIndexed
    BY <1>1, RcAssumption DEF RcInit, RcIndexed
  <1>7. RcNumbered /\ RcBuried
    BY <1>1, <1>2, <1>4 DEF RcInit, RcNumbered, RcBuried
  <1>8. RcInvalidatedGone /\ RcDegradedRightly
    BY <1>1, RcAssumption DEF RcInit, RcInvalidatedGone, RcDegradedRightly
  <1>9. QED
    BY <1>3, <1>5, <1>6, <1>7, <1>8 DEF RcIInv

\* Every step of the cache keeps the invariant.
LEMMA RcStep == RcIInv /\ [RcNext]_rcVars => RcIInv'
PROOF
  <1>1. SUFFICES ASSUME RcIInv, [RcNext]_rcVars
                 PROVE  RcIInv'
    OBVIOUS
  <1>2. ASSUME NEW t \in RcThreads, NEW k \in RcKeys, NEW tags \in {{}, RcTagNames}, NEW ttl \in BOOLEAN, RcSet(t, k, tags, ttl)
        PROVE  RcIInv'
    <2>1. tags \in SUBSET RcTagNames
      OBVIOUS
    <2>2. QED
      BY <1>1, <1>2, <2>1, RcStepSet
  <1>3. QED
    BY <1>1, <1>2, RcStepSetL2, RcStepGetL1, RcStepGetL2, RcStepPromote, RcStepInvalidate, RcStepInvalidateTag,
       RcStepDelete, RcStepOther DEF RcNext

-----------------------------------------------------------------------------
(* Chunks, rankings and rows *)

\* Nothing was read before the mode is chosen, and what the window has passed is in a chunk.
KbCovers ==
    /\ kbMode = "off" => kbPos = 0 /\ ~kbDone
    /\ \A i \in 0 .. Len(kbText) - 1 : (kbText[i + 1] = "w" /\ (kbDone \/ i < kbPos)) => KbIn(i)

\* The rankings are rankings.
KbRanked == kbMode = "fuse" => kbVec \in KbRankings /\ kbKw \in KbRankings

\* As long as runs of knowledge_add do not overlap: one run waits and has read all entries, rows are never ahead of
\* entries, and as many rows as entries are their rows.
KbInStep ==
    ~kbMixed =>
        /\ \A c, d \in KbCallers : kbRun[c].at = "embed" /\ kbRun[d].at = "embed" => c = d
        /\ \A c \in KbCallers : kbRun[c].at = "embed" => kbRun[c].read = kbEntries
        /\ Len(kbRows) <= Len(kbEntries) /\ (Len(kbRows) = Len(kbEntries) => kbRows = kbEntries)
KbLists ==
    /\ kbEntries \in Seq(Nat) /\ kbRows \in Seq(Nat) /\ kbMixed \in BOOLEAN
    /\ kbRun \in [KbCallers -> [at : {"idle", "embed"}, read : Seq(Nat)]]

KbIInv == KbSized /\ KbQuiet /\ KbCovers /\ KbRanked /\ KbLists /\ KbInStep

\* The window ends after its start, in the text.
LEMMA KbEndAfter ==
  ASSUME KbSized, kbPos < Len(kbText)
  PROVE  KbEnd \in Int /\ kbPos < KbEnd /\ KbEnd <= Len(kbText)
PROOF
  <1> DEFINE end == KbMin(kbPos + kbSize, Len(kbText))
             para == KbLast("p", kbPos + kbOver, end)
             blank == KbLast("s", kbPos + kbOver, end)
  <1>1. end \in Nat /\ kbPos + kbOver \in Nat /\ kbPos < end /\ end <= Len(kbText)
    BY DEF KbSized, KbMin
  <1>2. /\ para \in Int /\ (para # -1 => para \in kbPos + kbOver .. end - 1)
        /\ blank \in Int /\ (blank # -1 => blank \in kbPos + kbOver .. end - 1)
    <2> HIDE DEF end
    <2> QED BY <1>1, KbLastBounds
  <1>3. KbEnd = IF end < Len(kbText) /\ (IF para # -1 THEN para ELSE blank) > kbPos
                THEN (IF para # -1 THEN para ELSE blank) ELSE end
    BY DEF KbEnd
  <1>4. kbPos \in Nat /\ Len(kbText) \in Nat /\ kbOver \in Nat
    BY DEF KbSized
  <1> HIDE DEF end, para, blank
  <1>5. (IF para # -1 THEN para ELSE blank) > kbPos => (IF para # -1 THEN para ELSE blank) <= end
    BY <1>1, <1>2, <1>4
  <1>6. QED
    BY <1>1, <1>2, <1>3, <1>4, <1>5

\* A chunk is added from the window, and the next window starts in it or at its end.
LEMMA KbStepsCover ==
  ASSUME KbSized, KbCovers, KbWindow \/ KbSplit
  PROVE  KbCovers'
PROOF
  <1>1. kbPos \in Nat /\ Len(kbText) \in Nat /\ kbPos < Len(kbText) /\ kbText' = kbText /\ kbMode' = kbMode /\ kbMode # "off" /\ ~kbDone
    BY DEF KbSized, KbWindow, KbSplit
  <1>2. PICK end \in Int :
          /\ kbPos < end /\ end <= Len(kbText) /\ kbDone' = (end >= Len(kbText))
          /\ kbDone' => kbPos' = kbPos
          /\ ~kbDone' => kbPos' \in Int /\ kbPos' <= end
          /\ kbOut' = kbOut \cup {<<kbPos, end>>} \/ (kbOut' = kbOut /\ KbBlank(kbPos, end))
    <2>1. CASE KbWindow
      <3>1. KbEnd \in Int /\ kbPos < KbEnd /\ KbEnd <= Len(kbText)
        BY <1>1, KbEndAfter
      <3>2. kbOut' = kbOut \cup {<<kbPos, KbEnd>>} \/ (kbOut' = kbOut /\ KbBlank(kbPos, KbEnd))
        BY <2>1 DEF KbWindow
      <3>3. kbDone' = (KbEnd >= Len(kbText)) /\ kbPos' = IF kbDone' THEN kbPos ELSE kbPos + KbStep(KbEnd)
        BY <2>1 DEF KbWindow
      <3>4. KbStep(KbEnd) \in Int /\ KbStep(KbEnd) <= KbEnd - kbPos
        BY <1>1, <3>1 DEF KbStep, KbBigger, KbSized
      <3>5. ~kbDone' => kbPos' \in Int /\ kbPos' <= KbEnd
        BY <1>1, <3>1, <3>3, <3>4
      <3>6. QED
        BY <3>1, <3>2, <3>3, <3>5
    <2>2. CASE KbSplit
      <3> DEFINE end == KbMin(kbPos + kbSize, Len(kbText))
      <3>1. end \in Int /\ kbPos < end /\ end <= Len(kbText) /\ (end >= Len(kbText)) = (kbPos + kbSize >= Len(kbText))
        BY <1>1 DEF KbSized, KbMin
      <3>2. kbOut' = kbOut \cup {<<kbPos, end>>}
        BY <2>2 DEF KbSplit
      <3>3. kbDone' = (kbPos + kbSize >= Len(kbText)) /\ kbPos' = IF kbDone' THEN kbPos ELSE kbPos + (kbSize - kbOver)
        BY <2>2 DEF KbSplit
      <3>4. ~kbDone' => kbPos' \in Int /\ kbPos' <= end
        <4>1. SUFFICES ASSUME ~kbDone'
                       PROVE  kbPos' \in Int /\ kbPos' <= end
          OBVIOUS
        <4>2. kbPos' = kbPos + (kbSize - kbOver) /\ ~(kbPos + kbSize >= Len(kbText))
          BY <3>3, <4>1
        <4>3. QED
          BY <1>1, <4>2 DEF KbSized, KbMin
      <3> HIDE DEF end
      <3>5. QED
        BY <3>1, <3>2, <3>3, <3>4
    <2>3. QED
      BY <2>1, <2>2
  <1>3. SUFFICES ASSUME NEW i \in 0 .. Len(kbText) - 1, kbText[i + 1] = "w", kbDone' \/ i < kbPos'
                 PROVE  KbIn(i)'
    BY <1>1 DEF KbCovers
  <1>4. kbOut \subseteq kbOut'
    BY <1>2
  <1>5. CASE i < kbPos
    <2>1. KbIn(i)
      BY <1>1, <1>3, <1>5 DEF KbCovers
    <2>2. QED
      BY <1>4, <2>1 DEF KbIn
  <1>6. CASE ~(i < kbPos)
    <2>1. kbPos <= i /\ i < end
      <3>1. CASE kbDone'
        <4>1. end >= Len(kbText)
          BY <1>2, <3>1
        <4>2. QED
          BY <1>1, <1>6, <4>1
      <3>2. CASE ~kbDone'
        <4>1. kbPos' \in Int /\ kbPos' <= end /\ i < kbPos'
          BY <1>2, <1>3, <3>2
        <4>2. QED
          BY <1>1, <1>6, <4>1
      <3>3. QED
        BY <3>1, <3>2
    <2>2. ~KbBlank(kbPos, end)
      BY <1>1, <1>2, <1>3, <2>1 DEF KbBlank
    <2>3. <<kbPos, end>> \in kbOut'
      BY <1>2, <2>2
    <2>4. <<kbPos, end>>[1] = kbPos /\ <<kbPos, end>>[2] = end
      OBVIOUS
    <2>5. QED
      BY <2>1, <2>3, <2>4 DEF KbIn
  <1>7. QED
    BY <1>5, <1>6

\* A list has finitely many members.
LEMMA KbFinite ==
  ASSUME NEW q \in Seq(Nat)
  PROVE  IsFiniteSet({q[i] : i \in DOMAIN q})
PROOF
  <1> DEFINE T == {q[i] : i \in DOMAIN q}
  <1>1. DOMAIN q = 1 .. Len(q) /\ Len(q) \in Nat
    OBVIOUS
  <1>2. IsFiniteSet(DOMAIN q)
    BY <1>1, FS_Interval, 1 \in Int, Len(q) \in Int
  <1>3. q \in [DOMAIN q -> T] /\ \A x \in T : \E i \in DOMAIN q : q[i] = x
    BY <1>1
  <1>4. q \in Surjection(DOMAIN q, T)
    BY <1>3 DEF Surjection
  <1> HIDE DEF T
  <1>5. IsFiniteSet(T)
    BY <1>2, <1>4, FS_Surjection
  <1>6. QED
    BY <1>5 DEF T

\* An entry has the number of its row.
LEMMA KbEntryTyped ==
  ASSUME KbLists, NEW c
  PROVE  KbEntry(c) \in Nat
PROOF
  <1> DEFINE E == {kbEntries[i] : i \in DOMAIN kbEntries}
             R == {kbRows[i] : i \in DOMAIN kbRows}
  <1>1. IsFiniteSet(E) /\ IsFiniteSet(R)
    BY KbFinite DEF KbLists
  <1> HIDE DEF E, R
  <1>2. Cardinality(E \cup R) \in Nat
    BY <1>1, FS_Union, FS_CardinalityType
  <1>3. QED
    BY <1>2 DEF KbEntry, E, R

\* A run of knowledge_add reads, and saves.
LEMMA KbToolInStep ==
  ASSUME KbLists, KbInStep, NEW c \in KbCallers, KbAdd(c) \/ \E r, d \in BOOLEAN : KbSave(c, r, d)
  PROVE  KbLists' /\ KbInStep'
PROOF
  <1>1. kbRun \in [KbCallers -> [at : {"idle", "embed"}, read : Seq(Nat)]] /\ kbEntries \in Seq(Nat) /\ kbRows \in Seq(Nat)
    BY DEF KbLists
  <1>2. CASE KbAdd(c)
    <2> DEFINE r == [at |-> "embed", read |-> kbEntries]
    <2>1. /\ kbRun' = [kbRun EXCEPT ![c] = r] /\ kbMixed' = (kbMixed \/ \E d \in KbCallers \ {c} : kbRun[d].at = "embed")
          /\ UNCHANGED <<kbEntries, kbRows>>
      BY <1>2 DEF KbAdd
    <2>2. r \in [at : {"idle", "embed"}, read : Seq(Nat)] /\ r.at = "embed" /\ r.read = kbEntries
      BY <1>1
    <2> HIDE DEF r
    <2>3. kbRun' \in [KbCallers -> [at : {"idle", "embed"}, read : Seq(Nat)]] /\ \A d \in KbCallers : kbRun'[d] = IF d = c THEN r ELSE kbRun[d]
      BY <1>1, <2>1, <2>2
    <2>4. kbMixed' \in BOOLEAN
      BY <2>1 DEF KbLists
    <2>5. KbLists'
      BY <1>1, <2>1, <2>3, <2>4 DEF KbLists
    <2>6. ASSUME ~kbMixed'
          PROVE  ~kbMixed /\ \A d \in KbCallers : d # c => kbRun[d].at # "embed"
      BY <2>1, <2>6
    <2>7. KbInStep'
      BY <2>1, <2>2, <2>3, <2>6 DEF KbInStep
    <2>8. QED
      BY <2>5, <2>7
  <1>3. ASSUME NEW r \in BOOLEAN, NEW d \in BOOLEAN, KbSave(c, r, d)
        PROVE  KbLists' /\ KbInStep'
    <2> DEFINE n == KbEntry(c)
    <2>1. n \in Nat
      BY KbEntryTyped
    <2>2. /\ kbRun[c].at = "embed" /\ kbRun' = [kbRun EXCEPT ![c] = KbIdle] /\ kbMixed' = kbMixed
          /\ kbEntries' = Append(kbRun[c].read, n)
          /\ kbRows' \in {kbRows, kbEntries', Append(kbRows, n)}
      BY <1>3 DEF KbSave, KbRowsAfter
    <2> HIDE DEF n
    <2>3. KbIdle \in [at : {"idle", "embed"}, read : Seq(Nat)] /\ KbIdle.at = "idle"
      BY DEF KbIdle
    <2>4. /\ kbRun' \in [KbCallers -> [at : {"idle", "embed"}, read : Seq(Nat)]]
          /\ \A x \in KbCallers : kbRun'[x] = IF x = c THEN KbIdle ELSE kbRun[x]
      BY <1>1, <2>2, <2>3
    <2>5. kbRun[c].read \in Seq(Nat)
      BY <1>1
    <2>6. kbEntries' \in Seq(Nat) /\ Append(kbRows, n) \in Seq(Nat)
      BY <1>1, <2>1, <2>2, <2>5
    <2>7. KbLists'
      BY <1>1, <2>2, <2>4, <2>6 DEF KbLists
    <2>8. ASSUME ~kbMixed
          PROVE  /\ \A x \in KbCallers : kbRun'[x].at # "embed"
                 /\ Len(kbRows') <= Len(kbEntries') /\ (Len(kbRows') = Len(kbEntries') => kbRows' = kbEntries')
      <3>1. /\ \A x \in KbCallers : kbRun[x].at = "embed" => x = c
            /\ kbRun[c].read = kbEntries
            /\ Len(kbRows) <= Len(kbEntries) /\ (Len(kbRows) = Len(kbEntries) => kbRows = kbEntries)
        BY <2>2, <2>8 DEF KbInStep
      <3>2. kbEntries' = Append(kbEntries, n) /\ Len(kbEntries') = Len(kbEntries) + 1 /\ Len(kbEntries) \in Nat /\ Len(kbRows) \in Nat
        BY <1>1, <2>1, <2>2, <3>1
      <3>3. Len(Append(kbRows, n)) = Len(kbRows) + 1
        BY <1>1, <2>1
      <3>4. \A x \in KbCallers : kbRun'[x].at # "embed"
        BY <2>3, <2>4, <3>1
      <3>5. CASE kbRows' = kbRows
        BY <3>1, <3>2, <3>4, <3>5
      <3>6. CASE kbRows' = kbEntries'
        <4>1. Len(kbRows') = Len(kbEntries') /\ Len(kbEntries') \in Nat
          BY <3>2, <3>6
        <4>2. QED
          BY <3>4, <3>6, <4>1
      <3>7. CASE kbRows' = Append(kbRows, n)
        BY <3>1, <3>2, <3>3, <3>4, <3>7
      <3>8. QED
        BY <2>2, <3>5, <3>6, <3>7
    <2>9. KbInStep'
      BY <2>2, <2>8 DEF KbInStep
    <2>10. QED
      BY <2>7, <2>9
  <1>4. QED
    BY <1>2, <1>3

\* Nothing was chunked, ranked or added.
LEMMA KbStarts == KbInit => KbIInv
PROOF
  <1>1. SUFFICES ASSUME KbInit
                 PROVE  KbIInv
    OBVIOUS
  <1>2. KbIdle \in [at : {"idle", "embed"}, read : Seq(Nat)] /\ KbIdle.at = "idle"
    BY DEF KbIdle
  <1>3. KbSized /\ KbQuiet
    BY <1>1, KbMovesInit
  <1>4. KbCovers /\ KbRanked
    BY <1>1 DEF KbInit, KbCovers, KbRanked
  <1>5. KbLists
    <2>1. kbEntries = <<>> /\ kbRows = <<>> /\ kbMixed = FALSE /\ kbRun = [c \in KbCallers |-> KbIdle]
      BY <1>1 DEF KbInit
    <2>2. <<>> \in Seq(Nat) /\ [c \in KbCallers |-> KbIdle] \in [KbCallers -> [at : {"idle", "embed"}, read : Seq(Nat)]]
      BY <1>2
    <2>3. QED
      BY <2>1, <2>2 DEF KbLists
  <1>6. \A c \in KbCallers : kbRun[c].at = "idle"
    BY <1>1, <1>2 DEF KbInit
  <1>7. KbInStep
    BY <1>1, <1>6 DEF KbInit, KbInStep
  <1>8. QED
    BY <1>3, <1>4, <1>5, <1>7 DEF KbIInv

\* Every step of the knowledge index keeps the invariant.
LEMMA KbStepInv == KbIInv /\ [KbNext]_kbVars => KbIInv'
PROOF
  <1>1. SUFFICES ASSUME KbIInv, [KbNext]_kbVars
                 PROVE  KbIInv'
    OBVIOUS
  <1>2. KbSized' /\ KbQuiet' /\ KbSized /\ KbQuiet /\ KbCovers /\ KbRanked /\ KbLists /\ KbInStep
    BY <1>1, KbMoves DEF KbIInv
  <1>3. SUFFICES KbCovers' /\ KbRanked' /\ KbLists' /\ KbInStep'
    BY <1>2 DEF KbIInv
  <1>4. CASE KbWindow \/ KbSplit
    <2>1. UNCHANGED <<kbMode, kbVec, kbKw, kbToolVars>>
      BY <1>4 DEF KbWindow, KbSplit
    <2>2. QED
      BY <1>2, <1>4, <2>1, KbStepsCover DEF KbRanked, KbLists, KbInStep, kbToolVars
  <1>5. ASSUME NEW m \in {"chunk", "split"}, NEW chars, KbRead(m, chars)
        PROVE  KbCovers' /\ KbRanked' /\ KbLists' /\ KbInStep'
    <2>1. kbMode = "off" /\ kbMode' = m /\ UNCHANGED <<kbPos, kbOut, kbDone, kbVec, kbKw, kbToolVars>>
      BY <1>5 DEF KbRead
    <2>2. Len(kbText') \in Nat
      BY <1>2 DEF KbSized
    <2>3. KbCovers'
      BY <1>2, <2>1, <2>2 DEF KbCovers
    <2>4. QED
      BY <1>2, <2>1, <2>3 DEF KbRanked, KbLists, KbInStep, kbToolVars
  <1>6. CASE KbFuse \/ KbTool
    <2>1. UNCHANGED <<kbTextVars, kbToolVars>> /\ kbMode' \in {"fuse", "tool"} /\ (kbMode' = "fuse" => kbVec' \in KbRankings /\ kbKw' \in KbRankings)
      BY <1>6 DEF KbFuse, KbTool
    <2>2. KbCovers' /\ KbRanked'
      BY <1>2, <2>1 DEF KbCovers, KbRanked, KbIn, kbTextVars
    <2>3. QED
      BY <1>2, <2>1, <2>2 DEF KbLists, KbInStep, kbToolVars
  <1>7. ASSUME NEW c \in KbCallers, KbAdd(c) \/ \E r, d \in BOOLEAN : KbSave(c, r, d)
        PROVE  KbCovers' /\ KbRanked' /\ KbLists' /\ KbInStep'
    <2>1. UNCHANGED <<kbMode, kbTextVars, kbVec, kbKw>>
      BY <1>7 DEF KbAdd, KbSave
    <2>2. KbCovers' /\ KbRanked'
      BY <1>2, <2>1 DEF KbCovers, KbRanked, KbIn, kbTextVars
    <2>3. QED
      BY <1>2, <1>7, <2>2, KbToolInStep
  <1>8. CASE UNCHANGED kbVars
    BY <1>2, <1>8 DEF kbVars, KbCovers, KbIn, KbRanked, KbLists, KbInStep
  <1>9. QED
    BY <1>1, <1>4, <1>5, <1>6, <1>7, <1>8 DEF KbNext

\* The share of a chunk in a ranking of at most three.
LEMMA KbShares ==
  ASSUME NEW q \in KbRankings, NEW c
  PROVE  /\ KbRank(q, c) \in 0 .. 3
         /\ KbShare(q, c) = CASE KbRank(q, c) = 1 -> 3906 [] KbRank(q, c) = 2 -> 3843 [] KbRank(q, c) = 3 -> 3782 [] OTHER -> 0
PROOF
  <1>1. Cardinality(KbChunks) \in Nat /\ Cardinality(KbChunks) <= 3
    BY KbChunksAssumption, FS_CardinalityType
  <1>2. PICK n \in 0 .. Cardinality(KbChunks) : q \in [1 .. n -> KbChunks]
    BY DEF KbRankings
  <1>3. DOMAIN q = 1 .. n /\ n \in Nat /\ n <= 3
    BY <1>1, <1>2
  <1>4. KbRank(q, c) = 0 \/ KbRank(q, c) \in DOMAIN q
    BY DEF KbRank
  <1>5. KbRank(q, c) \in 0 .. 3
    BY <1>3, <1>4
  <1>6. QED
    BY <1>5 DEF KbShare

\* The invariant of the knowledge index contains what is checked of it.
LEMMA KbShows ==
  ASSUME KbIInv
  PROVE  KbAllCovered /\ KbFusionFair /\ KbOwnRow
PROOF
  <1>1. KbAllCovered
    BY DEF KbIInv, KbCovers, KbAllCovered
  <1>2. KbOwnRow
    BY DEF KbIInv, KbInStep, KbOwnRow, KbSemantic
  <1>3. KbFusionFair
    <2>1. SUFFICES ASSUME kbMode = "fuse", NEW c \in KbChunks, NEW d \in KbChunks,
                          KbRank(kbVec, c) > 0, KbRank(kbVec, d) = 0 \/ KbRank(kbVec, c) < KbRank(kbVec, d),
                          KbRank(kbKw, c) > 0, KbRank(kbKw, d) = 0 \/ KbRank(kbKw, c) < KbRank(kbKw, d)
                   PROVE  KbScore(c) > KbScore(d)
      BY DEF KbFusionFair
    <2>2. kbVec \in KbRankings /\ kbKw \in KbRankings
      BY <2>1 DEF KbIInv, KbRanked
    <2>3. KbShare(kbVec, c) \in Nat /\ KbShare(kbVec, d) \in Nat /\ KbShare(kbVec, c) > KbShare(kbVec, d)
      BY <2>1, <2>2, KbShares
    <2>4. KbShare(kbKw, c) \in Nat /\ KbShare(kbKw, d) \in Nat /\ KbShare(kbKw, c) > KbShare(kbKw, d)
      BY <2>1, <2>2, KbShares
    <2>5. QED
      BY <2>3, <2>4 DEF KbScore
  <1>4. QED
    BY <1>1, <1>2, <1>3

-----------------------------------------------------------------------------
(* Enclaves and envelopes *)

\* Envelopes are numbered, and each has its entry in what was read.
EnNumbered ==
    /\ IsFiniteSet(enEnv) /\ enRead \in Seq(Int) /\ Len(enRead) = Cardinality(enEnv)
    /\ \A e \in enEnv : e.n \in 1 .. Cardinality(enEnv) /\ e.secret \in Int
    /\ \A e, f \in enEnv : e.n = f.n => e = f
    /\ enRotating.secret \in Int

\* The provider is chosen before the first envelope. The cache gives the key that is wrapped, which is the one the
\* data was encrypted with; the service that wrapped it is the one that is asked.
EnSealed ==
    /\ enMode = "off" => enEnv = {}
    /\ \A x \in enCache : x[1] = x[2]
    /\ (enProvider # "vault" /\ ~enChanged) => \A e \in enEnv : e.dek = e.wrapped /\ e.by = EnBackend

EnIInv == EnOpen /\ EnAttestedOnly /\ EnTamperedRefused /\ EnNumbered /\ EnSealed /\ EnSecretsKept

\* No enclave was started and no envelope sealed.
LEMMA EnStarts == EnInit => EnIInv
PROOF
  <1>1. SUFFICES ASSUME EnInit
                 PROVE  EnIInv
    OBVIOUS
  <1>2. EnOpen
    BY <1>1, EnOpenInit
  <1>3. EnAttestedOnly
    BY <1>1 DEF EnInit, EnAttestedOnly, EnNobody
  <1>4. EnTamperedRefused
    BY <1>1 DEF EnInit, EnTamperedRefused
  <1>5. EnNumbered
    <2>1. enEnv = {} /\ enRead = <<>> /\ enRotating.secret = 0
      BY <1>1 DEF EnInit, EnNoRotation
    <2>2. IsFiniteSet({}) /\ Cardinality({}) = 0
      BY FS_EmptySet
    <2>3. <<>> \in Seq(Int) /\ Len(<<>>) = 0
      OBVIOUS
    <2>4. QED
      BY <2>1, <2>2, <2>3 DEF EnNumbered
  <1>6. EnSealed /\ EnSecretsKept
    BY <1>1 DEF EnInit, EnSealed, EnSecretsKept
  <1>7. QED
    BY <1>2, <1>3, <1>4, <1>5, <1>6 DEF EnIInv

\* A channel is opened by a start whose document was accepted.
LEMMA EnStartedAttested ==
  ASSUME NEW valid \in BOOLEAN, EnOpen, EnAttestedOnly, EnStrict,
         IF EnIsReady THEN UNCHANGED <<enStatus, enChannel, enStarts, enVerified>> ELSE EnStarted(valid)
  PROVE  /\ enChannel' \in enVerified' \cup {0} /\ enVerified \subseteq enVerified'
         /\ enStatus' = "ready" => enChannel' \in enVerified'
PROOF
  <1>1. CASE EnIsReady
    BY <1>1 DEF EnAttestedOnly, EnIsReady
  <1>2. CASE ~EnIsReady
    BY <1>2 DEF EnStarted, EnOpens, EnAttestedOnly
  <1>3. QED
    BY <1>1, <1>2

\* Only a verified attestation opens the channel.
LEMMA EnStepsAttested ==
  ASSUME EnOpen, EnAttestedOnly, [EnNext]_enVars
  PROVE  EnAttestedOnly'
PROOF
  <1>1. SUFFICES ASSUME EnStrict
                 PROVE  /\ enChannel' \in enVerified' \cup {0}
                        /\ \A c \in EnCallers : enRun'[c].at = "inside" => enRun'[c].key \in enVerified'
    BY DEF EnAttestedOnly
  <1>2. enChannel \in enVerified \cup {0} /\ \A c \in EnCallers : enRun[c].at = "inside" => enRun[c].key \in enVerified
    BY <1>1 DEF EnAttestedOnly
  <1>3. enRun = [c \in EnCallers |-> [at |-> enRun[c].at, key |-> enRun[c].key]]
    BY DEF EnOpen
  <1>4. CASE UNCHANGED enRunVars
    BY <1>2, <1>4 DEF enRunVars
  <1>5. ASSUME NEW valid \in BOOLEAN, EnStart(valid)
        PROVE  /\ enChannel' \in enVerified' \cup {0}
               /\ \A c \in EnCallers : enRun'[c].at = "inside" => enRun'[c].key \in enVerified'
    <2>1. enRun' = enRun /\ IF EnIsReady THEN UNCHANGED <<enStatus, enChannel, enStarts, enVerified>> ELSE EnStarted(valid)
      BY <1>5 DEF EnStart
    <2>2. QED
      BY <1>1, <1>2, <2>1, EnStartedAttested
  <1>6. ASSUME NEW valid \in BOOLEAN, NEW c \in EnCallers, EnExecute(c, valid)
        PROVE  /\ enChannel' \in enVerified' \cup {0}
               /\ \A x \in EnCallers : enRun'[x].at = "inside" => enRun'[x].key \in enVerified'
    <2> DEFINE r == [at |-> IF enStatus' = "ready" THEN "inside" ELSE "raised", key |-> enChannel']
    <2>1. enRun' = [enRun EXCEPT ![c] = r] /\ IF EnIsReady THEN UNCHANGED <<enStatus, enChannel, enStarts, enVerified>> ELSE EnStarted(valid)
      BY <1>6 DEF EnExecute
    <2>2. /\ enChannel' \in enVerified' \cup {0} /\ enVerified \subseteq enVerified'
          /\ enStatus' = "ready" => enChannel' \in enVerified'
      BY <1>1, <2>1, EnStartedAttested
    <2>3. r.at = "inside" => r.key \in enVerified'
      BY <2>2
    <2> HIDE DEF r
    <2>4. \A x \in EnCallers : enRun'[x] = IF x = c THEN r ELSE enRun[x]
      BY <1>3, <2>1
    <2>5. QED
      BY <1>2, <2>2, <2>3, <2>4
  <1>7. ASSUME NEW c \in EnCallers, EnReturns(c)
        PROVE  /\ enChannel' \in enVerified' \cup {0}
               /\ \A x \in EnCallers : enRun'[x].at = "inside" => enRun'[x].key \in enVerified'
    <2>1. UNCHANGED <<enChannel, enVerified>> /\ \A x \in EnCallers : x # c => enRun'[x] = enRun[x]
      BY <1>3, <1>7 DEF EnReturns
    <2>2. enRun'[c].at \in {"returned", "raised"}
      BY <1>3, <1>7 DEF EnReturns
    <2>3. QED
      BY <1>2, <2>1, <2>2
  <1>8. CASE EnStop
    BY <1>2, <1>8 DEF EnStop, EnCloses
  <1>9. CASE EnKmsNext
    <2>1. enRunVars' = enRunVars
      BY <1>9 DEF EnKmsNext, EnRotated, EnRestart, EnExpires, EnEncrypt, EnDecrypt, EnRotate, EnOnlyKms
    <2>2. QED
      BY <1>4, <2>1
  <1>10. CASE (\E m \in {"run", "attest", "kms"}, p \in {"local", "aws", "gcp", "vault"}, cl \in BOOLEAN : EnChoose(m, p, cl))
              \/ (enMode = "attest" /\ \E doc \in SUBSET (EnFields \cup EnFaults) : Cardinality(doc) <= 3 /\ EnAttest(doc))
              \/ UNCHANGED enVars
    BY <1>4, <1>10 DEF EnChoose, EnAttest, enVars
  <1>11. QED
    BY <1>5, <1>6, <1>7, <1>8, <1>9, <1>10 DEF EnNext, EnRunNext

\* The verdict is the one of verify.
LEMMA EnStepsVerified ==
  ASSUME EnTamperedRefused, [EnNext]_enVars
  PROVE  EnTamperedRefused'
PROOF
  <1>1. CASE UNCHANGED enAttestVars
    BY <1>1 DEF enAttestVars, EnTamperedRefused
  <1>2. ASSUME NEW doc, EnAttest(doc)
        PROVE  EnTamperedRefused'
    BY <1>2 DEF EnAttest, EnVerify, EnPayload, EnTamperedRefused
  <1>3. CASE EnKmsNext
    <2>1. enAttestVars' = enAttestVars
      BY <1>3 DEF EnKmsNext, EnRotated, EnRestart, EnExpires, EnEncrypt, EnDecrypt, EnRotate, EnOnlyKms
    <2>2. QED
      BY <1>1, <2>1
  <1>4. CASE EnRunNext
    <2>1. enAttestVars' = enAttestVars
      BY <1>4 DEF EnRunNext, EnStop, EnStart, EnExecute, EnReturns, EnOnlyRun
    <2>2. QED
      BY <1>1, <2>1
  <1>5. CASE (\E m \in {"run", "attest", "kms"}, p \in {"local", "aws", "gcp", "vault"}, cl \in BOOLEAN : EnChoose(m, p, cl)) \/ UNCHANGED enVars
    BY <1>1, <1>5 DEF EnChoose, enVars
  <1>6. QED
    BY <1>2, <1>3, <1>4, <1>5 DEF EnNext

\* What an envelope holds is found with the key from the cache and with the unwrapped one.
LEMMA EnOpensRight ==
  ASSUME EnNumbered, EnSealed, NEW e \in enEnv
  PROVE  /\ EnOpened(e) \in Int
         /\ (enProvider # "vault" /\ ~enChanged) => EnOpened(e) = e.secret
         /\ EnRemembers(e) => \A x \in enCache' : x[1] = x[2]
PROOF
  <1>1. e.secret \in Int
    BY DEF EnNumbered
  <1>2. EnOpened(e) \in {e.secret, -1}
    BY DEF EnOpened
  <1>3. EnCached(e) # {} => (CHOOSE x \in EnCached(e) : TRUE) \in EnCached(e)
    OBVIOUS
  <1>4. EnCached(e) # {} => (CHOOSE x \in EnCached(e) : TRUE)[2] = e.wrapped
    BY <1>3 DEF EnCached, EnCacheKey, EnSealed
  <1>5. ASSUME enProvider # "vault", ~enChanged
        PROVE  EnOpened(e) = e.secret
    <2>1. e.dek = e.wrapped /\ e.by = EnBackend
      BY <1>5 DEF EnSealed
    <2>2. EnFound(e) = e.wrapped
      BY <1>4, <2>1 DEF EnFound, EnUnwraps
    <2>3. QED
      BY <2>1, <2>2 DEF EnOpened
  <1>6. ASSUME EnRemembers(e)
        PROVE  \A x \in enCache' : x[1] = x[2]
    <2>1. \A x \in enCache' : x \in enCache \/ x = <<e.wrapped, e.wrapped>>
      BY <1>6 DEF EnRemembers, EnCacheKey
    <2>2. QED
      BY <2>1 DEF EnSealed
  <1>7. QED
    BY <1>1, <1>2, <1>5, <1>6

\* A read gives the secret of its envelope.
LEMMA EnReads ==
  ASSUME EnNumbered, EnSealed, EnSecretsKept, NEW e \in enEnv,
         EnRemembers(e), enRead' = [enRead EXCEPT ![e.n] = EnOpened(e)],
         UNCHANGED <<enProvider, enClient, enEnv, enChanged, enMode>>, enRotating'.secret \in Int
  PROVE  EnNumbered' /\ EnSealed' /\ EnSecretsKept'
PROOF
  <1>1. /\ EnOpened(e) \in Int
        /\ (enProvider # "vault" /\ ~enChanged) => EnOpened(e) = e.secret
        /\ \A x \in enCache' : x[1] = x[2]
    BY EnOpensRight
  <1>2. enRead \in Seq(Int) /\ Len(enRead) = Cardinality(enEnv) /\ \A f \in enEnv : f.n \in 1 .. Cardinality(enEnv)
    BY DEF EnNumbered
  <1>3. DOMAIN enRead = 1 .. Len(enRead) /\ Len(enRead) \in Nat
    BY <1>2
  <1>4. enRead' \in Seq(Int) /\ Len(enRead') = Len(enRead)
    BY <1>1, <1>2
  <1>5. \A f \in enEnv : enRead'[f.n] = IF f.n = e.n THEN EnOpened(e) ELSE enRead[f.n]
    BY <1>2, <1>3
  <1>6. EnNumbered'
    BY <1>4 DEF EnNumbered
  <1>7. EnBackend' = EnBackend
    BY DEF EnBackend, EnRemote
  <1>8. EnSealed'
    BY <1>1, <1>7 DEF EnSealed
  <1>9. EnSecretsKept'
    BY <1>1, <1>5 DEF EnSecretsKept, EnNumbered
  <1>10. QED
    BY <1>6, <1>8, <1>9

\* A new envelope has a new number and has not been read.
LEMMA EnSealsRight ==
  ASSUME EnNumbered, EnSealed, EnSecretsKept, NEW k, NEW s \in Int, EnSeals(k, s), enMode # "off",
         UNCHANGED <<enProvider, enClient, enCache, enChanged, enMode>>, enRotating'.secret \in Int
  PROVE  EnNumbered' /\ EnSealed' /\ EnSecretsKept'
PROOF
  <1> DEFINE N == Cardinality(enEnv)
             new == EnEnvelope(N + 1, k, s)
  <1>1. IsFiniteSet(enEnv) /\ enRead \in Seq(Int) /\ Len(enRead) = N /\ \A e \in enEnv : e.n \in 1 .. N /\ e.secret \in Int
    BY DEF EnNumbered
  <1>2. N \in Nat
    BY <1>1, FS_CardinalityType
  <1>3. enEnv' = enEnv \cup {new} /\ enRead' = Append(enRead, 0)
    BY DEF EnSeals
  <1>4. /\ new.n = N + 1 /\ new.secret = s /\ new.by = EnBackend
        /\ enProvider # "vault" => new.dek = new.wrapped
    BY DEF EnEnvelope, EnDataKey
  <1> HIDE DEF N, new
  <1>5. new \notin enEnv
    BY <1>1, <1>2, <1>4
  <1>6. IsFiniteSet(enEnv') /\ Cardinality(enEnv') = N + 1
    BY <1>1, <1>3, <1>5, FS_AddElement DEF N
  <1>7. enRead' \in Seq(Int) /\ Len(enRead') = N + 1 /\ enRead'[N + 1] = 0 /\ \A i \in 1 .. N : enRead'[i] = enRead[i]
    BY <1>1, <1>2, <1>3
  <1>8. \A e \in enEnv' : e \in enEnv \/ e = new
    BY <1>3
  <1>9. \A e \in enEnv' : e.n \in 1 .. N + 1 /\ e.secret \in Int
    BY <1>1, <1>2, <1>4, <1>8
  <1>10. \A e, f \in enEnv' : e.n = f.n => e = f
    <2>1. \A e \in enEnv : e.n # N + 1
      BY <1>1, <1>2
    <2>2. QED
      BY <1>4, <1>8, <2>1 DEF EnNumbered
  <1>11. EnNumbered'
    BY <1>6, <1>7, <1>9, <1>10 DEF EnNumbered
  <1>12. EnBackend' = EnBackend
    BY DEF EnBackend, EnRemote
  <1>13. EnSealed'
    BY <1>4, <1>8, <1>12 DEF EnSealed
  <1>14. EnSecretsKept'
    BY <1>1, <1>4, <1>7, <1>8 DEF EnSecretsKept
  <1>15. QED
    BY <1>11, <1>13, <1>14

\* Envelopes stay sealed with the key that their provider unwraps.
LEMMA EnStepsKept ==
  ASSUME EnNumbered, EnSealed, EnSecretsKept, [EnNext]_enVars
  PROVE  EnNumbered' /\ EnSealed' /\ EnSecretsKept'
PROOF
  <1>1. CASE UNCHANGED <<enKmsVars, enMode>>
    BY <1>1 DEF enKmsVars, EnNumbered, EnSealed, EnSecretsKept, EnBackend, EnRemote
  <1>2. enRotating.secret \in Int /\ EnNoRotation.secret \in Int
    BY DEF EnNumbered, EnNoRotation
  <1>3. ASSUME NEW k, EnEncrypt(k)
        PROVE  EnNumbered' /\ EnSealed' /\ EnSecretsKept'
    <2>1. EnSeals(k, Cardinality(enEnv) + 1) /\ enMode # "off" /\ UNCHANGED <<enProvider, enClient, enCache, enChanged, enMode, enRotating>>
      BY <1>3 DEF EnEncrypt, EnOnlyKms
    <2>2. Cardinality(enEnv) + 1 \in Int
      <3>1. Cardinality(enEnv) \in Nat
        BY FS_CardinalityType DEF EnNumbered
      <3>2. QED
        BY <3>1
    <2> DEFINE s == Cardinality(enEnv) + 1
    <2>3. EnSeals(k, s) /\ s \in Int
      BY <2>1, <2>2
    <2> HIDE DEF s
    <2>4. enRotating'.secret \in Int /\ UNCHANGED <<enProvider, enClient, enCache, enChanged, enMode>>
      BY <1>2, <2>1
    <2>5. QED
      BY <2>1, <2>3, <2>4, EnSealsRight
  <1>4. CASE EnRotated
    <2>1. EnSeals(enRotating.key_id, enRotating.secret) /\ enMode # "off" /\ UNCHANGED <<enProvider, enClient, enCache, enChanged, enMode>>
      BY <1>4 DEF EnRotated, EnOnlyKms
    <2>2. enRotating'.secret \in Int
      BY <1>2, <1>4 DEF EnRotated
    <2>3. QED
      BY <1>2, <2>1, <2>2, EnSealsRight
  <1>5. ASSUME NEW e \in enEnv, EnDecrypt(e) \/ \E k \in EnKeyIds \ {e.key_id} : EnRotate(e, k)
        PROVE  EnNumbered' /\ EnSealed' /\ EnSecretsKept'
    <2>1. EnRemembers(e) /\ enRead' = [enRead EXCEPT ![e.n] = EnOpened(e)] /\ UNCHANGED <<enProvider, enClient, enEnv, enChanged, enMode>>
      BY <1>5 DEF EnDecrypt, EnRotate, EnOnlyKms
    <2>2. EnOpened(e) \in Int
      BY EnOpensRight
    <2>3. enRotating'.secret \in Int
      <3>1. CASE EnDecrypt(e)
        BY <1>2, <3>1 DEF EnDecrypt
      <3>2. ASSUME NEW k, EnRotate(e, k)
            PROVE  enRotating'.secret \in Int
        BY <1>2, <2>2, <3>2 DEF EnRotate
      <3>3. QED
        BY <1>5, <3>1, <3>2
    <2>4. QED
      BY <2>1, <2>3, EnReads
  <1>6. ASSUME NEW x, EnExpires(x)
        PROVE  EnNumbered' /\ EnSealed' /\ EnSecretsKept'
    <2>1. enCache' \subseteq enCache /\ UNCHANGED <<enProvider, enClient, enEnv, enRead, enRotating, enChanged, enMode>>
      BY <1>6 DEF EnExpires, EnOnlyKms
    <2>2. QED
      BY <2>1 DEF EnNumbered, EnSealed, EnSecretsKept, EnBackend, EnRemote
  <1>7. ASSUME NEW cl \in BOOLEAN, EnRestart(cl)
        PROVE  EnNumbered' /\ EnSealed' /\ EnSecretsKept'
    <2>1. /\ enCache' = {} /\ enClient' = cl /\ enChanged' = (enChanged \/ cl # enClient) /\ enRotating'.secret \in Int
          /\ UNCHANGED <<enProvider, enEnv, enRead, enMode>>
      BY <1>2, <1>7 DEF EnRestart, EnOnlyKms
    <2>2. ASSUME ~enChanged'
          PROVE  ~enChanged /\ enClient' = enClient
      BY <2>1, <2>2
    <2>3. EnNumbered'
      BY <2>1 DEF EnNumbered
    <2>4. ~enChanged' => EnBackend' = EnBackend
      BY <2>1, <2>2 DEF EnBackend, EnRemote
    <2>5. EnSealed'
      BY <2>1, <2>2, <2>4 DEF EnSealed
    <2>6. EnSecretsKept'
      BY <2>1, <2>2 DEF EnSecretsKept
    <2>7. QED
      BY <2>3, <2>5, <2>6
  <1>8. ASSUME NEW m, NEW p, NEW cl, EnChoose(m, p, cl)
        PROVE  EnNumbered' /\ EnSealed' /\ EnSecretsKept'
    <2>1. enEnv = {} /\ UNCHANGED <<enEnv, enCache, enRead, enRotating, enChanged>>
      BY <1>8 DEF EnChoose, EnSealed
    <2>2. QED
      BY <2>1 DEF EnNumbered, EnSealed, EnSecretsKept
  <1>9. CASE EnRunNext
    <2>1. UNCHANGED <<enKmsVars, enMode>>
      BY <1>9 DEF EnRunNext, EnStop, EnStart, EnExecute, EnReturns, EnOnlyRun
    <2>2. QED
      BY <1>1, <2>1
  <1>10. CASE (enMode = "attest" /\ \E doc \in SUBSET (EnFields \cup EnFaults) : Cardinality(doc) <= 3 /\ EnAttest(doc)) \/ UNCHANGED enVars
    BY <1>1, <1>10 DEF EnAttest, enVars
  <1>11. QED
    BY <1>3, <1>4, <1>5, <1>6, <1>7, <1>8, <1>9, <1>10 DEF EnNext, EnKmsNext

\* Every step of the enclave and of the key service keeps the invariant.
LEMMA EnStep == EnIInv /\ [EnNext]_enVars => EnIInv'
PROOF
  BY EnAnswers, EnStepsAttested, EnStepsVerified, EnStepsKept DEF EnIInv

-----------------------------------------------------------------------------
(* Skills *)

SkAll == SkPlain \cup SkMergedNames
SkOps == SkPlaces \X SkAll \X SUBSET Nat

\* What the variables are.
SkTypes ==
    /\ skFile \in [SkPlaces -> [SkAll -> SUBSET Nat]] /\ skTodo \in Seq(SkOps) /\ skNext \in Nat
    /\ skRefine = <<>> \/ \E n \in SkPlain, c \in SUBSET Nat : skRefine = <<n, c>>

\* The content that a file has when the operations are done.
SkOn(op, p, n) == op[1] = p /\ op[2] = n
SkNever(todo, p, n) == \A i \in DOMAIN todo : ~SkOn(todo[i], p, n)
SkLastly(todo, p, n, c) ==
    \E i \in DOMAIN todo : SkOn(todo[i], p, n) /\ todo[i][3] = c /\ \A j \in DOMAIN todo : j > i => ~SkOn(todo[j], p, n)
SkBecomes(todo, file, p, n, c) == SkLastly(todo, p, n, c) \/ (SkNever(todo, p, n) /\ file[p][n] = c)

\* The two copies of a skill become the same.
SkAgreeing ==
    \A n \in SkAll \ skCut : \E c \in SUBSET Nat :
        SkBecomes(skTodo, skFile, "global", n, c) /\ SkBecomes(skTodo, skFile, "auto", n, c)

\* What a merge read is in its sources as long as it has written nothing, or is where it writes to.
SkMergeBegins(p) ==
    /\ skTodo = SkMergePlan(<<p[1]>>, <<p[2]>>, skKeep)
    /\ skKeep \subseteq SkLoadContent(<<p[1]>>) \cup SkLoadContent(<<p[2]>>)
SkMergeWrote(m) == skFile["global"][m] = skKeep /\ SkNever(skTodo, "global", m)
SkMerging ==
    /\ 0 \notin skKeep
    /\ \/ skKeep = {}
       \/ \E p \in SkPairs : SkMergeBegins(p)
       \/ \E m \in SkMergedNames : SkMergeWrote(m)
       \/ skTodo = <<>> /\ SkMergeKeeps

\* A report is true once no installation has replaced the skill that it is about.
SkReported ==
    /\ skRoot = [n \in SkNames |-> skRoot[n]] /\ skReport = [n \in SkNames |-> skReport[n]]
    /\ skInst = [i \in SkInstalls |-> [at |-> skInst[i].at, slug |-> skInst[i].slug]]
    /\ \A i \in SkInstalls : skInst[i].at # "idle" => skInst[i].slug \in SkNames
    /\ \A n \in SkNames : (skReport[n] # "none" /\ \A i \in SkInstalls : ~(skInst[i].at = "installed" /\ skInst[i].slug = n)) =>
                            skReport[n] = SkLoadSkill(n)
SkDisabled == skReg = [n \in SkNames |-> skReg[n]] /\ skUser = [n \in SkNames |-> skUser[n]] /\ SkDisabledStays

\* The last iteration is not followed by a revision.
SkScoredLast == skIter \in Nat /\ (skPhase = "revise" => skIter < SkMaxIterations) /\ (skPhase = "done" => skScored = skResp)

SkIInv == SkTypes /\ SkAgreeing /\ SkMerging /\ SkReported /\ SkDisabled /\ SkScoredLast

\* Installations: npx replaces a skill, the scan reads what is there afterwards.
LEMMA SkStepsReported ==
  ASSUME SkReported, [SkNext]_skVars
  PROVE  SkReported'
PROOF
  <1>1. CASE UNCHANGED skInstVars
    BY <1>1 DEF skInstVars, SkReported, SkLoadSkill
  <1>2. /\ skRoot = [n \in SkNames |-> skRoot[n]] /\ skReport = [n \in SkNames |-> skReport[n]]
        /\ skInst = [i \in SkInstalls |-> [at |-> skInst[i].at, slug |-> skInst[i].slug]]
    BY DEF SkReported
  <1>3. \A n \in SkNames : (skReport[n] # "none" /\ \A i \in SkInstalls : ~(skInst[i].at = "installed" /\ skInst[i].slug = n)) =>
                             skReport[n] = SkLoadSkill(n)
    BY DEF SkReported
  <1>4. \A i \in SkInstalls : skInst[i].at # "idle" => skInst[i].slug \in SkNames
    BY DEF SkReported
  <1>5. ASSUME NEW n \in SkNames, SkRemove(n)
        PROVE  SkReported'
    <2>1. skRoot' = [skRoot EXCEPT ![n] = "none"] /\ skReport' = [skReport EXCEPT ![n] = "none"] /\ skInst' = skInst
      BY <1>5 DEF SkRemove
    <2>2. /\ skRoot' = [x \in SkNames |-> IF x = n THEN "none" ELSE skRoot[x]]
          /\ skReport' = [x \in SkNames |-> IF x = n THEN "none" ELSE skReport[x]]
      BY <1>2, <2>1
    <2>3. QED
      BY <1>2, <1>3, <1>4, <2>1, <2>2 DEF SkReported, SkLoadSkill
  <1>6. ASSUME NEW n \in SkNames, NEW i \in SkInstalls, SkInstall(i, n)
        PROVE  SkReported'
    <2>1. /\ skInst' = [x \in SkInstalls |-> IF x = i THEN [at |-> "npx", slug |-> n] ELSE skInst[x]] /\ UNCHANGED <<skRoot, skReport>>
          /\ skInst[i].at = "idle"
      BY <1>2, <1>6 DEF SkInstall
    <2>2. skInst' = [x \in SkInstalls |-> [at |-> skInst'[x].at, slug |-> skInst'[x].slug]]
      BY <1>2, <2>1
    <2>3. \A x \in SkInstalls : skInst'[x].at # "idle" => skInst'[x].slug \in SkNames
      BY <1>4, <2>1
    <2>4. \A x \in SkInstalls : skInst[x].at = "installed" => skInst'[x] = skInst[x]
      BY <2>1
    <2>5. QED
      BY <1>2, <1>3, <2>1, <2>2, <2>3, <2>4 DEF SkReported, SkLoadSkill
  <1>7. ASSUME NEW i \in SkInstalls, SkScanSkill(i)
        PROVE  SkReported'
    <2> DEFINE n == skInst[i].slug
    <2>1. n \in SkNames
      BY <1>4, <1>7 DEF SkScanSkill
    <2>2. /\ skInst' = [x \in SkInstalls |-> IF x = i THEN [at |-> "idle", slug |-> "none"] ELSE skInst[x]] /\ skRoot' = skRoot
          /\ skReport' = [x \in SkNames |-> IF x = n THEN SkLoadSkill(n) ELSE skReport[x]]
      BY <1>2, <1>7 DEF SkScanSkill, SkScans
    <2>3. skInst' = [x \in SkInstalls |-> [at |-> skInst'[x].at, slug |-> skInst'[x].slug]]
      BY <1>2, <2>2
    <2>4. \A x \in SkInstalls : skInst'[x].at # "idle" => skInst'[x].slug \in SkNames
      BY <1>4, <2>2
    <2>5. \A x \in SkNames : SkLoadSkill(x)' = SkLoadSkill(x)
      BY <2>2 DEF SkLoadSkill
    <2>6. skReport' = [x \in SkNames |-> skReport'[x]] /\ skReport'[n] = SkLoadSkill(n) /\ \A x \in SkNames : x # n => skReport'[x] = skReport[x]
      BY <2>1, <2>2
    <2>7. \A x \in SkInstalls : skInst[x].slug # n => skInst'[x] = skInst[x]
      BY <2>2
    <2>8. ASSUME NEW x \in SkNames, skReport'[x] # "none", \A y \in SkInstalls : ~(skInst'[y].at = "installed" /\ skInst'[y].slug = x)
          PROVE  skReport'[x] = SkLoadSkill(x)
      <3>1. CASE x = n
        BY <2>6, <3>1
      <3>2. CASE x # n
        <4>1. \A y \in SkInstalls : ~(skInst[y].at = "installed" /\ skInst[y].slug = x)
          BY <2>7, <2>8, <3>2
        <4>2. QED
          BY <1>3, <2>6, <2>8, <3>2, <4>1
      <3>3. QED
        BY <3>1, <3>2
    <2>9. QED
      BY <1>2, <2>2, <2>3, <2>4, <2>5, <2>6, <2>8 DEF SkReported
  <1>8. ASSUME NEW i \in SkInstalls, NEW what, SkNpx(i, what)
        PROVE  SkReported'
    <2> DEFINE n == skInst[i].slug
    <2>1. n \in SkNames /\ skInst[i].at = "npx" /\ skReport' = skReport
      BY <1>4, <1>8 DEF SkNpx
    <2>2. CASE skInst' = [skInst EXCEPT ![i] = [at |-> "idle", slug |-> "none"]] /\ UNCHANGED skRoot
      <3>1. skInst' = [x \in SkInstalls |-> IF x = i THEN [at |-> "idle", slug |-> "none"] ELSE skInst[x]] /\ skRoot' = skRoot
        BY <1>2, <2>2
      <3>2. skInst' = [x \in SkInstalls |-> [at |-> skInst'[x].at, slug |-> skInst'[x].slug]]
        BY <1>2, <3>1
      <3>3. \A x \in SkInstalls : skInst'[x].at # "idle" => skInst'[x].slug \in SkNames
        BY <1>4, <3>1
      <3>4. \A x \in SkInstalls : skInst[x].at = "installed" => skInst'[x] = skInst[x]
        BY <2>1, <3>1
      <3>5. QED
        BY <1>2, <1>3, <2>1, <3>1, <3>2, <3>3, <3>4 DEF SkReported, SkLoadSkill
    <2>3. CASE skInst' = [skInst EXCEPT ![i].at = "installed"] /\ skRoot' = [skRoot EXCEPT ![n] = what]
      <3>1. /\ skInst' = [x \in SkInstalls |-> IF x = i THEN [at |-> "installed", slug |-> n] ELSE skInst[x]]
            /\ skRoot' = [x \in SkNames |-> IF x = n THEN what ELSE skRoot[x]]
        BY <1>2, <2>3
      <3>2. skInst' = [x \in SkInstalls |-> [at |-> skInst'[x].at, slug |-> skInst'[x].slug]] /\ skRoot' = [x \in SkNames |-> skRoot'[x]]
        BY <1>2, <3>1
      <3>3. \A x \in SkInstalls : skInst'[x].at # "idle" => skInst'[x].slug \in SkNames
        BY <1>4, <2>1, <3>1
      <3>4. skInst'[i].at = "installed" /\ skInst'[i].slug = n /\ \A x \in SkInstalls : skInst[x].at = "installed" => skInst'[x] = skInst[x]
        BY <2>1, <3>1
      <3>5. \A x \in SkNames : x # n => SkLoadSkill(x)' = SkLoadSkill(x)
        BY <3>1 DEF SkLoadSkill
      <3>6. QED
        BY <1>2, <1>3, <2>1, <3>2, <3>3, <3>4, <3>5 DEF SkReported
    <2>4. QED
      BY <1>8, <2>2, <2>3 DEF SkNpx
  <1>9. CASE SkInstallNext
    BY <1>5, <1>6, <1>7, <1>8, <1>9 DEF SkInstallNext
  <1>10. CASE SkFilesNext
    <2>1. skInstVars' = skInstVars
      BY <1>10 DEF SkFilesNext, SkEdit, SkPlaced, SkDelete, SkCheckAndRefine, SkLogExecution, SkCreate, SkMerge, SkStep, SkBreaks, SkRefined, SkOnlyFiles
    <2>2. QED
      BY <1>1, <2>1
  <1>11. CASE SkRegistryNext \/ SkLearnNext
    <2>1. skInstVars' = skInstVars
      BY <1>11 DEF SkRegistryNext, SkLearnNext, SkReload, SkSetEnabled, SkDirChanges, SkReflect, SkRevise, SkOnlyReg, SkOnlyLearn
    <2>2. QED
      BY <1>1, <2>1
  <1>12. CASE (\E m \in {"files", "install", "registry", "learn"} : SkChoose(m)) \/ UNCHANGED skVars
    BY <1>1, <1>12 DEF SkChoose, skVars
  <1>13. QED
    BY <1>9, <1>10, <1>11, <1>12 DEF SkNext

\* The registry: a reload keeps what the operator disabled.
LEMMA SkStepsDisabled ==
  ASSUME SkDisabled, [SkNext]_skVars
  PROVE  SkDisabled'
PROOF
  <1>1. CASE UNCHANGED skRegVars
    BY <1>1 DEF skRegVars, SkDisabled, SkDisabledStays
  <1>2. CASE SkReload
    <2>1. PICK pick \in [SkNames -> SkDirs] : skReg' = [n \in SkNames |-> IF SkFound(n) = {} THEN skReg[n] ELSE SkReloaded(n, pick[n])]
      BY <1>2 DEF SkReload
    <2>2. skUser' = skUser
      BY <1>2 DEF SkReload
    <2>3. \A n \in SkNames : skReg[n] = "off" => SkReloaded(n, pick[n]) = "off"
      BY DEF SkReloaded
    <2>4. QED
      BY <2>1, <2>2, <2>3 DEF SkDisabled, SkDisabledStays
  <1>3. ASSUME NEW n \in SkNames, NEW to \in {"on", "off"}, SkSetEnabled(n, to)
        PROVE  SkDisabled'
    BY <1>3 DEF SkSetEnabled, SkDisabled, SkDisabledStays
  <1>4. ASSUME NEW d, NEW n, NEW on, SkDirChanges(d, n, on)
        PROVE  SkDisabled'
    BY <1>4 DEF SkDirChanges, SkDisabled, SkDisabledStays
  <1>5. CASE SkRegistryNext
    BY <1>2, <1>3, <1>4, <1>5 DEF SkRegistryNext
  <1>6. CASE SkFilesNext
    <2>1. skRegVars' = skRegVars
      BY <1>6 DEF SkFilesNext, SkEdit, SkPlaced, SkDelete, SkCheckAndRefine, SkLogExecution, SkCreate, SkMerge, SkStep, SkBreaks, SkRefined, SkOnlyFiles
    <2>2. QED
      BY <1>1, <2>1
  <1>7. CASE SkInstallNext \/ SkLearnNext
    <2>1. skRegVars' = skRegVars
      BY <1>7 DEF SkInstallNext, SkLearnNext, SkRemove, SkInstall, SkScanSkill, SkNpx, SkReflect, SkRevise, SkOnlyInst, SkOnlyLearn
    <2>2. QED
      BY <1>1, <2>1
  <1>8. CASE (\E m \in {"files", "install", "registry", "learn"} : SkChoose(m)) \/ UNCHANGED skVars
    BY <1>1, <1>8 DEF SkChoose, skVars
  <1>9. QED
    BY <1>5, <1>6, <1>7, <1>8 DEF SkNext

\* The refinement of an answer: the last iteration only reflects.
LEMMA SkStepsScored ==
  ASSUME SkScoredLast, [SkNext]_skVars
  PROVE  SkScoredLast'
PROOF
  <1>1. CASE UNCHANGED skLearnVars
    BY <1>1 DEF skLearnVars, SkScoredLast
  <1>2. ASSUME NEW good, NEW missing, NEW given, SkReflect(good, missing, given)
        PROVE  SkScoredLast'
    <2>1. skScored' = skResp /\ skResp' = skResp /\ skIter' = skIter /\ (skPhase' = "revise" => ~SkLast)
      BY <1>2 DEF SkReflect
    <2>2. QED
      BY <2>1, SkIterationsAssumption DEF SkScoredLast, SkLast
  <1>3. ASSUME NEW how, SkRevise(how)
        PROVE  SkScoredLast'
    <2>1. skPhase = "revise" /\ skIter' = skIter + 1 /\ skPhase' = (IF how = "error" THEN "failed" ELSE IF skIter + 1 > SkMaxIterations THEN "done" ELSE "reflect")
      BY <1>3 DEF SkRevise
    <2>2. skIter \in Nat /\ skIter < SkMaxIterations
      BY <2>1 DEF SkScoredLast
    <2>3. skPhase' \in {"failed", "reflect"}
      BY <2>1, <2>2, SkIterationsAssumption
    <2>4. QED
      BY <2>1, <2>2, <2>3 DEF SkScoredLast
  <1>4. CASE SkLearnNext
    BY <1>2, <1>3, <1>4 DEF SkLearnNext
  <1>5. CASE SkFilesNext
    <2>1. skLearnVars' = skLearnVars
      BY <1>5 DEF SkFilesNext, SkEdit, SkPlaced, SkDelete, SkCheckAndRefine, SkLogExecution, SkCreate, SkMerge, SkStep, SkBreaks, SkRefined, SkOnlyFiles
    <2>2. QED
      BY <1>1, <2>1
  <1>6. CASE SkInstallNext \/ SkRegistryNext
    <2>1. skLearnVars' = skLearnVars
      BY <1>6 DEF SkInstallNext, SkRegistryNext, SkRemove, SkInstall, SkScanSkill, SkNpx, SkReload, SkSetEnabled, SkDirChanges, SkOnlyInst, SkOnlyReg
    <2>2. QED
      BY <1>1, <2>1
  <1>7. CASE (\E m \in {"files", "install", "registry", "learn"} : SkChoose(m)) \/ UNCHANGED skVars
    BY <1>1, <1>7 DEF SkChoose, skVars
  <1>8. QED
    BY <1>4, <1>5, <1>6, <1>7 DEF SkNext

\* Sequences of operations.
LEMMA SkJoins ==
  ASSUME NEW A \in Seq(SkOps), NEW B \in Seq(SkOps)
  PROVE  /\ A \o B \in Seq(SkOps) /\ Len(A \o B) = Len(A) + Len(B)
         /\ \A i \in DOMAIN A : i \in DOMAIN (A \o B) /\ (A \o B)[i] = A[i]
         /\ \A i \in DOMAIN B : Len(A) + i \in DOMAIN (A \o B) /\ (A \o B)[Len(A) + i] = B[i]
         /\ \A i \in DOMAIN (A \o B) : i \in DOMAIN A \/ (i - Len(A) \in DOMAIN B /\ (A \o B)[i] = B[i - Len(A)])
PROOF
  <1>1. Len(A) \in Nat /\ Len(B) \in Nat /\ DOMAIN A = 1 .. Len(A) /\ DOMAIN B = 1 .. Len(B)
    OBVIOUS
  <1>2. A \o B \in Seq(SkOps) /\ Len(A \o B) = Len(A) + Len(B) /\ DOMAIN (A \o B) = 1 .. Len(A) + Len(B)
    OBVIOUS
  <1>3. \A i \in DOMAIN A : i \in DOMAIN (A \o B) /\ (A \o B)[i] = A[i]
    BY <1>1, <1>2
  <1>4. \A i \in DOMAIN B : Len(A) + i \in DOMAIN (A \o B) /\ (A \o B)[Len(A) + i] = B[i]
    BY <1>1, <1>2
  <1>5. \A i \in DOMAIN (A \o B) : i \in DOMAIN A \/ (i - Len(A) \in DOMAIN B /\ (A \o B)[i] = B[i - Len(A)])
    BY <1>1, <1>2
  <1>6. QED
    BY <1>2, <1>3, <1>4, <1>5

\* The last operation of two sequences.
LEMMA SkJoined ==
  ASSUME NEW A \in Seq(SkOps), NEW B \in Seq(SkOps), NEW p, NEW n, NEW c
  PROVE  /\ SkNever(A, p, n) /\ SkNever(B, p, n) => SkNever(A \o B, p, n)
         /\ SkLastly(B, p, n, c) => SkLastly(A \o B, p, n, c)
         /\ SkLastly(A, p, n, c) /\ SkNever(B, p, n) => SkLastly(A \o B, p, n, c)
PROOF
  <1> DEFINE J == A \o B
  <1>1. /\ \A i \in DOMAIN A : i \in DOMAIN J /\ J[i] = A[i]
        /\ \A i \in DOMAIN B : Len(A) + i \in DOMAIN J /\ J[Len(A) + i] = B[i]
        /\ \A i \in DOMAIN J : i \in DOMAIN A \/ (i - Len(A) \in DOMAIN B /\ J[i] = B[i - Len(A)])
        /\ J \in Seq(SkOps)
    BY SkJoins
  <1>2. Len(A) \in Nat /\ Len(B) \in Nat /\ Len(J) \in Nat /\ DOMAIN A = 1 .. Len(A) /\ DOMAIN B = 1 .. Len(B) /\ DOMAIN J = 1 .. Len(J)
    BY <1>1
  <1> HIDE DEF J
  <1>3. SkNever(A, p, n) /\ SkNever(B, p, n) => SkNever(J, p, n)
    BY <1>1 DEF SkNever
  <1>4. ASSUME SkLastly(B, p, n, c)
        PROVE  SkLastly(J, p, n, c)
    <2>1. PICK i \in DOMAIN B : SkOn(B[i], p, n) /\ B[i][3] = c /\ \A j \in DOMAIN B : j > i => ~SkOn(B[j], p, n)
      BY <1>4 DEF SkLastly
    <2>2. \A j \in DOMAIN J : j > Len(A) + i => ~SkOn(J[j], p, n)
      <3>1. SUFFICES ASSUME NEW j \in DOMAIN J, j > Len(A) + i
                     PROVE  ~SkOn(J[j], p, n)
        OBVIOUS
      <3>2. j - Len(A) \in DOMAIN B /\ J[j] = B[j - Len(A)] /\ j - Len(A) > i
        BY <1>1, <1>2, <3>1
      <3>3. QED
        BY <2>1, <3>2
    <2>3. QED
      BY <1>1, <2>1, <2>2 DEF SkLastly
  <1>5. ASSUME SkLastly(A, p, n, c), SkNever(B, p, n)
        PROVE  SkLastly(J, p, n, c)
    <2>1. PICK i \in DOMAIN A : SkOn(A[i], p, n) /\ A[i][3] = c /\ \A j \in DOMAIN A : j > i => ~SkOn(A[j], p, n)
      BY <1>5 DEF SkLastly
    <2>2. \A j \in DOMAIN J : j > i => ~SkOn(J[j], p, n)
      BY <1>1, <1>5, <2>1 DEF SkNever
    <2>3. QED
      BY <1>1, <2>1, <2>2 DEF SkLastly
  <1>6. QED
    BY <1>3, <1>4, <1>5 DEF J

\* Both copies are written, or all three places emptied.
LEMMA SkBoth ==
  ASSUME NEW n \in SkAll, NEW c \in SUBSET Nat
  PROVE  /\ SkBothCopies(n, c) \in Seq(SkOps)
         /\ SkLastly(SkBothCopies(n, c), "global", n, c) /\ SkLastly(SkBothCopies(n, c), "auto", n, c)
         /\ \A x : x # n => \A p : SkNever(SkBothCopies(n, c), p, x)
         /\ Len(SkBothCopies(n, c)) = 2 /\ SkBothCopies(n, c)[1] = <<"global", n, c>> /\ SkBothCopies(n, c)[2] = <<"auto", n, c>>
PROOF
  <1> DEFINE q == SkBothCopies(n, c)
             g == <<"global", n, c>>
             w == <<"auto", n, c>>
  <1>1. g \in SkOps /\ w \in SkOps /\ g[1] = "global" /\ g[2] = n /\ g[3] = c /\ w[1] = "auto" /\ w[2] = n /\ w[3] = c
    BY DEF SkOps, SkPlaces
  <1>2. q = <<g, w>>
    BY DEF SkBothCopies
  <1> HIDE DEF g, w, q
  <1>3. q \in Seq(SkOps) /\ Len(q) = 2 /\ DOMAIN q = {1, 2} /\ q[1] = g /\ q[2] = w
    BY <1>1, <1>2
  <1>4. SkLastly(q, "global", n, c) /\ SkLastly(q, "auto", n, c)
    BY <1>1, <1>3 DEF SkLastly, SkOn
  <1>5. \A x : x # n => \A p : SkNever(q, p, x)
    BY <1>1, <1>3 DEF SkNever, SkOn
  <1>6. QED
    BY <1>3, <1>4, <1>5 DEF q, g, w

\* All three places are emptied.
LEMMA SkGone ==
  ASSUME NEW n \in SkAll
  PROVE  /\ SkRemoval(n) \in Seq(SkOps)
         /\ SkLastly(SkRemoval(n), "global", n, SkAbsent) /\ SkLastly(SkRemoval(n), "auto", n, SkAbsent)
         /\ \A x : x # n => \A p : SkNever(SkRemoval(n), p, x)
         /\ Len(SkRemoval(n)) = 3 /\ \A i \in DOMAIN SkRemoval(n) : SkRemoval(n)[i][3] = SkAbsent
PROOF
  <1> DEFINE q == SkRemoval(n)
             g == <<"global", n, SkAbsent>>
             w == <<"auto", n, SkAbsent>>
             r == <<"root", n, SkAbsent>>
  <1>1. /\ g \in SkOps /\ w \in SkOps /\ r \in SkOps
        /\ g[1] = "global" /\ g[2] = n /\ g[3] = SkAbsent /\ w[1] = "auto" /\ w[2] = n /\ w[3] = SkAbsent
        /\ r[1] = "root" /\ r[2] = n /\ r[3] = SkAbsent
    BY DEF SkOps, SkPlaces, SkAbsent
  <1>2. q = <<g, w, r>>
    BY DEF SkRemoval
  <1> HIDE DEF g, w, r, q
  <1>3. q \in Seq(SkOps) /\ Len(q) = 3 /\ DOMAIN q = {1, 2, 3} /\ q[1] = g /\ q[2] = w /\ q[3] = r
    BY <1>1, <1>2
  <1>4. SkLastly(q, "global", n, SkAbsent) /\ SkLastly(q, "auto", n, SkAbsent)
    BY <1>1, <1>3 DEF SkLastly, SkOn
  <1>5. \A x : x # n => \A p : SkNever(q, p, x)
    BY <1>1, <1>3 DEF SkNever, SkOn
  <1>6. \A i \in DOMAIN q : q[i][3] = SkAbsent
    BY <1>1, <1>3
  <1>7. QED
    BY <1>3, <1>4, <1>5, <1>6 DEF q

\* The first operation is done.
LEMMA SkDoes ==
  ASSUME NEW todo \in Seq(SkOps), todo # <<>>, NEW file \in [SkPlaces -> [SkAll -> SUBSET Nat]], NEW p \in SkPlaces, NEW n \in SkAll
  PROVE  LET after == [file EXCEPT ![Head(todo)[1]][Head(todo)[2]] = Head(todo)[3]]
         IN /\ after \in [SkPlaces -> [SkAll -> SUBSET Nat]] /\ Tail(todo) \in Seq(SkOps)
            /\ after[p][n] = IF SkOn(Head(todo), p, n) THEN Head(todo)[3] ELSE file[p][n]
            /\ SkNever(todo, p, n) => SkNever(Tail(todo), p, n) /\ ~SkOn(Head(todo), p, n)
            /\ \A c : SkBecomes(todo, file, p, n, c) => SkBecomes(Tail(todo), after, p, n, c)
PROOF
  <1> DEFINE op == Head(todo)
             rest == Tail(todo)
             after == [file EXCEPT ![op[1]][op[2]] = op[3]]
  <1>1. Len(todo) \in Nat /\ Len(todo) > 0 /\ DOMAIN todo = 1 .. Len(todo) /\ op = todo[1] /\ op \in SkOps
    OBVIOUS
  <1>2. rest \in Seq(SkOps) /\ Len(rest) = Len(todo) - 1 /\ DOMAIN rest = 1 .. Len(todo) - 1
    BY <1>1
  <1>3. \A i \in DOMAIN rest : rest[i] = todo[i + 1] /\ i + 1 \in DOMAIN todo
    BY <1>1, <1>2
  <1>4. \A i \in DOMAIN todo : i # 1 => i - 1 \in DOMAIN rest /\ rest[i - 1] = todo[i]
    BY <1>1, <1>2
  <1>5. op[1] \in SkPlaces /\ op[2] \in SkAll /\ op[3] \in SUBSET Nat
    BY <1>1 DEF SkOps
  <1> HIDE DEF op, rest
  <1>6. after \in [SkPlaces -> [SkAll -> SUBSET Nat]] /\ after[p][n] = IF SkOn(op, p, n) THEN op[3] ELSE file[p][n]
    BY <1>5 DEF SkOn
  <1> HIDE DEF after
  <1>7. SkNever(todo, p, n) => SkNever(rest, p, n) /\ ~SkOn(op, p, n)
    BY <1>1, <1>3 DEF SkNever
  <1>8. ASSUME NEW c, SkBecomes(todo, file, p, n, c)
        PROVE  SkBecomes(rest, after, p, n, c)
    <2>1. CASE SkNever(todo, p, n) /\ file[p][n] = c
      BY <1>6, <1>7, <2>1 DEF SkBecomes
    <2>2. CASE SkLastly(todo, p, n, c)
      <3>1. PICK i \in DOMAIN todo : SkOn(todo[i], p, n) /\ todo[i][3] = c /\ \A j \in DOMAIN todo : j > i => ~SkOn(todo[j], p, n)
        BY <2>2 DEF SkLastly
      <3>2. CASE i = 1
        <4>1. SkNever(rest, p, n)
          BY <1>1, <1>2, <1>3, <3>1, <3>2 DEF SkNever
        <4>2. after[p][n] = c
          BY <1>1, <1>6, <3>1, <3>2
        <4>3. QED
          BY <4>1, <4>2 DEF SkBecomes
      <3>3. CASE i # 1
        <4>1. i - 1 \in DOMAIN rest /\ SkOn(rest[i - 1], p, n) /\ rest[i - 1][3] = c
          BY <1>4, <3>1, <3>3
        <4>2. \A j \in DOMAIN rest : j > i - 1 => ~SkOn(rest[j], p, n)
          BY <1>1, <1>2, <1>3, <3>1
        <4>3. SkLastly(rest, p, n, c)
          BY <4>1, <4>2 DEF SkLastly
        <4>4. QED
          BY <4>3 DEF SkBecomes
      <3>4. QED
        BY <3>2, <3>3
    <2>3. QED
      BY <1>8, <2>1, <2>2 DEF SkBecomes
  <1>9. QED
    BY <1>2, <1>6, <1>7, <1>8 DEF op, rest, after

\* Operations that leave no two copies that differ.
SkEven(todo) ==
    \A n \in SkAll :
        \/ SkNever(todo, "global", n) /\ SkNever(todo, "auto", n)
        \/ \E c \in SUBSET Nat : SkLastly(todo, "global", n, c) /\ SkLastly(todo, "auto", n, c)

\* Two operations or names.
LEMMA SkTwo ==
  ASSUME NEW S, NEW x \in S, NEW y \in S
  PROVE  <<x>> \o <<y>> = <<x, y>>
PROOF
  <1> DEFINE u == <<x>> \o <<y>>
             v == <<x, y>>
  <1>1. <<x>> \in Seq(S) /\ <<y>> \in Seq(S) /\ Len(<<x>>) = 1 /\ Len(<<y>>) = 1
    OBVIOUS
  <1>2. u \in Seq(S) /\ Len(u) = 2 /\ u[1] = x /\ u[2] = y
    BY <1>1
  <1>3. v \in Seq(S) /\ Len(v) = 2 /\ v[1] = x /\ v[2] = y
    OBVIOUS
  <1> HIDE DEF u, v
  <1>4. u = [i \in 1 .. 2 |-> u[i]] /\ v = [i \in 1 .. 2 |-> v[i]]
    BY <1>2, <1>3
  <1>5. \A i \in 1 .. 2 : u[i] = v[i]
    BY <1>2, <1>3
  <1>6. u = v
    BY <1>4, <1>5
  <1>7. QED
    BY <1>6 DEF u, v

\* A merge writes the joined skill first, and both copies of each skill end the same.
LEMMA SkMergeEven ==
  ASSUME NEW p \in SkPairs, NEW c \in SUBSET Nat
  PROVE  /\ SkMergePlan(<<p[1]>>, <<p[2]>>, c) \in Seq(SkOps) /\ SkMergePlan(<<p[1]>>, <<p[2]>>, c) # <<>>
         /\ SkEven(SkMergePlan(<<p[1]>>, <<p[2]>>, c))
         /\ Head(SkMergePlan(<<p[1]>>, <<p[2]>>, c)) = <<"global", p, c>>
         /\ SkNever(Tail(SkMergePlan(<<p[1]>>, <<p[2]>>, c)), "global", p)
PROOF
  <1> DEFINE s == <<p[1]>>
             t == <<p[2]>>
             A == SkBothCopies(p, c)
             S == SkRemoval(s)
             T == SkRemoval(t)
             plan == SkMergePlan(s, t, c)
  <1>1. s \in SkAll /\ t \in SkAll /\ p \in SkAll /\ s \o t = p /\ s # p /\ t # p
    <2>1. PICK x \in SkNames, y \in SkNames : p = <<x, y>>
      BY SkPairsAssumption
    <2>2. s = <<x>> /\ t = <<y>> /\ <<x>> \o <<y>> = <<x, y>>
      <3>1. p[1] = x /\ p[2] = y
        BY <2>1
      <3>2. QED
        BY <3>1, SkTwo
    <2>3. Len(<<x>>) = 1 /\ Len(<<y>>) = 1 /\ Len(<<x, y>>) = 2
      OBVIOUS
    <2>4. <<x>> \in SkPlain /\ <<y>> \in SkPlain
      BY DEF SkPlain
    <2>5. QED
      BY <2>1, <2>2, <2>3, <2>4 DEF SkAll, SkMergedNames
  <1>2. plan = (A \o S) \o T
    BY <1>1 DEF SkMergePlan
  <1>3. /\ A \in Seq(SkOps) /\ SkLastly(A, "global", p, c) /\ SkLastly(A, "auto", p, c) /\ \A x : x # p => \A q : SkNever(A, q, x)
        /\ Len(A) = 2 /\ A[1] = <<"global", p, c>> /\ A[2] = <<"auto", p, c>>
    BY <1>1, SkBoth
  <1>4. /\ S \in Seq(SkOps) /\ SkLastly(S, "global", s, SkAbsent) /\ SkLastly(S, "auto", s, SkAbsent)
        /\ \A x : x # s => \A q : SkNever(S, q, x)
    BY <1>1, SkGone
  <1>5. /\ T \in Seq(SkOps) /\ SkLastly(T, "global", t, SkAbsent) /\ SkLastly(T, "auto", t, SkAbsent)
        /\ \A x : x # t => \A q : SkNever(T, q, x)
    BY <1>1, SkGone
  <1> HIDE DEF s, t, A, S, T, plan
  <1> DEFINE AS == A \o S
  <1>6. AS \in Seq(SkOps) /\ Len(AS) = 2 + Len(S) /\ AS[1] = A[1] /\ AS[2] = A[2]
    <2>1. Len(A) = 2 /\ DOMAIN A = 1 .. Len(A)
      BY <1>3
    <2>2. 1 \in DOMAIN A /\ 2 \in DOMAIN A
      BY <2>1
    <2>3. QED
      BY <1>3, <1>4, <2>1, <2>2, SkJoins
  <1>7. \A n \in SkAll : \/ SkNever(AS, "global", n) /\ SkNever(AS, "auto", n)
                         \/ \E x \in SUBSET Nat : SkLastly(AS, "global", n, x) /\ SkLastly(AS, "auto", n, x)
    <2>1. SkAbsent \in SUBSET Nat
      BY DEF SkAbsent
    <2>2. ASSUME NEW n \in SkAll, n = s
          PROVE  \E x \in SUBSET Nat : SkLastly(AS, "global", n, x) /\ SkLastly(AS, "auto", n, x)
      BY <1>3, <1>4, <2>1, <2>2, SkJoined
    <2>3. ASSUME NEW n \in SkAll, n # s, n = p
          PROVE  \E x \in SUBSET Nat : SkLastly(AS, "global", n, x) /\ SkLastly(AS, "auto", n, x)
      BY <1>3, <1>4, <2>3, SkJoined
    <2>4. ASSUME NEW n \in SkAll, n # s, n # p
          PROVE  SkNever(AS, "global", n) /\ SkNever(AS, "auto", n)
      BY <1>3, <1>4, <2>4, SkJoined
    <2>5. QED
      BY <2>2, <2>3, <2>4
  <1>8. \A q : SkNever(S, q, p) /\ SkNever(T, q, p)
    BY <1>1, <1>4, <1>5
  <1> HIDE DEF AS
  <1>9. plan = AS \o T
    BY <1>2 DEF AS
  <1>10. SkEven(plan)
    <2>1. SkAbsent \in SUBSET Nat
      BY DEF SkAbsent
    <2>2. ASSUME NEW n \in SkAll, n = t
          PROVE  \E x \in SUBSET Nat : SkLastly(plan, "global", n, x) /\ SkLastly(plan, "auto", n, x)
      BY <1>5, <1>6, <1>9, <2>1, <2>2, SkJoined
    <2>3. ASSUME NEW n \in SkAll, n # t
          PROVE  \/ SkNever(plan, "global", n) /\ SkNever(plan, "auto", n)
                 \/ \E x \in SUBSET Nat : SkLastly(plan, "global", n, x) /\ SkLastly(plan, "auto", n, x)
      <3>1. SkNever(T, "global", n) /\ SkNever(T, "auto", n)
        BY <1>5, <2>3
      <3>2. CASE SkNever(AS, "global", n) /\ SkNever(AS, "auto", n)
        BY <1>5, <1>6, <1>9, <3>1, <3>2, SkJoined
      <3>3. ASSUME NEW x \in SUBSET Nat, SkLastly(AS, "global", n, x), SkLastly(AS, "auto", n, x)
            PROVE  SkLastly(plan, "global", n, x) /\ SkLastly(plan, "auto", n, x)
        BY <1>5, <1>6, <1>9, <3>1, <3>3, SkJoined
      <3>4. QED
        BY <1>7, <3>2, <3>3
    <2>4. QED
      BY <2>2, <2>3 DEF SkEven
  <1>11. /\ plan \in Seq(SkOps) /\ Len(plan) = Len(AS) + Len(T)
         /\ \A i \in DOMAIN AS : i \in DOMAIN plan /\ plan[i] = AS[i]
         /\ \A i \in DOMAIN plan : i \in DOMAIN AS \/ (i - Len(AS) \in DOMAIN T /\ plan[i] = T[i - Len(AS)])
    BY <1>5, <1>6, <1>9, SkJoins
  <1>12. \A i \in DOMAIN AS : i \in DOMAIN A \/ (i - Len(A) \in DOMAIN S /\ AS[i] = S[i - Len(A)])
    BY <1>3, <1>4, SkJoins DEF AS
  <1>13. Len(AS) \in Nat /\ Len(S) \in Nat /\ Len(T) \in Nat /\ Len(plan) \in Nat /\ DOMAIN AS = 1 .. Len(AS) /\ DOMAIN plan = 1 .. Len(plan) /\ DOMAIN A = 1 .. 2
    BY <1>3, <1>4, <1>5, <1>6, <1>11
  <1>14. plan # <<>> /\ Head(plan) = plan[1] /\ plan[1] = <<"global", p, c>> /\ plan[2] = <<"auto", p, c>>
    BY SMTT(20), <1>3, <1>6, <1>11, <1>13
  <1>15. \A i \in DOMAIN plan : i # 1 => ~SkOn(plan[i], "global", p)
    <2>1. SUFFICES ASSUME NEW i \in DOMAIN plan, i # 1
                   PROVE  ~SkOn(plan[i], "global", p)
      OBVIOUS
    <2>2. CASE i = 2
      BY <1>14, <2>2 DEF SkOn
    <2>3. CASE i # 2 /\ i \in DOMAIN AS
      <3>1. i \notin DOMAIN A
        BY <1>13, <2>1, <2>3
      <3>2. i - Len(A) \in DOMAIN S /\ plan[i] = S[i - Len(A)]
        BY <1>11, <1>12, <2>3, <3>1
      <3>3. QED
        BY <1>8, <3>2 DEF SkNever
    <2>4. CASE i \notin DOMAIN AS
      BY <1>8, <1>11, <2>4 DEF SkNever
    <2>5. QED
      BY <2>2, <2>3, <2>4
  <1>16. SkNever(Tail(plan), "global", p)
    <2>1. DOMAIN Tail(plan) = 1 .. Len(plan) - 1 /\ \A i \in 1 .. Len(plan) - 1 : Tail(plan)[i] = plan[i + 1]
      BY <1>11, <1>13, <1>14
    <2>2. \A i \in 1 .. Len(plan) - 1 : i + 1 \in DOMAIN plan /\ i + 1 # 1
      BY <1>13
    <2>3. QED
      BY <1>15, <2>1, <2>2 DEF SkNever
  <1>17. QED
    BY <1>10, <1>11, <1>14, <1>16 DEF plan, s, t

\* What is read of a skill.
LEMMA SkLoaded ==
  ASSUME SkTypes, NEW n \in SkAll
  PROVE  /\ SkLoadContent(n) \in SUBSET Nat /\ 0 \notin SkLoadContent(n)
         /\ 0 \notin skFile["global"][n] => SkLoadContent(n) = skFile["global"][n]
PROOF
  <1>1. \A p \in SkPlaces : skFile[p][n] \in SUBSET Nat
    BY DEF SkTypes
  <1>2. "global" \in SkPlaces /\ "auto" \in SkPlaces /\ "root" \in SkPlaces
    BY DEF SkPlaces
  <1>3. PICK p \in SkPlaces : SkLoadContent(n) = skFile[p][n] \ SkAbsent
    BY <1>2 DEF SkLoadContent
  <1>4. SkLoadContent(n) \in SUBSET Nat /\ 0 \notin SkLoadContent(n)
    BY <1>1, <1>3 DEF SkAbsent
  <1>5. ASSUME 0 \notin skFile["global"][n]
        PROVE  SkLoadContent(n) = skFile["global"][n]
    <2>1. SkExists("global", n)
      BY <1>5 DEF SkExists, SkAbsent
    <2>2. SkLoadContent(n) = skFile["global"][n] \ SkAbsent
      BY <2>1 DEF SkLoadContent
    <2>3. QED
      BY <1>5, <2>2 DEF SkAbsent
  <1>6. QED
    BY <1>4, <1>5

\* Operations begin, none having been left.
LEMMA SkBegins ==
  ASSUME SkTypes, SkAgreeing, skTodo = <<>>, UNCHANGED skFile,
         \A n \in SkAll \ skCut' : \/ n \notin skCut /\ SkNever(skTodo', "global", n) /\ SkNever(skTodo', "auto", n)
                                   \/ \E c \in SUBSET Nat : SkLastly(skTodo', "global", n, c) /\ SkLastly(skTodo', "auto", n, c)
  PROVE  SkAgreeing'
PROOF
  <1>1. \A p, n, c : ~SkLastly(<<>>, p, n, c)
    BY DEF SkLastly
  <1>2. ASSUME NEW n \in SkAll \ skCut'
        PROVE  \E c \in SUBSET Nat : SkBecomes(skTodo', skFile', "global", n, c) /\ SkBecomes(skTodo', skFile', "auto", n, c)
    <2>1. CASE n \notin skCut /\ SkNever(skTodo', "global", n) /\ SkNever(skTodo', "auto", n)
      <3>1. PICK c \in SUBSET Nat : SkBecomes(skTodo, skFile, "global", n, c) /\ SkBecomes(skTodo, skFile, "auto", n, c)
        BY <1>2, <2>1 DEF SkAgreeing
      <3>2. skFile["global"][n] = c /\ skFile["auto"][n] = c
        BY <1>1, <3>1 DEF SkBecomes
      <3>3. QED
        BY <2>1, <3>2 DEF SkBecomes
    <2>2. CASE \E c \in SUBSET Nat : SkLastly(skTodo', "global", n, c) /\ SkLastly(skTodo', "auto", n, c)
      BY <2>2 DEF SkBecomes
    <2>3. QED
      BY <1>2, <2>1, <2>2
  <1>3. QED
    BY <1>2 DEF SkAgreeing

\* A handler starts.
LEMMA SkStartsEven ==
  ASSUME SkTypes, SkAgreeing, skTodo = <<>>, UNCHANGED skFile, NEW todo \in Seq(SkOps), SkEven(todo), NEW keep, NEW fresh, SkStart(todo, keep, fresh)
  PROVE  SkAgreeing'
PROOF
  <1>1. skTodo' = todo /\ skCut' = skCut \ {todo[i][2] : i \in {j \in 1 .. Len(todo) : todo[j][1] = "auto"}}
    BY DEF SkStart
  <1>2. DOMAIN todo = 1 .. Len(todo)
    OBVIOUS
  <1>3. ASSUME NEW n \in SkAll \ skCut', SkNever(todo, "auto", n)
        PROVE  n \notin skCut
    BY <1>1, <1>2, <1>3 DEF SkNever, SkOn
  <1>4. \A n \in SkAll \ skCut' : \/ n \notin skCut /\ SkNever(skTodo', "global", n) /\ SkNever(skTodo', "auto", n)
                                  \/ \E c \in SUBSET Nat : SkLastly(skTodo', "global", n, c) /\ SkLastly(skTodo', "auto", n, c)
    BY <1>1, <1>3 DEF SkEven
  <1>5. QED
    BY <1>4, SkBegins

\* The plans of the handlers.
LEMMA SkPlansEven ==
  ASSUME NEW n \in SkAll, NEW c \in SUBSET Nat
  PROVE  /\ SkBothCopies(n, c) \in Seq(SkOps) /\ SkEven(SkBothCopies(n, c))
         /\ SkRemoval(n) \in Seq(SkOps) /\ SkEven(SkRemoval(n))
         /\ <<<<"root", n, c>>>> \in Seq(SkOps) /\ SkEven(<<<<"root", n, c>>>>)
PROOF
  <1>1. SkAbsent \in SUBSET Nat
    BY DEF SkAbsent
  <1>2. SkBothCopies(n, c) \in Seq(SkOps) /\ SkEven(SkBothCopies(n, c))
    BY SkBoth DEF SkEven
  <1>3. SkRemoval(n) \in Seq(SkOps) /\ SkEven(SkRemoval(n))
    BY <1>1, SkGone DEF SkEven
  <1>4. <<<<"root", n, c>>>> \in Seq(SkOps) /\ SkEven(<<<<"root", n, c>>>>)
    <2> DEFINE r == <<"root", n, c>>
    <2>1. r \in SkOps /\ r[1] = "root"
      BY DEF SkOps, SkPlaces
    <2> HIDE DEF r
    <2>2. <<r>> \in Seq(SkOps) /\ DOMAIN <<r>> = {1} /\ <<r>>[1] = r
      BY <2>1
    <2>3. \A x : SkNever(<<r>>, "global", x) /\ SkNever(<<r>>, "auto", x)
      BY <2>1, <2>2 DEF SkNever, SkOn
    <2>4. QED
      BY <2>2, <2>3 DEF SkEven, r
  <1>5. QED
    BY <1>2, <1>3, <1>4

SkFiling == SkTypes /\ SkAgreeing /\ SkMerging

\* A handler that is no merge starts.
LEMMA SkStartsPlain ==
  ASSUME SkFiling, skTodo = <<>>, UNCHANGED <<skFile, skRefine>>, NEW todo \in Seq(SkOps), SkEven(todo), NEW fresh \in Nat, SkStart(todo, {}, fresh)
  PROVE  SkFiling'
PROOF
  <1>1. skTodo' = todo /\ skKeep' = {} /\ skNext' = skNext + fresh
    BY DEF SkStart
  <1>2. SkTypes'
    BY <1>1 DEF SkFiling, SkTypes
  <1>3. SkAgreeing'
    BY SkStartsEven DEF SkFiling
  <1>4. SkMerging'
    BY <1>1 DEF SkMerging
  <1>5. QED
    BY <1>2, <1>3, <1>4 DEF SkFiling

\* The names of what is merged.
LEMMA SkSources ==
  ASSUME NEW p \in SkPairs
  PROVE  p \in SkAll /\ <<p[1]>> \in SkAll /\ <<p[2]>> \in SkAll /\ <<p[1]>> # p /\ <<p[2]>> # p
PROOF
  <1>1. PICK x \in SkNames, y \in SkNames : p = <<x, y>>
    BY SkPairsAssumption
  <1>2. p[1] = x /\ p[2] = y /\ Len(p) = 2 /\ Len(<<x>>) = 1 /\ Len(<<y>>) = 1
    BY <1>1
  <1>3. <<x>> \in SkPlain /\ <<y>> \in SkPlain
    BY DEF SkPlain
  <1>4. QED
    BY <1>2, <1>3 DEF SkAll, SkMergedNames

\* A merge starts.
LEMMA SkStartsMerge ==
  ASSUME SkFiling, NEW p \in SkPairs, SkMerge(<<p[1]>>, <<p[2]>>)
  PROVE  SkFiling'
PROOF
  <1> DEFINE s == <<p[1]>>
             t == <<p[2]>>
             both == SkLoadContent(s) \cup SkLoadContent(t)
             plan == SkMergePlan(s, t, both)
  <1>1. s \in SkAll /\ t \in SkAll
    BY SkSources
  <1>2. both \in SUBSET Nat /\ 0 \notin both
    BY <1>1, SkLoaded DEF SkFiling
  <1>3. plan \in Seq(SkOps) /\ SkEven(plan)
    BY <1>2, SkMergeEven
  <1>4. SkStart(plan, both, 0) /\ skTodo = <<>> /\ skFile' = skFile /\ skRefine' = skRefine
    BY DEF SkMerge, SkIdle
  <1>5. SkLoadContent(s)' = SkLoadContent(s) /\ SkLoadContent(t)' = SkLoadContent(t)
    BY <1>4 DEF SkLoadContent, SkExists
  <1> HIDE DEF plan
  <1>6. skTodo' = plan /\ skKeep' = both /\ skNext' = skNext + 0
    BY <1>4 DEF SkStart
  <1>7. SkTypes'
    BY <1>3, <1>4, <1>6 DEF SkFiling, SkTypes
  <1>8. SkAgreeing'
    BY <1>3, <1>4, SkStartsEven DEF SkFiling
  <1>9. SkMergeBegins(p)'
    BY <1>5, <1>6 DEF SkMergeBegins, plan
  <1>10. SkMerging'
    BY <1>2, <1>6, <1>9 DEF SkMerging
  <1>11. QED
    BY <1>7, <1>8, <1>10 DEF SkFiling

\* An operation is done.
LEMMA SkStepsOn ==
  ASSUME SkFiling, SkStep
  PROVE  SkFiling'
PROOF
  <1> DEFINE op == Head(skTodo)
  <1>1. /\ skTodo # <<>> /\ skFile' = [skFile EXCEPT ![Head(skTodo)[1]][Head(skTodo)[2]] = Head(skTodo)[3]] /\ skTodo' = Tail(skTodo)
        /\ skCut' = skCut /\ skKeep' = skKeep /\ skRefine' = skRefine /\ skNext' = skNext
    BY DEF SkStep
  <1>2. skTodo \in Seq(SkOps) /\ skFile \in [SkPlaces -> [SkAll -> SUBSET Nat]]
    BY DEF SkFiling, SkTypes
  <1>3. "global" \in SkPlaces /\ "auto" \in SkPlaces
    BY DEF SkPlaces
  <1>4. /\ \A p \in SkPlaces, n \in SkAll : skFile'[p][n] = IF SkOn(op, p, n) THEN op[3] ELSE skFile[p][n]
        /\ \A p \in SkPlaces, n \in SkAll : SkNever(skTodo, p, n) => SkNever(skTodo', p, n) /\ ~SkOn(op, p, n)
        /\ \A p \in SkPlaces, n \in SkAll : \A c : SkBecomes(skTodo, skFile, p, n, c) => SkBecomes(skTodo', skFile', p, n, c)
    BY <1>1, <1>2, SkDoes
  <1>5. skFile' \in [SkPlaces -> [SkAll -> SUBSET Nat]]
    <2>1. op \in SkOps
      BY <1>1, <1>2
    <2>2. op[1] \in SkPlaces /\ op[2] \in SkAll /\ op[3] \in SUBSET Nat
      BY <2>1 DEF SkOps
    <2> HIDE DEF op
    <2>3. skFile' = [skFile EXCEPT ![op[1]][op[2]] = op[3]]
      BY <1>1 DEF op
    <2>4. QED
      BY <1>2, <2>2, <2>3
  <1>6. skTodo' \in Seq(SkOps)
    BY <1>1, <1>2
  <1>7. SkTypes'
    BY <1>1, <1>5, <1>6 DEF SkFiling, SkTypes
  <1>8. SkAgreeing'
    BY <1>1, <1>3, <1>4 DEF SkFiling, SkAgreeing
  <1>9. SkMerging'
    <2>1. CASE skKeep = {}
      BY <1>1, <2>1 DEF SkMerging
    <2>2. ASSUME NEW p \in SkPairs, SkMergeBegins(p)
          PROVE  SkMergeWrote(p)'
      <3>1. skKeep \in SUBSET Nat
        <4>1. <<p[1]>> \in SkAll /\ <<p[2]>> \in SkAll
          BY SkSources
        <4>2. SkLoadContent(<<p[1]>>) \in SUBSET Nat /\ SkLoadContent(<<p[2]>>) \in SUBSET Nat
          BY <4>1, SkLoaded DEF SkFiling
        <4>3. QED
          BY <2>2, <4>2 DEF SkMergeBegins
      <3>2. op = <<"global", p, skKeep>> /\ SkNever(skTodo', "global", p)
        BY <1>1, <2>2, <3>1, SkMergeEven DEF SkMergeBegins
      <3> HIDE DEF op
      <3>3. SkOn(op, "global", p) /\ op[3] = skKeep /\ p \in SkAll
        BY <3>2, SkSources DEF SkOn
      <3>4. skFile'["global"][p] = skKeep
        BY <1>3, <1>4, <3>3
      <3>5. QED
        BY <1>1, <3>2, <3>4 DEF SkMergeWrote
    <2>3. ASSUME NEW m \in SkMergedNames, SkMergeWrote(m)
          PROVE  SkMergeWrote(m)'
      <3>1. m \in SkAll
        BY DEF SkAll
      <3>2. QED
        BY <1>1, <1>3, <1>4, <2>3, <3>1 DEF SkMergeWrote
    <2>4. 0 \notin skKeep
      BY DEF SkFiling, SkMerging
    <2>5. \/ skKeep = {} \/ \E p \in SkPairs : SkMergeBegins(p)
          \/ \E m \in SkMergedNames : SkMergeWrote(m)
      BY <1>1 DEF SkFiling, SkMerging
    <2>6. QED
      BY <1>1, <2>1, <2>2, <2>3, <2>4, <2>5 DEF SkMerging, SkMergedNames
  <1>10. QED
    BY <1>7, <1>8, <1>9 DEF SkFiling

\* The process dies in the middle of a handler.
LEMMA SkStepsBreak ==
  ASSUME SkFiling, SkBreaks
  PROVE  SkFiling'
PROOF
  <1> DEFINE op == Head(skTodo)
  <1>1. /\ skTodo # <<>> /\ skTodo' = <<>> /\ skCut' = skCut \cup {skTodo[i][2] : i \in 1 .. Len(skTodo)}
        /\ skKeep' = skKeep /\ skRefine' = <<>> /\ skNext' = skNext
        /\ skFile' = skFile \/ skFile' = [skFile EXCEPT ![op[1]][op[2]] = {}]
    BY DEF SkBreaks
  <1>2. skTodo \in Seq(SkOps) /\ skFile \in [SkPlaces -> [SkAll -> SUBSET Nat]] /\ skNext \in Nat
    BY DEF SkFiling, SkTypes
  <1>3. "global" \in SkPlaces /\ "auto" \in SkPlaces /\ "root" \in SkPlaces
    BY DEF SkPlaces
  <1>4. op \in SkOps /\ op = skTodo[1] /\ 1 \in DOMAIN skTodo /\ DOMAIN skTodo = 1 .. Len(skTodo)
    BY <1>1, <1>2
  <1>5. op[1] \in SkPlaces /\ op[2] \in SkAll
    BY <1>4 DEF SkOps
  <1> HIDE DEF op
  <1>6. /\ skFile' \in [SkPlaces -> [SkAll -> SUBSET Nat]]
        /\ \A p \in SkPlaces, n \in SkAll : ~SkOn(op, p, n) => skFile'[p][n] = skFile[p][n]
    <2>1. CASE skFile' = skFile
      BY <1>2, <2>1
    <2>2. CASE skFile' = [skFile EXCEPT ![op[1]][op[2]] = {}]
      BY <1>2, <1>5, <2>2 DEF SkOn
    <2>3. QED
      BY <1>1, <2>1, <2>2
  <1>7. \A p, n : SkNever(<<>>, p, n)
    BY DEF SkNever
  <1>8. SkTypes'
    <2>1. <<>> \in Seq(SkOps)
      OBVIOUS
    <2>2. QED
      BY <1>1, <1>2, <1>6, <2>1 DEF SkTypes
  <1>9. SkAgreeing'
    <2>1. ASSUME NEW n \in SkAll \ skCut'
          PROVE  \E c \in SUBSET Nat : SkBecomes(skTodo', skFile', "global", n, c) /\ SkBecomes(skTodo', skFile', "auto", n, c)
      <3>1. n \notin skCut /\ \A i \in DOMAIN skTodo : skTodo[i][2] # n
        BY <1>1, <1>4, <2>1
      <3>2. \A p, c : ~SkLastly(skTodo, p, n, c) /\ ~SkOn(op, p, n)
        BY <1>4, <3>1 DEF SkLastly, SkOn
      <3>3. PICK c \in SUBSET Nat : SkBecomes(skTodo, skFile, "global", n, c) /\ SkBecomes(skTodo, skFile, "auto", n, c)
        BY <2>1, <3>1 DEF SkFiling, SkAgreeing
      <3>4. skFile["global"][n] = c /\ skFile["auto"][n] = c
        BY <3>2, <3>3 DEF SkBecomes
      <3>5. skFile'["global"][n] = c /\ skFile'["auto"][n] = c
        BY <1>3, <1>6, <3>2, <3>4
      <3>6. QED
        BY <1>1, <1>7, <3>5 DEF SkBecomes
    <2>2. QED
      BY <2>1 DEF SkAgreeing
  <1>10. SkMerging'
    <2>1. 0 \notin skKeep'
      BY <1>1 DEF SkFiling, SkMerging
    <2>2. CASE skKeep = {}
      BY <1>1, <2>1, <2>2 DEF SkMerging
    <2>3. ASSUME NEW p \in SkPairs, SkMergeBegins(p)
          PROVE  SkMergeKeeps'
      <3> DEFINE s == <<p[1]>>
                 t == <<p[2]>>
      <3>1. p \in SkAll /\ s \in SkAll /\ t \in SkAll /\ s # p /\ t # p
        BY SkSources
      <3>2. SkLoadContent(s) \in SUBSET Nat /\ SkLoadContent(t) \in SUBSET Nat
        BY <3>1, SkLoaded DEF SkFiling
      <3>3. skKeep \in SUBSET Nat /\ skKeep \subseteq SkLoadContent(s) \cup SkLoadContent(t)
        BY <2>3, <3>2 DEF SkMergeBegins
      <3>4. op = <<"global", p, skKeep>>
        BY <2>3, <3>3, SkMergeEven DEF SkMergeBegins, op
      <3>5. op[2] = p
        BY <3>4
      <3> HIDE DEF s, t
      <3>6. \A q \in SkPlaces : skFile'[q][s] = skFile[q][s] /\ skFile'[q][t] = skFile[q][t]
        BY <1>6, <3>1, <3>5 DEF SkOn
      <3>7. SkLoadContent(s)' = SkLoadContent(s) /\ SkLoadContent(t)' = SkLoadContent(t)
        BY <1>3, <3>6 DEF SkLoadContent, SkExists
      <3>8. skKeep' \subseteq SkLoadContent(s)' \cup SkLoadContent(t)'
        BY <1>1, <3>3, <3>7
      <3>9. QED
        BY <3>1, <3>8 DEF SkMergeKeeps, SkAll
    <2>4. ASSUME NEW m \in SkMergedNames, SkMergeWrote(m)
          PROVE  SkMergeWrote(m)'
      <3>1. m \in SkAll /\ ~SkOn(op, "global", m)
        BY <1>4, <2>4 DEF SkAll, SkMergeWrote, SkNever
      <3>2. QED
        BY <1>1, <1>3, <1>6, <1>7, <2>4, <3>1 DEF SkMergeWrote
    <2>5. \/ skKeep = {} \/ \E p \in SkPairs : SkMergeBegins(p)
          \/ \E m \in SkMergedNames : SkMergeWrote(m)
      BY <1>1 DEF SkFiling, SkMerging
    <2>6. QED
      BY <1>1, <2>1, <2>2, <2>3, <2>4, <2>5 DEF SkMerging
  <1>11. QED
    BY <1>8, <1>9, <1>10 DEF SkFiling

\* The LLM answers, and the copies that still exist are written.
LEMMA SkStepsRefined ==
  ASSUME SkFiling, NEW ok, SkRefined(ok)
  PROVE  SkFiling'
PROOF
  <1>1. skTodo = <<>> /\ skRefine # <<>> /\ skRefine' = <<>> /\ skFile' = skFile /\ skCut' = skCut
    BY DEF SkRefined, SkIdle
  <1>2. CASE skTodo' = skTodo /\ skKeep' = skKeep /\ skNext' = skNext
    <2>1. SkTypes'
      BY <1>1, <1>2 DEF SkFiling, SkTypes
    <2>2. SkAgreeing'
      BY <1>1, <1>2 DEF SkFiling, SkAgreeing
    <2>3. \A n : SkLoadContent(n)' = SkLoadContent(n)
      BY <1>1 DEF SkLoadContent, SkExists
    <2>4. SkMergeKeeps => SkMergeKeeps'
      BY <1>2, <2>3 DEF SkMergeKeeps
    <2>5. \A p : SkMergeBegins(p) => SkMergeBegins(p)'
      BY <1>2, <2>3 DEF SkMergeBegins
    <2>6. \A m : SkMergeWrote(m) => SkMergeWrote(m)'
      BY <1>1, <1>2 DEF SkMergeWrote
    <2>7. SkMerging'
      BY <1>2, <2>4, <2>5, <2>6 DEF SkFiling, SkMerging
    <2>8. QED
      BY <2>1, <2>2, <2>7 DEF SkFiling
  <1>3. CASE LET n == skRefine[1]
                 better == skRefine[2] \cup {skNext}
             IN skTodo' = SkSaved(n, <<"global", n, better>>) \o SkSaved(n, <<"auto", n, better>>) /\ skKeep' = {} /\ skNext' = skNext + 1
    <2> DEFINE n == skRefine[1]
               better == skRefine[2] \cup {skNext}
               g == <<"global", n, better>>
               w == <<"auto", n, better>>
    <2>1. n \in SkPlain /\ better \in SUBSET Nat
      <3>1. PICK m \in SkPlain, c \in SUBSET Nat : skRefine = <<m, c>>
        BY <1>1 DEF SkFiling, SkTypes
      <3>2. skRefine[1] = m /\ skRefine[2] = c /\ skNext \in Nat
        BY <3>1 DEF SkFiling, SkTypes
      <3>3. QED
        BY <3>2
    <2>2. n \in SkAll
      BY <2>1 DEF SkAll
    <2>3. g \in SkOps /\ w \in SkOps /\ g[1] = "global" /\ g[2] = n /\ w[1] = "auto" /\ w[2] = n
      BY <2>1, <2>2 DEF SkOps, SkPlaces
    <2>4. skTodo' = SkSaved(n, g) \o SkSaved(n, w) /\ skKeep' = {} /\ skNext' = skNext + 1
      BY <1>3
    <2>5. /\ SkBothCopies(n, better) = <<g, w>>
          /\ SkLastly(SkBothCopies(n, better), "global", n, better) /\ SkLastly(SkBothCopies(n, better), "auto", n, better)
      BY <2>1, <2>2, SkBoth DEF SkBothCopies
    <2> HIDE DEF n, better, g, w
    <2> DEFINE G == SkSaved(n, g)
               W == SkSaved(n, w)
    <2>6. /\ G \in Seq(SkOps) /\ W \in Seq(SkOps)
          /\ \A i \in DOMAIN G : G[i][2] = n
          /\ \A i \in DOMAIN W : W[i][2] = n
      BY <2>3 DEF SkSaved
    <2>7. \A p, x : x # n => SkNever(G, p, x) /\ SkNever(W, p, x)
      BY <2>6 DEF SkNever, SkOn
    <2>8. skTodo' \in Seq(SkOps) /\ \A p, x : x # n => SkNever(skTodo', p, x)
      <3> HIDE DEF G, W
      <3>1. skTodo' = G \o W
        BY <2>4 DEF G, W
      <3>2. QED
        BY <2>6, <2>7, <3>1, SkJoins, SkJoined
    <2>9. ASSUME n \notin skCut
          PROVE  \/ SkNever(skTodo', "global", n) /\ SkNever(skTodo', "auto", n)
                 \/ SkLastly(skTodo', "global", n, better) /\ SkLastly(skTodo', "auto", n, better)
      <3>1. PICK c \in SUBSET Nat : SkBecomes(skTodo, skFile, "global", n, c) /\ SkBecomes(skTodo, skFile, "auto", n, c)
        BY <2>2, <2>9 DEF SkFiling, SkAgreeing
      <3>2. skFile["global"][n] = skFile["auto"][n]
        BY <1>1, <3>1 DEF SkBecomes, SkLastly
      <3>3. SkSaves(n, g) <=> SkSaves(n, w)
        BY <2>3, <3>2 DEF SkSaves, SkExists
      <3>4. CASE SkSaves(n, g)
        <4>1. G = <<g>> /\ W = <<w>>
          BY <3>3, <3>4 DEF SkSaved
        <4>2. skTodo' = <<g>> \o <<w>>
          BY <2>4, <4>1
        <4>3. <<g>> \o <<w>> = <<g, w>>
          BY <2>3, SkTwo
        <4>4. QED
          BY <2>5, <4>2, <4>3
      <3>5. CASE ~SkSaves(n, g)
        <4>1. G = <<>> /\ W = <<>>
          BY <3>3, <3>5 DEF SkSaved
        <4>2. skTodo' = <<>>
          BY <2>4, <4>1
        <4>3. QED
          BY <4>2 DEF SkNever
      <3>6. QED
        BY <3>4, <3>5
    <2>10. SkAgreeing'
      <3>1. \A x \in SkAll \ skCut' : \/ x \notin skCut /\ SkNever(skTodo', "global", x) /\ SkNever(skTodo', "auto", x)
                                      \/ \E c \in SUBSET Nat : SkLastly(skTodo', "global", x, c) /\ SkLastly(skTodo', "auto", x, c)
        <4>1. SUFFICES ASSUME NEW x \in SkAll \ skCut'
                       PROVE  \/ x \notin skCut /\ SkNever(skTodo', "global", x) /\ SkNever(skTodo', "auto", x)
                              \/ \E c \in SUBSET Nat : SkLastly(skTodo', "global", x, c) /\ SkLastly(skTodo', "auto", x, c)
          OBVIOUS
        <4>2. x \notin skCut
          BY <1>1, <4>1
        <4>3. CASE x = n
          BY <2>1, <2>9, <4>2, <4>3
        <4>4. CASE x # n
          BY <2>8, <4>2, <4>4
        <4>5. QED
          BY <4>3, <4>4
      <3>2. QED
        BY <1>1, <3>1, SkBegins DEF SkFiling
    <2>11. SkTypes'
      BY <1>1, <2>4, <2>8 DEF SkFiling, SkTypes
    <2>12. SkMerging'
      BY <2>4 DEF SkMerging
    <2>13. QED
      BY <2>10, <2>11, <2>12 DEF SkFiling
  <1>4. QED
    BY <1>2, <1>3 DEF SkRefined

\* What nothing of the files changes.
LEMMA SkFilesRest ==
  ASSUME SkFiling, UNCHANGED <<skFile, skTodo, skCut, skKeep, skNext>>, SkTypes'
  PROVE  SkFiling'
PROOF
  <1>1. SkAgreeing'
    BY DEF SkFiling, SkAgreeing
  <1>2. \A n : SkLoadContent(n)' = SkLoadContent(n)
    BY DEF SkLoadContent, SkExists
  <1>3. SkMergeKeeps => SkMergeKeeps'
    BY <1>2 DEF SkMergeKeeps
  <1>4. \A p : SkMergeBegins(p) => SkMergeBegins(p)'
    BY <1>2 DEF SkMergeBegins
  <1>5. \A m : SkMergeWrote(m) => SkMergeWrote(m)'
    BY DEF SkMergeWrote
  <1>6. SkMerging'
    BY <1>3, <1>4, <1>5 DEF SkFiling, SkMerging
  <1>7. QED
    BY <1>1, <1>6 DEF SkFiling

\* A step of the files.
LEMMA SkStepsFiling ==
  ASSUME SkFiling, [SkNext]_skVars
  PROVE  SkFiling'
PROOF
  <1>1. skNext \in Nat /\ {skNext} \in SUBSET Nat /\ {} \in SUBSET Nat /\ SkPlain \subseteq SkAll
    BY DEF SkFiling, SkTypes, SkAll
  <1>2. CASE UNCHANGED skFileVars
    <2>1. SkTypes'
      BY <1>2 DEF SkFiling, SkTypes, skFileVars
    <2>2. QED
      BY <1>2, <2>1, SkFilesRest DEF skFileVars
  <1>3. ASSUME NEW n \in SkPlain, SkEdit(n)
        PROVE  SkFiling'
    BY <1>1, <1>3, SkPlansEven, SkStartsPlain DEF SkEdit, SkIdle
  <1>4. ASSUME NEW n \in SkPlain, SkPlaced(n)
        PROVE  SkFiling'
    BY <1>1, <1>4, SkPlansEven, SkStartsPlain DEF SkPlaced, SkIdle
  <1>5. ASSUME NEW n \in SkPlain, SkDelete(n)
        PROVE  SkFiling'
    BY <1>1, <1>5, SkPlansEven, SkStartsPlain DEF SkDelete, SkIdle
  <1>6. ASSUME NEW n \in SkPlain, NEW turns, NEW calls, NEW empty, SkCreate(n, turns, calls, empty)
        PROVE  SkFiling'
    <2> DEFINE c == IF empty THEN {} ELSE {skNext}
    <2>1. c \in SUBSET Nat
      BY <1>1
    <2>2. SkStart(SkBothCopies(n, c), {}, 1) /\ skTodo = <<>> /\ skFile' = skFile /\ skRefine' = skRefine
      BY <1>6 DEF SkCreate, SkIdle
    <2> HIDE DEF c
    <2>3. QED
      BY <1>1, <2>1, <2>2, SkPlansEven, SkStartsPlain
  <1>7. ASSUME NEW n \in SkPlain, SkCheckAndRefine(n)
        PROVE  SkFiling'
    <2>1. SkLoadContent(n) \in SUBSET Nat
      BY <1>1, SkLoaded DEF SkFiling
    <2>2. \E c \in SUBSET Nat : skRefine' = <<n, c>>
      BY <1>1, <1>7, <2>1 DEF SkCheckAndRefine
    <2>3. UNCHANGED <<skFile, skTodo, skCut, skKeep, skNext>>
      BY <1>7 DEF SkCheckAndRefine
    <2>4. SkTypes'
      BY <2>2, <2>3 DEF SkFiling, SkTypes
    <2>5. QED
      BY <2>3, <2>4, SkFilesRest
  <1>8. ASSUME NEW n \in SkPlain, NEW ok, SkLogExecution(n, ok)
        PROVE  SkFiling'
    <2>1. UNCHANGED <<skFile, skTodo, skCut, skKeep, skRefine, skNext>>
      BY <1>8 DEF SkLogExecution
    <2>2. SkTypes'
      BY <2>1 DEF SkFiling, SkTypes
    <2>3. QED
      BY <2>1, <2>2, SkFilesRest
  <1>9. CASE SkFilesNext
    BY <1>3, <1>4, <1>5, <1>6, <1>7, <1>8, <1>9, SkStartsMerge, SkStepsOn, SkStepsBreak, SkStepsRefined DEF SkFilesNext
  <1>10. CASE SkInstallNext
    <2>1. skFileVars' = skFileVars
      BY <1>10 DEF SkInstallNext, SkRemove, SkInstall, SkScanSkill, SkNpx, SkOnlyInst
    <2>2. QED
      BY <1>2, <2>1
  <1>11. CASE SkRegistryNext \/ SkLearnNext
    <2>1. skFileVars' = skFileVars
      BY <1>11 DEF SkRegistryNext, SkLearnNext, SkReload, SkSetEnabled, SkDirChanges, SkReflect, SkRevise, SkOnlyReg, SkOnlyLearn
    <2>2. QED
      BY <1>2, <2>1
  <1>12. CASE (\E m \in {"files", "install", "registry", "learn"} : SkChoose(m)) \/ UNCHANGED skVars
    BY <1>2, <1>12 DEF SkChoose, skVars
  <1>13. QED
    BY <1>9, <1>10, <1>11, <1>12 DEF SkNext

\* No skill at first.
LEMMA SkStarts ==
  ASSUME SkInit
  PROVE  SkIInv
PROOF
  <1>1. SkAbsent \in SUBSET Nat /\ "global" \in SkPlaces /\ "auto" \in SkPlaces
    BY DEF SkAbsent, SkPlaces
  <1>2. skFile = [p \in SkPlaces |-> [n \in SkAll |-> SkAbsent]] /\ skTodo = <<>> /\ skKeep = {} /\ skRefine = <<>> /\ skNext = 1
    BY DEF SkInit, SkAll
  <1>3. SkTypes
    <2>1. <<>> \in Seq(SkOps)
      OBVIOUS
    <2>2. QED
      BY <1>1, <1>2, <2>1 DEF SkTypes
  <1>4. SkAgreeing
    <2>1. \A p, n : SkNever(skTodo, p, n)
      BY <1>2 DEF SkNever
    <2>2. \A n \in SkAll : skFile["global"][n] = SkAbsent /\ skFile["auto"][n] = SkAbsent
      BY <1>1, <1>2
    <2>3. QED
      BY <1>1, <2>1, <2>2 DEF SkAgreeing, SkBecomes
  <1>5. SkMerging
    BY <1>2 DEF SkMerging
  <1>6. SkReported /\ SkDisabled
    BY DEF SkInit, SkReported, SkDisabled, SkDisabledStays
  <1>7. SkScoredLast
    BY DEF SkInit, SkScoredLast
  <1>8. QED
    BY <1>3, <1>4, <1>5, <1>6, <1>7 DEF SkIInv

\* Each part of the invariant is kept.
LEMMA SkStepInv ==
  ASSUME SkIInv, [SkNext]_skVars
  PROVE  SkIInv'
PROOF
  <1>1. SkFiling'
    BY SkStepsFiling DEF SkIInv, SkFiling
  <1>2. SkReported' /\ SkDisabled' /\ SkScoredLast'
    BY SkStepsReported, SkStepsDisabled, SkStepsScored DEF SkIInv
  <1>3. QED
    BY <1>1, <1>2 DEF SkIInv, SkFiling

\* What the invariant says of skills.
LEMMA SkShows ==
  ASSUME SkIInv
  PROVE  SkMergeKeeps /\ SkCopiesAgree /\ SkReportTrue /\ SkDisabledStays /\ SkFinalScored
PROOF
  <1>1. SkMergeKeeps
    <2>1. CASE skKeep = {}
      BY <2>1 DEF SkMergeKeeps
    <2>2. ASSUME NEW p \in SkPairs, SkMergeBegins(p)
          PROVE  SkMergeKeeps
      <3>1. <<p[1]>> \in SkAll /\ <<p[2]>> \in SkAll
        BY SkSources
      <3>2. QED
        BY <2>2, <3>1 DEF SkMergeBegins, SkMergeKeeps, SkAll
    <2>3. ASSUME NEW m \in SkMergedNames, SkMergeWrote(m)
          PROVE  SkMergeKeeps
      <3>1. m \in SkAll /\ skFile["global"][m] = skKeep /\ 0 \notin skKeep
        BY <2>3 DEF SkAll, SkMergeWrote, SkIInv, SkMerging
      <3>2. SkLoadContent(m) = skKeep
        BY <3>1, SkLoaded DEF SkIInv
      <3>3. QED
        BY <3>1, <3>2 DEF SkMergeKeeps, SkAll
    <2>4. QED
      BY <2>1, <2>2, <2>3 DEF SkIInv, SkMerging
  <1>2. SkCopiesAgree
    <2>1. SUFFICES ASSUME skTodo = <<>>, NEW n \in SkAll \ skCut
                   PROVE  skFile["global"][n] = skFile["auto"][n]
      BY DEF SkCopiesAgree, SkAll
    <2>2. PICK c \in SUBSET Nat : SkBecomes(skTodo, skFile, "global", n, c) /\ SkBecomes(skTodo, skFile, "auto", n, c)
      BY DEF SkIInv, SkAgreeing
    <2>3. QED
      BY <2>1, <2>2 DEF SkBecomes, SkLastly
  <1>3. SkReportTrue
    BY DEF SkIInv, SkReported, SkReportTrue
  <1>4. SkDisabledStays /\ SkFinalScored
    BY DEF SkIInv, SkDisabled, SkScoredLast, SkFinalScored
  <1>5. QED
    BY <1>1, <1>2, <1>3, <1>4

-----------------------------------------------------------------------------
(* The services together *)

\* The parts are in their own invariants.
IInv == GbIInv /\ WdIInv
RecordsIInv == CpIInv /\ KsIInv /\ MsIInv /\ DsIInv /\ InboxIInv
CopiesIInv == RcIInv /\ KbIInv /\ EnIInv /\ SkIInv
MovesInv == KbSized /\ KbQuiet /\ EnOpen /\ DsFree

\* A step of the services is a step of one part; the others stutter.
LEMMA PartSteps ==
  [Next]_all => /\ [GbNext]_gbVars /\ [WdNext]_wdVars /\ [CpNext]_cpVars /\ [KsNext]_ksVars /\ [MsNext]_msVars /\ [InboxNext]_inboxVars
                /\ [RcNext]_rcVars /\ [KbNext]_kbVars /\ [DsNext]_dsVars /\ [EnNext]_enVars /\ [SkNext]_skVars
  BY DEF Next, all

\* DecisionsRight: whatever operators, pollers, voters, workers and crashes
\* interleave, a decision of evaluate_proposal, resolve_ticket and
\* approve_action is one people made, a vote ends as its ballots say, a plan
\* reports what its steps did, a resolved issue knows when, and a leased
\* ticket has one holder.
THEOREM DecisionsAreRight == Spec => []DecisionsRight
  <1>1. Init => IInv
    BY GbInitInv, WdInitInv DEF Init, IInv
  <1>2. IInv /\ [Next]_all => IInv'
    BY PartSteps, GbStep, WdStep DEF IInv
  <1>3. IInv => DecisionsRight
    BY GbInvImplies, WdInvImplies DEF IInv, DecisionsRight
  <1> QED BY <1>1, <1>2, <1>3, PTL DEF Spec

\* RecordsKept: whatever writers, prunes, rotations, restarts, crashes, lost
\* connections and overlapping answers do, log records are in the log or in an
\* archive and verify, secrets and envelopes open, the stores of the memory
\* agree and forget for good, a listed backup is whole and has what was
\* committed, a partition has rows of its tenant only, migrations join, Mochat
\* dispatches an event once and its cursor file is never ahead.
THEOREM RecordsStay == Spec => []RecordsKept
  <1>1. Init => RecordsIInv
    BY CpInitInv, KsInitInv, MsInitInv, DsInitInv, InboxInitInv DEF Init, RecordsIInv
  <1>2. RecordsIInv /\ [Next]_all => RecordsIInv'
    BY PartSteps, CpStep, KsStep, MsStep, DsStepInv, InboxStep DEF RecordsIInv
  <1>3. RecordsIInv => RecordsKept
    BY CpInvImplies, KsInvImplies, MsInvImplies, DsInvImplies DEF RecordsIInv, RecordsKept, InboxIInv
  <1> QED BY <1>1, <1>2, <1>3, PTL DEF Spec

\* CopiesAgree: whatever threads, failures of Redis, crashes in the middle of a
\* handler and answers that come late do, the tags of the cache list what is in
\* L1, an invalidation that nothing overlapped leaves no older value in either
\* cache, chunks cover their text, RRF ranks fairly, an entry has its own
\* vector, only an attested enclave is used, an envelope that was not tampered
\* with opens, a merge loses nothing, both copies of a skill agree, a report is
\* about the skill that is there, a disabled skill stays disabled and the final
\* score is the one of the final response.
THEOREM CopiesAreEqual == Spec => []CopiesAgree
  <1>1. Init => CopiesIInv
    BY RcStarts, KbStarts, EnStarts, SkStarts DEF Init, CopiesIInv
  <1>2. CopiesIInv /\ [Next]_all => CopiesIInv'
    BY PartSteps, RcStep, KbStepInv, EnStep, SkStepInv DEF CopiesIInv
  <1>3. CopiesIInv => CopiesAgree
    BY KbShows, SkShows DEF CopiesIInv, CopiesAgree, RcIInv, EnIInv
  <1> QED BY <1>1, <1>2, <1>3, PTL DEF Spec

\* NeverUndone: no step of chunk_text or _fallback_split leaves its window where
\* it is, no restore_backup without force replaces a file of the target, no
\* execution is answered by an enclave that was stopped meanwhile, and no
\* check_and_refine brings back a skill that was deleted while it waited.
THEOREM NothingIsUndone == Spec => NeverUndone
  <1>1. Init => MovesInv
    BY KbMovesInit, EnOpenInit, DsFreeInit DEF Init, MovesInv
  <1>2. MovesInv /\ [Next]_all =>
          /\ MovesInv'
          /\ [(kbMode \in {"chunk", "split"}) => (kbDone' \/ (kbPos' > kbPos))]_kbVars
          /\ [dsJob = "extract" /\ dsJob' = "extract" /\ ~dsForce => \A f \in DsFiles : dsTarget[f] # DsNo => dsTarget'[f] = dsTarget[f]]_dsVars
          /\ [\A c \in EnCallers : enRun[c].at = "inside" /\ enRun'[c].at = "returned" => enStatus = "ready"]_enVars
          /\ [(skRefine # <<>> /\ skTodo' # <<>> /\ skRefine' = <<>>) => \A i \in 1 .. Len(skTodo') : SkExists(skTodo'[i][1], skTodo'[i][2])]_skVars
    BY PartSteps, KbMoves, EnAnswers, DsKeepsTarget, SkRevivesNothing DEF MovesInv
  <1> QED BY <1>1, <1>2, PTL DEF Spec, NeverUndone, KbMovesOn, DsNotOverwritten, EnNoAnswerAfterStop, SkNotRevived
=============================================================================
