-------------------------------- MODULE Sandbox --------------------------------
(***************************************************************************)
(* The sandbox with its decisions in full, and the operator who inspects,  *)
(* overrides and simulates: MockRecoveryApiClient behind the investigation *)
(* screen and its two dialogs.  Console has the calls, their routing and   *)
(* their timing; here every call is answered at once, and what it does to  *)
(* a decision and what the screen then shows is in the foreground.         *)
(***************************************************************************)
EXTENDS DecisionScreens, FiniteSets

CONSTANTS
  NewIds,     \* the ids drawn for simulated decisions
  Amounts,    \* the amounts of simulated failures, in paise
  SimulatedAt,\* when they happen, on the scale of the seeded times
  MaxOverrides

ASSUME SandboxAssumption ==
  /\ \A i \in DOMAIN MOCK_DECISIONS :
       MOCK_DECISIONS[i].id \notin NewIds /\ MOCK_DECISIONS[i].payment_id \notin NewIds
  /\ Amounts \subseteq Nat \ {0} /\ SimulatedAt \in Nat /\ MaxOverrides \in Nat

VARIABLES
  decisions, auditLogs,
  tab,        \* "feed" or "decision": the investigation screen is mounted
  selected,   \* the id of the decision it shows
  pick        \* the action picked in its override dialog, kept while it is mounted

vars == <<decisions, auditLogs, tab, selected, pick>>

Ids == {decisions[i].id : i \in DOMAIN decisions}
Find(ds, id) == ds[CHOOSE i \in DOMAIN ds : ds[i].id = id]
Shown == Find(decisions, selected)
Types(d) == {d.candidate_actions[i].action_type : i \in DOMAIN d.candidate_actions}

(***************************************************************************)
(* The two writes.                                                         *)
(***************************************************************************)
MarkWinner(candidates, action) ==
  [i \in DOMAIN candidates |->
     [candidates[i] EXCEPT !.is_winner = (candidates[i].action_type = action)]]

\* Policy is not asked, and the execution, the outcome and the ERV stay those of the
\* action that was replaced.
Overridden(d, action) ==
  [d EXCEPT !.chosen_action = action, !.recovery_state = "ACTION_PENDING",
            !.policy_result = "ALLOW", !.overridden = TRUE,
            !.candidate_actions = MarkWinner(@, action)]

OverrideEntryLate(d, action) ==
  [AuditEvent("Operator (Admin)", "MANUAL_OPERATOR_OVERRIDE", d.id, d.payment_id)
     EXCEPT !.from = action, !.to = action]
OverrideEntry(d, action) ==
  [AuditEvent("Operator (Admin)", "MANUAL_OPERATOR_OVERRIDE", d.id, d.payment_id)
     EXCEPT !.from = d.chosen_action, !.to = action]

SimulatedCandidates(amount) ==
  << Winner(Allowed("delayed_retry", 84, amount, 200, 7200, Round(84 * amount - 740000, 100))),
     Allowed("payment_link", 71, amount, 450, 6000, Round(71 * amount - 645000, 100)),
     Allowed("no_action", 0, amount, 0, 0, 0) >>

\* Every simulated decision is a delayed retry that passed its three checks.  (A payment
\* id is drawn too; here it is the decision's.)
Simulated(id, amount) ==
  Decision(id, id, SimulatedAt, amount, "delayed_retry", Round(82 * amount - 740000, 100),
    "ALLOW", "ACTION_PENDING", SimulatedCandidates(amount), <<TRUE, TRUE, TRUE>>,
    "pending", Outcome("IN_PROGRESS", 0))

(***************************************************************************)
(* The operator.                                                           *)
(***************************************************************************)
\* From the feed the screen is mounted, and its dialog starts with the decision's action.
Inspect(id) ==
  /\ tab = "feed"
  /\ tab' = "decision" /\ selected' = id
  /\ pick' = Find(decisions, id).chosen_action
  /\ UNCHANGED <<decisions, auditLogs>>

Back ==
  /\ tab = "decision" /\ tab' = "feed"
  /\ UNCHANGED <<decisions, auditLogs, selected, pick>>

\* Picking an action in the dialog; closing the dialog keeps the pick.
PickAction(action) ==
  /\ tab = "decision" /\ action \in Types(Shown)
  /\ pick' = action
  /\ UNCHANGED <<decisions, auditLogs, tab, selected>>

\* The places of the log's override entries.
OverrideEntries ==
  {i \in DOMAIN auditLogs : auditLogs[i].event_type = "MANUAL_OPERATOR_OVERRIDE"}

\* A reason is typed: a blank one is turned down by the dialog and by the sandbox.
overrideDecision ==
  /\ tab = "decision" /\ Cardinality(OverrideEntries) < MaxOverrides
  /\ decisions' = [i \in DOMAIN decisions |->
                     IF decisions[i].id = selected THEN Overridden(decisions[i], pick)
                                                   ELSE decisions[i]]
  /\ auditLogs' = <<OverrideEntry(Shown, pick)>> \o auditLogs
  /\ UNCHANGED <<tab, selected, pick>>

\* The dialog opens on every tab, and ends on the new decision's screen, which is mounted
\* anew unless it was there already.
simulatePaymentFailed(id, amount) ==
  /\ id \notin Ids
  /\ decisions' = <<Simulated(id, amount)>> \o decisions
  /\ auditLogs' = <<AuditEvent("System", "PAYMENT_FAILED_INGESTED", id, id)>> \o auditLogs
  /\ tab' = "decision" /\ selected' = id
  /\ pick' = IF tab = "decision" THEN pick ELSE "delayed_retry"

Init ==
  /\ decisions = MOCK_DECISIONS /\ auditLogs = MOCK_AUDIT_LOG
  /\ tab = "feed" /\ selected = DEC_8F31A2.id /\ pick = DEC_8F31A2.chosen_action

Next ==
  \/ \E id \in Ids : Inspect(id)
  \/ Back
  \/ \E action \in CandidateActionType : PickAction(action)
  \/ overrideDecision
  \/ \E id \in NewIds, amount \in Amounts : simulatePaymentFailed(id, amount)

Spec == Init /\ [][Next]_vars

-----------------------------------------------------------------------------

\* The investigation screen lists the audit entries of its decision and its payment, here
\* by their places in the log.
paymentAuditTrail(d) ==
  {i \in DOMAIN auditLogs :
     auditLogs[i].payment_id = d.payment_id \/ auditLogs[i].entity_id = d.id}

AllDecisions == {decisions[i] : i \in DOMAIN decisions}
Candidates(d) == {d.candidate_actions[i] : i \in DOMAIN d.candidate_actions}

\* Decisions and the operator's pick have their shape, and ids are unique.
TypeOK ==
  /\ \A d \in AllDecisions :
       /\ d.chosen_action \in CandidateActionType /\ d.policy_result \in PolicyCheckResult
       /\ d.recovery_state \in RecoveryState /\ d.execution \in ActionStatus \cup {"none"}
       /\ d.outcome \in RecoveryOutcome
  /\ Cardinality(Ids) = Len(decisions)
  /\ tab \in {"feed", "decision"} /\ selected \in Ids /\ pick \in CandidateActionType

(***************************************************************************)
(* The trail shown with a decision explains the action shown: its override *)
(* entries, oldest first, lead from the action the decision was made with  *)
(* to the chosen one, each starting where the one before ended (client.ts  *)
(* overrideDecision, App.tsx paymentAuditTrail).                           *)
(***************************************************************************)
MadeWith(id) ==
  IF id \in NewIds THEN "delayed_retry" ELSE Find(MOCK_DECISIONS, id).chosen_action
TrailReplays ==
  \A d \in AllDecisions :
    LET o == paymentAuditTrail(d) \cap OverrideEntries
    IN /\ o = {} => d.chosen_action = MadeWith(d.id)
       /\ o # {} => /\ auditLogs[Min(o)].to = d.chosen_action
                    /\ auditLogs[Max(o)].from = MadeWith(d.id)
       /\ \A i, k \in o :
            i < k /\ (\A j \in o : j <= i \/ k <= j) => auditLogs[i].from = auditLogs[k].to

\* At most one candidate is marked, and after an override it is the operator's, whatever
\* was marked before (client.ts overrideDecision's loop over the candidates).
OneWinner ==
  \A d \in AllDecisions :
    LET marked == {c \in Candidates(d) : c.is_winner}
    IN /\ Cardinality(marked) <= 1
       /\ d.overridden => \A c \in marked : c.action_type = d.chosen_action

(***************************************************************************)
(* The ERV breakdown adds up: every candidate's ERV is its P(success)      *)
(* times the amount less cost and friction, to the paisa, for seeded and   *)
(* simulated decisions alike (domain.ts CandidateActionItem).  Each term   *)
(* is cut to rupees, and those shown still add up to within two; the bars  *)
(* rank the candidates as the ERVs do (ErvBreakdown.tsx).                  *)
(***************************************************************************)
Rupees(amount) == IF amount.minus THEN -amount.rupees ELSE amount.rupees
ErvAddsUp ==
  tab = "decision" =>
    LET b == ErvBreakdown(Shown)
        cs == Shown.candidate_actions
        pct == [i \in DOMAIN cs |-> ErvBar(Shown, cs[i]).pct]
    IN /\ \A i \in DOMAIN cs : cs[i].erv = grossExpected(cs[i]) - cs[i].cost - cs[i].friction_penalty
       /\ Rupees(b.gross) - Rupees(b.cost) - Rupees(b.friction) - Rupees(b.erv) \in -2..2
       /\ \A i, k \in DOMAIN cs : cs[i].erv >= cs[k].erv => pct[i] >= pct[k]

(***************************************************************************)
(* The timeline reads as progress: exactly one step is current, the        *)
(* completed steps come first, and none comes after the current one        *)
(* (RecoveryTimeline.tsx).                                                 *)
(***************************************************************************)
TimelineCoherent ==
  \A d \in AllDecisions :
    LET steps == RecoveryTimeline(d)
        now == {i \in DOMAIN steps : steps[i].isCurrent}
    IN /\ Cardinality(now) = 1
       /\ \A i \in 2..Len(steps) : steps[i].isCompleted => steps[i - 1].isCompleted
       /\ \A i \in now, k \in DOMAIN steps : k > i => ~steps[k].isCompleted

\* A decision called recovered has recovered: its outcome, if one is shown, says so too
\* (DecisionStatus.tsx, DecisionInvestigationView.tsx).
RecoveredIsRecovered ==
  \A d \in AllDecisions :
    StateLabel(d.recovery_state) = "Recovered" => OutcomeNotice(d) = "RECOVERED"

\* What the investigation screen shows of a decision hangs together, whatever overrides and
\* simulations came before.
InvestigationCoherent ==
  TypeOK /\ TrailReplays /\ OneWinner /\ ErvAddsUp /\ TimelineCoherent /\ RecoveredIsRecovered
=============================================================================
