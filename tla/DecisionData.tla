----------------------------- MODULE DecisionData -----------------------------
(***************************************************************************)
(* The console's decision records and the seven decisions the sandbox is   *)
(* seeded with, all of one merchant.  Amounts are integer paise, P(success)*)
(* a whole percent, times minutes since the first seeded day.  Customers,  *)
(* diagnoses, labels, notes and references are text no rule reads, and are *)
(* left out; policy checks keep their verdict.                             *)
(***************************************************************************)
EXTENDS Integers, Sequences

RecoveryState ==
  {"FAILED", "DIAGNOSED", "RECOVERY_ELIGIBLE", "ACTION_SELECTED", "ACTION_PENDING",
   "RECOVERED", "RE_EVALUATE", "STOPPED", "DONE"}
PolicyCheckResult == {"ALLOW", "BLOCK", "HUMAN_REVIEW"}
ActionStatus == {"pending", "pending_confirmation", "confirmed", "failed"}
CandidateActionType ==
  {"retry", "delayed_retry", "alternate_method", "payment_link", "reminder", "escalate",
   "no_action"}
RecoveryOutcome ==
  [result : {"RECOVERED", "FAILED", "PENDING_CONFIRMATION", "STOPPED", "IN_PROGRESS"},
   recovered_amount : Nat]

CandidateActionItem(type, p, amount, cost, friction, erv, result, winner) ==
  [action_type |-> type, p_success |-> p, recoverable_amount |-> amount, cost |-> cost,
   friction_penalty |-> friction, erv |-> erv, policy_result |-> result, is_winner |-> winner]

\* A candidate every one of which was allowed by policy.
Allowed(type, p, amount, cost, friction, erv) ==
  CandidateActionItem(type, p, amount, cost, friction, erv, "ALLOW", FALSE)
Winner(candidate) == [candidate EXCEPT !.is_winner = TRUE]
Ruled(candidate, result) == [candidate EXCEPT !.policy_result = result]

Outcome(result, amount) == [result |-> result, recovered_amount |-> amount]

\* The decisions in the order they are stored; run is its execution's status, or "none".
Decision(id, payment, created, amount, act, erv, result, state, candidates, checks, run, outcome) ==
  [id |-> id, payment_id |-> payment, created_at |-> created, amount |-> amount,
   chosen_action |-> act, erv_at_decision |-> erv, policy_result |-> result,
   recovery_state |-> state, candidate_actions |-> candidates, policy_checks |-> checks,
   execution |-> run, outcome |-> outcome, overridden |-> FALSE]

DEC_8F31A2_candidates ==
  LET of(type, p, cost, friction, erv) == Allowed(type, p, 849900, cost, friction, erv)
  IN << Winner(of("delayed_retry", 89, 200, 7200, 749011)),
        of("payment_link", 74, 450, 6500, 621976),
        of("reminder", 61, 150, 8500, 509789),
        of("retry", 42, 200, 12000, 344758),
        of("alternate_method", 52, 350, 15000, 426598),
        of("escalate", 38, 3500, 40000, 279462),
        of("no_action", 0, 0, 0, 0) >>

DEC_8F31A2 ==
  Decision("DEC-8F31A2", "pay_Hdfc8914A", 2003, 849900, "delayed_retry", 749011, "ALLOW",
    "RECOVERED", DEC_8F31A2_candidates, <<TRUE, TRUE, TRUE, TRUE, TRUE, TRUE>>,
    "confirmed", Outcome("RECOVERED", 849900))

DEC_9B42E1 ==
  LET of(type, p, cost, friction, erv) ==
        Ruled(Allowed(type, p, 14500000, cost, friction, erv), "HUMAN_REVIEW")
  IN Decision("DEC-9B42E1", "pay_Corp_145000", 1965, 14500000, "escalate", 11200000,
       "HUMAN_REVIEW", "RECOVERY_ELIGIBLE",
       << Winner(of("payment_link", 82, 800, 15000, 11874200)),
          of("delayed_retry", 65, 300, 25000, 9399700),
          of("escalate", 78, 5000, 20000, 11285000) >>,
       <<FALSE, TRUE, TRUE>>, "none", Outcome("IN_PROGRESS", 0))

DEC_3C18F0 ==
  LET of(type, p, cost, friction, erv) == Allowed(type, p, 320000, cost, friction, erv)
  IN Decision("DEC-3C18F0", "pay_Card_3200_max", 1872, 320000, "no_action", 0, "BLOCK",
       "STOPPED",
       << Ruled(of("payment_link", 35, 450, 25000, 86550), "BLOCK"),
          Ruled(of("delayed_retry", 28, 200, 30000, 59400), "BLOCK"),
          Winner(of("no_action", 0, 0, 0, 0)) >>,
       <<FALSE, FALSE>>, "none", Outcome("STOPPED", 0))

DEC_5D77A9 ==
  LET of(type, p, cost, friction, erv) == Allowed(type, p, 1250000, cost, friction, erv)
  IN Decision("DEC-5D77A9", "pay_Upi_12500_ambig", 1990, 1250000, "payment_link", 912500,
       "ALLOW", "ACTION_PENDING",
       << Winner(of("payment_link", 78, 450, 5800, 968750)),
          of("retry", 25, 200, 18000, 294300) >>,
       <<TRUE, TRUE>>, "pending_confirmation", Outcome("PENDING_CONFIRMATION", 0))

DEC_7E29C3 ==
  LET of(type, p, cost, friction, erv) == Allowed(type, p, 680000, cost, friction, erv)
  IN Decision("DEC-7E29C3", "pay_Upi_6800_degraded", 1830, 680000, "payment_link", 541200,
       "ALLOW", "RECOVERED",
       << Winner(of("payment_link", 81, 450, 5500, 544850)),
          of("retry", 15, 200, 15000, 86800) >>,
       <<TRUE, TRUE>>, "confirmed", Outcome("RECOVERED", 680000))

DEC_2A61D4 ==
  LET of(type, p, cost, friction, erv) == Allowed(type, p, 249900, cost, friction, erv)
  IN Decision("DEC-2A61D4", "pay_Upi_2499_alt", 1180, 249900, "alternate_method", 198000,
       "ALLOW", "RECOVERED",
       << Winner(of("alternate_method", 81, 350, 3800, 198269)),
          Ruled(of("retry", 2, 200, 15000, -10202), "BLOCK") >>,
       <<TRUE>>, "confirmed", Outcome("RECOVERED", 249900))

DEC_1F88B7 ==
  LET of(type, p, cost, friction, erv) == Allowed(type, p, 189900, cost, friction, erv)
  IN Decision("DEC-1F88B7", "pay_Sub_1899_frict", 855, 189900, "delayed_retry", 145000,
       "ALLOW", "RECOVERED",
       << Winner(of("delayed_retry", 80, 200, 2500, 149220)),
          of("reminder", 72, 150, 15000, 121578) >>,
       <<TRUE>>, "confirmed", Outcome("RECOVERED", 189900))

MOCK_DECISIONS ==
  << DEC_8F31A2, DEC_9B42E1, DEC_3C18F0, DEC_5D77A9, DEC_7E29C3, DEC_2A61D4, DEC_1F88B7 >>

\* The audit log, newest first: who did what to which entity of which payment.  What an
\* override replaced and put in its place is part of its entry's text.
AuditEvent(actor, type, entity, payment) ==
  [actor |-> actor, event_type |-> type, entity_id |-> entity, payment_id |-> payment,
   from |-> "none", to |-> "none"]

MOCK_AUDIT_LOG ==
  << AuditEvent("Executor", "PAYMENT_RECOVERED", "pay_Hdfc8914A", "pay_Hdfc8914A"),
     AuditEvent("Executor", "ACTION_EXECUTED", "act_delayed_8f31", "pay_Hdfc8914A"),
     AuditEvent("Policy Engine", "POLICY_EVALUATION_COMPLETED", "DEC-8F31A2", "pay_Hdfc8914A"),
     AuditEvent("AI Diagnoser", "DIAGNOSIS_COMPLETED", "DEC-8F31A2", "pay_Hdfc8914A"),
     AuditEvent("System", "PAYMENT_FAILED_INGESTED", "pay_Hdfc8914A", "pay_Hdfc8914A"),
     AuditEvent("Policy Engine", "POLICY_FLAGGED_HUMAN_REVIEW", "DEC-9B42E1", "pay_Corp_145000"),
     AuditEvent("Policy Engine", "RECOVERY_STOPPED", "DEC-3C18F0", "pay_Card_3200_max"),
     AuditEvent("System", "AI_FALLBACK_ENGAGED", "DEC-7E29C3", "pay_Upi_6800_degraded"),
     AuditEvent("Operator (Admin)", "POLICY_CONFIG_UPDATED", "merch_acme_01", "none") >>
=============================================================================
