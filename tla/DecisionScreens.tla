---------------------------- MODULE DecisionScreens ----------------------------
(***************************************************************************)
(* What the console's components show of a decision: badges, the recovery  *)
(* timeline, the ERV breakdown, the candidate cards, the check list, the   *)
(* execution and outcome card, and the rows, counts and order of the feed. *)
(* Each is a function of the decision; layout and wording are left out.    *)
(***************************************************************************)
EXTENDS DecisionData, SequencesExt

MaxOf(x, y) == IF x >= y THEN x ELSE y
MinOf(x, y) == IF x <= y THEN x ELSE y

\* n / d rounded to the nearest whole number, halves up, as Math.round does.
Round(n, d) == (n + d \div 2) \div d

\* Rupees shown for an amount: the paise are cut off, the sign is kept.
formatPaise(paise) ==
  [minus |-> paise < 0, rupees |-> (IF paise < 0 THEN -paise ELSE paise) \div 100]

\* The label of a recovery state; DONE reads as RECOVERED does.
StateLabel(state) ==
  CASE state \in {"RECOVERED", "DONE"} -> "Recovered"
    [] state = "ACTION_PENDING" -> "Action Pending"
    [] state = "ACTION_SELECTED" -> "Action Selected"
    [] state = "RECOVERY_ELIGIBLE" -> "Recovery Eligible"
    [] state = "DIAGNOSED" -> "Diagnosed"
    [] state = "RE_EVALUATE" -> "Re-Evaluate"
    [] state = "STOPPED" -> "Stopped"
    [] state = "FAILED" -> "Failed"

PolicyLabel(result) ==
  CASE result = "ALLOW" -> "Allow" [] result = "BLOCK" -> "Block"
    [] result = "HUMAN_REVIEW" -> "Human Review"

(***************************************************************************)
(* The timeline: a step per stage, and a final one when the state is final.*)
(***************************************************************************)
Step(state, completed, now) == [state |-> state, isCompleted |-> completed, isCurrent |-> now]

PendingDone(state) == state \in {"RECOVERED", "DONE", "STOPPED", "FAILED"}

Stages(state) ==
  << Step("FAILED", TRUE, FALSE),
     Step("DIAGNOSED", TRUE, FALSE),
     Step("RECOVERY_ELIGIBLE", TRUE, state = "RECOVERY_ELIGIBLE"),
     Step("ACTION_SELECTED", state # "RECOVERY_ELIGIBLE", state = "ACTION_SELECTED"),
     Step("ACTION_PENDING", PendingDone(state), state = "ACTION_PENDING") >>

Resolution(state) ==
  IF state \in {"RECOVERED", "DONE"} THEN << Step("RECOVERED", TRUE, TRUE) >>
  ELSE IF state \in {"STOPPED", "FAILED"} THEN << Step(state, TRUE, TRUE) >>
  ELSE <<>>

RecoveryTimeline(d) == Stages(d.recovery_state) \o Resolution(d.recovery_state)

(***************************************************************************)
(* Candidates: the one the breakdown explains is the first that is marked  *)
(* or chosen, else the first of all.                                       *)
(***************************************************************************)
selectedCandidate(d) ==
  LET hits == {i \in DOMAIN d.candidate_actions :
                 \/ d.candidate_actions[i].is_winner
                 \/ d.candidate_actions[i].action_type = d.chosen_action}
  IN d.candidate_actions[IF hits # {} THEN Min(hits) ELSE 1]

grossExpected(c) == Round(c.p_success * c.recoverable_amount, 100)

ErvBreakdown(d) ==
  LET c == selectedCandidate(d)
  IN [action |-> c.action_type, gross |-> formatPaise(grossExpected(c)),
      cost |-> formatPaise(c.cost), friction |-> formatPaise(c.friction_penalty),
      erv |-> formatPaise(c.erv)]

\* A row of the comparison: its width in percent of the best ERV, and its labels.
maxErv(d) == Max({1} \cup {d.candidate_actions[i].erv : i \in DOMAIN d.candidate_actions})
ErvBar(d, c) ==
  [pct |-> MaxOf(2, MinOf(100, Round(100 * MaxOf(0, c.erv), maxErv(d)))),
   isWinner |-> c.is_winner, isBlocked |-> c.policy_result = "BLOCK"]

\* A candidate's card.
CandidateAction(c) ==
  [ribbon |-> c.is_winner, dimmed |-> ~c.is_winner /\ c.policy_result = "BLOCK",
   policy |-> PolicyLabel(c.policy_result)]

PolicyCheckList(d) ==
  [passed |-> Cardinality({i \in DOMAIN d.policy_checks : d.policy_checks[i]}),
   total |-> Len(d.policy_checks), result |-> PolicyLabel(d.policy_result)]

\* The execution card is there when something was executed, and the outcome is on it.
OutcomeNotice(d) ==
  IF d.execution = "none" THEN "none" ELSE d.outcome.result

(***************************************************************************)
(* The feed: counts on the pills, and the rows the controls leave, sorted. *)
(***************************************************************************)
CountWhere(ds, Test(_)) == Cardinality({i \in DOMAIN ds : Test(ds[i])})

counts(ds) ==
  [all |-> Len(ds),
   recovered |-> CountWhere(ds, LAMBDA d : d.recovery_state = "RECOVERED"),
   pending |-> CountWhere(ds, LAMBDA d : d.recovery_state = "ACTION_PENDING"),
   humanReview |-> CountWhere(ds, LAMBDA d : d.policy_result = "HUMAN_REVIEW"),
   stopped |-> CountWhere(ds, LAMBDA d : d.recovery_state = "STOPPED")]

\* A search is for text of the decision; here, for its id or its payment's.
Matches(d, view) ==
  /\ view.status \in {"ALL", d.recovery_state}
  /\ view.action \in {"ALL", d.chosen_action}
  /\ view.policy \in {"ALL", d.policy_result}
  /\ view.search \in {"", d.id, d.payment_id}

SortKey(d, field) ==
  CASE field = "time" -> d.created_at [] field = "amount" -> d.amount
    [] field = "erv" -> d.erv_at_decision

InOrder(view, d, e) ==
  IF view.order = "asc" THEN SortKey(d, view.sortBy) < SortKey(e, view.sortBy)
  ELSE SortKey(d, view.sortBy) > SortKey(e, view.sortBy)

\* A stable insertion: after every row it does not strictly precede.
Insert(view, rows, d) ==
  InsertAt(rows, 1 + Cardinality({i \in DOMAIN rows : ~InOrder(view, d, rows[i])}), d)

filteredDecisions(ds, view) ==
  LET sorted[n \in 0..Len(ds)] ==
        IF n = 0 THEN <<>>
        ELSE IF Matches(ds[n], view) THEN Insert(view, sorted[n - 1], ds[n])
        ELSE sorted[n - 1]
  IN sorted[Len(ds)]
=============================================================================
