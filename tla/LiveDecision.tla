----------------------------- MODULE LiveDecision -----------------------------
(***************************************************************************)
(* A decision of the engine on the console's screens: the engine decides an*)
(* event (Policy) and moves the decision on, the console reads it from the *)
(* feed or in detail and maps the answer to its own Decision record        *)
(* (http-client.ts), and the components show that (DecisionScreens).       *)
(* The factors of an ERV are passed on as they are, and left at 0 here.    *)
(***************************************************************************)
EXTENDS Policy

Screen == INSTANCE DecisionScreens

CONSTANTS
  Events,    \* the facts of the events decided
  Resolved,  \* the merchant's resolved policy
  Offers,    \* the candidates of a diagnosis, which repeats none (Diagnosis)
  Worths     \* their ERVs

ASSUME LiveAssumption ==
  /\ Events \subseteq EventFacts
  /\ Offers \subseteq Seq(Action) /\ \A list \in Offers : IsInjective(list)
  /\ Worths \subseteq [Action -> Int]

VARIABLES
  row,    \* the engine's row with what GetDecision joins to it
  shown   \* the console's Decision of it, or NotRead

live == <<row, shown>>

NotRead == [id |-> "none"]

(***************************************************************************)
(* The engine's side.                                                      *)
(***************************************************************************)
\* The checks of the chosen action: one per rule, up to the one that fired.
ChosenChecks(a, erv, f) ==
  LET fired == {i \in DOMAIN Rules : Fires(Rules[i], a, erv, f, Resolved)}
  IN IF fired = {} THEN [i \in DOMAIN Rules |-> TRUE]
     ELSE [i \in 1 .. Min(fired) |-> i # Min(fired)]

Decided(f, list, erv) ==
  LET d == Decide(list, erv, f, Resolved)
  IN [chosen |-> d.action, verdict |-> d.verdict, state |-> d.state,
      erv |-> erv[d.action], amount |-> f.amount,
      checks |-> ChosenChecks(d.action, erv[d.action], f),
      candidates |-> [i \in DOMAIN Rank(ensureNoAction(list), erv) |->
                        LET a == Rank(ensureNoAction(list), erv)[i]
                        IN [action |-> a, erv |-> erv[a],
                            verdict |-> Evaluate(a, erv[a], f, Resolved)]]]

\* Dispatch leaves a decision pending or settles it; reconciliation settles it later.
Move(states) ==
  /\ row' \in {[row EXCEPT !.state = s] : s \in states}
  /\ UNCHANGED shown
Dispatch == row.state = "ACTION_SELECTED" /\ Move({"ACTION_PENDING", "DONE", "STOPPED"})
Settle == row.state = "ACTION_PENDING" /\ Move({"DONE", "STOPPED"})

(***************************************************************************)
(* transformSummaryToDecision: the feed's row has no candidates, no amount *)
(* and no execution, and the console makes up the first two.               *)
(***************************************************************************)
amountEstimate(d) == IF d.erv > 0 THEN Screen!Round(125 * d.erv, 100) ELSE 250000

transformSummaryToDecision(d) ==
  LET candidate == Screen!CandidateActionItem(d.chosen, 75, amountEstimate(d), 200, 200, d.erv,
                                              d.verdict, TRUE)
  IN Screen!Decision("d", "p", 0, amountEstimate(d), d.chosen, d.erv, d.verdict, d.state,
       <<candidate>>, <<>>, "none", Screen!Outcome("IN_PROGRESS", 0))

(***************************************************************************)
(* transformDetailToDecision: the candidates' verdicts are not read, every *)
(* execution is pending, and an outcome is either recovered or in progress.*)
(***************************************************************************)
FirstWins(d, i) == i = 1
isWinner(d, i) == d.candidates[i].action = d.chosen

CandidateShown(d, i) ==
  LET c == d.candidates[i]
  IN Screen!CandidateActionItem(c.action, 0, d.amount, 0, 0, c.erv,
       IF isWinner(d, i) THEN d.verdict ELSE "ALLOW", isWinner(d, i))

ChecksShown(d) ==
  IF d.checks = <<>> THEN <<d.erv >= 0, d.verdict = "ALLOW">> ELSE d.checks

OutcomeShown(d) ==
  IF d.state = "DONE" THEN Screen!Outcome("RECOVERED", d.amount)
  ELSE Screen!Outcome("IN_PROGRESS", 0)

transformDetailToDecision(d) ==
  Screen!Decision("d", "p", 0, d.amount, d.chosen, d.erv, d.verdict, d.state,
    [i \in DOMAIN d.candidates |-> CandidateShown(d, i)], ChecksShown(d), "pending",
    OutcomeShown(d))

getRecoveryFeed == shown' = transformSummaryToDecision(row) /\ UNCHANGED row
getDecisionDetail == shown' = transformDetailToDecision(row) /\ UNCHANGED row

LiveInit ==
  /\ \E f \in Events, list \in Offers, erv \in Worths : row = Decided(f, list, erv)
  /\ shown = NotRead

LiveNext == Dispatch \/ Settle \/ getRecoveryFeed \/ getDecisionDetail

LiveSpec == LiveInit /\ [][LiveNext]_live

-----------------------------------------------------------------------------

Marked(d) == {i \in DOMAIN d.candidate_actions : d.candidate_actions[i].is_winner}

\* The screen marks one candidate, and it is the engine's choice with the engine's ERV and
\* verdict, also when the candidate of the highest ERV was blocked (http-client.ts isWinner).
WinnerIsChosen ==
  shown # NotRead =>
    \E i \in Marked(shown) :
      /\ Marked(shown) = {i}
      /\ shown.candidate_actions[i].action_type = row.chosen
      /\ shown.candidate_actions[i].erv = row.erv
      /\ shown.candidate_actions[i].policy_result = row.verdict
      /\ Screen!ErvBreakdown(shown).action = row.chosen
      /\ \A k \in DOMAIN shown.candidate_actions :
           Screen!CandidateAction(shown.candidate_actions[k]).ribbon <=> k = i

\* The row of the feed and the investigation screen tell the same of a decision: action,
\* ERV, verdict, state and timeline (the two transform functions).
FeedAgreesWithDetail ==
  LET s == transformSummaryToDecision(row)
      d == transformDetailToDecision(row)
  IN /\ <<s.chosen_action, s.erv_at_decision, s.policy_result, s.recovery_state>>
          = <<d.chosen_action, d.erv_at_decision, d.policy_result, d.recovery_state>>
     /\ s.candidate_actions[1].policy_result = Screen!selectedCandidate(d).policy_result

\* Every state in which the engine leaves a decision has its place on the timeline: one
\* step is current (RecoveryTimeline.tsx).
StateOnTimeline ==
  shown # NotRead =>
    LET steps == Screen!RecoveryTimeline(shown)
    IN Cardinality({i \in DOMAIN steps : steps[i].isCurrent}) = 1

\* A read in detail shows a recovery exactly when the engine has recorded one by then: the
\* badge and the outcome say the same, and the list of checks shows no failed one.
RecoveryShownWhenDone ==
  [][ shown' # shown /\ shown'.execution # "none" =>
        /\ Screen!OutcomeNotice(shown') = "RECOVERED" <=> row.state = "DONE"
        /\ Screen!StateLabel(shown'.recovery_state) = "Recovered" <=> row.state = "DONE"
        /\ row.state = "DONE" =>
             LET list == Screen!PolicyCheckList(shown') IN list.passed = list.total ]_live

\* What the engine decided is what the screens show.
ShownAsDecided ==
  /\ [](WinnerIsChosen /\ FeedAgreesWithDetail /\ StateOnTimeline)
  /\ RecoveryShownWhenDone
=============================================================================
