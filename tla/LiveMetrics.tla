------------------------------ MODULE LiveMetrics ------------------------------
(***************************************************************************)
(* The recovery summary: the engine aggregates its ledger                  *)
(* (recoverySummarySQL), the console derives its metrics from the aggregate*)
(* (http-client.ts) or takes the sandbox's (data.ts), and OverviewView     *)
(* draws a chart of them.  Shares and rates are in thousandths.            *)
(***************************************************************************)
EXTENDS Integers, Sequences, FiniteSets, SequencesExt

Screen == INSTANCE DecisionScreens

CONSTANTS
  Decisions,    \* the decisions of one merchant
  Kinds,        \* what a decision may be: chosen action, verdict, amount, cost
  Extra         \* actions execute-action is asked for besides the chosen one

MetricsAssumption ==
  /\ IsFiniteSet(Decisions)
  /\ Kinds \subseteq [chosen : STRING, verdict : {"ALLOW", "BLOCK", "HUMAN_REVIEW"},
                      amount : Nat, cost : Nat]
  /\ "no_action" \notin Extra

VARIABLES
  decision,     \* the rows of decisions, NoRow without one
  action,       \* actions and outcomes: [key, status, recovered] records
  metrics       \* the metrics the console holds, NotRead before the first read

vars == <<decision, action, metrics>>

NotRead == [source |-> "none"]
NoRow == [chosen |-> "none"]
Decided == {d \in Decisions : decision[d] # NoRow}

(***************************************************************************)
(* The engine's ledger: one action per decision and action type.           *)
(***************************************************************************)
Process(d) ==
  /\ decision[d] = NoRow
  /\ \E k \in Kinds : decision' = [decision EXCEPT ![d] = k]
  /\ UNCHANGED <<action, metrics>>

Execute(d, a) ==
  /\ d \in Decided /\ a \in ({decision[d].chosen} \ {"no_action"}) \cup Extra
  /\ \A x \in action : x.key # <<d, a>>
  /\ action' = action \cup {[key |-> <<d, a>>, status |-> "pending", recovered |-> 0]}
  /\ UNCHANGED <<decision, metrics>>

\* The outcome: everything recovered, or nothing by a confirmed or failed action.
Settle(x) ==
  /\ x.status = "pending"
  /\ \E s \in {"confirmed", "failed"}, r \in {0, decision[x.key[1]].amount} :
       /\ s = "failed" => r = 0
       /\ action' = (action \ {x}) \cup {[x EXCEPT !.status = s, !.recovered = r]}
  /\ UNCHANGED <<decision, metrics>>

SumOf(s) ==
  LET sum[n \in 0..Len(s)] == IF n = 0 THEN 0 ELSE sum[n - 1] + s[n] IN sum[Len(s)]
Total(S, f(_)) == LET s == SetToSeq(S) IN SumOf([n \in DOMAIN s |-> f(s[n])])

RecoverySummary ==
  LET won == {x \in action : x.recovered > 0}
  IN [total_decisions |-> Cardinality(Decided),
      total_actions |-> Cardinality(action),
      recovered_count |-> Cardinality(won),
      recovered_amount |-> Total(won, LAMBDA x : x.recovered),
      intervention_cost |-> Total({d \in Decided : decision[d].chosen # "no_action"},
                                  LAMBDA d : decision[d].cost),
      human_review_count |-> Cardinality({d \in Decided : decision[d].verdict = "HUMAN_REVIEW"}),
      no_action_count |-> Cardinality({d \in Decided : decision[d].chosen = "no_action"})]

(***************************************************************************)
(* getRecoverySummary: only counts, amount and cost are the engine's.      *)
(***************************************************************************)
Share(n, thousandths) == Screen!Round(n * thousandths, 1000)

EstimatedRisk(raw) ==
  IF raw.recovered_count > 0
  THEN Screen!Round(raw.recovered_amount * raw.total_decisions, raw.recovered_count)
  ELSE Share(raw.recovered_amount, 2200)

Intervention(name, attempts, recovered, rate, value) ==
  [action_type |-> name, attempts |-> attempts, recovered_count |-> recovered,
   recovery_rate |-> rate, recovered_value |-> value]

\* Mutant of Interventions: the link's share is the retry's.
SharesOver(raw) ==
  << Intervention("delayed_retry", Share(raw.total_actions, 600),
                  Share(raw.recovered_count, 580), 612, Share(raw.recovered_amount, 600)),
     Intervention("payment_link", Share(raw.total_actions, 300),
                  Share(raw.recovered_count, 320), 540, Share(raw.recovered_amount, 600)),
     Intervention("alternate_method", Share(raw.total_actions, 100),
                  Share(raw.recovered_count, 100), 450, Share(raw.recovered_amount, 100)) >>
Interventions(raw) ==
  << Intervention("delayed_retry", Share(raw.total_actions, 600),
                  Share(raw.recovered_count, 580), 612, Share(raw.recovered_amount, 600)),
     Intervention("payment_link", Share(raw.total_actions, 300),
                  Share(raw.recovered_count, 320), 540, Share(raw.recovered_amount, 300)),
     Intervention("alternate_method", Share(raw.total_actions, 100),
                  Share(raw.recovered_count, 100), 450, Share(raw.recovered_amount, 100)) >>

RiskShares == <<800, 850, 920, 950, 1000>>
RecoveredShares == <<750, 820, 890, 940, 1000>>

Transformed(raw) ==
  [source |-> "engine",
   revenue_at_risk |-> EstimatedRisk(raw),
   recoverable_revenue |-> Share(EstimatedRisk(raw), 650),
   recovered_revenue |-> raw.recovered_amount,
   recovery_rate |-> IF raw.total_decisions = 0 THEN 0
                     ELSE Screen!Round(1000 * raw.recovered_count, raw.total_decisions),
   active_interventions |-> Screen!MaxOf(0, raw.total_actions - raw.recovered_count),
   retries_avoided |-> raw.no_action_count,
   escalations |-> raw.human_review_count,
   trend |-> [i \in 1 .. 5 |-> [risk |-> Share(EstimatedRisk(raw), RiskShares[i]),
                                recovered |-> Share(raw.recovered_amount, RecoveredShares[i])]],
   interventions |-> Interventions(raw)]

getRecoverySummary ==
  /\ metrics' = Transformed(RecoverySummary)
  /\ UNCHANGED <<decision, action>>

(***************************************************************************)
(* The sandbox's metrics, in units of 100 rupees (trend, values).          *)
(***************************************************************************)
Point(risk, recovered) == [risk |-> risk, recovered |-> recovered]

AcmeTrend ==
  << Point(312, 148), Point(345, 172), Point(298, 139), Point(420, 215), Point(389, 198),
     Point(360, 184), Point(410, 204), Point(375, 191), Point(440, 228), Point(284, 142) >>
NexaTrend ==
  << Point(510, 230), Point(490, 210), Point(540, 245), Point(620, 280), Point(580, 260),
     Point(610, 290), Point(420, 195) >>
ZenithTrend ==
  << Point(210, 125), Point(240, 140), Point(290, 175), Point(310, 190), Point(270, 160),
     Point(280, 170), Point(180, 110) >>

SandboxMetrics(atRisk, recoverable, recovered, rate, active, avoided, escalations, trend, rows) ==
  [source |-> "sandbox", revenue_at_risk |-> atRisk, recoverable_revenue |-> recoverable,
   recovered_revenue |-> recovered, recovery_rate |-> rate, active_interventions |-> active,
   retries_avoided |-> avoided, escalations |-> escalations, trend |-> trend,
   interventions |-> rows]

MOCK_SUMMARY_METRICS ==
  [merch_acme_01 |-> SandboxMetrics(9845, 6820, 4730, 480, 42, 184, 3, AcmeTrend,
     << Intervention("delayed_retry", 210, 154, 733, 2310), Intervention("payment_link", 94, 58, 617, 1245),
        Intervention("alternate_method", 62, 41, 661, 780), Intervention("reminder", 48, 22, 458, 325),
        Intervention("retry", 35, 8, 228, 70), Intervention("escalate", 8, 4, 500, 0) >>),
   merch_nexa_02 |-> SandboxMetrics(14200, 9400, 6120, 431, 68, 312, 5, NexaTrend,
     << Intervention("delayed_retry", 340, 240, 706, 3600), Intervention("payment_link", 140, 82, 586, 1650),
        Intervention("alternate_method", 90, 55, 611, 870) >>),
   merch_zenith_03 |-> SandboxMetrics(6200, 4800, 3520, 568, 19, 95, 1, ZenithTrend,
     << Intervention("payment_link", 65, 48, 738, 2100), Intervention("delayed_retry", 52, 35, 673, 1220),
        Intervention("reminder", 25, 11, 440, 200) >>)]

\* The sandbox answers with the first merchant's metrics for one it does not know.
getSandboxSummary ==
  /\ metrics' \in {MOCK_SUMMARY_METRICS[m] : m \in DOMAIN MOCK_SUMMARY_METRICS}
  /\ UNCHANGED <<decision, action>>

(***************************************************************************)
(* OverviewView: the chart's vertical axis (downwards).                    *)
(***************************************************************************)
chartHeight == 170
paddingY == 24

maxRisk(m) == Max({1} \cup {m.trend[i].risk : i \in DOMAIN m.trend})
PointY(m, value) ==
  chartHeight - paddingY - Screen!Round(value * (chartHeight - 2 * paddingY), maxRisk(m))

Init ==
  /\ decision = [d \in Decisions |-> NoRow]
  /\ action = {}
  /\ metrics = NotRead

Next ==
  \/ \E d \in Decisions : Process(d)
  \/ \E d \in Decided : \E a \in {decision[d].chosen} \cup Extra : Execute(d, a)
  \/ \E x \in action : Settle(x)
  \/ getRecoverySummary
  \/ getSandboxSummary

Spec == Init /\ [][Next]_vars

-----------------------------------------------------------------------------
Shown == metrics # NotRead

\* The recovered line of the chart, estimated from the same aggregate as the axis, stays in
\* the chart and below the line of the revenue at risk, from the engine's figures as from
\* the sandbox's (OverviewView getPoints): as long as the engine has recovered no more
\* actions than it has decisions, as it may when execute-action is asked for others.
ChartFits ==
  Shown /\ metrics.recovery_rate <= 1000 => \A i \in DOMAIN metrics.trend :
    LET p == metrics.trend[i]
    IN /\ PointY(metrics, p.recovered) \in paddingY .. chartHeight - paddingY
       /\ PointY(metrics, p.recovered) >= PointY(metrics, p.risk)

\* The interventions share out what was recovered: their values sum to the recovered revenue,
\* up to the rounding of each row (http-client.ts interventions, OverviewView).
PartsAddUp ==
  Shown =>
    LET rows == metrics.interventions
    IN SumOf([i \in DOMAIN rows |-> rows[i].recovered_value]) - metrics.recovered_revenue \in -2 .. 2
=============================================================================
