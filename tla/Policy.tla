------------------------------- MODULE Policy -------------------------------
(***************************************************************************)
(* The decision plane as pure functions: the resolution of a merchant's    *)
(* configuration against the platform ceilings (policy/merchant_override), *)
(* the ordered constraint set (policy/engine), the ERV ranking             *)
(* (erv/optimizer) and the selection of one candidate with the recovery    *)
(* state it leads to (the middle of pipeline.Process).                     *)
(*                                                                         *)
(* Probabilities, money and minutes are integers; an ERV is the number the *)
(* optimizer computed, already multiplied out.  NoOverride stands for the  *)
(* NULL confidence_floor_override of a merchant.                           *)
(***************************************************************************)
EXTENDS RecoveryDomain, Integers, FiniteSets, SequencesExt

NoOverride == -1

\* A row of merchant_policy_config, the platform_policy row, and the facts of
\* one payment event as the engine sees them.
MerchantRow ==
  [maxRetries : Int, cooldown : Int, minERV : Int, dailyCap : Int,
   amountCeiling : Int, confidenceFloor : Int]

PlatformRow ==
  [maxRetriesCeiling : Int, minCooldown : Int, maxDailyCap : Int,
   maxAmountCeiling : Int, confidenceFloor : Int]

EventFacts ==
  [retries : Nat, hasPriorRetry : BOOLEAN, sinceRetry : Int, actionsToday : Nat,
   kill : BOOLEAN, globalKill : BOOLEAN, priorAttempts : Nat, amount : Nat,
   cause : RootCause, confidence : Nat]

-----------------------------------------------------------------------------
(* Merchant configuration against platform ceilings.                       *)

\* max_retries: fewer is safer; a platform ceiling of 0 is no ceiling.
clampMax(merchant, ceiling) ==
  IF ceiling <= 0 \/ merchant <= ceiling THEN merchant ELSE ceiling

\* Mutant of atLeast: the platform's minimum replaces the merchant's cooldown.
CooldownReplaced(merchant, floor) == floor

\* cooldown: longer is safer.
atLeast(merchant, floor) == IF merchant < floor THEN floor ELSE merchant

\* Mutant of clampCap: a merchant's 0 passes the platform maximum.
ZeroUncapped(merchant, platformMax) ==
  IF platformMax > 0 /\ merchant > platformMax THEN platformMax ELSE merchant

\* daily_action_cap and amount_ceiling: a merchant's 0 means unbounded, so
\* with a platform maximum it becomes that maximum.
clampCap(merchant, platformMax) ==
  IF platformMax > 0 /\ (merchant <= 0 \/ merchant > platformMax)
    THEN platformMax ELSE merchant

\* NoOverride is below every floor, so it never raises one.
resolveConfidenceFloor(override, floor) ==
  IF override > floor THEN override ELSE floor

ResolveMerchantPolicy(m, p) ==
  [maxRetries      |-> clampMax(m.maxRetries, p.maxRetriesCeiling),
   cooldown        |-> atLeast(m.cooldown, p.minCooldown),
   minERV          |-> m.minERV,
   dailyCap        |-> clampCap(m.dailyCap, p.maxDailyCap),
   amountCeiling   |-> clampCap(m.amountCeiling, p.maxAmountCeiling),
   confidenceFloor |-> resolveConfidenceFloor(m.confidenceFloor, p.confidenceFloor)]

-----------------------------------------------------------------------------
(* The constraint set.  f holds the facts of one payment event: what       *)
(* LoadContext read (retries, sinceRetry, hasPriorRetry, actionsToday and  *)
(* the two kill switches) and the diagnosis (cause, confidence).           *)

\* Mutants of Rules: the engine without its first, and without its fifth rule.
RulesWithoutKillSwitch ==
  <<"fraud_hard_stop", "confidence_floor", "amount_ceiling", "cooldown",
    "max_retries", "daily_action_cap", "min_erv">>
RulesWithoutCooldown ==
  <<"kill_switch", "fraud_hard_stop", "confidence_floor", "amount_ceiling",
    "max_retries", "daily_action_cap", "min_erv">>

Rules == <<"kill_switch", "fraud_hard_stop", "confidence_floor",
           "amount_ceiling", "cooldown", "max_retries",
           "daily_action_cap", "min_erv">>

EffectiveAttempts(f) == f.priorAttempts + f.retries

Fires(rule, a, erv, f, r) ==
  /\ a # "no_action"
  /\ CASE rule = "kill_switch"      -> f.globalKill \/ f.kill
       [] rule = "fraud_hard_stop"  -> f.cause = "fraud_suspected"
       [] rule = "confidence_floor" -> f.confidence < r.confidenceFloor /\ a # "notify"
       [] rule = "amount_ceiling"   -> /\ r.amountCeiling > 0
                                       /\ f.amount > r.amountCeiling
                                       /\ a # "notify"
       [] rule = "cooldown"         -> /\ IsRetry(a) /\ f.hasPriorRetry
                                       /\ f.sinceRetry < r.cooldown
       [] rule = "max_retries"      -> IsRetry(a) /\ EffectiveAttempts(f) >= r.maxRetries
       [] rule = "daily_action_cap" -> r.dailyCap > 0 /\ f.actionsToday >= r.dailyCap
       [] rule = "min_erv"          -> ~(erv > r.minERV)

\* Mutant of humanReview: an amount above the ceiling blocks the escalation too.
FraudOnlyReview(rule, a) == a = "escalate" /\ rule = "fraud_hard_stop"

\* The two gates that route an escalation to a human instead of blocking it.
humanReview(rule, a) ==
  a = "escalate" /\ rule \in {"fraud_hard_stop", "amount_ceiling"}

\* The first rule that fires decides.
Evaluate(a, erv, f, r) ==
  LET fired == {i \in 1 .. Len(Rules) : Fires(Rules[i], a, erv, f, r)}
  IN IF fired = {} THEN "ALLOW"
     ELSE IF humanReview(Rules[Min(fired)], a) THEN "HUMAN_REVIEW" ELSE "BLOCK"

-----------------------------------------------------------------------------
(* Candidates: their ranking and the selection of one of them.             *)

ensureNoAction(actions) ==
  IF Contains(actions, "no_action") THEN actions ELSE Append(actions, "no_action")

\* Mutant of Outranks: the sort is not stable.
UnstableOutranks(actions, erv, i, j) ==
  \/ erv[actions[i]] > erv[actions[j]]
  \/ erv[actions[i]] = erv[actions[j]] /\ i > j

\* Stable sort by ERV, highest first: i precedes j in the result.
Outranks(actions, erv, i, j) ==
  \/ erv[actions[i]] > erv[actions[j]]
  \/ erv[actions[i]] = erv[actions[j]] /\ i < j

Rank(actions, erv) ==
  LET ahead(j) == {i \in DOMAIN actions : Outranks(actions, erv, i, j)}
  IN [n \in DOMAIN actions |->
        actions[CHOOSE j \in DOMAIN actions : Cardinality(ahead(j)) = n - 1]]

\* A real ALLOWed intervention wins, then the highest-ranked candidate a gate
\* routed to a human, then no_action.
Select(ranked, erv, f, r) ==
  LET verdict(i) == Evaluate(ranked[i], erv[ranked[i]], f, r)
      having(v)  == {i \in DOMAIN ranked : verdict(i) = v}
      best(S)    == ranked[Min(S)]
      allowed    == best(having("ALLOW"))
  IN IF having("HUMAN_REVIEW") # {} /\ allowed = "no_action"
       THEN [action |-> best(having("HUMAN_REVIEW")), verdict |-> "HUMAN_REVIEW"]
       ELSE [action |-> allowed, verdict |-> "ALLOW"]

\* The path MustTo walks from FAILED to the decision point.
decisionPath(choice, f) ==
  IF f.kill \/ f.globalKill \/ choice.verdict = "HUMAN_REVIEW"
    THEN <<"FAILED", "DIAGNOSED", "STOPPED">>
  ELSE IF choice.action = "no_action"
    THEN <<"FAILED", "DIAGNOSED", "RECOVERY_ELIGIBLE", "ACTION_SELECTED", "STOPPED">>
    ELSE <<"FAILED", "DIAGNOSED", "RECOVERY_ELIGIBLE", "ACTION_SELECTED">>

\* One event's decision: what PersistDecision stores.
Decide(candidates, erv, f, r) ==
  LET choice == Select(Rank(ensureNoAction(candidates), erv), erv, f, r)
      path   == decisionPath(choice, f)
  IN [action |-> choice.action, verdict |-> choice.verdict,
      path |-> path, state |-> Last(path)]
=============================================================================
