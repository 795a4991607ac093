---------------------------- MODULE PolicyProofs ----------------------------
(***************************************************************************)
(* What the decision plane guarantees for every merchant row, platform     *)
(* row, situation, candidate list and table of ERVs.  Then what a          *)
(* diagnosis may lead to, whatever the failure says and whatever the       *)
(* diagnosis service answers, for any loaded context, limits and ERVs.     *)
(* Last, what the console shows of a decision.                             *)
(***************************************************************************)
EXTENDS PolicyCases, Diagnosis, LiveDecision, PolicyTheorems, Induction

-----------------------------------------------------------------------------
(* The platform row against every merchant row.                            *)

\* Resolution only tightens: every resolved limit is at least as strict as the
\* platform's, where 0 is no ceiling.
LEMMA ResolvedWithinPlatform ==
  ASSUME NEW m \in MerchantRow, NEW p \in PlatformRow
  PROVE  LET r == ResolveMerchantPolicy(m, p) IN
         /\ p.maxRetriesCeiling > 0 => r.maxRetries <= p.maxRetriesCeiling
         /\ r.cooldown >= p.minCooldown
         /\ p.maxDailyCap > 0 => r.dailyCap > 0 /\ r.dailyCap <= p.maxDailyCap
         /\ p.maxAmountCeiling > 0 => r.amountCeiling > 0 /\ r.amountCeiling <= p.maxAmountCeiling
         /\ r.confidenceFloor >= p.confidenceFloor
         /\ r.maxRetries \in Int /\ r.cooldown \in Int /\ r.dailyCap \in Int
         /\ r.amountCeiling \in Int /\ r.confidenceFloor \in Int
BY DEF MerchantRow, PlatformRow, ResolveMerchantPolicy, clampMax, atLeast, clampCap,
       resolveConfidenceFloor

\* Whatever the merchant configured, an intervention the engine ALLOWs is one
\* the platform row permits.
LEMMA AllowedWithinPlatform ==
  ASSUME NEW m \in MerchantRow, NEW p \in PlatformRow, NEW f \in EventFacts,
         NEW a \in Action \ {"no_action"}, NEW erv,
         Evaluate(a, erv, f, ResolveMerchantPolicy(m, p)) = "ALLOW"
  PROVE  WithinPlatform(a, f, p)
<1> DEFINE r == ResolveMerchantPolicy(m, p)
<1>1. \A i \in 1 .. 8 : ~Fires(Rules[i], a, erv, f, r)
  BY AllowedFiresNothing DEF Rules
<1>2. /\ ~Fires("kill_switch", a, erv, f, r) /\ ~Fires("fraud_hard_stop", a, erv, f, r)
      /\ ~Fires("confidence_floor", a, erv, f, r) /\ ~Fires("amount_ceiling", a, erv, f, r)
      /\ ~Fires("cooldown", a, erv, f, r) /\ ~Fires("max_retries", a, erv, f, r)
      /\ ~Fires("daily_action_cap", a, erv, f, r)
  BY <1>1 DEF Rules
<1>3. /\ ~f.kill /\ ~f.globalKill /\ f.cause # "fraud_suspected"
  BY <1>2 DEF Fires
<1>4. a # "notify" => /\ ~(f.confidence < r.confidenceFloor)
                      /\ ~(r.amountCeiling > 0 /\ f.amount > r.amountCeiling)
  BY <1>2 DEF Fires
<1>5. IsRetry(a) => /\ ~(EffectiveAttempts(f) >= r.maxRetries)
                    /\ ~(f.hasPriorRetry /\ f.sinceRetry < r.cooldown)
  BY <1>2 DEF Fires
<1>6. ~(r.dailyCap > 0 /\ f.actionsToday >= r.dailyCap)
  BY <1>2 DEF Fires
<1> HIDE DEF r
<1>7. /\ p.maxRetriesCeiling > 0 => r.maxRetries <= p.maxRetriesCeiling
      /\ r.cooldown >= p.minCooldown
      /\ p.maxDailyCap > 0 => r.dailyCap > 0 /\ r.dailyCap <= p.maxDailyCap
      /\ p.maxAmountCeiling > 0 => r.amountCeiling > 0 /\ r.amountCeiling <= p.maxAmountCeiling
      /\ r.confidenceFloor >= p.confidenceFloor
      /\ r.maxRetries \in Int /\ r.cooldown \in Int /\ r.dailyCap \in Int
      /\ r.amountCeiling \in Int /\ r.confidenceFloor \in Int
  BY ResolvedWithinPlatform DEF r
<1>8. /\ f.confidence \in Int /\ f.amount \in Int /\ f.sinceRetry \in Int
      /\ f.actionsToday \in Int /\ EffectiveAttempts(f) \in Int
      /\ p.maxRetriesCeiling \in Int /\ p.minCooldown \in Int /\ p.maxDailyCap \in Int
      /\ p.maxAmountCeiling \in Int /\ p.confidenceFloor \in Int
  BY DEF EventFacts, PlatformRow, EffectiveAttempts
<1>9. Below(f.actionsToday, p.maxDailyCap)
  BY <1>6, <1>7, <1>8 DEF Below
<1>10. a # "notify" => f.confidence >= p.confidenceFloor /\ Below(f.amount - 1, p.maxAmountCeiling)
  BY <1>4, <1>7, <1>8 DEF Below
<1>11. IsRetry(a) => /\ Below(EffectiveAttempts(f), p.maxRetriesCeiling)
                     /\ f.hasPriorRetry => f.sinceRetry >= p.minCooldown
  BY <1>5, <1>7, <1>8 DEF Below
<1> QED  BY <1>3, <1>9, <1>10, <1>11 DEF WithinPlatform

\* Clamping never loosens what the merchant set, where 0 is no cap.
LEMMA ResolvedWithinMerchant ==
  ASSUME NEW m \in MerchantRow, NEW p \in PlatformRow
  PROVE  LET r == ResolveMerchantPolicy(m, p) IN
         /\ r.minERV = m.minERV /\ r.maxRetries <= m.maxRetries /\ r.cooldown >= m.cooldown
         /\ m.dailyCap > 0 => r.dailyCap > 0 /\ r.dailyCap <= m.dailyCap
         /\ m.amountCeiling > 0 => r.amountCeiling > 0 /\ r.amountCeiling <= m.amountCeiling
         /\ r.confidenceFloor >= m.confidenceFloor
BY DEF MerchantRow, PlatformRow, ResolveMerchantPolicy, clampMax, atLeast, clampCap,
       resolveConfidenceFloor

\* What the merchant's own row demands of an action.
WithinMerchant(a, erv, f, m) ==
  /\ erv > m.minERV
  /\ Below(f.actionsToday, m.dailyCap)
  /\ a # "notify" => f.confidence >= m.confidenceFloor /\ Below(f.amount - 1, m.amountCeiling)
  /\ IsRetry(a) => /\ EffectiveAttempts(f) < m.maxRetries
                   /\ f.hasPriorRetry => f.sinceRetry >= m.cooldown

\* Whatever the platform row, an intervention the engine ALLOWs is one the
\* merchant's row permits.
LEMMA AllowedWithinMerchant ==
  ASSUME NEW m \in MerchantRow, NEW p \in PlatformRow, NEW f \in EventFacts,
         NEW a \in Action \ {"no_action"}, NEW erv \in Int,
         Evaluate(a, erv, f, ResolveMerchantPolicy(m, p)) = "ALLOW"
  PROVE  WithinMerchant(a, erv, f, m)
<1> DEFINE r == ResolveMerchantPolicy(m, p)
<1>1. \A i \in 1 .. 8 : ~Fires(Rules[i], a, erv, f, r)
  BY AllowedFiresNothing DEF Rules
<1>2. /\ ~Fires("confidence_floor", a, erv, f, r) /\ ~Fires("amount_ceiling", a, erv, f, r)
      /\ ~Fires("cooldown", a, erv, f, r) /\ ~Fires("max_retries", a, erv, f, r)
      /\ ~Fires("daily_action_cap", a, erv, f, r) /\ ~Fires("min_erv", a, erv, f, r)
  BY <1>1 DEF Rules
<1>3. erv > r.minERV /\ ~(r.dailyCap > 0 /\ f.actionsToday >= r.dailyCap)
  BY <1>2 DEF Fires
<1>4. a # "notify" => /\ ~(f.confidence < r.confidenceFloor)
                      /\ ~(r.amountCeiling > 0 /\ f.amount > r.amountCeiling)
  BY <1>2 DEF Fires
<1>5. IsRetry(a) => /\ ~(EffectiveAttempts(f) >= r.maxRetries)
                    /\ ~(f.hasPriorRetry /\ f.sinceRetry < r.cooldown)
  BY <1>2 DEF Fires
<1> HIDE DEF r
<1>6. /\ r.minERV = m.minERV /\ r.maxRetries <= m.maxRetries /\ r.cooldown >= m.cooldown
      /\ m.dailyCap > 0 => r.dailyCap > 0 /\ r.dailyCap <= m.dailyCap
      /\ m.amountCeiling > 0 => r.amountCeiling > 0 /\ r.amountCeiling <= m.amountCeiling
      /\ r.confidenceFloor >= m.confidenceFloor
      /\ r.maxRetries \in Int /\ r.cooldown \in Int /\ r.dailyCap \in Int
      /\ r.amountCeiling \in Int /\ r.confidenceFloor \in Int
  BY ResolvedWithinMerchant, ResolvedWithinPlatform DEF r
<1>7. /\ f.confidence \in Int /\ f.amount \in Int /\ f.sinceRetry \in Int
      /\ f.actionsToday \in Int /\ EffectiveAttempts(f) \in Int
      /\ m.maxRetries \in Int /\ m.cooldown \in Int /\ m.dailyCap \in Int
      /\ m.amountCeiling \in Int /\ m.confidenceFloor \in Int /\ m.minERV \in Int
  BY DEF EventFacts, MerchantRow, EffectiveAttempts
<1>8. erv > m.minERV /\ Below(f.actionsToday, m.dailyCap)
  BY <1>3, <1>6, <1>7 DEF Below
<1>9. a # "notify" => f.confidence >= m.confidenceFloor /\ Below(f.amount - 1, m.amountCeiling)
  BY <1>4, <1>6, <1>7 DEF Below
<1>10. IsRetry(a) => /\ EffectiveAttempts(f) < m.maxRetries
                     /\ f.hasPriorRetry => f.sinceRetry >= m.cooldown
  BY <1>5, <1>6, <1>7
<1> QED  BY <1>8, <1>9, <1>10 DEF WithinMerchant

-----------------------------------------------------------------------------
\* The decision of an input is undecided or the one Decide computes.
DecidedRight ==
  /\ input \in [m : Merchants, p : Platforms, f : Situations,
                candidates : CandidateLists, erv : ErvTables]
  /\ decision = Undecided \/ decision = Decide(input.candidates, input.erv, input.f, resolved(input))

\* A decision, once stored, is Decide of the stored input, and the input is typed.
LEMMA DecidedRightInvariant == Spec => []DecidedRight
<1>1. Init => DecidedRight
  BY DEF Init, DecidedRight
<1>2. DecidedRight /\ [Process]_vars => DecidedRight'
  BY DEF DecidedRight, Process, vars, resolved
<1> QED  BY <1>1, <1>2, PTL DEF Spec

\* A merchant can only tighten safety (policy/merchant_override.go): whatever
\* its row, its candidates and their ERVs, nothing is dispatched that the
\* platform row forbids.
THEOREM PlatformAlwaysHolds == Spec => []PlatformHolds
<1>1. DecidedRight => PlatformHolds
  <2> SUFFICES ASSUME DecidedRight, Dispatches
               PROVE  WithinPlatform(decision.action, input.f, input.p)
    BY DEF PlatformHolds
  <2> DEFINE r == resolved(input)
  <2>1. /\ input.m \in MerchantRow /\ input.p \in PlatformRow /\ input.f \in EventFacts
        /\ input.candidates \in Seq(Action) /\ input.erv \in [Action -> Int]
    BY InputAssumption DEF DecidedRight
  <2>2. decision = Decide(input.candidates, input.erv, input.f, r)
    BY DEF DecidedRight, Dispatches, Undecided
  <2>3. /\ decision.action \in Action \ {"no_action"}
        /\ Evaluate(decision.action, input.erv[decision.action], input.f, r) = "ALLOW"
    BY <2>1, <2>2, DecideSound DEF Dispatches
  <2> QED  BY <2>1, <2>3, AllowedWithinPlatform DEF resolved
<1> QED  BY <1>1, DecidedRightInvariant, PTL

\* A merchant's own limits bind as well (MerchantOverride resolution): no platform
\* row makes the engine dispatch what the merchant forbade.
THEOREM MerchantAlwaysHolds == Spec => []MerchantHolds
<1>1. DecidedRight => MerchantHolds
  <2> SUFFICES ASSUME DecidedRight, Dispatches
               PROVE  WithinMerchant(decision.action, input.erv[decision.action], input.f, input.m)
    BY DEF MerchantHolds, WithinMerchant
  <2> DEFINE r == resolved(input)
  <2>1. /\ input.m \in MerchantRow /\ input.p \in PlatformRow /\ input.f \in EventFacts
        /\ input.candidates \in Seq(Action) /\ input.erv \in [Action -> Int]
    BY InputAssumption DEF DecidedRight
  <2>2. decision = Decide(input.candidates, input.erv, input.f, r)
    BY DEF DecidedRight, Dispatches, Undecided
  <2>3. /\ decision.action \in Action \ {"no_action"}
        /\ Evaluate(decision.action, input.erv[decision.action], input.f, r) = "ALLOW"
    BY <2>1, <2>2, DecideSound DEF Dispatches
  <2> QED  BY <2>1, <2>3, AllowedWithinMerchant DEF resolved
<1> QED  BY <1>1, DecidedRightInvariant, PTL

\* The decision of a decided input is Decide's, and its parts are typed.
LEMMA DecidedFacts ==
  ASSUME DecidedRight, decision # Undecided
  PROVE  /\ decision = Decide(input.candidates, input.erv, input.f, resolved(input))
         /\ input.m \in Merchants /\ input.m \in MerchantRow /\ input.p \in PlatformRow
         /\ input.f \in EventFacts /\ input.candidates \in Seq(Action)
         /\ input.erv \in ErvTables /\ input.erv \in [Action -> Int]
         /\ resolved(input).confidenceFloor \in Int /\ resolved(input).minERV = input.m.minERV
<1>1. /\ input.m \in Merchants /\ input.m \in MerchantRow /\ input.p \in PlatformRow
      /\ input.f \in EventFacts /\ input.candidates \in Seq(Action)
      /\ input.erv \in ErvTables /\ input.erv \in [Action -> Int]
  BY InputAssumption DEF DecidedRight
<1>2. resolved(input).confidenceFloor \in Int /\ resolved(input).minERV = input.m.minERV
  BY <1>1, ResolvedWithinPlatform, ResolvedWithinMerchant DEF resolved
<1> QED  BY <1>1, <1>2 DEF DecidedRight

\* A hard stop reaches a human whenever escalation is on offer and no switch
\* or confidence floor outranks it, and nothing else does (humanReview in
\* policy/engine and the selection in pipeline.Process).
THEOREM HumansAlwaysSeeHardStops == Spec => []HumansSeeHardStops
<1>1. ASSUME DecidedRight, decision # Undecided
      PROVE  LET f == input.f  r == resolved(input)
                 over == r.amountCeiling > 0 /\ f.amount > r.amountCeiling
             IN decision.verdict = "HUMAN_REVIEW" <=>
                  /\ "escalate" \in ToSet(input.candidates)
                  /\ ~f.kill /\ ~f.globalKill
                  /\ \/ f.cause = "fraud_suspected"
                     \/ over /\ f.confidence >= r.confidenceFloor /\ ~Dispatches
  <2> DEFINE f == input.f
             r == resolved(input)
             c == input.candidates
             over == r.amountCeiling > 0 /\ f.amount > r.amountCeiling
             actions == ensureNoAction(c)
             I == 1 .. Len(actions)
             v(a) == Evaluate(a, input.erv[a], f, r)
             asked == \E j \in I : v(actions[j]) = "HUMAN_REVIEW"
             hard == /\ ~f.kill /\ ~f.globalKill
                     /\ f.cause = "fraud_suspected" \/ (~(f.confidence < r.confidenceFloor) /\ over)
  <2>1. /\ decision = Decide(c, input.erv, f, r) /\ c \in Seq(Action) /\ f \in EventFacts
        /\ input.erv \in [Action -> Int] /\ r.confidenceFloor \in Int
    BY <1>1, DecidedFacts
  <2>2. \A a : v(a) = "HUMAN_REVIEW" <=> a = "escalate" /\ hard
    BY ReviewedWhen
  <2>3. PICK i \in I :
          /\ v(actions[i]) = "ALLOW"
          /\ asked /\ actions[i] = "no_action" => decision.verdict = "HUMAN_REVIEW"
          /\ ~(asked /\ actions[i] = "no_action") =>
               decision.verdict = "ALLOW" /\ decision.action = actions[i]
    <3>1. PICK i \in I : DecidesBy(i, decision, actions, input.erv, f, r)
      BY <2>1, DecideFirst
    <3> QED  BY <3>1 DEF DecidesBy
  <2>4. /\ decision.state = "ACTION_SELECTED" => decision.verdict = "ALLOW"
        /\ decision.state \in {"ACTION_SELECTED", "STOPPED"}
        /\ decision.state = "STOPPED" =>
             decision.verdict = "HUMAN_REVIEW" \/ decision.action = "no_action"
    BY <2>1, DecideSound
  <2>5. /\ \A j \in 1 .. Len(c) : j \in I /\ actions[j] = c[j]
        /\ \A j \in I : actions[j] # "no_action" => j \in 1 .. Len(c)
    BY <2>1, EnsureKeeps
  <2>6. "escalate" \in ToSet(c) <=> \E j \in 1 .. Len(c) : c[j] = "escalate"
    BY <2>1, ToSetOfSeq
  <2> HIDE DEF actions, v
  <2>7. asked <=> "escalate" \in ToSet(c) /\ hard
    BY <2>2, <2>5, <2>6
  <2>8. f.cause = "fraud_suspected" => actions[i] = "no_action"
    <3>1. ASSUME f.cause = "fraud_suspected", actions[i] # "no_action"  PROVE FALSE
      <4>1. \A k \in 1 .. Len(Rules) : ~Fires(Rules[k], actions[i], input.erv[actions[i]], f, r)
        BY <2>3, AllowedFiresNothing DEF v
      <4>2. ~Fires("fraud_hard_stop", actions[i], input.erv[actions[i]], f, r)
        BY <4>1 DEF Rules
      <4> QED  BY <3>1, <4>2 DEF Fires
    <3> QED  BY <3>1
  <2>9. ~(f.confidence < r.confidenceFloor) <=> f.confidence >= r.confidenceFloor
    BY <2>1 DEF EventFacts
  <2>10. decision.verdict = "HUMAN_REVIEW" <=> asked /\ actions[i] = "no_action"
    BY <2>3
  <2>11. ~asked \/ actions[i] = "no_action" \/ Dispatches
    BY <2>3, <2>4 DEF Dispatches
  <2>12. asked /\ actions[i] = "no_action" => ~Dispatches
    BY <2>4, <2>10 DEF Dispatches
  <2> HIDE DEF f, r, c, asked, over
  <2>13. decision.verdict = "HUMAN_REVIEW" <=>
           /\ "escalate" \in ToSet(c) /\ ~f.kill /\ ~f.globalKill
           /\ f.cause = "fraud_suspected" \/ (over /\ f.confidence >= r.confidenceFloor /\ ~Dispatches)
    BY <2>7, <2>8, <2>9, <2>10, <2>11, <2>12
  <2> QED  BY <2>13 DEF f, r, c, over
<1>2. DecidedRight => HumansSeeHardStops
  BY <1>1 DEF HumansSeeHardStops
<1> QED  BY <1>2, DecidedRightInvariant, PTL

\* The precedence of the selection (ranking, policy loop and fallback of
\* pipeline.Process): the best ALLOWed intervention is dispatched, the earlier among
\* equals, else the human, else nothing.  Assumed: no_action gains and costs nothing
\* (successmodel/heuristic.go:33 and the seeded action costs), and no merchant's
\* threshold is negative (router.go:143); with one, an ALLOWed intervention can rank
\* below doing nothing.
THEOREM BestAlwaysWins ==
  ASSUME \A erv \in ErvTables : erv["no_action"] = 0,
         \A m \in Merchants : m.minERV >= 0
  PROVE  Spec => []BestAllowedWins
<1>1. ASSUME DecidedRight, decision # Undecided
      PROVE  LET c == input.candidates
                 verdict(a) == Evaluate(a, input.erv[a], input.f, resolved(input))
                 real  == {i \in DOMAIN c : c[i] # "no_action" /\ verdict(c[i]) = "ALLOW"}
                 human == {i \in DOMAIN c : verdict(c[i]) = "HUMAN_REVIEW"}
             IN IF real # {}
                  THEN \E i \in real : /\ decision.action = c[i] /\ Dispatches
                                       /\ \A j \in real : \/ input.erv[c[i]] > input.erv[c[j]]
                                                          \/ input.erv[c[i]] = input.erv[c[j]] /\ i <= j
                  ELSE /\ decision.state = "STOPPED"
                       /\ decision.action = IF human # {} THEN "escalate" ELSE "no_action"
  <2> DEFINE f == input.f
             r == resolved(input)
             c == input.candidates
             erv == input.erv
             actions == ensureNoAction(c)
             I == 1 .. Len(actions)
             v(a) == Evaluate(a, erv[a], f, r)
             asked == \E j \in I : v(actions[j]) = "HUMAN_REVIEW"
             real  == {i \in DOMAIN c : c[i] # "no_action" /\ v(c[i]) = "ALLOW"}
             human == {i \in DOMAIN c : v(c[i]) = "HUMAN_REVIEW"}
  <2>1. /\ decision = Decide(c, erv, f, r) /\ c \in Seq(Action) /\ erv \in [Action -> Int]
        /\ erv["no_action"] = 0 /\ r.minERV >= 0 /\ r.minERV \in Int
    BY <1>1, DecidedFacts DEF MerchantRow
  <2>2. \A a : v(a) = "HUMAN_REVIEW" => a = "escalate"
    BY ReviewedWhen
  <2>3. PICK i \in I :
          /\ v(actions[i]) = "ALLOW"
          /\ \A j \in I : v(actions[j]) = "ALLOW" => ~Outranks(actions, erv, j, i)
          /\ asked /\ actions[i] = "no_action" =>
               decision.verdict = "HUMAN_REVIEW" /\ v(decision.action) = "HUMAN_REVIEW"
          /\ ~(asked /\ actions[i] = "no_action") =>
               decision.verdict = "ALLOW" /\ decision.action = actions[i]
    <3>1. PICK i \in I : DecidesBy(i, decision, actions, erv, f, r)
      BY <2>1, DecideFirst
    <3> QED  BY <3>1 DEF DecidesBy
  <2>4. /\ decision.state = "ACTION_SELECTED" =>
             decision.verdict = "ALLOW" /\ decision.action # "no_action"
        /\ decision.state \in {"ACTION_SELECTED", "STOPPED"}
        /\ decision.state = "STOPPED" =>
             decision.verdict = "HUMAN_REVIEW" \/ decision.action = "no_action"
    BY <2>1, DecideSound
  <2>5. /\ \A j \in 1 .. Len(c) : j \in I /\ actions[j] = c[j]
        /\ \A j \in I : actions[j] # "no_action" => j \in 1 .. Len(c)
        /\ Len(c) \in Nat /\ DOMAIN c = 1 .. Len(c) /\ \A j \in 1 .. Len(c) : c[j] \in Action
    BY <2>1, EnsureKeeps, LenProperties
  <2>6. \A a : v(a) = "ALLOW" /\ a # "no_action" => erv[a] > r.minERV
    <3>1. ASSUME NEW a, v(a) = "ALLOW", a # "no_action"
          PROVE  erv[a] > r.minERV
      <4>1. \A k \in 1 .. Len(Rules) : ~Fires(Rules[k], a, erv[a], f, r)
        BY <3>1, AllowedFiresNothing
      <4>2. ~Fires("min_erv", a, erv[a], f, r)
        BY <4>1 DEF Rules
      <4> QED  BY <3>1, <4>2 DEF Fires
    <3> HIDE DEF v
    <3> QED  BY <3>1
  <2> HIDE DEF actions, v, f, r, erv, c
  <2>7. ASSUME NEW j \in real
        PROVE  actions[i] # "no_action"
    <3>1. j \in I /\ actions[j] = c[j] /\ v(actions[j]) = "ALLOW" /\ erv[c[j]] \in Int
      BY <2>1, <2>5
    <3>2. erv[actions[j]] > erv["no_action"]
      BY <2>1, <2>5, <2>6, <3>1
    <3> QED  BY <2>3, <3>1, <3>2 DEF Outranks
  <2>8. ASSUME actions[i] # "no_action"
        PROVE  /\ i \in real /\ decision.action = c[i] /\ Dispatches
               /\ \A j \in real : erv[c[i]] > erv[c[j]] \/ (erv[c[i]] = erv[c[j]] /\ i <= j)
    <3>1. i \in DOMAIN c /\ actions[i] = c[i] /\ i \in real
      BY <2>3, <2>5, <2>8
    <3>2. decision.action = c[i] /\ Dispatches
      BY <2>3, <2>4, <2>8, <3>1 DEF Dispatches
    <3>3. ASSUME NEW j \in real
          PROVE  erv[c[i]] > erv[c[j]] \/ (erv[c[i]] = erv[c[j]] /\ i <= j)
      <4>1. ~Outranks(actions, erv, j, i) /\ actions[j] = c[j] /\ actions[i] = c[i]
        BY <2>3, <2>5, <3>1
      <4>2. erv[c[i]] \in Int /\ erv[c[j]] \in Int /\ i \in Int /\ j \in Int
        BY <2>1, <2>5, <3>1
      <4> QED  BY <4>1, <4>2 DEF Outranks
    <3> QED  BY <3>1, <3>2, <3>3
  <2>9. asked <=> human # {}
    BY <2>2, <2>5
  <2>10. ASSUME actions[i] = "no_action"
         PROVE  /\ decision.state = "STOPPED"
                /\ decision.action = IF human # {} THEN "escalate" ELSE "no_action"
    BY <2>2, <2>3, <2>4, <2>9, <2>10
  <2> HIDE DEF real, human, asked
  <2>11. IF real # {}
           THEN \E k \in real : /\ decision.action = c[k] /\ Dispatches
                                /\ \A j \in real : erv[c[k]] > erv[c[j]] \/ (erv[c[k]] = erv[c[j]] /\ k <= j)
           ELSE /\ decision.state = "STOPPED"
                /\ decision.action = IF human # {} THEN "escalate" ELSE "no_action"
    BY <2>7, <2>8, <2>10
  <2> QED  BY <2>11 DEF real, human, v, f, r, erv, c
<1>2. DecidedRight => BestAllowedWins
  BY <1>1 DEF BestAllowedWins
<1> QED  BY <1>2, DecidedRightInvariant, PTL

-----------------------------------------------------------------------------
(* Diagnosis.                                                              *)

\* Adding an element that is not there keeps a list free of repetitions.
LEMMA AppendNew ==
  ASSUME NEW S, NEW l \in Seq(S), NEW a \in S
  PROVE  /\ Append(l, a) \in Seq(S) /\ ToSet(Append(l, a)) = ToSet(l) \cup {a}
         /\ IsInjective(l) /\ a \notin ToSet(l) => IsInjective(Append(l, a))
<1>1. /\ Append(l, a) \in Seq(S) /\ DOMAIN Append(l, a) = DOMAIN l \cup {Len(l) + 1}
      /\ \A i \in DOMAIN l : Append(l, a)[i] = l[i]
      /\ Append(l, a)[Len(l) + 1] = a /\ Len(l) + 1 \notin DOMAIN l
  OBVIOUS
<1>2. ToSet(Append(l, a)) = ToSet(l) \cup {a}
  BY <1>1 DEF ToSet
<1>3. ASSUME IsInjective(l), a \notin ToSet(l) PROVE IsInjective(Append(l, a))
  <2>1. \A i \in DOMAIN l : l[i] # a
    BY <1>3 DEF ToSet
  <2>2. \A i, j \in DOMAIN l : l[i] = l[j] => i = j
    BY <1>3, Zenon DEF IsInjective
  <2> SUFFICES ASSUME NEW i \in DOMAIN Append(l, a), NEW j \in DOMAIN Append(l, a),
                      Append(l, a)[i] = Append(l, a)[j]
               PROVE  i = j
    BY Zenon DEF IsInjective
  <2> QED  BY <1>1, <2>1, <2>2
<1> QED  BY <1>1, <1>2, <1>3

\* What the client makes of a list: the same actions, each of them once.
LEMMA DistinctActions ==
  ASSUME NEW S, NEW list \in Seq(S)
  PROVE  /\ distinct(list) \in Seq(S) /\ IsInjective(distinct(list))
         /\ ToSet(distinct(list)) = ToSet(list)
<1> DEFINE N == Len(list)
           more(n, l) == IF Contains(l, list[n]) THEN l ELSE Append(l, list[n])
           add == [p \in (1..N) \X Seq(S) |-> more(p[1], p[2])]
           first(n) == {list[i] : i \in 1..n}
<1>1. N \in Nat /\ DOMAIN list = 1..N /\ (\A n \in 1..N : list[n] \in S) /\ <<>> \in Seq(S)
  OBVIOUS
<1>2. add \in [(1..N) \X Seq(S) -> Seq(S)]
  <2>1. \A n \in 1..N, l \in Seq(S) : more(n, l) \in Seq(S)
    BY <1>1, AppendNew
  <2> HIDE DEF more, N
  <2> QED  BY <2>1
<1> HIDE DEF add
<1>3. PICK f : Solves(f, N, Seq(S), <<>>, add)
  <2> HIDE DEF N
  <2> QED  BY <1>1, <1>2, Recursion
<1>4. f = [n \in 0..N |-> IF n = 0 THEN <<>> ELSE more(n, f[n - 1])]
  <2>1. ASSUME NEW n \in 1..N PROVE f[n] = more(n, f[n - 1])
    <3>1. n - 1 \in 0..N
      BY <1>1
    <3>2. f[n - 1] \in Seq(S)
      <4> HIDE DEF N
      <4> QED  BY <1>3, <3>1 DEF Solves
    <3>3. add[<<n, f[n - 1]>>] = more(n, f[n - 1])
      BY <3>2 DEF add
    <3> QED  BY <1>3, <3>3 DEF Solves
  <2> HIDE DEF more
  <2> QED  BY <1>3, <2>1 DEF Solves
<1> DEFINE actions[n \in 0..N] == IF n = 0 THEN <<>>
                                 ELSE IF Contains(actions[n - 1], list[n]) THEN actions[n - 1]
                                 ELSE Append(actions[n - 1], list[n])
<1>5. actions = [n \in 0..N |-> IF n = 0 THEN <<>> ELSE more(n, actions[n - 1])]
  BY <1>4
<1>6. distinct(list) = actions[N]
  BY DEF distinct
<1> HIDE DEF actions
<1> DEFINE T == {n \in 0..N : actions[n] \in Seq(S) /\ IsInjective(actions[n]) /\ ToSet(actions[n]) = first(n)}
<1>7. 0 \in T
  <2>1. actions[0] = <<>> /\ 0 \in 0..N
    BY <1>1, <1>5
  <2>2. ToSet(<<>>) = {} /\ first(0) = {} /\ IsInjective(<<>>)
    BY DEF ToSet, IsInjective
  <2> QED  BY <1>1, <2>1, <2>2
<1>8. ASSUME NEW n \in 0..N - 1, n \in T PROVE n + 1 \in T
  <2>1. n + 1 \in 1..N /\ n + 1 \in 0..N /\ actions[n + 1] = more(n + 1, actions[n])
    <3>1. n + 1 \in 1..N /\ n + 1 \in 0..N /\ n + 1 # 0 /\ (n + 1) - 1 = n
      BY <1>1
    <3> HIDE DEF more, N
    <3> QED  BY <1>5, <3>1
  <2>2. first(n + 1) = first(n) \cup {list[n + 1]}
    BY <1>1
  <2>3. actions[n] \in Seq(S) /\ IsInjective(actions[n]) /\ ToSet(actions[n]) = first(n) /\ list[n + 1] \in S
    BY <1>1, <1>8, <2>1
  <2>4. Contains(actions[n], list[n + 1]) <=> list[n + 1] \in ToSet(actions[n])
    BY DEF Contains, ToSet
  <2>5. actions[n + 1] \in Seq(S) /\ IsInjective(actions[n + 1]) /\ ToSet(actions[n + 1]) = first(n + 1)
    <3> HIDE DEF first
    <3>1. CASE list[n + 1] \in ToSet(actions[n])
      <4>1. actions[n + 1] = actions[n]
        BY <2>1, <2>4, <3>1
      <4>2. first(n + 1) = first(n)
        BY <2>2, <2>3, <3>1
      <4> QED  BY <2>3, <4>1, <4>2
    <3>2. CASE list[n + 1] \notin ToSet(actions[n])
      <4>1. actions[n + 1] = Append(actions[n], list[n + 1])
        BY <2>1, <2>4, <3>2
      <4>2. PICK l \in Seq(S), a \in S : l = actions[n] /\ a = list[n + 1]
        BY <2>3
      <4>3. /\ Append(l, a) \in Seq(S) /\ ToSet(Append(l, a)) = ToSet(l) \cup {a}
            /\ IsInjective(Append(l, a))
        BY <2>3, <3>2, <4>2, AppendNew
      <4>4. actions[n + 1] = Append(l, a) /\ first(n + 1) = ToSet(l) \cup {a}
        BY <2>2, <2>3, <4>1, <4>2
      <4> QED  BY <4>3, <4>4
    <3> QED  BY <3>1, <3>2
  <2> QED  BY <2>1, <2>5
<1>9. N \in T
  <2> HIDE DEF T, N
  <2>1. 0..N \subseteq T
    BY <1>1, <1>7, <1>8, Induct
  <2> QED  BY <1>1, <2>1
<1>10. first(N) = ToSet(list)
  BY <1>1 DEF ToSet
<1> QED  BY <1>6, <1>9, <1>10

-----------------------------------------------------------------------------
(* The rule table.                                                         *)

\* What it says of a failure that no rule before the i-th matches it.
Passed(in, i) ==
  /\ i > 1 => "fraud" \notin in.reason
  /\ i > 2 => ~in.abandoned
  /\ i > 3 => "insufficient" \notin in.reason
  /\ i > 4 => "expired" \notin in.reason
  /\ i > 5 => ~(in.priorAttempts >= 3)
  /\ i > 6 => "declined" \notin in.reason

LEMMA Conditions ==
  ASSUME NEW in
  PROVE  /\ DOMAIN table(in) = 1..7
         /\ table(in)[1].when = ("fraud" \in in.reason)
         /\ table(in)[2].when = in.abandoned
         /\ table(in)[3].when = ("insufficient" \in in.reason)
         /\ table(in)[4].when = ("expired" \in in.reason)
         /\ table(in)[5].when = (in.priorAttempts >= 3)
         /\ table(in)[6].when = ("declined" \in in.reason)
         /\ table(in)[7].when = TRUE
<1>1. DOMAIN table(in) = 1..7
  BY DEF table
<1> QED  BY <1>1 DEF table, chronicAttemptFloor

LEMMA RuleMatched ==
  ASSUME NEW in, in.abandoned \in BOOLEAN
  PROVE  \E i \in 1..7 : Passed(in, i) /\ table(in)[i].when /\ Diagnose(in) = table(in)[i].gives
<1> DEFINE t == table(in)
           matching == {i \in DOMAIN t : t[i].when}
           first == Min(matching)
<1>1. Diagnose(in) = t[first].gives
  BY DEF Diagnose
<1>2. first \in matching /\ \A j \in matching : first <= j
  <2>1. DOMAIN t = 1..7 /\ t[7].when
    BY Conditions
  <2> HIDE DEF t
  <2>2. matching \subseteq Nat /\ 7 \in matching
    BY <2>1
  <2> QED  BY <2>2, MinOfNat
<1> HIDE DEF first, t
<1>3. first \in 1..7 /\ t[first].when /\ \A j \in 1..7 : j < first => ~t[j].when
  <2>1. DOMAIN t = 1..7
    BY Conditions DEF t
  <2>2. first \in 1..7 /\ t[first].when
    BY <1>2, <2>1
  <2>3. ASSUME NEW j \in 1..7, j < first, t[j].when PROVE FALSE
    BY <1>2, <2>1, <2>2, <2>3
  <2> QED  BY <2>2, <2>3
<1>4. Passed(in, first)
  <2>1. ASSUME NEW j \in 1..6, first > j PROVE ~t[j].when
    BY <1>3, <2>1
  <2>2. /\ t[1].when = ("fraud" \in in.reason) /\ t[2].when = in.abandoned
        /\ t[3].when = ("insufficient" \in in.reason) /\ t[4].when = ("expired" \in in.reason)
        /\ t[5].when = (in.priorAttempts >= 3) /\ t[6].when = ("declined" \in in.reason)
    BY Conditions DEF t
  <2>3. /\ first > 1 => ~t[1].when
        /\ first > 2 => ~t[2].when
        /\ first > 3 => ~t[3].when
        /\ first > 4 => ~t[4].when
        /\ first > 5 => ~t[5].when
        /\ first > 6 => ~t[6].when
    BY <2>1
  <2> QED  BY <2>2, <2>3 DEF Passed
<1> QED  BY <1>1, <1>3, <1>4 DEF t

\* Lists of up to four different actions.
LEMMA Two ==
  ASSUME NEW a \in Action, NEW b \in Action, a # b, NEW l, l = <<a, b>>
  PROVE  l \in Seq(Action) /\ l # <<>> /\ IsInjective(l) /\ ToSet(l) = {a, b}
BY DEF IsInjective, ToSet

LEMMA Three ==
  ASSUME NEW a \in Action, NEW b \in Action, NEW c \in Action, a # b, a # c, b # c,
         NEW l, l = <<a, b, c>>
  PROVE  l \in Seq(Action) /\ l # <<>> /\ IsInjective(l) /\ ToSet(l) = {a, b, c}
BY DEF IsInjective, ToSet

LEMMA Four ==
  ASSUME NEW a \in Action, NEW b \in Action, NEW c \in Action, NEW d \in Action,
         a # b, a # c, a # d, b # c, b # d, c # d, NEW l, l = <<a, b, c, d>>
  PROVE  l \in Seq(Action) /\ l # <<>> /\ IsInjective(l) /\ ToSet(l) = {a, b, c, d}
BY DEF IsInjective, ToSet

\* A diagnosis of the contract.
InContract(d) ==
  /\ d.cause \in RootCause /\ d.confidence \in 0..1000
  /\ d.candidates \in Seq(Action) /\ d.candidates # <<>> /\ IsInjective(d.candidates)
  /\ ToSet(d.candidates) \subseteq Action

\* What the i-th rule gives.
Gives(in, i, cause, actions) ==
  LET d == table(in)[i].gives
  IN /\ d.cause = cause /\ d.source = "rule_based_fallback" /\ InContract(d)
     /\ ToSet(d.candidates) = actions

LEMMA TableGives ==
  ASSUME NEW in
  PROVE
    /\ Gives(in, 1, "fraud_suspected", {"escalate", "no_action"})
    /\ Gives(in, 2, "checkout_abandonment", {"payment_link", "notify", "no_action"})
    /\ Gives(in, 3, "insufficient_funds", {"delayed_retry", "notify", "no_action"})
    /\ Gives(in, 4, "expired_method", {"alt_method", "payment_link", "notify", "no_action"})
    /\ Gives(in, 5, "chronic_failure", {"notify", "escalate", "no_action"})
    /\ Gives(in, 6, "temporary_bank_decline", {"delayed_retry", "retry", "notify", "no_action"})
    /\ Gives(in, 7, "unknown", {"notify", "no_action"})
<1>1. Gives(in, 1, "fraud_suspected", {"escalate", "no_action"})
  <2>1. PICK l : l = <<"escalate", "no_action">>
    OBVIOUS
  <2>2. PICK d : d = table(in)[1].gives
    OBVIOUS
  <2>3. d = [cause |-> "fraud_suspected", confidence |-> 700, candidates |-> l, source |-> "rule_based_fallback"]
    BY <2>1, <2>2 DEF table, diag
  <2>4. /\ d.cause = "fraud_suspected" /\ d.confidence = 700 /\ d.candidates = l
        /\ d.source = "rule_based_fallback"
    BY <2>3
  <2>5. "fraud_suspected" \in RootCause /\ 700 \in 0..1000 /\ {"escalate", "no_action"} \subseteq Action
    BY DEF RootCause, Action
  <2>6. l \in Seq(Action) /\ l # <<>> /\ IsInjective(l) /\ ToSet(l) = {"escalate", "no_action"}
    BY <2>1, <2>5, Two
  <2> QED  BY <2>2, <2>4, <2>5, <2>6 DEF Gives, InContract
<1>2. Gives(in, 2, "checkout_abandonment", {"payment_link", "notify", "no_action"})
  <2>1. PICK l : l = <<"payment_link", "notify", "no_action">>
    OBVIOUS
  <2>2. PICK d : d = table(in)[2].gives
    OBVIOUS
  <2>3. d = [cause |-> "checkout_abandonment", confidence |-> 800, candidates |-> l, source |-> "rule_based_fallback"]
    BY <2>1, <2>2 DEF table, diag
  <2>4. /\ d.cause = "checkout_abandonment" /\ d.confidence = 800 /\ d.candidates = l
        /\ d.source = "rule_based_fallback"
    BY <2>3
  <2>5. "checkout_abandonment" \in RootCause /\ 800 \in 0..1000 /\ {"payment_link", "notify", "no_action"} \subseteq Action
    BY DEF RootCause, Action
  <2>6. l \in Seq(Action) /\ l # <<>> /\ IsInjective(l) /\ ToSet(l) = {"payment_link", "notify", "no_action"}
    BY <2>1, <2>5, Three
  <2> QED  BY <2>2, <2>4, <2>5, <2>6 DEF Gives, InContract
<1>3. Gives(in, 3, "insufficient_funds", {"delayed_retry", "notify", "no_action"})
  <2>1. PICK l : l = <<"delayed_retry", "notify", "no_action">>
    OBVIOUS
  <2>2. PICK d : d = table(in)[3].gives
    OBVIOUS
  <2>3. d = [cause |-> "insufficient_funds", confidence |-> 750, candidates |-> l, source |-> "rule_based_fallback"]
    BY <2>1, <2>2 DEF table, diag
  <2>4. /\ d.cause = "insufficient_funds" /\ d.confidence = 750 /\ d.candidates = l
        /\ d.source = "rule_based_fallback"
    BY <2>3
  <2>5. "insufficient_funds" \in RootCause /\ 750 \in 0..1000 /\ {"delayed_retry", "notify", "no_action"} \subseteq Action
    BY DEF RootCause, Action
  <2>6. l \in Seq(Action) /\ l # <<>> /\ IsInjective(l) /\ ToSet(l) = {"delayed_retry", "notify", "no_action"}
    BY <2>1, <2>5, Three
  <2> QED  BY <2>2, <2>4, <2>5, <2>6 DEF Gives, InContract
<1>4. Gives(in, 4, "expired_method", {"alt_method", "payment_link", "notify", "no_action"})
  <2>1. PICK l : l = <<"alt_method", "payment_link", "notify", "no_action">>
    OBVIOUS
  <2>2. PICK d : d = table(in)[4].gives
    OBVIOUS
  <2>3. d = [cause |-> "expired_method", confidence |-> 800, candidates |-> l, source |-> "rule_based_fallback"]
    BY <2>1, <2>2 DEF table, diag
  <2>4. /\ d.cause = "expired_method" /\ d.confidence = 800 /\ d.candidates = l
        /\ d.source = "rule_based_fallback"
    BY <2>3
  <2>5. "expired_method" \in RootCause /\ 800 \in 0..1000 /\ {"alt_method", "payment_link", "notify", "no_action"} \subseteq Action
    BY DEF RootCause, Action
  <2>6. l \in Seq(Action) /\ l # <<>> /\ IsInjective(l) /\ ToSet(l) = {"alt_method", "payment_link", "notify", "no_action"}
    BY <2>1, <2>5, Four
  <2> QED  BY <2>2, <2>4, <2>5, <2>6 DEF Gives, InContract
<1>5. Gives(in, 5, "chronic_failure", {"notify", "escalate", "no_action"})
  <2>1. PICK l : l = <<"notify", "escalate", "no_action">>
    OBVIOUS
  <2>2. PICK d : d = table(in)[5].gives
    OBVIOUS
  <2>3. d = [cause |-> "chronic_failure", confidence |-> 650, candidates |-> l, source |-> "rule_based_fallback"]
    BY <2>1, <2>2 DEF table, diag
  <2>4. /\ d.cause = "chronic_failure" /\ d.confidence = 650 /\ d.candidates = l
        /\ d.source = "rule_based_fallback"
    BY <2>3
  <2>5. "chronic_failure" \in RootCause /\ 650 \in 0..1000 /\ {"notify", "escalate", "no_action"} \subseteq Action
    BY DEF RootCause, Action
  <2>6. l \in Seq(Action) /\ l # <<>> /\ IsInjective(l) /\ ToSet(l) = {"notify", "escalate", "no_action"}
    BY <2>1, <2>5, Three
  <2> QED  BY <2>2, <2>4, <2>5, <2>6 DEF Gives, InContract
<1>6. Gives(in, 6, "temporary_bank_decline", {"delayed_retry", "retry", "notify", "no_action"})
  <2>1. PICK l : l = <<"delayed_retry", "retry", "notify", "no_action">>
    OBVIOUS
  <2>2. PICK d : d = table(in)[6].gives
    OBVIOUS
  <2>3. d = [cause |-> "temporary_bank_decline", confidence |-> 600, candidates |-> l, source |-> "rule_based_fallback"]
    BY <2>1, <2>2 DEF table, diag
  <2>4. /\ d.cause = "temporary_bank_decline" /\ d.confidence = 600 /\ d.candidates = l
        /\ d.source = "rule_based_fallback"
    BY <2>3
  <2>5. "temporary_bank_decline" \in RootCause /\ 600 \in 0..1000 /\ {"delayed_retry", "retry", "notify", "no_action"} \subseteq Action
    BY DEF RootCause, Action
  <2>6. l \in Seq(Action) /\ l # <<>> /\ IsInjective(l) /\ ToSet(l) = {"delayed_retry", "retry", "notify", "no_action"}
    BY <2>1, <2>5, Four
  <2> QED  BY <2>2, <2>4, <2>5, <2>6 DEF Gives, InContract
<1>7. Gives(in, 7, "unknown", {"notify", "no_action"})
  <2>1. PICK l : l = <<"notify", "no_action">>
    OBVIOUS
  <2>2. PICK d : d = table(in)[7].gives
    OBVIOUS
  <2>3. d = [cause |-> "unknown", confidence |-> 300, candidates |-> l, source |-> "rule_based_fallback"]
    BY <2>1, <2>2 DEF table, diag
  <2>4. /\ d.cause = "unknown" /\ d.confidence = 300 /\ d.candidates = l
        /\ d.source = "rule_based_fallback"
    BY <2>3
  <2>5. "unknown" \in RootCause /\ 300 \in 0..1000 /\ {"notify", "no_action"} \subseteq Action
    BY DEF RootCause, Action
  <2>6. l \in Seq(Action) /\ l # <<>> /\ IsInjective(l) /\ ToSet(l) = {"notify", "no_action"}
    BY <2>1, <2>5, Two
  <2> QED  BY <2>2, <2>4, <2>5, <2>6 DEF Gives, InContract
<1> QED  BY <1>1, <1>2, <1>3, <1>4, <1>5, <1>6, <1>7

\* Whatever rule answers, the diagnosis is of the contract.
LEMMA TableInContract ==
  ASSUME NEW in, in.abandoned \in BOOLEAN
  PROVE  InContract(Diagnose(in)) /\ Diagnose(in).source = "rule_based_fallback"
<1>1. PICK i \in 1..7 : Diagnose(in) = table(in)[i].gives
  BY RuleMatched
<1>2. \E cause, actions : Gives(in, i, cause, actions)
  <2>1. i \in {1, 2, 3, 4, 5, 6, 7}
    OBVIOUS
  <2> QED  BY <2>1, TableGives
<1> QED  BY <1>1, <1>2 DEF Gives

-----------------------------------------------------------------------------
(* The service's answers.                                                  *)

LEMMA ServiceInContract ==
  ASSUME NEW out, out.confidence \in Int, valid(out), NEW S, out.candidates \in Seq(S)
  PROVE  /\ InContract(validate(out)) /\ validate(out).source = "llm"
         /\ ToSet(validate(out).candidates) = ToSet(out.candidates)
         /\ validate(out).cause = out.rootCause /\ validate(out).confidence = out.confidence
<1>1. /\ out.rootCause \in RootCause /\ out.confidence \in 0..1000
      /\ out.candidates # <<>> /\ ToSet(out.candidates) \subseteq Action
  <2>1. /\ out.rootCause \in RootCause /\ out.confidence >= 0 /\ out.confidence <= 1000
        /\ out.candidates # <<>> /\ ToSet(out.candidates) \subseteq Action
    BY Zenon DEF valid
  <2>2. out.confidence \in 0..1000
    <3>1. PICK n : n = out.confidence
      OBVIOUS
    <3>2. n \in Int /\ n >= 0 /\ n <= 1000
      BY <2>1, <3>1, Zenon
    <3>3. n \in 0..1000
      BY <3>2
    <3> QED  BY <3>1, <3>3, Zenon
  <2> QED  BY <2>1, <2>2
<1>2. out.candidates \in Seq(Action)
  <2>1. /\ Len(out.candidates) \in Nat /\ out.candidates = [i \in 1..Len(out.candidates) |-> out.candidates[i]]
        /\ DOMAIN out.candidates = 1..Len(out.candidates)
    OBVIOUS
  <2>2. \A i \in 1..Len(out.candidates) : out.candidates[i] \in Action
    BY <1>1, <2>1 DEF ToSet
  <2> QED  BY <2>1, <2>2
<1>3. PICK l : l = distinct(out.candidates)
  OBVIOUS
<1>4. l \in Seq(Action) /\ IsInjective(l) /\ ToSet(l) = ToSet(out.candidates)
  BY <1>2, <1>3, DistinctActions
<1>5. l # <<>>
  <2>1. ToSet(<<>>) = {} /\ out.candidates[1] \in ToSet(out.candidates)
    BY <1>1, <1>2 DEF ToSet
  <2> QED  BY <1>4, <2>1
<1>6. PICK d : d = validate(out)
  OBVIOUS
<1>7. d = [cause |-> out.rootCause, confidence |-> out.confidence, source |-> "llm", candidates |-> l]
  BY <1>3, <1>6 DEF validate
<1>8. d.cause = out.rootCause /\ d.confidence = out.confidence /\ d.source = "llm" /\ d.candidates = l
  BY <1>7
<1> QED  BY <1>1, <1>4, <1>5, <1>6, <1>8 DEF InContract

-----------------------------------------------------------------------------
(* What is decided from a list of candidates.                              *)

\* The decided action is a candidate, or none.
LEMMA DecidedFrom ==
  ASSUME NEW c \in Seq(Action), NEW erv \in [Action -> Int], NEW f, NEW r
  PROVE  Decide(c, erv, f, r).action \in ToSet(c) \cup {"no_action"}
<1> DEFINE actions == ensureNoAction(c)
           d == Decide(c, erv, f, r)
           v(a) == Evaluate(a, erv[a], f, r)
<1>1. PICK i \in 1..Len(actions) : DecidesBy(i, d, actions, erv, f, r)
  BY DecideFirst
<1>2. \A j \in 1..Len(actions) : actions[j] \in ToSet(c) \cup {"no_action"}
  BY EnsureKeeps, ToSetOfSeq
<1> HIDE DEF actions, d
<1>3. CASE d.action = actions[i]
  BY <1>2, <1>3 DEF d
<1>4. CASE d.action # actions[i]
  <2>1. v(d.action) = "HUMAN_REVIEW" /\ \E j \in 1..Len(actions) : v(actions[j]) = "HUMAN_REVIEW"
    BY <1>1, <1>4 DEF DecidesBy
  <2> HIDE DEF v
  <2>2. PICK j \in 1..Len(actions) : v(actions[j]) = "HUMAN_REVIEW"
    BY <2>1
  <2>3. d.action = "escalate" /\ actions[j] = "escalate"
    BY <2>1, <2>2, ReviewedWhen DEF v
  <2> QED  BY <1>2, <2>3 DEF d
<1> QED  BY <1>3, <1>4

\* A suspected fraud goes to a human, unless a kill switch is on.
LEMMA FraudReviewed ==
  ASSUME NEW c \in Seq(Action), ToSet(c) = {"escalate", "no_action"}, NEW erv \in [Action -> Int], NEW f, NEW r,
         f.cause = "fraud_suspected", ~f.kill, ~f.globalKill
  PROVE  Decide(c, erv, f, r).verdict = "HUMAN_REVIEW"
<1> DEFINE actions == ensureNoAction(c)
           d == Decide(c, erv, f, r)
           v(a) == Evaluate(a, erv[a], f, r)
<1>1. PICK i \in 1..Len(actions) : DecidesBy(i, d, actions, erv, f, r)
  BY DecideFirst
<1>2. v("escalate") = "HUMAN_REVIEW"
  BY ReviewedWhen
<1>3. \A j \in 1..Len(actions) : actions[j] \in {"escalate", "no_action"}
  BY EnsureKeeps, ToSetOfSeq
<1>4. \E j \in 1..Len(actions) : actions[j] = "escalate"
  <2>1. PICK j \in 1..Len(c) : c[j] = "escalate"
    BY ToSetOfSeq
  <2>2. j \in 1..Len(actions) /\ actions[j] = c[j]
    BY EnsureKeeps
  <2> QED  BY <2>1, <2>2
<1> HIDE DEF actions, d
<1>5. v(actions[i]) = "ALLOW"
  BY <1>1 DEF DecidesBy
<1>6. \E j \in 1..Len(actions) : v(actions[j]) = "HUMAN_REVIEW"
  BY <1>2, <1>4
<1>7. actions[i] = "no_action"
  <2> HIDE DEF v
  <2> QED  BY <1>2, <1>3, <1>5
<1>8. d.verdict = "HUMAN_REVIEW"
  BY <1>1, <1>6, <1>7 DEF DecidesBy
<1> QED  BY <1>8 DEF d

-----------------------------------------------------------------------------
(* The invariant.                                                          *)

Loaded ==
  failure \in [abandoned : BOOLEAN, reason : SUBSET Word, priorAttempts : Attempts,
               context : Contexts, limits : Policies, erv : Scores]

\* A diagnosis is the table's of this failure, or the service's answer.
Attributed ==
  /\ diagnosis.source = "rule_based_fallback" => diagnosis = Diagnose(failure)
  /\ diagnosis.source # "rule_based_fallback" =>
       /\ ToSet(diagnosis.candidates) = ToSet(answer.candidates)
       /\ diagnosis.cause = answer.rootCause /\ diagnosis.confidence = answer.confidence

DiagnosisInvariant ==
  /\ Loaded /\ InContract(diagnosis) /\ Attributed
  /\ step = "decided" => choice = Decide(diagnosis.candidates, failure.erv, facts, failure.limits)

LEMMA DiagnosisKept ==
  ASSUME DiagnosisInvariant, [DiagnosisNext]_diagnosed
  PROVE  DiagnosisInvariant'
<1>0. failure.abandoned \in BOOLEAN
  BY DEF DiagnosisInvariant, Loaded
<1>1. CASE DiagnoseByTable
  <2>1. diagnosis' = Diagnose(failure) /\ step' = "diagnosed" /\ UNCHANGED <<failure, answer, choice>>
    BY <1>1 DEF DiagnoseByTable
  <2>2. InContract(diagnosis') /\ diagnosis'.source = "rule_based_fallback"
    BY <1>0, <2>1, TableInContract
  <2> QED  BY <2>1, <2>2 DEF DiagnosisInvariant, Loaded, Attributed, InContract
<1>2. CASE DiagnoseByService
  <2>1. PICK out \in Answers \cup {NoAnswer} : answer' = out /\ diagnosis' = llmDiagnose(failure, out)
    BY <1>2 DEF DiagnoseByService
  <2>2. step' = "diagnosed" /\ UNCHANGED <<failure, choice>>
    BY <1>2 DEF DiagnoseByService
  <2>3. CASE out # NoAnswer /\ valid(out)
    <3>1. diagnosis' = validate(out) /\ out.confidence \in Int /\ out.candidates \in Seq(STRING)
      BY <2>1, <2>3, DiagnosisAssumption DEF llmDiagnose
    <3>2. /\ InContract(diagnosis') /\ diagnosis'.source = "llm"
          /\ ToSet(diagnosis'.candidates) = ToSet(out.candidates)
          /\ diagnosis'.cause = out.rootCause /\ diagnosis'.confidence = out.confidence
      BY <2>3, <3>1, ServiceInContract
    <3> QED  BY <2>1, <2>2, <3>2 DEF DiagnosisInvariant, Loaded, Attributed, InContract
  <2>4. CASE ~(out # NoAnswer /\ valid(out))
    <3>1. diagnosis' = Diagnose(failure)
      BY <2>1, <2>4 DEF llmDiagnose
    <3>2. InContract(diagnosis') /\ diagnosis'.source = "rule_based_fallback"
      BY <1>0, <3>1, TableInContract
    <3> QED  BY <2>2, <3>1, <3>2 DEF DiagnosisInvariant, Loaded, Attributed, InContract
  <2> QED  BY <2>3, <2>4
<1>3. CASE ProcessDiagnosis
  <2>1. /\ choice' = Decide(diagnosis.candidates, failure.erv, facts, failure.limits)
        /\ UNCHANGED <<failure, answer, diagnosis>>
    BY <1>3 DEF ProcessDiagnosis
  <2>2. facts' = facts
    BY <2>1 DEF facts
  <2> QED  BY <2>1, <2>2 DEF DiagnosisInvariant, Loaded, Attributed, InContract
<1>4. CASE UNCHANGED diagnosed
  <2>1. UNCHANGED <<step, failure, answer, diagnosis, choice>>
    BY <1>4 DEF diagnosed
  <2>2. facts' = facts
    BY <2>1 DEF facts
  <2> QED  BY <2>1, <2>2 DEF DiagnosisInvariant, Loaded, Attributed, InContract
<1> QED  BY <1>1, <1>2, <1>3, <1>4 DEF DiagnosisNext

\* Whatever the diagnosis service answers, or does not, Process goes on with a diagnosis of
\* the contract, the service's or the table's, and when it is the table's, the order of the
\* rules binds what is dispatched (llm/client.go: validate and the fallback; rules.go:
\* Diagnose).
THEOREM DiagnosisIsAlwaysSafe == DiagnosisSpec => []DiagnosisIsSafe
<1>1. DiagnosisInit => DiagnosisInvariant
  <2> SUFFICES ASSUME DiagnosisInit PROVE DiagnosisInvariant
    OBVIOUS
  <2>1. failure.abandoned \in BOOLEAN /\ diagnosis = Diagnose(failure) /\ step = "loaded"
    BY DEF DiagnosisInit
  <2> QED  BY <2>1, TableInContract DEF DiagnosisInit, DiagnosisInvariant, Loaded, Attributed
<1>2. DiagnosisInvariant /\ [DiagnosisNext]_diagnosed => DiagnosisInvariant'
  BY DiagnosisKept
<1>3. DiagnosisInvariant => DiagnosisIsSafe
  <2> SUFFICES ASSUME DiagnosisInvariant PROVE DiagnosisIsSafe
    OBVIOUS
  <2> DEFINE a == choice.action  fallback == diagnosis.source = "rule_based_fallback"
             killed == failure.context.kill \/ failure.context.globalKill
  <2>1. Loaded /\ InContract(diagnosis) /\ Attributed
    BY DEF DiagnosisInvariant
  <2>2. ASSUME step = "decided", fallback
        PROVE  /\ "fraud" \in failure.reason => choice.verdict = "HUMAN_REVIEW" \/ killed
               /\ IsRetry(a) => /\ "fraud" \notin failure.reason /\ ~failure.abandoned
                                /\ "insufficient" \notin failure.reason =>
                                     failure.reason = {"declined"} /\ failure.priorAttempts < chronicAttemptFloor
               /\ failure.reason = {} /\ ~failure.abandoned /\ failure.priorAttempts < chronicAttemptFloor
                    => a \in {"notify", "no_action"}
    <3>1. /\ failure.abandoned \in BOOLEAN /\ failure.reason \subseteq Word /\ failure.priorAttempts \in Nat
          /\ failure.erv \in [Action -> Int]
      BY <2>1, DiagnosisAssumption DEF Loaded
    <3>2. PICK i \in 1..7 : Passed(failure, i) /\ table(failure)[i].when /\ diagnosis = table(failure)[i].gives
      BY <2>1, <2>2, <3>1, RuleMatched DEF Attributed
    <3>3. /\ choice = Decide(diagnosis.candidates, failure.erv, facts, failure.limits)
          /\ diagnosis.candidates \in Seq(Action)
      BY <2>1, <2>2 DEF DiagnosisInvariant, InContract
    <3>4. a \in ToSet(diagnosis.candidates) \cup {"no_action"}
      BY <3>1, <3>3, DecidedFrom
    <3>5. facts.cause = diagnosis.cause /\ facts.kill = failure.context.kill /\ facts.globalKill = failure.context.globalKill
      BY DEF facts
    <3>6. CASE i = 1
      <4>1. /\ "fraud" \in failure.reason /\ diagnosis.cause = "fraud_suspected"
            /\ ToSet(diagnosis.candidates) = {"escalate", "no_action"}
        BY <3>2, <3>6, TableGives, Conditions DEF Gives
      <4>2. ~killed => choice.verdict = "HUMAN_REVIEW"
        BY <3>1, <3>3, <3>5, <4>1, FraudReviewed
      <4>3. ~IsRetry(a) /\ failure.reason # {}
        BY <3>4, <4>1 DEF IsRetry
      <4> QED  BY <4>2, <4>3
    <3>7. CASE i # 1
      <4>1. "fraud" \notin failure.reason
        BY <3>2, <3>7 DEF Passed
      <4>2. IsRetry(a) => i \in {3, 6}
        <5>1. i \in {2, 4, 5, 7} => ToSet(diagnosis.candidates) \cap {"retry", "delayed_retry"} = {}
          BY <3>2, TableGives DEF Gives
        <5> QED  BY <3>2, <3>4, <3>7, <5>1 DEF IsRetry
      <4>3. i = 3 => "insufficient" \in failure.reason /\ ~failure.abandoned
        <5>1. i = 3 => ~failure.abandoned
          BY <3>2 DEF Passed
        <5>2. i = 3 => "insufficient" \in failure.reason
          BY <3>2, Conditions
        <5> QED  BY <5>1, <5>2
      <4>4. i = 6 => failure.reason = {"declined"} /\ ~failure.abandoned /\ failure.priorAttempts < 3
        <5>1. i = 6 => /\ "fraud" \notin failure.reason /\ ~failure.abandoned /\ "insufficient" \notin failure.reason
                       /\ "expired" \notin failure.reason /\ ~(failure.priorAttempts >= 3)
          BY <3>2 DEF Passed
        <5>2. i = 6 => "declined" \in failure.reason
          BY <3>2, Conditions
        <5> QED  BY <3>1, <5>1, <5>2 DEF Word
      <4>5. failure.reason = {} /\ ~failure.abandoned /\ failure.priorAttempts < 3 => i = 7
        <5>1. ASSUME failure.reason = {}, ~failure.abandoned, failure.priorAttempts < 3 PROVE i = 7
          <6>1. i # 2
            BY <3>2, <5>1, Conditions
          <6>2. i # 3
            BY <3>2, <5>1, Conditions
          <6>3. i # 4
            BY <3>2, <5>1, Conditions
          <6>4. i # 5
            <7>1. ~table(failure)[5].when
              <8>1. ~(failure.priorAttempts >= 3)
                BY <3>1, <5>1
              <8> QED  BY <8>1, Conditions, Zenon
            <7> QED  BY <3>2, <7>1
          <6>5. i # 6
            BY <3>2, <5>1, Conditions
          <6> QED  BY <3>7, <6>1, <6>2, <6>3, <6>4, <6>5
        <5> QED  BY <5>1
      <4>6. i = 7 => a \in {"notify", "no_action"}
        <5>1. Gives(failure, 7, "unknown", {"notify", "no_action"})
          BY TableGives
        <5>2. i = 7 => ToSet(table(failure)[i].gives.candidates) = {"notify", "no_action"}
          BY <5>1 DEF Gives
        <5> QED  BY <3>2, <3>4, <5>2
      <4> QED  BY <4>1, <4>2, <4>3, <4>4, <4>5, <4>6 DEF chronicAttemptFloor
    <3> QED  BY <3>6, <3>7
  <2> HIDE DEF a, fallback, killed
  <2> QED  BY <2>1, <2>2, Zenon DEF DiagnosisIsSafe, InContract, Attributed, a, fallback, killed
<1> QED  BY <1>1, <1>2, <1>3, PTL DEF DiagnosisSpec

-----------------------------------------------------------------------------
(***************************************************************************)
(* A decision on the console's screens.  The engine's row has its choice   *)
(* once among its candidates, with the choice's ERV, since no candidate is *)
(* offered twice; and what is shown was mapped from that row, in one of    *)
(* the states it is left in.                                               *)
(***************************************************************************)
Left == {"ACTION_SELECTED", "ACTION_PENDING", "DONE", "STOPPED"}

HasChoice(r, i) ==
  /\ i \in DOMAIN r.candidates
  /\ r.candidates[i].action = r.chosen /\ r.candidates[i].erv = r.erv
  /\ \A j \in DOMAIN r.candidates : r.candidates[j].action = r.chosen => j = i

RowOK(r) ==
  /\ DOMAIN r = {"chosen", "verdict", "state", "erv", "amount", "checks", "candidates"}
  /\ r.state \in Left
  /\ \E n \in Nat : DOMAIN r.candidates = 1..n
  /\ \E i \in DOMAIN r.candidates : HasChoice(r, i)
  /\ r.state # "STOPPED" => r.checks = [i \in 1..8 |-> TRUE]

\* The decision d shows the choice of the row r, and only that, in place i.
Shows(d, r, i) ==
  LET c == d.candidate_actions
  IN /\ i \in DOMAIN c /\ DOMAIN c \subseteq Nat
     /\ c[i].action_type = r.chosen /\ c[i].erv = r.erv /\ c[i].policy_result = r.verdict
     /\ \A k \in DOMAIN c : c[k].is_winner <=> k = i
     /\ \A k \in DOMAIN c : c[k].action_type = r.chosen => k = i
     /\ d.chosen_action = r.chosen

ReadFrom(r) ==
  shown # NotRead => shown.recovery_state \in Left /\ \E i \in Nat : Shows(shown, r, i)

LiveInvariant == RowOK(row) /\ ReadFrom(row)

\* The engine's choice is one of the candidates it was offered.
LEMMA ChosenIsOffered ==
  ASSUME NEW c \in Seq(Action), NEW erv \in [Action -> Int], NEW f, NEW r
  PROVE  \E j \in 1..Len(ensureNoAction(c)) :
           Decide(c, erv, f, r).action = ensureNoAction(c)[j]
<1> DEFINE actions == ensureNoAction(c)
           d == Decide(c, erv, f, r)
           v(a) == Evaluate(a, erv[a], f, r)
           asked == \E j \in 1..Len(actions) : v(actions[j]) = "HUMAN_REVIEW"
<1>1. PICK i \in 1..Len(actions) : DecidesBy(i, d, actions, erv, f, r)
  BY DecideFirst
<1> HIDE DEF actions, d
<1>2. /\ asked /\ actions[i] = "no_action" => v(d.action) = "HUMAN_REVIEW"
      /\ ~(asked /\ actions[i] = "no_action") => d.action = actions[i]
  BY <1>1 DEF DecidesBy
<1>3. \A a : v(a) = "HUMAN_REVIEW" => a = "escalate"
  BY ReviewedWhen
<1> HIDE DEF v
<1>4. \E j \in 1..Len(actions) : d.action = actions[j]
  BY <1>2, <1>3
<1> QED  BY <1>4 DEF actions, d

Distinct(list) == \A i, j \in 1..Len(list) : list[i] = list[j] => i = j

\* The function f, of the numbers up to n, has the value a once.
HasOnce(f, n, a) ==
  /\ DOMAIN f = 1..n
  /\ \E i \in 1..n : f[i] = a /\ \A j \in 1..n : f[j] = a => j = i

\* A list without repetitions has none once no_action is offered too.
LEMMA EnsureDistinct ==
  ASSUME NEW c \in Seq(Action), IsInjective(c)
  PROVE  Distinct(ensureNoAction(c))
<1>1. CASE Contains(c, "no_action")
  BY <1>1 DEF ensureNoAction, IsInjective, Distinct
<1>2. CASE ~Contains(c, "no_action")
  <2>1. ensureNoAction(c) = Append(c, "no_action") /\ \A i \in 1..Len(c) : c[i] # "no_action"
    BY <1>2 DEF ensureNoAction, Contains
  <2>2. /\ Len(c) \in Nat /\ Len(Append(c, "no_action")) = Len(c) + 1
        /\ Append(c, "no_action")[Len(c) + 1] = "no_action"
        /\ \A j \in 1 .. Len(c) : Append(c, "no_action")[j] = c[j]
    BY LenProperties DEF Action
  <2>3. \A i, j \in 1..Len(c) : c[i] = c[j] => i = j
    BY DEF IsInjective
  <2> QED  BY <2>1, <2>2, <2>3 DEF Distinct
<1> QED  BY <1>1, <1>2

\* What has one place in a list has one place in its ranking.
LEMMA RankedOnce ==
  ASSUME NEW actions \in Seq(Action), NEW erv \in [Action -> Int],
         Distinct(actions), NEW j \in 1..Len(actions)
  PROVE  HasOnce(Rank(actions, erv), Len(actions), actions[j])
<1> DEFINE I == 1..Len(actions)
           ranked == Rank(actions, erv)
<1>1. ranked \in [I -> Action]
  BY RankSorts
<1>2. PICK pos \in [I -> I] :
        /\ \A k \in I : ranked[pos[k]] = actions[k]
        /\ \A n \in I : \E k \in I : pos[k] = n
        /\ \A i, k \in I : Outranks(actions, erv, i, k) => pos[i] < pos[k]
  BY RankSorts
<1> HIDE DEF ranked, I
<1>3. pos[j] \in I /\ ranked[pos[j]] = actions[j]
  BY <1>2 DEF I
<1>4. ASSUME NEW m \in I, ranked[m] = actions[j] PROVE m = pos[j]
  <2>1. PICK k \in I : pos[k] = m
    BY <1>2
  <2>2. actions[k] = actions[j]
    BY <1>2, <1>4, <2>1
  <2> QED  BY <2>1, <2>2 DEF I, Distinct
<1>5. DOMAIN ranked = I
  BY <1>1
<1> QED  BY <1>3, <1>4, <1>5 DEF ranked, I, HasOnce

\* What the engine decides is such a row: where it is not stopped, no rule fired.
LEMMA DecidedOK ==
  ASSUME NEW f \in Events, NEW list \in Offers, NEW erv \in Worths
  PROVE  RowOK(Decided(f, list, erv))
<1> DEFINE d == Decide(list, erv, f, Resolved)
           actions == ensureNoAction(list)
           ranked == Rank(actions, erv)
           r == Decided(f, list, erv)
<1>1. list \in Seq(Action) /\ IsInjective(list) /\ erv \in [Action -> Int]
  BY LiveAssumption
<1>2. actions \in Seq(Action) /\ Len(actions) \in Nat
  BY <1>1, EnsureNoAction, LenProperties
<1>3. PICK j \in 1..Len(actions) : d.action = actions[j]
  BY <1>1, ChosenIsOffered
<1>4. Distinct(actions)
  BY <1>1, EnsureDistinct
<1>5. /\ d.state \in {"ACTION_SELECTED", "STOPPED"}
      /\ d.state = "ACTION_SELECTED" => d.verdict = "ALLOW"
      /\ Evaluate(d.action, erv[d.action], f, Resolved) = d.verdict
  BY <1>1, DecideSound
<1> HIDE DEF actions, d
<1>6. HasOnce(ranked, Len(actions), actions[j])
  <2>1. erv \in [Action -> Int]
    BY <1>1
  <2> QED  BY Zenon, <1>2, <1>3, <1>4, <2>1, RankedOnce
<1> HIDE DEF ranked
<1>7. /\ r.chosen = d.action /\ r.state = d.state /\ r.erv = erv[d.action]
      /\ r.checks = ChosenChecks(d.action, erv[d.action], f)
      /\ r.candidates = [i \in DOMAIN ranked |->
                           [action |-> ranked[i], erv |-> erv[ranked[i]],
                            verdict |-> Evaluate(ranked[i], erv[ranked[i]], f, Resolved)]]
  BY DEF Decided, d, ranked, actions
<1> HIDE DEF r
<1>8. /\ DOMAIN r.candidates = 1..Len(actions)
      /\ \A i \in 1..Len(actions) :
           r.candidates[i].action = ranked[i] /\ r.candidates[i].erv = erv[ranked[i]]
  BY <1>6, <1>7 DEF HasOnce
<1>9. \E i \in DOMAIN r.candidates : HasChoice(r, i)
  BY <1>3, <1>6, <1>7, <1>8 DEF HasChoice, HasOnce
<1>10. ASSUME d.state = "ACTION_SELECTED" PROVE r.checks = [i \in 1..8 |-> TRUE]
  <2>1. \A i \in 1..Len(Rules) : ~Fires(Rules[i], d.action, erv[d.action], f, Resolved)
    BY <1>5, <1>10, AllowedFiresNothing
  <2>2. DOMAIN Rules = 1..8 /\ Len(Rules) = 8
    BY DEF Rules
  <2> DEFINE fired == {i \in DOMAIN Rules : Fires(Rules[i], d.action, erv[d.action], f, Resolved)}
  <2>3. fired = {}
    BY <2>1, <2>2
  <2>4. ChosenChecks(d.action, erv[d.action], f)
          = IF fired = {} THEN [i \in DOMAIN Rules |-> TRUE]
            ELSE [i \in 1..Min(fired) |-> i # Min(fired)]
    BY DEF ChosenChecks
  <2> HIDE DEF fired
  <2> QED  BY <1>7, <2>2, <2>3, <2>4
<1>11. r.state \in Left /\ (r.state # "STOPPED" => r.state = "ACTION_SELECTED")
  BY <1>5, <1>7 DEF Left
<1>12. DOMAIN r = {"chosen", "verdict", "state", "erv", "amount", "checks", "candidates"}
  BY DEF Decided, r
<1>13. RowOK(r)
  BY <1>2, <1>7, <1>8, <1>9, <1>10, <1>11, <1>12 DEF RowOK
<1> QED  BY <1>13 DEF r

\* The feed's record of a row shows its choice, and has no execution.
LEMMA SummaryMapped ==
  ASSUME NEW r
  PROVE  LET s == transformSummaryToDecision(r)
         IN /\ Shows(s, r, 1)
            /\ s.chosen_action = r.chosen /\ s.erv_at_decision = r.erv
            /\ s.policy_result = r.verdict /\ s.recovery_state = r.state
            /\ s.execution = "none"
<1> DEFINE s == transformSummaryToDecision(r)
           item == Screen!CandidateActionItem(r.chosen, 75, amountEstimate(r), 200, 200, r.erv,
                                              r.verdict, TRUE)
<1>1. /\ s.candidate_actions = <<item>> /\ s.chosen_action = r.chosen
      /\ s.erv_at_decision = r.erv /\ s.policy_result = r.verdict
      /\ s.recovery_state = r.state /\ s.execution = "none"
  BY DEF transformSummaryToDecision, Screen!Decision
<1>2. /\ item.action_type = r.chosen /\ item.erv = r.erv /\ item.policy_result = r.verdict
      /\ item.is_winner
  BY DEF Screen!CandidateActionItem
<1> HIDE DEF s, item
<1>3. DOMAIN <<item>> = {1} /\ <<item>>[1] = item
  OBVIOUS
<1>4. Shows(s, r, 1)
  BY <1>1, <1>2, <1>3 DEF Shows
<1> QED  BY <1>1, <1>4 DEF s

\* So does the record in detail, with an execution and the outcome the state tells.
LEMMA DetailMapped ==
  ASSUME NEW r, RowOK(r)
  PROVE  LET d == transformDetailToDecision(r)
         IN /\ \E i \in Nat : Shows(d, r, i)
            /\ d.chosen_action = r.chosen /\ d.erv_at_decision = r.erv
            /\ d.policy_result = r.verdict /\ d.recovery_state = r.state
            /\ d.execution = "pending" /\ d.policy_checks = ChecksShown(r)
            /\ d.outcome = OutcomeShown(r)
<1> DEFINE d == transformDetailToDecision(r)
           c == d.candidate_actions
<1>1. /\ c = [i \in DOMAIN r.candidates |-> CandidateShown(r, i)] /\ d.chosen_action = r.chosen
      /\ d.erv_at_decision = r.erv /\ d.policy_result = r.verdict
      /\ d.recovery_state = r.state /\ d.execution = "pending"
      /\ d.policy_checks = ChecksShown(r) /\ d.outcome = OutcomeShown(r)
  BY DEF transformDetailToDecision, Screen!Decision
<1> HIDE DEF d
<1>2. DOMAIN c = DOMAIN r.candidates /\ \A k \in DOMAIN c : c[k] = CandidateShown(r, k)
  BY <1>1
<1> HIDE DEF c
<1>3. ASSUME NEW k \in DOMAIN c
      PROVE  /\ c[k].action_type = r.candidates[k].action /\ c[k].erv = r.candidates[k].erv
             /\ c[k].is_winner = isWinner(r, k)
             /\ isWinner(r, k) => c[k].policy_result = r.verdict
  <2> DEFINE result == IF isWinner(r, k) THEN r.verdict ELSE "ALLOW"
             item(w) == Screen!CandidateActionItem(r.candidates[k].action, 0, r.amount, 0, 0,
                                                   r.candidates[k].erv, result, w)
  <2>1. c[k] = item(isWinner(r, k))
    BY Zenon, <1>2 DEF CandidateShown
  <2>2. /\ item(isWinner(r, k)).action_type = r.candidates[k].action
        /\ item(isWinner(r, k)).erv = r.candidates[k].erv
        /\ item(isWinner(r, k)).is_winner = isWinner(r, k)
        /\ item(isWinner(r, k)).policy_result = result
    BY Zenon DEF Screen!CandidateActionItem
  <2>3. isWinner(r, k) => result = r.verdict
    BY Zenon
  <2> HIDE DEF item, result
  <2> QED  BY Zenon, <2>1, <2>2, <2>3
<1>4. PICK i \in DOMAIN r.candidates : HasChoice(r, i)
  BY DEF RowOK
<1>5. \A k \in DOMAIN c : isWinner(r, k) <=> k = i
  BY <1>2, <1>4 DEF isWinner, HasChoice
<1>6. \A k \in DOMAIN c : c[k].action_type = r.chosen => k = i
  BY <1>2, <1>3, <1>4 DEF HasChoice
<1>7. \A k \in DOMAIN c : c[k].is_winner <=> k = i
  BY Zenon, <1>3, <1>5
<1>8. /\ i \in DOMAIN c /\ c[i].action_type = r.chosen /\ c[i].erv = r.erv
      /\ c[i].policy_result = r.verdict
  BY <1>2, <1>3, <1>4, <1>5 DEF HasChoice
<1>9. DOMAIN c \subseteq Nat
  BY <1>2 DEF RowOK
<1>10. Shows(d, r, i)
  BY Zenon, <1>1, <1>6, <1>7, <1>8, <1>9 DEF Shows, c
<1> QED  BY <1>1, <1>8, <1>9, <1>10 DEF d

\* The candidate whose ERV is broken down is the one that is marked.
LEMMA SelectedIsMarked ==
  ASSUME NEW d, NEW r, NEW i \in Nat, Shows(d, r, i)
  PROVE  Screen!selectedCandidate(d) = d.candidate_actions[i] /\ Marked(d) = {i}
<1> DEFINE c == d.candidate_actions
           hits == {k \in DOMAIN c : c[k].is_winner \/ c[k].action_type = d.chosen_action}
<1>1. /\ \A k \in DOMAIN c : c[k].is_winner <=> k = i
      /\ \A k \in DOMAIN c : c[k].action_type = r.chosen => k = i
      /\ d.chosen_action = r.chosen /\ i \in DOMAIN c
  BY Zenon DEF Shows
<1>2. i \in DOMAIN c
  BY <1>1
<1>3. hits = {i}
  <2>1. \A k \in DOMAIN c : (c[k].is_winner \/ c[k].action_type = r.chosen) <=> k = i
    BY Zenon, <1>1, <1>2
  <2>2. hits = {k \in DOMAIN c : c[k].is_winner \/ c[k].action_type = r.chosen}
    BY Zenon, <1>1
  <2> HIDE DEF c
  <2> QED  BY Zenon, <1>2, <2>1, <2>2
<1>4. Marked(d) = {i}
  <2>1. Marked(d) = {k \in DOMAIN c : c[k].is_winner}
    BY Zenon DEF Marked
  <2> HIDE DEF c
  <2> QED  BY Zenon, <1>1, <1>2, <2>1
<1>5. Screen!selectedCandidate(d) = c[IF hits # {} THEN Screen!Min(hits) ELSE 1]
  BY Zenon DEF Screen!selectedCandidate
<1> HIDE DEF hits, c
<1>6. Screen!Min({i}) = i
  BY DEF Screen!Min
<1>7. Screen!selectedCandidate(d) = c[i]
  BY <1>3, <1>5, <1>6
<1> QED  BY <1>4, <1>7 DEF c

\* A state a decision is left in has one current step on the timeline.
LEMMA OneStepIsCurrent ==
  ASSUME NEW d, d.recovery_state \in Left
  PROVE  LET steps == Screen!RecoveryTimeline(d)
         IN Cardinality({i \in DOMAIN steps : steps[i].isCurrent}) = 1
<1> DEFINE state == d.recovery_state
           stages == Screen!Stages(state)
           last == Screen!Resolution(state)
           steps == Screen!RecoveryTimeline(d)
           S == {stages[i] : i \in 1..5} \cup {Screen!Step("RECOVERED", TRUE, TRUE),
                                              Screen!Step(state, TRUE, TRUE)}
<1>1. /\ Len(stages) = 5 /\ DOMAIN stages = 1..5
      /\ stages[1].isCurrent = FALSE /\ stages[2].isCurrent = FALSE
      /\ stages[3].isCurrent = (state = "RECOVERY_ELIGIBLE")
      /\ stages[4].isCurrent = (state = "ACTION_SELECTED")
      /\ stages[5].isCurrent = (state = "ACTION_PENDING")
  BY DEF Screen!Stages, Screen!Step
<1>2. stages \in Seq(S)
  <2> DEFINE a == stages[1]  b == stages[2]  p == stages[3]  q == stages[4]  e == stages[5]
  <2>1. stages = <<a, b, p, q, e>>
    BY DEF Screen!Stages
  <2>2. a \in S /\ b \in S /\ p \in S /\ q \in S /\ e \in S
    OBVIOUS
  <2> HIDE DEF S, stages, a, b, p, q, e
  <2> QED  BY <2>1, <2>2, WrittenOut
<1>3. steps = stages \o last
  BY DEF Screen!RecoveryTimeline
<1>4. ASSUME state \in {"DONE", "STOPPED"}
      PROVE  last \in Seq(S) /\ Len(last) = 1 /\ last[1].isCurrent = TRUE
  <2>1. PICK f \in S : last = <<f>> /\ f.isCurrent = TRUE
    BY <1>4 DEF Screen!Resolution, Screen!Step
  <2> HIDE DEF S, last
  <2> QED  BY <2>1, WrittenOut
<1>5. ASSUME state \in {"ACTION_SELECTED", "ACTION_PENDING"}
      PROVE  last = <<>>
  BY <1>5 DEF Screen!Resolution
<1>6. \E n \in DOMAIN steps : \A i \in DOMAIN steps : steps[i].isCurrent <=> i = n
  <2> HIDE DEF stages, last, S, steps
  <2>1. CASE state \in {"DONE", "STOPPED"}
    <3>1. last \in Seq(S) /\ Len(last) = 1 /\ last[1].isCurrent = TRUE
      BY <1>4, <2>1
    <3>2. /\ stages \o last \in Seq(S) /\ Len(stages \o last) = Len(stages) + Len(last)
          /\ \A i \in 1 .. Len(stages) + Len(last) :
               (stages \o last)[i] = IF i <= Len(stages) THEN stages[i]
                                     ELSE last[i - Len(stages)]
      <4>1. stages \in Seq(S) /\ last \in Seq(S)
        BY <1>2, <3>1
      <4>2. stages \o last \in Seq(S) /\ Len(stages \o last) = Len(stages) + Len(last)
        BY <4>1, ConcatProperties, Zenon
      <4>3. \A i \in 1 .. Len(stages) + Len(last) :
               (stages \o last)[i] = IF i <= Len(stages) THEN stages[i]
                                     ELSE last[i - Len(stages)]
        BY <4>1, ConcatProperties, Zenon
      <4> QED  BY <4>2, <4>3, Zenon
    <3>3. /\ DOMAIN steps = 1..6 /\ steps[6] = last[1]
          /\ \A i \in 1..5 : steps[i] = stages[i]
      <4> HIDE DEF state
      <4>1. Len(stages) = 5
        BY <1>1
      <4>2. steps \in Seq(S) /\ Len(steps) = 6
        <5>1. steps \in Seq(S) /\ Len(steps) = Len(stages) + Len(last)
          BY <1>3, <3>2, Zenon
        <5> QED  BY <3>1, <4>1, <5>1
      <4>3. \A i \in 1..6 : steps[i] = IF i <= 5 THEN stages[i] ELSE last[i - 5]
        <5>1. PICK n, k : n = Len(stages) /\ k = Len(last)
          OBVIOUS
        <5>2. /\ n = 5 /\ k = 1
              /\ \A i \in 1 .. n + k : steps[i] = IF i <= n THEN stages[i] ELSE last[i - n]
          BY <1>3, <3>1, <3>2, <4>1, <5>1, Zenon
        <5> QED  BY <5>2
      <4> QED  BY <4>2, <4>3
    <3>4. ~stages[3].isCurrent /\ ~stages[4].isCurrent /\ ~stages[5].isCurrent
      BY <1>1, <2>1
    <3>5. \A i \in 1..5 : i \in {1, 2, 3, 4, 5}
      OBVIOUS
    <3>6. \A i \in 1..5 : ~stages[i].isCurrent
      BY Zenon, <1>1, <3>4, <3>5
    <3>7. \A i \in 1..6 : i = 6 \/ i \in 1..5
      OBVIOUS
    <3>8. 6 \in 1..6 /\ 6 \notin 1..5
      OBVIOUS
    <3>9. \A i \in DOMAIN steps : steps[i].isCurrent <=> i = 6
      BY Zenon, <3>1, <3>3, <3>6, <3>7, <3>8
    <3> QED  BY <3>3, <3>9
  <2>2. CASE state \in {"ACTION_SELECTED", "ACTION_PENDING"}
    <3>1. steps = stages
      BY <1>2, <1>3, <1>5, <2>2, EmptySeq, ConcatEmptySeq
    <3>2. \A i \in DOMAIN steps : i \in {1, 2, 3, 4, 5}
      BY <1>1, <3>1
    <3>3. 4 \in DOMAIN steps /\ 5 \in DOMAIN steps
      BY <1>1, <3>1
    <3>4. CASE state = "ACTION_SELECTED"
      <4>1. /\ ~stages[1].isCurrent /\ ~stages[2].isCurrent /\ ~stages[3].isCurrent
            /\ stages[4].isCurrent /\ ~stages[5].isCurrent
        BY <1>1, <3>4
      <4>2. \A i \in DOMAIN steps : steps[i].isCurrent <=> i = 4
        BY <3>1, <3>2, <4>1
      <4> QED  BY <3>3, <4>2
    <3>5. CASE state = "ACTION_PENDING"
      <4>1. /\ ~stages[1].isCurrent /\ ~stages[2].isCurrent /\ ~stages[3].isCurrent
            /\ ~stages[4].isCurrent /\ stages[5].isCurrent
        BY <1>1, <3>5
      <4>2. \A i \in DOMAIN steps : steps[i].isCurrent <=> i = 5
        BY <3>1, <3>2, <4>1
      <4> QED  BY <3>3, <4>2
    <3> QED  BY <2>2, <3>4, <3>5
  <2> QED  BY <2>1, <2>2 DEF Left
<1>7. PICK n \in DOMAIN steps : {i \in DOMAIN steps : steps[i].isCurrent} = {n}
  BY Zenon, <1>6
<1>8. Cardinality({n}) = 1
  BY FS_Singleton
<1> QED  BY <1>7, <1>8

\* What the screens show of such a row is its choice.
LEMMA RowIsShown ==
  ASSUME RowOK(row), ReadFrom(row)
  PROVE  WinnerIsChosen /\ FeedAgreesWithDetail /\ StateOnTimeline
<1>1. ASSUME shown # NotRead, NEW i \in Nat, Shows(shown, row, i)
      PROVE  WinnerIsChosen
  <2> DEFINE c == shown.candidate_actions
  <2>1. Screen!selectedCandidate(shown) = c[i] /\ Marked(shown) = {i}
    BY <1>1, SelectedIsMarked
  <2>2. /\ c[i].action_type = row.chosen /\ c[i].erv = row.erv /\ c[i].policy_result = row.verdict
        /\ \A k \in DOMAIN c : c[k].is_winner <=> k = i
    BY Zenon, <1>1 DEF Shows
  <2>3. Screen!ErvBreakdown(shown).action = row.chosen
    BY Zenon, <2>1, <2>2 DEF Screen!ErvBreakdown
  <2>4. ASSUME NEW k \in DOMAIN c PROVE Screen!CandidateAction(c[k]).ribbon <=> k = i
    <3>1. Screen!CandidateAction(c[k]).ribbon = c[k].is_winner
      BY Zenon DEF Screen!CandidateAction
    <3> QED  BY Zenon, <2>2, <3>1
  <2>5. i \in Marked(shown)
    BY <2>1
  <2> QED  BY Zenon, <2>1, <2>2, <2>3, <2>4, <2>5 DEF WinnerIsChosen
<1>2. WinnerIsChosen /\ StateOnTimeline
  <2>1. CASE shown = NotRead
    BY <2>1 DEF WinnerIsChosen, StateOnTimeline
  <2>2. CASE shown # NotRead
    <3>1. WinnerIsChosen
      BY Zenon, <1>1, <2>2 DEF ReadFrom
    <3>2. StateOnTimeline
      BY Zenon, <2>2, OneStepIsCurrent DEF ReadFrom, StateOnTimeline
    <3> QED  BY <3>1, <3>2
  <2> QED  BY <2>1, <2>2
<1>3. FeedAgreesWithDetail
  <2> DEFINE s == transformSummaryToDecision(row)
             d == transformDetailToDecision(row)
  <2>1. /\ Shows(s, row, 1) /\ s.chosen_action = row.chosen /\ s.erv_at_decision = row.erv
        /\ s.policy_result = row.verdict /\ s.recovery_state = row.state
    BY Zenon, SummaryMapped
  <2>2. /\ \E i \in Nat : Shows(d, row, i)
        /\ d.chosen_action = row.chosen /\ d.erv_at_decision = row.erv
        /\ d.policy_result = row.verdict /\ d.recovery_state = row.state
    BY Zenon, DetailMapped
  <2> HIDE DEF s, d
  <2>3. PICK i \in Nat : Shows(d, row, i)
    BY <2>2
  <2>4. Screen!selectedCandidate(d).policy_result = row.verdict
    BY Zenon, <2>3, SelectedIsMarked DEF Shows
  <2>5. s.candidate_actions[1].policy_result = row.verdict
    BY Zenon, <2>1 DEF Shows
  <2>6. <<s.chosen_action, s.erv_at_decision, s.policy_result, s.recovery_state>>
          = <<d.chosen_action, d.erv_at_decision, d.policy_result, d.recovery_state>>
    BY Zenon, <2>1, <2>2
  <2> QED  BY Zenon, <2>4, <2>5, <2>6 DEF FeedAgreesWithDetail, s, d
<1> QED  BY <1>2, <1>3

LEMMA EightCounted == Screen!Cardinality(1..8) = 8
<1>1. PICK a \in Int, b \in Int : a = 1 /\ b = 8
  OBVIOUS
<1>2. Cardinality(1..8) = 8
  <2>1. Cardinality(a..b) = IF a > b THEN 0 ELSE b - a + 1
    BY FS_Interval
  <2> QED  BY <1>1, <2>1
<1>3. Cardinality(1..8) = Screen!Cardinality(1..8)
  BY Zenon DEF Cardinality, Screen!Cardinality
<1> QED  BY <1>2, <1>3

\* A detail read of such a row shows the recovery it records, and no failed check.
LEMMA RecoveryIsShown ==
  ASSUME RowOK(row), NEW d, d = transformDetailToDecision(row)
  PROVE  /\ Screen!OutcomeNotice(d) = "RECOVERED" <=> row.state = "DONE"
         /\ Screen!StateLabel(d.recovery_state) = "Recovered" <=> row.state = "DONE"
         /\ row.state = "DONE" =>
              LET list == Screen!PolicyCheckList(d) IN list.passed = list.total
<1>1. /\ d.recovery_state = row.state /\ d.execution = "pending"
      /\ d.policy_checks = ChecksShown(row) /\ d.outcome = OutcomeShown(row)
  BY DetailMapped
<1>2. row.state \in Left
  BY DEF RowOK
<1>3. Screen!OutcomeNotice(d) = "RECOVERED" <=> row.state = "DONE"
  BY <1>1, <1>2 DEF Screen!OutcomeNotice, OutcomeShown, Screen!Outcome
<1>4. Screen!StateLabel(row.state) = "Recovered" <=> row.state = "DONE"
  BY <1>2 DEF Screen!StateLabel, Left
<1>5. ASSUME row.state = "DONE"
      PROVE  LET list == Screen!PolicyCheckList(d) IN list.passed = list.total
  <2> DEFINE checks == [i \in 1..8 |-> TRUE]
  <2>1. row.checks = checks
    BY <1>5 DEF RowOK
  <2>2. checks # <<>>
    <3>1. DOMAIN checks = 1..8 /\ 1 \in 1..8
      OBVIOUS
    <3> HIDE DEF checks
    <3> QED  BY <3>1
  <2>3. d.policy_checks = checks
    BY Zenon, <1>1, <2>1, <2>2 DEF ChecksShown
  <2>4. Len(checks) = 8 /\ {i \in DOMAIN checks : checks[i]} = 1..8
    OBVIOUS
  <2>5. Screen!Cardinality(1..8) = 8
    BY EightCounted
  <2> HIDE DEF checks
  <2> QED  BY <2>3, <2>4, <2>5 DEF Screen!PolicyCheckList
<1> QED  BY <1>1, <1>3, <1>4, <1>5

LEMMA LiveInitial == LiveInit => LiveInvariant
<1> SUFFICES ASSUME LiveInit PROVE LiveInvariant
  OBVIOUS
<1>1. PICK f \in Events, list \in Offers, erv \in Worths : row = Decided(f, list, erv)
  BY DEF LiveInit
<1>2. RowOK(row)
  BY <1>1, DecidedOK
<1>3. ReadFrom(row)
  BY DEF LiveInit, ReadFrom
<1> QED  BY <1>2, <1>3 DEF LiveInvariant

LEMMA LiveKept == LiveInvariant /\ [LiveNext]_live => LiveInvariant'
<1> SUFFICES ASSUME LiveInvariant, [LiveNext]_live PROVE LiveInvariant'
  OBVIOUS
<1>1. RowOK(row) /\ ReadFrom(row)
  BY DEF LiveInvariant
<1>2. ASSUME NEW states, states \subseteq Left, Move(states), row.state # "STOPPED"
      PROVE  LiveInvariant'
  <2>1. PICK s \in Left : row' = [row EXCEPT !.state = s] /\ shown' = shown
    BY <1>2 DEF Move
  <2>2. PICK after : after = row'
    OBVIOUS
  <2>3. /\ DOMAIN after = DOMAIN row /\ after.state = s /\ after.checks = row.checks
        /\ after.candidates = row.candidates /\ after.chosen = row.chosen
        /\ after.erv = row.erv /\ after.verdict = row.verdict
    BY <1>1, <2>1, <2>2 DEF RowOK
  <2>4. RowOK(after)
    BY <1>1, <1>2, <2>3 DEF RowOK, HasChoice
  <2>5. \A i : Shows(shown, row, i) => Shows(shown, after, i)
    BY <2>3 DEF Shows
  <2>6. ReadFrom(after)
    BY <1>1, <2>5 DEF ReadFrom
  <2>7. /\ RowOK(row')
        /\ shown # NotRead =>
             shown.recovery_state \in Left /\ \E i \in Nat : Shows(shown, row', i)
    BY <2>2, <2>4, <2>6 DEF ReadFrom
  <2> QED  BY <2>1, <2>7 DEF LiveInvariant, ReadFrom
<1>3. CASE Dispatch
  BY <1>2, <1>3 DEF Dispatch, Left
<1>4. CASE Settle
  BY <1>2, <1>4 DEF Settle, Left
<1>5. CASE getRecoveryFeed
  BY <1>1, <1>5, SummaryMapped DEF getRecoveryFeed, LiveInvariant, RowOK, ReadFrom
<1>6. CASE getDecisionDetail
  BY <1>1, <1>6, DetailMapped DEF getDecisionDetail, LiveInvariant, RowOK, ReadFrom
<1>7. CASE UNCHANGED live
  BY <1>1, <1>7 DEF live, LiveInvariant, RowOK, ReadFrom
<1> QED  BY <1>3, <1>4, <1>5, <1>6, <1>7 DEF LiveNext

\* What is shown changes by a read alone, and only one in detail has an execution.
LEMMA RecoveryStep ==
  LiveInvariant /\ [LiveNext]_live =>
    (shown' # shown /\ shown'.execution # "none" =>
       /\ Screen!OutcomeNotice(shown') = "RECOVERED" <=> row.state = "DONE"
       /\ Screen!StateLabel(shown'.recovery_state) = "Recovered" <=> row.state = "DONE"
       /\ row.state = "DONE" =>
            LET list == Screen!PolicyCheckList(shown') IN list.passed = list.total)
<1> SUFFICES ASSUME LiveInvariant, [LiveNext]_live, shown' # shown, shown'.execution # "none"
             PROVE  /\ Screen!OutcomeNotice(shown') = "RECOVERED" <=> row.state = "DONE"
                    /\ Screen!StateLabel(shown'.recovery_state) = "Recovered" <=> row.state = "DONE"
                    /\ row.state = "DONE" =>
                         LET list == Screen!PolicyCheckList(shown') IN list.passed = list.total
  OBVIOUS
<1>1. shown' = transformDetailToDecision(row)
  <2>1. transformSummaryToDecision(row).execution = "none"
    BY SummaryMapped
  <2> QED  BY <2>1 DEF LiveNext, live, Dispatch, Settle, Move, getRecoveryFeed, getDecisionDetail
<1>2. RowOK(row)
  BY DEF LiveInvariant
<1> QED  BY <1>1, <1>2, RecoveryIsShown

\* What the engine decided is what the screens show, of every decision: one candidate is
\* marked, the engine's choice; the feed and the detail agree; the timeline has one current
\* step; and a recovery is shown when it is recorded (http-client.ts, the components).
THEOREM ShownIsAsDecided == LiveSpec => ShownAsDecided
<1>1. LiveInvariant => WinnerIsChosen /\ FeedAgreesWithDetail /\ StateOnTimeline
  BY RowIsShown DEF LiveInvariant
<1> QED  BY <1>1, LiveInitial, LiveKept, RecoveryStep, PTL
         DEF LiveSpec, ShownAsDecided, RecoveryShownWhenDone
=============================================================================
