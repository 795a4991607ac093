--------------------------- MODULE PolicyTheorems ---------------------------
(***************************************************************************)
(* Lemmas about the operators of Policy, for every ranking, rule set and   *)
(* list of candidates.                                                     *)
(***************************************************************************)
EXTENDS Policy, FiniteSetTheorems, FunctionTheorems, SequenceTheorems,
        WellFoundedInduction, TLAPS

\* A non-empty set of naturals has the minimum Min picks.
LEMMA MinOfNat ==
  ASSUME NEW S \in SUBSET Nat, S # {}
  PROVE  Min(S) \in S /\ \A y \in S : Min(S) <= y
<1>1. PICK x \in S : \A y \in S : ~(<<y, x>> \in OpToRel(<, Nat))
  BY NatLessThanWellFounded, WFMin
<1>2. ASSUME NEW y \in S  PROVE x <= y
  <2>1. <<y, x>> \in Nat \X Nat /\ <<y, x>> \notin OpToRel(<, Nat)
    BY <1>1
  <2>2. ~(y < x)
    BY <2>1 DEF OpToRel
  <2> QED  BY <2>2
<1> QED
  BY <1>2 DEF Min

\* no_action flows through every rule: there is always a fallback to select.
LEMMA NoActionAllowed ==
  ASSUME NEW erv, NEW f, NEW r
  PROVE  Evaluate("no_action", erv, f, r) = "ALLOW"
<1> DEFINE fired == {i \in 1 .. Len(Rules) : Fires(Rules[i], "no_action", erv, f, r)}
<1>1. fired = {}
  BY Zenon DEF Fires
<1>2. Evaluate("no_action", erv, f, r) =
        IF fired = {} THEN "ALLOW"
          ELSE IF humanReview(Rules[Min(fired)], "no_action") THEN "HUMAN_REVIEW" ELSE "BLOCK"
  BY Zenon DEF Evaluate
<1> HIDE DEF fired
<1>3. humanReview(Rules[Min(fired)], "no_action") = FALSE
  BY DEF humanReview
<1> QED  BY <1>1, <1>2, <1>3

\* Evaluate answers with one of the three policy results.
LEMMA EvaluateType ==
  ASSUME NEW a, NEW erv, NEW f, NEW r
  PROVE  Evaluate(a, erv, f, r) \in PolicyResult
BY DEF Evaluate, PolicyResult

-----------------------------------------------------------------------------
\* Ranking is a stable sort: every candidate has a place, every place a candidate, and
\* whoever outranks another stands before it.
LEMMA RankSorts ==
  ASSUME NEW actions \in Seq(Action), NEW erv \in [Action -> Int]
  PROVE  /\ Rank(actions, erv) \in [1 .. Len(actions) -> Action]
         /\ \E pos \in [1 .. Len(actions) -> 1 .. Len(actions)] :
              /\ \A j \in 1 .. Len(actions) : Rank(actions, erv)[pos[j]] = actions[j]
              /\ \A n \in 1 .. Len(actions) : \E j \in 1 .. Len(actions) : pos[j] = n
              /\ \A i, j \in 1 .. Len(actions) : Outranks(actions, erv, i, j) => pos[i] < pos[j]
<1> DEFINE I == 1 .. Len(actions)
           ahead(j) == {i \in DOMAIN actions : Outranks(actions, erv, i, j)}
           pos == [j \in I |-> Cardinality(ahead(j)) + 1]
<1>1. /\ Len(actions) \in Nat /\ DOMAIN actions = I /\ IsFiniteSet(I)
      /\ Cardinality(I) = Len(actions)
      /\ \A j \in I : actions[j] \in Action /\ erv[actions[j]] \in Int
  <2>1. Len(actions) \in Nat /\ DOMAIN actions = I /\ \A j \in I : actions[j] \in Action
    BY LenProperties
  <2>2. IsFiniteSet(I) /\ Cardinality(I) = Len(actions)
    BY <2>1, FS_Interval
  <2> QED  BY <2>1, <2>2
<1> HIDE DEF I
<1>2. ASSUME NEW j \in I
      PROVE  /\ IsFiniteSet(ahead(j)) /\ Cardinality(ahead(j)) \in Nat
             /\ Cardinality(ahead(j)) < Len(actions)
  <2>1. ahead(j) \in SUBSET (I \ {j})
    BY <1>1 DEF Outranks
  <2>2. IsFiniteSet(I \ {j}) /\ Cardinality(I \ {j}) = Len(actions) - 1
    BY <1>1, FS_RemoveElement
  <2> HIDE DEF ahead
  <2>3. IsFiniteSet(ahead(j)) /\ Cardinality(ahead(j)) <= Len(actions) - 1
    BY <2>1, <2>2, FS_Subset
  <2> QED  BY <1>1, <2>3, FS_CardinalityType
<1>3. ASSUME NEW i \in I, NEW j \in I, Outranks(actions, erv, i, j)
      PROVE  Cardinality(ahead(i)) < Cardinality(ahead(j))
  <2>1. i \in ahead(j)
    BY <1>1, <1>3
  <2>2. ahead(i) \in SUBSET (ahead(j) \ {i})
    <3>1. ASSUME NEW k \in I, Outranks(actions, erv, k, i)
          PROVE  Outranks(actions, erv, k, j) /\ k # i
      BY <1>1, <1>3, <3>1 DEF Outranks, I
    <3> QED  BY <1>1, <3>1
  <2> HIDE DEF ahead
  <2>3. IsFiniteSet(ahead(j) \ {i}) /\ Cardinality(ahead(j) \ {i}) = Cardinality(ahead(j)) - 1
    BY <1>2, <2>1, FS_RemoveElement
  <2>4. Cardinality(ahead(i)) <= Cardinality(ahead(j) \ {i})
    BY <2>2, <2>3, FS_Subset
  <2> QED  BY <1>2, <2>3, <2>4
<1>4. ASSUME NEW i \in I, NEW j \in I, i # j
      PROVE  Cardinality(ahead(i)) # Cardinality(ahead(j))
  <2>1. Outranks(actions, erv, i, j) \/ Outranks(actions, erv, j, i)
    BY <1>1, <1>4 DEF Outranks, I
  <2>2. /\ Cardinality(ahead(i)) \in Nat /\ Cardinality(ahead(j)) \in Nat
        /\ \/ Cardinality(ahead(i)) < Cardinality(ahead(j))
           \/ Cardinality(ahead(j)) < Cardinality(ahead(i))
    BY <1>2, <1>3, <2>1
  <2> HIDE DEF ahead
  <2> QED  BY <2>2
<1> HIDE DEF ahead
<1>5. pos \in [I -> I]
  <2>1. \A j \in I : Cardinality(ahead(j)) + 1 \in I
    BY <1>1, <1>2 DEF I
  <2> QED  BY <2>1
<1>6. pos \in Injection(I, I)
  <2>1. ASSUME NEW i \in I, NEW j \in I, pos[i] = pos[j]
        PROVE  i = j
    <3>1. Cardinality(ahead(i)) + 1 = Cardinality(ahead(j)) + 1
      BY <2>1
    <3>2. Cardinality(ahead(i)) \in Nat /\ Cardinality(ahead(j)) \in Nat
      BY <1>2
    <3> QED  BY <3>1, <3>2, <1>4
  <2> HIDE DEF pos
  <2> QED  BY <1>5, <2>1 DEF Injection, IsInjective
<1>7. pos \in Surjection(I, I)
  <2> HIDE DEF pos
  <2> QED  BY <1>1, <1>6, FS_Injection
<1>8. ASSUME NEW n \in I
      PROVE  \E j \in DOMAIN actions : Cardinality(ahead(j)) = n - 1
  <2>1. PICK j \in I : pos[j] = n
    BY <1>7 DEF Surjection
  <2>2. Cardinality(ahead(j)) + 1 = n /\ Cardinality(ahead(j)) \in Nat
    BY <1>2, <2>1
  <2>3. Cardinality(ahead(j)) = n - 1
    BY <2>2
  <2> QED  BY <1>1, <2>3
<1>9. Rank(actions, erv) =
        [n \in I |-> actions[CHOOSE j \in DOMAIN actions : Cardinality(ahead(j)) = n - 1]]
  BY <1>1, Zenon DEF Rank, ahead
<1>10. Rank(actions, erv) \in [I -> Action]
  <2>1. ASSUME NEW n \in I
        PROVE  (CHOOSE j \in DOMAIN actions : Cardinality(ahead(j)) = n - 1) \in I
    BY <1>1, <1>8
  <2> QED  BY <1>1, <1>9, <2>1
<1>11. ASSUME NEW j \in I
       PROVE  Rank(actions, erv)[pos[j]] = actions[j]
  <2> DEFINE c == CHOOSE k \in DOMAIN actions : Cardinality(ahead(k)) = pos[j] - 1
  <2>1. pos[j] \in I
    BY <1>5
  <2>2. Cardinality(ahead(j)) \in Nat /\ pos[j] = Cardinality(ahead(j)) + 1
    BY <1>2
  <2>3. Cardinality(ahead(j)) = pos[j] - 1
    BY <2>2
  <2> HIDE DEF pos
  <2>4. c \in I /\ Cardinality(ahead(c)) = pos[j] - 1
    BY <1>1, <2>3
  <2>5. c = j
    BY <1>4, <2>3, <2>4
  <2> QED  BY <1>9, <2>1, <2>5
<1>12. ASSUME NEW i \in I, NEW j \in I, Outranks(actions, erv, i, j)
       PROVE  pos[i] < pos[j]
  <2>1. Cardinality(ahead(i)) < Cardinality(ahead(j))
    BY <1>3, <1>12
  <2>2. Cardinality(ahead(i)) \in Nat /\ Cardinality(ahead(j)) \in Nat
    BY <1>2
  <2>3. pos[i] = Cardinality(ahead(i)) + 1 /\ pos[j] = Cardinality(ahead(j)) + 1
    OBVIOUS
  <2> QED  BY <2>1, <2>2, <2>3
<1>13. \A n \in I : \E j \in I : pos[j] = n
  BY <1>7 DEF Surjection
<1> HIDE DEF pos
<1> QED
  BY <1>5, <1>10, <1>11, <1>12, <1>13 DEF I

\* Ranking is a permutation: no candidate is lost, none is ranked twice.
LEMMA RankPermutes ==
  ASSUME NEW actions \in Seq(Action), NEW erv \in [Action -> Int]
  PROVE  /\ Rank(actions, erv) \in [1 .. Len(actions) -> Action]
         /\ \A j \in 1 .. Len(actions) :
              \E n \in 1 .. Len(actions) : Rank(actions, erv)[n] = actions[j]
<1>1. PICK pos \in [1 .. Len(actions) -> 1 .. Len(actions)] :
        \A j \in 1 .. Len(actions) : Rank(actions, erv)[pos[j]] = actions[j]
  BY RankSorts
<1>2. ASSUME NEW j \in 1 .. Len(actions)
      PROVE  \E n \in 1 .. Len(actions) : Rank(actions, erv)[n] = actions[j]
  <2>1. pos[j] \in 1 .. Len(actions) /\ Rank(actions, erv)[pos[j]] = actions[j]
    BY <1>1
  <2> QED  BY <2>1
<1>3. Rank(actions, erv) \in [1 .. Len(actions) -> Action]
  BY RankSorts
<1> QED  BY <1>2, <1>3

-----------------------------------------------------------------------------
(* Selection.                                                              *)

\* Every list of candidates the pipeline ranks offers no_action.
LEMMA EnsureNoAction ==
  ASSUME NEW actions \in Seq(Action)
  PROVE  /\ ensureNoAction(actions) \in Seq(Action)
         /\ \E j \in 1 .. Len(ensureNoAction(actions)) :
              ensureNoAction(actions)[j] = "no_action"
<1>1. CASE Contains(actions, "no_action")
  BY <1>1 DEF ensureNoAction, Contains
<1>2. CASE ~Contains(actions, "no_action")
  <2>1. ensureNoAction(actions) = Append(actions, "no_action")
    BY <1>2 DEF ensureNoAction
  <2>2. /\ Append(actions, "no_action") \in Seq(Action)
        /\ Len(Append(actions, "no_action")) = Len(actions) + 1
        /\ Append(actions, "no_action")[Len(actions) + 1] = "no_action"
        /\ Len(actions) + 1 \in 1 .. Len(actions) + 1
    BY LenProperties DEF Action
  <2> QED  BY <2>1, <2>2
<1> QED  BY <1>1, <1>2

\* The selection is never empty, and the verdict it reports is the verdict of
\* the policy engine on the candidate it picks.
LEMMA SelectSound ==
  ASSUME NEW N \in Nat, NEW ranked \in [1 .. N -> Action],
         \E n \in 1 .. N : ranked[n] = "no_action",
         NEW erv, NEW f, NEW r
  PROVE  /\ Select(ranked, erv, f, r).action \in Action
         /\ Select(ranked, erv, f, r).verdict \in {"ALLOW", "HUMAN_REVIEW"}
         /\ LET a == Select(ranked, erv, f, r).action IN
              Evaluate(a, erv[a], f, r) = Select(ranked, erv, f, r).verdict
<1> DEFINE verdict(i) == Evaluate(ranked[i], erv[ranked[i]], f, r)
           having(v)  == {i \in DOMAIN ranked : verdict(i) = v}
           best(S)    == ranked[Min(S)]
           allow == having("ALLOW")
           human == having("HUMAN_REVIEW")
<1>1. allow \in SUBSET Nat /\ human \in SUBSET Nat
  OBVIOUS
<1>2. allow # {}
  BY NoActionAllowed
<1>3. Min(allow) \in allow
  BY <1>1, <1>2, MinOfNat
<1>4. best(allow) \in Action /\ Evaluate(best(allow), erv[best(allow)], f, r) = "ALLOW"
  BY <1>3
<1>5. ASSUME human # {}
      PROVE  best(human) \in Action /\ Evaluate(best(human), erv[best(human)], f, r) = "HUMAN_REVIEW"
  BY <1>1, <1>5, MinOfNat
<1>6. Select(ranked, erv, f, r) =
        IF human # {} /\ best(allow) = "no_action"
          THEN [action |-> best(human), verdict |-> "HUMAN_REVIEW"]
          ELSE [action |-> best(allow), verdict |-> "ALLOW"]
  BY DEF Select
<1> HIDE DEF allow, human, best
<1> QED  BY <1>4, <1>5, <1>6

\* The path the state machine walks is made of states and ends where it says.
LEMMA DecisionPathType ==
  ASSUME NEW choice, NEW f
  PROVE  LET path == decisionPath(choice, f) IN
         /\ path \in Seq(RecoveryState) /\ Len(path) > 0
         /\ Last(path) \in {"ACTION_SELECTED", "STOPPED"}
         /\ Last(path) = "ACTION_SELECTED" =>
              ~f.kill /\ ~f.globalKill /\ choice.verdict # "HUMAN_REVIEW" /\ choice.action # "no_action"
<1>1. CASE f.kill \/ f.globalKill \/ choice.verdict = "HUMAN_REVIEW"
  <2>1. decisionPath(choice, f) = <<"FAILED", "DIAGNOSED", "STOPPED">>
    BY <1>1 DEF decisionPath
  <2> QED  BY <2>1 DEF Last, RecoveryState
<1>2. CASE ~(f.kill \/ f.globalKill \/ choice.verdict = "HUMAN_REVIEW") /\ choice.action = "no_action"
  <2>1. decisionPath(choice, f) =
          <<"FAILED", "DIAGNOSED", "RECOVERY_ELIGIBLE", "ACTION_SELECTED", "STOPPED">>
    BY <1>2 DEF decisionPath
  <2> QED  BY <2>1 DEF Last, RecoveryState
<1>3. CASE ~(f.kill \/ f.globalKill \/ choice.verdict = "HUMAN_REVIEW") /\ choice.action # "no_action"
  <2>1. decisionPath(choice, f) =
          <<"FAILED", "DIAGNOSED", "RECOVERY_ELIGIBLE", "ACTION_SELECTED">>
    BY <1>3 DEF decisionPath
  <2> QED  BY <1>3, <2>1 DEF Last, RecoveryState
<1> QED  BY <1>1, <1>2, <1>3

\* An ALLOW means that no rule fired.
LEMMA AllowedFiresNothing ==
  ASSUME NEW a, NEW erv, NEW f, NEW r, Evaluate(a, erv, f, r) = "ALLOW"
  PROVE  \A i \in 1 .. Len(Rules) : ~Fires(Rules[i], a, erv, f, r)
<1> DEFINE fired == {i \in 1 .. Len(Rules) : Fires(Rules[i], a, erv, f, r)}
<1>1. Evaluate(a, erv, f, r) =
        IF fired = {} THEN "ALLOW"
          ELSE IF humanReview(Rules[Min(fired)], a) THEN "HUMAN_REVIEW" ELSE "BLOCK"
  BY Zenon DEF Evaluate
<1>2. fired = {}
  <2> HIDE DEF fired
  <2> QED  BY <1>1
<1> QED  BY <1>2, Zenon

\* With a kill switch on, every intervention is blocked.
LEMMA KillBlocks ==
  ASSUME NEW a, a # "no_action", NEW erv, NEW f, NEW r, f.kill \/ f.globalKill
  PROVE  Evaluate(a, erv, f, r) = "BLOCK"
<1> DEFINE fired == {i \in 1 .. Len(Rules) : Fires(Rules[i], a, erv, f, r)}
<1>0. Fires("kill_switch", a, erv, f, r)
  BY Zenon DEF Fires
<1>1. 1 \in fired /\ fired \in SUBSET Nat
  <2>1. 1 \in 1 .. Len(Rules) /\ Rules[1] = "kill_switch" /\ 1 .. Len(Rules) \subseteq Nat
    BY DEF Rules
  <2> QED  BY <1>0, <2>1, Zenon
<1>2. Min(fired) = 1
  <2>1. Min(fired) \in 1 .. Len(Rules) /\ Min(fired) <= 1
    BY <1>1, MinOfNat
  <2> HIDE DEF fired
  <2> QED  BY <2>1 DEF Rules
<1>3. ~humanReview(Rules[Min(fired)], a) /\ fired # {}
  BY <1>1, <1>2 DEF humanReview, Rules
<1>4. Evaluate(a, erv, f, r) =
        IF fired = {} THEN "ALLOW"
          ELSE IF humanReview(Rules[Min(fired)], a) THEN "HUMAN_REVIEW" ELSE "BLOCK"
  BY Zenon DEF Evaluate
<1> HIDE DEF fired
<1> QED  BY <1>3, <1>4

\* One event's decision: it has the types PersistDecision stores, its verdict is the
\* engine's on its action, a decision that goes on to dispatch carries a real action the
\* engine ALLOWed, and under a kill switch there is none.
LEMMA DecideSound ==
  ASSUME NEW candidates \in Seq(Action), NEW erv \in [Action -> Int], NEW f, NEW r
  PROVE  LET d == Decide(candidates, erv, f, r) IN
         /\ d.action \in Action /\ d.verdict \in {"ALLOW", "HUMAN_REVIEW"}
         /\ d.path \in Seq(RecoveryState) /\ Len(d.path) > 0 /\ d.state = Last(d.path)
         /\ d.path = decisionPath(d, f)
         /\ d.state \in {"ACTION_SELECTED", "STOPPED"}
         /\ Evaluate(d.action, erv[d.action], f, r) = d.verdict
         /\ d.state = "ACTION_SELECTED" =>
              ~f.kill /\ ~f.globalKill /\ d.action # "no_action" /\ d.verdict = "ALLOW"
         /\ f.kill \/ f.globalKill => d.action = "no_action"
         /\ d.state = "STOPPED" => d.verdict = "HUMAN_REVIEW" \/ d.action = "no_action"
<1> DEFINE actions == ensureNoAction(candidates)
           ranked  == Rank(actions, erv)
           choice  == Select(ranked, erv, f, r)
<1>1. actions \in Seq(Action) /\ \E j \in 1 .. Len(actions) : actions[j] = "no_action"
  BY EnsureNoAction
<1> HIDE DEF actions
<1>2. Len(actions) \in Nat
  BY <1>1, LenProperties
<1>3. /\ ranked \in [1 .. Len(actions) -> Action]
      /\ \E n \in 1 .. Len(actions) : ranked[n] = "no_action"
  <2> HIDE DEF ranked
  <2>1. /\ ranked \in [1 .. Len(actions) -> Action]
        /\ \A j \in 1 .. Len(actions) : \E n \in 1 .. Len(actions) : ranked[n] = actions[j]
    BY <1>1, RankPermutes, Zenon DEF ranked
  <2> QED  BY <1>1, <2>1, Zenon
<1> HIDE DEF ranked
<1>4. /\ choice.action \in Action /\ choice.verdict \in {"ALLOW", "HUMAN_REVIEW"}
      /\ Evaluate(choice.action, erv[choice.action], f, r) = choice.verdict
  BY <1>2, <1>3, SelectSound
<1> HIDE DEF choice
<1>5. Decide(candidates, erv, f, r) =
        [action |-> choice.action, verdict |-> choice.verdict,
         path |-> decisionPath(choice, f), state |-> Last(decisionPath(choice, f))]
  BY Zenon DEF Decide, choice, ranked, actions
<1> DEFINE d == Decide(candidates, erv, f, r)
<1>6. d.action = choice.action /\ d.verdict = choice.verdict /\ d.path = decisionPath(choice, f)
      /\ d.state = Last(d.path)
  BY <1>5
<1> HIDE DEF d
<1>7. d.path = decisionPath(d, f)
  BY <1>6 DEF decisionPath
<1>8. /\ d.path \in Seq(RecoveryState) /\ Len(d.path) > 0
      /\ d.state \in {"ACTION_SELECTED", "STOPPED"}
      /\ d.state = "ACTION_SELECTED" =>
           ~f.kill /\ ~f.globalKill /\ d.action # "no_action" /\ d.verdict = "ALLOW"
  BY <1>4, <1>6, DecisionPathType
<1>9. f.kill \/ f.globalKill => d.action = "no_action"
  BY <1>4, <1>6, KillBlocks
<1>10. ASSUME d.state = "STOPPED", d.verdict # "HUMAN_REVIEW", d.action # "no_action"
       PROVE  FALSE
  <2>1. decisionPath(d, f) = <<"FAILED", "DIAGNOSED", "RECOVERY_ELIGIBLE", "ACTION_SELECTED">>
    BY <1>9, <1>10 DEF decisionPath
  <2> QED  BY <1>6, <1>7, <1>10, <2>1 DEF Last
<1> QED  BY <1>4, <1>6, <1>7, <1>8, <1>9, <1>10 DEF d

-----------------------------------------------------------------------------
(* Selection: the first ALLOWed candidate, unless a human is asked.        *)

\* The first rule that fires decides.
LEMMA FirstRuleDecides ==
  ASSUME NEW a, NEW erv, NEW f, NEW r, NEW i \in 1 .. Len(Rules),
         Fires(Rules[i], a, erv, f, r),
         \A j \in 1 .. Len(Rules) : j < i => ~Fires(Rules[j], a, erv, f, r)
  PROVE  Evaluate(a, erv, f, r) = IF humanReview(Rules[i], a) THEN "HUMAN_REVIEW" ELSE "BLOCK"
<1> DEFINE fired == {j \in 1 .. Len(Rules) : Fires(Rules[j], a, erv, f, r)}
<1>1. i \in fired /\ fired \in SUBSET Nat
  <2>1. 1 .. Len(Rules) \subseteq Nat
    BY DEF Rules
  <2> QED  BY <2>1, Zenon
<1>2. \A j \in fired : j \in 1 .. Len(Rules) /\ ~(j < i)
  BY Zenon
<1>3. Evaluate(a, erv, f, r) =
        IF fired = {} THEN "ALLOW"
          ELSE IF humanReview(Rules[Min(fired)], a) THEN "HUMAN_REVIEW" ELSE "BLOCK"
  BY Zenon DEF Evaluate
<1> HIDE DEF fired
<1>4. Min(fired) \in fired /\ Min(fired) <= i
  BY <1>1, MinOfNat
<1>5. Min(fired) = i
  <2>1. Min(fired) \in Nat /\ i \in Nat
    BY <1>1, <1>4
  <2>2. ~(Min(fired) < i)
    BY <1>2, <1>4
  <2> QED  BY <1>4, <2>1, <2>2
<1> QED  BY <1>1, <1>3, <1>5

\* Exactly when the engine routes an action to a human.
LEMMA ReviewedWhen ==
  ASSUME NEW a, NEW erv, NEW f, NEW r
  PROVE  Evaluate(a, erv, f, r) = "HUMAN_REVIEW" <=>
           /\ a = "escalate" /\ ~f.kill /\ ~f.globalKill
           /\ \/ f.cause = "fraud_suspected"
              \/ /\ ~(f.confidence < r.confidenceFloor)
                 /\ r.amountCeiling > 0 /\ f.amount > r.amountCeiling
<1> DEFINE fires(i) == Fires(Rules[i], a, erv, f, r)
<1>0. /\ Len(Rules) = 8
      /\ Rules[1] = "kill_switch" /\ Rules[2] = "fraud_hard_stop" /\ Rules[3] = "confidence_floor"
      /\ Rules[4] = "amount_ceiling" /\ Rules[5] = "cooldown" /\ Rules[6] = "max_retries"
      /\ Rules[7] = "daily_action_cap" /\ Rules[8] = "min_erv"
  BY DEF Rules
<1>1. a = "escalate" =>
        /\ fires(1) <=> f.globalKill \/ f.kill
        /\ fires(2) <=> f.cause = "fraud_suspected"
        /\ fires(3) <=> f.confidence < r.confidenceFloor
        /\ fires(4) <=> r.amountCeiling > 0 /\ f.amount > r.amountCeiling
  BY <1>0 DEF Fires
<1>2. \A i \in 1 .. 8 : humanReview(Rules[i], a) <=> a = "escalate" /\ i \in {2, 4}
  BY <1>0 DEF humanReview
<1>3. \A i \in 1 .. 8 :
        fires(i) /\ (\A j \in 1 .. 8 : j < i => ~fires(j)) =>
          Evaluate(a, erv, f, r) = IF humanReview(Rules[i], a) THEN "HUMAN_REVIEW" ELSE "BLOCK"
  BY <1>0, FirstRuleDecides
<1>4. (\A i \in 1 .. 8 : ~fires(i)) => Evaluate(a, erv, f, r) = "ALLOW"
  <2> DEFINE fired == {i \in 1 .. Len(Rules) : Fires(Rules[i], a, erv, f, r)}
  <2>1. Evaluate(a, erv, f, r) =
          IF fired = {} THEN "ALLOW"
            ELSE IF humanReview(Rules[Min(fired)], a) THEN "HUMAN_REVIEW" ELSE "BLOCK"
    BY Zenon DEF Evaluate
  <2>2. (\A i \in 1 .. 8 : ~fires(i)) => fired = {}
    BY <1>0
  <2> HIDE DEF fired, fires
  <2> QED  BY <2>1, <2>2
<1> HIDE DEF fires
<1>5. (\E i \in 1 .. 8 : fires(i)) =>
        \E i \in 1 .. 8 : fires(i) /\ \A j \in 1 .. 8 : j < i => ~fires(j)
  BY DEF fires
<1>6. Evaluate(a, erv, f, r) = "HUMAN_REVIEW" <=>
        /\ a = "escalate" /\ ~fires(1)
        /\ fires(2) \/ (~fires(3) /\ fires(4))
  BY <1>2, <1>3, <1>4, <1>5
<1> QED  BY <1>1, <1>6

\* s selects from the N ranked candidates as its first ALLOWed one, n, has it.
SelectsBy(n, s, N, ranked, erv, f, r) ==
  LET verdict(i) == Evaluate(ranked[i], erv[ranked[i]], f, r)
      asked      == \E h \in 1 .. N : verdict(h) = "HUMAN_REVIEW"
  IN /\ verdict(n) = "ALLOW" /\ \A k \in 1 .. N : verdict(k) = "ALLOW" => n <= k
     /\ asked /\ ranked[n] = "no_action" =>
          s.verdict = "HUMAN_REVIEW" /\ \E h \in 1 .. N :
            verdict(h) = "HUMAN_REVIEW" /\ s.action = ranked[h]
     /\ ~(asked /\ ranked[n] = "no_action") => s.verdict = "ALLOW" /\ s.action = ranked[n]

\* The selection is the first ALLOWed candidate of the ranking, unless that is
\* no_action and the engine routed some candidate to a human.
LEMMA SelectFirst ==
  ASSUME NEW N \in Nat, NEW ranked \in [1 .. N -> Action],
         \E n \in 1 .. N : ranked[n] = "no_action",
         NEW erv, NEW f, NEW r
  PROVE  \E n \in 1 .. N : SelectsBy(n, Select(ranked, erv, f, r), N, ranked, erv, f, r)
<1> DEFINE verdict(i) == Evaluate(ranked[i], erv[ranked[i]], f, r)
           having(v)  == {i \in DOMAIN ranked : verdict(i) = v}
           best(S)    == ranked[Min(S)]
           allow == having("ALLOW")
           human == having("HUMAN_REVIEW")
<1>1. /\ allow \in SUBSET Nat /\ human \in SUBSET Nat
      /\ \A k : k \in allow <=> k \in 1 .. N /\ verdict(k) = "ALLOW"
      /\ \A k : k \in human <=> k \in 1 .. N /\ verdict(k) = "HUMAN_REVIEW"
  OBVIOUS
<1>2. allow # {}
  BY NoActionAllowed
<1>3. Select(ranked, erv, f, r) =
        IF human # {} /\ best(allow) = "no_action"
          THEN [action |-> best(human), verdict |-> "HUMAN_REVIEW"]
          ELSE [action |-> best(allow), verdict |-> "ALLOW"]
  BY DEF Select
<1> HIDE DEF allow, human, verdict
<1>4. Min(allow) \in allow /\ \A k \in allow : Min(allow) <= k
  BY <1>1, <1>2, MinOfNat
<1>5. human # {} => Min(human) \in human
  BY <1>1, MinOfNat
<1> DEFINE n == Min(allow)
           s == Select(ranked, erv, f, r)
<1>6. n \in 1 .. N /\ verdict(n) = "ALLOW" /\ \A k \in 1 .. N : verdict(k) = "ALLOW" => n <= k
  BY <1>1, <1>4
<1>7. human # {} /\ ranked[n] = "no_action" =>
        s.verdict = "HUMAN_REVIEW" /\ \E h \in 1 .. N : verdict(h) = "HUMAN_REVIEW" /\ s.action = ranked[h]
  BY <1>1, <1>3, <1>5
<1>8. ~(human # {} /\ ranked[n] = "no_action") => s.verdict = "ALLOW" /\ s.action = ranked[n]
  BY <1>3
<1> HIDE DEF n, s
<1>9. human # {} <=> \E h \in 1 .. N : verdict(h) = "HUMAN_REVIEW"
  BY <1>1
<1>10. \E k \in 1 .. N :
         /\ verdict(k) = "ALLOW" /\ \A j \in 1 .. N : verdict(j) = "ALLOW" => k <= j
         /\ (\E h \in 1 .. N : verdict(h) = "HUMAN_REVIEW") /\ ranked[k] = "no_action" =>
              s.verdict = "HUMAN_REVIEW" /\ \E h \in 1 .. N :
                verdict(h) = "HUMAN_REVIEW" /\ s.action = ranked[h]
         /\ ~((\E h \in 1 .. N : verdict(h) = "HUMAN_REVIEW") /\ ranked[k] = "no_action") =>
              s.verdict = "ALLOW" /\ s.action = ranked[k]
  BY <1>6, <1>7, <1>8, <1>9
<1> QED  BY <1>10 DEF verdict, s, SelectsBy

\* Offering no_action moves no candidate and adds nothing else.
LEMMA EnsureKeeps ==
  ASSUME NEW c \in Seq(Action)
  PROVE  /\ \A j \in 1 .. Len(c) : j \in 1 .. Len(ensureNoAction(c)) /\ ensureNoAction(c)[j] = c[j]
         /\ \A j \in 1 .. Len(ensureNoAction(c)) :
              ensureNoAction(c)[j] # "no_action" => j \in 1 .. Len(c)
<1>1. CASE Contains(c, "no_action")
  BY <1>1 DEF ensureNoAction
<1>2. CASE ~Contains(c, "no_action")
  <2>1. ensureNoAction(c) = Append(c, "no_action")
    BY <1>2 DEF ensureNoAction
  <2>2. /\ Len(c) \in Nat /\ Len(Append(c, "no_action")) = Len(c) + 1
        /\ Append(c, "no_action")[Len(c) + 1] = "no_action"
        /\ \A j \in 1 .. Len(c) : Append(c, "no_action")[j] = c[j]
    BY LenProperties DEF Action
  <2> QED  BY <2>1, <2>2
<1> QED  BY <1>1, <1>2

\* A sequence's set holds what stands at its positions.
LEMMA ToSetOfSeq ==
  ASSUME NEW c \in Seq(Action), NEW a
  PROVE  a \in ToSet(c) <=> \E j \in 1 .. Len(c) : c[j] = a
<1>1. DOMAIN c = 1 .. Len(c)
  BY LenProperties
<1>2. ToSet(c) = {c[j] : j \in DOMAIN c}
  BY DEF ToSet
<1> QED  BY <1>1, <1>2

\* d is the decision that actions[i] leads to: ALLOWed, outranked by no other
\* ALLOWed candidate, and replaced by one a human must see when it is no_action.
DecidesBy(i, d, actions, erv, f, r) ==
  LET v(a)  == Evaluate(a, erv[a], f, r)
      asked == \E j \in 1 .. Len(actions) : v(actions[j]) = "HUMAN_REVIEW"
  IN /\ v(actions[i]) = "ALLOW"
     /\ \A j \in 1 .. Len(actions) : v(actions[j]) = "ALLOW" => ~Outranks(actions, erv, j, i)
     /\ asked /\ actions[i] = "no_action" =>
          d.verdict = "HUMAN_REVIEW" /\ v(d.action) = "HUMAN_REVIEW"
     /\ ~(asked /\ actions[i] = "no_action") => d.verdict = "ALLOW" /\ d.action = actions[i]

\* Every decision is the one some candidate leads to.
LEMMA DecideFirst ==
  ASSUME NEW c \in Seq(Action), NEW erv \in [Action -> Int], NEW f, NEW r
  PROVE  \E i \in 1 .. Len(ensureNoAction(c)) :
           DecidesBy(i, Decide(c, erv, f, r), ensureNoAction(c), erv, f, r)
<1> DEFINE actions == ensureNoAction(c)
           v(a)    == Evaluate(a, erv[a], f, r)
           I       == 1 .. Len(actions)
           ranked  == Rank(actions, erv)
           choice  == Select(ranked, erv, f, r)
           d       == Decide(c, erv, f, r)
           asked   == \E j \in I : v(actions[j]) = "HUMAN_REVIEW"
<1>1. actions \in Seq(Action) /\ \E j \in I : actions[j] = "no_action"
  BY EnsureNoAction
<1>2. d = [action |-> choice.action, verdict |-> choice.verdict,
           path |-> decisionPath(choice, f), state |-> Last(decisionPath(choice, f))]
  BY Zenon DEF Decide
<1>3. d.action = choice.action /\ d.verdict = choice.verdict
  BY <1>2
<1> HIDE DEF actions, d
<1>4. Len(actions) \in Nat
  BY <1>1, LenProperties
<1>5. PICK pos \in [I -> I] :
        /\ \A j \in I : ranked[pos[j]] = actions[j]
        /\ \A n \in I : \E j \in I : pos[j] = n
        /\ \A i, j \in I : Outranks(actions, erv, i, j) => pos[i] < pos[j]
  BY <1>1, RankSorts
<1>6. ranked \in [I -> Action] /\ \E n \in I : ranked[n] = "no_action"
  <2> HIDE DEF ranked
  <2>1. ranked \in [I -> Action] /\ \A j \in I : \E n \in I : ranked[n] = actions[j]
    BY <1>1, RankPermutes, Zenon DEF ranked
  <2> QED  BY <1>1, <2>1, Zenon
<1> HIDE DEF ranked
<1>7. PICK n \in I :
        /\ v(ranked[n]) = "ALLOW" /\ \A k \in I : v(ranked[k]) = "ALLOW" => n <= k
        /\ (\E h \in I : v(ranked[h]) = "HUMAN_REVIEW") /\ ranked[n] = "no_action" =>
             choice.verdict = "HUMAN_REVIEW" /\ \E h \in I :
               v(ranked[h]) = "HUMAN_REVIEW" /\ choice.action = ranked[h]
        /\ ~((\E h \in I : v(ranked[h]) = "HUMAN_REVIEW") /\ ranked[n] = "no_action") =>
             choice.verdict = "ALLOW" /\ choice.action = ranked[n]
  <2>1. PICK n \in I : SelectsBy(n, choice, Len(actions), ranked, erv, f, r)
    BY <1>4, <1>6, SelectFirst
  <2> HIDE DEF choice
  <2> QED  BY <2>1 DEF SelectsBy
<1> HIDE DEF choice, v
<1>8. PICK i \in I : pos[i] = n
  BY <1>5
<1>9. ranked[n] = actions[i]
  BY <1>5, <1>8
<1>10. asked <=> \E h \in I : v(ranked[h]) = "HUMAN_REVIEW"
  <2>1. ASSUME NEW j \in I, v(actions[j]) = "HUMAN_REVIEW"
        PROVE  \E h \in I : v(ranked[h]) = "HUMAN_REVIEW"
    <3>1. pos[j] \in I /\ ranked[pos[j]] = actions[j]
      BY <1>5
    <3> QED  BY <2>1, <3>1
  <2>2. ASSUME NEW h \in I, v(ranked[h]) = "HUMAN_REVIEW"
        PROVE  asked
    <3>1. PICK j \in I : pos[j] = h
      BY <1>5
    <3>2. ranked[h] = actions[j]
      BY <1>5, <3>1
    <3> QED  BY <2>2, <3>2
  <2> QED  BY <2>1, <2>2
<1>11. ASSUME NEW j \in I, v(actions[j]) = "ALLOW"
       PROVE  ~Outranks(actions, erv, j, i)
  <2>1. pos[j] \in I /\ v(ranked[pos[j]]) = "ALLOW"
    BY <1>5, <1>11
  <2>2. n <= pos[j] /\ pos[j] \in Int /\ n \in Int
    BY <1>7, <2>1
  <2> QED  BY <1>5, <1>8, <2>2
<1>12. v(actions[i]) = "ALLOW"
  BY <1>7, <1>9
<1>13. asked /\ actions[i] = "no_action" => d.verdict = "HUMAN_REVIEW" /\ v(d.action) = "HUMAN_REVIEW"
  BY <1>3, <1>7, <1>9, <1>10
<1>14. ~(asked /\ actions[i] = "no_action") => d.verdict = "ALLOW" /\ d.action = actions[i]
  BY <1>3, <1>7, <1>9, <1>10
<1>15. DecidesBy(i, d, actions, erv, f, r)
  BY <1>11, <1>12, <1>13, <1>14 DEF v, DecidesBy
<1> QED  BY <1>15 DEF d, actions
=============================================================================
