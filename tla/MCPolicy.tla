------------------------------ MODULE MCPolicy ------------------------------
(***************************************************************************)
(* The decision plane of three sides: the policy engine over the           *)
(* boundaries of every rule, the diagnosis over every failure reason and   *)
(* kind of answer, and a decision as the console shows it.  A behaviour is *)
(* of one side, which running names.                                       *)
(***************************************************************************)
EXTENDS PolicyCases, Diagnosis, LiveDecision

VARIABLE running

\* Below, at and above each platform limit; 0 and NoOverride for "not set".
Rows ==
  [maxRetries : {1, 5}, cooldown : {0, 10}, minERV : {0}, dailyCap : {0, 1, 3},
   amountCeiling : {0, 500, 2000}, confidenceFloor : {NoOverride, 200, 700}]

Limits ==
  {[maxRetriesCeiling |-> 3, minCooldown |-> 5, maxDailyCap |-> 2,
    maxAmountCeiling |-> 1000, confidenceFloor |-> 400],
   [maxRetriesCeiling |-> 0, minCooldown |-> 0, maxDailyCap |-> 0,
    maxAmountCeiling |-> 0, confidenceFloor |-> 400]}

\* The diagnosis with its confidence, and the retries with the time since the
\* last: what the rules read, at its boundaries.
Retried == {<<0, FALSE, 0>>, <<1, TRUE, 4>>, <<1, TRUE, 10>>, <<3, TRUE, 12>>}
Diagnosed == {<<"temporary_bank_decline", 600>>, <<"temporary_bank_decline", 700>>,
              <<"unknown", 399>>, <<"fraud_suspected", 300>>}

Cases ==
  {[retries |-> t[1], hasPriorRetry |-> t[2], sinceRetry |-> t[3],
    actionsToday |-> n, kill |-> k, globalKill |-> FALSE, priorAttempts |-> 0,
    amount |-> x, cause |-> d[1], confidence |-> d[2]] :
      t \in Retried, d \in Diagnosed, n \in {0, 1, 2}, k \in BOOLEAN, x \in {500, 1001}}

\* A transient decline, an expired method, an answer without no_action.
Lists == {<<"delayed_retry", "retry", "notify", "no_action">>,
          <<"alt_method", "payment_link", "notify", "no_action">>,
          <<"escalate", "retry">>}

\* Two orders, one with ties and one with an action not worth its cost.
Values ==
  {[a \in Action |-> CASE a = "retry" -> 400 [] a = "escalate" -> 100
                       [] a = "no_action" -> 0 [] OTHER -> 200],
   [a \in Action |-> CASE a = "retry" -> 100 [] a = "delayed_retry" -> -50
                       [] a = "escalate" -> 300 [] a = "notify" -> 400 [] OTHER -> 0]}

-----------------------------------------------------------------------------
\* Answers: a diagnosis that repeats itself, a lone retry, and one per breach of the contract.
Silence == [version |-> FALSE]
Answer ==
  [version |-> TRUE, rootCause |-> "temporary_bank_decline", confidence |-> 900,
   rationale |-> TRUE, model |-> TRUE, candidates |-> <<"retry", "notify", "retry", "escalate">>]
Bodies ==
  {Answer, [Answer EXCEPT !.candidates = <<"retry">>],
   [Answer EXCEPT !.rootCause = "unknown", !.confidence = 0],
   [Answer EXCEPT !.version = FALSE], [Answer EXCEPT !.rootCause = "bad_luck"],
   [Answer EXCEPT !.confidence = 1001], [Answer EXCEPT !.confidence = -1],
   [Answer EXCEPT !.rationale = FALSE], [Answer EXCEPT !.model = FALSE],
   [Answer EXCEPT !.candidates = <<>>], [Answer EXCEPT !.candidates = <<"retry", "refund">>]}

Loaded ==
  {[retries |-> 0, hasPriorRetry |-> FALSE, sinceRetry |-> 0, actionsToday |-> 0,
    kill |-> k, globalKill |-> g, amount |-> x] : k, g \in BOOLEAN, x \in {500, 2000}}

Binding ==
  {ResolveMerchantPolicy([maxRetries |-> 5, cooldown |-> 5, minERV |-> 0, dailyCap |-> 0,
                          amountCeiling |-> 1000, confidenceFloor |-> NoOverride], p) : p \in Limits}

PriorAttempts == {0, 2, 3}

-----------------------------------------------------------------------------
\* Events on both sides of the rules that matter to what is shown.
MerchantLimits ==
  [maxRetries |-> 3, cooldown |-> 5, minERV |-> 0, dailyCap |-> 2, amountCeiling |-> 1000,
   confidenceFloor |-> 400]

Happenings ==
  {[retries |-> 0, hasPriorRetry |-> FALSE, sinceRetry |-> 0, actionsToday |-> n,
    kill |-> k, globalKill |-> FALSE, priorAttempts |-> attempts, amount |-> x,
    cause |-> c, confidence |-> 700] :
     n \in {0, 2}, k \in BOOLEAN, attempts \in {0, 3}, x \in {500, 1001},
     c \in {"temporary_bank_decline", "fraud_suspected"}}

all == <<running, vars, diagnosed, live>>

\* The sides that do not run: nothing decided, diagnosed or shown.
NothingDecided == decision = Undecided /\ input = [m |-> CHOOSE m \in Rows : TRUE]
NothingDiagnosed ==
  /\ failure = [reason |-> {}, abandoned |-> FALSE, priorAttempts |-> 0]
  /\ step = "loaded" /\ answer = NoAnswer /\ diagnosis = Diagnose(failure)
  /\ choice = [action |-> "no_action"]
NothingShown ==
  /\ row = Decided(CHOOSE f \in Events : TRUE, CHOOSE c \in Offers : TRUE, CHOOSE v \in Worths : TRUE)
  /\ shown = NotRead

Start ==
  \/ running = "policy" /\ Init /\ NothingDiagnosed /\ NothingShown
  \/ running = "diagnosis" /\ DiagnosisInit /\ NothingDecided /\ NothingShown
  \/ running = "live" /\ LiveInit /\ NothingDecided /\ NothingDiagnosed

Step ==
  \/ running = "policy" /\ Process /\ UNCHANGED <<running, diagnosed, live>>
  \/ running = "diagnosis" /\ DiagnosisNext /\ UNCHANGED <<running, vars, live>>
  \/ running = "live" /\ LiveNext /\ UNCHANGED <<running, vars, diagnosed>>

Behaviours == Start /\ [][Step]_all
=============================================================================
