----------------------------- MODULE MCRecovery -----------------------------
(* Values for the constants of Recovery on small instances. *)
EXTENDS RecoveryProperties, TLC

CONSTANTS e1, e2, x1, x2, p1, cust, m1

OnePayment == [e \in Event |-> p1]
OneMerchant == [p \in Payment |-> m1]
OneCustomer == [p \in Payment |-> cust]
Rupees == [p \in Payment |-> 1000]
FirstAttempt == [e \in Event |-> 0]

\* A permissive merchant: the rules under test are the ones the facts trip.
Lenient == [m \in Merchant |->
  [maxRetries |-> 1, cooldown |-> 0, minERV |-> 0, dailyCap |-> 0,
   amountCeiling |-> 0, confidenceFloor |-> NoOverride]]

\* Two retries, two ticks apart.
Spaced == [m \in Merchant |-> [Lenient[m] EXCEPT !.maxRetries = 2, !.cooldown = 2]]

Platform == [maxRetriesCeiling |-> 5, minCooldown |-> 0, maxDailyCap |-> 0,
             maxAmountCeiling |-> 0, confidenceFloor |-> 400]

\* ERVs in the rules' usual order: a retry beats a nudge beats an escalation.
UsualScores ==
  {[a \in Action |-> CASE a = "retry" -> 400 [] a = "delayed_retry" -> 500
                       [] a = "alt_method" -> 450 [] a = "payment_link" -> 350
                       [] a = "notify" -> 200 [] a = "escalate" -> 100
                       [] OTHER -> 0]}

Transient == [cause |-> "temporary_bank_decline", confidence |-> 600,
              candidates |-> <<"retry", "notify", "no_action">>]
Fraud     == [cause |-> "fraud_suspected", confidence |-> 700,
              candidates |-> <<"escalate", "no_action">>]

TransientOrFraud == {Transient, Fraud}
OnlyTransient == {Transient}
=============================================================================
