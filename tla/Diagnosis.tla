----------------------------- MODULE Diagnosis -----------------------------
(***************************************************************************)
(* How an event gets its diagnosis, and what Process makes of it: the      *)
(* rule table (internal/diagnosis), the client of the diagnosis service    *)
(* with its fallback to that table (diagnosis/llm), and the decision of    *)
(* Policy.  The service is a place answers come from, well formed or not.  *)
(*                                                                         *)
(* A failure reason is the set of word groups containsAny finds in it;     *)
(* confidences are thousandths; an answer says whether its version and its *)
(* mandatory texts are in order, and what it holds.                        *)
(***************************************************************************)
EXTENDS Policy

CONSTANTS
  Attempts,   \* the prior attempts an event may report
  Contexts,   \* what LoadContext reads of its merchant, customer and payment
  Policies,   \* limits of a merchant, resolved
  Scores,     \* tables of ERVs
  Answers,    \* bodies the service may answer with
  NoAnswer    \* it is down, too late, or answers an error or no JSON

ASSUME DiagnosisAssumption ==
  /\ Attempts \subseteq Nat /\ Scores \subseteq [Action -> Int]
  /\ \A out \in Answers : out.confidence \in Int /\ out.candidates \in Seq(STRING)

VARIABLES
  step,       \* where the run of Process is
  failure,    \* the event: its Input, and what else decides it
  answer,     \* what the service answered
  diagnosis,
  choice

diagnosed == <<step, failure, answer, diagnosis, choice>>

Word == {"fraud", "insufficient", "expired", "declined"}
chronicAttemptFloor == 3

-----------------------------------------------------------------------------
(* The rule table.                                                         *)

diag(cause, confidence, actions) ==
  [cause |-> cause, confidence |-> confidence, candidates |-> actions,
   source |-> "rule_based_fallback"]

table(in) ==
  <<[when |-> "fraud" \in in.reason,
     gives |-> diag("fraud_suspected", 700, <<"escalate", "no_action">>)],
    [when |-> in.abandoned,
     gives |-> diag("checkout_abandonment", 800, <<"payment_link", "notify", "no_action">>)],
    [when |-> "insufficient" \in in.reason,
     gives |-> diag("insufficient_funds", 750, <<"delayed_retry", "notify", "no_action">>)],
    [when |-> "expired" \in in.reason,
     gives |-> diag("expired_method", 800, <<"alt_method", "payment_link", "notify", "no_action">>)],
    [when |-> in.priorAttempts >= chronicAttemptFloor,
     gives |-> diag("chronic_failure", 650, <<"notify", "escalate", "no_action">>)],
    [when |-> "declined" \in in.reason,
     gives |-> diag("temporary_bank_decline", 600, <<"delayed_retry", "retry", "notify", "no_action">>)],
    [when |-> TRUE,
     gives |-> diag("unknown", 300, <<"notify", "no_action">>)]>>

\* Mutant of Diagnose: the generic decline is matched before the repeated failures.
DeclinesFirst(in) ==
  LET t == table(in)
  IN IF t[6].when /\ ~t[1].when THEN t[6].gives
     ELSE t[Min({i \in DOMAIN t : t[i].when})].gives

\* The first rule that matches.
Diagnose(in) ==
  LET t == table(in) IN t[Min({i \in DOMAIN t : t[i].when})].gives

-----------------------------------------------------------------------------
(* The client.                                                             *)

\* A list without its repetitions: actions[n] is that of the first n.
distinct(list) ==
  LET actions[n \in 0..Len(list)] ==
        IF n = 0 THEN <<>>
        ELSE IF Contains(actions[n - 1], list[n]) THEN actions[n - 1]
        ELSE Append(actions[n - 1], list[n])
  IN actions[Len(list)]

\* validate: the contract.
valid(out) ==
  /\ out.version /\ out.rootCause \in RootCause
  /\ out.confidence >= 0 /\ out.confidence <= 1000
  /\ out.rationale /\ out.model
  /\ out.candidates # <<>> /\ ToSet(out.candidates) \subseteq Action

validate(out) ==
  [cause |-> out.rootCause, confidence |-> out.confidence, source |-> "llm",
   candidates |-> distinct(out.candidates)]

\* Any failure, or any breach of the contract, is answered by the table.
llmDiagnose(in, out) ==
  IF out # NoAnswer /\ valid(out) THEN validate(out) ELSE Diagnose(in)

-----------------------------------------------------------------------------
DiagnosisInit ==
  /\ step = "loaded"
  /\ failure \in [abandoned : BOOLEAN, reason : SUBSET Word, priorAttempts : Attempts,
                  context : Contexts, limits : Policies, erv : Scores]
  /\ answer = NoAnswer
  /\ diagnosis = Diagnose(failure)
  /\ choice = [action |-> "no_action"]

\* The default diagnoser.
DiagnoseByTable ==
  /\ step = "loaded"
  /\ diagnosis' = Diagnose(failure)
  /\ step' = "diagnosed"
  /\ UNCHANGED <<failure, answer, choice>>

\* The service's, which answers as it likes, or not at all.
DiagnoseByService ==
  /\ step = "loaded"
  /\ \E out \in Answers \cup {NoAnswer} :
       answer' = out /\ diagnosis' = llmDiagnose(failure, out)
  /\ step' = "diagnosed"
  /\ UNCHANGED <<failure, choice>>

\* The rest of Process up to its decision.
facts ==
  LET loaded == failure.context
  IN [retries |-> loaded.retries, hasPriorRetry |-> loaded.hasPriorRetry, sinceRetry |-> loaded.sinceRetry,
      actionsToday |-> loaded.actionsToday, kill |-> loaded.kill, globalKill |-> loaded.globalKill,
      amount |-> loaded.amount, priorAttempts |-> failure.priorAttempts,
      cause |-> diagnosis.cause, confidence |-> diagnosis.confidence]

ProcessDiagnosis ==
  /\ step = "diagnosed"
  /\ choice' = Decide(diagnosis.candidates, failure.erv, facts, failure.limits)
  /\ step' = "decided"
  /\ UNCHANGED <<failure, answer, diagnosis>>

DiagnosisNext == DiagnoseByTable \/ DiagnoseByService \/ ProcessDiagnosis

DiagnosisSpec == DiagnosisInit /\ [][DiagnosisNext]_diagnosed

-----------------------------------------------------------------------------
\* Whatever the diagnosis service answers, or does not, Process goes on with a diagnosis of
\* the contract, the service's whole or the table's whole; and when it is the table's, nothing
\* is dispatched that its order of rules rules out: a fraud reason goes to a human whatever
\* else it says, a payment that keeps failing is not retried for a passing decline, and an
\* event nobody recognises gets a notification at most.
DiagnosisIsSafe ==
  LET in == failure  d == diagnosis  a == choice.action
      fallback == d.source = "rule_based_fallback"
      killed == in.context.kill \/ in.context.globalKill
  IN /\ d.cause \in RootCause /\ d.confidence \in 0 .. 1000
     /\ d.candidates # <<>> /\ IsInjective(d.candidates) /\ ToSet(d.candidates) \subseteq Action
     /\ ~fallback => /\ ToSet(d.candidates) = ToSet(answer.candidates)
                     /\ d.cause = answer.rootCause /\ d.confidence = answer.confidence
     /\ step = "decided" /\ fallback =>
          /\ "fraud" \in in.reason => choice.verdict = "HUMAN_REVIEW" \/ killed
          /\ IsRetry(a) => /\ "fraud" \notin in.reason /\ ~in.abandoned
                           /\ "insufficient" \notin in.reason =>
                                in.reason = {"declined"} /\ in.priorAttempts < chronicAttemptFloor
          /\ in.reason = {} /\ ~in.abandoned /\ in.priorAttempts < chronicAttemptFloor
               => a \in {"notify", "no_action"}
=============================================================================
