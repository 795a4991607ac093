--------------------------- MODULE RecoveryDomain ---------------------------
(***************************************************************************)
(* The shared vocabulary of the decision engine (internal/domain) and the  *)
(* recovery state machine's graph (internal/recovery).  Constant-level     *)
(* definitions only: every other module of the project extends this one.   *)
(***************************************************************************)
EXTENDS Naturals, Sequences

Action == {"retry", "delayed_retry", "alt_method", "payment_link",
           "notify", "escalate", "no_action"}

\* The actions that re-attempt the original charge and spend the retry budget.
IsRetry(a) == a \in {"retry", "delayed_retry"}

\* The out-of-band actions: neither dispatcher moves money for them.
OutOfBand == {"notify", "escalate"}

RootCause == {"temporary_bank_decline", "insufficient_funds", "expired_method",
              "checkout_abandonment", "chronic_failure", "fraud_suspected",
              "unknown"}

PolicyResult == {"ALLOW", "BLOCK", "HUMAN_REVIEW"}

RecoveryState == {"FAILED", "DIAGNOSED", "RECOVERY_ELIGIBLE",
                  "ACTION_SELECTED", "ACTION_PENDING", "RECOVERED",
                  "RE_EVALUATE", "STOPPED", "DONE"}

\* "pending" is an enum value no code path writes; LoadContext still counts it.
ActionStatus == {"pending", "pending_confirmation", "confirmed", "failed"}

-----------------------------------------------------------------------------
(* The legal transition graph of recovery/state.go.                        *)

transitions ==
  {<<"FAILED", "DIAGNOSED">>,                 <<"FAILED", "RE_EVALUATE">>,
   <<"DIAGNOSED", "RECOVERY_ELIGIBLE">>,      <<"DIAGNOSED", "STOPPED">>,
   <<"RECOVERY_ELIGIBLE", "ACTION_SELECTED">>, <<"RECOVERY_ELIGIBLE", "STOPPED">>,
   <<"ACTION_SELECTED", "ACTION_PENDING">>,   <<"ACTION_SELECTED", "STOPPED">>,
   <<"ACTION_SELECTED", "DONE">>,
   <<"ACTION_PENDING", "RECOVERED">>,         <<"ACTION_PENDING", "FAILED">>,
   <<"RECOVERED", "DONE">>,
   <<"RE_EVALUATE", "ACTION_SELECTED">>,      <<"RE_EVALUATE", "STOPPED">>}

CanTransition(from, to) == <<from, to>> \in transitions

Terminal(s) == \A t \in RecoveryState : ~CanTransition(s, t)

\* A path the in-memory Machine can have walked: MustTo panics on any other.
LegalPath(path) ==
  \A i \in 1 .. Len(path) - 1 : CanTransition(path[i], path[i + 1])
=============================================================================
