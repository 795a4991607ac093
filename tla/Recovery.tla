------------------------------ MODULE Recovery ------------------------------
(***************************************************************************)
(* The recovery slice of the decision engine, from the webhook to the      *)
(* settled outcome: ingest.NewHandler, pipeline.Process, the executor,     *)
(* /internal/execute-action, the reconciler and the kill switch, over the  *)
(* PostgreSQL tables they share.  Each step below is one store transaction *)
(* or one external call: between two steps any other handler may run, the  *)
(* handler's context may expire, the database may fail and the process may *)
(* crash.                                                                  *)
(*                                                                         *)
(* A payment event has at most one pipeline run, hence at most one         *)
(* decision, so the event names its row in payment_events, its row in      *)
(* decisions and the handler that processes it.                            *)
(***************************************************************************)
EXTENDS Policy

CONSTANTS
  Event,          \* webhook events; each stands for one external_event_id
  Caller,         \* requests to /internal/execute-action
  Sweeper,        \* goroutines running ReconcileOnce (loop, endpoint calls)
  Payment, Merchant,
  PaymentOf,      \* [Event -> Payment]
  MerchantOf,     \* [Payment -> Merchant]
  CustomerOf,     \* [Payment -> a customer], NoCustomer when customer_id is NULL
  NoCustomer,
  AmountOf,       \* [Payment -> Nat]
  PriorAttempts,  \* [Event -> Nat], as reported by the provider
  MerchantPolicy, \* [Merchant -> row of merchant_policy_config]
  PlatformPolicy, \* the platform_policy row
  Diagnoses,      \* what the diagnoser may answer: [cause, confidence, candidates]
  Scores,         \* what the ERV optimizer may compute: subset of [Action -> Int]
  Dispatcher,     \* "mock" or "razorpay" (main.chooseDispatcher)
  ExecActions,    \* actions a caller of execute-action may name
  KillScopes,     \* subset of {"merchant", "global"}: switches operators touch
  BatchLimit,     \* limit of a reconciliation sweep
  DbFaults,       \* may a transaction fail, or its commit reply be lost?
  MaxClock, Day,  \* bound on the clock; length of the 24h window in ticks
  MaxCrashes      \* bound on process crashes

ASSUME ProcessAssumption == Event \cap Caller = {}
ASSUME TableAssumption ==
  /\ PaymentOf \in [Event -> Payment]
  /\ MerchantOf \in [Payment -> Merchant]
  /\ MaxClock \in Nat /\ MaxCrashes \in Nat
ASSUME DataAssumption ==
  /\ Event # {} /\ IsFiniteSet(Event)
  /\ MerchantPolicy \in [Merchant -> MerchantRow] /\ PlatformPolicy \in PlatformRow
  /\ Diagnoses \subseteq [cause : RootCause, confidence : Nat, candidates : Seq(Action)]
  /\ Scores \subseteq [Action -> Int]
ASSUME ModeAssumption ==
  /\ Dispatcher \in {"mock", "razorpay"}
  /\ DbFaults \in BOOLEAN
  /\ ExecActions \subseteq Action \ {"no_action"}

VARIABLES
  (* tables *)
  stored,          \* payment_events: the events whose row is committed
  recovery_state,  \* decisions.recovery_state by event, "none" without a row
  chosen_action,   \* decisions.chosen_action
  policy_result,   \* decisions.policy_check_result
  astatus,         \* actions.status by idempotency key, "none" without a row
  executed_at,     \* actions.executed_at
  outcome,         \* outcomes row of an action, "none" without one
  audit_log,       \* state_history of the audit entries of each decision
  kill_switch,     \* merchants whose kill switch is on
  global_kill,     \* platform_policy.global_kill_switch
  (* the running process *)
  pc,              \* where each handler stands
  job,             \* event, action and dispatch outcome a handler works on
  ctx,             \* the facts LoadContext returned to a pipeline run
  history,         \* the path its state machine has walked
  late,            \* has its 15s context expired?
  batch,           \* pending actions a sweep has loaded and not yet resolved
  found,           \* the resolved action a sweep is about to settle
  (* outside *)
  acked,           \* events the provider got a 2xx for
  sent,            \* requests sent to the gateway, by idempotency key
  gw,              \* what the gateway did with them
  clock, crashes

tables  == <<stored, recovery_state, chosen_action, policy_result, astatus,
             executed_at, outcome, audit_log>>
actions == <<astatus, executed_at, outcome>>
runs    == <<pc, job, ctx, history, late>>
sweeps  == <<batch, found>>
switch  == <<kill_switch, global_kill>>
gateway == <<sent, gw>>
world   == <<clock, crashes>>
vars    == <<tables, switch, runs, sweeps, acked, gateway, world>>

Proc == Event \cup Caller

\* sha256(payment_id, decision_id, action): the decision's event fixes the
\* payment, and the separators make the hash injective.
Key == Event \X Action
IdempotencyKey(p) == <<job[p].event, job[p].action>>

Outcome == {"pending_confirmation", "recovered", "dispatched", "failed"}

\* Mutants of StatusOf: the result is written into the status column; an action
\* that was dispatched without recovering stays pending.
ResultAsStatus(o) == o
DispatchedStaysPending(o) ==
  CASE o = "recovered" -> "confirmed" [] o = "failed" -> "failed" [] OTHER -> "pending_confirmation"

\* Outcome.Status: a confirmed action may or may not have recovered the payment.
StatusOf(o) == IF o \in {"recovered", "dispatched"} THEN "confirmed" ELSE o

\* Mutants of outcomePath: a failed action is not re-evaluated; a recovery goes
\* straight to DONE.
NoReEvaluation(o) ==
  CASE o = "pending_confirmation" -> <<"ACTION_PENDING">>
    [] o = "recovered" -> <<"ACTION_PENDING", "RECOVERED", "DONE">>
    [] OTHER -> <<"ACTION_PENDING", "FAILED">>
StraightToDone(o) ==
  CASE o = "pending_confirmation" -> <<"ACTION_PENDING">>
    [] o = "recovered" -> <<"ACTION_PENDING", "DONE">>
    [] OTHER -> <<"ACTION_PENDING", "FAILED", "RE_EVALUATE", "STOPPED">>

\* The transitions that follow ACTION_PENDING for a known outcome.
outcomePath(o) ==
  CASE o = "pending_confirmation" -> <<"ACTION_PENDING">>
    [] o = "recovered" -> <<"ACTION_PENDING", "RECOVERED", "DONE">>
    [] OTHER -> <<"ACTION_PENDING", "FAILED", "RE_EVALUATE", "STOPPED">>

NoFacts == [retries |-> 0, hasPriorRetry |-> FALSE, sinceRetry |-> 0,
            actionsToday |-> 0, kill |-> FALSE, globalKill |-> FALSE]

Init ==
  /\ stored = {} /\ acked = {}
  /\ recovery_state = [e \in Event |-> "none"]
  /\ chosen_action = [e \in Event |-> "none"]
  /\ policy_result = [e \in Event |-> "none"]
  /\ astatus = [k \in Key |-> "none"]
  /\ executed_at = [k \in Key |-> 0]
  /\ outcome = [k \in Key |-> "none"]
  /\ audit_log = [e \in Event |-> <<>>]
  /\ kill_switch = {} /\ global_kill = FALSE
  /\ pc = [p \in Proc |-> "idle"]
  /\ job = [p \in Proc |->
              [event  |-> IF p \in Event THEN p ELSE CHOOSE e \in Event : TRUE,
               action |-> "no_action", out |-> "none"]]
  /\ ctx = [e \in Event |-> NoFacts]
  /\ history = [p \in Proc |-> <<>>]
  /\ late = [p \in Proc |-> FALSE]
  /\ batch = [s \in Sweeper |-> {}]
  /\ found = [s \in Sweeper |-> {}]
  /\ sent = [k \in Key |-> 0]
  /\ gw = [k \in Key |-> "none"]
  /\ clock = 0 /\ crashes = 0

\* The handler returns; a webhook is acknowledged whatever the pipeline did.
Finish(p) ==
  /\ pc' = [pc EXCEPT ![p] = "end"]
  /\ acked' = acked \cup ({p} \cap Event)

Goto(p, label) == pc' = [pc EXCEPT ![p] = label] /\ UNCHANGED acked

-----------------------------------------------------------------------------
(* Webhook ingestion.                                                      *)

\* First delivery: the event row commits and the pipeline starts.
Ingest(e) ==
  /\ pc[e] = "idle" /\ e \notin stored
  /\ stored' = stored \cup {e}
  /\ Goto(e, "load")
  /\ UNCHANGED <<recovery_state, chosen_action, policy_result, actions, audit_log,
                 switch, job, ctx, history, late, sweeps, gateway, world>>

\* The row commits but the commit reports an error: 500, no pipeline run.
IngestReplyLost(e) ==
  /\ DbFaults
  /\ pc[e] = "idle" /\ e \notin stored
  /\ stored' = stored \cup {e}
  /\ Goto(e, "end")
  /\ UNCHANGED <<recovery_state, chosen_action, policy_result, actions, audit_log,
                 switch, job, ctx, history, late, sweeps, gateway, world>>

\* Redelivery of a stored event, at any time until the provider sees a 2xx:
\* Created is false, so Process is not called.
IngestDuplicate(e) ==
  /\ e \in stored \ acked
  /\ acked' = acked \cup {e}
  /\ UNCHANGED <<tables, switch, runs, sweeps, gateway, world>>

-----------------------------------------------------------------------------
(* The pipeline run of one event.                                          *)

\* Rows LoadContext counts: every action not known to have failed.
Live == {k \in Key : astatus[k] \in {"pending", "pending_confirmation", "confirmed"}}

retryActions(pay) == {k \in Live : PaymentOf[k[1]] = pay /\ IsRetry(k[2])}

customerActions(pay) ==
  {k \in Live : LET other == PaymentOf[k[1]] IN
                  /\ CustomerOf[pay] # NoCustomer
                  /\ CustomerOf[other] = CustomerOf[pay]
                  /\ MerchantOf[other] = MerchantOf[pay]
                  /\ clock - executed_at[k] <= Day}

LoadContext(e) ==
  LET pay  == PaymentOf[e]
      ages == {clock - executed_at[k] : k \in retryActions(pay)}
  IN /\ pc[e] = "load" /\ ~late[e]
     /\ ctx' = [ctx EXCEPT ![e] =
          [retries       |-> Cardinality(retryActions(pay)),
           hasPriorRetry |-> ages # {},
           sinceRetry    |-> IF ages = {} THEN 0 ELSE Min(ages),
           actionsToday  |-> Cardinality(customerActions(pay)),
           kill          |-> MerchantOf[pay] \in kill_switch,
           globalKill    |-> global_kill]]
     /\ Goto(e, "decide")
     /\ UNCHANGED <<tables, switch, job, history, late, sweeps, gateway, world>>

\* The facts Evaluate sees: the loaded context and the diagnosis.
Facts(e, d) ==
  [retries |-> ctx[e].retries, hasPriorRetry |-> ctx[e].hasPriorRetry,
   sinceRetry |-> ctx[e].sinceRetry, actionsToday |-> ctx[e].actionsToday,
   kill |-> ctx[e].kill, globalKill |-> ctx[e].globalKill,
   priorAttempts |-> PriorAttempts[e], amount |-> AmountOf[PaymentOf[e]],
   cause |-> d.cause, confidence |-> d.confidence]

DecisionFor(e, d, erv) ==
  Decide(d.candidates, erv, Facts(e, d),
         ResolveMerchantPolicy(MerchantPolicy[MerchantOf[PaymentOf[e]]], PlatformPolicy))

\* One transaction: diagnosis, scores, decision row and decision audit entry.
InsertDecision(e, dec) ==
  /\ recovery_state' = [recovery_state EXCEPT ![e] = dec.state]
  /\ chosen_action' = [chosen_action EXCEPT ![e] = dec.action]
  /\ policy_result' = [policy_result EXCEPT ![e] = dec.verdict]
  /\ audit_log' = [audit_log EXCEPT ![e] = Append(@, dec.path)]
  /\ job' = [job EXCEPT ![e].action = dec.action]
  /\ history' = [history EXCEPT ![e] = dec.path]
  /\ UNCHANGED <<stored, actions, switch, ctx, late, sweeps, gateway, world>>

\* Mutant of PersistDecision: a withheld decision is dispatched as well.
DispatchAnyDecision(e) ==
  /\ pc[e] = "decide" /\ ~late[e]
  /\ \E d \in Diagnoses, erv \in Scores : InsertDecision(e, DecisionFor(e, d, erv))
  /\ Goto(e, "dispatch")

PersistDecision(e) ==
  /\ pc[e] = "decide" /\ ~late[e]
  /\ \E d \in Diagnoses, erv \in Scores :
       LET dec == DecisionFor(e, d, erv) IN
         /\ InsertDecision(e, dec)
         /\ IF dec.state = "ACTION_SELECTED" THEN Goto(e, "dispatch") ELSE Finish(e)

\* The decision commits but the commit reports an error: Process returns it.
PersistDecisionReplyLost(e) ==
  /\ DbFaults
  /\ pc[e] = "decide" /\ ~late[e]
  /\ \E d \in Diagnoses, erv \in Scores : InsertDecision(e, DecisionFor(e, d, erv))
  /\ Finish(e)

\* processTimeout: from here on the handler's transactions fail.
Expire(e) ==
  /\ pc[e] \in {"load", "decide", "dispatch", "call", "persist"} /\ ~late[e]
  /\ late' = [late EXCEPT ![e] = TRUE]
  /\ UNCHANGED <<tables, switch, pc, job, ctx, history, sweeps, acked, gateway, world>>

\* A transaction fails without effect and the handler returns the error.  So
\* does the insert of an action whose decision is not stored (the foreign key).
TransactionFails(p) ==
  /\ pc[p] \in {"load", "decide", "persist"}
  /\ \/ DbFaults \/ late[p]
     \/ pc[p] = "persist" /\ recovery_state[job[p].event] = "none"
  /\ Finish(p)
  /\ UNCHANGED <<tables, switch, job, ctx, history, late, sweeps, gateway, world>>

-----------------------------------------------------------------------------
(* /internal/execute-action: any action, for any decision id: it neither   *)
(* reads the decision nor consults the policy, and dispatches whether the  *)
(* decision is stored or not.  An event without a decision stands for an   *)
(* id that names none.                                                     *)

ExecuteAction(x) ==
  /\ pc[x] = "idle"
  /\ \E e \in Event, a \in ExecActions :
       job' = [job EXCEPT ![x] = [event |-> e, action |-> a, out |-> "none"]]
  /\ Goto(x, "dispatch")
  /\ UNCHANGED <<tables, switch, ctx, history, late, sweeps, gateway, world>>

\* The caller goes away: r.Context() is cancelled, which is no timeout, so the
\* handler returns an error wherever it stands and persists nothing more.
Disconnect(x) ==
  /\ pc[x] \in {"dispatch", "call", "persist"}
  /\ Finish(x)
  /\ UNCHANGED <<tables, switch, job, ctx, history, late, sweeps, gateway, world>>

-----------------------------------------------------------------------------
(* The executor.  notify and escalate never leave the process.             *)

Answered(p, o) == job' = [job EXCEPT ![p].out = o] /\ Goto(p, "persist")

DispatchOutOfBand(p) ==
  /\ pc[p] = "dispatch" /\ job[p].action \in OutOfBand
  /\ Answered(p, "dispatched")
  /\ UNCHANGED <<tables, switch, ctx, history, late, sweeps, gateway, world>>

\* MockDispatcher: every charge or re-presentment recovers, immediately.
DispatchMock(p) ==
  /\ Dispatcher = "mock"
  /\ pc[p] = "dispatch" /\ job[p].action \notin OutOfBand
  /\ sent' = [sent EXCEPT ![IdempotencyKey(p)] = @ + 1]
  /\ gw' = [gw EXCEPT ![IdempotencyKey(p)] = "captured"]
  /\ Answered(p, "recovered")
  /\ UNCHANGED <<tables, switch, ctx, history, late, sweeps, world>>

\* RazorpayDispatcher.call writes the request.
DispatchSend(p) ==
  /\ Dispatcher = "razorpay"
  /\ pc[p] = "dispatch" /\ job[p].action \notin OutOfBand /\ ~late[p]
  /\ sent' = [sent EXCEPT ![IdempotencyKey(p)] = @ + 1]
  /\ Goto(p, "call")
  /\ UNCHANGED <<tables, switch, job, ctx, history, late, sweeps, gw, world>>

\* With the deadline already past, http.Do fails with DeadlineExceeded before
\* anything is written; call reads that as an ambiguous result all the same.
DispatchExpired(p) ==
  /\ Dispatcher = "razorpay"
  /\ pc[p] = "dispatch" /\ job[p].action \notin OutOfBand /\ late[p]
  /\ Answered(p, "pending_confirmation")
  /\ UNCHANGED <<tables, switch, ctx, history, late, sweeps, gateway, world>>

\* Mutant of Reading: an attempt that was only created counts as paid.
CreatedIsPaid(status) ==
  IF status \in {"captured", "authorized", "created"} THEN "recovered" ELSE "failed"

\* What a parsed reply of the gateway means to call: money captured (or paid) and
\* money only authorised are both a recovery, any other 2xx is none, and a 4xx is
\* a failure.
Reading(status) ==
  CASE status \in {"captured", "authorized"} -> "recovered"
    [] status = "created"                    -> "dispatched"
    [] OTHER                                 -> "failed"

GatewayReplies(p) ==
  /\ pc[p] = "call" /\ ~late[p] /\ gw[IdempotencyKey(p)] # "none"
  /\ Answered(p, Reading(gw[IdempotencyKey(p)]))
  /\ UNCHANGED <<tables, switch, ctx, history, late, sweeps, gateway, world>>

\* Client timeout or expired context, 5xx, or a 2xx that does not parse.
CallAmbiguous(p) ==
  /\ pc[p] = "call"
  /\ Answered(p, "pending_confirmation")
  /\ UNCHANGED <<tables, switch, ctx, history, late, sweeps, gateway, world>>

\* Any other transport error (reset, refused, EOF) is returned as an error.
TransportError(p) ==
  /\ pc[p] = "call" /\ ~late[p]
  /\ Finish(p)
  /\ UNCHANGED <<tables, switch, job, ctx, history, late, sweeps, gateway, world>>

-----------------------------------------------------------------------------
(* Recording the outcome: FinalizeExecution and RecordPendingAction.  The  *)
(* unique idempotency key decides which handler's row is the one.          *)

\* The writes a transaction that inserts or settles action k makes besides the
\* status: outcome row, decision state (unconditionally) and audit entry.
Record(k, o, before) ==
  LET path == before \o outcomePath(o) IN
  /\ astatus' = [astatus EXCEPT ![k] = StatusOf(o)]
  /\ outcome' = IF o = "pending_confirmation" THEN outcome
                ELSE [outcome EXCEPT ![k] = IF o = "recovered" THEN "recovered"
                                            ELSE "not_recovered"]
  /\ recovery_state' = [recovery_state EXCEPT ![k[1]] = Last(path)]
  /\ audit_log' = [audit_log EXCEPT ![k[1]] = Append(@, path)]
  /\ UNCHANGED <<stored, chosen_action, policy_result>>

InsertAction(p) ==
  /\ pc[p] = "persist" /\ ~late[p]
  /\ astatus[IdempotencyKey(p)] = "none" /\ recovery_state[job[p].event] # "none"
  /\ Record(IdempotencyKey(p), job[p].out, history[p])
  /\ executed_at' = [executed_at EXCEPT ![IdempotencyKey(p)] = clock]
  /\ Finish(p)
  /\ UNCHANGED <<switch, job, ctx, history, late, sweeps, gateway, world>>

RecordPendingAction(p) == job[p].out = "pending_confirmation" /\ InsertAction(p)
FinalizeExecution(p)   == job[p].out # "pending_confirmation" /\ InsertAction(p)

\* Mutant of DuplicateDispatch: the loser of the key still updates the decision.
DuplicateMovesDecision(p) ==
  /\ pc[p] = "persist" /\ ~late[p]
  /\ astatus[IdempotencyKey(p)] # "none"
  /\ LET path == history[p] \o outcomePath(job[p].out)
         e    == job[p].event
     IN /\ recovery_state' = [recovery_state EXCEPT ![e] = Last(path)]
        /\ audit_log' = [audit_log EXCEPT ![e] = Append(@, path)]
  /\ Finish(p)
  /\ UNCHANGED <<stored, chosen_action, policy_result, actions, switch, job, ctx,
                 history, late, sweeps, gateway, world>>

\* Mutant of DuplicateDispatch: the conflicting row is overwritten.
DuplicateOverwrites(p) ==
  /\ pc[p] = "persist" /\ ~late[p]
  /\ astatus[IdempotencyKey(p)] # "none"
  /\ Record(IdempotencyKey(p), job[p].out, history[p])
  /\ Finish(p)
  /\ UNCHANGED <<executed_at, switch, job, ctx, history, late, sweeps, gateway, world>>

\* ON CONFLICT DO NOTHING returned no row: commit and write nothing else.
DuplicateDispatch(p) ==
  /\ pc[p] = "persist" /\ ~late[p]
  /\ astatus[IdempotencyKey(p)] # "none"
  /\ Finish(p)
  /\ UNCHANGED <<tables, switch, job, ctx, history, late, sweeps, gateway, world>>

-----------------------------------------------------------------------------
(* Reconciliation: ReconcileOnce by any number of concurrent sweeps.       *)

\* Mutant of Pending: the query asks for the wrong status.
OnlyStatusPending == {k \in Key : astatus[k] = "pending"}

Pending == {k \in Key : astatus[k] = "pending_confirmation"}

\* The oldest BatchLimit pending actions; ties in executed_at fall either way.
LoadPendingConfirmations(s) ==
  /\ batch[s] = {} /\ found[s] = {} /\ Pending # {}
  /\ \E B \in SUBSET Pending :
       /\ \/ Cardinality(B) = BatchLimit
          \/ B = Pending /\ Cardinality(B) < BatchLimit
       /\ \A k \in B, l \in Pending \ B : executed_at[k] <= executed_at[l]
       /\ batch' = [batch EXCEPT ![s] = B]
  /\ UNCHANGED <<tables, switch, runs, found, acked, gateway, world>>

\* Next row of the sweep, in the order of the query.
NextRow(s, k) ==
  /\ found[s] = {} /\ k \in batch[s]
  /\ \A l \in batch[s] : executed_at[k] <= executed_at[l]
  /\ batch' = [batch EXCEPT ![s] = @ \ {k}]

\* The status read is answered; one for a request the gateway has not seen is
\* a 4xx, which call reads as a failed action.
Resolve(s, k) ==
  /\ NextRow(s, k)
  /\ found' = [found EXCEPT ![s] = {<<k, Reading(gw[k])>>}]
  /\ UNCHANGED <<tables, switch, runs, acked, gateway, world>>

\* The status read fails or is itself ambiguous: left for a later sweep.
ResolveAmbiguous(s, k) ==
  /\ NextRow(s, k)
  /\ UNCHANGED <<tables, switch, runs, found, acked, gateway, world>>

\* Mutant of SettleAction: the UPDATE without its WHERE on the status.
SettleUnguarded(s, k) ==
  \E o \in Outcome :
    /\ found[s] = {<<k, o>>}
    /\ Record(k, o, <<>>) /\ UNCHANGED executed_at
    /\ found' = [found EXCEPT ![s] = {}]
    /\ UNCHANGED <<switch, runs, batch, acked, gateway, world>>

\* UPDATE ... WHERE status = 'pending_confirmation' and its companions.
SettleAction(s, k) ==
  \E o \in Outcome :
    /\ found[s] = {<<k, o>>}
    /\ IF astatus[k] = "pending_confirmation"
         THEN Record(k, o, <<>>) /\ UNCHANGED executed_at
         ELSE UNCHANGED tables
    /\ found' = [found EXCEPT ![s] = {}]
    /\ UNCHANGED <<switch, runs, batch, acked, gateway, world>>

SettleFails(s) ==
  /\ DbFaults
  /\ found[s] # {}
  /\ found' = [found EXCEPT ![s] = {}]
  /\ UNCHANGED <<tables, switch, runs, batch, acked, gateway, world>>

-----------------------------------------------------------------------------
(* Operators, the gateway, time and crashes.                               *)

SetMerchantKillSwitch(m) ==
  /\ "merchant" \in KillScopes
  /\ kill_switch' \in {kill_switch \cup {m}, kill_switch \ {m}}
  /\ UNCHANGED <<tables, global_kill, runs, sweeps, acked, gateway, world>>

SetGlobalKillSwitch ==
  /\ "global" \in KillScopes
  /\ global_kill' \in BOOLEAN
  /\ UNCHANGED <<tables, kill_switch, runs, sweeps, acked, gateway, world>>

\* External: the gateway handles the requests of a key once (it coalesces on
\* X-Idempotency-Key), maybe long after the sender gave up on the reply.
GatewayHandles(k) ==
  /\ Dispatcher = "razorpay" /\ sent[k] > 0 /\ gw[k] = "none"
  /\ \E s \in {"captured", "authorized", "created", "declined"} : gw' = [gw EXCEPT ![k] = s]
  /\ UNCHANGED <<tables, switch, runs, sweeps, acked, sent, world>>

\* External: a created attempt or link may still be paid later, and money that was
\* authorised be captured.
GatewayCaptures(k) ==
  /\ \/ gw[k] = "created" /\ gw' \in {[gw EXCEPT ![k] = s] : s \in {"authorized", "captured"}}
     \/ gw[k] = "authorized" /\ gw' = [gw EXCEPT ![k] = "captured"]
  /\ UNCHANGED <<tables, switch, runs, sweeps, acked, sent, world>>

Tick ==
  /\ clock < MaxClock
  /\ clock' = clock + 1
  /\ UNCHANGED <<tables, switch, runs, sweeps, acked, gateway, crashes>>

\* Every goroutine dies with its memory; the tables and the gateway stay.
Crash ==
  /\ crashes < MaxCrashes
  /\ crashes' = crashes + 1
  /\ pc' = [p \in Proc |-> IF pc[p] = "idle" THEN "idle" ELSE "end"]
  /\ batch' = [s \in Sweeper |-> {}]
  /\ found' = [s \in Sweeper |-> {}]
  /\ UNCHANGED <<tables, switch, job, ctx, history, late, acked, gateway, clock>>

-----------------------------------------------------------------------------
Webhook(e) == Ingest(e) \/ IngestReplyLost(e) \/ IngestDuplicate(e)

Pipeline(e) == LoadContext(e) \/ PersistDecision(e) \/ PersistDecisionReplyLost(e)
               \/ Expire(e)

Endpoint(x) == ExecuteAction(x) \/ Disconnect(x)

Execution(p) ==
  \/ DispatchOutOfBand(p) \/ DispatchMock(p) \/ DispatchSend(p) \/ DispatchExpired(p)
  \/ GatewayReplies(p) \/ CallAmbiguous(p) \/ TransportError(p)
  \/ RecordPendingAction(p) \/ FinalizeExecution(p) \/ DuplicateDispatch(p)
  \/ TransactionFails(p)

Reconciliation(s) ==
  \/ LoadPendingConfirmations(s) \/ SettleFails(s)
  \/ \E k \in Key : Resolve(s, k) \/ ResolveAmbiguous(s, k) \/ SettleAction(s, k)

Environment ==
  \/ \E m \in Merchant : SetMerchantKillSwitch(m)
  \/ SetGlobalKillSwitch
  \/ \E k \in Key : GatewayHandles(k) \/ GatewayCaptures(k)
  \/ Tick \/ Crash

Next ==
  \/ \E e \in Event : Webhook(e) \/ Pipeline(e)
  \/ \E x \in Caller : Endpoint(x)
  \/ \E p \in Proc : Execution(p)
  \/ \E s \in Sweeper : Reconciliation(s)
  \/ Environment

Spec == Init /\ [][Next]_vars
=============================================================================
