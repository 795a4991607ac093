------------------------- MODULE RecoveryProperties -------------------------
(***************************************************************************)
(* What the recovery slice promises: the invariants and action properties  *)
(* of Recovery, the fairness its scheduling justifies and the liveness     *)
(* that follows from it.  The last section states what the repository's    *)
(* documents and comments say and the code does not do.                    *)
(***************************************************************************)
EXTENDS Recovery

\* What LoadContext returns, and where a handler may stand.
Facts0 == [retries : Nat, hasPriorRetry : BOOLEAN, sinceRetry : Nat,
           actionsToday : Nat, kill : BOOLEAN, globalKill : BOOLEAN]

PcLabel == {"idle", "load", "decide", "dispatch", "call", "persist", "end"}

TablesOK ==
  /\ stored \subseteq Event
  /\ recovery_state \in [Event -> RecoveryState \cup {"none"}]
  /\ chosen_action \in [Event -> Action \cup {"none"}]
  /\ policy_result \in [Event -> {"ALLOW", "HUMAN_REVIEW", "none"}]
  /\ astatus \in [Key -> ActionStatus \cup {"none"}]
  /\ executed_at \in [Key -> 0 .. clock]
  /\ outcome \in [Key -> {"recovered", "not_recovered", "none"}]
  /\ audit_log \in [Event -> Seq(Seq(RecoveryState))]

RunsOK ==
  /\ job \in [Proc -> [event : Event, action : Action, out : Outcome \cup {"none"}]]
  /\ ctx \in [Event -> Facts0]
  /\ history \in [Proc -> Seq(RecoveryState)]
  /\ late \in [Proc -> BOOLEAN]

\* A handler that is about to persist has an answer to persist.
PcOK ==
  /\ pc \in [Proc -> PcLabel]
  /\ \A p \in Proc : pc[p] = "persist" => job[p].out # "none"

WorldOK ==
  /\ kill_switch \subseteq Merchant /\ global_kill \in BOOLEAN
  /\ sent \in [Key -> Nat]
  /\ gw \in [Key -> {"none", "captured", "authorized", "created", "declined"}]
  /\ clock \in 0 .. MaxClock /\ crashes \in 0 .. MaxCrashes

\* Every column, every handler's memory and every counter has its type, and no
\* action is stamped in the future.
TypeOK ==
  /\ TablesOK /\ RunsOK /\ PcOK /\ WorldOK
  /\ acked \subseteq Event
  /\ batch \in [Sweeper -> SUBSET Key]
  /\ found \in [Sweeper -> SUBSET (Key \X Outcome)]

-----------------------------------------------------------------------------
(* Safety.                                                                 *)

Decided(e) == recovery_state[e] # "none"

\* The ledger never contradicts itself: an action is settled exactly when it
\* has an outcome, a recovery is only recorded on a confirmed action, and no
\* action row exists without its decision (FinalizeExecution, SettleAction).
LedgerConsistent ==
  \A k \in Key :
    /\ astatus[k] \in {"confirmed", "failed"} <=> outcome[k] # "none"
    /\ outcome[k] = "recovered" => astatus[k] = "confirmed"
    /\ astatus[k] # "none" => Decided(k[1])

\* The gateway has taken the money, or holds it by an authorisation, which the
\* engine books alike (recovered in RazorpayDispatcher.call).
MoneyTaken == {"captured", "authorized"}

\* A recovery in the ledger is money the gateway captured or holds: neither a timeout,
\* nor a crash, nor a race between handler and reconciler fabricates one.
NeverFabricated == \A k \in Key : outcome[k] = "recovered" => gw[k] \in MoneyTaken

\* Decisions that dispatch nothing: a human takes over, or nothing is worth it.
Withheld(e) == policy_result[e] = "HUMAN_REVIEW" \/ chosen_action[e] = "no_action"

\* decisions.recovery_state and the action ledger tell the same story: what
\* the dashboard shows of a decision is what its chosen action's rows say.
DecisionMatchesLedger ==
  \A e \in Event : Decided(e) =>
    LET k == <<e, chosen_action[e]>> IN
    recovery_state[e] =
      CASE astatus[k] = "pending_confirmation" -> "ACTION_PENDING"
        [] outcome[k] = "recovered"            -> "DONE"
        [] outcome[k] = "not_recovered"        -> "STOPPED"
        [] Withheld(e)                         -> "STOPPED"
        [] OTHER                               -> "ACTION_SELECTED"

\* Nothing is sent or recorded but the action the policy engine ALLOWed for
\* the event's one decision, and it is sent at most once.
OnlyAuthorizedOnce ==
  \A e \in Event, a \in Action :
    sent[<<e, a>>] > 0 \/ astatus[<<e, a>>] # "none" =>
      /\ chosen_action[e] = a /\ a # "no_action" /\ policy_result[e] = "ALLOW"
      /\ sent[<<e, a>>] <= 1

\* A run whose context was loaded with a kill switch on dispatches nothing.
KillSwitchRespected ==
  \A e \in Event : Decided(e) /\ (ctx[e].kill \/ ctx[e].globalKill) =>
    /\ recovery_state[e] = "STOPPED" /\ chosen_action[e] = "no_action"
    /\ \A a \in Action : sent[<<e, a>>] = 0 /\ astatus[<<e, a>>] = "none"

\* The audit trail replays the decision: every state_history is a path of the
\* transition graph (so no MustTo panicked), each entry continues the previous
\* one, and the last one ends in the stored recovery_state.
Continues(old, new) ==
  \/ IsPrefix(old, new)
  \/ Head(new) = Last(old)
  \/ CanTransition(Last(old), Head(new))

AuditReplays ==
  \A e \in Event : LET log == audit_log[e] IN
    /\ \A i \in DOMAIN log : LegalPath(log[i])
    /\ \A i \in 1 .. Len(log) - 1 : Continues(log[i], log[i + 1])
    /\ IF log = <<>> THEN ~Decided(e) ELSE recovery_state[e] = Last(Last(log))

\* A settled action is settled for good: no sweep, duplicate dispatch or retry
\* rewrites or removes a row that has an outcome, and a row that is pending can
\* only be settled (the guards of insertActionSQL and settleActionSQL).
SettledForGood ==
  [][\A k \in Key :
       /\ outcome[k] # "none" => astatus'[k] = astatus[k] /\ outcome'[k] = outcome[k]
       /\ astatus[k] # "none" => astatus'[k] # "none" /\ executed_at'[k] = executed_at[k]]_vars

\* The refinement mapping onto the abstract ledger.
decided == {e \in Event : Decided(e)}
ledger ==
  [k \in Key |-> IF outcome[k] # "none" THEN outcome[k]
                 ELSE IF astatus[k] = "pending_confirmation" THEN "pending" ELSE "absent"]
taken == {k \in Key : gw[k] \in MoneyTaken}

Ledger == INSTANCE ActionLedger WITH Decision <- Event

\* The whole slice implements the abstract ledger: whatever interleaves, fails,
\* is repeated or crashes, a step of the code is one step of the ledger or none.
ImplementsLedger == Ledger!Spec

\* STOPPED and DONE are terminal: no transaction moves a decision out of them.
TerminalStays ==
  [][\A e \in Event : Decided(e) /\ Terminal(recovery_state[e]) =>
       recovery_state'[e] = recovery_state[e]]_vars

\* The retries of an event's payment that other events had recorded by a time, at
\* least so long before it.
retriesBefore(e, time, gap) ==
  {l \in Key : /\ astatus[l] # "none" /\ IsRetry(l[2])
               /\ l[1] # e /\ PaymentOf[l[1]] = PaymentOf[e]
               /\ time - executed_at[l] >= gap}

Cooldown(e) == ResolveMerchantPolicy(MerchantPolicy[MerchantOf[PaymentOf[e]]], PlatformPolicy).cooldown

\* Retries of a payment that do not race are spaced: a retry is recorded at least a
\* cooldown after every retry its own run counted, whatever other runs recorded in
\* between (LoadContext's minutes_since_last_retry, rule 5 of Evaluate).
RetriesSpaced ==
  \A k \in Key : astatus[k] # "none" /\ IsRetry(k[2]) =>
    Cardinality(retriesBefore(k[1], executed_at[k], Cooldown(k[1]))) >= ctx[k[1]].retries

-----------------------------------------------------------------------------
(* Fairness and liveness.                                                  *)

\* Handlers keep running: every external call has a client timeout and every
\* context a deadline.  The provider redelivers until it sees a 2xx.  The
\* sweep runs every interval; its status reads and its transactions may fail
\* any number of times but not forever.
Handle(p) ==
  \/ Execution(p)
  \/ p \in Event /\ (LoadContext(p) \/ PersistDecision(p))

Fairness ==
  /\ \A p \in Proc : WF_vars(Handle(p))
  /\ \A e \in Event : WF_vars(IngestDuplicate(e))
  /\ \A s \in Sweeper :
       /\ WF_vars(LoadPendingConfirmations(s))
       /\ SF_vars(\E k \in Key : Resolve(s, k))
       /\ SF_vars(\E k \in Key : SettleAction(s, k))

FairSpec == Spec /\ Fairness

\* No decision is left in limbo: one whose action is unconfirmed is eventually
\* settled, whatever crashes, failed transactions and ambiguous status reads
\* come in between.
PendingSettles ==
  \A e \in Event : recovery_state[e] = "ACTION_PENDING" ~> Terminal(recovery_state[e])

-----------------------------------------------------------------------------
(* What the documentation says and the code does not do.                   *)

\* ingest/handler.go: a pipeline error is logged "and the event can be
\* reprocessed".  Nothing reprocesses it: redelivery is a duplicate.
StoredEventsDecided == \A e \in Event : e \in stored ~> Decided(e)

\* README.md: the database constraints "make double-charges structurally
\* impossible".  The key includes the decision, so two events of one payment
\* each recover it.
RecoveredOnce ==
  \A k, l \in Key : /\ outcome[k] = "recovered" /\ outcome[l] = "recovered"
                    /\ PaymentOf[k[1]] = PaymentOf[l[1]]
                    => k = l
=============================================================================
