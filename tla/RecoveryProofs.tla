--------------------------- MODULE RecoveryProofs ---------------------------
(***************************************************************************)
(* Type correctness and ledger integrity of the recovery slice, the        *)
(* abstract ledger it implements, and what its decisions, ledger and audit *)
(* trail say of each other, for any number of events, handlers, sweeps,    *)
(* crashes and clock ticks.                                                *)
(***************************************************************************)
EXTENDS RecoveryProperties, PolicyTheorems

USE ProcessAssumption, TableAssumption, DataAssumption, ModeAssumption

\* There are finitely many actions.
LEMMA ActionFinite == IsFiniteSet(Action)
<1>1. Action = {"retry"} \cup ({"delayed_retry"} \cup ({"alt_method"} \cup ({"payment_link"}
                 \cup ({"notify"} \cup ({"escalate"} \cup {"no_action"})))))
  BY DEF Action
<1> QED  BY <1>1, FS_Singleton, FS_Union

\* There are finitely many idempotency keys: one per decision and action.
LEMMA KeyFinite == IsFiniteSet(Key)
BY ActionFinite, FS_Product DEF Key

\* What Record appends to the audit log is a path, and it ends in a state.
LEMMA OutcomePathType ==
  ASSUME NEW before \in Seq(RecoveryState), NEW o \in Outcome
  PROVE  /\ before \o outcomePath(o) \in Seq(RecoveryState)
         /\ Last(before \o outcomePath(o)) \in RecoveryState
<1>1. outcomePath(o) \in Seq(RecoveryState) /\ Len(outcomePath(o)) > 0
  <2> USE DEF RecoveryState
  <2>1. CASE outcomePath(o) = <<"ACTION_PENDING">>
    BY <2>1
  <2>2. CASE outcomePath(o) = <<"ACTION_PENDING", "RECOVERED", "DONE">>
    BY <2>2
  <2>3. CASE outcomePath(o) = <<"ACTION_PENDING", "FAILED", "RE_EVALUATE", "STOPPED">>
    BY <2>3
  <2> QED  BY <2>1, <2>2, <2>3, Zenon DEF outcomePath
<1> HIDE DEF outcomePath
<1>2. /\ before \o outcomePath(o) \in Seq(RecoveryState)
      /\ Len(before \o outcomePath(o)) > 0
  BY <1>1, ConcatProperties, LenProperties
<1> QED  BY <1>2, LenProperties, ElementOfSeq DEF Last

\* What LoadContext returns is typed: its counts and the age of a retry are naturals.
LEMMA FactsType ==
  ASSUME TypeOK, NEW e \in Event, LoadContext(e)
  PROVE  ctx' \in [Event -> Facts0]
<1> DEFINE pay  == PaymentOf[e]
           ages == {clock - executed_at[k] : k \in retryActions(pay)}
           f == [retries       |-> Cardinality(retryActions(pay)),
                 hasPriorRetry |-> ages # {},
                 sinceRetry    |-> IF ages = {} THEN 0 ELSE Min(ages),
                 actionsToday  |-> Cardinality(customerActions(pay)),
                 kill          |-> MerchantOf[pay] \in kill_switch,
                 globalKill    |-> global_kill]
<1>1. ctx' = [ctx EXCEPT ![e] = f]
  BY DEF LoadContext
<1>2. retryActions(pay) \in SUBSET Key /\ customerActions(pay) \in SUBSET Key
  BY DEF retryActions, customerActions, Live
<1>3. Cardinality(retryActions(pay)) \in Nat /\ Cardinality(customerActions(pay)) \in Nat
  BY <1>2, KeyFinite, FS_Subset, FS_CardinalityType
<1>4. ages \in SUBSET Nat
  BY <1>2 DEF TypeOK, TablesOK, WorldOK
<1> HIDE DEF ages
<1>5. ages # {} => Min(ages) \in Nat
  BY <1>4, MinOfNat
<1>6. global_kill \in BOOLEAN
  BY DEF TypeOK, WorldOK
<1>7. f \in Facts0
  BY <1>3, <1>5, <1>6 DEF Facts0
<1> HIDE DEF f
<1> QED  BY <1>1, <1>7 DEF TypeOK, RunsOK

\* Whatever the diagnoser and the optimizer answer, Process reaches a decision: a
\* typed row whose path ends in the state it stores, never BLOCK.
LEMMA DecisionType ==
  ASSUME NEW e \in Event, NEW d \in Diagnoses, NEW erv \in Scores
  PROVE  LET dec == DecisionFor(e, d, erv) IN
         /\ dec.action \in Action /\ dec.verdict \in {"ALLOW", "HUMAN_REVIEW"}
         /\ dec.path \in Seq(RecoveryState) /\ Len(dec.path) > 0 /\ dec.state = Last(dec.path)
         /\ dec.state \in {"ACTION_SELECTED", "STOPPED"}
BY DecideSound DEF DecisionFor

-----------------------------------------------------------------------------
\* The empty database and idle handlers are typed.
LEMMA TypeInit == Init => TypeOK
<1> SUFFICES ASSUME Init PROVE TypeOK
  OBVIOUS
<1>1. TablesOK
  BY DEF Init, TablesOK
<1>2. job \in [Proc -> [event : Event, action : Action, out : Outcome \cup {"none"}]]
  BY DEF Init, Proc, Action
<1>3. RunsOK
  BY <1>2 DEF Init, RunsOK, Facts0, NoFacts
<1>4. sent \in [Key -> Nat] /\ gw \in [Key -> {"none", "captured", "authorized", "created", "declined"}]
  BY DEF Init
<1>5. kill_switch \subseteq Merchant /\ global_kill \in BOOLEAN
  BY DEF Init
<1>6. clock \in 0 .. MaxClock /\ crashes \in 0 .. MaxCrashes
  BY DEF Init
<1>7. WorldOK
  BY <1>4, <1>5, <1>6 DEF WorldOK
<1>8. PcOK
  BY DEF Init, PcOK, PcLabel
<1> QED  BY <1>1, <1>3, <1>7, <1>8 DEF Init, TypeOK

\* What an action leaves alone keeps its type.
LEMMA Frames ==
  ASSUME TypeOK
  PROVE  /\ UNCHANGED <<tables, clock>> => TablesOK'
         /\ UNCHANGED <<job, ctx, history, late>> => RunsOK'
         /\ UNCHANGED <<switch, gateway, world>> => WorldOK'
         /\ UNCHANGED <<pc, job>> => PcOK'
         /\ UNCHANGED <<batch, found>> =>
              batch' \in [Sweeper -> SUBSET Key] /\ found' \in [Sweeper -> SUBSET (Key \X Outcome)]
<1> USE DEF TypeOK
<1>1. UNCHANGED <<tables, clock>> => TablesOK'
  BY DEF TablesOK, tables
<1>2. UNCHANGED <<job, ctx, history, late>> => RunsOK'
  BY DEF RunsOK
<1>3. UNCHANGED <<switch, gateway, world>> => WorldOK'
  BY DEF WorldOK, switch, gateway, world
<1>4. UNCHANGED <<pc, job>> => PcOK'
  BY DEF PcOK
<1> QED  BY <1>1, <1>2, <1>3, <1>4

\* A handler moves to a label where it persists nothing.
LEMMA Moves ==
  ASSUME TypeOK, NEW p \in Proc, NEW l \in PcLabel \ {"persist"}, pc' = [pc EXCEPT ![p] = l],
         \A q \in Proc \ {p} : job'[q].out = job[q].out
  PROVE  PcOK'
BY DEF TypeOK, PcOK

\* The same, by Goto.
LEMMA Goes ==
  ASSUME TypeOK, NEW p \in Proc, NEW l \in PcLabel \ {"persist"}, Goto(p, l),
         \A q \in Proc \ {p} : job'[q].out = job[q].out
  PROVE  PcOK' /\ acked' \subseteq Event
BY Moves DEF Goto, TypeOK

\* A handler returns, and acknowledges its webhook.
LEMMA Returns ==
  ASSUME TypeOK, NEW p \in Proc, Finish(p), \A q \in Proc \ {p} : job'[q].out = job[q].out
  PROVE  PcOK' /\ acked' \subseteq Event
<1>1. "end" \in PcLabel \ {"persist"}
  BY DEF PcLabel
<1> QED  BY <1>1, Moves DEF Finish, TypeOK

\* The answer of an executor is one of the outcomes.
LEMMA AnswerType ==
  ASSUME TypeOK, NEW p \in Proc, NEW o \in Outcome, Answered(p, o), UNCHANGED <<ctx, history, late>>
  PROVE  RunsOK' /\ PcOK' /\ acked' \subseteq Event
<1>1. RunsOK'
  <2>1. job' = [job EXCEPT ![p].out = o] /\ UNCHANGED <<ctx, history, late>>
    BY DEF Answered
  <2>2. job' \in [Proc -> [event : Event, action : Action, out : Outcome \cup {"none"}]]
    <3> DEFINE J == [event : Event, action : Action, out : Outcome \cup {"none"}]
    <3>1. job \in [Proc -> J]
      BY DEF TypeOK, RunsOK
    <3>2. job[p] \in J
      BY <3>1
    <3>3. [job[p] EXCEPT !.out = o] \in J
      BY <3>2
    <3> HIDE DEF J
    <3>4. [job EXCEPT ![p] = [job[p] EXCEPT !.out = o]] \in [Proc -> J]
      BY <3>1, <3>3
    <3> QED  BY <2>1, <3>4 DEF J
  <2> QED  BY <2>1, <2>2 DEF TypeOK, RunsOK
<1>2. PcOK' /\ acked' \subseteq Event
  BY DEF TypeOK, RunsOK, PcOK, PcLabel, Answered, Goto, Outcome
<1> QED  BY <1>1, <1>2

\* Record writes statuses, outcomes, states and paths.
LEMMA RecordType ==
  ASSUME TypeOK, NEW k \in Key, NEW o \in Outcome, NEW before \in Seq(RecoveryState),
         Record(k, o, before), executed_at' \in [Key -> 0 .. clock], UNCHANGED clock
  PROVE  TablesOK'
<1> DEFINE path == before \o outcomePath(o)
<1>1. path \in Seq(RecoveryState) /\ Last(path) \in RecoveryState /\ k[1] \in Event
  BY OutcomePathType DEF Key
<1>2. StatusOf(o) \in ActionStatus
  BY DEF StatusOf, Outcome, ActionStatus
<1>3. /\ astatus' = [astatus EXCEPT ![k] = StatusOf(o)]
      /\ outcome' = IF o = "pending_confirmation" THEN outcome
                    ELSE [outcome EXCEPT ![k] = IF o = "recovered" THEN "recovered"
                                                ELSE "not_recovered"]
      /\ recovery_state' = [recovery_state EXCEPT ![k[1]] = Last(path)]
      /\ audit_log' = [audit_log EXCEPT ![k[1]] = Append(@, path)]
      /\ UNCHANGED <<stored, chosen_action, policy_result>>
  BY DEF Record
<1> HIDE DEF path
<1>4. audit_log' \in [Event -> Seq(Seq(RecoveryState))]
  BY <1>1, <1>3 DEF TypeOK, TablesOK
<1> QED  BY <1>1, <1>2, <1>3, <1>4 DEF TypeOK, TablesOK

-----------------------------------------------------------------------------
(* One lemma per group of actions.                                         *)

\* Ingestion keeps every column and every handler typed.
LEMMA WebhookType ==
  ASSUME TypeOK, NEW e \in Event, Webhook(e)
  PROVE  TypeOK'
<1> USE DEF tables, actions, runs, sweeps, world
<1>0. e \in Proc /\ PcLabel = PcLabel
  BY DEF Proc
<1>1. CASE Ingest(e)
  <2>1. TablesOK'
    BY <1>1 DEF Ingest, TypeOK, TablesOK
  <2> QED  BY <1>0, <1>1, <2>1, Frames, Goes, Returns DEF Ingest, TypeOK, PcLabel
<1>2. CASE IngestReplyLost(e)
  <2>1. TablesOK'
    BY <1>2 DEF IngestReplyLost, TypeOK, TablesOK
  <2> QED  BY <1>0, <1>2, <2>1, Frames, Goes, Returns DEF IngestReplyLost, TypeOK, PcLabel
<1>3. CASE IngestDuplicate(e)
  BY <1>3, Frames DEF IngestDuplicate, TypeOK
<1> QED  BY <1>1, <1>2, <1>3 DEF Webhook

\* A pipeline run does: its counts are naturals, its decision is a row.
LEMMA PipelineType ==
  ASSUME TypeOK, NEW e \in Event, Pipeline(e)
  PROVE  TypeOK'
<1> USE DEF tables, actions, runs, sweeps, world
<1>0. e \in Proc
  BY DEF Proc
<1>1. CASE LoadContext(e)
  <2>1. RunsOK'
    BY <1>1, FactsType DEF LoadContext, TypeOK, RunsOK
  <2> QED  BY <1>0, <1>1, <2>1, Frames, Goes, Returns DEF LoadContext, TypeOK, PcLabel
<1>2. ASSUME NEW d \in Diagnoses, NEW erv \in Scores, InsertDecision(e, DecisionFor(e, d, erv))
      PROVE  /\ TablesOK' /\ RunsOK' /\ WorldOK' /\ UNCHANGED <<batch, found>>
             /\ \A q \in Proc \ {e} : job'[q].out = job[q].out
  <2> DEFINE dec == DecisionFor(e, d, erv)
  <2>1. /\ dec.action \in Action /\ dec.verdict \in {"ALLOW", "HUMAN_REVIEW"}
        /\ dec.path \in Seq(RecoveryState) /\ dec.state \in RecoveryState
    BY DecisionType DEF RecoveryState
  <2>2. InsertDecision(e, dec)
    BY <1>2
  <2> HIDE DEF dec
  <2>3. audit_log' \in [Event -> Seq(Seq(RecoveryState))]
    BY <2>1, <2>2 DEF InsertDecision, TypeOK, TablesOK
  <2>4. TablesOK'
    BY <2>1, <2>2, <2>3 DEF InsertDecision, TypeOK, TablesOK
  <2>5. RunsOK'
    <3>1. job' \in [Proc -> [event : Event, action : Action, out : Outcome \cup {"none"}]]
      <4>1. job' = [job EXCEPT ![e] = [job[e] EXCEPT !.action = dec.action]]
        BY <2>2 DEF InsertDecision
      <4>2. [job[e] EXCEPT !.action = dec.action] \in
              [event : Event, action : Action, out : Outcome \cup {"none"}]
        <5>1. ASSUME NEW j \in [event : Event, action : Action, out : Outcome \cup {"none"}],
                     NEW a \in Action
              PROVE  [j EXCEPT !.action = a] \in
                       [event : Event, action : Action, out : Outcome \cup {"none"}]
          OBVIOUS
        <5>2. job[e] \in [event : Event, action : Action, out : Outcome \cup {"none"}]
          BY <1>0 DEF TypeOK, RunsOK
        <5> QED  BY <2>1, <5>1, <5>2
      <4> QED  BY <4>1, <4>2 DEF TypeOK, RunsOK
    <3>2. history' \in [Proc -> Seq(RecoveryState)]
      BY <1>0, <2>1, <2>2 DEF InsertDecision, TypeOK, RunsOK
    <3>3. UNCHANGED <<ctx, late>>
      BY <2>2 DEF InsertDecision
    <3> QED  BY <3>1, <3>2, <3>3 DEF TypeOK, RunsOK
  <2>6. \A q \in Proc \ {e} : job'[q].out = job[q].out
    BY <1>0, <2>2 DEF InsertDecision, TypeOK, RunsOK
  <2> QED  BY <2>2, <2>4, <2>5, <2>6, Frames DEF InsertDecision
<1>3. CASE PersistDecision(e)
  <2>1. PICK d \in Diagnoses, erv \in Scores :
          /\ InsertDecision(e, DecisionFor(e, d, erv))
          /\ Goto(e, "dispatch") \/ Finish(e)
    BY <1>3 DEF PersistDecision
  <2> QED  BY <1>0, <1>2, <2>1, Frames, Goes, Returns DEF TypeOK, PcLabel
<1>4. CASE PersistDecisionReplyLost(e)
  <2>1. PICK d \in Diagnoses, erv \in Scores :
          InsertDecision(e, DecisionFor(e, d, erv)) /\ Finish(e)
    BY <1>4 DEF PersistDecisionReplyLost
  <2> QED  BY <1>0, <1>2, <2>1, Frames, Goes, Returns DEF TypeOK, PcLabel
<1>5. CASE Expire(e)
  <2>1. late' \in [Proc -> BOOLEAN]
    BY <1>5 DEF Expire, TypeOK, RunsOK
  <2>2. RunsOK'
    BY <1>5, <2>1 DEF Expire, TypeOK, RunsOK
  <2> QED  BY <1>5, <2>2, Frames DEF Expire, TypeOK
<1> QED  BY <1>1, <1>3, <1>4, <1>5 DEF Pipeline

\* An execute-action request and a caller that goes away do.
LEMMA EndpointType ==
  ASSUME TypeOK, NEW x \in Caller, Endpoint(x)
  PROVE  TypeOK'
<1> USE DEF tables, actions, runs, sweeps, world
<1>0. x \in Proc
  BY DEF Proc
<1>1. CASE ExecuteAction(x)
  <2>1. PICK e \in Event, a \in ExecActions : 
          job' = [job EXCEPT ![x] = [event |-> e, action |-> a, out |-> "none"]]
    BY <1>1 DEF ExecuteAction
  <2>2. a \in Action
    BY <2>1
  <2>3. /\ job' \in [Proc -> [event : Event, action : Action, out : Outcome \cup {"none"}]]
        /\ \A q \in Proc \ {x} : job'[q].out = job[q].out
    BY <1>0, <2>1, <2>2 DEF TypeOK, RunsOK
  <2>4. RunsOK'
    BY <1>1, <2>3 DEF ExecuteAction, TypeOK, RunsOK
  <2> QED  BY <1>0, <1>1, <2>3, <2>4, Frames, Goes, Returns DEF ExecuteAction, TypeOK, PcLabel
<1>2. CASE Disconnect(x)
  BY <1>0, <1>2, Frames, Goes, Returns DEF Disconnect, TypeOK, PcLabel
<1> QED  BY <1>1, <1>2 DEF Endpoint

\* Dispatching an action and recording its outcome do.
LEMMA ExecutionType ==
  ASSUME TypeOK, NEW p \in Proc, Execution(p)
  PROVE  TypeOK'
<1> USE DEF tables, actions, runs, sweeps, world
<1>0. IdempotencyKey(p) \in Key
  BY DEF IdempotencyKey, Key, TypeOK, RunsOK
<1>1. CASE DispatchOutOfBand(p)
  BY <1>1, AnswerType, Frames DEF DispatchOutOfBand, TypeOK, Outcome
<1>2. CASE DispatchMock(p)
  <2>1. WorldOK'
    BY <1>0, <1>2 DEF DispatchMock, TypeOK, WorldOK, switch
  <2> QED  BY <1>2, <2>1, AnswerType, Frames DEF DispatchMock, TypeOK, Outcome
<1>3. CASE DispatchSend(p)
  <2>1. WorldOK'
    BY <1>0, <1>3 DEF DispatchSend, TypeOK, WorldOK, switch
  <2> QED  BY <1>3, <2>1, Goes, Returns, Frames DEF DispatchSend, TypeOK, PcLabel
<1>4. CASE DispatchExpired(p)
  BY <1>4, AnswerType, Frames DEF DispatchExpired, TypeOK, Outcome
<1>5. CASE GatewayReplies(p)
  <2>1. Reading(gw[IdempotencyKey(p)]) \in Outcome
    BY DEF Reading, Outcome
  <2> QED  BY <1>5, <2>1, AnswerType, Frames DEF GatewayReplies, TypeOK
<1>6. CASE CallAmbiguous(p)
  BY <1>6, AnswerType, Frames DEF CallAmbiguous, TypeOK, Outcome
<1>7. CASE TransportError(p)
  BY <1>7, Goes, Returns, Frames DEF TransportError, TypeOK, PcLabel
<1>8. CASE InsertAction(p)
  <2>1. job[p].out \in Outcome /\ history[p] \in Seq(RecoveryState)
    BY <1>8 DEF InsertAction, TypeOK, RunsOK, PcOK
  <2>2. executed_at' \in [Key -> 0 .. clock] /\ UNCHANGED clock
    BY <1>0, <1>8 DEF InsertAction, TypeOK, TablesOK, WorldOK
  <2>3. TablesOK'
    BY <1>0, <1>8, <2>1, <2>2, RecordType DEF InsertAction
  <2> QED  BY <1>8, <2>3, Goes, Returns, Frames DEF InsertAction, TypeOK, PcLabel
<1>9. CASE DuplicateDispatch(p)
  BY <1>9, Goes, Returns, Frames DEF DuplicateDispatch, TypeOK, PcLabel
<1>10. CASE TransactionFails(p)
  BY <1>10, Goes, Returns, Frames DEF TransactionFails, TypeOK, PcLabel
<1> QED
  BY <1>1, <1>2, <1>3, <1>4, <1>5, <1>6, <1>7, <1>8, <1>9, <1>10
  DEF Execution, RecordPendingAction, FinalizeExecution

\* A sweep does: it loads rows of actions and settles them with an outcome.
LEMMA ReconciliationType ==
  ASSUME TypeOK, NEW s \in Sweeper, Reconciliation(s)
  PROVE  TypeOK'
<1> USE DEF tables, actions, runs, sweeps, world
<1>1. CASE LoadPendingConfirmations(s)
  <2>1. Pending \in SUBSET Key
    BY DEF Pending
  <2>2. batch' \in [Sweeper -> SUBSET Key] /\ found' = found
    BY <1>1, <2>1 DEF LoadPendingConfirmations, TypeOK
  <2> QED  BY <1>1, <2>2, Frames DEF LoadPendingConfirmations, TypeOK
<1>2. CASE SettleFails(s)
  BY <1>2, Frames DEF SettleFails, TypeOK
<1>3. ASSUME NEW k \in Key, Resolve(s, k)
      PROVE  TypeOK'
  <2>1. Reading(gw[k]) \in Outcome
    BY DEF Reading, Outcome
  <2>2. batch' \in [Sweeper -> SUBSET Key] /\ found' \in [Sweeper -> SUBSET (Key \X Outcome)]
    BY <1>3, <2>1 DEF Resolve, NextRow, TypeOK
  <2> QED  BY <1>3, <2>2, Frames DEF Resolve, TypeOK
<1>4. ASSUME NEW k \in Key, ResolveAmbiguous(s, k)
      PROVE  TypeOK'
  <2>1. batch' \in [Sweeper -> SUBSET Key] /\ found' = found
    BY <1>4 DEF ResolveAmbiguous, NextRow, TypeOK
  <2> QED  BY <1>4, <2>1, Frames DEF ResolveAmbiguous, TypeOK
<1>5. ASSUME NEW k \in Key, SettleAction(s, k)
      PROVE  TypeOK'
  <2>1. PICK o \in Outcome :
          /\ IF astatus[k] = "pending_confirmation"
               THEN Record(k, o, <<>>) /\ UNCHANGED executed_at
               ELSE UNCHANGED tables
          /\ found' = [found EXCEPT ![s] = {}]
          /\ UNCHANGED <<switch, runs, batch, acked, gateway, world>>
    BY <1>5 DEF SettleAction
  <2>2. TablesOK'
    <3>1. CASE astatus[k] = "pending_confirmation"
      <4>1. executed_at' \in [Key -> 0 .. clock] /\ UNCHANGED clock /\ <<>> \in Seq(RecoveryState)
        BY <2>1, <3>1 DEF TypeOK, TablesOK
      <4> QED  BY <2>1, <3>1, <4>1, RecordType
    <3>2. CASE astatus[k] # "pending_confirmation"
      BY <2>1, <3>2, Frames
    <3> QED  BY <3>1, <3>2
  <2>3. found' \in [Sweeper -> SUBSET (Key \X Outcome)] /\ batch' = batch
    BY <2>1 DEF TypeOK
  <2> QED  BY <2>1, <2>2, <2>3, Frames DEF TypeOK
<1> QED  BY <1>1, <1>2, <1>3, <1>4, <1>5 DEF Reconciliation

\* Kill switches, the gateway, the clock and a crash do.
LEMMA EnvironmentType ==
  ASSUME TypeOK, Environment
  PROVE  TypeOK'
<1> USE DEF tables, actions, runs, sweeps, switch, gateway, world
<1>1. ASSUME NEW m \in Merchant, SetMerchantKillSwitch(m)
      PROVE  TypeOK'
  <2>1. WorldOK'
    BY <1>1 DEF SetMerchantKillSwitch, TypeOK, WorldOK
  <2> QED  BY <1>1, <2>1, Frames DEF SetMerchantKillSwitch, TypeOK
<1>2. CASE SetGlobalKillSwitch
  <2>1. WorldOK'
    BY <1>2 DEF SetGlobalKillSwitch, TypeOK, WorldOK
  <2> QED  BY <1>2, <2>1, Frames DEF SetGlobalKillSwitch, TypeOK
<1>3. ASSUME NEW k \in Key, GatewayHandles(k) \/ GatewayCaptures(k)
      PROVE  TypeOK'
  <2>1. gw' \in [Key -> {"none", "captured", "authorized", "created", "declined"}]
    BY <1>3 DEF GatewayHandles, GatewayCaptures, TypeOK, WorldOK
  <2>2. WorldOK'
    BY <1>3, <2>1 DEF GatewayHandles, GatewayCaptures, TypeOK, WorldOK
  <2> QED  BY <1>3, <2>2, Frames DEF GatewayHandles, GatewayCaptures, TypeOK
<1>4. CASE Tick
  <2>1. WorldOK' /\ 0 .. clock \subseteq 0 .. clock'
    BY <1>4 DEF Tick, TypeOK, WorldOK
  <2>2. TablesOK'
    BY <1>4, <2>1 DEF Tick, TypeOK, TablesOK
  <2> QED  BY <1>4, <2>1, <2>2, Frames DEF Tick, TypeOK
<1>5. CASE Crash
  <2>1. WorldOK'
    BY <1>5 DEF Crash, TypeOK, WorldOK
  <2>2. PcOK'
    BY <1>5 DEF Crash, TypeOK, PcOK, PcLabel
  <2> QED  BY <1>5, <2>1, <2>2, Frames DEF Crash, TypeOK
<1> QED  BY <1>1, <1>2, <1>3, <1>4, <1>5 DEF Environment

\* TypeOK is inductive.
LEMMA TypeStep == TypeOK /\ [Next]_vars => TypeOK'
<1> SUFFICES ASSUME TypeOK, [Next]_vars  PROVE TypeOK'
  OBVIOUS
<1>1. CASE UNCHANGED vars
  BY <1>1, Frames DEF vars, TypeOK, runs, sweeps, world
<1>2. CASE Next
  BY <1>2, WebhookType, PipelineType, EndpointType, ExecutionType, ReconciliationType,
     EnvironmentType DEF Next
<1> QED  BY <1>1, <1>2

\* Type correctness: whatever fails, crashes or runs concurrently, every column
\* of every row holds one of its values and no action is stamped in the future.
THEOREM TypeCorrect == Spec => []TypeOK
<1> QED  BY TypeInit, TypeStep, PTL DEF Spec

-----------------------------------------------------------------------------
(* Ledger integrity.  LedgerConsistent and NeverFabricated are not         *)
(* inductive: a handler or a sweep that is about to record a recovery      *)
(* must know that the gateway has taken the money.                         *)

\* A recovery a handler carries from its call to its transaction is real.
HandlerTruth ==
  \A p \in Proc : pc[p] = "persist" /\ job[p].out = "recovered"
                    => gw[IdempotencyKey(p)] \in MoneyTaken

\* What a sweep is about to settle is final, and a recovery is real.
SweepTruth ==
  \A s \in Sweeper, k \in Key, o \in Outcome : <<k, o>> \in found[s] =>
    /\ o # "pending_confirmation"
    /\ o = "recovered" => gw[k] \in MoneyTaken

LedgerInvariant ==
  TypeOK /\ LedgerConsistent /\ NeverFabricated /\ HandlerTruth /\ SweepTruth

\* Two actions write the ledger; all others leave it alone and delete no decision.
QuietLedger == UNCHANGED actions /\ \A e \in Event : Decided(e) => Decided(e)'

\* Every step inserts an action row (FinalizeExecution, RecordPendingAction),
\* settles one (SettleAction) or is quiet.
LEMMA LedgerWriters ==
  ASSUME TypeOK, [Next]_vars
  PROVE  \/ \E p \in Proc : InsertAction(p)
         \/ \E s \in Sweeper, k \in Key : SettleAction(s, k)
         \/ QuietLedger
<1> USE DEF tables, actions, QuietLedger, Decided
<1>1. ASSUME NEW e \in Event, Webhook(e)  PROVE QuietLedger
  BY <1>1 DEF Webhook, Ingest, IngestReplyLost, IngestDuplicate
<1>2. ASSUME NEW e \in Event, Pipeline(e)  PROVE QuietLedger
  <2>1. ASSUME NEW d \in Diagnoses, NEW erv \in Scores, InsertDecision(e, DecisionFor(e, d, erv))
        PROVE  QuietLedger
    <3>1. DecisionFor(e, d, erv).state # "none"
      BY DecisionType
    <3> QED  BY <2>1, <3>1 DEF InsertDecision, TypeOK, TablesOK
  <2>2. CASE PersistDecision(e) \/ PersistDecisionReplyLost(e)
    BY <2>1, <2>2 DEF PersistDecision, PersistDecisionReplyLost
  <2>3. CASE LoadContext(e) \/ Expire(e)
    BY <2>3 DEF LoadContext, Expire
  <2> QED  BY <1>2, <2>2, <2>3 DEF Pipeline
<1>3. ASSUME NEW x \in Caller, Endpoint(x)  PROVE QuietLedger
  BY <1>3 DEF Endpoint, ExecuteAction, Disconnect
<1>4. ASSUME NEW p \in Proc, Execution(p)  PROVE InsertAction(p) \/ QuietLedger
  BY <1>4 DEF Execution, DispatchOutOfBand, DispatchMock, DispatchSend, DispatchExpired,
     GatewayReplies, CallAmbiguous, TransportError, RecordPendingAction, FinalizeExecution,
     DuplicateDispatch, TransactionFails
<1>5. ASSUME NEW s \in Sweeper, Reconciliation(s)
      PROVE  (\E k \in Key : SettleAction(s, k)) \/ QuietLedger
  BY <1>5 DEF Reconciliation, LoadPendingConfirmations, SettleFails, Resolve, ResolveAmbiguous
<1>6. CASE Environment
  BY <1>6 DEF Environment, SetMerchantKillSwitch, SetGlobalKillSwitch, GatewayHandles,
     GatewayCaptures, Tick, Crash
<1>7. CASE UNCHANGED vars
  BY <1>7 DEF vars
<1> QED  BY <1>1, <1>2, <1>3, <1>4, <1>5, <1>6, <1>7 DEF Next

\* Money the gateway has taken stays taken.
LEMMA TakenStays ==
  ASSUME TypeOK, [Next]_vars, NEW k \in Key, gw[k] \in MoneyTaken
  PROVE  gw'[k] \in MoneyTaken
<1> USE DEF gateway
<1>1. CASE UNCHANGED gw
  BY <1>1
<1>2. ASSUME NEW p \in Proc, DispatchMock(p)  PROVE gw'[k] \in MoneyTaken
  BY <1>2 DEF DispatchMock, TypeOK, WorldOK, MoneyTaken
<1>3. ASSUME NEW l \in Key, GatewayHandles(l) \/ GatewayCaptures(l)  PROVE gw'[k] \in MoneyTaken
  BY <1>3 DEF GatewayHandles, GatewayCaptures, TypeOK, WorldOK, MoneyTaken
<1>4. \/ UNCHANGED gw \/ \E p \in Proc : DispatchMock(p)
      \/ \E l \in Key : GatewayHandles(l) \/ GatewayCaptures(l)
  <2>1. ASSUME NEW e \in Event, Webhook(e) \/ Pipeline(e)  PROVE UNCHANGED gw
    BY <2>1 DEF Webhook, Ingest, IngestReplyLost, IngestDuplicate, Pipeline, LoadContext,
       PersistDecision, PersistDecisionReplyLost, InsertDecision, Expire
  <2>2. ASSUME NEW x \in Caller, Endpoint(x)  PROVE UNCHANGED gw
    BY <2>2 DEF Endpoint, ExecuteAction, Disconnect
  <2>3. ASSUME NEW p \in Proc, Execution(p)  PROVE DispatchMock(p) \/ UNCHANGED gw
    BY <2>3 DEF Execution, DispatchOutOfBand, DispatchSend, DispatchExpired, GatewayReplies,
       CallAmbiguous, TransportError, RecordPendingAction, FinalizeExecution, InsertAction,
       DuplicateDispatch, TransactionFails
  <2>4. ASSUME NEW s \in Sweeper, Reconciliation(s)  PROVE UNCHANGED gw
    BY <2>4 DEF Reconciliation, LoadPendingConfirmations, SettleFails, Resolve,
       ResolveAmbiguous, SettleAction
  <2>5. CASE Environment
    BY <2>5 DEF Environment, SetMerchantKillSwitch, SetGlobalKillSwitch, Tick, Crash
  <2>6. CASE UNCHANGED vars
    BY <2>6 DEF vars
  <2> QED  BY <2>1, <2>2, <2>3, <2>4, <2>5, <2>6 DEF Next
<1> QED  BY <1>1, <1>2, <1>3, <1>4

\* A handler reaches its transaction only with an answer of the executor, and
\* nothing it will record changes while it stands there.
LEMMA PersistEntry ==
  ASSUME TypeOK, [Next]_vars, NEW p \in Proc, pc'[p] = "persist"
  PROVE  \/ pc[p] = "persist" /\ job'[p] = job[p]
         \/ DispatchMock(p) \/ GatewayReplies(p)
         \/ \E o \in Outcome \ {"recovered"} : Answered(p, o)
<1> USE DEF TypeOK, RunsOK, PcOK, runs, Goto, Finish
<1>1. ASSUME NEW e \in Event, Webhook(e)  PROVE pc[p] = "persist" /\ job'[p] = job[p]
  BY <1>1 DEF Webhook, Ingest, IngestReplyLost, IngestDuplicate
<1>2. ASSUME NEW e \in Event, Pipeline(e)  PROVE pc[p] = "persist" /\ job'[p] = job[p]
  <2>0. e \in Proc
    BY DEF Proc
  <2>1. ASSUME NEW d \in Diagnoses, NEW erv \in Scores, InsertDecision(e, DecisionFor(e, d, erv)),
               Goto(e, "dispatch") \/ Finish(e)
        PROVE  pc[p] = "persist" /\ job'[p] = job[p]
    BY <2>0, <2>1 DEF InsertDecision
  <2>2. CASE PersistDecision(e) \/ PersistDecisionReplyLost(e)
    BY <2>1, <2>2 DEF PersistDecision, PersistDecisionReplyLost
  <2>3. CASE LoadContext(e) \/ Expire(e)
    BY <2>3 DEF LoadContext, Expire
  <2> QED  BY <1>2, <2>2, <2>3 DEF Pipeline
<1>3. ASSUME NEW x \in Caller, Endpoint(x)  PROVE pc[p] = "persist" /\ job'[p] = job[p]
  BY <1>3 DEF Endpoint, ExecuteAction, Disconnect, Proc
<1>4. ASSUME NEW q \in Proc, Execution(q)
      PROVE  \/ pc[p] = "persist" /\ job'[p] = job[p]
             \/ DispatchMock(p) \/ GatewayReplies(p)
             \/ \E o \in Outcome \ {"recovered"} : Answered(p, o)
  <2>1. ASSUME NEW o \in Outcome, Answered(q, o), p # q
        PROVE  pc[p] = "persist" /\ job'[p] = job[p]
    BY <2>1 DEF Answered
  <2>2. CASE \E o \in Outcome \ {"recovered"} : Answered(q, o)
    BY <2>1, <2>2
  <2>3. CASE DispatchMock(q) \/ GatewayReplies(q)
    <3>1. Reading(gw[IdempotencyKey(q)]) \in Outcome
      BY DEF Reading, Outcome
    <3> QED  BY <2>1, <2>3, <3>1 DEF DispatchMock, GatewayReplies, Outcome
  <2>4. CASE DispatchOutOfBand(q) \/ DispatchExpired(q) \/ CallAmbiguous(q)
    BY <2>2, <2>4 DEF DispatchOutOfBand, DispatchExpired, CallAmbiguous, Outcome
  <2>5. CASE \/ DispatchSend(q) \/ TransportError(q) \/ InsertAction(q)
             \/ DuplicateDispatch(q) \/ TransactionFails(q)
    BY <2>5 DEF DispatchSend, TransportError, InsertAction, DuplicateDispatch, TransactionFails
  <2> QED  BY <1>4, <2>2, <2>3, <2>4, <2>5 DEF Execution, RecordPendingAction, FinalizeExecution
<1>5. ASSUME NEW s \in Sweeper, Reconciliation(s)  PROVE pc[p] = "persist" /\ job'[p] = job[p]
  BY <1>5 DEF Reconciliation, LoadPendingConfirmations, SettleFails, Resolve, ResolveAmbiguous,
     SettleAction
<1>6. CASE Environment
  BY <1>6 DEF Environment, SetMerchantKillSwitch, SetGlobalKillSwitch, GatewayHandles,
     GatewayCaptures, Tick, Crash
<1>7. CASE UNCHANGED vars
  BY <1>7 DEF vars
<1> QED  BY <1>1, <1>2, <1>3, <1>4, <1>5, <1>6, <1>7 DEF Next

\* A handler that holds a recovery holds one of money taken.
LEMMA HandlerTruthStep ==
  ASSUME TypeOK, HandlerTruth, [Next]_vars
  PROVE  HandlerTruth'
<1> SUFFICES ASSUME NEW p \in Proc, pc'[p] = "persist", job'[p].out = "recovered"
             PROVE  gw'[<<job'[p].event, job'[p].action>>] \in MoneyTaken
  BY DEF HandlerTruth, IdempotencyKey
<1>0. IdempotencyKey(p) \in Key
  BY DEF IdempotencyKey, Key, TypeOK, RunsOK
<1>1. CASE pc[p] = "persist" /\ job'[p] = job[p]
  BY <1>0, <1>1, TakenStays DEF HandlerTruth, IdempotencyKey
<1>2. ASSUME NEW o, Answered(p, o)
      PROVE  <<job'[p].event, job'[p].action>> = IdempotencyKey(p) /\ job'[p].out = o
  BY <1>2 DEF Answered, IdempotencyKey, TypeOK, RunsOK
<1>3. CASE DispatchMock(p)
  BY <1>0, <1>2, <1>3 DEF DispatchMock, TypeOK, WorldOK, MoneyTaken
<1>4. CASE GatewayReplies(p)
  <2>1. Reading(gw[IdempotencyKey(p)]) = "recovered" /\ gw' = gw
    BY <1>2, <1>4 DEF GatewayReplies, gateway
  <2>2. gw[IdempotencyKey(p)] \in MoneyTaken
    BY <2>1 DEF Reading, MoneyTaken
  <2> QED  BY <1>2, <1>4, <2>1, <2>2 DEF GatewayReplies
<1>5. CASE \E o \in Outcome \ {"recovered"} : Answered(p, o)
  BY <1>2, <1>5
<1> QED  BY <1>1, <1>3, <1>4, <1>5, PersistEntry

\* What a sweep is about to settle is final, and a recovery among it is real.
LEMMA SweepTruthStep ==
  ASSUME TypeOK, SweepTruth, [Next]_vars
  PROVE  SweepTruth'
<1> SUFFICES ASSUME NEW s \in Sweeper, NEW k \in Key, NEW o \in Outcome, <<k, o>> \in found'[s]
             PROVE  o # "pending_confirmation" /\ (o = "recovered" => gw'[k] \in MoneyTaken)
  BY DEF SweepTruth
<1>1. \/ found'[s] \subseteq found[s]
      \/ \E l \in Key : Resolve(s, l)
  <2> USE DEF TypeOK, sweeps
  <2>1. ASSUME NEW e \in Event, Webhook(e) \/ Pipeline(e)  PROVE UNCHANGED found
    BY <2>1 DEF Webhook, Ingest, IngestReplyLost, IngestDuplicate, Pipeline, LoadContext,
       PersistDecision, PersistDecisionReplyLost, InsertDecision, Expire
  <2>2. ASSUME NEW x \in Caller, Endpoint(x)  PROVE UNCHANGED found
    BY <2>2 DEF Endpoint, ExecuteAction, Disconnect
  <2>3. ASSUME NEW p \in Proc, Execution(p)  PROVE UNCHANGED found
    BY <2>3 DEF Execution, DispatchOutOfBand, DispatchMock, DispatchSend, DispatchExpired,
       GatewayReplies, CallAmbiguous, TransportError, RecordPendingAction, FinalizeExecution,
       InsertAction, DuplicateDispatch, TransactionFails
  <2>4. ASSUME NEW t \in Sweeper, Reconciliation(t)
        PROVE  found'[s] \subseteq found[s] \/ \E l \in Key : Resolve(s, l)
    <3>1. CASE LoadPendingConfirmations(t) \/ SettleFails(t)
      BY <3>1 DEF LoadPendingConfirmations, SettleFails
    <3>2. ASSUME NEW l \in Key, ResolveAmbiguous(t, l) \/ SettleAction(t, l)
          PROVE  found'[s] \subseteq found[s]
      BY <3>2 DEF ResolveAmbiguous, SettleAction
    <3>3. ASSUME NEW l \in Key, Resolve(t, l), t # s
          PROVE  found'[s] \subseteq found[s]
      BY <3>3 DEF Resolve
    <3> QED  BY <2>4, <3>1, <3>2, <3>3 DEF Reconciliation
  <2>5. CASE Environment
    BY <2>5 DEF Environment, SetMerchantKillSwitch, SetGlobalKillSwitch, GatewayHandles,
       GatewayCaptures, Tick, Crash
  <2>6. CASE UNCHANGED vars
    BY <2>6 DEF vars
  <2> QED  BY <2>1, <2>2, <2>3, <2>4, <2>5, <2>6 DEF Next
<1>2. CASE found'[s] \subseteq found[s]
  BY <1>2, TakenStays DEF SweepTruth
<1>3. ASSUME NEW l \in Key, Resolve(s, l)
      PROVE  o # "pending_confirmation" /\ (o = "recovered" => gw'[k] \in MoneyTaken)
  <2>1. k = l /\ o = Reading(gw[k]) /\ gw' = gw
    BY <1>3 DEF Resolve, TypeOK, gateway
  <2> QED  BY <2>1 DEF Reading, MoneyTaken
<1> QED  BY <1>1, <1>2, <1>3

\* Record keeps the ledger consistent and writes no recovery but a real one.
LEMMA RecordKeepsLedger ==
  ASSUME TypeOK, TypeOK', LedgerConsistent, NeverFabricated, [Next]_vars,
         NEW k \in Key, NEW o \in Outcome, NEW before \in Seq(RecoveryState),
         Record(k, o, before), outcome[k] = "none",
         o = "recovered" => gw'[k] \in MoneyTaken
  PROVE  LedgerConsistent' /\ NeverFabricated'
<1>1. k[1] \in Event /\ Last(before \o outcomePath(o)) \in RecoveryState
  BY OutcomePathType DEF Key
<1>2. /\ astatus' = [astatus EXCEPT ![k] = StatusOf(o)]
      /\ outcome' = IF o = "pending_confirmation" THEN outcome
                    ELSE [outcome EXCEPT ![k] = IF o = "recovered" THEN "recovered"
                                                ELSE "not_recovered"]
      /\ recovery_state' = [recovery_state EXCEPT ![k[1]] = Last(before \o outcomePath(o))]
  BY DEF Record
<1>3. \A l \in Key : l # k => astatus'[l] = astatus[l] /\ outcome'[l] = outcome[l]
  BY <1>2 DEF TypeOK, TablesOK
<1>4. /\ astatus'[k] = StatusOf(o)
      /\ outcome'[k] = CASE o = "pending_confirmation" -> "none"
                         [] o = "recovered"            -> "recovered"
                         [] OTHER                      -> "not_recovered"
  BY <1>2 DEF TypeOK, TablesOK
<1>5. \A e \in Event : (Decided(e) \/ e = k[1]) => Decided(e)'
  <2>1. "none" \notin RecoveryState
    BY DEF RecoveryState
  <2> QED  BY <1>1, <1>2, <2>1 DEF Decided, TypeOK, TablesOK
<1>6. LedgerConsistent'
  <2> SUFFICES ASSUME NEW l \in Key
               PROVE  /\ astatus'[l] \in {"confirmed", "failed"} <=> outcome'[l] # "none"
                      /\ outcome'[l] = "recovered" => astatus'[l] = "confirmed"
                      /\ astatus'[l] # "none" => Decided(l[1])'
    BY DEF LedgerConsistent
  <2>1. CASE l = k
    BY <1>1, <1>4, <1>5, <2>1 DEF StatusOf, Outcome
  <2>2. CASE l # k
    BY <1>3, <1>5, <2>2 DEF LedgerConsistent, Key
  <2> QED  BY <2>1, <2>2
<1>7. NeverFabricated'
  BY <1>3, <1>4, TakenStays DEF NeverFabricated
<1> QED  BY <1>6, <1>7

\* The empty ledger satisfies the invariant.
LEMMA LedgerInit == Init => LedgerInvariant
BY TypeInit DEF Init, LedgerInvariant, LedgerConsistent, NeverFabricated, HandlerTruth, SweepTruth

\* The invariant is inductive: the two writers of the ledger by
\* RecordKeepsLedger, the others because nothing they touch is in it.
LEMMA LedgerStep == LedgerInvariant /\ [Next]_vars => LedgerInvariant'
<1> SUFFICES ASSUME LedgerInvariant, [Next]_vars  PROVE LedgerInvariant'
  OBVIOUS
<1> USE DEF LedgerInvariant
<1>1. TypeOK' /\ HandlerTruth' /\ SweepTruth'
  BY TypeStep, HandlerTruthStep, SweepTruthStep
<1>2. ASSUME NEW p \in Proc, InsertAction(p)
      PROVE  LedgerConsistent' /\ NeverFabricated'
  <2> DEFINE k == IdempotencyKey(p)
  <2>1. /\ k \in Key /\ job[p].out \in Outcome /\ history[p] \in Seq(RecoveryState)
        /\ Record(k, job[p].out, history[p]) /\ pc[p] = "persist" /\ astatus[k] = "none"
    BY <1>2 DEF InsertAction, IdempotencyKey, Key, TypeOK, RunsOK, PcOK
  <2> HIDE DEF k
  <2>2. outcome[k] = "none"
    BY <2>1 DEF LedgerConsistent
  <2>3. job[p].out = "recovered" => gw'[k] \in MoneyTaken
    BY <2>1, TakenStays DEF HandlerTruth, k
  <2> QED  BY <1>1, <2>1, <2>2, <2>3, RecordKeepsLedger
<1>3. CASE QuietLedger
  BY <1>1, <1>3, TakenStays
  DEF QuietLedger, actions, LedgerConsistent, NeverFabricated, Key
<1>4. ASSUME NEW s \in Sweeper, NEW k \in Key, SettleAction(s, k)
      PROVE  LedgerConsistent' /\ NeverFabricated'
  <2>1. PICK o \in Outcome :
          /\ found[s] = {<<k, o>>}
          /\ IF astatus[k] = "pending_confirmation"
               THEN Record(k, o, <<>>) /\ UNCHANGED executed_at
               ELSE UNCHANGED tables
    BY <1>4 DEF SettleAction
  <2>2. CASE astatus[k] = "pending_confirmation"
    <3>1. outcome[k] = "none"
      BY <2>2 DEF LedgerConsistent
    <3>2. o = "recovered" => gw'[k] \in MoneyTaken
      BY <2>1, TakenStays DEF SweepTruth
    <3>3. Record(k, o, <<>>) /\ <<>> \in Seq(RecoveryState)
      BY <2>1, <2>2
    <3> QED  BY <1>1, <3>1, <3>2, <3>3, RecordKeepsLedger
  <2>3. CASE astatus[k] # "pending_confirmation"
    <3>1. QuietLedger
      BY <2>1, <2>3 DEF QuietLedger, tables, actions, Decided
    <3> QED  BY <1>3, <3>1
  <2> QED  BY <2>2, <2>3
<1> QED  BY <1>1, <1>2, <1>3, <1>4, LedgerWriters

\* The inductive invariant holds in every reachable state.
LEMMA LedgerAlways == Spec => []LedgerInvariant
<1> QED  BY LedgerInit, LedgerStep, PTL DEF Spec

\* The ledger never contradicts itself (FinalizeExecution, SettleAction).
THEOREM LedgerAlwaysConsistent == Spec => []LedgerConsistent
<1>1. LedgerInvariant => LedgerConsistent
  BY DEF LedgerInvariant
<1> QED  BY <1>1, LedgerAlways, PTL

\* A recovery in the ledger is money the gateway captured or holds by an
\* authorisation: no timeout, crash or race between handlers, callers and sweeps
\* fabricates one.
THEOREM NothingFabricated == Spec => []NeverFabricated
<1>1. LedgerInvariant => NeverFabricated
  BY DEF LedgerInvariant
<1> QED  BY <1>1, LedgerAlways, PTL

\* A row that has an outcome is not written again, and no row is lost or restamped.
LEMMA RowsStay ==
  ASSUME LedgerInvariant, [Next]_vars, NEW k \in Key
  PROVE  /\ outcome[k] # "none" => astatus'[k] = astatus[k] /\ outcome'[k] = outcome[k]
         /\ astatus[k] # "none" => astatus'[k] # "none" /\ executed_at'[k] = executed_at[k]
<1> USE DEF LedgerInvariant
<1>1. ASSUME NEW l \in Key, NEW o \in Outcome, NEW before, Record(l, o, before),
             astatus[l] \in {"none", "pending_confirmation"}
      PROVE  /\ outcome[k] # "none" => astatus'[k] = astatus[k] /\ outcome'[k] = outcome[k]
             /\ astatus[k] # "none" => astatus'[k] # "none"
  <2>1. astatus' = [astatus EXCEPT ![l] = StatusOf(o)]
        /\ outcome' = IF o = "pending_confirmation" THEN outcome
                      ELSE [outcome EXCEPT ![l] = IF o = "recovered" THEN "recovered"
                                                  ELSE "not_recovered"]
    BY <1>1 DEF Record
  <2>2. StatusOf(o) # "none" /\ outcome[l] = "none"
    BY <1>1 DEF StatusOf, Outcome, LedgerConsistent
  <2> QED  BY <2>1, <2>2 DEF TypeOK, TablesOK
<1>2. ASSUME NEW p \in Proc, InsertAction(p)
      PROVE  /\ outcome[k] # "none" => astatus'[k] = astatus[k] /\ outcome'[k] = outcome[k]
             /\ astatus[k] # "none" => astatus'[k] # "none" /\ executed_at'[k] = executed_at[k]
  <2>1. /\ IdempotencyKey(p) \in Key /\ job[p].out \in Outcome
        /\ Record(IdempotencyKey(p), job[p].out, history[p])
        /\ astatus[IdempotencyKey(p)] = "none"
        /\ executed_at' = [executed_at EXCEPT ![IdempotencyKey(p)] = clock]
    BY <1>2 DEF InsertAction, IdempotencyKey, Key, TypeOK, RunsOK, PcOK
  <2> QED  BY <1>1, <2>1 DEF TypeOK, TablesOK
<1>3. CASE QuietLedger
  BY <1>3 DEF QuietLedger, actions
<1>4. ASSUME NEW s \in Sweeper, NEW l \in Key, SettleAction(s, l)
      PROVE  /\ outcome[k] # "none" => astatus'[k] = astatus[k] /\ outcome'[k] = outcome[k]
             /\ astatus[k] # "none" => astatus'[k] # "none" /\ executed_at'[k] = executed_at[k]
  <2>1. PICK o \in Outcome :
          IF astatus[l] = "pending_confirmation"
            THEN Record(l, o, <<>>) /\ UNCHANGED executed_at
            ELSE UNCHANGED tables
    BY <1>4 DEF SettleAction
  <2>2. CASE astatus[l] = "pending_confirmation"
    BY <1>1, <2>1, <2>2
  <2>3. CASE astatus[l] # "pending_confirmation"
    BY <2>1, <2>3 DEF tables
  <2> QED  BY <2>2, <2>3
<1> QED  BY <1>2, <1>3, <1>4, LedgerWriters

\* A settled action is settled for good, and a recorded one is never lost (the
\* guards of insertActionSQL and settleActionSQL).
THEOREM SettlementIsFinal == Spec => SettledForGood
<1>1. LedgerInvariant /\ [Next]_vars =>
        [\A k \in Key :
           /\ outcome[k] # "none" => astatus'[k] = astatus[k] /\ outcome'[k] = outcome[k]
           /\ astatus[k] # "none" => astatus'[k] # "none" /\ executed_at'[k] = executed_at[k]]_vars
  BY RowsStay
<1> QED  BY <1>1, LedgerAlways, PTL DEF Spec, SettledForGood

(***************************************************************************)
(* The recovery slice implements the abstract ledger of ActionLedger: an   *)
(* insert and a settlement are Pend or Settle of their key, a decision is  *)
(* Decide, money the gateway takes is Take, and all else stutters.  That   *)
(* money is taken only for a stored decision is not among the promises:    *)
(* execute-action dispatches for any id it is given.                       *)
(***************************************************************************)

\* No step deletes a decision.
DecisionsStay == \A e \in Event : Decided(e) => Decided(e)'

\* Record leaves every decision in place.
LEMMA RecordKeepsDecisions ==
  ASSUME TypeOK, NEW k \in Key, NEW o \in Outcome, NEW before \in Seq(RecoveryState),
         Record(k, o, before)
  PROVE  DecisionsStay /\ Decided(k[1])'
<1>1. Last(before \o outcomePath(o)) \in RecoveryState
  BY OutcomePathType
<1>2. recovery_state' = [recovery_state EXCEPT ![k[1]] = Last(before \o outcomePath(o))]
  BY DEF Record
<1>3. "none" \notin RecoveryState
  BY DEF RecoveryState
<1> QED  BY <1>1, <1>2, <1>3 DEF DecisionsStay, Decided, TypeOK, TablesOK, Key

\* An insert records an answer in hand under a key without a row.
LEMMA InsertRecords ==
  ASSUME TypeOK, NEW p \in Proc, InsertAction(p)
  PROVE  /\ IdempotencyKey(p) \in Key /\ job[p].out \in Outcome
         /\ history[p] \in Seq(RecoveryState)
         /\ Record(IdempotencyKey(p), job[p].out, history[p])
         /\ pc[p] = "persist" /\ astatus[IdempotencyKey(p)] = "none"
         /\ Decided(IdempotencyKey(p)[1])
         /\ UNCHANGED gw
BY DEF InsertAction, IdempotencyKey, Key, TypeOK, RunsOK, PcOK, gateway, Decided

\* A settlement records what the sweep holds, or changes no table.
LEMMA SettleRecords ==
  ASSUME TypeOK, NEW s \in Sweeper, NEW k \in Key, SettleAction(s, k)
  PROVE  /\ UNCHANGED gw
         /\ \/ /\ astatus[k] = "pending_confirmation"
               /\ \E o \in Outcome : <<k, o>> \in found[s] /\ Record(k, o, <<>>)
            \/ QuietLedger
BY DEF SettleAction, gateway, QuietLedger, tables, actions, Decided

\* No step deletes a decision.
LEMMA DecisionsNeverLeave ==
  ASSUME TypeOK, [Next]_vars
  PROVE  DecisionsStay
<1>1. ASSUME NEW p \in Proc, InsertAction(p)  PROVE DecisionsStay
  BY <1>1, InsertRecords, RecordKeepsDecisions
<1>2. ASSUME NEW s \in Sweeper, NEW k \in Key, SettleAction(s, k)  PROVE DecisionsStay
  <2>1. <<>> \in Seq(RecoveryState)
    OBVIOUS
  <2>2. QuietLedger => DecisionsStay
    BY DEF QuietLedger, DecisionsStay
  <2> QED  BY <1>2, <2>1, <2>2, SettleRecords, RecordKeepsDecisions
<1>3. QuietLedger => DecisionsStay
  BY DEF QuietLedger, DecisionsStay
<1> QED  BY <1>1, <1>2, <1>3, LedgerWriters

-----------------------------------------------------------------------------
(* The three kinds of steps of the refinement.                             *)

\* The gateway hears of one key at a time, and in no transaction.
GatewayStep ==
  /\ UNCHANGED tables
  /\ \E k \in Key : \A l \in Key \ {k} : gw'[l] = gw[l]

\* The decisions of all events but one stay as they are, and so does the ledger.
DecidingStep ==
  /\ UNCHANGED <<actions, gateway>>
  /\ \E e \in Event : \A f \in Event \ {e} : recovery_state'[f] = recovery_state[f]

\* Every step writes the ledger, reaches the gateway, or does neither and decides
\* at most one event.
LEMMA StepKinds ==
  ASSUME TypeOK, [Next]_vars
  PROVE  \/ \E p \in Proc : InsertAction(p)
         \/ \E s \in Sweeper, k \in Key : SettleAction(s, k)
         \/ GatewayStep
         \/ DecidingStep
<1>0. UNCHANGED <<recovery_state, actions, gateway>> => DecidingStep
  BY DEF DecidingStep
<1>1. ASSUME NEW e \in Event, Webhook(e)  PROVE DecidingStep
  BY <1>0, <1>1 DEF Webhook, Ingest, IngestReplyLost, IngestDuplicate, tables, actions
<1>2. ASSUME NEW e \in Event, Pipeline(e)  PROVE DecidingStep
  <2>1. ASSUME NEW dec, InsertDecision(e, dec)  PROVE DecidingStep
    BY <2>1 DEF InsertDecision, DecidingStep, TypeOK, TablesOK
  <2>2. CASE PersistDecision(e) \/ PersistDecisionReplyLost(e)
    BY <2>1, <2>2 DEF PersistDecision, PersistDecisionReplyLost
  <2>3. CASE LoadContext(e) \/ Expire(e)
    BY <1>0, <2>3 DEF LoadContext, Expire, tables, actions
  <2> QED  BY <1>2, <2>2, <2>3 DEF Pipeline
<1>3. ASSUME NEW x \in Caller, Endpoint(x)  PROVE DecidingStep
  BY <1>0, <1>3 DEF Endpoint, ExecuteAction, Disconnect, tables, actions
<1>4. ASSUME NEW p \in Proc, Execution(p)
      PROVE  InsertAction(p) \/ GatewayStep \/ DecidingStep
  <2>1. CASE DispatchMock(p) \/ DispatchSend(p)
    <3>1. IdempotencyKey(p) \in Key
      BY DEF IdempotencyKey, Key, TypeOK, RunsOK
    <3>2. UNCHANGED tables
      BY <2>1 DEF DispatchMock, DispatchSend
    <3>3. \A l \in Key \ {IdempotencyKey(p)} : gw'[l] = gw[l]
      BY <2>1 DEF DispatchMock, DispatchSend, TypeOK, WorldOK
    <3> QED  BY <3>1, <3>2, <3>3 DEF GatewayStep
  <2>2. CASE \/ DispatchOutOfBand(p) \/ DispatchExpired(p) \/ GatewayReplies(p)
             \/ CallAmbiguous(p) \/ TransportError(p) \/ DuplicateDispatch(p)
             \/ TransactionFails(p)
    BY <1>0, <2>2 DEF DispatchOutOfBand, DispatchExpired, GatewayReplies, CallAmbiguous,
       TransportError, DuplicateDispatch, TransactionFails, tables, actions
  <2> QED  BY <1>4, <2>1, <2>2 DEF Execution, RecordPendingAction, FinalizeExecution
<1>5. ASSUME NEW s \in Sweeper, Reconciliation(s)
      PROVE  (\E k \in Key : SettleAction(s, k)) \/ DecidingStep
  BY <1>0, <1>5 DEF Reconciliation, LoadPendingConfirmations, SettleFails, Resolve,
     ResolveAmbiguous, tables, actions
<1>6. CASE Environment
  <2>1. ASSUME NEW k \in Key, GatewayHandles(k) \/ GatewayCaptures(k)  PROVE GatewayStep
    <3>1. UNCHANGED tables
      BY <2>1 DEF GatewayHandles, GatewayCaptures
    <3>2. \A l \in Key \ {k} : gw'[l] = gw[l]
      BY <2>1 DEF GatewayHandles, GatewayCaptures, TypeOK, WorldOK
    <3> QED  BY <3>1, <3>2 DEF GatewayStep
  <2>2. CASE \/ \E m \in Merchant : SetMerchantKillSwitch(m)
             \/ SetGlobalKillSwitch \/ Tick \/ Crash
    BY <1>0, <2>2 DEF SetMerchantKillSwitch, SetGlobalKillSwitch, Tick, Crash, tables, actions
  <2> QED  BY <1>6, <2>1, <2>2 DEF Environment
<1>7. CASE UNCHANGED vars
  BY <1>0, <1>7 DEF vars, tables, actions
<1> QED  BY <1>1, <1>2, <1>3, <1>4, <1>5, <1>6, <1>7 DEF Next

-----------------------------------------------------------------------------
(* The refinement.                                                         *)

\* The empty tables are the empty ledger.
LEMMA LedgerStartsEmpty == Init => Ledger!Init
BY DEF Init, Ledger!Init, Ledger!Key, Key, decided, ledger, taken, Decided, MoneyTaken

\* Recording an outcome is Pend or Settle of its key.
LEMMA RecordIsOneLedgerStep ==
  ASSUME LedgerInvariant, NEW k \in Key, NEW o \in Outcome, NEW before \in Seq(RecoveryState),
         Record(k, o, before), Decided(k[1]), DecisionsStay, UNCHANGED gw,
         astatus[k] = "none" \/ (astatus[k] = "pending_confirmation" /\ o # "pending_confirmation"),
         o = "recovered" => gw[k] \in MoneyTaken
  PROVE  Ledger!Pend(k) \/ Ledger!Settle(k)
<1> USE DEF LedgerInvariant, TypeOK, TablesOK
<1>1. /\ astatus' = [astatus EXCEPT ![k] = StatusOf(o)]
      /\ outcome' = IF o = "pending_confirmation" THEN outcome
                    ELSE [outcome EXCEPT ![k] = IF o = "recovered" THEN "recovered"
                                                ELSE "not_recovered"]
      /\ recovery_state' = [recovery_state EXCEPT ![k[1]] = Last(before \o outcomePath(o))]
  BY DEF Record
<1>2. outcome[k] = "none"
  BY DEF LedgerConsistent
<1>3. UNCHANGED <<decided, taken>> /\ k[1] \in decided
  BY <1>1 DEF decided, taken, Decided, DecisionsStay, Key
<1>4. ledger[k] = IF astatus[k] = "pending_confirmation" THEN "pending" ELSE "absent"
  BY <1>2 DEF ledger
<1>5. ASSUME NEW v, \A l \in Key : ledger'[l] = IF l = k THEN v ELSE ledger[l]
      PROVE  ledger' = [ledger EXCEPT ![k] = v]
  BY <1>5 DEF ledger
<1>6. CASE o = "pending_confirmation"
  <2>1. \A l \in Key : ledger'[l] = IF l = k THEN "pending" ELSE ledger[l]
    BY <1>1, <1>2, <1>6 DEF ledger, StatusOf
  <2> QED  BY <1>3, <1>4, <1>5, <1>6, <2>1 DEF Ledger!Pend
<1>7. CASE o # "pending_confirmation"
  <2> DEFINE result == IF o = "recovered" THEN "recovered" ELSE "not_recovered"
  <2>1. \A l \in Key : ledger'[l] = IF l = k THEN result ELSE ledger[l]
    BY <1>1, <1>2, <1>7 DEF ledger, StatusOf
  <2>2. result = "recovered" => k \in taken
    BY DEF taken
  <2>3. result \in {"recovered", "not_recovered"}
    OBVIOUS
  <2>4. ledger' = [ledger EXCEPT ![k] = result]
    BY <1>5, <2>1
  <2> HIDE DEF result
  <2> QED  BY <1>3, <1>4, <2>2, <2>3, <2>4 DEF Ledger!Settle
<1> QED  BY <1>6, <1>7

\* Every step of the slice is one step of the ledger or none.
LEMMA StepImplementsLedger ==
  LedgerInvariant /\ [Next]_vars => [Ledger!Next]_(Ledger!vars)
<1> SUFFICES ASSUME LedgerInvariant, [Next]_vars
             PROVE  Ledger!Next \/ UNCHANGED <<decided, ledger, taken>>
  BY DEF Ledger!vars
<1>0. TypeOK /\ DecisionsStay /\ Ledger!Key = Key
  BY DecisionsNeverLeave DEF LedgerInvariant, Ledger!Key, Key
<1>1. ASSUME NEW p \in Proc, InsertAction(p)  PROVE Ledger!Next
  <2> DEFINE k == IdempotencyKey(p)
  <2>1. /\ k \in Key /\ job[p].out \in Outcome /\ history[p] \in Seq(RecoveryState)
        /\ Record(k, job[p].out, history[p]) /\ pc[p] = "persist" /\ astatus[k] = "none"
        /\ Decided(k[1]) /\ UNCHANGED gw
    BY <1>0, <1>1, InsertRecords
  <2>2. job[p].out = "recovered" => gw[k] \in MoneyTaken
    BY <2>1 DEF LedgerInvariant, HandlerTruth
  <2> HIDE DEF k
  <2>3. Ledger!Pend(k) \/ Ledger!Settle(k)
    BY <1>0, <2>1, <2>2, RecordIsOneLedgerStep
  <2> QED  BY <1>0, <2>1, <2>3 DEF Ledger!Next
<1>2. ASSUME NEW s \in Sweeper, NEW k \in Key, SettleAction(s, k)
      PROVE  Ledger!Next \/ UNCHANGED <<decided, ledger, taken>>
  <2>1. CASE UNCHANGED tables
    BY <1>0, <1>2, <2>1, SettleRecords DEF tables, decided, ledger, taken, Decided
  <2>2. ASSUME NEW o \in Outcome, <<k, o>> \in found[s], Record(k, o, <<>>),
               astatus[k] = "pending_confirmation"
        PROVE  Ledger!Next
    <3>1. UNCHANGED gw /\ <<>> \in Seq(RecoveryState)
      BY <1>0, <1>2, SettleRecords
    <3>2. o # "pending_confirmation" /\ (o = "recovered" => gw[k] \in MoneyTaken)
      BY <1>0, <2>2 DEF LedgerInvariant, SweepTruth
    <3>3. Decided(k[1])
      BY <1>0, <2>2 DEF LedgerInvariant, LedgerConsistent
    <3>4. Ledger!Pend(k) \/ Ledger!Settle(k)
      BY <1>0, <2>2, <3>1, <3>2, <3>3, RecordIsOneLedgerStep
    <3> QED  BY <1>0, <3>4 DEF Ledger!Next
  <2> QED  BY <1>2, <2>1, <2>2 DEF SettleAction
<1>3. CASE GatewayStep
  <2>1. PICK k \in Key : \A l \in Key \ {k} : gw'[l] = gw[l]
    BY <1>3 DEF GatewayStep
  <2>2. UNCHANGED <<decided, ledger>>
    BY <1>3 DEF GatewayStep, tables, decided, ledger, Decided
  <2>3. gw[k] \in MoneyTaken => gw'[k] \in MoneyTaken
    BY <1>0, TakenStays
  <2>4. taken' = taken \/ (k \notin taken /\ taken' = taken \cup {k})
    BY <2>1, <2>3 DEF taken
  <2> QED  BY <1>0, <2>2, <2>4 DEF Ledger!Next, Ledger!Take
<1>4. CASE DecidingStep
  <2>1. PICK e \in Event : \A f \in Event \ {e} : recovery_state'[f] = recovery_state[f]
    BY <1>4 DEF DecidingStep
  <2>2. UNCHANGED <<ledger, taken>>
    BY <1>4 DEF DecidingStep, actions, gateway, ledger, taken
  <2>3. decided' = decided \/ (e \notin decided /\ decided' = decided \cup {e})
    BY <1>0, <2>1 DEF decided, Decided, DecisionsStay
  <2> QED  BY <2>2, <2>3 DEF Ledger!Next, Ledger!Decide
<1> QED  BY <1>0, <1>1, <1>2, <1>3, <1>4, StepKinds

\* The slice implements the abstract ledger: an event is decided once, no action
\* is recorded without its decision, and an action is settled once, as recovered
\* only after the gateway took the money (PersistDecision, insertActionSQL,
\* settleActionSQL, the idempotency key).
THEOREM ImplementsActionLedger == Spec => ImplementsLedger
<1> QED
  BY LedgerStartsEmpty, StepImplementsLedger, LedgerAlways, PTL
  DEF Spec, ImplementsLedger, Ledger!Spec

(***************************************************************************)
(* What a decision and its rows say of each other, when nobody calls       *)
(* execute-action for it: for any number of events, sweeps, crashes and    *)
(* faults, either dispatcher and any operators.  A step is looked at from  *)
(* one event, of which it is one of six kinds.                             *)
(***************************************************************************)
HIDE ModeAssumption
HIDE DataAssumption
HIDE TableAssumption
HIDE ProcessAssumption
\* The rows of one event's decision and of its actions.
SameRow(e) ==
  /\ recovery_state'[e] = recovery_state[e] /\ chosen_action'[e] = chosen_action[e]
  /\ policy_result'[e] = policy_result[e] /\ audit_log'[e] = audit_log[e]
SameActions(e) ==
  \A a \in Action : /\ sent'[<<e, a>>] = sent[<<e, a>>] /\ astatus'[<<e, a>>] = astatus[<<e, a>>]
                    /\ outcome'[<<e, a>>] = outcome[<<e, a>>]
SameRun(e) ==
  /\ ctx'[e] = ctx[e] /\ history'[e] = history[e]
  /\ job'[e].event = job[e].event /\ job'[e].action = job[e].action

\* A handler that gets nowhere, moves on, or ends.
Moved(e) ==
  \/ pc'[e] \in {pc[e], "end"}
  \/ pc[e] = "idle" /\ pc'[e] = "load"
  \/ pc[e] \in {"dispatch", "call"} /\ pc'[e] = "persist"

Still(e) == SameRow(e) /\ SameActions(e) /\ SameRun(e) /\ Moved(e)
Loads(e) ==
  /\ SameRow(e) /\ SameActions(e) /\ pc[e] = "load" /\ pc'[e] = "decide"
  /\ job'[e].event = job[e].event /\ job'[e].action = job[e].action
  /\ UNCHANGED <<astatus, executed_at, clock>>
  /\ LET ages == {clock - executed_at[k] : k \in retryActions(PaymentOf[e])} IN
       /\ ctx'[e].retries = Cardinality(retryActions(PaymentOf[e]))
       /\ ctx'[e].hasPriorRetry = (ages # {})
       /\ ctx'[e].sinceRetry = IF ages = {} THEN 0 ELSE Min(ages)
Decides(e) ==
  /\ SameActions(e) /\ ctx'[e] = ctx[e] /\ job'[e].event = job[e].event
  /\ pc[e] = "decide"
  /\ \E d \in Diagnoses, erv \in Scores :
       LET dec == DecisionFor(e, d, erv) IN
         /\ recovery_state'[e] = dec.state /\ chosen_action'[e] = dec.action
         /\ policy_result'[e] = dec.verdict /\ job'[e].action = dec.action
         /\ audit_log'[e] = Append(audit_log[e], dec.path) /\ history'[e] = dec.path
         /\ pc'[e] = "end" \/ (pc'[e] = "dispatch" /\ dec.state = "ACTION_SELECTED")
Sends(e) ==
  /\ SameRow(e) /\ SameRun(e)
  /\ pc[e] = "dispatch" /\ pc'[e] \in {"call", "persist"}
  /\ sent' = [sent EXCEPT ![IdempotencyKey(e)] = @ + 1] /\ UNCHANGED <<astatus, outcome>>
Records(e) ==
  /\ SameRun(e) /\ UNCHANGED <<chosen_action, policy_result, sent>>
  /\ pc[e] = "persist" /\ pc'[e] = "end" /\ astatus[IdempotencyKey(e)] = "none"
  /\ Record(IdempotencyKey(e), job[e].out, history[e])
  /\ executed_at' = [executed_at EXCEPT ![IdempotencyKey(e)] = clock] /\ UNCHANGED clock
Settles(e) ==
  /\ SameRun(e) /\ pc'[e] = pc[e] /\ UNCHANGED <<chosen_action, policy_result, sent>>
  /\ \E k \in Key, o \in Outcome \ {"pending_confirmation"} :
       k[1] = e /\ astatus[k] = "pending_confirmation" /\ Record(k, o, <<>>)

\* The jobs of events are their own.
OwnJob == \A e \in Event : job[e].event = e

\* Another event's record touches none of this event's rows.
LEMMA RecordElsewhere ==
  ASSUME TypeOK, NEW k \in Key, NEW o, NEW before, Record(k, o, before), NEW e \in Event, k[1] # e,
         UNCHANGED sent
  PROVE  SameRow(e) /\ SameActions(e)
<1>1. \A a \in Action : <<e, a>> \in Key /\ <<e, a>> # k
  BY DEF Key
<1> QED  BY <1>1 DEF Record, SameRow, SameActions, TypeOK, TablesOK

\* Ingestion never touches a decision.
LEMMA WebhookKind ==
  ASSUME TypeOK, NEW f \in Event, Webhook(f), NEW e \in Event
  PROVE  Still(e)
BY DEF Webhook, Ingest, IngestReplyLost, IngestDuplicate, Still, SameRow, SameActions, SameRun, Moved,
   tables, actions, runs, gateway, Goto, TypeOK, PcOK, Proc

\* A pipeline run reads the context of its event and decides it once.
LEMMA PipelineKind ==
  ASSUME TypeOK, NEW f \in Event, Pipeline(f), NEW e \in Event
  PROVE  Still(e) \/ Loads(e) \/ Decides(e)
<1> USE DEF tables, actions, runs, gateway, Goto, TypeOK, RunsOK, TablesOK, PcOK, Proc, SameRow, SameActions,
        SameRun, Moved
<1>1. CASE LoadContext(f)
  <2>1. CASE e = f
    <3> DEFINE ages == {clock - executed_at[k] : k \in retryActions(PaymentOf[e])}
    <3>1. /\ ctx'[e].retries = Cardinality(retryActions(PaymentOf[e]))
          /\ ctx'[e].hasPriorRetry = (ages # {})
          /\ ctx'[e].sinceRetry = IF ages = {} THEN 0 ELSE Min(ages)
      BY <1>1, <2>1 DEF LoadContext
    <3>2. UNCHANGED <<astatus, executed_at, clock>>
      BY <1>1 DEF LoadContext, world
    <3> QED  BY <1>1, <2>1, <3>1, <3>2 DEF LoadContext, Loads
  <2>2. CASE e # f
    BY <1>1, <2>2 DEF LoadContext, Still
  <2> QED  BY <2>1, <2>2
<1>2. CASE Expire(f)
  BY <1>2 DEF Expire, Still
<1>3. ASSUME NEW d \in Diagnoses, NEW erv \in Scores, InsertDecision(f, DecisionFor(f, d, erv)),
             pc[f] = "decide",
             \/ pc' = [pc EXCEPT ![f] = "end"]
             \/ pc' = [pc EXCEPT ![f] = "dispatch"] /\ DecisionFor(f, d, erv).state = "ACTION_SELECTED"
      PROVE  Still(e) \/ Decides(e)
  <2>1. CASE e = f
    <3> DEFINE dec == DecisionFor(f, d, erv)
    <3>1. /\ recovery_state'[e] = dec.state /\ chosen_action'[e] = dec.action
          /\ policy_result'[e] = dec.verdict /\ job'[e].action = dec.action
          /\ audit_log'[e] = Append(audit_log[e], dec.path) /\ history'[e] = dec.path
          /\ job'[e].event = job[e].event
      BY <1>3, <2>1 DEF InsertDecision
    <3>2. ctx'[e] = ctx[e] /\ SameActions(e)
      BY <1>3 DEF InsertDecision
    <3>3. pc'[e] = "end" \/ (pc'[e] = "dispatch" /\ dec.state = "ACTION_SELECTED")
      BY <1>3, <2>1
    <3>4. dec = DecisionFor(e, d, erv) /\ pc[e] = "decide"
      BY <1>3, <2>1
    <3> HIDE DEF dec
    <3> QED  BY <3>1, <3>2, <3>3, <3>4 DEF Decides
  <2>2. CASE e # f
    BY <1>3, <2>2 DEF InsertDecision, Still
  <2> QED  BY <2>1, <2>2
<1>4. CASE PersistDecision(f)
  BY <1>3, <1>4 DEF PersistDecision, Finish
<1>5. CASE PersistDecisionReplyLost(f)
  BY <1>3, <1>5 DEF PersistDecisionReplyLost, Finish
<1> QED  BY <1>1, <1>2, <1>4, <1>5 DEF Pipeline

\* An executor sends its own event's action, or records what became of it.
LEMMA ExecutionKind ==
  ASSUME TypeOK, OwnJob, NEW f \in Event, Execution(f), NEW e \in Event
  PROVE  Still(e) \/ Sends(e) \/ Records(e)
<1> USE DEF tables, actions, runs, gateway, TypeOK, RunsOK, TablesOK, PcOK, WorldOK, Proc, SameRow,
        SameActions, SameRun, Moved
<1>0. IdempotencyKey(f) \in Key /\ IdempotencyKey(f)[1] = f
  BY DEF IdempotencyKey, Key, OwnJob
<1>1. CASE DispatchOutOfBand(f) \/ DispatchExpired(f) \/ GatewayReplies(f) \/ CallAmbiguous(f)
  <2>1. /\ UNCHANGED <<tables, ctx, history, sent>> /\ pc' = [pc EXCEPT ![f] = "persist"]
        /\ \E o : job' = [job EXCEPT ![f].out = o]
        /\ pc[f] \in {"dispatch", "call"}
    BY <1>1 DEF DispatchOutOfBand, DispatchExpired, GatewayReplies, CallAmbiguous, Answered, Goto
  <2> QED  BY <2>1 DEF Still
<1>2. CASE TransportError(f) \/ DuplicateDispatch(f) \/ TransactionFails(f)
  BY <1>2 DEF TransportError, DuplicateDispatch, TransactionFails, Finish, Still
<1>3. CASE DispatchMock(f) \/ DispatchSend(f)
  <2>1. /\ sent' = [sent EXCEPT ![IdempotencyKey(f)] = @ + 1] /\ UNCHANGED <<tables, ctx, history>>
        /\ pc[f] = "dispatch" /\ pc' = [pc EXCEPT ![f] = pc'[f]] /\ pc'[f] \in {"call", "persist"}
        /\ \A q \in Event : job'[q].event = job[q].event /\ job'[q].action = job[q].action
    <3>1. CASE DispatchMock(f)
      <4>1. /\ pc[f] = "dispatch" /\ pc' = [pc EXCEPT ![f] = "persist"]
            /\ job' = [job EXCEPT ![f].out = "recovered"]
            /\ sent' = [sent EXCEPT ![IdempotencyKey(f)] = @ + 1] /\ UNCHANGED <<tables, ctx, history>>
        BY <3>1 DEF DispatchMock, Answered, Goto
      <4> QED  BY <4>1
    <3>2. CASE DispatchSend(f)
      <4>1. /\ pc[f] = "dispatch" /\ pc' = [pc EXCEPT ![f] = "call"] /\ UNCHANGED job
            /\ sent' = [sent EXCEPT ![IdempotencyKey(f)] = @ + 1] /\ UNCHANGED <<tables, ctx, history>>
        BY <3>2 DEF DispatchSend, Goto
      <4> QED  BY <4>1
    <3> QED  BY <1>3, <3>1, <3>2
  <2>2. CASE e = f
    BY <2>1, <2>2 DEF Sends
  <2>3. CASE e # f
    <3>1. \A a \in Action : <<e, a>> # IdempotencyKey(f) /\ <<e, a>> \in Key
      BY <1>0, <2>3 DEF Key
    <3> QED  BY <2>1, <2>3, <3>1 DEF Still
  <2> QED  BY <2>2, <2>3
<1>4. CASE InsertAction(f)
  <2>1. /\ Record(IdempotencyKey(f), job[f].out, history[f]) /\ pc[f] = "persist"
        /\ pc' = [pc EXCEPT ![f] = "end"] /\ UNCHANGED <<job, ctx, history, sent>>
        /\ astatus[IdempotencyKey(f)] = "none"
        /\ executed_at' = [executed_at EXCEPT ![IdempotencyKey(f)] = clock] /\ UNCHANGED clock
    BY <1>4 DEF InsertAction, Finish, world
  <2>2. CASE e = f
    <3>1. pc'[e] = "end" /\ SameRun(e) /\ UNCHANGED <<chosen_action, policy_result, sent>>
      BY <2>1, <2>2 DEF Record
    <3> QED  BY <2>1, <2>2, <3>1, Zenon DEF Records
  <2>3. CASE e # f
    <3>1. SameRow(e) /\ SameActions(e)
      <4> HIDE DEF TypeOK, RunsOK, TablesOK, PcOK, WorldOK, SameRow, SameActions
      <4>1. PICK k \in Key : k = IdempotencyKey(f) /\ k[1] # e
        BY <1>0, <2>3
      <4>2. Record(k, job[f].out, history[f]) /\ UNCHANGED sent
        BY <2>1, <4>1
      <4> QED  BY <4>2, <4>1, RecordElsewhere
    <3>2. SameRun(e) /\ Moved(e)
      BY <2>1, <2>3
    <3> QED  BY <3>1, <3>2, Zenon DEF Still
  <2> QED  BY <2>2, <2>3
<1> QED  BY <1>1, <1>2, <1>3, <1>4 DEF Execution, RecordPendingAction, FinalizeExecution

\* A sweep settles a pending action, or leaves everything alone.
LEMMA ReconciliationKind ==
  ASSUME TypeOK, SweepTruth, NEW s \in Sweeper, Reconciliation(s), NEW e \in Event
  PROVE  Still(e) \/ Settles(e)
<1> USE DEF tables, actions, runs, gateway, SameRow, SameActions, SameRun, Moved
<1>1. ASSUME NEW k \in Key, SettleAction(s, k)  PROVE Still(e) \/ Settles(e)
  <2>1. PICK o \in Outcome \ {"pending_confirmation"} :
          IF astatus[k] = "pending_confirmation" THEN Record(k, o, <<>>) ELSE UNCHANGED tables
    <3>1. PICK o \in Outcome :
            /\ <<k, o>> \in found[s]
            /\ IF astatus[k] = "pending_confirmation" THEN Record(k, o, <<>>) ELSE UNCHANGED tables
      BY <1>1 DEF SettleAction
    <3>2. o # "pending_confirmation"
      BY <3>1 DEF SweepTruth
    <3> QED  BY <3>1, <3>2
  <2>2. UNCHANGED <<runs, gateway>>
    BY <1>1 DEF SettleAction
  <2>3. CASE astatus[k] # "pending_confirmation"
    BY <2>1, <2>2, <2>3 DEF Still
  <2>4. CASE astatus[k] = "pending_confirmation" /\ k[1] # e
    BY <2>1, <2>2, <2>4, RecordElsewhere DEF Still
  <2>5. CASE astatus[k] = "pending_confirmation" /\ k[1] = e
    BY <2>1, <2>2, <2>5 DEF Settles, Record
  <2> QED  BY <2>3, <2>4, <2>5
<1>2. CASE LoadPendingConfirmations(s) \/ SettleFails(s)
           \/ \E k \in Key : Resolve(s, k) \/ ResolveAmbiguous(s, k)
  BY <1>2 DEF LoadPendingConfirmations, SettleFails, Resolve, ResolveAmbiguous, Still
<1> QED  BY <1>1, <1>2 DEF Reconciliation

\* Every step is, seen from one event, of one of the six kinds.
LEMMA StepKind ==
  ASSUME Caller = {}, TypeOK, OwnJob, SweepTruth, [Next]_vars, NEW e \in Event
  PROVE  Still(e) \/ Loads(e) \/ Decides(e) \/ Sends(e) \/ Records(e) \/ Settles(e)
<1>1. CASE Environment
  BY <1>1 DEF Environment, SetMerchantKillSwitch, SetGlobalKillSwitch, GatewayHandles, GatewayCaptures,
     Tick, Crash, Still, SameRow, SameActions, SameRun, Moved, tables, actions, runs, gateway, TypeOK,
     PcOK, Proc
<1>2. CASE UNCHANGED vars
  BY <1>2 DEF vars, Still, SameRow, SameActions, SameRun, Moved, tables, runs, gateway
<1> QED  BY <1>1, <1>2, WebhookKind, PipelineKind, ExecutionKind, ReconciliationKind DEF Next, Proc

-----------------------------------------------------------------------------
(* The paths of the state machine.                                         *)

\* What Process walks to a decision that dispatches, and to those that do not.
Selected == <<"FAILED", "DIAGNOSED", "RECOVERY_ELIGIBLE", "ACTION_SELECTED">>
Withholding == {<<"FAILED", "DIAGNOSED", "STOPPED">>,
                <<"FAILED", "DIAGNOSED", "RECOVERY_ELIGIBLE", "ACTION_SELECTED", "STOPPED">>}

\* Where an outcome leaves the decision.
StateAfter(o) ==
  CASE o = "pending_confirmation" -> "ACTION_PENDING" [] o = "recovered" -> "DONE" [] OTHER -> "STOPPED"

\* Legal paths join where the graph has the edge, and the first is a prefix of the join.
LEMMA JoinedPath ==
  ASSUME NEW a \in Seq(RecoveryState), NEW b \in Seq(RecoveryState), a # <<>>, b # <<>>,
         LegalPath(a), LegalPath(b), CanTransition(Last(a), Head(b))
  PROVE  LegalPath(a \o b) /\ IsPrefix(a, a \o b)
<1> DEFINE w == a \o b
           m == Len(a)
           n == Len(b)
<1>1. m \in Nat /\ n \in Nat /\ m > 0 /\ n > 0
  BY LenProperties, EmptySeq
<1>2. /\ w \in Seq(RecoveryState) /\ Len(w) = m + n
      /\ \A i \in 1 .. m + n : w[i] = IF i <= m THEN a[i] ELSE b[i - m]
  BY ConcatProperties
<1>3. CanTransition(a[m], b[1])
  BY <1>1 DEF Last
<1>4. ASSUME NEW i \in 1 .. m + n - 1  PROVE CanTransition(w[i], w[i + 1])
  <2> HIDE DEF w, m, n
  <2>1. CASE i < m
    <3>1. CanTransition(a[i], a[i + 1])
      BY <1>1, <2>1 DEF LegalPath, m
    <3> QED  BY <1>1, <1>2, <2>1, <3>1
  <2>2. CASE i = m
    BY <1>1, <1>2, <1>3, <2>2
  <2>3. CASE i > m
    <3>1. CanTransition(b[i - m], b[i - m + 1])
      BY <1>1, <2>3 DEF LegalPath, n
    <3>2. i \in 1 .. m + n /\ i + 1 \in 1 .. m + n /\ ~(i <= m) /\ ~(i + 1 <= m) /\ i + 1 - m = i - m + 1
      BY <1>1, <2>3
    <3>3. w[i] = b[i - m]
      BY <1>2, <3>2
    <3>4. PICK j \in 1 .. m + n : j = i + 1
      BY <3>2
    <3>5. ~(j <= m) /\ j - m = i - m + 1
      BY <1>1, <2>3, <3>4
    <3>6. w[j] = b[j - m]
      BY <1>2, <3>5
    <3> QED  BY <3>1, <3>3, <3>4, <3>5, <3>6
  <2> QED  BY <1>1, <2>1, <2>2, <2>3
<1>5. LegalPath(w)
  BY <1>2, <1>4 DEF LegalPath
<1>6. IsPrefix(a, w)
  <2>1. SubSeq(a, 1, m) = SubSeq(w, 1, m)
    BY <1>1, <1>2 
  <2> QED  BY <1>1, <1>2, <2>1 DEF IsPrefix
<1> QED  BY <1>5, <1>6

\* Every path to a decision is legal.
LEMMA DecisionPathsLegal ==
  ASSUME NEW d \in Withholding \cup {Selected}
  PROVE  LegalPath(d) /\ d \in Seq(RecoveryState) /\ d # <<>>
<1> USE DEF LegalPath, CanTransition, transitions, RecoveryState
<1>1. CASE d = Selected
  BY <1>1 DEF Selected
<1>2. CASE d = <<"FAILED", "DIAGNOSED", "STOPPED">>
  BY <1>2
<1>3. CASE d = <<"FAILED", "DIAGNOSED", "RECOVERY_ELIGIBLE", "ACTION_SELECTED", "STOPPED">>
  BY <1>3
<1> QED BY <1>1, <1>2, <1>3 DEF Withholding

\* So is the rest of the path, from ACTION_PENDING to where the outcome leads.
LEMMA OutcomePathLegal ==
  ASSUME NEW o \in Outcome
  PROVE  /\ LegalPath(outcomePath(o)) /\ outcomePath(o) \in Seq(RecoveryState) /\ outcomePath(o) # <<>>
         /\ Head(outcomePath(o)) = "ACTION_PENDING" /\ Last(outcomePath(o)) = StateAfter(o)
<1> USE DEF LegalPath, CanTransition, transitions, RecoveryState, Last
<1>1. CASE o = "pending_confirmation"
  <2>1. outcomePath(o) = <<"ACTION_PENDING">> /\ StateAfter(o) = "ACTION_PENDING"
    BY <1>1 DEF outcomePath, StateAfter
  <2> QED  BY <2>1
<1>2. CASE o = "recovered"
  <2>1. outcomePath(o) = <<"ACTION_PENDING", "RECOVERED", "DONE">> /\ StateAfter(o) = "DONE"
    BY <1>2 DEF outcomePath, StateAfter
  <2> QED  BY <2>1
<1>3. CASE o \in {"dispatched", "failed"}
  <2>1. /\ outcomePath(o) = <<"ACTION_PENDING", "FAILED", "RE_EVALUATE", "STOPPED">>
        /\ StateAfter(o) = "STOPPED"
    BY <1>3 DEF outcomePath, StateAfter
  <2> QED  BY <2>1
<1> QED  BY <1>1, <1>2, <1>3 DEF Outcome

\* What is appended to a path is what the path ends in.
LEMMA ConcatEnds ==
  ASSUME NEW a \in Seq(RecoveryState), NEW b \in Seq(RecoveryState), NEW n \in Nat, n > 0, Len(b) = n
  PROVE  Last(a \o b) = b[n]
<1> DEFINE i == Len(a) + n
<1>1. /\ Len(a) \in Nat /\ Len(a \o b) = i
      /\ \A j \in 1 .. i : (a \o b)[j] = IF j <= Len(a) THEN a[j] ELSE b[j - Len(a)]
  BY LenProperties, ConcatProperties
<1>2. i \in 1 .. i /\ ~(i <= Len(a)) /\ i - Len(a) = n
  BY <1>1
<1> HIDE DEF i
<1>3. (a \o b)[i] = b[n]
  BY <1>1, <1>2
<1> QED  BY <1>1, <1>3 DEF Last

-----------------------------------------------------------------------------
(* The invariant.  OnlyAuthorizedOnce and DecisionMatchesLedger need what a *)
(* handler knows: until it has decided, nothing was sent or recorded for    *)
(* its event, and what it executes is what it decided.                      *)

NoRows(e) == \A a \in Action : astatus[<<e, a>>] = "none"
NothingSent(e) == \A a \in Action : sent[<<e, a>>] = 0

RunTruth(e) ==
  /\ job[e].event = e
  /\ pc[e] \in {"idle", "load", "decide"} => ~Decided(e)
  /\ ~Decided(e) => NoRows(e) /\ NothingSent(e)
  /\ pc[e] \in {"dispatch", "call", "persist"} =>
       /\ Decided(e) /\ NoRows(e) /\ job[e].action = chosen_action[e]
       /\ chosen_action[e] # "no_action" /\ policy_result[e] = "ALLOW"
  /\ pc[e] = "dispatch" => NothingSent(e)
  /\ Decided(e) /\ (ctx[e].kill \/ ctx[e].globalKill) => chosen_action[e] = "no_action"

Authorized(e) ==
  \A a \in Action : sent[<<e, a>>] > 0 \/ astatus[<<e, a>>] # "none" =>
    /\ chosen_action[e] = a /\ a # "no_action" /\ policy_result[e] = "ALLOW"
    /\ sent[<<e, a>>] <= 1

\* DecisionMatchesLedger of one event, by cases.
Matches(e) ==
  Decided(e) =>
    LET k == <<e, chosen_action[e]>> IN
    /\ k \in Key /\ astatus[k] # "pending"
    /\ astatus[k] = "pending_confirmation" => recovery_state[e] = "ACTION_PENDING"
    /\ outcome[k] = "recovered" => recovery_state[e] = "DONE"
    /\ outcome[k] = "not_recovered" => recovery_state[e] = "STOPPED"
    /\ astatus[k] = "none" /\ Withheld(e) => recovery_state[e] = "STOPPED"
    /\ astatus[k] = "none" /\ ~Withheld(e) => recovery_state[e] = "ACTION_SELECTED"

EventTruth(e) == RunTruth(e) /\ Authorized(e) /\ Matches(e)

\* Steps that leave the rows of an event alone.
LEMMA StillTruth ==
  ASSUME TypeOK, NEW e \in Event, EventTruth(e), Still(e) \/ Loads(e)
  PROVE  EventTruth(e)'
<1>1. /\ SameRow(e) /\ SameActions(e) /\ job'[e].event = job[e].event /\ job'[e].action = job[e].action
      /\ (Moved(e) /\ ctx'[e] = ctx[e]) \/ (pc[e] = "load" /\ pc'[e] = "decide")
  <2>1. CASE Still(e)
    BY <2>1 DEF Still, SameRun
  <2>2. CASE Loads(e)
    BY <2>2 DEF Loads
  <2> QED  BY <2>1, <2>2
<1>2. Decided(e)' <=> Decided(e)
  BY <1>1 DEF Decided, SameRow
<1>3. RunTruth(e)'
  BY <1>1, <1>2 DEF EventTruth, RunTruth, NoRows, NothingSent, SameRow, SameActions, Moved
<1>4. Authorized(e)'
  BY <1>1 DEF EventTruth, Authorized, SameRow, SameActions
<1>5. Matches(e)'
  <2> SUFFICES ASSUME Decided(e)  PROVE Matches(e)'
    BY <1>2 DEF Matches
  <2>1. chosen_action[e] \in Action
    BY DEF EventTruth, Matches, Key
  <2> QED  BY <1>1, <2>1 DEF EventTruth, Matches, SameRow, SameActions, Withheld
<1> QED  BY <1>3, <1>4, <1>5 DEF EventTruth

\* A decision is stored: a real action goes on to dispatch, another does not.
LEMMA DecidesTruth ==
  ASSUME TypeOK, LedgerConsistent, NEW e \in Event, EventTruth(e), Decides(e)
  PROVE  EventTruth(e)'
<1>1. PICK d \in Diagnoses, erv \in Scores :
         LET dec == DecisionFor(e, d, erv) IN
         /\ recovery_state'[e] = dec.state /\ chosen_action'[e] = dec.action
         /\ policy_result'[e] = dec.verdict /\ job'[e].action = dec.action
         /\ pc'[e] = "end" \/ (pc'[e] = "dispatch" /\ dec.state = "ACTION_SELECTED")
  BY DEF Decides
<1> DEFINE dec == DecisionFor(e, d, erv)
           f == Facts(e, d)
<1>a. d.candidates \in Seq(Action) /\ erv \in [Action -> Int]
  BY DataAssumption
<1> DEFINE r == ResolveMerchantPolicy(MerchantPolicy[MerchantOf[PaymentOf[e]]], PlatformPolicy)
<1>b. dec = Decide(d.candidates, erv, f, r)
  BY DEF DecisionFor
<1> HIDE DEF f, r, dec
<1>2. /\ dec.action \in Action /\ dec.verdict \in {"ALLOW", "HUMAN_REVIEW"}
      /\ dec.state \in {"ACTION_SELECTED", "STOPPED"}
      /\ dec.state = "ACTION_SELECTED" => dec.action # "no_action" /\ dec.verdict = "ALLOW"
      /\ f.kill \/ f.globalKill => dec.action = "no_action"
      /\ dec.state = "STOPPED" => dec.verdict = "HUMAN_REVIEW" \/ dec.action = "no_action"
  BY <1>a, <1>b, DecideSound
<1>3. f.kill = ctx[e].kill /\ f.globalKill = ctx[e].globalKill
  BY DEF Facts, f
<1>4. ~Decided(e) /\ NoRows(e) /\ NothingSent(e) /\ SameActions(e) /\ ctx'[e] = ctx[e] /\ job'[e].event = e
  BY DEF Decides, EventTruth, RunTruth
<1>5. NoRows(e)' /\ NothingSent(e)' /\ Decided(e)'
  BY <1>1, <1>2, <1>4 DEF NoRows, NothingSent, SameActions, Decided, dec
<1>6. RunTruth(e)'
  BY <1>1, <1>2, <1>3, <1>4, <1>5 DEF RunTruth, dec
<1>7. Authorized(e)'
  BY <1>5 DEF Authorized, NoRows, NothingSent
<1>8. Matches(e)'
  <2>1. <<e, dec.action>> \in Key /\ astatus[<<e, dec.action>>] = "none"
    BY <1>2, <1>4 DEF Key, NoRows
  <2>2. outcome[<<e, dec.action>>] = "none"
    BY <2>1 DEF LedgerConsistent
  <2>3. astatus'[<<e, dec.action>>] = "none" /\ outcome'[<<e, dec.action>>] = "none"
    BY <1>2, <1>4, <2>1, <2>2 DEF SameActions
  <2> QED  BY <1>1, <1>2, <2>1, <2>3 DEF Matches, Withheld, dec
<1> QED  BY <1>6, <1>7, <1>8 DEF EventTruth

\* The request of a decision is sent, for the first time.
LEMMA SendsTruth ==
  ASSUME TypeOK, NEW e \in Event, EventTruth(e), Sends(e)
  PROVE  EventTruth(e)'
<1> DEFINE k == IdempotencyKey(e)
<1>1. k = <<e, chosen_action[e]>> /\ k \in Key /\ chosen_action[e] \in Action /\ Decided(e)
      /\ NothingSent(e) /\ NoRows(e) /\ chosen_action[e] # "no_action" /\ policy_result[e] = "ALLOW"
  BY DEF IdempotencyKey, Sends, EventTruth, RunTruth, Matches, Key
<1>2. /\ sent' = [sent EXCEPT ![k] = @ + 1] /\ UNCHANGED <<astatus, outcome>>
      /\ SameRow(e) /\ SameRun(e) /\ pc[e] = "dispatch" /\ pc'[e] \in {"call", "persist"}
  BY DEF Sends
<1> HIDE DEF k
<1>3. \A a \in Action : /\ a = chosen_action[e] => sent'[<<e, a>>] = 1
                        /\ a # chosen_action[e] => sent'[<<e, a>>] = 0
  BY <1>1, <1>2 DEF TypeOK, WorldOK, NothingSent, Key
<1>4. RunTruth(e)'
  <2>1. Decided(e)' /\ NoRows(e)' /\ job'[e].event = e /\ chosen_action'[e] = chosen_action[e]
        /\ job'[e].action = chosen_action[e] /\ policy_result'[e] = "ALLOW" /\ ctx'[e] = ctx[e]
    BY <1>1, <1>2 DEF EventTruth, RunTruth, NoRows, Decided, SameRow, SameRun
  <2>2. ~(ctx[e].kill \/ ctx[e].globalKill)
    BY <1>1 DEF EventTruth, RunTruth
  <2> QED  BY <1>1, <1>2, <2>1, <2>2 DEF RunTruth
<1>5. Authorized(e)'
  BY <1>1, <1>2, <1>3 DEF Authorized, NoRows, SameRow
<1>6. Matches(e)'
  BY <1>1, <1>2 DEF EventTruth, Matches, SameRow, Decided, Withheld
<1> QED  BY <1>4, <1>5, <1>6 DEF EventTruth

\* So an outcome's path ends in the state the outcome leaves.
LEMMA JoinedEnd ==
  ASSUME NEW before \in Seq(RecoveryState), NEW o \in Outcome
  PROVE  Last(before \o outcomePath(o)) = StateAfter(o)
<1> DEFINE path == outcomePath(o)
<1>1. path \in Seq(RecoveryState) /\ path # <<>> /\ Last(path) = StateAfter(o)
  BY OutcomePathLegal
<1> HIDE DEF path
<1>2. Len(path) \in Nat /\ Len(path) > 0
  BY <1>1, LenProperties, EmptySeq
<1> QED  BY <1>1, <1>2, ConcatEnds DEF Last, path

\* The last state of what Record appends, and the columns it writes.
LEMMA RecordShows ==
  ASSUME TypeOK, NEW k \in Key, NEW o \in Outcome, NEW before \in Seq(RecoveryState), Record(k, o, before),
         outcome[k] = "none"
  PROVE  /\ astatus'[k] = StatusOf(o) /\ astatus'[k] \notin {"none", "pending"}
         /\ \A l \in Key \ {k} : astatus'[l] = astatus[l] /\ outcome'[l] = outcome[l]
         /\ o = "pending_confirmation" => outcome'[k] = "none" /\ recovery_state'[k[1]] = "ACTION_PENDING"
         /\ o = "recovered" => outcome'[k] = "recovered" /\ recovery_state'[k[1]] = "DONE"
         /\ o \in {"dispatched", "failed"} =>
              outcome'[k] = "not_recovered" /\ recovery_state'[k[1]] = "STOPPED"
         /\ o # "pending_confirmation" => astatus'[k] # "pending_confirmation"
<1>1. Last(before \o outcomePath(o)) = StateAfter(o)
  BY JoinedEnd
<1>2. k[1] \in Event
  BY DEF Key
<1> QED  BY <1>1, <1>2 DEF Record, TypeOK, TablesOK, StatusOf, StateAfter, Outcome

\* An action is inserted or settled: the decision moves with it.
LEMMA WritesTruth ==
  ASSUME TypeOK, LedgerConsistent, NEW e \in Event, EventTruth(e), Records(e) \/ Settles(e)
  PROVE  EventTruth(e)'
<1>1. PICK k \in Key, o \in Outcome, before \in Seq(RecoveryState) :
         /\ Record(k, o, before) /\ k = <<e, chosen_action[e]>>
         /\ outcome[k] = "none" /\ chosen_action[e] # "no_action" /\ policy_result[e] = "ALLOW"
         /\ sent[k] <= 1 /\ Decided(e)
  <2>1. CASE Records(e)
    <3>1. /\ IdempotencyKey(e) \in Key /\ job[e].out \in Outcome /\ history[e] \in Seq(RecoveryState)
          /\ IdempotencyKey(e) = <<e, chosen_action[e]>>
          /\ astatus[IdempotencyKey(e)] = "none" /\ Record(IdempotencyKey(e), job[e].out, history[e])
          /\ chosen_action[e] # "no_action" /\ policy_result[e] = "ALLOW" /\ Decided(e)
      BY <2>1 DEF Records, IdempotencyKey, Key, TypeOK, RunsOK, PcOK, Proc, EventTruth, RunTruth
    <3>2. outcome[IdempotencyKey(e)] = "none" /\ sent[IdempotencyKey(e)] <= 1
      BY <3>1 DEF LedgerConsistent, EventTruth, Authorized, TypeOK, WorldOK, Key
    <3> QED  BY <3>1, <3>2
  <2>2. CASE Settles(e)
    <3>1. PICK k \in Key, o \in Outcome :
            k[1] = e /\ astatus[k] = "pending_confirmation" /\ Record(k, o, <<>>)
      BY <2>2 DEF Settles
    <3>2. k = <<e, k[2]>> /\ k[2] \in Action
      BY <3>1 DEF Key
    <3>3. chosen_action[e] = k[2] /\ k[2] # "no_action" /\ policy_result[e] = "ALLOW" /\ sent[k] <= 1
      BY <3>1, <3>2 DEF EventTruth, Authorized
    <3>4. outcome[k] = "none" /\ Decided(e) /\ <<>> \in Seq(RecoveryState)
      BY <3>1 DEF LedgerConsistent
    <3> QED  BY <3>1, <3>2, <3>3, <3>4
  <2> QED  BY <2>1, <2>2
<1>2. /\ SameRun(e) /\ UNCHANGED <<chosen_action, policy_result, sent>>
      /\ pc'[e] = "end" \/ (pc'[e] = pc[e] /\ ~NoRows(e))
  BY DEF Records, Settles, NoRows, Key
<1>3. /\ astatus'[k] \notin {"none", "pending"}
      /\ \A l \in Key \ {k} : astatus'[l] = astatus[l] /\ outcome'[l] = outcome[l]
      /\ o = "pending_confirmation" => outcome'[k] = "none" /\ recovery_state'[e] = "ACTION_PENDING"
      /\ o = "recovered" => outcome'[k] = "recovered" /\ recovery_state'[e] = "DONE"
      /\ o \in {"dispatched", "failed"} => outcome'[k] = "not_recovered" /\ recovery_state'[e] = "STOPPED"
      /\ o # "pending_confirmation" => astatus'[k] # "pending_confirmation"
  BY <1>1, RecordShows
<1>4. Decided(e)' /\ ~NoRows(e)'
  BY <1>1, <1>3 DEF Decided, Outcome, NoRows, Key
<1>5. RunTruth(e)'
  BY <1>1, <1>2, <1>4 DEF EventTruth, RunTruth, SameRun
<1>6. Authorized(e)'
  <2> SUFFICES ASSUME NEW a \in Action, sent'[<<e, a>>] > 0 \/ astatus'[<<e, a>>] # "none"
               PROVE  /\ chosen_action'[e] = a /\ a # "no_action" /\ policy_result'[e] = "ALLOW"
                      /\ sent'[<<e, a>>] <= 1
    BY DEF Authorized
  <2>1. CASE <<e, a>> = k
    BY <1>1, <1>2, <2>1
  <2>2. CASE <<e, a>> # k
    <3>1. <<e, a>> \in Key /\ astatus'[<<e, a>>] = astatus[<<e, a>>]
      BY <1>3, <2>2 DEF Key
    <3> QED  BY <1>2, <3>1 DEF EventTruth, Authorized
  <2> QED  BY <2>1, <2>2
<1>7. Matches(e)'
  BY <1>1, <1>2, <1>3 DEF Matches, Outcome
<1> QED  BY <1>5, <1>6, <1>7 DEF EventTruth

-----------------------------------------------------------------------------
(* The audit trail.  It has at most three entries: the decision, what its   *)
(* dispatch ended in, and, of an action left pending, the settlement.       *)

Trail(log, state) ==
  \/ state = "ACTION_SELECTED" /\ log = <<Selected>>
  \/ state = "STOPPED" /\ \E d \in Withholding : log = <<d>>
  \/ \E o \in Outcome : state = StateAfter(o) /\ log = <<Selected, Selected \o outcomePath(o)>>
  \/ \E o \in Outcome \ {"pending_confirmation"} :
       state = StateAfter(o)
       /\ log = <<Selected, Selected \o outcomePath("pending_confirmation"), outcomePath(o)>>

AuditTruth(e) ==
  /\ ~Decided(e) => audit_log[e] = <<>>
  /\ Decided(e) => Trail(audit_log[e], recovery_state[e])
  /\ pc[e] \in {"dispatch", "call", "persist"} => history[e] = Selected

\* A step that is none of the writers leaves the trail alone.
LEMMA AuditStill ==
  ASSUME TypeOK, NEW e \in Event, AuditTruth(e), Still(e) \/ Loads(e) \/ Sends(e)
  PROVE  AuditTruth(e)'
<1>1. /\ SameRow(e)
      /\ pc'[e] \in {"dispatch", "call", "persist"} =>
           pc[e] \in {"dispatch", "call", "persist"} /\ history'[e] = history[e]
  BY DEF Still, Loads, Sends, SameRun, Moved
<1>2. audit_log'[e] = audit_log[e] /\ recovery_state'[e] = recovery_state[e]
  BY <1>1 DEF SameRow
<1> QED  BY <1>1, <1>2 DEF AuditTruth, Decided

\* What an entry makes of a trail of one or two.
LEMMA AppendEntry ==
  ASSUME NEW a, NEW b, NEW c
  PROVE  Append(<<a>>, b) = <<a, b>> /\ Append(<<a, b>>, c) = <<a, b, c>>
<1> DEFINE S == {a, b, c}
<1>1. ASSUME NEW s \in Seq(S), NEW t \in Seq(S), NEW x \in S, Len(t) = Len(s) + 1,
             t[Len(t)] = x, \A i \in 1 .. Len(s) : t[i] = s[i]
      PROVE  Append(s, x) = t
  <2>1. /\ Append(s, x) \in Seq(S) /\ Len(Append(s, x)) = Len(t) /\ Len(s) \in Nat
        /\ \A i \in 1 .. Len(s) : Append(s, x)[i] = s[i]
        /\ Append(s, x)[Len(s) + 1] = x
    BY <1>1, AppendProperties, LenProperties
  <2>2. \A i \in 1 .. Len(t) : Append(s, x)[i] = t[i]
    BY <1>1, <2>1
  <2> QED  BY <2>1, <2>2, SeqEqual
<1>2. Append(<<a>>, b) = <<a, b>>
  <2> DEFINE s == <<a>>
             t == <<a, b>>
  <2>1. s \in Seq(S) /\ t \in Seq(S) /\ b \in S /\ Len(t) = Len(s) + 1 /\ t[Len(t)] = b
        /\ \A i \in 1 .. Len(s) : t[i] = s[i]
    OBVIOUS
  <2> HIDE DEF s, t, S
  <2>2. Append(s, b) = t
    BY <1>1, <2>1
  <2> QED  BY <2>2 DEF s, t
<1>3. Append(<<a, b>>, c) = <<a, b, c>>
  <2> DEFINE s == <<a, b>>
             t == <<a, b, c>>
  <2>1. s \in Seq(S) /\ t \in Seq(S) /\ c \in S /\ Len(t) = Len(s) + 1 /\ t[Len(t)] = c
        /\ \A i \in 1 .. Len(s) : t[i] = s[i]
    OBVIOUS
  <2> HIDE DEF s, t, S
  <2>2. Append(s, c) = t
    BY <1>1, <2>1
  <2> QED  BY <2>2 DEF s, t
<1> QED  BY <1>2, <1>3

\* A pending action has the decision and its dispatch behind it.
LEMMA AuditPending ==
  ASSUME NEW log, Trail(log, "ACTION_PENDING")
  PROVE  log = <<Selected, Selected \o outcomePath("pending_confirmation")>>
<1>1. \A o \in Outcome : StateAfter(o) = "ACTION_PENDING" => o = "pending_confirmation"
  BY DEF StateAfter, Outcome
<1> QED  BY <1>1 DEF Trail

\* PersistDecision starts it.
LEMMA AuditDecides ==
  ASSUME TypeOK, NEW e \in Event, EventTruth(e), AuditTruth(e), Decides(e)
  PROVE  AuditTruth(e)'
<1>1. PICK d \in Diagnoses, erv \in Scores :
         LET dec == DecisionFor(e, d, erv) IN
         /\ recovery_state'[e] = dec.state
         /\ audit_log'[e] = Append(audit_log[e], dec.path) /\ history'[e] = dec.path
         /\ pc'[e] = "end" \/ (pc'[e] = "dispatch" /\ dec.state = "ACTION_SELECTED")
  BY DEF Decides
<1>2. d.candidates \in Seq(Action) /\ erv \in [Action -> Int]
  BY DataAssumption
<1> DEFINE dec == DecisionFor(e, d, erv)
           f == Facts(e, d)
           r == ResolveMerchantPolicy(MerchantPolicy[MerchantOf[PaymentOf[e]]], PlatformPolicy)
<1>3. dec = Decide(d.candidates, erv, f, r)
  BY DEF DecisionFor
<1> HIDE DEF f, r, dec
<1>4. /\ dec.path = decisionPath(dec, f) /\ dec.state = Last(dec.path)
      /\ dec.state \in {"ACTION_SELECTED", "STOPPED"}
  BY <1>2, <1>3, DecideSound
<1>5. /\ dec.state = "ACTION_SELECTED" => dec.path = Selected
      /\ dec.state = "STOPPED" => dec.path \in Withholding
  <2>1. dec.path \in Withholding \cup {Selected}
    BY <1>4, Zenon DEF decisionPath, Withholding, Selected
  <2>2. Last(Selected) = "ACTION_SELECTED" /\ \A w \in Withholding : Last(w) = "STOPPED"
    BY DEF Last, Selected, Withholding
  <2> QED  BY <1>4, <2>1, <2>2
<1>6. audit_log[e] = <<>>
  BY DEF Decides, EventTruth, RunTruth, AuditTruth
<1>7. audit_log'[e] = <<dec.path>>
  BY <1>1, <1>6 DEF dec
<1>8. Trail(audit_log'[e], recovery_state'[e])
  BY <1>1, <1>4, <1>5, <1>7 DEF Trail, dec
<1>9. pc'[e] \in {"dispatch", "call", "persist"} => history'[e] = Selected
  BY <1>1, <1>5 DEF dec
<1>10. Decided(e)'
  BY <1>1, <1>4 DEF Decided, dec
<1> QED  BY <1>8, <1>9, <1>10 DEF AuditTruth

\* FinalizeExecution, RecordPendingAction and SettleAction continue it.
LEMMA AuditWrites ==
  ASSUME TypeOK, LedgerConsistent, NEW e \in Event, EventTruth(e), AuditTruth(e),
         Records(e) \/ Settles(e)
  PROVE  AuditTruth(e)'
<1>1. CASE Records(e)
  <2> DEFINE k == IdempotencyKey(e)
             o == job[e].out
  <2>1. /\ k \in Key /\ k[1] = e /\ o \in Outcome /\ k = <<e, chosen_action[e]>> /\ Decided(e)
        /\ history[e] = Selected /\ astatus[k] = "none" /\ ~Withheld(e) /\ Record(k, o, history[e])
    BY <1>1 DEF Records, IdempotencyKey, Key, TypeOK, RunsOK, PcOK, Proc, EventTruth, RunTruth, AuditTruth,
       NoRows, Withheld
  <2> HIDE DEF k, o
  <2>2. recovery_state[e] = "ACTION_SELECTED"
    BY <2>1 DEF EventTruth, Matches
  <2>3. audit_log[e] = <<Selected>>
    <3>1. \A p \in Outcome : StateAfter(p) # "ACTION_SELECTED"
      BY DEF StateAfter, Outcome
    <3> QED  BY <2>1, <2>2, <3>1 DEF AuditTruth, Trail
  <2>4. Selected \in Seq(RecoveryState)
    BY DEF Selected, RecoveryState
  <2>5. /\ audit_log'[e] = Append(audit_log[e], Selected \o outcomePath(o))
        /\ recovery_state'[e] = Last(Selected \o outcomePath(o))
    BY <2>1 DEF Record, TypeOK, TablesOK
  <2>6. Last(Selected \o outcomePath(o)) = StateAfter(o)
    BY <2>1, <2>4, JoinedEnd
  <2>7. audit_log'[e] = <<Selected, Selected \o outcomePath(o)>>
    BY <2>3, <2>5, AppendEntry, Zenon
  <2>8. Trail(audit_log'[e], recovery_state'[e]) /\ recovery_state'[e] # "none"
    BY <2>1, <2>5, <2>6, <2>7 DEF Trail, StateAfter
  <2>9. pc'[e] = "end"
    BY <1>1 DEF Records
  <2> QED  BY <2>8, <2>9 DEF AuditTruth, Decided
<1>2. CASE Settles(e)
  <2>1. PICK k \in Key, o \in Outcome \ {"pending_confirmation"} :
          k[1] = e /\ astatus[k] = "pending_confirmation" /\ Record(k, o, <<>>)
    BY <1>2 DEF Settles
  <2>2. k = <<e, k[2]>> /\ k[2] \in Action
    BY <2>1 DEF Key
  <2>3. chosen_action[e] = k[2] /\ Decided(e)
    BY <2>1, <2>2 DEF EventTruth, Authorized, LedgerConsistent
  <2>4. recovery_state[e] = "ACTION_PENDING"
    BY <2>1, <2>2, <2>3 DEF EventTruth, Matches
  <2>5. Trail(audit_log[e], "ACTION_PENDING")
    BY <2>3, <2>4 DEF AuditTruth
  <2>6. audit_log[e] = <<Selected, Selected \o outcomePath("pending_confirmation")>>
    BY <2>5, AuditPending
  <2>7. /\ audit_log'[e] = Append(audit_log[e], <<>> \o outcomePath(o))
        /\ recovery_state'[e] = Last(<<>> \o outcomePath(o))
    BY <2>1 DEF Record, TypeOK, TablesOK
  <2>8. <<>> \o outcomePath(o) = outcomePath(o) /\ Last(outcomePath(o)) = StateAfter(o)
    BY OutcomePathLegal, ConcatEmptySeq
  <2>9. audit_log'[e] = <<Selected, Selected \o outcomePath("pending_confirmation"), outcomePath(o)>>
    BY <2>6, <2>7, <2>8, AppendEntry, Zenon
  <2>10. Trail(audit_log'[e], recovery_state'[e]) /\ recovery_state'[e] # "none"
    BY <2>7, <2>8, <2>9 DEF Trail, StateAfter
  <2>11. pc'[e] \in {"dispatch", "call", "persist"} => history'[e] = Selected
    BY <1>2 DEF Settles, SameRun, AuditTruth
  <2> QED  BY <2>10, <2>11 DEF AuditTruth, Decided
<1> QED  BY <1>1, <1>2

DecisionInvariant == LedgerInvariant /\ \A e \in Event : EventTruth(e) /\ AuditTruth(e)

\* Nothing is decided in the empty database.
LEMMA DecisionInit == Init => DecisionInvariant
<1> SUFFICES ASSUME Init PROVE DecisionInvariant
  OBVIOUS
<1>1. \A e \in Event, a \in Action : <<e, a>> \in Key
  BY DEF Key
<1> QED  BY <1>1, LedgerInit DEF DecisionInvariant, Init, EventTruth, AuditTruth, RunTruth,
         Authorized, Matches, Decided, NoRows, NothingSent, Proc

\* The invariant is inductive, event by event.
LEMMA DecisionStep ==
  ASSUME Caller = {}, DecisionInvariant, [Next]_vars
  PROVE  DecisionInvariant'
<1>1. LedgerInvariant'
  BY LedgerStep DEF DecisionInvariant
<1>2. TypeOK /\ LedgerConsistent /\ SweepTruth /\ OwnJob
  BY DEF DecisionInvariant, LedgerInvariant, OwnJob, EventTruth, RunTruth
<1>3. ASSUME NEW e \in Event  PROVE EventTruth(e)' /\ AuditTruth(e)'
  <2>1. Still(e) \/ Loads(e) \/ Decides(e) \/ Sends(e) \/ Records(e) \/ Settles(e)
    BY <1>2, StepKind
  <2>2. EventTruth(e)'
    BY <1>2, <2>1, StillTruth, DecidesTruth, SendsTruth, WritesTruth DEF DecisionInvariant
  <2>3. AuditTruth(e)'
    BY <1>2, <2>1, AuditStill, AuditDecides, AuditWrites DEF DecisionInvariant
  <2> QED  BY <2>2, <2>3
<1> QED  BY <1>1, <1>3 DEF DecisionInvariant

\* So it always holds, when nobody calls execute-action.
LEMMA DecisionAlways == ASSUME Caller = {} PROVE Spec => []DecisionInvariant
<1>1. DecisionInvariant /\ [Next]_vars => DecisionInvariant'
  BY DecisionStep
<1> QED  BY <1>1, DecisionInit, PTL DEF Spec

\* Nothing is sent or recorded but the action the policy engine ALLOWed for the event's one
\* decision, and it is sent at most once (Process, and the order of its transactions).
THEOREM AuthorizedOnce == ASSUME Caller = {} PROVE Spec => []OnlyAuthorizedOnce
<1>1. DecisionInvariant => OnlyAuthorizedOnce
  BY DEF DecisionInvariant, EventTruth, Authorized, OnlyAuthorizedOnce
<1> QED  BY <1>1, DecisionAlways, PTL

\* What the dashboard shows of a decision is what its action's rows say (FinalizeExecution,
\* RecordPendingAction, SettleAction, and what PersistDecision stores).
THEOREM MatchesLedger == ASSUME Caller = {} PROVE Spec => []DecisionMatchesLedger
<1>1. DecisionInvariant => DecisionMatchesLedger
  <2> SUFFICES ASSUME DecisionInvariant, NEW e \in Event, Decided(e)
               PROVE  LET k == <<e, chosen_action[e]>> IN
                      recovery_state[e] =
                        CASE astatus[k] = "pending_confirmation" -> "ACTION_PENDING"
                          [] outcome[k] = "recovered"            -> "DONE"
                          [] outcome[k] = "not_recovered"        -> "STOPPED"
                          [] Withheld(e)                         -> "STOPPED"
                          [] OTHER                               -> "ACTION_SELECTED"
    BY DEF DecisionMatchesLedger
  <2> DEFINE k == <<e, chosen_action[e]>>
  <2>1. k \in Key /\ chosen_action[e] \in Action
    BY DEF DecisionInvariant, EventTruth, Matches, Key
  <2>2. /\ astatus[k] \in {"pending_confirmation", "confirmed", "failed", "none"}
        /\ outcome[k] \in {"recovered", "not_recovered", "none"}
        /\ astatus[k] \in {"confirmed", "failed"} <=> outcome[k] # "none"
        /\ astatus[k] # "none" => ~Withheld(e)
    BY <2>1 DEF DecisionInvariant, EventTruth, Matches, Authorized, LedgerInvariant, TypeOK, TablesOK,
       ActionStatus, LedgerConsistent, Withheld
  <2>3. /\ astatus[k] = "pending_confirmation" => recovery_state[e] = "ACTION_PENDING"
        /\ outcome[k] = "recovered" => recovery_state[e] = "DONE"
        /\ outcome[k] = "not_recovered" => recovery_state[e] = "STOPPED"
        /\ astatus[k] = "none" /\ Withheld(e) => recovery_state[e] = "STOPPED"
        /\ astatus[k] = "none" /\ ~Withheld(e) => recovery_state[e] = "ACTION_SELECTED"
    BY DEF DecisionInvariant, EventTruth, Matches
  <2> HIDE DEF k
  <2> QED  BY <2>2, <2>3 DEF k
<1> QED  BY <1>1, DecisionAlways, PTL

\* A run whose context was loaded with a kill switch on dispatches nothing (rule 1 of
\* Evaluate, and the stop of Process).
THEOREM KillSwitchHolds == ASSUME Caller = {} PROVE Spec => []KillSwitchRespected
<1>1. DecisionInvariant => KillSwitchRespected
  <2> SUFFICES ASSUME DecisionInvariant, NEW e \in Event, Decided(e), ctx[e].kill \/ ctx[e].globalKill
               PROVE  /\ recovery_state[e] = "STOPPED" /\ chosen_action[e] = "no_action"
                      /\ \A a \in Action : sent[<<e, a>>] = 0 /\ astatus[<<e, a>>] = "none"
    BY DEF KillSwitchRespected
  <2>1. chosen_action[e] = "no_action"
    BY DEF DecisionInvariant, EventTruth, RunTruth
  <2>2. ASSUME NEW a \in Action  PROVE sent[<<e, a>>] = 0 /\ astatus[<<e, a>>] = "none"
    <3>1. ~(sent[<<e, a>>] > 0 \/ astatus[<<e, a>>] # "none")
      BY <2>1 DEF DecisionInvariant, EventTruth, Authorized
    <3>2. sent[<<e, a>>] \in Nat
      BY DEF DecisionInvariant, LedgerInvariant, TypeOK, WorldOK, Key
    <3> QED  BY <3>1, <3>2
  <2>3. recovery_state[e] = "STOPPED"
    BY <2>1, <2>2 DEF DecisionInvariant, EventTruth, Matches, Withheld, Action
  <2> QED  BY <2>1, <2>2, <2>3
<1> QED  BY <1>1, DecisionAlways, PTL

\* STOPPED and DONE are terminal (recovery/state.go): nothing decides an event twice, records
\* the action of a withheld decision, or settles an action that has its outcome.
THEOREM TerminalHolds == ASSUME Caller = {} PROVE Spec => TerminalStays
<1>1. ASSUME DecisionInvariant, [Next]_vars, NEW e \in Event, Decided(e), Terminal(recovery_state[e])
      PROVE  recovery_state'[e] = recovery_state[e]
  <2>1. /\ TypeOK /\ OwnJob /\ SweepTruth /\ RunTruth(e) /\ Authorized(e) /\ Matches(e)
    BY <1>1 DEF DecisionInvariant, LedgerInvariant, OwnJob, EventTruth, RunTruth
  <2>2. recovery_state[e] \notin {"ACTION_SELECTED", "ACTION_PENDING"}
    <3>1. /\ CanTransition("ACTION_SELECTED", "DONE") /\ CanTransition("ACTION_PENDING", "FAILED")
          /\ {"DONE", "FAILED"} \subseteq RecoveryState
      BY DEF CanTransition, transitions, RecoveryState
    <3> QED  BY <1>1, <3>1 DEF Terminal
  <2>3. ~Decides(e)
    BY <1>1, <2>1 DEF Decides, RunTruth
  <2>4. ~Records(e)
    BY <1>1, <2>1, <2>2 DEF Records, RunTruth, Matches, NoRows, Withheld, Key
  <2>5. ~Settles(e)
    <3> SUFFICES ASSUME NEW k \in Key, k[1] = e, astatus[k] = "pending_confirmation"  PROVE FALSE
      BY DEF Settles
    <3>1. k = <<e, k[2]>> /\ k[2] \in Action
      BY DEF Key
    <3>2. chosen_action[e] = k[2]
      BY <2>1, <3>1 DEF Authorized
    <3> QED  BY <1>1, <2>1, <2>2, <3>1, <3>2 DEF Matches
  <2> QED  BY <1>1, <2>1, <2>3, <2>4, <2>5, StepKind DEF Still, Loads, Sends, SameRow
<1>2. DecisionInvariant /\ [Next]_vars =>
        [\A e \in Event : Decided(e) /\ Terminal(recovery_state[e]) =>
           recovery_state'[e] = recovery_state[e]]_vars
  BY <1>1
<1> QED  BY <1>2, DecisionAlways, PTL DEF Spec, TerminalStays

\* The audit trail replays the decision (state_history of every audit entry): its entries are
\* paths of the transition graph, each continues the one before, and the last ends in the
\* stored recovery_state.
THEOREM AuditAlwaysReplays == ASSUME Caller = {} PROVE Spec => []AuditReplays
<1>1. ASSUME NEW o \in Outcome
      PROVE  LET walk == Selected \o outcomePath(o) IN
             /\ LegalPath(walk) /\ IsPrefix(Selected, walk) /\ Last(walk) = StateAfter(o)
  <2>1. Selected \in Seq(RecoveryState) /\ Selected # <<>> /\ LegalPath(Selected)
        /\ Last(Selected) = "ACTION_SELECTED"
    BY DecisionPathsLegal DEF Selected, Last
  <2>2. CanTransition("ACTION_SELECTED", "ACTION_PENDING")
    BY DEF CanTransition, transitions
  <2> QED  BY <2>1, <2>2, OutcomePathLegal, JoinedPath, JoinedEnd
<1>2. ASSUME NEW log, NEW state, Trail(log, state)
      PROVE  /\ log # <<>>
             /\ \A i \in DOMAIN log : LegalPath(log[i])
             /\ \A i \in 1 .. Len(log) - 1 : Continues(log[i], log[i + 1])
             /\ state = Last(Last(log))
  <2>1. CASE \E d \in Withholding \cup {Selected} : log = <<d>> /\ state = Last(d)
    BY <2>1, DecisionPathsLegal DEF Last
  <2>2. ASSUME NEW o \in Outcome, state = StateAfter(o), log = <<Selected, Selected \o outcomePath(o)>>
        PROVE  /\ \A i \in DOMAIN log : LegalPath(log[i])
               /\ \A i \in 1 .. Len(log) - 1 : Continues(log[i], log[i + 1])
               /\ state = Last(Last(log)) /\ log # <<>>
    <3> DEFINE walk == Selected \o outcomePath(o)
    <3>1. LegalPath(Selected) /\ LegalPath(walk) /\ Continues(Selected, walk) /\ Last(walk) = state
      BY <1>1, <2>2, DecisionPathsLegal DEF Continues
    <3>2. log = <<Selected, walk>>
      BY <2>2
    <3> HIDE DEF walk
    <3> QED  BY <3>1, <3>2 DEF Last
  <2>3. ASSUME NEW o \in Outcome, state = StateAfter(o),
               log = <<Selected, Selected \o outcomePath("pending_confirmation"), outcomePath(o)>>
        PROVE  /\ \A i \in DOMAIN log : LegalPath(log[i])
               /\ \A i \in 1 .. Len(log) - 1 : Continues(log[i], log[i + 1])
               /\ state = Last(Last(log)) /\ log # <<>>
    <3> DEFINE walk == Selected \o outcomePath("pending_confirmation")
               path == outcomePath(o)
    <3>1. "pending_confirmation" \in Outcome /\ StateAfter("pending_confirmation") = "ACTION_PENDING"
      BY DEF Outcome, StateAfter
    <3>2. LegalPath(Selected) /\ LegalPath(walk) /\ LegalPath(path)
          /\ Continues(Selected, walk) /\ Last(walk) = "ACTION_PENDING"
          /\ Head(path) = "ACTION_PENDING" /\ Last(path) = state
      BY <1>1, <2>3, <3>1, DecisionPathsLegal, OutcomePathLegal DEF Continues
    <3>3. log = <<Selected, walk, path>>
      BY <2>3
    <3> HIDE DEF walk, path
    <3>4. Continues(walk, path)
      BY <3>2 DEF Continues
    <3> QED  BY <3>2, <3>3, <3>4 DEF Last
  <2>4. Last(Selected) = "ACTION_SELECTED" /\ \A d \in Withholding : Last(d) = "STOPPED"
    BY DEF Last, Selected, Withholding
  <2> QED  BY <1>2, <2>1, <2>2, <2>3, <2>4 DEF Trail
<1>3. DecisionInvariant => AuditReplays
  <2> SUFFICES ASSUME DecisionInvariant, NEW e \in Event
               PROVE  LET log == audit_log[e] IN
                      /\ \A i \in DOMAIN log : LegalPath(log[i])
                      /\ \A i \in 1 .. Len(log) - 1 : Continues(log[i], log[i + 1])
                      /\ IF log = <<>> THEN ~Decided(e) ELSE recovery_state[e] = Last(Last(log))
    BY DEF AuditReplays
  <2>1. CASE Decided(e)
    <3>1. Trail(audit_log[e], recovery_state[e])
      BY <2>1 DEF DecisionInvariant, AuditTruth
    <3> QED  BY <1>2, <3>1
  <2>2. CASE ~Decided(e)
    <3>1. audit_log[e] = <<>>
      BY <2>2 DEF DecisionInvariant, AuditTruth
    <3> QED  BY <2>2, <3>1
  <2> QED  BY <2>1, <2>2
<1> QED  BY <1>3, DecisionAlways, PTL

-----------------------------------------------------------------------------
(* The spacing of a payment's retries.  What LoadContext counted was live   *)
(* and at least ctx.sinceRetry old then; rows are never lost or restamped   *)
(* and the clock only advances, so it is still there when the run decides,  *)
(* sends and records, and only older.                                       *)

SpacingTruth(e) ==
  /\ pc[e] = "decide" =>
       /\ ctx[e].retries > 0 => ctx[e].hasPriorRetry
       /\ Cardinality(retriesBefore(e, clock, ctx[e].sinceRetry)) >= ctx[e].retries
  /\ pc[e] \in {"dispatch", "call", "persist"} /\ IsRetry(chosen_action[e]) =>
       Cardinality(retriesBefore(e, clock, Cooldown(e))) >= ctx[e].retries
  /\ \A a \in Action : astatus[<<e, a>>] # "none" /\ IsRetry(a) =>
       Cardinality(retriesBefore(e, executed_at[<<e, a>>], Cooldown(e))) >= ctx[e].retries

\* The cooldown in force is a number of minutes.
LEMMA CooldownType == ASSUME NEW e \in Event PROVE Cooldown(e) \in Int
<1>1. MerchantPolicy[MerchantOf[PaymentOf[e]]] \in MerchantRow /\ PlatformPolicy \in PlatformRow
  BY TableAssumption, DataAssumption
<1> QED  BY <1>1 DEF Cooldown, ResolveMerchantPolicy, atLeast, MerchantRow, PlatformRow

\* There are finitely many retries, and fewer with a longer gap or an earlier time.
LEMMA FewerRetries ==
  ASSUME TypeOK, NEW e \in Event, NEW t \in Int, NEW gap \in Int, NEW u \in Int, NEW shorter \in Int,
         t - gap <= u - shorter
  PROVE  /\ Cardinality(retriesBefore(e, t, gap)) \in Nat
         /\ Cardinality(retriesBefore(e, t, gap)) <= Cardinality(retriesBefore(e, u, shorter))
<1>1. retriesBefore(e, t, gap) \subseteq retriesBefore(e, u, shorter)
  BY DEF retriesBefore, TypeOK, TablesOK, WorldOK
<1>2. IsFiniteSet(retriesBefore(e, u, shorter))
  BY KeyFinite, FS_Subset DEF retriesBefore
<1> QED  BY <1>1, <1>2, FS_Subset, FS_CardinalityType

\* A step loses no retry.
LEMMA RetriesStay ==
  ASSUME LedgerInvariant, TypeOK', [Next]_vars, NEW e \in Event, NEW t, NEW gap
  PROVE  /\ Cardinality(retriesBefore(e, t, gap)) \in Nat
         /\ Cardinality(retriesBefore(e, t, gap)') \in Nat
         /\ Cardinality(retriesBefore(e, t, gap)) <= Cardinality(retriesBefore(e, t, gap)')
<1>1. retriesBefore(e, t, gap) \subseteq retriesBefore(e, t, gap)'
  BY RowsStay DEF retriesBefore
<1>2. IsFiniteSet(retriesBefore(e, t, gap)')
  BY KeyFinite, FS_Subset DEF retriesBefore
<1> QED  BY <1>1, <1>2, FS_Subset, FS_CardinalityType

\* Time does not go back.
LEMMA ClockAdvances == ASSUME TypeOK, [Next]_vars PROVE clock <= clock' /\ clock \in Int /\ clock' \in Int
<1>1. clock \in Int
  BY DEF TypeOK, WorldOK
<1>2. UNCHANGED clock \/ clock' = clock + 1
  <2> USE DEF world
  <2>1. ASSUME NEW e \in Event, Webhook(e) \/ Pipeline(e)  PROVE UNCHANGED clock
    BY <2>1 DEF Webhook, Ingest, IngestReplyLost, IngestDuplicate, Pipeline, LoadContext,
       PersistDecision, PersistDecisionReplyLost, InsertDecision, Expire
  <2>2. ASSUME NEW x \in Caller, Endpoint(x)  PROVE UNCHANGED clock
    BY <2>2 DEF Endpoint, ExecuteAction, Disconnect
  <2>3. ASSUME NEW p \in Proc, Execution(p)  PROVE UNCHANGED clock
    BY <2>3 DEF Execution, DispatchOutOfBand, DispatchMock, DispatchSend, DispatchExpired, GatewayReplies,
       CallAmbiguous, TransportError, RecordPendingAction, FinalizeExecution, InsertAction,
       DuplicateDispatch, TransactionFails
  <2>4. ASSUME NEW s \in Sweeper, Reconciliation(s)  PROVE UNCHANGED clock
    BY <2>4 DEF Reconciliation, LoadPendingConfirmations, SettleFails, Resolve, ResolveAmbiguous, SettleAction
  <2>5. CASE Environment
    BY <2>5 DEF Environment, SetMerchantKillSwitch, SetGlobalKillSwitch, GatewayHandles, GatewayCaptures,
       Tick, Crash
  <2>6. CASE UNCHANGED vars
    BY <2>6 DEF vars
  <2> QED  BY <2>1, <2>2, <2>3, <2>4, <2>5, <2>6 DEF Next
<1> QED  BY <1>1, <1>2

\* LoadContext: what is counted has been recorded, for other events, and is old enough.
LEMMA LoadsSpacing ==
  ASSUME TypeOK, TypeOK', NEW e \in Event, NoRows(e), Loads(e)
  PROVE  /\ ctx'[e].retries > 0 => ctx'[e].hasPriorRetry
         /\ Cardinality(retriesBefore(e, clock, ctx[e].sinceRetry)') >= ctx'[e].retries
<1> DEFINE R == retryActions(PaymentOf[e])
           ages == {clock - executed_at[k] : k \in R}
<1>1. /\ ctx'[e].retries = Cardinality(R) /\ ctx'[e].hasPriorRetry = (ages # {})
      /\ ctx'[e].sinceRetry = IF ages = {} THEN 0 ELSE Min(ages)
      /\ UNCHANGED <<astatus, executed_at, clock>>
  BY DEF Loads
<1>2. IsFiniteSet(R)
  BY KeyFinite, FS_Subset DEF retryActions, Live
<1>3. ctx'[e].retries > 0 => ctx'[e].hasPriorRetry
  <2>1. CASE R = {}
    BY <1>1, <2>1, FS_EmptySet
  <2>2. CASE R # {}
    BY <1>1, <2>2
  <2> QED  BY <2>1, <2>2
<1>4. R \subseteq retriesBefore(e, clock, ctx[e].sinceRetry)'
  <2> SUFFICES ASSUME NEW l \in R  PROVE l \in retriesBefore(e, clock, ctx[e].sinceRetry)'
    OBVIOUS
  <2>1. /\ l \in Key /\ astatus[l] # "none" /\ IsRetry(l[2]) /\ PaymentOf[l[1]] = PaymentOf[e]
    BY DEF retryActions, Live
  <2>2. l[1] # e
    BY <2>1 DEF NoRows, Key
  <2>3. ages \in SUBSET Nat /\ clock - executed_at[l] \in ages
    BY DEF retryActions, Live, TypeOK, TablesOK, WorldOK
  <2>4. clock - executed_at[l] >= Min(ages) /\ ages # {}
    <3> HIDE DEF ages
    <3>1. Min(ages) \in Nat /\ Min(ages) <= clock - executed_at[l]
      BY <2>3, MinOfNat
    <3> QED  BY <2>3, <3>1
  <2> HIDE DEF ages, R
  <2>5. clock' - executed_at'[l] >= ctx'[e].sinceRetry
    BY <1>1, <2>4
  <2> QED  BY <1>1, <2>1, <2>2, <2>5 DEF retriesBefore
<1>5. Cardinality(R) <= Cardinality(retriesBefore(e, clock, ctx[e].sinceRetry)')
  <2>1. IsFiniteSet(retriesBefore(e, clock, ctx[e].sinceRetry)')
    BY KeyFinite, FS_Subset DEF retriesBefore
  <2> QED  BY <1>4, <2>1, FS_Subset
<1>6. /\ Cardinality(R) \in Nat
      /\ Cardinality(retriesBefore(e, clock, ctx[e].sinceRetry)') \in Nat
  BY <1>2, FS_CardinalityType, KeyFinite, FS_Subset DEF retriesBefore
<1> QED  BY <1>1, <1>3, <1>5, <1>6

\* Rule 5 of Evaluate: a retry that is dispatched waited for the cooldown.
LEMMA DecidesSpacing ==
  ASSUME TypeOK, NEW e \in Event, Decides(e), pc'[e] # "end", IsRetry(chosen_action'[e])
  PROVE  ctx[e].hasPriorRetry => ctx[e].sinceRetry >= Cooldown(e)
<1>1. PICK d \in Diagnoses, erv \in Scores :
         LET dec == DecisionFor(e, d, erv) IN
         /\ chosen_action'[e] = dec.action /\ dec.state = "ACTION_SELECTED"
  BY DEF Decides
<1> DEFINE dec == DecisionFor(e, d, erv)
           f == Facts(e, d)
           r == ResolveMerchantPolicy(MerchantPolicy[MerchantOf[PaymentOf[e]]], PlatformPolicy)
<1>2. d.candidates \in Seq(Action) /\ erv \in [Action -> Int] /\ dec = Decide(d.candidates, erv, f, r)
  BY DataAssumption DEF DecisionFor
<1>3. f.hasPriorRetry = ctx[e].hasPriorRetry /\ f.sinceRetry = ctx[e].sinceRetry /\ r.cooldown = Cooldown(e)
  BY DEF Facts, Cooldown
<1>4. ctx[e].sinceRetry \in Int /\ Cooldown(e) \in Int
  BY CooldownType DEF TypeOK, RunsOK, Facts0
<1> HIDE DEF f, r, dec
<1>5. Evaluate(dec.action, erv[dec.action], f, r) = "ALLOW" /\ dec.action # "no_action"
  BY <1>1, <1>2, DecideSound DEF dec
<1>6. ~Fires("cooldown", dec.action, erv[dec.action], f, r)
  <2>1. \A i \in 1 .. Len(Rules) : ~Fires(Rules[i], dec.action, erv[dec.action], f, r)
    BY <1>5, AllowedFiresNothing
  <2>2. 5 \in 1 .. Len(Rules) /\ Rules[5] = "cooldown"
    BY DEF Rules
  <2> QED  BY <2>1, <2>2, Zenon
<1>7. ~(f.hasPriorRetry /\ f.sinceRetry < r.cooldown)
  BY <1>1, <1>5, <1>6 DEF Fires, dec
<1> QED  BY <1>3, <1>4, <1>7

\* Once it has its facts, a run carries them unchanged to its row.
LEMMA SpacingStep ==
  ASSUME LedgerInvariant, TypeOK', [Next]_vars, NEW e \in Event, EventTruth(e), EventTruth(e)',
         SpacingTruth(e),
         Still(e) \/ Loads(e) \/ Decides(e) \/ Sends(e) \/ Records(e) \/ Settles(e)
  PROVE  SpacingTruth(e)'
<1>1. /\ TypeOK /\ clock <= clock' /\ clock \in Int /\ clock' \in Int /\ Cooldown(e) \in Int
      /\ ctx[e].sinceRetry \in Int /\ ctx[e].retries \in Nat
  <2>1. TypeOK
    BY DEF LedgerInvariant
  <2>2. ctx[e] \in Facts0
    BY <2>1 DEF TypeOK, RunsOK
  <2> QED  BY <2>1, <2>2, ClockAdvances, CooldownType DEF Facts0
<1>2. PICK now \in Int, next \in Int, since \in Int, n \in Nat :
        /\ now = clock /\ next = clock' /\ since = ctx[e].sinceRetry /\ n = ctx[e].retries
        /\ now <= next
  BY <1>1
<1>3. ASSUME NEW t \in Int, NEW gap \in Int, Cardinality(retriesBefore(e, t, gap)) >= n,
             NEW u \in Int, NEW shorter \in Int, t - gap <= u - shorter
      PROVE  Cardinality(retriesBefore(e, u, shorter)') >= n
  <2>1. /\ Cardinality(retriesBefore(e, t, gap)) \in Nat
        /\ Cardinality(retriesBefore(e, t, gap)) <= Cardinality(retriesBefore(e, u, shorter))
    BY <1>1, <1>3, FewerRetries
  <2>2. /\ Cardinality(retriesBefore(e, u, shorter)) \in Nat
        /\ Cardinality(retriesBefore(e, u, shorter)') \in Nat
        /\ Cardinality(retriesBefore(e, u, shorter)) <= Cardinality(retriesBefore(e, u, shorter)')
    BY RetriesStay
  <2> QED  BY <1>2, <1>3, <2>1, <2>2
<1>4. ~Loads(e) => ctx'[e] = ctx[e]
  BY DEF Still, Decides, Sends, Records, Settles, SameRun
\* The run has loaded its facts.
<1>5. ASSUME pc'[e] = "decide"
      PROVE  /\ ctx'[e].retries > 0 => ctx'[e].hasPriorRetry
             /\ Cardinality(retriesBefore(e, clock, ctx[e].sinceRetry)') >= ctx'[e].retries
  <2>1. CASE Loads(e)
    <3>1. NoRows(e)
      BY <2>1 DEF Loads, EventTruth, RunTruth
    <3> QED  BY <1>1, <2>1, <3>1, LoadsSpacing
  <2>2. CASE ~Loads(e)
    <3>1. pc[e] = "decide"
      BY <1>5, <2>2 DEF Still, Moved, Decides, Sends, Records, Settles
    <3>2. Cardinality(retriesBefore(e, now, since)) >= n /\ (n > 0 => ctx[e].hasPriorRetry)
      BY <1>2, <3>1 DEF SpacingTruth
    <3>3. Cardinality(retriesBefore(e, next, since)') >= n
      BY <1>2, <1>3, <3>2
    <3>4. retriesBefore(e, clock, ctx[e].sinceRetry)' = retriesBefore(e, next, since)'
      BY <1>2, <1>4, <2>2 DEF retriesBefore
    <3> QED  BY <1>2, <1>4, <2>2, <3>2, <3>3, <3>4
  <2> QED  BY <2>1, <2>2
\* It has decided for a retry.
<1>6. ASSUME pc'[e] \in {"dispatch", "call", "persist"}, IsRetry(chosen_action'[e])
      PROVE  Cardinality(retriesBefore(e, clock, Cooldown(e))') >= ctx'[e].retries
  <2>1. ~Loads(e) /\ ctx'[e] = ctx[e]
    BY <1>4, <1>6 DEF Loads
  <2>2. retriesBefore(e, clock, Cooldown(e))' = retriesBefore(e, next, Cooldown(e))'
    BY <1>2 DEF retriesBefore
  <2>3. CASE Decides(e)
    <3>1. /\ n > 0 => ctx[e].hasPriorRetry
          /\ Cardinality(retriesBefore(e, now, since)) >= n
      BY <1>2, <2>3 DEF Decides, SpacingTruth
    <3>2. ctx[e].hasPriorRetry => since >= Cooldown(e)
      BY <1>1, <1>2, <1>6, <2>3, DecidesSpacing
    <3>3. CASE n > 0
      BY <1>1, <1>2, <1>3, <2>1, <2>2, <3>1, <3>2, <3>3
    <3>4. CASE n = 0
      BY <1>2, <2>1, <2>2, <3>4, RetriesStay
    <3> QED  BY <3>3, <3>4
  <2>4. CASE ~Decides(e)
    <3>1. pc[e] \in {"dispatch", "call", "persist"} /\ chosen_action'[e] = chosen_action[e]
      BY <1>6, <2>1, <2>4 DEF Still, Moved, Sends, Records, Settles, SameRow
    <3>2. Cardinality(retriesBefore(e, now, Cooldown(e))) >= n
      BY <1>2, <1>6, <3>1 DEF SpacingTruth
    <3> QED  BY <1>1, <1>2, <1>3, <2>1, <2>2, <3>2
  <2> QED  BY <2>3, <2>4
\* Its retry is recorded.
<1>7. ASSUME NEW a \in Action, astatus'[<<e, a>>] # "none", IsRetry(a)
      PROVE  Cardinality(retriesBefore(e, executed_at[<<e, a>>], Cooldown(e))') >= ctx'[e].retries
  <2> DEFINE k == <<e, a>>
  <2>0. k \in Key
    BY DEF Key
  <2>1. PICK at \in Int, was \in Int : at = executed_at'[k] /\ was = executed_at[k]
    BY <2>0 DEF LedgerInvariant, TypeOK, TablesOK
  <2>2. retriesBefore(e, executed_at[k], Cooldown(e))' = retriesBefore(e, at, Cooldown(e))'
    BY <2>1 DEF retriesBefore
  <2>3. CASE astatus[k] # "none"
    <3>1. at = was
      BY <2>0, <2>1, <2>3, RowsStay
    <3>2. Cardinality(retriesBefore(e, was, Cooldown(e))) >= n
      BY <1>2, <1>7, <2>1, <2>3 DEF SpacingTruth
    <3>3. ~Loads(e)
      BY <2>3 DEF Loads, EventTruth, RunTruth, NoRows
    <3> QED  BY <1>1, <1>2, <1>3, <1>4, <2>2, <3>1, <3>2, <3>3
  <2>4. CASE astatus[k] = "none"
    <3>1. Records(e) /\ k = IdempotencyKey(e)
      <4>1. ~(Still(e) \/ Loads(e) \/ Decides(e) \/ Sends(e))
        BY <1>7, <2>4 DEF Still, Loads, Decides, Sends, SameActions
      <4>2. ASSUME NEW l \in Key, NEW o, NEW before, Record(l, o, before)  PROVE k = l
        BY <1>1, <1>7, <2>0, <2>4, <4>2 DEF Record, TypeOK, TablesOK
      <4>3. IdempotencyKey(e) \in Key
        BY DEF IdempotencyKey, Key, LedgerInvariant, TypeOK, RunsOK, Proc
      <4> QED  BY <2>4, <4>1, <4>2, <4>3 DEF Records, Settles
    <3>2. pc[e] = "persist" /\ chosen_action[e] = a /\ at = now /\ ctx'[e] = ctx[e]
      BY <1>2, <2>0, <2>1, <3>1 DEF Records, EventTruth, RunTruth, IdempotencyKey, SameRun,
         LedgerInvariant, TypeOK, TablesOK
    <3>3. Cardinality(retriesBefore(e, now, Cooldown(e))) >= n
      BY <1>2, <1>7, <3>2 DEF SpacingTruth
    <3> QED  BY <1>1, <1>2, <1>3, <2>2, <3>2, <3>3
  <2> QED  BY <2>3, <2>4
<1> QED  BY <1>5, <1>6, <1>7 DEF SpacingTruth

\* Retries of a payment that do not race are spaced (LoadContext's minutes_since_last_retry
\* and rule 5 of Evaluate): for either dispatcher, any number of events, sweeps and
\* crashes, with every fault.
THEOREM RetriesAlwaysSpaced == ASSUME Caller = {} PROVE Spec => []RetriesSpaced
<1>1. Init => \A e \in Event : SpacingTruth(e)
  BY DEF Init, SpacingTruth, Proc, Key
<1>2. DecisionInvariant /\ DecisionInvariant' /\ [Next]_vars /\ (\A e \in Event : SpacingTruth(e))
        => (\A e \in Event : SpacingTruth(e))'
  <2> SUFFICES ASSUME DecisionInvariant, DecisionInvariant', [Next]_vars, NEW e \in Event, SpacingTruth(e)
               PROVE  SpacingTruth(e)'
    OBVIOUS
  <2>1. Still(e) \/ Loads(e) \/ Decides(e) \/ Sends(e) \/ Records(e) \/ Settles(e)
    BY StepKind DEF DecisionInvariant, LedgerInvariant, OwnJob, EventTruth, RunTruth
  <2> QED  BY <2>1, SpacingStep DEF DecisionInvariant, LedgerInvariant
<1>3. (\A e \in Event : SpacingTruth(e)) => RetriesSpaced
  BY DEF SpacingTruth, RetriesSpaced, Key
<1> QED  BY <1>1, <1>2, <1>3, DecisionAlways, PTL DEF Spec
=============================================================================
