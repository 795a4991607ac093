# TLA+ models and proofs of the recovery engine and its console

Revly receives payment-failure webhooks, decides what to do about each failure, dispatches that action to a
payment gateway and keeps the ledger of what happened (`src/decision-engine`, Go). Operators watch and steer
it from a console that can also run on an in-memory sandbox (`src/frontend/ai-revenue-recovery-console`,
React), and a landing page demonstrates it (`src/frontend/landing-page`). This directory holds TLA+ modules
of these programs, the TLC configurations that check them on small instances, and theorems about them that
TLAPS proves for all instances.

`PROJECT.json` lists the components, runs, mutants, source map, findings, hazards and theorems in
machine-readable form; this file explains them. Paths are relative to `src/`; `internal/` stands for
`decision-engine/internal/`, `console/` for `frontend/ai-revenue-recovery-console/src/` and `landing/` for
`frontend/landing-page/`.

## 1. The system

### Components, their state and operations

The engine:

| Component | State it keeps | Operations |
|---|---|---|
| Webhook ingestion (`internal/ingest`, `store/store.go`) | `payments`, `payment_events` | verify and validate, `Ingest` in one transaction of two conflicting inserts, then run the pipeline for a *new* event before answering |
| Recovery pipeline (`internal/pipeline`) | one in-memory state machine per event; `decisions`, diagnoses, scores, `audit_log` | `Process`: `LoadContext`, diagnose, score, rank, evaluate, select, `PersistDecision`, dispatch, `RecordPendingAction` or `FinalizeExecution` |
| Diagnosis (`internal/diagnosis`, `diagnosis/llm`) | none | rule table; client of the diagnosis service with timeout, contract and fallback to the table |
| Policy engine (`internal/policy`) | none | `ResolveMerchantPolicy` against platform ceilings, `Evaluate` of eight ordered rules |
| ERV ranking (`internal/erv`) | none | `Compute`, stable `Rank` |
| State machine and vocabulary (`internal/recovery`, `internal/domain`) | `decisions.recovery_state` | `CanTransition`, `Machine.MustTo` |
| Executor (`internal/executor`) | none; the gateway's own state behind it | `Dispatch`, `Resolve`, `IdempotencyKey`; `MockDispatcher` or `RazorpayDispatcher` |
| Internal endpoints (`internal/execapi`) | none | `executeAction` (any action for a decision), `reconcilePending` (one sweep) |
| Reconciler (`internal/reconcile`) | none; `actions` at `pending_confirmation` | `ReconcileOnce`, `RunLoop` |
| Merchant and admin API (`internal/api`, `store/api_store.go`) | `merchant_policy_config`, `platform_policy`, `audit_log` | kill switches, policy updates, overrides, each with an audit insert; the recovery summary and other reads |
| Redis client (`internal/cache`) | one connection, its health flag | one command at a time, reconnect and retry once; health probe, counter with expiry |
| Success model, scoring endpoints, metrics | none, or write-only | scoring; counters |
| Server (`cmd/server`) | process lifetime | wiring, 10s graceful shutdown |

The front ends:

| Component | State it keeps | Operations |
|---|---|---|
| API clients (`console/lib/api`) | mode, address, keys (in memory and in the browser); the sandbox's policies, decisions and log | eleven calls, each routed to engine or sandbox by the mode; a failed call of live mode is repeated in the sandbox; mapping of the engine's answers |
| Application (`console/App.tsx`) | merchants, current merchant, selected decision, policy, decisions, log, loading | launch, load (four concurrent reads), navigation, and a handler per command: override, save, kill switch, simulate |
| Investigation and sandbox data (`console/views/DecisionInvestigationView.tsx`, `lib/mock/data.ts`) | seven seed decisions; the audit filter of one payment | timeline, ERV breakdown, candidates, checks, outcome of one decision |
| Recovery feed | pill, two dropdowns, search, sort key | filtered and sorted rows |
| Policy form and kill switch | the form's fields, dirty flag, a dialog | fill, edit, validate, save, reset; toggle |
| Overview | hovered point, banner flags | tiles, trend chart, intervention table from the recovery summary |
| Audit screen | three filters | filtered log |
| Dialogs (override, simulate, kill switch) | open, text, error, submitting | submit, await, close |
| Connection settings | fields, ping status | open, edit, ping, apply, cancel; reset from the error page |
| Frame and theme (`AppShell`, `lib/theme.tsx`) | tab, menus, theme | navigate, switch merchant, toggle |
| Landing page's demonstration (`landing/components/WatchItHappen.tsx` and `lib/api.ts`) | replay step, health label, trigger | replay, trigger an event, four seconds' wait |

The engine's handlers share PostgreSQL, the gateway and one Redis connection and nothing else. A webhook
handler ingests, then calls `Process` on the same goroutine under a context detached from the request and
limited to 15 seconds. `Process` makes three transactions, with the call of the diagnosis service between the
first and the second and the gateway call between the second and the third. `execute-action` does the last two
steps alone, for an internal caller. Sweeps of the reconciler, started by a timer or by an endpoint, read
pending actions, ask the gateway about each and settle it in a transaction of its own. Operators change
policies and kill switches at any time, through the admin API. The console calls that API over HTTP; its
screens share the application's React state; its sandbox lives and dies with the page, its settings with the
browser.

### What is hard

*Engine.* Nothing but the database orders the handlers, so between any two statements every other one may
run. The facts that the policy engine checks (retries, cooldown, daily cap, kill switches) are read at the
start of a run and acted on after two more waits. The gateway may answer late or never, and the deadline that
ends the wait is the deadline of the transaction that would record it. The process may die anywhere; nothing
on start-up looks for unfinished work except rows already `pending_confirmation`. `recovery_state` is updated
without a condition. An admin change and its audit entry are separate statements. The diagnosis service may
answer anything. A Redis command may have been executed when its reply is lost, and a Redis that falls silent with its
connections open holds up the command and everyone behind it.

*Console.* Every `await` is a point where another answer, another click, a mode switch or a timer may come first,
and the handler goes on with what it captured. Loads overlap and start one another. A write that is refused, or whose answer is
lost, is repeated elsewhere. A dialog may be closed, reopened or unmounted while its call is in flight. The
engine's decision is told twice, by feed and by detail, and mapped by two functions. Limits change unit and
rounding on the way from row to form and back. What a reload restores was written by different steps.

The list of hazards with their lines is in `PROJECT.json` under `hazards`.

### What makes each part correct

* ingestion: an event is stored once, answered as new once, and never without its payment; every delivery ends;
* pipeline: what is dispatched is what was decided and allowed, once; every step is in the audit trail;
* diagnosis: whatever the service does, the pipeline gets a well-formed diagnosis, and the table's order keeps the unsafe actions out;
* policy: merchant settings only tighten the platform's; the best allowed candidate wins; hard stops reach a human;
* executor and reconciler: a recovery is recorded only if the gateway took the money; a settled action stays settled; a pending one is eventually settled;
* ledger: `actions`, `outcomes`, `decisions.recovery_state` and `audit_log` tell one story;
* admin API: an audit entry tells of a real change; no save undoes a kill switch or passes the ceiling it read;
* Redis client: a counter is off by one repetition per call at most; only a silent Redis holds up a probe;
* clients and application: a quiet screen shows the store; a write is applied where it was issued, or once more in the sandbox if its effect is unsure; an override stays with the merchant that owns the decision; everything in flight ends;
* policy form: a save stores what was typed and otherwise what was read, but for two roundings, and what was saved binds the engine;
* screens: what is shown of a decision agrees with it, with its other screens and with the engine; figures made of others agree with them; the history of a payment is found; dialogs end;
* settings and frame: a reload restores what ran; the frame names what it frames.

## 2. Modules

```
RecoveryDomain            vocabulary, transition graph             internal/domain, internal/recovery
  Policy                  decision plane as pure operators         internal/policy, erv.Rank, middle of Process
    PolicyCases           one event decided; its properties
    Diagnosis             from an event to its diagnosis and decision   internal/diagnosis
      MCPolicy            one of PolicyCases, Diagnosis and LiveDecision   policy
    PolicyTheorems        lemmas about the operators
    PolicyProofs          the three (with PolicyTheorems and Induction)
    Recovery              webhook .. settled outcome    ingest, pipeline, executor, execapi, reconcile, store
      RecoveryProperties  invariants, action properties, fairness, liveness
        MCRecovery        instances                              core exec spacing settles stranded twice
        RecoveryProofs    types, ledger integrity, Recovery implements ActionLedger; decision,
                          ledger and audit trail tell one story (with PolicyTheorems)
    LiveDecision          a decision of the engine on the console's screens    http-client.ts
    PolicyForm            one merchant's policy from form to decision          PolicyView, http-client.ts, api_store.go
  ActionLedger            what the ledger promises, without handlers, retries or crashes
Ingest                    Store.Ingest, statement by statement                 store/store.go
  MCIngest                Ingest, RedisClient or DemoTrigger     ingest
    IngestProofs          the three; Ingest implements EventStore
EventStore                what Ingest promises, without statements or locks    ingest/ingestor.go
RedisClient               one connection, one retry                            internal/cache
DemoTrigger               the landing page's trigger                           landing/
AdminApi                  the admin routes, statement by statement             store/api_store.go
  MCAdmin                 AdminApi or PolicyForm                 admin
    AdminApiProofs        both
ConsoleStores             engine and sandbox as the console sees them          client.ts, store/api_store.go
  Console                 application state, loads, commands, routing          App.tsx, client.ts
    ConsoleProperties     (INSTANCE RoutedStores)
      MCConsole           sessions                               console engaged
      ConsoleProofs       Console (with Induction)
RoutedStores              what the client manager promises of writes
DecisionData              decision records, the seven seed decisions           lib/mock/data.ts
  DecisionScreens         what each component shows of a decision              components/, RecoveryFeedView
    Sandbox               inspect, override, simulate                          client.ts, DecisionInvestigationView
      MCScreens           one of seven components                screens
        ScreensProofs     Sandbox, FeedView and the other screens (with Induction)
    FeedView              pills, dropdowns, search, sorting
AuditLedger  LiveMetrics  Dialogs  Connection  Shell                           the other screens
Induction                 recursion over a sequence's positions, for the proofs
```

Where components share no state, one run explores several of them as a sum: in `MCScreens`, `MCIngest`,
`MCAdmin` and `MCPolicy` the variable `running` names the component that takes steps, and the others stay as
they start. What they do share in the program (the application state, the stores) is in `Console` and `Recovery`.

### `Recovery`: state and steps

Tables are variables: `stored` (payment_events), `recovery_state`, `chosen_action`, `policy_result`
(decisions, by event), `astatus`, `executed_at` (actions, by idempotency key), `outcome` (outcomes, by
action), `audit_log` (the `state_history` of each entry, by decision), `kill_switch`, `global_kill`. A handler
is a process with a label `pc` and the values its local variables hold (`job`, `ctx`, `history`, `late`); a
sweep holds the rows it loaded (`batch`) and the one it resolved (`found`). Outside are the provider
(`acked`), the gateway (`sent`, `gw`) and the clock. A `Crash` erases the handlers and sweeps and keeps
tables and gateway.

An event has at most one pipeline run (only a first `Ingest` starts one, and it makes one decision), so an
event names its decision, and a key is an event and an action: the hash of payment, decision and action,
the payment being a function of the decision. A key's payment at the gateway (`gw`) may be created, authorised, captured or
declined, and an authorised one reads as recovered (`internal/executor/razorpay.go:128`). `execute-action` takes the payment from its caller, who is
assumed to name the decision's own payment.

| Label or actor | Actions | Code |
|---|---|---|
| idle | `Ingest`, `IngestReplyLost`, `IngestDuplicate` | `Store.Ingest`, `NewHandler` |
| load | `LoadContext` | `loadContextSQL` |
| decide | `PersistDecision`, `PersistDecisionReplyLost` | `Process` up to and with `Store.PersistDecision` |
| dispatch | `DispatchOutOfBand`, `DispatchMock`, `DispatchSend`, `DispatchExpired` | `Dispatch` of the two dispatchers |
| call | `GatewayReplies`, `CallAmbiguous`, `TransportError` | `RazorpayDispatcher.call` |
| persist | `RecordPendingAction`, `FinalizeExecution`, `DuplicateDispatch` | the store methods of those names and their conflict branch |
| any | `Expire`, `TransactionFails`, `Disconnect`, `Crash` | 15s context, error returns, `r.Context()`, death of the process |
| caller | `ExecuteAction` | `execapi.executeAction` |
| sweep | `LoadPendingConfirmations`, `Resolve`, `ResolveAmbiguous`, `SettleAction`, `SettleFails` | `ReconcileOnce` |
| operator | `SetMerchantKillSwitch`, `SetGlobalKillSwitch` | `Store` methods of those names |
| gateway | `GatewayHandles`, `GatewayCaptures` | external: how `call` and `Resolve` read it |

One transaction is one step: PostgreSQL runs them at READ COMMITTED, and in each of them the
statement that decides is a single conflict-checked insert or guarded update (`Ingest` takes the first of them
apart). `DbFaults` lets a transaction fail without effect, or the reply of its commit be lost: a lost reply to
the transaction that records the outcome, or that settles, leaves the same state as a reply received, and has
no action of its own.

### `ActionLedger`: the abstract ledger

Three variables and four actions: a decision is taken once, the gateway takes the money of a key, an action becomes
pending, an action is settled. Recording needs the decision, a settlement happens once, and only a key whose money was
taken settles as recovered. Taking money needs no decision: `execute-action` dispatches for any id, and learns of a
missing decision from the foreign key of its insert, after the gateway's answer (`internal/execapi/handler.go:87`).
An event without a decision stands for such an id. `RecoveryProperties` maps the tables onto it (`decided`, `ledger`,
`taken`), and `ImplementsLedger` says that whatever the handlers, sweeps, faults and crashes do, a step of
`Recovery` is one such step or a stutter.

### `Policy`, `PolicyCases` and `Diagnosis`

The rules are data: `Rules` names them in the order of the engine, `Fires` gives the condition of each, and
`Evaluate` answers by the first that fires. `Rank` is the stable sort, `Select` the precedence ALLOW,
HUMAN_REVIEW, no_action, and `decisionPath` the walk of the state machine. The same `Decide` is what a
pipeline run of `Recovery` stores. Confidence is in thousandths, money in paise, an ERV an integer (in `PolicyForm` the minimum
ERV, whose column is finer than a paisa, is in tenths of one); comparisons are all the engine does with them.

`Diagnosis` has the rule table as a sequence of conditions and diagnoses, of which the first that matches
counts; a failure reason is the set of word groups `containsAny` finds in it. The client's answer is checked
against the contract (`valid`) and stripped of repetitions (`validate`), and any failure is answered by the
table (`llmDiagnose`). The three steps of the machine are the two diagnosers and the decision `Process` makes of
their diagnosis.

### `Ingest`, `AdminApi` and `RedisClient`: statements

A delivery is a transaction whose statements are its steps: `InsertPayment` and `InsertEvent` wait while another
open transaction has inserted the same key, as the unique index makes them; `Lookup` follows a conflict; `Commit`
makes the rows durable, `CommitUnheard` without an answer; `Fail` rolls back. `EventStore` is the abstract
specification: a delivery is taken in one step, and answered or not, or refused; `ImplementsEventStore` maps the durable rows and the
answers given onto it, so that every other statement is a stutter. A request of the admin API is a
sequence of transactions of one statement each (`LoadPlatform`, `EnsurePlatform`, `Write`, `InsertAudit`), any of
which may fail, and one of which may be executed unheard; the platform's ceiling moves between them (`TuneCeiling`), and
`seen` is the one a save read. `applied` and `last` remember which changes were made.
A Redis command holds the mutex from `Acquire` to `Succeed` or its second failure; `Error` leaves open whether
the server executed it before the connection broke. The server is up, down or silent: a silent one keeps its
connections, may accept new ones, and executes and answers nothing.

### `Console`, `ConsoleStores` and `RoutedStores`

`ConsoleStores` gives each store its policies, decisions and log, what it accepts of each call and what the call
does to it. `Console` has the application's state (`merchants`, `current`, `selected`, `policy`, `decisions`,
`auditLogs`, `isLoading`), the form's fields (`form`), and two kinds of activity in flight. A *load* is the record
of its reads (`ReadStep` answers one or sends it on to the fallback; `Deliver` shows all of them and, if it
changes the selection, starts the next load). The engine's log is read as empty, which is what its mapping comes to;
the merchants' list and the summary, which no command touches, are not part of a load. A *job* is a call of a write
handler; `at` says which answer it awaits, so its steps are the awaits of the handler: `Serve`, `Refuse`,
`LoseAnswer` at the engine, `Confirm` or `Unconfirmed` for the follow-up read, `MockCall`, `MockError` at the
sandbox, `RereadPolicy`, and `Finish`, which re-reads the log and ends it. `m` and `arg` are what the handler
captured when it was called, `saw` what the operator was looking at, `wrote` the stores it changed.

`RoutedStores` is the abstract specification of writes: a write issued under a mode takes effect in that mode's
store, or, if issued to the engine, is repeated in the sandbox; both only for a write whose effect the console cannot be
sure of. `ConsoleProperties` maps jobs onto writes.

### The screens

| Module | State | Actions and code |
|---|---|---|
| `Sandbox` | decisions in full, log, tab, selection, pick | `Inspect`, `Back`, `PickAction`, `overrideDecision`, `simulatePaymentFailed` of `client.ts`; what the investigation screen shows of it is `DecisionScreens`: `RecoveryTimeline`, `ErvBreakdown`, `CandidateAction`, `PolicyCheckList`, `OutcomeNotice` |
| `FeedView` | the controls of the feed | `StatusPill`, `HumanReviewPill`, `ActionDropdown`, `PolicyDropdown`, `Search`, `toggleSort`; rows are `filteredDecisions` |
| `LiveDecision` | the engine's rows of one event, the record the console made of them | `Decided`, `Dispatch`, `Settle` at the engine; `getRecoveryFeed`, `getDecisionDetail` with `transformSummaryToDecision`, `transformDetailToDecision` |
| `LiveMetrics` | the engine's ledger, the metrics the console holds | `Process`, `Execute`, `Settle`; `getRecoverySummary` (`recoverySummarySQL` and its transformation), `getSandboxSummary`; `maxRisk`, `PointY` of the chart |
| `PolicyForm` | row, platform row, what the form was filled from, its fields, which were typed, which were saved | `Load`, `LoadFromSandbox`, `handleFieldChange`, `handleActionCostChange`, `handleReset`, `SaveInvalid`, `SaveAccepted`, `SaveRefused`; `RivalCeiling` moves a ceiling, `RivalSave` changes the row between a read and a save |
| `AuditLedger` | log, decisions, filters | the commands that write entries, the three filters, `Reload`; the list is `filteredLogs` |
| `Dialogs` | stored and shown switch, each dialog, calls in flight | `OpenDialog`, `Type`, `SubmitBlank`, `Submit`, `Close`, `Leave`; `Write`, `Reread` (the engine reads), `Show` (its reply arrives), `Done`, `DoneSimulating`, `Fail` of a call |
| `Connection` | memory, storage, fields, checks in flight | `Open`, `Type`, `PickMode`, `testConnection`, `Answered`, `handleSave`, `Cancel`, `Reload`, `handleReset` |
| `Shell` | launch, tab, menus, load in flight, chart, theme | `initApp`, `Deliver`, `onNavigate`, `onSelectMerchant`, `handleSelectDecision`, `Hover`, `toggleTheme`, ... |
| `DemoTrigger` | replay, label, request in flight, engine | `HealthChecked`, `Tick`, `PickStep`, `handleTriggerWebhook`, `Store`, `Refuse`, `Answered`, `TimedOut` |

## 3. Runs

| Run | Instance | Properties and what they say |
|---|---|---|
| `core` | two events of one payment, Razorpay, one sweep, faults, one crash, merchant kill switch | `LedgerConsistent`, `NeverFabricated` (a recovery is of money captured or held), `DecisionMatchesLedger` (the decision shows what its action's rows say), `OnlyAuthorizedOnce` (only the ALLOWed action leaves, once), `KillSwitchRespected`, `AuditReplays` (every state_history is a legal path, each entry continues the one before, the last ends in the stored state), `TerminalStays`, `TypeOK` |
| `exec` | one event, two execute-action callers of the same action, two sweeps, faults, one crash | when up to three handlers race on one key: `DecisionMatchesLedger`, `SettledForGood`, and the refinement `ImplementsLedger`; a caller may come before the decision, or without one |
| `spacing` | three events of one payment, mock dispatcher, clock 0..3, budget 2, cooldown 2, global kill switch | `RetriesSpaced`: a recorded retry has the retries its run counted at least a cooldown before it |
| `settles` | two events, batch of one, faults, one crash, fairness | `PendingSettles`: no decision stays in limbo |
| `policy` | the product of 108 merchant rows, 2 platform rows, 192 situations, 3 candidate lists, 2 ERV tables; every set of words, 3 counts of attempts, 8 situations, 2 platforms, 11 answers of the service and none; 32 events, the lists and tables, each decision shown in every state it is left in | `PlatformHolds`, `MerchantHolds`, `BestAllowedWins`, `HumansSeeHardStops`; `DiagnosisIsSafe`: a dead or wrong diagnosis service makes no decision unsafe; `ShownAsDecided`: feed and detail show what the engine decided |
| `ingest` | three deliveries of two events over two payments; two callers, a probe and a Redis that fails or falls silent; two triggers of the demonstration | `CreatedOnce`, `AnsweredNamesDurableRow`, and the refinement `ImplementsEventStore`; `CountedOnceOrTwice`; `ShownIngestedWasStored`; `EverythingEnds`: deliveries and triggers end, and so does a probe unless Redis is silent |
| `admin` | two requests, one merchant and an unknown one; ceilings 0 to 2 that move; for the form two rows, one with a floor and a minimum ERV that it rounds, two platform rows, two edits, a rival's save, a failed read | `AuditTrustworthy` (an entry's change was made, a 200 stands for an entry), `SwitchesStand` (no save undoes a switch), `StoredWithinCeiling` (a limit is stored within the ceiling in force or, if that moved, the one its save read; 0 is no ceiling); `SavedLimitsBind`, `UntypedKept` (an untyped field is stored as last read, floor and minimum ERV rounded) |
| `console` | two merchants in each store, seven sessions | `ShownIsStored` (a quiet screen shows the store), `RoutedWrites` (the refinement of `RoutedStores`), `OverridesOwned`, `EverythingSettles` |
| `screens` | seven components, each on its own | `InvestigationHolds`, `FiguresAgree`, `HistoryFound`, `CallsEnd` (a guarded dialog has one call at most and gets its button back; the position of the switch is shown once calls for the same position are all answered), `RestoresWhatRuns`, `FrameCoherent` |
| `stranded` | violation | an event whose pipeline failed "can be reprocessed" (`internal/ingest/handler.go:50`): a crash after ingestion, the redelivery acknowledged as a duplicate, no decision ever |
| `twice` | violation | double charges are "structurally impossible" (`README.md:48`): two events of one payment, two decisions, two keys, two recoveries, without any failure |
| `engaged` | violation | "EMERGENCY STOP ENGAGED" (`console/components/KillSwitch.tsx:78`): a kill switch the engine refused or never answered is engaged in the sandbox, and shown as engaged in live mode |

`TerminalStays`, `OnlyAuthorizedOnce`, `KillSwitchRespected` and `AuditReplays` hold without execute-action callers only: a caller who asks for
another action than the decided one, or for one that was stopped, moves a finished decision, and reads no kill switch. In `exec` the caller repeats the decided action,
which is what the endpoint is for; then the decision keeps matching its ledger.

The properties of the sums are implications (`running = "audit" => ...`): for the behaviours of another component they
say nothing.

### Sessions of the console

What an operator does, and how reliable the engine is, is a record in `MCConsole`; an operator who waits
(`patient`) acts only when nothing is in flight.

| Session | Operator | Engine |
|---|---|---|
| `Calm` | waits; toggles, saves, overrides, simulates, browses, refreshes; two commands | answers, refuses what it must |
| `Hasty` | does not wait; overrides, simulates, browses; two commands | answers |
| `Faulty` | waits; all commands, switches modes; types a limit above the ceiling | may be down at launch, lose requests and answers |
| `Reloaded` | waits; toggles, saves, browses, reloads once | may be down at launch |
| `Switched` | does not wait; one toggle, switches modes | loses requests and answers |
| `Overlapping` | does not wait; browses, two loads at a time | answers |
| `Moved` | waits; toggles, saves, overrides, simulates, switches modes | answers |

`ShownIsStored` is about the patient sessions without losses in which the limits typed are within the ceilings, and of the policy only where
the store of the mode has a row for the merchant: what the engine refuses or lacks is saved in, and shown by, the sandbox. Without waiting, an older load may be delivered last,
under whichever merchant is then selected (section 5). `RoutedWrites`, `OverridesOwned` and `EverythingSettles` are about all of them.

### Bounds, and why they are enough

* Two events of one payment: every race in the engine is between two runs, or a run and a sweep, over rows
  of one payment, customer or key; a third adds no new kind of pair. `spacing` has three, because a count has more to go wrong with:
  a run may count one retry, and record its own after a third run's that it never counted. With two events the
  statement "a retry that had others before it is a cooldown away from each of them" passes; with three it fails.
* Two callers and two sweeps on one key: two are needed for a sweep to find its row settled by another while a
  duplicate is being recorded.
* `MaxCrashes = 1`: what a crash leaves is a state of the tables, and no code looks at how many there were.
* `MaxClock = 3` with a cooldown of 2: a retry at 0 and a second one before, at and after the end of the cooldown. In the other
  runs no rule under test reads the clock. `Day = 1` puts the window's edge inside the clock's range.
* `BatchLimit = 1` in `settles` makes the sweep choose; 2 lets one hold several rows.
* One diagnosis with a retry and, in `core`, one fraud diagnosis: the other decisions differ from these
  only inside `Decide`, which `policy` explores. `MCPolicy` takes values below, at and above each limit, 0 and NULL where
  they are legal, ties among ERVs, and a minimum ERV of 0: a negative one, which the table admits,
  lets no_action rank above an allowed action and win, and `BestAllowedWins` does not speak of it.
* Failure reasons are all 16 sets of word groups, prior attempts 0, one below and at the chronic floor; answers of the
  service are two well-formed ones that repeat themselves or offer a retry alone, a third at confidence 0, and one per clause of the contract.
* Three deliveries: one may hold a payment's row, another an event's, a third wait for both. Two admin requests: what one finds
  changed by others between its statements is one row, whoever changed it.
* One limit stands for all in `AdminApi`, where each is treated alike, under the ceilings 0 (none), 1 and 2; `PolicyForm` has all six.
* Two commands and two loads in the console: overtaking, overlapping and repeating are between two. `MaxLoads` is a bound of
  the model (the code starts as many as it likes), so a load that must wait for a slot delays its starter here.
* The merchants `s` and `t` of the sandbox own one decision each, `b` of the engine none, as a new merchant.
* In `screens` the decisions are the seven of the seed and one simulated failure; two overrides, so that one follows another.
* `MaxCalls`, `MaxChecks`, `MaxEvents`, `MaxEdits` = 2: a second while the first is in flight. `MaxToggles` = 3: of the kill
  switch three calls, since the reply to one may cross the two that follow it. With three, an engage and a release pending
  together do leave an old position shown (section 5); `SwitchShown` leaves that case out, and fails without doing so.
* Deadlock checking is on for `ingest`, whose finished deliveries stutter explicitly. Elsewhere it is off: those systems stop when every
  event, caller, request or command is done.

### Fairness

`FairSpec` of `RecoveryProperties` assumes that handlers keep running (every external call has a client timeout and every
pipeline context a deadline, so a handler always gets to its next step or return), that the provider redelivers until it
sees a 2xx (the reason ingestion is idempotent), and of the sweep: weak fairness of loading, strong
fairness of answered status reads and committed settlements, which says that the gateway and the
database do not fail every time. Loading repeats only if `RECONCILE_INTERVAL` is set; by default it is 0 and
`RunLoop` returns at once, so a deployment without it, and without calls to the endpoint, has no
`PendingSettles`. No fairness is put on crashes, faults, the gateway, the clock or operators. `stranded` uses the same fairness.

Elsewhere: a statement that waits for nothing is executed or fails (`Ingest`); the mutex is handed to everyone who waits
(strong, as Go's mutex prevents starvation) and a command ends when the server answers or the connection is closed
(`RedisClient`), but nothing is assumed to end a silence, since the client reads without a deadline: `ProbesEnd` is of a Redis that does not fall silent meanwhile; the trigger's request ends after its four
seconds (`AbortSignal.timeout`). The console sets no timeout on its requests: that every await is answered or throws assumes of the
browser and the engine's server that a request ends, as a refused or broken connection does.
In `Console` the fairness of a command is strong, since its last step may wait for a load's slot, which only the model has.
`EverythingSettles` claims the end of loading for an engine that answers: one that fails every other read for ever makes feeds of
the two stores take turns, each of which changes the selection and so starts the next load. No fairness is put on operators,
mode switches or losses.

## 4. Proofs

TLAPS checks these for every value of the constants allowed by the named assumptions, which only type the
constants (and bar `no_action` from execute-action, as the handler does):

| Theorem | States |
|---|---|
| `RecoveryProofs!TypeCorrect` | `Spec => []TypeOK` |
| `RecoveryProofs!LedgerAlwaysConsistent` | `Spec => []LedgerConsistent` |
| `RecoveryProofs!NothingFabricated` | `Spec => []NeverFabricated` |
| `RecoveryProofs!SettlementIsFinal` | `Spec => SettledForGood` |
| `RecoveryProofs!ImplementsActionLedger` | `Spec => ImplementsLedger` |
| `RecoveryProofs!AuthorizedOnce` | `Spec => []OnlyAuthorizedOnce`, without callers |
| `RecoveryProofs!MatchesLedger` | `Spec => []DecisionMatchesLedger`, without callers |
| `RecoveryProofs!KillSwitchHolds` | `Spec => []KillSwitchRespected`, without callers |
| `RecoveryProofs!TerminalHolds` | `Spec => TerminalStays`, without callers |
| `RecoveryProofs!AuditAlwaysReplays` | `Spec => []AuditReplays`, without callers |
| `RecoveryProofs!RetriesAlwaysSpaced` | `Spec => []RetriesSpaced`, without callers |
| `PolicyProofs!PlatformAlwaysHolds` | `Spec => []PlatformHolds` |
| `PolicyProofs!MerchantAlwaysHolds` | `Spec => []MerchantHolds` |
| `PolicyProofs!HumansAlwaysSeeHardStops` | `Spec => []HumansSeeHardStops` |
| `PolicyProofs!BestAlwaysWins` | `Spec => []BestAllowedWins`, if `no_action` is worth 0 and no threshold is negative |
| `IngestProofs!CreatedOnceHolds` | `Spec => []CreatedOnce` |
| `IngestProofs!DurableRowHolds` | `Spec => []AnsweredNamesDurableRow` |
| `IngestProofs!EventHasPaymentHolds` | `Spec => []EventHasPayment` (no durable event without its payment) |
| `IngestProofs!ImplementsStore` | `Spec => ImplementsEventStore` |
| `AdminApiProofs!AuditTrustworthyHolds` | `Spec => []AuditTrustworthy` |
| `AdminApiProofs!SwitchesStandHolds` | `Spec => []SwitchesStand` |
| `AdminApiProofs!StoredWithinCeilingHolds` | `Spec => StoredWithinCeiling` |
| `AdminApiProofs!SavedLimitsAlwaysBind` | `Form!Spec => []SavedLimitsBind` |
| `AdminApiProofs!UntypedAlwaysKept` | `Form!Spec => UntypedKept` |
| `IngestProofs!ShownIngestedHolds` | `Demo!Spec => []ShownIngestedWasStored` |
| `IngestProofs!CountedOnceOrTwiceHolds` | `Redis!Spec => []CountedOnceOrTwice` |
| `PolicyProofs!DiagnosisIsAlwaysSafe` | `DiagnosisSpec => []DiagnosisIsSafe` |
| `PolicyProofs!ShownIsAsDecided` | `LiveSpec => ShownAsDecided` |
| `ConsoleProofs!OverridesAlwaysOwned` | `Spec => []OverridesOwned` |
| `ConsoleProofs!WritesAreRouted` | `Spec => RoutedWrites` |
| `ConsoleProofs!ShownIsAlwaysStored` | `Spec => []ShownIsStored` |
| `ScreensProofs!AlwaysRestoresWhatRuns` | `Settings!Spec => []RestoresWhatRuns` |
| `ScreensProofs!DialogsAlwaysHold` | `Submitting!Spec => [](OneInFlight /\ SwitchShown)`, the safety half of `CallsEnd` |
| `ScreensProofs!FrameIsCoherent` | `Frame!Spec => FrameCoherent` |
| `ScreensProofs!HistoryAlwaysFound` | `Audit!Spec => []HistoryFound` |
| `ScreensProofs!InvestigationAlwaysHolds` | `Spec => []InvestigationHolds` |
| `ScreensProofs!FiguresAlwaysAgree` | `Overview!Spec => []FiguresAgree` |

**Types.** `TypeOK` of `Recovery` is inductive, with one conjunct that is more than types: a handler at `persist` has an
answer. One lemma per group of actions, each by its actions; `Frames` carries what an action leaves alone.
That a pipeline run stores a proper decision rests on `DecideSound` in `PolicyTheorems`, which rests on `Rank` being a
permutation of the candidates (`RankPermutes`): only then does `no_action`, which every rule allows, guarantee a choice.
So the default branch of the selection ("unreachable") is unreachable.

**Ledger.** `LedgerConsistent` and `NeverFabricated` are not inductive: a handler about to persist, or a sweep about to
settle, holds in memory what it will write. `LedgerInvariant` adds `HandlerTruth` (a recovery in a handler's hands is of a
key whose money was taken) and `SweepTruth` (what a sweep holds is final, and a recovery among it is of money taken). They stay true
because money taken stays taken (`TakenStays`, from the model of the gateway, in which an authorisation does not lapse) and because nothing changes
what a handler holds while it waits (`PersistEntry`). `LedgerWriters` reduces the step to the two actions that write the
ledger, both through `Record`.

**Settlement.** `SettledForGood` is an action property: of the two writers, an insert needs a key without a row and a
settlement needs a row that is pending, which `LedgerConsistent` says has no outcome.

**Refinement.** The abstract ledger records nothing without its decision. Nothing about the dispatch ensures that: a pipeline run
has its decision stored before it dispatches, but an execute-action caller may have none, and then the insert fails
(the foreign key). So the insert's own guard and `LedgerInvariant` carry the refinement. `StepKinds` sorts a step into an
insert, a settlement, a step of the gateway and a step that at most decides; `RecordIsOneLedgerStep` maps the first two to
`Pend` or `Settle`, the others are `Take`, `Decide` or a stutter. What it does not say is that money moves only for a stored
decision (section 5).

**Decision.** Without execute-action callers, everything about an event is determined by how far its run and its one
action have come. `DecisionInvariant` adds two facts for each event to `LedgerInvariant`: `EventTruth` relates the label of its run, what the run
holds, the stored decision, the one key that may have been sent and the rows of that key; `AuditTruth` says that its
audit trail has at most three entries, which they are, and that each continues the one before. Seen from one
event, a step is one of six kinds (none of its own, loading, deciding, dispatching, recording, settling), and the two facts are
preserved kind by kind. Each property then follows from them; that a killed event is STOPPED goes through the first rule of `Rules`.
With callers they fail (section 3; `DecisionMatchesLedger` when a caller executes an action other than the decided one), so the assumption `Caller = {}` is needed.

**Spacing.** `RetriesSpaced` counts rows, and such a count only grows: rows stay (`RowsStay`), retries keep their time (`RetriesStay`) and the
clock advances. `SpacingTruth` follows one run: when it has loaded, as many retries as it counted lie `sinceRetry` or more before the
clock; once it has decided on a retry, and after it is recorded, a cooldown or more. The step between the two is the cooldown
rule, through `DecideSound` and `AllowedFiresNothing`, for every policy and diagnosis.

**Policy.** `PlatformHolds` goes through `DecideSound` (a dispatched action was ALLOWed), `AllowedFiresNothing` and
`ResolvedWithinPlatform` (the arithmetic of the clamps); `MerchantHolds` the same way through `ResolvedWithinMerchant`:
a clamp never loosens what the merchant set. The other two are about the ranking: `RankSorts` shows it a stable sort
by giving each candidate its place, `SelectFirst` what the selection takes from it, and `DecideFirst` puts the two together: the
decision comes from an ALLOWed candidate that no other ALLOWed one outranks. `ReviewedWhen` says exactly when the engine asks for a human.
`BestAlwaysWins` needs two hypotheses. `no_action` is worth 0: the success model gives it no chance and the seeded costs no
price (the table would admit one). No threshold is negative: `router.go:143` rejects one, and the table would admit it too.

**Ingestion.** The invariant says what a row lock means: an open transaction that inserted an event or a payment is the only one that did, the
row is not yet durable, and a delivery past its insert knows its payment inserted, by itself or durably. A delivery answered as
created is then the one whose id the durable row carries. For the refinement the same invariant says, at a commit, that a delivery which
thinks it created the event still holds its row back, and any other found the durable one (`RowFound`): the commit, heard or unheard, is
the `Take` of `EventStore` (`CommitTakes`), a failure is its `Refuse`, and the statements before them answer nobody (`StatementStutters`).

**Admin API.** `UnderWay` relates the label of a request to what it asks for, `Checked` says that a save about to write is
within the ceiling it read, which is `seen` and not the one in force, `Entered` that an entry, or a request about to make one, has changed its row.

**Form.** `FormInvariant` says where the form's fields come from: those not typed are the copy of what the last load or
refused save left (`UntypedShown`), and while the form says it is saved they are the row's (`SavedShown`), which the clamps then only
tighten (an amount ceiling is then above 0, as the code bounds it). Between the row and the form two things are rounded: the
floor to a whole percent when the form is filled, the minimum ERV to a whole paisa when it is saved (`Rounded`). `UntypedKept`
compares the saved row with the row last read (`read`), not with the one in the table, which a rival may have changed, and says
exactly these roundings. That typed floors are whole percents is the field's
default step of 1 from a minimum of 50 (`PolicyView.tsx:312`).

**Redis and the trigger.** A command repeated at most once costs at most two: the invariant is a budget, in which the value, two
for every call that has not yet executed and one for every call that may execute once more stay within twice the calls made. For the
trigger it is enough to know that a request the engine has stored is in its table by the time its answer comes.

**Diagnosis.** The table's answer is that of the first condition that holds (`RuleMatched`), which fixes what an event of each kind may be
offered (`TableGives`); the decision is then an offered candidate (`DecidedFrom`), and a fraud reason, which offers `escalate`
and is a hard stop, is one the engine asks a human about (`FraudReviewed`). That stripping an answer of repetitions keeps its set and makes it injective
goes by `Induction`.

**A decision shown.** Of a row that was decided the console marks the candidates whose action is the chosen one. That this is exactly one
takes a candidate list without repetitions, which every diagnosis has (`DiagnosisIsSafe` says so) and which offering `no_action` and
ranking preserve (`EnsureDistinct`, `RankedOnce`), and a choice among them, also when it is the human asked for (`ChosenIsOffered`).
Where no rule stopped the decision none fired, so its checks all passed (`DecidedOK`); dispatching and settling move the state alone. The invariant
`LiveInvariant` says so of the row, and of the record shown that it was mapped from that row in some state it is left in.

**Console: overrides and routing.** The engine's decisions only grow, so an entry that had its decision keeps it. For the refinement,
a command is mapped to the write of its number. `Whereabouts` says which stores a command may have written by the answer it waits
for: none before the engine's, and for one on its way to the sandbox neither the sandbox nor, if its effect is sure, the engine. A step of a
command is then `Apply`, `Repeat` or a stutter (`RoutedKinds` sorts the steps, `RoutedRefines` maps them).

**Console: the screen.** `ShownIsStored` speaks of quiet moments only, so its invariant has to say what every load and command in flight
will bring (`ScreenTruth`): at most one of them is under way, as the operator waits (`OneAtATime`); what a load has got is what the
store holds (`LoadTruth`); and by the answer a command waits for one can tell what it has changed in the store and what of that the
screen does not show yet (`JobTruth`). One lemma per action (`...Screen`) preserves it; `SessionKept` adds that the operator stays
one who waits. The feed is
a recursive function over the store's decisions, of which `FeedRows` says by `Induction` that its rows are the merchant's.

**Settings, dialogs and frame.** Storage and memory hold the same key, mode and address, except that storage may lack the address that memory
has as the default: every writer writes both, and a launch restores one from the other. A dialog's call in flight, as long as the
dialog knows of it, *holds* its button; a button is given back only with the call that holds it, so no second call starts. For
the switch, `SwitchInvariant` looks at the calls since the last one submitted alone (`Recent`): as long as none of them was lost
or opposed, all that are pending ask for one position, every one that has written or read found that position stored, and the
position shown is the stored one or some call is still pending. Of the frame the theme is
the point: `savedTheme` equals `theme` at every step, so what a launch reads is what was shown; and a dialog is open only over the
screen of a merchant, so every load is of one whose trend is known.

**Audit screen.** Every entry of the log is of a form (`LogEntry`) that the filters know and that mentions the payment it is about;
the log has no entry later than the commands counted, and descends. The demonstration data's log is flattened out of one list per
payment (`Flattened`), and `FilteredInOrder` says of the filtered list, a recursive function over the log, that it keeps its order.

**Investigation.** Every operation of the sandbox puts one entry in front of the log and rewrites one decision, or adds one. The invariant
(`SandboxInvariant`) says that ids and payments name each other one to one (a simulated failure's id and payment are one string, apart from
the seeded ones, `SandboxAssumption`), so the trail of a decision's payment holds its own override entries and no others (`TrailIsOwn`);
that those lead, from the newest to the oldest, from the chosen action back to the one it was made with (`Leads`, which a
new entry of another decision only shifts, `LeadsShifted`, and an override extends); and that every candidate's ERV is what its terms make it and at most one is marked,
whatever an override marks (`WinnerMarked`). The seven seed decisions are shown to satisfy this one by one. The screen's parts follow: the cuts to rupees
lose less than one each (`RupeesAddUp`), rounding and clamping the bars keeps their order (`BarsRank`), and the steps of a timeline
are five or six with the current one where the state puts it (`TimelineProgress`).

**Figures.** The sum of the recovered amounts is a recursive sum over a list of the ledger's actions; by `Induction` it is at least their number
(`SumAtLeast`), which is all `MetricsInvariant` needs of the ledger: the metrics shown are the sandbox's, or derived from *some*
aggregate in which recovered actions recovered something, of some decision. The chart is then arithmetic: the revenue at risk is an estimate rounded to the nearest, so at a rate
that reads as 100 % the recovered amount may exceed it, by less than one in 244 and only from 2001 on (`RiskBound`), which at 122 units of height rounds
to the same point of the chart as the top (`PointFits`); the other points have a share that absorbs it (`EngineChart`). The three rows of the interventions
round to within 2 of their sum (`EngineParts`). The feed's rows are a recursive insertion, which `Induction` shows to have a row for each
match (`RowsCounted`), whatever the order.

**Induction.** The library's induction theorems take an operator and cannot be instantiated by these provers, so module `Induction`
states what is needed of numbers with sets: a non-empty set of naturals has a least element, a set that holds 0 and with a number the
next holds all up to a bound, and a recursion whose step is a function has a solution. The proofs about `Feed`, `distinct`,
`FlattenSeq`, `filteredLogs`, `SumOf` and `filteredDecisions` use it.

**Assumptions.** Besides the named ones on constants: no callers of execute-action (four properties of decisions and `RetriesSpaced`,
`AuditReplays`), and the two hypotheses of `BestAlwaysWins`.

Only model-checked:

* everything about liveness (`PendingSettles`, `EverythingEnds`, `EverythingSettles`, and what of `CallsEnd` ends), since the
  prover has neither fairness nor ENABLED. Every other property of a passing run is stated by a theorem.

## 5. Departures the code does not keep

Found while modelling: sentences of the repository, or expectations a screen raises, that the program does not keep. Three are runs
(`stranded`, `twice`, `engaged`). The others follow from the definitions the models share with the code, and are described here; no
passing run claims their opposite.

Engine:

* A request whose call uses up the 15s leaves no row in `actions`: the `pending_confirmation` cannot be stored and no sweep knows of it
  (`internal/pipeline/pipeline.go:439`; `docs/ARCHITECTURE.md:42` says ambiguous results are reconciled).
* Concurrent runs of one payment each load the retry count before either records its retry, and exceed the budget
  (`pipeline.go:246`; `internal/policy/engine.go:211` says retries are capped per payment).
* `execute-action` asks the gateway first and finds out about the decision afterwards: for an id without one the money is taken, the insert
  fails on its foreign key and the ledger never knows (`internal/execapi/handler.go:87`).
* An authorised payment, held and not captured, is booked as recovered for good (`internal/executor/razorpay.go:128`). That such a hold may
  lapse is not modelled: the ledger would keep the recovery.
* A ceiling lowered between the two statements of a save leaves the row above it until the merge clamps it (`store/api_store.go:204`).
* A kill switch set between `LoadContext` and the dispatch does not stop the run (`pipeline.go:439`; `docs/API_CONTRACTS.md:126`).
* `execute-action` on a finished decision moves it out of its terminal state (`internal/store/pipeline_sql.go:124`;
  `internal/recovery/state.go:14`).
* A fraud diagnosis whose candidates lack `escalate` ends as no_action and nobody is told (`pipeline.go:359`; `engine.go:161` says it
  "forces escalation"). The rule table always lists it; an answer of the diagnosis service replaces the table's whole, and may not, or
  may read a fraud reason as something else.
* A payment above the amount ceiling reaches a human only through an `escalate` candidate, and the retry budget blocks retries only, while
  the form promises "manual operator approval" and "halt" (`console/views/PolicyView.tsx:302`, `:213`).
* A redelivered event that names another payment leaves a payments row without an event (`internal/store/store.go:49`; the comment at `:35` excludes it).
* A kill switch or policy can change with a 500 and no audit entry (`store/api_store.go:126`; `docs/API_CONTRACTS.md:126` says "Audited.").
* Once Redis was seen down, the probes report it down until a command is sent, and nothing sends one (`internal/cache/redis.go:97`). A server that
  falls silent holds the mutex for which the readiness probe waits (`:98`): the read has no deadline, and the second that `redisStatus`
  grants the ping is a context that `Ping` ignores (`cmd/server/main.go:264`, `redis.go:183`). `EXPIRE` is a second
  command whose error is dropped, and is not sent when the repeated `INCR` returns 2: a counter may never expire (`:212`).

Console, clients and application:

* A load sets what its reads return without checking that the merchant is still the selected one: one merchant's policy and decisions under another
  (`console/App.tsx:100`). The sandbox keeps one log for all merchants (`lib/api/client.ts:221`).
* A policy form filled before a merchant switch is saved under the new merchant (`App.tsx:177`). Two operators who save forms filled before each
  other's save overwrite each other's limits; the row has no version. A save of any field also rounds a stored confidence floor to a whole
  percent and a stored minimum ERV, `NUMERIC(20,4)`, to a whole paisa (`PolicyView.tsx:56`, `:89`).
* A command the engine refuses is repeated in the sandbox and reported as done: bounds errors do not surface (`client.ts:536`), a live
  command changes the sandbox (`:512`), and a merchant without a row gets the sandbox's, which a save then sends whole to the engine (`:524`).
* The engine's audit details are an object, the mapping splits them as text, and the error is turned into an empty list: in live mode the
  log is always empty (`lib/api/http-client.ts:478`).
* An override with nothing selected returns without a call, as after a success (`App.tsx:162`); with a selection that is not in the feed the screen shows the
  first decision and the override goes to the other (`:215`); the target is the selection when the button is pressed, not when the reason was written (`:163`).
* The decision of an event just sent is looked for at once, and when there is none the first of the feed is taken for it
  (`http-client.ts:591`). A simulated failure of a merchant without any decision fails this way in the engine after it was ingested, and is kept in both stores.
* A launch that finds the engine down stores mock as the mode, and a later launch stays in the sandbox (`App.tsx:58`); nothing shows the
  "Unreachable" page (`:244`).
* Storage that throws is met at start-up by unguarded reads, and the console does not start (`lib/theme.tsx:21`).
* An engine that keeps failing every other read keeps the screen loading.

Console, screens:

* The sandbox's override rewrites the decision (`client.ts:139`; `docs/API_CONTRACTS.md:84` calls it immutable), sets its verdict to ALLOW whatever the
  candidate's was (`:142`), and leaves its recorded outcome (`:141`). The dialog keeps its pick when a simulated decision replaces the one on the screen (`OverrideDialog.tsx:19`).
* Amounts are cut to rupees one by one, so that the terms of an ERV need not give the ERV shown (`lib/money.ts:10`). "Ranked #1 by ERV" is a
  constant (`DecisionInvestigationView.tsx:121`).
* The mapping of live decisions shows every candidate but the chosen one as allowed (`http-client.ts:683`), every state but DONE as in progress, a stopped one included (`:774`),
  and the feed's diagnoses as AI-assisted (`:646`); the engine's `alt_method` and `notify` pass a cast into a type that has `alternate_method` and `reminder` instead (`:611`). The pill
  "Recovered" counts a state the engine never ends in (`RecoveryFeedView.tsx:41`).
* "All Events" leaves the dropdowns set (`RecoveryFeedView.tsx:49`).
* An emptied field is saved as 0, which the engine takes for no cap of the merchant's own (`merchant_override.go:132`); a row without a floor is shown with
  a default above the one in force (`http-client.ts:398`); action costs are not sent, and replaced by a save that succeeded (`:423`).
* Overview: "Total Decisions" is the active ones plus 46 (`OverviewView.tsx:253`); "Active Retry" counts failed actions (`http-client.ts:233`); revenue at risk is estimated
  from a rate of counts (`:219`); that rate divides actions by decisions and may pass 100% (`store/api_sql.go:60`); the viable share divides by what may
  be 0 (`OverviewView.tsx:221`); the win rates are constants (`http-client.ts:251`). The resilience banner follows a button (`OverviewView.tsx:99`), and live figures stand under the
  sandbox's disclosure (`:91`).
* The replies to the policy reads of overlapping switch calls are shown as they arrive: with an engage and a release pending together and a
  third call after them, an older reply delivered last leaves the screen with the position that is not stored (`App.tsx:191`).
* The kill switch's handler negates the switch as it is when the button is pressed, and its button stays enabled while the log is read again: a dialog opened to engage may
  restore (`KillSwitch.tsx:34`).
* A ping stores the address it tries, also when the dialog is then cancelled (`BackendConnectionModal.tsx:61`); an emptied key stays (`:86`); "Engine Live" stands above an address that was
  edited since (`:184`).
* A simulated failure writes one audit entry, of its ingestion (`client.ts:361`); the sandbox's "durable journal" ends with the page (`:41`).
* A switch to a merchant without decisions keeps the tab, and the breadcrumb names a blank view (`App.tsx:334`).

Landing page: no answer within the timeout is shown as a simulation, also when the engine has stored the event
(`WatchItHappen.tsx:66`); the label "LIVE BACKEND ATTACHED" is of the health check on mount (`:21`).

## 6. Not modelled, and why

* Request parsing, validation, signatures and authentication: they reject before any state changes.
* The formulas of the ERV and of the success model (floating point without state: any result is an input), metrics, logs, texts, read-only routes.
* The Python diagnosis service behind its HTTP answer, training, simulation, scripts, the dashboard; migrations beyond the tables they define.
* Graceful shutdown: it waits 10s for requests that may take 15s, and then is the `Crash` of `Recovery`.
* Redis cooldown keys, GET and DEL (the same `do`), error replies, and any caller of the counter: the engine has none.
* The headline tiles of the overview, wording, layout, icons, animation, the copy button; the landing page's other sections, which show fixed figures.
* In `Console`: the summary and the merchants' list after launch; React's double mounting in development. The last answer of a command and its
  display are one step. `Shell` has one answer per load.

The gateway is external: it handles a key once, coalescing on `X-Idempotency-Key` as the executor relies on, and is
nondeterministic in what it does with it and when.

## 7. What is left

1. `Server`: graceful shutdown against running requests and the loop, as more than a crash.
2. Sweeps that meet more pending rows than the batch holds, the oldest of them unresolvable.
3. `EventStore` in the place of the atomic `Ingest` of `Recovery`: the two are stated apart.
