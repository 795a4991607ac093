----------------------------- MODULE AuditLedger -----------------------------
(***************************************************************************)
(* The audit screen over the sandbox's log: the entries the demonstration  *)
(* data starts with, those each command writes in front of them, and the   *)
(* three filters an operator puts on the list.  The text of an entry is    *)
(* the set of identifiers it mentions, the only thing a search looks for.  *)
(***************************************************************************)
EXTENDS Naturals, Sequences, FiniteSets, SequencesExt

CONSTANTS
  Merchant,
  SeedPayment, NewPayment,  \* payments of the demonstration data and those the dialog invents
  Anything,                 \* the value of a filter or a search that is not set
  MaxCommands               \* bound on the commands written to one log

Payment == SeedPayment \cup NewPayment
Decision(p) == <<"decision", p>>
Action(p) == <<"action", p>>
Identifier == Payment \cup {Merchant} \cup {Decision(p) : p \in Payment}

\* The options of the two filters.  An actor option is a part of the actor's name.
ActorOption == {"Operator", "Policy Engine", "AI Diagnoser", "Executor", "System"}
EntityOption == {"Payment", "Decision", "Policy", "Action", "KillSwitch"}

\* Identifiers of different kinds differ, and the options for no filter are none of them.
AuditLedgerAssumption ==
  /\ SeedPayment \cap NewPayment = {} /\ Merchant \notin SeedPayment \cup NewPayment
  /\ IsFiniteSet(SeedPayment) /\ MaxCommands \in Nat
  /\ \A p \in Payment : {Decision(p), Action(p)} \cap (Payment \cup {Merchant}) = {}
  /\ Anything \notin Identifier \cup ActorOption \cup EntityOption

VARIABLES
  log,        \* MockRecoveryApiClient.auditLogs: the newest entry first
  decisions,  \* payments that have a decision
  commands,   \* commands written to the log
  actorFilter, entityFilter, searchTerm

vars == <<log, decisions, commands, actorFilter, entityFilter, searchTerm>>
filters == <<actorFilter, entityFilter, searchTerm>>

\* An entry about payment p, or about none (Anything), with what its details mention.
Entry(t, actor, entity, id, p, mentions) ==
  [at |-> t, actor |-> actor, entity |-> entity, entity_id |-> id, payment_id |-> p,
   details |-> mentions]

\* What the demonstration data tells of one payment, newest first.
SeedHistory(p) ==
  << Entry(0, "Executor", "Payment", p, p, {}),
     Entry(0, "Executor", "Action", Action(p), p, {}),
     Entry(0, "Policy Engine", "Decision", Decision(p), p, {}),
     Entry(0, "AI Diagnoser", "Decision", Decision(p), p, {}),
     Entry(0, "System", "Payment", p, p, {}) >>

SeedLog == FlattenSeq([i \in 1..Cardinality(SeedPayment) |-> SeedHistory(SetToSeq(SeedPayment)[i])])
           \o <<Entry(0, "Operator (Admin)", "Policy", Merchant, Anything, {})>>

\* auditLogs.unshift
Unshift(entries, e) == <<e>> \o entries

Now == commands + 1
Write(e) ==
  /\ commands < MaxCommands /\ commands' = Now
  /\ log' = Unshift(log, e)
  /\ UNCHANGED filters

OverrideEntryNoPayment(p) ==
  Entry(Now, "Operator (Admin)", "Decision", Decision(p), Anything, {})
OverrideEntry(p) == Entry(Now, "Operator (Admin)", "Decision", Decision(p), p, {})

overrideDecision(p) == p \in decisions /\ Write(OverrideEntry(p)) /\ UNCHANGED decisions

updatePolicyConfig ==
  Write(Entry(Now, "Operator (Admin)", "Policy", Merchant, Anything, {})) /\ UNCHANGED decisions

setKillSwitch ==
  Write(Entry(Now, "Operator (Admin)", "KillSwitch", Merchant, Anything, {})) /\ UNCHANGED decisions

simulatePaymentFailed(p) ==
  /\ p \in NewPayment \ decisions
  /\ Write(Entry(Now, "System", "Payment", p, p, {Decision(p)}))
  /\ decisions' = decisions \cup {p}

SetActorFilter(a) == actorFilter' = a /\ UNCHANGED <<log, decisions, commands, entityFilter, searchTerm>>
SetEntityFilter(e) == entityFilter' = e /\ UNCHANGED <<log, decisions, commands, actorFilter, searchTerm>>
SetSearchTerm(q) == searchTerm' = q /\ UNCHANGED <<log, decisions, commands, actorFilter, entityFilter>>

Init ==
  /\ log = SeedLog /\ decisions = SeedPayment /\ commands = 0
  /\ actorFilter = Anything /\ entityFilter = Anything /\ searchTerm = Anything

\* Reloading the page starts the sandbox over.
Reload ==
  /\ log' = SeedLog /\ decisions' = SeedPayment /\ commands' = 0
  /\ actorFilter' = Anything /\ entityFilter' = Anything /\ searchTerm' = Anything

Next ==
  \/ \E p \in Payment : overrideDecision(p) \/ simulatePaymentFailed(p)
  \/ updatePolicyConfig \/ setKillSwitch
  \/ \E a \in ActorOption \cup {Anything} : SetActorFilter(a)
  \/ \E e \in EntityOption \cup {Anything} : SetEntityFilter(e)
  \/ \E q \in Identifier \cup {Anything} : SetSearchTerm(q)
  \/ Reload

Spec == Init /\ [][Next]_vars

-----------------------------------------------------------------------------

\* log.actor.includes(actorFilter)
NamesActor(e, option) == e.actor = IF option = "Operator" THEN "Operator (Admin)" ELSE option

Passes(e, a, t, q) ==
  /\ a = Anything \/ NamesActor(e, a)
  /\ t = Anything \/ e.entity = t
  /\ q = Anything \/ q \in {e.entity_id, e.payment_id} \cup e.details

filteredLogs ==
  LET upTo[n \in 0..Len(log)] ==
        IF n = 0 THEN <<>>
        ELSE IF Passes(log[n], actorFilter, entityFilter, searchTerm) THEN Append(upTo[n - 1], log[n])
        ELSE upTo[n - 1]
  IN upTo[Len(log)]

-----------------------------------------------------------------------------

\* The options of each filter divide the log: whatever was written, every entry is under
\* exactly one actor and exactly one entity type (the two select boxes of AuditView).
OptionsDivideLog ==
  \A i \in DOMAIN log :
    /\ Cardinality({a \in ActorOption : Passes(log[i], a, Anything, Anything)}) = 1
    /\ Cardinality({t \in EntityOption : Passes(log[i], Anything, t, Anything)}) = 1

\* Whatever the filters, the list reads from the newest entry to the oldest.
ShownChronologically ==
  \A i, j \in DOMAIN filteredLogs : i < j => filteredLogs[i].at >= filteredLogs[j].at

\* A search for a payment shows all that is known of it, its decision's overrides included.
PaymentHistory ==
  \A p \in Payment : \A i \in DOMAIN log :
    log[i].entity_id \in {p, Decision(p), Action(p)} => Passes(log[i], Anything, Anything, p)

\* The three hold of every log: what a payment went through is found, and read in order.
HistoryFound == OptionsDivideLog /\ ShownChronologically /\ PaymentHistory
=============================================================================
