---------------------------- MODULE ConsoleStores ----------------------------
(***************************************************************************)
(* The two stores behind the operator console: the decision engine reached *)
(* over HTTP, and the in-memory sandbox that stands in for it.  Both hold  *)
(* policy rows, decisions (newest first) and an audit log, and answer the  *)
(* same calls; they differ in what they refuse and in what a write does.   *)
(***************************************************************************)
EXTENDS Integers, Sequences, FiniteSets

CONSTANTS
  LiveMerchant,     \* merchants the engine has a policy row for
  SandboxMerchant,  \* merchants the sandbox was seeded with
  DefaultRow,       \* the sandbox row answered for a merchant it does not know
  LiveDecision,     \* the decisions each store starts with
  SandboxDecision,
  OwnerOf,          \* the merchant each of them belongs to
  None              \* null

ASSUME StoresAssumption ==
  /\ LiveMerchant \cap SandboxMerchant = {} /\ DefaultRow \in SandboxMerchant
  /\ LiveDecision \cap SandboxDecision = {}
  /\ IsFiniteSet(LiveDecision) /\ IsFiniteSet(SandboxDecision)
  /\ OwnerOf \in [LiveDecision \cup SandboxDecision -> LiveMerchant \cup SandboxMerchant]
  /\ \A d \in LiveDecision : OwnerOf[d] \in LiveMerchant
  /\ \A d \in SandboxDecision : OwnerOf[d] \in SandboxMerchant
  /\ None \notin LiveMerchant \cup SandboxMerchant \cup LiveDecision \cup SandboxDecision

Merchant == LiveMerchant \cup SandboxMerchant

(***************************************************************************)
(* A policy: the merchant whose row it is, its limits as one value, of     *)
(* which "over" exceeds a platform ceiling, and the kill switch.           *)
(***************************************************************************)
Limits == {"low", "high", "over"}
\* A decision runs the ranked action or the one an operator put in its place.
DecisionRow(id, m, chosen) == [id |-> id, merchant |-> m, chosen |-> chosen]

CallKind == {"toggle", "save", "override", "simulate"}
AuditRow(kind, m, subject) == [kind |-> kind, merchant |-> m, subject |-> subject]

Seed(d) == DecisionRow(d, OwnerOf[d], "ranked")

IsSeedOrder(s, ids) ==
  /\ Len(s) = Cardinality(ids)
  /\ {s[i] : i \in DOMAIN s} = {Seed(d) : d \in ids}

StoreOf(merchants, ids) ==
  [policies  |-> [m \in merchants |-> [of |-> m, limits |-> "low", kill |-> FALSE]],
   decisions |-> CHOOSE s \in [1..Cardinality(ids) -> {Seed(d) : d \in ids}] : IsSeedOrder(s, ids),
   audit     |-> {}]

EngineAtStart  == StoreOf(LiveMerchant, LiveDecision)
SandboxAtStart == StoreOf(SandboxMerchant, SandboxDecision)

Ids(feed) == {feed[i].id : i \in DOMAIN feed}

\* A merchant's decisions: of[n] are those among the first n.
Feed(store, m) ==
  LET of[n \in 0..Len(store.decisions)] ==
        IF n = 0 THEN <<>>
        ELSE IF store.decisions[n].merchant = m THEN Append(of[n - 1], store.decisions[n])
        ELSE of[n - 1]
  IN of[Len(store.decisions)]

(***************************************************************************)
(* The engine.  A call names a merchant and an argument: the wanted switch *)
(* position, the limits, the decision to override, or the id a simulated   *)
(* failure's decision will get.  The engine refuses a merchant without a   *)
(* policy row, limits past a ceiling and a decision of another merchant;   *)
(* its decisions are immutable, so an override is an audit entry only.     *)
(***************************************************************************)
HasRow(store, m) == m \in DOMAIN store.policies

AcceptsToggle(store, c) == HasRow(store, c.m)
AcceptsSave(store, c) == c.arg # "over" /\ HasRow(store, c.m)
Exists(store, c) == c.arg \in Ids(store.decisions)
Owns(store, c) ==
  \E i \in DOMAIN store.decisions :
    store.decisions[i].id = c.arg /\ store.decisions[i].merchant = c.m
AcceptsEvent(store, c) == HasRow(store, c.m)

Accepts(store, c) ==
  \/ c.kind = "toggle" /\ AcceptsToggle(store, c)
  \/ c.kind = "save" /\ AcceptsSave(store, c)
  \/ c.kind = "override" /\ Owns(store, c)
  \/ c.kind = "simulate" /\ AcceptsEvent(store, c)

Logged(store, c) == [store EXCEPT !.audit = @ \cup {AuditRow(c.kind, c.m, c.arg)}]

EngineToggle(store, c) ==
  [Logged(store, c) EXCEPT !.policies[c.m].kill = (c.arg = "engage")]
EngineSave(store, c) == [Logged(store, c) EXCEPT !.policies[c.m].limits = c.arg]
EngineOverride(store, c) == Logged(store, c)

\* An ingested failure may or may not have become a decision when it is answered.
EngineIngest(store, c) ==
  {Logged(store, c),
   [Logged(store, c) EXCEPT
      !.decisions = <<DecisionRow(c.arg, c.m, "ranked")>> \o store.decisions]}

\* What the engine's state may be once it has carried out a call it accepts.
EngineAfter(store, c) ==
  CASE c.kind = "toggle"   -> {EngineToggle(store, c)}
    [] c.kind = "save"     -> {EngineSave(store, c)}
    [] c.kind = "override" -> {EngineOverride(store, c)}
    [] c.kind = "simulate" -> EngineIngest(store, c)

(***************************************************************************)
(* The sandbox.  It answers for any merchant, from DefaultRow when it has  *)
(* no row, and rewrites a decision when it is overridden, whoever owns it. *)
(* It refuses only to override a decision it has never heard of.           *)
(***************************************************************************)
RowName(store, m) == IF HasRow(store, m) THEN m ELSE DefaultRow
getPolicyConfig(store, m) == store.policies[RowName(store, m)]

SandboxKnows(store, c) == c.kind = "override" => c.arg \in Ids(store.decisions)

setKillSwitch(store, c) ==
  [Logged(store, c) EXCEPT !.policies[RowName(store, c.m)].kill = (c.arg = "engage")]

\* The row is a copy of the one answered so far: a merchant without a row of its
\* own gets DefaultRow's copy, merchant id included.
updatePolicyConfig(store, c) ==
  LET updated == [getPolicyConfig(store, c.m) EXCEPT !.limits = c.arg]
  IN [Logged(store, c) EXCEPT
        !.policies = [m \in DOMAIN store.policies \cup {c.m} |->
                        IF m = c.m THEN updated ELSE store.policies[m]]]

Overridden(decisions, id) ==
  [i \in DOMAIN decisions |->
     IF decisions[i].id = id THEN [decisions[i] EXCEPT !.chosen = "operator"] ELSE decisions[i]]

overrideDecision(store, c) ==
  [Logged(store, c) EXCEPT !.decisions = Overridden(store.decisions, c.arg)]

simulatePaymentFailed(store, c) ==
  [Logged(store, c) EXCEPT
     !.decisions = <<DecisionRow(c.arg, c.m, "ranked")>> \o store.decisions]

SandboxAfter(store, c) ==
  CASE c.kind = "toggle"   -> setKillSwitch(store, c)
    [] c.kind = "save"     -> updatePolicyConfig(store, c)
    [] c.kind = "override" -> overrideDecision(store, c)
    [] c.kind = "simulate" -> simulatePaymentFailed(store, c)
=============================================================================
