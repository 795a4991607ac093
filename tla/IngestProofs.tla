----------------------------- MODULE IngestProofs -----------------------------
(***************************************************************************)
(* What Ingest keeps for any deliveries, events and payments: the safety   *)
(* properties follow from an invariant that says, for each open            *)
(* transaction, which of its rows are inserted and which are durable.      *)
(* Then the landing page's trigger and the Redis client, each by itself.   *)
(***************************************************************************)
EXTENDS MCIngest, FiniteSetTheorems, TLAPS

\* A delivery that began has a request, and its created flag belongs to an inserted event.
Begun == \A d \in Delivery : pc[d] # "idle" => req[d] \in Request

Creators ==
  \A d \in Delivery :
    created[d] => eventID[d] = d /\ pc[d] \in {"commit", "answered", "failed"}

\* The payment of a delivery past its first statement is durable or its own.
PaymentHeld ==
  \A d \in Delivery :
    /\ d \in newPayment => pc[d] \in {"event", "lookup", "commit"}
    /\ pc[d] \in {"event", "lookup", "commit"} =>
         req[d].payment \in payments \/ d \in newPayment

\* An event inserted by an open transaction is not durable yet, and nobody else's.
EventHeld ==
  /\ \A d \in newEvent : pc[d] = "commit" /\ created[d] /\ events[req[d].event] = None
  /\ \A d1, d2 \in newEvent : req[d1].event = req[d2].event => d1 = d2

\* Before its commit a duplicate has found the durable row, any other has inserted its own.
RowFound ==
  \A d \in Delivery :
    /\ pc[d] = "lookup" => events[req[d].event] # None
    /\ pc[d] = "commit" =>
         IF created[d] THEN d \in newEvent
         ELSE events[req[d].event] # None /\ events[req[d].event].id = eventID[d]

IInv ==
  /\ TypeOK /\ Begun /\ Creators /\ PaymentHeld /\ EventHeld /\ RowFound
  /\ AnsweredNamesDurableRow /\ EventHasPayment

-----------------------------------------------------------------------------

LEMMA InitIInv == Init => IInv
  BY IngestAssumption DEF Init, IInv, TypeOK, Begun, Creators, PaymentHeld, EventHeld, RowFound,
     AnsweredNamesDurableRow, EventHasPayment, InTransaction, Request

LEMMA BeginIInv == ASSUME IInv, NEW d \in Delivery, Begin(d) PROVE IInv'
  BY IngestAssumption DEF Begin, tables, open, result, IInv, TypeOK, Begun, Creators, PaymentHeld,
     EventHeld, RowFound, AnsweredNamesDurableRow, EventHasPayment, InTransaction, Request

LEMMA InsertPaymentIInv == ASSUME IInv, NEW d \in Delivery, InsertPayment(d) PROVE IInv'
  BY DEF InsertPayment, tables, result, IInv, TypeOK, Begun, Creators, PaymentHeld,
     EventHeld, RowFound, AnsweredNamesDurableRow, EventHasPayment, InTransaction, Request

LEMMA InsertEventIInv == ASSUME IInv, NEW d \in Delivery, InsertEvent(d) PROVE IInv'
<1> USE DEF IInv, TypeOK, InTransaction, Request
<1>1. req[d] \in Request /\ pc[d] = "event" /\ d \notin newEvent
  BY DEF InsertEvent, Begun, EventHeld
<1>2. CASE events[req[d].event] = None
  <2>1. /\ newEvent' = newEvent \cup {d} /\ pc' = [pc EXCEPT ![d] = "commit"]
        /\ created' = [created EXCEPT ![d] = TRUE] /\ eventID' = [eventID EXCEPT ![d] = d]
        /\ UNCHANGED <<req, payments, events, newPayment>>
    BY <1>2 DEF InsertEvent, tables
  <2>2. TypeOK' /\ Begun' /\ Creators'
    BY <1>1, <2>1 DEF Begun, Creators
  <2>3. PaymentHeld' /\ RowFound'
    BY <1>1, <2>1 DEF PaymentHeld, RowFound
  <2>4. EventHeld'
    BY <1>1, <1>2, <2>1 DEF EventHeld, InsertEvent
  <2>5. AnsweredNamesDurableRow' /\ EventHasPayment'
    BY <1>1, <2>1 DEF AnsweredNamesDurableRow, EventHasPayment
  <2> QED BY <2>2, <2>3, <2>4, <2>5
<1>3. CASE events[req[d].event] # None
  <2>1. pc' = [pc EXCEPT ![d] = "lookup"]
        /\ UNCHANGED <<req, payments, events, newPayment, newEvent, created, eventID>>
    BY <1>3 DEF InsertEvent, tables, result
  <2>2. TypeOK' /\ Begun' /\ Creators' /\ PaymentHeld'
    BY <1>1, <2>1 DEF Begun, Creators, PaymentHeld
  <2>3. EventHeld' /\ RowFound'
    BY <1>1, <1>3, <2>1 DEF EventHeld, RowFound
  <2>4. AnsweredNamesDurableRow' /\ EventHasPayment'
    BY <1>1, <2>1 DEF AnsweredNamesDurableRow, EventHasPayment
  <2> QED BY <2>2, <2>3, <2>4
<1> QED BY <1>2, <1>3

LEMMA LookupIInv == ASSUME IInv, NEW d \in Delivery, Lookup(d) PROVE IInv'
  BY DEF Lookup, tables, open, IInv, TypeOK, Begun, Creators, PaymentHeld,
     EventHeld, RowFound, AnsweredNamesDurableRow, EventHasPayment, InTransaction, Request

LEMMA FailIInv == ASSUME IInv, NEW d \in Delivery, Fail(d) PROVE IInv'
  BY DEF Fail, Release, tables, result, IInv, TypeOK, Begun, Creators, PaymentHeld,
     EventHeld, RowFound, AnsweredNamesDurableRow, EventHasPayment, InTransaction, Request

\* Either end of a commit: the rows are durable, and the delivery is answered or not.
LEMMA CommittedIInv ==
  ASSUME IInv, NEW d \in Delivery, pc[d] = "commit", Persist(d), Release(d),
         NEW end \in {"answered", "failed"}, pc' = [pc EXCEPT ![d] = end],
         UNCHANGED <<req, created, eventID>>
  PROVE  IInv'
<1> USE DEF IInv, TypeOK, InTransaction, Request
<1>1. req[d] \in Request /\ req[d].payment \in payments'
  BY DEF Begun, PaymentHeld, Persist
<1>2. payments \subseteq payments'
  BY DEF Persist
<1>3. \A e \in Event : events[e] # None => events'[e] = events[e]
  BY <1>1 DEF Persist, EventHeld
<1>4. events'[req[d].event] # None /\ events'[req[d].event].id = eventID[d]
  <2>1. Row(d) \in [payment : Payment, id : Delivery] /\ Row(d).id = d
    BY <1>1 DEF Row
  <2>2. CASE d \in newEvent
    BY <1>1, <2>1, <2>2, IngestAssumption DEF Persist, EventHeld, Creators
  <2>3. CASE d \notin newEvent
    BY <1>1, <2>3 DEF Persist, RowFound
  <2> QED BY <2>2, <2>3
<1>5. \A e \in Event : events'[e] # events[e] => events'[e] = Row(d) /\ e = req[d].event /\ d \in newEvent
  BY <1>1 DEF Persist
<1>6. TypeOK' /\ Begun' /\ Creators'
  BY <1>1 DEF Begun, Creators, Persist, Release, Row
<1>7. PaymentHeld'
  BY <1>1, <1>2 DEF PaymentHeld, Persist, Release
<1>8. EventHeld'
  BY <1>1, <1>5 DEF EventHeld, Release, Begun
<1>9. RowFound'
  BY <1>3 DEF RowFound, Release, Begun
<1>10. AnsweredNamesDurableRow'
  BY <1>3, <1>4 DEF AnsweredNamesDurableRow, Begun
<1>11. EventHasPayment'
  BY <1>1, <1>2, <1>5 DEF EventHasPayment, Row
<1> QED BY <1>6, <1>7, <1>8, <1>9, <1>10, <1>11

LEMMA NextIInv == IInv /\ [Next]_vars => IInv'
<1> SUFFICES ASSUME IInv, [Next]_vars PROVE IInv'
  OBVIOUS
<1>1. ASSUME NEW d \in Delivery, Commit(d) PROVE IInv'
  BY <1>1, CommittedIInv DEF Commit, result
<1>2. ASSUME NEW d \in Delivery, CommitUnheard(d) PROVE IInv'
  BY <1>2, CommittedIInv DEF CommitUnheard, result
<1>3. CASE UNCHANGED vars
  BY <1>3 DEF vars, IInv, TypeOK, Begun, Creators, PaymentHeld, EventHeld, RowFound,
     AnsweredNamesDurableRow, EventHasPayment
<1> QED
  BY <1>1, <1>2, <1>3, BeginIInv, InsertPaymentIInv, InsertEventIInv, LookupIInv, FailIInv
  DEF Next, Statement, Finished

\* The invariant holds of every behaviour of Store.Ingest's transactions.
THEOREM Invariance == Spec => []IInv
  BY InitIInv, NextIInv, PTL DEF Spec

\* However deliveries, failures and lost Answers interleave, at most one delivery of an event
\* is answered as having created it (store.go: Created).
THEOREM CreatedOnceHolds == Spec => []CreatedOnce
<1>1. IInv => CreatedOnce
  BY DEF IInv, AnsweredNamesDurableRow, Creators, CreatedOnce
<1> QED BY <1>1, Invariance, PTL

\* Every answered delivery names the durable row of its event (store.go: selectEventIDSQL).
THEOREM DurableRowHolds == Spec => []AnsweredNamesDurableRow
<1>1. IInv => AnsweredNamesDurableRow
  BY DEF IInv
<1> QED BY <1>1, Invariance, PTL

\* No durable event is without its payment (store.go: one transaction).
THEOREM EventHasPaymentHolds == Spec => []EventHasPayment
<1>1. IInv => EventHasPayment
  BY DEF IInv
<1> QED BY <1>1, Invariance, PTL

(***************************************************************************)
(* The refinement.  A step of the abstract store is a commit or a failure  *)
(* of a delivery; every other statement is a stutter.                      *)
(***************************************************************************)
\* A delivery that ends changes its own answer only.
LEMMA OneAnswered ==
  ASSUME IInv, NEW d \in Delivery, NEW end, pc' = [pc EXCEPT ![d] = end],
         UNCHANGED <<req, created, eventID>>
  PROVE  Answers' = [Answers EXCEPT ![d] = Answer(d)']
  BY DEF Answers, Answer, IInv, TypeOK

\* A statement before the last Answers nobody.
LEMMA StatementStutters ==
  ASSUME IInv, NEW d \in Delivery,
         Begin(d) \/ InsertPayment(d) \/ InsertEvent(d) \/ Lookup(d)
  PROVE  UNCHANGED <<payments, events, Answers>>
<1>1. UNCHANGED <<payments, events>>
  BY DEF Begin, InsertPayment, InsertEvent, Lookup, tables
<1>2. ASSUME NEW c \in Delivery PROVE Answer(c)' = Answer(c)
  BY DEF Begin, InsertPayment, InsertEvent, Lookup, result, Answer, IInv, TypeOK
<1> QED  BY <1>1, <1>2 DEF Answers

\* A commit takes the delivery, whether it is heard of or not.
LEMMA CommitTakes ==
  ASSUME IInv, NEW d \in Delivery, pc[d] = "commit", Persist(d),
         NEW end \in {"answered", "failed"}, pc' = [pc EXCEPT ![d] = end],
         UNCHANGED <<req, created, eventID>>
  PROVE  Answers[d] = None /\ Promised!Take(d, req[d].event, req[d].payment)
<1>1. PICK e \in Event, p \in Payment : e = req[d].event /\ p = req[d].payment
  BY DEF IInv, Begun, Request
<1>2. Answers[d] = None
  BY DEF Answers, Answer
<1>3. payments' = payments \cup {p}
  BY <1>1 DEF Persist, IInv, PaymentHeld
<1>4. d \in newEvent <=> events[e] = None
  BY <1>1 DEF IInv, EventHeld, RowFound, TypeOK
<1>5. created[d] <=> events[e] = None
  BY <1>1, <1>4 DEF IInv, EventHeld, RowFound, TypeOK
<1>6. PICK row : row = IF events[e] = None THEN [payment |-> p, id |-> d] ELSE events[e]
  OBVIOUS
<1>7. events' = [events EXCEPT ![e] = row]
  BY <1>1, <1>4, <1>6 DEF Persist, Row, IInv, TypeOK
<1>8. row.id = eventID[d]
  BY <1>1, <1>4, <1>5, <1>6 DEF IInv, Creators, RowFound, TypeOK
<1>9. Answer(d)' \in {Promised!Stored(e, events[e] = None, row.id), Promised!Failed}
  BY <1>1, <1>5, <1>8 DEF Answer, Promised!Stored, Promised!Failed, IInv, TypeOK
<1>10. Answers' = [Answers EXCEPT ![d] = Answer(d)']
  BY OneAnswered
<1> QED  BY <1>1, <1>2, <1>3, <1>6, <1>7, <1>9, <1>10 DEF Promised!Take

\* However statements, failures and commits interleave, the deliveries are taken one at a
\* time, whole or not at all (store.go: one transaction, ON CONFLICT, selectEventIDSQL).
THEOREM ImplementsStore == Spec => ImplementsEventStore
<1>1. Init => Promised!Init
  BY DEF Init, Promised!Init, Answers, Answer
<1>2. IInv /\ [Next]_vars => [Promised!Next]_(Promised!vars)
  <2> SUFFICES ASSUME IInv, [Next]_vars PROVE Promised!Next \/ UNCHANGED Promised!vars
    OBVIOUS
  <2>1. ASSUME NEW d \in Delivery, Begin(d) \/ InsertPayment(d) \/ InsertEvent(d) \/ Lookup(d)
        PROVE  UNCHANGED Promised!vars
    BY <2>1, StatementStutters DEF Promised!vars
  <2>2. ASSUME NEW d \in Delivery, Commit(d) \/ CommitUnheard(d) PROVE Promised!Next
    <3>1. req[d].event \in Event /\ req[d].payment \in Payment
      BY <2>2 DEF Commit, CommitUnheard, IInv, Begun, Request
    <3>2. Answers[d] = None /\ Promised!Take(d, req[d].event, req[d].payment)
      BY <2>2, CommitTakes DEF Commit, CommitUnheard, result
    <3> QED  BY <3>1, <3>2 DEF Promised!Next
  <2>3. ASSUME NEW d \in Delivery, Fail(d) PROVE Promised!Next
    <3>1. pc' = [pc EXCEPT ![d] = "failed"] /\ UNCHANGED <<req, created, eventID, payments, events>>
      BY <2>3 DEF Fail, tables, result
    <3>2. Answers[d] = None
      BY <2>3 DEF Fail, InTransaction, Answers, Answer
    <3>3. Answer(d)' = Promised!Failed
      BY <3>1 DEF Answer, Promised!Failed, IInv, TypeOK
    <3>4. Answers' = [Answers EXCEPT ![d] = Promised!Failed]
      BY <3>1, <3>3, OneAnswered
    <3> QED  BY <3>1, <3>2, <3>4 DEF Promised!Next, Promised!Refuse
  <2>4. CASE UNCHANGED vars
    BY <2>4 DEF vars, Promised!vars, Answers, Answer
  <2> QED  BY <2>1, <2>2, <2>3, <2>4 DEF Next, Statement, Finished
<1> QED  BY <1>1, <1>2, Invariance, PTL DEF Spec, ImplementsEventStore, Promised!Spec

(***************************************************************************)
(* The landing page's trigger: a post is answered "stored" only when its   *)
(* event is, and the engine forgets none.                                  *)
(***************************************************************************)
DemoInvariant == (request = "stored" => posted \in stored) /\ ShownIngestedWasStored

\* The terminal says "ingested" only of events the engine has stored (WatchItHappen.tsx).
THEOREM ShownIngestedHolds == Demo!Spec => []ShownIngestedWasStored
<1> USE DEF Demo!Says
<1>1. Demo!Init => DemoInvariant
  BY DEF Demo!Init, DemoInvariant, ShownIngestedWasStored, Demo!ShownIngestedWasStored
<1>2. DemoInvariant /\ [Demo!Next]_(Demo!vars) => DemoInvariant'
  <2> SUFFICES ASSUME DemoInvariant, [Demo!Next]_(Demo!vars) PROVE DemoInvariant'
    OBVIOUS
  <2> USE DEF DemoInvariant, ShownIngestedWasStored, Demo!ShownIngestedWasStored
  <2>1. CASE UNCHANGED Demo!vars
    BY <2>1 DEF Demo!vars
  <2>2. CASE \/ Demo!HealthChecked \/ Demo!Tick \/ \E s \in Demo!Steps : Demo!PickStep(s)
             \/ Demo!Refuse \/ Demo!EngineStartsOrStops
    BY <2>2 DEF Demo!HealthChecked, Demo!Tick, Demo!PickStep, Demo!Refuse, Demo!EngineStartsOrStops,
       Demo!page, Demo!engine
  <2>3. CASE Demo!handleTriggerWebhook \/ Demo!Store
    BY <2>3 DEF Demo!handleTriggerWebhook, Demo!Store, Demo!page, Demo!engine
  <2>4. CASE Demo!Answered \/ Demo!TimedOut
    BY <2>4 DEF Demo!Answered, Demo!TimedOut, Demo!Shown, Demo!Result, Demo!engine
  <2> QED  BY <2>1, <2>2, <2>3, <2>4 DEF Demo!Next
<1>3. DemoInvariant => ShownIngestedWasStored
  BY DEF DemoInvariant
<1> QED  BY <1>1, <1>2, <1>3, PTL DEF Demo!Spec

(***************************************************************************)
(* The Redis client.  A call that has not been sent may still count twice, *)
(* one sent again once more: what all of them may still add to the counter *)
(* stays within two for each call.                                         *)
(***************************************************************************)
MayCount(places) == {p \in Redis!Process : command[p] = "INCR" /\ at[p] \in places}
Twice == MayCount({"wait", "first"})
Once == MayCount({"retry"})

CountInvariant ==
  /\ at \in [Redis!Process -> {"idle", "available", "wait", "first", "retry"}]
  /\ command \in [Redis!Process -> {"PING", "INCR", "EXPIRE"}]
  /\ value \in Nat /\ calls \in Nat /\ acks \in Nat /\ acks <= value
  /\ IsFiniteSet(Twice) /\ IsFiniteSet(Once)
  /\ value + 2 * Cardinality(Twice) + Cardinality(Once) <= 2 * calls

\* How one process's step moves it between the two sets, and the counter with it.
Budget(p, twice, once) ==
  /\ Twice' = IF twice THEN Twice \cup {p} ELSE Twice \ {p}
  /\ Once' = IF once THEN Once \cup {p} ELSE Once \ {p}

Bit(b) == IF b THEN 1 ELSE 0

LEMMA OneElement ==
  ASSUME NEW S, IsFiniteSet(S), NEW p, NEW b \in BOOLEAN, NEW T, T = IF b THEN S \cup {p} ELSE S \ {p}
  PROVE  /\ IsFiniteSet(T) /\ Cardinality(T) \in Nat
         /\ Cardinality(T) = Cardinality(S) + Bit(b) - Bit(p \in S)
<1>1. Cardinality(S) \in Nat
  BY FS_CardinalityType
<1>2. CASE b /\ p \in S
  BY <1>1, <1>2 DEF Bit
<1>3. CASE b /\ p \notin S
  BY <1>1, <1>3, FS_AddElement DEF Bit
<1>4. CASE ~b /\ p \in S
  BY <1>1, <1>4, FS_RemoveElement, FS_CardinalityType DEF Bit
<1>5. CASE ~b /\ p \notin S
  <2>1. T = S
    BY <1>5
  <2> QED  BY <1>1, <1>5, <2>1 DEF Bit
<1> QED  BY <1>2, <1>3, <1>4, <1>5

LEMMA BudgetKept ==
  ASSUME CountInvariant, NEW p, NEW twice \in BOOLEAN, NEW once \in BOOLEAN, Budget(p, twice, once),
         value' \in Nat, calls' \in Nat,
         value' + 2 * Bit(twice) + Bit(once) + 2 * calls
           <= value + 2 * Bit(p \in Twice) + Bit(p \in Once) + 2 * calls'
  PROVE  /\ IsFiniteSet(Twice') /\ IsFiniteSet(Once')
         /\ value' + 2 * Cardinality(Twice') + Cardinality(Once') <= 2 * calls'
<1>1. /\ IsFiniteSet(Twice) /\ Cardinality(Twice) \in Nat /\ IsFiniteSet(Once) /\ Cardinality(Once) \in Nat
      /\ value \in Nat /\ calls \in Nat
      /\ value + 2 * Cardinality(Twice) + Cardinality(Once) <= 2 * calls
  BY FS_CardinalityType DEF CountInvariant
<1>2. /\ IsFiniteSet(Twice') /\ Cardinality(Twice') \in Nat
      /\ Cardinality(Twice') = Cardinality(Twice) + Bit(twice) - Bit(p \in Twice)
  <2>1. PICK T : T = Twice'
    OBVIOUS
  <2> QED  BY <1>1, <2>1, OneElement DEF Budget
<1>3. /\ IsFiniteSet(Once') /\ Cardinality(Once') \in Nat
      /\ Cardinality(Once') = Cardinality(Once) + Bit(once) - Bit(p \in Once)
  <2>1. PICK T : T = Once'
    OBVIOUS
  <2> QED  BY <1>1, <2>1, OneElement DEF Budget
<1>4. {Bit(twice), Bit(once), Bit(p \in Twice), Bit(p \in Once)} \subseteq {0, 1}
  BY DEF Bit
<1> QED  BY <1>1, <1>2, <1>3, <1>4

\* A process that goes from one place to another, with a command, moves between the sets.
LEMMA ProcessMoves ==
  ASSUME CountInvariant, NEW p \in Redis!Process,
         NEW place \in {"idle", "available", "wait", "first", "retry"},
         NEW cmd \in {"PING", "INCR", "EXPIRE"},
         at' = [at EXCEPT ![p] = place], command' = [command EXCEPT ![p] = cmd]
  PROVE  /\ Budget(p, cmd = "INCR" /\ place \in {"wait", "first"}, cmd = "INCR" /\ place = "retry")
         /\ p \in Twice <=> command[p] = "INCR" /\ at[p] \in {"wait", "first"}
         /\ p \in Once <=> command[p] = "INCR" /\ at[p] = "retry"
         /\ at' \in [Redis!Process -> {"idle", "available", "wait", "first", "retry"}]
         /\ command' \in [Redis!Process -> {"PING", "INCR", "EXPIRE"}]
BY DEF CountInvariant, Budget, Twice, Once, MayCount

\* The end of a command: answered, it may be followed by its expiry; failed, it is over.
LEMMA AnswerMoves ==
  ASSUME CountInvariant, NEW p \in Redis!Process, NEW ok \in BOOLEAN, Redis!Answer(p, ok), value' \in Nat
  PROVE  \E place \in {"idle", "wait"}, cmd \in {"PING", "INCR", "EXPIRE"} :
           /\ at' = [at EXCEPT ![p] = place] /\ command' = [command EXCEPT ![p] = cmd]
           /\ cmd = "INCR" => place = "idle"
           /\ acks' = IF command[p] = "INCR" /\ ok THEN acks + 1 ELSE acks
<1> DEFINE n == IF command[p] = "INCR" THEN value' ELSE 0
           expires == ok /\ n = 1
<1>1. /\ at' = [at EXCEPT ![p] = IF expires THEN "wait" ELSE "idle"]
      /\ command' = [command EXCEPT ![p] = IF expires THEN "EXPIRE" ELSE @]
      /\ acks' = IF command[p] = "INCR" /\ ok THEN acks + 1 ELSE acks
  BY DEF Redis!Answer, Redis!Goto
<1>2. command[p] \in {"PING", "INCR", "EXPIRE"} /\ command[p] = command[p]
  BY DEF CountInvariant
<1>3. CASE expires
  BY <1>1, <1>3
<1>4. CASE ~expires
  <2>1. command' = [command EXCEPT ![p] = command[p]] /\ at' = [at EXCEPT ![p] = "idle"]
    BY <1>1, <1>4
  <2> QED  BY <1>1, <1>2, <2>1
<1> QED  BY <1>3, <1>4

\* What a command may still add to the counter, from where it is.
Weight(cmd, place) ==
  2 * Bit(cmd = "INCR" /\ place \in {"wait", "first"}) + Bit(cmd = "INCR" /\ place = "retry")

LEMMA Weights ==
  ASSUME NEW cmd, NEW place
  PROVE  /\ Weight(cmd, place) \in Nat
         /\ cmd # "INCR" => Weight(cmd, place) = 0
         /\ Weight(cmd, "idle") = 0 /\ Weight(cmd, "available") = 0
         /\ Weight("INCR", "wait") = 2 /\ Weight("INCR", "first") = 2 /\ Weight("INCR", "retry") = 1
         /\ Weight(cmd, "wait") = Weight(cmd, "first") /\ Weight(cmd, "retry") <= Weight(cmd, "first")
         /\ Weight(cmd, "first") <= 2
BY DEF Weight, Bit

LEMMA CountKept == ASSUME CountInvariant, [Redis!Next]_(Redis!vars) PROVE CountInvariant'
<1> USE DEF Redis!Goto
<1>1. /\ value \in Nat /\ calls \in Nat /\ acks \in Nat /\ acks <= value
      /\ at \in [Redis!Process -> {"idle", "available", "wait", "first", "retry"}]
      /\ command \in [Redis!Process -> {"PING", "INCR", "EXPIRE"}]
  BY DEF CountInvariant
\* A step of one process, by where it goes, with which command, and what it counts.
<1>2. ASSUME NEW p \in Redis!Process,
             NEW place \in {"idle", "available", "wait", "first", "retry"},
             NEW cmd \in {"PING", "INCR", "EXPIRE"},
             at' = [at EXCEPT ![p] = place], command' = [command EXCEPT ![p] = cmd],
             value' \in Nat, calls' \in Nat, acks' \in Nat, acks' <= value',
             value' + Weight(cmd, place) + 2 * calls <= value + Weight(command[p], at[p]) + 2 * calls'
      PROVE  CountInvariant'
  <2> DEFINE twice == cmd = "INCR" /\ place \in {"wait", "first"}
             once == cmd = "INCR" /\ place = "retry"
  <2>1. /\ Budget(p, twice, once)
        /\ p \in Twice <=> command[p] = "INCR" /\ at[p] \in {"wait", "first"}
        /\ p \in Once <=> command[p] = "INCR" /\ at[p] = "retry"
        /\ at' \in [Redis!Process -> {"idle", "available", "wait", "first", "retry"}]
        /\ command' \in [Redis!Process -> {"PING", "INCR", "EXPIRE"}]
    BY <1>2, ProcessMoves
  <2>2. Weight(cmd, place) = 2 * Bit(twice) + Bit(once)
    BY DEF Weight
  <2>3. Weight(command[p], at[p]) = 2 * Bit(p \in Twice) + Bit(p \in Once)
    <3>1. Bit(p \in Twice) = Bit(command[p] = "INCR" /\ at[p] \in {"wait", "first"})
      BY <2>1 DEF Bit
    <3>2. Bit(p \in Once) = Bit(command[p] = "INCR" /\ at[p] = "retry")
      BY <2>1 DEF Bit
    <3> QED  BY <3>1, <3>2 DEF Weight
  <2>4. twice \in BOOLEAN /\ once \in BOOLEAN
    OBVIOUS
  <2> HIDE DEF twice, once
  <2>5. /\ Bit(twice) \in Nat /\ Bit(once) \in Nat /\ Bit(p \in Twice) \in Nat /\ Bit(p \in Once) \in Nat
    BY DEF Bit
  <2>6. value' + 2 * Bit(twice) + Bit(once) + 2 * calls
          <= value + 2 * Bit(p \in Twice) + Bit(p \in Once) + 2 * calls'
    BY <1>1, <1>2, <2>2, <2>3, <2>5
  <2>7. /\ IsFiniteSet(Twice') /\ IsFiniteSet(Once')
        /\ value' + 2 * Cardinality(Twice') + Cardinality(Once') <= 2 * calls'
    BY <1>2, <2>1, <2>4, <2>6, BudgetKept
  <2> QED  BY <1>2, <2>1, <2>7 DEF CountInvariant
<1>3. ASSUME UNCHANGED <<at, command, calls>>, value' \in Nat, acks' \in Nat, acks' <= value', value' <= value
      PROVE  CountInvariant'
  <2>1. Twice' = Twice /\ Once' = Once
    BY <1>3 DEF Twice, Once, MayCount
  <2>2. Cardinality(Twice) \in Nat /\ Cardinality(Once) \in Nat
    BY FS_CardinalityType DEF CountInvariant
  <2> QED  BY <1>1, <1>3, <2>1, <2>2 DEF CountInvariant
<1>4. CASE Redis!ServerChanges \/ Redis!CloseIdle \/ Redis!ExpireWindow \/ UNCHANGED Redis!vars
  BY <1>1, <1>3, <1>4 DEF Redis!ServerChanges, Redis!CloseIdle, Redis!ExpireWindow, Redis!vars, Redis!counter
<1>5. ASSUME NEW p \in Redis!Process,
             Redis!StartProbe(p) \/ Redis!Available(p) \/ Redis!IncrCounter(p) \/ Redis!Acquire(p) \/ Redis!Run(p)
      PROVE  CountInvariant'
  <2>0. /\ command[p] \in {"PING", "INCR", "EXPIRE"} /\ command = [command EXCEPT ![p] = command[p]]
        /\ at[p] \in {"idle", "available", "wait", "first", "retry"}
    BY <1>1
  <2>w. ASSUME NEW cmd, NEW place
        PROVE  /\ Weight(cmd, place) \in Nat
               /\ cmd # "INCR" => Weight(cmd, place) = 0
               /\ Weight(cmd, "idle") = 0 /\ Weight(cmd, "available") = 0
               /\ Weight("INCR", "wait") = 2 /\ Weight("INCR", "first") = 2 /\ Weight("INCR", "retry") = 1
               /\ Weight(cmd, "wait") = Weight(cmd, "first") /\ Weight(cmd, "retry") <= Weight(cmd, "first")
    BY Weights
  \* A step that counts nothing, to a place with no greater weight.
  <2>s. ASSUME NEW place \in {"idle", "available", "wait", "first", "retry"},
               NEW cmd \in {"PING", "INCR", "EXPIRE"},
               at' = [at EXCEPT ![p] = place], command' = [command EXCEPT ![p] = cmd],
               UNCHANGED <<value, calls, acks>>, Weight(cmd, place) <= Weight(command[p], at[p])
        PROVE  CountInvariant'
    <3>1. Weight(cmd, place) \in Nat /\ Weight(command[p], at[p]) \in Nat
      BY <2>w
    <3>2. value' + Weight(cmd, place) + 2 * calls <= value + Weight(command[p], at[p]) + 2 * calls'
      BY <1>1, <2>s, <3>1
    <3> QED  BY <1>1, <1>2, <2>s, <3>2
  <2>1. CASE Redis!StartProbe(p)
    <3>1. Weight(command[p], "available") <= Weight(command[p], "idle") /\ at[p] = "idle"
      BY <2>1, <2>w DEF Redis!StartProbe
    <3>2. /\ at' = [at EXCEPT ![p] = "available"] /\ command' = [command EXCEPT ![p] = command[p]]
          /\ UNCHANGED <<value, calls, acks>>
      BY <2>0, <2>1 DEF Redis!StartProbe, Redis!counter
    <3> QED  BY <2>0, <2>s, <3>1, <3>2
  <2>2. CASE Redis!Available(p)
    <3>1. CASE alive
      <4>1. Weight("PING", "wait") <= Weight(command[p], "available") /\ at[p] = "available"
        BY <2>2, <2>w DEF Redis!Available
      <4>2. /\ at' = [at EXCEPT ![p] = "wait"] /\ command' = [command EXCEPT ![p] = "PING"]
            /\ UNCHANGED <<value, calls, acks>>
        BY <2>2, <3>1 DEF Redis!Available, Redis!counter
      <4> QED  BY <2>s, <4>1, <4>2
    <3>2. CASE ~alive
      <4>1. Weight(command[p], "idle") <= Weight(command[p], "available") /\ at[p] = "available"
        BY <2>2, <2>w DEF Redis!Available
      <4>2. /\ at' = [at EXCEPT ![p] = "idle"] /\ command' = [command EXCEPT ![p] = command[p]]
            /\ UNCHANGED <<value, calls, acks>>
        BY <2>0, <2>2, <3>2 DEF Redis!Available, Redis!counter
      <4> QED  BY <2>0, <2>s, <4>1, <4>2
    <3> QED  BY <3>1, <3>2
  \* A call asks for one more: the two it may add are allowed for.
  <2>3. CASE Redis!IncrCounter(p)
    <3>1. /\ at' = [at EXCEPT ![p] = "wait"] /\ command' = [command EXCEPT ![p] = "INCR"]
          /\ value' = value /\ acks' = acks /\ calls' = calls + 1 /\ at[p] = "idle"
      BY <2>3 DEF Redis!IncrCounter, Redis!counter
    <3>2. Weight("INCR", "wait") = 2 /\ Weight(command[p], "idle") = 0
      BY <2>w
    <3>3. value' + Weight("INCR", "wait") + 2 * calls <= value + Weight(command[p], at[p]) + 2 * calls'
      BY <1>1, <3>1, <3>2
    <3>4. calls' \in Nat /\ value' \in Nat /\ acks' \in Nat /\ acks' <= value'
      BY <1>1, <3>1
    <3> QED  BY <1>2, <3>1, <3>3, <3>4
  \* The end of a command, which has been executed or not.
  <2>4. ASSUME NEW ok \in BOOLEAN, Redis!Answer(p, ok), UNCHANGED calls,
               at[p] \in {"wait", "first", "retry"},
               value' \in {value, value + 1}, value' = value + 1 => command[p] = "INCR",
               ok /\ command[p] = "INCR" => value' = value + 1
        PROVE  CountInvariant'
    <3>1. value' \in Nat
      BY <1>1, <2>4
    <3>2. PICK place \in {"idle", "wait"}, cmd \in {"PING", "INCR", "EXPIRE"} :
            /\ at' = [at EXCEPT ![p] = place] /\ command' = [command EXCEPT ![p] = cmd]
            /\ cmd = "INCR" => place = "idle"
            /\ acks' = IF command[p] = "INCR" /\ ok THEN acks + 1 ELSE acks
      BY <2>4, <3>1, AnswerMoves
    <3>3. acks' \in Nat /\ acks' <= value'
      BY <1>1, <2>4, <3>2
    <3>4. Weight(cmd, place) = 0
      BY <2>w, <3>2
    <3>5. Weight(command[p], at[p]) \in Nat /\ (command[p] = "INCR" => Weight(command[p], at[p]) >= 1)
      BY <2>4, <2>w
    <3>6. value' <= value + Weight(command[p], at[p])
      BY <1>1, <2>4, <3>5
    <3>7. value' + Weight(cmd, place) + 2 * calls <= value + Weight(command[p], at[p]) + 2 * calls'
      BY <1>1, <2>4, <3>1, <3>4, <3>5, <3>6
    <3> QED  BY <1>1, <1>2, <2>4, <3>1, <3>2, <3>3, <3>7
  <2>5. CASE Redis!Acquire(p)
    <3>0. at[p] = "wait" /\ UNCHANGED <<value, calls>>
      BY <2>5 DEF Redis!Acquire, Redis!counter
    <3>1. CASE Redis!Return(p, FALSE)
      <4>1. Redis!Answer(p, FALSE)
        BY <3>1 DEF Redis!Return
      <4>2. value' \in {value, value + 1} /\ (value' = value + 1 => command[p] = "INCR")
        BY <1>1, <3>0
      <4> QED  BY <2>4, <3>0, <4>1, <4>2
    <3>2. CASE at' = [at EXCEPT ![p] = "first"] /\ UNCHANGED <<command, acks>>
      <4>1. Weight(command[p], "first") = Weight(command[p], "wait") /\ Weight(command[p], "first") \in Nat
        BY <2>w
      <4>2. Weight(command[p], "first") <= Weight(command[p], at[p])
        BY <3>0, <4>1
      <4>3. command' = [command EXCEPT ![p] = command[p]]
        BY <2>0, <3>2
      <4> QED  BY <2>0, <2>s, <3>0, <3>2, <4>2, <4>3
    <3> QED  BY <2>5, <3>1, <3>2 DEF Redis!Acquire
  <2>6. ASSUME Redis!Executed(p)
        PROVE  /\ value' = IF command[p] = "INCR" THEN value + 1 ELSE value
               /\ value' \in {value, value + 1} /\ value' \in Nat
               /\ value' = value + 1 => command[p] = "INCR"
    BY <1>1, <2>6 DEF Redis!Executed
  <2>7. CASE Redis!Succeed(p)
    BY <1>1, <2>4, <2>6, <2>7 DEF Redis!Succeed, Redis!Return
  <2>8. ASSUME Redis!Error(p)
        PROVE  /\ value' \in {value, value + 1} /\ value' \in Nat
               /\ value' = value + 1 => command[p] = "INCR"
    BY <1>1, <2>6, <2>8 DEF Redis!Error, Redis!counter
  \* A command sent again has counted once at most, and may count once more.
  <2>9. CASE Redis!FailFirst(p)
    <3>0. at[p] = "first" /\ UNCHANGED calls /\ Redis!Error(p)
      BY <2>9 DEF Redis!FailFirst
    <3>1. CASE at' = [at EXCEPT ![p] = "retry"] /\ UNCHANGED <<command, acks>>
      <4>1. /\ command[p] = "INCR" => Weight(command[p], "first") = 2 /\ Weight(command[p], "retry") = 1
            /\ command[p] # "INCR" => Weight(command[p], "first") = 0 /\ Weight(command[p], "retry") = 0
        BY <2>w
      <4>2. value' \in Nat /\ value <= value' /\ value' + Weight(command[p], "retry") <= value + Weight(command[p], "first")
        BY <1>1, <2>8, <3>0, <4>1
      <4>3. Weight(command[p], "retry") \in Nat /\ Weight(command[p], "first") \in Nat
        BY <2>w
      <4>4. value' + Weight(command[p], "retry") + 2 * calls <= value + Weight(command[p], at[p]) + 2 * calls'
        BY <1>1, <3>0, <4>2, <4>3
      <4>5. acks' \in Nat /\ acks' <= value' /\ calls' \in Nat
        BY <1>1, <3>0, <3>1, <4>2
      <4>6. command' = [command EXCEPT ![p] = command[p]]
        BY <2>0, <3>1
      <4> QED  BY <1>2, <2>0, <3>1, <4>2, <4>4, <4>5, <4>6
    <3>2. CASE Redis!Return(p, FALSE)
      BY <2>4, <2>8, <3>0, <3>2 DEF Redis!Return
    <3> QED  BY <2>9, <3>1, <3>2 DEF Redis!FailFirst
  <2>10. CASE Redis!FailRetry(p)
    BY <2>4, <2>8, <2>10 DEF Redis!FailRetry, Redis!Return
  <2> QED  BY <1>5, <2>1, <2>2, <2>3, <2>5, <2>7, <2>9, <2>10 DEF Redis!Run
<1> QED  BY <1>4, <1>5 DEF Redis!Next

\* However often connections break or Redis falls silent, the counter holds at least what was
\* acknowledged in its window and at most two for each call ever made: a call is repeated
\* once (redis.go, do).
THEOREM CountedOnceOrTwiceHolds == Redis!Spec => []CountedOnceOrTwice
<1>1. Redis!Init => CountInvariant
  <2> SUFFICES ASSUME Redis!Init PROVE CountInvariant
    OBVIOUS
  <2>1. Twice = {} /\ Once = {}
    BY DEF Redis!Init, Twice, Once, MayCount
  <2>2. IsFiniteSet({}) /\ Cardinality({}) = 0
    BY FS_EmptySet
  <2> QED  BY <2>1, <2>2 DEF Redis!Init, CountInvariant
<1>2. CountInvariant /\ [Redis!Next]_(Redis!vars) => CountInvariant'
  BY CountKept
<1>3. CountInvariant => CountedOnceOrTwice
  BY FS_CardinalityType DEF CountInvariant, CountedOnceOrTwice, Redis!CountedOnceOrTwice
<1> QED  BY <1>1, <1>2, <1>3, PTL DEF Redis!Spec
=============================================================================
