-------------------------------- MODULE Ingest --------------------------------
(***************************************************************************)
(* Store.Ingest: deliveries of webhook events, each one transaction of two *)
(* inserts that conflicts absorb.  The database holds a row inserted by an *)
(* open transaction back from the others: an insert of the same key waits  *)
(* until that transaction has ended, and commits or rolls back as a whole. *)
(***************************************************************************)
EXTENDS FiniteSets

CONSTANTS
  Delivery,  \* deliveries, the redelivered ones included
  Event,     \* external_event_id
  Payment,   \* payment_id
  None

ASSUME IngestAssumption ==
  /\ None \notin Delivery
  /\ None \notin [event : Event, payment : Payment] \cup [payment : Payment, id : Delivery]

VARIABLES
  pc,        \* the statement each delivery is at
  req,       \* what it delivers: [event, payment], None before it began
  payments,  \* committed rows of payments
  events,    \* committed rows of payment_events: [payment, id], None where there is none
  newPayment, newEvent,  \* the deliveries whose open transaction has inserted a row
  created, eventID       \* Created and PaymentEventID of their results

vars == <<pc, req, payments, events, newPayment, newEvent, created, eventID>>
tables == <<payments, events>>
open == <<newPayment, newEvent>>
result == <<created, eventID>>

Request == [event : Event, payment : Payment]
InTransaction == {"payment", "event", "lookup", "commit"}

Begin(d) ==
  /\ pc[d] = "idle" /\ pc' = [pc EXCEPT ![d] = "payment"]
  /\ \E r \in Request : req' = [req EXCEPT ![d] = r]
  /\ UNCHANGED <<tables, open, result>>

\* upsertPaymentSQL
InsertPayment(d) ==
  /\ pc[d] = "payment" /\ pc' = [pc EXCEPT ![d] = "event"]
  /\ \A other \in newPayment : req[other].payment # req[d].payment
  /\ newPayment' = IF req[d].payment \in payments THEN newPayment ELSE newPayment \cup {d}
  /\ UNCHANGED <<req, tables, newEvent, result>>

\* The row of the event this delivery inserts; its id is the delivery that created it.
Row(d) == [payment |-> req[d].payment, id |-> d]

InsertEventAtOnce(d) ==
  /\ pc[d] = "event"
  /\ IF events[req[d].event] = None
     THEN /\ events' = [events EXCEPT ![req[d].event] = Row(d)]
          /\ created' = [created EXCEPT ![d] = TRUE] /\ eventID' = [eventID EXCEPT ![d] = d]
          /\ pc' = [pc EXCEPT ![d] = "commit"]
     ELSE pc' = [pc EXCEPT ![d] = "lookup"] /\ UNCHANGED <<events, result>>
  /\ UNCHANGED <<req, payments, open>>
\* insertEventSQL: a conflict returns no row, and the delivery is a duplicate.
InsertEvent(d) ==
  /\ pc[d] = "event"
  /\ \A other \in newEvent : req[other].event # req[d].event
  /\ IF events[req[d].event] = None
     THEN /\ newEvent' = newEvent \cup {d}
          /\ created' = [created EXCEPT ![d] = TRUE] /\ eventID' = [eventID EXCEPT ![d] = d]
          /\ pc' = [pc EXCEPT ![d] = "commit"]
     ELSE pc' = [pc EXCEPT ![d] = "lookup"] /\ UNCHANGED <<newEvent, result>>
  /\ UNCHANGED <<req, tables, newPayment>>

LookupCreated(d) ==
  /\ pc[d] = "lookup" /\ pc' = [pc EXCEPT ![d] = "commit"]
  /\ created' = [created EXCEPT ![d] = TRUE]
  /\ eventID' = [eventID EXCEPT ![d] = events[req[d].event].id]
  /\ UNCHANGED <<req, tables, open>>
LookupOwn(d) ==
  /\ pc[d] = "lookup" /\ pc' = [pc EXCEPT ![d] = "commit"]
  /\ eventID' = [eventID EXCEPT ![d] = d]
  /\ UNCHANGED <<req, tables, open, created>>
\* selectEventIDSQL: the id of the row that won.
Lookup(d) ==
  /\ pc[d] = "lookup" /\ pc' = [pc EXCEPT ![d] = "commit"]
  /\ eventID' = [eventID EXCEPT ![d] = events[req[d].event].id]
  /\ UNCHANGED <<req, tables, open, created>>

\* The rows of the open transaction become durable and it holds nothing back any more.
Persist(d) ==
  /\ payments' = IF d \in newPayment THEN payments \cup {req[d].payment} ELSE payments
  /\ events' = IF d \in newEvent THEN [events EXCEPT ![req[d].event] = Row(d)] ELSE events
Release(d) == newPayment' = newPayment \ {d} /\ newEvent' = newEvent \ {d}

Commit(d) ==
  /\ pc[d] = "commit" /\ pc' = [pc EXCEPT ![d] = "answered"]
  /\ Persist(d) /\ Release(d)
  /\ UNCHANGED <<req, result>>

FailNoRollback(d) ==
  /\ pc[d] \in InTransaction /\ pc' = [pc EXCEPT ![d] = "failed"]
  /\ UNCHANGED <<req, tables, open, result>>
\* Any statement may fail: the deferred Rollback.
Fail(d) ==
  /\ pc[d] \in InTransaction /\ pc' = [pc EXCEPT ![d] = "failed"]
  /\ Release(d)
  /\ UNCHANGED <<req, tables, result>>

\* The commit is done, and its answer is lost.
CommitUnheard(d) ==
  /\ pc[d] = "commit" /\ pc' = [pc EXCEPT ![d] = "failed"]
  /\ Persist(d) /\ Release(d)
  /\ UNCHANGED <<req, result>>

Init ==
  /\ pc = [d \in Delivery |-> "idle"]
  /\ req = [d \in Delivery |-> None]
  /\ payments = {} /\ events = [e \in Event |-> None]
  /\ newPayment = {} /\ newEvent = {}
  /\ created = [d \in Delivery |-> FALSE] /\ eventID = [d \in Delivery |-> None]

Statement(d) == InsertPayment(d) \/ InsertEvent(d) \/ Lookup(d) \/ Commit(d)

\* All deliveries answered or failed: nothing is left to do.
Finished == (\A d \in Delivery : pc[d] \in {"answered", "failed"}) /\ UNCHANGED vars

Next ==
  \/ \E d \in Delivery : Begin(d) \/ Statement(d) \/ Fail(d) \/ CommitUnheard(d)
  \/ Finished

Spec == Init /\ [][Next]_vars

\* The database executes a statement that waits for nothing, or fails it.
FairSpec == Spec /\ \A d \in Delivery : WF_vars(Statement(d))

-----------------------------------------------------------------------------

TypeOK ==
  /\ pc \in [Delivery -> InTransaction \cup {"idle", "answered", "failed"}]
  /\ req \in [Delivery -> Request \cup {None}]
  /\ payments \subseteq Payment
  /\ events \in [Event -> [payment : Payment, id : Delivery] \cup {None}]
  /\ newPayment \subseteq Delivery /\ newEvent \subseteq Delivery
  /\ created \in [Delivery -> BOOLEAN] /\ eventID \in [Delivery -> Delivery \cup {None}]

\* Of all deliveries of one event, in whatever order their statements, failures and
\* commits come, at most one is answered as having created it (store.go: Created).
CreatedOnce ==
  \A d1, d2 \in Delivery :
    (pc[d1] = "answered" /\ pc[d2] = "answered" /\ created[d1] /\ created[d2]
       /\ req[d1].event = req[d2].event) => d1 = d2

\* Every answered delivery names the durable row of its event: duplicates get the id of
\* the delivery that won, even of one whose own answer was lost.
AnsweredNamesDurableRow ==
  \A d \in Delivery : pc[d] = "answered" =>
    events[req[d].event] # None /\ events[req[d].event].id = eventID[d]

\* store.go: "a failure never leaves ... " an event without its payment.
EventHasPayment == \A e \in Event : events[e] # None => events[e].payment \in payments

\* What the deliveries were answered, of their requests.
Answer(d) ==
  CASE pc[d] = "answered" -> [event |-> req[d].event, created |-> created[d], id |-> eventID[d]]
    [] pc[d] = "failed" -> [result |-> "failed"]
    [] OTHER -> None
Answers == [d \in Delivery |-> Answer(d)]

Promised == INSTANCE EventStore WITH answer <- Answers

\* Statement by statement, with open transactions, conflicts, failures and lost answers, a
\* delivery is taken in one step, its commit, or not at all: an event is stored with its
\* payment by the first, and each answer names that one (store.go Ingest: "a failure never
\* leaves a partially-persisted event").
ImplementsEventStore == Promised!Spec

\* No two deliveries wait for each other's rows: every delivery that began ends.
DeliveriesEnd ==
  \A d \in Delivery : pc[d] \in InTransaction ~> pc[d] \in {"answered", "failed"}
=============================================================================
