------------------------------ MODULE EventStore ------------------------------
(***************************************************************************)
(* What Store.Ingest promises, without statements, transactions or locks:  *)
(* a delivery is taken whole or not at all.  The first one taken of an     *)
(* event stores it, and every answer says whether its delivery was that    *)
(* one, and which one was.                                                 *)
(***************************************************************************)
CONSTANTS Delivery, Event, Payment, None

VARIABLES
  payments,  \* the payments stored
  events,    \* the events stored: [payment, id], None where there is none
  answer     \* what each delivery was answered, None until then

vars == <<payments, events, answer>>

Failed == [result |-> "failed"]
Stored(e, created, id) == [event |-> e, created |-> created, id |-> id]

Init ==
  /\ payments = {} /\ events = [e \in Event |-> None]
  /\ answer = [d \in Delivery |-> None]

\* The payment is stored with the event, and with a duplicate that names another one.
Take(d, e, p) ==
  LET created == events[e] = None
      row == IF created THEN [payment |-> p, id |-> d] ELSE events[e]
  IN /\ payments' = payments \cup {p}
     /\ events' = [events EXCEPT ![e] = row]
     /\ \E a \in {Stored(e, created, row.id), Failed} : answer' = [answer EXCEPT ![d] = a]

Refuse(d) == answer' = [answer EXCEPT ![d] = Failed] /\ UNCHANGED <<payments, events>>

Next ==
  \E d \in Delivery :
    /\ answer[d] = None
    /\ Refuse(d) \/ \E e \in Event, p \in Payment : Take(d, e, p)

Spec == Init /\ [][Next]_vars
=============================================================================
