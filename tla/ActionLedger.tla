---------------------------- MODULE ActionLedger ----------------------------
(***************************************************************************)
(* What the engine promises of its ledger, without handlers, queues,       *)
(* retries or crashes: an event is decided once; actions are recorded only *)
(* for a decision; a recorded action may be pending and is settled once,   *)
(* as recovered only if the gateway took its money.  That money moves only *)
(* for a decision is not promised: execute-action asks for none.           *)
(***************************************************************************)
CONSTANTS Decision, Action

Key == Decision \X Action

VARIABLES
  decided,   \* decisions taken
  ledger,    \* what the ledger says of each action
  taken      \* actions whose money the gateway has captured or holds

vars == <<decided, ledger, taken>>

Init ==
  /\ decided = {} /\ taken = {}
  /\ ledger = [k \in Key |-> "absent"]

Decide(d) ==
  /\ d \notin decided
  /\ decided' = decided \cup {d}
  /\ UNCHANGED <<ledger, taken>>

Take(k) ==
  /\ k \notin taken
  /\ taken' = taken \cup {k}
  /\ UNCHANGED <<decided, ledger>>

Pend(k) ==
  /\ k[1] \in decided /\ ledger[k] = "absent"
  /\ ledger' = [ledger EXCEPT ![k] = "pending"]
  /\ UNCHANGED <<decided, taken>>

Settle(k) ==
  /\ k[1] \in decided /\ ledger[k] \in {"absent", "pending"}
  /\ \E result \in {"recovered", "not_recovered"} :
       /\ result = "recovered" => k \in taken
       /\ ledger' = [ledger EXCEPT ![k] = result]
  /\ UNCHANGED <<decided, taken>>

Next ==
  \/ \E d \in Decision : Decide(d)
  \/ \E k \in Key : Take(k) \/ Pend(k) \/ Settle(k)

Spec == Init /\ [][Next]_vars
=============================================================================
