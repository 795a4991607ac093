----------------------------- MODULE RoutedStores -----------------------------
(***************************************************************************)
(* What the client manager promises of the operator's writes, without      *)
(* answers, reads or screens: a write issued in sandbox mode takes effect  *)
(* in the sandbox, once, and nowhere else.  A write issued in live mode    *)
(* takes effect in the engine, or is repeated in the sandbox; both happen  *)
(* only to a write whose effect the console cannot be sure of: one whose   *)
(* answer may get lost, or a simulated failure, which is confirmed by a    *)
(* decision that may not be there yet.                                     *)
(***************************************************************************)
CONSTANT Write

Store == {"engine", "sandbox"}

VARIABLES
  mode,      \* the store the mode names
  issued,    \* the store each issued write was issued to
  sure,      \* the issued writes whose effect the console can be sure of
  applied    \* the writes each store has carried out

vars == <<mode, issued, sure, applied>>

Init ==
  /\ mode \in Store
  /\ issued = [w \in {} |-> mode] /\ sure = {}
  /\ applied = [s \in Store |-> {}]

Switch == mode' \in Store /\ UNCHANGED <<issued, sure, applied>>

Issue(w) ==
  /\ w \notin DOMAIN issued
  /\ issued' = [v \in DOMAIN issued \cup {w} |-> IF v = w THEN mode ELSE issued[v]]
  /\ sure' \in {sure, sure \cup {w}}
  /\ UNCHANGED <<mode, applied>>

Apply(w) ==
  /\ w \in DOMAIN issued /\ \A s \in Store : w \notin applied[s]
  /\ applied' = [applied EXCEPT ![issued[w]] = @ \cup {w}]
  /\ UNCHANGED <<mode, issued, sure>>

\* The fallback.
Repeat(w) ==
  /\ w \in DOMAIN issued /\ issued[w] = "engine"
  /\ w \notin applied["sandbox"] /\ (w \in sure => w \notin applied["engine"])
  /\ applied' = [applied EXCEPT !["sandbox"] = @ \cup {w}]
  /\ UNCHANGED <<mode, issued, sure>>

Next == Switch \/ \E w \in Write : Issue(w) \/ Apply(w) \/ Repeat(w)

Spec == Init /\ [][Next]_vars
=============================================================================
