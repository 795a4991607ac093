-------------------------- MODULE ConsoleProperties --------------------------
(* What the console owes its operator, and one thing it promises but does not keep. *)
EXTENDS Console

Rows(feed) == {feed[i] : i \in DOMAIN feed}
Reliable == "lost" \notin session.faults
HomeStore == IF mode = "live" THEN engine ELSE sandbox

(***************************************************************************)
(* When nothing is in flight, the policy and the decisions shown are the   *)
(* ones the store of the mode holds for the current merchant (a decision   *)
(* may be shown twice), whatever the commands issued so far: no handler    *)
(* forgets a re-read or shows the answer to another question.  (App.tsx,   *)
(* every handler; for an operator who waits and types limits within the    *)
(* ceilings, and an engine that answers: what the engine refuses is saved  *)
(* and shown by the sandbox.  A mode switch keeps the merchant: the other  *)
(* store may not have its row, and the fallback then shows the sandbox's.) *)
(***************************************************************************)
Attended == session.patient /\ Reliable /\ "over" \notin session.types

ShownIsStored ==
  Quiet /\ Usable /\ Attended =>
    /\ HasRow(HomeStore, current) => policy = HomeStore.policies[current]
    /\ Rows(decisions) = Rows(Feed(HomeStore, current))

\* The operator's writes take effect as the client manager promises, whatever mode
\* switches, refusals, lost answers and fallbacks come after they were issued (client.ts).
Writes == 1..MaxCommands
StoreNamed == IF mode = "live" THEN "engine" ELSE "sandbox"

Routed == INSTANCE RoutedStores WITH
  Write <- Writes, mode <- StoreNamed,
  issued <- [j \in DOMAIN jobs |-> jobs[j].named],
  sure <- {j \in DOMAIN jobs : Reliable /\ jobs[j].kind # "simulate"},
  applied <- [s \in {"engine", "sandbox"} |-> {j \in DOMAIN jobs : s \in jobs[j].wrote}]

RoutedWrites == Routed!Spec

(***************************************************************************)
(* The engine records an override only for the merchant that owns the      *)
(* decision, although the console may send the selection of one merchant   *)
(* under the name of the next (App.tsx handleOverrideDecision; the check   *)
(* is RecordOverride's).                                                   *)
(***************************************************************************)
OverridesOwned ==
  \A a \in engine.audit : a.kind = "override" =>
    \E i \in DOMAIN engine.decisions :
      engine.decisions[i].id = a.subject /\ engine.decisions[i].merchant = a.merchant

(***************************************************************************)
(* Nothing is left hanging: every command succeeds or reports an error,    *)
(* and a loading screen ends, whatever else the operator does (App.tsx's   *)
(* handlers and their finally blocks).  An engine that fails every other   *)
(* read for ever can keep the screen loading: the two feeds take turns to  *)
(* change the selection, and each change starts another load.              *)
(***************************************************************************)
EverythingSettles ==
  /\ Reliable /\ isLoading ~> ~isLoading
  /\ \A j \in Writes :
       (j \in DOMAIN jobs /\ jobs[j].at \notin Settled) ~> (j \in DOMAIN jobs /\ jobs[j].at \in Settled)

-----------------------------------------------------------------------------
(* A claim of a screen that the code does not keep. *)

\* KillSwitch.tsx: "EMERGENCY STOP ENGAGED: Automated recovery actions are halted".
\* In live mode, with nothing in flight, an engaged switch shown is engaged in the engine.
EngagedIsEngaged ==
  Quiet /\ Usable /\ mode = "live" /\ current \in LiveMerchant /\ policy.kill =>
    engine.policies[current].kill
=============================================================================
