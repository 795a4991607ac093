------------------------------- MODULE Dialogs -------------------------------
(***************************************************************************)
(* The three dialogs that write: the kill switch's, the override's and the *)
(* simulation's.  Each submits, awaits the handler of App.tsx and closes   *)
(* itself; meanwhile the operator may close and reopen it, click again or  *)
(* go elsewhere.  A call's steps are the awaits of its handler.  The       *)
(* simulation belongs to the shell; the other two live on a screen and are *)
(* forgotten when it is left.                                              *)
(***************************************************************************)
EXTENDS Naturals, Sequences, FiniteSets

CONSTANTS
  Dialog,     \* the dialogs looked at, of "kill", "override" and "simulate"
  MaxCalls,   \* bound on the calls submitted
  MaxToggles  \* and on them where all are the kill switch's

DialogsAssumption ==
  /\ Dialog \subseteq {"kill", "override", "simulate"}
  /\ MaxCalls \in Nat /\ MaxToggles \in Nat /\ MaxCalls <= MaxToggles

VARIABLES
  stored,      \* the position of the stored kill switch
  isActive,    \* the position the console shows
  open,        \* by dialog
  reason,      \* whether the mandatory text is typed
  error, isSubmitting,
  calls        \* the calls submitted: [dialog, at, mounted], and of the kill switch's the position
               \* asked for (arg) and read (got), and the company submitted in (alone, opposed)

vars == <<stored, isActive, open, reason, error, isSubmitting, calls>>

Guarded == {"override", "simulate"}   \* their buttons are disabled while submitting
OnScreen == {"kill", "override"}      \* unmounted with their screen
InFlight(c) == c.at \in {"write", "reread", "reply", "audit"}
\* A kill switch call whose answer is not shown yet.
Pending(c) == c.dialog = "kill" /\ c.at \in {"write", "reread", "reply"}

\* A screen that is left forgets its dialog; calls in flight go on without it.
Unmounted(f, S) == [d \in Dialog |-> IF d \in S THEN FALSE ELSE f[d]]
UnmountedCalls(cs, S) ==
  [i \in DOMAIN cs |-> IF cs[i].dialog \in S THEN [cs[i] EXCEPT !.mounted = FALSE] ELSE cs[i]]
Elsewhere(d) == IF d \in OnScreen THEN OnScreen \ {d} ELSE {}

\* The kill switch's dialog opens empty; the others keep what was typed.
OpenDialog(d) ==
  LET emptied == Elsewhere(d) \cup ({d} \cap {"kill"}) IN
  /\ \A x \in Dialog : ~open[x]
  /\ open' = [open EXCEPT ![d] = TRUE]
  /\ reason' = Unmounted(reason, emptied) /\ error' = Unmounted(error, emptied)
  /\ isSubmitting' = Unmounted(isSubmitting, Elsewhere(d))
  /\ calls' = UnmountedCalls(calls, Elsewhere(d))
  /\ UNCHANGED <<stored, isActive>>

Type(d) ==
  /\ open[d] /\ reason' = [reason EXCEPT ![d] = ~@]
  /\ error' = [error EXCEPT ![d] = FALSE]
  /\ UNCHANGED <<stored, isActive, open, isSubmitting, calls>>

SubmitBlank(d) ==
  /\ open[d] /\ ~isSubmitting[d] /\ ~reason[d]
  /\ error' = [error EXCEPT ![d] = TRUE]
  /\ UNCHANGED <<stored, isActive, open, reason, isSubmitting, calls>>

Call(d) ==
  LET pending == {i \in DOMAIN calls : Pending(calls[i])}
      toggle == d = "kill"
  IN [dialog |-> d, arg |-> toggle /\ ~isActive, got |-> FALSE, at |-> "write", mounted |-> TRUE,
      alone |-> toggle /\ pending = {},
      opposed |-> toggle /\ \E i \in pending : calls[i].arg = isActive]

Room(d) ==
  \/ Len(calls) < MaxCalls
  \/ Len(calls) < MaxToggles /\ d = "kill" /\ \A i \in DOMAIN calls : calls[i].dialog = "kill"

Submit(d) ==
  /\ open[d] /\ ~isSubmitting[d] /\ reason[d]
  /\ Room(d)
  /\ calls' = Append(calls, Call(d))
  /\ isSubmitting' = [isSubmitting EXCEPT ![d] = d \in Guarded]
  /\ error' = [error EXCEPT ![d] = IF d \in Guarded THEN FALSE ELSE @]
  /\ UNCHANGED <<stored, isActive, open, reason>>

\* The cross in the corner, or Cancel, whether or not a call is in flight.
Close(d) ==
  /\ open[d] /\ open' = [open EXCEPT ![d] = FALSE]
  /\ UNCHANGED <<stored, isActive, reason, error, isSubmitting, calls>>

Leave(d) ==
  /\ d \in OnScreen /\ \A x \in Dialog : ~open[x]
  /\ reason' = Unmounted(reason, {d}) /\ error' = Unmounted(error, {d})
  /\ isSubmitting' = Unmounted(isSubmitting, {d})
  /\ calls' = UnmountedCalls(calls, {d})
  /\ UNCHANGED <<stored, isActive, open>>

\* The write takes effect; the kill switch's handler then asks for the policy.
Write(i) ==
  /\ calls[i].at = "write"
  /\ stored' = IF calls[i].dialog = "kill" THEN calls[i].arg ELSE stored
  /\ calls' = [calls EXCEPT ![i].at = IF calls[i].dialog = "kill" THEN "reread" ELSE "audit"]
  /\ UNCHANGED <<isActive, open, reason, error, isSubmitting>>

\* The engine reads the policy, and its reply is on the way.
Reread(i) ==
  /\ calls[i].at = "reread"
  /\ calls' = [calls EXCEPT ![i].at = "reply", ![i].got = stored]
  /\ UNCHANGED <<stored, isActive, open, reason, error, isSubmitting>>

\* setPolicy, with whichever reply arrives.
Show(i) ==
  /\ calls[i].at = "reply"
  /\ isActive' = calls[i].got
  /\ calls' = [calls EXCEPT ![i].at = "audit"]
  /\ UNCHANGED <<stored, open, reason, error, isSubmitting>>

\* The handler is through and its dialog, if it is still there, closes.
Done(i) ==
  LET d == calls[i].dialog
  IN /\ calls[i].at = "audit" /\ d \in OnScreen
     /\ IF calls[i].mounted
          THEN /\ open' = [open EXCEPT ![d] = FALSE]
               /\ isSubmitting' = [isSubmitting EXCEPT ![d] = FALSE]
          ELSE UNCHANGED <<open, isSubmitting>>
     /\ calls' = [calls EXCEPT ![i].at = "done"]
     /\ UNCHANGED <<stored, isActive, reason, error>>

\* A simulation ends on the new decision's screen: the policy screen is left, and the
\* investigation screen, if it was there, shows another decision.
DoneSimulating(i) ==
  /\ calls[i].at = "audit" /\ calls[i].dialog = "simulate"
  /\ open' = Unmounted(open, {"kill", "simulate"})
  /\ reason' = Unmounted(reason, {"kill"}) /\ error' = Unmounted(error, {"kill"})
  /\ isSubmitting' = Unmounted(isSubmitting, {"kill", "simulate"})
  /\ calls' = UnmountedCalls([calls EXCEPT ![i].at = "done"], {"kill"})
  /\ UNCHANGED <<stored, isActive>>

FailureKept(i) ==
  LET d == calls[i].dialog IN
  /\ calls[i].at = CASE d = "kill" -> "reread" [] d = "override" -> "write" [] OTHER -> "audit"
  /\ calls' = [calls EXCEPT ![i].at = "failed"]
  /\ error' = [error EXCEPT ![d] = calls[i].mounted \/ @]
  /\ UNCHANGED <<stored, isActive, open, reason, isSubmitting>>
\* An await throws: the override's write, the kill switch's or the simulation's re-read.
Fail(i) ==
  LET d == calls[i].dialog IN
  /\ calls[i].at = CASE d = "kill" -> "reread" [] d = "override" -> "write" [] OTHER -> "audit"
  /\ calls' = [calls EXCEPT ![i].at = "failed"]
  /\ error' = [error EXCEPT ![d] = calls[i].mounted \/ @]
  /\ isSubmitting' = [isSubmitting EXCEPT ![d] = @ /\ ~calls[i].mounted]
  /\ UNCHANGED <<stored, isActive, open, reason>>

Init ==
  /\ stored \in BOOLEAN /\ isActive = stored
  /\ open = [d \in Dialog |-> FALSE]
  /\ reason = [d \in Dialog |-> FALSE] /\ error = [d \in Dialog |-> FALSE]
  /\ isSubmitting = [d \in Dialog |-> FALSE] /\ calls = <<>>

Answer(i) == Write(i) \/ Reread(i) \/ Show(i) \/ Done(i) \/ DoneSimulating(i) \/ Fail(i)

Next ==
  \/ \E d \in Dialog :
       OpenDialog(d) \/ Type(d) \/ SubmitBlank(d) \/ Submit(d) \/ Close(d) \/ Leave(d)
  \/ \E i \in DOMAIN calls : Answer(i)

Spec == Init /\ [][Next]_vars

\* Every await is answered or throws.
FairSpec == Spec /\ \A i \in 1..MaxToggles : WF_vars(i \in DOMAIN calls /\ Answer(i))

-----------------------------------------------------------------------------

\* A dialog whose button is disabled while it submits has one call in flight at most,
\* however often it is closed and opened meanwhile; leaving its screen forgets the call.
OneInFlight ==
  \A d \in Dialog \cap Guarded :
    Cardinality({i \in DOMAIN calls :
                   calls[i].dialog = d /\ calls[i].mounted /\ InFlight(calls[i])}) <= 1

\* The button comes back: what a dialog submitted ends, well or with an error, also when
\* the dialog was closed or another screen came up meanwhile (the handlers' finally).
ButtonReturns == \A d \in Dialog \cap Guarded : isSubmitting[d] ~> ~isSubmitting[d]

(***************************************************************************)
(* The position on the screen is the stored one when the switch's calls    *)
(* have been answered, however they overlapped and whatever failed before  *)
(* the first of them, unless one was lost or an engage and a release were  *)
(* pending together: their replies may then come out of order, and the     *)
(* screen stays wrong (App.tsx handleToggleKillSwitch).                    *)
(***************************************************************************)
\* The calls since the last one that was submitted with none pending.
Recent(i) == calls[i].dialog = "kill" /\ \A j \in DOMAIN calls : j > i => ~calls[j].alone
SwitchShown ==
  (\A i \in DOMAIN calls : Recent(i) => calls[i].at \in {"audit", "done"} /\ ~calls[i].opposed)
    => isActive = stored
=============================================================================
