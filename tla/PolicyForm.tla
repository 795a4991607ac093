------------------------------ MODULE PolicyForm ------------------------------
(***************************************************************************)
(* One merchant's policy from the form to the decision: PolicyView's fields*)
(* and checks, the two policy calls of http-client.ts, the bounds of       *)
(* UpdatePolicyConfig and the row, which the engine resolves against the   *)
(* platform (Policy) when it decides.  Confidence is in thousandths, the   *)
(* amount ceiling in paise, and the minimum ERV, whose column is finer, in *)
(* tenths of a paisa.  Cleared is what an emptied number field holds.      *)
(***************************************************************************)
EXTENDS Policy

CONSTANTS
  Cleared,    \* NaN
  Platform,   \* the platform_policy rows there may be
  StartRows,  \* the rows the merchant may start with
  SandboxRow, \* what the sandbox answers for this merchant at first
  Typed,      \* the values the operator types, by field
  MaxEdits    \* bound on the fields changed between two loads

Field == {"maxRetries", "cooldown", "minERV", "dailyCap", "amountCeiling", "confidenceFloor"}

FormAssumption ==
  /\ Platform \subseteq PlatformRow /\ StartRows \subseteq MerchantRow /\ SandboxRow \in MerchantRow
  /\ DOMAIN Typed = Field /\ MaxEdits \in Nat /\ Cleared \notin Int
  /\ \A field \in Field : Typed[field] \subseteq Int \cup {Cleared}
  \* The floor's number field steps by whole percents.
  /\ \A floor \in Typed["confidenceFloor"] \ {Cleared} : floor % 10 = 0

VARIABLES
  row,          \* the merchant's row
  read,         \* the row the engine last answered with
  platform,
  sandbox,      \* the limits the sandbox holds for the merchant
  config,       \* the policy shown: [from, limits, costs], from "engine", "refused" for an
                \* own save kept by the sandbox, or "sandbox" after a failed read
  form, costs,  \* the fields and the cost table of the form
  hasChanges,
  typed,        \* the fields typed into the form since it showed the engine's row
  saved         \* "none", "error", or the store the last save ended in

vars == <<row, read, platform, sandbox, config, form, costs, hasChanges, typed, saved>>

(***************************************************************************)
(* The mappings.  An unset floor is shown as 0.5; the form shows a floor in*)
(* whole percents and saves a minimum ERV in whole paise; an emptied field *)
(* is sent as null, which Go reads as 0.                                   *)
(***************************************************************************)
\* Math.round, to a whole percent or paisa.
Rounded(x) == 10 * ((x + 5) \div 10)

toConfig(r) == [r EXCEPT !.confidenceFloor = IF @ = NoOverride THEN 500 ELSE @]

FormOf(limits) ==
  [limits EXCEPT !.confidenceFloor = Rounded(@)]

\* What handleSave makes of the fields.
Sent(f) == [f EXCEPT !.minERV = Rounded(@)]

CapLeftOut(f) ==
  [field \in Field |-> IF field = "dailyCap" THEN 200 ELSE IF f[field] = Cleared THEN 0 ELSE f[field]]
RequestBody(f) == [field \in Field |-> IF f[field] = Cleared THEN 0 ELSE f[field]]

\* The cost table is the client's own whenever the policy comes from the engine.
EngineConfig(r) ==
  [from |-> "engine", limits |-> toConfig(r), costs |-> "client"]

(***************************************************************************)
(* UpdatePolicyConfig: an edit that would loosen the policy past a ceiling *)
(* is refused, and so is a negative value.                                 *)
(***************************************************************************)
ExceedsBounds(body, p) ==
  \/ p.maxRetriesCeiling > 0 /\ body.maxRetries > p.maxRetriesCeiling
  \/ body.cooldown < p.minCooldown
  \/ p.maxAmountCeiling > 0 /\ body.amountCeiling > p.maxAmountCeiling
  \/ p.maxDailyCap > 0 /\ body.dailyCap > p.maxDailyCap
  \/ body.confidenceFloor < p.confidenceFloor
Refused(body, p) == (\E field \in Field : body[field] < 0) \/ ExceedsBounds(body, p)

(***************************************************************************)
(* The form.                                                               *)
(***************************************************************************)
Fill(limits, table) ==
  /\ form' = FormOf(limits) /\ costs' = table /\ hasChanges' = FALSE
  /\ typed' = IF config'.from = "engine" THEN {} ELSE typed

\* Whenever another policy object arrives the form is filled from it.
Load ==
  /\ config' = EngineConfig(row)
  /\ Fill(toConfig(row), "client")
  /\ read' = row /\ saved' = "none"
  /\ UNCHANGED <<row, platform, sandbox>>

\* A read the engine fails is answered by the sandbox.
LoadFromSandbox ==
  /\ config' = [from |-> "sandbox", limits |-> sandbox, costs |-> "client"]
  /\ form' = FormOf(sandbox) /\ costs' = "client" /\ hasChanges' = FALSE /\ typed' = {}
  /\ saved' = "none"
  /\ UNCHANGED <<row, read, platform, sandbox>>

handleFieldChange(field, value) ==
  /\ Cardinality(typed) < MaxEdits \/ field \in typed
  /\ value # form[field]
  /\ form' = [form EXCEPT ![field] = value]
  /\ typed' = typed \cup {field} /\ hasChanges' = TRUE
  /\ saved' = "none"
  /\ UNCHANGED <<row, read, platform, sandbox, config, costs>>

handleActionCostChange ==
  /\ costs' = "typed" /\ hasChanges' = TRUE /\ saved' = "none"
  /\ UNCHANGED <<row, read, platform, sandbox, config, form, typed>>

handleReset ==
  /\ hasChanges /\ config' = config
  /\ Fill(config.limits, config.costs) /\ UNCHANGED <<row, read, platform, sandbox, saved>>

\* The browser submits the form when its number fields are empty or between their
\* min and max.
InRange(x, lo, hi) == IF x = Cleared THEN TRUE ELSE lo <= x /\ x <= hi
Submittable ==
  /\ hasChanges
  /\ InRange(form.cooldown, 5, 360) /\ InRange(form.dailyCap, 50, 5000)
  /\ InRange(form.confidenceFloor, 500, 1000)

\* handleSave's own checks.
FieldsValid ==
  /\ form.minERV # Cleared /\ Rounded(form.minERV) >= 0
  /\ form.amountCeiling # Cleared /\ form.amountCeiling > 0
  /\ form.confidenceFloor # Cleared

SaveInvalid ==
  /\ Submittable /\ ~FieldsValid
  /\ saved' = "error"
  /\ UNCHANGED <<row, read, platform, sandbox, config, form, costs, hasChanges, typed>>

Save == Submittable /\ FieldsValid

\* The engine takes every field but the kill switch, and is asked for the row again.  A
\* rival's save between the two is one after both, and another Load.
SaveAccepted ==
  /\ Save /\ ~Refused(RequestBody(Sent(form)), platform)
  /\ row' = RequestBody(Sent(form))
  /\ config' = EngineConfig(row') /\ read' = row'
  /\ Fill(toConfig(row'), "client")
  /\ saved' = "engine"
  /\ UNCHANGED <<platform, sandbox>>

\* A refusal sends the save on to the sandbox, which keeps the fields and costs as sent.
SaveRefused ==
  /\ Save /\ Refused(RequestBody(Sent(form)), platform)
  /\ sandbox' = Sent(form)
  /\ config' = [from |-> IF config.from = "sandbox" THEN "sandbox" ELSE "refused",
                 limits |-> Sent(form), costs |-> costs]
  /\ Fill(Sent(form), costs)
  /\ saved' = "sandbox"
  /\ UNCHANGED <<row, read, platform>>

\* An operator tunes the platform row in the database.
RivalCeiling ==
  /\ platform' \in Platform \ {platform}
  /\ UNCHANGED <<row, read, sandbox, config, form, costs, hasChanges, typed, saved>>

\* Another operator saves the policy, or sets it in the database: nothing in the row or the
\* request tells them apart.
RivalSave ==
  /\ row' \in StartRows \ {row}
  /\ UNCHANGED <<read, platform, sandbox, config, form, costs, hasChanges, typed, saved>>

Init ==
  /\ row \in StartRows /\ read = row /\ platform \in Platform /\ sandbox = SandboxRow
  /\ config = EngineConfig(row)
  /\ form = FormOf(toConfig(row)) /\ costs = "client" /\ hasChanges = FALSE /\ typed = {}
  /\ saved = "none"

Next ==
  \/ Load \/ LoadFromSandbox
  \/ \E field \in Field : \E value \in Typed[field] : handleFieldChange(field, value)
  \/ handleActionCostChange
  \/ handleReset \/ SaveInvalid \/ SaveAccepted \/ SaveRefused
  \/ RivalCeiling \/ RivalSave

Spec == Init /\ [][Next]_vars

-----------------------------------------------------------------------------

(***************************************************************************)
(* A save stores what was typed and, for every other field, the limit the  *)
(* engine last answered with, over whatever a rival has saved since: it    *)
(* survives the trip through GET, the form, a refused save, PUT and the    *)
(* bounds, save that the floor comes back in whole percents, an unset one  *)
(* as the half it is shown as, and the minimum ERV in whole paise.  Not so *)
(* when a failed read filled the form from the sandbox.                    *)
(***************************************************************************)
Kept(r) ==
  [r EXCEPT !.confidenceFloor = IF @ = NoOverride THEN 500 ELSE Rounded(@),
            !.minERV = Rounded(@)]
Saves == saved' = "engine" /\ saved # "engine"
UntypedKept ==
  [][Saves /\ config.from # "sandbox" => \A field \in Field \ typed : row'[field] = Kept(read)[field]]_vars

(***************************************************************************)
(* As long as the form shows what the last save stored and no rival has    *)
(* saved since, the engine decides at least as strictly as the form says,  *)
(* although the ceilings move (ResolveMerchantPolicy's clamps).  Not so    *)
(* for a daily cap that was emptied: it is stored as 0, which is no cap,   *)
(* and the platform's cap applies.                                         *)
(***************************************************************************)
AsStrict(field, resolved, wanted) ==
  CASE field \in {"cooldown", "minERV", "confidenceFloor"} -> resolved >= wanted
    [] OTHER -> resolved <= wanted
SavedLimitsBind ==
  saved = "engine" /\ row = read =>
    LET resolved == ResolveMerchantPolicy(row, platform)
    IN \A field \in Field : (field = "dailyCap" => form[field] > 0) =>
         AsStrict(field, resolved[field], form[field])
=============================================================================
