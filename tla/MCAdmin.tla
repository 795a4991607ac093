------------------------------- MODULE MCAdmin -------------------------------
(***************************************************************************)
(* The statements of the admin routes, and one merchant's policy from the  *)
(* form to the decision.  A behaviour is of one of the two: the other      *)
(* stays as it starts.                                                     *)
(***************************************************************************)
EXTENDS AdminApi, Integers, TLC

CONSTANTS Cleared, Platform, StartRows, SandboxRow, Typed, MaxEdits   \* PolicyForm's

VARIABLES
  running,
  row, read, ceilings, sandbox, config, form, costs, hasChanges, typed, saved

Form == INSTANCE PolicyForm WITH platform <- ceilings

\* The schema's platform row, and one an operator tuned.
PlatformRows ==
  {[maxRetriesCeiling |-> 5, minCooldown |-> 5, maxDailyCap |-> 50,
    maxAmountCeiling |-> 1000000, confidenceFloor |-> 400],
   [maxRetriesCeiling |-> 3, minCooldown |-> 20, maxDailyCap |-> 0,
    maxAmountCeiling |-> 40000, confidenceFloor |-> 600]}

MerchantRow(cap, floor, erv, amount) ==
  [maxRetries |-> 3, cooldown |-> 15, minERV |-> erv, dailyCap |-> cap,
   amountCeiling |-> amount, confidenceFloor |-> floor]

\* A floor between two percents and a minimum ERV between two paise, and an unset floor
\* (NoOverride of Policy).
FormRows == {MerchantRow(50, 574, 503, 30000), MerchantRow(0, -1, 500, 50000)}

\* Values inside the form's limits, past the platform's, and emptied fields.
Keyed ==
  [field \in {"maxRetries", "cooldown", "minERV", "dailyCap", "amountCeiling", "confidenceFloor"} |->
     CASE field = "maxRetries" -> {} [] field = "cooldown" -> {30}
       [] field = "minERV" -> {-10, 255} [] field = "dailyCap" -> {200, Cleared}
       [] field = "amountCeiling" -> {} [] OTHER -> {650}]

Fallback == MerchantRow(250, 700, 500, 50000)

\* The values of the configuration are ones the form allows.
ASSUME ComponentsAssumption == Form!FormAssumption

fields == <<row, read, ceilings, sandbox, config, form, costs, hasChanges, typed, saved>>
all == <<running, vars, fields>>

Start ==
  /\ running \in {"routes", "form"}
  /\ Init /\ Form!Init
  /\ running = "routes" => row = MerchantRow(50, 574, 503, 30000) /\ ceilings.minCooldown = 5
  /\ running = "form" => platform = [ceiling |-> 0, kill |-> FALSE, exists |-> TRUE]

Step ==
  \/ running = "routes" /\ Next /\ UNCHANGED <<running, fields>>
  \/ running = "form" /\ Form!Next /\ UNCHANGED <<running, vars>>

Behaviours == Start /\ [][Step]_all

\* What is saved through the form binds the engine (PolicyForm).
SavedLimitsBind == Form!SavedLimitsBind

\* A save changes only what was typed (PolicyForm).
UntypedKept == Form!UntypedKept
=============================================================================
