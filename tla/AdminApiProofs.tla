---------------------------- MODULE AdminApiProofs ----------------------------
(***************************************************************************)
(* The safety properties of the admin routes, for any requests, merchants  *)
(* and ceilings: the invariant adds to them what a request that is under   *)
(* way has already established.  And those of one merchant's policy from   *)
(* the form to the decision, for any rows, ceilings, edits and refusals.   *)
(***************************************************************************)
EXTENDS MCAdmin, TLAPS

\* A request under way has a body, and it is at a statement of its operation.
UnderWay ==
  \A r \in Request :
    /\ pc[r] \in InProgress => body[r] \in Body
    /\ pc[r] = "load" => body[r].op = "save"
    /\ pc[r] = "ensure" => body[r].op = "global"

\* A save that passed the bounds is within the ceiling it read.
Checked ==
  \A r \in Request :
    pc[r] = "write" /\ body[r].op = "save" => Within(body[r].limit, seen[r])

\* Only a request that changed a row comes to its audit entry.
Entered == \A r \in Request : pc[r] = "audit" => r \in applied

IInv ==
  /\ TypeOK /\ UnderWay /\ Checked /\ Entered
  /\ AuditTrustworthy /\ SwitchesStand

-----------------------------------------------------------------------------

LEMMA InitIInv == Init => IInv
<1> SUFFICES ASSUME Init PROVE IInv
  OBVIOUS
<1>1. 0 \in Limit
  BY AdminApiAssumption DEF Limit
<1> QED
  BY <1>1, AdminApiAssumption DEF Init, IInv, TypeOK, UnderWay, Checked, Entered,
     AuditTrustworthy, SwitchesStand, InProgress, Status

\* Steps that change neither a row nor the log.
LEMMA MoveIInv ==
  ASSUME IInv, NEW r \in Request, NEW place \in {"load", "ensure", "write"} \cup Status, Goto(r, place),
         UNCHANGED <<rows, audit, applied, last>>,
         platform' \in {platform, [platform EXCEPT !.exists = TRUE]},
         seen' \in {seen, [seen EXCEPT ![r] = platform.ceiling]},
         body' \in {[body EXCEPT ![r] = b] : b \in Body} \cup {body},
         place \in InProgress => body'[r] \in Body,
         place = "load" => body'[r].op = "save",
         place = "ensure" => body'[r].op = "global",
         place = "write" /\ body'[r].op = "save" => Within(body'[r].limit, seen'[r]),
         place # "200"
  PROVE  IInv'
<1> USE DEF IInv, Goto, InProgress, Status
<1>1. platform'.ceiling = platform.ceiling /\ platform'.kill = platform.kill
  BY DEF TypeOK
<1>2. TypeOK'
  <2>1. body' \in [Request -> Body \cup {NoBody}]
    <3>1. CASE body' = body
      BY <3>1 DEF TypeOK
    <3>2. ASSUME NEW b \in Body, body' = [body EXCEPT ![r] = b] PROVE body' \in [Request -> Body \cup {NoBody}]
      BY <3>2 DEF TypeOK
    <3> QED BY <3>1, <3>2
  <2>2. pc' \in [Request -> {"idle"} \cup InProgress \cup Status]
    BY DEF TypeOK
  <2>3. platform' \in [ceiling : Limit, kill : BOOLEAN, exists : BOOLEAN]
    BY DEF TypeOK
  <2>4. seen' \in [Request -> Limit]
    BY DEF TypeOK
  <2> QED BY <2>1, <2>2, <2>3, <2>4 DEF TypeOK
<1>3. \A other \in Request : other # r =>
        body'[other] = body[other] /\ pc'[other] = pc[other] /\ seen'[other] = seen[other]
  BY DEF TypeOK
<1>4. UnderWay' /\ Checked' /\ Entered'
  BY <1>1, <1>3 DEF TypeOK, UnderWay, Checked, Entered
<1>5. AuditTrustworthy' /\ SwitchesStand'
  BY <1>1, <1>3 DEF TypeOK, AuditTrustworthy, SwitchesStand
<1> QED BY <1>2, <1>4, <1>5

LEMMA BeginIInv == ASSUME IInv, NEW r \in Request, Begin(r) PROVE IInv'
<1>1. PICK b \in Body :
        /\ body' = [body EXCEPT ![r] = b]
        /\ Goto(r, CASE b.op = "save" -> "load" [] b.op = "global" -> "ensure" [] OTHER -> "write")
  BY DEF Begin
<1>2. body'[r] = b
  BY <1>1 DEF IInv, TypeOK
<1>3. UNCHANGED <<rows, platform, seen, audit, applied, last>>
  BY DEF Begin
<1>4. CASE b.op = "save"
  BY <1>1, <1>2, <1>3, <1>4, MoveIInv
<1>5. CASE b.op = "global"
  BY <1>1, <1>2, <1>3, <1>5, MoveIInv
<1>6. CASE b.op \notin {"save", "global"}
  BY <1>1, <1>2, <1>3, <1>6, MoveIInv
<1> QED BY <1>4, <1>5, <1>6

LEMMA LoadPlatformIInv == ASSUME IInv, NEW r \in Request, LoadPlatform(r) PROVE IInv'
<1>1. pc[r] = "load" /\ body[r] \in Body /\ body[r].op = "save"
  BY DEF LoadPlatform, IInv, UnderWay, InProgress
<1>2. /\ UNCHANGED <<body, rows, platform, audit, applied, last>>
      /\ seen' = [seen EXCEPT ![r] = platform.ceiling] /\ seen'[r] = platform.ceiling
  BY DEF LoadPlatform, IInv, TypeOK
<1>3. CASE ~Within(body[r].limit, platform.ceiling)
  <2>1. Goto(r, "400")
    BY <1>3 DEF LoadPlatform
  <2> QED BY <1>2, <2>1, MoveIInv DEF Status, InProgress
<1>4. CASE Within(body[r].limit, platform.ceiling)
  <2>1. Goto(r, "write")
    BY <1>4 DEF LoadPlatform
  <2> QED BY <1>1, <1>2, <1>4, <2>1, MoveIInv
<1> QED BY <1>3, <1>4

LEMMA EnsurePlatformIInv == ASSUME IInv, NEW r \in Request, EnsurePlatform(r) PROVE IInv'
<1>1. UNCHANGED <<body, rows, seen, audit, applied, last>> /\ platform' = [platform EXCEPT !.exists = TRUE]
      /\ Goto(r, "write") /\ body[r] \in Body /\ pc[r] = "ensure"
  BY DEF EnsurePlatform, IInv, UnderWay, InProgress
<1>2. body[r].op = "global"
  BY <1>1 DEF IInv, UnderWay
<1> QED BY <1>1, <1>2, MoveIInv

LEMMA FailIInv == ASSUME IInv, NEW r \in Request, Fail(r) PROVE IInv'
<1>1. Goto(r, "500") /\ UNCHANGED <<body, rows, platform, seen, audit, applied, last>>
  BY DEF Fail
<1> QED BY <1>1, MoveIInv DEF Status, InProgress

\* The update, with whichever place the request goes to then.
LEMMA UpdateIInv ==
  ASSUME IInv, NEW r \in Request, pc[r] = "write", body[r].target # Unknown, Update(r),
         NEW place \in {"audit", "500"}, Goto(r, place), UNCHANGED <<body, seen, audit>>
  PROVE  IInv'
<1> USE DEF IInv, Goto, InProgress, Status
<1> DEFINE b == body[r]
<1>1. b \in Body
  BY DEF UnderWay
<1>2. \/ b.op \in {"save", "switch"} /\ b.target \in Merchant /\ (b.op = "save" => b.limit \in Limit)
      \/ b.op = "global" /\ b.target = "platform"
  BY <1>1 DEF Body, Save, Switch, GlobalSwitch
<1>3. b.on \in BOOLEAN
  BY <1>1 DEF Body, Save, Switch, GlobalSwitch
<1>4. platform' \in [ceiling : Limit, kill : BOOLEAN, exists : BOOLEAN]
  BY <1>3 DEF TypeOK, Update
<1>5. rows' \in [Merchant -> [limit : Limit, kill : BOOLEAN]]
  BY <1>2, <1>3 DEF TypeOK, Update, Saved
<1>6. last' \in [Merchant \cup {"platform"} -> BOOLEAN]
  BY <1>3 DEF TypeOK, Update
<1>7. TypeOK'
  BY <1>4, <1>5, <1>6 DEF TypeOK, Update
<1>8. UnderWay' /\ Checked' /\ Entered'
  BY <1>1 DEF TypeOK, UnderWay, Checked, Entered, Update
<1>9. AuditTrustworthy'
  BY DEF TypeOK, AuditTrustworthy, Update
<1>10. SwitchesStand'
  BY <1>2, <1>3, AdminApiAssumption DEF TypeOK, SwitchesStand, Update, Saved
<1> QED BY <1>7, <1>8, <1>9, <1>10

LEMMA InsertAuditIInv == ASSUME IInv, NEW r \in Request, InsertAudit(r) PROVE IInv'
<1> USE DEF IInv, InsertAudit, Goto, InProgress, Status
<1>1. r \in applied
  BY DEF Entered
<1>2. TypeOK' /\ UnderWay' /\ Checked' /\ Entered'
  BY DEF TypeOK, UnderWay, Checked, Entered
<1>3. AuditTrustworthy' /\ SwitchesStand'
  BY <1>1 DEF TypeOK, AuditTrustworthy, SwitchesStand
<1> QED BY <1>2, <1>3

LEMMA TuneCeilingIInv == ASSUME IInv, TuneCeiling PROVE IInv'
<1>1. UNCHANGED <<pc, body, rows, seen, audit, applied, last>>
  BY DEF TuneCeiling
<1>2. platform' \in [ceiling : Limit, kill : BOOLEAN, exists : BOOLEAN] /\ platform'.kill = platform.kill
  BY DEF TuneCeiling, IInv, TypeOK
<1> QED
  BY <1>1, <1>2 DEF IInv, TypeOK, UnderWay, Checked, Entered, AuditTrustworthy, SwitchesStand

LEMMA NextIInv == IInv /\ [Next]_vars => IInv'
<1> SUFFICES ASSUME IInv, [Next]_vars PROVE IInv'
  OBVIOUS
<1>1. ASSUME NEW r \in Request, Write(r) PROVE IInv'
  <2>1. CASE body[r].target = Unknown
    <3>1. Goto(r, "404") /\ UNCHANGED <<body, rows, platform, seen, audit, applied, last>>
      BY <1>1, <2>1 DEF Write
    <3> QED BY <3>1, MoveIInv DEF Status, InProgress
  <2>2. CASE body[r].target # Unknown
    BY <1>1, <2>2, UpdateIInv DEF Write
  <2> QED BY <2>1, <2>2
<1>2. ASSUME NEW r \in Request, WriteUnheard(r) PROVE IInv'
  BY <1>2, UpdateIInv DEF WriteUnheard
<1>3. CASE UNCHANGED vars
  BY <1>3 DEF vars, IInv, TypeOK, UnderWay, Checked, Entered,
     AuditTrustworthy, SwitchesStand
<1> QED
  BY <1>1, <1>2, <1>3, BeginIInv, LoadPlatformIInv, EnsurePlatformIInv, InsertAuditIInv, FailIInv,
     TuneCeilingIInv
  DEF Next

\* The invariant holds of every behaviour of the admin routes.
THEOREM Invariance == Spec => []IInv
  BY InitIInv, NextIInv, PTL DEF Spec

\* Every audit entry tells of a change that was made, and a 200 of an entry that is stored,
\* however the requests interleave and their statements fail (api_store.go: the update
\* before the audit; router.go: fail).
THEOREM AuditTrustworthyHolds == Spec => []AuditTrustworthy
<1>1. IInv => AuditTrustworthy
  BY DEF IInv
<1> QED BY <1>1, Invariance, PTL

\* No save undoes a kill switch, whatever its body holds (updatePolicyConfigSQL).
THEOREM SwitchesStandHolds == Spec => []SwitchesStand
<1>1. IInv => SwitchesStand
  BY DEF IInv
<1> QED BY <1>1, Invariance, PTL

\* A limit changes by a save's update alone, which the bounds let through.
LEMMA StepWithin ==
  ASSUME IInv, Next, NEW m \in Merchant, rows'[m].limit # rows[m].limit
  PROVE  \/ Within(rows'[m].limit, platform.ceiling)
         \/ \E r \in Request : body[r].target = m /\ StaleRead(r, rows'[m].limit)
<1>1. PICK r \in Request : pc[r] = "write" /\ Update(r)
  BY DEF Next, Begin, LoadPlatform, EnsurePlatform, Write, InsertAudit, Fail, WriteUnheard, TuneCeiling
<1>2. rows \in [Merchant -> [limit : Limit, kill : BOOLEAN]] /\ body[r] \in Body
  BY <1>1 DEF IInv, TypeOK, UnderWay, InProgress
<1>3. body[r].op = "save" /\ body[r].target = m /\ rows'[m].limit = body[r].limit
  BY <1>1, <1>2 DEF Update, Saved
<1>4. Within(rows'[m].limit, seen[r])
  BY <1>1, <1>3 DEF IInv, Checked
<1> QED
  BY <1>1, <1>3, <1>4 DEF StaleRead

\* A limit that is stored is within the ceiling in force, or within the one its save read
\* before the ceiling moved, a ceiling of 0 being none, however saves, refusals, failures and
\* lost answers interleave (UpdatePolicyConfig: the bounds, then the update).
THEOREM StoredWithinCeilingHolds == Spec => StoredWithinCeiling
<1>1. IInv /\ [Next]_vars =>
        [\A m \in Merchant : rows'[m].limit # rows[m].limit =>
           \/ Within(rows'[m].limit, platform.ceiling)
           \/ \E r \in Request : body[r].target = m /\ StaleRead(r, rows'[m].limit)]_vars
  BY StepWithin
<1> QED BY <1>1, InitIInv, NextIInv, PTL DEF Spec, StoredWithinCeiling

-----------------------------------------------------------------------------
(* The policy form.                                                        *)

\* Limits with fields that may be empty, the floor not among them.
Filled ==
  {f \in [Form!Field -> Int \cup {Cleared}] : f["confidenceFloor"] \in Int}

\* Rounding gives a whole percent or paisa, and leaves one as it is.
LEMMA RoundedWhole ==
  ASSUME NEW x \in Int
  PROVE  /\ Form!Rounded(x) \in Int /\ Form!Rounded(x) % 10 = 0
         /\ x % 10 = 0 => Form!Rounded(x) = x
BY DEF Form!Rounded

\* The form's copy of limits differs from them in the floor alone, which it rounds.
LEMMA FormOfFilled ==
  ASSUME NEW f \in Filled
  PROVE  /\ Form!FormOf(f) \in Filled
         /\ Form!FormOf(f)["confidenceFloor"] = Form!Rounded(f["confidenceFloor"])
         /\ Form!FormOf(f)["confidenceFloor"] % 10 = 0
         /\ \A field \in Form!Field \ {"confidenceFloor"} : Form!FormOf(f)[field] = f[field]
         /\ f["confidenceFloor"] % 10 = 0 => Form!FormOf(f) = f
<1>1. f["confidenceFloor"] \in Int /\ f \in [Form!Field -> Int \cup {Cleared}] /\ "confidenceFloor" \in Form!Field
  BY DEF Filled, Form!Field
<1>2. Form!FormOf(f) = [f EXCEPT !["confidenceFloor"] = Form!Rounded(f["confidenceFloor"])]
  BY DEF Form!FormOf
<1> QED  BY <1>1, <1>2, RoundedWhole DEF Filled

\* What a save makes of a field of the form.
Going(f, field) == IF field = "minERV" THEN Form!Rounded(f[field]) ELSE f[field]
LEMMA SentGoing ==
  ASSUME NEW f \in [Form!Field -> Int \cup {Cleared}]
  PROVE  /\ \A field \in Form!Field : Form!Sent(f)[field] = Going(f, field)
         /\ f["minERV"] \in Int =>
              /\ Form!Sent(f) \in [Form!Field -> Int \cup {Cleared}]
              /\ \A field \in Form!Field : Going(Form!Sent(f), field) = Form!Sent(f)[field]
<1>1. Form!Sent(f) = [f EXCEPT !["minERV"] = Form!Rounded(f["minERV"])] /\ "minERV" \in Form!Field
  BY DEF Form!Sent, Form!Field
<1>2. \A field \in Form!Field : Form!Sent(f)[field] = Going(f, field)
  BY <1>1 DEF Going
<1>3. ASSUME f["minERV"] \in Int
      PROVE  /\ Form!Sent(f) \in [Form!Field -> Int \cup {Cleared}]
             /\ \A field \in Form!Field : Going(Form!Sent(f), field) = Form!Sent(f)[field]
  <2>1. Form!Rounded(f["minERV"]) \in Int /\ Form!Rounded(Form!Rounded(f["minERV"])) = Form!Rounded(f["minERV"])
    BY <1>3, RoundedWhole
  <2> QED  BY <1>1, <2>1 DEF Going
<1> QED  BY <1>2, <1>3

\* What the client makes of a row.
LEMMA ToConfigFilled ==
  ASSUME NEW r \in [Form!Field -> Int], Form!FormAssumption
  PROVE  /\ Form!toConfig(r) \in [Form!Field -> Int] /\ Form!toConfig(r) \in Filled
         /\ \A field \in Form!Field \ {"confidenceFloor"} : Form!toConfig(r)[field] = r[field]
         /\ r["confidenceFloor"] # -1 => Form!toConfig(r) = r
<1>1. "confidenceFloor" \in Form!Field
  BY DEF Form!Field
<1>2. Form!toConfig(r) = [r EXCEPT !["confidenceFloor"] = IF r["confidenceFloor"] = -1 THEN 500 ELSE r["confidenceFloor"]]
  BY DEF Form!toConfig, Form!NoOverride
<1> QED  BY <1>1, <1>2 DEF Filled

LEMMA MerchantRowFields == ASSUME NEW r \in Form!MerchantRow PROVE r \in [Form!Field -> Int]
BY DEF Form!MerchantRow, Form!Field

FormType ==
  /\ row \in [Form!Field -> Int] /\ read \in [Form!Field -> Int] /\ ceilings \in Form!PlatformRow
  /\ sandbox \in Filled
  /\ config \in [from : {"engine", "refused", "sandbox"}, limits : Filled, costs : {"client", "typed"}]
  /\ costs \in {"client", "typed"}
  /\ form \in [Form!Field -> Int \cup {Cleared}]
  /\ form["confidenceFloor"] # Cleared => form["confidenceFloor"] % 10 = 0
  /\ typed \subseteq Form!Field

\* What the last save stored is what the form shows, until it is touched.
SavedShown ==
  saved = "engine" => ~hasChanges /\ form = read /\ read["amountCeiling"] > 0

\* An engine's policy is the row the engine answered with, and for what was not typed a save
\* would send that row's, from the form and from what a reset would fill it with.
UntypedShown ==
  /\ config.from = "engine" => config.limits = Form!toConfig(read)
  /\ config.from # "sandbox" =>
       \A field \in Form!Field \ typed :
         /\ Going(form, field) = Form!Kept(read)[field]
         /\ Going(Form!FormOf(config.limits), field) = Form!Kept(read)[field]

FormInvariant == FormType /\ SavedShown /\ UntypedShown

\* Filling the form from limits: the engine's policy, one's own refused save, or the
\* sandbox's copy.
LEMMA FillKept ==
  ASSUME Form!FormAssumption, FormType, NEW limits \in Filled, NEW table \in {"client", "typed"},
         config' \in [from : {"engine", "refused", "sandbox"}, limits : Filled, costs : {"client", "typed"}],
         form' = Form!FormOf(limits), costs' = table, typed' \in {{}, typed}
  PROVE  /\ form' \in [Form!Field -> Int \cup {Cleared}] /\ costs' \in {"client", "typed"}
         /\ form'["confidenceFloor"] % 10 = 0 /\ typed' \subseteq Form!Field
BY FormOfFilled DEF FormType, Filled

\* The round trip of a row that is not touched.
LEMMA KeptGoing ==
  ASSUME NEW r \in [Form!Field -> Int], Form!FormAssumption, NEW field \in Form!Field
  PROVE  /\ Going(Form!FormOf(Form!toConfig(r)), field) = Form!Kept(r)[field]
         /\ Form!Kept(r)[field] \in Int
<1>1. /\ Form!toConfig(r) \in Filled
      /\ \A f \in Form!Field \ {"confidenceFloor"} : Form!toConfig(r)[f] = r[f]
  BY ToConfigFilled
<1>2. /\ Form!toConfig(r)["confidenceFloor"] = IF r["confidenceFloor"] = Form!NoOverride THEN 500 ELSE r["confidenceFloor"]
      /\ "confidenceFloor" \in Form!Field /\ "minERV" \in Form!Field
  BY DEF Form!toConfig, Form!Field
<1>3. Form!Kept(r) =
        [r EXCEPT !["confidenceFloor"] = IF r["confidenceFloor"] = Form!NoOverride THEN 500
                                         ELSE Form!Rounded(r["confidenceFloor"]),
                  !["minERV"] = Form!Rounded(r["minERV"])]
  BY DEF Form!Kept
<1>4. Form!Rounded(500) = 500
  BY DEF Form!Rounded
<1>5. CASE field = "confidenceFloor"
  BY <1>1, <1>2, <1>3, <1>4, <1>5, FormOfFilled, RoundedWhole DEF Going
<1>6. CASE field # "confidenceFloor"
  BY <1>1, <1>2, <1>3, <1>6, FormOfFilled, RoundedWhole DEF Going
<1> QED  BY <1>5, <1>6

\* The engine's policy fills the form with what its row shows.
LEMMA EngineShown ==
  ASSUME Form!FormAssumption, read' \in [Form!Field -> Int], config' = Form!EngineConfig(read'),
         form' = Form!FormOf(Form!toConfig(read'))
  PROVE  /\ config' \in [from : {"engine", "refused", "sandbox"}, limits : Filled, costs : {"client", "typed"}]
         /\ config'.from = "engine" /\ config'.limits = Form!toConfig(read') /\ UntypedShown'
<1>1. PICK r \in [Form!Field -> Int] : r = read'
  OBVIOUS
<1>2. Form!toConfig(r) \in Filled
  BY ToConfigFilled
<1>3. config' = [from |-> "engine", limits |-> Form!toConfig(r), costs |-> "client"]
  BY <1>1 DEF Form!EngineConfig
<1>4. UntypedShown'
  BY <1>1, <1>3, KeptGoing DEF UntypedShown
<1> QED  BY <1>1, <1>2, <1>3, <1>4

LEMMA FormStep ==
  ASSUME Form!FormAssumption, FormInvariant, [Form!Next]_(Form!vars)
  PROVE  FormInvariant'
<1> USE DEF FormInvariant
<1>0. /\ row \in [Form!Field -> Int] /\ read \in [Form!Field -> Int] /\ ceilings \in Form!PlatformRow /\ sandbox \in Filled
      /\ form \in [Form!Field -> Int \cup {Cleared}] /\ typed \subseteq Form!Field
      /\ config \in [from : {"engine", "refused", "sandbox"}, limits : Filled, costs : {"client", "typed"}]
      /\ costs \in {"client", "typed"} /\ Cleared \notin Int
      /\ form["confidenceFloor"] # Cleared => form["confidenceFloor"] % 10 = 0
      /\ "confidenceFloor" \in Form!Field /\ "amountCeiling" \in Form!Field
  BY DEF FormType, Form!FormAssumption, Form!Field
<1>1. CASE Form!Load
  <2>1. /\ config' = Form!EngineConfig(read') /\ form' = Form!FormOf(Form!toConfig(read')) /\ costs' = "client"
        /\ row' = row /\ read' = row /\ UNCHANGED <<ceilings, sandbox>> /\ saved' = "none"
    BY <1>1 DEF Form!Load, Form!Fill
  <2>2. /\ config' \in [from : {"engine", "refused", "sandbox"}, limits : Filled, costs : {"client", "typed"}]
        /\ config'.from = "engine" /\ UntypedShown'
    BY <1>0, <2>1, EngineShown
  <2>3. typed' = {} /\ Form!toConfig(row) \in Filled
    BY <1>0, <1>1, <2>2, ToConfigFilled DEF Form!Load, Form!Fill
  <2>4. FormType'
    BY <1>0, <2>1, <2>2, <2>3, FillKept DEF FormType
  <2> QED  BY <2>1, <2>2, <2>4 DEF SavedShown
<1>2. CASE Form!LoadFromSandbox
  <2>1. /\ config' = [from |-> "sandbox", limits |-> sandbox, costs |-> "client"]
        /\ form' = Form!FormOf(sandbox) /\ costs' = "client" /\ typed' = {} /\ saved' = "none"
        /\ UNCHANGED <<row, read, ceilings, sandbox>>
    BY <1>2 DEF Form!LoadFromSandbox
  <2>2. FormType'
    BY <1>0, <2>1, FillKept DEF FormType
  <2> QED  BY <2>1, <2>2 DEF SavedShown, UntypedShown
<1>3. ASSUME NEW field \in Form!Field, NEW value \in Typed[field], Form!handleFieldChange(field, value)
      PROVE  FormInvariant'
  <2>1. /\ form' = [form EXCEPT ![field] = value] /\ typed' = typed \cup {field} /\ saved' = "none"
        /\ UNCHANGED <<row, read, ceilings, sandbox, config, costs>>
    BY <1>3 DEF Form!handleFieldChange
  <2>2. value \in Int \cup {Cleared} /\ (field = "confidenceFloor" /\ value # Cleared => value % 10 = 0)
    BY <1>3 DEF Form!FormAssumption
  <2>3. FormType'
    BY <1>0, <2>1, <2>2 DEF FormType
  <2>4. UntypedShown'
    BY <1>0, <2>1 DEF UntypedShown, Going
  <2> QED  BY <2>1, <2>3, <2>4 DEF SavedShown
<1>4. CASE Form!handleActionCostChange
  BY <1>0, <1>4 DEF Form!handleActionCostChange, FormType, SavedShown, UntypedShown
<1>5. CASE Form!handleReset
  <2>1. /\ hasChanges /\ config' = config /\ UNCHANGED <<row, read, ceilings, sandbox, saved>>
        /\ form' = Form!FormOf(config.limits) /\ costs' = config.costs
        /\ typed' = IF config.from = "engine" THEN {} ELSE typed
    BY <1>5 DEF Form!handleReset, Form!Fill
  <2>2. FormType'
    BY <1>0, <2>1, FillKept DEF FormType
  <2>3. UntypedShown'
    <3>1. CASE config.from = "engine"
      BY <1>0, <2>1, <3>1, KeptGoing DEF UntypedShown
    <3>2. CASE config.from # "engine"
      BY <2>1, <3>2 DEF UntypedShown
    <3> QED  BY <3>1, <3>2
  <2> QED  BY <2>1, <2>2, <2>3 DEF SavedShown
<1>6. CASE Form!SaveInvalid
  BY <1>0, <1>6 DEF Form!SaveInvalid, FormType, SavedShown, UntypedShown
\* What is stored has its floor on a whole percent and its ceiling above 0, so the form shows
\* it as it is.
<1>7. CASE Form!SaveAccepted
  <2>1. /\ row' = Form!RequestBody(Form!Sent(form)) /\ read' = row' /\ config' = Form!EngineConfig(read')
        /\ UNCHANGED <<ceilings, sandbox>> /\ form' = Form!FormOf(Form!toConfig(read')) /\ costs' = "client"
        /\ ~hasChanges' /\ saved' = "engine" /\ typed' = IF config'.from = "engine" THEN {} ELSE typed
        /\ Form!FieldsValid
    BY <1>7 DEF Form!SaveAccepted, Form!Fill, Form!Save
  <2>2. /\ form["minERV"] \in Int /\ "minERV" \in Form!Field
        /\ form["amountCeiling"] # Cleared /\ form["amountCeiling"] > 0 /\ form["confidenceFloor"] # Cleared
    BY <1>0, <2>1 DEF Form!FieldsValid, Form!Field
  <2>3. PICK sent : sent = Form!Sent(form)
    OBVIOUS
  <2>4. /\ sent \in [Form!Field -> Int \cup {Cleared}]
        /\ sent["amountCeiling"] = form["amountCeiling"] /\ sent["confidenceFloor"] = form["confidenceFloor"]
    BY <1>0, <2>2, <2>3, SentGoing DEF Going
  <2>5. PICK r : r = read'
    OBVIOUS
  <2>6. r = [field \in Form!Field |-> IF sent[field] = Cleared THEN 0 ELSE sent[field]]
    BY <2>1, <2>3, <2>5 DEF Form!RequestBody
  <2>7. r \in [Form!Field -> Int]
    BY <1>0, <2>4, <2>6
  <2>8. /\ r["amountCeiling"] > 0 /\ r["confidenceFloor"] % 10 = 0
    BY <1>0, <2>2, <2>4, <2>6
  <2>9. r["confidenceFloor"] # -1
    BY <2>7, <2>8
  <2>10. Form!toConfig(r) = r /\ r \in Filled
    BY <2>7, <2>9, ToConfigFilled
  <2>11. form' = read'
    BY <2>1, <2>5, <2>8, <2>10, FormOfFilled
  <2>12. /\ config' \in [from : {"engine", "refused", "sandbox"}, limits : Filled, costs : {"client", "typed"}]
         /\ config'.from = "engine" /\ UntypedShown'
    BY <2>1, <2>5, <2>7, EngineShown
  <2>13. FormType'
    <3>1. form' = Form!FormOf(r) /\ typed' = {} /\ row' = r /\ read' = r
      BY <2>1, <2>5, <2>10, <2>12
    <3> QED  BY <1>0, <2>1, <2>7, <2>10, <2>12, <3>1, FillKept DEF FormType
  <2> QED  BY <2>1, <2>5, <2>8, <2>11, <2>12, <2>13 DEF SavedShown
<1>8. CASE Form!SaveRefused
  <2>1. /\ sandbox' = Form!Sent(form) /\ form' = Form!FormOf(Form!Sent(form)) /\ costs' = costs
        /\ saved' = "sandbox" /\ UNCHANGED <<row, read, ceilings>> /\ Form!FieldsValid
        /\ config' = [from |-> IF config.from = "sandbox" THEN "sandbox" ELSE "refused",
                       limits |-> Form!Sent(form), costs |-> costs]
        /\ typed' = IF config'.from = "engine" THEN {} ELSE typed
    BY <1>8 DEF Form!SaveRefused, Form!Fill, Form!Save
  <2>2. PICK sent : sent = Form!Sent(form)
    OBVIOUS
  <2>3. form["minERV"] \in Int /\ form["confidenceFloor"] # Cleared
    BY <1>0, <2>1 DEF Form!FieldsValid, Form!Field
  <2>4. /\ sent \in [Form!Field -> Int \cup {Cleared}] /\ sent["confidenceFloor"] = form["confidenceFloor"]
        /\ \A field \in Form!Field : sent[field] = Going(form, field) /\ Going(sent, field) = Going(form, field)
    BY <1>0, <2>2, <2>3, SentGoing DEF Going
  <2>5. sent \in Filled /\ sent["confidenceFloor"] % 10 = 0
    BY <1>0, <2>3, <2>4 DEF Filled
  <2>6. form' = sent /\ Form!FormOf(sent) = sent
    BY <2>1, <2>2, <2>5, FormOfFilled
  <2>7. config'.from = (IF config.from = "sandbox" THEN "sandbox" ELSE "refused") /\ config'.limits = sent
    BY <2>1, <2>2
  <2>8. typed' = typed
    BY <2>1, <2>7
  <2>9. config' \in [from : {"engine", "refused", "sandbox"}, limits : Filled, costs : {"client", "typed"}]
    BY <1>0, <2>1, <2>2, <2>5
  <2>10. FormType'
    BY <1>0, <2>1, <2>2, <2>4, <2>5, <2>6, <2>8, <2>9 DEF FormType
  <2>11. UntypedShown'
    BY <2>1, <2>4, <2>6, <2>7, <2>8 DEF UntypedShown
  <2> QED  BY <2>1, <2>10, <2>11 DEF SavedShown
<1>9. CASE Form!RivalCeiling
  BY <1>0, <1>9 DEF Form!RivalCeiling, Form!FormAssumption, FormType, SavedShown, UntypedShown
<1>10. CASE Form!RivalSave
  <2>1. row' \in Form!MerchantRow
    BY <1>10 DEF Form!RivalSave, Form!FormAssumption
  <2>2. row' \in [Form!Field -> Int] /\ UNCHANGED <<read, ceilings, sandbox, config, form, costs, hasChanges, typed, saved>>
    BY <1>10, <2>1, MerchantRowFields DEF Form!RivalSave
  <2> QED  BY <1>0, <2>2 DEF FormType, SavedShown, UntypedShown
<1>11. CASE UNCHANGED Form!vars
  BY <1>0, <1>11 DEF Form!vars, FormType, SavedShown, UntypedShown
<1> QED
  BY <1>1, <1>2, <1>3, <1>4, <1>5, <1>6, <1>7, <1>8, <1>9, <1>10, <1>11 DEF Form!Next

LEMMA FormInit == ASSUME Form!FormAssumption, Form!Init PROVE FormInvariant
<1>1. /\ row \in [Form!Field -> Int] /\ read = row /\ ceilings \in Form!PlatformRow
      /\ sandbox \in [Form!Field -> Int] /\ sandbox \in Filled
  <2>1. row \in Form!MerchantRow /\ ceilings \in Form!PlatformRow /\ sandbox \in Form!MerchantRow
    BY DEF Form!Init, Form!FormAssumption
  <2>2. row \in [Form!Field -> Int] /\ sandbox \in [Form!Field -> Int] /\ "confidenceFloor" \in Form!Field
    BY <2>1, MerchantRowFields DEF Form!Field
  <2> QED  BY <2>1, <2>2 DEF Filled, Form!Init
<1>2. Form!toConfig(row) \in Filled
  BY <1>1, ToConfigFilled
<1>3. /\ config = [from |-> "engine", limits |-> Form!toConfig(row), costs |-> "client"]
      /\ form = Form!FormOf(Form!toConfig(row)) /\ costs = "client" /\ typed = {} /\ saved = "none"
  BY DEF Form!Init, Form!EngineConfig
<1>4. form \in Filled /\ form["confidenceFloor"] % 10 = 0
  BY <1>2, <1>3, FormOfFilled
<1> QED
  BY <1>1, <1>2, <1>3, <1>4, KeptGoing DEF FormInvariant, FormType, SavedShown, UntypedShown, Filled

\* As long as the form shows what the last save stored and no rival has saved since, the engine
\* decides at least as strictly as it says, however the ceilings move (merchant_override.go: the clamps of
\* ResolveMerchantPolicy; PolicyView: what handleSave lets through).
THEOREM SavedLimitsAlwaysBind == Form!Spec => []SavedLimitsBind
<1> USE ComponentsAssumption
<1>1. Form!Init => FormInvariant
  BY FormInit
<1>2. FormInvariant /\ [Form!Next]_(Form!vars) => FormInvariant'
  BY FormStep
<1>3. FormInvariant => Form!SavedLimitsBind
  <2> SUFFICES ASSUME FormInvariant, saved = "engine", row = read, NEW field \in Form!Field,
                      field = "dailyCap" => form["dailyCap"] > 0
               PROVE  Form!AsStrict(field, Form!ResolveMerchantPolicy(row, ceilings)[field], form[field])
    BY DEF Form!SavedLimitsBind
  <2>1. /\ form = row /\ row["amountCeiling"] > 0 /\ row \in [Form!Field -> Int] /\ ceilings \in Form!PlatformRow
    BY DEF FormInvariant, SavedShown, FormType
  <2>2. /\ ceilings.maxRetriesCeiling \in Int /\ ceilings.minCooldown \in Int /\ ceilings.maxDailyCap \in Int
        /\ ceilings.maxAmountCeiling \in Int /\ ceilings.confidenceFloor \in Int
    BY <2>1 DEF Form!PlatformRow
  <2>3. /\ row["maxRetries"] \in Int /\ row["cooldown"] \in Int /\ row["minERV"] \in Int /\ row["dailyCap"] \in Int
        /\ row["amountCeiling"] \in Int /\ row["confidenceFloor"] \in Int
    BY <2>1 DEF Form!Field
  <2> USE DEF Form!AsStrict, Form!ResolveMerchantPolicy
  <2>4. CASE field = "maxRetries"
    BY <2>1, <2>2, <2>3, <2>4 DEF Form!clampMax
  <2>5. CASE field = "cooldown"
    BY <2>1, <2>2, <2>3, <2>5 DEF Form!atLeast
  <2>6. CASE field = "minERV"
    BY <2>1, <2>2, <2>3, <2>6
  <2>7. CASE field = "dailyCap"
    BY <2>1, <2>2, <2>3, <2>7 DEF Form!clampCap
  <2>8. CASE field = "amountCeiling"
    BY <2>1, <2>2, <2>3, <2>8 DEF Form!clampCap
  <2>9. CASE field = "confidenceFloor"
    BY <2>1, <2>2, <2>3, <2>9 DEF Form!resolveConfidenceFloor
  <2> QED  BY <2>4, <2>5, <2>6, <2>7, <2>8, <2>9 DEF Form!Field
<1> QED  BY <1>1, <1>2, <1>3, PTL DEF Form!Spec, SavedLimitsBind

\* What a save stores for a field that was not typed is what the engine answered with.
LEMMA SavesKept ==
  ASSUME Form!FormAssumption, FormInvariant, Form!Next, Form!Saves, config.from # "sandbox",
         NEW field \in Form!Field \ typed
  PROVE  row'[field] = Form!Kept(read)[field]
<1>1. Form!SaveAccepted
  BY DEF Form!Next, Form!Saves, Form!Load, Form!LoadFromSandbox, Form!handleFieldChange,
     Form!handleActionCostChange, Form!handleReset, Form!SaveInvalid, Form!SaveRefused, Form!RivalCeiling,
     Form!RivalSave
<1>2. /\ row' = [f \in Form!Field |-> IF Form!Sent(form)[f] = Cleared THEN 0 ELSE Form!Sent(form)[f]]
      /\ Going(form, field) = Form!Kept(read)[field]
      /\ read \in [Form!Field -> Int] /\ form \in [Form!Field -> Int \cup {Cleared}] /\ Cleared \notin Int
  BY <1>1 DEF Form!SaveAccepted, Form!RequestBody, FormInvariant, FormType, UntypedShown, Form!FormAssumption
<1>3. Form!Sent(form)[field] = Form!Kept(read)[field] /\ Form!Kept(read)[field] \in Int
  BY <1>2, SentGoing, KeptGoing
<1> QED  BY <1>2, <1>3

\* For any rows, edits, refused saves and rivals, a save stores for every field that was not
\* typed the limit the engine last answered with, through the two mappings and the form, with
\* the floor in whole percents, an unset one as the half it is shown as, and the minimum ERV in
\* whole paise (http-client.ts, toPolicyConfig; PolicyView, handleSave).
THEOREM UntypedAlwaysKept == Form!Spec => UntypedKept
<1> USE ComponentsAssumption
<1>1. Form!Init => FormInvariant
  BY FormInit
<1>2. FormInvariant /\ [Form!Next]_(Form!vars) => FormInvariant'
  BY FormStep
<1>3. FormInvariant /\ [Form!Next]_(Form!vars) =>
        [Form!Saves /\ config.from # "sandbox" =>
           \A field \in Form!Field \ typed : row'[field] = Form!Kept(read)[field]]_(Form!vars)
  BY SavesKept
<1> QED  BY <1>1, <1>2, <1>3, PTL DEF Form!Spec, UntypedKept, Form!UntypedKept
=============================================================================
