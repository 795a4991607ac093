------------------------------- MODULE AdminApi -------------------------------
(***************************************************************************)
(* The engine's admin routes as the statements they send to the database,  *)
(* each a transaction of its own: saving a policy (of which one limit and  *)
(* its platform ceiling stand for all), the merchant's kill switch and the *)
(* global one, beside operators who tune the ceiling in the database.      *)
(* Requests interleave between statements, a statement may fail, and one   *)
(* that was executed may have its answer lost.                             *)
(***************************************************************************)
EXTENDS Naturals, FiniteSets

CONSTANTS
  Request,
  Merchant, Unknown,   \* merchants with a policy row, and one without
  MaxCeiling           \* bound on the limits

ASSUME AdminApiAssumption ==
  /\ Unknown \notin Merchant /\ MaxCeiling \in Nat /\ "platform" \notin Merchant

Limit == 0..MaxCeiling

\* What a request asks for.  The body of a save may carry a kill_switch, which the
\* update statement leaves out.
Save == [op : {"save"}, target : Merchant \cup {Unknown}, limit : Limit, on : BOOLEAN]
Switch == [op : {"switch"}, target : Merchant \cup {Unknown}, on : BOOLEAN]
GlobalSwitch == [op : {"global"}, target : {"platform"}, on : BOOLEAN]
Body == Save \cup Switch \cup GlobalSwitch

VARIABLES
  pc,      \* the statement each request is at, or its status
  body,    \* what it asks for
  rows,    \* merchant_policy_config: [limit, kill]
  platform,  \* platform_policy: [ceiling, kill, exists], the defaults without a row
  seen,    \* the ceiling each save has read
  audit,   \* audit_log: the requests that have an entry
  applied, \* requests whose statement changed a row
  last     \* the state the last executed switch of each kill switch asked for

vars == <<pc, body, rows, platform, seen, audit, applied, last>>
InProgress == {"load", "ensure", "write", "audit"}
Status == {"200", "400", "404", "500"}

NoBody == [op |-> "none", target |-> Unknown]

Goto(r, place) == pc' = [pc EXCEPT ![r] = place]

Begin(r) ==
  /\ pc[r] = "idle"
  /\ \E b \in Body :
       /\ body' = [body EXCEPT ![r] = b]
       /\ Goto(r, CASE b.op = "save" -> "load" [] b.op = "global" -> "ensure" [] OTHER -> "write")
  /\ UNCHANGED <<rows, platform, seen, audit, applied, last>>

\* A ceiling of 0 is none.
Within(limit, ceiling) == ceiling > 0 => limit <= ceiling

LoadPlatformUnbounded(r) ==
  /\ pc[r] = "load" /\ Goto(r, "write")
  /\ seen' = [seen EXCEPT ![r] = platform.ceiling]
  /\ UNCHANGED <<body, rows, platform, audit, applied, last>>
\* LoadPlatform, and the bounds it gives.
LoadPlatform(r) ==
  /\ pc[r] = "load"
  /\ Goto(r, IF Within(body[r].limit, platform.ceiling) THEN "write" ELSE "400")
  /\ seen' = [seen EXCEPT ![r] = platform.ceiling]
  /\ UNCHANGED <<body, rows, platform, audit, applied, last>>

\* ensurePlatformRowSQL
EnsurePlatform(r) ==
  /\ pc[r] = "ensure" /\ Goto(r, "write")
  /\ platform' = [platform EXCEPT !.exists = TRUE]
  /\ UNCHANGED <<body, rows, seen, audit, applied, last>>

SavedBody(row, b) == [limit |-> b.limit, kill |-> b.on]
\* updatePolicyConfigSQL sets every column but kill_switch.
Saved(row, b) == [row EXCEPT !.limit = b.limit]

\* The update of one row: what it changes, and what the history of the switches notes.
Update(r) ==
  LET b == body[r] IN
  /\ rows' = IF b.op = "global" THEN rows
             ELSE [rows EXCEPT ![b.target] = IF b.op = "save" THEN Saved(@, b)
                                             ELSE [@ EXCEPT !.kill = b.on]]
  /\ platform' = IF b.op = "global" THEN [platform EXCEPT !.kill = b.on] ELSE platform
  /\ last' = IF b.op = "save" THEN last ELSE [last EXCEPT ![b.target] = b.on]
  /\ applied' = applied \cup {r}

WriteUnchecked(r) ==
  /\ pc[r] = "write" /\ Goto(r, "audit")
  /\ IF body[r].target = Unknown THEN UNCHANGED <<rows, platform, last, applied>> ELSE Update(r)
  /\ UNCHANGED <<body, seen, audit>>
\* The update, and the rows it affected: without one the merchant is not found.
Write(r) ==
  /\ pc[r] = "write"
  /\ \/ body[r].target = Unknown /\ Goto(r, "404") /\ UNCHANGED <<rows, platform, last, applied>>
     \/ body[r].target # Unknown /\ Goto(r, "audit") /\ Update(r)
  /\ UNCHANGED <<body, seen, audit>>

InsertAudit(r) ==
  /\ pc[r] = "audit" /\ Goto(r, "200")
  /\ audit' = audit \cup {r}
  /\ UNCHANGED <<body, rows, platform, seen, applied, last>>

\* A statement fails, and the handler answers 500.
Fail(r) ==
  /\ pc[r] \in InProgress /\ Goto(r, "500")
  /\ UNCHANGED <<body, rows, platform, seen, audit, applied, last>>

\* The update is executed, and its answer is lost.
WriteUnheard(r) ==
  /\ pc[r] = "write" /\ body[r].target # Unknown /\ Goto(r, "500") /\ Update(r)
  /\ UNCHANGED <<body, seen, audit>>

\* An operator tunes the platform row in the database; no route does.
TuneCeiling ==
  /\ \E c \in Limit : platform' = [platform EXCEPT !.ceiling = c, !.exists = TRUE]
  /\ UNCHANGED <<pc, body, rows, seen, audit, applied, last>>

Init ==
  /\ pc = [r \in Request |-> "idle"] /\ body = [r \in Request |-> NoBody]
  /\ rows = [m \in Merchant |-> [limit |-> 0, kill |-> FALSE]]
  /\ platform \in [ceiling : Limit, kill : {FALSE}, exists : BOOLEAN]
  /\ seen = [r \in Request |-> 0] /\ audit = {} /\ applied = {}
  /\ last = [s \in Merchant \cup {"platform"} |-> FALSE]

Next ==
  \/ \E r \in Request :
       \/ Begin(r) \/ LoadPlatform(r) \/ EnsurePlatform(r) \/ Write(r) \/ InsertAudit(r)
       \/ Fail(r) \/ WriteUnheard(r)
  \/ TuneCeiling

Spec == Init /\ [][Next]_vars

-----------------------------------------------------------------------------

TypeOK ==
  /\ pc \in [Request -> {"idle"} \cup InProgress \cup Status]
  /\ body \in [Request -> Body \cup {NoBody}]
  /\ rows \in [Merchant -> [limit : Limit, kill : BOOLEAN]]
  /\ platform \in [ceiling : Limit, kill : BOOLEAN, exists : BOOLEAN]
  /\ seen \in [Request -> Limit]
  /\ audit \subseteq Request /\ applied \subseteq Request
  /\ last \in [Merchant \cup {"platform"} -> BOOLEAN]

(***************************************************************************)
(* The audit log can be trusted both ways, however requests for known and  *)
(* unknown merchants interleave, fail and lose their answers: an entry's   *)
(* change was made, and a 200 stands for a stored entry.                   *)
(***************************************************************************)
AuditTrustworthy ==
  /\ audit \subseteq applied
  /\ \A r \in Request : pc[r] = "200" => r \in audit

\* A kill switch is as the last executed switch left it: no save that was read, validated
\* or sent before or meanwhile undoes it.
SwitchesStand ==
  /\ \A m \in Merchant : rows[m].kill = last[m]
  /\ platform.kill = last["platform"]

(***************************************************************************)
(* A save stores a limit above the ceiling in force only when the ceiling  *)
(* moved between its two statements, and never one above the ceiling it    *)
(* read: UpdatePolicyConfig validates against a row it does not hold.      *)
(***************************************************************************)
StaleRead(r, limit) ==
  pc[r] = "write" /\ seen[r] # platform.ceiling /\ Within(limit, seen[r])
StoredWithinCeiling ==
  [][\A m \in Merchant : rows'[m].limit # rows[m].limit =>
       \/ Within(rows'[m].limit, platform.ceiling)
       \/ \E r \in Request : body[r].target = m /\ StaleRead(r, rows'[m].limit)]_vars
=============================================================================
