------------------------------- MODULE Console -------------------------------
(***************************************************************************)
(* The operator console: the application state of App.tsx, the client that *)
(* routes every call to the engine or to the sandbox and falls back to the *)
(* sandbox when the engine fails it, and the operator.  Every await of the *)
(* code is a point where another answer, click or timer may come first, so *)
(* a load of a merchant's data and a command of the operator are records   *)
(* that say which answer they are waiting for.                             *)
(***************************************************************************)
EXTENDS ConsoleStores

CONSTANTS
  FirstLive, FirstSandbox,  \* the first merchant of each list
  Sessions,    \* what a session may be, of the SessionType below
  MaxCommands, \* bound on the commands issued
  MaxLoads     \* bound on the loads in flight

\* How reliable the engine is ("down": the health check may fail, "lost": a request or
\* its answer may be), whether the operator waits until nothing is in flight, what the
\* operator does, the limits typed, and bounds, the last on the reloads left.
SessionType ==
  [faults : SUBSET {"down", "lost"}, patient : BOOLEAN,
   does : SUBSET (CallKind \cup {"switch", "browse", "refresh", "reload"}),
   types : SUBSET Limits,
   commands : 0..MaxCommands, loads : 1..MaxLoads, reloads : Nat]

\* The decision of the failure that command n simulates.
payment(n) == <<"payment", n>>

ASSUME ConsoleAssumption ==
  /\ FirstLive \in LiveMerchant /\ FirstSandbox \in SandboxMerchant
  /\ {MaxCommands, MaxLoads} \subseteq Nat
  /\ \A e \in Sessions : e \in SessionType
  /\ \A n \in 1..MaxCommands : payment(n) \notin LiveDecision \cup SandboxDecision \cup {None}

VARIABLES
  engine, sandbox,  \* the two stores
  mode,             \* "live" or "mock": the client's mode
  boot,             \* "health", "list" or "done": how far initApp has come
  merchants,        \* the merchants offered
  current, selected,            \* the chosen merchant and decision, or None
  policy, decisions, auditLogs, \* what is shown
  isLoading,
  form,             \* the limits typed into the policy form and not saved, or "clean"
  loads,            \* the loads in flight, by slot
  jobs,             \* the commands issued so far, by number
  session

stores == <<engine, sandbox>>
shown == <<policy, decisions, auditLogs>>
chosen == <<merchants, current, selected>>
vars == <<stores, mode, boot, chosen, shown, isLoading, form, loads, jobs, session>>

LoadSlot == 1..MaxLoads
Read == {"policy", "feed", "audit"}
Settled == {"ok", "error"}

Quiet == DOMAIN loads = {} /\ \A j \in DOMAIN jobs : jobs[j].at \in Settled
Usable == boot = "done" /\ policy # None
OperatorMayAct == Usable /\ (session.patient => Quiet)

(***************************************************************************)
(* Routing.  The client is picked by the mode when a call is made.  A read *)
(* the engine fails is answered by the sandbox if the mode is still live,  *)
(* else by the spare client of App.tsx, which nobody writes to.            *)
(***************************************************************************)
activeClient == IF mode = "live" THEN "http" ELSE "sandbox"
ReadFallback == IF mode = "live" THEN "sandbox" ELSE "spare"

\* The engine answers every read but the policy of a merchant it has no row for.
EngineAnswers(r, m) == r = "policy" => HasRow(engine, m)

\* The entries of the engine's audit answer cannot be mapped (details is not
\* text), so the console reads the engine's log as empty.
EngineRead(r, m) ==
  CASE r = "policy" -> engine.policies[m]
    [] r = "feed"   -> Feed(engine, m)
    [] r = "audit"  -> {}

SandboxRead(store, r, m) ==
  CASE r = "policy" -> getPolicyConfig(store, m)
    [] r = "feed"   -> Feed(store, m)
    [] r = "audit"  -> store.audit

(***************************************************************************)
(* Loads.  The effect of App.tsx starts one whenever the merchant or the   *)
(* selected decision changes; it keeps the selection it was started with.  *)
(***************************************************************************)
NewLoad(m, sel) ==
  [m |-> m, sel |-> sel, from |-> [r \in Read |-> activeClient], got |-> <<>>]

FreeSlots == 1..session.loads \ DOMAIN loads
Slot == CHOOSE l \in FreeSlots : \A k \in FreeSlots : l <= k
Put(f, k, v) == [x \in DOMAIN f \cup {k} |-> IF x = k THEN v ELSE f[x]]
Without(f, k) == [x \in DOMAIN f \ {k} |-> f[x]]

StartLoad(m, sel) ==
  /\ FreeSlots # {}
  /\ loads' = Put(loads, Slot, NewLoad(m, sel))
  /\ isLoading' = TRUE

\* initApp: with the mode live, the engine's health decides whether it stays so.
CheckHealth ==
  /\ boot = "health"
  /\ boot' = "list"
  /\ mode' \in IF mode = "live" /\ "down" \in session.faults THEN {"live", "mock"} ELSE {mode}
  /\ UNCHANGED <<stores, chosen, shown, isLoading, form, loads, jobs, session>>

ListMerchants ==
  /\ boot = "list"
  /\ boot' = "done"
  /\ merchants' = IF mode = "live" THEN LiveMerchant ELSE SandboxMerchant
  /\ current' = IF mode = "live" THEN FirstLive ELSE FirstSandbox
  /\ StartLoad(current', selected)
  /\ UNCHANGED <<stores, mode, selected, shown, form, jobs, session>>

Answered(l, r, answer) ==
  loads' = [loads EXCEPT ![l].from[r] = "got", ![l].got = Put(@, r, answer)]

Redirected(l, r, src) == loads' = [loads EXCEPT ![l].from[r] = src]

\* One of a load's three reads gets its answer, or fails and is sent elsewhere.
ReadStep(l, r) ==
  /\ LET from == loads[l].from[r]
         m == loads[l].m
     IN \/ from = "http" /\ EngineAnswers(r, m) /\ Answered(l, r, EngineRead(r, m))
        \/ /\ from = "http" /\ (~EngineAnswers(r, m) \/ "lost" \in session.faults)
           /\ IF r = "audit" THEN Answered(l, r, {}) ELSE Redirected(l, r, ReadFallback)
        \/ from = "sandbox" /\ Answered(l, r, SandboxRead(sandbox, r, m))
        \/ from = "spare" /\ Answered(l, r, SandboxRead(SandboxAtStart, r, m))
  /\ UNCHANGED <<stores, mode, boot, chosen, shown, isLoading, form, jobs, session>>

SelectionAfter(load, feed) ==
  IF feed # <<>> /\ load.sel \notin Ids(feed) THEN feed[1].id ELSE selected

DeliverStillLoading(l) ==
  /\ DOMAIN loads[l].got = Read
  /\ policy' = loads[l].got["policy"]
  /\ decisions' = loads[l].got["feed"]
  /\ auditLogs' = loads[l].got["audit"]
  /\ loads' = Without(loads, l) /\ form' = "clean"
  /\ UNCHANGED <<stores, mode, boot, chosen, isLoading, jobs, session>>

\* All the reads are in: the load shows them under whichever merchant is current,
\* and a selection it changes starts another load.
Deliver(l) ==
  /\ DOMAIN loads[l].got = Read
  /\ LET load == loads[l]
         sel == SelectionAfter(load, load.got["feed"])
     IN /\ policy' = load.got["policy"]
        /\ decisions' = load.got["feed"]
        /\ auditLogs' = load.got["audit"]
        /\ selected' = sel
        /\ isLoading' = (sel # selected)
        /\ loads' = IF sel # selected THEN [loads EXCEPT ![l] = NewLoad(current, sel)]
                                     ELSE Without(loads, l)
  /\ form' = "clean"
  /\ UNCHANGED <<stores, mode, boot, merchants, current, jobs, session>>

(***************************************************************************)
(* What the operator does besides commands.                                *)
(***************************************************************************)
SelectMerchant(m) ==
  /\ OperatorMayAct /\ "browse" \in session.does
  /\ m \in merchants /\ <<m, None>> # <<current, selected>>
  /\ current' = m /\ selected' = None
  /\ StartLoad(m, None)
  /\ UNCHANGED <<stores, mode, boot, merchants, shown, form, jobs, session>>

SelectDecision(d) ==
  /\ OperatorMayAct /\ "browse" \in session.does
  /\ d \in Ids(decisions) \ {selected}
  /\ selected' = d
  /\ StartLoad(current, d)
  /\ UNCHANGED <<stores, mode, boot, merchants, current, shown, form, jobs, session>>

Refresh ==
  /\ OperatorMayAct /\ "refresh" \in session.does
  /\ ~isLoading
  /\ StartLoad(current, selected)
  /\ UNCHANGED <<stores, mode, boot, chosen, shown, form, jobs, session>>

\* The connection dialog changes the mode and reloads the current merchant's data;
\* the list of merchants stays the one of the old mode.
SwitchMode ==
  /\ OperatorMayAct /\ "switch" \in session.does
  /\ FreeSlots # {}
  /\ mode' = IF mode = "live" THEN "mock" ELSE "live"
  /\ isLoading' = TRUE
  /\ loads' = Put(loads, Slot,
                  [NewLoad(current, selected) EXCEPT
                     !.from = [r \in Read |-> IF mode' = "live" THEN "http" ELSE "sandbox"]])
  /\ UNCHANGED <<stores, boot, chosen, shown, form, jobs, session>>

EditForm(limits) ==
  /\ OperatorMayAct /\ "save" \in session.does
  /\ form' = limits
  /\ UNCHANGED <<stores, mode, boot, chosen, shown, isLoading, loads, jobs, session>>

\* The reset button, or leaving the policy tab.
DiscardForm ==
  /\ OperatorMayAct /\ form # "clean"
  /\ form' = "clean"
  /\ UNCHANGED <<stores, mode, boot, chosen, shown, isLoading, loads, jobs, session>>

\* Reloading the page empties the application and the sandbox.  The mode is kept by
\* the browser, except by the error page's button, which forgets it.
Reload ==
  /\ "reload" \in session.does /\ session.reloads > 0 /\ Quiet /\ boot = "done"
  /\ session' = [session EXCEPT !.reloads = @ - 1]
  /\ mode' \in {mode, "mock"}
  /\ sandbox' = SandboxAtStart
  /\ boot' = "health" /\ merchants' = {}
  /\ current' = None /\ selected' = None
  /\ policy' = None /\ decisions' = <<>> /\ auditLogs' = {}
  /\ isLoading' = TRUE /\ form' = "clean"
  /\ UNCHANGED <<engine, loads, jobs>>

(***************************************************************************)
(* Commands.  A job is one call of a write handler: the store the mode     *)
(* named when it was issued (named), the stores it has changed (wrote),    *)
(* what the dialog showed the operator (saw), the answer it is waiting for *)
(* (at) and the decision a simulated failure produced (made).              *)
(***************************************************************************)
MayIssue(kind) ==
  OperatorMayAct /\ kind \in session.does /\ Len(jobs) < session.commands

Job(kind, arg, saw) ==
  [kind |-> kind, m |-> current, arg |-> arg, saw |-> saw,
   named |-> IF mode = "live" THEN "engine" ELSE "sandbox",
   wrote |-> {}, at |-> activeClient, made |-> None]

Issue(job) ==
  /\ jobs' = Append(jobs, job)
  /\ UNCHANGED <<stores, mode, boot, chosen, shown, isLoading, form, loads, session>>

\* The kill switch asks for the opposite of what the shown policy says.
Toggle ==
  /\ MayIssue("toggle") /\ ~isLoading
  /\ Issue(Job("toggle", IF policy.kill THEN "restore" ELSE "engage", policy.of))

\* The form's untouched fields hold the shown policy's values.
SavePolicy ==
  /\ MayIssue("save") /\ ~isLoading /\ form # "clean"
  /\ Issue(Job("save", form, policy.of))

currentDecision ==
  IF selected \in Ids(decisions) THEN selected ELSE decisions[1].id

\* The dialog shows currentDecision; the handler overrides the selected one, and
\* returns at once, as after a success, when none is selected.
Override ==
  /\ MayIssue("override") /\ decisions # <<>>
  /\ LET job == Job("override", selected, currentDecision)
     IN Issue(IF selected = None THEN [job EXCEPT !.at = "ok"] ELSE job)

Simulate ==
  /\ MayIssue("simulate")
  /\ \A j \in DOMAIN jobs : jobs[j].kind = "simulate" => jobs[j].at \in Settled
  /\ Issue(Job("simulate", payment(Len(jobs) + 1), None))

Call(j) == [kind |-> jobs[j].kind, m |-> jobs[j].m, arg |-> jobs[j].arg]
Advance(j, to) == jobs' = [jobs EXCEPT ![j].at = to]
Wrote(j, store, to) == jobs' = [jobs EXCEPT ![j].wrote = @ \cup {store}, ![j].at = to]

\* The re-reads after a write go through whichever client is active by then.
PolicyRead == IF mode = "live" THEN "http policy" ELSE "sandbox policy"
AuditRead == IF mode = "live" THEN "http audit" ELSE "sandbox audit"
RepeatInSandbox(j) == "sandbox"
AfterWrite(j) == IF jobs[j].kind = "toggle" THEN PolicyRead ELSE "confirm"

\* The engine carries the call out and its answer arrives.
Serve(j) ==
  /\ jobs[j].at = "http" /\ Accepts(engine, Call(j))
  /\ engine' \in EngineAfter(engine, Call(j))
  /\ Wrote(j, "engine", AfterWrite(j))
  /\ UNCHANGED <<sandbox, mode, boot, chosen, shown, isLoading, form, loads, session>>

\* The engine refuses, or the request never reaches it: any error sends the write on
\* to the sandbox.
Refuse(j) ==
  /\ jobs[j].at = "http" /\ (~Accepts(engine, Call(j)) \/ "lost" \in session.faults)
  /\ Advance(j, "sandbox")
  /\ UNCHANGED <<stores, mode, boot, chosen, shown, isLoading, form, loads, session>>

\* The engine carries it out and the answer is lost: to the client this is an error too.
LoseAnswer(j) ==
  /\ jobs[j].at = "http" /\ "lost" \in session.faults /\ Accepts(engine, Call(j))
  /\ engine' \in EngineAfter(engine, Call(j))
  /\ Wrote(j, "engine", "sandbox")
  /\ UNCHANGED <<sandbox, mode, boot, chosen, shown, isLoading, form, loads, session>>

KeepPolicy(row) == form' = "clean" /\ UNCHANGED shown
ShowPolicy(row) == policy' = row /\ form' = "clean" /\ UNCHANGED <<decisions, auditLogs>>

ShowDecision(row) ==
  /\ decisions' = [i \in DOMAIN decisions |-> IF decisions[i].id = row.id THEN row ELSE decisions[i]]
  /\ UNCHANGED <<policy, auditLogs, form>>

Prepend(row) == decisions' = <<row>> \o decisions /\ UNCHANGED <<policy, auditLogs, form>>

Find(store, id) ==
  store.decisions[CHOOSE i \in DOMAIN store.decisions : store.decisions[i].id = id]

\* The decision shown for a simulated failure: its own, else the merchant's latest.
Formulated(c) ==
  IF c.arg \in Ids(engine.decisions) THEN Find(engine, c.arg) ELSE Feed(engine, c.m)[1]

\* The write's follow-up read succeeds and its answer is shown.
Confirm(j) ==
  /\ jobs[j].at = "confirm"
  /\ LET c == Call(j) IN
       \/ /\ c.kind = "save" /\ ShowPolicy(engine.policies[c.m])
          /\ Advance(j, AuditRead)
       \/ /\ c.kind = "override" /\ ShowDecision(Find(engine, c.arg))
          /\ Advance(j, AuditRead)
       \/ /\ c.kind = "simulate" /\ Feed(engine, c.m) # <<>>
          /\ Prepend(Formulated(c))
          /\ jobs' = [jobs EXCEPT ![j].at = AuditRead, ![j].made = Formulated(c).id]
  /\ UNCHANGED <<stores, mode, boot, chosen, isLoading, loads, session>>

\* The follow-up read fails, or finds no decision: the write is sent on to the sandbox.
Unconfirmed(j) ==
  /\ jobs[j].at = "confirm"
  /\ "lost" \in session.faults \/ (jobs[j].kind = "simulate" /\ Feed(engine, jobs[j].m) = <<>>)
  /\ Advance(j, "sandbox")
  /\ UNCHANGED <<stores, mode, boot, chosen, shown, isLoading, form, loads, session>>

\* The sandbox carries a call out; its answer is shown like the engine's.
MockCall(j) ==
  /\ jobs[j].at = "sandbox" /\ SandboxKnows(sandbox, Call(j))
  /\ sandbox' = SandboxAfter(sandbox, Call(j))
  /\ LET c == Call(j) IN
       \/ /\ c.kind = "toggle" /\ Wrote(j, "sandbox", PolicyRead)
          /\ UNCHANGED <<shown, form>>
       \/ /\ c.kind = "save" /\ ShowPolicy(sandbox'.policies[c.m])
          /\ Wrote(j, "sandbox", AuditRead)
       \/ /\ c.kind = "override" /\ ShowDecision(Find(sandbox', c.arg))
          /\ Wrote(j, "sandbox", AuditRead)
       \/ /\ c.kind = "simulate" /\ Prepend(Find(sandbox', c.arg))
          /\ jobs' = [jobs EXCEPT ![j].wrote = @ \cup {"sandbox"}, ![j].at = AuditRead,
                                  ![j].made = c.arg]
  /\ UNCHANGED <<engine, mode, boot, chosen, isLoading, loads, session>>

\* Only an override of a decision the sandbox never heard of surfaces as an error.
MockError(j) ==
  /\ jobs[j].at = "sandbox" /\ ~SandboxKnows(sandbox, Call(j))
  /\ Advance(j, "error")
  /\ UNCHANGED <<stores, mode, boot, chosen, shown, isLoading, form, loads, session>>

\* Toggling's re-read of the policy: from the engine, which may fail it, or the sandbox.
RereadPolicy(j) ==
  /\ LET m == jobs[j].m IN
     \/ /\ jobs[j].at = "http policy" /\ HasRow(engine, m)
        /\ ShowPolicy(engine.policies[m]) /\ Advance(j, AuditRead)
     \/ /\ jobs[j].at = "http policy" /\ (~HasRow(engine, m) \/ "lost" \in session.faults)
        /\ Advance(j, IF mode = "live" THEN "sandbox policy" ELSE "error")
        /\ UNCHANGED <<shown, form>>
     \/ /\ jobs[j].at = "sandbox policy"
        /\ ShowPolicy(getPolicyConfig(sandbox, m)) /\ Advance(j, AuditRead)
  /\ UNCHANGED <<stores, mode, boot, chosen, isLoading, loads, session>>

\* Every command ends by re-reading the audit log; a simulation then selects its
\* decision, and a saved form becomes clean.
Finish(j) ==
  /\ jobs[j].at \in {"http audit", "sandbox audit"}
  /\ auditLogs' = IF jobs[j].at = "http audit" THEN {} ELSE sandbox.audit
  /\ Advance(j, "ok")
  /\ form' = IF jobs[j].kind = "save" THEN "clean" ELSE form
  /\ IF jobs[j].kind = "simulate" /\ jobs[j].made # selected
       THEN selected' = jobs[j].made /\ StartLoad(current, jobs[j].made)
       ELSE UNCHANGED <<selected, isLoading, loads>>
  /\ UNCHANGED <<stores, mode, boot, merchants, current, policy, decisions, session>>

-----------------------------------------------------------------------------

Init ==
  /\ engine = EngineAtStart /\ sandbox = SandboxAtStart
  /\ mode \in {"live", "mock"}
  /\ boot = "health" /\ merchants = {} /\ current = None /\ selected = None
  /\ policy = None /\ decisions = <<>> /\ auditLogs = {}
  /\ isLoading = TRUE /\ form = "clean"
  /\ loads = <<>> /\ jobs = <<>> /\ session \in Sessions

LoadStep(l) == (\E r \in Read : ReadStep(l, r)) \/ Deliver(l)

JobStep(j) ==
  \/ Serve(j) \/ Refuse(j) \/ LoseAnswer(j) \/ Confirm(j) \/ Unconfirmed(j)
  \/ MockCall(j) \/ MockError(j) \/ RereadPolicy(j) \/ Finish(j)

Operator ==
  \/ \E m \in merchants : SelectMerchant(m)
  \/ \E d \in Ids(decisions) : SelectDecision(d)
  \/ \E limits \in session.types : EditForm(limits)
  \/ Refresh \/ SwitchMode \/ DiscardForm \/ Reload
  \/ Toggle \/ SavePolicy \/ Override \/ Simulate

Next ==
  \/ CheckHealth \/ ListMerchants
  \/ \E l \in DOMAIN loads : LoadStep(l)
  \/ \E j \in DOMAIN jobs : JobStep(j)
  \/ Operator

Spec == Init /\ [][Next]_vars

\* Answers arrive and are handled; the operator owes nothing.  A command's fairness is
\* strong because the load it ends with waits here for a slot, which the code does not.
Fairness ==
  /\ WF_vars(CheckHealth \/ ListMerchants)
  /\ \A l \in LoadSlot : WF_vars(l \in DOMAIN loads /\ LoadStep(l))
  /\ \A j \in 1..MaxCommands : SF_vars(j \in DOMAIN jobs /\ JobStep(j))

FairSpec == Spec /\ Fairness
=============================================================================
