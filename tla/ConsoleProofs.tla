----------------------------- MODULE ConsoleProofs -----------------------------
(***************************************************************************)
(* What the console owes its operator, for any merchants, decisions and    *)
(* sessions: overrides are the owner's (OverridesOwned), the writes are    *)
(* routed as the client manager promises (RoutedWrites), and what is shown *)
(* is what is stored (ShownIsStored).                                      *)
(***************************************************************************)
EXTENDS ConsoleProperties, FiniteSetTheorems, Induction

(***************************************************************************)
(* Overrides.  The engine's decisions only grow at the front, so a row it  *)
(* has once had it keeps, and an entry keeps its decision.                 *)
(***************************************************************************)

RowOK(d) == d = DecisionRow(d.id, d.merchant, d.chosen)

StoreOK(store) ==
  /\ store = [policies |-> store.policies, decisions |-> store.decisions, audit |-> store.audit]
  /\ store.decisions \in Seq(Rows(store.decisions))
  /\ \A d \in Rows(store.decisions) : RowOK(d)

OwnedInvariant == StoreOK(engine) /\ OverridesOwned

\* A sequence is one of its own elements.
LEMMA OfItself == ASSUME NEW S, NEW s \in Seq(S) PROVE s \in Seq({s[i] : i \in DOMAIN s})
<1>1. Len(s) \in Nat /\ DOMAIN s = 1..Len(s) /\ s \in [1..Len(s) -> S]
  OBVIOUS
<1>2. PICK T : T = {s[i] : i \in DOMAIN s}
  OBVIOUS
<1>3. PICK n \in Nat : n = Len(s)
  BY <1>1
<1>4. s \in [1..n -> T]
  BY <1>1, <1>2, <1>3
<1>5. s \in Seq(T)
  BY <1>4
<1> QED  BY <1>2, <1>5

\* The decisions a store starts with can be listed: there are finitely many.
LEMMA SeedsListed ==
  ASSUME NEW owners, NEW ids, IsFiniteSet(ids)
  PROVE  /\ StoreOK(StoreOf(owners, ids)) /\ StoreOf(owners, ids).audit = {}
         /\ Rows(StoreOf(owners, ids).decisions) = {Seed(d) : d \in ids}
<1> DEFINE n == Cardinality(ids)
           seeds == {Seed(d) : d \in ids}
           list == StoreOf(owners, ids).decisions
<1>1. n \in Nat
  BY FS_CardinalityType
<1>2. PICK f \in [1..n -> ids] : \A d \in ids : \E i \in 1..n : f[i] = d
  BY FS_CardinalityType DEF ExistsBijection, Bijection, Surjection
<1>3. [i \in 1..n |-> Seed(f[i])] \in [1..n -> seeds] /\ IsSeedOrder([i \in 1..n |-> Seed(f[i])], ids)
  <2>1. Len([i \in 1..n |-> Seed(f[i])]) = n
    BY <1>1
  <2> QED  BY <1>1, <1>2, <2>1 DEF IsSeedOrder
<1>4. list \in [1..n -> seeds] /\ IsSeedOrder(list, ids)
  BY <1>3 DEF StoreOf
<1>5. list \in Seq(Rows(list))
  BY <1>1, <1>4 DEF Rows
<1>6. \A d \in Rows(list) : RowOK(d)
  BY <1>1, <1>4 DEF Rows, RowOK, Seed, DecisionRow
<1>7. Rows(list) = seeds
  BY <1>4 DEF IsSeedOrder, Rows
<1> QED  BY <1>5, <1>6, <1>7 DEF StoreOf, StoreOK

\* A row put in front is one more row.
LEMMA PrependRows ==
  ASSUME NEW S, NEW feed \in Seq(S), NEW row
  PROVE  /\ <<row>> \o feed \in Seq(Rows(<<row>> \o feed))
         /\ Rows(<<row>> \o feed) = Rows(feed) \cup {row}
<1>1. PICK next : next = <<row>> \o feed
  OBVIOUS
<1>2. /\ next \in Seq(S \cup {row}) /\ Len(feed) \in Nat /\ DOMAIN feed = 1..Len(feed)
      /\ DOMAIN next = 1..Len(feed) + 1 /\ next[1] = row
      /\ \A i \in 1..Len(feed) : next[i + 1] = feed[i]
  BY <1>1
<1>3. Rows(feed) \cup {row} \subseteq Rows(next)
  <2>1. \A i \in DOMAIN feed : i + 1 \in DOMAIN next /\ next[i + 1] = feed[i]
    BY <1>2
  <2>2. 1 \in DOMAIN next
    BY <1>2
  <2>3. \A i \in DOMAIN feed : feed[i] \in Rows(next)
    BY <2>1, Zenon DEF Rows
  <2>4. row \in Rows(next)
    BY <1>2, <2>2, Zenon DEF Rows
  <2> QED  BY <2>3, <2>4 DEF Rows
<1>4. ASSUME NEW i \in DOMAIN next PROVE next[i] \in Rows(feed) \cup {row}
  <2>1. CASE i = 1
    BY <1>2, <2>1
  <2>2. CASE i # 1
    <3>1. i - 1 \in 1..Len(feed) /\ (i - 1) + 1 = i
      BY <1>2, <2>2
    <3>2. next[i] = feed[i - 1]
      BY <1>2, <3>1
    <3> QED  BY <1>2, <3>1, <3>2 DEF Rows
  <2> QED  BY <2>1, <2>2
<1>5. Rows(next) = Rows(feed) \cup {row}
  BY <1>3, <1>4 DEF Rows
<1>6. next \in Seq(Rows(next))
  BY <1>2, OfItself DEF Rows
<1> QED  BY <1>1, <1>5, <1>6

EngineMoves == \E c : Accepts(engine, c) /\ engine' \in EngineAfter(engine, c)

\* Only a served command, answered or not, changes the engine.
LEMMA OnlyServed == ASSUME [Next]_vars PROVE engine' = engine \/ EngineMoves
<1>1. ASSUME CheckHealth \/ ListMerchants \/ \E l \in DOMAIN loads : LoadStep(l)
      PROVE  engine' = engine
  BY <1>1 DEF CheckHealth, ListMerchants, LoadStep, ReadStep, Deliver, stores
<1>2. ASSUME Operator PROVE engine' = engine
  <2>1. ASSUME Toggle \/ SavePolicy \/ Override \/ Simulate PROVE engine' = engine
    BY <2>1 DEF Toggle, SavePolicy, Override, Simulate, Issue, stores
  <2> QED  BY <1>2, <2>1 DEF Operator, SelectMerchant, SelectDecision, EditForm, Refresh,
             SwitchMode, DiscardForm, Reload, stores
<1>3. ASSUME NEW j \in DOMAIN jobs, JobStep(j) PROVE engine' = engine \/ EngineMoves
  <2>1. CASE Serve(j) \/ LoseAnswer(j)
    BY <2>1 DEF Serve, LoseAnswer, EngineMoves
  <2>2. CASE Refuse(j) \/ Confirm(j) \/ Unconfirmed(j) \/ MockCall(j) \/ MockError(j)
             \/ RereadPolicy(j) \/ Finish(j)
    BY <2>2 DEF Refuse, Confirm, Unconfirmed, MockCall, MockError, RereadPolicy, Finish, stores
  <2> QED  BY <1>3, <2>1, <2>2 DEF JobStep
<1> QED  BY <1>1, <1>2, <1>3 DEF Next, vars, stores

\* What the engine does keeps its rows, and records an override of a row it has.
LEMMA OwnedKept == ASSUME OwnedInvariant, EngineMoves PROVE OwnedInvariant'
<1>1. PICK c : Accepts(engine, c) /\ engine' \in EngineAfter(engine, c)
  BY DEF EngineMoves
<1> DEFINE row == DecisionRow(c.arg, c.m, "ranked")
           old == engine.decisions
<1>2. old \in Seq(Rows(old))
  BY DEF OwnedInvariant, StoreOK
<1>3. /\ engine' = [policies |-> engine'.policies, decisions |-> engine'.decisions,
                     audit |-> engine'.audit]
      /\ engine'.audit = engine.audit \cup {AuditRow(c.kind, c.m, c.arg)}
      /\ engine'.decisions \in {old, <<row>> \o old}
  BY <1>1 DEF Accepts, EngineAfter, EngineToggle, EngineSave, EngineOverride, EngineIngest, Logged,
       OwnedInvariant, StoreOK
<1>4. /\ engine'.decisions \in Seq(Rows(engine'.decisions))
      /\ Rows(old) \subseteq Rows(engine'.decisions)
      /\ \A d \in Rows(engine'.decisions) : RowOK(d)
  <2>1. RowOK(row) /\ \A d \in Rows(old) : RowOK(d)
    BY DEF RowOK, DecisionRow, OwnedInvariant, StoreOK
  <2>2. /\ <<row>> \o old \in Seq(Rows(<<row>> \o old))
        /\ Rows(<<row>> \o old) = Rows(old) \cup {row}
    BY <1>2, PrependRows
  <2>3. CASE engine'.decisions = old
    BY <1>2, <2>1, <2>3
  <2>4. CASE engine'.decisions = <<row>> \o old
    <3>1. \A d \in Rows(<<row>> \o old) : RowOK(d)
      BY <2>1, <2>2
    <3> QED  BY <2>2, <2>4, <3>1
  <2> QED  BY <1>3, <2>3, <2>4
<1>5. ASSUME NEW a \in engine'.audit, a.kind = "override"
      PROVE  \E d \in Rows(old) : d.id = a.subject /\ d.merchant = a.merchant
  <2>1. CASE a \in engine.audit
    BY <1>5, <2>1 DEF OwnedInvariant, OverridesOwned, Rows
  <2>2. CASE a = AuditRow(c.kind, c.m, c.arg)
    <3>1. Owns(engine, c)
      BY <1>1, <1>5, <2>2 DEF Accepts, AuditRow
    <3> QED  BY <2>2, <3>1 DEF Owns, AuditRow, Rows
  <2> QED  BY <1>3, <1>5, <2>1, <2>2
<1>6. OverridesOwned'
  <2>1. \A a \in engine'.audit : a.kind = "override" =>
          \E d \in Rows(engine'.decisions) : d.id = a.subject /\ d.merchant = a.merchant
    BY <1>4, <1>5
  <2> QED  BY <2>1 DEF OverridesOwned, Rows
<1> QED  BY <1>3, <1>4, <1>6 DEF OwnedInvariant, StoreOK

(***************************************************************************)
(* An override in the engine's log is of a decision of the merchant it     *)
(* names, whatever the console sends under whichever merchant's name       *)
(* (App.tsx handleOverrideDecision, RecordOverride).                       *)
(***************************************************************************)
THEOREM OverridesAlwaysOwned == Spec => []OverridesOwned
<1>1. Init => OwnedInvariant
  BY SeedsListed, StoresAssumption DEF Init, EngineAtStart, OwnedInvariant, OverridesOwned
<1>2. OwnedInvariant /\ [Next]_vars => OwnedInvariant'
  <2>1. OwnedInvariant /\ engine' = engine => OwnedInvariant'
    BY DEF OwnedInvariant, OverridesOwned, StoreOK, Rows
  <2> QED  BY <2>1, OnlyServed, OwnedKept
<1>3. OwnedInvariant => OverridesOwned
  BY DEF OwnedInvariant
<1> QED  BY <1>1, <1>2, <1>3, PTL DEF Spec

(***************************************************************************)
(* Routing.  A command in flight knows by what it waits for where it may   *)
(* have taken effect: nowhere yet, when it is with the engine for the      *)
(* first time; in the engine alone, when its follow-up read is out; not in *)
(* the sandbox, when it is sent there.                                     *)
(***************************************************************************)

Sure(job) == Reliable /\ job.kind # "simulate"

JobOK(job) ==
  /\ job = [kind |-> job.kind, m |-> job.m, arg |-> job.arg, saw |-> job.saw,
            named |-> job.named, wrote |-> job.wrote, at |-> job.at, made |-> job.made]
  /\ job.named \in {"engine", "sandbox"}

Whereabouts(job) ==
  /\ job.at = "http" => job.named = "engine" /\ job.wrote = {}
  /\ job.at = "confirm" => job.named = "engine" /\ job.wrote = {"engine"}
  /\ job.at = "sandbox" =>
       /\ "sandbox" \notin job.wrote
       /\ job.named = "sandbox" => "engine" \notin job.wrote
       /\ Sure(job) => "engine" \notin job.wrote

JobsOK == jobs \in Seq({jobs[j] : j \in DOMAIN jobs}) /\ \A j \in DOMAIN jobs : JobOK(jobs[j])

RoutedInvariant ==
  /\ mode \in {"live", "mock"} /\ session \in SessionType
  /\ JobsOK /\ Len(jobs) <= MaxCommands
  /\ \A j \in DOMAIN jobs : Whereabouts(jobs[j])

\* The kinds of steps, seen from the commands: none is touched; one is issued; one
\* moves on, without a write or with one.
JobsStill == jobs' = jobs /\ session'.faults = session.faults /\ mode' \in {"live", "mock"}

Issues ==
  /\ Len(jobs) < session.commands
  /\ \E kind, arg, saw : \E at \in {activeClient, "ok"} :
       jobs' = Append(jobs, [Job(kind, arg, saw) EXCEPT !.at = at])

Moves(j, wrote, at) ==
  /\ DOMAIN jobs' = DOMAIN jobs /\ jobs' \in Seq({jobs'[i] : i \in DOMAIN jobs'})
  /\ \A i \in DOMAIN jobs \ {j} : jobs'[i] = jobs[i]
  /\ JobOK(jobs'[j])
  /\ jobs'[j].kind = jobs[j].kind /\ jobs'[j].m = jobs[j].m /\ jobs'[j].arg = jobs[j].arg
  /\ jobs'[j].named = jobs[j].named
  /\ jobs'[j].wrote = wrote /\ jobs'[j].at = at

Settles(j) ==
  \/ Moves(j, jobs[j].wrote, "sandbox") /\ jobs[j].at = "http"
  \/ Moves(j, jobs[j].wrote, "sandbox") /\ jobs[j].at = "confirm" /\ ~Sure(jobs[j])
  \/ \E at : at \notin {"http", "confirm", "sandbox"} /\ Moves(j, jobs[j].wrote, at)

EngineWrites(j) ==
  /\ jobs[j].at = "http"
  /\ \E at : /\ at # "http" /\ (at = "sandbox" => ~Sure(jobs[j]))
             /\ Moves(j, jobs[j].wrote \cup {"engine"}, at)

SandboxWrites(j) ==
  /\ jobs[j].at = "sandbox"
  /\ \E at : at \notin {"http", "confirm", "sandbox"} /\ Moves(j, jobs[j].wrote \cup {"sandbox"}, at)

\* Replacing one command's record leaves a list of commands.
LEMMA MovesOn ==
  ASSUME JobsOK, NEW j \in DOMAIN jobs, NEW job, JobOK(job), jobs' = [jobs EXCEPT ![j] = job],
         job.kind = jobs[j].kind, job.m = jobs[j].m, job.arg = jobs[j].arg,
         job.named = jobs[j].named,
         NEW wrote, job.wrote = wrote, NEW at, job.at = at
  PROVE  Moves(j, wrote, at)
<1>1. jobs' \in Seq({jobs[i] : i \in DOMAIN jobs} \cup {job})
  BY DEF JobsOK
<1>2. DOMAIN jobs' = DOMAIN jobs /\ jobs'[j] = job /\ \A i \in DOMAIN jobs \ {j} : jobs'[i] = jobs[i]
  BY DEF JobsOK
<1>3. jobs' \in Seq({jobs'[i] : i \in DOMAIN jobs'})
  <2>1. PICK S : jobs' \in Seq(S)
    BY <1>1
  <2>2. PICK next \in Seq(S) : next = jobs'
    BY <2>1
  <2>3. next \in Seq({next[i] : i \in DOMAIN next})
    BY OfItself
  <2> QED  BY <2>2, <2>3, Zenon
<1> QED  BY <1>2, <1>3 DEF Moves

\* The updates of the handlers are of this form.
LEMMA AdvanceMoves ==
  ASSUME JobsOK, NEW j \in DOMAIN jobs, NEW at,
         Advance(j, at) \/ \E made : jobs' = [jobs EXCEPT ![j].at = at, ![j].made = made]
  PROVE  Moves(j, jobs[j].wrote, at)
<1>1. JobOK(jobs[j])
  BY DEF JobsOK
<1>2. CASE Advance(j, at)
  <2>1. PICK job : job = [jobs[j] EXCEPT !.at = at]
    OBVIOUS
  <2>2. JobOK(job) /\ job.at = at /\ job.kind = jobs[j].kind /\ job.named = jobs[j].named
        /\ job.m = jobs[j].m /\ job.arg = jobs[j].arg /\ job.wrote = jobs[j].wrote
    BY <1>1, <2>1 DEF JobOK
  <2>3. jobs' = [jobs EXCEPT ![j] = job]
    BY <1>2, <2>1 DEF Advance
  <2> QED  BY <2>2, <2>3, MovesOn
<1>3. ASSUME NEW made, jobs' = [jobs EXCEPT ![j].at = at, ![j].made = made]
      PROVE  Moves(j, jobs[j].wrote, at)
  <2>1. PICK job : job = [jobs[j] EXCEPT !.at = at, !.made = made]
    OBVIOUS
  <2>2. JobOK(job) /\ job.at = at /\ job.kind = jobs[j].kind /\ job.named = jobs[j].named
        /\ job.m = jobs[j].m /\ job.arg = jobs[j].arg /\ job.wrote = jobs[j].wrote
    BY <1>1, <2>1 DEF JobOK
  <2>3. jobs' = [jobs EXCEPT ![j] = job]
    BY <1>3, <2>1
  <2> QED  BY <2>2, <2>3, MovesOn
<1> QED  BY <1>2, <1>3

LEMMA WroteMoves ==
  ASSUME JobsOK, NEW j \in DOMAIN jobs, NEW store, NEW at,
         \/ Wrote(j, store, at)
         \/ \E made : jobs' = [jobs EXCEPT ![j].wrote = @ \cup {store}, ![j].at = at, ![j].made = made]
  PROVE  Moves(j, jobs[j].wrote \cup {store}, at)
<1>1. JobOK(jobs[j])
  BY DEF JobsOK
<1>2. CASE Wrote(j, store, at)
  <2>1. PICK job : job = [jobs[j] EXCEPT !.wrote = @ \cup {store}, !.at = at]
    OBVIOUS
  <2>2. JobOK(job) /\ job.at = at /\ job.kind = jobs[j].kind /\ job.named = jobs[j].named
        /\ job.m = jobs[j].m /\ job.arg = jobs[j].arg /\ job.wrote = jobs[j].wrote \cup {store}
    BY <1>1, <2>1 DEF JobOK
  <2>3. jobs' = [jobs EXCEPT ![j] = job]
    BY <1>2, <2>1 DEF Wrote
  <2> QED  BY <2>2, <2>3, MovesOn
<1>3. ASSUME NEW made,
             jobs' = [jobs EXCEPT ![j].wrote = @ \cup {store}, ![j].at = at, ![j].made = made]
      PROVE  Moves(j, jobs[j].wrote \cup {store}, at)
  <2>1. PICK job : job = [jobs[j] EXCEPT !.wrote = @ \cup {store}, !.at = at, !.made = made]
    OBVIOUS
  <2>2. JobOK(job) /\ job.at = at /\ job.kind = jobs[j].kind /\ job.named = jobs[j].named
        /\ job.m = jobs[j].m /\ job.arg = jobs[j].arg /\ job.wrote = jobs[j].wrote \cup {store}
    BY <1>1, <2>1 DEF JobOK
  <2>3. jobs' = [jobs EXCEPT ![j] = job]
    BY <1>3, <2>1
  <2> QED  BY <2>2, <2>3, MovesOn
<1> QED  BY <1>2, <1>3

\* What a command waits for after a write is not the write itself.
After == {"http policy", "sandbox policy", "http audit", "sandbox audit", "ok", "error"}

LEMMA JobSteps ==
  ASSUME RoutedInvariant, NEW j \in DOMAIN jobs, JobStep(j)
  PROVE  /\ mode' = mode /\ session' = session
         /\ Settles(j) \/ EngineWrites(j) \/ SandboxWrites(j)
<1>0. SUFFICES Settles(j) \/ EngineWrites(j) \/ SandboxWrites(j)
  BY DEF JobStep, Serve, Refuse, LoseAnswer, Confirm, Unconfirmed, MockCall, MockError, RereadPolicy,
     Finish
<1>1. JobsOK /\ JobOK(jobs[j])
  BY DEF RoutedInvariant, JobsOK
<1>3. ASSUME NEW at \in After, Moves(j, jobs[j].wrote, at) PROVE Settles(j)
  BY <1>3 DEF Settles, After
<1>4. PolicyRead \in After /\ AuditRead \in After
  BY DEF PolicyRead, AuditRead, After
<1>5. CASE Serve(j)
  <2>1. AfterWrite(j) \in After \cup {"confirm"}
    BY <1>4 DEF AfterWrite
  <2> QED  BY <1>1, <1>5, <2>1, WroteMoves DEF Serve, EngineWrites, After
<1>6. CASE Refuse(j)
  BY <1>1, <1>6, AdvanceMoves DEF Refuse, Settles
<1>7. CASE LoseAnswer(j)
  BY <1>1, <1>7, WroteMoves DEF LoseAnswer, EngineWrites, Sure, Reliable
<1>8. CASE Confirm(j)
  <2>1. CASE Advance(j, AuditRead)
    BY <1>1, <1>3, <1>4, <2>1, AdvanceMoves
  <2>2. CASE \E made : jobs' = [jobs EXCEPT ![j].at = AuditRead, ![j].made = made]
    BY <1>1, <1>3, <1>4, <2>2, AdvanceMoves
  <2> QED  BY <1>8, <2>1, <2>2 DEF Confirm
<1>9. CASE Unconfirmed(j)
  BY <1>1, <1>9, AdvanceMoves DEF Unconfirmed, Settles, Sure, Reliable
<1>10. CASE MockCall(j)
  <2>1. ASSUME NEW at \in After, Moves(j, jobs[j].wrote \cup {"sandbox"}, at) PROVE SandboxWrites(j)
    BY <1>10, <2>1 DEF SandboxWrites, After, MockCall
  <2>2. CASE \E at \in {PolicyRead, AuditRead} : Wrote(j, "sandbox", at)
    BY <1>1, <1>4, <2>1, <2>2, WroteMoves
  <2>3. CASE \E made : jobs' = [jobs EXCEPT ![j].wrote = @ \cup {"sandbox"}, ![j].at = AuditRead,
                                           ![j].made = made]
    BY <1>1, <1>4, <2>1, <2>3, WroteMoves
  <2> QED  BY <1>10, <2>2, <2>3 DEF MockCall
<1>11. CASE MockError(j)
  BY <1>1, <1>3, <1>11, AdvanceMoves DEF MockError, After
<1>12. CASE RereadPolicy(j)
  <2>1. \E at \in After : Advance(j, at)
    BY <1>4, <1>12 DEF RereadPolicy, After
  <2> QED  BY <1>1, <1>3, <2>1, AdvanceMoves
<1>13. CASE Finish(j)
  BY <1>1, <1>3, <1>13, AdvanceMoves DEF Finish, After
<1> QED  BY <1>5, <1>6, <1>7, <1>8, <1>9, <1>10, <1>11, <1>12, <1>13 DEF JobStep

\* A step that belongs to no command leaves the commands alone, or issues one.
LEMMA OtherSteps ==
  ASSUME RoutedInvariant,
         CheckHealth \/ ListMerchants \/ (\E l \in DOMAIN loads : LoadStep(l)) \/ Operator
  PROVE  session' \in SessionType /\ (JobsStill \/ (Issues /\ mode' = mode /\ session' = session))
<1>1. session \in SessionType /\ mode \in {"live", "mock"}
  BY DEF RoutedInvariant
<1>2. CASE CheckHealth \/ ListMerchants \/ \E l \in DOMAIN loads : LoadStep(l)
  BY <1>1, <1>2 DEF CheckHealth, ListMerchants, LoadStep, ReadStep, Deliver, JobsStill
<1>3. CASE \/ \E m \in merchants : SelectMerchant(m)
           \/ \E d \in Ids(decisions) : SelectDecision(d)
           \/ \E limits \in session.types : EditForm(limits)
           \/ Refresh \/ SwitchMode \/ DiscardForm
  BY <1>1, <1>3 DEF SelectMerchant, SelectDecision, EditForm, Refresh, SwitchMode, DiscardForm, JobsStill
<1>4. CASE Reload
  <2>1. session' = [session EXCEPT !.reloads = @ - 1] /\ session.reloads > 0
    BY <1>4 DEF Reload
  <2>2. session' \in SessionType /\ session'.faults = session.faults
    BY <1>1, <2>1 DEF SessionType
  <2> QED  BY <1>1, <1>4, <2>2 DEF Reload, JobsStill
<1>5. CASE Toggle \/ SavePolicy \/ Override \/ Simulate
  <2>1. mode' = mode /\ session' = session /\ Len(jobs) < session.commands
    BY <1>5 DEF Toggle, SavePolicy, Override, Simulate, Issue, MayIssue
  <2>2. \E kind, arg, saw : Issue(Job(kind, arg, saw)) \/ Issue([Job(kind, arg, saw) EXCEPT !.at = "ok"])
    BY <1>5, Zenon DEF Toggle, SavePolicy, Override, Simulate
  <2>3. PICK kind, arg, saw :
          Issue(Job(kind, arg, saw)) \/ Issue([Job(kind, arg, saw) EXCEPT !.at = "ok"])
    BY <2>2
  <2>4. Job(kind, arg, saw) = [Job(kind, arg, saw) EXCEPT !.at = activeClient]
    BY DEF Job
  <2>5. Issues
    BY <2>1, <2>3, <2>4 DEF Issue, Issues
  <2> QED  BY <1>1, <2>1, <2>5
<1> QED  BY <1>2, <1>3, <1>4, <1>5 DEF Operator

RoutedKinds ==
  \/ JobsStill
  \/ Issues /\ mode' = mode /\ session' = session
  \/ /\ mode' = mode /\ session' = session
     /\ \E j \in DOMAIN jobs : Settles(j) \/ EngineWrites(j) \/ SandboxWrites(j)

LEMMA RoutedSteps ==
  ASSUME RoutedInvariant, [Next]_vars PROVE session' \in SessionType /\ RoutedKinds
<1>1. CASE UNCHANGED vars
  BY <1>1 DEF vars, RoutedInvariant, RoutedKinds, JobsStill
<1>2. CASE \E j \in DOMAIN jobs : JobStep(j)
  BY <1>2, JobSteps DEF RoutedInvariant, RoutedKinds
<1> QED  BY <1>1, <1>2, OtherSteps DEF Next, RoutedKinds

LEMMA JobsOKKept == ASSUME RoutedInvariant, RoutedKinds PROVE JobsOK'
<1>1. JobsOK /\ mode \in {"live", "mock"}
  BY DEF RoutedInvariant
<1>2. CASE JobsStill
  BY <1>1, <1>2 DEF JobsStill, JobsOK, JobOK
<1>3. CASE Issues
  <2>0. PICK kind, arg, saw : \E at \in {activeClient, "ok"} :
          jobs' = Append(jobs, [Job(kind, arg, saw) EXCEPT !.at = at])
    BY <1>3 DEF Issues
  <2>1. PICK job : jobs' = Append(jobs, job) /\ JobOK(job)
    <3>1. PICK at : jobs' = Append(jobs, [Job(kind, arg, saw) EXCEPT !.at = at])
      BY <2>0
    <3>2. JobOK([Job(kind, arg, saw) EXCEPT !.at = at])
      BY DEF Job, JobOK
    <3> QED  BY <3>1, <3>2
  <2>2. PICK next : next = Append(jobs, job)
    OBVIOUS
  <2>3. next \in Seq({jobs[i] : i \in DOMAIN jobs} \cup {job})
    BY <1>1, <2>2 DEF JobsOK
  <2>4. next \in Seq({next[i] : i \in DOMAIN next})
    BY <2>3, OfItself
  <2>5. \A i \in DOMAIN next : JobOK(next[i])
    BY <1>1, <2>1, <2>2 DEF JobsOK
  <2> QED  BY <2>1, <2>2, <2>4, <2>5, Zenon DEF JobsOK, JobOK
<1>4. CASE \E j \in DOMAIN jobs : Settles(j) \/ EngineWrites(j) \/ SandboxWrites(j)
  <2>1. PICK j, wrote, at : j \in DOMAIN jobs /\ Moves(j, wrote, at)
    BY <1>4 DEF Settles, EngineWrites, SandboxWrites
  <2>2. \A i \in DOMAIN jobs' : JobOK(jobs'[i])
    BY <1>1, <2>1 DEF Moves, JobsOK
  <2> QED  BY <2>1, <2>2 DEF Moves, JobsOK, JobOK
<1> QED  BY <1>2, <1>3, <1>4 DEF RoutedKinds

LEMMA WhereaboutsKept ==
  ASSUME RoutedInvariant, RoutedKinds, NEW j \in DOMAIN jobs' PROVE Whereabouts(jobs[j])'
<1>1. JobsOK /\ mode \in {"live", "mock"} /\ \A i \in DOMAIN jobs : Whereabouts(jobs[i])
  BY DEF RoutedInvariant
<1>2. session'.faults = session.faults
  BY DEF RoutedKinds, JobsStill
<1>3. ASSUME j \in DOMAIN jobs, jobs'[j] = jobs[j] PROVE Whereabouts(jobs[j])'
  BY <1>1, <1>2, <1>3 DEF Whereabouts, Sure, Reliable
<1>4. CASE JobsStill
  BY <1>3, <1>4 DEF JobsStill
<1>5. CASE Issues
  <2>1. PICK kind, arg, saw : \E at \in {activeClient, "ok"} :
          jobs' = Append(jobs, [Job(kind, arg, saw) EXCEPT !.at = at])
    BY <1>5 DEF Issues
  <2>2. CASE j \in DOMAIN jobs
    BY <1>1, <1>3, <2>1, <2>2 DEF JobsOK
  <2>3. CASE j \notin DOMAIN jobs
    <3>1. PICK at \in {activeClient, "ok"} : jobs'[j] = [Job(kind, arg, saw) EXCEPT !.at = at]
      BY <1>1, <2>1, <2>3 DEF JobsOK
    <3>2. /\ jobs'[j].wrote = {} /\ jobs'[j].at \in {"http", "sandbox", "ok"}
          /\ jobs'[j].at = "http" => jobs'[j].named = "engine"
      BY <1>1, <3>1 DEF Job, activeClient
    <3> QED  BY <3>2 DEF Whereabouts
  <2> QED  BY <2>2, <2>3
<1>6. CASE \E i \in DOMAIN jobs : Settles(i) \/ EngineWrites(i) \/ SandboxWrites(i)
  <2>1. PICK i \in DOMAIN jobs : Settles(i) \/ EngineWrites(i) \/ SandboxWrites(i)
    BY <1>6
  <2>2. j \in DOMAIN jobs
    BY <2>1 DEF Settles, EngineWrites, SandboxWrites, Moves
  <2>3. CASE j # i
    BY <1>3, <2>1, <2>2, <2>3 DEF Settles, EngineWrites, SandboxWrites, Moves
  <2>4. CASE j = i
    <3>1. Whereabouts(jobs[j])
      BY <1>1, <2>2
    <3>2. CASE Settles(j)
      BY <1>2, <3>1, <3>2 DEF Settles, Moves, Whereabouts, Sure, Reliable
    <3>3. CASE EngineWrites(j)
      BY <1>2, <3>1, <3>3 DEF EngineWrites, Moves, Whereabouts, Sure, Reliable
    <3>4. CASE SandboxWrites(j)
      BY <3>4 DEF SandboxWrites, Moves, Whereabouts
    <3> QED  BY <2>1, <2>4, <3>2, <3>3, <3>4
  <2> QED  BY <2>3, <2>4
<1> QED  BY <1>4, <1>5, <1>6 DEF RoutedKinds

(***************************************************************************)
(* The refinement.  An issue is one; a write of the engine is Apply; one   *)
(* of the sandbox is Apply for a command issued to it, and else Repeat; a  *)
(* mode switch is one; nothing else is seen.                               *)
(***************************************************************************)
IssuedTo == [j \in DOMAIN jobs |-> jobs[j].named]
SureOf == {j \in DOMAIN jobs : Reliable /\ jobs[j].kind # "simulate"}
AppliedBy == [s \in {"engine", "sandbox"} |-> {j \in DOMAIN jobs : s \in jobs[j].wrote}]

\* A command that writes adds itself to what the store has applied, and nothing else changes.
LEMMA WriteMaps ==
  ASSUME RoutedInvariant, mode' = mode, session' = session,
         NEW j \in DOMAIN jobs, NEW store \in {"engine", "sandbox"}, NEW at,
         Moves(j, jobs[j].wrote \cup {store}, at)
  PROVE  /\ AppliedBy' = [AppliedBy EXCEPT ![store] = @ \cup {j}]
         /\ UNCHANGED <<StoreNamed, IssuedTo, SureOf>>
<1>1. /\ DOMAIN jobs' = DOMAIN jobs /\ jobs'[j].wrote = jobs[j].wrote \cup {store}
      /\ \A i \in DOMAIN jobs \ {j} : jobs'[i] = jobs[i]
      /\ \A i \in DOMAIN jobs : jobs'[i].kind = jobs[i].kind /\ jobs'[i].named = jobs[i].named
  BY DEF Moves
<1>2. ASSUME NEW s \in {"engine", "sandbox"}
      PROVE  AppliedBy'[s] = [AppliedBy EXCEPT ![store] = @ \cup {j}][s]
  BY <1>1 DEF AppliedBy
<1>3. AppliedBy' = [AppliedBy EXCEPT ![store] = @ \cup {j}]
  BY <1>2 DEF AppliedBy
<1>4. UNCHANGED <<StoreNamed, IssuedTo, SureOf>>
  BY <1>1 DEF StoreNamed, IssuedTo, SureOf, Reliable
<1> QED  BY <1>3, <1>4

LEMMA StillMaps ==
  ASSUME RoutedInvariant, session'.faults = session.faults, DOMAIN jobs' = DOMAIN jobs,
         \A j \in DOMAIN jobs : /\ jobs'[j].kind = jobs[j].kind /\ jobs'[j].named = jobs[j].named
                               /\ jobs'[j].wrote = jobs[j].wrote
  PROVE  UNCHANGED <<IssuedTo, SureOf, AppliedBy>>
BY DEF IssuedTo, SureOf, AppliedBy, Reliable

LEMMA IssueMaps ==
  ASSUME RoutedInvariant, Issues, mode' = mode, session' = session
  PROVE  \E w \in Writes :
           /\ w \notin DOMAIN IssuedTo
           /\ IssuedTo' = [v \in DOMAIN IssuedTo \cup {w} |-> IF v = w THEN StoreNamed ELSE IssuedTo[v]]
           /\ SureOf' \in {SureOf, SureOf \cup {w}}
           /\ UNCHANGED <<StoreNamed, AppliedBy>>
<1>1. /\ mode \in {"live", "mock"} /\ session.commands \in 0..MaxCommands /\ MaxCommands \in Nat
      /\ Len(jobs) \in Nat /\ DOMAIN jobs = 1..Len(jobs) /\ Len(jobs) < session.commands
  BY ConsoleAssumption DEF RoutedInvariant, SessionType, Issues, JobsOK
<1>2. PICK kind, arg, saw : \E at \in {activeClient, "ok"} :
        jobs' = Append(jobs, [Job(kind, arg, saw) EXCEPT !.at = at])
  BY DEF Issues
<1>3. PICK w : w = Len(jobs) + 1
  OBVIOUS
<1>4. /\ w \in Writes /\ w \notin DOMAIN jobs /\ DOMAIN jobs' = DOMAIN jobs \cup {w}
      /\ \A i \in DOMAIN jobs : jobs'[i] = jobs[i]
      /\ jobs'[w].named = StoreNamed /\ jobs'[w].wrote = {}
  <2>1. w \in Writes /\ w \notin DOMAIN jobs
    BY <1>1, <1>3 DEF Writes
  <2>2. PICK at \in {activeClient, "ok"} : jobs' = Append(jobs, [Job(kind, arg, saw) EXCEPT !.at = at])
    BY <1>2
  <2>3. /\ DOMAIN jobs' = DOMAIN jobs \cup {w} /\ \A i \in DOMAIN jobs : jobs'[i] = jobs[i]
        /\ jobs'[w] = [Job(kind, arg, saw) EXCEPT !.at = at]
    BY <1>1, <1>3, <2>2 DEF RoutedInvariant, JobsOK
  <2> QED  BY <2>1, <2>3 DEF Job, StoreNamed
<1>5. w \notin DOMAIN IssuedTo
  BY <1>4 DEF IssuedTo
<1>6. IssuedTo' = [v \in DOMAIN IssuedTo \cup {w} |-> IF v = w THEN StoreNamed ELSE IssuedTo[v]]
  BY <1>4 DEF IssuedTo
<1>7. SureOf' \in {SureOf, SureOf \cup {w}}
  BY <1>4 DEF SureOf, Reliable
<1>8. AppliedBy' = AppliedBy
  BY <1>4 DEF AppliedBy
<1>9. StoreNamed' = StoreNamed
  BY DEF StoreNamed
<1> QED  BY <1>4, <1>5, <1>6, <1>7, <1>8, <1>9

\* Every step of the console is a step of the routed stores, or none.
LEMMA RoutedRefines == ASSUME RoutedInvariant, RoutedKinds PROVE [Routed!Next]_(Routed!vars)
<1> USE DEF IssuedTo, SureOf, AppliedBy
<1>1. CASE JobsStill
  <2>1. UNCHANGED <<IssuedTo, SureOf, AppliedBy>>
    BY <1>1, StillMaps DEF JobsStill
  <2>2. StoreNamed' \in Routed!Store
    BY <1>1 DEF JobsStill, StoreNamed, Routed!Store
  <2> QED  BY <2>1, <2>2, Zenon DEF Routed!Next, Routed!Switch
<1>2. CASE Issues /\ mode' = mode /\ session' = session
  <2>1. \E w \in Writes : Routed!Issue(w)
    BY <1>2, IssueMaps, Zenon DEF Routed!Issue
  <2> QED  BY <2>1 DEF Routed!Next
<1>3. ASSUME mode' = mode, session' = session, NEW j \in DOMAIN jobs,
             Settles(j) \/ EngineWrites(j) \/ SandboxWrites(j)
      PROVE  [Routed!Next]_(Routed!vars)
  <2>1. j \in Writes /\ j \in DOMAIN IssuedTo /\ Whereabouts(jobs[j])
    BY ConsoleAssumption DEF RoutedInvariant, JobsOK, Writes
  <2>2. jobs[j].named \in {"engine", "sandbox"} /\ IssuedTo[j] = jobs[j].named
        /\ (\A s \in {"engine", "sandbox"} : j \in AppliedBy[s] <=> s \in jobs[j].wrote)
        /\ (j \in SureOf <=> Sure(jobs[j]))
    BY DEF RoutedInvariant, JobsOK, JobOK, Sure
  <2>3. CASE Settles(j)
    <3>1. UNCHANGED <<IssuedTo, SureOf, AppliedBy>>
      BY <1>3, <2>3, StillMaps DEF Settles, Moves
    <3> QED  BY <1>3, <3>1, Zenon DEF Routed!vars, StoreNamed
  <2>4. CASE EngineWrites(j)
    <3>1. IssuedTo[j] = "engine" /\ \A s \in {"engine", "sandbox"} : j \notin AppliedBy[s]
      BY <2>1, <2>2, <2>4 DEF EngineWrites, Whereabouts
    <3>2. /\ AppliedBy' = [AppliedBy EXCEPT !["engine"] = @ \cup {j}]
          /\ UNCHANGED <<StoreNamed, IssuedTo, SureOf>>
      BY <1>3, <2>4, WriteMaps DEF EngineWrites
    <3>3. Routed!Apply(j)
      BY <2>1, <3>1, <3>2 DEF Routed!Apply, Routed!Store
    <3> QED  BY <2>1, <3>3 DEF Routed!Next
  <2>5. CASE SandboxWrites(j)
    <3>1. /\ AppliedBy' = [AppliedBy EXCEPT !["sandbox"] = @ \cup {j}]
          /\ UNCHANGED <<StoreNamed, IssuedTo, SureOf>>
      BY <1>3, <2>5, WriteMaps DEF SandboxWrites
    <3>2. /\ j \notin AppliedBy["sandbox"]
          /\ IssuedTo[j] = "sandbox" => j \notin AppliedBy["engine"]
          /\ j \in SureOf => j \notin AppliedBy["engine"]
      BY <2>1, <2>2, <2>5 DEF SandboxWrites, Whereabouts
    <3>3. CASE IssuedTo[j] = "sandbox"
      <4>1. Routed!Apply(j)
        BY <2>1, <3>1, <3>2, <3>3 DEF Routed!Apply, Routed!Store
      <4> QED  BY <2>1, <4>1 DEF Routed!Next
    <3>4. CASE IssuedTo[j] = "engine"
      <4>1. Routed!Repeat(j)
        BY <2>1, <3>1, <3>2, <3>4 DEF Routed!Repeat
      <4> QED  BY <2>1, <4>1 DEF Routed!Next
    <3> QED  BY <2>2, <3>3, <3>4
  <2> QED  BY <1>3, <2>3, <2>4, <2>5
<1> QED  BY <1>1, <1>2, <1>3 DEF RoutedKinds

LEMMA RoutedKept == ASSUME RoutedInvariant, [Next]_vars PROVE RoutedInvariant'
<1>1. session' \in SessionType /\ RoutedKinds
  BY RoutedSteps
<1>2. JobsOK' /\ \A j \in DOMAIN jobs' : Whereabouts(jobs[j])'
  BY <1>1, JobsOKKept, WhereaboutsKept
<1>3. mode' \in {"live", "mock"}
  BY <1>1 DEF RoutedKinds, JobsStill, RoutedInvariant
<1>4. Len(jobs') <= MaxCommands
  <2>1. JobsOK /\ Len(jobs) <= MaxCommands /\ session.commands <= MaxCommands
    BY ConsoleAssumption DEF RoutedInvariant, SessionType
  <2>2. CASE Issues
    <3>1. Len(jobs') = Len(jobs) + 1 /\ Len(jobs) < session.commands
      BY <2>1, <2>2 DEF Issues, JobsOK
    <3>2. Len(jobs) \in Nat /\ session.commands \in Nat /\ MaxCommands \in Nat
      BY <2>1, ConsoleAssumption DEF JobsOK, RoutedInvariant, SessionType
    <3> QED  BY <2>1, <3>1, <3>2
  <2>3. CASE jobs' = jobs
    BY <2>1, <2>3
  <2>4. CASE \E j \in DOMAIN jobs : Settles(j) \/ EngineWrites(j) \/ SandboxWrites(j)
    <3>1. DOMAIN jobs' = DOMAIN jobs /\ JobsOK'
      BY <1>2, <2>4 DEF Settles, EngineWrites, SandboxWrites, Moves
    <3>2. PICK next : next = jobs'
      OBVIOUS
    <3>3. DOMAIN next = DOMAIN jobs /\ next \in Seq({next[i] : i \in DOMAIN next})
      BY <3>1, <3>2 DEF JobsOK
    <3>4. Len(next) = Len(jobs)
      BY <2>1, <3>3 DEF JobsOK
    <3> QED  BY <2>1, <3>2, <3>4
  <2> QED  BY <1>1, <2>2, <2>3, <2>4 DEF RoutedKinds, JobsStill
<1> QED  BY <1>1, <1>2, <1>3, <1>4 DEF RoutedInvariant

(***************************************************************************)
(* The writes of the operator go where the client manager promises: in     *)
(* sandbox mode to the sandbox, once; in live mode to the engine, or to    *)
(* the sandbox instead, and to both only when the console cannot tell      *)
(* (client.ts, every write of the manager; http-client.ts).                *)
(***************************************************************************)
THEOREM WritesAreRouted == Spec => RoutedWrites
<1>1. Init => RoutedInvariant /\ Routed!Init
  <2>1. Init => RoutedInvariant
    BY ConsoleAssumption DEF Init, RoutedInvariant, JobsOK
  <2>2. Init => Routed!Init
    <3>1. SUFFICES ASSUME Init PROVE Routed!Init
      OBVIOUS
    <3>2. jobs = <<>> /\ DOMAIN jobs = {} /\ mode \in {"live", "mock"}
      BY <3>1 DEF Init
    <3>3. StoreNamed \in {"engine", "sandbox"}
      BY DEF StoreNamed
    <3> QED  BY <3>2, <3>3 DEF Routed!Init, Routed!Store
  <2> QED  BY <2>1, <2>2
<1>2. RoutedInvariant /\ [Next]_vars => RoutedInvariant'
  BY RoutedKept
<1>3. RoutedInvariant /\ [Next]_vars => [Routed!Next]_(Routed!vars)
  BY RoutedSteps, RoutedRefines
<1> QED  BY <1>1, <1>2, <1>3, PTL DEF Spec, RoutedWrites, Routed!Spec

(***************************************************************************)
(* What is shown.  A feed shows the rows of its merchant, all of them.     *)
(***************************************************************************)
MerchantRows(store, m) == {d \in Rows(store.decisions) : d.merchant = m}

LEMMA AppendRows ==
  ASSUME NEW S, NEW feed \in Seq(S), NEW d \in S
  PROVE  Append(feed, d) \in Seq(S) /\ Rows(Append(feed, d)) = Rows(feed) \cup {d}
<1>1. /\ Append(feed, d) \in Seq(S) /\ DOMAIN Append(feed, d) = DOMAIN feed \cup {Len(feed) + 1}
      /\ \A i \in DOMAIN feed : Append(feed, d)[i] = feed[i]
      /\ Append(feed, d)[Len(feed) + 1] = d
  OBVIOUS
<1> QED  BY <1>1 DEF Rows

LEMMA FeedRows ==
  ASSUME NEW store, NEW m, store.decisions \in Seq(Rows(store.decisions))
  PROVE  /\ Feed(store, m) \in Seq(Rows(store.decisions))
         /\ Rows(Feed(store, m)) = MerchantRows(store, m)
<1> DEFINE d == store.decisions
           N == Len(d)
           S == Seq(Rows(d))
           more(n, feed) == IF d[n].merchant = m THEN Append(feed, d[n]) ELSE feed
           step == [p \in (1..N) \X S |-> more(p[1], p[2])]
           all(n) == {d[i] : i \in {k \in 1..n : d[k].merchant = m}}
<1>1. N \in Nat /\ DOMAIN d = 1..N /\ (\A n \in 1..N : d[n] \in Rows(d)) /\ <<>> \in S
  OBVIOUS
<1>2. step \in [(1..N) \X S -> S]
  <2>1. \A n \in 1..N, feed \in S : more(n, feed) \in S
    BY <1>1, AppendRows
  <2> HIDE DEF more, S, N
  <2> QED  BY <2>1
<1> HIDE DEF step
<1>3. PICK f : Solves(f, N, S, <<>>, step)
  <2> HIDE DEF S, N
  <2> QED  BY <1>1, <1>2, Recursion
<1>4. f = [n \in 0..N |-> IF n = 0 THEN <<>> ELSE more(n, f[n - 1])]
  <2>1. ASSUME NEW n \in 1..N PROVE f[n] = more(n, f[n - 1])
    <3>1. n - 1 \in 0..N /\ f[n - 1] \in S
      <4>1. n - 1 \in 0..N
        BY <1>1
      <4> HIDE DEF S, N
      <4> QED  BY <1>3, <4>1 DEF Solves
    <3>2. step[<<n, f[n - 1]>>] = more(n, f[n - 1])
      BY <3>1 DEF step
    <3> QED  BY <1>3, <3>2 DEF Solves
  <2> HIDE DEF more, S
  <2> QED  BY <1>3, <2>1 DEF Solves
<1> DEFINE of[n \in 0..N] == IF n = 0 THEN <<>>
                            ELSE IF d[n].merchant = m THEN Append(of[n - 1], d[n])
                            ELSE of[n - 1]
<1>5. of = [n \in 0..N |-> IF n = 0 THEN <<>> ELSE more(n, of[n - 1])]
  BY <1>4
<1>6. Feed(store, m) = of[N]
  BY DEF Feed
<1> HIDE DEF of
<1> DEFINE T == {n \in 0..N : of[n] \in S /\ Rows(of[n]) = all(n)}
<1>7. 0 \in T
  <2>1. of[0] = <<>> /\ 0 \in 0..N
    BY <1>1, <1>5
  <2>2. Rows(<<>>) = {} /\ all(0) = {}
    BY DEF Rows
  <2> QED  BY <1>1, <2>1, <2>2
<1>8. ASSUME NEW n \in 0..N - 1, n \in T PROVE n + 1 \in T
  <2>1. n + 1 \in 1..N /\ n + 1 \in 0..N /\ of[n + 1] = more(n + 1, of[n])
    <3>1. n + 1 \in 1..N /\ n + 1 \in 0..N /\ n + 1 # 0 /\ (n + 1) - 1 = n
      BY <1>1
    <3> HIDE DEF more, N
    <3> QED  BY <1>5, <3>1
  <2>2. all(n + 1) = IF d[n + 1].merchant = m THEN all(n) \cup {d[n + 1]} ELSE all(n)
    BY <1>1
  <2>3. of[n] \in S /\ Rows(of[n]) = all(n) /\ d[n + 1] \in Rows(d)
    BY <1>1, <1>8, <2>1
  <2>4. Append(of[n], d[n + 1]) \in S /\ Rows(Append(of[n], d[n + 1])) = Rows(of[n]) \cup {d[n + 1]}
    BY <2>3, AppendRows
  <2> QED  BY <2>1, <2>2, <2>3, <2>4
<1>9. N \in T
  <2> HIDE DEF T, N
  <2>1. 0..N \subseteq T
    BY <1>1, <1>7, <1>8, Induct
  <2> QED  BY <1>1, <2>1
<1>10. all(N) = MerchantRows(store, m)
  BY <1>1 DEF MerchantRows, Rows
<1> QED  BY <1>6, <1>9, <1>10

(***************************************************************************)
(* The invariant of an operator who waits and an engine that answers.      *)
(***************************************************************************)
Idle(job) == job.at \in Settled

PolicyShown == HasRow(HomeStore, current) => policy = HomeStore.policies[current]
FeedShown == Rows(decisions) = MerchantRows(HomeStore, current)

\* The operator waits, so at most one load or one command is in flight.
OneAtATime ==
  /\ \A l, k \in DOMAIN loads : l = k
  /\ \A i, j \in DOMAIN jobs : ~Idle(jobs[i]) /\ ~Idle(jobs[j]) => i = j
  /\ DOMAIN loads # {} => \A j \in DOMAIN jobs : Idle(jobs[j])
  /\ boot # "done" => Quiet

\* Rows of a store with the same id are the same.
ById(store) == \A d, e \in Rows(store.decisions) : d.id = e.id => d = e

Seen(n) == LiveDecision \cup SandboxDecision \cup {None} \cup {payment(k) : k \in 1..n}

StoresTruth ==
  /\ StoreOK(engine) /\ StoreOK(sandbox) /\ ById(engine) /\ ById(sandbox)
  /\ \A d \in Rows(engine.decisions) \cup Rows(sandbox.decisions) : d.id \in Seen(Len(jobs))
  /\ selected \in Seen(Len(jobs)) /\ decisions \in Seq(Rows(decisions))
  /\ form \in session.types \cup {"clean"}

\* A load asks for the current merchant, and what it has got is what the store of the
\* mode holds.
LoadTruth(load) ==
  /\ load = [m |-> load.m, sel |-> load.sel, from |-> load.from, got |-> load.got]
  /\ load.from \in [Read -> {"http", "sandbox", "spare", "got"}]
  /\ load.m = current
  /\ load.from["feed"] \in {activeClient, "got"}
  /\ \/ load.from["policy"] \in {activeClient, "got"}
     \/ load.from["policy"] = "sandbox" /\ ~HasRow(engine, current)
  /\ "feed" \in DOMAIN load.got => load.got["feed"] = Feed(HomeStore, current)
  /\ "policy" \in DOMAIN load.got /\ HasRow(HomeStore, current) =>
       load.got["policy"] = HomeStore.policies[current]

\* What a command in flight knows by what it waits for.
JobTruth(j) ==
  LET job == jobs[j] IN
  /\ job.m = current /\ job.kind \in CallKind
  /\ job.kind = "save" => job.arg # "over"
  /\ job.kind = "simulate" => job.arg = payment(j)
  /\ job.at \in IF mode = "live"
                  THEN {"http", "sandbox", "confirm", "http policy", "sandbox policy", "http audit"}
                  ELSE {"sandbox", "sandbox policy", "sandbox audit"}
  /\ job.at \in {"http", "sandbox"} => FeedShown /\ PolicyShown
  /\ job.kind = "simulate" /\ job.at \in {"http", "sandbox", "confirm"} =>
       selected # payment(j) /\ payment(j) \notin Ids(sandbox.decisions)
  /\ job.kind = "simulate" /\ job.at = "http" => payment(j) \notin Ids(engine.decisions)
  /\ job.at = "sandbox" /\ mode = "live" =>
       /\ job.kind \in {"toggle", "save"} => ~HasRow(engine, current)
       /\ job.kind = "override" => ~Owns(engine, Call(j))
  /\ job.at = "confirm" =>
       /\ job.kind # "toggle"
       /\ job.kind = "save" => FeedShown
       /\ job.kind = "override" => FeedShown /\ PolicyShown /\ Owns(engine, Call(j))
       /\ job.kind = "simulate" =>
            /\ PolicyShown
            /\ MerchantRows(engine, current)
                 = Rows(decisions) \cup {d \in Rows(engine.decisions) : d.id = payment(j)}
  /\ job.at \in {"http policy", "sandbox policy"} => job.kind = "toggle"
  /\ job.at = "http policy" => FeedShown
  /\ job.at = "sandbox policy" => FeedShown /\ (mode = "live" => ~HasRow(engine, current))
  /\ job.at \in {"http audit", "sandbox audit"} =>
       /\ PolicyShown /\ (FeedShown \/ (job.kind = "simulate" /\ job.made # selected))
       /\ job.kind = "simulate" => job.made \in Seen(Len(jobs))

ScreenTruth ==
  /\ OneAtATime /\ StoresTruth
  /\ \A l \in DOMAIN loads : LoadTruth(loads[l])
  /\ \A j \in DOMAIN jobs : ~Idle(jobs[j]) => JobTruth(j)
  /\ boot = "done" /\ Quiet => PolicyShown /\ FeedShown

ScreenInvariant == Attended => ScreenTruth

-----------------------------------------------------------------------------
\* The rows the stores are left with.

LEMMA FindRow ==
  ASSUME NEW store, ById(store), NEW d \in Rows(store.decisions)
  PROVE  Find(store, d.id) = d
<1>1. PICK k \in DOMAIN store.decisions : store.decisions[k] = d
  BY DEF Rows
<1> DEFINE i == CHOOSE i \in DOMAIN store.decisions : store.decisions[i].id = d.id
<1>2. i \in DOMAIN store.decisions /\ store.decisions[i].id = d.id
  BY <1>1
<1>3. store.decisions[i] \in Rows(store.decisions)
  BY <1>2 DEF Rows
<1> QED  BY <1>2, <1>3 DEF Find, ById

\* What the engine's answer to a command leaves it with.
LEMMA EngineServes ==
  ASSUME StoreOK(engine), NEW c, engine' \in EngineAfter(engine, c), Accepts(engine, c)
  PROVE  /\ StoreOK(engine)' /\ DOMAIN engine'.policies = DOMAIN engine.policies
         /\ c.kind \in {"override", "simulate"} => engine'.policies = engine.policies
         /\ c.kind # "simulate" => engine'.decisions = engine.decisions
         /\ \/ engine'.decisions = engine.decisions
            \/ Rows(engine'.decisions)
                 = Rows(engine.decisions) \cup {DecisionRow(c.arg, c.m, "ranked")}
<1> DEFINE row == DecisionRow(c.arg, c.m, "ranked")
<1>1. /\ engine' = [policies |-> engine'.policies, decisions |-> engine'.decisions,
                     audit |-> engine'.audit]
      /\ DOMAIN engine'.policies = DOMAIN engine.policies
      /\ c.kind \in {"override", "simulate"} => engine'.policies = engine.policies
      /\ c.kind # "simulate" => engine'.decisions = engine.decisions
      /\ engine'.decisions \in {engine.decisions, <<row>> \o engine.decisions}
  <2>1. CASE c.kind = "toggle"
    <3>1. engine' = [policies |-> [engine.policies EXCEPT ![c.m].kill = (c.arg = "engage")],
                     decisions |-> engine.decisions,
                     audit |-> engine.audit \cup {AuditRow(c.kind, c.m, c.arg)}]
      BY <2>1 DEF EngineAfter, EngineToggle, Logged, StoreOK
    <3> QED  BY <2>1, <3>1
  <2>2. CASE c.kind = "save"
    <3>1. engine' = [policies |-> [engine.policies EXCEPT ![c.m].limits = c.arg],
                     decisions |-> engine.decisions,
                     audit |-> engine.audit \cup {AuditRow(c.kind, c.m, c.arg)}]
      BY <2>2 DEF EngineAfter, EngineSave, Logged, StoreOK
    <3> QED  BY <2>2, <3>1
  <2>3. CASE c.kind = "override"
    BY <2>3 DEF EngineAfter, EngineOverride, Logged, StoreOK
  <2>4. CASE c.kind = "simulate"
    BY <2>4 DEF EngineAfter, EngineIngest, Logged, StoreOK
  <2> QED  BY <2>1, <2>2, <2>3, <2>4 DEF Accepts
<1>2. CASE engine'.decisions = engine.decisions
  BY <1>1, <1>2 DEF StoreOK, Rows, RowOK
<1>3. CASE engine'.decisions = <<row>> \o engine.decisions
  <2>1. /\ <<row>> \o engine.decisions \in Seq(Rows(<<row>> \o engine.decisions))
        /\ Rows(<<row>> \o engine.decisions) = Rows(engine.decisions) \cup {row}
    BY PrependRows DEF StoreOK
  <2>2. RowOK(row) /\ \A d \in Rows(engine.decisions) : RowOK(d)
    BY DEF StoreOK, RowOK, DecisionRow
  <2>3. Rows(engine'.decisions) = Rows(engine.decisions) \cup {row}
        /\ engine'.decisions \in Seq(Rows(engine'.decisions))
    BY <1>3, <2>1
  <2>4. \A d \in Rows(engine'.decisions) : RowOK(d)
    BY <2>2, <2>3
  <2> QED  BY <1>1, <2>3, <2>4 DEF StoreOK, Rows, RowOK
<1> QED  BY <1>1, <1>2, <1>3

\* What the sandbox's answer leaves it with.
LEMMA SandboxServes ==
  ASSUME StoreOK(sandbox), NEW c, sandbox' = SandboxAfter(sandbox, c), c.kind \in CallKind
  PROVE  /\ StoreOK(sandbox)'
         /\ c.kind = "toggle" => /\ DOMAIN sandbox'.policies = DOMAIN sandbox.policies
                                 /\ sandbox'.decisions = sandbox.decisions
         /\ c.kind = "save" => sandbox'.decisions = sandbox.decisions
         /\ c.kind = "override" =>
              /\ sandbox'.policies = sandbox.policies
              /\ Rows(sandbox'.decisions) =
                   {IF d.id = c.arg THEN [d EXCEPT !.chosen = "operator"] ELSE d :
                      d \in Rows(sandbox.decisions)}
         /\ c.kind = "simulate" =>
              /\ sandbox'.policies = sandbox.policies
              /\ Rows(sandbox'.decisions)
                   = Rows(sandbox.decisions) \cup {DecisionRow(c.arg, c.m, "ranked")}
<1> DEFINE row == DecisionRow(c.arg, c.m, "ranked")
           old == sandbox.decisions
           rewritten(d) == IF d.id = c.arg THEN [d EXCEPT !.chosen = "operator"] ELSE d
<1>1. CASE c.kind = "toggle"
  <2>1. /\ sandbox' = [policies |-> sandbox'.policies, decisions |-> old, audit |-> sandbox'.audit]
        /\ DOMAIN sandbox'.policies = DOMAIN sandbox.policies
    BY <1>1 DEF SandboxAfter, setKillSwitch, Logged, StoreOK
  <2> QED  BY <1>1, <2>1 DEF StoreOK, Rows, RowOK
<1>2. CASE c.kind = "save"
  <2>1. sandbox' = [policies |-> sandbox'.policies, decisions |-> old, audit |-> sandbox'.audit]
    BY <1>2 DEF SandboxAfter, updatePolicyConfig, Logged, StoreOK
  <2> QED  BY <1>2, <2>1 DEF StoreOK, Rows, RowOK
<1>3. CASE c.kind = "override"
  <2>1. sandbox' = [policies |-> sandbox.policies, decisions |-> Overridden(old, c.arg),
                    audit |-> sandbox'.audit]
    BY <1>3 DEF SandboxAfter, overrideDecision, Logged, StoreOK
  <2>2. PICK next : next = Overridden(old, c.arg)
    OBVIOUS
  <2>3. /\ Len(old) \in Nat /\ DOMAIN old = 1..Len(old)
        /\ next = [i \in 1..Len(old) |-> rewritten(old[i])]
    BY <2>2 DEF Overridden, StoreOK
  <2>4. Rows(next) = {rewritten(d) : d \in Rows(old)}
    BY <2>3 DEF Rows
  <2>5. next \in Seq(Rows(next))
    <3> HIDE DEF rewritten
    <3> QED  BY <2>3 DEF Rows
  <2>6. ASSUME NEW d \in Rows(old) PROVE RowOK(rewritten(d))
    BY DEF StoreOK, RowOK, DecisionRow
  <2>7. \A d \in Rows(next) : RowOK(d)
    BY <2>4, <2>6
  <2>8. sandbox'.policies = sandbox.policies /\ sandbox'.decisions = next
    BY <2>1, <2>2
  <2>9. StoreOK(sandbox)'
    BY <2>1, <2>5, <2>7, <2>8 DEF StoreOK
  <2> QED  BY <1>3, <2>4, <2>8, <2>9
<1>4. CASE c.kind = "simulate"
  <2>1. sandbox' = [policies |-> sandbox.policies, decisions |-> <<row>> \o old,
                    audit |-> sandbox'.audit]
    BY <1>4 DEF SandboxAfter, simulatePaymentFailed, Logged, StoreOK
  <2>2. PICK next : next = <<row>> \o old
    OBVIOUS
  <2>3. next \in Seq(Rows(next)) /\ Rows(next) = Rows(old) \cup {row}
    BY <2>2, PrependRows DEF StoreOK
  <2>4. RowOK(row) /\ \A d \in Rows(old) : RowOK(d)
    BY DEF StoreOK, RowOK, DecisionRow
  <2>5. \A d \in Rows(next) : RowOK(d)
    BY <2>3, <2>4
  <2>6. sandbox'.policies = sandbox.policies /\ sandbox'.decisions = next
    BY <2>1, <2>2
  <2>7. StoreOK(sandbox)'
    BY <2>1, <2>3, <2>5, <2>6 DEF StoreOK
  <2> QED  BY <1>4, <2>3, <2>6, <2>7
<1> QED  BY <1>1, <1>2, <1>3, <1>4 DEF CallKind

-----------------------------------------------------------------------------
\* Loads.

LEMMA SameStores ==
  ASSUME ScreenTruth, UNCHANGED <<engine, sandbox, decisions>>, Len(jobs') = Len(jobs),
         selected' \in Seen(Len(jobs)), session'.types = session.types,
         form' \in {form, "clean"} \cup session.types
  PROVE  StoresTruth'
<1>1. StoresTruth
  BY DEF ScreenTruth
<1>2. StoreOK(engine)' /\ StoreOK(sandbox)' /\ ById(engine)' /\ ById(sandbox)'
  BY <1>1 DEF StoresTruth, StoreOK, ById, Rows, RowOK
<1>3. /\ \A d \in (Rows(engine.decisions) \cup Rows(sandbox.decisions))' : d.id \in Seen(Len(jobs'))
      /\ selected' \in Seen(Len(jobs'))
  BY <1>1 DEF StoresTruth, Rows
<1>4. decisions' \in Seq(Rows(decisions')) /\ form' \in session'.types \cup {"clean"}
  BY <1>1 DEF StoresTruth, Rows
<1> QED  BY <1>2, <1>3, <1>4 DEF StoresTruth, Seen

\* A load that starts and is then the only thing in flight.
LEMMA LoadStarts ==
  ASSUME StoresTruth', NEW sel, NEW slot, boot' = "done",
         \A j \in DOMAIN jobs' : Idle(jobs'[j]), DOMAIN loads' = {slot},
         loads'[slot] = [m |-> current', sel |-> sel, from |-> [r \in Read |-> activeClient'],
                         got |-> <<>>]
  PROVE  ScreenTruth'
<1>1. PICK load : load = [m |-> current', sel |-> sel, from |-> [r \in Read |-> activeClient'], got |-> <<>>]
  OBVIOUS
<1>2. DOMAIN loads' = {slot} /\ loads'[slot] = load
  BY <1>1
<1>3. OneAtATime'
  BY <1>2 DEF OneAtATime, Idle
<1>4. LoadTruth(loads[slot])'
  <2>1. /\ load = [m |-> load.m, sel |-> load.sel, from |-> load.from, got |-> load.got]
        /\ load.m = current' /\ DOMAIN load.got = {}
        /\ load.from["feed"] = activeClient' /\ load.from["policy"] = activeClient'
        /\ load.from = [r \in Read |-> activeClient']
    BY <1>1 DEF Read
  <2>2. load.from \in [Read -> {"http", "sandbox", "spare", "got"}]
    BY <2>1 DEF activeClient
  <2> QED  BY <1>2, <2>1, <2>2 DEF LoadTruth
<1>5. ~Quiet'
  BY <1>2 DEF Quiet
<1> QED  BY <1>2, <1>3, <1>4, <1>5 DEF ScreenTruth, Idle

LEMMA FirstLoad ==
  ASSUME NEW S, S = {}, DOMAIN loads = S, NEW slot, NEW load, loads' = Put(loads, slot, load)
  PROVE  DOMAIN loads' = {slot} /\ loads'[slot] = load
BY DEF Put

LEMMA ListMerchantsScreen == ASSUME RoutedInvariant, ScreenTruth, ListMerchants PROVE ScreenTruth'
<1>1. Quiet
  BY DEF ListMerchants, ScreenTruth, OneAtATime
<1>2. /\ UNCHANGED <<engine, sandbox, decisions, jobs, selected, form, session, mode>> /\ boot' = "done"
      /\ loads' = Put(loads, Slot, NewLoad(current', selected))
  BY DEF ListMerchants, StartLoad, stores, shown
<1>3. StoresTruth'
  BY <1>2, SameStores DEF ScreenTruth, StoresTruth
<1>4. NewLoad(current', selected)
        = [m |-> current', sel |-> selected, from |-> [r \in Read |-> activeClient'], got |-> <<>>]
  BY <1>2 DEF NewLoad, activeClient
<1>5. DOMAIN loads' = {Slot} /\ loads'[Slot] = NewLoad(current', selected)
  BY <1>1, <1>2, FirstLoad DEF Quiet
<1> QED  BY <1>1, <1>2, <1>3, <1>4, <1>5, LoadStarts DEF Quiet, Idle

\* The operator's browsing starts loads, for an operator who waits when nothing is in flight.
LEMMA BrowsingScreen ==
  ASSUME RoutedInvariant, Attended, ScreenTruth,
         \/ \E m \in merchants : SelectMerchant(m)
         \/ \E d \in Ids(decisions) : SelectDecision(d)
         \/ Refresh \/ SwitchMode
  PROVE  ScreenTruth'
<1>1. Quiet /\ boot = "done" /\ FeedShown /\ StoresTruth
  BY DEF SelectMerchant, SelectDecision, Refresh, SwitchMode, OperatorMayAct, Usable, Attended, ScreenTruth
<1>2. /\ UNCHANGED <<engine, sandbox, decisions, jobs, form, session>> /\ boot' = "done"
      /\ selected' \in {selected, None} \cup Ids(decisions)
  BY <1>1 DEF SelectMerchant, SelectDecision, Refresh, SwitchMode, stores, shown, chosen
<1>3. Ids(decisions) \subseteq Seen(Len(jobs)) /\ None \in Seen(Len(jobs)) /\ selected \in Seen(Len(jobs))
  <2>1. \A d \in Rows(decisions) : d \in Rows(engine.decisions) \cup Rows(sandbox.decisions)
    BY <1>1 DEF FeedShown, MerchantRows, HomeStore
  <2>2. \A d \in Rows(decisions) : d.id \in Seen(Len(jobs))
    BY <1>1, <2>1 DEF StoresTruth
  <2> QED  BY <1>1, <2>2 DEF Ids, Rows, StoresTruth, Seen
<1>4. StoresTruth'
  BY <1>1, <1>2, <1>3, SameStores
<1>5. PICK sel : loads' = Put(loads, Slot, [m |-> current', sel |-> sel,
                                          from |-> [r \in Read |-> activeClient'], got |-> <<>>])
  <2>1. CASE SwitchMode
    <3>1. current' = current
      BY <2>1 DEF SwitchMode, chosen
    <3>2. loads' = Put(loads, Slot, [NewLoad(current, selected) EXCEPT
                                       !.from = [r \in Read |-> activeClient']])
      BY <2>1, Zenon DEF SwitchMode, activeClient
    <3>3. [NewLoad(current, selected) EXCEPT !.from = [r \in Read |-> activeClient']]
            = [m |-> current, sel |-> selected, from |-> [r \in Read |-> activeClient'], got |-> <<>>]
      BY DEF NewLoad
    <3> QED  BY <3>1, <3>2, <3>3
  <2>2. CASE \E m \in merchants : SelectMerchant(m)
    BY <2>2 DEF SelectMerchant, StartLoad, NewLoad, activeClient
  <2>3. CASE \E d \in Ids(decisions) : SelectDecision(d)
    BY <2>3 DEF SelectDecision, StartLoad, NewLoad, activeClient
  <2>4. CASE Refresh
    BY <2>4 DEF Refresh, StartLoad, NewLoad, activeClient, chosen
  <2> QED  BY <2>1, <2>2, <2>3, <2>4
<1>6. PICK load : load = [m |-> current', sel |-> sel, from |-> [r \in Read |-> activeClient'], got |-> <<>>]
  OBVIOUS
<1>7. DOMAIN loads' = {Slot} /\ loads'[Slot] = load
  BY <1>1, <1>5, <1>6, FirstLoad DEF Quiet
<1> QED  BY <1>1, <1>2, <1>4, <1>6, <1>7, LoadStarts DEF Quiet, Idle

\* A read's answer is what the store of the mode holds.
LEMMA ReadStepScreen ==
  ASSUME RoutedInvariant, Attended, ScreenTruth, NEW l \in DOMAIN loads, NEW r \in Read, ReadStep(l, r)
  PROVE  ScreenTruth'
<1> DEFINE load == loads[l]
<1>1. /\ UNCHANGED <<engine, sandbox, decisions, jobs, selected, form, session, mode, current, boot, policy>>
      /\ LoadTruth(load) /\ mode \in {"live", "mock"} /\ "lost" \notin session.faults
  BY DEF ReadStep, ScreenTruth, stores, chosen, shown, RoutedInvariant, Attended, Reliable
<1>2. StoresTruth'
  BY <1>1, SameStores DEF ScreenTruth, StoresTruth
<1> DEFINE
  Fits(answer) == /\ r = "feed" => answer = Feed(HomeStore, current)
                  /\ r = "policy" /\ HasRow(HomeStore, current) => answer = HomeStore.policies[current]
  To(src, got) ==
    /\ loads' = [loads EXCEPT ![l].from[r] = src, ![l].got = got]
    /\ src \in {"http", "sandbox", "spare", "got"}
    /\ r = "feed" => src = "got"
    /\ r = "policy" => src = "got" \/ (src = "sandbox" /\ ~HasRow(engine, current))
    /\ got = load.got \/ \E answer : got = Put(load.got, r, answer) /\ Fits(answer)
<1>3. PICK src, got : To(src, got)
  <2> DEFINE from == load.from[r]
  <2>1. /\ load.m = current
        /\ r \in {"feed", "policy"} /\ from = "http" => mode = "live" /\ HomeStore = engine
        /\ r = "feed" /\ from = "sandbox" => HomeStore = sandbox
        /\ r = "policy" /\ from = "sandbox" =>
             HomeStore = sandbox \/ (HomeStore = engine /\ ~HasRow(engine, current))
        /\ r \in {"feed", "policy"} => from # "spare"
    BY <1>1 DEF LoadTruth, activeClient, HomeStore
  <2>2. ASSUME NEW answer, Answered(l, r, answer), Fits(answer)
        PROVE  \E src, got : To(src, got)
    <3>1. loads' = [loads EXCEPT ![l].from[r] = "got", ![l].got = Put(load.got, r, answer)]
      BY <2>2 DEF Answered
    <3>2. To("got", Put(load.got, r, answer))
      BY <2>2, <3>1
    <3> HIDE DEF To
    <3> QED  BY <3>2
  <2>3. CASE from = "http" /\ EngineAnswers(r, load.m) /\ Answered(l, r, EngineRead(r, load.m))
    <3>1. Fits(EngineRead(r, load.m))
      BY <2>1, <2>3 DEF EngineRead, Read
    <3> HIDE DEF To, Fits
    <3> QED  BY <2>2, <2>3, <3>1
  <2>4. CASE /\ from = "http" /\ ~EngineAnswers(r, load.m)
             /\ IF r = "audit" THEN Answered(l, r, {}) ELSE Redirected(l, r, ReadFallback)
    <3>1. r = "policy" /\ ~HasRow(engine, current)
      BY <2>1, <2>4 DEF EngineAnswers
    <3>2. Redirected(l, r, "sandbox")
      BY <2>1, <2>4, <3>1 DEF ReadFallback
    <3>3. loads' = [loads EXCEPT ![l].from[r] = "sandbox", ![l].got = load.got]
      BY <1>1, <3>2 DEF Redirected, LoadTruth
    <3>4. To("sandbox", load.got)
      BY <3>1, <3>3
    <3> HIDE DEF To
    <3> QED  BY <3>4
  <2>5. CASE from = "sandbox" /\ Answered(l, r, SandboxRead(sandbox, r, load.m))
    <3>1. Fits(SandboxRead(sandbox, r, load.m))
      BY <2>1, <2>5 DEF SandboxRead, Read, getPolicyConfig, RowName
    <3> HIDE DEF To, Fits
    <3> QED  BY <2>2, <2>5, <3>1
  <2>6. CASE from = "spare" /\ Answered(l, r, SandboxRead(SandboxAtStart, r, load.m))
    <3>1. Fits(SandboxRead(SandboxAtStart, r, load.m))
      BY <2>1, <2>6
    <3> HIDE DEF To, Fits
    <3> QED  BY <2>2, <2>6, <3>1
  <2> HIDE DEF To
  <2> QED  BY <1>1, <2>3, <2>4, <2>5, <2>6 DEF ReadStep
<1>4. DOMAIN loads' = DOMAIN loads /\ loads'[l] = [load EXCEPT !.from[r] = src, !.got = got]
      /\ \A k \in DOMAIN loads \ {l} : loads'[k] = loads[k]
  BY <1>3
<1>5. LoadTruth(loads[l])'
  <2>1. PICK next : next = [load EXCEPT !.from[r] = src, !.got = got]
    OBVIOUS
  <2>2. /\ next = [m |-> next.m, sel |-> next.sel, from |-> next.from, got |-> next.got]
        /\ next.m = load.m /\ next.got = got /\ next.from = [load.from EXCEPT ![r] = src]
    BY <1>1, <2>1 DEF LoadTruth
  <2>3. /\ next.from \in [Read -> {"http", "sandbox", "spare", "got"}]
        /\ next.from["feed"] \in {activeClient, "got"}
        /\ \/ next.from["policy"] \in {activeClient, "got"}
           \/ next.from["policy"] = "sandbox" /\ ~HasRow(engine, current)
    BY <1>1, <1>3, <2>2 DEF LoadTruth, Read
  <2>4. /\ "feed" \in DOMAIN got => got["feed"] = Feed(HomeStore, current)
        /\ "policy" \in DOMAIN got /\ HasRow(HomeStore, current) =>
             got["policy"] = HomeStore.policies[current]
    <3>1. CASE got = load.got
      BY <1>1, <3>1 DEF LoadTruth
    <3>2. ASSUME NEW answer, got = Put(load.got, r, answer), Fits(answer)
          PROVE  /\ "feed" \in DOMAIN got => got["feed"] = Feed(HomeStore, current)
                 /\ "policy" \in DOMAIN got /\ HasRow(HomeStore, current) =>
                      got["policy"] = HomeStore.policies[current]
      <4>1. /\ DOMAIN got = DOMAIN load.got \cup {r} /\ got[r] = answer
            /\ \A x \in DOMAIN load.got \ {r} : got[x] = load.got[x]
        BY <3>2 DEF Put
      <4> QED  BY <1>1, <3>2, <4>1 DEF LoadTruth
    <3> QED  BY <1>3, <3>1, <3>2
  <2>5. activeClient' = activeClient /\ HomeStore' = HomeStore
    BY <1>1 DEF activeClient, HomeStore
  <2> QED  BY <1>1, <1>4, <2>1, <2>2, <2>3, <2>4, <2>5 DEF LoadTruth, HasRow, Feed
<1> QED  BY <1>1, <1>2, <1>4, <1>5 DEF ScreenTruth, OneAtATime, Quiet, Idle, PolicyShown, FeedShown

\* A load that is done shows what the store holds, or starts another.
LEMMA DeliverScreen ==
  ASSUME RoutedInvariant, Attended, ScreenTruth, NEW l \in DOMAIN loads, Deliver(l)
  PROVE  ScreenTruth'
<1> DEFINE load == loads[l]
           feed == load.got["feed"]
           sel == SelectionAfter(load, feed)
<1>1. /\ UNCHANGED <<engine, sandbox, jobs, session, mode, current, boot>>
      /\ policy' = load.got["policy"] /\ decisions' = feed /\ form' = "clean" /\ selected' = sel
      /\ DOMAIN load.got = Read
      /\ loads' = IF sel # selected THEN [loads EXCEPT ![l] = NewLoad(current, sel)] ELSE Without(loads, l)
  BY DEF Deliver, stores
<1>2. /\ LoadTruth(load) /\ StoresTruth /\ DOMAIN loads = {l} /\ boot = "done"
      /\ \A j \in DOMAIN jobs : Idle(jobs[j])
  BY DEF ScreenTruth, OneAtATime, Quiet
<1>3. /\ feed = Feed(HomeStore, current)
      /\ HasRow(HomeStore, current) => load.got["policy"] = HomeStore.policies[current]
  BY <1>1, <1>2 DEF LoadTruth, Read
<1>4. /\ feed \in Seq(Rows(HomeStore.decisions)) /\ Rows(feed) = MerchantRows(HomeStore, current)
  BY <1>2, <1>3, FeedRows DEF StoresTruth, StoreOK, HomeStore
<1>5. feed \in Seq(Rows(feed)) /\ sel \in Seen(Len(jobs))
  <2>1. feed \in Seq(Rows(feed))
    BY <1>4, OfItself DEF Rows
  <2>2. feed # <<>> => feed[1] \in Rows(HomeStore.decisions)
    BY <1>4
  <2>3. \A d \in Rows(HomeStore.decisions) : d.id \in Seen(Len(jobs))
    BY <1>2 DEF StoresTruth, HomeStore
  <2> QED  BY <1>2, <2>1, <2>2, <2>3 DEF SelectionAfter, StoresTruth
<1>6. StoresTruth'
  <2>1. StoreOK(engine)' /\ StoreOK(sandbox)' /\ ById(engine)' /\ ById(sandbox)'
    BY <1>1, <1>2 DEF StoresTruth, StoreOK, ById, Rows, RowOK
  <2>2. \A d \in (Rows(engine.decisions) \cup Rows(sandbox.decisions))' : d.id \in Seen(Len(jobs'))
    BY <1>1, <1>2 DEF StoresTruth, Rows
  <2>3. selected' \in Seen(Len(jobs')) /\ decisions' \in Seq(Rows(decisions'))
    BY <1>1, <1>5
  <2> QED  BY <1>1, <2>1, <2>2, <2>3 DEF StoresTruth, Seen
<1>7. CASE sel # selected
  <2>1. DOMAIN loads' = {l} /\ loads'[l] = NewLoad(current, sel)
    BY <1>1, <1>2, <1>7
  <2>2. NewLoad(current, sel)
          = [m |-> current', sel |-> sel, from |-> [r \in Read |-> activeClient'], got |-> <<>>]
    BY <1>1 DEF NewLoad, activeClient
  <2> HIDE DEF sel
  <2> QED  BY <1>1, <1>2, <1>6, <2>1, <2>2, LoadStarts DEF Idle
<1>8. CASE sel = selected
  <2>1. DOMAIN loads' = {}
    BY <1>1, <1>2, <1>8 DEF Without
  <2>2. PolicyShown'
    BY <1>1, <1>3 DEF PolicyShown, HomeStore, HasRow
  <2>3. FeedShown'
    <3>1. HomeStore' = HomeStore
      BY <1>1 DEF HomeStore
    <3> QED  BY <1>1, <1>4, <3>1 DEF FeedShown, MerchantRows, Rows
  <2> QED  BY <1>1, <1>2, <1>6, <2>1, <2>2, <2>3 DEF ScreenTruth, OneAtATime, Quiet, Idle
<1> QED  BY <1>7, <1>8

-----------------------------------------------------------------------------
\* The form, the launch and the reload; what a command is issued with.

\* A store starts with one row for each of its decisions.
LEMMA StartsById ==
  ASSUME NEW merchants_, NEW ids, IsFiniteSet(ids), ids \subseteq LiveDecision \cup SandboxDecision
  PROVE  /\ StoreOK(StoreOf(merchants_, ids)) /\ ById(StoreOf(merchants_, ids))
         /\ \A d \in Rows(StoreOf(merchants_, ids).decisions) : \A n \in Nat : d.id \in Seen(n)
<1>1. /\ StoreOK(StoreOf(merchants_, ids))
      /\ Rows(StoreOf(merchants_, ids).decisions) = {Seed(d) : d \in ids}
  BY SeedsListed
<1>2. \A d \in ids : Seed(d).id = d
  BY DEF Seed, DecisionRow
<1> QED  BY <1>1, <1>2 DEF ById, Seen

LEMMA LaunchScreen ==
  ASSUME RoutedInvariant, ScreenTruth, CheckHealth \/ Reload
  PROVE  ScreenTruth'
<1>1. /\ Quiet /\ StoresTruth /\ UNCHANGED <<engine, loads, jobs>> /\ boot' # "done"
      /\ session'.types = session.types
  BY DEF CheckHealth, Reload, ScreenTruth, OneAtATime, RoutedInvariant, SessionType, stores
<1>2. OneAtATime' /\ Quiet'
  BY <1>1 DEF OneAtATime, Quiet, Idle
<1>3. StoresTruth'
  <2>1. CASE CheckHealth
    <3>1. UNCHANGED <<engine, sandbox, decisions, selected, form>>
      BY <2>1 DEF CheckHealth, stores, chosen, shown
    <3> QED  BY <1>1, <3>1, SameStores DEF StoresTruth
  <2>2. CASE Reload
    <3>1. sandbox' = SandboxAtStart /\ selected' = None /\ decisions' = <<>> /\ form' = "clean"
      BY <2>2 DEF Reload
    <3>2. /\ StoreOK(SandboxAtStart) /\ ById(SandboxAtStart)
          /\ \A d \in Rows(SandboxAtStart.decisions) : \A n \in Nat : d.id \in Seen(n)
      BY StartsById, StoresAssumption DEF SandboxAtStart
    <3>3. Len(jobs) \in Nat
      BY DEF RoutedInvariant, JobsOK
    <3>4. StoreOK(sandbox)' /\ ById(sandbox)'
      BY <3>1, <3>2 DEF StoreOK, ById, Rows, RowOK
    <3>5. StoreOK(engine)' /\ ById(engine)'
      BY <1>1 DEF StoresTruth, StoreOK, ById, Rows, RowOK
    <3>6. \A d \in (Rows(engine.decisions) \cup Rows(sandbox.decisions))' : d.id \in Seen(Len(jobs))
      BY <1>1, <3>1, <3>2, <3>3 DEF StoresTruth, Rows
    <3>7. decisions' \in Seq(Rows(decisions'))
      BY <3>1
    <3> QED  BY <1>1, <3>1, <3>4, <3>5, <3>6, <3>7 DEF StoresTruth, Seen
  <2> QED  BY <2>1, <2>2
<1> QED  BY <1>1, <1>2, <1>3 DEF ScreenTruth, Quiet, Idle

LEMMA FormScreen ==
  ASSUME RoutedInvariant, ScreenTruth, Attended,
         DiscardForm \/ \E limits \in session.types : EditForm(limits)
  PROVE  ScreenTruth'
<1>1. /\ Quiet /\ StoresTruth /\ boot = "done" /\ PolicyShown /\ FeedShown
      /\ UNCHANGED <<engine, sandbox, loads, jobs, decisions, policy, selected, current, mode, boot, session>>
      /\ form' \in {"clean"} \cup session.types
  BY DEF DiscardForm, EditForm, OperatorMayAct, Usable, Attended, ScreenTruth, stores, chosen, shown
<1>2. OneAtATime' /\ Quiet' /\ PolicyShown' /\ FeedShown'
  BY <1>1 DEF ScreenTruth, OneAtATime, Quiet, Idle, PolicyShown, FeedShown, HomeStore, HasRow, MerchantRows,
     Rows
<1>3. StoresTruth'
  BY <1>1, SameStores DEF StoresTruth
<1> QED  BY <1>1, <1>2, <1>3 DEF ScreenTruth, Quiet, Idle

\* A simulated failure's decision is new to the console and to both stores.
LEMMA PaymentIsNew ==
  ASSUME RoutedInvariant, NEW n, n = Len(jobs) + 1, n <= MaxCommands
  PROVE  payment(n) \notin Seen(Len(jobs)) /\ Seen(Len(jobs)) \subseteq Seen(n)
<1>1. Len(jobs) \in Nat /\ n \in 1..MaxCommands
  BY ConsoleAssumption DEF RoutedInvariant, JobsOK
<1>2. payment(n) \notin LiveDecision \cup SandboxDecision \cup {None}
  BY <1>1, ConsoleAssumption
<1>3. \A k \in 1..Len(jobs) : payment(k) # payment(n)
  BY <1>1 DEF payment
<1>4. 1..Len(jobs) \subseteq 1..n
  BY <1>1
<1> QED  BY <1>2, <1>3, <1>4 DEF Seen

LEMMA Issued ==
  ASSUME RoutedInvariant, ScreenTruth, Quiet, boot = "done", NEW job, jobs' = Append(jobs, job),
         UNCHANGED <<engine, sandbox, loads, decisions, policy, selected, current, mode, boot, session, form>>,
         NEW n, n = Len(jobs) + 1, n <= MaxCommands,
         \/ Idle(job)
         \/ /\ job.m = current /\ job.at = activeClient /\ job.kind \in CallKind
            /\ job.kind = "save" => job.arg # "over"
            /\ job.kind = "simulate" => job.arg = payment(n)
  PROVE  ScreenTruth'
<1>1. /\ StoresTruth /\ PolicyShown /\ FeedShown /\ DOMAIN loads = {}
      /\ \A j \in DOMAIN jobs : Idle(jobs[j])
  BY DEF ScreenTruth, Quiet, Idle
<1>2. PICK next : next = jobs'
  OBVIOUS
<1>3. /\ Len(jobs) \in Nat /\ DOMAIN jobs = 1..Len(jobs) /\ Len(next) = n /\ DOMAIN next = 1..n
      /\ next[n] = job /\ \A j \in DOMAIN jobs : next[j] = jobs[j]
  BY <1>2 DEF RoutedInvariant, JobsOK
<1>4. \A j \in DOMAIN next : ~Idle(next[j]) => j = n
  BY <1>1, <1>3
<1>5. OneAtATime'
  BY <1>1, <1>2, <1>4 DEF OneAtATime, Idle
<1>6. payment(n) \notin Seen(Len(jobs)) /\ Seen(Len(jobs)) \subseteq Seen(n)
  BY PaymentIsNew
<1>7. StoresTruth'
  <2>1. StoreOK(engine)' /\ StoreOK(sandbox)' /\ ById(engine)' /\ ById(sandbox)'
    BY <1>1 DEF StoresTruth, StoreOK, ById, Rows, RowOK
  <2>2. \A d \in (Rows(engine.decisions) \cup Rows(sandbox.decisions))' : d.id \in Seen(n)
    BY <1>1, <1>6 DEF StoresTruth, Rows
  <2>3. selected' \in Seen(n) /\ decisions' \in Seq(Rows(decisions')) /\ form' \in session'.types \cup {"clean"}
    BY <1>1, <1>6 DEF StoresTruth, Rows
  <2> QED  BY <1>2, <1>3, <2>1, <2>2, <2>3 DEF StoresTruth, Seen
<1>8. PolicyShown' /\ FeedShown'
  BY <1>1 DEF PolicyShown, FeedShown, HomeStore, HasRow, MerchantRows, Rows
<1>9. CASE Idle(job)
  <2>1. \A j \in DOMAIN next : Idle(next[j])
    BY <1>3, <1>4, <1>9
  <2> QED  BY <1>1, <1>2, <1>5, <1>7, <1>8, <2>1 DEF ScreenTruth, Idle
<1>10. CASE /\ ~Idle(job) /\ job.m = current /\ job.at = activeClient /\ job.kind \in CallKind
            /\ job.kind = "save" => job.arg # "over"
            /\ job.kind = "simulate" => job.arg = payment(n)
  <2>1. selected # payment(n) /\ payment(n) \notin Ids(engine.decisions) /\ payment(n) \notin Ids(sandbox.decisions)
    BY <1>1, <1>6 DEF StoresTruth, Ids, Rows
  <2>2. job.at = IF mode = "live" THEN "http" ELSE "sandbox"
    BY <1>10 DEF activeClient
  <2>3. jobs'[n] = job /\ current' = current /\ mode' = mode /\ selected' = selected
        /\ engine' = engine /\ sandbox' = sandbox
    BY <1>2, <1>3
  <2>4. JobTruth(n)'
    BY <1>8, <1>10, <2>1, <2>2, <2>3 DEF JobTruth, Ids
  <2>5. ~Quiet'
    BY <1>2, <1>3, <1>10 DEF Quiet, Idle
  <2> QED  BY <1>1, <1>2, <1>4, <1>5, <1>7, <2>4, <2>5 DEF ScreenTruth, Idle
<1> QED  BY <1>9, <1>10

LEMMA IssueScreen ==
  ASSUME RoutedInvariant, ScreenTruth, Attended, Toggle \/ SavePolicy \/ Override \/ Simulate
  PROVE  ScreenTruth'
<1>1. /\ Quiet /\ boot = "done" /\ StoresTruth /\ Len(jobs) < session.commands
      /\ UNCHANGED <<engine, sandbox, loads, decisions, policy, selected, current, mode, boot, session, form>>
  BY DEF Toggle, SavePolicy, Override, Simulate, MayIssue, OperatorMayAct, Usable, Attended, ScreenTruth, Issue,
     stores, chosen, shown
<1>2. PICK n : n = Len(jobs) + 1
  OBVIOUS
<1>3. n <= MaxCommands
  <2>1. Len(jobs) \in Nat /\ session.commands \in 0..MaxCommands /\ MaxCommands \in Nat
    BY ConsoleAssumption DEF RoutedInvariant, JobsOK, SessionType
  <2> QED  BY <1>1, <1>2, <2>1
<1>4. \E job : /\ jobs' = Append(jobs, job)
               /\ \/ Idle(job)
                  \/ /\ job.m = current /\ job.at = activeClient /\ job.kind \in CallKind
                     /\ job.kind = "save" => job.arg # "over"
                     /\ job.kind = "simulate" => job.arg = payment(n)
  <2>1. CASE Toggle
    <3>1. PICK arg, saw : jobs' = Append(jobs, Job("toggle", arg, saw))
      BY <2>1 DEF Toggle, Issue
    <3> QED  BY <3>1 DEF Job, CallKind
  <2>2. CASE SavePolicy
    <3>1. jobs' = Append(jobs, Job("save", form, policy.of)) /\ form # "over"
      BY <1>1, <2>2 DEF SavePolicy, Issue, StoresTruth, Attended
    <3> QED  BY <3>1 DEF Job, CallKind
  <2>3. CASE Override
    <3>1. PICK saw : jobs' = Append(jobs, Job("override", selected, saw))
                  \/ jobs' = Append(jobs, [Job("override", selected, saw) EXCEPT !.at = "ok"])
      BY <2>3 DEF Override, Issue
    <3>2. [Job("override", selected, saw) EXCEPT !.at = "ok"].at = "ok"
      BY DEF Job
    <3> QED  BY <3>1, <3>2 DEF Job, CallKind, Idle, Settled
  <2>4. CASE Simulate
    <3>1. jobs' = Append(jobs, Job("simulate", payment(n), None))
      BY <1>2, <2>4 DEF Simulate, Issue
    <3> QED  BY <3>1 DEF Job, CallKind
  <2> QED  BY <2>1, <2>2, <2>3, <2>4
<1> QED  BY <1>1, <1>2, <1>3, <1>4, Issued

-----------------------------------------------------------------------------
\* Commands.  One in flight is alone, and moves on.

LEMMA InFlight ==
  ASSUME RoutedInvariant, ScreenTruth, NEW j \in DOMAIN jobs, ~Idle(jobs[j])
  PROVE  /\ JobTruth(j) /\ StoresTruth /\ boot = "done" /\ DOMAIN loads = {}
         /\ \A i \in DOMAIN jobs \ {j} : Idle(jobs[i])
         /\ JobsOK /\ JobOK(jobs[j]) /\ payment(j) \in Seen(Len(jobs))
<1>1. boot = "done" /\ DOMAIN loads = {}
  BY DEF ScreenTruth, OneAtATime, Quiet, Idle
<1>2. \A i \in DOMAIN jobs \ {j} : Idle(jobs[i])
  BY DEF ScreenTruth, OneAtATime
<1>3. JobsOK /\ JobOK(jobs[j]) /\ j \in 1..Len(jobs)
  BY DEF RoutedInvariant, JobsOK
<1> QED  BY <1>1, <1>2, <1>3 DEF ScreenTruth, Seen

LEMMA MovedCall ==
  ASSUME JobsOK, NEW j \in DOMAIN jobs, NEW wrote, NEW at, Moves(j, wrote, at)
  PROVE  Len(jobs') = Len(jobs) /\ Call(j)' = Call(j)
<1>1. PICK next : next = jobs'
  OBVIOUS
<1>2. DOMAIN next = DOMAIN jobs /\ next \in Seq({next[i] : i \in DOMAIN next})
  BY <1>1 DEF Moves
<1>3. Len(next) = Len(jobs)
  BY <1>2 DEF JobsOK
<1>4. Call(j)' = Call(j)
  BY DEF Moves, Call
<1> QED  BY <1>1, <1>3, <1>4

LEMMA JobMoved ==
  ASSUME RoutedInvariant, ScreenTruth, NEW j \in DOMAIN jobs, ~Idle(jobs[j]),
         NEW wrote, NEW at, Moves(j, wrote, at), UNCHANGED <<loads, boot>>, StoresTruth',
         at \in Settled => PolicyShown' /\ FeedShown',
         at \notin Settled => JobTruth(j)'
  PROVE  ScreenTruth'
<1>1. /\ boot = "done" /\ DOMAIN loads = {} /\ \A i \in DOMAIN jobs \ {j} : Idle(jobs[i])
  BY InFlight
<1>2. /\ DOMAIN jobs' = DOMAIN jobs /\ jobs'[j].at = at
      /\ \A i \in DOMAIN jobs \ {j} : jobs'[i] = jobs[i]
  BY DEF Moves
<1>3. \A i \in DOMAIN jobs' : ~Idle(jobs'[i]) => i = j
  BY <1>1, <1>2
<1>4. OneAtATime'
  BY <1>1, <1>3 DEF OneAtATime, Idle
<1>5. \A i \in DOMAIN jobs' : ~Idle(jobs'[i]) => JobTruth(i)'
  BY <1>2, <1>3 DEF Idle
<1>6. Quiet' => PolicyShown' /\ FeedShown'
  BY <1>2 DEF Quiet
<1> QED  BY <1>1, <1>4, <1>5, <1>6 DEF ScreenTruth, Idle

\* A command that changes no store keeps what is known of the stores.
LEMMA JobSameStores ==
  ASSUME RoutedInvariant, ScreenTruth, NEW j \in DOMAIN jobs, NEW wrote, NEW at, Moves(j, wrote, at),
         UNCHANGED <<engine, sandbox, session>>, selected' \in Seen(Len(jobs)),
         form' \in {form, "clean"}, decisions' \in Seq(Rows(decisions'))
  PROVE  StoresTruth'
<1>1. StoresTruth /\ Len(jobs') = Len(jobs)
  BY MovedCall DEF ScreenTruth, RoutedInvariant
<1>2. StoreOK(engine)' /\ StoreOK(sandbox)' /\ ById(engine)' /\ ById(sandbox)'
  BY <1>1 DEF StoresTruth, StoreOK, ById, Rows, RowOK
<1>3. \A d \in (Rows(engine.decisions) \cup Rows(sandbox.decisions))' : d.id \in Seen(Len(jobs'))
  BY <1>1 DEF StoresTruth, Rows
<1> QED  BY <1>1, <1>2, <1>3 DEF StoresTruth, Seen

\* Nothing the operator sees changes: the home store is the same and so is the screen.
LEMMA StillShown ==
  ASSUME UNCHANGED <<mode, current, policy, decisions>>,
         HomeStore'.decisions = HomeStore.decisions
  PROVE  /\ FeedShown => FeedShown'
         /\ PolicyShown /\ HomeStore'.policies = HomeStore.policies => PolicyShown'
<1>1. PICK home : home = HomeStore'
  OBVIOUS
<1>2. home.decisions = HomeStore.decisions
  BY <1>1
<1>3. FeedShown => FeedShown'
  BY <1>1, <1>2 DEF FeedShown, MerchantRows, Rows
<1>4. PolicyShown /\ HomeStore'.policies = HomeStore.policies => PolicyShown'
  BY <1>1, <1>2 DEF PolicyShown, HasRow
<1> QED  BY <1>3, <1>4

LEMMA RefuseScreen ==
  ASSUME RoutedInvariant, ScreenTruth, Attended, NEW j \in DOMAIN jobs, Refuse(j)
  PROVE  ScreenTruth'
<1>1. /\ jobs[j].at = "http" /\ ~Idle(jobs[j]) /\ ~Accepts(engine, Call(j))
      /\ UNCHANGED <<engine, sandbox, mode, boot, current, selected, decisions, policy, form, loads, session>>
  BY DEF Refuse, Idle, Settled, Attended, Reliable, stores, chosen, shown
<1>2. JobTruth(j) /\ StoresTruth /\ JobsOK
  BY <1>1, InFlight
<1>3. Moves(j, jobs[j].wrote, "sandbox")
  BY <1>2, AdvanceMoves DEF Refuse
<1>4. StoresTruth'
  BY <1>1, <1>2, <1>3, JobSameStores DEF StoresTruth
<1>5. FeedShown' /\ PolicyShown'
  BY <1>1, <1>2, StillShown DEF JobTruth, HomeStore
<1>6. /\ jobs'[j].at = "sandbox" /\ jobs'[j].m = jobs[j].m /\ jobs'[j].kind = jobs[j].kind
      /\ jobs'[j].arg = jobs[j].arg /\ Call(j)' = Call(j)
  BY <1>2, <1>3, MovedCall DEF Moves
<1>7. /\ jobs[j].kind \in {"toggle", "save"} => ~HasRow(engine, current)
      /\ jobs[j].kind = "override" => ~Owns(engine, Call(j))
  BY <1>1, <1>2 DEF Accepts, AcceptsToggle, AcceptsSave, Call, JobTruth
<1>8. JobTruth(j)'
  BY <1>1, <1>2, <1>5, <1>6, <1>7 DEF JobTruth, Owns, HasRow, Ids
<1> QED  BY <1>1, <1>3, <1>4, <1>8, JobMoved DEF Settled

LEMMA MockErrorScreen ==
  ASSUME RoutedInvariant, ScreenTruth, NEW j \in DOMAIN jobs, MockError(j)
  PROVE  ScreenTruth'
<1>1. /\ jobs[j].at = "sandbox" /\ ~Idle(jobs[j])
      /\ UNCHANGED <<engine, sandbox, mode, boot, current, selected, decisions, policy, form, loads, session>>
  BY DEF MockError, Idle, Settled, stores, chosen, shown
<1>2. JobTruth(j) /\ StoresTruth /\ JobsOK
  BY <1>1, InFlight
<1>3. Moves(j, jobs[j].wrote, "error")
  BY <1>2, AdvanceMoves DEF MockError
<1>4. StoresTruth'
  BY <1>1, <1>2, <1>3, JobSameStores DEF StoresTruth
<1>5. FeedShown' /\ PolicyShown'
  BY <1>1, <1>2, StillShown DEF JobTruth, HomeStore
<1> QED  BY <1>1, <1>3, <1>4, <1>5, JobMoved DEF Settled

\* The feed is empty, so nothing of the merchant is stored, and nothing is shown.
LEMMA UnconfirmedScreen ==
  ASSUME RoutedInvariant, ScreenTruth, Attended, NEW j \in DOMAIN jobs, Unconfirmed(j)
  PROVE  ScreenTruth'
<1>1. /\ jobs[j].at = "confirm" /\ ~Idle(jobs[j])
      /\ jobs[j].kind = "simulate" /\ Feed(engine, jobs[j].m) = <<>>
      /\ UNCHANGED <<engine, sandbox, mode, boot, current, selected, decisions, policy, form, loads, session>>
  BY DEF Unconfirmed, Idle, Settled, Attended, Reliable, stores, chosen, shown
<1>2. JobTruth(j) /\ StoresTruth /\ JobsOK
  BY <1>1, InFlight
<1>3. Moves(j, jobs[j].wrote, "sandbox")
  BY <1>2, AdvanceMoves DEF Unconfirmed
<1>4. StoresTruth'
  BY <1>1, <1>2, <1>3, JobSameStores DEF StoresTruth
<1>5. MerchantRows(engine, current) = {}
  <2>1. Rows(Feed(engine, current)) = MerchantRows(engine, current)
    BY <1>2, FeedRows DEF StoresTruth, StoreOK
  <2>2. Feed(engine, current) = <<>>
    BY <1>1, <1>2 DEF JobTruth
  <2>3. Rows(<<>>) = {}
    BY DEF Rows
  <2> QED  BY <2>1, <2>2, <2>3
<1>6. mode = "live" /\ PolicyShown /\ FeedShown
  <2>1. /\ mode = "live" /\ PolicyShown
        /\ MerchantRows(engine, current)
             = Rows(decisions) \cup {d \in Rows(engine.decisions) : d.id = payment(j)}
    BY <1>1, <1>2 DEF JobTruth
  <2> QED  BY <1>5, <2>1 DEF FeedShown, HomeStore
<1>7. FeedShown' /\ PolicyShown'
  BY <1>1, <1>6, StillShown DEF HomeStore
<1>8. /\ jobs'[j].at = "sandbox" /\ jobs'[j].m = jobs[j].m /\ jobs'[j].kind = jobs[j].kind
      /\ jobs'[j].arg = jobs[j].arg
  BY <1>3 DEF Moves
<1>9. JobTruth(j)'
  BY <1>1, <1>2, <1>6, <1>7, <1>8 DEF JobTruth, Ids
<1> QED  BY <1>1, <1>3, <1>4, <1>9, JobMoved DEF Settled

\* A new decision's row is the only one with its id.
LEMMA NewRow ==
  ASSUME NEW old, NEW new, NEW row, Rows(new.decisions) = Rows(old.decisions) \cup {row},
         ById(old), row.id \notin Ids(old.decisions)
  PROVE  ById(new) /\ {d \in Rows(new.decisions) : d.id = row.id} = {row}
<1>1. \A d \in Rows(old.decisions) : d.id # row.id
  BY DEF Ids, Rows
<1> QED  BY <1>1 DEF ById

LEMMA ServeScreen ==
  ASSUME RoutedInvariant, ScreenTruth, NEW j \in DOMAIN jobs, Serve(j)
  PROVE  ScreenTruth'
<1> DEFINE c == Call(j)
           row == DecisionRow(c.arg, c.m, "ranked")
<1>1. /\ jobs[j].at = "http" /\ ~Idle(jobs[j]) /\ Accepts(engine, c) /\ engine' \in EngineAfter(engine, c)
      /\ UNCHANGED <<sandbox, mode, boot, current, selected, decisions, policy, form, loads, session>>
  BY DEF Serve, Idle, Settled, chosen, shown
<1>2. JobTruth(j) /\ StoresTruth /\ JobsOK /\ payment(j) \in Seen(Len(jobs))
  BY <1>1, InFlight
<1>3. Moves(j, jobs[j].wrote \cup {"engine"}, AfterWrite(j))
  BY <1>2, WroteMoves DEF Serve
<1>4. mode = "live" /\ FeedShown /\ PolicyShown /\ jobs[j].m = current /\ c.kind = jobs[j].kind
      /\ c.m = current /\ c.arg = jobs[j].arg /\ c.kind \in CallKind
  BY <1>1, <1>2 DEF JobTruth, Call
<1>5. HomeStore = engine /\ HomeStore' = engine'
  BY <1>1, <1>4 DEF HomeStore
<1>6. /\ StoreOK(engine)' /\ DOMAIN engine'.policies = DOMAIN engine.policies
      /\ c.kind \in {"override", "simulate"} => engine'.policies = engine.policies
      /\ c.kind # "simulate" => engine'.decisions = engine.decisions
      /\ \/ engine'.decisions = engine.decisions
         \/ Rows(engine'.decisions) = Rows(engine.decisions) \cup {row}
  BY <1>1, <1>2, EngineServes DEF StoresTruth
<1>7. row.id = c.arg /\ row.merchant = current
  BY <1>4 DEF DecisionRow
<1>8. c.kind = "simulate" => c.arg = payment(j) /\ payment(j) \notin Ids(engine.decisions)
  BY <1>1, <1>2, <1>4 DEF JobTruth
<1> HIDE DEF c, row
<1>9. PICK next : next = engine'
  OBVIOUS
<1>10. /\ ById(next)
       /\ \A d \in Rows(next.decisions) : d.id \in Seen(Len(jobs))
       /\ c.kind = "simulate" =>
            MerchantRows(next, current)
              = MerchantRows(engine, current) \cup {d \in Rows(next.decisions) : d.id = payment(j)}
  <2>1. CASE next.decisions = engine.decisions
    <3>1. \A d \in Rows(next.decisions) : d.id \in Ids(engine.decisions)
      BY <2>1 DEF Rows, Ids
    <3> QED  BY <1>2, <1>8, <2>1, <3>1 DEF StoresTruth, ById, MerchantRows, Rows
  <2>2. CASE c.kind = "simulate" /\ Rows(next.decisions) = Rows(engine.decisions) \cup {row}
    <3>1. ById(next) /\ {d \in Rows(next.decisions) : d.id = payment(j)} = {row}
      BY <1>2, <1>7, <1>8, <2>2, NewRow DEF StoresTruth
    <3> QED  BY <1>2, <1>7, <1>8, <2>2, <3>1 DEF StoresTruth, MerchantRows
  <2> QED  BY <1>6, <1>9, <2>1, <2>2
<1>11. StoresTruth'
  <2>1. ById(engine)'
    BY <1>9, <1>10 DEF ById, Rows
  <2>2. StoreOK(sandbox)' /\ ById(sandbox)'
    BY <1>1, <1>2 DEF StoresTruth, StoreOK, ById, Rows, RowOK
  <2>3. \A d \in (Rows(engine.decisions) \cup Rows(sandbox.decisions))' : d.id \in Seen(Len(jobs))
    BY <1>1, <1>2, <1>9, <1>10 DEF StoresTruth, Rows
  <2>4. Len(jobs') = Len(jobs)
    BY <1>2, <1>3, MovedCall
  <2> QED  BY <1>1, <1>2, <1>6, <2>1, <2>2, <2>3, <2>4 DEF StoresTruth, Seen, Rows
<1>12. /\ c.kind # "simulate" => FeedShown'
       /\ c.kind \in {"override", "simulate"} => PolicyShown'
  <2>1. c.kind # "simulate" => FeedShown'
    BY <1>1, <1>4, <1>5, <1>6, StillShown
  <2>2. c.kind \in {"override", "simulate"} => PolicyShown'
    BY <1>1, <1>4, <1>5, <1>6 DEF PolicyShown, HasRow
  <2> QED  BY <2>1, <2>2
<1>13. c.kind = "override" => Owns(engine', c)
  BY <1>1, <1>6 DEF Accepts, Owns
<1>14. c.kind = "simulate" =>
         MerchantRows(engine', current)
           = Rows(decisions) \cup {d \in Rows(engine'.decisions) : d.id = payment(j)}
  BY <1>4, <1>5, <1>9, <1>10 DEF FeedShown
<1>15. /\ jobs'[j].at = AfterWrite(j) /\ jobs'[j].m = jobs[j].m /\ jobs'[j].kind = jobs[j].kind
       /\ jobs'[j].arg = jobs[j].arg /\ Call(j)' = c
       /\ AfterWrite(j) = IF c.kind = "toggle" THEN "http policy" ELSE "confirm"
  BY <1>2, <1>3, <1>4, MovedCall DEF Moves, AfterWrite, PolicyRead, c
<1>16. c.kind = "simulate" => selected # payment(j) /\ payment(j) \notin Ids(sandbox.decisions)
  BY <1>1, <1>2, <1>4 DEF JobTruth
<1>17. jobs[j].kind = "save" => jobs[j].arg # "over"
  BY <1>2 DEF JobTruth
<1>18. (mode = "live")' /\ (jobs[j].m = current)' /\ (selected' = selected) /\ sandbox' = sandbox
  BY <1>1, <1>4, <1>15
<1>19. Rows(decisions') = Rows(decisions) /\ current' = current
  BY <1>1
<1>20. JobTruth(j)'
  <2>1. CASE c.kind = "toggle"
    BY <1>4, <1>12, <1>15, <1>18, <2>1 DEF JobTruth
  <2>2. CASE c.kind = "save"
    BY <1>4, <1>12, <1>15, <1>17, <1>18, <2>2 DEF JobTruth
  <2>3. CASE c.kind = "override"
    <3>1. Owns(engine', Call(j)')
      BY <1>13, <1>15, <2>3
    <3> QED  BY <1>4, <1>12, <1>15, <1>18, <2>3, <3>1 DEF JobTruth, Owns
  <2>4. CASE c.kind = "simulate"
    <3>1. MerchantRows(engine, current)'
            = Rows(decisions') \cup {d \in Rows(engine'.decisions) : d.id = payment(j)}
      BY <1>14, <1>19, <2>4 DEF MerchantRows, Rows
    <3>2. selected' # payment(j) /\ payment(j) \notin Ids(sandbox'.decisions)
      BY <1>16, <1>18, <2>4
    <3> QED  BY <1>4, <1>8, <1>12, <1>15, <1>18, <2>4, <3>1, <3>2 DEF JobTruth, Ids, MerchantRows, Rows
  <2> QED  BY <1>4, <2>1, <2>2, <2>3, <2>4 DEF CallKind
<1>21. AfterWrite(j) \notin Settled
  BY <1>15 DEF Settled
<1> QED  BY <1>1, <1>3, <1>11, <1>20, <1>21, JobMoved

\* The toggle's re-read shows the home store's policy, or is sent to the sandbox when
\* the engine has none.
LEMMA RereadPolicyScreen ==
  ASSUME RoutedInvariant, ScreenTruth, Attended, NEW j \in DOMAIN jobs, RereadPolicy(j)
  PROVE  ScreenTruth'
<1>1. /\ jobs[j].at \in {"http policy", "sandbox policy"} /\ ~Idle(jobs[j])
      /\ UNCHANGED <<engine, sandbox, mode, boot, current, selected, decisions, loads, session>>
      /\ form' \in {form, "clean"}
  BY DEF RereadPolicy, ShowPolicy, Idle, Settled, stores, chosen, shown
<1>2. JobTruth(j) /\ StoresTruth /\ JobsOK
  BY <1>1, InFlight
<1>3. jobs[j].kind = "toggle" /\ FeedShown /\ jobs[j].m = current
  BY <1>1, <1>2 DEF JobTruth
<1>4. ASSUME NEW at, Advance(j, at) PROVE StoresTruth' /\ Moves(j, jobs[j].wrote, at)
  <2>1. Moves(j, jobs[j].wrote, at)
    BY <1>2, <1>4, AdvanceMoves
  <2> QED  BY <1>1, <1>2, <2>1, JobSameStores DEF StoresTruth
<1>5. FeedShown' /\ HomeStore' = HomeStore
  <2>1. HomeStore' = HomeStore
    BY <1>1 DEF HomeStore
  <2>2. FeedShown'
    <3>1. decisions' = decisions /\ current' = current
      BY <1>1
    <3>2. Rows(decisions) = MerchantRows(HomeStore, current)
      BY <1>3 DEF FeedShown
    <3> QED  BY <2>1, <3>1, <3>2, Zenon DEF FeedShown, MerchantRows, Rows
  <2> QED  BY <2>1, <2>2
<1>6. CASE Advance(j, AuditRead) /\ PolicyShown'
  <2>1. /\ jobs'[j].at = AuditRead /\ jobs'[j].m = jobs[j].m /\ jobs'[j].kind = jobs[j].kind
        /\ jobs'[j].arg = jobs[j].arg
    BY <1>4, <1>6 DEF Moves
  <2>2. mode \in {"live", "mock"}
    BY DEF RoutedInvariant
  <2>3. JobTruth(j)'
    BY <1>1, <1>3, <1>5, <1>6, <2>1, <2>2 DEF JobTruth, AuditRead, CallKind
  <2>4. AuditRead \notin Settled
    BY DEF AuditRead, Settled
  <2> QED  BY <1>1, <1>4, <1>6, <2>3, <2>4, JobMoved
<1>7. CASE jobs[j].at = "http policy" /\ ~HasRow(engine, current)
           /\ Advance(j, IF mode = "live" THEN "sandbox policy" ELSE "error")
  <2>1. mode = "live"
    BY <1>2, <1>7 DEF JobTruth
  <2>2. Advance(j, "sandbox policy")
    BY <1>7, <2>1
  <2>3. /\ jobs'[j].at = "sandbox policy" /\ jobs'[j].m = jobs[j].m /\ jobs'[j].kind = jobs[j].kind
        /\ jobs'[j].arg = jobs[j].arg
    BY <1>4, <2>2 DEF Moves
  <2>4. JobTruth(j)'
    BY <1>1, <1>3, <1>5, <1>7, <2>1, <2>3 DEF JobTruth, HasRow, CallKind
  <2> QED  BY <1>1, <1>4, <2>2, <2>4, JobMoved DEF Settled
<1>8. jobs[j].at = "http policy" => HomeStore = engine
  BY <1>2 DEF JobTruth, HomeStore
<1>9. jobs[j].at = "sandbox policy" => HomeStore = sandbox \/ ~HasRow(HomeStore, current)
  BY <1>2 DEF JobTruth, HomeStore
<1>10. ASSUME policy' = engine.policies[current], jobs[j].at = "http policy" PROVE PolicyShown'
  BY <1>1, <1>5, <1>8, <1>10 DEF PolicyShown
<1>11. ASSUME policy' = getPolicyConfig(sandbox, current), jobs[j].at = "sandbox policy" PROVE PolicyShown'
  <2>1. PICK home : home = HomeStore
    OBVIOUS
  <2>2. HasRow(home, current) => policy' = home.policies[current]
    BY <1>9, <1>11, <2>1 DEF getPolicyConfig, RowName
  <2> QED  BY <1>1, <1>5, <2>1, <2>2 DEF PolicyShown, HasRow
<1> QED  BY <1>3, <1>6, <1>7, <1>10, <1>11 DEF RereadPolicy, ShowPolicy, Attended, Reliable

\* The end of a command: it settles, and a simulated failure's decision is selected,
\* which loads the merchant again.
LEMMA FinishScreen ==
  ASSUME RoutedInvariant, ScreenTruth, NEW j \in DOMAIN jobs, Finish(j)
  PROVE  ScreenTruth'
<1>1. /\ jobs[j].at \in {"http audit", "sandbox audit"} /\ ~Idle(jobs[j])
      /\ UNCHANGED <<engine, sandbox, mode, boot, current, decisions, policy, session>>
      /\ form' \in {form, "clean"}
  BY DEF Finish, Idle, Settled, stores
<1>2. /\ JobTruth(j) /\ StoresTruth /\ JobsOK /\ boot = "done" /\ DOMAIN loads = {}
      /\ \A i \in DOMAIN jobs \ {j} : Idle(jobs[i])
  BY <1>1, InFlight
<1>3. Moves(j, jobs[j].wrote, "ok")
  BY <1>2, AdvanceMoves DEF Finish
<1>4. /\ PolicyShown /\ (FeedShown \/ (jobs[j].kind = "simulate" /\ jobs[j].made # selected))
      /\ jobs[j].kind = "simulate" => jobs[j].made \in Seen(Len(jobs))
  BY <1>1, <1>2 DEF JobTruth
<1>5. selected' \in Seen(Len(jobs))
  BY <1>2, <1>4 DEF Finish, StoresTruth
<1>6. StoresTruth'
  BY <1>1, <1>2, <1>3, <1>5, JobSameStores DEF StoresTruth
<1>7. CASE jobs[j].kind = "simulate" /\ jobs[j].made # selected
  <2>1. PICK load : load = NewLoad(current, jobs[j].made)
    OBVIOUS
  <2>2. loads' = Put(loads, Slot, load)
    BY <1>7, <2>1 DEF Finish, StartLoad
  <2>3. DOMAIN loads' = {Slot} /\ loads'[Slot] = load
    BY <1>2, <2>2, FirstLoad
  <2>4. load = [m |-> current', sel |-> jobs[j].made, from |-> [r \in Read |-> activeClient'], got |-> <<>>]
    BY <1>1, <2>1 DEF NewLoad, activeClient
  <2>5. \A i \in DOMAIN jobs' : Idle(jobs'[i])
    BY <1>2, <1>3 DEF Moves, Idle, Settled
  <2> QED  BY <1>1, <1>2, <1>6, <2>3, <2>4, <2>5, LoadStarts DEF Idle
<1>8. CASE ~(jobs[j].kind = "simulate" /\ jobs[j].made # selected)
  <2>1. UNCHANGED loads
    BY <1>8 DEF Finish
  <2>2. FeedShown' /\ PolicyShown'
    BY <1>1, <1>4, <1>8, StillShown DEF HomeStore
  <2> QED  BY <1>1, <1>3, <1>6, <2>1, <2>2, JobMoved DEF Settled
<1> QED  BY <1>7, <1>8

\* Showing a row where its id is shown.
LEMMA ShownRows ==
  ASSUME NEW row, ShowDecision(row), decisions \in Seq(Rows(decisions))
  PROVE  /\ decisions' \in Seq(Rows(decisions'))
         /\ Rows(decisions') = {IF d.id = row.id THEN row ELSE d : d \in Rows(decisions)}
<1>1. PICK next : next = decisions'
  OBVIOUS
<1>2. /\ Len(decisions) \in Nat /\ DOMAIN decisions = 1..Len(decisions)
      /\ next = [i \in 1..Len(decisions) |-> IF decisions[i].id = row.id THEN row ELSE decisions[i]]
  BY <1>1 DEF ShowDecision
<1>3. Rows(next) = {IF d.id = row.id THEN row ELSE d : d \in Rows(decisions)}
  BY <1>2 DEF Rows
<1>4. next \in Seq(Rows(next))
  BY <1>2 DEF Rows
<1> QED  BY <1>1, <1>3, <1>4

\* A command that has only the audit log left to re-read.
LEMMA Audited ==
  ASSUME RoutedInvariant, ScreenTruth, NEW j \in DOMAIN jobs, ~Idle(jobs[j]),
         NEW wrote, Moves(j, wrote, AuditRead), UNCHANGED <<loads, boot, mode, current>>,
         StoresTruth', PolicyShown',
         FeedShown' \/ (jobs[j].kind = "simulate" /\ jobs'[j].made # selected'),
         jobs[j].kind = "simulate" => jobs'[j].made \in Seen(Len(jobs))
  PROVE  ScreenTruth'
<1>1. JobTruth(j) /\ JobsOK /\ mode \in {"live", "mock"}
  BY InFlight DEF RoutedInvariant
<1>2. /\ jobs'[j].at = AuditRead /\ jobs'[j].m = jobs[j].m /\ jobs'[j].kind = jobs[j].kind
      /\ jobs'[j].arg = jobs[j].arg
  BY DEF Moves
<1>3. Seen(Len(jobs))' = Seen(Len(jobs))
  BY <1>1, MovedCall DEF Seen
<1>4. JobTruth(j)'
  BY <1>1, <1>2, <1>3 DEF JobTruth, AuditRead
<1>5. AuditRead \notin Settled
  BY DEF AuditRead, Settled
<1> QED  BY <1>4, <1>5, JobMoved

\* What the command was told is what the engine holds.
LEMMA ConfirmScreen ==
  ASSUME RoutedInvariant, ScreenTruth, NEW j \in DOMAIN jobs, Confirm(j)
  PROVE  ScreenTruth'
<1> DEFINE c == Call(j)
<1>1. /\ jobs[j].at = "confirm" /\ ~Idle(jobs[j])
      /\ UNCHANGED <<engine, sandbox, mode, boot, current, selected, loads, session>>
      /\ form' \in {form, "clean"}
  BY DEF Confirm, ShowPolicy, ShowDecision, Prepend, Idle, Settled, stores, chosen
<1>2. JobTruth(j) /\ StoresTruth /\ JobsOK /\ JobOK(jobs[j])
  BY <1>1, InFlight
<1>3. /\ mode = "live" /\ HomeStore = engine /\ HomeStore' = engine /\ mode' = "live"
      /\ c.kind = jobs[j].kind /\ c.m = current /\ c.arg = jobs[j].arg
  BY <1>1, <1>2 DEF JobTruth, HomeStore, Call
<1>4. /\ StoreOK(engine) /\ ById(engine) /\ decisions \in Seq(Rows(decisions)) /\ selected \in Seen(Len(jobs))
      /\ \A d \in Rows(engine.decisions) : d.id \in Seen(Len(jobs))
  BY <1>2 DEF StoresTruth
<1>5. ASSUME Moves(j, jobs[j].wrote, AuditRead), decisions' \in Seq(Rows(decisions')) PROVE StoresTruth'
  BY <1>1, <1>4, <1>5, JobSameStores
<1>6. CASE c.kind = "save" /\ ShowPolicy(engine.policies[c.m]) /\ Advance(j, AuditRead)
  <2>1. Moves(j, jobs[j].wrote, AuditRead)
    BY <1>2, <1>6, AdvanceMoves
  <2>2. decisions' = decisions /\ policy' = engine.policies[current] /\ FeedShown
    BY <1>1, <1>2, <1>3, <1>6 DEF ShowPolicy, JobTruth
  <2>3. FeedShown' /\ PolicyShown'
    BY <1>1, <1>3, <2>2 DEF FeedShown, PolicyShown, MerchantRows, Rows
  <2> QED  BY <1>1, <1>3, <1>4, <1>5, <1>6, <2>1, <2>2, <2>3, Audited
<1>7. CASE c.kind = "override" /\ ShowDecision(Find(engine, c.arg)) /\ Advance(j, AuditRead)
  <2>1. Moves(j, jobs[j].wrote, AuditRead)
    BY <1>2, <1>7, AdvanceMoves
  <2>2. FeedShown /\ PolicyShown /\ Owns(engine, c)
    BY <1>1, <1>2, <1>3, <1>7 DEF JobTruth
  <2>3. PICK row \in Rows(engine.decisions) : row.id = c.arg
    BY <2>2 DEF Owns, Rows
  <2>4. ShowDecision(row) /\ policy' = policy
    BY <1>4, <1>7, <2>3, FindRow DEF ShowDecision
  <2>5. Rows(decisions) \subseteq Rows(engine.decisions)
    BY <1>3, <2>2 DEF FeedShown, MerchantRows
  <2>6. \A d \in Rows(decisions) : d.id = row.id => d = row
    BY <1>4, <2>3, <2>5 DEF ById
  <2>7. decisions' \in Seq(Rows(decisions')) /\ Rows(decisions') = Rows(decisions)
    <3>1. {IF d.id = row.id THEN row ELSE d : d \in Rows(decisions)} = Rows(decisions)
      BY <2>6
    <3> QED  BY <1>4, <2>4, <3>1, ShownRows
  <2>8. FeedShown' /\ PolicyShown'
    BY <1>1, <1>3, <2>2, <2>4, <2>7 DEF FeedShown, PolicyShown, MerchantRows
  <2> QED  BY <1>1, <1>3, <1>5, <1>7, <2>1, <2>7, <2>8, Audited
<1>8. CASE /\ c.kind = "simulate" /\ Feed(engine, c.m) # <<>> /\ Prepend(Formulated(c))
           /\ jobs' = [jobs EXCEPT ![j].at = AuditRead, ![j].made = Formulated(c).id]
  <2>1. Moves(j, jobs[j].wrote, AuditRead)
    BY <1>2, <1>8, AdvanceMoves
  <2>2. PICK row : row = Formulated(c)
    OBVIOUS
  <2>3. jobs'[j].made = row.id
    BY <1>2, <1>8, <2>2 DEF JobsOK, JobOK
  <2>4. /\ decisions' \in Seq(Rows(decisions')) /\ Rows(decisions') = Rows(decisions) \cup {row}
        /\ policy' = policy
    BY <1>4, <1>8, <2>2, PrependRows DEF Prepend
  <2>5. /\ PolicyShown /\ c.arg = payment(j) /\ selected # payment(j)
        /\ MerchantRows(engine, current)
             = Rows(decisions) \cup {d \in Rows(engine.decisions) : d.id = payment(j)}
    BY <1>1, <1>2, <1>3, <1>8 DEF JobTruth
  <2>6. PolicyShown'
    BY <1>1, <1>3, <2>4, <2>5 DEF PolicyShown
  <2>7. CASE payment(j) \in Ids(engine.decisions)
    <3>1. PICK d \in Rows(engine.decisions) : d.id = payment(j)
      BY <2>7 DEF Ids, Rows
    <3>2. row = d
      BY <1>4, <2>2, <2>5, <2>7, <3>1, FindRow DEF Formulated
    <3>3. jobs'[j].made = payment(j) /\ payment(j) \in Seen(Len(jobs))
      BY <1>4, <2>3, <3>1, <3>2
    <3> QED  BY <1>1, <1>3, <1>5, <1>8, <2>1, <2>4, <2>5, <2>6, <3>3, Audited
  <2>8. CASE payment(j) \notin Ids(engine.decisions)
    <3>1. {d \in Rows(engine.decisions) : d.id = payment(j)} = {}
      BY <2>8 DEF Ids, Rows
    <3>2. row = Feed(engine, current)[1]
      BY <1>3, <2>2, <2>5, <2>8 DEF Formulated
    <3>3. /\ Feed(engine, current) \in Seq(Rows(engine.decisions)) /\ Feed(engine, current) # <<>>
          /\ Rows(Feed(engine, current)) = MerchantRows(engine, current)
      BY <1>3, <1>4, <1>8, FeedRows DEF StoreOK
    <3>4. row \in MerchantRows(engine, current)
      <4>1. PICK feed : feed = Feed(engine, current)
        OBVIOUS
      <4>2. feed[1] \in Rows(feed)
        BY <3>3, <4>1 DEF Rows
      <4> QED  BY <3>2, <3>3, <4>1, <4>2
    <3>5. FeedShown'
      <4>1. Rows(decisions') = MerchantRows(engine, current)
        BY <2>4, <2>5, <3>1, <3>4
      <4> QED  BY <1>1, <1>3, <4>1 DEF FeedShown
    <3>6. jobs'[j].made \in Seen(Len(jobs))
      BY <1>4, <2>3, <3>4 DEF MerchantRows
    <3> QED  BY <1>1, <1>3, <1>5, <1>8, <2>1, <2>4, <2>6, <3>5, <3>6, Audited
  <2> QED  BY <2>7, <2>8
<1> QED  BY <1>6, <1>7, <1>8 DEF Confirm

\* What the sandbox holds once it has carried a command out.
LEMMA SandboxTruth ==
  ASSUME RoutedInvariant, ScreenTruth, NEW j \in DOMAIN jobs, ~Idle(jobs[j]), jobs[j].at = "sandbox",
         sandbox' = SandboxAfter(sandbox, Call(j)), NEW wrote, NEW at, Moves(j, wrote, at),
         UNCHANGED <<engine, selected, session>>, form' \in {form, "clean"},
         decisions' \in Seq(Rows(decisions'))
  PROVE  StoresTruth'
<1> DEFINE c == Call(j)
           row == DecisionRow(c.arg, c.m, "ranked")
           rewritten(d) == IF d.id = c.arg THEN [d EXCEPT !.chosen = "operator"] ELSE d
<1>1. JobTruth(j) /\ StoresTruth /\ JobsOK /\ payment(j) \in Seen(Len(jobs))
  BY InFlight
<1>2. c.kind = jobs[j].kind /\ c.kind \in CallKind /\ c.arg = jobs[j].arg
  BY <1>1 DEF JobTruth, Call
<1>3. /\ StoreOK(sandbox)'
      /\ c.kind = "toggle" => sandbox'.decisions = sandbox.decisions
      /\ c.kind = "save" => sandbox'.decisions = sandbox.decisions
      /\ c.kind = "override" => Rows(sandbox'.decisions) = {rewritten(d) : d \in Rows(sandbox.decisions)}
      /\ c.kind = "simulate" => Rows(sandbox'.decisions) = Rows(sandbox.decisions) \cup {row}
  BY <1>1, <1>2, SandboxServes DEF StoresTruth
<1>4. c.kind = "simulate" => c.arg = payment(j) /\ payment(j) \notin Ids(sandbox.decisions)
  BY <1>1, <1>2 DEF JobTruth
<1>5. row.id = c.arg
  BY DEF DecisionRow
<1>6. ASSUME NEW d \in Rows(sandbox.decisions) PROVE rewritten(d).id = d.id
  BY <1>1 DEF StoresTruth, StoreOK, RowOK, DecisionRow
<1> HIDE DEF c, row, rewritten
<1>7. PICK next : next = sandbox'
  OBVIOUS
<1>8. ById(next) /\ \A d \in Rows(next.decisions) : d.id \in Seen(Len(jobs))
  <2>1. CASE next.decisions = sandbox.decisions
    BY <1>1, <2>1 DEF StoresTruth, ById
  <2>2. CASE Rows(next.decisions) = {rewritten(d) : d \in Rows(sandbox.decisions)}
    <3>1. ASSUME NEW d \in Rows(sandbox.decisions), NEW e \in Rows(sandbox.decisions),
                 rewritten(d).id = rewritten(e).id
          PROVE  rewritten(d) = rewritten(e)
      BY <1>1, <1>6, <3>1 DEF StoresTruth, ById
    <3>2. \A d, e \in Rows(next.decisions) : d.id = e.id => d = e
      BY <2>2, <3>1
    <3>3. \A d \in Rows(sandbox.decisions) : rewritten(d).id \in Seen(Len(jobs))
      BY <1>1, <1>6 DEF StoresTruth
    <3> QED  BY <2>2, <3>2, <3>3 DEF ById
  <2>3. CASE c.kind = "simulate" /\ Rows(next.decisions) = Rows(sandbox.decisions) \cup {row}
    <3>1. ById(next)
      BY <1>1, <1>4, <1>5, <2>3, NewRow DEF StoresTruth
    <3> QED  BY <1>1, <1>4, <1>5, <2>3, <3>1 DEF StoresTruth
  <2> QED  BY <1>2, <1>3, <1>7, <2>1, <2>2, <2>3 DEF CallKind
<1>9. ById(sandbox)'
  BY <1>7, <1>8 DEF ById, Rows
<1>10. StoreOK(engine)' /\ ById(engine)'
  BY <1>1 DEF StoresTruth, StoreOK, ById, Rows, RowOK
<1>11. \A d \in (Rows(engine.decisions) \cup Rows(sandbox.decisions))' : d.id \in Seen(Len(jobs))
  BY <1>1, <1>7, <1>8 DEF StoresTruth, Rows
<1>12. Len(jobs') = Len(jobs)
  BY <1>1, MovedCall
<1>13. selected' \in Seen(Len(jobs')) /\ form' \in session'.types \cup {"clean"}
  BY <1>1, <1>12 DEF StoresTruth
<1> QED  BY <1>3, <1>9, <1>10, <1>11, <1>12, <1>13 DEF StoresTruth, Seen

\* The sandbox carries a command out: in its own mode what is shown is what it now holds,
\* and with the engine at home the engine has no row for what it changed.
LEMMA MockCallScreen ==
  ASSUME RoutedInvariant, ScreenTruth, NEW j \in DOMAIN jobs, MockCall(j)
  PROVE  ScreenTruth'
<1> DEFINE c == Call(j)
           row == DecisionRow(c.arg, c.m, "ranked")
           rewritten(d) == IF d.id = c.arg THEN [d EXCEPT !.chosen = "operator"] ELSE d
           wrote == jobs[j].wrote \cup {"sandbox"}
<1>1. /\ jobs[j].at = "sandbox" /\ ~Idle(jobs[j]) /\ SandboxKnows(sandbox, c)
      /\ sandbox' = SandboxAfter(sandbox, c)
      /\ UNCHANGED <<engine, mode, boot, current, selected, loads, session>>
      /\ form' \in {form, "clean"}
  BY DEF MockCall, ShowPolicy, ShowDecision, Prepend, Idle, Settled, chosen
<1>2. JobTruth(j) /\ StoresTruth /\ JobsOK /\ JobOK(jobs[j]) /\ payment(j) \in Seen(Len(jobs))
  BY <1>1, InFlight
<1>3. /\ c.kind = jobs[j].kind /\ c.m = current /\ c.arg = jobs[j].arg /\ c.kind \in CallKind
      /\ FeedShown /\ PolicyShown
      /\ mode = "live" => /\ c.kind \in {"toggle", "save"} => ~HasRow(engine, current)
                          /\ c.kind = "override" => ~Owns(engine, c)
  BY <1>1, <1>2 DEF JobTruth, Call
<1>4. /\ StoreOK(sandbox) /\ ById(sandbox) /\ decisions \in Seq(Rows(decisions))
      /\ \A d \in Rows(sandbox.decisions) : d = DecisionRow(d.id, d.merchant, d.chosen)
  BY <1>2 DEF StoresTruth, StoreOK, RowOK
<1>5. /\ mode \in {"live", "mock"}
      /\ mode = "live" => HomeStore = engine /\ HomeStore' = engine
      /\ mode = "mock" => HomeStore = sandbox /\ HomeStore' = sandbox'
  BY <1>1 DEF HomeStore, RoutedInvariant
<1>6. PICK next : next = sandbox'
  OBVIOUS
<1>7. /\ c.kind = "toggle" => next.decisions = sandbox.decisions
      /\ c.kind = "save" => next.decisions = sandbox.decisions
      /\ c.kind = "override" =>
           /\ next.policies = sandbox.policies
           /\ Rows(next.decisions) = {rewritten(d) : d \in Rows(sandbox.decisions)}
      /\ c.kind = "simulate" =>
           /\ next.policies = sandbox.policies
           /\ Rows(next.decisions) = Rows(sandbox.decisions) \cup {row}
  BY <1>1, <1>3, <1>4, <1>6, SandboxServes
<1>8. ASSUME NEW at, Moves(j, wrote, at), decisions' \in Seq(Rows(decisions')) PROVE StoresTruth'
  BY <1>1, <1>8, SandboxTruth
<1>9. CASE c.kind = "toggle" /\ Wrote(j, "sandbox", PolicyRead) /\ UNCHANGED <<shown, form>>
  <2>1. Moves(j, wrote, PolicyRead) /\ decisions' = decisions /\ policy' = policy
    BY <1>2, <1>9, WroteMoves DEF shown
  <2>2. StoresTruth'
    <3>1. decisions' \in Seq(Rows(decisions'))
      BY <1>4, <2>1
    <3> QED  BY <1>8, <2>1, <3>1
  <2>3. FeedShown'
    <3>1. HomeStore'.decisions = HomeStore.decisions
      BY <1>5, <1>6, <1>7, <1>9
    <3> QED  BY <1>1, <1>3, <2>1, <3>1, StillShown
  <2>4. /\ jobs'[j].at = PolicyRead /\ jobs'[j].m = jobs[j].m /\ jobs'[j].kind = jobs[j].kind
    BY <2>1 DEF Moves
  <2>5. JobTruth(j)'
    <3>1. /\ jobs'[j].kind = "toggle" /\ jobs'[j].m = current'
          /\ jobs'[j].at = IF mode' = "live" THEN "http policy" ELSE "sandbox policy"
      BY <1>1, <1>2, <1>9, <2>4 DEF JobTruth, PolicyRead, Call
    <3> QED  BY <1>1, <2>3, <3>1 DEF JobTruth, CallKind
  <2>6. PolicyRead \notin Settled
    BY DEF PolicyRead, Settled
  <2> QED  BY <1>1, <2>1, <2>2, <2>5, <2>6, JobMoved
<1>10. CASE c.kind = "save" /\ ShowPolicy(sandbox'.policies[c.m]) /\ Wrote(j, "sandbox", AuditRead)
  <2>1. Moves(j, wrote, AuditRead) /\ decisions' = decisions /\ policy' = sandbox'.policies[current]
    BY <1>2, <1>3, <1>10, WroteMoves DEF ShowPolicy
  <2>2. StoresTruth'
    <3>1. decisions' \in Seq(Rows(decisions'))
      BY <1>4, <2>1
    <3> QED  BY <1>8, <2>1, <3>1
  <2>3. FeedShown'
    <3>1. HomeStore'.decisions = HomeStore.decisions
      BY <1>5, <1>6, <1>7, <1>10
    <3> QED  BY <1>1, <1>3, <2>1, <3>1 DEF FeedShown, MerchantRows, Rows
  <2>4. PolicyShown'
    <3>1. PICK home : home = HomeStore'
      OBVIOUS
    <3>2. HasRow(home, current) => policy' = home.policies[current]
      BY <1>3, <1>5, <1>10, <2>1, <3>1
    <3> QED  BY <1>1, <3>1, <3>2 DEF PolicyShown, HasRow
  <2> QED  BY <1>1, <1>3, <1>10, <2>1, <2>2, <2>3, <2>4, Audited
<1>11. CASE /\ c.kind = "override" /\ ShowDecision(Find(sandbox', c.arg))
            /\ Wrote(j, "sandbox", AuditRead)
  <2>1. Moves(j, wrote, AuditRead) /\ policy' = policy
    BY <1>2, <1>11, WroteMoves DEF ShowDecision
  <2>2. PICK d0 \in Rows(sandbox.decisions) : d0.id = c.arg
    BY <1>1, <1>11 DEF SandboxKnows, Ids, Rows
  <2>3. \A d \in Rows(sandbox.decisions) : rewritten(d).id = d.id /\ rewritten(d).merchant = d.merchant
    BY <1>4 DEF DecisionRow
  <2>4. ASSUME NEW d \in Rows(next.decisions), d.id = c.arg PROVE d = rewritten(d0)
    <3>1. PICK e \in Rows(sandbox.decisions) : d = rewritten(e)
      BY <1>7, <1>11
    <3>2. e = d0
      BY <1>4, <2>2, <2>3, <2>4, <3>1 DEF ById
    <3> QED  BY <3>1, <3>2
  <2>5. rewritten(d0) \in Rows(next.decisions) /\ rewritten(d0).id = c.arg
    BY <1>7, <1>11, <2>2, <2>3
  <2>6. Find(next, c.arg) = rewritten(d0)
    <3>1. PICK k \in DOMAIN next.decisions : next.decisions[k] = rewritten(d0)
      BY <2>5 DEF Rows
    <3> DEFINE i == CHOOSE i \in DOMAIN next.decisions : next.decisions[i].id = c.arg
    <3>2. i \in DOMAIN next.decisions /\ next.decisions[i].id = c.arg
      BY <2>5, <3>1
    <3>3. next.decisions[i] \in Rows(next.decisions)
      BY <3>2 DEF Rows
    <3>4. next.decisions[i] = rewritten(d0)
      BY <2>4, <3>2, <3>3
    <3> QED  BY <3>4 DEF Find
  <2>7. PICK shownRow : shownRow = rewritten(d0)
    OBVIOUS
  <2>8. /\ decisions' \in Seq(Rows(decisions'))
        /\ Rows(decisions') = {IF d.id = c.arg THEN shownRow ELSE d : d \in Rows(decisions)}
    <3>1. ShowDecision(shownRow) /\ shownRow.id = c.arg
      BY <1>6, <1>11, <2>5, <2>6, <2>7
    <3> QED  BY <1>4, <3>1, ShownRows
  <2>9. StoresTruth'
    BY <1>8, <2>1, <2>8
  <2>10. PolicyShown'
    <3>1. PICK home : home = HomeStore'
      OBVIOUS
    <3>2. home.policies = HomeStore.policies
      BY <1>5, <1>6, <1>7, <1>11, <3>1
    <3> QED  BY <1>1, <1>3, <2>1, <3>1, <3>2 DEF PolicyShown, HasRow
  <2>11. CASE mode = "live"
    <3>1. \A d \in Rows(decisions) : d \in Rows(engine.decisions) /\ d.merchant = current
      BY <1>3, <1>5, <2>11 DEF FeedShown, MerchantRows
    <3>2. \A d \in Rows(decisions) : d.id # c.arg
      <4>1. ASSUME NEW d \in Rows(engine.decisions), d.merchant = current, d.id = c.arg PROVE FALSE
        <5>1. Owns(engine, c)
          BY <1>3, <4>1 DEF Owns, Rows
        <5> QED  BY <1>3, <1>11, <2>11, <5>1
      <4> QED  BY <3>1, <4>1
    <3>3. Rows(decisions') = Rows(decisions)
      BY <2>8, <3>2
    <3>4. FeedShown'
      BY <1>1, <1>3, <1>5, <2>11, <3>3 DEF FeedShown
    <3> QED  BY <1>1, <1>3, <1>11, <2>1, <2>9, <2>10, <3>4, Audited
  <2>12. CASE mode = "mock"
    <3>1. Rows(decisions) = {d \in Rows(sandbox.decisions) : d.merchant = current}
      BY <1>3, <1>5, <2>12 DEF FeedShown, MerchantRows
    <3>2. \A d \in Rows(decisions) : (IF d.id = c.arg THEN shownRow ELSE d) = rewritten(d)
      <4>1. ASSUME NEW d \in Rows(sandbox.decisions)
            PROVE  (IF d.id = c.arg THEN shownRow ELSE d) = rewritten(d)
        <5>1. CASE d.id = c.arg
          BY <1>4, <2>2, <2>7, <5>1 DEF ById
        <5>2. CASE d.id # c.arg
          BY <5>2
        <5> QED  BY <5>1, <5>2
      <4> QED  BY <3>1, <4>1
    <3> HIDE DEF rewritten
    <3>3. Rows(decisions') = {rewritten(d) : d \in Rows(decisions)}
      BY <2>8, <3>2
    <3>4. Rows(decisions') = MerchantRows(next, current)
      <4>1. Rows(next.decisions) = {rewritten(d) : d \in Rows(sandbox.decisions)}
        BY <1>7, <1>11
      <4> QED  BY <2>3, <3>1, <3>3, <4>1 DEF MerchantRows
    <3>5. FeedShown'
      BY <1>1, <1>5, <1>6, <2>12, <3>4 DEF FeedShown
    <3> QED  BY <1>1, <1>3, <1>11, <2>1, <2>9, <2>10, <3>5, Audited
  <2> QED  BY <1>5, <2>11, <2>12
<1>12. CASE /\ c.kind = "simulate" /\ Prepend(Find(sandbox', c.arg))
            /\ jobs' = [jobs EXCEPT ![j].wrote = @ \cup {"sandbox"}, ![j].at = AuditRead, ![j].made = c.arg]
  <2>1. Moves(j, wrote, AuditRead)
    BY <1>2, <1>12, WroteMoves
  <2>2. jobs'[j].made = c.arg
    BY <1>2, <1>12 DEF JobsOK, JobOK
  <2>3. c.arg = payment(j) /\ selected # payment(j)
    BY <1>1, <1>2, <1>3, <1>12 DEF JobTruth
  <2>4. PICK found : found = Find(sandbox', c.arg)
    OBVIOUS
  <2>5. decisions' \in Seq(Rows(decisions')) /\ policy' = policy
    BY <1>4, <1>12, <2>4, PrependRows DEF Prepend
  <2>6. StoresTruth'
    BY <1>8, <2>1, <2>5
  <2>7. PolicyShown'
    <3>1. PICK home : home = HomeStore'
      OBVIOUS
    <3>2. home.policies = HomeStore.policies
      BY <1>5, <1>6, <1>7, <1>12, <3>1
    <3> QED  BY <1>1, <1>3, <2>5, <3>1, <3>2 DEF PolicyShown, HasRow
  <2> QED  BY <1>1, <1>2, <1>3, <1>12, <2>1, <2>2, <2>3, <2>6, <2>7, Audited
<1> QED  BY <1>9, <1>10, <1>11, <1>12 DEF MockCall

\* Every step of an operator who waits keeps what is known of the screen.
LEMMA ScreenSteps ==
  ASSUME RoutedInvariant, ScreenTruth, Attended, [Next]_vars PROVE ScreenTruth'
<1>1. CASE UNCHANGED vars
  <2>1. UNCHANGED <<engine, sandbox, mode, boot, current, selected, policy, decisions, form, loads, jobs, session>>
    BY <1>1 DEF vars, stores, shown, chosen
  <2>2. StoresTruth'
    BY <2>1, SameStores DEF ScreenTruth, StoresTruth
  <2>3. FeedShown' = FeedShown /\ PolicyShown' = PolicyShown /\ OneAtATime' = OneAtATime /\ Quiet' = Quiet
    BY <2>1 DEF FeedShown, PolicyShown, OneAtATime, Quiet, HomeStore, MerchantRows, Rows, HasRow, Idle
  <2>4. \A l \in DOMAIN loads' : LoadTruth(loads[l])'
    <3>1. activeClient' = activeClient /\ HomeStore' = HomeStore
      BY <2>1 DEF activeClient, HomeStore
    <3>2. ASSUME NEW l \in DOMAIN loads, LoadTruth(loads[l]) PROVE LoadTruth(loads[l])'
      BY <2>1, <3>1, <3>2 DEF LoadTruth, HasRow, Feed
    <3> QED  BY <2>1, <3>2 DEF ScreenTruth
  <2>5. \A j \in DOMAIN jobs' : (~Idle(jobs[j]) => JobTruth(j))'
    <3>1. ASSUME NEW j \in DOMAIN jobs, ~Idle(jobs[j]) PROVE JobTruth(j)'
      <4>1. JobTruth(j)
        BY <3>1 DEF ScreenTruth
      <4>2. /\ MerchantRows(engine, current)' = MerchantRows(engine, current)
            /\ Rows(engine.decisions)' = Rows(engine.decisions) /\ Rows(decisions)' = Rows(decisions)
            /\ Ids(engine.decisions)' = Ids(engine.decisions)
            /\ Ids(sandbox.decisions)' = Ids(sandbox.decisions)
        BY <2>1 DEF MerchantRows, Rows, Ids
      <4>3. /\ HasRow(engine, current)' = HasRow(engine, current)
            /\ Owns(engine, Call(j))' = Owns(engine, Call(j)) /\ Seen(Len(jobs))' = Seen(Len(jobs))
        BY <2>1 DEF HasRow, Owns, Call, Seen
      <4>4. jobs'[j] = jobs[j] /\ mode' = mode /\ current' = current /\ selected' = selected
        BY <2>1
      <4> QED  BY <2>3, <4>1, <4>2, <4>3, <4>4 DEF JobTruth
    <3> QED  BY <2>1, <3>1 DEF Idle
  <2> QED  BY <2>1, <2>2, <2>3, <2>4, <2>5 DEF ScreenTruth
<1>2. ASSUME NEW l \in DOMAIN loads, LoadStep(l) PROVE ScreenTruth'
  BY <1>2, ReadStepScreen, DeliverScreen DEF LoadStep
<1>3. ASSUME NEW j \in DOMAIN jobs, JobStep(j) PROVE ScreenTruth'
  <2>1. ~LoseAnswer(j)
    BY DEF LoseAnswer, Attended, Reliable
  <2> QED  BY <1>3, <2>1, ServeScreen, RefuseScreen, ConfirmScreen, UnconfirmedScreen, MockCallScreen,
             MockErrorScreen, RereadPolicyScreen, FinishScreen DEF JobStep
<1>4. CASE Operator
  BY <1>4, BrowsingScreen, FormScreen, LaunchScreen, IssueScreen DEF Operator
<1> QED  BY <1>1, <1>2, <1>3, <1>4, LaunchScreen, ListMerchantsScreen DEF Next

\* Whether an operator waits and an engine answers is settled when the session starts.
LEMMA SessionKept ==
  ASSUME RoutedInvariant, [Next]_vars
  PROVE  Attended' = Attended
<1>1. session' = session \/ session' = [session EXCEPT !.reloads = @ - 1]
  <2>1. CASE \E j \in DOMAIN jobs : JobStep(j)
    BY <2>1, JobSteps
  <2>2. CASE CheckHealth \/ ListMerchants \/ \E l \in DOMAIN loads : LoadStep(l)
    BY <2>2 DEF CheckHealth, ListMerchants, LoadStep, ReadStep, Deliver
  <2>3. CASE Operator
    <3>1. CASE Toggle \/ SavePolicy \/ Override \/ Simulate
      BY <3>1 DEF Toggle, SavePolicy, Override, Simulate, Issue
    <3> QED  BY <2>3, <3>1 DEF Operator, SelectMerchant, SelectDecision, EditForm, Refresh, SwitchMode,
               DiscardForm, Reload
  <2>4. CASE UNCHANGED vars
    BY <2>4 DEF vars
  <2> QED  BY <2>1, <2>2, <2>3, <2>4 DEF Next
<1>2. session'.patient = session.patient /\ session'.faults = session.faults /\ session'.types = session.types
  BY <1>1 DEF RoutedInvariant, SessionType
<1> QED  BY <1>2 DEF Attended, Reliable

LEMMA ScreenStarts == ASSUME Init PROVE ScreenTruth
<1>1. /\ StoreOK(engine) /\ ById(engine) /\ \A d \in Rows(engine.decisions) : d.id \in Seen(0)
  <2>1. engine = StoreOf(LiveMerchant, LiveDecision)
    BY DEF Init, EngineAtStart
  <2> QED  BY <2>1, StartsById, StoresAssumption
<1>2. /\ StoreOK(sandbox) /\ ById(sandbox) /\ \A d \in Rows(sandbox.decisions) : d.id \in Seen(0)
  <2>1. sandbox = StoreOf(SandboxMerchant, SandboxDecision)
    BY DEF Init, SandboxAtStart
  <2> QED  BY <2>1, StartsById, StoresAssumption
<1>3. jobs = <<>> /\ loads = <<>> /\ Len(jobs) = 0 /\ DOMAIN jobs = {} /\ DOMAIN loads = {} /\ boot = "health"
      /\ selected = None /\ decisions = <<>> /\ form = "clean"
  BY DEF Init
<1>4. StoresTruth
  BY <1>1, <1>2, <1>3 DEF StoresTruth, Seen
<1> QED  BY <1>3, <1>4 DEF ScreenTruth, OneAtATime, Quiet

(***************************************************************************)
(* With nothing in flight, the operator who waits sees what the store of   *)
(* the mode holds for the current merchant: its policy, if it has one, and *)
(* its decisions (App.tsx, every handler and load; client.ts).             *)
(***************************************************************************)
THEOREM ShownIsAlwaysStored == Spec => []ShownIsStored
<1> DEFINE Inv == RoutedInvariant /\ ScreenInvariant
<1>1. Init => Inv
  <2>1. Init => RoutedInvariant
    BY ConsoleAssumption DEF Init, RoutedInvariant, JobsOK
  <2> QED  BY <2>1, ScreenStarts DEF ScreenInvariant
<1>2. Inv /\ [Next]_vars => Inv'
  <2>1. SUFFICES ASSUME Inv, [Next]_vars PROVE Inv'
    OBVIOUS
  <2>2. RoutedInvariant'
    BY <2>1, RoutedKept
  <2>3. Attended' => ScreenTruth'
    BY <2>1, SessionKept, ScreenSteps DEF ScreenInvariant
  <2> QED  BY <2>2, <2>3 DEF ScreenInvariant
<1>3. Inv => ShownIsStored
  <2>1. SUFFICES ASSUME Inv, Quiet, Usable, Attended
                 PROVE  /\ HasRow(HomeStore, current) => policy = HomeStore.policies[current]
                        /\ Rows(decisions) = Rows(Feed(HomeStore, current))
    BY DEF ShownIsStored
  <2>2. ScreenTruth /\ boot = "done"
    BY <2>1 DEF ScreenInvariant, Usable
  <2>3. PolicyShown /\ FeedShown /\ StoreOK(HomeStore)
    BY <2>1, <2>2 DEF ScreenTruth, StoresTruth, HomeStore
  <2>4. Rows(Feed(HomeStore, current)) = MerchantRows(HomeStore, current)
    BY <2>3, FeedRows DEF StoreOK
  <2> QED  BY <2>3, <2>4 DEF PolicyShown, FeedShown
<1> HIDE DEF Inv
<1> QED  BY <1>1, <1>2, <1>3, PTL DEF Spec
=============================================================================
