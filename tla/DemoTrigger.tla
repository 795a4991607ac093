----------------------------- MODULE DemoTrigger -----------------------------
(***************************************************************************)
(* The landing page's demonstration: a replay that steps by itself, the    *)
(* one health check of its label, and the button that posts an invented    *)
(* failed payment to the engine and waits four seconds at most.            *)
(***************************************************************************)
EXTENDS Naturals, FiniteSets

CONSTANT MaxEvents  \* bound on the events a visitor triggers

DemoTriggerAssumption == MaxEvents \in Nat

Steps == 0..4

VARIABLES
  step, isPlaying,   \* the replay
  backendStatus,     \* "unknown" until the health check of the mount has ended, then "ok" or "not ok"
  isSimulating, customLog,  \* the button, and the terminal's last line: [says, event]
  posted,            \* events posted so far; an event's number is its external_event_id
  request,           \* the post in flight: "none", "sent", "stored" or "refused" by the engine
  up, stored         \* the engine: whether it runs, the events it has stored

vars == <<step, isPlaying, backendStatus, isSimulating, customLog, posted, request, up, stored>>
page == <<step, isPlaying, backendStatus, isSimulating, customLog>>
engine == <<up, stored>>

Says(s, e) == [says |-> s, event |-> e]

\* The health check of the mount ends: an answer, a refusal or its two seconds.
HealthChecked ==
  /\ backendStatus = "unknown"
  /\ backendStatus' \in IF up THEN {"ok", "not ok"} ELSE {"not ok"}
  /\ UNCHANGED <<step, isPlaying, isSimulating, customLog, posted, request, engine>>

Tick ==
  /\ isPlaying /\ step' = IF step >= 4 THEN 0 ELSE step + 1
  /\ UNCHANGED <<isPlaying, backendStatus, isSimulating, customLog, posted, request, engine>>

PickStep(s) ==
  /\ step' = s /\ isPlaying' = FALSE
  /\ UNCHANGED <<backendStatus, isSimulating, customLog, posted, request, engine>>

handleTriggerWebhook ==
  /\ ~isSimulating /\ posted < MaxEvents
  /\ isSimulating' = TRUE /\ isPlaying' = FALSE /\ step' = 0
  /\ posted' = posted + 1 /\ request' = "sent"
  /\ customLog' = Says("posting", posted')
  /\ UNCHANGED <<backendStatus, engine>>

\* The engine takes the event and stores it, or refuses it.
Store ==
  /\ up /\ request = "sent" /\ request' = "stored" /\ stored' = stored \cup {posted}
  /\ UNCHANGED <<page, posted, up>>
Refuse ==
  /\ up /\ request = "sent" /\ request' = "refused"
  /\ UNCHANGED <<page, posted, engine>>

\* What ingestPaymentFailed returns is shown, and the replay jumps to its last step.
Shown(says) ==
  /\ isSimulating' = FALSE /\ customLog' = Says(says, posted)
  /\ step' = 4 /\ request' = "none"
  /\ UNCHANGED <<isPlaying, backendStatus, posted, engine>>

ResultAny(r) == "ingested"
Result(r) == IF r = "stored" THEN "ingested" ELSE "simulated"

Answered ==
  /\ up /\ request \in {"stored", "refused"} /\ Shown(Result(request))

\* No answer within four seconds, or none at all: null.
TimedOut == request # "none" /\ Shown("simulated")

EngineStartsOrStops ==
  /\ up' = ~up /\ UNCHANGED <<page, posted, request, stored>>

Init ==
  /\ step = 0 /\ isPlaying = TRUE /\ backendStatus = "unknown"
  /\ isSimulating = FALSE /\ customLog = Says("nothing", 0)
  /\ posted = 0 /\ request = "none" /\ up \in BOOLEAN /\ stored = {}

Next ==
  \/ HealthChecked \/ Tick \/ \E s \in Steps : PickStep(s)
  \/ handleTriggerWebhook \/ Store \/ Refuse \/ Answered \/ TimedOut
  \/ EngineStartsOrStops

Spec == Init /\ [][Next]_vars

\* AbortSignal.timeout ends every request.
FairSpec == Spec /\ WF_vars(TimedOut) /\ WF_vars(HealthChecked)

-----------------------------------------------------------------------------

\* The terminal says "status=ingested" only of an event the engine has stored, whatever
\* was refused, timed out or answered after the engine restarted.
ShownIngestedWasStored == customLog.says = "ingested" => customLog.event \in stored

\* The button returns from "Ingesting Webhook..." even when the engine never answers.
TriggerReturns == isSimulating ~> ~isSimulating
=============================================================================
