------------------------------ MODULE MCScreens ------------------------------
(***************************************************************************)
(* The console's screens, dialogs and settings share no state with each    *)
(* other here (Console has what they share).  A behaviour is of one of     *)
(* them: running names the component that takes steps, and the others are  *)
(* left out.                                                               *)
(***************************************************************************)
EXTENDS Sandbox, TLC

CONSTANTS
  acme, nexa, balanced,
  SearchTerms,                                   \* FeedView
  Decisions, Kinds, Extra,                       \* LiveMetrics
  Owner, SeedPayment, NewPayment, Anything, MaxCommands,  \* AuditLedger
  Dialog, MaxCalls, MaxToggles,                  \* Dialogs
  Url, DefaultUrl, Empty, Key, NoKey, MaxChecks, \* Connection
  EngineMerchants, SandboxMerchants, TrendLength, EngineTrend, SandboxRows, MaxRows  \* Shell

VARIABLES
  running,
  view,                                                                    \* FeedView
  log, decided, commands, actorFilter, entityFilter, searchTerm,           \* AuditLedger
  ledger, action, metrics,                                                 \* LiveMetrics
  switch, isActive, open, reason, error, isSubmitting, calls,              \* Dialogs
  config, client, stored, storedMode, up, isOpen, field, modeField, checks,
  isChecking, health,                                                      \* Connection
  storageWorks, engineUp, savedMode, savedTheme, phase, mode, merchants, currentMerchant,
  page, aiDegraded, loads, trend, feed, rows, hovered, theme, isMobileMenuOpen,
  isDropdownOpen, dialog                                                   \* Shell

audit == <<log, decided, commands, actorFilter, entityFilter, searchTerm>>
overview == <<ledger, action, metrics>>
dialogs == <<switch, isActive, open, reason, error, isSubmitting, calls>>
settings == <<config, client, stored, storedMode, up, isOpen, field, modeField, checks,
              isChecking, health>>
frame == <<storageWorks, engineUp, savedMode, savedTheme, phase, mode, merchants,
           currentMerchant, page, aiDegraded, loads, trend, feed, rows, hovered, theme,
           isMobileMenuOpen, isDropdownOpen, dialog>>
all == <<running, vars, view, audit, overview, dialogs, settings, frame>>

Feed == INSTANCE FeedView

Audit == INSTANCE AuditLedger WITH Merchant <- Owner, decisions <- decided

\* A decision that recovers, one that is escalated and one that does nothing.
MetricKind(chosen, verdict, amount, cost) ==
  [chosen |-> chosen, verdict |-> verdict, amount |-> amount, cost |-> cost]

LedgerKinds ==
  {MetricKind("retry", "ALLOW", 15, 2), MetricKind("escalate", "HUMAN_REVIEW", 40, 5),
   MetricKind("no_action", "ALLOW", 7, 0)}

Overview == INSTANCE LiveMetrics WITH decision <- ledger

Submitting == INSTANCE Dialogs WITH stored <- switch

Settings == INSTANCE Connection WITH mode <- client

Frame == INSTANCE Shell WITH tab <- page, sandbox <- rows

\* Two merchants in the sandbox, with a longer and a shorter trend, one in the engine.
InEngine == <<balanced>>
InSandbox == <<acme, nexa>>
Trends == acme :> 2 @@ nexa :> 1 @@ balanced :> 2
FreshRows == acme :> 1 @@ nexa :> 0 @@ balanced :> 0

\* The values above are ones the components allow.
ASSUME ComponentsAssumption ==
  /\ Audit!AuditLedgerAssumption /\ Overview!MetricsAssumption
  /\ Submitting!DialogsAssumption /\ Settings!ConnectionAssumption /\ Frame!ShellAssumption

-----------------------------------------------------------------------------

None == "none"

\* The component that runs starts as its module says; the records of another are left out.
Start ==
  /\ running \in {"investigation", "feed", "audit", "overview", "dialogs",
                  "settings", "frame"}
  /\ IF running = "investigation" THEN Init
     ELSE decisions = <<>> /\ auditLogs = <<>> /\ tab = "feed" /\ selected = None /\ pick = None
  /\ IF running = "audit" THEN Audit!Init
     ELSE /\ log = <<>> /\ decided = {} /\ commands = 0
          /\ actorFilter = Anything /\ entityFilter = Anything /\ searchTerm = Anything
  /\ Feed!Init /\ Overview!Init /\ Settings!Init
  /\ Submitting!Init /\ (running # "dialogs" => ~switch)
  /\ Frame!Init
  /\ running # "frame" =>
       storageWorks /\ engineUp /\ savedMode = "mock" /\ savedTheme = "light"

Move ==
  \/ /\ running = "investigation" /\ Next
     /\ UNCHANGED <<running, view, audit, overview, dialogs, settings, frame>>
  \/ /\ running = "feed" /\ Feed!Next
     /\ UNCHANGED <<running, vars, audit, overview, dialogs, settings, frame>>
  \/ /\ running = "audit" /\ Audit!Next
     /\ UNCHANGED <<running, vars, view, overview, dialogs, settings, frame>>
  \/ /\ running = "overview" /\ Overview!Next
     /\ UNCHANGED <<running, vars, view, audit, dialogs, settings, frame>>
  \/ /\ running = "dialogs" /\ Submitting!Next
     /\ UNCHANGED <<running, vars, view, audit, overview, settings, frame>>
  \/ /\ running = "settings" /\ Settings!Next
     /\ UNCHANGED <<running, vars, view, audit, overview, dialogs, frame>>
  \/ /\ running = "frame" /\ Frame!Next
     /\ UNCHANGED <<running, vars, view, audit, overview, dialogs, settings>>

\* Every await is answered or throws (Dialogs, Connection).
Behaviours ==
  /\ Start /\ [][Move]_all
  /\ \A i \in 1..MaxToggles :
       WF_dialogs(running = "dialogs" /\ i \in DOMAIN calls /\ Submitting!Answer(i))
  /\ \A i \in 1..MaxChecks :
       WF_settings(running = "settings" /\ i \in DOMAIN checks /\ Settings!Answered(i))

-----------------------------------------------------------------------------

\* What the investigation screen shows of a decision hangs together (Sandbox).
InvestigationHolds == running = "investigation" => InvestigationCoherent

\* Figures made of others agree with them: the overview's with the engine's aggregate and
\* the chart's axis (LiveMetrics), the pills' with the rows they leave (FeedView).
FiguresAgree ==
  /\ running = "overview" => Overview!ChartFits /\ Overview!PartsAddUp
  /\ running = "feed" => Feed!PillsCount

\* What a payment went through is found in the audit log, and read in order (AuditLedger).
HistoryFound == running = "audit" => Audit!HistoryFound

\* No dialog submits twice at a time or hangs, and the kill switch shown is the stored one
\* once calls that agreed are through (Dialogs); no connection check hangs (Connection).
CallsEnd ==
  /\ [](running = "dialogs" => Submitting!OneInFlight /\ Submitting!SwitchShown)
  /\ Submitting!ButtonReturns
  /\ Settings!CheckSettles

\* What a launch would restore is what the running console uses (Connection).
RestoresWhatRuns == running = "settings" => Settings!RestoresWhatRuns

\* The frame agrees with what it frames, and with what it showed before a reload (Shell).
FrameCoherent ==
  /\ [](running = "frame" => Frame!BadgeNamesPoint /\ Frame!OneItemActive)
  /\ Frame!ThemeSurvives
=============================================================================
