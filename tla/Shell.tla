-------------------------------- MODULE Shell --------------------------------
(***************************************************************************)
(* The frame of the console: launch (App.initApp), navigation and merchant *)
(* scope (AppShell), the overview's banners and chart badge, the theme.    *)
(* A load is one answer for one merchant (Console has its four reads).     *)
(***************************************************************************)
EXTENDS Naturals, Sequences, FiniteSets, SequencesExt

CONSTANTS
  EngineMerchants, SandboxMerchants,  \* the lists of the two clients, in order
  TrendLength,                        \* points in the sandbox's trend of a merchant
  EngineTrend,                        \* points in the trend made up for the engine
  SandboxRows,                        \* decisions of a merchant in a fresh sandbox
  MaxRows                             \* bound on the decisions of a merchant

Merchant == ToSet(EngineMerchants) \cup ToSet(SandboxMerchants)
None == "none"

ShellAssumption ==
  /\ {EngineMerchants, SandboxMerchants} \subseteq Seq(Merchant) \ {<<>>} /\ None \notin Merchant
  /\ EngineTrend \in Nat /\ MaxRows \in Nat
  /\ TrendLength \in [Merchant -> Nat] /\ SandboxRows \in [Merchant -> 0..MaxRows]

VARIABLES
  storageWorks, engineUp,  \* around the console
  savedMode, savedTheme,  \* localStorage
  phase,      \* "starting", "initializing", "crashed" or "running"
  mode, merchants, currentMerchant, tab, aiDegraded,  \* App
  loads,      \* the merchants whose answers are outstanding
  trend, feed,   \* points and decisions shown, trend 0 before the first answer
  sandbox,    \* decisions of each merchant in the sandbox's memory
  hovered,    \* the chart's point under the pointer, 0 for none
  theme, isMobileMenuOpen, isDropdownOpen, dialog

vars == <<storageWorks, engineUp, savedMode, savedTheme, phase, mode, merchants,
          currentMerchant, tab, aiDegraded, loads, trend, feed, sandbox, hovered, theme,
          isMobileMenuOpen, isDropdownOpen, dialog>>
around == <<storageWorks, engineUp>>
storage == <<savedMode, savedTheme>>
scope == <<mode, merchants, currentMerchant>>
data == <<loads, trend, feed, sandbox>>
menus == <<isMobileMenuOpen, isDropdownOpen, dialog>>

NavigationTab == {"overview", "feed", "decision", "policy", "audit"}
NavItem == NavigationTab \ {"decision"}

(***************************************************************************)
(* What is on the screen.                                                  *)
(***************************************************************************)
Screen ==
  CASE phase # "running" -> phase
    [] currentMerchant = None \/ trend = 0 -> "loading"
    [] OTHER -> "console"
On(t) == Screen = "console" /\ tab = t

IsActive(item) == tab = item \/ (item = "feed" /\ tab = "decision")

BadgeOfHovered == hovered # 0
Badge == hovered # 0 /\ hovered <= trend

(***************************************************************************)
(* Launch.  localStorage is read while the modules load, in the client's   *)
(* constructor, before anything could catch the error of a blocked one.    *)
(***************************************************************************)
Init ==
  /\ storageWorks \in BOOLEAN /\ engineUp \in BOOLEAN
  /\ savedMode \in {"live", "mock"} /\ savedTheme \in {"light", "dark"}
  /\ phase = "starting" /\ mode = "mock" /\ theme = savedTheme
  /\ merchants = <<>> /\ currentMerchant = None /\ tab = "overview" /\ aiDegraded = FALSE
  /\ loads = {} /\ trend = 0 /\ feed = 0 /\ sandbox = SandboxRows /\ hovered = 0
  /\ isMobileMenuOpen = FALSE /\ isDropdownOpen = FALSE /\ dialog = "none"

getInitialState ==
  /\ phase = "starting" /\ phase' = IF storageWorks THEN "initializing" ELSE "crashed"
  /\ mode' = savedMode /\ theme' = savedTheme
  /\ UNCHANGED <<around, storage, merchants, currentMerchant, tab, aiDegraded, data, hovered, menus>>

Reload ==
  /\ phase = "running" /\ phase' = "starting" /\ UNCHANGED <<around, storage, mode, theme>>
  /\ merchants' = <<>> /\ currentMerchant' = None /\ tab' = "overview" /\ aiDegraded' = FALSE
  /\ loads' = {} /\ trend' = 0 /\ feed' = 0 /\ sandbox' = SandboxRows /\ hovered' = 0
  /\ isMobileMenuOpen' = FALSE /\ isDropdownOpen' = FALSE /\ dialog' = "none"

\* initApp: without an engine the mode becomes the sandbox's, in memory and in storage.
initApp ==
  /\ phase = "initializing" /\ phase' = "running"
  /\ mode' = IF mode = "live" /\ ~engineUp THEN "mock" ELSE mode
  /\ savedMode' = IF mode' # mode THEN mode' ELSE savedMode
  /\ merchants' = IF mode' = "live" THEN EngineMerchants ELSE SandboxMerchants
  /\ currentMerchant' = Head(merchants') /\ loads' = {Head(merchants')}
  /\ UNCHANGED <<around, savedTheme, tab, aiDegraded, trend, feed, sandbox, hovered, theme, menus>>

\* An answer of the engine, or of the sandbox, asked first or instead.
Deliver(m) ==
  /\ m \in loads /\ loads' = loads \ {m}
  /\ \/ mode = "live" /\ trend' = EngineTrend /\ feed' \in 0..MaxRows
     \/ trend' = TrendLength[m] /\ feed' = sandbox[m]
  /\ UNCHANGED <<around, storage, phase, scope, tab, aiDegraded, sandbox, hovered, theme, menus>>

(***************************************************************************)
(* Navigation, merchant scope and dialogs.                                 *)
(***************************************************************************)
\* An item of the sidebar or of the drawer, which closes.
onNavigate(item) ==
  /\ Screen = "console" /\ item \in NavItem /\ tab' = item
  /\ isMobileMenuOpen' = FALSE
  /\ hovered' = IF item = "overview" /\ tab = item THEN hovered ELSE 0
  /\ UNCHANGED <<around, storage, phase, scope, aiDegraded, data, theme, isDropdownOpen, dialog>>

\* A row of the overview or of the feed.
handleSelectDecision ==
  /\ On("overview") \/ On("feed")
  /\ feed > 0 /\ tab' = "decision" /\ hovered' = 0
  /\ UNCHANGED <<around, storage, phase, scope, aiDegraded, data, theme, menus>>

\* The sidebar's card or the drawer's select; the tab stays, and so does the pointer.
onSelectMerchant(m) ==
  /\ Screen = "console" /\ m \in ToSet(merchants)
  /\ currentMerchant' = m /\ loads' = loads \cup {m}
  /\ \/ isDropdownOpen /\ isDropdownOpen' = FALSE /\ UNCHANGED isMobileMenuOpen
     \/ isMobileMenuOpen /\ isMobileMenuOpen' = FALSE /\ UNCHANGED isDropdownOpen
  /\ UNCHANGED <<around, storage, phase, mode, merchants, tab, aiDegraded, trend, feed, sandbox,
                 hovered, theme, dialog>>

ToggleMenu ==
  /\ Screen = "console"
  /\ \/ isMobileMenuOpen' = ~isMobileMenuOpen /\ UNCHANGED isDropdownOpen
     \/ isDropdownOpen' = ~isDropdownOpen /\ UNCHANGED isMobileMenuOpen
  /\ UNCHANGED <<around, storage, phase, scope, tab, aiDegraded, data, hovered, theme, dialog>>

OpenOrClose ==
  /\ Screen = "console"
  /\ dialog' \in (IF dialog = "none" THEN {"simulate", "settings"} ELSE {"none"})
  /\ UNCHANGED <<around, storage, phase, scope, tab, aiDegraded, data, hovered, theme,
                 isMobileMenuOpen, isDropdownOpen>>

\* A simulated failure in the sandbox: the decision is prepended and investigated.
handleSimulatePayment ==
  /\ dialog = "simulate" /\ mode = "mock" /\ feed < MaxRows /\ sandbox[currentMerchant] < MaxRows
  /\ sandbox' = [sandbox EXCEPT ![currentMerchant] = @ + 1]
  /\ feed' = feed + 1 /\ tab' = "decision" /\ hovered' = 0 /\ dialog' = "none"
  /\ UNCHANGED <<around, storage, phase, scope, aiDegraded, loads, trend, theme,
                 isMobileMenuOpen, isDropdownOpen>>

\* The connection dialog switches the mode: the data is reloaded, the merchants are not.
handleConnectionChanged(m) ==
  /\ dialog = "settings" /\ dialog' = "none"
  /\ mode' = m /\ savedMode' = m /\ loads' = loads \cup {currentMerchant}
  /\ UNCHANGED <<around, savedTheme, phase, merchants, currentMerchant, tab, aiDegraded, trend,
                 feed, sandbox, hovered, theme, isMobileMenuOpen, isDropdownOpen>>

onRefresh ==
  /\ \E t \in {"overview", "feed", "audit"} : On(t)
  /\ loads' = loads \cup {currentMerchant}
  /\ UNCHANGED <<around, storage, phase, scope, tab, aiDegraded, trend, feed, sandbox, hovered,
                 theme, menus>>

(***************************************************************************)
(* The overview's chart and banners, and the theme.                        *)
(***************************************************************************)
Hover(i) ==
  /\ On("overview") /\ i \in 0..trend /\ i # hovered /\ hovered' = i
  /\ UNCHANGED <<around, storage, phase, scope, tab, aiDegraded, data, theme, menus>>

onToggleAiDegraded ==
  /\ On("overview") /\ aiDegraded' = ~aiDegraded
  /\ UNCHANGED <<around, storage, phase, scope, tab, data, hovered, theme, menus>>

OtherTheme == IF theme = "dark" THEN "light" ELSE "dark"
toggleTheme ==
  /\ Screen = "console" /\ theme' = OtherTheme /\ savedTheme' = theme'
  /\ UNCHANGED <<around, savedMode, phase, scope, tab, aiDegraded, data, hovered, menus>>

EngineStartsOrStops ==
  /\ engineUp' = ~engineUp
  /\ UNCHANGED <<storageWorks, storage, phase, scope, tab, aiDegraded, data, hovered, theme, menus>>

Next ==
  \/ getInitialState \/ initApp \/ Reload \/ \E m \in loads : Deliver(m)
  \/ \E item \in NavItem : onNavigate(item)
  \/ \E m \in Merchant : onSelectMerchant(m)
  \/ handleSelectDecision \/ handleSimulatePayment \/ onRefresh \/ ToggleMenu \/ OpenOrClose
  \/ \E m \in {"live", "mock"} : handleConnectionChanged(m)
  \/ \E i \in 0..trend : Hover(i)
  \/ onToggleAiDegraded \/ toggleTheme \/ EngineStartsOrStops

Spec == Init /\ [][Next]_vars

-----------------------------------------------------------------------------

\* The chart's badge names a point of the trend on the screen, also when the trend was
\* replaced under the pointer by a shorter one: another merchant, the other client.
BadgeNamesPoint == On("overview") /\ Badge => hovered \in 1..trend

\* The sidebar highlights one item, whichever way the tab was reached (AppShell isActive).
OneItemActive == Screen = "console" => Cardinality({i \in NavItem : IsActive(i)}) = 1

\* A reload shows the theme shown before it (theme.tsx's effect and getInitialTheme).
ThemeSurvives == [][Screen = "starting" /\ Screen' = "initializing" => theme' = theme]_vars
=============================================================================
