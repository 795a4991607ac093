------------------------------ MODULE Connection ------------------------------
(***************************************************************************)
(* The console's connection settings in three places: the client's memory, *)
(* the browser's storage from which a launch restores them, and the fields *)
(* of the connection dialog.  A health check is sent to the address in     *)
(* memory and answered later.  The merchant and the admin key are handled  *)
(* alike, each on its own: "key" stands for either.                        *)
(***************************************************************************)
EXTENDS Naturals, FiniteSets

CONSTANTS
  Url, DefaultUrl, Empty,  \* addresses; an emptied field is Empty
  Key, NoKey,              \* API keys; without one NoKey, in a field, memory and storage
  MaxChecks                \* bound on the health checks in flight

ConnectionAssumption ==
  /\ DefaultUrl \in Url /\ Empty \notin Url /\ NoKey \notin Key /\ MaxChecks \in Nat

Mode == {"live", "mock"}
Setting == [url : Url \cup {Empty}, key : Key \cup {NoKey}]

VARIABLES
  config, mode,        \* the client's memory
  stored, storedMode,  \* localStorage: Empty, NoKey and "none" stand for what is not there
  up,                  \* the addresses at which an engine answers
  isOpen, field, modeField,   \* the dialog
  checks,              \* health checks in flight, by slot: the address asked
  isChecking, health   \* the dialog's banner, health: "none", "ok" or "down"

vars == <<config, mode, stored, storedMode, up, isOpen, field, modeField, checks, isChecking, health>>
memory == <<config, mode>>
storage == <<stored, storedMode>>
dialog == <<isOpen, field, modeField>>

Restored(s) == [s EXCEPT !.url = IF @ = Empty THEN DefaultUrl ELSE @]
RestoredMode(m) == IF m = "none" THEN "mock" ELSE m

\* updateHttpConfig with an address: memory and storage.
SetUrl(u) == config' = [config EXCEPT !.url = u] /\ stored' = [stored EXCEPT !.url = u]

StartCheck(u) ==
  \E slot \in (1..MaxChecks) \ DOMAIN checks :
    /\ \A k \in (1..MaxChecks) \ DOMAIN checks : slot <= k
    /\ checks' = [s \in DOMAIN checks \cup {slot} |-> IF s = slot THEN u ELSE checks[s]]
    /\ isChecking' = TRUE

\* Opening fills the fields from memory and checks the address in it.
Open ==
  /\ ~isOpen /\ isOpen' = TRUE
  /\ field' = config /\ modeField' = mode
  /\ StartCheck(config.url)
  /\ UNCHANGED <<memory, storage, up, health>>

Type(f) ==
  /\ isOpen /\ f # field /\ field' = f
  /\ UNCHANGED <<memory, storage, up, isOpen, modeField, checks, isChecking, health>>

PickMode(m) ==
  /\ isOpen /\ m # modeField /\ modeField' = m
  /\ UNCHANGED <<memory, storage, up, isOpen, field, checks, isChecking, health>>

\* "Ping Engine": an address that is not the one in memory replaces it before the check.
testConnection ==
  /\ isOpen /\ ~isChecking
  /\ IF field.url \in {Empty, config.url} THEN UNCHANGED <<config, stored>> ELSE SetUrl(field.url)
  /\ StartCheck(config'.url)
  /\ UNCHANGED <<mode, storedMode, up, dialog, health>>

\* An answer shows whichever check it belongs to.
Answered(slot) ==
  /\ health' = IF checks[slot] \in up THEN "ok" ELSE "down"
  /\ checks' = [s \in DOMAIN checks \ {slot} |-> checks[s]]
  /\ isChecking' = FALSE
  /\ UNCHANGED <<memory, storage, up, dialog>>

\* "Apply & Switch": an empty key is not sent on.
Applied(s) ==
  [url |-> field.url,
   key |-> IF field.key = NoKey THEN s.key ELSE field.key]

SaveToMemory ==
  /\ isOpen /\ isOpen' = FALSE
  /\ config' = Applied(config) /\ stored' = [stored EXCEPT !.url = field.url]
  /\ mode' = modeField /\ storedMode' = modeField
  /\ UNCHANGED <<up, field, modeField, checks, isChecking, health>>
handleSave ==
  /\ isOpen /\ isOpen' = FALSE
  /\ config' = Applied(config) /\ stored' = Applied(stored)
  /\ mode' = modeField /\ storedMode' = modeField
  /\ UNCHANGED <<up, field, modeField, checks, isChecking, health>>

Cancel ==
  /\ isOpen /\ isOpen' = FALSE
  /\ UNCHANGED <<memory, storage, up, field, modeField, checks, isChecking, health>>

\* A launch restores memory from storage.  In live mode it checks the engine's health,
\* and without an engine it switches the mode, in memory and in storage.
Launch(s, m) ==
  /\ config' = Restored(s)
  /\ mode' = IF RestoredMode(m) = "live" /\ config'.url \notin up THEN "mock" ELSE RestoredMode(m)
  /\ stored' = s
  /\ storedMode' = IF RestoredMode(m) # mode' THEN mode' ELSE m
  /\ isOpen' = FALSE /\ checks' = [slot \in {} |-> Empty] /\ isChecking' = FALSE
  /\ field' = config' /\ modeField' = mode'
  /\ health' = "none"

Reload == Launch(stored, storedMode) /\ UNCHANGED up

\* The error page's button forgets address and mode, not the keys.
handleReset == Launch([stored EXCEPT !.url = Empty], "none") /\ UNCHANGED up

EngineStartsOrStops ==
  /\ \E u \in Url : up' = IF u \in up THEN up \ {u} ELSE up \cup {u}
  /\ UNCHANGED <<memory, storage, dialog, checks, isChecking, health>>

Init ==
  /\ config = [url |-> DefaultUrl, key |-> NoKey] /\ mode = "mock"
  /\ stored = [config EXCEPT !.url = Empty] /\ storedMode = "none"
  /\ up = {DefaultUrl}
  /\ isOpen = FALSE /\ field = config /\ modeField = mode
  /\ checks = [slot \in {} |-> Empty] /\ isChecking = FALSE
  /\ health = "none"

Next ==
  \/ Open \/ testConnection \/ handleSave \/ Cancel
  \/ \E f \in Setting : Type(f)
  \/ \E m \in Mode : PickMode(m)
  \/ \E slot \in DOMAIN checks : Answered(slot)
  \/ Reload \/ handleReset \/ EngineStartsOrStops

Spec == Init /\ [][Next]_vars

\* A check is answered or fails: the fetch ends.
FairSpec ==
  Spec /\ \A slot \in 1..MaxChecks : WF_vars(slot \in DOMAIN checks /\ Answered(slot))

-----------------------------------------------------------------------------

\* What a launch would restore is what the running console uses, after any sequence of
\* pings, cancelled dialogs, applied settings, resets and failed launches.  (An emptied
\* address is the one setting that does not survive: it restores as the default.)
RestoresWhatRuns ==
  /\ RestoredMode(storedMode) = mode
  /\ config.url # Empty => Restored(stored) = config

\* The banner does not stay at "Testing connection" (testConnection's finally).
CheckSettles == isChecking ~> ~isChecking
=============================================================================
