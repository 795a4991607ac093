---------------------------- MODULE ScreensProofs ----------------------------
(***************************************************************************)
(* Components of the console with state of their own, for any instance:    *)
(* the connection settings, the dialogs, the frame, the audit screen, the  *)
(* sandbox with its operator, and the figures of the overview and the feed.*)
(***************************************************************************)
EXTENDS MCScreens, FiniteSetTheorems, SequenceTheorems, Induction

(***************************************************************************)
(* The connection settings, for any addresses and keys.  Storage differs   *)
(* from memory in one thing: where it has no address, memory has the       *)
(* default one.                                                            *)
(***************************************************************************)
SettingsInvariant ==
  /\ {config, stored, field} \subseteq Settings!Setting
  /\ {client, modeField} \subseteq Settings!Mode
  /\ stored.key = config.key
  /\ stored.url = config.url \/ (stored.url = Empty /\ config.url = DefaultUrl)
  /\ client = Settings!RestoredMode(storedMode)

\* A launch restores what the invariant says, whatever it finds.
LEMMA LaunchRestores ==
  ASSUME NEW s \in Settings!Setting, NEW m,
         Settings!RestoredMode(m) \in Settings!Mode, Settings!Launch(s, m)
  PROVE  SettingsInvariant'
<1>1. /\ config' = Settings!Restored(s) /\ stored' = s /\ field' = config'
      /\ modeField' = client'
  BY DEF Settings!Launch
<1>2. /\ Settings!Restored(s) \in Settings!Setting
      /\ Settings!Restored(s).key = s.key
      /\ Settings!Restored(s).url = IF s.url = Empty THEN DefaultUrl ELSE s.url
  BY ComponentsAssumption DEF Settings!Restored, Settings!Setting, Settings!ConnectionAssumption
<1>3. /\ client' \in Settings!Mode
      /\ client' = Settings!RestoredMode(storedMode')
  BY DEF Settings!Launch, Settings!RestoredMode, Settings!Mode
<1>4. /\ {config', stored', field'} \subseteq Settings!Setting
      /\ {client', modeField'} \subseteq Settings!Mode
  BY <1>1, <1>2, <1>3
<1>5. /\ stored'.key = config'.key
      /\ stored'.url = config'.url \/ (stored'.url = Empty /\ config'.url = DefaultUrl)
  BY <1>1, <1>2
<1> QED  BY <1>3, <1>4, <1>5 DEF SettingsInvariant

\* Applying a setting does the same to memory and storage.
LEMMA SettingsKept ==
  ASSUME SettingsInvariant, [Settings!Next]_(Settings!vars)
  PROVE  SettingsInvariant'
<1> USE DEF SettingsInvariant
<1>1. CASE Settings!Open
  BY <1>1 DEF Settings!Open, Settings!memory, Settings!storage
<1>2. CASE Settings!testConnection
  <2>1. CASE field.url \in {Empty, config.url}
    <3>1. UNCHANGED <<config, client, stored, storedMode, field, modeField>>
      BY <1>2, <2>1 DEF Settings!testConnection, Settings!dialog
    <3> QED  BY <3>1
  <2>2. CASE field.url \notin {Empty, config.url}
    <3>1. /\ config' = [config EXCEPT !.url = field.url]
          /\ stored' = [stored EXCEPT !.url = field.url]
          /\ UNCHANGED <<client, storedMode, field, modeField>>
      BY <1>2, <2>2 DEF Settings!testConnection, Settings!SetUrl, Settings!dialog
    <3> QED  BY <3>1 DEF Settings!Setting
  <2> QED  BY <2>1, <2>2
<1>3. CASE Settings!handleSave
  <2>1. /\ config' = Settings!Applied(config) /\ stored' = Settings!Applied(stored)
        /\ client' = modeField /\ storedMode' = modeField /\ UNCHANGED <<field, modeField>>
    BY <1>3 DEF Settings!handleSave
  <2>2. \A s \in Settings!Setting :
          /\ Settings!Applied(s) \in Settings!Setting /\ Settings!Applied(s).url = field.url
          /\ Settings!Applied(s).key = IF field.key = NoKey THEN s.key ELSE field.key
    BY DEF Settings!Applied, Settings!Setting
  <2> QED  BY <2>1, <2>2 DEF Settings!RestoredMode, Settings!Mode
<1>4. CASE Settings!Cancel
  BY <1>4 DEF Settings!Cancel, Settings!memory, Settings!storage
<1>5. ASSUME NEW f \in Settings!Setting, Settings!Type(f) PROVE SettingsInvariant'
  BY <1>5 DEF Settings!Type, Settings!memory, Settings!storage
<1>6. ASSUME NEW m \in Settings!Mode, Settings!PickMode(m) PROVE SettingsInvariant'
  BY <1>6 DEF Settings!PickMode, Settings!memory, Settings!storage
<1>7. ASSUME NEW slot, Settings!Answered(slot) PROVE SettingsInvariant'
  BY <1>7 DEF Settings!Answered, Settings!memory, Settings!storage, Settings!dialog
<1>8. CASE Settings!Reload
  BY <1>8, LaunchRestores DEF Settings!Reload
<1>9. CASE Settings!handleReset
  <2>1. /\ [stored EXCEPT !.url = Empty] \in Settings!Setting
        /\ Settings!RestoredMode("none") \in Settings!Mode
    BY DEF Settings!Setting, Settings!RestoredMode, Settings!Mode
  <2> QED  BY <1>9, <2>1, LaunchRestores DEF Settings!handleReset
<1>10. CASE Settings!EngineStartsOrStops
  BY <1>10 DEF Settings!EngineStartsOrStops, Settings!memory, Settings!storage, Settings!dialog
<1>11. CASE UNCHANGED Settings!vars
  BY <1>11 DEF Settings!vars
<1> QED
  BY <1>1, <1>2, <1>3, <1>4, <1>5, <1>6, <1>7, <1>8, <1>9, <1>10, <1>11 DEF Settings!Next

(***************************************************************************)
(* A launch restores what the running console uses, after any sequence of  *)
(* pings, cancelled dialogs, applied settings, resets and failed launches. *)
(***************************************************************************)
THEOREM AlwaysRestoresWhatRuns == Settings!Spec => []RestoresWhatRuns
<1>1. Settings!Init => SettingsInvariant
  BY ComponentsAssumption DEF Settings!Init, SettingsInvariant, Settings!ConnectionAssumption, Settings!Setting,
         Settings!Mode, Settings!RestoredMode
<1>2. SettingsInvariant /\ [Settings!Next]_(Settings!vars) => SettingsInvariant'
  BY SettingsKept
<1>3. SettingsInvariant => RestoresWhatRuns
  BY DEF SettingsInvariant, RestoresWhatRuns, Settings!RestoresWhatRuns, Settings!Restored, Settings!Setting
<1> QED  BY <1>1, <1>2, <1>3, PTL DEF Settings!Spec

-----------------------------------------------------------------------------

(***************************************************************************)
(* The dialogs, any of the three and any number of calls.  A guarded       *)
(* dialog's call in flight, as long as the dialog knows of it, holds the   *)
(* button, so no second one starts.                                        *)
(***************************************************************************)
CallRecord ==
  [dialog : Dialog, arg : BOOLEAN, got : BOOLEAN, mounted : BOOLEAN,
   alone : BOOLEAN, opposed : BOOLEAN,
   at : {"write", "reread", "reply", "audit", "done", "failed"}]

\* Call i holds its dialog's button.
Holds(i) ==
  /\ calls[i].dialog \in Submitting!Guarded
  /\ calls[i].mounted /\ Submitting!InFlight(calls[i])

DialogsInvariant ==
  /\ calls \in Seq(CallRecord) /\ isSubmitting \in [Dialog -> BOOLEAN] /\ isActive \in BOOLEAN
  /\ switch \in BOOLEAN
  /\ \A i \in DOMAIN calls : calls[i].dialog = "simulate" => calls[i].mounted
  /\ \A i \in DOMAIN calls : Holds(i) => isSubmitting[calls[i].dialog]
  /\ \A i, j \in DOMAIN calls :
       Holds(i) /\ Holds(j) /\ calls[i].dialog = calls[j].dialog => i = j
  /\ \A i \in DOMAIN calls : calls[i].at \in {"reread", "reply"} => calls[i].dialog = "kill"

\* A step that starts no call keeps the invariant if it gives a button back only with the
\* call that holds it.
LEMMA NoneStarted ==
  ASSUME DialogsInvariant, calls' \in Seq(CallRecord), Len(calls') = Len(calls),
         isSubmitting' \in [Dialog -> BOOLEAN], isActive' \in BOOLEAN, switch' \in BOOLEAN,
         \A i \in DOMAIN calls :
           /\ calls'[i].dialog = calls[i].dialog
           /\ calls'[i].dialog = "simulate" => calls'[i].mounted
           /\ Holds(i)' => Holds(i) /\ isSubmitting'[calls[i].dialog]
           /\ calls'[i].at \in {"reread", "reply"} => calls[i].dialog = "kill"
  PROVE  DialogsInvariant'
<1>1. DOMAIN calls' = DOMAIN calls
  BY DEF DialogsInvariant
<1>2. \A i, j \in DOMAIN calls' :
        Holds(i)' /\ Holds(j)' /\ calls'[i].dialog = calls'[j].dialog => i = j
  BY <1>1 DEF DialogsInvariant
<1> QED  BY <1>1, <1>2 DEF DialogsInvariant

\* Two records of one call agree on the switch.
SamePosition(c, b) == c.arg = b.arg /\ c.got = b.got /\ c.alone = b.alone /\ c.opposed = b.opposed

\* A screen that is left changes its dialogs' calls in one thing.
LEMMA CallsForgotten ==
  ASSUME NEW cs \in Seq(CallRecord), NEW S
  PROVE  /\ Submitting!UnmountedCalls(cs, S) \in Seq(CallRecord)
         /\ Len(Submitting!UnmountedCalls(cs, S)) = Len(cs)
         /\ \A i \in DOMAIN cs :
              LET c == Submitting!UnmountedCalls(cs, S)[i]
              IN /\ c.dialog = cs[i].dialog /\ c.at = cs[i].at /\ SamePosition(c, cs[i])
                 /\ c.mounted = (cs[i].mounted /\ cs[i].dialog \notin S)
<1> DEFINE map(i) == IF cs[i].dialog \in S THEN [cs[i] EXCEPT !.mounted = FALSE] ELSE cs[i]
           n == Len(cs)
<1>1. n \in Nat /\ DOMAIN cs = 1..n /\ \A i \in 1..n : cs[i] \in CallRecord
  OBVIOUS
<1>2. ASSUME NEW i \in 1..n
      PROVE  /\ map(i) \in CallRecord
             /\ map(i).dialog = cs[i].dialog /\ map(i).at = cs[i].at /\ SamePosition(map(i), cs[i])
             /\ map(i).mounted = (cs[i].mounted /\ cs[i].dialog \notin S)
  BY <1>1 DEF CallRecord, SamePosition
<1> HIDE DEF map
<1>3. [i \in 1..n |-> map(i)] \in Seq(CallRecord) /\ Len([i \in 1..n |-> map(i)]) = n
  BY <1>1, <1>2
<1>4. Submitting!UnmountedCalls(cs, S) = [i \in 1..n |-> map(i)]
  BY <1>1 DEF map, Submitting!UnmountedCalls
<1> QED  BY <1>1, <1>2, <1>3, <1>4

\* Leaving screens makes their dialogs forget their calls and their buttons.
LEMMA Forgets ==
  ASSUME DialogsInvariant, NEW S, S \subseteq Submitting!OnScreen,
         isSubmitting' = Submitting!Unmounted(isSubmitting, S),
         calls' = Submitting!UnmountedCalls(calls, S), UNCHANGED <<switch, isActive>>
  PROVE  DialogsInvariant'
<1>1. /\ calls' \in Seq(CallRecord) /\ Len(calls') = Len(calls)
      /\ \A i \in DOMAIN calls :
           /\ calls'[i].dialog = calls[i].dialog /\ calls'[i].at = calls[i].at
           /\ calls'[i].mounted = (calls[i].mounted /\ calls[i].dialog \notin S)
  BY CallsForgotten DEF DialogsInvariant
<1>2. /\ isSubmitting' \in [Dialog -> BOOLEAN]
      /\ \A d \in Dialog : d \notin S => isSubmitting'[d] = isSubmitting[d]
  BY DEF DialogsInvariant, Submitting!Unmounted
<1>3. \A i \in DOMAIN calls : calls[i] \in CallRecord
  BY DEF DialogsInvariant
<1>4. ASSUME NEW i \in DOMAIN calls
      PROVE  /\ calls'[i].dialog = calls[i].dialog /\ calls'[i].at = calls[i].at
             /\ calls'[i].dialog = "simulate" => calls'[i].mounted
             /\ Holds(i)' => Holds(i) /\ isSubmitting'[calls[i].dialog]
  <2>1. calls[i].dialog \in Dialog
    BY <1>3 DEF CallRecord
  <2>2. Holds(i)' => Holds(i) /\ calls[i].dialog \notin S
    BY <1>1 DEF Holds, Submitting!InFlight
  <2> QED  BY <1>1, <1>2, <2>1, <2>2 DEF DialogsInvariant, Submitting!OnScreen
<1>5. /\ isActive' \in BOOLEAN /\ switch' \in BOOLEAN
      /\ \A i \in DOMAIN calls : calls'[i].at \in {"reread", "reply"} => calls[i].dialog = "kill"
  BY <1>4 DEF DialogsInvariant
<1> QED  BY <1>1, <1>2, <1>4, <1>5, NoneStarted

\* A step of call i leaves the other calls alone.
LEMMA CallMoves ==
  ASSUME DialogsInvariant, NEW i \in DOMAIN calls,
         NEW at \in {"reread", "audit", "done", "failed"},
         calls' = [calls EXCEPT ![i].at = at]
  PROVE  /\ calls' \in Seq(CallRecord) /\ Len(calls') = Len(calls)
         /\ \A k \in DOMAIN calls :
              /\ calls'[k].dialog = calls[k].dialog /\ calls'[k].mounted = calls[k].mounted
              /\ SamePosition(calls'[k], calls[k])
              /\ calls'[k].at = IF k = i THEN at ELSE calls[k].at
<1>1. \A k \in DOMAIN calls : calls[k] \in CallRecord
  BY DEF DialogsInvariant
<1>2. [calls[i] EXCEPT !.at = at] \in CallRecord
  BY <1>1 DEF CallRecord
<1> QED  BY <1>1, <1>2 DEF DialogsInvariant, CallRecord, SamePosition

\* Its last step, with which its dialog closes.
LEMMA CallEnds ==
  ASSUME DialogsInvariant, NEW i \in DOMAIN calls, NEW at \in {"done", "failed"},
         Submitting!InFlight(calls[i]),
         calls' = [calls EXCEPT ![i].at = at], UNCHANGED <<switch, isActive>>,
         isSubmitting' \in [Dialog -> BOOLEAN],
         \A d \in Dialog :
           ~(d = calls[i].dialog /\ calls[i].mounted) => isSubmitting'[d] = isSubmitting[d]
  PROVE  DialogsInvariant'
<1>1. /\ calls' \in Seq(CallRecord) /\ Len(calls') = Len(calls)
      /\ \A k \in DOMAIN calls :
           /\ calls'[k].dialog = calls[k].dialog /\ calls'[k].mounted = calls[k].mounted
           /\ calls'[k].at = IF k = i THEN at ELSE calls[k].at
  <2>1. at \in {"reread", "audit", "done", "failed"}
    OBVIOUS
  <2> QED  BY <2>1, CallMoves
<1>2. ASSUME NEW k \in DOMAIN calls, Holds(k)'
      PROVE  Holds(k) /\ isSubmitting'[calls[k].dialog]
  <2>1. k # i /\ Holds(k)
    BY <1>1, <1>2 DEF Holds, Submitting!InFlight
  <2>2. isSubmitting[calls[k].dialog] /\ calls[k].dialog \in Dialog
    <3>1. calls[k] \in CallRecord
      BY DEF DialogsInvariant
    <3>2. calls[k].dialog \in Dialog
      BY <3>1 DEF CallRecord
    <3> QED  BY <2>1, <3>2 DEF DialogsInvariant
  <2>3. ~(calls[k].dialog = calls[i].dialog /\ calls[i].mounted)
    <3>1. SUFFICES ASSUME calls[k].dialog = calls[i].dialog, calls[i].mounted PROVE FALSE
      OBVIOUS
    <3>2. Holds(i)
      BY <2>1, <3>1 DEF Holds
    <3> QED  BY <2>1, <3>1, <3>2 DEF DialogsInvariant
  <2>4. isSubmitting'[calls[k].dialog] = isSubmitting[calls[k].dialog]
    BY <2>2, <2>3
  <2> QED  BY <2>1, <2>2, <2>4
<1>3. /\ isActive' \in BOOLEAN /\ switch' \in BOOLEAN
      /\ \A k \in DOMAIN calls :
           /\ calls'[k].at \in {"reread", "reply"} => calls[k].dialog = "kill"
           /\ calls'[k].dialog = "simulate" => calls'[k].mounted
  BY <1>1 DEF DialogsInvariant
<1> QED  BY <1>1, <1>2, <1>3, NoneStarted

\* What is submitted.
LEMMA SubmittedCall ==
  ASSUME DialogsInvariant, NEW d \in Dialog
  PROVE  LET c == Submitting!Call(d)
         IN /\ c \in CallRecord /\ c.dialog = d /\ c.at = "write" /\ c.mounted
            /\ d = "kill" =>
                 /\ c.arg = ~isActive
                 /\ c.alone = \A i \in DOMAIN calls : ~Submitting!Pending(calls[i])
                 /\ c.opposed = \E i \in DOMAIN calls : Submitting!Pending(calls[i]) /\ calls[i].arg = isActive
            /\ d # "kill" => ~c.alone
<1> DEFINE pending == {i \in DOMAIN calls : Submitting!Pending(calls[i])}
<1>1. PICK a \in BOOLEAN : a = (d = "kill" /\ pending = {})
  OBVIOUS
<1>2. PICK o \in BOOLEAN : o = (d = "kill" /\ \E i \in pending : calls[i].arg = isActive)
  OBVIOUS
<1>3. PICK p \in BOOLEAN : p = (d = "kill" /\ ~isActive)
  OBVIOUS
<1>4. Submitting!Call(d) =
        [dialog |-> d, arg |-> p, got |-> FALSE, at |-> "write", mounted |-> TRUE, alone |-> a, opposed |-> o]
  BY <1>1, <1>2, <1>3 DEF Submitting!Call
<1>5. isActive \in BOOLEAN
  BY DEF DialogsInvariant
<1>6. PICK c : c = Submitting!Call(d)
  OBVIOUS
<1>7. /\ c.dialog = d /\ c.at = "write" /\ c.mounted /\ c.arg = p /\ c.alone = a /\ c.opposed = o
      /\ c \in CallRecord
  BY <1>4, <1>6 DEF CallRecord
<1>8. d = "kill" =>
        /\ p = ~isActive
        /\ a = \A i \in DOMAIN calls : ~Submitting!Pending(calls[i])
        /\ o = \E i \in DOMAIN calls : Submitting!Pending(calls[i]) /\ calls[i].arg = isActive
  <2>1. pending = {} <=> \A i \in DOMAIN calls : ~Submitting!Pending(calls[i])
    OBVIOUS
  <2>2. (\E i \in pending : calls[i].arg = isActive)
          <=> \E i \in DOMAIN calls : Submitting!Pending(calls[i]) /\ calls[i].arg = isActive
    OBVIOUS
  <2> HIDE DEF pending
  <2> QED  BY <1>1, <1>2, <1>3, <1>5, <2>1, <2>2
<1>9. d # "kill" => ~a
  BY <1>1
<1> HIDE DEF pending
<1> QED  BY <1>6, <1>7, <1>8, <1>9

\* A submitted call is the only one to hold its button: the button was enabled.
LEMMA SubmitKeeps ==
  ASSUME DialogsInvariant, NEW d \in Dialog, Submitting!Submit(d) PROVE DialogsInvariant'
<1> DEFINE c == Submitting!Call(d)
<1>0. PICK n : n = Len(calls)
  OBVIOUS
<1>1. /\ ~isSubmitting[d] /\ calls' = Append(calls, c) /\ UNCHANGED <<switch, isActive>>
      /\ isSubmitting' = [isSubmitting EXCEPT ![d] = d \in Submitting!Guarded]
  BY DEF Submitting!Submit
<1>2. c \in CallRecord /\ c.dialog = d /\ c.at = "write" /\ c.mounted
  BY SubmittedCall
<1> HIDE DEF c
<1>3. /\ n \in Nat /\ DOMAIN calls = 1..n /\ DOMAIN calls' = 1..(n + 1)
      /\ calls' \in Seq(CallRecord) /\ calls'[n + 1] = c
      /\ \A i \in 1..n : calls'[i] = calls[i] /\ calls[i] \in CallRecord
  BY <1>0, <1>1, <1>2 DEF DialogsInvariant
<1>4. /\ isSubmitting' \in [Dialog -> BOOLEAN]
      /\ d \in Submitting!Guarded => isSubmitting'[d]
      /\ \A x \in Dialog \ {d} : isSubmitting'[x] = isSubmitting[x]
  <2>1. PICK b \in BOOLEAN : b = (d \in Submitting!Guarded)
    <3>1. (d \in Submitting!Guarded) \in BOOLEAN
      OBVIOUS
    <3> QED  BY <3>1, Zenon
  <2>2. isSubmitting \in [Dialog -> BOOLEAN] /\ isSubmitting' = [isSubmitting EXCEPT ![d] = b]
    BY <1>1, <2>1 DEF DialogsInvariant
  <2>3. /\ isSubmitting' \in [Dialog -> BOOLEAN] /\ isSubmitting'[d] = b
        /\ \A x \in Dialog \ {d} : isSubmitting'[x] = isSubmitting[x]
    BY <2>2
  <2> QED  BY <2>1, <2>3
<1>5. ASSUME NEW i \in 1..n, Holds(i)'
      PROVE  Holds(i) /\ calls[i].dialog \in Dialog \ {d} /\ isSubmitting[calls[i].dialog]
  <2>1. Holds(i) /\ calls[i].dialog \in Dialog
    BY <1>3, <1>5 DEF Holds, CallRecord
  <2>2. isSubmitting[calls[i].dialog]
    BY <1>3, <2>1 DEF DialogsInvariant
  <2> QED  BY <1>1, <2>1, <2>2
<1>6. \A i \in DOMAIN calls' : Holds(i)' => isSubmitting'[calls'[i].dialog]
  <2>1. Holds(n + 1)' => isSubmitting'[calls'[n + 1].dialog]
    <3>1. calls'[n + 1].dialog = d
      BY <1>2, <1>3
    <3>2. Holds(n + 1)' => d \in Submitting!Guarded
      BY <3>1 DEF Holds
    <3> QED  BY <1>4, <3>1, <3>2
  <2>2. ASSUME NEW i \in 1..n, Holds(i)' PROVE isSubmitting'[calls'[i].dialog]
    BY <1>3, <1>4, <1>5, <2>2
  <2>3. DOMAIN calls' = 1..n \cup {n + 1}
    BY <1>3
  <2> QED  BY <2>1, <2>2, <2>3
<1>7. \A i, j \in DOMAIN calls' :
        Holds(i)' /\ Holds(j)' /\ calls'[i].dialog = calls'[j].dialog => i = j
  <2>1. SUFFICES ASSUME NEW i \in DOMAIN calls', NEW j \in DOMAIN calls', Holds(i)', Holds(j)',
                        calls'[i].dialog = calls'[j].dialog
                 PROVE  i = j
    OBVIOUS
  <2>2. CASE i \in 1..n /\ j \in 1..n
    BY <1>3, <1>5, <2>1, <2>2 DEF DialogsInvariant
  <2>3. CASE i = n + 1 /\ j \in 1..n
    BY <1>2, <1>3, <1>5, <2>1, <2>3
  <2>4. CASE i \in 1..n /\ j = n + 1
    BY <1>2, <1>3, <1>5, <2>1, <2>4
  <2> QED  BY <1>3, <2>1, <2>2, <2>3, <2>4
<1>8. \A i \in DOMAIN calls' :
        /\ calls'[i].dialog = "simulate" => calls'[i].mounted
        /\ calls'[i].at \in {"reread", "reply"} => calls'[i].dialog = "kill"
  BY <1>2, <1>3 DEF DialogsInvariant
<1>9. isActive' \in BOOLEAN /\ switch' \in BOOLEAN
  BY <1>1 DEF DialogsInvariant
<1> QED  BY <1>3, <1>4, <1>6, <1>7, <1>8, <1>9 DEF DialogsInvariant

LEMMA WriteKeeps ==
  ASSUME DialogsInvariant, NEW i \in DOMAIN calls, Submitting!Write(i) PROVE DialogsInvariant'
<1> DEFINE at == IF calls[i].dialog = "kill" THEN "reread" ELSE "audit"
<1>1. /\ calls[i].at = "write" /\ calls' = [calls EXCEPT ![i].at = at]
      /\ switch' = IF calls[i].dialog = "kill" THEN calls[i].arg ELSE switch
      /\ UNCHANGED <<isActive, isSubmitting>>
  BY DEF Submitting!Write
<1>2. at \in {"reread", "audit", "done", "failed"} /\ (at \in {"reread", "reply"} => calls[i].dialog = "kill")
  OBVIOUS
<1> HIDE DEF at
<1>3. /\ calls' \in Seq(CallRecord) /\ Len(calls') = Len(calls)
      /\ \A k \in DOMAIN calls :
           /\ calls'[k].dialog = calls[k].dialog /\ calls'[k].mounted = calls[k].mounted
           /\ calls'[k].at = IF k = i THEN at ELSE calls[k].at
  BY <1>1, <1>2, CallMoves
<1>4. isActive' \in BOOLEAN /\ switch' \in BOOLEAN /\ isSubmitting' \in [Dialog -> BOOLEAN]
  <2>1. calls[i] \in CallRecord
    BY DEF DialogsInvariant
  <2>2. calls[i].arg \in BOOLEAN
    BY <2>1 DEF CallRecord
  <2> QED  BY <1>1, <2>2 DEF DialogsInvariant
<1>5. ASSUME NEW k \in DOMAIN calls, Holds(k)' PROVE Holds(k) /\ isSubmitting'[calls[k].dialog]
  <2>1. Holds(k)
    BY <1>1, <1>3, <1>5 DEF Holds, Submitting!InFlight
  <2> QED  BY <1>1, <2>1 DEF DialogsInvariant
<1>6. \A k \in DOMAIN calls :
        /\ calls'[k].dialog = "simulate" => calls'[k].mounted
        /\ calls'[k].at \in {"reread", "reply"} => calls[k].dialog = "kill"
  BY <1>2, <1>3 DEF DialogsInvariant
<1> QED  BY <1>3, <1>4, <1>5, <1>6, NoneStarted

\* The re-read changes its call in two fields.
LEMMA CallReads ==
  ASSUME DialogsInvariant, NEW i \in DOMAIN calls, Submitting!Reread(i)
  PROVE  /\ calls' \in Seq(CallRecord) /\ Len(calls') = Len(calls)
         /\ \A k \in DOMAIN calls :
              /\ calls'[k].dialog = calls[k].dialog /\ calls'[k].mounted = calls[k].mounted
              /\ calls'[k].arg = calls[k].arg
              /\ calls'[k].alone = calls[k].alone /\ calls'[k].opposed = calls[k].opposed
              /\ calls'[k].got = IF k = i THEN switch ELSE calls[k].got
              /\ calls'[k].at = IF k = i THEN "reply" ELSE calls[k].at
<1>1. \A k \in DOMAIN calls : calls[k] \in CallRecord
  BY DEF DialogsInvariant
<1>2. PICK c : c = [calls[i] EXCEPT !.at = "reply", !.got = switch]
  OBVIOUS
<1>3. /\ c \in CallRecord /\ c.dialog = calls[i].dialog /\ c.mounted = calls[i].mounted
      /\ c.arg = calls[i].arg /\ c.alone = calls[i].alone /\ c.opposed = calls[i].opposed
      /\ c.got = switch /\ c.at = "reply"
  BY <1>1, <1>2 DEF CallRecord, DialogsInvariant
<1>4. calls' = [calls EXCEPT ![i] = c]
  BY <1>1, <1>2 DEF Submitting!Reread, DialogsInvariant, CallRecord
<1> QED  BY <1>3, <1>4 DEF DialogsInvariant

LEMMA RereadKeeps ==
  ASSUME DialogsInvariant, NEW i \in DOMAIN calls, Submitting!Reread(i) PROVE DialogsInvariant'
<1>1. calls[i].at = "reread" /\ UNCHANGED <<switch, isActive, isSubmitting>>
  BY DEF Submitting!Reread
<1>2. /\ calls' \in Seq(CallRecord) /\ Len(calls') = Len(calls)
      /\ \A k \in DOMAIN calls :
           /\ calls'[k].dialog = calls[k].dialog /\ calls'[k].mounted = calls[k].mounted
           /\ calls'[k].at = IF k = i THEN "reply" ELSE calls[k].at
  BY CallReads
<1>3. isActive' \in BOOLEAN /\ switch' \in BOOLEAN /\ isSubmitting' \in [Dialog -> BOOLEAN]
  BY <1>1 DEF DialogsInvariant
<1>4. ASSUME NEW k \in DOMAIN calls, Holds(k)' PROVE Holds(k) /\ isSubmitting'[calls[k].dialog]
  <2>1. Holds(k)
    BY <1>1, <1>2, <1>4 DEF Holds, Submitting!InFlight
  <2> QED  BY <1>1, <2>1 DEF DialogsInvariant
<1>5. \A k \in DOMAIN calls :
        /\ calls'[k].dialog = "simulate" => calls'[k].mounted
        /\ calls'[k].at \in {"reread", "reply"} => calls[k].dialog = "kill"
  BY <1>1, <1>2 DEF DialogsInvariant
<1> QED  BY <1>2, <1>3, <1>4, <1>5, NoneStarted

LEMMA ShowKeeps ==
  ASSUME DialogsInvariant, NEW i \in DOMAIN calls, Submitting!Show(i) PROVE DialogsInvariant'
<1>1. /\ calls[i].at = "reply" /\ calls' = [calls EXCEPT ![i].at = "audit"]
      /\ isActive' = calls[i].got /\ UNCHANGED <<switch, isSubmitting>>
  BY DEF Submitting!Show
<1>2. /\ calls' \in Seq(CallRecord) /\ Len(calls') = Len(calls)
      /\ \A k \in DOMAIN calls :
           /\ calls'[k].dialog = calls[k].dialog /\ calls'[k].mounted = calls[k].mounted
           /\ calls'[k].at = IF k = i THEN "audit" ELSE calls[k].at
  BY <1>1, CallMoves
<1>3. isActive' \in BOOLEAN /\ switch' \in BOOLEAN /\ isSubmitting' \in [Dialog -> BOOLEAN]
  <2>1. calls[i] \in CallRecord
    BY DEF DialogsInvariant
  <2>2. calls[i].got \in BOOLEAN
    BY <2>1 DEF CallRecord
  <2> QED  BY <1>1, <2>2 DEF DialogsInvariant
<1>4. ASSUME NEW k \in DOMAIN calls, Holds(k)' PROVE Holds(k) /\ isSubmitting'[calls[k].dialog]
  <2>1. Holds(k)
    BY <1>1, <1>2, <1>4 DEF Holds, Submitting!InFlight
  <2> QED  BY <1>1, <2>1 DEF DialogsInvariant
<1>5. \A k \in DOMAIN calls :
        /\ calls'[k].dialog = "simulate" => calls'[k].mounted
        /\ calls'[k].at \in {"reread", "reply"} => calls[k].dialog = "kill"
  BY <1>2 DEF DialogsInvariant
<1> QED  BY <1>2, <1>3, <1>4, <1>5, NoneStarted

\* A simulation that is through ends its call and forgets those of the policy screen.
LEMMA SimulationCalls ==
  ASSUME DialogsInvariant, NEW i \in DOMAIN calls, Submitting!DoneSimulating(i)
  PROVE  /\ calls' \in Seq(CallRecord) /\ Len(calls') = Len(calls)
         /\ \A k \in DOMAIN calls :
              /\ calls'[k].dialog = calls[k].dialog /\ SamePosition(calls'[k], calls[k])
              /\ calls'[k].at = IF k = i THEN "done" ELSE calls[k].at
              /\ calls'[k].mounted = (calls[k].mounted /\ calls[k].dialog # "kill")
<1>1. PICK cs : cs = [calls EXCEPT ![i].at = "done"]
  OBVIOUS
<1>2. calls' = Submitting!UnmountedCalls(cs, {"kill"})
  BY <1>1 DEF Submitting!DoneSimulating
<1>3. \A k \in DOMAIN calls : calls[k] \in CallRecord
  BY DEF DialogsInvariant
<1>4. [calls[i] EXCEPT !.at = "done"] \in CallRecord
  BY <1>3 DEF CallRecord
<1>5. /\ cs \in Seq(CallRecord) /\ Len(cs) = Len(calls)
      /\ \A k \in DOMAIN calls :
           /\ cs[k].dialog = calls[k].dialog /\ cs[k].mounted = calls[k].mounted
           /\ SamePosition(cs[k], calls[k])
           /\ cs[k].at = IF k = i THEN "done" ELSE calls[k].at
  BY <1>1, <1>3, <1>4 DEF DialogsInvariant, CallRecord, SamePosition
<1>6. DOMAIN cs = DOMAIN calls
  BY <1>5 DEF DialogsInvariant
<1>7. \A k \in DOMAIN calls :
        /\ calls'[k].dialog = cs[k].dialog /\ calls'[k].at = cs[k].at /\ SamePosition(calls'[k], cs[k])
        /\ calls'[k].mounted = (cs[k].mounted /\ cs[k].dialog # "kill")
  BY <1>2, <1>5, <1>6, CallsForgotten
<1>8. \A k \in DOMAIN calls : SamePosition(calls'[k], calls[k])
  BY <1>5, <1>7 DEF SamePosition
<1>9. calls' \in Seq(CallRecord) /\ Len(calls') = Len(calls)
  BY <1>2, <1>5, CallsForgotten
<1> QED  BY <1>5, <1>7, <1>8, <1>9

\* It gives its own button back.
LEMMA SimulationKeeps ==
  ASSUME DialogsInvariant, NEW i \in DOMAIN calls, Submitting!DoneSimulating(i)
  PROVE  DialogsInvariant'
<1>1. /\ calls[i].at = "audit" /\ calls[i].dialog = "simulate"
      /\ isSubmitting' = Submitting!Unmounted(isSubmitting, {"kill", "simulate"})
      /\ UNCHANGED <<switch, isActive>>
  BY DEF Submitting!DoneSimulating
<1>2. \A k \in DOMAIN calls : calls[k] \in CallRecord
  BY DEF DialogsInvariant
<1>3. /\ calls' \in Seq(CallRecord) /\ Len(calls') = Len(calls)
      /\ \A k \in DOMAIN calls :
           /\ calls'[k].dialog = calls[k].dialog
           /\ calls'[k].at = IF k = i THEN "done" ELSE calls[k].at
           /\ calls'[k].mounted = (calls[k].mounted /\ calls[k].dialog # "kill")
  BY SimulationCalls
<1>4. /\ isSubmitting' \in [Dialog -> BOOLEAN]
      /\ \A d \in Dialog \ {"kill", "simulate"} : isSubmitting'[d] = isSubmitting[d]
  BY <1>1 DEF DialogsInvariant, Submitting!Unmounted
<1>5. ASSUME NEW k \in DOMAIN calls, Holds(k)' PROVE Holds(k) /\ isSubmitting'[calls[k].dialog]
  <2>1. k # i /\ Holds(k)
    BY <1>3, <1>5 DEF Holds, Submitting!InFlight
  <2>2. Holds(i)
    BY <1>1 DEF DialogsInvariant, Holds, Submitting!InFlight, Submitting!Guarded
  <2>3. calls[k].dialog \in Dialog \ {"kill", "simulate"}
    <3>1. calls[k].dialog # "simulate"
      BY <1>1, <2>1, <2>2 DEF DialogsInvariant
    <3> QED  BY <1>2, <2>1, <3>1 DEF CallRecord, Holds, Submitting!Guarded
  <2>4. isSubmitting[calls[k].dialog]
    BY <2>1 DEF DialogsInvariant
  <2> QED  BY <1>4, <2>1, <2>3, <2>4
<1>6. /\ isActive' \in BOOLEAN /\ switch' \in BOOLEAN
      /\ \A k \in DOMAIN calls :
           /\ calls'[k].dialog = "simulate" => calls'[k].mounted
           /\ calls'[k].at \in {"reread", "reply"} => calls[k].dialog = "kill"
  BY <1>1, <1>3 DEF DialogsInvariant
<1> QED  BY <1>3, <1>4, <1>5, <1>6, NoneStarted

LEMMA DoneKeeps ==
  ASSUME DialogsInvariant, NEW i \in DOMAIN calls, Submitting!Done(i) PROVE DialogsInvariant'
<1>1. /\ calls[i].at = "audit" /\ calls' = [calls EXCEPT ![i].at = "done"]
      /\ UNCHANGED <<switch, isActive>>
      /\ \/ /\ calls[i].mounted
            /\ isSubmitting' = [isSubmitting EXCEPT ![calls[i].dialog] = FALSE]
         \/ isSubmitting' = isSubmitting
  BY DEF Submitting!Done
<1>2. isSubmitting' \in [Dialog -> BOOLEAN]
  BY <1>1 DEF DialogsInvariant
<1>3. \A d \in Dialog :
        ~(d = calls[i].dialog /\ calls[i].mounted) => isSubmitting'[d] = isSubmitting[d]
  BY <1>1 DEF DialogsInvariant
<1>4. Submitting!InFlight(calls[i])
  BY <1>1 DEF Submitting!InFlight
<1> QED  BY <1>1, <1>2, <1>3, <1>4, CallEnds

LEMMA FailKeeps ==
  ASSUME DialogsInvariant, NEW i \in DOMAIN calls, Submitting!Fail(i) PROVE DialogsInvariant'
<1> DEFINE d == calls[i].dialog
<1>1. /\ calls[i].at = CASE d = "kill" -> "reread" [] d = "override" -> "write" [] OTHER -> "audit"
      /\ calls' = [calls EXCEPT ![i].at = "failed"] /\ UNCHANGED <<switch, isActive>>
      /\ isSubmitting' = [isSubmitting EXCEPT ![d] = @ /\ ~calls[i].mounted]
  BY DEF Submitting!Fail
<1>2. isSubmitting' \in [Dialog -> BOOLEAN]
      /\ \A x \in Dialog : ~(x = d /\ calls[i].mounted) => isSubmitting'[x] = isSubmitting[x]
  <2>1. PICK b \in BOOLEAN : b = (isSubmitting[d] /\ ~calls[i].mounted)
    OBVIOUS
  <2>2. isSubmitting \in [Dialog -> BOOLEAN] /\ isSubmitting' = [isSubmitting EXCEPT ![d] = b]
    BY <1>1, <2>1 DEF DialogsInvariant
  <2>3. /\ isSubmitting' \in [Dialog -> BOOLEAN]
        /\ \A x \in Dialog : isSubmitting'[x] = IF x = d THEN b ELSE isSubmitting[x]
    BY <2>2
  <2>4. d \in Dialog /\ isSubmitting[d] \in BOOLEAN
    <3>1. calls[i] \in CallRecord
      BY DEF DialogsInvariant
    <3> QED  BY <2>2, <3>1 DEF CallRecord
  <2>5. ~calls[i].mounted => b = isSubmitting[d]
    BY <2>1, <2>4
  <2> QED  BY <2>3, <2>5
<1>3. Submitting!InFlight(calls[i])
  BY <1>1 DEF Submitting!InFlight
<1> QED  BY <1>1, <1>2, <1>3, CallEnds

LEMMA DialogsKept ==
  ASSUME DialogsInvariant, [Submitting!Next]_(Submitting!vars) PROVE DialogsInvariant'
<1>1. ASSUME UNCHANGED <<switch, isActive, isSubmitting, calls>> PROVE DialogsInvariant'
  BY <1>1 DEF DialogsInvariant, Holds, Submitting!InFlight
<1>2. ASSUME NEW d \in Dialog, Submitting!OpenDialog(d) PROVE DialogsInvariant'
  <2>1. Submitting!Elsewhere(d) \subseteq Submitting!OnScreen
    BY DEF Submitting!Elsewhere
  <2> QED  BY <1>2, <2>1, Forgets DEF Submitting!OpenDialog
<1>3. ASSUME NEW d \in Dialog, Submitting!Leave(d) PROVE DialogsInvariant'
  BY <1>3, Forgets DEF Submitting!Leave
<1>4. ASSUME NEW d \in Dialog,
             Submitting!Type(d) \/ Submitting!SubmitBlank(d) \/ Submitting!Close(d)
      PROVE  DialogsInvariant'
  BY <1>1, <1>4 DEF Submitting!Type, Submitting!SubmitBlank, Submitting!Close
<1>5. CASE UNCHANGED Submitting!vars
  BY <1>1, <1>5 DEF Submitting!vars
<1> QED
  BY <1>2, <1>3, <1>4, <1>5, SubmitKeeps, WriteKeeps, RereadKeeps, ShowKeeps, SimulationKeeps,
     DoneKeeps, FailKeeps DEF Submitting!Next, Submitting!Answer

(***************************************************************************)
(* The position shown.  As long as the calls since the last one submitted  *)
(* alone agree and none is lost, those pending ask for one position: what  *)
(* has been written and not shown yet is that position, so every reply     *)
(* that arrives shows what is stored.                                      *)
(***************************************************************************)
Calm ==
  \A i \in DOMAIN calls : Submitting!Recent(i) => calls[i].at # "failed" /\ ~calls[i].opposed

PendingAgree ==
  \A i, j \in DOMAIN calls :
    Submitting!Pending(calls[i]) /\ Submitting!Pending(calls[j]) => calls[i].arg = calls[j].arg

WrittenStored ==
  \A i \in DOMAIN calls :
    /\ calls[i].dialog = "kill" /\ calls[i].at \in {"reread", "reply"} => switch = calls[i].arg
    /\ calls[i].dialog = "kill" /\ calls[i].at = "reply" => calls[i].got = calls[i].arg

ShownOrPending == isActive = switch \/ \E i \in DOMAIN calls : Submitting!Pending(calls[i])

SwitchInvariant ==
  /\ \A i \in DOMAIN calls : Submitting!Pending(calls[i]) => Submitting!Recent(i)
  /\ Calm => PendingAgree /\ WrittenStored /\ ShownOrPending

\* A step that starts no call keeps the invariant if it takes back no failure, makes no call
\* pending, and leaves the positions as they should be.
LEMMA NoneToggled ==
  ASSUME SwitchInvariant, DOMAIN calls' = DOMAIN calls,
         \A i \in DOMAIN calls :
           /\ calls'[i].dialog = calls[i].dialog /\ calls'[i].arg = calls[i].arg
           /\ calls'[i].alone = calls[i].alone /\ calls'[i].opposed = calls[i].opposed
           /\ Submitting!Pending(calls'[i]) => Submitting!Pending(calls[i])
           /\ calls[i].at = "failed" => calls'[i].at = "failed",
         Calm /\ Calm' => WrittenStored' /\ ShownOrPending'
  PROVE  SwitchInvariant'
<1>1. \A i \in DOMAIN calls : Submitting!Recent(i)' <=> Submitting!Recent(i)
  BY DEF Submitting!Recent
<1>2. Calm' => Calm
  BY <1>1 DEF Calm
<1>3. PendingAgree => PendingAgree'
  BY DEF PendingAgree
<1> QED  BY <1>1, <1>2, <1>3 DEF SwitchInvariant

\* So does one that moves no pending call and neither position.
LEMMA SwitchUntouched ==
  ASSUME SwitchInvariant, DOMAIN calls' = DOMAIN calls, UNCHANGED <<switch, isActive>>,
         \A i \in DOMAIN calls :
           /\ calls'[i].dialog = calls[i].dialog /\ SamePosition(calls'[i], calls[i])
           /\ \/ calls'[i].at = calls[i].at
              \/ /\ ~Submitting!Pending(calls[i]) /\ ~Submitting!Pending(calls'[i])
                 /\ calls[i].at # "failed"
  PROVE  SwitchInvariant'
<1>1. \A i \in DOMAIN calls :
        /\ Submitting!Pending(calls'[i]) <=> Submitting!Pending(calls[i])
        /\ calls[i].at = "failed" => calls'[i].at = "failed"
        /\ calls'[i].dialog = "kill" /\ calls'[i].at \in {"reread", "reply"} => calls'[i].at = calls[i].at
  BY DEF Submitting!Pending
<1>2. WrittenStored /\ ShownOrPending => WrittenStored' /\ ShownOrPending'
  BY <1>1 DEF WrittenStored, ShownOrPending, SamePosition
<1>3. Calm => WrittenStored /\ ShownOrPending
  BY DEF SwitchInvariant
<1> QED  BY <1>1, <1>2, <1>3, NoneToggled DEF SamePosition

LEMMA SubmitToggles ==
  ASSUME DialogsInvariant, SwitchInvariant, NEW d \in Dialog, Submitting!Submit(d)
  PROVE  SwitchInvariant'
<1>1. PICK c : c = Submitting!Call(d)
  OBVIOUS
<1>2. PICK n \in Nat : n = Len(calls)
  BY DEF DialogsInvariant
<1>3. /\ calls' = Append(calls, c) /\ UNCHANGED <<switch, isActive>>
  BY <1>1 DEF Submitting!Submit
<1>4. /\ c \in CallRecord /\ c.dialog = d /\ c.at = "write"
      /\ d = "kill" =>
           /\ c.arg = ~isActive
           /\ c.alone = \A i \in DOMAIN calls : ~Submitting!Pending(calls[i])
           /\ c.opposed = \E i \in DOMAIN calls : Submitting!Pending(calls[i]) /\ calls[i].arg = isActive
      /\ d # "kill" => ~c.alone
  BY <1>1, SubmittedCall
<1>5. /\ DOMAIN calls = 1..n /\ DOMAIN calls' = 1..n \cup {n + 1} /\ calls'[n + 1] = c
      /\ \A i \in 1..n : calls'[i] = calls[i] /\ calls[i] \in CallRecord
  BY <1>2, <1>3 DEF DialogsInvariant
<1>6. \A i \in 1..n : Submitting!Recent(i)' <=> Submitting!Recent(i) /\ ~c.alone
  BY <1>5 DEF Submitting!Recent
<1>7. Submitting!Recent(n + 1)' <=> d = "kill"
  BY <1>4, <1>5 DEF Submitting!Recent
<1>8. Submitting!Pending(calls'[n + 1]) <=> d = "kill"
  BY <1>4, <1>5 DEF Submitting!Pending
<1>9. ASSUME NEW i \in DOMAIN calls', Submitting!Pending(calls'[i]) PROVE Submitting!Recent(i)'
  <2>1. CASE i = n + 1
    BY <1>7, <1>8, <1>9, <2>1
  <2>2. CASE i \in 1..n
    <3>1. Submitting!Pending(calls[i]) /\ Submitting!Recent(i)
      BY <1>5, <1>9, <2>2 DEF SwitchInvariant
    <3>2. ~c.alone
      BY <1>4, <1>5, <2>2, <3>1
    <3> QED  BY <1>6, <2>2, <3>1, <3>2
  <2> QED  BY <1>5, <2>1, <2>2
<1>10. CASE d # "kill"
  <2>1. Calm' => Calm
    BY <1>4, <1>5, <1>6, <1>10 DEF Calm
  <2>2. PendingAgree /\ WrittenStored /\ ShownOrPending => PendingAgree' /\ WrittenStored' /\ ShownOrPending'
    BY <1>3, <1>4, <1>5, <1>8, <1>10 DEF PendingAgree, WrittenStored, ShownOrPending
  <2> QED  BY <1>9, <2>1, <2>2 DEF SwitchInvariant
<1>11. CASE d = "kill"
  <2>1. ShownOrPending'
    BY <1>5, <1>8, <1>11 DEF ShownOrPending
  <2>2. CASE c.alone
    <3>1. \A i \in 1..n : ~Submitting!Pending(calls[i])
      BY <1>4, <1>5, <1>11, <2>2
    <3>2. PendingAgree'
      BY <1>5, <3>1 DEF PendingAgree
    <3>3. WrittenStored'
      BY <1>4, <1>5, <3>1 DEF WrittenStored, Submitting!Pending
    <3> QED  BY <1>9, <2>1, <3>2, <3>3 DEF SwitchInvariant
  <2>3. CASE ~c.alone
    <3>1. Calm' => Calm /\ ~c.opposed
      BY <1>5, <1>6, <1>7, <1>11, <2>3 DEF Calm
    <3>2. ASSUME ~c.opposed, NEW i \in 1..n, Submitting!Pending(calls[i]) PROVE calls[i].arg = c.arg
      <4>1. calls[i].arg # isActive /\ c.arg = ~isActive
        BY <1>4, <1>5, <1>11, <3>2
      <4>2. calls[i].arg \in BOOLEAN /\ isActive \in BOOLEAN
        BY <1>5 DEF CallRecord, DialogsInvariant
      <4> QED  BY <4>1, <4>2
    <3>3. ~c.opposed /\ PendingAgree => PendingAgree'
      BY <1>5, <3>2 DEF PendingAgree
    <3>4. WrittenStored => WrittenStored'
      BY <1>3, <1>4, <1>5 DEF WrittenStored
    <3> QED  BY <1>9, <2>1, <3>1, <3>3, <3>4 DEF SwitchInvariant
  <2> QED  BY <1>4, <2>2, <2>3 DEF CallRecord
<1> QED  BY <1>10, <1>11

\* A write stores what the other pending calls ask for too.
LEMMA WriteToggles ==
  ASSUME DialogsInvariant, SwitchInvariant, NEW i \in DOMAIN calls, Submitting!Write(i)
  PROVE  SwitchInvariant'
<1> DEFINE at == IF calls[i].dialog = "kill" THEN "reread" ELSE "audit"
<1>1. /\ calls[i].at = "write" /\ calls' = [calls EXCEPT ![i].at = at] /\ UNCHANGED isActive
      /\ switch' = IF calls[i].dialog = "kill" THEN calls[i].arg ELSE switch
  BY DEF Submitting!Write
<1>2. at \in {"reread", "audit", "done", "failed"}
  OBVIOUS
<1>3. calls[i].dialog = "kill" => at = "reread"
  OBVIOUS
<1>4. calls[i].dialog # "kill" => at = "audit"
  OBVIOUS
<1> HIDE DEF at
<1>5. /\ calls' \in Seq(CallRecord) /\ Len(calls') = Len(calls)
      /\ \A k \in DOMAIN calls :
           /\ calls'[k].dialog = calls[k].dialog /\ SamePosition(calls'[k], calls[k])
           /\ calls'[k].at = IF k = i THEN at ELSE calls[k].at
  BY <1>1, <1>2, CallMoves
<1>6. DOMAIN calls' = DOMAIN calls
  BY <1>5 DEF DialogsInvariant
<1>7. CASE calls[i].dialog # "kill"
  <2>1. ~Submitting!Pending(calls[i]) /\ ~Submitting!Pending(calls'[i]) /\ calls[i].at # "failed"
    BY <1>1, <1>5, <1>7 DEF Submitting!Pending
  <2> QED  BY <1>1, <1>5, <1>6, <1>7, <2>1, SwitchUntouched
<1>8. CASE calls[i].dialog = "kill"
  <2>1. \A k \in DOMAIN calls :
          /\ calls[k].at = "failed" => calls'[k].at = "failed"
          /\ Submitting!Pending(calls'[k]) => Submitting!Pending(calls[k])
    BY <1>1, <1>5, <1>8 DEF Submitting!Pending
  <2>2. Submitting!Pending(calls[i]) /\ Submitting!Pending(calls'[i])
    BY <1>1, <1>3, <1>5, <1>8 DEF Submitting!Pending
  <2>3. ShownOrPending'
    BY <1>6, <2>2 DEF ShownOrPending
  <2>4. ASSUME PendingAgree, WrittenStored PROVE WrittenStored'
    <3>1. SUFFICES ASSUME NEW k \in DOMAIN calls, calls'[k].dialog = "kill", calls'[k].at \in {"reread", "reply"}
                   PROVE  switch' = calls'[k].arg /\ (calls'[k].at = "reply" => calls'[k].got = calls'[k].arg)
      BY <1>6 DEF WrittenStored
    <3>2. calls'[k].arg = calls[k].arg /\ calls'[k].got = calls[k].got /\ calls[k].dialog = "kill"
      BY <1>5, <3>1 DEF SamePosition
    <3>3. calls[k].arg = calls[i].arg
      BY <1>5, <2>1, <2>2, <2>4, <3>1, <3>2 DEF PendingAgree, Submitting!Pending
    <3>4. switch' = calls[i].arg
      BY <1>1, <1>8
    <3>5. calls'[k].at = "reply" => calls[k].at = "reply"
      BY <1>3, <1>5, <1>8
    <3> QED  BY <2>4, <3>2, <3>3, <3>4, <3>5 DEF WrittenStored
  <2> QED
    BY <1>5, <1>6, <2>1, <2>3, <2>4, NoneToggled DEF SwitchInvariant, SamePosition
<1> QED  BY <1>7, <1>8

\* A re-read finds what was asked for.
LEMMA RereadToggles ==
  ASSUME DialogsInvariant, SwitchInvariant, NEW i \in DOMAIN calls, Submitting!Reread(i)
  PROVE  SwitchInvariant'
<1>1. /\ calls[i].at = "reread" /\ calls[i].dialog = "kill" /\ UNCHANGED <<switch, isActive>>
  BY DEF Submitting!Reread, DialogsInvariant
<1>2. /\ calls' \in Seq(CallRecord) /\ Len(calls') = Len(calls)
      /\ \A k \in DOMAIN calls :
           /\ calls'[k].dialog = calls[k].dialog /\ calls'[k].arg = calls[k].arg
           /\ calls'[k].alone = calls[k].alone /\ calls'[k].opposed = calls[k].opposed
           /\ calls'[k].got = IF k = i THEN switch ELSE calls[k].got
           /\ calls'[k].at = IF k = i THEN "reply" ELSE calls[k].at
  BY CallReads
<1>3. DOMAIN calls' = DOMAIN calls
  BY <1>2 DEF DialogsInvariant
<1>4. \A k \in DOMAIN calls :
        /\ calls[k].at = "failed" => calls'[k].at = "failed"
        /\ Submitting!Pending(calls'[k]) => Submitting!Pending(calls[k])
  BY <1>1, <1>2 DEF Submitting!Pending
<1>5. ShownOrPending'
  BY <1>1, <1>2, <1>3 DEF ShownOrPending, Submitting!Pending
<1>6. WrittenStored => WrittenStored'
  BY <1>1, <1>2, <1>3 DEF WrittenStored
<1> QED  BY <1>2, <1>3, <1>4, <1>5, <1>6, NoneToggled DEF SwitchInvariant

\* A reply shows it.
LEMMA ShowToggles ==
  ASSUME DialogsInvariant, SwitchInvariant, NEW i \in DOMAIN calls, Submitting!Show(i)
  PROVE  SwitchInvariant'
<1>1. /\ calls[i].at = "reply" /\ calls[i].dialog = "kill" /\ calls' = [calls EXCEPT ![i].at = "audit"]
      /\ isActive' = calls[i].got /\ UNCHANGED switch
  BY DEF Submitting!Show, DialogsInvariant
<1>2. /\ calls' \in Seq(CallRecord) /\ Len(calls') = Len(calls)
      /\ \A k \in DOMAIN calls :
           /\ calls'[k].dialog = calls[k].dialog /\ SamePosition(calls'[k], calls[k])
           /\ calls'[k].at = IF k = i THEN "audit" ELSE calls[k].at
  BY <1>1, CallMoves
<1>3. DOMAIN calls' = DOMAIN calls
  BY <1>2 DEF DialogsInvariant
<1>4. \A k \in DOMAIN calls :
        /\ calls[k].at = "failed" => calls'[k].at = "failed"
        /\ Submitting!Pending(calls'[k]) => Submitting!Pending(calls[k])
  BY <1>1, <1>2 DEF Submitting!Pending
<1>5. WrittenStored => isActive' = switch'
  BY <1>1 DEF WrittenStored
<1>6. WrittenStored => WrittenStored'
  BY <1>1, <1>2, <1>3 DEF WrittenStored, SamePosition
<1> QED  BY <1>2, <1>3, <1>4, <1>5, <1>6, NoneToggled DEF SwitchInvariant, ShownOrPending, SamePosition

\* The end of a call that is not pending, or the loss of one, after which nothing is claimed.
LEMMA EndToggles ==
  ASSUME DialogsInvariant, SwitchInvariant, NEW i \in DOMAIN calls, NEW at \in {"done", "failed"},
         calls[i].at # "failed", Submitting!Pending(calls[i]) => at = "failed",
         calls' = [calls EXCEPT ![i].at = at], UNCHANGED <<switch, isActive>>
  PROVE  SwitchInvariant'
<1>1. /\ calls' \in Seq(CallRecord) /\ Len(calls') = Len(calls)
      /\ \A k \in DOMAIN calls :
           /\ calls'[k].dialog = calls[k].dialog /\ SamePosition(calls'[k], calls[k])
           /\ calls'[k].at = IF k = i THEN at ELSE calls[k].at
  <2>1. at \in {"reread", "audit", "done", "failed"}
    OBVIOUS
  <2> QED  BY <2>1, CallMoves
<1>2. DOMAIN calls' = DOMAIN calls
  BY <1>1 DEF DialogsInvariant
<1>3. ~Submitting!Pending(calls'[i])
  BY <1>1 DEF Submitting!Pending
<1>4. CASE Submitting!Pending(calls[i])
  <2>1. Submitting!Recent(i)'
    BY <1>1, <1>2, <1>4 DEF SwitchInvariant, Submitting!Recent, SamePosition
  <2>2. ~Calm'
    BY <1>1, <1>2, <1>4, <2>1 DEF Calm
  <2>3. \A k \in DOMAIN calls :
          /\ calls[k].at = "failed" => calls'[k].at = "failed"
          /\ Submitting!Pending(calls'[k]) => Submitting!Pending(calls[k])
    BY <1>1, <1>3 DEF Submitting!Pending
  <2> QED  BY <1>1, <1>2, <2>2, <2>3, NoneToggled DEF SamePosition
<1>5. CASE ~Submitting!Pending(calls[i])
  BY <1>1, <1>2, <1>3, <1>5, SwitchUntouched
<1> QED  BY <1>4, <1>5

LEMMA SwitchKept ==
  ASSUME DialogsInvariant, SwitchInvariant, [Submitting!Next]_(Submitting!vars)
  PROVE  SwitchInvariant'
<1>1. ASSUME UNCHANGED <<switch, isActive, calls>> PROVE SwitchInvariant'
  BY <1>1 DEF SwitchInvariant, Calm, PendingAgree, WrittenStored, ShownOrPending, Submitting!Recent,
     Submitting!Pending
<1>2. ASSUME NEW S, calls' = Submitting!UnmountedCalls(calls, S), UNCHANGED <<switch, isActive>>
      PROVE  SwitchInvariant'
  <2>1. /\ calls' \in Seq(CallRecord) /\ Len(calls') = Len(calls)
        /\ \A k \in DOMAIN calls :
             /\ calls'[k].dialog = calls[k].dialog /\ calls'[k].at = calls[k].at
             /\ SamePosition(calls'[k], calls[k])
    BY <1>2, CallsForgotten DEF DialogsInvariant
  <2>2. DOMAIN calls' = DOMAIN calls
    BY <2>1 DEF DialogsInvariant
  <2> QED  BY <1>2, <2>1, <2>2, SwitchUntouched
<1>3. ASSUME NEW d \in Dialog, Submitting!OpenDialog(d) \/ Submitting!Leave(d) PROVE SwitchInvariant'
  BY <1>2, <1>3 DEF Submitting!OpenDialog, Submitting!Leave
<1>4. ASSUME NEW d \in Dialog,
             Submitting!Type(d) \/ Submitting!SubmitBlank(d) \/ Submitting!Close(d)
      PROVE  SwitchInvariant'
  BY <1>1, <1>4 DEF Submitting!Type, Submitting!SubmitBlank, Submitting!Close
<1>5. CASE UNCHANGED Submitting!vars
  BY <1>1, <1>5 DEF Submitting!vars
<1>6. ASSUME NEW i \in DOMAIN calls, Submitting!Done(i) PROVE SwitchInvariant'
  <2>1. /\ calls[i].at = "audit" /\ calls' = [calls EXCEPT ![i].at = "done"]
        /\ UNCHANGED <<switch, isActive>>
    BY <1>6 DEF Submitting!Done
  <2> QED  BY <2>1, EndToggles DEF Submitting!Pending
<1>7. ASSUME NEW i \in DOMAIN calls, Submitting!Fail(i) PROVE SwitchInvariant'
  <2>1. /\ calls[i].at \in {"reread", "write", "audit"} /\ calls' = [calls EXCEPT ![i].at = "failed"]
        /\ UNCHANGED <<switch, isActive>>
    BY <1>7 DEF Submitting!Fail
  <2> QED  BY <2>1, EndToggles
<1>8. ASSUME NEW i \in DOMAIN calls, Submitting!DoneSimulating(i) PROVE SwitchInvariant'
  <2>1. /\ calls' \in Seq(CallRecord) /\ Len(calls') = Len(calls)
        /\ \A k \in DOMAIN calls :
             /\ calls'[k].dialog = calls[k].dialog /\ SamePosition(calls'[k], calls[k])
             /\ calls'[k].at = IF k = i THEN "done" ELSE calls[k].at
    BY <1>8, SimulationCalls
  <2>2. DOMAIN calls' = DOMAIN calls
    BY <2>1 DEF DialogsInvariant
  <2>3. calls[i].at = "audit" /\ UNCHANGED <<switch, isActive>>
    BY <1>8 DEF Submitting!DoneSimulating
  <2>4. ~Submitting!Pending(calls[i]) /\ ~Submitting!Pending(calls'[i])
    BY <2>1, <2>3 DEF Submitting!Pending
  <2> QED  BY <2>1, <2>2, <2>3, <2>4, SwitchUntouched
<1> QED
  BY <1>3, <1>4, <1>5, <1>6, <1>7, <1>8, SubmitToggles, WriteToggles, RereadToggles, ShowToggles
  DEF Submitting!Next, Submitting!Answer

(***************************************************************************)
(* A dialog whose button is disabled while it submits never has two calls  *)
(* in flight, and once the kill switch calls since the last one submitted  *)
(* alone are answered, agreeing and none lost, the position on the screen  *)
(* is the stored one, whatever replies crossed: the safety half of         *)
(* CallsEnd.                                                               *)
(***************************************************************************)
THEOREM DialogsAlwaysHold ==
  Submitting!Spec => [](Submitting!OneInFlight /\ Submitting!SwitchShown)
<1>1. Submitting!Init => DialogsInvariant /\ SwitchInvariant
  <2>1. SUFFICES ASSUME Submitting!Init PROVE DialogsInvariant /\ SwitchInvariant
    OBVIOUS
  <2>2. calls = <<>> /\ DOMAIN calls = {} /\ calls \in Seq(CallRecord)
    BY <2>1 DEF Submitting!Init
  <2>3. /\ isSubmitting \in [Dialog -> BOOLEAN]
        /\ isActive \in BOOLEAN /\ switch \in BOOLEAN /\ isActive = switch
    BY <2>1 DEF Submitting!Init
  <2>4. DialogsInvariant
    BY <2>2, <2>3 DEF DialogsInvariant
  <2>5. SwitchInvariant
    BY <2>2, <2>3 DEF SwitchInvariant, PendingAgree, WrittenStored, ShownOrPending
  <2> QED  BY <2>4, <2>5
<1>2. /\ DialogsInvariant /\ SwitchInvariant /\ [Submitting!Next]_(Submitting!vars)
           => (DialogsInvariant /\ SwitchInvariant)'
  BY DialogsKept, SwitchKept
<1>3. DialogsInvariant /\ SwitchInvariant => Submitting!OneInFlight /\ Submitting!SwitchShown
  <2>1. SUFFICES ASSUME DialogsInvariant, SwitchInvariant PROVE Submitting!OneInFlight /\ Submitting!SwitchShown
    OBVIOUS
  <2>2. ASSUME NEW d \in Dialog \cap Submitting!Guarded
        PROVE  Submitting!Cardinality({i \in DOMAIN calls :
                 calls[i].dialog = d /\ calls[i].mounted /\ Submitting!InFlight(calls[i])}) <= 1
    <3> DEFINE S == {i \in DOMAIN calls :
                 calls[i].dialog = d /\ calls[i].mounted /\ Submitting!InFlight(calls[i])}
    <3>1. \A i, j \in S : i = j
      BY <2>1 DEF DialogsInvariant, Holds
    <3>2. S = {} \/ \E i \in S : S = {i}
      BY <3>1
    <3> HIDE DEF S
    <3>3. Cardinality(S) \in {0, 1}
      BY <3>2, FS_EmptySet, FS_Singleton
    <3>4. Cardinality(S) <= 1
      BY <3>3
    <3>5. Cardinality(S) = Submitting!Cardinality(S)
      BY DEF Cardinality, Submitting!Cardinality
    <3> QED  BY <3>4, <3>5 DEF S
  <2>3. Submitting!SwitchShown
    <3>1. SUFFICES ASSUME \A i \in DOMAIN calls :
                            Submitting!Recent(i) => calls[i].at \in {"audit", "done"} /\ ~calls[i].opposed
                   PROVE  isActive = switch
      BY DEF Submitting!SwitchShown
    <3>2. Calm /\ \A i \in DOMAIN calls : ~Submitting!Pending(calls[i])
      BY <2>1, <3>1 DEF Calm, SwitchInvariant, Submitting!Pending
    <3> QED  BY <2>1, <3>2 DEF SwitchInvariant, ShownOrPending
  <2> QED  BY <2>2, <2>3 DEF Submitting!OneInFlight
<1> QED  BY <1>1, <1>2, <1>3, PTL DEF Submitting!Spec

(***************************************************************************)
(* The frame, for any merchants and trends.  What is on the screen and in  *)
(* the storage has one theme at every step; a load is of a merchant; a     *)
(* dialog is open only over the screen of one.                             *)
(***************************************************************************)
FrameInvariant ==
  /\ theme = savedTheme
  /\ page \in Frame!NavigationTab
  /\ trend \in Nat /\ hovered \in Nat
  /\ Frame!ToSet(merchants) \subseteq Frame!Merchant /\ loads \subseteq Frame!Merchant
  /\ currentMerchant \in Frame!Merchant \cup {None}
  /\ dialog # "none" => currentMerchant # None

\* A launch shows the first merchant of its client's list, which is not empty.
LEMMA LaunchesKeep ==
  ASSUME FrameInvariant, Frame!getInitialState \/ Frame!initApp \/ Frame!Reload
  PROVE  FrameInvariant' /\ theme' = savedTheme
<1>1. CASE Frame!getInitialState
  BY <1>1 DEF FrameInvariant, Frame!getInitialState, Frame!storage, Frame!data, Frame!menus
<1>2. CASE Frame!Reload
  BY <1>2 DEF FrameInvariant, Frame!Reload, Frame!storage, Frame!ToSet, Frame!NavigationTab,
              Frame!None, None
<1>3. CASE Frame!initApp
  <2>1. PICK list \in {EngineMerchants, SandboxMerchants} :
          merchants' = list /\ currentMerchant' = Head(list) /\ loads' = {Head(list)}
    BY <1>3 DEF Frame!initApp
  <2>2. list \in Seq(Frame!Merchant) /\ list # <<>> /\ Frame!ToSet(list) \subseteq Frame!Merchant
    BY ComponentsAssumption DEF Frame!ShellAssumption, Frame!Merchant, Frame!ToSet
  <2>3. Head(list) \in Frame!Merchant
    BY <2>2
  <2>4. currentMerchant' # None
    BY <2>1, <2>3, ComponentsAssumption DEF Frame!ShellAssumption, Frame!None, None
  <2> QED
    BY <1>3, <2>1, <2>2, <2>3, <2>4 DEF FrameInvariant, Frame!initApp, Frame!ToSet, Frame!menus
<1> QED  BY <1>1, <1>2, <1>3

\* Only a launch and the toggle touch the theme, and a launch reads what the toggle saved.
LEMMA FrameKept ==
  ASSUME FrameInvariant, [Frame!Next]_(Frame!vars)
  PROVE  FrameInvariant' /\ (Frame!Screen = "starting" => theme' = theme)
<1>1. ASSUME UNCHANGED <<theme, savedTheme, page, trend, hovered, merchants, loads,
                         currentMerchant, dialog>>
      PROVE  FrameInvariant' /\ theme' = theme
  BY <1>1 DEF FrameInvariant, Frame!ToSet
<1>2. ASSUME NEW m \in loads, Frame!Deliver(m) PROVE FrameInvariant' /\ theme' = theme
  <2>1. m \in Frame!Merchant /\ EngineTrend \in Nat /\ TrendLength[m] \in Nat
    BY ComponentsAssumption DEF FrameInvariant, Frame!ShellAssumption
  <2> QED
    BY <1>2, <2>1
    DEF FrameInvariant, Frame!Deliver, Frame!storage, Frame!scope, Frame!menus, Frame!ToSet
<1>3. ASSUME NEW item \in Frame!NavItem, Frame!onNavigate(item)
      PROVE  FrameInvariant' /\ theme' = theme
  BY <1>3 DEF FrameInvariant, Frame!onNavigate, Frame!NavItem, Frame!storage, Frame!scope,
              Frame!data, Frame!ToSet
<1>4. ASSUME NEW m \in Frame!Merchant, Frame!onSelectMerchant(m)
      PROVE  FrameInvariant' /\ theme' = theme
  <2>1. m # None
    BY ComponentsAssumption DEF Frame!ShellAssumption, Frame!None, None
  <2> QED
    BY <1>4, <2>1 DEF FrameInvariant, Frame!onSelectMerchant, Frame!storage, Frame!ToSet
<1>5. CASE Frame!handleSelectDecision \/ Frame!handleSimulatePayment
  BY <1>5 DEF FrameInvariant, Frame!handleSelectDecision, Frame!handleSimulatePayment,
              Frame!NavigationTab, Frame!storage, Frame!scope, Frame!data, Frame!menus, Frame!ToSet
\* Data is loaded and a dialog opened on the console's screen, or from a dialog: for a merchant.
<1>6. Frame!Screen = "console" => currentMerchant \in Frame!Merchant /\ currentMerchant # None
  BY DEF FrameInvariant, Frame!Screen, Frame!None, None
<1>7. CASE Frame!onRefresh
  BY <1>6, <1>7 DEF FrameInvariant, Frame!onRefresh, Frame!On, Frame!storage, Frame!scope,
                    Frame!menus, Frame!ToSet
<1>8. ASSUME NEW m \in {"live", "mock"}, Frame!handleConnectionChanged(m)
      PROVE  FrameInvariant' /\ theme' = theme
  BY <1>8 DEF FrameInvariant, Frame!handleConnectionChanged, Frame!ToSet
<1>9. CASE Frame!OpenOrClose
  BY <1>6, <1>9 DEF FrameInvariant, Frame!OpenOrClose, Frame!storage, Frame!scope, Frame!data,
                    Frame!ToSet
<1>10. ASSUME NEW i \in 0..trend, Frame!Hover(i) PROVE FrameInvariant' /\ theme' = theme
  BY <1>10 DEF FrameInvariant, Frame!Hover, Frame!storage, Frame!scope, Frame!data, Frame!menus,
               Frame!ToSet
<1>11. CASE Frame!ToggleMenu \/ Frame!onToggleAiDegraded \/ Frame!EngineStartsOrStops
  BY <1>1, <1>11 DEF Frame!ToggleMenu, Frame!onToggleAiDegraded, Frame!EngineStartsOrStops,
                     Frame!storage, Frame!scope, Frame!data, Frame!menus
<1>12. CASE Frame!toggleTheme
  BY <1>12 DEF FrameInvariant, Frame!toggleTheme, Frame!scope, Frame!data, Frame!menus, Frame!ToSet
<1>13. CASE UNCHANGED Frame!vars
  BY <1>1, <1>13 DEF Frame!vars
<1>14. theme = savedTheme
  BY DEF FrameInvariant
<1> QED
  BY <1>2, <1>3, <1>4, <1>5, <1>7, <1>8, <1>9, <1>10, <1>11, <1>12, <1>13, <1>14, LaunchesKeep
  DEF Frame!Next, Frame!toggleTheme

\* The investigation has no item of its own: it is the feed's.
LEMMA OneHighlighted ==
  ASSUME FrameInvariant PROVE Frame!OneItemActive
<1> DEFINE S == {i \in Frame!NavItem : Frame!IsActive(i)}
<1>1. S = {IF page = "decision" THEN "feed" ELSE page}
  BY DEF FrameInvariant, Frame!NavItem, Frame!NavigationTab, Frame!IsActive
<1> HIDE DEF S
<1>2. Cardinality(S) = 1
  BY <1>1, FS_Singleton
<1>3. Cardinality(S) = Frame!Cardinality(S)
  BY DEF Cardinality, Frame!Cardinality
<1> QED  BY <1>2, <1>3 DEF S, Frame!OneItemActive

(***************************************************************************)
(* Whatever is navigated to, selected, loaded, hovered or switched: the    *)
(* chart's badge names a point that is shown, one item is highlighted, and *)
(* a reload shows the theme shown before it.                               *)
(***************************************************************************)
THEOREM FrameIsCoherent == Frame!Spec => FrameCoherent
<1>1. Frame!Init => FrameInvariant
  BY DEF Frame!Init, FrameInvariant, Frame!NavigationTab, Frame!ToSet, Frame!None, None
<1>2. FrameInvariant /\ [Frame!Next]_(Frame!vars) => FrameInvariant'
  BY FrameKept
<1>3. FrameInvariant => (running = "frame" => Frame!BadgeNamesPoint /\ Frame!OneItemActive)
  BY OneHighlighted DEF FrameInvariant, Frame!BadgeNamesPoint, Frame!Badge
<1>4. FrameInvariant /\ [Frame!Next]_(Frame!vars)
        => [Frame!Screen = "starting" /\ Frame!Screen' = "initializing" => theme' = theme]_(Frame!vars)
  BY FrameKept
<1> QED  BY <1>1, <1>2, <1>3, <1>4, PTL DEF Frame!Spec, FrameCoherent, Frame!ThemeSurvives

(***************************************************************************)
(* The audit screen, for any payments and any number of commands.  An      *)
(* entry names an actor and an entity that the filters know, and what is   *)
(* about a payment mentions it.                                            *)
(***************************************************************************)
Actor == {"Operator (Admin)", "Policy Engine", "AI Diagnoser", "Executor", "System"}

LogEntry ==
  {e \in [at : Nat, actor : Actor, entity : Audit!EntityOption,
          entity_id : Audit!Identifier \cup {Audit!Action(p) : p \in Audit!Payment},
          payment_id : Audit!Payment \cup {Anything}, details : SUBSET Audit!Identifier] :
     \A p \in Audit!Payment :
       e.entity_id \in {p, Audit!Decision(p), Audit!Action(p)}
         => p \in {e.entity_id, e.payment_id} \cup e.details}

Descending(list) == \A i, j \in DOMAIN list : i < j => list[i].at >= list[j].at

HistoryInvariant ==
  /\ commands \in Nat /\ log \in Seq(LogEntry) /\ Descending(log)
  /\ \A i \in DOMAIN log : log[i].at <= commands

\* The entries that the commands and the demonstration data write are of that form.
LEMMA EntriesWritten ==
  ASSUME NEW t \in Nat
  PROVE  /\ Audit!Entry(t, "Operator (Admin)", "Policy", Owner, Anything, {}) \in LogEntry
         /\ Audit!Entry(t, "Operator (Admin)", "KillSwitch", Owner, Anything, {}) \in LogEntry
         /\ \A p \in Audit!Payment :
              /\ Audit!Entry(t, "System", "Payment", p, p, {Audit!Decision(p)}) \in LogEntry
              /\ \A actor \in Actor :
                   /\ Audit!Entry(t, actor, "Payment", p, p, {}) \in LogEntry
                   /\ Audit!Entry(t, actor, "Action", Audit!Action(p), p, {}) \in LogEntry
                   /\ Audit!Entry(t, actor, "Decision", Audit!Decision(p), p, {}) \in LogEntry
<1>1. /\ Owner \in Audit!Identifier /\ Audit!Payment \subseteq Audit!Identifier
      /\ \A p \in Audit!Payment : Audit!Decision(p) \in Audit!Identifier
  BY DEF Audit!Identifier
<1>2. \A p \in Audit!Payment :
        {Audit!Decision(p), Audit!Action(p)} \cap (Audit!Payment \cup {Owner}) = {}
  BY ComponentsAssumption DEF Audit!AuditLedgerAssumption
<1>3. Owner \notin Audit!Payment
  BY ComponentsAssumption DEF Audit!AuditLedgerAssumption, Audit!Payment
<1>4. \A p, q : /\ Audit!Decision(p) = Audit!Decision(q) => p = q
                /\ Audit!Action(p) = Audit!Action(q) => p = q
                /\ Audit!Decision(p) # Audit!Action(q)
  BY DEF Audit!Decision, Audit!Action
<1>5. {"Payment", "Decision", "Policy", "Action", "KillSwitch"} \subseteq Audit!EntityOption
      /\ {"Operator (Admin)", "System"} \subseteq Actor
  BY DEF Audit!EntityOption, Actor
<1>6. ASSUME NEW entity \in {"Policy", "KillSwitch"}
      PROVE  Audit!Entry(t, "Operator (Admin)", entity, Owner, Anything, {}) \in LogEntry
  BY <1>1, <1>2, <1>3, <1>5 DEF LogEntry, Audit!Entry
<1>7. ASSUME NEW p \in Audit!Payment, NEW actor \in Actor,
             NEW details \in {{}, {Audit!Decision(p)}}
      PROVE  Audit!Entry(t, actor, "Payment", p, p, details) \in LogEntry
  BY <1>1, <1>2, <1>5 DEF LogEntry, Audit!Entry
<1>8. ASSUME NEW p \in Audit!Payment, NEW actor \in Actor
      PROVE  Audit!Entry(t, actor, "Decision", Audit!Decision(p), p, {}) \in LogEntry
  BY <1>1, <1>2, <1>4, <1>5 DEF LogEntry, Audit!Entry
<1>9. ASSUME NEW p \in Audit!Payment, NEW actor \in Actor
      PROVE  Audit!Entry(t, actor, "Action", Audit!Action(p), p, {}) \in LogEntry
  <2>1. Audit!Action(p) \in {Audit!Action(q) : q \in Audit!Payment}
    OBVIOUS
  <2> HIDE DEF Audit!Action
  <2> QED  BY <1>2, <1>4, <1>5, <2>1 DEF LogEntry, Audit!Entry
<1> QED  BY <1>5, <1>6, <1>7, <1>8, <1>9

\* What is flattened out of lists of elements of a set is a list of elements of that set.
LEMMA Flattened ==
  ASSUME NEW E, NEW lists \in Seq(Seq(E)) PROVE Audit!FlattenSeq(lists) \in Seq(E)
<1> DEFINE N == Len(lists)
           flat[i \in 1..N] == IF i = 1 THEN lists[i] ELSE flat[i - 1] \o lists[i]
<1>1. N \in Nat /\ \A i \in 1..N : lists[i] \in Seq(E)
  OBVIOUS
<1>2. CASE N = 0
  <2>1. lists = <<>>
    BY <1>2
  <2> QED  BY <1>2, <2>1 DEF Audit!FlattenSeq
<1>3. CASE N # 0
  <2> DEFINE step == [p \in (1..N - 1) \X Seq(E) |-> p[2] \o lists[p[1] + 1]]
  <2>1. step \in [(1..N - 1) \X Seq(E) -> Seq(E)] /\ N - 1 \in Nat /\ lists[1] \in Seq(E)
    <3>1. ASSUME NEW i \in 1..N - 1, NEW s \in Seq(E) PROVE s \o lists[i + 1] \in Seq(E)
      <4>1. i + 1 \in 1..N
        BY <1>1
      <4>2. lists[i + 1] \in Seq(E)
        BY <1>1, <4>1
      <4> QED  BY <4>2
    <3>2. N - 1 \in Nat /\ 1 \in 1..N
      BY <1>1, <1>3
    <3> HIDE DEF N
    <3> QED  BY <1>1, <3>1, <3>2
  <2>2. PICK f : Solves(f, N - 1, Seq(E), lists[1], step)
    <3> HIDE DEF step, N
    <3> QED  BY <2>1, Recursion
  <2> DEFINE g == [i \in 1..N |-> f[i - 1]]
  <2>3. g = [i \in 1..N |-> IF i = 1 THEN lists[i] ELSE g[i - 1] \o lists[i]]
    <3>1. ASSUME NEW i \in 1..N
          PROVE  g[i] = IF i = 1 THEN lists[i] ELSE g[i - 1] \o lists[i]
      <4>1. CASE i = 1
        BY <2>2, <4>1 DEF Solves
      <4>2. CASE i # 1
        <5>1. i - 1 \in 1..N - 1 /\ i - 1 \in 1..N /\ (i - 1) - 1 \in 0..N - 1 /\ (i - 1) + 1 = i
          BY <1>1, <4>2
        <5>2. f[i - 1] = step[<<i - 1, f[(i - 1) - 1]>>] /\ f[(i - 1) - 1] \in Seq(E)
          <6> HIDE DEF step, N
          <6> QED  BY <2>2, <5>1 DEF Solves
        <5>3. f[i - 1] = f[(i - 1) - 1] \o lists[i]
          <6> HIDE DEF N
          <6> QED  BY <5>1, <5>2
        <5>4. g[i] = f[i - 1] /\ g[i - 1] = f[(i - 1) - 1]
          BY <5>1
        <5> QED  BY <4>2, <5>3, <5>4
      <4> QED  BY <4>1, <4>2
    <3> HIDE DEF N
    <3> QED  BY <3>1
  <2>4. flat = [i \in 1..N |-> IF i = 1 THEN lists[i] ELSE flat[i - 1] \o lists[i]]
    <3> HIDE DEF N, g
    <3> QED  BY <2>3
  <2>5. Audit!FlattenSeq(lists) = flat[N]
    BY <1>3 DEF Audit!FlattenSeq
  <2> HIDE DEF flat
  <2> DEFINE T == {n \in 0..N - 1 : flat[n + 1] \in Seq(E)}
  <2>6. 0 \in T
    BY <1>1, <1>3, <2>1, <2>4
  <2>7. ASSUME NEW n \in 0..(N - 1) - 1, n \in T PROVE n + 1 \in T
    <3>1. (n + 1) + 1 \in 1..N /\ n + 1 \in 0..N - 1 /\ (n + 1) + 1 # 1
          /\ ((n + 1) + 1) - 1 = n + 1
      BY <1>1, <1>3
    <3>2. flat[n + 1] \in Seq(E) /\ lists[(n + 1) + 1] \in Seq(E)
      BY <1>1, <2>7, <3>1
    <3>3. flat[(n + 1) + 1] = flat[n + 1] \o lists[(n + 1) + 1]
      <4> HIDE DEF N
      <4> QED  BY <2>4, <3>1
    <3>4. flat[(n + 1) + 1] \in Seq(E)
      BY <3>2, <3>3
    <3> QED  BY <3>1, <3>4
  <2>8. N - 1 \in T
    <3> HIDE DEF T, N
    <3>1. 0..N - 1 \subseteq T
      BY <2>1, <2>6, <2>7, Induct
    <3> QED  BY <2>1, <3>1
  <2>9. (N - 1) + 1 = N
    BY <1>1
  <2> QED  BY <2>5, <2>8, <2>9
<1> QED  BY <1>2, <1>3

\* The demonstration data's log is of such entries, all of one time.
LEMMA SeedLogIsOne ==
  Audit!SeedLog \in Seq({e \in LogEntry : e.at = 0})
<1> DEFINE E == {e \in LogEntry : e.at = 0}
           C == Audit!Cardinality(SeedPayment)
           payments == Audit!SetToSeq(SeedPayment)
           lists == [i \in 1..C |-> Audit!SeedHistory(payments[i])]
<1>1. IsFiniteSet(SeedPayment) /\ C = Cardinality(SeedPayment)
  BY ComponentsAssumption
  DEF Audit!AuditLedgerAssumption, Audit!IsFiniteSet, IsFiniteSet, Audit!Cardinality, Cardinality
<1>2. C \in Nat /\ ExistsBijection(1..C, SeedPayment)
  BY <1>1, FS_CardinalityType
<1>3. payments \in [1..C -> SeedPayment]
  <2>1. \E f \in [1..C -> SeedPayment] : Audit!IsInjective(f)
    BY <1>2 DEF ExistsBijection, Bijection, Injection, Surjection, IsInjective, Audit!IsInjective
  <2> QED  BY <2>1 DEF Audit!SetToSeq
<1>4. ASSUME NEW p \in Audit!Payment PROVE Audit!SeedHistory(p) \in Seq(E)
  <2> DEFINE entry(actor, entity, id) == Audit!Entry(0, actor, entity, id, p, {})
  <2>1. /\ entry("Executor", "Payment", p) \in E
        /\ entry("Executor", "Action", Audit!Action(p)) \in E
        /\ entry("Policy Engine", "Decision", Audit!Decision(p)) \in E
        /\ entry("AI Diagnoser", "Decision", Audit!Decision(p)) \in E
        /\ entry("System", "Payment", p) \in E
    <3>1. {"Executor", "Policy Engine", "AI Diagnoser", "System"} \subseteq Actor
      BY DEF Actor
    <3>2. \A actor, entity, id : entry(actor, entity, id).at = 0
      BY DEF Audit!Entry
    <3> HIDE DEF Actor, LogEntry
    <3> QED  BY <3>1, <3>2, EntriesWritten
  <2>2. Audit!SeedHistory(p)
          = <<entry("Executor", "Payment", p), entry("Executor", "Action", Audit!Action(p)),
              entry("Policy Engine", "Decision", Audit!Decision(p)),
              entry("AI Diagnoser", "Decision", Audit!Decision(p)), entry("System", "Payment", p)>>
    BY DEF Audit!SeedHistory
  <2> HIDE DEF E, entry
  <2>3. PICK a \in E : a = entry("Executor", "Payment", p)
    BY <2>1
  <2>4. PICK b \in E : b = entry("Executor", "Action", Audit!Action(p))
    BY <2>1
  <2>5. PICK c \in E : c = entry("Policy Engine", "Decision", Audit!Decision(p))
    BY <2>1
  <2>6. PICK d \in E : d = entry("AI Diagnoser", "Decision", Audit!Decision(p))
    BY <2>1
  <2>7. PICK e \in E : e = entry("System", "Payment", p)
    BY <2>1
  <2>8. Audit!SeedHistory(p) = <<a, b, c, d, e>>
    BY <2>2, <2>3, <2>4, <2>5, <2>6, <2>7
  <2>9. <<a, b, c, d, e>> \in Seq(E)
    BY WrittenOut
  <2> QED  BY <2>8, <2>9
<1>5. lists \in Seq(Seq(E))
  <2>1. \A i \in 1..C : payments[i] \in Audit!Payment
    BY <1>3 DEF Audit!Payment
  <2> HIDE DEF C, E, payments
  <2>2. \A i \in 1..C : Audit!SeedHistory(payments[i]) \in Seq(E)
    BY <1>4, <2>1
  <2> QED  BY <1>2, <2>2
<1>6. Audit!FlattenSeq(lists) \in Seq(E)
  <2> HIDE DEF E, lists
  <2> QED  BY <1>5, Flattened
<1>7. PICK last \in E : last = Audit!Entry(0, "Operator (Admin)", "Policy", Owner, Anything, {})
  <2>1. Audit!Entry(0, "Operator (Admin)", "Policy", Owner, Anything, {}) \in LogEntry
    BY EntriesWritten
  <2>2. Audit!Entry(0, "Operator (Admin)", "Policy", Owner, Anything, {}).at = 0
    BY DEF Audit!Entry
  <2> QED  BY <2>1, <2>2
<1>8. Audit!SeedLog
        = Audit!FlattenSeq(lists) \o <<last>>
  BY <1>7 DEF Audit!SeedLog
<1> HIDE DEF lists, E
<1>9. Audit!SeedLog \in Seq(E)
  <2>1. <<last>> \in Seq(E)
    BY <1>7, WrittenOut
  <2> QED  BY <1>6, <1>8, <2>1
<1> QED  BY <1>9 DEF E

\* A log started over has the seed's order.
LEMMA StartedOver ==
  ASSUME log' = Audit!SeedLog, commands' = 0 PROVE HistoryInvariant'
<1>1. log' \in Seq({e \in LogEntry : e.at = 0})
  BY SeedLogIsOne
<1>2. log' \in Seq(LogEntry) /\ \A i \in DOMAIN log' : log'[i].at = 0
  BY <1>1
<1> QED  BY <1>2 DEF HistoryInvariant, Descending

\* A command's entry is put in front of the others, and is the newest.
LEMMA WrittenInFront ==
  ASSUME HistoryInvariant, NEW e \in LogEntry, e.at = Audit!Now, Audit!Write(e)
  PROVE  HistoryInvariant'
<1>1. commands \in Nat /\ log \in Seq(LogEntry)
  BY DEF HistoryInvariant
<1>2. commands' = commands + 1 /\ log' = <<e>> \o log /\ e.at = commands + 1
  BY DEF Audit!Write, Audit!Unshift, Audit!Now
<1>3. PICK next : next = <<e>> \o log
  OBVIOUS
<1>4. /\ next \in Seq(LogEntry) /\ DOMAIN next = 1..Len(log) + 1 /\ Len(log) \in Nat
      /\ next[1] = e /\ \A i \in DOMAIN next : i # 1 => i - 1 \in DOMAIN log /\ next[i] = log[i - 1]
  BY <1>1, <1>3
<1>5. \A x \in LogEntry : x.at \in Nat
  BY DEF LogEntry
<1>6. \A i \in DOMAIN next : next[i].at \in Nat /\ next[i].at <= commands + 1
                             /\ (i # 1 => next[i].at <= commands)
  BY <1>1, <1>2, <1>4, <1>5 DEF HistoryInvariant
<1>7. ASSUME NEW i \in DOMAIN next, NEW j \in DOMAIN next, i < j PROVE next[i].at >= next[j].at
  <2>1. CASE i = 1
    BY <1>1, <1>2, <1>4, <1>6, <1>7, <2>1
  <2>2. CASE i # 1
    <3>1. i - 1 \in DOMAIN log /\ j - 1 \in DOMAIN log /\ i - 1 < j - 1 /\ j # 1
      BY <1>4, <1>7, <2>2
    <3> QED  BY <1>4, <2>2, <3>1 DEF HistoryInvariant, Descending
  <2> QED  BY <2>1, <2>2
<1>8. log' = next
  BY <1>2, <1>3
<1> QED  BY <1>1, <1>2, <1>4, <1>6, <1>7, <1>8 DEF HistoryInvariant, Descending

LEMMA HistoryKept ==
  ASSUME HistoryInvariant, [Audit!Next]_(Audit!vars) PROVE HistoryInvariant'
<1>1. CASE UNCHANGED <<log, commands>>
  BY <1>1 DEF HistoryInvariant, Descending
<1>2. Audit!Now \in Nat
  BY DEF HistoryInvariant, Audit!Now
<1>3. ASSUME NEW actor, NEW entity, NEW id, NEW p, NEW details,
             Audit!Entry(Audit!Now, actor, entity, id, p, details) \in LogEntry,
             Audit!Write(Audit!Entry(Audit!Now, actor, entity, id, p, details))
      PROVE  HistoryInvariant'
  BY <1>3, WrittenInFront DEF Audit!Entry
<1>4. ASSUME NEW p \in Audit!Payment, Audit!overrideDecision(p) PROVE HistoryInvariant'
  <2>1. "Operator (Admin)" \in Actor
    BY DEF Actor
  <2> QED  BY <1>2, <1>3, <1>4, <2>1, EntriesWritten DEF Audit!overrideDecision, Audit!OverrideEntry
<1>5. ASSUME NEW p \in Audit!Payment, Audit!simulatePaymentFailed(p) PROVE HistoryInvariant'
  BY <1>2, <1>3, <1>5, EntriesWritten DEF Audit!simulatePaymentFailed
<1>6. CASE Audit!updatePolicyConfig \/ Audit!setKillSwitch
  BY <1>2, <1>3, <1>6, EntriesWritten DEF Audit!updatePolicyConfig, Audit!setKillSwitch
<1>7. CASE Audit!Reload
  BY <1>7, StartedOver DEF Audit!Reload
<1> QED
  BY <1>1, <1>4, <1>5, <1>6, <1>7
  DEF Audit!Next, Audit!SetActorFilter, Audit!SetEntityFilter, Audit!SetSearchTerm, Audit!vars

\* Some place of the log up to n holds e.
From(n, e) == \E k \in 1..n : e = log[k]

\* Whatever passes the filters, the list shows entries of the log, in the log's order.
LEMMA FilteredInOrder ==
  ASSUME HistoryInvariant PROVE Audit!ShownChronologically
<1> DEFINE N == Len(log)
           passes(n) == Audit!Passes(log[n], actorFilter, entityFilter, searchTerm)
           S == Seq(LogEntry)
           more(n, list) == IF passes(n) THEN Append(list, log[n]) ELSE list
           step == [p \in (1..N) \X S |-> more(p[1], p[2])]
<1>1. N \in Nat /\ DOMAIN log = 1..N /\ (\A n \in 1..N : log[n] \in LogEntry) /\ <<>> \in S
  BY DEF HistoryInvariant
<1>2. \A x \in LogEntry : x.at \in Nat
  BY DEF LogEntry
<1>3. step \in [(1..N) \X S -> S]
  <2>1. \A n \in 1..N, list \in S : more(n, list) \in S
    <3> HIDE DEF passes
    <3> QED  BY <1>1
  <2> HIDE DEF more, S, N
  <2> QED  BY <2>1
<1> HIDE DEF step
<1>4. PICK f : Solves(f, N, S, <<>>, step)
  <2> HIDE DEF S, N
  <2> QED  BY <1>1, <1>3, Recursion
<1>5. f = [n \in 0..N |-> IF n = 0 THEN <<>> ELSE more(n, f[n - 1])]
  <2>1. ASSUME NEW n \in 1..N PROVE f[n] = more(n, f[n - 1])
    <3>1. n - 1 \in 0..N /\ f[n - 1] \in S
      <4>1. n - 1 \in 0..N
        BY <1>1
      <4> HIDE DEF S, N
      <4> QED  BY <1>4, <4>1 DEF Solves
    <3>2. step[<<n, f[n - 1]>>] = more(n, f[n - 1])
      BY <3>1 DEF step
    <3> QED  BY <1>4, <3>2 DEF Solves
  <2> HIDE DEF more, S
  <2> QED  BY <1>4, <2>1 DEF Solves
<1> DEFINE upTo[n \in 0..N] == IF n = 0 THEN <<>>
                              ELSE IF Audit!Passes(log[n], actorFilter, entityFilter, searchTerm)
                                THEN Append(upTo[n - 1], log[n])
                              ELSE upTo[n - 1]
<1>6. upTo = [n \in 0..N |-> IF n = 0 THEN <<>> ELSE more(n, upTo[n - 1])]
  BY <1>5
<1>7. Audit!filteredLogs = upTo[N]
  BY DEF Audit!filteredLogs
<1> HIDE DEF upTo
<1> DEFINE T == {n \in 0..N : /\ upTo[n] \in S /\ Descending(upTo[n])
                              /\ \A i \in DOMAIN upTo[n] : From(n, upTo[n][i])}
<1>8. 0 \in T
  <2>1. upTo[0] = <<>> /\ 0 \in 0..N
    BY <1>1, <1>6
  <2>2. DOMAIN upTo[0] = {} /\ upTo[0] \in S
    BY <1>1, <2>1
  <2> QED  BY <2>1, <2>2 DEF Descending
<1>9. ASSUME NEW n \in 0..N - 1, n \in T PROVE n + 1 \in T
  <2>1. n + 1 \in 1..N /\ n + 1 \in 0..N /\ upTo[n + 1] = more(n + 1, upTo[n])
    <3>1. n + 1 \in 1..N /\ n + 1 \in 0..N /\ n + 1 # 0 /\ (n + 1) - 1 = n
      BY <1>1
    <3> HIDE DEF more, N
    <3> QED  BY <1>6, <3>1
  <2>2. PICK old, e : old = upTo[n] /\ e = log[n + 1]
    OBVIOUS
  <2>3. old \in S /\ Descending(old) /\ (\A i \in DOMAIN old : From(n, old[i])) /\ e \in LogEntry
    BY <1>1, <1>9, <2>1, <2>2
  <2>4. From(n + 1, e) /\ \A x : From(n, x) => From(n + 1, x) /\ (x \in LogEntry => x.at >= e.at)
    <3>1. 1..n \subseteq 1..n + 1 /\ n + 1 \in 1..n + 1 /\ 1..n + 1 \subseteq 1..N
      BY <1>1
    <3>2. ASSUME NEW k \in 1..n PROVE log[k].at >= e.at
      <4>1. k \in DOMAIN log /\ n + 1 \in DOMAIN log /\ k < n + 1
        BY <1>1, <2>1, <3>1
      <4> QED  BY <2>2, <4>1 DEF HistoryInvariant, Descending
    <3> QED  BY <2>2, <3>1, <3>2 DEF From
  <2>5. PICK next : next = Append(old, e)
    OBVIOUS
  <2>6. /\ next \in S /\ Len(old) \in Nat /\ DOMAIN old = 1..Len(old)
        /\ DOMAIN next = 1..Len(old) + 1
        /\ \A i \in 1..Len(old) : next[i] = old[i] /\ old[i] \in LogEntry
        /\ next[Len(old) + 1] = e
    BY <2>3, <2>5
  <2>7. Descending(next)
    <3>1. ASSUME NEW i \in DOMAIN next, NEW j \in DOMAIN next, i < j PROVE next[i].at >= next[j].at
      <4>1. i \in DOMAIN old /\ next[i] = old[i] /\ old[i] \in LogEntry
        BY <2>6, <3>1
      <4>2. CASE j \in DOMAIN old
        BY <2>3, <2>6, <3>1, <4>1, <4>2 DEF Descending
      <4>3. CASE j \notin DOMAIN old
        <5>1. next[j] = e
          BY <2>6, <4>3
        <5> QED  BY <2>3, <2>4, <4>1, <5>1
      <4> QED  BY <4>2, <4>3
    <3> QED  BY <3>1 DEF Descending
  <2>8. \A i \in DOMAIN next : From(n + 1, next[i])
    <3>1. ASSUME NEW i \in DOMAIN next PROVE i \in DOMAIN old \/ next[i] = e
      BY <2>6
    <3> QED  BY <2>3, <2>4, <2>6, <3>1
  <2>9. upTo[n + 1] \in {old, next}
    <3> HIDE DEF passes
    <3> QED  BY <2>1, <2>2, <2>5
  <2>10. \A i \in DOMAIN old : From(n + 1, old[i])
    BY <2>3, <2>4
  <2> HIDE DEF S, N
  <2> QED  BY <2>1, <2>3, <2>6, <2>7, <2>8, <2>9, <2>10
<1>10. N \in T
  <2> HIDE DEF T, N
  <2>1. 0..N \subseteq T
    BY <1>1, <1>8, <1>9, Induct
  <2> QED  BY <1>1, <2>1
<1> QED  BY <1>7, <1>10 DEF Audit!ShownChronologically, Descending

\* Each entry has one actor and one entity among the options.
LEMMA OptionsDivide ==
  ASSUME NEW e \in LogEntry
  PROVE  /\ Audit!Cardinality({a \in Audit!ActorOption : Audit!Passes(e, a, Anything, Anything)}) = 1
         /\ Audit!Cardinality({t \in Audit!EntityOption : Audit!Passes(e, Anything, t, Anything)}) = 1
<1> DEFINE A == {a \in Audit!ActorOption : Audit!Passes(e, a, Anything, Anything)}
           B == {t \in Audit!EntityOption : Audit!Passes(e, Anything, t, Anything)}
<1>1. Anything \notin Audit!ActorOption \cup Audit!EntityOption
  BY ComponentsAssumption DEF Audit!AuditLedgerAssumption
<1>2. e.actor \in Actor /\ e.entity \in Audit!EntityOption
  BY DEF LogEntry
<1>3. \A a \in Audit!ActorOption : Audit!Passes(e, a, Anything, Anything) <=> Audit!NamesActor(e, a)
  BY <1>1 DEF Audit!Passes
<1>4. \A t \in Audit!EntityOption : Audit!Passes(e, Anything, t, Anything) <=> e.entity = t
  BY <1>1 DEF Audit!Passes
<1>5. A = {IF e.actor = "Operator (Admin)" THEN "Operator" ELSE e.actor}
  BY <1>2, <1>3 DEF Actor, Audit!ActorOption, Audit!NamesActor
<1>6. B = {e.entity}
  BY <1>2, <1>4
<1> HIDE DEF A, B
<1>7. Cardinality(A) = 1 /\ Cardinality(B) = 1
  BY <1>5, <1>6, FS_Singleton
<1>8. Cardinality(A) = Audit!Cardinality(A) /\ Cardinality(B) = Audit!Cardinality(B)
  BY DEF Cardinality, Audit!Cardinality
<1> QED  BY <1>7, <1>8 DEF A, B

(***************************************************************************)
(* After any commands, reloads and filters: every entry is under one       *)
(* option of each filter, the list reads from the newest to the oldest,    *)
(* and a search for a payment shows all that is known of it.               *)
(***************************************************************************)
THEOREM HistoryAlwaysFound == Audit!Spec => []HistoryFound
<1>1. Audit!Init => HistoryInvariant
  <2>1. SUFFICES ASSUME Audit!Init PROVE HistoryInvariant
    OBVIOUS
  <2>2. log = Audit!SeedLog /\ commands = 0
    BY <2>1 DEF Audit!Init
  <2>3. log \in Seq({e \in LogEntry : e.at = 0})
    BY <2>2, SeedLogIsOne
  <2>4. log \in Seq(LogEntry) /\ \A i \in DOMAIN log : log[i].at = 0
    BY <2>3
  <2> QED  BY <2>2, <2>4 DEF HistoryInvariant, Descending
<1>2. HistoryInvariant /\ [Audit!Next]_(Audit!vars) => HistoryInvariant'
  BY HistoryKept
<1>3. HistoryInvariant => HistoryFound
  <2>1. SUFFICES ASSUME HistoryInvariant PROVE Audit!HistoryFound
    BY DEF HistoryFound
  <2>2. \A i \in DOMAIN log : log[i] \in LogEntry
    BY <2>1 DEF HistoryInvariant
  <2>3. Audit!OptionsDivideLog
    BY <2>2, OptionsDivide DEF Audit!OptionsDivideLog
  <2>4. Audit!PaymentHistory
    BY <2>2 DEF Audit!PaymentHistory, Audit!Passes, LogEntry
  <2> QED  BY <2>1, <2>3, <2>4, FilteredInOrder DEF Audit!HistoryFound
<1> QED  BY <1>1, <1>2, <1>3, PTL DEF Audit!Spec

(***************************************************************************)
(* The sandbox and its operator, for any ids and amounts of simulated      *)
(* failures.                                                               *)
(***************************************************************************)
IsList(s) == s \in Seq({s[i] : i \in DOMAIN s})

\* A candidate: its ERV is what its other figures make it.
CandidateOK(c) ==
  /\ {"action_type", "p_success", "recoverable_amount", "cost", "friction_penalty", "erv",
      "policy_result", "is_winner"} \subseteq DOMAIN c
  /\ c.action_type \in CandidateActionType /\ c.is_winner \in BOOLEAN
  /\ {c.p_success, c.recoverable_amount, c.cost, c.friction_penalty, grossExpected(c)} \subseteq Nat
  /\ c.erv \in Int /\ c.erv = grossExpected(c) - c.cost - c.friction_penalty

\* A list of them names an action once, and marks one at most.
CandidatesOK(cs) ==
  /\ IsList(cs) /\ cs # <<>>
  /\ \A i \in DOMAIN cs : CandidateOK(cs[i])
  /\ \A i, k \in DOMAIN cs :
       \/ i = k
       \/ cs[i].action_type # cs[k].action_type /\ ~(cs[i].is_winner /\ cs[k].is_winner)

\* An id and a payment that belong together.
Identified(id, payment) ==
  \/ id \in NewIds /\ payment = id
  \/ \E i \in DOMAIN MOCK_DECISIONS :
       id = MOCK_DECISIONS[i].id /\ payment = MOCK_DECISIONS[i].payment_id

DecisionOK(d) ==
  /\ {"id", "payment_id", "chosen_action", "policy_result", "recovery_state",
      "candidate_actions", "execution", "outcome", "overridden"} \subseteq DOMAIN d
  /\ Identified(d.id, d.payment_id)
  /\ d.chosen_action \in CandidateActionType /\ d.policy_result \in PolicyCheckResult
  /\ d.execution \in ActionStatus \cup {"none"} /\ d.outcome \in RecoveryOutcome
  /\ d.recovery_state \in {"RECOVERED", "RECOVERY_ELIGIBLE", "STOPPED", "ACTION_PENDING"}
  /\ d.recovery_state = "RECOVERED" => d.execution # "none" /\ d.outcome.result = "RECOVERED"
  /\ CandidatesOK(d.candidate_actions) /\ d.overridden \in BOOLEAN
  /\ d.overridden =>
       \A i \in DOMAIN d.candidate_actions :
         d.candidate_actions[i].is_winner => d.candidate_actions[i].action_type = d.chosen_action

\* Marking a candidate, and ruling on it, leave its figures.
LEMMA Marked ==
  ASSUME NEW c, CandidateOK(c), NEW m, NEW winner \in BOOLEAN, NEW result,
         m = [c EXCEPT !.is_winner = winner] \/ m = [c EXCEPT !.policy_result = result]
  PROVE  /\ CandidateOK(m) /\ m.action_type = c.action_type
         /\ m.is_winner = IF m = [c EXCEPT !.is_winner = winner] THEN winner ELSE c.is_winner
<1>1. /\ DOMAIN m = DOMAIN c
      /\ m.action_type = c.action_type /\ m.p_success = c.p_success
      /\ m.recoverable_amount = c.recoverable_amount /\ m.cost = c.cost
      /\ m.friction_penalty = c.friction_penalty /\ m.erv = c.erv
  BY DEF CandidateOK
<1>2. m.is_winner = IF m = [c EXCEPT !.is_winner = winner] THEN winner ELSE c.is_winner
  BY DEF CandidateOK
<1>3. m.is_winner \in BOOLEAN
  BY <1>2 DEF CandidateOK
<1>4. grossExpected(m) = grossExpected(c)
  BY <1>1 DEF grossExpected
<1>5. CandidateOK(m)
  BY <1>1, <1>3, <1>4 DEF CandidateOK
<1> QED  BY <1>1, <1>2, <1>5

\* What a list of a fixed length is made of.
LEMMA IsAList ==
  ASSUME NEW n \in Nat, NEW s, s = [i \in 1..n |-> s[i]]
  PROVE  IsList(s) /\ Len(s) = n
<1> DEFINE E == {s[i] : i \in DOMAIN s}
<1>1. DOMAIN s = 1..n
  OBVIOUS
<1>2. \A i \in 1..n : s[i] \in E
  BY <1>1
<1> HIDE DEF E
<1>3. s \in Seq(E) /\ Len(s) = n
  BY <1>2
<1> QED  BY <1>3 DEF E, IsList

\* Lists of candidates written out, at most one of each marked.
LEMMA TwoCandidates ==
  ASSUME NEW a, NEW b, CandidateOK(a), CandidateOK(b), a.action_type # b.action_type,
         ~b.is_winner
  PROVE  CandidatesOK(<<a, b>>)
<1>1. PICK cs : cs = <<a, b>>
  OBVIOUS
<1>2. DOMAIN cs = 1..2 /\ cs[1] = a /\ cs[2] = b /\ cs # <<>> /\ cs = [i \in 1..2 |-> cs[i]]
  BY <1>1
<1>3. IsList(cs)
  BY <1>2, IsAList
<1>4. \A i \in DOMAIN cs : i = 1 \/ i = 2
  BY <1>2
<1> QED  BY <1>1, <1>2, <1>3, <1>4 DEF CandidatesOK

\* Lists of three and of seven candidates, of different actions.
LEMMA ThreeCandidates ==
  ASSUME NEW a, NEW b, NEW c, CandidateOK(a), CandidateOK(b), CandidateOK(c),
         a.action_type # b.action_type, a.action_type # c.action_type,
         b.action_type # c.action_type,
         ~(a.is_winner /\ b.is_winner), ~(a.is_winner /\ c.is_winner),
         ~(b.is_winner /\ c.is_winner)
  PROVE  CandidatesOK(<<a, b, c>>)
<1>1. PICK cs : cs = <<a, b, c>>
  OBVIOUS
<1>2. /\ DOMAIN cs = 1..3 /\ cs[1] = a /\ cs[2] = b /\ cs[3] = c /\ cs # <<>>
      /\ cs = [i \in 1..3 |-> cs[i]]
  BY <1>1
<1>3. IsList(cs)
  BY <1>2, IsAList
<1>4. \A i \in DOMAIN cs : i = 1 \/ i = 2 \/ i = 3
  BY <1>2
<1> QED  BY <1>1, <1>2, <1>3, <1>4 DEF CandidatesOK

LEMMA SevenCandidates ==
  ASSUME NEW a, NEW b, NEW c, NEW d, NEW e, NEW f, NEW g,
         \A x \in {a, b, c, d, e, f, g} : CandidateOK(x),
         a.action_type = "delayed_retry", b.action_type = "payment_link",
         c.action_type = "reminder", d.action_type = "retry",
         e.action_type = "alternate_method", f.action_type = "escalate",
         g.action_type = "no_action",
         \A x \in {b, c, d, e, f, g} : ~x.is_winner
  PROVE  CandidatesOK(<<a, b, c, d, e, f, g>>)
<1>1. PICK cs : cs = <<a, b, c, d, e, f, g>>
  OBVIOUS
<1>2. /\ DOMAIN cs = 1..7 /\ cs # <<>> /\ cs = [i \in 1..7 |-> cs[i]]
      /\ cs[1] = a /\ cs[2] = b /\ cs[3] = c /\ cs[4] = d /\ cs[5] = e /\ cs[6] = f /\ cs[7] = g
  BY <1>1
<1>3. IsList(cs)
  BY <1>2, IsAList
<1>4. \A i \in DOMAIN cs : i = 1 \/ i = 2 \/ i = 3 \/ i = 4 \/ i = 5 \/ i = 6 \/ i = 7
  BY <1>2
<1>5. \A i \in DOMAIN cs : CandidateOK(cs[i]) /\ (cs[i].is_winner => i = 1)
  BY <1>2, <1>4
<1>6. \A i, k \in DOMAIN cs : cs[i].action_type = cs[k].action_type => i = k
  BY <1>2, <1>4
<1> QED  BY <1>1, <1>2, <1>3, <1>5, <1>6 DEF CandidatesOK

\* The seven seeded decisions.
LEMMA SeedsListed ==
  /\ MOCK_DECISIONS = [i \in 1..7 |-> MOCK_DECISIONS[i]]
  /\ MOCK_DECISIONS[1] = DEC_8F31A2 /\ MOCK_DECISIONS[2] = DEC_9B42E1
  /\ MOCK_DECISIONS[3] = DEC_3C18F0 /\ MOCK_DECISIONS[4] = DEC_5D77A9
  /\ MOCK_DECISIONS[5] = DEC_7E29C3 /\ MOCK_DECISIONS[6] = DEC_2A61D4
  /\ MOCK_DECISIONS[7] = DEC_1F88B7
  BY SMTT(20) DEF MOCK_DECISIONS

\* The ids and the payments of the seeded decisions, which are all different.
LEMMA SeedKeys ==
  /\ DEC_8F31A2.id = "DEC-8F31A2" /\ DEC_8F31A2.payment_id = "pay_Hdfc8914A"
  /\ DEC_9B42E1.id = "DEC-9B42E1" /\ DEC_9B42E1.payment_id = "pay_Corp_145000"
  /\ DEC_3C18F0.id = "DEC-3C18F0" /\ DEC_3C18F0.payment_id = "pay_Card_3200_max"
  /\ DEC_5D77A9.id = "DEC-5D77A9" /\ DEC_5D77A9.payment_id = "pay_Upi_12500_ambig"
  /\ DEC_7E29C3.id = "DEC-7E29C3" /\ DEC_7E29C3.payment_id = "pay_Upi_6800_degraded"
  /\ DEC_2A61D4.id = "DEC-2A61D4" /\ DEC_2A61D4.payment_id = "pay_Upi_2499_alt"
  /\ DEC_1F88B7.id = "DEC-1F88B7" /\ DEC_1F88B7.payment_id = "pay_Sub_1899_frict"
  BY SMTT(20) DEF DEC_8F31A2, DEC_9B42E1, DEC_3C18F0, DEC_5D77A9, DEC_7E29C3, DEC_2A61D4, DEC_1F88B7,
         Decision

LEMMA SeedsApart ==
  ASSUME NEW i \in DOMAIN MOCK_DECISIONS, NEW k \in DOMAIN MOCK_DECISIONS, i # k
  PROVE  /\ MOCK_DECISIONS[i].id # MOCK_DECISIONS[k].id
         /\ MOCK_DECISIONS[i].payment_id # MOCK_DECISIONS[k].payment_id
<1>1. PICK ds : ds = MOCK_DECISIONS
  OBVIOUS
<1>2. /\ ds[1].id = "DEC-8F31A2" /\ ds[1].payment_id = "pay_Hdfc8914A"
      /\ ds[2].id = "DEC-9B42E1" /\ ds[2].payment_id = "pay_Corp_145000"
      /\ ds[3].id = "DEC-3C18F0" /\ ds[3].payment_id = "pay_Card_3200_max"
      /\ ds[4].id = "DEC-5D77A9" /\ ds[4].payment_id = "pay_Upi_12500_ambig"
      /\ ds[5].id = "DEC-7E29C3" /\ ds[5].payment_id = "pay_Upi_6800_degraded"
      /\ ds[6].id = "DEC-2A61D4" /\ ds[6].payment_id = "pay_Upi_2499_alt"
      /\ ds[7].id = "DEC-1F88B7" /\ ds[7].payment_id = "pay_Sub_1899_frict"
  BY <1>1, SeedsListed, SeedKeys
<1>3. DOMAIN ds = 1..7
  BY <1>1, SeedsListed
<1> QED  BY <1>1, <1>2, <1>3

\* A decision and its payment are found by each other.
LEMMA IdentifiedApart ==
  ASSUME NEW id, NEW payment, NEW other, NEW paid,
         Identified(id, payment), Identified(other, paid)
  PROVE  id = other <=> payment = paid
  BY SeedsApart, SandboxAssumption DEF Identified

\* A seeded decision was made with the action it is seeded with.
LEMMA SeedFound ==
  ASSUME NEW i \in DOMAIN MOCK_DECISIONS
  PROVE  MadeWith(MOCK_DECISIONS[i].id) = MOCK_DECISIONS[i].chosen_action
  BY SeedsApart, SandboxAssumption DEF MadeWith, Find

\* The seeded decisions, one by one.
LEMMA SeedOne == DecisionOK(DEC_8F31A2)
<1> DEFINE a == Winner(Allowed("delayed_retry", 89, 849900, 200, 7200, 749011))
           b == Allowed("payment_link", 74, 849900, 450, 6500, 621976)
           c == Allowed("reminder", 61, 849900, 150, 8500, 509789)
           d == Allowed("retry", 42, 849900, 200, 12000, 344758)
           e == Allowed("alternate_method", 52, 849900, 350, 15000, 426598)
           f == Allowed("escalate", 38, 849900, 3500, 40000, 279462)
           g == Allowed("no_action", 0, 849900, 0, 0, 0)
<1>1. CandidateOK(a) /\ a.action_type = "delayed_retry" /\ a.is_winner = TRUE
  BY SMTT(20) DEF Winner, Ruled, Allowed, CandidateActionItem, CandidateOK, grossExpected, Round,
         CandidateActionType
<1>2. CandidateOK(b) /\ b.action_type = "payment_link" /\ b.is_winner = FALSE
  BY SMTT(20) DEF Winner, Ruled, Allowed, CandidateActionItem, CandidateOK, grossExpected, Round,
         CandidateActionType
<1>3. CandidateOK(c) /\ c.action_type = "reminder" /\ c.is_winner = FALSE
  BY SMTT(20) DEF Winner, Ruled, Allowed, CandidateActionItem, CandidateOK, grossExpected, Round,
         CandidateActionType
<1>4. CandidateOK(d) /\ d.action_type = "retry" /\ d.is_winner = FALSE
  BY SMTT(20) DEF Winner, Ruled, Allowed, CandidateActionItem, CandidateOK, grossExpected, Round,
         CandidateActionType
<1>5. CandidateOK(e) /\ e.action_type = "alternate_method" /\ e.is_winner = FALSE
  BY SMTT(20) DEF Winner, Ruled, Allowed, CandidateActionItem, CandidateOK, grossExpected, Round,
         CandidateActionType
<1>6. CandidateOK(f) /\ f.action_type = "escalate" /\ f.is_winner = FALSE
  BY SMTT(20) DEF Winner, Ruled, Allowed, CandidateActionItem, CandidateOK, grossExpected, Round,
         CandidateActionType
<1>7. CandidateOK(g) /\ g.action_type = "no_action" /\ g.is_winner = FALSE
  BY SMTT(20) DEF Winner, Ruled, Allowed, CandidateActionItem, CandidateOK, grossExpected, Round,
         CandidateActionType
<1>8. DEC_8F31A2.candidate_actions = <<a, b, c, d, e, f, g>>
  BY SMTT(20) DEF DEC_8F31A2, DEC_8F31A2_candidates, Decision
<1> HIDE DEF a, b, c, d, e, f, g
<1>9. CandidatesOK(DEC_8F31A2.candidate_actions)
  BY <1>1, <1>2, <1>3, <1>4, <1>5, <1>6, <1>7, <1>8, SevenCandidates
<1>10. Identified(DEC_8F31A2.id, DEC_8F31A2.payment_id)
  BY SeedsListed DEF Identified
<1> QED
  BY <1>9, <1>10, SMTT(40) DEF DEC_8F31A2, Decision, DecisionOK, Outcome, RecoveryOutcome, PolicyCheckResult,
       CandidateActionType, ActionStatus

LEMMA SeedTwo == DecisionOK(DEC_9B42E1)
<1> DEFINE a == Winner(Ruled(Allowed("payment_link", 82, 14500000, 800, 15000, 11874200), "HUMAN_REVIEW"))
           b == Ruled(Allowed("delayed_retry", 65, 14500000, 300, 25000, 9399700), "HUMAN_REVIEW")
           c == Ruled(Allowed("escalate", 78, 14500000, 5000, 20000, 11285000), "HUMAN_REVIEW")
<1>1. CandidateOK(a) /\ a.action_type = "payment_link" /\ a.is_winner = TRUE
  BY SMTT(20) DEF Winner, Ruled, Allowed, CandidateActionItem, CandidateOK, grossExpected, Round,
         CandidateActionType
<1>2. CandidateOK(b) /\ b.action_type = "delayed_retry" /\ b.is_winner = FALSE
  BY SMTT(20) DEF Winner, Ruled, Allowed, CandidateActionItem, CandidateOK, grossExpected, Round,
         CandidateActionType
<1>3. CandidateOK(c) /\ c.action_type = "escalate" /\ c.is_winner = FALSE
  BY SMTT(20) DEF Winner, Ruled, Allowed, CandidateActionItem, CandidateOK, grossExpected, Round,
         CandidateActionType
<1>4. DEC_9B42E1.candidate_actions = <<a, b, c>>
  BY SMTT(20) DEF DEC_9B42E1, Decision
<1> HIDE DEF a, b, c
<1>5. CandidatesOK(DEC_9B42E1.candidate_actions)
  BY <1>1, <1>2, <1>3, <1>4, ThreeCandidates
<1>6. Identified(DEC_9B42E1.id, DEC_9B42E1.payment_id)
  BY SeedsListed DEF Identified
<1> QED
  BY <1>5, <1>6, SMTT(40) DEF DEC_9B42E1, Decision, DecisionOK, Outcome, RecoveryOutcome, PolicyCheckResult,
       CandidateActionType, ActionStatus

LEMMA SeedThree == DecisionOK(DEC_3C18F0)
<1> DEFINE a == Ruled(Allowed("payment_link", 35, 320000, 450, 25000, 86550), "BLOCK")
           b == Ruled(Allowed("delayed_retry", 28, 320000, 200, 30000, 59400), "BLOCK")
           c == Winner(Allowed("no_action", 0, 320000, 0, 0, 0))
<1>1. CandidateOK(a) /\ a.action_type = "payment_link" /\ a.is_winner = FALSE
  BY SMTT(20) DEF Winner, Ruled, Allowed, CandidateActionItem, CandidateOK, grossExpected, Round,
         CandidateActionType
<1>2. CandidateOK(b) /\ b.action_type = "delayed_retry" /\ b.is_winner = FALSE
  BY SMTT(20) DEF Winner, Ruled, Allowed, CandidateActionItem, CandidateOK, grossExpected, Round,
         CandidateActionType
<1>3. CandidateOK(c) /\ c.action_type = "no_action" /\ c.is_winner = TRUE
  BY SMTT(20) DEF Winner, Ruled, Allowed, CandidateActionItem, CandidateOK, grossExpected, Round,
         CandidateActionType
<1>4. DEC_3C18F0.candidate_actions = <<a, b, c>>
  BY SMTT(20) DEF DEC_3C18F0, Decision
<1> HIDE DEF a, b, c
<1>5. CandidatesOK(DEC_3C18F0.candidate_actions)
  BY <1>1, <1>2, <1>3, <1>4, ThreeCandidates
<1>6. Identified(DEC_3C18F0.id, DEC_3C18F0.payment_id)
  BY SeedsListed DEF Identified
<1> QED
  BY <1>5, <1>6, SMTT(40) DEF DEC_3C18F0, Decision, DecisionOK, Outcome, RecoveryOutcome, PolicyCheckResult,
       CandidateActionType, ActionStatus

LEMMA SeedFour == DecisionOK(DEC_5D77A9)
<1> DEFINE a == Winner(Allowed("payment_link", 78, 1250000, 450, 5800, 968750))
           b == Allowed("retry", 25, 1250000, 200, 18000, 294300)
<1>1. CandidateOK(a) /\ a.action_type = "payment_link" /\ a.is_winner = TRUE
  BY SMTT(20) DEF Winner, Ruled, Allowed, CandidateActionItem, CandidateOK, grossExpected, Round,
         CandidateActionType
<1>2. CandidateOK(b) /\ b.action_type = "retry" /\ b.is_winner = FALSE
  BY SMTT(20) DEF Winner, Ruled, Allowed, CandidateActionItem, CandidateOK, grossExpected, Round,
         CandidateActionType
<1>3. DEC_5D77A9.candidate_actions = <<a, b>>
  BY SMTT(20) DEF DEC_5D77A9, Decision
<1> HIDE DEF a, b
<1>4. CandidatesOK(DEC_5D77A9.candidate_actions)
  BY <1>1, <1>2, <1>3, TwoCandidates
<1>5. Identified(DEC_5D77A9.id, DEC_5D77A9.payment_id)
  BY SeedsListed DEF Identified
<1> QED
  BY <1>4, <1>5, SMTT(40) DEF DEC_5D77A9, Decision, DecisionOK, Outcome, RecoveryOutcome, PolicyCheckResult,
       CandidateActionType, ActionStatus

LEMMA SeedFive == DecisionOK(DEC_7E29C3)
<1> DEFINE a == Winner(Allowed("payment_link", 81, 680000, 450, 5500, 544850))
           b == Allowed("retry", 15, 680000, 200, 15000, 86800)
<1>1. CandidateOK(a) /\ a.action_type = "payment_link" /\ a.is_winner = TRUE
  BY SMTT(20) DEF Winner, Ruled, Allowed, CandidateActionItem, CandidateOK, grossExpected, Round,
         CandidateActionType
<1>2. CandidateOK(b) /\ b.action_type = "retry" /\ b.is_winner = FALSE
  BY SMTT(20) DEF Winner, Ruled, Allowed, CandidateActionItem, CandidateOK, grossExpected, Round,
         CandidateActionType
<1>3. DEC_7E29C3.candidate_actions = <<a, b>>
  BY SMTT(20) DEF DEC_7E29C3, Decision
<1> HIDE DEF a, b
<1>4. CandidatesOK(DEC_7E29C3.candidate_actions)
  BY <1>1, <1>2, <1>3, TwoCandidates
<1>5. Identified(DEC_7E29C3.id, DEC_7E29C3.payment_id)
  BY SeedsListed DEF Identified
<1> QED
  BY <1>4, <1>5, SMTT(40) DEF DEC_7E29C3, Decision, DecisionOK, Outcome, RecoveryOutcome, PolicyCheckResult,
       CandidateActionType, ActionStatus

LEMMA SeedSix == DecisionOK(DEC_2A61D4)
<1> DEFINE a == Winner(Allowed("alternate_method", 81, 249900, 350, 3800, 198269))
           b == Ruled(Allowed("retry", 2, 249900, 200, 15000, -10202), "BLOCK")
<1>1. CandidateOK(a) /\ a.action_type = "alternate_method" /\ a.is_winner = TRUE
  BY SMTT(20) DEF Winner, Ruled, Allowed, CandidateActionItem, CandidateOK, grossExpected, Round,
         CandidateActionType
<1>2. CandidateOK(b) /\ b.action_type = "retry" /\ b.is_winner = FALSE
  BY SMTT(20) DEF Winner, Ruled, Allowed, CandidateActionItem, CandidateOK, grossExpected, Round,
         CandidateActionType
<1>3. DEC_2A61D4.candidate_actions = <<a, b>>
  BY SMTT(20) DEF DEC_2A61D4, Decision
<1> HIDE DEF a, b
<1>4. CandidatesOK(DEC_2A61D4.candidate_actions)
  BY <1>1, <1>2, <1>3, TwoCandidates
<1>5. Identified(DEC_2A61D4.id, DEC_2A61D4.payment_id)
  BY SeedsListed DEF Identified
<1> QED
  BY <1>4, <1>5, SMTT(40) DEF DEC_2A61D4, Decision, DecisionOK, Outcome, RecoveryOutcome, PolicyCheckResult,
       CandidateActionType, ActionStatus

LEMMA SeedSeven == DecisionOK(DEC_1F88B7)
<1> DEFINE a == Winner(Allowed("delayed_retry", 80, 189900, 200, 2500, 149220))
           b == Allowed("reminder", 72, 189900, 150, 15000, 121578)
<1>1. CandidateOK(a) /\ a.action_type = "delayed_retry" /\ a.is_winner = TRUE
  BY SMTT(20) DEF Winner, Ruled, Allowed, CandidateActionItem, CandidateOK, grossExpected, Round,
         CandidateActionType
<1>2. CandidateOK(b) /\ b.action_type = "reminder" /\ b.is_winner = FALSE
  BY SMTT(20) DEF Winner, Ruled, Allowed, CandidateActionItem, CandidateOK, grossExpected, Round,
         CandidateActionType
<1>3. DEC_1F88B7.candidate_actions = <<a, b>>
  BY SMTT(20) DEF DEC_1F88B7, Decision
<1> HIDE DEF a, b
<1>4. CandidatesOK(DEC_1F88B7.candidate_actions)
  BY <1>1, <1>2, <1>3, TwoCandidates
<1>5. Identified(DEC_1F88B7.id, DEC_1F88B7.payment_id)
  BY SeedsListed DEF Identified
<1> QED
  BY <1>4, <1>5, SMTT(40) DEF DEC_1F88B7, Decision, DecisionOK, Outcome, RecoveryOutcome, PolicyCheckResult,
       CandidateActionType, ActionStatus

\* Entries S of log s, the newest first, lead from one action to another.
Leads(s, S, first, last) ==
  /\ S = {} => last = first
  /\ S # {} => \E a, b \in S : /\ \A i \in S : a <= i /\ i <= b
                               /\ s[a].to = last /\ s[b].from = first
  /\ \A i, k \in S :
       i < k /\ (\A j \in S : j <= i \/ k <= j) => s[i].from = s[k].to

\* They still do where the log has grown by another entry, and one more step may be put
\* in front of them.
LEMMA LeadsShifted ==
  ASSUME NEW s, NEW t, NEW S \in SUBSET Int, NEW T, NEW first, NEW last,
         T = {i + 1 : i \in S}, \A i \in S : t[i + 1] = s[i], Leads(s, S, first, last)
  PROVE  Leads(t, T, first, last)
<1>1. T = {} => S = {}
  OBVIOUS
<1>2. ASSUME T # {}
      PROVE  \E a, b \in T : /\ \A i \in T : a <= i /\ i <= b
                             /\ t[a].to = last /\ t[b].from = first
  <2>1. PICK a \in S, b \in S : /\ \A i \in S : a <= i /\ i <= b
                                /\ s[a].to = last /\ s[b].from = first
    BY <1>2 DEF Leads
  <2>2. a + 1 \in T /\ b + 1 \in T /\ \A i \in T : a + 1 <= i /\ i <= b + 1
    BY <2>1
  <2> QED  BY <2>1, <2>2
<1>3. ASSUME NEW i \in T, NEW k \in T, i < k, \A j \in T : j <= i \/ k <= j
      PROVE  t[i].from = t[k].to
  <2>1. PICK p \in S, q \in S : i = p + 1 /\ k = q + 1
    OBVIOUS
  <2>2. p < q /\ \A j \in S : j <= p \/ q <= j
    <3>1. ASSUME NEW j \in S PROVE j <= p \/ q <= j
      <4>1. j + 1 \in T
        OBVIOUS
      <4>2. j + 1 <= p + 1 \/ q + 1 <= j + 1
        BY <1>3, <2>1, <4>1
      <4> QED  BY <4>2
    <3> QED  BY <1>3, <2>1, <3>1
  <2> QED  BY <2>1, <2>2 DEF Leads
<1> QED  BY <1>1, <1>2, <1>3 DEF Leads

\* Entries of other payments and of older dates change nothing of a trail.
LEMMA LeadsOn ==
  ASSUME NEW s, NEW t, NEW S \in SUBSET (Nat \ {0}), NEW T, NEW first, NEW last, NEW next,
         T = {1} \cup {i + 1 : i \in S}, \A i \in S : t[i + 1] = s[i],
         t[1].from = last, t[1].to = next, Leads(s, S, first, last)
  PROVE  Leads(t, T, first, next)
<1>1. \A i \in T : i \in Nat /\ i >= 1 /\ (i = 1 \/ i - 1 \in S)
  OBVIOUS
<1>2. \E a, b \in T : /\ \A i \in T : a <= i /\ i <= b
                      /\ t[a].to = next /\ t[b].from = first
  <2>1. CASE S = {}
    BY <2>1 DEF Leads
  <2>2. CASE S # {}
    <3>1. PICK a \in S, b \in S : /\ \A i \in S : a <= i /\ i <= b
                                  /\ s[a].to = last /\ s[b].from = first
      BY <2>2 DEF Leads
    <3>2. 1 \in T /\ b + 1 \in T
      OBVIOUS
    <3>3. ASSUME NEW i \in T PROVE 1 <= i /\ i <= b + 1
      <4>1. i = 1 \/ i - 1 <= b
        BY <1>1, <3>1
      <4> QED  BY <1>1, <4>1
    <3> QED  BY <3>1, <3>2, <3>3
  <2> QED  BY <2>1, <2>2
<1>3. ASSUME NEW i \in T, NEW k \in T, i < k, \A j \in T : j <= i \/ k <= j
      PROVE  t[i].from = t[k].to
  <2>1. k - 1 \in S /\ t[k] = s[k - 1]
    <3>1. k # 1
      BY <1>1, <1>3
    <3>2. k - 1 \in S /\ (k - 1) + 1 = k
      BY <1>1, <3>1
    <3> QED  BY <3>2
  <2>2. ASSUME NEW j \in S PROVE j + 1 <= i \/ k <= j + 1
    <3>1. j + 1 \in T
      OBVIOUS
    <3> QED  BY <1>3, <3>1
  <2>3. CASE i = 1
    <3>1. PICK a \in S : (\A j \in S : a <= j) /\ s[a].to = last
      BY <2>1 DEF Leads
    <3>2. a = k - 1
      <4>1. a + 1 <= 1 \/ k <= a + 1
        BY <2>2, <2>3
      <4>2. a <= k - 1 /\ a >= 1
        BY <2>1, <3>1
      <4> QED  BY <1>1, <4>1, <4>2
    <3> QED  BY <2>1, <2>3, <3>1, <3>2
  <2>4. CASE i # 1
    <3>1. i - 1 \in S /\ t[i] = s[i - 1]
      <4>1. i - 1 \in S /\ (i - 1) + 1 = i
        BY <1>1, <2>4
      <4> QED  BY <4>1
    <3>2. i - 1 < k - 1 /\ \A j \in S : j <= i - 1 \/ k - 1 <= j
      BY <1>1, <1>3, <2>2
    <3> QED  BY <2>1, <3>1, <3>2 DEF Leads
  <2> QED  BY <2>3, <2>4
<1> QED  BY <1>2, <1>3 DEF Leads

\* Something put in front of a list.
Prepends(t, x, s) ==
  /\ IsList(t) /\ 1 \in DOMAIN t /\ t[1] = x /\ DOMAIN s \subseteq Nat \ {0}
  /\ \A i \in DOMAIN s : i + 1 \in DOMAIN t /\ t[i + 1] = s[i]
  /\ \A i \in DOMAIN t : i \in Nat /\ (i = 1 \/ (i - 1 \in DOMAIN s /\ t[i] = s[i - 1]))

\* An entry put in front of the log.
LEMMA Prepended ==
  ASSUME NEW s, IsList(s), NEW x, NEW t, t = <<x>> \o s
  PROVE  Prepends(t, x, s)
<1> DEFINE E == {s[i] : i \in DOMAIN s} \cup {x}
<1>1. x \in E /\ s \in Seq(E)
  <2>1. PICK D : D = {s[i] : i \in DOMAIN s}
    OBVIOUS
  <2>2. s \in Seq(D) /\ D \subseteq E
    BY <2>1 DEF IsList
  <2> HIDE DEF E
  <2>3. s \in Seq(E)
    BY <2>2
  <2> QED  BY <2>3 DEF E
<1> HIDE DEF E
<1>2. <<x>> \in Seq(E) /\ Len(<<x>>) = 1 /\ <<x>>[1] = x
  BY <1>1, WrittenOut
<1>3. PICK one : one = <<x>>
  OBVIOUS
<1>4. /\ t \in Seq(E) /\ Len(s) \in Nat /\ DOMAIN s = 1..Len(s) /\ DOMAIN t = 1..Len(s) + 1
      /\ t[1] = x /\ \A i \in DOMAIN t : i # 1 => i - 1 \in DOMAIN s /\ t[i] = s[i - 1]
  BY <1>1, <1>2, <1>3
<1>5. Len(s) + 1 \in Nat /\ t = [i \in 1..Len(s) + 1 |-> t[i]]
  BY <1>4
<1>6. IsList(t)
  BY <1>4, <1>5, IsAList
<1>7. \A i \in DOMAIN s : i + 1 \in DOMAIN t /\ t[i + 1] = s[i]
  BY <1>4
<1> QED  BY <1>4, <1>6, <1>7 DEF Prepends

\* The places in log s of the override entries of one decision.
EntriesOf(s, id) ==
  {i \in DOMAIN s : s[i].event_type = "MANUAL_OPERATOR_OVERRIDE" /\ s[i].entity_id = id}

\* The entries of d lead from the action it was made with to the chosen one.
Explained(d) == Leads(auditLogs, EntriesOf(auditLogs, d.id), MadeWith(d.id), d.chosen_action)

SandboxInvariant ==
  /\ IsList(decisions) /\ IsList(auditLogs)
  /\ \A i \in DOMAIN decisions : DecisionOK(decisions[i]) /\ Explained(decisions[i])
  /\ \A i, k \in DOMAIN decisions : decisions[i].id = decisions[k].id => i = k
  /\ \A i \in OverrideEntries :
       /\ auditLogs[i].entity_id \in Ids
       /\ Identified(auditLogs[i].entity_id, auditLogs[i].payment_id)
  /\ tab \in {"feed", "decision"} /\ selected \in Ids /\ pick \in CandidateActionType

\* An entry is of one decision, and shifts the others' places.
LEMMA EntryAdded ==
  ASSUME SandboxInvariant, NEW e, auditLogs' = <<e>> \o auditLogs
  PROVE  /\ IsList(auditLogs')
         /\ \A i \in OverrideEntries : i + 1 \in OverrideEntries' /\ auditLogs'[i + 1] = auditLogs[i]
         /\ \A i \in OverrideEntries' :
              \/ i = 1
              \/ \E k \in OverrideEntries : i = k + 1 /\ auditLogs'[i] = auditLogs[k]
         /\ 1 \in OverrideEntries' <=> e.event_type = "MANUAL_OPERATOR_OVERRIDE"
         /\ OverrideEntries \subseteq Nat \ {0} /\ auditLogs'[1] = e
<1>1. PICK next : next = <<e>> \o auditLogs
  OBVIOUS
<1>2. Prepends(next, e, auditLogs)
  BY <1>1, Prepended DEF SandboxInvariant
<1>3. OverrideEntries' = {i \in DOMAIN next : next[i].event_type = "MANUAL_OPERATOR_OVERRIDE"}
  BY <1>1 DEF OverrideEntries
<1>4. ASSUME NEW i \in OverrideEntries', i # 1
      PROVE  i - 1 \in OverrideEntries /\ i = (i - 1) + 1 /\ next[i] = auditLogs[i - 1]
  BY <1>2, <1>3, <1>4 DEF OverrideEntries, Prepends
<1>5. \A i \in OverrideEntries : i + 1 \in OverrideEntries'
  BY <1>2, <1>3 DEF OverrideEntries, Prepends
<1>6. 1 \in OverrideEntries' <=> e.event_type = "MANUAL_OPERATOR_OVERRIDE"
  BY <1>2, <1>3 DEF Prepends
<1>7. OverrideEntries \subseteq DOMAIN auditLogs
  BY DEF OverrideEntries
<1> QED  BY <1>1, <1>2, <1>4, <1>5, <1>6, <1>7 DEF Prepends

\* A decision stays explained where the entry added is not an override of it.
LEMMA StillExplained ==
  ASSUME SandboxInvariant, NEW e, auditLogs' = <<e>> \o auditLogs,
         NEW d, NEW x, x.id = d.id, x.chosen_action = d.chosen_action, Explained(d),
         e.event_type # "MANUAL_OPERATOR_OVERRIDE" \/ e.entity_id # d.id
  PROVE  Leads(auditLogs', EntriesOf(auditLogs', d.id), MadeWith(x.id), x.chosen_action)
<1>1. PICK s, t, O, P : /\ s = auditLogs /\ t = auditLogs' /\ O = OverrideEntries
                       /\ P = OverrideEntries'
  OBVIOUS
<1>2. /\ \A i \in O : i + 1 \in P /\ t[i + 1] = s[i]
      /\ \A i \in P : i = 1 \/ \E k \in O : i = k + 1 /\ t[i] = s[k]
      /\ 1 \in P => e.event_type = "MANUAL_OPERATOR_OVERRIDE"
      /\ O \subseteq Nat \ {0} /\ t[1] = e
  BY <1>1, EntryAdded
<1>3. PICK S, T : S = {i \in O : s[i].entity_id = d.id} /\ T = {i \in P : t[i].entity_id = d.id}
  OBVIOUS
<1>4. S = EntriesOf(auditLogs, d.id) /\ T = EntriesOf(auditLogs', d.id)
  BY <1>1, <1>3 DEF EntriesOf, OverrideEntries
<1>5. ASSUME NEW i \in T PROVE \E k \in S : i = k + 1
  <2>1. i \in P /\ t[i].entity_id = d.id
    BY <1>3
  <2>2. PICK k \in O : i = k + 1
    BY <1>2, <2>1
  <2> QED  BY <1>2, <1>3, <2>1, <2>2
<1>6. \A k \in S : k + 1 \in T
  BY <1>2, <1>3
<1>7. T = {i + 1 : i \in S} /\ S \in SUBSET Int /\ \A i \in S : t[i + 1] = s[i]
  <2>1. T = {i + 1 : i \in S}
    BY <1>5, <1>6
  <2>2. S \subseteq O
    BY <1>3
  <2> QED  BY <1>2, <2>1, <2>2
<1>8. Leads(s, S, MadeWith(d.id), d.chosen_action)
  BY <1>1, <1>4 DEF Explained
<1>9. Leads(t, T, MadeWith(d.id), d.chosen_action)
  BY <1>7, <1>8, LeadsShifted
<1> QED  BY <1>1, <1>4, <1>9

\* An overridden one is explained by the entry added and the ones it had.
LEMMA OverrideExplained ==
  ASSUME SandboxInvariant, NEW e, auditLogs' = <<e>> \o auditLogs,
         NEW d, NEW x, x.id = d.id, Explained(d),
         e.event_type = "MANUAL_OPERATOR_OVERRIDE", e.entity_id = d.id,
         e.from = d.chosen_action, e.to = x.chosen_action
  PROVE  Leads(auditLogs', EntriesOf(auditLogs', d.id), MadeWith(x.id), x.chosen_action)
<1>1. PICK s, t, O, P : /\ s = auditLogs /\ t = auditLogs' /\ O = OverrideEntries
                       /\ P = OverrideEntries'
  OBVIOUS
<1>2. /\ \A i \in O : i + 1 \in P /\ t[i + 1] = s[i]
      /\ \A i \in P : i = 1 \/ \E k \in O : i = k + 1 /\ t[i] = s[k]
      /\ 1 \in P /\ O \subseteq Nat \ {0} /\ t[1] = e
  BY <1>1, EntryAdded
<1>3. PICK S, T : S = {i \in O : s[i].entity_id = d.id} /\ T = {i \in P : t[i].entity_id = d.id}
  OBVIOUS
<1>4. S = EntriesOf(auditLogs, d.id) /\ T = EntriesOf(auditLogs', d.id)
  BY <1>1, <1>3 DEF EntriesOf, OverrideEntries
<1>5. ASSUME NEW i \in T PROVE i = 1 \/ \E k \in S : i = k + 1
  <2>1. i \in P /\ t[i].entity_id = d.id
    BY <1>3
  <2>2. CASE i # 1
    <3>1. PICK k \in O : i = k + 1
      BY <1>2, <2>1, <2>2
    <3> QED  BY <1>2, <1>3, <2>1, <3>1
  <2> QED  BY <2>2
<1>6. 1 \in T /\ \A k \in S : k + 1 \in T
  BY <1>2, <1>3
<1>7. /\ T = {1} \cup {i + 1 : i \in S} /\ S \in SUBSET (Nat \ {0})
      /\ \A i \in S : t[i + 1] = s[i]
  <2>1. T = {1} \cup {i + 1 : i \in S}
    BY <1>5, <1>6
  <2>2. S \subseteq O
    BY <1>3
  <2> QED  BY <1>2, <2>1, <2>2
<1>8. Leads(s, S, MadeWith(d.id), d.chosen_action)
  BY <1>1, <1>4 DEF Explained
<1>9. Leads(t, T, MadeWith(d.id), x.chosen_action)
  <2>1. t[1].from = d.chosen_action /\ t[1].to = x.chosen_action
    BY <1>2
  <2> QED  BY <1>7, <1>8, <2>1, LeadsOn
<1> QED  BY <1>1, <1>4, <1>9

\* The decision of an id is found.
LEMMA Found ==
  ASSUME NEW ds, NEW i \in DOMAIN ds, \A k \in DOMAIN ds : ds[k].id = ds[i].id => k = i
  PROVE  Find(ds, ds[i].id) = ds[i]
  BY DEF Find

\* Marking the winner of a list anew.
LEMMA WinnerMarked ==
  ASSUME NEW cs, CandidatesOK(cs), NEW act \in CandidateActionType
  PROVE  /\ CandidatesOK(MarkWinner(cs, act))
         /\ \A i \in DOMAIN MarkWinner(cs, act) :
              LET c == MarkWinner(cs, act)[i] IN c.is_winner => c.action_type = act
<1>1. PICK ms : ms = MarkWinner(cs, act)
  OBVIOUS
<1>2. /\ DOMAIN ms = DOMAIN cs
      /\ \A i \in DOMAIN cs :
           ms[i] = [cs[i] EXCEPT !.is_winner = (cs[i].action_type = act)]
  BY <1>1 DEF MarkWinner
<1>3. ASSUME NEW i \in DOMAIN cs
      PROVE  /\ CandidateOK(ms[i]) /\ ms[i].action_type = cs[i].action_type
             /\ ms[i].is_winner <=> cs[i].action_type = act
  <2>1. PICK w \in BOOLEAN : w = (cs[i].action_type = act)
    OBVIOUS
  <2>2. CandidateOK(cs[i]) /\ ms[i] = [cs[i] EXCEPT !.is_winner = w]
    BY <1>2, <2>1 DEF CandidatesOK
  <2>3. CandidateOK(ms[i]) /\ ms[i].action_type = cs[i].action_type /\ ms[i].is_winner = w
    BY <2>2, Marked
  <2> QED  BY <2>1, <2>3
<1>4. PICK n \in Nat : DOMAIN cs = 1..n /\ n # 0
  <2>1. Len(cs) \in Nat /\ DOMAIN cs = 1..Len(cs) /\ Len(cs) # 0
    BY DEF CandidatesOK, IsList
  <2> QED  BY <2>1
<1>5. ms = [i \in 1..n |-> ms[i]]
  BY <1>1, <1>4 DEF MarkWinner
<1>6. IsList(ms) /\ Len(ms) = n
  BY <1>5, IsAList
<1>7. ms # <<>>
  BY <1>4, <1>6
<1>8. \A i, k \in DOMAIN ms :
        \/ i = k
        \/ ms[i].action_type # ms[k].action_type /\ ~(ms[i].is_winner /\ ms[k].is_winner)
  BY <1>2, <1>3 DEF CandidatesOK
<1>9. CandidatesOK(ms)
  BY <1>2, <1>3, <1>6, <1>7, <1>8 DEF CandidatesOK
<1> QED  BY <1>1, <1>2, <1>3, <1>9

\* An override leaves a decision that hangs together, of the same id and payment.
LEMMA OverriddenOK ==
  ASSUME NEW d, DecisionOK(d), NEW act \in CandidateActionType
  PROVE  LET x == Overridden(d, act)
         IN /\ DecisionOK(x) /\ x.id = d.id /\ x.payment_id = d.payment_id
            /\ x.chosen_action = act
<1>1. PICK x : x = Overridden(d, act)
  OBVIOUS
<1>2. /\ DOMAIN x = DOMAIN d /\ x.id = d.id /\ x.payment_id = d.payment_id
      /\ x.chosen_action = act /\ x.policy_result = "ALLOW"
      /\ x.recovery_state = "ACTION_PENDING"
      /\ x.candidate_actions = MarkWinner(d.candidate_actions, act)
      /\ x.execution = d.execution /\ x.outcome = d.outcome /\ x.overridden = TRUE
  BY <1>1 DEF DecisionOK, Overridden
<1>3. PICK cs : cs = MarkWinner(d.candidate_actions, act)
  OBVIOUS
<1>4. /\ CandidatesOK(cs)
      /\ \A i \in DOMAIN cs : cs[i].is_winner => cs[i].action_type = act
  BY <1>3, WinnerMarked DEF DecisionOK
<1>5. DecisionOK(x)
  BY <1>2, <1>3, <1>4 DEF DecisionOK, PolicyCheckResult
<1> QED  BY <1>1, <1>2, <1>5

\* So does a simulation.
LEMMA SimulatedOK ==
  ASSUME NEW id \in NewIds, NEW amount \in Amounts
  PROVE  LET d == Simulated(id, amount)
         IN DecisionOK(d) /\ d.id = id /\ d.payment_id = id /\ d.chosen_action = "delayed_retry"
<1> DEFINE a == Winner(Allowed("delayed_retry", 84, amount, 200, 7200, Round(84 * amount - 740000, 100)))
           b == Allowed("payment_link", 71, amount, 450, 6000, Round(71 * amount - 645000, 100))
           c == Allowed("no_action", 0, amount, 0, 0, 0)
<1>0. amount \in Nat
  BY SandboxAssumption
<1>1. /\ Round(84 * amount - 740000, 100) = Round(84 * amount, 100) - 200 - 7200
      /\ Round(71 * amount - 645000, 100) = Round(71 * amount, 100) - 450 - 6000
      /\ Round(0 * amount, 100) = 0
      /\ Round(84 * amount, 100) \in Nat /\ Round(71 * amount, 100) \in Nat
  BY <1>0 DEF Round
<1>2. /\ CandidateOK(a) /\ CandidateOK(b) /\ CandidateOK(c)
      /\ a.action_type = "delayed_retry" /\ b.action_type = "payment_link"
      /\ c.action_type = "no_action" /\ b.is_winner = FALSE /\ c.is_winner = FALSE
  BY <1>0, <1>1 DEF Winner, Allowed, CandidateActionItem, CandidateOK, grossExpected, CandidateActionType
<1>3. Simulated(id, amount).candidate_actions = <<a, b, c>>
  BY DEF Simulated, SimulatedCandidates, Decision
<1> HIDE DEF a, b, c
<1>4. CandidatesOK(Simulated(id, amount).candidate_actions)
  BY <1>2, <1>3, ThreeCandidates
<1>5. Simulated(id, amount).id = id /\ Simulated(id, amount).payment_id = id
  BY DEF Simulated, Decision
<1>6. Identified(id, id)
  BY DEF Identified
<1> QED
  BY <1>4, <1>5, <1>6 DEF Simulated, Decision, DecisionOK, Outcome, RecoveryOutcome, PolicyCheckResult,
       CandidateActionType, ActionStatus

\* The decisions after a step are each as they should be.
LEMMA SandboxStepped ==
  ASSUME IsList(decisions'), IsList(auditLogs'),
         \A i \in DOMAIN decisions' :
           LET x == decisions'[i]
           IN /\ DecisionOK(x)
              /\ Leads(auditLogs', EntriesOf(auditLogs', x.id), MadeWith(x.id), x.chosen_action),
         \A i, k \in DOMAIN decisions' : decisions'[i].id = decisions'[k].id => i = k,
         \A i \in OverrideEntries' :
           /\ auditLogs'[i].entity_id \in Ids'
           /\ Identified(auditLogs'[i].entity_id, auditLogs'[i].payment_id),
         tab' \in {"feed", "decision"}, selected' \in Ids', pick' \in CandidateActionType
  PROVE  SandboxInvariant'
  BY DEF SandboxInvariant, Explained

\* The seeded log has no override.
LEMMA SeedLogListed ==
  /\ MOCK_AUDIT_LOG = [i \in 1..9 |-> MOCK_AUDIT_LOG[i]]
  /\ \A i \in DOMAIN MOCK_AUDIT_LOG : MOCK_AUDIT_LOG[i].event_type # "MANUAL_OPERATOR_OVERRIDE"
<1>1. PICK s : s = MOCK_AUDIT_LOG
  OBVIOUS
<1>2. s = [i \in 1..9 |-> s[i]]
  <2>1. s = <<s[1], s[2], s[3], s[4], s[5], s[6], s[7], s[8], s[9]>>
    BY <1>1 DEF MOCK_AUDIT_LOG
  <2>2. \A a, b, c, d, e, f, g, h, i :
          LET l == <<a, b, c, d, e, f, g, h, i>> IN l = [k \in 1..9 |-> l[k]]
    OBVIOUS
  <2> QED  BY <2>1, <2>2
<1>3. /\ s[1].event_type = "PAYMENT_RECOVERED" /\ s[2].event_type = "ACTION_EXECUTED"
      /\ s[3].event_type = "POLICY_EVALUATION_COMPLETED"
  BY <1>1 DEF MOCK_AUDIT_LOG, AuditEvent
<1>4. /\ s[4].event_type = "DIAGNOSIS_COMPLETED" /\ s[5].event_type = "PAYMENT_FAILED_INGESTED"
      /\ s[6].event_type = "POLICY_FLAGGED_HUMAN_REVIEW"
  BY <1>1 DEF MOCK_AUDIT_LOG, AuditEvent
<1>5. /\ s[7].event_type = "RECOVERY_STOPPED" /\ s[8].event_type = "AI_FALLBACK_ENGAGED"
      /\ s[9].event_type = "POLICY_CONFIG_UPDATED"
  BY <1>1 DEF MOCK_AUDIT_LOG, AuditEvent
<1>6. \A i \in DOMAIN s : s[i].event_type # "MANUAL_OPERATOR_OVERRIDE"
  BY <1>2, <1>3, <1>4, <1>5
<1> QED  BY <1>1, <1>2, <1>6

\* The sandbox starts with the seeded decisions and their log.
LEMMA SandboxStarts ==
  ASSUME Init PROVE SandboxInvariant
<1>1. decisions = MOCK_DECISIONS /\ auditLogs = MOCK_AUDIT_LOG
  BY DEF Init
<1>2. IsList(decisions) /\ DOMAIN decisions = 1..7
  <2>1. PICK ds : ds = MOCK_DECISIONS
    OBVIOUS
  <2>2. ds = [i \in 1..7 |-> ds[i]]
    BY <2>1, SeedsListed
  <2> QED  BY <1>1, <2>1, <2>2, IsAList
<1>3. IsList(auditLogs) /\ OverrideEntries = {}
  BY <1>1, SeedLogListed, IsAList DEF OverrideEntries
<1>4. \A i \in DOMAIN decisions : DecisionOK(decisions[i])
  <2>1. \A i \in DOMAIN decisions :
          i = 1 \/ i = 2 \/ i = 3 \/ i = 4 \/ i = 5 \/ i = 6 \/ i = 7
    BY <1>2
  <2> QED
    BY <1>1, <2>1, SeedsListed, SeedOne, SeedTwo, SeedThree, SeedFour, SeedFive, SeedSix, SeedSeven
<1>5. \A i \in DOMAIN decisions : Explained(decisions[i])
  BY <1>1, <1>3, SeedFound DEF Explained, Leads, EntriesOf, OverrideEntries
<1>6. \A i, k \in DOMAIN decisions : decisions[i].id = decisions[k].id => i = k
  BY <1>1, SeedsApart
<1>7. selected \in Ids /\ pick \in CandidateActionType /\ tab \in {"feed", "decision"}
  <2>1. selected = decisions[1].id /\ pick = decisions[1].chosen_action /\ 1 \in DOMAIN decisions
    BY <1>1, <1>2, SeedsListed DEF Init
  <2> QED  BY <1>4, <2>1 DEF Ids, DecisionOK, Init
<1> QED  BY <1>2, <1>3, <1>4, <1>5, <1>6, <1>7 DEF SandboxInvariant

\* An override rewrites its decision and adds its entry.
LEMMA OverrideKeeps ==
  ASSUME SandboxInvariant, overrideDecision PROVE SandboxInvariant'
<1>1. PICK k \in DOMAIN decisions : decisions[k].id = selected
  BY DEF SandboxInvariant, Ids
<1>2. Shown = decisions[k]
  BY <1>1, Found DEF Shown, SandboxInvariant
<1>3. PICK e : e = OverrideEntry(Shown, pick)
  OBVIOUS
<1>4. /\ e.event_type = "MANUAL_OPERATOR_OVERRIDE" /\ e.entity_id = selected
      /\ e.payment_id = decisions[k].payment_id
      /\ e.from = decisions[k].chosen_action /\ e.to = pick
  BY <1>1, <1>2, <1>3 DEF OverrideEntry, AuditEvent
<1>5. /\ auditLogs' = <<e>> \o auditLogs /\ UNCHANGED <<tab, selected, pick>>
      /\ decisions' = [i \in DOMAIN decisions |->
                         IF decisions[i].id = selected THEN Overridden(decisions[i], pick)
                                                       ELSE decisions[i]]
  BY <1>3 DEF overrideDecision
<1>6. ASSUME NEW i \in DOMAIN decisions
      PROVE  /\ DecisionOK(decisions'[i]) /\ decisions'[i].id = decisions[i].id
             /\ decisions'[i].chosen_action
                  = IF i = k THEN pick ELSE decisions[i].chosen_action
  <2>1. DecisionOK(decisions[i]) /\ pick \in CandidateActionType
    BY DEF SandboxInvariant
  <2>2. decisions[i].id = selected <=> i = k
    BY <1>1 DEF SandboxInvariant
  <2>3. decisions'[i] = IF i = k THEN Overridden(decisions[i], pick) ELSE decisions[i]
    BY <1>5, <2>2
  <2> QED  BY <2>1, <2>3, OverriddenOK
<1>7. DOMAIN decisions' = DOMAIN decisions /\ Ids' = Ids
  BY <1>5, <1>6 DEF Ids
<1>8. IsList(decisions')
  <2>1. PICK n \in Nat : DOMAIN decisions = 1..n
    BY DEF SandboxInvariant, IsList
  <2>2. PICK ds : ds = decisions'
    OBVIOUS
  <2>3. ds = [i \in 1..n |-> ds[i]]
    BY <1>5, <2>1, <2>2
  <2> QED  BY <2>2, <2>3, IsAList
<1>9. ASSUME NEW i \in DOMAIN decisions
      PROVE  LET x == decisions'[i]
             IN Leads(auditLogs', EntriesOf(auditLogs', x.id), MadeWith(x.id), x.chosen_action)
  <2>1. PICK d, x : d = decisions[i] /\ x = decisions'[i]
    OBVIOUS
  <2>2. Explained(d) /\ x.id = d.id
    BY <1>6, <2>1 DEF SandboxInvariant
  <2>3. Leads(auditLogs', EntriesOf(auditLogs', d.id), MadeWith(x.id), x.chosen_action)
    <3>1. CASE i = k
      <4>1. e.entity_id = d.id /\ e.from = d.chosen_action /\ e.to = x.chosen_action
        BY <1>1, <1>4, <1>6, <2>1, <3>1
      <4> QED  BY <1>4, <1>5, <2>2, <4>1, OverrideExplained
    <3>2. CASE i # k
      <4>1. e.entity_id # d.id /\ x.chosen_action = d.chosen_action
        BY <1>1, <1>4, <1>6, <2>1, <3>2 DEF SandboxInvariant
      <4> QED  BY <1>5, <2>2, <4>1, StillExplained
    <3> QED  BY <3>1, <3>2
  <2> QED  BY <2>1, <2>2, <2>3 DEF EntriesOf
<1>10. ASSUME NEW i \in OverrideEntries'
       PROVE  /\ auditLogs'[i].entity_id \in Ids
              /\ Identified(auditLogs'[i].entity_id, auditLogs'[i].payment_id)
  <2>1. i = 1 \/ \E j \in OverrideEntries : auditLogs'[i] = auditLogs[j]
    BY <1>5, EntryAdded
  <2>2. auditLogs'[1] = e
    BY <1>5, EntryAdded
  <2>3. selected \in Ids /\ Identified(selected, e.payment_id)
    BY <1>1, <1>4 DEF SandboxInvariant, DecisionOK
  <2> QED  BY <1>4, <2>1, <2>2, <2>3 DEF SandboxInvariant
<1>11. IsList(auditLogs')
  BY <1>5, EntryAdded
<1>12. \A i, j \in DOMAIN decisions' : decisions'[i].id = decisions'[j].id => i = j
  BY <1>6, <1>7 DEF SandboxInvariant
<1>13. tab' \in {"feed", "decision"} /\ selected' \in Ids' /\ pick' \in CandidateActionType
  BY <1>5, <1>7 DEF SandboxInvariant
<1> QED
  BY <1>6, <1>7, <1>8, <1>9, <1>10, <1>11, <1>12, <1>13, SandboxStepped

\* A simulation puts a decision and an entry of a fresh id in front of the others.
LEMMA SimulatedKept ==
  ASSUME SandboxInvariant, NEW id \in NewIds, NEW amount \in Amounts,
         simulatePaymentFailed(id, amount)
  PROVE  SandboxInvariant'
<1>1. PICK d, e : /\ d = Simulated(id, amount)
                  /\ e = AuditEvent("System", "PAYMENT_FAILED_INGESTED", id, id)
  OBVIOUS
<1>2. DecisionOK(d) /\ d.id = id /\ d.payment_id = id /\ d.chosen_action = "delayed_retry"
  BY <1>1, SimulatedOK
<1>3. e.event_type # "MANUAL_OPERATOR_OVERRIDE"
  BY <1>1 DEF AuditEvent
<1>4. /\ id \notin Ids /\ decisions' = <<d>> \o decisions /\ auditLogs' = <<e>> \o auditLogs
      /\ tab' = "decision" /\ selected' = id /\ pick' \in {pick, "delayed_retry"}
  BY <1>1 DEF simulatePaymentFailed
<1>5. PICK ds : ds = decisions'
  OBVIOUS
<1>6. Prepends(ds, d, decisions)
  BY <1>4, <1>5, Prepended DEF SandboxInvariant
<1>7. IsList(ds) /\ 1 \in DOMAIN ds /\ ds[1] = d
  BY <1>6 DEF Prepends
<1>8. ASSUME NEW i \in DOMAIN ds
      PROVE  i = 1 \/ \E k \in DOMAIN decisions : i = k + 1 /\ ds[i] = decisions[k]
  BY <1>6 DEF Prepends
<1>9. Ids' = Ids \cup {id}
  <2>1. Ids' = {ds[i].id : i \in DOMAIN ds}
    BY <1>5 DEF Ids
  <2>2. \A k \in DOMAIN decisions : k + 1 \in DOMAIN ds /\ ds[k + 1] = decisions[k]
    BY <1>6 DEF Prepends
  <2>3. \A i \in DOMAIN ds : ds[i].id \in Ids \cup {id}
    BY <1>2, <1>7, <1>8 DEF Ids
  <2>4. \A k \in DOMAIN decisions : decisions[k].id \in Ids'
    BY <2>1, <2>2
  <2>5. id \in Ids'
    BY <1>2, <1>7, <2>1
  <2> QED  BY <2>1, <2>3, <2>4, <2>5 DEF Ids
<1>10. ASSUME NEW i \in DOMAIN ds
       PROVE  /\ DecisionOK(ds[i])
              /\ Leads(auditLogs', EntriesOf(auditLogs', ds[i].id), MadeWith(ds[i].id), ds[i].chosen_action)
  <2>1. CASE i = 1
    <3>1. EntriesOf(auditLogs', id) = {}
      <4>1. ASSUME NEW j \in OverrideEntries' PROVE auditLogs'[j].entity_id # id
        <5>1. PICK p \in OverrideEntries : auditLogs'[j] = auditLogs[p]
          BY <1>3, <1>4, EntryAdded
        <5> QED  BY <1>4, <5>1 DEF SandboxInvariant
      <4> QED  BY <4>1 DEF EntriesOf, OverrideEntries
    <3>2. Leads(auditLogs', {}, MadeWith(id), "delayed_retry")
      BY DEF Leads, MadeWith
    <3> QED  BY <1>2, <1>7, <2>1, <3>1, <3>2
  <2>2. CASE i # 1
    <3>1. PICK k \in DOMAIN decisions : ds[i] = decisions[k]
      BY <1>8, <2>2
    <3>2. DecisionOK(ds[i]) /\ Explained(ds[i])
      BY <3>1 DEF SandboxInvariant
    <3> QED  BY <1>3, <1>4, <3>2, StillExplained
  <2> QED  BY <2>1, <2>2
<1>11. ASSUME NEW i \in DOMAIN ds, NEW j \in DOMAIN ds, ds[i].id = ds[j].id PROVE i = j
  <2>1. \A k \in DOMAIN decisions : decisions[k].id # id
    BY <1>4 DEF Ids
  <2> QED  BY <1>2, <1>7, <1>8, <1>11, <2>1 DEF SandboxInvariant
<1>12. ASSUME NEW i \in OverrideEntries'
       PROVE  /\ auditLogs'[i].entity_id \in Ids'
              /\ Identified(auditLogs'[i].entity_id, auditLogs'[i].payment_id)
  <2>1. PICK j \in OverrideEntries : auditLogs'[i] = auditLogs[j]
    BY <1>3, <1>4, EntryAdded
  <2> QED  BY <1>9, <2>1 DEF SandboxInvariant
<1>13. IsList(auditLogs')
  BY <1>4, EntryAdded
<1>14. tab' \in {"feed", "decision"} /\ selected' \in Ids' /\ pick' \in CandidateActionType
  BY <1>4, <1>9 DEF SandboxInvariant, CandidateActionType
<1>15. \A i \in DOMAIN decisions' :
         LET x == decisions'[i]
         IN /\ DecisionOK(x)
            /\ Leads(auditLogs', EntriesOf(auditLogs', x.id), MadeWith(x.id), x.chosen_action)
  BY <1>5, <1>10 DEF EntriesOf
<1> QED
  BY <1>5, <1>7, <1>11, <1>12, <1>13, <1>14, <1>15, SandboxStepped

\* Each operation of the sandbox keeps the invariant.
LEMMA SandboxKept ==
  ASSUME SandboxInvariant, [Next]_vars PROVE SandboxInvariant'
<1>1. ASSUME NEW id \in Ids, Inspect(id) PROVE SandboxInvariant'
  <2>1. PICK k \in DOMAIN decisions : decisions[k].id = id
    BY DEF Ids
  <2>2. Find(decisions, id) = decisions[k]
    BY <2>1, Found DEF SandboxInvariant
  <2>3. /\ UNCHANGED <<decisions, auditLogs>> /\ tab' = "decision" /\ selected' = id
        /\ pick' = decisions[k].chosen_action
    BY <1>1, <2>2 DEF Inspect
  <2> QED
    BY <2>3 DEF SandboxInvariant, DecisionOK, Explained, OverrideEntries, Ids
<1>2. CASE Back
  BY <1>2 DEF Back, SandboxInvariant, Explained, OverrideEntries, Ids
<1>3. ASSUME NEW act \in CandidateActionType, PickAction(act) PROVE SandboxInvariant'
  BY <1>3 DEF PickAction, SandboxInvariant, Explained, OverrideEntries, Ids
<1>4. CASE overrideDecision
  BY <1>4, OverrideKeeps
<1>5. ASSUME NEW id \in NewIds, NEW amount \in Amounts, simulatePaymentFailed(id, amount)
      PROVE  SandboxInvariant'
  BY <1>5, SimulatedKept
<1>6. CASE UNCHANGED vars
  BY <1>6 DEF vars, SandboxInvariant, Explained, OverrideEntries, Ids
<1> QED  BY <1>1, <1>2, <1>3, <1>4, <1>5, <1>6 DEF Next

\* As many ids as decisions.
LEMMA IdsCounted ==
  ASSUME SandboxInvariant PROVE Cardinality(Ids) = Len(decisions)
<1>1. PICK n \in Nat : n = Len(decisions) /\ DOMAIN decisions = 1..n
  BY DEF SandboxInvariant, IsList
<1>2. PICK f : f = [i \in 1..n |-> decisions[i].id]
  OBVIOUS
<1>3. f \in [1..n -> Ids] /\ \A x \in Ids : \E i \in 1..n : f[i] = x
  BY <1>1, <1>2 DEF Ids
<1>4. \A i, k \in 1..n : f[i] = f[k] => i = k
  BY <1>1, <1>2 DEF SandboxInvariant
<1>5. ExistsBijection(1..n, Ids)
  BY <1>3, <1>4 DEF ExistsBijection, Bijection, Injection, Surjection, IsInjective
<1>6. IsFiniteSet(1..n) /\ Cardinality(1..n) = n
  BY FS_Interval
<1> QED  BY <1>1, <1>5, <1>6, FS_Bijection

\* The parts of InvestigationCoherent, each from the invariant.
LEMMA TypesHold ==
  ASSUME SandboxInvariant PROVE TypeOK
<1>1. ASSUME NEW d \in AllDecisions
      PROVE  /\ d.chosen_action \in CandidateActionType /\ d.policy_result \in PolicyCheckResult
             /\ d.recovery_state \in RecoveryState /\ d.execution \in ActionStatus \cup {"none"}
             /\ d.outcome \in RecoveryOutcome
  BY DEF AllDecisions, SandboxInvariant, DecisionOK, RecoveryState
<1> QED  BY <1>1, IdsCounted DEF TypeOK, SandboxInvariant

\* The trail's overrides are the decision's own.
LEMMA TrailIsOwn ==
  ASSUME SandboxInvariant, NEW k \in DOMAIN decisions
  PROVE  paymentAuditTrail(decisions[k]) \cap OverrideEntries
           = EntriesOf(auditLogs, decisions[k].id)
<1>1. Identified(decisions[k].id, decisions[k].payment_id)
  BY DEF SandboxInvariant, DecisionOK
<1>2. ASSUME NEW i \in OverrideEntries
      PROVE  auditLogs[i].entity_id = decisions[k].id
               <=> auditLogs[i].payment_id = decisions[k].payment_id
  BY <1>1, IdentifiedApart DEF SandboxInvariant
<1> QED  BY <1>2 DEF paymentAuditTrail, EntriesOf, OverrideEntries

LEMMA TrailsReplay ==
  ASSUME SandboxInvariant PROVE TrailReplays
<1> SUFFICES ASSUME NEW d \in AllDecisions, NEW o,
                    o = paymentAuditTrail(d) \cap OverrideEntries
             PROVE  /\ o = {} => d.chosen_action = MadeWith(d.id)
                    /\ o # {} => /\ auditLogs[Min(o)].to = d.chosen_action
                                 /\ auditLogs[Max(o)].from = MadeWith(d.id)
                    /\ \A i, k \in o :
                         i < k /\ (\A j \in o : j <= i \/ k <= j)
                           => auditLogs[i].from = auditLogs[k].to
  BY Zenon DEF TrailReplays
<1>1. PICK p \in DOMAIN decisions : d = decisions[p]
  BY DEF AllDecisions
<1>2. o = EntriesOf(auditLogs, d.id)
  BY <1>1, TrailIsOwn
<1>3. Leads(auditLogs, o, MadeWith(d.id), d.chosen_action)
  BY <1>1, <1>2 DEF SandboxInvariant, Explained
<1>4. o \subseteq Int
  BY <1>2 DEF EntriesOf, SandboxInvariant, IsList
<1>5. ASSUME o # {}
      PROVE  auditLogs[Min(o)].to = d.chosen_action /\ auditLogs[Max(o)].from = MadeWith(d.id)
  <2>1. PICK a \in o, b \in o : /\ \A i \in o : a <= i /\ i <= b
                                /\ auditLogs[a].to = d.chosen_action
                                /\ auditLogs[b].from = MadeWith(d.id)
    BY <1>3, <1>5 DEF Leads
  <2>2. Min(o) = a
    BY <1>4, <2>1 DEF Min
  <2>3. Max(o) = b
    <3>1. (\A i \in o : b >= i) /\ \A x \in o : (\A i \in o : x >= i) => x = b
      BY <1>4, <2>1
    <3> QED  BY <3>1 DEF Max
  <2> QED  BY <2>1, <2>2, <2>3
<1> QED  BY <1>3, <1>5 DEF Leads

\* A list with one winner at most has one winner at most.
LEMMA WinnersCounted ==
  ASSUME NEW cs, CandidatesOK(cs)
  PROVE  Cardinality({c \in {cs[i] : i \in DOMAIN cs} : c.is_winner}) <= 1
<1>1. PICK marked : marked = {c \in {cs[i] : i \in DOMAIN cs} : c.is_winner}
  OBVIOUS
<1>2. CASE marked = {}
  BY <1>1, <1>2, FS_EmptySet
<1>3. CASE marked # {}
  <2>1. PICK i \in DOMAIN cs : cs[i].is_winner
    BY <1>1, <1>3
  <2>2. marked = {cs[i]}
    BY <1>1, <2>1 DEF CandidatesOK
  <2>3. Cardinality(marked) = 1
    BY <2>2, FS_Singleton
  <2> QED  BY <1>1, <2>3
<1> QED  BY <1>2, <1>3

LEMMA WinnersHold ==
  ASSUME SandboxInvariant PROVE OneWinner
<1>1. ASSUME NEW k \in DOMAIN decisions
      PROVE  LET marked == {c \in Candidates(decisions[k]) : c.is_winner}
             IN /\ Cardinality(marked) <= 1
                /\ decisions[k].overridden =>
                     \A c \in marked : c.action_type = decisions[k].chosen_action
  <2>1. DecisionOK(decisions[k])
    BY DEF SandboxInvariant
  <2> QED  BY <2>1, WinnersCounted DEF DecisionOK, Candidates
<1> QED  BY <1>1 DEF OneWinner, AllDecisions

LEMMA RecoveredHold ==
  ASSUME SandboxInvariant PROVE RecoveredIsRecovered
  BY DEF SandboxInvariant, DecisionOK, RecoveredIsRecovered, AllDecisions, StateLabel, OutcomeNotice

\* A finite set of integers has a largest element.
LEMMA LargestOf ==
  ASSUME NEW S \in SUBSET Int, IsFiniteSet(S), S # {}
  PROVE  Max(S) \in S /\ \A y \in S : Max(S) >= y
<1> DEFINE above(x) == {y \in S : y > x}
           T == {Cardinality(above(x)) : x \in S}
<1>1. \A x \in S : above(x) \in SUBSET S /\ IsFiniteSet(above(x)) /\ Cardinality(above(x)) \in Nat
  <2>1. ASSUME NEW x \in S PROVE above(x) \in SUBSET S
    OBVIOUS
  <2> HIDE DEF above
  <2> QED  BY <2>1, FS_Subset, FS_CardinalityType
<1>2. T \subseteq Nat /\ T # {}
  <2> HIDE DEF above
  <2> QED  BY <1>1
<1>3. PICK x \in S : \A y \in S : Cardinality(above(x)) <= Cardinality(above(y))
  <2> HIDE DEF above
  <2>1. PICK t \in T : \A u \in T : t <= u
    <3> HIDE DEF T
    <3> QED  BY <1>2, LeastNatural
  <2> QED  BY <2>1
<1>4. ASSUME NEW y \in S, y > x PROVE FALSE
  <2>1. above(y) \in SUBSET above(x) /\ y \in above(x) /\ y \notin above(y)
    <3>1. x \in Int /\ y \in Int /\ ~(y > y) /\ \A z \in S : z > y => z > x
      BY <1>4
    <3>2. \A z \in above(y) : z \in above(x)
      BY <3>1
    <3>3. y \in above(x) /\ y \notin above(y)
      BY <1>4, <3>1
    <3> QED  BY <3>2, <3>3
  <2> HIDE DEF above
  <2>2. Cardinality(above(y)) <= Cardinality(above(x)) /\ above(y) # above(x)
    BY <1>1, <2>1, FS_Subset
  <2>3. Cardinality(above(y)) = Cardinality(above(x))
    BY <1>1, <1>3, <2>2
  <2> QED  BY <1>1, <2>1, <2>2, <2>3, FS_Subset
<1>5. \A y \in S : x >= y
  BY <1>4
<1> QED  BY <1>5 DEF Max

\* Division keeps the order.
LEMMA DivisionKeepsOrder ==
  ASSUME NEW a \in Nat, NEW b \in Nat, NEW d \in Nat \ {0}, a >= b
  PROVE  a \div d >= b \div d /\ a \div d \in Nat /\ b \div d \in Nat
<1>1. PICK p, q : p = a \div d /\ q = b \div d
  OBVIOUS
<1>2. /\ p \in Int /\ d * p <= a /\ a < d * p + d
      /\ q \in Int /\ d * q <= b /\ b < d * q + d
  BY <1>1
<1>3. ASSUME p < q PROVE FALSE
  <2>1. d * (q - p - 1) >= 0
    BY <1>2, <1>3
  <2>2. d * (q - p - 1) = d * q - d * p - d
    BY <1>2
  <2> QED  BY <1>2, <2>1, <2>2
<1>4. p >= 0 /\ q >= 0
  <2>1. ASSUME NEW x \in Int, x < 0 PROVE d * x + d <= 0
    <3>1. d * (x + 1) <= 0
      BY <2>1
    <3> QED  BY <3>1
  <2> QED  BY <1>2, <2>1
<1> QED  BY <1>1, <1>2, <1>3, <1>4

\* The bars rank candidates as their ERVs do.
LEMMA BarsRank ==
  ASSUME NEW d, NEW c, NEW e, maxErv(d) \in Nat \ {0}, c.erv \in Int, e.erv \in Int, c.erv >= e.erv
  PROVE  ErvBar(d, c).pct >= ErvBar(d, e).pct
<1> DEFINE half == maxErv(d) \div 2
           x == 100 * MaxOf(0, c.erv) + half
           y == 100 * MaxOf(0, e.erv) + half
<1>1. half \in Nat
  <2>1. 2 \in Nat \ {0} /\ maxErv(d) \in Nat
    OBVIOUS
  <2> QED  BY <2>1, DivisionKeepsOrder
<1> HIDE DEF half
<1>2. x \in Nat /\ y \in Nat /\ x >= y
  BY <1>1 DEF MaxOf
<1>3. /\ ErvBar(d, c).pct = MaxOf(2, MinOf(100, x \div maxErv(d)))
      /\ ErvBar(d, e).pct = MaxOf(2, MinOf(100, y \div maxErv(d)))
  BY DEF ErvBar, Round, half
<1> HIDE DEF x, y
<1>4. PICK p \in Nat, q \in Nat : p = x \div maxErv(d) /\ q = y \div maxErv(d) /\ p >= q
  BY <1>2, DivisionKeepsOrder
<1> QED  BY <1>3, <1>4 DEF MaxOf, MinOf

\* Rupees cut off one by one add up to within two.
LEMMA RupeesAddUp ==
  ASSUME NEW g \in Nat, NEW c \in Nat, NEW f \in Nat, NEW e \in Int, e = g - c - f
  PROVE  Rupees(formatPaise(g)) - Rupees(formatPaise(c)) - Rupees(formatPaise(f))
           - Rupees(formatPaise(e)) \in -2..2
<1>1. \A x \in Int : Rupees(formatPaise(x)) = IF x < 0 THEN -((-x) \div 100) ELSE x \div 100
  BY DEF Rupees, formatPaise
<1>2. ~(g < 0) /\ ~(c < 0) /\ ~(f < 0)
  OBVIOUS
<1>3. /\ Rupees(formatPaise(g)) = g \div 100 /\ Rupees(formatPaise(c)) = c \div 100
      /\ Rupees(formatPaise(f)) = f \div 100
      /\ Rupees(formatPaise(e)) = IF e < 0 THEN -((-e) \div 100) ELSE e \div 100
  BY <1>1, <1>2
<1> QED  BY <1>3

LEMMA ErvsHold ==
  ASSUME SandboxInvariant PROVE ErvAddsUp
<1>1. PICK d : d = Shown
  OBVIOUS
<1>2. DecisionOK(d)
  <2>1. PICK k \in DOMAIN decisions : decisions[k].id = selected
    BY DEF SandboxInvariant, Ids
  <2>2. Shown = decisions[k]
    BY <2>1, Found DEF Shown, SandboxInvariant
  <2> QED  BY <1>1, <2>2 DEF SandboxInvariant
<1>3. PICK cs, n : /\ cs = d.candidate_actions /\ n \in Nat \ {0} /\ DOMAIN cs = 1..n
                   /\ \A i \in 1..n : CandidateOK(cs[i])
  <2>1. PICK cs : cs = d.candidate_actions
    OBVIOUS
  <2>2. Len(cs) \in Nat /\ DOMAIN cs = 1..Len(cs) /\ Len(cs) # 0
    BY <1>2, <2>1 DEF DecisionOK, CandidatesOK, IsList
  <2> QED  BY <1>2, <2>1, <2>2 DEF DecisionOK, CandidatesOK
<1>4. PICK j \in 1..n : selectedCandidate(d) = cs[j]
  <2>1. PICK hits : hits = {i \in DOMAIN cs : \/ cs[i].is_winner
                                              \/ cs[i].action_type = d.chosen_action}
    OBVIOUS
  <2>2. selectedCandidate(d) = cs[IF hits # {} THEN Min(hits) ELSE 1]
    BY <1>3, <2>1 DEF selectedCandidate
  <2>3. CASE hits # {}
    <3>1. PICK x \in hits : \A y \in hits : x <= y
      BY <1>3, <2>1, <2>3, LeastNatural
    <3>2. Min(hits) \in hits
      BY <3>1 DEF Min
    <3> QED  BY <1>3, <2>1, <2>2, <2>3, <3>2
  <2>4. CASE hits = {}
    BY <1>3, <2>2, <2>4
  <2> QED  BY <2>3, <2>4
<1>5. maxErv(d) \in Nat \ {0}
  <2>1. PICK S : S = {cs[i].erv : i \in 1..n}
    OBVIOUS
  <2>2. IsFiniteSet(S)
    <3>1. PICK f : f = [i \in 1..n |-> cs[i].erv]
      OBVIOUS
    <3>2. f \in Surjection(1..n, S)
      BY <2>1, <3>1 DEF Surjection
    <3>3. IsFiniteSet(1..n)
      <4>1. 1 \in Int /\ n \in Int
        BY <1>3
      <4> QED  BY <4>1, FS_Interval
    <3> QED  BY <3>2, <3>3, FS_Surjection
  <2>3. IsFiniteSet({1} \cup S)
    BY <2>2, FS_Singleton, FS_Union
  <2>4. {1} \cup S \in SUBSET Int
    BY <1>3, <2>1 DEF CandidateOK
  <2>5. Max({1} \cup S) \in Int /\ Max({1} \cup S) >= 1
    <3>1. PICK U : U = {1} \cup S
      OBVIOUS
    <3>2. Max(U) \in U /\ \A y \in U : Max(U) >= y
      BY <2>3, <2>4, <3>1, LargestOf
    <3> QED  BY <2>4, <3>1, <3>2
  <2>6. maxErv(d) = Max({1} \cup S)
    BY <1>3, <2>1 DEF maxErv
  <2> QED  BY <2>5, <2>6
<1>6. \A i \in 1..n : cs[i].erv \in Int
                      /\ cs[i].erv = grossExpected(cs[i]) - cs[i].cost - cs[i].friction_penalty
  BY <1>3 DEF CandidateOK
<1>7. ASSUME NEW i \in 1..n, NEW k \in 1..n, cs[i].erv >= cs[k].erv
      PROVE  ErvBar(d, cs[i]).pct >= ErvBar(d, cs[k]).pct
  BY <1>5, <1>6, <1>7, BarsRank
<1>8. LET b == ErvBreakdown(d)
      IN Rupees(b.gross) - Rupees(b.cost) - Rupees(b.friction) - Rupees(b.erv) \in -2..2
  <2>1. PICK c : c = cs[j] /\ CandidateOK(c)
    BY <1>3
  <2>2. LET b == ErvBreakdown(d)
        IN /\ b.gross = formatPaise(grossExpected(c)) /\ b.cost = formatPaise(c.cost)
           /\ b.friction = formatPaise(c.friction_penalty) /\ b.erv = formatPaise(c.erv)
    BY <1>4, <2>1 DEF ErvBreakdown
  <2>3. /\ grossExpected(c) \in Nat /\ c.cost \in Nat /\ c.friction_penalty \in Nat
        /\ c.erv \in Int /\ c.erv = grossExpected(c) - c.cost - c.friction_penalty
    BY <2>1 DEF CandidateOK
  <2> QED  BY <2>2, <2>3, RupeesAddUp
<1> QED  BY <1>1, <1>3, <1>6, <1>7, <1>8 DEF ErvAddsUp

\* The steps up to one are completed, and it or the next is the current one.
Progress(steps, done, now) ==
  /\ now \in DOMAIN steps /\ done \in {now - 1, now}
  /\ \A i \in DOMAIN steps :
       (steps[i].isCompleted <=> i <= done) /\ (steps[i].isCurrent <=> i = now)

\* A sixth step after the five stages.
OneMore(t, s, u) ==
  /\ DOMAIN t = 1..6 /\ Len(t) = 6 /\ t[1] = s[1] /\ t[2] = s[2] /\ t[3] = s[3]
  /\ t[4] = s[4] /\ t[5] = s[5] /\ t[6] = u[1]

\* The timeline progresses whatever the state of recovery.
LEMMA SixSteps ==
  ASSUME NEW E, NEW s \in Seq(E), NEW u \in Seq(E), Len(s) = 5, Len(u) = 1, NEW t, t = s \o u
  PROVE  OneMore(t, s, u)
<1>1. t \in Seq(E) /\ Len(t) = Len(s) + Len(u)
  BY Zenon, ConcatProperties
<1>2. \A i \in 1..Len(s) + Len(u) : t[i] = IF i <= Len(s) THEN s[i] ELSE u[i - Len(s)]
  BY Zenon, ConcatProperties
<1>3. PICK m, n : m = Len(s) /\ n = Len(u)
  OBVIOUS
<1>4. /\ m = 5 /\ n = 1 /\ Len(t) = m + n
      /\ \A i \in 1..m + n : t[i] = IF i <= m THEN s[i] ELSE u[i - m]
  BY Zenon, <1>1, <1>2, <1>3
<1>5. Len(t) = 6 /\ \A i \in 1..6 : t[i] = IF i <= 5 THEN s[i] ELSE u[i - 5]
  BY <1>4
<1>6. DOMAIN t = 1..6
  BY <1>1, <1>5
<1>7. /\ t[1] = s[1] /\ t[2] = s[2] /\ t[3] = s[3] /\ t[4] = s[4] /\ t[5] = s[5]
      /\ t[6] = u[1]
  BY <1>5
<1> QED  BY <1>5, <1>6, <1>7 DEF OneMore

LEMMA TimelineProgress ==
  ASSUME NEW d,
         d.recovery_state \in {"RECOVERED", "RECOVERY_ELIGIBLE", "STOPPED", "ACTION_PENDING"}
  PROVE  \E n, done, now \in Nat :
           /\ DOMAIN RecoveryTimeline(d) = 1..n /\ Len(RecoveryTimeline(d)) = n
           /\ Progress(RecoveryTimeline(d), done, now)
<1> DEFINE state == d.recovery_state
           stages == Stages(state)
           last == Resolution(state)
<1>1. PICK E, one : /\ stages \in Seq(E) /\ Len(stages) = 5 /\ one = <<Step(state, TRUE, TRUE)>>
                    /\ one \in Seq(E) /\ Len(one) = 1 /\ one[1] = Step(state, TRUE, TRUE)
  <2>1. PICK a, b, p, q, e, f : stages = <<a, b, p, q, e>> /\ f = Step(state, TRUE, TRUE)
    BY DEF Stages
  <2>2. PICK E : E = {a, b, p, q, e, f}
    OBVIOUS
  <2>3. a \in E /\ b \in E /\ p \in E /\ q \in E /\ e \in E /\ f \in E
    BY <2>2
  <2>4. <<a, b, p, q, e>> \in Seq(E) /\ <<f>> \in Seq(E)
    BY <2>3, WrittenOut
  <2>5. Len(<<a, b, p, q, e>>) = 5 /\ Len(<<f>>) = 1 /\ <<f>>[1] = f
    OBVIOUS
  <2> HIDE DEF stages
  <2> QED  BY <2>1, <2>4, <2>5
<1>2. /\ stages[1].isCompleted = TRUE /\ stages[1].isCurrent = FALSE
      /\ stages[2].isCompleted = TRUE /\ stages[2].isCurrent = FALSE
      /\ stages[3].isCompleted = TRUE /\ stages[3].isCurrent = (state = "RECOVERY_ELIGIBLE")
      /\ stages[4].isCompleted = (state # "RECOVERY_ELIGIBLE")
      /\ stages[4].isCurrent = (state = "ACTION_SELECTED")
      /\ stages[5].isCompleted = PendingDone(state)
      /\ stages[5].isCurrent = (state = "ACTION_PENDING")
  BY DEF Stages, Step
<1>3. RecoveryTimeline(d) = stages \o last
  BY DEF RecoveryTimeline
<1>4. CASE state \in {"RECOVERED", "STOPPED"}
  <2>1. last = one /\ one[1].isCompleted = TRUE /\ one[1].isCurrent = TRUE
    BY <1>1, <1>4 DEF Resolution, Step
  <2>2. PICK steps : steps = stages \o one
    OBVIOUS
  <2>3. OneMore(steps, stages, one)
    <3> HIDE DEF stages
    <3> QED  BY Zenon, <1>1, <2>2, SixSteps
  <2>4. /\ \A i \in 1..6 : i \in 1..5 => steps[i].isCompleted /\ ~steps[i].isCurrent
        /\ steps[6].isCompleted /\ steps[6].isCurrent
    <3>1. /\ stages[4].isCompleted /\ stages[5].isCompleted
          /\ ~stages[3].isCurrent /\ ~stages[4].isCurrent /\ ~stages[5].isCurrent
      BY <1>2, <1>4 DEF PendingDone
    <3> HIDE DEF stages, state
    <3> QED  BY <1>2, <2>1, <2>3, <3>1 DEF OneMore
  <2>5. Progress(steps, 6, 6)
    BY <2>3, <2>4 DEF Progress, OneMore
  <2> QED  BY <1>3, <2>1, <2>2, <2>3, <2>5 DEF OneMore
<1>5. CASE state \in {"RECOVERY_ELIGIBLE", "ACTION_PENDING"}
  <2>1. last = <<>>
    BY <1>5 DEF Resolution
  <2>2. stages \o last = stages /\ DOMAIN stages = 1..5
    <3> HIDE DEF stages
    <3> QED  BY <1>1, <2>1
  <2>3. PICK k \in {3, 4} : k = IF state = "ACTION_PENDING" THEN 4 ELSE 3
    OBVIOUS
  <2>4. PICK now \in {3, 5} : now = IF state = "ACTION_PENDING" THEN 5 ELSE 3
    OBVIOUS
  <2>5. ASSUME NEW i \in 1..5
        PROVE  (stages[i].isCompleted <=> i <= k) /\ (stages[i].isCurrent <=> i = now)
    <3>1. i = 1 \/ i = 2 \/ i = 3 \/ i = 4 \/ i = 5
      OBVIOUS
    <3>2. PendingDone(state) = FALSE /\ (state = "ACTION_SELECTED") = FALSE
      BY <1>5 DEF PendingDone
    <3> HIDE DEF stages, state
    <3>3. CASE state = "ACTION_PENDING"
      <4>1. k = 4 /\ now = 5
        BY <2>3, <2>4, <3>3
      <4>2. /\ stages[3].isCurrent = FALSE /\ stages[4].isCompleted = TRUE
            /\ stages[4].isCurrent = FALSE /\ stages[5].isCompleted = FALSE
            /\ stages[5].isCurrent = TRUE
        BY <1>2, <3>2, <3>3
      <4> QED  BY <1>2, <3>1, <4>1, <4>2
    <3>4. CASE state = "RECOVERY_ELIGIBLE"
      <4>1. k = 3 /\ now = 3
        BY <2>3, <2>4, <3>4
      <4>2. /\ stages[3].isCurrent = TRUE /\ stages[4].isCompleted = FALSE
            /\ stages[4].isCurrent = FALSE /\ stages[5].isCompleted = FALSE
            /\ stages[5].isCurrent = FALSE
        BY <1>2, <3>2, <3>4
      <4> QED  BY <1>2, <3>1, <4>1, <4>2
    <3> QED  BY <1>5, <3>3, <3>4
  <2>6. k \in {now - 1, now} /\ now \in 1..5 /\ k \in Nat
    BY <1>5, <2>3, <2>4
  <2>7. Progress(stages, k, now)
    BY <2>2, <2>5, <2>6 DEF Progress
  <2> HIDE DEF stages
  <2> QED  BY <1>1, <1>3, <2>2, <2>6, <2>7
<1> QED  BY <1>4, <1>5

LEMMA TimelinesHold ==
  ASSUME SandboxInvariant PROVE TimelineCoherent
<1>1. ASSUME NEW d \in AllDecisions, NEW steps, steps = RecoveryTimeline(d),
             NEW current, current = {i \in DOMAIN steps : steps[i].isCurrent}
      PROVE  /\ Cardinality(current) = 1
             /\ \A i \in 2..Len(steps) : steps[i].isCompleted => steps[i - 1].isCompleted
             /\ \A i \in current, k \in DOMAIN steps : k > i => ~steps[k].isCompleted
  <2>1. d.recovery_state \in {"RECOVERED", "RECOVERY_ELIGIBLE", "STOPPED", "ACTION_PENDING"}
    BY DEF AllDecisions, SandboxInvariant, DecisionOK
  <2>2. PICK n, done, now \in Nat :
          DOMAIN steps = 1..n /\ Len(steps) = n /\ Progress(steps, done, now)
    BY <1>1, <2>1, TimelineProgress
  <2>3. current = {now}
    BY <1>1, <2>2 DEF Progress
  <2>4. Cardinality(current) = 1
    BY <2>3, FS_Singleton
  <2>5. ASSUME NEW i \in 2..Len(steps), steps[i].isCompleted PROVE steps[i - 1].isCompleted
    <3>1. i \in DOMAIN steps /\ i - 1 \in DOMAIN steps
      BY <2>2
    <3>2. i <= done
      BY <2>2, <2>5, <3>1 DEF Progress
    <3>3. i - 1 <= done
      BY <2>2, <3>2
    <3> QED  BY <2>2, <3>1, <3>3 DEF Progress
  <2>6. ASSUME NEW k \in DOMAIN steps, k > now PROVE ~steps[k].isCompleted
    <3>1. ~(k <= done)
      BY <2>2, <2>6 DEF Progress
    <3> QED  BY <2>2, <3>1 DEF Progress
  <2> QED  BY <2>3, <2>4, <2>5, <2>6
<1> QED  BY <1>1 DEF TimelineCoherent

(***************************************************************************)
(* After any inspections, overrides and simulations, what the              *)
(* investigation screen shows of a decision hangs together: its trail      *)
(* replays, one candidate wins, the breakdown adds up, the timeline reads  *)
(* as progress, and what is called recovered has recovered.                *)
(***************************************************************************)
THEOREM InvestigationAlwaysHolds == Spec => []InvestigationHolds
<1>1. Init => SandboxInvariant
  BY SandboxStarts
<1>2. SandboxInvariant /\ [Next]_vars => SandboxInvariant'
  BY SandboxKept
<1>3. SandboxInvariant => InvestigationHolds
  BY TypesHold, TrailsReplay, WinnersHold, ErvsHold, TimelinesHold, RecoveredHold
     DEF InvestigationHolds, InvestigationCoherent
<1> QED  BY <1>1, <1>2, <1>3, PTL DEF Spec

(***************************************************************************)
(* The overview's figures and the feed's pills, for any ledger, kinds of   *)
(* decisions and search terms.                                             *)
(***************************************************************************)
\* What an aggregate of the ledger satisfies: a recovered action recovered something, of
\* some decision.
AggregateOK(raw) ==
  /\ {raw.total_decisions, raw.total_actions, raw.recovered_count, raw.recovered_amount} \subseteq Nat
  /\ raw.recovered_count <= raw.recovered_amount
  /\ raw.recovered_count = 0 => raw.recovered_amount = 0
  /\ raw.recovered_count > 0 => raw.total_decisions > 0

MetricsInvariant ==
  /\ ledger \in [Decisions -> Kinds \cup {Overview!NoRow}]
  /\ IsFiniteSet(action)
  /\ \A x \in action :
       /\ {"key", "status", "recovered"} \subseteq DOMAIN x
       /\ x.key[1] \in Overview!Decided /\ x.recovered \in Nat
  /\ \/ metrics \in {Overview!NotRead}
                      \cup {Overview!MOCK_SUMMARY_METRICS[m] : m \in DOMAIN Overview!MOCK_SUMMARY_METRICS}
     \/ \E raw : AggregateOK(raw) /\ metrics = Overview!Transformed(raw)

\* A sum is what its recursion says.
LEMMA SumSolved ==
  ASSUME NEW s \in Seq(Int)
  PROVE  \E f : /\ f \in [0..Len(s) -> Int] /\ f[0] = 0 /\ Overview!SumOf(s) = f[Len(s)]
                /\ \A n \in 1..Len(s) : f[n] = f[n - 1] + s[n]
<1> DEFINE N == Len(s)
           step == [p \in (1..N) \X Int |-> p[2] + s[p[1]]]
<1>1. N \in Nat /\ \A n \in 1..N : s[n] \in Int
  OBVIOUS
<1>2. step \in [(1..N) \X Int -> Int] /\ 0 \in Int
  BY <1>1
<1>3. \A n \in 1..N, x \in Int : step[<<n, x>>] = x + s[n]
  BY <1>1
<1> HIDE DEF step
<1>4. PICK f : Solves(f, N, Int, 0, step)
  <2> HIDE DEF N
  <2> QED  BY <1>1, <1>2, Recursion
<1>5. f \in [0..N -> Int] /\ f[0] = 0 /\ \A n \in 1..N : f[n] = step[<<n, f[n - 1]>>]
  BY <1>4 DEF Solves
<1>6. \A n \in 1..N : n - 1 \in 0..N /\ f[n - 1] \in Int
  <2> HIDE DEF N
  <2>1. \A n \in 1..N : n - 1 \in 0..N
    BY <1>1
  <2> QED  BY <1>5, <2>1
<1>7. \A n \in 1..N : f[n] = f[n - 1] + s[n]
  BY <1>3, <1>5, <1>6
<1>8. f = [n \in 0..N |-> IF n = 0 THEN 0 ELSE f[n - 1] + s[n]]
  BY <1>1, <1>5, <1>7
<1> DEFINE sum[n \in 0..N] == IF n = 0 THEN 0 ELSE sum[n - 1] + s[n]
<1>9. sum = [n \in 0..N |-> IF n = 0 THEN 0 ELSE sum[n - 1] + s[n]]
  BY <1>8
<1>10. Overview!SumOf(s) = sum[N]
  BY DEF Overview!SumOf
<1> HIDE DEF sum
<1>11. sum[0] = 0 /\ \A n \in 1..N : sum[n] = sum[n - 1] + s[n]
  <2>1. 0 \in 0..N /\ \A n \in 1..N : n \in 0..N /\ n # 0
    BY <1>1
  <2> HIDE DEF N
  <2> QED  BY <1>9, <2>1
<1> DEFINE T == {n \in 0..N : sum[n] = f[n]}
<1>12. 0 \in T
  BY <1>1, <1>5, <1>11
<1>13. ASSUME NEW n \in 0..N - 1, n \in T PROVE n + 1 \in T
  <2>1. n + 1 \in 1..N /\ n + 1 \in 0..N /\ (n + 1) - 1 = n
    BY <1>1
  <2> QED  BY <1>7, <1>11, <1>13, <2>1
<1>14. N \in T
  <2>1. N \in 0..N
    BY <1>1
  <2> HIDE DEF T, N
  <2>2. 0..N \subseteq T
    BY <1>1, <1>12, <1>13, Induct
  <2> QED  BY <2>1, <2>2
<1> QED  BY <1>5, <1>7, <1>10, <1>14

\* A sum of positive numbers is no less than their number.
LEMMA SumAtLeast ==
  ASSUME NEW s \in Seq(Int), \A n \in DOMAIN s : s[n] >= 1
  PROVE  /\ Overview!SumOf(s) \in Nat /\ Overview!SumOf(s) >= Len(s)
         /\ Len(s) = 0 => Overview!SumOf(s) = 0
<1>1. PICK f : /\ f \in [0..Len(s) -> Int] /\ f[0] = 0 /\ Overview!SumOf(s) = f[Len(s)]
               /\ \A n \in 1..Len(s) : f[n] = f[n - 1] + s[n]
  BY SumSolved
<1>2. PICK N \in Nat : N = Len(s) /\ DOMAIN s = 1..N
  OBVIOUS
<1> DEFINE T == {n \in 0..N : f[n] >= n}
<1>3. 0 \in T
  BY <1>1, <1>2
<1>4. ASSUME NEW n \in 0..N - 1, n \in T PROVE n + 1 \in T
  <2>1. n + 1 \in 1..N /\ n + 1 \in 0..N /\ (n + 1) - 1 = n /\ n \in 0..N
    BY <1>2
  <2>2. f[n + 1] = f[n] + s[n + 1] /\ s[n + 1] \in Int /\ s[n + 1] >= 1 /\ f[n] \in Int
    <3>1. n + 1 \in DOMAIN s /\ n \in 0..Len(s) /\ n + 1 \in 1..Len(s)
      BY <1>2, <2>1
    <3>2. s[n + 1] \in Int /\ s[n + 1] >= 1
      BY <3>1
    <3> QED  BY <1>1, <2>1, <3>1, <3>2
  <2> QED  BY <1>4, <2>1, <2>2
<1>5. N \in T
  <2>1. N \in 0..N
    BY <1>2
  <2> HIDE DEF T
  <2>2. 0..N \subseteq T
    BY <1>2, <1>3, <1>4, Induct
  <2> QED  BY <2>1, <2>2
<1> QED  BY <1>1, <1>2, <1>5

\* A finite set is listed with as many entries as it has elements.
LEMMA SetListed ==
  ASSUME NEW S, IsFiniteSet(S)
  PROVE  Overview!SetToSeq(S) \in Seq(S) /\ Len(Overview!SetToSeq(S)) = Cardinality(S)
<1>1. PICK n \in Nat : n = Cardinality(S) /\ ExistsBijection(1..n, S)
  BY FS_CardinalityType
<1>2. Cardinality(S) = Overview!Cardinality(S)
  BY DEF Cardinality, Overview!Cardinality
<1>3. \E f \in [1..n -> S] : Overview!IsInjective(f)
  BY <1>1 DEF ExistsBijection, Bijection, Injection, IsInjective, Overview!IsInjective
<1>4. Overview!SetToSeq(S) \in [1..n -> S]
  BY <1>1, <1>2, <1>3 DEF Overview!SetToSeq
<1> QED  BY <1>1, <1>4

\* The aggregate of a ledger of the invariant.
LEMMA AggregateIsOK ==
  ASSUME MetricsInvariant PROVE AggregateOK(Overview!RecoverySummary)
<1> DEFINE won == {x \in action : x.recovered > 0}
           s == Overview!SetToSeq(won)
           r == [n \in DOMAIN s |-> s[n].recovered]
           raw == Overview!RecoverySummary
<1>1. IsFiniteSet(won) /\ IsFiniteSet(action) /\ IsFiniteSet(Overview!Decided)
  <2>1. won \in SUBSET action /\ Overview!Decided \in SUBSET Decisions
    BY DEF Overview!Decided
  <2>2. IsFiniteSet(Decisions) = Overview!IsFiniteSet(Decisions)
    BY DEF IsFiniteSet, Overview!IsFiniteSet
  <2>3. IsFiniteSet(Decisions) /\ IsFiniteSet(action)
    BY <2>2, ComponentsAssumption DEF Overview!MetricsAssumption, MetricsInvariant
  <2> QED  BY <2>1, <2>3, FS_Subset
<1>2. \A S : Cardinality(S) = Overview!Cardinality(S)
  BY DEF Cardinality, Overview!Cardinality
<1>3. /\ raw.total_decisions = Cardinality(Overview!Decided)
      /\ raw.total_actions = Cardinality(action) /\ raw.recovered_count = Cardinality(won)
      /\ raw.recovered_amount = Overview!SumOf(r)
  <2>1. /\ raw.total_decisions = Overview!Cardinality(Overview!Decided)
        /\ raw.total_actions = Overview!Cardinality(action)
        /\ raw.recovered_count = Overview!Cardinality(won)
    BY DEF Overview!RecoverySummary
  <2>2. raw.recovered_amount = Overview!SumOf(r)
    BY DEF Overview!RecoverySummary, Overview!Total
  <2> HIDE DEF won, raw
  <2> QED  BY <1>2, <2>1, <2>2
<1>4. \A x \in won : x.recovered \in Int /\ x.recovered >= 1
  BY DEF MetricsInvariant
<1> HIDE DEF won, raw
<1>5. s \in Seq(won) /\ Len(s) = Cardinality(won) /\ Cardinality(won) \in Nat
  BY <1>1, SetListed, FS_CardinalityType
<1> HIDE DEF s
<1>6. r \in Seq(Int) /\ Len(r) = Len(s) /\ \A n \in DOMAIN r : r[n] >= 1
  <2>1. PICK n \in Nat : n = Len(s) /\ DOMAIN s = 1..n /\ \A k \in 1..n : s[k] \in won
    BY <1>5
  <2>2. \A k \in 1..n : s[k].recovered \in Int /\ s[k].recovered >= 1
    BY <1>4, <2>1
  <2>3. r = [k \in 1..n |-> s[k].recovered]
    BY <2>1
  <2> QED  BY <2>1, <2>2, <2>3
<1> HIDE DEF r
<1>7. /\ raw.recovered_amount \in Nat /\ raw.recovered_amount >= raw.recovered_count
      /\ raw.recovered_count = 0 => raw.recovered_amount = 0
  BY <1>3, <1>5, <1>6, SumAtLeast
<1>8. raw.total_decisions \in Nat /\ raw.total_actions \in Nat /\ raw.recovered_count \in Nat
  BY <1>1, <1>3, FS_CardinalityType
<1>9. ASSUME raw.recovered_count > 0 PROVE raw.total_decisions > 0
  <2>1. PICK x : x \in won
    BY <1>1, <1>3, <1>9, FS_EmptySet
  <2>2. Overview!Decided # {}
    BY <2>1 DEF won, MetricsInvariant
  <2>3. raw.total_decisions # 0
    BY <1>1, <1>3, <2>2, FS_EmptySet
  <2> QED  BY <1>8, <2>3
<1> QED  BY <1>7, <1>8, <1>9 DEF AggregateOK, raw

\* Each operation of the ledger keeps the invariant.
LEMMA MetricsKept ==
  ASSUME MetricsInvariant, [Overview!Next]_(Overview!vars) PROVE MetricsInvariant'
<1>0. /\ \A k \in Kinds : k.amount \in Nat
      /\ Overview!NoRow.chosen = "none"
  BY ComponentsAssumption DEF Overview!MetricsAssumption, Overview!NoRow
<1>1. ASSUME NEW d \in Decisions, Overview!Process(d) PROVE MetricsInvariant'
  <2>1. PICK k \in Kinds : ledger' = [ledger EXCEPT ![d] = k]
    BY <1>1 DEF Overview!Process
  <2>2. ledger[d] = Overview!NoRow /\ UNCHANGED <<action, metrics>>
    BY <1>1 DEF Overview!Process
  <2>3. /\ ledger' \in [Decisions -> Kinds \cup {Overview!NoRow}]
        /\ \A e \in Overview!Decided : e \in Overview!Decided'
    BY <2>1, <2>2 DEF MetricsInvariant, Overview!Decided
  <2> QED  BY <2>2, <2>3 DEF MetricsInvariant
<1>2. ASSUME NEW d \in Overview!Decided, NEW a \in {ledger[d].chosen} \cup Extra, Overview!Execute(d, a)
      PROVE  MetricsInvariant'
  <2>1. PICK x : x = [key |-> <<d, a>>, status |-> "pending", recovered |-> 0]
    OBVIOUS
  <2>2. action' = action \cup {x} /\ UNCHANGED <<ledger, metrics>>
    BY <1>2, <2>1 DEF Overview!Execute
  <2>3. /\ {"key", "status", "recovered"} \subseteq DOMAIN x
        /\ x.key[1] = d /\ x.recovered = 0
    BY <2>1
  <2>4. IsFiniteSet(action')
    BY <2>2, FS_AddElement DEF MetricsInvariant
  <2> QED  BY <2>1, <2>2, <2>3, <2>4 DEF MetricsInvariant, Overview!Decided
<1>3. ASSUME NEW x \in action, Overview!Settle(x) PROVE MetricsInvariant'
  <2>1. PICK s \in {"confirmed", "failed"}, r \in {0, ledger[x.key[1]].amount} :
          action' = (action \ {x}) \cup {[x EXCEPT !.status = s, !.recovered = r]}
    BY <1>3 DEF Overview!Settle
  <2>2. UNCHANGED <<ledger, metrics>>
    BY <1>3 DEF Overview!Settle
  <2>3. r \in Nat
    BY <1>0 DEF MetricsInvariant, Overview!Decided
  <2>4. PICK y : y = [x EXCEPT !.status = s, !.recovered = r]
    OBVIOUS
  <2>5. DOMAIN y = DOMAIN x /\ y.key = x.key /\ y.recovered = r
    BY <2>4 DEF MetricsInvariant
  <2>6. IsFiniteSet(action')
    <3>1. IsFiniteSet(action \ {x})
      BY FS_Subset DEF MetricsInvariant
    <3> QED  BY <2>1, <3>1, FS_AddElement
  <2> QED
    BY <2>1, <2>2, <2>3, <2>4, <2>5, <2>6 DEF MetricsInvariant, Overview!Decided
<1>4. CASE Overview!getRecoverySummary
  BY <1>4, AggregateIsOK DEF Overview!getRecoverySummary, MetricsInvariant, Overview!Decided
<1>5. CASE Overview!getSandboxSummary
  BY <1>5 DEF Overview!getSandboxSummary, MetricsInvariant, Overview!Decided
<1>6. CASE UNCHANGED Overview!vars
  BY <1>6 DEF Overview!vars, MetricsInvariant, Overview!Decided
<1> QED  BY <1>1, <1>2, <1>3, <1>4, <1>5, <1>6 DEF Overview!Next

\* A quotient is below what its numerator is a multiple below, and no less than what it is
\* a multiple above.
LEMMA QuotientBounds ==
  ASSUME NEW x \in Nat, NEW d \in Nat \ {0}, NEW k \in Nat
  PROVE  /\ x < d * (k + 1) => x \div d <= k
         /\ x >= d * k => x \div d >= k
<1>1. PICK q \in Nat : q = x \div d /\ d * q <= x /\ x < d * q + d
  <2>1. PICK q : q = x \div d
    OBVIOUS
  <2>2. q \in Int /\ d * q <= x /\ x < d * q + d
    BY <2>1
  <2>3. q \in Nat
    BY <2>1, DivisionKeepsOrder
  <2> QED  BY <2>1, <2>2, <2>3
<1>2. ASSUME x < d * (k + 1), q > k PROVE FALSE
  <2>1. d * (q - k - 1) >= 0 /\ d * (q - k - 1) = d * q - d * (k + 1)
    BY <1>1, <1>2
  <2> QED  BY <1>1, <1>2, <2>1
<1>3. ASSUME x >= d * k, q < k PROVE FALSE
  <2>1. d * (k - q - 1) >= 0 /\ d * (k - q - 1) = d * k - d * q - d
    BY <1>1, <1>3
  <2> QED  BY <1>1, <1>3, <2>1
<1> QED  BY <1>1, <1>2, <1>3

\* The top of the axis is no less than one, nor than any point's risk.
LEMMA AxisTop ==
  ASSUME NEW m, NEW n \in Nat, DOMAIN m.trend = 1..n, \A i \in 1..n : m.trend[i].risk \in Nat
  PROVE  /\ Overview!maxRisk(m) \in Nat \ {0}
         /\ \A i \in 1..n : m.trend[i].risk <= Overview!maxRisk(m)
<1>1. PICK S, U : S = {m.trend[i].risk : i \in 1..n} /\ U = {1} \cup S
  OBVIOUS
<1>2. IsFiniteSet(S)
  <2>1. PICK f : f = [i \in 1..n |-> m.trend[i].risk]
    OBVIOUS
  <2>2. f \in Surjection(1..n, S)
    BY <1>1, <2>1 DEF Surjection
  <2>3. IsFiniteSet(1..n)
    <3>1. 1 \in Int /\ n \in Int
      OBVIOUS
    <3> QED  BY <3>1, FS_Interval
  <2> QED  BY <2>2, <2>3, FS_Surjection
<1>3. IsFiniteSet(U) /\ U \in SUBSET Nat /\ 1 \in U
  <2>1. IsFiniteSet({1} \cup S)
    BY <1>2, FS_Singleton, FS_Union
  <2> QED  BY <1>1, <2>1
<1>4. Max(U) \in U /\ \A y \in U : Max(U) >= y
  <2>1. U \in SUBSET Int /\ U # {}
    BY <1>3
  <2> QED  BY <1>3, <2>1, LargestOf
<1>5. Overview!maxRisk(m) = Max(U)
  BY <1>1 DEF Overview!maxRisk, Overview!Max, Max
<1>6. Overview!maxRisk(m) \in Nat /\ Overview!maxRisk(m) >= 1
  BY <1>3, <1>4, <1>5
<1>7. ASSUME NEW i \in 1..n PROVE m.trend[i].risk <= Overview!maxRisk(m)
  BY <1>1, <1>3, <1>4, <1>5, <1>6
<1> QED  BY <1>6, <1>7

\* A point is in the chart and no higher than its risk if it is worth no more, or if its
\* risk is the top and it is worth hardly more.
LEMMA PointFits ==
  ASSUME NEW m, NEW top \in Nat \ {0}, top = Overview!maxRisk(m), NEW risk \in Nat, NEW r \in Nat,
         risk <= top, r <= risk \/ (risk = top /\ 244 * r < 245 * risk)
  PROVE  /\ Overview!PointY(m, r) \in Overview!paddingY .. Overview!chartHeight - Overview!paddingY
         /\ Overview!PointY(m, r) >= Overview!PointY(m, risk)
<1>1. PICK h \in Nat : h = top \div 2 /\ 2 * h <= top
  OBVIOUS
<1>2. PICK x \in Nat, y \in Nat : x = 122 * r + h /\ y = 122 * risk + h
  BY <1>1
<1>3. PICK p \in Nat, q \in Nat : p = x \div top /\ q = y \div top
  <2>1. ASSUME NEW v \in Nat PROVE v \div top \in Nat
    <3>1. v >= v
      OBVIOUS
    <3> QED  BY <3>1, DivisionKeepsOrder, Zenon
  <2> QED  BY <2>1, Zenon
<1>4. Overview!PointY(m, r) = 146 - p /\ Overview!PointY(m, risk) = 146 - q
  <2>1. \A v \in Nat : Overview!PointY(m, v) = 146 - ((v * 122 + h) \div top)
    BY <1>1 DEF Overview!PointY, Overview!Screen!Round, Overview!chartHeight, Overview!paddingY
  <2>2. r * 122 + h = x /\ risk * 122 + h = y
    BY <1>2
  <2>3. /\ Overview!PointY(m, r) = 146 - ((r * 122 + h) \div top)
        /\ Overview!PointY(m, risk) = 146 - ((risk * 122 + h) \div top)
    BY <2>1, Zenon
  <2> QED  BY <1>3, <2>2, <2>3, Zenon
<1>5. p <= 122 /\ p <= q
  <2>1. CASE r <= risk
    <3>1. y < top * 123 /\ x <= y
      <4>1. 122 * r <= 122 * risk /\ 122 * risk <= 122 * top
        BY <2>1
      <4>2. h < top
        BY <1>1
      <4> QED  BY <1>2, <4>1, <4>2
    <3>2. q <= 122
      BY <1>2, <1>3, <3>1, QuotientBounds
    <3>3. q >= p
      BY <1>2, <1>3, <3>1, DivisionKeepsOrder
    <3> QED  BY <3>2, <3>3
  <2>2. CASE ~(r <= risk)
    <3>1. risk = top /\ 244 * r < 245 * top
      BY <2>2
    <3>2. x < top * 123 /\ y >= top * 122
      BY <1>1, <1>2, <3>1
    <3>3. p <= 122
      BY <1>2, <1>3, <3>2, QuotientBounds
    <3>4. q >= 122
      BY <1>2, <1>3, <3>2, QuotientBounds
    <3> QED  BY <3>3, <3>4
  <2> QED  BY <2>1, <2>2
<1> QED  BY <1>4, <1>5 DEF Overview!chartHeight, Overview!paddingY

\* What ChartFits says of the metrics at such a rate.
ChartOK(m) ==
  \A i \in DOMAIN m.trend :
    LET p == m.trend[i]
    IN /\ Overview!PointY(m, p.recovered)
            \in Overview!paddingY .. Overview!chartHeight - Overview!paddingY
       /\ Overview!PointY(m, p.recovered) >= Overview!PointY(m, p.risk)

\* No point recovered more than was at risk, but for hardly more at the highest.
TrendOK(m, n) ==
  /\ DOMAIN m.trend = 1..n
  /\ \A i \in 1..n :
       /\ m.trend[i].risk \in Nat /\ m.trend[i].recovered \in Nat
       /\ \/ m.trend[i].recovered <= m.trend[i].risk
          \/ /\ \A k \in 1..n : m.trend[k].risk <= m.trend[i].risk
             /\ m.trend[i].risk >= 1
             /\ 244 * m.trend[i].recovered < 245 * m.trend[i].risk

LEMMA TrendFits ==
  ASSUME NEW m, NEW n \in Nat, TrendOK(m, n)
  PROVE  ChartOK(m)
<1>1. PICK top \in Nat \ {0} : /\ top = Overview!maxRisk(m)
                               /\ \A i \in 1..n : m.trend[i].risk <= top
  BY AxisTop DEF TrendOK
<1>2. ASSUME NEW i \in 1..n, \A k \in 1..n : m.trend[k].risk <= m.trend[i].risk,
             m.trend[i].risk >= 1
      PROVE  m.trend[i].risk = top
  <2>1. PICK U : U = {1} \cup {m.trend[k].risk : k \in 1..n}
    OBVIOUS
  <2>2. m.trend[i].risk \in U /\ (\A u \in U : u <= m.trend[i].risk) /\ U \subseteq Nat
    BY <1>2, <2>1 DEF TrendOK
  <2>3. Overview!Max(U) = m.trend[i].risk
    <3>1. ASSUME NEW x \in U, \A u \in U : x >= u PROVE x = m.trend[i].risk
      <4>1. PICK w \in Nat : w = m.trend[i].risk /\ x <= w /\ x >= w /\ x \in Nat
        BY <2>2, <3>1
      <4> QED  BY <4>1
    <3>2. m.trend[i].risk \in U /\ \A u \in U : m.trend[i].risk >= u
      BY <2>2
    <3> QED  BY <3>1, <3>2 DEF Overview!Max
  <2> QED  BY <1>1, <2>1, <2>3 DEF Overview!maxRisk, TrendOK
<1>3. ASSUME NEW i \in 1..n, NEW p, p = m.trend[i]
      PROVE  /\ Overview!PointY(m, p.recovered)
                  \in Overview!paddingY .. Overview!chartHeight - Overview!paddingY
             /\ Overview!PointY(m, p.recovered) >= Overview!PointY(m, p.risk)
  <2>1. p.risk \in Nat /\ p.recovered \in Nat /\ p.risk <= top
    BY <1>1, <1>3 DEF TrendOK
  <2>2. p.recovered <= p.risk \/ (p.risk = top /\ 244 * p.recovered < 245 * p.risk)
    BY <1>2, <1>3 DEF TrendOK
  <2> QED  BY <1>1, <2>1, <2>2, PointFits
<1> QED  BY <1>3 DEF ChartOK, TrendOK

\* A quotient, rounded: off by half the divisor at most.
Rounded(n, d, q) ==
  q \in Nat /\ 2 * (d * q) <= 2 * n + d /\ 2 * n <= 2 * (d * q) + d

\* Round rounds.
LEMMA RoundBounds ==
  ASSUME NEW n \in Nat, NEW d \in Nat \ {0} PROVE Rounded(n, d, Overview!Screen!Round(n, d))
<1>1. PICK h \in Nat : h = d \div 2 /\ 2 * h <= d /\ d <= 2 * h + 1
  OBVIOUS
<1>2. PICK x \in Nat : x = n + h
  BY <1>1
<1>3. PICK q : q = x \div d
  OBVIOUS
<1>4. q \in Int /\ d * q <= x /\ x < d * q + d
  BY <1>2, <1>3
<1>5. q \in Nat
  BY <1>2, <1>3, DivisionKeepsOrder
<1>6. Overview!Screen!Round(n, d) = q
  BY <1>1, <1>2, <1>3 DEF Overview!Screen!Round
<1>7. PICK z \in Int : z = d * q
  BY <1>4
<1>8. 2 * z <= 2 * n + d /\ 2 * n <= 2 * z + d
  BY <1>1, <1>2, <1>4, <1>7
<1> QED  BY <1>5, <1>6, <1>7, <1>8 DEF Rounded

\* Shares are in the order of what they are shares of.
LEMMA ShareOrder ==
  ASSUME NEW a \in Nat, NEW b \in Nat, NEW i \in Nat, NEW j \in Nat, a * i <= b * j
  PROVE  /\ Overview!Share(a, i) \in Nat /\ Overview!Share(b, j) \in Nat
         /\ Overview!Share(a, i) <= Overview!Share(b, j)
<1>1. PICK x \in Nat, y \in Nat : x = a * i + 500 /\ y = b * j + 500 /\ x <= y
  OBVIOUS
<1>2. Overview!Share(a, i) = x \div 1000 /\ Overview!Share(b, j) = y \div 1000
  <2>1. 1000 \div 2 = 500
    OBVIOUS
  <2> QED  BY <1>1, <2>1 DEF Overview!Share, Overview!Screen!Round
<1>3. 1000 \in Nat \ {0}
  OBVIOUS
<1> QED  BY <1>1, <1>2, <1>3, DivisionKeepsOrder

\* A share of an amount is an amount.
LEMMA ShareType == ASSUME NEW a \in Nat, NEW i \in Nat PROVE Overview!Share(a, i) \in Nat
<1>1. a * i <= a * i
  OBVIOUS
<1> QED  BY <1>1, ShareOrder

\* At most all of them: the rate of c in t reads as 100.0 % or less.
AtMostAll(c, t) == Overview!Screen!Round(1000 * c, t) <= 1000

\* The risk exceeds the amount, or falls short of it by a rounding.
Covers(r, a) == r >= a \/ (a >= 1 /\ 244 * a < 245 * r)

\* The estimate of the revenue at risk is the recovered amount scaled by decisions per
\* recovered action, so the recovered amount exceeds it, at a rate that reads as 100.0 % at
\* most, by a rounding only.
LEMMA RiskBound ==
  ASSUME NEW a \in Nat, NEW t \in Nat \ {0}, NEW c \in Nat \ {0}, c <= a, AtMostAll(c, t)
  PROVE  /\ Overview!Screen!Round(a * t, c) \in Nat
         /\ Covers(Overview!Screen!Round(a * t, c), a)
<1>1. PICK q \in Nat : q <= 1000 /\ 2 * (1000 * c) <= 2 * (t * q) + t
  <2>1. PICK n \in Nat : n = 1000 * c
    OBVIOUS
  <2>2. Rounded(n, t, Overview!Screen!Round(n, t))
    BY RoundBounds
  <2>3. PICK q \in Nat : q = Overview!Screen!Round(n, t)
    BY <2>2 DEF Rounded
  <2>4. q <= 1000
    BY <2>1, <2>3 DEF AtMostAll
  <2>5. 2 * n <= 2 * (t * q) + t
    BY <2>2, <2>3 DEF Rounded
  <2> QED  BY <2>1, <2>4, <2>5
<1>2. 2000 * c <= 2001 * t
  <2>1. t * q <= t * 1000
    <3>1. q <= 1000
      BY <1>1
    <3>2. t * (1000 - q) >= 0 /\ t * (1000 - q) = t * 1000 - t * q
      BY <3>1
    <3>3. t * q \in Int
      OBVIOUS
    <3> QED  BY <3>2, <3>3
  <2>2. PICK z \in Int : z = t * q
    OBVIOUS
  <2> QED  BY <1>1, <2>1, <2>2
<1>3. PICK p \in Nat, r \in Nat, w \in Int :
        /\ p = a * t /\ r = Overview!Screen!Round(a * t, c) /\ w = c * r /\ 2 * p <= 2 * w + c
  <2>1. PICK p \in Nat : p = a * t
    OBVIOUS
  <2>2. Rounded(p, c, Overview!Screen!Round(p, c))
    BY RoundBounds
  <2>3. PICK r \in Nat : r = Overview!Screen!Round(p, c)
    BY <2>2 DEF Rounded
  <2>4. PICK w \in Int : w = c * r
    OBVIOUS
  <2>5. 2 * p <= 2 * w + c
    BY <2>2, <2>3, <2>4 DEF Rounded
  <2> QED  BY <2>1, <2>3, <2>4, <2>5
<1>4. ASSUME c <= t PROVE Covers(r, a)
  <2>1. ASSUME r < a PROVE FALSE
    <3>1. a * (t - c) >= 0 /\ a * (t - c) = a * t - a * c
      BY <1>4
    <3>2. c * (a - r - 1) >= 0 /\ c * (a - r - 1) = a * c - c * r - c
      BY <2>1
    <3>3. PICK y \in Int : y = a * c
      OBVIOUS
    <3>4. p - y >= 0 /\ y - w - c >= 0
      BY <1>3, <3>1, <3>2, <3>3
    <3> QED  BY <1>3, <3>4
  <2> QED  BY <1>3, <2>1 DEF Covers
<1>5. ASSUME t < c PROVE Covers(r, a)
  <2>1. a >= 2001
    BY <1>2, <1>5
  <2>2. 4002 * r >= 4000 * a - 2001
    <3>1. ASSUME 4002 * r < 4000 * a - 2001 PROVE FALSE
      <4>1. PICK y \in Int : y = a * c
        OBVIOUS
      <4>2. c * (4000 * a - 2001 - 4002 * r) >= 1
        BY <3>1
      <4>3. c * (4000 * a - 2001 - 4002 * r) = 4000 * (a * c) - 2001 * c - 4002 * (c * r)
        OBVIOUS
      <4>4. 4000 * y - 2001 * c - 4002 * w >= 1
        BY <1>3, <4>1, <4>2, <4>3
      <4>5. a * (2001 * t - 2000 * c) >= 0
        BY <1>2
      <4>6. a * (2001 * t - 2000 * c) = 2001 * (a * t) - 2000 * (a * c)
        OBVIOUS
      <4>7. 2001 * p - 2000 * y >= 0
        BY <1>3, <4>1, <4>5, <4>6
      <4> QED  BY <1>3, <4>1, <4>4, <4>7
    <3> QED  BY <3>1
  <2>3. 244 * a < 245 * r
    BY <2>1, <2>2
  <2> QED  BY <1>3, <2>1, <2>3 DEF Covers
<1> QED  BY <1>3, <1>4, <1>5

\* The recovery rate reads as 100.0 % or less.
ReadsWhole(m) == m.recovery_rate <= 1000

\* The engine's trend: shares of the estimate and of the recovered amount.
LEMMA EngineChart ==
  ASSUME NEW raw, AggregateOK(raw), NEW m, m = Overview!Transformed(raw), ReadsWhole(m)
  PROVE  ChartOK(m)
<1>1. PICK a \in Nat, r \in Nat : /\ a = raw.recovered_amount /\ r = Overview!EstimatedRisk(raw)
                                  /\ Covers(r, a)
  <2>1. CASE raw.recovered_count = 0
    <3>1. raw.recovered_amount = 0 /\ Overview!EstimatedRisk(raw) = Overview!Share(0, 2200)
      BY <2>1 DEF AggregateOK, Overview!EstimatedRisk
    <3>2. Overview!Share(0, 2200) = 0
      BY DEF Overview!Share, Overview!Screen!Round
    <3> QED  BY <3>1, <3>2 DEF Covers
  <2>2. CASE raw.recovered_count # 0
    <3>1. PICK c \in Nat \ {0}, t \in Nat \ {0}, a \in Nat :
            /\ c = raw.recovered_count /\ t = raw.total_decisions /\ a = raw.recovered_amount
            /\ c <= a
      BY <2>2 DEF AggregateOK
    <3>2. Overview!EstimatedRisk(raw) = Overview!Screen!Round(a * t, c)
      BY <3>1 DEF Overview!EstimatedRisk
    <3>3. m.recovery_rate = Overview!Screen!Round(1000 * c, t)
      BY <3>1 DEF Overview!Transformed
    <3>4. AtMostAll(c, t)
      BY <3>3 DEF AtMostAll, ReadsWhole
    <3>5. Overview!Screen!Round(a * t, c) \in Nat /\ Covers(Overview!Screen!Round(a * t, c), a)
      BY <3>1, <3>4, RiskBound
    <3> QED  BY <3>1, <3>2, <3>5
  <2> QED  BY <2>1, <2>2
<1> DEFINE risk(i) == Overview!Share(r, Overview!RiskShares[i])
           won(i) == Overview!Share(a, Overview!RecoveredShares[i])
<1>2. m.trend = [i \in 1..5 |-> [risk |-> risk(i), recovered |-> won(i)]]
  BY <1>1 DEF Overview!Transformed
<1>3. \A i \in 1..5 : m.trend[i].risk = risk(i) /\ m.trend[i].recovered = won(i)
  BY <1>2
<1>4. \A i \in 1..5 : /\ Overview!RiskShares[i] \in Nat /\ Overview!RecoveredShares[i] \in Nat
                      /\ Overview!RecoveredShares[i] <= Overview!RiskShares[i]
                      /\ Overview!RiskShares[i] <= 1000
                      /\ i # 5 => 245 * Overview!RecoveredShares[i] <= 244 * Overview!RiskShares[i]
                      /\ i = 5 => Overview!RecoveredShares[i] = 1000 /\ Overview!RiskShares[i] = 1000
  BY DEF Overview!RiskShares, Overview!RecoveredShares
<1> HIDE DEF risk, won
<1>5. \A v \in Nat : Overview!Share(v, 1000) = v
  BY DEF Overview!Share, Overview!Screen!Round
<1>6. ASSUME NEW i \in 1..5
      PROVE  /\ m.trend[i].risk \in Nat /\ m.trend[i].recovered \in Nat
             /\ \/ m.trend[i].recovered <= m.trend[i].risk
                \/ /\ \A k \in 1..5 : m.trend[k].risk <= m.trend[i].risk
                   /\ m.trend[i].risk >= 1
                   /\ 244 * m.trend[i].recovered < 245 * m.trend[i].risk
  <2>1. PICK u \in Nat, v \in Nat : u = Overview!RecoveredShares[i] /\ v = Overview!RiskShares[i]
    BY <1>4
  <2>2. m.trend[i].risk = Overview!Share(r, v) /\ m.trend[i].recovered = Overview!Share(a, u)
    BY <1>3, <2>1 DEF risk, won
  <2>3. Overview!Share(r, v) \in Nat /\ Overview!Share(a, u) \in Nat
    BY ShareType, Zenon
  <2>4. ASSUME a * u <= r * v PROVE m.trend[i].recovered <= m.trend[i].risk
    BY <2>2, <2>4, ShareOrder
  <2>5. CASE r >= a
    <3>1. u <= v
      BY <1>4, <2>1
    <3>2. a * u <= r * v
      <4>1. a * (v - u) >= 0 /\ a * (v - u) = a * v - a * u
        BY <3>1
      <4>2. v * (r - a) >= 0 /\ v * (r - a) = r * v - a * v
        BY <2>5
      <4>3. PICK x \in Int, y \in Int, z \in Int : x = a * u /\ y = a * v /\ z = r * v
        OBVIOUS
      <4> QED  BY <4>1, <4>2, <4>3
    <3> QED  BY <2>2, <2>3, <2>4, <3>2
  <2>6. CASE r < a /\ i # 5
    <3>1. 245 * u <= 244 * v
      BY <1>4, <2>1, <2>6
    <3>2. 244 * a < 245 * r
      BY <1>1, <2>6 DEF Covers
    <3>3. a * u <= r * v
      <4>1. a * (244 * v - 245 * u) >= 0 /\ a * (244 * v - 245 * u) = 244 * (a * v) - 245 * (a * u)
        BY <3>1
      <4>2. v * (245 * r - 244 * a) >= 0 /\ v * (245 * r - 244 * a) = 245 * (r * v) - 244 * (a * v)
        BY <3>2
      <4>3. PICK x \in Int, y \in Int, z \in Int : x = a * u /\ y = a * v /\ z = r * v
        OBVIOUS
      <4> QED  BY <4>1, <4>2, <4>3
    <3> QED  BY <2>2, <2>3, <2>4, <3>3
  <2>7. CASE r < a /\ i = 5
    <3>1. u = 1000 /\ v = 1000
      BY <1>4, <2>1, <2>7
    <3>2. m.trend[i].risk = r /\ m.trend[i].recovered = a
      BY <1>5, <2>2, <3>1
    <3>3. ASSUME NEW k \in 1..5 PROVE m.trend[k].risk <= r
      <4>1. PICK w \in Nat : w = Overview!RiskShares[k] /\ w <= 1000
        BY <1>4
      <4>2. r * w <= r * 1000
        <5>1. r * (1000 - w) >= 0 /\ r * (1000 - w) = r * 1000 - r * w
          BY <4>1
        <5>2. PICK x \in Int : x = r * w
          OBVIOUS
        <5> QED  BY <5>1, <5>2
      <4>3. Overview!Share(r, w) <= Overview!Share(r, 1000)
        <5>1. 1000 \in Nat
          OBVIOUS
        <5> QED  BY <4>2, <5>1, ShareOrder
      <4>4. Overview!Share(r, w) <= r
        BY <1>5, <4>3
      <4> QED  BY <1>3, <4>1, <4>4 DEF risk
    <3>4. r >= 1 /\ 244 * a < 245 * r
      BY <1>1, <2>7 DEF Covers
    <3> QED  BY <3>2, <3>3, <3>4
  <2> QED  BY <2>5, <2>6, <2>7
<1>7. DOMAIN m.trend = 1..5 /\ 5 \in Nat
  BY <1>2
<1>8. TrendOK(m, 5)
  BY <1>6, <1>7 DEF TrendOK
<1> QED  BY <1>7, <1>8, TrendFits

\* The sum of three or six numbers.
LEMMA SumOfThree ==
  ASSUME NEW s, s \in [1..3 -> Int] PROVE Overview!SumOf(s) = s[1] + s[2] + s[3]
<1>1. s \in Seq(Int) /\ Len(s) = 3
  <2>1. PICK n \in Nat : n = 3
    OBVIOUS
  <2>2. s \in [1..n -> Int]
    BY <2>1
  <2>3. s \in Seq(Int) /\ Len(s) = n
    BY <2>2
  <2> QED  BY <2>1, <2>3
<1>2. PICK f : /\ f \in [0..3 -> Int] /\ f[0] = 0 /\ Overview!SumOf(s) = f[3]
               /\ \A n \in 1..3 : f[n] = f[n - 1] + s[n]
  <2>1. \E f : /\ f \in [0..Len(s) -> Int] /\ f[0] = 0 /\ Overview!SumOf(s) = f[Len(s)]
              /\ \A n \in 1..Len(s) : f[n] = f[n - 1] + s[n]
    BY <1>1, SumSolved, Zenon
  <2> QED  BY <1>1, <2>1, Zenon
<1>3. f[1] = f[0] + s[1] /\ f[2] = f[1] + s[2] /\ f[3] = f[2] + s[3]
  BY <1>2
<1> QED  BY <1>2, <1>3

LEMMA SumOfSix ==
  ASSUME NEW s, s \in [1..6 -> Int]
  PROVE  Overview!SumOf(s) = s[1] + s[2] + s[3] + s[4] + s[5] + s[6]
<1>1. s \in Seq(Int) /\ Len(s) = 6
  <2>1. PICK n \in Nat : n = 6
    OBVIOUS
  <2>2. s \in [1..n -> Int]
    BY <2>1
  <2>3. s \in Seq(Int) /\ Len(s) = n
    BY <2>2
  <2> QED  BY <2>1, <2>3
<1>2. PICK f : /\ f \in [0..6 -> Int] /\ f[0] = 0 /\ Overview!SumOf(s) = f[6]
               /\ \A n \in 1..6 : f[n] = f[n - 1] + s[n]
  <2>1. \E f : /\ f \in [0..Len(s) -> Int] /\ f[0] = 0 /\ Overview!SumOf(s) = f[Len(s)]
              /\ \A n \in 1..Len(s) : f[n] = f[n - 1] + s[n]
    BY <1>1, SumSolved, Zenon
  <2> QED  BY <1>1, <2>1, Zenon
<1>3. /\ f[1] = f[0] + s[1] /\ f[2] = f[1] + s[2] /\ f[3] = f[2] + s[3]
      /\ f[4] = f[3] + s[4] /\ f[5] = f[4] + s[5] /\ f[6] = f[5] + s[6]
  BY <1>2
<1> QED  BY <1>2, <1>3

\* What PartsAddUp says of the metrics.
PartsOK(m) ==
  LET parts == m.interventions
  IN Overview!SumOf([i \in DOMAIN parts |-> parts[i].recovered_value]) - m.recovered_revenue \in -2 .. 2

\* The three rows of the engine, each rounded.
LEMMA EngineParts ==
  ASSUME NEW raw, AggregateOK(raw) PROVE PartsOK(Overview!Transformed(raw))
<1> DEFINE m == Overview!Transformed(raw)
           parts == m.interventions
           s == [i \in DOMAIN parts |-> parts[i].recovered_value]
<1>1. PICK a \in Nat : a = raw.recovered_amount
  BY DEF AggregateOK
<1>2. m.recovered_revenue = a /\ parts = Overview!Interventions(raw)
  BY <1>1 DEF Overview!Transformed
<1>3. /\ DOMAIN parts = 1..3 /\ parts[1].recovered_value = Overview!Share(a, 600)
      /\ parts[2].recovered_value = Overview!Share(a, 300)
      /\ parts[3].recovered_value = Overview!Share(a, 100)
  <2> HIDE DEF m
  <2> QED  BY <1>1, <1>2 DEF Overview!Interventions, Overview!Intervention
<1> HIDE DEF m, parts
<1>4. PICK x \in Int, y \in Int, z \in Int :
        /\ x = Overview!Share(a, 600) /\ y = Overview!Share(a, 300) /\ z = Overview!Share(a, 100)
        /\ x + y + z - a \in -2 .. 2
  <2>1. \A k \in {600, 300, 100} : Overview!Share(a, k) = (a * k + 500) \div 1000
    BY DEF Overview!Share, Overview!Screen!Round
  <2>2. PICK x \in Int, y \in Int, z \in Int :
          /\ x = (a * 600 + 500) \div 1000 /\ y = (a * 300 + 500) \div 1000
          /\ z = (a * 100 + 500) \div 1000
    OBVIOUS
  <2>3. /\ 1000 * x <= a * 600 + 500 /\ a * 600 + 500 < 1000 * x + 1000
        /\ 1000 * y <= a * 300 + 500 /\ a * 300 + 500 < 1000 * y + 1000
        /\ 1000 * z <= a * 100 + 500 /\ a * 100 + 500 < 1000 * z + 1000
    BY <2>2
  <2> QED  BY <2>1, <2>2, <2>3
<1>5. DOMAIN s = 1..3 /\ s[1] = x /\ s[2] = y /\ s[3] = z
  BY <1>3, <1>4
<1>6. s \in [1..3 -> Int]
  <2>1. \A i \in 1..3 : s[i] \in Int
    BY <1>5, <1>4
  <2>2. s = [i \in 1..3 |-> s[i]]
    BY <1>5
  <2> HIDE DEF s
  <2> QED  BY <2>1, <2>2
<1> HIDE DEF s
<1>7. Overview!SumOf(s) = x + y + z
  BY <1>5, <1>6, SumOfThree
<1> QED  BY <1>2, <1>4, <1>7 DEF PartsOK, s, parts, m

\* The sandbox's metrics, merchant by merchant.
LEMMA SandboxParts ==
  ASSUME NEW k \in DOMAIN Overview!MOCK_SUMMARY_METRICS
  PROVE  PartsOK(Overview!MOCK_SUMMARY_METRICS[k])
<1> DEFINE m == Overview!MOCK_SUMMARY_METRICS[k]
           parts == m.interventions
           s == [i \in DOMAIN parts |-> parts[i].recovered_value]
<1>1. k \in {"merch_acme_01", "merch_nexa_02", "merch_zenith_03"}
  BY SMTT(20) DEF Overview!MOCK_SUMMARY_METRICS
<1>2. CASE k = "merch_acme_01"
  <2>1. m.recovered_revenue = 4730 /\ s = <<2310, 1245, 780, 325, 70, 0>>
    BY <1>2, SMTT(20) DEF Overview!MOCK_SUMMARY_METRICS, Overview!SandboxMetrics, Overview!Intervention
  <2> HIDE DEF s
  <2>2. s \in [1..6 -> Int]
    BY <2>1
  <2>3. Overview!SumOf(s) = 4730
    BY <2>1, <2>2, SumOfSix
  <2> QED  BY <2>1, <2>3 DEF PartsOK, s
<1>3. CASE k = "merch_nexa_02"
  <2>1. m.recovered_revenue = 6120 /\ s = <<3600, 1650, 870>>
    BY <1>3, SMTT(20) DEF Overview!MOCK_SUMMARY_METRICS, Overview!SandboxMetrics, Overview!Intervention
  <2> HIDE DEF s
  <2>2. s \in [1..3 -> Int]
    BY <2>1
  <2>3. Overview!SumOf(s) = 6120
    BY <2>1, <2>2, SumOfThree
  <2> QED  BY <2>1, <2>3 DEF PartsOK, s
<1>4. CASE k = "merch_zenith_03"
  <2>1. m.recovered_revenue = 3520 /\ s = <<2100, 1220, 200>>
    BY <1>4, SMTT(20) DEF Overview!MOCK_SUMMARY_METRICS, Overview!SandboxMetrics, Overview!Intervention
  <2> HIDE DEF s
  <2>2. s \in [1..3 -> Int]
    BY <2>1
  <2>3. Overview!SumOf(s) = 3520
    BY <2>1, <2>2, SumOfThree
  <2> QED  BY <2>1, <2>3 DEF PartsOK, s
<1> QED  BY <1>1, <1>2, <1>3, <1>4

\* The sandbox's trends, merchant by merchant.
LEMMA SandboxChart ==
  ASSUME NEW k \in DOMAIN Overview!MOCK_SUMMARY_METRICS
  PROVE  ChartOK(Overview!MOCK_SUMMARY_METRICS[k])
<1> DEFINE m == Overview!MOCK_SUMMARY_METRICS[k]
<1>1. k \in {"merch_acme_01", "merch_nexa_02", "merch_zenith_03"}
  BY SMTT(20) DEF Overview!MOCK_SUMMARY_METRICS
<1>2. CASE k = "merch_acme_01"
  <2>1. m.trend = Overview!AcmeTrend
    BY <1>2, SMTT(20) DEF Overview!MOCK_SUMMARY_METRICS, Overview!SandboxMetrics
  <2> HIDE DEF m
  <2>2. TrendOK(m, 10)
    BY <2>1, SMTT(20) DEF TrendOK, Overview!AcmeTrend, Overview!Point
  <2> QED  BY <2>2, TrendFits DEF m
<1>3. CASE k = "merch_nexa_02"
  <2>1. m.trend = Overview!NexaTrend
    BY <1>3, SMTT(20) DEF Overview!MOCK_SUMMARY_METRICS, Overview!SandboxMetrics
  <2> HIDE DEF m
  <2>2. TrendOK(m, 7)
    BY <2>1, SMTT(20) DEF TrendOK, Overview!NexaTrend, Overview!Point
  <2> QED  BY <2>2, TrendFits DEF m
<1>4. CASE k = "merch_zenith_03"
  <2>1. m.trend = Overview!ZenithTrend
    BY <1>4, SMTT(20) DEF Overview!MOCK_SUMMARY_METRICS, Overview!SandboxMetrics
  <2> HIDE DEF m
  <2>2. TrendOK(m, 7)
    BY <2>1, SMTT(20) DEF TrendOK, Overview!ZenithTrend, Overview!Point
  <2> QED  BY <2>2, TrendFits DEF m
<1> QED  BY <1>1, <1>2, <1>3, <1>4

\* The chart and the interventions, from the invariant.
LEMMA FiguresHold ==
  ASSUME MetricsInvariant PROVE Overview!ChartFits /\ Overview!PartsAddUp
<1>1. CASE metrics = Overview!NotRead
  BY <1>1 DEF Overview!ChartFits, Overview!PartsAddUp, Overview!Shown
<1>2. ASSUME ChartOK(metrics) \/ ~ReadsWhole(metrics), PartsOK(metrics)
      PROVE  Overview!ChartFits /\ Overview!PartsAddUp
  BY <1>2 DEF Overview!ChartFits, Overview!PartsAddUp, ReadsWhole, ChartOK, PartsOK
<1>3. ASSUME NEW k \in DOMAIN Overview!MOCK_SUMMARY_METRICS, metrics = Overview!MOCK_SUMMARY_METRICS[k]
      PROVE  Overview!ChartFits /\ Overview!PartsAddUp
  <2>1. ChartOK(metrics) /\ PartsOK(metrics)
    BY <1>3, SandboxChart, SandboxParts
  <2> QED  BY <1>2, <2>1
<1>4. ASSUME NEW raw, AggregateOK(raw), metrics = Overview!Transformed(raw)
      PROVE  Overview!ChartFits /\ Overview!PartsAddUp
  <2>1. ChartOK(metrics) \/ ~ReadsWhole(metrics)
    BY <1>4, EngineChart
  <2>2. PartsOK(metrics)
    BY <1>4, EngineParts
  <2> QED  BY <1>2, <2>1, <2>2
<1> QED  BY <1>1, <1>3, <1>4 DEF MetricsInvariant

\* A row is inserted between the rows of a feed, whatever the order.
LEMMA RowInserted ==
  ASSUME NEW E, NEW v, NEW list \in Seq(E), NEW d \in E
  PROVE  Feed!Insert(v, list, d) \in Seq(E) /\ Len(Feed!Insert(v, list, d)) = Len(list) + 1
<1>1. PICK n \in Nat : n = Len(list) /\ DOMAIN list = 1..n
  OBVIOUS
<1> DEFINE before == {i \in DOMAIN list : ~Feed!InOrder(v, d, list[i])}
<1>2. PICK k \in 0..n : k = Feed!Cardinality(before)
  <2>1. IsFiniteSet(1..n) /\ Cardinality(1..n) = n
    <3>1. 1 \in Int /\ n \in Int
      BY <1>1
    <3>2. IsFiniteSet(1..n) /\ Cardinality(1..n) = IF 1 > n THEN 0 ELSE n - 1 + 1
      BY <3>1, FS_Interval
    <3> QED  BY <1>1, <3>2
  <2>2. before \in SUBSET (1..n)
    BY <1>1
  <2>3. Cardinality(before) = Feed!Cardinality(before)
    BY DEF Cardinality, Feed!Cardinality
  <2> HIDE DEF before
  <2>4. Cardinality(before) \in Nat /\ Cardinality(before) <= n
    BY <2>1, <2>2, FS_Subset, FS_CardinalityType
  <2> QED  BY <1>1, <2>3, <2>4
<1>3. Feed!Insert(v, list, d) = SubSeq(list, 1, (1 + k) - 1) \o <<d>> \o SubSeq(list, 1 + k, n)
  BY <1>1, <1>2 DEF Feed!Insert, Feed!InsertAt
<1> HIDE DEF before
<1>4. PICK a, b : a = SubSeq(list, 1, (1 + k) - 1) /\ b = SubSeq(list, 1 + k, n)
  OBVIOUS
<1>5. a \in Seq(E) /\ Len(a) = k /\ b \in Seq(E) /\ Len(b) = n - k
  <2>1. (1 + k) - 1 = k /\ k \in 0..n /\ 1 + k \in 1..n + 1
    BY <1>1, <1>2
  <2>2. a = [i \in 1..k |-> list[(1 + i) - 1]]
    BY <1>4, <2>1
  <2>3. \A i \in 1..k : list[(1 + i) - 1] \in E
    BY <1>1, <1>2
  <2>4. a \in Seq(E) /\ Len(a) = k
    <3>1. k \in Nat
      BY <1>2
    <3> QED  BY <2>2, <2>3, <3>1
  <2>5. b = [i \in 1..n - k |-> list[(1 + k + i) - 1]]
    <3>1. (n - (1 + k)) + 1 = n - k
      BY <1>1, <1>2
    <3> QED  BY <1>4, <3>1
  <2>6. \A i \in 1..n - k : list[(1 + k + i) - 1] \in E
    BY <1>1, <1>2
  <2>7. b \in Seq(E) /\ Len(b) = n - k
    <3>1. n - k \in Nat
      BY <1>1, <1>2
    <3> QED  BY <2>5, <2>6, <3>1
  <2> QED  BY <2>4, <2>7
<1>6. PICK c : c = a \o <<d>> /\ c \in Seq(E) /\ Len(c) = k + 1
  <2>1. PICK e : e = <<d>> /\ e \in Seq(E) /\ Len(e) = 1
    <3>1. <<d>> \in Seq(E)
      BY WrittenOut
    <3>2. Len(<<d>>) = 1
      OBVIOUS
    <3> QED  BY <3>1, <3>2
  <2>2. a \o e \in Seq(E) /\ Len(a \o e) = k + 1
    BY <1>2, <1>5, <2>1
  <2> QED  BY <2>1, <2>2
<1>7. c \o b \in Seq(E) /\ Len(c \o b) = n + 1
  BY <1>1, <1>2, <1>5, <1>6
<1> QED  BY <1>1, <1>3, <1>4, <1>6, <1>7

\* A feed has a row for each decision that matches.
LEMMA RowsCounted ==
  ASSUME NEW E, NEW ds \in Seq(E), NEW v
  PROVE  Len(Feed!filteredDecisions(ds, v)) = Cardinality({i \in DOMAIN ds : Feed!Matches(ds[i], v)})
<1> DEFINE N == Len(ds)
           S == Seq(E)
           more(n, list) == IF Feed!Matches(ds[n], v) THEN Feed!Insert(v, list, ds[n]) ELSE list
           step == [p \in (1..N) \X S |-> more(p[1], p[2])]
           hits(n) == {i \in 1..n : Feed!Matches(ds[i], v)}
<1>1. N \in Nat /\ DOMAIN ds = 1..N /\ (\A n \in 1..N : ds[n] \in E) /\ <<>> \in S
  OBVIOUS
<1>2. \A n \in 1..N, list \in S : more(n, list) \in S
  <2>1. \A n \in 1..N, list \in S : Feed!Insert(v, list, ds[n]) \in S
    BY <1>1, RowInserted
  <2> HIDE DEF S, N
  <2> QED  BY <2>1
<1>3. step \in [(1..N) \X S -> S]
  <2> HIDE DEF more, S, N
  <2> QED  BY <1>2
<1> HIDE DEF step
<1>4. PICK f : Solves(f, N, S, <<>>, step)
  <2> HIDE DEF S, N
  <2> QED  BY <1>1, <1>3, Recursion
<1>5. f = [n \in 0..N |-> IF n = 0 THEN <<>> ELSE more(n, f[n - 1])]
  <2>1. ASSUME NEW n \in 1..N PROVE f[n] = more(n, f[n - 1])
    <3>1. n - 1 \in 0..N /\ f[n - 1] \in S
      <4>1. n - 1 \in 0..N
        BY <1>1
      <4> HIDE DEF S, N
      <4> QED  BY <1>4, <4>1 DEF Solves
    <3>2. step[<<n, f[n - 1]>>] = more(n, f[n - 1])
      BY <3>1 DEF step
    <3> QED  BY <1>4, <3>2 DEF Solves
  <2> HIDE DEF more, S
  <2> QED  BY <1>4, <2>1 DEF Solves
<1> DEFINE sorted[n \in 0..N] == IF n = 0 THEN <<>>
                                ELSE IF Feed!Matches(ds[n], v)
                                  THEN Feed!Insert(v, sorted[n - 1], ds[n])
                                ELSE sorted[n - 1]
<1>6. sorted = [n \in 0..N |-> IF n = 0 THEN <<>> ELSE more(n, sorted[n - 1])]
  BY <1>5
<1>7. Feed!filteredDecisions(ds, v) = sorted[N]
  BY DEF Feed!filteredDecisions
<1> HIDE DEF sorted
<1> DEFINE T == {n \in 0..N : /\ sorted[n] \in S /\ IsFiniteSet(hits(n))
                              /\ Len(sorted[n]) = Cardinality(hits(n))}
<1>8. 0 \in T
  <2>1. sorted[0] = <<>> /\ 0 \in 0..N
    BY <1>1, <1>6
  <2>2. hits(0) = {}
    OBVIOUS
  <2>3. Len(<<>>) = 0
    OBVIOUS
  <2> HIDE DEF hits, S, N
  <2> QED  BY <1>1, <2>1, <2>2, <2>3, FS_EmptySet
<1>9. ASSUME NEW n \in 0..N - 1, n \in T PROVE n + 1 \in T
  <2>1. n + 1 \in 1..N /\ n + 1 \in 0..N /\ sorted[n + 1] = more(n + 1, sorted[n])
    <3>1. n + 1 \in 1..N /\ n + 1 \in 0..N /\ n + 1 # 0 /\ (n + 1) - 1 = n
      BY <1>1
    <3> HIDE DEF more, N
    <3> QED  BY <1>6, <3>1
  <2>2. PICK old : old = sorted[n]
    OBVIOUS
  <2>3. old \in S /\ IsFiniteSet(hits(n)) /\ Len(old) = Cardinality(hits(n)) /\ ds[n + 1] \in E
    BY <1>1, <1>9, <2>1, <2>2
  <2>4. CASE Feed!Matches(ds[n + 1], v)
    <3>1. PICK next : next = Feed!Insert(v, old, ds[n + 1])
      OBVIOUS
    <3>2. next \in S /\ Len(next) = Len(old) + 1
      BY <2>3, <3>1, RowInserted
    <3>3. hits(n + 1) = hits(n) \cup {n + 1} /\ n + 1 \notin hits(n)
      BY <2>4
    <3>4. sorted[n + 1] = next
      BY <2>1, <2>2, <2>4, <3>1
    <3> HIDE DEF hits, S, N
    <3>5. IsFiniteSet(hits(n + 1)) /\ Cardinality(hits(n + 1)) = Cardinality(hits(n)) + 1
      BY <2>3, <3>3, FS_AddElement
    <3> QED  BY <2>1, <2>3, <3>2, <3>4, <3>5
  <2>5. CASE ~Feed!Matches(ds[n + 1], v)
    <3>1. hits(n + 1) = hits(n)
      BY <2>5
    <3>2. sorted[n + 1] = old
      BY <2>1, <2>2, <2>5
    <3> HIDE DEF hits, S, N
    <3> QED  BY <2>1, <2>3, <3>1, <3>2
  <2> HIDE DEF T
  <2> QED  BY <2>4, <2>5
<1>10. N \in T
  <2> HIDE DEF T, N
  <2>1. 0..N \subseteq T
    BY <1>1, <1>8, <1>9, Induct
  <2> QED  BY <1>1, <2>1
<1>11. hits(N) = {i \in DOMAIN ds : Feed!Matches(ds[i], v)}
  BY <1>1
<1> HIDE DEF hits, S, N
<1> QED  BY <1>7, <1>10, <1>11

\* The pills, under any controls of the feed.
LEMMA PillsHold == Feed!PillsCount
<1> DEFINE ds == Feed!MOCK_DECISIONS
           n == Feed!counts(ds)
           won == {i \in DOMAIN ds : ds[i].recovery_state = "RECOVERED"}
           pending == {i \in DOMAIN ds : ds[i].recovery_state = "ACTION_PENDING"}
           stopped == {i \in DOMAIN ds : ds[i].recovery_state = "STOPPED"}
           reviewed == {i \in DOMAIN ds : ds[i].policy_result = "HUMAN_REVIEW"}
           hits == {i \in DOMAIN ds : Feed!Matches(ds[i], view)}
<1>1. DOMAIN ds = 1..7 /\ Len(ds) = 7 /\ ds = [i \in 1..7 |-> ds[i]]
  BY SMTT(20) DEF Feed!MOCK_DECISIONS
<1>2. \A S : Cardinality(S) = Feed!Cardinality(S)
  BY DEF Cardinality, Feed!Cardinality
<1>3. /\ n.all = 7 /\ n.recovered = Cardinality(won) /\ n.pending = Cardinality(pending)
      /\ n.stopped = Cardinality(stopped) /\ n.humanReview = Cardinality(reviewed)
  <2>1. /\ n.all = Len(ds) /\ n.recovered = Feed!Cardinality(won)
        /\ n.pending = Feed!Cardinality(pending) /\ n.stopped = Feed!Cardinality(stopped)
        /\ n.humanReview = Feed!Cardinality(reviewed)
    BY DEF Feed!counts, Feed!CountWhere
  <2> HIDE DEF won, pending, stopped, reviewed, n, ds
  <2> QED  BY <1>1, <1>2, <2>1
<1>4. Len(Feed!Rows) = Cardinality(hits)
  <2>1. PICK E : E = {ds[i] : i \in 1..7}
    OBVIOUS
  <2>2. ds \in Seq(E)
    <3>1. PICK k \in Nat : k = 7
      OBVIOUS
    <3>2. \A i \in 1..k : ds[i] \in E
      BY <2>1, <3>1
    <3>3. ds = [i \in 1..k |-> ds[i]]
      BY <1>1, <3>1
    <3> HIDE DEF ds
    <3> QED  BY <3>2, <3>3
  <2> HIDE DEF ds
  <2>3. Len(Feed!filteredDecisions(ds, view)) = Cardinality(hits)
    BY <2>2, RowsCounted
  <2> QED  BY <2>3 DEF Feed!Rows, ds
<1> HIDE DEF ds, n
<1>5. IsFiniteSet(1..7) /\ Cardinality(1..7) = 7
  <2>1. 1 \in Int /\ 7 \in Int
    OBVIOUS
  <2>2. IsFiniteSet(1..7) /\ Cardinality(1..7) = IF 1 > 7 THEN 0 ELSE 7 - 1 + 1
    BY <2>1, FS_Interval
  <2> QED  BY <2>2
<1>6. /\ {won, pending, stopped, reviewed} \subseteq SUBSET (1..7)
      /\ won \cap pending = {} /\ (won \cup pending) \cap stopped = {}
  BY <1>1
<1>7. /\ IsFiniteSet(won) /\ IsFiniteSet(pending) /\ IsFiniteSet(stopped)
      /\ Cardinality(won) \in Nat /\ Cardinality(pending) \in Nat /\ Cardinality(stopped) \in Nat
  <2> HIDE DEF won, pending, stopped, reviewed
  <2> QED  BY <1>5, <1>6, FS_Subset, FS_CardinalityType
<1>8. n.recovered + n.pending + n.stopped <= n.all
  <2> HIDE DEF won, pending, stopped, reviewed
  <2>1. /\ IsFiniteSet(won \cup pending) /\ IsFiniteSet({}) /\ Cardinality({}) = 0
        /\ Cardinality(won \cup pending) = Cardinality(won) + Cardinality(pending) - Cardinality({})
    BY <1>6, <1>7, FS_Union, FS_EmptySet
  <2>2. Cardinality((won \cup pending) \cup stopped)
          = Cardinality(won \cup pending) + Cardinality(stopped) - Cardinality({})
    <3>1. /\ (won \cup pending) \cap stopped = {} /\ IsFiniteSet(won \cup pending)
          /\ IsFiniteSet(stopped)
      BY <1>6, <1>7, <2>1, Zenon
    <3>2. Cardinality((won \cup pending) \cup stopped)
            = Cardinality(won \cup pending) + Cardinality(stopped)
                - Cardinality((won \cup pending) \cap stopped)
      BY <3>1, FS_Union, Zenon
    <3> QED  BY <3>1, <3>2, Zenon
  <2>3. (won \cup pending) \cup stopped \in SUBSET (1..7)
    BY <1>6
  <2>4. Cardinality((won \cup pending) \cup stopped) <= 7
    BY <1>5, <2>3, FS_Subset
  <2> QED  BY <1>3, <1>7, <2>1, <2>2, <2>4
<1>9. ASSUME view.action = "ALL", view.search = "", view.policy = "ALL"
      PROVE  Len(Feed!Rows) = CASE view.status = "ALL" -> n.all
                                [] view.status = "RECOVERED" -> n.recovered
                                [] view.status = "ACTION_PENDING" -> n.pending
                                [] view.status = "STOPPED" -> n.stopped
                                [] OTHER -> Len(Feed!Rows)
  <2>1. \A i \in 1..7 : Feed!Matches(ds[i], view) <=> view.status \in {"ALL", ds[i].recovery_state}
    BY <1>9 DEF Feed!Matches
  <2>2. /\ view.status = "ALL" => hits = 1..7
        /\ view.status = "RECOVERED" => hits = won
        /\ view.status = "ACTION_PENDING" => hits = pending
        /\ view.status = "STOPPED" => hits = stopped
    BY <1>1, <2>1
  <2> HIDE DEF hits, won, pending, stopped, reviewed
  <2> QED  BY <1>3, <1>4, <1>5, <2>2
<1>10. ASSUME view.action = "ALL", view.search = "", view.policy = "HUMAN_REVIEW", view.status = "ALL"
       PROVE  Len(Feed!Rows) = n.humanReview
  <2>1. \A i \in 1..7 : Feed!Matches(ds[i], view) <=> ds[i].policy_result = "HUMAN_REVIEW"
    BY <1>10 DEF Feed!Matches
  <2>2. hits = reviewed
    BY <1>1, <2>1
  <2> QED  BY <1>3, <1>4, <2>2
<1> QED  BY <1>8, <1>9, <1>10 DEF Feed!PillsCount, n, ds

(***************************************************************************)
(* After any decisions, outcomes and reads: the recovered line stays in    *)
(* the chart and under the risk, the interventions add up to what was      *)
(* recovered, and under any controls of the feed a pill says how many rows *)
(* it leaves.                                                              *)
(***************************************************************************)
THEOREM FiguresAlwaysAgree == Overview!Spec => []FiguresAgree
<1>1. Overview!Init => MetricsInvariant
  <2>1. SUFFICES ASSUME Overview!Init PROVE MetricsInvariant
    OBVIOUS
  <2>2. action = {} /\ metrics = Overview!NotRead /\ ledger = [d \in Decisions |-> Overview!NoRow]
    BY <2>1 DEF Overview!Init
  <2>3. IsFiniteSet(action) /\ ledger \in [Decisions -> Kinds \cup {Overview!NoRow}]
    BY <2>2, FS_EmptySet
  <2> QED  BY <2>2, <2>3 DEF MetricsInvariant
<1>2. MetricsInvariant /\ [Overview!Next]_(Overview!vars) => MetricsInvariant'
  BY MetricsKept
<1>3. MetricsInvariant => FiguresAgree
  BY FiguresHold, PillsHold DEF FiguresAgree
<1> QED  BY <1>1, <1>2, <1>3, PTL DEF Overview!Spec
=============================================================================
