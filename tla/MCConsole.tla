------------------------------ MODULE MCConsole ------------------------------
(***************************************************************************)
(* Values for the constants of Console: two merchants in both stores, one  *)
(* of the engine's without decisions, and the sessions looked at.          *)
(***************************************************************************)
EXTENDS ConsoleProperties, TLC

CONSTANTS a, b, s, t, da, db, ds, dt

Owners == da :> a @@ db :> a @@ ds :> s @@ dt :> t

Session(faults, patient, does, types, commands, n, again) ==
  [faults |-> faults, patient |-> patient, does |-> does, types |-> types,
   commands |-> commands, loads |-> n, reloads |-> again]

\* One command of each kind, for an operator who waits and an engine that answers.
Calm == Session({}, TRUE, {"toggle", "save", "override", "simulate", "browse", "refresh"}, {"high"}, 2, 2, 0)
\* Overrides by an operator who does not wait.
Hasty == Session({}, FALSE, {"override", "simulate", "browse"}, {}, 2, 1, 0)
\* Refusals, lost answers, a health check that fails, and mode switches.
Faulty == Session({"down", "lost"}, TRUE, {"toggle", "save", "override", "simulate", "switch"},
                  {"over"}, 2, 1, 0)
\* Reloads between commands.
Reloaded == Session({"down"}, TRUE, {"toggle", "save", "browse", "reload"}, {"high"}, 2, 1, 1)
\* A mode switch while a command is in flight, and loads that overlap.
Switched == Session({"lost"}, FALSE, {"toggle", "switch"}, {}, 1, 1, 0)
Overlapping == Session({}, FALSE, {"browse"}, {}, 0, 2, 0)

\* Mode switches between the commands of an operator who waits.
Moved == Session({}, TRUE, {"toggle", "save", "override", "simulate", "switch"}, {"high"}, 2, 1, 0)

AllSessions == {Calm, Hasty, Faulty, Reloaded, Switched, Overlapping, Moved}
LostAnswers == {Session({"lost"}, TRUE, {"toggle", "browse"}, {}, 1, 1, 0)}
=============================================================================
