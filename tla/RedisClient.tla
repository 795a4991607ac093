----------------------------- MODULE RedisClient -----------------------------
(***************************************************************************)
(* The engine's Redis client: one connection, one command at a time under  *)
(* a mutex, one reconnect and retry.  The health and readiness probes ping *)
(* through it.  Callers count actions with IncrCounter, which the package  *)
(* exports and nothing in the engine calls yet.  The connection may break  *)
(* before a command is executed or between its execution and its reply.    *)
(* The server may also fall silent: its connections stay open and nothing  *)
(* is executed or answered.  The client reads with no deadline and under   *)
(* its mutex, so a silence holds up the command and everyone behind it.    *)
(***************************************************************************)
EXTENDS Naturals, FiniteSets

CONSTANTS
  Probe, Caller, None,
  MaxCalls   \* bound on the calls of IncrCounter

RedisClientAssumption ==
  /\ Probe \cap Caller = {} /\ None \notin Probe \cup Caller
  /\ MaxCalls \in Nat

Process == Probe \cup Caller

VARIABLES
  server,       \* "up", "down" or "silent"
  conn, alive,  \* the connection ("none", "open", "closed" by the server), and the flag
  holder,       \* of the mutex
  pc, command,  \* of each process
  shown,        \* the "redis" field of the last probe
  value, ttl,   \* the counter, and whether it expires
  calls, acks   \* IncrCounter calls, and the increments acknowledged in this window

vars == <<server, conn, alive, holder, pc, command, shown, value, ttl, calls, acks>>
client == <<conn, alive, holder>>
counter == <<value, ttl>>

Goto(p, place) == pc' = [pc EXCEPT ![p] = place]

\* redisStatus: a client that is not alive is not pinged.
StartProbe(p) ==
  /\ p \in Probe /\ pc[p] = "idle" /\ Goto(p, "available")
  /\ UNCHANGED <<server, client, command, shown, counter, calls, acks>>
Available(p) ==
  /\ pc[p] = "available" /\ holder = None
  /\ IF alive THEN Goto(p, "wait") /\ command' = [command EXCEPT ![p] = "PING"] /\ UNCHANGED shown
              ELSE Goto(p, "idle") /\ shown' = "down" /\ UNCHANGED command
  /\ UNCHANGED <<server, client, counter, calls, acks>>

IncrCounter(p) ==
  /\ p \in Caller /\ pc[p] = "idle" /\ calls < MaxCalls /\ calls' = calls + 1
  /\ Goto(p, "wait") /\ command' = [command EXCEPT ![p] = "INCR"]
  /\ UNCHANGED <<server, client, shown, counter, acks>>

\* The command returns and the mutex is released.  The first increment of a window sets
\* the time to live.
Answer(p, ok) ==
  LET n == IF command[p] = "INCR" THEN value' ELSE 0
      expires == ok /\ n = 1 IN
  /\ Goto(p, IF expires THEN "wait" ELSE "idle")
  /\ command' = [command EXCEPT ![p] = IF expires THEN "EXPIRE" ELSE @]
  /\ shown' = IF command[p] = "PING" THEN (IF ok THEN "ok" ELSE "down") ELSE shown
  /\ acks' = IF command[p] = "INCR" /\ ok THEN acks + 1 ELSE acks
Return(p, ok) == holder' = None /\ Answer(p, ok)

\* A server that is down refuses a dial.  A silent one may accept it, or the dial times out.
CanDial == server # "down"
DialFails == server # "up"

\* do: without a connection it dials first.
Acquire(p) ==
  /\ pc[p] = "wait" /\ holder = None
  /\ \/ conn # "none" /\ holder' = p /\ Goto(p, "first") /\ UNCHANGED <<conn, alive, command, shown, acks>>
     \/ conn = "none" /\ CanDial
        /\ conn' = "open" /\ alive' = TRUE /\ holder' = p /\ Goto(p, "first")
        /\ UNCHANGED <<command, shown, acks>>
     \/ conn = "none" /\ DialFails
        /\ alive' = FALSE /\ Return(p, FALSE) /\ UNCHANGED conn
  /\ UNCHANGED <<server, counter, calls>>

\* What the server does with a command.
Executed(p) ==
  /\ value' = IF command[p] = "INCR" THEN value + 1 ELSE value
  /\ ttl' = (ttl \/ (command[p] = "EXPIRE" /\ value > 0))

Succeed(p) ==
  /\ pc[p] \in {"first", "retry"} /\ conn = "open" /\ server = "up"
  /\ Executed(p) /\ Return(p, TRUE)
  /\ UNCHANGED <<server, conn, alive, calls>>

\* A transport error: the connection was gone, or it goes before the reply.
Error(p) ==
  \/ (conn = "closed" \/ server = "down") /\ UNCHANGED counter
  \/ conn = "open" /\ server = "up" /\ Executed(p)

\* The first error: reconnect, and the command is sent once more.
FailFirst(p) ==
  /\ pc[p] = "first" /\ Error(p)
  /\ \/ CanDial /\ conn' = "open" /\ alive' = TRUE /\ Goto(p, "retry")
        /\ UNCHANGED <<holder, command, shown, acks>>
     \/ DialFails /\ conn' = "none" /\ alive' = FALSE /\ Return(p, FALSE)
  /\ UNCHANGED <<server, calls>>

FailRetrySwallowed(p) ==
  /\ pc[p] = "retry" /\ Error(p) /\ conn' = "closed" /\ alive' = FALSE
  /\ Return(p, TRUE)
  /\ UNCHANGED <<server, calls>>
\* The second error is the caller's.
FailRetry(p) ==
  /\ pc[p] = "retry" /\ Error(p) /\ conn' = "closed" /\ alive' = FALSE
  /\ Return(p, FALSE)
  /\ UNCHANGED <<server, calls>>

\* The server stops, restarts, falls silent or comes back; a connection breaks or is closed.
ServerChanges ==
  /\ server' \in {"up", "down", "silent"} \ {server}
  /\ conn' = IF conn = "open" /\ server' = "down" THEN "closed" ELSE conn
  /\ UNCHANGED <<alive, holder, pc, command, shown, counter, calls, acks>>
CloseIdle ==
  /\ server # "down" /\ conn = "open" /\ conn' = "closed"
  /\ UNCHANGED <<server, alive, holder, pc, command, shown, counter, calls, acks>>
ExpireWindow ==
  /\ ttl /\ value' = 0 /\ ttl' = FALSE /\ acks' = 0
  /\ UNCHANGED <<server, client, pc, command, shown, calls>>

Init ==
  /\ server \in {"up", "down", "silent"}
  /\ conn \in {"open", "none"} /\ alive = (conn = "open")
  /\ IF alive THEN CanDial ELSE DialFails
  /\ holder = None
  /\ pc = [p \in Process |-> "idle"] /\ command = [p \in Process |-> "PING"]
  /\ shown = "none" /\ value = 0 /\ ttl = FALSE /\ calls = 0 /\ acks = 0

Run(p) == Succeed(p) \/ FailFirst(p) \/ FailRetry(p)

Next ==
  \/ \E p \in Process :
       StartProbe(p) \/ Available(p) \/ IncrCounter(p) \/ Acquire(p) \/ Run(p)
  \/ ServerChanges \/ CloseIdle \/ ExpireWindow

Spec == Init /\ [][Next]_vars

\* The mutex is handed to everyone who waits, and probes go on.  A command ends if nothing
\* stands in its way: the server answers, or the connection is closed.  No command is assumed
\* to end while the server is silent.
FairSpec ==
  /\ Spec
  /\ \A p \in Process :
       /\ SF_vars(Available(p)) /\ SF_vars(Acquire(p)) /\ WF_vars(Run(p)) /\ WF_vars(StartProbe(p))

-----------------------------------------------------------------------------

(***************************************************************************)
(* However often connections break between a command and its reply, the    *)
(* counter holds at least what was acknowledged to the callers in its      *)
(* window and at most two for each call ever made: a call is repeated once *)
(* (redis.go, do).                                                         *)
(***************************************************************************)
CountedOnceOrTwice == acks <= value /\ value <= 2 * calls

\* A probe ends while Redis stops, restarts and drops connections.  Only a silent Redis holds
\* it up, itself or through the command that has the mutex (redis.go, do and readReply).
ProbesEnd == \A p \in Probe : pc[p] # "idle" ~> (pc[p] = "idle" \/ server = "silent")
=============================================================================
