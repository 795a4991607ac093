------------------------------ MODULE MCIngest ------------------------------
(***************************************************************************)
(* Ingestion, the landing page's trigger and the Redis client share no     *)
(* state.  A behaviour is one of theirs: running names the component that  *)
(* takes steps, and the others stay as they start.                         *)
(***************************************************************************)
EXTENDS Ingest, TLC

CONSTANTS Probe, Caller, MaxCalls, MaxEvents

VARIABLES
  running,
  step, isPlaying, backendStatus, isSimulating, customLog, posted, request, up, stored,
  server, conn, alive, holder, at, command, shown, value, ttl, calls, acks

Demo == INSTANCE DemoTrigger
Redis == INSTANCE RedisClient WITH pc <- at

\* The values of the configuration are ones the components allow.
ASSUME ComponentsAssumption == Demo!DemoTriggerAssumption /\ Redis!RedisClientAssumption

trigger == <<step, isPlaying, backendStatus, isSimulating, customLog, posted, request, up, stored>>
client == <<server, conn, alive, holder, at, command, shown, value, ttl, calls, acks>>
all == <<running, vars, trigger, client>>

Start ==
  /\ running \in {"ingest", "demo", "redis"}
  /\ Init /\ Demo!Init /\ Redis!Init
  /\ (running # "demo" => up) /\ (running # "redis" => server = "up")

Step ==
  \/ /\ running = "ingest" /\ Next /\ UNCHANGED <<running, trigger, client>>
  \/ /\ running = "demo" /\ Demo!Next /\ UNCHANGED <<running, vars, client>>
  \/ /\ running = "redis" /\ Redis!Next /\ UNCHANGED <<running, vars, trigger>>

\* The fairness of the three modules, each for the behaviours of its own.
Behaviours ==
  /\ Start /\ [][Step]_all
  /\ \A d \in Delivery : WF_vars(running = "ingest" /\ Statement(d))
  /\ WF_trigger(running = "demo" /\ Demo!TimedOut)
  /\ \A p \in Redis!Process :
       /\ SF_client(running = "redis" /\ Redis!Available(p))
       /\ SF_client(running = "redis" /\ Redis!Acquire(p))
       /\ WF_client(running = "redis" /\ Redis!Run(p))

\* Redis counts what is asked of it (RedisClient).
CountedOnceOrTwice == Redis!CountedOnceOrTwice

\* What the demonstration shows as ingested was stored (DemoTrigger).
ShownIngestedWasStored == Demo!ShownIngestedWasStored

\* Every delivery that began ends, the demonstration's button returns from "Ingesting
\* Webhook...", and a probe of Redis ends unless Redis falls silent meanwhile.
EverythingEnds ==
  /\ DeliveriesEnd
  /\ Demo!TriggerReturns
  /\ Redis!ProbesEnd

=============================================================================
