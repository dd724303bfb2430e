------------------------------ MODULE Gateway ------------------------------
(***************************************************************************)
(* The life of gateway processes (cmd/proxygateway-api/main.go): they start *)
(* side by side and migrate the one database, serve, are told to stop, and  *)
(* may be killed at any time.  Composes Migrator, Relay and Readiness.      *)
(***************************************************************************)
EXTENDS Migrator, Relay, Readiness, FiniteSets

CONSTANT MaxRequests  \* bound: calls and probes that are begun, in all

VARIABLES
  phase,   \* where main is, in each process
  opened   \* the stores it could open

gatewayVars == <<phase, opened, call, probe, migVars>>

Stores == {"database", "redis"}

Init ==
  /\ MigInit
  /\ call = [c \in Calls |-> NoCall]
  /\ probe = NoProbe
  /\ phase = [i \in Instances |-> "down"]
  /\ opened = [i \in Instances |-> {}]

Enter(i, p) == phase' = [phase EXCEPT ![i] = p]

\* The requests that process i is serving.
CallsOn(i) == {c \in Calls : Relaying(c) /\ call[c].on = i}
Idle(i) == CallsOn(i) = {} /\ ~(Probing /\ probe.on = i)

Requests == Cardinality({c \in Calls : call[c].pc # "new"})
              + (IF probe.pc = "idle" THEN 0 ELSE 1)

-----------------------------------------------------------------------------

\* main loads its configuration and opens the database, if it can; where there is
\* a migrations directory, it migrates.
Start(i) ==
  /\ phase[i] = "down"
  /\ \/ /\ Enter(i, "migrating") /\ MigStart(i)
        /\ opened' = [opened EXCEPT ![i] = {"database"}]
     \/ /\ Enter(i, "starting") /\ UNCHANGED migVars
        /\ opened' \in {opened, [opened EXCEPT ![i] = {"database"}]}
  /\ UNCHANGED <<call, probe>>

Migrate(i) == MigStep(i) /\ UNCHANGED <<phase, opened, call, probe>>

\* A migration that failed is only warned about, and so is a Redis URL that does not
\* parse.  Then the server listens.
Serve(i) ==
  /\ phase[i] = "starting" \/ (phase[i] = "migrating" /\ mig[i].pc \in {"ok", "failed"})
  /\ Enter(i, "serving")
  /\ opened' \in {opened, [opened EXCEPT ![i] = @ \cup {"redis"}]}
  /\ MigStop(i)
  /\ UNCHANGED <<call, probe>>

BeginCall(i) ==
  /\ phase[i] = "serving" /\ Requests < MaxRequests
  /\ \E c \in Calls, stream, sized \in BOOLEAN : RelayStart(c, i, stream, sized)
  /\ UNCHANGED <<phase, opened, probe, migVars>>

BeginProbe(i) ==
  /\ phase[i] = "serving" /\ Requests < MaxRequests
  /\ ProbeStart(i, opened[i])
  /\ UNCHANGED <<phase, opened, call, migVars>>

\* SIGTERM while serving: srv.Shutdown takes no new requests.
Signal(i) ==
  /\ phase[i] = "serving"
  /\ Enter(i, "draining")
  /\ UNCHANGED <<opened, call, probe, migVars>>

\* The process is gone, and with it what it was doing.
Die(i) ==
  /\ Enter(i, "down")
  /\ opened' = [opened EXCEPT ![i] = {}]
  /\ call' = [c \in Calls |->
       IF c \in CallsOn(i) THEN [NoCall EXCEPT !.pc = "done", !.end = "lost"] ELSE call[c]]
  /\ probe' = IF Probing /\ probe.on = i THEN NoProbe ELSE probe
  /\ MigStop(i)

StopGracefully(i) == phase[i] = "draining" /\ Idle(i) /\ Die(i)

\* Wrong on purpose: Shutdown waits for its requests without a limit.
StopWhenIdle(i) == phase[i] = "draining" /\ Idle(i) /\ Die(i)

\* The ShutdownTimeout is over: main returns without its requests.
StopForced(i) == phase[i] = "draining" /\ Die(i)

\* ListenAndServe returns an error.
ListenFails(i) == phase[i] = "serving" /\ Die(i)

\* A crash, a SIGKILL, or a SIGTERM before main asks to be told of it.
Kill(i) == phase[i] # "down" /\ Die(i)

Copying == \E c \in Calls : RelayStep(c) /\ UNCHANGED <<phase, opened, probe, migVars>>
Probe == ProbeStep /\ UNCHANGED <<phase, opened, call, migVars>>
Database == OrphanEnds /\ UNCHANGED <<phase, opened, call, probe>>
Outside ==
  \E c \in Calls : RelayEnvironment(c) /\ UNCHANGED <<phase, opened, probe, migVars>>

Next ==
  \/ \E i \in Instances :
       \/ Start(i) \/ Migrate(i) \/ Serve(i) \/ BeginCall(i) \/ BeginProbe(i)
       \/ Signal(i) \/ StopGracefully(i) \/ StopForced(i) \/ ListenFails(i) \/ Kill(i)
  \/ Copying \/ Probe \/ Database \/ Outside

Spec == Init /\ [][Next]_gatewayVars

\* A process goes on with what it is doing, and its two time limits, of RunMigrations
\* and of Shutdown, pass.  Nothing is assumed of the database, the upstream or clients.
FairSpec ==
  /\ Spec
  /\ \A i \in Instances :
       WF_gatewayVars(Migrate(i)) /\ WF_gatewayVars(Serve(i)) /\ WF_gatewayVars(StopForced(i))

-----------------------------------------------------------------------------

GatewayTypeOK ==
  /\ MigTypeOK /\ RelayTypeOK
  /\ phase \in [Instances -> {"down", "starting", "migrating", "serving", "draining"}]
  /\ opened \in [Instances -> SUBSET Stores]
  /\ \A i \in Instances :
       /\ mig[i].pc # "off" <=> phase[i] = "migrating"
       /\ ~Idle(i) => phase[i] \in {"serving", "draining"}

(***************************************************************************)
(* A process that starts serves in the end, whatever the database is like   *)
(* and whoever's transaction it waits for: the 30 s of main.go:59.  One     *)
(* that is told to stop does, though an upstream hangs and the data plane   *)
(* waits for it without a limit: the ShutdownTimeout of main.go:145.        *)
(***************************************************************************)
StartsAndStopsEnd ==
  \A i \in Instances :
    /\ phase[i] \in {"starting", "migrating"} ~> phase[i] \in {"serving", "down"}
    /\ phase[i] = "draining" ~> phase[i] = "down"
=============================================================================
