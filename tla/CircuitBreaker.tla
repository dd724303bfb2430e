--------------------------- MODULE CircuitBreaker ---------------------------
(***************************************************************************)
(* The circuit breaker under concurrent callers.  A caller (a request being *)
(* served) asks for a target, and if it was admitted either sends an        *)
(* attempt, whose result it reports some time later, or drops the           *)
(* permission without a report: Resolve asks for every target of an alias,  *)
(* and a request may be refused by policy, rate limit or quota after it, or *)
(* succeed before it needs that fallback.  Between two steps of one caller  *)
(* any number of steps of the others happen, so a report may arrive long    *)
(* after the circuit has changed under it.                                  *)
(***************************************************************************)
EXTENDS Breaker

CONSTANTS
  Targets,     \* model ids, the breaker's keys
  Callers,     \* concurrent requests
  NoTarget     \* what a caller that holds no permission aims at

ASSUME CallerAssumption == NoTarget \notin Targets

VARIABLES
  targets,     \* cb.targets
  phase,       \* where each caller is
  aim,         \* the target it asked for
  up           \* external: which upstream models answer now

vars == <<targets, phase, aim, up>>

Phases == {"idle", "admitted", "refused", "succeeded", "failed"}

TypeOK ==
  /\ targets \in Tables(Targets)
  /\ phase \in [Callers -> Phases]
  /\ aim \in [Callers -> Targets \cup {NoTarget}]
  /\ \A c \in Callers : phase[c] # "idle" => aim[c] \in Targets
  /\ up \in [Targets -> BOOLEAN]

Init ==
  /\ targets = EmptyTable
  /\ phase = [c \in Callers |-> "idle"]
  /\ aim = [c \in Callers |-> NoTarget]
  /\ up = [t \in Targets |-> TRUE]

-----------------------------------------------------------------------------

\* Allow, called by Resolve.
Ask(c, t) ==
  /\ phase[c] = "idle"
  /\ phase' = [phase EXCEPT ![c] = IF Allows(targets, t) THEN "admitted" ELSE "refused"]
  /\ aim' = [aim EXCEPT ![c] = t]
  /\ targets' = AfterAllow(targets, t)
  /\ UNCHANGED up

\* The caller leaves without a report: refused, or admitted and never sent.
Leave(c) ==
  /\ phase[c] \in {"admitted", "refused"}
  /\ phase' = [phase EXCEPT ![c] = "idle"]
  /\ aim' = [aim EXCEPT ![c] = NoTarget]
  /\ UNCHANGED <<targets, up>>

\* The upstream answers the attempt; the answer is on its way to the caller.
Answer(c) ==
  /\ phase[c] = "admitted"
  /\ phase' = [phase EXCEPT ![c] = IF up[aim[c]] THEN "succeeded" ELSE "failed"]
  /\ UNCHANGED <<targets, aim, up>>

\* RecordResult, called by the data plane's attempt loop.
Report(c) ==
  /\ phase[c] \in {"succeeded", "failed"}
  /\ targets' = AfterResult(targets, aim[c], phase[c] = "succeeded")
  /\ phase' = [phase EXCEPT ![c] = "idle"]
  /\ aim' = [aim EXCEPT ![c] = NoTarget]
  /\ UNCHANGED up

\* The clock moves for every target at once.
Tick ==
  /\ targets' = AfterTick(targets)
  /\ UNCHANGED <<phase, aim, up>>

\* The upstream model goes down or comes back.
Toggle(t) ==
  /\ up' = [up EXCEPT ![t] = ~@]
  /\ UNCHANGED <<targets, phase, aim>>

Next ==
  \/ \E c \in Callers, t \in Targets : Ask(c, t)
  \/ \E c \in Callers : Leave(c) \/ Answer(c) \/ Report(c)
  \/ Tick
  \/ \E t \in Targets : Toggle(t)

Spec == Init /\ [][Next]_vars

\* The gateway's own steps are never delayed for ever, and time passes.
Scheduling ==
  /\ WF_vars(Tick)
  /\ \A c \in Callers : WF_vars(Leave(c) /\ phase[c] = "refused") /\ WF_vars(Report(c))

\* Requests for t keep coming, and not all of them are dropped before they are sent.
Traffic(t) ==
  /\ SF_vars(\E c \in Callers : Ask(c, t))
  /\ SF_vars(\E c \in Callers : aim[c] = t /\ Answer(c))

FairSpec == Spec /\ Scheduling /\ \A t \in Targets : Traffic(t)

-----------------------------------------------------------------------------

(***************************************************************************)
(* The failure count decides the state: a circuit is CLOSED exactly while   *)
(* its count of failures since the last success is below the threshold, so  *)
(* a single failure reported in HALF_OPEN reopens it (circuit.go:107-112),  *)
(* and HALF_OPEN is only ever entered, and stays, past the cooldown.        *)
(***************************************************************************)
CountDecidesState ==
  \A t \in DOMAIN targets :
    /\ targets[t].state = "CLOSED" <=> targets[t].failures < FailureThreshold
    /\ targets[t].state = "HALF_OPEN" => targets[t].quiet = CooldownDuration

(***************************************************************************)
(* What GetState tells (circuit.go:116-130) is what Allow does: a target is *)
(* reported OPEN exactly when a request for it would be refused.            *)
(***************************************************************************)
ReportMatchesAdmission ==
  \A t \in Targets : ReportedState(targets, t) = "OPEN" <=> ~Allows(targets, t)

(***************************************************************************)
(* The breaker as its callers see it: BreakerContract, without the three    *)
(* states.  HALF_OPEN is not needed to predict a single answer.             *)
(***************************************************************************)
Contract == INSTANCE BreakerContract WITH
  streak <- Streaks(Targets, targets),
  quiet  <- QuietTimes(Targets, targets)

ImplementsContract == Contract!Spec

(***************************************************************************)
(* Recovery: once an upstream model answers for good, its circuit closes    *)
(* for good.  No order of late failures, probes that were admitted and      *)
(* dropped, and refused callers leaves the target shut out for ever.        *)
(***************************************************************************)
Recovers ==
  \A t \in Targets : <>[]up[t] => <>[](StateOf(targets, t) = "CLOSED")
=============================================================================
