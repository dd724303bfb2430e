------------------------------ MODULE Breaker ------------------------------
(***************************************************************************)
(* The circuit breaker's table, internal/routing/circuit.go, as operators  *)
(* on the map cb.targets.  A table is a partial function from targets to   *)
(* [failures, state, quiet]: a target that never failed has no entry.      *)
(* Each operator is one method under cb.mu, so it is one atomic step.      *)
(*                                                                         *)
(* Two data abstractions, both exact for every answer the breaker gives:   *)
(*   quiet    stands for time.Since(lastFailureTime), and stops growing at *)
(*            CooldownDuration (the code only asks whether it got there);  *)
(*   failures stops growing at FailureCap >= FailureThreshold (the code    *)
(*            only asks whether it reached the threshold).                 *)
(***************************************************************************)
EXTENDS Integers

CONSTANTS
  FailureThreshold,   \* cfg.FailureThreshold, after the default of 5
  CooldownDuration,   \* cfg.CooldownDuration in ticks, after the default of 30s
  FailureCap          \* bound: where the failure counter saturates

\* NewCircuitBreaker replaces a threshold or a cooldown that is not positive.
ASSUME BreakerAssumption ==
  /\ FailureThreshold \in Nat \ {0}
  /\ CooldownDuration \in Nat \ {0}
  /\ FailureCap \in Nat
  /\ FailureCap >= FailureThreshold

CircuitStates == {"CLOSED", "OPEN", "HALF_OPEN"}

TargetState == [failures : 0..FailureCap,
                state    : CircuitStates,
                quiet    : 0..CooldownDuration]

\* The tables over a set T of targets.
Tables(T) == UNION {[D -> TargetState] : D \in SUBSET T}

\* An empty cb.targets.
EmptyTable == [t \in {} |-> [failures |-> 0, state |-> "CLOSED", quiet |-> 0]]

Tripped(tab, t) == t \in DOMAIN tab /\ tab[t].state = "OPEN"

CooledDown(tab, t) == tab[t].quiet >= CooldownDuration

\* Allow: its answer, and the table it leaves behind.
Allows(tab, t) == Tripped(tab, t) => CooledDown(tab, t)

\* Wrong on purpose: admitting a probe already forgets the failures.
AfterAllowForgets(tab, t) ==
  IF Tripped(tab, t) /\ CooledDown(tab, t)
    THEN [tab EXCEPT ![t].state = "HALF_OPEN", ![t].failures = 0]
    ELSE tab

AfterAllow(tab, t) ==
  IF Tripped(tab, t) /\ CooledDown(tab, t)
    THEN [tab EXCEPT ![t].state = "HALF_OPEN"]
    ELSE tab

\* Wrong on purpose: a success takes one failure back instead of all of them.
AfterSuccessTakesOneBack(tab, t) ==
  IF t \in DOMAIN tab
    THEN [tab EXCEPT ![t].failures = @ - 1, ![t].state = "CLOSED"]
    ELSE tab

\* Wrong on purpose: the failures survive the success.
AfterSuccessKeepsCount(tab, t) ==
  IF t \in DOMAIN tab THEN [tab EXCEPT ![t].state = "CLOSED"] ELSE tab

\* Wrong on purpose: a success forgets the failures and leaves the circuit as it is.
AfterSuccessKeepsState(tab, t) ==
  IF t \in DOMAIN tab THEN [tab EXCEPT ![t].failures = 0] ELSE tab

\* RecordSuccess: forgets the failures of a target that has an entry.
AfterSuccess(tab, t) ==
  IF t \in DOMAIN tab
    THEN [tab EXCEPT ![t] = [failures |-> 0, state |-> "CLOSED", quiet |-> tab[t].quiet]]
    ELSE tab

OneMore(n) == IF n < FailureCap THEN n + 1 ELSE n

\* The failures, and the state before the failure, of a target that may have no entry.
FailuresOf(tab, t) == IF t \in DOMAIN tab THEN tab[t].failures ELSE 0
StateOf(tab, t) == IF t \in DOMAIN tab THEN tab[t].state ELSE "CLOSED"

\* RecordFailure: counts, restarts the cooldown, trips at the threshold.
AfterFailure(tab, t) ==
  LET count == OneMore(FailuresOf(tab, t))
      entry == [failures |-> count,
                state    |-> IF count >= FailureThreshold THEN "OPEN"
                                                          ELSE StateOf(tab, t),
                quiet    |-> 0]
  IN  [u \in DOMAIN tab \cup {t} |-> IF u = t THEN entry ELSE tab[u]]

\* RecordResult of internal/routing/engine.go.
AfterResult(tab, t, success) ==
  IF success THEN AfterSuccess(tab, t) ELSE AfterFailure(tab, t)

\* Wrong on purpose: a reader is told the stored state, whatever the clock says.
ReportedStateStored(tab, t) == StateOf(tab, t)

\* GetState: the state a reader is told.
ReportedState(tab, t) ==
  IF Tripped(tab, t) /\ CooledDown(tab, t) THEN "HALF_OPEN" ELSE StateOf(tab, t)

\* One tick of the clock that Allow and GetState read.
OneTickLater(n) == IF n < CooldownDuration THEN n + 1 ELSE n
AfterTick(tab) ==
  [t \in DOMAIN tab |-> [tab[t] EXCEPT !.quiet = OneTickLater(@)]]

-----------------------------------------------------------------------------

\* What module BreakerContract sees of a table over the targets T: failures since the last
\* success, and the time since the last of them.
Streaks(T, tab) == [t \in T |-> FailuresOf(tab, t)]
QuietTimes(T, tab) == [t \in T |-> IF FailuresOf(tab, t) > 0 THEN tab[t].quiet ELSE 0]
=============================================================================
