-------------------------- MODULE BreakerContract --------------------------
(***************************************************************************)
(* What the circuit breaker promises its callers, without saying how: a     *)
(* target is refused exactly while its last FailureThreshold or more        *)
(* reported results are all failures and the latest of them is less than    *)
(* CooldownDuration ago.  There is no circuit state: whether somebody       *)
(* already probed the target makes no difference to the next caller.        *)
(***************************************************************************)
EXTENDS Integers

CONSTANTS Targets, Callers, NoTarget, FailureThreshold, CooldownDuration, FailureCap

VARIABLES
  streak,      \* failures reported for each target since its last reported success
  quiet,       \* ticks since the last failure of that streak, up to CooldownDuration
  phase, aim   \* the callers

vars == <<streak, quiet, phase, aim>>

Refused(t) == streak[t] >= FailureThreshold /\ quiet[t] < CooldownDuration

Init ==
  /\ streak = [t \in Targets |-> 0]
  /\ quiet = [t \in Targets |-> 0]
  /\ phase = [c \in Callers |-> "idle"]
  /\ aim = [c \in Callers |-> NoTarget]

\* Asking changes nothing but the caller.
Ask(c) ==
  /\ phase[c] = "idle"
  /\ \E t \in Targets :
       /\ phase' = [phase EXCEPT ![c] = IF Refused(t) THEN "refused" ELSE "admitted"]
       /\ aim' = [aim EXCEPT ![c] = t]
  /\ UNCHANGED <<streak, quiet>>

Leave(c) ==
  /\ phase[c] \in {"admitted", "refused"}
  /\ phase' = [phase EXCEPT ![c] = "idle"]
  /\ aim' = [aim EXCEPT ![c] = NoTarget]
  /\ UNCHANGED <<streak, quiet>>

Answer(c) ==
  /\ phase[c] = "admitted"
  /\ \E result \in {"succeeded", "failed"} : phase' = [phase EXCEPT ![c] = result]
  /\ UNCHANGED <<streak, quiet, aim>>

Finish(c) ==
  /\ phase' = [phase EXCEPT ![c] = "idle"]
  /\ aim' = [aim EXCEPT ![c] = NoTarget]

ReportSuccess(c) ==
  /\ phase[c] = "succeeded"
  /\ Finish(c)
  /\ streak' = [streak EXCEPT ![aim[c]] = 0]
  /\ quiet' = [quiet EXCEPT ![aim[c]] = 0]

ReportFailure(c) ==
  /\ phase[c] = "failed"
  /\ Finish(c)
  /\ streak' = [streak EXCEPT ![aim[c]] = IF @ < FailureCap THEN @ + 1 ELSE @]
  /\ quiet' = [quiet EXCEPT ![aim[c]] = 0]

Tick ==
  /\ quiet' = [t \in Targets |->
                 IF streak[t] > 0 /\ quiet[t] < CooldownDuration THEN quiet[t] + 1 ELSE quiet[t]]
  /\ UNCHANGED <<streak, phase, aim>>

\* A caller's step takes it elsewhere.  (That follows from the step: said first, it saves TLC
\* from comparing whole functions to see that a step is none of c's.)
Next ==
  \/ Tick
  \/ \E c \in Callers :
       /\ phase'[c] # phase[c]
       /\ Ask(c) \/ Leave(c) \/ Answer(c) \/ ReportSuccess(c) \/ ReportFailure(c)

Spec == Init /\ [][Next]_vars
=============================================================================
