------------------------ MODULE CircuitBreakerProofs ------------------------
(***************************************************************************)
(* Proofs about CircuitBreaker for every set of targets and callers, every  *)
(* threshold and every cooldown: its type, the inductive invariant that     *)
(* ties the state to the failure count, and that it implements              *)
(* BreakerContract.                                                         *)
(***************************************************************************)
EXTENDS CircuitBreaker, BreakerProofs

\* Types: every reachable state has the shape the code's variables have.
THEOREM TypeCorrect == Spec => []TypeOK
<1>1. Init => TypeOK
  BY DEF Init, TypeOK, Tables, EmptyTable, Phases
<1>2. TypeOK /\ [Next]_vars => TypeOK'
  <2> SUFFICES ASSUME TypeOK, [Next]_vars PROVE TypeOK'
    OBVIOUS
  <2> USE DEF TypeOK, Phases
  <2>1. ASSUME NEW c \in Callers, NEW t \in Targets, Ask(c, t) PROVE TypeOK'
    BY <2>1, OpsKeepTables DEF Ask
  <2>2. ASSUME NEW c \in Callers, Leave(c) PROVE TypeOK'
    BY <2>2 DEF Leave
  <2>3. ASSUME NEW c \in Callers, Answer(c) PROVE TypeOK'
    BY <2>3 DEF Answer
  <2>4. ASSUME NEW c \in Callers, Report(c) PROVE TypeOK'
    <3>1. aim[c] \in Targets
      BY <2>4 DEF Report
    <3>2. targets' \in Tables(Targets)
      BY <2>4, <3>1, OpsKeepTables DEF Report
    <3> QED BY <2>4, <3>2 DEF Report
  <2>5. CASE Tick
    <3>1. targets' \in Tables(Targets)
      BY <2>5, TickKeepsTables DEF Tick
    <3> QED BY <2>5, <3>1 DEF Tick
  <2>6. ASSUME NEW t \in Targets, Toggle(t) PROVE TypeOK'
    BY <2>6 DEF Toggle
  <2>7. CASE UNCHANGED vars
    BY <2>7 DEF vars
  <2> QED BY <2>1, <2>2, <2>3, <2>4, <2>5, <2>6, <2>7 DEF Next
<1> QED BY <1>1, <1>2, PTL DEF Spec

-----------------------------------------------------------------------------

LEMMA CountDecidesIsConsistent == CountDecidesState <=> Consistent(targets)
  BY DEF CountDecidesState, Consistent

LEMMA ConsistentNext ==
  TypeOK /\ Consistent(targets) /\ [Next]_vars => Consistent(targets)'
<1> SUFFICES ASSUME TypeOK, Consistent(targets), [Next]_vars
             PROVE  Consistent(targets')
  BY DEF Consistent
<1>0. targets \in Tables(Targets)
  BY DEF TypeOK
<1>1. ASSUME NEW c \in Callers, NEW t \in Targets, Ask(c, t) PROVE Consistent(targets')
  BY <1>0, <1>1, AllowEffect DEF Ask
<1>2. ASSUME NEW c \in Callers, Leave(c) \/ Answer(c) PROVE Consistent(targets')
  BY <1>2 DEF Leave, Answer
<1>3. ASSUME NEW c \in Callers, Report(c) PROVE Consistent(targets')
  <2>1. aim[c] \in Targets
    BY <1>3 DEF Report, TypeOK, Phases
  <2>2. Consistent(AfterSuccess(targets, aim[c])) /\ Consistent(AfterFailure(targets, aim[c]))
    BY <1>0, <2>1, SuccessEffect, FailureEffect
  <2> QED BY <1>3, <2>2 DEF Report, AfterResult
<1>4. CASE Tick
  BY <1>0, <1>4, TickEffect DEF Tick
<1>5. ASSUME NEW t \in Targets, Toggle(t) PROVE Consistent(targets')
  BY <1>5 DEF Toggle
<1>6. CASE UNCHANGED vars
  BY <1>6 DEF vars
<1> QED BY <1>1, <1>2, <1>3, <1>4, <1>5, <1>6 DEF Next

(***************************************************************************)
(* For any number of callers and in any order of their reports, a circuit   *)
(* is CLOSED exactly while its failure count is below the threshold, and    *)
(* HALF_OPEN only past the cooldown.                                        *)
(***************************************************************************)
THEOREM CountDecides == Spec => []CountDecidesState
<1>1. Init => Consistent(targets)
  BY DEF Init, EmptyTable, Consistent
<1>2. TypeOK /\ Consistent(targets) /\ [Next]_vars => Consistent(targets)'
  BY ConsistentNext
<1>3. Spec => []Consistent(targets)
  BY <1>1, <1>2, TypeCorrect, PTL DEF Spec
<1>4. Consistent(targets) => CountDecidesState
  BY CountDecidesIsConsistent
<1> QED BY <1>3, <1>4, PTL

-----------------------------------------------------------------------------

(***************************************************************************)
(* A reader is told OPEN exactly of the targets that are refused, also at   *)
(* the instant the cooldown ends: two methods compare the same times.       *)
(***************************************************************************)
THEOREM ReportMatches == Spec => []ReportMatchesAdmission
<1>1. ReportMatchesAdmission
  <2> SUFFICES ASSUME NEW t \in Targets
               PROVE  ReportedState(targets, t) = "OPEN" <=> ~Allows(targets, t)
    BY DEF ReportMatchesAdmission
  <2>1. CASE Tripped(targets, t) /\ CooledDown(targets, t)
    BY <2>1 DEF ReportedState, Allows
  <2>2. CASE ~(Tripped(targets, t) /\ CooledDown(targets, t))
    BY <2>2 DEF ReportedState, Allows, Tripped, StateOf
  <2> QED
    BY <2>1, <2>2
<1> QED
  BY <1>1, PTL

-----------------------------------------------------------------------------

(***************************************************************************)
(* The breaker implements its contract: every step is a step of             *)
(* BreakerContract, so a target is refused exactly while its last           *)
(* FailureThreshold results are failures and its cooldown is not over.      *)
(***************************************************************************)
THEOREM Implements == Spec => ImplementsContract
<1>1. Init => Contract!Init
  BY DEF Init, Contract!Init, EmptyTable, FailuresOf, Streaks, QuietTimes
<1>2. TypeOK /\ Consistent(targets) /\ [Next]_vars => [Contract!Next]_(Contract!vars)
  <2> SUFFICES ASSUME TypeOK, Consistent(targets), [Next]_vars
               PROVE  [Contract!Next]_(Contract!vars)
    OBVIOUS
  <2>0. targets \in Tables(Targets)
    BY DEF TypeOK
  <2>1. ASSUME NEW c \in Callers, NEW t \in Targets, Ask(c, t)
        PROVE  phase'[c] # phase[c] /\ Contract!Ask(c)
    <3>1. targets' = AfterAllow(targets, t)
      BY <2>1 DEF Ask
    <3>2. /\ Streaks(Targets, targets') = Streaks(Targets, targets)
          /\ QuietTimes(Targets, targets') = QuietTimes(Targets, targets)
      BY <2>0, <3>1, AskMaps
    <3>3. Allows(targets, t) <=> ~Contract!Refused(t)
      BY <2>0, AskMaps DEF Contract!Refused, Streaks, QuietTimes
    <3> QED BY <2>1, <3>2, <3>3 DEF Ask, Contract!Ask, Streaks, QuietTimes, TypeOK
  <2>2. ASSUME NEW c \in Callers, Leave(c)
        PROVE  phase'[c] # phase[c] /\ Contract!Leave(c)
    BY <2>2 DEF Leave, Contract!Leave, TypeOK
  <2>3. ASSUME NEW c \in Callers, Answer(c)
        PROVE  phase'[c] # phase[c] /\ Contract!Answer(c)
    <3>1. CASE up[aim[c]]
      BY <2>3, <3>1 DEF Answer, Contract!Answer, TypeOK
    <3>2. CASE ~up[aim[c]]
      BY <2>3, <3>2 DEF Answer, Contract!Answer, TypeOK
    <3> QED
      BY <3>1, <3>2
  <2>4. ASSUME NEW c \in Callers, Report(c)
        PROVE  phase'[c] # phase[c] /\ (Contract!ReportSuccess(c) \/ Contract!ReportFailure(c))
    <3>1. aim[c] \in Targets
      BY <2>4 DEF Report, TypeOK, Phases
    <3>2. CASE phase[c] = "succeeded"
      <4>1. targets' = AfterSuccess(targets, aim[c])
        BY <2>4, <3>2 DEF Report, AfterResult
      <4>2. /\ Streaks(Targets, targets') = [Streaks(Targets, targets) EXCEPT ![aim[c]] = 0]
            /\ QuietTimes(Targets, targets') = [QuietTimes(Targets, targets) EXCEPT ![aim[c]] = 0]
        BY <2>0, <3>1, <4>1, SuccessMaps
      <4> QED BY <2>4, <3>2, <4>2 DEF Report, Contract!ReportSuccess, Contract!Finish,
                                      Streaks, QuietTimes, TypeOK
    <3>3. CASE phase[c] = "failed"
      <4>1. targets' = AfterFailure(targets, aim[c])
        BY <2>4, <3>3 DEF Report, AfterResult
      <4>2. /\ Streaks(Targets, targets') =
                 [Streaks(Targets, targets) EXCEPT ![aim[c]] = OneMore(@)]
            /\ QuietTimes(Targets, targets') = [QuietTimes(Targets, targets) EXCEPT ![aim[c]] = 0]
        BY <2>0, <3>1, <4>1, FailureMaps
      <4> QED BY <2>4, <3>3, <4>2 DEF Report, Contract!ReportFailure, Contract!Finish,
                                      Streaks, QuietTimes, OneMore, TypeOK
    <3> QED BY <2>4, <3>2, <3>3 DEF Report
  <2>5. CASE Tick
    <3>1. targets' = AfterTick(targets)
      BY <2>5 DEF Tick
    <3>2. /\ Streaks(Targets, targets') = Streaks(Targets, targets)
          /\ QuietTimes(Targets, targets') =
               [t \in Targets |-> IF Streaks(Targets, targets)[t] > 0
                                    THEN OneTickLater(QuietTimes(Targets, targets)[t])
                                    ELSE QuietTimes(Targets, targets)[t]]
      BY <2>0, <3>1, TickMaps
    <3>3. \A t \in Targets : /\ Streaks(Targets, targets)[t] = FailuresOf(targets, t)
                             /\ QuietTimes(Targets, targets)[t] = IF FailuresOf(targets, t) > 0
                                                      THEN targets[t].quiet ELSE 0
      BY DEF Streaks, QuietTimes
    <3>4. Contract!Tick
      BY <2>5, <3>2, <3>3 DEF Tick, Contract!Tick, Streaks, QuietTimes, OneTickLater
    <3> QED BY <3>4 DEF Contract!Next
  <2>6. ASSUME NEW t \in Targets, Toggle(t)
        PROVE  UNCHANGED Contract!vars
    BY <2>6 DEF Toggle, Contract!vars
  <2>7. CASE UNCHANGED vars
    BY <2>7 DEF vars, Contract!vars
  <2> QED BY <2>1, <2>2, <2>3, <2>4, <2>5, <2>6, <2>7 DEF Next, Contract!Next
<1>3. Spec => []Consistent(targets)
  <2>1. Init => Consistent(targets)
    BY DEF Init, EmptyTable, Consistent
  <2> QED BY <2>1, ConsistentNext, TypeCorrect, PTL DEF Spec
<1> QED BY <1>1, <1>2, <1>3, TypeCorrect, PTL DEF Spec, ImplementsContract, Contract!Spec
=============================================================================
