---------------------------- MODULE BreakerProofs ----------------------------
(***************************************************************************)
(* What the operators of module Breaker do to a table, over any set T of    *)
(* targets: they keep its type, they keep state and failure count in step,  *)
(* and each changes no more than its method says.                           *)
(***************************************************************************)
EXTENDS Breaker, TLAPS

\* Each operator under cb.mu turns a table into a table.
LEMMA OpsKeepTables ==
  ASSUME NEW T, NEW tab \in Tables(T), NEW t \in T, NEW ok \in BOOLEAN
  PROVE  /\ AfterAllow(tab, t) \in Tables(T)
         /\ AfterResult(tab, t, ok) \in Tables(T)
<1> USE BreakerAssumption
<1>0. PICK D \in SUBSET T : tab \in [D -> TargetState]
  BY DEF Tables
<1>1. DOMAIN tab = D
  BY <1>0
<1>2. \A u \in D : /\ tab[u].failures \in 0..FailureCap
                   /\ tab[u].state \in CircuitStates
                   /\ tab[u].quiet \in 0..CooldownDuration
  BY <1>0 DEF TargetState
<1>3. AfterAllow(tab, t) \in [D -> TargetState]
  BY <1>0, <1>1 DEF AfterAllow, Tripped, TargetState, CircuitStates
<1>4. AfterSuccess(tab, t) \in [D -> TargetState]
  <2>1. t \in D => [failures |-> 0, state |-> "CLOSED", quiet |-> tab[t].quiet] \in TargetState
    BY <1>2 DEF TargetState, CircuitStates
  <2> QED BY <1>0, <1>1, <2>1 DEF AfterSuccess
<1>5. AfterFailure(tab, t) \in [D \cup {t} -> TargetState]
  <2>1. FailuresOf(tab, t) \in 0..FailureCap /\ StateOf(tab, t) \in CircuitStates
    BY <1>1, <1>2 DEF FailuresOf, StateOf, CircuitStates
  <2>2. OneMore(FailuresOf(tab, t)) \in 0..FailureCap
    BY <2>1 DEF OneMore
  <2>3. [failures |-> OneMore(FailuresOf(tab, t)),
         state |-> IF OneMore(FailuresOf(tab, t)) >= FailureThreshold
                     THEN "OPEN" ELSE StateOf(tab, t),
         quiet |-> 0] \in TargetState
    BY <2>1, <2>2 DEF TargetState, CircuitStates
  <2> QED BY <1>0, <1>1, <2>3 DEF AfterFailure
<1> QED BY <1>3, <1>4, <1>5 DEF Tables, AfterResult

\* So does the clock.
LEMMA TickKeepsTables ==
  ASSUME NEW T, NEW tab \in Tables(T)
  PROVE  AfterTick(tab) \in Tables(T)
<1>0. PICK D \in SUBSET T : tab \in [D -> TargetState]
  BY DEF Tables
<1>1. ASSUME NEW u \in D
      PROVE  [tab[u] EXCEPT !.quiet = OneTickLater(@)] \in TargetState
  <2>1. tab[u] \in TargetState /\ tab[u].quiet \in 0..CooldownDuration
    BY <1>0 DEF TargetState
  <2>2. OneTickLater(tab[u].quiet) \in 0..CooldownDuration
    BY <2>1, BreakerAssumption DEF OneTickLater
  <2> QED BY <2>1, <2>2 DEF TargetState
<1>2. AfterTick(tab) \in [D -> TargetState]
  BY <1>0, <1>1 DEF AfterTick
<1> QED BY <1>2 DEF Tables

\* CountDecidesState of any table.
Consistent(tab) ==
  \A t \in DOMAIN tab :
    /\ tab[t].state = "CLOSED" <=> tab[t].failures < FailureThreshold
    /\ tab[t].state = "HALF_OPEN" => tab[t].quiet = CooldownDuration

\* What membership in Tables says of one entry.
LEMMA EntryTypes ==
  ASSUME NEW T, NEW tab \in Tables(T), NEW t \in DOMAIN tab
  PROVE  /\ t \in T
         /\ tab[t].failures \in 0..FailureCap
         /\ tab[t].state \in CircuitStates
         /\ tab[t].quiet \in 0..CooldownDuration
  BY DEF Tables, TargetState

\* Entering HALF_OPEN changes only the state, of a target whose cooldown is over.
LEMMA AllowEffect ==
  ASSUME NEW T, NEW tab \in Tables(T), NEW t \in T, Consistent(tab)
  PROVE  /\ Consistent(AfterAllow(tab, t))
         /\ DOMAIN AfterAllow(tab, t) = DOMAIN tab
         /\ \A u \in DOMAIN tab : /\ AfterAllow(tab, t)[u].failures = tab[u].failures
                                  /\ AfterAllow(tab, t)[u].quiet = tab[u].quiet
         /\ Allows(tab, t) <=> ~ /\ FailuresOf(tab, t) >= FailureThreshold
                                 /\ tab[t].quiet < CooldownDuration
<1> USE BreakerAssumption
<1>0. PICK D \in SUBSET T : tab \in [D -> TargetState]
  BY DEF Tables
<1>1. CASE Tripped(tab, t) /\ CooledDown(tab, t)
  <2>1. t \in DOMAIN tab /\ tab[t].quiet = CooldownDuration /\ tab[t].failures >= FailureThreshold
    BY <1>1, EntryTypes DEF Tripped, CooledDown, Consistent
  <2>2. AfterAllow(tab, t) = [tab EXCEPT ![t].state = "HALF_OPEN"]
    BY <1>1 DEF AfterAllow
  <2>3. \A u \in DOMAIN tab : /\ AfterAllow(tab, t)[u].failures = tab[u].failures
                              /\ AfterAllow(tab, t)[u].quiet = tab[u].quiet
                              /\ AfterAllow(tab, t)[u].state = IF u = t THEN "HALF_OPEN"
                                                                        ELSE tab[u].state
    BY <1>0, <2>2 DEF TargetState
  <2>4. DOMAIN AfterAllow(tab, t) = DOMAIN tab
    BY <2>2
  <2>5. Consistent(AfterAllow(tab, t))
    <3>1. ASSUME NEW u \in DOMAIN tab
          PROVE  /\ AfterAllow(tab, t)[u].state = "CLOSED"
                      <=> AfterAllow(tab, t)[u].failures < FailureThreshold
                 /\ AfterAllow(tab, t)[u].state = "HALF_OPEN"
                      => AfterAllow(tab, t)[u].quiet = CooldownDuration
      <4>1. CASE u = t
        BY <4>1, <2>1, <2>3, EntryTypes
      <4>2. CASE u # t
        BY <4>2, <2>3 DEF Consistent
      <4> QED BY <4>1, <4>2
    <3> QED BY <2>4, <3>1 DEF Consistent
  <2>6. Allows(tab, t) /\ ~(tab[t].quiet < CooldownDuration)
    BY <1>1, <2>1 DEF Allows
  <2> QED BY <2>3, <2>4, <2>5, <2>6
<1>2. CASE ~(Tripped(tab, t) /\ CooledDown(tab, t))
  <2>1. AfterAllow(tab, t) = tab
    BY <1>2 DEF AfterAllow
  <2> DEFINE refuse == FailuresOf(tab, t) >= FailureThreshold /\ tab[t].quiet < CooldownDuration
  <2>2. CASE t \notin DOMAIN tab
    <3>1. FailuresOf(tab, t) = 0 /\ Allows(tab, t)
      BY <2>2 DEF Allows, Tripped, FailuresOf
    <3>2. ~ FailuresOf(tab, t) >= FailureThreshold
      BY <3>1
    <3> QED BY <2>1, <3>1, <3>2
  <2>3. CASE t \in DOMAIN tab
    <3>1. /\ tab[t].failures \in Nat
          /\ tab[t].quiet \in 0..CooldownDuration
          /\ tab[t].state \in CircuitStates
      BY <2>3, EntryTypes
    <3>2. FailuresOf(tab, t) = tab[t].failures
      BY <2>3 DEF FailuresOf
    <3>3. Allows(tab, t) <=> tab[t].state # "OPEN"
      BY <1>2, <2>3 DEF Allows, Tripped, CooledDown
    <3>4. refuse <=> tab[t].state = "OPEN"
      BY <1>2, <2>3, <3>1, <3>2 DEF Tripped, CooledDown, Consistent, CircuitStates
    <3> QED BY <2>1, <3>3, <3>4
  <2> QED BY <2>1, <2>2, <2>3
<1> QED BY <1>1, <1>2

\* A success forgets the failures and closes the circuit, if there is an entry.
LEMMA SuccessEffect ==
  ASSUME NEW T, NEW tab \in Tables(T), NEW t \in T, Consistent(tab)
  PROVE  /\ Consistent(AfterSuccess(tab, t))
         /\ DOMAIN AfterSuccess(tab, t) = DOMAIN tab
         /\ t \in DOMAIN tab => AfterSuccess(tab, t)[t].failures = 0
         /\ \A u \in DOMAIN tab \ {t} : AfterSuccess(tab, t)[u] = tab[u]
<1> USE BreakerAssumption
<1>0. PICK D \in SUBSET T : tab \in [D -> TargetState]
  BY DEF Tables
<1>1. CASE t \notin DOMAIN tab
  BY <1>1 DEF AfterSuccess
<1>2. CASE t \in DOMAIN tab
  <2> DEFINE entry == [failures |-> 0, state |-> "CLOSED", quiet |-> tab[t].quiet]
  <2>1. AfterSuccess(tab, t) = [tab EXCEPT ![t] = entry]
    BY <1>2 DEF AfterSuccess
  <2>2. entry.failures = 0 /\ entry.state = "CLOSED"
    OBVIOUS
  <2> HIDE DEF entry
  <2>3. /\ DOMAIN AfterSuccess(tab, t) = DOMAIN tab
        /\ AfterSuccess(tab, t)[t] = entry
        /\ \A u \in DOMAIN tab \ {t} : AfterSuccess(tab, t)[u] = tab[u]
    BY <1>0, <1>2, <2>1
  <2>4. Consistent(AfterSuccess(tab, t))
    BY <2>2, <2>3 DEF Consistent
  <2> QED BY <2>2, <2>3, <2>4
<1> QED BY <1>1, <1>2

\* A failure counts one more, restarts the cooldown, and trips from any state at the threshold.
LEMMA FailureEffect ==
  ASSUME NEW T, NEW tab \in Tables(T), NEW t \in T, Consistent(tab)
  PROVE  /\ Consistent(AfterFailure(tab, t))
         /\ DOMAIN AfterFailure(tab, t) = DOMAIN tab \cup {t}
         /\ AfterFailure(tab, t)[t].failures = OneMore(FailuresOf(tab, t))
         /\ AfterFailure(tab, t)[t].quiet = 0
<1> USE BreakerAssumption
<1> DEFINE count == OneMore(FailuresOf(tab, t))
           st == IF count >= FailureThreshold THEN "OPEN" ELSE StateOf(tab, t)
           entry == [failures |-> count, state |-> st, quiet |-> 0]
<1>1. /\ DOMAIN AfterFailure(tab, t) = DOMAIN tab \cup {t}
      /\ AfterFailure(tab, t)[t] = entry
      /\ \A u \in DOMAIN tab \ {t} : AfterFailure(tab, t)[u] = tab[u]
  BY DEF AfterFailure
<1>2. entry.failures = count /\ entry.state = st /\ entry.quiet = 0
  OBVIOUS
<1>3. /\ st = "CLOSED" <=> count < FailureThreshold
      /\ st # "HALF_OPEN"
  <2>1. FailuresOf(tab, t) \in 0..FailureCap /\ StateOf(tab, t) \in CircuitStates
    BY EntryTypes DEF FailuresOf, StateOf, CircuitStates
  <2>2. StateOf(tab, t) = "CLOSED" <=> FailuresOf(tab, t) < FailureThreshold
    BY DEF FailuresOf, StateOf, Consistent
  <2>3. /\ count \in 0..FailureCap
        /\ FailuresOf(tab, t) >= FailureThreshold => count >= FailureThreshold
    BY <2>1 DEF OneMore
  <2> HIDE DEF count
  <2> QED BY <2>1, <2>2, <2>3
<1> HIDE DEF entry, st, count
<1>4. Consistent(AfterFailure(tab, t))
  <2>1. entry.state = "CLOSED" <=> entry.failures < FailureThreshold
    BY <1>2, <1>3
  <2>2. entry.state # "HALF_OPEN"
    BY <1>2, <1>3
  <2> QED BY <1>1, <2>1, <2>2 DEF Consistent
<1> QED BY <1>1, <1>2, <1>4 DEF count

\* The entries of the other targets stay as they are.
LEMMA FailureSpares ==
  ASSUME NEW tab, NEW t, NEW u \in DOMAIN tab \ {t}
  PROVE  AfterFailure(tab, t)[u] = tab[u]
BY DEF AfterFailure

\* Time never moves a state, and never leaves the cooldown once it is over.
LEMMA TickEffect ==
  ASSUME NEW T, NEW tab \in Tables(T), Consistent(tab)
  PROVE  /\ Consistent(AfterTick(tab))
         /\ DOMAIN AfterTick(tab) = DOMAIN tab
         /\ \A u \in DOMAIN tab : /\ AfterTick(tab)[u].failures = tab[u].failures
                                  /\ AfterTick(tab)[u].quiet = OneTickLater(tab[u].quiet)
<1> USE BreakerAssumption
<1>0. PICK D \in SUBSET T : tab \in [D -> TargetState]
  BY DEF Tables
<1>1. DOMAIN AfterTick(tab) = DOMAIN tab
  BY DEF AfterTick
<1>2. ASSUME NEW u \in DOMAIN tab
      PROVE  /\ AfterTick(tab)[u].failures = tab[u].failures
             /\ AfterTick(tab)[u].state = tab[u].state
             /\ AfterTick(tab)[u].quiet = OneTickLater(tab[u].quiet)
  <2>1. tab[u] \in TargetState
    BY <1>0
  <2>2. AfterTick(tab)[u] = [tab[u] EXCEPT !.quiet = OneTickLater(tab[u].quiet)]
    BY DEF AfterTick
  <2> QED BY <2>1, <2>2 DEF TargetState
<1>3. \A u \in DOMAIN tab : tab[u].quiet = CooldownDuration
                              => OneTickLater(tab[u].quiet) = CooldownDuration
  BY DEF OneTickLater
<1>4. Consistent(AfterTick(tab))
  BY <1>1, <1>2, <1>3 DEF Consistent
<1> QED BY <1>1, <1>2, <1>4

-----------------------------------------------------------------------------

\* Asking a target leaves both as they were, and is answered as the contract says.
LEMMA AskMaps ==
  ASSUME NEW T, NEW tab \in Tables(T), NEW t \in T, Consistent(tab)
  PROVE  /\ Streaks(T, AfterAllow(tab, t)) = Streaks(T, tab)
         /\ QuietTimes(T, AfterAllow(tab, t)) = QuietTimes(T, tab)
         /\ Allows(tab, t) <=> ~ /\ Streaks(T, tab)[t] >= FailureThreshold
                                 /\ QuietTimes(T, tab)[t] < CooldownDuration
<1> DEFINE aft == AfterAllow(tab, t)
<1>1. /\ DOMAIN aft = DOMAIN tab
      /\ \A u \in DOMAIN tab : /\ aft[u].failures = tab[u].failures
                               /\ aft[u].quiet = tab[u].quiet
      /\ Allows(tab, t) <=> ~ /\ FailuresOf(tab, t) >= FailureThreshold
                              /\ tab[t].quiet < CooldownDuration
  BY AllowEffect
<1> HIDE DEF aft
<1>2. \A u \in T : FailuresOf(aft, u) = FailuresOf(tab, u)
  BY <1>1 DEF FailuresOf
<1>3. \A u \in T : FailuresOf(tab, u) > 0 => u \in DOMAIN tab
  BY DEF FailuresOf
<1>4. Streaks(T, aft) = Streaks(T, tab) /\ QuietTimes(T, aft) = QuietTimes(T, tab)
  BY <1>1, <1>2, <1>3 DEF Streaks, QuietTimes
<1>5. FailuresOf(tab, t) \in Nat
  BY EntryTypes DEF FailuresOf
<1>6. FailuresOf(tab, t) >= FailureThreshold => FailuresOf(tab, t) > 0
  BY <1>5, BreakerAssumption
<1>7. /\ Streaks(T, tab)[t] = FailuresOf(tab, t)
      /\ FailuresOf(tab, t) > 0 => QuietTimes(T, tab)[t] = tab[t].quiet
  BY DEF Streaks, QuietTimes
<1>8. Allows(tab, t) <=> ~ /\ Streaks(T, tab)[t] >= FailureThreshold
                           /\ QuietTimes(T, tab)[t] < CooldownDuration
  BY <1>1, <1>6, <1>7
<1> QED BY <1>4, <1>8 DEF aft

\* A reported success ends the streak.
LEMMA SuccessMaps ==
  ASSUME NEW T, NEW tab \in Tables(T), NEW t \in T, Consistent(tab)
  PROVE  /\ Streaks(T, AfterSuccess(tab, t)) = [Streaks(T, tab) EXCEPT ![t] = 0]
         /\ QuietTimes(T, AfterSuccess(tab, t)) = [QuietTimes(T, tab) EXCEPT ![t] = 0]
<1> DEFINE aft == AfterSuccess(tab, t)
<1>1. /\ DOMAIN aft = DOMAIN tab
      /\ t \in DOMAIN tab => aft[t].failures = 0
      /\ \A u \in DOMAIN tab \ {t} : aft[u] = tab[u]
  BY SuccessEffect
<1> HIDE DEF aft
<1>2. /\ FailuresOf(aft, t) = 0
      /\ \A u \in T \ {t} : FailuresOf(aft, u) = FailuresOf(tab, u)
  BY <1>1 DEF FailuresOf
<1>3. \A u \in T : FailuresOf(tab, u) > 0 => u \in DOMAIN tab
  BY DEF FailuresOf
<1>4. Streaks(T, aft) = [Streaks(T, tab) EXCEPT ![t] = 0]
  BY <1>2 DEF Streaks
<1>5. \A u \in T : QuietTimes(T, aft)[u] = IF u = t THEN 0 ELSE QuietTimes(T, tab)[u]
  <2>1. QuietTimes(T, aft)[t] = 0
    BY <1>2 DEF QuietTimes
  <2>2. ASSUME NEW u \in T \ {t} PROVE QuietTimes(T, aft)[u] = QuietTimes(T, tab)[u]
    BY <1>1, <1>2, <1>3 DEF QuietTimes
  <2> QED BY <2>1, <2>2
<1>6. QuietTimes(T, aft) = [QuietTimes(T, tab) EXCEPT ![t] = 0]
  BY <1>5 DEF QuietTimes
<1> QED BY <1>4, <1>6 DEF aft

\* A reported failure lengthens it and restarts the quiet time.
LEMMA FailureMaps ==
  ASSUME NEW T, NEW tab \in Tables(T), NEW t \in T, Consistent(tab)
  PROVE  /\ Streaks(T, AfterFailure(tab, t)) = [Streaks(T, tab) EXCEPT ![t] = OneMore(@)]
         /\ QuietTimes(T, AfterFailure(tab, t)) = [QuietTimes(T, tab) EXCEPT ![t] = 0]
<1> DEFINE aft == AfterFailure(tab, t)
<1>1. /\ DOMAIN aft = DOMAIN tab \cup {t}
      /\ aft[t].failures = OneMore(FailuresOf(tab, t))
      /\ aft[t].quiet = 0
      /\ \A u \in DOMAIN tab \ {t} : aft[u] = tab[u]
  BY FailureEffect, FailureSpares
<1> HIDE DEF aft
<1>2. /\ FailuresOf(aft, t) = OneMore(FailuresOf(tab, t))
      /\ \A u \in T \ {t} : FailuresOf(aft, u) = FailuresOf(tab, u)
  BY <1>1 DEF FailuresOf
<1>3. \A u \in T : FailuresOf(tab, u) > 0 => u \in DOMAIN tab
  BY DEF FailuresOf
<1>4. Streaks(T, aft) = [Streaks(T, tab) EXCEPT ![t] = OneMore(@)]
  BY <1>2 DEF Streaks
<1>5. \A u \in T : QuietTimes(T, aft)[u] = IF u = t THEN 0 ELSE QuietTimes(T, tab)[u]
  <2>1. QuietTimes(T, aft)[t] = 0
    BY <1>1 DEF QuietTimes
  <2>2. ASSUME NEW u \in T \ {t} PROVE QuietTimes(T, aft)[u] = QuietTimes(T, tab)[u]
    BY <1>1, <1>2, <1>3 DEF QuietTimes
  <2> QED BY <2>1, <2>2
<1>6. QuietTimes(T, aft) = [QuietTimes(T, tab) EXCEPT ![t] = 0]
  BY <1>5 DEF QuietTimes
<1> QED BY <1>4, <1>6 DEF aft

\* The clock advances the quiet time of the targets that have a streak.
LEMMA TickMaps ==
  ASSUME NEW T, NEW tab \in Tables(T), Consistent(tab)
  PROVE  /\ Streaks(T, AfterTick(tab)) = Streaks(T, tab)
         /\ QuietTimes(T, AfterTick(tab)) =
              [t \in T |-> IF Streaks(T, tab)[t] > 0 THEN OneTickLater(QuietTimes(T, tab)[t])
                                                     ELSE QuietTimes(T, tab)[t]]
<1> DEFINE aft == AfterTick(tab)
<1>1. /\ DOMAIN aft = DOMAIN tab
      /\ \A u \in DOMAIN tab : /\ aft[u].failures = tab[u].failures
                               /\ aft[u].quiet = OneTickLater(tab[u].quiet)
  BY TickEffect
<1> HIDE DEF aft
<1>2. \A u \in T : FailuresOf(aft, u) = FailuresOf(tab, u)
  BY <1>1 DEF FailuresOf
<1>3. \A u \in T : FailuresOf(tab, u) > 0 => u \in DOMAIN tab
  BY DEF FailuresOf
<1>4. Streaks(T, aft) = Streaks(T, tab)
  BY <1>2 DEF Streaks
<1>5. \A u \in T : /\ Streaks(T, tab)[u] = FailuresOf(tab, u)
                   /\ QuietTimes(T, tab)[u] =
                        IF FailuresOf(tab, u) > 0 THEN tab[u].quiet ELSE 0
  BY DEF Streaks, QuietTimes
<1>6. ASSUME NEW u \in T
      PROVE  QuietTimes(T, aft)[u] =
               IF Streaks(T, tab)[u] > 0 THEN OneTickLater(QuietTimes(T, tab)[u])
                                         ELSE QuietTimes(T, tab)[u]
  BY <1>1, <1>2, <1>3, <1>5 DEF QuietTimes
<1>7. QuietTimes(T, aft) =
        [t \in T |-> IF Streaks(T, tab)[t] > 0 THEN OneTickLater(QuietTimes(T, tab)[t])
                                               ELSE QuietTimes(T, tab)[t]]
  BY <1>6 DEF QuietTimes
<1> QED BY <1>4, <1>7 DEF aft
=============================================================================
