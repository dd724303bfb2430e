----------------------------- MODULE Readiness -----------------------------
(***************************************************************************)
(* GET /health/ready (internal/health/health.go): the checkers that main    *)
(* registered are asked one after the other, all within one context of 5 s. *)
(* External: a dependency answers, or not, in its own time.  The checkers   *)
(* of postgres.go and ninerouter/client.go give up when the context ends,   *)
(* and at once when it has ended before.  The Redis client has timeouts of  *)
(* its own and looks at the context only between two attempts.              *)
(***************************************************************************)
EXTENDS Naturals, Sequences

CONSTANTS
  Budget,   \* ticks of the readiness context
  Overrun   \* external: ticks the Redis client may go on after it

ASSUME BudgetAssumption == Budget \in Nat /\ Overrun \in Nat

VARIABLE probe  \* the readiness request

NoProbe == [pc |-> "idle", on |-> 0, checkers |-> {}, rest |-> <<>>, spent |-> 0,
            healthy |-> {}, unhealthy |-> {}, status |-> 0]

Probing == probe.pc = "checking"

\* The health checkers of main: the stores it could open, and the upstream.
Checkers(opened) ==
  LET first  == IF "database" \in opened THEN <<"database">> ELSE <<>>
      stores == IF "redis" \in opened THEN Append(first, "redis") ELSE first
  IN  Append(stores, "ninerouter")

ProbeStart(i, opened) ==
  /\ probe.pc = "idle"
  /\ probe' = [NoProbe EXCEPT !.pc = "checking", !.on = i, !.rest = Checkers(opened),
                              !.checkers = opened \cup {"ninerouter"}]

\* Ticks left of the context.
TimeLeft == IF probe.spent < Budget THEN Budget - probe.spent ELSE 0

\* The next checker returned after t ticks: its dependency is healthy, or not.
Checked(t, ok) ==
  LET d == Head(probe.rest)
  IN  probe' = [probe EXCEPT !.rest = Tail(@), !.spent = @ + t,
                             !.healthy   = IF ok THEN @ \cup {d} ELSE @,
                             !.unhealthy = IF ok THEN @ ELSE @ \cup {d}]

\* Wrong on purpose: every checker has a context of its own.
CheckAfresh ==
  /\ Probing /\ probe.rest # <<>>
  /\ \E t \in 0..Budget, ok \in BOOLEAN : Checked(t, ok)

\* c.Check(ctx), in time, out of time, or by the Redis client in overtime.
Check ==
  /\ Probing /\ probe.rest # <<>>
  /\ \/ TimeLeft > 0 /\ \E t \in 0..TimeLeft, ok \in BOOLEAN : Checked(t, ok)
     \/ Checked(TimeLeft, FALSE)
     \/ /\ Head(probe.rest) = "redis"
        /\ \E t \in 0..Overrun, ok \in BOOLEAN : Checked(TimeLeft + t, ok)

\* 200 if every checker was healthy, 503 otherwise.
Report ==
  /\ Probing /\ probe.rest = <<>>
  /\ probe' = [probe EXCEPT !.pc = "reported",
                            !.status = IF probe.unhealthy = {} THEN 200 ELSE 503]

ProbeStep == Check \/ Report

-----------------------------------------------------------------------------

(***************************************************************************)
(* A probe answers in its 5 s, give or take what one Redis call goes on for *)
(* after them, however many dependencies hang; and the answer has all of    *)
(* them: a dependency that takes all the time does not hide those after it. *)
(***************************************************************************)
ProbeCoversAllInBudget ==
  probe.pc = "reported" =>
    /\ probe.spent <= Budget + Overrun
    /\ probe.healthy \cup probe.unhealthy = probe.checkers
    /\ probe.status = 200 <=> probe.healthy = probe.checkers
=============================================================================
