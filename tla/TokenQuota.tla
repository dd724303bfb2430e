----------------------------- MODULE TokenQuota -----------------------------
(***************************************************************************)
(* Token quotas under concurrent requests: the handler asks quotaStore.Allow *)
(* before it forwards a request (dataplane.go:235-245) and calls Record only *)
(* after the upstream answered (dataplane.go:334-337).  Between the two the *)
(* estimate of the request is in no counter, for as long as the upstream    *)
(* takes, and other requests of the key are checked against what is there.  *)
(* The limits a request is checked against are those of the key record that *)
(* AuthMiddleware found, which an administrator may have replaced since.    *)
(* What else happens to a request on its way is left to module DataPlane,   *)
(* which implements this one.                                               *)
(***************************************************************************)
EXTENDS Quota, FiniteSets

CONSTANTS
  Requests,    \* requests in flight at once
  Keys,        \* API keys
  Estimates,   \* external: estimateTokens of the bodies clients send
  Limits,      \* the limits an administrator gives a key; 0 is none
  MaxUsage     \* bound: usage past which no request is sent any more

\* Bodies are of bounded size, so one estimate is the largest.
ASSUME QuotaAssumption ==
  /\ Estimates \subseteq Nat /\ \E n \in Estimates : \A m \in Estimates : m <= n
  /\ Limits \subseteq Nat
  /\ IsFiniteSet(Requests)
  /\ MaxUsage \in Nat

VARIABLES
  usage,       \* MemoryQuota.usage
  limits,      \* DailyTokenQuota and MonthlyTokenQuota of each key in the key store
  req          \* the handler of each request, Idle when there is none

vars == <<usage, limits, req>>

Periods == {"daily", "monthly"}

Idle == [pc |-> "idle"]

Handlers == [pc : {"arrived"}, key : Keys, seen : [Periods -> Limits]]
              \cup [pc : {"admitted"}, key : Keys, tokens : Estimates]

TypeOK ==
  /\ usage \in [Keys -> [Periods -> Nat]]
  /\ DOMAIN limits \subseteq Keys /\ limits \in [DOMAIN limits -> [Periods -> Limits]]
  /\ req \in [Requests -> Handlers \cup {Idle}]

Init ==
  /\ usage = [k \in Keys |-> NoUsage]
  /\ limits \in [Keys -> [Periods -> Limits]]
  /\ req = [r \in Requests |-> Idle]

\* The requests that passed the check and have not ended.
InFlight(k) == {r \in Requests : req[r].pc = "admitted" /\ req[r].key = k}

\* What they may still be charged, token by token.
Pending(k) == UNION {{r} \X (1..req[r].tokens) : r \in InFlight(k)}

\* What a key has used once all its requests in flight are answered.
Committed(k, p) == usage[k][p] + Cardinality(Pending(k))

-----------------------------------------------------------------------------

\* AuthMiddleware puts the key's record into the request's context.
Authenticate(r, k) ==
  /\ req[r] = Idle /\ k \in DOMAIN limits
  /\ usage[k].daily <= MaxUsage
  /\ req' = [req EXCEPT ![r] = [pc |-> "arrived", key |-> k, seen |-> limits[k]]]
  /\ UNCHANGED <<usage, limits>>

\* A bad body, a route without targets, a policy, the rate limiter: no check at all.
TurnAway(r) ==
  /\ req[r].pc = "arrived"
  /\ req' = [req EXCEPT ![r] = Idle]
  /\ UNCHANGED <<usage, limits>>

\* Allow lets the request through, or refuses it and leaves no trace in the store.
Admit(r, tokens) ==
  /\ req[r].pc = "arrived"
  /\ QuotaAllows(usage[req[r].key], req[r].seen.daily, req[r].seen.monthly, tokens)
  /\ req' = [req EXCEPT ![r] = [pc |-> "admitted", key |-> req[r].key, tokens |-> tokens]]
  /\ UNCHANGED <<usage, limits>>

Refuse(r, tokens) ==
  /\ req[r].pc = "arrived"
  /\ ~QuotaAllows(usage[req[r].key], req[r].seen.daily, req[r].seen.monthly, tokens)
  /\ req' = [req EXCEPT ![r] = Idle]
  /\ UNCHANGED <<usage, limits>>

\* Record, with the same estimate that was checked.
Settle(r) ==
  /\ req[r].pc = "admitted"
  /\ usage' = [usage EXCEPT ![req[r].key] = AfterRecord(@, req[r].tokens)]
  /\ req' = [req EXCEPT ![r] = Idle]
  /\ UNCHANGED limits

\* Every target failed: the handler returns before Record.
GiveUp(r) ==
  /\ req[r].pc = "admitted"
  /\ req' = [req EXCEPT ![r] = Idle]
  /\ UNCHANGED <<usage, limits>>

\* PUT /api/v1/keys/{id} stores a record again, changed since it was read: with the
\* quotas of the body, or those of whenever that was.
UpdateKey(k, new) ==
  /\ k \in DOMAIN limits
  /\ limits' = [limits EXCEPT ![k] = new]
  /\ UNCHANGED <<usage, req>>

\* DELETE /api/v1/keys/{id}: the requests that found the key go on, and so does its usage.
DeleteKey(k) ==
  /\ k \in DOMAIN limits
  /\ limits' = [j \in DOMAIN limits \ {k} |-> limits[j]]
  /\ UNCHANGED <<usage, req>>

Next ==
  \/ \E r \in Requests, k \in Keys : Authenticate(r, k)
  \/ \E r \in Requests, tokens \in Estimates : Admit(r, tokens) \/ Refuse(r, tokens)
  \/ \E r \in Requests : TurnAway(r) \/ Settle(r) \/ GiveUp(r)
  \/ \E k \in Keys : DeleteKey(k) \/ \E new \in [Periods -> Limits] : UpdateKey(k, new)

Spec == Init /\ [][Next]_vars

-----------------------------------------------------------------------------

LargestEstimate == CHOOSE n \in Estimates : \A m \in Estimates : m <= n

\* r passes the check in this step.
Admitted(r, k) ==
  req[r].pc = "arrived" /\ req[r].key = k /\ req'[r].pc = "admitted"

(***************************************************************************)
(* The overshoot is bounded: because the check sets nothing aside, a key    *)
(* can pass its quota, but only in the step in which a request passes the   *)
(* check, and then by no more than one estimate for every other request     *)
(* that is in flight at that moment, however often they check, fail and     *)
(* record before, and also when the limit is changed among them: what       *)
(* counts is the limit that request was checked against                     *)
(* (dataplane.go:238, quota.go:49).                                         *)
(***************************************************************************)
OvershootBounded ==
  [][\A k \in Keys, p \in Periods : Committed(k, p)' > Committed(k, p) =>
       \E r \in Requests :
         /\ Admitted(r, k)
         /\ req[r].seen[p] > 0 =>
              Committed(k, p)' <= req[r].seen[p] + Cardinality(InFlight(k)) * LargestEstimate]_vars
=============================================================================
