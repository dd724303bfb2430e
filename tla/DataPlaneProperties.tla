------------------------ MODULE DataPlaneProperties ------------------------
(* What the data plane must guarantee, over the system of module DataPlane. *)
EXTENDS DataPlane

Phases == {"new", "reading", "resolving", "resolved", "permitted", "metered", "ready",
           "waiting", "answered", "forwarded", "listing", "filtering", "done"}

TypeOK ==
  /\ DOMAIN aliases \subseteq Aliases /\ \A a \in DOMAIN aliases : aliases[a] \in Routes
  /\ denied \in DenyLists
  /\ DOMAIN keys \subseteq Keys /\ \A k \in DOMAIN keys : keys[k] \in KeyRecords
  /\ DOMAIN targets \subseteq Names /\ targets \in [DOMAIN targets -> TargetState]
  /\ live \in [Keys -> Nat]
  /\ usage \in [Keys -> [daily : Nat, monthly : Nat]]
  /\ \A r \in Requests :
       /\ req[r].pc \in Phases
       /\ req[r].id \in Keys \cup {NoKey} /\ req[r].key \in KeyRecords \cup {NoKey}
       /\ req[r].rest \in Seq(Names) /\ req[r].chain \in Seq(Names)
       /\ req[r].sent \in 0..Len(req[r].chain)
       /\ req[r].last \in Outcomes \cup {"none", "cancelled"}
       /\ req[r].status \in {0, 200, 400, 401, 403, 429, 502, 503}

-----------------------------------------------------------------------------

Done(r) == req[r].pc = "done"
Failed(r) == {i \in DOMAIN ledger[r].tried : ledger[r].tried[i].outcome \in Failures}

NothingSent(r) == ledger[r].tried = <<>> /\ ledger[r].charged = 0 /\ ledger[r].counted = 0
NothingSpent(r) == NothingSent(r) /\ ~ledger[r].slot
SlotSpent(r) == ledger[r].slot <=> req[r].key.rpm > 0

\* What a request has done that was answered as r was.
Explained(r) ==
  LET e     == ledger[r]
      tries == Len(e.tried)
  IN  \/ req[r].status = 401 /\ NothingSpent(r) /\ e.events = {"AUTH_FAILURE"}
      \/ req[r].status \in {400, 503} /\ NothingSpent(r) /\ e.events = {}
      \/ /\ req[r].status = 403 /\ NothingSpent(r)
         /\ e.events = {"ROUTE_RESOLVED", "POLICY_DENY"}
      \/ /\ req[r].status = 429 /\ req[r].code = "rate_limited" /\ NothingSpent(r)
         /\ e.events = {"ROUTE_RESOLVED", "RATE_LIMITED"}
      \/ /\ req[r].status = 429 /\ req[r].code = "quota_exceeded"
         /\ NothingSent(r) /\ SlotSpent(r) /\ e.events = {"ROUTE_RESOLVED"}
      \/ req[r].status = 200 /\ req[r].code = "models" /\ NothingSpent(r) /\ e.events = {}
      \/ /\ req[r].status = 502 /\ req[r].chain = <<>>
         /\ NothingSpent(r) /\ e.events = {}
      \/ /\ req[r].status = 502 /\ req[r].chain # <<>> /\ SlotSpent(r) /\ e.charged = 0
         /\ tries = Len(req[r].chain) /\ Failed(r) = 1..tries
         /\ e.events = {"ROUTE_RESOLVED"}
      \/ /\ req[r].status = 200 /\ req[r].code = "none" /\ SlotSpent(r) /\ e.charged = 1
         /\ tries >= 1 /\ Failed(r) = 1..(tries - 1)
         /\ e.events = {"ROUTE_RESOLVED"}

(***************************************************************************)
(* The status a client gets tells exactly what its request did: a request   *)
(* turned away before the limiter spent nothing and sent nothing; one over  *)
(* quota spent its RPM slot and nothing else; a 502 tried every target of   *)
(* its chain, saw each fail, and was charged no tokens; a 200 stopped at    *)
(* its first success and was charged once; a list of models is free,        *)
(* whether the upstream gave it or not; and the audit trail holds the       *)
(* events of that outcome and no other (an upstream's 401 is a 502, never   *)
(* an AUTH_FAILURE).                                                        *)
(***************************************************************************)
StatusExplainsEffects == \A r \in Requests : Done(r) => Explained(r)

(***************************************************************************)
(* An outage is visible: a chat request that ends in 502 has counted at     *)
(* least one upstream error, no request counts more errors than it saw, and *)
(* the 502 carries the code of its last failure, never a stale one.         *)
(***************************************************************************)
OutageIsCounted ==
  \A r \in Requests : Done(r) =>
    /\ ledger[r].counted <= Cardinality(Failed(r))
    /\ req[r].status = 502 /\ req[r].chain # <<>> =>
         /\ ledger[r].counted >= 1
         /\ req[r].code = ErrorCode(ledger[r].tried[Len(ledger[r].tried)].outcome)

(***************************************************************************)
(* Token usage is conserved over all interleavings: a key has used exactly  *)
(* the estimates of its requests that the upstream answered, whatever       *)
(* fallbacks, refusals and failures happened on the way.                    *)
(***************************************************************************)
UsageIsAnsweredRequests ==
  \A k \in Keys :
    LET answered == {r \in Requests : req[r].id = k /\ req[r].status = 200 /\ req[r].code = "none"}
    IN  usage[k] = [daily   |-> Estimate * Cardinality(answered),
                    monthly |-> Estimate * Cardinality(answered)]

\* The attempts of r on t that failed, and those of all requests.
FailedOn(r, t) ==
  {i \in DOMAIN ledger[r].tried :
     ledger[r].tried[i].target = t /\ ledger[r].tried[i].outcome \in Failures}
FailedAttemptsOn(t) == UNION {{r} \X FailedOn(r, t) : r \in Requests}

(***************************************************************************)
(* Only attempts count against a target: a circuit has as many failures as  *)
(* attempts on that very target failed, at most, and a target that was      *)
(* never tried has no entry.  Requests that were refused, or that asked for *)
(* the target and did not need it, do it no harm.                           *)
(***************************************************************************)
OnlyAttemptsCount ==
  \A t \in DOMAIN targets :
    /\ targets[t].failures <= Cardinality(FailedAttemptsOn(t))
    /\ FailedAttemptsOn(t) # {}

\* What module TokenQuota sees of a key's record and of a handler.
QuotasOf(record) == [daily |-> record.daily, monthly |-> record.monthly]

QuotaPhase(q) ==
  CASE q.pc \in {"new", "done"} ->
         [pc |-> "idle"]
    [] q.pc \in {"ready", "waiting", "answered", "forwarded"} ->
         [pc |-> "admitted", key |-> q.id, tokens |-> Estimate]
    [] OTHER ->
         [pc |-> "arrived", key |-> q.id, seen |-> QuotasOf(q.key)]

Q == INSTANCE TokenQuota WITH
       Estimates <- {Estimate},
       Limits    <- UNION {{record.daily, record.monthly} : record \in KeyRecords},
       MaxUsage  <- Estimate * Cardinality(Requests),
       limits    <- [k \in DOMAIN keys |-> QuotasOf(keys[k])],
       req       <- [r \in Requests |-> QuotaPhase(req[r])]

(***************************************************************************)
(* The data plane implements TokenQuota: on its way through key check,      *)
(* routing, policy, limiter, attempts and fallbacks, a request asks the     *)
(* quota once, with the quotas of the record its key had when it came, and  *)
(* is charged at most once, after that; no refusal, failure or hang-up      *)
(* touches anybody's usage.                                                 *)
(***************************************************************************)
ImplementsQuota == Q!Spec

\* What module BreakerContract sees: a caller is one turn of a request's loop in Resolve,
\* which got a target for the chain, or a refusal.  What the chain got and the request does
\* not need is never given back.
Turns == {1} \cup UNION {DOMAIN route : route \in Routes}
Callers == Requests \X {"chain", "refused"} \X Turns

Listed(q) == q.pc = "filtering" \/ (q.pc = "done" /\ q.code = "models")

Asked(q, refused, list) ==
  IF list = "refused" THEN refused ELSE IF Listed(q) THEN <<>> ELSE q.chain

CallerPhase(q, refused, list, i) ==
  IF i \notin DOMAIN Asked(q, refused, list) THEN "idle"
  ELSE IF list = "refused" THEN "refused"
  ELSE IF i > q.sent \/ (i = q.sent /\ q.pc = "waiting") THEN "admitted"
  ELSE IF i < q.sent \/ q.pc # "answered" THEN "idle"
  ELSE IF q.last \in Failures THEN "failed" ELSE "succeeded"

CallerAim(q, refused, list, i) ==
  IF CallerPhase(q, refused, list, i) = "idle" THEN "none" ELSE Asked(q, refused, list)[i]

B == INSTANCE BreakerContract WITH
       Targets  <- Names,
       NoTarget <- "none",
       streak   <- Streaks(Names, targets),
       quiet    <- QuietTimes(Names, targets),
       phase    <- [c \in Callers |-> CallerPhase(req[c[1]], ledger[c[1]].refused, c[2], c[3])],
       aim      <- [c \in Callers |-> CallerAim(req[c[1]], ledger[c[1]].refused, c[2], c[3])]

(***************************************************************************)
(* The data plane is a caller BreakerContract is good for: whatever its     *)
(* requests, fallbacks and hang-ups do in between, a target is left out of  *)
(* a chain exactly while its last reported results are FailureThreshold or  *)
(* more failures and the cooldown is not over, and the result of every      *)
(* attempt, and nothing else, is reported, once, for the target that it was *)
(* sent to.                                                                 *)
(***************************************************************************)
ImplementsBreaker == B!Spec

(***************************************************************************)
(* Every request is answered: no lock, queue or fallback keeps a client     *)
(* waiting for ever, provided that the upstream ends each attempt.          *)
(***************************************************************************)
EveryRequestIsAnswered ==
  \A r \in Requests : req[r].pc = "reading" ~> Done(r)

-----------------------------------------------------------------------------

(***************************************************************************)
(* 03-ARCHITECTURE.md section 18 lets a 9Router failure "invoke configured  *)
(* alternate routing only where policy allows", and policy/engine.go:57     *)
(* says "Global deny always wins": no attempt goes to a target the policy   *)
(* denies the key.                                                          *)
(***************************************************************************)
EveryAttemptIsAllowed ==
  \A r \in Requests : req[r].pc = "waiting" =>
    EvaluateModel(denied, req[r].key, req[r].chain[req[r].sent]) = "ALLOWED"
=============================================================================
