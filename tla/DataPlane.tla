----------------------------- MODULE DataPlane -----------------------------
(***************************************************************************)
(* POST /v1/chat/completions and GET /v1/models, from the key check to the  *)
(* answer: the handlers of internal/api/dataplane.go with the routing       *)
(* engine, circuit breaker, policy engine, rate limiter, token quota,       *)
(* metrics and audit trail they call.  Any number of requests are in the    *)
(* handlers at once, while an administrator changes routes, deny lists and  *)
(* keys, upstream models fail and clients hang up.  A step ends where the   *)
(* handler gives up a lock or waits for the upstream; req[r] holds the      *)
(* handler's local variables.                                               *)
(*                                                                         *)
(* The rate limiter is taken at its contract (SlidingWindow, which          *)
(* RateLimiter implements) without the clock: a bucket is the number of     *)
(* stamps in its window, which shrinks as time passes.                      *)
(***************************************************************************)
EXTENDS Breaker, Policy, Quota, Sequences, FiniteSets

CONSTANTS
  Requests,    \* one id per client call
  Models,      \* upstream model ids
  Aliases,     \* alias names
  Routes,      \* the target lists an administrator sets for an alias
  DenyLists,   \* the global deny lists an administrator sets
  Keys,        \* API keys
  KeyRecords,  \* the settings an administrator gives a key
  Asks,        \* the model names and aliases clients ask for
  Outcomes,    \* external: how the upstream may answer an attempt
  Catalogs,    \* external: the upstream's model lists; bound: if none, nobody asks for them
  Estimate,    \* estimateTokens of a request
  NoKey        \* the key record of a request that has none yet

Names == Models \cup Aliases

\* A name that is no alias is passed on as a model id.  Quotas are never negative.
ASSUME DataPlaneAssumption ==
  /\ Routes \subseteq Seq(Names) /\ Asks \subseteq Names /\ Catalogs \subseteq Seq(Models)
  /\ IsFiniteSet(Requests) /\ Estimate \in Nat
  /\ \A record \in KeyRecords : record.daily \in Nat /\ record.monthly \in Nat

VARIABLES
  aliases,     \* routing: Engine.aliases, a partial function
  denied,      \* policy: globalDeny.models
  keys,        \* auth: MemoryKeyStore.keys, a partial function
  targets,     \* routing: CircuitBreaker.targets
  live,        \* limiter: stamps in each key's window
  usage,       \* quota: MemoryQuota.usage
  req,         \* the handler of each request
  ledger       \* history: what each request did to the rest of the system

admin == <<aliases, denied, keys>>
vars == <<aliases, denied, keys, targets, live, usage, req, ledger>>

-----------------------------------------------------------------------------

\* No HTTP answer at all, because of the upstream or because the client hung up.
TransportErrors == {"transport", "cancelled"}

\* The statuses the loop falls back on: 401, 429 and 5xx.
FailedStatuses == {"s401", "s429", "s5xx"}

Failures == TransportErrors \cup FailedStatuses

\* upstreamErrorCode, and the code of a chain that ends in a transport error.
ErrorCode(last) ==
  CASE last = "s401" -> "UPSTREAM_AUTH_ERROR"
    [] last = "s429" -> "UPSTREAM_RATE_LIMIT"
    [] last = "s5xx" -> "UPSTREAM_UNAVAILABLE"
    [] OTHER         -> "UPSTREAM_UNREACHABLE"

NoRequest == [pc |-> "new", id |-> NoKey, key |-> NoKey, rest |-> <<>>, chain |-> <<>>,
              sent |-> 0, last |-> "none", gone |-> FALSE, status |-> 0, code |-> "none"]

NoEffects == [slot |-> FALSE, charged |-> 0, refused |-> <<>>, tried |-> <<>>, counted |-> 0,
              events |-> {}]

Init ==
  /\ aliases \in [Aliases -> Routes]
  /\ denied \in DenyLists
  /\ keys \in [Keys -> KeyRecords]
  /\ targets = EmptyTable
  /\ live = [k \in Keys |-> 0]
  /\ usage = [k \in Keys |-> NoUsage]
  /\ req = [r \in Requests |-> NoRequest]
  /\ ledger = [r \in Requests |-> NoEffects]

\* The request moves on, or is answered.
Goto(r, pc) == req' = [req EXCEPT ![r].pc = pc]
Respond(r, status, code) ==
  req' = [req EXCEPT ![r] = [@ EXCEPT !.pc = "done", !.status = status, !.code = code]]

Log(r, event) == ledger' = [ledger EXCEPT ![r].events = @ \cup {event}]

-----------------------------------------------------------------------------

\* AuthMiddleware, and the AUTH_FAILURE event the router adds to its 401.  An expired key
\* (auth.go:194-197) is refused like a disabled one; no handler gives a key an expiry.
Authenticate(r, k) ==
  /\ req[r].pc = "new"
  /\ IF k \in DOMAIN keys /\ keys[k].enabled
       THEN /\ req' = [req EXCEPT ![r] = [@ EXCEPT !.pc = "reading", !.id = k, !.key = keys[k]]]
            /\ UNCHANGED ledger
       ELSE /\ Respond(r, 401, "invalid_api_key")
            /\ Log(r, "AUTH_FAILURE")
  /\ UNCHANGED <<admin, targets, live, usage>>

\* The body cannot be read, is not JSON, or lacks a model or messages.
RejectBody(r) ==
  /\ req[r].pc = "reading"
  /\ Respond(r, 400, "invalid_request_error")
  /\ UNCHANGED <<admin, targets, live, usage, ledger>>

\* Resolve takes e.mu for reading and looks the name up.
BeginResolve(r, name) ==
  /\ req[r].pc = "reading"
  /\ req' = [req EXCEPT ![r] =
               [@ EXCEPT !.pc = "resolving",
                         !.rest = IF name \in DOMAIN aliases THEN aliases[name] ELSE <<name>>]]
  /\ UNCHANGED <<admin, targets, live, usage, ledger>>

\* One turn of Resolve's loop: the breaker is asked about the next target.
AskNext(r) ==
  /\ req[r].pc = "resolving" /\ req[r].rest # <<>>
  /\ LET t == Head(req[r].rest)
     IN  /\ targets' = AfterAllow(targets, t)
         /\ req' = [req EXCEPT ![r] =
                      [req[r] EXCEPT !.rest = Tail(@),
                                     !.chain = IF Allows(targets, t) THEN Append(@, t) ELSE @]]
         /\ ledger' = [ledger EXCEPT ![r].refused =
                         IF Allows(targets, t) THEN @ ELSE Append(@, t)]
  /\ UNCHANGED <<admin, live, usage>>

\* Resolve returns: a chosen target with its fallback chain, or no target at all.
EndResolve(r) ==
  /\ req[r].pc = "resolving" /\ req[r].rest = <<>>
  /\ IF req[r].chain = <<>>
       THEN Respond(r, 503, "routing_failed") /\ UNCHANGED ledger
       ELSE Goto(r, "resolved") /\ Log(r, "ROUTE_RESOLVED")
  /\ UNCHANGED <<admin, targets, live, usage>>

\* EvaluateModel, on the chosen target only.
CheckPolicy(r) ==
  /\ req[r].pc = "resolved"
  /\ IF EvaluateModel(denied, req[r].key, Head(req[r].chain)) = "ALLOWED"
       THEN Goto(r, "permitted") /\ UNCHANGED ledger
       ELSE Respond(r, 403, "model_not_allowed") /\ Log(r, "POLICY_DENY")
  /\ UNCHANGED <<admin, targets, live, usage>>

\* Wrong on purpose: the slot is taken before the window is looked at.
CheckRateTakesFirst(r) ==
  LET k == req[r].id
  IN  /\ req[r].pc = "permitted"
      /\ IF req[r].key.rpm = 0
           THEN Goto(r, "metered") /\ UNCHANGED <<live, ledger>>
           ELSE /\ live' = [live EXCEPT ![k] = @ + 1]
                /\ ledger' = [ledger EXCEPT ![r].slot = TRUE]
                /\ IF live[k] < req[r].key.rpm THEN Goto(r, "metered")
                                               ELSE Respond(r, 429, "rate_limited")
      /\ UNCHANGED <<admin, targets, usage>>

\* rateLimiter.Allow, for a key that has an RPM limit.
CheckRate(r) ==
  LET k == req[r].id
  IN  /\ req[r].pc = "permitted"
      /\ \/ /\ req[r].key.rpm = 0
            /\ Goto(r, "metered")
            /\ UNCHANGED <<live, ledger>>
         \/ /\ req[r].key.rpm > 0 /\ live[k] < req[r].key.rpm
            /\ live' = [live EXCEPT ![k] = @ + 1]
            /\ ledger' = [ledger EXCEPT ![r].slot = TRUE]
            /\ Goto(r, "metered")
         \/ /\ req[r].key.rpm > 0 /\ live[k] >= req[r].key.rpm
            /\ Respond(r, 429, "rate_limited")
            /\ Log(r, "RATE_LIMITED")
            /\ UNCHANGED live
      /\ UNCHANGED <<admin, targets, usage>>

\* Wrong on purpose: the month is not looked at.
CheckQuotaOfDay(r) ==
  /\ req[r].pc = "metered"
  /\ IF Fits(req[r].key.daily, usage[req[r].id].daily, Estimate)
       THEN Goto(r, "ready")
       ELSE Respond(r, 429, "quota_exceeded")
  /\ UNCHANGED <<admin, targets, live, usage, ledger>>

\* quotaStore.Allow; its rejection is not audited.
CheckQuota(r) ==
  /\ req[r].pc = "metered"
  /\ IF QuotaAllows(usage[req[r].id], req[r].key.daily, req[r].key.monthly, Estimate)
       THEN Goto(r, "ready")
       ELSE Respond(r, 429, "quota_exceeded")
  /\ UNCHANGED <<admin, targets, live, usage, ledger>>

\* Wrong on purpose: the loop runs past the end of the chain.
SendOneMore(r) ==
  /\ req[r].pc = "ready" /\ req[r].sent <= Len(req[r].chain)
  /\ req' = [req EXCEPT ![r] = [req[r] EXCEPT !.pc = "waiting", !.sent = @ + 1]]
  /\ UNCHANGED <<admin, targets, live, usage, ledger>>

\* The attempt loop sends the request to the next target of the chain.
Send(r) ==
  /\ req[r].pc = "ready" /\ req[r].sent < Len(req[r].chain)
  /\ req' = [req EXCEPT ![r] = [req[r] EXCEPT !.pc = "waiting", !.sent = @ + 1]]
  /\ UNCHANGED <<admin, targets, live, usage, ledger>>

\* The upstream answers, or fails; an attempt of a client that left only fails.
UpstreamAnswers(r) ==
  /\ req[r].pc = "waiting"
  /\ \E o \in IF req[r].gone THEN {"cancelled"} ELSE Outcomes :
       /\ req' = [req EXCEPT ![r] = [@ EXCEPT !.pc = "answered", !.last = o]]
       /\ ledger' = [ledger EXCEPT ![r].tried =
                       Append(@, [target |-> req[r].chain[req[r].sent], outcome |-> o])]
  /\ UNCHANGED <<admin, targets, live, usage>>

\* Wrong on purpose: the failure is blamed on the primary target.
AttemptFailedBlamesPrimary(r) ==
  /\ req[r].pc = "answered" /\ req[r].last \in Failures
  /\ targets' = AfterResult(targets, Head(req[r].chain), FALSE)
  /\ ledger' = [ledger EXCEPT ![r].counted = IF req[r].last \in FailedStatuses THEN @ + 1 ELSE @]
  /\ Goto(r, "ready")
  /\ UNCHANGED <<admin, live, usage>>

\* Wrong on purpose: an attempt that failed without a status is not handled.
AttemptFailedWithStatus(r) ==
  /\ req[r].pc = "answered" /\ req[r].last \in FailedStatuses
  /\ targets' = AfterResult(targets, req[r].chain[req[r].sent], FALSE)
  /\ ledger' = [ledger EXCEPT ![r].counted = @ + 1]
  /\ Goto(r, "ready")
  /\ UNCHANGED <<admin, live, usage>>

\* A failed attempt: counted if it has a status, and reported to the breaker.
AttemptFailed(r) ==
  /\ req[r].pc = "answered" /\ req[r].last \in Failures
  /\ targets' = AfterResult(targets, req[r].chain[req[r].sent], FALSE)
  /\ ledger' = [ledger EXCEPT ![r].counted = IF req[r].last \in FailedStatuses THEN @ + 1 ELSE @]
  /\ Goto(r, "ready")
  /\ UNCHANGED <<admin, live, usage>>

\* Wrong on purpose: the success is credited to the primary target.
AttemptSucceededCreditsPrimary(r) ==
  /\ req[r].pc = "answered" /\ req[r].last \notin Failures
  /\ targets' = AfterResult(targets, Head(req[r].chain), TRUE)
  /\ Goto(r, "forwarded")
  /\ UNCHANGED <<admin, live, usage, ledger>>

\* Any other status is the answer: reported as a success.
AttemptSucceeded(r) ==
  /\ req[r].pc = "answered" /\ req[r].last \notin Failures
  /\ targets' = AfterResult(targets, req[r].chain[req[r].sent], TRUE)
  /\ Goto(r, "forwarded")
  /\ UNCHANGED <<admin, live, usage, ledger>>

\* Wrong on purpose: the fallback targets are not tried.
GiveUpEarly(r) ==
  /\ req[r].pc = "ready" /\ req[r].sent >= 1
  /\ ledger' = [ledger EXCEPT ![r].counted = IF req[r].last \in TransportErrors THEN @ + 1 ELSE @]
  /\ Respond(r, 502, ErrorCode(req[r].last))
  /\ UNCHANGED <<admin, targets, live, usage>>

\* Wrong on purpose: a chain that ends in a transport error is not counted.
GiveUpUncounted(r) ==
  /\ req[r].pc = "ready" /\ req[r].sent = Len(req[r].chain)
  /\ Respond(r, 502, ErrorCode(req[r].last))
  /\ UNCHANGED <<admin, targets, live, usage, ledger>>

\* Every target failed: 502, and one more error if the last failure had no status.
GiveUp(r) ==
  /\ req[r].pc = "ready" /\ req[r].sent = Len(req[r].chain)
  /\ ledger' = [ledger EXCEPT ![r].counted = IF req[r].last \in TransportErrors THEN @ + 1 ELSE @]
  /\ Respond(r, 502, ErrorCode(req[r].last))
  /\ UNCHANGED <<admin, targets, live, usage>>

\* quotaStore.Record, and the upstream's answer is passed on.
Settle(r) ==
  /\ req[r].pc = "forwarded"
  /\ usage' = [usage EXCEPT ![req[r].id] = AfterRecord(@, Estimate)]
  /\ ledger' = [ledger EXCEPT ![r].charged = @ + 1]
  /\ Respond(r, 200, "none")
  /\ UNCHANGED <<admin, targets, live>>

-----------------------------------------------------------------------------

\* GET /v1/models, by a client whose key was accepted: the upstream is asked.
BeginList(r) ==
  /\ req[r].pc = "reading" /\ Catalogs # {}
  /\ Goto(r, "listing")
  /\ UNCHANGED <<admin, targets, live, usage, ledger>>

\* adapter.ListModels returns the upstream's models, or an error of whatever kind.
UpstreamLists(r) ==
  /\ req[r].pc = "listing"
  /\ \/ Respond(r, 502, "UPSTREAM_UNAVAILABLE")
     \/ /\ ~req[r].gone
        /\ \E list \in Catalogs :
             req' = [req EXCEPT ![r] = [@ EXCEPT !.pc = "filtering", !.rest = list]]
  /\ UNCHANGED <<admin, targets, live, usage, ledger>>

\* One turn of ListModels' loop: a model the policy denies the key is left out.
FilterNext(r) ==
  /\ req[r].pc = "filtering" /\ req[r].rest # <<>>
  /\ LET m == Head(req[r].rest)
         shown == EvaluateModel(denied, req[r].key, m) = "ALLOWED"
     IN  req' = [req EXCEPT ![r] =
                   [req[r] EXCEPT !.rest = Tail(@),
                                  !.chain = IF shown THEN Append(@, m) ELSE @]]
  /\ UNCHANGED <<admin, targets, live, usage, ledger>>

EndList(r) ==
  /\ req[r].pc = "filtering" /\ req[r].rest = <<>>
  /\ Respond(r, 200, "models")
  /\ UNCHANGED <<admin, targets, live, usage, ledger>>

\* Every step the handler of r takes on its own.
Serve(r) ==
  \/ \E k \in Keys : Authenticate(r, k)
  \/ RejectBody(r)
  \/ \E name \in Asks : BeginResolve(r, name)
  \/ AskNext(r) \/ EndResolve(r)
  \/ CheckPolicy(r) \/ CheckRate(r) \/ CheckQuota(r)
  \/ Send(r) \/ AttemptFailed(r) \/ AttemptSucceeded(r) \/ GiveUp(r) \/ Settle(r)
  \/ BeginList(r) \/ FilterNext(r) \/ EndList(r)

-----------------------------------------------------------------------------

\* The client closes its connection, which cancels r.Context().
ClientLeaves(r) ==
  /\ req[r].pc \notin {"new", "done"}
  /\ req' = [req EXCEPT ![r].gone = TRUE]
  /\ UNCHANGED <<admin, targets, live, usage, ledger>>

\* Writers of e.aliases wait for the readers in Resolve.
NobodyResolving == \A r \in Requests : req[r].pc # "resolving"

\* PUT /api/v1/routes/{alias}
SetAlias(a, route) ==
  /\ NobodyResolving
  /\ aliases' = [b \in DOMAIN aliases \cup {a} |-> IF b = a THEN route ELSE aliases[b]]
  /\ UNCHANGED <<denied, keys, targets, live, usage, req, ledger>>

\* DELETE /api/v1/routes/{alias}; an alias that is not there is an error.
DeleteAlias(a) ==
  /\ NobodyResolving
  /\ a \in DOMAIN aliases
  /\ aliases' = [b \in DOMAIN aliases \ {a} |-> aliases[b]]
  /\ UNCHANGED <<denied, keys, targets, live, usage, req, ledger>>

\* PUT /api/v1/policies
SetGlobalDeny(list) ==
  /\ denied' = list
  /\ UNCHANGED <<aliases, keys, targets, live, usage, req, ledger>>

\* PUT /api/v1/keys/{id}: the key store's Update puts a new record in the key's place;
\* the handlers that found the old one keep it.  A key created later is one that no
\* request has used yet.
UpdateKey(k, record) ==
  /\ k \in DOMAIN keys
  /\ keys' = [keys EXCEPT ![k] = record]
  /\ UNCHANGED <<aliases, denied, targets, live, usage, req, ledger>>

\* DELETE /api/v1/keys/{id}
DeleteKey(k) ==
  /\ k \in DOMAIN keys
  /\ keys' = [j \in DOMAIN keys \ {k} |-> keys[j]]
  /\ UNCHANGED <<aliases, denied, targets, live, usage, req, ledger>>

\* Time passes: for the circuits, and out of a key's sliding window.
Tick ==
  /\ targets' = AfterTick(targets)
  /\ UNCHANGED <<admin, live, usage, req, ledger>>

WindowSlides(k) ==
  /\ \E n \in 0..(live[k] - 1) : live' = [live EXCEPT ![k] = n]
  /\ UNCHANGED <<admin, targets, usage, req, ledger>>

Environment ==
  \/ \E r \in Requests : ClientLeaves(r)
  \/ \E a \in Aliases : DeleteAlias(a) \/ \E route \in Routes : SetAlias(a, route)
  \/ \E list \in DenyLists : SetGlobalDeny(list)
  \/ \E k \in Keys : DeleteKey(k) \/ \E record \in KeyRecords : UpdateKey(k, record)
  \/ Tick
  \/ \E k \in Keys : WindowSlides(k)

Next ==
  \/ \E r \in Requests : Serve(r) \/ UpstreamAnswers(r) \/ UpstreamLists(r)
  \/ Environment

Spec == Init /\ [][Next]_vars

\* Each handler is a goroutine: it is never delayed for ever.
HandlersRun == \A r \in Requests : WF_vars(Serve(r))

\* The upstream, or the network, ends every attempt some day.
UpstreamResponds == \A r \in Requests : WF_vars(UpstreamAnswers(r)) /\ WF_vars(UpstreamLists(r))

FairSpec == Spec /\ HandlersRun /\ UpstreamResponds
=============================================================================
