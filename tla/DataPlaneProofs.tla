--------------------------- MODULE DataPlaneProofs ---------------------------
(***************************************************************************)
(* Proofs about module DataPlaneProperties, for any number of requests,     *)
(* keys and models, routes of any length, and whatever the administrator,   *)
(* the upstream and the clients do meanwhile.  The argument: what a request *)
(* has done to the system is decided by how far its handler has come.       *)
(***************************************************************************)
EXTENDS DataPlaneProperties, BreakerProofs, FiniteSetTheorems, TLAPS

Attempts == [target : Names, outcome : Outcomes \cup {"cancelled"}]

Codes == {"none", "models", "invalid_api_key", "invalid_request_error", "routing_failed",
          "model_not_allowed", "rate_limited", "quota_exceeded", "UPSTREAM_AUTH_ERROR",
          "UPSTREAM_RATE_LIMIT", "UPSTREAM_UNAVAILABLE", "UPSTREAM_UNREACHABLE"}

Statuses == {0, 200, 400, 401, 403, 429, 502, 503}

Handlers ==
  [pc : Phases, id : Keys \cup {NoKey}, key : KeyRecords \cup {NoKey},
   rest : Seq(Names), chain : Seq(Names), sent : Nat,
   last : Outcomes \cup {"none", "cancelled"}, gone : BOOLEAN, status : Statuses,
   code : Codes]

Effects == [slot : BOOLEAN, charged : Nat, refused : Seq(Names), tried : Seq(Attempts),
            counted : Nat,
            events : SUBSET {"AUTH_FAILURE", "ROUTE_RESOLVED", "POLICY_DENY", "RATE_LIMITED"}]

\* What the administrator sets.
Settings ==
  /\ DOMAIN aliases \subseteq Aliases /\ \A a \in DOMAIN aliases : aliases[a] \in Routes
  /\ denied \in DenyLists
  /\ DOMAIN keys \subseteq Keys /\ \A k \in DOMAIN keys : keys[k] \in KeyRecords

Unsent(e) == e.tried = <<>> /\ e.charged = 0 /\ e.counted = 0
Free(e) == Unsent(e) /\ e.slot = FALSE
Metered(q, e) == (e.slot <=> q.key.rpm > 0) /\ e.events = {"ROUTE_RESOLVED"} /\ q.chain # <<>>

\* The first n attempts failed.
AllFailed(e, n) == \A i \in 1..n : e.tried[i].outcome \in Failures

\* What a request that was answered with this status and code has done.
Ended(q, e) ==
  \/ q.status = 401 /\ q.code = "invalid_api_key" /\ Free(e) /\ e.events = {"AUTH_FAILURE"}
  \/ q.status = 400 /\ q.code = "invalid_request_error" /\ Free(e) /\ e.events = {}
  \/ q.status = 503 /\ q.code = "routing_failed" /\ Free(e) /\ e.events = {}
  \/ /\ q.status = 403 /\ q.code = "model_not_allowed"
     /\ Free(e) /\ e.events = {"ROUTE_RESOLVED", "POLICY_DENY"}
  \/ /\ q.status = 429 /\ q.code = "rate_limited"
     /\ Free(e) /\ e.events = {"ROUTE_RESOLVED", "RATE_LIMITED"}
  \/ q.status = 429 /\ q.code = "quota_exceeded" /\ Unsent(e) /\ Metered(q, e)
  \/ q.status = 200 /\ q.code = "models" /\ Free(e) /\ e.events = {}
  \/ /\ q.status = 502 /\ q.code = "UPSTREAM_UNAVAILABLE" /\ q.chain = <<>>
     /\ Free(e) /\ e.events = {}
  \/ /\ q.status = 502 /\ Metered(q, e) /\ e.charged = 0
     /\ Len(e.tried) = Len(q.chain) /\ AllFailed(e, Len(q.chain))
     /\ e.counted \in 1..Len(q.chain)
     /\ q.code = ErrorCode(e.tried[Len(e.tried)].outcome)
  \/ /\ q.status = 200 /\ q.code = "none" /\ Metered(q, e) /\ e.charged = 1
     /\ Len(e.tried) >= 1 /\ AllFailed(e, Len(e.tried) - 1)
     /\ e.tried[Len(e.tried)].outcome \notin Failures
     /\ e.counted <= Len(e.tried) - 1

\* What a request has done when its handler is at q.pc.
Stage(q, e) ==
  /\ q.sent <= Len(q.chain)
  /\ q.pc # "done" => q.status = 0
  /\ q.pc \in {"new", "reading", "listing", "resolving", "filtering"} =>
       Free(e) /\ e.events = {} /\ q.sent = 0
  /\ q.pc \in {"new", "reading", "listing"} => q.chain = <<>>
  /\ q.pc \in {"resolved", "permitted"} =>
       Free(e) /\ e.events = {"ROUTE_RESOLVED"} /\ q.chain # <<>> /\ q.sent = 0
  /\ q.pc = "metered" => Unsent(e) /\ Metered(q, e) /\ q.sent = 0
  /\ q.pc \in {"ready", "waiting", "answered", "forwarded"} =>
       Metered(q, e) /\ e.charged = 0
  /\ q.pc = "ready" =>
       /\ Len(e.tried) = q.sent /\ AllFailed(e, q.sent)
       /\ e.counted <= q.sent
       /\ q.sent > 0 =>
            /\ q.last = e.tried[q.sent].outcome
            /\ q.last \in TransportErrors => e.counted <= q.sent - 1
            /\ q.last \in FailedStatuses => e.counted >= 1
  /\ q.pc \in {"waiting", "answered", "forwarded"} =>
       q.sent >= 1 /\ AllFailed(e, q.sent - 1) /\ e.counted <= q.sent - 1
  /\ q.pc = "waiting" => Len(e.tried) = q.sent - 1
  /\ q.pc \in {"answered", "forwarded"} =>
       /\ Len(e.tried) = q.sent
       /\ e.tried[q.sent].outcome = q.last /\ e.tried[q.sent].target = q.chain[q.sent]
  /\ q.pc = "forwarded" => q.last \notin Failures
  /\ q.pc = "done" => Ended(q, e)

StageInv ==
  /\ Settings
  /\ req \in [Requests -> Handlers]
  /\ ledger \in [Requests -> Effects]
  /\ \A r \in Requests : Stage(req[r], ledger[r])

-----------------------------------------------------------------------------

\* A step of one handler need only be looked at for that request.
LEMMA OneMoves ==
  ASSUME StageInv, NEW r \in Requests, NEW q \in Handlers, NEW e \in Effects, Stage(q, e),
         req' = [req EXCEPT ![r] = q], ledger' = [ledger EXCEPT ![r] = e], Settings'
  PROVE  StageInv'
<1>1. req' \in [Requests -> Handlers] /\ ledger' \in [Requests -> Effects]
  BY DEF StageInv
<1>2. ASSUME NEW s \in Requests PROVE Stage(req'[s], ledger'[s])
  BY DEF StageInv
<1> QED
  BY <1>1, <1>2 DEF StageInv

\* Nor its effects, if they do not change.
LEMMA OneMovesOn ==
  ASSUME StageInv, NEW r \in Requests, NEW q \in Handlers, Stage(q, ledger[r]),
         req' = [req EXCEPT ![r] = q], ledger' = ledger, Settings'
  PROVE  StageInv'
<1>1. ledger' = [ledger EXCEPT ![r] = ledger[r]] /\ ledger[r] \in Effects
  BY DEF StageInv
<1> QED
  BY <1>1, OneMoves

\* A request that is answered, whatever with.
Answer(q, status, code) == [q EXCEPT !.pc = "done", !.status = status, !.code = code]

LEMMA Answered ==
  ASSUME NEW q \in Handlers, NEW e, Stage(q, e), NEW status \in Statuses, NEW code \in Codes,
         NEW d, Ended(Answer(q, status, code), d)
  PROVE  Answer(q, status, code) \in Handlers /\ Stage(Answer(q, status, code), d)
<1> DEFINE p == Answer(q, status, code)
<1>1. p \in Handlers
  BY DEF Answer, Handlers, Phases
<1>2. p.pc = "done" /\ p.sent = q.sent /\ p.chain = q.chain
  BY DEF Answer, Handlers
<1>3. q.sent <= Len(q.chain)
  BY DEF Stage
<1> HIDE DEF p
<1>4. Stage(p, d)
  BY <1>2, <1>3 DEF Stage, p
<1> QED
  BY <1>1, <1>4 DEF p

LEMMA SettingsStay ==
  ASSUME Settings, UNCHANGED admin
  PROVE  Settings'
BY DEF Settings, admin

LEMMA StageInit == Init => StageInv
<1> SUFFICES ASSUME Init PROVE StageInv
  OBVIOUS
<1>1. Settings
  BY DataPlaneAssumption DEF Init, Settings
<1>2. NoRequest \in Handlers
  BY DEF NoRequest, Handlers, Phases, Statuses, Codes
<1>3. NoEffects \in Effects
  BY DEF NoEffects, Effects
<1>4. Stage(NoRequest, NoEffects)
  BY DEF Stage, NoRequest, NoEffects, Free, Unsent
<1> QED
  BY <1>1, <1>2, <1>3, <1>4 DEF Init, StageInv

LEMMA AuthenticateStage ==
  ASSUME StageInv, NEW r \in Requests, NEW k \in Keys, Authenticate(r, k)
  PROVE  StageInv'
<1> DEFINE q == req[r]
           e == ledger[r]
<1>1. Settings' /\ q \in Handlers /\ e \in Effects /\ Stage(q, e) /\ q.pc = "new"
  BY SettingsStay DEF Authenticate, StageInv
<1>2. CASE k \in DOMAIN keys /\ keys[k].enabled
  <2> DEFINE p == [q EXCEPT !.pc = "reading", !.id = k, !.key = keys[k]]
  <2>1. req' = [req EXCEPT ![r] = p] /\ ledger' = ledger
    BY <1>2 DEF Authenticate
  <2>2. p \in Handlers /\ Stage(p, e)
    BY <1>1, <1>2 DEF Handlers, Phases, Stage, StageInv, Settings
  <2> QED
    BY <1>1, <2>1, <2>2, OneMovesOn
<1>3. CASE ~(k \in DOMAIN keys /\ keys[k].enabled)
  <2> DEFINE p == Answer(q, 401, "invalid_api_key")
             d == [e EXCEPT !.events = @ \cup {"AUTH_FAILURE"}]
  <2>1. req' = [req EXCEPT ![r] = p] /\ ledger' = [ledger EXCEPT ![r] = d]
    BY <1>3 DEF Authenticate, Log, StageInv, Respond, Answer
  <2>2. d \in Effects
    BY <1>1 DEF Effects
  <2>3. Ended(p, d)
    BY <1>1 DEF Stage, Ended, Answer, Free, Unsent, Handlers, Effects
  <2>4. 401 \in Statuses /\ "invalid_api_key" \in Codes
    BY DEF Statuses, Codes
  <2>6. p \in Handlers /\ Stage(p, d)
    BY <1>1, <2>4, <2>3, Answered
  <2> HIDE DEF p, d
  <2> QED
    BY <1>1, <2>1, <2>2, <2>6, OneMoves
<1> QED
  BY <1>2, <1>3

LEMMA RejectBodyStage ==
  ASSUME StageInv, NEW r \in Requests, RejectBody(r)
  PROVE  StageInv'
<1> DEFINE q == req[r]
           e == ledger[r]
<1>1. Settings' /\ q \in Handlers /\ e \in Effects /\ Stage(q, e) /\ q.pc = "reading"
  BY SettingsStay DEF RejectBody, StageInv
<1> DEFINE p == Answer(q, 400, "invalid_request_error")
<1>2. req' = [req EXCEPT ![r] = p] /\ ledger' = ledger
  BY DEF RejectBody, Respond, Answer
<1>4. Ended(p, e)
  BY <1>1 DEF Stage, Ended, Answer, Free, Unsent, Handlers, Effects
<1>5. 400 \in Statuses /\ "invalid_request_error" \in Codes
  BY DEF Statuses, Codes
<1>7. p \in Handlers /\ Stage(p, e)
  BY <1>1, <1>5, <1>4, Answered
<1> HIDE DEF p
<1> QED
  BY <1>1, <1>2, <1>7, OneMovesOn

LEMMA BeginResolveStage ==
  ASSUME StageInv, NEW r \in Requests, NEW name \in Asks, BeginResolve(r, name)
  PROVE  StageInv'
<1> DEFINE q == req[r]
           e == ledger[r]
<1>1. Settings' /\ q \in Handlers /\ e \in Effects /\ Stage(q, e) /\ q.pc = "reading"
  BY SettingsStay DEF BeginResolve, StageInv
<1> DEFINE route == IF name \in DOMAIN aliases THEN aliases[name] ELSE <<name>>
           p == [q EXCEPT !.pc = "resolving", !.rest = route]
<1>2. route \in Seq(Names)
  BY DataPlaneAssumption DEF StageInv, Settings
<1>3. p \in Handlers
  BY <1>1, <1>2 DEF Handlers, Phases
<1>4. Stage(p, e)
  BY <1>1 DEF Stage, Handlers
<1>5. req' = [req EXCEPT ![r] = p] /\ ledger' = ledger
  BY DEF BeginResolve
<1> QED
  BY <1>1, <1>3, <1>4, <1>5, OneMovesOn

LEMMA AskNextStage ==
  ASSUME StageInv, NEW r \in Requests, AskNext(r)
  PROVE  StageInv'
<1> DEFINE q == req[r]
           e == ledger[r]
<1>1. Settings' /\ q \in Handlers /\ e \in Effects /\ Stage(q, e) /\ q.pc = "resolving"
  BY SettingsStay DEF AskNext, StageInv
<1> DEFINE t == Head(q.rest)
           p == [q EXCEPT !.rest = Tail(@),
                          !.chain = IF Allows(targets, t) THEN Append(@, t) ELSE @]
<1>2. q.rest \in Seq(Names) /\ q.rest # <<>> /\ q.chain \in Seq(Names)
  BY <1>1 DEF AskNext, Handlers
<1>3. t \in Names /\ Tail(q.rest) \in Seq(Names) /\ Append(q.chain, t) \in Seq(Names)
  BY <1>2
<1> DEFINE left == IF Allows(targets, t) THEN e.refused ELSE Append(e.refused, t)
           d == [e EXCEPT !.refused = left]
<1>4. p \in Handlers
  BY <1>1, <1>2, <1>3 DEF Handlers
<1>5. e.refused \in Seq(Names) /\ left \in Seq(Names)
  BY <1>1, <1>3 DEF Effects
<1>6. req' = [req EXCEPT ![r] = p] /\ ledger' = [ledger EXCEPT ![r] = d]
  BY DEF AskNext, StageInv
<1> HIDE DEF left
<1>7. d \in Effects
  BY <1>1, <1>5 DEF Effects
<1>8. /\ d.slot = e.slot /\ d.charged = e.charged /\ d.tried = e.tried /\ d.counted = e.counted
      /\ d.events = e.events
      /\ p.pc = "resolving" /\ p.sent = q.sent /\ p.chain \in Seq(Names) /\ p.status = q.status
  BY <1>1, <1>2, <1>3 DEF Effects, Handlers
<1>9. Free(e) /\ e.events = {} /\ q.sent = 0 /\ q.status = 0
  BY <1>1 DEF Stage
<1> HIDE DEF p, d
<1>10. Free(d) /\ d.events = {} /\ p.sent = 0 /\ p.status = 0
  BY <1>8, <1>9 DEF Free, Unsent
<1>11. Stage(p, d)
  BY <1>8, <1>10 DEF Stage
<1> QED
  BY <1>1, <1>4, <1>6, <1>7, <1>11, OneMoves

LEMMA EndResolveStage ==
  ASSUME StageInv, NEW r \in Requests, EndResolve(r)
  PROVE  StageInv'
<1> DEFINE q == req[r]
           e == ledger[r]
<1>1. Settings' /\ q \in Handlers /\ e \in Effects /\ Stage(q, e) /\ q.pc = "resolving"
  BY SettingsStay DEF EndResolve, StageInv
<1>2. CASE q.chain = <<>>
  <2> DEFINE p == Answer(q, 503, "routing_failed")
             d == e
  <2>1. req' = [req EXCEPT ![r] = p] /\ ledger' = [ledger EXCEPT ![r] = d]
    BY <1>2 DEF EndResolve, Log, StageInv, Respond, Answer
  <2>2. d \in Effects
    BY <1>1 DEF Effects
  <2>3. Ended(p, d)
    BY <1>1 DEF Stage, Ended, Answer, Free, Unsent, Handlers, Effects
  <2>4. 503 \in Statuses /\ "routing_failed" \in Codes
    BY DEF Statuses, Codes
  <2>6. p \in Handlers /\ Stage(p, d)
    BY <1>1, <2>4, <2>3, Answered
  <2> HIDE DEF p, d
  <2> QED
    BY <1>1, <2>1, <2>2, <2>6, OneMoves
<1>3. CASE q.chain # <<>>
  <2> DEFINE p == [q EXCEPT !.pc = "resolved"]
             d == [e EXCEPT !.events = @ \cup {"ROUTE_RESOLVED"}]
  <2>1. req' = [req EXCEPT ![r] = p] /\ ledger' = [ledger EXCEPT ![r] = d]
    BY <1>3 DEF EndResolve, Goto, Log, StageInv
  <2>2. p \in Handlers
    BY <1>1 DEF Handlers, Phases
  <2>3. d \in Effects
    BY <1>1 DEF Effects
  <2>4. Stage(p, d)
    BY <1>1, <1>3 DEF Stage, Handlers, Effects, Free, Unsent
  <2> QED
    BY <1>1, <2>1, <2>2, <2>3, <2>4, OneMoves
<1> QED
  BY <1>2, <1>3

LEMMA CheckPolicyStage ==
  ASSUME StageInv, NEW r \in Requests, CheckPolicy(r)
  PROVE  StageInv'
<1> DEFINE q == req[r]
           e == ledger[r]
<1>1. Settings' /\ q \in Handlers /\ e \in Effects /\ Stage(q, e) /\ q.pc = "resolved"
  BY SettingsStay DEF CheckPolicy, StageInv
<1>2. CASE EvaluateModel(denied, q.key, Head(q.chain)) # "ALLOWED"
  <2> DEFINE p == Answer(q, 403, "model_not_allowed")
             d == [e EXCEPT !.events = @ \cup {"POLICY_DENY"}]
  <2>1. req' = [req EXCEPT ![r] = p] /\ ledger' = [ledger EXCEPT ![r] = d]
    BY <1>2 DEF CheckPolicy, Log, StageInv, Respond, Answer
  <2>2. d \in Effects
    BY <1>1 DEF Effects
  <2>3. Ended(p, d)
    BY <1>1 DEF Stage, Ended, Answer, Free, Unsent, Handlers, Effects
  <2>4. 403 \in Statuses /\ "model_not_allowed" \in Codes
    BY DEF Statuses, Codes
  <2>6. p \in Handlers /\ Stage(p, d)
    BY <1>1, <2>4, <2>3, Answered
  <2> HIDE DEF p, d
  <2> QED
    BY <1>1, <2>1, <2>2, <2>6, OneMoves
<1>3. CASE EvaluateModel(denied, q.key, Head(q.chain)) = "ALLOWED"
  <2> DEFINE p == [q EXCEPT !.pc = "permitted"]
  <2>1. req' = [req EXCEPT ![r] = p] /\ ledger' = ledger
    BY <1>3 DEF CheckPolicy, Goto, Log, StageInv
  <2>2. p \in Handlers
    BY <1>1 DEF Handlers, Phases
  <2>4. Stage(p, e)
    BY <1>1, <1>3 DEF Stage, Handlers, Effects
  <2> QED
    BY <1>1, <2>1, <2>2, <2>4, OneMovesOn
<1> QED
  BY <1>2, <1>3

LEMMA CheckRateStage ==
  ASSUME StageInv, NEW r \in Requests, CheckRate(r)
  PROVE  StageInv'
<1> DEFINE q == req[r]
           e == ledger[r]
<1>1. Settings' /\ q \in Handlers /\ e \in Effects /\ Stage(q, e) /\ q.pc = "permitted"
  BY SettingsStay DEF CheckRate, StageInv
<1>2. CASE q.key.rpm = 0 /\ Goto(r, "metered") /\ UNCHANGED <<live, ledger>>
  <2> DEFINE p == [q EXCEPT !.pc = "metered"]
  <2>1. req' = [req EXCEPT ![r] = p] /\ ledger' = ledger
    BY <1>2 DEF CheckRate, Goto, Log, StageInv
  <2>2. p \in Handlers
    BY <1>1 DEF Handlers, Phases
  <2>4. Stage(p, e)
    BY <1>1, <1>2 DEF Stage, Handlers, Effects, Free, Unsent, Metered
  <2> QED
    BY <1>1, <2>1, <2>2, <2>4, OneMovesOn
<1>3. CASE /\ q.key.rpm > 0 /\ Goto(r, "metered")
           /\ ledger' = [ledger EXCEPT ![r].slot = TRUE]
  <2> DEFINE p == [q EXCEPT !.pc = "metered"]
             d == [e EXCEPT !.slot = TRUE]
  <2>1. req' = [req EXCEPT ![r] = p] /\ ledger' = [ledger EXCEPT ![r] = d]
    BY <1>3 DEF CheckRate, Goto, Log, StageInv
  <2>2. p \in Handlers
    BY <1>1 DEF Handlers, Phases
  <2>3. d \in Effects
    BY <1>1 DEF Effects
  <2>4. Stage(p, d)
    BY <1>1, <1>3 DEF Stage, Handlers, Effects, Free, Unsent, Metered
  <2> QED
    BY <1>1, <2>1, <2>2, <2>3, <2>4, OneMoves
<1>4. CASE Respond(r, 429, "rate_limited") /\ Log(r, "RATE_LIMITED")
  <2> DEFINE p == Answer(q, 429, "rate_limited")
             d == [e EXCEPT !.events = @ \cup {"RATE_LIMITED"}]
  <2>1. req' = [req EXCEPT ![r] = p] /\ ledger' = [ledger EXCEPT ![r] = d]
    BY <1>4 DEF CheckRate, Log, StageInv, Respond, Answer
  <2>2. d \in Effects
    BY <1>1 DEF Effects
  <2>3. Ended(p, d)
    BY <1>1 DEF Stage, Ended, Answer, Free, Unsent, Handlers, Effects
  <2>4. 429 \in Statuses /\ "rate_limited" \in Codes
    BY DEF Statuses, Codes
  <2>6. p \in Handlers /\ Stage(p, d)
    BY <1>1, <2>4, <2>3, Answered
  <2> HIDE DEF p, d
  <2> QED
    BY <1>1, <2>1, <2>2, <2>6, OneMoves
<1> QED
  BY <1>2, <1>3, <1>4 DEF CheckRate

LEMMA CheckQuotaStage ==
  ASSUME StageInv, NEW r \in Requests, CheckQuota(r)
  PROVE  StageInv'
<1> DEFINE q == req[r]
           e == ledger[r]
<1>1. Settings' /\ q \in Handlers /\ e \in Effects /\ Stage(q, e) /\ q.pc = "metered"
  BY SettingsStay DEF CheckQuota, StageInv
<1>2. CASE ~QuotaAllows(usage[q.id], q.key.daily, q.key.monthly, Estimate)
  <2> DEFINE p == Answer(q, 429, "quota_exceeded")
             d == e
  <2>1. req' = [req EXCEPT ![r] = p] /\ ledger' = [ledger EXCEPT ![r] = d]
    BY <1>2 DEF CheckQuota, Log, StageInv, Respond, Answer
  <2>2. d \in Effects
    BY <1>1 DEF Effects
  <2>3. Ended(p, d)
    BY <1>1 DEF Stage, Ended, Answer, Unsent, Metered, Handlers, Effects
  <2>4. 429 \in Statuses /\ "quota_exceeded" \in Codes
    BY DEF Statuses, Codes
  <2>6. p \in Handlers /\ Stage(p, d)
    BY <1>1, <2>4, <2>3, Answered
  <2> HIDE DEF p, d
  <2> QED
    BY <1>1, <2>1, <2>2, <2>6, OneMoves
<1>3. CASE QuotaAllows(usage[q.id], q.key.daily, q.key.monthly, Estimate)
  <2> DEFINE p == [q EXCEPT !.pc = "ready"]
  <2>1. req' = [req EXCEPT ![r] = p] /\ ledger' = ledger
    BY <1>3 DEF CheckQuota, Goto, Log, StageInv
  <2>2. p \in Handlers
    BY <1>1 DEF Handlers, Phases
  <2>4. Stage(p, e)
    BY <1>1, <1>3 DEF Stage, Handlers, Effects, Unsent, Metered, AllFailed
  <2> QED
    BY <1>1, <2>1, <2>2, <2>4, OneMovesOn
<1> QED
  BY <1>2, <1>3

LEMMA SendStage ==
  ASSUME StageInv, NEW r \in Requests, Send(r)
  PROVE  StageInv'
<1> DEFINE q == req[r]
           e == ledger[r]
<1>1. Settings' /\ q \in Handlers /\ e \in Effects /\ Stage(q, e) /\ q.pc = "ready"
  BY SettingsStay DEF Send, StageInv
<1> DEFINE p == [q EXCEPT !.pc = "waiting", !.sent = @ + 1]
<1>2. req' = [req EXCEPT ![r] = p] /\ ledger' = ledger /\ q.sent < Len(q.chain)
  BY DEF Send
<1>3. q.sent \in Nat /\ Len(q.chain) \in Nat /\ e.counted \in Nat
  BY <1>1 DEF Handlers, Effects
<1>4. p \in Handlers
  <2>1. q \in Handlers
    BY <1>1
  <2>2. "waiting" \in Phases /\ q.sent + 1 \in Nat
    BY <1>3 DEF Phases
  <2>3. \A n \in Nat : [q EXCEPT !.pc = "waiting", !.sent = n] \in Handlers
    BY <2>1, <2>2 DEF Handlers
  <2>4. p = [q EXCEPT !.pc = "waiting", !.sent = q.sent + 1]
    BY <2>1 DEF Handlers
  <2> QED
    BY <2>2, <2>3, <2>4
<1>5. Stage(p, e)
  BY <1>1, <1>2, <1>3 DEF Stage, Handlers, Metered
<1> QED
  BY <1>1, <1>2, <1>4, <1>5, OneMovesOn

\* One attempt more leaves those before it as they were.
LEMMA OneMoreAttempt ==
  ASSUME NEW e \in Effects, NEW a \in Attempts, NEW d,
         d = [e EXCEPT !.tried = Append(@, a)]
  PROVE  /\ d \in Effects
         /\ Len(d.tried) = Len(e.tried) + 1
         /\ d.tried[Len(e.tried) + 1] = a
         /\ \A i \in 1..Len(e.tried) : d.tried[i] = e.tried[i]
<1>1. e.tried \in Seq(Attempts)
  BY DEF Effects
<1>2. d.tried = Append(e.tried, a)
  BY DEF Effects
<1>3. d \in Effects
  <2>1. Append(e.tried, a) \in Seq(Attempts)
    BY <1>1
  <2>2. \A t \in Seq(Attempts) : [e EXCEPT !.tried = t] \in Effects
    BY DEF Effects
  <2>3. d = [e EXCEPT !.tried = Append(e.tried, a)]
    BY DEF Effects
  <2> QED
    BY <2>1, <2>2, <2>3
<1> QED
  BY <1>1, <1>2, <1>3

LEMMA UpstreamAnswersStage ==
  ASSUME StageInv, NEW r \in Requests, UpstreamAnswers(r)
  PROVE  StageInv'
<1> DEFINE q == req[r]
           e == ledger[r]
<1>1. Settings' /\ q \in Handlers /\ e \in Effects /\ Stage(q, e) /\ q.pc = "waiting"
  BY SettingsStay DEF UpstreamAnswers, StageInv
<1>2. PICK o \in Outcomes \cup {"cancelled"} :
        /\ req' = [req EXCEPT ![r] = [@ EXCEPT !.pc = "answered", !.last = o]]
        /\ ledger' = [ledger EXCEPT ![r].tried =
                        Append(@, [target |-> q.chain[q.sent], outcome |-> o])]
  BY DEF UpstreamAnswers
<1> DEFINE a == [target |-> q.chain[q.sent], outcome |-> o]
           p == [q EXCEPT !.pc = "answered", !.last = o]
           d == [e EXCEPT !.tried = Append(@, a)]
<1>3. q.chain \in Seq(Names) /\ q.sent \in 1..Len(q.chain) /\ Len(e.tried) = q.sent - 1
  BY <1>1 DEF Handlers, Stage
<1>4. a \in Attempts
  BY <1>3 DEF Attempts
<1>5. /\ d \in Effects
      /\ Len(d.tried) = q.sent
      /\ d.tried[q.sent] = a
      /\ \A i \in 1..(q.sent - 1) : d.tried[i] = e.tried[i]
  BY <1>1, <1>3, <1>4, OneMoreAttempt
<1>6. p \in Handlers
  BY <1>1 DEF Handlers, Phases
<1>7. /\ p.pc = "answered" /\ p.last = o /\ p.sent = q.sent /\ p.chain = q.chain
      /\ p.key = q.key /\ p.status = q.status
      /\ d.slot = e.slot /\ d.charged = e.charged /\ d.counted = e.counted /\ d.events = e.events
  BY <1>1 DEF Handlers, Effects
<1>8. AllFailed(d, q.sent - 1)
  BY <1>1, <1>5 DEF Stage, AllFailed
<1>9. Stage(p, d)
  BY <1>1, <1>3, <1>5, <1>7, <1>8 DEF Stage, Metered
<1>10. req' = [req EXCEPT ![r] = p] /\ ledger' = [ledger EXCEPT ![r] = d]
  BY <1>2 DEF StageInv
<1> QED
  BY <1>1, <1>5, <1>6, <1>9, <1>10, OneMoves

LEMMA AttemptFailedStage ==
  ASSUME StageInv, NEW r \in Requests, AttemptFailed(r)
  PROVE  StageInv'
<1> DEFINE q == req[r]
           e == ledger[r]
<1>1. Settings' /\ q \in Handlers /\ e \in Effects /\ Stage(q, e) /\ q.pc = "answered"
  BY SettingsStay DEF AttemptFailed, StageInv
<1> DEFINE p == [q EXCEPT !.pc = "ready"]
           d == [e EXCEPT !.counted = IF q.last \in FailedStatuses THEN @ + 1 ELSE @]
<1>2. /\ req' = [req EXCEPT ![r] = p] /\ ledger' = [ledger EXCEPT ![r] = d]
      /\ q.last \in Failures
  BY DEF AttemptFailed, Goto, StageInv
<1>3. p \in Handlers
  BY <1>1 DEF Handlers, Phases
<1>4. e.counted \in Nat /\ q.sent \in Nat
  BY <1>1 DEF Handlers, Effects
<1>5. d \in Effects
  <2>1. e \in Effects /\ (IF q.last \in FailedStatuses THEN e.counted + 1 ELSE e.counted) \in Nat
    BY <1>1, <1>4
  <2> QED
    BY <2>1 DEF Effects
<1>6. /\ p.pc = "ready" /\ p.last = q.last /\ p.sent = q.sent /\ p.chain = q.chain
      /\ p.key = q.key /\ p.status = q.status
      /\ d.slot = e.slot /\ d.charged = e.charged /\ d.tried = e.tried /\ d.events = e.events
  BY <1>1 DEF Handlers, Effects
<1>7. d.counted = IF q.last \in FailedStatuses THEN e.counted + 1 ELSE e.counted
  BY <1>1 DEF Effects
<1>8. AllFailed(d, q.sent)
  BY <1>1, <1>2, <1>4, <1>6 DEF Stage, AllFailed
<1>9. q.last \in TransportErrors => q.last \notin FailedStatuses
  BY DEF TransportErrors, FailedStatuses
<1>10. Stage(p, d)
  BY <1>1, <1>4, <1>6, <1>7, <1>8, <1>9 DEF Stage, Metered
<1> QED
  BY <1>1, <1>2, <1>3, <1>5, <1>10, OneMoves

LEMMA AttemptSucceededStage ==
  ASSUME StageInv, NEW r \in Requests, AttemptSucceeded(r)
  PROVE  StageInv'
<1> DEFINE q == req[r]
           e == ledger[r]
<1>1. Settings' /\ q \in Handlers /\ e \in Effects /\ Stage(q, e) /\ q.pc = "answered"
  BY SettingsStay DEF AttemptSucceeded, StageInv
<1> DEFINE p == [q EXCEPT !.pc = "forwarded"]
<1>2. req' = [req EXCEPT ![r] = p] /\ ledger' = ledger /\ q.last \notin Failures
  BY DEF AttemptSucceeded, Goto
<1>3. p \in Handlers
  BY <1>1 DEF Handlers, Phases
<1>4. Stage(p, e)
  BY <1>1, <1>2 DEF Stage, Handlers, Metered
<1> QED
  BY <1>1, <1>2, <1>3, <1>4, OneMovesOn

LEMMA GiveUpStage ==
  ASSUME StageInv, NEW r \in Requests, GiveUp(r)
  PROVE  StageInv'
<1> DEFINE q == req[r]
           e == ledger[r]
<1>1. Settings' /\ q \in Handlers /\ e \in Effects /\ Stage(q, e) /\ q.pc = "ready"
  BY SettingsStay DEF GiveUp, StageInv
<1> DEFINE p == Answer(q, 502, ErrorCode(q.last))
           d == [e EXCEPT !.counted = IF q.last \in TransportErrors THEN @ + 1 ELSE @]
<1>2. /\ req' = [req EXCEPT ![r] = p] /\ ledger' = [ledger EXCEPT ![r] = d]
      /\ q.sent = Len(q.chain)
  BY DEF GiveUp, Respond, Answer, StageInv
<1>3. 502 \in Statuses /\ ErrorCode(q.last) \in Codes
  BY DEF Statuses, Codes, ErrorCode
<1>5. e.counted \in Nat /\ q.sent \in Nat /\ q.chain \in Seq(Names)
  BY <1>1 DEF Handlers, Effects
<1>6. d \in Effects
  <2> DEFINE n == IF q.last \in TransportErrors THEN e.counted + 1 ELSE e.counted
  <2>1. n \in Nat /\ d = [e EXCEPT !.counted = n]
    BY <1>5
  <2> HIDE DEF d, n
  <2> QED
    BY <1>1, <2>1 DEF Effects
<1>7. /\ p.status = 502 /\ p.code = ErrorCode(q.last) /\ p.chain = q.chain /\ p.key = q.key
      /\ d.slot = e.slot /\ d.charged = e.charged /\ d.tried = e.tried /\ d.events = e.events
  BY <1>1 DEF Answer, Handlers, Effects
<1>8. d.counted = IF q.last \in TransportErrors THEN e.counted + 1 ELSE e.counted
  BY <1>1 DEF Effects
<1>9. q.sent >= 1 /\ Metered(q, e) /\ e.charged = 0
  BY <1>1, <1>2, <1>5 DEF Stage, Metered
<1>10. /\ Len(e.tried) = q.sent /\ AllFailed(e, q.sent) /\ e.counted <= q.sent
       /\ q.last = e.tried[q.sent].outcome
       /\ q.last \in TransportErrors => e.counted <= q.sent - 1
       /\ q.last \in FailedStatuses => e.counted >= 1
  BY <1>1, <1>5, <1>9 DEF Stage
<1>11. q.last \in TransportErrors \/ q.last \in FailedStatuses
  BY <1>5, <1>9, <1>10 DEF AllFailed, Failures
<1>12. d.counted \in 1..Len(q.chain)
  BY <1>2, <1>5, <1>8, <1>9, <1>10, <1>11
<1> HIDE DEF p, d
<1>13. Ended(p, d)
  BY <1>2, <1>7, <1>9, <1>10, <1>12 DEF Ended, Metered, AllFailed
<1>14. p \in Handlers /\ Stage(p, d)
  BY <1>1, <1>3, <1>13, Answered DEF p
<1>15. \A h \in Handlers, f \in Effects :
         Stage(h, f) /\ req' = [req EXCEPT ![r] = h] /\ ledger' = [ledger EXCEPT ![r] = f]
           => StageInv'
  BY <1>1, OneMoves
<1> QED
  BY <1>2, <1>6, <1>14, <1>15

LEMMA SettleStage ==
  ASSUME StageInv, NEW r \in Requests, Settle(r)
  PROVE  StageInv'
<1> DEFINE q == req[r]
           e == ledger[r]
<1>1. Settings' /\ q \in Handlers /\ e \in Effects /\ Stage(q, e) /\ q.pc = "forwarded"
  BY SettingsStay DEF Settle, StageInv
<1> DEFINE p == Answer(q, 200, "none")
           d == [e EXCEPT !.charged = @ + 1]
<1>2. req' = [req EXCEPT ![r] = p] /\ ledger' = [ledger EXCEPT ![r] = d]
  BY DEF Settle, Respond, Answer, StageInv
<1>3. 200 \in Statuses /\ "none" \in Codes
  BY DEF Statuses, Codes
<1>5. e.counted \in Nat /\ q.sent \in Nat /\ e.charged \in Nat
  BY <1>1 DEF Handlers, Effects
<1>6. d \in Effects
  <2>1. e \in Effects /\ e.charged + 1 \in Nat
    BY <1>1, <1>5
  <2> QED
    BY <2>1 DEF Effects
<1>7. /\ p.status = 200 /\ p.code = "none" /\ p.chain = q.chain /\ p.key = q.key
      /\ d.slot = e.slot /\ d.charged = e.charged + 1 /\ d.tried = e.tried
      /\ d.events = e.events /\ d.counted = e.counted
  BY <1>1 DEF Answer, Handlers, Effects
<1> HIDE DEF p, d
<1>8. /\ Len(e.tried) = q.sent /\ q.sent >= 1 /\ e.tried[q.sent].outcome \notin Failures
      /\ AllFailed(e, q.sent - 1) /\ e.counted <= q.sent - 1
      /\ Metered(q, e) /\ e.charged = 0
  BY <1>1 DEF Stage
<1>9. Ended(p, d)
  BY <1>5, <1>7, <1>8 DEF Ended, Metered, AllFailed
<1>10. p \in Handlers /\ Stage(p, d)
  BY <1>1, <1>3, <1>9, Answered DEF p
<1> QED
  BY <1>1, <1>2, <1>6, <1>10, OneMoves

LEMMA BeginListStage ==
  ASSUME StageInv, NEW r \in Requests, BeginList(r)
  PROVE  StageInv'
<1> DEFINE q == req[r]
           e == ledger[r]
<1>1. Settings' /\ q \in Handlers /\ e \in Effects /\ Stage(q, e) /\ q.pc = "reading"
  BY SettingsStay DEF BeginList, StageInv
<1> DEFINE p == [q EXCEPT !.pc = "listing"]
<1>2. req' = [req EXCEPT ![r] = p] /\ ledger' = ledger
  BY DEF BeginList, Goto
<1>3. p \in Handlers /\ Stage(p, e)
  BY <1>1 DEF Handlers, Phases, Stage
<1> QED
  BY <1>1, <1>2, <1>3, OneMovesOn

LEMMA UpstreamListsStage ==
  ASSUME StageInv, NEW r \in Requests, UpstreamLists(r)
  PROVE  StageInv'
<1> DEFINE q == req[r]
           e == ledger[r]
<1>1. Settings' /\ q \in Handlers /\ e \in Effects /\ Stage(q, e) /\ q.pc = "listing"
  BY SettingsStay DEF UpstreamLists, StageInv
<1>2. CASE Respond(r, 502, "UPSTREAM_UNAVAILABLE")
  <2> DEFINE p == Answer(q, 502, "UPSTREAM_UNAVAILABLE")
  <2>2. 502 \in Statuses /\ "UPSTREAM_UNAVAILABLE" \in Codes
    BY DEF Statuses, Codes
  <2>4. Ended(p, e)
    BY <1>1 DEF Stage, Ended, Answer, Free, Unsent, Handlers
  <2>5. p \in Handlers /\ Stage(p, e)
    BY <1>1, <2>2, <2>4, Answered
  <2>6. req' = [req EXCEPT ![r] = p] /\ ledger' = ledger
    BY <1>2 DEF UpstreamLists, Respond, Answer
  <2> HIDE DEF p
  <2> QED
    BY <1>1, <2>5, <2>6, OneMovesOn
<1>3. CASE \E list \in Catalogs :
             req' = [req EXCEPT ![r] = [@ EXCEPT !.pc = "filtering", !.rest = list]]
  <2>1. PICK list \in Catalogs :
          req' = [req EXCEPT ![r] = [@ EXCEPT !.pc = "filtering", !.rest = list]]
    BY <1>3
  <2> DEFINE p == [q EXCEPT !.pc = "filtering", !.rest = list]
  <2>2. list \in Seq(Names)
    <3>1. Seq(Models) \subseteq Seq(Names)
      BY DEF Names
    <3> QED
      BY <3>1, DataPlaneAssumption
  <2>3. p \in Handlers
    BY <1>1, <2>2 DEF Handlers, Phases
  <2>4. Stage(p, e)
    BY <1>1 DEF Stage, Handlers
  <2>5. req' = [req EXCEPT ![r] = p] /\ ledger' = ledger
    BY <2>1 DEF UpstreamLists
  <2> QED
    BY <1>1, <2>3, <2>4, <2>5, OneMovesOn
<1> QED
  BY <1>2, <1>3 DEF UpstreamLists

LEMMA FilterNextStage ==
  ASSUME StageInv, NEW r \in Requests, FilterNext(r)
  PROVE  StageInv'
<1> DEFINE q == req[r]
           e == ledger[r]
<1>1. Settings' /\ q \in Handlers /\ e \in Effects /\ Stage(q, e) /\ q.pc = "filtering"
  BY SettingsStay DEF FilterNext, StageInv
<1> DEFINE m == Head(q.rest)
           shown == EvaluateModel(denied, q.key, m) = "ALLOWED"
           p == [q EXCEPT !.rest = Tail(@), !.chain = IF shown THEN Append(@, m) ELSE @]
<1>2. q.rest \in Seq(Names) /\ q.rest # <<>> /\ q.chain \in Seq(Names)
  BY <1>1 DEF FilterNext, Handlers
<1>3. m \in Names /\ Tail(q.rest) \in Seq(Names) /\ Append(q.chain, m) \in Seq(Names)
  BY <1>2
<1>4. p \in Handlers
  BY <1>1, <1>2, <1>3 DEF Handlers
<1>5. Stage(p, e)
  BY <1>1 DEF Stage, Handlers
<1>6. req' = [req EXCEPT ![r] = p] /\ ledger' = ledger
  BY DEF FilterNext
<1> QED
  BY <1>1, <1>4, <1>5, <1>6, OneMovesOn

LEMMA EndListStage ==
  ASSUME StageInv, NEW r \in Requests, EndList(r)
  PROVE  StageInv'
<1> DEFINE q == req[r]
           e == ledger[r]
<1>1. Settings' /\ q \in Handlers /\ e \in Effects /\ Stage(q, e) /\ q.pc = "filtering"
  BY SettingsStay DEF EndList, StageInv
<1> DEFINE p == Answer(q, 200, "models")
<1>2. 200 \in Statuses /\ "models" \in Codes
  BY DEF Statuses, Codes
<1>4. Ended(p, e)
  BY <1>1 DEF Stage, Ended, Answer, Free, Unsent, Handlers
<1>5. p \in Handlers /\ Stage(p, e)
  BY <1>1, <1>2, <1>4, Answered
<1>6. req' = [req EXCEPT ![r] = p] /\ ledger' = ledger
  BY DEF EndList, Respond, Answer
<1> QED
  BY <1>1, <1>5, <1>6, OneMovesOn

LEMMA ClientLeavesStage ==
  ASSUME StageInv, NEW r \in Requests, ClientLeaves(r)
  PROVE  StageInv'
<1> DEFINE q == req[r]
           e == ledger[r]
           p == [q EXCEPT !.gone = TRUE]
<1>1. Settings' /\ q \in Handlers /\ Stage(q, e) /\ q.pc # "done"
  BY SettingsStay DEF ClientLeaves, StageInv
<1>2. req' = [req EXCEPT ![r] = p] /\ ledger' = ledger
  BY DEF ClientLeaves
<1>3. p \in Handlers
  BY <1>1 DEF Handlers
<1>4. Stage(p, e)
  BY <1>1 DEF Stage, Handlers, Metered
<1> QED
  BY <1>1, <1>2, <1>3, <1>4, OneMovesOn

\* What the administrator sets keeps its type; handlers have copies.
LEMMA AdministratorStage ==
  ASSUME StageInv,
         \/ \E a \in Aliases : DeleteAlias(a) \/ \E route \in Routes : SetAlias(a, route)
         \/ \E list \in DenyLists : SetGlobalDeny(list)
         \/ \E k \in Keys : DeleteKey(k) \/ \E record \in KeyRecords : UpdateKey(k, record)
         \/ Tick \/ \E k \in Keys : WindowSlides(k)
         \/ UNCHANGED vars
  PROVE  StageInv'
<1>1. UNCHANGED <<req, ledger>>
  BY DEF DeleteAlias, SetAlias, SetGlobalDeny, DeleteKey, UpdateKey, Tick, WindowSlides, vars
<1>2. ASSUME NEW a \in Aliases, DeleteAlias(a) PROVE Settings'
  BY <1>2 DEF DeleteAlias, StageInv, Settings
<1>3. ASSUME NEW a \in Aliases, NEW route \in Routes, SetAlias(a, route) PROVE Settings'
  BY <1>3, DataPlaneAssumption DEF SetAlias, StageInv, Settings
<1>4. ASSUME NEW k \in Keys, DeleteKey(k) PROVE Settings'
  BY <1>4 DEF DeleteKey, StageInv, Settings
<1>5. ASSUME NEW k \in Keys, NEW record \in KeyRecords, UpdateKey(k, record) PROVE Settings'
  BY <1>5 DEF UpdateKey, StageInv, Settings
<1>6. ASSUME \/ \E list \in DenyLists : SetGlobalDeny(list)
             \/ Tick \/ \E k \in Keys : WindowSlides(k)
             \/ UNCHANGED vars
      PROVE  Settings'
  BY <1>6 DEF SetGlobalDeny, Tick, WindowSlides, vars, admin, StageInv, Settings
<1>7. Settings'
  BY <1>2, <1>3, <1>4, <1>5, <1>6
<1> QED
  BY <1>1, <1>7 DEF StageInv

LEMMA StageNext == StageInv /\ [Next]_vars => StageInv'
<1> SUFFICES ASSUME StageInv, [Next]_vars PROVE StageInv'
  OBVIOUS
<1>1. ASSUME NEW r \in Requests, Serve(r) \/ UpstreamAnswers(r) \/ UpstreamLists(r)
      PROVE  StageInv'
  BY <1>1, AuthenticateStage, RejectBodyStage, BeginResolveStage, AskNextStage, EndResolveStage,
     CheckPolicyStage, CheckRateStage, CheckQuotaStage, SendStage, UpstreamAnswersStage,
     AttemptFailedStage, AttemptSucceededStage, GiveUpStage, SettleStage, BeginListStage,
     UpstreamListsStage, FilterNextStage, EndListStage DEF Serve
<1>2. CASE Environment \/ UNCHANGED vars
  BY <1>2, ClientLeavesStage, AdministratorStage DEF Environment
<1> QED
  BY <1>1, <1>2 DEF Next

LEMMA Staged == Spec => []StageInv
  BY StageInit, StageNext, PTL DEF Spec

-----------------------------------------------------------------------------

\* Which attempts failed, in terms of how many did.
LEMMA FirstFailed ==
  ASSUME NEW r \in Requests, ledger[r].tried \in Seq(Attempts), NEW n \in Nat,
         AllFailed(ledger[r], n),
         \/ Len(ledger[r].tried) = n
         \/ /\ Len(ledger[r].tried) = n + 1
            /\ ledger[r].tried[n + 1].outcome \notin Failures
  PROVE  Failed(r) = 1..n
<1>1. DOMAIN ledger[r].tried = 1..Len(ledger[r].tried)
  OBVIOUS
<1>2. ASSUME NEW i \in 1..n PROVE i \in Failed(r)
  BY <1>1, <1>2 DEF Failed, AllFailed
<1>3. ASSUME NEW i \in Failed(r) PROVE i \in 1..n
  BY <1>1, <1>3 DEF Failed
<1> QED
  BY <1>2, <1>3

\* What Ended says of a chat request that was sent.
LEMMA SentAndDone ==
  ASSUME StageInv, NEW r \in Requests, Done(r)
  PROVE  /\ req[r] \in Handlers /\ ledger[r] \in Effects /\ Ended(req[r], ledger[r])
         /\ (req[r].status = 502 /\ req[r].chain # <<>>) =>
              Failed(r) = 1..Len(ledger[r].tried)
         /\ req[r].code = "none" => Failed(r) = 1..(Len(ledger[r].tried) - 1)
<1> DEFINE q == req[r]
           e == ledger[r]
<1>1. q \in Handlers /\ e \in Effects /\ Ended(q, e)
  BY DEF StageInv, Stage, Done
<1>2. e.tried \in Seq(Attempts) /\ Len(e.tried) \in Nat
  BY <1>1 DEF Effects
<1>3. ASSUME q.status = 502, q.chain # <<>> PROVE Failed(r) = 1..Len(e.tried)
  <2>1. AllFailed(e, Len(e.tried))
    BY <1>1, <1>3 DEF Ended
  <2> QED
    BY <1>2, <2>1, FirstFailed
<1>4. ASSUME q.code = "none" PROVE Failed(r) = 1..(Len(e.tried) - 1)
  <2>1. /\ Len(e.tried) >= 1 /\ AllFailed(e, Len(e.tried) - 1)
        /\ e.tried[Len(e.tried)].outcome \notin Failures
    <3>1. \A o : ErrorCode(o) # "none"
      BY DEF ErrorCode
    <3> QED
      BY <1>1, <1>4, <3>1 DEF Ended
  <2>2. Len(e.tried) - 1 \in Nat /\ Len(e.tried) = Len(e.tried) - 1 + 1
    BY <1>2, <2>1
  <2> QED
    BY <1>2, <2>1, <2>2, FirstFailed
<1> QED
  BY <1>1, <1>3, <1>4

LEMMA StageTells ==
  ASSUME StageInv, NEW r \in Requests, Done(r)
  PROVE  Explained(r)
<1> DEFINE q == req[r]
           e == ledger[r]
           tries == Len(e.tried)
<1>1. Ended(q, e)
  BY SentAndDone
<1>2. /\ (q.status = 502 /\ q.chain # <<>>) => Failed(r) = 1..tries
      /\ q.code = "none" => Failed(r) = 1..(tries - 1)
  BY SentAndDone
<1>3. NothingSpent(r) <=> Unsent(e) /\ ~e.slot
  BY DEF NothingSpent, NothingSent, Unsent
<1>4. Free(e) => NothingSpent(r)
  BY <1>3 DEF Free
<1>5. Unsent(e) => NothingSent(r)
  BY DEF NothingSent, Unsent
<1>6. Metered(q, e) => SlotSpent(r) /\ e.events = {"ROUTE_RESOLVED"} /\ q.chain # <<>>
  BY DEF Metered, SlotSpent
<1>7. \A o : ErrorCode(o) \notin {"rate_limited", "quota_exceeded", "models", "none"}
  BY DEF ErrorCode
<1> QED
  BY <1>1, <1>2, <1>4, <1>5, <1>6, <1>7 DEF Ended, Explained

LEMMA StageExplains == StageInv => StatusExplainsEffects
  BY StageTells DEF StatusExplainsEffects

(***************************************************************************)
(* The status a client gets tells what its request did to the limiter, the  *)
(* quota, the upstream and the audit trail, in every interleaving of any    *)
(* number of handlers (dataplane.go:147).                                   *)
(***************************************************************************)
THEOREM StatusIsExplained == Spec => []StatusExplainsEffects
  BY Staged, StageExplains, PTL

LEMMA StageCounts == StageInv => OutageIsCounted
<1> SUFFICES ASSUME StageInv, NEW r \in Requests, Done(r)
             PROVE  /\ ledger[r].counted <= Cardinality(Failed(r))
                    /\ req[r].status = 502 /\ req[r].chain # <<>> =>
                         /\ ledger[r].counted >= 1
                         /\ req[r].code =
                              ErrorCode(ledger[r].tried[Len(ledger[r].tried)].outcome)
  BY DEF OutageIsCounted
<1> DEFINE q == req[r]
           e == ledger[r]
<1>1. q \in Handlers /\ e \in Effects /\ Ended(q, e)
  BY SentAndDone
<1>2. e.tried \in Seq(Attempts) /\ Len(e.tried) \in Nat /\ e.counted \in Nat
  BY <1>1 DEF Effects
<1>3. IsFiniteSet(Failed(r))
  <2>1. IsFiniteSet(1..Len(e.tried))
    <3>1. 1 \in Int /\ Len(e.tried) \in Int
      BY <1>2
    <3> QED
      BY <3>1, FS_Interval
  <2>2. Failed(r) \subseteq 1..Len(e.tried)
    BY <1>2 DEF Failed
  <2> QED
    BY <2>1, <2>2, FS_Subset
<1>4. Cardinality(Failed(r)) \in Nat
  BY <1>3, FS_CardinalityType
<1>5. \A n \in Nat : Cardinality(1..n) = n
  BY FS_Interval
<1>6. CASE q.status = 502 /\ q.chain # <<>>
  <2>1. /\ Len(e.tried) = Len(q.chain) /\ e.counted \in 1..Len(q.chain)
        /\ q.code = ErrorCode(e.tried[Len(e.tried)].outcome)
    BY <1>1, <1>6 DEF Ended
  <2>2. Cardinality(Failed(r)) = Len(e.tried)
    BY <1>2, <1>5, <1>6, SentAndDone
  <2> QED
    BY <1>2, <2>1, <2>2
<1>7. CASE q.status # 502 /\ q.code = "none"
  <2>1. Len(e.tried) >= 1 /\ e.counted <= Len(e.tried) - 1
    BY <1>1, <1>7 DEF Ended
  <2>2. Failed(r) = 1..(Len(e.tried) - 1) /\ Len(e.tried) - 1 \in Nat
    BY <1>2, <1>7, <2>1, SentAndDone
  <2>3. Cardinality(Failed(r)) = Len(e.tried) - 1
    BY <1>5, <2>2
  <2> QED
    BY <1>7, <2>1, <2>3
<1>8. CASE ~(q.status = 502 /\ q.chain # <<>>) /\ ~(q.status # 502 /\ q.code = "none")
  <2>1. e.counted = 0
    BY <1>1, <1>8 DEF Ended, Free, Unsent, Metered
  <2> QED
    BY <1>4, <1>8, <2>1
<1> QED
  BY <1>6, <1>7, <1>8

(***************************************************************************)
(* A 502 counted at least one upstream error and at most those it met, and  *)
(* carries the code of its last one (dataplane.go:292, dataplane.go:319).   *)
(***************************************************************************)
THEOREM OutagesAreCounted == Spec => []OutageIsCounted
  BY Staged, StageCounts, PTL

-----------------------------------------------------------------------------

\* A request that was charged to k.
Charged(q, k) == q.id = k /\ q.status = 200 /\ q.code = "none"
ChargedTo(k) == {r \in Requests : Charged(req[r], k)}

UsageInv ==
  /\ usage \in [Keys -> [daily : Nat, monthly : Nat]]
  /\ UsageIsAnsweredRequests

\* The other steps of a handler charge nobody.
Uncharged(r) ==
  /\ usage' = usage
  /\ req[r].pc # "done"
  /\ \A s \in Requests : s # r => req'[s] = req[s]
  /\ req'[r].status = 200 => req'[r].code # "none"

LEMMA UnchargedGoto ==
  ASSUME StageInv, NEW r \in Requests, NEW pc, Goto(r, pc), req[r].pc # "done", usage' = usage
  PROVE  Uncharged(r)
BY DEF Goto, Uncharged, StageInv, Stage, Handlers

LEMMA UnchargedRespond ==
  ASSUME StageInv, NEW r \in Requests, NEW status, NEW code, Respond(r, status, code),
         code # "none", req[r].pc # "done", usage' = usage
  PROVE  Uncharged(r)
BY DEF Respond, Uncharged, StageInv, Handlers

LEMMA UnchargedMove ==
  ASSUME StageInv, NEW r \in Requests, NEW q, req' = [req EXCEPT ![r] = q], q.status = 0,
         req[r].pc # "done", usage' = usage
  PROVE  Uncharged(r)
BY DEF Uncharged, StageInv

LEMMA OnlySettleCharges ==
  ASSUME StageInv, NEW r \in Requests,
         \/ Serve(r) \/ UpstreamAnswers(r) \/ UpstreamLists(r) \/ ClientLeaves(r)
  PROVE  Settle(r) \/ Uncharged(r)
<1>1. /\ req[r] \in Handlers
      /\ req[r].pc # "done" => req[r].status = 0
  BY DEF StageInv, Stage
<1>2. ASSUME NEW k \in Keys, Authenticate(r, k) PROVE Uncharged(r)
  <2>1. CASE Respond(r, 401, "invalid_api_key")
    BY <1>2, <2>1, UnchargedRespond DEF Authenticate
  <2>2. CASE ~Respond(r, 401, "invalid_api_key")
    <3> DEFINE q == [req[r] EXCEPT !.pc = "reading", !.id = k, !.key = keys[k]]
    <3>1. req' = [req EXCEPT ![r] = q] /\ usage' = usage /\ req[r].pc # "done"
      BY <1>2, <2>2 DEF Authenticate
    <3>2. q.status = 0
      BY <1>1, <3>1 DEF Handlers
    <3> QED
      BY <3>1, <3>2, UnchargedMove
  <2> QED
    BY <2>1, <2>2
<1>3. ASSUME RejectBody(r) PROVE Uncharged(r)
  BY <1>1, <1>3 DEF RejectBody, Respond, Uncharged, Handlers, StageInv
<1>4. ASSUME NEW name \in Asks, BeginResolve(r, name) PROVE Uncharged(r)
  BY <1>1, <1>4 DEF BeginResolve, Uncharged, Handlers, StageInv
<1>5. ASSUME AskNext(r) PROVE Uncharged(r)
  BY <1>1, <1>5 DEF AskNext, Uncharged, Handlers, StageInv
<1>6. ASSUME EndResolve(r) PROVE Uncharged(r)
  BY <1>6, UnchargedGoto, UnchargedRespond DEF EndResolve
<1>7. ASSUME CheckPolicy(r) PROVE Uncharged(r)
  BY <1>7, UnchargedGoto, UnchargedRespond DEF CheckPolicy
<1>8. ASSUME CheckRate(r) PROVE Uncharged(r)
  BY <1>8, UnchargedGoto, UnchargedRespond DEF CheckRate
<1>9. ASSUME CheckQuota(r) PROVE Uncharged(r)
  BY <1>9, UnchargedGoto, UnchargedRespond DEF CheckQuota
<1>10. ASSUME Send(r) PROVE Uncharged(r)
  BY <1>1, <1>10 DEF Send, Uncharged, Handlers, StageInv
<1>11. ASSUME AttemptFailed(r) \/ AttemptSucceeded(r) PROVE Uncharged(r)
  BY <1>11, UnchargedGoto DEF AttemptFailed, AttemptSucceeded
<1>12. ASSUME GiveUp(r) PROVE Uncharged(r)
  BY <1>1, <1>12 DEF GiveUp, Respond, Uncharged, Handlers, StageInv
<1>13. ASSUME BeginList(r) PROVE Uncharged(r)
  BY <1>1, <1>13 DEF BeginList, Goto, Uncharged, Handlers, StageInv
<1>14. ASSUME FilterNext(r) PROVE Uncharged(r)
  BY <1>1, <1>14 DEF FilterNext, Uncharged, Handlers, StageInv
<1>15. ASSUME EndList(r) PROVE Uncharged(r)
  BY <1>1, <1>15 DEF EndList, Respond, Uncharged, Handlers, StageInv
<1>16. ASSUME UpstreamAnswers(r) PROVE Uncharged(r)
  <2>1. PICK o \in Outcomes \cup {"cancelled"} :
          req' = [req EXCEPT ![r] = [@ EXCEPT !.pc = "answered", !.last = o]]
    BY <1>16 DEF UpstreamAnswers
  <2> DEFINE q == [req[r] EXCEPT !.pc = "answered", !.last = o]
  <2>2. req' = [req EXCEPT ![r] = q] /\ usage' = usage /\ req[r].pc # "done"
    BY <1>16, <2>1 DEF UpstreamAnswers
  <2>3. q.status = 0
    BY <1>1, <2>2 DEF Handlers
  <2> QED
    BY <2>2, <2>3, UnchargedMove
<1>17. ASSUME UpstreamLists(r) PROVE Uncharged(r)
  <2>1. CASE Respond(r, 502, "UPSTREAM_UNAVAILABLE")
    BY <1>17, <2>1, UnchargedRespond DEF UpstreamLists
  <2>2. CASE \E list \in Catalogs :
               req' = [req EXCEPT ![r] = [@ EXCEPT !.pc = "filtering", !.rest = list]]
    <3>1. PICK list \in Catalogs :
            req' = [req EXCEPT ![r] = [@ EXCEPT !.pc = "filtering", !.rest = list]]
      BY <2>2
    <3> DEFINE q == [req[r] EXCEPT !.pc = "filtering", !.rest = list]
    <3>2. req' = [req EXCEPT ![r] = q] /\ usage' = usage /\ req[r].pc # "done"
      BY <1>17, <3>1 DEF UpstreamLists
    <3>3. q.status = 0
      BY <1>1, <3>2 DEF Handlers
    <3> QED
      BY <3>2, <3>3, UnchargedMove
  <2> QED
    BY <1>17, <2>1, <2>2 DEF UpstreamLists
<1>18. ASSUME ClientLeaves(r) PROVE Uncharged(r)
  BY <1>1, <1>18 DEF ClientLeaves, Uncharged, Handlers, StageInv
<1> QED
  BY <1>2, <1>3, <1>4, <1>5, <1>6, <1>7, <1>8, <1>9, <1>10, <1>11, <1>12, <1>13, <1>14,
     <1>15, <1>16, <1>17, <1>18 DEF Serve

LEMMA UsageUncharged ==
  ASSUME StageInv, UsageInv, NEW r \in Requests, Uncharged(r)
  PROVE  UsageInv'
<1>1. /\ \A s \in Requests : s # r => req'[s] = req[s]
      /\ req'[r].status = 200 => req'[r].code # "none"
  BY DEF Uncharged
<1>2. req[r].status # 200
  BY DEF Uncharged, StageInv, Stage
<1>3. ASSUME NEW k \in Keys PROVE ChargedTo(k)' = ChargedTo(k)
  <2>1. ~Charged(req'[r], k) /\ ~Charged(req[r], k)
    BY <1>1, <1>2 DEF Charged
  <2>2. \A s \in Requests : Charged(req'[s], k) <=> Charged(req[s], k)
    BY <1>1, <2>1
  <2> QED
    BY <2>2 DEF ChargedTo
<1>4. usage' = usage
  BY DEF Uncharged
<1> QED
  BY <1>3, <1>4 DEF UsageInv, UsageIsAnsweredRequests, ChargedTo, Charged

LEMMA UsageSettled ==
  ASSUME StageInv, UsageInv, NEW r \in Requests, Settle(r)
  PROVE  UsageInv'
<1> DEFINE id == req[r].id
           q == [req[r] EXCEPT !.pc = "done", !.status = 200, !.code = "none"]
<1>1. req[r] \in Handlers /\ req[r].status = 0
  BY DEF Settle, StageInv, Stage
<1>2. req' = [req EXCEPT ![r] = q]
  BY DEF Settle, Respond
<1>3. q.id = id /\ q.status = 200 /\ q.code = "none"
  BY <1>1 DEF Handlers
<1>4. ASSUME NEW k \in Keys PROVE ChargedTo(k)' = IF k = id THEN ChargedTo(k) \cup {r}
                                                            ELSE ChargedTo(k)
  <2>1. /\ \A s \in Requests : s # r => req'[s] = req[s]
        /\ req'[r] = q
    BY <1>2 DEF StageInv
  <2>2. Charged(q, k) <=> k = id
    BY <1>3 DEF Charged
  <2>3. \A s \in Requests : Charged(req'[s], k) <=> IF s = r THEN k = id ELSE Charged(req[s], k)
    BY <2>1, <2>2
  <2>4. ~Charged(req[r], k)
    BY <1>1 DEF Charged
  <2> QED
    BY <2>3, <2>4 DEF ChargedTo
<1>5. \A k \in Keys : IsFiniteSet(ChargedTo(k)) /\ Cardinality(ChargedTo(k)) \in Nat
  <2>1. \A k \in Keys : ChargedTo(k) \subseteq Requests
    BY DEF ChargedTo
  <2> QED
    BY <2>1, DataPlaneAssumption, FS_Subset, FS_CardinalityType
<1>6. \A k \in Keys : Cardinality(ChargedTo(k)') =
                        IF k = id THEN Cardinality(ChargedTo(k)) + 1 ELSE Cardinality(ChargedTo(k))
  <2>1. \A k \in Keys : r \notin ChargedTo(k)
    BY <1>1 DEF ChargedTo, Charged
  <2> QED
    BY <1>4, <1>5, <2>1, FS_AddElement
<1>7. \A k \in Keys : usage[k] = [daily   |-> Estimate * Cardinality(ChargedTo(k)),
                                  monthly |-> Estimate * Cardinality(ChargedTo(k))]
  BY DEF UsageInv, UsageIsAnsweredRequests, ChargedTo, Charged
<1>8. usage' = [usage EXCEPT ![id] = AfterRecord(@, Estimate)]
  BY DEF Settle
<1>9. ASSUME NEW k \in Keys
      PROVE  /\ usage'[k] = [daily   |-> Estimate * Cardinality(ChargedTo(k)'),
                             monthly |-> Estimate * Cardinality(ChargedTo(k)')]
             /\ usage'[k] \in [daily : Nat, monthly : Nat]
  <2> DEFINE n == Cardinality(ChargedTo(k))
  <2>1. n \in Nat /\ Estimate \in Nat
    BY <1>5, DataPlaneAssumption
  <2>2. Estimate * (n + 1) = Estimate * n + Estimate /\ Estimate * n \in Nat
    BY <2>1
  <2>3. CASE k = id
    <3>1. usage'[k] = AfterRecord(usage[k], Estimate)
      BY <1>8, <2>3 DEF UsageInv
    <3>2. usage[k] = [daily |-> Estimate * n, monthly |-> Estimate * n]
      BY <1>7
    <3>3. usage'[k] = [daily |-> Estimate * n + Estimate, monthly |-> Estimate * n + Estimate]
      BY <3>1, <3>2 DEF AfterRecord
    <3> QED
      BY <1>6, <2>1, <2>2, <2>3, <3>3
  <2>4. CASE k # id
    <3>1. usage'[k] = usage[k]
      BY <1>8, <2>4 DEF UsageInv
    <3> QED
      BY <1>6, <1>7, <2>1, <2>2, <2>4, <3>1
  <2> QED
    BY <2>3, <2>4
<1>10. usage' \in [Keys -> [daily : Nat, monthly : Nat]]
  BY <1>8, <1>9 DEF UsageInv
<1> QED
  BY <1>9, <1>10 DEF UsageInv, UsageIsAnsweredRequests, ChargedTo, Charged

LEMMA UsageInit == Init => UsageInv
<1> SUFFICES ASSUME Init PROVE UsageInv
  OBVIOUS
<1>1. usage \in [Keys -> [daily : Nat, monthly : Nat]]
  BY DEF Init, NoUsage
<1>2. ASSUME NEW k \in Keys
      PROVE {r \in Requests : req[r].id = k /\ req[r].status = 200 /\ req[r].code = "none"} = {}
  BY DEF Init, NoRequest
<1>3. Cardinality({}) = 0 /\ Estimate * 0 = 0
  BY FS_EmptySet, DataPlaneAssumption
<1>4. \A k \in Keys : usage[k] = [daily |-> 0, monthly |-> 0]
  BY DEF Init, NoUsage
<1> QED
  BY <1>1, <1>2, <1>3, <1>4 DEF UsageInv, UsageIsAnsweredRequests

LEMMA UsageNext == StageInv /\ UsageInv /\ [Next]_vars => UsageInv'
<1> SUFFICES ASSUME StageInv, UsageInv, [Next]_vars PROVE UsageInv'
  OBVIOUS
<1>1. ASSUME NEW r \in Requests,
             \/ Serve(r) \/ UpstreamAnswers(r) \/ UpstreamLists(r) \/ ClientLeaves(r)
      PROVE  UsageInv'
  BY <1>1, OnlySettleCharges, UsageSettled, UsageUncharged
<1>2. CASE UNCHANGED <<req, usage>>
  BY <1>2 DEF UsageInv, UsageIsAnsweredRequests
<1>3. CASE \/ \E a \in Aliases : DeleteAlias(a) \/ \E route \in Routes : SetAlias(a, route)
           \/ \E list \in DenyLists : SetGlobalDeny(list)
           \/ \E k \in Keys : DeleteKey(k) \/ \E record \in KeyRecords : UpdateKey(k, record)
           \/ Tick \/ \E k \in Keys : WindowSlides(k)
           \/ UNCHANGED vars
  BY <1>2, <1>3 DEF DeleteAlias, SetAlias, SetGlobalDeny, DeleteKey, UpdateKey, Tick,
                    WindowSlides, vars
<1> QED
  BY <1>1, <1>3 DEF Next, Environment

(***************************************************************************)
(* Token usage is conserved: a key has used the estimates of the requests   *)
(* it was answered, no more and no less, however its handlers interleave    *)
(* with those of other keys (dataplane.go:336).                             *)
(***************************************************************************)
THEOREM UsageIsConserved == Spec => []UsageIsAnsweredRequests
<1>1. Init => UsageInv
  BY UsageInit
<1>2. StageInv /\ UsageInv /\ [Next]_vars => UsageInv'
  BY UsageNext
<1>3. UsageInv => UsageIsAnsweredRequests
  BY DEF UsageInv
<1> QED
  BY <1>1, <1>2, <1>3, Staged, PTL DEF Spec

-----------------------------------------------------------------------------

\* The circuits of the targets, and the buckets of the keys.
CircuitInv ==
  /\ targets \in Tables(Names) /\ Consistent(targets)
  /\ live \in [Keys -> Nat]

\* The target a handler asks about, and the one it has sent to, are names.
LEMMA NextTarget ==
  ASSUME StageInv, NEW r \in Requests
  PROVE  /\ req[r].rest # <<>> => Head(req[r].rest) \in Names
         /\ req[r].pc = "answered" => req[r].chain[req[r].sent] \in Names
<1>1. req[r].rest \in Seq(Names) /\ req[r].chain \in Seq(Names) /\ req[r].sent \in Nat
  BY DEF StageInv, Handlers
<1>2. req[r].pc = "answered" => req[r].sent \in 1..Len(req[r].chain)
  BY <1>1 DEF StageInv, Stage
<1> QED
  BY <1>1, <1>2

LEMMA CircuitInit == Init => CircuitInv
<1> SUFFICES ASSUME Init PROVE CircuitInv
  OBVIOUS
<1>1. EmptyTable \in [{} -> TargetState]
  BY DEF EmptyTable
<1>2. targets \in Tables(Names)
  BY <1>1 DEF Init, Tables
<1>3. Consistent(targets)
  BY DEF Init, EmptyTable, Consistent
<1> QED
  BY <1>2, <1>3 DEF Init, CircuitInv

LEMMA CircuitNext == StageInv /\ CircuitInv /\ [Next]_vars => CircuitInv'
<1> SUFFICES ASSUME StageInv, CircuitInv, [Next]_vars
             PROVE  targets' \in Tables(Names) /\ Consistent(targets') /\ live' \in [Keys -> Nat]
  BY DEF CircuitInv, Consistent
<1> DEFINE Kept == targets' \in Tables(Names) /\ Consistent(targets')
           Counted == live' \in [Keys -> Nat]
<1>0. targets \in Tables(Names) /\ Consistent(targets) /\ live \in [Keys -> Nat]
  BY DEF CircuitInv
<1>1. ASSUME NEW r \in Requests, AskNext(r) PROVE Kept /\ Counted
  <2>1. Head(req[r].rest) \in Names
    BY <1>1, NextTarget DEF AskNext
  <2>2. targets' = AfterAllow(targets, Head(req[r].rest)) /\ live' = live
    BY <1>1 DEF AskNext
  <2> QED
    BY <1>0, <2>1, <2>2, OpsKeepTables, AllowEffect
<1>2. ASSUME NEW r \in Requests, AttemptFailed(r) PROVE Kept /\ Counted
  <2>1. req[r].chain[req[r].sent] \in Names
    BY <1>2, NextTarget DEF AttemptFailed
  <2>2. targets' = AfterResult(targets, req[r].chain[req[r].sent], FALSE) /\ live' = live
    BY <1>2 DEF AttemptFailed
  <2>3. targets' = AfterFailure(targets, req[r].chain[req[r].sent])
    BY <2>2 DEF AfterResult
  <2>4. targets' \in Tables(Names)
    BY <1>0, <2>1, <2>2, OpsKeepTables
  <2>5. Consistent(targets')
    BY <1>0, <2>1, <2>3, FailureEffect
  <2> QED
    BY <1>0, <2>2, <2>4, <2>5
<1>3. ASSUME NEW r \in Requests, AttemptSucceeded(r) PROVE Kept /\ Counted
  <2>1. req[r].chain[req[r].sent] \in Names
    BY <1>3, NextTarget DEF AttemptSucceeded
  <2>2. targets' = AfterResult(targets, req[r].chain[req[r].sent], TRUE) /\ live' = live
    BY <1>3 DEF AttemptSucceeded
  <2>3. targets' = AfterSuccess(targets, req[r].chain[req[r].sent])
    BY <2>2 DEF AfterResult
  <2>4. targets' \in Tables(Names)
    BY <1>0, <2>1, <2>2, OpsKeepTables
  <2>5. Consistent(targets')
    BY <1>0, <2>1, <2>3, SuccessEffect
  <2> QED
    BY <1>0, <2>2, <2>4, <2>5
<1>4. CASE Tick
  BY <1>0, <1>4, TickKeepsTables, TickEffect DEF Tick
<1>5. ASSUME NEW r \in Requests, CheckRate(r) PROVE Kept /\ Counted
  BY <1>0, <1>5 DEF CheckRate
<1>6. ASSUME NEW k \in Keys, WindowSlides(k) PROVE Kept /\ Counted
  BY <1>0, <1>6 DEF WindowSlides
<1>7. CASE UNCHANGED <<targets, live>>
  BY <1>0, <1>7
<1>8. ASSUME NEW r \in Requests, Serve(r) \/ UpstreamAnswers(r) \/ UpstreamLists(r)
      PROVE  Kept /\ Counted
  BY <1>1, <1>2, <1>3, <1>5, <1>7, <1>8
     DEF Serve, UpstreamAnswers, UpstreamLists, Authenticate, RejectBody, BeginResolve,
         EndResolve, CheckPolicy, CheckQuota, Send, GiveUp, Settle, BeginList, FilterNext,
         EndList
<1>9. CASE Environment
  BY <1>4, <1>6, <1>7, <1>9
     DEF Environment, ClientLeaves, SetAlias, DeleteAlias, SetGlobalDeny, UpdateKey, DeleteKey
<1> QED
  BY <1>7, <1>8, <1>9 DEF Next, vars

LEMMA CircuitsHold == Spec => []CircuitInv
  BY CircuitInit, CircuitNext, Staged, PTL DEF Spec

LEMMA UsageHolds == Spec => []UsageInv
  BY UsageInit, UsageNext, Staged, PTL DEF Spec

(***************************************************************************)
(* Every handler, counter and table keeps its type: no chain is read past   *)
(* its end, no counter drops below zero, and nothing an administrator sets  *)
(* while handlers run puts them into a state they do not know               *)
(* (dataplane.go:147).                                                      *)
(***************************************************************************)
THEOREM TypeCorrect == Spec => []TypeOK
<1>1. StageInv /\ CircuitInv /\ UsageInv => TypeOK
  <2> SUFFICES ASSUME StageInv, CircuitInv, UsageInv PROVE TypeOK
    OBVIOUS
  <2>1. ASSUME NEW r \in Requests
        PROVE  /\ req[r].pc \in Phases
               /\ req[r].id \in Keys \cup {NoKey} /\ req[r].key \in KeyRecords \cup {NoKey}
               /\ req[r].rest \in Seq(Names) /\ req[r].chain \in Seq(Names)
               /\ req[r].sent \in 0..Len(req[r].chain)
               /\ req[r].last \in Outcomes \cup {"none", "cancelled"}
               /\ req[r].status \in {0, 200, 400, 401, 403, 429, 502, 503}
    BY DEF StageInv, Stage, Handlers, Statuses
  <2>2. /\ DOMAIN targets \subseteq Names /\ targets \in [DOMAIN targets -> TargetState]
        /\ live \in [Keys -> Nat]
    <3>1. PICK D \in SUBSET Names : targets \in [D -> TargetState]
      BY DEF CircuitInv, Tables
    <3> QED
      BY <3>1 DEF CircuitInv
  <2> QED
    BY <2>1, <2>2 DEF StageInv, Settings, UsageInv, TypeOK
<1> QED
  BY <1>1, Staged, CircuitsHold, UsageHolds, PTL

(***************************************************************************)
(* In the whole data plane, as in the breaker alone, the failure count of a *)
(* target decides its state (circuit.go:97), whatever its requests and the  *)
(* clock do in between.                                                     *)
(***************************************************************************)
THEOREM CircuitsAreConsistent == Spec => []Consistent(targets)
<1>1. CircuitInv => Consistent(targets)
  BY DEF CircuitInv
<1> QED
  BY <1>1, CircuitsHold, PTL

-----------------------------------------------------------------------------

\* The failed attempts on t that the breaker has been told of: of a handler that is at
\* its answer, all but the last.
ReportedOn(r, t) ==
  {i \in FailedOn(r, t) : ~(req[r].pc = "answered" /\ i = Len(ledger[r].tried))}
Reported(t) == UNION {{r} \X ReportedOn(r, t) : r \in Requests}

AttemptInv ==
  /\ \A t \in Names : IsFiniteSet(FailedAttemptsOn(t))
  /\ \A t \in DOMAIN targets :
       targets[t].failures <= Cardinality(Reported(t)) /\ Reported(t) # {}

LEMMA ReportedFailed ==
  ASSUME NEW t \in Names, IsFiniteSet(FailedAttemptsOn(t))
  PROVE  /\ Reported(t) \subseteq FailedAttemptsOn(t)
         /\ IsFiniteSet(Reported(t)) /\ Cardinality(Reported(t)) \in Nat
         /\ Cardinality(FailedAttemptsOn(t)) \in Nat
         /\ Cardinality(Reported(t)) <= Cardinality(FailedAttemptsOn(t))
<1>1. Reported(t) \in SUBSET FailedAttemptsOn(t)
  BY DEF Reported, ReportedOn, FailedAttemptsOn
<1> QED
  BY <1>1, FS_Subset, FS_CardinalityType

LEMMA AttemptsCount == CircuitInv /\ AttemptInv => OnlyAttemptsCount
<1> SUFFICES ASSUME CircuitInv, AttemptInv, NEW t \in DOMAIN targets
             PROVE  /\ targets[t].failures <= Cardinality(FailedAttemptsOn(t))
                    /\ FailedAttemptsOn(t) # {}
  BY DEF OnlyAttemptsCount
<1>1. t \in Names /\ targets[t].failures \in Nat
  BY EntryTypes DEF CircuitInv
<1>2. targets[t].failures <= Cardinality(Reported(t)) /\ Reported(t) # {}
  BY DEF AttemptInv
<1>3. IsFiniteSet(FailedAttemptsOn(t))
  BY <1>1 DEF AttemptInv
<1>4. /\ Reported(t) \subseteq FailedAttemptsOn(t)
      /\ Cardinality(Reported(t)) \in Nat
      /\ Cardinality(FailedAttemptsOn(t)) \in Nat
      /\ Cardinality(Reported(t)) <= Cardinality(FailedAttemptsOn(t))
  BY <1>1, <1>3, ReportedFailed
<1> QED
  BY <1>1, <1>2, <1>4

\* A step that neither gets an answer nor deals with one leaves both sets alone.
NobodyTries == \A s \in Requests : ledger'[s].tried = ledger[s].tried
NobodyAnswers == \A s \in Requests : req'[s].pc = "answered" <=> req[s].pc = "answered"
NothingReported == NobodyTries /\ NobodyAnswers

LEMMA SameReports ==
  ASSUME NothingReported
  PROVE  \A t : FailedAttemptsOn(t)' = FailedAttemptsOn(t) /\ Reported(t)' = Reported(t)
<1>1. ASSUME NEW t, NEW s \in Requests
      PROVE  FailedOn(s, t)' = FailedOn(s, t) /\ ReportedOn(s, t)' = ReportedOn(s, t)
  BY DEF NothingReported, NobodyTries, NobodyAnswers, FailedOn, ReportedOn
<1> QED
  BY <1>1 DEF FailedAttemptsOn, Reported

LEMMA QuietMoves ==
  ASSUME StageInv, NEW r \in Requests, req[r].pc # "answered"
  PROVE  /\ \A pc : Goto(r, pc) /\ pc # "answered" => NobodyAnswers
         /\ \A status, code : Respond(r, status, code) => NobodyAnswers
         /\ \A event : Log(r, event) => NobodyTries
         /\ UNCHANGED ledger => NobodyTries
<1>1. req \in [Requests -> Handlers] /\ ledger \in [Requests -> Effects]
  BY DEF StageInv
<1>2. ASSUME NEW pc, Goto(r, pc), pc # "answered" PROVE NobodyAnswers
  BY <1>1, <1>2 DEF Goto, NobodyAnswers, Handlers
<1>3. ASSUME NEW status, NEW code, Respond(r, status, code) PROVE NobodyAnswers
  BY <1>1, <1>3 DEF Respond, NobodyAnswers, Handlers
<1>4. ASSUME NEW event, Log(r, event) PROVE NobodyTries
  BY <1>1, <1>4 DEF Log, NobodyTries, Effects
<1> QED
  BY <1>2, <1>3, <1>4 DEF NobodyTries

\* All steps of a handler but three.
LEMMA QuietSteps ==
  ASSUME StageInv, NEW r \in Requests,
         \/ Serve(r) \/ UpstreamLists(r) \/ ClientLeaves(r),
         ~AttemptFailed(r), ~AttemptSucceeded(r)
  PROVE  NothingReported
<1>1. req \in [Requests -> Handlers] /\ ledger \in [Requests -> Effects]
  BY DEF StageInv
<1> USE DEF NothingReported
<1>2. ASSUME NEW k \in Keys, Authenticate(r, k) PROVE NothingReported
  <2>1. CASE Respond(r, 401, "invalid_api_key") /\ Log(r, "AUTH_FAILURE")
    BY <1>2, <2>1, QuietMoves DEF Authenticate
  <2>2. CASE UNCHANGED ledger /\ req' = [req EXCEPT ![r] =
               [@ EXCEPT !.pc = "reading", !.id = k, !.key = keys[k]]]
    BY <1>1, <1>2, <2>2 DEF Authenticate, NobodyTries, NobodyAnswers, Handlers
  <2> QED
    BY <1>2, <2>1, <2>2 DEF Authenticate
<1>3. ASSUME RejectBody(r) \/ BeginList(r) \/ EndList(r) PROVE NothingReported
  BY <1>3, QuietMoves DEF RejectBody, BeginList, EndList
<1>4. ASSUME NEW name \in Asks, BeginResolve(r, name) PROVE NothingReported
  BY <1>1, <1>4 DEF BeginResolve, NobodyTries, NobodyAnswers, Handlers
<1>5. ASSUME AskNext(r) PROVE NothingReported
  BY <1>1, <1>5 DEF AskNext, NobodyTries, NobodyAnswers, Handlers
<1>6. ASSUME EndResolve(r) PROVE NothingReported
  BY <1>6, QuietMoves DEF EndResolve
<1>7. ASSUME CheckPolicy(r) PROVE NothingReported
  BY <1>7, QuietMoves DEF CheckPolicy
<1>8. ASSUME CheckRate(r) PROVE NothingReported
  <2>1. NobodyAnswers
    BY <1>8, QuietMoves DEF CheckRate
  <2>2. UNCHANGED ledger \/ ledger' = [ledger EXCEPT ![r].slot = TRUE] \/ Log(r, "RATE_LIMITED")
    BY <1>8 DEF CheckRate
  <2>3. ASSUME UNCHANGED ledger PROVE NobodyTries
    BY <2>3 DEF NobodyTries
  <2>4. ASSUME ledger' = [ledger EXCEPT ![r].slot = TRUE] PROVE NobodyTries
    BY <1>1, <2>4 DEF NobodyTries, Effects
  <2>5. ASSUME Log(r, "RATE_LIMITED") PROVE NobodyTries
    BY <1>1, <2>5 DEF NobodyTries, Log, Effects
  <2> QED
    BY <2>1, <2>2, <2>3, <2>4, <2>5
<1>9. ASSUME CheckQuota(r) PROVE NothingReported
  BY <1>9, QuietMoves DEF CheckQuota
<1>10. ASSUME Send(r) PROVE NothingReported
  BY <1>1, <1>10 DEF Send, NobodyTries, NobodyAnswers, Handlers
<1>11. ASSUME GiveUp(r) \/ Settle(r) PROVE NothingReported
  <2>1. NobodyAnswers
    BY <1>11, QuietMoves DEF GiveUp, Settle
  <2>2. \/ \E n : ledger' = [ledger EXCEPT ![r].counted = n]
        \/ \E n : ledger' = [ledger EXCEPT ![r].charged = n]
    BY <1>11 DEF GiveUp, Settle
  <2>3. ASSUME NEW n, ledger' = [ledger EXCEPT ![r].counted = n] PROVE NobodyTries
    BY <1>1, <2>3 DEF NobodyTries, Effects
  <2>4. ASSUME NEW n, ledger' = [ledger EXCEPT ![r].charged = n] PROVE NobodyTries
    BY <1>1, <2>4 DEF NobodyTries, Effects
  <2> QED
    BY <2>1, <2>2, <2>3, <2>4
<1>12. ASSUME FilterNext(r) PROVE NothingReported
  BY <1>1, <1>12 DEF FilterNext, NobodyTries, NobodyAnswers, Handlers
<1>13. ASSUME UpstreamLists(r) PROVE NothingReported
  <2>1. CASE Respond(r, 502, "UPSTREAM_UNAVAILABLE")
    BY <1>13, <2>1, QuietMoves DEF UpstreamLists
  <2>2. CASE \E list \in Catalogs :
               req' = [req EXCEPT ![r] = [@ EXCEPT !.pc = "filtering", !.rest = list]]
    BY <1>1, <1>13, <2>2 DEF UpstreamLists, NobodyTries, NobodyAnswers, Handlers
  <2> QED
    BY <1>13, <2>1, <2>2 DEF UpstreamLists
<1>14. ASSUME ClientLeaves(r) PROVE NothingReported
  BY <1>1, <1>14 DEF ClientLeaves, NobodyTries, NobodyAnswers, Handlers
<1> QED
  BY <1>2, <1>3, <1>4, <1>5, <1>6, <1>7, <1>8, <1>9, <1>10, <1>11, <1>12, <1>13, <1>14
     DEF Serve

\* The handler of r goes on to its answer, which the breaker does not know of yet.
LEMMA AnswerUnreported ==
  ASSUME StageInv, AttemptInv, NEW r \in Requests, UpstreamAnswers(r), NEW t \in Names
  PROVE  IsFiniteSet(FailedAttemptsOn(t)') /\ Reported(t)' = Reported(t)
<1> DEFINE q == req[r]
           e == ledger[r]
<1>1. q \in Handlers /\ e \in Effects /\ Stage(q, e) /\ q.pc = "waiting"
  BY DEF UpstreamAnswers, StageInv
<1>2. q.chain \in Seq(Names) /\ q.sent \in 1..Len(q.chain) /\ Len(e.tried) = q.sent - 1
  BY <1>1 DEF Handlers, Stage
<1>3. PICK o \in Outcomes \cup {"cancelled"} :
        /\ req' = [req EXCEPT ![r] = [@ EXCEPT !.pc = "answered", !.last = o]]
        /\ ledger' = [ledger EXCEPT ![r].tried =
                        Append(@, [target |-> q.chain[q.sent], outcome |-> o])]
  BY DEF UpstreamAnswers
<1> DEFINE a == [target |-> q.chain[q.sent], outcome |-> o]
           d == [e EXCEPT !.tried = Append(@, a)]
<1>4. a \in Attempts
  BY <1>2 DEF Attempts
<1>5. /\ d \in Effects /\ Len(d.tried) = q.sent
      /\ \A i \in 1..(q.sent - 1) : d.tried[i] = e.tried[i]
  BY <1>1, <1>2, <1>4, OneMoreAttempt
<1>6. ledger'[r] = d /\ req'[r].pc = "answered"
  BY <1>1, <1>3 DEF StageInv, Handlers
<1>7. \A s \in Requests : s # r => ledger'[s] = ledger[s] /\ req'[s] = req[s]
  BY <1>3 DEF StageInv
<1> HIDE DEF d
<1>8. DOMAIN d.tried = 1..q.sent /\ DOMAIN e.tried = 1..(q.sent - 1) /\ q.sent \in Nat
  BY <1>1, <1>2, <1>5 DEF Effects
<1>9. FailedOn(r, t)' \ {q.sent} = FailedOn(r, t) /\ q.sent \notin FailedOn(r, t)
  <2>1. ASSUME NEW i \in 1..(q.sent - 1) PROVE i \in FailedOn(r, t)' <=> i \in FailedOn(r, t)
    <3>1. i \in DOMAIN d.tried /\ i \in DOMAIN e.tried
      BY <1>8
    <3>2. d.tried[i] = e.tried[i]
      BY <1>5
    <3> QED
      BY <1>6, <3>1, <3>2 DEF FailedOn
  <2>2. FailedOn(r, t)' \subseteq 1..q.sent
    BY <1>6, <1>8 DEF FailedOn
  <2>3. FailedOn(r, t) \subseteq 1..(q.sent - 1)
    BY <1>8 DEF FailedOn
  <2> QED
    BY <1>8, <2>1, <2>2, <2>3
<1>10. ReportedOn(r, t)' = FailedOn(r, t)
  BY <1>5, <1>6, <1>9 DEF ReportedOn
<1>11. ReportedOn(r, t) = FailedOn(r, t)
  BY <1>1 DEF ReportedOn
<1>12. \A s \in Requests : s # r =>
         FailedOn(s, t)' = FailedOn(s, t) /\ ReportedOn(s, t)' = ReportedOn(s, t)
  BY <1>7 DEF FailedOn, ReportedOn
<1>13. Reported(t)' = Reported(t)
  BY <1>10, <1>11, <1>12 DEF Reported
<1>14. FailedAttemptsOn(t)' \in SUBSET (FailedAttemptsOn(t) \cup {<<r, q.sent>>})
  BY <1>9, <1>12 DEF FailedAttemptsOn
<1>15. IsFiniteSet(FailedAttemptsOn(t) \cup {<<r, q.sent>>})
  BY FS_AddElement DEF AttemptInv
<1> QED
  BY <1>13, <1>14, <1>15, FS_Subset

\* The failure of r is reported: one failure more, on the target it was sent to.
LEMMA FailureReported ==
  ASSUME StageInv, AttemptInv, NEW r \in Requests, AttemptFailed(r), NEW t \in Names
  PROVE  /\ FailedAttemptsOn(t)' = FailedAttemptsOn(t)
         /\ t # req[r].chain[req[r].sent] => Reported(t)' = Reported(t)
         /\ t = req[r].chain[req[r].sent] =>
              /\ Reported(t)' = Reported(t) \cup {<<r, req[r].sent>>}
              /\ <<r, req[r].sent>> \notin Reported(t)
<1> DEFINE q == req[r]
           e == ledger[r]
<1>1. /\ q \in Handlers /\ e \in Effects /\ Stage(q, e)
      /\ q.pc = "answered" /\ q.last \in Failures
  BY DEF AttemptFailed, StageInv
<1>2. q.sent \in Nat /\ q.sent >= 1 /\ e.tried \in Seq(Attempts)
  BY <1>1 DEF Handlers, Effects, Stage
<1>3. /\ Len(e.tried) = q.sent
      /\ e.tried[q.sent].outcome = q.last /\ e.tried[q.sent].target = q.chain[q.sent]
  BY <1>1 DEF Stage
<1>4. q.sent \in DOMAIN e.tried
  BY <1>2, <1>3
<1>5. q.sent \in FailedOn(r, t) <=> t = q.chain[q.sent]
  BY <1>1, <1>3, <1>4 DEF FailedOn
<1>6. /\ \A s \in Requests : ledger'[s].tried = ledger[s].tried
      /\ req'[r].pc = "ready"
      /\ \A s \in Requests : s # r => req'[s] = req[s]
  BY DEF AttemptFailed, Goto, StageInv, Handlers, Effects
<1>7. \A s \in Requests : FailedOn(s, t)' = FailedOn(s, t)
  BY <1>6 DEF FailedOn
<1>8. ReportedOn(r, t)' = FailedOn(r, t) /\ ReportedOn(r, t) = FailedOn(r, t) \ {q.sent}
  BY <1>1, <1>3, <1>6, <1>7 DEF ReportedOn
<1>9. \A s \in Requests : s # r => ReportedOn(s, t)' = ReportedOn(s, t)
  BY <1>6, <1>7 DEF ReportedOn
<1>10. FailedAttemptsOn(t)' = FailedAttemptsOn(t)
  BY <1>7 DEF FailedAttemptsOn
<1>11. CASE t # q.chain[q.sent]
  <2>1. ReportedOn(r, t)' = ReportedOn(r, t)
    BY <1>5, <1>8, <1>11
  <2> QED
    BY <1>9, <1>10, <1>11, <2>1 DEF Reported
<1>12. CASE t = q.chain[q.sent]
  <2>1. ReportedOn(r, t)' = ReportedOn(r, t) \cup {q.sent} /\ q.sent \notin ReportedOn(r, t)
    BY <1>5, <1>8, <1>12
  <2>2. ASSUME NEW x PROVE x \in Reported(t)' <=> x \in Reported(t) \/ x = <<r, q.sent>>
    BY <1>9, <2>1 DEF Reported
  <2>3. <<r, q.sent>> \notin Reported(t)
    BY <2>1 DEF Reported
  <2> QED
    BY <1>10, <1>12, <2>2, <2>3
<1> QED
  BY <1>11, <1>12

\* A success is no failure, so nothing is reported.
LEMMA SuccessUnreported ==
  ASSUME StageInv, NEW r \in Requests, AttemptSucceeded(r), NEW t \in Names
  PROVE  FailedAttemptsOn(t)' = FailedAttemptsOn(t) /\ Reported(t)' = Reported(t)
<1> DEFINE q == req[r]
           e == ledger[r]
<1>1. /\ q \in Handlers /\ e \in Effects /\ Stage(q, e)
      /\ q.pc = "answered" /\ q.last \notin Failures
  BY DEF AttemptSucceeded, StageInv
<1>2. Len(e.tried) = q.sent /\ e.tried[q.sent].outcome = q.last
  BY <1>1 DEF Stage
<1>3. Len(e.tried) \notin FailedOn(r, t)
  BY <1>1, <1>2 DEF FailedOn
<1>4. /\ ledger' = ledger
      /\ req'[r].pc = "forwarded"
      /\ \A s \in Requests : s # r => req'[s] = req[s]
  BY DEF AttemptSucceeded, Goto, StageInv, Handlers
<1>5. \A s \in Requests : FailedOn(s, t)' = FailedOn(s, t)
  BY <1>4 DEF FailedOn
<1>6. ReportedOn(r, t)' = ReportedOn(r, t)
  BY <1>3, <1>4, <1>5 DEF ReportedOn
<1>7. \A s \in Requests : s # r => ReportedOn(s, t)' = ReportedOn(s, t)
  BY <1>4, <1>5 DEF ReportedOn
<1> QED
  BY <1>5, <1>6, <1>7 DEF FailedAttemptsOn, Reported

LEMMA AttemptInit == Init => AttemptInv
<1> SUFFICES ASSUME Init PROVE AttemptInv
  OBVIOUS
<1>1. ASSUME NEW t \in Names PROVE FailedAttemptsOn(t) = {}
  <2>1. \A r \in Requests : ledger[r].tried = <<>>
    BY DEF Init, NoEffects
  <2> QED
    BY <2>1 DEF FailedAttemptsOn, FailedOn
<1>2. DOMAIN targets = {}
  BY DEF Init, EmptyTable
<1> QED
  BY <1>1, <1>2, FS_EmptySet DEF AttemptInv

LEMMA AttemptNext == StageInv /\ CircuitInv /\ AttemptInv /\ [Next]_vars => AttemptInv'
<1> SUFFICES ASSUME StageInv, CircuitInv, AttemptInv, [Next]_vars PROVE AttemptInv'
  OBVIOUS
<1>0. /\ targets \in Tables(Names) /\ Consistent(targets)
      /\ \A t \in DOMAIN targets : t \in Names /\ targets[t].failures \in Nat
  BY EntryTypes DEF CircuitInv
<1>t. \A t \in DOMAIN targets' : targets'[t].failures \in Nat
  <2>1. targets' \in Tables(Names)
    BY CircuitNext DEF CircuitInv
  <2> QED
    BY <2>1, EntryTypes
<1> DEFINE Milder == /\ DOMAIN targets' \subseteq DOMAIN targets
                     /\ \A t \in DOMAIN targets' : targets'[t].failures <= targets[t].failures
\* As long as no set and no count of failures grows, the invariant stays.
<1>1. ASSUME Milder,
             \A t \in Names : /\ IsFiniteSet(FailedAttemptsOn(t)')
                              /\ Reported(t)' = Reported(t)
      PROVE  AttemptInv'
  <2>1. ASSUME NEW t \in DOMAIN targets'
        PROVE  targets'[t].failures <= Cardinality(Reported(t)') /\ Reported(t)' # {}
    <3>1. t \in DOMAIN targets /\ t \in Names
      BY <1>0, <1>1
    <3>2. Cardinality(Reported(t)) \in Nat
      BY <3>1, ReportedFailed DEF AttemptInv
    <3>3. targets[t].failures <= Cardinality(Reported(t)) /\ Reported(t) # {}
      BY <3>1 DEF AttemptInv
    <3>4. targets'[t].failures <= targets[t].failures
      BY <1>1
    <3> QED
      BY <1>0, <1>t, <1>1, <3>1, <3>2, <3>3, <3>4
  <2> QED
    BY <1>1, <2>1 DEF AttemptInv
<1>2. ASSUME NothingReported, Milder PROVE AttemptInv'
  BY <1>1, <1>2, SameReports DEF AttemptInv
<1>3. ASSUME targets' = targets PROVE Milder
  BY <1>0, <1>3
<1>4. ASSUME NEW r \in Requests, Serve(r) \/ UpstreamLists(r) \/ ClientLeaves(r),
             ~AttemptFailed(r), ~AttemptSucceeded(r)
      PROVE  AttemptInv'
  <2>1. CASE AskNext(r)
    <3>1. Head(req[r].rest) \in Names /\ targets' = AfterAllow(targets, Head(req[r].rest))
      BY <2>1, NextTarget DEF AskNext
    <3>2. DOMAIN targets' = DOMAIN targets /\ \A t \in DOMAIN targets :
            targets'[t].failures = targets[t].failures
      BY <1>0, <3>1, AllowEffect
    <3> QED
      BY <1>0, <1>2, <1>4, <3>2, QuietSteps
  <2>2. CASE ~AskNext(r)
    <3>1. targets' = targets
      BY <1>4, <2>2
         DEF Serve, UpstreamLists, ClientLeaves, Authenticate, RejectBody, BeginResolve,
             EndResolve, CheckPolicy, CheckRate, CheckQuota, Send, GiveUp, Settle, BeginList,
             FilterNext, EndList
    <3> QED
      BY <1>2, <1>3, <1>4, <3>1, QuietSteps
  <2> QED
    BY <2>1, <2>2
<1>5. ASSUME NEW r \in Requests, UpstreamAnswers(r) PROVE AttemptInv'
  <2>1. targets' = targets
    BY <1>5 DEF UpstreamAnswers
  <2> QED
    BY <1>1, <1>3, <1>5, <2>1, AnswerUnreported
<1>6. ASSUME NEW r \in Requests, AttemptSucceeded(r) PROVE AttemptInv'
  <2> DEFINE u == req[r].chain[req[r].sent]
  <2>1. u \in Names
    BY <1>6, NextTarget DEF AttemptSucceeded
  <2>2. targets' = AfterSuccess(targets, u)
    BY <1>6 DEF AttemptSucceeded, AfterResult
  <2> HIDE DEF u
  <2>3. /\ DOMAIN targets' = DOMAIN targets
        /\ u \in DOMAIN targets => targets'[u].failures = 0
        /\ \A t \in DOMAIN targets \ {u} : targets'[t] = targets[t]
    BY <1>0, <2>1, <2>2, SuccessEffect
  <2>4. Milder
    BY <1>0, <2>3
  <2> QED
    BY <1>1, <1>6, <2>4, SuccessUnreported DEF AttemptInv
<1>7. ASSUME NEW r \in Requests, AttemptFailed(r) PROVE AttemptInv'
  <2>1. PICK u \in Names : u = req[r].chain[req[r].sent]
    BY <1>7, NextTarget DEF AttemptFailed
  <2>2. targets' = AfterFailure(targets, u)
    BY <1>7, <2>1 DEF AttemptFailed, AfterResult
  <2>3. PICK x : \A t \in Names :
          /\ FailedAttemptsOn(t)' = FailedAttemptsOn(t)
          /\ t # u => Reported(t)' = Reported(t)
          /\ t = u => Reported(t)' = Reported(t) \cup {x} /\ x \notin Reported(t)
    BY <1>7, <2>1, FailureReported
  <2>4. /\ DOMAIN targets' = DOMAIN targets \cup {u}
        /\ targets'[u].failures = OneMore(FailuresOf(targets, u))
    BY <1>0, <2>2, FailureEffect
  <2>5. \A t \in DOMAIN targets \ {u} : targets'[t] = targets[t]
    BY <2>2, FailureSpares
  <2>6. IsFiniteSet(Reported(u)) /\ Cardinality(Reported(u)) \in Nat
    BY <2>1, ReportedFailed DEF AttemptInv
  <2>7. Cardinality(Reported(u)') = Cardinality(Reported(u)) + 1
    BY <2>1, <2>3, <2>6, FS_AddElement
  <2>8. FailuresOf(targets, u) <= Cardinality(Reported(u)) /\ FailuresOf(targets, u) \in Nat
    BY <1>0, <2>6 DEF AttemptInv, FailuresOf
  <2>9. targets'[u].failures <= Cardinality(Reported(u)')
    BY <2>4, <2>6, <2>7, <2>8 DEF OneMore
  <2>10. ASSUME NEW t \in DOMAIN targets'
         PROVE  targets'[t].failures <= Cardinality(Reported(t)') /\ Reported(t)' # {}
    <3>1. CASE t = u
      BY <2>1, <2>3, <2>9, <3>1
    <3>2. CASE t # u
      <4>1. t \in DOMAIN targets /\ t \in Names /\ targets'[t] = targets[t]
        BY <1>0, <2>4, <2>5, <3>2
      <4> QED
        BY <2>3, <3>2, <4>1 DEF AttemptInv
    <3> QED
      BY <3>1, <3>2
  <2> QED
    BY <2>3, <2>10 DEF AttemptInv
<1>8. CASE Tick
  <2>1. targets' = AfterTick(targets) /\ NothingReported
    BY <1>8 DEF Tick, NothingReported, NobodyTries, NobodyAnswers
  <2>2. DOMAIN targets' = DOMAIN targets /\ \A t \in DOMAIN targets :
          targets'[t].failures = targets[t].failures
    BY <1>0, <2>1, TickEffect
  <2> QED
    BY <1>0, <1>2, <2>1, <2>2
<1>9. CASE UNCHANGED <<targets, req, ledger>>
  <2>1. NothingReported
    BY <1>9 DEF NothingReported, NobodyTries, NobodyAnswers
  <2> QED
    BY <1>2, <1>3, <1>9, <2>1
<1>10. ASSUME NEW r \in Requests, Serve(r) \/ UpstreamAnswers(r) \/ UpstreamLists(r)
       PROVE  AttemptInv'
  BY <1>4, <1>5, <1>6, <1>7, <1>10
<1>11. CASE Environment
  BY <1>4, <1>6, <1>7, <1>8, <1>9, <1>11
     DEF Environment, SetAlias, DeleteAlias, SetGlobalDeny, UpdateKey, DeleteKey, WindowSlides
<1> QED
  BY <1>9, <1>10, <1>11 DEF Next, vars

(***************************************************************************)
(* Only attempts count against a target: whatever the other requests do,    *)
(* its circuit never has more failures than attempts on it failed, and a    *)
(* target that was never tried has no entry (dataplane.go:278,              *)
(* dataplane.go:292).                                                       *)
(***************************************************************************)
THEOREM AttemptsAreCounted == Spec => []OnlyAttemptsCount
<1>1. Init => AttemptInv
  BY AttemptInit
<1>2. StageInv /\ CircuitInv /\ AttemptInv /\ [Next]_vars => AttemptInv'
  BY AttemptNext
<1>3. CircuitInv /\ AttemptInv => OnlyAttemptsCount
  BY AttemptsCount
<1> QED
  BY <1>1, <1>2, <1>3, Staged, CircuitsHold, PTL DEF Spec

-----------------------------------------------------------------------------

\* What TokenQuota sees of a handler, by how far it has come.
Here == {"reading", "listing", "resolving", "filtering", "resolved", "permitted", "metered"}
Passed == {"ready", "waiting", "answered", "forwarded"}

LEMMA PhaseOf ==
  ASSUME NEW q
  PROVE  /\ q.pc \in {"new", "done"} => QuotaPhase(q) = [pc |-> "idle"]
         /\ q.pc \in Here =>
              QuotaPhase(q) = [pc |-> "arrived", key |-> q.id, seen |-> QuotasOf(q.key)]
         /\ q.pc \in Passed =>
              QuotaPhase(q) = [pc |-> "admitted", key |-> q.id, tokens |-> Estimate]
BY DEF QuotaPhase, Here, Passed

\* What it sees of all of them.
Seen(f) == [s \in Requests |-> QuotaPhase(f[s])]
Granted(f) == [k \in DOMAIN f |-> QuotasOf(f[k])]

LEMMA SeenMoves ==
  ASSUME StageInv, NEW r \in Requests, NEW q, req' = [req EXCEPT ![r] = q]
  PROVE  Seen(req)' = [Seen(req) EXCEPT ![r] = QuotaPhase(q)]
BY DEF StageInv, Seen

LEMMA QuotaUnchanged ==
  ASSUME usage' = usage, Granted(keys)' = Granted(keys), Seen(req)' = Seen(req)
  PROVE  UNCHANGED Q!vars
BY DEF Q!vars, Granted, Seen

\* A step inside one phase is none of TokenQuota's.
LEMMA SamePhase ==
  ASSUME StageInv, NEW r \in Requests, NEW q, req' = [req EXCEPT ![r] = q],
         QuotaPhase(q) = QuotaPhase(req[r]), UNCHANGED <<keys, usage>>
  PROVE  UNCHANGED Q!vars
<1>1. Seen(req)' = Seen(req)
  BY SeenMoves DEF Seen
<1>2. Granted(keys)' = Granted(keys)
  BY DEF Granted
<1> QED
  BY <1>1, <1>2, QuotaUnchanged

LEMMA TurnedAway ==
  ASSUME StageInv, NEW r \in Requests, NEW q, req' = [req EXCEPT ![r] = q],
         req[r].pc \in Here, q.pc = "done", UNCHANGED <<keys, usage>>
  PROVE  Q!Next
<1>1. QuotaPhase(q) = [pc |-> "idle"]
  BY PhaseOf
<1>2. Seen(req)' = [Seen(req) EXCEPT ![r] = [pc |-> "idle"]]
  BY <1>1, SeenMoves
<1>3. QuotaPhase(req[r]) = [pc |-> "arrived", key |-> req[r].id, seen |-> QuotasOf(req[r].key)]
  BY PhaseOf
<1>4. Seen(req)[r].pc = "arrived"
  BY <1>3 DEF Seen
<1>5. Granted(keys)' = Granted(keys)
  BY DEF Granted
<1>6. Q!TurnAway(r)
  BY <1>2, <1>4, <1>5 DEF Q!TurnAway, Q!Idle, Seen, Granted
<1> QED
  BY <1>6 DEF Q!Next

LEMMA Onward ==
  ASSUME StageInv, NEW r \in Requests, NEW q, req' = [req EXCEPT ![r] = q],
         q.id = req[r].id, q.key = req[r].key, UNCHANGED <<keys, usage>>,
         \/ req[r].pc \in Here /\ q.pc \in Here
         \/ req[r].pc \in Passed /\ q.pc \in Passed
  PROVE  UNCHANGED Q!vars
<1>1. CASE req[r].pc \in Here /\ q.pc \in Here
  <2>1. QuotaPhase(q) = [pc |-> "arrived", key |-> q.id, seen |-> QuotasOf(q.key)]
    BY <1>1, PhaseOf
  <2>2. QuotaPhase(req[r]) =
          [pc |-> "arrived", key |-> req[r].id, seen |-> QuotasOf(req[r].key)]
    BY <1>1, PhaseOf
  <2> QED
    BY <2>1, <2>2, SamePhase
<1>2. CASE req[r].pc \in Passed /\ q.pc \in Passed
  <2>1. QuotaPhase(q) = [pc |-> "admitted", key |-> q.id, tokens |-> Estimate]
    BY <1>2, PhaseOf
  <2>2. QuotaPhase(req[r]) = [pc |-> "admitted", key |-> req[r].id, tokens |-> Estimate]
    BY <1>2, PhaseOf
  <2> QED
    BY <2>1, <2>2, SamePhase
<1> QED
  BY <1>1, <1>2

LEMMA GotoOnward ==
  ASSUME StageInv, NEW r \in Requests, NEW pc, Goto(r, pc), UNCHANGED <<keys, usage>>,
         \/ req[r].pc \in Here /\ pc \in Here
         \/ req[r].pc \in Passed /\ pc \in Passed
  PROVE  UNCHANGED Q!vars
<1> DEFINE q == [req[r] EXCEPT !.pc = pc]
<1>1. req' = [req EXCEPT ![r] = q]
  BY DEF Goto, StageInv
<1>2. q.id = req[r].id /\ q.key = req[r].key /\ q.pc = pc
  BY DEF StageInv, Handlers
<1> HIDE DEF q
<1> QED
  BY <1>1, <1>2, Onward

LEMMA RespondTurnsAway ==
  ASSUME StageInv, NEW r \in Requests, NEW status, NEW code, Respond(r, status, code),
         req[r].pc \in Here, UNCHANGED <<keys, usage>>
  PROVE  Q!Next
<1> DEFINE q == [req[r] EXCEPT !.pc = "done", !.status = status, !.code = code]
<1>1. req' = [req EXCEPT ![r] = q]
  BY DEF Respond
<1>2. q.pc = "done"
  BY DEF StageInv, Handlers
<1> HIDE DEF q
<1> QED
  BY <1>1, <1>2, TurnedAway

\* The usage the quota store has counted never passes the bound on what is sent.
LEMMA UsageBound ==
  ASSUME UsageInv, NEW k \in Keys
  PROVE  usage[k].daily <= Estimate * Cardinality(Requests)
<1>1. IsFiniteSet(ChargedTo(k)) /\ Cardinality(ChargedTo(k)) <= Cardinality(Requests)
  <2>1. ChargedTo(k) \in SUBSET Requests
    BY DEF ChargedTo
  <2> QED
    BY <2>1, DataPlaneAssumption, FS_Subset
<1>2. Cardinality(ChargedTo(k)) \in Nat /\ Cardinality(Requests) \in Nat /\ Estimate \in Nat
  BY <1>1, DataPlaneAssumption, FS_CardinalityType
<1>3. usage[k].daily = Estimate * Cardinality(ChargedTo(k))
  BY DEF UsageInv, UsageIsAnsweredRequests, ChargedTo, Charged
<1>4. \A e, m, n \in Nat : m <= n => e * m <= e * n
  OBVIOUS
<1> QED
  BY <1>1, <1>2, <1>3, <1>4

\* The key check of the data plane is that of TokenQuota, or none at all.
LEMMA AuthenticateQuota ==
  ASSUME StageInv, UsageInv, NEW r \in Requests, NEW k \in Keys, Authenticate(r, k)
  PROVE  Q!Next \/ UNCHANGED Q!vars
<1>1. UNCHANGED <<keys, usage>> /\ req[r].pc = "new"
  BY DEF Authenticate, admin
<1>2. QuotaPhase(req[r]) = [pc |-> "idle"]
  BY <1>1, PhaseOf
<1>3. CASE Respond(r, 401, "invalid_api_key")
  <2> DEFINE q == [req[r] EXCEPT !.pc = "done", !.status = 401, !.code = "invalid_api_key"]
  <2>1. req' = [req EXCEPT ![r] = q]
    BY <1>3 DEF Respond
  <2>2. q.pc = "done"
    BY DEF StageInv, Handlers
  <2> HIDE DEF q
  <2>3. QuotaPhase(q) = [pc |-> "idle"]
    BY <2>2, PhaseOf
  <2> QED
    BY <1>1, <1>2, <2>1, <2>3, SamePhase
<1>4. CASE /\ k \in DOMAIN keys
           /\ req' = [req EXCEPT ![r] = [@ EXCEPT !.pc = "reading", !.id = k, !.key = keys[k]]]
  <2> DEFINE q == [req[r] EXCEPT !.pc = "reading", !.id = k, !.key = keys[k]]
  <2>1. req' = [req EXCEPT ![r] = q]
    BY <1>4 DEF StageInv
  <2>2. q.pc = "reading" /\ q.id = k /\ q.key = keys[k]
    BY DEF StageInv, Handlers
  <2> HIDE DEF q
  <2>3. QuotaPhase(q) = [pc |-> "arrived", key |-> k, seen |-> QuotasOf(keys[k])]
    BY <2>2, PhaseOf DEF Here
  <2>4. Seen(req)' = [Seen(req) EXCEPT ![r] =
          [pc |-> "arrived", key |-> k, seen |-> QuotasOf(keys[k])]]
    BY <2>1, <2>3, SeenMoves
  <2>5. Seen(req)[r] = [pc |-> "idle"]
    BY <1>2 DEF Seen
  <2>6. Granted(keys)' = Granted(keys) /\ Granted(keys)[k] = QuotasOf(keys[k])
    BY <1>1, <1>4 DEF Granted
  <2>7. k \in DOMAIN Granted(keys)
    BY <1>4 DEF Granted
  <2>8. usage[k].daily <= Estimate * Cardinality(Requests)
    BY UsageBound
  <2>9. Q!Authenticate(r, k)
    BY <1>1, <2>4, <2>5, <2>6, <2>7, <2>8 DEF Q!Authenticate, Q!Idle, Seen, Granted
  <2> QED
    BY <2>9 DEF Q!Next
<1> QED
  BY <1>3, <1>4 DEF Authenticate

\* The quota check is its Admit, or its Refuse.
LEMMA CheckQuotaQuota ==
  ASSUME StageInv, NEW r \in Requests, CheckQuota(r)
  PROVE  Q!Next
<1> DEFINE q == req[r]
           allows == QuotaAllows(usage[q.id], q.key.daily, q.key.monthly, Estimate)
<1>1. UNCHANGED <<keys, usage>> /\ q.pc = "metered" /\ q \in Handlers
  BY DEF CheckQuota, admin, StageInv
<1>2. QuotaPhase(q) = [pc |-> "arrived", key |-> q.id, seen |-> QuotasOf(q.key)]
  BY <1>1, PhaseOf DEF Here
<1>3. /\ Seen(req)[r].pc = "arrived" /\ Seen(req)[r].key = q.id
      /\ Seen(req)[r].seen.daily = q.key.daily /\ Seen(req)[r].seen.monthly = q.key.monthly
  BY <1>2 DEF Seen, QuotasOf
<1>4. Granted(keys)' = Granted(keys)
  BY <1>1 DEF Granted
<1>5. CASE allows
  <2> DEFINE p == [q EXCEPT !.pc = "ready"]
  <2>1. req' = [req EXCEPT ![r] = p]
    BY <1>5 DEF CheckQuota, Goto, StageInv
  <2>2. p.pc = "ready" /\ p.id = q.id
    BY <1>1 DEF Handlers
  <2> HIDE DEF p
  <2>3. QuotaPhase(p) = [pc |-> "admitted", key |-> q.id, tokens |-> Estimate]
    BY <2>2, PhaseOf DEF Passed
  <2>4. Seen(req)' =
          [Seen(req) EXCEPT ![r] = [pc |-> "admitted", key |-> q.id, tokens |-> Estimate]]
    BY <2>1, <2>3, SeenMoves
  <2>5. Q!Admit(r, Estimate)
    BY <1>1, <1>3, <1>4, <1>5, <2>4 DEF Q!Admit, Q!QuotaAllows, Q!Fits, QuotaAllows, Fits,
                                         Seen, Granted
  <2> QED
    BY <2>5 DEF Q!Next
<1>6. CASE ~allows
  <2> DEFINE p == [q EXCEPT !.pc = "done", !.status = 429, !.code = "quota_exceeded"]
  <2>1. req' = [req EXCEPT ![r] = p]
    BY <1>6 DEF CheckQuota, Respond
  <2>2. p.pc = "done"
    BY <1>1 DEF Handlers
  <2> HIDE DEF p
  <2>3. QuotaPhase(p) = [pc |-> "idle"]
    BY <2>2, PhaseOf
  <2>4. Seen(req)' = [Seen(req) EXCEPT ![r] = [pc |-> "idle"]]
    BY <2>1, <2>3, SeenMoves
  <2>5. Q!Refuse(r, Estimate)
    BY <1>1, <1>3, <1>4, <1>6, <2>4 DEF Q!Refuse, Q!Idle, Q!QuotaAllows, Q!Fits, QuotaAllows,
                                         Fits, Seen, Granted
  <2> QED
    BY <2>5 DEF Q!Next
<1> QED
  BY <1>5, <1>6

\* The end of a request that passed is its Settle, or its GiveUp.
LEMMA EndQuota ==
  ASSUME StageInv, NEW r \in Requests, GiveUp(r) \/ Settle(r)
  PROVE  Q!Next
<1> DEFINE q == req[r]
<1>1. keys' = keys /\ q.pc \in Passed /\ q \in Handlers
  BY DEF GiveUp, Settle, admin, StageInv, Passed
<1>2. QuotaPhase(q) = [pc |-> "admitted", key |-> q.id, tokens |-> Estimate]
  BY <1>1, PhaseOf
<1>3. /\ Seen(req)[r].pc = "admitted" /\ Seen(req)[r].key = q.id
      /\ Seen(req)[r].tokens = Estimate
  BY <1>2 DEF Seen
<1>4. Granted(keys)' = Granted(keys)
  BY <1>1 DEF Granted
<1>5. ASSUME NEW status, NEW code, Respond(r, status, code)
      PROVE  Seen(req)' = [Seen(req) EXCEPT ![r] = [pc |-> "idle"]]
  <2> DEFINE p == [q EXCEPT !.pc = "done", !.status = status, !.code = code]
  <2>1. req' = [req EXCEPT ![r] = p]
    BY <1>5 DEF Respond
  <2>2. p.pc = "done"
    BY <1>1 DEF Handlers
  <2> HIDE DEF p
  <2>3. QuotaPhase(p) = [pc |-> "idle"]
    BY <2>2, PhaseOf
  <2> QED
    BY <2>1, <2>3, SeenMoves
<1>6. Seen(req)' = [Seen(req) EXCEPT ![r] = [pc |-> "idle"]]
  BY <1>5 DEF GiveUp, Settle
<1>7. CASE GiveUp(r)
  <2>1. Q!GiveUp(r)
    BY <1>3, <1>4, <1>6, <1>7 DEF GiveUp, Q!GiveUp, Q!Idle, Seen, Granted
  <2> QED
    BY <2>1 DEF Q!Next
<1>8. CASE Settle(r)
  <2>1. Q!Settle(r)
    BY <1>3, <1>4, <1>6, <1>8 DEF Settle, Q!Settle, Q!Idle, Q!AfterRecord, AfterRecord, Seen,
                                   Granted
  <2> QED
    BY <2>1 DEF Q!Next
<1> QED
  BY <1>7, <1>8

\* What a handler, the upstream or the client does.
LEMMA HandlerQuota ==
  ASSUME StageInv, UsageInv, NEW r \in Requests,
         \/ Serve(r) \/ UpstreamAnswers(r) \/ UpstreamLists(r) \/ ClientLeaves(r)
  PROVE  Q!Next \/ UNCHANGED Q!vars
<1> DEFINE Mapped == Q!Next \/ UNCHANGED Q!vars
<1>0. req \in [Requests -> Handlers] /\ req[r] \in Handlers
  BY DEF StageInv
<1>1. ASSUME NEW k \in Keys, Authenticate(r, k) PROVE Mapped
  BY <1>1, AuthenticateQuota
<1>2. ASSUME RejectBody(r) \/ EndList(r) PROVE Mapped
  BY <1>2, RespondTurnsAway DEF RejectBody, EndList, admin, Here
<1>3. ASSUME BeginList(r) PROVE Mapped
  BY <1>3, GotoOnward DEF BeginList, admin, Here
<1>4. ASSUME NEW name \in Asks, BeginResolve(r, name) PROVE Mapped
  <2> DEFINE q == [req[r] EXCEPT !.pc = "resolving",
                     !.rest = IF name \in DOMAIN aliases THEN aliases[name] ELSE <<name>>]
  <2>1. req' = [req EXCEPT ![r] = q] /\ UNCHANGED <<keys, usage>> /\ req[r].pc = "reading"
    BY <1>4 DEF BeginResolve, admin
  <2>2. q.id = req[r].id /\ q.key = req[r].key /\ q.pc = "resolving"
    BY <1>0 DEF Handlers
  <2> HIDE DEF q
  <2> QED
    BY <2>1, <2>2, Onward DEF Here
<1>5. ASSUME AskNext(r) PROVE Mapped
  <2> DEFINE t == Head(req[r].rest)
             q == [req[r] EXCEPT !.rest = Tail(@),
                                 !.chain = IF Allows(targets, t) THEN Append(@, t) ELSE @]
  <2>1. req' = [req EXCEPT ![r] = q] /\ UNCHANGED <<keys, usage>> /\ req[r].pc = "resolving"
    BY <1>5 DEF AskNext, admin
  <2>2. q.id = req[r].id /\ q.key = req[r].key /\ q.pc = "resolving"
    BY <1>0, <2>1 DEF Handlers
  <2> HIDE DEF q
  <2> QED
    BY <2>1, <2>2, Onward DEF Here
<1>6. ASSUME EndResolve(r) PROVE Mapped
  BY <1>6, RespondTurnsAway, GotoOnward DEF EndResolve, admin, Here
<1>7. ASSUME CheckPolicy(r) PROVE Mapped
  BY <1>7, RespondTurnsAway, GotoOnward DEF CheckPolicy, admin, Here
<1>8. ASSUME CheckRate(r) PROVE Mapped
  BY <1>8, RespondTurnsAway, GotoOnward DEF CheckRate, admin, Here
<1>9. ASSUME CheckQuota(r) PROVE Mapped
  BY <1>9, CheckQuotaQuota
<1>10. ASSUME Send(r) PROVE Mapped
  <2> DEFINE q == [req[r] EXCEPT !.pc = "waiting", !.sent = @ + 1]
  <2>1. req' = [req EXCEPT ![r] = q] /\ UNCHANGED <<keys, usage>> /\ req[r].pc = "ready"
    BY <1>10 DEF Send, admin
  <2>2. q.id = req[r].id /\ q.key = req[r].key /\ q.pc = "waiting"
    BY <1>0 DEF Handlers
  <2> HIDE DEF q
  <2> QED
    BY <2>1, <2>2, Onward DEF Passed
<1>11. ASSUME UpstreamAnswers(r) PROVE Mapped
  <2>1. PICK o \in Outcomes \cup {"cancelled"} :
          req' = [req EXCEPT ![r] = [@ EXCEPT !.pc = "answered", !.last = o]]
    BY <1>11 DEF UpstreamAnswers
  <2> DEFINE q == [req[r] EXCEPT !.pc = "answered", !.last = o]
  <2>2. req' = [req EXCEPT ![r] = q] /\ UNCHANGED <<keys, usage>> /\ req[r].pc = "waiting"
    BY <1>11, <2>1 DEF UpstreamAnswers, admin
  <2>3. q.id = req[r].id /\ q.key = req[r].key /\ q.pc = "answered"
    BY <1>0 DEF Handlers
  <2> HIDE DEF q
  <2> QED
    BY <2>2, <2>3, Onward DEF Passed
<1>12. ASSUME AttemptFailed(r) \/ AttemptSucceeded(r) PROVE Mapped
  BY <1>12, GotoOnward DEF AttemptFailed, AttemptSucceeded, admin, Passed
<1>13. ASSUME GiveUp(r) \/ Settle(r) PROVE Mapped
  BY <1>13, EndQuota
<1>14. ASSUME UpstreamLists(r) PROVE Mapped
  <2>1. CASE Respond(r, 502, "UPSTREAM_UNAVAILABLE")
    BY <1>14, <2>1, RespondTurnsAway DEF UpstreamLists, admin, Here
  <2>2. CASE \E list \in Catalogs :
               req' = [req EXCEPT ![r] = [@ EXCEPT !.pc = "filtering", !.rest = list]]
    <3>1. PICK list \in Catalogs :
            req' = [req EXCEPT ![r] = [@ EXCEPT !.pc = "filtering", !.rest = list]]
      BY <2>2
    <3> DEFINE q == [req[r] EXCEPT !.pc = "filtering", !.rest = list]
    <3>2. req' = [req EXCEPT ![r] = q] /\ UNCHANGED <<keys, usage>> /\ req[r].pc = "listing"
      BY <1>14, <3>1 DEF UpstreamLists, admin
    <3>3. q.id = req[r].id /\ q.key = req[r].key /\ q.pc = "filtering"
      BY <1>0 DEF Handlers
    <3> HIDE DEF q
    <3> QED
      BY <3>2, <3>3, Onward DEF Here
  <2> QED
    BY <1>14, <2>1, <2>2 DEF UpstreamLists
<1>15. ASSUME FilterNext(r) PROVE Mapped
  <2> DEFINE m == Head(req[r].rest)
             shown == EvaluateModel(denied, req[r].key, m) = "ALLOWED"
             q == [req[r] EXCEPT !.rest = Tail(@),
                                 !.chain = IF shown THEN Append(@, m) ELSE @]
  <2>1. req' = [req EXCEPT ![r] = q] /\ UNCHANGED <<keys, usage>> /\ req[r].pc = "filtering"
    BY <1>15 DEF FilterNext, admin
  <2>2. q.id = req[r].id /\ q.key = req[r].key /\ q.pc = "filtering"
    BY <1>0, <2>1 DEF Handlers
  <2> HIDE DEF q
  <2> QED
    BY <2>1, <2>2, Onward DEF Here
<1>16. ASSUME ClientLeaves(r) PROVE Mapped
  <2> DEFINE q == [req[r] EXCEPT !.gone = TRUE]
  <2>1. req' = [req EXCEPT ![r] = q] /\ UNCHANGED <<keys, usage>>
    BY <1>16 DEF ClientLeaves, admin
  <2>2. q.id = req[r].id /\ q.key = req[r].key /\ q.pc = req[r].pc
    BY <1>0 DEF Handlers
  <2>3. req[r].pc \in Here \/ req[r].pc \in Passed
    BY <1>0, <1>16 DEF ClientLeaves, Handlers, Phases, Here, Passed
  <2> HIDE DEF q
  <2> QED
    BY <2>1, <2>2, <2>3, Onward
<1> QED
  BY <1>1, <1>2, <1>3, <1>4, <1>5, <1>6, <1>7, <1>8, <1>9, <1>10, <1>11, <1>12, <1>13, <1>14,
     <1>15, <1>16 DEF Serve

\* What the administrator does to keys, as far as quotas are concerned.
LEMMA QuotasOfRecords ==
  \A record \in KeyRecords :
    QuotasOf(record) \in
      [Q!Periods -> UNION {{other.daily, other.monthly} : other \in KeyRecords}]
BY DEF QuotasOf, Q!Periods

LEMMA KeysQuota ==
  ASSUME StageInv, NEW k \in Keys,
         DeleteKey(k) \/ \E record \in KeyRecords : UpdateKey(k, record)
  PROVE  Q!Next
<1>1. UNCHANGED <<usage, req>> /\ k \in DOMAIN keys
  BY DEF DeleteKey, UpdateKey
<1>2. Seen(req)' = Seen(req) /\ k \in DOMAIN Granted(keys)
  BY <1>1 DEF Seen, Granted
<1>3. CASE DeleteKey(k)
  <2>1. Granted(keys)' = [j \in DOMAIN Granted(keys) \ {k} |-> Granted(keys)[j]]
    BY <1>3 DEF DeleteKey, Granted
  <2>2. Q!DeleteKey(k)
    BY <1>1, <1>2, <2>1 DEF Q!DeleteKey, Seen, Granted
  <2> QED
    BY <2>2 DEF Q!Next
<1>4. ASSUME NEW record \in KeyRecords, UpdateKey(k, record) PROVE Q!Next
  <2>1. Granted(keys)' = [Granted(keys) EXCEPT ![k] = QuotasOf(record)]
    BY <1>4 DEF UpdateKey, Granted
  <2>2. Q!UpdateKey(k, QuotasOf(record))
    BY <1>1, <1>2, <2>1 DEF Q!UpdateKey, Seen, Granted
  <2> QED
    BY <2>2, QuotasOfRecords DEF Q!Next
<1> QED
  BY <1>3, <1>4

LEMMA QuotaInit == Init => Q!Init
<1> SUFFICES ASSUME Init PROVE Q!Init
  OBVIOUS
<1>1. Seen(req) = [r \in Requests |-> [pc |-> "idle"]]
  <2>1. NoRequest.pc = "new"
    BY DEF NoRequest
  <2>2. QuotaPhase(NoRequest) = [pc |-> "idle"]
    BY <2>1, PhaseOf
  <2> QED
    BY <2>2 DEF Init, Seen
<1>2. DOMAIN keys = Keys /\ \A k \in Keys : keys[k] \in KeyRecords
  BY DEF Init
<1>3. Granted(keys) \in
        [Keys -> [Q!Periods -> UNION {{other.daily, other.monthly} : other \in KeyRecords}]]
  BY <1>2, QuotasOfRecords DEF Granted
<1>4. usage = [k \in Keys |-> NoUsage]
  BY DEF Init
<1> QED
  BY <1>1, <1>3, <1>4 DEF Q!Init, Q!Idle, Q!NoUsage, NoUsage, Seen, Granted

LEMMA QuotaNext == StageInv /\ UsageInv /\ [Next]_vars => [Q!Next]_(Q!vars)
<1> SUFFICES ASSUME StageInv, UsageInv, [Next]_vars PROVE Q!Next \/ UNCHANGED Q!vars
  OBVIOUS
<1>1. ASSUME NEW r \in Requests,
             \/ Serve(r) \/ UpstreamAnswers(r) \/ UpstreamLists(r) \/ ClientLeaves(r)
      PROVE  Q!Next \/ UNCHANGED Q!vars
  BY <1>1, HandlerQuota
<1>2. ASSUME NEW k \in Keys, DeleteKey(k) \/ \E record \in KeyRecords : UpdateKey(k, record)
      PROVE  Q!Next
  BY <1>2, KeysQuota
<1>3. ASSUME UNCHANGED <<keys, usage, req>> PROVE UNCHANGED Q!vars
  BY <1>3 DEF Q!vars
<1>4. CASE \/ \E a \in Aliases : DeleteAlias(a) \/ \E route \in Routes : SetAlias(a, route)
           \/ \E list \in DenyLists : SetGlobalDeny(list)
           \/ Tick \/ \E k \in Keys : WindowSlides(k)
           \/ UNCHANGED vars
  BY <1>3, <1>4 DEF DeleteAlias, SetAlias, SetGlobalDeny, Tick, WindowSlides, vars, admin
<1> QED
  BY <1>1, <1>2, <1>4 DEF Next, Environment

(***************************************************************************)
(* The data plane implements TokenQuota: every step of a handler, however   *)
(* its fallbacks and refusals go, is one step of that specification, or     *)
(* none (dataplane.go:238, dataplane.go:336).                               *)
(***************************************************************************)
THEOREM QuotaIsImplemented == Spec => ImplementsQuota
<1>1. Init => Q!Init
  BY QuotaInit
<1>2. StageInv /\ UsageInv /\ [Next]_vars => [Q!Next]_(Q!vars)
  BY QuotaNext
<1> QED
  BY <1>1, <1>2, Staged, UsageHolds, PTL DEF Spec, ImplementsQuota, Q!Spec

\* The theorems about TokenQuota, for what the data plane makes of its constants and variables.
TQ == INSTANCE TokenQuotaProofs WITH
        Estimates <- {Estimate},
        Limits    <- UNION {{record.daily, record.monthly} : record \in KeyRecords},
        MaxUsage  <- Estimate * Cardinality(Requests),
        limits    <- [k \in DOMAIN keys |-> QuotasOf(keys[k])],
        req       <- [r \in Requests |-> QuotaPhase(req[r])]

\* What TokenQuota assumes of its constants holds of these.
LEMMA SameFiniteness == ASSUME NEW S PROVE IsFiniteSet(S) <=> TQ!IsFiniteSet(S)
  BY DEF IsFiniteSet, TQ!IsFiniteSet

LEMMA QuotaAssumed == TQ!QuotaAssumption
<1>1. Estimate \in Nat /\ TQ!IsFiniteSet(Requests)
  BY DataPlaneAssumption, SameFiniteness
<1>2. Cardinality(Requests) \in Nat
  BY DataPlaneAssumption, FS_CardinalityType
<1>3. UNION {{record.daily, record.monthly} : record \in KeyRecords} \subseteq Nat
  BY DataPlaneAssumption
<1>4. Estimate * Cardinality(Requests) \in Nat
  BY <1>1, <1>2
<1>5. {Estimate} \subseteq Nat /\ \E n \in {Estimate} : \A m \in {Estimate} : m <= n
  BY <1>1
<1> QED
  BY <1>1, <1>3, <1>4, <1>5 DEF TQ!QuotaAssumption

\* The two instances are of one specification.
LEMMA SameQuotaInit == Q!Init => TQ!Init
  BY DEF Q!Init, TQ!Init, Q!Idle, TQ!Idle, Q!NoUsage, TQ!NoUsage, Q!Periods,
         TQ!Periods

LEMMA SameQuotaSteps == [Q!Next]_(Q!vars) => [TQ!Next]_(TQ!vars)
<1>1. ASSUME NEW r, NEW k PROVE Q!Authenticate(r, k) => TQ!Authenticate(r, k)
  BY DEF Q!Authenticate, TQ!Authenticate, Q!Idle, TQ!Idle
<1>2. ASSUME NEW r, NEW tokens
      PROVE  /\ Q!Admit(r, tokens) => TQ!Admit(r, tokens)
             /\ Q!Refuse(r, tokens) => TQ!Refuse(r, tokens)
  BY DEF Q!Admit, TQ!Admit, Q!Refuse, TQ!Refuse, Q!Idle, TQ!Idle,
         Q!QuotaAllows, TQ!QuotaAllows, Q!Fits, TQ!Fits
<1>3. ASSUME NEW r
      PROVE  /\ Q!TurnAway(r) => TQ!TurnAway(r)
             /\ Q!Settle(r) => TQ!Settle(r)
             /\ Q!GiveUp(r) => TQ!GiveUp(r)
  BY DEF Q!TurnAway, TQ!TurnAway, Q!Settle, TQ!Settle, Q!GiveUp, TQ!GiveUp,
         Q!Idle, TQ!Idle, Q!AfterRecord, TQ!AfterRecord
<1>4. ASSUME NEW k
      PROVE  /\ Q!DeleteKey(k) => TQ!DeleteKey(k)
             /\ \A new : Q!UpdateKey(k, new) => TQ!UpdateKey(k, new)
  BY DEF Q!DeleteKey, TQ!DeleteKey, Q!UpdateKey, TQ!UpdateKey
<1>5. Q!vars = TQ!vars /\ Q!vars' = TQ!vars' /\ Q!Periods = TQ!Periods
  BY DEF Q!vars, TQ!vars, Q!Periods, TQ!Periods
<1> HIDE DEF Q!vars
<1>6. Q!Next => TQ!Next
  BY <1>1, <1>2, <1>3, <1>4, <1>5 DEF Q!Next, TQ!Next
<1> QED
  BY <1>5, <1>6

(***************************************************************************)
(* So the overshoot is bounded in the data plane too: whatever the chains,  *)
(* fallbacks and hang-ups, what a key has used and is committed to grows    *)
(* only when one of its requests passes the check, and then beyond the      *)
(* limit that request saw by at most one estimate for each other request    *)
(* of the key in flight (dataplane.go:238).                                 *)
(***************************************************************************)
THEOREM DataPlaneOvershootIsBounded == Spec => TQ!OvershootBounded
<1>1. Spec => Q!Spec
  BY QuotaIsImplemented DEF ImplementsQuota
<1>2. Q!Spec => TQ!Spec
  BY SameQuotaInit, SameQuotaSteps, PTL DEF Q!Spec, TQ!Spec
<1>3. TQ!Spec => TQ!OvershootBounded
  BY QuotaAssumed, TQ!OvershootIsBounded
<1> QED
  BY <1>1, <1>2, <1>3

-----------------------------------------------------------------------------

\* There is a caller for every turn a request takes in Resolve.
Turned(q, refused) ==
  /\ q.pc \in {"new", "reading", "listing"} => refused = <<>>
  /\ q.pc \notin {"filtering", "done"} => 1..Len(q.chain) \subseteq Turns
  /\ q.pc = "resolving" => 1..(Len(q.chain) + Len(refused) + Len(q.rest)) \subseteq Turns

TurnInv == \A r \in Requests : Turned(req[r], ledger[r].refused)

\* What BreakerContract sees of all callers.
CallerPhases == [c \in Callers |-> CallerPhase(req[c[1]], ledger[c[1]].refused, c[2], c[3])]
CallerAims == [c \in Callers |-> CallerAim(req[c[1]], ledger[c[1]].refused, c[2], c[3])]

NobodyRefused == \A s \in Requests : ledger'[s].refused = ledger[s].refused

LEMMA TurnsKept ==
  ASSUME StageInv, TurnInv, NEW r \in Requests, NEW q, req' = [req EXCEPT ![r] = q],
         \A s \in Requests \ {r} : ledger'[s].refused = ledger[s].refused,
         Turned(q, ledger'[r].refused)
  PROVE  TurnInv'
<1>1. ASSUME NEW s \in Requests PROVE Turned(req'[s], ledger'[s].refused)
  BY DEF StageInv, TurnInv
<1> QED
  BY <1>1 DEF TurnInv, Turned, Turns

\* A step of r, after which its handler is q, moves at most the caller <<r, list, i>>.
OnlyMoves(r, q, list, i) ==
  /\ req' = [req EXCEPT ![r] = q]
  /\ \A s \in Requests \ {r} : ledger'[s].refused = ledger[s].refused
  /\ \A l \in {"chain", "refused"}, j \in Turns : l # list \/ j # i =>
       /\ CallerPhase(q, ledger'[r].refused, l, j) = CallerPhase(req[r], ledger[r].refused, l, j)
       /\ CallerAim(q, ledger'[r].refused, l, j) = CallerAim(req[r], ledger[r].refused, l, j)

LEMMA CallersMove ==
  ASSUME StageInv, NEW r \in Requests, NEW q,
         NEW list \in {"chain", "refused"}, NEW i \in Turns, OnlyMoves(r, q, list, i),
         NEW c, c = <<r, list, i>>
  PROVE  /\ c \in Callers
         /\ CallerPhases[c] = CallerPhase(req[r], ledger[r].refused, list, i)
         /\ CallerAims[c] = CallerAim(req[r], ledger[r].refused, list, i)
         /\ CallerPhases' = [CallerPhases EXCEPT ![c] = CallerPhase(q, ledger'[r].refused, list, i)]
         /\ CallerAims' = [CallerAims EXCEPT ![c] = CallerAim(q, ledger'[r].refused, list, i)]
<1> DEFINE phase(d) == CallerPhase(req[d[1]], ledger[d[1]].refused, d[2], d[3])
           aim(d) == CallerAim(req[d[1]], ledger[d[1]].refused, d[2], d[3])
<1> USE DEF OnlyMoves
<1>1. c \in Callers /\ c[1] = r /\ c[2] = list /\ c[3] = i
  BY DEF Callers
<1>2. ASSUME NEW d \in Callers
      PROVE  /\ phase(d)' = IF d = c THEN CallerPhase(q, ledger'[r].refused, list, i) ELSE phase(d)
             /\ aim(d)' = IF d = c THEN CallerAim(q, ledger'[r].refused, list, i) ELSE aim(d)
  <2>1. /\ d = <<d[1], d[2], d[3]>>
        /\ d[1] \in Requests /\ d[2] \in {"chain", "refused"} /\ d[3] \in Turns
    BY DEF Callers
  <2>2. CASE d[1] # r
    <3>1. req'[d[1]] = req[d[1]] /\ ledger'[d[1]].refused = ledger[d[1]].refused
      BY <2>1, <2>2 DEF StageInv
    <3> QED
      BY <1>1, <2>2, <3>1 DEF CallerPhase, CallerAim, Asked, Listed
  <2>3. CASE d[1] = r
    <3>1. req'[d[1]] = q /\ ledger'[d[1]] = ledger'[r]
      BY <2>3 DEF StageInv
    <3>2. /\ phase(d)' = CallerPhase(q, ledger'[r].refused, d[2], d[3])
          /\ aim(d)' = CallerAim(q, ledger'[r].refused, d[2], d[3])
      BY <3>1 DEF CallerPhase, CallerAim, Asked, Listed
    <3>3. CASE d = c
      BY <1>1, <3>2, <3>3
    <3>4. CASE d # c
      <4>1. d[2] # list \/ d[3] # i
        BY <2>1, <2>3, <3>4
      <4> QED
        BY <2>1, <2>3, <3>2, <3>4, <4>1
    <3> QED
      BY <3>3, <3>4
  <2> QED
    BY <2>2, <2>3
<1>3. Callers' = Callers
  BY DEF Callers, Turns
<1>4. /\ CallerPhases = [d \in Callers |-> phase(d)]
      /\ CallerAims = [d \in Callers |-> aim(d)]
      /\ CallerPhases' = [d \in Callers |-> phase(d)']
      /\ CallerAims' = [d \in Callers |-> aim(d)']
  BY DEF CallerPhases, CallerAims, Callers, Turns
<1>5. phase(c) = CallerPhase(req[r], ledger[r].refused, list, i)
      /\ aim(c) = CallerAim(req[r], ledger[r].refused, list, i)
  BY <1>1
<1> HIDE DEF phase, aim
<1> QED
  BY <1>1, <1>2, <1>4, <1>5

\* What a request looks like to the breaker.
Alike(q, p) ==
  /\ Asked(q, <<>>, "chain") = Asked(p, <<>>, "chain")
  /\ q.sent = p.sent /\ q.last = p.last
  /\ q.pc = "waiting" <=> p.pc = "waiting"
  /\ q.pc = "answered" <=> p.pc = "answered"

LEMMA AlikeToBreaker ==
  ASSUME NEW q, NEW p, Alike(q, p), NEW refused, NEW list, NEW i
  PROVE  /\ CallerPhase(q, refused, list, i) = CallerPhase(p, refused, list, i)
         /\ CallerAim(q, refused, list, i) = CallerAim(p, refused, list, i)
<1>1. Asked(q, refused, list) = Asked(p, refused, list)
  BY DEF Alike, Asked
<1>2. CallerPhase(q, refused, list, i) = CallerPhase(p, refused, list, i)
  BY <1>1 DEF Alike, CallerPhase
<1> QED
  BY <1>1, <1>2 DEF CallerAim

LEMMA NoCallerMoves ==
  ASSUME StageInv, NEW r \in Requests, NEW q, req' = [req EXCEPT ![r] = q],
         NobodyRefused, targets' = targets,
         \A l \in {"chain", "refused"}, j \in Turns :
           /\ CallerPhase(q, ledger[r].refused, l, j) = CallerPhase(req[r], ledger[r].refused, l, j)
           /\ CallerAim(q, ledger[r].refused, l, j) = CallerAim(req[r], ledger[r].refused, l, j)
  PROVE  UNCHANGED B!vars
<1>1. 1 \in Turns /\ "chain" \in {"chain", "refused"}
  BY DEF Turns
<1>2. OnlyMoves(r, q, "chain", 1)
  BY DEF OnlyMoves, NobodyRefused
<1>3. /\ CallerPhase(q, ledger'[r].refused, "chain", 1)
           = CallerPhase(req[r], ledger[r].refused, "chain", 1)
      /\ CallerAim(q, ledger'[r].refused, "chain", 1)
           = CallerAim(req[r], ledger[r].refused, "chain", 1)
  BY <1>1 DEF NobodyRefused
<1> DEFINE c == <<r, "chain", 1>>
<1>4. c = <<r, "chain", 1>>
  OBVIOUS
<1> HIDE DEF c
<1>5. /\ c \in Callers
      /\ CallerPhases' = [CallerPhases EXCEPT ![c] = CallerPhases[c]]
      /\ CallerAims' = [CallerAims EXCEPT ![c] = CallerAims[c]]
  BY <1>1, <1>2, <1>3, <1>4, CallersMove
<1>6. CallerPhases' = CallerPhases /\ CallerAims' = CallerAims
  BY <1>5 DEF CallerPhases, CallerAims
<1>7. /\ Streaks(Names, targets)' = Streaks(Names, targets)
      /\ QuietTimes(Names, targets)' = QuietTimes(Names, targets)
  BY DEF Streaks, QuietTimes, FailuresOf
<1> QED
  BY <1>6, <1>7 DEF B!vars, CallerPhases, CallerAims

\* Any step the breaker takes no part in.
LEMMA Unnoticed ==
  ASSUME StageInv, TurnInv, NEW r \in Requests, NEW q, req' = [req EXCEPT ![r] = q],
         NobodyRefused, targets' = targets, Alike(q, req[r]), Turned(q, ledger[r].refused)
  PROVE  UNCHANGED B!vars /\ TurnInv'
<1>1. TurnInv'
  BY TurnsKept DEF NobodyRefused
<1>2. \A l, j :
        /\ CallerPhase(q, ledger[r].refused, l, j) = CallerPhase(req[r], ledger[r].refused, l, j)
        /\ CallerAim(q, ledger[r].refused, l, j) = CallerAim(req[r], ledger[r].refused, l, j)
  BY AlikeToBreaker
<1> QED
  BY <1>1, <1>2, NoCallerMoves

LEMMA GotoUnnoticed ==
  ASSUME StageInv, TurnInv, NEW r \in Requests, NEW pc, Goto(r, pc), NobodyRefused,
         targets' = targets,
         req[r].pc \in {"reading", "resolving", "resolved", "permitted", "metered"},
         \/ pc \in {"resolved", "permitted", "metered", "ready"}
         \/ pc = "listing" /\ req[r].pc = "reading"
  PROVE  UNCHANGED B!vars /\ TurnInv'
<1> DEFINE q == [req[r] EXCEPT !.pc = pc]
<1>1. req' = [req EXCEPT ![r] = q]
  BY DEF Goto, StageInv
<1>2. /\ q.pc = pc /\ q.chain = req[r].chain /\ q.sent = req[r].sent /\ q.last = req[r].last
      /\ q.rest = req[r].rest
  BY DEF StageInv, Handlers
<1>3. Turned(req[r], ledger[r].refused)
  BY DEF TurnInv
<1> HIDE DEF q
<1>4. Alike(q, req[r])
  BY <1>2 DEF Alike, Asked, Listed
<1>5. Turned(q, ledger[r].refused)
  BY <1>2, <1>3 DEF Turned
<1> QED
  BY <1>1, <1>4, <1>5, Unnoticed

LEMMA RespondUnnoticed ==
  ASSUME StageInv, TurnInv, NEW r \in Requests, NEW status, NEW code, Respond(r, status, code),
         NobodyRefused, targets' = targets,
         req[r].pc \notin {"waiting", "answered", "done"},
         req[r].pc = "filtering" <=> code = "models"
  PROVE  UNCHANGED B!vars /\ TurnInv'
<1> DEFINE q == [req[r] EXCEPT !.pc = "done", !.status = status, !.code = code]
<1>1. req' = [req EXCEPT ![r] = q]
  BY DEF Respond, StageInv
<1>2. /\ q.pc = "done" /\ q.chain = req[r].chain /\ q.sent = req[r].sent /\ q.last = req[r].last
      /\ q.code = code
  BY DEF StageInv, Handlers
<1> HIDE DEF q
<1>3. Alike(q, req[r])
  BY <1>2 DEF Alike, Asked, Listed
<1>4. Turned(q, ledger[r].refused)
  BY <1>2 DEF Turned
<1> QED
  BY <1>1, <1>3, <1>4, Unnoticed

\* The ledger's entries about attempts, audit, slots and charges are not about refusals.
LEMMA OtherEntries ==
  ASSUME StageInv, NEW r \in Requests,
         \/ UNCHANGED ledger
         \/ \E event : Log(r, event)
         \/ \E n : ledger' = [ledger EXCEPT ![r].slot = n]
         \/ \E n : ledger' = [ledger EXCEPT ![r].counted = n]
         \/ \E n : ledger' = [ledger EXCEPT ![r].charged = n]
         \/ \E n : ledger' = [ledger EXCEPT ![r].tried = n]
  PROVE  NobodyRefused
<1>1. ledger \in [Requests -> Effects]
  BY DEF StageInv
<1>2. CASE \E event : Log(r, event)
  <2>1. PICK event : ledger' = [ledger EXCEPT ![r].events = @ \cup {event}]
    BY <1>2 DEF Log
  <2> QED
    BY <1>1, <2>1 DEF NobodyRefused, Effects
<1>3. ASSUME NEW n, ledger' = [ledger EXCEPT ![r].slot = n] PROVE NobodyRefused
  BY <1>1, <1>3 DEF NobodyRefused, Effects
<1>4. ASSUME NEW n, ledger' = [ledger EXCEPT ![r].counted = n] PROVE NobodyRefused
  BY <1>1, <1>4 DEF NobodyRefused, Effects
<1>5. ASSUME NEW n, ledger' = [ledger EXCEPT ![r].charged = n] PROVE NobodyRefused
  BY <1>1, <1>5 DEF NobodyRefused, Effects
<1>6. ASSUME NEW n, ledger' = [ledger EXCEPT ![r].tried = n] PROVE NobodyRefused
  BY <1>1, <1>6 DEF NobodyRefused, Effects
<1>7. CASE UNCHANGED ledger
  BY <1>7 DEF NobodyRefused
<1> QED
  BY <1>2, <1>3, <1>4, <1>5, <1>6, <1>7

\* All steps of a handler that do not ask the breaker, send or report.
LEMMA HandlerUnnoticed ==
  ASSUME StageInv, TurnInv, NEW r \in Requests,
         \/ Serve(r) \/ UpstreamLists(r) \/ ClientLeaves(r),
         ~AskNext(r), ~Send(r), ~AttemptFailed(r), ~AttemptSucceeded(r)
  PROVE  UNCHANGED B!vars /\ TurnInv'
<1> DEFINE Quiet == UNCHANGED B!vars /\ TurnInv'
<1>0. /\ req[r] \in Handlers /\ req \in [Requests -> Handlers]
      /\ Turned(req[r], ledger[r].refused) /\ Stage(req[r], ledger[r])
  BY DEF StageInv, TurnInv
<1> HIDE DEF Quiet
<1>1. ASSUME NEW k \in Keys, Authenticate(r, k) PROVE Quiet
  <2>1. CASE Respond(r, 401, "invalid_api_key") /\ Log(r, "AUTH_FAILURE")
    BY <1>1, <2>1, OtherEntries, RespondUnnoticed DEF Authenticate, Quiet
  <2>2. CASE UNCHANGED ledger /\ req' = [req EXCEPT ![r] =
               [@ EXCEPT !.pc = "reading", !.id = k, !.key = keys[k]]]
    <3> DEFINE q == [req[r] EXCEPT !.pc = "reading", !.id = k, !.key = keys[k]]
    <3>1. req' = [req EXCEPT ![r] = q] /\ req[r].pc = "new" /\ targets' = targets
      BY <1>1, <2>2 DEF Authenticate
    <3>2. /\ q.pc = "reading" /\ q.chain = req[r].chain /\ q.sent = req[r].sent
          /\ q.last = req[r].last
      BY <1>0 DEF Handlers
    <3> HIDE DEF q
    <3>3. Alike(q, req[r])
      BY <3>1, <3>2 DEF Alike, Asked, Listed
    <3>4. Turned(q, ledger[r].refused)
      BY <1>0, <3>1, <3>2 DEF Turned
    <3> QED
      BY <2>2, <3>1, <3>3, <3>4, OtherEntries, Unnoticed DEF Quiet
  <2> QED
    BY <1>1, <2>1, <2>2 DEF Authenticate
<1>2. ASSUME RejectBody(r) \/ EndList(r) PROVE Quiet
  BY <1>2, OtherEntries, RespondUnnoticed DEF RejectBody, EndList, Quiet
<1>3. ASSUME BeginList(r) PROVE Quiet
  BY <1>3, OtherEntries, GotoUnnoticed DEF BeginList, Quiet
<1>4. ASSUME NEW name \in Asks, BeginResolve(r, name) PROVE Quiet
  <2> DEFINE route == IF name \in DOMAIN aliases THEN aliases[name] ELSE <<name>>
             q == [req[r] EXCEPT !.pc = "resolving", !.rest = route]
  <2>1. req' = [req EXCEPT ![r] = q] /\ req[r].pc = "reading" /\ targets' = targets
        /\ UNCHANGED ledger
    BY <1>4 DEF BeginResolve
  <2>2. /\ q.pc = "resolving" /\ q.chain = req[r].chain /\ q.sent = req[r].sent
        /\ q.last = req[r].last /\ q.rest = route
    BY <1>0 DEF Handlers
  <2>3. req[r].chain = <<>> /\ ledger[r].refused = <<>>
    BY <1>0, <2>1 DEF Turned, Stage
  <2>4. 1..Len(route) \subseteq Turns /\ Len(route) \in Nat
    <3>1. CASE name \in DOMAIN aliases
      <4>1. route \in Routes /\ route \in Seq(Names)
        BY <3>1, DataPlaneAssumption DEF StageInv, Settings
      <4> HIDE DEF route
      <4>2. DOMAIN route = 1..Len(route) /\ Len(route) \in Nat
        BY <4>1
      <4> QED
        BY <4>1, <4>2 DEF Turns
    <3>2. CASE name \notin DOMAIN aliases
      BY <3>2 DEF Turns
    <3> QED
      BY <3>1, <3>2
  <2> HIDE DEF q, route
  <2>5. Alike(q, req[r])
    BY <2>1, <2>2 DEF Alike, Asked, Listed
  <2>6. Turned(q, ledger[r].refused)
    BY <2>2, <2>3, <2>4 DEF Turned
  <2> QED
    BY <2>1, <2>5, <2>6, OtherEntries, Unnoticed DEF Quiet
<1>5. ASSUME EndResolve(r) PROVE Quiet
  BY <1>5, OtherEntries, RespondUnnoticed, GotoUnnoticed DEF EndResolve, Quiet
<1>6. ASSUME CheckPolicy(r) PROVE Quiet
  BY <1>6, OtherEntries, RespondUnnoticed, GotoUnnoticed DEF CheckPolicy, Quiet
<1>7. ASSUME CheckRate(r) PROVE Quiet
  <2>1. UNCHANGED ledger \/ ledger' = [ledger EXCEPT ![r].slot = TRUE] \/ Log(r, "RATE_LIMITED")
    BY <1>7 DEF CheckRate
  <2>2. NobodyRefused
    BY <2>1, OtherEntries
  <2>3. Goto(r, "metered") \/ Respond(r, 429, "rate_limited")
    BY <1>7 DEF CheckRate
  <2> QED
    BY <1>7, <2>2, <2>3, RespondUnnoticed, GotoUnnoticed DEF CheckRate, Quiet
<1>8. ASSUME CheckQuota(r) PROVE Quiet
  BY <1>8, OtherEntries, RespondUnnoticed, GotoUnnoticed DEF CheckQuota, Quiet
<1>9. ASSUME GiveUp(r) \/ Settle(r) PROVE Quiet
  <2>1. \/ \E n : ledger' = [ledger EXCEPT ![r].counted = n]
        \/ \E n : ledger' = [ledger EXCEPT ![r].charged = n]
    BY <1>9 DEF GiveUp, Settle
  <2>2. NobodyRefused
    BY <2>1, OtherEntries
  <2>3. /\ Respond(r, 502, ErrorCode(req[r].last)) \/ Respond(r, 200, "none")
        /\ ErrorCode(req[r].last) # "models"
        /\ req[r].pc \in {"ready", "forwarded"} /\ targets' = targets
    BY <1>9 DEF GiveUp, Settle, ErrorCode
  <2> QED
    BY <2>2, <2>3, RespondUnnoticed DEF Quiet
<1>10. ASSUME UpstreamLists(r) PROVE Quiet
  <2>1. CASE Respond(r, 502, "UPSTREAM_UNAVAILABLE")
    <3>1. req[r].pc = "listing" /\ targets' = targets /\ NobodyRefused
      BY <1>10, OtherEntries DEF UpstreamLists
    <3> QED
      BY <2>1, <3>1, RespondUnnoticed DEF Quiet
  <2>2. ASSUME NEW list \in Catalogs,
               req' = [req EXCEPT ![r] = [@ EXCEPT !.pc = "filtering", !.rest = list]]
        PROVE  Quiet
    <3> DEFINE q == [req[r] EXCEPT !.pc = "filtering", !.rest = list]
    <3>1. req' = [req EXCEPT ![r] = q] /\ req[r].pc = "listing" /\ targets' = targets
          /\ UNCHANGED ledger
      BY <1>10, <2>2 DEF UpstreamLists
    <3>2. q.pc = "filtering" /\ q.sent = req[r].sent /\ q.last = req[r].last
      BY <1>0 DEF Handlers
    <3>3. req[r].chain = <<>>
      BY <1>0, <3>1 DEF Stage
    <3> HIDE DEF q
    <3>4. Alike(q, req[r])
      BY <3>1, <3>2, <3>3 DEF Alike, Asked, Listed
    <3>5. Turned(q, ledger[r].refused)
      BY <3>2 DEF Turned
    <3> QED
      BY <3>1, <3>4, <3>5, OtherEntries, Unnoticed DEF Quiet
  <2> QED
    BY <1>10, <2>1, <2>2 DEF UpstreamLists
<1>11. ASSUME FilterNext(r) PROVE Quiet
  <2> DEFINE m == Head(req[r].rest)
             shown == EvaluateModel(denied, req[r].key, m) = "ALLOWED"
             q == [req[r] EXCEPT !.rest = Tail(@),
                                 !.chain = IF shown THEN Append(@, m) ELSE @]
  <2>1. req' = [req EXCEPT ![r] = q] /\ req[r].pc = "filtering" /\ targets' = targets
        /\ UNCHANGED ledger
    BY <1>11 DEF FilterNext
  <2>2. q.pc = "filtering" /\ q.sent = req[r].sent /\ q.last = req[r].last
    BY <1>0, <2>1 DEF Handlers
  <2> HIDE DEF q
  <2>3. Alike(q, req[r])
    BY <2>1, <2>2 DEF Alike, Asked, Listed
  <2>4. Turned(q, ledger[r].refused)
    BY <2>2 DEF Turned
  <2> QED
    BY <2>1, <2>3, <2>4, OtherEntries, Unnoticed DEF Quiet
<1>12. ASSUME ClientLeaves(r) PROVE Quiet
  <2> DEFINE q == [req[r] EXCEPT !.gone = TRUE]
  <2>1. req' = [req EXCEPT ![r] = q] /\ targets' = targets /\ UNCHANGED ledger
    BY <1>12 DEF ClientLeaves
  <2>2. /\ q.pc = req[r].pc /\ q.chain = req[r].chain /\ q.sent = req[r].sent
        /\ q.last = req[r].last /\ q.code = req[r].code /\ q.rest = req[r].rest
    BY <1>0 DEF Handlers
  <2> HIDE DEF q
  <2>3. Alike(q, req[r])
    BY <2>2 DEF Alike, Asked, Listed
  <2>4. Turned(q, ledger[r].refused)
    BY <1>0, <2>2 DEF Turned
  <2> QED
    BY <2>1, <2>3, <2>4, OtherEntries, Unnoticed DEF Quiet
<1> QED
  BY <1>1, <1>2, <1>3, <1>4, <1>5, <1>6, <1>7, <1>8, <1>9, <1>10, <1>11, <1>12 DEF Serve, Quiet


\* A sequence and one more element.
LEMMA OneLonger ==
  ASSUME NEW S, NEW s \in Seq(S), NEW t \in S
  PROVE  /\ Len(s) \in Nat /\ Len(Append(s, t)) = Len(s) + 1
         /\ Append(s, t)[Len(s) + 1] = t /\ Len(s) + 1 \in DOMAIN Append(s, t)
         /\ Len(s) + 1 \notin DOMAIN s
         /\ \A j : j # Len(s) + 1 => /\ j \in DOMAIN Append(s, t) <=> j \in DOMAIN s
                                     /\ j \in DOMAIN s => Append(s, t)[j] = s[j]
<1>1. /\ Len(s) \in Nat /\ DOMAIN s = 1..Len(s)
      /\ Append(s, t) \in Seq(S) /\ Len(Append(s, t)) = Len(s) + 1
      /\ Append(s, t)[Len(s) + 1] = t
  OBVIOUS
<1>2. DOMAIN Append(s, t) = 1..(Len(s) + 1)
  BY <1>1
<1>3. ASSUME NEW j \in DOMAIN s PROVE Append(s, t)[j] = s[j]
  BY <1>1
<1>4. ASSUME NEW j, j # Len(s) + 1 PROVE j \in DOMAIN Append(s, t) <=> j \in DOMAIN s
  BY <1>1, <1>2, <1>4
<1> QED
  BY <1>1, <1>2, <1>3, <1>4

\* What one turn of the loop in Resolve does to the two lists.
LEMMA OneTurn ==
  ASSUME StageInv, TurnInv, NEW r \in Requests, req[r].pc = "resolving", req[r].rest # <<>>
  PROVE  /\ Len(Tail(req[r].rest)) \in Nat
         /\ \A a, b \in Nat :
              a + b = Len(req[r].chain) + Len(ledger[r].refused) + 1 =>
                1..a \subseteq Turns /\ 1..(a + b + Len(Tail(req[r].rest))) \subseteq Turns
         /\ Len(req[r].chain) + 1 \in Turns /\ Len(ledger[r].refused) + 1 \in Turns
<1> DEFINE x == Len(req[r].chain)
           y == Len(ledger[r].refused)
           z == Len(req[r].rest)
           w == Len(Tail(req[r].rest))
<1>1. req[r].rest \in Seq(Names) /\ req[r].chain \in Seq(Names) /\ ledger[r].refused \in Seq(Names)
  BY DEF StageInv, Handlers, Effects
<1>2. x \in Nat /\ y \in Nat /\ z \in Nat /\ w \in Nat /\ z = w + 1
  BY <1>1
<1>3. 1..(x + y + z) \subseteq Turns
  BY DEF TurnInv, Turned
<1> HIDE DEF x, y, z, w
<1>4. ASSUME NEW a \in Nat, NEW b \in Nat, a + b = x + y + 1
      PROVE  1..a \subseteq Turns /\ 1..(a + b + w) \subseteq Turns
  <2>1. a + b + w = x + y + z
    BY <1>2, <1>4
  <2>2. 1..a \subseteq 1..(a + b + w)
    BY <1>2
  <2> QED
    BY <1>3, <2>1, <2>2
<1>5. x + 1 \in 1..(x + y + z) /\ y + 1 \in 1..(x + y + z)
  BY <1>2
<1> QED
  BY <1>2, <1>3, <1>4, <1>5 DEF x, y, z, w

\* Resolve asks about the next target: as the contract says, and no circuit changes that counts.
LEMMA AskNextAsks ==
  ASSUME StageInv, CircuitInv, TurnInv, NEW r \in Requests, AskNext(r)
  PROVE  B!Next /\ TurnInv'
<1> DEFINE t == Head(req[r].rest)
           ok == Allows(targets, t)
           chain == IF ok THEN Append(req[r].chain, t) ELSE req[r].chain
           refused == IF ok THEN ledger[r].refused ELSE Append(ledger[r].refused, t)
           q == [req[r] EXCEPT !.rest = Tail(@), !.chain = chain]
           list == IF ok THEN "chain" ELSE "refused"
           before == Asked(req[r], ledger[r].refused, list)
           after == Asked(q, refused, list)
           n == Len(before) + 1
           c == <<r, list, n>>
<1>0. /\ req[r] \in Handlers /\ req[r].pc = "resolving" /\ req[r].rest # <<>>
      /\ req[r].rest \in Seq(Names) /\ req[r].chain \in Seq(Names)
      /\ ledger[r].refused \in Seq(Names) /\ req[r].sent = 0
  BY DEF AskNext, StageInv, Stage, Handlers, Effects
<1>1. t \in Names
  BY <1>0, NextTarget
<1>2. /\ targets' = AfterAllow(targets, t)
      /\ req' = [req EXCEPT ![r] = q]
      /\ \A s \in Requests \ {r} : ledger'[s].refused = ledger[s].refused
      /\ ledger'[r].refused = refused
  BY DEF AskNext, StageInv, Effects
<1>3. /\ q.pc = "resolving" /\ q.sent = 0 /\ q.chain = chain /\ q.rest = Tail(req[r].rest)
      /\ q.last = req[r].last
  BY <1>0 DEF Handlers
<1> HIDE DEF q, t
<1>4. /\ Asked(req[r], ledger[r].refused, "chain") = req[r].chain
      /\ Asked(req[r], ledger[r].refused, "refused") = ledger[r].refused
      /\ Asked(q, refused, "chain") = chain /\ Asked(q, refused, "refused") = refused
  BY <1>0, <1>3 DEF Asked, Listed
<1>5. /\ Len(before) \in Nat /\ n > 0 /\ n \notin DOMAIN before
      /\ n \in DOMAIN after /\ after[n] = t
      /\ \A j : j # n => /\ j \in DOMAIN after <=> j \in DOMAIN before
                         /\ j \in DOMAIN before => after[j] = before[j]
  <2>1. before \in Seq(Names) /\ after = Append(before, t)
    BY <1>0, <1>4
  <2> HIDE DEF before, after
  <2> QED
    BY <1>1, <2>1, OneLonger
<1>6. \A l \in {"chain", "refused"} : l # list =>
        Asked(q, refused, l) = Asked(req[r], ledger[r].refused, l)
  BY <1>4
<1>7. n \in Turns /\ list \in {"chain", "refused"}
  <2>1. Len(before) + 1 \in Turns
    BY <1>0, <1>4, OneTurn
  <2> QED
    BY <2>1
<1>8. TurnInv'
  <2>1. /\ Len(chain) \in Nat /\ Len(refused) \in Nat
        /\ Len(chain) + Len(refused) = Len(req[r].chain) + Len(ledger[r].refused) + 1
    <3>1. Len(ledger[r].refused) \in Nat /\ Len(req[r].chain) \in Nat
      BY <1>0, <1>1, OneLonger
    <3>2. \/ /\ Len(chain) = Len(req[r].chain) + 1
             /\ Len(refused) = Len(ledger[r].refused)
          \/ /\ Len(chain) = Len(req[r].chain)
             /\ Len(refused) = Len(ledger[r].refused) + 1
      <4>1. CASE ok
        BY <1>0, <1>1, <4>1, OneLonger
      <4>2. CASE ~ok
        BY <1>0, <1>1, <4>2, OneLonger
      <4> QED
        BY <4>1, <4>2
    <3> DEFINE x == Len(req[r].chain)
               y == Len(ledger[r].refused)
               a == Len(chain)
               b == Len(refused)
    <3>3. /\ x \in Nat /\ y \in Nat
          /\ \/ a = x + 1 /\ b = y
             \/ a = x /\ b = y + 1
      BY <3>1, <3>2
    <3> HIDE DEF x, y, a, b
    <3>4. a \in Nat /\ b \in Nat /\ a + b = x + y + 1
      BY <3>3
    <3> QED
      BY <3>4 DEF x, y, a, b
  <2> HIDE DEF chain, refused
  <2>2. /\ 1..Len(chain) \subseteq Turns
        /\ 1..(Len(chain) + Len(refused) + Len(Tail(req[r].rest))) \subseteq Turns
    BY <1>0, <2>1, OneTurn
  <2>3. Turned(q, ledger'[r].refused)
    BY <1>2, <1>3, <2>2 DEF Turned
  <2> QED
    BY <1>2, <2>3, TurnsKept
<1>9. ok <=> list = "chain"
  OBVIOUS
<1> HIDE DEF chain, refused, list, n, c
<1>10. OnlyMoves(r, q, list, n)
  <2>1. ASSUME NEW l \in {"chain", "refused"}, NEW j \in Turns, l # list \/ j # n
        PROVE  /\ CallerPhase(q, refused, l, j) = CallerPhase(req[r], ledger[r].refused, l, j)
               /\ CallerAim(q, refused, l, j) = CallerAim(req[r], ledger[r].refused, l, j)
    <3> DEFINE was == Asked(req[r], ledger[r].refused, l)
               now == Asked(q, refused, l)
    <3>1. /\ j \in DOMAIN now <=> j \in DOMAIN was
          /\ j \in DOMAIN was => now[j] = was[j]
      <4>1. CASE l # list
        BY <1>6, <4>1
      <4>2. CASE l = list
        BY <1>5, <2>1, <4>2
      <4> QED
        BY <4>1, <4>2
    <3> HIDE DEF was, now
    <3>2. CallerPhase(q, refused, l, j) = CallerPhase(req[r], ledger[r].refused, l, j)
      BY <1>0, <1>3, <3>1 DEF CallerPhase, was, now
    <3>3. CallerPhase(q, refused, l, j) # "idle" => j \in DOMAIN now
      BY DEF CallerPhase, now
    <3> QED
      BY <3>1, <3>2, <3>3 DEF CallerAim, was, now
  <2> QED
    BY <1>2, <2>1 DEF OnlyMoves
<1>11. /\ CallerPhase(req[r], ledger[r].refused, list, n) = "idle"
       /\ CallerPhase(q, refused, list, n) = IF ok THEN "admitted" ELSE "refused"
       /\ CallerAim(q, refused, list, n) = t
  <2>1. CallerPhase(req[r], ledger[r].refused, list, n) = "idle"
    BY <1>5 DEF CallerPhase
  <2>2. CallerPhase(q, refused, list, n) = IF ok THEN "admitted" ELSE "refused"
    BY <1>3, <1>5, <1>7, <1>9 DEF CallerPhase
  <2> QED
    BY <1>5, <2>1, <2>2 DEF CallerAim
<1>12. /\ Streaks(Names, targets') = Streaks(Names, targets)
       /\ QuietTimes(Names, targets') = QuietTimes(Names, targets)
       /\ ok <=> ~B!Refused(t)
  BY <1>1, <1>2, AskMaps DEF CircuitInv, B!Refused
<1>13. c = <<r, list, n>>
  BY DEF c
<1> HIDE DEF before, after, ok
<1>14. /\ c \in Callers /\ CallerPhases[c] = "idle"
       /\ CallerPhases' = [CallerPhases EXCEPT ![c] = IF ok THEN "admitted" ELSE "refused"]
       /\ CallerAims' = [CallerAims EXCEPT ![c] = t]
  <2>1. /\ c \in Callers
        /\ CallerPhases[c] = CallerPhase(req[r], ledger[r].refused, list, n)
        /\ CallerPhases' = [CallerPhases EXCEPT ![c] = CallerPhase(q, ledger'[r].refused, list, n)]
        /\ CallerAims' = [CallerAims EXCEPT ![c] = CallerAim(q, ledger'[r].refused, list, n)]
    BY <1>7, <1>10, <1>13, CallersMove
  <2> QED
    BY <1>2, <1>11, <2>1
<1>15. B!Ask(c)
  <2>1. (IF ok THEN "admitted" ELSE "refused") = (IF B!Refused(t) THEN "refused" ELSE "admitted")
    BY <1>12
  <2> QED
    BY <1>1, <1>12, <1>14, <2>1 DEF B!Ask, CallerPhases, CallerAims, Streaks, QuietTimes
<1>16. CallerPhases'[c] # CallerPhases[c]
  BY <1>14 DEF CallerPhases
<1> QED
  BY <1>1, <1>8, <1>14, <1>15, <1>16 DEF B!Next, CallerPhases

\* The permission that is used next is still the same permission.
LEMMA SendUnnoticed ==
  ASSUME StageInv, TurnInv, NEW r \in Requests, Send(r)
  PROVE  UNCHANGED B!vars /\ TurnInv'
<1> DEFINE q == [req[r] EXCEPT !.pc = "waiting", !.sent = @ + 1]
<1>1. /\ req[r] \in Handlers /\ req[r].pc = "ready" /\ req[r].sent \in Nat
      /\ req' = [req EXCEPT ![r] = q] /\ targets' = targets /\ NobodyRefused
      /\ Turned(req[r], ledger[r].refused)
  BY OtherEntries DEF Send, StageInv, Handlers, TurnInv
<1>2. q.pc = "waiting" /\ q.sent = req[r].sent + 1 /\ q.chain = req[r].chain
  BY <1>1 DEF Handlers
<1> HIDE DEF q
<1>3. Turned(q, ledger[r].refused)
  BY <1>1, <1>2 DEF Turned
<1>4. TurnInv'
  BY <1>1, <1>3, TurnsKept DEF NobodyRefused
<1>5. ASSUME NEW l \in {"chain", "refused"}, NEW j \in Turns
      PROVE  /\ CallerPhase(q, ledger[r].refused, l, j)
                  = CallerPhase(req[r], ledger[r].refused, l, j)
             /\ CallerAim(q, ledger[r].refused, l, j)
                  = CallerAim(req[r], ledger[r].refused, l, j)
  <2>1. Asked(q, ledger[r].refused, l) = Asked(req[r], ledger[r].refused, l)
    BY <1>1, <1>2 DEF Asked, Listed
  <2>2. l = "chain" /\ j \in DOMAIN Asked(req[r], ledger[r].refused, l) => j \in Nat
    BY <1>1 DEF Asked, Listed, Handlers
  <2>3. CallerPhase(q, ledger[r].refused, l, j) = CallerPhase(req[r], ledger[r].refused, l, j)
    BY <1>1, <1>2, <2>1, <2>2 DEF CallerPhase
  <2> QED
    BY <2>1, <2>3 DEF CallerAim
<1> QED
  BY <1>1, <1>4, <1>5, NoCallerMoves

Attempting(q) ==
  /\ q.pc \in {"waiting", "answered", "ready", "forwarded"}
  /\ q.chain \in Seq(Names) /\ q.sent \in 1..Len(q.chain)

\* Where the caller of the attempt under way is.
LEMMA AttemptPhase ==
  ASSUME NEW q, Attempting(q), NEW refused
  PROVE  /\ q.pc = "waiting" => CallerPhase(q, refused, "chain", q.sent) = "admitted"
         /\ q.pc = "answered" => CallerPhase(q, refused, "chain", q.sent) =
                                   IF q.last \in Failures THEN "failed" ELSE "succeeded"
         /\ q.pc \in {"ready", "forwarded"} => /\ CallerPhase(q, refused, "chain", q.sent) = "idle"
                                               /\ CallerAim(q, refused, "chain", q.sent) = "none"
         /\ q.pc \in {"waiting", "answered"} =>
              CallerAim(q, refused, "chain", q.sent) = q.chain[q.sent]
<1> USE DEF Attempting
<1>1. Asked(q, refused, "chain") = q.chain
  BY DEF Asked, Listed
<1>2. q.sent \in DOMAIN q.chain /\ q.sent \in Nat
  OBVIOUS
<1> QED
  BY <1>1, <1>2 DEF CallerPhase, CallerAim

\* An attempt of r that ends, or is reported, leaving its handler as q.
MovesAttempt(r, q, c) ==
  /\ req' = [req EXCEPT ![r] = q]
  /\ NobodyRefused
  /\ req[r].pc \in {"waiting", "answered"} /\ q.pc \in {"answered", "ready", "forwarded"}
  /\ q.chain = req[r].chain /\ q.sent = req[r].sent
  /\ c = <<r, "chain", req[r].sent>>

\* It moves its own caller and no other.
LEMMA AttemptMoves ==
  ASSUME StageInv, TurnInv, NEW r \in Requests, NEW q, NEW c, MovesAttempt(r, q, c)
  PROVE  /\ TurnInv' /\ c \in Callers
         /\ req[r].chain \in Seq(Names) /\ req[r].sent \in 1..Len(req[r].chain)
         /\ CallerPhases[c] = CallerPhase(req[r], ledger[r].refused, "chain", req[r].sent)
         /\ CallerAims[c] = CallerAim(req[r], ledger[r].refused, "chain", req[r].sent)
         /\ CallerPhases' =
              [CallerPhases EXCEPT ![c] = CallerPhase(q, ledger[r].refused, "chain", q.sent)]
         /\ CallerAims' =
              [CallerAims EXCEPT ![c] = CallerAim(q, ledger[r].refused, "chain", q.sent)]
<1> DEFINE i == req[r].sent
           refused == ledger[r].refused
<1>0. /\ req' = [req EXCEPT ![r] = q]
      /\ NobodyRefused
      /\ req[r].pc \in {"waiting", "answered"} /\ q.pc \in {"answered", "ready", "forwarded"}
      /\ q.chain = req[r].chain /\ q.sent = req[r].sent
      /\ c = <<r, "chain", i>>
  BY DEF MovesAttempt
<1>1. req[r].chain \in Seq(Names) /\ i \in 1..Len(req[r].chain) /\ i \in Nat
  BY <1>0 DEF StageInv, Stage, Handlers
<1>2. Turned(req[r], refused)
  BY DEF TurnInv
<1>3. i \in Turns
  BY <1>0, <1>1, <1>2 DEF Turned
<1>4. TurnInv'
  <2>1. Turned(q, ledger'[r].refused)
    BY <1>0, <1>2 DEF Turned, NobodyRefused
  <2> QED
    BY <1>0, <2>1, TurnsKept DEF NobodyRefused
<1>5. OnlyMoves(r, q, "chain", i)
  <2>1. ASSUME NEW l \in {"chain", "refused"}, NEW j \in Turns, l # "chain" \/ j # i
        PROVE  /\ CallerPhase(q, refused, l, j) = CallerPhase(req[r], refused, l, j)
               /\ CallerAim(q, refused, l, j) = CallerAim(req[r], refused, l, j)
    <3>1. Asked(q, refused, l) = Asked(req[r], refused, l)
      BY <1>0 DEF Asked, Listed
    <3>2. CASE l = "refused" \/ j \notin DOMAIN Asked(req[r], refused, l)
      BY <3>1, <3>2 DEF CallerPhase, CallerAim
    <3>3. CASE l = "chain" /\ j \in DOMAIN Asked(req[r], refused, l)
      <4>1. j \in Nat
        BY <1>0, <1>1, <3>3 DEF Asked, Listed
      <4>2. j > i \/ j < i
        BY <1>1, <2>1, <3>3, <4>1
      <4>3. CallerPhase(q, refused, l, j) = CallerPhase(req[r], refused, l, j)
        BY <1>0, <1>1, <3>1, <3>3, <4>1, <4>2 DEF CallerPhase
      <4> QED
        BY <3>1, <4>3 DEF CallerAim
    <3> QED
      BY <3>2, <3>3
  <2> QED
    BY <1>0, <2>1 DEF OnlyMoves, NobodyRefused
<1>6. c = <<r, "chain", i>> /\ "chain" \in {"chain", "refused"}
  BY <1>0
<1> HIDE DEF i, refused
<1>7. /\ c \in Callers
      /\ CallerPhases[c] = CallerPhase(req[r], ledger[r].refused, "chain", i)
      /\ CallerAims[c] = CallerAim(req[r], ledger[r].refused, "chain", i)
      /\ CallerPhases' = [CallerPhases EXCEPT ![c] = CallerPhase(q, ledger'[r].refused, "chain", i)]
      /\ CallerAims' = [CallerAims EXCEPT ![c] = CallerAim(q, ledger'[r].refused, "chain", i)]
  BY <1>3, <1>5, <1>6, CallersMove
<1>8. ledger'[r].refused = ledger[r].refused /\ i = q.sent /\ i = req[r].sent
  BY <1>0 DEF NobodyRefused, i
<1>9. CallerPhases' =
        [CallerPhases EXCEPT ![c] = CallerPhase(q, ledger[r].refused, "chain", q.sent)]
  BY <1>7, <1>8
<1>10. CallerAims' =
        [CallerAims EXCEPT ![c] = CallerAim(q, ledger[r].refused, "chain", q.sent)]
  BY <1>7, <1>8
<1> QED
  BY <1>1, <1>4, <1>7, <1>8, <1>9, <1>10

\* What the upstream says is the answer of that attempt's caller.
LEMMA UpstreamAnswersAnswers ==
  ASSUME StageInv, TurnInv, NEW r \in Requests, UpstreamAnswers(r)
  PROVE  B!Next /\ TurnInv'
<1> DEFINE c == <<r, "chain", req[r].sent>>
           t == req[r].chain[req[r].sent]
<1>1. PICK o : /\ req' = [req EXCEPT ![r] = [@ EXCEPT !.pc = "answered", !.last = o]]
               /\ ledger' = [ledger EXCEPT ![r].tried =
                               Append(@, [target |-> req[r].chain[req[r].sent], outcome |-> o])]
  BY DEF UpstreamAnswers
<1> DEFINE q == [req[r] EXCEPT !.pc = "answered", !.last = o]
<1>2. /\ req' = [req EXCEPT ![r] = q] /\ req[r] \in Handlers /\ req[r].pc = "waiting"
      /\ targets' = targets
  BY <1>1 DEF UpstreamAnswers, StageInv
<1>3. NobodyRefused
  BY <1>1, OtherEntries
<1>4. q.pc = "answered" /\ q.chain = req[r].chain /\ q.sent = req[r].sent /\ q.last = o
  BY <1>2 DEF Handlers
<1>5. c = <<r, "chain", req[r].sent>>
  OBVIOUS
<1> HIDE DEF q, c
<1>6. /\ TurnInv' /\ c \in Callers
      /\ req[r].chain \in Seq(Names) /\ req[r].sent \in 1..Len(req[r].chain)
      /\ CallerPhases[c] = CallerPhase(req[r], ledger[r].refused, "chain", req[r].sent)
      /\ CallerAims[c] = CallerAim(req[r], ledger[r].refused, "chain", req[r].sent)
      /\ CallerPhases' =
           [CallerPhases EXCEPT ![c] = CallerPhase(q, ledger[r].refused, "chain", q.sent)]
      /\ CallerAims' =
           [CallerAims EXCEPT ![c] = CallerAim(q, ledger[r].refused, "chain", q.sent)]
  <2>1. MovesAttempt(r, q, c)
    BY <1>2, <1>3, <1>4, <1>5 DEF MovesAttempt
  <2> QED
    BY <2>1, AttemptMoves
<1>7. CallerPhases[c] = "admitted" /\ CallerAims[c] = t
  BY <1>2, <1>6, AttemptPhase DEF Attempting
<1>8. /\ CallerPhase(q, ledger[r].refused, "chain", q.sent) \in {"succeeded", "failed"}
      /\ CallerAim(q, ledger[r].refused, "chain", q.sent) = t
  BY <1>4, <1>6, AttemptPhase DEF Attempting
<1>9. CallerAims' = CallerAims
  BY <1>6, <1>7, <1>8 DEF CallerAims
<1>10. /\ Streaks(Names, targets)' = Streaks(Names, targets)
       /\ QuietTimes(Names, targets)' = QuietTimes(Names, targets)
  BY <1>2 DEF Streaks, QuietTimes, FailuresOf
<1>11. B!Answer(c)
  BY <1>6, <1>7, <1>8, <1>9, <1>10 DEF B!Answer, CallerPhases, CallerAims
<1>12. CallerPhases'[c] # CallerPhases[c]
  BY <1>6, <1>7, <1>8 DEF CallerPhases
<1> QED
  BY <1>6, <1>11, <1>12 DEF B!Next, CallerPhases

\* The handler reports that answer, for the target it is of.
LEMMA AttemptReports ==
  ASSUME StageInv, CircuitInv, TurnInv, NEW r \in Requests,
         AttemptFailed(r) \/ AttemptSucceeded(r)
  PROVE  B!Next /\ TurnInv'
<1> DEFINE c == <<r, "chain", req[r].sent>>
           t == req[r].chain[req[r].sent]
           failed == req[r].last \in Failures
           q == [req[r] EXCEPT !.pc = IF failed THEN "ready" ELSE "forwarded"]
<1>1. /\ req' = [req EXCEPT ![r] = q] /\ req[r] \in Handlers /\ req[r].pc = "answered"
  BY DEF AttemptFailed, AttemptSucceeded, Goto, StageInv
<1>2. NobodyRefused
  <2>1. UNCHANGED ledger \/ \E n : ledger' = [ledger EXCEPT ![r].counted = n]
    BY DEF AttemptFailed, AttemptSucceeded
  <2> QED
    BY <2>1, OtherEntries
<1>3. t \in Names
  BY <1>1, NextTarget
<1>4. /\ q.pc \in {"ready", "forwarded"} /\ q.chain = req[r].chain /\ q.sent = req[r].sent
  BY <1>1 DEF Handlers
<1>5. c = <<r, "chain", req[r].sent>>
  OBVIOUS
<1>6. targets' = IF failed THEN AfterFailure(targets, t) ELSE AfterSuccess(targets, t)
  BY DEF AttemptFailed, AttemptSucceeded, AfterResult
<1> HIDE DEF q, c
<1>7. /\ TurnInv' /\ c \in Callers
      /\ req[r].chain \in Seq(Names) /\ req[r].sent \in 1..Len(req[r].chain)
      /\ CallerPhases[c] = CallerPhase(req[r], ledger[r].refused, "chain", req[r].sent)
      /\ CallerAims[c] = CallerAim(req[r], ledger[r].refused, "chain", req[r].sent)
      /\ CallerPhases' =
           [CallerPhases EXCEPT ![c] = CallerPhase(q, ledger[r].refused, "chain", q.sent)]
      /\ CallerAims' =
           [CallerAims EXCEPT ![c] = CallerAim(q, ledger[r].refused, "chain", q.sent)]
  <2>1. MovesAttempt(r, q, c)
    BY <1>1, <1>2, <1>4, <1>5 DEF MovesAttempt
  <2> QED
    BY <2>1, AttemptMoves
<1>8. /\ CallerPhases[c] = IF failed THEN "failed" ELSE "succeeded"
      /\ CallerAims[c] = t
  BY <1>1, <1>7, AttemptPhase DEF Attempting
<1>9. /\ CallerPhase(q, ledger[r].refused, "chain", q.sent) = "idle"
      /\ CallerAim(q, ledger[r].refused, "chain", q.sent) = "none"
  BY <1>4, <1>7, AttemptPhase DEF Attempting
<1> HIDE DEF t, failed
<1>10. CallerPhases' = [CallerPhases EXCEPT ![c] = "idle"]
       /\ CallerAims' = [CallerAims EXCEPT ![c] = "none"]
  BY <1>7, <1>9
<1>11. CallerPhases'[c] # CallerPhases[c]
  BY <1>7, <1>8, <1>10 DEF CallerPhases
<1>12. CASE failed
  <2>1. /\ Streaks(Names, targets') = [Streaks(Names, targets) EXCEPT ![t] = OneMore(@)]
        /\ QuietTimes(Names, targets') = [QuietTimes(Names, targets) EXCEPT ![t] = 0]
    BY <1>3, <1>6, <1>12, FailureMaps DEF CircuitInv
  <2>2. B!Finish(c) /\ CallerPhases[c] = "failed" /\ CallerAims[c] = t
    BY <1>8, <1>10, <1>12 DEF B!Finish, CallerPhases, CallerAims
  <2>3. Streaks(Names, targets') =
          [Streaks(Names, targets) EXCEPT ![t] = IF @ < FailureCap THEN @ + 1 ELSE @]
    BY <2>1 DEF OneMore
  <2>4. B!ReportFailure(c)
    BY <2>1, <2>2, <2>3 DEF B!ReportFailure, CallerPhases, CallerAims, Streaks, QuietTimes
  <2> QED
    BY <1>7, <1>11, <2>4 DEF B!Next, CallerPhases
<1>13. CASE ~failed
  <2>1. /\ Streaks(Names, targets') = [Streaks(Names, targets) EXCEPT ![t] = 0]
        /\ QuietTimes(Names, targets') = [QuietTimes(Names, targets) EXCEPT ![t] = 0]
    BY <1>3, <1>6, <1>13, SuccessMaps DEF CircuitInv
  <2>2. B!Finish(c) /\ CallerPhases[c] = "succeeded" /\ CallerAims[c] = t
    BY <1>8, <1>10, <1>13 DEF B!Finish, CallerPhases, CallerAims
  <2>3. B!ReportSuccess(c)
    BY <2>1, <2>2 DEF B!ReportSuccess, CallerPhases, CallerAims, Streaks, QuietTimes
  <2> QED
    BY <1>7, <1>11, <2>3 DEF B!Next, CallerPhases
<1> QED
  BY <1>12, <1>13

\* No administrator is a caller, and time passes for the contract as it does for the table.
LEMMA EnvironmentBreaker ==
  ASSUME StageInv, CircuitInv, TurnInv, UNCHANGED <<req, ledger>>,
         Tick \/ UNCHANGED targets
  PROVE  [B!Next]_(B!vars) /\ TurnInv'
<1>1. TurnInv'
  BY DEF TurnInv, Turned, Turns
<1>2. CallerPhases' = CallerPhases /\ CallerAims' = CallerAims
  BY DEF CallerPhases, CallerAims, CallerPhase, CallerAim, Asked, Listed, Callers, Turns
<1>3. CASE Tick
  <2>1. /\ Streaks(Names, targets') = Streaks(Names, targets)
        /\ QuietTimes(Names, targets') =
             [t \in Names |-> IF Streaks(Names, targets)[t] > 0
                                THEN OneTickLater(QuietTimes(Names, targets)[t])
                                ELSE QuietTimes(Names, targets)[t]]
    BY <1>3, TickMaps DEF Tick, CircuitInv
  <2>2. B!Tick
    BY <1>2, <2>1 DEF B!Tick, CallerPhases, CallerAims, Streaks, QuietTimes, OneTickLater
  <2> QED
    BY <1>1, <2>2 DEF B!Next
<1>4. CASE UNCHANGED targets
  <2>1. /\ Streaks(Names, targets)' = Streaks(Names, targets)
        /\ QuietTimes(Names, targets)' = QuietTimes(Names, targets)
    BY <1>4 DEF Streaks, QuietTimes, FailuresOf
  <2> QED
    BY <1>1, <1>2, <2>1 DEF B!vars, CallerPhases, CallerAims
<1> QED
  BY <1>3, <1>4

LEMMA BreakerInit == Init => B!Init /\ TurnInv
<1> SUFFICES ASSUME Init PROVE B!Init /\ TurnInv
  OBVIOUS
<1>1. ASSUME NEW r \in Requests
      PROVE  req[r].pc = "new" /\ req[r].chain = <<>> /\ ledger[r].refused = <<>>
  BY DEF Init, NoRequest, NoEffects
<1>2. TurnInv
  <2>1. 1..0 \subseteq Turns /\ Len(<<>>) = 0
    OBVIOUS
  <2> QED
    BY <1>1, <2>1 DEF TurnInv, Turned
<1>3. ASSUME NEW c \in Callers
      PROVE  /\ CallerPhase(req[c[1]], ledger[c[1]].refused, c[2], c[3]) = "idle"
             /\ CallerAim(req[c[1]], ledger[c[1]].refused, c[2], c[3]) = "none"
  <2>1. c[1] \in Requests
    BY DEF Callers
  <2>2. Asked(req[c[1]], ledger[c[1]].refused, c[2]) = <<>>
    BY <1>1, <2>1 DEF Asked
  <2> QED
    BY <2>2 DEF CallerPhase, CallerAim
<1>4. /\ Streaks(Names, targets) = [t \in Names |-> 0]
      /\ QuietTimes(Names, targets) = [t \in Names |-> 0]
  BY DEF Init, EmptyTable, Streaks, QuietTimes, FailuresOf
<1> QED
  BY <1>2, <1>3, <1>4 DEF B!Init

LEMMA BreakerNext ==
  StageInv /\ CircuitInv /\ TurnInv /\ [Next]_vars => [B!Next]_(B!vars) /\ TurnInv'
<1> SUFFICES ASSUME StageInv, CircuitInv, TurnInv, [Next]_vars
             PROVE  [B!Next]_(B!vars) /\ TurnInv'
  OBVIOUS
<1>1. ASSUME NEW r \in Requests,
             Serve(r) \/ UpstreamAnswers(r) \/ UpstreamLists(r) \/ ClientLeaves(r)
      PROVE  [B!Next]_(B!vars) /\ TurnInv'
  <2>1. CASE AskNext(r)
    BY <2>1, AskNextAsks
  <2>2. CASE Send(r)
    BY <2>2, SendUnnoticed
  <2>3. CASE AttemptFailed(r) \/ AttemptSucceeded(r)
    BY <2>3, AttemptReports
  <2>4. CASE UpstreamAnswers(r)
    BY <2>4, UpstreamAnswersAnswers
  <2> QED
    BY <1>1, <2>1, <2>2, <2>3, <2>4, HandlerUnnoticed
<1>2. ASSUME Environment, \A r \in Requests : ~ClientLeaves(r)
      PROVE  [B!Next]_(B!vars) /\ TurnInv'
  <2>1. UNCHANGED <<req, ledger>> /\ (Tick \/ UNCHANGED targets)
    BY <1>2 DEF Environment, SetAlias, DeleteAlias, SetGlobalDeny, UpdateKey, DeleteKey, Tick,
                WindowSlides, admin
  <2> QED
    BY <2>1, EnvironmentBreaker
<1>3. CASE UNCHANGED vars
  BY <1>3, EnvironmentBreaker DEF vars
<1> QED
  BY <1>1, <1>2, <1>3 DEF Next

(***************************************************************************)
(* Chat completions use the circuit breaker as its contract wants it used:  *)
(* each turn of the loop in Resolve (engine.go:101-109) asks it and is      *)
(* answered by the results reported so far, each attempt reports its own    *)
(* target once (dataplane.go:278, 292 and 301), and what neither the chain  *)
(* nor the attempt needed changes no circuit.                               *)
(***************************************************************************)
THEOREM BreakerIsImplemented == Spec => ImplementsBreaker
<1>1. Init => B!Init /\ TurnInv
  BY BreakerInit
<1>2. StageInv /\ CircuitInv /\ TurnInv /\ [Next]_vars => [B!Next]_(B!vars) /\ TurnInv'
  BY BreakerNext
<1> QED
  BY <1>1, <1>2, Staged, CircuitsHold, PTL DEF Spec, ImplementsBreaker, B!Spec
=============================================================================
