----------------------- MODULE ManagementPlaneProofs -----------------------
(***************************************************************************)
(* Proofs about module ManagementPlane, for any number of administrators,   *)
(* records and fields, and any limit of the audit log.                      *)
(***************************************************************************)
EXTENDS ManagementPlane, TLAPS

\* Log keeps the newest events if it had the newest before.
LEMMA LoggedKeepsNewest ==
  ASSUME NEW S, NEW all \in Seq(S), NEW e \in S
  PROVE  Logged(Newest(all), e) = Newest(Append(all, e))
<1> USE AuditAssumption
<1> DEFINE n == Len(all)
           more == Append(all, e)
           old == Newest(all)
<1>0. /\ n \in Nat /\ more \in Seq(S) /\ Len(more) = n + 1
      /\ more[n + 1] = e
      /\ \A k \in 1..n : more[k] = all[k]
  OBVIOUS
<1>1. CASE n < MaxEvents
  <2>1. old = all
    BY <1>1 DEF Newest
  <2>2. Logged(all, e) = more
    BY <1>0, <1>1 DEF Logged
  <2>3. Newest(more) = SubSeq(more, 1, n + 1)
    <3> DEFINE kept == IF Len(more) < MaxEvents THEN Len(more) ELSE MaxEvents
    <3>1. Len(more) - kept + 1 = 1 /\ Len(more) = n + 1
      BY <1>0, <1>1
    <3>2. Newest(more) = SubSeq(more, Len(more) - kept + 1, Len(more))
      BY DEF Newest
    <3> QED
      BY <3>1, <3>2
  <2> QED
    BY <1>0, <2>1, <2>2, <2>3
<1>2. CASE n >= MaxEvents
  <2>1. old = SubSeq(all, n - MaxEvents + 1, n)
    <3>1. ~(n < MaxEvents)
      BY <1>0, <1>2
    <3> QED
      BY <3>1 DEF Newest
  <2>2. old \in Seq(S) /\ Len(old) = MaxEvents
        /\ \A k \in 1..MaxEvents : old[k] = all[n - MaxEvents + k]
    BY <1>0, <1>2, <2>1
  <2>3. Logged(old, e) = SubSeq(Append(old, e), 2, MaxEvents + 1)
    <3>1. Len(Append(old, e)) = MaxEvents + 1
      BY <2>2
    <3>2. MaxEvents + 1 > MaxEvents /\ (MaxEvents + 1) - MaxEvents + 1 = 2
      OBVIOUS
    <3> HIDE DEF old
    <3> QED
      BY <3>1, <3>2 DEF Logged
  <2>4. Newest(more) = SubSeq(more, n - MaxEvents + 2, n + 1)
    <3>1. ~(Len(more) < MaxEvents) /\ Len(more) - MaxEvents + 1 = n - MaxEvents + 2
      BY <1>0, <1>2
    <3> HIDE DEF more
    <3> QED
      BY <1>0, <3>1 DEF Newest
  <2> DEFINE left == SubSeq(Append(old, e), 2, MaxEvents + 1)
             right == SubSeq(more, n - MaxEvents + 2, n + 1)
  <2>5. left \in Seq(S) /\ Len(left) = MaxEvents
        /\ \A k \in 1..MaxEvents : left[k] = Append(old, e)[k + 1]
    BY <2>2
  <2>6. right \in Seq(S) /\ Len(right) = MaxEvents
        /\ \A k \in 1..MaxEvents : right[k] = more[n - MaxEvents + 1 + k]
    BY <1>0, <1>2
  <2>7. \A k \in 1..MaxEvents : left[k] = right[k]
    <3> SUFFICES ASSUME NEW k \in 1..MaxEvents PROVE left[k] = right[k]
      OBVIOUS
    <3>1. left[k] = Append(old, e)[k + 1] /\ right[k] = more[n - MaxEvents + 1 + k]
      BY <2>5, <2>6
    <3> HIDE DEF left, right, old, more
    <3>2. CASE k < MaxEvents
      <4>1. Append(old, e)[k + 1] = old[k + 1] /\ old[k + 1] = all[n - MaxEvents + (k + 1)]
        BY <2>2, <3>2
      <4>2. n - MaxEvents + (k + 1) \in 1..n /\ n - MaxEvents + (k + 1) = n - MaxEvents + 1 + k
        BY <1>0, <1>2, <3>2
      <4>3. more[n - MaxEvents + (k + 1)] = all[n - MaxEvents + (k + 1)]
        BY <1>0, <4>2
      <4>4. right[k] = more[n - MaxEvents + (k + 1)]
        BY <3>1, <4>2
      <4> QED
        BY <3>1, <4>1, <4>3, <4>4
    <3>3. CASE k = MaxEvents
      <4>1. Append(old, e)[k + 1] = e
        BY <2>2, <3>3
      <4>2. n - MaxEvents + 1 + k = n + 1
        BY <1>0, <3>3
      <4>3. right[k] = more[n + 1]
        BY <3>1, <4>2
      <4> QED
        BY <1>0, <3>1, <4>1, <4>3
    <3> QED
      BY <3>2, <3>3
  <2>8. left = right
    <3> HIDE DEF left, right
    <3> QED
      BY <2>5, <2>6, <2>7
  <2> QED
    BY <2>3, <2>4, <2>8
<1> QED
  BY <1>0, <1>1, <1>2

LEMMA RangeOfSeq == ASSUME NEW S, NEW s \in Seq(S) PROVE Range(s) \subseteq S
  BY DEF Range

LEMMA RangeOfAppend ==
  ASSUME NEW S, NEW s \in Seq(S), NEW e \in S
  PROVE  Range(Append(s, e)) = Range(s) \cup {e}
<1> DEFINE more == Append(s, e)
<1>1. Len(s) \in Nat /\ DOMAIN s = 1..Len(s) /\ DOMAIN more = 1..(Len(s) + 1)
  OBVIOUS
<1>2. more[Len(s) + 1] = e /\ \A k \in 1..Len(s) : more[k] = s[k]
  OBVIOUS
<1> HIDE DEF more
<1>3. Range(more) \subseteq Range(s) \cup {e}
  BY <1>1, <1>2 DEF Range
<1>4. Range(s) \subseteq Range(more) /\ e \in Range(more)
  BY <1>1, <1>2 DEF Range
<1> QED
  BY <1>3, <1>4 DEF more

-----------------------------------------------------------------------------

\* All but LogChange leave the audit log alone.
LEMMA OnlyLogChangeLogs ==
  ASSUME [Next]_vars, ~\E r \in Admins : LogChange(r) PROVE UNCHANGED <<log, logged>>
<1>1. ASSUME NEW r \in Admins, NEW k \in KeyIds,
             \/ \E rec \in Records : CreateKey(r, k, rec)
             \/ \E body \in Bodies : FindKey(r, "update key", k, body)
             \/ FindKey(r, "delete key", k, <<>>)
      PROVE  UNCHANGED <<log, logged>>
  BY <1>1 DEF CreateKey, FindKey, audit
<1>2. ASSUME NEW r \in Admins, NEW p \in ProxyIds,
             \/ \E rec \in Records : CreateProxy(r, p, rec)
             \/ \E body \in Bodies : FindProxy(r, p, body)
             \/ DeleteProxy(r, p) \/ GetProxy(r, p)
      PROVE  UNCHANGED <<log, logged>>
  BY <1>2 DEF CreateProxy, FindProxy, DeleteProxy, GetProxy, audit
<1>3. ASSUME NEW r \in Admins, NEW value \in Values,
             UpdatePolicies(r, value) \/ \E a \in Aliases : UpdateRoute(r, a, value)
      PROVE  UNCHANGED <<log, logged>>
  BY <1>3 DEF UpdatePolicies, UpdateRoute, audit
<1>4. ASSUME NEW r \in Admins,
             \/ WriteKey(r) \/ RemoveKey(r) \/ RejectBody(r) \/ ChangeField(r) \/ SaveProxy(r)
             \/ \E a \in Aliases : DeleteRoute(r, a)
      PROVE  UNCHANGED <<log, logged>>
  BY <1>4 DEF WriteKey, RemoveKey, RejectBody, ChangeField, SaveProxy, DeleteRoute, audit
<1> QED
  BY <1>1, <1>2, <1>3, <1>4 DEF Next, Handle, vars, audit

TrailInv == logged \in Seq(Admins) /\ log = Newest(logged)

\* The audit log is the newest part of all that was ever logged, in that order, for any
\* limit and any interleaving of the handlers.
THEOREM TrailStaysNewest == Spec => []TrailIsNewest
<1>1. Init => TrailInv
  BY AuditAssumption DEF Init, TrailInv, Newest
<1>2. TrailInv /\ [Next]_vars => TrailInv'
  <2> SUFFICES ASSUME TrailInv, [Next]_vars PROVE TrailInv'
    OBVIOUS
  <2>1. ASSUME NEW r \in Admins, LogChange(r) PROVE TrailInv'
    BY <2>1, LoggedKeepsNewest DEF LogChange, TrailInv
  <2>2. CASE ~\E r \in Admins : LogChange(r)
    BY <2>2, OnlyLogChangeLogs DEF TrailInv
  <2> QED
    BY <2>1, <2>2
<1>3. TrailInv => TrailIsNewest
  BY DEF TrailInv, TrailIsNewest
<1> QED
  BY <1>1, <1>2, <1>3, PTL DEF Spec
-----------------------------------------------------------------------------

\* The parts of the type invariant that are not about handlers.
StoreTypes ==
  /\ DOMAIN keys \subseteq KeyIds /\ \A k \in DOMAIN keys : keys[k] \in Records
  /\ DOMAIN objects \subseteq ProxyIds /\ \A p \in DOMAIN objects : objects[p] \in Records
  /\ profiles \subseteq DOMAIN objects
  /\ DOMAIN routes \subseteq Aliases /\ \A a \in DOMAIN routes : routes[a] \in Values
  /\ deny \in Values \cup {"none"}
  /\ deleted \subseteq KeyIds \cup ProxyIds
  /\ DOMAIN latest \subseteq KeyIds /\ \A k \in DOMAIN latest : latest[k] \in Records

AuditTypes == log \in Seq(Admins) /\ Len(log) <= MaxEvents /\ logged \in Seq(Admins)

Shaped == StoreTypes /\ AuditTypes /\ req \in [Admins -> Handlers]

TypeInv ==
  /\ Shaped
  /\ \A r \in Admins :
       /\ req[r].pc \in {"update key", "delete key"} =>
            req[r].id \in KeyIds /\ req[r].copy \in Records
       /\ req[r].pc = "change proxy" => req[r].id \in DOMAIN objects

LEMMA NoBody == <<>> \in Bodies
<1>1. <<>> \in [{} -> Values]
  OBVIOUS
<1> QED
  BY <1>1 DEF Bodies

LEMMA RecordsAreBodies == Records \subseteq Bodies
  BY DEF Records, Bodies

LEMMA ChangedIsRecord ==
  ASSUME NEW rec \in Records, NEW body \in Bodies PROVE Changed(rec, body) \in Records
<1>1. PICK F \in SUBSET Fields : body \in [F -> Values]
  BY DEF Bodies
<1> QED
  BY <1>1 DEF Records, Changed

\* A handler's step keeps the type invariant of the handlers.
LEMMA HandlerType ==
  ASSUME TypeInv, NEW r \in Admins, NEW h \in Handlers, req' = [req EXCEPT ![r] = h],
         DOMAIN objects \subseteq DOMAIN objects',
         h.pc \in {"update key", "delete key"} => h.id \in KeyIds /\ h.copy \in Records,
         h.pc = "change proxy" => h.id \in DOMAIN objects'
  PROVE  /\ req' \in [Admins -> Handlers]
         /\ \A s \in Admins :
              /\ req'[s].pc \in {"update key", "delete key"} =>
                   req'[s].id \in KeyIds /\ req'[s].copy \in Records
              /\ req'[s].pc = "change proxy" => req'[s].id \in DOMAIN objects'
  BY DEF TypeInv, Shaped, StoreTypes, AuditTypes

LEMMA NewHandlerType == NoHandler \in Handlers
  BY NoBody, ManagementAssumption DEF NoHandler, Handler, Handlers, Items, Phases

LEMMA TypeInit == Init => TypeInv
<1> SUFFICES ASSUME Init PROVE TypeInv
  OBVIOUS
<1>2. req \in [Admins -> Handlers] /\ \A r \in Admins : req[r].pc = "new"
  BY NewHandlerType DEF Init, NoHandler, Handler
<1>3. DOMAIN keys = {} /\ DOMAIN objects = {} /\ DOMAIN routes = {} /\ DOMAIN latest = {}
  BY DEF Init
<1>4. log \in Seq(Admins) /\ logged \in Seq(Admins) /\ Len(log) <= MaxEvents
  BY AuditAssumption DEF Init
<1> QED
  BY <1>2, <1>3, <1>4 DEF Init, TypeInv, Shaped, StoreTypes, AuditTypes

LEMMA HandlerRecord ==
  ASSUME NEW pc \in Phases, NEW status \in {0, 200},
         NEW id \in KeyIds \cup ProxyIds \cup Aliases \cup {"policies"},
         NEW body \in Bodies, NEW copy \in Records \cup {<<>>}
  PROVE  Handler(pc, status, id, body, copy) \in Handlers
  BY ManagementAssumption DEF Handler, Handlers, Items

LEMMA HandlerAnswers ==
  ASSUME NEW h \in Handlers, NEW status \in {200, 400, 404, 500}
  PROVE  Answered(h, status) \in Handlers /\ Answered(h, status).pc = "done"
<1> DEFINE S == {0, 200, 400, 404, 500}
           I == Items \cup {"none"}
           C == Records \cup {<<>>}
           N == 1..(Len(FieldOrder) + 1)
<1>1. "done" \in Phases /\ status \in S
  BY DEF Phases
<1>2. Handlers = [pc : Phases, status : S, id : I, body : Bodies, copy : C, next : N]
  BY DEF Handlers
<1>3. Answered(h, status).pc = "done"
  BY <1>2 DEF Answered
<1> HIDE DEF S, I, C, N
<1> QED
  BY <1>1, <1>2, <1>3 DEF Answered

LEMMA HandlerMoves ==
  ASSUME NEW h \in Handlers
  PROVE  /\ \A pc \in Phases : [h EXCEPT !.pc = pc] \in Handlers
         /\ h.next <= Len(FieldOrder) => [h EXCEPT !.next = h.next + 1] \in Handlers
<1>1. \A pc \in Phases : [h EXCEPT !.pc = pc] \in Handlers
  BY DEF Handlers
<1>2. ASSUME h.next <= Len(FieldOrder) PROVE [h EXCEPT !.next = h.next + 1] \in Handlers
  <2>1. h.next + 1 \in 1..(Len(FieldOrder) + 1)
    BY <1>2, ManagementAssumption DEF Handlers
  <2> QED
    BY <2>1 DEF Handlers
<1> QED
  BY <1>1, <1>2

LEMMA HandlerOf == ASSUME TypeInv, NEW r \in Admins PROVE req[r] \in Handlers
<1>1. req \in [Admins -> Handlers]
  BY DEF TypeInv, Shaped
<1> QED
  BY <1>1

\* A step of one handler keeps the type invariant if it keeps these.
LEMMA HandlerStep ==
  ASSUME TypeInv, NEW r \in Admins, NEW h \in Handlers, req' = [req EXCEPT ![r] = h],
         StoreTypes', AuditTypes', DOMAIN objects \subseteq DOMAIN objects',
         h.pc \in {"update key", "delete key"} => h.id \in KeyIds /\ h.copy \in Records,
         h.pc = "change proxy" => h.id \in DOMAIN objects'
  PROVE  TypeInv'
  BY HandlerType DEF TypeInv, Shaped

\* A handler that answers, or goes on to log its change.
LEMMA AnswerStep ==
  ASSUME TypeInv, NEW r \in Admins, NEW status \in {200, 400, 404, 500}, Respond(r, status),
         StoreTypes', AuditTypes', DOMAIN objects \subseteq DOMAIN objects'
  PROVE  TypeInv'
<1>1. req[r] \in Handlers
  BY HandlerOf
<1>2. Answered(req[r], status) \in Handlers /\ Answered(req[r], status).pc = "done"
  BY <1>1, HandlerAnswers
<1>3. req' = [req EXCEPT ![r] = Answered(req[r], status)]
  BY DEF Respond
<1> QED
  BY <1>2, <1>3, HandlerStep

LEMMA LogStep ==
  ASSUME TypeInv, NEW r \in Admins, Goto(r, "log"),
         StoreTypes', AuditTypes', DOMAIN objects \subseteq DOMAIN objects'
  PROVE  TypeInv'
<1> DEFINE h == [req[r] EXCEPT !.pc = "log"]
<1>1. req[r] \in Handlers
  BY DEF TypeInv, Shaped
<1>2. h \in Handlers
  BY <1>1, HandlerMoves DEF Phases
<1>3. h.pc = "log"
  BY <1>1 DEF Handlers
<1>4. req' = [req EXCEPT ![r] = h]
  BY DEF Goto
<1> HIDE DEF h
<1> QED
  BY <1>2, <1>3, <1>4, HandlerStep

\* A handler that does not find its record.
LEMMA NotFoundStep ==
  ASSUME TypeInv, NEW r \in Admins, Respond(r, 404), UNCHANGED objects, StoreTypes', AuditTypes'
  PROVE  TypeInv'
<1>1. DOMAIN objects \subseteq DOMAIN objects'
  OBVIOUS
<1> QED
  BY <1>1, AnswerStep

LEMMA FindKeyType ==
  ASSUME TypeInv, NEW r \in Admins, NEW k \in KeyIds, NEW pc \in {"update key", "delete key"},
         NEW body \in Bodies, FindKey(r, pc, k, body)
  PROVE  TypeInv'
<1>0. StoreTypes /\ AuditTypes /\ req \in [Admins -> Handlers]
  BY DEF TypeInv, Shaped
<1>1. UNCHANGED objects /\ StoreTypes' /\ AuditTypes'
  BY <1>0 DEF FindKey, StoreTypes, AuditTypes, stores, audit
<1>2. CASE k \in DOMAIN keys
  <2> DEFINE h == Handler(pc, 0, k, body, keys[k])
  <2>1. keys[k] \in Records
    BY <1>0, <1>2 DEF StoreTypes
  <2>0. pc \in Phases /\ 0 \in {0, 200}
    BY DEF Phases
  <2>2. h \in Handlers
    BY <2>0, <2>1, HandlerRecord
  <2>3. req' = [req EXCEPT ![r] = h] /\ h.pc = pc /\ h.id = k /\ h.copy = keys[k]
    BY <1>2 DEF FindKey, Begin, Handler
  <2> QED
    BY <1>1, <2>1, <2>2, <2>3, HandlerStep
<1>3. CASE k \notin DOMAIN keys
  <2>1. Respond(r, 404)
    BY <1>3 DEF FindKey
  <2> QED
    BY <1>1, <2>1, NotFoundStep
<1> QED
  BY <1>2, <1>3

LEMMA KeyStepType ==
  ASSUME TypeInv, NEW r \in Admins, NEW k \in KeyIds,
         \/ \E rec \in Records : CreateKey(r, k, rec)
         \/ \E body \in Bodies : FindKey(r, "update key", k, body)
         \/ FindKey(r, "delete key", k, <<>>)
  PROVE  TypeInv'
<1>0. StoreTypes /\ AuditTypes /\ req \in [Admins -> Handlers]
  BY DEF TypeInv, Shaped
<1>1. ASSUME NEW rec \in Records, CreateKey(r, k, rec) PROVE TypeInv'
  <2> DEFINE h == Handler("log", 0, k, rec, <<>>)
  <2>1. h \in Handlers
    BY HandlerRecord, RecordsAreBodies DEF Phases
  <2>2. req' = [req EXCEPT ![r] = h] /\ UNCHANGED objects /\ h.pc = "log"
    BY <1>1 DEF CreateKey, Begin, Handler
  <2>3. StoreTypes'
    BY <1>0, <1>1 DEF StoreTypes, CreateKey, Put, settings
  <2>4. AuditTypes'
    BY <1>0, <1>1 DEF AuditTypes, CreateKey, audit
  <2> QED
    BY <2>1, <2>2, <2>3, <2>4, HandlerStep
<1> QED
  BY <1>1, FindKeyType, NoBody

LEMMA WriteKeyType == ASSUME TypeInv, NEW r \in Admins, WriteKey(r) PROVE TypeInv'
<1> DEFINE k == req[r].id
           changed == Changed(req[r].copy, req[r].body)
<1>0. StoreTypes /\ AuditTypes /\ req[r] \in Handlers
  BY DEF TypeInv, Shaped
<1>1. req[r].copy \in Records /\ req[r].body \in Bodies /\ k \in KeyIds
  <2>1. req[r].copy \in Records /\ k \in KeyIds
    BY DEF WriteKey, TypeInv
  <2> QED
    BY <1>0, <2>1 DEF Handlers
<1>2. changed \in Records
  BY <1>1, ChangedIsRecord
<1>3. AuditTypes' /\ UNCHANGED <<objects, profiles, routes, deny, deleted>>
  BY <1>0 DEF WriteKey, AuditTypes, audit, settings
<1>4. CASE k \in DOMAIN keys
  <2>1. keys' = [keys EXCEPT ![k] = changed] /\ Goto(r, "log")
        /\ latest' = [latest EXCEPT ![k] = Changed(@, req[r].body)]
    BY <1>4 DEF WriteKey
  <2>2. \A j \in DOMAIN latest : Changed(latest[j], req[r].body) \in Records
    BY <1>0, <1>1, ChangedIsRecord DEF StoreTypes
  <2>3. StoreTypes'
    BY <1>0, <1>2, <1>3, <2>1, <2>2 DEF StoreTypes
  <2> QED
    BY <1>3, <2>1, <2>3, LogStep
<1>5. CASE k \notin DOMAIN keys
  <2>1. Respond(r, 500) /\ UNCHANGED <<keys, latest>>
    BY <1>5 DEF WriteKey
  <2>2. StoreTypes'
    BY <1>0, <1>3, <2>1 DEF StoreTypes
  <2> QED
    BY <1>3, <2>1, <2>2, AnswerStep
<1> QED
  BY <1>4, <1>5

LEMMA RemoveKeyType == ASSUME TypeInv, NEW r \in Admins, RemoveKey(r) PROVE TypeInv'
<1> DEFINE k == req[r].id
<1>0. StoreTypes /\ AuditTypes /\ k \in KeyIds
  BY DEF TypeInv, Shaped, RemoveKey
<1>3. AuditTypes' /\ UNCHANGED <<objects, profiles, routes, deny, latest>>
  BY <1>0 DEF RemoveKey, AuditTypes, audit, settings
<1>4. CASE k \in DOMAIN keys
  <2>1. /\ keys' = [j \in DOMAIN keys \ {k} |-> keys[j]] /\ Goto(r, "log")
        /\ deleted' = deleted \cup {k}
    BY <1>4 DEF RemoveKey
  <2>2. StoreTypes'
    BY <1>0, <1>3, <2>1 DEF StoreTypes
  <2> QED
    BY <1>3, <2>1, <2>2, LogStep
<1>5. CASE k \notin DOMAIN keys
  <2>1. Respond(r, 500) /\ UNCHANGED <<keys, deleted>>
    BY <1>5 DEF RemoveKey
  <2>2. StoreTypes'
    BY <1>0, <1>3, <2>1 DEF StoreTypes
  <2> QED
    BY <1>3, <2>1, <2>2, AnswerStep
<1> QED
  BY <1>4, <1>5

\* A handler that changes something at once and goes on to log it.
LEMMA BeginLogStep ==
  ASSUME TypeInv, NEW r \in Admins, NEW id \in ProxyIds \cup Aliases \cup {"policies"},
         NEW body \in Bodies, Begin(r, "log", id, body, <<>>),
         StoreTypes', AuditTypes', DOMAIN objects \subseteq DOMAIN objects'
  PROVE  TypeInv'
<1> DEFINE h == Handler("log", 0, id, body, <<>>)
<1>1. h \in Handlers
  <2>1. "log" \in Phases /\ 0 \in {0, 200} /\ <<>> \in Records \cup {<<>>}
    BY DEF Phases
  <2> QED
    BY <2>1, HandlerRecord
<1>2. h.pc = "log" /\ req' = [req EXCEPT ![r] = h]
  BY DEF Begin, Handler
<1> HIDE DEF h
<1> QED
  BY <1>1, <1>2, HandlerStep

LEMMA ProxyStepType ==
  ASSUME TypeInv, NEW r \in Admins, NEW p \in ProxyIds,
         \/ \E rec \in Records : CreateProxy(r, p, rec)
         \/ \E body \in Bodies : FindProxy(r, p, body)
         \/ DeleteProxy(r, p) \/ GetProxy(r, p)
  PROVE  TypeInv'
<1>0. StoreTypes /\ AuditTypes
  BY DEF TypeInv, Shaped
<1>1. ASSUME NEW rec \in Records, CreateProxy(r, p, rec) PROVE TypeInv'
  <2>1. Begin(r, "log", p, rec, <<>>) /\ rec \in Bodies
    BY <1>1, RecordsAreBodies DEF CreateProxy
  <2>2. StoreTypes' /\ DOMAIN objects \subseteq DOMAIN objects'
    BY <1>0, <1>1 DEF StoreTypes, CreateProxy, Put, settings
  <2>3. AuditTypes'
    BY <1>0, <1>1 DEF AuditTypes, CreateProxy, audit
  <2> QED
    BY <2>1, <2>2, <2>3, BeginLogStep
<1>2. ASSUME NEW body \in Bodies, FindProxy(r, p, body) PROVE TypeInv'
  <2>1. UNCHANGED objects /\ StoreTypes' /\ AuditTypes'
    BY <1>0, <1>2 DEF FindProxy, StoreTypes, AuditTypes, stores, audit
  <2>2. CASE p \in profiles
    <3> DEFINE h == Handler("change proxy", 0, p, body, <<>>)
    <3>1. h \in Handlers
      BY HandlerRecord DEF Phases
    <3>2. req' = [req EXCEPT ![r] = h] /\ h.pc = "change proxy" /\ h.id = p
      BY <1>2, <2>2 DEF FindProxy, Begin, Handler
    <3>3. p \in DOMAIN objects'
      BY <1>0, <2>1, <2>2 DEF StoreTypes
    <3> HIDE DEF h
    <3> QED
      BY <2>1, <3>1, <3>2, <3>3, HandlerStep
  <2>3. CASE p \notin profiles
    <3>1. Respond(r, 404)
      BY <1>2, <2>3 DEF FindProxy
    <3> QED
      BY <2>1, <3>1, AnswerStep
  <2> QED
    BY <2>2, <2>3
<1>3. ASSUME DeleteProxy(r, p) PROVE TypeInv'
  <2>1. UNCHANGED objects /\ AuditTypes'
    BY <1>0, <1>3 DEF DeleteProxy, AuditTypes, audit
  <2>2. StoreTypes'
    BY <1>0, <1>3 DEF DeleteProxy, StoreTypes, settings
  <2>3. Begin(r, "log", p, <<>>, <<>>) \/ Respond(r, 404)
    BY <1>3 DEF DeleteProxy
  <2> QED
    BY <2>1, <2>2, <2>3, NoBody, BeginLogStep, AnswerStep
<1>4. ASSUME GetProxy(r, p) PROVE TypeInv'
  <2>1. UNCHANGED objects /\ StoreTypes' /\ AuditTypes'
    BY <1>0, <1>4 DEF GetProxy, StoreTypes, AuditTypes, stores, audit
  <2>2. Respond(r, 200) \/ Respond(r, 404)
    BY <1>4 DEF GetProxy
  <2> QED
    BY <2>1, <2>2, AnswerStep
<1> QED
  BY <1>1, <1>2, <1>3, <1>4

LEMMA FieldStepType ==
  ASSUME TypeInv, NEW r \in Admins, ChangeField(r) \/ SaveProxy(r) PROVE TypeInv'
<1> DEFINE p == req[r].id
           f == FieldOrder[req[r].next]
<1>0. StoreTypes /\ AuditTypes /\ req[r] \in Handlers
  BY DEF TypeInv, Shaped
<1>1. p \in DOMAIN objects /\ p \in ProxyIds
  BY <1>0 DEF ChangeField, SaveProxy, TypeInv, StoreTypes
<1>2. CASE ChangeField(r)
  <2> DEFINE h == [req[r] EXCEPT !.next = req[r].next + 1]
  <2>1. h \in Handlers
    BY <1>0, <1>2, HandlerMoves DEF ChangeField
  <2>2. req' = [req EXCEPT ![r] = h] /\ h.pc = "change proxy" /\ h.id = p
    BY <1>0, <1>2 DEF ChangeField, Handlers
  <2>3. f \in DOMAIN req[r].body => f \in Fields /\ req[r].body[f] \in Values
    <3>0. req[r].body \in Bodies
      BY <1>0 DEF Handlers
    <3>1. PICK F \in SUBSET Fields : req[r].body \in [F -> Values]
      BY <3>0 DEF Bodies
    <3> QED
      BY <3>1
  <2>4. \A q \in DOMAIN objects' : objects'[q] \in Records
    BY <1>0, <1>1, <1>2, <2>3 DEF ChangeField, StoreTypes, Records
  <2>5. DOMAIN objects' = DOMAIN objects
    BY <1>2 DEF ChangeField
  <2>6. StoreTypes'
    BY <1>0, <1>2, <2>4, <2>5 DEF ChangeField, StoreTypes, settings
  <2>7. AuditTypes'
    BY <1>0, <1>2 DEF ChangeField, AuditTypes, audit
  <2> HIDE DEF h
  <2> QED
    BY <1>1, <2>1, <2>2, <2>5, <2>6, <2>7, HandlerStep
<1>3. CASE SaveProxy(r)
  <2>1. Goto(r, "log") /\ UNCHANGED objects /\ AuditTypes'
    BY <1>0, <1>3 DEF SaveProxy, AuditTypes, audit
  <2>2. StoreTypes'
    BY <1>0, <1>1, <1>3 DEF SaveProxy, StoreTypes, settings
  <2> QED
    BY <2>1, <2>2, LogStep
<1> QED
  BY <1>2, <1>3

LEMMA SettingsStepType ==
  ASSUME TypeInv, NEW r \in Admins,
         \/ \E value \in Values :
              UpdatePolicies(r, value) \/ \E a \in Aliases : UpdateRoute(r, a, value)
         \/ \E a \in Aliases : DeleteRoute(r, a)
         \/ RejectBody(r)
  PROVE  TypeInv'
<1>0. StoreTypes /\ AuditTypes
  BY DEF TypeInv, Shaped
<1>1. ASSUME NEW value \in Values, UpdatePolicies(r, value) PROVE TypeInv'
  <2>1. Begin(r, "log", "policies", <<>>, <<>>) /\ UNCHANGED objects
    BY <1>1 DEF UpdatePolicies
  <2>2. StoreTypes' /\ AuditTypes'
    BY <1>0, <1>1 DEF UpdatePolicies, StoreTypes, AuditTypes, audit
  <2> QED
    BY <2>1, <2>2, NoBody, BeginLogStep
<1>2. ASSUME NEW value \in Values, NEW a \in Aliases, UpdateRoute(r, a, value) PROVE TypeInv'
  <2>1. Begin(r, "log", a, <<>>, <<>>) /\ UNCHANGED objects
    BY <1>2 DEF UpdateRoute
  <2>2. StoreTypes' /\ AuditTypes'
    BY <1>0, <1>2 DEF UpdateRoute, Put, StoreTypes, AuditTypes, audit
  <2> QED
    BY <2>1, <2>2, NoBody, BeginLogStep
<1>3. ASSUME NEW a \in Aliases, DeleteRoute(r, a) PROVE TypeInv'
  <2>1. (Begin(r, "log", a, <<>>, <<>>) \/ Respond(r, 404)) /\ UNCHANGED objects
    BY <1>3 DEF DeleteRoute
  <2>2. StoreTypes' /\ AuditTypes'
    BY <1>0, <1>3 DEF DeleteRoute, StoreTypes, AuditTypes, audit
  <2> QED
    BY <2>1, <2>2, NoBody, BeginLogStep, AnswerStep
<1>4. ASSUME RejectBody(r) PROVE TypeInv'
  <2>1. Respond(r, 400) /\ UNCHANGED objects /\ StoreTypes' /\ AuditTypes'
    BY <1>0, <1>4 DEF RejectBody, StoreTypes, AuditTypes, stores, audit
  <2> QED
    BY <2>1, AnswerStep
<1> QED
  BY <1>1, <1>2, <1>3, <1>4

LEMMA LogChangeType == ASSUME TypeInv, NEW r \in Admins, LogChange(r) PROVE TypeInv'
<1>0. StoreTypes /\ AuditTypes
  BY DEF TypeInv, Shaped
<1>1. Respond(r, 200) /\ UNCHANGED objects /\ StoreTypes'
  BY <1>0 DEF LogChange, StoreTypes, stores
<1>2. Logged(log, r) \in Seq(Admins) /\ Len(Logged(log, r)) <= MaxEvents
  BY <1>0, AuditAssumption DEF Logged, AuditTypes
<1>3. AuditTypes'
  BY <1>0, <1>2 DEF LogChange, AuditTypes
<1> QED
  BY <1>1, <1>3, AnswerStep

LEMMA TypeNext == TypeInv /\ [Next]_vars => TypeInv'
<1> SUFFICES ASSUME TypeInv, [Next]_vars PROVE TypeInv'
  OBVIOUS
<1>1. CASE UNCHANGED vars
  BY <1>1 DEF vars, stores, audit, TypeInv, Shaped, StoreTypes, AuditTypes
<1>2. CASE Next
  BY <1>2, KeyStepType, WriteKeyType, RemoveKeyType, ProxyStepType, FieldStepType,
     SettingsStepType, LogChangeType DEF Next, Handle
<1> QED
  BY <1>1, <1>2

\* What the handlers hold between their steps, strong enough to be inductive.
THEOREM TypeInvariant == Spec => []TypeInv
  BY TypeInit, TypeNext, PTL DEF Spec

\* Type correctness of the management plane.
THEOREM TypeCorrect == Spec => []TypeOK
<1> DEFINE Typed == changes \subseteq Admins \X Items
<1>1. Init => Typed
  BY DEF Init
<1>2. Typed /\ [Next]_vars => Typed'
  BY DEF Next, Altered, vars
<1>3. TypeInv /\ Typed => TypeOK
  BY DEF TypeInv, Shaped, StoreTypes, AuditTypes, TypeOK
<1> QED
  BY <1>1, <1>2, <1>3, TypeInvariant, PTL DEF Spec

-----------------------------------------------------------------------------

\* An id is only ever deleted if a record was created under it.
StoreInv == deleted \subseteq DOMAIN latest \cup DOMAIN objects /\ StoresAreAccountedFor

LEMMA StoreNext == TypeInv /\ StoreInv /\ [Next]_vars => StoreInv'
<1> SUFFICES ASSUME TypeInv, StoreInv, [Next]_vars PROVE StoreInv'
  OBVIOUS
<1>0. /\ DOMAIN keys = DOMAIN latest \ deleted /\ DOMAIN objects \ deleted \subseteq profiles
      /\ deleted \subseteq DOMAIN latest \cup DOMAIN objects
      /\ DOMAIN latest \subseteq KeyIds /\ DOMAIN objects \subseteq ProxyIds
      /\ profiles \subseteq DOMAIN objects /\ KeyIds \cap ProxyIds = {}
  BY ManagementAssumption
     DEF StoreInv, StoresAreAccountedFor, TypeInv, Shaped, StoreTypes, AuditTypes
<1>1. ASSUME /\ DOMAIN keys' = DOMAIN keys /\ DOMAIN latest' = DOMAIN latest /\ deleted' = deleted
             /\ DOMAIN objects' = DOMAIN objects /\ profiles \subseteq profiles'
      PROVE  StoreInv'
  BY <1>0, <1>1 DEF StoreInv, StoresAreAccountedFor
<1>2. ASSUME NEW r \in Admins, NEW k \in KeyIds, NEW rec \in Records, CreateKey(r, k, rec)
      PROVE  StoreInv'
  <2>1. /\ k \notin DOMAIN latest /\ UNCHANGED <<objects, profiles, deleted>>
        /\ DOMAIN keys' = DOMAIN keys \cup {k} /\ DOMAIN latest' = DOMAIN latest \cup {k}
    BY <1>2 DEF CreateKey, Put
  <2>2. k \notin deleted
    BY <1>0, <2>1
  <2> QED
    BY <1>0, <2>1, <2>2 DEF StoreInv, StoresAreAccountedFor
<1>3. ASSUME NEW r \in Admins, RemoveKey(r) PROVE StoreInv'
  <2> DEFINE k == req[r].id
  <2>1. CASE k \in DOMAIN keys
    <3>1. /\ DOMAIN keys' = DOMAIN keys \ {k} /\ deleted' = deleted \cup {k}
          /\ UNCHANGED <<objects, profiles, latest>>
      BY <1>3, <2>1 DEF RemoveKey
    <3> HIDE DEF k
    <3> QED
      BY <1>0, <2>1, <3>1 DEF StoreInv, StoresAreAccountedFor
  <2>2. CASE k \notin DOMAIN keys
    BY <1>1, <1>3, <2>2 DEF RemoveKey
  <2> QED
    BY <2>1, <2>2
<1>4. ASSUME NEW r \in Admins, NEW p \in ProxyIds, NEW rec \in Records, CreateProxy(r, p, rec)
      PROVE  StoreInv'
  <2>1. /\ DOMAIN objects' = DOMAIN objects \cup {p} /\ profiles' = profiles \cup {p}
        /\ UNCHANGED <<keys, latest, deleted>>
    BY <1>4 DEF CreateProxy, Put
  <2> QED
    BY <1>0, <2>1 DEF StoreInv, StoresAreAccountedFor
<1>5. ASSUME NEW r \in Admins, NEW p \in ProxyIds, DeleteProxy(r, p) PROVE StoreInv'
  <2>1. CASE p \in profiles
    <3>1. /\ profiles' = profiles \ {p} /\ deleted' = deleted \cup {p}
          /\ UNCHANGED <<keys, objects, latest>>
      BY <1>5, <2>1 DEF DeleteProxy
    <3> QED
      BY <1>0, <2>1, <3>1 DEF StoreInv, StoresAreAccountedFor
  <2>2. CASE p \notin profiles
    BY <1>1, <1>5, <2>2 DEF DeleteProxy
  <2> QED
    BY <2>1, <2>2
<1>6. ASSUME NEW r \in Admins, WriteKey(r) \/ ChangeField(r) \/ SaveProxy(r) PROVE StoreInv'
  <2>1. CASE WriteKey(r)
    BY <1>1, <2>1 DEF WriteKey
  <2>2. CASE ChangeField(r)
    BY <1>1, <2>2 DEF ChangeField
  <2>3. CASE SaveProxy(r)
    BY <1>1, <2>3 DEF SaveProxy
  <2> QED
    BY <1>6, <2>1, <2>2, <2>3
<1>7. ASSUME UNCHANGED <<keys, objects, profiles, deleted, latest>> PROVE StoreInv'
  BY <1>1, <1>7
<1>8. ASSUME NEW r \in Admins, NEW k \in KeyIds,
             \/ \E body \in Bodies : FindKey(r, "update key", k, body)
             \/ FindKey(r, "delete key", k, <<>>)
      PROVE  StoreInv'
  BY <1>7, <1>8 DEF FindKey, stores
<1>9. ASSUME NEW r \in Admins, NEW p \in ProxyIds,
             (\E body \in Bodies : FindProxy(r, p, body)) \/ GetProxy(r, p)
      PROVE  StoreInv'
  BY <1>7, <1>9 DEF FindProxy, GetProxy, stores
<1>10. ASSUME NEW r \in Admins,
              \/ \E value \in Values :
                   UpdatePolicies(r, value) \/ \E a \in Aliases : UpdateRoute(r, a, value)
              \/ \E a \in Aliases : DeleteRoute(r, a)
              \/ RejectBody(r) \/ LogChange(r)
       PROVE  StoreInv'
  BY <1>7, <1>10 DEF UpdatePolicies, UpdateRoute, DeleteRoute, RejectBody, LogChange, stores
<1>11. CASE UNCHANGED vars
  BY <1>7, <1>11 DEF vars, stores
<1> QED
  BY <1>2, <1>3, <1>4, <1>5, <1>6, <1>8, <1>9, <1>10, <1>11 DEF Next, Handle

\* No race of any number of handlers loses a record or brings a key back.
THEOREM StoresStayAccountedFor == Spec => []StoresAreAccountedFor
<1>1. Init => StoreInv
  BY DEF Init, StoreInv, StoresAreAccountedFor
<1>2. StoreInv => StoresAreAccountedFor
  BY DEF StoreInv
<1> QED
  BY <1>1, <1>2, StoreNext, TypeInvariant, PTL DEF Spec

-----------------------------------------------------------------------------

LoggedAreDone == \A r \in Range(logged) : req[r].pc = "done" /\ req[r].status = 200

LoggedOnce == \A i, j \in DOMAIN logged : logged[i] = logged[j] => i = j

Owns(r, x) == req[r].id = x /\ (req[r].pc \in {"change proxy", "log"} \/ r \in Range(logged))

ChangesAreLogged == \A r \in Admins, x \in Items : <<r, x>> \in changes => Owns(r, x)

\* A handler that has altered something is not done before it has logged, and altered only
\* what its request names; one that has logged has answered 200.
AuditInv ==
  /\ LoggedAreDone
  /\ LoggedOnce
  /\ ChangesAreLogged

Recorded(r) == changes' = changes \cup ({r} \X Altered)

\* What is stored under y stays as it is.
Kept(y) ==
  /\ y \in DOMAIN keys' <=> y \in DOMAIN keys
  /\ y \in DOMAIN keys => keys'[y] = keys[y]
  /\ y \in profiles' <=> y \in profiles
  /\ y \in profiles => objects'[y] = objects[y]
  /\ y \in DOMAIN routes' <=> y \in DOMAIN routes
  /\ y \in DOMAIN routes => routes'[y] = routes[y]
  /\ y = "policies" => deny' = deny

LEMMA KeptIsStored == ASSUME NEW y, Kept(y) PROVE Stored(y)' = Stored(y)
<1>1. CASE y \in DOMAIN keys
  BY <1>1 DEF Kept, Stored
<1>2. CASE y \notin DOMAIN keys /\ y \in profiles
  BY <1>2 DEF Kept, Stored
<1>3. CASE y \notin DOMAIN keys /\ y \notin profiles /\ y \in DOMAIN routes
  BY <1>3 DEF Kept, Stored
<1>4. CASE y \notin DOMAIN keys /\ y \notin profiles /\ y \notin DOMAIN routes
  BY <1>4 DEF Kept, Stored
<1> QED
  BY <1>1, <1>2, <1>3, <1>4

\* A step that keeps everything, and one that keeps everything but x.
LEMMA NothingAltered == ASSUME \A y \in Items : Kept(y) PROVE Altered = {}
  BY KeptIsStored DEF Altered

LEMMA OneAltered == ASSUME NEW x, \A y \in Items \ {x} : Kept(y) PROVE Altered \subseteq {x}
  BY KeptIsStored DEF Altered

LEMMA StoresKept == ASSUME UNCHANGED stores PROVE Altered = {}
<1>1. \A y \in Items : Kept(y)
  BY DEF stores, settings, Kept
<1> QED
  BY <1>1, NothingAltered

\* A step of one handler that has not logged yet; h is what it becomes.
LEMMA UnloggedStep ==
  ASSUME TypeInv, AuditInv, NEW r \in Admins, Recorded(r), NEW h, req' = [req EXCEPT ![r] = h],
         req[r].pc \notin {"log", "done"}, logged' = logged,
         Altered = {} \/ (Altered \subseteq {h.id} /\ h.pc \in {"change proxy", "log"}),
         req[r].pc = "change proxy" => h.id = req[r].id /\ h.pc \in {"change proxy", "log"}
  PROVE  AuditInv'
<1>1. r \notin Range(logged) /\ req'[r] = h /\ \A s \in Admins \ {r} : req'[s] = req[s]
  <2>1. r \notin Range(logged)
    BY DEF AuditInv, LoggedAreDone
  <2>2. req \in [Admins -> Handlers]
    BY DEF TypeInv, Shaped
  <2> QED
    BY <2>1, <2>2
<1>2. Range(logged) \subseteq Admins
  <2>1. logged \in Seq(Admins)
    BY DEF TypeInv, Shaped, AuditTypes
  <2> QED
    BY <2>1, RangeOfSeq
<1>3. ASSUME NEW s \in Range(logged) PROVE req'[s].pc = "done" /\ req'[s].status = 200
  <2>1. s \in Admins \ {r}
    BY <1>1, <1>2
  <2>2. req[s].pc = "done" /\ req[s].status = 200
    BY DEF AuditInv, LoggedAreDone
  <2> QED
    BY <1>1, <2>1, <2>2
<1>4. ASSUME NEW s \in Admins, NEW x \in Items, <<s, x>> \in changes'
      PROVE  req'[s].id = x /\ (req'[s].pc \in {"change proxy", "log"} \/ s \in Range(logged))
  <2>1. CASE <<s, x>> \in changes
    <3>1. req[s].id = x /\ (req[s].pc \in {"change proxy", "log"} \/ s \in Range(logged))
      BY <2>1 DEF AuditInv, ChangesAreLogged, Owns
    <3>2. CASE s = r
      BY <1>1, <3>1, <3>2
    <3>3. CASE s # r
      BY <1>1, <3>1, <3>3
    <3> QED
      BY <3>2, <3>3
  <2>2. CASE <<s, x>> \notin changes
    <3>1. s = r /\ x \in Altered
      BY <1>4, <2>2 DEF Recorded
    <3> QED
      BY <1>1, <3>1
  <2> QED
    BY <2>1, <2>2
<1>5. Range(logged)' = Range(logged)
  BY DEF Range
<1>6. LoggedAreDone'
  BY <1>3, <1>5 DEF LoggedAreDone
<1>7. LoggedOnce'
  BY DEF AuditInv, LoggedOnce
<1>8. ChangesAreLogged'
  BY <1>4, <1>5 DEF ChangesAreLogged, Owns
<1> QED
  BY <1>6, <1>7, <1>8 DEF AuditInv

\* The one that logs.
LEMMA LogChangeAudits ==
  ASSUME TypeInv, AuditInv, NEW r \in Admins, Recorded(r), LogChange(r) PROVE AuditInv'
<1>1. /\ req \in [Admins -> Handlers] /\ logged \in Seq(Admins) /\ req[r].pc = "log"
      /\ req' = [req EXCEPT ![r] = Answered(req[r], 200)]
      /\ logged' = Append(logged, r)
  BY DEF TypeInv, Shaped, AuditTypes, LogChange, Respond
<1>2. Altered = {}
  BY StoresKept DEF LogChange
<1>3. \A s \in Admins, x \in Items : <<s, x>> \in changes' => <<s, x>> \in changes
  BY <1>2 DEF Recorded
<1>4. Range(logged') = Range(logged) \cup {r}
  BY <1>1, RangeOfAppend
<1>5. /\ req'[r].pc = "done" /\ req'[r].status = 200 /\ req'[r].id = req[r].id
      /\ \A s \in Admins \ {r} : req'[s] = req[s]
  BY <1>1 DEF Answered, Handlers
<1>6. Range(logged) \subseteq Admins /\ r \notin Range(logged)
  BY <1>1, RangeOfSeq DEF AuditInv, LoggedAreDone
<1>7. \A s \in Range(logged') : req'[s].pc = "done" /\ req'[s].status = 200
  BY <1>4, <1>5, <1>6 DEF AuditInv, LoggedAreDone
<1>8. \A i, j \in DOMAIN logged' : logged'[i] = logged'[j] => i = j
  <2>1. /\ Len(logged) \in Nat /\ DOMAIN logged = 1..Len(logged)
        /\ DOMAIN logged' = 1..(Len(logged) + 1)
        /\ logged'[Len(logged) + 1] = r /\ \A i \in 1..Len(logged) : logged'[i] = logged[i]
    BY <1>1
  <2>2. \A i \in 1..Len(logged) : logged[i] # r
    BY <1>6, <2>1 DEF Range
  <2> QED
    BY <2>1, <2>2 DEF AuditInv, LoggedOnce
<1>9. ASSUME NEW s \in Admins, NEW x \in Items, <<s, x>> \in changes'
      PROVE  req'[s].id = x /\ (req'[s].pc \in {"change proxy", "log"} \/ s \in Range(logged'))
  <2>1. req[s].id = x /\ (req[s].pc \in {"change proxy", "log"} \/ s \in Range(logged))
    BY <1>3, <1>9 DEF AuditInv, ChangesAreLogged, Owns
  <2> QED
    BY <1>4, <1>5, <2>1
<1>10. Range(logged)' = Range(logged')
  BY DEF Range
<1>11. LoggedAreDone'
  BY <1>7, <1>10 DEF LoggedAreDone
<1>12. LoggedOnce'
  BY <1>8 DEF LoggedOnce
<1>13. ChangesAreLogged'
  BY <1>9, <1>10 DEF ChangesAreLogged, Owns
<1> QED
  BY <1>11, <1>12, <1>13 DEF AuditInv

\* Steps that alter nothing, of a handler that has altered nothing.
LEMMA QuietAudit ==
  ASSUME TypeInv, AuditInv, NEW r \in Admins, Recorded(r), NEW h, req' = [req EXCEPT ![r] = h],
         req[r].pc \in {"new", "update key", "delete key"}, logged' = logged, Altered = {}
  PROVE  AuditInv'
  BY UnloggedStep

\* Steps that alter x and go on to log it.
LEMMA ChangeAudit ==
  ASSUME TypeInv, AuditInv, NEW r \in Admins, Recorded(r), NEW x, NEW h,
         req' = [req EXCEPT ![r] = h], h.id = x, h.pc = "log",
         req[r].pc \notin {"log", "done"}, req[r].pc = "change proxy" => x = req[r].id,
         logged' = logged, \A y \in Items \ {x} : Kept(y)
  PROVE  AuditInv'
<1>1. Altered \subseteq {x}
  BY OneAltered
<1> QED
  BY <1>1, UnloggedStep

LEMMA KeysAudited ==
  ASSUME TypeInv, AuditInv, NEW r \in Admins, Recorded(r), NEW k \in KeyIds,
         \/ \E rec \in Records : CreateKey(r, k, rec)
         \/ \E body \in Bodies : FindKey(r, "update key", k, body)
         \/ FindKey(r, "delete key", k, <<>>)
  PROVE  AuditInv'
<1>1. ASSUME NEW rec \in Records, CreateKey(r, k, rec) PROVE AuditInv'
  <2> DEFINE h == Handler("log", 0, k, rec, <<>>)
  <2>1. /\ req' = [req EXCEPT ![r] = h] /\ h.pc = "log" /\ h.id = k
        /\ req[r].pc = "new" /\ logged' = logged
    BY <1>1 DEF CreateKey, Begin, Handler, audit
  <2>2. \A y \in Items \ {k} : Kept(y)
    BY <1>1 DEF CreateKey, Put, Kept, settings
  <2> HIDE DEF h
  <2> QED
    BY <2>1, <2>2, ChangeAudit
<1>2. ASSUME NEW pc, NEW body, FindKey(r, pc, k, body) PROVE AuditInv'
  <2>1. req[r].pc = "new" /\ logged' = logged /\ Altered = {}
    BY <1>2, StoresKept DEF FindKey, audit
  <2>2. PICK h : req' = [req EXCEPT ![r] = h]
    BY <1>2 DEF FindKey, Begin, Respond
  <2> QED
    BY <2>1, <2>2, QuietAudit
<1> QED
  BY <1>1, <1>2

LEMMA KeyWritesAudited ==
  ASSUME TypeInv, AuditInv, NEW r \in Admins, Recorded(r), WriteKey(r) \/ RemoveKey(r)
  PROVE  AuditInv'
<1> DEFINE k == req[r].id
           h == [req[r] EXCEPT !.pc = "log"]
<1>0. req[r] \in Handlers
  BY DEF TypeInv, Shaped
<1>1. h.pc = "log" /\ h.id = k
  BY <1>0 DEF Handlers
<1>2. req[r].pc \in {"update key", "delete key"} /\ logged' = logged
  BY DEF WriteKey, RemoveKey, audit
<1>3. CASE k \in DOMAIN keys
  <2>1. req' = [req EXCEPT ![r] = h]
    BY <1>3 DEF WriteKey, RemoveKey, Goto
  <2>2. \A y \in Items \ {k} : Kept(y)
    BY <1>3 DEF WriteKey, RemoveKey, Kept, settings
  <2> HIDE DEF h, k
  <2> QED
    BY <1>1, <1>2, <2>1, <2>2, ChangeAudit
<1>4. CASE k \notin DOMAIN keys
  <2>1. UNCHANGED stores
    BY <1>4 DEF WriteKey, RemoveKey, stores, settings
  <2>2. PICK g : req' = [req EXCEPT ![r] = g]
    BY <1>4 DEF WriteKey, RemoveKey, Respond
  <2> QED
    BY <1>2, <2>1, <2>2, StoresKept, QuietAudit
<1> QED
  BY <1>3, <1>4

LEMMA ProxiesAudited ==
  ASSUME TypeInv, AuditInv, NEW r \in Admins, Recorded(r), NEW p \in ProxyIds,
         \/ \E rec \in Records : CreateProxy(r, p, rec)
         \/ \E body \in Bodies : FindProxy(r, p, body)
         \/ DeleteProxy(r, p) \/ GetProxy(r, p)
  PROVE  AuditInv'
<1>1. ASSUME NEW rec \in Records, CreateProxy(r, p, rec) PROVE AuditInv'
  <2> DEFINE h == Handler("log", 0, p, rec, <<>>)
  <2>1. /\ req' = [req EXCEPT ![r] = h] /\ h.pc = "log" /\ h.id = p
        /\ req[r].pc = "new" /\ logged' = logged
    BY <1>1 DEF CreateProxy, Begin, Handler, audit
  <2>2. profiles \subseteq DOMAIN objects
    BY DEF TypeInv, Shaped, StoreTypes
  <2>3. \A y \in Items \ {p} : Kept(y)
    BY <1>1, <2>2 DEF CreateProxy, Put, Kept, settings
  <2> HIDE DEF h
  <2> QED
    BY <2>1, <2>3, ChangeAudit
<1>2. ASSUME DeleteProxy(r, p), p \in profiles PROVE AuditInv'
  <2> DEFINE h == Handler("log", 0, p, <<>>, <<>>)
  <2>1. /\ req' = [req EXCEPT ![r] = h] /\ h.pc = "log" /\ h.id = p
        /\ req[r].pc = "new" /\ logged' = logged
    BY <1>2 DEF DeleteProxy, Begin, Handler, audit
  <2>2. \A y \in Items \ {p} : Kept(y)
    BY <1>2 DEF DeleteProxy, Kept, settings
  <2> HIDE DEF h
  <2> QED
    BY <2>1, <2>2, ChangeAudit
<1>3. ASSUME \/ DeleteProxy(r, p) /\ p \notin profiles
             \/ \E body \in Bodies : FindProxy(r, p, body)
             \/ GetProxy(r, p)
      PROVE  AuditInv'
  <2>1. req[r].pc = "new" /\ logged' = logged /\ UNCHANGED stores
    BY <1>3 DEF DeleteProxy, FindProxy, GetProxy, stores, settings, audit
  <2>2. PICK g : req' = [req EXCEPT ![r] = g]
    BY <1>3 DEF DeleteProxy, FindProxy, GetProxy, Begin, Respond
  <2> QED
    BY <2>1, <2>2, StoresKept, QuietAudit
<1> QED
  BY <1>1, <1>2, <1>3

LEMMA FieldsAudited ==
  ASSUME TypeInv, AuditInv, NEW r \in Admins, Recorded(r), ChangeField(r) \/ SaveProxy(r)
  PROVE  AuditInv'
<1> DEFINE p == req[r].id
<1>1. PICK h : req' = [req EXCEPT ![r] = h] /\ h.id = p /\ h.pc \in {"change proxy", "log"}
  <2>0. req[r] \in Handlers
    BY DEF TypeInv, Shaped
  <2>1. CASE ChangeField(r)
    <3> DEFINE h == [req[r] EXCEPT !.next = @ + 1]
    <3>1. req' = [req EXCEPT ![r] = h] /\ h.id = p /\ h.pc = "change proxy"
      BY <2>0, <2>1 DEF ChangeField, Handlers
    <3> HIDE DEF h
    <3> QED
      BY <3>1
  <2>2. CASE SaveProxy(r)
    <3> DEFINE h == [req[r] EXCEPT !.pc = "log"]
    <3>1. req' = [req EXCEPT ![r] = h] /\ h.id = p /\ h.pc = "log"
      BY <2>0, <2>2 DEF SaveProxy, Goto, Handlers
    <3> HIDE DEF h
    <3> QED
      BY <3>1
  <2> QED
    BY <2>1, <2>2
<1>2. req[r].pc = "change proxy" /\ logged' = logged
  BY DEF ChangeField, SaveProxy, audit
<1>3. \A y \in Items \ {p} : Kept(y)
  <2>1. CASE ChangeField(r)
    <3> DEFINE f == FieldOrder[req[r].next]
    <3>1. profiles \subseteq DOMAIN objects
      BY DEF TypeInv, Shaped, StoreTypes
    <3>2. \/ objects' = objects
          \/ objects' = [objects EXCEPT ![p] = [objects[p] EXCEPT ![f] = req[r].body[f]]]
      BY <2>1 DEF ChangeField
    <3> HIDE DEF f, p
    <3>3. \A y \in profiles \ {p} : objects'[y] = objects[y]
      BY <3>1, <3>2
    <3>4. UNCHANGED <<keys, profiles, settings>>
      BY <2>1 DEF ChangeField
    <3> QED
      BY <3>3, <3>4 DEF Kept, settings
  <2>2. CASE SaveProxy(r)
    BY <2>2 DEF SaveProxy, Kept, settings
  <2> QED
    BY <2>1, <2>2
<1>4. Altered \subseteq {h.id}
  BY <1>1, <1>3, OneAltered
<1> HIDE DEF p
<1> QED
  BY <1>1, <1>2, <1>4, UnloggedStep DEF p

LEMMA SettingsAudited ==
  ASSUME TypeInv, AuditInv, NEW r \in Admins, Recorded(r),
         \/ \E value \in Values :
              UpdatePolicies(r, value) \/ \E a \in Aliases : UpdateRoute(r, a, value)
         \/ \E a \in Aliases : DeleteRoute(r, a)
         \/ RejectBody(r)
  PROVE  AuditInv'
<1>1. ASSUME NEW value \in Values, UpdatePolicies(r, value) PROVE AuditInv'
  <2> DEFINE h == Handler("log", 0, "policies", <<>>, <<>>)
  <2>1. /\ req' = [req EXCEPT ![r] = h] /\ h.pc = "log" /\ h.id = "policies"
        /\ req[r].pc = "new" /\ logged' = logged
    BY <1>1 DEF UpdatePolicies, Begin, Handler, audit
  <2>2. \A y \in Items \ {"policies"} : Kept(y)
    BY <1>1 DEF UpdatePolicies, Kept
  <2> HIDE DEF h
  <2> QED
    BY <2>1, <2>2, ChangeAudit
<1>2. ASSUME NEW a \in Aliases,
             \/ \E value \in Values : UpdateRoute(r, a, value)
             \/ DeleteRoute(r, a) /\ a \in DOMAIN routes
      PROVE  AuditInv'
  <2> DEFINE h == Handler("log", 0, a, <<>>, <<>>)
  <2>1. /\ req' = [req EXCEPT ![r] = h] /\ h.pc = "log" /\ h.id = a
        /\ req[r].pc = "new" /\ logged' = logged
    BY <1>2 DEF UpdateRoute, DeleteRoute, Begin, Handler, audit
  <2>2. \A y \in Items \ {a} : Kept(y)
    BY <1>2 DEF UpdateRoute, DeleteRoute, Put, Kept
  <2> HIDE DEF h
  <2> QED
    BY <2>1, <2>2, ChangeAudit
<1>3. ASSUME \/ \E a \in Aliases : DeleteRoute(r, a) /\ a \notin DOMAIN routes
             \/ RejectBody(r)
      PROVE  AuditInv'
  <2>1. req[r].pc = "new" /\ logged' = logged /\ UNCHANGED stores
    BY <1>3 DEF DeleteRoute, RejectBody, stores, settings, audit
  <2>2. PICK g : req' = [req EXCEPT ![r] = g]
    BY <1>3 DEF DeleteRoute, RejectBody, Respond
  <2> QED
    BY <2>1, <2>2, StoresKept, QuietAudit
<1> QED
  BY <1>1, <1>2, <1>3

LEMMA AuditNext == TypeInv /\ AuditInv /\ [Next]_vars => AuditInv'
<1> SUFFICES ASSUME TypeInv, AuditInv, [Next]_vars PROVE AuditInv'
  OBVIOUS
<1>1. CASE UNCHANGED vars
  <2>1. UNCHANGED <<req, logged, changes>>
    BY <1>1 DEF vars, audit
  <2>2. Range(logged)' = Range(logged)
    BY <2>1 DEF Range
  <2>3. LoggedAreDone'
    BY <2>1, <2>2 DEF AuditInv, LoggedAreDone
  <2>4. LoggedOnce'
    BY <2>1 DEF AuditInv, LoggedOnce
  <2>5. ChangesAreLogged'
    BY <2>1, <2>2 DEF AuditInv, ChangesAreLogged, Owns
  <2> QED
    BY <2>3, <2>4, <2>5 DEF AuditInv
<1>2. ASSUME NEW r \in Admins, Recorded(r), Handle(r) PROVE AuditInv'
  BY <1>2, KeysAudited, KeyWritesAudited, ProxiesAudited, FieldsAudited, SettingsAudited,
     LogChangeAudits DEF Handle
<1> QED
  BY <1>1, <1>2 DEF Next, Recorded

(***************************************************************************)
(* Whoever altered a key, a profile, a route or the deny list has logged it *)
(* once it has answered, and altered only what it is about; nobody logs     *)
(* twice, and a request that was refused has altered and logged nothing:    *)
(* for any number of handlers, records and fields, and in every             *)
(* interleaving of their steps.                                             *)
(***************************************************************************)
THEOREM ChangesAreAudited == Spec => []EveryChangeIsAudited
<1>1. Init => AuditInv
  BY DEF Init, AuditInv, LoggedAreDone, LoggedOnce, ChangesAreLogged, Range
<1>2. AuditInv => EveryChangeIsAudited
  <2> SUFFICES ASSUME AuditInv PROVE EveryChangeIsAudited
    OBVIOUS
  <2>1. \A r \in Admins, x \in Items : <<r, x>> \in changes =>
          req[r].id = x /\ (req[r].pc = "done" => r \in Range(logged))
    BY DEF AuditInv, ChangesAreLogged, Owns
  <2>2. \A r \in Range(logged) : req[r].status \notin {400, 404, 500}
    BY DEF AuditInv, LoggedAreDone
  <2> QED
    BY <2>1, <2>2 DEF AuditInv, LoggedOnce, EveryChangeIsAudited
<1> QED
  BY <1>1, <1>2, AuditNext, TypeInvariant, PTL DEF Spec
=============================================================================
