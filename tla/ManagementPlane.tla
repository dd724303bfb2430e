--------------------------- MODULE ManagementPlane ---------------------------
(***************************************************************************)
(* The management API's handlers on API keys, proxy profiles, routes and    *)
(* the global deny list (internal/api/management.go), any number of them at *)
(* once.  A handler finds the record, changes it and writes it back in      *)
(* separate critical sections of the store's lock, and logs a               *)
(* CONFIG_CHANGED event last.  Status 200 stands for any success.           *)
(*                                                                         *)
(* The two stores differ in what the handler gets hold of.  The key store's *)
(* List copies the records, and its Update refuses a key that is gone; the  *)
(* proxy store's Get hands out the stored record itself, which UpdateProxy  *)
(* changes field by field under no lock, and its Save inserts as well as    *)
(* replaces.  Go promises little about such a race; each field is written   *)
(* whole here.  A record is a function from fields to values, and a request *)
(* body a partial one.  Ids are random and never come up twice.             *)
(***************************************************************************)
EXTENDS AuditLog, FiniteSets, Functions

CONSTANTS
  Admins,      \* management requests, each handled once
  KeyIds, ProxyIds,
  Aliases,     \* route names, in lower case; not those the engine starts with
  FieldOrder,  \* the fields of a record, in the order the handlers assign them
  Values       \* what a field, a route or the deny list may hold

ASSUME ManagementAssumption ==
  /\ KeyIds \cap ProxyIds = {} /\ (KeyIds \cup ProxyIds) \cap Aliases = {}
  /\ "policies" \notin KeyIds \cup ProxyIds \cup Aliases
  /\ Len(FieldOrder) \in Nat /\ DOMAIN FieldOrder = 1..Len(FieldOrder)

VARIABLES
  keys,        \* MemoryKeyStore.keys, a partial function
  objects,     \* the proxy.Profile that was allocated for each id, a partial function
  profiles,    \* the ids in MemoryStore.profiles, each of which points to its object
  routes,      \* the aliases of the routing engine, a partial function
  deny,        \* the global deny list of the policy engine, "none" at first
  req,         \* the handler of each request
  log,         \* the audit log: requests that logged CONFIG_CHANGED
  logged,      \* history: all of them, in their order
  deleted,     \* history: the ids a DELETE was carried out for
  latest,      \* history: for each key, the value each field was last given
  changes      \* history: who changed what that is stored, as pairs of a request and an id

settings == <<routes, deny>>
stores == <<keys, objects, profiles, routes, deny>>
audit == <<log, logged>>
vars == <<stores, req, audit, deleted, latest, changes>>

Fields == Range(FieldOrder)
Records == [Fields -> Values]
Bodies == UNION {[F -> Values] : F \in SUBSET Fields}

\* The record rec with the fields of the request body replaced.
Changed(rec, body) == [f \in Fields |-> IF f \in DOMAIN body THEN body[f] ELSE rec[f]]

\* A partial function with one more value.
Put(fun, x, value) == [y \in DOMAIN fun \cup {x} |-> IF y = x THEN value ELSE fun[y]]

Handler(pc, status, id, body, copy) ==
  [pc |-> pc, status |-> status, id |-> id, body |-> body, copy |-> copy, next |-> 1]
NoHandler == Handler("new", 0, "none", <<>>, <<>>)

Init ==
  /\ keys = <<>> /\ objects = <<>> /\ profiles = {} /\ routes = <<>> /\ deny = "none"
  /\ req = [r \in Admins |-> NoHandler]
  /\ log = <<>> /\ logged = <<>>
  /\ deleted = {}
  /\ latest = <<>>
  /\ changes = {}

Begin(r, pc, id, body, copy) == req' = [req EXCEPT ![r] = Handler(pc, 0, id, body, copy)]
Goto(r, pc) == req' = [req EXCEPT ![r].pc = pc]
Answered(h, status) == [h EXCEPT !.pc = "done", !.status = status]
Respond(r, status) == req' = [req EXCEPT ![r] = Answered(req[r], status)]

-----------------------------------------------------------------------------

\* POST /api/v1/keys: Create, under a new id and hash.
CreateKey(r, k, rec) ==
  /\ req[r].pc = "new"
  /\ k \notin DOMAIN latest
  /\ keys' = Put(keys, k, rec)
  /\ latest' = Put(latest, k, rec)
  /\ Begin(r, "log", k, rec, <<>>)
  /\ UNCHANGED <<objects, profiles, settings, audit, deleted>>

\* PUT and DELETE /api/v1/keys/{id}: List copies every key, one of which is the handler's.
FindKey(r, pc, k, body) ==
  /\ req[r].pc = "new"
  /\ IF k \in DOMAIN keys THEN Begin(r, pc, k, body, keys[k]) ELSE Respond(r, 404)
  /\ UNCHANGED <<stores, audit, deleted, latest>>

\* Wrong on purpose: a key that is gone is stored again, as Save does with profiles.
WriteKeyAnyway(r) ==
  LET k == req[r].id
  IN  /\ req[r].pc = "update key"
      /\ keys' = Put(keys, k, Changed(req[r].copy, req[r].body))
      /\ latest' = [latest EXCEPT ![k] = Changed(@, req[r].body)]
      /\ Goto(r, "log")
      /\ UNCHANGED <<objects, profiles, settings, audit, deleted>>

\* Update: the changed copy replaces the stored key, unless that is gone.
WriteKey(r) ==
  LET k == req[r].id
  IN  /\ req[r].pc = "update key"
      /\ IF k \in DOMAIN keys
           THEN /\ keys' = [keys EXCEPT ![k] = Changed(req[r].copy, req[r].body)]
                /\ latest' = [latest EXCEPT ![k] = Changed(@, req[r].body)]
                /\ Goto(r, "log")
           ELSE /\ Respond(r, 500)
                /\ UNCHANGED <<keys, latest>>
      /\ UNCHANGED <<objects, profiles, settings, audit, deleted>>

\* Delete, unless another handler was faster.
RemoveKey(r) ==
  LET k == req[r].id
  IN  /\ req[r].pc = "delete key"
      /\ IF k \in DOMAIN keys
           THEN /\ keys' = [j \in DOMAIN keys \ {k} |-> keys[j]]
                /\ deleted' = deleted \cup {k}
                /\ Goto(r, "log")
           ELSE /\ Respond(r, 500)
                /\ UNCHANGED <<keys, deleted>>
      /\ UNCHANGED <<objects, profiles, settings, audit, latest>>

-----------------------------------------------------------------------------

\* POST /api/v1/proxies: Save, under a new id.
CreateProxy(r, p, rec) ==
  /\ req[r].pc = "new"
  /\ p \notin DOMAIN objects
  /\ objects' = Put(objects, p, rec)
  /\ profiles' = profiles \cup {p}
  /\ Begin(r, "log", p, rec, <<>>)
  /\ UNCHANGED <<keys, settings, audit, deleted, latest>>

\* PUT /api/v1/proxies/{id}: Get hands out the stored profile, and only then is the body
\* decoded.
FindProxy(r, p, body) ==
  /\ req[r].pc = "new"
  /\ IF p \in profiles THEN Begin(r, "change proxy", p, body, <<>>) ELSE Respond(r, 404)
  /\ UNCHANGED <<stores, audit, deleted, latest>>

RejectBody(r) ==
  /\ req[r].pc = "new"
  /\ Respond(r, 400)
  /\ UNCHANGED <<stores, audit, deleted, latest>>

\* The next field of the stored profile is overwritten, if the body has it.
ChangeField(r) ==
  LET p == req[r].id
      f == FieldOrder[req[r].next]
  IN  /\ req[r].pc = "change proxy" /\ req[r].next <= Len(FieldOrder)
      /\ objects' = IF f \in DOMAIN req[r].body
                      THEN [objects EXCEPT ![p][f] = req[r].body[f]]
                      ELSE objects
      /\ req' = [req EXCEPT ![r].next = @ + 1]
      /\ UNCHANGED <<keys, profiles, settings, audit, deleted, latest>>

\* Wrong on purpose: the handler answers as soon as the profile is saved.
SaveProxyUnaudited(r) ==
  /\ req[r].pc = "change proxy" /\ req[r].next > Len(FieldOrder)
  /\ profiles' = profiles \cup {req[r].id}
  /\ Respond(r, 200)
  /\ UNCHANGED <<keys, objects, settings, audit, deleted, latest>>

\* Save: stores the profile under its id, whether or not it is still there.
SaveProxy(r) ==
  /\ req[r].pc = "change proxy" /\ req[r].next > Len(FieldOrder)
  /\ profiles' = profiles \cup {req[r].id}
  /\ Goto(r, "log")
  /\ UNCHANGED <<keys, objects, settings, audit, deleted, latest>>

\* DELETE /api/v1/proxies/{id}
DeleteProxy(r, p) ==
  /\ req[r].pc = "new"
  /\ IF p \in profiles
       THEN /\ profiles' = profiles \ {p}
            /\ deleted' = deleted \cup {p}
            /\ Begin(r, "log", p, <<>>, <<>>)
       ELSE /\ Respond(r, 404)
            /\ UNCHANGED <<profiles, deleted>>
  /\ UNCHANGED <<keys, objects, settings, audit, latest>>

\* GET /api/v1/proxies/{id} changes nothing.  What its encoder reads, field by field and
\* under no lock, is left out.
GetProxy(r, p) ==
  /\ req[r].pc = "new"
  /\ Respond(r, IF p \in profiles THEN 200 ELSE 404)
  /\ UNCHANGED <<stores, audit, deleted, latest>>

-----------------------------------------------------------------------------

\* PUT /api/v1/policies: SetGlobalDeny.
UpdatePolicies(r, value) ==
  /\ req[r].pc = "new"
  /\ deny' = value
  /\ Begin(r, "log", "policies", <<>>, <<>>)
  /\ UNCHANGED <<keys, objects, profiles, routes, audit, deleted, latest>>

\* PUT /api/v1/routes/{alias}: SetAlias registers or replaces.
UpdateRoute(r, a, value) ==
  /\ req[r].pc = "new"
  /\ routes' = Put(routes, a, value)
  /\ Begin(r, "log", a, <<>>, <<>>)
  /\ UNCHANGED <<keys, objects, profiles, deny, audit, deleted, latest>>

\* DELETE /api/v1/routes/{alias}: DeleteAlias.
DeleteRoute(r, a) ==
  /\ req[r].pc = "new"
  /\ IF a \in DOMAIN routes
       THEN /\ routes' = [b \in DOMAIN routes \ {a} |-> routes[b]]
            /\ Begin(r, "log", a, <<>>, <<>>)
       ELSE Respond(r, 404) /\ UNCHANGED routes
  /\ UNCHANGED <<keys, objects, profiles, deny, audit, deleted, latest>>

\* logAudit, the last step of every handler that changed something.
LogChange(r) ==
  /\ req[r].pc = "log"
  /\ log' = Logged(log, r)
  /\ logged' = Append(logged, r)
  /\ Respond(r, 200)
  /\ UNCHANGED <<stores, deleted, latest>>

\* A step of a handler.
Handle(r) ==
  \/ \E k \in KeyIds :
       \/ \E rec \in Records : CreateKey(r, k, rec)
       \/ \E body \in Bodies : FindKey(r, "update key", k, body)
       \/ FindKey(r, "delete key", k, <<>>)
  \/ WriteKey(r) \/ RemoveKey(r)
  \/ \E p \in ProxyIds :
       \/ \E rec \in Records : CreateProxy(r, p, rec)
       \/ \E body \in Bodies : FindProxy(r, p, body)
       \/ DeleteProxy(r, p) \/ GetProxy(r, p)
  \/ \E value \in Values :
       \/ UpdatePolicies(r, value)
       \/ \E a \in Aliases : UpdateRoute(r, a, value)
  \/ \E a \in Aliases : DeleteRoute(r, a)
  \/ RejectBody(r) \/ ChangeField(r) \/ SaveProxy(r) \/ LogChange(r)

Items == KeyIds \cup ProxyIds \cup Aliases \cup {"policies"}

\* What is stored under x, if anything is; what a step alters of it, whatever the step is.
Stored(x) ==
  CASE x \in DOMAIN keys   -> <<keys[x]>>
    [] x \in profiles      -> <<objects[x]>>
    [] x \in DOMAIN routes -> <<routes[x]>>
    [] x = "policies"      -> <<deny>>
    [] OTHER               -> <<>>
Altered == {x \in Items : Stored(x)' # Stored(x)}

Next == \E r \in Admins : Handle(r) /\ changes' = changes \cup ({r} \X Altered)

Spec == Init /\ [][Next]_vars

-----------------------------------------------------------------------------

Phases == {"new", "update key", "delete key", "change proxy", "log", "done"}

Handlers == [pc : Phases, status : {0, 200, 400, 404, 500},
             id : Items \cup {"none"},
             body : Bodies, copy : Records \cup {<<>>}, next : 1..(Len(FieldOrder) + 1)]

TypeOK ==
  /\ DOMAIN keys \subseteq KeyIds /\ \A k \in DOMAIN keys : keys[k] \in Records
  /\ DOMAIN objects \subseteq ProxyIds /\ \A p \in DOMAIN objects : objects[p] \in Records
  /\ profiles \subseteq DOMAIN objects
  /\ req \in [Admins -> Handlers]
  /\ DOMAIN routes \subseteq Aliases /\ \A a \in DOMAIN routes : routes[a] \in Values
  /\ deny \in Values \cup {"none"}
  /\ log \in Seq(Admins) /\ Len(log) <= MaxEvents
  /\ logged \in Seq(Admins)
  /\ deleted \subseteq KeyIds \cup ProxyIds
  /\ DOMAIN latest \subseteq KeyIds /\ \A k \in DOMAIN latest : latest[k] \in Records
  /\ changes \subseteq Admins \X Items

(***************************************************************************)
(* No race of two handlers loses a record or brings a key back: the key     *)
(* store holds exactly the keys that were created and not deleted, also     *)
(* when a PUT found the key before a DELETE removed it (auth.go:143-145),   *)
(* and the proxy store at least the profiles that were created and not      *)
(* deleted.                                                                 *)
(***************************************************************************)
StoresAreAccountedFor ==
  /\ DOMAIN keys = DOMAIN latest \ deleted
  /\ DOMAIN objects \ deleted \subseteq profiles

(***************************************************************************)
(* Every change is audited, and nothing else is.  A handler that altered    *)
(* what is stored, in whichever of its steps and however others altered it  *)
(* meanwhile, altered the record it made, or the one, the route or the list *)
(* its request names, and nothing else; once it has answered, its event is  *)
(* there (logAudit, management.go:122-125, which each calls before that).   *)
(* No handler logs twice, and one that refused its request has logged       *)
(* nothing, and so has changed nothing, even if it found its record and     *)
(* lost it to another (management.go:433-437 and 465-468).                  *)
(***************************************************************************)
EveryChangeIsAudited ==
  /\ \A r \in Admins, x \in Items : <<r, x>> \in changes =>
       req[r].id = x /\ (req[r].pc = "done" => r \in Range(logged))
  /\ \A i, j \in DOMAIN logged : logged[i] = logged[j] => i = j
  /\ \A r \in Range(logged) : req[r].status \notin {400, 404, 500}

(***************************************************************************)
(* At its limit the audit log still has the newest events, all of them, in  *)
(* the order they were logged, whoever logged them (audit.go:81-85).        *)
(***************************************************************************)
TrailIsNewest == log = Newest(logged)

(***************************************************************************)
(* 04-TECH-STACK.md:359 says that every mutation endpoint must support an   *)
(* "optimistic concurrency/version check": a value that one request gave a  *)
(* key's field is not undone by another that does not mention the field.    *)
(***************************************************************************)
NoUpdateIsLost == \A k \in DOMAIN keys : keys[k] = latest[k]
=============================================================================
