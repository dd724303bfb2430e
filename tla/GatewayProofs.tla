--------------------------- MODULE GatewayProofs ---------------------------
(***************************************************************************)
(* Proofs about module Gateway and the migrator in it, for any number of    *)
(* processes and migrations.  First the migrator alone: only version n+1,   *)
(* where n migrations have taken effect, can be inserted and not yet        *)
(* committed, and only one transaction at a time can hold it, because       *)
(* INSERT waits for the others.  Then whole processes, that serve, stop and *)
(* are killed: what was proved of the migrator holds of it inside them; no  *)
(* process passes a shortened answer off as a whole one; the parts of each  *)
(* process fit its phase; and a readiness answer is complete and in time.   *)
(***************************************************************************)
EXTENDS Gateway, TLAPS

Effective == Len(applied)

MigInv ==
  /\ MigTypeOK
  /\ Effective <= Last /\ \A k \in 1..Effective : applied[k] = k
  /\ versions = 1..Effective
  /\ \A v \in orphans : v = Effective + 1
  /\ \A i \in Instances :
       /\ mig[i].pc \in {"off", "create"} => mig[i].next = 1
       /\ mig[i].pc \in Running => mig[i].next <= Effective + 1
       /\ mig[i].pc \in {"execute", "insert", "commit"} => mig[i].next <= Last
       /\ mig[i].pc = "commit" => mig[i].next = Effective + 1 /\ orphans = {}
       /\ mig[i].pc = "ok" => Effective = Last
  /\ \A i, j \in Instances : mig[i].pc = "commit" /\ mig[j].pc = "commit" => i = j

\* A transaction that takes effect is that of the next version.
LEMMA EffectIsNext ==
  ASSUME MigInv, NEW v \in 1..Last, v = Effective + 1, TakesEffect(v)
  PROVE  /\ Len(applied') = Effective + 1 /\ applied' \in Seq(1..Last)
         /\ \A k \in 1..Len(applied') : applied'[k] = k
         /\ versions' = 1..Len(applied')
  BY MigratorAssumption DEF MigInv, MigTypeOK, TakesEffect, Effective

LEMMA MigInitInv == MigInit => MigInv
  BY MigratorAssumption DEF MigInit, MigInv, MigTypeOK, MigPhases, Off, Effective, Running

LEMMA MigNextInv == MigInv /\ [MigNext]_migVars => MigInv'
<1> SUFFICES ASSUME MigInv, [MigNext]_migVars PROVE MigInv'
  OBVIOUS
<1> USE MigratorAssumption
<1>0. Effective \in Nat
  BY DEF MigInv, MigTypeOK, Effective
<1>1. ASSUME NEW i \in Instances, CreateTable(i) PROVE MigInv'
  BY <1>1 DEF CreateTable, MigGoto, MigInv, MigTypeOK, MigPhases, Effective, Running
<1>2. ASSUME NEW i \in Instances, Query(i) PROVE MigInv'
  <2> DEFINE v == mig[i].next
  <2>1. v \in 1..(Last + 1) /\ v <= Effective + 1
    BY <1>2 DEF Query, MigInv, MigTypeOK, Running
  <2>2. CASE v > Last /\ MigGoto(i, "ok")
    <3>1. Effective = Last
      BY <2>1, <2>2, <1>0 DEF MigInv
    <3> QED
      BY <1>2, <2>2, <3>1 DEF Query, MigGoto, MigInv, MigTypeOK, MigPhases, Effective, Running
  <2>3. CASE v <= Last /\ v \in versions /\ mig' = [mig EXCEPT ![i].next = v + 1]
    <3>1. v <= Effective
      BY <2>3, <1>0 DEF MigInv
    <3>2. /\ mig' \in [Instances -> [pc : MigPhases, next : 1..(Last + 1)]]
          /\ mig'[i] = [pc |-> "query", next |-> v + 1]
          /\ \A j \in Instances \ {i} : mig'[j] = mig[j]
      BY <1>2, <2>1, <2>3 DEF Query, MigInv, MigTypeOK, MigPhases
    <3>3. UNCHANGED <<versions, orphans, applied, Effective>>
      BY <1>2 DEF Query, Effective
    <3> QED
      <4>1. MigTypeOK'
        BY <3>2, <3>3 DEF MigInv, MigTypeOK
      <4>2. \A j \in Instances :
              /\ mig'[j].pc \in {"off", "create"} => mig'[j].next = 1
              /\ mig'[j].pc \in Running => mig'[j].next <= Effective' + 1
              /\ mig'[j].pc \in {"execute", "insert", "commit"} => mig'[j].next <= Last
              /\ mig'[j].pc = "commit" => mig'[j].next = Effective' + 1 /\ orphans' = {}
              /\ mig'[j].pc = "ok" => Effective' = Last
        BY <1>0, <2>1, <3>1, <3>2, <3>3 DEF MigInv, Running
      <4>3. \A j, k \in Instances : mig'[j].pc = "commit" /\ mig'[k].pc = "commit" => j = k
        BY <3>2 DEF MigInv
      <4> QED
        BY <3>3, <4>1, <4>2, <4>3 DEF MigInv
  <2>4. CASE v <= Last /\ v \notin versions /\ MigGoto(i, "execute")
    BY <1>0, <1>2, <2>1, <2>4 DEF Query, MigGoto, MigInv, MigTypeOK, MigPhases, Effective, Running
  <2> QED
    BY <1>2, <2>2, <2>3, <2>4 DEF Query
<1>3. ASSUME NEW i \in Instances, Execute(i) PROVE MigInv'
  BY <1>3 DEF Execute, MigGoto, MigInv, MigTypeOK, MigPhases, Effective, Running
<1>4. ASSUME NEW i \in Instances, Insert(i) PROVE MigInv'
  BY <1>4 DEF Insert, Locked, Holds, MigGoto, MigInv, MigTypeOK, MigPhases, Effective, Running
<1>5. ASSUME NEW i \in Instances, Commit(i) PROVE MigInv'
  <2> DEFINE v == mig[i].next
  <2>1. v \in 1..Last /\ v = Effective + 1 /\ TakesEffect(v)
    BY <1>5 DEF Commit, MigInv, MigTypeOK
  <2>2. /\ Effective' = Effective + 1 /\ applied' \in Seq(1..Last)
        /\ \A k \in 1..Effective' : applied'[k] = k
        /\ versions' = 1..Effective'
    BY <2>1, EffectIsNext DEF Effective
  <2>3. /\ mig' \in [Instances -> [pc : MigPhases, next : 1..(Last + 1)]]
        /\ mig'[i].pc = "query" /\ mig'[i].next = Effective' + 1
        /\ \A j \in Instances \ {i} : mig'[j] = mig[j]
    BY <1>0, <1>5, <2>1, <2>2 DEF Commit, MigInv, MigTypeOK, MigPhases
  <2>4. orphans' = {} /\ \A j \in Instances \ {i} : mig[j].pc # "commit" /\ mig[j].pc # "ok"
    BY <1>0, <1>5, <2>1 DEF Commit, MigInv
  <2>5. MigTypeOK'
    BY <2>2, <2>3, <2>4 DEF MigTypeOK
  <2>6. Effective' <= Last
    BY <2>1, <2>2
  <2>7. ASSUME NEW j \in Instances
        PROVE  /\ mig'[j].pc \in {"off", "create"} => mig'[j].next = 1
               /\ mig'[j].pc \in Running => mig'[j].next <= Effective' + 1
               /\ mig'[j].pc \in {"execute", "insert", "commit"} => mig'[j].next <= Last
               /\ mig'[j].pc # "commit"
               /\ mig'[j].pc = "ok" => Effective' = Last
    <3>1. CASE j = i
      BY <1>0, <2>2, <2>3, <3>1
    <3>2. CASE j # i
      BY <1>0, <2>2, <2>3, <2>4, <3>2 DEF MigInv, MigTypeOK
    <3> QED
      BY <3>1, <3>2
  <2> QED
    BY <2>2, <2>4, <2>5, <2>6, <2>7 DEF MigInv
<1>6. ASSUME NEW i \in Instances, Fail(i) PROVE MigInv'
  BY <1>6 DEF Fail, Abandoned, MigGoto, MigInv, MigTypeOK, MigPhases, Effective, Running
<1>7. ASSUME NEW i \in Instances, MigStart(i) PROVE MigInv'
  BY <1>0, <1>7 DEF MigStart, MigGoto, MigInv, MigTypeOK, MigPhases, Effective, Running
<1>8. ASSUME NEW i \in Instances, MigStop(i) PROVE MigInv'
  <2>1. /\ Abandoned(i) \subseteq 1..Last
        /\ \A v \in Abandoned(i) : v = Effective + 1
    BY DEF Abandoned, MigInv, MigTypeOK
  <2>2. /\ mig' \in [Instances -> [pc : MigPhases, next : 1..(Last + 1)]]
        /\ mig'[i] = Off
        /\ \A j \in Instances \ {i} : mig'[j] = mig[j]
    BY <1>8 DEF MigStop, Off, MigInv, MigTypeOK, MigPhases
  <2>3. \A j \in Instances : mig'[j].pc = "commit" => orphans' = {}
    BY <1>8, <2>2 DEF MigStop, Abandoned, Off, MigInv
  <2>4. orphans' = orphans \cup Abandoned(i) /\ UNCHANGED <<versions, applied, Effective>>
    BY <1>8 DEF MigStop, Effective
  <2> QED
    <3>1. MigTypeOK' /\ \A v \in orphans' : v = Effective' + 1
      BY <2>1, <2>2, <2>4 DEF MigInv, MigTypeOK
    <3>2. \A j \in Instances :
            /\ mig'[j].pc \in {"off", "create"} => mig'[j].next = 1
            /\ mig'[j].pc \in Running => mig'[j].next <= Effective' + 1
            /\ mig'[j].pc \in {"execute", "insert", "commit"} => mig'[j].next <= Last
            /\ mig'[j].pc = "commit" => mig'[j].next = Effective' + 1 /\ orphans' = {}
            /\ mig'[j].pc = "ok" => Effective' = Last
      BY <2>2, <2>3, <2>4 DEF MigInv, Off, Running
    <3>3. \A j, k \in Instances : mig'[j].pc = "commit" /\ mig'[k].pc = "commit" => j = k
      BY <2>2 DEF MigInv, Off
    <3> QED
      BY <2>4, <3>1, <3>2, <3>3 DEF MigInv
<1>9. ASSUME OrphanEnds PROVE MigInv'
  <2> PICK v \in orphans : /\ orphans' = orphans \ {v}
                           /\ TakesEffect(v) \/ UNCHANGED <<versions, applied>>
                           /\ UNCHANGED mig
    BY <1>9 DEF OrphanEnds
  <2>1. v \in 1..Last /\ v = Effective + 1 /\ orphans' = {}
    BY DEF MigInv, MigTypeOK
  <2>2. \A i \in Instances : mig[i].pc # "commit"
    BY DEF MigInv
  <2>3. CASE TakesEffect(v)
    <3>1. /\ Effective' = Effective + 1 /\ applied' \in Seq(1..Last)
          /\ \A k \in 1..Effective' : applied'[k] = k
          /\ versions' = 1..Effective' /\ Effective' <= Last
      BY <2>1, <2>3, EffectIsNext DEF Effective
    <3>2. \A i \in Instances : mig[i].pc = "ok" => Effective = Last
      BY DEF MigInv
    <3>3. \A i \in Instances : mig'[i].pc # "ok"
      BY <2>1, <3>2
    <3> QED
      BY <1>0, <2>1, <2>2, <3>1, <3>3 DEF MigInv, MigTypeOK, MigPhases, Running
  <2>4. CASE UNCHANGED <<versions, applied>>
    BY <2>1, <2>2, <2>4 DEF MigInv, MigTypeOK, MigPhases, Effective, Running
  <2> QED
    BY <2>3, <2>4
<1>10. CASE UNCHANGED migVars
  BY <1>10 DEF migVars, MigInv, MigTypeOK, Effective
<1> QED
  BY <1>1, <1>2, <1>3, <1>4, <1>5, <1>6, <1>7, <1>8, <1>9, <1>10 DEF MigNext, MigStep

\* What is committed, locked and still to be done fits together at every step.
THEOREM MigInvariant == MigrationSpec => []MigInv
  BY MigInitInv, MigNextInv, PTL DEF MigrationSpec

\* Success is only reported of a database that has every migration (main.go:63), for any
\* number of gateways that start, fail and die at any moment.
THEOREM SuccessIsReal == MigrationSpec => []SuccessMeansMigrated
<1>1. MigInv => SuccessMeansMigrated
  BY DEF MigInv, SuccessMeansMigrated
<1> QED
  BY <1>1, MigInvariant, PTL

-----------------------------------------------------------------------------

LEMMA MigInitRefines == MigInit => Contract!Init
  BY DEF MigInit, Contract!Init

LEMMA MigNextRefines ==
  MigInv /\ [MigNext]_migVars => [Contract!ApplyNext]_applied
<1> SUFFICES ASSUME MigInv, [MigNext]_migVars, applied' # applied PROVE Contract!ApplyNext
  OBVIOUS
<1>1. PICK v \in 1..Last : TakesEffect(v) /\ v = Effective + 1
  <2>1. ASSUME NEW i \in Instances, MigStep(i) \/ MigStart(i) \/ MigStop(i)
        PROVE  \E v \in 1..Last : TakesEffect(v) /\ v = Effective + 1
    <3>1. Commit(i)
      BY <2>1 DEF MigStep, CreateTable, Query, Execute, Insert, Fail, MigStart, MigStop
    <3> QED
      BY <3>1 DEF Commit, MigInv, MigTypeOK
  <2>2. ASSUME OrphanEnds PROVE \E v \in 1..Last : TakesEffect(v) /\ v = Effective + 1
    BY <2>2 DEF OrphanEnds, MigInv, MigTypeOK
  <2> QED
    BY <2>1, <2>2 DEF MigNext, migVars
<1> QED
  BY <1>1, MigratorAssumption DEF TakesEffect, Effective, Contract!ApplyNext

\* The migrator implements Schema: no migration is applied twice, out of order or after
\* one that is missing.
THEOREM MigratorImplementsSchema == MigrationSpec => ImplementsSchema
<1>1. MigrationSpec => Contract!Init
  BY MigInitRefines DEF MigrationSpec
<1>2. MigrationSpec => [][Contract!ApplyNext]_applied
  BY MigInvariant, MigNextRefines, PTL DEF MigrationSpec
<1> QED
  BY <1>1, <1>2 DEF ImplementsSchema, Contract!Spec

-----------------------------------------------------------------------------

\* The database sees of a gateway's life only what Migrator allows.
LEMMA StepIsMigration == [Next]_gatewayVars => [MigNext]_migVars
<1> SUFFICES ASSUME [Next]_gatewayVars PROVE [MigNext]_migVars
  OBVIOUS
<1>1. ASSUME NEW i \in Instances,
             Start(i) \/ Migrate(i) \/ Serve(i) \/ BeginCall(i) \/ BeginProbe(i)
      PROVE  [MigNext]_migVars
  BY <1>1 DEF Start, Migrate, Serve, BeginCall, BeginProbe, MigNext
<1>2. ASSUME NEW i \in Instances,
             Signal(i) \/ StopGracefully(i) \/ StopForced(i) \/ ListenFails(i) \/ Kill(i)
      PROVE  [MigNext]_migVars
  BY <1>2 DEF Signal, StopGracefully, StopForced, ListenFails, Kill, Die, MigNext
<1>3. ASSUME Copying \/ Probe \/ Database \/ Outside PROVE [MigNext]_migVars
  BY <1>3 DEF Copying, Probe, Database, Outside, MigNext
<1>4. CASE UNCHANGED gatewayVars
  BY <1>4 DEF gatewayVars
<1> QED
  BY <1>1, <1>2, <1>3, <1>4 DEF Next

\* The gateway implements the migrator's specification, and with it its contract.
THEOREM GatewayImplementsMigration == Spec => MigrationSpec
<1>1. Init => MigInit
  BY DEF Init
<1> QED
  BY <1>1, StepIsMigration, PTL DEF Spec, MigrationSpec

\* "database migrations applied successfully" is never logged of an incomplete schema,
\* whatever else the gateways do and whenever they die.
THEOREM GatewayReportsRealSuccess == Spec => []SuccessMeansMigrated
  BY GatewayImplementsMigration, SuccessIsReal

\* Each migration is applied whole, once and in order by the gateways together.
THEOREM GatewayImplementsSchema == Spec => ImplementsSchema
  BY GatewayImplementsMigration, MigratorImplementsSchema

-----------------------------------------------------------------------------

\* What is true of one answer on its way: it ends where it was read to its end, and the
\* upstream ends it where it was sent whole.
Sound(a) ==
  /\ a.body = "eof" => a.sent = Chunks
  /\ a.end = "complete" => /\ a.got = a.sent
                           /\ a.sent = Chunks \/ (a.body = "broken" /\ ~a.sized)

CallFields == [pc : {"new", "relaying", "done"}, on : Instances \cup {0},
               stream : BOOLEAN, sized : BOOLEAN,
               body : {"open", "eof", "broken"}, sent : Nat, read : Nat, got : Nat,
               gone : BOOLEAN, end : {"none", "complete", "cut", "lost"}]

RelayInv ==
  /\ call \in [Calls -> CallFields]
  /\ \A c \in Calls :
       /\ Sound(call[c])
       /\ Relaying(c) => call[c].end = "none"
       /\ call[c].pc = "new" => call[c] = NoCall
       /\ call[c].got <= call[c].read /\ call[c].read <= call[c].sent /\ call[c].sent <= Chunks

LEMMA RelayInit == Init => RelayInv
  BY RelayAssumption DEF Init, NoCall, RelayInv, Sound, CallFields, Relaying

\* The fields that steps overwrite.
LEMMA CallEdit ==
  ASSUME NEW b \in CallFields
  PROVE  /\ \A n \in Nat : [b EXCEPT !.sent = n] \in CallFields
         /\ \A n, m \in Nat : [b EXCEPT !.read = n, !.got = m] \in CallFields
         /\ [b EXCEPT !.body = "eof"] \in CallFields
         /\ [b EXCEPT !.body = "broken"] \in CallFields
         /\ [b EXCEPT !.gone = TRUE] \in CallFields
         /\ \A i \in Instances, g, f \in BOOLEAN :
              [b EXCEPT !.pc = "relaying", !.on = i, !.stream = g, !.sized = f] \in CallFields
<1>1. \A n \in Nat : [b EXCEPT !.sent = n] \in CallFields
  BY DEF CallFields
<1>2. \A n, m \in Nat : [b EXCEPT !.read = n, !.got = m] \in CallFields
  BY DEF CallFields
<1>3. [b EXCEPT !.body = "eof"] \in CallFields /\ [b EXCEPT !.body = "broken"] \in CallFields
  BY DEF CallFields
<1>4. [b EXCEPT !.gone = TRUE] \in CallFields
  BY DEF CallFields
<1>5. \A i \in Instances, g, f \in BOOLEAN :
        [b EXCEPT !.pc = "relaying", !.on = i, !.stream = g, !.sized = f] \in CallFields
  BY DEF CallFields
<1> QED
  BY <1>1, <1>2, <1>3, <1>4, <1>5

\* A step on one answer keeps the invariant if that answer still satisfies it.
LEMMA OneCall ==
  ASSUME RelayInv, NEW c \in Calls, NEW a \in CallFields, call' = [call EXCEPT ![c] = a],
         Sound(a), a.pc = "relaying" => a.end = "none", a.pc # "new",
         a.got <= a.read, a.read <= a.sent, a.sent <= Chunks
  PROVE  RelayInv'
  BY DEF RelayInv, Relaying

LEMMA RelayNext == RelayInv /\ [Next]_gatewayVars => RelayInv'
<1> SUFFICES ASSUME RelayInv, [Next]_gatewayVars PROVE RelayInv'
  OBVIOUS
<1> USE RelayAssumption
<1>1. ASSUME UNCHANGED call PROVE RelayInv'
  BY <1>1 DEF RelayInv, Relaying
<1>2. ASSUME NEW i \in Instances, NEW c \in Calls, NEW stream \in BOOLEAN, NEW sized \in BOOLEAN,
             RelayStart(c, i, stream, sized)
      PROVE  RelayInv'
  <2> DEFINE a == [call[c] EXCEPT !.pc = "relaying", !.on = i,
                                  !.stream = stream, !.sized = sized]
  <2>1. call' = [call EXCEPT ![c] = a] /\ call[c] = NoCall
    BY <1>2 DEF RelayStart, RelayInv
  <2>2. a \in CallFields
    BY CallEdit DEF RelayInv
  <2>3. Sound(a)
    BY <2>1 DEF NoCall, Sound
  <2>4. /\ a.end = "none" /\ a.pc = "relaying"
        /\ a.got <= a.read /\ a.read <= a.sent /\ a.sent <= Chunks
    BY <2>1 DEF NoCall
  <2> QED
    BY <2>1, <2>2, <2>3, <2>4, OneCall
<1>3. ASSUME NEW c \in Calls, RelayEnvironment(c) PROVE RelayInv'
  <2>1. call[c] \in CallFields /\ Sound(call[c]) /\ call[c].pc = "relaying"
        /\ call[c].end = "none" /\ call[c].got <= call[c].read
        /\ call[c].read <= call[c].sent /\ call[c].sent <= Chunks
    BY <1>3 DEF RelayInv, RelayEnvironment, UpstreamSends, UpstreamEnds, UpstreamBreaksOff,
                ConnectionDies, Relaying
  <2>2. PICK a : /\ call' = [call EXCEPT ![c] = a]
                 /\ \/ call[c].body = "open" /\ call[c].sent < Chunks
                       /\ a = [call[c] EXCEPT !.sent = @ + 1]
                    \/ call[c].sent = Chunks /\ a = [call[c] EXCEPT !.body = "eof"]
                    \/ a = [call[c] EXCEPT !.body = "broken"]
                    \/ a = [call[c] EXCEPT !.gone = TRUE]
    BY <1>3 DEF RelayEnvironment, UpstreamSends, UpstreamEnds, UpstreamBreaksOff, ConnectionDies
  <2>3. a \in CallFields
    <3>1. call[c].sent + 1 \in Nat
      BY <2>1 DEF CallFields
    <3> QED
      BY <2>1, <2>2, <3>1, CallEdit
  <2>4. Sound(a)
    BY <2>1, <2>2 DEF CallFields, Sound
  <2>5. /\ a.pc = "relaying" /\ a.end = "none"
        /\ a.got <= a.read /\ a.read <= a.sent /\ a.sent <= Chunks
    BY <2>1, <2>2 DEF CallFields
  <2> QED
    BY <2>2, <2>3, <2>4, <2>5, OneCall
<1>4. ASSUME NEW c \in Calls, Copy(c) PROVE RelayInv'
  <2>1. call[c] \in CallFields /\ Sound(call[c]) /\ call[c].pc = "relaying"
        /\ call[c].end = "none" /\ call[c].got <= call[c].read
        /\ call[c].read < call[c].sent /\ call[c].sent <= Chunks
    BY <1>4 DEF RelayInv, Copy, Relaying
  <2>2. PICK got \in {call[c].read, call[c].got} :
          call' = [call EXCEPT ![c] = [call[c] EXCEPT !.read = call[c].read + 1, !.got = got]]
    BY <1>4 DEF Copy, CanFlush
  <2>3. got \in Nat /\ got <= call[c].read
    BY <2>1 DEF CallFields
  <2> DEFINE a == [call[c] EXCEPT !.read = call[c].read + 1, !.got = got]
  <2>4. a \in CallFields
    <3>1. call[c].read + 1 \in Nat
      BY <2>1 DEF CallFields
    <3> QED
      BY <2>1, <2>3, <3>1, CallEdit
  <2>5. Sound(a)
    BY <2>1 DEF CallFields, Sound
  <2>6. /\ a.pc = "relaying" /\ a.end = "none"
        /\ a.got <= a.read /\ a.read <= a.sent /\ a.sent <= Chunks
    <3>1. a.pc = "relaying" /\ a.end = "none" /\ a.sent = call[c].sent
      BY <2>1 DEF CallFields
    <3>2. a.read = call[c].read + 1 /\ a.got = got
      BY <2>1 DEF CallFields
    <3>3. call[c].read \in Nat /\ call[c].sent \in Nat
      BY <2>1 DEF CallFields
    <3> HIDE DEF a
    <3> QED
      BY <2>1, <2>3, <3>1, <3>2, <3>3
  <2> QED
    BY <2>2, <2>4, <2>5, <2>6, OneCall
<1>5. ASSUME NEW c \in Calls, Finish(c) PROVE RelayInv'
  <2>1. call[c] \in CallFields /\ Sound(call[c]) /\ call[c].pc = "relaying"
        /\ call[c].got <= call[c].read /\ call[c].read <= call[c].sent /\ call[c].sent <= Chunks
    BY <1>5 DEF RelayInv, Finish, Relaying
  <2>2. CASE Over(c, "cut")
    <3> DEFINE a == [NoCall EXCEPT !.pc = "done", !.end = "cut"]
    <3>1. call' = [call EXCEPT ![c] = a]
      BY <2>2 DEF Over
    <3>2. a \in CallFields
      BY DEF NoCall, CallFields
    <3>3. Sound(a)
      BY DEF NoCall, Sound
    <3>4. a.pc = "done" /\ a.got <= a.read /\ a.read <= a.sent /\ a.sent <= Chunks
      BY DEF NoCall
    <3> QED
      BY <3>1, <3>2, <3>3, <3>4, OneCall
  <2>3. CASE ~Over(c, "cut")
    <3> DEFINE a == [call[c] EXCEPT !.pc = "done", !.got = call[c].read, !.end = "complete"]
    <3>1. /\ call[c].body # "open" /\ call[c].read = call[c].sent
          /\ EndOf(c, call[c].read) = "complete" /\ Over(c, "complete")
      BY <1>5, <2>3 DEF Finish, EndOf
    <3>2. call' = [call EXCEPT ![c] = a]
      BY <3>1 DEF Over
    <3>3. a \in CallFields
      BY <2>1 DEF CallFields
    <3>4. Sound(a)
      BY <2>1, <3>1 DEF CallFields, Sound, EndOf
    <3>5. a.pc = "done" /\ a.got <= a.read /\ a.read <= a.sent /\ a.sent <= Chunks
      BY <2>1 DEF CallFields
    <3> QED
      BY <3>2, <3>3, <3>4, <3>5, OneCall
  <2> QED
    BY <2>2, <2>3
<1>6. ASSUME NEW i \in Instances, Die(i) PROVE RelayInv'
  <2> DEFINE lost == [NoCall EXCEPT !.pc = "done", !.end = "lost"]
  <2>1. lost \in CallFields /\ Sound(lost) /\ lost.pc = "done"
        /\ lost.got <= lost.read /\ lost.read <= lost.sent /\ lost.sent <= Chunks
    <3>1. lost \in CallFields
      BY DEF NoCall, CallFields
    <3>2. Sound(lost)
      BY DEF NoCall, Sound
    <3>3. lost.pc = "done" /\ lost.got <= lost.read /\ lost.read <= lost.sent /\ lost.sent <= Chunks
      BY DEF NoCall
    <3> QED
      BY <3>1, <3>2, <3>3
  <2>2. call' = [c \in Calls |-> IF c \in CallsOn(i) THEN lost ELSE call[c]]
    BY <1>6 DEF Die
  <2> QED
    BY <2>1, <2>2 DEF RelayInv, Relaying
<1>7. ASSUME NEW i \in Instances,
             \/ Start(i) \/ Migrate(i) \/ Serve(i) \/ BeginCall(i) \/ BeginProbe(i)
             \/ Signal(i) \/ StopGracefully(i) \/ StopForced(i) \/ ListenFails(i) \/ Kill(i)
      PROVE  RelayInv'
  BY <1>1, <1>2, <1>6, <1>7 DEF Start, Migrate, Serve, BeginCall, BeginProbe, Signal,
     StopGracefully, StopForced, ListenFails, Kill
<1>8. ASSUME Copying \/ Probe \/ Database \/ Outside PROVE RelayInv'
  BY <1>1, <1>3, <1>4, <1>5, <1>8 DEF Copying, Probe, Database, Outside, RelayStep
<1> QED
  BY <1>1, <1>7, <1>8 DEF Next, gatewayVars

\* A client that sees its answer end has every chunk the upstream sent, and the whole body
\* unless that came without a Content-Length and the upstream broke off: for any number of
\* answers and gateways, body length and buffer, and whoever dies or hangs up.
THEOREM CompleteAnswersAreWhole == Spec => []CompleteMeansWhole
<1>1. RelayInv => CompleteMeansWhole
  BY DEF RelayInv, Sound, CompleteMeansWhole
<1> QED
  BY <1>1, RelayInit, RelayNext, PTL DEF Spec

-----------------------------------------------------------------------------

Dependencies == {"database", "redis", "ninerouter"}

\* The checkers that may be left, in their order.
Rests == {<<"database", "redis", "ninerouter">>, <<"database", "ninerouter">>,
          <<"redis", "ninerouter">>, <<"ninerouter">>, <<>>}

Left(rest) == {rest[k] : k \in 1..Len(rest)}

ProbeFields == [pc : {"idle", "checking", "reported"}, on : Instances \cup {0},
                checkers : SUBSET Dependencies, rest : Rests, spent : Nat,
                healthy : SUBSET Dependencies, unhealthy : SUBSET Dependencies,
                status : {0, 200, 503}]

\* A probe p on its way: each checker has answered once or is left, and only the Redis
\* client may have taken more than the budget.
OnItsWay(p) ==
  /\ p.healthy \cup p.unhealthy \cup Left(p.rest) = p.checkers
  /\ p.healthy \cap p.unhealthy = {}
  /\ (p.healthy \cup p.unhealthy) \cap Left(p.rest) = {}
  /\ p.spent <= Budget + Overrun
  /\ "redis" \in Left(p.rest) => p.spent <= Budget

ProbeInv ==
  /\ probe \in ProbeFields
  /\ Probing => OnItsWay(probe)
  /\ ProbeCoversAllInBudget

LEMMA RestsShrink ==
  ASSUME NEW s \in Rests, s # <<>>
  PROVE  /\ Tail(s) \in Rests /\ Head(s) \in Dependencies
         /\ Left(s) = Left(Tail(s)) \cup {Head(s)} /\ Head(s) \notin Left(Tail(s))
<1>1. CASE s = <<"database", "redis", "ninerouter">>
  <2>1. Tail(s) = <<"redis", "ninerouter">> /\ Head(s) = "database"
    BY <1>1
  <2> QED
    BY <1>1, <2>1 DEF Rests, Dependencies, Left
<1>2. CASE s = <<"database", "ninerouter">>
  <2>1. Tail(s) = <<"ninerouter">> /\ Head(s) = "database"
    BY <1>2
  <2> QED
    BY <1>2, <2>1 DEF Rests, Dependencies, Left
<1>3. CASE s = <<"redis", "ninerouter">>
  <2>1. Tail(s) = <<"ninerouter">> /\ Head(s) = "redis"
    BY <1>3
  <2> QED
    BY <1>3, <2>1 DEF Rests, Dependencies, Left
<1>4. CASE s = <<"ninerouter">>
  <2>1. Tail(s) = <<>> /\ Head(s) = "ninerouter"
    BY <1>4
  <2> QED
    BY <1>4, <2>1 DEF Rests, Dependencies, Left
<1> QED
  BY <1>1, <1>2, <1>3, <1>4 DEF Rests

\* Short sequences, built by appending.
LEMMA SameSequence ==
  ASSUME NEW S, NEW s \in Seq(S), NEW t \in Seq(S), Len(s) = Len(t),
         \A k \in 1..Len(s) : s[k] = t[k]
  PROVE  s = t
  OBVIOUS

LEMMA AppendToOne == ASSUME NEW x, NEW y PROVE Append(<<x>>, y) = <<x, y>>
<1>1. <<x>> \in Seq({x, y}) /\ Len(<<x>>) = 1
  OBVIOUS
<1>2. /\ Append(<<x>>, y) \in Seq({x, y}) /\ Len(Append(<<x>>, y)) = 2
      /\ Append(<<x>>, y)[1] = x /\ Append(<<x>>, y)[2] = y
  BY <1>1
<1>3. /\ <<x, y>> \in Seq({x, y}) /\ Len(<<x, y>>) = 2
      /\ <<x, y>>[1] = x /\ <<x, y>>[2] = y
  OBVIOUS
<1>4. \A k \in 1..2 : Append(<<x>>, y)[k] = <<x, y>>[k]
  BY <1>2, <1>3
<1> QED
  BY <1>2, <1>3, <1>4, SameSequence

LEMMA AppendToTwo == ASSUME NEW x, NEW y, NEW z PROVE Append(<<x, y>>, z) = <<x, y, z>>
<1> DEFINE S == {x, y, z}
<1>1. <<x, y>> \in Seq(S) /\ Len(<<x, y>>) = 2
  OBVIOUS
<1>2. /\ Append(<<x, y>>, z) \in Seq(S) /\ Len(Append(<<x, y>>, z)) = 3
      /\ Append(<<x, y>>, z)[1] = x /\ Append(<<x, y>>, z)[2] = y /\ Append(<<x, y>>, z)[3] = z
  BY <1>1
<1>3. /\ <<x, y, z>> \in Seq(S) /\ Len(<<x, y, z>>) = 3
      /\ <<x, y, z>>[1] = x /\ <<x, y, z>>[2] = y /\ <<x, y, z>>[3] = z
  OBVIOUS
<1>4. \A k \in 1..3 : Append(<<x, y>>, z)[k] = <<x, y, z>>[k]
  BY <1>2, <1>3
<1> QED
  BY <1>2, <1>3, <1>4, SameSequence

LEMMA CheckersAreRests ==
  ASSUME NEW stores \in SUBSET Stores
  PROVE  Checkers(stores) \in Rests /\ Left(Checkers(stores)) = stores \cup {"ninerouter"}
<1>1. CASE stores = {"database", "redis"}
  <2>1. Checkers(stores) = Append(Append(<<"database">>, "redis"), "ninerouter")
    BY <1>1 DEF Checkers
  <2>2. Append(<<"database">>, "redis") = <<"database", "redis">>
    BY AppendToOne
  <2>3. Append(<<"database", "redis">>, "ninerouter") = <<"database", "redis", "ninerouter">>
    BY AppendToTwo
  <2>4. Checkers(stores) = <<"database", "redis", "ninerouter">>
    BY <2>1, <2>2, <2>3
  <2> QED
    BY <1>1, <2>4 DEF Rests, Left
<1>2. CASE stores = {"database"}
  <2>1. Checkers(stores) = <<"database", "ninerouter">>
    BY <1>2, AppendToOne DEF Checkers
  <2> QED
    BY <1>2, <2>1 DEF Rests, Left
<1>3. CASE stores = {"redis"}
  <2>1. Checkers(stores) = <<"redis", "ninerouter">>
    BY <1>3, AppendToOne DEF Checkers
  <2> QED
    BY <1>3, <2>1 DEF Rests, Left
<1>4. CASE stores = {}
  <2>1. Checkers(stores) = <<"ninerouter">>
    BY <1>4 DEF Checkers
  <2> QED
    BY <1>4, <2>1 DEF Rests, Left
<1> QED
  BY <1>1, <1>2, <1>3, <1>4 DEF Stores

LEMMA ProbeInit == Init => ProbeInv
  BY DEF Init, ProbeInv, ProbeFields, NoProbe, Rests, Probing, ProbeCoversAllInBudget

\* The fields that a check overwrites.
LEMMA ProbeEdit ==
  ASSUME NEW q \in ProbeFields, NEW rest \in Rests, NEW spent \in Nat,
         NEW well \in SUBSET Dependencies, NEW ill \in SUBSET Dependencies
  PROVE  [q EXCEPT !.rest = rest, !.spent = spent, !.healthy = well, !.unhealthy = ill]
           \in ProbeFields
<1> DEFINE D == SUBSET Dependencies
           I == Instances \cup {0}
           P == {"idle", "checking", "reported"}
           S == {0, 200, 503}
<1>1. ProbeFields = [pc : P, on : I, checkers : D, rest : Rests, spent : Nat,
                     healthy : D, unhealthy : D, status : S]
  BY DEF ProbeFields
<1> HIDE DEF D, I, P, S
<1> QED
  BY <1>1 DEF D

\* A checker that answers in time, out of time, or, if it is that of Redis, in overtime.
LEMMA CheckedOne ==
  ASSUME ProbeInv, Probing, probe.rest # <<>>, NEW t \in Nat, NEW ok \in BOOLEAN,
         Checked(t, ok), t <= TimeLeft \/ (Head(probe.rest) = "redis" /\ t <= TimeLeft + Overrun)
  PROVE  ProbeInv'
<1> USE BudgetAssumption
<1> DEFINE d == Head(probe.rest)
           left == Tail(probe.rest)
           well == IF ok THEN probe.healthy \cup {d} ELSE probe.healthy
           ill == IF ok THEN probe.unhealthy ELSE probe.unhealthy \cup {d}
           p == [probe EXCEPT !.rest = left, !.spent = probe.spent + t,
                              !.healthy = well, !.unhealthy = ill]
<1>1. /\ probe \in ProbeFields /\ probe.pc = "checking" /\ OnItsWay(probe)
      /\ probe.rest \in Rests /\ probe.spent \in Nat
      /\ probe.healthy \subseteq Dependencies /\ probe.unhealthy \subseteq Dependencies
  BY DEF ProbeInv, Probing, ProbeFields
<1>2. /\ left \in Rests /\ d \in Dependencies
      /\ Left(probe.rest) = Left(left) \cup {d} /\ d \notin Left(left)
  BY <1>1, RestsShrink
<1>3. probe' = p
  BY DEF Checked
<1>4. well \subseteq Dependencies /\ ill \subseteq Dependencies
  BY <1>1, <1>2
<1>5. probe.spent + t \in Nat
  BY <1>1
<1>6. /\ well \cup ill = probe.healthy \cup probe.unhealthy \cup {d}
      /\ d \notin probe.healthy \cup probe.unhealthy =>
           well \cap ill = {} \/ probe.healthy \cap probe.unhealthy # {}
  OBVIOUS
<1>7. /\ probe.spent + t <= Budget + Overrun
      /\ d # "redis" /\ "redis" \in Left(left) => probe.spent + t <= Budget
  <2>1. probe.spent <= Budget + Overrun /\ (d = "redis" => probe.spent <= Budget)
        /\ ("redis" \in Left(left) => probe.spent <= Budget)
    BY <1>1, <1>2 DEF OnItsWay
  <2>2. TimeLeft = IF probe.spent < Budget THEN Budget - probe.spent ELSE 0
    BY DEF TimeLeft
  <2>3. t <= TimeLeft \/ (d = "redis" /\ t <= TimeLeft + Overrun)
    OBVIOUS
  <2> HIDE DEF d, left
  <2> QED
    BY <1>1, <2>1, <2>2, <2>3
<1> HIDE DEF d, left, well, ill
<1>8. p \in ProbeFields
  BY <1>1, <1>2, <1>4, <1>5, ProbeEdit
<1>9. /\ p.pc = "checking" /\ p.rest = left /\ p.spent = probe.spent + t
      /\ p.healthy = well /\ p.unhealthy = ill /\ p.checkers = probe.checkers
  BY <1>1 DEF ProbeFields
<1> HIDE DEF p
<1>10. OnItsWay(p)
  BY <1>1, <1>2, <1>6, <1>7, <1>9 DEF OnItsWay
<1> QED
  BY <1>3, <1>8, <1>9, <1>10 DEF ProbeInv, Probing, ProbeCoversAllInBudget

LEMMA CheckKeeps == ASSUME ProbeInv, Check PROVE ProbeInv'
<1> USE BudgetAssumption
<1>1. Probing /\ probe.rest # <<>> /\ TimeLeft \in Nat
  BY DEF Check, TimeLeft, ProbeInv, ProbeFields
<1>2. PICK t \in Nat, ok \in BOOLEAN :
        /\ Checked(t, ok)
        /\ t <= TimeLeft \/ (Head(probe.rest) = "redis" /\ t <= TimeLeft + Overrun)
  <2>1. ASSUME NEW t \in 0..TimeLeft, NEW ok \in BOOLEAN, Checked(t, ok)
        PROVE  t \in Nat /\ t <= TimeLeft
    BY <1>1
  <2>2. ASSUME NEW t \in 0..Overrun PROVE TimeLeft + t \in Nat /\ TimeLeft + t <= TimeLeft + Overrun
    BY <1>1
  <2>3. TimeLeft <= TimeLeft /\ FALSE \in BOOLEAN
    BY <1>1
  <2>4. \/ \E t \in 0..TimeLeft, ok \in BOOLEAN : Checked(t, ok)
        \/ Checked(TimeLeft, FALSE)
        \/ /\ Head(probe.rest) = "redis"
           /\ \E t \in 0..Overrun, ok \in BOOLEAN : Checked(TimeLeft + t, ok)
    BY DEF Check
  <2> HIDE DEF TimeLeft, Checked
  <2> QED
    BY <1>1, <2>1, <2>2, <2>3, <2>4
<1> QED
  BY <1>1, <1>2, CheckedOne

LEMMA ReportKeeps == ASSUME ProbeInv, Report PROVE ProbeInv'
<1> DEFINE status == IF probe.unhealthy = {} THEN 200 ELSE 503
           p == [probe EXCEPT !.pc = "reported", !.status = status]
<1>1. probe \in ProbeFields /\ OnItsWay(probe) /\ probe.rest = <<>> /\ probe' = p
  BY DEF ProbeInv, Report
<1> HIDE DEF status
<1>2. status \in {0, 200, 503} /\ (status = 200 <=> probe.unhealthy = {})
  BY DEF status
<1>3. p \in ProbeFields
  <2> DEFINE S == {0, 200, 503}
             P == {"idle", "checking", "reported"}
             D == SUBSET Dependencies
             I == Instances \cup {0}
             F == [pc : P, on : I, checkers : D, rest : Rests, spent : Nat, healthy : D,
                   unhealthy : D, status : S]
  <2>1. probe \in F /\ status \in S /\ "reported" \in P /\ F = ProbeFields
    BY <1>1, <1>2 DEF ProbeFields
  <2> HIDE DEF S, P, D, I
  <2>2. p \in F
    BY <2>1
  <2> QED
    BY <2>1, <2>2
<1>4. /\ p.pc = "reported" /\ p.status = status /\ p.spent = probe.spent
      /\ p.healthy = probe.healthy /\ p.unhealthy = probe.unhealthy /\ p.checkers = probe.checkers
  BY <1>1 DEF ProbeFields
<1>5. /\ probe.healthy \cup probe.unhealthy = probe.checkers
      /\ probe.healthy \cap probe.unhealthy = {}
      /\ probe.spent <= Budget + Overrun
  <2>1. Left(<<>>) = {}
    BY DEF Left
  <2> QED
    BY <1>1, <2>1 DEF OnItsWay
<1>6. probe.unhealthy = {} <=> probe.healthy = probe.checkers
  BY <1>5
<1> HIDE DEF p
<1>7. ProbeCoversAllInBudget'
  BY <1>1, <1>2, <1>4, <1>5, <1>6 DEF ProbeCoversAllInBudget
<1> QED
  BY <1>1, <1>3, <1>4, <1>7 DEF ProbeInv, Probing

LEMMA ProbeBegins ==
  ASSUME NEW i \in Instances, NEW stores \in SUBSET Stores, ProbeStart(i, stores)
  PROVE  ProbeInv'
<1> DEFINE p == [NoProbe EXCEPT !.pc = "checking", !.on = i, !.rest = Checkers(stores),
                                !.checkers = stores \cup {"ninerouter"}]
<1>1. Checkers(stores) \in Rests /\ Left(Checkers(stores)) = stores \cup {"ninerouter"}
  BY CheckersAreRests
<1>2. stores \cup {"ninerouter"} \subseteq Dependencies
  BY DEF Stores, Dependencies
<1>3. p \in ProbeFields
  BY <1>1, <1>2 DEF NoProbe, ProbeFields
<1>4. /\ p.pc = "checking" /\ p.rest = Checkers(stores) /\ p.checkers = stores \cup {"ninerouter"}
      /\ p.healthy = {} /\ p.unhealthy = {} /\ p.spent = 0
  BY DEF NoProbe
<1> HIDE DEF p
<1>5. OnItsWay(p)
  BY <1>1, <1>4, BudgetAssumption DEF OnItsWay
<1>6. probe' = p
  BY DEF ProbeStart, p
<1> QED
  BY <1>3, <1>4, <1>5, <1>6 DEF ProbeInv, Probing, ProbeCoversAllInBudget

\* What the steps of the processes do to the probe.
LEMMA ProbeNext ==
  ASSUME ProbeInv, opened \in [Instances -> SUBSET Stores], [Next]_gatewayVars PROVE ProbeInv'
<1>1. ASSUME UNCHANGED probe PROVE ProbeInv'
  BY <1>1 DEF ProbeInv, Probing, ProbeCoversAllInBudget
<1>2. ASSUME NEW i \in Instances, BeginProbe(i) PROVE ProbeInv'
  BY <1>2, ProbeBegins DEF BeginProbe
<1>3. ASSUME NEW i \in Instances, Die(i) PROVE ProbeInv'
  <2>1. CASE probe' = NoProbe
    BY <2>1, ProbeInit DEF ProbeInv, ProbeFields, NoProbe, Rests, Probing, ProbeCoversAllInBudget
  <2> QED
    BY <1>1, <1>3, <2>1 DEF Die
<1>4. ASSUME NEW i \in Instances,
             \/ Start(i) \/ Migrate(i) \/ Serve(i) \/ BeginCall(i) \/ Signal(i)
             \/ StopGracefully(i) \/ StopForced(i) \/ ListenFails(i) \/ Kill(i)
      PROVE  ProbeInv'
  BY <1>1, <1>3, <1>4 DEF Start, Migrate, Serve, BeginCall, Signal, StopGracefully, StopForced,
     ListenFails, Kill
<1>5. ASSUME Copying \/ Probe \/ Database \/ Outside PROVE ProbeInv'
  BY <1>1, <1>5, CheckKeeps, ReportKeeps DEF Copying, Probe, ProbeStep, Database, Outside
<1> QED
  BY <1>1, <1>2, <1>4, <1>5 DEF Next, gatewayVars

-----------------------------------------------------------------------------

ProcessPhases == {"down", "starting", "migrating", "serving", "draining"}

\* The part of the type invariant that relates the parts of a process to its phase.
PhaseInv ==
  /\ phase \in [Instances -> ProcessPhases]
  /\ opened \in [Instances -> SUBSET Stores]
  /\ \A i \in Instances : mig[i].pc # "off" <=> phase[i] = "migrating"
  /\ \A i \in Instances : ~Idle(i) => phase[i] \in {"serving", "draining"}

\* The inductive invariant of the gateway.
GatewayInv == MigInv /\ RelayInv /\ ProbeInv /\ PhaseInv

\* A process that did not begin to serve something is not busier than before.
LEMMA NotBusier ==
  ASSUME NEW i, ~Idle(i)',
         \A c \in Calls : Relaying(c)' /\ call'[c].on = i => Relaying(c) /\ call[c].on = i,
         Probing' /\ probe'.on = i => Probing /\ probe.on = i
  PROVE  ~Idle(i)
  BY DEF Idle, CallsOn

\* The steps on one answer leave it to the process that serves it.
LEMMA RelayStaysThere ==
  ASSUME RelayInv, NEW c \in Calls, RelayStep(c) \/ RelayEnvironment(c)
  PROVE  \A d \in Calls : Relaying(d)' => Relaying(d) /\ call'[d].on = call[d].on
<1>1. call \in [Calls -> CallFields] /\ call[c] \in CallFields
  BY DEF RelayInv
<1>2. Relaying(c) /\ \A d \in Calls \ {c} : call'[d] = call[d]
  <2>1. CASE Copy(c)
    BY <1>1, <2>1 DEF Copy
  <2>2. CASE Finish(c)
    BY <1>1, <2>2 DEF Finish, Over
  <2>3. CASE RelayEnvironment(c)
    BY <1>1, <2>3 DEF RelayEnvironment, UpstreamSends, UpstreamEnds, UpstreamBreaksOff,
                      ConnectionDies
  <2> QED
    BY <2>1, <2>2, <2>3 DEF RelayStep
<1>3. call'[c].pc = "done" \/ call'[c].on = call[c].on
  <2>1. CASE Copy(c)
    BY <1>1, <2>1 DEF Copy, CallFields
  <2>2. CASE Finish(c)
    <3>1. PICK end \in {"complete", "cut"} : Over(c, end)
      BY <2>2 DEF Finish, EndOf
    <3>2. CASE end = "complete"
      <4>1. call'[c] = [call[c] EXCEPT !.pc = "done", !.got = call[c].read, !.end = end]
        BY <1>1, <3>1, <3>2 DEF Over
      <4> QED
        BY <1>1, <4>1 DEF CallFields
    <3>3. CASE end = "cut"
      <4>1. call'[c] = [NoCall EXCEPT !.pc = "done", !.end = end]
        BY <1>1, <3>1, <3>3 DEF Over
      <4> QED
        BY <4>1 DEF NoCall
    <3> QED
      BY <3>1, <3>2, <3>3
  <2>3. CASE RelayEnvironment(c)
    BY <1>1, <2>3 DEF RelayEnvironment, UpstreamSends, UpstreamEnds, UpstreamBreaksOff,
                      ConnectionDies, CallFields
  <2> QED
    BY <2>1, <2>2, <2>3 DEF RelayStep
<1> QED
  BY <1>2, <1>3 DEF Relaying

\* Steps that are not main's.
LEMMA SamePhase ==
  ASSUME PhaseInv, UNCHANGED <<phase, opened>>,
         \A i \in Instances : mig'[i].pc # "off" <=> mig[i].pc # "off",
         \A c \in Calls : Relaying(c)' => Relaying(c) /\ call'[c].on = call[c].on,
         Probing' => Probing /\ probe'.on = probe.on
  PROVE  PhaseInv'
<1>1. \A i \in Instances : ~Idle(i)' => ~Idle(i)
  BY NotBusier
<1> QED
  BY <1>1 DEF PhaseInv

\* Steps of main in process i.
LEMMA OnePhase ==
  ASSUME PhaseInv, NEW i \in Instances, NEW p \in ProcessPhases, Enter(i, p),
         NEW stores \in SUBSET Stores, opened' = [opened EXCEPT ![i] = stores],
         mig'[i].pc # "off" <=> p = "migrating",
         ~Idle(i)' => p \in {"serving", "draining"},
         \A j \in Instances \ {i} : mig'[j] = mig[j] /\ (~Idle(j)' => ~Idle(j))
  PROVE  PhaseInv'
<1>1. phase' \in [Instances -> ProcessPhases] /\ opened' \in [Instances -> SUBSET Stores]
  BY DEF PhaseInv, Enter
<1>2. phase'[i] = p /\ \A j \in Instances \ {i} : phase'[j] = phase[j]
  BY DEF PhaseInv, Enter
<1>3. \A j \in Instances : mig'[j].pc # "off" <=> phase'[j] = "migrating"
  BY <1>2 DEF PhaseInv
<1>4. \A j \in Instances : ~Idle(j)' => phase'[j] \in {"serving", "draining"}
  BY <1>2 DEF PhaseInv
<1> QED
  BY <1>1, <1>3, <1>4 DEF PhaseInv

LEMMA DieKeepsPhase == ASSUME GatewayInv, NEW i \in Instances, Die(i) PROVE PhaseInv'
<1>1. /\ mig' = [mig EXCEPT ![i] = Off]
      /\ mig \in [Instances -> [pc : MigPhases, next : 1..(Last + 1)]]
  BY DEF Die, MigStop, GatewayInv, MigInv, MigTypeOK
<1>2. mig'[i].pc = "off" /\ \A j \in Instances \ {i} : mig'[j] = mig[j]
  BY <1>1 DEF Off
<1>3. \A c \in Calls : Relaying(c)' => Relaying(c) /\ call'[c].on = call[c].on /\ call'[c].on # i
  BY DEF Die, CallsOn, Relaying
<1>4. Probing' => Probing /\ probe'.on = probe.on /\ probe'.on # i
  BY DEF Die, Probing, NoProbe
<1>5. Idle(i)'
  BY <1>3, <1>4 DEF Idle, CallsOn
<1>6. \A j \in Instances : ~Idle(j)' => ~Idle(j)
  BY <1>3, <1>4, NotBusier
<1>7. Enter(i, "down") /\ opened' = [opened EXCEPT ![i] = {}]
  BY DEF Die
<1>8. PhaseInv /\ {} \in SUBSET Stores /\ "down" \in ProcessPhases
  BY DEF GatewayInv, ProcessPhases
<1> QED
  BY <1>2, <1>5, <1>6, <1>7, <1>8, OnePhase

LEMMA MainKeepsPhase ==
  ASSUME GatewayInv, NEW i \in Instances, Start(i) \/ Serve(i) \/ Signal(i) PROVE PhaseInv'
<1>0. /\ PhaseInv /\ opened \in [Instances -> SUBSET Stores]
      /\ mig \in [Instances -> [pc : MigPhases, next : 1..(Last + 1)]]
  BY DEF GatewayInv, PhaseInv, MigInv, MigTypeOK
<1>1. UNCHANGED <<call, probe>>
  BY DEF Start, Serve, Signal
<1>2. \A j \in Instances : ~Idle(j)' => ~Idle(j)
  BY <1>1 DEF Idle, CallsOn, Relaying, Probing
<1>3. CASE Start(i)
  <2>1. ~Idle(i)' => FALSE
    BY <1>0, <1>2, <1>3 DEF Start, PhaseInv
  <2>2. PICK stores \in SUBSET Stores : opened' = [opened EXCEPT ![i] = stores]
    <3>1. opened = [opened EXCEPT ![i] = opened[i]] /\ opened[i] \in SUBSET Stores
      BY <1>0
    <3>2. {"database"} \in SUBSET Stores
      BY DEF Stores
    <3> QED
      BY <1>3, <3>1, <3>2 DEF Start
  <2>3. mig[i].pc = "off"
    BY <1>0, <1>3 DEF Start, PhaseInv
  <2>4. PICK p \in {"migrating", "starting"} :
          Enter(i, p) /\ (mig'[i].pc # "off" <=> p = "migrating")
    <3>1. CASE Enter(i, "migrating") /\ MigStart(i)
      BY <1>0, <3>1 DEF MigStart, MigGoto
    <3>2. CASE Enter(i, "starting") /\ UNCHANGED migVars
      BY <2>3, <3>2 DEF migVars
    <3> QED
      BY <1>3, <3>1, <3>2 DEF Start
  <2>5. \A j \in Instances \ {i} : mig'[j] = mig[j]
    BY <1>0, <1>3 DEF Start, MigStart, MigGoto, migVars
  <2> QED
    BY <1>0, <1>2, <2>1, <2>2, <2>4, <2>5, OnePhase DEF ProcessPhases
<1>4. CASE Serve(i)
  <2>1. PICK stores \in SUBSET Stores : opened' = [opened EXCEPT ![i] = stores]
    <3>1. opened = [opened EXCEPT ![i] = opened[i]] /\ opened[i] \in SUBSET Stores
      BY <1>0
    <3>2. opened[i] \cup {"redis"} \in SUBSET Stores
      BY <3>1 DEF Stores
    <3> QED
      BY <1>4, <3>1, <3>2 DEF Serve
  <2>2. mig'[i].pc = "off" /\ \A j \in Instances \ {i} : mig'[j] = mig[j]
    BY <1>0, <1>4 DEF Serve, MigStop, Off
  <2>3. Enter(i, "serving")
    BY <1>4 DEF Serve
  <2> QED
    BY <1>0, <1>2, <2>1, <2>2, <2>3, OnePhase DEF ProcessPhases
<1>5. CASE Signal(i)
  <2>1. Enter(i, "draining") /\ UNCHANGED <<opened, mig>> /\ phase[i] = "serving"
    BY <1>5 DEF Signal, migVars
  <2>2. opened' = [opened EXCEPT ![i] = opened[i]] /\ opened[i] \in SUBSET Stores
    BY <1>0, <2>1
  <2>3. mig'[i].pc = "off" /\ \A j \in Instances \ {i} : mig'[j] = mig[j]
    BY <1>0, <2>1 DEF PhaseInv
  <2> QED
    BY <1>0, <1>2, <2>1, <2>2, <2>3, OnePhase DEF ProcessPhases
<1> QED
  BY <1>3, <1>4, <1>5

LEMMA BeginKeepsPhase ==
  ASSUME GatewayInv, NEW i \in Instances, BeginCall(i) \/ BeginProbe(i) PROVE PhaseInv'
<1>0. PhaseInv /\ call \in [Calls -> CallFields]
  BY DEF GatewayInv, RelayInv
<1>1. phase[i] = "serving" /\ UNCHANGED <<phase, opened, mig>>
  BY DEF BeginCall, BeginProbe, migVars
<1>2. \A j \in Instances \ {i} : ~Idle(j)' => ~Idle(j)
  <2>1. \A c \in Calls : Relaying(c)' /\ call'[c].on # i => Relaying(c) /\ call'[c].on = call[c].on
    BY <1>0 DEF BeginCall, BeginProbe, RelayStart, Relaying, CallFields
  <2>2. Probing' /\ probe'.on # i => Probing /\ probe'.on = probe.on
    BY DEF BeginCall, BeginProbe, ProbeStart, Probing, NoProbe
  <2> QED
    BY <2>1, <2>2, NotBusier
<1>3. \A j \in Instances : ~Idle(j)' => phase'[j] \in {"serving", "draining"}
  BY <1>0, <1>1, <1>2 DEF PhaseInv
<1> QED
  BY <1>0, <1>1, <1>3 DEF PhaseInv

LEMMA OthersKeepPhase ==
  ASSUME GatewayInv, \/ \E i \in Instances : Migrate(i)
                     \/ Copying \/ Probe \/ Database \/ Outside
                     \/ UNCHANGED gatewayVars
  PROVE  PhaseInv'
<1>0. /\ PhaseInv /\ RelayInv /\ probe \in ProbeFields
      /\ mig \in [Instances -> [pc : MigPhases, next : 1..(Last + 1)]]
  BY DEF GatewayInv, ProbeInv, MigInv, MigTypeOK
<1>1. ASSUME NEW i \in Instances, Migrate(i) PROVE PhaseInv'
  <2>1. UNCHANGED <<phase, opened, call, probe>> /\ MigStep(i)
    BY <1>1 DEF Migrate
  <2>2. \A j \in Instances : mig'[j].pc # "off" <=> mig[j].pc # "off"
    BY <1>0, <2>1 DEF MigStep, CreateTable, Query, Execute, Insert, Commit, Fail, MigGoto, Running
  <2> QED
    BY <1>0, <2>1, <2>2, SamePhase DEF Relaying, Probing
<1>2. ASSUME Copying \/ Outside PROVE PhaseInv'
  BY <1>0, <1>2, RelayStaysThere, SamePhase DEF Copying, Outside, Probing, migVars
<1>3. ASSUME Probe PROVE PhaseInv'
  <2>1. Probing => Probing /\ probe'.on = probe.on
    <3>1. \A t, ok : Checked(t, ok) => probe'.on = probe.on
      BY <1>0 DEF Checked, ProbeFields
    <3>2. Report => probe'.on = probe.on
      BY <1>0 DEF Report, ProbeFields
    <3>3. Report \/ \E t, ok : Checked(t, ok)
      BY <1>3 DEF Probe, ProbeStep, Check
    <3> QED
      BY <3>1, <3>2, <3>3
  <2>2. Probing
    BY <1>3 DEF Probe, ProbeStep, Check, Report
  <2> QED
    BY <1>0, <1>3, <2>1, <2>2, SamePhase DEF Probe, Relaying, migVars
<1>4. ASSUME Database \/ UNCHANGED gatewayVars PROVE PhaseInv'
  BY <1>0, <1>4, SamePhase DEF Database, OrphanEnds, gatewayVars, migVars, Relaying, Probing
<1> QED
  BY <1>1, <1>2, <1>3, <1>4

LEMMA GatewayInit == Init => GatewayInv
<1>1. Init => PhaseInv
  BY DEF Init, MigInit, Off, PhaseInv, ProcessPhases, Idle, CallsOn, Relaying, NoCall, Probing,
         NoProbe
<1>2. Init => MigInv
  BY MigInitInv DEF Init
<1> QED
  BY <1>1, <1>2, RelayInit, ProbeInit DEF GatewayInv

LEMMA GatewayNext == GatewayInv /\ [Next]_gatewayVars => GatewayInv'
<1> SUFFICES ASSUME GatewayInv, [Next]_gatewayVars PROVE GatewayInv'
  OBVIOUS
<1>1. MigInv' /\ RelayInv' /\ ProbeInv'
  BY StepIsMigration, MigNextInv, RelayNext, ProbeNext DEF GatewayInv, PhaseInv
<1>2. ASSUME NEW i \in Instances,
             StopGracefully(i) \/ StopForced(i) \/ ListenFails(i) \/ Kill(i)
      PROVE  PhaseInv'
  BY <1>2, DieKeepsPhase DEF StopGracefully, StopForced, ListenFails, Kill
<1>3. PhaseInv'
  BY <1>2, MainKeepsPhase, BeginKeepsPhase, OthersKeepPhase DEF Next
<1> QED
  BY <1>1, <1>3 DEF GatewayInv

\* The parts of every process fit its phase: nothing is served or migrated by a process
\* that does not run, for any number of processes, migrations and answers.
THEOREM GatewayTypeCorrect == Spec => []GatewayTypeOK
<1>1. GatewayInv => GatewayTypeOK
  BY DEF GatewayInv, MigInv, RelayInv, PhaseInv, CallFields, ProcessPhases, RelayTypeOK,
         GatewayTypeOK
<1> QED
  BY <1>1, GatewayInit, GatewayNext, PTL DEF Spec

\* A readiness answer has every dependency, and comes within the budget and one overrun,
\* for any budget and overrun and whatever opens, hangs or dies.
THEOREM ProbesCoverAll == Spec => []ProbeCoversAllInBudget
<1>1. GatewayInv => ProbeCoversAllInBudget
  BY DEF GatewayInv, ProbeInv
<1> QED
  BY <1>1, GatewayInit, GatewayNext, PTL DEF Spec
=============================================================================
