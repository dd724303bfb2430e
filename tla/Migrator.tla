------------------------------ MODULE Migrator ------------------------------
(***************************************************************************)
(* RunMigrations (internal/store/migrator.go) in gateways that start at the *)
(* same time, against one PostgreSQL.  Every statement is a step, since     *)
(* other gateways' statements come in between; a statement may fail (SQL    *)
(* error, lost connection, the 30 s context of main), and a process may die *)
(* before any of them.                                                      *)
(*                                                                         *)
(* External: a transaction takes effect at its commit.  An INSERT waits     *)
(* while another transaction has inserted the same version, and fails once  *)
(* that is committed (the primary key).  A COMMIT whose process is gone, or *)
(* has stopped waiting for the answer, may still be carried out.            *)
(***************************************************************************)
EXTENDS Naturals, Sequences

CONSTANTS
  Instances,   \* gateway processes
  Last         \* the migration files, 1..Last in the order of their names

ASSUME MigratorAssumption == Last \in Nat

VARIABLES
  versions,    \* external: the committed rows of schema_migrations
  orphans,     \* external: transactions, by version, whose process is gone
  mig,         \* RunMigrations of each gateway
  applied      \* history: the migrations that took effect, in that order

migVars == <<versions, orphans, mig, applied>>

Off == [pc |-> "off", next |-> 1]

MigInit ==
  /\ versions = {}
  /\ orphans = {}
  /\ mig = [i \in Instances |-> Off]
  /\ applied = <<>>

MigGoto(i, pc) == mig' = [mig EXCEPT ![i].pc = pc]

\* The transactions that have inserted version v and are still open.
Holds(j, v) == mig[j].pc = "commit" /\ mig[j].next = v
Locked(v) == v \in orphans \/ \E j \in Instances : Holds(j, v)

-----------------------------------------------------------------------------

\* CREATE TABLE IF NOT EXISTS, and the list of files.
CreateTable(i) ==
  /\ mig[i].pc = "create"
  /\ MigGoto(i, "query")
  /\ UNCHANGED <<versions, orphans, applied>>

\* Wrong on purpose: one file too many.
QueryPastEnd(i) ==
  LET v == mig[i].next
  IN  /\ mig[i].pc = "query"
      /\ IF v > Last + 1 THEN MigGoto(i, "ok") ELSE MigGoto(i, "execute")
      /\ UNCHANGED <<versions, orphans, applied>>

\* SELECT EXISTS: the next file is looked up, outside any transaction.
Query(i) ==
  LET v == mig[i].next
  IN  /\ mig[i].pc = "query"
      /\ \/ v > Last /\ MigGoto(i, "ok")
         \/ v <= Last /\ v \in versions /\ mig' = [mig EXCEPT ![i].next = v + 1]
         \/ v <= Last /\ v \notin versions /\ MigGoto(i, "execute")
      /\ UNCHANGED <<versions, orphans, applied>>

\* The file is read, the transaction begun and the file's SQL executed in it.
Execute(i) ==
  /\ mig[i].pc = "execute"
  /\ MigGoto(i, "insert")
  /\ UNCHANGED <<versions, orphans, applied>>

\* Wrong on purpose: the version is recorded whether or not it is there.
InsertAnyway(i) ==
  /\ mig[i].pc = "insert" /\ ~Locked(mig[i].next)
  /\ MigGoto(i, "commit")
  /\ UNCHANGED <<versions, orphans, applied>>

\* INSERT INTO schema_migrations, in the same transaction.
Insert(i) ==
  LET v == mig[i].next
  IN  /\ mig[i].pc = "insert" /\ ~Locked(v)
      /\ MigGoto(i, IF v \in versions THEN "failed" ELSE "commit")
      /\ UNCHANGED <<versions, orphans, applied>>

\* The transaction of version v takes effect.
TakesEffect(v) ==
  /\ versions' = versions \cup {v}
  /\ applied' = Append(applied, v)

\* COMMIT.
Commit(i) ==
  LET v == mig[i].next
  IN  /\ mig[i].pc = "commit"
      /\ TakesEffect(v)
      /\ mig' = [mig EXCEPT ![i] = [pc |-> "query", next |-> v + 1]]
      /\ UNCHANGED orphans

\* What the server has left to finish when it loses the process in a COMMIT.
Abandoned(i) == IF mig[i].pc = "commit" THEN {mig[i].next} ELSE {}

Running == {"create", "query", "execute", "insert", "commit"}

\* Wrong on purpose: a migration that fails is skipped.
FailSkips(i) ==
  /\ mig[i].pc \in Running \ {"create"}
  /\ mig' = [mig EXCEPT ![i] = [pc |-> "query", next |-> @.next + 1]]
  /\ UNCHANGED <<versions, orphans, applied>>

\* Wrong on purpose: no time limit, a wait for another transaction may be for ever.
FailUnlessBlocked(i) ==
  /\ mig[i].pc \in Running
  /\ ~(mig[i].pc = "insert" /\ Locked(mig[i].next))
  /\ MigGoto(i, "failed")
  /\ UNCHANGED <<versions, orphans, applied>>

\* A statement fails or times out and RunMigrations gives up: the transaction is
\* rolled back, or left to the server.
Fail(i) ==
  /\ mig[i].pc \in Running
  /\ MigGoto(i, "failed")
  /\ orphans' \in {orphans, orphans \cup Abandoned(i)}
  /\ UNCHANGED <<versions, applied>>

MigStep(i) ==
  CreateTable(i) \/ Query(i) \/ Execute(i) \/ Insert(i) \/ Commit(i) \/ Fail(i)

\* main calls RunMigrations.
MigStart(i) ==
  /\ mig[i].pc = "off"
  /\ MigGoto(i, "create")
  /\ UNCHANGED <<versions, orphans, applied>>

\* RunMigrations has returned, or the process dies in it.
MigStop(i) ==
  /\ mig' = [mig EXCEPT ![i] = Off]
  /\ orphans' = orphans \cup Abandoned(i)
  /\ UNCHANGED <<versions, applied>>

\* The server finishes the transaction of a process that is gone.
OrphanEnds ==
  \E v \in orphans :
    /\ orphans' = orphans \ {v}
    /\ TakesEffect(v) \/ UNCHANGED <<versions, applied>>
    /\ UNCHANGED mig

MigNext ==
  \/ \E i \in Instances : MigStep(i) \/ MigStart(i) \/ MigStop(i)
  \/ OrphanEnds

MigrationSpec == MigInit /\ [][MigNext]_migVars

-----------------------------------------------------------------------------

MigPhases == {"off", "create", "query", "execute", "insert", "commit", "ok", "failed"}

MigTypeOK ==
  /\ versions \subseteq 1..Last
  /\ orphans \subseteq 1..Last
  /\ mig \in [Instances -> [pc : MigPhases, next : 1..(Last + 1)]]
  /\ applied \in Seq(1..Last)

(***************************************************************************)
(* "database migrations applied successfully" (main.go:63) is true: when    *)
(* RunMigrations returns without an error, every migration is committed,    *)
(* also those that another gateway was applying meanwhile.                  *)
(***************************************************************************)
SuccessMeansMigrated ==
  \A i \in Instances : mig[i].pc = "ok" => versions = 1..Last

(***************************************************************************)
(* The migrator implements Schema: each migration whole, once, in order,    *)
(* also when two gateways find it missing at the same time, one dies at its *)
(* COMMIT, or the answer to a COMMIT is lost.                               *)
(***************************************************************************)
Contract == INSTANCE Schema
ImplementsSchema == Contract!Spec
=============================================================================
