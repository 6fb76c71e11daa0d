----------------------------- MODULE Migrations -----------------------------
(***************************************************************************)
(* db/store.ts, openHistoricalStore(): a process opens the database and    *)
(* db/migrations.ts brings its schema up to date before anything else is   *)
(* done with it.  The server (historical and hybrid mode) and each command *)
(* line tool do so when they start, and several may start together.        *)
(*                                                                         *)
(* SQLite is external: `db` is what is committed, `draft` what the holder  *)
(* of the write lock would commit.  A step is one statement.               *)
(***************************************************************************)
EXTENDS Naturals

CONSTANTS Processes,
          Latest       \* LATEST_SCHEMA_VERSION

Versions == 1 .. Latest

NoProcess == "nobody"

ASSUME MigrationConstants == Latest \in Nat \ {0} /\ NoProcess \notin Processes

VARIABLES db,       \* tables: whose DDL has run; rows: those in schema_migrations
          draft,    \* the same, with the changes of the open transaction
          writer,   \* the process that holds the write lock
          stage,    \* where each process stands
          applied,  \* what appliedVersions() has returned to it
          done      \* what it has applied itself (appliedNow)

migrationVars == <<db, draft, writer, stage, applied, done>>

Schema == [tables : SUBSET Versions, rows : SUBSET Versions]

InTransaction == {"begun", "built", "recorded"}
Stages == {"down", "opened", "pending", "ready", "failed"} \cup InTransaction

MigrationTypeOK == /\ db \in Schema
                   /\ draft \in Schema
                   /\ writer \in Processes \cup {NoProcess}
                   /\ stage \in [Processes -> Stages]
                   /\ applied \in [Processes -> SUBSET Versions]
                   /\ done \in [Processes -> SUBSET Versions]

(* A new database, one that an older build has left, or one whose tables   *)
(* were created by hand.                                                   *)
MigrationInit ==
  /\ \E oldest \in 0 .. Latest, built \in 0 .. Latest :
       /\ oldest <= built
       /\ db = [tables |-> 1 .. built, rows |-> 1 .. oldest]
  /\ draft = db
  /\ writer = NoProcess
  /\ stage = [p \in Processes |-> "down"]
  /\ applied = [p \in Processes |-> {}]
  /\ done = [p \in Processes |-> {}]

-----------------------------------------------------------------------------

Go(p, where) == stage' = [stage EXCEPT ![p] = where]

(* runMigrations() returns or throws: its variables are gone.              *)
Leave(p, where) == /\ Go(p, where)
                   /\ applied' = [applied EXCEPT ![p] = {}]
                   /\ done' = [done EXCEPT ![p] = {}]

(* openDatabase() and ensureMigrationsTable(), whose DDL is IF NOT EXISTS. *)
Open(p) == /\ stage[p] = "down" /\ Go(p, "opened")
           /\ UNCHANGED <<db, draft, writer, applied, done>>

(* appliedVersions(): read outside of any transaction.                     *)
ReadApplied(p) == /\ stage[p] = "opened" /\ Go(p, "pending")
                  /\ applied' = [applied EXCEPT ![p] = db.rows]
                  /\ UNCHANGED <<db, draft, writer, done>>

Pending(p) == Versions \ (applied[p] \cup done[p])

(* The loop over the pending migrations, sorted by their version.          *)
IsNextPending(p, v) == v \in Pending(p) /\ \A w \in Pending(p) : v <= w

(* BEGIN IMMEDIATE: one transaction for each migration.                    *)
BeginMigration(p) == /\ stage[p] = "pending" /\ Pending(p) # {}
                     /\ writer = NoProcess
                     /\ writer' = p /\ draft' = db
                     /\ Go(p, "begun")
                     /\ UNCHANGED <<db, applied, done>>

(* The script of the migration; its DDL is IF NOT EXISTS as well.          *)
RunScript(p) ==
  \E v \in Versions : /\ stage[p] = "begun" /\ IsNextPending(p, v)
                      /\ draft' = [draft EXCEPT !.tables = @ \cup {v}]
                      /\ Go(p, "built")
                      /\ UNCHANGED <<db, writer, applied, done>>

(* Faulty variant: the row is written on a connection of its own, not in   *)
(* the transaction.                                                        *)
RecordOutside(p) ==
  \E v \in Versions : /\ stage[p] = "built" /\ IsNextPending(p, v)
                      /\ v \notin db.rows
                      /\ db' = [db EXCEPT !.rows = @ \cup {v}]
                      /\ draft' = [draft EXCEPT !.rows = @ \cup {v}]
                      /\ Go(p, "recorded")
                      /\ UNCHANGED <<writer, applied, done>>

(* INSERT INTO schema_migrations, whose primary key is the version.        *)
RecordVersion(p) ==
  \E v \in Versions : /\ stage[p] = "built" /\ IsNextPending(p, v)
                      /\ v \notin draft.rows
                      /\ draft' = [draft EXCEPT !.rows = @ \cup {v}]
                      /\ Go(p, "recorded")
                      /\ UNCHANGED <<db, writer, applied, done>>

CommitMigration(p) ==
  \E v \in Versions : /\ stage[p] = "recorded" /\ IsNextPending(p, v)
                      /\ db' = draft /\ writer' = NoProcess
                      /\ done' = [done EXCEPT ![p] = @ \cup {v}]
                      /\ Go(p, "pending")
                      /\ UNCHANGED <<draft, applied>>

(* The process leaves the transaction, if it is in one, by ROLLBACK.       *)
LeaveTransaction(p) ==
  IF writer = p THEN writer' = NoProcess /\ draft' = db ELSE UNCHANGED <<writer, draft>>

(* Another process has applied the migration since appliedVersions(): the  *)
(* INSERT violates the primary key and the exception ends the start.       *)
FindTaken(p) ==
  \E v \in Versions : /\ stage[p] = "built" /\ IsNextPending(p, v)
                      /\ v \in draft.rows
                      /\ LeaveTransaction(p) /\ Leave(p, "failed")
                      /\ UNCHANGED db

(* Any statement may throw: the database is busy, the disk full.           *)
OpeningThrows(p) == /\ stage[p] \in {"opened", "pending"} \cup InTransaction
                    /\ LeaveTransaction(p) /\ Leave(p, "failed")
                    /\ UNCHANGED db

(* Nothing is left to apply: the store is handed out.                      *)
BecomeReady(p) == /\ stage[p] = "pending" /\ Pending(p) = {}
                  /\ Leave(p, "ready")
                  /\ UNCHANGED <<db, draft, writer>>

(* A process ends or dies, at whatever statement.                          *)
Die(p) == /\ stage[p] # "down"
          /\ LeaveTransaction(p) /\ Leave(p, "down")
          /\ UNCHANGED db

Migrate(p) == \/ Open(p) \/ ReadApplied(p) \/ BeginMigration(p) \/ RunScript(p)
              \/ RecordVersion(p) \/ CommitMigration(p) \/ FindTaken(p)
              \/ OpeningThrows(p) \/ BecomeReady(p)

MigrationNext == \E p \in Processes : Migrate(p) \/ Die(p)

MigrationSpec == MigrationInit /\ [][MigrationNext]_migrationVars

-----------------------------------------------------------------------------

(* Whatever processes start together, fail and die, the table of versions  *)
(* never claims a migration whose tables are not there nor one whose       *)
(* predecessors are missing, and a process that gets its store finds every *)
(* migration of its build applied, although it looks once and outside of   *)
(* the transactions (migrations.ts:5-14, 120-148).                         *)
ReadyIsMigrated ==
  /\ db.rows \subseteq db.tables
  /\ \A v \in db.rows : 1 .. v \subseteq db.rows
  /\ \A p \in Processes : stage[p] = "ready" => db.rows = Versions

=============================================================================
