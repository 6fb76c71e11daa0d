------------------------------ MODULE CsvImport ------------------------------
(***************************************************************************)
(* The import of a directory of CSV files, services/csvImportService.ts,   *)
(* over db/sqlite.ts: each member of Procs is a process (the import CLI,   *)
(* the daily job) with a connection of its own to one SQLite database in   *)
(* WAL mode, importing every one of Files.  A statement is a step, since   *)
(* other processes write between two of them; SQLite lets one process at a *)
(* time hold the write lock, which BEGIN IMMEDIATE takes and COMMIT or     *)
(* ROLLBACK gives back.  Any write may throw: the lock is not free within  *)
(* busy_timeout, or the disk is full.                                      *)
(*                                                                         *)
(* A row of price_bars is a ticker and a date; what it holds is named by   *)
(* the file that it was read from, whichever process wrote it.             *)
(***************************************************************************)
EXTENDS Naturals

CONSTANTS Procs, Files, Rows,
          RowsOf,  \* the rows of each file
          Nobody   \* no process and no file

ASSUME ImportConstants == /\ Nobody \notin Procs \cup Files
                          /\ RowsOf \in [Files -> SUBSET Rows]

VARIABLES bars,     \* the committed rows of price_bars
          lock,     \* the process that holds SQLite's write lock
          draft,    \* price_bars as the process that holds it sees them
          depth,    \* the wrapper's count of open transactions
          pc, file, \* where each process stands, and with which file
          pending,  \* rows of the file that upsertBars() has still to write
          run,      \* status of the file's row of import_runs
          outcome,  \* status of the CsvImportResult of each file
          stored    \* history: the imports whose transaction committed

vars == <<bars, lock, draft, depth, pc, file, pending, run, outcome, stored>>

Import == Procs \X Files
Pc == {"next", "parse", "begin", "write", "close", "reject", "catch", "end", "dead"}
Outcome == {"completed", "input_error", "db_error"}

TypeOK == /\ bars \in [Rows -> Files \cup {Nobody}]
          /\ lock \in Procs \cup {Nobody}
          /\ draft \in [Rows -> Files \cup {Nobody}]
          /\ depth \in [Procs -> Nat]
          /\ pc \in [Procs -> Pc]
          /\ file \in [Procs -> Files \cup {Nobody}]
          /\ pending \in [Procs -> SUBSET Rows]
          /\ run \in [Import -> {"none", "started", "completed", "failed"}]
          /\ outcome \in [Import -> Outcome \cup {"none"}]
          /\ stored \subseteq Import

Init == /\ bars = [r \in Rows |-> Nobody]
        /\ lock = Nobody
        /\ draft = bars
        /\ depth = [p \in Procs |-> 0]
        /\ pc = [p \in Procs |-> "next"]
        /\ file = [p \in Procs |-> Nobody]
        /\ pending = [p \in Procs |-> {}]
        /\ run = [w \in Import |-> "none"]
        /\ outcome = [w \in Import |-> "none"]
        /\ stored = {}

-----------------------------------------------------------------------------

At(p, point) == pc[p] = point
Goto(p, point) == pc' = [pc EXCEPT ![p] = point]
Current(p) == <<p, file[p]>>

(* p may write: it holds the lock or nobody does.                          *)
CanWrite(p) == lock \in {p, Nobody}

(* An exception leaves importDirectory(): the remaining files are skipped. *)
Throw(p) == /\ Goto(p, "end")
            /\ UNCHANGED <<bars, lock, draft, depth, file, pending, run, outcome, stored>>

(* importFile() of the next file records the start of a run.               *)
StartRun(p, f) ==
  /\ At(p, "next") /\ run[<<p, f>>] = "none"
  /\ CanWrite(p)
  /\ file' = [file EXCEPT ![p] = f]
  /\ run' = [run EXCEPT ![<<p, f>>] = "started"]
  /\ Goto(p, "parse")
  /\ UNCHANGED <<bars, lock, draft, depth, pending, outcome, stored>>

AllImported(p) == \A f \in Files : run[<<p, f>>] # "none"

Finished(p) == /\ At(p, "next") /\ AllImported(p)
               /\ Goto(p, "end")
               /\ UNCHANGED <<bars, lock, draft, depth, file, pending, run, outcome, stored>>

(* The file is unreadable, or any row of it is invalid: the whole file is  *)
(* refused before the transaction is opened.                               *)
Parse(p) == /\ At(p, "parse")
            /\ Goto(p, "begin") \/ Goto(p, "reject")
            /\ UNCHANGED <<bars, lock, draft, depth, file, pending, run, outcome, stored>>

(* importRuns.finish() and the result of the file.                         *)
Close(p, from, status, result) ==
  /\ At(p, from) /\ CanWrite(p)
  /\ run' = [run EXCEPT ![Current(p)] = status]
  /\ outcome' = [outcome EXCEPT ![Current(p)] = result]
  /\ Goto(p, "next")
  /\ UNCHANGED <<bars, lock, draft, depth, file, pending, stored>>

Reject(p) == Close(p, "reject", "failed", "input_error")
Complete(p) == Close(p, "close", "completed", "completed")
RecordFailure(p) == Close(p, "catch", "failed", "db_error")

(* start(), or a finish() that no catch block surrounds, throws.           *)
BookkeepingThrows(p) == /\ \/ At(p, "next") /\ ~AllImported(p)
                           \/ At(p, "reject") \/ At(p, "catch")
                        /\ Throw(p)

(* transaction(): a second one is refused ...                              *)
RefuseNested(p) == /\ At(p, "begin") /\ depth[p] > 0
                   /\ Goto(p, "catch")
                   /\ UNCHANGED <<bars, lock, draft, depth, file, pending, run, outcome, stored>>

(* ... otherwise it is counted, and BEGIN IMMEDIATE takes the write lock   *)
Begin(p) == /\ At(p, "begin") /\ depth[p] = 0
            /\ lock = Nobody
            /\ depth' = [depth EXCEPT ![p] = @ + 1]
            /\ lock' = p
            /\ draft' = bars
            /\ pending' = [pending EXCEPT ![p] = RowsOf[file[p]]]
            /\ Goto(p, "write")
            /\ UNCHANGED <<bars, file, run, outcome, stored>>

(* or throws, outside the try block whose finally takes the count back.    *)
BeginThrows(p) == /\ At(p, "begin") /\ depth[p] = 0
                  /\ depth' = [depth EXCEPT ![p] = @ + 1]
                  /\ Goto(p, "catch")
                  /\ UNCHANGED <<bars, lock, draft, file, pending, run, outcome, stored>>

UpsertBar(p, r) == /\ At(p, "write") /\ r \in pending[p]
                   /\ draft' = [draft EXCEPT ![r] = file[p]]
                   /\ pending' = [pending EXCEPT ![p] = @ \ {r}]
                   /\ UNCHANGED <<bars, lock, depth, pc, file, run, outcome, stored>>

(* The transaction is over and the finally block has run.                  *)
EndTransaction(p, point) == /\ lock' = Nobody
                            /\ depth' = [depth EXCEPT ![p] = @ - 1]
                            /\ pending' = [pending EXCEPT ![p] = {}]
                            /\ Goto(p, point)
                            /\ UNCHANGED <<file, run, outcome>>

(* Faulty: a commit between two rows.                                      *)
CommitEarly(p) == /\ At(p, "write")
                  /\ bars' = draft
                  /\ stored' = stored \cup {Current(p)}
                  /\ EndTransaction(p, "close")
                  /\ UNCHANGED draft

Commit(p) == /\ At(p, "write") /\ pending[p] = {}
             /\ bars' = draft
             /\ stored' = stored \cup {Current(p)}
             /\ EndTransaction(p, "close")
             /\ UNCHANGED draft

(* Faulty: the exception is swallowed after the ROLLBACK ...               *)
RollbackSilently(p) == /\ At(p, "write")
                       /\ draft' = bars
                       /\ EndTransaction(p, "close")
                       /\ UNCHANGED <<bars, stored>>

(* ... or passed on without a ROLLBACK.                                    *)
NoRollback(p) == /\ At(p, "write")
                 /\ depth' = [depth EXCEPT ![p] = @ - 1]
                 /\ Goto(p, "catch")
                 /\ UNCHANGED <<bars, lock, draft, file, pending, run, outcome, stored>>

(* A statement of the transaction throws, COMMIT included: ROLLBACK.       *)
Rollback(p) == /\ At(p, "write")
               /\ draft' = bars
               /\ EndTransaction(p, "catch")
               /\ UNCHANGED <<bars, stored>>

(* finish() throws after the commit, inside the try block.                 *)
CompleteThrows(p) == /\ At(p, "close")
                     /\ Goto(p, "catch")
                     /\ UNCHANGED <<bars, lock, draft, depth, file, pending, run, outcome, stored>>

(* The process dies; SQLite drops its transaction and its lock.            *)
Crash(p) == /\ pc[p] \notin {"end", "dead"}
            /\ Goto(p, "dead")
            /\ IF lock = p THEN lock' = Nobody /\ draft' = bars
               ELSE UNCHANGED <<lock, draft>>
            /\ pending' = [pending EXCEPT ![p] = {}]
            /\ UNCHANGED <<bars, depth, file, run, outcome, stored>>

Advance(p) == \/ \E f \in Files : StartRun(p, f)
              \/ Finished(p) \/ Parse(p) \/ Reject(p) \/ Complete(p) \/ RecordFailure(p)
              \/ BookkeepingThrows(p) \/ RefuseNested(p) \/ Begin(p) \/ BeginThrows(p)
              \/ \E r \in Rows : UpsertBar(p, r)
              \/ Commit(p) \/ Rollback(p) \/ CompleteThrows(p)

Next == \E p \in Procs : Advance(p) \/ Crash(p)

Spec == Init /\ [][Next]_vars

-----------------------------------------------------------------------------

(* Whoever reads the table, and whatever fails or dies, it changes by      *)
(* whole files: all the rows of one or none (csvImportService.ts:126-131,  *)
(* sqlite.ts:45-50, 101-121).                                              *)
FilesAreAtomic ==
  [][bars' # bars =>
       \E f \in Files : bars' = [r \in Rows |-> IF r \in RowsOf[f] THEN f ELSE bars[r]]]_vars

(* What the import reports and records of a file is what happened to its   *)
(* rows: completed means that they are committed and the run is closed so, *)
(* a refused file has left nothing, and a file that is neither recorded    *)
(* nor failed half-way is not stored (csvImportService.ts:96-185).         *)
ReportIsTrue ==
  \A i \in Import :
    /\ outcome[i] = "completed" => i \in stored /\ run[i] = "completed"
    /\ outcome[i] = "input_error" => i \notin stored /\ run[i] = "failed"
    /\ outcome[i] = "db_error" => run[i] = "failed"
    /\ run[i] = "completed" => i \in stored
    /\ run[i] = "none" => i \notin stored

(* The write lock is never left behind: it is held exactly by the process  *)
(* that is inside the callback of its transaction, so an import that ended *)
(* or died does not block the others (sqlite.ts:105-120).                  *)
LockIsGivenBack == \A p \in Procs : lock = p <=> At(p, "write")

(* What the error message says: a transaction is refused for being nested, *)
(* that is, only while the process has one open (sqlite.ts:48, 102-104).   *)
OnlyNestedIsRefused == \A p \in Procs : At(p, "begin") /\ depth[p] > 0 => lock = p

=============================================================================
