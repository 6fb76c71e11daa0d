------------------------------ MODULE DailyJob ------------------------------
(***************************************************************************)
(* The daily update: services/dailyUpdateService.ts as run by              *)
(* cli/dailyUpdate.ts.  Each member of Runs is one execution of the CLI in *)
(* a process of its own; several may be started, by a scheduler or by      *)
(* hand, and each may die at any instant.  The lock is the one of JobLock, *)
(* whose actions are taken here together with the step of the run that     *)
(* makes the call.                                                         *)
(*                                                                         *)
(* Every statement on the database may throw (SQLITE_BUSY after the        *)
(* 5-second busy_timeout, a full disk): each call has an action for that.  *)
(***************************************************************************)
EXTENDS Naturals

CONSTANTS Runs, NoRun, Ttl, Horizon,
          NFiles,    \* CSV files in the import directory, 0 when it is not set
          NTickers   \* tickers to top up, 0 when the provider is disabled

ASSUME JobConstants == /\ NoRun \notin Runs
                       /\ Ttl \in Nat \ {0}
                       /\ Horizon \in Nat
                       /\ NFiles \in Nat
                       /\ NTickers \in Nat

VARIABLES clock, row, asked, lease,  \* see JobLock
          pc,        \* the point of run() each execution has reached
          files,     \* CSV files it has still to import
          csvBad,    \* kinds of failure among the files it imported
          todo,      \* tickers it has still to finish
          tally,     \* syncSummary
          importRun, \* the status of its row of import_runs
          exit       \* the exit code of its process

jobVars == <<files, csvBad, todo, tally, importRun, exit>>
vars == <<clock, row, asked, lease, pc, jobVars>>

Inside == {"granted", "working", "syncing", "failing", "releasing"}
Stopped == {"exited", "crashed"}
Pc == {"idle", "asking"} \cup Inside \cup Stopped

(* What the lock sees of a run.                                            *)
ClientOf(p) == CASE p = "idle" -> "out"
                 [] p = "asking" -> "asking"
                 [] p \in Inside -> "holding"
                 [] OTHER -> "done"

Client == [r \in Runs |-> ClientOf(pc[r])]

Lock == INSTANCE JobLock WITH client <- Client

Outcome == {"succeeded", "skipped", "failed"}
Tally == [Outcome \cup {"attempted"} -> Nat]
ExitCode == {"OK", "INPUT_ERROR", "DB_ERROR", "CONCURRENT"}

TypeOK == /\ clock \in Nat
          /\ row \in Lock!Row
          /\ asked \in [Runs -> Nat]
          /\ lease \in [Runs -> Nat]
          /\ pc \in [Runs -> Pc]
          /\ files \in [Runs -> Nat]
          /\ csvBad \in [Runs -> SUBSET {"input_error", "db_error"}]
          /\ todo \in [Runs -> Nat]
          /\ tally \in [Runs -> Tally]
          /\ importRun \in [Runs -> {"none", "started", "completed", "failed"}]
          /\ exit \in [Runs -> ExitCode \cup {"running"}]

Init == /\ clock = 0
        /\ row = Lock!Absent
        /\ asked = [r \in Runs |-> 0]
        /\ lease = [r \in Runs |-> 0]
        /\ pc = [r \in Runs |-> "idle"]
        /\ files = [r \in Runs |-> NFiles]
        /\ csvBad = [r \in Runs |-> {}]
        /\ todo = [r \in Runs |-> NTickers]
        /\ tally = [r \in Runs |-> [o \in Outcome \cup {"attempted"} |-> 0]]
        /\ importRun = [r \in Runs |-> "none"]
        /\ exit = [r \in Runs |-> "running"]

-----------------------------------------------------------------------------

Goto(r, p) == pc' = [pc EXCEPT ![r] = p]

(* The process ends with the given code.                                   *)
Leave(r, code) == Goto(r, "exited") /\ exit' = [exit EXCEPT ![r] = code]

(* A step of run() that does not touch the lock.                           *)
Work(r, from, to) == /\ pc[r] = from
                     /\ Goto(r, to)
                     /\ Lock!LeaveTable

Begin(r) == /\ pc[r] = "idle"
            /\ Goto(r, "asking")
            /\ Lock!ReadClock(r)
            /\ UNCHANGED jobVars

Acquired(r) == /\ pc[r] = "asking"
               /\ Goto(r, "granted")
               /\ Lock!TakeRow(r)
               /\ UNCHANGED jobVars

(* A valid lock is held: the run is rejected before it writes anything.    *)
Rejected(r) == /\ pc[r] = "asking"
               /\ Lock!Blocked(r)
               /\ Leave(r, "CONCURRENT")
               /\ Lock!LeaveTable
               /\ UNCHANGED <<files, csvBad, todo, tally, importRun>>

(* acquire() throws, or importRuns.start() does: neither is inside the     *)
(* try block, so no row is finished and nothing is released.               *)
EntryThrows(r) == /\ pc[r] \in {"asking", "granted"}
                  /\ Leave(r, "DB_ERROR")
                  /\ Lock!LeaveTable
                  /\ UNCHANGED <<files, csvBad, todo, tally, importRun>>

StartRun(r) == /\ Work(r, "granted", "working")
               /\ importRun' = [importRun EXCEPT ![r] = "started"]
               /\ UNCHANGED <<files, csvBad, todo, tally, exit>>

(* One file of importDirectory(); a failing file does not stop the others. *)
CsvFile(r, status) ==
  /\ Work(r, "working", "working")
  /\ files[r] > 0
  /\ files' = [files EXCEPT ![r] = @ - 1]
  /\ csvBad' = [csvBad EXCEPT ![r] = @ \cup ({status} \ {"completed"})]
  /\ UNCHANGED <<todo, tally, importRun, exit>>

(* One ticker of the top-up loop: the call, then, after the await, its     *)
(* outcome.  A sync that throws counts as failed and the loop goes on.     *)
SyncCall(r) == /\ Work(r, "working", "syncing")
               /\ files[r] = 0 /\ todo[r] > 0
               /\ tally' = [tally EXCEPT ![r]["attempted"] = @ + 1]
               /\ UNCHANGED <<files, csvBad, todo, importRun, exit>>

SyncReturn(r, o) == /\ Work(r, "syncing", "working")
                    /\ tally' = [tally EXCEPT ![r][o] = @ + 1]
                    /\ todo' = [todo EXCEPT ![r] = @ - 1]
                    /\ UNCHANGED <<files, csvBad, importRun, exit>>

AllDone(r) == files[r] = 0 /\ todo[r] = 0

(* Faulty variant: files with unreadable rows go unreported.               *)
ExitOfDatabase(bad) == IF "db_error" \in bad THEN "DB_ERROR" ELSE "OK"

ExitOf(bad) == IF "db_error" \in bad THEN "DB_ERROR"
               ELSE IF "input_error" \in bad THEN "INPUT_ERROR" ELSE "OK"

Finish(r) == /\ Work(r, "working", "releasing")
             /\ AllDone(r)
             /\ importRun' = [importRun EXCEPT ![r] = "completed"]
             /\ exit' = [exit EXCEPT ![r] = ExitOf(csvBad[r])]
             /\ UNCHANGED <<files, csvBad, todo, tally>>

(* The import of a file or the closing of the run throws: the catch block. *)
WorkThrows(r) == /\ Work(r, "working", "failing")
                 /\ files[r] > 0 \/ AllDone(r)
                 /\ UNCHANGED jobVars

(* Faulty variant: the catch block starts the work again.                  *)
RecordAndRetry(r) == /\ Work(r, "failing", "working")
                     /\ importRun' = [importRun EXCEPT ![r] = "failed"]
                     /\ UNCHANGED <<files, csvBad, todo, tally, exit>>

(* The catch block records the failure, or throws in its turn; either way  *)
(* the finally block follows and the process exits with DB_ERROR.          *)
RecordFailure(r) == /\ Work(r, "failing", "releasing")
                    /\ exit' = [exit EXCEPT ![r] = "DB_ERROR"]
                    /\ \/ importRun' = [importRun EXCEPT ![r] = "failed"]
                       \/ UNCHANGED importRun
                    /\ UNCHANGED <<files, csvBad, todo, tally>>

(* Faulty variant: the release deletes whatever row there is.              *)
ReleaseAnyLock(r) == /\ pc[r] = "releasing"
                     /\ Goto(r, "exited")
                     /\ row' = Lock!Absent
                     /\ UNCHANGED <<clock, asked, lease, jobVars>>

ReleaseLock(r) == /\ pc[r] = "releasing"
                  /\ Goto(r, "exited")
                  /\ Lock!DropRow(r)
                  /\ UNCHANGED jobVars

ReleaseThrows(r) == /\ pc[r] = "releasing"
                    /\ Leave(r, "DB_ERROR")
                    /\ Lock!LeaveTable
                    /\ UNCHANGED <<files, csvBad, todo, tally, importRun>>

(* The process is killed, or the machine stops.                            *)
Crash(r) == /\ pc[r] \in Inside \cup {"asking"}
            /\ Goto(r, "crashed")
            /\ Lock!LeaveTable
            /\ UNCHANGED jobVars

(* Time passes.                                                            *)
Tick == Lock!PassTime /\ UNCHANGED <<pc, jobVars>>

Step(r) == \/ Acquired(r) \/ Rejected(r) \/ EntryThrows(r)
           \/ StartRun(r)
           \/ \E status \in {"completed", "input_error", "db_error"} : CsvFile(r, status)
           \/ SyncCall(r)
           \/ \E o \in Outcome : SyncReturn(r, o)
           \/ Finish(r) \/ WorkThrows(r) \/ RecordFailure(r)
           \/ ReleaseLock(r) \/ ReleaseThrows(r)

Next == \/ Tick
        \/ \E r \in Runs : Begin(r) \/ Step(r) \/ Crash(r)

Spec == Init /\ [][Next]_vars

(* A run that has begun is synchronous code and one await on a provider    *)
(* call that is bounded by a timeout: it keeps moving until it ends or     *)
(* dies.  Time does not stop.  Nothing obliges anybody to begin a run.     *)
Fairness == WF_vars(Tick) /\ \A r \in Runs : WF_vars(Step(r))

FairSpec == Spec /\ Fairness

-----------------------------------------------------------------------------

(* The job uses the lock as jobLock.ts specifies it: every step of a run   *)
(* is one step of the lease lock, or leaves it alone.                      *)
ImplementsLock == Lock!LockSpec

(* Of the runs that are between acquire() and release(), at most one is    *)
(* within its lease: an overlap needs a run that outlived its own lease    *)
(* (dailyUpdateService.ts:105-203 with jobLock.ts:67-90).                  *)
LeaseExclusion == Lock!LeaseExclusion

(* A run within its lease still owns the row: nothing another run does,    *)
(* its late release above all, takes the row away (jobLock.ts:64, 88-90).  *)
ValidLeaseOwnsRow == Lock!ValidLeaseOwnsRow

(* A row is replaced only when it has expired, and removed only by the     *)
(* release of the run whose id it carries (jobLock.ts:74-90).              *)
RowIsStable == Lock!RowIsStable

(* The exit code that the scheduler acts on tells what happened.  OK means *)
(* that every file was imported, every ticker was tried exactly once and   *)
(* has an outcome, the run is on record as completed and the lock is       *)
(* free of it; CONCURRENT means that the run left no trace; and a run      *)
(* whose record is not closed never reports a code that hides it           *)
(* (dailyUpdateService.ts:103-204, cli/dailyUpdate.ts:119-141).            *)
ExitReport ==
  \A r \in Runs : pc[r] = "exited" =>
    /\ exit[r] = "OK" => /\ csvBad[r] = {}
                         /\ tally[r]["attempted"] = NTickers
                         /\ tally[r]["succeeded"] + tally[r]["skipped"] 
                              + tally[r]["failed"] = NTickers
                         /\ importRun[r] = "completed"
                         /\ row.runId # r
    /\ exit[r] = "CONCURRENT" => importRun[r] = "none" /\ row.runId # r
    /\ exit[r] = "INPUT_ERROR" => csvBad[r] = {"input_error"} /\ importRun[r] = "completed"
    /\ importRun[r] \in {"started", "failed"} => exit[r] = "DB_ERROR"

(* A run that has asked for the lock ends: failing files and tickers do    *)
(* not keep the loops from advancing (dailyUpdateService.ts:130-203).      *)
RunEnds == \A r \in Runs : pc[r] = "asking" ~> pc[r] \in Stopped

(* However its holder ended, a lock row stops blocking the next run: it is *)
(* released, or it expires (jobLock.ts:12-15, 76-82).                      *)
LockIsReclaimable ==
  \A r \in Runs : row.runId = r ~> (row.runId # r \/ row.expires <= clock)

(* What the comment on the finally block says: the lock is always released *)
(* when the run ends on its own (dailyUpdateService.ts:201).  It does not  *)
(* hold: importRuns.start() may throw between acquire() and the try block. *)
AlwaysReleased == \A r \in Runs : pc[r] = "exited" => row.runId # r

=============================================================================
