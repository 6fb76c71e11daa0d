------------------------------ MODULE JobLock ------------------------------
(***************************************************************************)
(* The lease lock that keeps the daily update to one run at a time:        *)
(* services/jobLock.ts on the job_locks table of the SQLite database.      *)
(*                                                                         *)
(* There is one lock name in use (daily_stock_update), so the table is the *)
(* single record `row`.  Every call of acquire() draws a fresh run id      *)
(* (randomUUID), so an attempt to acquire is identified with its run id:   *)
(* the members of Runs.  Wall-clock time is the counter `clock`, which all *)
(* processes of the machine share; Horizon bounds it.                      *)
(***************************************************************************)
EXTENDS Naturals

CONSTANTS Runs,     \* run ids, one for each call of acquire()
          NoRun,    \* the absent row
          Ttl,      \* opts.ttlSeconds, in clock units
          Horizon   \* bound on the clock

(* What the theorems ask of the constants; the modules that instantiate    *)
(* this one assume it of theirs.                                           *)
LockConstants == /\ NoRun \notin Runs
                 /\ Ttl \in Nat \ {0}
                 /\ Horizon \in Nat

VARIABLES clock,    \* Date.now()
          row,      \* the row of job_locks
          client,   \* where each attempt stands
          asked,    \* acquiredAt, read before the transaction is opened
          lease     \* expiresAt of the handle that acquire() returned

lockVars == <<clock, row, client, asked, lease>>

ClientState == {"out", "asking", "holding", "done"}
Row == [runId : Runs \cup {NoRun}, expires : Nat]
Absent == [runId |-> NoRun, expires |-> 0]

LockTypeOK == /\ clock \in Nat
              /\ row \in Row
              /\ client \in [Runs -> ClientState]
              /\ asked \in [Runs -> Nat]
              /\ lease \in [Runs -> Nat]

LockInit == /\ clock = 0
            /\ row = Absent
            /\ client = [r \in Runs |-> "out"]
            /\ asked = [r \in Runs |-> 0]
            /\ lease = [r \in Runs |-> 0]

(* The calls, as they act on the clock reading, the row and the handle.    *)

(* acquire() reads the clock first and only then opens its transaction,    *)
(* which may wait for another writer.                                      *)
ReadClock(r) == /\ clock + Ttl <= Horizon
                /\ asked' = [asked EXCEPT ![r] = clock]
                /\ UNCHANGED <<clock, row, lease>>

(* A row blocks the attempt while it expires after the attempt's instant.  *)
Blocked(r) == row.runId # NoRun /\ row.expires > asked[r]

(* Faulty variants, for the sensitivity of the runs: the handle takes its  *)
(* own reading of the clock; the lease is unbounded.                       *)
TakeRowLate(r) == /\ ~Blocked(r)
                  /\ row' = [runId |-> r, expires |-> asked[r] + Ttl]
                  /\ lease' = [lease EXCEPT ![r] = clock + Ttl]
                  /\ UNCHANGED <<clock, asked>>

TakeRowForever(r) == /\ ~Blocked(r)
                     /\ row' = [runId |-> r, expires |-> Horizon + Ttl]
                     /\ lease' = [lease EXCEPT ![r] = Horizon + Ttl]
                     /\ UNCHANGED <<clock, asked>>

(* The upsert of the transaction: an absent or expired row is overwritten. *)
TakeRow(r) == /\ ~Blocked(r)
              /\ row' = [runId |-> r, expires |-> asked[r] + Ttl]
              /\ lease' = [lease EXCEPT ![r] = asked[r] + Ttl]
              /\ UNCHANGED <<clock, asked>>

(* release(): DELETE ... WHERE name = ? AND run_id = ?                     *)
DropRow(r) == /\ row' = IF row.runId = r THEN Absent ELSE row
              /\ UNCHANGED <<clock, asked, lease>>

PassTime == /\ clock < Horizon
            /\ clock' = clock + 1
            /\ UNCHANGED <<row, asked, lease>>

LeaveTable == UNCHANGED <<clock, row, asked, lease>>

-----------------------------------------------------------------------------
(* The attempts, each of which makes its calls in order.                   *)

Move(r, from, to) == client[r] = from /\ client' = [client EXCEPT ![r] = to]

Ask(r) == Move(r, "out", "asking") /\ ReadClock(r)

Grant(r) == Move(r, "asking", "holding") /\ TakeRow(r)

(* acquire() returns null.                                                 *)
Refuse(r) == Move(r, "asking", "done") /\ Blocked(r) /\ LeaveTable

Release(r) == Move(r, "holding", "done") /\ DropRow(r)

(* The attempt ends with its row, if it has one, still in the table: its   *)
(* process died, or a statement of it threw.                               *)
Abandon(r) == /\ Move(r, "asking", "done") \/ Move(r, "holding", "done")
              /\ LeaveTable

Tick == PassTime /\ UNCHANGED client

LockNext == \/ Tick
            \/ \E r \in Runs : \/ Ask(r)
                               \/ Grant(r)
                               \/ Refuse(r)
                               \/ Release(r)
                               \/ Abandon(r)

LockSpec == LockInit /\ [][LockNext]_lockVars

-----------------------------------------------------------------------------

(* r was granted the lock, has not given it back and is within its lease.  *)
HoldsValidLease(r) == client[r] = "holding" /\ lease[r] > clock

(* Two processes never both hold the lock within their leases, whatever    *)
(* the order of their transactions, the waits before them, and the         *)
(* releases of runs that outlived their own lease (jobLock.ts:67-90).      *)
LeaseExclusion == \A r, s \in Runs :
                    HoldsValidLease(r) /\ HoldsValidLease(s) => r = s

(* A run within its lease still owns the row: nothing another run does,    *)
(* its late release above all, takes the row away (jobLock.ts:64, 88-90).  *)
ValidLeaseOwnsRow == \A r \in Runs : 
                       HoldsValidLease(r) => row = [runId |-> r, expires |-> lease[r]]

(* A row is replaced only when it has expired, and removed only by the     *)
(* release of the run whose id it carries (jobLock.ts:74-90).              *)
RowChangesHands ==
  row.runId = NoRun \/ row.expires <= clock \/ (row' = Absent /\ client'[row.runId] = "done")

RowIsStable == [][row' # row => RowChangesHands]_lockVars

=============================================================================
