--------------------------- MODULE DailyJobProofs ---------------------------
(* The daily update for every number of runs, files and tickers.           *)
EXTENDS DailyJob, TLAPS

-----------------------------------------------------------------------------
(* What is known of a run at each point of run().  ExitReport alone is not *)
(* inductive: the code that a run leaves with was settled steps earlier,   *)
(* from counters that have to be followed through the loops.               *)

Outcomes(r) == tally[r]["succeeded"] + tally[r]["skipped"] + tally[r]["failed"]

(* Nothing done yet.                                                       *)
Fresh(r) == /\ files[r] = NFiles /\ csvBad[r] = {} /\ todo[r] = NTickers
            /\ tally[r]["attempted"] = 0 /\ Outcomes(r) = 0
            /\ importRun[r] = "none" /\ exit[r] = "running"

(* Inside the try block, `extra` calls of the sync service being awaited.  *)
Busy(r, extra) == /\ importRun[r] = "started" /\ exit[r] = "running"
                  /\ todo[r] >= extra
                  /\ tally[r]["attempted"] + todo[r] = NTickers + extra
                  /\ Outcomes(r) + todo[r] = NTickers

(* The exit code is settled.                                               *)
Closed(r) == \/ /\ exit[r] = ExitOf(csvBad[r])
                /\ importRun[r] = "completed"
                /\ tally[r]["attempted"] = NTickers
                /\ Outcomes(r) = NTickers
             \/ exit[r] = "DB_ERROR" /\ importRun[r] \in {"started", "failed"}

(* The conjunct of ExitReport for r.                                       *)
Report(r) == /\ exit[r] = "OK" => /\ csvBad[r] = {}
                                  /\ tally[r]["attempted"] = NTickers
                                  /\ Outcomes(r) = NTickers
                                  /\ importRun[r] = "completed"
                                  /\ row.runId # r
             /\ exit[r] = "CONCURRENT" => importRun[r] = "none" /\ row.runId # r
             /\ exit[r] = "INPUT_ERROR" => /\ csvBad[r] = {"input_error"}
                                           /\ importRun[r] = "completed"
             /\ importRun[r] \in {"started", "failed"} => exit[r] = "DB_ERROR"

Phase(r) == /\ pc[r] \in {"idle", "asking"} => Fresh(r) /\ row.runId # r
            /\ pc[r] = "granted" => Fresh(r)
            /\ pc[r] \in {"working", "failing"} => Busy(r, 0)
            /\ pc[r] = "syncing" => Busy(r, 1)
            /\ pc[r] = "releasing" => Closed(r)
            /\ pc[r] = "exited" => Report(r)

JobInv == TypeOK /\ \A r \in Runs : Phase(r)

(* A step of one run leaves the others where they are, and can only take   *)
(* the row from them, never give it to them.                               *)
Aside(s) == /\ pc'[s] = pc[s] /\ files'[s] = files[s] /\ csvBad'[s] = csvBad[s]
            /\ todo'[s] = todo[s] /\ tally'[s] = tally[s]
            /\ importRun'[s] = importRun[s] /\ exit'[s] = exit[s]
            /\ row'.runId = s => row.runId = s

LEMMA AsideKeepsPhase == ASSUME NEW s \in Runs, Phase(s), Aside(s)
                         PROVE  Phase(s)'
BY DEF Aside, Phase, Fresh, Busy, Closed, Report, Outcomes, ExitOf

LEMMA JobInvInit == Init => JobInv
<1> SUFFICES ASSUME Init
             PROVE  JobInv
  OBVIOUS
<1>1. TypeOK
  BY JobConstants DEF Init, TypeOK, Pc, Tally, Outcome, Lock!Row, Lock!Absent
<1>2. \A r \in Runs : tally[r]["attempted"] = 0 /\ Outcomes(r) = 0
  <2>1. \A r \in Runs : tally[r] = [o \in Outcome \cup {"attempted"} |-> 0]
    BY DEF Init
  <2>2. {"succeeded", "skipped", "failed", "attempted"} \subseteq Outcome \cup {"attempted"}
    BY DEF Outcome
  <2>3. \A r \in Runs : /\ tally[r]["succeeded"] = 0 /\ tally[r]["skipped"] = 0
                        /\ tally[r]["failed"] = 0 /\ tally[r]["attempted"] = 0
    BY <2>1, <2>2
  <2>4. ASSUME NEW r \in Runs
        PROVE  Outcomes(r) = 0 + 0 + 0
    BY <2>3, Zenon DEF Outcomes
  <2>5. 0 + 0 + 0 = 0
    OBVIOUS
  <2> QED
    BY <2>3, <2>4, <2>5, Zenon
<1>3. \A r \in Runs : Fresh(r)
  BY <1>2 DEF Init, Fresh
<1>4. \A r \in Runs : Phase(r)
  BY <1>3, JobConstants DEF Init, Phase, Lock!Absent
<1> QED
  BY <1>1, <1>4 DEF JobInv

LEMMA JobInvStep == JobInv /\ [Next]_vars => JobInv'
<1> SUFFICES ASSUME JobInv, [Next]_vars
             PROVE  JobInv'
  OBVIOUS
<1> USE JobConstants DEF JobInv, TypeOK, Pc, Inside, Stopped, ExitCode, Lock!Row,
                         Lock!Absent, Goto, Leave, Work, jobVars, Lock!LeaveTable
<1>a. ASSUME NEW r \in Runs, \A s \in Runs \ {r} : Aside(s), Phase(r)'
      PROVE  \A s \in Runs : Phase(s)'
  BY <1>a, AsideKeepsPhase
<1>1. CASE Tick
  <2>1. TypeOK'
    BY <1>1 DEF Tick, Lock!PassTime
  <2>2. \A s \in Runs : Aside(s)
    BY <1>1 DEF Tick, Lock!PassTime, Aside
  <2> QED
    BY <2>1, <2>2, AsideKeepsPhase
<1>2. ASSUME NEW r \in Runs, Begin(r)
       PROVE  JobInv'
  <2>1. TypeOK'
    BY <1>2 DEF Begin, Lock!ReadClock
  <2>2. \A s \in Runs \ {r} : Aside(s)
    BY <1>2 DEF Begin, Lock!ReadClock, Aside
  <2>3. Phase(r)'
    BY <1>2 DEF Begin, Lock!ReadClock, Phase, Fresh, Busy, Closed, Report, Outcomes, ExitOf
  <2> QED
    BY <1>a, <2>1, <2>2, <2>3
<1>3. ASSUME NEW r \in Runs, Acquired(r)
       PROVE  JobInv'
  <2>1. TypeOK'
    BY <1>3 DEF Acquired, Lock!TakeRow
  <2>2. \A s \in Runs \ {r} : Aside(s)
    BY <1>3 DEF Acquired, Lock!TakeRow, Aside
  <2>3. Phase(r)'
    BY <1>3 DEF Acquired, Lock!TakeRow, Phase, Fresh, Busy, Closed, Report, Outcomes, ExitOf
  <2> QED
    BY <1>a, <2>1, <2>2, <2>3
<1>4. ASSUME NEW r \in Runs, Rejected(r)
       PROVE  JobInv'
  <2>1. TypeOK'
    BY <1>4 DEF Rejected, Lock!Blocked
  <2>2. \A s \in Runs \ {r} : Aside(s)
    BY <1>4 DEF Rejected, Lock!Blocked, Aside
  <2>3. Phase(r)'
    BY <1>4 DEF Rejected, Lock!Blocked, Phase, Fresh, Busy, Closed, Report, Outcomes, ExitOf
  <2> QED
    BY <1>a, <2>1, <2>2, <2>3
<1>5. ASSUME NEW r \in Runs, EntryThrows(r)
       PROVE  JobInv'
  <2>1. TypeOK'
    BY <1>5 DEF EntryThrows
  <2>2. \A s \in Runs \ {r} : Aside(s)
    BY <1>5 DEF EntryThrows, Aside
  <2>3. Phase(r)'
    BY <1>5 DEF EntryThrows, Phase, Fresh, Busy, Closed, Report, Outcomes, ExitOf
  <2> QED
    BY <1>a, <2>1, <2>2, <2>3
<1>6. ASSUME NEW r \in Runs, StartRun(r)
       PROVE  JobInv'
  <2>1. TypeOK'
    BY <1>6 DEF StartRun
  <2>2. \A s \in Runs \ {r} : Aside(s)
    BY <1>6 DEF StartRun, Aside
  <2>3. Phase(r)'
    BY <1>6 DEF StartRun, Phase, Fresh, Busy, Closed, Report, Outcomes, ExitOf
  <2> QED
    BY <1>a, <2>1, <2>2, <2>3
<1>7. ASSUME NEW r \in Runs, NEW status \in {"completed", "input_error", "db_error"}, CsvFile(r, status)
       PROVE  JobInv'
  <2>1. TypeOK'
    BY <1>7 DEF CsvFile
  <2>2. \A s \in Runs \ {r} : Aside(s)
    BY <1>7 DEF CsvFile, Aside
  <2>3. Phase(r)'
    BY <1>7 DEF CsvFile, Phase, Fresh, Busy, Closed, Report, Outcomes, ExitOf
  <2> QED
    BY <1>a, <2>1, <2>2, <2>3
<1>8. ASSUME NEW r \in Runs, SyncCall(r)
       PROVE  JobInv'
  <2>1. TypeOK'
    BY <1>8 DEF SyncCall, Tally, Outcome
  <2>2. \A s \in Runs \ {r} : Aside(s)
    BY <1>8 DEF SyncCall, Tally, Outcome, Aside
  <2>3. tally'[r]["attempted"] = tally[r]["attempted"] + 1 /\ Outcomes(r)' = Outcomes(r)
    BY <1>8 DEF SyncCall, Tally, Outcome, Outcomes
  <2>4. tally[r]["attempted"] \in Nat /\ Outcomes(r) \in Nat
    BY DEF Tally, Outcome, Outcomes
  <2>5. Phase(r)'
    BY <1>8, <2>3, <2>4 DEF SyncCall, Phase, Busy
  <2> QED
    BY <1>a, <2>1, <2>2, <2>5
<1>9. ASSUME NEW r \in Runs, NEW o \in Outcome, SyncReturn(r, o)
       PROVE  JobInv'
  <2>1. TypeOK'
    BY <1>9 DEF SyncReturn, Tally, Outcome, Phase, Busy
  <2>2. \A s \in Runs \ {r} : Aside(s)
    BY <1>9 DEF SyncReturn, Tally, Outcome, Aside
  <2>3. /\ tally'[r]["attempted"] = tally[r]["attempted"]
        /\ Outcomes(r)' = Outcomes(r) + 1
    BY <1>9 DEF SyncReturn, Tally, Outcome, Outcomes
  <2>4. tally[r]["attempted"] \in Nat /\ Outcomes(r) \in Nat
    BY DEF Tally, Outcome, Outcomes
  <2>5. Phase(r)'
    BY <1>9, <2>3, <2>4 DEF SyncReturn, Phase, Busy
  <2> QED
    BY <1>a, <2>1, <2>2, <2>5
<1>10. ASSUME NEW r \in Runs, Finish(r)
        PROVE  JobInv'
  <2>1. TypeOK'
    BY <1>10 DEF Finish, AllDone, ExitOf
  <2>2. \A s \in Runs \ {r} : Aside(s)
    BY <1>10 DEF Finish, AllDone, Aside
  <2>3. tally[r]["attempted"] \in Nat /\ Outcomes(r) \in Nat
    BY DEF Tally, Outcome, Outcomes
  <2>4. tally[r]["attempted"] = NTickers /\ Outcomes(r) = NTickers
    BY <1>10, <2>3 DEF Finish, AllDone, Phase, Busy
  <2>5. Outcomes(r)' = Outcomes(r)
    BY <1>10 DEF Finish, Outcomes
  <2>6. Phase(r)'
    BY <1>10, <2>4, <2>5 DEF Finish, Phase, Closed, ExitOf
  <2> QED
    BY <1>a, <2>1, <2>2, <2>6
<1>11. ASSUME NEW r \in Runs, WorkThrows(r)
        PROVE  JobInv'
  <2>1. TypeOK'
    BY <1>11 DEF WorkThrows, AllDone
  <2>2. \A s \in Runs \ {r} : Aside(s)
    BY <1>11 DEF WorkThrows, AllDone, Aside
  <2>3. Phase(r)'
    BY <1>11 DEF WorkThrows, AllDone, Phase, Fresh, Busy, Closed, Report, Outcomes, ExitOf
  <2> QED
    BY <1>a, <2>1, <2>2, <2>3
<1>12. ASSUME NEW r \in Runs, RecordFailure(r)
        PROVE  JobInv'
  <2>1. TypeOK'
    BY <1>12 DEF RecordFailure
  <2>2. \A s \in Runs \ {r} : Aside(s)
    BY <1>12 DEF RecordFailure, Aside
  <2>3. Phase(r)'
    BY <1>12 DEF RecordFailure, Phase, Fresh, Busy, Closed, Report, Outcomes, ExitOf
  <2> QED
    BY <1>a, <2>1, <2>2, <2>3
<1>13. ASSUME NEW r \in Runs, ReleaseLock(r)
        PROVE  JobInv'
  <2>1. TypeOK'
    BY <1>13 DEF ReleaseLock, Lock!DropRow
  <2>2. \A s \in Runs \ {r} : Aside(s)
    BY <1>13 DEF ReleaseLock, Lock!DropRow, Aside
  <2>3. Phase(r)'
    BY <1>13 DEF ReleaseLock, Lock!DropRow, Phase, Fresh, Busy, Closed, Report, Outcomes, ExitOf
  <2> QED
    BY <1>a, <2>1, <2>2, <2>3
<1>14. ASSUME NEW r \in Runs, ReleaseThrows(r)
        PROVE  JobInv'
  <2>1. TypeOK'
    BY <1>14 DEF ReleaseThrows
  <2>2. \A s \in Runs \ {r} : Aside(s)
    BY <1>14 DEF ReleaseThrows, Aside
  <2>3. Phase(r)'
    BY <1>14 DEF ReleaseThrows, Phase, Fresh, Busy, Closed, Report, Outcomes, ExitOf
  <2> QED
    BY <1>a, <2>1, <2>2, <2>3
<1>15. ASSUME NEW r \in Runs, Crash(r)
        PROVE  JobInv'
  <2>1. TypeOK'
    BY <1>15 DEF Crash
  <2>2. \A s \in Runs \ {r} : Aside(s)
    BY <1>15 DEF Crash, Aside
  <2>3. Phase(r)'
    BY <1>15 DEF Crash, Phase, Fresh, Busy, Closed, Report, Outcomes, ExitOf
  <2> QED
    BY <1>a, <2>1, <2>2, <2>3
<1>16. CASE UNCHANGED vars
  <2>1. TypeOK'
    BY <1>16 DEF vars
  <2>2. \A s \in Runs : Aside(s)
    BY <1>16 DEF vars, Aside
  <2> QED
    BY <2>1, <2>2, AsideKeepsPhase
<1> QED
  BY <1>1, <1>2, <1>3, <1>4, <1>5, <1>6, <1>7, <1>8, <1>9, <1>10, <1>11, <1>12, <1>13, <1>14, <1>15, <1>16 DEF Next, Step


LEMMA JobInvariant == Spec => []JobInv
BY JobInvInit, JobInvStep, PTL DEF Spec

(* Every variable of the job has its type in every reachable state.        *)
THEOREM JobTyping == Spec => []TypeOK
<1>1. JobInv => TypeOK
  BY DEF JobInv
<1> QED
  BY <1>1, JobInvariant, PTL

(* The exit code tells what happened, for any number of overlapping runs,  *)
(* files and tickers (dailyUpdateService.ts:103-204).                      *)
THEOREM ExitReportHolds == Spec => []ExitReport
<1>1. JobInv => ExitReport
  BY DEF JobInv, Phase, Report, Outcomes, ExitReport
<1> QED
  BY <1>1, JobInvariant, PTL

-----------------------------------------------------------------------------
(* The lease lock that the job uses: what holds of every behaviour of      *)
(* LockSpec, for every set of runs, positive lease length and clock bound. *)

LEMMA LockHasConstants == Lock!LockConstants
BY JobConstants DEF Lock!LockConstants

(* An attempt reads the clock before its transaction, never after it.      *)
AskedInThePast == \A r \in Runs : Client[r] = "asking" => asked[r] <= clock

(* The inductive invariant: LeaseExclusion says nothing of the row, and it *)
(* is the row that the next transaction decides by.                        *)
LockInv == Lock!LockTypeOK /\ AskedInThePast /\ Lock!ValidLeaseOwnsRow

LEMMA LockInvInit == Lock!LockInit => LockInv
BY LockHasConstants DEF Lock!LockConstants, Lock!LockInit, LockInv, Lock!LockTypeOK,
   AskedInThePast, Lock!ValidLeaseOwnsRow, Lock!HoldsValidLease, Lock!ClientState,
   Lock!Row, Lock!Absent

(* The state predicates are preserved by every step of every attempt.      *)
LEMMA LockInvStep == LockInv /\ [Lock!LockNext]_(Lock!lockVars) => LockInv'
<1> SUFFICES ASSUME LockInv, [Lock!LockNext]_(Lock!lockVars)
             PROVE  LockInv'
  OBVIOUS
<1> USE LockHasConstants DEF Lock!LockConstants, LockInv, Lock!LockTypeOK, AskedInThePast,
        Lock!ValidLeaseOwnsRow, Lock!HoldsValidLease, Lock!ClientState, Lock!Row
<1>1. CASE Lock!Tick
  BY <1>1 DEF Lock!Tick, Lock!PassTime
<1>2. ASSUME NEW r \in Runs, Lock!Ask(r)
      PROVE  LockInv'
  BY <1>2 DEF Lock!Ask, Lock!Move, Lock!ReadClock
<1>3. ASSUME NEW r \in Runs, Lock!Grant(r)
      PROVE  LockInv'
  <2>1. row.runId = NoRun \/ row.expires <= clock
    BY <1>3 DEF Lock!Grant, Lock!Move, Lock!TakeRow, Lock!Blocked
  <2>2. \A s \in Runs : ~Lock!HoldsValidLease(s)
    BY <2>1
  <2>3. Lock!LockTypeOK'
    BY <1>3 DEF Lock!Grant, Lock!Move, Lock!TakeRow
  <2>4. AskedInThePast'
    BY <1>3 DEF Lock!Grant, Lock!Move, Lock!TakeRow
  <2>5. Lock!ValidLeaseOwnsRow'
    BY <1>3, <2>2 DEF Lock!Grant, Lock!Move, Lock!TakeRow
  <2> QED
    BY <2>3, <2>4, <2>5
<1>4. ASSUME NEW r \in Runs, Lock!Refuse(r)
      PROVE  LockInv'
  BY <1>4 DEF Lock!Refuse, Lock!Move, Lock!LeaveTable
<1>5. ASSUME NEW r \in Runs, Lock!Release(r)
      PROVE  LockInv'
  BY <1>5 DEF Lock!Release, Lock!Move, Lock!DropRow, Lock!Absent
<1>6. ASSUME NEW r \in Runs, Lock!Abandon(r)
      PROVE  LockInv'
  BY <1>6 DEF Lock!Abandon, Lock!Move, Lock!LeaveTable
<1>7. CASE UNCHANGED Lock!lockVars
  BY <1>7 DEF Lock!lockVars
<1> QED
  BY <1>1, <1>2, <1>3, <1>4, <1>5, <1>6, <1>7 DEF Lock!LockNext

(* The variables of the lock have their types in every reachable state.    *)
THEOREM LockTyping == Lock!LockSpec => []Lock!LockTypeOK
<1>1. LockInv => Lock!LockTypeOK
  BY DEF LockInv
<1> QED
  BY <1>1, LockInvInit, LockInvStep, PTL DEF Lock!LockSpec

(* A run within its lease owns the row: no grant, refusal, late release,   *)
(* crash or passage of time takes it away (jobLock.ts:67-90).              *)
THEOREM LeaseOwnership == Lock!LockSpec => []Lock!ValidLeaseOwnsRow
<1>1. LockInv => Lock!ValidLeaseOwnsRow
  BY DEF LockInv
<1> QED
  BY <1>1, LockInvInit, LockInvStep, PTL DEF Lock!LockSpec

(* Two runs are never both within their leases (jobLock.ts:8-10).          *)
THEOREM LeaseMutualExclusion == Lock!LockSpec => []Lock!LeaseExclusion
<1>1. LockInv => Lock!LeaseExclusion
  BY DEF LockInv, Lock!ValidLeaseOwnsRow, Lock!LeaseExclusion
<1> QED
  BY <1>1, LockInvInit, LockInvStep, PTL DEF Lock!LockSpec

(* A row that has not expired is removed only by the release of the run    *)
(* whose id it carries, and overwritten by nobody (jobLock.ts:74-90).      *)
THEOREM RowStability == Lock!LockSpec => Lock!RowIsStable
<1>1. LockInv /\ [Lock!LockNext]_(Lock!lockVars) => [row' # row => Lock!RowChangesHands]_(Lock!lockVars)
  <2> SUFFICES ASSUME LockInv, Lock!LockNext, row' # row
               PROVE  Lock!RowChangesHands
    OBVIOUS
  <2>1. PICK r \in Runs : Lock!Grant(r) \/ Lock!Release(r)
    BY DEF Lock!LockNext, Lock!Tick, Lock!PassTime, Lock!Ask, Lock!ReadClock, Lock!Refuse, Lock!Abandon, Lock!LeaveTable
  <2>2. CASE Lock!Grant(r)
    BY <2>2 DEF Lock!Grant, Lock!Move, Lock!TakeRow, Lock!Blocked, Lock!RowChangesHands, LockInv, Lock!LockTypeOK,
                AskedInThePast, Lock!Row
  <2>3. CASE Lock!Release(r)
    BY <2>3 DEF Lock!Release, Lock!Move, Lock!DropRow, Lock!RowChangesHands, LockInv, Lock!LockTypeOK
  <2> QED
    BY <2>1, <2>2, <2>3
<1> QED
  BY <1>1, LockInvInit, LockInvStep, PTL DEF Lock!LockSpec, Lock!RowIsStable

-----------------------------------------------------------------------------
(* The job implements the lock.                                            *)

LEMMA ClientOfPc ==
  /\ ClientOf("idle") = "out"
  /\ ClientOf("asking") = "asking"
  /\ \A p \in Inside : ClientOf(p) = "holding"
  /\ \A p \in Stopped : ClientOf(p) = "done"
BY DEF ClientOf, Inside, Stopped

(* A run that goes to another point moves its client and no other.         *)
LEMMA ClientMoves == ASSUME TypeOK, NEW r \in Runs, NEW p \in Pc, Goto(r, p)
                     PROVE  Client' = [Client EXCEPT ![r] = ClientOf(p)]
BY DEF TypeOK, Goto, Client

LEMMA LockInitial == Init => Lock!LockInit
BY ClientOfPc DEF Init, Lock!LockInit, Client

LEMMA LockStep == TypeOK /\ [Next]_vars => [Lock!LockNext]_(Lock!lockVars)
<1> SUFFICES ASSUME TypeOK, [Next]_vars
             PROVE  Lock!LockNext \/ UNCHANGED Lock!lockVars
  OBVIOUS
<1> USE DEF Leave, Work, Lock!LeaveTable
<1>0. ASSUME NEW r \in Runs, NEW p \in Pc, NEW q \in Pc, pc[r] = p, Goto(r, q)
      PROVE  Lock!Move(r, ClientOf(p), ClientOf(q))
  <2>1. Client[r] = ClientOf(p)
    BY <1>0 DEF Client
  <2> QED
    BY <1>0, <2>1, ClientMoves DEF Lock!Move
<1>1. CASE Tick
  BY <1>1 DEF Tick, Lock!LockNext, Lock!Tick, Client
<1>2. ASSUME NEW r \in Runs, Begin(r)
      PROVE  Lock!Ask(r)
  BY <1>0, <1>2, ClientOfPc DEF Begin, Lock!Ask, Pc
<1>3. ASSUME NEW r \in Runs, Acquired(r)
      PROVE  Lock!Grant(r)
  BY <1>0, <1>3, ClientOfPc DEF Acquired, Lock!Grant, Pc, Inside
<1>4. ASSUME NEW r \in Runs, Rejected(r)
      PROVE  Lock!Refuse(r)
  BY <1>0, <1>4, ClientOfPc DEF Rejected, Lock!Refuse, Pc, Stopped
<1>5. ASSUME NEW r \in Runs, EntryThrows(r) \/ ReleaseThrows(r) \/ Crash(r)
      PROVE  Lock!Abandon(r)
  <2>1. PICK p \in Inside \cup {"asking"}, q \in Stopped : pc[r] = p /\ Goto(r, q)
    BY <1>5 DEF EntryThrows, ReleaseThrows, Crash, Inside, Stopped
  <2>2. Lock!Move(r, ClientOf(p), "done")
    BY <1>0, <2>1, ClientOfPc DEF Pc
  <2> QED
    BY <1>5, <2>2, ClientOfPc DEF EntryThrows, ReleaseThrows, Crash, Lock!Abandon
<1>6. ASSUME NEW r \in Runs, ReleaseLock(r)
      PROVE  Lock!Release(r)
  BY <1>0, <1>6, ClientOfPc DEF ReleaseLock, Lock!Release, Pc, Inside, Stopped
<1>7. ASSUME NEW r \in Runs, NEW from \in Inside, NEW to \in Inside, Work(r, from, to)
      PROVE  UNCHANGED Lock!lockVars
  <2>1. Client' = [Client EXCEPT ![r] = "holding"]
    <3>1. to \in Pc /\ ClientOf(to) = "holding"
      BY ClientOfPc DEF Pc
    <3>2. Goto(r, to)
      BY <1>7
    <3> QED
      BY <3>1, <3>2, ClientMoves
  <2>2. Client[r] = "holding"
    BY <1>7, ClientOfPc DEF Client
  <2>3. Client' = Client
    BY <2>1, <2>2 DEF Client
  <2> QED
    BY <1>7, <2>3 DEF Lock!lockVars
<1>8. ASSUME NEW r \in Runs, \/ StartRun(r) \/ SyncCall(r) \/ Finish(r) \/ WorkThrows(r)
                             \/ RecordFailure(r)
                             \/ \E status \in {"completed", "input_error", "db_error"} :
                                   CsvFile(r, status)
                             \/ \E o \in Outcome : SyncReturn(r, o)
      PROVE  UNCHANGED Lock!lockVars
  <2>1. \E from, to \in Inside : Work(r, from, to)
    BY <1>8 DEF StartRun, SyncCall, Finish, WorkThrows, RecordFailure, CsvFile, SyncReturn,
                Inside
  <2> QED
    BY <1>7, <2>1
<1>9. CASE UNCHANGED vars
  BY <1>9 DEF vars, Lock!lockVars, Client
<1> QED
  BY <1>1, <1>2, <1>3, <1>4, <1>5, <1>6, <1>8, <1>9 DEF Next, Step, Lock!LockNext

(* Every behaviour of the daily update, seen from the lock table, is one   *)
(* of the lease lock (dailyUpdateService.ts:105, 202).                     *)
THEOREM JobImplementsLock == Spec => ImplementsLock
BY LockInitial, LockStep, JobTyping, PTL DEF Spec, ImplementsLock, Lock!LockSpec

(* Hence overlapping runs are never both within their leases ...           *)
THEOREM JobLeaseExclusion == Spec => []LeaseExclusion
BY JobImplementsLock, LeaseMutualExclusion, PTL DEF ImplementsLock, LeaseExclusion

(* ... a run within its lease owns the row ...                             *)
THEOREM JobLeaseOwnership == Spec => []ValidLeaseOwnsRow
BY JobImplementsLock, LeaseOwnership, PTL DEF ImplementsLock, ValidLeaseOwnsRow

(* ... and the row changes only when it has expired or its owner releases. *)
THEOREM JobRowStability == Spec => RowIsStable
BY JobImplementsLock, RowStability, PTL DEF ImplementsLock, RowIsStable

=============================================================================
