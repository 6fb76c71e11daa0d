-------------------------- MODULE CsvImportProofs --------------------------
(* The import of CSV files for every number of processes, files and rows.  *)
EXTENDS CsvImport, TLAPS

InFile == {"parse", "begin", "write", "close", "reject", "catch"}

(* A process works on a file whose run it has started and not yet closed.  *)
RunIsOpen ==
  \A p \in Procs : pc[p] \in InFile =>
    /\ file[p] \in Files
    /\ run[Current(p)] = "started" /\ outcome[Current(p)] = "none"

(* Where a process stands tells whether its file is stored.                *)
StoredAtCommit ==
  \A p \in Procs :
    /\ pc[p] \in {"parse", "begin", "write", "reject"} => Current(p) \notin stored
    /\ pc[p] = "close" => Current(p) \in stored

Counted == \A p \in Procs : pc[p] = "write" => depth[p] >= 1

Overlay(b, f, rows) == [r \in Rows |-> IF r \in rows THEN f ELSE b[r]]

(* What the holder of the write lock sees is the committed table with the  *)
(* rows it has written so far.                                             *)
DraftIsOverlay ==
  \A p \in Procs : pc[p] = "write" =>
    /\ pending[p] \subseteq RowsOf[file[p]]
    /\ draft = Overlay(bars, file[p], RowsOf[file[p]] \ pending[p])

CsvInv == /\ TypeOK /\ RunIsOpen /\ StoredAtCommit /\ Counted /\ DraftIsOverlay
          /\ LockIsGivenBack /\ ReportIsTrue

LEMMA CsvInit == Init => CsvInv
BY ImportConstants
   DEF Init, CsvInv, TypeOK, RunIsOpen, StoredAtCommit, Counted, DraftIsOverlay,
       LockIsGivenBack, ReportIsTrue, At, InFile, Pc, Outcome

-----------------------------------------------------------------------------

(* Steps that only move a process, outside its transaction.                *)
LEMMA MoveKeeps ==
  ASSUME CsvInv, NEW p \in Procs, NEW point \in Pc, Goto(p, point),
         pc[p] # "write", point # "write",
         point \in InFile => pc[p] \in InFile,
         point \in {"begin", "reject"} => pc[p] = "parse",
         point \notin {"parse", "close"},
         depth' \in [Procs -> Nat], \A q \in Procs \ {p} : depth'[q] = depth[q],
         UNCHANGED <<bars, lock, draft, file, pending, run, outcome, stored>>
  PROVE  CsvInv'
<1>1. pc' \in [Procs -> Pc] /\ pc'[p] = point /\ \A q \in Procs \ {p} : pc'[q] = pc[q]
  BY DEF Goto, CsvInv, TypeOK
<1>2. TypeOK'
  BY <1>1 DEF CsvInv, TypeOK
<1>3. RunIsOpen'
  BY <1>1 DEF CsvInv, RunIsOpen, Current
<1>4. StoredAtCommit'
  BY <1>1 DEF CsvInv, StoredAtCommit, Current
<1>5. Counted' /\ DraftIsOverlay' /\ LockIsGivenBack'
  BY <1>1 DEF CsvInv, Counted, DraftIsOverlay, LockIsGivenBack, At, Overlay
<1>6. ReportIsTrue'
  BY DEF CsvInv, ReportIsTrue
<1> QED
  BY <1>2, <1>3, <1>4, <1>5, <1>6 DEF CsvInv

LEMMA ThrowKeeps == ASSUME CsvInv, NEW p \in Procs, pc[p] # "write", Throw(p)
                    PROVE  CsvInv'
<1>1. "end" \in Pc /\ depth' = depth
  BY DEF Throw, Pc
<1> QED
  BY <1>1, MoveKeeps DEF Throw, InFile, CsvInv, TypeOK

LEMMA MovesKeep ==
  ASSUME CsvInv, NEW p \in Procs,
         \/ Finished(p) \/ Parse(p) \/ BookkeepingThrows(p) \/ RefuseNested(p)
         \/ BeginThrows(p) \/ CompleteThrows(p)
  PROVE  CsvInv'
<1>1. CASE BookkeepingThrows(p)
  BY <1>1, ThrowKeeps DEF BookkeepingThrows, At
<1>2. {"end", "begin", "reject", "catch"} \subseteq Pc
  BY DEF Pc
<1>3. CASE BeginThrows(p)
  <2>1. depth' \in [Procs -> Nat] /\ \A q \in Procs \ {p} : depth'[q] = depth[q]
    BY <1>3 DEF BeginThrows, CsvInv, TypeOK
  <2> QED
    BY <1>2, <1>3, <2>1, MoveKeeps DEF BeginThrows, At, InFile
<1>4. CASE Finished(p) \/ Parse(p) \/ RefuseNested(p) \/ CompleteThrows(p)
  BY <1>2, <1>4, MoveKeeps
     DEF Finished, Parse, RefuseNested, CompleteThrows, At, InFile, CsvInv, TypeOK
<1> QED
  BY <1>1, <1>3, <1>4

LEMMA StartRunKeeps == ASSUME CsvInv, NEW p \in Procs, NEW f \in Files, StartRun(p, f)
                       PROVE  CsvInv'
<1>1. /\ pc[p] = "next" /\ run[<<p, f>>] = "none" /\ <<p, f>> \in Import
      /\ outcome[<<p, f>>] = "none" /\ <<p, f>> \notin stored
  BY DEF StartRun, At, Import, CsvInv, ReportIsTrue, TypeOK, Outcome
<1>2. /\ pc' = [pc EXCEPT ![p] = "parse"] /\ file' = [file EXCEPT ![p] = f]
      /\ run' = [run EXCEPT ![<<p, f>>] = "started"]
      /\ UNCHANGED <<bars, lock, draft, depth, pending, outcome, stored>>
  BY DEF StartRun, Goto
<1>3. TypeOK'
  BY <1>1, <1>2 DEF CsvInv, TypeOK, Pc
<1>4. \A q \in Procs \ {p} : /\ pc'[q] = pc[q] /\ file'[q] = file[q]
                             /\ Current(q)' = Current(q) /\ Current(q) # <<p, f>>
  BY <1>2 DEF CsvInv, TypeOK, Current
<1>5. pc'[p] = "parse" /\ file'[p] = f /\ Current(p)' = <<p, f>>
  BY <1>2 DEF CsvInv, TypeOK, Current
<1>6. /\ run'[<<p, f>>] = "started"
      /\ \A i \in Import \ {<<p, f>>} : run'[i] = run[i]
  BY <1>1, <1>2 DEF CsvInv, TypeOK
<1>7. \A q \in Procs : pc[q] \in InFile => Current(q) \in Import
  BY DEF CsvInv, RunIsOpen, Current, Import
<1>8. RunIsOpen'
  BY <1>1, <1>2, <1>4, <1>5, <1>6, <1>7 DEF CsvInv, RunIsOpen
<1>9. StoredAtCommit'
  BY <1>1, <1>2, <1>4, <1>5 DEF CsvInv, StoredAtCommit
<1>10. Counted' /\ LockIsGivenBack' /\ DraftIsOverlay'
  BY <1>1, <1>2, <1>4, <1>5
     DEF CsvInv, Counted, LockIsGivenBack, DraftIsOverlay, At, Overlay
<1>11. ReportIsTrue'
  BY <1>1, <1>2, <1>6 DEF CsvInv, ReportIsTrue
<1> QED
  BY <1>3, <1>8, <1>9, <1>10, <1>11 DEF CsvInv

LEMMA CloseKeeps ==
  ASSUME CsvInv, NEW p \in Procs, Reject(p) \/ Complete(p) \/ RecordFailure(p)
  PROVE  CsvInv'
<1>1. PICK status \in {"completed", "failed"}, result \in Outcome :
        /\ run' = [run EXCEPT ![Current(p)] = status]
        /\ outcome' = [outcome EXCEPT ![Current(p)] = result]
        /\ \/ pc[p] = "reject" /\ status = "failed" /\ result = "input_error"
           \/ pc[p] = "close" /\ status = "completed" /\ result = "completed"
           \/ pc[p] = "catch" /\ status = "failed" /\ result = "db_error"
  BY DEF Reject, Complete, RecordFailure, Close, At, Outcome
<1>2. /\ pc' = [pc EXCEPT ![p] = "next"]
      /\ UNCHANGED <<bars, lock, draft, depth, file, pending, stored>>
  BY DEF Reject, Complete, RecordFailure, Close, Goto
<1>3. Current(p) \in Import
  BY <1>1 DEF CsvInv, RunIsOpen, InFile, Current, Import
<1>4. TypeOK'
  BY <1>1, <1>2, <1>3 DEF CsvInv, TypeOK, Pc
<1>5. pc'[p] = "next" /\ \A q \in Procs \ {p} : pc'[q] = pc[q] /\ Current(q) # Current(p)
  BY <1>2 DEF CsvInv, TypeOK, Current
<1>6. /\ run'[Current(p)] = status /\ outcome'[Current(p)] = result
      /\ \A i \in Import \ {Current(p)} : run'[i] = run[i] /\ outcome'[i] = outcome[i]
  BY <1>1, <1>3 DEF CsvInv, TypeOK
<1>7. \A q \in Procs : Current(q)' = Current(q) /\ (pc[q] \in InFile => Current(q) \in Import)
  BY <1>2 DEF CsvInv, RunIsOpen, Current, Import
<1>8. RunIsOpen'
  BY <1>2, <1>5, <1>6, <1>7 DEF CsvInv, RunIsOpen, InFile
<1>9. StoredAtCommit' /\ Counted' /\ LockIsGivenBack' /\ DraftIsOverlay'
  BY <1>1, <1>2, <1>5, <1>7
     DEF CsvInv, StoredAtCommit, Counted, LockIsGivenBack, DraftIsOverlay, At, Overlay
<1>10. \/ result = "input_error" /\ Current(p) \notin stored
       \/ result = "completed" /\ Current(p) \in stored
       \/ result = "db_error"
  BY <1>1 DEF CsvInv, StoredAtCommit
<1>11. ReportIsTrue'
  BY <1>1, <1>2, <1>3, <1>6, <1>10 DEF CsvInv, ReportIsTrue
<1> QED
  BY <1>4, <1>8, <1>9, <1>11 DEF CsvInv

LEMMA BeginKeeps == ASSUME CsvInv, NEW p \in Procs, Begin(p) PROVE CsvInv'
<1>1. /\ pc[p] = "begin" /\ depth[p] = 0 /\ lock = Nobody /\ p # Nobody
      /\ depth' = [depth EXCEPT ![p] = @ + 1]
      /\ lock' = p /\ draft' = bars
      /\ pending' = [pending EXCEPT ![p] = RowsOf[file[p]]]
      /\ pc' = [pc EXCEPT ![p] = "write"]
      /\ UNCHANGED <<bars, file, run, outcome, stored>>
  BY ImportConstants DEF Begin, At, Goto
<1>2. file[p] \in Files /\ RowsOf[file[p]] \in SUBSET Rows
  BY <1>1, ImportConstants DEF CsvInv, RunIsOpen, InFile
<1>3. TypeOK'
  BY <1>1, <1>2 DEF CsvInv, TypeOK, Pc
<1>4. pc'[p] = "write" /\ \A q \in Procs \ {p} : pc'[q] = pc[q] /\ pc[q] # "write"
  BY <1>1, ImportConstants DEF CsvInv, TypeOK, LockIsGivenBack, At
<1>5. RunIsOpen' /\ StoredAtCommit'
  BY <1>1, <1>4 DEF CsvInv, RunIsOpen, StoredAtCommit, InFile, Current
<1>6. Counted' /\ LockIsGivenBack'
  BY <1>1, <1>4 DEF CsvInv, TypeOK, Counted, LockIsGivenBack, At
<1>7. DraftIsOverlay'
  <2>1. pending'[p] = RowsOf[file[p]]
    BY <1>1 DEF CsvInv, TypeOK
  <2>2. bars = Overlay(bars, file[p], {})
    BY DEF CsvInv, TypeOK, Overlay
  <2>3. RowsOf[file[p]] \ RowsOf[file[p]] = {}
    OBVIOUS
  <2> QED
    BY <1>1, <1>4, <2>1, <2>2, <2>3 DEF DraftIsOverlay, Overlay
<1>8. ReportIsTrue'
  BY <1>1 DEF CsvInv, ReportIsTrue
<1> QED
  BY <1>3, <1>5, <1>6, <1>7, <1>8 DEF CsvInv

LEMMA UpsertBarKeeps == ASSUME CsvInv, NEW p \in Procs, NEW r \in Rows, UpsertBar(p, r)
                        PROVE  CsvInv'
<1>1. /\ pc[p] = "write" /\ r \in pending[p]
      /\ draft' = [draft EXCEPT ![r] = file[p]]
      /\ pending' = [pending EXCEPT ![p] = @ \ {r}]
      /\ UNCHANGED <<bars, lock, depth, pc, file, run, outcome, stored>>
  BY DEF UpsertBar, At
<1>2. file[p] \in Files
  BY <1>1 DEF CsvInv, RunIsOpen, InFile
<1>3. TypeOK'
  BY <1>1, <1>2 DEF CsvInv, TypeOK
<1>4. RunIsOpen' /\ StoredAtCommit' /\ Counted' /\ LockIsGivenBack' /\ ReportIsTrue'
  BY <1>1
     DEF CsvInv, RunIsOpen, StoredAtCommit, Counted, LockIsGivenBack, ReportIsTrue, At,
         Current
<1>5. \A q \in Procs : pc[q] = "write" => q = p
  BY <1>1 DEF CsvInv, LockIsGivenBack, At
<1>6. r \in RowsOf[file[p]]
  BY <1>1 DEF CsvInv, DraftIsOverlay
<1>7. DraftIsOverlay'
  <2>1. pending'[p] = pending[p] \ {r}
    BY <1>1 DEF CsvInv, TypeOK
  <2>2. /\ draft = Overlay(bars, file[p], RowsOf[file[p]] \ pending[p])
        /\ pending[p] \subseteq RowsOf[file[p]]
    BY <1>1 DEF CsvInv, DraftIsOverlay
  <2>3. draft' = Overlay(bars, file[p], RowsOf[file[p]] \ (pending[p] \ {r}))
    BY <1>1, <1>6, <2>2 DEF Overlay
  <2> QED
    BY <1>1, <1>5, <2>1, <2>2, <2>3 DEF DraftIsOverlay, Overlay
<1> QED
  BY <1>3, <1>4, <1>7 DEF CsvInv

(* The end of a transaction, committed or not.                             *)
LEMMA EndKeeps ==
  ASSUME CsvInv, NEW p \in Procs, NEW point \in {"close", "catch"},
         pc[p] = "write", EndTransaction(p, point),
         bars' \in [Rows -> Files \cup {Nobody}], draft' \in [Rows -> Files \cup {Nobody}],
         stored' = stored \/ stored' = stored \cup {Current(p)},
         point = "close" => Current(p) \in stored'
  PROVE  CsvInv'
<1>1. /\ lock' = Nobody
      /\ depth' = [depth EXCEPT ![p] = @ - 1]
      /\ pending' = [pending EXCEPT ![p] = {}]
      /\ pc' = [pc EXCEPT ![p] = point]
      /\ UNCHANGED <<file, run, outcome>>
  BY DEF EndTransaction, Goto
<1>2. Current(p) \in Import /\ run[Current(p)] = "started" /\ outcome[Current(p)] = "none"
  BY DEF CsvInv, RunIsOpen, InFile, Current, Import
<1>3. depth[p] \in Nat /\ depth[p] >= 1
  BY DEF CsvInv, TypeOK, Counted
<1>4. depth' \in [Procs -> Nat]
  <2>1. depth[p] - 1 \in Nat
    BY <1>3
  <2> QED
    BY <1>1, <2>1 DEF CsvInv, TypeOK
<1>5. TypeOK'
  BY <1>1, <1>2, <1>4 DEF CsvInv, TypeOK, Pc
<1>6. /\ pc'[p] = point
      /\ \A q \in Procs \ {p} : pc'[q] = pc[q] /\ pc[q] # "write" /\ Current(q) # Current(p)
  BY <1>1 DEF CsvInv, TypeOK, LockIsGivenBack, At, Current
<1>7. RunIsOpen' /\ StoredAtCommit'
  BY <1>1, <1>6 DEF CsvInv, RunIsOpen, StoredAtCommit, InFile, Current
<1>8. Counted' /\ DraftIsOverlay' /\ LockIsGivenBack'
  BY <1>1, <1>6, ImportConstants DEF Counted, DraftIsOverlay, LockIsGivenBack, At
<1>9. ReportIsTrue'
  BY <1>1, <1>2 DEF CsvInv, ReportIsTrue
<1> QED
  BY <1>5, <1>7, <1>8, <1>9 DEF CsvInv

LEMMA CommitKeeps == ASSUME CsvInv, NEW p \in Procs, Commit(p) PROVE CsvInv'
BY EndKeeps DEF Commit, At, CsvInv, TypeOK

LEMMA RollbackKeeps == ASSUME CsvInv, NEW p \in Procs, Rollback(p) PROVE CsvInv'
BY EndKeeps DEF Rollback, At, CsvInv, TypeOK

LEMMA CrashKeeps == ASSUME CsvInv, NEW p \in Procs, Crash(p) PROVE CsvInv'
<1>1. /\ pc' = [pc EXCEPT ![p] = "dead"] /\ pending' = [pending EXCEPT ![p] = {}]
      /\ IF lock = p THEN lock' = Nobody /\ draft' = bars ELSE UNCHANGED <<lock, draft>>
      /\ UNCHANGED <<bars, depth, file, run, outcome, stored>>
  BY DEF Crash, Goto
<1>2. TypeOK'
  BY <1>1 DEF CsvInv, TypeOK, Pc
<1>3. pc'[p] = "dead" /\ \A q \in Procs \ {p} : pc'[q] = pc[q] /\ pending'[q] = pending[q]
  BY <1>1 DEF CsvInv, TypeOK
<1>4. RunIsOpen' /\ StoredAtCommit' /\ Counted' /\ ReportIsTrue'
  BY <1>1, <1>3
     DEF CsvInv, RunIsOpen, StoredAtCommit, Counted, ReportIsTrue, InFile, Current
<1>5. LockIsGivenBack'
  BY <1>1, <1>3, ImportConstants DEF CsvInv, LockIsGivenBack, At
<1>6. DraftIsOverlay'
  BY <1>1, <1>3 DEF CsvInv, DraftIsOverlay, LockIsGivenBack, At, Overlay
<1> QED
  BY <1>2, <1>4, <1>5, <1>6 DEF CsvInv

LEMMA CsvStep == CsvInv /\ [Next]_vars => CsvInv'
<1> SUFFICES ASSUME CsvInv, [Next]_vars PROVE CsvInv'
  OBVIOUS
<1>1. CASE UNCHANGED vars
  BY <1>1
     DEF vars, CsvInv, TypeOK, RunIsOpen, StoredAtCommit, Counted, DraftIsOverlay,
         LockIsGivenBack, ReportIsTrue, At, Current, Overlay
<1>2. ASSUME NEW p \in Procs, Advance(p) \/ Crash(p) PROVE CsvInv'
  BY <1>2, MovesKeep, StartRunKeeps, CloseKeeps, BeginKeeps, UpsertBarKeeps, CommitKeeps,
     RollbackKeeps, CrashKeeps DEF Advance
<1> QED
  BY <1>1, <1>2 DEF Next

-----------------------------------------------------------------------------

(* Type correctness of the import (csvImportService.ts:84-186).            *)
THEOREM CsvTyping == Spec => []TypeOK
<1>1. CsvInv => TypeOK
  BY DEF CsvInv
<1> QED
  BY <1>1, CsvInit, CsvStep, PTL DEF Spec

(* Reports and records of the import are true (csvImportService.ts:96-185).*)
THEOREM ReportIsTrueHolds == Spec => []ReportIsTrue
<1>1. CsvInv => ReportIsTrue
  BY DEF CsvInv
<1> QED
  BY <1>1, CsvInit, CsvStep, PTL DEF Spec

(* The write lock is held only inside a transaction (sqlite.ts:105-120).   *)
THEOREM LockIsGivenBackHolds == Spec => []LockIsGivenBack
<1>1. CsvInv => LockIsGivenBack
  BY DEF CsvInv
<1> QED
  BY <1>1, CsvInit, CsvStep, PTL DEF Spec

(* Only a commit changes the table, by all the rows of the file at hand.   *)
LEMMA WholeFiles ==
  ASSUME CsvInv, [Next]_vars, bars' # bars
  PROVE  \E f \in Files : bars' = [r \in Rows |-> IF r \in RowsOf[f] THEN f ELSE bars[r]]
<1>1. PICK p \in Procs : Commit(p)
  BY DEF Next, vars, Advance, Crash, StartRun, Finished, Parse, Reject, Complete, RecordFailure,
         Close, BookkeepingThrows, Throw, RefuseNested, Begin, BeginThrows, UpsertBar, Rollback,
         CompleteThrows
<1>2. /\ bars' = draft /\ pending[p] = {} /\ file[p] \in Files
      /\ draft = Overlay(bars, file[p], RowsOf[file[p]] \ pending[p])
  BY <1>1 DEF Commit, At, CsvInv, RunIsOpen, DraftIsOverlay, InFile
<1>3. RowsOf[file[p]] \ pending[p] = RowsOf[file[p]]
  BY <1>2
<1> QED
  BY <1>2, <1>3 DEF Overlay

(* The table of prices changes by whole files (csvImportService.ts:126-131,*)
(* sqlite.ts:101-121).                                                     *)
THEOREM FilesAreAtomicHolds == Spec => FilesAreAtomic
<1>1. CsvInv /\ [Next]_vars =>
        [bars' # bars =>
           \E f \in Files :
             bars' = [r \in Rows |-> IF r \in RowsOf[f] THEN f ELSE bars[r]]]_vars
  BY WholeFiles
<1> QED
  BY <1>1, CsvInit, CsvStep, PTL DEF Spec, FilesAreAtomic

=============================================================================
