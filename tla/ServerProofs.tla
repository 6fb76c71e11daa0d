---------------------------- MODULE ServerProofs ----------------------------
(***************************************************************************)
(* Proofs about the start, the requests and the exit of the server, for    *)
(* any number of processes, migrations, connections and clients, and any   *)
(* limits and times.                                                       *)
(***************************************************************************)
EXTENDS Server, TLAPS

-----------------------------------------------------------------------------
(* The schema.                                                             *)

IsPrefix(S) == \A v \in S : 1 .. v \subseteq S

(* What is committed, and what the open transaction would commit: the      *)
(* draft contains the database, rows have their tables, no row is missing  *)
(* below another.                                                          *)
SchemasInv == /\ db.rows \subseteq db.tables /\ IsPrefix(db.rows)
              /\ draft.rows \subseteq draft.tables /\ IsPrefix(draft.rows)
              /\ db.rows \subseteq draft.rows

(* What a process believes is applied is; it is in a transaction when it   *)
(* holds the lock, and has done there what its stage says.                 *)
ProcessInv(p) ==
  /\ applied[p] \subseteq db.rows /\ done[p] \subseteq db.rows
  /\ stage[p] \in InTransaction <=> writer = p
  /\ \A v \in Versions : IsNextPending(p, v) =>
       /\ stage[p] \in {"built", "recorded"} => v \in draft.tables
       /\ stage[p] = "recorded" => v \in draft.rows
  /\ stage[p] = "ready" => db.rows = Versions

MigrationInv == MigrationTypeOK /\ SchemasInv /\ \A p \in Processes : ProcessInv(p)

LEMMA MigrationInitInv == MigrationInit => MigrationInv
<1> SUFFICES ASSUME MigrationInit PROVE MigrationInv
  OBVIOUS
<1> USE MigrationConstants
<1>1. PICK oldest \in 0 .. Latest, built \in 0 .. Latest :
        oldest <= built /\ db = [tables |-> 1 .. built, rows |-> 1 .. oldest]
  BY DEF MigrationInit
<1>2. db \in Schema /\ draft = db
  BY <1>1 DEF MigrationInit, Schema, Versions
<1>3. MigrationTypeOK
  BY <1>2 DEF MigrationInit, MigrationTypeOK, Stages
<1>4. db.rows \subseteq db.tables /\ IsPrefix(db.rows)
  BY <1>1 DEF IsPrefix
<1>5. SchemasInv
  BY <1>2, <1>4 DEF SchemasInv
<1>6. \A p \in Processes : ProcessInv(p)
  BY DEF MigrationInit, ProcessInv, InTransaction
<1>7. QED
  BY <1>3, <1>5, <1>6 DEF MigrationInv

(* The actions that leave both schemas and the lock alone.                 *)
LEMMA LookingInv ==
  ASSUME MigrationInv, NEW p \in Processes, Open(p) \/ ReadApplied(p) \/ BecomeReady(p)
  PROVE  MigrationInv'
<1> USE MigrationConstants DEF MigrationInv
<1>1. UNCHANGED <<db, draft, writer>> /\ SchemasInv'
  BY DEF Open, ReadApplied, BecomeReady, SchemasInv, IsPrefix
<1>2. MigrationTypeOK'
  BY <1>1 DEF MigrationTypeOK, Open, ReadApplied, BecomeReady, Go, Leave, Stages, Schema
<1>3. ASSUME NEW q \in Processes, q # p PROVE ProcessInv(q)'
  BY <1>1, <1>3 DEF ProcessInv, MigrationTypeOK, Open, ReadApplied, BecomeReady, Go, Leave,
                    IsNextPending, Pending
<1>4. ProcessInv(p)'
  <2>1. applied'[p] \subseteq db.rows /\ done'[p] \subseteq db.rows
    BY DEF MigrationTypeOK, ProcessInv, Open, ReadApplied, BecomeReady, Leave
  <2>2. stage[p] \notin InTransaction /\ stage'[p] \notin InTransaction
    BY DEF MigrationTypeOK, Open, ReadApplied, BecomeReady, Leave, Go, InTransaction
  <2>3. stage'[p] = "ready" => Pending(p) = {}
    BY DEF MigrationTypeOK, Open, ReadApplied, BecomeReady, Leave, Go
  <2>4. stage'[p] = "ready" => db.rows = Versions
    BY <2>3 DEF Pending, MigrationTypeOK, Schema, ProcessInv
  <2>5. QED
    BY <1>1, <2>1, <2>2, <2>4 DEF ProcessInv, InTransaction
<1>5. QED
  BY <1>1, <1>2, <1>3, <1>4

LEMMA BeginInv ==
  ASSUME MigrationInv, NEW p \in Processes, BeginMigration(p) PROVE MigrationInv'
<1> USE MigrationConstants DEF MigrationInv
<1>1. SchemasInv'
  BY DEF BeginMigration, SchemasInv, IsPrefix
<1>2. MigrationTypeOK'
  BY DEF MigrationTypeOK, BeginMigration, Go, Stages, InTransaction
<1>3. ASSUME NEW q \in Processes PROVE ProcessInv(q)'
  <2>1. stage[q] \notin InTransaction
    BY DEF BeginMigration, ProcessInv
  <2>2. stage'[q] \in InTransaction <=> writer' = q
    BY <2>1 DEF BeginMigration, MigrationTypeOK, Go, InTransaction
  <2>3. stage'[q] \notin {"built", "recorded"}
    BY <2>1 DEF BeginMigration, MigrationTypeOK, Go, InTransaction
  <2>4. stage'[q] = "ready" => stage[q] = "ready"
    BY DEF BeginMigration, MigrationTypeOK, Go
  <2>5. QED
    BY <2>2, <2>3, <2>4 DEF BeginMigration, ProcessInv
<1>4. QED
  BY <1>1, <1>2, <1>3

LEMMA RunScriptInv ==
  ASSUME MigrationInv, NEW p \in Processes, RunScript(p) PROVE MigrationInv'
<1> USE MigrationConstants DEF MigrationInv
<1>1. PICK v \in Versions : /\ stage[p] = "begun" /\ IsNextPending(p, v)
                            /\ draft' = [draft EXCEPT !.tables = @ \cup {v}]
                            /\ Go(p, "built")
                            /\ UNCHANGED <<db, writer, applied, done>>
  BY DEF RunScript
<1>2. draft' \in Schema /\ draft'.rows = draft.rows /\ draft'.tables = draft.tables \cup {v}
  BY <1>1 DEF MigrationTypeOK, Schema
<1>3. SchemasInv'
  BY <1>1, <1>2 DEF SchemasInv, IsPrefix
<1>4. MigrationTypeOK'
  BY <1>1, <1>2 DEF MigrationTypeOK, Go, Stages, InTransaction
<1>5. writer = p
  BY <1>1 DEF ProcessInv, InTransaction
<1>6. ASSUME NEW q \in Processes, q # p PROVE ProcessInv(q)'
  <2>1. stage'[q] = stage[q] /\ stage[q] \notin InTransaction
    BY <1>1, <1>5, <1>6 DEF ProcessInv, MigrationTypeOK, Go
  <2>2. QED
    BY <1>1, <1>5, <2>1 DEF ProcessInv, InTransaction
<1>7. ProcessInv(p)'
  <2>1. stage'[p] = "built"
    BY <1>1 DEF MigrationTypeOK, Go
  <2>2. ASSUME NEW w \in Versions, IsNextPending(p, w)' PROVE w = v
    BY <1>1, <2>2 DEF IsNextPending, Pending, Versions
  <2>3. QED
    BY <1>1, <1>2, <1>5, <2>1, <2>2 DEF ProcessInv, InTransaction
<1>8. QED
  BY <1>3, <1>4, <1>6, <1>7

(* The row of the least pending migration leaves no gap: whatever is below *)
(* it is applied.                                                          *)
LEMMA NextLeavesNoGap ==
  ASSUME MigrationInv, NEW p \in Processes, NEW v \in Versions, IsNextPending(p, v)
  PROVE  IsPrefix(draft.rows \cup {v})
<1> USE MigrationConstants DEF MigrationInv
<1>1. ASSUME NEW w \in 1 .. v, w # v PROVE w \in draft.rows
  <2>1. w \in Versions /\ ~(v <= w)
    BY <1>1 DEF Versions
  <2>2. w \in applied[p] \cup done[p]
    BY <2>1 DEF IsNextPending, Pending
  <2>3. QED
    BY <2>2 DEF ProcessInv, SchemasInv
<1>2. QED
  BY <1>1 DEF SchemasInv, IsPrefix

LEMMA RecordInv ==
  ASSUME MigrationInv, NEW p \in Processes, RecordVersion(p) PROVE MigrationInv'
<1> USE MigrationConstants DEF MigrationInv
<1>1. PICK v \in Versions : /\ stage[p] = "built" /\ IsNextPending(p, v)
                            /\ draft' = [draft EXCEPT !.rows = @ \cup {v}]
                            /\ Go(p, "recorded")
                            /\ UNCHANGED <<db, writer, applied, done>>
  BY DEF RecordVersion
<1>2. draft' \in Schema /\ draft'.tables = draft.tables /\ draft'.rows = draft.rows \cup {v}
  BY <1>1 DEF MigrationTypeOK, Schema
<1>3. SchemasInv'
  <2>1. v \in draft.tables
    BY <1>1 DEF ProcessInv
  <2>2. IsPrefix(draft'.rows)
    BY <1>1, <1>2, NextLeavesNoGap
  <2>3. QED
    BY <1>1, <1>2, <2>1, <2>2 DEF SchemasInv, IsPrefix
<1>4. MigrationTypeOK'
  BY <1>1, <1>2 DEF MigrationTypeOK, Go, Stages, InTransaction
<1>5. writer = p
  BY <1>1 DEF ProcessInv, InTransaction
<1>6. ASSUME NEW q \in Processes, q # p PROVE ProcessInv(q)'
  <2>1. stage'[q] = stage[q] /\ stage[q] \notin InTransaction
    BY <1>1, <1>5, <1>6 DEF ProcessInv, MigrationTypeOK, Go
  <2>2. QED
    BY <1>1, <1>5, <2>1 DEF ProcessInv, InTransaction
<1>7. ProcessInv(p)'
  <2>1. stage'[p] = "recorded"
    BY <1>1 DEF MigrationTypeOK, Go
  <2>2. ASSUME NEW w \in Versions, IsNextPending(p, w)' PROVE w = v
    BY <1>1, <2>2 DEF IsNextPending, Pending, Versions
  <2>3. v \in draft.tables
    BY <1>1 DEF ProcessInv
  <2>4. QED
    BY <1>1, <1>2, <1>5, <2>1, <2>2, <2>3 DEF ProcessInv, InTransaction
<1>8. QED
  BY <1>3, <1>4, <1>6, <1>7

LEMMA CommitInv ==
  ASSUME MigrationInv, NEW p \in Processes, CommitMigration(p) PROVE MigrationInv'
<1> USE MigrationConstants DEF MigrationInv
<1>1. PICK v \in Versions : /\ stage[p] = "recorded" /\ IsNextPending(p, v)
                            /\ db' = draft /\ writer' = NoProcess
                            /\ done' = [done EXCEPT ![p] = @ \cup {v}]
                            /\ Go(p, "pending")
                            /\ UNCHANGED <<draft, applied>>
  BY DEF CommitMigration
<1>2. writer = p /\ v \in draft.rows
  BY <1>1 DEF ProcessInv, InTransaction
<1>3. SchemasInv'
  BY <1>1 DEF SchemasInv, IsPrefix
<1>4. MigrationTypeOK'
  BY <1>1 DEF MigrationTypeOK, Go, Stages
<1>5. db.rows \subseteq db'.rows
  BY <1>1 DEF SchemasInv
<1>6. ASSUME NEW q \in Processes, q # p PROVE ProcessInv(q)'
  <2>1. stage'[q] = stage[q] /\ stage[q] \notin InTransaction /\ done'[q] = done[q]
    BY <1>1, <1>2, <1>6 DEF ProcessInv, MigrationTypeOK, Go
  <2>2. stage[q] = "ready" => db'.rows = Versions
    BY <1>1, <1>5 DEF ProcessInv, MigrationTypeOK, Schema
  <2>3. QED
    BY <1>1, <1>5, <2>1, <2>2 DEF ProcessInv, InTransaction
<1>7. ProcessInv(p)'
  BY <1>1, <1>2, <1>5 DEF ProcessInv, InTransaction, MigrationTypeOK, Go
<1>8. QED
  BY <1>3, <1>4, <1>6, <1>7

(* A start that fails and a process that dies leave what is committed.     *)
LEMMA LeavingInv ==
  ASSUME MigrationInv, NEW p \in Processes, NEW where \in {"failed", "down"},
         LeaveTransaction(p), Leave(p, where), UNCHANGED db
  PROVE  MigrationInv'
<1> USE MigrationConstants DEF MigrationInv
<1>1. SchemasInv'
  BY DEF SchemasInv, IsPrefix, LeaveTransaction
<1>2. MigrationTypeOK'
  BY DEF MigrationTypeOK, LeaveTransaction, Leave, Go, Stages
<1>3. ASSUME NEW q \in Processes, q # p PROVE ProcessInv(q)'
  <2>1. stage'[q] = stage[q] /\ applied'[q] = applied[q] /\ done'[q] = done[q]
    BY <1>3 DEF MigrationTypeOK, Leave, Go
  <2>2. CASE writer = p
    BY <1>3, <2>1, <2>2 DEF ProcessInv, LeaveTransaction, InTransaction
  <2>3. CASE writer # p
    BY <1>3, <2>1, <2>3 DEF ProcessInv, LeaveTransaction, IsNextPending, Pending
  <2>4. QED
    BY <2>2, <2>3
<1>4. ProcessInv(p)'
  BY DEF ProcessInv, LeaveTransaction, Leave, Go, InTransaction, MigrationTypeOK
<1>5. QED
  BY <1>1, <1>2, <1>3, <1>4

LEMMA MigrationStepInv ==
  ASSUME MigrationInv, MigrationNext \/ UNCHANGED migrationVars PROVE MigrationInv'
<1>1. ASSUME NEW p \in Processes, Migrate(p) PROVE MigrationInv'
  <2>1. CASE Open(p) \/ ReadApplied(p) \/ BecomeReady(p)
    BY <2>1, LookingInv
  <2>2. CASE BeginMigration(p)
    BY <2>2, BeginInv
  <2>3. CASE RunScript(p)
    BY <2>3, RunScriptInv
  <2>4. CASE RecordVersion(p)
    BY <2>4, RecordInv
  <2>5. CASE CommitMigration(p)
    BY <2>5, CommitInv
  <2>6. CASE FindTaken(p)
    BY <2>6, LeavingInv DEF FindTaken
  <2>7. CASE OpeningThrows(p)
    BY <2>7, LeavingInv DEF OpeningThrows
  <2>8. QED
    BY <1>1, <2>1, <2>2, <2>3, <2>4, <2>5, <2>6, <2>7 DEF Migrate
<1>2. ASSUME NEW p \in Processes, Die(p) PROVE MigrationInv'
  BY <1>2, LeavingInv DEF Die
<1>3. CASE UNCHANGED migrationVars
  BY <1>3 DEF migrationVars, MigrationInv, MigrationTypeOK, SchemasInv, ProcessInv,
              IsPrefix, IsNextPending, Pending
<1>4. QED
  BY <1>1, <1>2, <1>3 DEF MigrationNext

(* The server and the tools touch the schema in the steps of Migrations    *)
(* and in no other.                                                        *)
THEOREM ServerMigrates == Spec => MigrationSpec
<1>1. Init => MigrationInit
  BY DEF Init
<1>2. [Next]_vars => [MigrationNext]_migrationVars
  BY ServerConstants DEF Next, vars, StartStep, StartFails, Listen, ToolStep, Connect, Arrive,
     BodyArrives, HeadersCome, BodyComes, Abort, CallEnds, Disconnect, KeepAliveEnds,
     ApiWindowEnds, StockWindowEnds, Shutdown, ShutdownAgain, CloseCallback, ForceExit, Killed,
     Tick, MigrationNext
<1>3. QED
  BY <1>1, <1>2, PTL DEF Spec, MigrationSpec

LEMMA MigrationsAlways == MigrationSpec => []MigrationInv
<1>1. MigrationInv /\ [MigrationNext]_migrationVars => MigrationInv'
  BY MigrationStepInv
<1>2. QED
  BY <1>1, MigrationInitInv, PTL DEF MigrationSpec

(* ReadyIsMigrated for any number of processes that start together.        *)
THEOREM ReadyIsMigratedAlways == Spec => []ReadyIsMigrated
<1>1. MigrationInv => ReadyIsMigrated
  BY DEF MigrationInv, SchemasInv, ProcessInv, IsPrefix, ReadyIsMigrated
<1>2. QED
  BY <1>1, ServerMigrates, MigrationsAlways, PTL

-----------------------------------------------------------------------------
(* Requests.  What a step does to a connection is one of five things.      *)

Called(c) == Await(c, "headers", NoKind, FetchBudget)

Uploads(c) == \E k \in Kind : Await(c, "uploading", k, 0)

Continues(c) == /\ work[c] = "headers"
                /\ work' = [work EXCEPT ![c] = "body"]
                /\ UNCHANGED <<conn, kind, timer>>

Leaves(c) ==
  /\ conn' = [conn EXCEPT ![c] = "gone"]
  /\ \/ UNCHANGED <<work, kind, timer>>
     \/ /\ work' = [work EXCEPT ![c] = "idle"]
        /\ kind' = [kind EXCEPT ![c] = NoKind]
        /\ timer' = [timer EXCEPT ![c] = 0]

(* A report is asked for only where the limiter of stocks has room for the *)
(* client, a body below /api parsed only where the other has.              *)
StockCount ==
  \/ UNCHANGED <<stockHits, calls>>
  \/ \E ip \in Clients :
       /\ stockHits[ip] < StockLimit
       /\ stockHits' = [stockHits EXCEPT ![ip] = @ + 1]
       /\ calls' = calls \/ calls' = [calls EXCEPT ![ip] = @ + 1]

ApiCount ==
  \/ UNCHANGED <<apiHits, bodies>>
  \/ \E ip \in Clients :
       /\ apiHits[ip] < ApiLimit
       /\ apiHits' = [apiHits EXCEPT ![ip] = @ + 1]
       /\ bodies' = bodies \/ bodies' = [bodies EXCEPT ![ip] = @ + 1]

LEMMA ReportEffect ==
  ASSUME NEW c \in Connections, NEW k, GetReport(c, k)
  PROVE  (Answer(c) \/ Called(c)) /\ calls' = [calls EXCEPT ![k.client] = @ + 1]
BY DEF GetReport, Called

LEMMA DispatchEffect ==
  ASSUME NEW c \in Connections, NEW k \in Kind \cup {NoKind}, Dispatch(c, k)
  PROVE  (Answer(c) \/ Called(c)) /\ StockCount
<1>1. ASSUME k.path = "stock", stockHits[k.client] < StockLimit,
             stockHits' = [stockHits EXCEPT ![k.client] = @ + 1], StockRoute(c, k)
      PROVE  (Answer(c) \/ Called(c)) /\ StockCount
  <2>1. k.client \in Clients
    BY <1>1 DEF Kind, NoKind
  <2>2. CASE GetReport(c, k)
    BY <1>1, <2>1, <2>2, ReportEffect DEF StockCount
  <2>3. CASE ~GetReport(c, k)
    BY <1>1, <2>1, <2>3 DEF StockRoute, StockCount
  <2>4. QED
    BY <2>2, <2>3
<1>2. QED
  BY <1>1 DEF Dispatch, StockCount

LEMMA ParseEffect ==
  ASSUME NEW c \in Connections, NEW k \in Kind, ParseBody(c, k)
  PROVE  /\ Answer(c) \/ Called(c) \/ Uploads(c)
         /\ StockCount
         /\ \/ bodies' = bodies
            \/ k.path # "other" /\ bodies' = [bodies EXCEPT ![k.client] = @ + 1]
<1>1. CASE Dispatch(c, k) /\ UNCHANGED bodies
  BY <1>1, DispatchEffect
<1>2. CASE ~(Dispatch(c, k) /\ UNCHANGED bodies)
  BY <1>2 DEF ParseBody, Uploads, StockCount
<1>3. QED
  BY <1>1, <1>2

LEMMA LimitEffect ==
  ASSUME NEW c \in Connections, NEW k \in Kind, LimitApi(c, k)
  PROVE  (Answer(c) \/ Called(c) \/ Uploads(c)) /\ StockCount /\ ApiCount
<1>1. k.client \in Clients
  BY DEF Kind
<1>2. CASE ParseBody(c, k)
  BY <1>1, <1>2, ParseEffect DEF LimitApi, ApiCount, counters
<1>3. CASE ~ParseBody(c, k)
  BY <1>3 DEF LimitApi, StockCount, ApiCount, counters
<1>4. QED
  BY <1>2, <1>3

(* What is awaited on a connection that is busy, and for how long at most. *)
ConnInv == \A c \in Connections :
             /\ work[c] = "uploading" => conn[c] = "busy"
             /\ conn[c] = "busy" => work[c] # "idle"
             /\ Fetching(c) => timer[c] <= FetchBudget

ConnectionStep(c) == \/ \E k \in Kind : Arrive(c, k)
                     \/ BodyArrives(c) \/ HeadersCome(c) \/ BodyComes(c)
                     \/ Abort(c) \/ Disconnect(c) \/ KeepAliveEnds(c)

(* A request has come in, while the server listens or on the record.       *)
Asked == phase = "listening" \/ "sending" \in held'

(* A call of the provider begins only when a request comes in or its body  *)
(* has been awaited, and a body is awaited only from a request that comes. *)
LEMMA ConnectionEffect ==
  ASSUME ServerTypeOK, ConnInv, NEW c \in Connections, ConnectionStep(c)
  PROVE  /\ Up /\ UNCHANGED <<phase, exit, budget>>
         /\ held' = held \/ held' = held \cup {"sending"}
         /\ StockCount /\ ApiCount
         /\ \/ Answer(c) /\ (Asked \/ work[c] = "uploading" \/ Fetching(c))
            \/ Called(c) /\ (Asked \/ work[c] = "uploading")
            \/ Uploads(c) /\ Asked
            \/ Continues(c)
            \/ Leaves(c) /\ work'[c] # "uploading"
<1>1. ASSUME NEW k \in Kind, Arrive(c, k)
      PROVE  (Answer(c) \/ Called(c) \/ Uploads(c)) /\ StockCount /\ ApiCount
  <2>1. CASE LimitApi(c, k)
    BY <2>1, LimitEffect
  <2>2. CASE ~LimitApi(c, k)
    BY <1>1, <2>2 DEF Arrive, StockCount, ApiCount, counters
  <2>3. QED
    BY <2>1, <2>2
<1>2. CASE \E k \in Kind : Arrive(c, k)
  <2>1. /\ Up /\ UNCHANGED <<phase, exit, budget>> /\ Asked
        /\ held' = held \/ held' = held \cup {"sending"}
    BY <1>2 DEF Arrive, Up, Asked
  <2>2. QED
    BY <1>1, <1>2, <2>1
<1>3. CASE BodyArrives(c)
  <2>1. kind[c] \in Kind \cup {NoKind}
    BY DEF ServerTypeOK
  <2>2. CASE Dispatch(c, kind[c])
    BY <1>3, <2>1, <2>2, DispatchEffect DEF BodyArrives, ApiCount
  <2>3. CASE ~Dispatch(c, kind[c])
    BY <1>3, <2>3 DEF BodyArrives, StockCount, ApiCount
  <2>4. QED
    BY <2>2, <2>3
<1>4. CASE HeadersCome(c) \/ BodyComes(c) \/ Abort(c)
  BY <1>4 DEF HeadersCome, BodyComes, Abort, CallEnds, Continues, Fetching, StockCount,
              ApiCount, counters
<1>5. CASE Disconnect(c) \/ KeepAliveEnds(c)
  BY <1>5 DEF Disconnect, KeepAliveEnds, Leaves, StockCount, ApiCount, counters, ConnInv,
              ServerTypeOK, Fetching
<1>6. QED
  BY <1>2, <1>3, <1>4, <1>5 DEF ConnectionStep

-----------------------------------------------------------------------------
(* The invariant of the server.                                            *)

Elapsed == DrainBudget - budget

(* As long as no client has held up the shutdown by what it sends, a call  *)
(* that is under way began before the signal or in the same instant, and   *)
(* a connection that is kept has become idle when such a call had ended.   *)
Quiet == "sending" \notin held

BudgetInv ==
  phase = "draining" /\ Quiet =>
    /\ Elapsed <= FetchBudget + (IF "keeping" \in held THEN KeepAlive ELSE 0)
    /\ \A c \in Connections :
         /\ conn[c] = "new" \/ work[c] = "uploading" => Elapsed = 0
         /\ Fetching(c) => timer[c] + Elapsed <= FetchBudget
         /\ conn[c] = "kept" => timer[c] + Elapsed <= FetchBudget + KeepAlive

CountInv == \A ip \in Clients : /\ bodies[ip] <= apiHits[ip]
                                /\ calls[ip] <= stockHits[ip]

ExitInv == /\ phase = "exited" <=> exit # "running"
           /\ ForcedExitHasReason

ServerInv == ServerTypeOK /\ ConnInv /\ BudgetInv /\ CountInv /\ ExitInv

LEMMA ServerInitInv == Init => ServerInv
<1> SUFFICES ASSUME Init PROVE ServerInv
  OBVIOUS
<1> USE ServerConstants DEF Init
<1>1. ServerTypeOK
  BY DEF ServerTypeOK
<1>2. ConnInv /\ BudgetInv
  BY DEF ConnInv, BudgetInv, Fetching
<1>3. CountInv
  BY DEF CountInv
<1>4. ExitInv
  BY DEF ExitInv, ForcedExitHasReason
<1>5. QED
  BY <1>1, <1>2, <1>3, <1>4 DEF ServerInv

(* The types of what belongs to a connection.                              *)
LEMMA ConnectionTypes ==
  ASSUME ServerTypeOK, NEW c \in Connections,
         Answer(c) \/ Called(c) \/ Uploads(c) \/ Continues(c) \/ Leaves(c)
  PROVE  /\ conn' \in [Connections -> {"none", "new", "busy", "kept", "gone"}]
         /\ work' \in [Connections -> {"idle", "uploading", "headers", "body"}]
         /\ kind' \in [Connections -> Kind \cup {NoKind}]
         /\ timer' \in [Connections -> Nat]
<1> USE ServerConstants DEF ServerTypeOK
<1>1. CASE Answer(c)
  BY <1>1 DEF Answer
<1>2. CASE Called(c)
  BY <1>2 DEF Called, Await
<1>3. CASE Uploads(c)
  BY <1>3 DEF Uploads, Await
<1>4. CASE Continues(c)
  BY <1>4 DEF Continues
<1>5. CASE Leaves(c)
  BY <1>5 DEF Leaves
<1>6. QED
  BY <1>1, <1>2, <1>3, <1>4, <1>5

LEMMA CountsKept ==
  ASSUME ServerTypeOK, CountInv, StockCount, ApiCount
  PROVE  /\ CountInv'
         /\ apiHits' \in [Clients -> 0 .. ApiLimit] /\ bodies' \in [Clients -> Nat]
         /\ stockHits' \in [Clients -> 0 .. StockLimit] /\ calls' \in [Clients -> Nat]
<1> USE ServerConstants DEF ServerTypeOK, CountInv
<1>1. /\ \A ip \in Clients : bodies'[ip] <= apiHits'[ip]
      /\ apiHits' \in [Clients -> 0 .. ApiLimit] /\ bodies' \in [Clients -> Nat]
  BY DEF ApiCount
<1>2. /\ \A ip \in Clients : calls'[ip] <= stockHits'[ip]
      /\ stockHits' \in [Clients -> 0 .. StockLimit] /\ calls' \in [Clients -> Nat]
  BY DEF StockCount
<1>3. QED
  BY <1>1, <1>2

(* The five things keep what the invariant says of connections.            *)
LEMMA ConnectionKept ==
  ASSUME ServerInv, NEW c \in Connections, UNCHANGED <<phase, exit, budget>>,
         held' = held \/ held' = held \cup {"sending"},
         \/ Answer(c) /\ (Asked \/ work[c] = "uploading" \/ Fetching(c))
         \/ Called(c) /\ (Asked \/ work[c] = "uploading")
         \/ Uploads(c) /\ Asked
         \/ Continues(c)
         \/ Leaves(c) /\ work'[c] # "uploading"
  PROVE  ConnInv' /\ BudgetInv'
<1> USE ServerConstants DEF ServerInv, ServerTypeOK
<1>1. \A d \in Connections \ {c} : /\ conn'[d] = conn[d] /\ work'[d] = work[d]
                                   /\ timer'[d] = timer[d]
  BY DEF Answer, Called, Uploads, Await, Continues, Leaves
<1>2. /\ work'[c] = "uploading" => conn'[c] = "busy"
      /\ conn'[c] = "busy" => work'[c] # "idle"
  BY DEF Answer, Called, Uploads, Await, Continues, Leaves, ConnInv
<1>3. Fetching(c)' => timer'[c] = FetchBudget \/ (Fetching(c) /\ timer'[c] = timer[c])
  BY DEF Answer, Called, Uploads, Await, Continues, Leaves, Fetching
<1>4. ConnInv'
  <2>1. Fetching(c)' => timer'[c] <= FetchBudget
    BY <1>3 DEF ConnInv
  <2>2. QED
    BY <1>1, <1>2, <2>1 DEF ConnInv, Fetching
<1>5. BudgetInv'
  <2> SUFFICES ASSUME phase = "draining", Quiet'
               PROVE  BudgetInv'
    BY DEF BudgetInv
  <2>1. held' = held /\ Quiet /\ ~Asked
    BY DEF Quiet, Asked
  <2>2. Elapsed' = Elapsed /\ Elapsed \in Nat
    BY DEF Elapsed
  <2>3. Elapsed <= FetchBudget + (IF "keeping" \in held THEN KeepAlive ELSE 0)
    BY <2>1 DEF BudgetInv
  <2>4. /\ conn[c] = "new" \/ work[c] = "uploading" => Elapsed = 0
        /\ Fetching(c) => timer[c] + Elapsed <= FetchBudget
        /\ conn[c] = "kept" => timer[c] + Elapsed <= FetchBudget + KeepAlive
    BY <2>1 DEF BudgetInv
  <2>5. conn'[c] = "new" \/ work'[c] = "uploading" => Elapsed = 0
    BY <2>1, <2>4 DEF Answer, Called, Uploads, Await, Continues, Leaves
  <2>6. Fetching(c)' => timer'[c] + Elapsed <= FetchBudget
    <3>1. CASE Called(c) /\ work[c] = "uploading"
      BY <2>4, <3>1 DEF Called, Await
    <3>2. CASE ~(Called(c) /\ work[c] = "uploading")
      BY <2>1, <2>4, <3>2 DEF Answer, Uploads, Await, Continues, Leaves, Fetching
    <3>3. QED
      BY <3>1, <3>2
  <2>7. conn'[c] = "kept" => timer'[c] + Elapsed <= FetchBudget + KeepAlive
    <3>1. CASE Answer(c) /\ (work[c] = "uploading" \/ Fetching(c))
      <4>1. Elapsed <= FetchBudget
        BY <2>2, <2>4, <3>1
      <4>2. conn'[c] = "kept" => timer'[c] = KeepAlive
        BY <3>1 DEF Answer
      <4>3. QED
        BY <2>2, <4>1, <4>2
    <3>2. CASE ~(Answer(c) /\ (work[c] = "uploading" \/ Fetching(c)))
      BY <2>1, <2>4, <3>2 DEF Called, Uploads, Await, Continues, Leaves
    <3>3. QED
      BY <3>1, <3>2
  <2>8. \A d \in Connections \ {c} :
          /\ conn'[d] = "new" \/ work'[d] = "uploading" => Elapsed = 0
          /\ Fetching(d)' => timer'[d] + Elapsed <= FetchBudget
          /\ conn'[d] = "kept" => timer'[d] + Elapsed <= FetchBudget + KeepAlive
    BY <1>1, <2>1 DEF BudgetInv, Fetching
  <2>9. QED
    BY <2>1, <2>2, <2>3, <2>5, <2>6, <2>7, <2>8 DEF BudgetInv
<1>6. QED
  BY <1>4, <1>5

LEMMA ConnectionInv ==
  ASSUME ServerInv, NEW c \in Connections, ConnectionStep(c) PROVE ServerInv'
<1> USE ServerConstants
<1>1. /\ Up /\ UNCHANGED <<phase, exit, budget>>
      /\ held' = held \/ held' = held \cup {"sending"}
      /\ StockCount /\ ApiCount
      /\ \/ Answer(c) /\ (Asked \/ work[c] = "uploading" \/ Fetching(c))
         \/ Called(c) /\ (Asked \/ work[c] = "uploading")
         \/ Uploads(c) /\ Asked
         \/ Continues(c)
         \/ Leaves(c) /\ work'[c] # "uploading"
  BY ConnectionEffect DEF ServerInv
<1>2. /\ CountInv'
      /\ apiHits' \in [Clients -> 0 .. ApiLimit] /\ bodies' \in [Clients -> Nat]
      /\ stockHits' \in [Clients -> 0 .. StockLimit] /\ calls' \in [Clients -> Nat]
  BY <1>1, CountsKept DEF ServerInv
<1>3. ServerTypeOK'
  BY <1>1, <1>2, ConnectionTypes DEF ServerInv, ServerTypeOK
<1>4. ConnInv' /\ BudgetInv'
  BY <1>1, ConnectionKept
<1>5. ExitInv'
  BY <1>1 DEF ServerInv, ExitInv, ForcedExitHasReason, Up
<1>6. QED
  BY <1>2, <1>3, <1>4, <1>5 DEF ServerInv

(* Time passes: every timer loses as much as the budget, and a shutdown    *)
(* that waits, but not for what a client sends, waits for a call or for a  *)
(* connection that is kept.                                                *)
LEMMA TickInv == ASSUME ServerInv, Tick PROVE ServerInv'
<1> USE ServerConstants DEF ServerInv
<1>1. ServerTypeOK'
  <2>1. timer' \in [Connections -> Nat]
    BY DEF Tick, ServerTypeOK
  <2>2. budget' \in 0 .. DrainBudget
    BY DEF Tick, ServerTypeOK
  <2>3. held' \subseteq {"sending", "keeping"}
    BY DEF Tick, ServerTypeOK, Held
  <2>4. QED
    BY <2>1, <2>2, <2>3 DEF Tick, ServerTypeOK, counters
<1>2. ConnInv'
  <2>1. \A c \in Connections : timer'[c] <= timer[c]
    BY DEF Tick, ServerTypeOK
  <2>2. QED
    BY <2>1 DEF Tick, ConnInv, Fetching, ServerTypeOK
<1>3. CountInv'
  BY DEF Tick, CountInv, counters
<1>4. BudgetInv'
  <2> SUFFICES ASSUME phase = "draining", Quiet' PROVE BudgetInv'
    BY DEF Tick, BudgetInv
  <2>1. held' = held \cup Held
    BY DEF Tick
  <2>2. /\ Quiet
        /\ \A c \in Connections : conn[c] # "new" /\ work[c] # "uploading"
        /\ \A c \in Connections : conn[c] = "kept" => "keeping" \in held'
    BY <2>1 DEF Quiet, Held
  <2>3. Elapsed' = Elapsed + 1 /\ Elapsed \in Nat
    BY DEF Tick, Elapsed, ServerTypeOK
  <2>4. ASSUME NEW c \in Connections
        PROVE  /\ Fetching(c) => /\ timer[c] \in Nat \ {0}
                                 /\ timer'[c] = timer[c] - 1
                                 /\ timer[c] + Elapsed <= FetchBudget
               /\ conn[c] = "kept" => /\ timer[c] \in Nat \ {0}
                                      /\ timer'[c] = timer[c] - 1
                                      /\ timer[c] + Elapsed <= FetchBudget + KeepAlive
    BY <2>2 DEF Tick, Timed, BudgetInv, ServerTypeOK
  <2>5. Elapsed + 1 <= FetchBudget + (IF "keeping" \in held' THEN KeepAlive ELSE 0)
    <3>1. PICK c \in Connections : conn[c] \notin {"none", "gone"}
      BY DEF Tick, Drained
    <3>2. Fetching(c) \/ conn[c] = "kept"
      BY <2>2, <3>1 DEF ConnInv, ServerTypeOK, Fetching
    <3>3. CASE Fetching(c)
      BY <2>3, <2>4, <3>3
    <3>4. CASE conn[c] = "kept"
      BY <2>2, <2>3, <2>4, <3>4
    <3>5. QED
      BY <3>2, <3>3, <3>4
  <2>6. ASSUME NEW c \in Connections
        PROVE  /\ Fetching(c) => timer'[c] + (Elapsed + 1) <= FetchBudget
               /\ conn[c] = "kept" => timer'[c] + (Elapsed + 1) <= FetchBudget + KeepAlive
    BY <2>3, <2>4
  <2>7. UNCHANGED <<conn, work>> /\ \A c \in Connections : Fetching(c)' <=> Fetching(c)
    BY DEF Tick, Fetching
  <2>8. QED
    BY <2>2, <2>3, <2>5, <2>6, <2>7 DEF BudgetInv
<1>5. ExitInv'
  BY DEF Tick, ExitInv, ForcedExitHasReason, Up
<1>6. QED
  BY <1>1, <1>2, <1>3, <1>4, <1>5

(* The other steps of the server: its start, the windows, its exit.        *)
WindowEnds == \E ip \in Clients : ApiWindowEnds(ip) \/ StockWindowEnds(ip)

Exiting == \/ StartFails \/ CloseCallback \/ ForceExit \/ Killed

LEMMA WindowInv == ASSUME ServerInv, WindowEnds PROVE ServerInv'
<1> USE ServerConstants DEF ServerInv
<1>1. UNCHANGED <<phase, exit, conn, work, kind, timer, budget, held>>
  BY DEF WindowEnds, ApiWindowEnds, StockWindowEnds
<1>2. ServerTypeOK'
  BY <1>1 DEF WindowEnds, ApiWindowEnds, StockWindowEnds, ServerTypeOK
<1>3. CountInv'
  BY DEF WindowEnds, ApiWindowEnds, StockWindowEnds, ServerTypeOK, CountInv
<1>4. ConnInv' /\ BudgetInv' /\ ExitInv'
  BY <1>1 DEF ConnInv, BudgetInv, ExitInv, ForcedExitHasReason, Fetching, Elapsed, Quiet
<1>5. QED
  BY <1>2, <1>3, <1>4

LEMMA ExitingInv == ASSUME ServerInv, Exiting PROVE ServerInv'
<1> USE ServerConstants DEF ServerInv
<1>1. PICK how \in {"startup", "clean", "forced", "killed"} :
        /\ Exits(how)
        /\ exit = "running"
        /\ how = "forced" => phase = "draining" /\ budget = 0
  BY DEF Exiting, StartFails, CloseCallback, ForceExit, Killed, ExitInv
<1>2. ServerTypeOK'
  BY <1>1 DEF Exits, ServerTypeOK
<1>3. ConnInv' /\ CountInv'
  BY <1>1 DEF Exits, ConnInv, CountInv, Fetching
<1>4. BudgetInv'
  BY <1>1 DEF Exits, BudgetInv
<1>5. ForcedExitHasReason'
  <2> SUFFICES ASSUME how = "forced", Quiet
               PROVE  DrainBudget <= FetchBudget + (IF "keeping" \in held THEN KeepAlive ELSE 0)
    BY <1>1 DEF Exits, ForcedExitHasReason, Quiet
  <2>1. Elapsed = DrainBudget
    BY <1>1 DEF Elapsed
  <2>2. QED
    BY <1>1, <2>1 DEF BudgetInv
<1>6. ExitInv'
  BY <1>1, <1>5 DEF Exits, ExitInv
<1>7. QED
  BY <1>2, <1>3, <1>4, <1>6

LEMMA PhaseInv ==
  ASSUME ServerInv,
         \/ Listen \/ (\E c \in Connections : Connect(c)) \/ Shutdown \/ UNCHANGED serverVars
  PROVE  ServerInv'
<1> USE ServerConstants DEF ServerInv
<1>1. CASE Listen \/ UNCHANGED serverVars
  <2>1. UNCHANGED <<exit, conn, work, kind, timer, budget, counters, held>>
    BY <1>1 DEF Listen, serverVars
  <2>2. (phase' = "listening" /\ phase = "starting") \/ phase' = phase
    BY <1>1 DEF Listen, serverVars
  <2>3. ServerTypeOK' /\ CountInv'
    BY <2>1, <2>2 DEF ServerTypeOK, CountInv, counters
  <2>4. ConnInv' /\ BudgetInv' /\ ExitInv'
    BY <2>1, <2>2 DEF ConnInv, BudgetInv, ExitInv, ForcedExitHasReason, Fetching, Elapsed, Quiet
  <2>5. QED
    BY <2>3, <2>4
<1>2. ASSUME NEW c \in Connections, Connect(c) PROVE ServerInv'
  <2>1. ServerTypeOK' /\ CountInv'
    BY <1>2 DEF Connect, ServerTypeOK, CountInv, counters
  <2>2. ConnInv'
    BY <1>2 DEF Connect, ConnInv, Fetching, ServerTypeOK
  <2>3. BudgetInv' /\ ExitInv'
    BY <1>2 DEF Connect, BudgetInv, ExitInv, ForcedExitHasReason
  <2>4. QED
    BY <2>1, <2>2, <2>3
<1>3. CASE Shutdown
  <2>1. ServerTypeOK' /\ CountInv'
    BY <1>3 DEF Shutdown, ServerTypeOK, CountInv, counters
  <2>2. ConnInv'
    BY <1>3 DEF Shutdown, ConnInv, Fetching, ServerTypeOK
  <2>3. ExitInv'
    BY <1>3 DEF Shutdown, ExitInv, ForcedExitHasReason
  <2>4. BudgetInv'
    <3>1. Elapsed' = 0
      BY <1>3 DEF Shutdown, Elapsed
    <3>2. \A c \in Connections : /\ Fetching(c)' => timer'[c] <= FetchBudget
                                 /\ timer'[c] \in Nat /\ conn'[c] # "kept"
      BY <1>3, <2>1, <2>2 DEF Shutdown, ConnInv, ServerTypeOK
    <3>3. QED
      BY <3>1, <3>2 DEF BudgetInv
  <2>5. QED
    BY <2>1, <2>2, <2>3, <2>4
<1>4. QED
  BY <1>1, <1>2, <1>3

(* The invariant of the server in every state: its types, what each        *)
(* connection may still cost a shutdown, and the counters of the limiters. *)
THEOREM ServerInvAlways == Spec => []ServerInv
<1>1. ASSUME ServerInv, [Next]_vars PROVE ServerInv'
  <2>1. CASE \E c \in Connections : ConnectionStep(c)
    BY <1>1, <2>1, ConnectionInv
  <2>2. CASE Tick
    BY <1>1, <2>2, TickInv
  <2>3. CASE WindowEnds \/ Exiting
    BY <1>1, <2>3, WindowInv, ExitingInv
  <2>4. CASE ~Tick /\ ~WindowEnds /\ ~Exiting /\ ~(\E c \in Connections : ConnectionStep(c))
    BY <1>1, <2>4, PhaseInv DEF Next, WindowEnds, Exiting, ConnectionStep, StartStep, ToolStep,
                                ShutdownAgain, vars, serverVars
  <2>5. QED
    BY <2>1, <2>2, <2>3, <2>4
<1>2. QED
  BY <1>1, ServerInitInv, PTL DEF Spec

(* ForcedExitHasReason for any number of connections and any times.        *)
THEOREM ForcedExitHasReasonAlways == Spec => []ForcedExitHasReason
<1>1. ServerInv => ForcedExitHasReason
  BY DEF ServerInv, ExitInv
<1>2. QED
  BY <1>1, ServerInvAlways, PTL

(* WorkIsLimited for any limits, clients and connections.                  *)
THEOREM WorkIsLimitedAlways == Spec => []WorkIsLimited
<1>1. ASSUME ServerInv, NEW ip \in Clients PROVE bodies[ip] <= ApiLimit /\ calls[ip] <= StockLimit
  <2>1. /\ bodies[ip] \in Nat /\ apiHits[ip] \in 0 .. ApiLimit /\ bodies[ip] <= apiHits[ip]
        /\ calls[ip] \in Nat /\ stockHits[ip] \in 0 .. StockLimit /\ calls[ip] <= stockHits[ip]
    BY <1>1 DEF ServerInv, ServerTypeOK, CountInv
  <2>2. QED
    BY <2>1, ServerConstants
<1>2. ServerInv => WorkIsLimited
  BY <1>1 DEF WorkIsLimited
<1>3. QED
  BY <1>2, ServerInvAlways, PTL

=============================================================================
