------------------------------- MODULE Server -------------------------------
(***************************************************************************)
(* The HTTP server from its start to its exit: index.ts, app.ts, the       *)
(* middleware, routes/stock.ts, lifecycle/shutdown.ts, and the timer of    *)
(* services/alphaVantageClient.ts that bounds what a request waits for.    *)
(*                                                                         *)
(* It starts by opening its store (Migrations), perhaps beside the command *)
(* line tools.  A member of Connections is a connection that may be kept   *)
(* alive and so carries one request after the other.  Middleware that does *)
(* not await runs in the step in which a request comes in; the awaits are  *)
(* the body of a request, the headers and the body of the provider's       *)
(* answer.  Node's http module, Express, cors and express-rate-limit are   *)
(* external.  A unit of time is long compared with a step, so a timer that *)
(* is due fires before time goes on.                                       *)
(***************************************************************************)
EXTENDS Migrations

CONSTANTS Connections,
          Clients,      \* the values of req.ip
          Main,         \* the process that is the server
          UsesSqlite,   \* usesSqlite: STOCK_DATA_MODE is historical or hybrid
          ApiLimit,     \* rateLimit.apiLimit: requests to /api in a window
          StockLimit,   \* rateLimit.stockLimit: those to /api/stock
          FetchBudget,  \* ALPHA_VANTAGE_TIMEOUT_MS
          KeepAlive,    \* keepAliveTimeout of Node's server
          DrainBudget   \* timeoutMs of the shutdown controller

(* By default 8, 5 and 10 seconds; the first may be set to 1 to 30.        *)
ASSUME ServerConstants ==
  /\ Main \in Processes /\ UsesSqlite \in BOOLEAN
  /\ ApiLimit \in Nat /\ StockLimit \in Nat
  /\ FetchBudget \in Nat \ {0} /\ KeepAlive \in Nat \ {0} /\ DrainBudget \in Nat \ {0}

VARIABLES phase,      \* of the server: starting, listening, draining, exited
          exit,       \* how it has left
          conn,       \* what server.close() knows of each connection
          work,       \* what the handler of its request is awaiting
          kind,       \* what is asked, while its body is awaited
          timer,      \* time left to its provider call, or to it when kept alive
          budget,     \* time left to the shutdown
          apiHits, stockHits,  \* the counters of the two limiters
          bodies, calls,       \* history: bodies parsed and reports asked for in
                               \* the windows of the two
          held        \* history: what has held up the shutdown: what clients
                      \* send, connections that are kept

counters == <<apiHits, stockHits, bodies, calls>>
serverVars == <<phase, exit, conn, work, kind, timer, budget, counters, held>>
vars == <<migrationVars, serverVars>>

(* What a request may be: whose it is (with a trusted proxy in between not *)
(* a matter of the connection), where it goes, whether it has a body.      *)
Kind == [client : Clients,
         path : {"probe", "stock", "api", "other"},
         body : BOOLEAN]
NoKind == [path |-> "none"]

ServerTypeOK ==
  /\ phase \in {"starting", "listening", "draining", "exited"}
  /\ exit \in {"running", "clean", "forced", "startup", "killed"}
  /\ conn \in [Connections -> {"none", "new", "busy", "kept", "gone"}]
  /\ work \in [Connections -> {"idle", "uploading", "headers", "body"}]
  /\ kind \in [Connections -> Kind \cup {NoKind}]
  /\ timer \in [Connections -> Nat]
  /\ budget \in 0 .. DrainBudget
  /\ apiHits \in [Clients -> 0 .. ApiLimit] /\ stockHits \in [Clients -> 0 .. StockLimit]
  /\ bodies \in [Clients -> Nat] /\ calls \in [Clients -> Nat]
  /\ held \subseteq {"sending", "keeping"}

Init == /\ MigrationInit
        /\ phase = "starting" /\ exit = "running"
        /\ conn = [c \in Connections |-> "none"]
        /\ work = [c \in Connections |-> "idle"]
        /\ kind = [c \in Connections |-> NoKind]
        /\ timer = [c \in Connections |-> 0]
        /\ budget = DrainBudget
        /\ apiHits = [ip \in Clients |-> 0] /\ stockHits = [ip \in Clients |-> 0]
        /\ bodies = [ip \in Clients |-> 0] /\ calls = [ip \in Clients |-> 0]
        /\ held = {}

Up == phase \in {"listening", "draining"}

-----------------------------------------------------------------------------
(* Start.  createApp() opens the store in historical and hybrid mode; an   *)
(* exception there ends the process with code 1.                           *)

(* A step through the migrations.                                          *)
StartStep == /\ phase = "starting" /\ UsesSqlite
             /\ Migrate(Main)
             /\ UNCHANGED serverVars

(* The process ends, and with it its connections and its counters.         *)
Exits(how) ==
  /\ phase' = "exited" /\ exit' = how
  /\ conn' = [c \in Connections |-> "gone"]
  /\ work' = [c \in Connections |-> "idle"]
  /\ kind' = [c \in Connections |-> NoKind]
  /\ timer' = [c \in Connections |-> 0]
  /\ budget' = DrainBudget
  /\ apiHits' = [ip \in Clients |-> 0] /\ stockHits' = [ip \in Clients |-> 0]
  /\ bodies' = [ip \in Clients |-> 0] /\ calls' = [ip \in Clients |-> 0]
  /\ UNCHANGED held

StartFails == /\ phase = "starting" /\ stage[Main] = "failed"
              /\ Exits("startup")
              /\ UNCHANGED migrationVars

Listen == /\ phase = "starting"
          /\ stage[Main] = IF UsesSqlite THEN "ready" ELSE "down"
          /\ phase' = "listening"
          /\ UNCHANGED <<migrationVars, exit, conn, work, kind, timer, budget, counters, held>>

(* A command line tool opens the same database, and may die.  The bound    *)
(* ToolsFirst has the tools run before the first connection: what they     *)
(* share with the server is the schema, and no request looks at that again.*)
ToolsFirst == \A c \in Connections : conn[c] = "none"

ToolStep == /\ ToolsFirst
            /\ \E p \in Processes \ {Main} : Migrate(p) \/ Die(p)
            /\ UNCHANGED serverVars

-----------------------------------------------------------------------------
(* Connections and requests.                                               *)

(* A connection is accepted while the server listens (with ToolsFirst the  *)
(* tools have ended).  As long as no request has come on it, Node does not *)
(* count it as idle.                                                       *)
Connect(c) ==
  /\ phase = "listening" /\ conn[c] = "none"
  /\ \A p \in Processes \ {Main} : stage[p] = "down"
  /\ conn' = [conn EXCEPT ![c] = "new"]
  /\ UNCHANGED <<migrationVars, phase, exit, work, kind, timer, budget, counters, held>>

(* The request is answered, by a report or by an error.  Its connection    *)
(* ends or is kept alive for the next; of one that has gone nothing stays. *)
Answer(c) ==
  /\ work' = [work EXCEPT ![c] = "idle"]
  /\ kind' = [kind EXCEPT ![c] = NoKind]
  /\ \/ /\ conn[c] # "gone"
        /\ conn' = [conn EXCEPT ![c] = "kept"]
        /\ timer' = [timer EXCEPT ![c] = KeepAlive]
     \/ /\ conn' = [conn EXCEPT ![c] = "gone"]
        /\ timer' = [timer EXCEPT ![c] = 0]

Await(c, what, k, time) ==
  /\ work' = [work EXCEPT ![c] = what]
  /\ kind' = [kind EXCEPT ![c] = k]
  /\ timer' = [timer EXCEPT ![c] = time]
  /\ conn' = [conn EXCEPT ![c] = "busy"]

(* The report is asked for (ReportService, HybridReport have the layers):  *)
(* it comes from a cache or the database, or there is none to be had, or   *)
(* the provider is called.                                                 *)
GetReport(c, k) ==
  /\ calls' = [calls EXCEPT ![k.client] = @ + 1]
  /\ Answer(c) \/ Await(c, "headers", NoKind, FetchBudget)

(* An invalid ticker or range is refused before the service is called; so  *)
(* is anything but a GET, as not found.                                    *)
StockRoute(c, k) == GetReport(c, k) \/ (Answer(c) /\ UNCHANGED calls)

(* Behind the body parser: the stricter limiter and the router of stocks,  *)
(* or the handler of what matches nothing.  A counter that has reached its *)
(* limit goes on counting, which changes nothing before its window ends.   *)
Dispatch(c, k) ==
  \/ /\ k.path # "stock"
     /\ Answer(c)
     /\ UNCHANGED <<stockHits, calls>>
  \/ /\ k.path = "stock" /\ stockHits[k.client] = StockLimit
     /\ Answer(c)
     /\ UNCHANGED <<stockHits, calls>>
  \/ /\ k.path = "stock" /\ stockHits[k.client] < StockLimit
     /\ stockHits' = [stockHits EXCEPT ![k.client] = @ + 1]
     /\ StockRoute(c, k)

(* express.json(): without a body the request goes on at once.             *)
ParseBody(c, k) ==
  \/ /\ ~k.body
     /\ Dispatch(c, k)
     /\ UNCHANGED bodies
  \/ /\ k.body
     /\ bodies' = IF k.path = "other" THEN bodies ELSE [bodies EXCEPT ![k.client] = @ + 1]
     /\ Await(c, "uploading", k, 0)
     /\ UNCHANGED <<stockHits, calls>>

(* Faulty variant: the parser stands before the limiter of /api.           *)
LimitAfterParsing(c, k) == ParseBody(c, k) /\ UNCHANGED apiHits

(* The limiter of everything below /api, one counter for each client.      *)
LimitApi(c, k) ==
  \/ k.path = "other" /\ ParseBody(c, k) /\ UNCHANGED apiHits
  \/ /\ k.path # "other" /\ apiHits[k.client] < ApiLimit
     /\ apiHits' = [apiHits EXCEPT ![k.client] = @ + 1]
     /\ ParseBody(c, k)
  \/ /\ k.path # "other" /\ apiHits[k.client] = ApiLimit
     /\ Answer(c)
     /\ UNCHANGED counters

(* A request comes in, the first of its connection or a further one: it is *)
(* refused for its origin, or answered as a probe, or goes to the limiter. *)
(* A connection that is open may bring one while the server drains.        *)
Arrive(c, k) ==
  /\ Up /\ conn[c] \in {"new", "kept"}
  /\ \/ Answer(c) /\ UNCHANGED counters
     \/ k.path # "probe" /\ LimitApi(c, k)
  /\ held' = IF phase = "draining" THEN held \cup {"sending"} ELSE held
  /\ UNCHANGED <<migrationVars, phase, exit, budget>>

(* The body has come: it is not JSON or too large, or the request goes on. *)
BodyArrives(c) ==
  /\ Up /\ work[c] = "uploading"
  /\ \/ Answer(c) /\ UNCHANGED <<stockHits, calls>>
     \/ Dispatch(c, kind[c])
  /\ UNCHANGED <<migrationVars, phase, exit, budget, apiHits, bodies, held>>

Fetching(c) == work[c] \in {"headers", "body"}

(* The provider call throws or returns, its timer is cleared, and the      *)
(* handler answers.                                                        *)
CallEnds(c) == /\ Answer(c)
               /\ UNCHANGED <<migrationVars, phase, exit, budget, counters, held>>

(* Faulty variant: headers and body have a timer each.                     *)
HeadersRestartTimer(c) ==
  /\ Up /\ work[c] = "headers"
  /\ \/ CallEnds(c)
     \/ /\ work' = [work EXCEPT ![c] = "body"]
        /\ timer' = [timer EXCEPT ![c] = FetchBudget]
        /\ UNCHANGED <<migrationVars, phase, exit, conn, kind, budget, counters, held>>

(* The provider's headers: a status or a content type that is refused, or  *)
(* a body that is then awaited.                                            *)
HeadersCome(c) ==
  /\ Up /\ work[c] = "headers"
  /\ \/ CallEnds(c)
     \/ /\ work' = [work EXCEPT ![c] = "body"]
        /\ UNCHANGED <<migrationVars, phase, exit, conn, kind, timer, budget, counters, held>>

(* The whole body has come: a report, an advisory, or nothing usable.      *)
BodyComes(c) == Up /\ work[c] = "body" /\ CallEnds(c)

(* Faulty variant: the timer is cleared when the headers have come, as in  *)
(* the browser's api.ts.                                                   *)
AbortHeadersOnly(c) == Up /\ work[c] = "headers" /\ timer[c] = 0 /\ CallEnds(c)

(* The timer aborts the call: a timeout while the headers are awaited; a   *)
(* body cut short is taken for one that is not JSON.                       *)
Abort(c) == Up /\ Fetching(c) /\ timer[c] = 0 /\ CallEnds(c)

(* The client goes away.  A body that was being read ends there; a call of *)
(* the provider goes on, and is answered to nobody.                        *)
Disconnect(c) ==
  /\ Up /\ conn[c] \in {"new", "busy", "kept"}
  /\ conn' = [conn EXCEPT ![c] = "gone"]
  /\ \/ Fetching(c) /\ UNCHANGED <<work, kind, timer>>
     \/ /\ ~Fetching(c)
        /\ work' = [work EXCEPT ![c] = "idle"]
        /\ kind' = [kind EXCEPT ![c] = NoKind]
        /\ timer' = [timer EXCEPT ![c] = 0]
  /\ UNCHANGED <<migrationVars, phase, exit, budget, counters, held>>

(* No further request has come in time.                                    *)
KeepAliveEnds(c) ==
  /\ Up /\ conn[c] = "kept" /\ timer[c] = 0
  /\ conn' = [conn EXCEPT ![c] = "gone"]
  /\ UNCHANGED <<migrationVars, phase, exit, work, kind, timer, budget, counters, held>>

(* The window of a limiter is over for a client.                           *)
ApiWindowEnds(ip) ==
  /\ Up /\ apiHits[ip] > 0
  /\ apiHits' = [apiHits EXCEPT ![ip] = 0] /\ bodies' = [bodies EXCEPT ![ip] = 0]
  /\ UNCHANGED <<migrationVars, phase, exit, conn, work, kind, timer, budget,
                 stockHits, calls, held>>

StockWindowEnds(ip) ==
  /\ Up /\ stockHits[ip] > 0
  /\ stockHits' = [stockHits EXCEPT ![ip] = 0] /\ calls' = [calls EXCEPT ![ip] = 0]
  /\ UNCHANGED <<migrationVars, phase, exit, conn, work, kind, timer, budget,
                 apiHits, bodies, held>>

-----------------------------------------------------------------------------
(* Exit.                                                                   *)

(* The first SIGINT or SIGTERM: the timer is set, no new connection is     *)
(* accepted, and server.close() ends those that are idle at this moment.   *)
Shutdown ==
  /\ phase = "listening"
  /\ phase' = "draining" /\ budget' = DrainBudget
  /\ conn' = [c \in Connections |-> IF conn[c] = "kept" THEN "gone" ELSE conn[c]]
  /\ timer' = [c \in Connections |-> IF conn[c] = "kept" THEN 0 ELSE timer[c]]
  /\ UNCHANGED <<migrationVars, exit, work, kind, counters, held>>

(* Faulty variant: a further signal sets the timer again.                  *)
RestartBudget ==
  /\ phase = "draining" /\ budget < DrainBudget
  /\ budget' = DrainBudget
  /\ UNCHANGED <<migrationVars, phase, exit, conn, work, kind, timer, counters, held>>

(* A further signal is logged and ignored.                                 *)
ShutdownAgain == phase = "draining" /\ UNCHANGED vars

(* server.close() waits for every connection, those kept alive included.   *)
Drained == \A c \in Connections : conn[c] \in {"none", "gone"}

(* The callback of server.close(): the last connection has ended.          *)
CloseCallback == /\ phase = "draining" /\ Drained
                 /\ Exits("clean")
                 /\ UNCHANGED migrationVars

ForceExit == /\ phase = "draining" /\ budget = 0
             /\ Exits("forced")
             /\ UNCHANGED migrationVars

(* The server dies, at any point; the database sees what Die says.         *)
Killed == /\ phase # "exited"
          /\ IF stage[Main] = "down" THEN UNCHANGED migrationVars ELSE Die(Main)
          /\ Exits("killed")

(* Time passes for the timers that are set.                                *)
Timed(c) == Fetching(c) \/ conn[c] = "kept"

Held == {h \in {"sending", "keeping"} :
           \E c \in Connections :
             IF h = "keeping" THEN conn[c] = "kept" ELSE conn[c] = "new" \/ work[c] = "uploading"}

Tick == /\ Up
        /\ \E c \in Connections : Timed(c) \/ phase = "draining"
        /\ \A c \in Connections : Timed(c) => timer[c] > 0
        /\ phase = "draining" => budget > 0 /\ ~Drained
        /\ timer' = [c \in Connections |-> IF Timed(c) THEN timer[c] - 1 ELSE timer[c]]
        /\ budget' = IF phase = "draining" THEN budget - 1 ELSE budget
        /\ held' = IF phase = "draining" THEN held \cup Held ELSE held
        /\ UNCHANGED <<migrationVars, phase, exit, conn, work, kind, counters>>

Next == \/ StartStep \/ StartFails \/ Listen \/ ToolStep
        \/ \E c \in Connections : \/ Connect(c)
                                  \/ \E k \in Kind : Arrive(c, k)
                                  \/ BodyArrives(c) \/ HeadersCome(c) \/ BodyComes(c)
                                  \/ Abort(c) \/ Disconnect(c) \/ KeepAliveEnds(c)
        \/ \E ip \in Clients : ApiWindowEnds(ip) \/ StockWindowEnds(ip)
        \/ Shutdown \/ ShutdownAgain \/ CloseCallback \/ ForceExit \/ Killed \/ Tick

Spec == Init /\ [][Next]_vars

(* Timers fire and callbacks run.  Nothing is promised of clients, of the  *)
(* provider, of signals and of the tools.                                  *)
FairSpec == /\ Spec
            /\ WF_vars(Tick) /\ WF_vars(ForceExit) /\ WF_vars(CloseCallback)
            /\ \A c \in Connections : WF_vars(Abort(c)) /\ WF_vars(KeepAliveEnds(c))

-----------------------------------------------------------------------------

(* A forced exit has its reason: after the signal a client was still       *)
(* sending, its first request or a body, while time went on, or sent a     *)
(* further request; or the time of the shutdown is no longer than that of  *)
(* a provider call and, where an idle connection was kept alive meanwhile, *)
(* of keeping it.  So the provider and idle browsers never force the exit  *)
(* when both together are given less time than the shutdown                *)
(* (shutdown.ts:56-78, alphaVantageClient.ts:270-330).                     *)
ForcedExitHasReason ==
  exit = "forced" =>
    \/ "sending" \in held
    \/ DrainBudget <= FetchBudget + (IF "keeping" \in held THEN KeepAlive ELSE 0)

(* What the comment at shutdown.ts:31-34 says: the process exits 0 once    *)
(* the requests in flight have drained, and is forced out when draining    *)
(* takes too long, so a forced exit leaves a request without its answer.   *)
(* It does not hold (no configuration is kept): what server.close() waits  *)
(* for are connections.                                                    *)
ForcedExitCutsOff ==
  [][ForceExit /\ "sending" \notin held => \E c \in Connections : conn[c] = "busy"]_vars

(* Within one window of a limiter no more bodies of a client are parsed    *)
(* below /api than apiLimit and no more reports asked for than stockLimit, *)
(* however bodies trickle in, whatever connections its requests come on    *)
(* and however the windows of the two limiters lie (app.ts:155-159,        *)
(* 237-271).                                                               *)
WorkIsLimited == \A ip \in Clients : bodies[ip] <= ApiLimit /\ calls[ip] <= StockLimit

(* A shutdown ends, whatever the clients and the provider do, and however  *)
(* many signals come (shutdown.ts:45-78).                                  *)
ShutdownEnds == phase = "draining" ~> phase = "exited"

(* A request that waits for the provider is answered within the time of    *)
(* the client, whether headers or body are late, unless the process exits  *)
(* (alphaVantageClient.ts:272-330).                                        *)
FetchesEnd == \A c \in Connections : Fetching(c) ~> (~Fetching(c) \/ phase = "exited")

=============================================================================
