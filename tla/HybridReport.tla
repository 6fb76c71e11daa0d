---------------------------- MODULE HybridReport ----------------------------
(***************************************************************************)
(* getHistoricalReport() of services/stockService.ts: the historical and   *)
(* hybrid modes of the server, which answer from the bars of SQLite.  In   *)
(* hybrid mode a request first awaits the sync of MarketSync, of which     *)
(* this module takes the steps; the other process of MarketSync is the     *)
(* daily job, which syncs and imports CSV files on its own.                *)
(*                                                                         *)
(* A member of Callers whose process is the server is one request for its  *)
(* range.  A report is reduced to its last bar and to its dataStatus, and  *)
(* the memory cache to one entry for each range.  The server is an event   *)
(* loop: the statements that read the bars and then their status are two   *)
(* steps, with writes of other processes in between but no other code of   *)
(* the server; and a request whose sync has settled resumes before the     *)
(* server turns to anything else.                                          *)
(***************************************************************************)
EXTENDS MarketSync

CONSTANTS Server,  \* the process that answers requests
          Ttl      \* time to live of the memory cache, in clock units

ASSUME HybridConstants == Server \in Procs /\ Ttl \in Nat \ {0}

VARIABLES mode,      \* dataMode
          cache,     \* the report that the memory cache holds for each range
          stage,     \* where each request stands
          outcome,   \* the SyncOutcome it was given
          got,       \* the report it was given, or has in hand
          reply,     \* how it was answered
          known,     \* history: the latest day stored when it came in,
          floor,     \*   the latest day its range had been answered with by then,
          served     \*   and when it was answered

requestVars == <<stage, outcome, got, reply, known, floor, served>>
hybridVars == <<vars, mode, cache, requestVars>>

NoReport == [last |-> 0, latest |-> 0, stale |-> FALSE, fallback |-> FALSE,
             dataSource |-> "sqlite", due |-> 0]
Report == [last : Days, latest : {0} \cup Days, stale : BOOLEAN, fallback : BOOLEAN,
           dataSource : {"sqlite", "api"}, due : 0 .. Horizon + Ttl]
NoOutcome == [result |-> "none", top |-> 0]
SyncOutcome == [result : {"none", "skipped", "success", "failed", "throws"},
                top : {0} \cup Days]  \* the last of syncedDates

HybridTypeOK ==
  /\ TypeOK
  /\ mode \in {"historical", "hybrid"}
  /\ cache \in [Ranges -> Report \cup {NoReport}]
  /\ stage \in [Callers -> {"out", "syncing", "bars", "done"}]
  /\ outcome \in [Callers -> SyncOutcome]
  /\ got \in [Callers -> Report \cup {NoReport}]
  /\ reply \in [Callers -> {"none", "hit", "fresh", "noData", "error"}]
  /\ known \in [Callers -> {0} \cup Days]
  /\ floor \in [Callers -> {0} \cup Days]
  /\ served \in [Callers -> Times]

HybridInit == /\ Init
              /\ mode \in {"historical", "hybrid"}
              /\ cache = [g \in Ranges |-> NoReport]
              /\ stage = [c \in Callers |-> "out"]
              /\ outcome = [c \in Callers |-> NoOutcome]
              /\ got = [c \in Callers |-> NoReport]
              /\ reply = [c \in Callers |-> "none"]
              /\ known = [c \in Callers |-> 0]
              /\ floor = [c \in Callers |-> 0]
              /\ served = [c \in Callers |-> 0]

-----------------------------------------------------------------------------
(* The event loop of the server.                                           *)

IsRequest(c) == call[c].proc = Server
RangeOf(c) == call[c].range

(* The request is between its two groups of statements, or its sync has    *)
(* settled and it is about to resume.                                      *)
Resuming(c) == stage[c] = "syncing" /\ pc[c] = "done"
LoopFree(p) == p = Server => \A c \in Callers : stage[c] # "bars" /\ ~Resuming(c)

(* The end of a call of sync() is what it returns to those that await it.  *)
Returns(c, result) ==
  outcome' = [d \in Callers |-> IF pc[d] # "done" /\ pc'[d] = "done"
                                THEN [result |-> result, top |-> call[c].top] ELSE outcome[d]]

SyncAdvance(c) ==
  /\ \/ (SkipFresh(c) \/ SkipRecent(c)) /\ Returns(c, "skipped")
     \/ RecordSuccess(c) /\ Returns(c, "success")
     \/ RecordFailure(c) /\ Returns(c, "failed")
     \/ RecordThrows(c) /\ Returns(c, "throws")
     \/ CallProvider(c) /\ UNCHANGED outcome
     \/ /\ LoopFree(call[c].proc)
        /\ ProviderFails(c) \/ \E last \in {0} \cup Days : Answer(c, last)
        /\ UNCHANGED outcome
  /\ UNCHANGED <<mode, cache, stage, got, reply, known, floor, served>>

(* The daily job tops the ticker up, or imports files.                     *)
DailySync(c) == /\ ~IsRequest(c)
                /\ Join(c) \/ Begin(c)
                /\ UNCHANGED <<mode, cache, requestVars>>

DailyImport == /\ \E p \in Procs \ {Server}, days \in SUBSET Days : CsvImport(p, days)
               /\ UNCHANGED <<mode, cache, requestVars>>

-----------------------------------------------------------------------------
(* A request.                                                              *)

(* The day that a range was last answered with.                            *)
IsFloor(d, g) ==
  LET answers == {got[c].last : c \in {e \in Callers : RangeOf(e) = g /\ reply[e] \in {"hit", "fresh"}}}
  IN  d \in {0} \cup answers /\ \A a \in answers : a <= d

Arrive(c) == /\ stage[c] = "out" /\ IsRequest(c)
             /\ LoopFree(Server) /\ Free(Server)
             /\ \E l \in {0} \cup Days : IsLatest(l, bars) /\ known' = [known EXCEPT ![c] = l]
             /\ \E d \in {0} \cup Days : IsFloor(d, RangeOf(c)) /\ floor' = [floor EXCEPT ![c] = d]

Answered(c, how) == /\ stage' = [stage EXCEPT ![c] = "done"]
                    /\ reply' = [reply EXCEPT ![c] = how]
                    /\ served' = [served EXCEPT ![c] = clock]

Cached(c) == cache[RangeOf(c)] # NoReport /\ cache[RangeOf(c)].due > clock

(* An expired entry is deleted as it is looked up.                         *)
LookUp(c) == cache' = [cache EXCEPT ![RangeOf(c)] = IF Cached(c) THEN @ ELSE NoReport]

Hit(c) == /\ Arrive(c) /\ Cached(c)
          /\ Answered(c, "hit")
          /\ got' = [got EXCEPT ![c] = cache[RangeOf(c)]]
          /\ UNCHANGED <<vars, mode, cache, outcome>>

(* The hybrid mode awaits a call of sync(), which may be another request's.*)
AwaitSync(c) == /\ mode = "hybrid"
                /\ Arrive(c) /\ ~Cached(c) /\ LookUp(c)
                /\ Join(c) \/ Begin(c)
                /\ stage' = [stage EXCEPT ![c] = "syncing"]
                /\ UNCHANGED <<mode, outcome, got, reply, served>>

(* Faulty variant: the bars that the limit keeps are the oldest.           *)
ReadOldBars(c, latest) ==
  IF Stored(bars) = {} THEN Answered(c, "noData") /\ UNCHANGED got
  ELSE /\ \A d \in Stored(bars) : latest <= d
       /\ latest \in Stored(bars)
       /\ stage' = [stage EXCEPT ![c] = "bars"]
       /\ got' = [got EXCEPT ![c].last = latest]
       /\ UNCHANGED <<reply, served>>

(* getTimeSeries(): the bars are read, or there are none and the request   *)
(* ends with the error of its sync or with INSUFFICIENT_DATA.              *)
ReadBars(c, latest) ==
  /\ IsLatest(latest, bars)
  /\ \/ /\ latest = 0
        /\ Answered(c, "noData")
        /\ UNCHANGED got
     \/ /\ latest # 0
        /\ stage' = [stage EXCEPT ![c] = "bars"]
        /\ got' = [got EXCEPT ![c].last = latest]
        /\ UNCHANGED <<reply, served>>

(* The historical mode reads at once.                                      *)
ReadStored(c) == /\ mode = "historical"
                 /\ Arrive(c) /\ ~Cached(c) /\ LookUp(c)
                 /\ \E latest \in {0} \cup Days : ReadBars(c, latest)
                 /\ UNCHANGED <<vars, mode, outcome>>

ResumeFree(c) == Resuming(c) /\ Free(Server) /\ \A d \in Callers : stage[d] # "bars"

(* Faulty variant: a failed sync ends the request.                         *)
ReadUnlessFailed(c) ==
  /\ ResumeFree(c) /\ outcome[c].result # "throws"
  /\ \E latest \in {0} \cup Days :
       IF outcome[c].result = "failed" THEN Answered(c, "noData") /\ UNCHANGED got
       ELSE ReadBars(c, latest)
  /\ UNCHANGED <<vars, mode, cache, outcome, known, floor>>

(* A failed sync is no reason not to read what is stored ...               *)
ReadAfterSync(c) ==
  /\ ResumeFree(c) /\ outcome[c].result # "throws"
  /\ \E latest \in {0} \cup Days : ReadBars(c, latest)
  /\ UNCHANGED <<vars, mode, cache, outcome, known, floor>>

(* ... but one that throws is.                                             *)
SyncRejects(c) ==
  /\ ResumeFree(c) /\ outcome[c].result = "throws"
  /\ Answered(c, "error")
  /\ UNCHANGED <<vars, mode, cache, outcome, got, known, floor>>

(* Faulty variant: stored data counts as fresh after a skip.               *)
StatusAfterSkip(c, latest) ==
  [last |-> got[c].last,
   latest |-> latest,
   stale |-> latest < Expected(clock) /\ outcome[c].result # "skipped",
   fallback |-> outcome[c].result = "failed",
   dataSource |-> IF outcome[c].result = "success" /\ outcome[c].top # 0 THEN "api" ELSE "sqlite",
   due |-> clock + Ttl]

(* buildDataStatus() with the freshness of the latest day stored by now;   *)
(* the expiry that the cache will give.                                    *)
WithStatus(c, latest) ==
  [last |-> got[c].last,
   latest |-> latest,
   stale |-> latest < Expected(clock),
   fallback |-> outcome[c].result = "failed",
   dataSource |-> IF outcome[c].result = "success" /\ outcome[c].top # 0 THEN "api" ELSE "sqlite",
   due |-> clock + Ttl]

Publish(c) ==
  /\ stage[c] = "bars"
  /\ \E latest \in {0} \cup Days :
       /\ IsLatest(latest, bars)
       /\ got' = [got EXCEPT ![c] = WithStatus(c, latest)]
  /\ cache' = [cache EXCEPT ![RangeOf(c)] = got'[c]]
  /\ Answered(c, "fresh")
  /\ UNCHANGED <<vars, mode, outcome, known, floor>>

Request(c) == Hit(c) \/ AwaitSync(c) \/ ReadStored(c)
Resume(c) == ReadAfterSync(c) \/ SyncRejects(c) \/ Publish(c)

(* Reports of other tickers push this one's out of the cache.              *)
Evict(g) == /\ cache[g] # NoReport
            /\ cache' = [cache EXCEPT ![g] = NoReport]
            /\ UNCHANGED <<vars, mode, requestVars>>

HybridTick == Tick /\ UNCHANGED <<mode, cache, requestVars>>

(* A process dies with its calls; the server with its cache and requests.  *)
DailyCrash == /\ \E p \in Procs \ {Server} : Crash(p)
              /\ UNCHANGED <<mode, cache, requestVars>>

Lost(c) == stage[c] \in {"syncing", "bars"}

ServerCrash ==
  /\ \E c \in Callers : Lost(c)
  /\ IF \E c \in Callers : IsRequest(c) /\ pc[c] \notin {"idle", "done"}
     THEN Crash(Server) ELSE UNCHANGED vars
  /\ cache' = [g \in Ranges |-> NoReport]
  /\ stage' = [c \in Callers |-> IF Lost(c) THEN "done" ELSE stage[c]]
  /\ got' = [c \in Callers |-> IF Lost(c) THEN NoReport ELSE got[c]]
  /\ UNCHANGED <<mode, outcome, reply, known, floor, served>>

HybridNext == \/ \E c \in Callers : SyncAdvance(c) \/ DailySync(c) \/ Request(c) \/ Resume(c)
              \/ \E g \in Ranges : Evict(g)
              \/ DailyImport \/ HybridTick \/ DailyCrash \/ ServerCrash

HybridSpec == HybridInit /\ [][HybridNext]_hybridVars

(* As in MarketSync; and the server goes on with what it has begun.        *)
FairHybridSpec == HybridSpec /\ \A c \in Callers : WF_hybridVars(SyncAdvance(c) \/ Resume(c))

-----------------------------------------------------------------------------

Reported(c) == reply[c] \in {"hit", "fresh"}

(* A provider that fails costs freshness and nothing else: a request is    *)
(* told that there is no data only if there was none when it came in       *)
(* (stockService.ts:259-264, 288-295).                                     *)
NoDataIsTrue == \A c \in Callers : reply[c] = "noData" => known[c] = 0

(* A request sees the bars that its sync wrote, its own or the one it      *)
(* joined, and its status covers the bars it shows                         *)
(* (stockService.ts:281-308).                                              *)
ReadsItsSync == \A c \in Callers : reply[c] = "fresh" => /\ got[c].last >= outcome[c].top
                                                         /\ got[c].latest >= got[c].last

(* A range never goes back in time: a request shows no older last bar than *)
(* the requests that had been answered before it came in, through cache    *)
(* hits, evictions, failures and restarts (stockService.ts:274-312).       *)
NeverOlder == \A c \in Callers : Reported(c) => got[c].last >= floor[c]

(* What a report says of its freshness is true of its series at an instant:*)
(* of one that ends on the day that the status names in both directions;   *)
(* of one that ends before, because an import came in between, only that   *)
(* it is stale.                                                            *)
SaysTrue(r, t) == /\ r.stale => r.last < Expected(t)
                  /\ ~r.stale /\ r.last = r.latest => r.last >= Expected(t)

(* What a report says of its freshness was true of the series it shows at  *)
(* an instant not longer ago than the cache's time to live, whether it is  *)
(* new or comes from the cache, after a failed, a skipped or a joined sync *)
(* (stockService.ts:281-311).                                              *)
FreshnessIsTrue ==
  \A c \in Callers : Reported(c) =>
    \E t \in Times : t <= served[c] /\ served[c] < t + Ttl /\ SaysTrue(got[c], t)

(* What the comment at domain/historical.ts:109-111 says, that dataStatus  *)
(* describes how fresh the served report is, without the exception made    *)
(* above for a status that is newer than the series.  It does not hold (no *)
(* configuration is kept): the bars and the latest day stored are read by  *)
(* two statements (stockService.ts:288, 299).                              *)
ShownIsFresh ==
  \A c \in Callers : Reported(c) /\ ~got[c].stale =>
    \E t \in Times : t <= served[c] /\ served[c] < t + Ttl /\ got[c].last >= Expected(t)

(* Every request is answered, unless its process dies.                     *)
EveryReportEnds == \A c \in Callers : stage[c] = "syncing" ~> stage[c] = "done"

=============================================================================
