----------------------------- MODULE MarketSync -----------------------------
(***************************************************************************)
(* The provider top-up of one ticker: services/marketDataSyncService.ts    *)
(* over the tables price_bars and sync_state, which the server and the     *)
(* command-line jobs share.  Tickers do not interact (every row and every  *)
(* in-flight key carries its ticker), so one of them is modelled.          *)
(*                                                                         *)
(* A member of Callers is one call of sync(), made in some process for     *)
(* some range.  A process is an event loop: the code between two awaits    *)
(* runs with no other code of that process in between, but each of its SQL *)
(* statements is a step of its own, for other processes write between      *)
(* them.  The await on the provider is where everything else can happen.   *)
(*                                                                         *)
(* Trading days are numbered from 1, instants from 1; 0 is null.           *)
(***************************************************************************)
EXTENDS Naturals

CONSTANTS Callers, Procs, Ranges,
          Nobody,      \* no call in flight
          StaleAfter,  \* staleAfterHours, in clock units
          DayLen,      \* clock units from one close to the next
          Horizon      \* bound on the clock

ASSUME SyncConstants == /\ Nobody \notin Callers
                        /\ StaleAfter \in Nat
                        /\ DayLen \in Nat \ {0}
                        /\ Horizon \in Nat \ {0}

VARIABLES clock,
          bars,      \* price_bars: the source of the bar of each day
          state,     \* the row of sync_state
          inflight,  \* the in-flight map of each process
          pc,        \* where each call stands
          call,      \* its process and range, and what it read when it began
          lastCall   \* history: the instant of the last provider call that
                     \* its process lived to record

vars == <<clock, bars, state, inflight, pc, call, lastCall>>

(* expectedLatestCompletedTradingDay(): the last day whose close is past.  *)
Expected(t) == t \div DayLen
Days == 1 .. (Horizon \div DayLen + 1)
Times == 0 .. Horizon

(* MAX(trade_date), null on an empty table.                                *)
Stored(b) == {d \in Days : b[d] # "none"}
IsLatest(l, b) == IF Stored(b) = {} THEN l = 0
                  ELSE l \in Stored(b) /\ \A d \in Stored(b) : d <= l

SyncState == [latest : {0} \cup Days, attempt : Times, success : Times]
Pc == {"idle", "read", "calling", "failing", "stored", "waiting", "done"}
Call == [proc : Procs, range : Ranges, ref : Times, latest : {0} \cup Days,
         top : {0} \cup Days, owner : Callers]

TypeOK == /\ clock \in Times
          /\ bars \in [Days -> {"none", "csv", "api"}]
          /\ state \in SyncState
          /\ inflight \in [Procs -> [Ranges -> Callers \cup {Nobody}]]
          /\ pc \in [Callers -> Pc]
          /\ call \in [Callers -> Call]
          /\ lastCall \in Times

Unread(c, p, g) ==
  [proc |-> p, range |-> g, ref |-> 0, latest |-> 0, top |-> 0, owner |-> c]

(* A new database: history comes from CSV files and from the provider.     *)
Init == /\ clock = 1
        /\ bars = [d \in Days |-> "none"]
        /\ state = [latest |-> 0, attempt |-> 0, success |-> 0]
        /\ inflight = [p \in Procs |-> [g \in Ranges |-> Nobody]]
        /\ pc = [c \in Callers |-> "idle"]
        /\ \E p \in [Callers -> Procs], g \in [Callers -> Ranges] :
             call = [c \in Callers |-> Unread(c, p[c], g[c])]
        /\ lastCall = 0

-----------------------------------------------------------------------------

(* c runs between two awaits: no other code of its process does.           *)
Running(c) == pc[c] \in {"read", "failing", "stored"}
Free(p) == \A c \in Callers : Running(c) => call[c].proc # p

(* Faulty variant: an upsert without COALESCE.                             *)
OverwriteAttempt(at, latest, success) ==
  state' = [latest |-> latest, attempt |-> at, success |-> success]

(* recordAttempt(): COALESCE keeps latest_trade_date and last_success_at   *)
(* when the attempt brings none; last_attempt_at is always overwritten.    *)
RecordAttempt(at, latest, success) ==
  state' = [latest  |-> IF latest # 0 THEN latest ELSE state.latest,
            attempt |-> at,
            success |-> IF success # 0 THEN success ELSE state.success]

End(cs) == /\ pc' = [c \in Callers |-> IF c \in cs THEN "done" ELSE pc[c]]
           /\ call' = [c \in Callers |->
                         IF c \in cs THEN Unread(c, call[c].proc, call[c].range) ELSE call[c]]

(* Faulty variant: those that share the call are forgotten.                *)
SettleAlone(c) ==
  End({c}) /\ inflight' = [inflight EXCEPT ![call[c].proc][call[c].range] = Nobody]

(* The promise of c settles: c and those that share it go on, what they    *)
(* had read is gone, and the finally block clears the key.                 *)
Settle(c) ==
  /\ End({c} \cup {d \in Callers : pc[d] = "waiting" /\ call[d].owner = c})
  /\ inflight' = [inflight EXCEPT ![call[c].proc][call[c].range] = Nobody]

Goto(c, point) == pc' = [pc EXCEPT ![c] = point]

(* sync(): share the call in flight for this ticker and range ...          *)
Join(c) == LET owner == inflight[call[c].proc][call[c].range]
           IN  /\ pc[c] = "idle" /\ Free(call[c].proc)
               /\ owner # Nobody
               /\ Goto(c, "waiting")
               /\ call' = [call EXCEPT ![c].owner = owner]
               /\ UNCHANGED <<clock, bars, state, inflight, lastCall>>

(* Faulty variant: the in-flight map is not consulted.                     *)
BeginAlways(c) == LET p == call[c].proc  g == call[c].range
                  IN  /\ pc[c] = "idle" /\ Free(p)
                      /\ inflight' = [inflight EXCEPT ![p][g] = c]
                      /\ Goto(c, "read")
                      /\ \E l \in {0} \cup Days :
                           /\ IsLatest(l, bars)
                           /\ call' = [call EXCEPT ![c].ref = clock, ![c].latest = l]
                      /\ UNCHANGED <<clock, bars, state, lastCall>>

(* ... or begin one: read the clock and the latest stored day.             *)
Begin(c) == LET p == call[c].proc  g == call[c].range
            IN  /\ pc[c] = "idle" /\ Free(p)
                /\ inflight[p][g] = Nobody
                /\ inflight' = [inflight EXCEPT ![p][g] = c]
                /\ Goto(c, "read")
                /\ \E l \in {0} \cup Days :
                     /\ IsLatest(l, bars)
                     /\ call' = [call EXCEPT ![c].ref = clock, ![c].latest = l]
                /\ UNCHANGED <<clock, bars, state, lastCall>>

Fresh(c) == call[c].latest # 0 /\ call[c].latest >= Expected(call[c].ref)

WithinWindow(c) == state.attempt # 0 /\ call[c].ref - state.attempt < StaleAfter

(* 2. Already current: the skip is recorded as an attempt.                 *)
SkipFresh(c) == /\ pc[c] = "read" /\ Fresh(c)
                /\ RecordAttempt(call[c].ref, call[c].latest, 0)
                /\ Settle(c)
                /\ UNCHANGED <<clock, bars, lastCall>>

(* 3. Attempted recently: skip and record nothing.                         *)
SkipRecent(c) == /\ pc[c] = "read" /\ ~Fresh(c) /\ WithinWindow(c)
                 /\ Settle(c)
                 /\ UNCHANGED <<clock, bars, state, lastCall>>

(* 4. Otherwise call the provider, and await it.                           *)
CallProvider(c) == /\ pc[c] = "read" /\ ~Fresh(c) /\ ~WithinWindow(c)
                   /\ Goto(c, "calling")
                   /\ lastCall' = call[c].ref
                   /\ UNCHANGED <<clock, bars, state, inflight, call>>

(* The call throws (timeouts and rate limits included), or answers with a  *)
(* series that is rejected as a whole, or the transaction rolls back.      *)
ProviderFails(c) == /\ pc[c] = "calling" /\ Free(call[c].proc)
                    /\ Goto(c, "failing")
                    /\ UNCHANGED <<clock, bars, state, inflight, call, lastCall>>

(* The provider answers with the days up to `last`, which may lag behind   *)
(* the calendar or include the day in progress.  The days after the one    *)
(* that was the latest when the call began are upserted in a transaction.  *)
NewDays(c, last) == {d \in Days : call[c].latest < d /\ d <= last}

(* Faulty variant: the transaction is not committed.                       *)
AnswerUnsaved(c, last) ==
  /\ pc[c] = "calling" /\ Free(call[c].proc)
  /\ last <= Expected(clock) + 1
  /\ call' = [call EXCEPT ![c].top = IF NewDays(c, last) = {} THEN @ ELSE last]
  /\ Goto(c, "stored")
  /\ UNCHANGED <<clock, bars, state, inflight, lastCall>>

Answer(c, last) ==
  /\ pc[c] = "calling" /\ Free(call[c].proc)
  /\ last <= Expected(clock) + 1
  /\ bars' = [d \in Days |-> IF d \in NewDays(c, last) THEN "api" ELSE bars[d]]
  /\ call' = [call EXCEPT ![c].top = IF NewDays(c, last) = {} THEN @ ELSE last]
  /\ Goto(c, "stored")
  /\ UNCHANGED <<clock, state, inflight, lastCall>>

(* The attempt is recorded with the clock and latest day read at the start *)
(* and, on success, the last of the new days if there are any.             *)
RecordSuccess(c) ==
  /\ pc[c] = "stored"
  /\ RecordAttempt(call[c].ref, IF call[c].top # 0 THEN call[c].top ELSE call[c].latest,
                   call[c].ref)
  /\ Settle(c)
  /\ UNCHANGED <<clock, bars, lastCall>>

(* Faulty variant: a failed attempt leaves no record.                      *)
ForgetFailure(c) == /\ pc[c] = "failing"
                    /\ Settle(c)
                    /\ UNCHANGED <<clock, bars, state, lastCall>>

RecordFailure(c) == /\ pc[c] = "failing"
                    /\ RecordAttempt(call[c].ref, call[c].latest, 0)
                    /\ Settle(c)
                    /\ UNCHANGED <<clock, bars, lastCall>>

(* recordAttempt() throws (the database is busy or full): sync() rejects.  *)
RecordThrows(c) == /\ pc[c] \in {"failing", "stored"} \/ (pc[c] = "read" /\ Fresh(c))
                   /\ Settle(c)
                   /\ lastCall' = IF pc[c] = "read" THEN lastCall ELSE 0
                   /\ UNCHANGED <<clock, bars, state>>

(* A CSV file is imported in a transaction of its own, by any process.     *)
CsvImport(p, days) == /\ Free(p)
                      /\ days # {} /\ \A d \in days : d <= Expected(clock)
                      /\ bars' = [d \in Days |-> IF d \in days THEN "csv" ELSE bars[d]]
                      /\ UNCHANGED <<clock, state, inflight, pc, call, lastCall>>

(* A process dies with its calls, and is started again with an empty map.  *)
Crash(p) == 
  /\ \E c \in Callers : call[c].proc = p /\ pc[c] \notin {"idle", "done"}
  /\ End({c \in Callers : call[c].proc = p /\ pc[c] # "idle"})
  /\ inflight' = [inflight EXCEPT ![p] = [g \in Ranges |-> Nobody]]
  /\ lastCall' = 0
  /\ UNCHANGED <<clock, bars, state>>

Tick == /\ clock < Horizon
        /\ clock' = clock + 1
        /\ UNCHANGED <<bars, state, inflight, pc, call, lastCall>>

(* The steps of a call once it is made.                                    *)
Advance(c) == \/ SkipFresh(c) \/ SkipRecent(c) \/ CallProvider(c)
              \/ ProviderFails(c) \/ \E last \in {0} \cup Days : Answer(c, last)
              \/ RecordSuccess(c) \/ RecordFailure(c) \/ RecordThrows(c)

Next == \/ Tick
        \/ \E c \in Callers : Join(c) \/ Begin(c) \/ Advance(c)
        \/ \E p \in Procs : Crash(p) \/ \E days \in SUBSET Days : CsvImport(p, days)

Spec == Init /\ [][Next]_vars

(* Synchronous code goes on; the provider client aborts its request after  *)
(* a timeout, so a call in flight always ends.                             *)
FairSpec == Spec /\ \A c \in Callers : WF_vars(Advance(c))

-----------------------------------------------------------------------------

(* Within a process, concurrent calls for the same range share one         *)
(* provider request: no interleaving of joins, failures and clean-ups puts *)
(* two of them on the wire (marketDataSyncService.ts:28-29, 271-292).      *)
OneCallPerRange ==
  \A c, d \in {e \in Callers : pc[e] = "calling"} :
    call[c].proc = call[d].proc /\ call[c].range = call[d].range => c = d

(* What docs/DATA_PIPELINE.md:77 and :84 say: concurrent requests for a    *)
(* ticker share one call, whatever their ranges.  It does not hold (no     *)
(* configuration is kept): the key of the in-flight map has the range in   *)
(* it (marketDataSyncService.ts:277).                                      *)
OneCallPerTicker ==
  \A c, d \in {e \in Callers : pc[e] = "calling"} : call[c].proc = call[d].proc => c = d

(* sync_state never runs ahead of price_bars: the day it names as the      *)
(* latest is stored, whichever step failed and whichever process wrote     *)
(* last (marketDataSyncService.ts:219-257).                                *)
SyncStateIsBacked == state.latest # 0 => bars[state.latest] # "none"

(* All calls are for one range and made in one process.                    *)
OneQueue == \A c, d \in Callers : call[c].proc = call[d].proc /\ call[c].range = call[d].range

(* Two provider calls are StaleAfter apart, failures included, when they   *)
(* go through one in-flight key: the attempt is on record before the next  *)
(* call is decided, unless it could not be written                         *)
(* (marketDataSyncService.ts:21-23, 141-152).                              *)
CallsAreThrottled ==
  [][OneQueue => \A c \in Callers : pc[c] = "read" /\ pc'[c] = "calling" =>
       lastCall = 0 \/ call[c].ref - lastCall >= StaleAfter]_vars

(* What sync_state keeps of past successes is only ever replaced by a      *)
(* newer one, as long as the calls go through one in-flight key            *)
(* (syncStateRepository.ts:43-54).                                         *)
SuccessNeverRegresses ==
  [][OneQueue => state'.latest >= state.latest /\ state'.success >= state.success]_vars

(* What the comment on the filter says: only dates newer than what is      *)
(* stored are kept, history is never rewritten - so a bar that came from a *)
(* CSV file stays (marketDataSyncService.ts:198).  It does not hold: the   *)
(* filter uses the latest day as it was before the call of the provider.   *)
HistoryIsKept == [][\A d \in Days : bars[d] = "csv" => bars'[d] = "csv"]_vars

(* Every call of sync() settles, those that joined another's included      *)
(* (marketDataSyncService.ts:278-291).                                     *)
EveryCallSettles == \A c \in Callers : pc[c] \in {"read", "waiting"} ~> pc[c] = "done"

=============================================================================
