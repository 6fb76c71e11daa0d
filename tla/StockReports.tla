---------------------------- MODULE StockReports ----------------------------
(***************************************************************************)
(* useStockReports(): the report store of the browser.  One entry for each *)
(* (ticker, range) pair, filled on demand by fetchStockReport().           *)
(*                                                                         *)
(* The React state (reports, pending) is the value after all updates that  *)
(* are queued; reportsRef is its value in the last render, which is what   *)
(* run() and forget() read.  The other variables are refs, which change at *)
(* once.  A call of fetchStockReport() goes through these stages:          *)
(*                                                                         *)
(*   headers   the timer runs and the signal of the caller is obeyed       *)
(*   body      the timer and the listener are gone (finally, api.ts)       *)
(*   resolved, rejected, cancelled   the promise is settled                *)
(*   handled   .then() or .catch() has run                                 *)
(*   over      .finally() has run                                          *)
(*                                                                         *)
(* A report is abstracted to the call that brought it.                     *)
(***************************************************************************)
EXTENDS Naturals

CONSTANTS Tickers, Ranges,
          MaxCalls          \* bound: calls of fetchStockReport()

ASSUME HookConstants == MaxCalls \in Nat

Calls == 1..MaxCalls
Keys == Tickers \X Ranges
KeysOf(ticker) == {ticker} \X Ranges

Absent == [status |-> "absent", by |-> 0]
Loading == [status |-> "loading", by |-> 0]
ReportState == {Absent, Loading} \cup [status : {"success", "error"}, by : Calls]

Settled == {"resolved", "rejected", "cancelled"}
Stage == {"unused", "headers", "body", "handled", "over"} \cup Settled
NoKey == <<>>

Call == [stage : Stage, key : Keys \cup {NoKey}, generation : Nat,
         aborted : BOOLEAN,      \* controller.signal.aborted
         forgotten : BOOLEAN]    \* history: its ticker was forgotten since
Unused == [stage |-> "unused", key |-> NoKey, generation |-> 0,
           aborted |-> FALSE, forgotten |-> FALSE]

VARIABLES reports,        \* the entry of each key
          pending,        \* the keys with a call in flight, as the page knows
          reportsRef,     \* reports as of the last render
          controllers,    \* the call whose controller the Map holds, 0: none
          generation,     \* generationRef
          mounted,        \* mountedRef
          call,           \* the calls
          made            \* how many there have been

hookVars == <<reports, pending, reportsRef, controllers, generation, mounted, call, made>>

HookTypeOK == /\ reports \in [Keys -> ReportState]
              /\ reportsRef \in [Keys -> ReportState]
              /\ pending \in [Keys -> BOOLEAN]
              /\ controllers \in [Keys -> Calls \cup {0}]
              /\ generation \in [Keys -> Nat]
              /\ mounted \in BOOLEAN
              /\ call \in [Calls -> Call]
              /\ made \in Calls \cup {0}

HookInit == /\ reports = [k \in Keys |-> Absent] /\ reportsRef = reports
            /\ pending = [k \in Keys |-> FALSE]
            /\ controllers = [k \in Keys |-> 0]
            /\ generation = [k \in Keys |-> 0]
            /\ mounted = TRUE
            /\ call = [f \in Calls |-> Unused] /\ made = 0

-----------------------------------------------------------------------------

(* run(): a new call for the key, unless one is in flight or, without      *)
(* force, the last render has an entry for it.                             *)
Skipped(k, force) == controllers[k] # 0 \/ (~force /\ reportsRef[k] # Absent)

Start(k) ==
  /\ made < MaxCalls
  /\ made' = made + 1
  /\ generation' = [generation EXCEPT ![k] = @ + 1]
  /\ call' = [call EXCEPT ![made'] = [stage |-> "headers", key |-> k, generation |-> generation'[k],
                                      aborted |-> FALSE, forgotten |-> FALSE]]
  /\ controllers' = [controllers EXCEPT ![k] = made']
  /\ pending' = [pending EXCEPT ![k] = TRUE]
  /\ reports' = [reports EXCEPT ![k] = IF @ = Absent THEN Loading ELSE @]
  /\ UNCHANGED <<reportsRef, mounted>>

Run(k, force) == \/ Skipped(k, force) /\ UNCHANGED hookVars
                 \/ ~Skipped(k, force) /\ Start(k)

(* Faulty variant: the controllers are taken out of the Map without abort. *)
ForgetUnaborted(ticker) ==
  /\ generation' = [k \in Keys |-> IF k \in KeysOf(ticker) THEN generation[k] + 1 ELSE generation[k]]
  /\ controllers' = [k \in Keys |-> IF k \in KeysOf(ticker) THEN 0 ELSE controllers[k]]
  /\ call' = [f \in Calls |-> IF call[f].key \in KeysOf(ticker)
                              THEN [call[f] EXCEPT !.forgotten = TRUE] ELSE call[f]]
  /\ reports' = [k \in Keys |-> IF k \in KeysOf(ticker) THEN Absent ELSE reports[k]]
  /\ pending' = [k \in Keys |-> IF k \in KeysOf(ticker) THEN FALSE ELSE pending[k]]
  /\ UNCHANGED <<reportsRef, mounted, made>>

(* forget(): the generations of the keys it finds in the Map or in the     *)
(* last render are bumped, their calls aborted; all entries are dropped.   *)
Forget(ticker) ==
  LET found == {k \in KeysOf(ticker) : controllers[k] # 0 \/ reportsRef[k] # Absent}
      Aborted(f) == \E k \in found : controllers[k] = f
  IN  /\ generation' = [k \in Keys |-> IF k \in found THEN generation[k] + 1 ELSE generation[k]]
      /\ controllers' = [k \in Keys |-> IF k \in found THEN 0 ELSE controllers[k]]
      /\ call' = [f \in Calls |-> [call[f] EXCEPT
                    !.aborted = @ \/ Aborted(f),
                    !.forgotten = @ \/ call[f].key \in KeysOf(ticker)]]
      /\ reports' = [k \in Keys |-> IF k \in KeysOf(ticker) THEN Absent ELSE reports[k]]
      /\ pending' = [k \in Keys |-> IF k \in KeysOf(ticker) THEN FALSE ELSE pending[k]]
      /\ UNCHANGED <<reportsRef, mounted, made>>

(* The page is left: everything in flight is aborted.                      *)
Unmount ==
  /\ mounted /\ mounted' = FALSE
  /\ call' = [f \in Calls |-> [call[f] EXCEPT !.aborted = @ \/ \E k \in Keys : controllers[k] = f]]
  /\ controllers' = [k \in Keys |-> 0]
  /\ UNCHANGED <<reports, pending, reportsRef, generation, made>>

-----------------------------------------------------------------------------
(* A call of fetchStockReport().                                           *)

Goto(f, stage) == call' = [call EXCEPT ![f].stage = stage]
At(f, stage) == call[f].stage = stage
OnlyCallMoves == UNCHANGED <<reports, pending, reportsRef, controllers, generation, mounted, made>>

(* Waiting for the headers ends with them, with an error of the network or *)
(* of the timer, or because the caller has aborted.                        *)
HeadersEnd(f) == /\ At(f, "headers")
                 /\ \/ ~call[f].aborted /\ (Goto(f, "body") \/ Goto(f, "rejected"))
                    \/ call[f].aborted /\ Goto(f, "cancelled")
                 /\ OnlyCallMoves

(* The body is read and checked; nothing interrupts it.  An error status,  *)
(* a body that is not JSON or not a report rejects.                        *)
BodyEnds(f) == /\ At(f, "body")
               /\ Goto(f, "resolved") \/ Goto(f, "rejected")
               /\ OnlyCallMoves

(* Faulty variant: only the unmounting is looked at.                       *)
StaleIfUnmounted(f) == ~mounted

Stale(f) == \/ ~mounted
            \/ call[f].aborted
            \/ generation[call[f].key] # call[f].generation

(* .then() or .catch(): the outcome is kept unless the call is stale or    *)
(* was cancelled.                                                          *)
Handle(f) ==
  /\ call[f].stage \in Settled
  /\ Goto(f, "handled")
  /\ IF Stale(f) \/ At(f, "cancelled") THEN UNCHANGED reports
     ELSE reports' = [reports EXCEPT ![call[f].key] =
                        [status |-> IF At(f, "resolved") THEN "success" ELSE "error", by |-> f]]
  /\ UNCHANGED <<pending, reportsRef, controllers, generation, mounted, made>>

(* Faulty variant: the Map entry of the key goes whoever owns it.          *)
CleanUpAny(f) ==
  LET k == call[f].key IN
  /\ At(f, "handled") /\ Goto(f, "over")
  /\ controllers' = [controllers EXCEPT ![k] = 0]
  /\ pending' = [pending EXCEPT ![k] = @ /\ (~mounted \/ generation[k] # call[f].generation)]
  /\ UNCHANGED <<reports, reportsRef, generation, mounted, made>>

(* Faulty variant: a call that fails stays pending.                        *)
CleanUpNothing(f) == At(f, "handled") /\ Goto(f, "over") /\ OnlyCallMoves

(* .finally(): the controller is removed if it is still that of the call,  *)
(* and the key is no longer pending if the call is the latest.             *)
CleanUp(f) ==
  LET k == call[f].key IN
  /\ At(f, "handled") /\ Goto(f, "over")
  /\ controllers' = [controllers EXCEPT ![k] = IF @ = f THEN 0 ELSE @]
  /\ pending' = [pending EXCEPT ![k] = @ /\ (~mounted \/ generation[k] # call[f].generation)]
  /\ UNCHANGED <<reports, reportsRef, generation, mounted, made>>

Progress(f) == HeadersEnd(f) \/ Handle(f) \/ CleanUp(f)

=============================================================================
