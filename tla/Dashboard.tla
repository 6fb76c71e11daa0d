------------------------------ MODULE Dashboard ------------------------------
(***************************************************************************)
(* App: the page above the report store.  It keeps the selected tickers,   *)
(* the active one and the window, and two effects: one keeps the active    *)
(* ticker among the selected, the other requests the active pair.  The     *)
(* order of the tabs is left open: the first tab is any of them.           *)
(*                                                                         *)
(* React is external.  What the page relies on:                            *)
(*  - the updates of a click are rendered, and the effects of that render  *)
(*    run, before the next click is handled;                               *)
(*  - the updates made in an effect or in a callback of a promise are      *)
(*    rendered by a later task, and the effects of that render run later   *)
(*    still; clicks may come in between;                                   *)
(*  - the effects of a render run before the next render, with the values  *)
(*    of their own render, and only if one of their dependencies changed.  *)
(***************************************************************************)
EXTENDS StockReports

CONSTANTS NoTicker,
          DefaultRange,
          MaxClicks         \* bound: clicks of the user

ASSUME PageConstants == /\ NoTicker \notin Tickers
                        /\ DefaultRange \in Ranges
                        /\ MaxClicks \in Nat /\ MaxClicks <= MaxCalls

VARIABLES selected,   \* the tickers that have a tab
          active,     \* activeTicker
          range,
          page,       \* the three as of the last render
          due,        \* the effects of the last render that have not run
          turn,       \* what a click has left to be done before the next one
          clicks

pageVars == <<selected, active, range, page, due, turn, clicks>>
vars == <<hookVars, pageVars>>

TypeOK == /\ HookTypeOK
          /\ selected \in SUBSET Tickers
          /\ active \in Tickers \cup {NoTicker}
          /\ range \in Ranges
          /\ page \in [selected : SUBSET Tickers, active : Tickers \cup {NoTicker}, range : Ranges]
          /\ due \subseteq {"keepActiveValid", "fetchActive"}
          /\ turn \in {"free", "render", "effects"}
          /\ clicks \in 0..MaxClicks

Latest == [selected |-> selected, active |-> active, range |-> range]

Init == /\ HookInit
        /\ selected = {} /\ active = NoTicker /\ range = DefaultRange
        /\ page = Latest
        /\ due = {} /\ turn = "free" /\ clicks = 0

-----------------------------------------------------------------------------
(* The user.                                                               *)

Click == /\ mounted /\ turn = "free" /\ turn' = "render"
         /\ clicks < MaxClicks /\ clicks' = clicks + 1
         /\ UNCHANGED <<page, due>>

Add(ticker) == /\ Click
               /\ ticker \notin page.selected
               /\ selected' = selected \cup {ticker} /\ active' = ticker
               /\ UNCHANGED <<range, hookVars>>

RemoveTicker(ticker) == /\ Click
                        /\ ticker \in page.selected
                        /\ selected' = selected \ {ticker}
                        /\ Forget(ticker)
                        /\ UNCHANGED <<active, range>>

SelectTab(ticker) == /\ Click
                     /\ ticker \in page.selected
                     /\ active' = ticker
                     /\ UNCHANGED <<selected, range, hookVars>>

SetRange(window) == /\ Click
                    /\ page.selected # {}
                    /\ range' = window
                    /\ UNCHANGED <<selected, active, hookVars>>

ActiveKey == <<page.active, page.range>>

(* The button is shown next to an error of the active pair.  That it is    *)
(* disabled while the pair is pending changes nothing: run() returns.      *)
Retry == /\ Click
         /\ page.active # NoTicker /\ page.selected # {}
         /\ reportsRef[ActiveKey].status = "error"
         /\ Run(ActiveKey, TRUE)
         /\ UNCHANGED <<selected, active, range>>

-----------------------------------------------------------------------------
(* React.                                                                  *)

Dependents == (IF <<selected, active>> # <<page.selected, page.active>> THEN {"keepActiveValid"} ELSE {})
              \cup (IF <<active, range>> # <<page.active, page.range>> THEN {"fetchActive"} ELSE {})

Render == /\ mounted /\ due = {}
          /\ turn = "render" \/ page # Latest \/ reportsRef # reports
          /\ page' = Latest /\ reportsRef' = reports
          /\ due' = Dependents
          /\ turn' = IF turn = "render" /\ due' # {} THEN "effects" ELSE "free"
          /\ UNCHANGED <<selected, active, range, clicks, reports, pending, controllers,
                         generation, mounted, call, made>>

(* Faulty variant: the effect does nothing once tickers are selected.      *)
KeepActiveUnlessEmpty ==
  IF "keepActiveValid" \in due /\ page.selected = {} THEN active' = NoTicker ELSE UNCHANGED active

(* The first effect.                                                       *)
KeepActiveValid ==
  IF "keepActiveValid" \notin due \/ page.active \in page.selected THEN UNCHANGED active
  ELSE active' \in (IF page.selected = {} THEN {NoTicker} ELSE page.selected)

(* The second.                                                             *)
FetchActive == IF "fetchActive" \in due /\ page.active # NoTicker THEN Run(ActiveKey, FALSE)
               ELSE UNCHANGED hookVars

Effects == /\ mounted /\ due # {} /\ due' = {}
           /\ KeepActiveValid
           /\ FetchActive
           /\ turn' = IF turn = "effects" THEN "free" ELSE turn
           /\ UNCHANGED <<selected, range, page, clicks>>

Leave == Unmount /\ UNCHANGED pageVars

NetworkStep(f) == (Progress(f) \/ BodyEnds(f)) /\ UNCHANGED pageVars

Next == \/ \E ticker \in Tickers : Add(ticker) \/ RemoveTicker(ticker) \/ SelectTab(ticker)
        \/ \E window \in Ranges : SetRange(window)
        \/ Retry \/ Render \/ Effects \/ Leave
        \/ \E f \in Calls : NetworkStep(f)

(* Clicks, leaving the page and the end of a body are up to others; the    *)
(* wait for the headers is ended by the timer.                             *)
Fairness == /\ WF_vars(Render) /\ WF_vars(Effects)
            /\ \A f \in Calls : WF_vars(Progress(f) /\ UNCHANGED pageVars)

Spec == Init /\ [][Next]_vars /\ Fairness

-----------------------------------------------------------------------------
(* Properties.                                                             *)

(* A call that could still change the store.                               *)
InFlight(f) == call[f].stage \notin {"unused", "over"} /\ ~call[f].aborted

(* A key never has two calls in flight, however often it is requested,     *)
(* retried, forgotten and requested again (useStockReports.ts:50).         *)
OneCallPerKey == \A f, g \in Calls : InFlight(f) /\ InFlight(g) /\ call[f].key = call[g].key => f = g

(* What the store shows was never forgotten: a call of a ticker that was   *)
(* removed in the meantime leaves nothing, however late it answers         *)
(* (useStockReports.ts:55-59, App.tsx:107).                                *)
NothingRevived == \A k \in Keys : reports[k].by # 0 => /\ call[reports[k].by].key = k
                                                       /\ ~call[reports[k].by].forgotten

(* The queued state of React and the refs agree: as long as the page is    *)
(* there a key is pending exactly while the Map holds the controller of a  *)
(* call that has not been cleaned up, and an entry that is loading is      *)
(* pending.  No spinner outlives its call, and no button stays disabled.   *)
PendingIsInFlight == mounted => \A k \in Keys :
  /\ pending[k] <=> controllers[k] # 0
  /\ controllers[k] # 0 => call[controllers[k]].key = k /\ InFlight(controllers[k])
  /\ reports[k] = Loading => pending[k]

(* The outcome of a call is never replaced by that of an earlier call.     *)
LatestWins == [][\A k \in Keys : reports'[k].by # 0 => reports'[k].by >= reports[k].by]_vars

Stalled(k) == controllers[k] # 0 /\ call[controllers[k]].stage = "body"

(* Every request ends, unless its body stalls or the page is left.         *)
PendingEnds == \A k \in Keys : pending[k] ~> ~pending[k] \/ Stalled(k) \/ ~mounted

(* The active ticker ends up among the selected, whatever is removed, and  *)
(* in whatever order effects and clicks come.                              *)
ActiveIsValid == IF selected = {} THEN active = NoTicker ELSE active \in selected
ActiveBecomesValid == []<>(~mounted \/ ActiveIsValid)

(* The comments App.tsx:50-51 and :108: the active pair is requested, and  *)
(* a ticker that is added again is fetched again.  When all is rendered    *)
(* and all effects have run the active pair has an entry.                  *)
ActiveIsRequested == mounted /\ turn = "free" /\ due = {} /\ page = Latest /\ active # NoTicker
                       => reports[<<active, range>>] # Absent

=============================================================================
