--------------------------- MODULE DashboardProofs ---------------------------
(***************************************************************************)
(* Proofs about the page and its report store, for any number of tickers,  *)
(* windows, calls and clicks.                                              *)
(*                                                                         *)
(* The core of the argument is that a call that could still change the     *)
(* store (InFlight) and the controller in the Map are the same thing: the  *)
(* Map holds exactly the calls in flight, each at the generation of its    *)
(* key.  A call that was forgotten or left behind is aborted and, while    *)
(* the page is there, of an older generation.                              *)
(***************************************************************************)
EXTENDS Dashboard, TLAPS

Used(f) == call[f].stage # "unused"

(* The Map holds calls in flight of the latest generation of their key ... *)
OwnersAreLive == \A k \in Keys : controllers[k] # 0 =>
  /\ call[controllers[k]].key = k
  /\ InFlight(controllers[k])
  /\ call[controllers[k]].generation = generation[k]

(* ... and all of them.                                                    *)
LiveAreOwners == \A f \in Calls : InFlight(f) =>
  /\ call[f].key \in Keys
  /\ controllers[call[f].key] = f
  /\ ~call[f].forgotten
  /\ mounted

AbortedAreOld == \A f \in Calls : Used(f) =>
  /\ call[f].key \in Keys
  /\ call[f].generation <= generation[call[f].key]
  /\ call[f].aborted /\ mounted => call[f].generation < generation[call[f].key]

CancelledWereAborted == \A f \in Calls : call[f].stage = "cancelled" => call[f].aborted

PendingAreOwned == mounted => \A k \in Keys :
  /\ pending[k] <=> controllers[k] # 0
  /\ reports[k] = Loading => controllers[k] # 0

HandledAreShown == \A f \in Calls :
  InFlight(f) /\ call[f].stage = "handled" => reports[call[f].key] # Loading

ShownAreUsed == \A k \in Keys : reports[k].by # 0 =>
  /\ Used(reports[k].by)
  /\ call[reports[k].by].key = k
  /\ ~call[reports[k].by].forgotten

LiveAreNewest == \A f, g \in Calls :
  InFlight(f) /\ Used(g) /\ call[g].key = call[f].key => g <= f

UsedAreMade == \A f \in Calls : Used(f) <=> f <= made

StoreInv == /\ OwnersAreLive /\ LiveAreOwners /\ AbortedAreOld /\ CancelledWereAborted
            /\ PendingAreOwned /\ HandledAreShown /\ ShownAreUsed /\ LiveAreNewest
            /\ UsedAreMade

USE HookConstants, PageConstants

-----------------------------------------------------------------------------
(* Typing.                                                                 *)

LEMMA RunTyping == ASSUME HookTypeOK, NEW k \in Keys, NEW force \in BOOLEAN, Run(k, force)
                   PROVE  HookTypeOK'
<1>1. CASE Skipped(k, force) /\ UNCHANGED hookVars
  BY <1>1 DEF HookTypeOK, hookVars
<1>2. CASE Start(k)
  <2>1. made + 1 \in Calls /\ made' \in Calls
    BY <1>2 DEF Start, HookTypeOK, Calls
  <2>2. generation' \in [Keys -> Nat] /\ generation'[k] \in Nat
    BY <1>2 DEF Start, HookTypeOK
  <2>3. call' \in [Calls -> Call]
    <3>1. [stage |-> "headers", key |-> k, generation |-> generation'[k],
           aborted |-> FALSE, forgotten |-> FALSE] \in Call
      BY <2>2 DEF Call, Stage
    <3> QED BY <1>2, <2>1, <3>1 DEF Start, HookTypeOK
  <2>4. reports' \in [Keys -> ReportState]
    BY <1>2 DEF Start, HookTypeOK, ReportState
  <2> QED BY <1>2, <2>1, <2>2, <2>3, <2>4 DEF Start, HookTypeOK
<1> QED BY <1>1, <1>2 DEF Run

LEMMA ForgetTyping == ASSUME HookTypeOK, NEW t \in Tickers, Forget(t) PROVE HookTypeOK'
<1>1. call' \in [Calls -> Call]
  BY DEF Forget, HookTypeOK, Call
<1> DEFINE found == {k \in KeysOf(t) : controllers[k] # 0 \/ reportsRef[k] # Absent}
<1>2. generation' \in [Keys -> Nat] /\ controllers' \in [Keys -> Calls \cup {0}]
  <2>1. generation' = [k \in Keys |-> IF k \in found THEN generation[k] + 1 ELSE generation[k]]
    BY DEF Forget
  <2>2. controllers' = [k \in Keys |-> IF k \in found THEN 0 ELSE controllers[k]]
    BY DEF Forget
  <2> HIDE DEF found
  <2>3. generation' \in [Keys -> Nat]
    BY <2>1 DEF HookTypeOK
  <2> QED BY <2>2, <2>3 DEF HookTypeOK
<1>3. reports' \in [Keys -> ReportState] /\ pending' \in [Keys -> BOOLEAN]
  BY DEF Forget, HookTypeOK, ReportState
<1> QED BY <1>1, <1>2, <1>3 DEF Forget, HookTypeOK

LEMMA UnmountTyping == ASSUME HookTypeOK, Unmount PROVE HookTypeOK'
<1>1. call' \in [Calls -> Call]
  BY DEF Unmount, HookTypeOK, Call
<1>2. controllers' \in [Keys -> Calls \cup {0}]
  BY DEF Unmount
<1> QED BY <1>1, <1>2 DEF Unmount, HookTypeOK

LEMMA GotoTyping == ASSUME HookTypeOK, NEW f \in Calls, NEW s \in Stage, Goto(f, s)
                    PROVE  call' \in [Calls -> Call]
<1>1. [call[f] EXCEPT !.stage = s] \in Call
  BY DEF HookTypeOK, Call
<1> QED BY <1>1 DEF Goto, HookTypeOK

LEMMA NetworkTyping == ASSUME HookTypeOK, NEW f \in Calls,
                              HeadersEnd(f) \/ BodyEnds(f) \/ Handle(f) \/ CleanUp(f)
                       PROVE  HookTypeOK'
<1>1. CASE HeadersEnd(f) \/ BodyEnds(f)
  <2>1. call' \in [Calls -> Call]
    BY <1>1, GotoTyping DEF HeadersEnd, BodyEnds, Stage, Settled
  <2> QED BY <1>1, <2>1 DEF HeadersEnd, BodyEnds, OnlyCallMoves, HookTypeOK
<1>2. CASE Handle(f)
  <2>1. call' \in [Calls -> Call]
    BY <1>2, GotoTyping DEF Handle, Stage
  <2>2. reports' \in [Keys -> ReportState]
    BY <1>2 DEF Handle, HookTypeOK, ReportState
  <2> QED BY <1>2, <2>1, <2>2 DEF Handle, HookTypeOK
<1>3. CASE CleanUp(f)
  <2>1. call' \in [Calls -> Call]
    BY <1>3, GotoTyping DEF CleanUp, Stage
  <2>2. controllers' \in [Keys -> Calls \cup {0}]
    BY <1>3 DEF CleanUp, HookTypeOK
  <2>3. pending' \in [Keys -> BOOLEAN]
    <3>1. \A k \in Keys : (pending[k] /\ (~mounted \/ generation[k] # call[f].generation)) \in BOOLEAN
      OBVIOUS
    <3> QED BY <1>3, <3>1 DEF CleanUp, HookTypeOK
  <2> QED BY <1>3, <2>1, <2>2, <2>3 DEF CleanUp, HookTypeOK
<1> QED BY <1>1, <1>2, <1>3

LEMMA PageTyping == ASSUME TypeOK, [Next]_vars PROVE TypeOK'
<1> USE DEF TypeOK
<1>1. CASE UNCHANGED vars
  <2>1. HookTypeOK'
    BY <1>1 DEF vars, hookVars, HookTypeOK
  <2> QED BY <1>1, <2>1 DEF vars, pageVars
<1>2. ASSUME NEW t \in Tickers, Add(t) \/ SelectTab(t) PROVE TypeOK'
  <2>1. HookTypeOK'
    BY <1>2 DEF Add, SelectTab, hookVars, HookTypeOK
  <2>2. CASE Add(t)
    BY <2>1, <2>2 DEF Add, Click
  <2>3. CASE SelectTab(t)
    BY <2>1, <2>3 DEF SelectTab, Click
  <2> QED BY <1>2, <2>2, <2>3
<1>3. ASSUME NEW t \in Tickers, RemoveTicker(t) PROVE TypeOK'
  <2>1. HookTypeOK'
    BY <1>3, ForgetTyping DEF RemoveTicker
  <2> QED BY <1>3, <2>1 DEF RemoveTicker, Click
<1>4. ASSUME NEW w \in Ranges, SetRange(w) PROVE TypeOK'
  <2>1. HookTypeOK'
    BY <1>4 DEF SetRange, hookVars, HookTypeOK
  <2> QED BY <1>4, <2>1 DEF SetRange, Click
<1>5. CASE Retry
  <2>1. ActiveKey \in Keys
    BY <1>5 DEF Retry, ActiveKey, Keys
  <2>2. HookTypeOK'
    BY <1>5, <2>1, RunTyping DEF Retry
  <2> QED BY <1>5, <2>2 DEF Retry, Click
<1>6. CASE Render
  <2>1. HookTypeOK'
    BY <1>6 DEF Render, HookTypeOK
  <2>2. due' \subseteq {"keepActiveValid", "fetchActive"}
    BY <1>6 DEF Render, Dependents
  <2>3. page' \in [selected : SUBSET Tickers, active : Tickers \cup {NoTicker}, range : Ranges]
    BY <1>6 DEF Render, Latest
  <2>4. turn' \in {"free", "render", "effects"}
    BY <1>6 DEF Render
  <2> QED BY <1>6, <2>1, <2>2, <2>3, <2>4 DEF Render
<1>7. CASE Effects
  <2>1. HookTypeOK'
    <3>1. CASE UNCHANGED hookVars
      BY <3>1 DEF hookVars, HookTypeOK
    <3>2. CASE page.active # NoTicker /\ Run(ActiveKey, FALSE)
      <4>1. ActiveKey \in Keys
        BY <3>2 DEF ActiveKey, Keys
      <4> QED BY <3>2, <4>1, RunTyping
    <3> QED BY <1>7, <3>1, <3>2 DEF Effects, FetchActive
  <2>2. active' \in Tickers \cup {NoTicker}
    BY <1>7 DEF Effects, KeepActiveValid
  <2> QED BY <1>7, <2>1, <2>2 DEF Effects
<1>8. CASE Leave
  BY <1>8, UnmountTyping DEF Leave, pageVars
<1>9. ASSUME NEW f \in Calls, NetworkStep(f) PROVE TypeOK'
  BY <1>9, NetworkTyping DEF NetworkStep, Progress, pageVars
<1> QED BY <1>1, <1>2, <1>3, <1>4, <1>5, <1>6, <1>7, <1>8, <1>9 DEF Next

LEMMA InitTyping == Init => TypeOK
<1> SUFFICES ASSUME Init PROVE TypeOK
  OBVIOUS
<1>1. HookTypeOK
  <2>1. Unused \in Call
    BY DEF Unused, Call, Stage
  <2> QED BY <2>1 DEF Init, HookInit, HookTypeOK, ReportState, Calls
<1> QED BY <1>1 DEF Init, TypeOK, Latest

(* Type correctness of the page and of its report store.                   *)
THEOREM PageTypingHolds == Spec => []TypeOK
<1>1. TypeOK /\ [Next]_vars => TypeOK'
  BY PageTyping
<1> QED BY <1>1, InitTyping, PTL DEF Spec

-----------------------------------------------------------------------------
(* The store invariant.                                                    *)

LEMMA StartPreserves == ASSUME HookTypeOK, StoreInv, mounted, NEW k \in Keys, controllers[k] = 0, Start(k)
                        PROVE  StoreInv'
<1>0. PICK n \in Calls : n = made + 1
  BY DEF Start, HookTypeOK, Calls
<1>1. n \in Calls /\ made' = n /\ n # 0
  BY <1>0 DEF Start, HookTypeOK, Calls
<1>2. generation' = [generation EXCEPT ![k] = @ + 1] /\ generation'[k] = generation[k] + 1
  BY DEF Start, HookTypeOK
<1>3. /\ call'[n] = [stage |-> "headers", key |-> k, generation |-> generation[k] + 1,
                     aborted |-> FALSE, forgotten |-> FALSE]
      /\ \A f \in Calls \ {n} : call'[f] = call[f]
  BY <1>1, <1>2 DEF Start, HookTypeOK
<1>4. \A j \in Keys : controllers'[j] = IF j = k THEN n ELSE controllers[j]
  BY <1>1 DEF Start, HookTypeOK
<1>5. \A j \in Keys : pending'[j] = IF j = k THEN TRUE ELSE pending[j]
  BY DEF Start, HookTypeOK
<1>6. \A j \in Keys : reports'[j] = IF j = k /\ reports[j] = Absent THEN Loading ELSE reports[j]
  BY DEF Start, HookTypeOK
<1>7. mounted' = mounted
  BY DEF Start
<1>8. /\ InFlight(n)' /\ Used(n)' /\ ~Used(n)
      /\ \A f \in Calls \ {n} : (InFlight(f)' <=> InFlight(f)) /\ (Used(f)' <=> Used(f))
  <2>1. ~(n <= made)
    BY <1>0 DEF HookTypeOK, Calls
  <2>2. ~Used(n)
    BY <1>1, <2>1 DEF StoreInv, UsedAreMade
  <2>3. InFlight(n)' /\ Used(n)'
    BY <1>3 DEF InFlight, Used
  <2>4. ASSUME NEW f \in Calls \ {n}
        PROVE  (InFlight(f)' <=> InFlight(f)) /\ (Used(f)' <=> Used(f))
    BY <1>3 DEF InFlight, Used
  <2> QED BY <2>2, <2>3, <2>4
<1>9. \A f \in Calls : (Used(f) => f < n) /\ (InFlight(f) => Used(f))
  BY <1>0 DEF StoreInv, UsedAreMade, HookTypeOK, Calls, InFlight, Used
<1>10. \A f \in Calls : InFlight(f) => call[f].key # k
  BY <1>1 DEF StoreInv, LiveAreOwners, Calls
<1>11. \A j \in Keys : controllers[j] \in Calls \cup {0} /\ generation[j] \in Nat
                       /\ reports[j] \in ReportState
  BY DEF HookTypeOK
<1>12. \A j \in Keys : controllers[j] # 0 => controllers[j] # n
  BY <1>8, <1>11 DEF StoreInv, OwnersAreLive, InFlight, Used
<1>13. OwnersAreLive'
  <2>1. \A j \in Keys : j # k => generation'[j] = generation[j]
    BY <1>2 DEF HookTypeOK
  <2>2. /\ call'[n].key = k
        /\ InFlight(n)'
        /\ call'[n].generation = generation'[k]
    BY <1>2, <1>3, <1>8
  <2>3. ASSUME NEW j \in Keys, j # k, controllers[j] # 0
        PROVE  /\ call'[controllers[j]].key = j
               /\ InFlight(controllers[j])'
               /\ call'[controllers[j]].generation = generation'[j]
    <3>1. controllers[j] \in Calls \ {n}
      BY <1>11, <1>12, <2>3
    <3>2. call'[controllers[j]] = call[controllers[j]] /\ InFlight(controllers[j])
      BY <1>3, <2>3, <3>1 DEF StoreInv, OwnersAreLive
    <3>3. InFlight(controllers[j])'
      BY <2>3, <3>2, <1>4 DEF InFlight
    <3> QED BY <2>1, <2>3, <3>2, <3>3 DEF StoreInv, OwnersAreLive
  <2> QED BY <1>4, <2>2, <2>3 DEF OwnersAreLive
<1>14. LiveAreOwners'
  BY <1>3, <1>4, <1>7, <1>8, <1>10 DEF StoreInv, LiveAreOwners
<1>15. AbortedAreOld'
  <2>1. \A j \in Keys : generation'[j] \in Nat /\ generation[j] <= generation'[j]
    BY <1>2, <1>11 DEF HookTypeOK
  <2>2. \A f \in Calls : call[f].generation \in Nat
    BY DEF HookTypeOK, Call
  <2>3. ASSUME NEW f \in Calls \ {n}, Used(f)
        PROVE  /\ call[f].key \in Keys
               /\ call[f].generation <= generation'[call[f].key]
               /\ call[f].aborted /\ mounted => call[f].generation < generation'[call[f].key]
    <3>1. /\ call[f].key \in Keys
          /\ call[f].generation <= generation[call[f].key]
          /\ call[f].aborted /\ mounted => call[f].generation < generation[call[f].key]
      BY <2>3 DEF StoreInv, AbortedAreOld
    <3>2. /\ call[f].generation \in Nat /\ generation[call[f].key] \in Nat
          /\ generation'[call[f].key] \in Nat
          /\ generation[call[f].key] <= generation'[call[f].key]
      BY <2>1, <2>2, <1>11, <3>1
    <3> QED BY <3>1, <3>2
  <2> QED BY <1>1, <1>2, <1>3, <1>7, <1>8, <1>11, <2>3 DEF AbortedAreOld
<1>16. CancelledWereAborted'
  BY <1>1, <1>3 DEF StoreInv, CancelledWereAborted
<1>17. PendingAreOwned'
  BY <1>1, <1>4, <1>5, <1>6, <1>7 DEF StoreInv, PendingAreOwned
<1>18. HandledAreShown'
  <2>1. \A f \in Calls : InFlight(f) => call[f].key \in Keys
    BY DEF StoreInv, LiveAreOwners
  <2> QED BY <1>1, <1>3, <1>6, <1>8, <1>10, <2>1 DEF StoreInv, HandledAreShown
<1>19. ShownAreUsed'
  <2>1. \A j \in Keys : reports[j].by \in Calls \cup {0} /\ reports'[j].by = reports[j].by
    BY <1>6, <1>11 DEF ReportState, Absent, Loading
  <2> QED BY <1>3, <1>8, <2>1 DEF StoreInv, ShownAreUsed
<1>20. LiveAreNewest'
  <2>1. \A f \in Calls : Used(f)' => f <= n
    BY <1>1, <1>8, <1>9 DEF Calls
  <2> QED BY <1>3, <1>8, <1>10, <2>1 DEF StoreInv, LiveAreNewest
<1>21. UsedAreMade'
  <2>1. ASSUME NEW f \in Calls PROVE Used(f)' <=> f <= made'
    <3>1. CASE f = n
      BY <1>1, <1>8, <3>1 DEF Calls
    <3>2. CASE f # n
      <4>1. f <= made' <=> f <= made
        BY <1>0, <1>1, <3>2 DEF HookTypeOK, Calls
      <4> QED BY <1>8, <3>2, <4>1 DEF StoreInv, UsedAreMade
    <3> QED BY <3>1, <3>2
  <2> QED BY <2>1 DEF UsedAreMade
<1> QED BY <1>13, <1>14, <1>15, <1>16, <1>17, <1>18, <1>19, <1>20, <1>21 DEF StoreInv

LEMMA RunPreserves == ASSUME HookTypeOK, StoreInv, mounted, NEW k \in Keys, NEW force \in BOOLEAN, Run(k, force)
                      PROVE  StoreInv'
<1>1. CASE UNCHANGED hookVars
  BY <1>1 DEF hookVars, StoreInv, OwnersAreLive, LiveAreOwners, AbortedAreOld, CancelledWereAborted,
     PendingAreOwned, HandledAreShown, ShownAreUsed, LiveAreNewest, UsedAreMade, InFlight, Used
<1>2. CASE ~Skipped(k, force) /\ Start(k)
  BY <1>2, StartPreserves DEF Skipped
<1> QED BY <1>1, <1>2 DEF Run

LEMMA ForgetPreserves == ASSUME HookTypeOK, StoreInv, mounted, NEW t \in Tickers, Forget(t)
                         PROVE  StoreInv'
<1> DEFINE found == {k \in KeysOf(t) : controllers[k] # 0 \/ reportsRef[k] # Absent}
           Aborted(f) == \E k \in found : controllers[k] = f
<1>1. /\ generation' = [k \in Keys |-> IF k \in found THEN generation[k] + 1 ELSE generation[k]]
      /\ controllers' = [k \in Keys |-> IF k \in found THEN 0 ELSE controllers[k]]
      /\ call' = [f \in Calls |-> [call[f] EXCEPT
                    !.aborted = @ \/ Aborted(f),
                    !.forgotten = @ \/ call[f].key \in KeysOf(t)]]
      /\ reports' = [k \in Keys |-> IF k \in KeysOf(t) THEN Absent ELSE reports[k]]
      /\ pending' = [k \in Keys |-> IF k \in KeysOf(t) THEN FALSE ELSE pending[k]]
      /\ mounted' = mounted /\ made' = made
  BY DEF Forget
<1>2. /\ found \subseteq KeysOf(t) /\ KeysOf(t) \subseteq Keys
      /\ \A k \in KeysOf(t) : controllers[k] # 0 => k \in found
  BY DEF KeysOf, Keys
<1>3. \A f \in Calls : /\ call'[f].stage = call[f].stage /\ call'[f].key = call[f].key
                       /\ call'[f].generation = call[f].generation
                       /\ call'[f].aborted <=> call[f].aborted \/ Aborted(f)
                       /\ call'[f].forgotten <=> call[f].forgotten \/ call[f].key \in KeysOf(t)
  <2>1. \A f \in Calls : call[f] \in Call
    BY DEF HookTypeOK
  <2> QED BY <1>1, <2>1 DEF Call
<1> HIDE DEF found
<1>4. \A f \in Calls : Aborted(f) => InFlight(f) /\ call[f].key \in found
  BY <1>2 DEF StoreInv, OwnersAreLive, Calls
<1>5. \A f \in Calls : InFlight(f) /\ call[f].key \in KeysOf(t) => Aborted(f)
  BY <1>2 DEF StoreInv, LiveAreOwners, Calls
<1> HIDE DEF Aborted
<1>6. /\ \A f \in Calls : Used(f)' <=> Used(f)
      /\ \A f \in Calls : InFlight(f)' <=> InFlight(f) /\ call[f].key \notin KeysOf(t)
  <2>1. ASSUME NEW f \in Calls PROVE Used(f)' <=> Used(f)
    BY <1>3 DEF Used
  <2>2. ASSUME NEW f \in Calls PROVE InFlight(f)' <=> InFlight(f) /\ ~Aborted(f)
    BY <1>3 DEF InFlight
  <2>3. \A f \in Calls : Aborted(f) => call[f].key \in KeysOf(t)
    BY <1>2, <1>4
  <2> QED BY <1>5, <2>1, <2>2, <2>3
<1>7. \A k \in Keys : /\ k \notin KeysOf(t) => /\ controllers'[k] = controllers[k] /\ generation'[k] = generation[k]
                                               /\ reports'[k] = reports[k] /\ pending'[k] = pending[k]
                      /\ k \in KeysOf(t) => /\ controllers'[k] = 0 /\ reports'[k] = Absent /\ pending'[k] = FALSE
  BY <1>1, <1>2
<1>8. \A k \in Keys : controllers[k] \in Calls \cup {0} /\ generation[k] \in Nat
  BY DEF HookTypeOK
<1>9. OwnersAreLive'
  <2>1. ASSUME NEW k \in Keys, k \notin KeysOf(t), controllers[k] # 0
        PROVE  /\ call'[controllers[k]].key = k
               /\ InFlight(controllers[k])'
               /\ call'[controllers[k]].generation = generation'[k]
    <3>1. PICK f \in Calls : f = controllers[k]
      BY <1>8, <2>1
    <3>2. call[f].key = k /\ InFlight(f) /\ call[f].generation = generation[k]
      BY <2>1, <3>1 DEF StoreInv, OwnersAreLive
    <3>3. InFlight(f)' /\ controllers'[k] = f
      BY <1>6, <1>7, <2>1, <3>1, <3>2
    <3>4. call'[f].key = k /\ call'[f].generation = generation'[k]
      BY <1>3, <1>7, <2>1, <3>2
    <3>5. InFlight(controllers[k])'
      BY <3>3 DEF InFlight
    <3> QED BY <3>1, <3>4, <3>5
  <2>2. ASSUME NEW k \in Keys, controllers'[k] # 0
        PROVE  k \notin KeysOf(t) /\ controllers'[k] = controllers[k]
    BY <1>7, <2>2
  <2> QED BY <2>1, <2>2 DEF OwnersAreLive
<1>10. LiveAreOwners'
  <2>1. ASSUME NEW f \in Calls, InFlight(f)'
        PROVE  /\ call'[f].key \in Keys /\ controllers'[call'[f].key] = f
               /\ ~call'[f].forgotten /\ mounted'
    <3>1. InFlight(f) /\ call[f].key \notin KeysOf(t)
      BY <1>6, <2>1
    <3>2. call[f].key \in Keys /\ controllers[call[f].key] = f /\ ~call[f].forgotten /\ mounted
      BY <3>1 DEF StoreInv, LiveAreOwners
    <3>3. controllers'[call[f].key] = f
      BY <1>7, <3>1, <3>2
    <3> QED BY <1>1, <1>3, <3>1, <3>2, <3>3
  <2> QED BY <2>1 DEF LiveAreOwners
<1>11. AbortedAreOld'
  <2>1. ASSUME NEW f \in Calls, Used(f)
        PROVE  /\ call[f].key \in Keys
               /\ call[f].generation <= generation'[call[f].key]
               /\ call'[f].aborted /\ mounted => call[f].generation < generation'[call[f].key]
    <3> DEFINE k == call[f].key
    <3>1. /\ k \in Keys /\ call[f].generation <= generation[k]
          /\ call[f].aborted /\ mounted => call[f].generation < generation[k]
      BY <2>1 DEF StoreInv, AbortedAreOld
    <3>2. generation'[k] = IF k \in found THEN generation[k] + 1 ELSE generation[k]
      BY <1>1, <3>1
    <3>3. call'[f].aborted => call[f].aborted \/ k \in found
      BY <1>3, <1>4
    <3>4. call[f].generation \in Nat /\ generation[k] \in Nat
      BY <1>8, <3>1 DEF HookTypeOK, Call
    <3> HIDE DEF k
    <3>5. /\ call[f].generation <= generation'[k]
          /\ call'[f].aborted /\ mounted => call[f].generation < generation'[k]
      BY <3>1, <3>2, <3>3, <3>4
    <3> QED BY <3>1, <3>5 DEF k
  <2> QED BY <1>1, <1>3, <1>6, <2>1 DEF AbortedAreOld
<1>12. CancelledWereAborted'
  BY <1>3 DEF StoreInv, CancelledWereAborted
<1>13. PendingAreOwned'
  BY <1>1, <1>7 DEF StoreInv, PendingAreOwned, Absent, Loading
<1>14. HandledAreShown'
  <2>1. \A f \in Calls : InFlight(f) => call[f].key \in Keys
    BY DEF StoreInv, LiveAreOwners
  <2> QED BY <1>3, <1>6, <1>7, <2>1 DEF StoreInv, HandledAreShown
<1>15. ShownAreUsed'
  <2>1. \A k \in Keys : reports[k].by \in Calls \cup {0}
    BY DEF HookTypeOK, ReportState, Absent, Loading
  <2>2. ASSUME NEW k \in Keys, reports'[k].by # 0
        PROVE  k \notin KeysOf(t) /\ reports'[k] = reports[k]
    BY <1>7, <2>2 DEF Absent
  <2>3. ASSUME NEW k \in Keys, k \notin KeysOf(t), reports[k].by # 0, NEW f \in Calls, f = reports[k].by
        PROVE  Used(f)' /\ call'[f].key = k /\ ~call'[f].forgotten
    BY <1>3, <1>6, <2>3 DEF StoreInv, ShownAreUsed
  <2>4. ASSUME NEW k \in Keys, reports'[k].by # 0
        PROVE  Used(reports[k].by)' /\ call'[reports'[k].by].key = k /\ ~call'[reports'[k].by].forgotten
               /\ reports'[k].by = reports[k].by
    <3>1. PICK f \in Calls : f = reports[k].by
      BY <2>1, <2>2, <2>4
    <3>2. Used(f)' /\ call'[f].key = k /\ ~call'[f].forgotten /\ reports'[k].by = f
      BY <2>2, <2>3, <2>4, <3>1
    <3>3. Used(reports[k].by)'
      BY <3>2 DEF Used
    <3> QED BY <3>1, <3>2, <3>3
  <2> QED BY <2>4 DEF ShownAreUsed
<1>16. LiveAreNewest'
  BY <1>3, <1>6 DEF StoreInv, LiveAreNewest
<1>17. UsedAreMade'
  BY <1>1, <1>6 DEF StoreInv, UsedAreMade
<1> QED BY <1>9, <1>10, <1>11, <1>12, <1>13, <1>14, <1>15, <1>16, <1>17 DEF StoreInv

LEMMA UnmountPreserves == ASSUME HookTypeOK, StoreInv, Unmount PROVE StoreInv'
<1>1. \A f \in Calls : /\ call'[f].stage = call[f].stage /\ call'[f].key = call[f].key
                       /\ call'[f].generation = call[f].generation
                       /\ call'[f].forgotten = call[f].forgotten
                       /\ call'[f].aborted <=> call[f].aborted \/ \E k \in Keys : controllers[k] = f
  <2>1. \A f \in Calls : call[f] \in Call
    BY DEF HookTypeOK
  <2> QED BY <2>1 DEF Unmount, Call
<1>2. \A k \in Keys : controllers'[k] = 0
  BY DEF Unmount
<1>3. ~mounted' /\ UNCHANGED <<reports, generation, made>>
  BY DEF Unmount
<1>4. \A f \in Calls : ~InFlight(f)' /\ (Used(f)' <=> Used(f))
  <2>1. ASSUME NEW f \in Calls PROVE Used(f)' <=> Used(f)
    BY <1>1 DEF Used
  <2>2. ASSUME NEW f \in Calls, InFlight(f)' PROVE FALSE
    <3>1. InFlight(f) /\ ~\E k \in Keys : controllers[k] = f
      BY <1>1, <2>2 DEF InFlight
    <3> QED BY <3>1 DEF StoreInv, LiveAreOwners
  <2> QED BY <2>1, <2>2
<1>5. OwnersAreLive' /\ LiveAreOwners' /\ HandledAreShown' /\ LiveAreNewest'
  BY <1>2, <1>4 DEF OwnersAreLive, LiveAreOwners, HandledAreShown, LiveAreNewest
<1>6. AbortedAreOld' /\ CancelledWereAborted'
  BY <1>1, <1>3, <1>4 DEF StoreInv, AbortedAreOld, CancelledWereAborted
<1>7. PendingAreOwned' /\ UsedAreMade'
  BY <1>3, <1>4 DEF StoreInv, PendingAreOwned, UsedAreMade
<1>8. ShownAreUsed'
  <2>1. \A k \in Keys : reports[k].by \in Calls \cup {0}
    BY DEF HookTypeOK, ReportState, Absent, Loading
  <2>2. ASSUME NEW k \in Keys, reports'[k].by # 0
        PROVE  Used(reports[k].by)' /\ call'[reports'[k].by].key = k /\ ~call'[reports'[k].by].forgotten
    <3>1. PICK f \in Calls : f = reports[k].by /\ f = reports'[k].by
      BY <1>3, <2>1, <2>2
    <3>2. Used(f) /\ call[f].key = k /\ ~call[f].forgotten
      BY <1>3, <2>2, <3>1 DEF StoreInv, ShownAreUsed
    <3>3. Used(f)' /\ call'[f].key = k /\ ~call'[f].forgotten
      BY <1>1, <1>4, <3>2
    <3>4. Used(reports[k].by)'
      BY <3>1, <3>3 DEF Used
    <3> QED BY <3>1, <3>3, <3>4
  <2> QED BY <2>2 DEF ShownAreUsed
<1> QED BY <1>5, <1>6, <1>7, <1>8 DEF StoreInv

(* Steps that only move a call from one stage in flight to the next.       *)
LEMMA FetchPreserves == ASSUME HookTypeOK, StoreInv, NEW f \in Calls, HeadersEnd(f) \/ BodyEnds(f)
                        PROVE  StoreInv'
<1>1. /\ UNCHANGED <<reports, pending, controllers, generation, mounted, made>>
      /\ \A g \in Calls : /\ call'[g].key = call[g].key /\ call'[g].generation = call[g].generation
                          /\ (call'[g].aborted <=> call[g].aborted) /\ (call'[g].forgotten <=> call[g].forgotten)
                          /\ g # f => call'[g].stage = call[g].stage
  <2>1. PICK s : call' = [call EXCEPT ![f].stage = s]
    BY DEF HeadersEnd, BodyEnds, Goto
  <2>2. \A g \in Calls : call[g] \in Call
    BY DEF HookTypeOK
  <2>3. UNCHANGED <<reports, pending, controllers, generation, mounted, made>>
    BY DEF HeadersEnd, BodyEnds, OnlyCallMoves
  <2> QED BY <2>1, <2>2, <2>3 DEF HookTypeOK, Call
<1>2. /\ call[f].stage \in {"headers", "body"}
      /\ call'[f].stage \in {"body", "resolved", "rejected", "cancelled"}
      /\ call'[f].stage = "cancelled" => call[f].aborted
  BY DEF HeadersEnd, BodyEnds, At, Goto, HookTypeOK, Call
<1>3. \A g \in Calls : InFlight(g)' <=> InFlight(g)
  <2>1. ASSUME NEW g \in Calls PROVE InFlight(g)' <=> InFlight(g)
    BY <1>1, <1>2 DEF InFlight
  <2> QED BY <2>1
<1>4. \A g \in Calls : Used(g)' <=> Used(g)
  <2>1. ASSUME NEW g \in Calls PROVE Used(g)' <=> Used(g)
    BY <1>1, <1>2 DEF Used
  <2> QED BY <2>1
<1>5. OwnersAreLive'
  <2>1. ASSUME NEW k \in Keys, controllers'[k] # 0
        PROVE  /\ call'[controllers'[k]].key = k /\ InFlight(controllers[k])'
               /\ call'[controllers'[k]].generation = generation'[k]
    <3>1. PICK g \in Calls : g = controllers[k] /\ g = controllers'[k]
      BY <1>1, <2>1 DEF HookTypeOK
    <3>2. call[g].key = k /\ InFlight(g) /\ call[g].generation = generation[k]
      BY <1>1, <2>1, <3>1 DEF StoreInv, OwnersAreLive
    <3>3. call'[g].key = k /\ InFlight(g)' /\ call'[g].generation = generation'[k]
      BY <1>1, <1>3, <3>2
    <3>4. InFlight(controllers[k])'
      BY <3>1, <3>3 DEF InFlight
    <3> QED BY <3>1, <3>3, <3>4
  <2> QED BY <2>1 DEF OwnersAreLive
<1>6. LiveAreOwners' /\ LiveAreNewest' /\ UsedAreMade'
  BY <1>1, <1>3, <1>4 DEF StoreInv, LiveAreOwners, LiveAreNewest, UsedAreMade
<1>7. AbortedAreOld'
  BY <1>1, <1>4 DEF StoreInv, AbortedAreOld
<1>8. CancelledWereAborted' /\ HandledAreShown'
  BY <1>1, <1>2, <1>3 DEF StoreInv, CancelledWereAborted, HandledAreShown
<1>9. PendingAreOwned'
  BY <1>1 DEF StoreInv, PendingAreOwned
<1>10. ShownAreUsed'
  <2>2. ASSUME NEW k \in Keys, reports'[k].by # 0
        PROVE  Used(reports[k].by)' /\ call'[reports'[k].by].key = k /\ ~call'[reports'[k].by].forgotten
    <3>1. PICK g \in Calls : g = reports[k].by /\ g = reports'[k].by
      BY <1>1, <2>2 DEF HookTypeOK, ReportState, Absent, Loading
    <3>2. Used(g) /\ call[g].key = k /\ ~call[g].forgotten
      BY <1>1, <2>2, <3>1 DEF StoreInv, ShownAreUsed
    <3>3. Used(g)' /\ call'[g].key = k /\ ~call'[g].forgotten
      BY <1>1, <1>4, <3>2
    <3>4. Used(reports[k].by)'
      BY <3>1, <3>3 DEF Used
    <3> QED BY <3>1, <3>3, <3>4
  <2> QED BY <2>2 DEF ShownAreUsed
<1> QED BY <1>5, <1>6, <1>7, <1>8, <1>9, <1>10 DEF StoreInv

LEMMA HandlePreserves == ASSUME HookTypeOK, StoreInv, NEW f \in Calls, Handle(f) PROVE StoreInv'
<1>1. /\ UNCHANGED <<pending, controllers, generation, mounted, made>>
      /\ \A g \in Calls :
           /\ call'[g].key = call[g].key
           /\ call'[g].generation = call[g].generation
           /\ call'[g].aborted <=> call[g].aborted
           /\ call'[g].forgotten <=> call[g].forgotten
           /\ g # f => call'[g].stage = call[g].stage
  <2>1. \A g \in Calls : call[g] \in Call
    BY DEF HookTypeOK
  <2> QED BY <2>1 DEF Handle, Goto, HookTypeOK, Call
<1>2. call[f].stage \in Settled /\ call'[f].stage = "handled"
  BY DEF Handle, Goto, HookTypeOK, Call
<1>3. \A g \in Calls : (InFlight(g)' <=> InFlight(g)) /\ (Used(g)' <=> Used(g))
  <2>1. ASSUME NEW g \in Calls PROVE InFlight(g)' <=> InFlight(g)
    BY <1>1, <1>2 DEF InFlight, Settled
  <2>2. ASSUME NEW g \in Calls PROVE Used(g)' <=> Used(g)
    BY <1>1, <1>2 DEF Used, Settled
  <2> QED BY <2>1, <2>2
<1>4. Used(f) /\ call[f].key \in Keys
  BY <1>2 DEF Used, Settled, StoreInv, AbortedAreOld
<1>5. \/ Stale(f) \/ At(f, "cancelled")
      \/ ~Stale(f) /\ ~At(f, "cancelled")
  OBVIOUS
<1>6. CASE (Stale(f) \/ At(f, "cancelled")) /\ reports' = reports
  <2>1. ~InFlight(f)
    BY <1>4, <1>6 DEF Stale, At, StoreInv, LiveAreOwners, OwnersAreLive, CancelledWereAborted, InFlight, Calls
  <2>2. OwnersAreLive'
    <3>1. ASSUME NEW k \in Keys, controllers'[k] # 0
          PROVE  /\ call'[controllers'[k]].key = k /\ InFlight(controllers[k])'
                 /\ call'[controllers'[k]].generation = generation'[k]
      <4>1. PICK g \in Calls : g = controllers[k] /\ g = controllers'[k]
        BY <1>1, <3>1 DEF HookTypeOK
      <4>2. call'[g].key = k /\ InFlight(g)' /\ call'[g].generation = generation'[k]
        BY <1>1, <1>3, <3>1, <4>1 DEF StoreInv, OwnersAreLive
      <4>3. InFlight(controllers[k])'
        BY <4>1, <4>2 DEF InFlight
      <4> QED BY <4>1, <4>2, <4>3
    <3> QED BY <3>1 DEF OwnersAreLive
  <2>3. LiveAreOwners' /\ LiveAreNewest' /\ UsedAreMade'
    BY <1>1, <1>3 DEF StoreInv, LiveAreOwners, LiveAreNewest, UsedAreMade
  <2>4. AbortedAreOld' /\ PendingAreOwned'
    BY <1>1, <1>3, <1>6 DEF StoreInv, AbortedAreOld, PendingAreOwned
  <2>5. CancelledWereAborted' /\ HandledAreShown'
    BY <1>1, <1>2, <1>3, <1>6, <2>1 DEF StoreInv, CancelledWereAborted, HandledAreShown
  <2>6. ShownAreUsed'
    <3>1. ASSUME NEW k \in Keys, reports'[k].by # 0
          PROVE  Used(reports[k].by)' /\ call'[reports'[k].by].key = k /\ ~call'[reports'[k].by].forgotten
      <4>1. PICK g \in Calls : g = reports[k].by /\ g = reports'[k].by
        BY <1>6, <3>1 DEF HookTypeOK, ReportState, Absent, Loading
      <4>2. Used(g)' /\ call'[g].key = k /\ ~call'[g].forgotten
        BY <1>1, <1>3, <1>6, <3>1, <4>1 DEF StoreInv, ShownAreUsed
      <4>3. Used(reports[k].by)'
        BY <4>1, <4>2 DEF Used
      <4> QED BY <4>1, <4>2, <4>3
    <3> QED BY <3>1 DEF ShownAreUsed
  <2> QED BY <2>2, <2>3, <2>4, <2>5, <2>6 DEF StoreInv
<1>7. CASE ~Stale(f) /\ ~At(f, "cancelled")
  <2>1. InFlight(f)
    BY <1>2, <1>7 DEF Stale, InFlight, Settled
  <2>2. PICK k \in Keys : k = call[f].key /\ controllers[k] = f /\ ~call[f].forgotten
    BY <2>1 DEF StoreInv, LiveAreOwners
  <2>3. PICK r \in ReportState : /\ r.by = f /\ r # Loading
                                 /\ reports' = [reports EXCEPT ![k] = r]
    BY <1>7, <2>2 DEF Handle, ReportState, Loading
  <2>4. /\ reports'[k] = r
        /\ \A j \in Keys \ {k} : reports'[j] = reports[j]
    BY <2>3 DEF HookTypeOK
  <2>5. OwnersAreLive'
    <3>1. ASSUME NEW j \in Keys, controllers'[j] # 0
          PROVE  /\ call'[controllers'[j]].key = j /\ InFlight(controllers[j])'
                 /\ call'[controllers'[j]].generation = generation'[j]
      <4>1. PICK g \in Calls : g = controllers[j] /\ g = controllers'[j]
        BY <1>1, <3>1 DEF HookTypeOK
      <4>2. call'[g].key = j /\ InFlight(g)' /\ call'[g].generation = generation'[j]
        BY <1>1, <1>3, <3>1, <4>1 DEF StoreInv, OwnersAreLive
      <4>3. InFlight(controllers[j])'
        BY <4>1, <4>2 DEF InFlight
      <4> QED BY <4>1, <4>2, <4>3
    <3> QED BY <3>1 DEF OwnersAreLive
  <2>6. LiveAreOwners' /\ LiveAreNewest' /\ UsedAreMade'
    BY <1>1, <1>3 DEF StoreInv, LiveAreOwners, LiveAreNewest, UsedAreMade
  <2>7. AbortedAreOld'
    BY <1>1, <1>3 DEF StoreInv, AbortedAreOld
  <2>8. PendingAreOwned'
    BY <1>1, <2>3, <2>4 DEF StoreInv, PendingAreOwned
  <2>9. CancelledWereAborted'
    BY <1>1, <1>2 DEF StoreInv, CancelledWereAborted
  <2>10. HandledAreShown'
    BY <1>1, <1>3, <2>2, <2>3, <2>4 DEF StoreInv, HandledAreShown, LiveAreOwners
  <2>11. ShownAreUsed'
    <3>1. ASSUME NEW j \in Keys, reports'[j].by # 0
          PROVE  Used(reports[j].by)' /\ call'[reports'[j].by].key = j /\ ~call'[reports'[j].by].forgotten
      <4>1. CASE j = k
        <5>1. reports'[j].by = f /\ Used(f)'
          BY <1>3, <1>4, <2>3, <2>4, <4>1
        <5>2. Used(reports[j].by)'
          BY <5>1 DEF Used
        <5> QED BY <1>1, <2>2, <4>1, <5>1, <5>2
      <4>2. CASE j # k
        <5>1. PICK g \in Calls : g = reports[j].by /\ g = reports'[j].by
          BY <2>4, <3>1, <4>2 DEF HookTypeOK, ReportState, Absent, Loading
        <5>2. Used(g)' /\ call'[g].key = j /\ ~call'[g].forgotten
          BY <1>1, <1>3, <2>4, <3>1, <4>2, <5>1 DEF StoreInv, ShownAreUsed
        <5>3. Used(reports[j].by)'
          BY <5>1, <5>2 DEF Used
        <5> QED BY <5>1, <5>2, <5>3
      <4> QED BY <4>1, <4>2
    <3> QED BY <3>1 DEF ShownAreUsed
  <2> QED BY <2>5, <2>6, <2>7, <2>8, <2>9, <2>10, <2>11 DEF StoreInv
<1> QED BY <1>5, <1>6, <1>7 DEF Handle

LEMMA CleanUpPreserves == ASSUME HookTypeOK, StoreInv, NEW f \in Calls, CleanUp(f) PROVE StoreInv'
<1>1. /\ UNCHANGED <<reports, generation, mounted, made>>
      /\ \A g \in Calls :
           /\ call'[g].key = call[g].key
           /\ call'[g].generation = call[g].generation
           /\ call'[g].aborted <=> call[g].aborted
           /\ call'[g].forgotten <=> call[g].forgotten
           /\ g # f => call'[g].stage = call[g].stage
  <2>1. \A g \in Calls : call[g] \in Call
    BY DEF HookTypeOK
  <2> QED BY <2>1 DEF CleanUp, Goto, HookTypeOK, Call
<1>2. call[f].stage = "handled" /\ call'[f].stage = "over"
  BY DEF CleanUp, Goto, At, HookTypeOK, Call
<1>3. \A g \in Calls : (InFlight(g)' <=> InFlight(g) /\ g # f) /\ (Used(g)' <=> Used(g))
  <2>1. ASSUME NEW g \in Calls PROVE InFlight(g)' <=> InFlight(g) /\ g # f
    BY <1>1, <1>2 DEF InFlight
  <2>2. ASSUME NEW g \in Calls PROVE Used(g)' <=> Used(g)
    BY <1>1, <1>2 DEF Used
  <2> QED BY <2>1, <2>2
<1>4. PICK k \in Keys : k = call[f].key
  BY <1>2 DEF Used, StoreInv, AbortedAreOld
<1>5. /\ controllers'[k] = IF controllers[k] = f THEN 0 ELSE controllers[k]
      /\ pending'[k] <=> pending[k] /\ (~mounted \/ generation[k] # call[f].generation)
      /\ \A j \in Keys \ {k} : controllers'[j] = controllers[j] /\ pending'[j] = pending[j]
  BY <1>4 DEF CleanUp, HookTypeOK
<1>6. controllers[k] = f <=> InFlight(f)
  BY <1>4 DEF StoreInv, LiveAreOwners, OwnersAreLive, Calls
<1>7. \A j \in Keys : controllers'[j] # 0 => controllers'[j] = controllers[j] /\ controllers[j] # f
  <2>1. \A j \in Keys \ {k} : controllers[j] # f
    BY <1>4 DEF StoreInv, OwnersAreLive, Calls
  <2> QED BY <1>5, <2>1
<1>8. OwnersAreLive'
  <2>1. ASSUME NEW j \in Keys, controllers'[j] # 0
        PROVE  /\ call'[controllers'[j]].key = j /\ InFlight(controllers[j])'
               /\ call'[controllers'[j]].generation = generation'[j]
    <3>1. PICK g \in Calls : g = controllers[j] /\ g = controllers'[j] /\ g # f
      BY <1>7, <2>1 DEF HookTypeOK
    <3>2. call[g].key = j /\ InFlight(g) /\ call[g].generation = generation[j]
      BY <1>7, <2>1, <3>1 DEF StoreInv, OwnersAreLive
    <3>4. call'[g].key = j /\ InFlight(g)' /\ call'[g].generation = generation'[j]
      BY <1>1, <1>3, <3>1, <3>2
    <3>3. InFlight(controllers[j])'
      BY <3>1, <3>4 DEF InFlight
    <3> QED BY <3>1, <3>4, <3>3
  <2> QED BY <2>1 DEF OwnersAreLive
<1>9. LiveAreOwners'
  <2>1. ASSUME NEW g \in Calls, InFlight(g)'
        PROVE  /\ call'[g].key \in Keys /\ controllers'[call'[g].key] = g
               /\ ~call'[g].forgotten /\ mounted'
    <3>1. InFlight(g) /\ g # f
      BY <1>3, <2>1
    <3>2. call[g].key \in Keys /\ controllers[call[g].key] = g /\ ~call[g].forgotten /\ mounted
      BY <3>1 DEF StoreInv, LiveAreOwners
    <3>3. controllers'[call[g].key] = g
      BY <1>5, <3>1, <3>2
    <3> QED BY <1>1, <3>2, <3>3
  <2> QED BY <2>1 DEF LiveAreOwners
<1>10. LiveAreNewest' /\ UsedAreMade' /\ AbortedAreOld'
  BY <1>1, <1>3 DEF StoreInv, LiveAreNewest, UsedAreMade, AbortedAreOld
<1>11. CancelledWereAborted' /\ HandledAreShown'
  BY <1>1, <1>2, <1>3 DEF StoreInv, CancelledWereAborted, HandledAreShown
<1>12. PendingAreOwned'
  <2>1. CASE ~mounted
    BY <1>1, <2>1 DEF PendingAreOwned
  <2>2. CASE mounted /\ InFlight(f)
    <3>1. controllers[k] = f /\ generation[k] = call[f].generation /\ reports[k] # Loading
      BY <1>2, <1>4, <1>6, <2>2 DEF StoreInv, OwnersAreLive, HandledAreShown, Calls
    <3>2. controllers'[k] = 0 /\ ~pending'[k]
      BY <1>5, <2>2, <3>1
    <3> QED BY <1>1, <1>5, <3>1, <3>2 DEF StoreInv, PendingAreOwned
  <2>3. CASE mounted /\ ~InFlight(f)
    <3>1. call[f].aborted
      BY <1>2, <2>3 DEF InFlight
    <3>2. call[f].generation < generation[k]
      BY <1>2, <1>4, <2>3, <3>1 DEF StoreInv, AbortedAreOld, Used
    <3>3. call[f].generation \in Nat /\ generation[k] \in Nat
      BY DEF HookTypeOK, Call
    <3>4. generation[k] # call[f].generation
      BY <3>2, <3>3
    <3>5. controllers'[k] = controllers[k] /\ (pending'[k] <=> pending[k])
      BY <1>5, <1>6, <2>3, <3>4
    <3> QED BY <1>1, <1>5, <3>5 DEF StoreInv, PendingAreOwned
  <2> QED BY <2>1, <2>2, <2>3
<1>13. ShownAreUsed'
  <2>1. ASSUME NEW j \in Keys, reports'[j].by # 0
        PROVE  Used(reports[j].by)' /\ call'[reports'[j].by].key = j /\ ~call'[reports'[j].by].forgotten
    <3>1. PICK g \in Calls : g = reports[j].by /\ g = reports'[j].by
      BY <1>1, <2>1 DEF HookTypeOK, ReportState, Absent, Loading
    <3>2. Used(g)' /\ call'[g].key = j /\ ~call'[g].forgotten
      BY <1>1, <1>3, <2>1, <3>1 DEF StoreInv, ShownAreUsed
    <3>3. Used(reports[j].by)'
      BY <3>1, <3>2 DEF Used
    <3> QED BY <3>1, <3>2, <3>3
  <2> QED BY <2>1 DEF ShownAreUsed
<1> QED BY <1>8, <1>9, <1>10, <1>11, <1>12, <1>13 DEF StoreInv

(* Steps that leave the store as it is, whatever they render.              *)
LEMMA FramePreserves == ASSUME StoreInv, UNCHANGED <<reports, pending, controllers, generation, mounted, call, made>>
                        PROVE  StoreInv'
BY DEF StoreInv, OwnersAreLive, LiveAreOwners, AbortedAreOld, CancelledWereAborted, PendingAreOwned,
       HandledAreShown, ShownAreUsed, LiveAreNewest, UsedAreMade, InFlight, Used

LEMMA StoreInvStarts == Init => StoreInv
<1> SUFFICES ASSUME Init PROVE StoreInv
  OBVIOUS
<1>1. /\ \A k \in Keys : reports[k] = Absent /\ controllers[k] = 0 /\ pending[k] = FALSE
      /\ \A f \in Calls : call[f] = Unused /\ ~InFlight(f) /\ ~Used(f)
      /\ made = 0
  BY DEF Init, HookInit, InFlight, Used, Unused
<1>2. \A f \in Calls : ~(f <= made)
  BY <1>1 DEF Calls
<1> QED BY <1>1, <1>2 DEF StoreInv, OwnersAreLive, LiveAreOwners, AbortedAreOld, CancelledWereAborted,
     PendingAreOwned, HandledAreShown, ShownAreUsed, LiveAreNewest, UsedAreMade, Unused, Absent, Loading

LEMMA StoreInvStep == ASSUME TypeOK, StoreInv, [Next]_vars PROVE StoreInv'
<1>0. HookTypeOK
  BY DEF TypeOK
<1>1. CASE UNCHANGED vars
  BY <1>1, FramePreserves DEF vars, hookVars
<1>2. ASSUME NEW t \in Tickers, Add(t) \/ SelectTab(t) PROVE StoreInv'
  BY <1>2, FramePreserves DEF Add, SelectTab, hookVars
<1>3. ASSUME NEW t \in Tickers, RemoveTicker(t) PROVE StoreInv'
  BY <1>0, <1>3, ForgetPreserves DEF RemoveTicker, Click
<1>4. ASSUME NEW w \in Ranges, SetRange(w) PROVE StoreInv'
  BY <1>4, FramePreserves DEF SetRange, hookVars
<1>5. CASE Retry
  <2>1. ActiveKey \in Keys
    BY <1>5 DEF Retry, ActiveKey, Keys, TypeOK
  <2> QED BY <1>0, <1>5, <2>1, RunPreserves DEF Retry, Click
<1>6. CASE Render
  BY <1>6, FramePreserves DEF Render
<1>7. CASE Effects
  <2>1. CASE UNCHANGED hookVars
    BY <2>1, FramePreserves DEF hookVars
  <2>2. CASE page.active # NoTicker /\ Run(ActiveKey, FALSE)
    <3>1. ActiveKey \in Keys
      BY <2>2 DEF ActiveKey, Keys, TypeOK
    <3> QED BY <1>0, <1>7, <2>2, <3>1, RunPreserves DEF Effects
  <2> QED BY <1>7, <2>1, <2>2 DEF Effects, FetchActive
<1>8. CASE Leave
  BY <1>0, <1>8, UnmountPreserves DEF Leave
<1>9. ASSUME NEW f \in Calls, NetworkStep(f) PROVE StoreInv'
  BY <1>0, <1>9, FetchPreserves, HandlePreserves, CleanUpPreserves DEF NetworkStep, Progress
<1> QED BY <1>1, <1>2, <1>3, <1>4, <1>5, <1>6, <1>7, <1>8, <1>9 DEF Next

LEMMA StoreInvHolds == Spec => [](TypeOK /\ StoreInv)
<1>1. TypeOK /\ StoreInv /\ [Next]_vars => TypeOK' /\ StoreInv'
  BY PageTyping, StoreInvStep
<1> QED BY <1>1, InitTyping, StoreInvStarts, PTL DEF Spec

-----------------------------------------------------------------------------
(* What follows from it.                                                   *)

(* A key never has two calls in flight.                                    *)
THEOREM OneCallPerKeyHolds == Spec => []OneCallPerKey
<1>1. StoreInv => OneCallPerKey
  BY DEF StoreInv, LiveAreOwners, OneCallPerKey
<1> QED BY <1>1, StoreInvHolds, PTL

(* Nothing the store shows comes from a call of a ticker that was          *)
(* forgotten since.                                                        *)
THEOREM NothingRevivedHolds == Spec => []NothingRevived
<1>1. StoreInv => NothingRevived
  BY DEF StoreInv, ShownAreUsed, NothingRevived
<1> QED BY <1>1, StoreInvHolds, PTL

(* A key is pending exactly while a call for it is in flight, and a        *)
(* spinner is.                                                             *)
THEOREM PendingIsInFlightHolds == Spec => []PendingIsInFlight
<1>1. StoreInv => PendingIsInFlight
  BY DEF StoreInv, OwnersAreLive, PendingAreOwned, PendingIsInFlight
<1> QED BY <1>1, StoreInvHolds, PTL

(* An outcome is never replaced by that of an earlier call.                *)
THEOREM LatestWinsHolds == Spec => LatestWins
<1>1. ASSUME TypeOK, StoreInv, [Next]_vars, NEW k \in Keys, reports'[k].by # 0
      PROVE  reports'[k].by >= reports[k].by
  <2>0. /\ HookTypeOK /\ reports[k].by \in Calls \cup {0}
        /\ reports[k].by # 0 => Used(reports[k].by) /\ call[reports[k].by].key = k
    BY <1>1 DEF TypeOK, HookTypeOK, ReportState, Absent, Loading, StoreInv, ShownAreUsed
  <2>1. CASE reports'[k].by = reports[k].by
    BY <2>0, <2>1 DEF Calls
  <2>2. ASSUME NEW f \in Calls, Handle(f) PROVE reports'[k].by >= reports[k].by
    <3>1. CASE ~Stale(f) /\ ~At(f, "cancelled") /\ call[f].key = k
      <4>1. InFlight(f)
        BY <2>2, <3>1 DEF Handle, Settled, Stale, InFlight
      <4>2. reports[k].by # 0 => reports[k].by <= f
        BY <1>1, <2>0, <3>1, <4>1 DEF StoreInv, LiveAreNewest
      <4>3. reports'[k].by = f
        BY <2>0, <2>2, <3>1 DEF Handle, HookTypeOK
      <4> QED BY <2>0, <4>2, <4>3 DEF Calls
    <3>2. CASE ~(~Stale(f) /\ ~At(f, "cancelled") /\ call[f].key = k)
      <4>1. reports'[k] = reports[k]
        BY <2>0, <2>2, <3>2 DEF Handle, HookTypeOK
      <4> QED BY <2>1, <4>1
    <3> QED BY <3>1, <3>2
  <2>3. ASSUME NEW j \in Keys, NEW force \in BOOLEAN, Run(j, force) PROVE reports'[k].by = reports[k].by
    BY <2>0, <2>3 DEF Run, Start, hookVars, HookTypeOK, Absent, Loading
  <2>4. ASSUME NEW t \in Tickers, Forget(t) PROVE reports'[k].by = reports[k].by
    BY <1>1, <2>4 DEF Forget, Absent
  <2>5. CASE UNCHANGED reports
    BY <2>1, <2>5
  <2>6. CASE Retry
    <3>1. ActiveKey \in Keys
      BY <1>1, <2>6 DEF Retry, ActiveKey, Keys, TypeOK
    <3> QED BY <2>1, <2>3, <2>6, <3>1 DEF Retry
  <2>7. CASE Effects
    <3>1. page.active # NoTicker => ActiveKey \in Keys
      BY <1>1 DEF ActiveKey, Keys, TypeOK
    <3> QED BY <2>1, <2>3, <2>5, <2>7, <3>1 DEF Effects, FetchActive, hookVars
  <2>8. ASSUME NEW f \in Calls, NetworkStep(f) PROVE reports'[k].by >= reports[k].by
    BY <2>2, <2>5, <2>8 DEF NetworkStep, Progress, HeadersEnd, BodyEnds, CleanUp, OnlyCallMoves
  <2>9. ASSUME NEW t \in Tickers, Add(t) \/ RemoveTicker(t) \/ SelectTab(t)
        PROVE  reports'[k].by >= reports[k].by
    BY <2>1, <2>4, <2>5, <2>9 DEF Add, RemoveTicker, SelectTab, hookVars
  <2>10. ASSUME NEW w \in Ranges, SetRange(w) PROVE reports'[k].by >= reports[k].by
    BY <2>5, <2>10 DEF SetRange, hookVars
  <2>11. CASE UNCHANGED vars \/ Render \/ Leave
    BY <2>5, <2>11 DEF vars, hookVars, Render, Leave, Unmount
  <2> QED BY <1>1, <2>6, <2>7, <2>8, <2>9, <2>10, <2>11 DEF Next
<1>2. TypeOK /\ StoreInv /\ [Next]_vars
        => [\A k \in Keys : reports'[k].by # 0 => reports'[k].by >= reports[k].by]_vars
  BY <1>1
<1> QED BY <1>2, StoreInvHolds, PTL DEF Spec, LatestWins

=============================================================================
