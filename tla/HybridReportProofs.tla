------------------------- MODULE HybridReportProofs -------------------------
(***************************************************************************)
(* Proofs about the top-up of MarketSync and about the historical and      *)
(* hybrid reports that use it, for any number of requests, processes and   *)
(* ranges.                                                                 *)
(*                                                                         *)
(* First the sync by itself: SyncInv, and QueueInv for the history of one  *)
(* in-flight key.  Then the reports: every step is a step of MarketSync or *)
(* leaves it alone, so that what is proved of the sync holds there too.    *)
(* The rest rests on one fact about price_bars: rows are overwritten and   *)
(* never deleted, so a day that was stored once is stored for good and the *)
(* latest day never decreases.                                             *)
(***************************************************************************)
EXTENDS HybridReport, TLAPS

InFlight == {"read", "calling", "failing", "stored"}

(* A call in flight is the one its process has under its key: that is what *)
(* makes two of them under one key impossible.                             *)
KeyIsHeld == \A c \in Callers :
               pc[c] \in InFlight => inflight[call[c].proc][call[c].range] = c

IsStored(d) == d # 0 => bars[d] # "none"

(* The days that a call carries across its await are stored already: rows  *)
(* of price_bars are overwritten, never deleted.                           *)
CarriedAreStored == /\ IsStored(state.latest)
                    /\ \A c \in Callers : IsStored(call[c].latest) /\ IsStored(call[c].top)

SyncInv == TypeOK /\ KeyIsHeld /\ CarriedAreStored

LEMMA ConstantFacts == /\ 1 \in Times /\ 0 \in Times /\ 0 \notin Days
                       /\ Times \subseteq Nat /\ Days \subseteq Nat
BY SyncConstants DEF Times, Days

LEMMA SyncInit == Init => SyncInv
BY ConstantFacts, SyncConstants
   DEF Init, SyncInv, TypeOK, KeyIsHeld, CarriedAreStored, IsStored, SyncState, Pc, Call,
       InFlight, Unread

-----------------------------------------------------------------------------
(* Lemmas on the pieces that several actions share.                        *)

(* A call that ends leaves nothing behind and does not disturb the rest.   *)
LEMMA EndKeepsTypes ==
  ASSUME TypeOK, NEW cs \in SUBSET Callers, End(cs)
  PROVE  /\ pc' \in [Callers -> Pc] /\ call' \in [Callers -> Call]
         /\ \A c \in Callers \ cs : pc'[c] = pc[c] /\ call'[c] = call[c]
         /\ \A c \in cs : /\ pc'[c] = "done"
                          /\ call'[c].proc = call[c].proc /\ call'[c].range = call[c].range
                          /\ call'[c].latest = 0 /\ call'[c].top = 0
BY ConstantFacts DEF End, TypeOK, Pc, Call, Unread

LEMMA SettleKeeps ==
  ASSUME SyncInv, NEW c \in Callers, pc[c] \in InFlight, Settle(c), bars' = bars
  PROVE  /\ pc' \in [Callers -> Pc] /\ call' \in [Callers -> Call]
         /\ inflight' \in [Procs -> [Ranges -> Callers \cup {Nobody}]]
         /\ KeyIsHeld'
         /\ \A d \in Callers : IsStored(call[d].latest)' /\ IsStored(call[d].top)'
<1> DEFINE cs == {c} \cup {d \in Callers : pc[d] = "waiting" /\ call[d].owner = c}
<1>1. cs \in SUBSET Callers /\ End(cs)
  BY DEF Settle
<1>2. /\ pc' \in [Callers -> Pc] /\ call' \in [Callers -> Call]
      /\ \A d \in Callers \ cs : pc'[d] = pc[d] /\ call'[d] = call[d]
      /\ \A d \in cs : /\ pc'[d] = "done"
                       /\ call'[d].proc = call[d].proc /\ call'[d].range = call[d].range
                       /\ call'[d].latest = 0 /\ call'[d].top = 0
  <2> HIDE DEF cs
  <2> QED
    BY <1>1, EndKeepsTypes DEF SyncInv
<1>3. call[c].proc \in Procs /\ call[c].range \in Ranges
  BY DEF SyncInv, TypeOK, Call
<1>4. inflight' \in [Procs -> [Ranges -> Callers \cup {Nobody}]]
  BY <1>3 DEF Settle, SyncInv, TypeOK
<1>5. ASSUME NEW d \in Callers, pc'[d] \in InFlight
      PROVE  inflight'[call'[d].proc][call'[d].range] = d
  <2>1. d \notin cs
    BY <1>2, <1>5 DEF InFlight
  <2>2. d # c /\ pc[d] \in InFlight /\ call'[d] = call[d]
    BY <1>2, <1>5, <2>1
  <2>3. inflight[call[d].proc][call[d].range] = d /\ inflight[call[c].proc][call[c].range] = c
    BY <2>2 DEF SyncInv, KeyIsHeld
  <2>4. call[d].proc \in Procs /\ call[d].range \in Ranges
    BY DEF SyncInv, TypeOK, Call
  <2> QED
    BY <1>3, <2>2, <2>3, <2>4 DEF Settle, SyncInv, TypeOK
<1>6. \A d \in Callers : IsStored(call[d].latest)' /\ IsStored(call[d].top)'
  BY <1>2 DEF IsStored, SyncInv, CarriedAreStored
<1> QED
  BY <1>2, <1>4, <1>5, <1>6 DEF KeyIsHeld

(* What is recorded is well typed, and backed if what it is given is.      *)
LEMMA RecordKeeps ==
  ASSUME SyncInv, NEW at \in Times, NEW latest \in {0} \cup Days, NEW success \in Times,
         IsStored(latest), RecordAttempt(at, latest, success), bars' = bars
  PROVE  state' \in SyncState /\ IsStored(state.latest)'
BY DEF RecordAttempt, SyncInv, TypeOK, SyncState, CarriedAreStored, IsStored

LEMMA CallFacts == ASSUME SyncInv, NEW c \in Callers
                   PROVE  /\ call[c].proc \in Procs /\ call[c].range \in Ranges
                          /\ call[c].ref \in Times /\ call[c].latest \in {0} \cup Days
                          /\ call[c].top \in {0} \cup Days
                          /\ IsStored(call[c].latest) /\ IsStored(call[c].top)
BY DEF SyncInv, TypeOK, Call, CarriedAreStored

(* An end of a call that records the attempt, and one that does not.       *)
LEMMA RecordedEnd ==
  ASSUME SyncInv, NEW c \in Callers, pc[c] \in InFlight, Settle(c),
         NEW latest \in {0} \cup Days, NEW success \in Times, IsStored(latest),
         RecordAttempt(call[c].ref, latest, success), UNCHANGED <<clock, bars, lastCall>>
  PROVE  SyncInv'
<1>1. state' \in SyncState /\ IsStored(state.latest)'
  BY CallFacts, RecordKeeps
<1> QED
  BY <1>1, SettleKeeps DEF SyncInv, TypeOK, CarriedAreStored

LEMMA UnrecordedEnd ==
  ASSUME SyncInv, NEW c \in Callers, pc[c] \in InFlight, Settle(c),
         lastCall' \in Times, UNCHANGED <<clock, bars, state>>
  PROVE  SyncInv'
<1>1. IsStored(state.latest)'
  BY DEF SyncInv, CarriedAreStored, IsStored
<1> QED
  BY <1>1, SettleKeeps DEF SyncInv, TypeOK, CarriedAreStored

LEMMA SyncStep == SyncInv /\ [Next]_vars => SyncInv'
<1> SUFFICES ASSUME SyncInv, [Next]_vars
             PROVE  SyncInv'
  OBVIOUS
<1> USE ConstantFacts, SyncConstants
<1>1. CASE Tick
  BY <1>1 DEF Tick, SyncInv, TypeOK, KeyIsHeld, CarriedAreStored, IsStored, Times
<1>2. ASSUME NEW c \in Callers, Join(c)
      PROVE  SyncInv'
  <2>1. inflight[call[c].proc][call[c].range] \in Callers
    BY <1>2, CallFacts DEF Join, SyncInv, TypeOK
  <2>2. TypeOK'
    BY <1>2, <2>1 DEF Join, Goto, SyncInv, TypeOK, Pc, Call
  <2>3. /\ \A d \in Callers : /\ call'[d].proc = call[d].proc /\ call'[d].range = call[d].range
                              /\ call'[d].latest = call[d].latest /\ call'[d].top = call[d].top
        /\ \A d \in Callers : pc'[d] \in InFlight => pc[d] = pc'[d]
        /\ inflight' = inflight /\ state' = state /\ bars' = bars
    BY <1>2 DEF Join, Goto, SyncInv, TypeOK, InFlight, Call
  <2> QED
    BY <2>2, <2>3 DEF SyncInv, KeyIsHeld, CarriedAreStored, IsStored
<1>3. ASSUME NEW c \in Callers, Begin(c)
      PROVE  SyncInv'
  <2>1. PICK l \in {0} \cup Days :
              /\ IsLatest(l, bars)
              /\ call' = [call EXCEPT ![c].ref = clock, ![c].latest = l]
    BY <1>3 DEF Begin
  <2>2. TypeOK'
    <3>0. call[c] \in Call /\ clock \in Times
      BY DEF SyncInv, TypeOK
    <3>1. [call[c] EXCEPT !.ref = clock, !.latest = l] \in Call
      BY <3>0 DEF Call
    <3>2. call' = [call EXCEPT ![c] = [call[c] EXCEPT !.ref = clock, !.latest = l]]
      BY <2>1 DEF SyncInv, TypeOK, Call
    <3>3. call' \in [Callers -> Call]
      BY <3>1, <3>2 DEF SyncInv, TypeOK
    <3>4. inflight' \in [Procs -> [Ranges -> Callers \cup {Nobody}]]
      BY <1>3, CallFacts DEF Begin, SyncInv, TypeOK
    <3> QED
      BY <1>3, <3>3, <3>4 DEF Begin, Goto, SyncInv, TypeOK, Pc
  <2>3. /\ \A d \in Callers : /\ call'[d].proc = call[d].proc /\ call'[d].range = call[d].range
                              /\ call'[d].top = call[d].top
        /\ \A d \in Callers \ {c} : call'[d].latest = call[d].latest /\ pc'[d] = pc[d]
        /\ call'[c].latest = l
    BY <1>3, <2>1 DEF Begin, Goto, SyncInv, TypeOK, Call
  <2>4. KeyIsHeld'
    BY <1>3, <2>3, CallFacts DEF Begin, SyncInv, TypeOK, KeyIsHeld
  <2>5. IsStored(l)
    BY <2>1 DEF IsLatest, Stored, IsStored
  <2>6. CarriedAreStored'
    BY <1>3, <2>3, <2>5 DEF Begin, SyncInv, CarriedAreStored, IsStored
  <2> QED
    BY <2>2, <2>4, <2>6 DEF SyncInv
<1>4. ASSUME NEW c \in Callers, SkipFresh(c)
      PROVE  SyncInv'
  BY <1>4, CallFacts, RecordedEnd DEF SkipFresh, InFlight
<1>5. ASSUME NEW c \in Callers, SkipRecent(c)
      PROVE  SyncInv'
  BY <1>5, UnrecordedEnd DEF SkipRecent, InFlight, SyncInv, TypeOK
<1>6. ASSUME NEW c \in Callers, CallProvider(c) \/ ProviderFails(c)
      PROVE  SyncInv'
  <2>1. TypeOK'
    BY <1>6, CallFacts DEF CallProvider, ProviderFails, Goto, SyncInv, TypeOK, Pc
  <2>2. \A d \in Callers : pc'[d] \in InFlight => pc[d] \in InFlight
    BY <1>6 DEF CallProvider, ProviderFails, Goto, SyncInv, TypeOK, InFlight
  <2> QED
    BY <1>6, <2>1, <2>2 DEF CallProvider, ProviderFails, SyncInv, KeyIsHeld, CarriedAreStored,
                            IsStored
<1>7. ASSUME NEW c \in Callers, NEW last \in {0} \cup Days, Answer(c, last)
      PROVE  SyncInv'
  <2>1. TypeOK'
    <3> DEFINE t == IF NewDays(c, last) = {} THEN call[c].top ELSE last
    <3>1. [call[c] EXCEPT !.top = t] \in Call
      BY CallFacts DEF SyncInv, TypeOK, Call
    <3>2. call' = [call EXCEPT ![c] = [call[c] EXCEPT !.top = t]]
      BY <1>7 DEF Answer, SyncInv, TypeOK, Call
    <3>3. call' \in [Callers -> Call]
      <4> HIDE DEF t
      <4> QED
        BY <3>1, <3>2 DEF SyncInv, TypeOK
    <3>4. bars' \in [Days -> {"none", "csv", "api"}]
      BY <1>7 DEF Answer, SyncInv, TypeOK
    <3> QED
      BY <1>7, <3>3, <3>4 DEF Answer, Goto, SyncInv, TypeOK, Pc
  <2>2. \A d \in Callers : pc'[d] \in InFlight => pc[d] \in InFlight
    BY <1>7 DEF Answer, Goto, SyncInv, TypeOK, InFlight
  <2>3. /\ \A d \in Callers : /\ call'[d].proc = call[d].proc /\ call'[d].range = call[d].range
                              /\ call'[d].latest = call[d].latest
        /\ \A d \in Callers \ {c} : call'[d].top = call[d].top
        /\ call'[c].top = IF NewDays(c, last) = {} THEN call[c].top ELSE last
    BY <1>7 DEF Answer, SyncInv, TypeOK, Call
  <2>4. \A d \in Days : bars[d] # "none" => bars'[d] # "none"
    BY <1>7 DEF Answer, SyncInv, TypeOK
  <2>5. NewDays(c, last) # {} => last \in Days /\ bars'[last] = "api"
    <3>1. ASSUME NEW d \in NewDays(c, last)
          PROVE  last \in NewDays(c, last)
      BY <3>1, CallFacts DEF NewDays, Days
    <3> QED
      BY <1>7, <3>1 DEF Answer, NewDays
  <2>6. IsStored(call[c].top)'
    BY <2>3, <2>4, <2>5, CallFacts DEF IsStored
  <2>7. CarriedAreStored'
    BY <1>7, <2>3, <2>4, <2>6, CallFacts 
       DEF Answer, CarriedAreStored, IsStored, SyncInv, TypeOK, SyncState
  <2> QED
    BY <1>7, <2>1, <2>2, <2>3, <2>7 DEF Answer, SyncInv, KeyIsHeld
<1>8. ASSUME NEW c \in Callers, RecordSuccess(c)
      PROVE  SyncInv'
  <2> DEFINE l == IF call[c].top # 0 THEN call[c].top ELSE call[c].latest
  <2>1. l \in {0} \cup Days /\ IsStored(l)
    BY CallFacts
  <2>2. RecordAttempt(call[c].ref, l, call[c].ref)
    BY <1>8 DEF RecordSuccess
  <2> HIDE DEF l
  <2> QED
    BY <1>8, <2>1, <2>2, CallFacts, RecordedEnd DEF RecordSuccess, InFlight
<1>9. ASSUME NEW c \in Callers, RecordFailure(c)
      PROVE  SyncInv'
  BY <1>9, CallFacts, RecordedEnd DEF RecordFailure, InFlight
<1>10. ASSUME NEW c \in Callers, RecordThrows(c)
       PROVE  SyncInv'
  BY <1>10, UnrecordedEnd DEF RecordThrows, InFlight, SyncInv, TypeOK
<1>11. ASSUME NEW p \in Procs, NEW days \in SUBSET Days, CsvImport(p, days)
       PROVE  SyncInv'
  <2>1. TypeOK'
    BY <1>11 DEF CsvImport, SyncInv, TypeOK
  <2>2. \A d \in Days : bars[d] # "none" => bars'[d] # "none"
    BY <1>11 DEF CsvImport, SyncInv, TypeOK
  <2> QED
    BY <1>11, <2>1, <2>2, CallFacts
       DEF CsvImport, SyncInv, KeyIsHeld, CarriedAreStored, IsStored, TypeOK, SyncState
<1>12. ASSUME NEW p \in Procs, Crash(p)
       PROVE  SyncInv'
  <2> DEFINE cs == {c \in Callers : call[c].proc = p /\ pc[c] # "idle"}
  <2>1. cs \in SUBSET Callers /\ End(cs)
    BY <1>12 DEF Crash
  <2>2. /\ pc' \in [Callers -> Pc] /\ call' \in [Callers -> Call]
        /\ \A d \in Callers \ cs : pc'[d] = pc[d] /\ call'[d] = call[d]
        /\ \A d \in cs : pc'[d] = "done" /\ call'[d].latest = 0 /\ call'[d].top = 0
    <3> HIDE DEF cs
    <3> QED
      BY <2>1, EndKeepsTypes DEF SyncInv
  <2>3. TypeOK'
    BY <1>12, <2>2 DEF Crash, SyncInv, TypeOK
  <2>4. ASSUME NEW d \in Callers, pc'[d] \in InFlight
        PROVE  inflight'[call'[d].proc][call'[d].range] = d
    <3>1. d \notin cs /\ pc'[d] = pc[d] /\ call'[d] = call[d]
      BY <2>2, <2>4 DEF InFlight
    <3>2. call[d].proc # p
      BY <2>4, <3>1 DEF InFlight
    <3> QED
      BY <1>12, <2>4, <3>1, <3>2, CallFacts DEF Crash, SyncInv, TypeOK, KeyIsHeld
  <2>5. CarriedAreStored'
    BY <1>12, <2>2 DEF Crash, SyncInv, CarriedAreStored, IsStored
  <2> QED
    BY <2>3, <2>4, <2>5 DEF SyncInv, KeyIsHeld
<1>13. CASE UNCHANGED vars
  BY <1>13 DEF vars, SyncInv, TypeOK, KeyIsHeld, CarriedAreStored, IsStored
<1> QED
  BY <1>1, <1>2, <1>3, <1>4, <1>5, <1>6, <1>7, <1>8, <1>9, <1>10, <1>11, <1>12, <1>13
     DEF Next, Advance

-----------------------------------------------------------------------------

LEMMA SyncInvariant == Spec => []SyncInv
BY SyncInit, SyncStep, PTL DEF Spec

(* Every variable of the top-up has its type in every reachable state.     *)
THEOREM SyncTyping == Spec => []TypeOK
<1>1. SyncInv => TypeOK
  BY DEF SyncInv
<1> QED
  BY <1>1, SyncInvariant, PTL

(* One provider call at a time for a range of a process, for any number of *)
(* concurrent calls of sync() (marketDataSyncService.ts:28-29).            *)
THEOREM OneCallPerRangeHolds == Spec => []OneCallPerRange
<1>1. SyncInv => OneCallPerRange
  BY DEF SyncInv, KeyIsHeld, InFlight, OneCallPerRange
<1> QED
  BY <1>1, SyncInvariant, PTL

(* sync_state only names days that price_bars holds, whatever processes    *)
(* interleave, die or fail to write (marketDataSyncService.ts:219-257).    *)
THEOREM SyncStateIsBackedHolds == Spec => []SyncStateIsBacked
<1>1. SyncInv => SyncStateIsBacked
  BY DEF SyncInv, CarriedAreStored, IsStored, SyncStateIsBacked
<1> QED
  BY <1>1, SyncInvariant, PTL

-----------------------------------------------------------------------------
(* What no step of the sync does: delete a bar, move a call to another     *)
(* process or range, turn the clock back, wake a call that has ended.      *)
LEMMA EndKeepsCalls ==
  ASSUME SyncInv, NEW cs \in SUBSET Callers, End(cs), NEW c \in Callers
  PROVE  /\ call'[c].proc = call[c].proc /\ call'[c].range = call[c].range
         /\ pc[c] = "done" => pc'[c] = "done"
         /\ pc'[c] # pc[c] => c \in cs
<1>1. \/ c \in cs /\ pc'[c] = "done" /\ call'[c] = Unread(c, call[c].proc, call[c].range)
      \/ c \notin cs /\ pc'[c] = pc[c] /\ call'[c] = call[c]
  BY DEF End
<1> QED
  BY <1>1 DEF Unread

LEMMA SettleKeepsCalls ==
  ASSUME SyncInv, NEW d \in Callers, Settle(d), pc[d] \in InFlight, NEW c \in Callers
  PROVE  /\ call'[c].proc = call[c].proc /\ call'[c].range = call[c].range
         /\ pc[c] \in {"idle", "done"} => pc'[c] = pc[c]
<1>1. End({d} \cup {e \in Callers : pc[e] = "waiting" /\ call[e].owner = d})
  BY DEF Settle
<1> QED
  BY <1>1, EndKeepsCalls DEF InFlight

LEMMA AdvanceKeeps ==
  ASSUME SyncInv, NEW d \in Callers, Advance(d), NEW c \in Callers
  PROVE  /\ call'[c].proc = call[c].proc /\ call'[c].range = call[c].range
         /\ pc[c] \in {"idle", "done"} => pc'[c] = pc[c]
         /\ \A day \in Days : bars[day] # "none" => bars'[day] # "none"
         /\ clock' = clock
<1> USE DEF InFlight
<1>1. CASE SkipFresh(d) \/ SkipRecent(d)
  BY <1>1, SettleKeepsCalls DEF SkipFresh, SkipRecent
<1>2. CASE CallProvider(d) \/ ProviderFails(d)
  BY <1>2 DEF CallProvider, ProviderFails, Goto, SyncInv, TypeOK
<1>3. ASSUME NEW last \in {0} \cup Days, Answer(d, last)
      PROVE  /\ call'[c].proc = call[c].proc /\ call'[c].range = call[c].range
             /\ pc[c] \in {"idle", "done"} => pc'[c] = pc[c]
             /\ \A day \in Days : bars[day] # "none" => bars'[day] # "none"
             /\ clock' = clock
  <2>1. call'[c].proc = call[c].proc /\ call'[c].range = call[c].range
    BY <1>3 DEF Answer, SyncInv, TypeOK, Call
  <2>2. \A day \in Days : bars[day] # "none" => bars'[day] # "none"
    BY <1>3 DEF Answer
  <2> QED
    BY <1>3, <2>1, <2>2 DEF Answer, Goto, SyncInv, TypeOK
<1>4. CASE RecordSuccess(d) \/ RecordFailure(d) \/ RecordThrows(d)
  BY <1>4, SettleKeepsCalls DEF RecordSuccess, RecordFailure, RecordThrows
<1> QED
  BY <1>1, <1>2, <1>3, <1>4 DEF Advance

LEMMA EnterKeeps ==
  ASSUME SyncInv, NEW d \in Callers, Join(d) \/ Begin(d), NEW c \in Callers
  PROVE  /\ call'[c].proc = call[c].proc /\ call'[c].range = call[c].range
         /\ c # d => pc'[c] = pc[c]
         /\ bars' = bars /\ clock' = clock
<1>1. CASE Join(d)
  BY <1>1 DEF Join, Goto, SyncInv, TypeOK, Call
<1>2. CASE Begin(d)
  <2>1. PICK l \in {0} \cup Days : call' = [call EXCEPT ![d].ref = clock, ![d].latest = l]
    BY <1>2 DEF Begin
  <2>2. call \in [Callers -> Call]
    BY DEF SyncInv, TypeOK
  <2>3. call' = [call EXCEPT ![d] = [call[d] EXCEPT !.ref = clock, !.latest = l]]
    BY <2>1, <2>2 DEF Call
  <2>4. call'[c].proc = call[c].proc /\ call'[c].range = call[c].range
    BY <2>2, <2>3 DEF Call
  <2> QED
    BY <1>2, <2>4 DEF Begin, Goto, SyncInv, TypeOK
<1> QED
  BY <1>1, <1>2

LEMMA CrashKeeps ==
  ASSUME SyncInv, NEW p \in Procs, Crash(p), NEW c \in Callers
  PROVE  /\ call'[c].proc = call[c].proc /\ call'[c].range = call[c].range
         /\ pc'[c] \in {pc[c], "done"}
         /\ call[c].proc # p => pc'[c] = pc[c]
         /\ call[c].proc = p => pc'[c] \in {"idle", "done"}
         /\ bars' = bars /\ clock' = clock
<1>1. End({d \in Callers : call[d].proc = p /\ pc[d] # "idle"})
  BY DEF Crash
<1>2. \/ call[c].proc = p /\ pc'[c] = "done" /\ call'[c] = Unread(c, call[c].proc, call[c].range)
      \/ pc'[c] = pc[c] /\ call'[c] = call[c]
  BY <1>1 DEF End
<1>3. /\ call[c].proc # p => pc'[c] = pc[c]
      /\ call[c].proc = p => pc'[c] \in {"idle", "done"}
  BY <1>1 DEF End
<1> QED
  BY <1>2, <1>3 DEF Crash, Unread

-----------------------------------------------------------------------------
(* The history of the top-up: when all calls go through one key, at most   *)
(* one is under way, and what it has read is as new as what is on record.  *)

Underway == {c \in Callers : pc[c] \in InFlight}

(* A call carries the instant and the latest day it began with; no attempt *)
(* and no success on record is later than that, and an attempt is on       *)
(* record for the last provider call unless its call is still under way.   *)
RecordIsOlder ==
  /\ lastCall <= clock /\ state.success <= clock
  /\ \A c \in Underway : /\ lastCall <= call[c].ref /\ call[c].ref <= clock
                         /\ state.success <= call[c].ref
                         /\ state.latest <= call[c].latest
  /\ (\A c \in Underway : pc[c] = "read") => lastCall <= state.attempt

(* A call has new days only once they are stored, and they are newer than  *)
(* what it found.                                                          *)
TopIsNew == \A c \in Callers :
              call[c].top # 0 => pc[c] = "stored" /\ call[c].latest < call[c].top

QueueInv == TopIsNew /\ (OneQueue => RecordIsOlder)

LEMMA QueueStart == Init => QueueInv
BY ConstantFacts, SyncConstants
   DEF Init, QueueInv, TopIsNew, RecordIsOlder, Underway, InFlight, Unread

LEMMA OneQueueStays == SyncInv /\ [Next]_vars => (OneQueue' <=> OneQueue)
<1> SUFFICES ASSUME SyncInv, [Next]_vars
             PROVE  \A c \in Callers : call'[c].proc = call[c].proc /\ call'[c].range = call[c].range
  BY DEF OneQueue
<1> TAKE c \in Callers
<1>1. CASE \E d \in Callers : Join(d) \/ Begin(d) \/ Advance(d)
  BY <1>1, EnterKeeps, AdvanceKeeps
<1>2. CASE \E p \in Procs : Crash(p)
  BY <1>2, CrashKeeps
<1>3. CASE UNCHANGED call
  BY <1>3
<1> QED
  BY <1>1, <1>2, <1>3 DEF Next, Tick, CsvImport, vars

LEMMA OneUnderway ==
  ASSUME SyncInv, OneQueue, NEW c \in Underway
  PROVE  /\ Underway = {c}
         /\ inflight[call[c].proc][call[c].range] # Nobody
BY SyncConstants DEF SyncInv, KeyIsHeld, OneQueue, Underway

(* The end of the only call under way leaves none.                         *)
LEMMA QueueEnds ==
  ASSUME SyncInv, TopIsNew, NEW cs \in SUBSET Callers, End(cs)
  PROVE  /\ TopIsNew' /\ Underway' \subseteq Underway \ cs
         /\ \A c \in Underway' : pc'[c] = pc[c] /\ call'[c] = call[c]
BY EndKeepsTypes DEF SyncInv, TopIsNew, Underway, InFlight

LEMMA QueueSettles ==
  ASSUME SyncInv, TopIsNew, NEW c \in Underway, Settle(c)
  PROVE  TopIsNew' /\ (OneQueue => Underway' = {})
<1> DEFINE cs == {c} \cup {d \in Callers : pc[d] = "waiting" /\ call[d].owner = c}
<1>1. cs \in SUBSET Callers /\ End(cs) /\ c \in cs
  BY DEF Settle, Underway
<1> HIDE DEF cs
<1>2. TopIsNew' /\ Underway' \subseteq Underway \ cs
  BY <1>1, QueueEnds
<1> QED
  BY <1>1, <1>2, OneUnderway

(* What the row keeps, by the call under way, is not older than before.    *)
LEMMA RecordIsNewer ==
  ASSUME SyncInv, QueueInv, OneQueue, NEW c \in Underway,
         NEW latest, latest \in {call[c].latest, call[c].top}, latest # 0 \/ call[c].latest = 0,
         NEW success \in {0, call[c].ref},
         RecordAttempt(call[c].ref, latest, success)
  PROVE  /\ state'.latest >= state.latest /\ state'.success >= state.success
         /\ state'.attempt = call[c].ref /\ state'.success <= clock
<1>1. /\ state \in SyncState /\ clock \in Nat
      /\ call[c].ref \in Nat /\ call[c].latest \in Nat /\ call[c].top \in Nat
  BY CallFacts, ConstantFacts DEF SyncInv, TypeOK, Underway
<1>2. state.latest \in Nat /\ state.success \in Nat
  BY <1>1, ConstantFacts DEF SyncState
<1>3. /\ state.success <= call[c].ref /\ call[c].ref <= clock /\ state.success <= clock
      /\ state.latest <= call[c].latest
      /\ call[c].top # 0 => call[c].latest < call[c].top
  BY DEF QueueInv, RecordIsOlder, TopIsNew, Underway
<1> QED
  BY <1>1, <1>2, <1>3 DEF RecordAttempt

(* A call that is under way on, but does not record.                       *)
LEMMA QueueGoesOn ==
  ASSUME SyncInv, QueueInv, SyncInv', NEW c \in Underway, NEW point \in InFlight,
         pc' = [pc EXCEPT ![c] = point], point # "read",
         UNCHANGED <<clock, state>>, OneQueue' <=> OneQueue,
         call'[c].ref = call[c].ref, call'[c].latest = call[c].latest,
         lastCall' = call[c].ref \/ (lastCall' = lastCall /\ pc[c] # "read")
  PROVE  OneQueue' => RecordIsOlder'
<1> SUFFICES ASSUME OneQueue PROVE RecordIsOlder'
  OBVIOUS
<1>1. Underway = {c}
  BY OneUnderway
<1>2. Underway' = {c} /\ pc'[c] = point
  BY <1>1 DEF Underway, SyncInv, TypeOK
<1>3. call[c].ref \in Nat
  BY CallFacts, ConstantFacts DEF Underway
<1> QED
  BY <1>1, <1>2, <1>3 DEF QueueInv, RecordIsOlder

LEMMA BeginQueue ==
  ASSUME SyncInv, QueueInv, SyncInv', NEW c \in Callers, Begin(c), OneQueue' <=> OneQueue
  PROVE  QueueInv'
<1>1. PICK l \in {0} \cup Days :
            /\ IsLatest(l, bars)
            /\ call' = [call EXCEPT ![c].ref = clock, ![c].latest = l]
  BY DEF Begin
<1>2. call' = [call EXCEPT ![c] = [call[c] EXCEPT !.ref = clock, !.latest = l]]
  BY <1>1 DEF SyncInv, TypeOK, Call
<1>3. /\ call'[c].ref = clock /\ call'[c].latest = l /\ call'[c].top = call[c].top
      /\ \A d \in Callers \ {c} : call'[d] = call[d] /\ pc'[d] = pc[d]
      /\ pc'[c] = "read"
  <2>1. call \in [Callers -> Call] /\ pc' = [pc EXCEPT ![c] = "read"] /\ pc \in [Callers -> Pc]
    BY DEF Begin, Goto, SyncInv, TypeOK
  <2>2. call[c] \in Call
    BY <2>1
  <2> QED
    BY <1>2, <2>1, <2>2 DEF Call
<1>4. TopIsNew'
  BY <1>3 DEF QueueInv, TopIsNew, Begin
<1>5. ASSUME OneQueue PROVE RecordIsOlder'
  <2>1. Underway = {}
    BY <1>5, OneUnderway DEF Begin, OneQueue, Underway
  <2>2. Underway' = {c}
    BY <1>3, <2>1 DEF Underway, InFlight
  <2>3. state.latest <= l
    <3>1. state.latest \in {0} \cup Days /\ IsStored(state.latest)
      BY DEF SyncInv, TypeOK, SyncState, CarriedAreStored
    <3>2. 0 <= l
      BY ConstantFacts
    <3> QED
      BY <1>1, <3>1, <3>2 DEF IsStored, IsLatest, Stored
  <2>4. clock \in Nat
    BY ConstantFacts DEF SyncInv, TypeOK
  <2>5. lastCall <= clock /\ state.success <= clock /\ lastCall <= state.attempt
    BY <1>5, <2>1 DEF QueueInv, RecordIsOlder
  <2> QED
    BY <1>3, <2>2, <2>3, <2>4, <2>5 DEF RecordIsOlder, Begin
<1> QED
  BY <1>4, <1>5 DEF QueueInv

LEMMA AnswerQueue ==
  ASSUME SyncInv, QueueInv, SyncInv', NEW c \in Callers, NEW last \in {0} \cup Days,
         Answer(c, last), OneQueue' <=> OneQueue
  PROVE  QueueInv'
<1>1. /\ \A d \in Callers \ {c} : call'[d] = call[d] /\ pc'[d] = pc[d]
      /\ call'[c].ref = call[c].ref /\ call'[c].latest = call[c].latest
      /\ call'[c].top = IF NewDays(c, last) = {} THEN call[c].top ELSE last
      /\ pc'[c] = "stored"
  BY DEF Answer, Goto, SyncInv, TypeOK, Call
<1>2. call[c].top = 0
  BY DEF Answer, QueueInv, TopIsNew
<1>3. ASSUME NEW d \in NewDays(c, last) PROVE call[c].latest < last
  <2>1. d \in Nat /\ last \in Nat /\ call[c].latest \in Nat
    BY CallFacts, ConstantFacts DEF NewDays
  <2> QED
    BY <2>1 DEF NewDays
<1>4. TopIsNew'
  BY <1>1, <1>2, <1>3 DEF QueueInv, TopIsNew
<1>5. c \in Underway /\ "stored" \in InFlight
  BY DEF Answer, Underway, InFlight
<1> QED
  BY <1>1, <1>4, <1>5, QueueGoesOn DEF QueueInv, Answer, Goto

LEMMA QueueStep == SyncInv /\ QueueInv /\ [Next]_vars => QueueInv'
<1> SUFFICES ASSUME SyncInv, QueueInv, [Next]_vars
             PROVE  QueueInv'
  OBVIOUS
<1>0. SyncInv' /\ (OneQueue' <=> OneQueue)
  BY SyncStep, OneQueueStays
<1>a. clock \in Nat /\ lastCall \in Nat /\ state.success \in Nat /\ state.latest \in Nat
  BY ConstantFacts DEF SyncInv, TypeOK, SyncState
<1>1. CASE Tick
  <2>1. UNCHANGED <<state, inflight, pc, call, lastCall>> /\ clock' = clock + 1
    BY <1>1 DEF Tick
  <2>2. \A c \in Callers : call[c].ref \in Nat
    BY CallFacts, ConstantFacts
  <2>3. RecordIsOlder => RecordIsOlder'
    BY <1>a, <2>1, <2>2 DEF RecordIsOlder, Underway
  <2> QED
    BY <1>0, <2>1, <2>3 DEF QueueInv, TopIsNew
<1>2. ASSUME NEW c \in Callers, Join(c) PROVE QueueInv'
  <2>1. /\ \A d \in Callers : /\ call'[d].ref = call[d].ref /\ call'[d].latest = call[d].latest
                              /\ call'[d].top = call[d].top
        /\ \A d \in Callers : pc'[d] = IF d = c THEN "waiting" ELSE pc[d]
        /\ pc[c] = "idle" /\ UNCHANGED <<clock, state, lastCall>>
    BY <1>2 DEF Join, Goto, SyncInv, TypeOK, Call
  <2>2. Underway' = Underway /\ c \notin Underway
    BY <2>1 DEF Underway, InFlight
  <2>3. RecordIsOlder => RecordIsOlder'
    BY <2>1, <2>2 DEF RecordIsOlder, Underway
  <2> QED
    BY <1>0, <2>1, <2>3 DEF QueueInv, TopIsNew
<1>3. ASSUME NEW c \in Callers, Begin(c) PROVE QueueInv'
  BY <1>0, <1>3, BeginQueue
<1>4. ASSUME NEW c \in Underway, Settle(c), UNCHANGED <<clock, state>>,
             lastCall' = 0 \/ (lastCall' = lastCall /\ pc[c] = "read")
      PROVE  QueueInv'
  <2>1. ASSUME OneQueue PROVE RecordIsOlder'
    <3>1. Underway' = {} /\ Underway = {c}
      BY <1>4, <2>1, QueueSettles, OneUnderway DEF QueueInv
    <3>2. state.attempt \in Nat
      BY ConstantFacts DEF SyncInv, TypeOK, SyncState
    <3> QED
      BY <1>4, <1>a, <2>1, <3>1, <3>2 DEF QueueInv, RecordIsOlder
  <2> QED
    BY <1>0, <1>4, <2>1, QueueSettles DEF QueueInv
<1>5. ASSUME NEW c \in Underway, Settle(c), UNCHANGED <<clock, lastCall>>,
             NEW latest, latest \in {call[c].latest, call[c].top}, latest # 0 \/ call[c].latest = 0,
             NEW success \in {0, call[c].ref},
             RecordAttempt(call[c].ref, latest, success)
      PROVE  QueueInv'
  <2>1. ASSUME OneQueue PROVE RecordIsOlder'
    <3>1. Underway' = {}
      BY <1>5, <2>1, QueueSettles DEF QueueInv
    <3>2. state'.attempt = call[c].ref /\ state'.success <= clock
      BY <1>5, <2>1, RecordIsNewer
    <3> QED
      BY <1>5, <2>1, <3>1, <3>2 DEF QueueInv, RecordIsOlder
  <2> QED
    BY <1>0, <1>5, <2>1, QueueSettles DEF QueueInv
<1>6. ASSUME NEW c \in Callers, SkipFresh(c) PROVE QueueInv'
  <2>1. c \in Underway /\ call[c].latest # 0
    BY <1>6 DEF SkipFresh, Underway, InFlight, Fresh
  <2> QED
    BY <1>5, <1>6, <2>1 DEF SkipFresh
<1>7. ASSUME NEW c \in Callers, SkipRecent(c) PROVE QueueInv'
  BY <1>4, <1>7 DEF SkipRecent, Underway, InFlight
<1>8. ASSUME NEW c \in Callers, CallProvider(c) \/ ProviderFails(c) PROVE QueueInv'
  <2> DEFINE point == IF pc[c] = "read" THEN "calling" ELSE "failing"
  <2>1. /\ c \in Underway /\ point \in InFlight /\ point # "read"
        /\ pc' = [pc EXCEPT ![c] = point]
        /\ UNCHANGED <<clock, state, call>>
        /\ lastCall' = call[c].ref \/ (lastCall' = lastCall /\ pc[c] # "read")
    BY <1>8 DEF CallProvider, ProviderFails, Goto, Underway, InFlight
  <2>2. TopIsNew'
    <3>1. \A d \in Callers : pc[d] = "stored" => pc'[d] = "stored"
      BY <1>8 DEF CallProvider, ProviderFails, Goto, SyncInv, TypeOK
    <3> QED
      BY <2>1, <3>1 DEF QueueInv, TopIsNew
  <2> HIDE DEF point
  <2> QED
    BY <1>0, <2>1, <2>2, QueueGoesOn DEF QueueInv
<1>9. ASSUME NEW c \in Callers, NEW last \in {0} \cup Days, Answer(c, last) PROVE QueueInv'
  BY <1>0, <1>9, AnswerQueue
<1>10. ASSUME NEW c \in Callers, RecordSuccess(c) PROVE QueueInv'
  <2> DEFINE l == IF call[c].top # 0 THEN call[c].top ELSE call[c].latest
  <2>1. c \in Underway /\ l \in {call[c].latest, call[c].top} /\ (l # 0 \/ call[c].latest = 0)
    BY <1>10 DEF RecordSuccess, Underway, InFlight
  <2>2. RecordAttempt(call[c].ref, l, call[c].ref) /\ Settle(c) /\ UNCHANGED <<clock, lastCall>>
    BY <1>10 DEF RecordSuccess
  <2> HIDE DEF l
  <2> QED
    BY <1>5, <2>1, <2>2
<1>11. ASSUME NEW c \in Callers, RecordFailure(c) PROVE QueueInv'
  <2>1. c \in Underway
    BY <1>11 DEF RecordFailure, Underway, InFlight
  <2> QED
    BY <1>5, <1>11, <2>1 DEF RecordFailure
<1>12. ASSUME NEW c \in Callers, RecordThrows(c) PROVE QueueInv'
  <2>1. c \in Underway
    BY <1>12 DEF RecordThrows, Underway, InFlight
  <2> QED
    BY <1>4, <1>12, <2>1 DEF RecordThrows
<1>13. ASSUME NEW p \in Procs, NEW days \in SUBSET Days, CsvImport(p, days) PROVE QueueInv'
  BY <1>0, <1>13 DEF CsvImport, QueueInv, TopIsNew, RecordIsOlder, Underway
<1>14. ASSUME NEW p \in Procs, Crash(p) PROVE QueueInv'
  <2> DEFINE cs == {c \in Callers : call[c].proc = p /\ pc[c] # "idle"}
  <2>1. cs \in SUBSET Callers /\ End(cs) /\ lastCall' = 0 /\ UNCHANGED <<clock, state>>
    BY <1>14 DEF Crash
  <2> HIDE DEF cs
  <2>2. /\ TopIsNew' /\ Underway' \subseteq Underway
        /\ \A c \in Underway' : pc'[c] = pc[c] /\ call'[c] = call[c]
    BY <2>1, QueueEnds DEF QueueInv
  <2>3. state.attempt \in Nat /\ \A c \in Callers : call[c].ref \in Nat
    BY CallFacts, ConstantFacts DEF SyncInv, TypeOK, SyncState
  <2>4. RecordIsOlder => RecordIsOlder'
    BY <1>a, <2>1, <2>2, <2>3 DEF RecordIsOlder, Underway
  <2> QED
    BY <1>0, <2>2, <2>4 DEF QueueInv
<1>15. CASE UNCHANGED vars
  BY <1>0, <1>15 DEF vars, QueueInv, TopIsNew, RecordIsOlder, Underway
<1> QED
  BY <1>1, <1>2, <1>3, <1>6, <1>7, <1>8, <1>9, <1>10, <1>11, <1>12, <1>13, <1>14, <1>15
     DEF Next, Advance

LEMMA QueueInvariant == Spec => [](SyncInv /\ QueueInv)
BY SyncInit, SyncStep, QueueStart, QueueStep, PTL DEF Spec

(* Only CallProvider() puts a call on the wire.                            *)
LEMMA CallsBegin ==
  ASSUME SyncInv, [Next]_vars, NEW c \in Callers, pc[c] = "read", pc'[c] = "calling"
  PROVE  CallProvider(c)
<1>1. ASSUME NEW d \in Callers, Settle(d) PROVE FALSE
  <2>1. PICK cs \in SUBSET Callers : End(cs)
    BY <1>1 DEF Settle
  <2> QED
    BY <2>1 DEF End
<1>2. ASSUME NEW d \in Callers, NEW point \in Pc, Goto(d, point) PROVE d = c /\ point = "calling"
  BY <1>2 DEF Goto, SyncInv, TypeOK
<1>3. ASSUME NEW d \in Callers, Join(d) \/ Begin(d) \/ Advance(d) PROVE CallProvider(c)
  <2>1. \/ Settle(d) \/ CallProvider(d)
        \/ \E point \in {"waiting", "read", "failing", "stored"} : Goto(d, point)
    BY <1>3 DEF Join, Begin, Advance, SkipFresh, SkipRecent, ProviderFails, Answer,
                RecordSuccess, RecordFailure, RecordThrows
  <2>2. CASE CallProvider(d)
    BY <1>2, <2>2 DEF CallProvider, Pc
  <2> QED
    BY <1>1, <1>2, <2>1, <2>2 DEF Pc
<1>4. ASSUME NEW p \in Procs, Crash(p) PROVE FALSE
  BY <1>4, CrashKeeps
<1> QED
  BY <1>3, <1>4 DEF Next, Tick, CsvImport, vars

(* What the row keeps is only ever replaced by what is as new.             *)
LEMMA RowIsNewer ==
  ASSUME SyncInv, QueueInv, OneQueue, [Next]_vars
  PROVE  state'.latest >= state.latest /\ state'.success >= state.success
<1>a. state.latest \in Nat /\ state.success \in Nat
  BY ConstantFacts DEF SyncInv, TypeOK, SyncState
<1>1. CASE UNCHANGED state
  BY <1>a, <1>1
<1>2. ASSUME NEW c \in Callers, SkipFresh(c)
      PROVE  state'.latest >= state.latest /\ state'.success >= state.success
  BY <1>2, RecordIsNewer DEF SkipFresh, Fresh, Underway, InFlight
<1>3. ASSUME NEW c \in Callers, RecordFailure(c)
      PROVE  state'.latest >= state.latest /\ state'.success >= state.success
  BY <1>3, RecordIsNewer DEF RecordFailure, Underway, InFlight
<1>4. ASSUME NEW c \in Callers, RecordSuccess(c)
      PROVE  state'.latest >= state.latest /\ state'.success >= state.success
  <2> DEFINE l == IF call[c].top # 0 THEN call[c].top ELSE call[c].latest
  <2>1. c \in Underway /\ l \in {call[c].latest, call[c].top} /\ (l # 0 \/ call[c].latest = 0)
    BY <1>4 DEF RecordSuccess, Underway, InFlight
  <2>2. RecordAttempt(call[c].ref, l, call[c].ref)
    BY <1>4 DEF RecordSuccess
  <2> HIDE DEF l
  <2> QED
    BY <2>1, <2>2, RecordIsNewer
<1> QED
  BY <1>1, <1>2, <1>3, <1>4
     DEF Next, Advance, Tick, Join, Begin, SkipRecent, CallProvider, ProviderFails, Answer,
         RecordThrows, CsvImport, Crash, vars

(* Two provider calls through one key are StaleAfter apart, for any number *)
(* of calls of sync() and whatever fails or dies, unless the attempt could *)
(* not be recorded (marketDataSyncService.ts:141-152).                     *)
THEOREM CallsAreThrottledHolds == Spec => CallsAreThrottled
<1>1. ASSUME SyncInv, QueueInv, [Next]_vars, OneQueue, NEW c \in Callers,
             pc[c] = "read", pc'[c] = "calling"
      PROVE  lastCall = 0 \/ call[c].ref - lastCall >= StaleAfter
  <2>1. ~WithinWindow(c)
    BY <1>1, CallsBegin DEF CallProvider
  <2>2. Underway = {c}
    BY <1>1, OneUnderway DEF Underway, InFlight
  <2>3. lastCall <= state.attempt
    BY <1>1, <2>2 DEF QueueInv, RecordIsOlder
  <2>4. lastCall \in Nat /\ state.attempt \in Nat /\ call[c].ref \in Nat
    BY <1>1, CallFacts, ConstantFacts DEF SyncInv, TypeOK, SyncState
  <2> QED
    BY <2>1, <2>3, <2>4, SyncConstants DEF WithinWindow
<1>2. SyncInv /\ QueueInv /\ [Next]_vars =>
        [OneQueue => \A c \in Callers : pc[c] = "read" /\ pc'[c] = "calling" =>
           lastCall = 0 \/ call[c].ref - lastCall >= StaleAfter]_vars
  BY <1>1
<1> QED
  BY <1>2, QueueInvariant, PTL DEF Spec, CallsAreThrottled

(* A success on record, its day or its instant, is never replaced by an    *)
(* older one while the calls go through one key                            *)
(* (syncStateRepository.ts:43-54).                                         *)
THEOREM SuccessNeverRegressesHolds == Spec => SuccessNeverRegresses
<1>1. SyncInv /\ QueueInv /\ [Next]_vars =>
        [OneQueue => state'.latest >= state.latest /\ state'.success >= state.success]_vars
  BY RowIsNewer
<1> QED
  BY <1>1, QueueInvariant, PTL DEF Spec, SuccessNeverRegresses

-----------------------------------------------------------------------------
(* The reports.                                                            *)

HeldAreStored ==
  /\ \A c \in Callers : /\ IsStored(got[c].last) /\ IsStored(floor[c])
                        /\ IsStored(known[c]) /\ IsStored(outcome[c].top)
  /\ \A g \in Ranges : IsStored(cache[g].last)

(* Only a request that awaits its sync has a call in flight.               *)
StagesAgree == \A c \in Callers :
  /\ stage[c] # "out" => IsRequest(c)
  /\ IsRequest(c) /\ stage[c] # "syncing" => pc[c] \in {"idle", "done"}
  /\ reply[c] # "none" => stage[c] = "done"

(* The server is inside one request at most, and what that request has     *)
(* read is as new as all that has been shown and all it must cover.        *)
InHandIsNewest == \A c \in Callers : stage[c] = "bars" =>
  /\ \A d \in Callers : stage[d] = "bars" => d = c
  /\ \A d \in Callers : Reported(d) => got[d].last <= got[c].last
  /\ floor[c] <= got[c].last
  /\ outcome[c].top <= got[c].last
  /\ got[c] \in Report

CacheIsNewest == \A g \in Ranges : cache[g] # NoReport =>
  \A d \in Callers : Reported(d) /\ RangeOf(d) = g => got[d].last <= cache[g].last

(* What the cache holds says the truth of an instant that its expiry tells.*)
CacheIsDated == \A g \in Ranges : cache[g] # NoReport =>
  \E t \in Times : t <= clock /\ cache[g].due = t + Ttl /\ SaysTrue(cache[g], t)

HybridInv == /\ HybridTypeOK /\ HeldAreStored /\ StagesAgree
             /\ InHandIsNewest /\ CacheIsNewest /\ CacheIsDated
             /\ NoDataIsTrue /\ ReadsItsSync /\ NeverOlder /\ FreshnessIsTrue

USE HybridConstants

-----------------------------------------------------------------------------
(* The sync inside the request.                                            *)

LEMMA StepsOfSync == [HybridNext]_hybridVars => [Next]_vars
<1> SUFFICES ASSUME [HybridNext]_hybridVars PROVE [Next]_vars
  OBVIOUS
<1>1. ASSUME NEW c \in Callers, SyncAdvance(c) PROVE Next
  BY <1>1 DEF SyncAdvance, Next, Advance
<1>2. ASSUME NEW c \in Callers, DailySync(c) PROVE Next
  BY <1>2 DEF DailySync, Next
<1>3. ASSUME NEW c \in Callers, Request(c) PROVE [Next]_vars
  BY <1>3 DEF Request, Hit, AwaitSync, ReadStored, Next
<1>4. ASSUME NEW c \in Callers, Resume(c) PROVE UNCHANGED vars
  BY <1>4 DEF Resume, ReadAfterSync, SyncRejects, Publish
<1>5. CASE \E g \in Ranges : Evict(g)
  BY <1>5 DEF Evict
<1>6. CASE DailyImport \/ HybridTick \/ DailyCrash
  BY <1>6 DEF DailyImport, HybridTick, DailyCrash, Next
<1>7. CASE ServerCrash
  BY <1>7 DEF ServerCrash, Next
<1>8. CASE UNCHANGED hybridVars
  BY <1>8 DEF hybridVars
<1> QED
  BY <1>1, <1>2, <1>3, <1>4, <1>5, <1>6, <1>7, <1>8 DEF HybridNext

(* The latest day is stored, and no stored day is later.                   *)
LEMMA LatestFacts ==
  ASSUME NEW l \in {0} \cup Days, IsLatest(l, bars)
  PROVE  /\ IsStored(l)
         /\ \A d \in {0} \cup Days : IsStored(d) => d <= l
BY ConstantFacts DEF IsLatest, Stored, IsStored

-----------------------------------------------------------------------------
(* The steps of the sync, of the daily job and of time.                    *)

LEMMA SyncOnly ==
  ASSUME HybridInv, TypeOK',
         UNCHANGED <<mode, cache, stage, got, reply, known, floor, served>>,
         outcome' \in [Callers -> SyncOutcome],
         clock' >= clock,
         \A day \in Days : bars[day] # "none" => bars'[day] # "none",
         \A c \in Callers :
           /\ call'[c].proc = call[c].proc /\ call'[c].range = call[c].range
           /\ IsStored(outcome[c].top)'
           /\ IsRequest(c) /\ stage[c] # "syncing" => pc'[c] \in {"idle", "done"}
           /\ stage[c] \in {"bars", "done"} => outcome'[c] = outcome[c]
  PROVE  HybridInv'
<1>1. HybridTypeOK'
  BY DEF HybridInv, HybridTypeOK
<1>2. HeldAreStored'
  <2>1. \A c \in Callers : /\ got[c].last \in {0} \cup Days /\ floor[c] \in {0} \cup Days
                           /\ known[c] \in {0} \cup Days
    BY DEF HybridInv, HybridTypeOK, Report, NoReport
  <2>2. \A g \in Ranges : cache[g].last \in {0} \cup Days
    BY DEF HybridInv, HybridTypeOK, Report, NoReport
  <2> QED
    BY <2>1, <2>2 DEF HybridInv, HeldAreStored, IsStored
<1>3. StagesAgree'
  BY DEF HybridInv, StagesAgree, IsRequest, Reported
<1>4. InHandIsNewest'
  BY DEF HybridInv, InHandIsNewest, Reported
<1>5. CacheIsNewest'
  BY DEF HybridInv, CacheIsNewest, Reported, RangeOf
<1>6. CacheIsDated'
  <2>1. clock \in Nat /\ clock' \in Nat
    BY ConstantFacts DEF HybridInv, HybridTypeOK, TypeOK
  <2> QED
    BY <2>1, ConstantFacts DEF HybridInv, CacheIsDated
<1>7. NoDataIsTrue' /\ NeverOlder' /\ FreshnessIsTrue'
  BY DEF HybridInv, NoDataIsTrue, NeverOlder, FreshnessIsTrue, Reported
<1>8. ReadsItsSync'
  BY DEF HybridInv, ReadsItsSync, StagesAgree, Reported
<1> QED
  BY <1>1, <1>2, <1>3, <1>4, <1>5, <1>6, <1>7, <1>8 DEF HybridInv

LEMMA ReturnsKeeps ==
  ASSUME HybridInv, SyncInv, NEW d \in Callers, Advance(d),
         NEW result \in {"skipped", "success", "failed", "throws"}, Returns(d, result)
  PROVE  /\ outcome' \in [Callers -> SyncOutcome]
         /\ \A c \in Callers :
              /\ IsStored(outcome[c].top)'
              /\ stage[c] \in {"bars", "done"} => outcome'[c] = outcome[c]
<1>1. call[d].top \in {0} \cup Days /\ IsStored(call[d].top)
  BY CallFacts
<1>2. outcome \in [Callers -> SyncOutcome]
  BY DEF HybridInv, HybridTypeOK
<1>3. [result |-> result, top |-> call[d].top] \in SyncOutcome
  BY <1>1 DEF SyncOutcome
<1>4. outcome' \in [Callers -> SyncOutcome]
  BY <1>2, <1>3 DEF Returns
<1>5. \A day \in Days : bars[day] # "none" => bars'[day] # "none"
  BY AdvanceKeeps
<1>6. ASSUME NEW c \in Callers
      PROVE  /\ IsStored(outcome[c].top)'
             /\ stage[c] \in {"bars", "done"} => outcome'[c] = outcome[c]
  <2>1. outcome'[c] = outcome[c] \/ outcome'[c].top = call[d].top
    BY DEF Returns
  <2>2. IsStored(outcome[c].top) /\ outcome[c].top \in {0} \cup Days
    BY <1>2 DEF HybridInv, HeldAreStored, SyncOutcome
  <2>3. IsStored(outcome[c].top)'
    BY <1>1, <1>5, <2>1, <2>2 DEF IsStored
  <2>4. stage[c] \in {"bars", "done"} => pc'[c] = pc[c]
    BY AdvanceKeeps DEF HybridInv, StagesAgree
  <2> QED
    BY <2>3, <2>4 DEF Returns
<1> QED
  BY <1>4, <1>6

LEMMA AdvanceStep ==
  ASSUME HybridInv, SyncInv, TypeOK', NEW d \in Callers, SyncAdvance(d)
  PROVE  HybridInv'
<1>1. Advance(d)
  BY DEF SyncAdvance, Advance
<1>2. clock' >= clock
  BY <1>1, AdvanceKeeps, ConstantFacts DEF SyncInv, TypeOK
<1>3. /\ outcome' \in [Callers -> SyncOutcome]
      /\ \A c \in Callers : /\ IsStored(outcome[c].top)'
                            /\ stage[c] \in {"bars", "done"} => outcome'[c] = outcome[c]
  <2>1. CASE outcome' = outcome
    <3>1. \A c \in Callers : outcome[c].top \in {0} \cup Days /\ IsStored(outcome[c].top)
      BY DEF HybridInv, HybridTypeOK, HeldAreStored, SyncOutcome
    <3> QED
      BY <1>1, <2>1, <3>1, AdvanceKeeps DEF IsStored, HybridInv, HybridTypeOK
  <2>2. CASE \E result \in {"skipped", "success", "failed", "throws"} : Returns(d, result)
    BY <1>1, <2>2, ReturnsKeeps
  <2> QED
    BY <2>1, <2>2 DEF SyncAdvance
<1>4. \A c \in Callers :
        /\ call'[c].proc = call[c].proc /\ call'[c].range = call[c].range
        /\ IsRequest(c) /\ stage[c] # "syncing" => pc'[c] \in {"idle", "done"}
  BY <1>1, AdvanceKeeps DEF HybridInv, StagesAgree
<1>5. \A day \in Days : bars[day] # "none" => bars'[day] # "none"
  BY <1>1, AdvanceKeeps
<1>6. UNCHANGED <<mode, cache, stage, got, reply, known, floor, served>>
  BY DEF SyncAdvance
<1> QED
  BY <1>2, <1>3, <1>4, <1>5, <1>6, SyncOnly

LEMMA OtherSteps ==
  ASSUME HybridInv, SyncInv, TypeOK',
         \/ \E d \in Callers : DailySync(d)
         \/ DailyImport \/ HybridTick \/ DailyCrash
  PROVE  HybridInv'
<1>1. UNCHANGED <<mode, cache, stage, outcome, got, reply, known, floor, served>>
  BY DEF DailySync, DailyImport, HybridTick, DailyCrash, requestVars
<1>2. /\ clock' >= clock
      /\ \A day \in Days : bars[day] # "none" => bars'[day] # "none"
      /\ \A c \in Callers :
           /\ call'[c].proc = call[c].proc /\ call'[c].range = call[c].range
           /\ IsRequest(c) /\ stage[c] # "syncing" => pc'[c] \in {"idle", "done"}
  <2> USE DEF HybridInv, StagesAgree
  <2>0. clock \in Nat
    BY ConstantFacts DEF SyncInv, TypeOK
  <2>1. ASSUME NEW d \in Callers, DailySync(d) PROVE <1>2
    BY <2>0, <2>1, EnterKeeps DEF DailySync, IsRequest
  <2>2. CASE DailyImport
    BY <2>0, <2>2 DEF DailyImport, CsvImport
  <2>3. CASE HybridTick
    BY <2>0, <2>3 DEF HybridTick, Tick
  <2>4. CASE DailyCrash
    <3>1. PICK p \in Procs : p # Server /\ Crash(p)
      BY <2>4 DEF DailyCrash
    <3>2. clock' = clock /\ bars' = bars
      BY <3>1 DEF Crash
    <3> QED
      BY <2>0, <3>1, <3>2, CrashKeeps DEF IsRequest
  <2> QED
    BY <2>1, <2>2, <2>3, <2>4
<1>3. /\ outcome' \in [Callers -> SyncOutcome]
      /\ \A c \in Callers : IsStored(outcome[c].top)'
  <2>1. \A c \in Callers : outcome[c].top \in {0} \cup Days /\ IsStored(outcome[c].top)
    BY DEF HybridInv, HybridTypeOK, HeldAreStored, SyncOutcome
  <2> QED
    BY <1>1, <1>2, <2>1 DEF IsStored, HybridInv, HybridTypeOK
<1> QED
  BY <1>1, <1>2, <1>3, SyncOnly

-----------------------------------------------------------------------------
(* The steps of a request.                                                 *)

LEMMA HeldFacts ==
  ASSUME HybridInv, NEW c \in Callers
  PROVE  /\ got[c].last \in {0} \cup Days /\ IsStored(got[c].last)
         /\ floor[c] \in {0} \cup Days /\ IsStored(floor[c])
         /\ known[c] \in {0} \cup Days /\ IsStored(known[c])
         /\ outcome[c].top \in {0} \cup Days /\ IsStored(outcome[c].top)
         /\ RangeOf(c) \in Ranges
BY DEF HybridInv, HybridTypeOK, TypeOK, Call, HeldAreStored, Report, NoReport, SyncOutcome, RangeOf

LEMMA ArriveFacts ==
  ASSUME HybridInv, NEW c \in Callers, Arrive(c)
  PROVE  /\ IsRequest(c) /\ stage[c] = "out" /\ reply[c] = "none"
         /\ \A d \in Callers : stage[d] # "bars"
         /\ known' \in [Callers -> {0} \cup Days] /\ floor' \in [Callers -> {0} \cup Days]
         /\ \A d \in Callers : d # c => known'[d] = known[d] /\ floor'[d] = floor[d]
         /\ IsStored(known'[c]) /\ IsStored(floor'[c])
         /\ floor'[c] = 0 \/ \E d \in Callers : /\ RangeOf(d) = RangeOf(c) /\ Reported(d)
                                                /\ floor'[c] = got[d].last
<1>1. PICK l \in {0} \cup Days : IsLatest(l, bars) /\ known' = [known EXCEPT ![c] = l]
  BY DEF Arrive
<1>2. PICK f \in {0} \cup Days : IsFloor(f, RangeOf(c)) /\ floor' = [floor EXCEPT ![c] = f]
  BY DEF Arrive
<1>3. known \in [Callers -> {0} \cup Days] /\ floor \in [Callers -> {0} \cup Days]
  BY DEF HybridInv, HybridTypeOK
<1>4. IsStored(l)
  BY <1>1, LatestFacts
<1>5. f = 0 \/ \E d \in Callers : /\ RangeOf(d) = RangeOf(c) /\ Reported(d)
                                  /\ f = got[d].last
  BY <1>2 DEF IsFloor, Reported
<1>6. IsStored(f)
  BY <1>5, HeldFacts DEF IsStored
<1>7. IsRequest(c) /\ stage[c] = "out" /\ reply[c] = "none" /\ \A d \in Callers : stage[d] # "bars"
  BY DEF Arrive, LoopFree, HybridInv, StagesAgree
<1> QED
  BY <1>1, <1>2, <1>3, <1>4, <1>5, <1>6, <1>7

(* A look-up drops what it finds expired.                                  *)
LEMMA LookUpFacts ==
  ASSUME HybridInv, NEW c \in Callers, LookUp(c)
  PROVE  /\ cache' \in [Ranges -> Report \cup {NoReport}]
         /\ \A g \in Ranges : cache'[g] \in {cache[g], NoReport}
<1>1. cache \in [Ranges -> Report \cup {NoReport}] /\ RangeOf(c) \in Ranges
  BY HeldFacts DEF HybridInv, HybridTypeOK
<1> QED
  BY <1>1 DEF LookUp

(* An entry of the cache that stays, or goes, keeps what is said of it.    *)
LEMMA CacheShrinks ==
  ASSUME HybridInv, clock' = clock, bars' = bars,
         \A g \in Ranges : cache'[g] \in {cache[g], NoReport}
  PROVE  /\ CacheIsDated'
         /\ \A g \in Ranges : IsStored(cache[g].last)'
<1>1. CacheIsDated'
  BY DEF HybridInv, CacheIsDated
<1>2. \A g \in Ranges : IsStored(cache[g].last)'
  BY DEF HybridInv, HeldAreStored, IsStored, NoReport
<1> QED
  BY <1>1, <1>2

LEMMA HitStep ==
  ASSUME HybridInv, TypeOK', NEW c \in Callers, Hit(c)
  PROVE  HybridInv'
<1> DEFINE g == RangeOf(c)
<1>0. /\ g \in Ranges /\ cache[g] \in Report /\ cache[g].due > clock /\ cache[g] # NoReport
      /\ cache[g].last \in Days /\ IsStored(cache[g].last)
  <2>1. g \in Ranges
    BY HeldFacts
  <2>2. cache[g] \in Report /\ cache[g].due > clock /\ cache[g] # NoReport
    BY <2>1 DEF Hit, Cached, HybridInv, HybridTypeOK
  <2> QED
    BY <2>1, <2>2 DEF HybridInv, HeldAreStored, Report
<1>1. /\ \A d \in Callers : d # c => /\ stage'[d] = stage[d] /\ reply'[d] = reply[d]
                                     /\ got'[d] = got[d] /\ served'[d] = served[d]
      /\ stage'[c] = "done" /\ reply'[c] = "hit" /\ got'[c] = cache[g] /\ served'[c] = clock
      /\ UNCHANGED <<clock, bars, pc, call, mode, cache, outcome>>
  BY DEF Hit, Answered, HybridInv, HybridTypeOK, vars
<1>2. Arrive(c)
  BY DEF Hit
<1> HIDE DEF g
<1>3. HybridTypeOK'
  <2>1. got' \in [Callers -> Report \cup {NoReport}] /\ served' \in [Callers -> Times]
    BY <1>0 DEF Hit, Answered, HybridInv, HybridTypeOK, TypeOK, g
  <2> QED
    BY <1>1, <1>2, <2>1, ArriveFacts DEF Hit, Answered, HybridInv, HybridTypeOK
<1>4. HeldAreStored'
  BY <1>0, <1>1, <1>2, ArriveFacts DEF HybridInv, HeldAreStored, IsStored
<1>5. StagesAgree'
  BY <1>1, <1>2, ArriveFacts DEF HybridInv, StagesAgree, IsRequest
<1>6. InHandIsNewest'
  BY <1>1, <1>2, ArriveFacts DEF InHandIsNewest
<1>7. CacheIsNewest'
  <2>1. ASSUME NEW h \in Ranges, cache'[h] # NoReport, NEW d \in Callers, Reported(d)', RangeOf(d)' = h
        PROVE  got'[d].last <= cache'[h].last
    <3>1. CASE d = c
      <4>1. h = g
        BY <1>1, <2>1, <3>1 DEF RangeOf, g
      <4>2. cache[g].last \in Nat
        BY <1>0, ConstantFacts
      <4> QED
        BY <1>1, <3>1, <4>1, <4>2
    <3>2. CASE d # c
      BY <1>1, <2>1, <3>2 DEF HybridInv, CacheIsNewest, Reported, RangeOf
    <3> QED
      BY <3>1, <3>2
  <2> QED
    BY <2>1 DEF CacheIsNewest
<1>8. CacheIsDated'
  BY <1>1, CacheShrinks DEF vars
<1>9. NoDataIsTrue' /\ ReadsItsSync'
  BY <1>1, <1>2, ArriveFacts DEF HybridInv, NoDataIsTrue, ReadsItsSync
<1>10. NeverOlder'
  <2>1. floor'[c] <= got'[c].last
    <3>1. \A d \in Callers : RangeOf(d) = g /\ Reported(d) => got[d].last <= cache[g].last
      BY <1>0 DEF HybridInv, CacheIsNewest
    <3>2. got'[c].last = cache[g].last /\ cache[g].last \in Nat
      BY <1>0, <1>1, ConstantFacts
    <3> QED
      BY <1>2, <3>1, <3>2, ArriveFacts DEF g
  <2> QED
    BY <1>1, <1>2, <2>1, ArriveFacts, HeldFacts DEF HybridInv, NeverOlder, Reported
<1>11. FreshnessIsTrue'
  <2>1. PICK t \in Times : t <= clock /\ cache[g].due = t + Ttl /\ SaysTrue(cache[g], t)
    BY <1>0 DEF HybridInv, CacheIsDated
  <2>2. served'[c] < t + Ttl /\ t <= served'[c]
    BY <1>0, <1>1, <2>1 DEF Report
  <2> QED
    BY <1>1, <2>1, <2>2 DEF HybridInv, FreshnessIsTrue, Reported
<1> QED
  BY <1>3, <1>4, <1>5, <1>6, <1>7, <1>8, <1>9, <1>10, <1>11 DEF HybridInv

(* The reading of the bars, by a request that has just come in or whose    *)
(* sync has settled.                                                       *)
LEMMA ReadBarsStep ==
  ASSUME HybridInv, TypeOK', NEW c \in Callers, NEW latest \in {0} \cup Days,
         ReadBars(c, latest), UNCHANGED <<vars, mode, outcome>>,
         IsRequest(c), pc[c] \in {"idle", "done"}, reply[c] = "none",
         \A d \in Callers : stage[d] # "bars",
         cache' \in [Ranges -> Report \cup {NoReport}],
         \A g \in Ranges : cache'[g] \in {cache[g], NoReport},
         known' \in [Callers -> {0} \cup Days], floor' \in [Callers -> {0} \cup Days],
         IsStored(known'[c]), IsStored(floor'[c]),
         \A d \in Callers : d # c => known'[d] = known[d] /\ floor'[d] = floor[d]
  PROVE  HybridInv'
<1>1. /\ \A d \in Callers : d # c => /\ stage'[d] = stage[d] /\ reply'[d] = reply[d]
                                     /\ got'[d] = got[d] /\ served'[d] = served[d]
      /\ \/ /\ latest = 0
            /\ stage'[c] = "done" /\ reply'[c] = "noData" /\ got'[c] = got[c]
         \/ /\ latest # 0
            /\ stage'[c] = "bars" /\ reply'[c] = "none" /\ got'[c].last = latest
  BY DEF ReadBars, Answered, HybridInv, HybridTypeOK, Report, NoReport
<1>2. UNCHANGED <<clock, bars, pc, call>>
  BY DEF vars
<1>3. /\ IsStored(latest)
      /\ \A d \in {0} \cup Days : IsStored(d) => d <= latest
  BY LatestFacts DEF ReadBars
<1>4. HybridTypeOK'
  <2>1. got' \in [Callers -> Report \cup {NoReport}]
    <3>1. CASE got' = got
      BY <3>1 DEF HybridInv, HybridTypeOK
    <3>2. CASE latest # 0 /\ got' = [got EXCEPT ![c].last = latest]
      <4>1. [got[c] EXCEPT !.last = latest] \in Report
        <5> DEFINE Read == [last : {0} \cup Days, latest : {0} \cup Days, stale : BOOLEAN,
                            fallback : BOOLEAN, dataSource : {"sqlite", "api"},
                            due : 0 .. Horizon + Ttl]
        <5>1. NoReport \in Read
          <6>1. 0 \in 0 .. Horizon + Ttl
            BY SyncConstants
          <6> QED
            BY <6>1 DEF NoReport
        <5>2. Report \subseteq Read
          BY DEF Report
        <5>3. got[c] \in Read
          BY <5>1, <5>2 DEF HybridInv, HybridTypeOK
        <5>4. latest \in Days
          BY <3>2
        <5> QED
          BY <5>3, <5>4 DEF Report
      <4> QED
        BY <3>2, <4>1 DEF HybridInv, HybridTypeOK
    <3> QED
      BY <3>1, <3>2 DEF ReadBars
  <2>2. /\ stage' \in [Callers -> {"out", "syncing", "bars", "done"}]
        /\ reply' \in [Callers -> {"none", "hit", "fresh", "noData", "error"}]
        /\ served' \in [Callers -> Times]
    <3>1. CASE Answered(c, "noData")
      BY <3>1 DEF Answered, HybridInv, HybridTypeOK, TypeOK
    <3>2. CASE stage' = [stage EXCEPT ![c] = "bars"] /\ UNCHANGED <<reply, served>>
      BY <3>2 DEF HybridInv, HybridTypeOK
    <3> QED
      BY <3>1, <3>2 DEF ReadBars
  <2> QED
    BY <2>1, <2>2 DEF HybridInv, HybridTypeOK
<1>5. HeldAreStored'
  <2>1. \A g \in Ranges : IsStored(cache[g].last)'
    BY <1>2, CacheShrinks
  <2>2. ASSUME NEW d \in Callers
        PROVE  /\ IsStored(got[d].last)' /\ IsStored(floor[d])'
               /\ IsStored(known[d])' /\ IsStored(outcome[d].top)'
    <3>1. CASE d = c
      BY <1>1, <1>2, <1>3, <3>1, HeldFacts DEF IsStored
    <3>2. CASE d # c
      BY <1>1, <1>2, <3>2, HeldFacts DEF IsStored
    <3> QED
      BY <3>1, <3>2
  <2> QED
    BY <2>1, <2>2 DEF HeldAreStored
<1>6. StagesAgree'
  BY <1>1, <1>2 DEF HybridInv, StagesAgree, IsRequest
<1>7. InHandIsNewest'
  <2>1. CASE latest = 0
    BY <1>1, <2>1 DEF InHandIsNewest
  <2>2. CASE latest # 0
    <3>1. \A d \in Callers : stage'[d] = "bars" => d = c
      BY <1>1
    <3>2. \A d \in Callers : Reported(d)' => got'[d].last <= latest
      BY <1>1, <1>3, <2>2, HeldFacts DEF Reported
    <3>3. floor'[c] <= latest /\ outcome'[c].top <= latest
      BY <1>3, HeldFacts
    <3> QED
      BY <1>1, <1>4, <2>2, <3>1, <3>2, <3>3 DEF InHandIsNewest, HybridTypeOK, NoReport, Report
  <2> QED
    BY <2>1, <2>2
<1>8. CacheIsNewest'
  BY <1>1, <1>2 DEF HybridInv, CacheIsNewest, Reported, RangeOf
<1>9. CacheIsDated'
  BY <1>2, CacheShrinks
<1>10. NoDataIsTrue'
  <2>1. latest = 0 => known'[c] = 0
    <3>1. known'[c] \in {0} \cup Days
      OBVIOUS
    <3>2. known'[c] <= latest /\ known'[c] \in Nat
      BY <1>2, <1>3, <3>1, ConstantFacts DEF IsStored
    <3> QED
      BY <3>2
  <2> QED
    BY <1>1, <2>1 DEF HybridInv, NoDataIsTrue
<1>11. ReadsItsSync' /\ NeverOlder' /\ FreshnessIsTrue'
  BY <1>1 DEF HybridInv, ReadsItsSync, NeverOlder, FreshnessIsTrue, Reported
<1> QED
  BY <1>4, <1>5, <1>6, <1>7, <1>8, <1>9, <1>10, <1>11 DEF HybridInv

LEMMA ReadStoredStep ==
  ASSUME HybridInv, TypeOK', NEW c \in Callers, ReadStored(c)
  PROVE  HybridInv'
<1>1. PICK latest \in {0} \cup Days : ReadBars(c, latest)
  BY DEF ReadStored
<1>2. Arrive(c) /\ LookUp(c) /\ UNCHANGED <<vars, mode, outcome>>
  BY DEF ReadStored
<1>3. pc[c] \in {"idle", "done"}
  BY <1>2, ArriveFacts DEF HybridInv, StagesAgree
<1> QED
  BY <1>1, <1>2, <1>3, ArriveFacts, LookUpFacts, ReadBarsStep

LEMMA ReadAfterSyncStep ==
  ASSUME HybridInv, TypeOK', NEW c \in Callers, ReadAfterSync(c)
  PROVE  HybridInv'
<1>1. PICK latest \in {0} \cup Days : ReadBars(c, latest)
  BY DEF ReadAfterSync
<1>2. /\ IsRequest(c) /\ pc[c] \in {"idle", "done"} /\ reply[c] = "none"
      /\ \A d \in Callers : stage[d] # "bars"
  BY DEF ReadAfterSync, ResumeFree, Resuming, HybridInv, StagesAgree
<1>3. UNCHANGED <<vars, mode, cache, outcome, known, floor>>
  BY DEF ReadAfterSync
<1>4. /\ cache' \in [Ranges -> Report \cup {NoReport}]
      /\ known' \in [Callers -> {0} \cup Days] /\ floor' \in [Callers -> {0} \cup Days]
      /\ IsStored(known'[c]) /\ IsStored(floor'[c])
  BY <1>3, HeldFacts DEF HybridInv, HybridTypeOK
<1> QED
  BY <1>1, <1>2, <1>3, <1>4, ReadBarsStep

LEMMA SyncRejectsStep ==
  ASSUME HybridInv, TypeOK', NEW c \in Callers, SyncRejects(c)
  PROVE  HybridInv'
<1>1. /\ UNCHANGED <<clock, bars, pc, call, mode, cache, outcome, got, known, floor>>
      /\ \A d \in Callers : d # c => /\ stage'[d] = stage[d] /\ reply'[d] = reply[d]
                                     /\ served'[d] = served[d]
      /\ stage'[c] = "done" /\ reply'[c] = "error"
  BY DEF SyncRejects, Answered, HybridInv, HybridTypeOK, vars
<1>2. stage[c] = "syncing" /\ pc[c] = "done" /\ \A d \in Callers : stage[d] # "bars"
  BY DEF SyncRejects, ResumeFree, Resuming
<1>3. HybridTypeOK'
  BY DEF SyncRejects, Answered, HybridInv, HybridTypeOK, TypeOK
<1>4. HeldAreStored' /\ CacheIsDated'
  BY <1>1 DEF HybridInv, HeldAreStored, IsStored, CacheIsDated
<1>5. StagesAgree'
  BY <1>1, <1>2 DEF HybridInv, StagesAgree, IsRequest
<1>6. InHandIsNewest'
  BY <1>1, <1>2 DEF InHandIsNewest
<1>7. CacheIsNewest'
  BY <1>1 DEF HybridInv, CacheIsNewest, Reported, RangeOf
<1>8. NoDataIsTrue' /\ ReadsItsSync' /\ NeverOlder' /\ FreshnessIsTrue'
  BY <1>1 DEF HybridInv, NoDataIsTrue, ReadsItsSync, NeverOlder, FreshnessIsTrue, Reported
<1> QED
  BY <1>3, <1>4, <1>5, <1>6, <1>7, <1>8 DEF HybridInv

LEMMA AwaitSyncStep ==
  ASSUME HybridInv, SyncInv, TypeOK', NEW c \in Callers, AwaitSync(c)
  PROVE  HybridInv'
<1>1. Arrive(c) /\ LookUp(c) /\ (Join(c) \/ Begin(c))
  BY DEF AwaitSync
<1>2. /\ UNCHANGED <<mode, outcome, got, reply, served>>
      /\ \A d \in Callers : d # c => stage'[d] = stage[d]
      /\ stage'[c] = "syncing"
  BY DEF AwaitSync, HybridInv, HybridTypeOK
<1>3. /\ clock' = clock /\ bars' = bars
      /\ \A d \in Callers : /\ call'[d].proc = call[d].proc /\ call'[d].range = call[d].range
                            /\ d # c => pc'[d] = pc[d]
  BY <1>1, EnterKeeps
<1>4. HybridTypeOK'
  <2>1. stage' \in [Callers -> {"out", "syncing", "bars", "done"}]
    BY DEF AwaitSync, HybridInv, HybridTypeOK
  <2> QED
    BY <1>1, <1>2, <2>1, ArriveFacts, LookUpFacts DEF HybridInv, HybridTypeOK
<1>5. CacheIsDated' /\ \A g \in Ranges : IsStored(cache[g].last)'
  BY <1>1, <1>3, CacheShrinks, LookUpFacts
<1>6. HeldAreStored'
  <2>1. ASSUME NEW d \in Callers
        PROVE  /\ IsStored(got[d].last)' /\ IsStored(floor[d])'
               /\ IsStored(known[d])' /\ IsStored(outcome[d].top)'
    <3>1. CASE d = c
      BY <1>1, <1>2, <1>3, <3>1, HeldFacts, ArriveFacts DEF IsStored
    <3>2. CASE d # c
      BY <1>1, <1>2, <1>3, <3>2, HeldFacts, ArriveFacts DEF IsStored
    <3> QED
      BY <3>1, <3>2
  <2> QED
    BY <1>5, <2>1 DEF HeldAreStored
<1>7. StagesAgree'
  BY <1>1, <1>2, <1>3, ArriveFacts DEF HybridInv, StagesAgree, IsRequest
<1>8. InHandIsNewest'
  BY <1>1, <1>2, ArriveFacts DEF InHandIsNewest
<1>9. CacheIsNewest'
  BY <1>1, <1>2, <1>3, LookUpFacts DEF HybridInv, CacheIsNewest, Reported, RangeOf
<1>10. NoDataIsTrue' /\ NeverOlder'
  BY <1>1, <1>2, ArriveFacts DEF HybridInv, NoDataIsTrue, NeverOlder, Reported
<1>11. ReadsItsSync' /\ FreshnessIsTrue'
  BY <1>2 DEF HybridInv, ReadsItsSync, FreshnessIsTrue, Reported
<1> QED
  BY <1>4, <1>5, <1>6, <1>7, <1>8, <1>9, <1>10, <1>11 DEF HybridInv

(* The status is read after the bars, so it covers them, and is as of now. *)
LEMMA ExpectedIsDay == \A t \in Times : Expected(t) \in Nat
BY ConstantFacts, SyncConstants DEF Expected

LEMMA StatusFacts ==
  ASSUME HybridInv, NEW c \in Callers, stage[c] = "bars",
         NEW latest \in {0} \cup Days, IsLatest(latest, bars)
  PROVE  /\ WithStatus(c, latest) \in Report /\ WithStatus(c, latest).last = got[c].last
         /\ WithStatus(c, latest).due = clock + Ttl
         /\ WithStatus(c, latest).latest = latest /\ latest >= got[c].last
         /\ SaysTrue(WithStatus(c, latest), clock)
<1>1. got[c] \in Report \cup {NoReport} /\ got[c].last \in Days
  BY DEF HybridInv, InHandIsNewest, Report
<1>2. clock \in Times /\ clock + Ttl \in 0 .. Horizon + Ttl
  BY SyncConstants DEF HybridInv, HybridTypeOK, TypeOK, Times
<1>3. WithStatus(c, latest) \in Report
  <2>1. (outcome[c].result = "failed") \in BOOLEAN /\ (latest < Expected(clock)) \in BOOLEAN
    BY <1>2, ConstantFacts, ExpectedIsDay
  <2> QED
    BY <1>1, <1>2, <2>1 DEF WithStatus, Report
<1>4. latest >= got[c].last
  BY <1>1, ConstantFacts, LatestFacts, HeldFacts
<1>5. /\ WithStatus(c, latest).last = got[c].last
      /\ WithStatus(c, latest).due = clock + Ttl
      /\ WithStatus(c, latest).latest = latest
      /\ WithStatus(c, latest).stale = (latest < Expected(clock))
  BY DEF WithStatus
<1>6. /\ WithStatus(c, latest).stale => latest < Expected(clock)
      /\ ~WithStatus(c, latest).stale => ~(latest < Expected(clock))
  BY <1>5, Zenon
<1>7. /\ latest < Expected(clock) => got[c].last < Expected(clock)
      /\ ~(latest < Expected(clock)) => latest >= Expected(clock)
  <2>1. got[c].last \in Nat /\ latest \in Nat /\ Expected(clock) \in Nat
    BY <1>1, <1>2, ConstantFacts, ExpectedIsDay
  <2> QED
    BY <1>4, <2>1
<1>8. SaysTrue(WithStatus(c, latest), clock)
  BY <1>5, <1>6, <1>7 DEF SaysTrue
<1> QED
  BY <1>3, <1>4, <1>5, <1>8

LEMMA PublishStep ==
  ASSUME HybridInv, TypeOK', NEW c \in Callers, Publish(c)
  PROVE  HybridInv'
<1> DEFINE g == RangeOf(c)
<1>1. PICK latest \in {0} \cup Days : /\ IsLatest(latest, bars)
                                      /\ got' = [got EXCEPT ![c] = WithStatus(c, latest)]
  BY DEF Publish
<1> DEFINE report == WithStatus(c, latest)
<1>2. /\ report \in Report /\ report.last = got[c].last /\ report.due = clock + Ttl
      /\ report.latest >= got[c].last
      /\ SaysTrue(report, clock)
  BY <1>1, StatusFacts DEF Publish
<1>3. g \in Ranges /\ report.last \in Nat /\ clock \in Times
  BY <1>2, HeldFacts, ConstantFacts DEF HybridInv, HybridTypeOK, TypeOK
<1> HIDE DEF g, report
<1>4. /\ \A d \in Callers : d # c => /\ stage'[d] = stage[d] /\ reply'[d] = reply[d]
                                     /\ got'[d] = got[d] /\ served'[d] = served[d]
      /\ stage'[c] = "done" /\ reply'[c] = "fresh" /\ got'[c] = report /\ served'[c] = clock
      /\ \A h \in Ranges : cache'[h] = IF h = g THEN report ELSE cache[h]
      /\ UNCHANGED <<clock, bars, pc, call, mode, outcome, known, floor>>
  BY <1>1, <1>3 DEF Publish, Answered, HybridInv, HybridTypeOK, vars, g, report
<1>5. /\ stage[c] = "bars"
      /\ \A d \in Callers : stage[d] = "bars" => d = c
      /\ \A d \in Callers : Reported(d) => got[d].last <= report.last
      /\ floor[c] <= report.last /\ outcome[c].top <= report.last
  BY <1>2 DEF Publish, HybridInv, InHandIsNewest
<1>6. HybridTypeOK'
  <2>1. got' \in [Callers -> Report \cup {NoReport}]
    BY <1>1, <1>2 DEF HybridInv, HybridTypeOK, report
  <2>2. cache' \in [Ranges -> Report \cup {NoReport}]
    BY <1>1, <1>2, <1>4 DEF Publish, HybridInv, HybridTypeOK
  <2>3. /\ stage' \in [Callers -> {"out", "syncing", "bars", "done"}]
        /\ reply' \in [Callers -> {"none", "hit", "fresh", "noData", "error"}]
        /\ served' \in [Callers -> Times]
    BY DEF Publish, Answered, HybridInv, HybridTypeOK, TypeOK
  <2> QED
    BY <1>4, <2>1, <2>2, <2>3 DEF HybridInv, HybridTypeOK
<1>7. HeldAreStored'
  <2>1. IsStored(report.last)
    BY <1>2, HeldFacts
  <2> QED
    BY <1>4, <2>1 DEF HybridInv, HeldAreStored, IsStored
<1>8. StagesAgree'
  BY <1>4, <1>5 DEF HybridInv, StagesAgree, IsRequest
<1>9. InHandIsNewest'
  BY <1>4, <1>5 DEF InHandIsNewest
<1>10. CacheIsNewest'
  <2>1. ASSUME NEW h \in Ranges, cache'[h] # NoReport, NEW d \in Callers, Reported(d)', RangeOf(d)' = h
        PROVE  got'[d].last <= cache'[h].last
    <3>1. CASE h = g
      <4>1. CASE d = c
        BY <1>3, <1>4, <3>1, <4>1
      <4>2. CASE d # c
        BY <1>4, <1>5, <2>1, <3>1, <4>2 DEF Reported
      <4> QED
        BY <4>1, <4>2
    <3>2. CASE h # g
      <4>1. d # c
        BY <1>4, <2>1, <3>2 DEF RangeOf, g
      <4> QED
        BY <1>4, <2>1, <3>2, <4>1 DEF HybridInv, CacheIsNewest, Reported, RangeOf
    <3> QED
      BY <3>1, <3>2
  <2> QED
    BY <2>1 DEF CacheIsNewest
<1>11. CacheIsDated'
  <2>1. ASSUME NEW h \in Ranges, cache'[h] # NoReport
        PROVE  \E t \in Times : t <= clock' /\ cache'[h].due = t + Ttl /\ SaysTrue(cache'[h], t)
    <3>1. CASE h = g
      <4>1. clock <= clock'
        BY <1>3, <1>4, ConstantFacts
      <4> QED
        BY <1>2, <1>3, <1>4, <3>1, <4>1
    <3>2. CASE h # g
      BY <1>4, <2>1, <3>2 DEF HybridInv, CacheIsDated
    <3> QED
      BY <3>1, <3>2
  <2> QED
    BY <2>1 DEF CacheIsDated
<1>12. NoDataIsTrue'
  BY <1>4 DEF HybridInv, NoDataIsTrue
<1>13. ReadsItsSync'
  <2>1. got'[c].last >= outcome'[c].top /\ got'[c].latest >= got'[c].last
    BY <1>2, <1>3, <1>4, <1>5, HeldFacts, ConstantFacts
  <2> QED
    BY <1>4, <2>1 DEF HybridInv, ReadsItsSync
<1>14. NeverOlder'
  <2>1. got'[c].last >= floor'[c]
    BY <1>2, <1>3, <1>4, <1>5, HeldFacts, ConstantFacts
  <2> QED
    BY <1>4, <2>1 DEF HybridInv, NeverOlder, Reported
<1>15. FreshnessIsTrue'
  <2>1. clock <= served'[c] /\ served'[c] < clock + Ttl
    BY <1>3, <1>4, ConstantFacts
  <2>2. \E t \in Times : t <= served'[c] /\ served'[c] < t + Ttl /\ SaysTrue(got'[c], t)
    BY <1>2, <1>3, <1>4, <2>1
  <2> QED
    BY <1>4, <2>2 DEF HybridInv, FreshnessIsTrue, Reported
<1> QED
  BY <1>6, <1>7, <1>8, <1>9, <1>10, <1>11, <1>12, <1>13, <1>14, <1>15 DEF HybridInv

LEMMA EvictStep ==
  ASSUME HybridInv, TypeOK', NEW g \in Ranges, Evict(g)
  PROVE  HybridInv'
<1>1. /\ UNCHANGED <<clock, bars, pc, call, mode, stage, outcome, got, reply, known, floor, served>>
      /\ cache' \in [Ranges -> Report \cup {NoReport}]
      /\ \A h \in Ranges : cache'[h] \in {cache[h], NoReport}
  BY DEF Evict, requestVars, vars, HybridInv, HybridTypeOK
<1>2. CacheIsDated' /\ \A h \in Ranges : IsStored(cache[h].last)'
  BY <1>1, CacheShrinks
<1>3. HybridTypeOK'
  BY <1>1 DEF HybridInv, HybridTypeOK
<1>4. HeldAreStored'
  BY <1>1, <1>2 DEF HybridInv, HeldAreStored, IsStored
<1>5. StagesAgree' /\ InHandIsNewest'
  BY <1>1 DEF HybridInv, StagesAgree, InHandIsNewest, IsRequest, Reported
<1>6. CacheIsNewest'
  BY <1>1 DEF HybridInv, CacheIsNewest, Reported, RangeOf
<1>7. NoDataIsTrue' /\ ReadsItsSync' /\ NeverOlder' /\ FreshnessIsTrue'
  BY <1>1 DEF HybridInv, NoDataIsTrue, ReadsItsSync, NeverOlder, FreshnessIsTrue, Reported
<1> QED
  BY <1>2, <1>3, <1>4, <1>5, <1>6, <1>7 DEF HybridInv

(* A crash loses the cache and the requests, and stores nothing.           *)
LEMMA ServerCrashStep ==
  ASSUME HybridInv, SyncInv, TypeOK', ServerCrash
  PROVE  HybridInv'
<1>1. /\ clock' = clock /\ bars' = bars
      /\ \A c \in Callers :
           /\ call'[c].proc = call[c].proc /\ call'[c].range = call[c].range
           /\ IsRequest(c) => pc'[c] \in {"idle", "done"}
  <2>1. CASE Crash(Server)
    <3>1. clock' = clock /\ bars' = bars
      BY <2>1 DEF Crash
    <3> QED
      BY <2>1, <3>1, CrashKeeps DEF IsRequest
  <2>2. CASE UNCHANGED vars /\ \A c \in Callers : IsRequest(c) => pc[c] \in {"idle", "done"}
    BY <2>2 DEF vars
  <2> QED
    BY <2>1, <2>2 DEF ServerCrash
<1>2. /\ UNCHANGED <<mode, outcome, reply, known, floor, served>>
      /\ \A g \in Ranges : cache'[g] = NoReport
      /\ \A c \in Callers : /\ Lost(c) => stage'[c] = "done" /\ got'[c] = NoReport
                            /\ ~Lost(c) => stage'[c] = stage[c] /\ got'[c] = got[c]
                            /\ Reported(c) => ~Lost(c)
  BY DEF ServerCrash, HybridInv, StagesAgree, Reported, Lost
<1>3. HybridTypeOK'
  BY <1>2 DEF ServerCrash, HybridInv, HybridTypeOK
<1>4. HeldAreStored'
  BY <1>1, <1>2 DEF HybridInv, HeldAreStored, IsStored, NoReport
<1>5. StagesAgree'
  BY <1>1, <1>2 DEF HybridInv, StagesAgree, IsRequest, Lost
<1>6. InHandIsNewest'
  BY <1>2 DEF InHandIsNewest, Lost
<1>7. CacheIsNewest' /\ CacheIsDated'
  BY <1>2 DEF CacheIsNewest, CacheIsDated
<1>8. NoDataIsTrue' /\ NeverOlder' /\ FreshnessIsTrue'
  BY <1>2 DEF HybridInv, NoDataIsTrue, NeverOlder, FreshnessIsTrue, Reported
<1>9. ReadsItsSync'
  BY <1>2 DEF HybridInv, ReadsItsSync, Reported
<1> QED
  BY <1>3, <1>4, <1>5, <1>6, <1>7, <1>8, <1>9 DEF HybridInv

-----------------------------------------------------------------------------
(* The whole system.                                                       *)

LEMMA HybridStart == HybridInit => HybridInv /\ SyncInv
<1> SUFFICES ASSUME HybridInit PROVE HybridInv /\ SyncInv
  OBVIOUS
<1>1. SyncInv
  BY SyncInit DEF HybridInit
<1>2. HybridTypeOK
  BY <1>1, ConstantFacts DEF HybridInit, HybridTypeOK, SyncInv, SyncOutcome, NoOutcome
<1>3. HeldAreStored
  BY DEF HybridInit, HeldAreStored, IsStored, NoReport, NoOutcome
<1>4. StagesAgree
  BY DEF HybridInit, Init, StagesAgree
<1>5. InHandIsNewest /\ CacheIsNewest /\ CacheIsDated
  BY DEF HybridInit, InHandIsNewest, CacheIsNewest, CacheIsDated
<1>6. NoDataIsTrue /\ ReadsItsSync /\ NeverOlder /\ FreshnessIsTrue
  BY DEF HybridInit, NoDataIsTrue, ReadsItsSync, NeverOlder, FreshnessIsTrue, Reported
<1> QED
  BY <1>1, <1>2, <1>3, <1>4, <1>5, <1>6 DEF HybridInv

LEMMA HybridStep == HybridInv /\ SyncInv /\ [HybridNext]_hybridVars => HybridInv' /\ SyncInv'
<1> SUFFICES ASSUME HybridInv, SyncInv, [HybridNext]_hybridVars
             PROVE  HybridInv' /\ SyncInv'
  OBVIOUS
<1>1. SyncInv' /\ TypeOK'
  BY StepsOfSync, SyncStep DEF SyncInv
<1>2. ASSUME NEW c \in Callers, SyncAdvance(c) PROVE HybridInv'
  BY <1>1, <1>2, AdvanceStep
<1>3. ASSUME NEW c \in Callers, DailySync(c) PROVE HybridInv'
  BY <1>1, <1>3, OtherSteps
<1>4. ASSUME NEW c \in Callers, Request(c) PROVE HybridInv'
  BY <1>1, <1>4, HitStep, AwaitSyncStep, ReadStoredStep DEF Request
<1>5. ASSUME NEW c \in Callers, Resume(c) PROVE HybridInv'
  BY <1>1, <1>5, ReadAfterSyncStep, SyncRejectsStep, PublishStep DEF Resume
<1>6. ASSUME NEW g \in Ranges, Evict(g) PROVE HybridInv'
  BY <1>1, <1>6, EvictStep
<1>7. CASE DailyImport \/ HybridTick \/ DailyCrash
  BY <1>1, <1>7, OtherSteps
<1>8. CASE ServerCrash
  BY <1>1, <1>8, ServerCrashStep
<1>9. CASE UNCHANGED hybridVars
  <2>1. /\ UNCHANGED <<mode, cache, stage, outcome, got, reply, known, floor, served>>
        /\ UNCHANGED <<clock, bars, pc, call>>
    BY <1>9 DEF hybridVars, requestVars, vars
  <2>2. clock' >= clock
    BY <2>1, ConstantFacts DEF SyncInv, TypeOK
  <2>3. \A c \in Callers : outcome[c].top \in {0} \cup Days /\ IsStored(outcome[c].top)
    BY HeldFacts
  <2>4. /\ outcome' \in [Callers -> SyncOutcome]
        /\ \A c \in Callers : IsStored(outcome[c].top)'
    BY <2>1, <2>3 DEF HybridInv, HybridTypeOK, IsStored
  <2>5. \A c \in Callers : IsRequest(c) /\ stage[c] # "syncing" => pc'[c] \in {"idle", "done"}
    BY <2>1 DEF HybridInv, StagesAgree
  <2> QED
    BY <1>1, <2>1, <2>2, <2>4, <2>5, SyncOnly
<1> QED
  BY <1>1, <1>2, <1>3, <1>4, <1>5, <1>6, <1>7, <1>8, <1>9 DEF HybridNext

LEMMA HybridInvariant == HybridSpec => [](HybridInv /\ SyncInv)
BY HybridStart, HybridStep, PTL DEF HybridSpec

(* Reports and the daily job use the sync as MarketSync allows, so what is *)
(* proved of it holds in their company (stockService.ts:281-286).          *)
THEOREM HybridUsesSync == HybridSpec => Spec
<1>1. HybridInit => Init
  BY DEF HybridInit
<1> QED
  BY <1>1, StepsOfSync, PTL DEF HybridSpec, Spec

(* What holds of the calls through one key holds of the calls that come    *)
(* from requests, too (stockService.ts:281-286).                           *)
THEOREM HybridThrottles == HybridSpec => CallsAreThrottled /\ SuccessNeverRegresses
BY HybridUsesSync, CallsAreThrottledHolds, SuccessNeverRegressesHolds

(* Every variable of the reports has its type in every reachable state.    *)
THEOREM HybridTyping == HybridSpec => []HybridTypeOK
<1>1. HybridInv => HybridTypeOK
  BY DEF HybridInv
<1> QED
  BY <1>1, HybridInvariant, PTL

(* A request is told that there is no data only if there was none when it  *)
(* came in (stockService.ts:259-264, 288-295).                             *)
THEOREM NoDataIsTrueHolds == HybridSpec => []NoDataIsTrue
<1>1. HybridInv => NoDataIsTrue
  BY DEF HybridInv
<1> QED
  BY <1>1, HybridInvariant, PTL

(* A request sees what its sync wrote, and its status covers what it shows *)
(* (stockService.ts:281-308).                                              *)
THEOREM ReadsItsSyncHolds == HybridSpec => []ReadsItsSync
<1>1. HybridInv => ReadsItsSync
  BY DEF HybridInv
<1> QED
  BY <1>1, HybridInvariant, PTL

(* A range never goes back in time, whatever is cached, evicted, lost or   *)
(* imported by other processes (stockService.ts:274-312).                  *)
THEOREM NeverOlderHolds == HybridSpec => []NeverOlder
<1>1. HybridInv => NeverOlder
  BY DEF HybridInv
<1> QED
  BY <1>1, HybridInvariant, PTL

(* What a report says of its freshness was true of the series it shows     *)
(* within the cache's time to live (stockService.ts:281-311).              *)
THEOREM FreshnessIsTrueHolds == HybridSpec => []FreshnessIsTrue
<1>1. HybridInv => FreshnessIsTrue
  BY DEF HybridInv
<1> QED
  BY <1>1, HybridInvariant, PTL

=============================================================================
