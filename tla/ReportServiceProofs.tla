------------------------ MODULE ReportServiceProofs ------------------------
(* The report service for every number of concurrent requests, every time  *)
(* to live and every bound on the clock.                                   *)
EXTENDS ReportService, TLAPS

OnDisk == {"reading", "read", "dropping", "dropped", "touching", "touched",
           "writing", "written"}

(* The file is only looked at when there is a repository.                  *)
DiskIsThere == \A r \in Requests : pc[r] \in OnDisk => Persistent

(* What a request carries past the checks of the repository is a report,   *)
(* or passes for one.                                                      *)
HandIsChecked ==
  \A r \in Requests :
    /\ pc[r] \in {"touching", "touched"} => got[r] \in Report \/ got[r].ver = "odd"
    /\ pc[r] \in {"writing", "written"} => got[r] \in Report

AnsweredAtTheEnd == \A r \in Requests : pc[r] # "done" => reply[r] = "pending"

ServiceInv == /\ TypeOK /\ DiskIsThere /\ HandIsChecked /\ AnsweredAtTheEnd
              /\ FlightsAreRegistered /\ ServedIsSound

LEMMA ContentFacts == /\ NoReport \in Contents /\ NoReport \notin Report
                      /\ NoRepository \notin Contents
                      /\ \A c \in Contents : c \in Report <=> c.ver \in Fetched
                      /\ \A c \in Contents \ Report : c.due = 0
                      /\ "none" \notin Fetched /\ "none" \notin Requests
                      /\ \A c \in Contents : c.due \in Nat
BY ServiceConstants DEF Contents, NoReport, NoRepository, Report, Broken, Fetched

(* A live report is a report.                                              *)
LEMMA LiveIsReport == ASSUME TypeOK, NEW c \in Contents, Live(c)
                      PROVE  c \in Report
BY ContentFacts DEF TypeOK, Live

LEMMA ServiceInit == Init => ServiceInv
<1> SUFFICES ASSUME Init PROVE ServiceInv
  OBVIOUS
<1>1. PICK due \in 0 .. Ttl :
        /\ promised = [v \in Fetched |-> IF v = "old" THEN due ELSE 0]
        /\ file \in {NoRepository, NoReport, [ver |-> "old", due |-> due]} \cup Broken
  BY DEF Init
<1>2. due \in 0 .. Horizon + Ttl /\ 0 \in 0 .. Horizon + Ttl /\ 0 \in 0 .. Horizon
  BY ServiceConstants
<1>3. [ver |-> "old", due |-> due] \in Contents
  BY <1>2 DEF Contents, Report, Fetched
<1>4. file \in Contents \cup {NoRepository} /\ promised \in [Fetched -> 0 .. Horizon + Ttl]
  BY <1>1, <1>2, <1>3 DEF Contents
<1> QED
  BY <1>2, <1>4, ContentFacts
     DEF Init, ServiceInv, TypeOK, DiskIsThere, HandIsChecked, AnsweredAtTheEnd,
         FlightsAreRegistered, ServedIsSound, Pc, Flying, OnDisk

-----------------------------------------------------------------------------
(* One lemma for each of the pieces that several actions share.            *)

(* A request that misses joins the flight or becomes it.                   *)
LEMMA JoinOrFetchKeeps ==
  ASSUME ServiceInv, NEW r \in Requests, pc[r] \notin Flying \cup {"waiting"},
         JoinOrFetch(r), UNCHANGED <<clock, file, got, reply, promised>>,
         memory' \in Report \cup {NoReport}, entered' \in [Requests -> 0 .. Horizon],
         pc[r] # "done"
  PROVE  ServiceInv'
<1>1. pc' \in [Requests -> Pc] /\ inflight' \in Requests \cup {"none"}
  BY DEF JoinOrFetch, Goto, ServiceInv, TypeOK, Pc, Flying
<1>2. \A q \in Requests \ {r} : pc'[q] = pc[q]
  BY DEF JoinOrFetch, Goto, ServiceInv, TypeOK
<1>3. pc'[r] \in {"fetching", "waiting"}
  BY DEF JoinOrFetch, Goto, ServiceInv, TypeOK
<1>4. FlightsAreRegistered'
  BY <1>2, ContentFacts
     DEF JoinOrFetch, Goto, ServiceInv, TypeOK, FlightsAreRegistered, Flying
<1> QED
  BY <1>1, <1>2, <1>3, <1>4
     DEF ServiceInv, TypeOK, DiskIsThere, HandIsChecked, AnsweredAtTheEnd, ServedIsSound,
         OnDisk, Persistent

(* The end of a flight.                                                    *)
LEMMA SettleKeeps ==
  ASSUME ServiceInv, NEW r \in Requests, pc[r] \in Flying,
         NEW result \in Contents, NEW mine, NEW theirs, Settle(r, result, mine, theirs),
         \/ result \in Report /\ mine = "fetched" /\ theirs = "shared"
         \/ result = NoReport /\ mine = "error" /\ theirs = "error",
         UNCHANGED <<clock, file, entered>>,
         memory' \in Report \cup {NoReport},
         promised' \in [Fetched -> 0 .. Horizon + Ttl]
  PROVE  ServiceInv'
<1> DEFINE answered == {r} \cup {q \in Requests : pc[q] = "waiting"}
<1>1. /\ pc' = [q \in Requests |-> IF q \in answered THEN "done" ELSE pc[q]]
      /\ got' = [q \in Requests |-> IF q \in answered THEN result ELSE got[q]]
      /\ inflight' = "none"
  BY DEF Settle
<1>2. reply' = [q \in Requests |-> IF q = r THEN mine
                                   ELSE IF q \in answered THEN theirs ELSE reply[q]]
  BY DEF Settle
<1>3. inflight = r
  BY DEF ServiceInv, FlightsAreRegistered
<1> HIDE DEF answered
<1>4. TypeOK'
  BY <1>1, <1>2 DEF ServiceInv, TypeOK, Pc
<1>5. DiskIsThere' /\ HandIsChecked' /\ AnsweredAtTheEnd'
  BY <1>1, <1>2
     DEF ServiceInv, TypeOK, DiskIsThere, HandIsChecked, AnsweredAtTheEnd, OnDisk,
         Persistent, answered
<1>6. FlightsAreRegistered'
  BY <1>1, <1>3, ContentFacts
     DEF ServiceInv, TypeOK, FlightsAreRegistered, Flying, answered
<1>7. ServedIsSound'
  BY <1>1, <1>2 DEF ServiceInv, TypeOK, ServedIsSound, answered
<1> QED
  BY <1>4, <1>5, <1>6, <1>7 DEF ServiceInv

-----------------------------------------------------------------------------
(* The actions.                                                            *)

LEMMA EnterKeeps == ASSUME ServiceInv, NEW r \in Requests, Enter(r)
                    PROVE  ServiceInv'
<1>1. entered' \in [Requests -> 0 .. Horizon]
  BY DEF Enter, ServiceInv, TypeOK
<1>2. CASE Live(memory) /\ ServeHit(r, memory) /\ UNCHANGED <<memory, inflight>>
  <2>1. memory \in Report
    BY <1>2, LiveIsReport DEF ServiceInv, TypeOK, Contents
  <2> QED
    BY <1>1, <1>2, <2>1
       DEF Enter, At, ServeHit, Goto, ServiceInv, TypeOK, DiskIsThere, HandIsChecked,
           AnsweredAtTheEnd, FlightsAreRegistered, ServedIsSound, Pc, Flying, OnDisk,
           Persistent, Contents
<1>3. CASE memory' = NoReport /\ JoinOrFetch(r) /\ UNCHANGED <<got, reply>>
  BY <1>1, <1>3, JoinOrFetchKeeps DEF Enter, At, Flying
<1>4. CASE /\ memory' = NoReport /\ Persistent
           /\ Goto(r, "reading") /\ UNCHANGED <<inflight, got, reply>>
  BY <1>1, <1>4
     DEF Enter, At, Goto, ServiceInv, TypeOK, DiskIsThere, HandIsChecked,
         AnsweredAtTheEnd, FlightsAreRegistered, ServedIsSound, Pc, Flying, OnDisk,
         Persistent
<1> QED
  BY <1>2, <1>3, <1>4 DEF Enter

LEMMA ReadFileKeeps == ASSUME ServiceInv, NEW r \in Requests, ReadFile(r)
                       PROVE  ServiceInv'
BY DEF ReadFile, At, Goto, ServiceInv, TypeOK, DiskIsThere, HandIsChecked,
       AnsweredAtTheEnd, FlightsAreRegistered, ServedIsSound, Pc, Flying, OnDisk, Persistent

LEMMA InspectKeeps == ASSUME ServiceInv, NEW r \in Requests, Inspect(r)
                      PROVE  ServiceInv'
<1>1. CASE JoinOrFetch(r)
  BY <1>1, JoinOrFetchKeeps DEF Inspect, At, Flying, ServiceInv, TypeOK
<1>2. CASE Goto(r, "dropping") /\ UNCHANGED inflight
  BY <1>2
     DEF Inspect, At, Goto, ServiceInv, TypeOK, DiskIsThere, HandIsChecked,
         AnsweredAtTheEnd, FlightsAreRegistered, ServedIsSound, Pc, Flying, OnDisk,
         Persistent
<1>3. CASE /\ got[r].ver = "odd" \/ Live(got[r])
           /\ Goto(r, "touching") /\ UNCHANGED inflight
  <2>1. got[r] \in Report \/ got[r].ver = "odd"
    BY <1>3, LiveIsReport DEF ServiceInv, TypeOK
  <2> QED
    BY <1>3, <2>1
       DEF Inspect, At, Goto, ServiceInv, TypeOK, DiskIsThere, HandIsChecked,
           AnsweredAtTheEnd, FlightsAreRegistered, ServedIsSound, Pc, Flying, OnDisk,
           Persistent
<1> QED
  BY <1>1, <1>2, <1>3 DEF Inspect

LEMMA FileWriteKeeps ==
  ASSUME ServiceInv, NEW r \in Requests, Unlink(r) \/ Touch(r) \/ WriteFile(r)
  PROVE  ServiceInv'
<1>1. pc[r] \in OnDisk
  BY DEF Unlink, Touch, WriteFile, At, OnDisk
<1>2. file \in Contents /\ got[r] \in Contents
  BY <1>1 DEF ServiceInv, TypeOK, DiskIsThere, Persistent
<1>3. file' \in Contents
  BY <1>2, ContentFacts DEF Unlink, Touch, WriteFile
<1>4. file' # NoRepository
  BY <1>3, ContentFacts
<1> QED
  BY <1>3, <1>4
     DEF Unlink, Touch, WriteFile, At, Goto, ServiceInv, TypeOK, DiskIsThere,
         HandIsChecked, AnsweredAtTheEnd, FlightsAreRegistered, ServedIsSound, Pc, Flying,
         OnDisk, Persistent

LEMMA MissAfterDropKeeps == ASSUME ServiceInv, NEW r \in Requests, MissAfterDrop(r)
                            PROVE  ServiceInv'
BY JoinOrFetchKeeps DEF MissAfterDrop, At, Flying, ServiceInv, TypeOK

LEMMA PromoteKeeps == ASSUME ServiceInv, NEW r \in Requests, Promote(r)
                      PROVE  ServiceInv'
<1>1. got[r] \in Report \/ got[r].ver = "odd"
  BY DEF Promote, At, ServiceInv, HandIsChecked
<1>2. CASE memory' = got[r] /\ ServeHit(r, got[r]) /\ got[r] \in Report
  BY <1>2
     DEF Promote, At, ServeHit, Goto, ServiceInv, TypeOK, DiskIsThere, HandIsChecked,
         AnsweredAtTheEnd, FlightsAreRegistered, ServedIsSound, Pc, Flying, OnDisk,
         Persistent
<1>3. CASE Goto(r, "dropping") /\ UNCHANGED <<memory, got, reply>>
  BY <1>3
     DEF Promote, At, Goto, ServiceInv, TypeOK, DiskIsThere, HandIsChecked,
         AnsweredAtTheEnd, FlightsAreRegistered, ServedIsSound, Pc, Flying, OnDisk,
         Persistent
<1> QED
  BY <1>1, <1>2, <1>3 DEF Promote

LEMMA FetchFailsKeeps == ASSUME ServiceInv, NEW r \in Requests, FetchFails(r)
                         PROVE  ServiceInv'
BY SettleKeeps, ContentFacts DEF FetchFails, At, Flying, ServiceInv, TypeOK

LEMMA FetchOkKeeps == ASSUME ServiceInv, NEW r \in Requests, FetchOk(r)
                      PROVE  ServiceInv'
<1> DEFINE report == [ver |-> r, due |-> clock + Ttl]
<1>1. report.due \in 0 .. Horizon + Ttl
  BY ServiceConstants DEF ServiceInv, TypeOK
<1>2. report \in Report /\ report \in Contents
  BY <1>1 DEF Report, Fetched, Contents
<1>3. /\ memory' = report /\ promised' = [promised EXCEPT ![r] = report.due]
      /\ UNCHANGED <<clock, file, entered>> /\ pc[r] = "fetching"
      /\ \/ /\ Persistent /\ Goto(r, "writing")
            /\ got' = [got EXCEPT ![r] = report] /\ UNCHANGED <<inflight, reply>>
         \/ Settle(r, report, "fetched", "shared")
  BY DEF FetchOk, At
<1> HIDE DEF report
<1>4. promised' \in [Fetched -> 0 .. Horizon + Ttl]
  BY <1>1, <1>3 DEF ServiceInv, TypeOK
<1>5. CASE Settle(r, report, "fetched", "shared")
  BY <1>2, <1>3, <1>4, <1>5, SettleKeeps DEF Flying
<1>6. CASE /\ Persistent /\ Goto(r, "writing")
           /\ got' = [got EXCEPT ![r] = report] /\ UNCHANGED <<inflight, reply>>
  BY <1>2, <1>3, <1>4, <1>6
     DEF Goto, ServiceInv, TypeOK, DiskIsThere, HandIsChecked,
         AnsweredAtTheEnd, FlightsAreRegistered, ServedIsSound, Pc, Flying, OnDisk,
         Persistent
<1> QED
  BY <1>3, <1>5, <1>6

LEMMA LandKeeps == ASSUME ServiceInv, NEW r \in Requests, Land(r)
                   PROVE  ServiceInv'
BY SettleKeeps DEF Land, At, Flying, ServiceInv, TypeOK, HandIsChecked

LEMMA ForgetKeeps == ASSUME ServiceInv, ForgetMemory \/ ForgetFile
                     PROVE  ServiceInv'
BY ContentFacts
   DEF ForgetMemory, ForgetFile, ServiceInv, TypeOK, DiskIsThere, HandIsChecked,
       AnsweredAtTheEnd, FlightsAreRegistered, ServedIsSound, Persistent

LEMMA RestartKeeps == ASSUME ServiceInv, Restart PROVE ServiceInv'
<1> DEFINE lost == {r \in Requests : pc[r] \notin {"idle", "done"}}
<1>1. /\ memory' = NoReport /\ inflight' = "none"
      /\ pc' = [r \in Requests |-> IF r \in lost THEN "done" ELSE pc[r]]
      /\ reply' = [r \in Requests |-> IF r \in lost THEN "lost" ELSE reply[r]]
      /\ got' = [r \in Requests |-> IF r \in lost THEN NoReport ELSE got[r]]
      /\ UNCHANGED <<clock, file, entered, promised>>
  BY DEF Restart
<1>2. \A r \in Requests : pc'[r] \in {"idle", "done"}
  BY <1>1
<1>3. TypeOK'
  BY <1>1, ContentFacts DEF ServiceInv, TypeOK, Pc
<1>4. DiskIsThere' /\ HandIsChecked' /\ FlightsAreRegistered'
  BY <1>1, <1>2, ContentFacts
     DEF DiskIsThere, HandIsChecked, FlightsAreRegistered, Flying, OnDisk
<1>5. AnsweredAtTheEnd' /\ ServedIsSound'
  BY <1>1 DEF ServiceInv, TypeOK, AnsweredAtTheEnd, ServedIsSound
<1> QED
  BY <1>3, <1>4, <1>5 DEF ServiceInv

LEMMA TickKeeps == ASSUME ServiceInv, Tick PROVE ServiceInv'
BY ServiceConstants
   DEF Tick, ServiceInv, TypeOK, DiskIsThere, HandIsChecked, AnsweredAtTheEnd,
       FlightsAreRegistered, ServedIsSound, Persistent

LEMMA ServiceStep == ServiceInv /\ [Next]_vars => ServiceInv'
<1> SUFFICES ASSUME ServiceInv, [Next]_vars PROVE ServiceInv'
  OBVIOUS
<1>1. CASE UNCHANGED vars
  BY <1>1
     DEF vars, ServiceInv, TypeOK, DiskIsThere, HandIsChecked, AnsweredAtTheEnd,
         FlightsAreRegistered, ServedIsSound, Persistent
<1>2. ASSUME NEW r \in Requests, Enter(r) \/ Progress(r) PROVE ServiceInv'
  BY <1>2, EnterKeeps, ReadFileKeeps, InspectKeeps, FileWriteKeeps, MissAfterDropKeeps,
     PromoteKeeps, FetchFailsKeeps, FetchOkKeeps, LandKeeps DEF Progress
<1> QED
  BY <1>1, <1>2, TickKeeps, RestartKeeps, ForgetKeeps DEF Next

(* Type correctness of the report service (stockService.ts:316-397).       *)
THEOREM ServiceTyping == Spec => []TypeOK
<1>1. ServiceInv => TypeOK
  BY DEF ServiceInv
<1> QED
  BY <1>1, ServiceInit, ServiceStep, PTL DEF Spec

(* The in-flight map holds exactly the flight there is                     *)
(* (stockService.ts:359-396).                                              *)
THEOREM FlightsAreRegisteredHolds == Spec => []FlightsAreRegistered
<1>1. ServiceInv => FlightsAreRegistered
  BY DEF ServiceInv
<1> QED
  BY <1>1, ServiceInit, ServiceStep, PTL DEF Spec

(* Nothing broken is served (stockService.ts:189-194).                     *)
THEOREM ServedIsSoundHolds == Spec => []ServedIsSound
<1>1. ServiceInv => ServedIsSound
  BY DEF ServiceInv
<1> QED
  BY <1>1, ServiceInit, ServiceStep, PTL DEF Spec

-----------------------------------------------------------------------------
(* The age of what is served.  Wherever a version of the report is - in    *)
(* memory, on disk, in the hands of a request - its expiry is the one it   *)
(* was fetched with; a version is fetched once; and what a request has     *)
(* found live on disk was live when it came in.                            *)

Dated(c) == c \in Report => c.due = promised[c.ver]

ExpiryTravels == Dated(memory) /\ Dated(file) /\ \A r \in Requests : Dated(got[r])

(* No copy of a version exists before its flight has brought it.           *)
FetchedOnce ==
  \A r \in Requests :
    pc[r] \notin {"writing", "written", "done"} =>
      memory.ver # r /\ file.ver # r /\ \A q \in Requests : got[q].ver # r

EnteredBefore == \A r \in Requests : entered[r] <= clock

CheckedYoung ==
  \A r \in Requests : pc[r] \in {"touching", "touched"} /\ got[r] \in Report =>
                      promised[got[r].ver] > entered[r]

AgeInv == ExpiryTravels /\ FetchedOnce /\ EnteredBefore /\ CheckedYoung /\ HitsAreYoung

LEMMA AgeInit == Init => AgeInv
<1> SUFFICES ASSUME Init PROVE AgeInv
  OBVIOUS
<1>1. PICK due \in 0 .. Ttl :
        /\ promised = [v \in Fetched |-> IF v = "old" THEN due ELSE 0]
        /\ file \in {NoRepository, NoReport, [ver |-> "old", due |-> due]} \cup Broken
  BY DEF Init
<1>2. promised["old"] = due
  BY <1>1 DEF Fetched
<1>3. Dated(file) /\ \A r \in Requests : file.ver # r
  BY <1>1, <1>2, ServiceConstants DEF Dated, Broken, NoRepository, NoReport, Report, Fetched
<1>4. Dated(NoReport) /\ \A r \in Requests : NoReport.ver # r
  BY ContentFacts, ServiceConstants DEF Dated, NoReport
<1> QED
  BY <1>3, <1>4
     DEF Init, AgeInv, ExpiryTravels, FetchedOnce, EnteredBefore, CheckedYoung, HitsAreYoung

(* Steps that fetch nothing and only pass copies on.                       *)
LEMMA CopiesKeep ==
  ASSUME ServiceInv, AgeInv,
         promised' = promised,
         memory' \in {memory, NoReport} \cup {got[r] : r \in Requests},
         file' \in {file, NoReport} \cup {got[r] : r \in Requests},
         \A r \in Requests :
           /\ got'[r] \in {got[r], NoReport, memory, file} \cup {got[q] : q \in Requests}
           /\ pc[r] \in {"writing", "written", "done"}
                => pc'[r] \in {"writing", "written", "done"}
  PROVE  ExpiryTravels' /\ FetchedOnce'
<1> DEFINE Copies == {memory, file, NoReport} \cup {got[r] : r \in Requests}
<1>1. \A c \in Copies : Dated(c)
  BY ContentFacts DEF AgeInv, ExpiryTravels, Dated
<1>2. \A c \in Copies, r \in Requests :
        pc[r] \notin {"writing", "written", "done"} => c.ver # r
  BY ServiceConstants DEF AgeInv, FetchedOnce, NoReport
<1>3. memory' \in Copies /\ file' \in Copies /\ \A r \in Requests : got'[r] \in Copies
  OBVIOUS
<1> HIDE DEF Copies
<1>4. ExpiryTravels'
  BY <1>1, <1>3 DEF ExpiryTravels, Dated
<1> QED
  BY <1>2, <1>3, <1>4 DEF FetchedOnce

LEMMA AgeEnter == ASSUME ServiceInv, AgeInv, NEW r \in Requests, Enter(r)
                  PROVE  AgeInv'
<1>1. /\ pc[r] = "idle" /\ pc'[r] \in {"done", "fetching", "waiting", "reading"}
      /\ \A q \in Requests \ {r} : pc'[q] = pc[q] /\ got'[q] = got[q] /\ reply'[q] = reply[q]
      /\ entered' = [entered EXCEPT ![r] = clock]
      /\ UNCHANGED <<clock, file, promised>> /\ memory' \in {memory, NoReport}
  BY DEF Enter, At, ServeHit, JoinOrFetch, Goto, ServiceInv, TypeOK
<1>2. \/ Live(memory) /\ got'[r] = memory
      \/ got'[r] = got[r] /\ reply'[r] = "pending"
  BY <1>1
     DEF Enter, At, ServeHit, JoinOrFetch, Goto, ServiceInv, TypeOK, AnsweredAtTheEnd
<1>3. ExpiryTravels' /\ FetchedOnce'
  BY <1>1, <1>2, CopiesKeep
<1>4. EnteredBefore'
  BY <1>1, ServiceConstants DEF AgeInv, EnteredBefore, ServiceInv, TypeOK
<1>5. CheckedYoung'
  BY <1>1 DEF AgeInv, CheckedYoung, ServiceInv, TypeOK
<1>6. reply'[r] = "hit" => promised'[got'[r].ver] > entered'[r]
  <2> SUFFICES ASSUME reply'[r] = "hit" PROVE promised'[got'[r].ver] > entered'[r]
    OBVIOUS
  <2>1. Live(memory) /\ got'[r] = memory
    BY <1>2
  <2>2. memory \in Report
    BY <2>1, LiveIsReport DEF ServiceInv, TypeOK, Contents
  <2> QED
    BY <1>1, <2>1, <2>2 DEF AgeInv, ExpiryTravels, Dated, Live, ServiceInv, TypeOK
<1> QED
  BY <1>1, <1>3, <1>4, <1>5, <1>6
     DEF AgeInv, HitsAreYoung, ServiceInv, TypeOK

(* The steps of a request that neither answer anyone nor fetch.            *)
LEMMA AgeQuiet ==
  ASSUME ServiceInv, AgeInv, NEW r \in Requests,
         \/ ReadFile(r) \/ Inspect(r) \/ Unlink(r) \/ MissAfterDrop(r) \/ Touch(r)
         \/ WriteFile(r)
  PROVE  AgeInv'
<1>1. /\ pc[r] # "done" /\ (pc[r] = "writing" => pc'[r] = "written") /\ pc[r] # "written"
      /\ \A q \in Requests \ {r} : pc'[q] = pc[q] /\ got'[q] = got[q]
      /\ got'[r] \in {got[r], file} /\ file' \in {file, got[r], NoReport}
      /\ UNCHANGED <<clock, memory, reply, entered, promised>>
  BY DEF ReadFile, Inspect, Unlink, MissAfterDrop, Touch, WriteFile, At, JoinOrFetch, Goto,
         ServiceInv, TypeOK
<1>2. ExpiryTravels' /\ FetchedOnce'
  BY <1>1, CopiesKeep
<1>3. EnteredBefore'
  BY <1>1 DEF AgeInv, EnteredBefore
<1>4. HitsAreYoung'
  BY <1>1 DEF AgeInv, HitsAreYoung, ServiceInv, AnsweredAtTheEnd
<1>5. ASSUME pc'[r] \in {"touching", "touched"}, got'[r] \in Report
      PROVE  promised'[got'[r].ver] > entered'[r]
  <2>1. CASE Inspect(r)
    <3>1. got[r] \in Report /\ Live(got[r]) /\ got'[r] = got[r]
      BY <1>5, <2>1, ServiceConstants
         DEF Inspect, At, JoinOrFetch, Goto, ServiceInv, TypeOK, Report, Fetched
    <3> QED
      BY <1>1, <3>1
         DEF AgeInv, ExpiryTravels, Dated, EnteredBefore, Live, ServiceInv, TypeOK, Report
  <2>2. CASE Touch(r)
    BY <1>1, <1>5, <2>2 DEF Touch, At, AgeInv, CheckedYoung
  <2>3. CASE ReadFile(r) \/ Unlink(r) \/ MissAfterDrop(r) \/ WriteFile(r)
    BY <1>5, <2>3
       DEF ReadFile, Unlink, MissAfterDrop, WriteFile, At, JoinOrFetch, Goto, ServiceInv,
           TypeOK
  <2> QED
    BY <2>1, <2>2, <2>3
<1>6. CheckedYoung'
  BY <1>1, <1>5 DEF AgeInv, CheckedYoung
<1> QED
  BY <1>2, <1>3, <1>4, <1>6 DEF AgeInv

LEMMA AgePromote == ASSUME ServiceInv, AgeInv, NEW r \in Requests, Promote(r)
                    PROVE  AgeInv'
<1>1. /\ pc[r] = "touched" /\ pc'[r] \in {"done", "dropping"}
      /\ \A q \in Requests \ {r} : pc'[q] = pc[q] /\ reply'[q] = reply[q]
      /\ got' = got /\ memory' \in {memory, got[r]}
      /\ UNCHANGED <<clock, file, entered, promised>>
      /\ reply'[r] = "hit" => got[r].ver # "odd"
  BY DEF Promote, At, ServeHit, Goto, ServiceInv, TypeOK, AnsweredAtTheEnd
<1>2. ExpiryTravels' /\ FetchedOnce'
  BY <1>1, CopiesKeep
<1>3. reply'[r] = "hit" => promised'[got'[r].ver] > entered'[r]
  BY <1>1 DEF AgeInv, CheckedYoung, ServiceInv, HandIsChecked
<1> QED
  BY <1>1, <1>2, <1>3
     DEF AgeInv, HitsAreYoung, EnteredBefore, CheckedYoung

(* A flight that lands answers nobody from a cache.                        *)
LEMMA AgeSettle ==
  ASSUME ServiceInv, AgeInv, NEW r \in Requests, NEW result, NEW mine, NEW theirs,
         Settle(r, result, mine, theirs), mine # "hit", theirs # "hit",
         UNCHANGED <<clock, entered>>,
         \A q \in Requests : got[q] \in Report =>
                             promised'[got[q].ver] = promised[got[q].ver]
  PROVE  EnteredBefore' /\ CheckedYoung' /\ HitsAreYoung'
<1>1. \A q \in Requests :
        \/ pc'[q] = "done" /\ reply'[q] # "hit"
        \/ pc'[q] = pc[q] /\ got'[q] = got[q] /\ reply'[q] = reply[q]
  BY DEF Settle
<1>2. EnteredBefore'
  BY DEF AgeInv, EnteredBefore
<1>3. CheckedYoung'
  BY <1>1 DEF AgeInv, CheckedYoung
<1>4. HitsAreYoung'
  BY <1>1 DEF AgeInv, HitsAreYoung, ServiceInv, ServedIsSound
<1> QED
  BY <1>2, <1>3, <1>4

LEMMA AgeLand == ASSUME ServiceInv, AgeInv, NEW r \in Requests, FetchFails(r) \/ Land(r)
                 PROVE  AgeInv'
<1>1. PICK result \in {NoReport, got[r]}, mine \in {"error", "fetched"},
           theirs \in {"error", "shared"} : Settle(r, result, mine, theirs)
  BY DEF FetchFails, Land
<1>2. UNCHANGED <<clock, memory, file, entered, promised>>
  BY DEF FetchFails, Land
<1>3. \A q \in Requests : got'[q] \in {got[q], NoReport, got[r]}
                        /\ pc'[q] \in {pc[q], "done"}
  BY <1>1 DEF Settle
<1>4. ExpiryTravels' /\ FetchedOnce'
  BY <1>2, <1>3, CopiesKeep
<1> QED
  BY <1>1, <1>2, <1>4, AgeSettle DEF AgeInv

LEMMA AgeFetchOk == ASSUME ServiceInv, AgeInv, NEW r \in Requests, FetchOk(r)
                    PROVE  AgeInv'
<1> DEFINE report == [ver |-> r, due |-> clock + Ttl]
<1>1. /\ memory' = report /\ promised' = [promised EXCEPT ![r] = report.due]
      /\ UNCHANGED <<clock, file, entered>> /\ pc[r] = "fetching"
      /\ report.ver = r /\ r \in Fetched
  BY DEF FetchOk, At, Fetched
<1>2. \/ /\ Goto(r, "writing")
         /\ got' = [got EXCEPT ![r] = report] /\ UNCHANGED <<inflight, reply>>
      \/ Settle(r, report, "fetched", "shared")
  BY DEF FetchOk
<1> HIDE DEF report
<1>3. \A q \in Requests :
        \/ got'[q] = report /\ pc'[q] \in {"writing", "done"}
        \/ got'[q] = got[q] /\ pc'[q] = pc[q] /\ q # r
  BY <1>1, <1>2 DEF Settle, Goto, ServiceInv, TypeOK
<1>4. /\ file.ver # r /\ \A q \in Requests : got[q].ver # r
  BY <1>1 DEF AgeInv, FetchedOnce
<1>5. promised'[r] = report.due
      /\ \A c \in Report : c.ver # r => promised'[c.ver] = promised[c.ver]
  BY <1>1 DEF ServiceInv, TypeOK, Report
<1>6. ExpiryTravels'
  BY <1>1, <1>3, <1>4, <1>5 DEF AgeInv, ExpiryTravels, Dated
<1>7. FetchedOnce'
  BY <1>1, <1>3 DEF AgeInv, FetchedOnce
<1>8. \A q \in Requests : got[q] \in Report =>
                          promised'[got[q].ver] = promised[got[q].ver]
  BY <1>4, <1>5
<1>9. CASE Settle(r, report, "fetched", "shared")
  BY <1>1, <1>6, <1>7, <1>8, <1>9, AgeSettle DEF AgeInv
<1>10. CASE Goto(r, "writing") /\ UNCHANGED reply
  <2>1. \A q \in Requests \ {r} : got'[q] = got[q] /\ pc'[q] = pc[q]
    BY <1>2, <1>10 DEF Settle, Goto, ServiceInv, TypeOK
  <2>2. pc'[r] = "writing" /\ reply'[r] = "pending"
    BY <1>1, <1>10 DEF Goto, ServiceInv, TypeOK, AnsweredAtTheEnd
  <2>3. CheckedYoung'
    BY <1>1, <1>8, <2>1, <2>2 DEF AgeInv, CheckedYoung
  <2>4. HitsAreYoung'
    BY <1>1, <1>8, <1>10, <2>1, <2>2 DEF AgeInv, HitsAreYoung, ServiceInv, ServedIsSound
  <2> QED
    BY <1>1, <1>6, <1>7, <2>3, <2>4 DEF AgeInv, EnteredBefore
<1> QED
  BY <1>2, <1>9, <1>10

LEMMA AgeOther == ASSUME ServiceInv, AgeInv, ForgetMemory \/ ForgetFile \/ Restart \/ Tick
                  PROVE  AgeInv'
<1>1. /\ UNCHANGED <<entered, promised>> /\ clock' >= clock
      /\ memory' \in {memory, NoReport} /\ file' \in {file, NoReport}
      /\ \A r \in Requests :
           \/ pc'[r] = "done" /\ got'[r] = NoReport /\ reply'[r] = "lost"
           \/ pc'[r] = pc[r] /\ got'[r] = got[r] /\ reply'[r] = reply[r]
  BY DEF ForgetMemory, ForgetFile, Restart, Tick, ServiceInv, TypeOK
<1>2. ExpiryTravels' /\ FetchedOnce'
  BY <1>1, CopiesKeep
<1>3. EnteredBefore'
  BY <1>1 DEF AgeInv, EnteredBefore, ServiceInv, TypeOK, Tick, ForgetMemory, ForgetFile, Restart
<1>4. CheckedYoung' /\ HitsAreYoung'
  BY <1>1 DEF AgeInv, CheckedYoung, HitsAreYoung
<1> QED
  BY <1>2, <1>3, <1>4 DEF AgeInv

LEMMA AgeStep == ServiceInv /\ AgeInv /\ [Next]_vars => AgeInv'
<1> SUFFICES ASSUME ServiceInv, AgeInv, [Next]_vars PROVE AgeInv'
  OBVIOUS
<1>1. CASE UNCHANGED vars
  BY <1>1
     DEF vars, AgeInv, ExpiryTravels, Dated, FetchedOnce, EnteredBefore, CheckedYoung,
         HitsAreYoung
<1>2. ASSUME NEW r \in Requests, Enter(r) \/ Progress(r) PROVE AgeInv'
  BY <1>2, AgeEnter, AgeQuiet, AgePromote, AgeLand, AgeFetchOk DEF Progress
<1> QED
  BY <1>1, <1>2, AgeOther DEF Next

(* A cache hit serves only what was still alive when the request came in,  *)
(* whatever way the report took (stockService.ts:328-352).                 *)
THEOREM HitsAreYoungHolds == Spec => []HitsAreYoung
<1>1. AgeInv => HitsAreYoung
  BY DEF AgeInv
<1> QED
  BY <1>1, ServiceInit, ServiceStep, AgeInit, AgeStep, PTL DEF Spec

=============================================================================
