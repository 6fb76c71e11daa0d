--------------------------- MODULE ReportService ---------------------------
(***************************************************************************)
(* The live and mock path of services/stockService.ts: one report, that of *)
(* a ticker and range, kept in the memory cache of the process, in a file  *)
(* of services/reportRepository.ts, and fetched from the provider.  Keys   *)
(* meet only in the evictions of the two caches, so one key is modelled    *)
(* and ForgetMemory and ForgetFile stand for what other keys do to it      *)
(* (TtlCache has the memory cache for several keys).                       *)
(*                                                                         *)
(* A member of Requests is one call of getReport().  The process is an     *)
(* event loop: a step runs from one await to the next.  Each operation on  *)
(* the file is done by the operating system in a step of its own, between  *)
(* the step that asks for it and the step that goes on.                    *)
(***************************************************************************)
EXTENDS Naturals

CONSTANTS Requests,
          Ttl,         \* the cache's time to live, in clock units
          Horizon      \* bound on the clock

(* A version of the report is named by the request that fetched it; "old"  *)
(* was written by an earlier process.  A "corrupt" file fails a check of   *)
(* the repository; an "odd" one passes them all and cannot be stamped (its *)
(* expiry is no valid date).                                               *)
Fetched == Requests \cup {"old"}
NoReport == [ver |-> "none", due |-> 0]
Report == [ver : Fetched, due : 0 .. Horizon + Ttl]
Broken == [ver : {"corrupt", "odd"}, due : {0}]
Contents == Report \cup Broken \cup {NoReport}

(* No repository is configured.                                            *)
NoRepository == [ver |-> "off", due |-> 0]

ASSUME ServiceConstants ==
  /\ Requests \cap {"old", "none", "corrupt", "odd", "off"} = {}
  /\ Ttl \in Nat \ {0}
  /\ Horizon \in Nat

VARIABLES clock,
          memory,    \* the entry of the memory cache
          file,      \* what the file of the key holds, or NoRepository
          inflight,  \* the request whose promise is in the in-flight map
          pc,        \* where each request stands
          got,       \* the report each request has in hand
          reply,     \* how it was answered
          entered,   \* history: when it began
          promised   \* history: the expiry each version was fetched with

vars == <<clock, memory, file, inflight, pc, got, reply, entered, promised>>

Flying == {"fetching", "writing", "written"}
Pc == {"idle", "reading", "read", "dropping", "dropped", "touching", "touched",
       "waiting", "done"} \cup Flying

TypeOK == /\ clock \in 0 .. Horizon
          /\ memory \in Report \cup {NoReport}
          /\ file \in Contents \cup {NoRepository}
          /\ inflight \in Requests \cup {"none"}
          /\ pc \in [Requests -> Pc]
          /\ got \in [Requests -> Contents]
          /\ reply \in [Requests -> {"pending", "hit", "fetched", "shared", "error", "lost"}]
          /\ entered \in [Requests -> 0 .. Horizon]
          /\ promised \in [Fetched -> 0 .. Horizon + Ttl]

(* The process starts; the file may be of any kind.                        *)
Init == /\ clock = 0
        /\ memory = NoReport
        /\ \E due \in 0 .. Ttl :
             /\ promised = [v \in Fetched |-> IF v = "old" THEN due ELSE 0]
             /\ file \in {NoRepository, NoReport, [ver |-> "old", due |-> due]} \cup Broken
        /\ inflight = "none"
        /\ pc = [r \in Requests |-> "idle"]
        /\ got = [r \in Requests |-> NoReport]
        /\ reply = [r \in Requests |-> "pending"]
        /\ entered = [r \in Requests |-> 0]

-----------------------------------------------------------------------------

Persistent == file # NoRepository

Goto(r, point) == pc' = [pc EXCEPT ![r] = point]
At(r, point) == pc[r] = point

Live(report) == report.due > clock

(* The request is answered with a report of a cache layer.                 *)
ServeHit(r, report) == /\ Goto(r, "done")
                       /\ got' = [got EXCEPT ![r] = report]
                       /\ reply' = [reply EXCEPT ![r] = "hit"]

(* Faulty variant: the in-flight map is not consulted.                     *)
FetchAlways(r) == inflight' = r /\ Goto(r, "fetching")

(* Share the flight of the key, or begin one.                              *)
JoinOrFetch(r) == IF inflight = "none" THEN inflight' = r /\ Goto(r, "fetching")
                  ELSE Goto(r, "waiting") /\ UNCHANGED inflight

(* 1. The memory layer; an expired entry is deleted as it is looked up.    *)
(* Without a repository the request goes on to the in-flight map at once.  *)
Enter(r) ==
  /\ At(r, "idle")
  /\ entered' = [entered EXCEPT ![r] = clock]
  /\ \/ /\ Live(memory)
        /\ ServeHit(r, memory)
        /\ UNCHANGED <<memory, inflight>>
     \/ /\ ~Live(memory)
        /\ memory' = NoReport
        /\ IF Persistent THEN Goto(r, "reading") /\ UNCHANGED inflight
           ELSE JoinOrFetch(r)
        /\ UNCHANGED <<got, reply>>
  /\ UNCHANGED <<clock, file, promised>>

(* 2. The persistent layer: readFile (an unreadable file is as good as     *)
(* none) ...                                                               *)
ReadFile(r) == /\ At(r, "reading") /\ Goto(r, "read")
               /\ got' = [got EXCEPT ![r] = file]
               /\ UNCHANGED <<clock, memory, file, inflight, reply, entered, promised>>

(* Faulty variant: the expiry is not checked.                              *)
InspectAnyAge(r) ==
  /\ At(r, "read")
  /\ \/ got[r].ver \in {"none", "corrupt"} /\ JoinOrFetch(r)
     \/ /\ got[r].ver \notin {"none", "corrupt"}
        /\ Goto(r, "touching") /\ UNCHANGED inflight
  /\ UNCHANGED <<clock, memory, file, got, reply, entered, promised>>

(* ... then the checks: no file is a miss; a corrupt or expired one is     *)
(* deleted; otherwise the envelope is rewritten to note the access.        *)
Inspect(r) ==
  /\ At(r, "read")
  /\ \/ got[r] = NoReport /\ JoinOrFetch(r)
     \/ /\ got[r] # NoReport /\ got[r].ver # "odd" /\ ~Live(got[r])
        /\ Goto(r, "dropping") /\ UNCHANGED inflight
     \/ /\ got[r].ver = "odd" \/ Live(got[r])
        /\ Goto(r, "touching") /\ UNCHANGED inflight
  /\ UNCHANGED <<clock, memory, file, got, reply, entered, promised>>

(* safeUnlink(), whose failure is swallowed.                               *)
Unlink(r) == /\ At(r, "dropping") /\ Goto(r, "dropped")
             /\ file' \in {file, NoReport}
             /\ UNCHANGED <<clock, memory, inflight, got, reply, entered, promised>>

MissAfterDrop(r) == /\ At(r, "dropped") /\ JoinOrFetch(r)
                    /\ UNCHANGED <<clock, memory, file, got, reply, entered, promised>>

(* atomicWrite() of the envelope that was read; its failure is logged.     *)
Touch(r) == /\ At(r, "touching") /\ Goto(r, "touched")
            /\ file' \in {file, got[r]}
            /\ UNCHANGED <<clock, memory, inflight, got, reply, entered, promised>>

(* Faulty variant: the stored report is not validated.                     *)
PromoteUnchecked(r) ==
  /\ At(r, "touched")
  /\ memory' = got[r] /\ ServeHit(r, got[r])
  /\ UNCHANGED <<clock, file, inflight, entered, promised>>

(* The stored report is stamped and validated: it warms the memory layer   *)
(* under its own expiry and is served, or its file is deleted.             *)
Promote(r) ==
  /\ At(r, "touched")
  /\ \/ got[r].ver # "odd" /\ memory' = got[r] /\ ServeHit(r, got[r])
     \/ got[r].ver = "odd" /\ Goto(r, "dropping") /\ UNCHANGED <<memory, got, reply>>
  /\ UNCHANGED <<clock, file, inflight, entered, promised>>

(* Faulty variant: those that wait for the promise are forgotten.          *)
SettleAlone(r, result, mine, theirs) ==
  /\ Goto(r, "done")
  /\ got' = [got EXCEPT ![r] = result]
  /\ reply' = [reply EXCEPT ![r] = mine]
  /\ inflight' = "none"

(* The promise of r settles with `result`: r and all that wait for it are  *)
(* answered, and the finally block clears the key.                         *)
Settle(r, result, mine, theirs) ==
  LET waiters == {q \in Requests : pc[q] = "waiting"}
      answered == {r} \cup waiters
  IN  /\ pc' = [q \in Requests |-> IF q \in answered THEN "done" ELSE pc[q]]
      /\ got' = [q \in Requests |-> IF q \in answered THEN result ELSE got[q]]
      /\ reply' = [q \in Requests |-> IF q = r THEN mine
                                      ELSE IF q \in waiters THEN theirs ELSE reply[q]]
      /\ inflight' = "none"

(* 3. The flight.  The provider call throws, its timeout included, or the  *)
(* report built from its answer is invalid: nothing is cached.             *)
FetchFails(r) == /\ At(r, "fetching")
                 /\ Settle(r, NoReport, "error", "error")
                 /\ UNCHANGED <<clock, memory, file, entered, promised>>

(* A valid report goes to the memory cache, then to the repository.        *)
FetchOk(r) ==
  LET report == [ver |-> r, due |-> clock + Ttl]
  IN  /\ At(r, "fetching")
      /\ memory' = report
      /\ promised' = [promised EXCEPT ![r] = report.due]
      /\ IF Persistent THEN /\ Goto(r, "writing")
                            /\ got' = [got EXCEPT ![r] = report]
                            /\ UNCHANGED <<inflight, reply>>
         ELSE Settle(r, report, "fetched", "shared")
      /\ UNCHANGED <<clock, file, entered>>

(* repository.set(), whose failure is logged.                              *)
WriteFile(r) == /\ At(r, "writing") /\ Goto(r, "written")
                /\ file' \in {file, got[r]}
                /\ UNCHANGED <<clock, memory, inflight, got, reply, entered, promised>>

Land(r) == /\ At(r, "written")
           /\ Settle(r, got[r], "fetched", "shared")
           /\ UNCHANGED <<clock, memory, file, entered, promised>>

Progress(r) == \/ ReadFile(r) \/ Inspect(r) \/ Unlink(r) \/ MissAfterDrop(r)
               \/ Touch(r) \/ Promote(r)
               \/ FetchFails(r) \/ FetchOk(r) \/ WriteFile(r) \/ Land(r)

(* Reports of other keys evict this one.                                   *)
ForgetMemory == /\ memory # NoReport /\ memory' = NoReport
                /\ UNCHANGED <<clock, file, inflight, pc, got, reply, entered, promised>>

ForgetFile == /\ file \notin {NoReport, NoRepository} /\ file' = NoReport
              /\ UNCHANGED <<clock, memory, inflight, pc, got, reply, entered, promised>>

(* The process dies and is started again; files are written by a rename,   *)
(* so that the file is the old one or the new one.                         *)
Restart ==
  LET lost == {r \in Requests : pc[r] \notin {"idle", "done"}}
  IN  /\ lost # {}
      /\ memory' = NoReport
      /\ inflight' = "none"
      /\ pc' = [r \in Requests |-> IF r \in lost THEN "done" ELSE pc[r]]
      /\ reply' = [r \in Requests |-> IF r \in lost THEN "lost" ELSE reply[r]]
      /\ got' = [r \in Requests |-> IF r \in lost THEN NoReport ELSE got[r]]
      /\ UNCHANGED <<clock, file, entered, promised>>

Tick == /\ clock < Horizon /\ clock' = clock + 1
        /\ UNCHANGED <<memory, file, inflight, pc, got, reply, entered, promised>>

Next == \/ Tick \/ Restart \/ ForgetMemory \/ ForgetFile
        \/ \E r \in Requests : Enter(r) \/ Progress(r)

Spec == Init /\ [][Next]_vars

(* File operations complete and the provider client gives up after its     *)
(* timeout, so a request that has begun keeps moving.                      *)
FairSpec == Spec /\ \A r \in Requests : WF_vars(Progress(r))

-----------------------------------------------------------------------------

(* The in-flight map is exact, across failures and late disk answers: the  *)
(* one request that is fetching or storing is the registered one, and a    *)
(* request that waits has a flight to wait for (stockService.ts:359-396).  *)
FlightsAreRegistered ==
  /\ \A r \in Requests : pc[r] \in Flying <=> inflight = r
  /\ \A r \in Requests : pc[r] = "waiting" => inflight # "none"

(* A cache hit never serves a report whose lifetime, counted from the      *)
(* fetch, was over when the request came in: neither being written to      *)
(* disk, read back, touched nor promoted to memory extends it              *)
(* (stockService.ts:328-352, reportRepository.ts:213-242).                 *)
HitsAreYoung ==
  \A r \in Requests : reply[r] = "hit" => promised[got[r].ver] > entered[r]

(* Nothing broken on disk is ever served, however the file changes between *)
(* its read, its checks and its rewriting (stockService.ts:189-194,        *)
(* reportRepository.ts:38-44).                                             *)
ServedIsSound ==
  \A r \in Requests : reply[r] \in {"hit", "fetched", "shared"} => got[r] \in Report

(* Every request is answered, whoever's flight it joined, unless the       *)
(* process dies under it (stockService.ts:359-396).                        *)
EveryRequestEnds ==
  \A r \in Requests : pc[r] # "idle" ~> pc[r] = "done"

(* What the comment says of a miss: concurrent requests for the key share  *)
(* one provider call, so none begins while the memory layer holds a live   *)
(* report that another request fetched (stockService.ts:181-183).  It does *)
(* not hold: a flight may begin and land during the read of the disk.      *)
FetchesAreShared ==
  [][\A r \in Requests : pc'[r] = "fetching" /\ pc[r] # "fetching" =>
       ~(memory.ver \in Requests /\ Live(memory))]_vars

=============================================================================
