-------------------------- MODULE ReportRepository --------------------------
(***************************************************************************)
(* services/reportRepository.ts: the second layer of the report cache, one *)
(* file for each ticker, range and mode, kept across restarts.  Requests   *)
(* of one server, or servers that share the folder, run its operations     *)
(* side by side; nothing but the rename of a finished file is atomic.      *)
(*                                                                         *)
(* A step is one call of the file system with the code that runs until the *)
(* next one; the file system is external.  The temporary files are left    *)
(* out: they do not end in .json and nobody reads them.  The reads of      *)
(* Promise.all are taken at one instant.                                   *)
(***************************************************************************)
EXTENDS Naturals, FiniteSets

CONSTANTS Keys,        \* file names: ticker, range and mode
          Callers,     \* operations under way at a time
          MaxEntries,
          Ttl,         \* a report is set with expiresAtMs = now + Ttl
          Horizon,     \* bound on the clock
          MaxFaults    \* bound on the calls of the file system that fail

ASSUME RepositoryConstants == /\ IsFiniteSet(Keys) /\ IsFiniteSet(Callers) /\ Callers # {}
                              /\ MaxEntries \in Nat \ {0}
                              /\ Ttl \in Nat \ {0} /\ Horizon \in Nat /\ MaxFaults \in Nat

VARIABLES clock,
          file,    \* the files of the folder, by key
          doing,   \* the step each caller is about to take
          key,     \* the key of its operation
          entry,   \* the envelope it has built, or read
          asOf,    \* nowMs of evictIfNeeded
          listed,  \* what readdir returned; then the files to remove
          alone,   \* history: nothing else ran and nothing failed since it began
          before,  \* history: the folder when it began, while it is alone
          faults,  \* history: how many calls have failed
          strays   \* history: files that a failed call has left or made, or that
                   \* get has written again after they were removed

vars == <<clock, file, doing, key, entry, asOf, listed, alone, before, faults, strays>>
local == <<key, entry, asOf, listed>>

(* An envelope: "good", or "odd" when it is of another schema, key, mode or *)
(* source; "corrupt" stands for what does not parse.                       *)
Times == 0 .. Horizon + Ttl
Envelope == [kind : {"good", "odd"}, due : Times, used : Times]
Corrupt == [kind |-> "corrupt", due |-> 0, used |-> 0]

NoKey == "none"

TypeOK ==
  /\ clock \in 0 .. Horizon
  /\ DOMAIN file \subseteq Keys /\ \A k \in DOMAIN file : file[k] \in Envelope \cup {Corrupt}
  /\ doing \in [Callers -> {"idle", "drop", "touch", "list", "rank", "remove", "write", "blind"}]
  /\ key \in [Callers -> Keys \cup {NoKey}]
  /\ entry \in [Callers -> Envelope \cup {Corrupt}]
  /\ asOf \in [Callers -> 0 .. Horizon]
  /\ listed \in [Callers -> SUBSET Keys]
  /\ alone \in [Callers -> BOOLEAN]
  /\ faults \in 0 .. MaxFaults
  /\ strays \subseteq Keys

Held == DOMAIN file
Good(f, t) == f.kind = "good" /\ f.due > t

Init == /\ clock = 0
        /\ \E ks \in SUBSET Keys :
             /\ Cardinality(ks) <= MaxEntries
             /\ file \in [ks -> {Corrupt, [kind |-> "odd", due |-> Horizon + Ttl, used |-> 0]}]
        /\ doing = [c \in Callers |-> "idle"]
        /\ key = [c \in Callers |-> NoKey]
        /\ entry = [c \in Callers |-> Corrupt]
        /\ asOf = [c \in Callers |-> 0]
        /\ listed = [c \in Callers |-> {}]
        /\ alone = [c \in Callers |-> FALSE]
        /\ before = [c \in Callers |-> <<>>]
        /\ faults = 0
        /\ strays = {}

-----------------------------------------------------------------------------

Go(c, step) == doing' = [doing EXCEPT ![c] = step]

(* An operation begins; whoever is under way is not alone any more.        *)
Begin(c) ==
  LET quiet == \A d \in Callers \ {c} : doing[d] = "idle"
  IN  /\ doing[c] = "idle"
      /\ alone' = [d \in Callers |-> d = c /\ quiet]
      /\ before' = [d \in Callers |-> IF d = c /\ quiet THEN file ELSE <<>>]

Continue == UNCHANGED <<alone, before>>

(* The operation is over; its variables are gone.                          *)
End(c) == /\ Go(c, "idle")
          /\ alone' = [alone EXCEPT ![c] = FALSE]
          /\ before' = [before EXCEPT ![c] = <<>>]
          /\ key' = [key EXCEPT ![c] = NoKey]
          /\ entry' = [entry EXCEPT ![c] = Corrupt]
          /\ asOf' = [asOf EXCEPT ![c] = 0]
          /\ listed' = [listed EXCEPT ![c] = {}]

Without(k) == [j \in Held \ {k} |-> file[j]]
With(k, e) == [j \in Held \cup {k} |-> IF j = k THEN e ELSE file[j]]

(* get(): the file is read and judged.  What is not a live report of the   *)
(* key is dropped; a live one is written again with its new use.           *)
GetMisses(c, k) == doing[c] = "idle" /\ k \notin Held /\ UNCHANGED vars

GetRefuses(c, k) == /\ Begin(c) /\ k \in Held /\ ~Good(file[k], clock)
                    /\ Go(c, "drop")
                    /\ key' = [key EXCEPT ![c] = k]
                    /\ UNCHANGED <<clock, file, entry, asOf, listed, faults, strays>>

GetFinds(c, k) == /\ Begin(c) /\ k \in Held /\ Good(file[k], clock)
                  /\ Go(c, "touch")
                  /\ key' = [key EXCEPT ![c] = k]
                  /\ entry' = [entry EXCEPT ![c] = [file[k] EXCEPT !.used = clock]]
                  /\ UNCHANGED <<clock, file, asOf, listed, faults, strays>>

(* safeUnlink(): a file that is gone already is no fault.  delete() does   *)
(* nothing else, and nothing at all without a file.                        *)
Drop(c) == /\ doing[c] = "drop"
           /\ file' = Without(key[c])
           /\ strays' = strays \ {key[c]}
           /\ End(c)
           /\ UNCHANGED <<clock, faults>>

Delete(c, k) == /\ Begin(c) /\ k \in Held
                /\ Go(c, "drop")
                /\ key' = [key EXCEPT ![c] = k]
                /\ UNCHANGED <<clock, file, entry, asOf, listed, faults, strays>>

(* set(): the envelope is stamped first.                                   *)
Set(c, k) ==
  /\ Begin(c)
  /\ Go(c, "list")
  /\ key' = [key EXCEPT ![c] = k]
  /\ entry' = [entry EXCEPT ![c] = [kind |-> "good", due |-> clock + Ttl, used |-> clock]]
  /\ UNCHANGED <<clock, file, asOf, listed, faults, strays>>

(* Faulty variant: one file is removed, however many there are too many.   *)
OneTooMany(c, files) == IF Cardinality(files \cup {key[c]}) > MaxEntries THEN 1 ELSE 0

(* evictIfNeeded(): overwriting a file does not make one more.             *)
Surplus(c, files) == Cardinality(files \cup {key[c]}) - MaxEntries

List(c) ==
  /\ doing[c] = "list"
  /\ \/ /\ Cardinality(Held \cup {key[c]}) <= MaxEntries
        /\ Go(c, "write")
        /\ UNCHANGED <<asOf, listed>>
     \/ /\ Cardinality(Held \cup {key[c]}) > MaxEntries
        /\ Go(c, "rank")
        /\ asOf' = [asOf EXCEPT ![c] = clock]
        /\ listed' = [listed EXCEPT ![c] = Held]
  /\ Continue
  /\ UNCHANGED <<clock, file, key, entry, faults, strays>>

(* What is ranked of a file: one that has gone meanwhile, or does not      *)
(* parse, is expired and unused.                                           *)
Meta(k) == IF k \in Held THEN file[k] ELSE Corrupt

(* Faulty variant: by the time they expire, not by their last use.         *)
RankedByExpiry(f, g, t) == f.due <= g.due

(* f may be removed while g stays.                                         *)
RankedBefore(f, g, t) == IF (f.due <= t) # (g.due <= t) THEN f.due <= t ELSE f.used <= g.used

Rank(c) ==
  /\ doing[c] = "rank"
  /\ LET candidates == listed[c] \ {key[c]}
         surplus == Surplus(c, listed[c])
     IN  \E gone \in SUBSET candidates :
           /\ \/ Cardinality(gone) = surplus
              \/ gone = candidates /\ Cardinality(candidates) < surplus
           /\ \A j \in gone, k \in candidates \ gone : RankedBefore(Meta(j), Meta(k), asOf[c])
           /\ listed' = [listed EXCEPT ![c] = gone]
           /\ Go(c, IF gone = {} THEN "write" ELSE "remove")
  /\ Continue
  /\ UNCHANGED <<clock, file, key, entry, asOf, faults, strays>>

(* One unlink after the other; which comes first does not show.            *)
Remove(c) ==
  /\ doing[c] = "remove"
  /\ \E k \in listed[c] :
       /\ file' = Without(k)
       /\ strays' = strays \ {k}
       /\ listed' = [listed EXCEPT ![c] = @ \ {k}]
       /\ Go(c, IF listed[c] = {k} THEN "write" ELSE "remove")
  /\ Continue
  /\ UNCHANGED <<clock, key, entry, asOf, faults>>

(* atomicWrite(): what counts is the rename.                               *)
Write(c) == /\ doing[c] \in {"touch", "write", "blind"}
            /\ file' = With(key[c], entry[c])
            /\ strays' = IF doing[c] \in {"touch", "blind"} /\ key[c] \notin Held
                         THEN strays \cup {key[c]} ELSE strays
            /\ End(c)
            /\ UNCHANGED <<clock, faults>>

(* A call fails: readdir means that nothing is evicted, an unlink that its *)
(* file stays, a write that the old file stays.  get and set go on.        *)
Fail(c) ==
  /\ faults < MaxFaults /\ faults' = faults + 1
  /\ \/ /\ doing[c] \in {"drop", "touch", "write", "blind"}
        /\ End(c)
        /\ UNCHANGED strays
     \/ /\ doing[c] = "list"
        /\ Go(c, "blind")
        /\ alone' = [alone EXCEPT ![c] = FALSE] /\ before' = [before EXCEPT ![c] = <<>>]
        /\ UNCHANGED <<local, strays>>
     \/ /\ doing[c] = "remove"
        /\ \E k \in listed[c] :
             /\ strays' = strays \cup ({k} \cap Held)
             /\ listed' = [listed EXCEPT ![c] = @ \ {k}]
             /\ Go(c, IF listed[c] = {k} THEN "write" ELSE "remove")
        /\ alone' = [alone EXCEPT ![c] = FALSE] /\ before' = [before EXCEPT ![c] = <<>>]
        /\ UNCHANGED <<key, entry, asOf>>
  /\ UNCHANGED <<clock, file>>

(* The server dies and is started again: the folder is all that is left.   *)
Crash == /\ \E c \in Callers : doing[c] # "idle"
         /\ doing' = [c \in Callers |-> "idle"]
         /\ key' = [c \in Callers |-> NoKey]
         /\ entry' = [c \in Callers |-> Corrupt]
         /\ asOf' = [c \in Callers |-> 0]
         /\ listed' = [c \in Callers |-> {}]
         /\ alone' = [c \in Callers |-> FALSE]
         /\ before' = [c \in Callers |-> <<>>]
         /\ UNCHANGED <<clock, file, faults, strays>>

Tick == /\ clock < Horizon /\ clock' = clock + 1
        /\ UNCHANGED <<file, doing, local, alone, before, faults, strays>>

Operate(c) == \/ \E k \in Keys : \/ GetMisses(c, k) \/ GetRefuses(c, k) \/ GetFinds(c, k)
                                 \/ Delete(c, k) \/ Set(c, k)
              \/ Drop(c) \/ List(c) \/ Rank(c) \/ Remove(c) \/ Write(c) \/ Fail(c)

Next == Crash \/ Tick \/ \E c \in Callers : Operate(c)

Spec == Init /\ [][Next]_vars

-----------------------------------------------------------------------------

(* Operations that run side by side may take the folder over its limit,   *)
(* though by fewer files than they are, and the excess does not add up: a  *)
(* file beyond that is one that a late rewrite of get has brought back     *)
(* from its removal, or one that a failed call has left                    *)
(* (reportRepository.ts:126-183, 230-232).                                 *)
OvershootIsBounded ==
  Cardinality(Held \ strays) <= MaxEntries + Cardinality(Callers) - 1

(* The folder was `old`, and a set of k that ranked it at t has made it    *)
(* `new`.                                                                  *)
SetAsPromised(old, k, e, t, new) ==
  LET kept == (DOMAIN new) \ {k}
      gone == (DOMAIN old) \ DOMAIN new
  IN  /\ k \in DOMAIN new /\ new[k] = e
      /\ Cardinality(DOMAIN new) <= MaxEntries
      /\ \A j \in kept : j \in DOMAIN old /\ new[j] = old[j]
      /\ gone # {} => Cardinality(DOMAIN new) = MaxEntries
      /\ \A j \in gone, g \in kept :
           \/ old[j].due <= t
           \/ old[g].due > t /\ old[j].used <= old[g].used

(* An operation that ran by itself and without a failing call did exactly  *)
(* what the cache promises: a set leaves its report, restores the limit,   *)
(* and removes no more than it must, dead entries first and then the ones  *)
(* used least recently; a get changes no file but its own, of which it     *)
(* notes the use or which it drops, and returns only a live report.        *)
AloneIsAtomic == [][\A c \in Callers : alone[c] =>
  /\ Write(c) /\ doing[c] = "write" => SetAsPromised(before[c], key[c], entry[c], asOf[c], file')
  /\ Write(c) /\ doing[c] = "touch" =>
       /\ Good(before[c][key[c]], entry[c].used)
       /\ file' = [before[c] EXCEPT ![key[c]].used = entry[c].used]
  /\ Drop(c) => file' = [j \in (DOMAIN before[c]) \ {key[c]} |-> before[c][j]]]_vars

=============================================================================
