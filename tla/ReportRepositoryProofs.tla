----------------------- MODULE ReportRepositoryProofs -----------------------
(* The folder of saved reports, for any number of keys, operations at a    *)
(* time, places and faults.                                                *)
EXTENDS ReportRepository, FiniteSetTheorems, TLAPS

USE RepositoryConstants

(* An operation under way knows its key, an idle caller has nothing to      *)
(* remove; the files and the remembered folders are maps.                  *)
IdleOrKeyed ==
  \A c \in Callers : IF doing[c] = "idle" THEN listed[c] = {} ELSE key[c] \in Keys

FoldersAreMaps == /\ file = [k \in Held |-> file[k]]
                  /\ before = [c \in Callers |-> before[c]]

Typed == TypeOK /\ IdleOrKeyed /\ FoldersAreMaps

-----------------------------------------------------------------------------
(* Typing.                                                                 *)

LEMMA InitTyped == Init => Typed
<1> SUFFICES ASSUME Init PROVE Typed
  OBVIOUS
<1>1. TypeOK
  BY DEF Init, TypeOK, Envelope, Corrupt, Times
<1>2. IdleOrKeyed
  BY DEF Init, IdleOrKeyed
<1>3. FoldersAreMaps
  <2>1. file = [k \in Held |-> file[k]]
    BY DEF Init, Held
  <2>2. before = [c \in Callers |-> before[c]]
    BY DEF Init
  <2> QED BY <2>1, <2>2 DEF FoldersAreMaps
<1> QED BY <1>1, <1>2, <1>3 DEF Typed

LEMMA BeginTyped ==
  ASSUME NEW c \in Callers, Begin(c)
  PROVE  alone' \in [Callers -> BOOLEAN] /\ before' = [d \in Callers |-> before'[d]]
<1>1. alone' \in [Callers -> BOOLEAN]
  BY DEF Begin
<1>2. before' = [d \in Callers |-> before'[d]]
  BY DEF Begin
<1> QED BY <1>1, <1>2

LEMMA EndTyped ==
  ASSUME Typed, NEW c \in Callers, End(c)
  PROVE  /\ doing' \in [Callers -> {"idle", "drop", "touch", "list", "rank", "remove",
                                    "write", "blind"}]
         /\ key' \in [Callers -> Keys \cup {NoKey}]
         /\ entry' \in [Callers -> Envelope \cup {Corrupt}]
         /\ asOf' \in [Callers -> 0 .. Horizon]
         /\ listed' \in [Callers -> SUBSET Keys]
         /\ alone' \in [Callers -> BOOLEAN]
         /\ before' = [d \in Callers |-> before'[d]]
         /\ IdleOrKeyed'
<1>1. doing' \in [Callers -> {"idle", "drop", "touch", "list", "rank", "remove",
                             "write", "blind"}]
  BY DEF Typed, TypeOK, End, Go
<1>2. /\ key' \in [Callers -> Keys \cup {NoKey}]
      /\ entry' \in [Callers -> Envelope \cup {Corrupt}]
      /\ asOf' \in [Callers -> 0 .. Horizon]
      /\ listed' \in [Callers -> SUBSET Keys]
      /\ alone' \in [Callers -> BOOLEAN]
  BY DEF Typed, TypeOK, End
<1>3. before' = [d \in Callers |-> before'[d]]
  BY DEF Typed, FoldersAreMaps, End
<1>4. IdleOrKeyed'
  BY DEF Typed, TypeOK, IdleOrKeyed, End, Go
<1> QED BY <1>1, <1>2, <1>3, <1>4

LEMMA NextTyped == Typed /\ [Next]_vars => Typed'
<1> SUFFICES ASSUME Typed, [Next]_vars PROVE Typed'
  OBVIOUS
<1> USE DEF Typed, TypeOK, IdleOrKeyed, FoldersAreMaps, Held
<1>1. CASE UNCHANGED vars
  BY <1>1 DEF vars
<1>2. CASE Crash
  BY <1>2 DEF Crash
<1>3. CASE Tick
  BY <1>3 DEF Tick, local
<1>4. ASSUME NEW c \in Callers, Operate(c) PROVE Typed'
  <2>1. ASSUME NEW k \in Keys, GetMisses(c, k) PROVE Typed'
    BY <2>1 DEF GetMisses, vars
  <2>2. ASSUME NEW k \in Keys, GetRefuses(c, k) \/ Delete(c, k) PROVE Typed'
    <3>1. /\ doing' = [doing EXCEPT ![c] = "drop"] /\ key' = [key EXCEPT ![c] = k]
          /\ UNCHANGED <<clock, file, entry, asOf, listed, faults, strays>>
      BY <2>2 DEF GetRefuses, Delete, Go
    <3>2. Begin(c)
      BY <2>2 DEF GetRefuses, Delete
    <3> QED BY <3>1, <3>2, BeginTyped
  <2>3. ASSUME NEW k \in Keys, GetFinds(c, k) PROVE Typed'
    <3>1. [file[k] EXCEPT !.used = clock] \in Envelope
      BY <2>3 DEF GetFinds, Good, Envelope, Corrupt, Times
    <3> QED BY <2>3, <3>1, BeginTyped DEF GetFinds, Go
  <2>4. ASSUME NEW k \in Keys, Set(c, k) PROVE Typed'
    <3>1. [kind |-> "good", due |-> clock + Ttl, used |-> clock] \in Envelope
      BY DEF Envelope, Times
    <3> QED BY <2>4, <3>1, BeginTyped DEF Set, Go
  <2>5. CASE Drop(c)
    <3>1. DOMAIN file' = Held \ {key[c]} /\ file' = [j \in DOMAIN file' |-> file[j]]
      BY <2>5 DEF Drop, Without
    <3>2. \A j \in DOMAIN file' : file'[j] = file[j]
      BY <3>1
    <3>3. file' = [j \in DOMAIN file' |-> file'[j]]
      BY <3>1, <3>2
    <3>4. End(c) /\ UNCHANGED <<clock, faults>> /\ strays' \subseteq Keys
      BY <2>5 DEF Drop
    <3> QED BY <3>1, <3>2, <3>3, <3>4, EndTyped
  <2>6. CASE List(c)
    BY <2>6 DEF List, Go, Continue
  <2>7. CASE Rank(c)
    BY <2>7 DEF Rank, Go, Continue
  <2>8. CASE Remove(c)
    BY <2>8 DEF Remove, Go, Continue, Without
  <2>9. CASE Write(c)
    <3>1. key[c] \in Keys
      BY <2>9 DEF Write
    <3>2. DOMAIN file' = Held \cup {key[c]} /\ file' = [j \in DOMAIN file' |-> file'[j]]
      BY <2>9 DEF Write, With
    <3>3. \A j \in DOMAIN file' : file'[j] \in Envelope \cup {Corrupt}
      BY <2>9 DEF Write, With
    <3>4. End(c) /\ UNCHANGED <<clock, faults>> /\ strays' \subseteq Keys
      BY <2>9, <3>1 DEF Write
    <3> QED BY <3>1, <3>2, <3>3, <3>4, EndTyped
  <2>10. CASE Fail(c)
    <3>1. faults' \in 0 .. MaxFaults /\ UNCHANGED <<clock, file>>
      BY <2>10 DEF Fail
    <3>2. CASE doing[c] \in {"drop", "touch", "write", "blind"} /\ End(c) /\ UNCHANGED strays
      BY <3>1, <3>2, EndTyped
    <3>3. CASE /\ doing[c] = "list" /\ Go(c, "blind")
               /\ alone' = [alone EXCEPT ![c] = FALSE] /\ before' = [before EXCEPT ![c] = <<>>]
               /\ UNCHANGED <<local, strays>>
      BY <3>1, <3>3 DEF Go, local
    <3>4. ASSUME NEW k \in listed[c], doing[c] = "remove",
                 strays' = strays \cup ({k} \cap Held),
                 listed' = [listed EXCEPT ![c] = @ \ {k}],
                 Go(c, IF listed[c] = {k} THEN "write" ELSE "remove"),
                 alone' = [alone EXCEPT ![c] = FALSE],
                 before' = [before EXCEPT ![c] = <<>>],
                 UNCHANGED <<key, entry, asOf>>
          PROVE  Typed'
      <4>1. strays' \subseteq Keys /\ listed' \in [Callers -> SUBSET Keys]
        BY <3>4
      <4>2. /\ doing' \in [Callers -> {"idle", "drop", "touch", "list", "rank", "remove",
                                        "write", "blind"}]
            /\ IdleOrKeyed'
        BY <3>4 DEF Go
      <4> QED BY <3>1, <3>4, <4>1, <4>2
    <3> QED BY <2>10, <3>2, <3>3, <3>4 DEF Fail
  <2> QED BY <1>4, <2>1, <2>2, <2>3, <2>4, <2>5, <2>6, <2>7, <2>8, <2>9, <2>10 DEF Operate
<1> QED BY <1>1, <1>2, <1>3, <1>4 DEF Next

(* The folder and every operation keep their types
   (reportRepository.ts:29-59).                                            *)
THEOREM RepositoryTyping == Spec => []TypeOK
<1>1. Typed => TypeOK
  BY DEF Typed
<1> QED BY InitTyped, NextTyped, <1>1, PTL DEF Spec

-----------------------------------------------------------------------------
(* How far the folder may grow.  The files that count are those no failed  *)
(* call and no late rewrite has left; every write that is coming may add   *)
(* its key to them.  A caller that has still to evict counts as a write    *)
(* that is coming once the files it is going to remove are taken off,      *)
(* whichever of the admissible sets it chooses.                            *)

Counted == Held \ strays
KeysOf(cs) == {key[c] : c \in cs}
Writers == {c \in Callers : doing[c] = "write"}
Evictors == {c \in Callers : doing[c] \in {"rank", "remove"}}

(* c may be going to remove p. *)
IsPlan(c, p) ==
  IF doing[c] = "remove" THEN p = listed[c]
  ELSE /\ p \subseteq listed[c] \ {key[c]}
       /\ Cardinality((listed[c] \cup {key[c]}) \ p) <= MaxEntries

ArePlans(cs, plan) == /\ cs \subseteq Evictors /\ plan \in [cs -> SUBSET Keys]
                      /\ \A c \in cs : IsPlan(c, plan[c])

(* What the folder comes to when the writes and cs are through. *)
Outcome(cs, plan) ==
  (Counted \ UNION {plan[c] : c \in cs}) \cup KeysOf(Writers \cup cs)

Limit == MaxEntries + Cardinality(Callers) - 1

Fits(S) == IsFiniteSet(S) /\ Cardinality(S) <= Limit

RoomIsBounded == \A cs \in SUBSET Callers : \A plan \in [cs -> SUBSET Keys] :
  ArePlans(cs, plan) => Fits(Outcome(cs, plan))

LEMMA SmallerFits ==
  ASSUME NEW S, NEW T, Fits(S), T \subseteq S
  PROVE  Fits(T)
<1>1. IsFiniteSet(T) /\ Cardinality(T) <= Cardinality(S)
  BY FS_Subset DEF Fits
<1>2. Cardinality(S) \in Nat /\ Cardinality(T) \in Nat /\ Limit \in Int
  BY <1>1, FS_CardinalityType DEF Fits, Limit
<1> QED BY <1>1, <1>2 DEF Fits

LEMMA CardsAdd ==
  ASSUME NEW S, IsFiniteSet(S), NEW T \in SUBSET S
  PROVE  Cardinality(S) = Cardinality(S \ T) + Cardinality(T)
<1>1. IsFiniteSet(T) /\ IsFiniteSet(S \ T)
  BY FS_Subset
<1>2. S = (S \ T) \cup T /\ (S \ T) \cap T = {}
  OBVIOUS
<1>3. Cardinality(S) = Cardinality(S \ T) + Cardinality(T) - Cardinality({})
  BY <1>1, <1>2, FS_Union
<1> QED BY <1>1, <1>3, FS_EmptySet, FS_CardinalityType

(* Operations have no more keys than they are. *)
LEMMA FewKeys ==
  ASSUME NEW cs \in SUBSET Callers
  PROVE  /\ IsFiniteSet(KeysOf(cs)) /\ IsFiniteSet(cs)
         /\ Cardinality(KeysOf(cs)) <= Cardinality(cs)
<1> DEFINE f == [c \in cs |-> key[c]]
<1>1. IsFiniteSet(cs)
  BY FS_Subset
<1>2. f \in Surjection(cs, KeysOf(cs))
  BY DEF Surjection, KeysOf
<1> QED BY <1>1, <1>2, FS_Surjection

(* One caller's room, and a key for each of the others. *)
LEMMA OthersFit ==
  ASSUME NEW c \in Callers, NEW A, IsFiniteSet(A), Cardinality(A) <= MaxEntries
  PROVE  Fits(A \cup KeysOf(Callers \ {c}))
<1> DEFINE others == Callers \ {c}
<1>1. IsFiniteSet(others) /\ Cardinality(others) = Cardinality(Callers) - 1
  BY FS_RemoveElement
<1>2. IsFiniteSet(KeysOf(others)) /\ Cardinality(KeysOf(others)) <= Cardinality(others)
  BY FewKeys
<1>3. /\ IsFiniteSet(A \cup KeysOf(others))
      /\ Cardinality(A \cup KeysOf(others))
           = Cardinality(A) + Cardinality(KeysOf(others)) - Cardinality(A \cap KeysOf(others))
  BY <1>2, FS_Union
<1>4. IsFiniteSet(A \cap KeysOf(others))
  BY FS_Intersection
<1>5. /\ Cardinality(A) \in Nat /\ Cardinality(KeysOf(others)) \in Nat
      /\ Cardinality(A \cap KeysOf(others)) \in Nat /\ Cardinality(Callers) \in Nat
  BY <1>2, <1>4, FS_CardinalityType
<1> QED BY <1>1, <1>2, <1>3, <1>5 DEF Fits, Limit

LEMMA InitRoom == Init => RoomIsBounded
<1> SUFFICES ASSUME Init, NEW cs \in SUBSET Callers, NEW plan \in [cs -> SUBSET Keys],
                    ArePlans(cs, plan)
             PROVE  Fits(Outcome(cs, plan))
  BY DEF RoomIsBounded
<1>1. Outcome(cs, plan) = Held
  BY DEF Init, Outcome, Counted, KeysOf, Writers, ArePlans, Evictors
<1>2. IsFiniteSet(Held) /\ Cardinality(Held) <= MaxEntries
  BY FS_Subset DEF Init, Held
<1>3. Cardinality(Callers) >= 1
  BY FS_EmptySet, FS_CardinalityType
<1> QED BY <1>1, <1>2, <1>3, FS_CardinalityType DEF Fits, Limit

(* What a step leaves of the bound: if what it makes of the outcome of     *)
(* cs and plan was the outcome of some callers and plans before it, or     *)
(* less, it fits.                                                          *)
LEMMA EarlierFits ==
  ASSUME RoomIsBounded, NEW S, NEW cs \in SUBSET Callers, NEW plan \in [cs -> SUBSET Keys],
         ArePlans(cs, plan), S \subseteq Outcome(cs, plan)
  PROVE  Fits(S)
BY SmallerFits DEF RoomIsBounded

(* c goes by the plan p, the other callers of cs by what plan says.       *)
LEMMA AnotherPlan ==
  ASSUME RoomIsBounded, NEW S, NEW cs \in SUBSET Callers, NEW plan \in [cs -> SUBSET Keys],
         NEW c \in Evictors, NEW p \in SUBSET Keys, IsPlan(c, p),
         \A d \in cs \ {c} : d \in Evictors /\ IsPlan(d, plan[d]),
         S \subseteq (Counted \ (p \cup UNION {plan[d] : d \in cs \ {c}}))
                       \cup KeysOf(Writers \cup cs \cup {c})
  PROVE  Fits(S)
<1> DEFINE more == [d \in cs \cup {c} |-> IF d = c THEN p ELSE plan[d]]
<1>1. cs \cup {c} \in SUBSET Callers /\ more \in [cs \cup {c} -> SUBSET Keys]
  BY DEF Evictors
<1>2. ArePlans(cs \cup {c}, more)
  BY <1>1 DEF ArePlans
<1>3. UNION {more[d] : d \in cs \cup {c}} = p \cup UNION {plan[d] : d \in cs \ {c}}
  OBVIOUS
<1>4. S \subseteq Outcome(cs \cup {c}, more)
  BY <1>3 DEF Outcome
<1> QED BY <1>1, <1>2, <1>4, EarlierFits

(* A step that takes files off, or leaves them, and changes nobody's plan  *)
(* or key but those of callers that neither evict nor write.               *)
LEMMA CalmStepKeepsRoom ==
  ASSUME RoomIsBounded, Counted' \subseteq Counted,
         Writers' \subseteq Writers, Evictors' \subseteq Evictors,
         \A d \in Writers' \cup Evictors' :
           doing'[d] = doing[d] /\ key'[d] = key[d] /\ listed'[d] = listed[d]
  PROVE  RoomIsBounded'
<1> SUFFICES ASSUME NEW cs \in SUBSET Callers, NEW plan \in [cs -> SUBSET Keys],
                    ArePlans(cs, plan)'
             PROVE  Fits(Outcome(cs, plan)')
  BY DEF RoomIsBounded, Fits, Limit
<1>1. ArePlans(cs, plan)
  BY DEF ArePlans, IsPlan, Evictors
<1>2. Outcome(cs, plan)' \subseteq Outcome(cs, plan)
  BY DEF Outcome, KeysOf, ArePlans
<1> QED BY <1>1, <1>2, EarlierFits

(* What a ranking takes off makes room for its key, and no more.           *)
LEMMA RankLeavesRoom ==
  ASSUME NEW c \in Callers, NEW files \in SUBSET Keys, NEW gone \in SUBSET (files \ {key[c]}),
         \/ Cardinality(gone) = Surplus(c, files)
         \/ gone = files \ {key[c]} /\ Cardinality(gone) < Surplus(c, files)
  PROVE  Cardinality((files \cup {key[c]}) \ gone) = MaxEntries
<1> DEFINE all == files \cup {key[c]}
<1>1. IsFiniteSet(files) /\ IsFiniteSet(all) /\ IsFiniteSet(gone) /\ IsFiniteSet(all \ gone)
  BY FS_Subset, FS_AddElement
<1>2. Cardinality(all) = Cardinality(all \ gone) + Cardinality(gone)
  BY <1>1, CardsAdd
<1>3. /\ Cardinality(all) \in Nat /\ Cardinality(gone) \in Nat
      /\ Cardinality(all \ gone) \in Nat
  BY <1>1, FS_CardinalityType
<1>4. CASE gone = files \ {key[c]} /\ Cardinality(gone) < Surplus(c, files)
  <2>1. all \ gone = {key[c]}
    BY <1>4
  <2>2. Cardinality(all \ gone) = 1
    BY <2>1, FS_Singleton
  <2> QED BY <1>2, <1>3, <1>4, <2>2 DEF Surplus
<1> QED BY <1>2, <1>3, <1>4 DEF Surplus

LEMMA NextRoom == Typed /\ RoomIsBounded /\ [Next]_vars => RoomIsBounded'
<1> SUFFICES ASSUME Typed, RoomIsBounded, [Next]_vars PROVE RoomIsBounded'
  OBVIOUS
<1> USE DEF Typed, TypeOK
<1>1. CASE UNCHANGED vars
  BY <1>1, CalmStepKeepsRoom DEF vars, Counted, Held, Writers, Evictors
<1>2. CASE Crash
  BY <1>2, CalmStepKeepsRoom DEF Crash, Counted, Held, Writers, Evictors
<1>3. CASE Tick
  BY <1>3, CalmStepKeepsRoom DEF Tick, local, Counted, Held, Writers, Evictors
<1>4. ASSUME NEW c \in Callers, Operate(c) PROVE RoomIsBounded'
  <2>1. ASSUME NEW k \in Keys, \/ GetMisses(c, k) \/ GetRefuses(c, k) \/ GetFinds(c, k)
                               \/ Delete(c, k) \/ Set(c, k)
        PROVE  RoomIsBounded'
    <3>1. CASE GetMisses(c, k)
      BY <1>1, <3>1 DEF GetMisses
    <3>2. ASSUME NEW step \in {"drop", "touch", "list"}, doing[c] = "idle", Go(c, step),
                 key' = [key EXCEPT ![c] = k], UNCHANGED <<file, listed, strays>>
          PROVE  RoomIsBounded'
      BY <3>2, CalmStepKeepsRoom DEF Go, Counted, Held, Writers, Evictors
    <3> QED BY <2>1, <3>1, <3>2 DEF GetRefuses, GetFinds, Delete, Set, Begin
  <2>2. ASSUME doing[c] \in {"drop", "touch", "write", "blind"}, End(c), Counted' \subseteq Counted
        PROVE  RoomIsBounded'
    BY <2>2, CalmStepKeepsRoom DEF End, Go, Writers, Evictors
  <2>3. CASE Drop(c)
    BY <2>2, <2>3 DEF Drop, Without, Counted, Held
  <2>4. CASE List(c)
    <3>1. /\ key' = key /\ Counted' = Counted /\ \A d \in Callers \ {c} : doing'[d] = doing[d]
          /\ \A d \in Callers \ {c} : listed'[d] = listed[d]
          /\ doing[c] = "list"
      BY <2>4 DEF List, Go, Counted, Held
    <3> SUFFICES ASSUME NEW cs \in SUBSET Callers, NEW plan \in [cs -> SUBSET Keys],
                        ArePlans(cs, plan)'
                 PROVE  Fits(Outcome(cs, plan)')
      BY DEF RoomIsBounded, Fits, Limit
    <3>2. IsFiniteSet(Held) /\ IsFiniteSet(Held \cup {key[c]})
      BY FS_Subset, FS_AddElement DEF Held
    <3>3. CASE c \notin cs /\ doing'[c] = "rank"
      <4>1. c \notin Writers' /\ Writers' \subseteq Writers /\ cs \subseteq Evictors
        BY <3>1, <3>3 DEF Writers, ArePlans, Evictors
      <4>2. ArePlans(cs, plan)
        BY <3>1, <3>3, <4>1 DEF ArePlans, IsPlan
      <4>3. Outcome(cs, plan)' \subseteq Outcome(cs, plan)
        BY <3>1, <4>1 DEF Outcome, KeysOf
      <4> QED BY <4>2, <4>3, EarlierFits DEF Fits, Limit
    <3>4. ASSUME NEW gone, key[c] \notin gone, c \in cs => gone = plan[c], c \notin cs => gone = {},
                 Cardinality((Held \cup {key[c]}) \ gone) <= MaxEntries
          PROVE  Fits(Outcome(cs, plan)')
      <4>1. IsFiniteSet((Held \cup {key[c]}) \ gone)
        BY <3>2, FS_Subset
      <4>2. Outcome(cs, plan)' = (Counted \ UNION {plan[d] : d \in cs}) \cup KeysOf(Writers' \cup cs)
        BY <3>1 DEF Outcome, KeysOf
      <4>3. KeysOf(Writers' \cup cs) \subseteq {key[c]} \cup KeysOf(Callers \ {c})
        BY DEF KeysOf, Writers
      <4>4. Counted \ UNION {plan[d] : d \in cs} \subseteq Held \ gone
        BY <3>4 DEF Counted
      <4>5. Outcome(cs, plan)' \subseteq ((Held \cup {key[c]}) \ gone) \cup KeysOf(Callers \ {c})
        BY <3>4, <4>2, <4>3, <4>4
      <4>6. Fits(((Held \cup {key[c]}) \ gone) \cup KeysOf(Callers \ {c}))
        BY <3>4, <4>1, OthersFit
      <4> QED BY <4>5, <4>6, SmallerFits
    <3>5. CASE c \in cs
      <4>1. doing'[c] = "rank" /\ listed'[c] = Held
        BY <2>4, <3>5 DEF List, Go, ArePlans, Evictors
      <4>2. IsPlan(c, plan[c])'
        BY <3>5 DEF ArePlans
      <4> QED BY <3>1, <3>4, <3>5, <4>1, <4>2 DEF IsPlan
    <3>6. CASE c \notin cs /\ doing'[c] # "rank"
      <4>1. Cardinality((Held \cup {key[c]}) \ {}) <= MaxEntries
        BY <2>4, <3>6 DEF List, Go
      <4> QED BY <3>4, <3>6, <4>1
    <3> QED BY <3>3, <3>5, <3>6
  <2>5. CASE Rank(c)
    <3> SUFFICES ASSUME NEW cs \in SUBSET Callers, NEW plan \in [cs -> SUBSET Keys],
                        ArePlans(cs, plan)'
                 PROVE  Fits(Outcome(cs, plan)')
      BY DEF RoomIsBounded, Fits, Limit
    <3> DEFINE candidates == listed[c] \ {key[c]}
    <3>1. PICK gone \in SUBSET candidates :
            /\ \/ Cardinality(gone) = Surplus(c, listed[c])
               \/ gone = candidates /\ Cardinality(candidates) < Surplus(c, listed[c])
            /\ listed' = [listed EXCEPT ![c] = gone]
            /\ Go(c, IF gone = {} THEN "write" ELSE "remove")
      BY <2>5 DEF Rank
    <3>2. /\ key' = key /\ Counted' = Counted /\ doing[c] = "rank"
          /\ \A d \in Callers \ {c} : doing'[d] = doing[d] /\ listed'[d] = listed[d]
          /\ listed'[c] = gone /\ doing'[c] = IF gone = {} THEN "write" ELSE "remove"
      BY <2>5, <3>1 DEF Rank, Go, Counted, Held
    <3>3. gone \in SUBSET Keys /\ IsPlan(c, gone)
      <4>1. Cardinality((listed[c] \cup {key[c]}) \ gone) <= MaxEntries
        BY <3>1, RankLeavesRoom
      <4> QED BY <3>1, <3>2, <4>1 DEF IsPlan
    <3>5. \A d \in cs \ {c} : d \in Evictors /\ IsPlan(d, plan[d])
      BY <3>2 DEF ArePlans, IsPlan, Evictors
    <3>6. CASE c \notin cs /\ doing'[c] = "remove"
      <4>1. Writers' = Writers
        BY <3>2, <3>6 DEF Writers
      <4>2. Outcome(cs, plan)' \subseteq Outcome(cs, plan)
        BY <3>2, <4>1 DEF Outcome, KeysOf
      <4>3. ArePlans(cs, plan)
        BY <3>5, <3>6 DEF ArePlans
      <4> QED BY <4>2, <4>3, EarlierFits
    <3>7. CASE c \in cs \/ doing'[c] = "write"
      <4>1. c \in Evictors
        BY <3>2 DEF Evictors
      <4>2. Writers' \cup cs \subseteq Writers \cup cs \cup {c}
        BY <3>2 DEF Writers
      <4>3. (gone \cup UNION {plan[d] : d \in cs \ {c}}) \subseteq UNION {plan[d] : d \in cs}
        <5>1. CASE c \in cs
          <6>1. doing'[c] = "remove"
            BY <3>2, <5>1 DEF ArePlans, Evictors
          <6>2. plan[c] = gone
            BY <3>2, <5>1, <6>1 DEF ArePlans, IsPlan
          <6> QED BY <5>1, <6>2
        <5>2. CASE c \notin cs
          <6>1. gone = {}
            BY <3>2, <3>7, <5>2
          <6> QED BY <6>1
        <5> QED BY <5>1, <5>2
      <4>4. Outcome(cs, plan)' \subseteq (Counted \ (gone \cup UNION {plan[d] : d \in cs \ {c}}))
                                         \cup KeysOf(Writers \cup cs \cup {c})
        BY <3>2, <4>2, <4>3 DEF Outcome, KeysOf
      <4>5. gone \in SUBSET Keys /\ IsPlan(c, gone)
        BY <3>3
      <4> HIDE DEF candidates, TypeOK, Typed
      <4> QED BY <3>5, <4>1, <4>4, <4>5, AnotherPlan
    <3>8. doing'[c] \in {"write", "remove"}
      BY <3>2
    <3> QED BY <3>6, <3>7, <3>8
  <2>6. ASSUME NEW k \in listed[c], doing[c] = "remove", key' = key,
               Counted' = Counted \ {k}, listed' = [listed EXCEPT ![c] = @ \ {k}],
               Go(c, IF listed[c] = {k} THEN "write" ELSE "remove")
        PROVE  RoomIsBounded'
    <3> SUFFICES ASSUME NEW cs \in SUBSET Callers, NEW plan \in [cs -> SUBSET Keys],
                        ArePlans(cs, plan)'
                 PROVE  Fits(Outcome(cs, plan)')
      BY DEF RoomIsBounded, Fits, Limit
    <3>1. /\ \A d \in Callers \ {c} : doing'[d] = doing[d] /\ listed'[d] = listed[d]
          /\ listed'[c] = listed[c] \ {k}
          /\ doing'[c] = IF listed[c] = {k} THEN "write" ELSE "remove"
      BY <2>6 DEF Go
    <3>3. \A d \in cs \ {c} : d \in Evictors /\ IsPlan(d, plan[d])
      BY <2>6, <3>1 DEF ArePlans, IsPlan, Evictors
    <3>4. PICK mine \in SUBSET Keys : mine = listed[c] /\ c \in Evictors /\ IsPlan(c, mine)
      BY <2>6 DEF Evictors, IsPlan
    <3>5. Writers' \subseteq Writers \cup {c}
      BY <3>1 DEF Writers
    <3>6. CASE c \in cs
      <4>1. doing'[c] = "remove" /\ plan[c] = mine \ {k}
        <5>1. doing'[c] = "remove"
          BY <3>1, <3>6 DEF ArePlans, Evictors
        <5> QED BY <3>1, <3>4, <3>6, <5>1 DEF ArePlans, IsPlan
      <4>2. Counted' \ UNION {plan[d] : d \in cs}
              \subseteq Counted \ (mine \cup UNION {plan[d] : d \in cs \ {c}})
        BY <2>6, <3>6, <4>1
      <4>3. Outcome(cs, plan)' \subseteq (Counted \ (mine \cup UNION {plan[d] : d \in cs \ {c}}))
                                         \cup KeysOf(Writers \cup cs \cup {c})
        BY <2>6, <3>5, <4>2 DEF Outcome, KeysOf
      <4> QED BY <3>3, <3>4, <4>3, AnotherPlan
    <3>7. CASE c \notin cs /\ doing'[c] = "write"
      <4>1. mine = {k}
        BY <3>1, <3>4, <3>7
      <4>2. Outcome(cs, plan)' \subseteq (Counted \ (mine \cup UNION {plan[d] : d \in cs \ {c}}))
                                         \cup KeysOf(Writers \cup cs \cup {c})
        BY <2>6, <3>5, <4>1 DEF Outcome, KeysOf
      <4> QED BY <3>3, <3>4, <4>2, AnotherPlan
    <3>8. CASE c \notin cs /\ doing'[c] # "write"
      <4>1. Writers' \subseteq Writers
        BY <3>1, <3>8 DEF Writers
      <4>2. ArePlans(cs, plan)
        BY <3>3, <3>8 DEF ArePlans
      <4>3. Outcome(cs, plan)' \subseteq Outcome(cs, plan)
        BY <2>6, <4>1 DEF Outcome, KeysOf
      <4> QED BY <4>2, <4>3, EarlierFits
    <3> QED BY <3>6, <3>7, <3>8
  <2>7. CASE Remove(c)
    <3>1. PICK k \in listed[c] :
            /\ file' = Without(k) /\ strays' = strays \ {k}
            /\ listed' = [listed EXCEPT ![c] = @ \ {k}]
            /\ Go(c, IF listed[c] = {k} THEN "write" ELSE "remove")
      BY <2>7 DEF Remove
    <3>2. Counted' = Counted \ {k}
      BY <3>1 DEF Counted, Without, Held
    <3> QED BY <2>6, <2>7, <3>1, <3>2 DEF Remove
  <2>8. CASE Write(c)
    <3>1. DOMAIN file' = Held \cup {key[c]} /\ End(c) /\ doing[c] \in {"touch", "write", "blind"}
      BY <2>8 DEF Write, With
    <3>2. CASE doing[c] # "write"
      <4>1. Counted' \subseteq Counted
        BY <2>8, <3>1, <3>2 DEF Write, Counted, Held
      <4> QED BY <2>2, <3>1, <4>1
    <3>3. CASE doing[c] = "write"
      <4>1. Counted' \subseteq Counted \cup {key[c]} /\ c \in Writers
        BY <2>8, <3>1, <3>3 DEF Write, Counted, Held, Writers
      <4>2. /\ \A d \in Callers \ {c} : /\ doing'[d] = doing[d] /\ listed'[d] = listed[d]
                                        /\ key'[d] = key[d]
            /\ doing'[c] = "idle"
        BY <3>1 DEF End, Go
      <4> SUFFICES ASSUME NEW cs \in SUBSET Callers, NEW plan \in [cs -> SUBSET Keys],
                          ArePlans(cs, plan)'
                   PROVE  Fits(Outcome(cs, plan)')
        BY DEF RoomIsBounded, Fits, Limit
      <4>3. c \notin cs /\ Writers' \subseteq Writers \ {c}
        BY <4>2 DEF ArePlans, Evictors, Writers
      <4>4. ArePlans(cs, plan)
        BY <4>2, <4>3 DEF ArePlans, IsPlan, Evictors
      <4>5. KeysOf(Writers \cup cs)' \subseteq KeysOf(Writers \cup cs) /\ key[c] \in KeysOf(Writers \cup cs)
        <5>1. \A d \in Writers' \cup cs : d \in Writers \cup cs /\ key'[d] = key[d]
          BY <4>2, <4>3 DEF Writers
        <5> QED BY <4>1, <5>1 DEF KeysOf
      <4>6. Outcome(cs, plan)' \subseteq Outcome(cs, plan)
        BY <4>1, <4>5 DEF Outcome
      <4> QED BY <4>4, <4>6, EarlierFits
    <3> QED BY <3>2, <3>3
  <2>9. CASE Fail(c)
    <3>1. CASE doing[c] \in {"drop", "touch", "write", "blind"} /\ End(c) /\ UNCHANGED strays
      BY <2>2, <2>9, <3>1 DEF Fail, Counted, Held
    <3>2. CASE doing[c] = "list" /\ Go(c, "blind") /\ UNCHANGED <<local, strays>>
      BY <2>9, <3>2, CalmStepKeepsRoom DEF Fail, local, Go, Counted, Held, Writers, Evictors
    <3>3. ASSUME NEW k \in listed[c], doing[c] = "remove",
                 strays' = strays \cup ({k} \cap Held),
                 listed' = [listed EXCEPT ![c] = @ \ {k}],
                 Go(c, IF listed[c] = {k} THEN "write" ELSE "remove"), key' = key
          PROVE  RoomIsBounded'
      <4>1. Counted' = Counted \ {k}
        BY <2>9, <3>3 DEF Fail, Counted, Held
      <4> QED BY <2>6, <3>3, <4>1
    <3> QED BY <2>9, <3>1, <3>2, <3>3 DEF Fail
  <2> QED BY <1>4, <2>1, <2>3, <2>4, <2>5, <2>7, <2>8, <2>9 DEF Operate
<1> QED BY <1>1, <1>2, <1>3, <1>4 DEF Next

(* Operations that run side by side take the folder over its limit by
   fewer files than they are, not counting what a late rewrite or a failed
   call has left, however they interleave, and whenever the server dies
   (reportRepository.ts:126-183, 230-232).                                 *)
THEOREM OvershootIsBoundedHolds == Spec => []OvershootIsBounded
<1>1. RoomIsBounded => OvershootIsBounded
  <2> SUFFICES ASSUME RoomIsBounded PROVE OvershootIsBounded
    OBVIOUS
  <2> DEFINE noPlan == [c \in {} |-> {}]
  <2>1. ArePlans({}, noPlan) /\ noPlan \in [{} -> SUBSET Keys]
    BY DEF ArePlans
  <2>2. Fits(Counted)
    BY <2>1, EarlierFits DEF Outcome
  <2> QED BY <2>2 DEF Fits, Limit, Counted, OvershootIsBounded
<1> QED BY InitTyped, NextTyped, InitRoom, NextRoom, <1>1, PTL DEF Spec

-----------------------------------------------------------------------------
(* An operation by itself.  While it is alone, what it will leave of the   *)
(* folder follows from the folder it began with: the files it has ranked   *)
(* off are those it has removed and those it has still to remove.          *)

Gone(c) == ((DOMAIN before[c]) \ Held) \cup listed[c]

Evicts(c) ==
  LET old == before[c]
      kept == ((DOMAIN old) \cup {key[c]}) \ Gone(c)
  IN  /\ listed[c] \subseteq DOMAIN old /\ key[c] \notin Gone(c)
      /\ \A j \in Gone(c), k \in kept \ {key[c]} : RankedBefore(old[j], old[k], asOf[c])
      /\ Cardinality(kept) <= MaxEntries
      /\ Gone(c) # {} => Cardinality(kept) = MaxEntries

Quiet(c) == doing[c] # "idle" /\ \A d \in Callers \ {c} : doing[d] = "idle"

KeepsFiles(c) == Held \subseteq DOMAIN before[c] /\ \A k \in Held : file[k] = before[c][k]

OnCourse(c) ==
  /\ doing[c] \in {"drop", "touch", "list", "rank"} => file = before[c]
  /\ doing[c] = "touch" => /\ key[c] \in Held /\ Good(file[key[c]], entry[c].used)
                           /\ entry[c] = [file[key[c]] EXCEPT !.used = entry[c].used]
  /\ doing[c] \in {"list", "write"} => listed[c] = {}
  /\ doing[c] = "rank" => listed[c] = Held
  /\ doing[c] \in {"remove", "write"} => Evicts(c)

AloneInv == \A c \in Callers : alone[c] => Quiet(c) /\ KeepsFiles(c) /\ OnCourse(c)

LEMMA InitAlone == Init => AloneInv
BY DEF Init, AloneInv

(* Nobody is alone after a step that only begins nothing and remembers     *)
(* nothing, but the caller that took it.                                   *)
LEMMA OnlyTheCallerIsAlone ==
  ASSUME Typed, AloneInv, NEW c \in Callers, doing[c] # "idle",
         \A d \in Callers : alone'[d] => alone[d],
         alone'[c] => (Quiet(c) /\ KeepsFiles(c) /\ OnCourse(c))'
  PROVE  AloneInv'
BY DEF AloneInv, Quiet

(* set() by itself: it writes at once when there is room.                  *)
LEMMA ListOnCourse ==
  ASSUME Typed, AloneInv, NEW c \in Callers, List(c), alone[c]
  PROVE  (Quiet(c) /\ KeepsFiles(c) /\ OnCourse(c))'
<1>1. /\ Quiet(c) /\ KeepsFiles(c) /\ file = before[c] /\ listed[c] = {}
      /\ file' = file /\ before' = before /\ key' = key /\ doing[c] = "list"
  BY DEF List, AloneInv, OnCourse, Continue
<1>2. Quiet(c)' /\ KeepsFiles(c)'
  BY <1>1 DEF List, Go, Typed, TypeOK, Quiet, KeepsFiles, Held
<1>3. CASE doing'[c] = "write"
  <2>1. listed'[c] = {} /\ Cardinality(Held \cup {key[c]}) <= MaxEntries
    BY <1>1, <1>3 DEF List, Go, Typed, TypeOK
  <2>2. Gone(c)' = {} /\ DOMAIN before[c] = Held
    BY <1>1, <2>1 DEF Gone, Held
  <2>3. Evicts(c)'
    BY <1>1, <2>1, <2>2 DEF Evicts
  <2> QED BY <1>2, <1>3, <2>1, <2>3 DEF OnCourse
<1>4. CASE doing'[c] # "write"
  <2>1. doing'[c] = "rank" /\ listed'[c] = Held
    BY <1>1, <1>4 DEF List, Go, Typed, TypeOK
  <2> QED BY <1>1, <1>2, <2>1 DEF OnCourse, Held
<1> QED BY <1>3, <1>4

(* evictIfNeeded() by itself ranks what is there.                          *)
LEMMA RankOnCourse ==
  ASSUME Typed, AloneInv, NEW c \in Callers, Rank(c), alone[c]
  PROVE  (Quiet(c) /\ KeepsFiles(c) /\ OnCourse(c))'
<1>1. /\ Quiet(c) /\ KeepsFiles(c) /\ file = before[c] /\ listed[c] = Held
      /\ file' = file /\ before' = before /\ key' = key /\ asOf' = asOf
      /\ doing[c] = "rank"
  BY DEF Rank, AloneInv, OnCourse, Continue
<1>2. PICK gone \in SUBSET (Held \ {key[c]}) :
        /\ \/ Cardinality(gone) = Surplus(c, Held)
           \/ gone = Held \ {key[c]} /\ Cardinality(gone) < Surplus(c, Held)
        /\ \A j \in gone, k \in (Held \ {key[c]}) \ gone :
             RankedBefore(Meta(j), Meta(k), asOf[c])
        /\ listed' = [listed EXCEPT ![c] = gone]
        /\ Go(c, IF gone = {} THEN "write" ELSE "remove")
  BY <1>1 DEF Rank
<1>3. listed'[c] = gone /\ doing'[c] = (IF gone = {} THEN "write" ELSE "remove")
  BY <1>2 DEF Go, Typed, TypeOK
<1>4. Quiet(c)' /\ KeepsFiles(c)'
  BY <1>1, <1>2 DEF Go, Typed, TypeOK, Quiet, KeepsFiles, Held
<1>5. Gone(c)' = gone /\ DOMAIN before[c] = Held
  BY <1>1, <1>3 DEF Gone, Held
<1>6. Cardinality((Held \cup {key[c]}) \ gone) = MaxEntries
  BY <1>2, RankLeavesRoom DEF Typed, TypeOK, Held
<1>7. \A j \in gone, k \in (Held \ {key[c]}) \ gone :
        RankedBefore(before[c][j], before[c][k], asOf[c])
  BY <1>1, <1>2 DEF Meta
<1>8. Evicts(c)'
  BY <1>1, <1>2, <1>3, <1>5, <1>6, <1>7 DEF Evicts
<1> QED BY <1>3, <1>4, <1>8 DEF OnCourse

(* A file that is removed was ranked off.                                  *)
LEMMA RemoveOnCourse ==
  ASSUME Typed, AloneInv, NEW c \in Callers, Remove(c), alone[c]
  PROVE  (Quiet(c) /\ KeepsFiles(c) /\ OnCourse(c))'
<1>1. /\ Quiet(c) /\ KeepsFiles(c) /\ Evicts(c) /\ before' = before /\ key' = key
      /\ asOf' = asOf /\ doing[c] = "remove"
  BY DEF Remove, AloneInv, OnCourse, Continue
<1>2. PICK k \in listed[c] : /\ file' = Without(k)
                             /\ listed' = [listed EXCEPT ![c] = @ \ {k}]
                             /\ Go(c, IF listed[c] = {k} THEN "write" ELSE "remove")
  BY DEF Remove
<1>3. /\ listed'[c] = listed[c] \ {k}
      /\ doing'[c] = (IF listed[c] = {k} THEN "write" ELSE "remove")
      /\ Held' = Held \ {k} /\ \A j \in Held' : file'[j] = file[j]
  BY <1>2 DEF Go, Typed, TypeOK, Without, Held
<1>4. Quiet(c)'
  BY <1>1, <1>2, <1>3 DEF Go, Typed, TypeOK, Quiet
<1>5. KeepsFiles(c)'
  BY <1>1, <1>3 DEF KeepsFiles
<1>6. Gone(c)' = Gone(c)
  BY <1>1, <1>2, <1>3 DEF Gone, Evicts
<1>7. Evicts(c)'
  BY <1>1, <1>3, <1>6 DEF Evicts
<1> QED BY <1>3, <1>4, <1>5, <1>7 DEF OnCourse

LEMMA NextAlone == Typed /\ AloneInv /\ [Next]_vars => AloneInv'
<1> SUFFICES ASSUME Typed, AloneInv, [Next]_vars PROVE AloneInv'
  OBVIOUS
<1>1. ASSUME UNCHANGED <<file, doing, local, alone, before>> PROVE AloneInv'
  BY <1>1 DEF local, AloneInv, Quiet, KeepsFiles, OnCourse, Evicts, Gone, Held
<1>2. CASE Crash
  BY <1>2 DEF Crash, AloneInv
<1>3. ASSUME NEW c \in Callers, Operate(c) PROVE AloneInv'
  <2>1. ASSUME NEW k \in Keys, NEW step \in {"drop", "touch", "list"}, Begin(c), Go(c, step),
               UNCHANGED <<file, listed>>,
               step = "touch" => /\ key'[c] \in Held /\ Good(file[key'[c]], entry'[c].used)
                                 /\ entry'[c] = [file[key'[c]] EXCEPT !.used = entry'[c].used],
               step = "list" => listed[c] = {}
        PROVE  AloneInv'
    <3>1. /\ \A d \in Callers : alone'[d] => d = c /\ \A e \in Callers \ {c} : doing[e] = "idle"
          /\ alone'[c] => before'[c] = file
      BY <2>1 DEF Begin
    <3>2. alone'[c] => Quiet(c)'
      BY <2>1, <3>1 DEF Go, Typed, TypeOK, Quiet
    <3>3. alone'[c] => KeepsFiles(c)'
      BY <2>1, <3>1 DEF KeepsFiles, Held
    <3>4. alone'[c] => OnCourse(c)'
      BY <2>1, <3>1 DEF Go, Typed, TypeOK, OnCourse, Held
    <3> QED BY <3>1, <3>2, <3>3, <3>4 DEF AloneInv
  <2>2. ASSUME doing[c] # "idle", alone' = [alone EXCEPT ![c] = FALSE] PROVE AloneInv'
    BY <2>2, OnlyTheCallerIsAlone DEF Typed, TypeOK
  <2>3. CASE List(c) \/ Rank(c) \/ Remove(c)
    <3>1. doing[c] # "idle" /\ alone' = alone
      BY <2>3 DEF List, Rank, Remove, Continue
    <3> QED BY <2>3, <3>1, OnlyTheCallerIsAlone, ListOnCourse, RankOnCourse, RemoveOnCourse
  <2>4. CASE Drop(c) \/ Write(c) \/ Fail(c)
    BY <2>2, <2>4 DEF Drop, Write, Fail, End
  <2>5. ASSUME NEW k \in Keys, \/ GetMisses(c, k) \/ GetRefuses(c, k) \/ GetFinds(c, k)
                               \/ Delete(c, k) \/ Set(c, k)
        PROVE  AloneInv'
    <3>1. CASE GetMisses(c, k)
      BY <1>1, <3>1 DEF GetMisses, vars, local
    <3>2. CASE GetRefuses(c, k) \/ Delete(c, k)
      BY <2>1, <3>2 DEF GetRefuses, Delete
    <3>3. CASE GetFinds(c, k)
      <4>1. key'[c] = k /\ entry'[c] = [file[k] EXCEPT !.used = clock] /\ k \in Held
        BY <3>3 DEF GetFinds, Typed, TypeOK
      <4>2. file[k] \in Envelope /\ Good(file[k], clock)
        BY <3>3 DEF GetFinds, Good, Typed, TypeOK, Held, Corrupt
      <4>3. entry'[c].used = clock
        BY <4>1, <4>2 DEF Envelope
      <4> QED BY <2>1, <3>3, <4>1, <4>2, <4>3 DEF GetFinds
    <3>4. CASE Set(c, k)
      <4>1. listed[c] = {}
        BY <3>4 DEF Set, Begin, Typed, IdleOrKeyed
      <4> QED BY <2>1, <3>4, <4>1 DEF Set
    <3> QED BY <2>5, <3>1, <3>2, <3>3, <3>4
  <2> QED BY <1>3, <2>3, <2>4, <2>5 DEF Operate
<1> QED BY <1>1, <1>2, <1>3 DEF Next, vars, Tick, local

(* What alone operations leave. *)
LEMMA AloneSetIsAsPromised ==
  ASSUME Typed, AloneInv, NEW c \in Callers, alone[c], Write(c), doing[c] = "write"
  PROVE  SetAsPromised(before[c], key[c], entry[c], asOf[c], file')
<1> DEFINE old == before[c]
<1>1. KeepsFiles(c) /\ Evicts(c) /\ listed[c] = {}
  BY DEF AloneInv, OnCourse
<1>2. /\ DOMAIN file' = Held \cup {key[c]} /\ file'[key[c]] = entry[c]
      /\ \A j \in Held \ {key[c]} : file'[j] = file[j]
  BY DEF Write, With
<1>3. Gone(c) = (DOMAIN old) \ DOMAIN file'
  BY <1>1, <1>2 DEF Gone, Evicts
<1>4. DOMAIN file' = ((DOMAIN old) \cup {key[c]}) \ Gone(c)
  BY <1>1, <1>2, <1>3 DEF Evicts, KeepsFiles
<1>5. \A j \in (DOMAIN file') \ {key[c]} : j \in DOMAIN old /\ file'[j] = old[j]
  BY <1>1, <1>2 DEF KeepsFiles
<1>6. \A j \in Gone(c), g \in (DOMAIN file') \ {key[c]} :
        old[j].due <= asOf[c] \/ (old[g].due > asOf[c] /\ old[j].used <= old[g].used)
  <2> SUFFICES ASSUME NEW j \in Gone(c), NEW g \in (DOMAIN file') \ {key[c]}
               PROVE  old[j].due <= asOf[c] \/ (old[g].due > asOf[c] /\ old[j].used <= old[g].used)
    OBVIOUS
  <2>1. RankedBefore(old[j], old[g], asOf[c])
    BY <1>1, <1>4 DEF Evicts
  <2>2. old[g].due \in Int /\ asOf[c] \in Int
    <3>1. old[g] = file[g] /\ g \in Held
      BY <1>1, <1>2 DEF KeepsFiles
    <3> QED BY <3>1 DEF Typed, TypeOK, Envelope, Corrupt, Times, Held
  <2> QED BY <2>1, <2>2 DEF RankedBefore
<1> QED BY <1>1, <1>2, <1>3, <1>4, <1>5, <1>6 DEF SetAsPromised, Evicts

(* An operation that ran by itself, without a fault, did what the cache
   promises: a set leaves its report, restores the limit and removes no more
   than it must, dead entries first and then the ones used least recently; a
   get touches only its own file (reportRepository.ts:126-183, 185-240).   *)
THEOREM AloneIsAtomicHolds == Spec => AloneIsAtomic
<1>1. Typed /\ AloneInv /\ [Next]_vars =>
        [\A c \in Callers : alone[c] =>
           /\ Write(c) /\ doing[c] = "write" =>
                SetAsPromised(before[c], key[c], entry[c], asOf[c], file')
           /\ Write(c) /\ doing[c] = "touch" =>
                /\ Good(before[c][key[c]], entry[c].used)
                /\ file' = [before[c] EXCEPT ![key[c]].used = entry[c].used]
           /\ Drop(c) => file' = [j \in (DOMAIN before[c]) \ {key[c]} |-> before[c][j]]]_vars
  <2> SUFFICES ASSUME Typed, AloneInv, NEW c \in Callers, alone[c]
               PROVE  /\ Write(c) /\ doing[c] = "write" =>
                           SetAsPromised(before[c], key[c], entry[c], asOf[c], file')
                      /\ Write(c) /\ doing[c] = "touch" =>
                           /\ Good(before[c][key[c]], entry[c].used)
                           /\ file' = [before[c] EXCEPT ![key[c]].used = entry[c].used]
                      /\ Drop(c) =>
                           file' = [j \in (DOMAIN before[c]) \ {key[c]} |-> before[c][j]]
    OBVIOUS
  <2>1. ASSUME Write(c), doing[c] = "touch"
        PROVE  /\ Good(before[c][key[c]], entry[c].used)
               /\ file' = [before[c] EXCEPT ![key[c]].used = entry[c].used]
    <3>1. /\ file = before[c] /\ key[c] \in Held /\ Good(file[key[c]], entry[c].used)
          /\ entry[c] = [file[key[c]] EXCEPT !.used = entry[c].used]
      BY <2>1 DEF AloneInv, OnCourse
    <3>2. Held \cup {key[c]} = Held
      BY <3>1
    <3>3. file' = [j \in Held |-> IF j = key[c] THEN entry[c] ELSE file[j]]
      BY <2>1, <3>2 DEF Write, With
    <3>4. file = [k \in Held |-> file[k]]
      BY DEF Typed, FoldersAreMaps
    <3>5. [file EXCEPT ![key[c]].used = entry[c].used]
            = [j \in Held |-> IF j = key[c] THEN [file[key[c]] EXCEPT !.used = entry[c].used]
                                           ELSE file[j]]
      BY <3>1, <3>4 DEF Held
    <3> QED BY <3>1, <3>3, <3>5
  <2>2. ASSUME Drop(c)
        PROVE  file' = [j \in (DOMAIN before[c]) \ {key[c]} |-> before[c][j]]
    BY <2>2 DEF Drop, Without, AloneInv, OnCourse, Held
  <2> QED BY <2>1, <2>2, AloneSetIsAsPromised
<1> QED BY InitTyped, NextTyped, InitAlone, NextAlone, <1>1, PTL DEF Spec, AloneIsAtomic

=============================================================================
