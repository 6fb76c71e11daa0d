------------------------------ MODULE TtlCache ------------------------------
(***************************************************************************)
(* services/ttlCache.ts: the in-memory report cache of the server.  All of *)
(* it is synchronous, so each operation is one step.  The JavaScript Map   *)
(* `store` iterates over its keys in insertion order; it is the pair of    *)
(* `order`, its keys in that order, and `entry`, what it maps them to.     *)
(***************************************************************************)
EXTENDS Naturals, SequencesExt

CONSTANTS Keys, Values, MaxEntries, Horizon

ASSUME StoreConstants == MaxEntries \in Nat \ {0} /\ Horizon \in Nat

VARIABLES clock, order, entry,
          reply  \* what the last get, getWithMeta or has returned

vars == <<clock, order, entry, reply>>

CacheEntry == [value : Values, expires : 0 .. Horizon]
Undefined == [value |-> "undefined", expires |-> 0]

(* The Map holds each key once, and never more than maxEntries of them.    *)
TypeOK == /\ clock \in 0 .. Horizon
          /\ order \in Seq(Keys) /\ IsInjective(order)
          /\ entry \in [ToSet(order) -> CacheEntry]
          /\ reply \in CacheEntry \cup {Undefined}
          /\ Len(order) <= MaxEntries

Init == /\ clock = 0
        /\ order = <<>>
        /\ entry = [k \in {} |-> Undefined]
        /\ reply = Undefined

Store(o, e) == order' = o /\ entry' = [k \in ToSet(o) |-> e[k]]

(* Faulty variant: an entry lives through the instant of its expiry.       *)
IsExpiredLate(k) == entry[k].expires < clock

IsExpired(k) == entry[k].expires <= clock

(* Map.delete(k), which does nothing for an absent key.                    *)
Delete(k) == /\ Store(RemoveFirst(order, k), entry)
             /\ UNCHANGED <<clock, reply>>

Clear == Store(<<>>, entry) /\ UNCHANGED <<clock, reply>>

(* readFresh(k), the lookup of get, getWithMeta and has: an expired entry  *)
(* is deleted, a fresh one is re-inserted at the tail.                     *)
ReadFresh(k) ==
  /\ \/ /\ k \notin ToSet(order)
        /\ reply' = Undefined
        /\ UNCHANGED <<order, entry>>
     \/ /\ k \in ToSet(order) /\ IsExpired(k)
        /\ reply' = Undefined
        /\ Store(RemoveFirst(order, k), entry)
     \/ /\ k \in ToSet(order) /\ ~IsExpired(k)
        /\ reply' = entry[k]
        /\ Store(Append(RemoveFirst(order, k), k), entry)
  /\ UNCHANGED clock

(* evictOne(): the first expired key in iteration order, else the head.    *)
EvictOne(o) == LET dead == {i \in DOMAIN o : IsExpired(o[i])}
               IN  RemoveAt(o, IF dead = {} THEN 1 ELSE Min(dead))

(* set(): with at most maxEntries keys in the store, the loop of line 113  *)
(* runs once at most.  The caller may pass any expiry; the default is the  *)
(* clock plus the time to live.                                            *)
Set(k, value, expires) ==
  LET others == RemoveFirst(order, k)
      kept == IF Len(others) >= MaxEntries THEN EvictOne(others) ELSE others
      new == [value |-> value, expires |-> expires]
  IN  /\ Store(Append(kept, k), [j \in ToSet(order) \cup {k} |-> 
                                   IF j = k THEN new ELSE entry[j]])
      /\ UNCHANGED <<clock, reply>>

Tick == clock < Horizon /\ clock' = clock + 1 /\ UNCHANGED <<order, entry, reply>>

Next == \/ Tick \/ Clear
        \/ \E k \in Keys : \/ Delete(k) \/ ReadFresh(k)
                           \/ \E value \in Values, expires \in 0 .. Horizon :
                                Set(k, value, expires)

Spec == Init /\ [][Next]_vars

-----------------------------------------------------------------------------

(* A key that stands later in the Map was used later.                      *)
Places == DOMAIN order
Newer == {<<order[p[1]], order[p[2]]>> : p \in {q \in Places \X Places : q[1] > q[2]}}

Lru == INSTANCE LruCache WITH table <- entry, newer <- Newer

(* The cache does what its comment promises: whatever the sequence of      *)
(* calls, expiries and equal keys, a lookup returns the last live value    *)
(* set, and a full cache sacrifices an expired entry first and else the    *)
(* least recently used one, with no use counted twice or lost              *)
(* (ttlCache.ts:8-16, 68-130).                                             *)
ImplementsLru == Lru!LruSpec

=============================================================================
