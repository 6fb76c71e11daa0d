------------------------------ MODULE LruCache ------------------------------
(***************************************************************************)
(* What services/ttlCache.ts promises in its opening comment (lines 1-20): *)
(* a bounded table from keys to values that die at a given instant, where  *)
(* a full table makes room by dropping an expired entry if there is one    *)
(* and else the entry that has gone unused the longest.  The use order is  *)
(* a relation here; the module says nothing of how it is kept.             *)
(***************************************************************************)
EXTENDS Naturals, FiniteSets

CONSTANTS Keys, Values,
          MaxEntries,  \* options.maxEntries
          Horizon      \* bound on the clock

VARIABLES clock,
          table,  \* the entries, by key
          newer,  \* <<j, k>>: j was used after k
          reply   \* what the last lookup returned

lruVars == <<clock, table, newer, reply>>

Entry == [value : Values, expires : 0 .. Horizon]
Miss == [value |-> "undefined", expires |-> 0]

Held == DOMAIN table
Live(k) == table[k].expires > clock

LruInit == /\ clock = 0
           /\ table = [k \in {} |-> Miss]
           /\ newer = {}
           /\ reply = Miss

(* The table becomes t.                                                    *)
Become(t) == table' = t /\ newer' = {p \in newer : p[1] \in DOMAIN t /\ p[2] \in DOMAIN t}

(* The table becomes t and k, one of its keys, the last used.              *)
BecomeUsing(t, k) ==
  /\ table' = t
  /\ newer' = {p \in newer : {p[1], p[2]} \subseteq DOMAIN t \ {k}}
                \cup ({k} \X (DOMAIN t \ {k}))

Without(ks) == [k \in Held \ ks |-> table[k]]

(* A lookup returns the live entry of the key and counts as its use ...    *)
Hit(k) == /\ k \in Held /\ Live(k)
          /\ BecomeUsing(table, k)
          /\ reply' = table[k]
          /\ UNCHANGED clock

(* ... or nothing, and may drop an expired entry.                          *)
NoHit(k) == /\ k \in Held => ~Live(k)
            /\ Become(table) \/ Become(Without({k}))
            /\ reply' = Miss
            /\ UNCHANGED clock

(* The keys that may be dropped to make room for another.                  *)
Victims == IF \E k \in Held : ~Live(k) THEN {k \in Held : ~Live(k)}
           ELSE {k \in Held : \A j \in Held \ {k} : <<j, k>> \in newer}

Put(k, entry, gone) ==
  /\ IF k \in Held \/ Cardinality(Held) < MaxEntries THEN gone = {}
     ELSE \E victim \in Victims : gone = {victim}
  /\ BecomeUsing([j \in (Held \ gone) \cup {k} |-> IF j = k THEN entry ELSE table[j]], k)
  /\ UNCHANGED <<clock, reply>>

Discard(ks) == Become(Without(ks)) /\ UNCHANGED <<clock, reply>>

Tick == clock < Horizon /\ clock' = clock + 1 /\ UNCHANGED <<table, newer, reply>>

LruNext == \/ Tick
           \/ Discard(Keys)
           \/ \E k \in Keys : \/ Hit(k) \/ NoHit(k) \/ Discard({k})
                              \/ \E entry \in Entry, gone \in {{}} \cup {{j} : j \in Held} :
                                   Put(k, entry, gone)

LruSpec == LruInit /\ [][LruNext]_lruVars

=============================================================================
