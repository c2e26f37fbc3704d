-------------------------------- MODULE Cache --------------------------------
(***************************************************************************)
(* What a cache promises: a hit returns the value stored last, a value     *)
(* just stored is a hit, and what was dropped is never back by itself.     *)
(***************************************************************************)

CONSTANTS CacheKeys, CacheValues

VARIABLES
    latest,   \* the value stored last for each key
    content   \* the keys that hit, with the value they return

cacheVars == <<latest, content>>

Init ==
    /\ latest \in [CacheKeys -> CacheValues]
    /\ content = <<>>

\* Keys are dropped at any time, all of them by clearCache.
Dropped(before, after) ==
    /\ DOMAIN after \subseteq DOMAIN before
    /\ \A k \in DOMAIN after : after[k] = before[k]

\* A cache that is full drops other keys than the one it stores.
Stored(k, values, before, after) ==
    /\ k \in DOMAIN after
    /\ DOMAIN after \subseteq DOMAIN before \cup {k}
    /\ \A j \in DOMAIN after : after[j] = values[j]

Drop == Dropped(content, content') /\ UNCHANGED latest

Store(k) ==
    /\ \E v \in CacheValues : latest' = [latest EXCEPT ![k] = v]
    /\ Stored(k, latest', content, content')

Next == Drop \/ \E k \in CacheKeys : Store(k)

Spec == Init /\ [][Next]_cacheVars
=============================================================================
