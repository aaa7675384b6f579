----------------------------- MODULE KeyedMutex -----------------------------
(***************************************************************************)
(* What package keylock promises its callers: one mutex per key.  A        *)
(* goroutine asks for a key, is admitted when nobody is inside that key,   *)
(* and leaves.  Nothing here knows of maps, reference counts or cleaning.  *)
(* Module KeyLock, the code, is shown to implement this specification.     *)
(***************************************************************************)
CONSTANTS Goroutines, Keys, NoKey

VARIABLES
    want,    \* want[g]: the key goroutine g asked for and has not left, or NoKey
    inside   \* the goroutines admitted to the key they asked for

avars == <<want, inside>>

AInit == /\ want = [g \in Goroutines |-> NoKey]
         /\ inside = {}

Ask(g, k) == /\ want[g] = NoKey
             /\ want' = [want EXCEPT ![g] = k]
             /\ UNCHANGED inside

Enter(g) == /\ want[g] # NoKey
            /\ g \notin inside
            /\ \A h \in inside : want[h] # want[g]
            /\ inside' = inside \cup {g}
            /\ UNCHANGED want

Leave(g) == /\ g \in inside
            /\ inside' = inside \ {g}
            /\ want' = [want EXCEPT ![g] = NoKey]

ANext == \E g \in Goroutines : (\E k \in Keys : Ask(g, k)) \/ Enter(g) \/ Leave(g)

ASpec == AInit /\ [][ANext]_avars
=============================================================================
