-------------------------------- MODULE Feed --------------------------------
(***************************************************************************)
(* What the watcher promises to onServicesChanged, without how it does so: *)
(* a cache that changes at any time, flushes that copy it and deliver the  *)
(* copy later, and, as long as the watcher runs, no end to the copies      *)
(* before one of them has the last change. Watcher implements it.          *)
(***************************************************************************)
CONSTANTS
    Snapshots,   \* the possible contents of the cache
    Flushes,     \* the flushes that may be under way at a time
    None         \* nothing held

VARIABLES
    cache,      \* what the watcher knows
    taken,      \* the copy that was taken last
    held,       \* per flush, the copy it has taken and not yet delivered
    published   \* the copy that was delivered last

vars == <<cache, taken, held, published>>

\* A watcher starts with what the persisted routes were made of.
Init ==
    /\ cache \in Snapshots
    /\ taken = cache
    /\ held = [f \in Flushes |-> None]
    /\ published = cache

Change ==
    /\ cache' \in Snapshots
    /\ UNCHANGED <<taken, held, published>>

Take(f) ==
    /\ held[f] = None
    /\ held' = [held EXCEPT ![f] = cache]
    /\ taken' = cache
    /\ UNCHANGED <<cache, published>>

Deliver(f) ==
    /\ held[f] # None
    /\ published' = held[f]
    /\ held' = [held EXCEPT ![f] = None]
    /\ UNCHANGED <<cache, taken>>

Next == Change \/ \E f \in Flushes : Take(f) \/ Deliver(f)

Spec == Init /\ [][Next]_vars

TakeChange == cache # taken /\ \E f \in Flushes : Take(f)

\* A change is not left out for ever, and a copy that was taken is delivered.
Fairness == WF_vars(TakeChange) /\ \A f \in Flushes : WF_vars(Deliver(f))
=============================================================================
