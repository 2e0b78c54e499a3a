---------------------------- MODULE AtomicStore ----------------------------
(***************************************************************************)
(* What the state store promises its callers (spec 4.3, commit()): writes  *)
(* accumulate in the current state; a commit makes the current state the  *)
(* durable one in a single step; a crash loses everything not committed    *)
(* and restarts from the durable state.  Nothing about locks, versions,    *)
(* the CacheDB or the order of Save and flush.                             *)
(***************************************************************************)
CONSTANTS
    Keys,     \* keys of the tree
    Values,   \* values a key may hold, the absent value included
    Genesis,  \* the genesis state
    NoTree    \* nothing committed yet

VARIABLES
    status,   \* "none" before genesis, "up" after
    current,  \* the state readers and the next commit see
    durable   \* the last committed state

Init ==
    /\ status = "none"
    /\ durable = NoTree

MakeGenesis ==
    /\ status = "none"
    /\ status' = "up"
    /\ current' = Genesis
    /\ durable' = Genesis

Write ==
    /\ status = "up"
    /\ \E k \in Keys, v \in Values : current' = [current EXCEPT ![k] = v]
    /\ UNCHANGED <<status, durable>>

Commit ==
    /\ status = "up"
    /\ durable' = current
    /\ UNCHANGED <<status, current>>

Crash ==
    /\ status = "up"
    /\ current' = durable
    /\ UNCHANGED <<status, durable>>

Next == MakeGenesis \/ Write \/ Commit \/ Crash

Spec == Init /\ [][Next]_<<status, current, durable>>
=============================================================================
