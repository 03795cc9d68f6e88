---------------------------- MODULE EventDelivery ----------------------------
(***************************************************************************)
(* What the event bus and a batching consumer promise together, as one     *)
(* would explain it to a service that publishes: an event is accepted at   *)
(* most once, from then on it is in somebody's charge, and it leaves that  *)
(* charge once and for good: with a batch that is stored, with a batch     *)
(* that is refused (the server is stopping or the database may fail), or   *)
(* given up on its own (only when the server is stopping).  An event that  *)
(* was never accepted has no effect.                                       *)
(***************************************************************************)
CONSTANTS
    Events,
    MayFail     \* TRUE: the database may refuse a batch

VARIABLES
    charge,     \* accepted events whose fate is open
    stored,
    refused,
    abandoned,
    stopping

vars == <<charge, stored, refused, abandoned, stopping>>

Init ==
    /\ charge = {}
    /\ stored = {}
    /\ refused = {}
    /\ abandoned = {}
    /\ stopping = FALSE

Accept(e) ==
    /\ e \notin charge \cup stored \cup refused \cup abandoned
    /\ charge' = charge \cup {e}
    /\ UNCHANGED <<stored, refused, abandoned, stopping>>

Store(batch) ==
    /\ charge' = charge \ batch
    /\ stored' = stored \cup batch
    /\ UNCHANGED <<refused, abandoned, stopping>>

Refuse(batch) ==
    /\ stopping \/ MayFail
    /\ charge' = charge \ batch
    /\ refused' = refused \cup batch
    /\ UNCHANGED <<stored, abandoned, stopping>>

Abandon(e) ==
    /\ stopping
    /\ charge' = charge \ {e}
    /\ abandoned' = abandoned \cup {e}
    /\ UNCHANGED <<stored, refused, stopping>>

Stop ==
    /\ ~stopping
    /\ stopping' = TRUE
    /\ UNCHANGED <<charge, stored, refused, abandoned>>

Next ==
    \/ \E e \in Events : Accept(e)
    \/ \E batch \in SUBSET charge : Store(batch) \/ Refuse(batch)
    \/ \E e \in charge : Abandon(e)
    \/ Stop

Spec == Init /\ [][Next]_vars

=============================================================================
