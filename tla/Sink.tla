--------------------------------- MODULE Sink ---------------------------------
(***************************************************************************)
(* What the receiver's storage path promises: every item taken in is handed*)
(* to the storage backend at most once, and nothing else is.               *)
(***************************************************************************)
CONSTANT Item

VARIABLES
    accepted,  \* items taken in from acknowledged datagrams
    stored,    \* items the backend wrote
    failed     \* items of a write the backend refused (logged, not retried)

Init == accepted = {} /\ stored = {} /\ failed = {}

Accept ==
    /\ accepted \subseteq accepted' /\ accepted' \in SUBSET Item
    /\ UNCHANGED <<stored, failed>>

Owed == accepted \ (stored \cup failed)

Write ==
    /\ \E S \in SUBSET Owed :
         \/ stored' = stored \cup S /\ failed' = failed
         \/ failed' = failed \cup S /\ stored' = stored
    /\ UNCHANGED accepted

Next == Accept \/ Write
Spec == Init /\ [][Next]_<<accepted, stored, failed>>
===============================================================================
