--------------------------- MODULE ResourceStore ---------------------------
(* What SystemResources promises to the scene and to the renderer, without *)
(* the recursion, the metadata and the factories: a set of identifiers that *)
(* are ready, each of which became ready only when everything it needs was. *)
CONSTANTS Ids,         \* resource identifiers (strid / u64)
          AppIds,      \* identifiers the application may hand a resource to
          Unloadable   \* identifiers the application may unload

VARIABLES needs,  \* needs[id]: what must be ready before id is built
          ready   \* the identifiers whose handle answers is_loaded()

vars == <<needs, ready>>

Init == /\ needs = [id \in Ids |-> {}]
        /\ ready = {}

(* The registry is read before anything is ready. *)
Configure == /\ ready = {}
             /\ needs' \in [Ids -> SUBSET Ids]
             /\ UNCHANGED ready

Build(id) == /\ id \notin ready
             /\ needs[id] \subseteq ready
             /\ ready' = ready \cup {id}
             /\ UNCHANGED needs

Adopt(id) == /\ id \in AppIds
             /\ ready' = ready \cup {id}
             /\ UNCHANGED needs

Evict(id) == /\ id \in Unloadable
             /\ ready' = ready \ {id}
             /\ UNCHANGED needs

Next == Configure \/ \E id \in Ids : Build(id) \/ Adopt(id) \/ Evict(id)

Spec == Init /\ [][Next]_vars
=============================================================================
