------------------------------ MODULE Topology ------------------------------
(***************************************************************************)
(* The covers of one remote and how their channel sets nest                *)
(* (config_models.py, coordinator.py).  The configuration admits only      *)
(* disjoint or strictly nested channel sets; a cover with another one      *)
(* inside it is an aggregate and owns no position of its own.              *)
(***************************************************************************)

CONSTANTS Cover,   \* the configured covers of the remote
          Channel, \* the motor channels
          Chan     \* the channels of a cover

\* laminar_conflict returns None
Admissible(new, existing) ==
  \A other \in existing :
    new # other /\ (new \cap other # {} => new \subseteq other \/ other \subseteq new)

Laminar == \A x, y \in Cover : x # y => Admissible(Chan[x], {Chan[y]})

ASSUME TopologyAssumption ==
  /\ Chan \in [Cover -> (SUBSET Channel) \ {{}}]
  /\ Laminar

StrictlyInside(x, y) == Chan[x] \subseteq Chan[y] /\ Chan[x] # Chan[y]

\* derive_role
Aggregate == {x \in Cover : \E y \in Cover : StrictlyInside(y, x)}

Leaf == Cover \ Aggregate

\* member_covers
Members(x) == {l \in Leaf : StrictlyInside(l, x)}

\* The channels of an aggregate that a configured cover models
\* (_modelled_channels): entry data, whether its entity lives or not.
Modelled(x) == UNION {Chan[l] : l \in Members(x)}

\* A frame to these channels moves, or may move, these covers.
Addressed(S) == {x \in Cover : Chan[x] \cap S # {}}
=============================================================================
