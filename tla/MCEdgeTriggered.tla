--------------------------- MODULE MCEdgeTriggered ---------------------------
(***************************************************************************)
(* A small instance of EdgeTriggered.                                      *)
(***************************************************************************)
EXTENDS EdgeTriggered

CONSTANTS a, b

\* one cluster or both
SmallSpecs == {<<a>>, <<b, a>>}

\* all ready, all there but one not ready, none there
SmallStarts ==
    {[c \in Cluster |-> "ready"],
     [c \in Cluster |-> IF c = a THEN "notready" ELSE "ready"],
     [c \in Cluster |-> "absent"]}

=============================================================================
