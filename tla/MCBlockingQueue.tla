-------------------------- MODULE MCBlockingQueue --------------------------
(* BlockingQueue on small instances: who uses which operations. *)
EXTENDS BlockingQueue, TLC

CONSTANTS p1, p2, c1, c2, v1, v2

Everyone == {p1, p2, c1, c2}
Elements == {v1, v2}

\* Every operation at once: two producers that clear the queue as well, a
\* consumer that blocks and one that polls.
AllRoles ==
  p1 :> {"push", "clear"} @@ p2 :> {"push", "destroy", "empty"}
  @@ c1 :> {"take"} @@ c2 :> {"poll"}

\* The queues of DTXConnection: several producers and one thread that polls.
PollerRoles ==
  p1 :> {"push"} @@ p2 :> {"push", "empty"} @@ c1 :> {"poll"} @@ c2 :> {}

Programs == {AllRoles, PollerRoles}

=============================================================================
