---------------------------- MODULE MCLifecycle ----------------------------
(* DTXLifecycle with the bounds of its configurations. *)
EXTENDS DTXLifecycle

\* At least one queue element, so that the loops have something to do.
ASSUME MaxQueued > 0

=============================================================================
