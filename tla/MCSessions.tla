---------------------------- MODULE MCSessions ----------------------------
(* DTXSessions on small instances: the sets that the configurations use. *)
EXTENDS DTXSessions, TLC

ControlChannel == {0}

=============================================================================
