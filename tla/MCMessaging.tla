---------------------------- MODULE MCMessaging ----------------------------
(* DTXMessaging on small instances: the sets that the configurations use. *)
EXTENDS DTXMessaging, TLC

Symmetry == Permutations(Callers)

ControlChannel == {0}
NegativeCodes == {-1}

=============================================================================
