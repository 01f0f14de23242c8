--------------------------- MODULE MCProvisioning ---------------------------
(***************************************************************************)
(* A small instance of Provisioning: three keyslots, room for three runs   *)
(* and one more after each of two faults, and one update.                  *)
(***************************************************************************)
EXTENDS Provisioning

MCSlots == 0 .. 2
MCSlotArgs == {0, 1, 32, 33}

=============================================================================
