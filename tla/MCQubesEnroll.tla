---------------------------- MODULE MCQubesEnroll ----------------------------
(***************************************************************************)
(* A small instance of QubesEnroll: two client binaries with different     *)
(* baked keys; passphrases that fit, that are too short, and that are too  *)
(* long for a byte; headers with and without an older keyfile, or full.    *)
(* --kill-slot names the older keyfile's slot or one that LUKS2 has not.   *)
(***************************************************************************)
EXTENDS QubesEnroll, TLC

CONSTANTS a1, a2, k1, k2, luks, fresh, short, long, r1

MCApps == {a1, a2}
MCKeys == {k1, k2}
MCBakedKey == (a1 :> k1) @@ (a2 :> k2)
MCPass == {luks, fresh, short, long}
MCPassLen == (luks :> 20) @@ (fresh :> 8) @@ (short :> 7) @@ (long :> 300)
MCEnrolled == {<<a1, fresh>>}
MCRand == {r1}
MCSlots == 0 .. 2
MCSlotArgs == {1, 32}

Old == Blake2s(a1, Argon2(fresh))

MCHeaders ==
    {(0 :> Text(luks)) @@ (1 :> k) @@ (2 :> Empty) : k \in {Empty, Old}}
        \cup {(0 :> Text(long)) @@ (1 :> Old) @@ (2 :> Old)}

=============================================================================
