---------------------------- MODULE MCLinuxEnroll ----------------------------
(***************************************************************************)
(* A small instance of LinuxEnroll: two client binaries with different     *)
(* baked keys, and a header of three keyslots that is found with the       *)
(* user's passphrase alone, with an older keyfile beside it, or full.      *)
(***************************************************************************)
EXTENDS LinuxEnroll, TLC

CONSTANTS a1, a2, k1, k2, luks, fresh, short, r1

MCApps == {a1, a2}
MCKeys == {k1, k2}
MCBakedKey == (a1 :> k1) @@ (a2 :> k2)
MCPass == {luks, fresh, short}
MCPassLen == (luks :> 20) @@ (fresh :> 8) @@ (short :> 7)
MCEnrolled == {<<a1, fresh>>}
MCRand == {r1}
MCSlots == 0 .. 2

Old == Blake2s(a1, Argon2(fresh))

MCHeaders ==
    {(0 :> Text(luks)) @@ (1 :> k) @@ (2 :> Empty) : k \in {Empty, Old}}
        \cup {(0 :> Text(luks)) @@ (1 :> Old) @@ (2 :> Old)}

=============================================================================
