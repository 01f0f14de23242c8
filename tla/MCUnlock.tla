------------------------------ MODULE MCUnlock ------------------------------
(***************************************************************************)
(* A small instance of Unlock: two client binaries with different baked    *)
(* keys, of which one is enrolled with one passphrase; a second passphrase *)
(* that is wrong and a third that is one byte too short for the prompt.    *)
(***************************************************************************)
EXTENDS UnlockInvariant, TLC

CONSTANTS a1, a2, k1, k2, right, wrong, short, r1, r2

MCApps == {a1, a2}
MCKeys == {k1, k2}
MCBakedKey == (a1 :> k1) @@ (a2 :> k2)
MCPass == {right, wrong, short}
MCPassLen == (right :> 8) @@ (wrong :> 20) @@ (short :> 7)
MCEnrolled == {<<a1, right>>}
MCRand == {r1, r2}
MCRandOne == {r1}

\* The two random values are interchangeable.
RandSymmetry == Permutations(MCRand)

=============================================================================
