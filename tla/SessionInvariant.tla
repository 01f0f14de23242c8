-------------------------- MODULE SessionInvariant --------------------------
(***************************************************************************)
(* The frames of a session, named after what they carry, and where the app *)
(* and its lines can be: the vocabulary of the inductive invariants of     *)
(* every program that talks to the app.                                    *)
(***************************************************************************)
EXTENDS Session

NonceFrame    == Frame("nonce", clientExch.nonce)
EncNonceFrame == Frame("encNonce", clientExch.encNonce)
TkeyPubFrame  == Frame("pub", clientExch.tkeyPub)
HostPubFrame  == Frame("pub", hostExch.hostPub)

Signed     == Status(HostByte.TpmSigned)
Refused    == Status(HostByte.TpmRefusedToSign)
DiskOpened == Status(HostByte.DecryptionSuccess)
TryAgain   == Status(HostByte.DecryptionError)

GoodSig      == Status(ClientByte.GoodSig)
InvalidSig   == Status(ClientByte.InvalidSig)
MalformedSig == Status(ClientByte.MalformedSig)
Ready        == Status(ClientByte.Ready4pass)
GoodPass     == Status(ClientByte.GoodPass)
Blake2Failed == Status(ClientByte.Blake2)

SigFrame(wf) ==
    Frame("sig", [wellFormed |-> wf, signer |-> tpm.key,
                  over |-> HostChallenge(hostExch)])

Touching == {"touchPurple", "touchYellow"}
Looping  == {"top", "rdHash", "rdSuccess"}

\* The app is at pc, and these frames are under way to host and app.
At(pc, up, down) == clientPc = pc /\ toHost = up /\ toTkey = down

=============================================================================
