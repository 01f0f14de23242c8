------------------------------ MODULE Protocol ------------------------------
(***************************************************************************)
(* What the host program and the TKey app share: the one-byte status codes *)
(* of the serial protocol, the sizes of its frames, and the terms that     *)
(* stand for the cryptographic values the two sides compute.               *)
(*                                                                         *)
(* The two crates each declare their own copy of the status codes, so the  *)
(* model keeps two tables, and a status byte means whatever its reader's   *)
(* table says it means.                                                    *)
(***************************************************************************)
EXTENDS Naturals, Sequences

CONSTANTS
    Apps,       \* client binaries that may lie at /boot/client
    Keys,       \* P-256 signing keys the TPM may hold
    NoKey,      \* nothing at the persistent handle
    BakedKey,   \* BakedKey[a]: the TPM public key compiled into binary a
    Pass,       \* passphrases a user may type
    NoPass,     \* no passphrase (yet)
    PassLen,    \* PassLen[p]: length of p in bytes
    Enrolled,   \* pairs <<a, p>> whose keyfile opens a LUKS keyslot
    Rand,       \* values the random generators may return
    NoRand      \* a random value not chosen, or not received, yet

\* client/build.rs stops the build of a binary whose baked key is not a valid
\* P-256 point, which is why BakedKey is total on Apps.
ASSUME ProtocolAssumption ==
    /\ BakedKey \in [Apps -> Keys]
    /\ NoKey \notin Keys
    /\ PassLen \in [Pass -> Nat]
    /\ NoPass \notin Pass
    /\ Enrolled \subseteq Apps \X Pass
    /\ NoRand \notin Rand

-----------------------------------------------------------------------------
(* Status codes. *)

\* ClientMessage and ClientError as the TKey app declares them.
ClientByte ==
    [GoodSig |-> 32, GoodPass |-> 33, Ready4pass |-> 34,
     Blake2 |-> 16, MalformedSig |-> 18, InvalidSig |-> 19]

\* HostMessage and the transmitted HostErr values as the host declares them.
HostByte ==
    [TpmSigned |-> 151, TpmRefusedToSign |-> 144,
     DecryptionSuccess |-> 153, DecryptionError |-> 152]

\* The two HostMessage values the TKey app compares a status byte with.
HostByteAtClient == [TpmSigned |-> 151, DecryptionSuccess |-> 153]

\* The variants of ClientMessage and ClientError that a byte decodes to on the
\* host: TryFrom<u8> for ClientMessage.
ClientMessageTryFrom(byte) ==
    CASE byte = 32 -> "GoodSig"
      [] byte = 33 -> "GoodPass"
      [] byte = 34 -> "Ready4pass"
      [] byte = 16 -> "Blake2"
      [] byte = 17 -> "PassLen"
      [] byte = 18 -> "MalformedSig"
      [] byte = 19 -> "InvalidSig"
      [] byte = 20 -> "BadPubkey"
      [] byte = 21 -> "IOError"
      [] OTHER -> "UnknownError"

-----------------------------------------------------------------------------
(* Frames. A read_exact(n) or read_into(n) takes the next n bytes, whatever *)
(* they were written as: a frame is a value of FrameSize[kind] bytes.       *)

FrameSize ==
    [nonce |-> 32, encNonce |-> 12, pub |-> 32, status |-> 1, sig |-> 64,
     cipher |-> 32]

Frame(kind, data) == [kind |-> kind, data |-> data]

Status(byte) == Frame("status", byte)

-----------------------------------------------------------------------------
(* Cryptographic values, as terms. Two different terms are two different    *)
(* values: hashes are collision free and a wrong keystream gives garbage.   *)

\* What host and client learn of each other before the signature is checked.
Exchange ==
    [nonce : Rand \cup {NoRand}, hostPub : Rand \cup {NoRand},
     tkeyPub : Rand \cup {NoRand}, encNonce : Rand \cup {NoRand}]

NoExchange ==
    [nonce |-> NoRand, hostPub |-> NoRand, tkeyPub |-> NoRand,
     encNonce |-> NoRand]

\* X25519 secret and ChaCha20 nonce: the key stream of a session.
StreamKey(x) == <<{x.hostPub, x.tkeyPub}, x.encNonce>>

Garbled == <<"garbled">>

Argon2(p) == <<"argon2id", p>>

\* keyfile = blake2s(CDI, hash); the CDI stands for the loaded binary.
Blake2s(a, hash) == <<"blake2s", a, hash>>

\* A 32-byte ciphertext: XOR of body with 32-byte block number pos of a stream.
Encrypt(key, pos, body) == [key |-> key, pos |-> pos, body |-> body]

Decrypt(key, pos, ct) ==
    IF ct.key = key /\ ct.pos = pos THEN ct.body ELSE Garbled

\* The 32-byte keyfiles that open a LUKS keyslot.
Keyslots == {Blake2s(e[1], Argon2(e[2])) : e \in Enrolled}

=============================================================================
