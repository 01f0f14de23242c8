------------------------------ MODULE Session ------------------------------
(***************************************************************************)
(* A session of any host program with the TKey app, whatever the program   *)
(* is for: what must hold of the two ends and the line between them.       *)
(***************************************************************************)
EXTENDS TkeyClient, HostAuth

FrameOK(f) ==
    /\ f.kind \in DOMAIN FrameSize
    /\ f.kind \in {"nonce", "encNonce", "pub"} => f.data \in Rand
    /\ f.kind = "status" => f.data \in 0 .. 255
    /\ f.kind = "sig" => f.data.wellFormed \in BOOLEAN /\ f.data.signer \in Keys
    /\ f.kind = "cipher" => f.data.pos \in Nat

LineOK(line) == \A i \in 1 .. Len(line) : FrameOK(line[i])

\* Whenever a side is about to read and bytes are waiting, they are the bytes
\* it expects: no interleaving, failed attempt or refused signature makes
\* read_exact or read_into cut a frame in two or take one for another.
FramingInSync ==
    /\ hostPc \in DOMAIN HostReads /\ toHost # <<>> =>
          Head(toHost).kind = HostReads[hostPc]
    /\ clientPc \in DOMAIN ClientReads /\ toTkey # <<>> =>
          Head(toTkey).kind = ClientReads[clientPc]

\* Host and app never wait for each other: while both live, one of them is not
\* blocked in a read, or has something to read.
NoMutualWait ==
    attached /\ hostPc \in DOMAIN HostReads /\ clientPc \in DOMAIN ClientReads =>
        toHost # <<>> \/ toTkey # <<>>

\* Both directions share one ChaCha20 stream, and no block of it ever encrypts
\* two values, however many attempts fail and wherever: what a USB sniffer
\* records (README.md:14) is never a two-time pad.
NoKeystreamReuse ==
    \A x, y \in sniffed : x.key = y.key /\ x.pos = y.pos => x = y

\* The light in the passphrase loop means what README.md:65 and client/src/main.rs:137
\* say. Green: the TPM holds the key baked into this very app, the PCRs match, and
\* both sides hold the same nonces and public keys. Purple: there is a signature, but
\* by another key; never because the 108 bytes that the TPM signs and those that the
\* app verifies are not the same in order and value.
LightTellsTheTruth ==
    /\ clientPc \in {"top", "rdHash", "rdSuccess"} /\ led = "green" =>
          /\ tpm.pcrsMatch
          /\ tpm.key = BakedKey[app]
          /\ clientExch = hostExch
    /\ clientPc = "touchPurple" \/ led = "purple" => tpm.key # BakedKey[app]

=============================================================================
