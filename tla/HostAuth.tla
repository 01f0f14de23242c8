------------------------------ MODULE HostAuth ------------------------------
(***************************************************************************)
(* The host library (host/src/lib.rs): opening the TKey, the key exchange, *)
(* the TPM's signature and the TKey's answer to it. Both programs that     *)
(* call auth_with_tkey_and_tpm run these steps. The library is sequential: *)
(* an action runs from one blocking call to the next, and a `?` on a       *)
(* failing call ends the program.                                          *)
(***************************************************************************)
EXTENDS Serial

VARIABLES
    hostPc,     \* where the host program is blocked
    hostExch,   \* nonces and public keys, as the host knows them
    hostPos,    \* 32-byte blocks taken from the host's ChaCha20 key stream
    trust,      \* `trustworthy`
    exitCode,   \* "none" until the program ends
    tpm         \* the key at handle 0x81000001, and whether the PCRs match

authVars == <<hostExch, trust>>

\* The frame the host waits for at each of its reads.
HostReads ==
    [rdNonce |-> "nonce", rdEncNonce |-> "encNonce", rdTkeyPub |-> "pub",
     rdAuth |-> "status", rdReady |-> "status", rdPass |-> "status",
     rdKeyfile |-> "cipher"]

AuthInit ==
    /\ hostExch = NoExchange
    /\ hostPos = 0
    /\ trust = FALSE
    /\ exitCode = "none"
    /\ tpm \in [key : Keys \cup {NoKey}, pcrsMatch : BOOLEAN]

\* "failure" is exit code 1, of ExitCode::FAILURE and of a main that returns an
\* Err alike: nobody can tell them apart. The end by a signal or a panic goes by
\* the same name.
HostExit(code) == hostPc' = "exit" /\ exitCode' = code

-----------------------------------------------------------------------------
\* Tkey::new and load_app succeed: the firmware starts the app.
HostLoads ==
    /\ hostPc = "open"
    /\ attached
    /\ hostPc' = "rdNonce"
    /\ UNCHANGED <<authVars, hostPos, exitCode, tpm, serialVars>>

\* Mutated form: an end of file while waiting for Ready4pass is retried.
IoErrorPointsRetried == (DOMAIN HostReads \cup {"tpm"}) \ {"rdReady"}

IoErrorPoints == DOMAIN HostReads \cup {"tpm"}

\* A read of, or a write to, a TKey that has been pulled out: the program ends.
HostIoError ==
    /\ hostPc \in IoErrorPoints
    /\ ~attached
    /\ HostExit("failure")
    /\ UNCHANGED <<authVars, hostPos, tpm, serialVars>>

\* No TKey, a TKey that refuses the app, or an app damaged on the way.
HostLoadFails ==
    /\ hostPc = "open"
    /\ HostExit("failure")
    /\ UNCHANGED <<authVars, hostPos, tpm, serialVars>>

HostReadNonce ==
    /\ hostPc = "rdNonce"
    /\ Readable(toHost, 32)
    /\ hostExch' = [hostExch EXCEPT !.nonce = Head(toHost).data]
    /\ toHost' = Tail(toHost)
    /\ hostPc' = "rdEncNonce"
    /\ UNCHANGED <<hostPos, trust, exitCode, tpm, attached, toTkey, sniffed>>

\* get_chacha20_cipher up to its second read: the host draws its ephemeral key
\* and sends the public half before it looks at the TKey's.
HostReadEncNonce ==
    /\ hostPc = "rdEncNonce"
    /\ Readable(toHost, 12)
    /\ \E hostPub \in Rand :
          /\ hostExch' = [hostExch EXCEPT !.encNonce = Head(toHost).data,
                                          !.hostPub = hostPub]
          /\ toTkey' = Append(toTkey, Frame("pub", hostPub))
    /\ toHost' = Tail(toHost)
    /\ hostPc' = "rdTkeyPub"
    /\ UNCHANGED <<hostPos, trust, exitCode, tpm, attached, sniffed>>

\* There is no randomness to draw the key from: the app is left without one.
HostRandomFails ==
    /\ hostPc = "rdEncNonce"
    /\ Readable(toHost, 12)
    /\ toHost' = Tail(toHost)
    /\ HostExit("failure")
    /\ UNCHANGED <<authVars, hostPos, tpm, attached, toTkey, sniffed>>

HostReadTkeyPub ==
    /\ hostPc = "rdTkeyPub"
    /\ Readable(toHost, 32)
    /\ hostExch' = [hostExch EXCEPT !.tkeyPub = Head(toHost).data]
    /\ toHost' = Tail(toHost)
    /\ hostPc' = "tpm"
    /\ UNCHANGED <<hostPos, trust, exitCode, tpm, attached, toTkey, sniffed>>

\* The 108 bytes the TPM is asked to sign, in this order.
HostChallenge(x) == <<x.nonce, x.hostPub, x.tkeyPub, x.encNonce>>

\* The TPM's policy session: it signs only with the enrolled PCR values.
TpmWouldSign == tpm.key \in Keys /\ tpm.pcrsMatch

\* verify() returns a signature: announce it, then send its 64 bytes.
TpmSigns ==
    /\ hostPc = "tpm"
    /\ attached
    /\ TpmWouldSign
    /\ \E wellFormed \in BOOLEAN :
          toTkey' = toTkey \o
              <<Status(HostByte.TpmSigned),
                Frame("sig", [wellFormed |-> wellFormed, signer |-> tpm.key,
                              over |-> HostChallenge(hostExch)])>>
    /\ trust' = TRUE
    /\ hostPc' = "rdAuth"
    /\ UNCHANGED <<hostExch, hostPos, exitCode, tpm, attached, toHost, sniffed>>

\* verify() fails, on a policy mismatch or on any other TPM error.
TpmRefuses ==
    /\ hostPc = "tpm"
    /\ attached
    /\ toTkey' = Append(toTkey, Status(HostByte.TpmRefusedToSign))
    /\ trust' = FALSE
    /\ hostPc' = "rdAuth"
    /\ UNCHANGED <<hostExch, hostPos, exitCode, tpm, attached, toHost, sniffed>>

\* The ClientErrors after which the host goes on, without trust.
IsAuthFailure(name) == name \in {"InvalidSig", "MalformedSig", "BadPubkey"}

\* Mutated form: the rejection is printed, and `trustworthy` left alone.
TrustKept == trust

\* The trust that is left when the TKey rejects the signature.
TrustAfterFailure == FALSE

\* The TKey's answer. The program's own next step is at "rdReady".
HostAuthStatus ==
    /\ hostPc = "rdAuth"
    /\ Readable(toHost, 1)
    /\ toHost' = Tail(toHost)
    /\ LET name == ClientMessageTryFrom(Head(toHost).data)
       IN  \/ /\ name = "GoodSig"
              /\ hostPc' = "rdReady"
              /\ UNCHANGED <<trust, exitCode>>
           \/ /\ IsAuthFailure(name)
              /\ trust' = TrustAfterFailure
              /\ hostPc' = "rdReady"
              /\ UNCHANGED exitCode
           \/ /\ name # "GoodSig" /\ ~IsAuthFailure(name)
              /\ HostExit("failure")
              /\ UNCHANGED trust
    /\ UNCHANGED <<hostExch, hostPos, tpm, attached, toTkey, sniffed>>

=============================================================================
