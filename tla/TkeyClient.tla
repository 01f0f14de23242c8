----------------------------- MODULE TkeyClient -----------------------------
(***************************************************************************)
(* The app that runs on the TKey (client/src/main.rs). It is one           *)
(* straight-line program with one loop; an action runs from one blocking   *)
(* point (a read_into, a touch request, a sleep) to the next.              *)
(***************************************************************************)
EXTENDS Serial

VARIABLES
    clientPc,    \* where the app is blocked
    app,         \* the binary the TKey was loaded with: it determines the CDI
    clientExch,  \* nonces and public keys, as the app knows them
    clientPos,   \* 32-byte blocks taken from the app's ChaCha20 key stream
    attempts,    \* passphrase attempts begun
    led          \* what the light shows

clientVars == <<clientPc, app, clientExch, clientPos, attempts, led>>

ClientPcs ==
    {"firmware", "start", "rdPub", "rdStatus", "rdSig", "touchPurple",
     "touchYellow", "top", "rdHash", "rdSuccess", "farewell", "done", "abort",
     "off"}

\* The frame the app waits for at each of its reads.
ClientReads ==
    [rdPub |-> "pub", rdStatus |-> "status", rdSig |-> "sig",
     rdHash |-> "cipher", rdSuccess |-> "status"]

ClientAttempts == 3

ClientTypeOK ==
    /\ clientPc \in ClientPcs
    /\ app \in Apps
    /\ clientExch \in Exchange
    /\ clientPos \in Nat
    /\ attempts \in 0 .. ClientAttempts
    /\ led \in {"off", "green", "purple", "yellow", "red"}

ClientInit ==
    /\ clientPc = "firmware"
    /\ app \in Apps
    /\ clientExch = NoExchange
    /\ clientPos = 0
    /\ attempts = 0
    /\ led = "off"

-----------------------------------------------------------------------------
\* The firmware starts the app it was loaded with.
ClientBoot ==
    /\ clientPc = "firmware"
    /\ clientPc' = "start"
    /\ UNCHANGED <<app, clientExch, clientPos, attempts, led>>

\* Draw nonce, encryption nonce and ephemeral key, and send all three.
ClientHello ==
    /\ clientPc = "start"
    /\ \E nonce, encNonce, tkeyPub \in Rand :
          /\ clientExch' = [clientExch EXCEPT !.nonce = nonce,
                                              !.encNonce = encNonce,
                                              !.tkeyPub = tkeyPub]
          /\ toHost' = toHost \o <<Frame("nonce", nonce),
                                   Frame("encNonce", encNonce),
                                   Frame("pub", tkeyPub)>>
    /\ clientPc' = "rdPub"
    /\ UNCHANGED <<app, clientPos, attempts, led, attached, toTkey, sniffed>>

\* Receive the host's public key: the shared secret and the cipher follow.
ClientReadPub ==
    /\ clientPc = "rdPub"
    /\ Readable(toTkey, 32)
    /\ clientExch' = [clientExch EXCEPT !.hostPub = Head(toTkey).data]
    /\ toTkey' = Tail(toTkey)
    /\ clientPc' = "rdStatus"
    /\ UNCHANGED <<app, clientPos, attempts, led, attached, toHost, sniffed>>

\* Mutated form: the two public keys change places.
ChallengeSwapped(x) == <<x.nonce, x.tkeyPub, x.hostPub, x.encNonce>>

\* The 108 bytes the app checks the TPM's signature against, in this order.
ClientChallenge(x) == <<x.nonce, x.hostPub, x.tkeyPub, x.encNonce>>

\* Mutated form: a refusal is reported but does not have to be overridden.
AfterRefusalUngated == "top"

\* Where a refusal leaves the app: waiting for a touch.
AfterRefusal == "touchYellow"

\* verify_sig, first read: anything but TpmSigned is a refusal, which the app
\* reports as InvalidSig before it asks for a touch.
ClientReadStatus ==
    /\ clientPc = "rdStatus"
    /\ Readable(toTkey, 1)
    /\ toTkey' = Tail(toTkey)
    /\ \/ /\ Head(toTkey).data = HostByteAtClient.TpmSigned
          /\ clientPc' = "rdSig"
          /\ UNCHANGED toHost
       \/ /\ Head(toTkey).data # HostByteAtClient.TpmSigned
          /\ clientPc' = AfterRefusal
          /\ toHost' = Append(toHost, Status(ClientByte.InvalidSig))
    /\ UNCHANGED <<app, clientExch, clientPos, attempts, led, attached, sniffed>>

\* The baked key verifies sig over the app's own view of the exchange.
SigVerifies(sig) ==
    /\ sig.signer = BakedKey[app]
    /\ sig.over = ClientChallenge(clientExch)

\* What the app does with the 64 bytes once they are read.
VerifySig(sig) ==
    \/ /\ sig.wellFormed /\ SigVerifies(sig)
       /\ toHost' = Append(toHost, Status(ClientByte.GoodSig))
       /\ led' = "green"
       /\ clientPc' = "top"
    \/ /\ sig.wellFormed /\ ~SigVerifies(sig)
       /\ toHost' = Append(toHost, Status(ClientByte.InvalidSig))
       /\ clientPc' = "touchPurple"
       /\ UNCHANGED led
    \/ /\ ~sig.wellFormed
       /\ toHost' = Append(toHost, Status(ClientByte.MalformedSig))
       /\ clientPc' = "abort"
       /\ led' = "red"

ClientReadSig ==
    /\ clientPc = "rdSig"
    /\ Readable(toTkey, 64)
    /\ toTkey' = Tail(toTkey)
    /\ VerifySig(Head(toTkey).data)
    /\ UNCHANGED <<app, clientExch, clientPos, attempts, attached, sniffed>>

\* request(30, colour): the user touches the TKey ...
ClientTouched ==
    /\ clientPc \in {"touchPurple", "touchYellow"}
    /\ led' = IF clientPc = "touchPurple" THEN "purple" ELSE "yellow"
    /\ clientPc' = "top"
    /\ UNCHANGED <<app, clientExch, clientPos, attempts, serialVars>>

\* ... or the request times out and the app panics, silently for the host.
ClientTouchTimeout ==
    /\ clientPc \in {"touchPurple", "touchYellow"}
    /\ clientPc' = "abort"
    /\ led' = "red"
    /\ UNCHANGED <<app, clientExch, clientPos, attempts, serialVars>>

-----------------------------------------------------------------------------
(* The passphrase loop. "top" is its head, and the sleep(3) before it.      *)

\* Mutated form: a fourth attempt slips in.
MayAttemptOffByOne == attempts <= ClientAttempts

MayAttempt == attempts < ClientAttempts

ClientReady ==
    /\ clientPc = "top"
    /\ MayAttempt
    /\ attempts' = attempts + 1
    /\ toHost' = Append(toHost, Status(ClientByte.Ready4pass))
    /\ clientPc' = "rdHash"
    /\ UNCHANGED <<app, clientExch, clientPos, led, attached, toTkey, sniffed>>

ClientGiveUp ==
    /\ clientPc = "top"
    /\ ~MayAttempt
    /\ clientPc' = "abort"
    /\ led' = "red"
    /\ UNCHANGED <<app, clientExch, clientPos, attempts, serialVars>>

\* Mutated form: the reply reuses the key stream block of the request.
ReplyPosReused(pos) == pos

\* The block that encrypts the keyfile comes after the one just used to
\* decrypt the hash: one cipher object serves both directions.
ReplyPos(pos) == pos + 1

\* Mutated form: the keyfile goes out ahead of the byte that announces it.
KeyfileReplySwapped(ct) == <<Frame("cipher", ct), Status(ClientByte.GoodPass)>>

\* Mutated form: the keyfile is never written.
KeyfileReplyCut(ct) == <<Status(ClientByte.GoodPass)>>

KeyfileReply(ct) == <<Status(ClientByte.GoodPass), Frame("cipher", ct)>>

\* Decrypt the passphrase hash, derive the keyfile and send it encrypted.
ClientDeriveKeyfile ==
    /\ clientPc = "rdHash"
    /\ Readable(toTkey, 32)
    /\ toTkey' = Tail(toTkey)
    /\ LET key  == StreamKey(clientExch)
           hash == Decrypt(key, clientPos, Head(toTkey).data)
           ct   == Encrypt(key, ReplyPos(clientPos), Blake2s(app, hash))
       IN  /\ toHost' = toHost \o KeyfileReply(ct)
           /\ sniffed' = sniffed \cup {ct}
    /\ clientPos' = clientPos + 2
    /\ clientPc' = "rdSuccess"
    /\ UNCHANGED <<app, clientExch, attempts, led, attached>>

\* Mutated form: the `continue` is missing, the app waits for a verdict.
AfterBlake2FallsThrough == "rdSuccess"

AfterBlake2 == "top"

\* The firmware's blake2s failed: report it and start the next attempt. The
\* block that decrypted the hash is used up; no keyfile is sent.
ClientBlake2Fails ==
    /\ clientPc = "rdHash"
    /\ Readable(toTkey, 32)
    /\ toTkey' = Tail(toTkey)
    /\ toHost' = Append(toHost, Status(ClientByte.Blake2))
    /\ clientPos' = clientPos + 1
    /\ clientPc' = AfterBlake2
    /\ UNCHANGED <<app, clientExch, attempts, led, attached, sniffed>>

IsSuccess(byte) == byte = HostByteAtClient.DecryptionSuccess

\* The host's verdict: leave the loop on DecryptionSuccess, else try again.
ClientReadSuccess ==
    /\ clientPc = "rdSuccess"
    /\ Readable(toTkey, 1)
    /\ toTkey' = Tail(toTkey)
    /\ \/ /\ IsSuccess(Head(toTkey).data)
          /\ clientPc' = "farewell"
          /\ led' = "green"
       \/ /\ ~IsSuccess(Head(toTkey).data)
          /\ clientPc' = "top"
          /\ UNCHANGED led
    /\ UNCHANGED <<app, clientExch, clientPos, attempts, attached, toHost, sniffed>>

\* Six seconds of green, then dark.
ClientDone ==
    /\ clientPc = "farewell"
    /\ clientPc' = "done"
    /\ led' = "off"
    /\ UNCHANGED <<app, clientExch, clientPos, attempts, serialVars>>

\* Unplugged: the app loses power, and with it everything it knew.
ClientLosesPower ==
    /\ clientPc' = "off"
    /\ led' = "off"
    /\ UNCHANGED <<app, clientExch, clientPos, attempts>>

=============================================================================
