-------------------------- MODULE UnlockInvariant --------------------------
(***************************************************************************)
(* Why the safety properties of Unlock hold: an inductive invariant. Its   *)
(* heart is Lockstep, which lists, for every place the host program can be *)
(* blocked at, where the app can be and what is then on the line. The      *)
(* other conjuncts add what the two programs know at those places.         *)
(***************************************************************************)
EXTENDS Unlock, SessionInvariant

(* The two frames that carry a hash and a keyfile. *)
HashFrame ==
    Frame("cipher", Encrypt(StreamKey(hostExch), clientPos, Argon2(typed)))

KeyfileFrame ==
    Frame("cipher", Encrypt(StreamKey(clientExch), hostPos,
                            Blake2s(app, Argon2(typed))))

-----------------------------------------------------------------------------
(* Where the app can be, for each place of the host. *)

BeforeLoad == At("firmware", <<>>, <<>>) /\ attempts = 0 /\ tries = 1

WaitingForNonce ==
    /\ attempts = 0 /\ tries = 1
    /\ \/ At("start", <<>>, <<>>)
       \/ At("rdPub", <<NonceFrame, EncNonceFrame, TkeyPubFrame>>, <<>>)

WaitingForEncNonce ==
    /\ attempts = 0 /\ tries = 1
    /\ At("rdPub", <<EncNonceFrame, TkeyPubFrame>>, <<>>)

WaitingForTkeyPub ==
    /\ attempts = 0 /\ tries = 1
    /\ \/ At("rdPub", <<TkeyPubFrame>>, <<HostPubFrame>>)
       \/ At("rdStatus", <<TkeyPubFrame>>, <<>>)

AtTpm ==
    /\ attempts = 0 /\ tries = 1
    /\ \/ At("rdPub", <<>>, <<HostPubFrame>>)
       \/ At("rdStatus", <<>>, <<>>)

\* A refusal is on its way to the app.
RefusalSent ==
    /\ ~trust
    /\ \/ At("rdPub", <<>>, <<HostPubFrame, Refused>>)
       \/ At("rdStatus", <<>>, <<Refused>>)

\* A signature is on its way to the app.
SignatureSent ==
    /\ trust /\ tpm.key \in Keys /\ tpm.pcrsMatch
    /\ \E wf \in BOOLEAN :
          \/ At("rdPub", <<>>, <<HostPubFrame, Signed, SigFrame(wf)>>)
          \/ At("rdStatus", <<>>, <<Signed, SigFrame(wf)>>)
          \/ At("rdSig", <<>>, <<SigFrame(wf)>>)

\* The app has judged it, and may already be ready for the passphrase.
Judged ==
    \/ trust /\ led = "green" /\ At("top", <<GoodSig>>, <<>>) /\ attempts = 0
    \/ trust /\ led = "green" /\ At("rdHash", <<GoodSig, Ready>>, <<>>)
       /\ attempts = 1
    \/ led # "green" /\ At("top", <<InvalidSig>>, <<>>) /\ attempts = 0
    \/ led # "green" /\ At("rdHash", <<InvalidSig, Ready>>, <<>>)
       /\ attempts = 1
    \/ led # "green" /\ \E pc \in Touching : At(pc, <<InvalidSig>>, <<>>)
       /\ attempts = 0
    \/ At("abort", <<InvalidSig>>, <<>>)
    \/ At("abort", <<MalformedSig>>, <<>>)

WaitingForAuth ==
    /\ tries = 1
    /\ \/ RefusalSent /\ attempts = 0
       \/ SignatureSent /\ attempts = 0
       \/ Judged

WaitingForReady ==
    \/ ~trust /\ led # "green" /\ tries = 1 /\ attempts = 0
       /\ \E pc \in Touching : At(pc, <<>>, <<>>)
    \/ At("abort", <<>>, <<>>)
    \/ At("top", <<>>, <<>>) /\ tries = attempts + 1
    \/ At("rdHash", <<Ready>>, <<>>) /\ tries = attempts
    \/ At("rdSuccess", <<>>, <<TryAgain>>) /\ tries = attempts + 1

Asking == At("rdHash", <<>>, <<>>) /\ tries = attempts

WaitingForPass ==
    \/ At("rdHash", <<>>, <<HashFrame>>) /\ tries = attempts
       /\ hostPos = clientPos + 1
    \/ At("rdSuccess", <<GoodPass, KeyfileFrame>>, <<>>) /\ tries = attempts
       /\ clientPos = hostPos + 1
    \/ /\ clientPos = hostPos
       /\ \/ At("top", <<Blake2Failed>>, <<>>) /\ tries = attempts
          \/ At("abort", <<Blake2Failed>>, <<>>)
          \/ At("rdHash", <<Blake2Failed, Ready>>, <<>>) /\ attempts = tries + 1

WaitingForKeyfile ==
    /\ At("rdSuccess", <<KeyfileFrame>>, <<>>) /\ tries = attempts
    /\ clientPos = hostPos + 1

Decrypting == At("rdSuccess", <<>>, <<>>) /\ tries = attempts

\* The host program is gone; the app may still hear its last word.
HostGone ==
    \/ \E pc \in {"firmware", "top", "rdSuccess", "farewell", "done"} :
          At(pc, <<>>, <<>>)
    \/ \E pc \in {"rdHash", "abort"}, up \in {<<>>, <<Ready>>} :
          At(pc, up, <<>>)
    \/ At("rdPub", <<TkeyPubFrame>>, <<>>)
    \/ At("rdSuccess", <<>>, <<TryAgain>>)
    \/ At("rdSuccess", <<>>, <<DiskOpened>>) /\ disk = "open"

Lockstep ==
    IF attached
    THEN /\ hostPc \in {"mount", "open"} => BeforeLoad
         /\ hostPc = "rdNonce" => WaitingForNonce
         /\ hostPc = "rdEncNonce" => WaitingForEncNonce
         /\ hostPc = "rdTkeyPub" => WaitingForTkeyPub
         /\ hostPc = "tpm" => AtTpm
         /\ hostPc = "rdAuth" => WaitingForAuth
         /\ hostPc = "rdReady" => WaitingForReady
         /\ hostPc = "ask" => Asking
         /\ hostPc = "rdPass" => WaitingForPass
         /\ hostPc = "rdKeyfile" => WaitingForKeyfile
         /\ hostPc = "cryptsetup" => Decrypting
         /\ hostPc = "exit" => HostGone
    ELSE toHost = <<>> /\ toTkey = <<>> /\ clientPc \in {"firmware", "off"}

-----------------------------------------------------------------------------
(* What the two programs know at those places. *)

\* What the host has received is what the app drew, and the reverse.
ExchangeAgrees ==
    /\ attached /\ hostPc \notin {"mount", "open", "rdNonce", "exit"} =>
          hostExch.nonce = clientExch.nonce
    /\ attached /\ hostPc \notin {"mount", "open", "rdNonce", "rdEncNonce", "exit"} =>
          hostExch.encNonce = clientExch.encNonce
    /\ attached /\ hostPc \notin {"mount", "open", "rdNonce", "rdEncNonce",
                                  "rdTkeyPub", "exit"} =>
          hostExch.tkeyPub = clientExch.tkeyPub
    /\ clientPc \in {"rdStatus", "rdSig"} \cup Touching \cup Looping =>
          hostExch.hostPub = clientExch.hostPub
    /\ clientPc \in Looping => hostExch = clientExch

\* Random values and passphrases are there before they are used.
DrawnInTime ==
    /\ clientPc \notin {"firmware", "start", "off"} =>
          clientExch.nonce \in Rand /\ clientExch.encNonce \in Rand
          /\ clientExch.tkeyPub \in Rand
    /\ hostPc \notin {"mount", "open", "rdNonce", "rdEncNonce", "exit"} =>
          hostExch.hostPub \in Rand
    /\ hostPc \in {"rdPass", "rdKeyfile", "cryptsetup"} => typed \in Pass

\* Between attempts both sides have taken as much of the key stream.
PositionsAgree ==
    attached /\ hostPc \notin {"rdPass", "rdKeyfile", "exit"} => hostPos = clientPos

\* The light is dark until the loop, and the host's trust follows it from then.
LightFollows ==
    /\ clientPc \in {"firmware", "start", "rdPub", "rdStatus", "rdSig"} \cup Touching =>
          led = "off"
    /\ clientPc \in Looping => led \in {"green", "purple", "yellow"}
    /\ hostPc \in {"rdReady", "ask", "rdPass", "rdKeyfile", "cryptsetup"}
       /\ clientPc \in Looping => (trust <=> led = "green")

\* No key stream block has been used twice, nor one yet to be used.
KeystreamFresh ==
    /\ \A x, y \in sniffed : x.pos = y.pos => x = y
    /\ attached /\ hostPc # "exit" =>
          \A x \in sniffed : x.pos < hostPos \/ x.pos < clientPos

\* The types of all variables but the two lines, which Lockstep describes.
TypesOffTheLine ==
    /\ attached \in BOOLEAN
    /\ \A ct \in sniffed : ct.pos \in Nat
    /\ ClientTypeOK
    /\ HostTypeOK
    /\ unit \in {"waiting", "started"}

IInv ==
    /\ TypesOffTheLine
    /\ Lockstep
    /\ ExchangeAgrees
    /\ DrawnInTime
    /\ PositionsAgree
    /\ LightFollows
    /\ KeystreamFresh
    /\ LightTellsTheTruth
    /\ CryptsetupGetsDerivedKeyfile
    /\ SuccessMeansOpen

=============================================================================
