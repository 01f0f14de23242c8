-------------------------- MODULE EnrollInvariant --------------------------
(***************************************************************************)
(* Why app and enrollment program stay together, whichever of the two      *)
(* enrollment programs it is: the part of their inductive invariants that  *)
(* speaks of the session. The program may be killed anywhere, and the app  *)
(* then lives on with what is left on its line.                            *)
(***************************************************************************)
EXTENDS PassEnroll, SessionInvariant

HashFrame    == Frame("cipher", Encrypt(StreamKey(hostExch), 0, Argon2(typed)))
KeyfileFrame == Frame("cipher", Encrypt(StreamKey(clientExch), 1, Derived))

\* The places of both programs: before the app is loaded, before its challenge
\* has been answered, and from the answer of the app on.
StartPcs   == {"argv", "open"}
VerdictPcs == {"tpm", "rdVerdict"}
KeyfilePcs == {"rdKeyfile", "askCurrent", "wait", "rdAdded", "waitDom0"}
ProgramPcs ==
    StartPcs \cup {"rdNonce", "rdEncNonce", "rdTkeyPub"} \cup VerdictPcs
        \cup {"rdAuth", "rdReady", "askNew", "rdPass"} \cup KeyfilePcs \cup {"exit"}

-----------------------------------------------------------------------------
(* Where the app can be, for each place of the program. *)

BeforeLoad == At("firmware", <<>>, <<>>)

WaitingForNonce ==
    \/ At("start", <<>>, <<>>)
    \/ At("rdPub", <<NonceFrame, EncNonceFrame, TkeyPubFrame>>, <<>>)

WaitingForEncNonce == At("rdPub", <<EncNonceFrame, TkeyPubFrame>>, <<>>)

WaitingForTkeyPub ==
    \/ At("rdPub", <<TkeyPubFrame>>, <<HostPubFrame>>)
    \/ At("rdStatus", <<TkeyPubFrame>>, <<>>)

WaitingForVerdict ==
    \/ At("rdPub", <<>>, <<HostPubFrame>>)
    \/ At("rdStatus", <<>>, <<>>)

\* What the app is about to read, once the program has sent the TPM's verdict.
VerdictSent ==
    /\ clientExch.nonce = hostExch.nonce
    /\ clientExch.tkeyPub = hostExch.tkeyPub
    /\ clientExch.encNonce = hostExch.encNonce
    /\ \/ clientPc = "rdPub" /\ toTkey = <<HostPubFrame, Refused>>
       \/ clientPc = "rdStatus" /\ toTkey = <<Refused>>
       \/ \E wf \in BOOLEAN :
             \/ clientPc = "rdPub" /\ toTkey = <<HostPubFrame, Signed, SigFrame(wf)>>
             \/ clientPc = "rdStatus" /\ toTkey = <<Signed, SigFrame(wf)>>
             \/ clientPc = "rdSig" /\ toTkey = <<SigFrame(wf)>>

Judged ==
    \/ \E judgement \in {GoodSig, InvalidSig} :
          \/ At("top", <<judgement>>, <<>>)
          \/ At("rdHash", <<judgement, Ready>>, <<>>)
    \/ \E pc \in Touching \cup {"abort"} : At(pc, <<InvalidSig>>, <<>>)
    \/ At("abort", <<MalformedSig>>, <<>>)

WaitingForAuth == (toHost = <<>> /\ VerdictSent) \/ Judged

WaitingForReady ==
    \/ \E pc \in Touching \cup {"abort", "top"} : At(pc, <<>>, <<>>)
    \/ At("rdHash", <<Ready>>, <<>>)

Asking == At("rdHash", <<>>, <<>>)

WaitingForPass ==
    \/ At("rdHash", <<>>, <<HashFrame>>)
    \/ At("rdSuccess", <<GoodPass, KeyfileFrame>>, <<>>)
    \/ At("top", <<Blake2Failed>>, <<>>)
    \/ At("rdHash", <<Blake2Failed, Ready>>, <<>>)

WaitingForKeyfile == At("rdSuccess", <<KeyfileFrame>>, <<>>)

WaitingForReport == At("rdSuccess", <<>>, <<>>)

\* A dead program has left the app one of these, and only a program that ended
\* in success the word of it.
LeftBehind ==
    \/ toTkey = <<>> /\ clientPc # "rdSig"
    \/ clientPc = "rdPub" /\ toTkey = <<HostPubFrame>>
    \/ VerdictSent
    \/ clientPc = "rdHash" /\ toTkey = <<HashFrame>>
    \/ clientPc = "rdSuccess" /\ toTkey = <<TryAgain>>
    \/ clientPc = "rdSuccess" /\ toTkey = <<DiskOpened>> /\ exitCode = "success"

Lockstep ==
    IF attached
    THEN /\ hostPc \in StartPcs => BeforeLoad
         /\ hostPc = "rdNonce" => WaitingForNonce
         /\ hostPc = "rdEncNonce" => WaitingForEncNonce
         /\ hostPc = "rdTkeyPub" => WaitingForTkeyPub
         /\ hostPc \in VerdictPcs => WaitingForVerdict
         /\ hostPc = "rdAuth" => WaitingForAuth
         /\ hostPc = "rdReady" => WaitingForReady
         /\ hostPc = "askNew" => Asking
         /\ hostPc = "rdPass" => WaitingForPass
         /\ hostPc \in KeyfilePcs /\ hostPos = 1 => WaitingForKeyfile
         /\ hostPc \in KeyfilePcs /\ hostPos = 2 => WaitingForReport
         /\ hostPc = "exit" => LeftBehind
    ELSE toHost = <<>> /\ toTkey = <<>> /\ clientPc \in {"firmware", "off"}

-----------------------------------------------------------------------------
(* What the two know at those places. *)

\* What the program has received is what the app drew, and the reverse.
ExchangeAgrees ==
    /\ attached /\ hostPc \notin StartPcs \cup {"rdNonce", "exit"} =>
          hostExch.nonce = clientExch.nonce
    /\ attached /\ hostPc \notin StartPcs \cup {"rdNonce", "rdEncNonce", "exit"} =>
          hostExch.encNonce = clientExch.encNonce
    /\ attached /\ hostPc \notin StartPcs \cup {"rdNonce", "rdEncNonce", "rdTkeyPub",
                                                "exit"} =>
          hostExch.tkeyPub = clientExch.tkeyPub
    /\ clientPc \in {"rdStatus", "rdSig"} => hostExch.hostPub = clientExch.hostPub
    /\ clientPc \in Touching \cup Looping => hostExch = clientExch

\* The app is offered one hash, in its first attempt and at the beginning of the
\* key stream.
OneAttempt ==
    /\ attempts \in 0 .. 2
    /\ clientPc \in {"firmware", "start", "rdPub", "rdStatus", "rdSig"} \cup Touching =>
          attempts = 0
    /\ clientPc = "top" => attempts \in 0 .. 1
    /\ attached /\ hostPc \in {"rdAuth", "rdReady"} /\ clientPc = "top" => attempts = 0
    /\ attached /\ hostPc \in {"rdAuth", "rdReady", "askNew"} /\ clientPc = "rdHash" =>
          attempts = 1
    /\ clientPc = "rdHash" => attempts \in 1 .. 2
    /\ clientPc = "rdHash" /\ toTkey # <<>> => attempts = 1
    /\ clientPc \in {"rdSuccess", "farewell", "done"} => attempts = 1
    /\ attempts = 0 \/ (clientPc = "rdHash" /\ attempts = 1) => clientPos = 0

\* The program knows the passphrase from the hash on, and from then on takes one
\* block of the key stream for each frame.
KeyfileFollows ==
    /\ hostPc \in ProgramPcs \ (KeyfilePcs \cup {"rdPass", "exit"}) =>
          typed = NoPass /\ hostPos = 0
    /\ hostPc = "rdPass" => hostPos = 1
    /\ hostPc \in KeyfilePcs => hostPos \in 1 .. 2
    /\ hostPos # 0 => typed \in Pass /\ BootTakes(typed)
    /\ hostPos = 2 => keyfile = Derived

\* A farewell is an answer to a program that ended in success.
FarewellFollows ==
    /\ clientPc \in {"farewell", "done"} => exitCode = "success"
    /\ exitCode = "none" <=> hostPc # "exit"

\* The lines are sequences of frames.
IsLine(line) ==
    Len(line) \in Nat /\ line = [i \in 1 .. Len(line) |-> line[i]] /\ LineOK(line)

SessionTypes ==
    /\ attached \in BOOLEAN
    /\ IsLine(toHost) /\ IsLine(toTkey)
    /\ ClientTypeOK
    /\ hostPc \in ProgramPcs
    /\ hostExch \in Exchange
    /\ hostPos \in 0 .. 2
    /\ trust \in BOOLEAN
    /\ exitCode \in {"none", "success", "failure"}
    /\ tpm \in [key : Keys \cup {NoKey}, pcrsMatch : BOOLEAN]
    /\ typed \in {p \in Pass : BootTakes(p)} \cup {NoPass}

SessionInv ==
    /\ SessionTypes
    /\ Lockstep
    /\ ExchangeAgrees
    /\ OneAttempt
    /\ KeyfileFollows
    /\ FarewellFollows

=============================================================================
