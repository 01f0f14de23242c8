---------------------------- MODULE UnlockProofs ----------------------------
(***************************************************************************)
(* The safety properties of Unlock hold for every set of binaries, keys,   *)
(* passphrases and random values: IInv is inductive, and implies them.     *)
(* One lemma per action shows that it preserves IInv. Each first finds out *)
(* from Lockstep where the two programs are, then goes through the parts   *)
(* of IInv.                                                                *)
(***************************************************************************)
EXTENDS UnlockInvariant, SessionLemmas

\* Sets of control states, tuples of variables and bounds are expanded in
\* every proof.
USE DEF ClientPcs, HostPcs, Touching, Looping, At, ClientAttempts, HostTries,
        serialVars, clientVars, hostVars, authVars, mainVars, hostSide,
        mainSide, besideAuth, besideMain

-----------------------------------------------------------------------------
(* The initial states. *)

\* Before the mount no frame is under way and no attempt has begun.
LEMMA InitHolds == Init => IInv
<1> SUFFICES ASSUME Init PROVE IInv
  OBVIOUS
<1> USE ProtocolAssumption DEF Init, SerialInit, ClientInit, HostInit, AuthInit
<1>1. ClientTypeOK
  BY DEF ClientTypeOK, Exchange, NoExchange
<1>2. keyfile \in KeyfileTerms
  BY DEF KeyfileTerms
<1>3. hostExch \in Exchange
  BY DEF Exchange, NoExchange
<1>4. HostTypeOK
  <2>1. hostPc \in HostPcs /\ hostPos \in Nat /\ trust \in BOOLEAN
    OBVIOUS
  <2>2. /\ exitCode \in {"none", "success", "failure"}
        /\ tpm \in [key : Keys \cup {NoKey}, pcrsMatch : BOOLEAN]
    OBVIOUS
  <2>3. /\ tries \in 1 .. HostTries
        /\ typed \in {p \in Pass : PassLen[p] >= 8} \cup {NoPass}
        /\ disk \in {"locked", "open"}
    OBVIOUS
  <2> QED
    BY ONLY <2>1, <2>2, <2>3, <1>2, <1>3 DEF HostTypeOK
<1>5. TypesOffTheLine
  BY <1>1, <1>4 DEF TypesOffTheLine
<1>6. Lockstep
  BY DEF Lockstep, BeforeLoad
<1>7. ExchangeAgrees /\ DrawnInTime /\ PositionsAgree /\ LightFollows
  BY DEF ExchangeAgrees, DrawnInTime, PositionsAgree, LightFollows
<1>8. KeystreamFresh
  BY DEF KeystreamFresh
<1>9. LightTellsTheTruth /\ CryptsetupGetsDerivedKeyfile /\ SuccessMeansOpen
  BY DEF LightTellsTheTruth, CryptsetupGetsDerivedKeyfile, SuccessMeansOpen
<1> QED
  BY <1>5, <1>6, <1>7, <1>8, <1>9 DEF IInv

-----------------------------------------------------------------------------
(* Lockstep seen from the app: where the host can be. *)

\* Lockstep read from the other end: where the host can be, and what is on the
\* lines, for each place of the app.
LEMMA SeenFromClient ==
    ASSUME TypesOffTheLine, Lockstep
    PROVE  /\ clientPc \notin {"firmware", "off"} => attached
           /\ clientPc = "start" => hostPc = "rdNonce"
           /\ clientPc = "rdPub" /\ toTkey # <<>> =>
                 \/ hostPc = "rdTkeyPub"
                 \/ hostPc = "tpm"
                 \/ hostPc = "rdAuth" /\ (RefusalSent \/ SignatureSent)
           /\ clientPc = "rdStatus" /\ toTkey # <<>> =>
                 hostPc = "rdAuth" /\ (RefusalSent \/ SignatureSent)
           /\ clientPc = "rdSig" => hostPc = "rdAuth" /\ SignatureSent
           /\ clientPc \in Touching =>
                 \/ hostPc = "rdAuth" /\ Judged
                 \/ hostPc = "rdReady"
           /\ clientPc = "top" =>
                 \/ hostPc = "rdAuth" /\ Judged
                 \/ hostPc \in {"rdReady", "rdPass", "exit"}
           /\ clientPc = "rdHash" /\ toTkey # <<>> => hostPc = "rdPass"
           /\ clientPc = "rdSuccess" /\ toTkey # <<>> =>
                 hostPc \in {"rdReady", "exit"}
           /\ clientPc = "farewell" => hostPc = "exit"
  BY DEF TypesOffTheLine, HostTypeOK, Lockstep, BeforeLoad, WaitingForNonce,
         WaitingForEncNonce, WaitingForTkeyPub, AtTpm, WaitingForAuth,
         RefusalSent, SignatureSent, Judged, WaitingForReady, Asking,
         WaitingForPass, WaitingForKeyfile, Decrypting, HostGone

-----------------------------------------------------------------------------
(* The steps of the app. *)

\* The hello puts three frames on the line, in the order in which the host
\* reads them.
LEMMA ClientHelloKeeps == IInv /\ ClientHello /\ UNCHANGED hostSide => IInv'
<1> SUFFICES ASSUME IInv, ClientHello, UNCHANGED hostSide PROVE IInv'
  OBVIOUS
<1> USE DEF ClientHello
<1>1. attached /\ hostPc = "rdNonce" /\ WaitingForNonce
  BY SeenFromClient DEF IInv, Lockstep
<1>2. clientPc = "start" /\ toHost = <<>> /\ toTkey = <<>> /\ attempts = 0 /\ tries = 1
  BY <1>1 DEF WaitingForNonce
<1>3. clientExch \in Exchange
  BY DEF IInv, TypesOffTheLine, ClientTypeOK
<1>4. /\ toHost' = <<NonceFrame', EncNonceFrame', TkeyPubFrame'>>
      /\ clientExch'.nonce \in Rand /\ clientExch'.encNonce \in Rand
      /\ clientExch'.tkeyPub \in Rand
      /\ clientExch' \in Exchange
  BY <1>2, <1>3, WriteFirst DEF NonceFrame, EncNonceFrame, TkeyPubFrame, Exchange
<1>5. TypesOffTheLine'
  BY <1>4 DEF IInv, TypesOffTheLine, ClientTypeOK, HostTypeOK
<1>6. Lockstep'
  BY <1>1, <1>2, <1>4 DEF Lockstep, WaitingForNonce
<1>7. (ExchangeAgrees /\ DrawnInTime /\ PositionsAgree /\ LightFollows)'
  BY <1>1, <1>2, <1>4 DEF IInv, ExchangeAgrees, DrawnInTime, PositionsAgree,
     LightFollows
<1>8. KeystreamFresh'
  BY DEF IInv, KeystreamFresh
<1>9. (LightTellsTheTruth /\ CryptsetupGetsDerivedKeyfile /\ SuccessMeansOpen)'
  BY <1>1 DEF IInv, LightTellsTheTruth, CryptsetupGetsDerivedKeyfile,
     SuccessMeansOpen
<1> QED
  BY <1>5, <1>6, <1>7, <1>8, <1>9 DEF IInv

\* With the host's public key the app knows the same exchange as the host.
LEMMA ClientReadPubKeeps == IInv /\ ClientReadPub /\ UNCHANGED hostSide => IInv'
<1> SUFFICES ASSUME IInv, ClientReadPub, UNCHANGED hostSide PROVE IInv'
  OBVIOUS
<1> USE DEF ClientReadPub
<1>1. /\ clientPc = "rdPub" /\ attached /\ toTkey # <<>>
      /\ \/ hostPc = "rdTkeyPub" /\ WaitingForTkeyPub
         \/ hostPc = "tpm" /\ AtTpm
         \/ hostPc = "rdAuth" /\ (RefusalSent \/ SignatureSent)
            /\ WaitingForAuth
  BY SeenFromClient DEF IInv, Lockstep, Readable
<1>2. /\ Head(toTkey) = HostPubFrame
      /\ hostPc = "rdTkeyPub" => toHost = <<TkeyPubFrame>> /\ toTkey' = <<>>
                                 /\ attempts = 0 /\ tries = 1
      /\ hostPc = "tpm" => toHost = <<>> /\ toTkey' = <<>>
                           /\ attempts = 0 /\ tries = 1
  <2>1. toTkey' = Tail(toTkey) /\ toHost' = toHost
    OBVIOUS
  <2>2. CASE hostPc = "rdTkeyPub"
    BY ONLY <1>1, <2>1, <2>2, ReadFrame DEF WaitingForTkeyPub, At
  <2>3. CASE hostPc = "tpm"
    BY ONLY <1>1, <2>1, <2>3, ReadFrame DEF AtTpm, At
  <2>4. CASE hostPc = "rdAuth"
    BY ONLY <1>1, <2>4, ReadFrame DEF RefusalSent, SignatureSent, At
  <2> QED
    BY ONLY <1>1, <2>2, <2>3, <2>4
<1>3. /\ clientExch \in Exchange
      /\ hostExch \in Exchange
      /\ clientExch' = [clientExch EXCEPT !.hostPub = hostExch.hostPub]
  BY <1>2 DEF IInv, TypesOffTheLine, ClientTypeOK, HostTypeOK, HostPubFrame, Frame
<1>4. /\ clientExch' \in Exchange
      /\ clientExch'.nonce = clientExch.nonce
      /\ clientExch'.encNonce = clientExch.encNonce
      /\ clientExch'.tkeyPub = clientExch.tkeyPub
      /\ clientExch'.hostPub = hostExch.hostPub
  BY <1>3 DEF Exchange
<1>5. TypesOffTheLine'
  BY <1>4 DEF IInv, TypesOffTheLine, ClientTypeOK, HostTypeOK
<1>6. Lockstep'
  <2>1. CASE hostPc = "rdTkeyPub"
    BY <2>1, <1>1, <1>2, <1>4 DEF Lockstep, WaitingForTkeyPub, TkeyPubFrame
  <2>2. CASE hostPc = "tpm"
    BY <2>2, <1>1, <1>2, <1>4 DEF Lockstep, AtTpm
  <2>3. CASE hostPc = "rdAuth"
    <3>1. tries = 1 /\ attempts = 0
      BY <2>3, <1>1 DEF WaitingForAuth, Judged
    <3>2. RefusalSent => RefusalSent'
      BY <1>1, ReadFrame DEF RefusalSent, Refused
    <3>3. ASSUME SignatureSent PROVE SignatureSent'
      <4>1. PICK wf \in BOOLEAN :
               toHost = <<>> /\ toTkey = <<HostPubFrame, Signed, SigFrame(wf)>>
        BY <1>1, <3>3 DEF SignatureSent
      <4>2. At("rdStatus", <<>>, <<Signed, SigFrame(wf)>>)'
        BY <4>1, ReadFrame DEF Signed, SigFrame
      <4> QED
        BY <3>3, <4>2 DEF SignatureSent
    <3> QED
      BY <2>3, <1>1, <3>1, <3>2, <3>3 DEF Lockstep, WaitingForAuth
  <2> QED
    BY <1>1, <2>1, <2>2, <2>3
<1>7. (ExchangeAgrees /\ DrawnInTime /\ PositionsAgree /\ LightFollows)'
  BY <1>1, <1>4 DEF IInv, ExchangeAgrees, DrawnInTime, PositionsAgree, LightFollows
<1>8. KeystreamFresh'
  BY DEF IInv, KeystreamFresh
<1>9. (LightTellsTheTruth /\ CryptsetupGetsDerivedKeyfile /\ SuccessMeansOpen)'
  BY <1>1 DEF IInv, LightTellsTheTruth, CryptsetupGetsDerivedKeyfile,
     SuccessMeansOpen
<1> QED
  BY <1>5, <1>6, <1>7, <1>8, <1>9 DEF IInv

\* The app either goes on to the signature behind the status byte, or reports
\* the refusal and waits for a touch.
LEMMA ClientReadStatusKeeps ==
    IInv /\ ClientReadStatus /\ UNCHANGED hostSide => IInv'
<1> SUFFICES ASSUME IInv, ClientReadStatus, UNCHANGED hostSide PROVE IInv'
  OBVIOUS
<1> USE DEF ClientReadStatus
<1>1. /\ clientPc = "rdStatus" /\ attached /\ hostPc = "rdAuth"
      /\ RefusalSent \/ SignatureSent
      /\ tries = 1 /\ attempts = 0
  BY SeenFromClient DEF IInv, Lockstep, Readable, WaitingForAuth, Judged
<1>2. TypesOffTheLine'
  BY DEF IInv, TypesOffTheLine, ClientTypeOK, HostTypeOK, AfterRefusal
<1>3. Lockstep'
  <2>1. CASE RefusalSent
    <3>1. toHost = <<>> /\ toTkey = <<Refused>>
      BY <1>1, <2>1 DEF RefusalSent
    <3>2. At("touchYellow", <<InvalidSig>>, <<>>)'
      BY <3>1, ReadFrame, WriteFirst, ClientDecodes DEF InvalidSig, AfterRefusal
    <3>3. led = "off"
      BY <1>1 DEF IInv, LightFollows
    <3> QED
      BY <1>1, <3>2, <3>3 DEF Lockstep, WaitingForAuth, Judged
  <2>2. CASE SignatureSent
    <3>1. PICK wf \in BOOLEAN : toHost = <<>> /\ toTkey = <<Signed, SigFrame(wf)>>
      BY <1>1, <2>2 DEF SignatureSent
    <3>2. At("rdSig", <<>>, <<SigFrame(wf)>>)'
      BY <3>1, ReadFrame, ClientDecodes DEF SigFrame
    <3>3. SignatureSent'
      BY <2>2, <3>2 DEF SignatureSent
    <3> QED
      BY <1>1, <3>3 DEF Lockstep, WaitingForAuth
  <2> QED
    BY <1>1, <2>1, <2>2
<1>4. (ExchangeAgrees /\ DrawnInTime /\ PositionsAgree /\ LightFollows)'
  BY <1>1 DEF IInv, ExchangeAgrees, DrawnInTime, PositionsAgree, LightFollows,
     AfterRefusal
<1>5. KeystreamFresh'
  BY DEF IInv, KeystreamFresh
<1>6. (LightTellsTheTruth /\ CryptsetupGetsDerivedKeyfile /\ SuccessMeansOpen)'
  BY <1>1 DEF IInv, LightTellsTheTruth, CryptsetupGetsDerivedKeyfile,
     SuccessMeansOpen, AfterRefusal
<1> QED
  BY <1>2, <1>3, <1>4, <1>5, <1>6 DEF IInv

\* Green only for a signature of the baked key over the app's own exchange; a
\* signature that does not parse ends the app.
LEMMA ClientReadSigKeeps == IInv /\ ClientReadSig /\ UNCHANGED hostSide => IInv'
<1> SUFFICES ASSUME IInv, ClientReadSig, UNCHANGED hostSide PROVE IInv'
  OBVIOUS
<1> USE DEF ClientReadSig
<1>1. /\ clientPc = "rdSig" /\ attached /\ hostPc = "rdAuth" /\ SignatureSent
      /\ tries = 1 /\ attempts = 0 /\ led = "off"
  BY SeenFromClient
     DEF IInv, Lockstep, WaitingForAuth, RefusalSent, Judged, LightFollows
<1>2. PICK wf \in BOOLEAN : toHost = <<>> /\ toTkey = <<SigFrame(wf)>>
  BY <1>1 DEF SignatureSent
<1>3. toTkey' = <<>> /\ VerifySig(SigFrame(wf).data)
  BY <1>2, ReadFrame
<1>4. /\ SigFrame(wf).data.wellFormed = wf
      /\ SigFrame(wf).data.signer = tpm.key
      /\ SigFrame(wf).data.over = HostChallenge(hostExch)
  BY DEF SigFrame, Frame
<1>5. \/ clientPc' = "top" /\ led' = "green" /\ toHost' = <<GoodSig>>
         /\ SigVerifies(SigFrame(wf).data)
      \/ clientPc' = "touchPurple" /\ led' = led /\ toHost' = <<InvalidSig>>
         /\ ~SigVerifies(SigFrame(wf).data)
      \/ clientPc' = "abort" /\ led' = "red" /\ toHost' = <<MalformedSig>>
  BY <1>2, <1>3, WriteFirst DEF VerifySig, GoodSig, InvalidSig, MalformedSig
<1>6. TypesOffTheLine'
  BY <1>5 DEF IInv, TypesOffTheLine, ClientTypeOK, HostTypeOK
<1>7. Lockstep'
  <2>1. Judged'
    BY <1>1, <1>3, <1>5 DEF Judged, SignatureSent, GoodSig, InvalidSig, MalformedSig
  <2> QED
    BY <1>1, <2>1 DEF Lockstep, WaitingForAuth
<1>8. /\ hostExch = clientExch
      /\ clientPc' = "top" => tpm.key = BakedKey[app] /\ tpm.pcrsMatch
      /\ clientPc' = "touchPurple" => tpm.key # BakedKey[app]
  <2>1. hostExch \in Exchange /\ clientExch \in Exchange
    BY DEF IInv, TypesOffTheLine, ClientTypeOK, HostTypeOK
  <2>2. hostExch = clientExch
    BY <1>1, <2>1 DEF IInv, ExchangeAgrees, Exchange
  <2>3. HostChallenge(hostExch) = ClientChallenge(clientExch)
    BY <2>2 DEF HostChallenge, ClientChallenge
  <2>4. SigVerifies(SigFrame(wf).data) <=> tpm.key = BakedKey[app]
    BY <1>4, <2>3 DEF SigVerifies
  <2> QED
    BY <1>1, <1>5, <2>2, <2>4 DEF SignatureSent
<1>9. (ExchangeAgrees /\ DrawnInTime /\ PositionsAgree /\ LightFollows)'
  BY <1>1, <1>5, <1>8 DEF IInv, ExchangeAgrees, DrawnInTime, PositionsAgree,
     LightFollows
<1>10. KeystreamFresh'
  BY DEF IInv, KeystreamFresh
<1>11. LightTellsTheTruth'
  BY <1>1, <1>5, <1>8 DEF LightTellsTheTruth
<1>12. (CryptsetupGetsDerivedKeyfile /\ SuccessMeansOpen)'
  BY <1>1, <1>5 DEF IInv, CryptsetupGetsDerivedKeyfile, SuccessMeansOpen
<1> QED
  BY <1>6, <1>7, <1>9, <1>10, <1>11, <1>12 DEF IInv

\* A touch opens the loop with a light that is not green, and the host's trust
\* has been withdrawn.
LEMMA ClientTouchedKeeps == IInv /\ ClientTouched /\ UNCHANGED hostSide => IInv'
<1> SUFFICES ASSUME IInv, ClientTouched, UNCHANGED hostSide PROVE IInv'
  OBVIOUS
<1> USE DEF ClientTouched
<1>1. /\ attached
      /\ \/ hostPc = "rdAuth" /\ Judged /\ tries = 1
         \/ hostPc = "rdReady" /\ WaitingForReady
  BY SeenFromClient DEF IInv, Lockstep, WaitingForAuth
<1>2. TypesOffTheLine'
  BY DEF IInv, TypesOffTheLine, ClientTypeOK, HostTypeOK
<1>3. Lockstep'
  <2>1. CASE hostPc = "rdAuth"
    <3>1. Judged'
      BY <1>1, <2>1 DEF Judged, InvalidSig
    <3> QED
      BY <1>1, <2>1, <3>1 DEF Lockstep, WaitingForAuth
  <2>2. CASE hostPc = "rdReady"
    BY <1>1, <2>2 DEF Lockstep, WaitingForReady
  <2> QED
    BY <1>1, <2>1, <2>2
<1>4. hostExch = clientExch
  <2>1. hostExch \in Exchange /\ clientExch \in Exchange
    BY DEF IInv, TypesOffTheLine, ClientTypeOK, HostTypeOK
  <2> QED
    BY <1>1, <2>1 DEF IInv, ExchangeAgrees, Exchange
<1>5. (ExchangeAgrees /\ DrawnInTime /\ PositionsAgree)'
  BY <1>1, <1>4 DEF IInv, ExchangeAgrees, DrawnInTime, PositionsAgree
<1>6. LightFollows'
  BY <1>1 DEF IInv, LightFollows, WaitingForReady
<1>7. KeystreamFresh'
  BY DEF IInv, KeystreamFresh
<1>8. (LightTellsTheTruth /\ CryptsetupGetsDerivedKeyfile /\ SuccessMeansOpen)'
  BY <1>1 DEF IInv, LightTellsTheTruth, CryptsetupGetsDerivedKeyfile,
     SuccessMeansOpen
<1> QED
  BY <1>2, <1>3, <1>5, <1>6, <1>7, <1>8 DEF IInv

\* An app that gives up waiting for a touch says nothing: what is on the line
\* stays.
LEMMA ClientTouchTimeoutKeeps ==
    IInv /\ ClientTouchTimeout /\ UNCHANGED hostSide => IInv'
<1> SUFFICES ASSUME IInv, ClientTouchTimeout, UNCHANGED hostSide PROVE IInv'
  OBVIOUS
<1> USE DEF ClientTouchTimeout
<1>1. /\ attached
      /\ \/ hostPc = "rdAuth" /\ Judged /\ tries = 1
         \/ hostPc = "rdReady" /\ WaitingForReady
  BY SeenFromClient DEF IInv, Lockstep, WaitingForAuth
<1>2. TypesOffTheLine'
  BY DEF IInv, TypesOffTheLine, ClientTypeOK, HostTypeOK
<1>3. Lockstep'
  <2>1. CASE hostPc = "rdAuth"
    <3>1. Judged'
      BY <1>1, <2>1 DEF Judged, InvalidSig
    <3> QED
      BY <1>1, <2>1, <3>1 DEF Lockstep, WaitingForAuth
  <2>2. CASE hostPc = "rdReady"
    BY <1>1, <2>2 DEF Lockstep, WaitingForReady
  <2> QED
    BY <1>1, <2>1, <2>2
<1>4. (ExchangeAgrees /\ DrawnInTime /\ PositionsAgree /\ LightFollows)'
  BY <1>1 DEF IInv, ExchangeAgrees, DrawnInTime, PositionsAgree, LightFollows
<1>5. KeystreamFresh'
  BY DEF IInv, KeystreamFresh
<1>6. (LightTellsTheTruth /\ CryptsetupGetsDerivedKeyfile /\ SuccessMeansOpen)'
  BY <1>1 DEF IInv, LightTellsTheTruth, CryptsetupGetsDerivedKeyfile,
     SuccessMeansOpen
<1> QED
  BY <1>2, <1>3, <1>4, <1>5, <1>6 DEF IInv

\* Ready4pass begins an attempt, behind a status byte that the host may yet
\* have to read.
LEMMA ClientReadyKeeps == IInv /\ ClientReady /\ UNCHANGED hostSide => IInv'
<1> SUFFICES ASSUME IInv, ClientReady, UNCHANGED hostSide PROVE IInv'
  OBVIOUS
<1> USE DEF ClientReady, MayAttempt
<1>1. /\ attached
      /\ \/ hostPc = "rdAuth" /\ Judged /\ tries = 1
         \/ hostPc = "rdReady" /\ WaitingForReady
         \/ hostPc = "rdPass" /\ WaitingForPass
         \/ hostPc = "exit" /\ HostGone
  BY SeenFromClient DEF IInv, Lockstep, WaitingForAuth
<1>2. attempts \in 0 .. 3 /\ tries \in 1 .. 3 /\ clientPos \in Nat /\ hostPos \in Nat
  BY DEF IInv, TypesOffTheLine, ClientTypeOK, HostTypeOK
<1>3. TypesOffTheLine'
  BY <1>2 DEF IInv, TypesOffTheLine, ClientTypeOK, HostTypeOK
<1>4. Lockstep'
  <2>1. CASE hostPc = "rdAuth"
    <3>1. /\ toTkey = <<>> /\ attempts = 0
          /\ \/ toHost = <<GoodSig>> /\ trust /\ led = "green"
             \/ toHost = <<InvalidSig>> /\ led # "green"
      BY <1>1, <2>1 DEF Judged
    <3>2. \/ toHost' = <<GoodSig, Ready>> /\ trust /\ led = "green"
          \/ toHost' = <<InvalidSig, Ready>> /\ led # "green"
      BY <3>1, WriteSecond DEF Ready
    <3>3. Judged'
      BY <3>1, <3>2 DEF Judged, GoodSig, InvalidSig, Ready
    <3> QED
      BY <1>1, <2>1, <3>3 DEF Lockstep, WaitingForAuth
  <2>2. CASE hostPc = "rdReady"
    <3>1. toHost = <<>> /\ toTkey = <<>> /\ tries = attempts + 1
      BY <1>1, <2>2 DEF WaitingForReady
    <3> QED
      BY <1>1, <1>2, <2>2, <3>1, WriteFirst DEF Lockstep, WaitingForReady, Ready
  <2>3. CASE hostPc = "rdPass"
    <3>1. /\ toHost = <<Blake2Failed>> /\ toTkey = <<>>
          /\ tries = attempts /\ clientPos = hostPos
      BY <1>1, <2>3 DEF WaitingForPass
    <3> QED
      BY <1>1, <1>2, <2>3, <3>1, WriteSecond
         DEF Lockstep, WaitingForPass, Ready, Blake2Failed
  <2>4. CASE hostPc = "exit"
    <3>1. toHost = <<>> /\ toTkey = <<>>
      BY <1>1, <2>4 DEF HostGone
    <3> QED
      BY <1>1, <2>4, <3>1, WriteFirst DEF Lockstep, HostGone, Ready
  <2> QED
    BY <1>1, <2>1, <2>2, <2>3, <2>4
<1>5. (ExchangeAgrees /\ DrawnInTime /\ PositionsAgree /\ LightFollows)'
  BY <1>1 DEF IInv, ExchangeAgrees, DrawnInTime, PositionsAgree, LightFollows
<1>6. KeystreamFresh'
  BY DEF IInv, KeystreamFresh
<1>7. (LightTellsTheTruth /\ CryptsetupGetsDerivedKeyfile /\ SuccessMeansOpen)'
  BY <1>1 DEF IInv, LightTellsTheTruth, CryptsetupGetsDerivedKeyfile,
     SuccessMeansOpen
<1> QED
  BY <1>3, <1>4, <1>5, <1>6, <1>7 DEF IInv

\* After three attempts the app is silent; the host has heard of each.
LEMMA ClientGiveUpKeeps == IInv /\ ClientGiveUp /\ UNCHANGED hostSide => IInv'
<1> SUFFICES ASSUME IInv, ClientGiveUp, UNCHANGED hostSide PROVE IInv'
  OBVIOUS
<1> USE DEF ClientGiveUp, MayAttempt
<1>1. /\ attached
      /\ \/ hostPc = "rdAuth" /\ Judged /\ tries = 1
         \/ hostPc = "rdReady" /\ WaitingForReady
         \/ hostPc = "rdPass" /\ WaitingForPass
         \/ hostPc = "exit" /\ HostGone
  BY SeenFromClient DEF IInv, Lockstep, WaitingForAuth
<1>2. TypesOffTheLine'
  BY DEF IInv, TypesOffTheLine, ClientTypeOK, HostTypeOK
<1>3. Lockstep'
  <2>1. CASE hostPc = "rdAuth"
    BY <1>1, <2>1 DEF Judged
  <2>2. CASE hostPc = "rdReady"
    BY <1>1, <2>2 DEF Lockstep, WaitingForReady
  <2>3. CASE hostPc = "rdPass"
    BY <1>1, <2>3 DEF Lockstep, WaitingForPass, Blake2Failed
  <2>4. CASE hostPc = "exit"
    BY <1>1, <2>4 DEF Lockstep, HostGone
  <2> QED
    BY <1>1, <2>1, <2>2, <2>3, <2>4
<1>4. (ExchangeAgrees /\ DrawnInTime /\ PositionsAgree /\ LightFollows)'
  BY <1>1 DEF IInv, ExchangeAgrees, DrawnInTime, PositionsAgree, LightFollows
<1>5. KeystreamFresh'
  BY DEF IInv, KeystreamFresh
<1>6. (LightTellsTheTruth /\ CryptsetupGetsDerivedKeyfile /\ SuccessMeansOpen)'
  BY <1>1 DEF IInv, LightTellsTheTruth, CryptsetupGetsDerivedKeyfile,
     SuccessMeansOpen
<1> QED
  BY <1>2, <1>3, <1>4, <1>5, <1>6 DEF IInv


\* The app answers a hash with GoodPass and the keyfile, encrypted with the
\* block after the one that decrypted the hash.
LEMMA ClientDeriveKeyfileKeeps ==
    IInv /\ ClientDeriveKeyfile /\ UNCHANGED hostSide => IInv'
<1> SUFFICES ASSUME IInv, ClientDeriveKeyfile, UNCHANGED hostSide PROVE IInv'
  OBVIOUS
<1> USE DEF ClientDeriveKeyfile
<1>1. attached /\ hostPc = "rdPass" /\ WaitingForPass /\ clientPc = "rdHash"
      /\ toTkey # <<>>
  BY SeenFromClient DEF IInv, Lockstep, Readable
<1>2. /\ toHost = <<>> /\ toTkey = <<HashFrame>>
      /\ tries = attempts /\ hostPos = clientPos + 1
  BY <1>1 DEF WaitingForPass
<1>3. hostExch = clientExch /\ clientPos \in Nat
  BY <1>1 DEF IInv, ExchangeAgrees, TypesOffTheLine, ClientTypeOK
<1> DEFINE ct == Encrypt(StreamKey(clientExch), clientPos + 1,
                         Blake2s(app, Argon2(typed)))
<1>4. Decrypt(StreamKey(clientExch), clientPos, Head(toTkey).data) = Argon2(typed)
  BY <1>2, <1>3, ReadFrame DEF HashFrame, Frame, Decrypt, Encrypt
<1>5. /\ toHost' = <<GoodPass, Frame("cipher", ct)>>
      /\ toTkey' = <<>>
      /\ sniffed' = sniffed \cup {ct}
  BY <1>2, <1>4, ReadFrame, WriteFirst DEF KeyfileReply, GoodPass, ReplyPos
<1>6. Frame("cipher", ct) = KeyfileFrame'
  BY <1>2 DEF KeyfileFrame
<1>7. ct.pos = clientPos + 1
  BY DEF Encrypt
<1> HIDE DEF ct
<1>8. TypesOffTheLine'
  BY <1>3, <1>5, <1>7 DEF IInv, TypesOffTheLine, ClientTypeOK, HostTypeOK
<1>9. Lockstep'
  BY <1>1, <1>2, <1>3, <1>5, <1>6 DEF Lockstep, WaitingForPass, GoodPass
<1>10. (ExchangeAgrees /\ DrawnInTime /\ PositionsAgree /\ LightFollows)'
  BY <1>1 DEF IInv, ExchangeAgrees, DrawnInTime, PositionsAgree, LightFollows
<1>11. \A x \in sniffed : x.pos \in Nat /\ x.pos < clientPos + 1
  BY <1>1, <1>2, <1>3 DEF IInv, KeystreamFresh, TypesOffTheLine
<1>12. KeystreamFresh'
  BY <1>1, <1>2, <1>3, <1>5, <1>7, <1>11 DEF IInv, KeystreamFresh
<1>13. (LightTellsTheTruth /\ CryptsetupGetsDerivedKeyfile /\ SuccessMeansOpen)'
  BY <1>1 DEF IInv, LightTellsTheTruth, CryptsetupGetsDerivedKeyfile,
     SuccessMeansOpen
<1> QED
  BY <1>8, <1>9, <1>10, <1>12, <1>13 DEF IInv

\* After a Blake2 failure the app has used one block of its stream, as many as
\* the host.
LEMMA ClientBlake2FailsKeeps ==
    IInv /\ ClientBlake2Fails /\ UNCHANGED hostSide => IInv'
<1> SUFFICES ASSUME IInv, ClientBlake2Fails, UNCHANGED hostSide PROVE IInv'
  OBVIOUS
<1> USE DEF ClientBlake2Fails, AfterBlake2
<1>1. attached /\ hostPc = "rdPass" /\ WaitingForPass /\ toTkey # <<>>
  BY SeenFromClient DEF IInv, Lockstep, Readable
<1>2. /\ toHost = <<>> /\ toTkey = <<HashFrame>>
      /\ tries = attempts /\ hostPos = clientPos + 1
  BY <1>1 DEF WaitingForPass
<1>3. clientPos \in Nat
  BY DEF IInv, TypesOffTheLine, ClientTypeOK
<1>4. toHost' = <<Blake2Failed>> /\ toTkey' = <<>> /\ clientPos' = hostPos
  BY <1>2, <1>3, ReadFrame, WriteFirst DEF Blake2Failed
<1>5. TypesOffTheLine'
  BY <1>3 DEF IInv, TypesOffTheLine, ClientTypeOK, HostTypeOK
<1>6. Lockstep'
  BY <1>1, <1>2, <1>4 DEF Lockstep, WaitingForPass, Blake2Failed
<1>7. (ExchangeAgrees /\ DrawnInTime /\ PositionsAgree /\ LightFollows)'
  BY <1>1 DEF IInv, ExchangeAgrees, DrawnInTime, PositionsAgree, LightFollows
<1>8. KeystreamFresh'
  BY <1>1, <1>2, <1>3, <1>4 DEF IInv, KeystreamFresh, TypesOffTheLine
<1>9. (LightTellsTheTruth /\ CryptsetupGetsDerivedKeyfile /\ SuccessMeansOpen)'
  BY <1>1 DEF IInv, LightTellsTheTruth, CryptsetupGetsDerivedKeyfile,
     SuccessMeansOpen
<1> QED
  BY <1>5, <1>6, <1>7, <1>8, <1>9 DEF IInv

\* The app leaves the loop on DecryptionSuccess, which the host sends for an
\* open disk only.
LEMMA ClientReadSuccessKeeps ==
    IInv /\ ClientReadSuccess /\ UNCHANGED hostSide => IInv'
<1> SUFFICES ASSUME IInv, ClientReadSuccess, UNCHANGED hostSide PROVE IInv'
  OBVIOUS
<1> USE DEF ClientReadSuccess
<1>1. /\ attached /\ toTkey # <<>> /\ clientPc = "rdSuccess"
      /\ \/ hostPc = "rdReady" /\ WaitingForReady
         \/ hostPc = "exit" /\ HostGone
  BY SeenFromClient DEF IInv, Lockstep, Readable
<1>2. \/ toTkey = <<TryAgain>> /\ hostPc = "rdReady" /\ tries = attempts + 1
      \/ toTkey = <<TryAgain>> /\ hostPc = "exit"
      \/ toTkey = <<DiskOpened>> /\ hostPc = "exit" /\ disk = "open"
  BY <1>1 DEF WaitingForReady, HostGone
<1>3. toHost = <<>>
  BY <1>1 DEF WaitingForReady, HostGone
<1>4. /\ toTkey' = <<>>
      /\ \/ clientPc' = "top" /\ led' = led
         \/ clientPc' = "farewell" /\ led' = "green" /\ hostPc = "exit"
            /\ disk = "open"
  BY <1>2, ReadFrame, ClientDecodes
<1>5. TypesOffTheLine'
  BY <1>4 DEF IInv, TypesOffTheLine, ClientTypeOK, HostTypeOK
<1>6. Lockstep'
  BY <1>1, <1>2, <1>3, <1>4 DEF Lockstep, WaitingForReady, HostGone
<1>7. (ExchangeAgrees /\ DrawnInTime /\ PositionsAgree /\ LightFollows)'
  BY <1>1, <1>4 DEF IInv, ExchangeAgrees, DrawnInTime, PositionsAgree, LightFollows
<1>8. KeystreamFresh'
  BY DEF IInv, KeystreamFresh
<1>9. (LightTellsTheTruth /\ CryptsetupGetsDerivedKeyfile /\ SuccessMeansOpen)'
  BY <1>1, <1>4 DEF IInv, LightTellsTheTruth, CryptsetupGetsDerivedKeyfile,
     SuccessMeansOpen
<1> QED
  BY <1>5, <1>6, <1>7, <1>8, <1>9 DEF IInv

\* The light goes out after an unlock; the host is gone.
LEMMA ClientDoneKeeps == IInv /\ ClientDone /\ UNCHANGED hostSide => IInv'
<1> SUFFICES ASSUME IInv, ClientDone, UNCHANGED hostSide PROVE IInv'
  OBVIOUS
<1> USE DEF ClientDone
<1>1. attached /\ hostPc = "exit" /\ HostGone
  BY SeenFromClient DEF IInv, Lockstep
<1>2. TypesOffTheLine'
  BY DEF IInv, TypesOffTheLine, ClientTypeOK, HostTypeOK
<1>3. Lockstep'
  BY <1>1 DEF Lockstep, HostGone
<1>4. (ExchangeAgrees /\ DrawnInTime /\ PositionsAgree /\ LightFollows)'
  BY <1>1 DEF IInv, ExchangeAgrees, DrawnInTime, PositionsAgree, LightFollows
<1>5. KeystreamFresh'
  BY DEF IInv, KeystreamFresh
<1>6. (LightTellsTheTruth /\ CryptsetupGetsDerivedKeyfile /\ SuccessMeansOpen)'
  BY <1>1 DEF IInv, LightTellsTheTruth, CryptsetupGetsDerivedKeyfile,
     SuccessMeansOpen
<1> QED
  BY <1>2, <1>3, <1>4, <1>5, <1>6 DEF IInv


-----------------------------------------------------------------------------
(* The steps of the host library. *)

\* Reading from the line takes an attached TKey.
LEMMA SomethingToRead ==
    ASSUME Lockstep, toHost # <<>> \/ toTkey # <<>>
    PROVE  attached
  BY DEF Lockstep

\* load_app starts the app and leaves both lines empty.
LEMMA LoadAppKeeps == IInv /\ LoadApp => IInv'
<1> SUFFICES ASSUME IInv, LoadApp PROVE IInv'
  OBVIOUS
<1> USE DEF LoadApp, HostLoads, ClientBoot
<1>1. BeforeLoad
  BY DEF IInv, Lockstep
<1>2. TypesOffTheLine'
  BY DEF IInv, TypesOffTheLine, ClientTypeOK, HostTypeOK
<1>3. Lockstep'
  BY <1>1 DEF Lockstep, BeforeLoad, WaitingForNonce
<1>4. (ExchangeAgrees /\ DrawnInTime /\ PositionsAgree /\ LightFollows)'
  BY DEF IInv, ExchangeAgrees, DrawnInTime, PositionsAgree, LightFollows
<1>5. KeystreamFresh'
  BY DEF IInv, KeystreamFresh
<1>6. (LightTellsTheTruth /\ CryptsetupGetsDerivedKeyfile /\ SuccessMeansOpen)'
  BY DEF IInv, LightTellsTheTruth, CryptsetupGetsDerivedKeyfile, SuccessMeansOpen
<1> QED
  BY <1>2, <1>3, <1>4, <1>5, <1>6 DEF IInv

\* The first frame of the hello is the nonce.
LEMMA HostReadNonceKeeps == IInv /\ HostReadNonce /\ UNCHANGED besideAuth => IInv'
<1> SUFFICES ASSUME IInv, HostReadNonce, UNCHANGED besideAuth PROVE IInv'
  OBVIOUS
<1> USE DEF HostReadNonce
<1>1. attached /\ WaitingForNonce /\ toHost # <<>>
  BY SomethingToRead DEF IInv, Lockstep, Readable
<1>2. /\ clientPc = "rdPub" /\ attempts = 0 /\ tries = 1
      /\ toHost = <<NonceFrame, EncNonceFrame, TkeyPubFrame>> /\ toTkey = <<>>
  BY <1>1 DEF WaitingForNonce
<1>3. /\ hostExch' = [hostExch EXCEPT !.nonce = clientExch.nonce]
      /\ toHost' = <<EncNonceFrame, TkeyPubFrame>>
  BY <1>2, ReadFrame DEF NonceFrame, Frame
<1>4. TypesOffTheLine'
  BY <1>2, <1>3
     DEF IInv, DrawnInTime, TypesOffTheLine, ClientTypeOK, HostTypeOK, Exchange
<1>5. Lockstep'
  BY <1>1, <1>2, <1>3 DEF Lockstep, WaitingForEncNonce, EncNonceFrame, TkeyPubFrame
<1>6. (ExchangeAgrees /\ DrawnInTime /\ PositionsAgree /\ LightFollows)'
  BY <1>2, <1>3 DEF IInv, TypesOffTheLine, HostTypeOK, Exchange, ExchangeAgrees,
     DrawnInTime, PositionsAgree, LightFollows
<1>7. KeystreamFresh'
  BY DEF IInv, KeystreamFresh
<1>8. (LightTellsTheTruth /\ CryptsetupGetsDerivedKeyfile /\ SuccessMeansOpen)'
  BY <1>2 DEF IInv, LightTellsTheTruth, CryptsetupGetsDerivedKeyfile,
     SuccessMeansOpen
<1> QED
  BY <1>4, <1>5, <1>6, <1>7, <1>8 DEF IInv

\* The second is the encryption nonce; the host's public key goes out.
LEMMA HostReadEncNonceKeeps ==
    IInv /\ HostReadEncNonce /\ UNCHANGED besideAuth => IInv'
<1> SUFFICES ASSUME IInv, HostReadEncNonce, UNCHANGED besideAuth PROVE IInv'
  OBVIOUS
<1> USE DEF HostReadEncNonce
<1>1. attached /\ WaitingForEncNonce
  BY SomethingToRead DEF IInv, Lockstep, Readable
<1>2. /\ clientPc = "rdPub" /\ attempts = 0 /\ tries = 1
      /\ toHost = <<EncNonceFrame, TkeyPubFrame>> /\ toTkey = <<>>
  BY <1>1 DEF WaitingForEncNonce
<1> DEFINE read == Head(toHost).data
<1>3. read = clientExch.encNonce
  BY <1>2, ReadFrame DEF EncNonceFrame, Frame
<1>4. \A hostPub : Append(toTkey, Frame("pub", hostPub)) = <<Frame("pub", hostPub)>>
  BY <1>2, WriteFirst
<1> HIDE DEF read
<1>5. PICK hostPub \in Rand :
         /\ hostExch' = [hostExch EXCEPT !.encNonce = clientExch.encNonce,
                                         !.hostPub = hostPub]
         /\ toTkey' = <<Frame("pub", hostPub)>>
  BY <1>3, <1>4 DEF read
<1>6. toHost' = <<TkeyPubFrame>>
  BY <1>2, ReadFrame
<1>7. hostExch \in Exchange
  BY DEF IInv, TypesOffTheLine, HostTypeOK
<1>8. /\ hostExch'.encNonce = clientExch.encNonce /\ hostExch'.hostPub = hostPub
      /\ hostExch'.nonce = hostExch.nonce
      /\ hostExch' \in Exchange
  BY <1>2, <1>5, <1>7 DEF IInv, DrawnInTime, Exchange
<1>9. TypesOffTheLine'
  BY <1>8 DEF IInv, TypesOffTheLine, ClientTypeOK, HostTypeOK
<1>10. Lockstep'
  BY <1>1, <1>2, <1>5, <1>6, <1>8 DEF Lockstep, WaitingForTkeyPub, TkeyPubFrame,
     HostPubFrame
<1>11. (ExchangeAgrees /\ DrawnInTime /\ PositionsAgree /\ LightFollows)'
  BY <1>2, <1>8 DEF IInv, ExchangeAgrees, DrawnInTime, PositionsAgree, LightFollows
<1>12. KeystreamFresh'
  BY DEF IInv, KeystreamFresh
<1>13. (LightTellsTheTruth /\ CryptsetupGetsDerivedKeyfile /\ SuccessMeansOpen)'
  BY <1>2 DEF IInv, LightTellsTheTruth, CryptsetupGetsDerivedKeyfile,
     SuccessMeansOpen
<1> QED
  BY <1>9, <1>10, <1>11, <1>12, <1>13 DEF IInv

\* The third is the app's public key: the host now knows the exchange.
LEMMA HostReadTkeyPubKeeps ==
    IInv /\ HostReadTkeyPub /\ UNCHANGED besideAuth => IInv'
<1> SUFFICES ASSUME IInv, HostReadTkeyPub, UNCHANGED besideAuth PROVE IInv'
  OBVIOUS
<1> USE DEF HostReadTkeyPub
<1>1. attached /\ WaitingForTkeyPub
  BY SomethingToRead DEF IInv, Lockstep, Readable
<1>2. /\ clientPc \in {"rdPub", "rdStatus"} /\ attempts = 0 /\ tries = 1
      /\ toHost = <<TkeyPubFrame>>
      /\ clientPc = "rdPub" => toTkey = <<HostPubFrame>>
      /\ clientPc = "rdStatus" => toTkey = <<>>
  BY <1>1 DEF WaitingForTkeyPub
<1>3. /\ hostExch' = [hostExch EXCEPT !.tkeyPub = clientExch.tkeyPub]
      /\ toHost' = <<>>
  BY <1>2, ReadFrame DEF TkeyPubFrame, Frame
<1>4. hostExch \in Exchange
  BY DEF IInv, TypesOffTheLine, HostTypeOK
<1>5. /\ hostExch' \in Exchange
      /\ hostExch'.nonce = hostExch.nonce /\ hostExch'.encNonce = hostExch.encNonce
      /\ hostExch'.hostPub = hostExch.hostPub
      /\ hostExch'.tkeyPub = clientExch.tkeyPub
  BY <1>2, <1>3, <1>4 DEF IInv, DrawnInTime, Exchange
<1>6. TypesOffTheLine'
  BY <1>5 DEF IInv, TypesOffTheLine, ClientTypeOK, HostTypeOK
<1>7. Lockstep'
  BY <1>1, <1>2, <1>3, <1>5 DEF Lockstep, AtTpm, HostPubFrame
<1>8. (ExchangeAgrees /\ DrawnInTime /\ PositionsAgree /\ LightFollows)'
  BY <1>1, <1>2, <1>5 DEF IInv, ExchangeAgrees, DrawnInTime, PositionsAgree,
     LightFollows
<1>9. KeystreamFresh'
  BY DEF IInv, KeystreamFresh
<1>10. (LightTellsTheTruth /\ CryptsetupGetsDerivedKeyfile /\ SuccessMeansOpen)'
  BY <1>2 DEF IInv, LightTellsTheTruth, CryptsetupGetsDerivedKeyfile,
     SuccessMeansOpen
<1> QED
  BY <1>6, <1>7, <1>8, <1>9, <1>10 DEF IInv

\* The TPM signs what the host knows of the exchange, and only with matching
\* PCRs.
LEMMA TpmSignsKeeps == IInv /\ TpmSigns /\ UNCHANGED besideAuth => IInv'
<1> SUFFICES ASSUME IInv, TpmSigns, UNCHANGED besideAuth PROVE IInv'
  OBVIOUS
<1> USE DEF TpmSigns, TpmWouldSign
<1>1. AtTpm
  BY DEF IInv, Lockstep
<1>2. PICK wf \in BOOLEAN : toTkey' = toTkey \o <<Signed, SigFrame(wf)>>
  BY DEF Signed, SigFrame
<1>3. SignatureSent' /\ attempts = 0 /\ tries = 1
  <2>1. CASE clientPc = "rdPub"
    <3>1. toHost = <<>> /\ toTkey = <<HostPubFrame>>
      BY <1>1, <2>1 DEF AtTpm
    <3>2. At("rdPub", <<>>, <<HostPubFrame, Signed, SigFrame(wf)>>)'
      BY <1>2, <2>1, <3>1, WriteTwoMore DEF HostPubFrame, Signed, SigFrame
    <3> QED
      BY <1>1, <3>2 DEF SignatureSent, AtTpm
  <2>2. CASE clientPc = "rdStatus"
    <3>1. toHost = <<>> /\ toTkey = <<>>
      BY <1>1, <2>2 DEF AtTpm
    <3>2. At("rdStatus", <<>>, <<Signed, SigFrame(wf)>>)'
      BY <1>2, <2>2, <3>1, WriteFirst DEF Signed, SigFrame
    <3> QED
      BY <1>1, <3>2 DEF SignatureSent, AtTpm
  <2> QED
    BY <1>1, <2>1, <2>2 DEF AtTpm
<1>4. TypesOffTheLine'
  BY DEF IInv, TypesOffTheLine, ClientTypeOK, HostTypeOK
<1>5. Lockstep'
  BY <1>3 DEF Lockstep, WaitingForAuth
<1>6. (ExchangeAgrees /\ DrawnInTime /\ PositionsAgree /\ LightFollows)'
  BY DEF IInv, ExchangeAgrees, DrawnInTime, PositionsAgree, LightFollows
<1>7. KeystreamFresh'
  BY DEF IInv, KeystreamFresh
<1>8. (LightTellsTheTruth /\ CryptsetupGetsDerivedKeyfile /\ SuccessMeansOpen)'
  BY DEF IInv, LightTellsTheTruth, CryptsetupGetsDerivedKeyfile, SuccessMeansOpen
<1> QED
  BY <1>4, <1>5, <1>6, <1>7, <1>8 DEF IInv

\* A refusal is one byte, and leaves no trust.
LEMMA TpmRefusesKeeps == IInv /\ TpmRefuses /\ UNCHANGED besideAuth => IInv'
<1> SUFFICES ASSUME IInv, TpmRefuses, UNCHANGED besideAuth PROVE IInv'
  OBVIOUS
<1> USE DEF TpmRefuses
<1>1. AtTpm
  BY DEF IInv, Lockstep
<1>2. toTkey' = Append(toTkey, Refused)
  BY DEF Refused
<1>3. RefusalSent' /\ attempts = 0 /\ tries = 1
  BY <1>1, <1>2, WriteFirst, WriteSecond DEF RefusalSent, AtTpm, HostPubFrame, Refused
<1>4. trust' \in BOOLEAN
  OBVIOUS
<1>5. TypesOffTheLine'
  BY <1>4 DEF IInv, TypesOffTheLine, ClientTypeOK, HostTypeOK
<1>6. Lockstep'
  BY <1>3 DEF Lockstep, WaitingForAuth
<1>7. (ExchangeAgrees /\ DrawnInTime /\ PositionsAgree /\ LightFollows)'
  BY DEF IInv, ExchangeAgrees, DrawnInTime, PositionsAgree, LightFollows
<1>8. KeystreamFresh'
  BY DEF IInv, KeystreamFresh
<1>9. (LightTellsTheTruth /\ CryptsetupGetsDerivedKeyfile /\ SuccessMeansOpen)'
  BY DEF IInv, LightTellsTheTruth, CryptsetupGetsDerivedKeyfile, SuccessMeansOpen
<1> QED
  BY <1>5, <1>6, <1>7, <1>8, <1>9 DEF IInv

\* The app's verdict decides the trust that the host goes on with.
LEMMA HostAuthStatusKeeps ==
    IInv /\ HostAuthStatus /\ UNCHANGED besideAuth => IInv'
<1> SUFFICES ASSUME IInv, HostAuthStatus, UNCHANGED besideAuth PROVE IInv'
  OBVIOUS
<1> USE DEF HostAuthStatus
<1>1. attached /\ Judged /\ tries = 1
  BY SomethingToRead DEF IInv, Lockstep, Readable, WaitingForAuth, RefusalSent,
     SignatureSent
<1> DEFINE name == ClientMessageTryFrom(Head(toHost).data)
<1>2. \/ /\ name = "GoodSig" /\ trust /\ led = "green"
         /\ \/ At("top", <<>>, <<>>)' /\ attempts = 0
            \/ At("rdHash", <<Ready>>, <<>>)' /\ attempts = 1
      \/ /\ name = "InvalidSig" /\ led # "green"
         /\ \/ At("top", <<>>, <<>>)' /\ attempts = 0
            \/ At("rdHash", <<Ready>>, <<>>)' /\ attempts = 1
            \/ \E pc \in Touching : At(pc, <<>>, <<>>)' /\ attempts = 0
      \/ name \in {"InvalidSig", "MalformedSig"} /\ At("abort", <<>>, <<>>)'
  <2>1. toHost' = Tail(toHost) /\ UNCHANGED <<clientPc, attempts, led, toTkey>>
    OBVIOUS
  <2>2. CASE /\ trust /\ led = "green"
             /\ \/ At("top", <<GoodSig>>, <<>>) /\ attempts = 0
                \/ At("rdHash", <<GoodSig, Ready>>, <<>>) /\ attempts = 1
    BY ONLY <2>1, <2>2, ReadFrame, HostDecodes DEF At, name
  <2>3. CASE /\ led # "green"
             /\ \/ At("top", <<InvalidSig>>, <<>>) /\ attempts = 0
                \/ At("rdHash", <<InvalidSig, Ready>>, <<>>) /\ attempts = 1
    BY ONLY <2>1, <2>3, ReadFrame, HostDecodes DEF At, name
  <2>4. CASE /\ led # "green"
             /\ \E pc \in Touching : At(pc, <<InvalidSig>>, <<>>) /\ attempts = 0
    BY ONLY <2>1, <2>4, ReadFrame, HostDecodes DEF At, name, Touching
  <2>5. CASE At("abort", <<InvalidSig>>, <<>>) \/ At("abort", <<MalformedSig>>, <<>>)
    BY ONLY <2>1, <2>5, ReadFrame, HostDecodes DEF At, name
  <2> QED
    BY ONLY <1>1, <2>2, <2>3, <2>4, <2>5 DEF Judged
<1>3. /\ hostPc' = "rdReady" /\ exitCode' = exitCode
      /\ name = "GoodSig" => trust' = trust
      /\ name \in {"InvalidSig", "MalformedSig"} => trust' = FALSE
  BY <1>2 DEF IsAuthFailure, TrustAfterFailure
<1> HIDE DEF name
<1>4. trust' \in BOOLEAN
  BY <1>2, <1>3 DEF IInv, TypesOffTheLine, HostTypeOK
<1>5. TypesOffTheLine'
  BY <1>3, <1>4 DEF IInv, TypesOffTheLine, ClientTypeOK, HostTypeOK
<1>6. WaitingForReady'
  BY <1>1, <1>2, <1>3 DEF WaitingForReady, Ready
<1>7. Lockstep'
  BY <1>1, <1>3, <1>6 DEF Lockstep
<1>8. (ExchangeAgrees /\ DrawnInTime /\ PositionsAgree)'
  BY <1>3 DEF IInv, ExchangeAgrees, DrawnInTime, PositionsAgree
<1>9. LightFollows'
  BY <1>2, <1>3 DEF IInv, LightFollows
<1>10. KeystreamFresh'
  BY <1>3 DEF IInv, KeystreamFresh
<1>11. (LightTellsTheTruth /\ CryptsetupGetsDerivedKeyfile /\ SuccessMeansOpen)'
  BY <1>3 DEF IInv, LightTellsTheTruth, CryptsetupGetsDerivedKeyfile,
     SuccessMeansOpen
<1> QED
  BY <1>5, <1>7, <1>8, <1>9, <1>10, <1>11 DEF IInv

\* A program that ends without a word leaves the rest as it was.
LEMMA HostQuitsKeeps ==
    ASSUME IInv, hostPc' = "exit", exitCode' = "failure",
           attached => HostGone',
           UNCHANGED <<clientVars, unit, mainVars, attached, sniffed, disk>>,
           ~attached => UNCHANGED <<toHost, toTkey>>,
           hostPos' \in Nat, tries' \in 1 .. 3, keyfile' \in KeyfileTerms
    PROVE  IInv'
<1>1. TypesOffTheLine'
  BY DEF IInv, TypesOffTheLine, ClientTypeOK, HostTypeOK
<1>2. Lockstep'
  BY DEF IInv, Lockstep
<1>3. (ExchangeAgrees /\ DrawnInTime /\ PositionsAgree /\ LightFollows)'
  BY DEF IInv, ExchangeAgrees, DrawnInTime, PositionsAgree, LightFollows
<1>4. KeystreamFresh'
  BY DEF IInv, KeystreamFresh
<1>5. (LightTellsTheTruth /\ CryptsetupGetsDerivedKeyfile /\ SuccessMeansOpen)'
  BY DEF IInv, LightTellsTheTruth, CryptsetupGetsDerivedKeyfile, SuccessMeansOpen
<1> QED
  BY <1>1, <1>2, <1>3, <1>4, <1>5 DEF IInv

\* What HostQuitsKeeps asks of the variables a quitting program leaves alone.
LEMMA HostTypes ==
    IInv => /\ hostPos \in Nat /\ clientPos \in Nat /\ keyfile \in KeyfileTerms
            /\ tries \in 1 .. 3 /\ attempts \in 0 .. 3
            /\ hostExch \in Exchange /\ clientExch \in Exchange
            /\ typed \in Pass \cup {NoPass} /\ app \in Apps
  BY DEF IInv, TypesOffTheLine, ClientTypeOK, HostTypeOK

\* A load that fails ends the program before a frame is under way.
LEMMA HostLoadFailsKeeps == IInv /\ HostLoadFails /\ UNCHANGED besideAuth => IInv'
<1> SUFFICES ASSUME IInv, HostLoadFails, UNCHANGED besideAuth PROVE IInv'
  OBVIOUS
<1> USE DEF HostLoadFails, HostExit
<1>1. attached => HostGone'
  BY DEF IInv, Lockstep, BeforeLoad, HostGone
<1> QED
  BY <1>1, HostQuitsKeeps, HostTypes

\* A program without randomness leaves the app waiting for its public key.
LEMMA HostRandomFailsKeeps == IInv /\ HostRandomFails /\ UNCHANGED besideAuth => IInv'
<1> SUFFICES ASSUME IInv, HostRandomFails, UNCHANGED besideAuth PROVE IInv'
  OBVIOUS
<1> USE DEF HostRandomFails, HostExit
<1>1. attached /\ WaitingForEncNonce
  BY SomethingToRead DEF IInv, Lockstep, Readable
<1>2. HostGone'
  BY <1>1, ReadFrame DEF WaitingForEncNonce, HostGone, TkeyPubFrame
<1> QED
  BY <1>1, <1>2, HostQuitsKeeps, HostTypes

\* After an unplug both lines are empty, and an end of file ends the program.
LEMMA HostIoErrorKeeps == IInv /\ HostIoError /\ UNCHANGED besideAuth => IInv'
  BY HostQuitsKeeps, HostTypes DEF HostIoError, HostExit


-----------------------------------------------------------------------------
(* The steps of main. *)

\* The mount touches nothing of the protocol.
LEMMA HostMountKeeps == IInv /\ HostMount /\ UNCHANGED besideMain => IInv'
<1> SUFFICES ASSUME IInv, HostMount, UNCHANGED besideMain PROVE IInv'
  OBVIOUS
<1> USE DEF HostMount
<1>1. TypesOffTheLine'
  BY DEF IInv, TypesOffTheLine, ClientTypeOK, HostTypeOK
<1>2. Lockstep'
  BY DEF IInv, Lockstep, BeforeLoad
<1>3. (ExchangeAgrees /\ DrawnInTime /\ PositionsAgree /\ LightFollows)'
  BY DEF IInv, ExchangeAgrees, DrawnInTime, PositionsAgree, LightFollows
<1>4. KeystreamFresh'
  BY DEF IInv, KeystreamFresh
<1>5. (LightTellsTheTruth /\ CryptsetupGetsDerivedKeyfile /\ SuccessMeansOpen)'
  BY DEF IInv, LightTellsTheTruth, CryptsetupGetsDerivedKeyfile, SuccessMeansOpen
<1> QED
  BY <1>1, <1>2, <1>3, <1>4, <1>5 DEF IInv

\* Neither does a mount that fails.
LEMMA HostMountFailsKeeps ==
    IInv /\ HostMountFails /\ UNCHANGED besideMain => IInv'
<1> SUFFICES ASSUME IInv, HostMountFails, UNCHANGED besideMain PROVE IInv'
  OBVIOUS
<1> USE DEF HostMountFails, HostExit
<1>1. attached => HostGone'
  BY DEF IInv, Lockstep, BeforeLoad, HostGone
<1> QED
  BY <1>1, HostQuitsKeeps, HostTypes

\* When the host hears Ready4pass, its try is the app's attempt.
LEMMA HostReadyKeeps == IInv /\ HostReady /\ UNCHANGED besideMain => IInv'
<1> SUFFICES ASSUME IInv, HostReady, UNCHANGED besideMain PROVE IInv'
  OBVIOUS
<1> USE DEF HostReady
<1>1. attached /\ WaitingForReady /\ toHost # <<>>
  BY SomethingToRead DEF IInv, Lockstep, Readable
<1>2. At("rdHash", <<Ready>>, <<>>) /\ tries = attempts
  BY <1>1 DEF WaitingForReady
<1>3. toHost' = <<>> /\ hostPc' = "ask" /\ exitCode' = exitCode
  BY <1>2, ReadFrame, HostDecodes
<1>4. TypesOffTheLine'
  BY <1>3 DEF IInv, TypesOffTheLine, ClientTypeOK, HostTypeOK
<1>5. Lockstep'
  BY <1>1, <1>2, <1>3 DEF Lockstep, Asking
<1>6. (ExchangeAgrees /\ DrawnInTime /\ PositionsAgree /\ LightFollows)'
  BY <1>2, <1>3 DEF IInv, ExchangeAgrees, DrawnInTime, PositionsAgree, LightFollows
<1>7. KeystreamFresh'
  BY <1>3 DEF IInv, KeystreamFresh
<1>8. (LightTellsTheTruth /\ CryptsetupGetsDerivedKeyfile /\ SuccessMeansOpen)'
  BY <1>3 DEF IInv, LightTellsTheTruth, CryptsetupGetsDerivedKeyfile,
     SuccessMeansOpen
<1> QED
  BY <1>4, <1>5, <1>6, <1>7, <1>8 DEF IInv

\* The hash goes out under a block that was never used, and the host is one
\* block ahead.
LEMMA HostSendsHashKeeps == IInv /\ HostSendsHash /\ UNCHANGED besideMain => IInv'
<1> SUFFICES ASSUME IInv, HostSendsHash, UNCHANGED besideMain PROVE IInv'
  OBVIOUS
<1> USE DEF HostSendsHash
<1>1. /\ clientPc = "rdHash" /\ toHost = <<>> /\ toTkey = <<>> /\ tries = attempts
      /\ hostPos = clientPos /\ clientPos \in Nat
  BY HostTypes DEF IInv, Lockstep, Asking, PositionsAgree
<1> DEFINE ct == Encrypt(StreamKey(hostExch), hostPos, Argon2(typed'))
<1>2. /\ typed' \in Pass
      /\ toTkey' = Append(toTkey, Frame("cipher", ct))
      /\ sniffed' = sniffed \cup {ct}
  OBVIOUS
<1>3. toTkey' = <<Frame("cipher", ct)>>
  BY <1>1, <1>2, WriteFirst
<1>4. Frame("cipher", ct) = HashFrame'
  BY <1>1 DEF HashFrame
<1>5. ct.pos = hostPos
  BY DEF Encrypt
<1> HIDE DEF ct
<1>12. PassLen[typed'] >= 8
  BY ProtocolAssumption DEF LongEnough, PromptOutputLen
<1>6. TypesOffTheLine'
  BY <1>1, <1>2, <1>5, <1>12 DEF IInv, TypesOffTheLine, ClientTypeOK, HostTypeOK
<1>7. Lockstep'
  BY <1>1, <1>3, <1>4 DEF Lockstep, WaitingForPass
<1>8. (ExchangeAgrees /\ DrawnInTime /\ PositionsAgree /\ LightFollows)'
  BY <1>1, <1>2 DEF IInv, ExchangeAgrees, DrawnInTime, PositionsAgree, LightFollows
<1>9. \A x \in sniffed : x.pos \in Nat /\ x.pos < hostPos
  BY <1>1 DEF IInv, KeystreamFresh, TypesOffTheLine
<1>10. KeystreamFresh'
  BY <1>1, <1>2, <1>5, <1>9 DEF IInv, KeystreamFresh
<1>11. (LightTellsTheTruth /\ CryptsetupGetsDerivedKeyfile /\ SuccessMeansOpen)'
  BY <1>1 DEF IInv, LightTellsTheTruth, CryptsetupGetsDerivedKeyfile,
     SuccessMeansOpen
<1> QED
  BY <1>6, <1>7, <1>8, <1>10, <1>11 DEF IInv

\* A prompt that fails ends the program while the app waits for a hash.
LEMMA HostAskFailsKeeps == IInv /\ HostAskFails /\ UNCHANGED besideMain => IInv'
<1> SUFFICES ASSUME IInv, HostAskFails, UNCHANGED besideMain PROVE IInv'
  OBVIOUS
<1> USE DEF HostAskFails, HostExit
<1>1. attached => HostGone'
  BY DEF IInv, Lockstep, Asking, HostGone
<1> QED
  BY <1>1, HostQuitsKeeps, HostTypes

\* GoodPass announces the keyfile; Blake2 ends the try, or the program after
\* the third.
LEMMA HostPassStatusKeeps == IInv /\ HostPassStatus /\ UNCHANGED besideMain => IInv'
<1> SUFFICES ASSUME IInv, HostPassStatus, UNCHANGED besideMain PROVE IInv'
  OBVIOUS
<1> USE DEF HostPassStatus
<1>1. attached /\ WaitingForPass /\ toHost # <<>>
  BY SomethingToRead DEF IInv, Lockstep, Readable
<1>2. tries \in 1 .. 3 /\ attempts \in 0 .. 3
  BY HostTypes
<1>3. CASE toHost = <<GoodPass, KeyfileFrame>>
  <2>1. At("rdSuccess", <<GoodPass, KeyfileFrame>>, <<>>) /\ tries = attempts
        /\ clientPos = hostPos + 1
    BY <1>1, <1>3, ReadFrame, HostDecodes DEF WaitingForPass
  <2>2. /\ toHost' = <<KeyfileFrame>> /\ hostPc' = "rdKeyfile"
        /\ UNCHANGED <<tries, exitCode>>
    BY <1>3, ReadFrame, HostDecodes
  <2>3. TypesOffTheLine'
    BY <2>2 DEF IInv, TypesOffTheLine, ClientTypeOK, HostTypeOK
  <2>4. Lockstep'
    BY <1>1, <2>1, <2>2 DEF Lockstep, WaitingForKeyfile, KeyfileFrame
  <2>5. (ExchangeAgrees /\ DrawnInTime /\ PositionsAgree /\ LightFollows)'
    BY <2>1, <2>2 DEF IInv, ExchangeAgrees, DrawnInTime, PositionsAgree, LightFollows
  <2>6. KeystreamFresh'
    BY <2>2 DEF IInv, KeystreamFresh
  <2>7. (LightTellsTheTruth /\ CryptsetupGetsDerivedKeyfile /\ SuccessMeansOpen)'
    BY <2>2 DEF IInv, LightTellsTheTruth, CryptsetupGetsDerivedKeyfile,
       SuccessMeansOpen
  <2> QED
    BY <2>3, <2>4, <2>5, <2>6, <2>7 DEF IInv
<1>4. CASE toHost # <<GoodPass, KeyfileFrame>>
  <2>1. /\ Head(toHost) = Blake2Failed
        /\ clientPos = hostPos
        /\ \/ At("top", <<>>, <<>>)' /\ tries = attempts
           \/ At("abort", <<>>, <<>>)'
           \/ At("rdHash", <<Ready>>, <<>>)' /\ attempts = tries + 1
    <3>1. CASE At("rdHash", <<>>, <<HashFrame>>)
      BY <1>1, <3>1
    <3>2. CASE /\ clientPos = hostPos
               /\ \/ At("top", <<Blake2Failed>>, <<>>) /\ tries = attempts
                  \/ At("abort", <<Blake2Failed>>, <<>>)
      BY <3>2, ReadFrame
    <3>3. CASE /\ clientPos = hostPos
               /\ At("rdHash", <<Blake2Failed, Ready>>, <<>>) /\ attempts = tries + 1
      <4>1. Head(toHost) = Blake2Failed /\ toHost' = <<Ready>>
        BY <3>3, ReadFrame
      <4>2. Ready' = Ready
        BY DEF Ready
      <4> QED
        BY <3>3, <4>1, <4>2
    <3> QED
      BY ONLY <1>1, <1>4, <3>1, <3>2, <3>3 DEF WaitingForPass, At
  <2>2. NextTry
    BY <2>1, HostDecodes
  <2>3. CASE tries < HostTries
    <3>1. tries' = tries + 1 /\ hostPc' = "rdReady" /\ exitCode' = exitCode
      BY <2>2, <2>3 DEF NextTry
    <3>2. TypesOffTheLine'
      BY <1>2, <2>3, <3>1 DEF IInv, TypesOffTheLine, ClientTypeOK, HostTypeOK
    <3>3. Lockstep'
      BY <1>1, <1>2, <2>1, <3>1 DEF Lockstep, WaitingForReady, Ready
    <3>4. (ExchangeAgrees /\ DrawnInTime /\ LightFollows)'
      BY <3>1 DEF IInv, ExchangeAgrees, DrawnInTime, LightFollows
    <3>5. PositionsAgree'
      BY <2>1, <3>1 DEF PositionsAgree
    <3>6. KeystreamFresh'
      BY <3>1 DEF IInv, KeystreamFresh
    <3>7. (LightTellsTheTruth /\ CryptsetupGetsDerivedKeyfile /\ SuccessMeansOpen)'
      BY <3>1 DEF IInv, LightTellsTheTruth, CryptsetupGetsDerivedKeyfile,
         SuccessMeansOpen
    <3> QED
      BY <3>2, <3>3, <3>4, <3>5, <3>6, <3>7 DEF IInv
  <2>4. CASE ~(tries < HostTries)
    <3>1. hostPc' = "exit" /\ exitCode' = "failure" /\ tries' = tries
      BY <2>2, <2>4 DEF NextTry, HostExit
    <3>2. HostGone'
      BY <1>2, <2>1, <2>4 DEF HostGone
    <3> QED
      BY <1>1, <3>1, <3>2, HostQuitsKeeps, HostTypes
  <2> QED
    BY <2>3, <2>4
<1> QED
  BY <1>3, <1>4

\* The keyfile decrypts to that of the loaded app and the passphrase typed
\* last, and the two streams are level again.
LEMMA HostPipesKeyfileKeeps ==
    IInv /\ HostPipesKeyfile /\ UNCHANGED besideMain => IInv'
<1> SUFFICES ASSUME IInv, HostPipesKeyfile, UNCHANGED besideMain PROVE IInv'
  OBVIOUS
<1> USE DEF HostPipesKeyfile
<1>1. attached /\ WaitingForKeyfile
  BY SomethingToRead DEF IInv, Lockstep, Readable
<1>2. /\ clientPc = "rdSuccess" /\ toHost = <<KeyfileFrame>> /\ toTkey = <<>>
      /\ tries = attempts /\ clientPos = hostPos + 1
      /\ hostPos \in Nat /\ typed \in Pass /\ app \in Apps
      /\ hostExch = clientExch
  BY <1>1, HostTypes DEF WaitingForKeyfile, IInv, DrawnInTime, ExchangeAgrees
<1>3. toHost' = <<>> /\ Head(toHost).data =
         Encrypt(StreamKey(clientExch), hostPos, Blake2s(app, Argon2(typed)))
  BY <1>2, ReadFrame DEF KeyfileFrame, Frame
<1>4. keyfile' = Blake2s(app, Argon2(typed))
  BY <1>2, <1>3 DEF Decrypt, Encrypt, DecryptPos
<1>5. keyfile' \in KeyfileTerms
  BY <1>2, <1>4 DEF KeyfileTerms, HashTerms
<1>6. TypesOffTheLine'
  BY <1>2, <1>5 DEF IInv, TypesOffTheLine, ClientTypeOK, HostTypeOK
<1>7. Lockstep'
  BY <1>1, <1>2, <1>3 DEF Lockstep, Decrypting
<1>8. (ExchangeAgrees /\ DrawnInTime /\ PositionsAgree /\ LightFollows)'
  BY <1>2 DEF IInv, ExchangeAgrees, DrawnInTime, PositionsAgree, LightFollows
<1>9. KeystreamFresh'
  BY <1>2 DEF IInv, KeystreamFresh, TypesOffTheLine
<1>10. (LightTellsTheTruth /\ SuccessMeansOpen)'
  BY <1>2 DEF IInv, LightTellsTheTruth, SuccessMeansOpen
<1>11. CryptsetupGetsDerivedKeyfile'
  BY <1>4 DEF CryptsetupGetsDerivedKeyfile
<1> QED
  BY <1>6, <1>7, <1>8, <1>9, <1>10, <1>11 DEF IInv

\* Without cryptsetup the program ends, and the app waits for a verdict.
LEMMA HostSpawnFailsKeeps == IInv /\ HostSpawnFails /\ UNCHANGED besideMain => IInv'
<1> SUFFICES ASSUME IInv, HostSpawnFails, UNCHANGED besideMain PROVE IInv'
  OBVIOUS
<1> USE DEF HostSpawnFails, HostExit
<1>1. attached /\ WaitingForKeyfile
  BY SomethingToRead DEF IInv, Lockstep, Readable
<1>2. HostGone'
  BY <1>1, ReadFrame DEF WaitingForKeyfile, HostGone
<1> QED
  BY <1>1, <1>2, HostQuitsKeeps, HostTypes


\* Success is reported for a disk that is open.
LEMMA CryptsetupOpensKeeps ==
    IInv /\ CryptsetupOpens /\ UNCHANGED besideMain => IInv'
<1> SUFFICES ASSUME IInv, CryptsetupOpens, UNCHANGED besideMain PROVE IInv'
  OBVIOUS
<1> USE DEF CryptsetupOpens, HostExit
<1>1. attached => At("rdSuccess", <<>>, <<>>)
  BY DEF IInv, Lockstep, Decrypting
<1>2. attached => toTkey' = <<DiskOpened>>
  BY <1>1, WriteFirst DEF TellTkey, DiskOpened
<1>3. ~attached => toTkey' = toTkey
  BY DEF TellTkey
<1>4. TypesOffTheLine'
  BY DEF IInv, TypesOffTheLine, ClientTypeOK, HostTypeOK
<1>5. Lockstep'
  BY <1>1, <1>2, <1>3 DEF IInv, Lockstep, HostGone, DiskOpened
<1>6. (ExchangeAgrees /\ DrawnInTime /\ PositionsAgree /\ LightFollows)'
  BY DEF IInv, ExchangeAgrees, DrawnInTime, PositionsAgree, LightFollows
<1>7. KeystreamFresh'
  BY DEF IInv, KeystreamFresh
<1>8. (LightTellsTheTruth /\ CryptsetupGetsDerivedKeyfile /\ SuccessMeansOpen)'
  BY DEF IInv, LightTellsTheTruth, CryptsetupGetsDerivedKeyfile, SuccessMeansOpen
<1> QED
  BY <1>4, <1>5, <1>6, <1>7, <1>8 DEF IInv

\* A failure is reported, and the next iteration begins or the program ends,
\* whatever became of the disk.
LEMMA ReportFailureKeeps ==
    ASSUME IInv, hostPc = "cryptsetup", ReportFailure, UNCHANGED besideMain,
           disk' \in {disk, "open"}
    PROVE  IInv'
<1> USE DEF ReportFailure
<1>1. attached => At("rdSuccess", <<>>, <<>>) /\ tries = attempts
  BY DEF IInv, Lockstep, Decrypting
<1>2. attached => toTkey' = <<TryAgain>>
  BY <1>1, WriteFirst DEF TellTkey, TryAgain, VerdictForFailure
<1>3. ~attached => toTkey' = toTkey
  BY DEF TellTkey
<1>4. tries \in 1 .. 3 /\ attempts \in 0 .. 3
  BY HostTypes
<1>5. \/ /\ attached /\ tries' = tries + 1 /\ tries < 3
         /\ hostPc' = "rdReady" /\ exitCode' = exitCode
      \/ /\ tries' = tries /\ hostPc' = "exit"
         /\ exitCode' = "failure"
  BY DEF NextTry, HostExit
<1>6. TypesOffTheLine'
  <2>1. disk' \in {"locked", "open"} /\ tries' \in 1 .. 3
    BY <1>4, <1>5 DEF IInv, TypesOffTheLine, HostTypeOK
  <2> QED
    BY <1>5, <2>1 DEF IInv, TypesOffTheLine, ClientTypeOK, HostTypeOK
<1>7. Lockstep'
  <2>1. CASE hostPc' = "rdReady"
    BY <1>1, <1>2, <1>5, <2>1 DEF Lockstep, WaitingForReady, TryAgain
  <2>2. CASE hostPc' = "exit"
    BY <1>1, <1>2, <1>3, <2>2 DEF IInv, Lockstep, HostGone, TryAgain
  <2> QED
    BY <1>5, <2>1, <2>2
<1>8. (ExchangeAgrees /\ DrawnInTime /\ PositionsAgree /\ LightFollows)'
  BY <1>5 DEF IInv, ExchangeAgrees, DrawnInTime, PositionsAgree, LightFollows
<1>9. KeystreamFresh'
  BY <1>5 DEF IInv, KeystreamFresh
<1>10. (LightTellsTheTruth /\ CryptsetupGetsDerivedKeyfile /\ SuccessMeansOpen)'
  BY <1>5 DEF IInv, LightTellsTheTruth, CryptsetupGetsDerivedKeyfile,
     SuccessMeansOpen
<1> QED
  BY <1>6, <1>7, <1>8, <1>9, <1>10 DEF IInv

\* The report of a failure starts the next try on both sides.
LEMMA CryptsetupRefusesKeeps ==
    IInv /\ CryptsetupRefuses /\ UNCHANGED besideMain => IInv'
  BY ReportFailureKeeps DEF CryptsetupRefuses

\* So does that of a cryptsetup that was killed, even if the disk is open by
\* then.
LEMMA CryptsetupKilledKeeps ==
    IInv /\ CryptsetupKilled /\ UNCHANGED besideMain => IInv'
  BY ReportFailureKeeps DEF CryptsetupKilled

\* A broken pipe is reported as a failure, and ends the program.
LEMMA HostPipeBreaksKeeps == IInv /\ HostPipeBreaks /\ UNCHANGED besideMain => IInv'
<1> SUFFICES ASSUME IInv, HostPipeBreaks, UNCHANGED besideMain PROVE IInv'
  OBVIOUS
<1> USE DEF HostPipeBreaks, HostExit
<1>1. attached => At("rdSuccess", <<>>, <<>>)
  BY DEF IInv, Lockstep, Decrypting
<1>2. attached => HostGone'
  BY <1>1, WriteFirst DEF TellTkey, TryAgain, VerdictForFailure, HostGone
<1> QED
  BY <1>2, HostQuitsKeeps, HostTypes DEF TellTkey

\* A failed wait() ends the program without a report.
LEMMA HostWaitFailsKeeps == IInv /\ HostWaitFails /\ UNCHANGED besideMain => IInv'
<1> SUFFICES ASSUME IInv, HostWaitFails, UNCHANGED besideMain PROVE IInv'
  OBVIOUS
<1> USE DEF HostWaitFails, HostExit
<1>1. attached => HostGone'
  BY DEF IInv, Lockstep, Decrypting, HostGone
<1> QED
  BY <1>1, HostQuitsKeeps, HostTypes

-----------------------------------------------------------------------------
(* The surroundings. *)

\* An unplug empties both lines and takes the app's light with it.
LEMMA UnplugKeeps == IInv /\ Unplug => IInv'
<1> SUFFICES ASSUME IInv, Unplug PROVE IInv'
  OBVIOUS
<1> USE DEF Unplug, HangUp, ClientLosesPower
<1>1. TypesOffTheLine'
  <2>1. attached' \in BOOLEAN /\ sniffed' = sniffed /\ unit' = unit
    OBVIOUS
  <2>2. TypesOffTheLine
    BY DEF IInv
  <2>3. ClientTypeOK'
    <3>1. clientPc' = "off" /\ led' = "off"
          /\ UNCHANGED <<app, clientExch, clientPos, attempts>>
      OBVIOUS
    <3> QED
      BY ONLY <2>2, <3>1 DEF TypesOffTheLine, ClientTypeOK, ClientPcs
  <2>4. HostTypeOK'
    <3>1. UNCHANGED <<hostPc, hostExch, hostPos, trust, exitCode, tpm, tries, typed,
                      keyfile, disk>>
      OBVIOUS
    <3> QED
      BY ONLY <2>2, <3>1 DEF TypesOffTheLine, HostTypeOK
  <2> QED
    BY ONLY <2>1, <2>2, <2>3, <2>4 DEF TypesOffTheLine
<1>2. Lockstep'
  <2>1. ~attached' /\ toHost' = <<>> /\ toTkey' = <<>> /\ clientPc' = "off"
    OBVIOUS
  <2> QED
    BY ONLY <2>1 DEF Lockstep
<1>3. (ExchangeAgrees /\ DrawnInTime /\ PositionsAgree /\ LightFollows)'
  BY DEF IInv, ExchangeAgrees, DrawnInTime, PositionsAgree, LightFollows
<1>4. KeystreamFresh'
  BY DEF IInv, KeystreamFresh
<1>5. (LightTellsTheTruth /\ CryptsetupGetsDerivedKeyfile /\ SuccessMeansOpen)'
  BY DEF IInv, LightTellsTheTruth, CryptsetupGetsDerivedKeyfile, SuccessMeansOpen
<1> QED
  BY <1>1, <1>2, <1>3, <1>4, <1>5 DEF IInv

\* Nothing but systemd's unit changes, or nothing at all.
LEMMA StutterKeeps ==
    ASSUME IInv, UNCHANGED <<serialVars, clientVars, hostVars, tpm, disk>>,
           unit' \in {"waiting", "started"}
    PROVE  IInv'
<1>1. TypesOffTheLine'
  BY DEF IInv, TypesOffTheLine, ClientTypeOK, HostTypeOK
<1>2. Lockstep'
  <2>1. UNCHANGED <<attached, toHost, toTkey, clientPc, attempts, led, tries, trust, tpm,
                    hostPos, clientPos, typed, app, disk, hostExch, clientExch, hostPc>>
    OBVIOUS
  <2>2. UNCHANGED <<BeforeLoad, WaitingForNonce, WaitingForEncNonce, WaitingForTkeyPub,
                    AtTpm>>
    BY ONLY <2>1 DEF BeforeLoad, WaitingForNonce, WaitingForEncNonce, WaitingForTkeyPub,
       AtTpm, NonceFrame, EncNonceFrame, TkeyPubFrame, HostPubFrame, At
  <2>3. UNCHANGED WaitingForAuth
    BY ONLY <2>1 DEF WaitingForAuth, RefusalSent, SignatureSent, Judged, HostPubFrame,
       SigFrame, Signed, Refused, GoodSig, InvalidSig, MalformedSig, Ready, At
  <2>4. UNCHANGED <<WaitingForReady, Asking, WaitingForPass>>
    BY ONLY <2>1 DEF WaitingForReady, Asking, WaitingForPass, HashFrame, KeyfileFrame,
       Ready, TryAgain, GoodPass, Blake2Failed, At
  <2>5. UNCHANGED <<WaitingForKeyfile, Decrypting, HostGone>>
    BY ONLY <2>1 DEF WaitingForKeyfile, Decrypting, HostGone, KeyfileFrame, TkeyPubFrame,
       Ready, TryAgain, DiskOpened, At
  <2> QED
    BY ONLY IInv, <2>1, <2>2, <2>3, <2>4, <2>5 DEF IInv, Lockstep
<1>3. (ExchangeAgrees /\ DrawnInTime /\ PositionsAgree /\ LightFollows)'
  BY DEF IInv, ExchangeAgrees, DrawnInTime, PositionsAgree, LightFollows
<1>4. KeystreamFresh'
  BY DEF IInv, KeystreamFresh
<1>5. (LightTellsTheTruth /\ CryptsetupGetsDerivedKeyfile /\ SuccessMeansOpen)'
  BY DEF IInv, LightTellsTheTruth, CryptsetupGetsDerivedKeyfile, SuccessMeansOpen
<1> QED
  BY <1>1, <1>2, <1>3, <1>4, <1>5 DEF IInv

-----------------------------------------------------------------------------
(* The invariant, and what follows from it. *)

\* Every step of one boot preserves the invariant, and a stuttering step does.
LEMMA NextKeeps == IInv /\ [Next]_vars => IInv'
<1> SUFFICES ASSUME IInv, [Next]_vars PROVE IInv'
  OBVIOUS
<1>1. CASE ByClient
  BY <1>1, ClientHelloKeeps, ClientReadPubKeeps, ClientReadStatusKeeps,
     ClientReadSigKeeps, ClientTouchedKeeps, ClientTouchTimeoutKeeps,
     ClientReadyKeeps, ClientGiveUpKeeps, ClientDeriveKeyfileKeeps,
     ClientBlake2FailsKeeps, ClientReadSuccessKeeps, ClientDoneKeeps
     DEF ByClient
<1>2. CASE LoadApp
  BY <1>2, LoadAppKeeps
<1>3. CASE ByHostLibrary
  BY <1>3, HostReadNonceKeeps, HostReadEncNonceKeeps, HostRandomFailsKeeps,
     HostReadTkeyPubKeeps, TpmSignsKeeps, TpmRefusesKeeps, HostAuthStatusKeeps, HostLoadFailsKeeps,
     HostIoErrorKeeps
     DEF ByHostLibrary
<1>4. CASE ByHostMain
  <2>1. CASE HostAsksAgain /\ UNCHANGED besideMain
    <3>1. UNCHANGED <<serialVars, clientVars, hostVars, tpm, disk, unit>>
      BY <2>1 DEF HostAsksAgain
    <3>2. unit' \in {"waiting", "started"}
      BY <3>1 DEF IInv, TypesOffTheLine
    <3> QED
      BY <3>1, <3>2, StutterKeeps
  <2> QED
    BY <1>4, <2>1, HostMountKeeps, HostMountFailsKeeps, HostReadyKeeps,
       HostSendsHashKeeps, HostAskFailsKeeps, HostPassStatusKeeps,
       HostPipesKeyfileKeeps, HostSpawnFailsKeeps, CryptsetupOpensKeeps,
       CryptsetupRefusesKeeps, CryptsetupKilledKeeps, HostPipeBreaksKeeps,
       HostWaitFailsKeeps
       DEF ByHostMain
<1>5. CASE StartCryptsetupUnit
  BY <1>5, StutterKeeps DEF StartCryptsetupUnit
<1>6. CASE Unplug
  BY <1>6, UnplugKeeps
<1>7. CASE UNCHANGED vars
  <2>1. unit' \in {"waiting", "started"}
    BY <1>7 DEF vars, IInv, TypesOffTheLine
  <2> QED
    BY <1>7, <2>1, StutterKeeps DEF vars
<1> QED
  BY <1>1, <1>2, <1>3, <1>4, <1>5, <1>6, <1>7 DEF Next, ByHost

\* IInv is an invariant of the composed system.
THEOREM InvariantHolds == Spec => []IInv
  BY InitHolds, NextKeeps, PTL DEF Spec


\* Frames of every kind are well formed, wherever Lockstep puts them.
LEMMA LinesOK == IInv => LineOK(toHost) /\ LineOK(toTkey)
<1> SUFFICES ASSUME IInv PROVE LineOK(toHost) /\ LineOK(toTkey)
  OBVIOUS
<1>1. /\ LineOK(<<>>)
      /\ \A a : FrameOK(a) => LineOK(<<a>>)
      /\ \A a, b : FrameOK(a) /\ FrameOK(b) => LineOK(<<a, b>>)
      /\ \A a, b, c : FrameOK(a) /\ FrameOK(b) /\ FrameOK(c) => LineOK(<<a, b, c>>)
  BY DEF LineOK
<1>2. /\ FrameOK(Signed) /\ FrameOK(Refused) /\ FrameOK(DiskOpened)
      /\ FrameOK(TryAgain) /\ FrameOK(GoodSig) /\ FrameOK(InvalidSig)
      /\ FrameOK(MalformedSig) /\ FrameOK(Ready) /\ FrameOK(GoodPass)
      /\ FrameOK(Blake2Failed)
  BY DEF FrameOK, FrameSize, Frame, Status, HostByte, ClientByte, Signed, Refused,
     DiskOpened, TryAgain, GoodSig, InvalidSig, MalformedSig, Ready, GoodPass,
     Blake2Failed
<1>3. clientPc \notin {"firmware", "start", "off"} =>
         FrameOK(NonceFrame) /\ FrameOK(EncNonceFrame) /\ FrameOK(TkeyPubFrame)
  BY DEF IInv, DrawnInTime, FrameOK, FrameSize, Frame, NonceFrame, EncNonceFrame,
     TkeyPubFrame
<1>4. hostPc \notin {"mount", "open", "rdNonce", "rdEncNonce", "exit"} =>
         FrameOK(HostPubFrame)
  BY DEF IInv, DrawnInTime, FrameOK, FrameSize, Frame, HostPubFrame
<1>5. tpm.key \in Keys => \A wf \in BOOLEAN : FrameOK(SigFrame(wf))
  BY DEF FrameOK, FrameSize, Frame, SigFrame
<1>6. FrameOK(HashFrame) /\ FrameOK(KeyfileFrame)
  BY HostTypes DEF FrameOK, FrameSize, Frame, HashFrame, KeyfileFrame, Encrypt
<1>7. CASE ~attached
  BY <1>1, <1>7 DEF IInv, Lockstep
<1>8. CASE attached /\ hostPc \in {"mount", "open", "rdNonce", "rdEncNonce",
                                   "rdTkeyPub", "tpm"}
  BY <1>1, <1>3, <1>4, <1>8 DEF IInv, Lockstep, BeforeLoad, WaitingForNonce,
     WaitingForEncNonce, WaitingForTkeyPub, AtTpm
<1>9. CASE attached /\ hostPc = "rdAuth"
  BY <1>1, <1>2, <1>4, <1>5, <1>9 DEF IInv, Lockstep, WaitingForAuth, RefusalSent,
     SignatureSent, Judged
<1>10. CASE attached /\ hostPc \in {"rdReady", "ask", "rdPass", "rdKeyfile",
                                    "cryptsetup", "exit"}
  BY <1>1, <1>2, <1>3, <1>6, <1>10 DEF IInv, Lockstep, WaitingForReady, Asking,
     WaitingForPass, WaitingForKeyfile, Decrypting, HostGone
<1> QED
  BY <1>7, <1>8, <1>9, <1>10 DEF IInv, TypesOffTheLine, HostTypeOK

\* Every variable keeps its type, both counters their bound of three.
THEOREM TypeCorrect == Spec => []TypeOK
<1>1. IInv => TypeOK
  BY LinesOK DEF IInv, TypesOffTheLine, TypeOK
<1> QED
  BY <1>1, InvariantHolds, PTL

\* No read of either side ever starts on a frame of another kind than the one
\* it is for, whatever failed before.
THEOREM FramesStayInSync == Spec => []FramingInSync
<1>1. IInv => FramingInSync
  <2> SUFFICES ASSUME IInv PROVE FramingInSync
    OBVIOUS
  <2>1. /\ \A s \in {Signed, Refused, DiskOpened, TryAgain, GoodSig, InvalidSig,
                     MalformedSig, Ready, GoodPass, Blake2Failed} :
              s.kind = "status"
        /\ NonceFrame.kind = "nonce" /\ EncNonceFrame.kind = "encNonce"
        /\ TkeyPubFrame.kind = "pub" /\ HostPubFrame.kind = "pub"
        /\ \A wf \in BOOLEAN : SigFrame(wf).kind = "sig"
        /\ HashFrame.kind = "cipher" /\ KeyfileFrame.kind = "cipher"
    BY DEF Frame, Status, Signed, Refused, DiskOpened, TryAgain, GoodSig,
       InvalidSig, MalformedSig, Ready, GoodPass, Blake2Failed, NonceFrame,
       EncNonceFrame, TkeyPubFrame, HostPubFrame, SigFrame, HashFrame, KeyfileFrame
  <2>2. hostPc \in DOMAIN HostReads /\ toHost # <<>> =>
           Head(toHost).kind = HostReads[hostPc]
    <3> SUFFICES ASSUME hostPc \in DOMAIN HostReads, toHost # <<>>
                 PROVE  Head(toHost).kind = HostReads[hostPc]
      OBVIOUS
    <3>1. attached
      BY SomethingToRead DEF IInv
    <3>2. CASE hostPc \in {"rdNonce", "rdEncNonce", "rdTkeyPub"}
      BY <2>1, <3>1, <3>2, ReadFrame DEF IInv, Lockstep, HostReads,
         WaitingForNonce, WaitingForEncNonce, WaitingForTkeyPub
    <3>3. CASE hostPc = "rdAuth"
      BY <2>1, <3>1, <3>3, ReadFrame DEF IInv, Lockstep, HostReads,
         WaitingForAuth, RefusalSent, SignatureSent, Judged
    <3>4. CASE hostPc \in {"rdReady", "rdPass", "rdKeyfile"}
      BY <2>1, <3>1, <3>4, ReadFrame DEF IInv, Lockstep, HostReads,
         WaitingForReady, WaitingForPass, WaitingForKeyfile
    <3> QED
      BY <3>2, <3>3, <3>4 DEF HostReads
  <2>3. clientPc \in DOMAIN ClientReads /\ toTkey # <<>> =>
           Head(toTkey).kind = ClientReads[clientPc]
    <3> SUFFICES ASSUME clientPc \in DOMAIN ClientReads, toTkey # <<>>
                 PROVE  Head(toTkey).kind = ClientReads[clientPc]
      OBVIOUS
    <3>1. attached
      BY SomethingToRead DEF IInv
    <3>2. CASE clientPc = "rdPub"
      BY <2>1, <3>1, <3>2, SeenFromClient, ReadFrame DEF IInv, Lockstep,
         ClientReads, WaitingForTkeyPub, AtTpm, RefusalSent, SignatureSent
    <3>3. CASE clientPc \in {"rdStatus", "rdSig"}
      BY <2>1, <3>1, <3>3, SeenFromClient, ReadFrame DEF IInv, ClientReads,
         RefusalSent, SignatureSent
    <3>4. CASE clientPc = "rdHash"
      BY <2>1, <3>1, <3>4, SeenFromClient, ReadFrame DEF IInv, Lockstep,
         ClientReads, WaitingForPass
    <3>5. CASE clientPc = "rdSuccess"
      BY <2>1, <3>1, <3>5, SeenFromClient, ReadFrame DEF IInv, Lockstep,
         ClientReads, WaitingForReady, HostGone
    <3> QED
      BY <3>2, <3>3, <3>4, <3>5 DEF ClientReads
  <2> QED
    BY <2>2, <2>3 DEF FramingInSync
<1> QED
  BY <1>1, InvariantHolds, PTL

\* Host and app are never both blocked in a read with nothing on the line.
THEOREM NobodyWaitsForNobody == Spec => []NoMutualWait
<1>1. IInv => NoMutualWait
  <2> SUFFICES ASSUME IInv, attached, hostPc \in DOMAIN HostReads,
                      clientPc \in DOMAIN ClientReads
               PROVE  toHost # <<>> \/ toTkey # <<>>
    BY DEF NoMutualWait
  <2>1. CASE hostPc \in {"rdNonce", "rdEncNonce", "rdTkeyPub"}
    BY <2>1, ReadFrame DEF IInv, Lockstep, ClientReads, WaitingForNonce,
       WaitingForEncNonce, WaitingForTkeyPub
  <2>2. CASE hostPc = "rdAuth"
    BY <2>2, ReadFrame DEF IInv, Lockstep, ClientReads, WaitingForAuth,
       RefusalSent, SignatureSent, Judged
  <2>3. CASE hostPc \in {"rdReady", "rdPass", "rdKeyfile"}
    BY <2>3, ReadFrame DEF IInv, Lockstep, ClientReads, WaitingForReady,
       WaitingForPass, WaitingForKeyfile
  <2> QED
    BY <2>1, <2>2, <2>3 DEF HostReads
<1> QED
  BY <1>1, InvariantHolds, PTL

\* No block of the shared key stream encrypts two values.
THEOREM KeystreamUsedOnce == Spec => []NoKeystreamReuse
<1>1. IInv => NoKeystreamReuse
  BY DEF IInv, KeystreamFresh, NoKeystreamReuse
<1> QED
  BY <1>1, InvariantHolds, PTL

\* When the host prompts or decrypts, both loops are in the same attempt.
THEOREM LoopsMirrored == Spec => []TriesMirrored
<1>1. IInv => TriesMirrored
  BY DEF IInv, Lockstep, TriesMirrored, Asking, WaitingForKeyfile, Decrypting
<1> QED
  BY <1>1, InvariantHolds, PTL

\* The host's prompt calls the boot trustworthy exactly when the light is green.
THEOREM PromptMatchesLight == Spec => []TrustMatchesLight
<1>1. IInv => TrustMatchesLight
  BY DEF IInv, Lockstep, LightFollows, TrustMatchesLight, Asking,
     WaitingForKeyfile, Decrypting
<1> QED
  BY <1>1, InvariantHolds, PTL

\* A green light in the passphrase loop means an attested boot.
THEOREM LightIsTrue == Spec => []LightTellsTheTruth
<1>1. IInv => LightTellsTheTruth
  BY DEF IInv
<1> QED
  BY <1>1, InvariantHolds, PTL

\* Cryptsetup only ever gets the keyfile of this app and the typed passphrase.
THEOREM KeyfileIsDerived == Spec => []CryptsetupGetsDerivedKeyfile
<1>1. IInv => CryptsetupGetsDerivedKeyfile
  BY DEF IInv
<1> QED
  BY <1>1, InvariantHolds, PTL

\* Success is only ever announced for an open disk.
THEOREM SuccessIsOpen == Spec => []SuccessMeansOpen
<1>1. IInv => SuccessMeansOpen
  BY DEF IInv
<1> QED
  BY <1>1, InvariantHolds, PTL


-----------------------------------------------------------------------------
(* Unlock implements PassphraseGate. *)

\* A step that leaves what the gate is read off alone is a stuttering step.
LEMMA GateStutters ==
    ASSUME UNCHANGED <<GateState, attempts, typed, app, tpm, disk>>
    PROVE  UNCHANGED Gate!gateVars
<1>1. UNCHANGED <<OpensWithApp, TpmAttestsToApp>>
  BY DEF OpensWithApp, TpmAttestsToApp
<1> QED
  BY <1>1 DEF Gate!gateVars

\* Closing the gate, once.
LEMMA GateCloses ==
    ASSUME UNCHANGED <<attempts, typed, app, tpm, disk>>, GateState' = "closed"
    PROVE  [Gate!Next]_Gate!gateVars
<1>1. UNCHANGED <<OpensWithApp, TpmAttestsToApp>>
  BY DEF OpensWithApp, TpmAttestsToApp
<1>2. CASE GateState = "closed"
  BY <1>2, GateStutters
<1>3. CASE GateState # "closed"
  BY <1>1, <1>3 DEF Gate!Next, Gate!Close
<1> QED
  BY <1>2, <1>3

\* A step of the app opens or closes the gate, begins a guess, or is none of
\* the gate's business.
LEMMA ClientRefines == IInv /\ IInv' /\ ByClient => [Gate!Next]_Gate!gateVars
<1> SUFFICES ASSUME IInv, IInv', ByClient PROVE [Gate!Next]_Gate!gateVars
  OBVIOUS
<1>1. UNCHANGED <<typed, app, tpm, disk>>
  BY DEF ByClient, ClientHello, ClientReadPub, ClientReadStatus, ClientReadSig,
     ClientTouched, ClientTouchTimeout, ClientReady, ClientGiveUp,
     ClientDeriveKeyfile, ClientBlake2Fails, ClientReadSuccess, ClientDone
<1>2. UNCHANGED <<OpensWithApp, TpmAttestsToApp>>
  BY <1>1 DEF OpensWithApp, TpmAttestsToApp
<1>3. CASE ClientHello \/ ClientReadPub \/ ClientReadStatus
  <2>1. UNCHANGED <<attempts, led>> /\ GateState = "shut" /\ GateState' = "shut"
    BY <1>3 DEF GateState, ClientHello, ClientReadPub, ClientReadStatus, AfterRefusal
  <2> QED
    BY <1>1, <2>1, GateStutters
<1>4. CASE ClientReadSig
  <2>1. UNCHANGED attempts /\ GateState = "shut"
    BY <1>4 DEF GateState, ClientReadSig
  <2>2. CASE clientPc' = "top"
    <3>1. led' = "green"
      BY <1>4, <2>2 DEF ClientReadSig, VerifySig
    <3>2. GateState' = "attested"
      BY <2>2, <3>1 DEF GateState
    <3>3. TpmAttestsToApp'
      BY <2>2, <3>1 DEF IInv, LightTellsTheTruth, TpmAttestsToApp
    <3> QED
      BY <1>1, <1>2, <2>1, <3>2, <3>3 DEF Gate!Next, Gate!Attest
  <2>3. CASE clientPc' = "touchPurple"
    <3>1. GateState' = "shut"
      BY <2>3 DEF GateState
    <3> QED
      BY <1>1, <2>1, <3>1, GateStutters
  <2>4. CASE clientPc' = "abort"
    <3>1. GateState' = "closed"
      BY <2>4 DEF GateState
    <3> QED
      BY <1>1, <2>1, <3>1, GateCloses
  <2> QED
    BY <1>4, <2>2, <2>3, <2>4 DEF ClientReadSig, VerifySig
<1>5. CASE ClientTouched
  <2>1. GateState = "shut" /\ GateState' = "overridden" /\ UNCHANGED attempts
    BY <1>5 DEF GateState, ClientTouched
  <2> QED
    BY <1>1, <1>2, <2>1 DEF Gate!Next, Gate!Override
<1>6. CASE ClientTouchTimeout \/ ClientGiveUp \/ ClientDone
  <2>1. GateState' = "closed" /\ UNCHANGED attempts
    BY <1>6 DEF GateState, ClientTouchTimeout, ClientGiveUp, ClientDone
  <2> QED
    BY <1>1, <2>1, GateCloses
<1>7. CASE ClientReady
  <2>1. /\ GateState \in {"attested", "overridden"} /\ GateState' = GateState
        /\ attempts < 3 /\ attempts' = attempts + 1
    BY <1>7 DEF GateState, ClientReady, MayAttempt, IInv, LightFollows
  <2> QED
    BY <1>1, <1>2, <2>1 DEF Gate!Next, Gate!Begin, Gate!GateOpen
<1>8. CASE ClientDeriveKeyfile \/ ClientBlake2Fails
  <2>1. GateState' = GateState /\ UNCHANGED attempts
    BY <1>8 DEF GateState, ClientDeriveKeyfile, ClientBlake2Fails, AfterBlake2
  <2> QED
    BY <1>1, <2>1, GateStutters
<1>9. CASE ClientReadSuccess
  <2>1. CASE clientPc' = "farewell"
    <3>1. GateState' = "closed" /\ UNCHANGED attempts
      BY <1>9, <2>1 DEF GateState, ClientReadSuccess
    <3> QED
      BY <1>1, <3>1, GateCloses
  <2>2. CASE clientPc' = "top" /\ led' = led
    <3>1. GateState' = GateState /\ UNCHANGED attempts
      BY <1>9, <2>2 DEF GateState, ClientReadSuccess
    <3> QED
      BY <1>1, <3>1, GateStutters
  <2> QED
    BY <1>9, <2>1, <2>2 DEF ClientReadSuccess
<1> QED
  BY <1>3, <1>4, <1>5, <1>6, <1>7, <1>8, <1>9 DEF ByClient

\* A step of the host offers a guess, opens the disk, or is none of the gate's
\* business.
LEMMA HostRefines == IInv /\ IInv' /\ ByHost => [Gate!Next]_Gate!gateVars
<1> SUFFICES ASSUME IInv, IInv', ByHost PROVE [Gate!Next]_Gate!gateVars
  OBVIOUS
<1>1. CASE LoadApp
  <2>1. UNCHANGED <<GateState, attempts, typed, app, tpm, disk>>
    BY <1>1 DEF LoadApp, HostLoads, ClientBoot, GateState
  <2> QED
    BY <2>1, GateStutters
<1>2. ASSUME UNCHANGED clientVars PROVE UNCHANGED <<GateState, attempts, app>>
  BY <1>2 DEF GateState
<1>3. CASE ByHostLibrary
  <2>1. UNCHANGED clientVars /\ UNCHANGED <<typed, tpm, disk>>
    BY <1>3 DEF ByHostLibrary, HostReadNonce, HostReadEncNonce, HostRandomFails,
       HostReadTkeyPub, TpmSigns, TpmRefuses, HostAuthStatus, HostLoadFails, HostIoError
  <2> QED
    BY <1>2, <2>1, GateStutters
<1>4. CASE ByHostMain
  <2>1. UNCHANGED clientVars
    BY <1>4 DEF ByHostMain
  <2>2. CASE HostSendsHash
    <3>1. attached /\ typed' \in Pass /\ UNCHANGED <<tpm, disk>>
      BY <2>2 DEF HostSendsHash
    <3>2. clientPc = "rdHash" /\ tries = attempts
      BY <2>2, <3>1 DEF HostSendsHash, IInv, Lockstep, Asking
    <3>3. GateState \in {"attested", "overridden"} /\ attempts > 0
      BY <3>2, HostTypes DEF GateState, IInv, LightFollows
    <3>4. UNCHANGED <<OpensWithApp, TpmAttestsToApp>>
      BY <1>2, <2>1, <3>1 DEF OpensWithApp, TpmAttestsToApp
    <3> QED
      BY <1>2, <2>1, <3>1, <3>3, <3>4 DEF Gate!Next, Gate!Offer, Gate!GateOpen
  <2>3. CASE CryptsetupOpens \/ CryptsetupKilled
    <3>1. UNCHANGED <<typed, tpm>> /\ hostPc = "cryptsetup"
      BY <2>3 DEF CryptsetupOpens, CryptsetupKilled, ReportFailure
    <3>2. CASE disk' = disk
      BY <1>2, <2>1, <3>1, <3>2, GateStutters
    <3>3. CASE disk' = "open" /\ keyfile \in Keyslots
      <4>1. typed \in OpensWithApp
        BY <3>1, <3>3 DEF IInv, CryptsetupGetsDerivedKeyfile, DrawnInTime,
           OpensWithApp
      <4>2. UNCHANGED <<OpensWithApp, TpmAttestsToApp>>
        BY <1>2, <2>1, <3>1 DEF OpensWithApp, TpmAttestsToApp
      <4> QED
        BY <1>2, <2>1, <3>1, <3>3, <4>1, <4>2 DEF Gate!Next, Gate!Open
    <3> QED
      BY <2>3, <3>2, <3>3 DEF CryptsetupOpens, CryptsetupKilled
  <2>4. CASE ~HostSendsHash /\ ~CryptsetupOpens /\ ~CryptsetupKilled
    <3>1. UNCHANGED <<typed, tpm, disk>>
      BY <1>4, <2>4 DEF ByHostMain, HostMount, HostMountFails, HostReady,
         HostAsksAgain, HostAskFails, HostPassStatus, HostPipesKeyfile,
         HostSpawnFails, CryptsetupRefuses, ReportFailure, HostPipeBreaks,
         HostWaitFails
    <3> QED
      BY <1>2, <2>1, <3>1, GateStutters
  <2> QED
    BY <2>2, <2>3, <2>4
<1> QED
  BY <1>1, <1>3, <1>4 DEF ByHost

\* A boot begins with a gate that is shut and no guess made.
LEMMA GateInit == Init => Gate!Init
<1> SUFFICES ASSUME Init PROVE Gate!Init
  OBVIOUS
<1>1. GateState = "shut" /\ attempts = 0 /\ typed = NoPass /\ disk = "locked"
  BY DEF Init, ClientInit, HostInit, GateState
<1>2. OpensWithApp \subseteq Pass
  BY DEF OpensWithApp
<1>3. TpmAttestsToApp \in BOOLEAN
  BY DEF TpmAttestsToApp, Init, HostInit, AuthInit
<1> QED
  BY <1>1, <1>2, <1>3 DEF Gate!Init

\* One boot of host and TKey implements the abstract gate: a passphrase guess is
\* only ever begun after the attestation or a touch, at most three are, and the
\* disk opens only for an enrolled passphrase offered that way.
THEOREM ImplementsGate == Spec => RefinesGate
<1>1. IInv /\ IInv' /\ [Next]_vars => [Gate!Next]_Gate!gateVars
  <2> SUFFICES ASSUME IInv, IInv', [Next]_vars PROVE [Gate!Next]_Gate!gateVars
    OBVIOUS
  <2>1. CASE ByClient
    BY <2>1, ClientRefines
  <2>2. CASE ByHost
    BY <2>2, HostRefines
  <2>3. CASE StartCryptsetupUnit
    <3>1. UNCHANGED <<GateState, attempts, typed, app, tpm, disk>>
      BY <2>3 DEF StartCryptsetupUnit, GateState
    <3> QED
      BY <3>1, GateStutters
  <2>4. CASE Unplug
    <3>1. GateState' = "closed" /\ UNCHANGED <<attempts, typed, app, tpm, disk>>
      BY <2>4 DEF Unplug, ClientLosesPower, GateState
    <3> QED
      BY <3>1, GateCloses
  <2>5. CASE UNCHANGED vars
    <3>1. UNCHANGED <<GateState, attempts, typed, app, tpm, disk>>
      BY <2>5 DEF vars, GateState
    <3> QED
      BY <3>1, GateStutters
  <2> QED
    BY <2>1, <2>2, <2>3, <2>4, <2>5 DEF Next
<1> QED
  BY <1>1, GateInit, InvariantHolds, PTL DEF Spec, RefinesGate, Gate!Spec

(***************************************************************************)
(* What every implementation of the gate keeps, read off the abstract      *)
(* steps and so true of the boot.                                          *)
(***************************************************************************)

\* Nothing is offered without an attempt, no attempt is made before the gate has
\* opened, and the disk does not open for an app that no keyslot is for.
Guarded ==
    /\ attempts \in 0 .. 3
    /\ attempts > 0 => GateState # "shut"
    /\ typed # NoPass => attempts > 0
    /\ disk = "open" => attempts > 0 /\ OpensWithApp # {}

\* A disk that is open was opened through the gate: the attestation or a touch came
\* first, one to three attempts were begun, and a passphrase exists whose keyfile,
\* made by the very app that was loaded, is in a keyslot.
NoBackDoor ==
    disk = "open" =>
        /\ GateState # "shut"
        /\ attempts \in 1 .. 3
        /\ \E p \in Pass : Blake2s(app, Argon2(p)) \in Keyslots

\* A step of the abstract gate keeps what guards the disk.
LEMMA GuardedStep ==
    ASSUME Guarded, [Gate!Next]_Gate!gateVars, NoPass \notin Pass
    PROVE  Guarded'
<1>1. CASE Gate!Attest \/ Gate!Override \/ Gate!Close
  BY <1>1 DEF Guarded, Gate!Attest, Gate!Override, Gate!Close
<1>2. CASE Gate!Begin
  BY <1>2 DEF Guarded, Gate!Begin, Gate!GateOpen
<1>3. CASE Gate!Offer
  BY <1>3 DEF Guarded, Gate!Offer, Gate!GateOpen
<1>4. CASE Gate!Open
  <2>1. typed \in OpensWithApp /\ OpensWithApp' = OpensWithApp
    BY <1>4 DEF Gate!Open
  <2>2. typed # NoPass
    BY <2>1 DEF OpensWithApp
  <2> QED
    BY <1>4, <2>1, <2>2 DEF Guarded, Gate!Open
<1>5. CASE UNCHANGED Gate!gateVars
  BY <1>5 DEF Guarded, Gate!gateVars
<1> QED
  BY <1>1, <1>2, <1>3, <1>4, <1>5 DEF Gate!Next

\* The abstract gate's promise, for the two programs: the disk is never open
\* without attestation or touch, attempt and enrolled app.
THEOREM DiskIsGuarded == Spec => []NoBackDoor
<1>1. Gate!Init => Guarded
  BY DEF Gate!Init, Guarded
<1>2. Guarded /\ [Gate!Next]_Gate!gateVars => Guarded'
  BY GuardedStep, ProtocolAssumption
<1>3. Guarded => NoBackDoor
  BY DEF Guarded, NoBackDoor, OpensWithApp
<1> QED
  BY <1>1, <1>2, <1>3, ImplementsGate, PTL DEF RefinesGate, Gate!Spec

\* One power-on of the TKey is one opening of the gate: once shut again it stays
\* shut, and whether this boot was attested or overridden is never revised.
THEOREM GateOpensOnce ==
    Spec => [][ /\ GateState' # GateState =>
                      GateState = "shut" \/ GateState' = "closed"
                /\ GateState = "closed" => UNCHANGED <<GateState, attempts, typed>>
                /\ attempts' # attempts =>
                      GateState \in {"attested", "overridden"} /\ attempts' = attempts + 1
              ]_Gate!gateVars
<1>1. [Gate!Next]_Gate!gateVars =>
        [ /\ GateState' # GateState => GateState = "shut" \/ GateState' = "closed"
          /\ GateState = "closed" => UNCHANGED <<GateState, attempts, typed>>
          /\ attempts' # attempts =>
                GateState \in {"attested", "overridden"} /\ attempts' = attempts + 1
        ]_Gate!gateVars
  BY DEF Gate!Next, Gate!Attest, Gate!Override, Gate!Begin, Gate!Offer, Gate!Open,
     Gate!Close, Gate!GateOpen
<1> QED
  BY <1>1, ImplementsGate, PTL DEF RefinesGate, Gate!Spec

=============================================================================
