------------------------- MODULE LinuxEnrollProofs -------------------------
(***************************************************************************)
(* The Linux enrollment keeps its promises for every header, every user    *)
(* and every moment at which it may be killed: its invariants and the      *)
(* refinement of KeyslotEnrollment.                                        *)
(***************************************************************************)
EXTENDS LinuxEnroll, EnrollProofs

\* What cryptsetup has done by the time the program is at each of its places,
\* and after the program has ended.
CryptsetupFollows ==
    /\ hostPc \notin {"rdKeyfile", "wait", "exit"} => child = "none"
    /\ hostPc = "rdKeyfile" => child = "reading"
    /\ hostPc \in {"askCurrent", "rdKeyfile"} => hostPos = 1
    /\ hostPc = "wait" => hostPos = 2
    /\ child \in {"adding", "ok"} => hostPos = 2
    /\ child \in {"none", "reading", "starved", "adding", "failed"} => ~added
    /\ child = "ok" => added

\* What has been reported, and what the header then holds.
ReportFollows ==
    /\ added => OpensAtBoot
    /\ exitCode = "success" => added

\* From the prompt for the current passphrase on, and as long as a cryptsetup that
\* was started has not failed, the app has heard of no failure.
NotRefused ==
    hostPc \in {"askCurrent", "rdKeyfile", "wait"} \/ child \notin {"none", "failed"} =>
        /\ attempts = 1
        /\ clientPc \in {"rdSuccess", "farewell", "done", "off"}
        /\ toTkey \in {<<>>, <<DiskOpened>>}

LinuxTypes ==
    /\ hostPc \in EnrollPcs
    /\ DOMAIN slots = Slots
    /\ child \in ChildStates \ {"killing"}
    /\ added \in BOOLEAN
    /\ current \in Pass \cup {NoPass}

LinuxInv ==
    SessionInv /\ LinuxTypes /\ CryptsetupFollows /\ ReportFollows /\ NotRefused

USE DEF StartPcs, VerdictPcs, KeyfilePcs, ProgramPcs, serialVars, clientVars, authVars,
        passVars, luksVars, ChildStates, EnrollPcs

-----------------------------------------------------------------------------
(* Steps that leave disk and cryptsetup alone. *)

\* The enrollment at its beginning.
LEMMA InitHolds == Init => LinuxInv
<1> SUFFICES ASSUME Init PROVE LinuxInv
  OBVIOUS
<1> USE DEF Init, SerialInit, ClientInit, AuthInit, PassEnrollInit, LuksInit
<1>1. SessionInv
  BY SessionBegins
<1>2. LinuxTypes /\ CryptsetupFollows /\ ReportFollows /\ NotRefused
  BY LuksAssumption DEF LinuxTypes, CryptsetupFollows, ReportFollows, NotRefused
<1> QED
  BY <1>1, <1>2 DEF LinuxInv

\* The program neither moves nor learns anything.
LEMMA StandingStill ==
    ASSUME LinuxInv, UNCHANGED <<hostPc, hostPos, exitCode, passVars, luksVars, app>>
    PROVE  LinuxTypes' /\ CryptsetupFollows' /\ ReportFollows'
  BY DEF LinuxInv, LinuxTypes, CryptsetupFollows, ReportFollows, OpensAtBoot, Derived,
     BootTakes

\* The program moves on, or ends with an error.
LEMMA WithoutCryptsetup ==
    ASSUME LinuxInv, hostPc' \in EnrollPcs,
           hostPc' = "rdKeyfile" => hostPc = "rdKeyfile",
           hostPc' = "wait" => hostPc = "wait",
           hostPc = "exit" => hostPc' = "exit",
           hostPc \in {"rdKeyfile", "wait"} => hostPc' \in {hostPc, "exit"},
           hostPc' = "askCurrent" => hostPos' = 1,
           hostPos' = hostPos \/ hostPc = "askNew",
           typed' = typed \/ hostPc = "askNew",
           UNCHANGED exitCode \/ HostExit("failure"),
           UNCHANGED <<luksVars, current, app>>
    PROVE  LinuxTypes' /\ CryptsetupFollows' /\ ReportFollows'
<1>1. LinuxTypes'
  BY DEF LinuxInv, LinuxTypes
<1>2. CASE hostPc = "askNew"
  BY <1>1, <1>2 DEF LinuxInv, LinuxTypes, CryptsetupFollows, ReportFollows, HostExit
<1>3. CASE hostPc # "askNew"
  <2>1. CryptsetupFollows'
    BY <1>3 DEF LinuxInv, LinuxTypes, CryptsetupFollows
  <2>2. ReportFollows'
    BY <1>3 DEF LinuxInv, CryptsetupFollows, ReportFollows, OpensAtBoot, Derived,
       BootTakes, HostExit
  <2> QED
    BY <1>1, <2>1, <2>2
<1> QED
  BY <1>2, <1>3

\* What the app has heard stays with it, and it is told nothing.
LEMMA NothingHeard ==
    ASSUME LinuxInv, UNCHANGED <<clientPc, attempts, toTkey>>,
           hostPc' \in {"askCurrent", "rdKeyfile", "wait"} =>
               hostPc \in {"askCurrent", "rdKeyfile", "wait"},
           \/ UNCHANGED child
           \/ hostPc \in {"askCurrent", "rdKeyfile", "wait"}
           \/ child \notin {"none", "failed"}
    PROVE  NotRefused'
  BY DEF LinuxInv, NotRefused, DiskOpened

\* Before the prompt for the current passphrase nothing is at stake.
LEMMA NothingAtStake ==
    ASSUME LinuxInv, child' = child, hostPc' \notin {"askCurrent", "rdKeyfile", "wait"},
           hostPc \notin {"askCurrent", "rdKeyfile", "wait", "exit"}
    PROVE  NotRefused'
  BY DEF LinuxInv, CryptsetupFollows, NotRefused

\* An app that waits for the program's word gives up no attempt unless told so.
LEMMA AppMindsItsWord ==
    ASSUME LinuxInv, ClientSteps \/ (HangUp /\ ClientLosesPower), UNCHANGED <<hostPc, child>>
    PROVE  NotRefused'
<1> SUFFICES ASSUME hostPc \in {"askCurrent", "rdKeyfile", "wait"}
                    \/ child \notin {"none", "failed"}
             PROVE  /\ attempts' = 1
                    /\ clientPc' \in {"rdSuccess", "farewell", "done", "off"}
                    /\ toTkey' \in {<<>>, <<DiskOpened>>}
  BY DEF NotRefused, DiskOpened
<1>1. /\ attempts = 1 /\ clientPc \in {"rdSuccess", "farewell", "done", "off"}
      /\ toTkey \in {<<>>, <<DiskOpened>>}
  BY DEF LinuxInv, NotRefused
<1>2. CASE HangUp /\ ClientLosesPower
  BY <1>1, <1>2 DEF HangUp, ClientLosesPower
<1>3. CASE ClientReadSuccess
  <2>1. toTkey # <<>> /\ toTkey' = Tail(toTkey)
    BY <1>3 DEF ClientReadSuccess, Readable
  <2>2. Head(toTkey) = DiskOpened /\ toTkey' = <<>>
    BY <1>1, <2>1, ReadFrame
  <2>3. IsSuccess(Head(toTkey).data)
    BY <2>2 DEF IsSuccess, DiskOpened, Status, Frame, HostByte, HostByteAtClient
  <2> QED
    BY <1>1, <1>3, <2>2, <2>3 DEF ClientReadSuccess
<1>4. CASE ClientDone
  BY <1>1, <1>4 DEF ClientDone
<1>5. CASE ClientSteps /\ ~ClientReadSuccess /\ ~ClientDone
  BY <1>1, <1>5 DEF ClientSteps, ClientHello, ClientReadPub, ClientReadStatus,
     ClientReadSig, ClientTouched, ClientTouchTimeout, ClientReady, ClientDeriveKeyfile,
     ClientBlake2Fails
<1> QED
  BY <1>2, <1>3, <1>4, <1>5

-----------------------------------------------------------------------------
(* Every step keeps the invariant. *)

\* What the app does, or loses.
LEMMA ByClientKeeps == LinuxInv /\ ByClient => LinuxInv'
<1> SUFFICES ASSUME LinuxInv, ByClient PROVE LinuxInv'
  OBVIOUS
<1>1. ClientSteps /\ UNCHANGED hostSide /\ app' = app
  BY AppStays DEF ByClient
<1>2. SessionInv'
  BY <1>1, ClientStepsKeep DEF LinuxInv, hostSide, programSide
<1>3. LinuxTypes' /\ CryptsetupFollows' /\ ReportFollows'
  BY <1>1, StandingStill DEF hostSide
<1>4. NotRefused'
  BY <1>1, AppMindsItsWord DEF hostSide
<1> QED
  BY <1>2, <1>3, <1>4 DEF LinuxInv

\* The TKey is pulled out.
LEMMA UnplugKeepsAll == LinuxInv /\ Unplug => LinuxInv'
<1> SUFFICES ASSUME LinuxInv, Unplug PROVE LinuxInv'
  OBVIOUS
<1>1. HangUp /\ ClientLosesPower /\ UNCHANGED hostSide /\ app' = app
  BY AppStays DEF Unplug
<1>2. SessionInv'
  BY <1>1, UnplugKeeps DEF LinuxInv, hostSide, programSide
<1>3. LinuxTypes' /\ CryptsetupFollows' /\ ReportFollows'
  BY <1>1, StandingStill DEF hostSide
<1>4. NotRefused'
  BY <1>1, AppMindsItsWord DEF hostSide
<1> QED
  BY <1>2, <1>3, <1>4 DEF LinuxInv

\* The program up to the TKey's and the TPM's verdicts.
Authenticates ==
    \/ LoadApp
    \/ /\ HostReadNonce \/ HostReadEncNonce \/ HostReadTkeyPub \/ TpmSigns \/ TpmRefuses
          \/ HostAuthStatus \/ HostLoadFails \/ HostIoError
       /\ UNCHANGED besideAuth

LEMMA AuthenticatesKeeps == LinuxInv /\ Authenticates => LinuxInv'
<1> SUFFICES ASSUME LinuxInv, Authenticates PROVE LinuxInv'
  OBVIOUS
<1>1. UNCHANGED <<hostPos, passVars, luksVars, app>>
  BY DEF Authenticates, LoadApp, besideAuth, HostLoads, ClientBoot, HostReadNonce,
     HostReadEncNonce, HostReadTkeyPub, TpmSigns, TpmRefuses, HostAuthStatus,
     HostLoadFails, HostIoError
<1>2. /\ hostPc # "exit" /\ hostPc' \in EnrollPcs \ {"askCurrent", "rdKeyfile", "wait"}
      /\ hostPc \notin {"wait"} /\ (hostPc = "rdKeyfile" => hostPc' = "exit")
      /\ UNCHANGED exitCode \/ HostExit("failure")
  BY DEF Authenticates, LoadApp, HostLoads, HostReadNonce, HostReadEncNonce,
     HostReadTkeyPub, TpmSigns, TpmRefuses, HostAuthStatus, HostLoadFails, HostIoError,
     IoErrorPoints, HostReads, HostExit
<1>3. LinuxTypes' /\ CryptsetupFollows' /\ ReportFollows'
  BY <1>1, <1>2, WithoutCryptsetup
<1>4. SessionInv'
  <2>1. CASE LoadApp
    BY <2>1, LoadKeeps DEF LinuxInv, LoadApp
  <2>2. CASE (HostReadNonce \/ HostReadEncNonce \/ HostReadTkeyPub \/ HostAuthStatus
              \/ HostLoadFails \/ HostIoError) /\ UNCHANGED besideAuth
    BY <2>2, HostReadNonceKeeps, HostReadEncNonceKeeps, HostReadTkeyPubKeeps,
       HostAuthStatusKeeps, HostGivesUpKeeps DEF LinuxInv, besideAuth
  <2>3. CASE TpmSigns /\ UNCHANGED besideAuth
    <3>1. /\ tpm.key \in Keys
          /\ \E wf \in BOOLEAN : toTkey' = toTkey \o <<Signed, SigFrame(wf)>>
      BY <2>3 DEF TpmSigns, TpmWouldSign, Signed, SigFrame
    <3> QED
      BY <2>3, <3>1, VerdictKeeps DEF LinuxInv, TpmSigns, besideAuth
  <2>4. CASE TpmRefuses /\ UNCHANGED besideAuth
    <3>1. toTkey' = Append(toTkey, Refused)
      BY <2>4 DEF TpmRefuses, Refused
    <3> QED
      BY <2>4, <3>1, VerdictKeeps DEF LinuxInv, TpmRefuses, besideAuth
  <2> QED
    BY <2>1, <2>2, <2>3, <2>4 DEF Authenticates
<1>5. NotRefused'
  <2>1. CASE hostPc \in {"rdKeyfile", "wait", "askCurrent"}
    <3>1. UNCHANGED <<clientPc, attempts, toTkey>>
      BY <2>1 DEF Authenticates, LoadApp, HostLoads, besideAuth, HostReadNonce,
         HostReadEncNonce, HostReadTkeyPub, TpmSigns, TpmRefuses, HostAuthStatus,
         HostLoadFails, HostIoError
    <3> QED
      BY <1>1, <1>2, <3>1, NothingHeard
  <2>2. CASE hostPc \notin {"rdKeyfile", "wait", "askCurrent"}
    BY <1>1, <1>2, <2>2, NothingAtStake
  <2> QED
    BY <2>1, <2>2
<1> QED
  BY <1>3, <1>4, <1>5 DEF LinuxInv

\* The program from then to the prompt for the current passphrase.
Asks ==
    /\ AwaitsReady \/ AsksNewAgain \/ SendsNewHash(LongEnough) \/ AskNewFails
       \/ NewPassStatus("askCurrent") \/ HostKilled
    /\ UNCHANGED besidePass

LEMMA AsksKeeps == LinuxInv /\ Asks => LinuxInv'
<1> SUFFICES ASSUME LinuxInv, Asks PROVE LinuxInv'
  OBVIOUS
<1>1. /\ UNCHANGED <<luksVars, current, app>>
      /\ hostPos' = hostPos \/ hostPc = "askNew"
      /\ typed' = typed \/ hostPc = "askNew"
  BY DEF Asks, besidePass, AwaitsReady, AsksNewAgain, SendsNewHash, AskNewFails,
     NewPassStatus, HostKilled
<1>2. /\ hostPc # "exit" /\ hostPc' \in EnrollPcs \ {"rdKeyfile", "wait"}
      /\ hostPc \in {"rdKeyfile", "wait"} => hostPc' = "exit"
      /\ hostPc' = "askCurrent" => hostPc = "rdPass" /\ hostPos' = hostPos
      /\ UNCHANGED exitCode \/ HostExit("failure")
  BY DEF Asks, AwaitsReady, AsksNewAgain, SendsNewHash, AskNewFails, NewPassStatus,
     HostKilled, HostExit
<1>3. hostPc' = "askCurrent" => hostPos' = 1
  BY <1>2 DEF LinuxInv, SessionInv, KeyfileFollows
<1>4. LinuxTypes' /\ CryptsetupFollows' /\ ReportFollows'
  BY <1>1, <1>2, <1>3, WithoutCryptsetup
<1>5. SessionInv'
  <2>1. CASE (AwaitsReady \/ NewPassStatus("askCurrent")) /\ UNCHANGED besidePass
    BY <2>1, AwaitsReadyKeeps, NewPassStatusKeeps DEF LinuxInv, besidePass
  <2>2. CASE SendsNewHash(LongEnough) /\ UNCHANGED besidePass
    <3>1. LongEnough \subseteq Nat \ (0 .. 7)
      BY DEF LongEnough
    <3> QED
      BY <2>2, <3>1, SendsNewHashKeeps DEF LinuxInv, besidePass
  <2>3. CASE AsksNewAgain /\ UNCHANGED besidePass
    <3>1. trust' \in BOOLEAN
      BY <2>3 DEF LinuxInv, SessionInv, SessionTypes, AsksNewAgain
    <3> QED
      BY <2>3, <3>1, MovingOnKeeps DEF LinuxInv, AsksNewAgain, besidePass
  <2>4. CASE (AskNewFails \/ HostKilled) /\ UNCHANGED besidePass
    BY <1>2, <2>4, GivingUpKeeps DEF LinuxInv, AskNewFails, HostKilled, besidePass
  <2> QED
    BY <2>1, <2>2, <2>3, <2>4 DEF Asks
<1>6. NotRefused'
  <2>1. CASE hostPc' = "askCurrent"
    <3>1. NewPassStatus("askCurrent") /\ UNCHANGED <<clientPc, attempts, toTkey>>
      BY <1>2, <2>1 DEF Asks, besidePass, AwaitsReady, AsksNewAgain, SendsNewHash,
         AskNewFails, NewPassStatus, HostKilled, HostExit
    <3>2. attached'
      BY <3>1, ReadableIsAttached DEF NewPassStatus, Readable, LinuxInv
    <3>3. clientPc' = "rdSuccess" /\ toTkey' = <<>>
      BY <1>3, <1>5, <2>1, <3>2 DEF SessionInv, Lockstep, WaitingForKeyfile, At
    <3> QED
      BY <1>5, <3>3 DEF SessionInv, OneAttempt, NotRefused
  <2>2. CASE hostPc' # "askCurrent" /\ hostPc \notin {"askCurrent", "rdKeyfile", "wait"}
    BY <1>1, <1>2, <2>2, NothingAtStake
  <2>3. CASE hostPc \in {"askCurrent", "rdKeyfile", "wait"}
    <3>1. HostKilled /\ UNCHANGED besidePass
      BY <2>3 DEF Asks, AwaitsReady, AsksNewAgain, SendsNewHash, AskNewFails,
         NewPassStatus
    <3> QED
      BY <1>1, <3>1, NothingHeard DEF HostKilled, HostExit, besidePass
  <2> QED
    BY <2>1, <2>2, <2>3
<1> QED
  BY <1>4, <1>5, <1>6 DEF LinuxInv

\* cryptsetup is started, or is not.
LEMMA AsksCurrentKeeps == LinuxInv /\ (AsksCurrent \/ AskCurrentFails) => LinuxInv'
<1> SUFFICES ASSUME LinuxInv, AsksCurrent \/ AskCurrentFails PROVE LinuxInv'
  OBVIOUS
<1>1. CASE AsksCurrent
  <2> USE <1>1 DEF AsksCurrent, besideMain
  <2>1. trust' \in BOOLEAN
    BY DEF LinuxInv, SessionInv, SessionTypes
  <2>2. SessionInv'
    BY <2>1, MovingOnKeeps DEF LinuxInv
  <2>3. LinuxTypes'
    BY DEF LinuxInv, LinuxTypes
  <2>4. CryptsetupFollows'
    BY DEF LinuxInv, CryptsetupFollows
  <2>5. ReportFollows'
    BY DEF LinuxInv, CryptsetupFollows, ReportFollows
  <2>6. NotRefused'
    BY NothingHeard
  <2> QED
    BY <2>2, <2>3, <2>4, <2>5, <2>6 DEF LinuxInv
<1>2. CASE AskCurrentFails
  <2> USE <1>2 DEF AskCurrentFails, besideMain
  <2>1. SessionInv'
    BY GivingUpKeeps DEF LinuxInv
  <2>2. LinuxTypes' /\ CryptsetupFollows' /\ ReportFollows' /\ NotRefused'
    BY WithoutCryptsetup, NothingHeard DEF HostExit
  <2> QED
    BY <2>1, <2>2 DEF LinuxInv
<1> QED
  BY <1>1, <1>2

\* cryptsetup gets the keyfile, or has ended before.
LEMMA PipesKeeps == LinuxInv /\ (PipesKeyfile \/ PipeBreaks) => LinuxInv'
<1> SUFFICES ASSUME LinuxInv, PipesKeyfile \/ PipeBreaks PROVE LinuxInv'
  OBVIOUS
<1> USE DEF PipesKeyfile, PipeBreaks, besideMain
<1>1. hostPc = "rdKeyfile" /\ TakesKeyfile /\ hostPos' = 2
  BY KeyfileIsDerived DEF LinuxInv
<1>2. child = "reading" /\ ~added /\ exitCode = "none"
  BY <1>1 DEF LinuxInv, CryptsetupFollows, SessionInv, FarewellFollows
<1>3. \/ hostPc' = "wait" /\ child' \in {"starved", "adding"} /\ UNCHANGED exitCode
      \/ HostExit("failure") /\ child' = "failed"
  BY DEF GetsBothKeys
<1>4. SessionInv'
  BY <1>1, <1>3, TakesKeyfileKeeps DEF LinuxInv
<1>5. LinuxTypes' /\ CryptsetupFollows' /\ ReportFollows'
  BY <1>1, <1>2, <1>3 DEF HostExit, LinuxInv, LinuxTypes, CryptsetupFollows, ReportFollows
<1>6. NotRefused'
  BY <1>1, NothingHeard
<1> QED
  BY <1>4, <1>5, <1>6 DEF LinuxInv

\* The program passes on how cryptsetup has ended.
LEMMA ReportsKeeps == LinuxInv /\ Reports => LinuxInv'
<1> SUFFICES ASSUME LinuxInv, Reports PROVE LinuxInv'
  OBVIOUS
<1> USE DEF Reports, besideMain
<1>1. hostPc = "wait" /\ hostPos = 2
  BY DEF LinuxInv, CryptsetupFollows
<1>2. \/ attached /\ child = "ok" /\ toTkey' = Append(toTkey, DiskOpened)
         /\ HostExit("success")
      \/ attached /\ child = "failed" /\ toTkey' = Append(toTkey, TryAgain)
         /\ HostExit("failure")
      \/ HostExit("failure") /\ UNCHANGED toTkey
  BY DEF StatusIsZero, StatusIsNotZero, DiskOpened, TryAgain
<1>3. SessionInv'
  <2>1. CASE HostExit("failure") /\ UNCHANGED toTkey
    BY <1>1, <2>1, GivingUpKeeps DEF LinuxInv
  <2>2. CASE attached /\ ~(HostExit("failure") /\ UNCHANGED toTkey)
    BY <1>1, <1>2, <2>2, ReportKeeps DEF LinuxInv
  <2> QED
    BY <1>2, <2>1, <2>2
<1>4. LinuxTypes' /\ CryptsetupFollows'
  BY <1>1 DEF HostExit, LinuxInv, LinuxTypes, CryptsetupFollows
<1>5. ReportFollows'
  BY <1>2 DEF HostExit, LinuxInv, CryptsetupFollows, ReportFollows, OpensAtBoot, Derived,
     BootTakes
<1>6. NotRefused'
  <2>1. CASE attached /\ child = "failed"
    BY <2>1 DEF NotRefused, HostExit
  <2>2. CASE attached /\ toTkey' = Append(toTkey, DiskOpened)
    <3>1. toTkey' = <<DiskOpened>>
      BY <1>1, <2>2, WriteFirst DEF LinuxInv, SessionInv, Lockstep, WaitingForReport, At
    <3>2. attempts' = 1 /\ clientPc' \in {"rdSuccess", "farewell", "done", "off"}
      BY <1>1 DEF LinuxInv, NotRefused
    <3> QED
      BY <3>1, <3>2 DEF NotRefused, DiskOpened
  <2>3. CASE UNCHANGED toTkey
    BY <1>1, <2>3, NothingHeard DEF HostExit
  <2> QED
    BY <1>2, <2>1, <2>2, <2>3
<1> QED
  BY <1>3, <1>4, <1>5, <1>6 DEF LinuxInv

\* The session does not depend on what cryptsetup does.
LEMMA SessionBesideLuks == LinuxInv /\ UNCHANGED besideLuks => SessionInv'
<1> SUFFICES ASSUME LinuxInv, UNCHANGED besideLuks PROVE SessionInv'
  OBVIOUS
<1>1. trust' \in BOOLEAN
  BY DEF LinuxInv, SessionInv, SessionTypes, besideLuks
<1> QED
  BY <1>1, MovingOnKeeps DEF LinuxInv, besideLuks

\* The keyfile that cryptsetup is given is the one that the boot will derive.
LEMMA AddsDerived ==
    ASSUME LinuxInv, child = "adding"
    PROVE  /\ keyfile = Derived /\ typed # NoPass /\ BootTakes(typed) /\ ~added
           /\ exitCode # "success"
  BY ProtocolAssumption
     DEF LinuxInv, CryptsetupFollows, ReportFollows, SessionInv, KeyfileFollows

\* cryptsetup fills a keyslot and opens none; whatever it does, the program finds
\* out, unless it has ended.
LEMMA ByCryptsetupKeeps == LinuxInv /\ ByCryptsetup => LinuxInv'
<1> SUFFICES ASSUME LinuxInv, ByCryptsetup PROVE LinuxInv'
  OBVIOUS
<1>1. UNCHANGED besideLuks
  BY DEF ByCryptsetup
<1>2. SessionInv'
  BY <1>1, SessionBesideLuks
<1>3. CASE CryptsetupAdds(Text(current), keyfile)
  <2> USE <1>3 DEF CryptsetupAdds
  <2>1. keyfile = Derived /\ typed # NoPass /\ BootTakes(typed) /\ exitCode # "success"
        /\ hostPos = 2 /\ hostPc \in {"wait", "exit"}
    BY AddsDerived DEF LinuxInv, CryptsetupFollows
  <2>2. PICK s \in Slots : slots' = [slots EXCEPT ![s] = keyfile]
    OBVIOUS
  <2>3. DOMAIN slots' = Slots /\ slots'[s] = Derived
    BY <2>1, <2>2 DEF LinuxInv, LinuxTypes
  <2>4. Derived' = Derived /\ BootTakes(typed)' = BootTakes(typed)
    BY <1>1 DEF besideLuks, Derived, BootTakes
  <2>5. OpensAtBoot'
    BY <1>1, <2>1, <2>3, <2>4 DEF OpensAtBoot, besideLuks
  <2>6. LinuxTypes'
    BY <1>1, <2>3 DEF LinuxInv, LinuxTypes, besideLuks
  <2>7. CryptsetupFollows'
    BY <1>1, <2>1 DEF LinuxInv, CryptsetupFollows, besideLuks
  <2>8. ReportFollows'
    BY <1>1, <2>1, <2>5 DEF ReportFollows, besideLuks
  <2>9. NotRefused'
    BY <1>1, NothingHeard DEF besideLuks
  <2> QED
    BY <1>2, <2>6, <2>7, <2>8, <2>9 DEF LinuxInv
<1>4. CASE CryptsetupFails
  <2>1. child = "adding" /\ child' \in {"failed", "killed"} /\ UNCHANGED <<slots, added>>
    BY <1>4 DEF CryptsetupFails, LinuxInv, LinuxTypes
  <2>2. LinuxTypes' /\ CryptsetupFollows'
    BY <1>1, <2>1 DEF LinuxInv, LinuxTypes, CryptsetupFollows, besideLuks
  <2>3. ReportFollows'
    BY <1>1, <2>1 DEF LinuxInv, CryptsetupFollows, ReportFollows, besideLuks
  <2>4. NotRefused'
    BY <1>1, <2>1, NothingHeard DEF besideLuks
  <2> QED
    BY <1>2, <2>2, <2>3, <2>4 DEF LinuxInv
<1> QED
  BY <1>3, <1>4 DEF ByCryptsetup

\* The steps of the program, sorted.
LEMMA ByHostOrKilled ==
    ByHost \/ Killed =>
        \/ Authenticates \/ Asks
        \/ AsksCurrent \/ AskCurrentFails \/ PipesKeyfile \/ PipeBreaks \/ Reports
  BY DEF ByHost, Killed, Authenticates, Asks

\* The invariant is inductive.
LEMMA InvIsInductive == LinuxInv /\ [Next]_vars => LinuxInv'
<1> SUFFICES ASSUME LinuxInv, [Next]_vars PROVE LinuxInv'
  OBVIOUS
<1>1. CASE UNCHANGED vars
  <2>1. UNCHANGED besideLuks /\ UNCHANGED luksVars
    BY <1>1 DEF vars, enrollVars, besideLuks
  <2>2. LinuxTypes' /\ CryptsetupFollows' /\ ReportFollows'
    BY <2>1, StandingStill DEF besideLuks
  <2>3. NotRefused'
    BY <2>1, NothingHeard DEF besideLuks
  <2> QED
    BY <2>1, <2>2, <2>3, SessionBesideLuks DEF LinuxInv
<1>2. CASE Next
  BY <1>2, ByClientKeeps, UnplugKeepsAll, ByHostOrKilled, AuthenticatesKeeps, AsksKeeps,
     AsksCurrentKeeps, PipesKeeps, ReportsKeeps, ByCryptsetupKeeps DEF Next
<1> QED
  BY <1>1, <1>2

\* The invariant holds throughout every enrollment.
THEOREM LinuxInvHolds == Spec => []LinuxInv
  BY InitHolds, InvIsInductive, PTL DEF Spec

-----------------------------------------------------------------------------
(* What follows from the invariant. *)

\* Every variable of the enrollment has its type, and the app begins at most two
\* of its three attempts (client/src/main.rs:163).
THEOREM EnrollTypeCorrect == Spec => []EnrollTypeOK
<1>1. LinuxInv => EnrollTypeOK
  <2> SUFFICES ASSUME LinuxInv PROVE EnrollTypeOK
    OBVIOUS
  <2>1. LineOK(toHost) /\ LineOK(toTkey)
    BY LinesAre DEF LinuxInv, IsLine
  <2>2. attempts \in 0 .. 2
    BY DEF LinuxInv, SessionInv, OneAttempt
  <2>3. /\ attached \in BOOLEAN /\ ClientTypeOK /\ hostExch \in Exchange
        /\ hostPos \in 0 .. 2 /\ trust \in BOOLEAN
        /\ exitCode \in {"none", "success", "failure"}
        /\ typed \in {p \in Pass : BootTakes(p)} \cup {NoPass}
    BY DEF LinuxInv, SessionInv, SessionTypes
  <2>4. /\ hostPc \in EnrollPcs /\ DOMAIN slots = Slots /\ child \in ChildStates
        /\ added \in BOOLEAN /\ current \in Pass \cup {NoPass}
    BY DEF LinuxInv, LinuxTypes
  <2> QED
    BY ONLY <2>1, <2>2, <2>3, <2>4 DEF EnrollTypeOK, PassEnrollTypeOK
<1> QED
  BY <1>1, LinuxInvHolds, PTL

\* Enrollment program and app never take one frame for another, whatever either
\* of them rejects and whenever the other is gone.
THEOREM EnrollmentIsFramed == Spec => []FramingInSync
<1>1. LinuxInv => FramingInSync
  BY SessionIsFramed DEF LinuxInv
<1> QED
  BY <1>1, LinuxInvHolds, PTL

\* Enrollment program and app never wait for each other: in particular the app
\* always has its verdict, although the program reports one only once.
THEOREM EnrollmentGoesOn == Spec => []NoMutualWait
<1>1. LinuxInv => NoMutualWait
  BY SessionGoesOn DEF LinuxInv, CryptsetupFollows
<1> QED
  BY <1>1, LinuxInvHolds, PTL

\* A green farewell and exit code 0 mean a keyslot that the boot opens with the
\* new passphrase, and the app is sent to another attempt (enroll.rs:126) only if
\* none was filled, also when program or cryptsetup is killed or the TKey pulled
\* out in between.
THEOREM LinuxReportsAreTrue == Spec => []ReportsAreTrue
<1>1. LinuxInv => ReportsAreTrue
  <2> SUFFICES ASSUME LinuxInv PROVE ReportsAreTrue
    OBVIOUS
  <2>1. clientPc \in {"farewell", "done"} \/ exitCode = "success" => OpensAtBoot
    BY DEF LinuxInv, SessionInv, FarewellFollows, ReportFollows
  <2>2. attempts = 2 \/ clientPc = "top" => child \in {"none", "failed"}
    BY DEF LinuxInv, NotRefused
  <2>3. child \in {"none", "failed"} => ~added
    BY DEF LinuxInv, CryptsetupFollows
  <2> QED
    BY <2>1, <2>2, <2>3 DEF ReportsAreTrue
<1> QED
  BY <1>1, LinuxInvHolds, PTL

-----------------------------------------------------------------------------
(* The abstract enrollment. *)

\* 32 is no keyslot.
LEMMA NothingIsDoomed == 32 \notin Slots
  BY LuksAssumption

\* A step that changes none of this is not seen.
LEMMA Unseen ==
    ASSUME UNCHANGED <<slots, typed, app, added, exitCode>>
    PROVE  UNCHANGED Enrollment!vars
<1>1. Derived' = Derived
  BY DEF Derived
<1> QED
  BY <1>1 DEF Enrollment!vars

\* The program ends, with a success only if the keyslot has been filled.
LEMMA SeenToEnd ==
    ASSUME exitCode = "none", UNCHANGED <<slots, typed, app, added>>,
           \/ HostExit("success") /\ added
           \/ HostExit("failure")
    PROVE  Enrollment!Next
<1>1. Derived' = Derived
  BY DEF Derived
<1>2. CASE HostExit("success") /\ added
  BY <1>1, <1>2, NothingIsDoomed DEF HostExit, Enrollment!Next, Enrollment!Succeed
<1>3. CASE HostExit("failure")
  BY <1>1, <1>3 DEF HostExit, Enrollment!Next, Enrollment!Fail
<1> QED
  BY <1>2, <1>3

\* Every step of the program, the app and cryptsetup is one of the abstract
\* enrollment, or is not seen.
LEMMA StepRefines == LinuxInv /\ [Next]_vars => [Enrollment!Next]_(Enrollment!vars)
<1> SUFFICES ASSUME LinuxInv, [Next]_vars PROVE [Enrollment!Next]_(Enrollment!vars)
  OBVIOUS
<1>0. exitCode = "none" <=> hostPc # "exit"
  BY DEF LinuxInv, SessionInv, FarewellFollows
<1>1. CASE ByClient \/ Unplug \/ UNCHANGED vars
  <2>1. UNCHANGED <<slots, typed, app, added, exitCode>>
    BY <1>1, AppStays DEF ByClient, Unplug, hostSide, vars, enrollVars
  <2> QED
    BY <2>1, Unseen
<1>2. CASE Authenticates
  <2>1. UNCHANGED <<slots, typed, app, added>>
        /\ hostPc # "exit" /\ (UNCHANGED exitCode \/ HostExit("failure"))
    BY <1>2 DEF Authenticates, LoadApp, besideAuth, HostLoads, ClientBoot,
       HostReadNonce, HostReadEncNonce, HostReadTkeyPub, TpmSigns, TpmRefuses,
       HostAuthStatus, HostLoadFails, HostIoError, HostReads, IoErrorPoints
  <2> QED
    BY <1>0, <2>1, Unseen, SeenToEnd
<1>3. CASE SendsNewHash(LongEnough) /\ UNCHANGED besidePass
  <2>1. typed = NoPass
    BY <1>3 DEF LinuxInv, SessionInv, KeyfileFollows, SendsNewHash
  <2>2. typed' \in Pass /\ UNCHANGED <<slots, added, exitCode, app>>
    BY <1>3 DEF SendsNewHash, besidePass
  <2>3. Derived = Garbled /\ Derived' # Garbled
    BY <2>1, <2>2, ProtocolAssumption DEF Derived, Garbled, Blake2s
  <2> QED
    BY <2>2, <2>3 DEF Enrollment!Next, Enrollment!Derive
<1>4. CASE Asks /\ ~SendsNewHash(LongEnough)
  <2>1. UNCHANGED <<slots, typed, app, added>>
        /\ hostPc # "exit" /\ (UNCHANGED exitCode \/ HostExit("failure"))
    BY <1>4 DEF Asks, besidePass, AwaitsReady, AsksNewAgain, AskNewFails, NewPassStatus,
       HostKilled
  <2> QED
    BY <1>0, <2>1, Unseen, SeenToEnd
<1>5. CASE AsksCurrent \/ AskCurrentFails \/ PipesKeyfile \/ PipeBreaks
  <2>1. UNCHANGED <<slots, typed, app, added>>
        /\ hostPc # "exit" /\ (UNCHANGED exitCode \/ HostExit("failure"))
    BY <1>5 DEF AsksCurrent, AskCurrentFails, PipesKeyfile, PipeBreaks, besideMain
  <2> QED
    BY <1>0, <2>1, Unseen, SeenToEnd
<1>6. CASE Reports
  <2>1. /\ UNCHANGED <<slots, typed, app, added>>
        /\ hostPc # "exit" /\ (child = "ok" => added)
    BY <1>6 DEF Reports, besideMain, LinuxInv, CryptsetupFollows
  <2>2. \/ HostExit("success") /\ child = "ok"
        \/ HostExit("failure")
    BY <1>6 DEF Reports, StatusIsZero
  <2> QED
    BY <1>0, <2>1, <2>2, SeenToEnd
<1>7. CASE CryptsetupAdds(Text(current), keyfile) /\ UNCHANGED besideLuks
  <2>1. keyfile = Derived /\ typed # NoPass /\ ~added /\ exitCode # "success"
    BY <1>7, AddsDerived DEF CryptsetupAdds
  <2>2. Derived # Garbled /\ Derived' = Derived /\ UNCHANGED exitCode
    BY <1>7, <2>1 DEF Derived, Garbled, Blake2s, besideLuks
  <2>3. added' = TRUE
        /\ \E s \in Slots : slots[s] = Empty /\ slots' = [slots EXCEPT ![s] = Derived]
    BY <1>7, <2>1 DEF CryptsetupAdds
  <2> QED
    BY <2>1, <2>2, <2>3 DEF Enrollment!Next, Enrollment!Add
<1>8. CASE CryptsetupFails /\ UNCHANGED besideLuks
  <2>1. UNCHANGED <<slots, typed, app, added, exitCode>>
    BY <1>8 DEF CryptsetupFails, besideLuks
  <2> QED
    BY <2>1, Unseen
<1> QED
  BY <1>1, <1>2, <1>3, <1>4, <1>5, <1>6, <1>7, <1>8, ByHostOrKilled
     DEF Next, ByCryptsetup, Asks

\* The Linux enrollment implements the abstract one, on every header: one keyslot
\* at most is filled, with the keyfile that the boot will derive, nothing else is
\* touched, and a success is announced only after that.
THEOREM LinuxImplementsEnrollment == Spec => RefinesEnrollment
<1>1. Init => Enrollment!Init
  BY DEF Init, PassEnrollInit, LuksInit, AuthInit, Derived, Enrollment!Init
<1> QED
  BY <1>1, StepRefines, LinuxInvHolds, PTL DEF Spec, RefinesEnrollment, Enrollment!Spec

-----------------------------------------------------------------------------
(* What the program inherits from the abstract enrollment. *)

Promise ==
    INSTANCE KeyslotEnrollmentProofs WITH
        SlotNumbers <- Slots,
        Free <- Empty,
        NoKeyfile <- Garbled,
        header <- slots,
        new <- Derived,
        doomed <- 32,
        isAdded <- added,
        outcome <- CASE exitCode = "none" -> "pending"
                     [] exitCode = "success" -> "success"
                     [] OTHER -> "failure"

\* It is the same abstract enrollment.
LEMMA SamePromise == RefinesEnrollment => Promise!Spec
<1>1. Enrollment!Init => Promise!Init
  BY DEF Enrollment!Init, Promise!Init
<1>2. [Enrollment!Next]_(Enrollment!vars) => [Promise!Next]_(Promise!vars)
  BY DEF Enrollment!vars, Promise!vars, Enrollment!Next, Promise!Next,
     Enrollment!Derive, Promise!Derive, Enrollment!Add, Promise!Add,
     Enrollment!Kill, Promise!Kill, Enrollment!Succeed, Promise!Succeed,
     Enrollment!Fail, Promise!Fail
<1> QED
  BY <1>1, <1>2, PTL DEF RefinesEnrollment, Enrollment!Spec, Promise!Spec

\* The header as it was found, or with the keyfile in one keyslot that was free.
OneKeyslotMore(h) ==
    \/ ~added /\ slots = h
    \/ /\ added /\ OpensAtBoot
       /\ \E f \in Slots :
             /\ h[f] = Empty
             /\ \A s \in Slots : slots[s] = IF s = f THEN Derived ELSE h[s]

\* Whatever is killed, pulled out or refused, and however cryptsetup fares, every key
\* of the header still opens its keyslot, and at most one keyslot has been added, with
\* the keyfile that the boot will derive from the new passphrase.
THEOREM LinuxKeepsTheHeader ==
    ASSUME NEW CONSTANT h
    PROVE  Spec /\ slots = h => []OneKeyslotMore(h)
<1>1. Init /\ slots = h => DOMAIN h = Slots
  BY LuksAssumption DEF Init, LuksInit
<1>2. Promise!Spec /\ slots = h /\ DOMAIN h = Slots => []Promise!HeaderInv(h)
  BY Promise!HeaderIsKept
<1>3. LinuxInv /\ Promise!HeaderInv(h) => OneKeyslotMore(h)
  <2> SUFFICES ASSUME LinuxInv, Promise!HeaderInv(h) PROVE OneKeyslotMore(h)
    OBVIOUS
  <2>1. CASE added
    <3>1. PICK f \in Slots :
             /\ h[f] = Empty
             /\ \A s \in Slots : \/ slots[s] = IF s = f THEN Derived ELSE h[s]
                                 \/ s = 32 /\ slots[s] = Empty
      BY <2>1 DEF Promise!HeaderInv, Promise!HeaderFollows, Promise!FilledOnce
    <3>2. OpensAtBoot
      BY <2>1 DEF LinuxInv, ReportFollows
    <3> QED
      BY <2>1, <3>1, <3>2, NothingIsDoomed DEF OneKeyslotMore
  <2>2. CASE ~added
    BY <2>2 DEF Promise!HeaderInv, Promise!HeaderFollows, OneKeyslotMore
  <2> QED
    BY <2>1, <2>2
<1> QED
  BY <1>1, <1>2, <1>3, SamePromise, LinuxImplementsEnrollment, LinuxInvHolds, PTL DEF Spec

\* After the shell has been told of a success the header is left alone.
THEOREM LinuxSuccessIsFinal == Spec => [][exitCode = "success" => UNCHANGED slots]_vars
<1>1. LinuxInv /\ [Next]_vars => [exitCode = "success" => UNCHANGED slots]_vars
  BY StepRefines DEF Enrollment!vars, Enrollment!Next, Enrollment!Derive, Enrollment!Add,
     Enrollment!Kill, Enrollment!Succeed, Enrollment!Fail
<1> QED
  BY <1>1, LinuxInvHolds, PTL DEF Spec

=============================================================================
