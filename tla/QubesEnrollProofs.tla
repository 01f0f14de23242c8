------------------------- MODULE QubesEnrollProofs -------------------------
(***************************************************************************)
(* The Qubes enrollment keeps its promises for every header, every slot    *)
(* that is to be killed, every passphrase, those included that are longer  *)
(* than their length byte can say, and every moment at which one of its    *)
(* programs may die.                                                       *)
(***************************************************************************)
EXTENDS QubesEnroll, EnrollProofs

\* The length byte says how long the current passphrase is (qubes_enroll.rs:112).
Announces(p) == LenByte(CurrentLen(p)) = CurrentLen(p)
Fits == Announces(current)

\* What dom0 takes for the current passphrase.
Prefix(p) == FirstBytes(p, LenByte(CurrentLen(p)))

\* The frames of the stream.
Challenge == Frame("challenge", HostChallenge(hostExch))
LenFrame  == Frame("len", LenByte(CurrentLen(current)))
TextFrame == Frame("text", Prefix(current))
RestFrame == Frame("text", <<"rest", Text(current), LenByte(CurrentLen(current))>>)
KeyFrame  == Frame("keyfile", keyfile)
SlotFrame == Frame("slot", SlotByte)

\* The places of the program before, between and after its exchanges with dom0.
BeforeChallenge == {"argv", "open", "rdNonce", "rdEncNonce", "rdTkeyPub", "tpm"}
AfterVerdict    == {"rdAuth", "rdReady", "askNew", "rdPass", "rdKeyfile", "askCurrent"}
AfterCurrent    == {"rdAdded", "waitDom0"}

\* A keyslot may be killed: the TPM has signed.
Cleared == KillsSlot => TpmWouldSign

VerdictOnStream ==
    \/ toEnroller = <<Refused>>
    \/ /\ TpmWouldSign
       /\ \E wf \in BOOLEAN : toEnroller = <<Signed, SigFrame(wf)>>

\* Dom0 is at pc with this on its way to it, unless it is dead.
Dom0At(pc, line) == dom0Pc = "failure" \/ (dom0Pc = pc /\ toDom0 = line)

\* The stream, for each place of the program.
StreamFollows ==
    /\ hostPc \in BeforeChallenge =>
          toEnroller = <<>> /\ Dom0At("rdChallenge", <<>>)
    /\ hostPc = "rdVerdict" =>
          \/ toEnroller = <<>> /\ Dom0At("rdChallenge", <<Challenge>>)
          \/ VerdictOnStream /\ Dom0At("rdLen", <<>>)
    /\ hostPc \in AfterVerdict =>
          toEnroller = <<>> /\ Dom0At("rdLen", <<>>) /\ child = "none"
    /\ hostPc = "rdAdded" =>
          \/ /\ toEnroller = <<>>
             /\ \/ dom0Pc \in {"rdText", "rdKeyfile", "waitAdd", "failure"}
                \/ dom0Pc = "rdLen" /\ toDom0 # <<>>
          \/ toEnroller = <<DiskOpened>> /\ Dom0At("rdSlot", <<>>)
    /\ hostPc = "waitDom0" =>
          \/ dom0Pc \in {"waitKill", "success"}
          \/ Dom0At("rdSlot", <<SlotFrame>>)

\* The one or the other is left of what was sent with the current passphrase.
OnItsWay(fitting, cut) == toDom0 = IF Fits THEN fitting ELSE cut

\* The stream, for each place of dom0, whether the program lives or not.
Dom0Follows ==
    /\ dom0Pc = "rdChallenge" => toDom0 \in {<<>>, <<Challenge>>}
    /\ dom0Pc = "rdLen" =>
          toDom0 = <<>> \/ OnItsWay(<<LenFrame, TextFrame, KeyFrame>>,
                                   <<LenFrame, TextFrame, RestFrame, KeyFrame>>)
    /\ dom0Pc = "rdText" => OnItsWay(<<TextFrame, KeyFrame>>,
                                     <<TextFrame, RestFrame, KeyFrame>>)
    /\ dom0Pc = "rdKeyfile" => OnItsWay(<<KeyFrame>>, <<RestFrame, KeyFrame>>)
    /\ dom0Pc = "waitAdd" => OnItsWay(<<>>, <<KeyFrame>>)
    /\ dom0Pc = "rdSlot" => toDom0 \in {<<>>, <<SlotFrame>>}

\* What dom0 may rely on once the current passphrase has been sent.
Announced ==
    /\ \/ dom0Pc \in {"rdText", "rdKeyfile", "waitAdd", "rdSlot", "waitKill", "success"}
       \/ dom0Pc = "rdLen" /\ toDom0 # <<>>
       \/ child # "none"
       => Cleared /\ hostPos = 2 /\ hostPc \in AfterCurrent \cup {"exit"}
    /\ hostPc \in AfterVerdict \cup AfterCurrent => Cleared
    /\ hostPc = "rdKeyfile" => hostPos = 1
    /\ hostPc \in AfterCurrent \cup {"askCurrent"} => hostPos = 2

\* What cryptsetup has done, for each place of dom0, and after its end.
CryptsetupFollows ==
    /\ dom0Pc \in {"rdChallenge", "rdLen", "rdText"} => child = "none"
    /\ dom0Pc = "rdKeyfile" => child = "reading"
    /\ dom0Pc = "waitAdd" => child \in {"starved", "adding", "ok", "failed", "killed"}
    /\ dom0Pc \in {"rdSlot", "success"} => child = "ok"
    /\ dom0Pc = "waitKill" => child \in {"killing", "ok", "failed", "killed"}
    /\ dom0Pc \in {"rdKeyfile", "waitAdd"} \/ child = "adding" =>
          dom0Key.text = Prefix(current)
    /\ dom0Pc = "waitAdd" \/ child = "adding" => (Fits => dom0Keyfile = keyfile)
    /\ added \/ child = "killing" => Fits /\ dom0Keyfile = keyfile
    /\ child \in {"none", "reading", "starved", "adding"} => ~added
    /\ child = "ok" => added
    /\ child = "killing" => KillsSlot /\ added
    /\ dom0Pc = "waitKill" \/ child = "killing" => dom0Slot = doomed

\* No keyslot is opened by a passphrase that was cut off.
CutOffOpensNothing ==
    \A p \in Pass : ~Announces(p) => \A s \in Slots : slots[s] # Prefix(p)

\* What has been reported, and what the header then holds.
DoomedIsGone == doomed \in Slots => slots[doomed] = Empty

ReportFollows ==
    /\ added => OpensAtBoot
    /\ dom0Pc = "success" \/ (dom0Pc = "waitKill" /\ child = "ok") => DoomedIsGone
    /\ exitCode = "success" => dom0Pc = "success"

QubesTypes ==
    /\ hostPc \in QubesPcs
    /\ DOMAIN slots = Slots
    /\ child \in ChildStates
    /\ added \in BOOLEAN
    /\ current \in Pass \cup {NoPass}
    /\ dom0Pc \in DOMAIN Dom0Reads \cup {"waitAdd", "waitKill", "success", "failure"}
    /\ DOMAIN dom0Key = {"length", "text"} /\ dom0Key.length \in 0 .. 255
    /\ dom0Slot \in SlotArgs \cup {0, NothingToKill}
    /\ doomed \in SlotArgs \cup {NoSlot}

QubesFollows ==
    QubesTypes /\ StreamFollows /\ Dom0Follows /\ Announced /\ CryptsetupFollows
        /\ ReportFollows

QubesInv == SessionInv /\ QubesFollows /\ CutOffOpensNothing

USE DEF StartPcs, VerdictPcs, KeyfilePcs, ProgramPcs, serialVars, clientVars, authVars,
        passVars, luksVars, dom0Vars, dom0Kept, ChildStates, QubesPcs, Dom0Reads, BeforeChallenge,
        AfterVerdict, AfterCurrent, Dom0At, OnItsWay

-----------------------------------------------------------------------------
(* Lines of the stream. *)

\* Reading from the stream.
LEMMA StreamRead ==
    /\ \A a : Tail(<<a>>) = <<>> /\ Head(<<a>>) = a /\ <<a>> # <<>>
    /\ \A a, b : Tail(<<a, b>>) = <<b>> /\ Head(<<a, b>>) = a /\ <<a, b>> # <<>>
    /\ \A a, b, c : /\ Tail(<<a, b, c>>) = <<b, c>> /\ Head(<<a, b, c>>) = a
                    /\ <<a, b, c>> # <<>>
    /\ \A a, b, c, d : /\ Tail(<<a, b, c, d>>) = <<b, c, d>> /\ Head(<<a, b, c, d>>) = a
                       /\ <<a, b, c, d>> # <<>>
  OBVIOUS

\* The current passphrase and the keyfile are written in one go.
LEMMA StreamWrite ==
    \A a, b, c : ((<<>> \o <<a, b>>) \o <<>>) \o <<c>> = <<a, b, c>>
<1> SUFFICES ASSUME NEW a, NEW b, NEW c
             PROVE  ((<<>> \o <<a, b>>) \o <<>>) \o <<c>> = <<a, b, c>>
  OBVIOUS
<1>1. <<a, b>> \in Seq({a, b}) /\ Len(<<a, b>>) = 2
  OBVIOUS
<1>2. <<>> \o <<a, b>> = <<a, b>> /\ <<a, b>> \o <<>> = <<a, b>>
  BY <1>1, ConcatEmptySeq
<1> DEFINE S == {a, b, c}
<1>3. <<a, b>> \in Seq(S) /\ <<c>> \in Seq(S) /\ <<a, b, c>> \in Seq(S)
  OBVIOUS
<1>4. Len(<<a, b>>) = 2 /\ Len(<<c>>) = 1 /\ Len(<<a, b, c>>) = 3
  OBVIOUS
<1>5. <<a, b>> \o <<c>> \in Seq(S) /\ Len(<<a, b>> \o <<c>>) = 3
  BY <1>3, <1>4
<1>6. \A i \in 1 .. 3 : (<<a, b>> \o <<c>>)[i] = <<a, b, c>>[i]
  BY <1>3, <1>4, ConcatProperties
<1>7. <<a, b>> \o <<c>> = <<a, b, c>>
  <2> HIDE DEF S
  <2> QED
    BY <1>3, <1>4, <1>5, <1>6, SeqEqual
<1> QED
  BY <1>2, <1>7

\* The bytes that the length does not announce come in between.
LEMMA LongerStreamWrite ==
    \A a, b, c, d : ((<<>> \o <<a, b>>) \o <<c>>) \o <<d>> = <<a, b, c, d>>
<1> SUFFICES ASSUME NEW a, NEW b, NEW c, NEW d
             PROVE  ((<<>> \o <<a, b>>) \o <<c>>) \o <<d>> = <<a, b, c, d>>
  OBVIOUS
<1>1. <<a, b>> \o <<c>> = <<a, b, c>>
  <2>1. <<a, b>> \in Seq({a, b}) /\ <<>> \o <<a, b>> = <<a, b>>
    BY ConcatEmptySeq
  <2>2. <<a, b>> \o <<>> = <<a, b>>
    BY <2>1, ConcatEmptySeq
  <2> QED
    BY <2>1, <2>2, StreamWrite
<1>2. <<>> \o <<a, b>> = <<a, b>>
  <2>1. <<a, b>> \in Seq({a, b})
    OBVIOUS
  <2> QED
    BY <2>1, ConcatEmptySeq
<1> DEFINE S == {a, b, c, d}
<1>3. <<a, b, c>> \in Seq(S) /\ <<d>> \in Seq(S) /\ <<a, b, c, d>> \in Seq(S)
  OBVIOUS
<1>4. Len(<<a, b, c>>) = 3 /\ Len(<<d>>) = 1 /\ Len(<<a, b, c, d>>) = 4
  OBVIOUS
<1>5. <<a, b, c>> \o <<d>> \in Seq(S) /\ Len(<<a, b, c>> \o <<d>>) = 4
  BY <1>3, <1>4
<1>6. \A i \in 1 .. 4 : (<<a, b, c>> \o <<d>>)[i] = <<a, b, c, d>>[i]
  BY <1>3, <1>4, ConcatProperties
<1>7. <<a, b, c>> \o <<d>> = <<a, b, c, d>>
  <2> HIDE DEF S
  <2> QED
    BY <1>3, <1>4, <1>5, <1>6, SeqEqual
<1> QED
  BY <1>1, <1>2, <1>7

\* Appending one frame is the same as concatenating it.
LEMMA AppendFrame ==
    ASSUME NEW l, IsLine(l), NEW f
    PROVE  Append(l, f) = l \o <<f>>
<1> DEFINE S == {l[i] : i \in 1 .. Len(l)}
           T == S \cup {f}
<1>1. l \in Seq(S)
  BY LineIsSeq
<1> HIDE DEF S
<1>2. l \in Seq(T) /\ f \in T
  BY <1>1, SeqMonotonic
<1> HIDE DEF T
<1> QED
  BY <1>2, AppendIsConcat

-----------------------------------------------------------------------------
(* Steps that leave the stream alone. *)

\* The enrollment at its beginning.
LEMMA InitHolds == Init => QubesInv
<1> SUFFICES ASSUME Init PROVE QubesInv
  OBVIOUS
<1> USE DEF Init, SerialInit, ClientInit, AuthInit, PassEnrollInit, LuksInit, Dom0Init
<1>1. SessionInv
  BY SessionBegins
<1>2. QubesTypes
  <2>1. DOMAIN slots = Slots /\ child \in ChildStates /\ added \in BOOLEAN
    BY LuksAssumption
  <2>2. DOMAIN dom0Key = {"length", "text"} /\ dom0Key.length = 0
    OBVIOUS
  <2>3. /\ hostPc \in QubesPcs /\ current \in Pass \cup {NoPass}
        /\ dom0Pc \in DOMAIN Dom0Reads /\ doomed \in SlotArgs \cup {NoSlot}
        /\ dom0Slot = 0
    OBVIOUS
  <2> QED
    BY <2>1, <2>2, <2>3 DEF QubesTypes
<1>3. StreamFollows /\ Dom0Follows /\ Announced /\ CryptsetupFollows /\ ReportFollows
  BY DEF StreamFollows, Dom0Follows, Announced, CryptsetupFollows, ReportFollows
<1>4. CutOffOpensNothing
  <2> SUFFICES ASSUME NEW p \in Pass, ~Announces(p), NEW s \in Slots
               PROVE  slots[s] # Prefix(p)
    BY DEF CutOffOpensNothing
  <2> QED
    BY CutOffAssumption DEF Announces, Prefix
<1> QED
  BY <1>1, <1>2, <1>3, <1>4 DEF QubesInv, QubesFollows

\* What is on the stream means the same as long as the program learns nothing.
LEMMA FramesStay ==
    /\ UNCHANGED <<hostExch, tpm, current, keyfile, doomed>> =>
          /\ Challenge' = Challenge /\ LenFrame' = LenFrame /\ TextFrame' = TextFrame
          /\ KeyFrame' = KeyFrame /\ SlotFrame' = SlotFrame
    /\ UNCHANGED current =>
          /\ Fits' = Fits /\ Prefix(current)' = Prefix(current)
          /\ LenFrame' = LenFrame /\ TextFrame' = TextFrame /\ RestFrame' = RestFrame
    /\ UNCHANGED slots => CutOffOpensNothing' = CutOffOpensNothing
    /\ UNCHANGED <<hostExch, tpm, toEnroller>> => VerdictOnStream' = VerdictOnStream
    /\ UNCHANGED <<tpm, doomed>> => Cleared' = Cleared
    /\ DiskOpened' = DiskOpened
<1>1. UNCHANGED current => CurrentLen(current)' = CurrentLen(current)
                           /\ Text(current)' = Text(current)
  BY DEF CurrentLen, Text
<1>2. UNCHANGED current => /\ Fits' = Fits /\ Prefix(current)' = Prefix(current)
                           /\ LenFrame' = LenFrame /\ TextFrame' = TextFrame
                           /\ RestFrame' = RestFrame
  BY <1>1 DEF Fits, Announces, Prefix, FirstBytes, LenFrame, TextFrame, RestFrame
<1>3. UNCHANGED slots => CutOffOpensNothing' = CutOffOpensNothing
  BY DEF CutOffOpensNothing, Announces, Prefix, FirstBytes, CurrentLen, Text
<1>4. UNCHANGED <<hostExch, tpm, current, keyfile, doomed>> =>
          Challenge' = Challenge /\ KeyFrame' = KeyFrame /\ SlotFrame' = SlotFrame
  BY DEF Challenge, KeyFrame, SlotFrame, SlotByte, KillsSlot
<1>5. UNCHANGED <<hostExch, tpm, toEnroller>> => VerdictOnStream' = VerdictOnStream
  BY DEF VerdictOnStream, TpmWouldSign, Refused, Signed, SigFrame
<1>6. UNCHANGED <<tpm, doomed>> => Cleared' = Cleared
  BY DEF Cleared, TpmWouldSign, KillsSlot
<1> QED
  BY <1>2, <1>3, <1>4, <1>5, <1>6 DEF DiskOpened

\* The program neither moves nor learns anything.
LEMMA StandingStill ==
    ASSUME QubesFollows,
           UNCHANGED <<hostPc, hostExch, hostPos, exitCode, tpm, passVars, luksVars,
                       dom0Vars, doomed, app>>
    PROVE  QubesFollows'
<1>1. QubesTypes'
  BY DEF QubesFollows, QubesTypes
<1>2. StreamFollows'
  BY FramesStay DEF QubesFollows, StreamFollows
<1>3. Dom0Follows' /\ Announced' /\ CryptsetupFollows'
  BY FramesStay DEF QubesFollows, Dom0Follows, Announced, CryptsetupFollows, KillsSlot
<1>4. ReportFollows'
  BY DEF QubesFollows, ReportFollows, OpensAtBoot, Derived, BootTakes, DoomedIsGone
<1> QED
  BY <1>1, <1>2, <1>3, <1>4 DEF QubesFollows

\* The program moves on without the stream, or ends with an error.
LEMMA WithoutStream ==
    ASSUME QubesFollows, hostPc \in QubesPcs \ {"exit"},
           \/ hostPc' = "exit"
           \/ hostPc \in BeforeChallenge /\ hostPc' \in BeforeChallenge
           \/ hostPc \in AfterVerdict /\ hostPc' \in AfterVerdict,
           hostPc' = "rdKeyfile" => hostPos' = 1,
           hostPc' = "askCurrent" => hostPos' = 2,
           hostExch' = hostExch \/ hostPc \in BeforeChallenge,
           UNCHANGED <<hostPos, typed, keyfile>> \/ hostPc \in AfterVerdict,
           UNCHANGED exitCode \/ HostExit("failure"),
           UNCHANGED <<current, luksVars, dom0Vars, tpm, doomed, app>>
    PROVE  QubesFollows'
<1>1. QubesTypes'
  BY DEF QubesFollows, QubesTypes
<1>2. CASE hostPc \in BeforeChallenge
  <2>1. /\ toEnroller = <<>> /\ Dom0At("rdChallenge", <<>>) /\ child = "none"
        /\ added = FALSE /\ exitCode # "success"
    BY <1>2 DEF QubesFollows, StreamFollows, Announced, CryptsetupFollows, QubesTypes,
       ReportFollows
  <2>2. StreamFollows' /\ Dom0Follows' /\ Announced' /\ CryptsetupFollows'
    BY <1>2, <2>1 DEF StreamFollows, Dom0Follows, Announced, CryptsetupFollows
  <2>3. ReportFollows'
    BY <2>1 DEF ReportFollows, HostExit
  <2> QED
    BY <1>1, <2>2, <2>3 DEF QubesFollows
<1>3. CASE hostPc \in AfterVerdict
  <2>1. /\ toEnroller = <<>> /\ Dom0At("rdLen", <<>>) /\ child = "none" /\ Cleared
        /\ added = FALSE /\ exitCode # "success"
    BY <1>3 DEF QubesFollows, StreamFollows, Announced, CryptsetupFollows, QubesTypes,
       ReportFollows
  <2>2. StreamFollows' /\ Dom0Follows' /\ Announced' /\ CryptsetupFollows'
    BY <1>3, <2>1, FramesStay
       DEF StreamFollows, Dom0Follows, Announced, CryptsetupFollows
  <2>3. ReportFollows'
    BY <2>1 DEF ReportFollows, HostExit
  <2> QED
    BY <1>1, <2>2, <2>3 DEF QubesFollows
<1>4. CASE hostPc' = "exit" /\ hostPc \notin BeforeChallenge \cup AfterVerdict
  <2>1. UNCHANGED <<hostPos, typed, keyfile, hostExch>>
    BY <1>4
  <2>2. StreamFollows'
    BY <1>4 DEF StreamFollows
  <2>3. Dom0Follows' /\ Announced' /\ CryptsetupFollows'
    BY <1>4, <2>1, FramesStay
       DEF QubesFollows, Dom0Follows, Announced, CryptsetupFollows, KillsSlot
  <2>4. ReportFollows'
    BY <2>1 DEF QubesFollows, ReportFollows, OpensAtBoot, Derived, BootTakes,
       DoomedIsGone, HostExit
  <2> QED
    BY <1>1, <2>2, <2>3, <2>4 DEF QubesFollows
<1> QED
  BY <1>2, <1>3, <1>4

\* What the app does, or loses.
LEMMA ByClientKeeps == QubesInv /\ (ByClient \/ Unplug) => QubesInv'
<1> SUFFICES ASSUME QubesInv, ByClient \/ Unplug PROVE QubesInv'
  OBVIOUS
<1>1. /\ ClientSteps \/ (HangUp /\ ClientLosesPower)
      /\ UNCHANGED hostSide /\ app' = app
  BY AppStays DEF ByClient, Unplug
<1>2. SessionInv'
  BY <1>1, ClientStepsKeep, UnplugKeeps DEF QubesInv, hostSide, programSide
<1>3. QubesFollows'
  BY <1>1, StandingStill DEF QubesInv, hostSide
<1> QED
  BY <1>1, <1>2, <1>3, FramesStay DEF QubesInv, hostSide

\* The steps of the program that leave the stream alone.
ProgramAlone ==
    \/ ChecksSlot
    \/ LoadApp
    \/ /\ HostLoadFails \/ HostReadNonce \/ HostReadEncNonce \/ HostReadTkeyPub
          \/ HostIoError
       /\ UNCHANGED besideAuth
    \/ QubesAuthStatus
    \/ /\ AwaitsReady \/ AsksNewAgain \/ SendsNewHash(FitsAByte) \/ AskNewFails
          \/ NewPassStatus("rdKeyfile") \/ HostKilled
       /\ UNCHANGED besidePass
    \/ ReadsKeyfile
    \/ EndOfStream

\* How far each of them goes.
LEMMA ProgramAloneMoves ==
    ASSUME QubesInv, ProgramAlone
    PROVE  /\ hostPc \in QubesPcs \ {"exit"}
           /\ \/ hostPc' = "exit"
              \/ hostPc \in BeforeChallenge /\ hostPc' \in BeforeChallenge
              \/ hostPc \in AfterVerdict /\ hostPc' \in AfterVerdict
           /\ hostPc' = "rdKeyfile" => hostPos' = 1
           /\ hostPc' = "askCurrent" => hostPos' = 2
           /\ hostExch' = hostExch \/ hostPc \in BeforeChallenge
           /\ UNCHANGED <<hostPos, typed, keyfile>> \/ hostPc \in AfterVerdict
           /\ UNCHANGED exitCode \/ HostExit("failure")
           /\ UNCHANGED <<current, luksVars, dom0Vars, tpm, doomed, app>>
<1>1. hostPc \in QubesPcs
  BY DEF QubesInv, QubesFollows, QubesTypes
<1>2. CASE \/ ChecksSlot \/ LoadApp \/ QubesAuthStatus \/ EndOfStream
           \/ /\ HostLoadFails \/ HostReadNonce \/ HostReadEncNonce \/ HostReadTkeyPub
                 \/ HostIoError
              /\ UNCHANGED besideAuth
  BY <1>1, <1>2 DEF ChecksSlot, LoadApp, QubesAuthStatus, EndOfStream, HostLoads,
     ClientBoot, HostLoadFails, HostReadNonce, HostReadEncNonce, HostReadTkeyPub,
     HostIoError, besideAuth, besidePass, besideStream, StreamReads, HostReads,
     IoErrorPoints, HostExit
<1>3. CASE /\ AwaitsReady \/ AsksNewAgain \/ SendsNewHash(FitsAByte) \/ AskNewFails
              \/ HostKilled
           /\ UNCHANGED besidePass
  BY <1>1, <1>3 DEF AwaitsReady, AsksNewAgain, SendsNewHash, AskNewFails, HostKilled,
     besidePass, HostExit
<1>4. CASE NewPassStatus("rdKeyfile") /\ UNCHANGED besidePass
  <2>1. hostPc = "rdPass" /\ hostPos = 1
    BY <1>4 DEF NewPassStatus, QubesInv, SessionInv, KeyfileFollows
  <2> QED
    BY <1>4, <2>1 DEF NewPassStatus, besidePass, HostExit
<1>5. CASE ReadsKeyfile
  <2>1. hostPos' = 2
    BY <1>5, KeyfileIsDerived DEF ReadsKeyfile, QubesInv
  <2> QED
    BY <1>5, <2>1 DEF ReadsKeyfile, besidePass
<1> QED
  BY <1>2, <1>3, <1>4, <1>5 DEF ProgramAlone

\* The session goes through them.
LEMMA ProgramAloneSession == QubesInv /\ ProgramAlone => SessionInv'
<1> SUFFICES ASSUME QubesInv, ProgramAlone PROVE SessionInv'
  OBVIOUS
<1>0. SessionInv /\ trust \in BOOLEAN /\ hostPc # "exit"
  BY ProgramAloneMoves DEF QubesInv, SessionInv, SessionTypes
<1>1. CASE ChecksSlot
  BY <1>0, <1>1, MovingOnKeeps, GivingUpKeeps DEF ChecksSlot, besideAuth, besidePass
<1>2. CASE LoadApp
  BY <1>0, <1>2, LoadKeeps DEF LoadApp
<1>3. CASE /\ HostLoadFails \/ HostReadNonce \/ HostReadEncNonce \/ HostReadTkeyPub
              \/ HostIoError
           /\ UNCHANGED besideAuth
  BY <1>0, <1>3, HostReadNonceKeeps, HostReadEncNonceKeeps, HostReadTkeyPubKeeps,
     HostGivesUpKeeps DEF besideAuth, besidePass
<1>4. CASE QubesAuthStatus
  BY <1>0, <1>4, AuthStatusKeeps DEF QubesAuthStatus, Readable, besideStream
<1>5. CASE (AwaitsReady \/ NewPassStatus("rdKeyfile")) /\ UNCHANGED besidePass
  BY <1>0, <1>5, AwaitsReadyKeeps, NewPassStatusKeeps DEF besidePass
<1>6. CASE SendsNewHash(FitsAByte) /\ UNCHANGED besidePass
  <2>1. FitsAByte \subseteq Nat \ (0 .. 7)
    BY DEF FitsAByte
  <2> QED
    BY <1>0, <1>6, <2>1, SendsNewHashKeeps DEF besidePass
<1>7. CASE AsksNewAgain /\ UNCHANGED besidePass
  BY <1>0, <1>7, MovingOnKeeps DEF AsksNewAgain, besidePass
<1>8. CASE (AskNewFails \/ HostKilled) /\ UNCHANGED besidePass
  BY <1>0, <1>8, GivingUpKeeps DEF AskNewFails, HostKilled, besidePass
<1>9. CASE ReadsKeyfile
  BY <1>0, <1>9, TakesKeyfileKeeps DEF ReadsKeyfile, besidePass
<1>10. CASE EndOfStream
  BY <1>0, <1>10, GivingUpKeeps DEF EndOfStream, besideStream
<1> QED
  BY <1>1, <1>2, <1>3, <1>4, <1>5, <1>6, <1>7, <1>8, <1>9, <1>10 DEF ProgramAlone

\* And so does the rest of the invariant.
LEMMA ProgramAloneKeeps == QubesInv /\ ProgramAlone => QubesInv'
  BY ProgramAloneMoves, ProgramAloneSession, WithoutStream, FramesStay DEF QubesInv

-----------------------------------------------------------------------------
(* The steps of the program on the stream. *)

\* The challenge goes to dom0.
LEMMA SendsChallengeKeeps == QubesInv /\ SendsChallenge => QubesInv'
<1> SUFFICES ASSUME QubesInv, SendsChallenge PROVE QubesInv'
  OBVIOUS
<1> USE DEF SendsChallenge, besideStream
<1>1. SessionInv'
  BY MovingOnKeeps DEF QubesInv, SessionInv, SessionTypes
<1>2. /\ toEnroller = <<>> /\ Dom0At("rdChallenge", <<>>)
      /\ child = "none" /\ added = FALSE /\ exitCode # "success"
  BY DEF QubesInv, QubesFollows, StreamFollows, Announced, CryptsetupFollows, QubesTypes,
     ReportFollows
<1>3. toDom0 = <<>> => toDom0' = <<Challenge'>>
  BY WriteFirst DEF Challenge
<1>4. QubesTypes'
  BY DEF QubesInv, QubesFollows, QubesTypes
<1>5. StreamFollows' /\ Dom0Follows' /\ Announced' /\ CryptsetupFollows' /\ ReportFollows'
  BY <1>2, <1>3 DEF StreamFollows, Dom0Follows, Announced, CryptsetupFollows,
     ReportFollows
<1> QED
  BY <1>1, <1>4, <1>5, FramesStay DEF QubesInv, QubesFollows

\* What is forwarded is what the app expects.
LEMMA ForwardsVerdictSession == QubesInv /\ ForwardsVerdict => SessionInv'
<1> SUFFICES ASSUME QubesInv, ForwardsVerdict PROVE SessionInv'
  OBVIOUS
<1> USE DEF ForwardsVerdict, FromDom0, besideStream
<1>1. hostPc = "rdVerdict" /\ VerdictOnStream
  BY DEF QubesInv, QubesFollows, StreamFollows
<1>2. SessionInv /\ trust' \in BOOLEAN /\ hostPc # "exit"
  BY <1>1 DEF QubesInv, SessionInv, SessionTypes
<1>3. CASE HostExit("failure") /\ UNCHANGED toTkey
  BY <1>2, <1>3, GivingUpKeeps
<1>4. CASE attached /\ toTkey' = toTkey \o toEnroller /\ hostPc' = "rdAuth"
           /\ UNCHANGED exitCode
  <2>1. \/ toTkey' = Append(toTkey, Refused)
        \/ /\ tpm.key \in Keys
           /\ \E wf \in BOOLEAN : toTkey' = toTkey \o <<Signed, SigFrame(wf)>>
    <3>1. toTkey \o <<Refused>> = Append(toTkey, Refused)
      BY <1>2, LinesAre, AppendFrame
    <3> QED
      BY <1>1, <1>4, <3>1 DEF VerdictOnStream, TpmWouldSign
  <2> QED
    BY <1>1, <1>2, <1>4, <2>1, VerdictKeeps
<1> QED
  BY <1>3, <1>4

\* A refusal goes no further if a keyslot is to be killed.
LEMMA ForwardsVerdictKeeps == QubesInv /\ ForwardsVerdict => QubesInv'
<1> SUFFICES ASSUME QubesInv, ForwardsVerdict PROVE QubesInv'
  OBVIOUS
<1> USE DEF ForwardsVerdict, FromDom0, besideStream
<1>1. /\ hostPc = "rdVerdict" /\ VerdictOnStream /\ Dom0At("rdLen", <<>>)
      /\ child = "none" /\ added = FALSE /\ exitCode # "success"
  BY DEF QubesInv, QubesFollows, StreamFollows, Announced, CryptsetupFollows, QubesTypes,
     ReportFollows
<1>2. hostPc' = "exit" \/ (hostPc' = "rdAuth" /\ Cleared')
  <2>1. CASE TpmWouldSign
    <3>1. Cleared'
      BY <2>1 DEF Cleared, TpmWouldSign
    <3>2. hostPc' = "exit" \/ hostPc' = "rdAuth"
      BY DEF HostExit
    <3> QED
      BY <3>1, <3>2
  <2>2. CASE toEnroller = <<Refused>>
    <3>1. Head(toEnroller).data = HostByte.TpmRefusedToSign
          /\ HostByte.TpmRefusedToSign # HostByte.TpmSigned
      BY <2>2, ReadFrame DEF Refused, Status, Frame, HostByte
    <3> QED
      BY <3>1 DEF HostExit, RefusalIsFinal, Cleared, KillsSlot
  <2> QED
    BY <1>1, <2>1, <2>2 DEF VerdictOnStream
<1>3. UNCHANGED exitCode \/ exitCode' = "failure"
  BY DEF HostExit
<1>4. QubesTypes'
  BY <1>2 DEF QubesInv, QubesFollows, QubesTypes
<1>5. StreamFollows' /\ Dom0Follows' /\ Announced' /\ CryptsetupFollows'
  BY <1>1, <1>2 DEF StreamFollows, Dom0Follows, Announced, CryptsetupFollows
<1>6. ReportFollows'
  BY <1>1, <1>3 DEF ReportFollows
<1> QED
  BY <1>4, <1>5, <1>6, ForwardsVerdictSession, FramesStay DEF QubesInv, QubesFollows

\* What is announced fits a byte, and is the length unless it is cut off.
LEMMA AnnouncedLength ==
    ASSUME NEW p \in Pass \cup {NoPass}
    PROVE  LenByte(CurrentLen(p)) \in 0 .. 255
<1>1. CurrentLen(p) \in Nat
  BY ProtocolAssumption DEF CurrentLen
<1> QED
  BY <1>1 DEF LenByte

\* The current passphrase and the keyfile go to dom0.
LEMMA SendsCurrentKeeps == QubesInv /\ SendsCurrent => QubesInv'
<1> SUFFICES ASSUME QubesInv, SendsCurrent PROVE QubesInv'
  OBVIOUS
<1> USE DEF SendsCurrent, besideStream
<1>1. SessionInv'
  BY MovingOnKeeps DEF QubesInv, SessionInv, SessionTypes
<1>2. /\ toEnroller = <<>> /\ Dom0At("rdLen", <<>>) /\ Cleared /\ hostPos = 2
      /\ child = "none" /\ added = FALSE /\ exitCode # "success"
  BY DEF QubesInv, QubesFollows, StreamFollows, Announced, CryptsetupFollows, QubesTypes,
     ReportFollows
<1>3. current' \in Pass \cup {NoPass}
  OBVIOUS
<1>4. toDom0 = <<>> =>
          OnItsWay(<<LenFrame, TextFrame, KeyFrame>>,
                   <<LenFrame, TextFrame, RestFrame, KeyFrame>>)'
  <2> SUFFICES ASSUME toDom0 = <<>>
               PROVE  toDom0' = IF Fits' THEN <<LenFrame', TextFrame', KeyFrame'>>
                                ELSE <<LenFrame', TextFrame', RestFrame', KeyFrame'>>
    OBVIOUS
  <2>1. PICK p \in Pass \cup {NoPass} :
           /\ current' = p
           /\ toDom0' = toDom0 \o <<Frame("len", LenByte(CurrentLen(p))),
                                    Frame("text", FirstBytes(p, LenByte(CurrentLen(p))))>>
                 \o (IF LenByte(CurrentLen(p)) = CurrentLen(p) THEN <<>>
                     ELSE <<Frame("text", <<"rest", Text(p), LenByte(CurrentLen(p))>>)>>)
                 \o <<Frame("keyfile", keyfile)>>
    OBVIOUS
  <2>2. /\ LenFrame' = Frame("len", LenByte(CurrentLen(p)))
        /\ TextFrame' = Frame("text", FirstBytes(p, LenByte(CurrentLen(p))))
        /\ RestFrame' = Frame("text", <<"rest", Text(p), LenByte(CurrentLen(p))>>)
        /\ KeyFrame' = Frame("keyfile", keyfile)
        /\ Fits' <=> LenByte(CurrentLen(p)) = CurrentLen(p)
    BY <2>1 DEF LenFrame, TextFrame, RestFrame, KeyFrame, Fits, Announces, Prefix,
       FirstBytes, CurrentLen, Text, Frame
  <2>3. CASE Fits'
    <3>1. toDom0' = ((<<>> \o <<LenFrame', TextFrame'>>) \o <<>>) \o <<KeyFrame'>>
      BY <2>1, <2>2, <2>3
    <3> QED
      BY <2>3, <3>1, StreamWrite
  <2>4. CASE ~Fits'
    <3>1. toDom0' = ((<<>> \o <<LenFrame', TextFrame'>>) \o <<RestFrame'>>)
                       \o <<KeyFrame'>>
      BY <2>1, <2>2, <2>4
    <3> QED
      BY <2>4, <3>1, LongerStreamWrite
  <2> QED
    BY <2>3, <2>4
<1>5. QubesTypes'
  BY <1>3 DEF QubesInv, QubesFollows, QubesTypes
<1>6. Cleared' /\ hostPos' = 2
  BY <1>2, FramesStay
<1>7. StreamFollows' /\ Dom0Follows' /\ Announced' /\ CryptsetupFollows' /\ ReportFollows'
  BY <1>2, <1>4, <1>6, StreamRead
     DEF StreamFollows, Dom0Follows, Announced, CryptsetupFollows, ReportFollows
<1> QED
  BY <1>1, <1>5, <1>7, FramesStay DEF QubesInv, QubesFollows

\* The byte that stops dom0, or names a keyslot.
LEMMA SendsSlotKeeps == QubesInv /\ SendsSlot => QubesInv'
<1> SUFFICES ASSUME QubesInv, SendsSlot PROVE QubesInv'
  OBVIOUS
<1> USE DEF SendsSlot, FromDom0, besideStream
<1>1. SessionInv'
  BY MovingOnKeeps DEF QubesInv, SessionInv, SessionTypes
<1>2. Dom0At("rdSlot", <<>>)
  BY DEF QubesInv, QubesFollows, StreamFollows
<1>3. toDom0 = <<>> => toDom0' = <<SlotFrame>>
  BY WriteFirst DEF SlotFrame
<1>4. SlotFrame' = SlotFrame /\ Cleared' = Cleared
  BY FramesStay
<1>5. QubesTypes'
  BY DEF QubesInv, QubesFollows, QubesTypes
<1>6. StreamFollows' /\ Dom0Follows' /\ Announced'
  BY <1>2, <1>3, <1>4
     DEF QubesInv, QubesFollows, StreamFollows, Dom0Follows, Announced
<1>7. CryptsetupFollows'
  BY FramesStay DEF QubesInv, QubesFollows, CryptsetupFollows, KillsSlot
<1>8. ReportFollows'
  BY DEF QubesInv, QubesFollows, ReportFollows, OpensAtBoot, Derived, BootTakes,
     DoomedIsGone
<1> QED
  BY <1>1, <1>5, <1>6, <1>7, <1>8, FramesStay DEF QubesInv, QubesFollows

\* dom0's exit code decides what the app and the user hear.
LEMMA ReportsKeeps == QubesInv /\ Reports => QubesInv'
<1> SUFFICES ASSUME QubesInv, Reports PROVE QubesInv'
  OBVIOUS
<1> USE DEF Reports, besideStream, HostExit
<1>1. hostPc = "waitDom0" /\ hostPos = 2
  BY DEF QubesInv, QubesFollows, Announced
<1>2. SessionInv'
  <2>1. CASE attached /\ toTkey' = Append(toTkey, DiskOpened) /\ HostExit("success")
    BY <1>1, <2>1, ReportKeeps DEF QubesInv
  <2>2. CASE UNCHANGED toTkey /\ HostExit("failure")
    BY <1>1, <2>2, GivingUpKeeps DEF QubesInv
  <2> QED
    BY <2>1, <2>2 DEF DiskOpened
<1>3. QubesTypes'
  BY DEF QubesInv, QubesFollows, QubesTypes
<1>4. StreamFollows'
  BY DEF StreamFollows
<1>5. Dom0Follows' /\ Announced' /\ CryptsetupFollows'
  BY <1>1, FramesStay
     DEF QubesInv, QubesFollows, Dom0Follows, Announced, CryptsetupFollows, KillsSlot
<1>6. ReportFollows'
  BY DEF QubesInv, QubesFollows, ReportFollows, OpensAtBoot, Derived, BootTakes,
     DoomedIsGone
<1> QED
  BY <1>2, <1>3, <1>4, <1>5, <1>6, FramesStay DEF QubesInv, QubesFollows

-----------------------------------------------------------------------------
(* The steps of dom0 and of cryptsetup. *)

\* The session does not depend on what they do.
LEMMA SessionBesideDom0 == QubesInv /\ UNCHANGED besideDom0 => SessionInv'
<1> SUFFICES ASSUME QubesInv, UNCHANGED besideDom0 PROVE SessionInv'
  OBVIOUS
<1>1. trust' \in BOOLEAN
  BY DEF QubesInv, SessionInv, SessionTypes, besideDom0
<1> QED
  BY <1>1, MovingOnKeeps DEF QubesInv, besideDom0

\* The challenge that dom0 signs is the program's.
LEMMA Dom0VerifiesKeeps ==
    QubesInv /\ Dom0Verifies /\ UNCHANGED doomed => QubesFollows'
<1> SUFFICES ASSUME QubesInv, Dom0Verifies, UNCHANGED doomed PROVE QubesFollows'
  OBVIOUS
<1> USE DEF Dom0Verifies, Dom0Receives, besideDom0
<1>1. /\ dom0Pc = "rdChallenge" /\ toDom0 = <<Challenge>> /\ toDom0' = <<>>
      /\ Head(toDom0).data = HostChallenge(hostExch)
  <2>1. dom0Pc = "rdChallenge" /\ toDom0 # <<>> /\ toDom0' = Tail(toDom0)
    OBVIOUS
  <2>2. toDom0 = <<Challenge>>
    BY <2>1 DEF QubesInv, QubesFollows, Dom0Follows
  <2>3. Head(toDom0) = Challenge /\ toDom0' = <<>>
    BY <2>1, <2>2, StreamRead
  <2> QED
    BY <2>1, <2>2, <2>3 DEF Challenge, Frame
<1>2. hostPc = "exit" \/ (hostPc = "rdVerdict" /\ toEnroller = <<>>)
  BY <1>1, StreamRead DEF QubesInv, QubesFollows, QubesTypes, StreamFollows
<1>3. hostPc = "rdVerdict" => VerdictOnStream'
  <2> SUFFICES ASSUME hostPc = "rdVerdict" PROVE VerdictOnStream'
    OBVIOUS
  <2>1. CASE toEnroller' = Append(toEnroller, Status(HostByte.TpmRefusedToSign))
    <3>1. toEnroller' = <<Refused'>>
      BY <1>2, <2>1, WriteFirst DEF Refused
    <3> QED
      BY <3>1 DEF VerdictOnStream
  <2>2. ASSUME TpmWouldSign, NEW wf \in BOOLEAN,
               toEnroller' = toEnroller \o
                   <<Status(HostByte.TpmSigned),
                     Frame("sig", [wellFormed |-> wf, signer |-> tpm.key,
                                   over |-> Head(toDom0).data])>>
        PROVE  VerdictOnStream'
    <3>1. toEnroller' = <<Signed', SigFrame(wf)'>>
      BY <1>1, <1>2, <2>2, WriteFirst DEF Signed, SigFrame
    <3>2. TpmWouldSign'
      BY <2>2 DEF TpmWouldSign
    <3> QED
      BY <3>1, <3>2 DEF VerdictOnStream
  <2> QED
    BY <2>1, <2>2
<1>4. dom0Pc' = "rdLen" /\ child = "none"
  BY <1>1 DEF QubesInv, QubesFollows, CryptsetupFollows
<1>5. QubesTypes'
  BY DEF QubesInv, QubesFollows, QubesTypes
<1>6. StreamFollows' /\ Dom0Follows'
  BY <1>1, <1>2, <1>3, <1>4 DEF StreamFollows, Dom0Follows
<1>7. Announced' /\ CryptsetupFollows'
  BY <1>1, <1>2, <1>4 DEF QubesInv, QubesFollows, Announced, CryptsetupFollows
<1>8. ReportFollows'
  BY <1>1, <1>4 DEF QubesInv, QubesFollows, ReportFollows, CryptsetupFollows
<1> QED
  BY <1>5, <1>6, <1>7, <1>8 DEF QubesFollows

\* The length of the current passphrase, as the program announced it.
LEMMA Dom0ReadsLenKeeps ==
    QubesInv /\ Dom0ReadsLen /\ UNCHANGED doomed => QubesFollows'
<1> SUFFICES ASSUME QubesInv, Dom0ReadsLen, UNCHANGED doomed PROVE QubesFollows'
  OBVIOUS
<1> USE DEF Dom0ReadsLen, Dom0Receives, besideDom0
<1>1. dom0Pc = "rdLen" /\ toDom0 # <<>> /\ toDom0' = Tail(toDom0) /\ dom0Pc' = "rdText"
  OBVIOUS
<1>2. OnItsWay(<<LenFrame, TextFrame, KeyFrame>>,
               <<LenFrame, TextFrame, RestFrame, KeyFrame>>)
  BY <1>1 DEF QubesInv, QubesFollows, Dom0Follows
<1>3. /\ Head(toDom0) = LenFrame
      /\ OnItsWay(<<TextFrame, KeyFrame>>, <<TextFrame, RestFrame, KeyFrame>>)'
  BY <1>1, <1>2, StreamRead, FramesStay
<1>4. /\ Cleared /\ hostPos = 2 /\ hostPc \in AfterCurrent \cup {"exit"} /\ child = "none"
      /\ Cleared' = Cleared
  BY <1>1, FramesStay DEF QubesInv, QubesFollows, Announced, CryptsetupFollows
<1>5. QubesTypes'
  <2>1. /\ dom0Key'.length = LenByte(CurrentLen(current))
        /\ DOMAIN dom0Key' = {"length", "text"}
    BY <1>3 DEF LenFrame, Frame, QubesInv, QubesFollows, QubesTypes
  <2>2. LenByte(CurrentLen(current)) \in 0 .. 255
    BY AnnouncedLength DEF QubesInv, QubesFollows, QubesTypes
  <2> QED
    BY <2>1, <2>2 DEF QubesInv, QubesFollows, QubesTypes
<1>6. StreamFollows' /\ Dom0Follows' /\ Announced' /\ CryptsetupFollows'
  <2>1. StreamFollows'
    BY <1>1, <1>3, <1>4, StreamRead DEF QubesInv, QubesFollows, StreamFollows
  <2>2. Dom0Follows'
    BY <1>1, <1>3, <1>4, StreamRead
       DEF QubesInv, QubesFollows, StreamFollows, Dom0Follows
  <2>3. Announced'
    BY <1>1, <1>3, <1>4, StreamRead
       DEF QubesInv, QubesFollows, StreamFollows, Announced
  <2>4. CryptsetupFollows'
    BY <1>1, <1>3, <1>4, StreamRead
       DEF QubesInv, QubesFollows, StreamFollows, CryptsetupFollows
  <2> QED
    BY <2>1, <2>2, <2>3, <2>4
<1>7. ReportFollows'
  BY <1>1, <1>4 DEF QubesInv, QubesFollows, ReportFollows, CryptsetupFollows
<1> QED
  BY <1>5, <1>6, <1>7 DEF QubesFollows

\* The current passphrase.
LEMMA Dom0ReadsTextKeeps ==
    QubesInv /\ Dom0ReadsText /\ UNCHANGED doomed => QubesFollows'
<1> SUFFICES ASSUME QubesInv, Dom0ReadsText, UNCHANGED doomed PROVE QubesFollows'
  OBVIOUS
<1> USE DEF Dom0ReadsText, Dom0Receives, besideDom0
<1>1. dom0Pc = "rdText" /\ dom0Pc' = "rdKeyfile" /\ child' = "reading"
      /\ toDom0' = Tail(toDom0)
  OBVIOUS
<1>2. OnItsWay(<<TextFrame, KeyFrame>>, <<TextFrame, RestFrame, KeyFrame>>)
  BY <1>1 DEF QubesInv, QubesFollows, Dom0Follows
<1>3. OnItsWay(<<KeyFrame>>, <<RestFrame, KeyFrame>>)' /\ dom0Key'.text = Prefix(current)'
  <2>1. Head(toDom0) = TextFrame /\ OnItsWay(<<KeyFrame>>, <<RestFrame, KeyFrame>>)'
    BY <1>1, <1>2, StreamRead, FramesStay
  <2>2. dom0Key'.text = Prefix(current)
    BY <2>1 DEF TextFrame, Frame, QubesInv, QubesFollows, QubesTypes
  <2> QED
    BY <2>1, <2>2, FramesStay
<1>4. /\ Cleared /\ hostPos = 2 /\ hostPc \in AfterCurrent \cup {"exit"} /\ child = "none"
      /\ Cleared' = Cleared
  BY <1>1, FramesStay DEF QubesInv, QubesFollows, Announced, CryptsetupFollows
<1>5. QubesTypes'
  BY DEF QubesInv, QubesFollows, QubesTypes
<1>6. StreamFollows' /\ Dom0Follows' /\ Announced' /\ CryptsetupFollows'
  BY <1>1, <1>3, <1>4
     DEF QubesInv, QubesFollows, StreamFollows, Dom0Follows, Announced, CryptsetupFollows
<1>7. ReportFollows'
  BY <1>1, <1>4 DEF QubesInv, QubesFollows, ReportFollows, CryptsetupFollows
<1> QED
  BY <1>5, <1>6, <1>7 DEF QubesFollows

\* The keyfile.
LEMMA Dom0ReadsKeyfileKeeps ==
    QubesInv /\ Dom0ReadsKeyfile /\ UNCHANGED doomed => QubesFollows'
<1> SUFFICES ASSUME QubesInv, Dom0ReadsKeyfile, UNCHANGED doomed PROVE QubesFollows'
  OBVIOUS
<1> USE DEF Dom0ReadsKeyfile, Dom0Receives, besideDom0
<1>1. dom0Pc = "rdKeyfile" /\ dom0Pc' = "waitAdd" /\ child' \in {"starved", "adding"}
      /\ toDom0' = Tail(toDom0)
  BY DEF GetsBothKeys
<1>2. OnItsWay(<<KeyFrame>>, <<RestFrame, KeyFrame>>)
  BY <1>1 DEF QubesInv, QubesFollows, Dom0Follows
<1>3. OnItsWay(<<>>, <<KeyFrame>>)' /\ (Fits' => dom0Keyfile' = keyfile')
      /\ dom0Key'.text = Prefix(current)'
  <2>1. OnItsWay(<<>>, <<KeyFrame>>)' /\ dom0Key'.text = Prefix(current)'
    BY <1>1, <1>2, StreamRead, FramesStay DEF QubesInv, QubesFollows, CryptsetupFollows
  <2>2. Fits' => dom0Keyfile' = keyfile'
    <3>1. Fits' = Fits
      BY FramesStay
    <3>2. Fits => Head(toDom0) = KeyFrame
      BY <1>2, StreamRead
    <3> QED
      BY <3>1, <3>2 DEF KeyFrame, Frame
  <2> QED
    BY <2>1, <2>2
<1>4. /\ Cleared /\ hostPos = 2 /\ hostPc \in AfterCurrent \cup {"exit"}
      /\ child = "reading" /\ Cleared' = Cleared
  BY <1>1, FramesStay DEF QubesInv, QubesFollows, Announced, CryptsetupFollows
<1>5. QubesTypes'
  BY <1>1 DEF QubesInv, QubesFollows, QubesTypes
<1>6. StreamFollows' /\ Dom0Follows' /\ Announced' /\ CryptsetupFollows'
  BY <1>1, <1>3, <1>4
     DEF QubesInv, QubesFollows, StreamFollows, Dom0Follows, Announced, CryptsetupFollows
<1>7. ReportFollows'
  BY <1>1, <1>4 DEF QubesInv, QubesFollows, ReportFollows, CryptsetupFollows
<1> QED
  BY <1>5, <1>6, <1>7 DEF QubesFollows

\* dom0 says that the keyslot has been filled.
LEMMA Dom0AnnouncesKeeps ==
    QubesInv /\ Dom0Announces /\ UNCHANGED doomed => QubesFollows'
<1> SUFFICES ASSUME QubesInv, Dom0Announces, UNCHANGED doomed PROVE QubesFollows'
  OBVIOUS
<1> USE DEF Dom0Announces, besideDom0
<1>1. dom0Pc = "waitAdd" /\ dom0Pc' = "rdSlot" /\ child = "ok" /\ child' = "ok"
      /\ toDom0' = <<>>
  BY DEF QubesInv, QubesFollows, Dom0Follows, CryptsetupFollows
<1>2. /\ Cleared /\ hostPos = 2 /\ hostPc \in {"rdAdded", "exit"} /\ Cleared' = Cleared
  BY <1>1, FramesStay DEF QubesInv, QubesFollows, Announced, StreamFollows
<1>3. hostPc = "rdAdded" => toEnroller' = <<DiskOpened'>>
  <2>1. hostPc = "rdAdded" => toEnroller = <<>>
    BY <1>1 DEF QubesInv, QubesFollows, StreamFollows
  <2>2. <<>> \o Announcement = <<DiskOpened'>>
    BY DEF Announcement, DiskOpened
  <2> QED
    BY <2>1, <2>2
<1>4. QubesTypes'
  BY DEF QubesInv, QubesFollows, QubesTypes
<1>5. StreamFollows' /\ Dom0Follows' /\ Announced' /\ CryptsetupFollows'
  BY <1>1, <1>2, <1>3, FramesStay
     DEF QubesInv, QubesFollows, StreamFollows, Dom0Follows, Announced, CryptsetupFollows
<1>6. ReportFollows'
  BY <1>1 DEF QubesInv, QubesFollows, ReportFollows, OpensAtBoot, Derived, BootTakes
<1> QED
  BY <1>4, <1>5, <1>6 DEF QubesFollows

\* The last byte stops dom0 unless a keyslot is to be killed.
LEMMA Dom0ReadsSlotKeeps ==
    QubesInv /\ Dom0ReadsSlot /\ UNCHANGED doomed => QubesFollows'
<1> SUFFICES ASSUME QubesInv, Dom0ReadsSlot, UNCHANGED doomed PROVE QubesFollows'
  OBVIOUS
<1> USE DEF Dom0ReadsSlot, Dom0Receives, besideDom0
<1>1. dom0Pc = "rdSlot" /\ child = "ok" /\ added = TRUE /\ dom0Keyfile = keyfile
      /\ Fits /\ toDom0 # <<>>
  BY DEF QubesInv, QubesFollows, CryptsetupFollows, QubesTypes
<1>2. toDom0 = <<SlotFrame>>
  BY <1>1 DEF QubesInv, QubesFollows, Dom0Follows
<1>3. /\ Head(toDom0).data = IF KillsSlot THEN doomed ELSE NothingToKill
      /\ dom0Slot' = Head(toDom0).data
  BY <1>2, StreamRead DEF SlotFrame, SlotByte, Frame
<1>4. /\ Cleared /\ hostPos = 2 /\ hostPc \in {"waitDom0", "exit"} /\ Cleared' = Cleared
  BY <1>1, FramesStay DEF QubesInv, QubesFollows, Announced, StreamFollows
<1>5. \/ dom0Pc' = "success" /\ child' = "ok" /\ DoomedIsGone'
      \/ dom0Pc' = "waitKill" /\ child' = "killing" /\ KillsSlot /\ dom0Slot' = doomed
  <2>1. CASE ~KillAsked(Head(toDom0).data)
    <3>1. doomed = NoSlot \/ doomed = 145
      BY <1>3, <2>1 DEF KillAsked, NothingToKill, KillsSlot
    <3>2. NoSlot \notin Slots
      <4>1. Slots \subseteq 0 .. 31 /\ NoSlot \notin Nat
        BY LuksAssumption, QubesAssumption
      <4>2. 0 .. 31 \subseteq Nat
        OBVIOUS
      <4> QED
        BY ONLY <4>1, <4>2
    <3>3. 145 \notin Slots
      BY LuksAssumption
    <3>4. doomed \notin Slots
      BY <3>1, <3>2, <3>3
    <3> QED
      BY <1>1, <2>1, <3>4 DEF DoomedIsGone
  <2>2. CASE KillAsked(Head(toDom0).data)
    BY <1>3, <2>2 DEF KillAsked, NothingToKill
  <2> QED
    BY <2>1, <2>2
<1>6. QubesTypes'
  <2>1. dom0Slot' \in SlotArgs \cup {0, NothingToKill}
    BY <1>3 DEF QubesInv, QubesFollows, QubesTypes, KillsSlot
  <2> QED
    BY <1>5, <2>1 DEF QubesInv, QubesFollows, QubesTypes
<1>7. StreamFollows' /\ Dom0Follows' /\ Announced'
  BY <1>4, <1>5 DEF StreamFollows, Dom0Follows, Announced
<1>8. CryptsetupFollows'
  BY <1>1, <1>5, FramesStay DEF CryptsetupFollows, KillsSlot
<1>9. ReportFollows'
  BY <1>1, <1>5 DEF QubesInv, QubesFollows, ReportFollows, OpensAtBoot, Derived,
     BootTakes
<1> QED
  BY <1>6, <1>7, <1>8, <1>9 DEF QubesFollows

\* The keyslot is gone: dom0 is done.
LEMMA Dom0HasKilledKeeps ==
    QubesInv /\ Dom0HasKilled /\ UNCHANGED doomed => QubesFollows'
<1> SUFFICES ASSUME QubesInv, Dom0HasKilled, UNCHANGED doomed PROVE QubesFollows'
  OBVIOUS
<1> USE DEF Dom0HasKilled, KillWorked, besideDom0
<1>1. QubesTypes'
  BY DEF QubesInv, QubesFollows, QubesTypes
<1>2. /\ Cleared /\ hostPos = 2 /\ hostPc \in {"waitDom0", "exit"} /\ Cleared' = Cleared
  BY FramesStay DEF QubesInv, QubesFollows, Announced, StreamFollows
<1>3. StreamFollows' /\ Dom0Follows' /\ Announced' /\ CryptsetupFollows'
  BY <1>2, FramesStay
     DEF QubesInv, QubesFollows, StreamFollows, Dom0Follows, Announced, CryptsetupFollows
<1>4. ReportFollows'
  BY DEF QubesInv, QubesFollows, ReportFollows, OpensAtBoot, Derived, BootTakes,
     DoomedIsGone
<1> QED
  BY <1>1, <1>3, <1>4 DEF QubesFollows

\* dom0 dies, of whatever: what it has written stays on the stream, and what
\* cryptsetup does goes on.
LEMMA Dom0FailsKeeps ==
    QubesInv /\ (Dom0CryptsetupErr \/ Dom0EndOfFile \/ Dom0Dies) /\ UNCHANGED doomed
        => QubesFollows'
<1> SUFFICES ASSUME QubesInv, Dom0CryptsetupErr \/ Dom0EndOfFile \/ Dom0Dies,
                    UNCHANGED doomed
             PROVE  QubesFollows'
  OBVIOUS
<1>1. dom0Pc \notin {"success", "failure"} /\ dom0Pc' = "failure"
      /\ UNCHANGED <<besideDom0, toDom0, toEnroller, dom0Kept, luksVars>>
  BY DEF Dom0CryptsetupErr, Dom0EndOfFile, Dom0Dies, Dom0Ended
<1> USE DEF besideDom0
<1>2. QubesTypes'
  BY <1>1 DEF QubesInv, QubesFollows, QubesTypes
<1>3. StreamFollows'
  BY <1>1, FramesStay DEF QubesInv, QubesFollows, StreamFollows
<1>4. Dom0Follows' /\ Announced' /\ CryptsetupFollows'
  BY <1>1, FramesStay
     DEF QubesInv, QubesFollows, Dom0Follows, Announced, CryptsetupFollows, KillsSlot
<1>5. ReportFollows'
  BY <1>1 DEF QubesInv, QubesFollows, ReportFollows, OpensAtBoot, Derived, BootTakes
<1> QED
  BY <1>2, <1>3, <1>4, <1>5 DEF QubesFollows

\* All of dom0's steps.
LEMMA ByDom0Keeps ==
    QubesInv /\ (ByDom0 \/ Dom0Dies) /\ UNCHANGED doomed => QubesInv'
<1> SUFFICES ASSUME QubesInv, ByDom0 \/ Dom0Dies, UNCHANGED doomed PROVE QubesInv'
  OBVIOUS
<1>1. UNCHANGED besideDom0 /\ UNCHANGED slots
  BY DEF ByDom0, Dom0Verifies, Dom0ReadsLen, Dom0ReadsText, Dom0ReadsKeyfile,
     Dom0Announces, Dom0ReadsSlot, Dom0HasKilled, Dom0CryptsetupErr, Dom0EndOfFile,
     Dom0Dies, Dom0Receives
<1>2. QubesFollows'
  BY Dom0VerifiesKeeps, Dom0ReadsLenKeeps, Dom0ReadsTextKeeps, Dom0ReadsKeyfileKeeps,
     Dom0AnnouncesKeeps, Dom0ReadsSlotKeeps, Dom0HasKilledKeeps, Dom0FailsKeeps
     DEF ByDom0
<1> QED
  BY <1>1, <1>2, SessionBesideDom0, FramesStay DEF QubesInv

\* cryptsetup is at work for a program that has the keyfile, and has reported nothing.
LEMMA AtWork ==
    ASSUME QubesInv, child \in {"adding", "killing"}
    PROVE  /\ keyfile = Derived /\ typed # NoPass /\ BootTakes(typed)
           /\ Cleared /\ hostPos = 2 /\ hostPc \in AfterCurrent \cup {"exit"}
           /\ exitCode # "success"
           /\ child = "adding" => ~added /\ dom0Pc \in {"waitAdd", "failure"}
           /\ child = "killing" => /\ KillsSlot /\ added /\ Fits /\ dom0Keyfile = Derived
                                  /\ dom0Pc \in {"waitKill", "failure"}
                                  /\ dom0Slot = doomed
<1>1. hostPos = 2 /\ Cleared /\ hostPc \in AfterCurrent \cup {"exit"}
  BY DEF QubesInv, QubesFollows, CryptsetupFollows, Announced
<1>2. keyfile = Derived /\ typed # NoPass /\ BootTakes(typed)
  BY <1>1, ProtocolAssumption DEF QubesInv, SessionInv, KeyfileFollows
<1>3. exitCode # "success"
  BY DEF QubesInv, QubesFollows, ReportFollows, CryptsetupFollows
<1>4. child = "adding" => ~added /\ dom0Pc \in {"waitAdd", "failure"}
  BY DEF QubesInv, QubesFollows, QubesTypes, CryptsetupFollows
<1>5. child = "killing" => /\ KillsSlot /\ added /\ Fits /\ dom0Keyfile = keyfile
                           /\ dom0Pc \in {"waitKill", "failure"}
                           /\ dom0Slot = doomed
  BY DEF QubesInv, QubesFollows, QubesTypes, CryptsetupFollows
<1> QED
  BY <1>1, <1>2, <1>3, <1>4, <1>5

\* A keyslot is filled only if the current passphrase has arrived whole, and then
\* with the keyfile that the boot will derive: cut off it opens nothing.
LEMMA AddsDerived ==
    ASSUME QubesInv, CryptsetupAdds(dom0Key.text, dom0Keyfile)
    PROVE  Fits /\ dom0Keyfile = Derived
<1>1. child = "adding" /\ \E t \in Slots : slots[t] = dom0Key.text
  BY DEF CryptsetupAdds, OpensBesides
<1>2. dom0Key.text = Prefix(current) /\ current \in Pass \cup {NoPass}
  BY <1>1 DEF QubesInv, QubesFollows, QubesTypes, CryptsetupFollows
<1>3. current = NoPass => Fits
  BY DEF Fits, Announces, CurrentLen, LenByte
<1>4. Fits
  BY <1>1, <1>2, <1>3 DEF QubesInv, CutOffOpensNothing, Fits
<1>5. dom0Keyfile = keyfile
  BY <1>1, <1>4 DEF QubesInv, QubesFollows, CryptsetupFollows
<1> QED
  BY <1>1, <1>4, <1>5, AtWork

\* cryptsetup fills a keyslot and empties at most the one that is to go, which is
\* not the last that the new keyfile opens.
LEMMA ByCryptsetupKeeps == QubesInv /\ ByCryptsetup => QubesInv'
<1> SUFFICES ASSUME QubesInv, ByCryptsetup PROVE QubesInv'
  OBVIOUS
<1> USE DEF ByCryptsetup, besideDom0
<1>1. SessionInv'
  BY SessionBesideDom0
<1>2. /\ child \in {"adding", "killing"} /\ child' \in {"ok", "failed", "killed"}
      /\ DOMAIN slots' = Slots /\ added' \in BOOLEAN
  BY DEF CryptsetupAdds, CryptsetupKillsSlot, CryptsetupFails, QubesInv, QubesFollows,
     QubesTypes
<1>3. Derived' = Derived /\ BootTakes(typed)' = BootTakes(typed)
  BY DEF Derived, BootTakes
<1>4. QubesTypes'
  BY <1>2 DEF QubesInv, QubesFollows, QubesTypes
<1>5. StreamFollows' /\ Dom0Follows' /\ Announced'
  <2>1. Cleared' = Cleared /\ Cleared /\ hostPos = 2
        /\ hostPc \in AfterCurrent \cup {"exit"}
    BY <1>2, AtWork, FramesStay
  <2> QED
    BY <2>1, FramesStay
       DEF QubesInv, QubesFollows, StreamFollows, Dom0Follows, Announced
<1>6. added' = TRUE \/ child' # "ok"
  BY <1>2, AtWork DEF CryptsetupAdds, CryptsetupKillsSlot, CryptsetupFails,
     QubesInv, QubesFollows, QubesTypes
<1>7. CryptsetupFollows'
  <2>1. added' => Fits /\ dom0Keyfile = keyfile
    <3>1. added /\ child # "adding" => Fits /\ dom0Keyfile = keyfile
      BY DEF QubesInv, QubesFollows, CryptsetupFollows
    <3> QED
      BY <1>2, <3>1, AddsDerived, AtWork
         DEF CryptsetupAdds, CryptsetupKillsSlot, CryptsetupFails
  <2>2. dom0Pc = "waitAdd" => dom0Key.text = Prefix(current)
                              /\ (Fits => dom0Keyfile = keyfile)
    BY DEF QubesInv, QubesFollows, CryptsetupFollows
  <2> QED
    BY <1>2, <1>6, <2>1, <2>2, AtWork, FramesStay
       DEF QubesInv, QubesFollows, CryptsetupFollows
<1>8. added' => OpensAtBoot'
  <2>1. CASE CryptsetupAdds(dom0Key.text, dom0Keyfile)
    <3>1. PICK s \in Slots : slots' = [slots EXCEPT ![s] = dom0Keyfile]
      BY <2>1 DEF CryptsetupAdds
    <3>2. slots'[s] = Derived
      BY <2>1, <3>1, AddsDerived DEF QubesInv, QubesFollows, QubesTypes
    <3> QED
      BY <1>2, <1>3, <3>2, AtWork DEF OpensAtBoot
  <2>2. CASE CryptsetupKillsSlot(dom0Keyfile, dom0Slot)
    <3>1. PICK t \in Slots \ {dom0Slot} : slots[t] = Derived
      BY <2>2, AtWork DEF CryptsetupKillsSlot, OpensBesides
    <3>2. slots'[t] = Derived
      BY <2>2, <3>1 DEF CryptsetupKillsSlot, QubesInv, QubesFollows, QubesTypes
    <3> QED
      BY <1>2, <1>3, <3>2, AtWork DEF OpensAtBoot
  <2>3. CASE CryptsetupFails
    BY <1>3, <2>3 DEF CryptsetupFails, QubesInv, QubesFollows, ReportFollows, OpensAtBoot
  <2> QED
    BY <2>1, <2>2, <2>3
<1>9. dom0Pc = "waitKill" /\ child' = "ok" => DoomedIsGone'
  <2> SUFFICES ASSUME dom0Pc = "waitKill", child' = "ok" PROVE DoomedIsGone'
    OBVIOUS
  <2>1. CryptsetupKillsSlot(dom0Keyfile, dom0Slot) /\ dom0Slot = doomed
    BY <1>2, AtWork DEF CryptsetupAdds, CryptsetupKillsSlot, CryptsetupFails
  <2>2. slots'[doomed] = Empty
    BY <2>1 DEF CryptsetupKillsSlot, QubesInv, QubesFollows, QubesTypes
  <2> QED
    BY <2>2 DEF DoomedIsGone
<1>10. ReportFollows'
  BY <1>2, <1>8, <1>9, AtWork DEF ReportFollows
<1>11. CutOffOpensNothing'
  <2> SUFFICES ASSUME NEW p \in Pass, ~Announces(p), NEW s \in Slots
               PROVE  slots'[s] # Prefix(p)
    BY DEF CutOffOpensNothing, Announces, Prefix, FirstBytes, CurrentLen, LenByte, Text
  <2>1. slots[s] # Prefix(p) /\ Empty # Prefix(p)
    BY CutOffAssumption DEF QubesInv, CutOffOpensNothing, Announces, Prefix
  <2>2. Derived # Prefix(p)
    BY DEF Announces, Prefix, FirstBytes, Derived, Garbled, Blake2s
  <2>3. \/ slots'[s] = slots[s]
        \/ slots'[s] = Empty
        \/ slots'[s] = dom0Keyfile /\ CryptsetupAdds(dom0Key.text, dom0Keyfile)
    BY DEF CryptsetupAdds, CryptsetupKillsSlot, CryptsetupFails, QubesInv, QubesFollows,
       QubesTypes
  <2> QED
    BY <2>1, <2>2, <2>3, AddsDerived
<1> QED
  BY <1>1, <1>4, <1>5, <1>7, <1>10, <1>11 DEF QubesInv, QubesFollows

-----------------------------------------------------------------------------
(* The invariant holds. *)

\* The steps of the program, sorted.
LEMMA ByHostOrKilled ==
    ByHost \/ Killed =>
        \/ ProgramAlone
        \/ SendsChallenge \/ ForwardsVerdict \/ SendsCurrent \/ SendsSlot \/ Reports
        \/ Dom0Dies /\ UNCHANGED doomed
  BY DEF ByHost, Killed, ProgramAlone

\* The invariant is inductive.
LEMMA InvIsInductive == QubesInv /\ [Next]_vars => QubesInv'
<1> SUFFICES ASSUME QubesInv, [Next]_vars PROVE QubesInv'
  OBVIOUS
<1>1. CASE UNCHANGED vars
  <2>1. UNCHANGED besideDom0 /\ UNCHANGED <<luksVars, dom0Vars, doomed>>
    BY <1>1 DEF vars, enrollVars, besideDom0
  <2>2. QubesFollows'
    BY <2>1, StandingStill DEF besideDom0, QubesInv
  <2> QED
    BY <2>1, <2>2, SessionBesideDom0, FramesStay DEF QubesInv
<1>2. CASE Next
  BY <1>2, ByClientKeeps, ByHostOrKilled, ProgramAloneKeeps, SendsChallengeKeeps,
     ForwardsVerdictKeeps, SendsCurrentKeeps, SendsSlotKeeps, ReportsKeeps, ByDom0Keeps,
     ByCryptsetupKeeps DEF Next
<1> QED
  BY <1>1, <1>2

\* It holds throughout every enrollment.
THEOREM QubesInvHolds == Spec => []QubesInv
<1>1. QubesInv /\ [Next]_vars => QubesInv'
  BY InvIsInductive
<1> QED
  BY <1>1, InitHolds, PTL DEF Spec

-----------------------------------------------------------------------------
(* What follows from the invariant. *)

\* Every variable of the three programs has its type, and the app begins at most
\* two of its three attempts (client/src/main.rs:163).
THEOREM QubesTypeCorrect == Spec => []QubesTypeOK
<1>1. QubesInv => QubesTypeOK
  <2> SUFFICES ASSUME QubesInv PROVE QubesTypeOK
    OBVIOUS
  <2>1. LineOK(toHost) /\ LineOK(toTkey)
    BY LinesAre DEF QubesInv, IsLine
  <2>2. attempts \in 0 .. 2
    BY DEF QubesInv, SessionInv, OneAttempt
  <2>3. /\ attached \in BOOLEAN /\ ClientTypeOK /\ hostExch \in Exchange
        /\ hostPos \in 0 .. 2 /\ trust \in BOOLEAN
        /\ exitCode \in {"none", "success", "failure"}
        /\ typed \in {p \in Pass : BootTakes(p)} \cup {NoPass}
    BY DEF QubesInv, SessionInv, SessionTypes
  <2>4. QubesTypes
    BY DEF QubesInv, QubesFollows
  <2>5. PassEnrollTypeOK
    BY ONLY <2>1, <2>3, <2>4 DEF QubesTypes, PassEnrollTypeOK
  <2> QED
    BY ONLY <2>2, <2>4, <2>5 DEF QubesTypes, QubesTypeOK
<1> QED
  BY <1>1, QubesInvHolds, PTL

\* On serial line and stream no program takes one byte for another, although
\* nothing on the stream tells a verdict from an answer or an answer from a slot
\* (verify.rs:63, :92, :96).
THEOREM QubesIsFramed == Spec => []BothChannelsInSync
<1>1. QubesInv => BothChannelsInSync
  <2> SUFFICES ASSUME QubesInv PROVE BothChannelsInSync
    OBVIOUS
  <2>1. FramingInSync
    BY SessionIsFramed DEF QubesInv
  <2>2. ASSUME dom0Pc \in DOMAIN Dom0Reads, toDom0 # <<>>
        PROVE  \/ Head(toDom0).kind = Dom0Reads[dom0Pc]
               \/ dom0Pc = "rdKeyfile" /\ CurrentLen(current) > 255
    <3>1. CASE Fits
      BY <2>2, <3>1, StreamRead DEF QubesInv, QubesFollows, Dom0Follows, Challenge,
         LenFrame, TextFrame, KeyFrame, SlotFrame, Frame
    <3>2. CASE ~Fits
      <4>1. CurrentLen(current) \in Nat
        BY ProtocolAssumption DEF CurrentLen, QubesInv, QubesFollows, QubesTypes
      <4>2. CurrentLen(current) > 255
        BY <3>2, <4>1 DEF Fits, Announces, LenByte
      <4> QED
        BY <2>2, <3>2, <4>2, StreamRead DEF QubesInv, QubesFollows, Dom0Follows,
           Challenge, LenFrame, TextFrame, SlotFrame, Frame
    <3> QED
      BY <3>1, <3>2
  <2>3. ASSUME hostPc = "rdVerdict", toEnroller # <<>>
        PROVE  Head(toEnroller).data \in {HostByte.TpmSigned, HostByte.TpmRefusedToSign}
    <3>1. VerdictOnStream
      BY <2>3 DEF QubesInv, QubesFollows, StreamFollows
    <3>2. Head(toEnroller) \in {Refused, Signed}
      BY <3>1, StreamRead DEF VerdictOnStream
    <3> QED
      BY <3>2 DEF Refused, Signed, Status, Frame
  <2>4. ASSUME hostPc = "rdAdded", toEnroller # <<>>
        PROVE  Head(toEnroller).data = HostByte.DecryptionSuccess
    BY <2>4, StreamRead DEF QubesInv, QubesFollows, StreamFollows, DiskOpened, Status,
       Frame
  <2> QED
    BY <2>1, <2>2, <2>3, <2>4 DEF BothChannelsInSync
<1> QED
  BY <1>1, QubesInvHolds, PTL

\* The three programs never all wait for one another (verify.rs:79,
\* qubes_enroll.rs:118): whoever has nothing to read leaves it to another who has.
THEOREM QubesGoesOn == Spec => []NoThreeWayWait
<1>1. QubesInv => NoThreeWayWait
  <2> SUFFICES ASSUME QubesInv, attached, hostPc \in DOMAIN HostReads \cup StreamReads,
                      clientPc \in DOMAIN ClientReads, dom0Pc \in DOMAIN Dom0Reads
               PROVE  \/ hostPc \in DOMAIN HostReads /\ toHost # <<>>
                      \/ hostPc \in StreamReads /\ toEnroller # <<>>
                      \/ toTkey # <<>>
                      \/ toDom0 # <<>>
    BY DEF NoThreeWayWait
  <2>1. CASE hostPc \in DOMAIN HostReads
    BY <2>1, SessionGoesOn DEF QubesInv, QubesFollows, Announced, NoMutualWait
  <2>2. CASE hostPc = "rdVerdict"
    BY <2>2, StreamRead DEF QubesInv, QubesFollows, StreamFollows, VerdictOnStream,
       StreamReads
  <2>3. CASE hostPc = "rdAdded"
    BY <2>3, StreamRead DEF QubesInv, QubesFollows, StreamFollows, Dom0Follows,
       StreamReads
  <2> QED
    BY <2>1, <2>2, <2>3 DEF StreamReads
<1> QED
  BY <1>1, QubesInvHolds, PTL

\* A green farewell and exit code 0 mean that the boot opens the disk with the new
\* passphrase and that the keyslot that was to go is gone, whoever is killed in
\* between, although dom0 announces the enrollment before the kill (verify.rs:91).
THEOREM QubesReportsAreCorrect == Spec => []QubesReportsAreTrue
<1>1. QubesInv => QubesReportsAreTrue
  BY DEF QubesInv, QubesFollows, SessionInv, FarewellFollows, CryptsetupFollows,
     ReportFollows, DoomedIsGone, QubesReportsAreTrue
<1> QED
  BY <1>1, QubesInvHolds, PTL

\* dom0 kills a keyslot only if the user has asked for it and named that one, the
\* new one is filled and the TPM has signed (qubes_enroll.rs:80): the byte that dom0
\* reads (verify.rs:94) is the one that was sent for the keyslot.
THEOREM QubesKillsAsAsked == Spec => []KillIsWanted
<1>1. QubesInv => KillIsWanted
  BY DEF QubesInv, QubesFollows, CryptsetupFollows, Announced, Cleared, KillIsWanted
<1> QED
  BY <1>1, QubesInvHolds, PTL

-----------------------------------------------------------------------------
(* The abstract enrollment. *)

\* A step that changes none of this is not seen.
LEMMA Unseen ==
    ASSUME UNCHANGED <<slots, typed, app, added, exitCode, doomed>>
    PROVE  UNCHANGED Enrollment!vars
<1>1. Derived' = Derived
  BY DEF Derived
<1> QED
  BY <1>1 DEF Enrollment!vars

\* The program ends, with a success only if all has been done.
LEMMA SeenToEnd ==
    ASSUME exitCode = "none", UNCHANGED <<slots, typed, app, added, doomed>>,
           \/ HostExit("success") /\ added /\ DoomedIsGone
           \/ HostExit("failure")
    PROVE  Enrollment!Next
<1>1. Derived' = Derived
  BY DEF Derived
<1>2. CASE HostExit("success") /\ added /\ DoomedIsGone
  BY <1>1, <1>2 DEF HostExit, DoomedIsGone, Enrollment!Next, Enrollment!Succeed
<1>3. CASE HostExit("failure")
  BY <1>1, <1>3 DEF HostExit, Enrollment!Next, Enrollment!Fail
<1> QED
  BY <1>2, <1>3

\* The program learns the new passphrase.
LEMMA SendsNewHashRefines ==
    ASSUME QubesInv, SendsNewHash(FitsAByte), UNCHANGED besidePass
    PROVE  Enrollment!Next
<1>1. typed = NoPass
  BY DEF QubesInv, SessionInv, KeyfileFollows, SendsNewHash
<1>2. typed' \in Pass /\ UNCHANGED <<slots, added, exitCode, app, doomed>>
  BY DEF SendsNewHash, besidePass
<1>3. Derived = Garbled /\ Derived' # Garbled
  BY <1>1, <1>2, ProtocolAssumption DEF Derived, Garbled, Blake2s
<1> QED
  BY <1>2, <1>3 DEF Enrollment!Next, Enrollment!Derive

\* cryptsetup fills a keyslot or empties one, or fails and is not seen.
LEMMA ByCryptsetupRefines ==
    ASSUME QubesInv, ByCryptsetup PROVE [Enrollment!Next]_(Enrollment!vars)
<1> USE DEF ByCryptsetup, besideDom0
<1>1. UNCHANGED <<exitCode, app, doomed>> /\ Derived' = Derived
  BY DEF Derived
<1>2. CASE CryptsetupAdds(dom0Key.text, dom0Keyfile)
  <2>1. dom0Keyfile = Derived /\ typed # NoPass /\ ~added /\ exitCode # "success"
    BY <1>2, AddsDerived, AtWork DEF CryptsetupAdds
  <2>2. Derived # Garbled
    BY <2>1 DEF Derived, Garbled, Blake2s
  <2>3. added' = TRUE
        /\ \E s \in Slots : slots[s] = Empty /\ slots' = [slots EXCEPT ![s] = Derived]
    BY <1>2, <2>1 DEF CryptsetupAdds
  <2> QED
    BY <1>1, <2>1, <2>2, <2>3 DEF Enrollment!Next, Enrollment!Add
<1>3. CASE CryptsetupKillsSlot(dom0Keyfile, dom0Slot)
  <2>1. dom0Keyfile = Derived /\ added /\ exitCode # "success" /\ dom0Slot = doomed
    BY <1>3, AtWork DEF CryptsetupKillsSlot
  <2>2. /\ doomed \in Slots /\ UNCHANGED added
        /\ \E s \in Slots \ {doomed} : slots[s] = Derived
        /\ slots' = [slots EXCEPT ![doomed] = Empty]
    BY <1>3, <2>1 DEF CryptsetupKillsSlot, OpensBesides
  <2> QED
    BY <1>1, <2>1, <2>2 DEF Enrollment!Next, Enrollment!Kill
<1>4. CASE CryptsetupFails
  BY <1>1, <1>4, Unseen DEF CryptsetupFails
<1> QED
  BY <1>2, <1>3, <1>4

\* Every step of the three programs, the app and cryptsetup is one of the abstract
\* enrollment, or is not seen.
LEMMA StepRefines == QubesInv /\ [Next]_vars => [Enrollment!Next]_(Enrollment!vars)
<1> SUFFICES ASSUME QubesInv, [Next]_vars PROVE [Enrollment!Next]_(Enrollment!vars)
  OBVIOUS
<1>0. exitCode = "none" <=> hostPc # "exit"
  BY DEF QubesInv, SessionInv, FarewellFollows
<1>1. CASE ByClient \/ Unplug \/ UNCHANGED vars
  <2>1. UNCHANGED <<slots, typed, app, added, exitCode, doomed>>
    BY <1>1, AppStays DEF ByClient, Unplug, hostSide, vars, enrollVars
  <2> QED
    BY <2>1, Unseen
<1>2. CASE SendsNewHash(FitsAByte) /\ UNCHANGED besidePass
  BY <1>2, SendsNewHashRefines
<1>3. CASE ProgramAlone /\ ~(SendsNewHash(FitsAByte) /\ UNCHANGED besidePass)
  <2>1. UNCHANGED <<slots, app, added, doomed>>
        /\ hostPc # "exit" /\ (UNCHANGED exitCode \/ HostExit("failure"))
    BY <1>3, ProgramAloneMoves
  <2>2. UNCHANGED typed
    BY <1>3 DEF ProgramAlone, ChecksSlot, LoadApp, QubesAuthStatus, EndOfStream,
       HostLoadFails, HostReadNonce, HostReadEncNonce, HostReadTkeyPub, HostIoError,
       AwaitsReady, AsksNewAgain, AskNewFails, HostKilled, NewPassStatus, ReadsKeyfile,
       besideAuth, besidePass, besideStream
  <2> QED
    BY <1>0, <2>1, <2>2, Unseen, SeenToEnd
<1>4. CASE SendsChallenge \/ ForwardsVerdict \/ SendsCurrent \/ SendsSlot
  <2>1. UNCHANGED <<slots, typed, app, added, doomed>>
        /\ hostPc # "exit" /\ (UNCHANGED exitCode \/ HostExit("failure"))
    BY <1>4 DEF SendsChallenge, ForwardsVerdict, SendsCurrent, SendsSlot, FromDom0,
       besideStream
  <2> QED
    BY <1>0, <2>1, Unseen, SeenToEnd
<1>5. CASE Reports
  <2>1. UNCHANGED <<slots, typed, app, added, doomed>> /\ hostPc # "exit"
    BY <1>5 DEF Reports, besideStream
  <2>2. dom0Pc = "success" => added /\ DoomedIsGone
    BY DEF QubesInv, QubesFollows, CryptsetupFollows, ReportFollows
  <2>3. \/ HostExit("success") /\ dom0Pc = "success"
        \/ HostExit("failure")
    BY <1>5 DEF Reports
  <2> QED
    BY <1>0, <2>1, <2>2, <2>3, SeenToEnd
<1>6. CASE (ByDom0 \/ Dom0Dies) /\ UNCHANGED doomed
  <2>1. UNCHANGED <<slots, typed, app, added, exitCode, doomed>>
    BY <1>6 DEF ByDom0, Dom0Verifies, Dom0ReadsLen, Dom0ReadsText, Dom0ReadsKeyfile,
       Dom0Announces, Dom0ReadsSlot, Dom0HasKilled, Dom0CryptsetupErr, Dom0EndOfFile,
       Dom0Dies, Dom0Receives, besideDom0
  <2> QED
    BY <2>1, Unseen
<1>7. CASE ByCryptsetup
  BY <1>7, ByCryptsetupRefines
<1> QED
  BY <1>1, <1>2, <1>3, <1>4, <1>5, <1>6, <1>7, ByHostOrKilled DEF Next

\* The Qubes enrollment implements the abstract one, on every header and for every
\* slot: one keyslot at most is filled, the one to go is emptied only while the new
\* keyfile opens another, and a success is announced only after both.
THEOREM QubesImplementsEnrollment == Spec => RefinesEnrollment
<1>1. Init => Enrollment!Init
  BY DEF Init, PassEnrollInit, LuksInit, AuthInit, Derived, Enrollment!Init
<1>2. QubesInv /\ [Next]_vars => [Enrollment!Next]_(Enrollment!vars)
  BY StepRefines
<1> QED
  BY <1>1, <1>2, QubesInvHolds, PTL DEF Spec, RefinesEnrollment, Enrollment!Spec

-----------------------------------------------------------------------------
(* What the program inherits from the abstract enrollment. *)

Promise ==
    INSTANCE KeyslotEnrollmentProofs WITH
        SlotNumbers <- Slots,
        Free <- Empty,
        NoKeyfile <- Garbled,
        header <- slots,
        new <- Derived,
        isAdded <- added,
        outcome <- CASE exitCode = "none" -> "pending"
                     [] exitCode = "success" -> "success"
                     [] OTHER -> "failure"

\* It is the same abstract enrollment.
LEMMA SamePromise == RefinesEnrollment => Promise!Spec
<1>1. Enrollment!Init => Promise!Init
  BY DEF Enrollment!Init, Promise!Init
<1>2. [Enrollment!Next]_(Enrollment!vars) => [Promise!Next]_(Promise!vars)
  BY DEF Enrollment!vars, Promise!vars, Enrollment!Next, Promise!Next,
     Enrollment!Derive, Promise!Derive, Enrollment!Add, Promise!Add,
     Enrollment!Kill, Promise!Kill, Enrollment!Succeed, Promise!Succeed,
     Enrollment!Fail, Promise!Fail
<1> QED
  BY <1>1, <1>2, PTL DEF RefinesEnrollment, Enrollment!Spec, Promise!Spec

\* The header as it was found, or with the keyfile in one keyslot that was free and
\* without the one that was to go.
OneForAnother(h) ==
    \/ ~added /\ slots = h
    \/ /\ added /\ OpensAtBoot
       /\ \E f \in Slots :
             /\ h[f] = Empty
             /\ \A s \in Slots : \/ slots[s] = IF s = f THEN Derived ELSE h[s]
                                 \/ s = doomed /\ slots[s] = Empty

\* Whoever dies, and whatever arrives of the current passphrase, every key of the
\* header still opens its keyslot, but for the one the user has given up; that one
\* opens until the boot can open the disk with the new passphrase, and another slot
\* (verify.rs:97, kill_slot comes after the status of luksAddKey).
THEOREM QubesKeepsTheHeader ==
    ASSUME NEW CONSTANT h
    PROVE  Spec /\ slots = h => []OneForAnother(h)
<1>1. Init /\ slots = h => DOMAIN h = Slots
  BY LuksAssumption DEF Init, LuksInit
<1>2. Promise!Spec /\ slots = h /\ DOMAIN h = Slots => []Promise!HeaderInv(h)
  BY Promise!HeaderIsKept
<1>3. QubesInv /\ Promise!HeaderInv(h) => OneForAnother(h)
  <2> SUFFICES ASSUME QubesInv, Promise!HeaderInv(h) PROVE OneForAnother(h)
    OBVIOUS
  <2>1. CASE added
    <3>1. OpensAtBoot
      BY <2>1 DEF QubesInv, QubesFollows, ReportFollows
    <3> QED
      BY <2>1, <3>1
         DEF Promise!HeaderInv, Promise!HeaderFollows, Promise!FilledOnce, OneForAnother
  <2>2. CASE ~added
    BY <2>2 DEF Promise!HeaderInv, Promise!HeaderFollows, OneForAnother
  <2> QED
    BY <2>1, <2>2
<1> QED
  BY <1>1, <1>2, <1>3, SamePromise, QubesImplementsEnrollment, QubesInvHolds, PTL DEF Spec

\* After the shell has been told of a success the header is left alone, although
\* cryptsetup outlives the programs.
THEOREM QubesSuccessIsFinal == Spec => [][exitCode = "success" => UNCHANGED slots]_vars
<1>1. QubesInv /\ [Next]_vars => [exitCode = "success" => UNCHANGED slots]_vars
  BY StepRefines DEF Enrollment!vars, Enrollment!Next, Enrollment!Derive, Enrollment!Add,
     Enrollment!Kill, Enrollment!Succeed, Enrollment!Fail
<1> QED
  BY <1>1, QubesInvHolds, PTL DEF Spec

-----------------------------------------------------------------------------
(* The length byte. *)

\* A current passphrase of at most 255 bytes reaches cryptsetup as it was typed, and
\* the keyfile as it was decrypted (verify.rs:40): only longer ones are cut off.
THEOREM WhatFitsArrives == Spec => [](CurrentLen(current) < 256 => WhatWasTypedArrives)
<1>1. QubesInv => (CurrentLen(current) < 256 => WhatWasTypedArrives)
  <2> SUFFICES ASSUME QubesInv, CurrentLen(current) < 256, dom0Pc = "waitAdd"
               PROVE  dom0Key.text = Text(current) /\ dom0Keyfile = keyfile
    BY DEF WhatWasTypedArrives
  <2>1. CurrentLen(current) \in 0 .. 255
    BY ProtocolAssumption DEF CurrentLen, QubesInv, QubesFollows, QubesTypes
  <2>2. Fits
    BY <2>1 DEF Fits, Announces, LenByte
  <2>3. Prefix(current) = Text(current)
    BY <2>2 DEF Fits, Announces, Prefix, FirstBytes
  <2> QED
    BY <2>2, <2>3 DEF QubesInv, QubesFollows, CryptsetupFollows
<1> QED
  BY <1>1, QubesInvHolds, PTL

\* Of a longer one no harm comes: no keyslot is filled or killed on its word, and
\* neither the app nor the shell hears of a success.
THEOREM CutOffChangesNothing ==
    Spec => [](CurrentLen(current) > 255 =>
                   ~added /\ child # "killing" /\ exitCode # "success")
<1>1. QubesInv => (CurrentLen(current) > 255 =>
                       ~added /\ child # "killing" /\ exitCode # "success")
  <2> SUFFICES ASSUME QubesInv, CurrentLen(current) > 255
               PROVE  ~added /\ child # "killing" /\ exitCode # "success"
    OBVIOUS
  <2>1. CurrentLen(current) \in Nat
    BY ProtocolAssumption DEF CurrentLen, QubesInv, QubesFollows, QubesTypes
  <2>2. ~Fits
    BY <2>1 DEF Fits, Announces, LenByte
  <2> QED
    BY <2>2 DEF QubesInv, QubesFollows, QubesTypes, CryptsetupFollows, ReportFollows
<1> QED
  BY <1>1, QubesInvHolds, PTL


=============================================================================
