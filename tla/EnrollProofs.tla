---------------------------- MODULE EnrollProofs ----------------------------
(***************************************************************************)
(* SessionInv is inductive as far as the steps go that both enrollment     *)
(* programs take: those of the app, and those of the program that          *)
(* PassEnroll and HostAuth describe. What either program does besides is   *)
(* covered by the lemmas on moving on and on leaving.                      *)
(***************************************************************************)
EXTENDS EnrollInvariant, SessionLemmas

\* What the app's steps leave alone of the session.
programSide == <<hostPc, hostExch, hostPos, exitCode, tpm, trust, typed, keyfile>>

USE DEF StartPcs, VerdictPcs, KeyfilePcs, ProgramPcs, ClientPcs, Touching, Looping,
        At, ClientAttempts, serialVars, clientVars, authVars, passVars, programSide

-----------------------------------------------------------------------------
(* Lines of any length. *)

\* An empty line is a line.
LEMMA EmptyLine == IsLine(<<>>)
  BY DEF IsLine, LineOK

\* A line is a sequence, of frames of whatever kind.
LEMMA LineIsSeq ==
    ASSUME NEW l, IsLine(l)
    PROVE  l \in Seq({l[i] : i \in 1 .. Len(l)})
<1> DEFINE S == {l[i] : i \in 1 .. Len(l)}
<1>1. l \in [1 .. Len(l) -> S] /\ Len(l) \in Nat
  BY DEF IsLine
<1> HIDE DEF S
<1> QED
  BY <1>1, SeqDef

\* A sequence all of whose elements are frames is a line.
LEMMA SeqIsLine ==
    ASSUME NEW S, NEW l \in Seq(S), \A i \in 1 .. Len(l) : FrameOK(l[i])
    PROVE  IsLine(l)
<1>1. Len(l) \in Nat /\ l \in [1 .. Len(l) -> S]
  BY LenProperties
<1> QED
  BY <1>1 DEF IsLine, LineOK

\* Reading a frame leaves a line.
LEMMA LineRead ==
    ASSUME NEW l, IsLine(l), l # <<>>
    PROVE  IsLine(Tail(l)) /\ FrameOK(Head(l))
<1> DEFINE S == {l[i] : i \in 1 .. Len(l)}
<1>1. l \in Seq(S)
  BY LineIsSeq
<1> HIDE DEF S
<1>2. /\ Tail(l) \in Seq(S) /\ Len(Tail(l)) = Len(l) - 1
      /\ \A i \in 1 .. Len(Tail(l)) : Tail(l)[i] = l[i + 1]
  BY <1>1, HeadTailProperties
<1>3. Len(l) \in Nat \ {0}
  BY <1>1, EmptySeq
<1>4. \A i \in 1 .. Len(Tail(l)) : FrameOK(Tail(l)[i])
  BY <1>2, <1>3 DEF IsLine, LineOK
<1>5. Head(l) = l[1] /\ 1 \in 1 .. Len(l)
  BY <1>1, <1>3
<1> QED
  BY <1>2, <1>4, <1>5, SeqIsLine DEF IsLine, LineOK

\* Writing one frame to a line.
LEMMA LineWrite ==
    ASSUME NEW l, IsLine(l), NEW f, FrameOK(f)
    PROVE  IsLine(Append(l, f))
<1> DEFINE S == {l[i] : i \in 1 .. Len(l)}
           T == S \cup {f}
<1>1. l \in Seq(S)
  BY LineIsSeq
<1> HIDE DEF S
<1>2. l \in Seq(T) /\ f \in T
  BY <1>1, SeqMonotonic
<1> HIDE DEF T
<1>3. Len(l) \in Nat
  BY DEF IsLine
<1>4. /\ Append(l, f) \in Seq(T) /\ Len(Append(l, f)) = Len(l) + 1
      /\ \A i \in 1 .. Len(l) : Append(l, f)[i] = l[i]
      /\ Append(l, f)[Len(l) + 1] = f
  BY <1>2, AppendProperties
<1>5. \A i \in 1 .. Len(Append(l, f)) : FrameOK(Append(l, f)[i])
  BY <1>3, <1>4 DEF IsLine, LineOK
<1> QED
  BY <1>4, <1>5, SeqIsLine

\* Writing several frames to a line.
LEMMA LineConcat ==
    ASSUME NEW l, IsLine(l), NEW m, IsLine(m)
    PROVE  IsLine(l \o m)
<1> DEFINE S == {l[i] : i \in 1 .. Len(l)}
           T == {m[i] : i \in 1 .. Len(m)}
           U == S \cup T
<1>1. l \in Seq(S) /\ m \in Seq(T)
  BY LineIsSeq
<1> HIDE DEF S, T
<1>2. l \in Seq(U) /\ m \in Seq(U)
  BY <1>1, SeqMonotonic
<1> HIDE DEF U
<1>3. Len(l) \in Nat /\ Len(m) \in Nat
  BY DEF IsLine
<1>4. /\ l \o m \in Seq(U) /\ Len(l \o m) = Len(l) + Len(m)
      /\ \A i \in 1 .. Len(l) + Len(m) :
            (l \o m)[i] = IF i <= Len(l) THEN l[i] ELSE m[i - Len(l)]
  BY <1>2, ConcatProperties
<1>5. \A i \in 1 .. Len(l \o m) : FrameOK((l \o m)[i])
  <2> SUFFICES ASSUME NEW i \in 1 .. Len(l) + Len(m) PROVE FrameOK((l \o m)[i])
    BY <1>4
  <2>1. CASE i <= Len(l)
    BY <1>3, <1>4, <2>1 DEF IsLine, LineOK
  <2>2. CASE ~(i <= Len(l))
    <3>1. i - Len(l) \in 1 .. Len(m)
      BY <1>3, <2>2
    <3> QED
      BY <1>4, <2>2, <3>1 DEF IsLine, LineOK
  <2> QED
    BY <2>1, <2>2
<1> QED
  BY <1>4, <1>5, SeqIsLine

\* Two or three frames are a line.
LEMMA ShortLine ==
    /\ \A a, b : FrameOK(a) /\ FrameOK(b) => IsLine(<<a, b>>)
    /\ \A a, b, c : FrameOK(a) /\ FrameOK(b) /\ FrameOK(c) => IsLine(<<a, b, c>>)
<1>1. ASSUME NEW a, NEW b, FrameOK(a), FrameOK(b) PROVE IsLine(<<a, b>>)
  <2>1. <<a, b>> \in Seq({a, b}) /\ Len(<<a, b>>) = 2
    OBVIOUS
  <2>2. \A i \in 1 .. 2 : FrameOK(<<a, b>>[i])
    BY <1>1
  <2> QED
    BY <2>1, <2>2, SeqIsLine
<1>2. ASSUME NEW a, NEW b, NEW c, FrameOK(a), FrameOK(b), FrameOK(c)
      PROVE  IsLine(<<a, b, c>>)
  <2>1. <<a, b, c>> \in Seq({a, b, c}) /\ Len(<<a, b, c>>) = 3
    OBVIOUS
  <2>2. \A i \in 1 .. 3 : FrameOK(<<a, b, c>>[i])
    BY <1>2
  <2> QED
    BY <2>1, <2>2, SeqIsLine
<1> QED
  BY <1>1, <1>2

\* The frames that are written are frames.
LEMMA FramesAreOK ==
    /\ FrameOK(Signed) /\ FrameOK(Refused) /\ FrameOK(DiskOpened) /\ FrameOK(TryAgain)
    /\ FrameOK(GoodSig) /\ FrameOK(InvalidSig) /\ FrameOK(MalformedSig)
    /\ FrameOK(Ready) /\ FrameOK(GoodPass) /\ FrameOK(Blake2Failed)
    /\ \A x \in Rand : /\ FrameOK(Frame("nonce", x)) /\ FrameOK(Frame("encNonce", x))
                       /\ FrameOK(Frame("pub", x))
    /\ \A wf \in BOOLEAN : tpm.key \in Keys => FrameOK(SigFrame(wf))
    /\ \A key, body : \A pos \in Nat : FrameOK(Frame("cipher", Encrypt(key, pos, body)))
  BY DEF FrameOK, FrameSize, Frame, Status, HostByte, ClientByte, SigFrame, Encrypt,
     Signed, Refused, DiskOpened, TryAgain, GoodSig, InvalidSig, MalformedSig, Ready,
     GoodPass, Blake2Failed

-----------------------------------------------------------------------------
(* Lockstep seen from the app. *)

\* Wherever the program is when it dies, the app is left with a line it can cope
\* with.
LEMMA AnyPlaceIsLeftBehind ==
    ASSUME SessionTypes, Lockstep, ExchangeAgrees, KeyfileFollows, attached
    PROVE  LeftBehind
<1>1. CASE hostPc = "rdAuth"
  <2>1. CASE VerdictSent
    BY <2>1 DEF LeftBehind
  <2>2. CASE Judged
    BY <2>2 DEF Judged, LeftBehind
  <2> QED
    BY <1>1, <2>1, <2>2 DEF Lockstep, WaitingForAuth
<1>2. CASE hostPc = "exit"
  BY <1>2 DEF Lockstep
<1>3. CASE hostPc \in KeyfilePcs
  BY <1>3 DEF Lockstep, LeftBehind, KeyfileFollows, WaitingForKeyfile, WaitingForReport
<1>4. CASE hostPc \in StartPcs \cup {"rdNonce", "rdEncNonce", "rdTkeyPub"} \cup VerdictPcs
  BY <1>4 DEF Lockstep, LeftBehind, BeforeLoad, WaitingForNonce, WaitingForEncNonce,
     WaitingForTkeyPub, WaitingForVerdict
<1>5. CASE hostPc \in {"rdReady", "askNew", "rdPass"}
  BY <1>5 DEF Lockstep, LeftBehind, WaitingForReady, Asking, WaitingForPass
<1> QED
  BY <1>1, <1>2, <1>3, <1>4, <1>5 DEF SessionTypes

\* Where the program can be, and what is on the lines, for each place of the app.
LEMMA SeenFromClient ==
    ASSUME SessionTypes, Lockstep, KeyfileFollows
    PROVE  /\ clientPc \notin {"firmware", "off"} => attached
           /\ clientPc = "start" => \/ hostPc = "rdNonce" /\ toHost = <<>> /\ toTkey = <<>>
                                    \/ hostPc = "exit" /\ toTkey = <<>>
           /\ clientPc = "rdPub" /\ toTkey # <<>> =>
                 \/ hostPc = "rdTkeyPub"
                 \/ hostPc \in VerdictPcs
                 \/ hostPc = "rdAuth" /\ VerdictSent /\ toHost = <<>>
                 \/ hostPc = "exit" /\ (VerdictSent \/ toTkey = <<HostPubFrame>>)
           /\ clientPc = "rdStatus" /\ toTkey # <<>> =>
                 hostPc \in {"rdAuth", "exit"} /\ VerdictSent
                 /\ (hostPc = "rdAuth" => toHost = <<>>)
           /\ clientPc = "rdSig" =>
                 hostPc \in {"rdAuth", "exit"} /\ VerdictSent
                 /\ (hostPc = "rdAuth" => toHost = <<>>)
           /\ clientPc \in Touching =>
                 \/ hostPc = "rdAuth" /\ toHost = <<InvalidSig>> /\ toTkey = <<>>
                 \/ hostPc = "rdReady" /\ toHost = <<>> /\ toTkey = <<>>
                 \/ hostPc = "exit" /\ toTkey = <<>>
           /\ clientPc = "top" =>
                 \/ hostPc = "rdAuth" /\ toHost \in {<<GoodSig>>, <<InvalidSig>>} /\ toTkey = <<>>
                 \/ hostPc = "rdReady" /\ toHost = <<>> /\ toTkey = <<>>
                 \/ hostPc = "rdPass" /\ toHost = <<Blake2Failed>> /\ toTkey = <<>>
                 \/ hostPc = "exit" /\ toTkey = <<>>
           /\ clientPc = "rdHash" /\ toTkey # <<>> =>
                 /\ hostPc \in {"rdPass", "exit"} /\ toTkey = <<HashFrame>>
                 /\ hostPc = "rdPass" => toHost = <<>>
           /\ clientPc = "rdSuccess" /\ toTkey # <<>> =>
                 hostPc = "exit" /\ (\/ toTkey = <<TryAgain>>
                                     \/ toTkey = <<DiskOpened>> /\ exitCode = "success")
           /\ clientPc \in {"farewell", "done"} => hostPc = "exit" /\ toTkey = <<>>
<1>1. CASE ~attached
  BY <1>1 DEF Lockstep, SessionTypes
<1>2. CASE attached /\ hostPc = "rdAuth"
  <2>1. CASE toHost = <<>> /\ VerdictSent
    BY <1>2, <2>1 DEF VerdictSent
  <2>2. CASE Judged
    BY <1>2, <2>2 DEF Judged
  <2> QED
    BY <1>2, <2>1, <2>2 DEF Lockstep, WaitingForAuth
<1>3. CASE attached /\ hostPc = "exit"
  <2>1. LeftBehind
    BY <1>3 DEF Lockstep
  <2>2. CASE VerdictSent
    BY <1>3, <2>2 DEF VerdictSent
  <2>3. CASE toTkey = <<>> /\ clientPc # "rdSig"
    BY <1>3, <2>3
  <2>4. CASE toTkey # <<>> /\ clientPc \in {"rdPub", "rdHash", "rdSuccess"} /\ ~VerdictSent
    BY <1>3, <2>1, <2>4 DEF LeftBehind
  <2> QED
    BY <2>1, <2>2, <2>3, <2>4 DEF LeftBehind
<1>4. CASE attached /\ hostPc \in KeyfilePcs
  BY <1>4 DEF Lockstep, KeyfileFollows, WaitingForKeyfile, WaitingForReport
<1>5. CASE attached /\ hostPc \in StartPcs \cup {"rdNonce", "rdEncNonce", "rdTkeyPub"} \cup VerdictPcs
  BY <1>5 DEF Lockstep, BeforeLoad, WaitingForNonce, WaitingForEncNonce,
     WaitingForTkeyPub, WaitingForVerdict
<1>6. CASE attached /\ hostPc \in {"rdReady", "askNew", "rdPass"}
  BY <1>6 DEF Lockstep, WaitingForReady, Asking, WaitingForPass
<1> QED
  BY <1>1, <1>2, <1>3, <1>4, <1>5, <1>6 DEF SessionTypes

\* The session at its beginning.
LEMMA SessionBegins ==
    SerialInit /\ ClientInit /\ AuthInit /\ PassEnrollInit /\ hostPc \in StartPcs
        => SessionInv
<1> SUFFICES ASSUME SerialInit, ClientInit, AuthInit, PassEnrollInit, hostPc \in StartPcs
             PROVE  SessionInv
  OBVIOUS
<1> USE DEF SerialInit, ClientInit, AuthInit, PassEnrollInit
<1>1. SessionTypes
  <2>1. NoExchange \in Exchange
    BY DEF Exchange, NoExchange
  <2>2. IsLine(toHost) /\ IsLine(toTkey)
    BY EmptyLine
  <2>3. ClientTypeOK
    BY <2>1 DEF ClientTypeOK, ClientPcs
  <2>4. hostPc \in ProgramPcs /\ hostPos \in 0 .. 2 /\ hostExch \in Exchange
    BY <2>1
  <2>5. attached \in BOOLEAN /\ trust \in BOOLEAN
    OBVIOUS
  <2>6. exitCode = "none" /\ tpm \in [key : Keys \cup {NoKey}, pcrsMatch : BOOLEAN]
    OBVIOUS
  <2>7. typed = NoPass
    OBVIOUS
  <2> QED
    BY ONLY <2>2, <2>3, <2>4, <2>5, <2>6, <2>7 DEF SessionTypes
<1>2. Lockstep
  BY DEF Lockstep, BeforeLoad
<1>3. ExchangeAgrees /\ OneAttempt /\ KeyfileFollows /\ FarewellFollows
  BY DEF ExchangeAgrees, OneAttempt, KeyfileFollows, FarewellFollows
<1> QED
  BY <1>1, <1>2, <1>3 DEF SessionInv

-----------------------------------------------------------------------------
(* The steps of the app. *)

\* The binary on the TKey is the same for the whole session.
LEMMA AppStays == ClientSteps \/ ClientLosesPower \/ ClientBoot => app' = app
  BY DEF ClientSteps, ClientLosesPower, ClientBoot, ClientHello, ClientReadPub,
     ClientReadStatus, ClientReadSig, ClientTouched, ClientTouchTimeout, ClientReady,
     ClientDeriveKeyfile, ClientBlake2Fails, ClientReadSuccess, ClientDone

\* What is on the lines now is frames.
LEMMA LinesAre == SessionInv => IsLine(toHost) /\ IsLine(toTkey)
  BY DEF SessionInv, SessionTypes

\* What the program knows does not depend on what the app does next.
LEMMA ProgramUntouched ==
    ASSUME SessionInv, UNCHANGED programSide, app' = app
    PROVE  KeyfileFollows'
  BY DEF SessionInv, KeyfileFollows, Derived, BootTakes

\* The hello: three frames, in the order in which the program reads them.
LEMMA ClientHelloKeeps ==
    SessionInv /\ ClientHello /\ UNCHANGED programSide => SessionInv'
<1> SUFFICES ASSUME SessionInv, ClientHello, UNCHANGED programSide PROVE SessionInv'
  OBVIOUS
<1> USE DEF ClientHello
<1>1. /\ attached /\ clientPc = "start" /\ toTkey = <<>>
      /\ \/ hostPc = "rdNonce" /\ toHost = <<>>
         \/ hostPc = "exit"
  BY SeenFromClient DEF SessionInv
<1>2. clientExch \in Exchange
  BY DEF SessionInv, SessionTypes, ClientTypeOK
<1>3. /\ toHost' = toHost \o <<NonceFrame, EncNonceFrame, TkeyPubFrame>>'
      /\ clientExch'.nonce \in Rand /\ clientExch'.encNonce \in Rand
      /\ clientExch'.tkeyPub \in Rand
      /\ clientExch' \in Exchange
  BY <1>2 DEF NonceFrame, EncNonceFrame, TkeyPubFrame, Exchange
<1>4. SessionTypes'
  <2>1. IsLine(<<NonceFrame, EncNonceFrame, TkeyPubFrame>>')
    BY <1>3, FramesAreOK, ShortLine DEF NonceFrame, EncNonceFrame, TkeyPubFrame
  <2>2. IsLine(toHost') /\ IsLine(toTkey')
    BY ONLY SessionInv, toTkey' = toTkey, <1>3, <2>1, LinesAre, LineConcat
  <2> QED
    <3>1. clientPc' = "rdPub" /\ UNCHANGED <<attached, app, clientPos, attempts, led>>
      OBVIOUS
    <3> QED
      BY ONLY SessionInv, UNCHANGED programSide, <1>3, <2>2, <3>1
         DEF SessionInv, SessionTypes, ClientTypeOK, BootTakes
<1>5. Lockstep'
  <2>1. CASE hostPc = "rdNonce"
    <3>1. toHost' = <<NonceFrame', EncNonceFrame', TkeyPubFrame'>>
      BY <1>1, <1>3, <2>1, WriteFirst
    <3> QED
      BY <1>1, <2>1, <3>1 DEF Lockstep, WaitingForNonce
  <2>2. CASE hostPc = "exit"
    BY <1>1, <2>2 DEF Lockstep, LeftBehind
  <2> QED
    BY <1>1, <2>1, <2>2
<1>6. ExchangeAgrees' /\ OneAttempt' /\ FarewellFollows'
  BY <1>1 DEF SessionInv, ExchangeAgrees, OneAttempt, FarewellFollows
<1> QED
  BY <1>4, <1>5, <1>6, ProgramUntouched DEF SessionInv

\* With the program's public key the app knows all of the exchange.
LEMMA ClientReadPubKeeps ==
    SessionInv /\ ClientReadPub /\ UNCHANGED programSide => SessionInv'
<1> SUFFICES ASSUME SessionInv, ClientReadPub, UNCHANGED programSide PROVE SessionInv'
  OBVIOUS
<1> USE DEF ClientReadPub
<1>1. /\ attached /\ clientPc = "rdPub" /\ toTkey # <<>>
      /\ \/ hostPc = "rdTkeyPub" /\ toHost = <<TkeyPubFrame>> /\ toTkey = <<HostPubFrame>>
         \/ hostPc \in VerdictPcs /\ toHost = <<>> /\ toTkey = <<HostPubFrame>>
         \/ hostPc = "rdAuth" /\ VerdictSent /\ toHost = <<>>
         \/ hostPc = "exit" /\ (VerdictSent \/ toTkey = <<HostPubFrame>>)
  BY SeenFromClient
     DEF SessionInv, Readable, Lockstep, WaitingForTkeyPub, WaitingForVerdict
<1>2. Head(toTkey) = HostPubFrame
  BY <1>1, ReadFrame DEF VerdictSent
<1>3. /\ clientExch \in Exchange /\ hostExch \in Exchange
      /\ clientExch' = [clientExch EXCEPT !.hostPub = hostExch.hostPub]
  BY <1>2 DEF SessionInv, SessionTypes, ClientTypeOK, HostPubFrame, Frame
<1>4. /\ clientExch' \in Exchange
      /\ clientExch'.nonce = clientExch.nonce
      /\ clientExch'.encNonce = clientExch.encNonce
      /\ clientExch'.tkeyPub = clientExch.tkeyPub
      /\ clientExch'.hostPub = hostExch.hostPub
  BY <1>3 DEF Exchange
<1>5. SessionTypes'
  <2>1. IsLine(toHost') /\ IsLine(toTkey')
    BY <1>1, LineRead DEF SessionInv, SessionTypes
  <2> QED
    BY <1>4, <2>1 DEF SessionInv, SessionTypes, ClientTypeOK, BootTakes
<1>6. VerdictSent => VerdictSent'
  <2> SUFFICES ASSUME VerdictSent PROVE VerdictSent'
    OBVIOUS
  <2>1. CASE toTkey = <<HostPubFrame, Refused>>
    BY <1>4, <2>1, ReadFrame DEF VerdictSent, Refused
  <2>2. ASSUME NEW wf \in BOOLEAN, toTkey = <<HostPubFrame, Signed, SigFrame(wf)>>
        PROVE  VerdictSent'
    <3>1. toTkey' = <<Signed, SigFrame(wf)'>> /\ Signed' = Signed
      BY <2>2, ReadFrame DEF Signed, SigFrame
    <3> QED
      BY <1>4, <3>1 DEF VerdictSent
  <2> QED
    BY <1>1, <2>1, <2>2 DEF VerdictSent
<1>7. toTkey = <<HostPubFrame>> => toTkey' = <<>>
  BY ReadFrame
<1>8. Lockstep'
  <2>1. CASE hostPc = "rdTkeyPub"
    <3>1. toHost' = <<TkeyPubFrame'>> /\ toTkey' = <<>>
      BY <1>1, <1>4, <1>7, <2>1 DEF TkeyPubFrame
    <3> QED
      BY <1>1, <2>1, <3>1 DEF Lockstep, WaitingForTkeyPub
  <2>2. CASE hostPc \in VerdictPcs
    BY <1>1, <1>7, <2>2 DEF Lockstep, WaitingForVerdict
  <2>3. CASE hostPc = "rdAuth"
    BY <1>1, <1>6, <2>3 DEF Lockstep, WaitingForAuth
  <2>4. CASE hostPc = "exit"
    BY <1>1, <1>6, <1>7, <2>4 DEF Lockstep, LeftBehind
  <2> QED
    BY <1>1, <2>1, <2>2, <2>3, <2>4
<1>9. ExchangeAgrees' /\ OneAttempt' /\ FarewellFollows'
  BY <1>1, <1>4 DEF SessionInv, ExchangeAgrees, OneAttempt, FarewellFollows
<1> QED
  BY <1>5, <1>8, <1>9, ProgramUntouched DEF SessionInv

\* The app goes on to the signature, or reports the refusal and waits for a touch.
LEMMA ClientReadStatusKeeps ==
    SessionInv /\ ClientReadStatus /\ UNCHANGED programSide => SessionInv'
<1> SUFFICES ASSUME SessionInv, ClientReadStatus, UNCHANGED programSide PROVE SessionInv'
  OBVIOUS
<1> USE DEF ClientReadStatus, AfterRefusal
<1>1. /\ attached /\ clientPc = "rdStatus" /\ toTkey # <<>> /\ VerdictSent
      /\ \/ hostPc = "rdAuth" /\ toHost = <<>>
         \/ hostPc = "exit"
  BY SeenFromClient DEF SessionInv, Readable
<1>2. hostExch = clientExch /\ attempts = 0 /\ clientPos = 0
  <2>1. hostExch \in Exchange /\ clientExch \in Exchange
    BY DEF SessionInv, SessionTypes, ClientTypeOK
  <2> QED
    BY <1>1, <2>1 DEF SessionInv, VerdictSent, ExchangeAgrees, Exchange, OneAttempt
<1>3. \/ /\ clientPc' = "touchYellow" /\ toTkey' = <<>>
         /\ toHost' = Append(toHost, InvalidSig)
      \/ clientPc' = "rdSig" /\ toHost' = toHost /\ VerdictSent'
  <2>1. CASE toTkey = <<Refused>>
    BY <2>1, ReadFrame, ClientDecodes DEF InvalidSig
  <2>2. ASSUME NEW wf \in BOOLEAN, toTkey = <<Signed, SigFrame(wf)>>
        PROVE  clientPc' = "rdSig" /\ toHost' = toHost /\ VerdictSent'
    <3>1. toTkey' = <<SigFrame(wf)'>> /\ clientPc' = "rdSig" /\ toHost' = toHost
      BY <2>2, ReadFrame, ClientDecodes DEF SigFrame
    <3> QED
      BY <1>2, <3>1 DEF VerdictSent
  <2> QED
    BY <1>1, <2>1, <2>2 DEF VerdictSent
<1>4. SessionTypes'
  <2>1. IsLine(toHost') /\ IsLine(toTkey')
    <3>1. toTkey' = Tail(toTkey) /\ FrameOK(InvalidSig)
      BY FramesAreOK
    <3> QED
      BY ONLY SessionInv, <1>1, <1>3, <3>1, LinesAre, LineRead, LineWrite
  <2> QED
    BY <2>1 DEF SessionInv, SessionTypes, ClientTypeOK, BootTakes
<1>5. Lockstep'
  <2>1. CASE hostPc = "rdAuth"
    <3>1. CASE clientPc' = "touchYellow"
      <4>1. toHost' = <<InvalidSig>> /\ InvalidSig' = InvalidSig
        BY <1>1, <1>3, <2>1, <3>1, WriteFirst DEF InvalidSig
      <4> QED
        BY <1>1, <1>3, <2>1, <3>1, <4>1 DEF Lockstep, WaitingForAuth, Judged
    <3>2. CASE clientPc' = "rdSig"
      BY <1>1, <1>3, <2>1, <3>2 DEF Lockstep, WaitingForAuth
    <3> QED
      BY <1>3, <3>1, <3>2
  <2>2. CASE hostPc = "exit"
    BY <1>1, <1>3, <2>2 DEF Lockstep, LeftBehind
  <2> QED
    BY <1>1, <2>1, <2>2
<1>6. ExchangeAgrees' /\ OneAttempt' /\ FarewellFollows'
  BY <1>1, <1>2, <1>3 DEF SessionInv, ExchangeAgrees, OneAttempt, FarewellFollows
<1> QED
  BY <1>4, <1>5, <1>6, ProgramUntouched DEF SessionInv

\* The app's answer to the signature.
LEMMA ClientReadSigKeeps ==
    SessionInv /\ ClientReadSig /\ UNCHANGED programSide => SessionInv'
<1> SUFFICES ASSUME SessionInv, ClientReadSig, UNCHANGED programSide PROVE SessionInv'
  OBVIOUS
<1> USE DEF ClientReadSig
<1>1. /\ attached /\ clientPc = "rdSig" /\ VerdictSent
      /\ \/ hostPc = "rdAuth" /\ toHost = <<>>
         \/ hostPc = "exit"
  BY SeenFromClient DEF SessionInv
<1>2. hostExch = clientExch /\ attempts = 0 /\ clientPos = 0
  <2>1. hostExch \in Exchange /\ clientExch \in Exchange
    BY DEF SessionInv, SessionTypes, ClientTypeOK
  <2> QED
    BY <1>1, <2>1 DEF SessionInv, VerdictSent, ExchangeAgrees, Exchange, OneAttempt
<1>3. toTkey # <<>> /\ toTkey' = <<>>
  BY <1>1, ReadFrame DEF VerdictSent
<1>4. /\ \/ clientPc' = "top" /\ toHost' = Append(toHost, GoodSig)
         \/ clientPc' = "touchPurple" /\ toHost' = Append(toHost, InvalidSig)
         \/ clientPc' = "abort" /\ toHost' = Append(toHost, MalformedSig)
      /\ led' \in {"off", "green", "purple", "yellow", "red"}
  BY DEF VerifySig, GoodSig, InvalidSig, MalformedSig, SessionInv, SessionTypes,
     ClientTypeOK
<1>5. SessionTypes'
  <2>1. IsLine(toHost') /\ IsLine(toTkey')
    <3>1. FrameOK(GoodSig) /\ FrameOK(InvalidSig) /\ FrameOK(MalformedSig)
      BY FramesAreOK
    <3> QED
      BY ONLY SessionInv, <1>3, <1>4, <3>1, EmptyLine, LinesAre, LineWrite
  <2> QED
    BY <1>4, <2>1 DEF SessionInv, SessionTypes, ClientTypeOK, BootTakes
<1>6. Lockstep'
  <2>1. CASE hostPc = "rdAuth"
    <3>1. \/ clientPc' = "top" /\ toHost' = <<GoodSig'>>
          \/ clientPc' = "touchPurple" /\ toHost' = <<InvalidSig'>>
          \/ clientPc' = "abort" /\ toHost' = <<MalformedSig'>>
      BY <1>1, <1>4, <2>1, WriteFirst DEF GoodSig, InvalidSig, MalformedSig
    <3> QED
      BY <1>1, <1>3, <2>1, <3>1 DEF Lockstep, WaitingForAuth, Judged
  <2>2. CASE hostPc = "exit"
    BY <1>1, <1>3, <1>4, <2>2 DEF Lockstep, LeftBehind
  <2> QED
    BY <1>1, <2>1, <2>2
<1>7. ExchangeAgrees' /\ OneAttempt' /\ FarewellFollows'
  BY <1>1, <1>2, <1>3, <1>4 DEF SessionInv, ExchangeAgrees, OneAttempt, FarewellFollows
<1> QED
  BY <1>5, <1>6, <1>7, ProgramUntouched DEF SessionInv

\* A touch lets the app into the loop; without one it is silent.
LEMMA ClientTouchKeeps ==
    /\ SessionInv /\ ClientTouched /\ UNCHANGED programSide => SessionInv'
    /\ SessionInv /\ ClientTouchTimeout /\ UNCHANGED programSide => SessionInv'
<1> SUFFICES ASSUME SessionInv, ClientTouched \/ ClientTouchTimeout, UNCHANGED programSide
             PROVE  SessionInv'
  OBVIOUS
<1> USE DEF ClientTouched, ClientTouchTimeout
<1>1. /\ attached /\ clientPc \in Touching /\ toTkey = <<>>
      /\ \/ hostPc = "rdAuth" /\ toHost = <<InvalidSig>>
         \/ hostPc = "rdReady" /\ toHost = <<>>
         \/ hostPc = "exit"
  BY SeenFromClient DEF SessionInv
<1>2. clientPc' \in {"top", "abort"} /\ UNCHANGED <<serialVars, clientExch, app>>
      /\ UNCHANGED <<attempts, clientPos>>
  OBVIOUS
<1>3. SessionTypes'
  BY DEF SessionInv, SessionTypes, ClientTypeOK, BootTakes
<1>4. Lockstep'
  <2>1. CASE hostPc = "rdAuth"
    <3>1. InvalidSig' = InvalidSig
      BY DEF InvalidSig
    <3> QED
      BY <1>1, <1>2, <2>1, <3>1 DEF Lockstep, WaitingForAuth, Judged
  <2>2. CASE hostPc = "rdReady"
    BY <1>1, <1>2, <2>2 DEF Lockstep, WaitingForReady
  <2>3. CASE hostPc = "exit"
    BY <1>1, <1>2, <2>3 DEF Lockstep, LeftBehind
  <2> QED
    BY <1>1, <2>1, <2>2, <2>3
<1>5. ExchangeAgrees' /\ OneAttempt' /\ FarewellFollows'
  BY <1>1, <1>2 DEF SessionInv, ExchangeAgrees, OneAttempt, FarewellFollows
<1> QED
  BY <1>3, <1>4, <1>5, ProgramUntouched DEF SessionInv

\* Ready4pass, behind a status byte that the program may yet have to read.
LEMMA ClientReadyKeeps ==
    SessionInv /\ ClientReady /\ UNCHANGED programSide => SessionInv'
<1> SUFFICES ASSUME SessionInv, ClientReady, UNCHANGED programSide PROVE SessionInv'
  OBVIOUS
<1> USE DEF ClientReady
<1>1. /\ attached /\ clientPc = "top" /\ toTkey = <<>>
      /\ \/ hostPc = "rdAuth" /\ toHost \in {<<GoodSig>>, <<InvalidSig>>}
         \/ hostPc = "rdReady" /\ toHost = <<>>
         \/ hostPc = "rdPass" /\ toHost = <<Blake2Failed>>
         \/ hostPc = "exit"
  BY SeenFromClient DEF SessionInv
<1>2. /\ attempts \in 0 .. 1
      /\ attempts = 0 => clientPos = 0
      /\ hostPc \in {"rdAuth", "rdReady"} => attempts = 0
  BY <1>1 DEF SessionInv, OneAttempt
<1>3. toHost' = Append(toHost, Ready) /\ clientPc' = "rdHash" /\ attempts' = attempts + 1
  BY DEF Ready
<1>4. SessionTypes'
  <2>1. IsLine(toHost')
    BY ONLY SessionInv, <1>3, LinesAre, LineWrite, FramesAreOK
  <2> QED
    BY <1>2, <2>1 DEF SessionInv, SessionTypes, ClientTypeOK, BootTakes
<1>5. Lockstep'
  <2>1. CASE hostPc = "rdAuth"
    <3>1. PICK judgement \in {GoodSig, InvalidSig} : toHost = <<judgement>>
      BY <1>1, <2>1
    <3>2. toHost' = <<judgement, Ready'>> /\ judgement \in {GoodSig', InvalidSig'}
      BY <1>3, <3>1, WriteSecond DEF Ready, GoodSig, InvalidSig
    <3> QED
      BY <1>1, <2>1, <3>2 DEF Lockstep, WaitingForAuth, Judged
  <2>2. CASE hostPc = "rdReady"
    <3>1. toHost' = <<Ready'>>
      BY <1>1, <1>3, <2>2, WriteFirst DEF Ready
    <3> QED
      BY <1>1, <2>2, <3>1 DEF Lockstep, WaitingForReady
  <2>3. CASE hostPc = "rdPass"
    <3>1. toHost' = <<Blake2Failed', Ready'>>
      BY <1>1, <1>3, <2>3, WriteSecond DEF Ready, Blake2Failed
    <3> QED
      BY <1>1, <2>3, <3>1 DEF Lockstep, WaitingForPass
  <2>4. CASE hostPc = "exit"
    BY <1>1, <2>4 DEF Lockstep, LeftBehind
  <2> QED
    BY <1>1, <2>1, <2>2, <2>3, <2>4
<1>6. ExchangeAgrees' /\ FarewellFollows'
  BY <1>1 DEF SessionInv, ExchangeAgrees, FarewellFollows
<1>7. OneAttempt'
  BY <1>1, <1>2, <1>3 DEF SessionInv, OneAttempt
<1> QED
  BY <1>4, <1>5, <1>6, <1>7, ProgramUntouched DEF SessionInv

\* The app takes the hash: it has the program's exchange and the first block.
LEMMA HashIsUnderWay ==
    ASSUME SessionInv, clientPc = "rdHash", toTkey # <<>>
    PROVE  /\ attached /\ toTkey = <<HashFrame>> /\ attempts = 1 /\ clientPos = 0
           /\ \/ hostPc = "rdPass" /\ toHost = <<>>
              \/ hostPc = "exit"
           /\ hostExch = clientExch
           /\ Decrypt(StreamKey(clientExch), clientPos, Head(toTkey).data)
              = Argon2(typed)
<1>1. /\ attached /\ toTkey = <<HashFrame>>
      /\ \/ hostPc = "rdPass" /\ toHost = <<>>
         \/ hostPc = "exit"
  BY SeenFromClient DEF SessionInv
<1>2. hostExch = clientExch /\ attempts = 1 /\ clientPos = 0
  BY DEF SessionInv, ExchangeAgrees, OneAttempt
<1> QED
  BY <1>1, <1>2, ReadFrame DEF HashFrame, Frame, Decrypt, Encrypt

\* GoodPass and the keyfile, encrypted with the second block.
LEMMA ClientDeriveKeyfileKeeps ==
    SessionInv /\ ClientDeriveKeyfile /\ UNCHANGED programSide => SessionInv'
<1> SUFFICES ASSUME SessionInv, ClientDeriveKeyfile, UNCHANGED programSide
             PROVE  SessionInv'
  OBVIOUS
<1> USE DEF ClientDeriveKeyfile
<1>1. /\ attached /\ clientPc = "rdHash" /\ toTkey = <<HashFrame>> /\ toTkey # <<>>
      /\ attempts = 1 /\ clientPos = 0
      /\ \/ hostPc = "rdPass" /\ toHost = <<>>
         \/ hostPc = "exit"
      /\ Decrypt(StreamKey(clientExch), clientPos, Head(toTkey).data) = Argon2(typed)
  BY HashIsUnderWay DEF Readable
<1> DEFINE reply == Frame("cipher", Encrypt(StreamKey(clientExch), 1,
                                            Blake2s(app, Argon2(typed))))
<1>2. toHost' = toHost \o <<GoodPass, reply>> /\ toTkey' = <<>>
  <2>1. toTkey' = <<>>
    BY <1>1, ReadFrame
  <2> DEFINE hash == Decrypt(StreamKey(clientExch), clientPos, Head(toTkey).data)
  <2>2. toHost' = toHost \o KeyfileReply(Encrypt(StreamKey(clientExch), ReplyPos(clientPos),
                                                Blake2s(app, hash)))
    OBVIOUS
  <2>3. hash = Argon2(typed) /\ ReplyPos(clientPos) = 1
    BY ONLY <1>1 DEF ReplyPos, hash
  <2> HIDE DEF hash
  <2>4. toHost' = toHost \o KeyfileReply(Encrypt(StreamKey(clientExch), 1,
                                                Blake2s(app, Argon2(typed))))
    BY ONLY <2>2, <2>3
  <2> QED
    BY ONLY <2>1, <2>4 DEF KeyfileReply, GoodPass, reply
<1>3. IsLine(toHost') /\ IsLine(toTkey')
  <2>1. FrameOK(reply) /\ FrameOK(GoodPass)
    BY FramesAreOK
  <2> HIDE DEF reply
  <2> QED
    BY ONLY SessionInv, <1>2, <2>1, EmptyLine, ShortLine, LinesAre, LineConcat
<1>4. SessionTypes'
  <2>1. clientPos' = 2 /\ clientPc' = "rdSuccess"
        /\ UNCHANGED <<app, clientExch, attempts, led, attached>>
    BY <1>1
  <2> QED
    BY ONLY SessionInv, UNCHANGED programSide, <1>3, <2>1
       DEF SessionInv, SessionTypes, ClientTypeOK, BootTakes
<1>5. Lockstep'
  <2>1. CASE hostPc = "rdPass"
    <3>1. typed \in Pass
      BY <2>1 DEF SessionInv, KeyfileFollows
    <3>2. reply = KeyfileFrame'
      BY <3>1, ProtocolAssumption DEF KeyfileFrame, Derived
    <3>3. toHost' = <<GoodPass', KeyfileFrame'>>
      BY <1>1, <1>2, <2>1, <3>2, WriteFirst DEF GoodPass
    <3> QED
      BY <1>1, <1>2, <2>1, <3>3 DEF Lockstep, WaitingForPass
  <2>2. CASE hostPc = "exit"
    BY <1>1, <1>2, <2>2 DEF Lockstep, LeftBehind
  <2> QED
    BY <1>1, <2>1, <2>2
<1>6. ExchangeAgrees' /\ OneAttempt' /\ FarewellFollows'
  BY <1>1 DEF SessionInv, ExchangeAgrees, OneAttempt, FarewellFollows
<1> QED
  BY <1>4, <1>5, <1>6, ProgramUntouched DEF SessionInv

\* Or a byte to say that there will be none.
LEMMA ClientBlake2FailsKeeps ==
    SessionInv /\ ClientBlake2Fails /\ UNCHANGED programSide => SessionInv'
<1> SUFFICES ASSUME SessionInv, ClientBlake2Fails, UNCHANGED programSide
             PROVE  SessionInv'
  OBVIOUS
<1> USE DEF ClientBlake2Fails, AfterBlake2
<1>1. /\ attached /\ clientPc = "rdHash" /\ toTkey = <<HashFrame>> /\ toTkey # <<>>
      /\ attempts = 1 /\ clientPos = 0
      /\ \/ hostPc = "rdPass" /\ toHost = <<>>
         \/ hostPc = "exit"
  BY HashIsUnderWay DEF Readable
<1>2. toHost' = Append(toHost, Blake2Failed) /\ toTkey' = <<>>
  BY <1>1, ReadFrame DEF Blake2Failed
<1>3. IsLine(toHost') /\ IsLine(toTkey')
  BY ONLY SessionInv, <1>2, EmptyLine, FramesAreOK, LinesAre, LineWrite
<1>4. SessionTypes'
  BY <1>1, <1>3 DEF SessionInv, SessionTypes, ClientTypeOK, BootTakes
<1>5. Lockstep'
  <2>1. CASE hostPc = "rdPass"
    <3>1. toHost' = <<Blake2Failed'>>
      BY <1>1, <1>2, <2>1, WriteFirst DEF Blake2Failed
    <3> QED
      BY <1>1, <1>2, <2>1, <3>1 DEF Lockstep, WaitingForPass
  <2>2. CASE hostPc = "exit"
    BY <1>1, <1>2, <2>2 DEF Lockstep, LeftBehind
  <2> QED
    BY <1>1, <2>1, <2>2
<1>6. ExchangeAgrees' /\ OneAttempt' /\ FarewellFollows'
  BY <1>1, <1>2 DEF SessionInv, ExchangeAgrees, OneAttempt, FarewellFollows
<1> QED
  BY <1>4, <1>5, <1>6, ProgramUntouched DEF SessionInv

\* The verdict of a program that is gone by then, and the farewell.
LEMMA ClientReadSuccessKeeps ==
    SessionInv /\ ClientReadSuccess /\ UNCHANGED programSide => SessionInv'
<1> SUFFICES ASSUME SessionInv, ClientReadSuccess, UNCHANGED programSide
             PROVE  SessionInv'
  OBVIOUS
<1> USE DEF ClientReadSuccess
<1>1. /\ attached /\ clientPc = "rdSuccess" /\ hostPc = "exit" /\ toTkey # <<>>
      /\ \/ toTkey = <<TryAgain>>
         \/ toTkey = <<DiskOpened>> /\ exitCode = "success"
  BY SeenFromClient DEF SessionInv, Readable
<1>2. /\ toTkey' = <<>>
      /\ \/ clientPc' = "farewell" /\ exitCode = "success"
         \/ clientPc' = "top"
  BY <1>1, ReadFrame, ClientDecodes
<1>3. SessionTypes'
  <2>1. IsLine(toTkey')
    BY <1>2, EmptyLine
  <2> QED
    BY <1>2, <2>1 DEF SessionInv, SessionTypes, ClientTypeOK, BootTakes
<1>4. Lockstep'
  BY <1>1, <1>2 DEF Lockstep, LeftBehind
<1>5. attempts = 1
  BY <1>1 DEF SessionInv, OneAttempt
<1>6. ExchangeAgrees' /\ OneAttempt' /\ FarewellFollows'
  BY <1>1, <1>2, <1>5 DEF SessionInv, ExchangeAgrees, OneAttempt, FarewellFollows
<1> QED
  BY <1>3, <1>4, <1>6, ProgramUntouched DEF SessionInv

\* After the green light the app is dark, and says nothing.
LEMMA ClientDoneKeeps ==
    SessionInv /\ ClientDone /\ UNCHANGED programSide => SessionInv'
<1> SUFFICES ASSUME SessionInv, ClientDone, UNCHANGED programSide PROVE SessionInv'
  OBVIOUS
<1> USE DEF ClientDone
<1>1. attached /\ hostPc = "exit" /\ toTkey = <<>> /\ exitCode = "success" /\ attempts = 1
  BY SeenFromClient DEF SessionInv, FarewellFollows, OneAttempt
<1>2. SessionTypes'
  BY DEF SessionInv, SessionTypes, ClientTypeOK, BootTakes
<1>3. Lockstep'
  BY <1>1 DEF Lockstep, LeftBehind
<1>4. ExchangeAgrees' /\ OneAttempt' /\ FarewellFollows'
  BY <1>1 DEF SessionInv, ExchangeAgrees, OneAttempt, FarewellFollows
<1> QED
  BY <1>2, <1>3, <1>4, ProgramUntouched DEF SessionInv

\* All of the app's steps.
LEMMA ClientStepsKeep ==
    SessionInv /\ ClientSteps /\ UNCHANGED programSide => SessionInv'
  BY ClientHelloKeeps, ClientReadPubKeeps, ClientReadStatusKeeps, ClientReadSigKeeps,
     ClientTouchKeeps, ClientReadyKeeps, ClientDeriveKeyfileKeeps,
     ClientBlake2FailsKeeps, ClientReadSuccessKeeps, ClientDoneKeeps
     DEF ClientSteps

\* The TKey is pulled out: both lines are gone, and the app with them.
LEMMA UnplugKeeps ==
    SessionInv /\ HangUp /\ ClientLosesPower /\ UNCHANGED programSide => SessionInv'
<1> SUFFICES ASSUME SessionInv, HangUp, ClientLosesPower, UNCHANGED programSide
             PROVE  SessionInv'
  OBVIOUS
<1> USE DEF HangUp, ClientLosesPower
<1>1. SessionTypes'
  <2>1. SessionTypes
    BY DEF SessionInv
  <2>2. attached' \in BOOLEAN /\ toHost' = <<>> /\ toTkey' = <<>>
    OBVIOUS
  <2>3. ClientTypeOK'
    <3>1. clientPc' = "off" /\ led' = "off"
          /\ UNCHANGED <<app, clientExch, clientPos, attempts>>
      OBVIOUS
    <3> QED
      BY ONLY <2>1, <3>1 DEF SessionTypes, ClientTypeOK, ClientPcs
  <2>4. UNCHANGED <<hostPc, hostExch, hostPos, trust, exitCode, tpm, typed>>
    OBVIOUS
  <2> QED
    BY ONLY EmptyLine, <2>1, <2>2, <2>3, <2>4 DEF SessionTypes, BootTakes
<1>2. Lockstep'
  <2>1. ~attached' /\ toHost' = <<>> /\ toTkey' = <<>> /\ clientPc' = "off"
    OBVIOUS
  <2> QED
    BY ONLY <2>1 DEF Lockstep
<1>3. ExchangeAgrees' /\ FarewellFollows'
  BY DEF SessionInv, ExchangeAgrees, FarewellFollows
<1>4. OneAttempt'
  BY DEF SessionInv, OneAttempt
<1> QED
  BY <1>1, <1>2, <1>3, <1>4, ProgramUntouched DEF SessionInv

-----------------------------------------------------------------------------
(* The steps of the program. *)

\* The program ends, with or without a last read that does not please it.
LEMMA LeavingKeeps ==
    ASSUME SessionInv, hostPc # "exit",
           NEW code \in {"success", "failure"}, HostExit(code),
           IsLine(toHost'), ~attached => toHost' = <<>>,
           hostPos' \in 0 .. 2, KeyfileFollows', trust' \in BOOLEAN,
           UNCHANGED <<clientVars, attached, toTkey, hostExch, tpm, typed>>
    PROVE  SessionInv'
<1> USE DEF HostExit
<1>1. SessionTypes'
  BY DEF SessionInv, SessionTypes, ClientTypeOK, BootTakes
<1>2. Lockstep'
  <2>1. CASE attached
    <3>1. LeftBehind
      BY <2>1, AnyPlaceIsLeftBehind DEF SessionInv
    <3>2. VerdictSent => VerdictSent'
      BY DEF VerdictSent, SigFrame, Signed, Refused, HostPubFrame
    <3>3. exitCode # "success"
      BY DEF SessionInv, FarewellFollows
    <3>4. LeftBehind'
      BY <3>1, <3>2, <3>3 DEF LeftBehind, HostPubFrame, HashFrame, TryAgain
    <3> QED
      BY <2>1, <3>4 DEF Lockstep
  <2>2. CASE ~attached
    BY <2>2 DEF SessionInv, Lockstep
  <2> QED
    BY <2>1, <2>2
<1>3. ExchangeAgrees'
  BY DEF SessionInv, ExchangeAgrees
<1>4. OneAttempt'
  BY DEF SessionInv, OneAttempt
<1>5. FarewellFollows'
  <2>1. clientPc \notin {"farewell", "done"}
    BY DEF SessionInv, FarewellFollows
  <2> QED
    BY <2>1 DEF SessionInv, FarewellFollows
<1> QED
  BY <1>1, <1>2, <1>3, <1>4, <1>5 DEF SessionInv

\* The same, when no frame has been read and nothing was learned.
LEMMA GivingUpKeeps ==
    ASSUME SessionInv, hostPc # "exit",
           NEW code \in {"success", "failure"}, HostExit(code),
           UNCHANGED <<clientVars, serialVars, hostExch, hostPos, trust, tpm, typed,
                       keyfile>>
    PROVE  SessionInv'
<1>1. KeyfileFollows'
  BY DEF SessionInv, KeyfileFollows, HostExit, Derived, BootTakes
<1>2. IsLine(toHost') /\ hostPos' \in 0 .. 2 /\ trust' \in BOOLEAN
  BY DEF SessionInv, SessionTypes
<1>3. ~attached => toHost' = <<>>
  BY DEF SessionInv, Lockstep
<1> QED
  BY <1>1, <1>2, <1>3, LeavingKeeps

\* The program goes on to a place that is the same to the app.
LEMMA MovingOnKeeps ==
    ASSUME SessionInv,
           \/ hostPc' = hostPc
           \/ \E G \in {StartPcs, VerdictPcs, KeyfilePcs} : hostPc \in G /\ hostPc' \in G,
           trust' \in BOOLEAN,
           UNCHANGED <<clientVars, serialVars, hostExch, hostPos, exitCode, tpm, typed,
                       keyfile>>
    PROVE  SessionInv'
<1>1. SessionTypes'
  BY DEF SessionInv, SessionTypes, ClientTypeOK, BootTakes
<1>2. VerdictSent' <=> VerdictSent
  BY DEF VerdictSent, SigFrame, Signed, Refused, HostPubFrame
<1>3. Lockstep'
  <2> USE DEF SessionInv, Lockstep, NonceFrame, EncNonceFrame, TkeyPubFrame,
              HostPubFrame, HashFrame, KeyfileFrame, TryAgain, DiskOpened, Derived
  <2>1. CASE hostPc \in StartPcs
    BY <2>1 DEF BeforeLoad
  <2>2. CASE hostPc \in {"rdNonce", "rdEncNonce", "rdTkeyPub"} \cup VerdictPcs
    BY <2>2 DEF WaitingForNonce, WaitingForEncNonce, WaitingForTkeyPub,
       WaitingForVerdict
  <2>3. CASE hostPc = "rdAuth"
    BY <1>2, <2>3 DEF WaitingForAuth, Judged, GoodSig, InvalidSig, MalformedSig, Ready
  <2>4. CASE hostPc \in {"rdReady", "askNew", "rdPass"}
    BY <2>4 DEF WaitingForReady, Asking, WaitingForPass, Ready, GoodPass, Blake2Failed
  <2>5. CASE hostPc \in KeyfilePcs
    BY <2>5 DEF WaitingForKeyfile, WaitingForReport
  <2>6. CASE hostPc = "exit"
    BY <1>2, <2>6 DEF LeftBehind
  <2> QED
    BY <2>1, <2>2, <2>3, <2>4, <2>5, <2>6 DEF SessionTypes
<1>4. ExchangeAgrees' /\ FarewellFollows'
  BY DEF SessionInv, ExchangeAgrees, FarewellFollows
<1>5. OneAttempt'
  BY DEF SessionInv, OneAttempt
<1>6. KeyfileFollows'
  BY DEF SessionInv, KeyfileFollows, Derived, BootTakes
<1> QED
  BY <1>1, <1>3, <1>4, <1>5, <1>6 DEF SessionInv

\* The app is loaded, and the program waits for its hello.
LEMMA LoadKeeps ==
    SessionInv /\ HostLoads /\ ClientBoot /\ UNCHANGED passVars => SessionInv'
<1> SUFFICES ASSUME SessionInv, HostLoads, ClientBoot, UNCHANGED passVars
             PROVE  SessionInv'
  OBVIOUS
<1> USE DEF HostLoads, ClientBoot
<1>1. attached /\ clientPc' = "start" /\ toHost = <<>> /\ toTkey = <<>>
  BY DEF SessionInv, Lockstep, BeforeLoad
<1>2. SessionTypes'
  BY DEF SessionInv, SessionTypes, ClientTypeOK, BootTakes
<1>3. Lockstep'
  BY <1>1 DEF Lockstep, WaitingForNonce
<1>4. ExchangeAgrees' /\ OneAttempt' /\ FarewellFollows'
  BY <1>1 DEF SessionInv, ExchangeAgrees, OneAttempt, FarewellFollows
<1>5. KeyfileFollows'
  BY DEF SessionInv, KeyfileFollows, Derived, BootTakes
<1> QED
  BY <1>2, <1>3, <1>4, <1>5 DEF SessionInv

\* A program that waits is not waiting for a line that is gone.
LEMMA ReadableIsAttached ==
    ASSUME SessionInv, toHost # <<>>
    PROVE  attached
  BY DEF SessionInv, Lockstep

\* The three frames of the hello.
LEMMA HostReadNonceKeeps ==
    SessionInv /\ HostReadNonce /\ UNCHANGED <<clientVars, passVars>> => SessionInv'
<1> SUFFICES ASSUME SessionInv, HostReadNonce, UNCHANGED <<clientVars, passVars>>
             PROVE  SessionInv'
  OBVIOUS
<1> USE DEF HostReadNonce, Readable
<1>1. /\ attached /\ clientPc = "rdPub" /\ toTkey = <<>> /\ toHost # <<>>
      /\ toHost = <<NonceFrame, EncNonceFrame, TkeyPubFrame>>
  BY ReadableIsAttached DEF SessionInv, Lockstep, WaitingForNonce
<1>2. Head(toHost).data = clientExch.nonce /\ toHost' = <<EncNonceFrame, TkeyPubFrame>>
  BY <1>1, ReadFrame DEF NonceFrame, Frame
<1>3. clientExch \in Exchange /\ hostExch \in Exchange
  BY DEF SessionInv, SessionTypes, ClientTypeOK
<1>4. hostExch' \in Exchange /\ hostExch'.nonce = clientExch.nonce
      /\ hostExch'.hostPub = hostExch.hostPub
  BY <1>2, <1>3 DEF Exchange
<1>5. SessionTypes'
  <2>1. IsLine(toHost')
    BY ONLY SessionInv, <1>1, toHost' = Tail(toHost), LinesAre, LineRead DEF HostReadNonce
  <2> QED
    BY <1>4, <2>1 DEF SessionInv, SessionTypes, ClientTypeOK, BootTakes
<1>6. Lockstep'
  BY <1>1, <1>2 DEF Lockstep, WaitingForEncNonce, EncNonceFrame, TkeyPubFrame
<1>7. ExchangeAgrees' /\ OneAttempt' /\ FarewellFollows'
  BY <1>1, <1>4 DEF SessionInv, ExchangeAgrees, OneAttempt, FarewellFollows
<1>8. KeyfileFollows'
  BY DEF SessionInv, KeyfileFollows, Derived, BootTakes
<1> QED
  BY <1>5, <1>6, <1>7, <1>8 DEF SessionInv

\* The program's public key goes out before the app's has been read.
LEMMA HostReadEncNonceKeeps ==
    SessionInv /\ HostReadEncNonce /\ UNCHANGED <<clientVars, passVars>> => SessionInv'
<1> SUFFICES ASSUME SessionInv, HostReadEncNonce, UNCHANGED <<clientVars, passVars>>
             PROVE  SessionInv'
  OBVIOUS
<1> USE DEF HostReadEncNonce, Readable
<1>1. /\ attached /\ clientPc = "rdPub" /\ toTkey = <<>> /\ toHost # <<>>
      /\ toHost = <<EncNonceFrame, TkeyPubFrame>>
      /\ hostExch.nonce = clientExch.nonce
  BY ReadableIsAttached DEF SessionInv, Lockstep, WaitingForEncNonce, ExchangeAgrees
<1>2. Head(toHost).data = clientExch.encNonce /\ toHost' = <<TkeyPubFrame>>
  BY <1>1, ReadFrame DEF EncNonceFrame, Frame
<1>3. clientExch \in Exchange /\ hostExch \in Exchange
  BY DEF SessionInv, SessionTypes, ClientTypeOK
<1>4. PICK hostPub \in Rand :
         /\ hostExch' = [hostExch EXCEPT !.encNonce = clientExch.encNonce,
                                         !.hostPub = hostPub]
         /\ toTkey' = <<Frame("pub", hostPub)>>
  BY <1>1, <1>2, WriteFirst
<1>5. /\ hostExch' \in Exchange /\ hostExch'.nonce = clientExch.nonce
      /\ hostExch'.encNonce = clientExch.encNonce
      /\ hostExch'.hostPub = hostPub
  BY <1>1, <1>3, <1>4 DEF Exchange
<1>6. toTkey' = <<HostPubFrame'>>
  BY <1>4, <1>5 DEF HostPubFrame
<1>7. SessionTypes'
  <2>1. FrameOK(Frame("pub", hostPub)) /\ toTkey' = Append(toTkey, Frame("pub", hostPub))
    BY <1>1, <1>4, FramesAreOK, WriteFirst
  <2>2. IsLine(toHost') /\ IsLine(toTkey')
    BY ONLY SessionInv, <1>1, toHost' = Tail(toHost), <2>1, LinesAre, LineRead, LineWrite
       DEF HostReadEncNonce
  <2> QED
    BY <1>5, <2>2 DEF SessionInv, SessionTypes, ClientTypeOK, BootTakes
<1>8. Lockstep'
  BY <1>1, <1>2, <1>6 DEF Lockstep, WaitingForTkeyPub, TkeyPubFrame
<1>9. ExchangeAgrees' /\ OneAttempt' /\ FarewellFollows'
  BY <1>1, <1>5 DEF SessionInv, ExchangeAgrees, OneAttempt, FarewellFollows
<1>10. KeyfileFollows'
  BY DEF SessionInv, KeyfileFollows, Derived, BootTakes
<1> QED
  BY <1>7, <1>8, <1>9, <1>10 DEF SessionInv

\* With the app's public key the program knows all of the exchange.
LEMMA HostReadTkeyPubKeeps ==
    SessionInv /\ HostReadTkeyPub /\ UNCHANGED <<clientVars, passVars>> => SessionInv'
<1> SUFFICES ASSUME SessionInv, HostReadTkeyPub, UNCHANGED <<clientVars, passVars>>
             PROVE  SessionInv'
  OBVIOUS
<1> USE DEF HostReadTkeyPub, Readable
<1>1. /\ attached /\ toHost = <<TkeyPubFrame>> /\ toHost # <<>>
      /\ \/ clientPc = "rdPub" /\ toTkey = <<HostPubFrame>>
         \/ clientPc = "rdStatus" /\ toTkey = <<>>
      /\ hostExch.nonce = clientExch.nonce /\ hostExch.encNonce = clientExch.encNonce
  BY ReadableIsAttached DEF SessionInv, Lockstep, WaitingForTkeyPub, ExchangeAgrees
<1>2. Head(toHost).data = clientExch.tkeyPub /\ toHost' = <<>>
  BY <1>1, ReadFrame DEF TkeyPubFrame, Frame
<1>3. clientExch \in Exchange /\ hostExch \in Exchange
  BY DEF SessionInv, SessionTypes, ClientTypeOK
<1>4. /\ hostExch' \in Exchange /\ hostExch'.nonce = clientExch.nonce
      /\ hostExch'.encNonce = clientExch.encNonce
      /\ hostExch'.tkeyPub = clientExch.tkeyPub
      /\ hostExch'.hostPub = hostExch.hostPub
  BY <1>1, <1>2, <1>3 DEF Exchange
<1>5. SessionTypes'
  <2>1. hostPc' = "tpm"
        /\ UNCHANGED <<hostPos, trust, exitCode, tpm, attached, toTkey, clientVars, typed>>
    OBVIOUS
  <2>2. IsLine(toHost') /\ IsLine(toTkey')
    BY ONLY SessionInv, <1>2, <2>1, EmptyLine, LinesAre
  <2> QED
    BY ONLY SessionInv, <1>4, <2>1, <2>2
       DEF SessionInv, SessionTypes, ClientTypeOK, BootTakes
<1>6. Lockstep'
  BY <1>1, <1>2, <1>4 DEF Lockstep, WaitingForVerdict, HostPubFrame
<1>7. ExchangeAgrees' /\ OneAttempt' /\ FarewellFollows'
  BY <1>1, <1>4 DEF SessionInv, ExchangeAgrees, OneAttempt, FarewellFollows
<1>8. KeyfileFollows'
  BY DEF SessionInv, KeyfileFollows, Derived, BootTakes
<1> QED
  BY <1>5, <1>6, <1>7, <1>8 DEF SessionInv

\* The TPM's verdict, whoever obtained it, goes to the app.
LEMMA VerdictKeeps ==
    ASSUME SessionInv, hostPc \in VerdictPcs, attached, hostPc' = "rdAuth",
           \/ toTkey' = Append(toTkey, Refused)
           \/ tpm.key \in Keys
              /\ \E wf \in BOOLEAN : toTkey' = toTkey \o <<Signed, SigFrame(wf)>>,
           trust' \in BOOLEAN,
           UNCHANGED <<clientVars, attached, toHost, hostExch, hostPos, exitCode, tpm,
                       typed, keyfile>>
    PROVE  SessionInv'
<1>1. /\ toHost = <<>>
      /\ \/ clientPc = "rdPub" /\ toTkey = <<HostPubFrame>>
         \/ clientPc = "rdStatus" /\ toTkey = <<>>
  BY DEF SessionInv, Lockstep, WaitingForVerdict
<1>2. hostExch.nonce = clientExch.nonce /\ hostExch.encNonce = clientExch.encNonce
      /\ hostExch.tkeyPub = clientExch.tkeyPub
  BY DEF SessionInv, ExchangeAgrees
<1>3. VerdictSent' /\ IsLine(toTkey')
  <2>1. CASE toTkey' = Append(toTkey, Refused)
    <3>1. IsLine(toTkey')
      BY ONLY SessionInv, <2>1, LinesAre, LineWrite, FramesAreOK
    <3>2. \/ clientPc = "rdPub" /\ toTkey' = <<HostPubFrame', Refused'>>
          \/ clientPc = "rdStatus" /\ toTkey' = <<Refused'>>
      BY <1>1, <2>1, WriteFirst, WriteSecond DEF HostPubFrame, Refused
    <3> QED
      BY <1>2, <3>1, <3>2 DEF VerdictSent
  <2>2. ASSUME NEW wf \in BOOLEAN, tpm.key \in Keys,
               toTkey' = toTkey \o <<Signed, SigFrame(wf)>>
        PROVE  VerdictSent' /\ IsLine(toTkey')
    <3>1. FrameOK(Signed) /\ FrameOK(SigFrame(wf))
      BY <2>2, FramesAreOK
    <3>2. IsLine(toTkey')
      BY ONLY SessionInv, <2>2, <3>1, LinesAre, ShortLine, LineConcat
    <3>3. \/ clientPc = "rdPub" /\ toTkey' = <<HostPubFrame, Signed, SigFrame(wf)>>
          \/ clientPc = "rdStatus" /\ toTkey' = <<Signed, SigFrame(wf)>>
      <4>1. CASE clientPc = "rdPub" /\ toTkey = <<HostPubFrame>>
        <5>1. <<HostPubFrame>> \o <<Signed, SigFrame(wf)>>
                  = <<HostPubFrame, Signed, SigFrame(wf)>>
          BY ONLY WriteTwoMore
        <5> QED
          BY ONLY <2>2, <4>1, <5>1
      <4>2. CASE clientPc = "rdStatus" /\ toTkey = <<>>
        <5>1. <<>> \o <<Signed, SigFrame(wf)>> = <<Signed, SigFrame(wf)>>
          BY ONLY WriteFirst
        <5> QED
          BY ONLY <2>2, <4>2, <5>1
      <4> QED
        BY ONLY <1>1, <4>1, <4>2
    <3>4. HostPubFrame' = HostPubFrame /\ Signed' = Signed /\ SigFrame(wf)' = SigFrame(wf)
      BY DEF HostPubFrame, Signed, SigFrame
    <3> QED
      BY <1>2, <3>2, <3>3, <3>4 DEF VerdictSent
  <2> QED
    BY <2>1, <2>2
<1>4. SessionTypes'
  BY <1>3 DEF SessionInv, SessionTypes, ClientTypeOK, BootTakes
<1>5. Lockstep'
  BY <1>1, <1>3 DEF Lockstep, WaitingForAuth
<1>6. ExchangeAgrees' /\ OneAttempt' /\ FarewellFollows'
  BY <1>1 DEF SessionInv, ExchangeAgrees, OneAttempt, FarewellFollows
<1>7. KeyfileFollows'
  BY DEF SessionInv, KeyfileFollows, Derived, BootTakes
<1> QED
  BY <1>4, <1>5, <1>6, <1>7 DEF SessionInv

\* The app's verdict on the TKey's and the TPM's exchange, whatever the program
\* makes of it.
LEMMA AuthStatusKeeps ==
    ASSUME SessionInv, hostPc = "rdAuth", toHost # <<>>, toHost' = Tail(toHost),
           \/ hostPc' = "rdReady" /\ UNCHANGED exitCode
           \/ HostExit("failure"),
           trust' \in BOOLEAN,
           UNCHANGED <<clientVars, attached, toTkey, hostExch, hostPos, tpm, typed,
                       keyfile>>
    PROVE  SessionInv'
<1>1. attached /\ Judged
  BY ReadableIsAttached DEF SessionInv, Lockstep, WaitingForAuth
<1>2. IsLine(toHost')
  BY ONLY SessionInv, toHost # <<>>, toHost' = Tail(toHost), LinesAre, LineRead
<1>3. KeyfileFollows'
  BY DEF SessionInv, KeyfileFollows, Derived, BootTakes, HostExit
<1>4. CASE HostExit("failure")
  BY <1>1, <1>2, <1>3, <1>4, LeavingKeeps DEF SessionInv, SessionTypes
<1>5. CASE hostPc' = "rdReady" /\ UNCHANGED exitCode
  <2>1. SessionTypes'
    BY <1>2, <1>5 DEF SessionInv, SessionTypes, ClientTypeOK, BootTakes
  <2>2. WaitingForReady'
    BY <1>1, ReadFrame DEF Judged, WaitingForReady, Ready
  <2>3. Lockstep'
    BY <1>1, <1>5, <2>2 DEF Lockstep
  <2>4. ExchangeAgrees' /\ OneAttempt' /\ FarewellFollows'
    BY <1>5 DEF SessionInv, ExchangeAgrees, OneAttempt, FarewellFollows
  <2> QED
    BY <1>3, <2>1, <2>3, <2>4 DEF SessionInv
<1> QED
  BY <1>4, <1>5

\* HostAuthStatus is such a step.
LEMMA HostAuthStatusKeeps ==
    SessionInv /\ HostAuthStatus /\ UNCHANGED <<clientVars, passVars>> => SessionInv'
<1> SUFFICES ASSUME SessionInv, HostAuthStatus, UNCHANGED <<clientVars, passVars>>
             PROVE  SessionInv'
  OBVIOUS
<1> USE DEF HostAuthStatus, Readable, TrustAfterFailure
<1>1. trust' \in BOOLEAN
  BY DEF SessionInv, SessionTypes
<1> QED
  BY <1>1, AuthStatusKeeps

\* HostLoads' sisters, that end the program before the app has answered.
LEMMA HostGivesUpKeeps ==
    SessionInv /\ (HostLoadFails \/ HostIoError) /\ UNCHANGED <<clientVars, passVars>>
        => SessionInv'
<1> SUFFICES ASSUME SessionInv, HostLoadFails \/ HostIoError,
                    UNCHANGED <<clientVars, passVars>>
             PROVE  SessionInv'
  OBVIOUS
<1>1. hostPc # "exit"
  BY DEF HostLoadFails, HostIoError, IoErrorPoints, HostReads
<1> QED
  BY <1>1, GivingUpKeeps DEF HostLoadFails, HostIoError

\* The app is ready, with its first attempt begun.
LEMMA AwaitsReadyKeeps ==
    SessionInv /\ AwaitsReady /\ UNCHANGED clientVars => SessionInv'
<1> SUFFICES ASSUME SessionInv, AwaitsReady, UNCHANGED clientVars PROVE SessionInv'
  OBVIOUS
<1> USE DEF AwaitsReady, Readable
<1>1. /\ attached /\ clientPc = "rdHash" /\ toHost = <<Ready>> /\ toHost # <<>>
      /\ toTkey = <<>>
  BY ReadableIsAttached DEF SessionInv, Lockstep, WaitingForReady
<1>2. toHost' = <<>> /\ hostPc' = "askNew" /\ UNCHANGED exitCode
  BY <1>1, ReadFrame, HostDecodes
<1>3. SessionTypes'
  <2>1. IsLine(toHost')
    BY <1>2, EmptyLine
  <2> QED
    BY <1>2, <2>1 DEF SessionInv, SessionTypes, ClientTypeOK, BootTakes
<1>4. Lockstep'
  BY <1>1, <1>2 DEF Lockstep, Asking
<1>5. ExchangeAgrees' /\ OneAttempt' /\ FarewellFollows'
  BY <1>1, <1>2 DEF SessionInv, ExchangeAgrees, OneAttempt, FarewellFollows
<1>6. KeyfileFollows'
  BY <1>2 DEF SessionInv, KeyfileFollows, Derived, BootTakes
<1> QED
  BY <1>3, <1>4, <1>5, <1>6 DEF SessionInv

\* The hash of the new passphrase takes the first block of the key stream.
LEMMA SendsNewHashKeeps ==
    ASSUME NEW lengths, lengths \subseteq Nat \ (0 .. 7),
           SessionInv, SendsNewHash(lengths), UNCHANGED clientVars
    PROVE  SessionInv'
<1> USE DEF SendsNewHash
<1>1. /\ attached /\ clientPc = "rdHash" /\ toHost = <<>> /\ toTkey = <<>>
      /\ attempts = 1 /\ hostPos = 0
  BY DEF SessionInv, Lockstep, Asking, OneAttempt, KeyfileFollows
<1>2. PICK p \in Pass :
         /\ PassLen[p] \in lengths /\ typed' = p
         /\ toTkey' = Append(toTkey, Frame("cipher",
                         Encrypt(StreamKey(hostExch), 0, Argon2(p))))
  BY <1>1
<1>3. p \in Pass /\ PassLen[p] \in Nat /\ BootTakes(p)
  BY <1>2, ProtocolAssumption DEF BootTakes
<1>4. toTkey' = <<HashFrame'>>
  BY <1>1, <1>2, WriteFirst DEF HashFrame
<1>5. hostPos' = 1 /\ hostPc' = "rdPass"
  BY <1>1
<1>6. SessionTypes'
  <2>1. FrameOK(Frame("cipher", Encrypt(StreamKey(hostExch), 0, Argon2(p))))
    BY FramesAreOK
  <2>2. IsLine(toTkey')
    BY ONLY SessionInv, <1>2, <2>1, LinesAre, LineWrite
  <2>3. UNCHANGED <<clientVars, attached, toHost, exitCode, hostExch, trust, tpm>>
    OBVIOUS
  <2>4. typed' \in {q \in Pass : BootTakes(q)}
    BY <1>2, <1>3
  <2> QED
    BY ONLY SessionInv, <1>5, <2>2, <2>3, <2>4
       DEF SessionInv, SessionTypes, ClientTypeOK, BootTakes
<1>7. Lockstep'
  BY <1>1, <1>4, <1>5 DEF Lockstep, WaitingForPass
<1>8. ExchangeAgrees' /\ OneAttempt' /\ FarewellFollows'
  BY <1>1, <1>5 DEF SessionInv, ExchangeAgrees, OneAttempt, FarewellFollows
<1>9. KeyfileFollows'
  BY <1>2, <1>3, <1>5 DEF KeyfileFollows, BootTakes
<1> QED
  BY <1>6, <1>7, <1>8, <1>9 DEF SessionInv

\* GoodPass lets the program go on to the keyfile, anything else ends it.
LEMMA NewPassStatusKeeps ==
    ASSUME NEW next \in KeyfilePcs,
           SessionInv, NewPassStatus(next), UNCHANGED clientVars
    PROVE  SessionInv'
<1> USE DEF NewPassStatus, Readable
<1>1. attached /\ toHost # <<>> /\ toHost' = Tail(toHost) /\ hostPos = 1
      /\ WaitingForPass
  BY ReadableIsAttached DEF SessionInv, Lockstep, KeyfileFollows
<1>2. IsLine(toHost')
  BY ONLY SessionInv, <1>1, LinesAre, LineRead
<1>3. KeyfileFollows'
  BY <1>1 DEF SessionInv, KeyfileFollows, Derived, BootTakes, HostExit
<1>4. CASE HostExit("failure")
  BY <1>1, <1>2, <1>3, <1>4, LeavingKeeps DEF SessionInv, SessionTypes
<1>5. CASE /\ ClientMessageTryFrom(Head(toHost).data) = "GoodPass"
           /\ hostPc' = next /\ UNCHANGED exitCode
  <2>1. At("rdSuccess", <<GoodPass, KeyfileFrame>>, <<>>)
    BY <1>1, <1>5, ReadFrame, HostDecodes DEF WaitingForPass
  <2>2. toHost' = <<KeyfileFrame>> /\ KeyfileFrame' = KeyfileFrame
    BY <1>1, <2>1, ReadFrame DEF KeyfileFrame, Derived
  <2>3. SessionTypes'
    BY <1>2, <1>5 DEF SessionInv, SessionTypes, ClientTypeOK, BootTakes
  <2>4. Lockstep'
    BY <1>1, <1>5, <2>1, <2>2 DEF Lockstep, WaitingForKeyfile
  <2>5. ExchangeAgrees' /\ OneAttempt' /\ FarewellFollows'
    BY <1>5, <2>1 DEF SessionInv, ExchangeAgrees, OneAttempt, FarewellFollows
  <2> QED
    BY <1>3, <2>3, <2>4, <2>5 DEF SessionInv
<1> QED
  BY <1>4, <1>5

\* The frame that the program decrypts is the keyfile the app derived.
LEMMA KeyfileIsDerived ==
    ASSUME SessionInv, hostPc \in KeyfilePcs, TakesKeyfile
    PROVE  /\ attached /\ toHost # <<>> /\ hostPos = 1 /\ hostPos' = 2
           /\ At("rdSuccess", <<KeyfileFrame>>, <<>>)
           /\ toHost' = <<>> /\ keyfile' = Derived
<1> USE DEF TakesKeyfile, Readable
<1>1. attached /\ toHost # <<>> /\ hostPos = 1 /\ At("rdSuccess", <<KeyfileFrame>>, <<>>)
  BY ReadableIsAttached
     DEF SessionInv, Lockstep, KeyfileFollows, WaitingForKeyfile, WaitingForReport
<1>2. toHost' = <<>> /\ Head(toHost) = KeyfileFrame
  BY <1>1, ReadFrame
<1>3. hostExch = clientExch
  BY <1>1 DEF SessionInv, ExchangeAgrees
<1>4. keyfile' = Derived
  BY <1>1, <1>2, <1>3 DEF KeyfileFrame, Frame, Decrypt, Encrypt, KeyfilePos
<1> QED
  BY <1>1, <1>2, <1>4

\* The keyfile takes the second block, on both sides.
LEMMA TakesKeyfileKeeps ==
    ASSUME SessionInv, hostPc \in KeyfilePcs, TakesKeyfile,
           \/ hostPc' \in KeyfilePcs /\ UNCHANGED exitCode
           \/ HostExit("failure"),
           UNCHANGED <<clientVars, attached, toTkey, authVars, tpm, typed>>
    PROVE  SessionInv'
<1>1. /\ attached /\ hostPos' = 2 /\ At("rdSuccess", <<KeyfileFrame>>, <<>>)
      /\ toHost' = <<>> /\ keyfile' = Derived /\ Derived' = Derived
  BY KeyfileIsDerived DEF Derived
<1>2. IsLine(toHost')
  BY <1>1, EmptyLine
<1>3. KeyfileFollows'
  BY <1>1 DEF SessionInv, KeyfileFollows, BootTakes, HostExit
<1>4. CASE HostExit("failure")
  BY <1>1, <1>2, <1>3, <1>4, LeavingKeeps DEF SessionInv, SessionTypes
<1>5. CASE hostPc' \in KeyfilePcs /\ UNCHANGED exitCode
  <2>1. SessionTypes'
    BY <1>1, <1>2, <1>5 DEF SessionInv, SessionTypes, ClientTypeOK, BootTakes
  <2>2. Lockstep'
    BY <1>1, <1>5 DEF Lockstep, WaitingForReport
  <2>3. ExchangeAgrees' /\ OneAttempt' /\ FarewellFollows'
    BY <1>1, <1>5 DEF SessionInv, ExchangeAgrees, OneAttempt, FarewellFollows
  <2> QED
    BY <1>3, <2>1, <2>2, <2>3 DEF SessionInv
<1> QED
  BY <1>4, <1>5

\* The last word of the program, which the app finds on its line.
LEMMA ReportKeeps ==
    ASSUME SessionInv, hostPc \in KeyfilePcs, hostPos = 2, attached,
           \/ toTkey' = Append(toTkey, DiskOpened) /\ HostExit("success")
           \/ toTkey' = Append(toTkey, TryAgain) /\ HostExit("failure"),
           UNCHANGED <<clientVars, attached, toHost, authVars, hostPos, tpm, typed,
                       keyfile>>
    PROVE  SessionInv'
<1> USE DEF HostExit
<1>1. At("rdSuccess", <<>>, <<>>)
  BY DEF SessionInv, Lockstep, WaitingForReport, KeyfileFollows
<1>2. \/ toTkey' = <<DiskOpened'>> /\ exitCode' = "success"
      \/ toTkey' = <<TryAgain'>>
  BY <1>1, WriteFirst DEF DiskOpened, TryAgain
<1>3. SessionTypes'
  <2>1. IsLine(toTkey')
    BY ONLY SessionInv, LinesAre, LineWrite, FramesAreOK,
       \/ toTkey' = Append(toTkey, DiskOpened)
       \/ toTkey' = Append(toTkey, TryAgain)
  <2> QED
    BY <2>1 DEF SessionInv, SessionTypes, ClientTypeOK, BootTakes
<1>4. Lockstep'
  BY <1>1, <1>2 DEF Lockstep, LeftBehind
<1>5. ExchangeAgrees' /\ OneAttempt' /\ FarewellFollows'
  BY <1>1 DEF SessionInv, ExchangeAgrees, OneAttempt, FarewellFollows
<1>6. KeyfileFollows'
  BY DEF SessionInv, KeyfileFollows, Derived, BootTakes
<1> QED
  BY <1>3, <1>4, <1>5, <1>6 DEF SessionInv

-----------------------------------------------------------------------------
(* What the invariant says of the session. *)

\* Every read finds the frame it is made for.
LEMMA SessionIsFramed == SessionInv => FramingInSync
<1> SUFFICES ASSUME SessionInv PROVE FramingInSync
  OBVIOUS
<1> USE DEF HostReads, ClientReads
<1>1. ASSUME hostPc \in DOMAIN HostReads, toHost # <<>>
      PROVE  Head(toHost).kind = HostReads[hostPc]
  <2>1. attached
    BY <1>1, ReadableIsAttached
  <2>2. CASE hostPc \in {"rdNonce", "rdEncNonce", "rdTkeyPub"}
    BY <1>1, <2>1, <2>2, ReadFrame
       DEF SessionInv, Lockstep, WaitingForNonce, WaitingForEncNonce,
           WaitingForTkeyPub, NonceFrame, EncNonceFrame, TkeyPubFrame, Frame
  <2>3. CASE hostPc = "rdAuth"
    <3>1. Judged
      BY <1>1, <2>1, <2>3 DEF SessionInv, Lockstep, WaitingForAuth
    <3>2. Head(toHost) \in {GoodSig, InvalidSig, MalformedSig}
      BY <3>1, ReadFrame DEF Judged
    <3> QED
      BY <2>3, <3>2 DEF GoodSig, InvalidSig, MalformedSig, Status, Frame
  <2>4. CASE hostPc \in {"rdReady", "rdPass"}
    <3>1. Head(toHost) \in {Ready, GoodPass, Blake2Failed}
      BY <1>1, <2>1, <2>4, ReadFrame
         DEF SessionInv, Lockstep, WaitingForReady, WaitingForPass
    <3> QED
      BY <2>4, <3>1 DEF Ready, GoodPass, Blake2Failed, Status, Frame
  <2>5. CASE hostPc = "rdKeyfile"
    BY <1>1, <2>1, <2>5, ReadFrame
       DEF SessionInv, Lockstep, KeyfileFollows, WaitingForKeyfile, WaitingForReport,
           KeyfileFrame, Frame
  <2> QED
    BY <1>1, <2>2, <2>3, <2>4, <2>5
<1>2. ASSUME clientPc \in DOMAIN ClientReads, toTkey # <<>>
      PROVE  Head(toTkey).kind = ClientReads[clientPc]
  <2>1. attached /\ clientPc \in {"rdPub", "rdStatus", "rdSig", "rdHash", "rdSuccess"}
    BY <1>2, SeenFromClient DEF SessionInv
  <2>2. CASE clientPc = "rdPub"
    <3>1. toTkey = <<HostPubFrame>> \/ VerdictSent
      BY <1>2, <2>1, <2>2, SeenFromClient
         DEF SessionInv, Lockstep, WaitingForTkeyPub, WaitingForVerdict
    <3>2. Head(toTkey) = HostPubFrame
      BY <2>2, <3>1, ReadFrame DEF VerdictSent
    <3> QED
      BY <2>2, <3>2 DEF HostPubFrame, Frame
  <2>3. CASE clientPc = "rdStatus"
    <3>1. VerdictSent
      BY <1>2, <2>3, SeenFromClient DEF SessionInv
    <3>2. Head(toTkey) \in {Signed, Refused}
      BY <2>3, <3>1, ReadFrame DEF VerdictSent
    <3> QED
      BY <2>3, <3>2 DEF Signed, Refused, Status, Frame
  <2>4. CASE clientPc = "rdSig"
    <3>1. VerdictSent
      BY <2>4, SeenFromClient DEF SessionInv
    <3>2. \E wf \in BOOLEAN : Head(toTkey) = SigFrame(wf)
      BY <2>4, <3>1, ReadFrame DEF VerdictSent
    <3> QED
      BY <2>4, <3>2 DEF SigFrame, Frame
  <2>5. CASE clientPc = "rdHash"
    <3>1. Head(toTkey) = HashFrame
      BY <1>2, <2>5, SeenFromClient, ReadFrame DEF SessionInv
    <3> QED
      BY <2>5, <3>1 DEF HashFrame, Frame
  <2>6. CASE clientPc = "rdSuccess"
    <3>1. Head(toTkey) \in {TryAgain, DiskOpened}
      BY <1>2, <2>6, SeenFromClient, ReadFrame DEF SessionInv
    <3> QED
      BY <2>6, <3>1 DEF TryAgain, DiskOpened, Status, Frame
  <2> QED
    BY <2>1, <2>2, <2>3, <2>4, <2>5, <2>6
<1> QED
  BY <1>1, <1>2 DEF FramingInSync

\* Wherever both sides read, one of them has something to read, provided that the
\* program reads no second keyfile.
LEMMA SessionGoesOn ==
    SessionInv /\ (hostPc = "rdKeyfile" => hostPos = 1) => NoMutualWait
<1> SUFFICES ASSUME SessionInv, hostPc = "rdKeyfile" => hostPos = 1,
                    attached, hostPc \in DOMAIN HostReads,
                    clientPc \in DOMAIN ClientReads
             PROVE  toHost # <<>> \/ toTkey # <<>>
  BY DEF NoMutualWait
<1> USE DEF HostReads, ClientReads
<1>1. CASE hostPc \in {"rdNonce", "rdEncNonce", "rdTkeyPub"}
  BY <1>1, ReadFrame DEF SessionInv, Lockstep, WaitingForNonce, WaitingForEncNonce,
     WaitingForTkeyPub
<1>2. CASE hostPc = "rdAuth"
  BY <1>2, ReadFrame DEF SessionInv, Lockstep, WaitingForAuth, VerdictSent, Judged
<1>3. CASE hostPc \in {"rdReady", "rdPass"}
  BY <1>3, ReadFrame DEF SessionInv, Lockstep, WaitingForReady, WaitingForPass
<1>4. CASE hostPc = "rdKeyfile"
  BY <1>4, ReadFrame DEF SessionInv, Lockstep, WaitingForKeyfile
<1> QED
  BY <1>1, <1>2, <1>3, <1>4

=============================================================================
