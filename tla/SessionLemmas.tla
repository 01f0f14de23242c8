---------------------------- MODULE SessionLemmas ----------------------------
(***************************************************************************)
(* What reading from and writing to a line does, for the lines that occur, *)
(* and what a status byte means to its reader: for the proofs about every  *)
(* program that talks to the app.                                          *)
(***************************************************************************)
EXTENDS SessionInvariant, SequenceTheorems, TLAPS

(* Lines of a few frames. *)

\* Reading takes the first frame and leaves the rest.
LEMMA ReadFrame ==
    /\ \A a : <<a>> # <<>> /\ Head(<<a>>) = a /\ Tail(<<a>>) = <<>>
    /\ \A a, b : <<a, b>> # <<>> /\ Head(<<a, b>>) = a /\ Tail(<<a, b>>) = <<b>>
    /\ \A a, b, c : /\ <<a, b, c>> # <<>>
                    /\ Head(<<a, b, c>>) = a
                    /\ Tail(<<a, b, c>>) = <<b, c>>
  OBVIOUS

\* Writing to an empty line.
LEMMA WriteFirst ==
    /\ \A a : Append(<<>>, a) = <<a>>
    /\ \A a, b : <<>> \o <<a, b>> = <<a, b>>
    /\ \A a, b, c : <<>> \o <<a, b, c>> = <<a, b, c>>
  OBVIOUS

\* Writing one more frame behind another.
LEMMA WriteSecond == \A a, b : Append(<<a>>, b) = <<a, b>>
<1> SUFFICES ASSUME NEW a, NEW b PROVE Append(<<a>>, b) = <<a, b>>
  OBVIOUS
<1> DEFINE S == {a, b}
<1>1. <<a>> \in Seq(S) /\ <<a, b>> \in Seq(S) /\ b \in S
  OBVIOUS
<1>2. Len(<<a>>) = 1 /\ Len(<<a, b>>) = 2
  OBVIOUS
<1>3. Append(<<a>>, b) \in Seq(S) /\ Len(Append(<<a>>, b)) = 2
  BY <1>1, <1>2
<1>4. \A i \in 1 .. 2 : Append(<<a>>, b)[i] = <<a, b>>[i]
  BY <1>1, <1>2, AppendProperties
<1> HIDE DEF S
<1> QED
  BY <1>1, <1>2, <1>3, <1>4, SeqEqual

\* Writing two more frames behind another.
LEMMA WriteTwoMore == \A a, b, c : <<a>> \o <<b, c>> = <<a, b, c>>
<1> SUFFICES ASSUME NEW a, NEW b, NEW c PROVE <<a>> \o <<b, c>> = <<a, b, c>>
  OBVIOUS
<1> DEFINE S == {a, b, c}
<1>1. <<a>> \in Seq(S) /\ <<b, c>> \in Seq(S) /\ <<a, b, c>> \in Seq(S)
  OBVIOUS
<1>2. Len(<<a>>) = 1 /\ Len(<<b, c>>) = 2 /\ Len(<<a, b, c>>) = 3
  OBVIOUS
<1>3. <<a>> \o <<b, c>> \in Seq(S) /\ Len(<<a>> \o <<b, c>>) = 3
  BY <1>1, <1>2
<1>4. \A i \in 1 .. 3 : (<<a>> \o <<b, c>>)[i] = <<a, b, c>>[i]
  BY <1>1, <1>2, ConcatProperties
<1> HIDE DEF S
<1> QED
  BY <1>1, <1>2, <1>3, <1>4, SeqEqual

\* The status bytes the app writes decode, on the host, to what it meant.
LEMMA HostDecodes ==
    /\ ClientMessageTryFrom(GoodSig.data) = "GoodSig"
    /\ ClientMessageTryFrom(InvalidSig.data) = "InvalidSig"
    /\ ClientMessageTryFrom(MalformedSig.data) = "MalformedSig"
    /\ ClientMessageTryFrom(Ready.data) = "Ready4pass"
    /\ ClientMessageTryFrom(GoodPass.data) = "GoodPass"
    /\ ClientMessageTryFrom(Blake2Failed.data) = "Blake2"
  BY DEF ClientMessageTryFrom, GoodSig, InvalidSig, MalformedSig, Ready,
         GoodPass, Blake2Failed, Status, Frame, ClientByte

\* And the reverse.
LEMMA ClientDecodes ==
    /\ Signed.data = HostByteAtClient.TpmSigned
    /\ Refused.data # HostByteAtClient.TpmSigned
    /\ IsSuccess(DiskOpened.data)
    /\ ~IsSuccess(TryAgain.data)
  BY DEF Signed, Refused, DiskOpened, TryAgain, Status, Frame, HostByte,
         HostByteAtClient, IsSuccess

=============================================================================
