-------------------------- MODULE AppLoaderProofs --------------------------
(***************************************************************************)
(* The safety properties of AppLoader hold for binaries of every length,   *)
(* every poll limit and every size of the tty buffer. The invariant ties   *)
(* the host's place in load_app and the firmware's state to positions in   *)
(* the stream of replies: reply number k ends at byte 5 * k, and the one   *)
(* with the digest begins at 5 * Total.                                    *)
(***************************************************************************)
EXTENDS AppLoader, TLAPS

\* Where the host is in its loop, and what it has read and hashed by then.
HostProgress ==
    /\ hostAt = "header" => written = 0 /\ taken = 0 /\ hashed = 0
    /\ hostAt = "rdReply" => written = 1 /\ taken = 0 /\ hashed = 0
    /\ hostAt = "chunk" =>
          /\ len > 0 /\ written \in 1 .. Total
          /\ taken = 5 /\ hashed = 127 * (written - 1)
    /\ hostAt \in {"poll", "rdDigest"} =>
          len > 0 /\ written = Total + 1 /\ hashed = len
    /\ hostAt = "poll" => taken = 5
    /\ hostAt = "rdDigest" => taken = 5 * Total

\* Where the firmware is in the binary, and what it has answered by then.
FirmwareProgress ==
    /\ accepted <= written
    /\ tkey = "firmware" =>
          /\ sent = 5 * accepted
          /\ accepted = 0 \/ FwRefuses
    /\ tkey = "loading" =>
          /\ accepted \in 1 .. Total /\ sent = 5 * accepted
          /\ left = len - 127 * (accepted - 1) /\ left > 0
          /\ fwHashed = 127 * (accepted - 1)
    /\ tkey = "newApp" =>
          /\ readyAt = 5 * Total /\ sent >= readyAt + 129
          /\ left = 0 /\ fwHashed = len
    /\ tkey # "newApp" => readyAt = 0
    /\ tkey = "firmware" => fwHashed = 0

\* Past the reply to the header, the firmware is not waiting for a header.
HeaderAccepted ==
    hostAt \in {"chunk", "poll", "rdDigest"} => tkey # "firmware"

LoaderInv ==
    /\ LoaderTypeOK
    /\ taken <= sent
    /\ HostProgress
    /\ FirmwareProgress
    /\ HeaderAccepted
    /\ OkMeansLoaded
    /\ OkLeavesOnlyHello
    /\ ErrorHasACause

-----------------------------------------------------------------------------
\* div_ceil: Total frames are enough for the binary, and none is empty.
LEMMA TotalBounds ==
    ASSUME len \in Nat
    PROVE  /\ Total \in Nat
           /\ len <= 127 * Total
           /\ len > 0 => Total > 0 /\ 127 * (Total - 1) < len
           /\ len = 0 => Total = 0
<1>1. Total = (len + 126) \div 127
  BY DEF Total, ChunkSize
<1>2. \A n \in Nat :
         LET t == (n + 126) \div 127
         IN  t \in Nat /\ n <= 127 * t /\ 127 * t <= n + 126
  BY SMT
<1>3. QED
  BY <1>1, <1>2

-----------------------------------------------------------------------------
(* LoaderInv is inductive: one lemma per action. *)

USE DEF hostVars, tkeyVars, TkeyStates, ChunkSize, ReplySize, HelloSize,
        DigestReplySize, DigestReplyRead

\* Before the first frame nothing has been written, read or hashed.
LEMMA LoaderStarts ==
    ASSUME Init, LoaderAssumption PROVE LoaderInv
<1> USE DEF Init
<1>1. LoaderTypeOK
  <2>1. attached \in BOOLEAN /\ damaged \in BOOLEAN
    OBVIOUS
  <2>2. passes \in 0 .. PollLimit /\ num \in 0 .. TtyBuffer
    BY DEF LoaderAssumption
  <2>3. QED
    BY <2>1, <2>2 DEF LoaderTypeOK
<1>2. taken <= sent /\ HostProgress /\ FirmwareProgress /\ HeaderAccepted
  BY DEF HostProgress, FirmwareProgress, HeaderAccepted
<1>3. OkMeansLoaded /\ OkLeavesOnlyHello /\ ErrorHasACause
  BY DEF OkMeansLoaded, OkLeavesOnlyHello, ErrorHasACause
<1>4. QED
  BY <1>1, <1>2, <1>3 DEF LoaderInv

\* The header is the first frame; the reply to it is still to come.
LEMMA HostSendHeaderPreserves ==
    ASSUME LoaderInv, HostSendHeader, LoaderAssumption PROVE LoaderInv'
<1> USE DEF LoaderInv, HostSendHeader
<1>1. /\ len \in Nat /\ len' = len
      /\ Total' = Total /\ Expected' = Expected /\ FwRefuses' = FwRefuses
  BY DEF Total, Expected, FwRefuses, LoaderTypeOK
<1>2. LoaderTypeOK'
  BY DEF LoaderTypeOK
<1>3. (taken <= sent)'
  OBVIOUS
<1>4. HostProgress'
  BY DEF HostProgress
<1>5. FirmwareProgress'
  BY <1>1 DEF LoaderTypeOK, HostProgress, FirmwareProgress
<1>6. HeaderAccepted'
  BY DEF HeaderAccepted
<1>7. OkMeansLoaded'
  BY DEF OkMeansLoaded
<1>8. OkLeavesOnlyHello'
  BY DEF OkLeavesOnlyHello
<1>9. ErrorHasACause'
  BY DEF ErrorHasACause
<1>10. QED
  BY <1>2, <1>3, <1>4, <1>5, <1>6, <1>7, <1>8, <1>9

\* A firmware that has answered has read the header: past its reply it is
\* loading, or it has refused and the host is through.
LEMMA HostReadReplyPreserves ==
    ASSUME LoaderInv, HostReadReply, LoaderAssumption PROVE LoaderInv'
<1> USE DEF LoaderInv, HostReadReply
<1>1. /\ len \in Nat /\ len' = len
      /\ Total' = Total /\ Expected' = Expected /\ FwRefuses' = FwRefuses
  BY DEF Total, Expected, FwRefuses, LoaderTypeOK
<1>2. /\ Total \in Nat /\ len <= 127 * Total
      /\ len > 0 => Total > 0 /\ 127 * (Total - 1) < len
      /\ len = 0 => Total = 0
  BY <1>1, TotalBounds
<1>3. LoaderTypeOK'
  BY DEF LoaderTypeOK, ReplyMayBe
<1>4. (taken <= sent)'
  BY DEF LoaderTypeOK, Pending
<1>5. HostProgress'
  BY <1>1, <1>2 DEF HostProgress, ReplyMayBe
<1>6. FirmwareProgress'
  BY <1>1 DEF FirmwareProgress
<1>7. HeaderAccepted'
  BY DEF HostProgress, FirmwareProgress, HeaderAccepted, Pending, ReplyMayBe,
     InAppMode
<1>8. OkMeansLoaded'
  BY DEF OkMeansLoaded, ReplyMayBe, FwRefuses, InAppMode
<1>9. OkLeavesOnlyHello'
  BY DEF OkLeavesOnlyHello, ReplyMayBe, FwRefuses, InAppMode
<1>10. ErrorHasACause'
  BY <1>1 DEF ErrorHasACause, ReplyMayBe, InAppMode
<1>11. QED
  BY <1>3, <1>4, <1>5, <1>6, <1>7, <1>8, <1>9, <1>10

\* The loop sends chunk number written - 1 and leaves for the poll with the
\* last one, when all len bytes have been hashed; it never runs past it.
LEMMA HostSendChunkPreserves ==
    ASSUME LoaderInv, HostSendChunk, LoaderAssumption PROVE LoaderInv'
<1> USE DEF LoaderInv, HostSendChunk
<1>1. /\ len \in Nat /\ len' = len
      /\ Total' = Total /\ Expected' = Expected /\ FwRefuses' = FwRefuses
  BY DEF Total, Expected, FwRefuses, LoaderTypeOK
<1>2. /\ Total \in Nat /\ len <= 127 * Total
      /\ len > 0 => Total > 0 /\ 127 * (Total - 1) < len
      /\ len = 0 => Total = 0
  BY <1>1, TotalBounds
<1>3. LoaderTypeOK'
  BY DEF LoaderTypeOK, HostProgress, ChunkBytes, Least
<1>4. (taken <= sent)'
  OBVIOUS
<1>5. HostProgress'
  BY <1>1, <1>2 DEF HostProgress, ChunkBytes, Least
<1>6. FirmwareProgress'
  BY <1>1 DEF LoaderTypeOK, FirmwareProgress
<1>7. HeaderAccepted'
  BY DEF HeaderAccepted
<1>8. OkMeansLoaded'
  BY <1>1, <1>2 DEF HostProgress, FirmwareProgress, OkMeansLoaded
<1>9. OkLeavesOnlyHello'
  BY <1>1, <1>2 DEF HostProgress, FirmwareProgress, OkLeavesOnlyHello
<1>10. ErrorHasACause'
  BY DEF ErrorHasACause
<1>11. QED
  BY <1>3, <1>4, <1>5, <1>6, <1>7, <1>8, <1>9, <1>10

\* A pass of the poll changes what the host has seen, not what it has read.
LEMMA HostPollPreserves ==
    ASSUME LoaderInv, HostPoll, LoaderAssumption PROVE LoaderInv'
<1> USE DEF LoaderInv, HostPoll
<1>1. /\ len \in Nat /\ len' = len
      /\ Total' = Total /\ Expected' = Expected /\ FwRefuses' = FwRefuses
  BY DEF Total, Expected, FwRefuses, LoaderTypeOK
<1>2. LoaderTypeOK'
  BY DEF LoaderTypeOK, MayPoll, Pending, Least
<1>3. (taken <= sent)'
  OBVIOUS
<1>4. HostProgress'
  BY <1>1 DEF HostProgress
<1>5. FirmwareProgress'
  BY <1>1 DEF FirmwareProgress
<1>6. HeaderAccepted'
  BY DEF HeaderAccepted
<1>7. OkMeansLoaded'
  BY DEF OkMeansLoaded
<1>8. OkLeavesOnlyHello'
  BY DEF OkLeavesOnlyHello
<1>9. ErrorHasACause'
  BY DEF ErrorHasACause
<1>10. QED
  BY <1>2, <1>3, <1>4, <1>5, <1>6, <1>7, <1>8, <1>9

\* The poll ends in an error only with all its passes used up.
LEMMA HostPollGivesUpPreserves ==
    ASSUME LoaderInv, HostPollGivesUp, LoaderAssumption PROVE LoaderInv'
<1> USE DEF LoaderInv, HostPollGivesUp
<1>1. /\ len \in Nat /\ len' = len
      /\ Total' = Total /\ Expected' = Expected /\ FwRefuses' = FwRefuses
  BY DEF Total, Expected, FwRefuses, LoaderTypeOK
<1>2. LoaderTypeOK'
  BY DEF LoaderTypeOK
<1>3. (taken <= sent)'
  OBVIOUS
<1>4. HostProgress'
  BY DEF HostProgress
<1>5. FirmwareProgress'
  BY <1>1 DEF FirmwareProgress
<1>6. HeaderAccepted'
  BY DEF HeaderAccepted
<1>7. OkMeansLoaded'
  BY DEF OkMeansLoaded
<1>8. OkLeavesOnlyHello'
  BY DEF OkLeavesOnlyHello
<1>9. ErrorHasACause'
  BY <1>1 DEF LoaderTypeOK, ErrorHasACause, MayPoll
<1>10. QED
  BY <1>2, <1>3, <1>4, <1>5, <1>6, <1>7, <1>8, <1>9

\* The replies to header and all chunks but the last are 5 * Total bytes: the
\* digest is next.
LEMMA HostReadRepliesPreserves ==
    ASSUME LoaderInv, HostReadReplies, LoaderAssumption PROVE LoaderInv'
<1> USE DEF LoaderInv, HostReadReplies
<1>1. /\ len \in Nat /\ len' = len
      /\ Total' = Total /\ Expected' = Expected /\ FwRefuses' = FwRefuses
  BY DEF Total, Expected, FwRefuses, LoaderTypeOK
<1>2. /\ Total \in Nat /\ len <= 127 * Total
      /\ len > 0 => Total > 0 /\ 127 * (Total - 1) < len
      /\ len = 0 => Total = 0
  BY <1>1, TotalBounds
<1>3. LoaderTypeOK'
  BY <1>2 DEF LoaderTypeOK, HostProgress, Expected
<1>4. (taken <= sent)'
  BY <1>2 DEF LoaderTypeOK, Pending, Expected
<1>5. HostProgress'
  BY <1>1, <1>2 DEF HostProgress, Expected
<1>6. FirmwareProgress'
  BY <1>1 DEF FirmwareProgress
<1>7. HeaderAccepted'
  BY DEF HeaderAccepted
<1>8. OkMeansLoaded'
  BY DEF OkMeansLoaded
<1>9. OkLeavesOnlyHello'
  BY DEF OkLeavesOnlyHello
<1>10. ErrorHasACause'
  BY DEF ErrorHasACause
<1>11. QED
  BY <1>3, <1>4, <1>5, <1>6, <1>7, <1>8, <1>9, <1>10

\* The digest is at byte 5 * Total, and matches unless a byte was damaged.
LEMMA HostReadDigestPreserves ==
    ASSUME LoaderInv, HostReadDigest, LoaderAssumption PROVE LoaderInv'
<1> USE DEF LoaderInv, HostReadDigest
<1>1. /\ len \in Nat /\ len' = len
      /\ Total' = Total /\ Expected' = Expected /\ FwRefuses' = FwRefuses
  BY DEF Total, Expected, FwRefuses, LoaderTypeOK
<1>2. /\ Total \in Nat /\ len <= 127 * Total
      /\ len > 0 => Total > 0 /\ 127 * (Total - 1) < len
      /\ len = 0 => Total = 0
  BY <1>1, TotalBounds
<1>3. LoaderTypeOK'
  BY DEF LoaderTypeOK
<1>4. (taken <= sent)'
  BY DEF LoaderTypeOK, Pending
<1>5. HostProgress'
  BY DEF HostProgress
<1>6. FirmwareProgress'
  BY <1>1 DEF FirmwareProgress
<1>7. HeaderAccepted'
  BY DEF HeaderAccepted
<1>8. OkMeansLoaded'
  BY <1>2 DEF HostProgress, FirmwareProgress, OkMeansLoaded, DigestMatches
<1>9. OkLeavesOnlyHello'
  BY DEF OkLeavesOnlyHello, DigestMatches
<1>10. ErrorHasACause'
  BY <1>2 DEF LoaderTypeOK, HostProgress, FirmwareProgress, ErrorHasACause,
     Pending, DigestMatches, InAppMode, BytesLost
<1>11. QED
  BY <1>3, <1>4, <1>5, <1>6, <1>7, <1>8, <1>9, <1>10

\* An error after an unplug has its cause.
LEMMA HostIoErrorPreserves ==
    ASSUME LoaderInv, HostIoError, LoaderAssumption PROVE LoaderInv'
<1> USE DEF LoaderInv, HostIoError
<1>1. /\ len \in Nat /\ len' = len
      /\ Total' = Total /\ Expected' = Expected /\ FwRefuses' = FwRefuses
  BY DEF Total, Expected, FwRefuses, LoaderTypeOK
<1>2. LoaderTypeOK'
  BY DEF LoaderTypeOK
<1>3. (taken <= sent)'
  OBVIOUS
<1>4. HostProgress'
  BY DEF HostProgress
<1>5. FirmwareProgress'
  BY <1>1 DEF FirmwareProgress
<1>6. HeaderAccepted'
  BY DEF HeaderAccepted
<1>7. OkMeansLoaded'
  BY DEF OkMeansLoaded
<1>8. OkLeavesOnlyHello'
  BY DEF OkLeavesOnlyHello
<1>9. ErrorHasACause'
  BY DEF ErrorHasACause
<1>10. QED
  BY <1>2, <1>3, <1>4, <1>5, <1>6, <1>7, <1>8, <1>9

\* A firmware that misses bytes has not sent the digest, and never will.
LEMMA FwLosesBytesPreserves ==
    ASSUME LoaderInv, FwLosesBytes, LoaderAssumption PROVE LoaderInv'
<1> USE DEF LoaderInv, FwLosesBytes
<1>1. /\ len \in Nat /\ len' = len
      /\ Total' = Total /\ Expected' = Expected /\ FwRefuses' = FwRefuses
  BY DEF Total, Expected, FwRefuses, LoaderTypeOK
<1>2. LoaderTypeOK'
  BY DEF LoaderTypeOK
<1>3. (taken <= sent)'
  OBVIOUS
<1>4. HostProgress'
  BY <1>1 DEF HostProgress
<1>5. FirmwareProgress'
  BY DEF LoaderTypeOK, FirmwareProgress
<1>6. HeaderAccepted'
  BY DEF HeaderAccepted
<1>7. OkMeansLoaded'
  BY DEF OkMeansLoaded, InAppMode
<1>8. OkLeavesOnlyHello'
  BY DEF OkLeavesOnlyHello, InAppMode
<1>9. ErrorHasACause'
  BY DEF ErrorHasACause, BytesLost
<1>10. QED
  BY <1>2, <1>3, <1>4, <1>5, <1>6, <1>7, <1>8, <1>9

\* Neither has one that has taken the next frame for the missing bytes.
LEMMA FwDerailsPreserves ==
    ASSUME LoaderInv, FwDerails, LoaderAssumption PROVE LoaderInv'
<1> USE DEF LoaderInv, FwDerails
<1>1. /\ len \in Nat /\ len' = len
      /\ Total' = Total /\ Expected' = Expected /\ FwRefuses' = FwRefuses
  BY DEF Total, Expected, FwRefuses, LoaderTypeOK
<1>2. LoaderTypeOK'
  BY DEF LoaderTypeOK
<1>3. (taken <= sent)'
  BY DEF LoaderTypeOK
<1>4. HostProgress'
  BY <1>1 DEF HostProgress
<1>5. FirmwareProgress'
  BY DEF LoaderTypeOK, FirmwareProgress
<1>6. HeaderAccepted'
  BY DEF HeaderAccepted
<1>7. OkMeansLoaded'
  BY DEF OkMeansLoaded, InAppMode
<1>8. OkLeavesOnlyHello'
  BY DEF OkLeavesOnlyHello, InAppMode
<1>9. ErrorHasACause'
  BY DEF ErrorHasACause, BytesLost
<1>10. QED
  BY <1>2, <1>3, <1>4, <1>5, <1>6, <1>7, <1>8, <1>9

\* The firmware that has taken the header expects all len bytes.
LEMMA FwReadHeaderPreserves ==
    ASSUME LoaderInv, FwReadHeader, LoaderAssumption PROVE LoaderInv'
<1> USE DEF LoaderInv, FwReadHeader
<1>1. /\ len \in Nat /\ len' = len
      /\ Total' = Total /\ Expected' = Expected /\ FwRefuses' = FwRefuses
  BY DEF Total, Expected, FwRefuses, LoaderTypeOK
<1>2. /\ Total \in Nat /\ len <= 127 * Total
      /\ len > 0 => Total > 0 /\ 127 * (Total - 1) < len
      /\ len = 0 => Total = 0
  BY <1>1, TotalBounds
<1>3. LoaderTypeOK'
  BY DEF LoaderTypeOK
<1>4. (taken <= sent)'
  BY DEF LoaderTypeOK
<1>5. HostProgress'
  BY <1>1 DEF HostProgress
<1>6. FirmwareProgress'
  BY <1>1, <1>2 DEF LoaderTypeOK, FirmwareProgress, FwRefuses
<1>7. HeaderAccepted'
  BY DEF HeaderAccepted
<1>8. OkMeansLoaded'
  BY DEF OkMeansLoaded, InAppMode
<1>9. OkLeavesOnlyHello'
  BY DEF OkLeavesOnlyHello, InAppMode
<1>10. ErrorHasACause'
  BY <1>1 DEF ErrorHasACause, InAppMode, BytesLost
<1>11. QED
  BY <1>3, <1>4, <1>5, <1>6, <1>7, <1>8, <1>9, <1>10

\* Each chunk takes up to 127 bytes off what is expected; frame number Total
\* is the one that leaves none, and its reply begins at byte 5 * Total.
LEMMA FwReadChunkPreserves ==
    ASSUME LoaderInv, FwReadChunk, LoaderAssumption PROVE LoaderInv'
<1> USE DEF LoaderInv, FwReadChunk
<1>1. /\ len \in Nat /\ len' = len
      /\ Total' = Total /\ Expected' = Expected /\ FwRefuses' = FwRefuses
  BY DEF Total, Expected, FwRefuses, LoaderTypeOK
<1>2. /\ Total \in Nat /\ len <= 127 * Total
      /\ len > 0 => Total > 0 /\ 127 * (Total - 1) < len
      /\ len = 0 => Total = 0
  BY <1>1, TotalBounds
<1>3. LoaderTypeOK'
  <2>1. damaged' \in BOOLEAN
    BY DEF LoaderTypeOK
  <2>2. /\ accepted' \in Nat /\ left' \in Nat /\ fwHashed' \in Nat
        /\ sent' \in Nat /\ readyAt' \in Nat
    BY DEF LoaderTypeOK, Least
  <2>3. QED
    BY <1>1, <2>1, <2>2 DEF LoaderTypeOK
<1>4. (taken <= sent)'
  BY DEF LoaderTypeOK
<1>5. HostProgress'
  BY <1>1 DEF HostProgress
<1>6. FirmwareProgress'
  BY <1>1, <1>2 DEF LoaderTypeOK, FirmwareProgress, Least
<1>7. HeaderAccepted'
  BY DEF HeaderAccepted
<1>8. OkMeansLoaded'
  BY DEF OkMeansLoaded, InAppMode
<1>9. OkLeavesOnlyHello'
  BY DEF OkLeavesOnlyHello, OkMeansLoaded, InAppMode
<1>10. ErrorHasACause'
  <2>1. hostAt' = hostAt /\ attached' = attached /\ passes' = passes /\ num' = num
    OBVIOUS
  <2>2. hostAt = "error" =>
           FwRefuses \/ damaged \/ (passes = PollLimit /\ num < Expected)
    BY DEF ErrorHasACause, InAppMode, BytesLost
  <2>3. damaged => damaged'
    OBVIOUS
  <2>4. QED
    BY <1>1, <2>1, <2>2, <2>3 DEF ErrorHasACause
<1>11. QED
  BY <1>3, <1>4, <1>5, <1>6, <1>7, <1>8, <1>9, <1>10

\* The app's hello follows the digest.
LEMMA AppHelloPreserves ==
    ASSUME LoaderInv, AppHello, LoaderAssumption PROVE LoaderInv'
<1> USE DEF LoaderInv, AppHello
<1>1. /\ len \in Nat /\ len' = len
      /\ Total' = Total /\ Expected' = Expected /\ FwRefuses' = FwRefuses
  BY DEF Total, Expected, FwRefuses, LoaderTypeOK
<1>2. LoaderTypeOK'
  BY DEF LoaderTypeOK
<1>3. (taken <= sent)'
  BY DEF LoaderTypeOK
<1>4. HostProgress'
  BY <1>1 DEF HostProgress
<1>5. FirmwareProgress'
  BY <1>1 DEF FirmwareProgress
<1>6. HeaderAccepted'
  BY DEF HeaderAccepted
<1>7. OkMeansLoaded'
  BY DEF OkMeansLoaded, InAppMode
<1>8. OkLeavesOnlyHello'
  BY DEF OkLeavesOnlyHello, InAppMode
<1>9. ErrorHasACause'
  BY <1>1 DEF ErrorHasACause, InAppMode, BytesLost
<1>10. QED
  BY <1>2, <1>3, <1>4, <1>5, <1>6, <1>7, <1>8, <1>9

\* What an old app writes is no digest.
LEMMA OldAppWritesPreserves ==
    ASSUME LoaderInv, OldAppWrites, LoaderAssumption PROVE LoaderInv'
<1> USE DEF LoaderInv, OldAppWrites
<1>1. /\ len \in Nat /\ len' = len
      /\ Total' = Total /\ Expected' = Expected /\ FwRefuses' = FwRefuses
  BY DEF Total, Expected, FwRefuses, LoaderTypeOK
<1>2. LoaderTypeOK'
  BY DEF LoaderTypeOK
<1>3. (taken <= sent)'
  BY DEF LoaderTypeOK
<1>4. HostProgress'
  BY <1>1 DEF HostProgress
<1>5. FirmwareProgress'
  BY DEF FirmwareProgress
<1>6. HeaderAccepted'
  BY DEF HeaderAccepted
<1>7. OkMeansLoaded'
  BY DEF OkMeansLoaded, InAppMode
<1>8. OkLeavesOnlyHello'
  BY DEF OkLeavesOnlyHello, InAppMode
<1>9. ErrorHasACause'
  BY DEF ErrorHasACause, InAppMode
<1>10. QED
  BY <1>2, <1>3, <1>4, <1>5, <1>6, <1>7, <1>8, <1>9

\* An unplug moves neither side.
LEMMA UnplugPreserves ==
    ASSUME LoaderInv, Unplug, LoaderAssumption PROVE LoaderInv'
<1> USE DEF LoaderInv, Unplug
<1>1. /\ len \in Nat /\ len' = len
      /\ Total' = Total /\ Expected' = Expected /\ FwRefuses' = FwRefuses
  BY DEF Total, Expected, FwRefuses, LoaderTypeOK
<1>2. LoaderTypeOK'
  <2>1. attached' \in BOOLEAN
    OBVIOUS
  <2>2. UNCHANGED <<hostVars, tkeyVars>>
    OBVIOUS
  <2>3. QED
    BY <2>1, <2>2 DEF LoaderTypeOK
<1>3. (taken <= sent)'
  OBVIOUS
<1>4. HostProgress'
  BY <1>1 DEF HostProgress
<1>5. FirmwareProgress'
  BY <1>1 DEF FirmwareProgress
<1>6. HeaderAccepted'
  BY DEF HeaderAccepted
<1>7. OkMeansLoaded'
  BY DEF OkMeansLoaded, InAppMode
<1>8. OkLeavesOnlyHello'
  BY DEF OkLeavesOnlyHello, InAppMode
<1>9. ErrorHasACause'
  BY DEF ErrorHasACause
<1>10. QED
  BY <1>2, <1>3, <1>4, <1>5, <1>6, <1>7, <1>8, <1>9

\* Every step preserves the invariant, and a stuttering step does.
LEMMA LoaderStepPreserves ==
    ASSUME LoaderInv, [Next]_vars, LoaderAssumption PROVE LoaderInv'
<1>1. CASE ByHost
  BY <1>1, HostSendHeaderPreserves, HostReadReplyPreserves,
     HostSendChunkPreserves, HostPollPreserves, HostPollGivesUpPreserves,
     HostReadRepliesPreserves, HostReadDigestPreserves, HostIoErrorPreserves
     DEF ByHost
<1>2. CASE ByFirmware
  BY <1>2, FwLosesBytesPreserves, FwDerailsPreserves, FwReadHeaderPreserves,
     FwReadChunkPreserves, AppHelloPreserves DEF ByFirmware
<1>3. CASE OldAppWrites
  BY <1>3, OldAppWritesPreserves
<1>4. CASE Unplug
  BY <1>4, UnplugPreserves
<1>5. CASE UNCHANGED vars
  BY <1>5 DEF vars, LoaderInv, LoaderTypeOK, HostProgress, FirmwareProgress,
     HeaderAccepted, OkMeansLoaded, OkLeavesOnlyHello, ErrorHasACause,
     Total, Expected, FwRefuses, InAppMode, BytesLost
<1>6. QED
  BY <1>1, <1>2, <1>3, <1>4, <1>5 DEF Next

-----------------------------------------------------------------------------
(* The theorems. *)

\* The invariant behind the others: whatever the length of the binary and the
\* order of the steps, positions in the reply stream match places in load_app.
THEOREM LoaderInvariantHolds == Spec => []LoaderInv
<1>1. Init => LoaderInv
  BY LoaderStarts, LoaderAssumption
<1>2. LoaderInv /\ [Next]_vars => LoaderInv'
  BY LoaderStepPreserves, LoaderAssumption
<1>3. QED
  BY <1>1, <1>2, PTL DEF Spec

\* The variables of load_app keep their types; the passes of the poll and the
\* bytes that FIONREAD reports stay within their limits.
THEOREM LoaderTypeCorrect == Spec => []LoaderTypeOK
<1>1. LoaderInv => LoaderTypeOK
  BY DEF LoaderInv
<1>2. QED
  BY <1>1, LoaderInvariantHolds, PTL

\* Ok from load_app means that the TKey runs the binary the host has read, for
\* binaries of every length.
THEOREM OkIsLoaded == Spec => []OkMeansLoaded
<1>1. LoaderInv => OkMeansLoaded
  BY DEF LoaderInv
<1>2. QED
  BY <1>1, LoaderInvariantHolds, PTL

\* After Ok from load_app the host's next read starts at the app's first byte.
THEOREM RepliesReadToTheEnd == Spec => []OkLeavesOnlyHello
<1>1. LoaderInv => OkLeavesOnlyHello
  BY DEF LoaderInv
<1>2. QED
  BY <1>1, LoaderInvariantHolds, PTL

\* load_app rejects no binary that the firmware has loaded in time and intact.
THEOREM NoErrorWithoutCause == Spec => []ErrorHasACause
<1>1. LoaderInv => ErrorHasACause
  BY DEF LoaderInv
<1>2. QED
  BY <1>1, LoaderInvariantHolds, PTL

=============================================================================
