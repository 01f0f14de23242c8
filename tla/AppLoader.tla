----------------------------- MODULE AppLoader -----------------------------
(***************************************************************************)
(* load_app (host/src/lib.rs): the host sends a header and the binary in   *)
(* frames to the firmware of the TKey, without reading the reply to each.  *)
(* After the last frame it polls until the replies to all others have      *)
(* arrived, reads them in one go, and compares the digest in the last      *)
(* reply with its own. Unlock has all of this as one step, LoadApp or      *)
(* HostLoadFails.                                                          *)
(*                                                                         *)
(* Bytes from the TKey are counted: sent and taken are positions in that   *)
(* stream. The firmware, the line and the tty are external; the line may   *)
(* damage a frame or lose bytes of it, which is what the code polls and    *)
(* hashes for. Unplugging the TKey is possible at any time.                *)
(***************************************************************************)
EXTENDS Integers

CONSTANTS
    Lengths,    \* lengths in bytes the binary at /boot/client may have
    PollLimit,  \* passes of the poll (70 in the code)
    TtyBuffer   \* bytes that the tty holds for a reader (4096 in Linux)

ASSUME LoaderAssumption ==
    /\ Lengths \subseteq Nat
    /\ PollLimit \in Nat
    /\ TtyBuffer \in Nat

VARIABLES
    hostAt,     \* where load_app is
    len,        \* bin_len
    written,    \* frames written, the header among them
    hashed,     \* bytes of the binary in the host's digest
    passes,     \* passes of the poll so far
    num,        \* bytes the last FIONREAD reported
    taken,      \* bytes of the TKey read
    tkey,       \* what runs on the TKey
    accepted,   \* frames the TKey has read
    left,       \* bytes the firmware still expects
    fwHashed,   \* bytes of the binary in the firmware's digest
    damaged,    \* one of them is not what the host sent
    sent,       \* bytes the TKey has written
    readyAt,    \* where in them the reply with the digest begins, if it does
    attached

hostVars == <<hostAt, len, written, hashed, passes, num, taken>>
tkeyVars == <<tkey, accepted, left, fwHashed, damaged, sent, readyAt>>
vars == <<hostVars, tkeyVars, attached>>

\* "oldApp" is an app of an earlier session that still reads and writes,
\* "doneApp" one that has ended: rustkey's done() and abort() do neither.
\* "short" is a firmware that lacks bytes of a frame, "derailed" one that has
\* taken the next frame for them.
TkeyStates ==
    {"firmware", "loading", "short", "derailed", "newApp", "oldApp", "doneApp"}

InAppMode == tkey \in {"oldApp", "doneApp"}

BytesLost == tkey \in {"short", "derailed"}

LoaderTypeOK ==
    /\ hostAt \in {"header", "rdReply", "chunk", "poll", "rdDigest", "ok", "error"}
    /\ len \in Lengths
    /\ written \in Nat /\ hashed \in Nat /\ taken \in Nat
    /\ passes \in 0 .. PollLimit
    /\ num \in 0 .. TtyBuffer
    /\ tkey \in TkeyStates
    /\ accepted \in Nat /\ left \in Nat /\ fwHashed \in Nat
    /\ sent \in Nat /\ readyAt \in Nat
    /\ damaged \in BOOLEAN /\ attached \in BOOLEAN

-----------------------------------------------------------------------------
(* Sizes. *)

ChunkSize == 127
ReplySize == 5
HelloSize == 76

\* Mutated form: only the part of the last reply that is compared is read.
DigestReplyReadShort == 35

\* What the host reads of the firmware's reply to the last frame.
DigestReplyRead == 129

DigestReplySize == 129

\* The firmware's largest app.
AppMax == 131072

\* What an app of an earlier session may still write while it takes the frames
\* of load_app for its own: an unread hello, InvalidSig, three attempts.
OldAppBytes == HelloSize + 1 + 3 * (1 + 1 + 32)

Least(a, b) == IF a < b THEN a ELSE b

\* Mutated form: the division rounds down.
TotalRoundedDown == len \div ChunkSize

\* bin_len.div_ceil(127), the number of frames that carry the binary. (`len` is the
\* length as a u32, lib.rs:365: client/app.lds has 128 KB of RAM, so none wraps.)
Total == (len + ChunkSize - 1) \div ChunkSize

\* Replies that are due before the one with the digest.
Expected == (Total - 1) * ReplySize

Pending == sent - taken

Init ==
    /\ hostAt = "header"
    /\ len \in Lengths
    /\ written = 0 /\ hashed = 0 /\ passes = 0 /\ num = 0 /\ taken = 0
    /\ tkey \in {"firmware", "oldApp", "doneApp"}
    /\ accepted = 0 /\ left = 0 /\ fwHashed = 0
    /\ damaged = FALSE
    /\ sent = 0 /\ readyAt = 0
    /\ attached \in BOOLEAN

-----------------------------------------------------------------------------
(* The host. *)

HostSendHeader ==
    /\ hostAt = "header"
    /\ attached
    /\ written' = 1
    /\ hostAt' = "rdReply"
    /\ UNCHANGED <<len, hashed, passes, num, taken, tkeyVars, attached>>

\* The firmware takes apps of 1 to AppMax bytes.
FwRefuses == len = 0 \/ len > AppMax

\* resp[2]: the firmware's verdict, or any byte of an old app.
ReplyMayBe(bad) == InAppMode \/ bad = FwRefuses

\* The reply to the header. With no chunk to send, load_app ends here.
HostReadReply ==
    /\ hostAt = "rdReply"
    /\ attached
    /\ Pending >= ReplySize
    /\ taken' = taken + ReplySize
    /\ \/ ReplyMayBe(TRUE) /\ hostAt' = "error"
       \/ ReplyMayBe(FALSE) /\ len > 0 /\ hostAt' = "chunk"
       \/ ReplyMayBe(FALSE) /\ len = 0 /\ hostAt' = "ok"
    /\ UNCHANGED <<len, written, hashed, passes, num, tkeyVars, attached>>

\* Mutated form: the whole frame is hashed, its padding included.
ChunkBytesPadded(i) == ChunkSize

\* Bytes of the binary in chunk number i, counted from 0.
ChunkBytes(i) == Least(ChunkSize, len - i * ChunkSize)

\* One iteration of `for (i, bytes) in bin.chunks(127).enumerate()`, with
\* i = written - 1; the test i == total - 1 sends the last one on to the poll.
HostSendChunk ==
    /\ hostAt = "chunk"
    /\ attached
    /\ written' = written + 1
    /\ hashed' = hashed + ChunkBytes(written - 1)
    /\ hostAt' = IF written = Total THEN "poll"
                 ELSE IF written * ChunkSize < len THEN "chunk"
                 ELSE "ok"
    /\ UNCHANGED <<len, passes, num, taken, tkeyVars, attached>>

\* Mutated form: one pass too many.
MayPollOffByOne == passes <= PollLimit

MayPoll == passes < PollLimit

\* FIONREAD sees no more than the tty holds.
HostPoll ==
    /\ hostAt = "poll"
    /\ num < Expected
    /\ MayPoll
    /\ attached
    /\ passes' = passes + 1
    /\ num' = Least(Pending, TtyBuffer)
    /\ UNCHANGED <<hostAt, len, written, hashed, taken, tkeyVars, attached>>

HostPollGivesUp ==
    /\ hostAt = "poll"
    /\ num < Expected
    /\ ~MayPoll
    /\ hostAt' = "error"
    /\ UNCHANGED <<len, written, hashed, passes, num, taken, tkeyVars, attached>>

\* The replies are there: read them all.
HostReadReplies ==
    /\ hostAt = "poll"
    /\ num >= Expected
    /\ attached
    /\ Pending >= Expected
    /\ taken' = taken + Expected
    /\ hostAt' = "rdDigest"
    /\ UNCHANGED <<len, written, hashed, passes, num, tkeyVars, attached>>

\* Mutated form: the digest is read, but not compared.
DigestMatchesAnything == TRUE

\* resp[3..35] is the host's digest: what is read is the firmware's digest, and
\* that is over the same bytes.
DigestMatches == readyAt = taken /\ ~damaged /\ hashed = fwHashed

HostReadDigest ==
    /\ hostAt = "rdDigest"
    /\ attached
    /\ Pending >= DigestReplyRead
    /\ taken' = taken + DigestReplyRead
    /\ hostAt' = IF DigestMatches THEN "ok" ELSE "error"
    /\ UNCHANGED <<len, written, hashed, passes, num, tkeyVars, attached>>

\* A read, a write or an ioctl on a TKey that has been pulled out.
HostIoError ==
    /\ hostAt \notin {"ok", "error"}
    /\ ~attached
    /\ hostAt' = "error"
    /\ UNCHANGED <<len, written, hashed, passes, num, taken, tkeyVars, attached>>

-----------------------------------------------------------------------------
(* The TKey. *)

\* A frame arrives with bytes missing: the firmware goes on waiting for them.
FwLosesBytes ==
    /\ tkey \in {"firmware", "loading"}
    /\ attached /\ accepted < written
    /\ tkey' = "short"
    /\ accepted' = accepted + 1
    /\ UNCHANGED <<left, fwHashed, damaged, sent, readyAt, hostVars, attached>>

\* The next frame makes up for the missing bytes. It answers that one, and
\* understands nothing from then on.
FwDerails ==
    /\ tkey = "short"
    /\ attached /\ accepted < written
    /\ tkey' = "derailed"
    /\ accepted' = accepted + 1
    /\ sent' = sent + ReplySize
    /\ UNCHANGED <<left, fwHashed, damaged, readyAt, hostVars, attached>>

FwReadHeader ==
    /\ tkey = "firmware"
    /\ attached /\ accepted < written
    /\ accepted' = accepted + 1
    /\ sent' = sent + ReplySize
    /\ \/ FwRefuses /\ UNCHANGED <<tkey, left>>
       \/ ~FwRefuses /\ tkey' = "loading" /\ left' = len
    /\ UNCHANGED <<fwHashed, damaged, readyAt, hostVars, attached>>

\* A frame of the binary, perhaps damaged. After the last one the firmware
\* sends the digest and starts the app.
FwReadChunk ==
    /\ tkey = "loading"
    /\ attached /\ accepted < written
    /\ accepted' = accepted + 1
    /\ left' = left - Least(ChunkSize, left)
    /\ fwHashed' = fwHashed + Least(ChunkSize, left)
    /\ damaged' = TRUE \/ UNCHANGED damaged
    /\ \/ /\ left > ChunkSize
          /\ sent' = sent + ReplySize
          /\ UNCHANGED <<tkey, readyAt>>
       \/ /\ left <= ChunkSize
          /\ readyAt' = sent
          /\ sent' = sent + DigestReplySize
          /\ tkey' = "newApp"
    /\ UNCHANGED <<hostVars, attached>>

\* The app says hello, and then waits for the host.
AppHello ==
    /\ tkey = "newApp"
    /\ attached
    /\ sent = readyAt + DigestReplySize
    /\ sent' = sent + HelloSize
    /\ UNCHANGED <<tkey, accepted, left, fwHashed, damaged, readyAt, hostVars,
                   attached>>

\* An app of an earlier session takes the frames for its own input.
OldAppWrites ==
    /\ tkey = "oldApp"
    /\ attached /\ written > 0
    /\ sent < OldAppBytes
    /\ sent' = sent + 1
    /\ UNCHANGED <<tkey, accepted, left, fwHashed, damaged, readyAt, hostVars,
                   attached>>

Unplug ==
    /\ attached
    /\ attached' = FALSE
    /\ UNCHANGED <<hostVars, tkeyVars>>

-----------------------------------------------------------------------------
ByHost ==
    \/ HostSendHeader
    \/ HostReadReply
    \/ HostSendChunk
    \/ HostPoll
    \/ HostPollGivesUp
    \/ HostReadReplies
    \/ HostReadDigest
    \/ HostIoError

ByFirmware ==
    \/ FwLosesBytes
    \/ FwDerails
    \/ FwReadHeader
    \/ FwReadChunk
    \/ AppHello

Next == ByHost \/ ByFirmware \/ OldAppWrites \/ Unplug

Spec == Init /\ [][Next]_vars

\* The host keeps running, and so does a firmware that has input. Nobody has to
\* pull the TKey out, and an old app need not write.
FairSpec == Spec /\ WF_vars(ByHost) /\ WF_vars(ByFirmware)

-----------------------------------------------------------------------------
(* Properties. *)

\* load_app returns Ok only if the TKey now runs exactly the binary that was
\* read. (The one exception takes an empty file at /boot/client and an app of
\* an earlier session: load_app then sends nothing that could be hashed.)
OkMeansLoaded ==
    hostAt = "ok" /\ ~(len = 0 /\ InAppMode) =>
        tkey = "newApp" /\ ~damaged /\ left = 0 /\ fwHashed = len

\* When load_app returns Ok it has read the firmware's replies to the last byte:
\* the next read, of 32 bytes for the nonce, starts where the app's hello does.
OkLeavesOnlyHello ==
    hostAt = "ok" /\ ~InAppMode => taken = readyAt + DigestReplySize

\* load_app fails only with a cause: an intact binary of a size the firmware
\* takes, whose replies arrive during the poll, is loaded. This is where the
\* chunk arithmetic, the number of replies and the digest all have to be right.
ErrorHasACause ==
    hostAt = "error" =>
        \/ ~attached
        \/ FwRefuses
        \/ InAppMode
        \/ BytesLost
        \/ damaged
        \/ passes = PollLimit /\ num < Expected

\* load_app returns, whatever size the binary has and however slow the line is,
\* unless it talks to an old app or to a firmware that misses bytes, and the
\* TKey stays plugged in.
LoadReturns ==
    \/ <>(hostAt \in {"ok", "error"})
    \/ <>[](attached /\ (InAppMode \/ BytesLost))

\* host/src/lib.rs:360-361: load_app errs "when tkey is already on app mode",
\* here the mode of a TKey that was left plugged in after an earlier session.
AppModeIsAnError == (tkey = "doneApp") ~> (hostAt = "error")

=============================================================================
