----------------------------- MODULE LinuxEnroll -----------------------------
(***************************************************************************)
(* Enrollment on Linux (host/src/bin/enroll.rs): the session of the boot   *)
(* program, but the keyfile goes to `cryptsetup luksAddKey`, after the     *)
(* current passphrase and through the same pipe.                           *)
(***************************************************************************)
EXTENDS PassEnroll

vars == enrollVars

hostSide == <<hostPc, authVars, hostPos, exitCode, tpm, passVars, luksVars>>
besideAuth == <<clientVars, passVars, luksVars>>
besidePass == <<clientVars, luksVars>>
besideMain == <<clientVars, authVars, tpm, typed>>

EnrollPcs ==
    {"open", "rdNonce", "rdEncNonce", "rdTkeyPub", "tpm", "rdAuth", "rdReady",
     "askNew", "rdPass", "askCurrent", "rdKeyfile", "wait", "exit"}

Init ==
    /\ SerialInit
    /\ ClientInit
    /\ AuthInit
    /\ hostPc = "open"
    /\ PassEnrollInit
    /\ LuksInit

\* Mutated form: the length of the new passphrase is not checked.
AnyLength == Nat

LongEnough == Nat \ (0 .. 7)

\* Prompt for the current passphrase, start cryptsetup and write it to its
\* stdin, before the keyfile has been read.
AsksCurrent ==
    /\ hostPc = "askCurrent"
    /\ current' \in Pass \cup {NoPass}
    /\ child' = "reading"
    /\ hostPc' = "rdKeyfile"
    /\ UNCHANGED <<besideMain, hostPos, exitCode, keyfile, slots, added, serialVars>>

\* The prompt, the start of cryptsetup or the write to its stdin fails.
AskCurrentFails ==
    /\ hostPc = "askCurrent"
    /\ HostExit("failure")
    /\ UNCHANGED <<besideMain, hostPos, current, keyfile, luksVars, serialVars>>

\* Read the keyfile and write it to cryptsetup, whose stdin stays open ...
PipesKeyfile ==
    /\ hostPc = "rdKeyfile"
    /\ TakesKeyfile
    /\ GetsBothKeys(CurrentLen(current))
    /\ hostPc' = "wait"
    /\ UNCHANGED <<besideMain, exitCode, current, slots, added, attached, toTkey,
                   sniffed>>

\* ... if it has not ended before.
PipeBreaks ==
    /\ hostPc = "rdKeyfile"
    /\ TakesKeyfile
    /\ child' = "failed"
    /\ HostExit("failure")
    /\ UNCHANGED <<besideMain, current, slots, added, attached, toTkey, sniffed>>

StatusIsZero == child = "ok"

\* Mutated form: a cryptsetup that was killed has failed, as at boot (main.rs:172).
StatusIsNotZeroOrKilled == child \in {"failed", "killed"}

StatusIsNotZero == child = "failed"

\* cryptsetup has exited: the app is told, unless cryptsetup was killed. If it
\* cannot be told, that is an error even of a success.
Reports ==
    /\ hostPc = "wait"
    /\ child \in {"ok", "failed", "killed"}
    /\ \/ /\ attached /\ StatusIsZero
          /\ toTkey' = Append(toTkey, Status(HostByte.DecryptionSuccess))
          /\ HostExit("success")
       \/ /\ attached /\ StatusIsNotZero
          /\ toTkey' = Append(toTkey, Status(HostByte.DecryptionError))
          /\ HostExit("failure")
       \/ /\ ~attached \/ child = "killed"
          /\ HostExit("failure")
          /\ UNCHANGED toTkey
    /\ UNCHANGED <<besideMain, hostPos, current, keyfile, luksVars, attached,
                   toHost, sniffed>>

LoadApp == HostLoads /\ ClientBoot /\ UNCHANGED <<passVars, luksVars>>

ByClient == ClientSteps /\ UNCHANGED hostSide

ByHost ==
    \/ LoadApp
    \/ HostReadNonce    /\ UNCHANGED besideAuth
    \/ HostReadEncNonce /\ UNCHANGED besideAuth
    \/ HostReadTkeyPub  /\ UNCHANGED besideAuth
    \/ TpmSigns         /\ UNCHANGED besideAuth
    \/ TpmRefuses       /\ UNCHANGED besideAuth
    \/ HostAuthStatus   /\ UNCHANGED besideAuth
    \/ HostLoadFails    /\ UNCHANGED besideAuth
    \/ HostIoError      /\ UNCHANGED besideAuth
    \/ AwaitsReady               /\ UNCHANGED besidePass
    \/ AsksNewAgain              /\ UNCHANGED besidePass
    \/ SendsNewHash(LongEnough)  /\ UNCHANGED besidePass
    \/ AskNewFails               /\ UNCHANGED besidePass
    \/ NewPassStatus("askCurrent") /\ UNCHANGED besidePass
    \/ AsksCurrent
    \/ AskCurrentFails
    \/ PipesKeyfile
    \/ PipeBreaks
    \/ Reports

besideLuks == <<serialVars, clientVars, hostPc, authVars, hostPos, exitCode,
                tpm, passVars>>

ByCryptsetup ==
    \/ CryptsetupAdds(Text(current), keyfile) /\ UNCHANGED besideLuks
    \/ CryptsetupFails /\ UNCHANGED besideLuks

Unplug == HangUp /\ ClientLosesPower /\ UNCHANGED hostSide

Killed == HostKilled /\ UNCHANGED besidePass

Next == ByClient \/ ByHost \/ ByCryptsetup \/ Unplug \/ Killed

Spec == Init /\ [][Next]_vars

\* App, program and cryptsetup each run when they can. The user who is asked
\* ends up answering or leaving; nobody has to pull the TKey out.
Fairness == WF_vars(ByClient) /\ WF_vars(ByHost) /\ WF_vars(ByCryptsetup)

FairSpec == Spec /\ Fairness

-----------------------------------------------------------------------------
(* Properties. *)

\* Every variable has its type. The app gets at most one answer, so that it
\* begins at most two of its attempts (client/src/main.rs:163).
EnrollTypeOK == PassEnrollTypeOK /\ hostPc \in EnrollPcs /\ attempts \in 0 .. 2

\* What the TKey and the shell hear is true, whatever was killed or pulled out
\* meanwhile: a green farewell and exit code 0 mean a keyslot that the boot will
\* open with this passphrase, and the app goes on to another attempt (enroll.rs:126,
\* client/src/main.rs:163) only if nothing was added. (Exit code 1 says nothing of
\* the header: main returns an Err also when cryptsetup was killed, enroll.rs:119,
\* or the app could not be told of a success, enroll.rs:123.)
ReportsAreTrue ==
    /\ clientPc \in {"farewell", "done"} \/ exitCode = "success" => OpensAtBoot
    /\ attempts = 2 \/ (clientPc = "top" /\ attempts = 1) => ~added

\* The abstract promise, with no keyslot to kill.
Enrollment ==
    INSTANCE KeyslotEnrollment WITH
        SlotNumbers <- Slots,
        Free <- Empty,
        NoKeyfile <- Garbled,
        header <- slots,
        new <- Derived,
        doomed <- 32,       \* no keyslot has this number
        isAdded <- added,
        outcome <- CASE exitCode = "none" -> "pending"
                     [] exitCode = "success" -> "success"
                     [] OTHER -> "failure"

RefinesEnrollment == Enrollment!Spec

\* Once cryptsetup has been started the program comes to an end, with any current
\* passphrase but the empty one (enroll.rs:117: stdin is open during wait()).
EnrollmentEnds ==
    (hostPc = "rdKeyfile" /\ current # NoPass) ~> (hostPc = "exit")

=============================================================================
