----------------------------- MODULE QubesEnroll -----------------------------
(***************************************************************************)
(* Enrollment on QubesOS (host/src/bin/qubes_enroll.rs): the program in    *)
(* the disposable VM has the TKey, dom0 has the TPM and the disk. The      *)
(* signature and the keyfile pass through the program, between the serial  *)
(* line and the qrexec stream, and dom0 may be told to kill a keyslot.     *)
(***************************************************************************)
EXTENDS Dom0Verify

CONSTANTS
    SlotArgs,   \* numbers --kill-slot may be given
    NoSlot      \* the program runs without --kill-slot

VARIABLE doomed     \* `slot_to_kill`

ASSUME QubesAssumption == SlotArgs \subseteq Nat /\ NoSlot \notin Nat

vars == <<enrollVars, dom0Vars, doomed>>

besidePass == <<clientVars, dom0Vars, luksVars, doomed>>
besideAuth == <<besidePass, passVars>>
hostSide == <<hostPc, authVars, hostPos, exitCode, tpm, passVars, luksVars, dom0Vars,
              doomed>>
\* What the steps that use the stream leave alone.
besideStream == <<clientVars, hostExch, hostPos, tpm, typed, keyfile, luksVars,
                  dom0Pc, dom0Kept, doomed>>

QubesPcs ==
    {"argv", "open", "rdNonce", "rdEncNonce", "rdTkeyPub", "tpm", "rdVerdict",
     "rdAuth", "rdReady", "askNew", "rdPass", "rdKeyfile", "askCurrent", "rdAdded",
     "waitDom0", "exit"}

Init ==
    /\ SerialInit
    /\ ClientInit
    /\ AuthInit
    /\ hostPc = "argv"
    /\ PassEnrollInit
    /\ LuksInit
    /\ Dom0Init
    /\ doomed \in SlotArgs \cup {NoSlot}

ValidSlot(s) == s < 32

KillsSlot == doomed # NoSlot

\* The slot number is looked at before the TKey.
ChecksSlot ==
    /\ hostPc = "argv"
    /\ \/ /\ KillsSlot => ValidSlot(doomed)
          /\ hostPc' = "open" /\ UNCHANGED exitCode
       \/ /\ KillsSlot /\ ~ValidSlot(doomed)
          /\ HostExit("failure")
    /\ UNCHANGED <<besideAuth, authVars, hostPos, tpm, serialVars>>

\* What was signed on Linux by a call now goes to dom0.
SendsChallenge ==
    /\ hostPc = "tpm"
    /\ toDom0' = Append(toDom0, Frame("challenge", HostChallenge(hostExch)))
    /\ hostPc' = "rdVerdict"
    /\ UNCHANGED <<besideStream, serialVars, trust, exitCode, current, toEnroller>>

\* A read_exact from the stream.
FromDom0(pc) ==
    /\ hostPc = pc
    /\ toEnroller # <<>>

\* Mutated form: the refusal is passed on also when a slot is to be killed.
RefusalIsFinalNever == FALSE

\* Without the TPM's word no slot is killed.
RefusalIsFinal == KillsSlot

\* dom0's verdict goes on to the app, a signature with the byte before it.
ForwardsVerdict ==
    /\ FromDom0("rdVerdict")
    /\ LET verdict == Head(toEnroller).data
       IN  \/ /\ attached
              /\ \/ verdict = HostByte.TpmSigned
                 \/ verdict = HostByte.TpmRefusedToSign /\ ~RefusalIsFinal
              /\ toTkey' = toTkey \o toEnroller
              /\ hostPc' = "rdAuth" /\ UNCHANGED exitCode
           \/ /\ \/ ~attached
                 \/ verdict = HostByte.TpmRefusedToSign /\ RefusalIsFinal
              /\ HostExit("failure") /\ UNCHANGED toTkey
    /\ toEnroller' = <<>>
    /\ UNCHANGED <<besideStream, attached, toHost, sniffed, trust, current, toDom0>>

\* check_status: a signature that the app rejects does not end the program. (The
\* program keeps no `trustworthy`: here it says what the app has answered.)
QubesAuthStatus ==
    /\ hostPc = "rdAuth"
    /\ Readable(toHost, 1)
    /\ toHost' = Tail(toHost)
    /\ LET name == ClientMessageTryFrom(Head(toHost).data)
       IN  \/ /\ name \in {"GoodSig", "InvalidSig"}
              /\ hostPc' = "rdReady" /\ UNCHANGED exitCode
              /\ trust' = (name = "GoodSig")
           \/ /\ name \notin {"GoodSig", "InvalidSig"}
              /\ HostExit("failure") /\ UNCHANGED trust
    /\ UNCHANGED <<besideStream, attached, toTkey, sniffed, current, toDom0,
                   toEnroller>>

\* Mutated form: only the upper bound is checked.
FitsAByteShort == 0 .. 255

\* pass_enroll takes lengths that fit a byte.
FitsAByte == 8 .. 255

\* The keyfile is read, but decrypted only after the next prompt.
ReadsKeyfile ==
    /\ hostPc = "rdKeyfile"
    /\ TakesKeyfile
    /\ hostPc' = "askCurrent"
    /\ UNCHANGED <<besidePass, authVars, exitCode, tpm, typed, current, attached,
                   toTkey, sniffed>>

\* `len() as u8`.
LenByte(n) == n % 256

\* What dom0 reads as the passphrase: so many of its first bytes.
FirstBytes(p, n) == IF CurrentLen(p) = n THEN Text(p) ELSE <<"prefix", Text(p), n>>

\* A passphrase that is cut off by its length byte opens nothing: neither is the
\* beginning of one the whole of another, nor an unused keyslot a key.
ASSUME CutOffAssumption ==
    \A p \in Pass :
        LET n == LenByte(CurrentLen(p))
        IN  n # CurrentLen(p) =>
                /\ FirstBytes(p, n) # Empty
                /\ \A h \in Headers : \A s \in Slots : h[s] # FirstBytes(p, n)

\* The current passphrase, announced by its length, and the keyfile. The bytes
\* that the length does not announce come before the keyfile. (Three writes:
\* dom0, which reads piece by piece, sees nothing of a pause between two of them, and
\* a death between two of them is to it what Killed and then Dom0Dies are here.)
SendsCurrent ==
    /\ hostPc = "askCurrent"
    /\ \E p \in Pass \cup {NoPass} :
          LET n == LenByte(CurrentLen(p))
          IN  /\ current' = p
              /\ toDom0' = toDom0 \o <<Frame("len", n), Frame("text", FirstBytes(p, n))>>
                    \o (IF n = CurrentLen(p) THEN <<>>
                        ELSE <<Frame("text", <<"rest", Text(p), n>>)>>)
                    \o <<Frame("keyfile", keyfile)>>
    /\ hostPc' = "rdAdded"
    /\ UNCHANGED <<besideStream, serialVars, trust, exitCode, toEnroller>>

\* Mutated form: keyslots are counted from one.
SlotByteFromOne == IF KillsSlot THEN doomed + 1 ELSE NothingToKill

\* The keyslot's number as a byte, or the byte that is none.
SlotByte == IF KillsSlot THEN doomed ELSE NothingToKill

\* dom0 has enrolled the keyfile: tell it what comes next.
SendsSlot ==
    /\ FromDom0("rdAdded")
    /\ toEnroller' = Tail(toEnroller)
    /\ toDom0' = Append(toDom0, Frame("slot", SlotByte))
    /\ hostPc' = "waitDom0"
    /\ UNCHANGED <<besideStream, serialVars, trust, exitCode, current>>

\* qrexec ends with the exit code of dom0's program.
Reports ==
    /\ hostPc = "waitDom0"
    /\ Dom0Ended
    /\ \/ /\ attached /\ dom0Pc = "success"
          /\ toTkey' = Append(toTkey, Status(HostByte.DecryptionSuccess))
          /\ HostExit("success")
       \/ /\ ~attached \/ dom0Pc = "failure"
          /\ HostExit("failure")
          /\ UNCHANGED toTkey
    /\ UNCHANGED <<besideStream, attached, toHost, sniffed, trust, current, toDom0,
                   toEnroller>>

\* Mutated form: dom0's answer to the enrollment is waited for past the end.
StreamReadsButLast == {"rdVerdict"}

StreamReads == {"rdVerdict", "rdAdded"}

\* read_exact fails: dom0 has gone, and all it had to say has been read.
EndOfStream ==
    /\ hostPc \in StreamReads
    /\ Dom0Ended
    /\ toEnroller = <<>>
    /\ HostExit("failure")
    /\ UNCHANGED <<besideStream, serialVars, trust, current, toDom0, toEnroller>>

LoadApp == HostLoads /\ ClientBoot /\ UNCHANGED <<passVars, luksVars, dom0Vars, doomed>>

ByClient == ClientSteps /\ UNCHANGED hostSide

ByHost ==
    \/ ChecksSlot
    \/ LoadApp
    \/ HostLoadFails    /\ UNCHANGED besideAuth
    \/ HostReadNonce    /\ UNCHANGED besideAuth
    \/ HostReadEncNonce /\ UNCHANGED besideAuth
    \/ HostReadTkeyPub  /\ UNCHANGED besideAuth
    \/ HostIoError      /\ UNCHANGED besideAuth
    \/ SendsChallenge
    \/ ForwardsVerdict
    \/ QubesAuthStatus
    \/ AwaitsReady                /\ UNCHANGED besidePass
    \/ AsksNewAgain               /\ UNCHANGED besidePass
    \/ SendsNewHash(FitsAByte)    /\ UNCHANGED besidePass
    \/ AskNewFails                /\ UNCHANGED besidePass
    \/ NewPassStatus("rdKeyfile") /\ UNCHANGED besidePass
    \/ ReadsKeyfile
    \/ SendsCurrent
    \/ SendsSlot
    \/ Reports
    \/ EndOfStream

ByCryptsetup ==
    /\ \/ CryptsetupAdds(dom0Key.text, dom0Keyfile)
       \/ CryptsetupKillsSlot(dom0Keyfile, dom0Slot)
       \/ CryptsetupFails
    /\ UNCHANGED <<besideDom0, dom0Vars, doomed>>

Unplug == HangUp /\ ClientLosesPower /\ UNCHANGED hostSide

\* The program, its qrexec client, or dom0's program ends before its time.
Killed ==
    \/ HostKilled /\ UNCHANGED besidePass
    \/ Dom0Dies   /\ UNCHANGED doomed

Next ==
    \/ ByClient
    \/ ByHost
    \/ ByDom0 /\ UNCHANGED doomed
    \/ ByCryptsetup
    \/ Unplug
    \/ Killed

Spec == Init /\ [][Next]_vars

\* Four programs that each run when they can, and a user who answers or leaves.
\* Nobody has to pull the TKey out, or to kill a program.
Fairness ==
    /\ WF_vars(ByClient)
    /\ WF_vars(ByHost)
    /\ WF_vars(ByDom0 /\ UNCHANGED doomed)
    /\ WF_vars(ByCryptsetup)

FairSpec == Spec /\ Fairness

-----------------------------------------------------------------------------
(* Properties. *)

\* Every variable has its type. The app gets at most one answer, so that it
\* begins at most two of its attempts (client/src/main.rs:163).
QubesTypeOK ==
    /\ PassEnrollTypeOK
    /\ hostPc \in QubesPcs
    /\ attempts \in 0 .. 2
    /\ dom0Pc \in DOMAIN Dom0Reads \cup {"waitAdd", "waitKill", "success", "failure"}
    /\ dom0Key.length \in 0 .. 255
    /\ dom0Slot \in SlotArgs \cup {0, NothingToKill}
    /\ doomed \in SlotArgs \cup {NoSlot}

\* On the serial line and on the stream alike, what a program is about to read is
\* what it expects. The stream has no framing: 0x91 and a slot number, a verdict
\* and an answer are the same byte to their reader. (Of a current passphrase of
\* 256 bytes or more dom0 reads what is left over as the keyfile, see
\* WhatWasTypedArrives; but it never gets from there to the last byte.)
BothChannelsInSync ==
    /\ FramingInSync
    /\ dom0Pc \in DOMAIN Dom0Reads /\ toDom0 # <<>> =>
          \/ Head(toDom0).kind = Dom0Reads[dom0Pc]
          \/ dom0Pc = "rdKeyfile" /\ CurrentLen(current) > 255
    /\ hostPc \in {"rdVerdict", "rdAdded"} /\ toEnroller # <<>> =>
          Head(toEnroller).data \in
             IF hostPc = "rdAdded" THEN {HostByte.DecryptionSuccess}
             ELSE {HostByte.TpmSigned, HostByte.TpmRefusedToSign}

\* App, program and dom0 are never all three waiting for one another: each reads
\* from the next without a time limit (verify.rs:79, qubes_enroll.rs:118).
NoThreeWayWait ==
    /\ attached
    /\ hostPc \in DOMAIN HostReads \cup StreamReads
    /\ clientPc \in DOMAIN ClientReads
    /\ dom0Pc \in DOMAIN Dom0Reads
    => \/ hostPc \in DOMAIN HostReads /\ toHost # <<>>
       \/ hostPc \in StreamReads /\ toEnroller # <<>>
       \/ toTkey # <<>>
       \/ toDom0 # <<>>

\* What the TKey and the user hear of a success is true: the boot will open the
\* disk with this passphrase, and the keyslot that was to go is gone, although
\* dom0 announces the enrollment (verify.rs:91) before it knows of the kill.
QubesReportsAreTrue ==
    clientPc \in {"farewell", "done"} \/ exitCode = "success" =>
        OpensAtBoot /\ (doomed \in Slots => slots[doomed] = Empty)

\* A keyslot is killed only if the user asked for it, it is the one the user has
\* named, and it is killed after the new one has been filled, and never when the
\* TPM has refused (qubes_enroll.rs:80): the last byte (verify.rs:96) is neither
\* mistaken for a slot nor for another one.
KillIsWanted ==
    child = "killing" => KillsSlot /\ dom0Slot = doomed /\ added /\ TpmWouldSign

\* The abstract promise, with the keyslot that is to go.
Enrollment ==
    INSTANCE KeyslotEnrollment WITH
        SlotNumbers <- Slots,
        Free <- Empty,
        NoKeyfile <- Garbled,
        header <- slots,
        new <- Derived,
        isAdded <- added,
        outcome <- CASE exitCode = "none" -> "pending"
                     [] exitCode = "success" -> "success"
                     [] OTHER -> "failure"

RefinesEnrollment == Enrollment!Spec

\* Once the current passphrase has gone to dom0 the program comes to an end: dom0
\* reports a failure only by closing the stream (verify.rs:101). A length byte of
\* 0, of an empty passphrase, makes cryptsetup wait for more (verify.rs:86).
QubesEnrollmentEnds ==
    (hostPc = "rdAdded" /\ LenByte(CurrentLen(current)) # 0) ~> (hostPc = "exit")

\* verify.rs:40: the length byte "makes sure that we can realiably write the
\* correct passphrase onto cryptsetup".
WhatWasTypedArrives ==
    dom0Pc = "waitAdd" => dom0Key.text = Text(current) /\ dom0Keyfile = keyfile

\* qubes_enroll.rs:82: with --kill-slot the program is "refusing to continue"
\* when the "current binary isn't enrolled with TPM".
KillNeedsEnrolledBinary ==
    child = "killing" => tpm.key = BakedKey[app]

=============================================================================
