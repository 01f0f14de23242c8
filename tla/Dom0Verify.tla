----------------------------- MODULE Dom0Verify -----------------------------
(***************************************************************************)
(* The program that qrexec starts in dom0 (host/src/bin/verify.rs), at the *)
(* far end of the enroller's stream: it has the TPM sign the challenge,    *)
(* has cryptsetup add a keyslot, says so, and then reads one byte that     *)
(* tells it to stop or which keyslot to kill. It reports a failure only by *)
(* closing the stream and by its exit code.                                *)
(***************************************************************************)
EXTENDS PassEnroll

VARIABLES
    dom0Pc,     \* where the program is blocked, or "success" or "failure"
    toDom0,     \* what the enroller has written to the stream
    toEnroller, \* what dom0 has written to it
    dom0Key,    \* the current passphrase and its length, as dom0 has read them
    dom0Keyfile,\* the keyfile, as dom0 has read it
    dom0Slot    \* `num`, the last byte, as dom0 has read it

dom0Vars == <<dom0Pc, toDom0, toEnroller, dom0Key, dom0Keyfile, dom0Slot>>
dom0Kept == <<dom0Key, dom0Keyfile, dom0Slot>>

Dom0Ended == dom0Pc \in {"success", "failure"}

\* What dom0 waits for at each of its reads.
Dom0Reads ==
    [rdChallenge |-> "challenge", rdLen |-> "len", rdText |-> "text",
     rdKeyfile |-> "keyfile", rdSlot |-> "slot"]

Dom0Init ==
    /\ dom0Pc = "rdChallenge"
    /\ toDom0 = <<>>
    /\ toEnroller = <<>>
    /\ dom0Key = [length |-> 0, text |-> Text(NoPass)]
    /\ dom0Keyfile = Garbled
    /\ dom0Slot = 0

besideDom0 == <<serialVars, clientVars, hostPc, authVars, hostPos, exitCode, tpm,
                passVars>>

\* A read_exact of what comes next on the stream, whatever it was written as.
Dom0Receives(pc) ==
    /\ dom0Pc = pc
    /\ toDom0 # <<>>
    /\ toDom0' = Tail(toDom0)
    /\ UNCHANGED besideDom0

\* The challenge: verify() signs it or does not; the enroller hears which.
Dom0Verifies ==
    /\ Dom0Receives("rdChallenge")
    /\ \/ /\ TpmWouldSign
          /\ \E wellFormed \in BOOLEAN :
                toEnroller' = toEnroller \o
                    <<Status(HostByte.TpmSigned),
                      Frame("sig", [wellFormed |-> wellFormed, signer |-> tpm.key,
                                    over |-> Head(toDom0).data])>>
       \/ toEnroller' = Append(toEnroller, Status(HostByte.TpmRefusedToSign))
    /\ dom0Pc' = "rdLen"
    /\ UNCHANGED <<dom0Kept, luksVars>>

Dom0ReadsLen ==
    /\ Dom0Receives("rdLen")
    /\ dom0Key' = [dom0Key EXCEPT !.length = Head(toDom0).data]
    /\ dom0Pc' = "rdText"
    /\ UNCHANGED <<toEnroller, dom0Keyfile, dom0Slot, luksVars>>

\* As many bytes of text as announced: start cryptsetup and pass them on ...
Dom0ReadsText ==
    /\ Dom0Receives("rdText")
    /\ dom0Key' = [dom0Key EXCEPT !.text = Head(toDom0).data]
    /\ child' = "reading"
    /\ dom0Pc' = "rdKeyfile"
    /\ UNCHANGED <<toEnroller, dom0Keyfile, dom0Slot, slots, added>>

\* ... and 32 more after them.
Dom0ReadsKeyfile ==
    /\ Dom0Receives("rdKeyfile")
    /\ dom0Keyfile' = Head(toDom0).data
    /\ GetsBothKeys(dom0Key.length)
    /\ dom0Pc' = "waitAdd"
    /\ UNCHANGED <<toEnroller, dom0Key, dom0Slot, slots, added>>

\* Mutated form: the byte stays in the buffer of stdout.
AnnouncementUnflushed == <<>>

Announcement == <<Status(HostByte.DecryptionSuccess)>>

\* cryptsetup has exited with 0: dom0 says so before it knows what else to do.
Dom0Announces ==
    /\ dom0Pc = "waitAdd"
    /\ child = "ok"
    /\ toEnroller' = toEnroller \o Announcement
    /\ dom0Pc' = "rdSlot"
    /\ UNCHANGED <<besideDom0, toDom0, dom0Kept, luksVars>>

\* The byte that means that no keyslot is to be killed.
NothingToKill == 145

\* Mutated form: 0x99, as the comment above the comparison has it.
KillAskedByComment(byte) == byte # 153

KillAsked(byte) == byte # NothingToKill

\* The last byte: the end, or a second cryptsetup for the keyslot it names.
Dom0ReadsSlot ==
    /\ Dom0Receives("rdSlot")
    /\ dom0Slot' = Head(toDom0).data
    /\ \/ /\ ~KillAsked(Head(toDom0).data)
          /\ dom0Pc' = "success"
          /\ UNCHANGED child
       \/ /\ KillAsked(Head(toDom0).data)
          /\ dom0Pc' = "waitKill"
          /\ child' = "killing"
    /\ UNCHANGED <<toEnroller, dom0Key, dom0Keyfile, slots, added>>

\* Mutated form: any exit of cryptsetup is taken for a success.
KillWorkedIfItEnded == child \in {"ok", "failed"}

KillWorked == child = "ok"

Dom0HasKilled ==
    /\ dom0Pc = "waitKill"
    /\ KillWorked
    /\ dom0Pc' = "success"
    /\ UNCHANGED <<besideDom0, toDom0, toEnroller, dom0Kept, luksVars>>

\* cryptsetup has failed or was killed: the program ends with an error, ...
Dom0CryptsetupErr ==
    /\ dom0Pc \in {"waitAdd", "waitKill"}
    /\ child \in {"failed", "killed"}
    /\ dom0Pc' = "failure"
    /\ UNCHANGED <<besideDom0, toDom0, toEnroller, dom0Kept, luksVars>>

\* ... as it does at the end of the stream ...
Dom0EndOfFile ==
    /\ dom0Pc \in DOMAIN Dom0Reads
    /\ toDom0 = <<>>
    /\ hostPc = "exit"
    /\ dom0Pc' = "failure"
    /\ UNCHANGED <<besideDom0, toDom0, toEnroller, dom0Kept, luksVars>>

\* ... and on any other error, at any time: no policy that allows the call, no
\* log file, text that is no UTF-8, a program that cannot be started or waited
\* for, a stream that breaks, a log file that cannot be written at the very end.
Dom0Dies ==
    /\ ~Dom0Ended
    /\ dom0Pc' = "failure"
    /\ UNCHANGED <<besideDom0, toDom0, toEnroller, dom0Kept, luksVars>>

ByDom0 ==
    \/ Dom0Verifies
    \/ Dom0ReadsLen
    \/ Dom0ReadsText
    \/ Dom0ReadsKeyfile
    \/ Dom0Announces
    \/ Dom0ReadsSlot
    \/ Dom0HasKilled
    \/ Dom0CryptsetupErr
    \/ Dom0EndOfFile

=============================================================================
