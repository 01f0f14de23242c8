----------------------------- MODULE HostUnlock -----------------------------
(***************************************************************************)
(* The program the initramfs runs (host/src/main.rs): authenticate with    *)
(* TPM and TKey, then up to three times ask for a passphrase, have the     *)
(* TKey turn its hash into a keyfile and offer that to cryptsetup.         *)
(***************************************************************************)
EXTENDS HostAuth

VARIABLES
    tries,      \* iteration of main's `for tries in 1..=3`
    typed,      \* passphrase whose hash was sent last
    keyfile,    \* what was written to cryptsetup's stdin
    disk        \* "locked", or "open" under /dev/mapper

hostVars == <<hostPc, hostExch, hostPos, trust, exitCode, tries, typed, keyfile>>

HostPcs ==
    {"mount", "open", "rdNonce", "rdEncNonce", "rdTkeyPub", "tpm", "rdAuth",
     "rdReady", "ask", "rdPass", "rdKeyfile", "cryptsetup", "exit"}

\* Mutated form: the loop bound is off by one.
HostTriesOffByOne == 4

HostTries == 3

HashTerms == {Argon2(p) : p \in Pass} \cup {Garbled}

KeyfileTerms == {Blake2s(a, h) : a \in Apps, h \in HashTerms} \cup {Garbled}

HostTypeOK ==
    /\ hostPc \in HostPcs
    /\ hostExch \in Exchange
    /\ hostPos \in Nat
    /\ trust \in BOOLEAN
    /\ exitCode \in {"none", "success", "failure"}
    /\ tpm \in [key : Keys \cup {NoKey}, pcrsMatch : BOOLEAN]
    /\ tries \in 1 .. HostTries
    /\ typed \in {p \in Pass : PassLen[p] >= 8} \cup {NoPass}
    /\ keyfile \in KeyfileTerms
    /\ disk \in {"locked", "open"}

HostInit ==
    /\ AuthInit
    /\ hostPc = "mount"
    /\ tries = 1
    /\ typed = NoPass
    /\ keyfile = Garbled
    /\ disk = "locked"

mainVars == <<hostExch, trust, typed, tpm>>

-----------------------------------------------------------------------------
\* Mount /boot and read the client binary ...
HostMount ==
    /\ hostPc = "mount"
    /\ hostPc' = "open"
    /\ UNCHANGED <<mainVars, hostPos, exitCode, tries, keyfile, disk, serialVars>>

\* ... either of which may fail.
HostMountFails ==
    /\ hostPc = "mount"
    /\ HostExit("failure")
    /\ UNCHANGED <<mainVars, hostPos, tries, keyfile, disk, serialVars>>

\* An iteration begins with the app saying that it is ready.
HostReady ==
    /\ hostPc = "rdReady"
    /\ Readable(toHost, 1)
    /\ toHost' = Tail(toHost)
    /\ IF ClientMessageTryFrom(Head(toHost).data) = "Ready4pass"
       THEN hostPc' = "ask" /\ UNCHANGED exitCode
       ELSE HostExit("failure")
    /\ UNCHANGED <<mainVars, hostPos, tries, keyfile, disk, attached, toTkey,
                   sniffed>>

\* systemd-ask-password prints the passphrase and a newline, and nothing at
\* all when the user cancels or the prompt times out.
PromptOutputLen(p) == IF p = NoPass THEN 0 ELSE PassLen[p] + 1

LongEnough(p) == PromptOutputLen(p) >= 9

\* ask_for_password calls itself again: nothing was sent, no try was spent.
HostAsksAgain ==
    /\ hostPc = "ask"
    /\ \E p \in Pass \cup {NoPass} : ~LongEnough(p)
    /\ UNCHANGED <<hostVars, tpm, disk, serialVars>>

\* Hash the passphrase, encrypt the hash and send it.
HostSendsHash ==
    /\ hostPc = "ask"
    /\ attached
    /\ \E p \in Pass :
          LET ct == Encrypt(StreamKey(hostExch), hostPos, Argon2(p))
          IN  /\ LongEnough(p)
              /\ typed' = p
              /\ toTkey' = Append(toTkey, Frame("cipher", ct))
              /\ sniffed' = sniffed \cup {ct}
    /\ hostPos' = hostPos + 1
    /\ hostPc' = "rdPass"
    /\ UNCHANGED <<hostExch, trust, exitCode, tries, keyfile, tpm, disk,
                   attached, toHost>>

\* The prompt cannot be started, argon2 fails, or the TKey is gone.
HostAskFails ==
    /\ hostPc = "ask"
    /\ HostExit("failure")
    /\ UNCHANGED <<mainVars, hostPos, tries, keyfile, disk, serialVars>>

\* Mutated form: a failed attempt goes round again without being counted.
NextTryUncounted ==
    tries' = tries /\ hostPc' = "rdReady" /\ UNCHANGED exitCode

\* `continue`: the next iteration, or the end of the loop after the last.
NextTry ==
    IF tries < HostTries
    THEN tries' = tries + 1 /\ hostPc' = "rdReady" /\ UNCHANGED exitCode
    ELSE HostExit("failure") /\ UNCHANGED tries

\* The app's answer to the hash: a keyfile follows, or the attempt is over.
HostPassStatus ==
    /\ hostPc = "rdPass"
    /\ Readable(toHost, 1)
    /\ toHost' = Tail(toHost)
    /\ LET name == ClientMessageTryFrom(Head(toHost).data)
       IN  CASE name = "GoodPass" ->
                  hostPc' = "rdKeyfile" /\ UNCHANGED <<tries, exitCode>>
             [] name \in {"PassLen", "Blake2"} -> NextTry
             [] OTHER -> HostExit("failure") /\ UNCHANGED tries
    /\ UNCHANGED <<mainVars, hostPos, keyfile, disk, attached, toTkey, sniffed>>

\* Mutated form: the keyfile is decrypted with the block that came before.
DecryptPosStale(pos) == pos - 1

DecryptPos(pos) == pos

\* Read the keyfile, start cryptsetup and pipe the decrypted keyfile into it.
HostPipesKeyfile ==
    /\ hostPc = "rdKeyfile"
    /\ Readable(toHost, 32)
    /\ toHost' = Tail(toHost)
    /\ keyfile' = Decrypt(StreamKey(hostExch), DecryptPos(hostPos),
                          Head(toHost).data)
    /\ hostPos' = hostPos + 1
    /\ hostPc' = "cryptsetup"
    /\ UNCHANGED <<mainVars, exitCode, tries, disk, attached, toTkey, sniffed>>

\* cryptsetup cannot be started, or has no stdin: the app is told nothing.
HostSpawnFails ==
    /\ hostPc = "rdKeyfile"
    /\ Readable(toHost, 32)
    /\ toHost' = Tail(toHost)
    /\ HostExit("failure")
    /\ UNCHANGED <<mainVars, hostPos, tries, keyfile, disk, attached, toTkey,
                   sniffed>>

\* write_all to the TKey; a write to a TKey that is gone goes nowhere.
TellTkey(byte) ==
    toTkey' = IF attached THEN Append(toTkey, Status(byte)) ELSE toTkey

\* Mutated form: the app hears of success before cryptsetup has said so.
VerdictForFailurePremature == HostByte.DecryptionSuccess

VerdictForFailure == HostByte.DecryptionError

\* cryptsetup exits with 0: the mapping exists. The write that tells the app
\* may fail without consequence (`let _ =`).
CryptsetupOpens ==
    /\ hostPc = "cryptsetup"
    /\ keyfile \in Keyslots
    /\ disk = "locked"
    /\ disk' = "open"
    /\ TellTkey(HostByte.DecryptionSuccess)
    /\ HostExit("success")
    /\ UNCHANGED <<mainVars, hostPos, tries, keyfile, attached, toHost, sniffed>>

\* The app is told of the failure and may try again; if it cannot be told, the
\* program ends here.
ReportFailure ==
    /\ TellTkey(VerdictForFailure)
    /\ IF attached THEN NextTry ELSE HostExit("failure") /\ UNCHANGED tries
    /\ UNCHANGED <<mainVars, hostPos, keyfile, attached, toHost, sniffed>>

\* cryptsetup exits with another code, which it may do whatever the keyfile.
CryptsetupRefuses ==
    /\ hostPc = "cryptsetup"
    /\ ReportFailure
    /\ UNCHANGED disk

\* cryptsetup is killed, before or after it has opened the disk.
CryptsetupKilled ==
    /\ hostPc = "cryptsetup"
    /\ ReportFailure
    /\ disk' \in {disk} \cup {d \in {"open"} : keyfile \in Keyslots}

\* The pipe to cryptsetup breaks: the app is told, the program ends.
HostPipeBreaks ==
    /\ hostPc = "cryptsetup"
    /\ TellTkey(VerdictForFailure)
    /\ HostExit("failure")
    /\ UNCHANGED <<mainVars, hostPos, tries, keyfile, disk, attached, toHost,
                   sniffed>>

\* wait() itself fails: the program ends without a word to the app.
HostWaitFails ==
    /\ hostPc = "cryptsetup"
    /\ HostExit("failure")
    /\ UNCHANGED <<mainVars, hostPos, tries, keyfile, disk, serialVars>>

=============================================================================
