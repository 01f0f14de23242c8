----------------------------- MODULE PassEnroll -----------------------------
(***************************************************************************)
(* What the two enrollment programs have in common once the TKey has been  *)
(* authenticated: wait until the app is ready, ask for the new passphrase  *)
(* until it has been typed twice and has an acceptable length, and have    *)
(* the app derive the keyfile. There is one attempt: whatever goes wrong   *)
(* ends the program, although the app would take another two.              *)
(***************************************************************************)
EXTENDS Session, Luks

VARIABLES
    typed,      \* the new passphrase, once its hash has been sent
    current,    \* the passphrase typed to authorise luksAddKey
    keyfile     \* `keyfile`, as decrypted

passVars == <<typed, current, keyfile>>
enrollVars == <<serialVars, clientVars, hostPc, authVars, hostPos, exitCode, tpm,
                passVars, luksVars>>

\* The app's steps. It gets at most one answer, and never has to give up.
ClientSteps ==
    \/ ClientHello
    \/ ClientReadPub
    \/ ClientReadStatus
    \/ ClientReadSig
    \/ ClientTouched
    \/ ClientTouchTimeout
    \/ ClientReady
    \/ ClientDeriveKeyfile
    \/ ClientBlake2Fails
    \/ ClientReadSuccess
    \/ ClientDone

PassEnrollInit == typed = NoPass /\ current = NoPass /\ keyfile = Garbled

\* check_status after authentication: the app has to be ready.
AwaitsReady ==
    /\ hostPc = "rdReady"
    /\ Readable(toHost, 1)
    /\ toHost' = Tail(toHost)
    /\ \/ /\ ClientMessageTryFrom(Head(toHost).data) = "Ready4pass"
          /\ hostPc' = "askNew" /\ UNCHANGED exitCode
       \/ /\ ClientMessageTryFrom(Head(toHost).data) # "Ready4pass"
          /\ HostExit("failure")
    /\ UNCHANGED <<authVars, hostPos, tpm, attached, toTkey, sniffed, passVars>>

\* Two prompts that differ, or a length out of bounds: pass_enroll calls itself.
AsksNewAgain ==
    /\ hostPc = "askNew"
    /\ UNCHANGED <<hostPc, authVars, hostPos, exitCode, tpm, serialVars, passVars>>

\* Hash the new passphrase, encrypt the hash and send it.
SendsNewHash(lengths) ==
    /\ hostPc = "askNew"
    /\ attached
    /\ \E p \in Pass :
          LET ct == Encrypt(StreamKey(hostExch), hostPos, Argon2(p))
          IN  /\ PassLen[p] \in lengths
              /\ typed' = p
              /\ toTkey' = Append(toTkey, Frame("cipher", ct))
              /\ sniffed' = sniffed \cup {ct}
    /\ hostPos' = hostPos + 1
    /\ hostPc' = "rdPass"
    /\ UNCHANGED <<authVars, exitCode, tpm, attached, toHost, current, keyfile>>

\* No terminal to ask at, argon2 fails, or the TKey is gone.
AskNewFails ==
    /\ hostPc = "askNew"
    /\ HostExit("failure")
    /\ UNCHANGED <<authVars, hostPos, tpm, serialVars, passVars>>

\* check_status after the hash: only GoodPass lets the program go on.
NewPassStatus(next) ==
    /\ hostPc = "rdPass"
    /\ Readable(toHost, 1)
    /\ toHost' = Tail(toHost)
    /\ \/ /\ ClientMessageTryFrom(Head(toHost).data) = "GoodPass"
          /\ hostPc' = next /\ UNCHANGED exitCode
       \/ /\ ClientMessageTryFrom(Head(toHost).data) # "GoodPass"
          /\ HostExit("failure")
    /\ UNCHANGED <<authVars, hostPos, tpm, attached, toTkey, sniffed, passVars>>

\* Mutated form: the keyfile is decrypted with the block that came before.
KeyfilePosStale(pos) == pos - 1

KeyfilePos(pos) == pos

\* Mutated form: the length is taken after the passphrase has been wiped.
CurrentLenWiped(p) == 0

\* The current passphrase may be an empty line.
CurrentLen(p) == IF p = NoPass THEN 0 ELSE PassLen[p]

\* The 32 bytes after GoodPass, decrypted.
TakesKeyfile ==
    /\ Readable(toHost, 32)
    /\ toHost' = Tail(toHost)
    /\ keyfile' = Decrypt(StreamKey(hostExch), KeyfilePos(hostPos),
                          Head(toHost).data)
    /\ hostPos' = hostPos + 1

\* The program is killed, or dies at a call that does not fail in practice, such as
\* getrandom (HostAuth's HostRandomFails, which is one case of this).
\* A cryptsetup that has both its keys does not notice.
HostKilled ==
    /\ hostPc # "exit"
    /\ HostExit("failure")
    /\ UNCHANGED <<authVars, hostPos, tpm, serialVars, passVars>>

\* The keyfile that the boot will derive with this binary and this passphrase.
Derived == IF typed = NoPass THEN Garbled ELSE Blake2s(app, Argon2(typed))

\* The boot's prompt (host/src/main.rs:97) counts the newline.
BootTakes(p) == PassLen[p] + 1 >= 9

OpensAtBoot ==
    /\ typed # NoPass /\ BootTakes(typed)
    /\ \E s \in Slots : slots[s] = Derived

PassEnrollTypeOK ==
    /\ attached \in BOOLEAN
    /\ LineOK(toHost) /\ LineOK(toTkey)
    /\ ClientTypeOK
    /\ hostExch \in Exchange
    /\ hostPos \in 0 .. 2
    /\ trust \in BOOLEAN
    /\ exitCode \in {"none", "success", "failure"}
    /\ typed \in {p \in Pass : BootTakes(p)} \cup {NoPass}
    /\ current \in Pass \cup {NoPass}
    /\ DOMAIN slots = Slots
    /\ child \in ChildStates
    /\ added \in BOOLEAN

=============================================================================
