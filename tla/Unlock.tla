------------------------------- MODULE Unlock -------------------------------
(***************************************************************************)
(* One boot: the initramfs program (HostUnlock), the TKey app (TkeyClient) *)
(* and the serial line between them (Serial), with the user, the TPM,      *)
(* cryptsetup and systemd around them. The two programs are sequential and *)
(* run concurrently; either may be ahead of the other by whatever the line *)
(* can hold, and the user may pull the TKey out at any time.               *)
(***************************************************************************)
EXTENDS Session, HostUnlock

VARIABLE unit   \* "waiting" or "started": systemd's own cryptsetup unit

hostSide == <<hostVars, tpm, disk, unit>>
mainSide == <<tries, typed, keyfile, disk>>
besideAuth == <<clientVars, mainSide, unit>>
besideMain == <<clientVars, unit>>

vars == <<serialVars, clientVars, hostVars, tpm, disk, unit>>

Init ==
    /\ SerialInit
    /\ ClientInit
    /\ HostInit
    /\ unit = "waiting"

\* load_app moves both sides: the app starts, the host waits for its nonce.
LoadApp == HostLoads /\ ClientBoot /\ UNCHANGED <<mainSide, unit>>

ByClient ==
    \/ ClientHello         /\ UNCHANGED hostSide
    \/ ClientReadPub       /\ UNCHANGED hostSide
    \/ ClientReadStatus    /\ UNCHANGED hostSide
    \/ ClientReadSig       /\ UNCHANGED hostSide
    \/ ClientTouched       /\ UNCHANGED hostSide
    \/ ClientTouchTimeout  /\ UNCHANGED hostSide
    \/ ClientReady         /\ UNCHANGED hostSide
    \/ ClientGiveUp        /\ UNCHANGED hostSide
    \/ ClientDeriveKeyfile /\ UNCHANGED hostSide
    \/ ClientBlake2Fails   /\ UNCHANGED hostSide
    \/ ClientReadSuccess   /\ UNCHANGED hostSide
    \/ ClientDone          /\ UNCHANGED hostSide

\* The steps of auth_with_tkey_and_tpm, which leave main's own state alone.
ByHostLibrary ==
    \/ HostReadNonce    /\ UNCHANGED besideAuth
    \/ HostReadEncNonce /\ UNCHANGED besideAuth
    \/ HostRandomFails  /\ UNCHANGED besideAuth
    \/ HostReadTkeyPub  /\ UNCHANGED besideAuth
    \/ TpmSigns         /\ UNCHANGED besideAuth
    \/ TpmRefuses       /\ UNCHANGED besideAuth
    \/ HostAuthStatus   /\ UNCHANGED besideAuth
    \/ HostLoadFails    /\ UNCHANGED besideAuth
    \/ HostIoError      /\ UNCHANGED besideAuth

ByHostMain ==
    \/ HostMount         /\ UNCHANGED besideMain
    \/ HostMountFails    /\ UNCHANGED besideMain
    \/ HostReady         /\ UNCHANGED besideMain
    \/ HostAsksAgain     /\ UNCHANGED besideMain
    \/ HostSendsHash     /\ UNCHANGED besideMain
    \/ HostAskFails      /\ UNCHANGED besideMain
    \/ HostPassStatus    /\ UNCHANGED besideMain
    \/ HostPipesKeyfile  /\ UNCHANGED besideMain
    \/ HostSpawnFails    /\ UNCHANGED besideMain
    \/ CryptsetupOpens   /\ UNCHANGED besideMain
    \/ CryptsetupRefuses /\ UNCHANGED besideMain
    \/ CryptsetupKilled  /\ UNCHANGED besideMain
    \/ HostPipeBreaks    /\ UNCHANGED besideMain
    \/ HostWaitFails     /\ UNCHANGED besideMain

Unplug == HangUp /\ ClientLosesPower /\ UNCHANGED hostSide

\* The service is a oneshot ordered Before= systemd's cryptsetup unit, with no
\* start timeout: the unit starts once the program has ended, however it ended.
StartCryptsetupUnit ==
    /\ unit = "waiting"
    /\ hostPc = "exit"
    /\ unit' = "started"
    /\ UNCHANGED <<serialVars, clientVars, hostVars, tpm, disk>>

ByHost == LoadApp \/ ByHostLibrary \/ ByHostMain

Next == ByClient \/ ByHost \/ StartCryptsetupUnit \/ Unplug

Spec == Init /\ [][Next]_vars

\* Both programs keep running, and what they call comes back: the TPM and
\* cryptsetup answer, a touch request ends after 30 seconds one way or the
\* other, and the user ends up typing a passphrase that is long enough.
\* Nobody has to pull the TKey out.
Fairness ==
    /\ WF_vars(ByClient)
    /\ WF_vars(ByHost)
    /\ WF_vars(StartCryptsetupUnit)

FairSpec == Spec /\ Fairness

-----------------------------------------------------------------------------
(* Properties. *)

\* Every variable has its type: three attempts bound the app's counter and
\* three tries the host's (client/src/main.rs:163, host/src/main.rs:38), and
\* the line carries well-formed frames only.
TypeOK ==
    /\ attached \in BOOLEAN
    /\ LineOK(toHost) /\ LineOK(toTkey)
    /\ \A ct \in sniffed : ct.pos \in Nat
    /\ ClientTypeOK
    /\ HostTypeOK
    /\ unit \in {"waiting", "started"}

\* The host's loop "mirrors 3 tries client allows" (host/src/main.rs:37): when
\* it prompts or works on a keyfile, both sides are in the same attempt.
TriesMirrored ==
    attached /\ hostPc \in {"ask", "rdKeyfile", "cryptsetup"} =>
        tries = attempts

\* The prompt and the light agree: the host shows the "trustworthy" prompt
\* exactly when the TKey, which the user is told to believe, shines green.
TrustMatchesLight ==
    attached /\ hostPc \in {"ask", "rdKeyfile", "cryptsetup"} =>
        (trust <=> led = "green")

\* What reaches cryptsetup is the keyfile of the loaded app and of the passphrase
\* typed last, whatever failed before: the two cipher positions, the key
\* exchange and the framing all have to be right for that.
CryptsetupGetsDerivedKeyfile ==
    hostPc = "cryptsetup" => keyfile = Blake2s(app, Argon2(typed))

\* Success is announced, to the TKey and to systemd, only for an open disk.
SuccessMeansOpen ==
    clientPc \in {"farewell", "done"} \/ exitCode = "success" => disk = "open"

\* The gate, read off the app: its program counter and its light.
GateState ==
    CASE clientPc \in {"abort", "farewell", "done", "off"} -> "closed"
      [] clientPc \in {"top", "rdHash", "rdSuccess"} /\ led = "green" -> "attested"
      [] clientPc \in {"top", "rdHash", "rdSuccess"} /\ led \in {"purple", "yellow"} ->
             "overridden"
      [] OTHER -> "shut"

\* The passphrases whose keyfile, made by the loaded app, opens a keyslot.
OpensWithApp == {p \in Pass : Blake2s(app, Argon2(p)) \in Keyslots}

TpmAttestsToApp == tpm.pcrsMatch /\ tpm.key = BakedKey[app]

\* The abstract promise: one gate, at most three guesses, and a disk that opens
\* only for an enrolled passphrase offered through the gate.
Gate ==
    INSTANCE PassphraseGate WITH
        MaxGuesses <- 3,
        Passphrases <- Pass,
        NoGuess <- NoPass,
        gate <- GateState,
        guesses <- attempts,
        guess <- typed,
        opens <- OpensWithApp,
        attests <- TpmAttestsToApp,
        diskOpen <- (disk = "open")

RefinesGate == Gate!Spec

\* Once the gate is open, by signature or by touch, the boot goes on: the host
\* program ends, with the disk open or not, and systemd's unit starts.
GateReleasesBoot ==
    (led \in {"green", "purple", "yellow"}) ~> (unit = "started")

\* Pulling the TKey out releases a boot that waits for it.
UnplugReleasesBoot == (~attached) ~> (unit = "started")

\* README.md:98 and qubes_enrollpt1.sh:51: whatever goes wrong, the boot falls
\* through to the normal unlock sequence.
FallsThrough == <>(unit = "started")

=============================================================================
