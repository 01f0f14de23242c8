# Verification of tkey-tpm-luks

tkey-tpm-luks unlocks a LUKS disk at boot with a passphrase, a Tillitis TKey and
a TPM. The TPM signs a challenge of the TKey if the measured boot is the
enrolled one; the TKey shows by its light whether it believes the signature;
the user types a passphrase; the TKey turns its hash into the keyfile, which
exists nowhere else; cryptsetup opens the disk with it. This directory holds
TLA+ models of that system, the TLC runs that check them, and proofs that
TLAPS checks.

Paths below are relative to the repository root (`src/` in PROJECT.json).

## 1. Inventory

| component | where | state it keeps | operations |
|---|---|---|---|
| TKey app | `client/src/main.rs` | position in `main`, loop counter, nonces and keys of the session, position in its ChaCha20 stream, LED | hello, key exchange, `verify_sig`, touch requests, three attempts (decrypt hash, `blake2s` with the CDI, encrypt keyfile, hear the verdict), farewell, abort |
| Serial line | `Tkey` in `host/src/lib.rs` | bytes in flight in each direction, attached or not | open, read_exact, write_all, hang up |
| Host library | `host/src/lib.rs` | `trustworthy`, its copy of the cipher and of the exchange | `load_app`, `get_chacha20_cipher`, `verify` (TPM), `auth_with_tkey_and_tpm`, `check_status` |
| Boot program | `host/src/main.rs` | `tries`, the cryptsetup child, exit status | mount, prompt (`ask_for_password`), `decrypt`, verdict to the app |
| Boot ordering | `dracut/*.service` | units waiting or started | the service runs before systemd's cryptsetup unit, with no start timeout |
| Linux enrollment | `host/src/bin/enroll.rs` | session, new and current passphrase, the cryptsetup child and its pipe | authenticate, ask twice for the new passphrase, ask for the current one, `luksAddKey`, verdict to the app; one attempt |
| Qubes enrollment | `host/src/bin/qubes_enroll.rs` | session, keyslot to kill, both ends of the qrexec stream; no disk, no TPM | check the slot, forward challenge and verdict, send length, passphrase, keyfile and slot to dom0, wait for its exit code |
| dom0 verifier | `host/src/bin/verify.rs` | what it has read of the stream, the LUKS header | sign the challenge; read length, passphrase, keyfile; `luksAddKey`, announce; read one byte, stop or hand it to `luksKillSlot` |
| Provisioning | `enroll.sh`, `setup_part{1,2}.sh`, `qubes_enrollpt{1,2}.sh` | TPM key at 0x81000001, exported public key, client and enrollment program built from it, `/boot/client` and `client.old`, LUKS slots | replace them one after the other, again after each update |
| Build glue | `client/build.rs`, `client/app.lds` | none | refuse a baked key that is not a P-256 point |

How they interact. Host and app are two sequential programs that talk over one
reliable byte stream per direction. Both block in reads without time limit, and
tell frames apart only by order and length. Each advances its own copy of one
ChaCha20 stream. The app's loop and the host's loop count their attempts
separately. The TPM and cryptsetup are calls of the host; the user touches the
TKey, types, and may pull it out at any time. systemd waits for the host
program. In the Qubes set-up a second pair of programs talks over a qrexec
stream, with the LUKS header on the far side.

What is hard. (1) The app runs ahead of the host: after an error byte it goes
on to write `Ready4pass`, so the two are in different attempts for a while.
(2) A Blake2 failure moves the ciphers on by one block instead of two. (3)
Errors that one side leaves by and the other does not. (4) `trustworthy` is set
before the TKey has judged the signature. (5) cryptsetup may die after it has
done its work. (6) Everything the initramfs program waits for, the boot waits
for. (7) `load_app` writes 129-byte frames without reading and then polls the
receive buffer for exactly the replies it expects. (8) Provisioning replaces
four things that have to fit together, one at a time, and may stop between any
two. (9) The qrexec stream has no framing: a length, a verdict, an
announcement and a keyslot number are all single bytes, known by their place;
one program stands between two others and reads from each; dom0 reports a
failure only by closing the stream. (10) Two secrets go through one pipe to a
cryptsetup that outlives the program that started it.

What makes each part correct.
- *App and host together*: reads and writes stay aligned; they never wait for
  each other; no key stream block encrypts two values; the light, the prompt
  and the facts agree; cryptsetup gets the keyfile of the right app and of the
  passphrase typed last; success is announced only for an open disk.
- *The TKey as a gate*: no guess before attestation or touch, at most three
  guesses per power-on, the disk opens only for an enrolled passphrase that was
  offered.
- *Boot ordering*: the boot ends up at systemd's own unit.
- *load_app*: `Ok` only if the firmware runs exactly the binary that was read,
  and then nothing but the app's own bytes is left on the line.
- *Enrollment*: what the TKey hears of as success is a keyslot that opens with
  the keyfile of this app and the new passphrase; a failure leaves the old
  keyslots alone.
- *dom0 verifier*: it never kills a slot unless the new key is in place.
- *Provisioning*: a run that completes leaves a TPM key, a client on `/boot` and
  a keyslot that fit together; after a failure between two steps something still
  opens the disk; running the script again heals it.

## 2. Modules

| module | models | notes |
|---|---|---|
| `Protocol` | status bytes of both crates, frame sizes, cryptographic terms | constants only |
| `Serial` | the line: `toHost`, `toTkey`, `attached`, and what a sniffer saw | `HangUp` empties it |
| `TkeyClient` | `client/src/main.rs` | one action from one blocking point to the next; used by every session |
| `HostAuth` | the host library | the same, used by every host program |
| `HostUnlock` | `host/src/main.rs` and what it calls: the prompt, cryptsetup | EXTENDS HostAuth |
| `Session` | nothing of its own: what must hold of app, line and any host program | EXTENDS TkeyClient, HostAuth |
| `Unlock` | one boot: both programs, the line, systemd | EXTENDS Session, HostUnlock; properties and fairness are here |
| `PassphraseGate` | the abstract promise | implemented by `Unlock` |
| `SessionInvariant` | frames and places that every invariant of a session names | EXTENDS Session |
| `SessionLemmas` | lemmas on short lines and on the two tables of status bytes | cited by the proofs of every session |
| `UnlockInvariant` | the inductive invariant `IInv` | EXTENDS Unlock, SessionInvariant |
| `UnlockProofs` | theorems and proofs | EXTENDS UnlockInvariant, SessionLemmas |
| `MCUnlock` | the instance of `Unlock` that TLC checks | two apps, three passphrases |
| `AppLoader` | `load_app`: frames, poll, digest; the firmware as an external party | one step of `Unlock` in detail |
| `AppLoaderProofs` | its invariant, theorems and proofs | EXTENDS AppLoader, TLAPS |
| `MCAppLoader` | the instance of `AppLoader` that TLC checks | lengths at each boundary |
| `Luks` | keyslots and the cryptsetup child of an enrollment | external, as the programs use it |
| `PassEnroll` | what `enroll.rs` and `qubes_enroll.rs` share: new passphrase, keyfile | EXTENDS Session, Luks |
| `LinuxEnroll` | `enroll.rs`, with app, line and cryptsetup | EXTENDS PassEnroll |
| `Dom0Verify` | `verify.rs` and the stream | EXTENDS PassEnroll |
| `QubesEnroll` | `qubes_enroll.rs`, with app, line, stream, dom0 and cryptsetup | EXTENDS Dom0Verify |
| `KeyslotEnrollment` | the abstract promise of an enrollment | implemented by `LinuxEnroll` and by `QubesEnroll` |
| `KeyslotEnrollmentProofs` | what follows from that promise alone | EXTENDS KeyslotEnrollment, TLAPS; instantiated by the proofs of both programs |
| `EnrollInvariant` | `SessionInv`, what is inductive of both enrollments | EXTENDS PassEnroll, SessionInvariant |
| `EnrollProofs` | every step of app and program keeps it | EXTENDS EnrollInvariant, SessionLemmas |
| `LinuxEnrollProofs`, `QubesEnrollProofs` | the rest of each invariant, theorems and proofs | EXTENDS the program's module, EnrollProofs |
| `MCLinuxEnroll`, `MCQubesEnroll` | the instances that TLC checks | three keyslots |
| `Provisioning` | the scripts, from one update to the next, with failures | `LinuxEnroll` or `QubesEnroll` as its steps `Enroll` and `KillSlot` |
| `ProvisioningProofs` | its invariant, theorems and proofs | EXTENDS Provisioning, TLAPS |
| `MCProvisioning` | the instance of `Provisioning` that TLC checks | |

State and code. `clientPc` names the read, touch request or sleep at which the
app is blocked, `hostPc` the same for the host. `clientExch`/`hostExch` are
each side's copy of nonce, encryption nonce and the two public keys.
`clientPos`/`hostPos` count the 32-byte pieces each side has taken from its
cipher. `attempts` is the `1..=3` loop of the app, `tries` that of the host,
`trust` is `trustworthy`, `keyfile` is what was written to cryptsetup's stdin,
`typed` the passphrase whose hash went out last. `app` is the binary loaded,
which stands for the CDI, and with it for the key baked into it. `sniffed` is a
history variable: every ciphertext that crossed the line. Actions are named
for what the code does between two blocking points; PROJECT.json's `map` gives
the lines of each.

`AppLoader` counts bytes where `Unlock` has frames. `hostAt` is the place in
`load_app`; `written`, `hashed`, `passes` and `num` are its locals; `taken` is
how many bytes of the TKey it has read, `sent` how many the TKey has written,
`readyAt` where among those the reply with the digest begins. `Unlock`'s
`LoadApp` stands for its `hostAt = "ok"`, `HostLoadFails` for `"error"`: that
after `Ok` the line holds the app's hello and nothing else, on which all the
framing in `Unlock` rests, is property `OkLeavesOnlyHello`. What `AppLoader`
shows never to return (section 6) is a boot that hangs before it reaches
`Unlock`'s first read, and `Unlock` starts with a TKey in firmware mode.

In the enrollments `typed` is the new passphrase, `current` the one that
authorises `luksAddKey`, `keyfile` the local of that name. `slots` maps each
keyslot to the key that opens it, `child` is where the cryptsetup child is and how
it ended, `added` a history variable. `OpensAtBoot` ties the enrollment to the
boot: a keyslot holds what `HostUnlock` will derive, and the prompt of
`host/src/main.rs` takes the passphrase. In `QubesEnroll` the program between the
two channels is `hostPc`, dom0's is `dom0Pc`; `toDom0` and `toEnroller` are the
stream, `dom0Key` and `dom0Keyfile` what dom0 has made of it, `doomed` is
`slot_to_kill` of the enroller and `dom0Slot` the byte that dom0 has made of it: cryptsetup kills
`dom0Slot`. `SendsCurrent` puts on the stream what dom0 will *read*: where the
length byte wraps, dom0's text is a prefix and the rest comes before the keyfile. It is
one action for three writes, because dom0 reads them in three steps and blocks in between: a
program that dies between two writes is, to dom0, `Killed` followed by `Dom0Dies`.
The program keeps no `trustworthy`; the variable `trust` is there what the app
has answered.

In `Provisioning` a client binary is known by the number of the TPM key baked
into it. `tpm` is the key at the handle and the boot chain its policy is bound
to, `files` the exported public key, its copy at the builder, the client built from it
and the client inside the enrollment program, `boot` is `/boot/client` and
`client.old`, `chain` the boot chain installed and the one last measured, `step`
the step of the script; `failedRuns` and `outcome` are history variables.
`outcome` is what the *user* is told: by the script when it stops, by
the enrollment program when it ends. The Qubes script does not see the latter's exit status,
because it starts it with `xfce4-terminal -x` in another VM (`qubes_enrollpt2.sh:81`), and what
comes after it in the script changes nothing that is modelled. The scripts' `Enroll` and
`KillSlot` are the enrollment programs in one step each; the programs themselves are
`LinuxEnroll` and `QubesEnroll`.

In the enrollments `exitCode` is the status the shell sees. It is `"failure"` (1) for
`ExitCode::FAILURE` and for every `Err` that `main` returns, so it does not tell a keyslot that
was not filled from one whose filling could not be reported.

Abstractions.
- A frame is one unit, because both sides write a whole value and read exactly
  as many bytes. A read is enabled when the next frame has the size it asks
  for; whether that frame is of the *kind* it expects is property
  `FramingInSync`, and a read that meets another size stays blocked.
- A status byte means what the reader's table says; the two crates have their
  own tables and the model has both.
- Cryptography is terms: two different terms are two different values,
  decryption with another key or position gives `Garbled`, a signature is its
  signer and what it is over. Argon2, BLAKE2s and X25519 are constructors.
- `verify()` is what it returns: a signature of the key at the handle if the
  PCRs are the enrolled ones, an error, or an error for any other reason. That
  a signature may not parse at the app (`MalformedSig`) is a free choice.
- The firmware is modelled from what `load_app` relies on: a 5-byte reply to
  each frame, a 129-byte reply with the digest to the last, a refusal of
  apps of 0 bytes or more than 128 KiB. A frame may be damaged, which the digest
  is there for, or arrive with bytes missing, which the poll is there for; then
  the firmware takes the next frame for the rest of this one and understands
  nothing more. Headers are not damaged. The binary is its length and whether
  every byte of it arrived unchanged; two digests are equal if they are over the
  same number of unchanged bytes. The tty shows a reader at most `TtyBuffer`
  bytes and loses none.
- An app of an earlier session may write any bytes, at most as many as
  `client/src/main.rs` can write, whatever it reads; one that has ended (`done()`
  or `abort()` of rustkey) writes none.
- cryptsetup is modelled from how the programs call it. With `--keyfile-size 0` it
  does not cut the first key off and reads on to an end of file (`"starved"`).
  `luksAddKey` needs a keyslot that the first key opens and a free one;
  `luksKillSlot` needs a key of a keyslot that stays. It may fail for any other
  reason, be killed before or after it has changed the header, and it goes on
  when the program that started it has ended. A passphrase's text, or a prefix of
  it, is no keyfile.
- The qrexec stream is reliable and ordered; its end is seen once everything in it
  has been read. dom0's program is there from the start, and may die at any time.
- Every `?` that ends a program is an action that may or may not happen. `getrandom` failing
  (`host/src/lib.rs:436`) is `HostRandomFails` at boot and a case of `HostKilled` in the enrollments.
- The length of the binary `as u32` (`host/src/lib.rs:365`) has no width: `client/app.lds` has
  128 KB for it. (The lengths that can wrap, a passphrase's `as u8`, do wrap: `LenByte`.)
- A script step happens or fails. Where a command writes a file (the exported public key, the
  client, `/boot/client`, the enrollment program), failing may also leave half of it
  (`HalfWritten`, `Broken`). A failure may come with a reboot.
- The failures after which the system has nothing left to do (sleep, unmount,
  wording, LED blinking patterns, zeroizing) are left out.

## 3. Runs

| run | specification | question |
|---|---|---|
| `unlock_safety` | `Spec`, two random values (interchangeable, so symmetric) | all nine safety properties, over every interleaving of one boot with all failures and an unplug anywhere |
| `unlock_refines` | `Spec`, one random value | `Unlock` implements `PassphraseGate` (no symmetry: a refinement is a temporal property) |
| `unlock_liveness` | `FairSpec`, one random value | once the gate is open, or the TKey is out, the boot goes on |
| `unlock_falls_through` | `FairSpec` | the README's fall-through promise; violated, see section 6 |
| `loader` | `FairSpec` of `AppLoader` | `Ok` means loaded and the line is clean; an error has a cause; `load_app` returns |
| `loader_app_mode` | `FairSpec`, one length | the documented error for a TKey in app mode; violated, see section 6 |
| `linux_enroll` | `FairSpec` of `LinuxEnroll` | framing, reports, the abstract promise and termination of an enrollment in which every program may fail or be killed and the TKey be pulled out |
| `qubes_enroll` | `FairSpec` of `QubesEnroll` | the same for three programs on two channels, with and without `--kill-slot` |
| `qubes_length` | `Spec` of `QubesEnroll` | dom0 gets what was typed; violated, see section 6 |
| `qubes_kill` | `Spec` of `QubesEnroll` | a keyslot is killed only for the enrolled binary; violated, see section 6 |
| `provisioning` | `FairSpec` of `Provisioning` | what completed runs, failed runs and repeated runs leave behind, and when a keyslot may go |
| `provisioning_slot` | `Spec` of `Provisioning` | no run starts with an invalid keyslot number; violated, see section 6 |

Bounds and why they are enough. In `Unlock`, two apps with different baked keys and a TPM
that holds either key or none, with PCRs that match or not: every outcome of
attestation. Three passphrases: one enrolled for one app, one wrong, and one a
byte too short for the prompt, so a keyfile can be right, wrong for the
passphrase or wrong for the app. Two random values let two sessions' values
differ from each other and coincide; the first is what shows that nothing is
mixed up, the second is what a bad generator could give (the properties hold
even then). The attempts are the code's own three; nothing else is bounded.
The state space is finite as it stands. In `AppLoader` the chunk size is the
code's 127, with lengths one below, at and one above one chunk, two chunks and
four chunks, the empty binary and one the firmware refuses. `PollLimit` is 3 in
place of 70, and `TtyBuffer` 17 in place of 4096: the replies of three chunks
fit, those of four do not, so a load can succeed, run out of passes on a slow
line, or wait for replies that cannot become visible. The proofs hold for every
value of all three.

An enrollment finds three keyslots in place of 32: the user's passphrase alone, with an
older keyfile beside it, or a full header, so that `luksAddKey` can succeed, take
the wrong first key and find no room, and the slot to kill can be in use, unused,
the one just filled, or 32, which LUKS2 has not. Passphrases have 20 bytes, 8 (the
shortest that is taken), 7 (the longest that is not) and, on Qubes, 300, which
wraps to a length byte of 44; the current one may also be empty. Two apps and one
random value: what two random values show is `unlock_safety`'s question, and the
app and `HostAuth` are the same here. Nothing else is bounded.

`Provisioning` is bounded by `MaxRuns = 3` runs, one more after each of
`MaxFaults = 2` failures (a mistyped keyslot counts as one), and `MaxUpdates = 1`
update of what the PCRs measure. Three runs are a first, one that replaces what the first
has left, and one that meets a full header of three keyslots; two failures hit
two runs in a row, or one run and the one that was to heal it; one update makes a
completed run outdated. What holds of numbers 32 and 33 differs in the script and in
the program, so `--kill-slot` is 0, 1, 32 or 33. The proofs hold without these bounds.

Deadlock is not checked: one boot ends, with both programs gone, and the app
waits for ever when the host ends without a word. That the two never wait for
*each other* is property `NoMutualWait`, and `NoThreeWayWait` on Qubes. An
enrollment ends, and so do the scripts when the bounds are used up.

Fairness. `WF` of each program as a whole: each is a single thread that
runs when it can. What a program is given as input it cannot choose, so there
is no fairness on a particular outcome, except the one that comes with the
`WF`s: a touch request ends after 30 seconds one way or the other, TPM and
cryptsetup return, and the user at the prompt, who may type short passphrases
as long as he likes in the code's recursion, eventually does something else
(`HostAsksAgain` changes nothing, so it is a stuttering step). There is no
fairness on `Unplug`: nobody has to pull the TKey. In `AppLoader`, `WF` of host
and of firmware, and none on the writes of an old app. In the enrollments, `WF` of
app, program, cryptsetup and, on Qubes, dom0's program, for the same reason; none
on `Unplug`, `Killed` and `Dom0Dies`. In `Provisioning`, `WF` of the script as a whole:
it goes on unless it fails, and a user whose run has failed runs it again, as
the scripts tell him to; none on failures, updates, reboots and mistakes.

## 4. Properties

- `FramingInSync`: what is next on a line is what the reader blocked on it
  expects.
- `NoMutualWait`: the two programs are never both blocked in reads with nothing
  under way. (The host may wait for an app that has aborted: section 6.)
- `NoKeystreamReuse`: no 32-byte block of a key stream encrypts two different
  values.
- `TriesMirrored`: while the host prompts or works on a keyfile, its try and the
  app's attempt are the same one.
- `TrustMatchesLight`: then, too, the prompt claims trust exactly when the light
  is green.
- `LightTellsTheTruth`: green in the loop means that the PCRs match, that the TPM
  holds the key baked into this app and that both sides have the same exchange; purple
  means that the TPM holds another key, and never that the two put the signed bytes together
  differently.
- `CryptsetupGetsDerivedKeyfile`: cryptsetup is given the keyfile of the loaded
  app and the last passphrase, whatever failed before.
- `SuccessMeansOpen`: neither the TKey nor systemd hears of success unless the
  disk is open.
- `RefinesGate`: `Unlock` implements `PassphraseGate`. The gate is read off the
  app: open as *attested* or *overridden* in the loop by its light, closed once
  it has aborted, finished or lost power.
- `GateReleasesBoot`, `UnplugReleasesBoot`: liveness under `FairSpec`. The first
  says that after green, purple or yellow the boot reaches systemd's own unit
  whatever the user types and however often Blake2 or cryptsetup fails: this is
  where the app's and the host's ways out of the loop have to match.
- `OkMeansLoaded`: `load_app` returns `Ok` only if the TKey runs exactly what was
  read.
- `OkLeavesOnlyHello`: then the next byte to be read is the first of the app's
  hello.
- `ErrorHasACause`: `load_app` fails only because of an unplug, a size the firmware
  refuses, a TKey in app mode, lost or damaged bytes, or a poll that ran out.
- `LoadReturns`: `load_app` comes back, unless it talks to an app already running
  or to a firmware that misses bytes, and the TKey stays plugged in.
- `FramingInSync` and `NoMutualWait` again, of `LinuxEnroll`, whose program takes
  other ways out of the same session. (`NoKeystreamReuse` would say nothing there:
  one attempt uses two blocks.)
- `ReportsAreTrue`: after the app's green farewell or exit code 0 a keyslot opens at
  the next boot with the passphrase just chosen, and the app is sent into another attempt
  only if no keyslot was filled. Exit code 1 promises nothing: a keyslot may have been filled.
- `BothChannelsInSync`: every reader on the serial line and on the qrexec stream finds
  what it expects. The one exception is dom0's read of the keyfile when the current
  passphrase has more than 255 bytes; the program and the app never read a wrong byte.
- `NoThreeWayWait`: app, enroller and dom0 never all wait in reads with nothing under way.
- `QubesReportsAreTrue`: success means that the new keyslot opens at the boot *and* that
  the one to go is gone, although dom0 announces before it kills.
- `KillIsWanted`: cryptsetup is told to kill a keyslot only if the user asked for it, the
  new one is in place and the TPM has not refused; and the keyslot is the one the user named
  in the other VM, after the number's trip as the last byte of the stream. 0x91 never passes for one.
- `RefinesEnrollment`: both enrollments implement `KeyslotEnrollment`: at most one
  keyslot filled, with the keyfile derived for the typed passphrase; nothing but the doomed keyslot
  emptied, and that only while the new keyfile opens another; success only after both.
- `EnrollmentEnds`, `QubesEnrollmentEnds`: once cryptsetup is started, or dom0 told the
  passphrase, the program ends, whichever of the others dies, unless the length that
  cryptsetup is given is 0 (section 6).
- `CompletedRunHolds`: after a completed run, whatever earlier ones have left behind, TPM key, baked
  key and `/boot/client` are one generation, bound to the chain that was booted, and
  a keyslot belongs to them.
- `Recoverable`: wherever a first run fails, the passphrase, the client on
  `/boot` or the one before it still has a keyslot.
- `KillLeavesAWayIn`: over any number of failed and repeated runs a keyslot in use is emptied
  only if `/boot/client` has the key that is in the TPM, that key is bound to the chain
  that was booted, and the client's keyfile opens a keyslot that stays. The kill itself looks
  only at the client inside the enrollment program, a file that earlier runs wrote as well.
- `RerunCompletes`: liveness; running the script again heals a failed run, unless the
  header is full or no passphrase is left to authorise it.

## 5. Proofs

`UnlockProofs` proves, for every set of apps, keys, passphrases and random
values that satisfies `ProtocolAssumption` (the baked key is total on the apps;
the "nothing" values are not values), that every safety property above and
`RefinesGate` hold of `Spec`.

The safety properties are not inductive: `TriesMirrored` says nothing of the
time between prompts, when the two sides are in different attempts, and
`FramingInSync` nothing of the frames behind the next. `IInv` adds, in
`Lockstep`, for every place the host can be blocked at, where the app can be
and what exactly is on both lines; in `ExchangeAgrees` and `PositionsAgree`
what they then agree on; in `LightFollows` what the light shows at each place;
in `KeystreamFresh` that what has been sniffed is behind both ciphers; and the
three properties that are inductive only with the rest. The proof that a step
preserves `IInv` has one lemma per action (or group of actions that leave the
same things alone), with one step per conjunct. The properties then follow from
`IInv` state by state. For `RefinesGate` there is one step per action again:
most stutter, `ClientReadSig` and `ClientTouched` open the gate, `ClientReady`
begins a guess, `HostSendsHash` offers it, `CryptsetupOpens` and
`CryptsetupKilled` open the disk, aborting, finishing and unplugging close it.

Two results about the boot are then read off the abstract steps. `DiskIsGuarded`: if the
disk is open, the gate was opened by the attestation or by a touch, one to three
attempts were begun, and the loaded app has a passphrase whose keyfile is in a keyslot.
`GateOpensOnce`: attested or overridden is decided once; after the gate has closed
there is no attempt and no passphrase any more; attempts are begun one by one, at an open gate.

`AppLoaderProofs` proves the safety properties of `AppLoader` for binaries of
every length, every poll limit and every buffer size. None of them is inductive:
`LoaderInv` adds where in its loop the host is (`HostProgress`: chunk number
`written - 1`, so many bytes hashed) and where in the binary the firmware is
(`FirmwareProgress`: `5 * accepted` bytes of replies, so many bytes left), both
tied to positions in the reply stream: the reply with the digest begins at byte
`5 * Total`, which is exactly what the host has read when it gets there.
`TotalBounds` is the lemma on `div_ceil` that makes the last-chunk test right.

`ProvisioningProofs` proves `ProvisioningTypeOK`, `CompletedRunHolds`, `Recoverable` and `KillLeavesAWayIn` for
any set of keyslots and any number of runs, updates and failures. None of the last
three is inductive: `StagesInOrder` adds what a run has put in place by the time it is
at each step (which files carry the key that is now at the handle), whatever was
there before; `SomethingOpens` adds what still opens a keyslot at each step of a run that
follows a good one: until the backup, what `/boot/client` holds; from then to the
enrollment, what `client.old` holds. One lemma per conjunct of `ProvisioningInv`, with
one step per action that can disturb it.
`KillsLeaveAWayIn` is `KillLeavesAWayIn`: it needs from `StagesInOrder` that by the step of the kill
the embedded client, the one on `/boot` and the key in the TPM are one generation.
`OnlyAKillEmpties`, the lemma it rests on, also gives `HeaderIsNeverEmptied`: whatever fails and
however often, some keyslot stays in use. `LinuxPassphraseStays` is what `Recoverable` would be
without its bound of one failure: it holds on Linux, where nothing kills a keyslot.

The two enrollment programs share their proof as they share `PassEnroll`. `SessionInv`
(`EnrollInvariant`) says of app, line and program what `IInv` says of a boot: where the app
can be for each place of the program, what is on both lines, what the two have agreed
on, how far their ciphers are, and, as the program may be killed anywhere, what it has then
left on the app's line. `EnrollProofs` has one lemma per action that both programs take,
and that `SessionInv` implies `FramingInSync` and `NoMutualWait`.

`LinuxEnrollProofs` adds what cryptsetup has done by each place of the program and after
its end (`CryptsetupFollows`), what the header holds when something has been reported
(`ReportFollows`), and that the app hears of no failure unless cryptsetup has failed
(`NotRefused`), and proves `EnrollTypeOK`, `FramingInSync`, `NoMutualWait`, `ReportsAreTrue` and
`RefinesEnrollment` for every header, every set of passphrases and every moment of death. For the
refinement, `SendsNewHash` derives, `CryptsetupAdds` adds, `Reports` succeeds or fails, every
other end fails, and all other steps stutter.

`QubesEnrollProofs` needs the same two, now by the places of dom0, and three more: what is
on the stream for each place of the program (`StreamFollows`), what is on its way to dom0 for each
place of dom0, whether the program lives or not, and what dom0 has taken from it, `dom0Slot = doomed`
from the read of that byte to the kill among it (`Dom0Follows`), and what dom0 may rely on
once the current passphrase has been sent (`Announced`): the keyfile is final, and with a keyslot
to kill the TPM has signed. It proves `QubesTypeOK`, `BothChannelsInSync`, `NoThreeWayWait`,
`QubesReportsAreTrue`, `KillIsWanted` and `RefinesEnrollment`, for passphrases of every length.
What is on its way to dom0 is said by the length that was *announced*: if it is the length
(`Fits`), dom0 gets passphrase, keyfile and what follows in their places; if it wrapped, dom0 gets
a prefix (`Prefix`), takes the rest of the passphrase (`RestFrame`) for the keyfile and comes no
further, because `luksAddKey` refuses the prefix (`CutOffOpensNothing`, from `CutOffAssumption`). `LuksAssumption`, keyslots below 32, is what keeps 0x91 from being one.
Two theorems draw the line that `WhatWasTypedArrives` (section 6) crosses: `WhatFitsArrives`, that up to
255 bytes dom0 has exactly what was typed and the right keyfile, and `CutOffChangesNothing`, that beyond
them no keyslot is filled or killed and nobody hears of a success.

`KeyslotEnrollmentProofs` proves of the abstract enrollment, from any header `h`, that the
header is at every moment `h`, or `h` with the new keyfile in one keyslot that was free and the
doomed one perhaps emptied, some keyslot opening with the new keyfile (`HeaderIsKept`); and that after
a success it is left alone (`SuccessIsFinal`). Neither program's proof repeats that: each
instantiates the module with its own refinement mapping (`Promise`), `SamePromise` says that this is
the specification it has been shown to implement, and the theorems carry over.
`LinuxKeepsTheHeader` and `QubesKeepsTheHeader` add, from the program's invariant, that the
keyfile in the new keyslot is the one the boot will derive from the passphrase typed
(`OpensAtBoot`): whichever program is killed at whatever moment, no key is lost on Linux,
and on Qubes none but the one that was to go, not before its successor is in place.
`LinuxSuccessIsFinal` and `QubesSuccessIsFinal`: once the shell has heard of success, the header
stays, although cryptsetup may outlive the programs.

Only model-checked: liveness (`GateReleasesBoot`, `UnplugReleasesBoot`,
`LoadReturns`, `EnrollmentEnds`, `QubesEnrollmentEnds`, `RerunCompletes`; fairness is out of this
prover's reach) and the violations. Every invariant, action property and refinement that a
passing run checks is also proved.

What is assumed: `ProtocolAssumption`, `LoaderAssumption`, `LuksAssumption`, `QubesAssumption`,
`CutOffAssumption` and `ProvisioningAssumption`, all evaluated by TLC in the runs, the
term model of cryptography, and the external parties as described in section 2.
`CutOffAssumption` is the only one about what the user has: the first bytes of a passphrase
that is cut off are not themselves the key of a keyslot. It cannot be dropped. On a disk whose
user has another keyslot with just that prefix, `luksAddKey` would take the next 32 bytes of the
long passphrase for the new keyfile, and dom0 announce a success that the boot does not
bear out; the model leaves such a header out.

## 6. Findings

**The boot can hang where the documentation promises a fall-through.**
`README.md:98` ("in a case it does not it will fall trough to your normal unlock
sequence") and `qubes_enrollpt1.sh:51-52` say that whatever goes wrong, one can
still type the old passphrase. Run `unlock_falls_through` shows a boot that does
not get there: the TPM refuses, the app reports `InvalidSig` and asks for a
touch, the user does not touch it within 30 seconds, the app panics
(`client/src/main.rs:151`) without a word, and the host is in `check_status`
without a time limit (`host/src/main.rs:39`). The service has
`TimeoutStartSec=infinity` and runs before systemd's cryptsetup unit, so nothing
ends the wait. The same happens after a signature that the app cannot parse.
Pulling the TKey out does release the boot (`UnplugReleasesBoot`).

**`load_app` does not err on a TKey in app mode.** Its documentation
(`host/src/lib.rs:360-361`) lists "when tkey is already on app mode" under
Errors. Run `loader_app_mode` shows that towards an app that has ended, which is
what a TKey left plugged in after the previous boot or enrollment runs, it
blocks in the read of the reply to its header (`host/src/lib.rs:379`) for
ever. At boot this is the same hang as above; in the enrollment programs it is
a program that says nothing.

**A long current passphrase does not reach dom0 whole.** `verify.rs:40-41` says
that the exchange of a length and as many bytes "makes sure that we can realiably
write the correct passphrase onto cryptsetup". `host/src/bin/qubes_enroll.rs:112` sends the
length `as u8`: run `qubes_length` shows a current passphrase of 300 bytes of which dom0
takes 44 for the passphrase and the next 32 for the keyfile, so that the
enrollment fails with a wrong passphrase (at a multiple of 256 it hangs). The new passphrase's
length is checked (line 159), the current one's is not.

**`--kill-slot` goes on when the TKey has refused the binary's TPM key.** When the TPM refuses to
sign, the program stops, "refusing to continue, current binary isn't enrolled with TPM"
(`qubes_enroll.rs:81-83`). Run `qubes_kill` shows the other way in which the binary can fail to be
enrolled with the TPM: the TPM signs with a key that is not the one baked in, the TKey
answers `InvalidSig`, and line 96 goes on; after a touch the keyslot is killed.

**Keyslot 32 gets past the script.** `qubes_enrollpt2.sh:9` compares with `-le 32`,
while LUKS2 ends at 31 and `qubes_enroll.rs:43` takes less than 32. Run
`provisioning_slot` shows the number refused only at the enrollment, when TPM key and
`/boot/client` have been replaced, and not by the message of line 10.

Not counted as findings, but worth knowing. The comment at
`host/src/lib.rs:394-395` expects everything the poll misses to be caught by the
digest. If bytes of the *last* frame are lost, all replies the poll counts are
there, and the read of the last one (line 413) has no time limit; `LoadReturns`
names this exception. And a binary of more than 820 chunks, 104 kB, which the
firmware would take, can never be loaded, because its replies do not fit the
4096 bytes the poll can see.

Some hazards in PROJECT.json are met by the code and covered by no property, each with a note there:
the prompt may be repeated without end (`host/src/main.rs:99`; `GateReleasesBoot` assumes that the
user gives up), `load_app`'s last read has no time limit (`host/src/lib.rs:413`), a length of 0
makes cryptsetup wait (`verify.rs:86`, `enroll.rs:117`), a full header stays full (`enroll.rs:84`),
and a second failed run moves the last good client away (`qubes_enrollpt2.sh:65`).

An empty current passphrase makes `--keyfile-size 0`, and since stdin stays open
during `wait()` (`enroll.rs:117`, `verify.rs:86`) both enrollments then hang; the two liveness
properties name this exception. The comment at `verify.rs:95` says 0x99 where the
code compares with 0x91; the mutant that takes the comment's word breaks `KillIsWanted`.
Every run with a new TPM key fills a keyslot and on Linux nothing frees the old one, so after
some thirty updates `luksAddKey` finds no room, with the TPM key already
replaced. `Recoverable` ends where the second run begins: a run that is to
heal a failed one moves the failed client over `client.old` (`qubes_enrollpt2.sh:65`)
before it has enrolled its own; if it fails as well and the passphrase is gone, nothing on `/boot`
opens the disk. On Linux the passphrase opens a keyslot throughout (`LinuxPassphraseStays`).

## 7. Not modelled

- `dracut/module-setup.sh` copies files into the initramfs; `client/app.lds` and the Makefiles
  build; none has behaviour of its own.
- In the scripts: finding the block device, package checks, the qrexec policy file, and
  starting and removing the disposable VM. `setup_part1.sh` and `qubes_enrollpt1.sh` build
  once and make an initramfs: `Provisioning`'s `Init` and one `Update`.
- Terminal settings and baud rate, wording, LED blinking, zeroizing of memory, and the
  "press enter" prompts before a program ends.
- The padding of a signature's integers in `verify()` (`host/src/lib.rs:302-311`): signatures
  are terms, and what the app cannot parse is `MalformedSig`.
- The SALT, which a build writes once per clone: two clones derive different keyfiles, as
  two apps do in the model.
- A TKey that stays plugged in from one boot to the next: `AppLoader` has the app mode
  that the second boot then meets, and shows that `load_app` does not get past it, so
  there is no second session to compose `Unlock` with.
