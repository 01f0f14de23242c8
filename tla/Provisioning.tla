---------------------------- MODULE Provisioning ----------------------------
(***************************************************************************)
(* Enrollment from one update to the next: the scripts setup_part2.sh (on  *)
(* Linux) and qubes_enrollpt2.sh, with the enroll.sh that both run first,  *)
(* replace a key in the TPM, files in three places and a keyslot, one      *)
(* after the other. Any step may fail, which ends the script, and the      *)
(* machine may go down at any of them; the cure is to run it again.        *)
(* A client binary is known by the TPM key that is baked into it. How a    *)
(* run ended is what the user is told: by the script when it stops, and at *)
(* its end by the enrollment program, whose exit status the Qubes script,  *)
(* which starts it in a terminal of another VM, does not get to see.       *)
(***************************************************************************)
EXTENDS Naturals

CONSTANTS
    Slots,      \* keyslots of the LUKS2 header
    SlotArgs,   \* numbers the user may give to --kill-slot
    NoSlot,     \* no --kill-slot
    Empty,      \* an unused keyslot
    Passphrase, \* the user's own passphrase, in a keyslot
    NoFile,     \* no file
    Broken,     \* a file that is no whole client binary
    MaxRuns,    \* bound: runs of the script, besides those after a fault
    MaxUpdates, \* bound: updates of what the PCRs measure
    MaxFaults   \* bound: steps that fail, and mistakes of the user

ASSUME ProvisioningAssumption ==
    /\ Slots \subseteq 0 .. 31 /\ SlotArgs \subseteq Nat /\ NoSlot \notin Nat
    /\ {Empty, Passphrase, NoFile, Broken} \cap Nat = {}
    /\ Empty # Passphrase /\ NoFile # Passphrase /\ Broken # Passphrase
    /\ NoFile # Empty /\ Broken # Empty
    /\ MaxRuns \in Nat /\ MaxUpdates \in Nat /\ MaxFaults \in Nat

VARIABLES
    os,         \* "linux" or "qubes"
    tpm,        \* the key at the handle (0: none), and the boot chain it is bound to
    keys,       \* how many keys the TPM has made
    files,      \* the public key exported and where it is compiled in; the client
                \* that was built, and the one inside the enrollment program
    boot,       \* /boot/client and /boot/client.old
    slots,      \* what opens each keyslot: a client's keyfile, by its key
    chain,      \* the boot chain installed, and the one that was measured
    step,       \* the step the script is at, or "idle"
    doomed,     \* the keyslot to kill
    outcome,    \* of the last run
    failedRuns, \* runs that failed since the last one that did not
    runs, faults

scriptVars == <<step, doomed, outcome, failedRuns, runs>>
vars == <<os, tpm, keys, files, boot, slots, chain, scriptVars, faults>>

Steps == {"evict", "persist", "export", "copy", "build", "backup", "install", "embed",
          "enroll", "kill", "report"}

\* The repository has been built once, with a placeholder for the client
\* (setup_part1.sh:22), and the machine has booted what that installed.
Init ==
    /\ os \in {"linux", "qubes"}
    /\ tpm = [key |-> 0, pcrs |-> 0]
    /\ keys = 0
    /\ files = [exported |-> NoFile, pub |-> NoFile, clientApp |-> Broken,
                embedded |-> Broken]
    /\ boot = [client |-> NoFile, old |-> NoFile]
    /\ slots \in [Slots -> {Empty, Passphrase}]
    /\ \E s \in Slots : slots[s] = Passphrase
    /\ chain = [installed |-> 0, measured |-> 0]
    /\ step = "idle" /\ doomed = NoSlot /\ outcome = "none"
    /\ failedRuns = 0 /\ runs = 0 /\ faults = 0

HasKeyslot(client) == \E s \in Slots : slots[s] = client

HasRoom == \E s \in Slots : slots[s] = Empty

\* Mutated form: the script only prints the message.
ScriptTakesAnything(s) == TRUE

\* The script's own look at the keyslot number.
ScriptTakes(s) == s <= 32

Start ==
    /\ step = "idle"
    /\ runs < MaxRuns + faults
    /\ step' = "evict"
    /\ outcome' = "running"
    /\ runs' = runs + 1
    /\ UNCHANGED <<os, tpm, keys, files, boot, slots, chain, failedRuns>>

\* The user may name a keyslot to kill that is in use ...
StartRun ==
    /\ Start
    /\ \/ doomed' = NoSlot
       \/ os = "qubes" /\ doomed' \in {s \in Slots \cap SlotArgs : slots[s] # Empty}
    /\ UNCHANGED faults

\* ... or by mistake any number that gets past the script.
StartWrongly ==
    /\ Start
    /\ os = "qubes" /\ doomed' \in {s \in SlotArgs : ScriptTakes(s)}
    /\ faults < MaxFaults
    /\ faults' = faults + 1

At(now, next) ==
    /\ step = now
    /\ step' = next
    /\ UNCHANGED <<os, doomed, outcome, failedRuns, runs, faults>>

\* Mutated form: the handle is not looked at, and an empty one cannot be evicted.
MustEvict == tpm.key # 0

MayEvict == TRUE

\* enroll.sh: the old key goes, if there is one, before the new one exists.
EvictKey ==
    /\ At("evict", "persist")
    /\ MayEvict
    /\ tpm' = [tpm EXCEPT !.key = 0]
    /\ UNCHANGED <<keys, files, boot, slots, chain>>

\* A key bound to the PCR values of the running system, at the empty handle.
PersistKey ==
    /\ At("persist", "export")
    /\ tpm.key = 0
    /\ keys' = keys + 1
    /\ tpm' = [key |-> keys + 1, pcrs |-> chain.measured]
    /\ UNCHANGED <<files, boot, slots, chain>>

ExportPub ==
    /\ At("export", IF os = "qubes" THEN "copy" ELSE "build")
    /\ files' = [files EXCEPT !.exported = tpm.key,
                              !.pub = IF os = "qubes" THEN @ ELSE tpm.key]
    /\ UNCHANGED <<tpm, keys, boot, slots, chain>>

\* Mutated form: a public key from an earlier run is not replaced.
PubOnceCopied(f) == IF f.pub = NoFile THEN f.exported ELSE f.pub

PubAtBuilder(f) == f.exported

\* On Qubes the key is exported in dom0, and the client built in another VM.
CopyPub ==
    /\ At("copy", "build")
    /\ files' = [files EXCEPT !.pub = PubAtBuilder(files)]
    /\ UNCHANGED <<tpm, keys, boot, slots, chain>>

\* client/build.rs lets a client be built only with a valid key.
BuildClient ==
    /\ At("build", IF os = "qubes" THEN "backup" ELSE "install")
    /\ files.pub \notin {NoFile, Broken}
    /\ files' = [files EXCEPT !.clientApp = files.pub]
    /\ UNCHANGED <<tpm, keys, boot, slots, chain>>

\* Mutated form: the new client is written over the old one.
BackupForgotten(b) == b

Backup(b) == IF b.client = NoFile THEN b ELSE [client |-> NoFile, old |-> b.client]

\* Only qubes_enrollpt2.sh keeps the client that was there, and only the last one.
BackupClient ==
    /\ At("backup", "install")
    /\ boot' = Backup(boot)
    /\ UNCHANGED <<tpm, keys, files, slots, chain>>

InstallClient ==
    /\ At("install", "embed")
    /\ boot' = [boot EXCEPT !.client = files.clientApp]
    /\ UNCHANGED <<tpm, keys, files, slots, chain>>

\* Mutated form: a program that has been built before is not built anew.
OnceEmbedded(f) == IF f.embedded = Broken THEN f.clientApp ELSE f.embedded

Embedded(f) == f.clientApp

\* The enrollment program is built around the same binary.
EmbedClient ==
    /\ At("embed", "enroll")
    /\ files' = [files EXCEPT !.embedded = Embedded(files)]
    /\ UNCHANGED <<tpm, keys, boot, slots, chain>>

\* The enrollment program takes numbers below 32, a client of some size, and a
\* passphrase that opens a keyslot.
MayEnroll ==
    /\ doomed # NoSlot => doomed < 32
    /\ files.embedded # Broken
    /\ HasKeyslot(Passphrase)
    /\ HasRoom

\* It adds the keyfile of its client ...
Enroll ==
    /\ At("enroll", IF doomed = NoSlot THEN "report" ELSE "kill")
    /\ MayEnroll
    /\ \E s \in Slots :
          slots[s] = Empty /\ slots' = [slots EXCEPT ![s] = files.embedded]
    /\ UNCHANGED <<tpm, keys, files, boot, chain>>

MayKill ==
    /\ doomed \in Slots
    /\ slots[doomed] # Empty
    /\ \E t \in Slots \ {doomed} : slots[t] = files.embedded

\* ... and on Qubes kills a keyslot, which that keyfile has to authorise.
KillSlot ==
    /\ At("kill", "report")
    /\ MayKill
    /\ slots' = [slots EXCEPT ![doomed] = Empty]
    /\ UNCHANGED <<tpm, keys, files, boot, chain>>

\* The program says that it has succeeded: on Linux to the script, too.
Report ==
    /\ step = "report"
    /\ step' = "idle" /\ outcome' = "completed" /\ failedRuns' = 0
    /\ UNCHANGED <<os, tpm, keys, files, boot, slots, chain, doomed, runs, faults>>

FailRun ==
    /\ step' = "idle" /\ outcome' = "failed" /\ failedRuns' = failedRuns + 1
    /\ UNCHANGED <<os, tpm, keys, slots, doomed, runs>>

\* The enrollment program refuses, or cryptsetup does, and the program says so.
EnrollFails ==
    /\ \/ step = "enroll" /\ ~MayEnroll
       \/ step = "kill" /\ ~MayKill
    /\ FailRun
    /\ UNCHANGED <<files, boot, chain, faults>>

\* What a step leaves of the file it was writing: `cp`, the redirection and the
\* linker all truncate it first. (On Qubes the public key reaches the builder's
\* repository by mv, as a whole.)
HalfWritten(f) ==
    CASE step = "export" -> [f EXCEPT !.exported = Broken,
                                      !.pub = IF os = "qubes" THEN @ ELSE Broken]
      [] step = "build" -> [f EXCEPT !.clientApp = Broken]
      [] step = "embed" -> [f EXCEPT !.embedded = Broken]
      [] OTHER -> f

\* A step fails, the user declines, or the machine goes down.
Fault ==
    /\ step # "idle"
    /\ faults < MaxFaults
    /\ faults' = faults + 1
    /\ FailRun
    /\ files' \in {files, HalfWritten(files)}
    /\ \/ UNCHANGED boot
       \/ step = "install" /\ boot' = [boot EXCEPT !.client = Broken]
    /\ chain' \in {chain, [chain EXCEPT !.measured = chain.installed]}

\* A reboot between two runs measures what has been installed since.
Reboot ==
    /\ step = "idle"
    /\ chain.measured # chain.installed
    /\ chain' = [chain EXCEPT !.measured = chain.installed]
    /\ outcome' = IF outcome = "completed" THEN "outdated" ELSE outcome
    /\ UNCHANGED <<os, tpm, keys, files, boot, slots, step, doomed, failedRuns, runs,
                   faults>>

\* A new boot loader, kernel or initramfs (setup_part1.sh makes one, too).
Update ==
    /\ step = "idle"
    /\ chain.installed < MaxUpdates
    /\ chain' = [chain EXCEPT !.installed = @ + 1]
    /\ UNCHANGED <<os, tpm, keys, files, boot, slots, scriptVars, faults>>

Script ==
    \/ StartRun
    \/ EvictKey
    \/ PersistKey
    \/ ExportPub
    \/ CopyPub
    \/ BuildClient
    \/ BackupClient
    \/ InstallClient
    \/ EmbedClient
    \/ Enroll
    \/ KillSlot
    \/ Report
    \/ EnrollFails

Next == Script \/ StartWrongly \/ Fault \/ Reboot \/ Update

Spec == Init /\ [][Next]_vars

\* A script that was started goes on, and the user runs it again.
FairSpec == Spec /\ WF_vars(Script)

-----------------------------------------------------------------------------
(* Properties. *)

Files == Nat \cup {NoFile, Broken}

\* Every variable has its type. A keyslot number of 33 or more never gets past
\* the script (qubes_enrollpt2.sh:9).
ProvisioningTypeOK ==
    /\ os \in {"linux", "qubes"}
    /\ tpm \in [key : Nat, pcrs : Nat]
    /\ keys \in Nat
    /\ files \in [exported : Files, pub : Files, clientApp : Files, embedded : Files]
    /\ boot \in [client : Files, old : Files]
    /\ slots \in [Slots -> Nat \cup {Empty, Passphrase}]
    /\ chain \in [installed : Nat, measured : Nat]
    /\ step \in Steps \cup {"idle"}
    /\ doomed \in (SlotArgs \cap (0 .. 32)) \cup {NoSlot}
    /\ outcome \in {"none", "running", "completed", "failed", "outdated"}
    /\ failedRuns \in Nat /\ runs \in 0 .. MaxRuns + MaxFaults /\ faults \in 0 .. MaxFaults

\* After a run that completed, whatever earlier runs left behind, three separate
\* replacements fit together: the TPM's key is the one baked into /boot/client
\* and is bound to the chain that was booted (the light will be green), and the
\* keyfile of that client opens a keyslot.
CompletedRunHolds ==
    outcome = "completed" =>
        /\ boot.client = tpm.key
        /\ tpm.pcrs = chain.measured
        /\ HasKeyslot(boot.client)

\* Wherever a first run fails (qubes_enrollpt2.sh:64), and even if the user's own
\* passphrase has been killed, something that opens a keyslot is left on /boot or
\* in the user's head. The run that is to heal the failure may overwrite it.
Recoverable ==
    failedRuns = 0 \/ (failedRuns = 1 /\ step = "idle") =>
        HasKeyslot(Passphrase) \/ HasKeyslot(boot.client) \/ HasKeyslot(boot.old)

\* A keyslot that is in use, and may hold the last passphrase the user knows, is
\* emptied only once the next boot has no need of it: /boot/client has the key that
\* is in the TPM, that key is bound to the chain that was booted, and the client's
\* keyfile opens a keyslot that stays. The kill asks for none of this: MayKill
\* looks at the client in the enrollment program, which earlier runs wrote as well.
KillLeavesAWayIn ==
    [][\A s \in Slots : slots[s] # Empty /\ slots'[s] # slots[s] =>
          (boot.client = tpm.key /\ tpm.pcrs = chain.measured
             /\ HasKeyslot(boot.client))']_vars

\* Running the script again heals whatever a failure left behind, a missing TPM
\* key (enroll.sh:39) or half a client, as long as a keyslot is free (each run
\* takes one, and on Linux none is given back) and the passphrase opens one.
RerunCompletes ==
    outcome = "failed" ~> (outcome = "completed" \/ ~HasRoom \/ ~HasKeyslot(Passphrase))

\* qubes_enrollpt2.sh:10: a number that "isn't a valid luks keyslot number" ends
\* the script before it has changed anything.
SlotCheckedFirst == step = "enroll" /\ doomed # NoSlot => doomed < 32

=============================================================================
