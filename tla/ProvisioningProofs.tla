-------------------------- MODULE ProvisioningProofs --------------------------
(***************************************************************************)
(* What a run of the scripts leaves behind, proved for any number of       *)
(* keyslots, runs, updates and failures.                                   *)
(***************************************************************************)
EXTENDS Provisioning, TLAPS

\* How far a run has come, and what it has put in place so far.
StagesInOrder ==
    /\ outcome = "running" <=> step # "idle"
    /\ step # "idle" /\ os = "linux" => doomed = NoSlot /\ step \notin {"copy", "backup"}
    /\ step = "kill" => doomed # NoSlot
    /\ step \in Steps \ {"evict", "persist"} =>
          tpm.key # 0 /\ tpm.pcrs = chain.measured
    /\ step \in {"copy"} => files.exported = tpm.key
    /\ step \in {"build"} => files.pub = tpm.key
    /\ step \in {"backup", "install", "embed", "enroll", "kill", "report"} =>
          files.clientApp = tpm.key
    /\ step \in {"embed", "enroll", "kill", "report"} => boot.client = tpm.key
    /\ step \in {"enroll", "kill", "report"} => files.embedded = tpm.key
    /\ step \in {"kill", "report"} => HasKeyslot(tpm.key)
    /\ step = "report" /\ doomed \in Slots => slots[doomed] = Empty

\* What the user still has, at each stage of a run that follows a good one.
SomethingOpens ==
    /\ os = "linux" => HasKeyslot(Passphrase)
    /\ failedRuns = 0 /\ step \in {"idle", "evict", "persist", "export", "copy", "build",
                                  "backup"} =>
          HasKeyslot(Passphrase) \/ HasKeyslot(boot.client)
    /\ failedRuns = 0 /\ step \in {"install", "embed", "enroll"} =>
          HasKeyslot(Passphrase) \/ HasKeyslot(boot.old)

\* The inductive invariant behind both.
ProvisioningInv ==
    ProvisioningTypeOK /\ StagesInOrder /\ SomethingOpens /\ CompletedRunHolds /\ Recoverable

\* Every step keeps the types.
LEMMA TypeStep ==
    ASSUME ProvisioningInv, [Next]_vars
    PROVE  ProvisioningTypeOK'
<1> USE ProvisioningAssumption DEF ProvisioningInv, ProvisioningTypeOK, Files, Steps
<1>1. CASE StartRun
  <2>1. doomed' \in (SlotArgs \cap (0 .. 32)) \cup {NoSlot}
    <3>1. \A s \in Slots : s \in 0 .. 32
      OBVIOUS
    <3> QED
      BY <1>1, <3>1 DEF StartRun
  <2> QED
    BY <1>1, <2>1 DEF StartRun, Start
<1>2. CASE StartWrongly
  BY <1>2 DEF StartWrongly, Start, ScriptTakes
<1>3. CASE EvictKey
  BY <1>3 DEF EvictKey, At, MayEvict
<1>4. CASE PersistKey
  BY <1>4 DEF PersistKey, At
<1>5. CASE ExportPub
  BY <1>5 DEF ExportPub, At
<1>6. CASE CopyPub
  BY <1>6 DEF CopyPub, At, PubAtBuilder
<1>7. CASE BuildClient
  BY <1>7 DEF BuildClient, At
<1>8. CASE BackupClient
  BY <1>8 DEF BackupClient, At, Backup
<1>9. CASE InstallClient
  BY <1>9 DEF InstallClient, At
<1>10. CASE EmbedClient
  BY <1>10 DEF EmbedClient, At, Embedded
<1>11. CASE Enroll
  <2>1. files.embedded \in Nat
    BY <1>11 DEF Enroll, At, StagesInOrder
  <2> QED
    BY <1>11, <2>1 DEF Enroll, At
<1>12. CASE KillSlot
  BY <1>12 DEF KillSlot, At, MayKill
<1>13. CASE Report
  BY <1>13 DEF Report
<1>14. CASE EnrollFails
  BY <1>14 DEF EnrollFails, FailRun, MayEnroll, MayKill
<1>15. CASE Fault
  <2> DEFINE Written == [exported : Files, pub : Files, clientApp : Files, embedded : Files]
  <2>1. files \in Written /\ Broken \in Files
    OBVIOUS
  <2> HIDE DEF Written
  <2>2. files' \in Written
    <3>1. [files EXCEPT !.exported = Broken, !.pub = Broken] \in Written
      BY ONLY <2>1 DEF Written
    <3>2. [files EXCEPT !.exported = Broken, !.pub = files.pub] \in Written
      BY ONLY <2>1 DEF Written
    <3>3. [files EXCEPT !.clientApp = Broken] \in Written
      BY ONLY <2>1 DEF Written
    <3>4. [files EXCEPT !.embedded = Broken] \in Written
      BY ONLY <2>1 DEF Written
    <3> QED
      BY ONLY <1>15, <2>1, <3>1, <3>2, <3>3, <3>4 DEF Fault, HalfWritten
  <2>3. /\ UNCHANGED <<os, tpm, keys, slots, doomed, runs>>
        /\ failedRuns' = failedRuns + 1 /\ faults' \in 0 .. MaxFaults
        /\ step' = "idle" /\ outcome' = "failed"
        /\ boot' \in [client : Files, old : Files]
        /\ chain' \in [installed : Nat, measured : Nat]
    BY <1>15 DEF Fault, FailRun
  <2> QED
    BY <2>2, <2>3 DEF Written
<1>16. CASE Reboot
  BY <1>16 DEF Reboot
<1>17. CASE Update
  BY <1>17 DEF Update, scriptVars
<1>18. CASE UNCHANGED vars
  BY <1>18 DEF vars, scriptVars
<1> QED
  BY <1>1, <1>2, <1>3, <1>4, <1>5, <1>6, <1>7, <1>8, <1>9, <1>10, <1>11, <1>12, <1>13, <1>14, <1>15, <1>16, <1>17, <1>18 DEF Next, Script

\* Every step, a fault at any stage included, leaves the run at the stage it says.
LEMMA StagesStep ==
    ASSUME ProvisioningInv, [Next]_vars
    PROVE  StagesInOrder'
<1> USE ProvisioningAssumption DEF ProvisioningInv, ProvisioningTypeOK, StagesInOrder, Files, Steps, HasKeyslot
<1>1. CASE StartRun
  BY <1>1 DEF StartRun, Start
<1>2. CASE StartWrongly
  BY <1>2 DEF StartWrongly, Start, ScriptTakes
<1>3. CASE EvictKey
  BY <1>3 DEF EvictKey, At, MayEvict
<1>4. CASE PersistKey
  BY <1>4 DEF PersistKey, At
<1>5. CASE ExportPub
  BY <1>5 DEF ExportPub, At
<1>6. CASE CopyPub
  BY <1>6 DEF CopyPub, At, PubAtBuilder
<1>7. CASE BuildClient
  BY <1>7 DEF BuildClient, At
<1>8. CASE BackupClient
  BY <1>8 DEF BackupClient, At, Backup
<1>9. CASE InstallClient
  BY <1>9 DEF InstallClient, At
<1>10. CASE EmbedClient
  BY <1>10 DEF EmbedClient, At, Embedded
<1>11. CASE Enroll
  <2>1. files.embedded = tpm.key
    BY <1>11 DEF Enroll, At
  <2>2. HasKeyslot(tpm.key)'
    <3>1. PICK t \in Slots : slots' = [slots EXCEPT ![t] = files.embedded]
      BY <1>11 DEF Enroll
    <3>2. slots'[t] = tpm.key /\ tpm' = tpm
      BY <1>11, <2>1, <3>1 DEF Enroll
    <3> QED
      BY <3>2
  <2>3. step' = "report" => doomed' = NoSlot /\ NoSlot \notin Slots
    BY <1>11 DEF Enroll, At
  <2> HIDE DEF HasKeyslot
  <2> QED
    BY <1>11, <2>1, <2>2, <2>3 DEF Enroll, At
<1>12. CASE KillSlot
  BY <1>12 DEF KillSlot, At, MayKill
<1>13. CASE Report
  BY <1>13 DEF Report
<1>14. CASE EnrollFails
  BY <1>14 DEF EnrollFails, FailRun, MayEnroll, MayKill
<1>15. CASE Fault
  BY <1>15 DEF Fault, FailRun, HalfWritten
<1>16. CASE Reboot
  BY <1>16 DEF Reboot
<1>17. CASE Update
  BY <1>17 DEF Update, scriptVars
<1>18. CASE UNCHANGED vars
  BY <1>18 DEF vars, scriptVars
<1> QED
  BY <1>1, <1>2, <1>3, <1>4, <1>5, <1>6, <1>7, <1>8, <1>9, <1>10, <1>11, <1>12, <1>13, <1>14, <1>15, <1>16, <1>17, <1>18 DEF Next, Script

\* No step takes away the last thing that opens a keyslot, in a run after a good one.
LEMMA OpensStep ==
    ASSUME ProvisioningInv, [Next]_vars
    PROVE  SomethingOpens'
<1> USE ProvisioningAssumption DEF ProvisioningInv, ProvisioningTypeOK, StagesInOrder, SomethingOpens, CompletedRunHolds, Files, Steps, HasKeyslot
<1>1. CASE StartRun
  BY <1>1 DEF StartRun, Start
<1>2. CASE StartWrongly
  BY <1>2 DEF StartWrongly, Start, ScriptTakes
<1>3. CASE EvictKey
  BY <1>3 DEF EvictKey, At, MayEvict
<1>4. CASE PersistKey
  BY <1>4 DEF PersistKey, At
<1>5. CASE ExportPub
  BY <1>5 DEF ExportPub, At
<1>6. CASE CopyPub
  BY <1>6 DEF CopyPub, At, PubAtBuilder
<1>7. CASE BuildClient
  BY <1>7 DEF BuildClient, At
<1>8. CASE BackupClient
  BY <1>8 DEF BackupClient, At, Backup
<1>9. CASE InstallClient
  BY <1>9 DEF InstallClient, At
<1>10. CASE EmbedClient
  BY <1>10 DEF EmbedClient, At, Embedded
<1>11. CASE Enroll
  BY <1>11 DEF Enroll, At, MayEnroll
<1>12. CASE KillSlot
  BY <1>12 DEF KillSlot, At, MayKill
<1>13. CASE Report
  BY <1>13 DEF Report
<1>14. CASE EnrollFails
  BY <1>14 DEF EnrollFails, FailRun, MayEnroll, MayKill
<1>15. CASE Fault
  BY <1>15 DEF Fault, FailRun, HalfWritten
<1>16. CASE Reboot
  BY <1>16 DEF Reboot
<1>17. CASE Update
  BY <1>17 DEF Update, scriptVars
<1>18. CASE UNCHANGED vars
  BY <1>18 DEF vars, scriptVars
<1> QED
  BY <1>1, <1>2, <1>3, <1>4, <1>5, <1>6, <1>7, <1>8, <1>9, <1>10, <1>11, <1>12, <1>13, <1>14, <1>15, <1>16, <1>17, <1>18 DEF Next, Script

\* Only Report completes a run, and nothing but a new run disturbs what it left.
LEMMA CompletedStep ==
    ASSUME ProvisioningInv, [Next]_vars
    PROVE  CompletedRunHolds'
<1> USE ProvisioningAssumption DEF ProvisioningInv, ProvisioningTypeOK, StagesInOrder, CompletedRunHolds, Files, Steps, HasKeyslot
<1>1. CASE StartRun
  BY <1>1 DEF StartRun, Start
<1>2. CASE StartWrongly
  BY <1>2 DEF StartWrongly, Start, ScriptTakes
<1>3. CASE EvictKey
  BY <1>3 DEF EvictKey, At, MayEvict
<1>4. CASE PersistKey
  BY <1>4 DEF PersistKey, At
<1>5. CASE ExportPub
  BY <1>5 DEF ExportPub, At
<1>6. CASE CopyPub
  BY <1>6 DEF CopyPub, At, PubAtBuilder
<1>7. CASE BuildClient
  BY <1>7 DEF BuildClient, At
<1>8. CASE BackupClient
  BY <1>8 DEF BackupClient, At, Backup
<1>9. CASE InstallClient
  BY <1>9 DEF InstallClient, At
<1>10. CASE EmbedClient
  BY <1>10 DEF EmbedClient, At, Embedded
<1>11. CASE Enroll
  BY <1>11 DEF Enroll, At, MayEnroll
<1>12. CASE KillSlot
  BY <1>12 DEF KillSlot, At, MayKill
<1>13. CASE Report
  BY <1>13 DEF Report
<1>14. CASE EnrollFails
  BY <1>14 DEF EnrollFails, FailRun, MayEnroll, MayKill
<1>15. CASE Fault
  BY <1>15 DEF Fault, FailRun, HalfWritten
<1>16. CASE Reboot
  BY <1>16 DEF Reboot
<1>17. CASE Update
  BY <1>17 DEF Update, scriptVars
<1>18. CASE UNCHANGED vars
  BY <1>18 DEF vars, scriptVars
<1> QED
  BY <1>1, <1>2, <1>3, <1>4, <1>5, <1>6, <1>7, <1>8, <1>9, <1>10, <1>11, <1>12, <1>13, <1>14, <1>15, <1>16, <1>17, <1>18 DEF Next, Script

\* A first failure, at whatever stage, leaves something that opens a keyslot.
LEMMA RecoverableStep ==
    ASSUME ProvisioningInv, [Next]_vars
    PROVE  Recoverable'
<1> USE ProvisioningAssumption DEF ProvisioningInv, ProvisioningTypeOK, StagesInOrder, SomethingOpens, CompletedRunHolds, Recoverable, Files, Steps, HasKeyslot
<1>1. CASE StartRun
  BY <1>1 DEF StartRun, Start
<1>2. CASE StartWrongly
  BY <1>2 DEF StartWrongly, Start, ScriptTakes
<1>3. CASE EvictKey
  BY <1>3 DEF EvictKey, At, MayEvict
<1>4. CASE PersistKey
  BY <1>4 DEF PersistKey, At
<1>5. CASE ExportPub
  BY <1>5 DEF ExportPub, At
<1>6. CASE CopyPub
  BY <1>6 DEF CopyPub, At, PubAtBuilder
<1>7. CASE BuildClient
  BY <1>7 DEF BuildClient, At
<1>8. CASE BackupClient
  BY <1>8 DEF BackupClient, At, Backup
<1>9. CASE InstallClient
  BY <1>9 DEF InstallClient, At
<1>10. CASE EmbedClient
  BY <1>10 DEF EmbedClient, At, Embedded
<1>11. CASE Enroll
  BY <1>11 DEF Enroll, At, MayEnroll
<1>12. CASE KillSlot
  BY <1>12 DEF KillSlot, At, MayKill
<1>13. CASE Report
  BY <1>13 DEF Report
<1>14. CASE EnrollFails
  BY <1>14 DEF EnrollFails, FailRun, MayEnroll, MayKill
<1>15. CASE Fault
  BY <1>15 DEF Fault, FailRun, HalfWritten
<1>16. CASE Reboot
  BY <1>16 DEF Reboot
<1>17. CASE Update
  BY <1>17 DEF Update, scriptVars
<1>18. CASE UNCHANGED vars
  BY <1>18 DEF vars, scriptVars
<1> QED
  BY <1>1, <1>2, <1>3, <1>4, <1>5, <1>6, <1>7, <1>8, <1>9, <1>10, <1>11, <1>12, <1>13, <1>14, <1>15, <1>16, <1>17, <1>18 DEF Next, Script

\* The inductive invariant holds, whatever fails and however often.
THEOREM ProvisioningInvariantHolds == Spec => []ProvisioningInv
<1>1. Init => ProvisioningInv
  BY ProvisioningAssumption DEF Init, ProvisioningInv, ProvisioningTypeOK, StagesInOrder,
     SomethingOpens, CompletedRunHolds, Recoverable, Files, Steps, HasKeyslot
<1>2. ProvisioningInv /\ [Next]_vars => ProvisioningInv'
  BY TypeStep, StagesStep, OpensStep, CompletedStep, RecoverableStep DEF ProvisioningInv
<1> QED
  BY <1>1, <1>2, PTL DEF Spec

\* Every variable keeps its type, for every bound.
THEOREM ProvisioningTypeCorrect == Spec => []ProvisioningTypeOK
<1>1. ProvisioningInv => ProvisioningTypeOK
  BY DEF ProvisioningInv
<1> QED
  BY <1>1, ProvisioningInvariantHolds, PTL

\* After a completed run, TPM key, client and keyslot fit together, whatever the
\* runs before it left behind.
THEOREM CompletedRunFits == Spec => []CompletedRunHolds
<1>1. ProvisioningInv => CompletedRunHolds
  BY DEF ProvisioningInv
<1> QED
  BY <1>1, ProvisioningInvariantHolds, PTL

\* The first run that fails does not lock the user out.
THEOREM OneFailureIsRecoverable == Spec => []Recoverable
<1>1. ProvisioningInv => Recoverable
  BY DEF ProvisioningInv
<1> QED
  BY <1>1, ProvisioningInvariantHolds, PTL

\* A keyslot in use is emptied only by a kill: of the one named, on Qubes, and while
\* another one takes the keyfile of the client on /boot and of the key in the TPM.
LEMMA OnlyAKillEmpties ==
    ASSUME ProvisioningInv, [Next]_vars, NEW s \in Slots,
           slots[s] # Empty, slots'[s] # slots[s]
    PROVE  /\ os = "qubes" /\ s = doomed
           /\ boot.client = tpm.key /\ tpm.pcrs = chain.measured
           /\ UNCHANGED <<boot, tpm, chain>>
           /\ \E t \in Slots \ {s} : slots[t] = tpm.key /\ slots'[t] = tpm.key
<1> USE ProvisioningAssumption
    DEF ProvisioningInv, ProvisioningTypeOK, StagesInOrder, Files, Steps
<1>1. Enroll \/ KillSlot
  BY DEF Next, Script, StartRun, StartWrongly, Start, EvictKey, PersistKey,
     ExportPub, CopyPub, BuildClient, BackupClient, InstallClient, EmbedClient,
     Report, EnrollFails, FailRun, Fault, Reboot, Update, At, vars, scriptVars
<1>2. ~Enroll
  BY DEF Enroll
<1>3. /\ step = "kill"
      /\ slots' = [slots EXCEPT ![doomed] = Empty]
      /\ \E t \in Slots \ {doomed} : slots[t] = files.embedded
  BY <1>1, <1>2 DEF KillSlot, MayKill, At
<1>4. s = doomed
  BY <1>3
<1>5. /\ os = "qubes" /\ files.embedded = tpm.key
      /\ boot.client = tpm.key /\ tpm.pcrs = chain.measured
  BY <1>3
<1>6. UNCHANGED <<boot, tpm, chain>>
  BY <1>1, <1>2 DEF KillSlot, At
<1> QED
  BY <1>3, <1>4, <1>5, <1>6

\* A keyslot in use is emptied only once the client on /boot, the key in the TPM and
\* the chain that was booted fit together, and that client's keyfile opens a keyslot
\* that stays, however many runs have failed before.
THEOREM KillsLeaveAWayIn == Spec => KillLeavesAWayIn
<1>1. ASSUME ProvisioningInv, [Next]_vars,
             NEW s \in Slots, slots[s] # Empty, slots'[s] # slots[s]
      PROVE  (boot.client = tpm.key /\ tpm.pcrs = chain.measured
                /\ HasKeyslot(boot.client))'
  BY <1>1, OnlyAKillEmpties DEF HasKeyslot
<1>2. ProvisioningInv /\ [Next]_vars =>
        [\A s \in Slots : slots[s] # Empty /\ slots'[s] # slots[s] =>
            (boot.client = tpm.key /\ tpm.pcrs = chain.measured
               /\ HasKeyslot(boot.client))']_vars
  BY <1>1
<1> QED
  BY <1>2, ProvisioningInvariantHolds, PTL DEF Spec, KillLeavesAWayIn

\* However many runs fail, on Linux the user's own passphrase goes on opening a
\* keyslot, where Recoverable speaks of the first failure only.
THEOREM LinuxPassphraseStays == Spec => [](os = "linux" => HasKeyslot(Passphrase))
<1>1. ProvisioningInv => (os = "linux" => HasKeyslot(Passphrase))
  BY DEF ProvisioningInv, SomethingOpens
<1> QED
  BY <1>1, ProvisioningInvariantHolds, PTL

\* However many runs fail, and whatever keyslots the user asks to kill, the header
\* is never left with no keyslot in use: the last one can't authorise its own kill.
THEOREM HeaderIsNeverEmptied == Spec => [](\E s \in Slots : slots[s] # Empty)
<1> DEFINE InUse == \E s \in Slots : slots[s] # Empty
<1>1. Init => InUse
  BY ProvisioningAssumption DEF Init
<1>2. ASSUME ProvisioningInv, [Next]_vars, InUse PROVE InUse'
  <2>1. PICK s \in Slots : slots[s] # Empty
    BY <1>2
  <2>2. CASE slots'[s] = slots[s]
    BY <2>1, <2>2
  <2>3. CASE slots'[s] # slots[s]
    <3>1. \E t \in Slots : slots'[t] = tpm.key
      BY ONLY <1>2, <2>1, <2>3, OnlyAKillEmpties
    <3>2. tpm.key # Empty
      BY <1>2, ProvisioningAssumption DEF ProvisioningInv, ProvisioningTypeOK
    <3> QED
      BY <3>1, <3>2
  <2> QED
    BY <2>2, <2>3
<1> HIDE DEF InUse
<1>3. ProvisioningInv /\ [Next]_vars /\ InUse => InUse'
  BY <1>2
<1>4. Spec => []InUse
  BY <1>1, <1>3, ProvisioningInvariantHolds, PTL DEF Spec
<1> QED
  BY <1>4 DEF InUse

=============================================================================
