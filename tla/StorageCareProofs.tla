-------------------------- MODULE StorageCareProofs --------------------------
(* Proofs about StorageCare, for all values of its constants: whatever       *)
(* archives there are, however late disks appear and however often the power *)
(* fails.                                                                    *)
EXTENDS StorageCare, FiniteSetTheorems, TLAPS

\* While fs-resize is at work there are no settings, in memory or on the disk.
ResizeInv ==
  pc \in {"rm2", "mkpart"} => store.data = Nothing /\ storeDisk = store /\ ~unsynced

\* Nothing is mounted while the disks are checked, and /storage is not mounted
\* while its file system is resized.
MountInv ==
  /\ pc \in {"check", "forced"} => mounted = {}
  /\ pc \in {"mkpart", "resize2fs"} => "storage" \notin mounted

\* From power-on, a disk that is never late is there, and fsck came to nothing
\* that was not.  From the check on, what can be mounted has no errors - or was
\* not checked, and a late disk is the reason.
Mounting == {"flash", "flashShell", "storage", "storageShell"}
BecauseLate(d) == MayBeLate # {} /\ (ByName \/ d \in MayBeLate)
CheckedDisk(d) ==
  /\ pc \in {"check"} \cup Mounting /\ d \notin MayBeLate => d \in there
  /\ pc \in Mounting /\ d \in checked => d \in there
  /\ pc \in Mounting /\ Found(d) /\ damage[d] = "errors"
       => d \notin checked /\ BecauseLate(d)
  /\ d \in mounted /\ damage[d] = "errors" => d \notin checked /\ BecauseLate(d)
CheckInv == Checks => \A d \in Disks : CheckedDisk(d)

\* If no disk is late, the boot disk has errors only until the first check that
\* repairs it: until then nobody made the name of /storage go away, so that
\* fsck comes to both.
Early == {"off", "check", "forced", "rebooting", "poweredOff"}
BootInv ==
  Checks /\ MayBeLate = {} /\ damage["boot"] = "errors"
    => /\ pc \in Early /\ mounted = {}
       /\ part # "none" /\ fs \notin {"none", "unnamed"}

IInv == TypeOK /\ ResizeInv /\ MountInv /\ CheckInv /\ BootInv

----------------------------------------------------------------------------
LEMMA IInvInit == Init => IInv
<1> SUFFICES ASSUME Init PROVE IInv
  OBVIOUS
<1>1. EmptyStore \in Store
  BY DEF EmptyStore, Store, Contents, Marks
<1>2. store \in Store
  <2>1. {"resize"} \subseteq Marks /\ User \in Contents
    BY DEF Marks, Contents
  <2>2. store = [EmptyStore EXCEPT !.marks = {"resize"}]
        \/ store = [EmptyStore EXCEPT !.data = User]
    BY DEF Init
  <2> QED
    BY <1>1, <2>1, <2>2 DEF Store
<1>3. damage \in [Disks -> Damages]
  BY DEF Init, Damages
<1>4. TypeOK
  <2>1. tries \in 1..MaxTries /\ cuts \in 0..MaxCuts /\ asks \in 0..MaxAsks
    BY Assumptions DEF Init
  <2>2. pc \in PCs /\ there \subseteq Disks /\ mounted \subseteq Disks
    BY DEF Init, PCs, Steps
  <2>6. checked \subseteq Disks
    BY DEF Init
  <2>3. unsynced \in BOOLEAN
    BY DEF Init
  <2>4. part \in {"image", "none", "whole"}
        /\ fs \in {"image", "whole", "none", "unnamed"} /\ cutIn = {}
    BY DEF Init
  <2>5. storeDisk \in Store /\ had \in Store
    BY <1>2 DEF Init
  <2> QED
    BY <1>2, <1>3, <2>1, <2>2, <2>3, <2>4, <2>5, <2>6 DEF TypeOK
<1> QED
  BY <1>4 DEF Init, IInv, ResizeInv, MountInv, CheckInv, CheckedDisk, Mounting,
                BootInv, Early
----------------------------------------------------------------------------
(* Type correctness.                                                       *)

\* What the units and the user make of a store is one.
LEMMA StoreType ==
  ASSUME NEW s \in Store
  PROVE  /\ \A d \in Contents : [s EXCEPT !.data = d] \in Store
         /\ \A m : [s EXCEPT !.marks = @ \ {m}] \in Store
         /\ \A m \in Marks : [s EXCEPT !.marks = @ \cup {m}] \in Store
         /\ \A b : [s EXCEPT !.backups = @ \ {b}] \in Store
         /\ \A b \in Backups : [s EXCEPT !.backups = @ \cup {b}] \in Store
BY DEF Store

LEMMA ContentsType ==
  /\ User \in Contents /\ Nothing \in Contents /\ Torn \in Contents
  /\ \A b \in Fits : b \in Contents
BY Assumptions DEF Contents

\* The stores.
LEMMA StoresNext ==
  TypeOK /\ [Next]_vars =>
    store' \in Store /\ storeDisk' \in Store /\ unsynced' \in BOOLEAN
    /\ had' \in Store
<1> SUFFICES ASSUME TypeOK, [Next]_vars
             PROVE  store' \in Store /\ storeDisk' \in Store
                    /\ unsynced' \in BOOLEAN /\ had' \in Store
  OBVIOUS
<1>t. store \in Store /\ storeDisk \in Store /\ unsynced \in BOOLEAN /\ had \in Store
  BY DEF TypeOK
<1>e. EmptyStore \in Store
  BY DEF EmptyStore, Store, Contents, Marks
<1> USE <1>t DEF stores, history
<1>1. CASE UNCHANGED vars
  BY <1>1 DEF vars
<1>2. CASE PowerOn \/ CheckDisks \/ NoFsck \/ Repair \/ MountFlash \/ MountStorage
           \/ PrepareSysroot \/ RemovePartition \/ PartitionBusy \/ MakePartition
           \/ Resize2fs \/ StorageBusy \/ Tune2fs \/ PressKey \/ ExitShell
           \/ DiskAppears
  BY <1>2 DEF PowerOn, CheckDisks, NoFsck, Repair, MountFlash, MountStorage,
              PrepareSysroot, RemovePartition, PartitionBusy, MakePartition,
              Resize2fs, StorageBusy, Tune2fs, PressKey, ExitShell, DiskAppears
<1>3. CASE Refuse \/ Resize
  <2>1. store' \in Store
    BY <1>3, StoreType DEF Refuse, Resize, Unmark
  <2>2. storeDisk' = store' /\ had' = had
    BY <1>3 DEF Refuse, Resize
  <2>3. unsynced' = FALSE
    BY <1>3 DEF Refuse, Resize
  <2> QED
    BY <2>1, <2>2, <2>3
<1>13. CASE HardReset \/ SoftReset
  BY <1>13, StoreType DEF HardReset, SoftReset, Unmark
<1>4. CASE StartFormat \/ Reboot \/ UserReboot \/ SwitchOff
  BY <1>4 DEF StartFormat, Reboot, UserReboot, SwitchOff, Sync
<1>5. CASE EndFormat \/ RemoveAll
  BY <1>5, <1>e DEF EndFormat, RemoveAll
<1>6. CASE RemoveSome
  BY <1>6, StoreType, ContentsType DEF RemoveSome, Unmark
<1>7. CASE TestBackup \/ RemoveBackup
  BY <1>7, StoreType DEF TestBackup, RemoveBackup, Drop
<1>8. CASE Wipe \/ Extract
  BY <1>8, StoreType, ContentsType DEF Wipe, Extract
<1>9. CASE Settings
  BY <1>9, StoreType, ContentsType DEF Settings, Durably
<1>10. CASE AskReset \/ AskRestore
  BY <1>10, StoreType DEF AskReset, AskRestore, Ask, Durably
<1>11. CASE Commit
  <2>1. storeDisk' \in Store
    BY <1>11, StoreType, ContentsType DEF Commit, Store
  <2> QED
    BY <2>1, <1>11 DEF Commit
<1>12. CASE PowerCut
  BY <1>12 DEF PowerCut
<1> QED
  BY <1>1, <1>2, <1>3, <1>4, <1>5, <1>6, <1>7, <1>8, <1>9, <1>10, <1>11, <1>12, <1>13
  DEF Next, InitStep, People

\* The step of the machine, the disks and the volume.
LEMMA MachineNext ==
  TypeOK /\ [Next]_vars =>
    /\ pc' \in PCs
    /\ there' \subseteq Disks /\ mounted' \subseteq Disks
    /\ part' \in {"image", "none", "whole"}
    /\ fs' \in {"image", "whole", "none", "unnamed"}
<1> SUFFICES ASSUME TypeOK, [Next]_vars
             PROVE  /\ pc' \in PCs
                    /\ there' \subseteq Disks /\ mounted' \subseteq Disks
                    /\ part' \in {"image", "none", "whole"}
                    /\ fs' \in {"image", "whole", "none", "unnamed"}
  OBVIOUS
<1>t. /\ pc \in PCs /\ there \subseteq Disks /\ mounted \subseteq Disks
      /\ part \in {"image", "none", "whole"}
      /\ fs \in {"image", "whole", "none", "unnamed"}
  BY DEF TypeOK
<1> USE <1>t DEF Goto, disks, volume, PCs, Steps, Resting, Disks
<1>1. CASE UNCHANGED vars
  BY <1>1 DEF vars
<1>2. CASE PowerOn \/ NoFsck \/ Repair \/ PressKey \/ ExitShell \/ DiskAppears
  <2>1. CASE PowerOn \/ NoFsck \/ Repair
    BY <2>1 DEF PowerOn, NoFsck, Repair
  <2>2. CASE PressKey \/ ExitShell
    BY <2>2 DEF PressKey, ExitShell
  <2>3. CASE DiskAppears
    BY <2>3 DEF DiskAppears
  <2> QED
    BY <1>2, <2>1, <2>2, <2>3
<1>3. CASE CheckDisks
  BY <1>3 DEF CheckDisks, AfterCheck
<1>4. CASE MountFlash \/ MountStorage
  BY <1>4 DEF MountFlash, MountStorage, Mounts, MountFails
<1>5. CASE PrepareSysroot
  <2>1. mounted = Disks \/ mounted = {"boot"} \/ "boot" \notin mounted
    OBVIOUS
  <2>2. pc' \in {"noSystem", "running", "reset", "restore", "resize"}
    <3>1. store.marks \subseteq Marks
      BY DEF TypeOK, Store
    <3>2. {"reset_oe", "reset_xbmc"} \cap store.marks = {}
            => store.marks = {} \/ store.marks = {"resize"}
      BY <3>1 DEF Marks
    <3>3. Unit \in {"reset", "restore", "resize", "running"}
      BY <3>2 DEF Unit
    <3> QED
      BY <1>5, <2>1, <3>3 DEF PrepareSysroot
  <2> QED
    BY <1>5, <2>2 DEF PrepareSysroot
<1>6. CASE Refuse \/ Resize \/ RemovePartition \/ PartitionBusy \/ MakePartition
           \/ Resize2fs
  BY <1>6 DEF Refuse, Resize, RemovePartition, PartitionBusy, MakePartition,
              Resize2fs
<1>7. CASE HardReset \/ SoftReset \/ StartFormat \/ StorageBusy \/ EndFormat
           \/ RemoveSome \/ RemoveAll
  BY <1>7 DEF HardReset, SoftReset, StartFormat, StorageBusy, EndFormat,
              RemoveSome, RemoveAll
<1>8. CASE TestBackup \/ Wipe \/ Extract \/ RemoveBackup \/ Reboot
  BY <1>8 DEF TestBackup, Wipe, Extract, RemoveBackup, Reboot
<1>9. CASE Settings \/ AskReset \/ AskRestore \/ UserReboot \/ SwitchOff \/ Commit
  BY <1>9 DEF Settings, AskReset, AskRestore, Ask, UserReboot, SwitchOff, Commit
<1>10. CASE PowerCut
  BY <1>10 DEF PowerCut
<1>11. CASE Tune2fs
  <2>1. ASSUME part # "none"
        PROVE  fs' \in {"image", "whole", "none", "unnamed"}
    BY <1>11, <2>1 DEF Tune2fs
  <2>2. part = "none" => fs' = "none"
    BY <1>11 DEF Tune2fs
  <2> QED
    BY <1>11, <2>1, <2>2 DEF Tune2fs
<1> QED
  BY <1>1, <1>2, <1>3, <1>4, <1>5, <1>6, <1>7, <1>8, <1>9, <1>10, <1>11
  DEF Next, InitStep, People

\* Damage and the counters.
LEMMA CountersNext ==
  TypeOK /\ [Next]_vars =>
    /\ damage' \in [Disks -> Damages] /\ tries' \in 1..MaxTries
    /\ checked' \subseteq Disks
    /\ cutIn' \subseteq {"format", "partition", "settings"}
    /\ cuts' \in 0..MaxCuts /\ asks' \in 0..MaxAsks
<1> SUFFICES ASSUME TypeOK, [Next]_vars
             PROVE  /\ damage' \in [Disks -> Damages] /\ tries' \in 1..MaxTries
                    /\ checked' \subseteq Disks
                    /\ cutIn' \subseteq {"format", "partition", "settings"}
                    /\ cuts' \in 0..MaxCuts /\ asks' \in 0..MaxAsks
  OBVIOUS
<1>t. /\ damage \in [Disks -> Damages] /\ tries \in 1..MaxTries
      /\ checked \subseteq Disks
      /\ cutIn \subseteq {"format", "partition", "settings"}
      /\ cuts \in 0..MaxCuts /\ asks \in 0..MaxAsks
  BY DEF TypeOK
<1>m. MaxTries \in Nat \ {0} /\ MaxCuts \in Nat /\ MaxAsks \in Nat
  BY Assumptions
<1> USE <1>t, <1>m DEF disks, history
<1>1. CASE UNCHANGED vars
  BY <1>1 DEF vars
<1>2. CASE PowerOn \/ NoFsck \/ PressKey \/ ExitShell \/ DiskAppears
           \/ PrepareSysroot
  BY <1>2 DEF PowerOn, NoFsck, PressKey, ExitShell, DiskAppears, PrepareSysroot
<1>3. CASE CheckDisks
  <2>1. \A d \in Disks : \A b \in Preen(d) : b.left \in Damages
    <3>1. \A d \in Disks : damage[d] \in {"none", "minor", "errors"}
      BY DEF Damages
    <3> QED
      BY <3>1 DEF Preen, Damages
  <2>2. damage' \in [Disks -> Damages]
    BY <1>3, <2>1 DEF CheckDisks, Disks
  <2>3. checked' \subseteq Disks
    BY <1>3 DEF CheckDisks, Reached
  <2> QED
    BY <1>3, <2>2, <2>3 DEF CheckDisks
<1>4. CASE Repair
  BY <1>4 DEF Repair, Damages
<1>5. CASE MountFlash \/ MountStorage
  <2>1. tries' = tries \/ tries' = 1 \/ (tries < MaxTries /\ tries' = tries + 1)
    BY <1>5 DEF MountFlash, MountStorage, Mounts, MountFails
  <2>2. damage' = damage /\ checked' = checked /\ cutIn' = cutIn /\ cuts' = cuts
        /\ asks' = asks
    BY <1>5 DEF MountFlash, MountStorage
  <2> QED
    BY <2>1, <2>2
<1>6. CASE Refuse \/ Resize \/ RemovePartition \/ PartitionBusy \/ MakePartition
  BY <1>6 DEF Refuse, Resize, RemovePartition, PartitionBusy, MakePartition
<1>7. CASE Resize2fs \/ EndFormat
  <2>1. damage' = damage \/ damage' = [damage EXCEPT !["storage"] = "none"]
    BY <1>7 DEF Resize2fs, EndFormat
  <2>2. damage' \in [Disks -> Damages]
    BY <2>1 DEF Damages
  <2> QED
    BY <1>7, <2>2 DEF Resize2fs, EndFormat
<1>8. CASE HardReset \/ SoftReset \/ StartFormat \/ StorageBusy \/ Tune2fs
           \/ RemoveSome \/ RemoveAll
  BY <1>8 DEF HardReset, SoftReset, StartFormat, StorageBusy, Tune2fs,
              RemoveSome, RemoveAll
<1>9. CASE TestBackup \/ Wipe \/ Extract \/ RemoveBackup \/ Reboot
  BY <1>9 DEF TestBackup, Wipe, Extract, RemoveBackup, Reboot
<1>10. CASE Settings \/ UserReboot \/ SwitchOff \/ Commit
  BY <1>10 DEF Settings, UserReboot, SwitchOff, Commit
<1>12. CASE AskReset \/ AskRestore
  <2>1. PICK s : Ask(s)
    BY <1>12 DEF AskReset, AskRestore
  <2> QED
    BY <2>1 DEF Ask
<1>11. CASE PowerCut
  <2>1. Damaged \subseteq Damages
    BY DEF Damaged, Damages, Disks
  <2>2. damage' \in [Disks -> Damages]
    BY <1>11, <2>1 DEF PowerCut
  <2>3. cutIn' \subseteq {"format", "partition", "settings"}
    BY <1>11 DEF PowerCut, Window
  <2> QED
    BY <1>11, <2>2, <2>3 DEF PowerCut
<1> QED
  BY <1>1, <1>2, <1>3, <1>4, <1>5, <1>6, <1>7, <1>8, <1>9, <1>10, <1>11, <1>12
  DEF Next, InitStep, People

LEMMA TypeNext == TypeOK /\ [Next]_vars => TypeOK'
BY StoresNext, MachineNext, CountersNext DEF TypeOK

----------------------------------------------------------------------------
(* fs-resize and the settings.                                             *)

LEMMA ResizeNext == IInv /\ [Next]_vars => ResizeInv'
<1> SUFFICES ASSUME IInv, [Next]_vars, pc' \in {"rm2", "mkpart"}
             PROVE  store'.data = Nothing /\ storeDisk' = store' /\ ~unsynced'
  BY DEF ResizeInv
<1>t. store \in Store /\ ResizeInv
  BY DEF IInv, TypeOK
<1>1. CASE pc' = pc /\ UNCHANGED stores
  BY <1>1, <1>t DEF ResizeInv, stores
<1>2. CASE Resize
  <2>1. store'.data = store.data /\ storeDisk' = store'
    BY <1>2, <1>t DEF Resize, Unmark, Store
  <2>2. unsynced' = FALSE
    BY <1>2 DEF Resize
  <2> QED
    BY <1>2, <2>1, <2>2 DEF Resize
<1>3. CASE RemovePartition
  BY <1>3, <1>t DEF RemovePartition, Goto, ResizeInv, stores
<1>4. CASE Commit
  <2>1. store = [store EXCEPT !.data = store.data]
    BY <1>t DEF Store
  <2> QED
    BY <1>4, <1>t, <2>1 DEF Commit, ResizeInv
<1>5. ~(PowerOn \/ CheckDisks \/ NoFsck \/ Repair \/ MountFlash \/ MountStorage
        \/ PressKey \/ ExitShell)
  BY DEF PowerOn, CheckDisks, NoFsck, Repair, MountFlash, MountStorage, PressKey,
         ExitShell, Goto, AfterCheck, Mounts, MountFails
<1>6. ~PrepareSysroot
  <2>1. store.marks \subseteq Marks
    BY <1>t DEF Store
  <2>2. mounted \subseteq Disks
    BY DEF IInv, TypeOK
  <2>3. mounted = Disks \/ mounted = {"boot"} \/ "boot" \notin mounted
    BY <2>2 DEF Disks
  <2>4. Unit \in {"reset", "restore", "resize", "running"}
    BY <2>1 DEF Unit, Marks
  <2> QED
    BY <2>3, <2>4 DEF PrepareSysroot, Disks
<1>7. ~(Refuse \/ PartitionBusy \/ MakePartition \/ Resize2fs)
  BY DEF Refuse, PartitionBusy, MakePartition, Resize2fs, Goto
<1>8. ~(HardReset \/ SoftReset \/ StartFormat \/ StorageBusy \/ EndFormat
        \/ Tune2fs \/ RemoveSome \/ RemoveAll)
  BY DEF HardReset, SoftReset, StartFormat, StorageBusy, EndFormat, Tune2fs,
         RemoveSome, RemoveAll, Goto
<1>9. ~(TestBackup \/ Wipe \/ Extract \/ RemoveBackup \/ Reboot)
  BY DEF TestBackup, Wipe, Extract, RemoveBackup, Reboot, Goto
<1>10. ~(Settings \/ AskReset \/ AskRestore \/ UserReboot \/ SwitchOff \/ PowerCut)
  BY DEF Settings, AskReset, AskRestore, Ask, UserReboot, SwitchOff, PowerCut,
         InUse, Goto
<1>11. CASE DiskAppears \/ UNCHANGED vars
  BY <1>11, <1>1 DEF DiskAppears, vars
<1> QED
  BY <1>2, <1>3, <1>4, <1>5, <1>6, <1>7, <1>8, <1>9, <1>10, <1>11
  DEF Next, InitStep, People

----------------------------------------------------------------------------
(* Mounts and checks.                                                      *)

LEMMA MountNext == IInv /\ [Next]_vars => MountInv'
<1> SUFFICES ASSUME IInv, [Next]_vars PROVE MountInv'
  OBVIOUS
<1> USE DEF IInv, MountInv, Goto, disks
<1>1. CASE UNCHANGED vars
  BY <1>1 DEF vars
<1>2. CASE PowerOn \/ NoFsck \/ Repair \/ PressKey \/ ExitShell \/ DiskAppears
  BY <1>2 DEF PowerOn, NoFsck, Repair, PressKey, ExitShell, DiskAppears
<1>3. CASE CheckDisks
  BY <1>3 DEF CheckDisks, AfterCheck
<1>4. CASE MountFlash \/ MountStorage
  BY <1>4 DEF MountFlash, MountStorage, Mounts, MountFails
<1>5. CASE PrepareSysroot
  <2>1. mounted = Disks \/ mounted = {"boot"} \/ "boot" \notin mounted
    BY DEF TypeOK, Disks
  <2>2. store.marks \subseteq Marks
    BY DEF TypeOK, Store
  <2>3. Unit \in {"reset", "restore", "resize", "running"}
    BY <2>2 DEF Unit, Marks
  <2> QED
    BY <1>5, <2>1, <2>3 DEF PrepareSysroot, Disks
<1>6. CASE Refuse \/ Resize \/ RemovePartition \/ PartitionBusy \/ MakePartition
           \/ Resize2fs
  BY <1>6 DEF Refuse, Resize, RemovePartition, PartitionBusy, MakePartition,
              Resize2fs
<1>7. CASE HardReset \/ SoftReset \/ StartFormat \/ StorageBusy \/ EndFormat
           \/ Tune2fs \/ RemoveSome \/ RemoveAll
  BY <1>7 DEF HardReset, SoftReset, StartFormat, StorageBusy, EndFormat, Tune2fs,
              RemoveSome, RemoveAll
<1>8. CASE TestBackup \/ Wipe \/ Extract \/ RemoveBackup \/ Reboot
  BY <1>8 DEF TestBackup, Wipe, Extract, RemoveBackup, Reboot
<1>9. CASE Settings \/ AskReset \/ AskRestore \/ UserReboot \/ SwitchOff \/ Commit
  BY <1>9 DEF Settings, AskReset, AskRestore, Ask, UserReboot, SwitchOff, Commit
<1>10. CASE PowerCut
  BY <1>10 DEF PowerCut
<1> QED
  BY <1>1, <1>2, <1>3, <1>4, <1>5, <1>6, <1>7, <1>8, <1>9, <1>10
  DEF Next, InitStep, People

\* The steps that neither go on with mounting nor damage anything.
LEMMA StillChecked ==
  ASSUME NEW d, CheckedDisk(d),
         pc' \notin {"check"} \cup Mounting, damage' = damage, checked' = checked,
         mounted' \subseteq mounted
  PROVE  CheckedDisk(d)'
BY DEF CheckedDisk

LEMMA CheckNext == IInv /\ [Next]_vars => CheckInv'
<1> SUFFICES ASSUME IInv, [Next]_vars, Checks, NEW d \in Disks
             PROVE  CheckedDisk(d)'
  BY DEF CheckInv
<1>c. CheckedDisk(d)
  BY DEF IInv, CheckInv
<1>t. d \in {"boot", "storage"} /\ damage \in [Disks -> Damages]
  BY DEF Disks, IInv, TypeOK
<1> USE DEF Mounting
<1>1. CASE UNCHANGED vars
  BY <1>1, <1>c DEF vars, disks, volume, CheckedDisk, Found
<1>2. CASE PowerOn
  BY <1>2 DEF PowerOn, Goto, CheckedDisk
<1>3. CASE CheckDisks
  <2>1. /\ pc = "check" /\ there' = there /\ mounted' = mounted /\ mounted = {}
        /\ checked' = Reached
    BY <1>3 DEF CheckDisks, IInv, MountInv
  <2>2. PICK b \in Preen("boot"), r \in Preen("storage") :
          /\ damage' = [e \in Disks |-> IF e = "boot" THEN b.left ELSE r.left]
          /\ pc' = AfterCheck(Or(b.bits, r.bits))
    BY <1>3 DEF CheckDisks
  <2>3. pc' \in Mounting => 4 \notin b.bits /\ 4 \notin r.bits
    BY <2>2 DEF AfterCheck, Or
  <2>4. \A e \in Disks : \A a \in Preen(e) :
          /\ e \in Reached /\ 4 \notin a.bits => a.left # "errors"
          /\ a.left = "errors" => damage[e] = "errors"
    <3>1. \A e \in Disks : damage[e] \in {"none", "minor", "errors"}
      BY DEF IInv, TypeOK, Damages
    <3> QED
      BY <3>1 DEF Preen
  <2>5. Found(d)' = Found(d)
    BY <1>3, <2>1 DEF CheckDisks, Found, volume
  <2>6. damage'[d] = IF d = "boot" THEN b.left ELSE r.left
    BY <2>2
  <2>7. pc' \in Mounting /\ damage'[d] = "errors"
          => damage[d] = "errors" /\ d \notin Reached
    BY <1>t, <2>3, <2>4, <2>6 DEF Disks
  <2>8. ASSUME Found(d), damage[d] = "errors", ~BecauseLate(d) PROVE d \in Reached
    <3>1. CASE ~ByName
      BY <2>8, <3>1 DEF Reached
    <3>2. CASE MayBeLate = {}
      <4>1. there = Disks
        BY <2>1, <3>2 DEF IInv, CheckInv, CheckedDisk, TypeOK
      <4>2. d = "boot" => part # "none" /\ fs \notin {"none", "unnamed"}
        BY <2>8, <3>2 DEF IInv, BootInv
      <4>3. Found("boot") /\ Found("storage")
        BY <1>t, <2>8, <4>1, <4>2 DEF Found, Disks
      <4> QED
        BY <4>3 DEF Reached, Disks
    <3>3. CASE ByName /\ MayBeLate # {}
      BY <2>8, <3>3 DEF BecauseLate
    <3> QED
      BY <3>1, <3>2, <3>3
  <2>9. BecauseLate(d)' = BecauseLate(d)
    BY DEF BecauseLate
  <2>10. pc' # "check" /\ d \notin mounted'
    BY <2>1, <2>2 DEF AfterCheck
  <2>11. Reached \subseteq there
    BY DEF Reached, Found
  <2>12. d \notin MayBeLate => d \in there
    BY <1>c, <2>1 DEF CheckedDisk
  <2> QED
    BY <2>1, <2>5, <2>7, <2>8, <2>9, <2>10, <2>11, <2>12 DEF CheckedDisk
<1>4. CASE DiskAppears
  <2>1. /\ there \subseteq there' /\ pc' = pc /\ damage' = damage
        /\ mounted' = mounted /\ checked' = checked
    BY <1>4 DEF DiskAppears
  <2>2. d \in there => Found(d)' = Found(d)
    BY <1>4, <2>1 DEF DiskAppears, Found, volume
  <2>3. pc \in Mounting /\ d \notin there => d \notin checked /\ BecauseLate(d)
    BY <1>c DEF CheckedDisk, BecauseLate
  <2>4. BecauseLate(d)' = BecauseLate(d)
    BY DEF BecauseLate
  <2> QED
    BY <1>c, <2>1, <2>2, <2>3, <2>4 DEF CheckedDisk
<1>5. CASE MountFlash \/ MountStorage
  <2>1. damage' = damage /\ there' = there /\ checked' = checked
        /\ Found(d)' = Found(d) /\ BecauseLate(d)' = BecauseLate(d)
    BY <1>5 DEF BecauseLate, MountFlash, MountStorage, Found, volume
  <2>2. pc \in Mounting
    BY <1>5 DEF MountFlash, MountStorage
  <2>3. d \in mounted' => d \in mounted \/ Found(d)
    BY <1>5 DEF MountFlash, MountStorage, Mounts, MountFails
  <2>4. pc' # "check"
    BY <1>5 DEF MountFlash, MountStorage, Mounts, MountFails
  <2> QED
    BY <1>c, <2>1, <2>2, <2>3, <2>4 DEF CheckedDisk
<1>6. CASE ExitShell
  <2>1. damage' = damage /\ there' = there /\ mounted' = mounted
        /\ checked' = checked /\ Found(d)' = Found(d)
        /\ BecauseLate(d)' = BecauseLate(d)
    BY <1>6 DEF BecauseLate, ExitShell, Found, disks, volume
  <2> QED
    BY <1>c, <1>6, <2>1 DEF ExitShell, Goto, CheckedDisk
<1>7. CASE Repair
  BY <1>7 DEF Repair, CheckedDisk, IInv, MountInv
<1>8. CASE PowerCut
  <2>1. pc' = "off" /\ mounted' = mounted /\ checked' = checked
        /\ BecauseLate(d)' = BecauseLate(d)
    BY <1>8 DEF PowerCut, BecauseLate
  <2>2. PICK x \in Damaged : damage' = [damage EXCEPT !["storage"] = x]
    BY <1>8 DEF PowerCut
  <2>3. "storage" \in mounted => x # "errors"
    BY <2>2 DEF Damaged, IInv, MountInv
  <2>4. d \in mounted /\ damage'[d] = "errors" => damage[d] = "errors"
    BY <1>t, <2>2, <2>3
  <2> QED
    BY <1>c, <2>1, <2>4 DEF CheckedDisk
<1>9. CASE Resize2fs \/ EndFormat
  <2>1. damage' = damage \/ damage' = [damage EXCEPT !["storage"] = "none"]
    BY <1>9 DEF Resize2fs, EndFormat
  <2>2. pc' \in {"rebooting", "tune2fs"} /\ mounted' = mounted /\ checked' = checked
        /\ BecauseLate(d)' = BecauseLate(d)
    BY <1>9 DEF Resize2fs, EndFormat, Goto, BecauseLate
  <2>3. damage'[d] = damage[d] \/ damage'[d] = "none"
    BY <1>t, <2>1
  <2> QED
    BY <1>c, <2>2, <2>3 DEF CheckedDisk
<1>10. CASE Commit
  BY <1>10, <1>c DEF Commit, CheckedDisk, Found, disks, volume
<1>11. ~NoFsck
  BY DEF NoFsck
<1>12. CASE PrepareSysroot
  <2>1. mounted = Disks \/ mounted = {"boot"} \/ "boot" \notin mounted
    BY DEF IInv, TypeOK, Disks
  <2>2. store.marks \subseteq Marks
    BY DEF IInv, TypeOK, Store
  <2>3. Unit \in {"reset", "restore", "resize", "running"}
    BY <2>2 DEF Unit, Marks
  <2>4. pc' \notin {"check"} \cup Mounting
    BY <1>12, <2>1, <2>3 DEF PrepareSysroot, Disks
  <2> QED
    BY <1>12, <1>c, <2>4, StillChecked DEF PrepareSysroot, disks
<1>13. CASE PressKey \/ Refuse \/ Resize \/ RemovePartition \/ PartitionBusy
            \/ MakePartition
  BY <1>13, <1>c, StillChecked
  DEF PressKey, Refuse, Resize, RemovePartition, PartitionBusy, MakePartition,
      Goto, disks
<1>14. CASE HardReset \/ SoftReset \/ StartFormat \/ StorageBusy \/ Tune2fs
            \/ RemoveSome \/ RemoveAll
  BY <1>14, <1>c, StillChecked
  DEF HardReset, SoftReset, StartFormat, StorageBusy, Tune2fs, RemoveSome,
      RemoveAll, Goto, disks
<1>15. CASE TestBackup \/ Wipe \/ Extract \/ RemoveBackup \/ Reboot
  BY <1>15, <1>c, StillChecked
  DEF TestBackup, Wipe, Extract, RemoveBackup, Reboot, Goto, disks
<1>16. CASE Settings \/ AskReset \/ AskRestore \/ UserReboot \/ SwitchOff
  BY <1>16, <1>c, StillChecked
  DEF Settings, AskReset, AskRestore, Ask, UserReboot, SwitchOff, InUse, Goto, disks
<1> QED
  BY <1>1, <1>2, <1>3, <1>4, <1>5, <1>6, <1>7, <1>8, <1>9, <1>10, <1>11, <1>12,
     <1>13, <1>14, <1>15, <1>16
  DEF Next, InitStep, People

\* Only the steps of Early are taken while the boot disk has errors, and none
\* of them gives it some, mounts it or touches /storage.
LEMMA BootNext == IInv /\ [Next]_vars => BootInv'
<1> SUFFICES ASSUME IInv, [Next]_vars, Checks, MayBeLate = {},
                    damage'["boot"] = "errors"
             PROVE  /\ pc' \in Early /\ mounted' = {}
                    /\ part' # "none" /\ fs' \notin {"none", "unnamed"}
  BY DEF BootInv
<1>t. damage \in [Disks -> Damages]
  BY DEF IInv, TypeOK
<1>1. damage["boot"] = "errors"
  <2>1. CASE CheckDisks
    <3>1. PICK b \in Preen("boot"), r \in Preen("storage") :
            damage' = [e \in Disks |-> IF e = "boot" THEN b.left ELSE r.left]
      BY <2>1 DEF CheckDisks
    <3>2. b.left = "errors"
      BY <3>1 DEF Disks
    <3>3. damage["boot"] \in {"none", "minor", "errors"}
      BY <1>t DEF Disks, Damages
    <3> QED
      BY <3>2, <3>3 DEF Preen, Disks
  <2>2. CASE Repair
    BY <2>2 DEF Repair, Disks
  <2>3. CASE ~CheckDisks /\ ~Repair
    <3>1. \/ damage' = damage
          \/ \E x : damage' = [damage EXCEPT !["storage"] = x]
      BY <2>3 DEF vars, disks, Next, InitStep, People, PowerOn, NoFsck, MountFlash,
        MountStorage, PrepareSysroot, Refuse, Resize, RemovePartition,
        PartitionBusy, MakePartition, Resize2fs, HardReset, SoftReset,
        StartFormat, StorageBusy, EndFormat, Tune2fs, RemoveSome, RemoveAll,
        TestBackup, Wipe, Extract, RemoveBackup, Reboot, PressKey, ExitShell,
        Settings, AskReset, AskRestore, Ask, UserReboot, SwitchOff, DiskAppears,
        Commit, PowerCut
    <3> QED
      BY <1>t, <3>1 DEF Disks
  <2> QED
    BY <2>1, <2>2, <2>3
<1>2. /\ pc \in Early /\ mounted = {}
      /\ part # "none" /\ fs \notin {"none", "unnamed"}
  BY <1>1 DEF IInv, BootInv
<1>3. \/ UNCHANGED vars \/ PowerOn \/ CheckDisks \/ Repair \/ PressKey \/ Reboot
      \/ SwitchOff \/ DiskAppears \/ Commit \/ PowerCut
  BY <1>2 DEF Early, Next, InitStep, People, NoFsck, MountFlash, MountStorage,
    PrepareSysroot, Refuse, Resize, RemovePartition, PartitionBusy,
    MakePartition, Resize2fs, HardReset, SoftReset, StartFormat, StorageBusy,
    EndFormat, Tune2fs, RemoveSome, RemoveAll, TestBackup, Wipe, Extract,
    RemoveBackup, ExitShell, Settings, AskReset, AskRestore, Ask, InUse,
    UserReboot, Goto
<1>4. part' = part /\ fs' = fs /\ mounted' = {}
  BY <1>2, <1>3 DEF vars, disks, volume, Early, PowerOn, CheckDisks, Repair,
    PressKey, Reboot, SwitchOff, DiskAppears, Commit, PowerCut
<1>5. pc' \in Early
  <2>1. CASE CheckDisks
    <3>1. PICK b \in Preen("boot"), r \in Preen("storage") :
            pc' = AfterCheck(Or(b.bits, r.bits))
      BY <2>1 DEF CheckDisks
    <3>2. there = Disks
      BY <2>1 DEF CheckDisks, IInv, CheckInv, CheckedDisk, TypeOK
    <3>3. "boot" \in Reached
      BY <1>2, <3>2 DEF Reached, Found, Disks
    <3>4. 4 \in b.bits
      BY <1>1, <3>1, <3>3 DEF Preen
    <3> QED
      BY <3>1, <3>4 DEF AfterCheck, Or, Early
  <2>2. CASE ~CheckDisks
    BY <1>2, <1>3, <2>2 DEF vars, Early, PowerOn, Repair, PressKey, Reboot, SwitchOff,
      DiskAppears, Commit, PowerCut, Goto
  <2> QED
    BY <2>1, <2>2
<1> QED
  BY <1>2, <1>4, <1>5

----------------------------------------------------------------------------
(* The theorems.                                                           *)

LEMMA IInvNext == IInv /\ [Next]_vars => IInv'
BY TypeNext, ResizeNext, MountNext, CheckNext, BootNext DEF IInv

LEMMA Inductive == Spec => []IInv
BY IInvInit, IInvNext, PTL DEF Spec

\* Type correctness of a boot with its maintenance, for all values of the
\* constants.
THEOREM TypeCorrect == Spec => []TypeOK
<1>1. IInv => TypeOK
  BY DEF IInv
<1> QED
  BY Inductive, <1>1, PTL

\* init's check_disks: no file system that fsck came to is in use with errors,
\* however many power cuts there are and whatever the units did; and it comes to
\* every one that is used, unless a disk is late - with device names that one,
\* with a LABEL or UUID, which ends the one call for all of them, any.
THEOREM UseIsChecked == Spec => []CheckedBeforeUse
<1>1. IInv => CheckedBeforeUse
  BY DEF IInv, TypeOK, CheckInv, CheckedDisk, BecauseLate, CheckedBeforeUse
<1> QED
  BY Inductive, <1>1, PTL

\* fs-resize (l.21-23): it was never intended to be used on an installed and
\* running system, and no sequence of markers, archives and power cuts makes it
\* touch the partition of one.
THEOREM SettingsStayInPlace == Spec => NeverResizedInUse
<1>1. IInv /\ [Next]_vars => [part' # part => storeDisk.data = Nothing]_vars
  <2> SUFFICES ASSUME IInv, [Next]_vars, part' # part
               PROVE  storeDisk.data = Nothing
    OBVIOUS
  <2>1. RemovePartition \/ MakePartition
    BY DEF vars, volume, Next, InitStep, People, PowerOn, CheckDisks, NoFsck,
      Repair, MountFlash, MountStorage, PrepareSysroot, Refuse, Resize,
      PartitionBusy, Resize2fs, HardReset, SoftReset, StartFormat, StorageBusy,
      EndFormat, Tune2fs, RemoveSome, RemoveAll, TestBackup, Wipe, Extract,
      RemoveBackup, Reboot, PressKey, ExitShell, Settings, AskReset, AskRestore,
      Ask, UserReboot, SwitchOff, DiskAppears, Commit, PowerCut
  <2> QED
    BY <2>1 DEF RemovePartition, MakePartition, Goto, IInv, ResizeInv
<1> QED
  BY Inductive, <1>1, PTL DEF Spec, NeverResizedInUse
----------------------------------------------------------------------------
(* /storage can be mounted.                                                *)

Units == {"format", "partition"}

\* Its partition and its file system are missing or have no name only while a
\* unit makes them, or after a power cut in that time.
VolumeInv ==
  cutIn \cap Units = {} =>
    /\ part = "none"  => pc = "mkpart"
    /\ fs = "none"    => pc = "formatting"
    /\ fs = "unnamed" => pc = "tune2fs"

\* A disk that is never late is there from power-on, checked or not.
ThereInv ==
  "storage" \notin MayBeLate
    /\ pc \in {"check", "flash", "flashShell", "storage"} => "storage" \in there

UpInv == IInv /\ VolumeInv /\ ThereInv /\ StorageComesUp

\* No step forgets a window in which the power failed.
LEMMA CutsStay == TypeOK /\ [Next]_vars => cutIn \subseteq cutIn'
BY DEF vars, history, Next, InitStep, People, PowerOn, CheckDisks, NoFsck,
  Repair, MountFlash, MountStorage, PrepareSysroot, Refuse, Resize,
  RemovePartition, PartitionBusy, MakePartition, Resize2fs, HardReset, SoftReset,
  StartFormat, StorageBusy, EndFormat, Tune2fs, RemoveSome, RemoveAll,
  TestBackup, Wipe, Extract, RemoveBackup, Reboot, PressKey, ExitShell, Settings,
  AskReset, AskRestore, Ask, UserReboot, SwitchOff, DiskAppears, Commit, PowerCut

LEMMA VolumeNext == TypeOK /\ VolumeInv /\ [Next]_vars => VolumeInv'
<1> SUFFICES ASSUME TypeOK, VolumeInv, [Next]_vars, cutIn' \cap Units = {}
             PROVE  /\ part' = "none"  => pc' = "mkpart"
                    /\ fs' = "none"    => pc' = "formatting"
                    /\ fs' = "unnamed" => pc' = "tune2fs"
  BY DEF VolumeInv
<1>v. /\ part = "none"  => pc = "mkpart"
      /\ fs = "none"    => pc = "formatting"
      /\ fs = "unnamed" => pc = "tune2fs"
  <2>1. cutIn \cap Units = {}
    BY CutsStay
  <2> QED
    BY <2>1 DEF VolumeInv
<1> USE <1>v DEF Goto, volume, disks
<1>1. CASE UNCHANGED vars
  BY <1>1 DEF vars
<1>2. CASE PowerOn \/ CheckDisks \/ NoFsck \/ Repair \/ MountFlash \/ MountStorage
           \/ PrepareSysroot \/ PressKey \/ ExitShell \/ DiskAppears
  BY <1>2 DEF PowerOn, CheckDisks, NoFsck, Repair, MountFlash, MountStorage,
              PrepareSysroot, PressKey, ExitShell, DiskAppears
<1>3. CASE Refuse \/ Resize \/ RemovePartition \/ PartitionBusy \/ MakePartition
           \/ Resize2fs
  BY <1>3 DEF Refuse, Resize, RemovePartition, PartitionBusy, MakePartition,
              Resize2fs
<1>4. CASE HardReset \/ SoftReset \/ StartFormat \/ StorageBusy \/ EndFormat
           \/ RemoveSome \/ RemoveAll
  BY <1>4 DEF HardReset, SoftReset, StartFormat, StorageBusy, EndFormat,
              RemoveSome, RemoveAll
<1>5. CASE Tune2fs
  <2>1. part \in {"image", "whole"} /\ part' = part /\ fs' = part
    BY <1>5 DEF Tune2fs, TypeOK
  <2> QED
    BY <2>1
<1>6. CASE TestBackup \/ Wipe \/ Extract \/ RemoveBackup \/ Reboot
  BY <1>6 DEF TestBackup, Wipe, Extract, RemoveBackup, Reboot
<1>7. CASE Settings \/ AskReset \/ AskRestore \/ UserReboot \/ SwitchOff \/ Commit
  BY <1>7 DEF Settings, AskReset, AskRestore, Ask, UserReboot, SwitchOff, Commit
<1>8. CASE PowerCut
  <2>1. pc \notin {"mkpart", "formatting", "tune2fs"}
    BY <1>8 DEF PowerCut, Window, Units
  <2>2. part' = part /\ (fs' = fs \/ fs' = "whole")
    BY <1>8 DEF PowerCut
  <2> QED
    BY <2>1, <2>2
<1> QED
  BY <1>1, <1>2, <1>3, <1>4, <1>5, <1>6, <1>7, <1>8 DEF Next, InitStep, People

\* Only MountStorage gives up, and only when its disk, partition, file system or
\* name is missing.
LEMMA UpNext == UpInv /\ [Next]_vars => ThereInv' /\ StorageComesUp'
<1> SUFFICES ASSUME UpInv, [Next]_vars, "storage" \notin MayBeLate
             PROVE  ThereInv' /\ StorageComesUp'
  BY DEF ThereInv, StorageComesUp
<1>c. cutIn \subseteq cutIn'
  BY CutsStay DEF UpInv, IInv
<1> USE <1>c DEF UpInv, ThereInv, StorageComesUp, Goto, disks
<1>1. CASE UNCHANGED vars
  BY <1>1 DEF vars
<1>2. CASE PowerOn \/ NoFsck \/ Repair \/ PressKey \/ ExitShell \/ DiskAppears
  BY <1>2 DEF PowerOn, NoFsck, Repair, PressKey, ExitShell, DiskAppears, Disks
<1>3. CASE CheckDisks
  BY <1>3 DEF CheckDisks, AfterCheck
<1>4. CASE MountFlash
  BY <1>4 DEF MountFlash, Mounts, MountFails
<1>5. CASE MountStorage
  <2>1. there' = there /\ pc = "storage" /\ pc' \in {"storage", "sysroot", "storageShell"}
    BY <1>5 DEF MountStorage, Mounts, MountFails
  <2>2. pc' = "storageShell" => ~ Found("storage")
    BY <1>5 DEF MountStorage, Mounts, MountFails
  <2>3. cutIn \cap Units = {} => Found("storage")
    BY <2>1 DEF VolumeInv, Found
  <2> QED
    BY <2>1, <2>2, <2>3 DEF Units
<1>6. CASE PrepareSysroot
  <2>1. mounted = Disks \/ mounted = {"boot"} \/ "boot" \notin mounted
    BY DEF IInv, TypeOK, Disks
  <2>2. store.marks \subseteq Marks
    BY DEF IInv, TypeOK, Store
  <2>3. Unit \in {"reset", "restore", "resize", "running"}
    BY <2>2 DEF Unit, Marks
  <2> QED
    BY <1>6, <2>1, <2>3 DEF PrepareSysroot, Disks
<1>7. CASE Refuse \/ Resize \/ RemovePartition \/ PartitionBusy \/ MakePartition
           \/ Resize2fs
  BY <1>7 DEF Refuse, Resize, RemovePartition, PartitionBusy, MakePartition,
              Resize2fs
<1>8. CASE HardReset \/ SoftReset \/ StartFormat \/ StorageBusy \/ EndFormat
           \/ Tune2fs \/ RemoveSome \/ RemoveAll
  BY <1>8 DEF HardReset, SoftReset, StartFormat, StorageBusy, EndFormat, Tune2fs,
              RemoveSome, RemoveAll
<1>9. CASE TestBackup \/ Wipe \/ Extract \/ RemoveBackup \/ Reboot
  BY <1>9 DEF TestBackup, Wipe, Extract, RemoveBackup, Reboot
<1>10. CASE Settings \/ AskReset \/ AskRestore \/ UserReboot \/ SwitchOff \/ Commit
  BY <1>10 DEF Settings, AskReset, AskRestore, Ask, UserReboot, SwitchOff, Commit
<1>11. CASE PowerCut
  BY <1>11 DEF PowerCut
<1> QED
  BY <1>1, <1>2, <1>3, <1>4, <1>5, <1>6, <1>7, <1>8, <1>9, <1>10, <1>11
  DEF Next, InitStep, People

\* fs-resize and factory-reset unmount, remove and make anew what /storage is
\* on, and no order of theirs, failure or cut outside of the moments in which
\* they do so ends a later boot in the shell.
THEOREM StorageIsMounted == Spec => []StorageComesUp
<1>1. Init => UpInv
  BY IInvInit DEF Init, UpInv, VolumeInv, ThereInv, StorageComesUp
<1>2. UpInv /\ [Next]_vars => UpInv'
  BY IInvNext, VolumeNext, UpNext DEF UpInv, IInv
<1>3. UpInv => StorageComesUp
  BY DEF UpInv
<1> QED
  BY <1>1, <1>2, <1>3, PTL DEF Spec
----------------------------------------------------------------------------
(* The settings a system starts with.                                      *)

\* What a boot or two can make of s is among what was asked for.
ComesTo(s) == Results(s) \subseteq Results(had)

\* Until the system runs again, the store is on its way to what was asked for,
\* and so is what a power cut would leave of it.  factory-reset is at work only
\* if one was asked for; backup-restore has a sound archive, which it keeps
\* until the settings are that archive's.
Asked ==
  /\ pc # "rmAll" => ComesTo(store)
  /\ pc \notin {"rmAll", "rebooting"} => ComesTo(storeDisk)
  /\ pc \in {"mke2fs", "formatting", "rmAll"} => Nothing \in Results(had)
  /\ pc = "reset" => Resets(store) # {}
  /\ pc = "restore" => store.backups # {}
  /\ pc \in {"wipe", "extract", "rmBackup"} => store.backups # {} /\ Chosen \in Sound
  /\ pc = "rmBackup" => store.data = Chosen
  /\ unsynced => pc \in {"extract", "rmBackup", "rebooting"}
AskedInv == Sound \subseteq Fits /\ cutIn = {} /\ pc # "running" => Asked

\* Of some archives one is the newest, and one the oldest: a smallest subset
\* without one would, less an archive, be a smaller one.
LEMMA NewestExists ==
  ASSUME NEW S \in SUBSET Backups, S # {}
  PROVE  \E b \in S : \A c \in S : c <= b
<1> DEFINE Newest(T) == \E b \in T : \A c \in T : c <= b
           Bad == {T \in SUBSET Backups : T # {} /\ ~ Newest(T)}
<1> SUFFICES ASSUME S \in Bad PROVE FALSE
  OBVIOUS
<1>1. IsWellFoundedOn(StrictSubsetOrdering(Backups), SUBSET Backups)
  <2>1. IsFiniteSet(Backups)
    BY Assumptions
  <2>2. FiniteSubsetsOf(Backups) = SUBSET Backups
    BY <2>1, FS_FiniteSubsetsOfFinite
  <2>3. IsWellFoundedOn(StrictSubsetOrdering(Backups), FiniteSubsetsOf(Backups))
    BY FS_StrictSubsetOrderingWellFounded
  <2> QED
    BY <2>2, <2>3
<1>2. PICK T \in Bad : \A U \in Bad : <<U, T>> \notin StrictSubsetOrdering(Backups)
  BY <1>1, WFMin
<1>3. PICK t \in T : TRUE
  BY <1>2
<1>4. T \ {t} \notin Bad
  BY <1>2, <1>3 DEF StrictSubsetOrdering
<1>5. T \ {t} # {}
  BY <1>2, <1>3, Assumptions
<1>6. PICK b \in T \ {t} : \A c \in T \ {t} : c <= b
  BY <1>2, <1>4, <1>5
<1>7. Newest(T)
  <2>1. T \subseteq Nat
    BY <1>2, Assumptions
  <2>2. CASE b <= t
    BY <1>3, <1>6, <2>1, <2>2
  <2>3. CASE t <= b
    BY <1>3, <1>6, <2>1, <2>3
  <2> QED
    BY <1>3, <1>6, <2>1, <2>2, <2>3
<1> QED
  BY <1>2, <1>7

LEMMA OldestExists ==
  ASSUME NEW S \in SUBSET Backups, S # {}
  PROVE  \E b \in S : \A c \in S : b <= c
<1>1. S \subseteq Nat
  BY Assumptions
<1>2. PICK b \in S : \A c \in S : <<c, b>> \notin OpToRel(<, Nat)
  BY <1>1, NatLessThanWellFounded, WFMin
<1>3. \A c \in S : ~ (c < b)
  BY <1>1, <1>2 DEF OpToRel
<1> QED
  BY <1>1, <1>3

\* backup-restore takes the newest of the archives there are.
LEMMA ChosenIsNewest ==
  ASSUME TypeOK, store.backups # {}
  PROVE  Chosen \in store.backups /\ \A c \in store.backups : c <= Chosen
<1>1. store.backups \in SUBSET Backups
  BY DEF TypeOK, Store
<1> QED
  BY <1>1, NewestExists DEF Chosen

\* What a store comes to depends on its sound archives, on its settings only
\* if there are none, and on the two markers.
LEMMA SameRestored ==
  ASSUME NEW s, NEW t, t.backups \cap Sound = s.backups \cap Sound,
         s.backups \cap Sound = {} => t.data = s.data
  PROVE  Restored(t) = Restored(s)
<1> DEFINE First(S) == CHOOSE b \in S : \A c \in S : b <= c
<1>1. Restored(s) = IF s.backups \cap Sound = {} THEN s.data
                                                ELSE First(s.backups \cap Sound)
  BY DEF Restored
<1>2. Restored(t) = IF t.backups \cap Sound = {} THEN t.data
                                                ELSE First(t.backups \cap Sound)
  BY DEF Restored
<1> HIDE DEF First
<1> QED
  BY <1>1, <1>2

LEMMA SameResults ==
  ASSUME NEW s, NEW t, Restored(t) = Restored(s), Resets(t) \subseteq Resets(s),
         "reset_xbmc" \in s.marks => "reset_xbmc" \in t.marks
  PROVE  Results(t) \subseteq Results(s)
BY DEF Results, Resets

LEMMA EmptyResults == Results(EmptyStore) = {Nothing}
BY DEF Results, Resets, Restored, EmptyStore
\* The last sound archive but one gone, the one that was just restored is not
\* the oldest of several.
LEMMA DropChosen ==
  ASSUME TypeOK, NEW t, store.backups # {}, Chosen \in Sound, store.data = Chosen,
         t = [store EXCEPT !.backups = @ \ {Chosen}]
  PROVE  Restored(t) = Restored(store)
<1> DEFINE S == store.backups \cap Sound
           R == t.backups \cap Sound
           First(X) == CHOOSE b \in X : \A c \in X : b <= c
<1>1. /\ Chosen \in S /\ \A c \in S : c <= Chosen
      /\ S \in SUBSET Backups /\ S \subseteq Nat
  BY ChosenIsNewest, Assumptions DEF TypeOK, Store
<1>2. R = S \ {Chosen} /\ t.data = Chosen
  BY DEF TypeOK, Store
<1>3. Restored(store) = First(S)
  BY <1>1 DEF Restored
<1>4. First(S) \in S /\ \A c \in S : First(S) <= c
  BY <1>1, OldestExists
<1>5. Restored(t) = IF R = {} THEN t.data ELSE First(R)
  BY DEF Restored
<1>6. CASE R = {}
  BY <1>2, <1>3, <1>4, <1>5, <1>6
<1>7. CASE R # {}
  <2>1. First(R) \in R /\ \A c \in R : First(R) <= c
    BY <1>1, <1>2, <1>7, OldestExists
  <2> HIDE DEF First, S, R
  <2>2. First(S) # Chosen
    BY <1>1, <1>2, <1>4, <2>1
  <2>3. First(R) = First(S)
    BY <1>1, <1>2, <1>4, <2>1, <2>2
  <2> QED
    BY <1>3, <1>5, <1>7, <2>3
<1> QED
  BY <1>6, <1>7

\* The newest archive stays the newest while there are the same.
LEMMA SameChosen == ASSUME store'.backups = store.backups PROVE Chosen' = Chosen
<1> DEFINE Last(S) == CHOOSE b \in S : \A c \in S : c <= b
<1>1. Chosen = Last(store.backups) /\ Chosen' = Last(store'.backups)
  BY DEF Chosen
<1> HIDE DEF Last
<1> QED
  BY <1>1

\* Settings do not count while a sound archive is about to be restored.
LEMMA DataDoesNotCount ==
  ASSUME TypeOK, store.backups # {}, Chosen \in Sound, NEW d,
         NEW s \in Store, s.backups = store.backups, s.marks = store.marks
  PROVE  Results([s EXCEPT !.data = d]) \subseteq Results(store)
<1> DEFINE t == [s EXCEPT !.data = d]
<1>1. t.backups = store.backups /\ t.marks = store.marks
  BY DEF Store
<1>2. store.backups \cap Sound # {}
  BY ChosenIsNewest
<1>3. Restored(t) = Restored(store)
  BY <1>1, <1>2, SameRestored
<1> QED
  BY <1>1, <1>3, SameResults DEF Resets

\* A marker that is gone: fs-resize's does not count, a hard reset need not
\* happen.
LEMMA UnmarkResults ==
  ASSUME NEW s \in Store, NEW m \in {"resize", "reset_oe"}
  PROVE  Results([s EXCEPT !.marks = @ \ {m}]) \subseteq Results(s)
<1> DEFINE t == [s EXCEPT !.marks = @ \ {m}]
<1>1. t.backups = s.backups /\ t.data = s.data /\ t.marks = s.marks \ {m}
  BY DEF Store
<1>2. Restored(t) = Restored(s)
  BY <1>1, SameRestored
<1> QED
  BY <1>1, <1>2, SameResults DEF Resets

\* The steps that leave the stores alone, outside of the units' own.
LEMMA StillAsked ==
  ASSUME Asked, UNCHANGED <<store, storeDisk, unsynced, had>>,
         pc \notin {"rmAll", "rebooting", "extract", "rmBackup"},
         pc' \notin {"reset", "mke2fs", "formatting", "rmAll", "restore", "wipe",
                    "extract", "rmBackup"}
  PROVE  Asked'
BY DEF Asked, ComesTo, Results, Resets, Restored

LEMMA AskedNext == TypeOK /\ AskedInv /\ [Next]_vars => AskedInv'
<1> SUFFICES ASSUME TypeOK, AskedInv, [Next]_vars, Sound \subseteq Fits,
                    cutIn' = {}, pc' # "running"
             PROVE  Asked'
  BY DEF AskedInv
<1>c. cutIn = {}
  BY CutsStay
<1>1. CASE pc = "running"
  <2>1. UserReboot \/ PowerCut
    BY <1>1 DEF vars, Next, InitStep, People, PowerOn, CheckDisks, NoFsck,
      Repair, MountFlash, MountStorage, PrepareSysroot, Refuse, Resize,
      RemovePartition, PartitionBusy, MakePartition, Resize2fs, HardReset,
      SoftReset, StartFormat, StorageBusy, EndFormat, Tune2fs, RemoveSome,
      RemoveAll, TestBackup, Wipe, Extract, RemoveBackup, Reboot, PressKey,
      ExitShell, Settings, AskReset, AskRestore, Ask, SwitchOff, DiskAppears,
      Commit, Goto
  <2>2. store' = had' /\ storeDisk' = had' /\ unsynced' = FALSE /\ pc' = "off"
    BY <1>1, <2>1 DEF UserReboot, PowerCut, Sync, Goto
  <2> QED
    BY <2>2 DEF Asked, ComesTo
<1>2. CASE pc # "running"
  <2>a. Asked /\ had' = had
    <3>1. had' = had
      BY <1>2 DEF vars, stores, history, Next, InitStep, People, PowerOn, CheckDisks,
        NoFsck, Repair, MountFlash, MountStorage, PrepareSysroot, Refuse, Resize,
        RemovePartition, PartitionBusy, MakePartition, Resize2fs, HardReset,
        SoftReset, StartFormat, StorageBusy, EndFormat, Tune2fs, RemoveSome,
        RemoveAll, TestBackup, Wipe, Extract, RemoveBackup, Reboot, PressKey,
        ExitShell, Settings, AskReset, AskRestore, Ask, UserReboot, SwitchOff,
        DiskAppears, Commit, PowerCut, Goto
    <3> QED
      BY <1>2, <1>c, <3>1 DEF AskedInv
  <2>t. store \in Store /\ storeDisk \in Store /\ unsynced \in BOOLEAN
    BY DEF TypeOK
  <2>1. CASE DiskAppears \/ UNCHANGED vars
    <3>1. store' = store /\ storeDisk' = storeDisk /\ unsynced' = unsynced
          /\ pc' = pc
      BY <2>1 DEF DiskAppears, vars, stores
    <3> QED
      BY <2>a, <3>1, SameChosen DEF Asked, ComesTo
  <2>2. CASE PowerOn \/ CheckDisks \/ NoFsck \/ Repair \/ MountFlash
             \/ MountStorage \/ PressKey \/ ExitShell
    BY <2>2, <2>a, StillAsked
    DEF PowerOn, CheckDisks, AfterCheck, NoFsck, Repair, MountFlash, MountStorage,
        Mounts, MountFails, PressKey, ExitShell, Goto, stores, history
  <2>3. CASE RemovePartition \/ PartitionBusy \/ MakePartition \/ Resize2fs
             \/ StorageBusy \/ Tune2fs
    BY <2>3, <2>a, StillAsked
    DEF RemovePartition, PartitionBusy, MakePartition, Resize2fs, StorageBusy,
        Tune2fs, Goto, stores, history
  <2>4. CASE PrepareSysroot
    <3>1. store' = store /\ storeDisk' = storeDisk /\ unsynced' = unsynced
          /\ pc = "sysroot"
      BY <2>4 DEF PrepareSysroot, stores
    <3>2. mounted = Disks \/ mounted = {"boot"} \/ "boot" \notin mounted
      BY DEF TypeOK, Disks
    <3>3. store.marks \subseteq Marks
      BY <2>t DEF Store
    <3>4. \/ Unit \in {"resize", "running"}
          \/ Unit = "reset" /\ Resets(store) # {}
          \/ Unit = "restore" /\ store.backups # {}
      BY <3>3 DEF Unit, Marks, Resets
    <3>5. \/ pc' \in {"noSystem", "running", "resize"}
          \/ pc' = "reset" /\ Resets(store) # {}
          \/ pc' = "restore" /\ store.backups # {}
      BY <2>4, <3>2, <3>4 DEF PrepareSysroot, Disks
    <3>6. CASE pc' \in {"noSystem", "running", "resize"}
      BY <2>a, <3>1, <3>6 DEF Asked, ComesTo
    <3>7. CASE pc' = "reset" /\ Resets(store) # {}
      BY <2>a, <3>1, <3>7 DEF Asked, ComesTo
    <3>8. CASE pc' = "restore" /\ store.backups # {}
      BY <2>a, <3>1, <3>8 DEF Asked, ComesTo
    <3> QED
      BY <3>5, <3>6, <3>7, <3>8
  <2>5. CASE Refuse \/ Resize
    <3>1. store' = [store EXCEPT !.marks = @ \ {"resize"}] /\ storeDisk' = store'
          /\ unsynced' = FALSE
      BY <2>5 DEF Refuse, Resize, Unmark
    <3>2. pc = "resize" /\ pc' \in {"rm2", "rebooting"}
      BY <2>5 DEF Refuse, Resize, Goto
    <3> QED
      BY <2>a, <2>t, <3>1, <3>2, UnmarkResults DEF Asked, ComesTo
  <2>6. CASE HardReset
    <3>1. store' = [store EXCEPT !.marks = @ \ {"reset_oe"}] /\ storeDisk' = storeDisk
          /\ unsynced' = unsynced
      BY <2>6 DEF HardReset, Unmark
    <3>2. pc = "reset" /\ pc' = "mke2fs" /\ Nothing \in Results(store)
      BY <2>6 DEF HardReset, Goto, Results, Resets
    <3> QED
      BY <2>a, <2>t, <3>1, <3>2, UnmarkResults DEF Asked, ComesTo
  <2>7. CASE SoftReset
    <3>1. pc = "reset" /\ pc' = "rmAll" /\ unsynced' = unsynced
      BY <2>7 DEF SoftReset, Goto
    <3>2. Results(store) \subseteq Results(had)
      BY <2>a, <3>1 DEF Asked, ComesTo
    <3>3. Nothing \in Results(store)
      <4>1. Resets(store) # {}
        BY <2>a, <3>1 DEF Asked
      <4> QED
        BY <4>1 DEF Results
    <3> QED
      BY <2>a, <3>1, <3>2, <3>3 DEF Asked, ComesTo
  <2>8. CASE StartFormat
    BY <2>8, <2>a DEF StartFormat, Sync, Goto, Asked, ComesTo
  <2>9. CASE EndFormat \/ RemoveAll
    BY <2>9, <2>a, EmptyResults DEF EndFormat, RemoveAll, Goto, Asked, ComesTo
  <2>10. CASE RemoveSome
    BY <2>10, <2>a DEF RemoveSome, Asked
  <2>11. CASE TestBackup
    <3>1. /\ pc = "restore" /\ unsynced' = unsynced /\ storeDisk' = storeDisk
          /\ store.backups # {}
      BY <2>11, <2>a DEF TestBackup, Asked
    <3>2. CASE Chosen \in Sound
      <4>1. pc' = "wipe" /\ store' = store
        BY <2>11, <3>2 DEF TestBackup
      <4> QED
        BY <2>a, <3>1, <3>2, <4>1, SameChosen DEF Asked, ComesTo
    <3>3. CASE Chosen \notin Sound
      <4>1. pc' = "rebooting" /\ store' = [store EXCEPT !.backups = @ \ {Chosen}]
        BY <2>11, <3>3 DEF TestBackup, Drop
      <4>2. /\ store'.marks = store.marks /\ store'.data = store.data
            /\ store'.backups \cap Sound = store.backups \cap Sound
        BY <2>t, <3>3, <4>1 DEF Store
      <4>3. Results(store') \subseteq Results(store)
        BY <4>2, SameRestored, SameResults DEF Resets
      <4> QED
        BY <2>a, <3>1, <4>1, <4>3 DEF Asked, ComesTo
    <3> QED
      BY <3>2, <3>3
  <2>12. CASE Wipe
    <3>1. PICK d : store' = [store EXCEPT !.data = d]
      BY <2>12 DEF Wipe
    <3>2. /\ pc = "wipe" /\ pc' \in {"wipe", "extract"} /\ unsynced' = unsynced
          /\ storeDisk' = storeDisk
      BY <2>12 DEF Wipe
    <3> QED
      BY <2>a, <2>t, <3>1, <3>2, SameChosen, DataDoesNotCount DEF Asked, ComesTo, Store
  <2>13. CASE Extract
    <3>1. PICK d : store' = [store EXCEPT !.data = d]
      BY <2>13 DEF Extract
    <3>2. /\ pc = "extract" /\ pc' \in {"extract", "rmBackup"}
          /\ storeDisk' = storeDisk
      BY <2>13 DEF Extract
    <3>3. pc' = "rmBackup" => store'.data = Chosen
      BY <2>13, <2>a, <2>t, <3>2 DEF Extract, Asked, Store
    <3> QED
      BY <2>a, <2>t, <3>1, <3>2, <3>3, SameChosen, DataDoesNotCount
      DEF Asked, ComesTo, Store
  <2>14. CASE RemoveBackup
    <3>1. store' = [store EXCEPT !.backups = @ \ {Chosen}] /\ pc = "rmBackup"
          /\ pc' = "rebooting"
      BY <2>14 DEF RemoveBackup, Drop, Goto
    <3>2. store'.marks = store.marks
      BY <2>t, <3>1 DEF Store
    <3>3. Restored(store') = Restored(store)
      BY <2>a, <3>1, DropChosen DEF Asked
    <3> QED
      BY <2>a, <3>1, <3>2, <3>3, SameResults DEF Asked, ComesTo, Resets
  <2>15. CASE Reboot \/ SwitchOff
    BY <2>15, <2>a DEF Reboot, SwitchOff, Sync, Goto, Asked, ComesTo
  <2>16. CASE Commit
    <3>1. store' = store /\ unsynced' = unsynced /\ pc' = pc
      BY <2>16 DEF Commit
    <3>2. ASSUME pc \notin {"rmAll", "rebooting"} PROVE Results(storeDisk') \subseteq Results(had)
      <4>1. CASE storeDisk' = store
        BY <2>a, <3>2, <4>1 DEF Asked, ComesTo
      <4>2. CASE storeDisk' # store
        <5>1. unsynced /\ storeDisk' = [store EXCEPT !.data = Torn]
          <6>1. [store EXCEPT !.data = store.data] = store
            BY <2>t DEF Store
          <6> QED
            BY <2>16, <4>2, <6>1 DEF Commit
        <5>2. pc \in {"extract", "rmBackup"}
          BY <2>a, <3>2, <5>1 DEF Asked
        <5>3. Results(storeDisk') \subseteq Results(store)
          BY <2>a, <2>t, <5>1, <5>2, DataDoesNotCount DEF Asked
        <5> QED
          BY <2>a, <5>2, <5>3 DEF Asked, ComesTo
      <4> QED
        BY <4>1, <4>2
    <3> QED
      BY <2>a, <3>1, <3>2, SameChosen DEF Asked, ComesTo
  <2>17. CASE PowerCut
    <3>1. pc \notin {"rmAll", "rebooting"}
      BY <2>17 DEF PowerCut, Window
    <3> QED
      BY <2>17, <2>a, <3>1 DEF PowerCut, Asked, ComesTo
  <2>18. ~(Settings \/ AskReset \/ AskRestore \/ UserReboot)
    BY <1>2 DEF Settings, AskReset, AskRestore, Ask, UserReboot, InUse, Goto
  <2> QED
    BY <2>1, <2>2, <2>3, <2>4, <2>5, <2>6, <2>7, <2>8, <2>9, <2>10, <2>11, <2>12,
       <2>13, <2>14, <2>15, <2>16, <2>17, <2>18
    DEF Next, InitStep, People
<1> QED
  BY <1>1, <1>2
LEMMA AskedInit == Init => AskedInv
BY DEF Init, AskedInv, Asked, ComesTo

LEMMA AskedInductive == Spec => [](TypeOK /\ AskedInv)
<1>1. Init => TypeOK /\ AskedInv
  BY IInvInit, AskedInit DEF IInv
<1>2. TypeOK /\ AskedInv /\ [Next]_vars => (TypeOK /\ AskedInv)'
  BY TypeNext, AskedNext
<1> QED
  BY <1>1, <1>2, PTL DEF Spec

\* init's choice of a unit (l.686-704) with factory-reset and backup-restore:
\* however many archives there are, sound or not, whichever markers, and
\* wherever the power fails outside of the windows, the system starts with the
\* settings it was left with or with what was asked for.
THEOREM SettingsAsAsked == Spec => OnlyAskedFor
<1> DEFINE Start == Sound \subseteq Fits /\ cutIn = {} /\ pc = "sysroot"
                    /\ pc' = "running" /\ "storage" \in mounted
<1>1. ASSUME TypeOK, AskedInv, [Next]_vars, Start PROVE store.data \in Results(had)
  <2>1. ComesTo(store)
    BY <1>1 DEF AskedInv, Asked
  <2>2. PrepareSysroot
    BY <1>1 DEF vars, Next, InitStep, People, PowerOn, CheckDisks, NoFsck,
      Repair, MountFlash, MountStorage, Refuse, Resize, RemovePartition,
      PartitionBusy, MakePartition, Resize2fs, HardReset, SoftReset, StartFormat,
      StorageBusy, EndFormat, Tune2fs, RemoveSome, RemoveAll, TestBackup, Wipe,
      Extract, RemoveBackup, Reboot, PressKey, ExitShell, Settings, AskReset,
      AskRestore, Ask, UserReboot, SwitchOff, DiskAppears, Commit, PowerCut, Goto
  <2>3. mounted = Disks
    BY <1>1, <2>2 DEF PrepareSysroot, TypeOK, Disks
  <2>4. Unit = "running"
    BY <1>1, <2>2, <2>3 DEF PrepareSysroot, Disks
  <2>5. store.marks = {} /\ store.backups = {}
    <3>1. store.marks \subseteq Marks
      BY <1>1 DEF TypeOK, Store
    <3> QED
      BY <2>4, <3>1 DEF Unit, Marks
  <2>6. store.data \in Results(store)
    BY <2>5 DEF Results, Resets, Restored
  <2> QED
    BY <2>1, <2>6 DEF ComesTo
<1>2. TypeOK /\ AskedInv /\ [Next]_vars => [Start => store.data \in Results(had)]_vars
  BY <1>1
<1> QED
  BY AskedInductive, <1>2, PTL DEF Spec, OnlyAskedFor
=============================================================================
