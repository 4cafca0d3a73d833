----------------------------- MODULE StorageCare -----------------------------
(***************************************************************************)
(* How a boot looks after /storage: init checks the file systems, mounts   *)
(* them and chooses the unit to start (packages/sysutils/busybox/scripts/   *)
(* init), and the units fs-resize, factory-reset and backup-restore do what *)
(* a marker asks for and reboot.  The markers are on /storage itself.      *)
(*                                                                         *)
(* The update in between is FlashUpdate's.  What the user has below        *)
(* /storage is one value: his own settings, an archive's, or none.         *)
(***************************************************************************)
EXTENDS Naturals, FiniteSets

CONSTANTS
  Backups,     \* archives, named by their date: a set of numbers
  Sound,       \* those that tar can read
  Fits,        \* those there is room for
  User,        \* settings made in the running system
  Nothing,     \* no .kodi, .config and .cache
  Torn,        \* a part of some settings
  ByName,      \* boot= and disk= are a LABEL or UUID, not a device
  Checks,      \* RUN_FSCK
  Repairs,     \* fsck repairs what it says it does
  MayBeLate,   \* disks that the kernel may find late, or not at all
  MaxTries,    \* attempts to mount (15 in the code)
  MaxCuts,     \* bound: power cuts
  MaxAsks      \* bound: requests of the user

Disks    == {"boot", "storage"}
Damages  == {"none", "minor", "errors"}
Contents == {User, Nothing, Torn} \cup Backups

ASSUME Assumptions ==
  /\ Backups \subseteq Nat /\ IsFiniteSet(Backups) /\ Sound \subseteq Backups
  /\ Fits \subseteq Backups
  /\ {User, Nothing, Torn} \cap Backups = {}
  /\ User # Nothing /\ User # Torn /\ Nothing # Torn
  /\ ByName \in BOOLEAN /\ Checks \in BOOLEAN /\ Repairs \in BOOLEAN
  /\ MayBeLate \subseteq Disks
  /\ MaxTries \in Nat \ {0} /\ MaxCuts \in Nat /\ MaxAsks \in Nat

VARIABLES
  pc,        \* where the machine is: a step of init or of a unit
  there,     \* the disks the kernel has found
  mounted,   \* the disks that are mounted
  tries,     \* the loop of mount_common
  checked,   \* history: the disks that fsck came to in this boot
  damage,    \* [Disks -> Damages]
  part,      \* the entry of /storage's partition: "image", "none" or "whole"
  fs,        \* its file system: "image", "whole", "none" or "unnamed"
  store,     \* what is on it, as the running kernel sees it
  storeDisk, \* ... and as its journal has it
  unsynced,  \* data of store.data may still be in the page cache only
  had,       \* history: storeDisk when the system was last left
  cutIn,     \* history: the windows below in which the power failed
  cuts, asks

disks   == <<there, mounted, tries, checked, damage>>
volume  == <<part, fs>>
stores  == <<store, storeDisk, unsynced>>
history == <<had, cutIn, cuts, asks>>
vars    == <<pc, disks, volume, stores, history>>

Marks  == {"resize", "reset_oe", "reset_xbmc"}
Store  == [data: Contents, marks: SUBSET Marks, backups: SUBSET Backups]
EmptyStore == [data |-> Nothing, marks |-> {}, backups |-> {}]

Steps == {"off", "check", "forced", "flash", "storage", "sysroot",
          "resize", "rm2", "mkpart", "resize2fs",
          "reset", "mke2fs", "formatting", "tune2fs", "rmAll",
          "restore", "wipe", "extract", "rmBackup", "rebooting"}
Resting == {"running", "flashShell", "storageShell", "noSystem", "poweredOff"}
PCs     == Steps \cup Resting

\* A cut in one of these may cost the file system, the partition, the settings.
Window ==
  CASE pc \in {"formatting", "tune2fs"} -> {"format"}
    [] pc = "mkpart"                    -> {"partition"}
    [] pc \in {"rmAll", "rebooting"}    -> {"settings"}
    [] OTHER                            -> {}

TypeOK ==
  /\ pc \in PCs
  /\ there \subseteq Disks /\ mounted \subseteq Disks
  /\ tries \in 1..MaxTries /\ checked \subseteq Disks
  /\ damage \in [Disks -> Damages]
  /\ part \in {"image", "none", "whole"}
  /\ fs \in {"image", "whole", "none", "unnamed"}
  /\ store \in Store /\ storeDisk \in Store /\ unsynced \in BOOLEAN
  /\ had \in Store /\ cutIn \subseteq {"format", "partition", "settings"}
  /\ cuts \in 0..MaxCuts /\ asks \in 0..MaxAsks

\* An image that was written to a disk, or an installed device.
Init ==
  /\ pc = "off"
  /\ there = {} /\ mounted = {} /\ tries = 1 /\ checked = {}
  /\ \/ /\ part = "image" /\ fs = "image" /\ damage = [d \in Disks |-> "none"]
        /\ store = [EmptyStore EXCEPT !.marks = {"resize"}]
     \/ /\ part = "whole" /\ fs = "whole" /\ damage \in [Disks -> Damages]
        /\ store = [EmptyStore EXCEPT !.data = User]
  /\ storeDisk = store /\ unsynced = FALSE
  /\ had = store /\ cutIn = {} /\ cuts = 0 /\ asks = 0

Goto(from, to) == pc = from /\ pc' = to

\* The whole of store becomes durable.
Sync == storeDisk' = store /\ unsynced' = FALSE

\* The journal: names at once, but blocks that are allocated later may lack.
Commit ==
  /\ storeDisk' \in {[store EXCEPT !.data = d] :
                       d \in {store.data} \cup (IF unsynced THEN {Torn} ELSE {})}
  /\ storeDisk' # storeDisk
  /\ UNCHANGED <<pc, disks, volume, store, unsynced, history>>

----------------------------------------------------------------------------
(* init: check_disks and the mounts.                                       *)

PowerOn ==
  /\ Goto("off", "check")
  /\ there' \in {Disks \ late : late \in SUBSET MayBeLate}
  /\ mounted' = {} /\ tries' = 1 /\ checked' = {}
  /\ UNCHANGED <<damage, volume, stores, history>>

DiskAppears ==
  /\ pc \notin {"off", "poweredOff"}
  /\ \E d \in Disks \ there : there' = there \cup {d}
  /\ UNCHANGED <<pc, mounted, tries, checked, damage, volume, stores, history>>

\* fsck and mount find the file system by its device, LABEL or UUID.
Found(d) ==
  /\ d \in there
  /\ d = "storage" => /\ part # "none" /\ fs # "none"
                      /\ ByName => fs # "unnamed"

\* One call of fsck is for all disks.  A LABEL or UUID that it cannot resolve
\* ends it before it looks at any of them; a device that is not there is one
\* that it cannot check.
Reached ==
  IF ByName /\ \E d \in Disks : ~Found(d) THEN {} ELSE {d \in Disks : Found(d)}

\* What one disk adds to the status of fsck -p, a set of bits, with the damage
\* that is left.
Preen(d) ==
  CASE d \notin Reached      -> {[bits |-> {8}, left |-> damage[d]]}
    [] d \in Reached /\ damage[d] = "errors" ->
         {[bits |-> {4}, left |-> "errors"]}
    [] d \in Reached /\ damage[d] = "minor" ->
         {[bits |-> {1}, left |-> "none"]}
           \cup {[bits |-> {1, 2}, left |-> l] :
                   l \in {"none"} \cup (IF Repairs THEN {} ELSE {"minor"})}
    [] d \in Reached /\ damage[d] = "none" ->
         {[bits |-> {}, left |-> "none"]}

BootBitsOnly(b, s) == b   \* mutant: the status of the first disk
Or(b, s) == b \cup s
\* The masks are looked at in this order; 8 is none of them.
AfterCheck(bits) ==
  CASE 4 \in bits                       -> "forced"
    [] 4 \notin bits /\ 2 \in bits      -> "rebooting"
    [] {2, 4} \cap bits = {}            -> "flash"

CheckDisks ==
  /\ pc = "check" /\ Checks
  /\ \E b \in Preen("boot"), s \in Preen("storage") :
       /\ damage' = [d \in Disks |-> IF d = "boot" THEN b.left ELSE s.left]
       /\ pc' = AfterCheck(Or(b.bits, s.bits))
  /\ checked' = Reached
  /\ UNCHANGED <<there, mounted, tries, volume, stores, history>>

NoFsck ==
  /\ Goto("check", "flash") /\ ~Checks
  /\ UNCHANGED <<disks, volume, stores, history>>

\* force_fsck: after 120 seconds fsck -y, and then a reboot whatever is left -
\* unless one of the disks cannot be checked at all.
Repair ==
  /\ pc = "forced"
  /\ pc' = IF Reached = Disks THEN "rebooting" ELSE "poweredOff"
  /\ damage' = [d \in Disks |->
                  IF d \in Reached /\ Repairs THEN "none" ELSE damage[d]]
  /\ UNCHANGED <<there, mounted, tries, checked, volume, stores, history>>

PressKey ==
  /\ Goto("forced", "poweredOff")
  /\ UNCHANGED <<disks, volume, stores, history>>

Mounts(d, next) ==
  /\ Found(d) /\ mounted' = mounted \cup {d} /\ tries' = 1 /\ pc' = next

MountOnceMore(d, shell) ==   \* mutant: one attempt too many
  /\ ~Found(d)
  /\ IF tries <= MaxTries THEN tries' = tries + 1 /\ UNCHANGED pc
                          ELSE tries' = 1 /\ pc' = shell
  /\ UNCHANGED mounted
MountFails(d, shell) ==
  /\ ~Found(d)
  /\ IF tries < MaxTries THEN tries' = tries + 1 /\ UNCHANGED pc
                         ELSE tries' = 1 /\ pc' = shell
  /\ UNCHANGED mounted

MountFlash ==
  /\ pc = "flash"
  /\ Mounts("boot", "storage") \/ MountFails("boot", "flashShell")
  /\ UNCHANGED <<there, checked, damage, volume, stores, history>>

MountStorage ==
  /\ pc = "storage"
  /\ Mounts("storage", "sysroot") \/ MountFails("storage", "storageShell")
  /\ UNCHANGED <<there, checked, damage, volume, stores, history>>

\* The debug shell of error() ends, and init goes on as if nothing happened.
ExitShell ==
  /\ Goto("flashShell", "storage") \/ Goto("storageShell", "sysroot")
  /\ UNCHANGED <<disks, volume, stores, history>>

----------------------------------------------------------------------------
(* init: prepare_sysroot and the choice of the unit.                       *)

\* The later a test comes in init, the stronger it is.
Unit ==
  CASE {"reset_oe", "reset_xbmc"} \cap store.marks # {}        -> "reset"
    [] {"reset_oe", "reset_xbmc"} \cap store.marks = {}
         /\ store.backups # {}                                 -> "restore"
    [] store.marks = {"resize"} /\ store.backups = {}          -> "resize"
    [] store.marks = {} /\ store.backups = {}                  -> "running"

PrepareSysroot ==
  /\ pc = "sysroot"
  /\ pc' = CASE "boot" \notin mounted                      -> "noSystem"
             [] mounted = {"boot"}                         -> "running"
             [] mounted = Disks                            -> Unit
  /\ UNCHANGED <<disks, volume, stores, history>>

----------------------------------------------------------------------------
(* fs-resize.                                                              *)

Unmark(m) == store' = [store EXCEPT !.marks = @ \ {m}]

KeepMark ==   \* mutant: the marker stays
  /\ Goto("resize", "rebooting") /\ store.data # Nothing
  /\ UNCHANGED <<disks, volume, stores, history>>
\* Never on an installed and running system.
Refuse ==
  /\ Goto("resize", "rebooting") /\ store.data # Nothing
  /\ Unmark("resize") /\ storeDisk' = store' /\ unsynced' = FALSE
  /\ UNCHANGED <<disks, volume, history>>

ResizeAnyway ==   \* mutant: installed systems are not told apart
  /\ pc = "resize" /\ pc' \in {"rm2", "rebooting"}
  /\ Unmark("resize") /\ storeDisk' = store' /\ unsynced' = FALSE
  /\ UNCHANGED <<disks, volume, history>>
\* The marker goes before the work.  /storage need not be on a second
\* partition, and parted may not tell where that begins.
Resize ==
  /\ pc = "resize" /\ pc' \in {"rm2", "rebooting"} /\ store.data = Nothing
  /\ Unmark("resize") /\ storeDisk' = store' /\ unsynced' = FALSE
  /\ UNCHANGED <<disks, volume, history>>

RemovePartition ==
  /\ Goto("rm2", "mkpart")
  /\ part' = "none" /\ mounted' = mounted \ {"storage"}
  /\ UNCHANGED <<there, tries, checked, damage, fs, stores, history>>

\* parted, e2fsck and resize2fs fail: nobody looks at it.
PartitionBusy ==
  /\ Goto("rm2", "rebooting")
  /\ UNCHANGED <<disks, volume, stores, history>>

MakePartition ==
  /\ Goto("mkpart", "resize2fs")
  /\ part' = "whole"
  /\ UNCHANGED <<disks, fs, stores, history>>

Resize2fs ==
  /\ Goto("resize2fs", "rebooting")
  /\ IF damage["storage"] = "errors" THEN UNCHANGED <<fs, damage>>
     ELSE fs' = "whole" /\ damage' = [damage EXCEPT !["storage"] = "none"]
  /\ UNCHANGED <<there, mounted, tries, checked, part, stores, history>>

----------------------------------------------------------------------------
(* factory-reset.                                                          *)

HardReset ==
  /\ Goto("reset", "mke2fs") /\ "reset_oe" \in store.marks
  /\ Unmark("reset_oe")
  /\ UNCHANGED <<disks, volume, storeDisk, unsynced, history>>

SoftReset ==
  /\ Goto("reset", "rmAll") /\ "reset_oe" \notin store.marks
  /\ Unmark("reset_xbmc")
  /\ UNCHANGED <<disks, volume, storeDisk, unsynced, history>>

StartFormat ==
  /\ Goto("mke2fs", "formatting")
  /\ fs' = "none" /\ mounted' = mounted \ {"storage"}
  /\ Sync
  /\ UNCHANGED <<there, tries, checked, damage, part, store, history>>

\* umount fails, and mke2fs does not format what is mounted.
StorageBusy ==
  /\ Goto("mke2fs", "rebooting")
  /\ UNCHANGED <<disks, volume, stores, history>>

EndFormat ==
  /\ Goto("formatting", "tune2fs")
  /\ fs' = "unnamed"
  /\ store' = EmptyStore /\ storeDisk' = EmptyStore /\ UNCHANGED unsynced
  /\ damage' = [damage EXCEPT !["storage"] = "none"]
  /\ UNCHANGED <<there, mounted, tries, checked, part, history>>

NameNothing ==   \* mutant: the new file system has no name
  /\ Goto("tune2fs", "rebooting")
  /\ UNCHANGED <<disks, volume, stores, history>>
\* It gets the name that disk= has; by its device it is found without one.
Tune2fs ==
  /\ Goto("tune2fs", "rebooting")
  /\ fs' = part
  /\ UNCHANGED <<disks, part, stores, history>>

\* rm -rf /storage/.??*: one thing after the other.
RemoveSome ==
  /\ pc = "rmAll"
  /\ \/ store.data # Nothing /\ store' = [store EXCEPT !.data = Torn]
     \/ \E m \in store.marks   : Unmark(m)
     \/ \E b \in store.backups : store' = [store EXCEPT !.backups = @ \ {b}]
  /\ UNCHANGED <<pc, disks, volume, storeDisk, unsynced, history>>

RemoveAll ==
  /\ Goto("rmAll", "rebooting")
  /\ store' = EmptyStore
  /\ UNCHANGED <<disks, volume, storeDisk, unsynced, history>>

----------------------------------------------------------------------------
(* backup-restore.                                                         *)

Oldest ==   \* mutant: head instead of tail
  CHOOSE b \in store.backups : \A c \in store.backups : b <= c
\* ls -1 | tail -1: the newest.
Chosen ==
  CHOOSE b \in store.backups : \A c \in store.backups : c <= b
Drop(b) == store' = [store EXCEPT !.backups = @ \ {b}]

TestBackup ==
  /\ pc = "restore"
  /\ IF Chosen \in Sound THEN pc' = "wipe" /\ UNCHANGED store
     ELSE pc' = "rebooting" /\ Drop(Chosen)
  /\ UNCHANGED <<disks, volume, storeDisk, unsynced, history>>

Wipe ==
  /\ pc = "wipe"
  /\ \/ store.data = User /\ store' = [store EXCEPT !.data = Torn] /\ UNCHANGED pc
     \/ store' = [store EXCEPT !.data = Nothing] /\ pc' = "extract"
  /\ UNCHANGED <<disks, volume, storeDisk, unsynced, history>>

\* Whether tar succeeds is not looked at.
Extract ==
  /\ pc = "extract" /\ unsynced' = TRUE
  /\ \/ store.data = Nothing /\ store' = [store EXCEPT !.data = Torn] /\ UNCHANGED pc
     \/ /\ pc' = "rmBackup"
        /\ store' = [store EXCEPT !.data = IF Chosen \in Fits THEN Chosen ELSE Torn]
  /\ UNCHANGED <<disks, volume, storeDisk, history>>

RemoveBackup ==
  /\ Goto("rmBackup", "rebooting")
  /\ Drop(Chosen)
  /\ UNCHANGED <<disks, volume, storeDisk, unsynced, history>>

\* sync, and reboot -f.
Reboot ==
  /\ Goto("rebooting", "off")
  /\ Sync
  /\ UNCHANGED <<disks, volume, store, history>>

----------------------------------------------------------------------------
(* The user of the running system, and the power.                          *)

InUse == pc = "running" /\ "storage" \in mounted
Durably(s) == store' = s /\ storeDisk' = s /\ UNCHANGED unsynced

Settings ==
  /\ InUse /\ store.data # User
  /\ Durably([store EXCEPT !.data = User])
  /\ UNCHANGED <<pc, disks, volume, history>>

Ask(s) ==
  /\ InUse /\ store.data = User /\ asks < MaxAsks /\ asks' = asks + 1
  /\ Durably(s)
  /\ UNCHANGED <<pc, disks, volume, had, cutIn, cuts>>
AskReset   == \E m \in Marks : Ask([store EXCEPT !.marks = @ \cup {m}])
AskRestore == \E b \in Backups : Ask([store EXCEPT !.backups = @ \cup {b}])

UserReboot ==
  /\ Goto("running", "off")
  /\ Sync /\ had' = store
  /\ UNCHANGED <<disks, volume, store, cutIn, cuts, asks>>

SwitchOff ==
  /\ Goto("noSystem", "off") \/ Goto("poweredOff", "off")
  /\ Sync
  /\ UNCHANGED <<disks, volume, store, history>>

\* What is mounted for writing, or being repaired, may be damaged.
Damaged ==
  CASE pc \in {"resize2fs", "forced"}                   -> Damages
    [] "storage" \in mounted /\ pc \notin {"resize2fs", "forced"}
                                                        -> {"none", "minor"}
    [] OTHER                                            -> {damage["storage"]}

PowerCut ==
  /\ pc \notin {"off", "poweredOff"} /\ cuts < MaxCuts /\ cuts' = cuts + 1
  /\ pc' = "off"
  /\ store' = storeDisk /\ unsynced' = FALSE
  /\ \E d \in Damaged : damage' = [damage EXCEPT !["storage"] = d]
  /\ fs' \in IF pc = "resize2fs" THEN {fs, "whole"} ELSE {fs}
  /\ cutIn' = cutIn \cup Window
  /\ had' = IF pc = "running" THEN storeDisk ELSE had
  /\ UNCHANGED <<there, mounted, tries, checked, part, storeDisk, asks>>

----------------------------------------------------------------------------
InitStep ==   \* what init and the units do by themselves
  \/ PowerOn \/ CheckDisks \/ NoFsck \/ Repair \/ MountFlash \/ MountStorage
  \/ PrepareSysroot
  \/ Refuse \/ Resize \/ RemovePartition \/ PartitionBusy \/ MakePartition
  \/ Resize2fs
  \/ HardReset \/ SoftReset \/ StartFormat \/ StorageBusy \/ EndFormat
  \/ Tune2fs \/ RemoveSome \/ RemoveAll
  \/ TestBackup \/ Wipe \/ Extract \/ RemoveBackup \/ Reboot
People == PressKey \/ ExitShell \/ Settings \/ AskReset \/ AskRestore \/ UserReboot
          \/ SwitchOff
Next == InitStep \/ People \/ DiskAppears \/ Commit \/ PowerCut

Spec == Init /\ [][Next]_vars
FairSpec == Spec /\ WF_vars(InitStep)

----------------------------------------------------------------------------
(* Properties.                                                             *)

\* /storage can be mounted at every boot: only a disk that the kernel does not
\* find in time, or a power cut while a file system or a partition was being
\* made, ends in the shell.
StorageComesUp ==
  pc = "storageShell" /\ "storage" \notin MayBeLate
    => cutIn \cap {"format", "partition"} # {}

\* Unless the check is switched off, a file system that it came to is not in use
\* with errors, however many boots, cuts, repairs and new file systems were
\* before.  One that it did not come to may be, but only because a disk was
\* late: its own, or with names any of them.
CheckedBeforeUse ==
  Checks => \A d \in mounted :
    damage[d] = "errors" => /\ d \notin checked
                            /\ MayBeLate # {} /\ (ByName \/ d \in MayBeLate)

\* What was asked of the units when the system was last left.
Resets(s) == s.marks \cap {"reset_oe", "reset_xbmc"}
Restored(s) ==
  IF s.backups \cap Sound = {} THEN s.data
  ELSE CHOOSE b \in s.backups \cap Sound : \A c \in s.backups \cap Sound : b <= c
Results(s) == (IF Resets(s) = {} THEN {} ELSE {Nothing})
              \cup (IF "reset_xbmc" \in s.marks THEN {} ELSE {Restored(s)})

\* Whatever markers and archives there are, and wherever the power fails
\* outside of the windows: the system starts with the settings it was left
\* with, or with what was asked for.  Of several archives the oldest is the
\* last to be restored; a hard reset may not happen, with /storage busy.
OnlyAskedFor ==
  [][Sound \subseteq Fits /\ cutIn = {} /\ pc = "sysroot" /\ pc' = "running"
       /\ "storage" \in mounted
     => store.data \in Results(had)]_vars

\* The partition table of a system with settings is not touched.
NeverResizedInUse == [][part' # part => storeDisk.data = Nothing]_vars

\* No marker, archive or damage makes the device reboot for ever, if fsck
\* repairs what it says it does.
BootEnds == Repairs => []<>(pc \in Resting)
=============================================================================
