---------------------------- MODULE FlashUpdate ----------------------------
(***************************************************************************)
(* The update that the initramfs performs before it starts the system      *)
(* (packages/sysutils/busybox/scripts/init, check_update and what it        *)
(* calls), together with the user who fills /storage/.update, the boot     *)
(* loader, and a power cut that may come at any step.                      *)
(*                                                                         *)
(* A file is its image: a release, or one of the values below that stand   *)
(* for everything that is no intact release.  Files have sizes, because    *)
(* the size check and a full /flash are part of the behaviour.             *)
(***************************************************************************)
EXTENDS Naturals

CONSTANTS
  Releases,           \* releases whose images may be installed or offered
  Absent,             \* no such file
  NoTar,              \* UPDATE_TAR is empty
  Torn,               \* what an interrupted or failed write leaves behind
  Corrupt,            \* a staged image that is not what the release built
  Empty,              \* a zero-sized .md5 file
  Bundles,            \* what a user copies, or a .tar holds: [img, md5]
  HiddenNames,        \* TRUE if a .tar's name may escape the cleanup's glob
  KernelOnPartition,  \* BOOT_IMAGE is a block device, not a file of /flash
  BootUpdaters,       \* releases that ship usr/share/bootloader/update.sh
  SizeOf,             \* size of an image: [Files -> [Staged -> Nat]]
  FlashCap,           \* space for KERNEL and SYSTEM on /flash
  PartitionCap,       \* size of the kernel's partition
  FlashFreeMin,       \* FLASH_FREE_MIN
  MaxCuts,            \* bound: power cuts in a behaviour
  MaxCopies           \* bound: copies the user makes to /storage/.update

Files   == {"KERNEL", "SYSTEM"}
Parts   == Files \cup {"BOOT"}            \* what must survive for a boot
Staged  == Releases \cup {Corrupt}
Images  == Staged \cup {Torn}
Md5s    == Releases \cup {Empty}
Bundle  == [img: [Files -> Staged \cup {Absent}],
            md5: [Files -> Md5s \cup {Absent}]]
Tars    == [bundle: Bundles, hidden: {FALSE, HiddenNames}]

Stored  == [img: Images \cup {Absent}, size: Nat]
Missing == [img |-> Absent, size |-> 0]
UpdateDir == [img: [Files -> Staged \cup {Absent}],
              md5: [Files -> Md5s \cup {Absent}],
              tars: SUBSET Tars, nocheck: BOOLEAN]
EmptyDir  == [img |-> [f \in Files |-> Absent],
              md5 |-> [f \in Files |-> Absent],
              tars |-> {}, nocheck |-> FALSE]

ASSUME ImagesDistinct ==
  /\ Absent \notin Images \cup {Empty} /\ Empty \notin Releases
  /\ NoTar \notin Tars /\ Torn \notin Staged /\ Corrupt \notin Releases
ASSUME ConstantTypes ==
  /\ Bundles \subseteq Bundle
  /\ HiddenNames \in BOOLEAN /\ KernelOnPartition \in BOOLEAN
  /\ BootUpdaters \subseteq Releases
  /\ SizeOf \in [Files -> [Staged -> Nat]]
  /\ FlashCap \in Nat /\ PartitionCap \in Nat /\ FlashFreeMin \in Nat
  /\ MaxCuts \in Nat /\ MaxCopies \in Nat

VARIABLES
  pc,           \* where the machine is: a step of init, or its final state
  cur,          \* the file update_file was called for
  flash,        \* KERNEL, SYSTEM and boot loader as the page cache has them
  disk,         \* ... and as of the last sync
  dirty,        \* the parts written since the last sync
  upd,          \* /storage/.update as the running kernel sees it
  updDisk,      \* ... and as its journal has it
  tar,          \* UPDATE_TAR
  cuts, copies, \* how often the power failed and the user copied
  interrupted   \* history: the power failed inside the write window

media   == <<flash, disk, dirty>>
dirs    == <<upd, updDisk>>
history == <<cuts, copies, interrupted>>
vars    == <<pc, cur, media, dirs, tar, history>>

Steps   == {"check", "extract", "removeTar", "completeness", "verify",
            "write", "remove", "sync", "bootloader", "syncBoot",
            "cleanThenReboot", "cleanThenBoot", "sysroot"}
Resting == {"running", "dead", "shell", "updateShell"}
PCs     == Steps \cup Resting \cup {"off"}

\* From the first write of an image to the sync that makes the pair durable,
\* and from the boot loader's first write to its sync.
InWriteWindow ==
  pc \in {"remove", "sync", "syncBoot"} \/ (pc = "write" /\ cur = "SYSTEM")

TypeOK ==
  /\ pc \in PCs /\ cur \in Files
  /\ flash \in [Parts -> Stored] /\ disk \in [Parts -> Stored]
  /\ dirty \subseteq Parts
  /\ upd \in UpdateDir /\ updDisk \in UpdateDir
  /\ tar \in Tars \cup {NoTar}
  /\ cuts \in 0..MaxCuts /\ copies \in 0..MaxCopies
  /\ interrupted \in BOOLEAN

Installed(r) ==
  [p \in Parts |-> [img  |-> r,
                    size |-> IF p \in Files THEN SizeOf[p][r] ELSE 0]]

OnFlash   == IF KernelOnPartition THEN {"SYSTEM"} ELSE Files
OldKernel == IF KernelOnPartition THEN 0 ELSE flash["KERNEL"].size
UsedBy(m) == m["SYSTEM"].size
             + IF KernelOnPartition THEN 0 ELSE m["KERNEL"].size
FlashFree == FlashCap - UsedBy(flash)

\* A freshly installed device, about to be switched on.
Init ==
  /\ pc = "off" /\ cur = "KERNEL"
  /\ \E r \in Releases : flash = Installed(r)
  /\ UsedBy(flash) <= FlashCap
  /\ disk = flash /\ dirty = {}
  /\ upd = EmptyDir /\ updDisk = EmptyDir /\ tar = NoTar
  /\ cuts = 0 /\ copies = 0 /\ interrupted = FALSE

Goto(from, to) == pc = from /\ pc' = to

----------------------------------------------------------------------------
(* The storage below the script.                                           *)

Sync ==
  /\ disk' = flash /\ dirty' = {} /\ updDisk' = upd
  /\ UNCHANGED <<flash, upd>>

\* ext4 commits what was done to the directory, in order, when it likes.
Commit ==
  /\ updDisk' = upd /\ updDisk # upd
  /\ UNCHANGED <<pc, cur, media, upd, tar, history>>

----------------------------------------------------------------------------
(* The boot loader, and init up to the decision to update.                 *)

\* A kernel that is no intact image, or a damaged boot loader, does not boot.
PowerOn ==
  /\ pc = "off"
  /\ pc' = IF flash["KERNEL"].img \in Releases /\ flash["BOOT"].img # Torn
           THEN "check" ELSE "dead"
  /\ UNCHANGED <<cur, media, dirs, tar, history>>

HasPair(u) == \A f \in Files : u.img[f] # Absent

CheckUpdate ==
  /\ pc = "check"
  /\ \/ /\ upd.tars # {}
        /\ tar' \in upd.tars       \* ls -1 | head -n 1: one of them
        /\ pc' = "extract"
     \/ /\ upd.tars = {} /\ UNCHANGED tar
        /\ pc' = IF HasPair(upd) THEN "verify" ELSE "sysroot"
  /\ UNCHANGED <<cur, media, dirs, history>>

\* What the bundle has replaces what the directory has.  The files are moved
\* one by one; a cut before the last leaves the .tar, which is unpacked again.
Merge(u, b) ==
  [u EXCEPT
    !.img = [f \in Files |-> IF b.img[f] = Absent THEN u.img[f] ELSE b.img[f]],
    !.md5 = [f \in Files |-> IF b.md5[f] = Absent THEN u.md5[f] ELSE b.md5[f]]]

Extract ==
  /\ Goto("extract", "removeTar")
  /\ upd' = Merge(upd, tar.bundle)
  /\ UNCHANGED <<cur, media, updDisk, tar, history>>

KeepTar ==   \* mutant: the archive survives its extraction
  /\ Goto("removeTar", "completeness") /\ tar' = NoTar
  /\ UNCHANGED <<cur, media, dirs, history>>
RemoveTar ==
  /\ Goto("removeTar", "completeness")
  /\ upd' = [upd EXCEPT !.tars = @ \ {tar}]
  /\ tar' = NoTar
  /\ UNCHANGED <<cur, media, updDisk, history>>

\* An incomplete archive is left unpacked where it is: return 0.
Completeness ==
  /\ pc = "completeness"
  /\ Sync
  /\ pc' = IF HasPair(upd) THEN "verify" ELSE "sysroot"
  /\ UNCHANGED <<cur, tar, history>>

Md5Present == \A f \in Files : upd.md5[f] \in Releases   \* mutant: not compared
Md5Ok ==
  \A f \in Files : upd.md5[f] \in Releases /\ upd.md5[f] = upd.img[f]

NewSize(f) == SizeOf[f][upd.img[f]]
SizeOkNoMargin ==   \* mutant: without FLASH_FREE_MIN
  OldKernel + flash["SYSTEM"].size + FlashFree
    >= NewSize("KERNEL") + NewSize("SYSTEM")
SizeOk ==
  OldKernel + flash["SYSTEM"].size + FlashFree
    >= FlashFreeMin + NewSize("KERNEL") + NewSize("SYSTEM")

VerifyEither ==   \* mutant: one of the two checks will do
  /\ pc = "verify"
  /\ pc' = IF SizeOk \/ Md5Ok \/ upd.nocheck THEN "write" ELSE "cleanThenBoot"
  /\ UNCHANGED <<cur, media, dirs, tar, history>>
Verify ==
  /\ pc = "verify"
  /\ pc' = IF SizeOk /\ (Md5Ok \/ upd.nocheck)
           THEN "write" ELSE "cleanThenBoot"
  /\ UNCHANGED <<cur, media, dirs, tar, history>>

\* Without /flash/SYSTEM its size is the empty string, the sum reads a++b,
\* and a shell that takes ++ for an increment dies of a syntax error.
SizeSyntaxError ==
  /\ Goto("verify", "dead")
  /\ flash["SYSTEM"].img = Absent
  /\ UNCHANGED <<cur, media, dirs, tar, history>>

----------------------------------------------------------------------------
(* update_file, update_partition and update_bootloader.                    *)

AfterKernel == pc' = "bootloader" /\ cur' = "KERNEL"   \* mutant: SYSTEM forgotten
AfterFile ==
  IF cur = "KERNEL" THEN pc' = "write" /\ cur' = "SYSTEM"
                    ELSE pc' = "bootloader" /\ cur' = "KERNEL"

ToPartition == KernelOnPartition /\ cur = "KERNEL"
MayWrite    == upd.img[cur] # Absent /\ flash[cur].img # Absent

\* A copy of upd's image, or as much of it as there is room for.
Copy(f, room) ==
  IF NewSize(f) <= room THEN [img |-> upd.img[f], size |-> NewSize(f)]
                        ELSE [img |-> Torn, size |-> room]

\* mv across file systems unlinks the target, copies, and removes the source
\* if the copy succeeded.  Its exit status is not looked at.
WriteFile ==
  LET room == FlashFree + flash[cur].size
  IN  /\ pc = "write" /\ ~ToPartition /\ MayWrite
      /\ flash' = [flash EXCEPT ![cur] = Copy(cur, room)]
      /\ dirty' = dirty \cup {cur}
      /\ pc' = IF NewSize(cur) <= room THEN "remove" ELSE "sync"
      /\ UNCHANGED <<cur, disk, dirs, tar, history>>

TruncateSource ==   \* mutant: the source is emptied, not removed
  /\ Goto("remove", "sync")
  /\ upd' = [upd EXCEPT !.img[cur] = Torn]
  /\ UNCHANGED <<cur, media, updDisk, tar, history>>
RemoveSource ==
  /\ Goto("remove", "sync")
  /\ upd' = [upd EXCEPT !.img[cur] = Absent]
  /\ UNCHANGED <<cur, media, updDisk, tar, history>>

NoSync ==   \* mutant: update_file without its sync
  /\ pc = "sync" /\ AfterFile
  /\ UNCHANGED <<media, dirs, tar, history>>
SyncFile ==
  /\ pc = "sync" /\ AfterFile
  /\ Sync
  /\ UNCHANGED <<tar, history>>

\* dd writes through the page cache, leaves its source, and is not synced.
WritePartition ==
  /\ pc = "write" /\ ToPartition /\ MayWrite /\ AfterFile
  /\ flash' = [flash EXCEPT ![cur] = Copy(cur, PartitionCap)]
  /\ dirty' = dirty \cup {cur}
  /\ UNCHANGED <<disk, dirs, tar, history>>

\* No file to replace (or to replace it with): nothing is done.
SkipFile ==
  /\ pc = "write" /\ ~MayWrite /\ AfterFile
  /\ UNCHANGED <<media, dirs, tar, history>>

Mountable == flash["SYSTEM"].img \in Releases

\* The new SYSTEM is mounted and its updater, if it has one, is run.
UpdateBootloader ==
  /\ pc = "bootloader" /\ Mountable
  /\ IF flash["SYSTEM"].img \in BootUpdaters
     THEN /\ pc' = "syncBoot"
          /\ flash' = [flash EXCEPT !["BOOT"].img = flash["SYSTEM"].img]
          /\ dirty' = dirty \cup {"BOOT"}
     ELSE pc' = "cleanThenReboot" /\ UNCHANGED <<flash, dirty>>
  /\ UNCHANGED <<cur, disk, dirs, tar, history>>

SyncBoot ==
  /\ Goto("syncBoot", "cleanThenReboot")
  /\ Sync
  /\ UNCHANGED <<cur, tar, history>>

\* error() in mount_common: a debug shell on tty1, and init waits for it.
NoSysroot ==
  /\ Goto("bootloader", "updateShell") /\ ~Mountable
  /\ UNCHANGED <<cur, media, dirs, tar, history>>

ExitShell ==
  /\ Goto("updateShell", "cleanThenReboot")
  /\ UNCHANGED <<cur, media, dirs, tar, history>>

----------------------------------------------------------------------------
(* The end of check_update, do_reboot and prepare_sysroot.                 *)

Visible(u) ==   \* what [0-9a-zA-Z]* matches: not .nocheck, not "_new.tar"
  [img  |-> {f \in Files : u.img[f] # Absent},
   md5  |-> {f \in Files : u.md5[f] # Absent},
   tars |-> {t \in u.tars : ~t.hidden}]
Clean(u) == Visible(u) = [img |-> {}, md5 |-> {}, tars |-> {}]

CleanStep ==
  /\ pc \in {"cleanThenReboot", "cleanThenBoot"}
  /\ \/ \E f \in Visible(upd).img  : upd' = [upd EXCEPT !.img[f] = Absent]
     \/ \E f \in Visible(upd).md5  : upd' = [upd EXCEPT !.md5[f] = Absent]
     \/ \E t \in Visible(upd).tars : upd' = [upd EXCEPT !.tars = @ \ {t}]
  /\ UNCHANGED <<pc, cur, media, updDisk, tar, history>>

DoReboot ==
  /\ Goto("cleanThenReboot", "off") /\ Clean(upd)
  /\ Sync
  /\ UNCHANGED <<cur, tar, history>>

Refused ==
  /\ Goto("cleanThenBoot", "sysroot") /\ Clean(upd)
  /\ Sync
  /\ UNCHANGED <<cur, tar, history>>

PrepareSysroot ==
  /\ pc = "sysroot"
  /\ pc' = IF Mountable THEN "running" ELSE "shell"
  /\ UNCHANGED <<cur, media, dirs, tar, history>>

----------------------------------------------------------------------------
(* The user of the running system, and the power.                          *)

Offer(u) ==
  /\ pc = "running" /\ copies < MaxCopies
  /\ copies' = copies + 1
  /\ upd' = u /\ updDisk' = u
  /\ UNCHANGED <<pc, cur, media, tar, cuts, interrupted>>

CopyFiles    == \E b \in Bundles : Offer(Merge(upd, b))
CopyTar      == \E t \in Tars : Offer([upd EXCEPT !.tars = @ \cup {t}])
TouchNocheck == Offer([upd EXCEPT !.nocheck = TRUE])

UserReboot ==
  /\ Goto("running", "off")
  /\ Sync
  /\ UNCHANGED <<cur, tar, history>>

\* What a power cut may leave of a part: if it is dirty, the old version, the
\* new one, any beginning of it, or (a file just unlinked) nothing.
Survivors(p) ==
  IF p \notin dirty THEN {flash[p]}
  ELSE {disk[p], flash[p]}
       \cup [img: {Torn}, size: 0..flash[p].size]
       \cup (IF p \in OnFlash THEN {Missing} ELSE {})

PowerCut ==
  /\ pc \notin {"off", "dead"} /\ cuts < MaxCuts
  /\ pc' = "off" /\ cur' = "KERNEL" /\ tar' = NoTar
  /\ \E k \in Survivors("KERNEL"), s \in Survivors("SYSTEM"),
        b \in Survivors("BOOT") :
       flash' = [p \in Parts |-> CASE p = "KERNEL" -> k
                                   [] p = "SYSTEM" -> s
                                   [] p = "BOOT"   -> b]
  /\ disk' = flash' /\ dirty' = {}
  /\ upd' = updDisk /\ UNCHANGED updDisk
  /\ cuts' = cuts + 1 /\ UNCHANGED copies
  /\ interrupted' = (interrupted \/ InWriteWindow)

----------------------------------------------------------------------------
InitStep ==   \* what the boot loader and init do by themselves
  \/ PowerOn \/ CheckUpdate \/ Extract \/ RemoveTar \/ Completeness
  \/ Verify \/ SizeSyntaxError
  \/ WriteFile \/ RemoveSource \/ SyncFile \/ WritePartition \/ SkipFile
  \/ UpdateBootloader \/ SyncBoot \/ NoSysroot
  \/ CleanStep \/ DoReboot \/ Refused \/ PrepareSysroot
User == ExitShell \/ CopyFiles \/ CopyTar \/ TouchNocheck \/ UserReboot
Next == InitStep \/ User \/ Commit \/ PowerCut

Spec == Init /\ [][Next]_vars
\* A sequential script under a fair scheduler; users and power promise nothing.
FairSpec == Spec /\ WF_vars(InitStep)

----------------------------------------------------------------------------
(* Preconditions on the constants that the code does not establish.        *)

\* Every kernel fits next to every SYSTEM, and into its partition.
KernelFits ==
  \A k \in Releases, s \in Releases :
    IF KernelOnPartition
    THEN SizeOf["KERNEL"][k] <= PartitionCap
    ELSE SizeOf["KERNEL"][k] + SizeOf["SYSTEM"][s] <= FlashCap

\* Nobody offers half an update, or the halves of two.
WholeBundles ==
  \A b \in Bundles :
    /\ \A f \in Files : b.img[f] # Absent
    /\ b.img["KERNEL"] \in Releases /\ b.img["SYSTEM"] \in Releases
         => b.img["KERNEL"] = b.img["SYSTEM"]

----------------------------------------------------------------------------
(* The abstract specification, and how this one implements it: a release   *)
(* counts as installed as soon as its kernel is being written.             *)

Promise == INSTANCE UpdatePromise WITH
  installed <- flash["KERNEL"].img,
  offered   <- {r \in Releases : \A f \in Files : upd.img[f] = r
                                              /\ upd.md5[f] = r},
  up        <- pc = "running",
  void      <- interrupted \/ upd.nocheck

\* The update check_update performs is the one UpdatePromise describes, given
\* KernelFits and WholeBundles.
KeepsPromise == Promise!Spec

----------------------------------------------------------------------------
(* Properties.                                                             *)

\* The comment of the size check (init l.464-465): at least FLASH_FREE_MIN is
\* free after an update - also after one whose kernel did not fit, and over
\* what earlier power cuts left on /flash.
FreeAfterUpdate ==
  pc \in {"bootloader", "syncBoot", "updateShell", "cleanThenReboot"}
    => FlashFree >= FlashFreeMin

\* check_update's gate: with the power on throughout every write window and no
\* .nocheck, the device boots, and boots a kernel and a SYSTEM that belong
\* together.  Power cuts outside of the write window may come at any time.
PairIntact ==
  KernelFits /\ WholeBundles /\ ~interrupted /\ ~upd.nocheck /\ ~InWriteWindow
    => /\ flash["KERNEL"].img \in Releases
       /\ flash["SYSTEM"].img = flash["KERNEL"].img
       /\ flash["BOOT"].img \in Releases

\* No step puts a corrupt image on /flash unless .nocheck waives the md5 check.
OnlyVerifiedImages ==
  [][\A f \in Files : flash'[f].img = Corrupt /\ flash[f].img # Corrupt
       => upd.nocheck]_vars

\* Every boot ends: no sequence of updates, refusals and reboots goes on for
\* ever without the system, a shell or a dead device.
BootEnds == []<>(pc \in Resting)

Accepted(r) == /\ pc = "write" /\ cur = "KERNEL" /\ upd.tars = {}
               /\ \A f \in Files : upd.img[f] = r
Runs(r)     == pc = "running" /\ \A f \in Files : flash[f].img = r

\* README l.64-68 (the system will automatically upgrade during the next
\* reboot): an update that passed the checks of check_update is what runs in
\* the end, unless the power fails in a write window.
AcceptedIsInstalled == \A r \in Releases : Accepted(r) ~> Runs(r) \/ interrupted
=============================================================================
