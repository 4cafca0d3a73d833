------------------------------ MODULE Installer ------------------------------
(***************************************************************************)
(* The installer (packages/tools/installer/scripts/installer): a menu, two *)
(* confirmations, and a list of commands whose statuses nobody looks at.    *)
(* Quick Install makes a disk anew, Repair / Upgrade replaces KERNEL and    *)
(* SYSTEM on one that has them.                                            *)
(*                                                                         *)
(* What is on a disk is the set of the commands that took effect there.    *)
(* menu_main never returns to its caller: whoever calls it goes there.     *)
(***************************************************************************)
EXTENDS Naturals, Sequences, SequencesExt

CONSTANTS
  Devices,   \* disks
  Medium,    \* the one that the installer runs from, mounted at /flash
  Small,     \* disks with less room than PARTSIZE_SYSTEM
  Uefi,      \* the system partition is a vfat, which tune2fs cannot read
  NewSize,   \* sizes of the files on the medium, and ...
  OldSize,   \* ... of those on disks with an earlier release
  Room,      \* of the system partition, PARTSIZE_SYSTEM
  OldRooms,  \* of those that earlier releases made
  MaxFails,  \* bound: commands that fail
  MaxCuts,   \* bound: power cuts
  MaxJobs    \* bound: choices in the menu

Files  == {"KERNEL", "SYSTEM"}
Points == {"part1", "part2"}

ASSUME Assumptions ==
  /\ Medium \in Devices /\ Small \subseteq Devices /\ Uefi \in BOOLEAN
  /\ NewSize \in [Files -> Nat] /\ OldSize \in [Files -> Nat]
  /\ Room \in Nat /\ OldRooms \subseteq Nat
  /\ NewSize["KERNEL"] + NewSize["SYSTEM"] <= Room
  /\ \A r \in OldRooms : OldSize["KERNEL"] + OldSize["SYSTEM"] <= r
  /\ MaxFails \in Nat /\ MaxCuts \in Nat /\ MaxJobs \in Nat

\* Commands whose effect stays on the disk: on its sectors, or in its files.
Layout  == {"label", "mbr", "mkpart1", "mkpart2", "flag", "fs1", "name1", "fs2",
            "name2"}
Content == {"extlinux", "conf", "backup"}
Effects == Layout \cup Content
Bootable == Effects \ {"backup"}
Images  == [img: {"none", "old", "new", "torn"}, size: Nat]
None    == [img |-> "none", size |-> 0]
NoFiles == [f \in Files |-> None]
Disks   == [on: SUBSET Effects, room: {0, Room} \cup OldRooms, img: [Files -> Images]]

Commands == Effects \cup Files
            \cup {"wipe", "mount1", "mount2", "space", "sync", "umount1", "umount2"}
QuickPlan ==
  <<"wipe", "label", "mbr", "mkpart1", "mkpart2", "flag", "fs1", "name1", "fs2",
    "name2", "mount1", "extlinux", "KERNEL", "SYSTEM", "sync", "conf", "sync",
    "umount1">>
BackupPlan == <<"mount2", "backup", "sync", "umount2">>
RepairPlan == <<"mount1", "space", "KERNEL", "SYSTEM", "sync", "umount1">>

Jobs   == [kind: {"quick", "repair"}, dev: Devices, backup: BOOLEAN]
Plan(j) ==
  IF j.kind = "repair" THEN RepairPlan
  ELSE QuickPlan \o IF j.backup THEN BackupPlan ELSE <<>>

VARIABLES
  pc,        \* "off", "menu", the two confirmations, "work", "refused", "complete"
  job,       \* what was chosen last
  plan,      \* the commands that are left
  disk,      \* [Devices -> what took effect, the room, and KERNEL and SYSTEM]
  dirty,     \* files that are not on their disks yet: <<device, file>>
  mnt,       \* [Points -> what is mounted there, the topmost last]
  tmp,       \* [Points -> the directory itself: "absent", "empty" or "filled"]
  failed,    \* history: a command of this job failed
  troubled,  \* history: a command had no effect since the machine was started
  fails, cuts, jobs

mounts  == <<mnt, tmp>>
history == <<failed, troubled, fails, cuts, jobs>>
vars    == <<pc, job, plan, disk, dirty, mounts, history>>

PCs == {"off", "menu", "confirm", "lastChance", "work", "refused", "complete"}

SizeOn(d) == disk[d].img["KERNEL"].size + disk[d].img["SYSTEM"].size

TypeOK ==
  /\ pc \in PCs /\ job \in Jobs /\ plan \in Seq(Commands)
  /\ disk \in [Devices -> Disks]
  /\ \A d \in Devices : SizeOn(d) <= disk[d].room
  /\ dirty \subseteq Devices \X (Content \cup Files)
  /\ mnt \in [Points -> Seq(Devices)]
  /\ tmp \in [Points -> {"absent", "empty", "filled"}]
  /\ failed \in BOOLEAN /\ troubled \in BOOLEAN
  /\ fails \in 0..MaxFails /\ cuts \in 0..MaxCuts /\ jobs \in 0..MaxJobs

\* A disk with something else, or with an earlier release.
Foreign == [on |-> {}, room |-> 0, img |-> NoFiles]
Earlier(r) == [on |-> Bootable, room |-> r,
            img |-> [f \in Files |-> [img |-> "old", size |-> OldSize[f]]]]

Init ==
  /\ pc = "off" /\ plan = <<>> /\ dirty = {}
  /\ job = [kind |-> "repair", dev |-> Medium, backup |-> FALSE]
  /\ disk \in [Devices -> {Foreign} \cup {Earlier(r) : r \in OldRooms}]
  /\ \A d \in Small : disk[d] = Foreign
  /\ mnt = [p \in Points |-> <<>>] /\ tmp = [p \in Points |-> "absent"]
  /\ failed = FALSE /\ troubled = FALSE
  /\ fails = 0 /\ cuts = 0 /\ jobs = 0

Goto(from, to) == pc = from /\ pc' = to

----------------------------------------------------------------------------
(* The menus.                                                              *)

Mounted == {Medium} \cup {d \in Devices : \E p \in Points : d \in ToSet(mnt[p])}

AllDevices == Devices   \* mutant: mounted disks are listed too
\* get_device_unmount
Unmounted == Devices \ Mounted

\* Repair looks for the label of the system partition, with tune2fs.
Offered(kind) ==
  {d \in Unmounted : kind = "repair" => "name1" \in disk[d].on /\ ~Uefi}

PowerOn ==
  /\ Goto("off", "menu") /\ troubled' = FALSE
  /\ UNCHANGED <<job, plan, disk, dirty, mounts, failed, fails, cuts, jobs>>

Choose ==
  /\ Goto("menu", "confirm") /\ jobs < MaxJobs /\ jobs' = jobs + 1
  /\ job' \in {j \in Jobs : /\ j.dev \in Offered(j.kind)
                            /\ j.kind = "repair" => ~j.backup}
  /\ failed' = FALSE
  /\ UNCHANGED <<plan, disk, dirty, mounts, troubled, fails, cuts>>

SayYes ==
  /\ \/ Goto("confirm", "lastChance") /\ UNCHANGED plan
     \/ Goto("lastChance", "work") /\ plan' = Plan(job)
  /\ UNCHANGED <<job, disk, dirty, mounts, history>>

SayNo ==
  /\ pc \in {"confirm", "lastChance"} /\ pc' = "menu"
  /\ UNCHANGED <<job, plan, disk, dirty, mounts, history>>

Acknowledge ==   \* the message box of a finished installation
  /\ Goto("complete", "menu")
  /\ UNCHANGED <<job, plan, disk, dirty, mounts, history>>

----------------------------------------------------------------------------
(* The commands.                                                           *)

At(c) == pc \in {"work", "refused"} /\ plan # <<>> /\ Head(plan) = c
Advance ==
  /\ plan' = Tail(plan)
  /\ pc' = CASE Tail(plan) # <<>>                    -> pc
             [] Tail(plan) = <<>> /\ pc = "work"     -> "complete"
             [] Tail(plan) = <<>> /\ pc = "refused"  -> "menu"
  /\ UNCHANGED <<job, fails, cuts, jobs>>

Needs(c) ==
  CASE c \in {"mkpart1", "mkpart2"}           -> {"label"}
    [] c \in {"flag", "fs1"}                  -> {"mkpart1"}
    [] c = "fs2"                              -> {"mkpart2"}
    [] c \in {"name1", "mount1"}              -> {"fs1"}
    [] c \in {"name2", "mount2"}              -> {"fs2"}
    [] c \in {"wipe", "label", "mbr"}         -> {}

\* With the partition table go the partitions, with a file system its files.
\* The dd of 4 MB overwrites the table and the beginning of the first partition;
\* the file system of the second, which a new partition at the same place would
\* bring back if its mke2fs fails, counts as lost.
Loses(c) ==
  CASE c = "wipe"                                  -> Effects
    [] c = "label"                                 -> Effects \ {"mbr"}
    [] c = "fs1"                                   -> {"name1", "extlinux", "conf"}
    [] c = "fs2"                                   -> {"name2", "backup"}
    [] c \notin {"wipe", "label", "fs1", "fs2"}    -> {}

\* There is no room for partitions where others are.
Possible(c) ==
  /\ Needs(c) \subseteq disk[job.dev].on
  /\ c \in {"mkpart1", "mkpart2"} =>
       job.dev \notin Small /\ c \notin disk[job.dev].on

\* Partitions are numbered as they are made: without the first, what should be
\* the second is the first (with the rest of the disk, which counts as Room).
Made(c) ==
  CASE c = "wipe"    -> {}
    [] c = "mkpart2" -> IF "mkpart1" \in disk[job.dev].on THEN {c} ELSE {"mkpart1"}
    [] c \notin {"wipe", "mkpart2"} -> {c}

RoomAfter(c, r) ==
  CASE c \in {"wipe", "label"}    -> 0
    [] "mkpart1" \in Made(c)      -> Room
    [] c \notin {"wipe", "label"} /\ "mkpart1" \notin Made(c) -> r

NoBootFlag(c) ==   \* mutant: the boot flag is set on another partition
  /\ c \in Layout \cup {"wipe"} /\ At(c) /\ Possible(c) /\ Advance
  /\ disk' = [disk EXCEPT
       ![job.dev].on  = (@ \ Loses(c)) \cup (Made(c) \ {"flag"}),
       ![job.dev].img = IF c \in {"wipe", "label", "fs1"} THEN NoFiles ELSE @,
       ![job.dev].room = RoomAfter(c, @)]
  /\ UNCHANGED <<dirty, mounts, failed, troubled>>
LayOut(c) ==
  /\ c \in Layout \cup {"wipe"} /\ At(c) /\ Possible(c) /\ Advance
  /\ disk' = [disk EXCEPT
       ![job.dev].on  = (@ \ Loses(c)) \cup Made(c),
       ![job.dev].img = IF c \in {"wipe", "label", "fs1"} THEN NoFiles ELSE @,
       ![job.dev].room = RoomAfter(c, @)]
  /\ UNCHANGED <<dirty, mounts, failed, troubled>>

Point(c) == IF c \in {"mount2", "umount2", "backup"} THEN "part2" ELSE "part1"

MakeDir(p) == tmp' = [tmp EXCEPT ![p] = IF @ = "absent" THEN "empty" ELSE @]
Mount(c) ==
  /\ c \in {"mount1", "mount2"} /\ At(c) /\ Possible(c) /\ Advance
  /\ mnt' = [mnt EXCEPT ![Point(c)] = Append(@, job.dev)]
  /\ MakeDir(Point(c))
  /\ UNCHANGED <<disk, dirty, failed, troubled>>

\* The disk whose files are found at p, if there is one.
AnyAt(p) == mnt[p] # <<>>
Top(p)   == Last(mnt[p])

Appended(d, f) ==   \* mutant: the file is written after what is there
  [img |-> "new", size |-> disk[d].img[f].size + NewSize[f]]
\* cp truncates its target and writes as much as there is room for.
Copied(d, f) ==
  LET other == CHOOSE g \in Files : g # f
      room  == disk[d].room - disk[d].img[other].size
  IN  IF NewSize[f] <= room THEN [img |-> "new",  size |-> NewSize[f]]
                            ELSE [img |-> "torn", size |-> room]

Write(c) ==
  /\ c \in Content \cup Files /\ At(c) /\ AnyAt(Point(c)) /\ Advance
  /\ LET d == Top(Point(c))
     IN  /\ disk' = IF c \in Files THEN [disk EXCEPT ![d].img[c] = Copied(d, c)]
                                   ELSE [disk EXCEPT ![d].on = @ \cup {c}]
         /\ dirty' = dirty \cup {<<d, c>>}
  /\ UNCHANGED <<mounts, failed, troubled>>

Sync ==
  /\ At("sync") /\ Advance
  /\ dirty' = {}
  /\ UNCHANGED <<disk, mounts, failed, troubled>>

KeepDir(c) ==   \* mutant: without rmdir
  /\ c \in {"umount1", "umount2"} /\ At(c) /\ AnyAt(Point(c)) /\ Advance
  /\ mnt' = [mnt EXCEPT ![Point(c)] = Front(@)]
  /\ dirty' = {x \in dirty : x[1] # Top(Point(c))}
  /\ UNCHANGED <<disk, tmp, failed, troubled>>
\* umount, which writes what is dirty, and rmdir.
Umount(c) ==
  /\ c \in {"umount1", "umount2"} /\ At(c) /\ AnyAt(Point(c)) /\ Advance
  /\ mnt' = [mnt EXCEPT ![Point(c)] = Front(@)]
  /\ tmp' = [tmp EXCEPT ![Point(c)] =
               IF @ = "empty" /\ Len(mnt[Point(c)]) = 1 THEN "absent" ELSE @]
  /\ dirty' = {x \in dirty : x[1] # Top(Point(c))}
  /\ UNCHANGED <<disk, failed, troubled>>

\* Repair: is there enough space?  What is there counts as free.  With nothing
\* mounted the answer depends on the room in /tmp.
Enough(d) ==
  NewSize["KERNEL"] + NewSize["SYSTEM"] < (disk[d].room - SizeOn(d)) + SizeOn(d)
HasSpace ==
  /\ At("space") /\ (AnyAt("part1") => Enough(Top("part1"))) /\ Advance
  /\ UNCHANGED <<disk, dirty, mounts, failed, troubled>>

NoSpace ==
  /\ At("space") /\ (AnyAt("part1") => ~Enough(Top("part1")))
  /\ pc' = "refused" /\ plan' = <<"umount1">>
  /\ UNCHANGED <<job, disk, dirty, mounts, history>>

----------------------------------------------------------------------------
(* Commands without effect: what they need is not there, or they fail.     *)

\* The commands after a mount that failed write below /tmp.
Fill(c) ==
  IF c \in Files \cup {"conf", "backup"}
  THEN tmp' = [tmp EXCEPT ![Point(c)] = "filled"] ELSE UNCHANGED tmp
Vain ==
  /\ \E c \in Commands :
       /\ At(c)
       /\ \/ /\ c \in Layout \cup {"wipe"} /\ ~Possible(c) /\ UNCHANGED tmp
          \/ /\ c \in {"mount1", "mount2"} /\ ~Possible(c) /\ MakeDir(Point(c))
          \/ /\ c \in Content \cup Files /\ ~AnyAt(Point(c)) /\ Fill(c)
          \/ /\ c \in {"umount1", "umount2"} /\ ~AnyAt(Point(c))
             /\ tmp' = [tmp EXCEPT ![Point(c)] = IF @ = "empty" THEN "absent" ELSE @]
  /\ Advance /\ troubled' = TRUE
  /\ UNCHANGED <<disk, dirty, mnt, failed>>

Fail ==
  /\ fails < MaxFails /\ fails' = fails + 1
  /\ \E c \in Commands \ {"space", "sync"} :
       /\ At(c)
       /\ IF c \in {"mount1", "mount2"} THEN MakeDir(Point(c)) ELSE UNCHANGED tmp
       /\ disk' = IF c \in Files /\ AnyAt("part1")
                  THEN [disk EXCEPT ![Top("part1")].img[c] =
                          [img |-> "torn", size |-> 0]]
                  ELSE disk
  /\ plan' = Tail(plan)
  /\ pc' = CASE Tail(plan) # <<>>                    -> pc
             [] Tail(plan) = <<>> /\ pc = "work"     -> "complete"
             [] Tail(plan) = <<>> /\ pc = "refused"  -> "menu"
  /\ failed' = TRUE /\ troubled' = TRUE
  /\ UNCHANGED <<job, dirty, mnt, cuts, jobs>>

----------------------------------------------------------------------------
(* The end of a session.                                                   *)

Down ==
  /\ pc' = "off" /\ plan' = <<>> /\ dirty' = {}
  /\ mnt' = [p \in Points |-> <<>>] /\ tmp' = [p \in Points |-> "absent"]

\* do_reboot and do_poweroff: sync first.
Leave ==
  /\ pc = "menu" /\ Down
  /\ UNCHANGED <<job, disk, history>>

\* What was not synced may be lost or torn.
PowerCut ==
  /\ pc # "off" /\ cuts < MaxCuts /\ cuts' = cuts + 1
  /\ Down
  /\ \E lost \in SUBSET dirty :
       disk' = [d \in Devices |->
         [disk[d] EXCEPT !.on  = {c \in @ : <<d, c>> \notin lost},
                         !.img = [f \in Files |->
                           IF <<d, f>> \in lost THEN [@[f] EXCEPT !.img = "torn"]
                                                ELSE @[f]]]]
  /\ UNCHANGED <<job, failed, troubled, fails, jobs>>

Command ==
  \/ \E c \in Commands : LayOut(c) \/ Mount(c) \/ Write(c) \/ Umount(c)
  \/ Sync \/ HasSpace \/ NoSpace \/ Vain \/ Fail
User == PowerOn \/ Choose \/ SayYes \/ SayNo \/ Acknowledge \/ Leave
Next == Command \/ User \/ PowerCut

Spec == Init /\ [][Next]_vars

----------------------------------------------------------------------------
(* Properties.                                                             *)

\* The new kernel fits next to whatever SYSTEM may be on d.
KernelFits(d) == NewSize["KERNEL"] + OldSize["SYSTEM"] <= disk[d].room

HasImages(d) == \A f \in Files : disk[d].img[f].img = "new" /\ <<d, f>> \notin dirty
Installed(d) ==
  /\ HasImages(d) /\ Bootable \subseteq disk[d].on
  /\ \A c \in Content : <<d, c>> \notin dirty

\* Only the disk is written that was chosen from the list and confirmed twice,
\* never the medium - but a disk that could not be unmounted may get the files
\* that are meant for the next one.
OnlyConfirmed ==
  [][\A d \in Devices : disk'[d] # disk[d] =>
       \/ pc = "work" /\ d = job.dev /\ d # Medium
       \/ troubled /\ \E p \in Points : d \in ToSet(mnt[p])]_vars

\* Whatever was tried, broken off, refused or left mounted before: a job none
\* of whose commands fails does what it is for, and lastingly.  Without the
\* preconditions the message is the same: Install Complete (l.369, l.494).
SoundJobInstalls ==
  pc = "complete" /\ ~failed =>
    IF job.kind = "repair" THEN KernelFits(job.dev) => HasImages(job.dev)
    ELSE job.dev \notin Small =>
           Installed(job.dev) /\ (job.backup => "backup" \in disk[job.dev].on)

\* If all commands had their effect, the installer comes back to its menu with
\* nothing mounted, so that it lists all disks, and with no file in memory.
MenuIsClean ==
  pc = "menu" /\ ~troubled =>
    \A p \in Points : mnt[p] = <<>> /\ tmp[p] = "absent"
=============================================================================
