--------------------------- MODULE InstallerProofs ---------------------------
(***************************************************************************)
(* Theorems about the installer, for every set of disks, all sizes, and any *)
(* number of failures, power cuts and jobs.                                *)
(***************************************************************************)
EXTENDS Installer, SequenceTheorems, TLAPS

----------------------------------------------------------------------------
(* Where a job is.                                                         *)

\* While it works, the plan is what is left of the job's plan from command K on.
Length == CASE job.kind = "repair"               -> 6
            [] job.kind = "quick" /\ ~job.backup -> 18
            [] job.kind = "quick" /\ job.backup  -> 22
K == Length + 1 - Len(plan)

\* The place of a command in the plan of an installation.
Place(c) ==
  CASE c = "wipe" -> 1      [] c = "label" -> 2      [] c = "mbr" -> 3
    [] c = "mkpart1" -> 4   [] c = "mkpart2" -> 5    [] c = "flag" -> 6
    [] c = "fs1" -> 7       [] c = "name1" -> 8      [] c = "fs2" -> 9
    [] c = "name2" -> 10    [] c = "mount1" -> 11    [] c = "extlinux" -> 12
    [] c = "KERNEL" -> 13   [] c = "SYSTEM" -> 14    [] c = "conf" -> 16
    [] c = "umount1" -> 18  [] c = "mount2" -> 19    [] c = "backup" -> 20
    [] c = "umount2" -> 22
    [] c = "space" -> 0    [] c = "sync" -> 0

\* And of a repair.
RepairPlace(c) ==
  CASE c = "mount1" -> 1  [] c = "space" -> 2    [] c = "KERNEL" -> 3
    [] c = "SYSTEM" -> 4  [] c = "sync" -> 5     [] c = "umount1" -> 6
    [] c \notin {"mount1", "space", "KERNEL", "SYSTEM", "sync", "umount1"} -> 0

PlanInv ==
  /\ pc \in {"off", "menu", "confirm", "lastChance", "complete"} => plan = <<>>
  /\ pc = "refused" => plan = <<"umount1">> /\ job.kind = "repair"
  /\ pc = "work" => /\ Len(plan) \in 1..Length
                    /\ \A n \in 1..Len(plan) : plan[n] = Plan(job)[K + n - 1]

----------------------------------------------------------------------------
(* The invariants.                                                         *)

\* The disk that was chosen is not the medium, and a repair has found its label.
JobInv ==
  /\ pc \in {"confirm", "lastChance", "work", "refused", "complete"} => job.dev # Medium
  /\ job.kind = "repair" => ~job.backup
  /\ /\ pc \in {"confirm", "lastChance"} \/ (pc = "work" /\ K = 1)
     /\ job.kind = "repair"
     => "name1" \in disk[job.dev].on

\* A label is on a file system, there is no room without partitions, and a file
\* is no larger than the one it was made of.
DiskInv ==
  \A d \in Devices :
    /\ "name1" \in disk[d].on => "fs1" \in disk[d].on
    /\ "mkpart1" \notin disk[d].on => disk[d].room = 0
    /\ \A f \in Files : \/ disk[d].img[f].size <= OldSize[f]
                        \/ disk[d].img[f].size <= NewSize[f]

\* What is not on its disk yet belongs to a disk that is mounted.
DirtyInv == \A x \in dirty : \E p \in Points : x[1] \in ToSet(mnt[p])

\* Where the job has its disk mounted if every command had its effect.
Opened(p) ==
  \/ pc = "refused" /\ p = "part1"
  \/ pc = "work" /\ job.kind = "repair" /\ p = "part1" /\ K \in 2..6
  \/ pc = "work" /\ job.kind = "quick" /\ p = "part1" /\ K \in 12..18
  \/ pc = "work" /\ job.kind = "quick" /\ p = "part2" /\ K \in 20..22
CleanInv ==
  pc = "off" \/ ~troubled =>
    /\ \A p \in Points : /\ mnt[p] = IF Opened(p) THEN <<job.dev>> ELSE <<>>
                         /\ tmp[p] = IF Opened(p) THEN "empty" ELSE "absent"
    /\ pc = "refused" \/ (pc = "work" /\ job.kind = "repair" /\ K = 2) => dirty = {}

Has(f) == disk[job.dev].img[f].img = "new"
MountedAt(p) == mnt[p] # <<>> /\ Last(mnt[p]) = job.dev

\* An installation before its command k.
QuickAt(k) ==
  /\ k > 1 => disk[job.dev].on = {c \in Effects : Place(c) < k}
  /\ k \in 2..13 => disk[job.dev].img = NoFiles
  /\ k > 4 => disk[job.dev].room = Room
  /\ k > 13 => disk[job.dev].img["KERNEL"] = [img |-> "new", size |-> NewSize["KERNEL"]]
  /\ k = 14 => disk[job.dev].img["SYSTEM"] = None
  /\ k > 14 => Has("SYSTEM")
  /\ k \in 12..18 => MountedAt("part1")
  /\ k \in 20..22 => MountedAt("part2")
  /\ k > 17 /\ k # 21 => dirty = {}
QuickInv == pc = "work" /\ job.kind = "quick" /\ ~failed /\ job.dev \notin Small => QuickAt(K)

\* A repair before its command k.
RepairAt(k) ==
  /\ k \in 2..6 => MountedAt("part1")
  /\ k > 2 => Enough(job.dev)
  /\ k > 3 /\ KernelFits(job.dev) =>
       disk[job.dev].img["KERNEL"] = [img |-> "new", size |-> NewSize["KERNEL"]]
  /\ k > 4 /\ KernelFits(job.dev) => Has("SYSTEM")
  /\ k > 5 => dirty = {}
RepairInv == pc = "work" /\ job.kind = "repair" /\ ~failed => RepairAt(K)

TypeInv == TypeOK /\ PlanInv /\ JobInv /\ DiskInv

----------------------------------------------------------------------------
(* The plan.                                                               *)

\* A command is done, or has failed.
Onward ==
  /\ plan' = Tail(plan)
  /\ pc' = CASE Tail(plan) # <<>>                    -> pc
             [] Tail(plan) = <<>> /\ pc = "work"     -> "complete"
             [] Tail(plan) = <<>> /\ pc = "refused"  -> "menu"
  /\ job' = job

LEMMA QuickType ==
  /\ QuickPlan \in Seq(Commands) /\ Len(QuickPlan) = 18
  /\ BackupPlan \in Seq(Commands) /\ Len(BackupPlan) = 4
  /\ RepairPlan \in Seq(Commands) /\ Len(RepairPlan) = 6
BY DEF QuickPlan, BackupPlan, RepairPlan, Commands, Effects, Layout, Content, Files

LEMMA PlanIs ==
  ASSUME job \in Jobs
  PROVE  /\ job.kind = "repair" => Plan(job) = RepairPlan
         /\ job.kind = "quick" /\ ~job.backup => Plan(job) = QuickPlan \o <<>>
         /\ job.kind = "quick" /\ job.backup => Plan(job) = QuickPlan \o BackupPlan
BY Zenon DEF Plan

LEMMA LengthIs ==
  ASSUME job \in Jobs, job.kind = "repair" => ~job.backup
  PROVE  /\ Length \in {6, 18, 22}
         /\ job.kind = "repair" => Length = 6
         /\ job.kind = "quick" => Length = IF job.backup THEN 22 ELSE 18
BY DEF Length, Jobs

\* The plan of a job, command by command.
LEMMA PlanType ==
  ASSUME job \in Jobs, job.kind = "repair" => ~job.backup
  PROVE  /\ Plan(job) \in Seq(Commands) /\ Len(Plan(job)) = Length
<1>1. CASE job.kind = "repair"
  BY <1>1, QuickType, PlanIs, LengthIs
<1>2. CASE job.kind = "quick" /\ ~job.backup
  BY <1>2, QuickType, PlanIs, LengthIs, EmptySeq, ConcatProperties
<1>3. CASE job.kind = "quick" /\ job.backup
  <2>1. Plan(job) = QuickPlan \o BackupPlan
    BY <1>3, PlanIs, Zenon
  <2>2. Length = 22
    BY <1>3, LengthIs
  <2>3. QuickPlan \o BackupPlan \in Seq(Commands)
    BY QuickType, ConcatProperties, Zenon
  <2>4. Len(QuickPlan \o BackupPlan) = Len(QuickPlan) + Len(BackupPlan)
    BY QuickType, ConcatProperties, Zenon
  <2> QED
    BY <2>1, <2>2, <2>3, <2>4, QuickType
<1> QED
  BY <1>1, <1>2, <1>3 DEF Jobs

LEMMA QuickPlaces ==
  ASSUME job \in Jobs, job.kind = "quick", NEW k \in 1..Length
  PROVE  /\ Plan(job)[k] \notin {"sync", "space"} => k = Place(Plan(job)[k])
         /\ Plan(job)[k] = "sync" => k \in {15, 17, 21}
         /\ Plan(job)[k] # "space"
<1>0. \A s, t \in Seq(Commands) : \A n \in 1..Len(s) + Len(t) :
        (s \o t)[n] = IF n <= Len(s) THEN s[n] ELSE t[n - Len(s)]
  BY ConcatProperties
<1>e. <<>> \in Seq(Commands) /\ Len(<<>>) = 0
  BY EmptySeq
<1>1. CASE k \in 1..18
  <2>1. Plan(job)[k] = QuickPlan[k]
    <3>1. CASE job.backup
      <4>1. k \in 1..Len(QuickPlan) + Len(BackupPlan) /\ k <= Len(QuickPlan)
        BY <1>1, QuickType
      <4>2. (QuickPlan \o BackupPlan)[k] = QuickPlan[k]
        BY <1>0, <4>1, QuickType
      <4>3. Plan(job) = QuickPlan \o BackupPlan
        BY <3>1, PlanIs
      <4> QED
        BY <4>2, <4>3
    <3>2. CASE ~job.backup
      <4>1. k \in 1..Len(QuickPlan) + Len(<<>>) /\ k <= Len(QuickPlan)
        BY <1>1, <1>e, QuickType
      <4> QED
        BY <1>0, <1>e, <3>2, <4>1, QuickType, PlanIs
    <3> QED
      BY <3>1, <3>2
  <2> QED
    BY <1>1, <2>1 DEF QuickPlan, Place
<1>2. CASE k \in 19..22
  <2>0. job.backup
    BY <1>2, LengthIs
  <2>1. Plan(job)[k] = BackupPlan[k - 18]
    <3>1. k \in 1..Len(QuickPlan) + Len(BackupPlan) /\ ~(k <= Len(QuickPlan))
          /\ k - Len(QuickPlan) = k - 18
      BY <1>2, QuickType
    <3>2. Plan(job) = QuickPlan \o BackupPlan
      BY <2>0, PlanIs, Zenon
    <3> QED
      BY <1>0, <3>1, <3>2, QuickType
  <2> QED
    BY <1>2, <2>1 DEF BackupPlan, Place
<1> QED
  BY <1>1, <1>2, LengthIs

LEMMA RepairPlaces ==
  ASSUME job \in Jobs, job.kind = "repair", NEW k \in 1..Length
  PROVE  /\ Plan(job)[k] \in {"mount1", "space", "KERNEL", "SYSTEM", "sync", "umount1"}
         /\ k = RepairPlace(Plan(job)[k])
BY DEF Plan, Length, RepairPlan, RepairPlace

LEMMA TailPlan ==
  ASSUME TypeOK, PlanInv, JobInv, Onward, plan # <<>>
  PROVE  /\ PlanInv' /\ plan' \in Seq(Commands)
         /\ pc = "work" =>
              /\ K \in 1..Length /\ Head(plan) = Plan(job)[K]
              /\ pc' = IF K < Length THEN "work" ELSE "complete"
              /\ K' = K + 1
         /\ pc = "refused" => pc' = "menu"
<1>1. plan \in Seq(Commands) /\ job \in Jobs /\ Plan(job)' = Plan(job) /\ Length' = Length
  BY DEF TypeOK, Onward, Plan, Length
<1>2. Length \in {6, 18, 22}
  BY <1>1, LengthIs DEF JobInv
<1>3. /\ plan' = Tail(plan) /\ plan' \in Seq(Commands) /\ Len(plan') = Len(plan) - 1
      /\ \A n \in 1..Len(plan') : plan'[n] = plan[n + 1]
      /\ Head(plan) = plan[1] /\ Len(plan) \in Nat \ {0}
      /\ (plan' = <<>> <=> Len(plan) = 1)
  <2>1. /\ Tail(plan) \in Seq(Commands) /\ Len(Tail(plan)) = Len(plan) - 1
        /\ \A n \in 1..Len(Tail(plan)) : Tail(plan)[n] = plan[n + 1]
    BY <1>1, HeadTailProperties
  <2>2. Head(plan) = plan[1] /\ Len(plan) \in Nat \ {0}
    BY <1>1, EmptySeq
  <2>3. Tail(plan) = <<>> <=> Len(plan) = 1
    BY <2>1, <2>2, EmptySeq
  <2> QED
    BY <2>1, <2>2, <2>3 DEF Onward
<1>4. CASE pc = "work"
  <2>1. K' = K + 1 /\ K \in 1..Length /\ K = Length + 1 - Len(plan)
    BY <1>1, <1>2, <1>3, <1>4 DEF K, PlanInv
  <2>2. Head(plan) = Plan(job)[K]
    BY <1>3, <1>4, <2>1 DEF PlanInv
  <2>3. pc' = IF K < Length THEN "work" ELSE "complete"
    <3>1. K < Length <=> Len(plan) # 1
      BY <1>2, <1>3, <2>1
    <3> QED
      BY <1>3, <1>4, <3>1 DEF Onward
  <2>4. \A n \in 1..Len(plan') : plan'[n] = Plan(job)[K' + n - 1]
    <3> SUFFICES ASSUME NEW n \in 1..Len(plan') PROVE plan'[n] = Plan(job)[K' + n - 1]
      OBVIOUS
    <3>1. n + 1 \in 1..Len(plan) /\ K' + n - 1 = K + (n + 1) - 1
      BY <1>2, <1>3, <2>1
    <3> QED
      BY <1>3, <1>4, <3>1 DEF PlanInv
  <2>5. PlanInv'
    BY <1>1, <1>2, <1>3, <2>1, <2>3, <2>4 DEF PlanInv
  <2> QED
    BY <1>3, <1>4, <2>1, <2>2, <2>3, <2>5
<1>5. CASE pc = "refused"
  BY <1>3, <1>5 DEF PlanInv, Onward
<1> QED
  BY <1>4, <1>5 DEF PlanInv, TypeOK, PCs

----------------------------------------------------------------------------
(* Type correctness.                                                       *)

LEMMA Sizes ==
  /\ NewSize \in [Files -> Nat] /\ OldSize \in [Files -> Nat]
  /\ Room \in Nat /\ OldRooms \subseteq Nat
  /\ NewSize["KERNEL"] + NewSize["SYSTEM"] <= Room
  /\ \A r \in OldRooms : OldSize["KERNEL"] + OldSize["SYSTEM"] <= r
BY Assumptions

LEMMA Rooms == \A r \in {0, Room} \cup OldRooms : r \in Nat
<1>1. Room \in Nat /\ OldRooms \subseteq Nat
  BY Sizes, Zenon
<1> QED
  BY <1>1

\* What is written into the files of a disk takes no more than there is room.
LEMMA OtherFile ==
  /\ (CHOOSE g \in Files : g # "KERNEL") = "SYSTEM"
  /\ (CHOOSE g \in Files : g # "SYSTEM") = "KERNEL"
BY DEF Files

Fit(d) ==
  /\ d.img["KERNEL"].size + d.img["SYSTEM"].size <= d.room
  /\ "name1" \in d.on => "fs1" \in d.on
  /\ "mkpart1" \notin d.on => d.room = 0
  /\ \A f \in Files : d.img[f].size <= OldSize[f] \/ d.img[f].size <= NewSize[f]

LEMMA FitIs == TypeInv <=> TypeOK /\ PlanInv /\ JobInv /\ \A d \in Devices : Fit(disk[d])
BY DEF TypeInv, DiskInv, Fit, TypeOK, SizeOn

\* A copy, or one that is broken off.
LEMMA CopiedFits ==
  ASSUME NEW d \in Devices, disk[d] \in Disks, Fit(disk[d]), NEW c \in Files,
         NEW i \in {Copied(d, c), [img |-> "torn", size |-> 0]}
  PROVE  /\ i \in Images
         /\ [disk[d] EXCEPT !.img[c] = i] \in Disks
         /\ Fit([disk[d] EXCEPT !.img[c] = i])
<1>1. /\ NewSize \in [Files -> Nat] /\ OldSize \in [Files -> Nat]
      /\ disk[d].img \in [Files -> Images] /\ disk[d].room \in Nat
      /\ disk[d].on \in SUBSET Effects
  <2>1. /\ disk[d].img \in [Files -> Images] /\ disk[d].room \in {0, Room} \cup OldRooms
        /\ disk[d].on \in SUBSET Effects
    BY DEF Disks
  <2> QED
    BY <2>1, Sizes, Rooms, Zenon
<1>2. i \in Images /\ (i.size <= NewSize[c])
      /\ i.size + disk[d].img[CHOOSE g \in Files : g # c].size <= disk[d].room
  <2>1. CASE c = "KERNEL"
    BY <1>1, <2>1, OtherFile DEF Copied, Images, Files, Fit
  <2>2. CASE c = "SYSTEM"
    BY <1>1, <2>2, OtherFile DEF Copied, Images, Files, Fit
  <2> QED
    BY <2>1, <2>2 DEF Files
<1>3. [disk[d] EXCEPT !.img[c] = i] \in Disks
  BY <1>1, <1>2 DEF Disks
<1>4. Fit([disk[d] EXCEPT !.img[c] = i])
  <2>1. CASE c = "KERNEL"
    BY <1>1, <1>2, <2>1, OtherFile DEF Fit, Images, Files, Disks
  <2>2. CASE c = "SYSTEM"
    BY <1>1, <1>2, <2>2, OtherFile DEF Fit, Images, Files, Disks
  <2> QED
    BY <2>1, <2>2 DEF Files
<1> QED
  BY <1>2, <1>3, <1>4

\* What a command does to the partitions and file systems.
LaidOut(c) ==
  [disk[job.dev] EXCEPT
     !.on   = (@ \ Loses(c)) \cup Made(c),
     !.img  = IF c \in {"wipe", "label", "fs1"} THEN NoFiles ELSE @,
     !.room = RoomAfter(c, @)]

LEMMA MadeIs ==
  ASSUME NEW c \in Layout \cup {"wipe"}, c = "mkpart1" => "mkpart1" \notin disk[job.dev].on
  PROVE  /\ Made(c) \subseteq Effects
         /\ c \notin {"wipe", "mkpart2"} => Made(c) = {c}
         /\ c = "mkpart2" /\ "mkpart1" \in disk[job.dev].on => Made(c) = {c}
         /\ c = "wipe" => Made(c) = {}
         /\ "name1" \in Made(c) => c = "name1"
         /\ "mkpart1" \in Made(c) => /\ "mkpart1" \notin disk[job.dev].on
                                     /\ c \in {"mkpart1", "mkpart2"}
BY DEF Made, Layout, Effects

LEMMA LaidOutFits ==
  ASSUME job.dev \in Devices, disk[job.dev] \in Disks, Fit(disk[job.dev]),
         NEW c \in Layout \cup {"wipe"}, Needs(c) \subseteq disk[job.dev].on,
         c = "mkpart1" => "mkpart1" \notin disk[job.dev].on
  PROVE  LaidOut(c) \in Disks /\ Fit(LaidOut(c))
<1> DEFINE old == disk[job.dev]
           new == LaidOut(c)
<1>1. /\ old.img \in [Files -> Images] /\ old.room \in {0, Room} \cup OldRooms
      /\ old.on \in SUBSET Effects
  BY DEF Disks
<1>2. /\ NoFiles \in [Files -> Images]
      /\ NoFiles["KERNEL"].size = 0 /\ NoFiles["SYSTEM"].size = 0
  BY DEF NoFiles, None, Images, Files
<1>3. /\ new.on = (old.on \ Loses(c)) \cup Made(c)
      /\ new.img = IF c \in {"wipe", "label", "fs1"} THEN NoFiles ELSE old.img
      /\ new.room = RoomAfter(c, old.room)
  BY DEF LaidOut, Disks
<1>r. /\ c \in {"wipe", "label"} => RoomAfter(c, old.room) = 0
      /\ c \notin {"wipe", "label"} =>
           RoomAfter(c, old.room) = IF "mkpart1" \in Made(c) THEN Room ELSE old.room
  BY MadeIs DEF RoomAfter
<1>4. RoomAfter(c, old.room) \in {0, Room} \cup OldRooms
  BY <1>1, <1>r
<1>5. new \in Disks
  <2>1. (old.on \ Loses(c)) \cup Made(c) \in SUBSET Effects
    BY <1>1, MadeIs
  <2>2. (IF c \in {"wipe", "label", "fs1"} THEN NoFiles ELSE old.img) \in [Files -> Images]
    BY <1>1, <1>2
  <2> QED
    BY <1>4, <2>1, <2>2 DEF LaidOut, Disks
<1>6. Fit(new)
  <2>1. "name1" \in new.on => "fs1" \in new.on
    <3>1. CASE c = "name1"
      BY <1>3, <3>1, MadeIs DEF Loses, Needs, Layout, Effects, Content
    <3>2. CASE c # "name1"
      <4>1. "name1" \notin Made(c)
        BY <3>2, MadeIs
      <4>2. "fs1" \in Loses(c) => "name1" \in Loses(c)
        BY DEF Loses, Layout, Effects, Content
      <4> QED
        BY <1>3, <4>1, <4>2 DEF Fit
    <3> QED
      BY <3>1, <3>2
  <2>2. "mkpart1" \notin new.on => new.room = 0
    <3>1. c \notin {"wipe", "label"} => "mkpart1" \notin Loses(c)
      BY DEF Loses, Layout
    <3> QED
      BY <1>3, <1>r, <3>1 DEF Fit
  <2>3. CASE c \in {"wipe", "label", "fs1"}
    <3>1. new.room \in Nat
      BY <1>3, <1>4, Rooms, Zenon
    <3> HIDE DEF new
    <3> QED
      BY <1>2, <1>3, <2>1, <2>2, <2>3, <3>1, Sizes DEF Fit, Files
  <2>4. CASE c \notin {"wipe", "label", "fs1"}
    <3>1. new.img = old.img
      BY <1>3, <2>4
    <3>2. old.img["KERNEL"].size \in Nat /\ old.img["SYSTEM"].size \in Nat
      BY <1>1 DEF Files, Images
    <3>3. old.room <= new.room
      <4>1. old.room \in Nat /\ Room \in Nat
        BY <1>1, Rooms, Sizes, Zenon
      <4>2. "mkpart1" \in Made(c) => old.room = 0
        BY MadeIs DEF Fit
      <4> QED
        BY <1>3, <1>r, <2>4, <4>1, <4>2
    <3>4. old.img["KERNEL"].size + old.img["SYSTEM"].size <= new.room
      <4>1. old.room \in Nat /\ new.room \in Nat
        BY <1>1, <1>3, <1>4, Rooms, Zenon
      <4> HIDE DEF new
      <4> QED
        BY <3>2, <3>3, <4>1 DEF Fit
    <3> HIDE DEF new
    <3> QED
      BY <2>1, <2>2, <3>1, <3>4 DEF Fit
  <2> QED
    BY <2>3, <2>4
<1> QED
  BY <1>5, <1>6

----------------------------------------------------------------------------
(* The steps.                                                              *)

LEMMA CommandSteps ==
  ASSUME Command
  PROVE  pc \in {"work", "refused"} /\ plan # <<>> /\ (Onward \/ NoSpace)
BY DEF Command, LayOut, Mount, Write, Umount, Sync, HasSpace, NoSpace, Vain, Fail, At,
       Advance, Onward

LEMMA TopType ==
  ASSUME TypeOK, NEW p \in Points, AnyAt(p)
  PROVE  Top(p) \in Devices /\ Len(mnt[p]) \in Nat \ {0} /\ Top(p) = mnt[p][Len(mnt[p])]
<1>1. mnt[p] \in Seq(Devices) /\ mnt[p] # <<>>
  BY DEF TypeOK, AnyAt
<1>2. Len(mnt[p]) \in Nat \ {0}
  BY <1>1, EmptySeq
<1>3. mnt[p][Len(mnt[p])] \in Devices
  BY <1>1, <1>2
<1> QED
  BY <1>2, <1>3 DEF Top, Last

LEMMA PointType == \A c : Point(c) \in Points
BY DEF Point, Points

\* What a step does to a disk.
LEMMA DiskNext ==
  TypeInv /\ [Next]_vars => disk' \in [Devices -> Disks] /\ \A d \in Devices : Fit(disk'[d])
<1> SUFFICES ASSUME TypeInv, [Next]_vars
             PROVE  disk' \in [Devices -> Disks] /\ \A d \in Devices : Fit(disk'[d])
  OBVIOUS
<1>t. /\ disk \in [Devices -> Disks] /\ \A d \in Devices : Fit(disk[d])
      /\ job.dev \in Devices /\ TypeOK
  BY FitIs DEF TypeInv, TypeOK, Jobs
<1>a. \A d \in Devices : /\ disk[d].on \in SUBSET Effects /\ disk[d].img \in [Files -> Images]
                         /\ disk[d].room \in {0, Room} \cup OldRooms
  BY <1>t DEF Disks
<1>1. CASE UNCHANGED disk
  BY <1>1, <1>t
<1>2. ASSUME NEW c \in Commands, LayOut(c) PROVE disk' \in [Devices -> Disks]
                                             /\ \A d \in Devices : Fit(disk'[d])
  <2>1. disk' = [disk EXCEPT ![job.dev] = LaidOut(c)]
    BY <1>2, <1>t, <1>a DEF LayOut, LaidOut, Disks
  <2>2. LaidOut(c) \in Disks /\ Fit(LaidOut(c))
    BY <1>2, <1>t, LaidOutFits DEF LayOut, Possible
  <2> QED
    BY <1>t, <2>1, <2>2
<1>3. ASSUME NEW c \in Commands, Write(c) PROVE disk' \in [Devices -> Disks]
                                            /\ \A d \in Devices : Fit(disk'[d])
  <2> DEFINE t == Top(Point(c))
  <2>1. t \in Devices
    BY <1>3, <1>t, PointType, TopType DEF Write
  <2>2. CASE c \in Files
    <3>1. disk' = [disk EXCEPT ![t] = [disk[t] EXCEPT !.img[c] = Copied(t, c)]]
      BY <1>3, <2>2 DEF Write
    <3>2. /\ [disk[t] EXCEPT !.img[c] = Copied(t, c)] \in Disks
          /\ Fit([disk[t] EXCEPT !.img[c] = Copied(t, c)])
      BY <1>t, <2>1, <2>2, CopiedFits
    <3> QED
      BY <1>t, <2>1, <3>1, <3>2
  <2>3. CASE c \in Content
    <3> DEFINE new == [disk[t] EXCEPT !.on = @ \cup {c}]
    <3>1. disk' = [disk EXCEPT ![t] = new]
      BY <1>3, <2>3 DEF Write, Content, Files
    <3>2. new \in Disks
      BY <1>t, <1>a, <2>1, <2>3 DEF Disks, Effects
    <3>3. Fit(new)
      <4>1. new.img = disk[t].img /\ new.room = disk[t].room /\ new.on = disk[t].on \cup {c}
        BY <1>t, <2>1 DEF Disks
      <4>2. c \notin {"name1", "fs1", "mkpart1"}
        BY <2>3 DEF Content
      <4> QED
        BY <1>t, <2>1, <4>1, <4>2 DEF Fit
    <3> QED
      BY <1>t, <2>1, <3>1, <3>2, <3>3
  <2> QED
    BY <1>3, <2>2, <2>3 DEF Write
<1>4. CASE Fail
  <2>1. PICK c \in Commands :
          disk' = IF c \in Files /\ AnyAt("part1")
                  THEN [disk EXCEPT ![Top("part1")].img[c] = [img |-> "torn", size |-> 0]]
                  ELSE disk
    BY <1>4 DEF Fail
  <2>2. CASE c \in Files /\ AnyAt("part1")
    <3> DEFINE t == Top("part1")
    <3>1. t \in Devices
      BY <1>t, <2>2, TopType DEF Points
    <3>2. disk' = [disk EXCEPT ![t] = [disk[t] EXCEPT !.img[c] = [img |-> "torn", size |-> 0]]]
      BY <2>1, <2>2
    <3>3. /\ [disk[t] EXCEPT !.img[c] = [img |-> "torn", size |-> 0]] \in Disks
          /\ Fit([disk[t] EXCEPT !.img[c] = [img |-> "torn", size |-> 0]])
      BY <1>t, <2>2, <3>1, CopiedFits
    <3> QED
      BY <1>t, <3>1, <3>2, <3>3
  <2> QED
    BY <1>t, <2>1, <2>2
<1>5. CASE PowerCut
  <2>1. PICK lost \in SUBSET dirty :
          disk' = [d \in Devices |->
            [disk[d] EXCEPT !.on  = {c \in @ : <<d, c>> \notin lost},
                            !.img = [f \in Files |->
                              IF <<d, f>> \in lost THEN [@[f] EXCEPT !.img = "torn"]
                                                   ELSE @[f]]]]
    BY <1>5 DEF PowerCut
  <2>2. ASSUME NEW d \in Devices PROVE disk'[d] \in Disks /\ Fit(disk'[d])
    <3>1. /\ disk'[d].on = {c \in disk[d].on : <<d, c>> \notin lost}
          /\ disk'[d].room = disk[d].room
          /\ disk'[d].img = [f \in Files |-> IF <<d, f>> \in lost
                                THEN [disk[d].img[f] EXCEPT !.img = "torn"] ELSE disk[d].img[f]]
      BY <1>t, <2>1 DEF Disks
    <3>2. \A f \in Files : /\ disk'[d].img[f] \in Images
                           /\ disk'[d].img[f].size = disk[d].img[f].size
      BY <1>a, <3>1 DEF Images
    <3>3. disk'[d] \in Disks
      <4>1. {c \in disk[d].on : <<d, c>> \notin lost} \in SUBSET Effects
        BY <1>a
      <4>2. [f \in Files |-> IF <<d, f>> \in lost
                             THEN [disk[d].img[f] EXCEPT !.img = "torn"] ELSE disk[d].img[f]]
              \in [Files -> Images]
        BY <1>a DEF Images
      <4> QED
        BY <1>t, <2>1, <4>1, <4>2 DEF Disks
    <3>4. \A c \in {"name1", "fs1", "mkpart1"} : c \in disk'[d].on <=> c \in disk[d].on
      <4>1. \A c \in {"name1", "fs1", "mkpart1"} : <<d, c>> \notin lost
        BY <1>t DEF TypeOK, Content, Files
      <4> QED
        BY <3>1, <4>1
    <3> QED
      BY <1>t, <3>1, <3>2, <3>3, <3>4 DEF Fit, Files
  <2>3. disk' \in [Devices -> Disks]
    BY <2>1, <2>2
  <2> QED
    BY <2>2, <2>3
<1> QED
  BY <1>1, <1>2, <1>3, <1>4, <1>5
  DEF vars, mounts, Next, Command, User, Mount, Umount, Sync, HasSpace, NoSpace, Vain,
      PowerOn, Choose, SayYes, SayNo, Acknowledge, Leave

LEMMA PlanNext == TypeInv /\ [Next]_vars => PlanInv' /\ plan' \in Seq(Commands)
<1> SUFFICES ASSUME TypeInv, [Next]_vars PROVE PlanInv' /\ plan' \in Seq(Commands)
  OBVIOUS
<1>t. TypeOK /\ PlanInv /\ JobInv /\ job \in Jobs /\ plan \in Seq(Commands) /\ pc \in PCs
  BY DEF TypeInv, TypeOK
<1>e. <<>> \in Seq(Commands)
  BY EmptySeq
<1>1. CASE UNCHANGED vars
  <2>1. UNCHANGED <<pc, plan, Length, K, Plan(job), job>>
    BY <1>1 DEF vars, Length, K, Plan
  <2> QED
    BY <1>t, <2>1 DEF PlanInv
<1>2. CASE Command
  <2>1. CASE Onward
    BY <1>2, <1>t, <2>1, CommandSteps, TailPlan
  <2>2. CASE NoSpace
    <3>1. /\ pc' = "refused" /\ plan' = <<"umount1">> /\ job' = job
          /\ Head(plan) = "space" /\ plan # <<>> /\ pc \in {"work", "refused"}
      BY <2>2 DEF NoSpace, At
    <3>2. pc = "work"
      BY <1>t, <3>1 DEF PlanInv
    <3>3. job.kind = "repair"
      <4>1. SUFFICES ASSUME job.kind = "quick" PROVE FALSE
        BY <1>t DEF Jobs
      <4>2. Length \in {6, 18, 22} /\ Len(plan) \in 1..Length
        BY <1>t, <3>2, LengthIs DEF JobInv, PlanInv
      <4>3. K \in 1..Length /\ K + 1 - 1 = K
        BY <4>2 DEF K
      <4>4. plan[1] = Plan(job)[K]
        BY <1>t, <3>2, <4>2, <4>3 DEF PlanInv
      <4> QED
        BY <1>t, <3>1, <4>1, <4>3, <4>4, QuickPlaces
    <3> QED
      BY <3>1, <3>3 DEF PlanInv, Commands
  <2> QED
    BY <1>2, <2>1, <2>2, CommandSteps
<1>3. CASE pc = "lastChance" /\ SayYes
  <2>1. pc' = "work" /\ plan' = Plan(job) /\ job' = job /\ Length' = Length
    BY <1>3 DEF SayYes, Goto, Length
  <2>2. /\ Plan(job) \in Seq(Commands) /\ Len(Plan(job)) = Length
        /\ Length \in {6, 18, 22}
    BY <1>t, PlanType, LengthIs DEF JobInv
  <2>3. Len(plan') \in 1..Length' /\ K' = 1
    BY <2>1, <2>2 DEF K
  <2>4. \A n \in 1..Len(plan') : plan'[n] = Plan(job')[K' + n - 1]
    BY <2>1, <2>2, <2>3
  <2>5. Plan(job') = Plan(job)'
    BY <2>1 DEF Plan
  <2> QED
    BY <2>1, <2>2, <2>3, <2>4 DEF PlanInv
<1>4. CASE PowerOn \/ Choose \/ (pc = "confirm" /\ SayYes) \/ SayNo \/ Acknowledge
  <2>1. pc \in {"off", "menu", "confirm", "lastChance", "complete"} /\ plan' = plan
        /\ pc' \in {"off", "menu", "confirm", "lastChance", "complete"}
    BY <1>4 DEF PowerOn, Choose, SayYes, SayNo, Acknowledge, Goto
  <2> QED
    BY <1>t, <2>1 DEF PlanInv
<1>5. CASE Leave \/ PowerCut
  BY <1>5, <1>e DEF Leave, PowerCut, Down, PlanInv
<1> QED
  BY <1>1, <1>2, <1>3, <1>4, <1>5 DEF Next, User, SayYes, Goto

LEMMA JobNext == TypeInv /\ [Next]_vars => JobInv' /\ job' \in Jobs
<1> SUFFICES ASSUME TypeInv, [Next]_vars PROVE JobInv' /\ job' \in Jobs
  OBVIOUS
<1>t. TypeOK /\ PlanInv /\ JobInv /\ job \in Jobs /\ pc \in PCs
  BY DEF TypeInv, TypeOK
<1>1. CASE UNCHANGED vars
  <2>1. UNCHANGED <<pc, K, job, disk>>
    BY <1>1 DEF vars, Length, K
  <2> QED
    BY <1>t, <2>1 DEF JobInv
<1>2. CASE Command
  <2>1. CASE Onward
    <3>1. pc' = "work" => K' # 1
      <4>1. ASSUME pc' = "work" PROVE K' # 1
        <5>1. pc = "work"
          BY <1>2, <2>1, <4>1, CommandSteps DEF Onward
        <5>2. K \in 1..Length /\ K' = K + 1 /\ Length \in {6, 18, 22}
          BY <1>2, <1>t, <2>1, <5>1, CommandSteps, TailPlan, LengthIs DEF JobInv
        <5> QED
          BY <5>2
      <4> QED
        BY <4>1
    <3>2. pc' \in {"work", "refused", "complete", "menu"} /\ job' = job
      BY <1>2, <2>1, CommandSteps DEF Onward
    <3> QED
      BY <1>2, <1>t, <3>1, <3>2, CommandSteps DEF JobInv
  <2>2. CASE NoSpace
    BY <1>2, <1>t, <2>2, CommandSteps DEF NoSpace, JobInv
  <2> QED
    BY <1>2, <2>1, <2>2, CommandSteps
<1>3. CASE SayYes
  BY <1>3, <1>t DEF SayYes, Goto, JobInv
<1>4. CASE PowerOn \/ SayNo \/ Acknowledge
  BY <1>4, <1>t DEF PowerOn, SayNo, Acknowledge, Goto, JobInv
<1>5. CASE Choose
  BY <1>5 DEF Choose, Goto, JobInv, Offered, Unmounted, Mounted
<1>6. CASE Leave \/ PowerCut
  BY <1>6, <1>t DEF Leave, PowerCut, Down, JobInv
<1> QED
  BY <1>1, <1>2, <1>3, <1>4, <1>5, <1>6 DEF Next, User

\* What is mounted, and what is not on its disk yet, after a step.
LEMMA FrontType ==
  ASSUME TypeOK, NEW p \in Points, AnyAt(p)
  PROVE  /\ Front(mnt[p]) \in Seq(Devices)
         /\ Len(Front(mnt[p])) = Len(mnt[p]) - 1
         /\ \A n \in 1..Len(mnt[p]) - 1 : Front(mnt[p])[n] = mnt[p][n]
<1>1. mnt[p] \in Seq(Devices) /\ Len(mnt[p]) \in Nat \ {0}
  BY TopType DEF TypeOK
<1>2. \A n \in 1..Len(mnt[p]) - 1 : mnt[p][n] \in Devices
  BY <1>1
<1>3. /\ SubSeq(mnt[p], 1, Len(mnt[p]) - 1) \in Seq(Devices)
      /\ Len(SubSeq(mnt[p], 1, Len(mnt[p]) - 1)) =
           IF 1 <= Len(mnt[p]) - 1 THEN Len(mnt[p]) - 1 - 1 + 1 ELSE 0
      /\ \A n \in 1..Len(mnt[p]) - 1 - 1 + 1 :
           SubSeq(mnt[p], 1, Len(mnt[p]) - 1)[n] = mnt[p][1 + n - 1]
  BY <1>1, <1>2, SubSeqProperties
<1> QED
  BY <1>1, <1>3 DEF Front

LEMMA MountNext ==
  TypeInv /\ [Next]_vars =>
    /\ mnt' \in [Points -> Seq(Devices)] /\ tmp' \in [Points -> {"absent", "empty", "filled"}]
    /\ dirty' \subseteq Devices \X (Content \cup Files)
<1> SUFFICES ASSUME TypeInv, [Next]_vars
             PROVE  /\ mnt' \in [Points -> Seq(Devices)]
                    /\ tmp' \in [Points -> {"absent", "empty", "filled"}]
                    /\ dirty' \subseteq Devices \X (Content \cup Files)
  OBVIOUS
<1>t. /\ mnt \in [Points -> Seq(Devices)] /\ tmp \in [Points -> {"absent", "empty", "filled"}]
      /\ dirty \subseteq Devices \X (Content \cup Files) /\ job.dev \in Devices /\ TypeOK
  BY DEF TypeInv, TypeOK, Jobs
<1>1. CASE UNCHANGED <<mounts, dirty>>
  BY <1>1, <1>t DEF mounts
<1>2. ASSUME NEW c \in Commands, LayOut(c) \/ Mount(c) \/ Write(c) \/ Umount(c)
      PROVE  /\ mnt' \in [Points -> Seq(Devices)]
             /\ tmp' \in [Points -> {"absent", "empty", "filled"}]
             /\ dirty' \subseteq Devices \X (Content \cup Files)
  <2>1. CASE LayOut(c)
    BY <1>t, <2>1 DEF LayOut, mounts
  <2>2. CASE Mount(c)
    <3>1. Append(mnt[Point(c)], job.dev) \in Seq(Devices)
      BY <1>t, PointType, AppendProperties
    <3> QED
      BY <1>t, <2>2, <3>1, PointType DEF Mount, MakeDir
  <2>3. CASE Write(c)
    BY <1>t, <2>3, PointType, TopType DEF Write, mounts
  <2>4. CASE Umount(c)
    BY <1>t, <2>4, PointType, FrontType DEF Umount
  <2> QED
    BY <1>2, <2>1, <2>2, <2>3, <2>4
<1>3. CASE Sync \/ HasSpace \/ NoSpace
  BY <1>3, <1>t DEF Sync, HasSpace, NoSpace, mounts
<1>4. CASE Vain
  BY <1>4, <1>t, PointType DEF Vain, MakeDir, Fill
<1>5. CASE Fail
  BY <1>5, <1>t, PointType DEF Fail, MakeDir
<1>6. CASE Leave \/ PowerCut
  <2>1. <<>> \in Seq(Devices)
    BY EmptySeq
  <2>2. /\ mnt' = [p \in Points |-> <<>>] /\ tmp' = [p \in Points |-> "absent"]
        /\ dirty' = {}
    BY <1>6 DEF Leave, PowerCut, Down
  <2> QED
    BY <2>1, <2>2
<1> QED
  BY <1>1, <1>2, <1>3, <1>4, <1>5, <1>6
  DEF vars, Next, Command, User, PowerOn, Choose, SayYes, SayNo, Acknowledge

LEMMA PastNext ==
  TypeInv /\ [Next]_vars =>
    /\ pc' \in PCs /\ failed' \in BOOLEAN /\ troubled' \in BOOLEAN
    /\ fails' \in 0..MaxFails /\ cuts' \in 0..MaxCuts /\ jobs' \in 0..MaxJobs
<1> SUFFICES ASSUME TypeInv, [Next]_vars
             PROVE  /\ pc' \in PCs /\ failed' \in BOOLEAN /\ troubled' \in BOOLEAN
                    /\ fails' \in 0..MaxFails /\ cuts' \in 0..MaxCuts /\ jobs' \in 0..MaxJobs
  OBVIOUS
<1>t. /\ failed \in BOOLEAN /\ troubled \in BOOLEAN /\ pc \in PCs
      /\ fails \in 0..MaxFails /\ cuts \in 0..MaxCuts /\ jobs \in 0..MaxJobs
  BY DEF TypeInv, TypeOK
<1>n. MaxFails \in Nat /\ MaxCuts \in Nat /\ MaxJobs \in Nat
  BY Assumptions
<1>1. failed' \in BOOLEAN /\ troubled' \in BOOLEAN
  BY <1>t, Zenon
  DEF vars, history, Next, Command, User, LayOut, Mount, Write, Umount, Sync, HasSpace,
      NoSpace, Vain, Fail, PowerOn, Choose, SayYes, SayNo, Acknowledge, Leave, PowerCut,
      Advance
<1>2. /\ fails' = fails \/ (fails < MaxFails /\ fails' = fails + 1)
      /\ cuts' = cuts \/ (cuts < MaxCuts /\ cuts' = cuts + 1)
      /\ jobs' = jobs \/ (jobs < MaxJobs /\ jobs' = jobs + 1)
  BY Zenon
  DEF vars, history, Next, Command, User, LayOut, Mount, Write, Umount, Sync, HasSpace,
      NoSpace, Vain, Fail, PowerOn, Choose, SayYes, SayNo, Acknowledge, Leave, PowerCut,
      Advance
<1>3. pc' \in PCs
  <2>1. CASE Command
    BY <1>t, <2>1, CommandSteps DEF Onward, NoSpace, PCs
  <2>2. CASE User \/ PowerCut
    BY <2>2 DEF User, PowerOn, Choose, SayYes, SayNo, Acknowledge, Leave, PowerCut, Down,
                Goto, PCs
  <2> QED
    BY <1>t, <2>1, <2>2 DEF Next, vars
<1> QED
  BY <1>t, <1>n, <1>1, <1>2, <1>3

LEMMA TypeNext == TypeInv /\ [Next]_vars => TypeInv'
<1> SUFFICES ASSUME TypeInv, [Next]_vars PROVE TypeInv'
  OBVIOUS
<1>1. /\ \A d \in Devices : SizeOn(d)' <= disk'[d].room
      /\ DiskInv'
  BY DiskNext DEF Fit, SizeOn, DiskInv
<1> QED
  BY <1>1, DiskNext, PlanNext, JobNext, MountNext, PastNext DEF TypeInv, TypeOK

LEMMA TypeInit == Init => TypeInv
<1> SUFFICES ASSUME Init PROVE TypeInv
  OBVIOUS
<1>1. /\ NoFiles \in [Files -> Images]
      /\ NoFiles["KERNEL"].size = 0 /\ NoFiles["SYSTEM"].size = 0
  BY DEF NoFiles, None, Images, Files
<1>2. Foreign \in Disks /\ Fit(Foreign)
  BY <1>1, Sizes DEF Foreign, Disks, Fit, Files
<1>3. ASSUME NEW r \in OldRooms PROVE Earlier(r) \in Disks /\ Fit(Earlier(r))
  <2>1. \A f \in Files : OldSize[f] \in Nat
    BY Sizes
  <2>2. Earlier(r) \in Disks
    BY <2>1 DEF Earlier, Disks, Images, Bootable
  <2>3. Fit(Earlier(r))
    BY <2>1, Sizes DEF Earlier, Fit, Files, Bootable, Effects, Layout, Content
  <2> QED
    BY <2>2, <2>3
<1>4. disk \in [Devices -> Disks] /\ \A d \in Devices : Fit(disk[d])
  BY <1>2, <1>3 DEF Init
<1>5. job \in Jobs /\ JobInv
  BY Assumptions DEF Init, Jobs, JobInv
<1>6. plan \in Seq(Commands) /\ PlanInv
  BY EmptySeq DEF Init, PlanInv
<1>7. /\ mnt \in [Points -> Seq(Devices)] /\ tmp \in [Points -> {"absent", "empty", "filled"}]
      /\ dirty = {} /\ pc \in PCs /\ failed \in BOOLEAN /\ troubled \in BOOLEAN
  BY EmptySeq DEF Init, PCs
<1>8. fails \in 0..MaxFails /\ cuts \in 0..MaxCuts /\ jobs \in 0..MaxJobs
  BY Assumptions DEF Init
<1> QED
  BY <1>4, <1>5, <1>6, <1>7, <1>8, FitIs DEF TypeOK, SizeOn, Fit

LEMMA TypeInductive == Spec => []TypeInv
BY TypeInit, TypeNext, PTL DEF Spec

\* Type correctness of the installer, for all disks and sizes: whatever fails or
\* is broken off, the files that are copied (l.315-318, l.479-482) never take more
\* than the room of their partition.
THEOREM TypeCorrect == Spec => []TypeOK
<1>1. TypeInv => TypeOK
  BY DEF TypeInv
<1> QED
  BY TypeInductive, <1>1, PTL

----------------------------------------------------------------------------
(* What is mounted where.                                                  *)

Inside(p) == {mnt[p][n] : n \in 1..Len(mnt[p])}

LEMMA InsideIs == TypeOK => \A p \in Points : ToSet(mnt[p]) = Inside(p)
BY LenProperties DEF TypeOK, ToSet, Inside

\* A file that is not on its disk yet is on one that is mounted.
LEMMA DirtyNext == TypeInv /\ DirtyInv /\ [Next]_vars => DirtyInv'
<1> SUFFICES ASSUME TypeInv, DirtyInv, [Next]_vars PROVE DirtyInv'
  OBVIOUS
<1>t. TypeOK /\ TypeOK'
  BY TypeNext DEF TypeInv
<1>i. (\A p \in Points : ToSet(mnt[p]) = Inside(p))
      /\ (\A p \in Points : ToSet(mnt'[p]) = Inside(p)')
  <2>1. (\A p \in Points : ToSet(mnt[p]) = Inside(p))'
    BY <1>t, InsideIs, PTL
  <2> QED
    BY <1>t, <2>1, InsideIs
<1>d. \A x \in dirty : \E p \in Points : x[1] \in Inside(p)
  BY <1>i DEF DirtyInv
<1> SUFFICES \A x \in dirty' : \E p \in Points : x[1] \in Inside(p)'
  BY <1>i DEF DirtyInv
<1>1. CASE UNCHANGED <<mnt, dirty>>
  BY <1>1, <1>d DEF Inside
<1>2. CASE dirty' = {}
  BY <1>2
<1>3. ASSUME NEW c \in Commands, Mount(c)
      PROVE  \A x \in dirty' : \E p \in Points : x[1] \in Inside(p)'
  <2>1. \A p \in Points : Inside(p) \subseteq Inside(p)'
    <3>1. ASSUME NEW p \in Points PROVE Inside(p) \subseteq Inside(p)'
      <4>1. mnt[p] \in Seq(Devices) /\ Len(mnt[p]) \in Nat /\ job.dev \in Devices
        BY <1>t DEF TypeOK, Jobs
      <4>2. mnt'[p] \in {mnt[p], Append(mnt[p], job.dev)}
        BY <1>3, <1>t DEF Mount, TypeOK
      <4>3. /\ Len(Append(mnt[p], job.dev)) = Len(mnt[p]) + 1
            /\ \A n \in 1..Len(mnt[p]) : Append(mnt[p], job.dev)[n] = mnt[p][n]
        BY <4>1, AppendProperties
      <4>4. CASE mnt'[p] = mnt[p]
        BY <4>4 DEF Inside
      <4>5. CASE mnt'[p] = Append(mnt[p], job.dev)
        <5>1. Len(mnt'[p]) = Len(mnt[p]) + 1 /\ \A n \in 1..Len(mnt[p]) : mnt'[p][n] = mnt[p][n]
          BY <4>3, <4>5
        <5> QED
          BY <4>1, <5>1 DEF Inside
      <4> QED
        BY <4>2, <4>4, <4>5
    <3> QED
      BY <3>1
  <2> QED
    BY <1>3, <1>d, <2>1 DEF Mount
<1>4. ASSUME NEW c \in Commands, Write(c)
      PROVE  \A x \in dirty' : \E p \in Points : x[1] \in Inside(p)'
  <2>1. mnt' = mnt /\ dirty' = dirty \cup {<<Top(Point(c)), c>>}
    BY <1>4 DEF Write, mounts
  <2>2. Top(Point(c)) \in Inside(Point(c))
    BY <1>4, <1>t, PointType, TopType DEF Write, Inside
  <2>3. \A p \in Points : Inside(p)' = Inside(p)
    BY <2>1 DEF Inside
  <2> QED
    BY <1>d, <2>1, <2>2, <2>3, PointType
<1>5. ASSUME NEW c \in Commands, Umount(c)
      PROVE  \A x \in dirty' : \E p \in Points : x[1] \in Inside(p)'
  <2> DEFINE p == Point(c)
  <2>1. /\ p \in Points /\ AnyAt(p) /\ mnt' = [mnt EXCEPT ![p] = Front(@)]
        /\ dirty' = {x \in dirty : x[1] # Top(p)}
    BY <1>5, PointType DEF Umount
  <2>2. \A q \in Points : Inside(q) \subseteq Inside(q)' \cup {Top(p)}
    <3>1. ASSUME NEW q \in Points, q # p PROVE Inside(q)' = Inside(q)
      BY <1>t, <2>1, <3>1 DEF Inside, TypeOK
    <3>2. Inside(p) \subseteq Inside(p)' \cup {Top(p)}
      <4>1. mnt'[p] = Front(mnt[p])
        BY <1>t, <2>1 DEF TypeOK
      <4>2. /\ Len(mnt'[p]) = Len(mnt[p]) - 1
            /\ \A n \in 1..Len(mnt[p]) - 1 : mnt'[p][n] = mnt[p][n]
            /\ Len(mnt[p]) \in Nat \ {0} /\ Top(p) = mnt[p][Len(mnt[p])]
        BY <1>t, <2>1, <4>1, FrontType, TopType
      <4> QED
        BY <4>2 DEF Inside
    <3> QED
      BY <3>1, <3>2
  <2> QED
    BY <1>d, <2>1, <2>2
<1> QED
  BY <1>1, <1>2, <1>3, <1>4, <1>5
  DEF vars, mounts, Next, Command, User, LayOut, Sync, HasSpace, NoSpace, Vain, Fail,
      PowerOn, Choose, SayYes, SayNo, Acknowledge, Leave, PowerCut, Down

\* Where the program is in its plan, after a step that goes on.
LEMMA OnwardPlace ==
  ASSUME TypeInv, Onward, plan # <<>>, pc \in {"work", "refused"}
  PROVE  /\ job' = job /\ job \in Jobs /\ (job.kind = "repair" => ~job.backup)
         /\ pc = "refused" => pc' = "menu" /\ Head(plan) = "umount1" /\ job.kind = "repair"
         /\ pc = "work" => /\ K' = K + 1 /\ K \in 1..Length /\ Length' = Length
                           /\ pc' = IF K < Length THEN "work" ELSE "complete"
         /\ pc = "work" /\ job.kind = "repair" =>
              /\ Length = 6 /\ K = RepairPlace(Head(plan))
              /\ Head(plan) \in {"mount1", "space", "KERNEL", "SYSTEM", "sync", "umount1"}
         /\ pc = "work" /\ job.kind = "quick" =>
              /\ Length = (IF job.backup THEN 22 ELSE 18) /\ Head(plan) # "space"
              /\ Head(plan) # "sync" => K = Place(Head(plan))
              /\ Head(plan) = "sync" => K \in {15, 17, 21}
<1>t. TypeOK /\ PlanInv /\ JobInv /\ job \in Jobs
  BY DEF TypeInv, TypeOK
<1>1. job' = job /\ (job.kind = "repair" => ~job.backup) /\ Length' = Length
  BY <1>t DEF Onward, JobInv, Length
<1>2. CASE pc = "refused"
  <2>1. plan = <<"umount1">> /\ job.kind = "repair" /\ pc' = "menu"
    BY <1>t, <1>2, TailPlan DEF PlanInv
  <2> QED
    BY <1>t, <1>1, <1>2, <2>1
<1>3. CASE pc = "work"
  <2>1. /\ K' = K + 1 /\ K \in 1..Length /\ Head(plan) = Plan(job)[K]
        /\ pc' = IF K < Length THEN "work" ELSE "complete"
    BY <1>t, <1>3, TailPlan
  <2>2. CASE job.kind = "repair"
    BY <1>t, <1>1, <1>3, <2>1, <2>2, RepairPlaces, LengthIs
  <2>3. CASE job.kind = "quick"
    BY <1>t, <1>1, <1>3, <2>1, <2>3, QuickPlaces, LengthIs
  <2> QED
    BY <1>t, <2>2, <2>3 DEF Jobs
<1> QED
  BY <1>2, <1>3

\* Without a mount there is nothing that is not on its disk.
LEMMA NothingDirty ==
  ASSUME TypeOK, DirtyInv, \A p \in Points : mnt[p] = <<>>
  PROVE  dirty = {}
<1>1. \A p \in Points : Inside(p) = {}
  BY EmptySeq DEF Inside
<1> QED
  BY <1>1, InsideIs DEF DirtyInv

\* What has to be mounted is mounted, and nothing else, if all goes well.
LEMMA CleanNext == TypeInv /\ DirtyInv /\ CleanInv /\ [Next]_vars => CleanInv'
<1> SUFFICES ASSUME TypeInv, DirtyInv, CleanInv, [Next]_vars PROVE CleanInv'
  OBVIOUS
<1>t. /\ TypeOK /\ PlanInv /\ mnt \in [Points -> Seq(Devices)] /\ job \in Jobs /\ pc \in PCs
      /\ tmp \in [Points -> {"absent", "empty", "filled"}]
  BY DEF TypeInv, TypeOK
<1> DEFINE Good == \A p \in Points : /\ mnt[p] = IF Opened(p) THEN <<job.dev>> ELSE <<>>
                                    /\ tmp[p] = IF Opened(p) THEN "empty" ELSE "absent"
           Early == pc = "refused" \/ (pc = "work" /\ job.kind = "repair" /\ K = 2)
<1> SUFFICES ASSUME pc' = "off" \/ ~troubled' PROVE Good' /\ (Early' => dirty' = {})
  BY DEF CleanInv
<1>1. CASE UNCHANGED vars
  <2>1. UNCHANGED <<mnt, tmp, job, pc, K, dirty, troubled>> /\ \A p : Opened(p)' = Opened(p)
    BY <1>1 DEF vars, mounts, history, Length, K, Opened
  <2> QED
    BY <2>1 DEF CleanInv
<1>2. CASE Leave \/ PowerCut
  BY <1>2 DEF Leave, PowerCut, Down, Opened
<1>3. CASE PowerOn \/ Choose \/ SayNo \/ Acknowledge \/ (SayYes /\ pc = "confirm")
  <2>1. /\ pc \in {"off", "menu", "confirm", "lastChance", "complete"}
        /\ pc' \in {"off", "menu", "confirm", "lastChance", "complete"}
        /\ UNCHANGED <<mnt, tmp, dirty>> /\ (pc = "off" \/ ~troubled)
    BY <1>3 DEF PowerOn, Choose, SayNo, Acknowledge, SayYes, Goto, mounts, history
  <2>2. \A p \in Points : ~Opened(p) /\ ~Opened(p)'
    BY <2>1 DEF Opened
  <2> QED
    BY <2>1, <2>2 DEF CleanInv
<1>4. CASE SayYes /\ pc = "lastChance"
  <2>1. /\ pc' = "work" /\ plan' = Plan(job) /\ job' = job /\ UNCHANGED <<mnt, tmp, dirty>>
        /\ ~troubled /\ Length' = Length
    BY <1>4 DEF SayYes, Goto, mounts, history, Length
  <2>2. K' = 1
    BY <1>t, <2>1, PlanType, LengthIs DEF K, TypeInv, JobInv
  <2>3. \A p \in Points : ~Opened(p) /\ ~Opened(p)'
    BY <1>4, <2>1, <2>2 DEF Opened
  <2> QED
    BY <2>1, <2>2, <2>3 DEF CleanInv
<1>5. CASE Vain \/ Fail
  BY <1>5, CommandSteps DEF Command, Vain, Fail, Advance, Onward, NoSpace
<1>6. CASE NoSpace
  <2>1. /\ Head(plan) = "space" /\ pc' = "refused" /\ UNCHANGED <<mnt, tmp, dirty, job>>
        /\ ~troubled /\ plan # <<>> /\ pc \in {"work", "refused"}
    BY <1>6 DEF NoSpace, At, mounts, history
  <2>2. pc = "work" /\ job.kind = "repair" /\ K = 2
    <3>1. pc = "work"
      BY <1>t, <2>1 DEF PlanInv
    <3>2. /\ Length \in {6, 18, 22} /\ K \in 1..Length /\ Head(plan) = Plan(job)[K]
      <4>1. Length \in {6, 18, 22} /\ Len(plan) \in 1..Length
        BY <1>t, <3>1, LengthIs DEF TypeInv, JobInv, PlanInv
      <4>2. K \in 1..Length /\ K + 1 - 1 = K
        BY <4>1 DEF K
      <4>3. plan[1] = Plan(job)[K]
        BY <1>t, <3>1, <4>1, <4>2 DEF PlanInv
      <4> QED
        BY <4>1, <4>2, <4>3
    <3>3. job.kind = "repair"
      BY <1>t, <2>1, <3>2, QuickPlaces DEF Jobs
    <3> QED
      BY <1>t, <2>1, <3>1, <3>2, <3>3, RepairPlaces DEF RepairPlace
  <2>3. \A p \in Points : Opened(p) <=> Opened(p)'
    BY <1>t, <2>1, <2>2 DEF Opened, Points
  <2> QED
    BY <2>1, <2>2, <2>3 DEF CleanInv
<1>7. ASSUME Command, Onward, ~Vain, ~Fail, ~NoSpace PROVE Good' /\ (Early' => dirty' = {})
  <2>o. /\ pc \in {"work", "refused"} /\ plan # <<>> /\ pc' # "off"
        /\ plan' = Tail(plan)
    BY <1>7, CommandSteps DEF Onward
  <2>n. Good /\ (Early => dirty = {}) /\ ~troubled
    <3>1. troubled' = troubled
      BY <1>7, Zenon
      DEF Command, LayOut, Mount, Write, Umount, Sync, HasSpace
    <3> QED
      BY <2>o, <3>1 DEF CleanInv
  <2>1. ASSUME NEW c \in Commands, LayOut(c) PROVE Good' /\ (Early' => dirty' = {})
    <3>1. /\ c \in Layout \cup {"wipe"} /\ Head(plan) = c /\ UNCHANGED <<mnt, tmp, dirty>>
      BY <2>1 DEF LayOut, At, mounts
    <3>2. pc = "work" /\ job.kind = "quick" /\ K \in 1..10
      <4>1. c \in {"wipe", "label", "mbr", "mkpart1", "mkpart2", "flag", "fs1", "name1", "fs2",
                  "name2"}
        BY <3>1 DEF Layout
      <4>2. pc = "work" /\ job.kind = "quick"
        BY <1>7, <1>t, <2>o, <3>1, <4>1, OnwardPlace DEF Jobs
      <4>3. K = Place(c)
        BY <1>7, <2>o, <3>1, <4>1, <4>2, OnwardPlace
      <4> QED
        BY <4>1, <4>2, <4>3 DEF Place
    <3>3. \A p \in Points : ~Opened(p) /\ ~Opened(p)'
      BY <1>7, <2>o, <3>2, OnwardPlace DEF Opened
    <3> QED
      BY <1>7, <2>n, <2>o, <3>1, <3>2, <3>3, OnwardPlace
  <2>2. ASSUME NEW c \in Commands, Mount(c) PROVE Good' /\ (Early' => dirty' = {})
    <3>1. /\ c \in {"mount1", "mount2"} /\ Head(plan) = c /\ dirty' = dirty
          /\ mnt' = [mnt EXCEPT ![Point(c)] = Append(@, job.dev)]
          /\ tmp' = [tmp EXCEPT ![Point(c)] = IF @ = "absent" THEN "empty" ELSE @]
      BY <2>2 DEF Mount, At, MakeDir
    <3>2. /\ pc = "work" /\ pc' = "work" /\ K' = K + 1 /\ K \in Nat /\ job' = job
          /\ job.kind = "quick" /\ c = "mount1" => K = 11
          /\ job.kind = "quick" /\ c = "mount2" => K = 19
          /\ job.kind = "repair" => K = 1 /\ c = "mount1"
      BY <1>7, <1>t, <2>o, <3>1, OnwardPlace, LengthIs DEF Place, RepairPlace, Jobs
    <3>3. \A p \in Points : ~Opened(p) /\ (Opened(p)' <=> p = Point(c))
      BY <1>t, <3>1, <3>2 DEF Opened, Points, Point, Jobs
    <3>4. \A p \in Points : mnt[p] = <<>> /\ tmp[p] = "absent"
      BY <2>n, <3>3
    <3>5. Append(<<>>, job.dev) = <<job.dev>>
      OBVIOUS
    <3>6. dirty = {}
      BY <1>t, <3>4, NothingDirty
    <3> QED
      BY <1>t, <3>1, <3>2, <3>3, <3>4, <3>5, <3>6
  <2>3. ASSUME NEW c \in Commands, Write(c) PROVE Good' /\ (Early' => dirty' = {})
    <3>1. /\ c \in Content \cup Files /\ Head(plan) = c /\ UNCHANGED <<mnt, tmp>>
      BY <2>3 DEF Write, At, mounts
    <3>2. /\ pc = "work" /\ pc' = "work" /\ K' = K + 1 /\ K \in Nat /\ job' = job
          /\ job.kind = "quick" => K \in {12, 13, 14, 16, 20}
          /\ job.kind = "repair" => K \in {3, 4}
      BY <1>7, <1>t, <2>o, <3>1, OnwardPlace, LengthIs DEF Place, RepairPlace, Jobs, Content, Files
    <3>3. \A p \in Points : Opened(p)' <=> Opened(p)
      BY <1>t, <3>1, <3>2 DEF Opened, Points, Jobs
    <3> QED
      BY <2>n, <3>1, <3>2, <3>3
  <2>4. ASSUME Sync \/ HasSpace PROVE Good' /\ (Early' => dirty' = {})
    <3>1. /\ Head(plan) \in {"sync", "space"} /\ UNCHANGED <<mnt, tmp>>
      BY <2>4 DEF Sync, HasSpace, At, mounts
    <3>2. /\ pc = "work" /\ pc' = "work" /\ K' = K + 1 /\ K \in Nat /\ job' = job
          /\ job.kind = "quick" => K \in {15, 17, 21}
          /\ job.kind = "repair" => K \in {2, 5}
      BY <1>7, <1>t, <2>o, <3>1, OnwardPlace, LengthIs DEF RepairPlace, Jobs
    <3>3. \A p \in Points : Opened(p)' <=> Opened(p)
      BY <1>t, <3>1, <3>2 DEF Opened, Points, Jobs
    <3> QED
      BY <2>n, <3>1, <3>2, <3>3
  <2>5. ASSUME NEW c \in Commands, Umount(c) PROVE Good' /\ (Early' => dirty' = {})
    <3>1. /\ c \in {"umount1", "umount2"} /\ Head(plan) = c
          /\ mnt' = [mnt EXCEPT ![Point(c)] = Front(@)]
          /\ tmp' = [tmp EXCEPT ![Point(c)] =
                       IF @ = "empty" /\ Len(mnt[Point(c)]) = 1 THEN "absent" ELSE @]
      BY <2>5 DEF Umount, At
    <3>2. /\ job' = job
          /\ pc = "refused" => c = "umount1" /\ pc' = "menu"
          /\ pc = "work" => /\ K' = K + 1 /\ K \in Nat
                            /\ job.kind = "quick" /\ c = "umount1" => K = 18
                            /\ job.kind = "quick" /\ c = "umount2" => K = 22
                            /\ job.kind = "repair" => K = 6 /\ c = "umount1"
                            /\ pc' \in {"work", "complete"} /\ (K # 18 => pc' = "complete")
      BY <1>7, <1>t, <2>o, <3>1, OnwardPlace, LengthIs DEF Place, RepairPlace, Jobs
    <3>3. \A p \in Points : (Opened(p) <=> p = Point(c)) /\ ~Opened(p)'
      BY <1>t, <2>o, <3>1, <3>2 DEF Opened, Points, Point, Jobs
    <3>4. /\ Point(c) \in Points /\ mnt[Point(c)] = <<job.dev>> /\ tmp[Point(c)] = "empty"
          /\ \A p \in Points \ {Point(c)} : mnt[p] = <<>> /\ tmp[p] = "absent"
      BY <2>n, <3>3, PointType
    <3>5. Front(<<job.dev>>) = <<>> /\ Len(<<job.dev>>) = 1
      BY DEF Front
    <3>6. ~Early'
      BY <2>o, <3>2
    <3> QED
      BY <1>t, <3>1, <3>3, <3>4, <3>5, <3>6
  <2> QED
    BY <1>7, <2>1, <2>2, <2>3, <2>4, <2>5 DEF Command
<1> QED
  BY <1>1, <1>2, <1>3, <1>4, <1>5, <1>6, <1>7, CommandSteps DEF Next, User, SayYes, Goto

MountInv == TypeInv /\ DirtyInv /\ CleanInv

LEMMA MountInductive == Spec => []MountInv
<1>1. Init => MountInv
  <2> SUFFICES ASSUME Init PROVE MountInv
    OBVIOUS
  <2>1. DirtyInv
    BY DEF Init, DirtyInv
  <2>2. CleanInv
    BY DEF Init, CleanInv, Opened
  <2> QED
    BY <2>1, <2>2, TypeInit DEF MountInv
<1>2. MountInv /\ [Next]_vars => MountInv'
  BY TypeNext, DirtyNext, CleanNext DEF MountInv
<1> QED
  BY <1>1, <1>2, PTL DEF Spec

\* When the installer comes back to its menu, and every command since it was
\* started has had its effect, nothing is mounted below $TMPDIR and neither of
\* the directories is left (l.341-344, l.361-364, l.487-490), however many jobs
\* there were and however they ended: get_device_unmount (l.58) lists all disks.
THEOREM MenuComesClean == Spec => []MenuIsClean
<1>1. MountInv => MenuIsClean
  BY DEF MountInv, CleanInv, MenuIsClean, Opened
<1> QED
  BY MountInductive, <1>1, PTL

\* A disk that is written is mounted at part1 or part2, and if all went well so
\* far it is the one that was chosen.
LEMMA MountedIsJob ==
  ASSUME MountInv, NEW p \in Points, NEW d \in Devices, d \in ToSet(mnt[p]), ~troubled
  PROVE  d = job.dev /\ Opened(p)
<1>1. mnt[p] = IF Opened(p) THEN <<job.dev>> ELSE <<>>
  BY DEF MountInv, CleanInv
<1>2. d \in Inside(p)
  BY InsideIs DEF MountInv, TypeInv
<1>3. Opened(p)
  BY <1>1, <1>2 DEF Inside
<1> QED
  BY <1>1, <1>2, <1>3 DEF Inside

LEMMA TopInside ==
  ASSUME TypeOK, NEW p \in Points, AnyAt(p)
  PROVE  Top(p) \in ToSet(mnt[p])
BY TopType, InsideIs DEF Inside

LEMMA ConfirmedNext ==
  MountInv /\ [Next]_vars =>
    \A d \in Devices : disk'[d] # disk[d] =>
      \/ pc = "work" /\ d = job.dev /\ d # Medium
      \/ troubled /\ \E p \in Points : d \in ToSet(mnt[p])
<1> SUFFICES ASSUME MountInv, [Next]_vars, NEW d \in Devices, disk'[d] # disk[d]
             PROVE  \/ pc = "work" /\ d = job.dev /\ d # Medium
                    \/ troubled /\ \E p \in Points : d \in ToSet(mnt[p])
  OBVIOUS
<1>t. TypeInv /\ TypeOK /\ PlanInv /\ JobInv /\ disk \in [Devices -> Disks] /\ job \in Jobs
  BY DEF MountInv, TypeInv, TypeOK
<1>m. pc = "work" => job.dev # Medium
  BY <1>t DEF JobInv
<1>1. ASSUME NEW c \in Commands, LayOut(c) PROVE pc = "work" /\ d = job.dev
  <2>1. c # "umount1" /\ Head(plan) = c /\ pc \in {"work", "refused"}
        /\ disk' = [disk EXCEPT ![job.dev] = disk'[job.dev]]
    BY <1>1, <1>t DEF LayOut, At, Layout, Jobs
  <2>2. pc = "work"
    BY <1>t, <2>1 DEF PlanInv
  <2> QED
    BY <1>t, <2>1, <2>2
<1>2. ASSUME NEW c \in Commands, Write(c) PROVE pc = "work" /\ \E p \in Points : d \in ToSet(mnt[p])
  <2>1. c \in Content \cup Files /\ Head(plan) = c /\ pc \in {"work", "refused"} /\ AnyAt(Point(c))
    BY <1>2 DEF Write, At
  <2>2. d = Top(Point(c))
    BY <1>2, <1>t DEF Write
  <2>3. pc = "work"
    BY <1>t, <2>1 DEF PlanInv, Content, Files
  <2> QED
    BY <1>t, <2>1, <2>2, <2>3, TopInside, PointType
<1>3. CASE Fail
  <2>1. PICK c \in Commands :
          /\ At(c)
          /\ disk' = IF c \in Files /\ AnyAt("part1")
                     THEN [disk EXCEPT ![Top("part1")].img[c] = [img |-> "torn", size |-> 0]]
                     ELSE disk
    BY <1>3 DEF Fail
  <2>2. c \in Files /\ AnyAt("part1") /\ d = Top("part1")
    BY <1>t, <2>1
  <2>3. pc = "work"
    BY <1>t, <2>1, <2>2 DEF At, PlanInv, Files
  <2>4. "part1" \in Points /\ d \in ToSet(mnt["part1"])
    BY <1>t, <2>2, TopInside DEF Points
  <2> QED
    BY <1>m, <2>3, <2>4, MountedIsJob
<1>4. CASE PowerCut
  <2>1. PICK lost \in SUBSET dirty :
          disk' = [e \in Devices |->
            [disk[e] EXCEPT !.on  = {c \in @ : <<e, c>> \notin lost},
                            !.img = [f \in Files |->
                              IF <<e, f>> \in lost THEN [@[f] EXCEPT !.img = "torn"]
                                                   ELSE @[f]]]]
    BY <1>4 DEF PowerCut
  <2>2. \E x \in lost : x[1] = d
    <3> SUFFICES ASSUME \A x \in lost : x[1] # d PROVE FALSE
      OBVIOUS
    <3>1. \A c : <<d, c>> \notin lost
      OBVIOUS
    <3>2. disk[d].on \in SUBSET Effects /\ disk[d].img \in [Files -> Images]
      BY <1>t DEF Disks
    <3>3. /\ {c \in disk[d].on : <<d, c>> \notin lost} = disk[d].on
          /\ [f \in Files |-> IF <<d, f>> \in lost THEN [disk[d].img[f] EXCEPT !.img = "torn"]
                                                   ELSE disk[d].img[f]] = disk[d].img
      BY <3>1, <3>2
    <3>4. disk'[d] = [disk[d] EXCEPT !.on = disk[d].on, !.img = disk[d].img]
      BY <2>1, <3>3
    <3>5. disk'[d] = disk[d]
      BY <1>t, <3>4 DEF Disks
    <3> QED
      BY <3>5
  <2>3. PICK p \in Points : d \in ToSet(mnt[p])
    BY <2>2 DEF MountInv, DirtyInv
  <2>4. CASE ~troubled
    <3>1. d = job.dev /\ Opened(p) /\ dirty # {}
      BY <2>2, <2>3, <2>4, MountedIsJob
    <3>2. pc = "work"
      BY <2>4, <3>1 DEF Opened, MountInv, CleanInv
    <3> QED
      BY <1>m, <3>1, <3>2
  <2> QED
    BY <1>t, <2>3, <2>4 DEF TypeOK
<1>5. disk' = disk \/ Fail \/ PowerCut \/ \E c \in Commands : LayOut(c) \/ Write(c)
  BY DEF vars, mounts, Next, Command, User, Mount, Umount, Sync, HasSpace, NoSpace, Vain,
         PowerOn, Choose, SayYes, SayNo, Acknowledge, Leave
<1> QED
  BY <1>m, <1>1, <1>2, <1>3, <1>4, <1>5, MountedIsJob

\* Only the disk is written that was chosen in the menu and confirmed twice
\* (l.212, l.221), and never the medium: no command changes another disk, and no
\* power cut damages one, unless a disk that could not be unmounted is still where
\* the files are copied to (l.315).
THEOREM OnlyConfirmedIsWritten == Spec => OnlyConfirmed
<1>1. MountInv /\ [Next]_vars =>
        [\A d \in Devices : disk'[d] # disk[d] =>
           \/ pc = "work" /\ d = job.dev /\ d # Medium
           \/ troubled /\ \E p \in Points : d \in ToSet(mnt[p])]_vars
  BY ConfirmedNext
<1> QED
  BY MountInductive, <1>1, PTL DEF Spec, OnlyConfirmed

----------------------------------------------------------------------------
(* A job none of whose commands fails.                                     *)

\* Mounting puts the disk of the job on top.
LEMMA MountedTop ==
  ASSUME TypeOK, NEW p \in Points, mnt' = [mnt EXCEPT ![p] = Append(@, job.dev)], job' = job
  PROVE  MountedAt(p)'
<1>1. mnt[p] \in Seq(Devices) /\ job.dev \in Devices /\ mnt'[p] = Append(mnt[p], job.dev)
  BY DEF TypeOK, Jobs
<1>2. /\ Append(mnt[p], job.dev) # <<>> /\ Len(Append(mnt[p], job.dev)) = Len(mnt[p]) + 1
      /\ Append(mnt[p], job.dev)[Len(mnt[p]) + 1] = job.dev
  BY <1>1, AppendProperties
<1> QED
  BY <1>1, <1>2 DEF MountedAt, Last

LEMMA LaidOutIs ==
  ASSUME TypeOK, NEW c, LayOut(c)
  PROVE  /\ disk'[job.dev].on = (disk[job.dev].on \ Loses(c)) \cup Made(c)
         /\ disk'[job.dev].img = IF c \in {"wipe", "label", "fs1"} THEN NoFiles
                                ELSE disk[job.dev].img
         /\ disk'[job.dev].room = RoomAfter(c, disk[job.dev].room)
<1>1. job.dev \in Devices /\ disk \in [Devices -> Disks]
  BY DEF TypeOK, Jobs
<1> QED
  BY <1>1 DEF LayOut, Disks

LEMMA WrittenIs ==
  ASSUME TypeOK, NEW c, Write(c), MountedAt(Point(c))
  PROVE  /\ disk'[job.dev].room = disk[job.dev].room
         /\ c \in Files => /\ disk'[job.dev].on = disk[job.dev].on
                           /\ disk'[job.dev].img = [disk[job.dev].img EXCEPT ![c] = Copied(job.dev, c)]
         /\ c \in Content => /\ disk'[job.dev].on = disk[job.dev].on \cup {c}
                             /\ disk'[job.dev].img = disk[job.dev].img
<1>1. job.dev \in Devices /\ disk \in [Devices -> Disks] /\ Top(Point(c)) = job.dev
  BY DEF TypeOK, Jobs, MountedAt, Top
<1>2. CASE c \in Files
  BY <1>1, <1>2 DEF Write, Disks, Files, Content
<1>3. CASE c \in Content
  BY <1>1, <1>3 DEF Write, Disks, Files, Content
<1> QED
  BY <1>2, <1>3 DEF Write

\* The order of the plan: what a command needs comes before it, what it destroys
\* comes later.
LEMMA PlaceOrder ==
  /\ \A x \in Effects : Place(x) \in 2..20 \ {11, 13, 14, 15, 17, 18, 19}
  /\ \A x, y \in Effects : Place(x) = Place(y) => x = y
  /\ \A c \in Layout \cup {"wipe", "mount1", "mount2"} :
       \A x \in Needs(c) : x \in Effects /\ Place(x) < Place(c)
  /\ \A c \in Layout \cup {"wipe"} : \A x \in Loses(c) : Place(x) >= Place(c)
<1>1. \A x \in Effects : Place(x) \in 2..20 \ {11, 13, 14, 15, 17, 18, 19}
  BY DEF Effects, Layout, Content, Place
<1>2. \A x, y \in Effects : Place(x) = Place(y) => x = y
  BY DEF Effects, Layout, Content, Place
<1>3. \A c \in Layout \cup {"wipe", "mount1", "mount2"} :
        \A x \in Needs(c) : x \in Effects /\ Place(x) < Place(c)
  BY DEF Effects, Layout, Content, Place, Needs
<1>4. \A c \in Layout \cup {"wipe"} : \A x \in Loses(c) : Place(x) >= Place(c)
  BY DEF Effects, Layout, Content, Place, Loses
<1> QED
  BY <1>1, <1>2, <1>3, <1>4

\* In an installation all commands find what they need.
LEMMA QuickNotVain ==
  ASSUME TypeInv, QuickAt(K), pc = "work", job.kind = "quick", job.dev \notin Small,
         plan # <<>>, Onward
  PROVE  ~Vain
<1> DEFINE c == Head(plan)
<1>1. /\ c # "space" /\ (c # "sync" => K = Place(c)) /\ K \in 1..22
  <2>1. /\ c # "space" /\ (c # "sync" => K = Place(c))
        /\ K \in 1..Length /\ Length = (IF job.backup THEN 22 ELSE 18)
    BY OnwardPlace
  <2> QED
    BY <2>1
<1>2. ASSUME c \in Layout \cup {"wipe", "mount1", "mount2"} PROVE Possible(c)
  <2>1. K = Place(c)
    BY <1>1, <1>2 DEF Layout
  <2>2. K > 1 => disk[job.dev].on = {x \in Effects : Place(x) < K}
    BY <1>1 DEF QuickAt
  <2>3. Needs(c) \subseteq disk[job.dev].on
    <3>1. \A x \in Needs(c) : x \in Effects /\ Place(x) < K /\ Place(x) \in Nat /\ Place(x) > 1
      <4> HIDE DEF c
      <4> QED
        BY <1>2, <2>1, PlaceOrder
    <3> QED
      BY <1>1, <2>2, <3>1
  <2>4. c \in {"mkpart1", "mkpart2"} => c \notin disk[job.dev].on
    <3>1. Place("mkpart1") = 4 /\ Place("mkpart2") = 5
      BY DEF Place
    <3> HIDE DEF c
    <3> QED
      BY <2>1, <2>2, <3>1
  <2> QED
    BY <2>3, <2>4 DEF Possible
<1>3. c \in Content \cup Files \cup {"umount1", "umount2"} => AnyAt(Point(c))
  <2> SUFFICES ASSUME c \in Content \cup Files \cup {"umount1", "umount2"} PROVE AnyAt(Point(c))
    OBVIOUS
  <2>1. K = Place(c)
    BY <1>1 DEF Content, Files
  <2>2. IF c \in {"backup", "umount2"} THEN K \in {20, 22} /\ Point(c) = "part2"
                                      ELSE K \in 12..18 /\ Point(c) = "part1"
    <3>1. CASE c \in {"backup", "umount2"}
      BY <2>1, <3>1 DEF Place, Point
    <3>2. CASE c \in (Content \cup Files \cup {"umount1"}) \ {"backup"}
      BY <2>1, <3>2 DEF Place, Content, Files, Point
    <3> QED
      BY <3>1, <3>2
  <2>3. MountedAt(Point(c))
    BY <2>2 DEF QuickAt
  <2> QED
    BY <2>3 DEF AnyAt, MountedAt
<1> QED
  BY <1>2, <1>3 DEF Vain, At

LEMMA QuickStep ==
  ASSUME TypeInv, QuickAt(K), pc = "work", job.kind = "quick", job.dev \notin Small,
         Command, ~Fail, Onward
  PROVE  QuickAt(K)'
<1>t. /\ TypeOK /\ job \in Jobs /\ job.dev \in Devices /\ disk[job.dev] \in Disks
  BY DEF TypeInv, TypeOK, Jobs
<1>p. plan # <<>>
  BY CommandSteps
<1>k. job' = job /\ K' = K + 1 /\ K \in 1..22
  <2>1. /\ job' = job /\ K' = K + 1
        /\ K \in 1..Length /\ Length = (IF job.backup THEN 22 ELSE 18)
    BY <1>p, OnwardPlace
  <2> QED
    BY <2>1
<1>c. /\ Head(plan) # "space"
      /\ Head(plan) # "sync" => K = Place(Head(plan))
      /\ Head(plan) = "sync" => K \in {15, 17, 21}
  BY <1>p, OnwardPlace
<1>o. disk[job.dev].on \in SUBSET Effects
  BY <1>t DEF Disks
<1>1. ASSUME NEW c \in Commands, LayOut(c) PROVE QuickAt(K)'
  <2>1. c \in Layout \cup {"wipe"} /\ Head(plan) = c /\ K = Place(c) /\ K \in 1..10
    <3>1. c \in Layout \cup {"wipe"} /\ Head(plan) = c
      BY <1>1 DEF LayOut, At
    <3> QED
      BY <1>c, <3>1 DEF Layout, Place
  <2>2. disk'[job.dev].on = {x \in Effects : Place(x) < K + 1}
    <3>1. CASE c = "wipe"
      <4>1. disk'[job.dev].on = {} /\ K = 1
        BY <1>1, <1>o, <1>t, <2>1, <3>1, LaidOutIs DEF Loses, Made, Place
      <4> QED
        BY <4>1, PlaceOrder
    <3>2. CASE c \in Layout
      <4>1. c \in Effects /\ K > 1 /\ "wipe" # c
        BY <2>1, <3>2, PlaceOrder DEF Effects, Layout
      <4>2. disk[job.dev].on = {x \in Effects : Place(x) < K}
        BY <4>1 DEF QuickAt
      <4>3. disk'[job.dev].on = (disk[job.dev].on \ Loses(c)) \cup {c}
        <5>1. c = "mkpart1" => "mkpart1" \notin disk[job.dev].on
          BY <1>1 DEF LayOut, Possible
        <5>2. c = "mkpart2" => "mkpart1" \in disk[job.dev].on
          BY <2>1, <4>2 DEF Place, Effects, Layout
        <5> QED
          BY <1>1, <1>t, <2>1, <4>1, <5>1, <5>2, LaidOutIs, MadeIs
      <4>4. \A x \in Effects : /\ Place(x) \in Nat /\ (x \in Loses(c) => Place(x) >= K)
                               /\ (Place(x) = K => x = c)
        BY <2>1, <4>1, PlaceOrder
      <4>5. \A x \in Effects : x \in disk'[job.dev].on <=> Place(x) < K + 1
        <5> SUFFICES ASSUME NEW x \in Effects PROVE x \in disk'[job.dev].on <=> Place(x) < K + 1
          OBVIOUS
        <5>1. Place(x) < K + 1 <=> Place(x) < K \/ Place(x) = K
          BY <2>1, <4>4
        <5>2. Place(x) = K <=> x = c
          BY <2>1, <4>4
        <5>3. Place(x) < K => x \notin Loses(c)
          BY <2>1, <4>4
        <5> QED
          BY <4>2, <4>3, <5>1, <5>2, <5>3
      <4> QED
        BY <4>1, <4>2, <4>3, <4>5
    <3> QED
      BY <2>1, <3>1, <3>2
  <2>3. disk'[job.dev].img = NoFiles
    <3>1. CASE c = "wipe"
      BY <1>1, <1>t, <3>1, LaidOutIs
    <3>2. CASE c # "wipe"
      <4>1. K \in 2..13
        BY <2>1, <3>2, PlaceOrder DEF Effects
      <4> QED
        BY <1>1, <1>t, <4>1, LaidOutIs DEF QuickAt
    <3> QED
      BY <3>1, <3>2
  <2>4. K + 1 > 4 => disk'[job.dev].room = Room
    <3>1. Place("wipe") = 1 /\ Place("label") = 2
      BY DEF Place
    <3>2. c = "mkpart1" \/ K # 4
      BY <2>1 DEF Place, Layout
    <3>3. CASE K = 4
      BY <1>1, <1>t, <2>1, <3>2, <3>3, LaidOutIs DEF RoomAfter, Made
    <3>4. CASE K > 4
      <4>1. c \notin {"wipe", "label"} /\ disk[job.dev].room = Room
        BY <2>1, <3>1, <3>4 DEF QuickAt
      <4>2. RoomAfter(c, Room) = Room
        BY <4>1 DEF RoomAfter
      <4> QED
        BY <1>1, <1>t, <4>1, <4>2, LaidOutIs
    <3> QED
      BY <2>1, <3>3, <3>4
  <2>5. (job.dev)' = job.dev /\ K' = K + 1 /\ K' \in 2..11
    BY <1>k, <2>1
  <2> QED
    BY <1>k, <2>1, <2>2, <2>3, <2>4, <2>5 DEF QuickAt
<1>2. ASSUME NEW c \in Commands, Mount(c) PROVE QuickAt(K)'
  <2>1. /\ c \in {"mount1", "mount2"} /\ Head(plan) = c /\ UNCHANGED <<disk, dirty>>
        /\ mnt' = [mnt EXCEPT ![Point(c)] = Append(@, job.dev)]
    BY <1>2 DEF Mount, At
  <2>2. MountedAt(Point(c))'
    BY <1>t, <1>k, <2>1, PointType, MountedTop
  <2>k. IF c = "mount1" THEN K = 11 /\ Point(c) = "part1" ELSE K = 19 /\ Point(c) = "part2"
    BY <1>c, <2>1 DEF Place, Point
  <2>3. \A x \in Effects : Place(x) < K' <=> Place(x) < K
    BY <1>k, <2>k, PlaceOrder
  <2>5. disk'[job.dev].on = {x \in Effects : Place(x) < K'}
    BY <2>1, <2>3, <2>k DEF QuickAt
  <2>6. CASE K = 11
    <3>1. K' = 12 /\ MountedAt("part1")'
      BY <1>k, <2>2, <2>k, <2>6
    <3> QED
      BY <1>k, <2>1, <2>5, <2>6, <3>1 DEF QuickAt
  <2>7. CASE K = 19
    <3>1. K' = 20 /\ MountedAt("part2")'
      BY <1>k, <2>2, <2>k, <2>7
    <3> QED
      BY <1>k, <2>1, <2>5, <2>7, <3>1 DEF QuickAt, Has
  <2> QED
    BY <2>k, <2>6, <2>7
<1>3. ASSUME NEW c \in Commands, Write(c) PROVE QuickAt(K)'
  <2>1. c \in Content \cup Files /\ Head(plan) = c /\ mnt' = mnt /\ K = Place(c)
    BY <1>3, <1>c DEF Write, At, mounts, Content, Files
  <2>k. /\ K \in {12, 13, 14, 16, 20}
        /\ IF c = "backup" THEN K = 20 /\ Point(c) = "part2" ELSE K < 17 /\ Point(c) = "part1"
        /\ c = "KERNEL" => K = 13
        /\ c = "SYSTEM" => K = 14
    BY <2>1 DEF Place, Point, Content, Files
  <2>2. MountedAt(Point(c))
    BY <2>k DEF QuickAt
  <2>q. disk[job.dev].on = {x \in Effects : Place(x) < K} /\ disk[job.dev].room = Room
    BY <2>k DEF QuickAt
  <2>3. CASE c \in Content
    <3>1. c \in Effects /\ K \in {12, 16, 20}
      BY <2>1, <2>3 DEF Effects, Content, Place
    <3>2. /\ disk'[job.dev].on = {x \in Effects : Place(x) < K} \cup {c}
          /\ disk'[job.dev].img = disk[job.dev].img /\ disk'[job.dev].room = disk[job.dev].room
      BY <1>3, <1>t, <2>2, <2>3, <2>q, WrittenIs
    <3>3. \A x \in Effects : Place(x) < K' <=> Place(x) < K \/ x = c
      BY <1>k, <2>1, <3>1, PlaceOrder
    <3>4. disk'[job.dev].on = {x \in Effects : Place(x) < K'}
      BY <3>1, <3>2, <3>3
    <3>5. K' = K + 1 /\ K' \in {13, 17, 21} /\ disk'[job.dev].room = Room
      BY <1>k, <2>q, <3>1, <3>2
    <3>6. /\ MountedAt("part1")' <=> MountedAt("part1")
          /\ MountedAt("part2")' <=> MountedAt("part2")
      BY <1>k, <2>1 DEF MountedAt
    <3>7. Has("SYSTEM")' <=> Has("SYSTEM")
      BY <1>k, <3>2 DEF Has
    <3> QED
      BY <1>k, <2>k, <3>1, <3>2, <3>4, <3>5, <3>6, <3>7 DEF QuickAt
  <2>4. CASE c \in Files
    <3>1. /\ disk'[job.dev].on = {x \in Effects : Place(x) < K} /\ disk[job.dev].room = Room
          /\ disk'[job.dev].img = [disk[job.dev].img EXCEPT ![c] = Copied(job.dev, c)]
          /\ disk'[job.dev].room = Room /\ K \in {13, 14}
          /\ disk[job.dev].img \in [Files -> Images]
      BY <1>3, <1>t, <2>2, <2>4, <2>k, <2>q, WrittenIs DEF Files, Disks
    <3>2. \A x \in Effects : Place(x) < K' <=> Place(x) < K
      BY <1>k, <3>1, PlaceOrder
    <3>3. disk'[job.dev].on = {x \in Effects : Place(x) < K'}
      BY <3>1, <3>2
    <3>4. CASE c = "KERNEL"
      <4>1. disk[job.dev].img["SYSTEM"] = None /\ K = 13
        BY <2>1, <3>4 DEF QuickAt, Place, NoFiles, Files
      <4>2. Copied(job.dev, c) = [img |-> "new", size |-> NewSize["KERNEL"]]
        BY <3>1, <3>4, <4>1, Sizes, OtherFile DEF Copied, None, Files
      <4> QED
        BY <1>k, <2>1, <3>1, <3>3, <3>4, <4>1, <4>2 DEF QuickAt, Files, MountedAt
    <3>5. CASE c = "SYSTEM"
      <4>1. disk[job.dev].img["KERNEL"] = [img |-> "new", size |-> NewSize["KERNEL"]] /\ K = 14
        BY <2>1, <3>5 DEF QuickAt, Place
      <4>2. Copied(job.dev, c) = [img |-> "new", size |-> NewSize["SYSTEM"]]
        BY <3>1, <3>5, <4>1, Sizes, OtherFile DEF Copied, Files
      <4>3. /\ disk'[job.dev].img["KERNEL"] = disk[job.dev].img["KERNEL"]
            /\ disk'[job.dev].img["SYSTEM"] = [img |-> "new", size |-> NewSize["SYSTEM"]]
        BY <3>1, <3>5, <4>2 DEF Files
      <4>4. Has("SYSTEM")'
        BY <1>k, <4>3 DEF Has
      <4>5. MountedAt("part1")' <=> MountedAt("part1")
        BY <1>k, <2>1 DEF MountedAt
      <4>6. MountedAt("part1") /\ K' = 15
        BY <1>k, <4>1 DEF QuickAt
      <4> QED
        BY <1>k, <3>1, <3>3, <4>1, <4>3, <4>4, <4>5, <4>6 DEF QuickAt
    <3> QED
      BY <2>4, <3>4, <3>5 DEF Files
  <2> QED
    BY <2>1, <2>3, <2>4
<1>4. CASE Sync
  <2>1. Head(plan) = "sync" /\ UNCHANGED <<disk, mnt>> /\ dirty' = {}
    BY <1>4 DEF Sync, At, mounts
  <2>2. \A x \in Effects : Place(x) < K' <=> Place(x) < K
    BY <1>k, <1>c, <2>1, PlaceOrder
  <2>3. K \in {15, 17, 21} /\ K' = K + 1
    BY <1>k, <1>c, <2>1 DEF Place
  <2>4. /\ MountedAt("part1")' <=> MountedAt("part1")
        /\ MountedAt("part2")' <=> MountedAt("part2")
        /\ Has("SYSTEM")' <=> Has("SYSTEM")
    BY <1>k, <2>1 DEF MountedAt, Has
  <2>5. disk'[job.dev].on = {x \in Effects : Place(x) < K'}
    BY <2>1, <2>2, <2>3 DEF QuickAt
  <2> QED
    BY <1>k, <2>1, <2>3, <2>4, <2>5 DEF QuickAt
<1>5. ASSUME NEW c \in Commands, Umount(c) PROVE QuickAt(K)'
  <2>1. /\ c \in {"umount1", "umount2"} /\ Head(plan) = c /\ disk' = disk
        /\ dirty' \subseteq dirty
    BY <1>5 DEF Umount, At
  <2>2. K \in {18, 22}
    BY <1>c, <2>1 DEF Place
  <2>3. \A x \in Effects : Place(x) < K' <=> Place(x) < K
    BY <1>k, <2>2, PlaceOrder
  <2> QED
    BY <1>k, <2>1, <2>2, <2>3 DEF QuickAt, Has
<1>6. ~HasSpace /\ ~NoSpace /\ ~Vain
  BY <1>c, <1>p, QuickNotVain DEF HasSpace, NoSpace, At
<1> QED
  BY <1>1, <1>2, <1>3, <1>4, <1>5, <1>6 DEF Command

\* In a repair too: its list has only partitions with the label.
LEMMA RepairNotVain ==
  ASSUME TypeInv, RepairAt(K), pc = "work", job.kind = "repair", plan # <<>>, Onward
  PROVE  ~Vain
<1> DEFINE c == Head(plan)
<1>1. /\ c \in {"mount1", "space", "KERNEL", "SYSTEM", "sync", "umount1"}
      /\ K = RepairPlace(c) /\ job.dev \in Devices
  BY OnwardPlace DEF TypeInv, TypeOK, Jobs
<1>2. c = "mount1" => Possible(c)
  <2>1. c = "mount1" => K = 1
    BY <1>1 DEF RepairPlace
  <2>2. K = 1 => "fs1" \in disk[job.dev].on
    BY <1>1 DEF TypeInv, JobInv, DiskInv
  <2> QED
    BY <2>1, <2>2 DEF Possible, Needs
<1>3. c \in {"KERNEL", "SYSTEM", "umount1"} => AnyAt(Point(c))
  <2>1. c \in {"KERNEL", "SYSTEM", "umount1"} => K \in 2..6 /\ Point(c) = "part1"
    BY <1>1 DEF RepairPlace, Point
  <2> QED
    BY <2>1 DEF RepairAt, MountedAt, AnyAt
<1> QED
  BY <1>1, <1>2, <1>3 DEF Vain, At, Layout, Content, Files

LEMMA RepairStep ==
  ASSUME TypeInv, RepairAt(K), pc = "work", job.kind = "repair", Command, ~Fail, ~NoSpace,
         Onward
  PROVE  RepairAt(K)'
<1>t. /\ TypeOK /\ job \in Jobs /\ job.dev \in Devices /\ disk[job.dev] \in Disks
      /\ Fit(disk[job.dev])
  BY FitIs DEF TypeInv, TypeOK, Jobs
<1>p. plan # <<>>
  BY CommandSteps
<1>k. job' = job /\ K' = K + 1 /\ K \in 1..6 /\ K = RepairPlace(Head(plan))
      /\ Head(plan) \in {"mount1", "space", "KERNEL", "SYSTEM", "sync", "umount1"}
  BY <1>p, OnwardPlace, LengthIs
<1>1. \A c \in Commands : ~LayOut(c)
  BY <1>k DEF LayOut, At, Layout
<1>2. ASSUME NEW c \in Commands, Mount(c) PROVE RepairAt(K)'
  <2>1. /\ c = "mount1" /\ K = 1 /\ Point(c) = "part1"
        /\ mnt' = [mnt EXCEPT ![Point(c)] = Append(@, job.dev)]
    BY <1>2, <1>k DEF Mount, At, RepairPlace, Point
  <2>2. MountedAt("part1")'
    BY <1>t, <1>k, <2>1, MountedTop DEF Points
  <2> QED
    BY <1>k, <2>1, <2>2 DEF RepairAt
<1>3. ASSUME NEW c \in Commands, Write(c) PROVE RepairAt(K)'
  <2>1. c \in Files /\ Head(plan) = c /\ mnt' = mnt /\ Point(c) = "part1"
        /\ K = IF c = "KERNEL" THEN 3 ELSE 4
    BY <1>3, <1>k DEF Write, At, mounts, Content, Files, RepairPlace, Point
  <2>2. MountedAt("part1") /\ Enough(job.dev)
    BY <2>1 DEF RepairAt
  <2>3. /\ disk'[job.dev].room = disk[job.dev].room
        /\ disk'[job.dev].img = [disk[job.dev].img EXCEPT ![c] = Copied(job.dev, c)]
        /\ disk[job.dev].img \in [Files -> Images] /\ disk[job.dev].room \in Nat
    <3>1. disk[job.dev].img \in [Files -> Images] /\ disk[job.dev].room \in {0, Room} \cup OldRooms
      BY <1>t DEF Disks
    <3> QED
      BY <1>3, <1>t, <2>1, <2>2, <3>1, WrittenIs, Rooms
  <2>4. Copied(job.dev, c).size \in Nat /\ disk'[job.dev].img[c] = Copied(job.dev, c)
        /\ disk'[job.dev].img["KERNEL"].size \in Nat /\ disk'[job.dev].img["SYSTEM"].size \in Nat
    <3>1. Copied(job.dev, c) \in Images
      BY <1>t, <2>1, CopiedFits
    <3> QED
      BY <2>3, <2>1, <3>1 DEF Images, Files
  <2>5. Enough(job.dev)' /\ NewSize["KERNEL"] + NewSize["SYSTEM"] < disk[job.dev].room
    <3>1. disk[job.dev].img["KERNEL"].size \in Nat /\ disk[job.dev].img["SYSTEM"].size \in Nat
      BY <2>3 DEF Images, Files
    <3>2. NewSize["KERNEL"] \in Nat /\ NewSize["SYSTEM"] \in Nat
      BY Sizes DEF Files
    <3> QED
      BY <1>k, <2>2, <2>3, <2>4, <3>1, <3>2 DEF Enough, SizeOn
  <2>6. KernelFits(job.dev)' <=> KernelFits(job.dev)
    BY <1>k, <2>3 DEF KernelFits
  <2>7. CASE c = "KERNEL"
    <3>1. ASSUME KernelFits(job.dev)
          PROVE  disk'[job.dev].img["KERNEL"] = [img |-> "new", size |-> NewSize["KERNEL"]]
      <4>1. /\ disk[job.dev].img["SYSTEM"].size \in Nat
            /\ NewSize["KERNEL"] \in Nat /\ NewSize["SYSTEM"] \in Nat /\ OldSize["SYSTEM"] \in Nat
            /\ \/ disk[job.dev].img["SYSTEM"].size <= OldSize["SYSTEM"]
               \/ disk[job.dev].img["SYSTEM"].size <= NewSize["SYSTEM"]
        BY <1>t, <2>3, Sizes DEF Images, Files, Fit
      <4>2. NewSize["KERNEL"] <= disk[job.dev].room - disk[job.dev].img["SYSTEM"].size
        BY <2>3, <2>5, <3>1, <4>1 DEF KernelFits
      <4> QED
        BY <2>4, <2>7, <4>2, OtherFile DEF Copied
    <3> QED
      BY <1>k, <2>1, <2>2, <2>5, <2>6, <2>7, <3>1 DEF RepairAt, MountedAt
  <2>8. CASE c = "SYSTEM"
    <3>1. disk'[job.dev].img["KERNEL"] = disk[job.dev].img["KERNEL"]
      BY <2>3, <2>8 DEF Files
    <3>2. ASSUME KernelFits(job.dev) PROVE disk'[job.dev].img["SYSTEM"].img = "new"
      <4>1. disk[job.dev].img["KERNEL"].size = NewSize["KERNEL"]
        BY <2>1, <2>8, <3>2 DEF RepairAt
      <4>2. NewSize["KERNEL"] \in Nat /\ NewSize["SYSTEM"] \in Nat
        BY Sizes DEF Files
      <4>3. NewSize["SYSTEM"] <= disk[job.dev].room - disk[job.dev].img["KERNEL"].size
        BY <2>3, <2>5, <4>1, <4>2
      <4> QED
        <5>1. Copied(job.dev, "SYSTEM").img = "new"
          BY <4>3, OtherFile DEF Copied
        <5> QED
          BY <2>4, <2>8, <5>1
    <3> QED
      BY <1>k, <2>1, <2>2, <2>5, <2>6, <2>8, <3>1, <3>2 DEF RepairAt, MountedAt, Has
  <2> QED
    BY <2>1, <2>7, <2>8 DEF Files
<1>4. CASE Sync
  <2>1. K = 5 /\ UNCHANGED <<disk, mnt>> /\ dirty' = {}
    BY <1>4, <1>k DEF Sync, At, mounts, RepairPlace
  <2> QED
    BY <1>k, <2>1 DEF RepairAt, Has, MountedAt, Enough, SizeOn, KernelFits
<1>5. CASE HasSpace
  <2>1. /\ K = 2 /\ UNCHANGED <<disk, mnt>> /\ (AnyAt("part1") => Enough(Top("part1")))
    BY <1>5, <1>k DEF HasSpace, At, mounts, RepairPlace
  <2>2. MountedAt("part1") /\ Enough(job.dev)
    BY <2>1 DEF RepairAt, MountedAt, AnyAt, Top
  <2> QED
    BY <1>k, <2>1, <2>2 DEF RepairAt, MountedAt, Enough, SizeOn
<1>6. ASSUME NEW c \in Commands, Umount(c) PROVE RepairAt(K)'
  <2>1. K = 6 /\ disk' = disk /\ dirty' \subseteq dirty
    BY <1>6, <1>k DEF Umount, At, RepairPlace
  <2> QED
    BY <1>k, <2>1 DEF RepairAt, Has, Enough, SizeOn, KernelFits
<1>7. ~Vain
  BY <1>p, RepairNotVain
<1> QED
  BY <1>1, <1>2, <1>3, <1>4, <1>5, <1>6, <1>7 DEF Command

SoundInv == TypeInv /\ QuickInv /\ RepairInv /\ SoundJobInstalls

LEMMA SoundNext == SoundInv /\ [Next]_vars => SoundInv'
<1> SUFFICES ASSUME SoundInv, [Next]_vars PROVE SoundInv'
  OBVIOUS
<1>t. TypeInv /\ TypeInv' /\ TypeOK /\ job \in Jobs
  BY TypeNext DEF SoundInv, TypeInv, TypeOK
<1>1. CASE UNCHANGED vars
  <2>1. UNCHANGED <<pc, job, disk, mnt, dirty, failed, K>>
    BY <1>1 DEF vars, mounts, history, Length, K
  <2> QED
    BY <1>t, <2>1 DEF SoundInv, QuickInv, RepairInv, QuickAt, RepairAt, SoundJobInstalls, Has,
                      MountedAt, Enough, SizeOn, KernelFits, Installed, HasImages
<1>2. CASE pc' \notin {"work", "complete"} \/ failed'
  BY <1>2, <1>t DEF SoundInv, QuickInv, RepairInv, SoundJobInstalls
<1>3. CASE SayYes /\ pc = "lastChance"
  <2>1. pc' = "work" /\ plan' = Plan(job) /\ job' = job /\ Length' = Length
    BY <1>3 DEF SayYes, Goto, Length
  <2>2. K' = 1
    BY <1>t, <2>1, PlanType, LengthIs DEF K, TypeInv, JobInv
  <2> QED
    BY <1>t, <2>1, <2>2 DEF SoundInv, QuickInv, RepairInv, SoundJobInstalls, QuickAt, RepairAt
<1>4. CASE Command /\ ~Fail /\ ~NoSpace /\ pc' \in {"work", "complete"} /\ ~failed'
  <2>1. /\ pc = "work" /\ Onward /\ plan # <<>> /\ job' = job /\ K' = K + 1 /\ Length' = Length
        /\ pc' = IF K < Length THEN "work" ELSE "complete"
        /\ K \in 1..Length
    BY <1>4, <1>t, CommandSteps, OnwardPlace
  <2>2. ~failed
    BY <1>4, Zenon DEF Command, LayOut, Mount, Write, Umount, Sync, HasSpace, NoSpace, Vain
  <2>3. CASE job.kind = "quick"
    <3>1. job.dev \notin Small => QuickAt(K)'
      BY <1>4, <2>1, <2>2, <2>3, QuickStep DEF SoundInv, QuickInv
    <3>2. QuickInv' /\ RepairInv'
      BY <2>1, <2>3, <3>1 DEF QuickInv, RepairInv
    <3>3. ASSUME pc' = "complete", job.dev \notin Small
          PROVE  Installed(job.dev)' /\ (job.backup => "backup" \in disk'[job.dev].on)
      <4>1. K' = Length + 1 /\ Length = IF job.backup THEN 22 ELSE 18
        BY <1>t, <2>1, <2>3, <3>3, LengthIs DEF TypeInv, JobInv
      <4>2. /\ disk'[job.dev].on = {c \in Effects : Place(c) < K'}
            /\ disk'[job.dev].img["KERNEL"].img = "new" /\ disk'[job.dev].img["SYSTEM"].img = "new"
            /\ dirty' = {}
        BY <2>1, <3>1, <3>3, <4>1 DEF QuickAt, Has
      <4>3. Bootable \subseteq disk'[job.dev].on /\ (job.backup => "backup" \in disk'[job.dev].on)
        <5>1. \A c \in Effects : Place(c) < K' \/ (c = "backup" /\ ~job.backup)
          BY <4>1, PlaceOrder DEF Place, Effects, Layout, Content
        <5>2. "backup" \in Effects /\ \A c \in Bootable : c \in Effects /\ c # "backup"
          BY DEF Effects, Content, Bootable
        <5> QED
          BY <4>2, <5>1, <5>2
      <4> QED
        BY <2>1, <4>2, <4>3 DEF Installed, HasImages, Files
    <3> QED
      BY <1>t, <2>1, <2>3, <3>2, <3>3 DEF SoundInv, SoundJobInstalls
  <2>4. CASE job.kind = "repair"
    <3>1. RepairAt(K)'
      BY <1>4, <1>t, <2>1, <2>2, <2>4, RepairStep DEF SoundInv, RepairInv
    <3>2. QuickInv' /\ RepairInv'
      BY <2>1, <2>4, <3>1 DEF QuickInv, RepairInv
    <3>3. ASSUME pc' = "complete", KernelFits(job.dev)' PROVE HasImages(job.dev)'
      <4>1. K' = 7
        BY <1>t, <2>1, <2>4, <3>3, LengthIs DEF TypeInv, JobInv
      <4>2. /\ disk'[job.dev].img["KERNEL"].img = "new" /\ disk'[job.dev].img["SYSTEM"].img = "new"
            /\ dirty' = {}
        BY <2>1, <3>1, <3>3, <4>1 DEF RepairAt, Has
      <4> QED
        BY <2>1, <4>2 DEF HasImages, Files
    <3> QED
      BY <1>t, <2>1, <2>4, <3>2, <3>3 DEF SoundInv, SoundJobInstalls
  <2> QED
    BY <1>t, <2>3, <2>4 DEF Jobs
<1> QED
  BY <1>1, <1>2, <1>3, <1>4
  DEF Next, User, Fail, NoSpace, PowerOn, Choose, SayYes, SayNo, Acknowledge, Leave,
      PowerCut, Down, Goto

\* A job none of whose commands fails does what it is for before Install Complete
\* is shown (l.369, l.494), and what it wrote is on its disk: whatever was tried,
\* cut off, refused or left mounted before, however many jobs and disks there
\* are, and for all sizes of the files (l.441-490: a repair whose new kernel has
\* room next to the old SYSTEM).
THEOREM SoundJobsInstall == Spec => []SoundJobInstalls
<1>1. Init => SoundInv
  <2> SUFFICES ASSUME Init PROVE SoundInv
    OBVIOUS
  <2>1. QuickInv /\ RepairInv /\ SoundJobInstalls
    BY DEF Init, QuickInv, RepairInv, SoundJobInstalls
  <2> QED
    BY <2>1, TypeInit DEF SoundInv
<1>2. SoundInv => SoundJobInstalls
  BY DEF SoundInv
<1> QED
  BY <1>1, <1>2, SoundNext, PTL DEF Spec
=============================================================================
