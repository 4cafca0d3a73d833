------------------------- MODULE FlashUpdateProofs -------------------------
(***************************************************************************)
(* Proofs about FlashUpdate, for every set of releases, every size and     *)
(* every number of power cuts.                                             *)
(***************************************************************************)
EXTENDS FlashUpdate, TLAPS

----------------------------------------------------------------------------
(* The inductive invariant behind FreeAfterUpdate and PairIntact.          *)

\* What is stored fits, and what is not dirty is on the disk.
MediaInv ==
  /\ UsedBy(flash) <= FlashCap /\ UsedBy(disk) <= FlashCap
  /\ \A p \in Parts \ dirty : disk[p] = flash[p]
  /\ \A f \in Files : flash[f].img = Absent => flash[f].size = 0
  /\ \A f \in Files : disk[f].img = Absent => disk[f].size = 0
  /\ dirty \cap OnFlash \subseteq IF pc \in {"remove", "sync"} THEN {cur} ELSE {}

\* Before the first write the kernel is the one that booted, and from the
\* checks on both images are there, until they are moved.
Before == {"check", "extract", "removeTar", "completeness", "verify"}
FirstHalf == \* the kernel is written, SYSTEM is not
  (pc \in {"remove", "sync"} /\ cur = "KERNEL") \/ (pc = "write" /\ cur = "SYSTEM")
SourceInv ==
  /\ pc \in {"extract", "removeTar"} => tar \in Tars
  /\ pc \in Before \/ (pc = "write" /\ cur = "KERNEL")
       => flash["KERNEL"].img \in Releases
  /\ pc = "verify" \/ (pc = "write" /\ cur = "KERNEL") => HasPair(upd)
  /\ FirstHalf => upd.img["SYSTEM"] # Absent
  /\ pc = "remove" => upd.img[cur] # Absent
  /\ pc \notin {"write", "remove", "sync"} => cur = "KERNEL"
  /\ KernelOnPartition /\ pc \in {"remove", "sync"} => cur = "SYSTEM"

\* What the size check established, carried through the two writes.
SpaceInv ==
  /\ pc = "write" /\ cur = "KERNEL" => SizeOk
  /\ FirstHalf => FlashCap >= FlashFreeMin + OldKernel + NewSize("SYSTEM")
  /\ \/ pc \in {"remove", "sync"} /\ cur = "SYSTEM"
     \/ pc \in {"bootloader", "syncBoot", "updateShell", "cleanThenReboot"}
     => FlashFree >= FlashFreeMin

\* Nobody's halves are mixed in the directory.
Whole(u) == HasPair(u) /\ (\A f \in Files : u.img[f] \in Releases)
              => u.img["KERNEL"] = u.img["SYSTEM"]
DirInv ==
  /\ upd.nocheck = updDisk.nocheck
  /\ WholeBundles => Whole(upd) /\ Whole(updDisk)

Undisturbed == KernelFits /\ WholeBundles /\ ~interrupted /\ ~upd.nocheck
Good(f) == /\ flash[f].img \in Releases
           /\ flash[f].size = SizeOf[f][flash[f].img]
PairKept ==
  /\ flash["BOOT"].img \in Releases
  /\ \A f \in Files : Good(f)
  /\ IF FirstHalf THEN upd.img["SYSTEM"] = flash["KERNEL"].img
                  ELSE flash["SYSTEM"].img = flash["KERNEL"].img
  /\ pc = "write" /\ cur = "KERNEL"
       => upd.img["SYSTEM"] = upd.img["KERNEL"] /\ upd.img["SYSTEM"] \in Releases
  /\ ~InWriteWindow => dirty = {}
PairInv == Undisturbed => PairKept

IInv == TypeOK /\ MediaInv /\ SourceInv /\ SpaceInv /\ DirInv /\ PairInv

----------------------------------------------------------------------------
(* The types of what the operators return.                                 *)

LEMMA MergeType ==
  ASSUME NEW u \in UpdateDir, NEW b \in Bundle
  PROVE  Merge(u, b) \in UpdateDir
BY DEF Merge, UpdateDir, Bundle

LEMMA TarType ==
  ASSUME NEW t \in Tars
  PROVE  t.bundle \in Bundle
BY ConstantTypes DEF Tars

LEMMA DropType ==
  ASSUME NEW u \in UpdateDir, NEW f \in Files, NEW t
  PROVE  /\ [u EXCEPT !.img[f] = Absent] \in UpdateDir
         /\ [u EXCEPT !.md5[f] = Absent] \in UpdateDir
         /\ [u EXCEPT !.tars = @ \ {t}] \in UpdateDir
BY DEF UpdateDir

LEMMA AddType ==
  ASSUME NEW u \in UpdateDir, NEW t \in Tars
  PROVE  /\ [u EXCEPT !.tars = @ \cup {t}] \in UpdateDir
         /\ [u EXCEPT !.nocheck = TRUE] \in UpdateDir
BY DEF UpdateDir

LEMMA SizesAreNat ==
  ASSUME TypeOK
  PROVE  /\ OldKernel \in Nat /\ UsedBy(flash) \in Nat
         /\ \A q \in Parts : flash[q].size \in Nat
BY DEF TypeOK, UsedBy, OldKernel, Stored, Parts, Files

LEMMA NewSizeType ==
  ASSUME TypeOK, NEW f \in Files, upd.img[f] # Absent
  PROVE  NewSize(f) \in Nat /\ upd.img[f] \in Staged
BY ConstantTypes DEF TypeOK, NewSize, UpdateDir

LEMMA CopyType ==
  ASSUME TypeOK, NEW f \in Files, upd.img[f] # Absent, NEW room \in Nat
  PROVE  Copy(f, room) \in Stored
BY NewSizeType DEF Copy, Stored, Images

LEMMA CopySize ==
  ASSUME TypeOK, NEW f \in Files, upd.img[f] # Absent, NEW room \in Nat
  PROVE  /\ Copy(f, room).size \in Nat
         /\ Copy(f, room).size <= room /\ Copy(f, room).size <= NewSize(f)
         /\ Copy(f, room).img # Absent
BY NewSizeType, ImagesDistinct DEF Copy, Images

LEMMA SurvivorType ==
  ASSUME TypeOK, NEW p \in Parts, NEW s \in Survivors(p)
  PROVE  s \in Stored
<1>1. flash[p] \in Stored /\ disk[p] \in Stored
  BY DEF TypeOK
<1>2. Missing \in Stored
  BY DEF Missing, Stored
<1>3. [img: {Torn}, size: 0..flash[p].size] \subseteq Stored
  BY <1>1 DEF Images, Stored
<1> QED
  BY <1>1, <1>2, <1>3 DEF Survivors

LEMMA RoomType ==
  ASSUME TypeOK, MediaInv, NEW f \in OnFlash
  PROVE  FlashFree + flash[f].size \in Nat
BY SizesAreNat, ConstantTypes DEF MediaInv, FlashFree, OnFlash, Files, Parts

----------------------------------------------------------------------------
LEMMA IInvInit == Init => IInv
  <1> SUFFICES ASSUME Init PROVE IInv
    OBVIOUS
  <1>1. PICK r \in Releases : flash = Installed(r)
    BY DEF Init
  <1>2. flash \in [Parts -> Stored]
    BY <1>1, ConstantTypes DEF Installed, Parts, Files, Stored, Images, Staged
  <1>3. EmptyDir \in UpdateDir
    BY DEF EmptyDir, UpdateDir
  <1>4. TypeOK
    <2>1. 0 \in 0..MaxCuts /\ 0 \in 0..MaxCopies
      BY ConstantTypes
    <2> QED
      BY <1>2, <1>3, <2>1 DEF Init, TypeOK, PCs, Files
  <1>5. MediaInv
    BY <1>1, ImagesDistinct DEF Init, MediaInv, OnFlash, Files, Parts, Installed, Images, Staged
  <1>6. SourceInv /\ SpaceInv
    BY DEF Init, SourceInv, SpaceInv, Before, FirstHalf
  <1>7. DirInv
    BY DEF Init, DirInv, Whole, HasPair, EmptyDir, Files
  <1>8. PairInv
    BY <1>1 DEF Init, PairInv, PairKept, Good, FirstHalf, InWriteWindow, Installed, Parts, Files
  <1> QED
    BY <1>4, <1>5, <1>6, <1>7, <1>8 DEF IInv

LEMMA TypeNext == IInv /\ [Next]_vars => TypeOK'
  <1> SUFFICES ASSUME IInv, [Next]_vars PROVE TypeOK'
    OBVIOUS
  <1> TypeOK /\ MediaInv /\ SourceInv
    BY DEF IInv
  <1> USE DEF media, dirs, history, PCs, Steps, Resting, Goto
  <1>1. CASE PowerOn
    BY <1>1 DEF TypeOK, PowerOn
  <1>2. CASE CheckUpdate
    <2>1. upd.tars \subseteq Tars
      BY DEF TypeOK, UpdateDir
    <2> QED BY <1>2, <2>1 DEF TypeOK, CheckUpdate
  <1>3. CASE Extract
    <2>1. upd' \in UpdateDir
      BY <1>3, MergeType, TarType DEF TypeOK, SourceInv, Extract
    <2> QED BY <1>3, <2>1 DEF TypeOK, Extract
  <1>4. CASE RemoveTar
    BY <1>4, DropType DEF TypeOK, RemoveTar, Files
  <1>5. CASE Completeness
    BY <1>5 DEF TypeOK, Completeness, Sync
  <1>6. CASE Verify
    BY <1>6 DEF TypeOK, Verify
  <1>7. CASE SizeSyntaxError
    BY <1>7 DEF TypeOK, SizeSyntaxError
  <1>8. CASE WriteFile
    <2>1. cur \in OnFlash /\ cur \in Parts /\ cur \in Files
      BY <1>8 DEF WriteFile, ToPartition, OnFlash, TypeOK, Files, Parts
    <2>2. Copy(cur, FlashFree + flash[cur].size) \in Stored
      BY <1>8, <2>1, RoomType, CopyType DEF WriteFile, MayWrite
    <2>3. flash' \in [Parts -> Stored]
      BY <1>8, <2>1, <2>2 DEF WriteFile, TypeOK
    <2> QED BY <1>8, <2>1, <2>3 DEF TypeOK, WriteFile
  <1>9. CASE RemoveSource
    BY <1>9, DropType DEF TypeOK, RemoveSource
  <1>10. CASE SyncFile
    BY <1>10 DEF TypeOK, SyncFile, Sync, AfterFile, Files
  <1>11. CASE WritePartition
    <2>1. cur \in Parts /\ cur \in Files
      BY DEF TypeOK, Files, Parts
    <2>2. Copy(cur, PartitionCap) \in Stored
      BY <1>11, <2>1, CopyType, ConstantTypes DEF WritePartition, MayWrite
    <2>3. flash' \in [Parts -> Stored]
      BY <1>11, <2>1, <2>2 DEF WritePartition, TypeOK
    <2> QED BY <1>11, <2>1, <2>3 DEF TypeOK, WritePartition, AfterFile, Files
  <1>12. CASE SkipFile
    BY <1>12 DEF TypeOK, SkipFile, AfterFile, Files
  <1>13. CASE UpdateBootloader
    <2>1. flash["BOOT"] \in Stored /\ flash["SYSTEM"] \in Stored /\ "BOOT" \in Parts
      BY DEF TypeOK, Parts, Files
    <2>2. [flash EXCEPT !["BOOT"].img = flash["SYSTEM"].img] \in [Parts -> Stored]
      BY <2>1 DEF TypeOK, Stored
    <2> QED BY <1>13, <2>1, <2>2 DEF TypeOK, UpdateBootloader
  <1>14. CASE SyncBoot
    BY <1>14 DEF TypeOK, SyncBoot, Sync
  <1>15. CASE NoSysroot
    BY <1>15 DEF TypeOK, NoSysroot
  <1>16. CASE CleanStep
    <2>1. upd \in UpdateDir
      BY DEF TypeOK
    <2>2. upd' \in UpdateDir
      <3>1. CASE \E f \in Files : upd' = [upd EXCEPT !.img[f] = Absent]
        BY <2>1, <3>1, DropType
      <3>2. CASE \E f \in Files : upd' = [upd EXCEPT !.md5[f] = Absent]
        BY <2>1, <3>2, DropType
      <3>3. CASE \E t : upd' = [upd EXCEPT !.tars = @ \ {t}]
        BY <2>1, <3>3 DEF UpdateDir
      <3> QED
        BY <1>16, <3>1, <3>2, <3>3 DEF CleanStep, Visible
    <2> QED BY <1>16, <2>2 DEF TypeOK, CleanStep
  <1>17. CASE DoReboot
    BY <1>17 DEF TypeOK, DoReboot, Sync
  <1>18. CASE Refused
    BY <1>18 DEF TypeOK, Refused, Sync
  <1>19. CASE PrepareSysroot
    BY <1>19 DEF TypeOK, PrepareSysroot
  <1>20. CASE ExitShell
    BY <1>20 DEF TypeOK, ExitShell
  <1>21. ASSUME NEW u \in UpdateDir, Offer(u) PROVE TypeOK'
    BY <1>21, ConstantTypes DEF TypeOK, Offer
  <1>22. CASE CopyFiles \/ CopyTar \/ TouchNocheck
    <2>1. \A b \in Bundles : Merge(upd, b) \in UpdateDir
      BY MergeType, ConstantTypes DEF TypeOK
    <2>2. /\ upd \in UpdateDir
          /\ \A t \in Tars : [upd EXCEPT !.tars = @ \cup {t}] \in UpdateDir
      BY AddType DEF TypeOK
    <2>6. [upd EXCEPT !.nocheck = TRUE] \in UpdateDir
      BY <2>2 DEF UpdateDir
    <2>3. CASE CopyFiles
      BY <1>21, <2>1, <2>3 DEF CopyFiles
    <2>4. CASE CopyTar
      BY <1>21, <2>2, <2>4 DEF CopyTar
    <2>5. CASE TouchNocheck
      BY <1>21, <2>6, <2>5 DEF TouchNocheck
    <2> QED BY <1>22, <2>3, <2>4, <2>5
  <1>23. CASE UserReboot
    BY <1>23 DEF TypeOK, UserReboot, Sync
  <1>24. CASE Commit
    BY <1>24 DEF TypeOK, Commit
  <1>25. CASE PowerCut
    <2>1. flash' \in [Parts -> Stored]
      BY <1>25, SurvivorType DEF PowerCut, Parts, Files
    <2>2. cuts' \in 0..MaxCuts
      BY <1>25, ConstantTypes DEF PowerCut, TypeOK
    <2>3. interrupted' \in BOOLEAN
      BY <1>25 DEF PowerCut, TypeOK
    <2> QED BY <1>25, <2>1, <2>2, <2>3 DEF PowerCut, TypeOK, Files
  <1>26. CASE UNCHANGED vars
    BY <1>26 DEF TypeOK, vars
  <1> QED
    BY <1>1, <1>2, <1>3, <1>4, <1>5, <1>6, <1>7, <1>8, <1>9, <1>10, <1>11, <1>12,
       <1>13, <1>14, <1>15, <1>16, <1>17, <1>18, <1>19, <1>20, <1>22, <1>23,
       <1>24, <1>25, <1>26 DEF Next, InitStep, User

LEMMA MediaNext == IInv /\ [Next]_vars => MediaInv'
  <1> SUFFICES ASSUME IInv, [Next]_vars PROVE MediaInv'
    OBVIOUS
  <1> TypeOK /\ MediaInv /\ SourceInv
    BY DEF IInv
  <1> USE DEF media, dirs, history, Goto, MediaInv
  <1>1. CASE PowerOn \/ CheckUpdate \/ Extract \/ RemoveTar \/ Verify \/ SizeSyntaxError \/ NoSysroot \/ CleanStep \/ PrepareSysroot \/ ExitShell \/ CopyFiles \/ CopyTar \/ TouchNocheck \/ Commit
    BY <1>1
       DEF PowerOn, CheckUpdate, Extract, RemoveTar, Verify, SizeSyntaxError, NoSysroot, CleanStep, PrepareSysroot, ExitShell, CopyFiles, CopyTar, TouchNocheck, Commit, Offer
  <1>2. CASE RemoveSource \/ SkipFile
    BY <1>2
       DEF RemoveSource, SkipFile, AfterFile
  <1>3. CASE Completeness \/ SyncBoot \/ DoReboot \/ Refused \/ UserReboot
    BY <1>3
       DEF Completeness, SyncBoot, DoReboot, Refused, UserReboot, Sync
  <1>4. CASE SyncFile
    BY <1>4
       DEF SyncFile, Sync, AfterFile
  <1>5. CASE WriteFile
    <2> DEFINE room == FlashFree + flash[cur].size
    <2>1. cur \in OnFlash /\ cur \in Files /\ cur \in Parts
      BY <1>5 DEF WriteFile, ToPartition, OnFlash, TypeOK, Files, Parts
    <2>2. room \in Nat /\ Copy(cur, room) \in Stored
      BY <1>5, <2>1, RoomType, CopyType DEF WriteFile, MayWrite
    <2>3. Copy(cur, room).size <= room /\ Copy(cur, room).img # Absent
      BY <1>5, <2>1, <2>2, CopySize DEF WriteFile, MayWrite
    <2>4. flash' = [flash EXCEPT ![cur] = Copy(cur, room)] /\ disk' = disk
      BY <1>5 DEF WriteFile
    <2>5. UsedBy(flash') <= FlashCap
      <3>1. \A p \in Parts : flash[p].size \in Nat /\ flash'[p].size \in Nat
        BY <2>1, <2>2, <2>4 DEF TypeOK, Stored
      <3>2. flash'[cur].size <= FlashCap - UsedBy(flash) + flash[cur].size
        BY <2>1, <2>3, <2>4 DEF TypeOK, FlashFree
      <3>3. \A f \in Files \ {cur} : flash'[f] = flash[f]
        BY <2>1, <2>4 DEF TypeOK, Parts
      <3>4. CASE cur = "KERNEL"
        BY <2>1, <3>1, <3>2, <3>3, <3>4, ConstantTypes DEF UsedBy, OnFlash, Files, Parts
      <3>5. CASE cur = "SYSTEM"
        BY <2>1, <3>1, <3>2, <3>3, <3>5, ConstantTypes DEF UsedBy, OnFlash, Files, Parts
      <3> QED BY <2>1, <3>4, <3>5 DEF Files
    <2>6. \A f \in Files : flash'[f].img = Absent => flash'[f].size = 0
      BY <2>1, <2>3, <2>4 DEF TypeOK, Parts
    <2>7. dirty' = dirty \cup {cur} /\ pc' \in {"remove", "sync"} /\ cur' = cur
          /\ pc = "write"
      BY <1>5 DEF WriteFile
    <2>9. dirty' \cap OnFlash \subseteq {cur'}
      BY <2>7
    <2>10. UsedBy(disk') <= FlashCap
           /\ \A f \in Files : disk'[f].img = Absent => disk'[f].size = 0
      BY <2>4
    <2>8. \A p \in Parts \ dirty' : disk'[p] = flash'[p]
      BY <2>1, <2>4, <2>7 DEF TypeOK
    <2> QED BY <2>5, <2>6, <2>7, <2>8, <2>9, <2>10 DEF UsedBy
  <1>6. CASE WritePartition
    <2>1. /\ KernelOnPartition /\ cur = "KERNEL" /\ cur \in Files /\ cur \in Parts
          /\ flash' = [flash EXCEPT ![cur] = Copy(cur, PartitionCap)]
          /\ disk' = disk /\ dirty' = dirty \cup {cur} /\ pc = "write"
          /\ pc' = "write"
      BY <1>6 DEF WritePartition, ToPartition, AfterFile, Files, Parts
    <2>2. Copy(cur, PartitionCap).img # Absent
      BY <1>6, <2>1, CopySize, ConstantTypes DEF WritePartition, MayWrite
    <2>3. flash'["SYSTEM"] = flash["SYSTEM"]
      BY <2>1 DEF TypeOK, Parts, Files
    <2>4. \A f \in Files : flash'[f].img = Absent => flash'[f].size = 0
      BY <2>1, <2>2, <2>3 DEF TypeOK, Parts, Files
    <2>5. \A p \in Parts \ dirty' : disk'[p] = flash'[p]
      BY <2>1 DEF TypeOK
    <2>6. UsedBy(flash') = UsedBy(flash) /\ UsedBy(disk') = UsedBy(disk)
      BY <2>1, <2>3 DEF UsedBy
    <2>7. dirty' \cap OnFlash = dirty \cap OnFlash
      BY <2>1 DEF OnFlash
    <2> QED BY <2>1, <2>4, <2>5, <2>6, <2>7 DEF UsedBy
  <1>7. CASE UpdateBootloader
    <2>1. /\ \A f \in Files : flash'[f] = flash[f]
          /\ \A p \in Parts \ dirty' : flash'[p] = flash[p]
      BY <1>7 DEF UpdateBootloader, TypeOK, Files, Parts
    <2>2. UsedBy(flash') = UsedBy(flash)
      BY <2>1 DEF UsedBy, Files
    <2>3. /\ disk' = disk /\ dirty \subseteq dirty'
          /\ dirty' \cap OnFlash = dirty \cap OnFlash
          /\ pc = "bootloader" /\ pc' \notin {"remove", "sync"}
      BY <1>7 DEF UpdateBootloader, OnFlash, Files
    <2> QED BY <2>1, <2>2, <2>3 DEF UsedBy
  <1>8. CASE PowerCut
    <2>1. /\ \A p \in Parts : flash'[p] \in Survivors(p)
          /\ disk' = flash' /\ dirty' = {}
      BY <1>8 DEF PowerCut, Parts, Files
    <2>2. \A p \in Parts : flash'[p].size \in Nat /\ flash[p].size \in Nat
                            /\ disk[p].size \in Nat
      BY <2>1, SurvivorType DEF TypeOK, Stored
    <2>3. \A p \in Parts :
            flash'[p] = disk[p] \/ flash'[p].size <= flash[p].size
      <3>1. SUFFICES ASSUME NEW p \in Parts
                     PROVE  flash'[p] = disk[p] \/ flash'[p].size <= flash[p].size
        OBVIOUS
      <3>2. flash'[p].size \in Nat /\ flash[p].size \in Nat
        BY <2>2
      <3>3. CASE flash'[p] \in {flash[p], disk[p], Missing}
        BY <3>2, <3>3 DEF Missing
      <3>4. CASE flash'[p] \in [img: {Torn}, size: 0..flash[p].size]
        BY <3>2, <3>4
      <3> QED
        BY <2>1, <3>3, <3>4 DEF Survivors
    <2>4. \A p \in Parts \ dirty : flash'[p] = flash[p]
      BY <2>1 DEF Survivors
    <2>5. UsedBy(flash') <= FlashCap
      <3>1. CASE KernelOnPartition
        BY <2>2, <2>3, <3>1, ConstantTypes DEF UsedBy, Parts, Files
      <3>2. CASE ~KernelOnPartition
        <4>1. "KERNEL" \notin dirty \/ "SYSTEM" \notin dirty
          BY <3>2 DEF OnFlash, Files
        <4> QED
          BY <2>2, <2>3, <2>4, <3>2, <4>1, ConstantTypes DEF UsedBy, Parts, Files
      <3> QED BY <3>1, <3>2
    <2>6. \A f \in Files : flash'[f].img = Absent => flash'[f].size = 0
      <3>1. Torn # Absent
        BY ImagesDistinct DEF Images
      <3>2. SUFFICES ASSUME NEW f \in Files, flash'[f].img = Absent
                     PROVE  flash'[f].size = 0
        OBVIOUS
      <3>3. CASE flash'[f] \in [img: {Torn}, size: 0..flash[f].size]
        BY <3>1, <3>2, <3>3
      <3>4. CASE flash'[f] \in {flash[f], disk[f], Missing}
        BY <3>2, <3>4 DEF Missing
      <3> QED
        BY <2>1, <3>3, <3>4 DEF Survivors, Parts
    <2> QED BY <2>1, <2>5, <2>6 DEF UsedBy
  <1>9. CASE UNCHANGED vars
    BY <1>9 DEF vars
  <1> QED
    BY <1>1, <1>2, <1>3, <1>4, <1>5, <1>6, <1>7, <1>8, <1>9
       DEF Next, InitStep, User

LEMMA SourceNext == IInv /\ [Next]_vars => SourceInv'
  <1> SUFFICES ASSUME IInv, [Next]_vars PROVE SourceInv'
    OBVIOUS
  <1> TypeOK /\ MediaInv /\ SourceInv
    BY DEF IInv
  <1> USE DEF media, dirs, history, Goto, SourceInv, Before, FirstHalf
  <1>1. CASE PowerOn \/ Verify \/ SizeSyntaxError
    BY <1>1
       DEF PowerOn, Verify, SizeSyntaxError, HasPair
  <1>2. CASE NoSysroot \/ PrepareSysroot \/ ExitShell \/ Refused
           \/ DoReboot \/ SyncBoot \/ UserReboot \/ Commit \/ CleanStep
    BY <1>2
       DEF NoSysroot, PrepareSysroot, ExitShell, Refused, DoReboot, SyncBoot,
           UserReboot, Commit, CleanStep, Sync, HasPair
  <1>3. CASE CheckUpdate
    BY <1>3
       DEF CheckUpdate, HasPair, TypeOK, UpdateDir
  <1>4. CASE Extract \/ RemoveTar \/ Completeness
    BY <1>4
       DEF Extract, RemoveTar, Completeness, Sync, HasPair
  <1>5. CASE WriteFile
    BY <1>5
       DEF WriteFile, HasPair, MayWrite, ToPartition, TypeOK, Files, Parts
  <1>6. CASE RemoveSource
    BY <1>6
       DEF RemoveSource, TypeOK, UpdateDir, Files
  <1>7. CASE SyncFile
    BY <1>7
       DEF SyncFile, Sync, AfterFile, HasPair, Files, TypeOK
  <1>8. CASE WritePartition
    BY <1>8
       DEF WritePartition, AfterFile, HasPair, ToPartition, Files
  <1>9. CASE SkipFile
    BY <1>9
       DEF SkipFile, AfterFile, MayWrite, HasPair, Files, TypeOK
  <1>10. CASE UpdateBootloader
    BY <1>10
       DEF UpdateBootloader
  <1>11. CASE CopyFiles \/ CopyTar \/ TouchNocheck
    BY <1>11
       DEF CopyFiles, CopyTar, TouchNocheck, Offer
  <1>12. CASE PowerCut
    BY <1>12
       DEF PowerCut
  <1>13. CASE UNCHANGED vars
    BY <1>13 DEF vars
  <1> QED
    BY <1>1, <1>2, <1>3, <1>4, <1>5, <1>6, <1>7, <1>8, <1>9, <1>10, <1>11, <1>12, <1>13
       DEF Next, InitStep, User

LEMMA SpaceNext == IInv /\ [Next]_vars => SpaceInv'
  <1> SUFFICES ASSUME IInv, [Next]_vars PROVE SpaceInv'
    OBVIOUS
  <1> TypeOK /\ MediaInv /\ SourceInv /\ SpaceInv
    BY DEF IInv
  <1> USE DEF media, dirs, history, Goto, SpaceInv, FirstHalf
  <1>1. CASE PowerOn \/ CheckUpdate \/ Extract \/ RemoveTar \/ Completeness \/ SizeSyntaxError \/ Refused
           \/ PrepareSysroot \/ DoReboot \/ UserReboot \/ CopyFiles \/ CopyTar \/ TouchNocheck \/ PowerCut
    BY <1>1
       DEF PowerOn, CheckUpdate, Extract, RemoveTar, Completeness,
           SizeSyntaxError, Refused, PrepareSysroot, DoReboot, UserReboot,
           CopyFiles, CopyTar, TouchNocheck, PowerCut, Offer
  <1>2. CASE Verify
    BY <1>2
       DEF Verify, SizeOk, NewSize, OldKernel, FlashFree, UsedBy, SourceInv
  <1>3. CASE NoSysroot \/ ExitShell \/ SyncBoot \/ CleanStep \/ Commit
    BY <1>3
       DEF NoSysroot, ExitShell, SyncBoot, CleanStep, Commit, Sync, SizeOk,
           NewSize, OldKernel, FlashFree, UsedBy
  <1>4. CASE UpdateBootloader
    <2>1. \A f \in Files : flash'[f] = flash[f]
      BY <1>4 DEF UpdateBootloader, TypeOK, Files, Parts
    <2> QED
      BY <1>4, <2>1 DEF UpdateBootloader, FlashFree, UsedBy, Files
  <1>5. CASE RemoveSource
    <2>1. upd'.img["SYSTEM"] = upd.img["SYSTEM"] \/ cur = "SYSTEM"
      BY <1>5 DEF RemoveSource, TypeOK, UpdateDir, Files
    <2> QED
      BY <1>5, <2>1 DEF RemoveSource, FlashFree, UsedBy, OldKernel, NewSize
  <1>6. CASE SyncFile
    BY <1>6
       DEF SyncFile, Sync, AfterFile, FlashFree, UsedBy, OldKernel, NewSize,
           TypeOK, Files
  <1>7. CASE WriteFile
    <2> DEFINE room == FlashFree + flash[cur].size
    <2>1. cur \in OnFlash /\ cur \in Files /\ cur \in Parts
      BY <1>7 DEF WriteFile, ToPartition, OnFlash, TypeOK, Files, Parts
    <2>2. room \in Nat
      BY <2>1, RoomType
    <2>3. /\ pc = "write" /\ pc' \in {"remove", "sync"} /\ cur' = cur /\ upd' = upd
          /\ upd.img[cur] # Absent
          /\ flash' = [flash EXCEPT ![cur] = Copy(cur, room)]
      BY <1>7 DEF WriteFile, MayWrite
    <2>4. flash'[cur].size \in Nat /\ flash'[cur].size <= NewSize(cur)
      BY <2>1, <2>2, <2>3, CopySize DEF TypeOK
    <2>5. CASE cur = "KERNEL"
      <3>1. flash'["SYSTEM"] = flash["SYSTEM"] /\ ~KernelOnPartition
        BY <2>1, <2>3, <2>5 DEF TypeOK, Parts, Files, OnFlash
      <3>2. NewSize("KERNEL") \in Nat /\ NewSize("SYSTEM") \in Nat
        BY <2>3, <2>5, NewSizeType DEF SourceInv, HasPair, Files
      <3>3. FlashCap >= FlashFreeMin + NewSize("KERNEL") + NewSize("SYSTEM")
        BY <2>3, <2>5, <3>1, <3>2, SizesAreNat, ConstantTypes
           DEF SizeOk, OldKernel, FlashFree, UsedBy, Parts, Files
      <3>4. FlashCap >= FlashFreeMin + OldKernel' + NewSize("SYSTEM")'
        BY <2>3, <2>4, <2>5, <3>1, <3>2, <3>3, ConstantTypes DEF OldKernel, NewSize
      <3> QED BY <2>3, <2>5, <3>4
    <2>6. CASE cur = "SYSTEM"
      <3>1. flash'["KERNEL"] = flash["KERNEL"]
        BY <2>1, <2>3, <2>6 DEF TypeOK, Parts, Files
      <3>2. FlashCap >= FlashFreeMin + OldKernel + NewSize("SYSTEM")
        BY <2>3, <2>6
      <3>3. NewSize("SYSTEM") \in Nat
        BY <2>1, <2>3, <2>6, NewSizeType
      <3>4. FlashFree' >= FlashFreeMin
        BY <2>4, <2>6, <3>1, <3>2, <3>3, SizesAreNat, ConstantTypes
           DEF FlashFree, UsedBy, OldKernel
      <3> QED BY <2>3, <2>6, <3>4
    <2> QED BY <2>1, <2>5, <2>6 DEF Files
  <1>8. CASE WritePartition
    <2>1. /\ pc = "write" /\ pc' = "write" /\ cur = "KERNEL" /\ cur' = "SYSTEM"
          /\ upd' = upd /\ KernelOnPartition
      BY <1>8 DEF WritePartition, AfterFile, ToPartition
    <2>2. NewSize("KERNEL") \in Nat /\ NewSize("SYSTEM") \in Nat
      BY <2>1, NewSizeType DEF SourceInv, HasPair, Files
    <2>3. FlashCap >= FlashFreeMin + OldKernel' + NewSize("SYSTEM")'
      BY <2>1, <2>2, SizesAreNat, ConstantTypes
         DEF SizeOk, OldKernel, FlashFree, UsedBy, NewSize, Parts, Files
    <2> QED BY <2>1, <2>3
  <1>9. CASE SkipFile
    <2>1. cur = "SYSTEM"
      BY <1>9, ImagesDistinct
         DEF SkipFile, MayWrite, SourceInv, HasPair, TypeOK, Files, Images, Staged
    <2>2. flash["SYSTEM"].size = 0
      BY <1>9, <2>1 DEF SkipFile, MayWrite, SourceInv, FirstHalf, MediaInv, Files
    <2>3. pc = "write" /\ pc' = "bootloader" /\ flash' = flash
      BY <1>9, <2>1 DEF SkipFile, AfterFile
    <2>4. NewSize("SYSTEM") \in Nat
      BY <2>1, <2>3, NewSizeType DEF SourceInv, FirstHalf, Files
    <2>5. FlashFree >= FlashFreeMin
      BY <2>1, <2>2, <2>3, <2>4, SizesAreNat, ConstantTypes
         DEF FlashFree, UsedBy, OldKernel
    <2> QED BY <2>3, <2>5 DEF FlashFree, UsedBy
  <1>10. CASE UNCHANGED vars
    BY <1>10 DEF vars, SizeOk, NewSize, OldKernel, FlashFree, UsedBy
  <1> QED
    BY <1>1, <1>2, <1>3, <1>4, <1>5, <1>6, <1>7, <1>8, <1>9, <1>10
       DEF Next, InitStep, User

LEMMA MergeWhole ==
  ASSUME WholeBundles, NEW u \in UpdateDir, NEW b \in Bundles
  PROVE  Whole(Merge(u, b)) /\ Merge(u, b).nocheck = u.nocheck
<1>1. b \in Bundle
  BY ConstantTypes
<1>2. Merge(u, b).nocheck = u.nocheck
  BY DEF Merge, UpdateDir
<1>3. \A f \in Files : Merge(u, b).img[f] = b.img[f]
  BY <1>1 DEF Merge, UpdateDir, Bundle, WholeBundles
<1>4. b.img["KERNEL"] \in Releases /\ b.img["SYSTEM"] \in Releases
        => b.img["KERNEL"] = b.img["SYSTEM"]
  BY DEF WholeBundles
<1> QED
  BY <1>2, <1>3, <1>4 DEF Whole, Files

LEMMA DropWhole ==
  ASSUME NEW u \in UpdateDir, Whole(u), NEW f \in Files, NEW t
  PROVE  /\ Whole([u EXCEPT !.img[f] = Absent])
         /\ Whole([u EXCEPT !.md5[f] = Absent])
         /\ Whole([u EXCEPT !.tars = @ \ {t}])
         /\ Whole([u EXCEPT !.tars = @ \cup {t}])
         /\ Whole([u EXCEPT !.nocheck = TRUE])
BY DEF Whole, HasPair, UpdateDir

LEMMA DirNext == IInv /\ [Next]_vars => DirInv'
  <1> SUFFICES ASSUME IInv, [Next]_vars PROVE DirInv'
    OBVIOUS
  <1> TypeOK /\ SourceInv /\ DirInv
    BY DEF IInv
  <1> USE DEF media, dirs, history, Goto, DirInv
  <1>1. CASE PowerOn \/ CheckUpdate \/ Verify \/ SizeSyntaxError \/ WriteFile
           \/ WritePartition \/ SkipFile \/ UpdateBootloader \/ NoSysroot \/ ExitShell \/ PrepareSysroot
    BY <1>1
       DEF PowerOn, CheckUpdate, Verify, SizeSyntaxError, WriteFile,
           WritePartition, SkipFile, UpdateBootloader, NoSysroot, ExitShell,
           PrepareSysroot
  <1>2. CASE Completeness \/ SyncFile \/ SyncBoot
           \/ DoReboot \/ Refused \/ UserReboot
    BY <1>2
       DEF Completeness, SyncFile, SyncBoot, DoReboot, Refused, UserReboot,
           Sync
  <1>3. CASE Commit \/ PowerCut
    BY <1>3
       DEF Commit, PowerCut
  <1>4. CASE Extract
    <2>1. tar.bundle \in Bundles /\ upd' = Merge(upd, tar.bundle)
          /\ updDisk' = updDisk
      BY <1>4 DEF Extract, SourceInv, Tars
    <2>2. upd'.nocheck = upd.nocheck
      BY <2>1, ConstantTypes DEF Merge, TypeOK, UpdateDir
    <2> QED
      BY <2>1, <2>2, MergeWhole DEF TypeOK
  <1>5. CASE RemoveTar \/ RemoveSource \/ CleanStep
    <2>1. updDisk' = updDisk /\ upd \in UpdateDir
      BY <1>5 DEF RemoveTar, RemoveSource, CleanStep, TypeOK
    <2>2. \/ \E f \in Files : upd' = [upd EXCEPT !.img[f] = Absent]
          \/ \E f \in Files : upd' = [upd EXCEPT !.md5[f] = Absent]
          \/ \E t \in Tars  : upd' = [upd EXCEPT !.tars = @ \ {t}]
      BY <1>5 DEF RemoveTar, RemoveSource, CleanStep, TypeOK, Visible,
                 SourceInv, UpdateDir
    <2>3. upd'.nocheck = upd.nocheck
      BY <2>1, <2>2 DEF UpdateDir
    <2>4. WholeBundles => Whole(upd')
      BY <2>1, <2>2, DropWhole DEF Files
    <2> QED
      BY <2>1, <2>3, <2>4
  <1>6. CASE CopyFiles \/ CopyTar \/ TouchNocheck
    <2>1. upd' = updDisk' /\ upd \in UpdateDir
      BY <1>6 DEF CopyFiles, CopyTar, TouchNocheck, Offer, TypeOK
    <2>2. \/ \E b \in Bundles : upd' = Merge(upd, b)
          \/ \E t \in Tars : upd' = [upd EXCEPT !.tars = @ \cup {t}]
          \/ upd' = [upd EXCEPT !.nocheck = TRUE]
      BY <1>6 DEF CopyFiles, CopyTar, TouchNocheck, Offer
    <2>3. WholeBundles => Whole(upd')
      BY <2>1, <2>2, MergeWhole, DropWhole DEF Files
    <2> QED
      BY <2>1, <2>3
  <1>7. CASE UNCHANGED vars
    BY <1>7 DEF vars
  <1> QED
    BY <1>1, <1>2, <1>3, <1>4, <1>5, <1>6, <1>7
       DEF Next, InitStep, User

\* No .nocheck goes away (the glob of init l.488 leaves dot files).
LEMMA NoWaiver ==
  ASSUME IInv, [Next]_vars, ~upd'.nocheck
  PROVE  ~upd.nocheck
<1> USE DEF media, dirs, history
<1>1. ~upd'.nocheck /\ upd \in UpdateDir /\ DirInv
BY DEF Undisturbed, IInv, TypeOK
<1>2. CASE upd' = upd \/ upd' = updDisk
BY <1>1, <1>2 DEF DirInv
<1>3. ASSUME NEW b \in Bundles, upd' = Merge(upd, b) PROVE ~upd.nocheck
BY <1>1, <1>3 DEF Merge, UpdateDir
<1>4. CASE Extract \/ CopyFiles
<2>1. CASE Extract
  BY <1>3, <2>1 DEF Extract, Goto, IInv, SourceInv, Tars
<2>2. CASE CopyFiles
  BY <1>3, <2>2 DEF CopyFiles, Offer
<2> QED BY <1>4, <2>1, <2>2
<1>5. CASE RemoveTar \/ RemoveSource \/ CleanStep \/ CopyTar \/ TouchNocheck
BY <1>1, <1>5 DEF RemoveTar, RemoveSource, CleanStep, CopyTar,
                  TouchNocheck, Offer, UpdateDir
<1>6. CASE PowerCut \/ UNCHANGED vars
BY <1>2, <1>6 DEF PowerCut, vars
<1>7. CASE \/ PowerOn \/ CheckUpdate \/ Completeness \/ Verify
         \/ SizeSyntaxError \/ WriteFile \/ SyncFile \/ WritePartition
         \/ SkipFile \/ UpdateBootloader \/ SyncBoot \/ NoSysroot
         \/ DoReboot \/ Refused \/ PrepareSysroot \/ ExitShell
         \/ UserReboot \/ Commit
BY <1>2, <1>7 DEF PowerOn, CheckUpdate, Completeness, Verify,
     SizeSyntaxError, WriteFile, SyncFile, WritePartition, SkipFile,
     UpdateBootloader, SyncBoot, NoSysroot, DoReboot, Refused,
     PrepareSysroot, ExitShell, UserReboot, Commit, Sync
<1> QED
BY <1>4, <1>5, <1>6, <1>7 DEF Next, InitStep, User

\* Nothing is written to /flash in the step that makes .nocheck.
LEMMA WaiverAlone ==
  ASSUME IInv, [Next]_vars, upd'.nocheck # upd.nocheck
  PROVE  flash' = flash
<1> USE DEF media, dirs, history
<1>1. CASE CopyFiles \/ CopyTar \/ TouchNocheck
  BY <1>1 DEF CopyFiles, CopyTar, TouchNocheck, Offer
<1>2. CASE Extract \/ RemoveTar \/ CleanStep \/ RemoveSource
  BY <1>2 DEF Extract, RemoveTar, CleanStep, RemoveSource
<1>3. CASE \/ PowerOn \/ CheckUpdate \/ Completeness \/ Verify
           \/ SizeSyntaxError \/ WriteFile \/ SyncFile \/ WritePartition
           \/ SkipFile \/ UpdateBootloader \/ SyncBoot \/ NoSysroot
           \/ DoReboot \/ Refused \/ PrepareSysroot \/ ExitShell
           \/ UserReboot \/ Commit
  BY <1>3 DEF PowerOn, CheckUpdate, Completeness, Verify, SizeSyntaxError,
              WriteFile, SyncFile, WritePartition, SkipFile, UpdateBootloader,
              SyncBoot, NoSysroot, DoReboot, Refused, PrepareSysroot, ExitShell,
              UserReboot, Commit, Sync
<1>4. CASE PowerCut \/ UNCHANGED vars
  BY <1>4 DEF PowerCut, vars, IInv, DirInv
<1> QED
  BY <1>1, <1>2, <1>3, <1>4 DEF Next, InitStep, User

LEMMA StaysUndisturbed ==
  ASSUME IInv, [Next]_vars, Undisturbed'
  PROVE  Undisturbed
<1> USE DEF media, dirs, history
<1>1. KernelFits /\ WholeBundles
  BY DEF Undisturbed
<1>2. ~interrupted
  BY DEF Undisturbed, Next, InitStep, User, vars, PowerOn, CheckUpdate, Extract,
         RemoveTar, Completeness, Verify, SizeSyntaxError, WriteFile,
         RemoveSource, SyncFile, WritePartition, SkipFile, UpdateBootloader,
         SyncBoot, NoSysroot, CleanStep, DoReboot, Refused, PrepareSysroot,
         ExitShell, CopyFiles, CopyTar, TouchNocheck, Offer, UserReboot, Commit,
         PowerCut
<1>3. ~upd.nocheck
  BY NoWaiver DEF Undisturbed
<1> QED
  BY <1>1, <1>2, <1>3 DEF Undisturbed

LEMMA PairNext == IInv /\ [Next]_vars => PairInv'
  <1> SUFFICES ASSUME IInv, [Next]_vars, Undisturbed' PROVE PairKept'
    BY DEF PairInv
  <1> Undisturbed
    BY StaysUndisturbed
  <1> TypeOK /\ MediaInv /\ SourceInv /\ SpaceInv /\ DirInv /\ PairKept
    BY DEF IInv, PairInv
  <1> USE DEF media, dirs, history, Goto, PairKept, Good, FirstHalf, InWriteWindow
  <1>1. CASE PowerOn \/ CheckUpdate \/ SizeSyntaxError
           \/ NoSysroot \/ ExitShell \/ PrepareSysroot \/ Commit
    BY <1>1
       DEF PowerOn, CheckUpdate, SizeSyntaxError, NoSysroot, ExitShell,
           PrepareSysroot, Commit
  <1>2. CASE Extract \/ RemoveTar \/ CopyFiles
           \/ CopyTar \/ TouchNocheck \/ CleanStep
    BY <1>2
       DEF Extract, RemoveTar, CopyFiles, CopyTar, TouchNocheck, CleanStep,
           Offer
  <1>3. CASE Completeness \/ SyncBoot \/ DoReboot \/ Refused \/ UserReboot
    BY <1>3
       DEF Completeness, SyncBoot, DoReboot, Refused, UserReboot, Sync
  <1>4. CASE Verify
    <2>1. pc' = "write" => upd.img["SYSTEM"] = upd.img["KERNEL"]
                             /\ upd.img["SYSTEM"] \in Releases
      BY <1>4 DEF Verify, Md5Ok, Undisturbed, DirInv, Whole, SourceInv, Files
    <2> QED
      BY <1>4, <2>1 DEF Verify, SourceInv
  <1>5. CASE WriteFile
    <2> DEFINE room == FlashFree + flash[cur].size
    <2>1. cur \in OnFlash /\ cur \in Files /\ cur \in Parts
      BY <1>5 DEF WriteFile, ToPartition, OnFlash, TypeOK, Files, Parts
    <2>2. /\ pc = "write" /\ cur' = cur /\ upd' = upd /\ upd.img[cur] # Absent
          /\ flash' = [flash EXCEPT ![cur] = Copy(cur, room)]
          /\ pc' \in {"remove", "sync"}
      BY <1>5 DEF WriteFile, MayWrite
    <2>3. upd.img[cur] \in Releases /\ NewSize(cur) \in Nat
      BY <2>1, <2>2, NewSizeType DEF Files
    <2>4. NewSize(cur) <= room
      <3>1. CASE cur = "KERNEL"
        <4>1. ~KernelOnPartition
          BY <2>1, <3>1 DEF OnFlash
        <4>2. NewSize("KERNEL") + flash["SYSTEM"].size <= FlashCap
          BY <2>3, <3>1, <4>1 DEF Undisturbed, KernelFits, NewSize, Files
        <4> QED
          BY <2>3, <3>1, <4>1, <4>2, SizesAreNat, ConstantTypes
             DEF FlashFree, UsedBy, Parts, Files
      <3>2. CASE cur = "SYSTEM"
        BY <2>2, <2>3, <3>2, SizesAreNat, ConstantTypes
           DEF SpaceInv, FlashFree, UsedBy, OldKernel, Parts, Files
      <3> QED BY <2>1, <3>1, <3>2 DEF Files
    <2>5. flash'[cur] = [img |-> upd.img[cur], size |-> SizeOf[cur][upd.img[cur]]]
      BY <2>1, <2>2, <2>4 DEF Copy, NewSize, TypeOK
    <2>6. \A q \in Parts \ {cur} : flash'[q] = flash[q]
      BY <2>1, <2>2 DEF TypeOK
    <2>7. \A f \in Files : Good(f)'
      BY <2>1, <2>3, <2>5, <2>6 DEF Parts
    <2>8. flash'["BOOT"] = flash["BOOT"]
      BY <2>1, <2>6 DEF Parts, Files
    <2>9. CASE cur = "KERNEL"
      BY <2>1, <2>2, <2>5, <2>7, <2>8, <2>9
    <2>10. CASE cur = "SYSTEM"
      <3>1. flash'["KERNEL"] = flash["KERNEL"]
        BY <2>6, <2>10 DEF Parts, Files
      <3> QED BY <2>1, <2>2, <2>5, <2>7, <2>8, <2>10, <3>1
    <2> QED BY <2>1, <2>9, <2>10 DEF Files
  <1>6. CASE RemoveSource
    <2>1. cur = "KERNEL" => upd'.img["SYSTEM"] = upd.img["SYSTEM"]
      BY <1>6 DEF RemoveSource, TypeOK, UpdateDir, Files
    <2> QED
      BY <1>6, <2>1 DEF RemoveSource, TypeOK, Files
  <1>7. CASE SyncFile
    BY <1>7
       DEF SyncFile, AfterFile, Sync, TypeOK, Files
  <1>8. CASE WritePartition
    <2>1. /\ pc = "write" /\ pc' = "write" /\ cur = "KERNEL" /\ cur' = "SYSTEM"
          /\ upd' = upd /\ KernelOnPartition /\ cur \in Parts /\ cur \in Files
          /\ flash' = [flash EXCEPT ![cur] = Copy(cur, PartitionCap)]
      BY <1>8 DEF WritePartition, AfterFile, ToPartition, Parts, Files
    <2>2. upd.img[cur] \in Releases /\ NewSize(cur) <= PartitionCap
      BY <2>1 DEF Undisturbed, KernelFits, NewSize
    <2>3. flash'[cur] = [img |-> upd.img[cur], size |-> SizeOf[cur][upd.img[cur]]]
      BY <2>1, <2>2 DEF Copy, NewSize, TypeOK
    <2>4. flash'["SYSTEM"] = flash["SYSTEM"] /\ flash'["BOOT"] = flash["BOOT"]
      BY <2>1 DEF TypeOK, Parts, Files
    <2> QED
      BY <2>1, <2>2, <2>3, <2>4 DEF Files
  <1>9. CASE SkipFile
    <2>1. pc = "write" /\ ~MayWrite /\ cur \in Files
      BY <1>9 DEF SkipFile, TypeOK
    <2>2. upd.img[cur] # Absent
      BY <2>1 DEF SourceInv, HasPair, Files
    <2>3. flash[cur].img # Absent
      BY <2>1, ImagesDistinct DEF Images, Staged
    <2> QED BY <2>1, <2>2, <2>3 DEF MayWrite
  <1>10. CASE UpdateBootloader
    <2>1. \A f \in Files : flash'[f] = flash[f]
      BY <1>10 DEF UpdateBootloader, TypeOK, Files, Parts
    <2>2. flash'["BOOT"].img \in Releases
      BY <1>10 DEF UpdateBootloader, Mountable, TypeOK, Parts, Stored
    <2> QED
      BY <1>10, <2>1, <2>2 DEF UpdateBootloader, Files
  <1>11. CASE PowerCut
    <2>1. ~InWriteWindow
      BY <1>11 DEF PowerCut, Undisturbed
    <2>2. dirty = {}
      BY <2>1
    <2>3. \A q \in Parts : flash'[q] = flash[q]
      BY <1>11, <2>2 DEF PowerCut, Survivors, Parts, Files
    <2> QED
      BY <1>11, <2>1, <2>3 DEF PowerCut, Parts, Files
  <1>12. CASE UNCHANGED vars
    BY <1>12 DEF vars
  <1> QED
    BY <1>1, <1>2, <1>3, <1>4, <1>5, <1>6, <1>7, <1>8, <1>9, <1>10, <1>11, <1>12
       DEF Next, InitStep, User

----------------------------------------------------------------------------
LEMMA Inductive == Spec => []IInv
<1>1. IInv /\ [Next]_vars => IInv'
  BY TypeNext, MediaNext, SourceNext, SpaceNext, DirNext, PairNext DEF IInv
<1> QED
  BY IInvInit, <1>1, PTL DEF Spec

\* Every variable keeps its type; in particular, no file is ever larger than
\* the room there is for it.
THEOREM TypeCorrect == Spec => []TypeOK
BY Inductive, PTL DEF IInv

\* At least FLASH_FREE_MIN is free on /flash after every update (init l.464-475),
\* whatever the sizes of the releases and wherever the power was cut before.
THEOREM SpaceIsLeft == Spec => []FreeAfterUpdate
<1>1. IInv => FreeAfterUpdate
  BY DEF IInv, SpaceInv, FreeAfterUpdate
<1> QED
  BY Inductive, <1>1, PTL

\* Unless the power fails between the first write of an update and the sync of
\* its last (init l.481-487), kernel, SYSTEM and boot loader are intact and
\* kernel and SYSTEM belong together: for any releases, offers and number of
\* power cuts, given that nobody waives the checks and that kernels fit.
THEOREM PairStaysIntact == Spec => []PairIntact
<1>1. IInv => PairIntact
  BY DEF IInv, PairInv, PairKept, PairIntact, Undisturbed, Good, FirstHalf,
         InWriteWindow, Files
<1> QED
  BY Inductive, <1>1, PTL
----------------------------------------------------------------------------
(* What is written was verified.                                           *)

\* As long as nobody waived the checks, no corrupt image is on /flash, and what
\* is about to be written is what its checksums say.
VerifiedInv ==
  ~upd.nocheck =>
    /\ \A f \in Files : flash[f].img # Corrupt /\ disk[f].img # Corrupt
    /\ pc = "write" /\ cur = "KERNEL" => Md5Ok
    /\ FirstHalf => upd.img["SYSTEM"] \in Releases

LEMMA VerifiedInit == Init => VerifiedInv
  <1> SUFFICES ASSUME Init PROVE VerifiedInv
    OBVIOUS
  <1>1. PICK r \in Releases : flash = Installed(r)
    BY DEF Init
  <1>2. \A f \in Files : flash[f].img # Corrupt
    BY <1>1, ImagesDistinct DEF Installed, Parts
  <1> QED
    BY <1>2 DEF Init, VerifiedInv, FirstHalf

LEMMA CopyVerified ==
  ASSUME NEW f \in Files, NEW room, upd.img[f] \in Releases
  PROVE  Copy(f, room).img # Corrupt
BY ImagesDistinct DEF Copy, Staged

LEMMA VerifiedNext == IInv /\ VerifiedInv /\ [Next]_vars => VerifiedInv'
  <1> SUFFICES ASSUME IInv, VerifiedInv, [Next]_vars, ~upd'.nocheck
               PROVE  VerifiedInv'
    BY DEF VerifiedInv
  <1> ~upd.nocheck
    BY NoWaiver
  <1> TypeOK /\ MediaInv /\ SourceInv
    BY DEF IInv
  <1> USE DEF media, dirs, history, Goto, VerifiedInv, FirstHalf
  <1>1. CASE \/ PowerOn \/ CheckUpdate \/ SizeSyntaxError \/ NoSysroot
             \/ ExitShell \/ PrepareSysroot \/ Commit \/ Extract \/ RemoveTar
             \/ CopyFiles \/ CopyTar \/ TouchNocheck \/ CleanStep
    <2>1. flash' = flash /\ disk' = disk
      BY <1>1
         DEF PowerOn, CheckUpdate, SizeSyntaxError, NoSysroot, ExitShell,
             PrepareSysroot, Commit, Extract, RemoveTar, CopyFiles, CopyTar,
             TouchNocheck, CleanStep, Offer
    <2>2. \/ pc' \notin {"write", "remove", "sync"}
          \/ pc' = pc /\ cur' = cur /\ upd' = upd
      BY <1>1
         DEF PowerOn, CheckUpdate, SizeSyntaxError, NoSysroot, ExitShell,
             PrepareSysroot, Commit, Extract, RemoveTar, CopyFiles, CopyTar,
             TouchNocheck, CleanStep, Offer
    <2> QED
      BY <2>1, <2>2 DEF Md5Ok
  <1>2. CASE Completeness \/ SyncBoot \/ DoReboot \/ Refused \/ UserReboot
    BY <1>2
       DEF Completeness, SyncBoot, DoReboot, Refused, UserReboot, Sync
  <1>3. CASE Verify
    <2>1. cur = "KERNEL"
      BY <1>3 DEF Verify, SourceInv
    <2>2. pc' = "write" => Md5Ok
      BY <1>3 DEF Verify
    <2> QED
      BY <1>3, <2>1, <2>2 DEF Verify, Md5Ok
  <1>4. CASE WriteFile
    <2>1. /\ cur \in Files /\ cur \in Parts /\ pc = "write"
          /\ upd' = upd /\ cur' = cur /\ disk' = disk /\ pc' \in {"remove", "sync"}
          /\ flash' = [flash EXCEPT ![cur] = Copy(cur, FlashFree + flash[cur].size)]
      BY <1>4 DEF WriteFile, TypeOK, Files, Parts
    <2>2. upd.img[cur] \in Releases /\ upd.img["SYSTEM"] \in Releases
      BY <2>1 DEF Md5Ok, Files
    <2>3. \A f \in Files : flash'[f].img # Corrupt
      BY <2>1, <2>2, CopyVerified DEF TypeOK
    <2> QED
      BY <2>1, <2>2, <2>3
  <1>5. CASE RemoveSource
    <2>1. cur = "KERNEL" => upd'.img["SYSTEM"] = upd.img["SYSTEM"]
      BY <1>5 DEF RemoveSource, TypeOK, UpdateDir, Files
    <2> QED
      BY <1>5, <2>1 DEF RemoveSource, TypeOK, Files
  <1>6. CASE SyncFile
    BY <1>6 DEF SyncFile, AfterFile, Sync, TypeOK, Files
  <1>7. CASE WritePartition
    <2>1. /\ cur = "KERNEL" /\ cur \in Parts /\ pc = "write" /\ pc' = "write"
          /\ upd' = upd /\ cur' = "SYSTEM" /\ disk' = disk
          /\ flash' = [flash EXCEPT ![cur] = Copy(cur, PartitionCap)]
      BY <1>7 DEF WritePartition, AfterFile, ToPartition, Files, Parts
    <2>2. upd.img["KERNEL"] \in Releases /\ upd.img["SYSTEM"] \in Releases
      BY <2>1 DEF Md5Ok, Files
    <2>3. \A f \in Files : flash'[f].img # Corrupt
      BY <2>1, <2>2, CopyVerified DEF TypeOK, Files
    <2> QED
      BY <2>1, <2>2, <2>3
  <1>8. CASE SkipFile
    <2>1. cur = "KERNEL" => upd.img["SYSTEM"] \in Releases
      BY <1>8 DEF SkipFile, Md5Ok, Files
    <2> QED
      BY <1>8, <2>1 DEF SkipFile, AfterFile, TypeOK, Files
  <1>9. CASE UpdateBootloader
    <2>1. \A f \in Files : flash'[f] = flash[f]
      BY <1>9 DEF UpdateBootloader, TypeOK, Files, Parts
    <2> QED
      BY <1>9, <2>1 DEF UpdateBootloader, Files
  <1>10. CASE PowerCut
    <2>1. pc' = "off" /\ disk' = flash'
      BY <1>10 DEF PowerCut
    <2>2. \A f \in Files : \E s \in Survivors(f) : flash'[f] = s
      BY <1>10 DEF PowerCut, Files, Parts
    <2>3. \A f \in Files : \A s \in Survivors(f) : s.img # Corrupt
      BY ImagesDistinct DEF Survivors, Missing, Images, Staged
    <2> QED
      BY <2>1, <2>2, <2>3
  <1>11. CASE UNCHANGED vars
    BY <1>11 DEF vars, Md5Ok
  <1> QED
    BY <1>1, <1>2, <1>3, <1>4, <1>5, <1>6, <1>7, <1>8, <1>9, <1>10, <1>11
       DEF Next, InitStep, User

LEMMA VerifiedInductive == Spec => [](IInv /\ VerifiedInv)
  <1>1. Spec => []IInv
    BY Inductive
  <1> QED
    BY <1>1, VerifiedInit, VerifiedNext, PTL DEF Spec

\* No step of a write window, of a boot or of a power cut puts an image on /flash
\* that is not what its checksum says (init l.428-449), unless .nocheck waives the
\* check: for any bundles, whole or not, archives, leftovers and power cuts.
THEOREM WhatIsWrittenIsVerified == Spec => OnlyVerifiedImages
  <1>1. IInv /\ VerifiedInv /\ VerifiedInv' /\ [Next]_vars
          => [\A f \in Files : flash'[f].img = Corrupt /\ flash[f].img # Corrupt
                => upd.nocheck]_vars
    <2> SUFFICES ASSUME IInv, VerifiedInv, VerifiedInv', [Next]_vars,
                        NEW f \in Files, flash'[f].img = Corrupt, ~upd.nocheck
                 PROVE  flash[f].img = Corrupt
      OBVIOUS
    <2>1. upd'.nocheck
      BY DEF VerifiedInv
    <2>2. upd'.nocheck # upd.nocheck => flash' = flash
      BY WaiverAlone
    <2> QED
      BY <2>1, <2>2
  <1> QED
    BY <1>1, VerifiedInductive, PTL DEF Spec, OnlyVerifiedImages

----------------------------------------------------------------------------
(* FlashUpdate implements UpdatePromise.                                   *)

Offered == {r \in Releases : \A f \in Files : upd.img[f] = r /\ upd.md5[f] = r}

LEMMA PromiseInit == Init => Promise!Init
  <1> SUFFICES ASSUME Init PROVE Promise!Init
    OBVIOUS
  <1>1. PICK r \in Releases : flash = Installed(r)
    BY DEF Init
  <1>2. flash["KERNEL"].img \in Releases
    BY <1>1 DEF Installed, Parts, Files
  <1>3. Offered = {}
    <2>1. upd.img["KERNEL"] = Absent /\ Absent \notin Releases
      BY ImagesDistinct DEF Init, EmptyDir, Files, Images, Staged
    <2> QED
      BY <2>1 DEF Offered, Files
  <1> QED
    BY <1>2, <1>3 DEF Promise!Init, Init, EmptyDir, Offered

\* A kernel that is about to be written has room.
LEMMA KernelFitsNow ==
  ASSUME IInv, Undisturbed, pc = "write", cur = "KERNEL"
  PROVE  /\ upd.img["KERNEL"] \in Releases /\ upd.img["SYSTEM"] = upd.img["KERNEL"]
         /\ NewSize("KERNEL") <= IF KernelOnPartition THEN PartitionCap
                                 ELSE FlashFree + flash["KERNEL"].size
  <1> TypeOK /\ PairKept
    BY DEF IInv, PairInv
  <1>1. upd.img["KERNEL"] \in Releases /\ upd.img["SYSTEM"] = upd.img["KERNEL"]
    BY DEF PairKept
  <1>2. flash["SYSTEM"].img \in Releases
        /\ flash["SYSTEM"].size = SizeOf["SYSTEM"][flash["SYSTEM"].img]
    BY DEF PairKept, Good, Files
  <1>3. upd.img["KERNEL"] # Absent /\ NewSize("KERNEL") \in Nat
    BY <1>1, ImagesDistinct, NewSizeType DEF Images, Staged, Files
  <1>4. CASE KernelOnPartition
    BY <1>1, <1>4 DEF Undisturbed, KernelFits, NewSize
  <1>5. CASE ~KernelOnPartition
    <2>1. NewSize("KERNEL") + flash["SYSTEM"].size <= FlashCap
      BY <1>1, <1>2, <1>5 DEF Undisturbed, KernelFits, NewSize
    <2> QED
      BY <1>1, <1>3, <1>5, <2>1, SizesAreNat, ConstantTypes
         DEF FlashFree, UsedBy, Parts, Files
  <1> QED BY <1>4, <1>5

\* Until the promise is void, the kernel on /flash changes only when the update
\* writes it, and then it becomes one that is offered.
LEMMA KernelChanges ==
  ASSUME IInv, VerifiedInv, [Next]_vars, Undisturbed, Undisturbed'
  PROVE  \/ flash'["KERNEL"].img = flash["KERNEL"].img
         \/ /\ flash'["KERNEL"].img \in Offered
            /\ upd' = upd /\ pc = "write" /\ pc' # "running"
  <1> TypeOK /\ MediaInv /\ PairKept /\ DirInv /\ ~upd.nocheck
    BY DEF IInv, PairInv, Undisturbed
  <1> USE DEF media, dirs, history, Goto
  <1>1. CASE WriteFile \/ WritePartition
    <2>1. PICK room \in Nat :
            /\ pc = "write" /\ pc' # "running" /\ upd' = upd
            /\ flash' = [flash EXCEPT ![cur] = Copy(cur, room)]
            /\ cur = "KERNEL" => NewSize(cur) <= room
      <3>1. CASE WriteFile
        <4>1. pc = "write" /\ pc' # "running" /\ upd' = upd /\ cur \in OnFlash
          BY <1>1, <3>1 DEF WriteFile, ToPartition, OnFlash, TypeOK, Files
        <4>2. FlashFree + flash[cur].size \in Nat
          BY <4>1, RoomType
        <4>3. cur = "KERNEL" => NewSize(cur) <= FlashFree + flash[cur].size
          <5> SUFFICES ASSUME cur = "KERNEL"
                       PROVE  NewSize("KERNEL") <= FlashFree + flash["KERNEL"].size
            OBVIOUS
          <5>1. ~KernelOnPartition
            BY <3>1 DEF WriteFile, ToPartition
          <5> QED
            BY <4>1, <5>1, KernelFitsNow
        <4> QED
          BY <3>1, <4>1, <4>2, <4>3 DEF WriteFile
      <3>2. CASE WritePartition
        <4>1. cur = "KERNEL" => NewSize(cur) <= PartitionCap
          BY <3>2, KernelFitsNow DEF WritePartition, ToPartition
        <4> QED
          BY <3>2, <4>1, ConstantTypes DEF WritePartition, AfterFile
      <3> QED BY <1>1, <3>1, <3>2
    <2>2. CASE cur = "KERNEL"
      <3>1. flash'["KERNEL"].img = upd.img["KERNEL"]
        BY <2>1, <2>2 DEF Copy, TypeOK, Parts, Files
      <3>2. upd.img["KERNEL"] \in Offered
        BY <2>1, <2>2 DEF VerifiedInv, Md5Ok, Offered, DirInv, Whole, PairKept, Undisturbed, Files
      <3> QED BY <2>1, <3>1, <3>2
    <2>3. CASE cur = "SYSTEM"
      BY <2>1, <2>3 DEF TypeOK, Parts, Files
    <2> QED BY <2>2, <2>3 DEF TypeOK, Files
  <1>2. CASE UpdateBootloader
    BY <1>2 DEF UpdateBootloader, TypeOK, Parts, Files
  <1>3. CASE PowerCut
    <2>1. dirty = {}
      BY <1>3 DEF PowerCut, Undisturbed, PairKept
    <2> QED
      BY <1>3, <2>1 DEF PowerCut, Survivors, Parts, Files
  <1>4. CASE \/ PowerOn \/ CheckUpdate \/ Extract \/ RemoveTar \/ Completeness
             \/ Verify \/ SizeSyntaxError \/ RemoveSource \/ SyncFile \/ SkipFile
             \/ SyncBoot \/ NoSysroot \/ CleanStep \/ DoReboot \/ Refused
             \/ PrepareSysroot \/ User \/ Commit \/ UNCHANGED vars
    BY <1>4
       DEF PowerOn, CheckUpdate, Extract, RemoveTar, Completeness, Verify,
           SizeSyntaxError, RemoveSource, SyncFile, SkipFile, SyncBoot,
           NoSysroot, CleanStep, DoReboot, Refused, PrepareSysroot, User,
           ExitShell, CopyFiles, CopyTar, TouchNocheck, Offer, UserReboot,
           Commit, Sync, vars
  <1> QED
    BY <1>1, <1>2, <1>3, <1>4 DEF Next, InitStep

\* The system comes up, or goes down, in a step that leaves /flash alone; it
\* comes up with what is offered as it was.
LEMMA ComesUp ==
  ASSUME IInv, [Next]_vars, pc # "running", pc' = "running"
  PROVE  Offered' = Offered
<1> USE DEF media, dirs, history, Goto
<1>1. PrepareSysroot
  BY DEF Next, InitStep, User, vars, PowerOn, CheckUpdate, Extract,
         RemoveTar, Completeness, Verify, SizeSyntaxError, WriteFile,
         RemoveSource, SyncFile, WritePartition, SkipFile, UpdateBootloader,
         SyncBoot, NoSysroot, CleanStep, DoReboot, Refused, PrepareSysroot,
         ExitShell, CopyFiles, CopyTar, TouchNocheck, Offer, UserReboot, Commit,
         PowerCut, AfterFile
<1> QED
  BY <1>1 DEF PrepareSysroot, Offered

\* Each step of the update is one that UpdatePromise allows, or a stutter, if
\* kernels fit and bundles are whole (KernelFits, WholeBundles).
LEMMA PromiseNext ==
  ASSUME KernelFits, WholeBundles, IInv, VerifiedInv, [Next]_vars
  PROVE  [Promise!Kept \/ Promise!Void]_(Promise!promised)
  <1>1. CASE interrupted' \/ upd'.nocheck
    BY <1>1 DEF Promise!Void
  <1>2. CASE ~interrupted' /\ ~upd'.nocheck
    <2>1. Undisturbed' /\ Undisturbed
      BY <1>2, StaysUndisturbed DEF Undisturbed
    <2>2. ~(interrupted \/ upd.nocheck) /\ ~(interrupted' \/ upd'.nocheck)
      BY <2>1, <1>2 DEF Undisturbed
    <2>3. Offered \in SUBSET Releases /\ Offered' \in SUBSET Releases
      BY DEF Offered
    <2>4. CASE flash'["KERNEL"].img # flash["KERNEL"].img
      <3>1. /\ flash'["KERNEL"].img \in Offered /\ Offered' = Offered
            /\ pc # "running" /\ pc' # "running"
        BY <2>1, <2>4, KernelChanges DEF Offered
      <3> QED
        BY <2>2, <3>1 DEF Promise!Kept, Promise!Install, Offered
    <2>5. CASE flash'["KERNEL"].img = flash["KERNEL"].img
      <3>1. CASE pc # "running" /\ pc' = "running"
        BY <2>2, <2>5, <3>1, ComesUp DEF Promise!Kept, Promise!Start, Offered
      <3>2. CASE pc = "running" /\ pc' # "running"
        BY <2>2, <2>3, <2>5, <3>2 DEF Promise!Kept, Promise!Stop, Offered
      <3>3. CASE (pc = "running") <=> (pc' = "running")
        BY <2>2, <2>3, <2>5, <3>3 DEF Promise!Kept, Promise!Stage, Offered
      <3> QED BY <3>1, <3>2, <3>3
    <2> QED BY <2>4, <2>5
  <1> QED BY <1>1, <1>2

\* The update of init l.402-491 does what UpdatePromise says a user may expect: a
\* release replaces another while the device is not up, in one step, and only one
\* that was offered whole with its checksums; for any releases, offers, archives
\* and power cuts, until a cut in a write window or .nocheck makes it void.
THEOREM UpdateKeepsPromise ==
  ASSUME KernelFits, WholeBundles
  PROVE  Spec => KeepsPromise
  <1>1. IInv /\ VerifiedInv /\ [Next]_vars
          => [Promise!Kept \/ Promise!Void]_(Promise!promised)
    BY PromiseNext
  <1> QED
    BY <1>1, PromiseInit, VerifiedInductive, PTL DEF Spec, KeepsPromise, Promise!Spec

=============================================================================
