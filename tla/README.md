# OpenELEC: a TLA+ model of its installer, update, maintenance, drivers and build

OpenELEC is a Linux distribution that turns a computer into a media center. Its
repository is a build system with 415 package recipes, and a set of scripts that
run on the device. Most of its bulk is data: recipes, patches for other projects,
kernel configurations, firmware. The repository's own logic is in shell scripts,
and it is at its most delicate where these scripts change persistent state: the
images on the boot partition, the partitions and files of `/storage`, the stamps
that the build keeps between its runs, files shared by several processes.

Paths below are relative to the repository. `init` is
`packages/sysutils/busybox/scripts/init`.

## Inventory

| component | state it keeps | operations | what is hard about it |
|---|---|---|---|
| **initramfs update** (`init`, `check_update` and what it calls) | `KERNEL`, `SYSTEM` and the boot loader on the boot partition; the offered update in `/storage/.update` | unpack an archive, check sizes and sums, replace kernel and SYSTEM, update the boot loader, clean up, reboot | power may fail at any step; two file systems and a page cache; space; leftovers of an earlier offer; statuses that nobody looks at |
| **initramfs boot sequence** (`init`) | which disks are there and mounted; the state of the file systems | check disks, repair, mount with retries, debug shell, choose the unit that systemd starts | exit codes that are sets of bits; disks that appear late; reboot loops |
| **storage maintenance** (`fs-resize`, `factory-reset`, `backup-restore`) | markers and archives on `/storage`, its partition and file system, the user's settings | grow the partition, format or empty `/storage`, restore an archive | each removes what asked for it at some point of its work; markers may be combined; power cuts |
| **build system** (`scripts/image`, `install`, `build`, `unpack`, `clean`, `uninstall`, `skip_unpack`) | unpacked trees, products, three kinds of stamp, the image's root directory | the scripts call each other recursively over the packages' dependencies | a stamp must not outlive what it vouches for: edits during a run, interrupted runs, trees shared by the items of a package, a cleanup pattern that matches other packages |
| **source download** (`scripts/get`) | files and their `.url` stamps in `sources/<package>` | lock, skip, download with retries from two servers, stamp | several builds share the directory; partial downloads; kills |
| **HDHomeRun driver** (`userspace-driver.sh`, its sleep hook, `vdr.start`) | a lock file, the daemon | lock, start the daemon unless it runs, unlock and remove the lock file | a lock file that is removed; a descriptor that children inherit; sourcing scripts |
| **installer** (`packages/tools/installer/scripts/installer`) | partition tables, file systems and files of the disks it finds; its two mount points | list the disks, confirm twice, partition, format, copy; or replace the two images | a list of commands whose statuses nobody looks at; disks that stay mounted; space; power cuts and repeated attempts |
| **Bluetooth firmware loader** (`packages/linux-firmware/brcm_patchram`: `brcm_patchram_plus.c` and its two services) | the rate of the serial line, what was sent and read; on the other end the chip's memory, rate and settings | parse the arguments, open the line, reset, set the rate, download the firmware and start it, make the settings, hand the line to the kernel | answers that come byte by byte; a chip that misses commands, or answers late; a chip that starts anew in the middle, at its first rate; reads and answers that nobody looks at; a second start of the service |
| Sundtek driver (`sundtek-update-driver.sh`, `userspace-driver.sh`) | the driver's files and version | download, check, replace, restart | interrupted replacement, unanswered downloads |
| NOOBS setup (`config/noobs/partition_setup.sh`) | mount points, `cmdline.txt` | mount, edit, unmount | an `exit` that leaves only a subshell |
| boot loader updates (`update.sh` of u-boot, bcm2835, WeTek) | boot files, raw boot sectors | compare, replace | no order of writes is safe against a cut |
| suspend and resume (`99-suspend-modules.sh`, `openelec-sleep.sh`) | a list of unloaded modules and stopped services | stop and unload before, load and start after | a list that survives a failed suspend |
| services and wrappers, release packaging, add-on settings | configuration files | straight-line, one shot | little |

How they interact: `init` runs first at every boot. It checks and mounts the boot
partition and `/storage`, performs a waiting update and reboots, or goes on and
selects a maintenance unit by what lies on `/storage`; each such unit ends in a
reboot, so that `init` comes to choose again. The installer is what a device starts
with that boots from its medium: it makes the two partitions with the labels by
which `init` will look for them. The running system, and with it the user, writes
markers, archives and updates for the next boot. The driver scripts are started by
services in parallel; the Bluetooth loader by udev and systemd, one for each chip,
on a line that it has to itself until it hands it over. The build scripts are a
separate world: they make the images that an update consists of.

What makes the components correct:

* an update leaves a device that boots, with a kernel and a SYSTEM of the same
  release, or else the release it had; what it installs was offered and checked;
  what it accepted, it installs; boots end;
* a boot mounts nothing that is known to be damaged; maintenance does what was
  asked for, and nothing else, to the settings; `/storage` can be found again
  after it; no device in use is repartitioned;
* a stamp that says "up to date" tells the truth; an image holds current packages;
* nobody unpacks a partial download; waiting for a lock ends; locks exclude;
* the installer writes the disk that was chosen, none other, and whatever was tried
  before, an attempt without a failing command succeeds;
* the loader and its chip stay in step, and the chip starts no firmware but a
  complete one; in the end it is set up as the arguments say.

## The modules

| module | what it is |
|---|---|
| `FlashUpdate` | the initramfs update with the storage below it, the user and the power |
| `UpdatePromise` | what a user may expect of an update, in four actions |
| `StorageCare` | the boot sequence around the update, and the three maintenance units |
| `BuildStamps` | the build system and its stamps |
| `SourceGet` | downloads into a shared directory |
| `HdhrLock` | the HDHomeRun driver's lock file |
| `Installer` | the installer with the disks of the machine |
| `PatchRam` | the Bluetooth firmware loader, the serial line and the chip |
| `MC...` | the constants of the instances that TLC checks |
| `...Proofs` | theorems and their proofs |

`FlashUpdate` implements `UpdatePromise` (property `KeepsPromise`). `StorageCare`
treats the update as done elsewhere: between the mounts and the choice of the unit
nothing happens in it, because a successful update reboots and a refused one
changes nothing that `StorageCare` looks at. `SourceGet` and `BuildStamps` meet in
`scripts/unpack`, which calls `get` and then unpacks: `UnpacksWhole` is what
`BuildStamps` takes for granted when its `Extract` finds the sources.

### FlashUpdate

`pc` is the place in `check_update`; `flash` is the boot partition as the running
kernel sees it and `disk` as the last `sync` left it, `dirty` the parts that differ;
`upd` is `/storage/.update` and `updDisk` what its journal holds. Each statement of
the script that changes one of them is an action: `Extract`, `RemoveTar`, `Verify`
(both checks, and the decision), `WriteFile` and `RemoveSource` (the two halves of
`mv` between file systems), `WritePartition` (`dd`), `SyncFile`,
`UpdateBootloader`, `CleanStep` (one file at a time of the final `rm`), `DoReboot`.
`PowerCut` may come between any two and leaves of a dirty part the old version, the
new one, a beginning or nothing. `/storage` is a journalled file system: `Commit`
makes its changes durable, in order, at any time.

Abstractions. A file is the release it belongs to, or `Corrupt`, `Torn`, `Absent`;
an `.md5` file is the release it vouches for. Sizes are small numbers, because the
size check and a full partition are part of the behaviour. The extraction of the
archive into `.tmp` and the move from there are one step: a cut before its end
leaves the archive, which is unpacked again. The boot loader's size is ignored, its
update is one write. A missing `/flash/SYSTEM` makes the sum in the size check
`a++b`; depending on the shell this is a syntax error, so both outcomes are
possible (`SizeSyntaxError`). What the user copies counts as durable when he is
done.

### StorageCare

`damage`, `part`, `fs` and `store` are the disks, the second partition, its file
system and what is on it: the user's settings as one value, the markers, the
archives. `storeDisk` is what the journal has, and `unsynced` says that the data of
restored files may still be in the page cache only, while their names are on disk.
`CheckDisks` looks at the status of `fsck -p` with the masks of `init`, in their
order. It is one call for all disks (l.359): `Reached` says which of them it comes to.
A device that is not there adds its 8 to the status and the others are checked; a LABEL
or UUID that cannot be resolved ends `fsck` with 8 before it looks at any disk, no mask
has that bit, and the disks that are there are mounted unchecked. The history variable
`checked` has the disks it came to in this boot. `Repairs` says that `fsck`
repairs what its status says; without it a file system may ask for a reboot again and
again. `Found` says whether a disk can be found, which fails while it has not
appeared, while there is no partition, or while the new file system has no label
yet. `Unit` is the choice of the unit. Then each unit has its own actions, one per
step that changes anything, with the failures that the scripts ignore
(`StorageBusy`, `PartitionBusy`, a `tar` without room).

The history variable `had` is what was on disk when the system was last left, so
that `OnlyAskedFor` can relate the next start to it. `cutIn` collects the windows
in which the power failed and in which the code gives no guarantee: while a
partition or a file system is being made, and while settings are removed or have
not been synced. Only cuts in these windows are excused, and each is excused only
for the property that it concerns.

Abstractions. The command line, kernel modules, splash and the live mode (tmpfs)
are left out. The archives are numbers, in the order of their names, which are
dates. There are two disks, boot and storage.

### BuildStamps

The scripts call each other; a run is a call stack, a sequence of frames that hold
the script, the step and what a loop has left to do. `tree`, `product`, `stamp`,
`image` and `installed` are the files that survive. A version stands for the state
of a package's directory, for its checksum and for what is made of it. A build reads
that directory more than once: `unpack` when it unpacks and patches, `build` when it
sources `package.mk` (l.82, kept in the frame as `recipe`) and again while it makes the
package, and for the checksum in the stamp (l.350). `Make` puts together what was read:
a product of two versions is `Partial`, also when an edit was taken back before the
stamp was written.

The developer may edit any package at any time, build, clean and uninstall by hand;
`Abort` ends a run at any step. `uninstall` is two steps: `make uninstall`, which takes
the product out of the toolchain or the sysroot (`UninstallRemove`), and the `rm` of the
stamp (`UninstallUnstamp`). In between, the stamp tells of what is gone
(`Uninstalling`), and an abort leaves it so: the package counts as spoiled.

`clean` removes the trees that match `$BUILD/$1-*` unless their stamp says they
belong to another package: `Shadowed` says for which packages that pattern matches
another one's tree, and a tree without a stamp cannot defend itself. That is a tree that
was not unpacked to the end, which the next `unpack` does from the start, and the tree of
a package without sources, which never has that stamp: `clean` of `vdr` takes `vdr-addon`
away and leaves its build stamp, and `build` takes the package for built (`lost` in
`CleanEnd`).

The history variable `spoiled` names the packages of which the stamps do not tell the
truth. There are six ways for that, listed above the properties: an edit in a window where
no stamp can tell (`InWindow`: the checksum is taken when the script ends, so that
an edit while `unpack` works on the package, or while `build` does if the package has no
tree with a stamp of its own, is taken for used); a build that read two versions;
`skip_unpack`; a `clean` that was interrupted; an `uninstall` that was; and the loss of a
package without sources. A package is no longer spoiled when it is built from the start or
cleaned; one without sources when its one item is built, and with two items the other
one's product may still be of before. But for these six the stamps are exact.

`Assumptions` has the types of the constants, that the special values differ from the
versions, and that no item depends on itself (`AllDeps`): `build` keeps no list of what it
is working on, and would call itself for ever. Any packages may shadow any others,
with sources or without.

Abstractions. Dependencies are taken in any order, where the scripts have a list.
The targets `init` and `bootstrap`, `PKG_ARCH` and `PKG_NEED_UNPACK` are left out
(the last is one more directory in the checksum). `make uninstall` is taken to remove the
product or a part of it, which is the same to a stamp; that a package without that
target makes it fail, and ends the script with the stamp in place, is an abort.

### SourceGet

One process per project that builds at the same time: lock the directory, look at
each URL, skip it if its stamp is there, else remove the stamp, download with up to
`MaxTries` attempts, stamp. `wget -c` goes on with what it finds (`Continued`),
which is wrong if the part is of another file of the same name: the properties have
`DistinctNames` as their precondition. The git branch of `get`, which takes the
same lock, and the `.md5` files, which nobody reads, are left out.

### HdhrLock

One process per start of the driver. An inode is a number, `lockfile` the one that
has the name. `holders` says who has an open description: the script, its
background job, the daemon if it keeps what it inherits, the service that sourced
the script. `Close` gives the lock up with the last of them. `Unlock`, `Relock` and
`Remove` are the three commands of `unlock`.

### Installer

`plan` is the list of the commands that are left of the chosen job (`QuickPlan`,
`RepairPlan`, in the order of the script). `disk` says of each disk which commands
took effect there and what its `KERNEL` and `SYSTEM` are, with their sizes. `mnt` is
what is mounted at the two mount points, as stacks, because a mount point that was
not released is mounted over; `tmp` is the directory below. Each command is an
action; `Needs` is what it must find on the disk, `Loses` what it destroys. Where the
script goes on regardless, `Vain` is a command that does not find what it needs and
`Fail` one that fails for a reason of its own; both only skip the command, and a
mount that did not happen makes the copies end up in memory.

The two `mkpart` are two commands: if the first fails, the second makes the first
partition, and what the script then does to the second finds nothing (`Made`).

Abstractions. `dd` (l.232) zeroes the first 4 MB of the disk, and the model loses all
that was on it: the table and the beginning of the first partition are gone, but a file
system behind them would come back if a new partition began at the same place and its
`mke2fs` failed. No property speaks of such a disk, because its job had a command that
failed. Setting the label and `tune2fs`/`mke2fs` are taken to do what they do
or nothing. `menu_main` never returns, so its callers go there for good. The menu
that follows a refused Repair is drawn by a process in front of a pipe; what it looks
like there is not modelled. The log and the gauge are left out, and so is
`do_install_mbr`, which nothing calls. The boot files of a UEFI machine count as part
of `extlinux` and `conf`. Disks are those whose partitions are named by appending
digits: on `mmcblk` and `nvme` disks l.401 builds names that do not exist, so Repair
offers none of them; `Uefi` stands for the other reason to offer none, a system
partition that `tune2fs` cannot read.

### PatchRam

`argv` is the command line, `opt` what the program has understood of it so far, and
`plan` the steps of `main` that are left, as `Steps` derives them from `opt`. `pc`
is `"send"` between two commands, `"read"` in `read_event`, `"two"` in the read of the
two extra bytes, `"disarm"` before `alarm(0)`. `SendCmd` and `SendRecord` put a command
on the line; `ReadPart` and `ReadLast` are the loops of `read_event`, which take
what is there, as often as it takes to have the number of bytes that the third one
names; `EndDownload` is the change of the rate after the download; `Expire` is the
handler of the alarm. `rate`, `cmds` and `rx` are the line: its rate, what was
written and not heard yet, what arrived and was not read yet. An answer is made of
its real bytes, because the length among them is what keeps the two sides in step,
and so is a rate in its command.

The chip is not in the repository; `Take`, `Refuse`, `Ignore`, `Boot`, `Lose`,
`Arrive` and the operators before them model it as the program uses it. It has a
`mode` (`"rom"`, `"loader"`, `"patched"`, or `"crashed"` when it was started with an
incomplete memory), a rate, and the settings of which a reset or a new start leaves
nothing. It executes one command at a time and answers it in full; a new rate is
taken after the answer; after the launch it starts again at 115200. While it starts it
may miss commands. What is sent at another rate than its own is nothing to it, and
its bytes at another rate are any of `Noise`. Older chips send two more bytes after
the command for the download (`two`); `--no2bytes` says that they do not.

`odd` is the history of what happened that need not: a start while the chip is at
another rate (`"rate"`) or in the middle of an answer (`"stale"`), an answer that comes
after the alarm (`"late"`), the read of two bytes that returns one (`"short"`), a
refusal, a byte at a wrong rate (`"noise"`), a failed `ioctl`. In these, refusals
included, the program may lose step and wait for ever, and `LockStep`, `Configured` and
`Finishes` do not speak of them. `NoTornLaunch` speaks of all but the refusals, the
noise and a late answer among three troubles (with three late answers, or two and a new
start in the middle of an answer, the program is so far ahead that it comes back to the
chip's rate while the launch is still to be sent, and the record before it is gone);
without the exceptions TLC finds it violated, as it finds the others.

Abstractions. `-d` and the branches for Android are left out; `--tosleep` is looked
at when the arguments are parsed and is no step of its own, since nothing here is
timed but the alarm. Settings are set or not; of `--bd_addr` the model keeps whether
all six numbers were there, because `parse_bdaddr` uses variables that were not
set if they were not (`"junk"`). The line has no errors of its own, and writes to it
do not fail. A record of the file is cut in its header, in its body or not at all,
or cannot be read.

## What the runs check

| run | states | what it shows |
|---|---|---|
| `flash_file` | 58 k | kernel as a file of `/flash`, whole downloads sound and unsound, one cut, two copies: the properties of the update, and the promise |
| `flash_partition` | 59 k | kernel on a raw partition (`dd`, no sync of its own) that the larger one fills exactly; half offers and leftovers, corrupt files, missing and empty sums, one cut |
| `flash_overflow` | | **violated**: an update that passed the size check is not installed (finding 1) |
| `care_by_name` | 456 k | both disks found by label and checked at boot with one call, the boot disk perhaps late; all markers, two archives, two cuts, three requests |
| `care_by_device` | 564 k | no checks, disks that appear late or never, an archive there is no room for |
| `build_image` | 3.8 M | a library for host and target, an addon without sources that needs both and whose tree the library's pattern matches, a virtual package whose pattern matches both; commands by hand, and two edits or aborts anywhere |
| `get_sources` | 105 k | two projects, two files, two attempts, two runs each, one kill |
| `hdhr_many` | 35 k | three instances: of two the lock does what its comment says; what is left with three, and that waiting ends |
| `install_disks` | 552 k | the medium, a large and a small disk, empty or with earlier releases, one in a partition that the new files would fill; two jobs, two failing commands and one cut, anywhere |
| `bt_load` | 887 k | the command line of the services (they differ in the rate), one for an older chip, one with settings only, and wrong ones; whole files, files that end in a header or in the launch, files that cannot be read; two missed commands, one trouble (a refusal, a late answer, a new start) |
| `bt_exit` | | **violated**: a file that ends within a header, nothing started, exit status 0 (finding 3) |
| `hdhr_three` | | **violated**: three instances, two of them at work at once (finding 2) |

The properties, and what each could catch:

* `FreeAfterUpdate`, the comment of `init`:464. The check is made before anything is
  written, from sizes that earlier power cuts may have left odd.
* `PairIntact`: unless a cut hit the window between the first write and the sync,
  the device has an intact kernel, SYSTEM and boot loader that belong together.
* `OnlyVerifiedImages`: no step puts a corrupt image on `/flash` unless `.nocheck` is
  there (also one that was left by an earlier offer, which it says nothing of),
  whichever leftovers and archives it may come from.
* `AcceptedIsInstalled`: an update that passed the checks is what runs in the end,
  unless the power fails in a write window. The sizes of `flash_file` and
  `flash_partition` satisfy `KernelFits`; `flash_overflow` shows what happens when
  they do not.
* `KeepsPromise`: `FlashUpdate` implements `UpdatePromise` where a release counts as
  installed when its kernel is being written.
* `BootEnds` (in both boot modules): the device always comes to rest, it does not
  reboot for ever. In `StorageCare` this presupposes that `fsck` repairs what it says.
* `StorageComesUp`: no unit leaves a `/storage` that the next boot cannot find.
* `CheckedBeforeUse`: what `fsck` came to is not in use with errors, so the worst of the
  statuses of two disks must decide, and no boot, cut, repair or new file system
  afterwards brings errors to what is mounted. What it did not come to may be, but only
  because a disk was late - with names any disk, which stops the check of all.
* `OnlyAskedFor`: the system starts with the settings it was left with or with what
  the markers and archives ask for, whatever combination, order and cut.
* `NeverResizedInUse`: the comment of `fs-resize` l.21-22.
* `StampsTruthful`, `ImageCurrent`, `DepsCurrent`, `CompiledOnce`: what the stamps call
  up to date is, but for what is spoiled; an image that was finished has the current
  version of everything; what is compiled finds current direct dependencies; nothing is
  compiled twice in a run.
* `StampTruthful`, `UnpacksWhole`, `OneDownload`, `RunEnds`: the same for downloads.
* `TwoExclude`, `OneDaemon`: as long as no third instance was started, one is at
  work at a time and one daemon runs. `OnePerFile`: of any number, one per lock file.
  `WaitEnds`: nobody waits for ever, except for a daemon or a service that has
  inherited the lock. `OneAtWork`: see the findings.
* `OnlyConfirmed`: no disk but the one that was confirmed changes, and never the
  medium; the exception is a disk that a failed `umount` left at the mount point,
  where the files for the next one end up if that one cannot be mounted over it.
* `SoundJobInstalls`: a job without a failing command leaves a disk that is complete
  and synced, whatever the jobs, failures and cuts before it have left. Its
  preconditions are that the disk is not too small, and for Repair that the new kernel
  fits next to the old SYSTEM.
* `MenuIsClean`: without failures nothing stays mounted, so that the list of disks is
  complete again, and nothing stays in memory; also after a refusal.
* `LockStep`: when a command is sent, or the line is handed over, nothing is under
  way in either direction, and when something is, both ends have the same rate.
* `NoTornLaunch`: with no late answer, or one among at most two troubles, and whatever
  was lost, broken off or started again, a chip is started only with all records in its
  memory; for a file that ends early, this says that it is not started at all.
* `Configured`: when the program has succeeded, the chip runs the firmware, at the
  rate and with the settings that were asked for, none of them lost in a reset.
* `Finishes`: a starting chip may miss commands, the program still comes to its end.
  `ExitIsTrue`: see the findings.

Every property of every passing run has a mutant: a plausible mistake in a
definition that stands for code, written next to that definition, under which the
run fails.

### Bounds

Two releases suffice for every mix of an old and a new image, a third would only be
another new one. One power cut in the middle of an update, followed by the boots
that go on with it, has all the windows. Two copies by the user give an offer on top of a
leftover. The sizes are chosen so that one offer fits exactly, one fails by one
unit, and one fits in the sum but not in the order of the writes.

In `StorageCare` two archives are needed for an order among them, two cuts to cut a
recovery, three requests for every combination of a marker with two more. Two
attempts to mount stand for fifteen: only "one more" and "the last" differ.

In `BuildStamps` the library's two items share a tree, an addon without sources and the
library, with sources, are matched by another's pattern, and two troubles are an edit
and its revert, an edit in the window of another, an edit or abort and what a second one
makes of it. (Two edits and an abort were checked once, with 16 M states; that takes
longer than a run here should.) Three projects would be needed for
nothing in `SourceGet`: the lock excludes all others alike, and the theorems hold
for any number. For the driver's lock two and three instances differ, as the
finding shows; by the theorems two of any number behave as in the run, and `OnePerFile`
holds for any.

In `Installer` two jobs are an attempt and the one that must not suffer from it; two
failures can leave a disk mounted and then keep the next from being mounted over it.
The sizes let the new files fit with one unit to spare, or with none, which Repair
refuses.

In `PatchRam` two commands are missed, so that the alarm has to come again after it
came again. One record stands for all of them: the second piece, the launch, is
already a different one. One trouble is one fault with everything that follows from
it. The numbers in `Noise` are lengths to `read_event`: 9 is more than what is
left of any answer. The rates include one above 3000000, which needs one command
more.

`CHECK_DEADLOCK FALSE` is said where the system may stop: a device that does not
boot (`Flash*`), processes that run once (`Hdhr*`), a program that ends or, out of step,
waits for ever (`Patch*`), bounded numbers of runs
(`GetSources`).

### Fairness

`FlashUpdate` and `StorageCare` assume weak fairness of `init` and of the units:
one sequential script that the kernel keeps running, commands that end. Nothing is
assumed of users, of the power, of the journal or of late disks. `HdhrLock` assumes
it of each script and of its background job, which both run to an end, not of the
daemon or the service. A waiter is woken when the lock is free, and since each
instance runs once, nobody can be overtaken for ever; so weak fairness is enough.
`SourceGet` assumes it of each project's run: `wget` has a timeout, and runs are
bounded. In the code the lock is polled, and with unboundedly many new runs a waiter
might starve; the model does not claim otherwise. `PatchRam` assumes
it of the program, of its alarm when nothing is under way, of the chip, which starts
and executes what it hears, and of the line; nothing of faults. `BuildStamps` and
`Installer` have no liveness property.

## What is proved

TLAPS checks the theorems for all values of the constants: any releases, sizes,
disks, archives, packages and dependencies, any number of instances, projects, jobs,
edits, kills and cuts. They assume the named assumptions of the modules (types of the
constants, distinctness of the special values, no circular dependency) and nothing
else; preconditions are part of the properties. Each of the invariants below was an
invariant of the module's run before it was proved, but the one for `NoTornLaunch`,
whose definitions quantify over the natural numbers.

* `FlashUpdateProofs`: `TypeCorrect`, `SpaceIsLeft` (`FreeAfterUpdate`),
  `PairStaysIntact` (`PairIntact`), `WhatIsWrittenIsVerified` (`OnlyVerifiedImages`),
  `UpdateKeepsPromise` (`KeepsPromise`). The invariant says that what is stored fits,
  that what is not dirty is on the disk, and which part may be dirty at which step
  (`MediaInv`); that before the first write the kernel is the one that booted, and that
  from the checks on both images are there until they are moved (`SourceInv`); what the
  size check established, carried through the two writes (`SpaceInv`); that nobody's
  halves are mixed in the directory (`DirInv`); and that the pair matches before the
  first write, across the two halves in between, and after (`PairInv`). `PairIntact` by
  itself is not inductive: in the middle of the writes it says nothing, and must come
  out true. `VerifiedInv` says that without `.nocheck` nothing on `/flash` is corrupt,
  that the sums hold when the kernel is about to be written, and that SYSTEM is still
  good when its turn comes. The refinement takes each step to one of the four actions of
  `UpdatePromise` or to a stutter; only the first write installs.
* `StorageCareProofs`: `TypeCorrect`, `UseIsChecked` (`CheckedBeforeUse`),
  `SettingsStayInPlace` (`NeverResizedInUse`), `StorageIsMounted`
  (`StorageComesUp`), `SettingsAsAsked` (`OnlyAskedFor`). `CheckInv` says that from the
  check to the mount, what can be found and was checked has no errors, and that what was
  not checked has a late disk for a reason; for this a disk that is never late must be
  there from the start. `BootInv`: where no disk is late and names are used, a `/storage`
  that has lost its label would still stop the check of the boot disk. It does not
  matter, because the boot disk's errors are repaired in the first boot, before any unit
  can touch `/storage`. `ResizeInv` says that from the removal of the
  marker on, the disk agrees with memory that there are no settings. `VolumeInv` says that
  the partition, the file system and its label are missing only in the step that makes
  them, unless a cut has hit it.
  `AskedInv` compares what may become of `store` with what may become of `had`: the
  outcomes that are still possible are always among those that were when the system
  was left (`Results(store)` within `Results(had)`), each step only decides among
  them. The property alone compares the two ends and is not inductive.
* `SourceGetProofs`: `TypeCorrect`, `DownloadsExclude` (`OneDownload`), `StampsHold`
  (`StampTruthful`), `UnpackingFindsWhole` (`UnpacksWhole`). `LockInv` ties the lock
  to the place in the script; `FileInv` says that a file comes from the URL that has
  its name and is whole if it has a stamp, `FetchInv` what holds while one is
  fetched, `GotInv` that what a run has behind it has its stamp and keeps it.
* `HdhrLockProofs`: `TypeCorrect`, `FilesExclude` (`OnePerFile`), `TwoServicesExclude`
  (`TwoExclude`), `TwoServicesOneDaemon` (`OneDaemon`). `LockInv`: who is at work holds
  the lock of its own file, and no two locks are of one file. `NameInv`: until an
  instance is done, all that were started have opened the file that has the name; only
  an instance that is done removes it, and then at most one other is left. The theorems
  speak of any number of instances of which two were started.
* `BuildStampsProofs`: `TypeCorrect`, `StampsTellTruth` (`StampsTruthful`). `ShapeInv`
  and `OrderInv` are about the call stack: what is below the top waits for a call at one
  of four places, and what runs above a `build` is for something that its item depends
  on. So nobody writes the stamp of an item that is being built (`NoneInv`), because an
  item does not depend on itself. `TreeInv` says that a tree's stamp is that of its
  content, and that where the tree is gone the products in it are; `VersionInv` is
  `StampsTruthful` for every version that the sources might have, now or after an edit,
  but for the one step of `uninstall` between product and stamp (before and after that
  step it is `MadeInv`, without the exception); `TopInv` is what the running script has
  done so far.
* `BuildRunsProofs`: `CompilesOnce` (`CompiledOnce`), `DepsAreCurrent` (`DepsCurrent`),
  `ImageIsCurrent` (`ImageCurrent`), about one run. An item is `Current` if both stamps
  vouch for it, or if it was edited in this run. No step of a run takes this back
  (`Kept`): a stamp goes only with an unpacked tree that was not current
  (`UnpackUnstamp`, `CleanUnstamp`), with an item that is not, or because the developer
  says `clean` by himself, which has its own case (`Alone`); so has `uninstall`, which
  nothing calls (`Lonely`). `CleanInv` is the fact that this rests on: `clean` was
  called for a tree that is not current. `CallInv` says what each frame of the stack has
  behind it (`Relies`): `build` and `install` have their item's tree, the dependencies
  that their loop is through with, and, while they wait for a call, all of this but what
  was called; it is the properties carried down the stack, without which a return would
  know nothing of its caller. `CompiledInv` says that what was compiled is current or
  about to get its stamp, `ImageInv` that what is installed is current, is on the image
  and has its dependencies there, and that of the roots only the one at the bottom of
  the stack is missing. `StampsTruthful` then turns current stamps into current
  products.
* `InstallerProofs`: `TypeCorrect`, `MenuComesClean` (`MenuIsClean`),
  `OnlyConfirmedIsWritten` (`OnlyConfirmed`, an action property), `SoundJobsInstall`
  (`SoundJobInstalls`). `PlanInv`: what is left of the plan is the end of the job's plan
  from some place on. Everything else is a function of this place: as long as nothing
  failed, what is mounted (`CleanInv`) and what the job has done to its disk so far
  (`QuickAt`, `RepairAt`, with the room that is left). `DirtyInv`: what is not synced
  is on a disk that is mounted, so that a cut spares all others.
* `PatchRamProofs`: `TypeCorrect`, `StaysInStep` (`LockStep`), `ComesOutAsAsked`
  (`Configured`), `NoTornStart` (`NoTornLaunch`), `StartsWhole`. `PlanInv` says that
  what waits for an answer is a step of the plan, and that a rate is set only if one was
  given; `LineInv` that the line carries commands the chip knows and bytes. For
  `LockStep`: `ArgInv` is what was asked for so far, `DownloadInv` where the steps of
  the download stand in the plan and in the file. `TurnInv` and `StepInv` follow
  `Stream`, which is what was read of the answer, what has arrived and what is to come,
  in one: it is empty, or it has the length and the third byte of the answer to the step
  at the head of the plan, so that reading until the length is reached leaves nothing
  behind, however the reads are cut. They also say at which rate both ends are, before,
  during and after a change of the rate and a launch. What the property makes an
  exception of never comes back to regular (`Regular'` implies `Regular`). For
  `Configured`: `AskInv` ties the options to the arguments. `PlanOrder` says in which
  order the steps that are left come: the records right after the minidriver, a reset
  and the rate after them, all settings after a reset. `ModeInv`, `SetInv` and `RateInv`
  say what the chip has, as a function of `Rest` and `Done`: the steps and the pieces of
  the file that the chip has yet to execute. They differ from `plan` and `pos` by the
  one command that was sent and is not executed, or is executed and not yet answered.
  When nothing is left, they are the property. For `NoTornLaunch` the program may be out
  of step, and nothing of the above holds. What does hold is counted. `FlagInv` and
  `WhereInv` say at which step the program is (`Place`) and that this gives the line's
  rate. `QueueInv` says what is in the UART's buffer: the pieces of the download one
  after the other without a gap, the last of them the last that was sent (`Sent`). A
  launch that the loader executes therefore comes after all records, unless some of them
  were sent at the wrong rate and went nowhere: `FullInv`, when both ends have one rate,
  the memory holds all that comes before the next piece. It can break only where the
  rates of both ends come together again with a part of the download still in the
  buffer. Without an early rate that does not happen (`NarrowInv`, `DeafInv`). With one
  (`Split`) it could, when the rate is set for the second time, and there the count is
  needed. `Ledger` weighs what is under way: seven for every command that waits for its
  answer, one for every byte that is on its way, less what `read_event` now waits for.
  This is never more than seven for every trouble, and two (`Bound`). No answer but the
  minidriver's has another length than seven; whatever `read_event` takes for a length
  in the middle of an answer, it takes at least an answer from the weight, because the
  first four bytes of every answer are known (`Framed`, `WantedIs`), and after the
  minidriver two bytes more may be somewhere in the stream (`Gapped`). To reach the
  second rate with a piece of the download in the buffer the program would have to be
  three answers ahead (`AgainFull`), and with two troubles it cannot. `CutInv` is for
  the files that are cut: they have no launch. `StartsWhole` is what follows for two
  sides that are in step.

Two proofs showed that something was wrong with the model or with a property, and it
was changed. In `BuildStamps` a package without sources was taken for clean when any
of its items was compiled, which is true of the run's packages, which have one item, and
not in general; the window of edits was wider than it needs to be; circular dependencies
were not excluded. In `PatchRam` late answers refute `NoTornLaunch`, with more troubles
than the run has. A first bound of four was taken from a counterexample; the proof
showed that it counts bytes that a new start leaves on the line too, and with
two late answers, a new start in the middle of an answer and the two extra bytes
unread TLC finds the property violated with three troubles. The theorem holds below that.

Only model-checked: the liveness properties (`BootEnds`, `AcceptedIsInstalled`,
`WaitEnds`, `RunEnds`, `Finishes`), because fairness is out of the proof system's reach.
The other way round, `PairIntact` with the kernel on a partition, and
`FreeAfterUpdate` when the kernel does not fit, are in no run and follow from the
theorems.

## Findings

1. `init`:470. The size check adds the space of the old SYSTEM to the free space,
   but `KERNEL` is written while the old SYSTEM is still there. With a new kernel
   that is larger than the free space and the old kernel together, `mv` fails, its
   error goes to `/dev/null`, the truncated kernel stays, the source is removed by
   the cleanup, and the device reboots into nothing (`flash_overflow`). README.md:67
   says that the system will upgrade during the next reboot.
2. `userspace-driver.sh`:28. `unlock` gives the lock up, takes it again without
   waiting and removes the file. An instance that opened the file before the removal
   gets the lock of a file without a name; the next one makes a new file and locks
   that. The comment at l.22 says that one instance runs at a time. Two instances
   are not enough for it, three are (`hdhr_three`).
3. `brcm_patchram_plus.c`:650. The download takes every read that is not empty for a
   whole header, and no answer's status is looked at. A file that ends within a
   header becomes a command that the chip refuses; the firmware is never started, and
   the program makes its settings and exits with 0 (`bt_exit`). The comment at l.91
   says that it returns a number greater than 0 for any errors.

Two more are visible as preconditions of `SoundJobInstalls`, without which TLC finds
them: the installer looks at no status, so that on a disk with less room than the
system partition takes `mkpart` fails, everything after it does nothing, and the
message is "Install Complete" (l.369); and its check for enough target space (l.452)
counts the old SYSTEM as free and then copies the kernel next to it, as in finding 1.

Where the code gives no guarantee and no document claims one, the properties say so
in their preconditions: cuts in the windows of `StorageCare`; an archive without
room for its files, which is removed after a partial restore; disks that appear
after `fsck` looked for them, which with names leave all disks unchecked; a file system
whose check asks for a reboot for ever; file names shared by two URLs, or two servers with
different files of one name; edits while a package is being built, an uninstall or a clean
that is interrupted, and sourceless packages that the clean of another one takes along;
refused commands of the Bluetooth chip, and a firmware file that cannot be read.

## Plan

In this order, each with its runs, and with proofs where a safety property is
strong enough to deserve one:

1. `NoobsSetup`: mounts and edits of `partition_setup.sh`, and its `exit` in a
   subshell.
2. `SundtekUpdate`: download, check, replacement and restart with kills at any step.
3. `SuspendModules`: the list of unloaded modules over failed and repeated suspends.
4. `BootloaderUpdate`: the `update.sh` scripts, as the detailed form of
   `FlashUpdate`'s one write.
5. A module that composes `Installer` and `StorageCare`: what the installer leaves is
   an initial state of the boot.

## Not modelled

Compilation, the contents of images, `mkimage`, `create_addon` and `checkdeps`
(straight-line file operations without state between runs); `config/` (variables and
their defaults; the paths, patterns and `set -e` that matter are in the modules that
use them); dialogs of the settings add-ons; wrappers and one-shot scripts of
services; recipes, patches, kernel configurations and firmware, which are data. So are
the two `splash.h` (in `distributions/OpenELEC/splash` and `packages/tools/psplash`),
5322 lines each and most of what the repository has in C: arrays of the pixels of an
image, with no behaviour to model. Components that are to come are in the plan.
