------------------------------ MODULE HdhrLock ------------------------------
(***************************************************************************)
(* The lock file protocol of the HDHomeRun driver                          *)
(* (packages/addons/official/driver/hdhomerun/source/bin/                  *)
(* userspace-driver.sh).  A service either runs the script or, as vdr.start *)
(* does, sources it and then execs its own program.                        *)
(*                                                                         *)
(* flock locks belong to open file descriptions.  A description stays open *)
(* as long as any process has it: the script, the background job and the   *)
(* daemon it started, or the service that sourced it.  The lock file is    *)
(* removed and created anew, so its name stands for different inodes.      *)
(***************************************************************************)
EXTENDS Naturals, FiniteSets

CONSTANTS
  Instances,      \* runs of the script, one open file description each
  Sourced,        \* those that vdr.start sources
  DaemonKeepsFd   \* userhdhomerun leaves the descriptors it inherits open

ASSUME Assumptions ==
  Sourced \subseteq Instances /\ DaemonKeepsFd \in BOOLEAN

VARIABLES
  pc,       \* [Instances -> the next step of the script]
  lockfile, \* the inode that HDHR_LOCKFILE names, 0 if there is none
  inodes,   \* how many inodes it has named so far
  file,     \* [Instances -> the inode that descriptor 99 is open on, 0 if none]
  holders,  \* [Instances -> who has that description open]
  locked,   \* the instances whose description has the lock of its inode
  daemons   \* the instances whose userhdhomerun is running

fds  == <<lockfile, inodes, file>>
vars == <<pc, fds, holders, locked, daemons>>

Holder == {"script", "helper", "daemon", "service"}
PCs    == {"exlock", "flock", "pidof", "daemon", "helper",
           "unlock", "relock", "rm", "exit", "gone"}
\* Between exlock (l.32) and unlock (l.169).
AtWork(p) == pc[p] \in {"pidof", "daemon", "helper", "unlock"}

TypeOK ==
  /\ pc \in [Instances -> PCs]
  /\ inodes \in Nat /\ lockfile \in 0..inodes
  /\ file \in [Instances -> 0..inodes]
  /\ holders \in [Instances -> SUBSET Holder]
  /\ locked \subseteq Instances /\ daemons \subseteq Instances

Init ==
  /\ pc = [p \in Instances |-> "exlock"]
  /\ lockfile = 0 /\ inodes = 0
  /\ file = [p \in Instances |-> 0]
  /\ holders = [p \in Instances |-> {}]
  /\ locked = {} /\ daemons = {}

Goto(p, from, to) == pc[p] = from /\ pc' = [pc EXCEPT ![p] = to]

Free(p) == \A q \in locked \ {p} : file[q] # file[p]

NewName(p) ==   \* mutant: a name of its own for every instance
  /\ lockfile # 0
  /\ file' = [file EXCEPT ![p] = inodes + 1] /\ UNCHANGED <<lockfile, inodes>>
\* exec 99> creates the file if it is not there.
ReuseFile(p) ==
  /\ lockfile # 0
  /\ file' = [file EXCEPT ![p] = lockfile] /\ UNCHANGED <<lockfile, inodes>>
CreateFile(p) ==
  /\ lockfile = 0
  /\ lockfile' = inodes + 1 /\ inodes' = inodes + 1
  /\ file' = [file EXCEPT ![p] = inodes + 1]

Open(p) ==
  /\ Goto(p, "exlock", "flock")
  /\ ReuseFile(p) \/ CreateFile(p)
  /\ holders' = [holders EXCEPT ![p] = {"script"}]
  /\ UNCHANGED <<locked, daemons>>

TryLock(p) ==   \* mutant: flock -n, and its status is not looked at
  /\ Goto(p, "flock", "pidof")
  /\ locked' = IF Free(p) THEN locked \cup {p} ELSE locked
  /\ UNCHANGED <<fds, holders, daemons>>
Lock(p) ==
  /\ Goto(p, "flock", "pidof") /\ Free(p)
  /\ locked' = locked \cup {p}
  /\ UNCHANGED <<fds, holders, daemons>>

NoPidof(p) ==   \* mutant: the daemon is started anyway
  /\ Goto(p, "pidof", "daemon")
  /\ UNCHANGED <<fds, holders, locked, daemons>>
Pidof(p) ==
  /\ Goto(p, "pidof", IF daemons = {} THEN "daemon" ELSE "unlock")
  /\ UNCHANGED <<fds, holders, locked, daemons>>

\* After the configuration is written and PRE_WAIT is over.
StartDaemon(p) ==
  /\ Goto(p, "daemon", "helper")
  /\ daemons' = daemons \cup {p}
  /\ holders' = [holders EXCEPT ![p] =
                   @ \cup IF DaemonKeepsFd THEN {"daemon"} ELSE {}]
  /\ UNCHANGED <<fds, locked>>

DaemonFails(p) ==   \* its exit status is not looked at
  /\ Goto(p, "daemon", "helper")
  /\ UNCHANGED <<fds, holders, locked, daemons>>

StartHelper(p) ==
  /\ Goto(p, "helper", "unlock")
  /\ holders' = [holders EXCEPT ![p] = @ \cup {"helper"}]
  /\ UNCHANGED <<fds, locked, daemons>>

Unlock(p) ==
  /\ Goto(p, "unlock", "relock")
  /\ locked' = locked \ {p}
  /\ UNCHANGED <<fds, holders, daemons>>

\* flock -xn: nobody else may have the file locked when it is removed.
Relock(p) ==
  /\ Goto(p, "relock", IF Free(p) THEN "rm" ELSE "exit")
  /\ locked' = IF Free(p) THEN locked \cup {p} ELSE locked
  /\ UNCHANGED <<fds, holders, daemons>>

\* By name: if p's own file is gone, another instance's is removed.
Remove(p) ==
  /\ Goto(p, "rm", "exit")
  /\ lockfile' = 0
  /\ UNCHANGED <<inodes, file, holders, locked, daemons>>

\* h closes p's description; with the last holder its lock goes.
Close(p, h) ==
  /\ holders' = [holders EXCEPT ![p] = @ \ {h}]
  /\ locked' = IF holders[p] \subseteq {h} THEN locked \ {p} ELSE locked

Exit(p) ==
  /\ p \notin Sourced
  /\ Goto(p, "exit", "gone")
  /\ Close(p, "script")
  /\ UNCHANGED <<fds, daemons>>

\* The script was sourced: its descriptor goes on into the service.
ExecService(p) ==
  /\ p \in Sourced
  /\ Goto(p, "exit", "gone")
  /\ holders' = [holders EXCEPT ![p] = (@ \ {"script"}) \cup {"service"}]
  /\ UNCHANGED <<fds, locked, daemons>>

HelperWaits(p) ==   \* mutant: it waits until the daemon has logged the adapters
  /\ "helper" \in holders[p] /\ p \in daemons
  /\ Close(p, "helper")
  /\ UNCHANGED <<pc, fds, daemons>>
HelperEnds(p) ==
  /\ "helper" \in holders[p]
  /\ Close(p, "helper")
  /\ UNCHANGED <<pc, fds, daemons>>

\* It may crash, and openelec-sleep may kill it before a suspend.
DaemonDies(p) ==
  /\ p \in daemons
  /\ daemons' = daemons \ {p}
  /\ Close(p, "daemon")
  /\ UNCHANGED <<pc, fds>>

ServiceStops(p) ==
  /\ "service" \in holders[p]
  /\ Close(p, "service")
  /\ UNCHANGED <<pc, fds, daemons>>

Script(p) ==
  \/ Open(p) \/ Lock(p) \/ Pidof(p) \/ StartDaemon(p) \/ DaemonFails(p)
  \/ StartHelper(p) \/ Unlock(p) \/ Relock(p) \/ Remove(p)
  \/ Exit(p) \/ ExecService(p)
Others(p) == HelperEnds(p) \/ DaemonDies(p) \/ ServiceStops(p)
Next      == \E p \in Instances : Script(p) \/ Others(p)

Spec == Init /\ [][Next]_vars
\* The script and its background job end by themselves; the daemon and the
\* service run as long as they like.  Nobody is kept waiting by newcomers: the
\* kernel wakes all waiters, and there are finitely many instances.
FairSpec ==
  Spec /\ \A p \in Instances : WF_vars(Script(p)) /\ WF_vars(HelperEnds(p))

----------------------------------------------------------------------------
(* Properties.                                                             *)

\* The script's comment (l.22): one instance at a time.
OneAtWork == \A p, q \in Instances : AtWork(p) /\ AtWork(q) => p = q

\* It is true of two: as long as no third one was started.
AtMostTwo == Cardinality({p \in Instances : pc[p] # "exlock"}) <= 2
TwoExclude == AtMostTwo => OneAtWork

\* What the lock does give, for any number of instances: two at work have
\* locked different files, so at most one of them the file that has the name.
OnePerFile ==
  \A p, q \in Instances : AtWork(p) /\ AtWork(q) /\ file[p] = file[q] => p = q

\* pidof and the start of the daemon (l.56-150) are one step as far as other
\* instances are concerned, again of two.
OneDaemon == AtMostTwo => Cardinality(daemons) <= 1

\* The lock is not lost with its holder: nobody waits for ever, unless for a
\* daemon or a service that has the description of the finished instance open.
Lingers(p) == pc[p] = "gone" /\ holders[p] \cap {"daemon", "service"} # {}
WaitEnds ==
  \A p \in Instances :
    pc[p] = "flock" ~>
      pc[p] # "flock" \/ \E q \in Instances : Lingers(q) /\ file[q] = file[p]
=============================================================================
