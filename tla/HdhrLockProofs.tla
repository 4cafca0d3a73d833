--------------------------- MODULE HdhrLockProofs ---------------------------
(* The lock protocol for any number of instances: two that are at work hold *)
(* locks of different files.                                               *)
EXTENDS HdhrLock, FiniteSetTheorems, TLAPS

\* A lock is exclusive to its file; who is at work has one, and has its
\* description open itself, so that no other holder's end drops the lock; who
\* has yet to take one has none, so that opening the file moves no lock.
LockInv ==
  /\ \A p, q \in locked : file[p] = file[q] => p = q
  /\ \A p \in Instances :
       /\ AtWork(p) => p \in locked
       /\ AtWork(p) \/ pc[p] \in {"flock", "relock"} => "script" \in holders[p]
       /\ pc[p] \in {"exlock", "flock", "relock"} => p \notin locked

IInv == TypeOK /\ LockInv

LEMMA IInvInit == Init => IInv
  BY Assumptions DEF Init, IInv, TypeOK, LockInv, PCs, Holder, AtWork

\* Every step keeps the types.
LEMMA TypeNext == TypeOK /\ [Next]_vars => TypeOK'
<1> SUFFICES ASSUME TypeOK, [Next]_vars PROVE TypeOK'
  OBVIOUS
<1> USE Assumptions
<1>1. ASSUME NEW p \in Instances, Open(p) PROVE TypeOK'
  <2>1. CASE ReuseFile(p)
    BY <1>1, <2>1 DEF TypeOK, Open, ReuseFile, Goto, PCs, Holder
  <2>2. CASE CreateFile(p)
    <3>1. 0..inodes \subseteq 0..(inodes + 1) /\ inodes + 1 \in 0..(inodes + 1)
      BY DEF TypeOK
    <3>2. file' \in [Instances -> 0..(inodes + 1)]
      BY <2>2, <3>1 DEF TypeOK, CreateFile
    <3> QED
      BY <1>1, <2>2, <3>1, <3>2 DEF TypeOK, Open, CreateFile, Goto, PCs, Holder
  <2> QED
    BY <1>1, <2>1, <2>2 DEF Open
<1>2. ASSUME NEW p \in Instances,
             Lock(p) \/ Pidof(p) \/ DaemonFails(p) \/ Unlock(p) \/ Relock(p)
             \/ Remove(p)
      PROVE  TypeOK'
  BY <1>2 DEF TypeOK, Lock, Pidof, DaemonFails, Unlock, Relock, Remove, Goto,
              PCs, fds
<1>3. ASSUME NEW p \in Instances, StartDaemon(p) \/ StartHelper(p) PROVE TypeOK'
  BY <1>3 DEF TypeOK, StartDaemon, StartHelper, Goto, PCs, Holder, fds
<1>4. ASSUME NEW p \in Instances, Exit(p) \/ ExecService(p) PROVE TypeOK'
  BY <1>4 DEF TypeOK, Exit, ExecService, Close, Goto, PCs, Holder, fds
<1>5. ASSUME NEW p \in Instances, Others(p) PROVE TypeOK'
  BY <1>5 DEF TypeOK, Others, HelperEnds, DaemonDies, ServiceStops, Close, fds
<1>6. CASE UNCHANGED vars
  BY <1>6 DEF TypeOK, vars, fds
<1> QED
  BY <1>1, <1>2, <1>3, <1>4, <1>5, <1>6 DEF Next, Script

\* Every step keeps the locks exclusive and with those who are at work.
LEMMA LockNext == IInv /\ [Next]_vars => LockInv'
<1> SUFFICES ASSUME IInv, [Next]_vars PROVE LockInv'
  OBVIOUS
<1> USE DEF IInv, TypeOK, LockInv, AtWork, Goto
<1>1. ASSUME NEW p \in Instances, Open(p) PROVE LockInv'
  <2>1. \A q \in Instances \ {p} : pc'[q] = pc[q] /\ file'[q] = file[q]
                                   /\ holders'[q] = holders[q]
    BY <1>1 DEF Open, ReuseFile, CreateFile
  <2>2. p \notin locked' /\ locked' = locked
    BY <1>1 DEF Open
  <2>3. pc'[p] = "flock" /\ "script" \in holders'[p]
    BY <1>1 DEF Open
  <2> QED
    BY <2>1, <2>2, <2>3
<1>2. ASSUME NEW p \in Instances, Lock(p) PROVE LockInv'
  BY <1>2 DEF Lock, Free, fds
<1>3. ASSUME NEW p \in Instances, Pidof(p) \/ DaemonFails(p) PROVE LockInv'
  BY <1>3 DEF Pidof, DaemonFails, fds
<1>4. ASSUME NEW p \in Instances, StartDaemon(p) \/ StartHelper(p)
      PROVE  LockInv'
  BY <1>4 DEF StartDaemon, StartHelper, fds
<1>5. ASSUME NEW p \in Instances, Unlock(p) \/ Remove(p) PROVE LockInv'
  BY <1>5 DEF Unlock, Remove, fds
<1>6. ASSUME NEW p \in Instances, Relock(p) PROVE LockInv'
  BY <1>6 DEF Relock, Free, fds
<1>7. ASSUME NEW p \in Instances, Exit(p) \/ ExecService(p) PROVE LockInv'
  BY <1>7 DEF Exit, ExecService, Close, fds
<1>8. ASSUME NEW p \in Instances, Others(p) PROVE LockInv'
  BY <1>8 DEF Others, HelperEnds, DaemonDies, ServiceStops, Close, fds
<1>9. CASE UNCHANGED vars
  BY <1>9 DEF vars, fds
<1> QED
  BY <1>1, <1>2, <1>3, <1>4, <1>5, <1>6, <1>7, <1>8, <1>9
     DEF Next, Script

\* The variables keep their types.
THEOREM TypeCorrect == Spec => []TypeOK
<1>1. TypeOK /\ [Next]_vars => TypeOK'
  BY TypeNext
<1> QED
  BY IInvInit, <1>1, PTL DEF Spec, IInv

\* However many services start the driver, and whoever removes the lock file
\* under whom: no two instances are at work with the same file locked.
THEOREM FilesExclude == Spec => []OnePerFile
<1>1. IInv /\ [Next]_vars => IInv'
  BY TypeNext, LockNext DEF IInv
<1>2. IInv => OnePerFile
  BY DEF IInv, LockInv, OnePerFile
<1> QED
  BY IInvInit, <1>1, <1>2, PTL DEF Spec
----------------------------------------------------------------------------
(* Two instances.                                                          *)

Started == {p \in Instances : pc[p] # "exlock"}
Done(p) == pc[p] \in {"exit", "gone"}

\* The lock file is removed by who is done, and by nobody else: until an
\* instance is done, all have opened the file that has the name.
NameInv ==
  \/ \E p \in Instances : Done(p)
  \/ \A p \in Started : file[p] = lockfile /\ lockfile # 0

\* Once more that no third one was started, and what that gives: who is about
\* to start the daemon is the only one, and there is none yet.
NoThird == \A p, q, r \in Started : p = q \/ q = r \/ p = r
DaemonInv ==
  NoThird => /\ \A p \in Instances : pc[p] = "daemon" => daemons = {}
             /\ \A p, q \in daemons : p = q

TwoInv == IInv /\ IsFiniteSet(Started) /\ NameInv /\ DaemonInv

\* A start adds one to those that were started, and nothing takes one away.
LEMMA StartedGrows ==
  ASSUME TypeOK, [Next]_vars
  PROVE  /\ Started \subseteq Started'
         /\ \/ Started' = Started
            \/ \E p \in Instances : Started' \subseteq Started \cup {p}
<1> USE DEF TypeOK, Goto, Started
<1>1. ASSUME NEW p \in Instances, Script(p)
      PROVE  /\ Started \subseteq Started'
             /\ Started' \subseteq Started \cup {p}
  BY <1>1 DEF Script, Open, Lock, Pidof, StartDaemon, DaemonFails, StartHelper,
              Unlock, Relock, Remove, Exit, ExecService
<1>2. ASSUME NEW p \in Instances, Others(p) PROVE Started' = Started
  BY <1>2 DEF Others, HelperEnds, DaemonDies, ServiceStops
<1>3. CASE UNCHANGED vars
  BY <1>3 DEF vars
<1> QED
  BY <1>1, <1>2, <1>3 DEF Next

\* No three different ones are in a finite set of two.
LEMMA TwoAreTwo == IsFiniteSet(Started) /\ AtMostTwo => NoThird
<1> SUFFICES ASSUME IsFiniteSet(Started), AtMostTwo,
                    NEW p \in Started, NEW q \in Started, NEW r \in Started,
                    p # q, q # r, p # r
             PROVE  FALSE
  BY DEF NoThird
<1>1. {p, q, r} \subseteq Started
  OBVIOUS
<1>2. Cardinality({p}) = 1 /\ IsFiniteSet({p})
  BY FS_Singleton
<1>3. Cardinality({p} \cup {q}) = 2 /\ IsFiniteSet({p} \cup {q})
  <2>1. q \notin {p}
    OBVIOUS
  <2> QED
    BY <1>2, <2>1, FS_AddElement
<1>4. Cardinality({p} \cup {q} \cup {r}) = 3
  <2>1. r \notin {p} \cup {q}
    OBVIOUS
  <2> QED
    BY <1>3, <2>1, FS_AddElement
<1>5. Cardinality(Started) \in Nat /\ Cardinality({p, q, r}) <= Cardinality(Started)
  BY <1>1, FS_CardinalityType, FS_Subset
<1>6. {p} \cup {q} \cup {r} = {p, q, r}
  OBVIOUS
<1> QED
  BY <1>4, <1>5, <1>6 DEF AtMostTwo, Started

\* While no third one was started, two at work would have opened the file that
\* has the name, and its lock is exclusive.
LEMMA TwoAtWork == IInv /\ NameInv /\ NoThird => OneAtWork
<1> SUFFICES ASSUME IInv, NameInv, NoThird,
                    NEW p \in Instances, NEW q \in Instances,
                    AtWork(p), AtWork(q), p # q
             PROVE  FALSE
  BY DEF OneAtWork
<1>1. p \in Started /\ q \in Started /\ ~ Done(p) /\ ~ Done(q)
  BY DEF AtWork, Started, Done
<1>2. \A r \in Instances : ~ Done(r)
  BY <1>1 DEF NoThird, Started, Done
<1> QED
  BY <1>1, <1>2 DEF NameInv, IInv, LockInv
LEMMA TwoInit == Init => TwoInv
<1> SUFFICES ASSUME Init PROVE TwoInv
  OBVIOUS
<1>1. Started = {} /\ IsFiniteSet(Started)
  BY FS_EmptySet DEF Started, Init
<1> QED
  BY <1>1, IInvInit DEF TwoInv, NameInv, DaemonInv, Init

\* The name is kept: who opens the file takes the one that has the name, or
\* creates it when there is none, which is when nobody has opened any yet.
LEMMA NameNext == IInv /\ NameInv /\ [Next]_vars => NameInv'
<1> SUFFICES ASSUME TypeOK, NameInv, [Next]_vars PROVE NameInv'
  BY DEF IInv
<1> USE DEF TypeOK, Goto, NameInv, Started, Done
<1>1. ASSUME NEW p \in Instances, Open(p) PROVE NameInv'
  <2>1. CASE ReuseFile(p)
    BY <1>1, <2>1 DEF Open, ReuseFile
  <2>2. CASE CreateFile(p)
    <3>1. inodes + 1 # 0
      OBVIOUS
    <3> QED
      BY <1>1, <2>2, <3>1 DEF Open, CreateFile
  <2> QED
    BY <1>1, <2>1, <2>2 DEF Open
<1>2. ASSUME NEW p \in Instances,
             Lock(p) \/ Pidof(p) \/ StartDaemon(p) \/ DaemonFails(p)
             \/ StartHelper(p) \/ Unlock(p) \/ Relock(p)
      PROVE  NameInv'
  BY <1>2 DEF Lock, Pidof, StartDaemon, DaemonFails, StartHelper, Unlock,
              Relock, fds
<1>3. ASSUME NEW p \in Instances, Remove(p) \/ Exit(p) \/ ExecService(p)
      PROVE  NameInv'
  BY <1>3 DEF Remove, Exit, ExecService
<1>4. ASSUME NEW p \in Instances, Others(p) PROVE NameInv'
  BY <1>4 DEF Others, HelperEnds, DaemonDies, ServiceStops, fds
<1>5. CASE UNCHANGED vars
  BY <1>5 DEF vars, fds
<1> QED
  BY <1>1, <1>2, <1>3, <1>4, <1>5 DEF Next, Script

\* pidof and the start of the daemon are one step for the other instance: it
\* is not at work.
LEMMA DaemonNext == TwoInv /\ [Next]_vars => DaemonInv'
<1> SUFFICES ASSUME TwoInv, [Next]_vars, NoThird' PROVE DaemonInv'
  BY DEF DaemonInv
<1>1. TypeOK
  BY DEF TwoInv, IInv
<1>2. NoThird
  BY <1>1, StartedGrows DEF NoThird
<1>3. OneAtWork
  BY <1>2, TwoAtWork DEF TwoInv
<1>4. /\ \A p \in Instances : pc[p] = "daemon" => daemons = {}
      /\ \A p, q \in daemons : p = q
  BY <1>2 DEF TwoInv, DaemonInv
<1> USE <1>1, <1>4 DEF TypeOK, Goto, DaemonInv
<1>5. ASSUME NEW p \in Instances,
             Open(p) \/ Lock(p) \/ DaemonFails(p) \/ StartHelper(p)
             \/ Unlock(p) \/ Relock(p) \/ Remove(p) \/ Exit(p)
             \/ ExecService(p)
      PROVE  DaemonInv'
  BY <1>5 DEF Open, Lock, DaemonFails, StartHelper, Unlock, Relock, Remove,
              Exit, ExecService
<1>6. ASSUME NEW p \in Instances, Pidof(p) PROVE DaemonInv'
  BY <1>6 DEF Pidof
<1>7. ASSUME NEW p \in Instances, StartDaemon(p) PROVE DaemonInv'
  <2>1. daemons' = {p} /\ pc'[p] = "helper"
    BY <1>7 DEF StartDaemon
  <2>2. \A q \in Instances : pc'[q] # "daemon"
    BY <1>3, <1>7 DEF StartDaemon, OneAtWork, AtWork
  <2> QED
    BY <2>1, <2>2
<1>8. ASSUME NEW p \in Instances, Others(p) PROVE DaemonInv'
  BY <1>8 DEF Others, HelperEnds, DaemonDies, ServiceStops
<1>9. CASE UNCHANGED vars
  BY <1>9 DEF vars
<1> QED
  BY <1>5, <1>6, <1>7, <1>8, <1>9 DEF Next, Script

LEMMA TwoNext == TwoInv /\ [Next]_vars => TwoInv'
<1> SUFFICES ASSUME TwoInv, [Next]_vars PROVE TwoInv'
  OBVIOUS
<1>1. IInv'
  BY TypeNext, LockNext DEF TwoInv, IInv
<1>2. IsFiniteSet(Started')
  <2>1. CASE Started' = Started
    BY <2>1 DEF TwoInv
  <2>2. ASSUME NEW p \in Instances, Started' \subseteq Started \cup {p}
        PROVE  IsFiniteSet(Started')
    <3>1. IsFiniteSet(Started \cup {p})
      BY FS_AddElement DEF TwoInv
    <3> QED
      BY <2>2, <3>1, FS_Subset
  <2> QED
    BY <2>1, <2>2, StartedGrows DEF TwoInv, IInv
<1> QED
  BY <1>1, <1>2, NameNext, DaemonNext DEF TwoInv

LEMMA TwoInductive == Spec => []TwoInv
  BY TwoInit, TwoNext, PTL DEF Spec

\* What the script's comment says is true of two: as long as no third instance
\* was started, there is one at work at a time, however often the lock file was
\* removed and created anew.
THEOREM TwoServicesExclude == Spec => []TwoExclude
<1>1. TwoInv => TwoExclude
  BY TwoAreTwo, TwoAtWork DEF TwoInv, TwoExclude
<1> QED
  BY <1>1, TwoInductive, PTL

\* And they start one daemon between them: pidof tells the second of the
\* first's.
THEOREM TwoServicesOneDaemon == Spec => []OneDaemon
<1>1. ASSUME TwoInv, AtMostTwo PROVE Cardinality(daemons) <= 1
  <2>1. \A p, q \in daemons : p = q
    BY <1>1, TwoAreTwo DEF TwoInv, DaemonInv
  <2>2. CASE daemons = {}
    BY <2>2, FS_EmptySet
  <2>3. ASSUME NEW p \in daemons PROVE Cardinality(daemons) <= 1
    <3>1. daemons = {p}
      BY <2>1
    <3>2. Cardinality({p}) = 1
      BY FS_Singleton
    <3> QED
      BY <3>1, <3>2
  <2> QED
    BY <2>2, <2>3
<1>2. TwoInv => OneDaemon
  BY <1>1 DEF OneDaemon
<1> QED
  BY <1>2, TwoInductive, PTL
=============================================================================
