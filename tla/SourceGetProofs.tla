--------------------------- MODULE SourceGetProofs ---------------------------
(* Downloads for any number of projects, files, tries and kills: one at a  *)
(* time, and a stamped file is whole.                                      *)
EXTENDS SourceGet, TLAPS

\* Who is past flock and before unpack has the lock.
LockInv ==
  \A q \in Projects : pc[q] \in {"loop", "fetch", "stamp"} => lock = q

\* The loop is at a file that the project wants, and is left when none is left.
LoopInv ==
  \A q \in Projects :
    /\ todo[q] \subseteq wanted[q]
    /\ pc[q] \in {"fetch", "stamp"} => url[q] \in wanted[q]
    /\ pc[q] = "unpack" => todo[q] = {}

\* A file has been fetched from the URL with its name, and a stamp is of it.
FileInv ==
  \A n \in Names :
    /\ file[n].of # None => file[n].of \in Urls /\ NameOf[file[n].of] = n
    /\ stamp[n] # None => /\ NameOf[stamp[n]] = n
                          /\ file[n] = [of |-> stamp[n], whole |-> TRUE]

\* wget runs without a stamp, and leaves a whole file.
FetchInv ==
  \A q \in Projects :
    /\ pc[q] = "fetch" => stamp[Name(q)] = None
    /\ pc[q] = "stamp" => file[Name(q)] = [of |-> url[q], whole |-> TRUE]

\* What the loop is through with has its stamp, and keeps it: whoever wants
\* the file wants it from the same URL.
GotInv ==
  \A q \in Projects : pc[q] # "idle" =>
    \A u \in wanted[q] \ todo[q] :
      HaveIt(u) \/ (pc[q] \in {"fetch", "stamp"} /\ u = url[q])

StoreInv == FileInv /\ FetchInv /\ GotInv
IInv     == TypeOK /\ LockInv /\ LoopInv /\ (DistinctNames => StoreInv)

LEMMA IInvInit == Init => IInv
<1> SUFFICES ASSUME Init PROVE IInv
  OBVIOUS
<1> USE Assumptions
<1>1. TypeOK
  BY DEF Init, TypeOK, PCs, Files, NoFile
<1>2. LockInv /\ LoopInv /\ FetchInv /\ GotInv
  BY DEF Init, LockInv, LoopInv, FetchInv, GotInv
<1>3. FileInv
  BY DEF Init, FileInv, NoFile
<1> QED
  BY <1>1, <1>2, <1>3 DEF IInv, StoreInv

\* What wget makes of a file is a file.
LEMMA ContinuedType ==
  ASSUME NEW f \in Files, NEW u \in Urls, NEW w \in BOOLEAN
  PROVE  Continued(f, u, w) \subseteq Files
  BY DEF Continued, Files

\* wget of u adds to a part of u only, and makes it whole if it succeeds.
LEMMA ContinuedOwn ==
  ASSUME NEW f \in Files, NEW u \in Urls, f.of \in {None, u}
  PROVE  /\ \A w \in BOOLEAN : \A g \in Continued(f, u, w) : g.of = u
         /\ Continued(f, u, TRUE) = {[of |-> u, whole |-> TRUE]}
<1>1. CASE f.of = None
  BY <1>1, Assumptions DEF Continued
<1>2. CASE f.of = u
  <2>1. f.of # None
    BY <1>2, Assumptions
  <2>2. \A w \in BOOLEAN :
          Continued(f, u, w) = {[of |-> u, whole |-> w \/ f.whole]}
    BY <1>2, <2>1 DEF Continued
  <2>3. \A w \in BOOLEAN : \A g \in Continued(f, u, w) : g.of = u
    BY <2>2
  <2>4. [of |-> u, whole |-> TRUE \/ f.whole] = [of |-> u, whole |-> TRUE]
    OBVIOUS
  <2>5. Continued(f, u, TRUE) = {[of |-> u, whole |-> TRUE]}
    BY <2>2, <2>4, Zenon
  <2> QED
    BY <2>3, <2>5
<1> QED
  BY <1>1, <1>2

\* Every step keeps the types.
LEMMA TypeNext == TypeOK /\ LoopInv /\ [Next]_vars => TypeOK'
<1> SUFFICES ASSUME TypeOK, LoopInv, [Next]_vars PROVE TypeOK'
  OBVIOUS
<1> USE Assumptions
<1>1. ASSUME NEW q \in Projects, Start(q) PROVE TypeOK'
  <2>1. started'[q] \in 0..MaxRuns
    BY <1>1 DEF TypeOK, Start
  <2> QED
    BY <1>1, <2>1 DEF TypeOK, Start, Goto, PCs, store
<1>2. ASSUME NEW q \in Projects, Lock(q) \/ Skip(q) \/ Leave(q) \/ Unpacked(q)
      PROVE  TypeOK'
  BY <1>2 DEF TypeOK, Lock, Skip, Leave, Unpacked, Goto, PCs, store, loop
<1>3. ASSUME NEW q \in Projects, RemoveStamp(q) PROVE TypeOK'
  <2>1. 1 \in 1..MaxTries
    OBVIOUS
  <2> QED
    BY <1>3, <2>1 DEF TypeOK, RemoveStamp, Goto, PCs
<1>4. ASSUME NEW q \in Projects, pc[q] \in {"fetch", "stamp"}
      PROVE  /\ url[q] \in Urls /\ Name(q) \in Names
             /\ file[Name(q)] \in Files
             /\ \A w \in BOOLEAN : Continued(file[Name(q)], url[q], w) \subseteq Files
  <2>1. url[q] \in Urls /\ Name(q) \in Names
    BY <1>4 DEF LoopInv, TypeOK, Name
  <2> QED
    BY <2>1, ContinuedType DEF TypeOK
<1>5. ASSUME NEW q \in Projects, Fetched(q) PROVE TypeOK'
  <2>1. PICK f \in Continued(file[Name(q)], url[q], TRUE) :
          file' = [file EXCEPT ![Name(q)] = f]
    BY <1>5 DEF Fetched
  <2>2. f \in Files
    BY <1>4, <1>5, <2>1 DEF Fetched, Goto
  <2> QED
    BY <1>5, <2>1, <2>2 DEF TypeOK, Fetched, Goto, PCs, loop
<1>6. ASSUME NEW q \in Projects, NotFetched(q) PROVE TypeOK'
  <2>1. file' \in [Names -> Files]
    BY <1>4, <1>6 DEF TypeOK, NotFetched, Part
  <2>2. CASE tries[q] < MaxTries
    <3>1. tries[q] + 1 \in 1..MaxTries
      BY <2>2 DEF TypeOK
    <3> QED
      BY <1>6, <2>1, <2>2, <3>1 DEF TypeOK, NotFetched, TryAgain
  <2>3. CASE ~(tries[q] < MaxTries)
    BY <1>6, <2>1, <2>3 DEF TypeOK, NotFetched, GiveUp, PCs
  <2> QED
    BY <2>2, <2>3
<1>7. ASSUME NEW q \in Projects, Stamp(q) PROVE TypeOK'
  BY <1>4, <1>7 DEF TypeOK, Stamp, Goto, PCs, loop
<1>8. ASSUME NEW q \in Projects, Kill(q) PROVE TypeOK'
  BY <1>8 DEF TypeOK, Kill, PCs, store, loop
<1>9. CASE UNCHANGED vars
  BY <1>9 DEF TypeOK, vars, store, loop
<1> QED
  BY <1>1, <1>2, <1>3, <1>5, <1>6, <1>7, <1>8, <1>9 DEF Next, Get

\* No step takes the lock from its owner, or moves the loop to another file.
LEMMA LockNext == TypeOK /\ LockInv /\ LoopInv /\ [Next]_vars => LockInv' /\ LoopInv'
<1> SUFFICES ASSUME TypeOK, LockInv, LoopInv, [Next]_vars
             PROVE  LockInv' /\ LoopInv'
  OBVIOUS
<1> USE DEF LockInv, LoopInv, TypeOK, Goto, loop, store
<1>1. ASSUME NEW q \in Projects, Start(q) PROVE LockInv' /\ LoopInv'
  BY <1>1 DEF Start
<1>2. ASSUME NEW q \in Projects, Lock(q) PROVE LockInv' /\ LoopInv'
  BY <1>2, Assumptions DEF Lock
<1>3. ASSUME NEW q \in Projects, Skip(q) \/ RemoveStamp(q)
      PROVE  LockInv' /\ LoopInv'
  BY <1>3 DEF Skip, RemoveStamp
<1>4. ASSUME NEW q \in Projects, Fetched(q) \/ Stamp(q) PROVE LockInv' /\ LoopInv'
  BY <1>4 DEF Fetched, Stamp
<1>5. ASSUME NEW q \in Projects, NotFetched(q) PROVE LockInv' /\ LoopInv'
  BY <1>5 DEF NotFetched, TryAgain, GiveUp
<1>6. ASSUME NEW q \in Projects, Leave(q) \/ Unpacked(q) PROVE LockInv' /\ LoopInv'
  BY <1>6 DEF Leave, Unpacked
<1>7. ASSUME NEW q \in Projects, Kill(q) PROVE LockInv' /\ LoopInv'
  BY <1>7 DEF Kill
<1>8. CASE UNCHANGED vars
  BY <1>8 DEF vars
<1> QED
  BY <1>1, <1>2, <1>3, <1>4, <1>5, <1>6, <1>7, <1>8 DEF Next, Get

\* Where pc, wanted, todo and url stay but for q, and file and stamp for all,
\* what holds of the others still does.
LEMMA StoreNext ==
  TypeOK /\ LockInv /\ LoopInv /\ DistinctNames /\ StoreInv /\ [Next]_vars
    => StoreInv'
<1> SUFFICES ASSUME TypeOK, LockInv, LoopInv, DistinctNames, StoreInv,
                    [Next]_vars
             PROVE  StoreInv'
  OBVIOUS
<1> USE Assumptions
<1> USE DEF StoreInv, TypeOK, Goto, loop, store, HaveIt
<1>1. ASSUME NEW q \in Projects, Start(q) PROVE StoreInv'
  BY <1>1 DEF Start, FileInv, FetchInv, GotInv, Name
<1>2. ASSUME NEW q \in Projects, Lock(q) \/ Leave(q) \/ Unpacked(q)
      PROVE  StoreInv'
  <2>1. FileInv'
    BY <1>2 DEF Lock, Leave, Unpacked, FileInv
  <2>2. FetchInv'
    BY <1>2 DEF Lock, Leave, Unpacked, FetchInv, Name
  <2>3. GotInv'
    BY <1>2 DEF Lock, Leave, Unpacked, GotInv
  <2> QED
    BY <2>1, <2>2, <2>3
<1>3. ASSUME NEW q \in Projects, Skip(q) PROVE StoreInv'
  BY <1>3 DEF Skip, FileInv, FetchInv, GotInv, Name
<1>4. ASSUME NEW q \in Projects, RemoveStamp(q) PROVE StoreInv'
  <2>1. PICK u \in todo[q] :
          /\ ~HaveIt(u)
          /\ url' = [url EXCEPT ![q] = u]
          /\ todo' = [todo EXCEPT ![q] = @ \ {u}]
          /\ stamp' = [stamp EXCEPT ![NameOf[u]] = None]
    BY <1>4 DEF RemoveStamp
  <2>2. u \in Urls /\ NameOf[u] \in Names
    BY <2>1
  <2>3. FileInv'
    BY <1>4, <2>1, <2>2 DEF RemoveStamp, FileInv
  <2>4. \A p \in Projects \ {q} : pc[p] \notin {"fetch", "stamp"}
    BY <1>4 DEF RemoveStamp, LockInv
  <2>5. FetchInv'
    BY <1>4, <2>1, <2>2, <2>4 DEF RemoveStamp, FetchInv, Name
  <2>6. \A w \in Urls : HaveIt(w) => HaveIt(w)'
    BY <2>1, <2>2 DEF DistinctNames
  <2>7. GotInv'
    BY <1>4, <2>1, <2>2, <2>4, <2>6 DEF RemoveStamp, GotInv
  <2> QED
    BY <2>3, <2>5, <2>7
<1>5. ASSUME NEW q \in Projects, pc[q] = "fetch", NEW w \in BOOLEAN,
             NEW f \in Continued(file[Name(q)], url[q], w) \cup
                       IF w THEN {} ELSE {file[Name(q)]},
             file' = [file EXCEPT ![Name(q)] = f],
             UNCHANGED <<wanted, todo, url, stamp>>,
             \/ w /\ pc' = [pc EXCEPT ![q] = "stamp"]
             \/ pc' = pc
             \/ pc' = [pc EXCEPT ![q] = "idle"]
      PROVE  StoreInv'
  <2>1. url[q] \in Urls /\ Name(q) \in Names /\ NameOf[url[q]] = Name(q)
    BY <1>5 DEF LoopInv, Name
  <2>2. file[Name(q)] \in Files /\ file[Name(q)].of \in {None, url[q]}
    BY <2>1 DEF FileInv, DistinctNames
  <2>3. /\ f.of \in {None, url[q]}
        /\ w => f = [of |-> url[q], whole |-> TRUE]
    <3>1. /\ \A g \in Continued(file[Name(q)], url[q], w) : g.of = url[q]
          /\ Continued(file[Name(q)], url[q], TRUE)
               = {[of |-> url[q], whole |-> TRUE]}
      BY <2>1, <2>2, ContinuedOwn
    <3>2. CASE w = TRUE
      BY <1>5, <3>1, <3>2
    <3>3. CASE w = FALSE
      BY <1>5, <2>2, <3>1, <3>3
    <3> QED
      BY <3>2, <3>3
  <2>4. stamp[Name(q)] = None
    BY <1>5 DEF FetchInv
  <2>5. FileInv'
    <3>1. /\ \A n \in Names : n # Name(q) => file'[n] = file[n]
          /\ file'[Name(q)] = f /\ stamp' = stamp
      BY <1>5, <2>1
    <3>2. ASSUME NEW n \in Names
          PROVE  /\ file'[n].of # None => file'[n].of \in Urls /\ NameOf[file'[n].of] = n
                 /\ stamp'[n] # None => /\ NameOf[stamp'[n]] = n
                                        /\ file'[n] = [of |-> stamp'[n], whole |-> TRUE]
      <4>1. CASE n = Name(q)
        BY <2>1, <2>3, <2>4, <3>1, <4>1
      <4>2. CASE n # Name(q)
        BY <3>1, <4>2 DEF FileInv
      <4> QED
        BY <4>1, <4>2
    <3> QED
      BY <3>2 DEF FileInv
  <2>6. \A p \in Projects \ {q} : pc[p] \notin {"fetch", "stamp"}
    BY <1>5 DEF LockInv
  <2>7. FetchInv'
    <3>1. \A p \in Projects \ {q} : pc'[p] \notin {"fetch", "stamp"}
      BY <1>5, <2>6
    <3>2. pc'[q] = "fetch" => stamp'[NameOf[url'[q]]] = None
      BY <1>5, <2>4 DEF Name
    <3>3. pc'[q] = "stamp" => file'[NameOf[url'[q]]] = [of |-> url'[q], whole |-> TRUE]
      BY <1>5, <2>1, <2>3 DEF Name
    <3> QED
      BY <3>1, <3>2, <3>3 DEF FetchInv, Name
  <2>8. GotInv'
    BY <1>5 DEF GotInv
  <2> QED
    BY <2>5, <2>7, <2>8
<1>6. ASSUME NEW q \in Projects, Fetched(q) PROVE StoreInv'
  <2>1. PICK f \in Continued(file[Name(q)], url[q], TRUE) :
          file' = [file EXCEPT ![Name(q)] = f]
    BY <1>6 DEF Fetched
  <2> QED
    BY <1>5, <1>6, <2>1 DEF Fetched
<1>7. ASSUME NEW q \in Projects, NotFetched(q) PROVE StoreInv'
  <2>1. PICK f \in Continued(file[Name(q)], url[q], FALSE) \cup {file[Name(q)]} :
          file' = [file EXCEPT ![Name(q)] = f]
    BY <1>7 DEF NotFetched, Part
  <2>2. pc' = pc \/ pc' = [pc EXCEPT ![q] = "idle"]
    BY <1>7 DEF NotFetched, TryAgain, GiveUp
  <2> QED
    BY <1>5, <1>7, <2>1, <2>2 DEF NotFetched
<1>8. ASSUME NEW q \in Projects, Stamp(q) PROVE StoreInv'
  <2>1. url[q] \in Urls /\ Name(q) \in Names /\ NameOf[url[q]] = Name(q)
    BY <1>8 DEF Stamp, LoopInv, Name
  <2>2. FileInv'
    BY <1>8, <2>1 DEF Stamp, FileInv, FetchInv
  <2>3. \A p \in Projects \ {q} : pc[p] \notin {"fetch", "stamp"}
    BY <1>8 DEF Stamp, LockInv
  <2>4. FetchInv'
    BY <1>8, <2>3 DEF Stamp, FetchInv, Name
  <2>5. \A w \in Urls : HaveIt(w) \/ w = url[q] => HaveIt(w)'
    BY <1>8, <2>1 DEF Stamp, DistinctNames
  <2>6. GotInv'
    BY <1>8, <2>3, <2>5 DEF Stamp, GotInv
  <2> QED
    BY <2>2, <2>4, <2>6
<1>9. ASSUME NEW q \in Projects, Kill(q) PROVE StoreInv'
  BY <1>9 DEF Kill, FileInv, FetchInv, GotInv, Name
<1>10. CASE UNCHANGED vars
  BY <1>10 DEF vars, FileInv, FetchInv, GotInv, Name
<1> QED
  BY <1>1, <1>2, <1>3, <1>4, <1>6, <1>7, <1>8, <1>9, <1>10 DEF Next, Get

LEMMA IInvNext == IInv /\ [Next]_vars => IInv'
<1>1. DistinctNames' = DistinctNames
  BY DEF DistinctNames
<1> QED
  BY <1>1, TypeNext, LockNext, StoreNext DEF IInv

\* The variables keep their types.
THEOREM TypeCorrect == Spec => []TypeOK
<1>1. IInv => TypeOK
  BY DEF IInv
<1> QED
  BY <1>1, IInvInit, IInvNext, PTL DEF Spec

\* However many projects build the package: one of them downloads at a time.
THEOREM DownloadsExclude == Spec => []OneDownload
<1>1. IInv => OneDownload
  BY DEF IInv, LockInv, OneDownload
<1> QED
  BY <1>1, IInvInit, IInvNext, PTL DEF Spec

\* A stamped file is whole after any number of kills, failures and runs.
THEOREM StampsHold == Spec => []StampTruthful
<1>1. IInv => StampTruthful
  BY DEF IInv, StoreInv, FileInv, StampTruthful
<1> QED
  BY <1>1, IInvInit, IInvNext, PTL DEF Spec

\* What is unpacked is whole, whatever the other projects are downloading.
THEOREM UnpackingFindsWhole == Spec => []UnpacksWhole
<1>1. ASSUME IInv, DistinctNames, NEW q \in Projects, pc[q] = "unpack",
             NEW u \in wanted[q]
      PROVE  file[NameOf[u]] = [of |-> u, whole |-> TRUE]
  <2>1. HaveIt(u) /\ u \in Urls /\ NameOf[u] \in Names
    BY <1>1, Assumptions DEF IInv, LoopInv, StoreInv, GotInv, TypeOK
  <2> QED
    BY <1>1, <2>1, Assumptions DEF IInv, StoreInv, FileInv, HaveIt
<1>2. IInv => UnpacksWhole
  BY <1>1 DEF UnpacksWhole
<1> QED
  BY <1>2, IInvInit, IInvNext, PTL DEF Spec
=============================================================================
