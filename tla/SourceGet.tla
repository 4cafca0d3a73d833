------------------------------ MODULE SourceGet ------------------------------
(***************************************************************************)
(* scripts/get: builds of several projects that share the directory        *)
(* sources/<package> fetch the package's files.  The lock is on the         *)
(* directory; the .url stamp next to a file tells what it was fetched from. *)
(* wget -c goes on with what is there.  (The .md5 file that get writes is   *)
(* read by nobody, and the stamps that it removes after a download, l.75,   *)
(* have names that build and unpack do not use.)                           *)
(***************************************************************************)
EXTENDS Naturals

CONSTANTS
  Projects,   \* builds that run at the same time
  Urls,       \* what PKG_URL may list
  Names,      \* file names (SOURCE_NAME)
  NameOf,     \* [Urls -> Names]: basename
  None,
  Mixed,      \* a file with the parts of two
  MaxTries,   \* NBWGET stops here (10 in the code)
  MaxRuns,    \* bound: how often a project builds the package
  MaxKills    \* bound: how often a run is killed

ASSUME Assumptions ==
  /\ NameOf \in [Urls -> Names]
  /\ None \notin Urls \cup Projects /\ Mixed \notin Urls \cup {None}
  /\ MaxTries \in Nat \ {0} /\ MaxRuns \in Nat /\ MaxKills \in Nat

Files  == [of: Urls \cup {None, Mixed}, whole: BOOLEAN]
NoFile == [of |-> None, whole |-> FALSE]

VARIABLES
  pc,      \* [Projects -> where its get is, or that it unpacks]
  wanted,  \* [Projects -> PKG_URL]
  todo,    \* [Projects -> what the loop has before it]
  url,     \* [Projects -> what the loop is at]
  tries,   \* [Projects -> NBWGET]
  lock,    \* who has locked the directory
  file,    \* [Names -> what is in the file]
  stamp,   \* [Names -> what the .url file holds]
  started, \* [Projects -> how often it has run]
  kills

store == <<file, stamp>>
loop  == <<wanted, todo, url, tries>>
vars  == <<pc, loop, lock, store, started, kills>>

PCs == {"idle", "flock", "loop", "fetch", "stamp", "unpack"}

TypeOK ==
  /\ pc \in [Projects -> PCs]
  /\ wanted \in [Projects -> SUBSET Urls] /\ todo \in [Projects -> SUBSET Urls]
  /\ url \in [Projects -> Urls \cup {None}]
  /\ tries \in [Projects -> 1..MaxTries]
  /\ lock \in Projects \cup {None}
  /\ file \in [Names -> Files] /\ stamp \in [Names -> Urls \cup {None}]
  /\ started \in [Projects -> 0..MaxRuns] /\ kills \in 0..MaxKills

Init ==
  /\ pc = [q \in Projects |-> "idle"]
  /\ wanted = [q \in Projects |-> {}] /\ todo = [q \in Projects |-> {}]
  /\ url = [q \in Projects |-> None] /\ tries = [q \in Projects |-> 1]
  /\ lock = None
  /\ file = [n \in Names |-> NoFile] /\ stamp = [n \in Names |-> None]
  /\ started = [q \in Projects |-> 0] /\ kills = 0

Goto(q, from, to) == pc[q] = from /\ pc' = [pc EXCEPT ![q] = to]
Name(q) == NameOf[url[q]]

\* Which files a project wants, its package.mk says when it starts.
Start(q) ==
  /\ Goto(q, "idle", "flock") /\ started[q] < MaxRuns
  /\ started' = [started EXCEPT ![q] = @ + 1]
  /\ \E us \in SUBSET Urls \ {{}} :
       /\ \A u, w \in us : NameOf[u] = NameOf[w] => u = w
       /\ wanted' = [wanted EXCEPT ![q] = us] /\ todo' = [todo EXCEPT ![q] = us]
  /\ UNCHANGED <<url, tries, lock, store, kills>>

NoLock(q) ==   \* mutant: nobody waits
  Goto(q, "flock", "loop") /\ UNCHANGED <<loop, lock, store, started, kills>>
Lock(q) ==
  /\ Goto(q, "flock", "loop") /\ lock = None
  /\ lock' = q
  /\ UNCHANGED <<loop, store, started, kills>>

HaveFile(u) == file[NameOf[u]].of = u   \* mutant: the file is looked for
\* The stamp says that it is there: continue.
HaveIt(u) == stamp[NameOf[u]] = u

Skip(q) ==
  /\ pc[q] = "loop"
  /\ \E u \in todo[q] : HaveIt(u) /\ todo' = [todo EXCEPT ![q] = @ \ {u}]
  /\ UNCHANGED <<pc, wanted, url, tries, lock, store, started, kills>>

RemoveStamp(q) ==
  /\ Goto(q, "loop", "fetch")
  /\ \E u \in todo[q] :
       /\ ~HaveIt(u)
       /\ url' = [url EXCEPT ![q] = u]
       /\ todo' = [todo EXCEPT ![q] = @ \ {u}]
       /\ stamp' = [stamp EXCEPT ![NameOf[u]] = None]
  /\ tries' = [tries EXCEPT ![q] = 1]
  /\ UNCHANGED <<wanted, lock, file, started, kills>>

\* What wget -c of u makes of f.  Of the part of another file, it fetches the
\* rest as if it were u's - or nothing, if that is no shorter than u.
Continued(f, u, whole) ==
  CASE f.of = None                  -> {[of |-> u, whole |-> whole]}
    [] f.of = u                     -> {[of |-> u, whole |-> whole \/ f.whole]}
    [] f.of \notin {None, u}        -> {f, [of |-> Mixed, whole |-> whole]}

\* From the URL or from the mirror.
Fetched(q) ==
  /\ Goto(q, "fetch", "stamp")
  /\ \E f \in Continued(file[Name(q)], url[q], TRUE) :
       file' = [file EXCEPT ![Name(q)] = f]
  /\ UNCHANGED <<loop, lock, stamp, started, kills>>

\* Both failed, after a part or at once.
Part(q) ==
  \E f \in Continued(file[Name(q)], url[q], FALSE) \cup {file[Name(q)]} :
    file' = [file EXCEPT ![Name(q)] = f]
TryAgain(q) ==
  tries' = [tries EXCEPT ![q] = @ + 1] /\ UNCHANGED <<pc, lock>>
StayLocked(q) ==   \* mutant: a lock that outlives its owner
  pc' = [pc EXCEPT ![q] = "idle"] /\ UNCHANGED <<lock, tries>>
GiveUp(q) ==
  pc' = [pc EXCEPT ![q] = "idle"] /\ lock' = None /\ UNCHANGED tries

TryOnceMore(q) ==   \* mutant: one try too many
  /\ pc[q] = "fetch" /\ Part(q)
  /\ IF tries[q] <= MaxTries THEN TryAgain(q) ELSE GiveUp(q)
  /\ UNCHANGED <<wanted, todo, url, stamp, started, kills>>
StampAnyway(q) ==   \* mutant: the loop is left, but not the script
  /\ pc[q] = "fetch" /\ Part(q)
  /\ IF tries[q] < MaxTries THEN TryAgain(q)
     ELSE pc' = [pc EXCEPT ![q] = "stamp"] /\ UNCHANGED <<lock, tries>>
  /\ UNCHANGED <<wanted, todo, url, stamp, started, kills>>
NotFetched(q) ==
  /\ pc[q] = "fetch" /\ Part(q)
  /\ IF tries[q] < MaxTries THEN TryAgain(q) ELSE GiveUp(q)
  /\ UNCHANGED <<wanted, todo, url, stamp, started, kills>>

Stamp(q) ==
  /\ Goto(q, "stamp", "loop")
  /\ stamp' = [stamp EXCEPT ![Name(q)] = url[q]]
  /\ UNCHANGED <<loop, lock, file, started, kills>>

\* get ends, and with it its lock; unpack extracts the files.
Leave(q) ==
  /\ Goto(q, "loop", "unpack") /\ todo[q] = {}
  /\ lock' = None
  /\ UNCHANGED <<loop, store, started, kills>>

Unpacked(q) ==
  /\ Goto(q, "unpack", "idle")
  /\ UNCHANGED <<loop, lock, store, started, kills>>

Kill(q) ==
  /\ pc[q] # "idle" /\ kills < MaxKills
  /\ pc' = [pc EXCEPT ![q] = "idle"] /\ kills' = kills + 1
  /\ lock' = IF lock = q THEN None ELSE lock
  /\ UNCHANGED <<loop, store, started>>

Get(q) ==
  \/ Lock(q) \/ Skip(q) \/ RemoveStamp(q) \/ Fetched(q) \/ NotFetched(q)
  \/ Stamp(q) \/ Leave(q) \/ Unpacked(q)
Next == \E q \in Projects : Start(q) \/ Get(q) \/ Kill(q)

Spec == Init /\ [][Next]_vars
\* A run that can go on does; wget ends (--timeout), whether it succeeds or not.
FairSpec == Spec /\ \A q \in Projects : WF_vars(Get(q))

----------------------------------------------------------------------------
(* Properties.                                                             *)

DistinctNames == \A u, w \in Urls : NameOf[u] = NameOf[w] => u = w

\* Whatever was killed or failed before, and whoever else downloads: a file
\* with a stamp is all of what the stamp says, as long as no two URLs share a
\* file name.
StampTruthful ==
  DistinctNames =>
    \A n \in Names : stamp[n] # None => file[n] = [of |-> stamp[n], whole |-> TRUE]

\* What a build unpacks is whole and what its package.mk asks for, while other
\* builds may be downloading - under the same condition.
UnpacksWhole ==
  DistinctNames =>
    \A q \in Projects : pc[q] = "unpack" =>
      \A u \in wanted[q] : file[NameOf[u]] = [of |-> u, whole |-> TRUE]

\* No two builds write to the package's files at the same time (l.33).
OneDownload ==
  \A p, q \in Projects :
    pc[p] \in {"fetch", "stamp"} /\ pc[q] \in {"fetch", "stamp"} => p = q

\* Every run ends, however often the servers fail.
RunEnds == \A q \in Projects : pc[q] # "idle" ~> pc[q] = "idle"
=============================================================================
