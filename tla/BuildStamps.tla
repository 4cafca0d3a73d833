----------------------------- MODULE BuildStamps -----------------------------
(***************************************************************************)
(* How the build system decides what is up to date: scripts/image,         *)
(* install, build, unpack, clean, uninstall and skip_unpack, and the stamp  *)
(* files that survive between their runs.                                  *)
(*                                                                         *)
(* A script that calls another is a frame of a call stack.  A stamp holds  *)
(* the checksum of the package's directory (PKG_DEEPMD5); the directory's  *)
(* state, that checksum and what is made of it are one value, a version.   *)
(* A build reads that directory three times: when its tree is unpacked, when *)
(* package.mk is sourced, and while it is made.                            *)
(* The developer edits packages whenever he likes, also during a run; a run *)
(* is aborted by an error (set -e) or an interrupt at any step.            *)
(***************************************************************************)
EXTENDS Naturals, Sequences, SequencesExt

CONSTANTS
  Packages,   \* what has a package.mk
  Items,      \* package:target, what build and install are called with
  Deps,       \* PKG_DEPENDS_*: [Items -> SUBSET Items]
  Versions,   \* states of a package's directory
  NoSources,  \* packages without sources: unpack leaves them alone
  Virtual,    \* PKG_SECTION="virtual": nothing is built of them
  Shadowed,   \* [Packages -> packages whose trees $BUILD/$1-* matches too]
  Tools,      \* what image builds first
  Roots,      \* what image installs
  None,       \* no such file or directory
  Half,       \* a stamp that was being written
  Partial,    \* a tree or a product that is not complete
  MaxTroubles \* bound: edits and aborted runs, together

Targets == {"host", "target"}
Stamps  == Versions \cup {None, Half}
Things  == Versions \cup {None, Partial}
NoTree  == [stamp |-> None, content |-> None]

\* What an item depends on, also by way of others.
AllDeps(i) ==
  {d \in Items : \A C \in SUBSET Items :
     Deps[i] \subseteq C /\ (\A j \in C : Deps[j] \subseteq C) => d \in C}

\* With an item that depends on itself build would call itself for ever.
ASSUME Assumptions ==
  /\ Items \subseteq [pkg: Packages, tgt: Targets]
  /\ \A p \in Packages : \E i \in Items : i.pkg = p
  /\ Deps \in [Items -> SUBSET Items] /\ \A i \in Items : i \notin AllDeps(i)
  /\ NoSources \subseteq Packages /\ Virtual \subseteq NoSources
  /\ Shadowed \in [Packages -> SUBSET Packages]
  /\ Tools \subseteq Items /\ Roots \subseteq Items
  /\ {None, Half, Partial} \cap Versions = {}
  /\ None # Half /\ None # Partial
  /\ MaxTroubles \in Nat

VARIABLES
  src,        \* [Packages -> Versions]: the packages' directories
  tree,       \* [Packages -> the unpacked tree, with its stamp]
  product,    \* [Items -> .install_pkg, or what went into the toolchain]
  stamp,      \* [Items -> the build stamp]
  image,      \* [Packages -> what of it is below $INSTALL]
  installed,  \* the items with an install stamp
  stack,      \* the scripts that are running
  phase,      \* where scripts/image is, "idle" if it is not running
  roots,      \* what image has yet to build or install in this phase
  edited,     \* history: the packages edited since the run began
  compiled,   \* history: the items compiled since the run began
  spoiled,    \* history: packages to which one of the things below happened
  troubles    \* the edits and aborts so far

files == <<tree, product, stamp, image, installed>>
runs  == <<phase, roots>>
past  == <<edited, compiled, spoiled, troubles>>
vars  == <<src, files, stack, runs, past>>

Steps == [install |-> {"check", "deps", "touch"},
          build   |-> {"check", "deps", "make", "stamp"},
          unpack  |-> {"look", "extract", "patch", "unstamp", "stamp"},
          clean   |-> {"remove", "removing", "unstamp"},
          uninstall |-> {"remove", "unstamp"}]
Phases == {"idle", "tools", "install"}
Frames == [script: DOMAIN Steps, pc: UNION {Steps[s] : s \in DOMAIN Steps},
           item: Items, todo: SUBSET Items, recipe: Versions \cup {None}]

TypeOK ==
  /\ src \in [Packages -> Versions]
  /\ tree \in [Packages -> [stamp: Stamps, content: Things]]
  /\ product \in [Items -> Things] /\ stamp \in [Items -> Stamps]
  /\ image \in [Packages -> Things] /\ installed \subseteq Items
  /\ stack \in Seq(Frames) /\ \A k \in DOMAIN stack :
                                stack[k].pc \in Steps[stack[k].script]
  /\ phase \in Phases /\ roots \subseteq Items
  /\ edited \subseteq Packages /\ compiled \subseteq Items
  /\ spoiled \subseteq Packages
  /\ troubles \in 0..MaxTroubles

Init ==
  /\ \E v \in Versions : src = [p \in Packages |-> v]
  /\ tree = [p \in Packages |-> NoTree]
  /\ product = [i \in Items |-> None] /\ stamp = [i \in Items |-> None]
  /\ image = [p \in Packages |-> None] /\ installed = {}
  /\ stack = <<>> /\ phase = "idle" /\ roots = {}
  /\ edited = {} /\ compiled = {} /\ spoiled = {}
  /\ troubles = 0

----------------------------------------------------------------------------
(* The call stack.                                                         *)

Frame(script, i, pc) ==
  [script |-> script, pc |-> pc, item |-> i, todo |-> {}, recipe |-> None]
Install(i) == <<Frame("install", i, "check")>>
Clean(i)   == <<Frame("clean", i, "remove")>>
Uninstall(i) == <<Frame("uninstall", i, "remove")>>
\* The first thing that build does is to call unpack.
Build(i)   == <<Frame("build", i, "check"), Frame("unpack", i, "look")>>

Top == Last(stack)
At(script, pc) == stack # <<>> /\ Top.script = script /\ Top.pc = pc
Package == Top.item.pkg

Then(pc)         == [Top EXCEPT !.pc = pc]
Goto(pc)         == stack' = Append(Front(stack), Then(pc))
Return           == stack' = Front(stack)
Call(script, top) == stack' = Append(Front(stack), top) \o script

\* Loops over PKG_DEPENDS_*, in any order.
CallDeps(Script(_)) ==
  \E d \in Top.todo : Call(Script(d), [Top EXCEPT !.todo = @ \ {d}])

ItemsOf(p)   == {i \in Items : i.pkg = p}
\* What build puts in the tree itself, the rest goes into the toolchain.
InTreeOf(ps) == {i \in Items : i.pkg \in ps /\ i.tgt = "target"}
Without(f, is) == [i \in Items |-> IF i \in is THEN None ELSE f[i]]

----------------------------------------------------------------------------
(* scripts/clean and scripts/unpack.                                       *)

Stampless(p) == tree[p].content # None /\ tree[p].stamp = None

\* rm -rf takes its time, and the stamp may be the first to go.
CleanStart ==
  /\ At("clean", "remove") /\ Goto("removing")
  /\ IF tree[Package].content = None
     THEN UNCHANGED <<tree, product, spoiled>>
     ELSE /\ \E s \in {None, tree[Package].stamp} :
               tree' = [tree EXCEPT ![Package] =
                          [stamp |-> s, content |-> Partial]]
          /\ product' = [i \in Items |->
                           IF i \in InTreeOf({Package}) /\ product[i] # None
                           THEN Partial ELSE product[i]]
          /\ spoiled' = spoiled \cup {Package}
  /\ UNCHANGED <<src, stamp, image, installed, runs, edited, compiled, troubles>>

\* With its own trees, those go that match $BUILD/$1-* and have no stamp: what
\* was not unpacked to the end, and what has no sources to unpack.  The build
\* stamps of the others stay, and nothing but those tells of the latter.
CleanEnd ==
  LET gone == {Package} \cup {q \in Shadowed[Package] : Stampless(q)}
      lost == {q \in gone \cap NoSources :
                 \E i \in InTreeOf({q}) : stamp[i] # None}
  IN  /\ At("clean", "removing") /\ Goto("unstamp")
      /\ tree' = [p \in Packages |-> IF p \in gone THEN NoTree ELSE tree[p]]
      /\ product' = Without(product, InTreeOf(gone))
      /\ spoiled' = (spoiled \ ({Package} \ NoSources)) \cup lost
      /\ UNCHANGED <<src, stamp, image, installed, runs, edited, compiled,
                     troubles>>

CleanUnstamp ==
  /\ At("clean", "unstamp") /\ Return
  /\ stamp' = Without(stamp, ItemsOf(Package))
  /\ spoiled' = spoiled \ {Package}
  /\ UNCHANGED <<src, tree, product, image, installed, runs, edited, compiled,
                 troubles>>

Unpacked(p) == tree[p].stamp = src[p]
KeepTree(p) == p \in NoSources \/ Unpacked(p)
Removable(p) == p \notin NoSources /\ tree[p].content # None

LookUnstamps ==   \* mutant: the build stamps go before the tree is looked at
  /\ At("unpack", "look")
  /\ IF KeepTree(Package) THEN Return
     ELSE IF Removable(Package) THEN Call(Clean(Top.item), Then("extract"))
     ELSE Goto("extract")
  /\ stamp' = Without(stamp, ItemsOf(Package))
  /\ UNCHANGED <<src, tree, product, image, installed, runs, past>>
\* A tree whose stamp is missing, incomplete or of another version goes.
Look ==
  /\ At("unpack", "look")
  /\ IF KeepTree(Package) THEN Return
     ELSE IF Removable(Package) THEN Call(Clean(Top.item), Then("extract"))
     ELSE Goto("extract")
  /\ UNCHANGED <<src, files, runs, past>>

Extract ==
  /\ At("unpack", "extract") /\ Goto("patch")
  /\ tree' = [tree EXCEPT ![Package].content = Partial]
  /\ UNCHANGED <<src, product, stamp, image, installed, runs, past>>

Patch ==
  /\ At("unpack", "patch") /\ Goto("unstamp")
  /\ tree' = [tree EXCEPT ![Package].content = src[Package]]
  /\ UNCHANGED <<src, product, stamp, image, installed, runs, past>>

KeepBuildStamps ==   \* mutant: the build stamps stay
  /\ At("unpack", "unstamp") /\ Goto("stamp")
  /\ UNCHANGED <<src, files, runs, past>>
UnpackUnstamp ==
  /\ At("unpack", "unstamp") /\ Goto("stamp")
  /\ stamp' = Without(stamp, ItemsOf(Package))
  /\ UNCHANGED <<src, tree, product, image, installed, runs, past>>

UnpackStamp ==
  /\ At("unpack", "stamp") /\ Return
  /\ tree' = [tree EXCEPT ![Package].stamp = src[Package]]
  /\ UNCHANGED <<src, product, stamp, image, installed, runs, past>>

----------------------------------------------------------------------------
(* scripts/build.                                                          *)

UpToDate(i) == stamp[i] = src[i.pkg]

\* package.mk is sourced, for the dependencies and for the functions that will
\* build the package.  A package with one item that has no sources has now
\* neither a stamp nor a tree of its past.
AtDeps(deps) == [script |-> "build", pc |-> "deps", item |-> Top.item,
                 todo |-> deps, recipe |-> src[Package]]
Rebuild(deps) ==
  /\ stack' = Append(Front(stack), AtDeps(deps))
  /\ stamp' = [stamp EXCEPT ![Top.item] = None]
  /\ spoiled' = IF Package \in NoSources /\ ItemsOf(Package) = {Top.item}
                THEN spoiled \ {Package} ELSE spoiled

CheckWithoutDeps ==   \* mutant: the dependencies are not built
  /\ At("build", "check")
  /\ IF UpToDate(Top.item)
     THEN Return /\ UNCHANGED <<stamp, spoiled>>
     ELSE Rebuild({})
  /\ UNCHANGED <<src, tree, product, image, installed, runs, edited, compiled,
                 troubles>>
CheckStamp ==
  /\ At("build", "check")
  /\ IF UpToDate(Top.item)
     THEN Return /\ UNCHANGED <<stamp, spoiled>>
     ELSE Rebuild(Deps[Top.item])
  /\ UNCHANGED <<src, tree, product, image, installed, runs, edited, compiled,
                 troubles>>

BuildDeps ==
  /\ At("build", "deps") /\ CallDeps(Build)
  /\ UNCHANGED <<src, files, runs, past>>

DepsBuilt == At("build", "deps") /\ Top.todo = {}

\* The old product goes.  mkdir makes a tree where there is none.
Compile ==
  /\ DepsBuilt /\ Package \notin Virtual /\ Goto("make")
  /\ product' = [product EXCEPT ![Top.item] = Partial]
  /\ tree' = [tree EXCEPT ![Package].content = IF @ = None THEN Partial ELSE @]
  /\ UNCHANGED <<src, stamp, image, installed, runs, past>>

\* The functions that were read, the files they copy, and the tree.
Ingredients ==
  {Top.recipe, src[Package]}
    \cup (IF Package \in NoSources THEN {} ELSE {tree[Package].content})
Make ==
  LET mixed == Ingredients # {src[Package]}
  IN  /\ At("build", "make") /\ Goto("stamp")
      /\ product' = [product EXCEPT ![Top.item] =
                       IF mixed THEN Partial ELSE src[Package]]
      /\ spoiled' = IF mixed THEN spoiled \cup {Package} ELSE spoiled
      /\ compiled' = compiled \cup {Top.item}
      /\ UNCHANGED <<src, tree, stamp, image, installed, runs, edited, troubles>>

\* The checksum is taken now, not when the build began.
BuildStamp ==
  /\ At("build", "stamp") \/ (DepsBuilt /\ Package \in Virtual)
  /\ Return
  /\ stamp' = [stamp EXCEPT ![Top.item] = src[Package]]
  /\ UNCHANGED <<src, tree, product, image, installed, runs, past>>

----------------------------------------------------------------------------
(* scripts/install and scripts/image.                                      *)

\* Dependencies are installed for the target only, after the item is built.
InstallCheck ==
  /\ At("install", "check")
  /\ IF Top.item \in installed THEN Return
     ELSE Call(Build(Top.item),
               [Then("deps") EXCEPT
                  !.todo = IF Top.item.tgt = "target" THEN Deps[Top.item]
                                                      ELSE {}])
  /\ UNCHANGED <<src, files, runs, past>>

InstallDeps ==
  /\ At("install", "deps") /\ CallDeps(Install)
  /\ UNCHANGED <<src, files, runs, past>>

CopyProduct ==
  /\ At("install", "deps") /\ Top.todo = {} /\ Goto("touch")
  /\ image' = IF Top.item.tgt = "target"
              THEN [image EXCEPT ![Package] = product[Top.item]] ELSE image
  /\ UNCHANGED <<src, tree, product, stamp, installed, runs, past>>

TouchStamp ==
  /\ At("install", "touch") /\ Return
  /\ installed' = installed \cup {Top.item}
  /\ UNCHANGED <<src, tree, product, stamp, image, runs, past>>

Forget == edited' = {} /\ compiled' = {} /\ UNCHANGED <<spoiled, troubles>>
Idle  == phase = "idle" /\ stack = <<>>

StartImage ==
  /\ Idle /\ phase' = "tools" /\ roots' = Tools /\ Forget
  /\ UNCHANGED <<src, files, stack>>

BuildTool ==
  /\ phase = "tools" /\ stack = <<>>
  /\ \E i \in roots : stack' = Build(i) /\ roots' = roots \ {i}
  /\ UNCHANGED <<src, files, phase, past>>

KeepInstallStamps ==   \* mutant: the install stamps of the last run stay
  /\ phase = "tools" /\ stack = <<>> /\ roots = {}
  /\ image' = [p \in Packages |-> None] /\ UNCHANGED installed
  /\ phase' = "install" /\ roots' = Roots
  /\ UNCHANGED <<src, tree, product, stamp, stack, past>>
Wipe ==
  /\ phase = "tools" /\ stack = <<>> /\ roots = {}
  /\ image' = [p \in Packages |-> None] /\ installed' = {}
  /\ phase' = "install" /\ roots' = Roots
  /\ UNCHANGED <<src, tree, product, stamp, stack, past>>

InstallRoot ==
  /\ phase = "install" /\ stack = <<>>
  /\ \E i \in roots : stack' = Install(i) /\ roots' = roots \ {i}
  /\ UNCHANGED <<src, files, phase, past>>

\* What is below $INSTALL becomes the SYSTEM image.
Packing == phase = "install" /\ stack = <<>> /\ roots = {}
Finish ==
  /\ Packing /\ phase' = "idle" /\ Forget
  /\ UNCHANGED <<src, files, stack, roots>>

----------------------------------------------------------------------------
(* The developer.                                                          *)

Command(script) ==
  /\ Idle /\ stack' = script /\ Forget
  /\ UNCHANGED <<src, files, runs>>
UserBuild == \E i \in Items : Command(Build(i))
UserClean == \E p \in Packages : Command(Clean(CHOOSE i \in Items : i.pkg = p))

Uninstallable(i) ==
  stamp[i] # None /\ (i.pkg \in Virtual \/ tree[i.pkg].content # None)
UserUninstall == \E i \in Items : Uninstallable(i) /\ Command(Uninstall(i))

\* make uninstall: from now to the next step the stamp tells of what is gone.
UninstallRemove ==
  /\ At("uninstall", "remove") /\ Goto("unstamp")
  /\ product' = IF Package \in Virtual THEN product
                ELSE [product EXCEPT ![Top.item] = Partial]
  /\ UNCHANGED <<src, tree, stamp, image, installed, runs, past>>

TruncateStamp ==   \* mutant: the stamp is emptied, not removed
  /\ At("uninstall", "unstamp") /\ Return
  /\ stamp' = [stamp EXCEPT ![Top.item] = Partial]
  /\ UNCHANGED <<src, tree, product, image, installed, runs, past>>
UninstallUnstamp ==
  /\ At("uninstall", "unstamp") /\ Return
  /\ stamp' = [stamp EXCEPT ![Top.item] = None]
  /\ UNCHANGED <<src, tree, product, image, installed, runs, past>>

\* The tree is declared to be current, whatever it is.
UserSkipUnpack ==
  /\ Idle
  /\ \E p \in Packages :
       /\ tree[p].stamp \notin {None, src[p]}
       /\ tree' = [tree EXCEPT ![p].stamp = src[p]]
       /\ spoiled' = spoiled \cup {p}
  /\ UNCHANGED <<src, product, stamp, image, installed, stack, runs, edited,
                 compiled, troubles>>

Trouble == troubles < MaxTroubles /\ troubles' = troubles + 1

\* The windows in which an edit may give a stamp a checksum of what was not
\* used: while the package is unpacked; while it is built, if it has no tree
\* whose own stamp would tell.
InWindow(p) ==
  \E k \in DOMAIN stack :
    /\ stack[k].item.pkg = p
    /\ \/ stack[k].script = "unpack"
       \/ stack[k].script = "build" /\ p \in NoSources

Edit ==
  /\ Trouble
  /\ \E p \in Packages, v \in Versions :
       /\ v # src[p]
       /\ src' = [src EXCEPT ![p] = v]
       /\ edited' = IF Idle THEN edited ELSE edited \cup {p}
       /\ spoiled' = IF InWindow(p) THEN spoiled \cup {p} ELSE spoiled
  /\ UNCHANGED <<files, stack, runs, compiled>>

\* A stamp is written in two lines: without the second it matches nothing.
Abort ==
  /\ ~Idle /\ Trouble
  /\ stack' = <<>> /\ phase' = "idle" /\ roots' = {}
  /\ edited' = {} /\ compiled' = {}
  /\ spoiled' = IF At("uninstall", "unstamp") THEN spoiled \cup {Package}
                                              ELSE spoiled
  /\ IF At("unpack", "stamp")
     THEN \E s \in {None, Half} : tree' = [tree EXCEPT ![Package].stamp = s]
     ELSE UNCHANGED tree
  /\ IF At("build", "stamp")
     THEN \E s \in {None, Half} : stamp' = [stamp EXCEPT ![Top.item] = s]
     ELSE UNCHANGED stamp
  /\ UNCHANGED <<src, product, image, installed>>

Script ==
  \/ CleanStart \/ CleanEnd \/ CleanUnstamp
  \/ Look \/ Extract \/ Patch \/ UnpackUnstamp \/ UnpackStamp
  \/ CheckStamp \/ BuildDeps \/ Compile \/ Make \/ BuildStamp
  \/ InstallCheck \/ InstallDeps \/ CopyProduct \/ TouchStamp
  \/ BuildTool \/ Wipe \/ InstallRoot \/ Finish
Uninstaller == UninstallRemove \/ UninstallUnstamp
Developer ==
  StartImage \/ UserBuild \/ UserClean \/ UserUninstall \/ UserSkipUnpack
  \/ Edit \/ Abort
Next == Script \/ Uninstaller \/ Developer

Spec == Init /\ [][Next]_vars

----------------------------------------------------------------------------
(* Properties.                                                             *)

(* The stamps do not tell the truth of a package that is spoiled:          *)
(* - it was edited while it was unpacked, or built without a tree (Edit);  *)
(* - it was edited between the readings of one build (Make);               *)
(* - its tree was declared to be current (UserSkipUnpack);                 *)
(* - a clean of it was interrupted in the middle (CleanStart);             *)
(* - an uninstall of it was, with the product gone and the stamp there     *)
(*   (Abort);                                                              *)
(* - it has no sources, and the clean of a package whose name its own      *)
(*   begins with took its product and left its stamp (CleanEnd).           *)
(* All but skip_unpack go unnoticed by the scripts: with another build of  *)
(* the package from the start, or a clean, it is no longer spoiled.        *)

\* make uninstall has run, and the stamp is the next to go.
Uninstalling(i) == At("uninstall", "unstamp") /\ Top.item = i

\* What both stamps call up to date is made of the current version, whatever
\* was edited, aborted, uninstalled and cleaned before, unless the package is
\* spoiled.
StampsTruthful ==
  \A i \in Items :
    /\ i.pkg \notin spoiled \cup Virtual /\ stamp[i] = src[i.pkg]
    /\ ~Uninstalling(i)
    /\ i.pkg \in NoSources \/ tree[i.pkg].stamp = src[i.pkg]
    => product[i] = src[i.pkg]

\* An image that scripts/image finishes holds the current version of every
\* root and of all that it depends on, and host tools that are needed directly
\* are of their current version too - except what was edited meanwhile.
ImageCurrent ==
  Packing =>
    /\ Roots \subseteq installed
    /\ \A i \in installed :
         /\ i.tgt = "target" => Deps[i] \subseteq installed
         /\ i.pkg \notin edited \cup spoiled \cup Virtual =>
              src[i.pkg] = IF i.tgt = "target" THEN image[i.pkg] ELSE product[i]

\* Whatever is compiled finds the current version of its direct dependencies.
DepsCurrent ==
  DepsBuilt =>
    \A d \in Deps[Top.item] :
      d.pkg \notin edited \cup spoiled \cup Virtual => product[d] = src[d.pkg]

\* No item is compiled a second time in a run, unless it was edited.
CompiledOnce ==
  At("build", "make") /\ Top.item \in compiled => Package \in edited
=============================================================================
