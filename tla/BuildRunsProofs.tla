--------------------------- MODULE BuildRunsProofs ---------------------------
(***************************************************************************)
(* Theorems about a run of the build system: what it has compiled stays    *)
(* current, whatever is compiled finds its dependencies current, and so is *)
(* what the image holds.  For every set of packages and dependencies.      *)
(***************************************************************************)
EXTENDS BuildStampsProofs

----------------------------------------------------------------------------
(* The inductive invariant.                                                *)

\* What both stamps call up to date, but for what was edited in this run.
TreeCurrent(p) == p \in edited \cup NoSources \/ tree[p].stamp = src[p]
Current(i) == i.pkg \in edited \/ (stamp[i] = src[i.pkg] /\ TreeCurrent(i.pkg))

\* What a script f of the stack relies on from those that it called, except for
\* the one that runs, if c holds it: unpack for the tree, build for what is
\* compiled and installed, install for what must be in the image.
Relies(f, c) ==
  /\ f.script = "build" /\ f.pc = "check" =>
       TreeCurrent(f.item.pkg) \/ <<"unpack", f.item>> \in c
  /\ f.script = "build" /\ f.pc # "check" => TreeCurrent(f.item.pkg)
  /\ f.script = "build" /\ f.pc = "deps" =>
       \A d \in Deps[f.item] \ f.todo : Current(d) \/ <<"build", d>> \in c
  /\ f.script = "install" /\ f.pc # "check" =>
       /\ Current(f.item) \/ <<"build", f.item>> \in c
       /\ f.item.tgt = "target" =>
            \A d \in Deps[f.item] \ f.todo : d \in installed \/ <<"install", d>> \in c
  /\ f.script = "unpack" /\ f.pc # "look" => f.item.pkg \notin NoSources

Callee(k) == IF k < Len(stack) THEN {<<stack[k + 1].script, stack[k + 1].item>>} ELSE {}
CallInv == \A k \in 1..Len(stack) : Relies(stack[k], Callee(k))

\* For the developer alone, and not in a run.
Lonely == Len(stack) = 1 /\ phase = "idle" /\ compiled = {}
\* clean runs for a tree that is not current, or for the developer alone, as
\* uninstall always does.
CleanInv ==
  stack # <<>> =>
    /\ Top.script = "clean" =>
         \/ /\ Package \notin NoSources
            /\ Package \in edited \/ tree[Package].stamp # src[Package]
         \/ Lonely
    /\ Top.script = "uninstall" => Lonely

CompiledInv ==
  ~Idle => \A i \in compiled : Current(i) \/ (At("build", "stamp") /\ Top.item = i)

OnImage(i) == i.pkg \in edited \cup spoiled \cup Virtual \/ image[i.pkg] = src[i.pkg]
ImageInv ==
  /\ \A i \in installed : i.tgt = "target" => Deps[i] \subseteq installed
  /\ At("install", "touch") =>
       Top.todo = {} /\ (Top.item.tgt = "target" => OnImage(Top.item))
  /\ phase = "install" =>
       /\ \A i \in installed : Current(i) /\ (i.tgt = "target" => OnImage(i))
       /\ Roots \ roots \subseteq installed \cup IF stack = <<>> THEN {} ELSE {stack[1].item}
       /\ stack # <<>> => stack[1].script = "install"

RunInv == CallInv /\ CleanInv /\ CompiledInv /\ ImageInv

\* A step of a run takes nothing back.
Kept ==
  /\ \A p \in Packages : TreeCurrent(p) => TreeCurrent(p)'
  /\ \A i \in Items : Current(i) => Current(i)'
  /\ installed \subseteq installed'

----------------------------------------------------------------------------
(* What the steps do to the stack leaves what each script relies on.       *)

LEMMA ReliesKept ==
  ASSUME Kept, NEW f \in Frames, NEW c, Relies(f, c)
  PROVE  Relies(f, c)'
<1>1. f.item \in Items /\ f.item.pkg \in Packages /\ Deps[f.item] \subseteq Items
  BY FrameType, Assumptions
<1>2. f.script = "build" /\ f.pc = "check" =>
        TreeCurrent(f.item.pkg)' \/ <<"unpack", f.item>> \in c
  BY <1>1 DEF Relies, Kept
<1>3. f.script = "build" /\ f.pc # "check" => TreeCurrent(f.item.pkg)'
  BY <1>1 DEF Relies, Kept
<1>4. f.script = "build" /\ f.pc = "deps" =>
        \A d \in Deps[f.item] \ f.todo : Current(d)' \/ <<"build", d>> \in c
  BY <1>1 DEF Relies, Kept
<1>5. f.script = "install" /\ f.pc # "check" => Current(f.item)' \/ <<"build", f.item>> \in c
  BY <1>1 DEF Relies, Kept
<1>6. f.script = "install" /\ f.pc # "check" =>
        (f.item.tgt = "target" =>
           \A d \in Deps[f.item] \ f.todo : d \in installed' \/ <<"install", d>> \in c)
  BY <1>1 DEF Relies, Kept
<1>7. f.script = "unpack" /\ f.pc # "look" => f.item.pkg \notin NoSources
  BY DEF Relies
<1> QED
  BY <1>2, <1>3, <1>4, <1>5, <1>6, <1>7 DEF Relies

\* A frame of the stack, and what it calls.
LEMMA CalleeIs ==
  ASSUME StackInv, NEW k \in 1..Len(stack)
  PROVE  /\ stack[k] \in Frames /\ Len(stack) \in Nat \ {0} /\ stack # <<>>
         /\ k < Len(stack) => /\ k + 1 \in 1..Len(stack)
                              /\ Callee(k) = {<<stack[k + 1].script, stack[k + 1].item>>}
         /\ k = Len(stack) => Callee(k) = {} /\ stack[k] = Top
<1>1. stack \in Seq(Frames) /\ Len(stack) \in Nat /\ k \in Nat /\ 1 <= k /\ k <= Len(stack)
  BY DEF StackInv, TypeOK
<1>2. stack # <<>> /\ Len(stack) \in Nat \ {0}
  BY <1>1
<1>3. stack[k] \in Frames
  BY <1>1, ElementOfSeq
<1>4. k = Len(stack) => stack[k] = Top
  BY <1>2, TopType DEF StackInv
<1> QED
  BY <1>1, <1>2, <1>3, <1>4 DEF Callee

LEMMA CallReturn ==
  ASSUME StackInv, CallInv, stack # <<>>, Return, Kept, NEW i, i = Top.item,
         Top.script = "unpack" => TreeCurrent(i.pkg)',
         Top.script = "build" => Current(i)',
         Top.script = "install" => i \in installed'
  PROVE  CallInv'
<1> DEFINE n == Len(stack)
<1>1. TypeOK /\ n \in Nat \ {0} /\ Top = stack[n]
  BY TopType DEF StackInv
<1>2. /\ Len(stack') = n - 1 /\ \A k \in 1..Len(stack') : stack'[k] = stack[k]
  BY <1>1, Returned
<1> SUFFICES ASSUME NEW k \in 1..n - 1 PROVE Relies(stack[k], Callee(k))'
  BY <1>2 DEF CallInv
<1>3. k \in 1..n /\ k < n /\ k \in Nat /\ stack'[k] = stack[k] /\ k + 1 \in 1..n
  BY <1>1, <1>2
<1>4. PICK f \in Frames : f = stack[k]
  BY <1>3, CalleeIs
<1>5. PICK c : c = Callee(k)
  OBVIOUS
<1>6. Relies(f, c)'
  BY <1>3, <1>4, <1>5, ReliesKept DEF CallInv
<1>7. CASE k < n - 1
  <2>1. k + 1 \in 1..n - 1 /\ k < Len(stack')
    BY <1>1, <1>2, <1>3, <1>7
  <2>2. Callee(k)' = c
    BY <2>1, <1>2, <1>3, <1>5 DEF Callee
  <2> QED
    BY <1>3, <1>4, <1>6, <2>2 DEF Relies
<1>8. CASE k = n - 1
  <2>1. ~(k < Len(stack')) /\ k + 1 = n
    BY <1>1, <1>2, <1>3, <1>8
  <2>2. Callee(k)' = {} /\ c = {<<Top.script, i>>}
    BY <2>1, <1>1, <1>3, <1>5 DEF Callee
  <2>3. Relies(f, {})'
    BY <1>6, <2>2 DEF Relies
  <2> QED
    BY <1>3, <1>4, <2>2, <2>3 DEF Relies
<1> QED
  BY <1>1, <1>3, <1>7, <1>8

LEMMA CallReplace ==
  ASSUME StackInv, CallInv, stack # <<>>, Kept,
         NEW f \in Frames, f.item = Top.item, f.script = Top.script,
         stack' = Append(Front(stack), f), Relies(f, {})'
  PROVE  CallInv'
<1> DEFINE n == Len(stack)
<1>1. TypeOK /\ n \in Nat \ {0} /\ Top = stack[n]
  BY TopType DEF StackInv
<1>2. Len(stack') = n /\ stack'[n] = f /\ \A k \in 1..n - 1 : stack'[k] = stack[k]
  BY <1>1, Replaced
<1> SUFFICES ASSUME NEW k \in 1..n PROVE Relies(stack[k], Callee(k))'
  BY <1>2 DEF CallInv
<1>3. CASE k < n
  <2>1. k \in 1..n - 1 /\ stack'[k] = stack[k] /\ k + 1 \in 1..n
    BY <1>1, <1>2, <1>3
  <2>2. PICK g \in Frames : g = stack[k]
    BY CalleeIs
  <2>3. PICK c : c = Callee(k)
    OBVIOUS
  <2>4. Relies(g, c)'
    BY <2>2, <2>3, ReliesKept DEF CallInv
  <2>5. stack'[k + 1].script = stack[k + 1].script /\ stack'[k + 1].item = stack[k + 1].item
    <3>1. CASE k + 1 = n
      BY <3>1, <1>1, <1>2
    <3>2. CASE k + 1 \in 1..n - 1
      BY <3>2, <1>2
    <3>3. k + 1 = n \/ k + 1 \in 1..n - 1
      BY <1>1, <2>1
    <3> QED
      BY <3>1, <3>2, <3>3
  <2>6. Callee(k)' = c
    BY <1>2, <1>3, <2>3, <2>5 DEF Callee
  <2> QED
    BY <2>1, <2>2, <2>4, <2>6 DEF Relies
<1>4. CASE k = n
  <2>1. Callee(k)' = {}
    BY <1>1, <1>2, <1>4 DEF Callee
  <2> QED
    BY <1>2, <1>4, <2>1 DEF Relies
<1>5. k < n \/ k = n
  BY <1>1
<1> QED
  BY <1>3, <1>4, <1>5

\* What is called relies on nobody but unpack.
LEMMA CalledRely ==
  ASSUME NEW d \in Items, NEW t, Calls(t, d) \/ t = Uninstall(d)
  PROVE  /\ Len(t) \in 1..2 /\ \A j \in 1..Len(t) : t[j].item = d
         /\ \A j \in 1..Len(t) : \A c :
              (j < Len(t) => c = {<<t[j + 1].script, t[j + 1].item>>}) => Relies(t[j], c)'
<1>1. CASE t = Install(d)
  <2>1. Len(t) = 1 /\ t[1].script = "install" /\ t[1].pc = "check" /\ t[1].item = d
    BY <1>1 DEF Install, Frame
  <2> QED
    BY <2>1 DEF Relies
<1>2. CASE t = Clean(d)
  <2>1. Len(t) = 1 /\ t[1].script = "clean" /\ t[1].item = d
    BY <1>2 DEF Clean, Frame
  <2> QED
    BY <2>1 DEF Relies
<1>3. CASE t = Build(d)
  <2>1. /\ Len(t) = 2
        /\ t[1].script = "build" /\ t[1].pc = "check" /\ t[1].item = d
        /\ t[2].script = "unpack" /\ t[2].pc = "look" /\ t[2].item = d
    BY <1>3 DEF Build, Frame
  <2>2. ASSUME NEW j \in 1..Len(t), NEW c, j < Len(t) => c = {<<t[j + 1].script, t[j + 1].item>>}
        PROVE  Relies(t[j], c)'
    <3>1. CASE j = 1
      <4>1. c = {<<"unpack", d>>}
        BY <2>1, <2>2, <3>1
      <4> QED
        BY <2>1, <3>1, <4>1 DEF Relies
    <3>2. CASE j = 2
      BY <2>1, <3>2 DEF Relies
    <3> QED
      BY <2>1, <3>1, <3>2
  <2>3. \A j \in 1..Len(t) : t[j].item = d
    <3>1. \A j \in 1..Len(t) : j = 1 \/ j = 2
      BY <2>1
    <3> QED
      BY <2>1, <3>1
  <2> QED
    BY <2>1, <2>2, <2>3
<1>4. CASE t = Uninstall(d)
  <2>1. Len(t) = 1 /\ t[1].script = "uninstall" /\ t[1].item = d
    BY <1>4 DEF Uninstall, Frame
  <2> QED
    BY <2>1 DEF Relies
<1> QED
  BY <1>1, <1>2, <1>3, <1>4 DEF Calls

LEMMA CallNew ==
  ASSUME NEW d \in Items, NEW t, Calls(t, d) \/ t = Uninstall(d), stack' = t
  PROVE  CallInv'
<1>1. /\ Len(t) \in 1..2 /\ \A j \in 1..Len(t) : t[j].item = d
      /\ \A j \in 1..Len(t) : \A c :
           (j < Len(t) => c = {<<t[j + 1].script, t[j + 1].item>>}) => Relies(t[j], c)'
  BY CalledRely
<1> SUFFICES ASSUME NEW k \in 1..Len(t) PROVE Relies(stack[k], Callee(k))'
  BY DEF CallInv
<1>2. PICK g : g = t[k]
  OBVIOUS
<1>3. PICK c : c = Callee(k)'
  OBVIOUS
<1>4. k < Len(t) => c = {<<t[k + 1].script, t[k + 1].item>>}
  BY <1>3 DEF Callee
<1>5. Relies(g, c)'
  BY <1>1, <1>2, <1>4
<1> QED
  BY <1>2, <1>3, <1>5 DEF Relies

LEMMA CallCall ==
  ASSUME StackInv, CallInv, stack # <<>>, Kept,
         NEW f \in Frames, f.item = Top.item, f.script = Top.script,
         NEW d \in Items, NEW t, Calls(t, d), stack' = Append(Front(stack), f) \o t,
         Relies(f, {<<t[1].script, d>>})'
  PROVE  CallInv'
<1> DEFINE n == Len(stack)
<1>1. TypeOK /\ n \in Nat \ {0} /\ Top = stack[n]
  BY TopType DEF StackInv
<1>2. /\ Len(t) \in 1..2 /\ \A j \in 1..Len(t) : t[j].item = d
      /\ \A j \in 1..Len(t) : \A c :
           (j < Len(t) => c = {<<t[j + 1].script, t[j + 1].item>>}) => Relies(t[j], c)'
  BY CalledRely
<1>3. t \in Seq(Frames)
  BY CallShape
<1>4. /\ Len(stack') = n + Len(t) /\ stack'[n] = f
      /\ \A k \in 1..n - 1 : stack'[k] = stack[k]
      /\ \A k \in 1..Len(t) : stack'[n + k] = t[k]
  BY <1>1, <1>3, CalledNext, Zenon
<1> SUFFICES ASSUME NEW k \in 1..Len(stack') PROVE Relies(stack[k], Callee(k))'
  BY DEF CallInv
<1>5. k \in Nat /\ k >= 1 /\ k <= n + Len(t) /\ Len(t) \in Nat
  BY <1>1, <1>2, <1>4
<1>6. CASE k < n
  <2>1. k \in 1..n /\ k \in 1..n - 1 /\ k + 1 \in 1..n /\ stack'[k] = stack[k]
    BY <1>1, <1>4, <1>5, <1>6
  <2>2. PICK g \in Frames : g = stack[k]
    BY <2>1, CalleeIs
  <2>3. PICK c : c = Callee(k)
    OBVIOUS
  <2>4. Relies(g, c)'
    BY <2>1, <2>2, <2>3, ReliesKept DEF CallInv
  <2>5. stack'[k + 1].script = stack[k + 1].script /\ stack'[k + 1].item = stack[k + 1].item
    <3>1. CASE k + 1 = n
      BY <3>1, <1>1, <1>4
    <3>2. CASE k + 1 \in 1..n - 1
      BY <3>2, <1>4
    <3>3. k + 1 = n \/ k + 1 \in 1..n - 1
      BY <1>1, <2>1
    <3> QED
      BY <3>1, <3>2, <3>3
  <2>6. Callee(k)' = c
    <3>1. k < Len(stack')
      BY <1>1, <1>4, <1>5, <1>6
    <3> QED
      BY <3>1, <1>6, <2>3, <2>5 DEF Callee
  <2> QED
    BY <2>1, <2>2, <2>4, <2>6 DEF Relies
<1>7. CASE k = n
  <2>1. stack'[k + 1] = t[1] /\ t[1].item = d /\ k < Len(stack')
    BY <1>1, <1>2, <1>4, <1>7
  <2>2. Callee(k)' = {<<t[1].script, d>>}
    BY <2>1 DEF Callee
  <2>3. PICK c : c = {<<t[1].script, d>>}
    OBVIOUS
  <2> QED
    BY <1>4, <1>7, <2>2 DEF Relies
<1>8. CASE k > n
  <2>1. PICK j \in 1..Len(t) : k = n + j
    <3>1. k - n \in 1..Len(t) /\ k = n + (k - n)
      BY <1>1, <1>5, <1>8
    <3> QED
      BY <3>1
  <2>2. PICK g : g = t[j]
    OBVIOUS
  <2>3. PICK c : c = Callee(k)'
    OBVIOUS
  <2>4. stack'[k] = g
    BY <2>1, <2>2, <1>4
  <2>5. j < Len(t) => c = {<<t[j + 1].script, t[j + 1].item>>}
    <3> SUFFICES ASSUME j < Len(t) PROVE c = {<<t[j + 1].script, t[j + 1].item>>}
      OBVIOUS
    <3>1. j + 1 \in 1..Len(t) /\ k < Len(stack') /\ k + 1 = n + (j + 1)
      BY <2>1, <1>1, <1>4, <1>5
    <3>2. stack'[k + 1] = t[j + 1]
      BY <3>1, <1>4
    <3> QED
      BY <2>3, <3>1, <3>2 DEF Callee
  <2>6. Relies(g, c)'
    BY <2>2, <2>5, <1>2
  <2> QED
    BY <2>3, <2>4, <2>6 DEF Relies
<1>9. k < n \/ k = n \/ k > n
  BY <1>1, <1>5
<1> QED
  BY <1>6, <1>7, <1>8, <1>9

----------------------------------------------------------------------------
(* A step of a run takes nothing back.                                     *)

\* A step of a script, and an edit meanwhile.
InRun == stack # <<>> /\ (Script \/ Edit)
\* clean or uninstall runs for the developer alone.
Alone == Top.script \in {"clean", "uninstall"} /\ Lonely

\* Nothing is uninstalled otherwise.
LEMMA NoUninstaller ==
  ASSUME RunInv, stack = <<>> \/ ~Alone
  PROVE  ~Uninstaller
BY DEF RunInv, CleanInv, Alone, Uninstaller, UninstallRemove, UninstallUnstamp, At

\* The tree of the package that clean runs for, or unpack has not yet done
\* with, is not current.
LEMMA ForeignTree ==
  ASSUME StampInv, RunInv, stack # <<>>, ~Alone,
         Top.script = "clean" \/ (Top.script = "unpack" /\ Top.pc # "look")
  PROVE  /\ Package \notin NoSources
         /\ Package \in edited \/ tree[Package].stamp # src[Package]
<1>1. /\ StackInv /\ Len(stack) \in 1..Len(stack) /\ Top = stack[Len(stack)]
      /\ src[Package] \in Versions
  BY FilesAre, TopType DEF StampInv, StackInv
<1>2. CASE Top.script = "clean"
  BY <1>2 DEF RunInv, CleanInv, Alone
<1>3. CASE Top.script = "unpack" /\ Top.pc # "look"
  <2>1. Package \notin NoSources
    BY <1>1, <1>3 DEF RunInv, CallInv, Relies, Package
  <2>2. Top.pc \in {"extract", "patch", "unstamp", "stamp"}
    BY <1>1, <1>3, TopType, StepsAre DEF StackInv
  <2>3. tree[Package].stamp = None
    BY <1>3, <2>2 DEF StampInv, TopInv, At
  <2> QED
    BY <1>1, <2>1, <2>3, VersionsAre
<1> QED
  BY <1>2, <1>3

\* What a script of a run does to trees that are current, and to their stamps.
LEMMA TreesStay ==
  ASSUME StampInv, RunInv, stack # <<>>, ~Alone, Script
  PROVE  \A p \in Packages :
           p \notin edited \cup NoSources /\ tree[p].stamp = src[p] => tree'[p].stamp = src[p]
<1>1. /\ tree \in [Packages -> Trees] /\ src \in [Packages -> Versions] /\ Package \in Packages
  BY FilesAre DEF StampInv
<1> SUFFICES ASSUME NEW p \in Packages, p \notin edited \cup NoSources,
                    tree[p].stamp = src[p]
             PROVE  tree'[p].stamp = src[p]
  OBVIOUS
<1>2. src[p] # None
  BY <1>1, VersionsAre
<1>3. Top.script = "clean" => p # Package
  BY ForeignTree
<1>4. CASE CleanStart
  <2>1. p # Package
    BY <1>3, <1>4 DEF CleanStart, At
  <2>2. tree'[p] = tree[p]
    BY <1>1, <1>4, <2>1 DEF CleanStart
  <2> QED
    BY <2>2
<1>5. CASE CleanEnd
  <2>1. p # Package
    BY <1>3, <1>5 DEF CleanEnd, At
  <2>2. ~Stampless(p)
    BY <1>2 DEF Stampless
  <2>3. tree'[p] = tree[p]
    BY <1>5, <2>1, <2>2 DEF CleanEnd
  <2> QED
    BY <2>3
<1>6. CASE Extract \/ Patch
  BY <1>1, <1>6 DEF Extract, Patch, Trees
<1>7. CASE UnpackStamp
  <2>1. tree'[p].stamp \in {tree[p].stamp, src[p]}
    BY <1>1, <1>7 DEF UnpackStamp, Trees
  <2> QED
    BY <2>1
<1>8. CASE Compile
  BY <1>1, <1>8 DEF Compile, Trees
<1>9. CASE CleanUnstamp \/ Look \/ UnpackUnstamp \/ CheckStamp \/ BuildDeps \/ Make \/ BuildStamp
  <2>1. tree' = tree
    BY <1>9 DEF CleanUnstamp, Look, UnpackUnstamp, CheckStamp, BuildDeps, Make, BuildStamp, files
  <2> QED
    BY <2>1
<1>10. CASE \/ InstallCheck \/ InstallDeps \/ CopyProduct \/ TouchStamp
            \/ BuildTool \/ Wipe \/ InstallRoot \/ Finish
  <2>1. tree' = tree
    BY <1>10 DEF InstallCheck, InstallDeps, CopyProduct, TouchStamp, BuildTool, Wipe, InstallRoot,
                 Finish, files
  <2> QED
    BY <2>1
<1> QED
  BY <1>4, <1>5, <1>6, <1>7, <1>8, <1>9, <1>10 DEF Script

LEMMA StampsStay ==
  ASSUME StampInv, RunInv, stack # <<>>, ~Alone, Script
  PROVE  \A i \in Items : i.pkg \notin edited /\ Current(i) => stamp'[i] = src[i.pkg]
<1>1. /\ stamp \in [Items -> Stamps] /\ Top.item \in Items /\ Package = Top.item.pkg
  BY FilesAre DEF StampInv, Package
<1> SUFFICES ASSUME NEW i \in Items, i.pkg \notin edited, Current(i)
             PROVE  stamp'[i] = src[i.pkg]
  OBVIOUS
<1>2. stamp[i] = src[i.pkg] /\ TreeCurrent(i.pkg)
  BY DEF Current
<1>3. CASE CleanUnstamp \/ UnpackUnstamp
  <2>1. Top.script = "clean" \/ (Top.script = "unpack" /\ Top.pc # "look")
    BY <1>3 DEF CleanUnstamp, UnpackUnstamp, At
  <2>2. i.pkg # Package
    BY <1>2, <2>1, ForeignTree DEF TreeCurrent
  <2>3. stamp' = Without(stamp, ItemsOf(Package))
    BY <1>3 DEF CleanUnstamp, UnpackUnstamp
  <2> QED
    BY <1>2, <2>2, <2>3 DEF Without, ItemsOf
<1>4. CASE CheckStamp
  <2>1. stamp' = stamp \/ (~UpToDate(Top.item) /\ stamp' = [stamp EXCEPT ![Top.item] = None])
    BY <1>4 DEF CheckStamp, Rebuild
  <2>2. CASE i = Top.item
    BY <1>2, <2>1, <2>2 DEF UpToDate
  <2>3. CASE i # Top.item
    BY <1>1, <1>2, <2>1, <2>3
  <2> QED
    BY <2>2, <2>3
<1>5. CASE BuildStamp
  <2>1. stamp' = [stamp EXCEPT ![Top.item] = src[Package]]
    BY <1>5 DEF BuildStamp
  <2>2. CASE i = Top.item
    BY <1>1, <2>1, <2>2
  <2>3. CASE i # Top.item
    BY <1>1, <1>2, <2>1, <2>3
  <2> QED
    BY <2>2, <2>3
<1>6. CASE \/ CleanStart \/ CleanEnd \/ Look \/ Extract \/ Patch \/ UnpackStamp
           \/ BuildDeps \/ Compile \/ Make
  <2>1. stamp' = stamp
    BY <1>6 DEF CleanStart, CleanEnd, Look, Extract, Patch, UnpackStamp, BuildDeps, Compile, Make,
                files
  <2> QED
    BY <1>2, <2>1
<1>7. CASE \/ InstallCheck \/ InstallDeps \/ CopyProduct \/ TouchStamp
           \/ BuildTool \/ Wipe \/ InstallRoot \/ Finish
  <2>1. stamp' = stamp
    BY <1>7 DEF InstallCheck, InstallDeps, CopyProduct, TouchStamp, BuildTool, Wipe, InstallRoot,
                Finish, files
  <2> QED
    BY <1>2, <2>1
<1> QED
  BY <1>3, <1>4, <1>5, <1>6, <1>7 DEF Script

\* An edit takes nothing back: what is edited counts as current until the run
\* is over.
LEMMA EditTakesNothing ==
  ASSUME StampInv, ~Idle, Edit
  PROVE  Kept
<1>1. /\ tree' = tree /\ stamp' = stamp /\ installed' = installed /\ edited \subseteq edited'
      /\ \A p \in Packages : p \in edited' \/ src'[p] = src[p]
  <2>1. tree' = tree /\ stamp' = stamp /\ installed' = installed
    BY DEF Edit, files
  <2>2. PICK p \in Packages, v \in Versions :
          src' = [src EXCEPT ![p] = v] /\ edited' = edited \cup {p}
    BY DEF Edit
  <2>3. src \in [Packages -> Versions]
    BY FilesAre DEF StampInv
  <2> QED
    BY <2>1, <2>2, <2>3
<1>2. ASSUME NEW p \in Packages, TreeCurrent(p) PROVE TreeCurrent(p)'
  BY <1>1, <1>2 DEF TreeCurrent
<1>3. \A i \in Items : i.pkg \in Packages
  BY FilesAre DEF StampInv
<1>4. ASSUME NEW i \in Items, Current(i) PROVE Current(i)'
  BY <1>1, <1>2, <1>3, <1>4 DEF Current
<1> QED
  BY <1>1, <1>2, <1>4 DEF Kept

\* Neither scripts nor edits, while a script runs, take back what is current.
LEMMA RunKeeps ==
  ASSUME StampInv, RunInv, InRun, ~Alone
  PROVE  Kept
<1>1. stack # <<>> /\ \A i \in Items : i.pkg \in Packages
  BY FilesAre DEF InRun, StampInv
<1>2. CASE Script
  <2>1. src' = src /\ edited' = edited /\ installed \subseteq installed'
    <3>1. CASE CleanStart \/ CleanEnd \/ CleanUnstamp \/ Look \/ Extract \/ Patch \/ UnpackUnstamp
      BY <3>1 DEF CleanStart, CleanEnd, CleanUnstamp, Look, Extract, Patch, UnpackUnstamp, files,
                  past
    <3>2. CASE UnpackStamp \/ CheckStamp \/ BuildDeps \/ Compile \/ Make \/ BuildStamp
      BY <3>2 DEF UnpackStamp, CheckStamp, BuildDeps, Compile, Make, BuildStamp, files, past
    <3>3. CASE InstallCheck \/ InstallDeps \/ CopyProduct \/ TouchStamp
      BY <3>3 DEF InstallCheck, InstallDeps, CopyProduct, TouchStamp, files, past
    <3>4. CASE BuildTool \/ Wipe \/ InstallRoot \/ Finish
      BY <1>1, <3>4 DEF BuildTool, Wipe, InstallRoot, Finish, Packing
    <3> QED
      BY <1>2, <3>1, <3>2, <3>3, <3>4 DEF Script
  <2>2. ASSUME NEW p \in Packages, TreeCurrent(p) PROVE TreeCurrent(p)'
    BY <1>1, <1>2, <2>1, <2>2, TreesStay DEF TreeCurrent
  <2>3. ASSUME NEW i \in Items, Current(i) PROVE Current(i)'
    <3>1. CASE i.pkg \in edited
      BY <2>1, <3>1 DEF Current
    <3>2. CASE i.pkg \notin edited
      <4>1. stamp'[i] = src[i.pkg]
        BY <1>1, <1>2, <2>3, <3>2, StampsStay
      <4>2. TreeCurrent(i.pkg)'
        BY <1>1, <2>2, <2>3, <3>2 DEF Current
      <4> QED
        BY <2>1, <4>1, <4>2 DEF Current
    <3> QED
      BY <3>1, <3>2
  <2> QED
    BY <2>1, <2>2, <2>3 DEF Kept
<1>3. CASE Edit
  BY <1>1, <1>3, EditTakesNothing DEF Idle
<1> QED
  BY <1>2, <1>3 DEF InRun

----------------------------------------------------------------------------
(* What each script relies on it has, after every step.                    *)

LEMMA TopRelies ==
  ASSUME StackInv, CallInv, stack # <<>>
  PROVE  Relies(Top, {})
<1>1. Len(stack) \in 1..Len(stack)
  BY TopType DEF StackInv
<1>2. Callee(Len(stack)) = {} /\ stack[Len(stack)] = Top
  BY <1>1, CalleeIs
<1> QED
  BY <1>1, <1>2 DEF CallInv

LEMMA CallGoto ==
  ASSUME StackInv, CallInv, stack # <<>>, Kept, NEW to \in Steps[Top.script], Goto(to),
         Top.script = "build" => Top.pc # "check" /\ to \notin {"check", "deps"},
         Top.script = "install" => Top.pc # "check",
         Top.script = "unpack" => Package \notin NoSources
  PROVE  CallInv'
<1>1. /\ Then(to) \in Frames /\ Then(to).item = Top.item /\ Then(to).script = Top.script
      /\ Then(to).todo = Top.todo /\ Then(to).pc = to
  BY ThenIs
<1>2. PICK f \in Frames : f = Then(to)
  BY <1>1
<1>3. stack' = Append(Front(stack), f)
  BY <1>2 DEF Goto
<1>4. Relies(Top, {})
  BY TopRelies
<1>5. Relies(f, {})
  BY <1>1, <1>2, <1>4 DEF Relies, Package
<1>6. Relies(f, {})'
  BY <1>5, ReliesKept
<1> QED
  BY <1>1, <1>2, <1>3, <1>6, CallReplace

LEMMA CallGotos ==
  ASSUME StampInv, RunInv, ~Alone,
         CleanStart \/ CleanEnd \/ Extract \/ Patch \/ UnpackUnstamp \/ Compile \/ Make
         \/ CopyProduct
  PROVE  CallInv'
<1>1. StackInv /\ CallInv /\ stack # <<>> /\ Kept
  <2>1. stack # <<>>
    BY DEF CleanStart, CleanEnd, Extract, Patch, UnpackUnstamp, Compile, Make, CopyProduct,
           DepsBuilt, At
  <2>2. Kept
    BY <2>1, RunKeeps DEF InRun, Script
  <2> QED
    BY <2>1, <2>2 DEF StampInv, RunInv
<1>2. Top.script = "unpack" /\ Top.pc # "look" => Package \notin NoSources
  BY <1>1, ForeignTree
<1>3. /\ "removing" \in Steps["clean"] /\ "unstamp" \in Steps["clean"]
      /\ "patch" \in Steps["unpack"] /\ "unstamp" \in Steps["unpack"]
      /\ "stamp" \in Steps["unpack"] /\ "make" \in Steps["build"]
      /\ "stamp" \in Steps["build"] /\ "touch" \in Steps["install"]
  BY StepsAre
<1>4. ASSUME NEW script, NEW pc, NEW to \in Steps[script], At(script, pc), Goto(to),
             script = "build" => pc # "check" /\ to \notin {"check", "deps"},
             script = "install" => pc # "check",
             script = "unpack" => pc # "look"
      PROVE  CallInv'
  BY <1>1, <1>2, <1>4, CallGoto DEF At
<1>5. CASE CleanStart
  <2>1. At("clean", "remove") /\ Goto("removing")
    BY <1>5 DEF CleanStart
  <2> QED
    BY <2>1, <1>3, <1>4
<1>6. CASE CleanEnd
  <2>1. At("clean", "removing") /\ Goto("unstamp")
    BY <1>6 DEF CleanEnd
  <2> QED
    BY <2>1, <1>3, <1>4
<1>7. CASE Extract
  <2>1. At("unpack", "extract") /\ Goto("patch")
    BY <1>7 DEF Extract
  <2> QED
    BY <2>1, <1>3, <1>4
<1>8. CASE Patch
  <2>1. At("unpack", "patch") /\ Goto("unstamp")
    BY <1>8 DEF Patch
  <2> QED
    BY <2>1, <1>3, <1>4
<1>9. CASE UnpackUnstamp
  <2>1. At("unpack", "unstamp") /\ Goto("stamp")
    BY <1>9 DEF UnpackUnstamp
  <2> QED
    BY <2>1, <1>3, <1>4
<1>10. CASE Compile
  <2>1. At("build", "deps") /\ Goto("make")
    BY <1>10 DEF Compile, DepsBuilt
  <2> QED
    BY <2>1, <1>3, <1>4
<1>11. CASE Make
  <2>1. At("build", "make") /\ Goto("stamp")
    BY <1>11 DEF Make
  <2> QED
    BY <2>1, <1>3, <1>4
<1>12. CASE CopyProduct
  <2>1. At("install", "deps") /\ Goto("touch")
    BY <1>12 DEF CopyProduct
  <2> QED
    BY <2>1, <1>3, <1>4
<1> QED
  BY <1>5, <1>6, <1>7, <1>8, <1>9, <1>10, <1>11, <1>12

\* What build leaves when it is through is current.
LEMMA BuiltIsCurrent ==
  ASSUME StampInv, RunInv, BuildStamp, NEW i, i = Top.item
  PROVE  Current(i)'
<1>1. /\ stack # <<>> /\ Top.script = "build" /\ Top.pc # "check"
      /\ stamp \in [Items -> Stamps] /\ i \in Items
  BY FilesAre DEF StampInv, BuildStamp, DepsBuilt, At
<1>2. Relies(Top, {})
  BY <1>1, TopRelies DEF StampInv, RunInv
<1>3. TreeCurrent(i.pkg)
  BY <1>1, <1>2 DEF Relies
<1>4. stamp'[i] = src[i.pkg] /\ tree' = tree /\ src' = src /\ edited' = edited
  BY <1>1 DEF BuildStamp, past, Package
<1> QED
  BY <1>3, <1>4 DEF Current, TreeCurrent

LEMMA CallReturns ==
  ASSUME StampInv, RunInv, ~Alone, stack # <<>>, Return,
         \/ CleanUnstamp
         \/ Look /\ KeepTree(Package)
         \/ UnpackStamp
         \/ CheckStamp /\ UpToDate(Top.item)
         \/ BuildStamp
         \/ InstallCheck /\ Top.item \in installed
         \/ TouchStamp
  PROVE  CallInv'
<1>1. StackInv /\ CallInv /\ Kept
  BY RunKeeps DEF InRun, Script, StampInv, RunInv
<1>2. /\ tree \in [Packages -> Trees] /\ Package \in Packages /\ Top.item \in Items
      /\ Package = Top.item.pkg
  BY FilesAre DEF StampInv, Package
<1>3. PICK i : i = Top.item
  OBVIOUS
<1>4. Relies(Top, {})
  BY <1>1, TopRelies
<1>5. CASE CleanUnstamp
  <2>1. Top.script = "clean"
    BY <1>5 DEF CleanUnstamp, At
  <2> QED
    BY <1>1, <1>3, <2>1, CallReturn
<1>6. CASE Look /\ KeepTree(Package)
  <2>1. Top.script = "unpack" /\ src' = src /\ tree' = tree /\ edited' = edited
    BY <1>6 DEF Look, At, files, past
  <2>2. TreeCurrent(i.pkg)
    BY <1>2, <1>3, <1>6 DEF TreeCurrent, KeepTree, Unpacked
  <2>3. TreeCurrent(i.pkg)'
    BY <2>1, <2>2 DEF TreeCurrent
  <2> QED
    BY <1>1, <1>3, <2>1, <2>3, CallReturn
<1>7. CASE UnpackStamp
  <2>1. Top.script = "unpack"
    BY <1>7 DEF UnpackStamp, At
  <2>2. tree'[i.pkg].stamp = src[i.pkg] /\ src' = src
    BY <1>2, <1>3, <1>7 DEF UnpackStamp, Trees
  <2>3. TreeCurrent(i.pkg)'
    BY <2>2 DEF TreeCurrent
  <2> QED
    BY <1>1, <1>3, <2>1, <2>3, CallReturn
<1>8. CASE CheckStamp /\ UpToDate(Top.item)
  <2>1. Top.script = "build" /\ Top.pc = "check"
    BY <1>8 DEF CheckStamp, At
  <2>2. Current(i)
    BY <1>3, <1>4, <1>8, <2>1 DEF Relies, Current, UpToDate
  <2>3. Current(i)'
    BY <1>1, <1>2, <1>3, <2>2 DEF Kept
  <2> QED
    BY <1>1, <1>3, <2>1, <2>3, CallReturn
<1>9. CASE BuildStamp
  <2>1. Top.script = "build"
    BY <1>9 DEF BuildStamp, DepsBuilt, At
  <2>2. Current(i)'
    BY <1>3, <1>9, BuiltIsCurrent
  <2> QED
    BY <1>1, <1>3, <2>1, <2>2, CallReturn
<1>10. CASE (InstallCheck /\ Top.item \in installed) \/ TouchStamp
  <2>1. Top.script = "install" /\ i \in installed'
    BY <1>3, <1>10 DEF InstallCheck, TouchStamp, At, files
  <2> QED
    BY <1>1, <1>3, <2>1, CallReturn
<1> QED
  BY <1>5, <1>6, <1>7, <1>8, <1>9, <1>10

LEMMA CallCalls ==
  ASSUME StampInv, RunInv, stack # <<>>, ~Alone,
         \/ Look /\ ~KeepTree(Package)
         \/ CheckStamp /\ ~UpToDate(Top.item)
         \/ BuildDeps
         \/ InstallCheck /\ Top.item \notin installed
         \/ InstallDeps
  PROVE  CallInv'
<1>1. StackInv /\ CallInv /\ Kept
  BY RunKeeps DEF InRun, Script, StampInv, RunInv
<1>2. /\ Top.item \in Items /\ Package = Top.item.pkg /\ Top \in Frames
      /\ Top.todo \subseteq Items /\ Deps[Top.item] \subseteq Items
      /\ Top.pc \in Steps[Top.script]
  BY <1>1, TopType, Assumptions DEF StackInv, Package
<1>3. Relies(Top, {})
  BY <1>1, TopRelies
<1>4. "extract" \in Steps["unpack"] /\ "deps" \in Steps["build"] /\ "deps" \in Steps["install"]
  BY StepsAre
<1>5. CASE Look /\ ~KeepTree(Package)
  <2>1. /\ Top.script = "unpack" /\ Package \notin NoSources
        /\ Call(Clean(Top.item), Then("extract")) \/ Goto("extract")
    BY <1>5 DEF Look, At, KeepTree
  <2>2. CASE Goto("extract")
    BY <1>1, <1>4, <2>1, <2>2, CallGoto
  <2>3. CASE Call(Clean(Top.item), Then("extract"))
    <3>1. /\ Then("extract") \in Frames /\ Then("extract").item = Top.item
          /\ Then("extract").script = Top.script /\ Then("extract").pc = "extract"
      BY <1>1, <1>4, <2>1, ThenIs
    <3>2. PICK f \in Frames : f = Then("extract")
      BY <3>1
    <3>3. PICK d \in Items : d = Top.item
      BY <1>2
    <3>4. PICK t : t = Clean(d)
      OBVIOUS
    <3>5. stack' = Append(Front(stack), f) \o t
      BY <2>3, <3>2, <3>3, <3>4 DEF Call
    <3>6. Relies(f, {<<t[1].script, d>>})'
      BY <1>2, <2>1, <3>1, <3>2 DEF Relies
    <3>7. Calls(t, d)
      BY <3>4 DEF Calls
    <3> QED
      BY <1>1, <3>1, <3>2, <3>5, <3>6, <3>7, CallCall
  <2> QED
    BY <2>1, <2>2, <2>3
<1>6. CASE CheckStamp /\ ~UpToDate(Top.item)
  <2>1. Top.script = "build" /\ Top.pc = "check" /\ Rebuild(Deps[Top.item])
    BY <1>6 DEF CheckStamp, At
  <2>2. PICK ds : ds = Deps[Top.item]
    OBVIOUS
  <2>3. /\ AtDeps(ds) \in Frames /\ AtDeps(ds).item = Top.item
        /\ AtDeps(ds).script = "build" /\ AtDeps(ds).pc = "deps" /\ AtDeps(ds).todo = ds
    <3>1. ds \in SUBSET Items
      BY <1>2, <2>2
    <3> QED
      BY <1>1, <3>1, AtDepsIs
  <2>4. PICK f \in Frames : f = AtDeps(ds)
    BY <2>3
  <2>5. stack' = Append(Front(stack), f)
    BY <2>1, <2>2, <2>4 DEF Rebuild
  <2>6. f.item = Top.item /\ f.script = "build" /\ f.pc = "deps" /\ f.todo = Deps[f.item]
    BY <2>1, <2>2, <2>3, <2>4
  <2>7. TreeCurrent(f.item.pkg)
    BY <1>3, <2>1, <2>6 DEF Relies
  <2>8. Relies(f, {})
    BY <2>6, <2>7 DEF Relies
  <2>9. Relies(f, {})'
    BY <1>1, <2>8, ReliesKept
  <2> QED
    BY <1>1, <2>1, <2>5, <2>6, <2>9, CallReplace
<1>7. CASE BuildDeps
  <2>1. Top.script = "build" /\ Top.pc = "deps"
    BY <1>7 DEF BuildDeps, At
  <2>2. PICK d \in Top.todo : Call(Build(d), [Top EXCEPT !.todo = @ \ {d}])
    BY <1>7 DEF BuildDeps, CallDeps
  <2>3. PICK ds : ds = Top.todo \ {d}
    OBVIOUS
  <2>4. /\ [Top EXCEPT !.todo = ds] \in Frames
        /\ [Top EXCEPT !.todo = ds].item = Top.item
        /\ [Top EXCEPT !.todo = ds].script = Top.script
        /\ [Top EXCEPT !.todo = ds].todo = ds
        /\ [Top EXCEPT !.todo = ds].pc = Top.pc
    <3>1. ds \in SUBSET Items
      BY <1>2, <2>3
    <3> QED
      BY <1>1, <1>2, <3>1, ThenIs, ZenonT(30)
  <2>5. PICK f \in Frames : f = [Top EXCEPT !.todo = ds]
    BY <2>4
  <2>6. PICK t : t = Build(d)
    OBVIOUS
  <2>7. stack' = Append(Front(stack), f) \o t /\ Calls(t, d) /\ t[1].script = "build" /\ d \in Items
    BY <1>2, <2>2, <2>3, <2>5, <2>6 DEF Call, Calls, Build, Frame
  <2>8. Relies(f, {<<t[1].script, d>>})
    BY <1>3, <2>1, <2>3, <2>4, <2>5, <2>7 DEF Relies
  <2>9. Relies(f, {<<t[1].script, d>>})'
    BY <1>1, <2>8, ReliesKept
  <2> QED
    BY <1>1, <2>4, <2>5, <2>7, <2>9, CallCall
<1>8. CASE InstallDeps
  <2>1. Top.script = "install" /\ Top.pc = "deps"
    BY <1>8 DEF InstallDeps, At
  <2>2. PICK d \in Top.todo : Call(Install(d), [Top EXCEPT !.todo = @ \ {d}])
    BY <1>8 DEF InstallDeps, CallDeps
  <2>3. PICK ds : ds = Top.todo \ {d}
    OBVIOUS
  <2>4. /\ [Top EXCEPT !.todo = ds] \in Frames
        /\ [Top EXCEPT !.todo = ds].item = Top.item
        /\ [Top EXCEPT !.todo = ds].script = Top.script
        /\ [Top EXCEPT !.todo = ds].todo = ds
        /\ [Top EXCEPT !.todo = ds].pc = Top.pc
    <3>1. ds \in SUBSET Items
      BY <1>2, <2>3
    <3> QED
      BY <1>1, <1>2, <3>1, ThenIs, ZenonT(30)
  <2>5. PICK f \in Frames : f = [Top EXCEPT !.todo = ds]
    BY <2>4
  <2>6. PICK t : t = Install(d)
    OBVIOUS
  <2>7. stack' = Append(Front(stack), f) \o t /\ Calls(t, d) /\ t[1].script = "install" /\ d \in Items
    BY <1>2, <2>2, <2>3, <2>5, <2>6 DEF Call, Calls, Install, Frame
  <2>8. Relies(f, {<<t[1].script, d>>})
    BY <1>3, <2>1, <2>3, <2>4, <2>5, <2>7 DEF Relies
  <2>9. Relies(f, {<<t[1].script, d>>})'
    BY <1>1, <2>8, ReliesKept
  <2> QED
    BY <1>1, <2>4, <2>5, <2>7, <2>9, CallCall
<1>9. CASE InstallCheck /\ Top.item \notin installed
  <2>1. Top.script = "install" /\ Top.pc = "check"
    BY <1>9 DEF InstallCheck, At
  <2>2. PICK ds : ds = IF Top.item.tgt = "target" THEN Deps[Top.item] ELSE {}
    OBVIOUS
  <2>3. /\ [Then("deps") EXCEPT !.todo = ds] \in Frames
        /\ [Then("deps") EXCEPT !.todo = ds].item = Top.item
        /\ [Then("deps") EXCEPT !.todo = ds].script = Top.script
        /\ [Then("deps") EXCEPT !.todo = ds].pc = "deps"
        /\ [Then("deps") EXCEPT !.todo = ds].todo = ds
    <3>1. ds \in SUBSET Items /\ "deps" \in Steps[Top.script]
      BY <1>2, <1>4, <2>1, <2>2
    <3> QED
      BY <1>1, <3>1, ThenTodoIs, ZenonT(30)
  <2>4. PICK f \in Frames : f = [Then("deps") EXCEPT !.todo = ds]
    BY <2>3
  <2>5. PICK d \in Items : d = Top.item
    BY <1>2
  <2>6. PICK t : t = Build(d)
    OBVIOUS
  <2>7. stack' = Append(Front(stack), f) \o t /\ Calls(t, d) /\ t[1].script = "build"
    BY <1>9, <2>2, <2>4, <2>5, <2>6 DEF InstallCheck, Call, Calls, Build, Frame
  <2>8. /\ f.item = d /\ f.script = "install" /\ f.pc = "deps"
        /\ f.item.tgt = "target" => f.todo = Deps[f.item]
    BY <2>1, <2>2, <2>3, <2>4, <2>5
  <2>9. Relies(f, {<<t[1].script, d>>})'
    BY <2>7, <2>8 DEF Relies
  <2> QED
    BY <1>1, <2>3, <2>4, <2>7, <2>9, CallCall
<1> QED
  BY <1>5, <1>6, <1>7, <1>8, <1>9

----------------------------------------------------------------------------
(* The script that runs after a step.                                      *)

\* It is no clean, and none that is about to leave a stamp.
Plain ==
  \/ stack = <<>>
  \/ Top.script = "unpack"
  \/ Top.script = "build" /\ Top.pc \in {"check", "deps", "make"}
  \/ Top.script = "install" /\ Top.pc \in {"check", "deps"}

LEMMA ReturnPlain ==
  ASSUME StackInv, stack # <<>>, Return
  PROVE  Plain'
<1> DEFINE n == Len(stack)
<1>1. TypeOK /\ n \in Nat \ {0}
  BY TopType DEF StackInv
<1>2. /\ stack' \in Seq(Frames) /\ Len(stack') = n - 1
      /\ \A k \in 1..Len(stack') : stack'[k] = stack[k]
  BY <1>1, Returned
<1>3. CASE n = 1
  <2>1. stack' = <<>>
    BY <1>2, <1>3, EmptySeq
  <2> QED
    BY <2>1 DEF Plain
<1>4. CASE n # 1
  <2>1. n - 1 \in 1..n /\ n - 1 < n /\ n - 1 \in 1..Len(stack')
    BY <1>1, <1>2, <1>4
  <2>2. Top' = stack[n - 1]
    BY <2>1, <1>2 DEF Top, Last
  <2>3. Waits(n - 1)
    BY <2>1 DEF StackInv, ShapeInv
  <2>4. \/ Top'.script = "install" /\ Top'.pc = "deps"
        \/ Top'.script = "build" /\ Top'.pc \in {"check", "deps"}
        \/ Top'.script = "unpack"
    BY <2>2, <2>3 DEF Waits
  <2> QED
    BY <2>4 DEF Plain
<1> QED
  BY <1>3, <1>4

\* build and install begin at their checks, build with unpack.
LEMMA CalledPlain ==
  ASSUME NEW d \in Items, NEW t, t \in {Install(d), Build(d)}
  PROVE  /\ Calls(t, d) /\ Len(t) \in 1..2 /\ t \in Seq(Frames)
         /\ \/ t[Len(t)].script = "install" /\ t[Len(t)].pc = "check"
            \/ t[Len(t)].script = "unpack"
<1>1. Calls(t, d)
  BY DEF Calls
<1>2. t \in Seq(Frames)
  BY FrameType
<1>3. CASE t = Install(d)
  <2>1. Len(t) = 1 /\ t[1].script = "install" /\ t[1].pc = "check"
    BY <1>3 DEF Install, Frame
  <2> QED
    BY <1>1, <1>2, <2>1
<1>4. CASE t = Build(d)
  <2>1. Len(t) = 2 /\ t[2].script = "unpack"
    BY <1>4 DEF Build, Frame
  <2> QED
    BY <1>1, <1>2, <2>1
<1> QED
  BY <1>3, <1>4

LEMMA NewPlain ==
  ASSUME NEW d \in Items, NEW t, t \in {Install(d), Build(d)}, stack' = t
  PROVE  Plain'
BY CalledPlain DEF Plain, Top, Last

\* The last of the frames that are called runs.
LEMMA CallLast ==
  ASSUME StackInv, stack # <<>>, NEW f \in Frames, NEW d \in Items, NEW t, Calls(t, d),
         stack' = Append(Front(stack), f) \o t
  PROVE  stack' # <<>> /\ Top' = t[Len(t)] /\ Len(stack') > 1
<1>1. TypeOK /\ Len(stack) \in Nat \ {0}
  BY TopType DEF StackInv
<1>2. t \in Seq(Frames) /\ Len(t) \in 1..2
  BY CallShape
<1>3. Len(stack') = Len(stack) + Len(t) /\ \A k \in 1..Len(t) : stack'[Len(stack) + k] = t[k]
  BY <1>1, <1>2, CalledNext, Zenon
<1>4. Len(t) \in 1..Len(t)
  <2>1. Len(t) \in 1..2
    BY <1>2
  <2> QED
    BY <2>1
<1>5. stack'[Len(stack) + Len(t)] = t[Len(t)]
  BY <1>3, <1>4
<1>6. Len(stack') > 1
  BY <1>1, <1>2, <1>3
<1>7. stack' # <<>>
  BY <1>6, EmptySeq
<1> QED
  BY <1>3, <1>5, <1>6, <1>7 DEF Top, Last

LEMMA CallPlain ==
  ASSUME StackInv, stack # <<>>, NEW f \in Frames, NEW d \in Items, NEW t,
         t \in {Install(d), Build(d)}, stack' = Append(Front(stack), f) \o t
  PROVE  Plain'
<1>1. Calls(t, d)
  BY CalledPlain
<1>2. Top' = t[Len(t)]
  BY <1>1, CallLast
<1> QED
  BY <1>2, CalledPlain DEF Plain

LEMMA PlainSteps ==
  ASSUME StackInv,
         \/ CleanUnstamp \/ Extract \/ Patch \/ UnpackUnstamp \/ UnpackStamp \/ CheckStamp
         \/ BuildDeps \/ Compile \/ BuildStamp \/ InstallCheck \/ InstallDeps \/ TouchStamp
         \/ BuildTool \/ Wipe \/ InstallRoot \/ Finish \/ StartImage \/ UserBuild
         \/ UninstallUnstamp \/ UserSkipUnpack \/ Abort
  PROVE  Plain'
<1>1. ASSUME stack # <<>>, Return PROVE Plain'
  BY <1>1, ReturnPlain
<1>2. ASSUME stack # <<>>
      PROVE  /\ Top.item \in Items /\ Top.todo \subseteq Items /\ Top \in Frames
             /\ Deps[Top.item] \subseteq Items /\ Top.pc \in Steps[Top.script]
  BY <1>2, TopType, Assumptions DEF StackInv
<1>3. /\ "patch" \in Steps["unpack"] /\ "unstamp" \in Steps["unpack"]
      /\ "stamp" \in Steps["unpack"] /\ "make" \in Steps["build"]
      /\ "deps" \in Steps["build"] /\ "deps" \in Steps["install"]
  BY StepsAre
<1>4. CASE CleanUnstamp \/ UnpackStamp \/ BuildStamp \/ TouchStamp \/ UninstallUnstamp
  BY <1>1, <1>4 DEF CleanUnstamp, UnpackStamp, BuildStamp, TouchStamp, UninstallUnstamp, At,
                    DepsBuilt
<1>5. CASE Extract
  <2>1. At("unpack", "extract") /\ Goto("patch")
    BY <1>5 DEF Extract
  <2>2. Top'.script = "unpack"
    BY <2>1, <1>3, GotoTop
  <2> QED
    BY <2>2 DEF Plain
<1>6. CASE Patch
  <2>1. At("unpack", "patch") /\ Goto("unstamp")
    BY <1>6 DEF Patch
  <2>2. Top'.script = "unpack"
    BY <2>1, <1>3, GotoTop
  <2> QED
    BY <2>2 DEF Plain
<1>7. CASE UnpackUnstamp
  <2>1. At("unpack", "unstamp") /\ Goto("stamp")
    BY <1>7 DEF UnpackUnstamp
  <2>2. Top'.script = "unpack"
    BY <2>1, <1>3, GotoTop
  <2> QED
    BY <2>2 DEF Plain
<1>8. CASE Compile
  <2>1. At("build", "deps") /\ Goto("make")
    BY <1>8 DEF Compile, DepsBuilt
  <2>2. Top'.script = "build" /\ Top'.pc = "make"
    BY <2>1, <1>3, GotoTop
  <2> QED
    BY <2>2 DEF Plain
<1>9. CASE CheckStamp
  <2>1. stack # <<>> /\ Top.script = "build" /\ (Return \/ Rebuild(Deps[Top.item]))
    BY <1>9 DEF CheckStamp, At
  <2>2. CASE Rebuild(Deps[Top.item])
    <3>1. PICK ds : ds = Deps[Top.item]
      OBVIOUS
    <3>2. /\ AtDeps(ds) \in Frames /\ AtDeps(ds).script = "build" /\ AtDeps(ds).pc = "deps"
      <4>1. ds \in SUBSET Items
        BY <1>2, <2>1, <3>1
      <4> QED
        BY <2>1, <4>1, AtDepsIs
    <3>3. PICK f \in Frames : f = AtDeps(ds)
      BY <3>2
    <3>4. stack' = Append(Front(stack), f)
      BY <2>2, <3>1, <3>3 DEF Rebuild
    <3>5. Top' = f
      BY <2>1, <3>4, ReplaceTop
    <3> QED
      BY <2>1, <3>2, <3>3, <3>5 DEF Plain
  <2> QED
    BY <1>1, <2>1, <2>2
<1>10. CASE BuildDeps \/ InstallDeps
  <2>1. stack # <<>>
    BY <1>10 DEF BuildDeps, InstallDeps, At
  <2>2. PICK d \in Top.todo : \/ Call(Build(d), [Top EXCEPT !.todo = @ \ {d}])
                              \/ Call(Install(d), [Top EXCEPT !.todo = @ \ {d}])
    BY <1>10 DEF BuildDeps, InstallDeps, CallDeps
  <2>3. d \in Items
    BY <1>2, <2>1
  <2>4. PICK ds : ds = Top.todo \ {d}
    OBVIOUS
  <2>5. [Top EXCEPT !.todo = ds] \in Frames
    <3>1. ds \in SUBSET Items
      BY <1>2, <2>1, <2>4
    <3> QED
      BY <1>2, <2>1, <3>1, ThenIs, ZenonT(30)
  <2>6. PICK f \in Frames : f = [Top EXCEPT !.todo = ds]
    BY <2>5
  <2>7. PICK t \in {Install(d), Build(d)} : stack' = Append(Front(stack), f) \o t
    BY <2>2, <2>4, <2>6 DEF Call
  <2> QED
    BY <2>1, <2>3, <2>7, CallPlain
<1>11. CASE InstallCheck
  <2>1. stack # <<>> /\ Top.script = "install"
    BY <1>11 DEF InstallCheck, At
  <2>2. PICK ds : ds = IF Top.item.tgt = "target" THEN Deps[Top.item] ELSE {}
    OBVIOUS
  <2>3. Return \/ Call(Build(Top.item), [Then("deps") EXCEPT !.todo = ds])
    BY <1>11, <2>2 DEF InstallCheck
  <2>4. [Then("deps") EXCEPT !.todo = ds] \in Frames
    <3>1. ds \in SUBSET Items /\ "deps" \in Steps[Top.script]
      BY <1>2, <1>3, <2>1, <2>2
    <3> QED
      BY <2>1, <3>1, ThenTodoIs, ZenonT(30)
  <2>5. PICK f \in Frames : f = [Then("deps") EXCEPT !.todo = ds]
    BY <2>4
  <2>6. CASE Call(Build(Top.item), [Then("deps") EXCEPT !.todo = ds])
    <3>1. PICK d \in Items : d = Top.item
      BY <1>2, <2>1
    <3>2. PICK t \in {Install(d), Build(d)} : stack' = Append(Front(stack), f) \o t
      BY <2>5, <2>6, <3>1 DEF Call
    <3> QED
      BY <2>1, <3>2, CallPlain
  <2> QED
    BY <1>1, <2>1, <2>3, <2>6
<1>12. CASE BuildTool \/ InstallRoot \/ UserBuild
  <2>1. PICK d \in Items : stack' = Build(d) \/ stack' = Install(d)
    BY <1>12 DEF BuildTool, InstallRoot, UserBuild, Command, StackInv, TypeOK
  <2>2. PICK t \in {Install(d), Build(d)} : stack' = t
    BY <2>1
  <2> QED
    BY <2>2, NewPlain
<1>13. CASE Wipe \/ Finish \/ StartImage \/ UserSkipUnpack \/ Abort
  <2>1. stack' = <<>>
    BY <1>13 DEF Wipe, Finish, Packing, StartImage, UserSkipUnpack, Abort, Idle
  <2> QED
    BY <2>1 DEF Plain
<1> QED
  BY <1>4, <1>5, <1>6, <1>7, <1>8, <1>9, <1>10, <1>11, <1>12, <1>13

----------------------------------------------------------------------------
(* Every step of a run keeps its invariant.                                *)

\* clean or uninstall for the developer is the only script that runs, and changes
\* no more than the package's own tree and stamps.
LEMMA AloneSteps ==
  ASSUME stack # <<>>, Alone, Script \/ Uninstaller \/ Edit
  PROVE  Edit \/ CleanStart \/ CleanEnd \/ CleanUnstamp \/ UninstallRemove \/ UninstallUnstamp
BY DEF Alone, Uninstaller, Script, Look, Extract, Patch, UnpackUnstamp, UnpackStamp, CheckStamp,
       BuildDeps, Compile, Make, BuildStamp, DepsBuilt, InstallCheck, InstallDeps, CopyProduct,
       TouchStamp, BuildTool, Wipe, InstallRoot, Finish, Packing, At

LEMMA AloneKeeps ==
  ASSUME StampInv, RunInv, stack # <<>>, Alone, Script \/ Uninstaller \/ Edit
  PROVE  RunInv'
<1>1. /\ TypeOK /\ StackInv /\ Len(stack) = 1 /\ Top = stack[1]
      /\ Top.script \in {"clean", "uninstall"}
  BY TopType DEF StampInv, StackInv, Alone, Lonely
<1>2. \/ stack' = <<>>
      \/ /\ Len(stack') = 1 /\ stack' # <<>> /\ stack'[1].script = Top.script
         /\ Top'.script = Top.script
  <2>1. CASE Edit
    <3>1. stack' = stack
      BY <2>1 DEF Edit
    <3> QED
      BY <1>1, <3>1 DEF Top, Last
  <2>2. CASE CleanStart \/ CleanEnd \/ UninstallRemove
    <3>1. \/ Top.script = "clean" /\ (Goto("removing") \/ Goto("unstamp"))
          \/ Top.script = "uninstall" /\ Goto("unstamp")
      BY <2>2 DEF CleanStart, CleanEnd, UninstallRemove, At
    <3>2. PICK to \in Steps[Top.script] : Goto(to)
      BY <3>1, StepsAre
    <3>3. Then(to) \in Frames /\ Then(to).script = Top.script
      BY <1>1, ThenIs
    <3>4. PICK f \in Frames : f = Then(to)
      BY <3>3
    <3>5. stack' = Append(Front(stack), f) /\ f.script = Top.script
      BY <3>2, <3>3, <3>4 DEF Goto
    <3>6. stack' # <<>> /\ Top' = f
      BY <1>1, <3>5, ReplaceTop
    <3>7. Len(stack') = 1 /\ stack'[1] = f
      BY <1>1, <3>5, Replaced
    <3> QED
      BY <3>5, <3>6, <3>7
  <2>3. CASE CleanUnstamp \/ UninstallUnstamp
    <3>1. Return
      BY <2>3 DEF CleanUnstamp, UninstallUnstamp
    <3>2. stack' \in Seq(Frames) /\ Len(stack') = 0
      BY <1>1, <3>1, Returned
    <3> QED
      BY <3>2, EmptySeq
  <2> QED
    BY <2>1, <2>2, <2>3, AloneSteps
<1>3. phase' = "idle" /\ compiled' = {} /\ installed' = installed
  <2>1. CASE Edit
    BY <2>1 DEF Edit, Alone, Lonely, runs, files
  <2>2. CASE CleanStart \/ CleanEnd \/ CleanUnstamp
    BY <2>2 DEF CleanStart, CleanEnd, CleanUnstamp, Alone, Lonely, runs
  <2>3. CASE UninstallRemove \/ UninstallUnstamp
    BY <2>3 DEF UninstallRemove, UninstallUnstamp, Alone, Lonely, runs, past
  <2> QED
    BY <2>1, <2>2, <2>3, AloneSteps
<1>4. CallInv'
  <2>1. CASE stack' = <<>>
    BY <2>1 DEF CallInv
  <2>2. CASE Len(stack') = 1 /\ stack'[1].script \in {"clean", "uninstall"}
    <3>1. \A k \in 1..Len(stack') : k = 1
      BY <2>2
    <3> QED
      BY <2>2, <3>1 DEF CallInv, Relies
  <2> QED
    BY <1>1, <1>2, <2>1, <2>2
<1>5. CleanInv'
  BY <1>2, <1>3 DEF CleanInv, Lonely
<1>6. CompiledInv'
  BY <1>3 DEF CompiledInv
<1>7. ImageInv'
  BY <1>1, <1>2, <1>3 DEF RunInv, ImageInv, At
<1> QED
  BY <1>4, <1>5, <1>6, <1>7 DEF RunInv

LEMMA CallKept ==
  ASSUME StampInv, RunInv, Next, stack = <<>> \/ ~Alone
  PROVE  CallInv'
<1>1. StackInv /\ CallInv
  BY DEF StampInv, RunInv
<1>2. CASE \/ CleanStart \/ CleanEnd \/ Extract \/ Patch \/ UnpackUnstamp \/ Compile \/ Make
           \/ CopyProduct
  <2>1. stack # <<>>
    BY <1>2 DEF CleanStart, CleanEnd, Extract, Patch, UnpackUnstamp, Compile, Make, CopyProduct,
                DepsBuilt, At
  <2> QED
    BY <1>2, <2>1, CallGotos
<1>3. CASE CleanUnstamp \/ UnpackStamp \/ BuildStamp \/ TouchStamp
  <2>1. stack # <<>> /\ Return
    BY <1>3 DEF CleanUnstamp, UnpackStamp, BuildStamp, TouchStamp, At, DepsBuilt
  <2> QED
    BY <1>3, <2>1, CallReturns
<1>4. CASE Look
  <2>1. stack # <<>> /\ (KeepTree(Package) => Return)
    BY <1>4 DEF Look, At
  <2> QED
    BY <1>4, <2>1, CallReturns, CallCalls
<1>5. CASE CheckStamp
  <2>1. stack # <<>> /\ (UpToDate(Top.item) => Return)
    BY <1>5 DEF CheckStamp, At
  <2> QED
    BY <1>5, <2>1, CallReturns, CallCalls
<1>6. CASE InstallCheck
  <2>1. stack # <<>> /\ (Top.item \in installed => Return)
    BY <1>6 DEF InstallCheck, At
  <2> QED
    BY <1>6, <2>1, CallReturns, CallCalls
<1>7. CASE BuildDeps \/ InstallDeps
  <2>1. stack # <<>>
    BY <1>7 DEF BuildDeps, InstallDeps, At
  <2> QED
    BY <1>7, <2>1, CallCalls
<1>8. CASE BuildTool \/ InstallRoot \/ UserBuild \/ UserClean \/ UserUninstall
  <2>1. PICK d \in Items : stack' \in {Build(d), Install(d), Clean(d), Uninstall(d)}
    <3>1. \A p \in Packages : (CHOOSE i \in Items : i.pkg = p) \in Items
      BY Assumptions
    <3>2. CASE BuildTool \/ InstallRoot \/ UserBuild
      BY <1>1, <3>2 DEF BuildTool, InstallRoot, UserBuild, Command, StackInv, TypeOK
    <3>3. CASE UserClean
      BY <3>1, <3>3 DEF UserClean, Command
    <3>4. CASE UserUninstall
      BY <3>4 DEF UserUninstall, Command
    <3> QED
      BY <1>8, <3>2, <3>3, <3>4
  <2>2. PICK t : t = stack'
    OBVIOUS
  <2> QED
    BY <2>1, <2>2, CallNew DEF Calls
<1>9. CASE Wipe \/ Finish \/ StartImage \/ UserSkipUnpack \/ Abort
  <2>1. stack' = <<>>
    BY <1>9 DEF Wipe, Finish, Packing, StartImage, UserSkipUnpack, Abort, Idle
  <2> QED
    BY <2>1 DEF CallInv
<1>10. CASE Edit
  <2>1. CASE stack = <<>>
    <3>1. stack' = <<>>
      BY <1>10, <2>1 DEF Edit
    <3> QED
      BY <3>1 DEF CallInv
  <2>2. CASE stack # <<>>
    <3>1. Kept /\ stack' = stack
      BY <1>10, <2>2, RunKeeps DEF InRun, Edit
    <3> SUFFICES ASSUME NEW k \in 1..Len(stack) PROVE Relies(stack[k], Callee(k))'
      BY <3>1 DEF CallInv
    <3>2. PICK f \in Frames : f = stack[k]
      BY <1>1, CalleeIs
    <3>3. PICK c : c = Callee(k)
      OBVIOUS
    <3>4. Relies(f, c)'
      BY <1>1, <3>1, <3>2, <3>3, ReliesKept DEF CallInv
    <3>5. Callee(k)' = c
      BY <3>1, <3>3 DEF Callee
    <3> QED
      BY <3>1, <3>2, <3>4, <3>5 DEF Relies
  <2> QED
    BY <2>1, <2>2
<1> QED
  BY <1>2, <1>3, <1>4, <1>5, <1>6, <1>7, <1>8, <1>9, <1>10, NoUninstaller
     DEF Next, Script, Developer

LEMMA CleanKept ==
  ASSUME StampInv, RunInv, Next, stack = <<>> \/ ~Alone
  PROVE  CleanInv'
<1>1. /\ StackInv /\ src \in [Packages -> Versions] /\ tree \in [Packages -> Trees]
      /\ stack # <<>> => Package \in Packages /\ Top.item \in Items /\ Package = Top.item.pkg
      /\ \A p \in Packages : src[p] # None
  BY FilesAre, VersionsAre DEF StampInv, Package
<1>2. ASSUME Plain' PROVE CleanInv'
  BY <1>2 DEF Plain, CleanInv
<1>3. "removing" \in Steps["clean"] /\ "unstamp" \in Steps["clean"] /\ "stamp" \in Steps["build"]
      /\ "touch" \in Steps["install"]
  BY StepsAre
<1>4. CASE CleanStart
  <2>1. At("clean", "remove") /\ Goto("removing") /\ stack # <<>> /\ Top.script = "clean"
    BY <1>4 DEF CleanStart, At
  <2>2. Package' = Package /\ Top'.script = "clean"
    BY <1>1, <1>3, <2>1, GotoTop
  <2>3. Package \notin NoSources /\ (Package \in edited \/ tree[Package].stamp # src[Package])
    BY <2>1, ForeignTree
  <2>4. src' = src /\ edited' = edited /\ tree'[Package].stamp \in {None, tree[Package].stamp}
    BY <1>1, <1>4, <2>1 DEF CleanStart
  <2>5. Package' \in edited' \/ tree'[Package'].stamp # src'[Package']
    BY <1>1, <2>1, <2>2, <2>3, <2>4
  <2> QED
    BY <2>2, <2>3, <2>5 DEF CleanInv
<1>5. CASE CleanEnd
  <2>1. At("clean", "removing") /\ Goto("unstamp") /\ stack # <<>> /\ Top.script = "clean"
    BY <1>5 DEF CleanEnd, At
  <2>2. Package' = Package /\ Top'.script = "clean"
    BY <1>1, <1>3, <2>1, GotoTop
  <2>3. Package \notin NoSources
    BY <2>1, ForeignTree
  <2>4. src' = src /\ tree'[Package].stamp = None
    BY <1>1, <1>5, <2>1, ValuesAre DEF CleanEnd
  <2>5. tree'[Package'].stamp # src'[Package']
    BY <1>1, <2>1, <2>2, <2>4
  <2> QED
    BY <2>2, <2>3, <2>5 DEF CleanInv
<1>6. CASE Look
  <2>1. stack # <<>> /\ Top.script = "unpack" /\ src' = src /\ tree' = tree
    BY <1>6 DEF Look, At, files
  <2>2. CASE Return
    BY <1>1, <1>2, <2>1, <2>2, ReturnPlain
  <2>3. CASE Goto("extract")
    <3>1. At("unpack", "look") /\ "extract" \in Steps["unpack"]
      BY <1>6, StepsAre DEF Look
    <3>2. Top'.script = "unpack"
      BY <1>1, <2>3, <3>1, GotoTop
    <3> QED
      BY <1>2, <3>2 DEF Plain
  <2>4. CASE ~KeepTree(Package) /\ Call(Clean(Top.item), Then("extract"))
    <3>1. Then("extract") \in Frames
      <4>1. "extract" \in Steps[Top.script]
        BY <2>1, StepsAre
      <4> QED
        BY <1>1, <2>1, <4>1, ThenIs
    <3>2. PICK f \in Frames : f = Then("extract")
      BY <3>1
    <3>3. PICK d \in Items : d = Top.item
      BY <1>1, <2>1
    <3>4. PICK t : t = Clean(d)
      OBVIOUS
    <3>5. stack' = Append(Front(stack), f) \o t /\ Calls(t, d)
      BY <2>4, <3>2, <3>3, <3>4 DEF Call, Calls
    <3>6. Top' = t[Len(t)]
      BY <1>1, <2>1, <3>5, CallLast
    <3>7. Top'.item = d /\ Top'.script = "clean"
      BY <3>4, <3>6 DEF Clean, Frame
    <3>8. Package' = Package /\ Top'.script = "clean"
      BY <1>1, <2>1, <3>3, <3>7 DEF Package
    <3>9. Package \notin NoSources /\ tree[Package].stamp # src[Package]
      BY <2>4 DEF KeepTree, Unpacked
    <3>10. tree'[Package'].stamp # src'[Package']
      BY <2>1, <3>8, <3>9
    <3> QED
      BY <3>8, <3>9, <3>10 DEF CleanInv
  <2> QED
    BY <1>6, <2>2, <2>3, <2>4 DEF Look
<1>7. CASE Make
  <2>1. At("build", "make") /\ Goto("stamp")
    BY <1>7 DEF Make
  <2>2. Top'.script = "build"
    BY <1>1, <1>3, <2>1, GotoTop
  <2> QED
    BY <2>2 DEF CleanInv
<1>8. CASE CopyProduct
  <2>1. At("install", "deps") /\ Goto("touch")
    BY <1>8 DEF CopyProduct
  <2>2. Top'.script = "install"
    BY <1>1, <1>3, <2>1, GotoTop
  <2> QED
    BY <2>2 DEF CleanInv
<1>9. CASE UserClean \/ UserUninstall
  <2>1. PICK d : stack' \in {Clean(d), Uninstall(d)}
    BY <1>9 DEF UserClean, UserUninstall, Command
  <2>2. Len(stack') = 1
    BY <2>1 DEF Clean, Uninstall
  <2>3. phase' = "idle" /\ compiled' = {}
    BY <1>9 DEF UserClean, UserUninstall, Command, Idle, runs, Forget
  <2> QED
    BY <2>2, <2>3 DEF CleanInv, Lonely
<1>10. CASE Edit
  <2>1. /\ stack' = stack /\ tree' = tree /\ phase' = phase /\ compiled' = compiled
    BY <1>10 DEF Edit, files, runs
  <2>2. Top' = Top /\ Package' = Package
    BY <2>1 DEF Top, Last, Package
  <2>3. CASE stack # <<>> /\ Top.script = "clean"
    <3>1. Package \notin NoSources /\ (Package \in edited \/ tree[Package].stamp # src[Package])
      BY <2>3, ForeignTree
    <3>2. /\ edited \subseteq edited'
          /\ \A p \in Packages : p \in edited' \/ src'[p] = src[p]
      <4>1. ~Idle
        BY <2>3 DEF Idle
      <4>2. PICK p \in Packages, v \in Versions :
              src' = [src EXCEPT ![p] = v] /\ edited' = edited \cup {p}
        BY <1>10, <4>1 DEF Edit
      <4> QED
        BY <1>1, <4>2
    <3>3. Package \in edited' \/ tree'[Package].stamp # src'[Package]
      BY <1>1, <2>1, <2>3, <3>1, <3>2
    <3> QED
      BY <2>2, <2>3, <3>1, <3>3 DEF CleanInv
  <2>4. CASE ~(stack # <<>> /\ Top.script = "clean")
    BY <2>1, <2>2, <2>4 DEF RunInv, CleanInv, Lonely
  <2> QED
    BY <2>3, <2>4
<1> QED
  BY <1>1, <1>2, <1>4, <1>5, <1>6, <1>7, <1>8, <1>9, <1>10, PlainSteps, NoUninstaller
     DEF Next, Script, Developer

LEMMA CompiledKept ==
  ASSUME StampInv, RunInv, Next, stack = <<>> \/ ~Alone
  PROVE  CompiledInv'
<1>1. StackInv /\ compiled \subseteq Items
  BY DEF StampInv, StackInv, TypeOK
<1> SUFFICES ASSUME ~Idle'
             PROVE  \A i \in compiled' : Current(i)' \/ (At("build", "stamp")' /\ Top'.item = i)
  BY DEF CompiledInv
<1>2. CASE InRun /\ Make
  <2>1. At("build", "make") /\ Goto("stamp") /\ compiled' = compiled \cup {Top.item}
    BY <1>2 DEF Make
  <2>2. At("build", "stamp")' /\ Top'.item = Top.item
    <3>1. "stamp" \in Steps["build"]
      BY StepsAre
    <3>2. stack' # <<>> /\ Top'.script = "build" /\ Top'.pc = "stamp" /\ Top'.item = Top.item
      BY <1>1, <2>1, <3>1, GotoTop
    <3> QED
      BY <3>2 DEF At
  <2>3. \A i \in compiled : Current(i)
    BY <1>2, <2>1 DEF RunInv, CompiledInv, InRun, Idle, At
  <2>4. Kept
    BY <1>2, RunKeeps DEF InRun
  <2>5. \A i \in compiled : Current(i)'
    BY <1>1, <2>3, <2>4 DEF Kept
  <2> QED
    BY <2>1, <2>2, <2>5
<1>3. CASE InRun /\ ~Make
  <2>1. Kept /\ stack # <<>> /\ ~Idle
    BY <1>3, RunKeeps DEF InRun, Idle
  <2>2. compiled' = compiled
    <3>1. CASE Edit
      BY <3>1 DEF Edit
    <3>2. CASE \/ CleanStart \/ CleanEnd \/ CleanUnstamp \/ Look \/ Extract \/ Patch
               \/ UnpackUnstamp \/ UnpackStamp
      BY <3>2 DEF CleanStart, CleanEnd, CleanUnstamp, Look, Extract, Patch, UnpackUnstamp,
                  UnpackStamp, past
    <3>3. CASE CheckStamp \/ BuildDeps \/ Compile \/ BuildStamp
      BY <3>3 DEF CheckStamp, BuildDeps, Compile, BuildStamp, past
    <3>4. CASE InstallCheck \/ InstallDeps \/ CopyProduct \/ TouchStamp
      BY <3>4 DEF InstallCheck, InstallDeps, CopyProduct, TouchStamp, past
    <3>5. CASE BuildTool \/ Wipe \/ InstallRoot \/ Finish
      BY <2>1, <3>5 DEF BuildTool, Wipe, InstallRoot, Finish, Packing
    <3> QED
      BY <1>3, <3>1, <3>2, <3>3, <3>4, <3>5 DEF InRun, Script
  <2> SUFFICES ASSUME NEW i \in compiled
               PROVE  Current(i)' \/ (At("build", "stamp")' /\ Top'.item = i)
    BY <2>2
  <2>3. CASE Current(i)
    BY <1>1, <2>1, <2>3 DEF Kept
  <2>4. CASE At("build", "stamp") /\ Top.item = i
    <3>1. Edit \/ BuildStamp
      BY <1>3, <2>4 DEF InRun, Script, CleanStart, CleanEnd, CleanUnstamp, Look, Extract, Patch,
           UnpackUnstamp, UnpackStamp, CheckStamp, BuildDeps, Compile, DepsBuilt, InstallCheck,
           InstallDeps, CopyProduct, TouchStamp, BuildTool, Wipe, InstallRoot, Finish, Packing, At
    <3>2. CASE Edit
      <4>1. stack' = stack
        BY <3>2 DEF Edit
      <4> QED
        BY <2>4, <4>1 DEF At, Top, Last
    <3>3. CASE BuildStamp
      BY <2>4, <3>3, BuiltIsCurrent
    <3> QED
      BY <3>1, <3>2, <3>3
  <2> QED
    BY <2>1, <2>3, <2>4 DEF RunInv, CompiledInv
<1>4. CASE stack = <<>>
  <2>1. CASE BuildTool \/ Wipe \/ InstallRoot
    <3>1. /\ ~Idle /\ compiled' = compiled /\ stamp' = stamp /\ tree' = tree /\ src' = src
          /\ edited' = edited
      BY <2>1 DEF BuildTool, Wipe, InstallRoot, Idle, files, past
    <3>2. \A i \in compiled : Current(i)
      BY <1>4, <3>1 DEF RunInv, CompiledInv, At
    <3> QED
      BY <3>1, <3>2 DEF Current, TreeCurrent
  <2>2. CASE StartImage \/ UserBuild \/ UserClean \/ UserUninstall \/ Finish \/ Abort
    BY <2>2 DEF StartImage, UserBuild, UserClean, UserUninstall, Command, Finish, Abort, Forget
  <2>3. CASE UserSkipUnpack
    BY <2>3 DEF UserSkipUnpack, Idle, runs
  <2>4. CASE Edit
    <3>1. ~Idle /\ compiled' = compiled
      BY <2>4 DEF Edit, Idle, runs
    <3>2. \A i \in compiled : Current(i)
      BY <1>4, <3>1 DEF RunInv, CompiledInv, At
    <3>3. Kept
      BY <2>4, <3>1, EditTakesNothing
    <3> QED
      BY <1>1, <3>1, <3>2, <3>3 DEF Kept
  <2>5. \/ BuildTool \/ Wipe \/ InstallRoot \/ StartImage \/ UserBuild \/ UserClean \/ Finish
        \/ Abort \/ UserUninstall \/ UserSkipUnpack \/ Edit
    BY <1>4, NoUninstaller DEF Next, Developer, Script, CleanStart, CleanEnd, CleanUnstamp, Look, Extract, Patch,
         UnpackUnstamp, UnpackStamp, CheckStamp, BuildDeps, Compile, Make, BuildStamp, DepsBuilt,
         InstallCheck, InstallDeps, CopyProduct, TouchStamp, At
  <2> QED
    BY <2>1, <2>2, <2>3, <2>4, <2>5
<1>5. CASE stack # <<>> /\ ~InRun
  <2>1. Abort
    BY <1>5, NoUninstaller DEF InRun, Next, Developer, StartImage, UserBuild, UserClean, UserUninstall,
                UserSkipUnpack, Command, Idle
  <2> QED
    BY <2>1 DEF Abort
<1> QED
  BY <1>2, <1>3, <1>4, <1>5

----------------------------------------------------------------------------
(* The image.                                                              *)

\* What is current and not spoiled was made of the current version.
LEMMA CurrentProduct ==
  ASSUME StampInv, ~At("uninstall", "unstamp"),
         NEW i \in Items, Current(i), i.pkg \notin edited \cup spoiled \cup Virtual
  PROVE  product[i] = src[i.pkg]
<1>1. src[i.pkg] \in Versions
  BY FilesAre DEF StampInv
<1>2. stamp[i] = src[i.pkg] /\ (i.pkg \in NoSources \/ tree[i.pkg].stamp = src[i.pkg])
  BY DEF Current, TreeCurrent
<1> QED
  BY <1>1, <1>2 DEF StampInv, VersionInv, Vouched, Uninstalling

LEMMA OnImageStays ==
  ASSUME StampInv, RunInv, stack # <<>>, ~Alone, Script,
         NEW i \in Items, i.tgt = "target", Current(i), OnImage(i)
  PROVE  OnImage(i)'
<1>1. /\ StackInv /\ image \in [Packages -> Things] /\ i.pkg \in Packages
      /\ Top.item \in Items /\ Package = Top.item.pkg
      /\ src[i.pkg] # None
  BY FilesAre, VersionsAre DEF StampInv, StackInv, TypeOK, Package
<1>2. src' = src /\ edited' = edited
  <2>1. CASE CleanStart \/ CleanEnd \/ CleanUnstamp \/ Look \/ Extract \/ Patch \/ UnpackUnstamp
    BY <2>1 DEF CleanStart, CleanEnd, CleanUnstamp, Look, Extract, Patch, UnpackUnstamp, past
  <2>2. CASE UnpackStamp \/ CheckStamp \/ BuildDeps \/ Compile \/ Make \/ BuildStamp
    BY <2>2 DEF UnpackStamp, CheckStamp, BuildDeps, Compile, Make, BuildStamp, past
  <2>3. CASE InstallCheck \/ InstallDeps \/ CopyProduct \/ TouchStamp
    BY <2>3 DEF InstallCheck, InstallDeps, CopyProduct, TouchStamp, past
  <2>4. CASE BuildTool \/ Wipe \/ InstallRoot \/ Finish
    BY <2>4 DEF BuildTool, Wipe, InstallRoot, Finish, Packing
  <2> QED
    BY <2>1, <2>2, <2>3, <2>4 DEF Script
<1>3. CASE i.pkg \in edited \cup Virtual
  BY <1>2, <1>3 DEF OnImage
<1>4. CASE i.pkg \in spoiled \ edited
  <2>1. CASE CleanEnd \/ CleanUnstamp
    <3>1. Top.script = "clean"
      BY <2>1 DEF CleanEnd, CleanUnstamp, At
    <3>2. i.pkg # Package
      BY <1>4, <3>1, ForeignTree DEF Current, TreeCurrent
    <3>3. i.pkg \in spoiled'
      BY <1>4, <2>1, <3>2 DEF CleanEnd, CleanUnstamp
    <3> QED
      BY <3>3 DEF OnImage
  <2>2. CASE CheckStamp
    <3>1. spoiled' = spoiled \/ (~UpToDate(Top.item) /\ Rebuild(Deps[Top.item]))
      BY <2>2 DEF CheckStamp
    <3>2. ASSUME ~UpToDate(Top.item), Rebuild(Deps[Top.item]) PROVE i.pkg \in spoiled'
      <4>1. i # Top.item
        BY <1>4, <3>2 DEF Current, UpToDate
      <4>2. i.pkg # Package \/ ItemsOf(Package) # {Top.item}
        BY <4>1 DEF ItemsOf
      <4> QED
        BY <1>4, <3>2, <4>2 DEF Rebuild
    <3>3. i.pkg \in spoiled'
      BY <1>4, <3>1, <3>2
    <3> QED
      BY <3>3 DEF OnImage
  <2>3. CASE ~(CleanEnd \/ CleanUnstamp \/ CheckStamp)
    <3>1. spoiled \subseteq spoiled'
      <4>1. CASE CleanStart \/ Look \/ Extract \/ Patch \/ UnpackUnstamp \/ UnpackStamp
        BY <4>1 DEF CleanStart, Look, Extract, Patch, UnpackUnstamp, UnpackStamp, past
      <4>2. CASE BuildDeps \/ Compile \/ Make \/ BuildStamp
        BY <4>2 DEF BuildDeps, Compile, Make, BuildStamp, past
      <4>3. CASE InstallCheck \/ InstallDeps \/ CopyProduct \/ TouchStamp
        BY <4>3 DEF InstallCheck, InstallDeps, CopyProduct, TouchStamp, past
      <4>4. CASE BuildTool \/ Wipe \/ InstallRoot \/ Finish
        BY <4>4 DEF BuildTool, Wipe, InstallRoot, Finish, Packing
      <4> QED
        BY <2>3, <4>1, <4>2, <4>3, <4>4 DEF Script
    <3> QED
      BY <1>4, <3>1 DEF OnImage
  <2> QED
    BY <2>1, <2>2, <2>3
<1>5. CASE i.pkg \notin edited \cup spoiled \cup Virtual
  <2>1. image[i.pkg] = src[i.pkg]
    BY <1>5 DEF OnImage
  <2>2. CASE CopyProduct
    <3>1. image' = IF Top.item.tgt = "target"
                   THEN [image EXCEPT ![Package] = product[Top.item]] ELSE image
      BY <2>2 DEF CopyProduct
    <3>2. CASE Top.item.tgt = "target" /\ Package = i.pkg
      <4>1. Top.item = i
        <5>1. i \in [pkg : Packages, tgt : Targets] /\ Top.item \in [pkg : Packages, tgt : Targets]
          BY <1>1, Assumptions
        <5>2. i.pkg = Top.item.pkg /\ i.tgt = Top.item.tgt
          BY <1>1, <3>2
        <5>3. PICK j \in [pkg : Packages, tgt : Targets] : j = Top.item
          BY <5>1
        <5> QED
          BY <5>1, <5>2, <5>3
      <4>2. image'[i.pkg] = product[i]
        BY <1>1, <3>1, <3>2, <4>1
      <4> QED
        BY <1>2, <1>5, <2>2, <4>2, CurrentProduct DEF OnImage, CopyProduct, At
    <3>3. CASE ~(Top.item.tgt = "target" /\ Package = i.pkg)
      <4>1. image'[i.pkg] = image[i.pkg]
        BY <1>1, <3>1, <3>3
      <4> QED
        BY <1>2, <2>1, <4>1 DEF OnImage
    <3> QED
      BY <3>2, <3>3
  <2>3. CASE ~CopyProduct
    <3>1. image' = image
      <4>1. CASE \/ CleanStart \/ CleanEnd \/ CleanUnstamp \/ Look \/ Extract \/ Patch
                 \/ UnpackUnstamp
        BY <4>1 DEF CleanStart, CleanEnd, CleanUnstamp, Look, Extract, Patch, UnpackUnstamp, files
      <4>2. CASE UnpackStamp \/ CheckStamp \/ BuildDeps \/ Compile \/ Make \/ BuildStamp
        BY <4>2 DEF UnpackStamp, CheckStamp, BuildDeps, Compile, Make, BuildStamp, files
      <4>3. CASE InstallCheck \/ InstallDeps \/ TouchStamp
        BY <4>3 DEF InstallCheck, InstallDeps, TouchStamp, files
      <4>4. CASE BuildTool \/ Wipe \/ InstallRoot \/ Finish
        BY <4>4 DEF BuildTool, Wipe, InstallRoot, Finish, Packing
      <4> QED
        BY <2>3, <4>1, <4>2, <4>3, <4>4 DEF Script
    <3> QED
      BY <1>2, <2>1, <3>1 DEF OnImage
  <2> QED
    BY <2>2, <2>3
<1> QED
  BY <1>3, <1>4, <1>5

\* The scripts below the one that runs stay, and so does the first of them.
LEMMA BottomStays ==
  ASSUME StackInv, stack # <<>>, NEW f \in Frames, f.item = Top.item, f.script = Top.script,
         \/ stack' = Append(Front(stack), f)
         \/ \E d \in Items : \E t : Calls(t, d) /\ stack' = Append(Front(stack), f) \o t
  PROVE  stack' # <<>> /\ stack'[1].item = stack[1].item /\ stack'[1].script = stack[1].script
<1> DEFINE n == Len(stack)
<1>1. TypeOK /\ n \in Nat \ {0} /\ Top = stack[n]
  BY TopType DEF StackInv
<1>2. /\ Len(stack') \in Nat /\ Len(stack') >= n /\ stack'[n] = f
      /\ \A k \in 1..n - 1 : stack'[k] = stack[k]
  <2>1. CASE stack' = Append(Front(stack), f)
    BY <1>1, <2>1, Replaced
  <2>2. CASE \E d \in Items : \E t : Calls(t, d) /\ stack' = Append(Front(stack), f) \o t
    <3>1. PICK d \in Items : \E t : Calls(t, d) /\ stack' = Append(Front(stack), f) \o t
      BY <2>2
    <3>4. PICK t : Calls(t, d) /\ stack' = Append(Front(stack), f) \o t
      BY <3>1
    <3>2. t \in Seq(Frames) /\ Len(t) \in 1..2
      BY <3>4, CallShape
    <3>3. /\ Len(stack') = n + Len(t) /\ stack'[n] = f
          /\ \A k \in 1..n - 1 : stack'[k] = stack[k]
      BY <1>1, <3>4, <3>2, CalledNext
    <3> QED
      BY <1>1, <3>2, <3>3
  <2> QED
    BY <2>1, <2>2
<1>3. stack' # <<>>
  BY <1>1, <1>2, EmptySeq
<1>4. CASE n = 1
  BY <1>1, <1>2, <1>3, <1>4
<1>5. CASE n > 1
  BY <1>1, <1>2, <1>3, <1>5
<1>6. \A m \in Nat \ {0} : m = 1 \/ m > 1
  OBVIOUS
<1> HIDE DEF n
<1> QED
  BY <1>1, <1>4, <1>5, <1>6

\* A script of a stack calls another, goes on to its next step, or is through:
\* install then has left its stamp.
LEMMA Moves ==
  ASSUME StackInv, stack # <<>>, Script
  PROVE  \/ Return /\ (Top.script = "install" => Top.item \in installed')
         \/ \E f \in Frames :
              /\ f.item = Top.item /\ f.script = Top.script
              /\ \/ stack' = Append(Front(stack), f)
                 \/ \E d \in Items : \E t : Calls(t, d) /\ stack' = Append(Front(stack), f) \o t
<1>1. /\ Top.item \in Items /\ Top.todo \subseteq Items /\ Top \in Frames
      /\ Deps[Top.item] \subseteq Items /\ Top.pc \in Steps[Top.script]
  BY TopType, Assumptions DEF StackInv
<1>2. ASSUME NEW to \in Steps[Top.script]
      PROVE  /\ Then(to) \in Frames /\ Then(to).item = Top.item /\ Then(to).script = Top.script
             /\ \A ds \in SUBSET Items :
                  /\ [Then(to) EXCEPT !.todo = ds] \in Frames
                  /\ [Then(to) EXCEPT !.todo = ds].item = Top.item
                  /\ [Then(to) EXCEPT !.todo = ds].script = Top.script
  <2>1. Then(to) \in Frames /\ Then(to).item = Top.item /\ Then(to).script = Top.script
    BY ThenIs
  <2>2. ASSUME NEW ds \in SUBSET Items
        PROVE  /\ [Then(to) EXCEPT !.todo = ds] \in Frames
               /\ [Then(to) EXCEPT !.todo = ds].item = Top.item
               /\ [Then(to) EXCEPT !.todo = ds].script = Top.script
    BY ThenTodoIs, ZenonT(30)
  <2> QED
    BY <2>1, <2>2
<1>3. ASSUME NEW ds \in SUBSET Items
      PROVE  /\ [Top EXCEPT !.todo = ds] \in Frames
             /\ [Top EXCEPT !.todo = ds].item = Top.item
             /\ [Top EXCEPT !.todo = ds].script = Top.script
  BY <1>1, ThenIs, ZenonT(30)
<1>4. /\ "removing" \in Steps["clean"] /\ "unstamp" \in Steps["clean"]
      /\ {"extract", "patch", "unstamp", "stamp"} \subseteq Steps["unpack"]
      /\ {"deps", "make", "stamp"} \subseteq Steps["build"]
      /\ {"deps", "touch"} \subseteq Steps["install"]
  BY StepsAre
<1>5. ASSUME NEW to \in Steps[Top.script], Goto(to)
      PROVE  \E f \in Frames : /\ f.item = Top.item /\ f.script = Top.script
                               /\ stack' = Append(Front(stack), f)
  <2>1. stack' = Append(Front(stack), Then(to))
    BY <1>5 DEF Goto
  <2> QED
    BY <1>2, <2>1
<1>6. CASE CleanStart \/ CleanEnd
  <2>1. Top.script = "clean" /\ (Goto("removing") \/ Goto("unstamp"))
    BY <1>6 DEF CleanStart, CleanEnd, At
  <2> QED
    BY <1>4, <1>5, <2>1
<1>7. CASE Extract \/ Patch \/ UnpackUnstamp
  <2>1. Top.script = "unpack" /\ (Goto("patch") \/ Goto("unstamp") \/ Goto("stamp"))
    BY <1>7 DEF Extract, Patch, UnpackUnstamp, At
  <2> QED
    BY <1>4, <1>5, <2>1
<1>8. CASE Compile \/ Make
  <2>1. Top.script = "build" /\ (Goto("make") \/ Goto("stamp"))
    BY <1>8 DEF Compile, DepsBuilt, Make, At
  <2> QED
    BY <1>4, <1>5, <2>1
<1>9. CASE CopyProduct
  <2>1. Top.script = "install" /\ Goto("touch")
    BY <1>9 DEF CopyProduct, At
  <2> QED
    BY <1>4, <1>5, <2>1
<1>10. CASE CleanUnstamp \/ UnpackStamp \/ BuildStamp
  <2>1. Return /\ Top.script # "install"
    BY <1>10 DEF CleanUnstamp, UnpackStamp, BuildStamp, DepsBuilt, At
  <2> QED
    BY <2>1
<1>11. CASE TouchStamp
  <2>1. Return /\ Top.item \in installed'
    BY <1>11 DEF TouchStamp
  <2> QED
    BY <2>1
<1>12. CASE Look
  <2>1. /\ Top.script = "unpack"
        /\ Return \/ Goto("extract") \/ Call(Clean(Top.item), Then("extract"))
    BY <1>12 DEF Look, At
  <2>2. CASE Call(Clean(Top.item), Then("extract"))
    <3>1. stack' = Append(Front(stack), Then("extract")) \o Clean(Top.item)
      BY <2>2 DEF Call
    <3>2. Calls(Clean(Top.item), Top.item)
      BY DEF Calls
    <3> QED
      BY <1>1, <1>2, <1>4, <2>1, <3>1, <3>2
  <2> QED
    BY <1>4, <1>5, <2>1, <2>2
<1>13. CASE CheckStamp
  <2>1. Top.script = "build" /\ (Return \/ Rebuild(Deps[Top.item]))
    BY <1>13 DEF CheckStamp, At
  <2>2. CASE Rebuild(Deps[Top.item])
    <3>1. stack' = Append(Front(stack), AtDeps(Deps[Top.item]))
      BY <2>2 DEF Rebuild
    <3>2. PICK f : f = AtDeps(Deps[Top.item])
      OBVIOUS
    <3>3. f \in Frames /\ f.item = Top.item /\ f.script = Top.script
      <4>1. Deps[Top.item] \in SUBSET Items
        BY <1>1
      <4> QED
        BY <2>1, <3>2, <4>1, AtDepsIs
    <3> QED
      BY <3>1, <3>2, <3>3
  <2> QED
    BY <2>1, <2>2
<1>14. CASE BuildDeps \/ InstallDeps
  <2>1. PICK d \in Top.todo : \/ Call(Build(d), [Top EXCEPT !.todo = @ \ {d}])
                              \/ Call(Install(d), [Top EXCEPT !.todo = @ \ {d}])
    BY <1>14 DEF BuildDeps, InstallDeps, CallDeps
  <2>2. PICK f : f = [Top EXCEPT !.todo = Top.todo \ {d}]
    OBVIOUS
  <2>3. f \in Frames /\ f.item = Top.item /\ f.script = Top.script
    <3>1. Top.todo \ {d} \in SUBSET Items
      BY <1>1
    <3> QED
      BY <1>3, <2>2, <3>1
  <2>4. PICK t \in {Build(d), Install(d)} : stack' = Append(Front(stack), f) \o t
    BY <2>1, <2>2 DEF Call
  <2>5. Calls(t, d) /\ d \in Items
    BY <1>1, <2>4 DEF Calls
  <2> QED
    BY <2>3, <2>4, <2>5
<1>15. CASE InstallCheck
  <2>1. Top.script = "install"
    BY <1>15 DEF InstallCheck, At
  <2>2. PICK ds : ds = IF Top.item.tgt = "target" THEN Deps[Top.item] ELSE {}
    OBVIOUS
  <2>3. /\ installed' = installed
        /\ IF Top.item \in installed THEN Return
           ELSE Call(Build(Top.item), [Then("deps") EXCEPT !.todo = ds])
    BY <1>15, <2>2 DEF InstallCheck, files
  <2>4. CASE Call(Build(Top.item), [Then("deps") EXCEPT !.todo = ds])
    <3>1. PICK f : f = [Then("deps") EXCEPT !.todo = ds]
      OBVIOUS
    <3>2. f \in Frames /\ f.item = Top.item /\ f.script = Top.script
      <4>1. "deps" \in Steps[Top.script] /\ ds \in SUBSET Items
        BY <1>1, <1>4, <2>1, <2>2
      <4> QED
        BY <1>2, <3>1, <4>1
    <3>3. stack' = Append(Front(stack), f) \o Build(Top.item)
      BY <2>4, <3>1 DEF Call
    <3>4. Calls(Build(Top.item), Top.item)
      BY DEF Calls
    <3> QED
      BY <1>1, <3>2, <3>3, <3>4
  <2> QED
    BY <2>3, <2>4
<1>16. ~(BuildTool \/ Wipe \/ InstallRoot \/ Finish)
  BY DEF BuildTool, Wipe, InstallRoot, Finish, Packing
<1> QED
  BY <1>6, <1>7, <1>8, <1>9, <1>10, <1>11, <1>12, <1>13, <1>14, <1>15, <1>16 DEF Script

LEMMA EditOnImage ==
  ASSUME StampInv, ~Idle, Edit, NEW i \in Items, OnImage(i)
  PROVE  OnImage(i)'
<1>1. PICK p \in Packages, v \in Versions :
        /\ src' = [src EXCEPT ![p] = v] /\ edited' = edited \cup {p}
        /\ spoiled' = IF InWindow(p) THEN spoiled \cup {p} ELSE spoiled
  BY DEF Edit
<1>2. image' = image /\ src \in [Packages -> Versions] /\ i.pkg \in Packages
  BY FilesAre DEF Edit, files, StampInv
<1>3. i.pkg \in edited' \/ src'[i.pkg] = src[i.pkg]
  BY <1>1, <1>2
<1>4. edited \subseteq edited' /\ spoiled \subseteq spoiled'
  BY <1>1
<1> QED
  BY <1>2, <1>3, <1>4 DEF OnImage

LEMMA InstalledClosed ==
  ASSUME StampInv, RunInv, Next
  PROVE  \A i \in installed' : i.tgt = "target" => Deps[i] \subseteq installed'
<1>1. \A i \in installed : i.tgt = "target" => Deps[i] \subseteq installed
  BY DEF RunInv, ImageInv
<1>2. CASE TouchStamp
  <2>1. At("install", "touch") /\ installed' = installed \cup {Top.item}
    BY <1>2 DEF TouchStamp
  <2>2. stack # <<>> /\ Top.script = "install" /\ Top.pc = "touch" /\ Top.todo = {}
    BY <2>1 DEF At, RunInv, ImageInv
  <2>3. Relies(Top, {})
    BY <2>2, TopRelies DEF StampInv, RunInv
  <2>4. Top.item.tgt = "target" => Deps[Top.item] \subseteq installed
    BY <2>2, <2>3 DEF Relies
  <2> QED
    BY <1>1, <2>1, <2>4
<1>3. CASE Wipe
  BY <1>3 DEF Wipe
<1>4. CASE ~TouchStamp /\ ~Wipe
  <2>1. installed' = installed
    <3>1. CASE CleanStart \/ CleanEnd \/ CleanUnstamp \/ Look \/ Extract \/ Patch \/ UnpackUnstamp
      BY <3>1 DEF CleanStart, CleanEnd, CleanUnstamp, Look, Extract, Patch, UnpackUnstamp, files
    <3>2. CASE UnpackStamp \/ CheckStamp \/ BuildDeps \/ Compile \/ Make \/ BuildStamp
      BY <3>2 DEF UnpackStamp, CheckStamp, BuildDeps, Compile, Make, BuildStamp, files
    <3>3. CASE InstallCheck \/ InstallDeps \/ CopyProduct \/ BuildTool \/ InstallRoot \/ Finish
      BY <3>3 DEF InstallCheck, InstallDeps, CopyProduct, BuildTool, InstallRoot, Finish, files
    <3>4. CASE StartImage \/ UserBuild \/ UserClean \/ UserUninstall \/ UserSkipUnpack
      BY <3>4 DEF StartImage, UserBuild, UserClean, Command, UserUninstall, UserSkipUnpack, files
    <3>5. CASE UninstallRemove \/ UninstallUnstamp \/ Edit \/ Abort
      BY <3>5 DEF UninstallRemove, UninstallUnstamp, Edit, Abort, files
    <3> QED
      BY <1>4, <3>1, <3>2, <3>3, <3>4, <3>5 DEF Next, Script, Uninstaller, Developer
  <2> QED
    BY <1>1, <2>1
<1> QED
  BY <1>2, <1>3, <1>4

\* What is about to be stamped as installed is in the image.
LEMMA CopyIsCurrent ==
  ASSUME StampInv, RunInv, CopyProduct
  PROVE  (Top.todo = {} /\ (Top.item.tgt = "target" => OnImage(Top.item)))'
<1>1. /\ stack # <<>> /\ Top.script = "install" /\ Top.pc = "deps" /\ Top.todo = {}
      /\ stack' = Append(Front(stack), Then("touch"))
  BY DEF CopyProduct, At, Goto
<1>2. /\ StackInv /\ image \in [Packages -> Things] /\ Package = Top.item.pkg
      /\ Top.item \in Items /\ Package \in Packages
  BY <1>1, FilesAre DEF StampInv, StackInv, TypeOK, Package
<1>3. /\ Then("touch") \in Frames /\ Then("touch").item = Top.item
      /\ Then("touch").todo = {}
  BY <1>1, <1>2, ThenIs, StepsAre
<1>4. PICK f \in Frames : f = Then("touch")
  BY <1>3
<1>5. Top' = f
  BY <1>1, <1>2, <1>4, ReplaceTop
<1>6. PICK i \in Items : i = Top.item
  BY <1>2
<1>7. Top'.item = i /\ Top'.todo = {}
  BY <1>3, <1>4, <1>5, <1>6
<1>8. ASSUME i.tgt = "target" PROVE OnImage(i)'
  <2>1. image' = [image EXCEPT ![Package] = product[Top.item]]
    BY <1>6, <1>8 DEF CopyProduct
  <2>2. image'[i.pkg] = product[i]
    BY <1>2, <1>6, <2>1
  <2>3. src' = src /\ edited' = edited /\ spoiled' = spoiled
    BY DEF CopyProduct, past
  <2>4. Relies(Top, {})
    BY <1>1, <1>2, TopRelies DEF RunInv
  <2>5. Current(i)
    BY <1>1, <1>6, <2>4 DEF Relies
  <2>6. i.pkg \in edited \cup spoiled \cup Virtual \/ product[i] = src[i.pkg]
    BY <1>1, <2>5, CurrentProduct DEF At
  <2> QED
    BY <2>2, <2>3, <2>6 DEF OnImage
<1> QED
  BY <1>7, <1>8 DEF OnImage

LEMMA TouchKept ==
  ASSUME StampInv, RunInv, Next
  PROVE  (At("install", "touch") =>
            Top.todo = {} /\ (Top.item.tgt = "target" => OnImage(Top.item)))'
<1>1. StackInv
  BY DEF StampInv
<1>2. ASSUME Plain' PROVE ~At("install", "touch")'
  BY <1>2 DEF Plain, At
<1>3. CASE CopyProduct
  BY <1>3, CopyIsCurrent
<1>4. CASE Edit
  <2>1. stack' = stack
    BY <1>4 DEF Edit
  <2>5. Top' = Top /\ At("install", "touch")' = At("install", "touch")
    BY <2>1 DEF At, Top
  <2> SUFFICES ASSUME At("install", "touch")
               PROVE  (Top.todo = {} /\ (Top.item.tgt = "target" => OnImage(Top.item)))'
    BY <2>5
  <2>2. stack # <<>> /\ Top.todo = {} /\ (Top.item.tgt = "target" => OnImage(Top.item))
    BY DEF At, RunInv, ImageInv
  <2>3. PICK i \in Items : i = Top.item
    BY <2>2, FilesAre DEF StampInv
  <2>4. ASSUME OnImage(i) PROVE OnImage(i)'
    BY <1>1, <1>4, <2>2, <2>3, <2>4, EditOnImage DEF Idle
  <2> QED
    BY <2>2, <2>3, <2>4, <2>5 DEF OnImage
<1>5. CASE CleanStart \/ CleanEnd \/ Make
  <2>1. /\ "removing" \in Steps["clean"] /\ "unstamp" \in Steps["clean"]
        /\ "stamp" \in Steps["build"]
    BY StepsAre
  <2>2. \/ At("clean", "remove") /\ Goto("removing")
        \/ At("clean", "removing") /\ Goto("unstamp")
        \/ At("build", "make") /\ Goto("stamp")
    BY <1>5 DEF CleanStart, CleanEnd, Make
  <2>3. Top'.script \in {"clean", "build"}
    BY <1>1, <2>1, <2>2, GotoTop
  <2> QED
    BY <2>3 DEF At
<1>6. CASE Look
  <2>1. /\ At("unpack", "look")
        /\ Return \/ Goto("extract") \/ Call(Clean(Top.item), Then("extract"))
    BY <1>6 DEF Look
  <2>2. stack # <<>> /\ Top.script = "unpack" /\ "extract" \in Steps["unpack"]
    BY <2>1, StepsAre DEF At
  <2>3. CASE Return
    BY <1>1, <1>2, <2>2, <2>3, ReturnPlain
  <2>4. CASE Goto("extract")
    <3>1. Top'.script = "unpack"
      BY <1>1, <2>1, <2>2, <2>4, GotoTop
    <3> QED
      BY <3>1 DEF At
  <2>5. CASE Call(Clean(Top.item), Then("extract"))
    <3>1. PICK d \in Items : d = Top.item
      BY <2>2, FilesAre DEF StampInv
    <3>2. PICK t : t = Clean(d)
      OBVIOUS
    <3>3. PICK f \in Frames : f = Then("extract")
      BY <1>1, <2>2, ThenIs
    <3>4. stack' = Append(Front(stack), f) \o t /\ Calls(t, d)
      BY <2>5, <3>1, <3>2, <3>3 DEF Call, Calls
    <3>5. Top' = t[Len(t)]
      BY <1>1, <2>2, <3>4, CallLast
    <3>6. t[Len(t)].script = "clean"
      BY <3>2 DEF Clean, Frame
    <3> QED
      BY <3>5, <3>6 DEF At
  <2> QED
    BY <2>1, <2>3, <2>4, <2>5
<1>7. CASE UserClean \/ UserUninstall
  <2>1. PICK d : stack' \in {Clean(d), Uninstall(d)}
    BY <1>7 DEF UserClean, UserUninstall, Command
  <2>2. Top'.script \in {"clean", "uninstall"}
    BY <2>1 DEF Clean, Uninstall, Frame, Top, Last
  <2> QED
    BY <2>2 DEF At
<1>8. CASE UninstallRemove
  <2>1. At("uninstall", "remove") /\ Goto("unstamp") /\ "unstamp" \in Steps["uninstall"]
    BY <1>8, StepsAre DEF UninstallRemove
  <2>2. Top'.script = "uninstall"
    BY <1>1, <2>1, GotoTop
  <2> QED
    BY <2>2 DEF At
<1>9. CASE ~(\/ CopyProduct \/ Edit \/ CleanStart \/ CleanEnd \/ Make \/ Look \/ UserClean
            \/ UserUninstall \/ UninstallRemove)
  <2>1. Plain'
    BY <1>1, <1>9, PlainSteps DEF Next, Script, Uninstaller, Developer
  <2> QED
    BY <1>2, <2>1
<1> QED
  BY <1>3, <1>4, <1>5, <1>6, <1>7, <1>8, <1>9

\* While image installs, what is installed stays current and on the image.
LEMMA InstalledStays ==
  ASSUME StampInv, RunInv, InRun, phase = "install"
  PROVE  \A i \in installed' : Current(i)' /\ (i.tgt = "target" => OnImage(i)')
<1>1. /\ stack # <<>> /\ ~Alone /\ ~Idle /\ installed \subseteq Items
      /\ \A i \in installed : Current(i) /\ (i.tgt = "target" => OnImage(i))
  BY DEF InRun, Alone, Lonely, Idle, RunInv, ImageInv, StampInv, StackInv, TypeOK
<1>2. Kept
  BY <1>1, RunKeeps
<1>3. ASSUME NEW i \in Items, Current(i) PROVE Current(i)'
  BY <1>2, <1>3 DEF Kept
<1>4. ASSUME NEW i \in Items, i.tgt = "target", Current(i), OnImage(i) PROVE OnImage(i)'
  BY <1>1, <1>4, OnImageStays, EditOnImage DEF InRun
<1>5. ASSUME NEW i \in installed' \ installed
      PROVE  i \in Items /\ Current(i) /\ (i.tgt = "target" => OnImage(i))
  <2>1. TouchStamp
    <3>1. CASE CleanStart \/ CleanEnd \/ CleanUnstamp \/ Look \/ Extract \/ Patch \/ UnpackUnstamp
      BY <1>5, <3>1 DEF CleanStart, CleanEnd, CleanUnstamp, Look, Extract, Patch, UnpackUnstamp,
                        files
    <3>2. CASE UnpackStamp \/ CheckStamp \/ BuildDeps \/ Compile \/ Make \/ BuildStamp
      BY <1>5, <3>2 DEF UnpackStamp, CheckStamp, BuildDeps, Compile, Make, BuildStamp, files
    <3>3. CASE InstallCheck \/ InstallDeps \/ CopyProduct \/ Edit
      BY <1>5, <3>3 DEF InstallCheck, InstallDeps, CopyProduct, Edit, files
    <3>4. CASE BuildTool \/ Wipe \/ InstallRoot \/ Finish
      BY <1>1, <3>4 DEF BuildTool, Wipe, InstallRoot, Finish, Packing
    <3> QED
      BY <3>1, <3>2, <3>3, <3>4 DEF InRun, Script
  <2>2. /\ installed' = installed \cup {Top.item} /\ At("install", "touch")
        /\ Top.script = "install" /\ Top.pc = "touch"
    BY <2>1 DEF TouchStamp, At
  <2>3. i = Top.item /\ i \in Items
    BY <1>1, <1>5, <2>2, FilesAre DEF StampInv
  <2>4. Relies(Top, {})
    BY <1>1, TopRelies DEF StampInv, RunInv
  <2>5. Current(i)
    BY <2>2, <2>3, <2>4 DEF Relies
  <2>6. i.tgt = "target" => OnImage(i)
    BY <2>2, <2>3 DEF RunInv, ImageInv
  <2> QED
    BY <2>3, <2>5, <2>6
<1> SUFFICES ASSUME NEW i \in installed'
             PROVE  Current(i)' /\ (i.tgt = "target" => OnImage(i)')
  OBVIOUS
<1>6. i \in Items /\ Current(i) /\ (i.tgt = "target" => OnImage(i))
  BY <1>1, <1>5
<1> QED
  BY <1>3, <1>4, <1>6

\* The root that install runs for is installed when install is through.
LEMMA RootsStay ==
  ASSUME StampInv, RunInv, InRun, phase = "install"
  PROVE  /\ roots' = roots
         /\ Roots \ roots \subseteq installed' \cup IF stack' = <<>> THEN {} ELSE {stack'[1].item}
         /\ stack' # <<>> => stack'[1].script = "install"
<1>1. /\ stack # <<>> /\ ~Alone /\ StackInv /\ stack[1].script = "install"
      /\ Roots \ roots \subseteq installed \cup {stack[1].item}
  BY DEF InRun, Alone, Lonely, RunInv, ImageInv, StampInv
<1>2. Len(stack) \in Nat \ {0} /\ Top = stack[Len(stack)] /\ TypeOK
  BY <1>1, TopType DEF StackInv
<1>3. installed \subseteq installed'
  BY <1>1, RunKeeps DEF Kept
<1>4. roots' = roots
  <2>1. CASE CleanStart \/ CleanEnd \/ CleanUnstamp \/ Look \/ Extract \/ Patch \/ UnpackUnstamp
    BY <2>1 DEF CleanStart, CleanEnd, CleanUnstamp, Look, Extract, Patch, UnpackUnstamp, runs
  <2>2. CASE UnpackStamp \/ CheckStamp \/ BuildDeps \/ Compile \/ Make \/ BuildStamp
    BY <2>2 DEF UnpackStamp, CheckStamp, BuildDeps, Compile, Make, BuildStamp, runs
  <2>3. CASE InstallCheck \/ InstallDeps \/ CopyProduct \/ TouchStamp \/ Edit
    BY <2>3 DEF InstallCheck, InstallDeps, CopyProduct, TouchStamp, Edit, runs
  <2>4. CASE BuildTool \/ Wipe \/ InstallRoot \/ Finish
    BY <1>1, <2>4 DEF BuildTool, Wipe, InstallRoot, Finish, Packing
  <2> QED
    BY <2>1, <2>2, <2>3, <2>4 DEF InRun, Script
<1>5. CASE stack' # <<>> /\ stack'[1].item = stack[1].item /\ stack'[1].script = stack[1].script
  BY <1>1, <1>3, <1>4, <1>5
<1>6. CASE Edit
  <2>1. stack' = stack
    BY <1>6 DEF Edit
  <2> QED
    BY <1>1, <1>5, <2>1
<1>7. CASE Script /\ Return /\ (Top.script = "install" => Top.item \in installed')
  <2>1. /\ stack' \in Seq(Frames) /\ Len(stack') = Len(stack) - 1
        /\ \A k \in 1..Len(stack') : stack'[k] = stack[k]
    BY <1>1, <1>2, <1>7, Returned
  <2>2. CASE Len(stack) = 1
    <3>1. stack' = <<>>
      BY <2>1, <2>2, EmptySeq
    <3>2. stack[1].item \in installed'
      BY <1>1, <1>2, <1>7, <2>2
    <3> QED
      BY <1>1, <1>3, <1>4, <3>1, <3>2
  <2>3. CASE Len(stack) # 1
    <3>1. \A m \in Nat \ {0} : m # 1 => 1 \in 1..m - 1 /\ m - 1 # 0
      OBVIOUS
    <3>2. stack'[1] = stack[1] /\ Len(stack') # 0
      BY <1>2, <2>1, <2>3, <3>1
    <3>3. stack' # <<>>
      BY <3>2
    <3> QED
      BY <1>5, <3>2, <3>3
  <2> QED
    BY <2>2, <2>3
<1>8. CASE Script /\ ~(Return /\ (Top.script = "install" => Top.item \in installed'))
  <2>1. PICK f \in Frames :
          /\ f.item = Top.item /\ f.script = Top.script
          /\ \/ stack' = Append(Front(stack), f)
             \/ \E d \in Items : \E t : Calls(t, d) /\ stack' = Append(Front(stack), f) \o t
    BY <1>1, <1>8, Moves
  <2> QED
    BY <1>1, <1>5, <2>1, BottomStays
<1> QED
  BY <1>6, <1>7, <1>8 DEF InRun

LEMMA InstallKept ==
  ASSUME StampInv, RunInv, Next, phase' = "install"
  PROVE  /\ \A i \in installed' : Current(i)' /\ (i.tgt = "target" => OnImage(i)')
         /\ Roots \ roots' \subseteq
              installed' \cup IF stack' = <<>> THEN {} ELSE {stack'[1].item}
         /\ stack' # <<>> => stack'[1].script = "install"
<1>1. CASE InRun
  <2>1. phase = "install"
    <3>1. CASE CleanStart \/ CleanEnd \/ CleanUnstamp \/ Look \/ Extract \/ Patch \/ UnpackUnstamp
      BY <3>1 DEF CleanStart, CleanEnd, CleanUnstamp, Look, Extract, Patch, UnpackUnstamp, runs
    <3>2. CASE UnpackStamp \/ CheckStamp \/ BuildDeps \/ Compile \/ Make \/ BuildStamp
      BY <3>2 DEF UnpackStamp, CheckStamp, BuildDeps, Compile, Make, BuildStamp, runs
    <3>3. CASE InstallCheck \/ InstallDeps \/ CopyProduct \/ TouchStamp \/ Edit
      BY <3>3 DEF InstallCheck, InstallDeps, CopyProduct, TouchStamp, Edit, runs
    <3>4. CASE BuildTool \/ Wipe \/ InstallRoot \/ Finish
      BY <1>1, <3>4 DEF InRun, BuildTool, Wipe, InstallRoot, Finish, Packing
    <3> QED
      BY <1>1, <3>1, <3>2, <3>3, <3>4 DEF InRun, Script
  <2> QED
    BY <1>1, <2>1, InstalledStays, RootsStay
<1>2. CASE Wipe
  BY <1>2 DEF Wipe
<1>3. CASE InstallRoot
  <2>1. PICK i \in roots : stack' = Install(i) /\ roots' = roots \ {i}
    BY <1>3 DEF InstallRoot
  <2>2. stack' # <<>> /\ stack'[1].item = i /\ stack'[1].script = "install"
    BY <2>1 DEF Install, Frame
  <2>3. /\ stack = <<>> /\ phase = "install" /\ installed' = installed /\ image' = image
        /\ src' = src /\ tree' = tree /\ stamp' = stamp /\ edited' = edited /\ spoiled' = spoiled
    BY <1>3 DEF InstallRoot, files, past
  <2>4. /\ \A j \in installed : Current(j) /\ (j.tgt = "target" => OnImage(j))
        /\ Roots \ roots \subseteq installed
    BY <2>3 DEF RunInv, ImageInv
  <2>5. Roots \ roots' \subseteq installed' \cup {stack'[1].item}
    BY <2>1, <2>2, <2>3, <2>4
  <2> QED
    BY <2>2, <2>3, <2>4, <2>5 DEF Current, TreeCurrent, OnImage
<1>4. CASE stack = <<>> /\ Edit
  <2>1. /\ phase = "install" /\ ~Idle /\ stack' = <<>> /\ roots' = roots
        /\ installed' = installed /\ installed \subseteq Items
    BY <1>4 DEF Edit, Idle, runs, files, StampInv, StackInv, TypeOK
  <2>2. /\ \A j \in installed : Current(j) /\ (j.tgt = "target" => OnImage(j))
        /\ Roots \ roots \subseteq installed
    BY <1>4, <2>1 DEF RunInv, ImageInv
  <2>3. ASSUME NEW i \in Items, Current(i) PROVE Current(i)'
    BY <1>4, <2>1, <2>3, EditTakesNothing DEF Kept
  <2>4. ASSUME NEW i \in Items, OnImage(i) PROVE OnImage(i)'
    BY <1>4, <2>1, <2>4, EditOnImage
  <2> QED
    BY <2>1, <2>2, <2>3, <2>4
<1>5. ~(StartImage \/ BuildTool \/ Finish \/ Abort)
  BY DEF StartImage, BuildTool, Finish, Abort
<1>6. ~(UserBuild \/ UserClean \/ UserUninstall \/ UserSkipUnpack)
  BY DEF UserBuild, UserClean, Command, UserUninstall, UserSkipUnpack, Idle, runs
<1>8. ~Uninstaller
  BY DEF Uninstaller, UninstallRemove, UninstallUnstamp, At, RunInv, CleanInv, Lonely, runs
<1>7. CASE stack = <<>> /\ Script
  BY <1>2, <1>3, <1>5, <1>7
     DEF Script, CleanStart, CleanEnd, CleanUnstamp, Look, Extract, Patch, UnpackUnstamp,
         UnpackStamp, CheckStamp, BuildDeps, Compile, Make, BuildStamp, DepsBuilt, InstallCheck,
         InstallDeps, CopyProduct, TouchStamp, At
<1> QED
  BY <1>1, <1>4, <1>5, <1>6, <1>7, <1>8 DEF Next, Developer, InRun

LEMMA ImageKept ==
  ASSUME StampInv, RunInv, Next
  PROVE  ImageInv'
BY InstalledClosed, TouchKept, InstallKept DEF ImageInv

----------------------------------------------------------------------------
(* The invariant is inductive.                                             *)

LEMMA RunInit == Init => RunInv
<1> SUFFICES ASSUME Init PROVE RunInv
  OBVIOUS
<1>1. stack = <<>> /\ phase = "idle" /\ installed = {}
  BY DEF Init
<1>2. CallInv
  BY <1>1 DEF CallInv
<1>3. CleanInv
  BY <1>1 DEF CleanInv
<1>4. CompiledInv
  BY <1>1 DEF CompiledInv, Idle
<1>5. ImageInv
  BY <1>1 DEF ImageInv, At
<1> QED
  BY <1>2, <1>3, <1>4, <1>5 DEF RunInv

LEMMA RunKept == StampInv /\ RunInv /\ [Next]_vars => RunInv'
<1> SUFFICES ASSUME StampInv, RunInv, [Next]_vars PROVE RunInv'
  OBVIOUS
<1>1. CASE UNCHANGED vars
  <2>1. /\ src' = src /\ tree' = tree /\ stamp' = stamp /\ image' = image
        /\ installed' = installed /\ stack' = stack /\ phase' = phase /\ roots' = roots
        /\ edited' = edited /\ compiled' = compiled /\ spoiled' = spoiled
    BY <1>1 DEF vars, files, runs, past
  <2>2. Top' = Top /\ Package' = Package
    BY <2>1 DEF Top, Package
  <2>3. CallInv'
    <3> SUFFICES ASSUME NEW k \in 1..Len(stack) PROVE Relies(stack[k], Callee(k))'
      BY <2>1 DEF CallInv
    <3>1. Relies(stack[k], Callee(k))
      BY DEF RunInv, CallInv
    <3> QED
      BY <2>1, <3>1 DEF Relies, Callee, Current, TreeCurrent
  <2>4. CleanInv'
    BY <2>1, <2>2 DEF RunInv, CleanInv, Lonely
  <2>5. CompiledInv'
    BY <2>1, <2>2 DEF RunInv, CompiledInv, Current, TreeCurrent, Idle, At
  <2>6. ImageInv'
    BY <2>1, <2>2 DEF RunInv, ImageInv, OnImage, Current, TreeCurrent, At
  <2> QED
    BY <2>3, <2>4, <2>5, <2>6 DEF RunInv
<1>2. CASE Next /\ (stack = <<>> \/ ~Alone)
  BY <1>2, CallKept, CleanKept, CompiledKept, ImageKept DEF RunInv
<1>3. CASE Next /\ stack # <<>> /\ Alone
  <2>1. CASE Script \/ Uninstaller \/ Edit
    BY <1>3, <2>1, AloneKeeps
  <2>2. CASE ~(Script \/ Uninstaller \/ Edit)
    <3>1. Abort
      BY <1>3, <2>2 DEF Next, Developer, StartImage, UserBuild, UserClean, UserUninstall,
                        UserSkipUnpack, Command, Idle
    <3>2. stack' = <<>> /\ phase' = "idle" /\ installed' = installed /\ compiled' = {}
      BY <3>1 DEF Abort
    <3> QED
      BY <3>2 DEF RunInv, CallInv, CleanInv, CompiledInv, ImageInv, At
  <2> QED
    BY <2>1, <2>2
<1> QED
  BY <1>1, <1>2, <1>3

LEMMA BothHold == Spec => [](StampInv /\ RunInv)
<1>1. Init => StampInv /\ RunInv
  BY StampInit, RunInit
<1>2. StampInv /\ RunInv /\ [Next]_vars => (StampInv /\ RunInv)'
  BY StampKept, RunKept
<1> QED
  BY <1>1, <1>2, PTL DEF Spec

----------------------------------------------------------------------------
(* What a run promises.                                                    *)

\* No item is compiled twice in a run of scripts/image or scripts/build, unless
\* its package is edited meanwhile (scripts/build, from the stamp that it
\* compares, l.53-61, to the one that it leaves, l.350-353): what was compiled
\* has a current stamp, what is being compiled has none.
THEOREM CompilesOnce == Spec => []CompiledOnce
<1>1. StampInv /\ RunInv => CompiledOnce
  <2> SUFFICES ASSUME StampInv, RunInv, At("build", "make"), Top.item \in compiled
               PROVE  Package \in edited
    BY DEF CompiledOnce
  <2>1. stack # <<>> /\ Top.script = "build" /\ Top.pc = "make" /\ ~Idle
    BY DEF At, Idle
  <2>2. stamp[Top.item] = None
    BY <2>1, WorkerHasNone
  <2>3. Current(Top.item)
    BY <2>1 DEF RunInv, CompiledInv, At
  <2>4. src[Package] # None
    BY <2>1, FilesAre, VersionsAre DEF StampInv
  <2> QED
    BY <2>2, <2>3, <2>4 DEF Current, Package
<1> QED
  BY <1>1, BothHold, PTL

\* Whatever scripts/build is about to compile, its direct dependencies were made
\* of what is current, but for what was edited in this run or is spoiled
\* (scripts/build, the loop over PKG_DEPENDS_* before it configures).
THEOREM DepsAreCurrent == Spec => []DepsCurrent
<1>1. StampInv /\ RunInv => DepsCurrent
  <2> SUFFICES ASSUME StampInv, RunInv, DepsBuilt, NEW d \in Deps[Top.item],
                      d.pkg \notin edited \cup spoiled \cup Virtual
               PROVE  product[d] = src[d.pkg]
    BY DEF DepsCurrent
  <2>1. stack # <<>> /\ Top.script = "build" /\ Top.pc = "deps" /\ Top.todo = {}
    BY DEF DepsBuilt, At
  <2>2. d \in Items
    BY <2>1, FilesAre, Assumptions DEF StampInv
  <2>3. Relies(Top, {})
    BY <2>1, TopRelies DEF StampInv, RunInv
  <2>4. Current(d)
    BY <2>1, <2>3 DEF Relies
  <2> QED
    BY <2>1, <2>2, <2>4, CurrentProduct DEF At
<1> QED
  BY <1>1, BothHold, PTL

\* When scripts/image packs $INSTALL, every root is installed with all that it
\* depends on, and what is installed is the current version, but for what was
\* edited in this run or is spoiled (scripts/image:63, that no install
\* stamp is of an earlier run, and scripts/install:44-176, from the look at the
\* stamp to the stamp).
THEOREM ImageIsCurrent == Spec => []ImageCurrent
<1>1. StampInv /\ RunInv => ImageCurrent
  <2> SUFFICES ASSUME StampInv, RunInv, Packing PROVE ImageCurrent
    BY DEF ImageCurrent
  <2>1. phase = "install" /\ stack = <<>> /\ roots = {} /\ installed \subseteq Items
    BY DEF Packing, StampInv, StackInv, TypeOK
  <2>2. Roots \subseteq installed
    BY <2>1 DEF RunInv, ImageInv
  <2>3. ASSUME NEW i \in installed, i.pkg \notin edited \cup spoiled \cup Virtual
        PROVE  src[i.pkg] = IF i.tgt = "target" THEN image[i.pkg] ELSE product[i]
    <3>1. i \in Items /\ Current(i) /\ (i.tgt = "target" => OnImage(i))
      BY <2>1 DEF RunInv, ImageInv
    <3> QED
      BY <2>1, <2>3, <3>1, CurrentProduct DEF OnImage, At
  <2>4. \A i \in installed : i.tgt = "target" => Deps[i] \subseteq installed
    BY DEF RunInv, ImageInv
  <2> QED
    BY <2>2, <2>3, <2>4 DEF ImageCurrent
<1> QED
  BY <1>1, BothHold, PTL

=============================================================================
