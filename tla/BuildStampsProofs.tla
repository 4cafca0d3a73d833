-------------------------- MODULE BuildStampsProofs --------------------------
(***************************************************************************)
(* Theorems about the stamps of the build system, for every set of         *)
(* packages and dependencies, and any number of edits and aborted runs.    *)
(***************************************************************************)
EXTENDS BuildStamps, SequenceTheorems, TLAPS

----------------------------------------------------------------------------
(* The call stack.                                                         *)

\* A script that waits for another: install and build for a dependency or for
\* what they are to use, unpack for the clean of its own package.
Waits(k) ==
  \/ stack[k].script = "install" /\ stack[k].pc = "deps"
  \/ stack[k].script = "build" /\ stack[k].pc \in {"check", "deps"}
  \/ /\ stack[k].script = "unpack" /\ stack[k].pc = "extract"
     /\ stack[k + 1].script = "clean" /\ stack[k + 1].item = stack[k].item
ShapeInv ==
  \A k \in 1..Len(stack) :
    /\ stack[k].todo \subseteq Deps[stack[k].item]
    /\ k < Len(stack) => /\ Waits(k) /\ stack[k + 1].script # "uninstall"
                         /\ stack[k + 1].script = "clean" => stack[k].script = "unpack"

\* build has removed its stamp and is at work on its item.
Works(k) == stack[k].script = "build" /\ stack[k].pc # "check"

\* What runs meanwhile is for something that the item depends on.
OrderInv ==
  \A k, l \in 1..Len(stack) :
    k < l /\ Works(k) => stack[l].item \in AllDeps(stack[k].item)

NoneInv == \A k \in 1..Len(stack) : Works(k) => stamp[stack[k].item] = None

StackInv == TypeOK /\ ShapeInv /\ OrderInv

----------------------------------------------------------------------------
(* Trees, products and stamps.                                             *)

TreeInv ==
  /\ \A p \in Packages :
       /\ tree[p].content = None => tree[p].stamp = None
       /\ p \notin spoiled \cup NoSources /\ tree[p].stamp \in Versions =>
            tree[p].content = tree[p].stamp
  /\ \A i \in Items : i.tgt = "target" /\ product[i] # None => tree[i.pkg].content # None

\* StampsTruthful, whatever the current version is.
Vouched(i) ==
  /\ i.pkg \notin spoiled \cup Virtual /\ stamp[i] \in Versions
  /\ i.pkg \in NoSources \/ tree[i.pkg].stamp = stamp[i]
  => product[i] = stamp[i]
MadeInv    == \A i \in Items : Vouched(i)
VersionInv == \A i \in Items : Uninstalling(i) \/ Vouched(i)

\* What the script that runs has done so far.
TopInv ==
  /\ At("clean", "removing") => Package \in spoiled \/ tree[Package].content = None
  /\ At("clean", "unstamp") => tree[Package] = NoTree
  /\ \A pc \in {"extract", "patch", "unstamp", "stamp"} :
       At("unpack", pc) => tree[Package].stamp = None
  /\ \A pc \in {"patch", "unstamp", "stamp"} :
       At("unpack", pc) => tree[Package].content # None
  /\ \A pc \in {"unstamp", "stamp"} :
       At("unpack", pc) /\ Package \notin spoiled => tree[Package].content = src[Package]
  /\ At("unpack", "stamp") => \A i \in ItemsOf(Package) : stamp[i] = None
  /\ At("uninstall", "remove") => Package \in Virtual \/ tree[Package].content # None
  /\ At("build", "make") => tree[Package].content # None
  /\ At("build", "stamp") /\ Package \notin spoiled \cup Virtual =>
       IF Package \in NoSources THEN product[Top.item] = src[Package]
       ELSE tree[Package].stamp \in Versions => product[Top.item] = tree[Package].stamp

StampInv == StackInv /\ NoneInv /\ TreeInv /\ VersionInv /\ TopInv

----------------------------------------------------------------------------
(* Lemmas about the stack and the dependencies.                            *)

Scripts == {"install", "build", "unpack", "clean", "uninstall"}
Pcs == {"check", "deps", "touch", "make", "stamp", "look", "extract", "patch", "unstamp",
        "remove", "removing"}

LEMMA StepsAre ==
  /\ DOMAIN Steps = Scripts /\ UNION {Steps[s] : s \in DOMAIN Steps} = Pcs
  /\ Steps["install"] = {"check", "deps", "touch"}
  /\ Steps["build"] = {"check", "deps", "make", "stamp"}
  /\ Steps["unpack"] = {"look", "extract", "patch", "unstamp", "stamp"}
  /\ Steps["clean"] = {"remove", "removing", "unstamp"}
  /\ Steps["uninstall"] = {"remove", "unstamp"}
<1>1. DOMAIN Steps = Scripts
  BY DEF Steps, Scripts
<1>2. /\ Steps["install"] = {"check", "deps", "touch"}
      /\ Steps["build"] = {"check", "deps", "make", "stamp"}
      /\ Steps["unpack"] = {"look", "extract", "patch", "unstamp", "stamp"}
      /\ Steps["clean"] = {"remove", "removing", "unstamp"}
      /\ Steps["uninstall"] = {"remove", "unstamp"}
  BY DEF Steps
<1>3. UNION {Steps[s] : s \in Scripts} = Pcs
  BY <1>2 DEF Scripts, Pcs
<1> QED
  BY <1>1, <1>2, <1>3

LEMMA FrameType ==
  /\ Frames = [script : Scripts, pc : Pcs, item : Items, todo : SUBSET Items,
               recipe : Versions \cup {None}]
  /\ \A i \in Items : Install(i) \in Seq(Frames) /\ Clean(i) \in Seq(Frames)
                     /\ Build(i) \in Seq(Frames) /\ Uninstall(i) \in Seq(Frames)
<1>1. Frames = [script : Scripts, pc : Pcs, item : Items, todo : SUBSET Items,
                recipe : Versions \cup {None}]
  BY StepsAre DEF Frames
<1>2. ASSUME NEW i \in Items, NEW s \in Scripts, NEW p \in Pcs PROVE Frame(s, i, p) \in Frames
  BY <1>1 DEF Frame
<1>3. ASSUME NEW i \in Items
      PROVE  /\ Install(i) \in Seq(Frames) /\ Clean(i) \in Seq(Frames)
             /\ Build(i) \in Seq(Frames) /\ Uninstall(i) \in Seq(Frames)
  <2>1. /\ Frame("install", i, "check") \in Frames /\ Frame("clean", i, "remove") \in Frames
        /\ Frame("build", i, "check") \in Frames /\ Frame("unpack", i, "look") \in Frames
        /\ Frame("uninstall", i, "remove") \in Frames
    BY <1>2 DEF Scripts, Pcs
  <2> QED
    BY <2>1 DEF Install, Clean, Build, Uninstall
<1> QED
  BY <1>1, <1>3

\* The frame that runs.
LEMMA TopType ==
  ASSUME TypeOK, stack # <<>>
  PROVE  /\ Len(stack) \in Nat \ {0} /\ Top = stack[Len(stack)] /\ Top \in Frames
         /\ Top.item \in Items /\ Top.todo \subseteq Items /\ Package \in Packages
         /\ Top.pc \in Steps[Top.script]
         /\ \A k \in 1..Len(stack) : stack[k] \in Frames /\ stack[k].item \in Items
<1>1. stack \in Seq(Frames) /\ DOMAIN stack = 1..Len(stack) /\ Len(stack) \in Nat \ {0}
  BY EmptySeq DEF TypeOK
<1>2. \A k \in 1..Len(stack) : stack[k] \in Frames
  BY <1>1
<1>3. Top = stack[Len(stack)] /\ Top \in Frames /\ Top.pc \in Steps[Top.script]
  BY <1>1, <1>2 DEF Top, Last, TypeOK
<1>4. Top.item.pkg \in Packages
  BY <1>3, FrameType, Assumptions
<1> QED
  BY <1>1, <1>2, <1>3, <1>4, FrameType DEF Package

LEMMA FrontIs ==
  ASSUME TypeOK, stack # <<>>
  PROVE  /\ Front(stack) \in Seq(Frames) /\ Len(Front(stack)) = Len(stack) - 1
         /\ \A k \in 1..Len(stack) - 1 : Front(stack)[k] = stack[k]
<1>0. Len(stack) \in Nat \ {0}
  BY TopType
<1>1. \A k \in 1..Len(stack) - 1 : stack[k] \in Frames
  BY <1>0, TopType
<1>2. /\ SubSeq(stack, 1, Len(stack) - 1) \in Seq(Frames)
      /\ Len(SubSeq(stack, 1, Len(stack) - 1)) =
           IF 1 <= Len(stack) - 1 THEN Len(stack) - 1 - 1 + 1 ELSE 0
      /\ \A k \in 1..Len(stack) - 1 - 1 + 1 :
           SubSeq(stack, 1, Len(stack) - 1)[k] = stack[1 + k - 1]
  BY <1>0, <1>1, SubSeqProperties
<1>3. (IF 1 <= Len(stack) - 1 THEN Len(stack) - 1 - 1 + 1 ELSE 0) = Len(stack) - 1
  BY <1>0
<1>4. ASSUME NEW k \in 1..Len(stack) - 1
      PROVE  k \in 1..Len(stack) - 1 - 1 + 1 /\ 1 + k - 1 = k
  BY <1>0
<1> QED
  BY <1>2, <1>3, <1>4 DEF Front

LEMMA Returned ==
  ASSUME TypeOK, stack # <<>>, Return
  PROVE  /\ stack' \in Seq(Frames) /\ Len(stack') = Len(stack) - 1
         /\ \A k \in 1..Len(stack') : stack'[k] = stack[k]
BY FrontIs DEF Return

LEMMA Replaced ==
  ASSUME TypeOK, stack # <<>>, NEW f \in Frames
  PROVE  LET s == Append(Front(stack), f)
         IN  /\ s \in Seq(Frames) /\ Len(s) = Len(stack) /\ s[Len(stack)] = f
             /\ \A k \in 1..Len(stack) - 1 : s[k] = stack[k]
<1>1. Len(stack) \in Nat \ {0}
  BY TopType
<1>3. /\ Front(stack) \in Seq(Frames) /\ Len(Front(stack)) = Len(stack) - 1
      /\ \A k \in 1..Len(stack) - 1 : Front(stack)[k] = stack[k]
  BY FrontIs
<1>4. /\ Append(Front(stack), f) \in Seq(Frames)
      /\ Len(Append(Front(stack), f)) = Len(Front(stack)) + 1
      /\ \A k \in 1..Len(Front(stack)) : Append(Front(stack), f)[k] = Front(stack)[k]
      /\ Append(Front(stack), f)[Len(Front(stack)) + 1] = f
  BY <1>3, AppendProperties
<1> QED
  BY <1>1, <1>3, <1>4

LEMMA Called ==
  ASSUME TypeOK, stack # <<>>, NEW f \in Frames, NEW t \in Seq(Frames)
  PROVE  LET s == Append(Front(stack), f) \o t
         IN  /\ s \in Seq(Frames) /\ Len(s) = Len(stack) + Len(t) /\ s[Len(stack)] = f
             /\ \A k \in 1..Len(stack) - 1 : s[k] = stack[k]
             /\ \A k \in 1..Len(t) : s[Len(stack) + k] = t[k]
<1> DEFINE g == Append(Front(stack), f)
<1>1. /\ g \in Seq(Frames) /\ Len(g) = Len(stack) /\ g[Len(stack)] = f
      /\ \A k \in 1..Len(stack) - 1 : g[k] = stack[k]
      /\ Len(stack) \in Nat \ {0} /\ Len(t) \in Nat
  BY Replaced, TopType
<1> HIDE DEF g
<1>2. /\ g \o t \in Seq(Frames) /\ Len(g \o t) = Len(g) + Len(t)
      /\ \A i \in 1..Len(g) + Len(t) :
           (g \o t)[i] = IF i <= Len(g) THEN g[i] ELSE t[i - Len(g)]
  BY <1>1, ConcatProperties
<1>3. /\ g \o t \in Seq(Frames) /\ Len(g \o t) = Len(stack) + Len(t) /\ (g \o t)[Len(stack)] = f
      /\ \A k \in 1..Len(stack) - 1 : (g \o t)[k] = stack[k]
  BY <1>1, <1>2
<1>4. \A k \in 1..Len(t) : (g \o t)[Len(stack) + k] = t[k]
  BY <1>1, <1>2
<1> QED
  BY <1>3, <1>4 DEF g

LEMMA CalledNext ==
  ASSUME TypeOK, stack # <<>>, NEW f \in Frames, NEW t \in Seq(Frames),
         stack' = Append(Front(stack), f) \o t
  PROVE  /\ stack' \in Seq(Frames) /\ Len(stack') = Len(stack) + Len(t)
         /\ stack'[Len(stack)] = f
         /\ \A k \in 1..Len(stack) - 1 : stack'[k] = stack[k]
         /\ \A k \in 1..Len(t) : stack'[Len(stack) + k] = t[k]
BY Called, Zenon

\* All that an item depends on, and all that depends on.
LEMMA DepsClosed ==
  ASSUME NEW i \in Items
  PROVE  /\ Deps[i] \subseteq AllDeps(i) /\ AllDeps(i) \subseteq Items /\ i \notin AllDeps(i)
         /\ \A d \in AllDeps(i) : Deps[d] \subseteq AllDeps(i)
<1>1. Deps \in [Items -> SUBSET Items] /\ i \notin AllDeps(i)
  BY Assumptions
<1>2. Deps[i] \subseteq AllDeps(i) /\ AllDeps(i) \subseteq Items
  BY <1>1 DEF AllDeps
<1>3. ASSUME NEW d \in AllDeps(i), NEW e \in Deps[d] PROVE e \in AllDeps(i)
  <2>1. e \in Items
    BY <1>1, <1>2
  <2>2. ASSUME NEW C \in SUBSET Items, Deps[i] \subseteq C /\ \A j \in C : Deps[j] \subseteq C
        PROVE  e \in C
    BY <2>2 DEF AllDeps
  <2> QED
    BY <2>1, <2>2 DEF AllDeps
<1> QED
  BY <1>1, <1>2, <1>3

----------------------------------------------------------------------------
(* The four things that a step does to a stack.                            *)

StackType ==
  /\ stack \in Seq(Frames)
  /\ \A k \in 1..Len(stack) : stack[k].pc \in Steps[stack[k].script]
StackOK == StackType /\ ShapeInv /\ OrderInv

\* Who is at work was so before, or has removed its stamp now.
WorkKept ==
  \A k \in 1..Len(stack') :
    Works(k)' => /\ k \in 1..Len(stack) /\ stack'[k].item = stack[k].item
                 /\ Works(k) \/ (k = Len(stack) /\ stamp'[stack[k].item] = None)

LEMMA ReturnStep ==
  ASSUME StackInv, stack # <<>>, Return
  PROVE  StackOK' /\ WorkKept
<1> DEFINE n == Len(stack)
<1>1. TypeOK /\ n \in Nat \ {0}
  BY TopType DEF StackInv
<1>2. /\ stack' \in Seq(Frames) /\ Len(stack') = n - 1
      /\ \A k \in 1..Len(stack') : stack'[k] = stack[k]
  BY <1>1, Returned
<1>3. \A k \in 1..Len(stack) : stack[k].pc \in Steps[stack[k].script]
  BY <1>1 DEF TypeOK
<1>4. ASSUME NEW k \in 1..Len(stack')
      PROVE  k \in 1..n /\ k < n /\ stack'[k] = stack[k] /\ (k < Len(stack') => stack'[k + 1] = stack[k + 1])
  BY <1>1, <1>2
<1>5. StackType'
  BY <1>2, <1>3, <1>4 DEF StackType
<1>6. ShapeInv'
  BY <1>1, <1>2, <1>4 DEF StackInv, ShapeInv, Waits
<1>7. OrderInv'
  BY <1>4 DEF StackInv, OrderInv, Works
<1>8. WorkKept
  BY <1>4 DEF WorkKept, Works
<1> QED
  BY <1>5, <1>6, <1>7, <1>8 DEF StackOK

LEMMA ReplaceStep ==
  ASSUME StackInv, stack # <<>>, NEW f \in Frames,
         f.item = Top.item, f.script = Top.script, f.pc \in Steps[f.script],
         f.todo \subseteq Deps[f.item],
         f.script = "build" /\ f.pc # "check" => Top.pc # "check" \/ stamp'[Top.item] = None,
         stack' = Append(Front(stack), f)
  PROVE  StackOK' /\ WorkKept
<1> DEFINE n == Len(stack)
<1>1. TypeOK /\ n \in Nat \ {0} /\ Top = stack[n]
  BY TopType DEF StackInv
<1>2. /\ stack' \in Seq(Frames) /\ Len(stack') = n /\ stack'[n] = f
      /\ \A k \in 1..n - 1 : stack'[k] = stack[k]
  BY <1>1, Replaced
<1>3. \A k \in 1..Len(stack) : stack[k].pc \in Steps[stack[k].script]
  BY <1>1 DEF TypeOK
<1>4. ASSUME NEW k \in 1..n
      PROVE  /\ stack'[k].item = stack[k].item /\ stack'[k].script = stack[k].script
             /\ k < n => stack'[k] = stack[k] /\ k + 1 \in 1..n
             /\ k = n \/ k < n
  BY <1>1, <1>2
<1>5. StackType'
  BY <1>1, <1>2, <1>3, <1>4 DEF StackType
<1>6. ASSUME NEW k \in 1..n
      PROVE  stack'[k].todo \subseteq Deps[stack'[k].item]
  BY <1>2, <1>4 DEF StackInv, ShapeInv
<1>7. ASSUME NEW k \in 1..n, k < n
      PROVE  /\ Waits(k)' /\ stack'[k + 1].script # "uninstall"
             /\ stack'[k + 1].script = "clean" => stack'[k].script = "unpack"
  <2>1. /\ stack'[k] = stack[k] /\ stack'[k + 1].item = stack[k + 1].item
        /\ stack'[k + 1].script = stack[k + 1].script
    BY <1>4, <1>7
  <2>2. /\ Waits(k) /\ stack[k + 1].script # "uninstall"
        /\ stack[k + 1].script = "clean" => stack[k].script = "unpack"
    BY <1>7 DEF StackInv, ShapeInv
  <2> QED
    BY <2>1, <2>2 DEF Waits
<1>8. ShapeInv'
  BY <1>2, <1>6, <1>7 DEF ShapeInv
<1>9. ASSUME NEW k \in 1..n, NEW l \in 1..n, k < l, Works(k)'
      PROVE  stack'[l].item \in AllDeps(stack'[k].item)
  <2>1. Works(k) /\ stack'[l].item = stack[l].item /\ stack'[k].item = stack[k].item
    <3>1. k < n
      BY <1>1, <1>9
    <3> QED
      BY <3>1, <1>4, <1>9 DEF Works
  <2> QED
    BY <2>1, <1>9 DEF StackInv, OrderInv
<1>10. OrderInv'
  BY <1>2, <1>9 DEF OrderInv
<1>11. ASSUME NEW k \in 1..n, Works(k)'
       PROVE  Works(k) \/ (k = n /\ stamp'[stack[k].item] = None)
  BY <1>1, <1>2, <1>4, <1>11 DEF Works
<1> QED
  BY <1>2, <1>4, <1>5, <1>8, <1>10, <1>11 DEF StackOK, WorkKept

\* What a script calls: a run of another script for an item.
Calls(t, d) == t \in {Install(d), Clean(d), Build(d)}

\* A stack that was called or started: its frames, from one to two.
LEMMA CallShape ==
  ASSUME NEW d \in Items, NEW t, Calls(t, d) \/ t = Uninstall(d)
  PROVE  /\ t \in Seq(Frames) /\ Len(t) \in 1..2
         /\ \A k \in 1..Len(t) :
              /\ t[k].item = d /\ t[k].todo = {} /\ t[k].pc \in Steps[t[k].script]
              /\ ~(t[k].script = "build" /\ t[k].pc # "check")
              /\ Calls(t, d) => t[k].script # "uninstall"
         /\ t[1].script = "clean" => t = Clean(d)
         /\ Len(t) = 2 => /\ t[1].script = "build" /\ t[1].pc = "check"
                          /\ t[2].script = "unpack"
<1>1. CASE t = Install(d)
  <2>1. /\ Len(t) = 1 /\ t[1].script = "install" /\ t[1].pc = "check" /\ t[1].item = d
        /\ t[1].todo = {}
    BY <1>1 DEF Install, Frame
  <2>2. t \in Seq(Frames)
    BY <1>1, FrameType
  <2>3. "check" \in Steps["install"]
    BY StepsAre
  <2> QED
    BY <1>1, <2>1, <2>2, <2>3
<1>2. CASE t = Clean(d)
  <2>1. /\ Len(t) = 1 /\ t[1].script = "clean" /\ t[1].pc = "remove" /\ t[1].item = d
        /\ t[1].todo = {}
    BY <1>2 DEF Clean, Frame
  <2>2. t \in Seq(Frames)
    BY <1>2, FrameType
  <2>3. "remove" \in Steps["clean"]
    BY StepsAre
  <2> QED
    BY <1>2, <2>1, <2>2, <2>3
<1>3. CASE t = Build(d)
  <2>1. /\ Len(t) = 2
        /\ t[1].script = "build" /\ t[1].pc = "check" /\ t[1].item = d /\ t[1].todo = {}
        /\ t[2].script = "unpack" /\ t[2].pc = "look" /\ t[2].item = d /\ t[2].todo = {}
    BY <1>3 DEF Build, Frame
  <2>2. t \in Seq(Frames)
    BY <1>3, FrameType
  <2>3. "check" \in Steps["build"] /\ "look" \in Steps["unpack"]
    BY StepsAre
  <2>4. \A k \in 1..Len(t) : k = 1 \/ k = 2
    BY <2>1
  <2> QED
    BY <2>1, <2>2, <2>3, <2>4
<1>4. CASE t = Uninstall(d)
  <2>1. /\ Len(t) = 1 /\ t[1].script = "uninstall" /\ t[1].pc = "remove" /\ t[1].item = d
        /\ t[1].todo = {}
    BY <1>4 DEF Uninstall, Frame
  <2>2. t \in Seq(Frames)
    BY <1>4, FrameType
  <2>3. "remove" \in Steps["uninstall"]
    BY StepsAre
  <2>4. ~Calls(t, d)
    <3>1. /\ Install(d)[1].script = "install" /\ Clean(d)[1].script = "clean"
          /\ Build(d)[1].script = "build"
      BY DEF Install, Clean, Build, Frame
    <3> QED
      BY <2>1, <3>1 DEF Calls
  <2> QED
    BY <2>1, <2>2, <2>3, <2>4
<1> QED
  BY <1>1, <1>2, <1>3, <1>4 DEF Calls

LEMMA NewStep ==
  ASSUME NEW d \in Items, NEW t, Calls(t, d) \/ t = Uninstall(d), stack' = t
  PROVE  StackOK' /\ WorkKept
<1>1. /\ t \in Seq(Frames) /\ Len(t) \in 1..2
      /\ \A k \in 1..Len(t) :
           /\ t[k].item = d /\ t[k].todo = {} /\ t[k].pc \in Steps[t[k].script]
           /\ ~(t[k].script = "build" /\ t[k].pc # "check")
      /\ Len(t) = 2 => t[1].script = "build" /\ t[1].pc = "check" /\ t[2].script = "unpack"
  BY CallShape
<1>2. \A k \in 1..Len(stack') : ~Works(k)'
  BY <1>1 DEF Works
<1>3. StackType'
  BY <1>1 DEF StackType
<1>4. ASSUME NEW k \in 1..Len(stack'), k < Len(stack')
      PROVE  /\ Waits(k)' /\ stack'[k + 1].script # "uninstall"
             /\ stack'[k + 1].script = "clean" => stack'[k].script = "unpack"
  <2>1. k = 1 /\ Len(t) = 2
    BY <1>1, <1>4
  <2> QED
    BY <2>1, <1>1 DEF Waits
<1>5. ShapeInv'
  BY <1>1, <1>4 DEF ShapeInv
<1> QED
  BY <1>2, <1>3, <1>5 DEF StackOK, OrderInv, WorkKept

\* The call: what is on the stack waits, and what is new is for its item, or
\* for one that it depends on.
LEMMA CallStep ==
  ASSUME StackInv, stack # <<>>, NEW f \in Frames,
         f.item = Top.item, f.script = Top.script, f.pc \in Steps[f.script],
         f.todo \subseteq Deps[f.item],
         f.script = "build" /\ f.pc # "check" => Top.pc # "check" \/ stamp'[Top.item] = None,
         NEW d \in Items, NEW t, Calls(t, d),
         d = f.item \/ d \in Deps[f.item],
         \/ f.script = "install" /\ f.pc = "deps" /\ t # Clean(d)
         \/ f.script = "build" /\ f.pc = "deps" /\ t # Clean(d) /\ d \in Deps[f.item]
         \/ f.script = "unpack" /\ f.pc = "extract" /\ d = f.item /\ t = Clean(d),
         stack' = Append(Front(stack), f) \o t
  PROVE  StackOK' /\ WorkKept
<1> DEFINE n == Len(stack)
<1>1. TypeOK /\ n \in Nat \ {0} /\ Top = stack[n] /\ Top.item \in Items
  BY TopType DEF StackInv
<1>2. /\ t \in Seq(Frames) /\ Len(t) \in 1..2
      /\ \A k \in 1..Len(t) :
           /\ t[k].item = d /\ t[k].todo = {} /\ t[k].pc \in Steps[t[k].script]
           /\ ~(t[k].script = "build" /\ t[k].pc # "check") /\ t[k].script # "uninstall"
      /\ t[1].script = "clean" => t = Clean(d)
      /\ Len(t) = 2 => t[1].script = "build" /\ t[1].pc = "check" /\ t[2].script = "unpack"
  BY CallShape
<1>3. /\ stack' \in Seq(Frames) /\ Len(stack') = n + Len(t) /\ stack'[n] = f
      /\ \A k \in 1..n - 1 : stack'[k] = stack[k]
      /\ \A k \in 1..Len(t) : stack'[n + k] = t[k]
  BY <1>1, <1>2, CalledNext, Zenon
<1>4. \A k \in 1..Len(stack) : stack[k].pc \in Steps[stack[k].script]
  BY <1>1 DEF TypeOK
<1>5. ASSUME NEW k \in 1..Len(stack')
      PROVE  \/ k \in 1..n - 1 /\ k \in 1..n /\ k < n /\ stack'[k] = stack[k]
             \/ k = n /\ stack'[k] = f
             \/ \E j \in 1..Len(t) : k = n + j /\ stack'[k] = t[j]
  <2>1. CASE k < n
    BY <2>1, <1>1, <1>2, <1>3
  <2>2. CASE k = n
    BY <2>2, <1>3
  <2>3. CASE k > n
    <3>1. k - n \in 1..Len(t) /\ k = n + (k - n)
      BY <2>3, <1>1, <1>2, <1>3
    <3> QED
      BY <3>1, <1>3
  <2> QED
    BY <2>1, <2>2, <2>3, <1>1, <1>2, <1>3
<1>6. StackType'
  BY <1>2, <1>3, <1>4, <1>5 DEF StackType
<1>7. ASSUME NEW k \in 1..Len(stack')
      PROVE  stack'[k].todo \subseteq Deps[stack'[k].item]
  BY <1>2, <1>5 DEF StackInv, ShapeInv
<1>8. ASSUME NEW k \in 1..Len(stack'), k < Len(stack')
      PROVE  /\ Waits(k)' /\ stack'[k + 1].script # "uninstall"
             /\ stack'[k + 1].script = "clean" => stack'[k].script = "unpack"
  <2>1. CASE k \in 1..n - 1
    <3>1. /\ stack'[k] = stack[k] /\ stack'[k + 1].item = stack[k + 1].item
          /\ stack'[k + 1].script = stack[k + 1].script
      <4>1. CASE k + 1 = n
        BY <4>1, <2>1, <1>1, <1>3
      <4>2. CASE k + 1 \in 1..n - 1
        BY <4>2, <2>1, <1>3
      <4>3. k + 1 = n \/ k + 1 \in 1..n - 1
        BY <2>1, <1>1
      <4> QED
        BY <4>1, <4>2, <4>3
    <3>2. /\ Waits(k) /\ stack[k + 1].script # "uninstall"
          /\ stack[k + 1].script = "clean" => stack[k].script = "unpack"
      BY <2>1, <1>1 DEF StackInv, ShapeInv
    <3> QED
      BY <3>1, <3>2 DEF Waits
  <2>2. CASE k = n
    <3>1. stack'[k] = f /\ stack'[k + 1] = t[1] /\ t[1].item = d
      BY <2>2, <1>2, <1>3
    <3>2. t = Clean(d) => t[1].script = "clean"
      BY DEF Clean, Frame
    <3> QED
      BY <3>1, <3>2, <1>2 DEF Waits
  <2>3. CASE k > n
    <3>1. k = n + 1 /\ Len(t) = 2
      <4>1. n \in Nat /\ Len(t) \in 1..2 /\ Len(stack') = n + Len(t)
        BY <1>1, <1>2, <1>3
      <4>2. k \in Int /\ k > n /\ k < n + Len(t)
        BY <4>1, <2>3, <1>8
      <4>3. ASSUME NEW a \in Nat, NEW b \in Int, NEW len \in 1..2, b > a, b < a + len
            PROVE  b = a + 1 /\ len = 2
        BY <4>3
      <4> QED
        BY <4>1, <4>2, <4>3
    <3>2. stack'[n + 1] = t[1] /\ stack'[n + 1 + 1] = t[2]
      <4>1. stack'[n + 1] = t[1] /\ stack'[n + 2] = t[2]
        BY <3>1, <1>3
      <4>2. n + 1 + 1 = n + 2
        BY <1>1
      <4> QED
        BY <4>1, <4>2
    <3> QED
      BY <3>1, <3>2, <1>2 DEF Waits
  <2>4. n \in Nat /\ k \in Nat /\ k >= 1
    BY <1>1, <1>2, <1>3
  <2>5. k \in 1..n - 1 \/ k = n \/ k > n
    BY <2>4
  <2> QED
    BY <2>1, <2>2, <2>3, <2>5
<1>9. ShapeInv'
  BY <1>7, <1>8 DEF ShapeInv
<1>10. ASSUME NEW k \in 1..Len(stack'), Works(k)'
       PROVE  /\ k \in 1..n /\ stack'[k].item = stack[k].item
              /\ k < n => Works(k)
              /\ k = n => f.script = "build" /\ f.pc # "check"
  <2>1. CASE k \in 1..n /\ k < n /\ stack'[k] = stack[k]
    BY <2>1, <1>10 DEF Works
  <2>2. CASE k = n /\ stack'[k] = f
    BY <2>2, <1>1, <1>10 DEF Works
  <2>3. CASE \E j \in 1..Len(t) : k = n + j /\ stack'[k] = t[j]
    BY <2>3, <1>2, <1>10 DEF Works
  <2> QED
    BY <2>1, <2>2, <2>3, <1>5
<1>11. ASSUME NEW k \in 1..Len(stack'), NEW l \in 1..Len(stack'), k < l, Works(k)'
       PROVE  stack'[l].item \in AllDeps(stack'[k].item)
  <2>1. /\ k \in 1..n /\ stack'[k].item = stack[k].item /\ (k < n => Works(k))
        /\ k = n => f.script = "build" /\ f.pc # "check"
    BY <1>10, <1>11
  <2>2. CASE k < n
    <3>1. /\ stack[k].item \in Items /\ f.item = stack[n].item
          /\ f.item \in AllDeps(stack[k].item)
      BY <2>1, <2>2, <1>1, TopType DEF StackInv, OrderInv
    <3>2. d \in AllDeps(stack[k].item)
      BY <3>1, DepsClosed
    <3>3. CASE l < n
      <4>1. stack'[l] = stack[l] /\ l \in 1..n
        BY <3>3, <1>1, <1>3, <1>11
      <4>2. stack[l].item \in AllDeps(stack[k].item)
        BY <4>1, <2>1, <2>2, <1>11 DEF StackInv, OrderInv
      <4> QED
        BY <4>1, <4>2, <2>1
    <3>4. CASE l = n
      <4>1. stack'[l].item = f.item
        BY <3>4, <1>2, <1>3
      <4> QED
        BY <4>1, <3>1, <2>1
    <3>5. CASE ~(l < n) /\ l # n
      <4>1. stack'[l].item = d
        BY <3>5, <1>2, <1>5, <1>11
      <4> QED
        BY <4>1, <3>2, <2>1
    <3> QED
      BY <3>3, <3>4, <3>5
  <2>3. CASE k = n
    <3>1. d \in Deps[f.item]
      BY <2>1, <2>3, <1>1
    <3>2. d \in AllDeps(f.item)
      BY <3>1, <1>1, DepsClosed
    <3>3. stack'[l].item = d
      <4>1. n \in Nat /\ ~(l < n) /\ l # n
        BY <1>1, <1>2, <1>3, <1>11, <2>3
      <4> QED
        BY <4>1, <1>2, <1>5
    <3> QED
      BY <3>2, <3>3, <2>3, <1>3
  <2> QED
    BY <2>1, <2>2, <2>3, <1>1
<1>12. OrderInv'
  BY <1>11 DEF OrderInv
<1>13. WorkKept
  <2>1. ASSUME NEW k \in 1..Len(stack'), Works(k)'
        PROVE  Works(k) \/ (k = n /\ stamp'[stack[k].item] = None)
    BY <2>1, <1>1, <1>10 DEF Works
  <2> QED
    BY <2>1, <1>10 DEF WorkKept
<1> QED
  BY <1>6, <1>9, <1>12, <1>13 DEF StackOK

\* The frame that runs, at another step and with other dependencies to go.
LEMMA ThenIs ==
  ASSUME StackInv, stack # <<>>, NEW pc \in Steps[Top.script], NEW ds \in SUBSET Items
  PROVE  /\ Top.todo \subseteq Deps[Top.item] /\ Top.item \in Items /\ Top \in Frames
         /\ Then(pc) \in Frames /\ Then(pc).item = Top.item /\ Then(pc).script = Top.script
         /\ Then(pc).todo = Top.todo /\ Then(pc).pc = pc
         /\ [Then(pc) EXCEPT !.todo = ds] \in Frames
         /\ [Then(pc) EXCEPT !.todo = ds].item = Top.item
         /\ [Then(pc) EXCEPT !.todo = ds].script = Top.script
         /\ [Then(pc) EXCEPT !.todo = ds].todo = ds
         /\ [Then(pc) EXCEPT !.todo = ds].pc = pc
         /\ [Top EXCEPT !.todo = ds] \in Frames
         /\ [Top EXCEPT !.todo = ds].item = Top.item
         /\ [Top EXCEPT !.todo = ds].script = Top.script
         /\ [Top EXCEPT !.todo = ds].todo = ds
         /\ [Top EXCEPT !.todo = ds].pc = Top.pc
<1>1. /\ Len(stack) \in Nat \ {0} /\ Top = stack[Len(stack)] /\ Top \in Frames
      /\ Top.item \in Items
  BY TopType DEF StackInv
<1>2. Top.todo \subseteq Deps[Top.item]
  <2>1. Len(stack) \in 1..Len(stack)
    BY <1>1
  <2> QED
    BY <1>1, <2>1 DEF StackInv, ShapeInv
<1>3. Top \in [script : Scripts, pc : Pcs, item : Items, todo : SUBSET Items,
                recipe : Versions \cup {None}]
  BY <1>1, FrameType
<1>4. pc \in Pcs
  BY <1>3, StepsAre
<1>5. Frames = [script : Scripts, pc : Pcs, item : Items, todo : SUBSET Items,
                recipe : Versions \cup {None}]
  BY FrameType
<1> QED
  BY <1>1, <1>2, <1>3, <1>4, <1>5 DEF Then

LEMMA ThenTodoIs ==
  ASSUME StackInv, stack # <<>>, NEW pc \in Steps[Top.script], NEW ds \in SUBSET Items
  PROVE  /\ [Then(pc) EXCEPT !.todo = ds] \in Frames
         /\ [Then(pc) EXCEPT !.todo = ds].item = Top.item
         /\ [Then(pc) EXCEPT !.todo = ds].script = Top.script
         /\ [Then(pc) EXCEPT !.todo = ds].pc = pc
         /\ [Then(pc) EXCEPT !.todo = ds].todo = ds
BY ThenIs, ZenonT(30)

\* The frame of a build that has sourced the package's file.
LEMMA AtDepsIs ==
  ASSUME StackInv, stack # <<>>, NEW ds \in SUBSET Items
  PROVE  /\ AtDeps(ds) \in Frames /\ AtDeps(ds).item = Top.item
         /\ AtDeps(ds).script = "build" /\ AtDeps(ds).pc = "deps" /\ AtDeps(ds).todo = ds
<1>1. Top.item \in Items /\ src[Package] \in Versions
  BY TopType DEF StackInv, TypeOK
<1>2. Frames = [script : Scripts, pc : Pcs, item : Items, todo : SUBSET Items,
                recipe : Versions \cup {None}]
  BY FrameType
<1> QED
  BY <1>1, <1>2 DEF AtDeps, Scripts, Pcs

LEMMA GotoStep ==
  ASSUME StackInv, stack # <<>>, NEW pc \in Steps[Top.script],
         Top.script = "build" => Top.pc # "check", Goto(pc)
  PROVE  StackOK' /\ WorkKept
<1> DEFINE f == Then(pc)
<1>1. /\ f \in Frames /\ f.item = Top.item /\ f.script = Top.script /\ f.pc = pc
      /\ f.todo \subseteq Deps[f.item]
  BY ThenIs
<1>2. stack' = Append(Front(stack), f)
  BY DEF Goto
<1> HIDE DEF f
<1> QED
  BY <1>1, <1>2, ReplaceStep

----------------------------------------------------------------------------
(* Every step leaves a stack in order.                                     *)

LEMMA GotoSteps ==
  ASSUME StackInv,
         CleanStart \/ CleanEnd \/ Extract \/ Patch \/ UnpackUnstamp \/ Compile \/ Make
         \/ CopyProduct \/ UninstallRemove
  PROVE  StackOK' /\ WorkKept
<1>1. ASSUME NEW script, NEW pc, NEW to \in Steps[script], At(script, pc), Goto(to),
             script = "build" => pc # "check"
      PROVE  StackOK' /\ WorkKept
  BY <1>1, GotoStep DEF At
<1>2. /\ "removing" \in Steps["clean"] /\ "unstamp" \in Steps["clean"]
      /\ "patch" \in Steps["unpack"] /\ "unstamp" \in Steps["unpack"]
      /\ "stamp" \in Steps["unpack"] /\ "make" \in Steps["build"]
      /\ "stamp" \in Steps["build"] /\ "touch" \in Steps["install"]
      /\ "unstamp" \in Steps["uninstall"]
  BY StepsAre
<1>3. CASE CleanStart
  <2>1. At("clean", "remove") /\ Goto("removing")
    BY <1>3 DEF CleanStart
  <2> QED
    BY <2>1, <1>1, <1>2
<1>4. CASE CleanEnd
  <2>1. At("clean", "removing") /\ Goto("unstamp")
    BY <1>4 DEF CleanEnd
  <2> QED
    BY <2>1, <1>1, <1>2
<1>5. CASE Extract
  <2>1. At("unpack", "extract") /\ Goto("patch")
    BY <1>5 DEF Extract
  <2> QED
    BY <2>1, <1>1, <1>2
<1>6. CASE Patch
  <2>1. At("unpack", "patch") /\ Goto("unstamp")
    BY <1>6 DEF Patch
  <2> QED
    BY <2>1, <1>1, <1>2
<1>7. CASE UnpackUnstamp
  <2>1. At("unpack", "unstamp") /\ Goto("stamp")
    BY <1>7 DEF UnpackUnstamp
  <2> QED
    BY <2>1, <1>1, <1>2
<1>8. CASE Compile
  <2>1. At("build", "deps") /\ Goto("make")
    BY <1>8 DEF Compile, DepsBuilt
  <2> QED
    BY <2>1, <1>1, <1>2
<1>9. CASE Make
  <2>1. At("build", "make") /\ Goto("stamp")
    BY <1>9 DEF Make
  <2> QED
    BY <2>1, <1>1, <1>2
<1>10. CASE CopyProduct
  <2>1. At("install", "deps") /\ Goto("touch")
    BY <1>10 DEF CopyProduct
  <2> QED
    BY <2>1, <1>1, <1>2
<1>11. CASE UninstallRemove
  <2>1. At("uninstall", "remove") /\ Goto("unstamp")
    BY <1>11 DEF UninstallRemove
  <2> QED
    BY <2>1, <1>1, <1>2
<1> QED
  BY <1>3, <1>4, <1>5, <1>6, <1>7, <1>8, <1>9, <1>10, <1>11

LEMMA CallSteps ==
  ASSUME StackInv, Look \/ CheckStamp \/ BuildDeps \/ InstallCheck \/ InstallDeps
  PROVE  StackOK' /\ WorkKept
<1>1. stack # <<>>
  BY DEF Look, CheckStamp, BuildDeps, InstallCheck, InstallDeps, At
<1>2. Top.item \in Items /\ Top.todo \subseteq Deps[Top.item] /\ Deps[Top.item] \subseteq Items
  BY <1>1, TopType, Assumptions, ThenIs DEF StackInv
<1>3. /\ "extract" \in Steps["unpack"] /\ "deps" \in Steps["build"]
      /\ "deps" \in Steps["install"]
  BY StepsAre
<1>4. ASSUME Return PROVE StackOK' /\ WorkKept
  BY <1>1, <1>4, ReturnStep
<1>5. CASE Look
  <2>1. Top.script = "unpack" /\ Top.pc = "look"
    BY <1>5 DEF Look, At
  <2>2. CASE Goto("extract")
    BY <2>1, <2>2, <1>1, <1>3, GotoStep
  <2>3. CASE Call(Clean(Top.item), Then("extract"))
    <3> DEFINE f == Then("extract")
               t == Clean(Top.item)
    <3>1. /\ f \in Frames /\ f.item = Top.item /\ f.script = "unpack" /\ f.pc = "extract"
          /\ f.todo \subseteq Deps[f.item]
      BY <1>1, <1>3, <2>1, ThenIs
    <3>2. stack' = Append(Front(stack), f) \o t
      BY <2>3 DEF Call
    <3>3. Calls(t, Top.item) /\ t = Clean(Top.item)
      BY DEF Calls
    <3> HIDE DEF f, t
    <3>4. f.pc \in Steps[f.script]
      BY <3>1, <1>3
    <3> QED
      BY <3>1, <3>2, <3>3, <3>4, <1>1, <1>2, <2>1, CallStep
  <2> QED
    BY <1>4, <1>5, <2>2, <2>3 DEF Look
<1>6. CASE CheckStamp
  <2>1. Top.script = "build" /\ Top.pc = "check"
    BY <1>6 DEF CheckStamp, At
  <2>2. CASE Rebuild(Deps[Top.item])
    <3> DEFINE f == AtDeps(Deps[Top.item])
    <3>1. /\ f \in Frames /\ f.item = Top.item /\ f.script = "build" /\ f.pc = "deps"
          /\ f.todo \subseteq Deps[f.item]
      BY <1>1, <1>2, AtDepsIs
    <3>2. stack' = Append(Front(stack), f)
      BY <2>2 DEF Rebuild
    <3>3. stamp'[Top.item] = None
      BY <1>2, <2>2 DEF Rebuild, StackInv, TypeOK
    <3> HIDE DEF f
    <3>4. f.pc \in Steps[f.script]
      BY <3>1, <1>3
    <3> QED
      BY <3>1, <3>2, <3>3, <3>4, <1>1, <2>1, ReplaceStep
  <2> QED
    BY <1>4, <1>6, <2>2 DEF CheckStamp
<1>7. CASE BuildDeps
  <2>1. Top.script = "build" /\ Top.pc = "deps"
    BY <1>7 DEF BuildDeps, At
  <2>2. PICK d \in Top.todo : Call(Build(d), [Top EXCEPT !.todo = @ \ {d}])
    BY <1>7 DEF BuildDeps, CallDeps
  <2> DEFINE f == [Top EXCEPT !.todo = Top.todo \ {d}]
             t == Build(d)
  <2>3. /\ f \in Frames /\ f.item = Top.item /\ f.script = "build" /\ f.pc = "deps"
        /\ f.todo \subseteq Deps[f.item]
    <3>1. Top.pc \in Steps[Top.script] /\ Top.todo \ {d} \in SUBSET Items
      BY <1>2, <1>3, <2>1
    <3>2. /\ f \in Frames /\ f.item = Top.item /\ f.script = Top.script /\ f.pc = Top.pc
          /\ f.todo = Top.todo \ {d}
      BY <3>1, <1>1, ThenIs, Zenon
    <3> HIDE DEF f
    <3> QED
      BY <3>2, <2>1, <1>2
  <2>4. stack' = Append(Front(stack), f) \o t
    BY <2>2 DEF Call
  <2>5. Calls(t, d) /\ t # Clean(d)
    BY DEF Calls, Build, Clean
  <2> HIDE DEF f, t
  <2>6. f.pc \in Steps[f.script] /\ d \in Items /\ d \in Deps[f.item]
    BY <2>3, <1>2, <1>3
  <2> QED
    BY <2>1, <2>3, <2>4, <2>5, <2>6, <1>1, CallStep
<1>8. CASE InstallDeps
  <2>1. Top.script = "install" /\ Top.pc = "deps"
    BY <1>8 DEF InstallDeps, At
  <2>2. PICK d \in Top.todo : Call(Install(d), [Top EXCEPT !.todo = @ \ {d}])
    BY <1>8 DEF InstallDeps, CallDeps
  <2> DEFINE f == [Top EXCEPT !.todo = Top.todo \ {d}]
             t == Install(d)
  <2>3. /\ f \in Frames /\ f.item = Top.item /\ f.script = "install" /\ f.pc = "deps"
        /\ f.todo \subseteq Deps[f.item]
    <3>1. Top.pc \in Steps[Top.script] /\ Top.todo \ {d} \in SUBSET Items
      BY <1>2, <1>3, <2>1
    <3>2. /\ f \in Frames /\ f.item = Top.item /\ f.script = Top.script /\ f.pc = Top.pc
          /\ f.todo = Top.todo \ {d}
      BY <3>1, <1>1, ThenIs, Zenon
    <3> HIDE DEF f
    <3> QED
      BY <3>2, <2>1, <1>2
  <2>4. stack' = Append(Front(stack), f) \o t
    BY <2>2 DEF Call
  <2>5. Calls(t, d) /\ t # Clean(d)
    BY DEF Calls, Install, Clean, Frame
  <2> HIDE DEF f, t
  <2>6. f.pc \in Steps[f.script] /\ d \in Items /\ d \in Deps[f.item]
    BY <2>3, <1>2, <1>3
  <2> QED
    BY <2>1, <2>3, <2>4, <2>5, <2>6, <1>1, CallStep
<1>9. CASE InstallCheck
  <2>1. Top.script = "install" /\ Top.pc = "check"
    BY <1>9 DEF InstallCheck, At
  <2> DEFINE ds == IF Top.item.tgt = "target" THEN Deps[Top.item] ELSE {}
             f == [Then("deps") EXCEPT !.todo = ds]
             t == Build(Top.item)
  <2>2. CASE Call(t, f)
    <3>1. /\ f \in Frames /\ f.item = Top.item /\ f.script = "install" /\ f.pc = "deps"
          /\ f.todo \subseteq Deps[f.item]
      <4>1. ds \subseteq Items /\ ds \subseteq Deps[Top.item]
        BY <1>2
      <4> HIDE DEF ds
      <4>2. "deps" \in Steps[Top.script] /\ ds \in SUBSET Items
        BY <4>1, <1>3, <2>1
      <4>3. /\ f \in Frames /\ f.item = Top.item /\ f.script = Top.script /\ f.pc = "deps"
            /\ f.todo = ds
        BY <4>2, <1>1, ThenTodoIs, ZenonT(30)
      <4> HIDE DEF f
      <4> QED
        BY <4>1, <4>3, <2>1
    <3>2. stack' = Append(Front(stack), f) \o t
      BY <2>2 DEF Call
    <3>3. Calls(t, Top.item) /\ t # Clean(Top.item)
      BY DEF Calls, Build, Clean
    <3> HIDE DEF f, t
    <3>4. f.pc \in Steps[f.script]
      BY <3>1, <1>3
    <3> QED
      BY <3>1, <3>2, <3>3, <3>4, <1>1, <1>2, <2>1, CallStep
  <2> QED
    BY <1>4, <1>9, <2>2 DEF InstallCheck
<1> QED
  BY <1>5, <1>6, <1>7, <1>8, <1>9

LEMMA ReturnSteps ==
  ASSUME StackInv, CleanUnstamp \/ UnpackStamp \/ BuildStamp \/ TouchStamp \/ UninstallUnstamp
  PROVE  StackOK' /\ WorkKept
<1>1. stack # <<>> /\ Return
  BY DEF CleanUnstamp, UnpackStamp, BuildStamp, TouchStamp, UninstallUnstamp, At, DepsBuilt
<1> QED
  BY <1>1, ReturnStep

LEMMA OtherSteps ==
  ASSUME StackInv,
         BuildTool \/ InstallRoot \/ UserBuild \/ UserClean \/ UserUninstall \/ Abort
         \/ UNCHANGED stack
  PROVE  StackOK' /\ (UNCHANGED stack \/ WorkKept)
<1>1. ASSUME NEW d \in Items, NEW t, Calls(t, d) \/ t = Uninstall(d), stack' = t
      PROVE  StackOK' /\ WorkKept
  BY <1>1, NewStep
<1>2. CASE BuildTool
  <2>1. PICK i \in roots : stack' = Build(i)
    BY <1>2 DEF BuildTool
  <2>2. i \in Items
    BY DEF StackInv, TypeOK
  <2> QED
    BY <2>1, <2>2, <1>1 DEF Calls
<1>3. CASE InstallRoot
  <2>1. PICK i \in roots : stack' = Install(i)
    BY <1>3 DEF InstallRoot
  <2>2. i \in Items
    BY DEF StackInv, TypeOK
  <2> QED
    BY <2>1, <2>2, <1>1 DEF Calls
<1>4. CASE UserBuild
  <2>1. PICK i \in Items : stack' = Build(i)
    BY <1>4 DEF UserBuild, Command
  <2> QED
    BY <2>1, <1>1 DEF Calls
<1>5. CASE UserClean
  <2>1. PICK p \in Packages : stack' = Clean(CHOOSE i \in Items : i.pkg = p)
    BY <1>5 DEF UserClean, Command
  <2>2. (CHOOSE i \in Items : i.pkg = p) \in Items
    BY Assumptions
  <2> QED
    BY <2>1, <2>2, <1>1 DEF Calls
<1>6. CASE Abort
  <2>1. stack' = <<>> /\ Len(stack') = 0
    BY <1>6 DEF Abort
  <2> QED
    BY <2>1 DEF StackOK, StackType, ShapeInv, OrderInv, WorkKept
<1>7. CASE UNCHANGED stack
  <2>1. StackType
    BY EmptySeq DEF StackInv, TypeOK, StackType
  <2> QED
    BY <1>7, <2>1 DEF StackInv, StackOK, StackType, ShapeInv, Waits, OrderInv, Works
<1>8. CASE UserUninstall
  <2>1. PICK i \in Items : stack' = Uninstall(i)
    BY <1>8 DEF UserUninstall, Command
  <2> QED
    BY <2>1, <1>1
<1> QED
  BY <1>2, <1>3, <1>4, <1>5, <1>6, <1>7, <1>8

LEMMA StackSteps ==
  ASSUME StackInv, Next
  PROVE  StackOK' /\ (UNCHANGED stack \/ WorkKept)
<1>1. CASE StartImage \/ Wipe \/ Finish \/ UserSkipUnpack \/ Edit
  <2>1. UNCHANGED stack
    BY <1>1 DEF StartImage, Wipe, Finish, UserSkipUnpack, Edit
  <2> QED
    BY <2>1, OtherSteps
<1> QED
  BY <1>1, GotoSteps, CallSteps, ReturnSteps, OtherSteps DEF Next, Script, Uninstaller, Developer

----------------------------------------------------------------------------
(* The other variables.                                                    *)

Trees == [stamp : Stamps, content : Things]
FilesType ==
  /\ src \in [Packages -> Versions] /\ tree \in [Packages -> Trees]
  /\ product \in [Items -> Things] /\ stamp \in [Items -> Stamps]
  /\ image \in [Packages -> Things] /\ installed \subseteq Items
RunType ==
  /\ phase \in Phases /\ roots \subseteq Items
  /\ edited \subseteq Packages /\ compiled \subseteq Items /\ spoiled \subseteq Packages
  /\ troubles \in 0..MaxTroubles

LEMMA TypeIs == TypeOK <=> StackType /\ FilesType /\ RunType
<1>1. ASSUME StackType PROVE DOMAIN stack = 1..Len(stack)
  BY <1>1 DEF StackType
<1>2. ASSUME TypeOK PROVE DOMAIN stack = 1..Len(stack)
  BY <1>2 DEF TypeOK
<1> QED
  BY <1>1, <1>2 DEF TypeOK, StackType, FilesType, RunType, Trees

LEMMA ValuesAre ==
  /\ None \in Stamps /\ Half \in Stamps /\ None \in Things /\ Partial \in Things
  /\ Versions \subseteq Stamps /\ Versions \subseteq Things
  /\ NoTree \in Trees /\ NoTree.stamp = None /\ NoTree.content = None
BY DEF Stamps, Things, NoTree, Trees

LEMMA VersionsAre ==
  /\ None \notin Versions /\ Half \notin Versions /\ Partial \notin Versions
  /\ None # Partial /\ None # Half
<1>1. {None, Half, Partial} \cap Versions = {} /\ None # Half /\ None # Partial
  BY Assumptions
<1> QED
  BY <1>1

LEMMA WithoutIs ==
  ASSUME NEW S, None \in S, NEW f \in [Items -> S], NEW is
  PROVE  /\ Without(f, is) \in [Items -> S]
         /\ \A i \in Items : Without(f, is)[i] = IF i \in is THEN None ELSE f[i]
BY DEF Without

LEMMA RunSteps ==
  ASSUME StackInv, Next
  PROVE  RunType'
<1>1. RunType /\ TypeOK
  BY TypeIs DEF StackInv
<1>2. stack # <<>> => Package \in Packages /\ Top.item \in Items
  BY <1>1, TopType
<1>3. CASE CleanStart
  BY <1>1, <1>2, <1>3 DEF CleanStart, At, RunType, runs
<1>4. CASE CleanEnd \/ CleanUnstamp
  <2>1. NoSources \subseteq Packages
    BY Assumptions
  <2> QED
    BY <1>1, <1>4, <2>1 DEF CleanEnd, CleanUnstamp, RunType, runs
<1>5. CASE CheckStamp \/ Make
  BY <1>1, <1>2, <1>5 DEF CheckStamp, Rebuild, Make, At, RunType, runs
<1>6. CASE Look \/ Extract \/ Patch \/ UnpackUnstamp \/ UnpackStamp \/ BuildDeps \/ Compile
           \/ BuildStamp \/ InstallCheck \/ InstallDeps \/ CopyProduct \/ TouchStamp
           \/ UninstallRemove \/ UninstallUnstamp
  BY <1>1, <1>6 DEF Look, Extract, Patch, UnpackUnstamp, UnpackStamp, BuildDeps, Compile,
    BuildStamp, InstallCheck, InstallDeps, CopyProduct, TouchStamp, UninstallRemove,
    UninstallUnstamp, RunType, runs, past
<1>7. CASE BuildTool \/ InstallRoot
  BY <1>1, <1>7 DEF BuildTool, InstallRoot, RunType, past
<1>8. CASE Wipe \/ StartImage
  <2>1. Tools \subseteq Items /\ Roots \subseteq Items
    BY Assumptions
  <2> QED
    BY <1>1, <1>8, <2>1 DEF Wipe, StartImage, Forget, RunType, Phases, past
<1>9. CASE Finish \/ UserBuild \/ UserClean \/ UserUninstall
  BY <1>1, <1>9 DEF Finish, UserBuild, UserClean, UserUninstall, Command, Forget, RunType, Phases,
    runs
<1>10. CASE UserSkipUnpack
  BY <1>1, <1>10 DEF UserSkipUnpack, RunType, runs
<1>11. CASE Edit
  <2>1. PICK p \in Packages : /\ edited' = IF Idle THEN edited ELSE edited \cup {p}
                             /\ spoiled' = IF InWindow(p) THEN spoiled \cup {p} ELSE spoiled
    BY <1>11 DEF Edit
  <2>2. edited' \subseteq Packages /\ spoiled' \subseteq Packages
    BY <2>1, <1>1 DEF RunType
  <2>3. troubles' \in 0..MaxTroubles
    BY <1>1, <1>11, Assumptions DEF Edit, Trouble, RunType
  <2> QED
    BY <2>2, <2>3, <1>1, <1>11 DEF Edit, RunType, runs
<1>12. CASE Abort
  <2>1. troubles' \in 0..MaxTroubles
    BY <1>1, <1>12, Assumptions DEF Abort, Trouble, RunType
  <2>2. spoiled' \subseteq Packages
    BY <1>1, <1>2, <1>12 DEF Abort, At, RunType
  <2> QED
    BY <2>1, <2>2, <1>1, <1>12 DEF Abort, RunType, Phases
<1> QED
  BY <1>3, <1>4, <1>5, <1>6, <1>7, <1>8, <1>9, <1>10, <1>11, <1>12 DEF Next, Script, Uninstaller, Developer

LEMMA FilesSteps ==
  ASSUME StackInv, Next
  PROVE  FilesType'
<1>1. FilesType /\ TypeOK
  BY TypeIs DEF StackInv
<1>2. stack # <<>> => Package \in Packages /\ Top.item \in Items
  BY <1>1, TopType
<1>3. ASSUME NEW is PROVE Without(stamp, is) \in [Items -> Stamps]
                         /\ Without(product, is) \in [Items -> Things]
  BY <1>1, ValuesAre, WithoutIs DEF FilesType
<1>4. \A p \in Packages : src[p] \in Stamps /\ src[p] \in Things /\ tree[p].content \in Things
                          /\ tree[p].stamp \in Stamps
  BY <1>1, ValuesAre DEF FilesType, Trees
<1>5. CASE CleanStart
  <2>0. stack # <<>>
    BY <1>5 DEF CleanStart, At
  <2>1. CASE tree[Package].content = None
    BY <2>1, <1>1, <1>5 DEF CleanStart, FilesType
  <2>2. CASE tree[Package].content # None
    <3>1. PICK st \in {None, tree[Package].stamp} :
            tree' = [tree EXCEPT ![Package] = [stamp |-> st, content |-> Partial]]
      BY <2>2, <1>5 DEF CleanStart
    <3>2. [stamp |-> st, content |-> Partial] \in Trees
      BY <3>1, <2>0, <1>2, <1>4, ValuesAre DEF Trees
    <3>3. tree' \in [Packages -> Trees]
      BY <3>1, <3>2, <1>1 DEF FilesType
    <3>4. product' \in [Items -> Things]
      BY <2>2, <1>1, <1>5, ValuesAre DEF CleanStart, FilesType
    <3> QED
      BY <3>3, <3>4, <1>1, <1>5 DEF CleanStart, FilesType
  <2> QED
    BY <2>1, <2>2
<1>6. CASE CleanEnd
  <2>1. tree' \in [Packages -> Trees]
    BY <1>1, <1>6, ValuesAre DEF CleanEnd, FilesType
  <2>2. product' \in [Items -> Things]
    BY <1>3, <1>6 DEF CleanEnd
  <2> QED
    BY <2>1, <2>2, <1>1, <1>6 DEF CleanEnd, FilesType
<1>7. CASE CleanUnstamp \/ UnpackUnstamp
  BY <1>1, <1>3, <1>7 DEF CleanUnstamp, UnpackUnstamp, FilesType
<1>8. CASE Extract \/ Patch \/ UnpackStamp
  <2>0. Package \in Packages
    BY <1>2, <1>8 DEF Extract, Patch, UnpackStamp, At
  <2>1. tree' \in [Packages -> Trees]
    BY <2>0, <1>1, <1>4, <1>8, ValuesAre DEF Extract, Patch, UnpackStamp, FilesType, Trees
  <2> QED
    BY <2>1, <1>1, <1>8 DEF Extract, Patch, UnpackStamp, FilesType
<1>9. CASE CheckStamp \/ BuildStamp
  <2>0. Package \in Packages
    BY <1>2, <1>9 DEF CheckStamp, BuildStamp, DepsBuilt, At
  <2>1. stamp' \in [Items -> Stamps]
    BY <2>0, <1>1, <1>4, <1>9, ValuesAre DEF CheckStamp, Rebuild, BuildStamp, FilesType
  <2> QED
    BY <2>1, <1>1, <1>9 DEF CheckStamp, BuildStamp, FilesType
<1>10. CASE Compile
  <2>1. tree' \in [Packages -> Trees]
    BY <1>1, <1>4, <1>10, ValuesAre DEF Compile, FilesType, Trees
  <2>2. product' \in [Items -> Things]
    BY <1>1, <1>10, ValuesAre DEF Compile, FilesType
  <2> QED
    BY <2>1, <2>2, <1>1, <1>10 DEF Compile, FilesType
<1>11. CASE Make
  <2>0. Package \in Packages
    BY <1>2, <1>11 DEF Make, At
  <2>1. product' \in [Items -> Things]
    BY <2>0, <1>1, <1>4, <1>11, ValuesAre DEF Make, FilesType
  <2> QED
    BY <2>1, <1>1, <1>11 DEF Make, FilesType
<1>12. CASE CopyProduct
  <2>0. Top.item \in Items
    BY <1>2, <1>12 DEF CopyProduct, At
  <2>1. image' \in [Packages -> Things]
    BY <2>0, <1>1, <1>12 DEF CopyProduct, FilesType
  <2> QED
    BY <2>1, <1>1, <1>12 DEF CopyProduct, FilesType
<1>13. CASE TouchStamp
  <2>0. Top.item \in Items
    BY <1>2, <1>13 DEF TouchStamp, At
  <2> QED
    BY <2>0, <1>1, <1>13 DEF TouchStamp, FilesType
<1>14. CASE Wipe
  <2>1. image' \in [Packages -> Things]
    BY <1>14, ValuesAre DEF Wipe
  <2> QED
    BY <2>1, <1>1, <1>14 DEF Wipe, FilesType
<1>15. CASE UninstallRemove \/ UninstallUnstamp
  <2>1. stamp' \in [Items -> Stamps] /\ product' \in [Items -> Things]
    BY <1>1, <1>15, ValuesAre DEF UninstallRemove, UninstallUnstamp, FilesType
  <2> QED
    BY <2>1, <1>1, <1>15 DEF UninstallRemove, UninstallUnstamp, FilesType
<1>16. CASE UserSkipUnpack
  <2>1. tree' \in [Packages -> Trees]
    BY <1>1, <1>4, <1>16 DEF UserSkipUnpack, FilesType, Trees
  <2> QED
    BY <2>1, <1>1, <1>16 DEF UserSkipUnpack, FilesType
<1>17. CASE Edit
  <2>1. src' \in [Packages -> Versions]
    BY <1>1, <1>17 DEF Edit, FilesType
  <2> QED
    BY <2>1, <1>1, <1>17 DEF Edit, FilesType, files
<1>18. CASE Abort
  <2>1. tree' \in [Packages -> Trees]
    BY <1>1, <1>18, ValuesAre DEF Abort, FilesType, Trees
  <2>2. stamp' \in [Items -> Stamps]
    BY <1>1, <1>18, ValuesAre DEF Abort, FilesType
  <2> QED
    BY <2>1, <2>2, <1>1, <1>18 DEF Abort, FilesType
<1>19. CASE Look \/ BuildDeps \/ InstallCheck \/ InstallDeps \/ BuildTool \/ InstallRoot \/ Finish
            \/ StartImage \/ UserBuild \/ UserClean \/ UserUninstall
  BY <1>1, <1>19 DEF Look, BuildDeps, InstallCheck, InstallDeps, BuildTool, InstallRoot, Finish,
    StartImage, UserBuild, UserClean, UserUninstall, Command, FilesType, files
<1> QED
  BY <1>5, <1>6, <1>7, <1>8, <1>9, <1>10, <1>11, <1>12, <1>13, <1>14, <1>15, <1>16, <1>17, <1>18,
    <1>19 DEF Next, Script, Uninstaller, Developer

LEMMA StackInit == Init => StackInv
<1> SUFFICES ASSUME Init PROVE StackInv
  OBVIOUS
<1>1. stack = <<>> /\ Len(stack) = 0
  BY DEF Init
<1>2. StackType /\ ShapeInv /\ OrderInv
  BY <1>1 DEF StackType, ShapeInv, OrderInv
<1>3. FilesType
  BY ValuesAre DEF Init, FilesType
<1>4. RunType
  BY Assumptions DEF Init, RunType, Phases
<1> QED
  BY <1>2, <1>3, <1>4, TypeIs DEF StackInv

LEMMA StackKept == StackInv /\ [Next]_vars => StackInv'
<1> SUFFICES ASSUME StackInv, [Next]_vars PROVE StackInv'
  OBVIOUS
<1>1. CASE Next
  <2>1. StackOK' /\ RunType' /\ FilesType'
    BY <1>1, StackSteps, RunSteps, FilesSteps
  <2>2. TypeOK' <=> StackType' /\ FilesType' /\ RunType'
    BY TypeIs, PTL
  <2> QED
    BY <2>1, <2>2 DEF StackInv, StackOK
<1>2. CASE UNCHANGED vars
  BY <1>2 DEF vars, files, runs, past, StackInv, TypeOK, ShapeInv, Waits, OrderInv, Works
<1> QED
  BY <1>1, <1>2

\* What the scripts keep on the disk and on their stack is of its type: a call
\* always returns to the script that waits for it, and no script runs for an item
\* that is on the stack for one of its dependencies (scripts/build:49,84-105,
\* scripts/install:51-70, scripts/unpack:42-56).
THEOREM TypeCorrect == Spec => []TypeOK
<1>1. StackInv => TypeOK
  BY DEF StackInv
<1> QED
  BY <1>1, StackInit, StackKept, PTL DEF Spec

----------------------------------------------------------------------------
(* The script that runs after a step.                                      *)

\* There is nothing that TopInv says of it.
Silent ==
  \/ stack = <<>>
  \/ Top.script = "install"
  \/ Top.script = "build" /\ Top.pc \in {"check", "deps"}
  \/ Top.script = "clean" /\ Top.pc = "remove"
  \/ Top.script = "unpack" /\ Top.pc = "look"
  \/ Top.script = "uninstall" /\ Top.pc = "unstamp"

LEMMA SilentTop == Silent => TopInv
BY DEF Silent, TopInv, At

LEMMA ReturnTop ==
  ASSUME StackInv, stack # <<>>, Return
  PROVE  /\ Top.script # "clean" => Silent'
         /\ Top.script = "clean" =>
              \/ stack' = <<>>
              \/ /\ stack' # <<>> /\ Top'.script = "unpack" /\ Top'.pc = "extract"
                 /\ Top'.item = Top.item
<1> DEFINE n == Len(stack)
<1>1. TypeOK /\ n \in Nat \ {0} /\ Top = stack[n]
  BY TopType DEF StackInv
<1>2. /\ stack' \in Seq(Frames) /\ Len(stack') = n - 1
      /\ \A k \in 1..Len(stack') : stack'[k] = stack[k]
  BY <1>1, Returned
<1>3. CASE n = 1
  <2>1. stack' = <<>>
    BY <1>2, <1>3, EmptySeq
  <2> QED
    BY <2>1 DEF Silent
<1>4. CASE n # 1
  <2>1. n - 1 \in 1..n /\ n - 1 < n /\ (n - 1) + 1 = n /\ n - 1 \in 1..Len(stack')
    BY <1>1, <1>2, <1>4
  <2>2. Top' = stack[n - 1]
    BY <2>1, <1>2 DEF Top, Last
  <2>3. Waits(n - 1) /\ (stack[n].script = "clean" => stack[n - 1].script = "unpack")
    BY <2>1 DEF StackInv, ShapeInv
  <2>4. \/ Top'.script = "install" /\ Top.script # "clean"
        \/ Top'.script = "build" /\ Top'.pc \in {"check", "deps"} /\ Top.script # "clean"
        \/ /\ Top'.script = "unpack" /\ Top'.pc = "extract" /\ Top.script = "clean"
           /\ Top'.item = Top.item
    BY <2>1, <2>2, <2>3, <1>1 DEF Waits
  <2>5. stack' # <<>>
    BY <2>1, <1>2, EmptySeq
  <2> QED
    BY <2>4, <2>5 DEF Silent
<1> QED
  BY <1>3, <1>4

LEMMA ReplaceTop ==
  ASSUME StackInv, stack # <<>>, NEW f \in Frames, stack' = Append(Front(stack), f)
  PROVE  stack' # <<>> /\ Top' = f
<1>1. TypeOK /\ Len(stack) \in Nat \ {0}
  BY TopType DEF StackInv
<1>2. Len(stack') = Len(stack) /\ stack'[Len(stack)] = f
  BY <1>1, Replaced
<1> QED
  BY <1>1, <1>2, EmptySeq DEF Top, Last

LEMMA GotoTop ==
  ASSUME StackInv, NEW script, NEW pc, NEW to \in Steps[script], At(script, pc), Goto(to)
  PROVE  /\ stack' # <<>> /\ Top'.script = script /\ Top'.pc = to /\ Top'.item = Top.item
         /\ Package' = Package
<1>1. stack # <<>> /\ Top.script = script
  BY DEF At
<1>2. Then(to) \in Frames /\ Then(to).item = Top.item /\ Then(to).script = script /\ Then(to).pc = to
  BY <1>1, ThenIs
<1>3. stack' # <<>> /\ Top' = Then(to)
  BY <1>1, <1>2, ReplaceTop DEF Goto
<1> QED
  BY <1>2, <1>3 DEF Package

\* What a call puts on the top.
LEMMA CalledTop ==
  ASSUME NEW d \in Items, NEW t, Calls(t, d)
  PROVE  /\ Len(t) \in 1..2
         /\ \/ t[Len(t)].script = "install"
            \/ t[Len(t)].script = "clean" /\ t[Len(t)].pc = "remove"
            \/ t[Len(t)].script = "unpack" /\ t[Len(t)].pc = "look"
<1>1. /\ Len(Install(d)) = 1 /\ Install(d)[1].script = "install"
      /\ Len(Clean(d)) = 1 /\ Clean(d)[1].script = "clean" /\ Clean(d)[1].pc = "remove"
      /\ Len(Build(d)) = 2 /\ Build(d)[2].script = "unpack" /\ Build(d)[2].pc = "look"
  BY DEF Install, Clean, Build, Frame
<1>2. ASSUME t = Install(d) PROVE Len(t) = 1 /\ t[Len(t)].script = "install"
  BY <1>1, <1>2
<1>3. ASSUME t = Clean(d)
      PROVE  Len(t) = 1 /\ t[Len(t)].script = "clean" /\ t[Len(t)].pc = "remove"
  BY <1>1, <1>3
<1>4. ASSUME t = Build(d)
      PROVE  Len(t) = 2 /\ t[Len(t)].script = "unpack" /\ t[Len(t)].pc = "look"
  BY <1>1, <1>4
<1> QED
  BY <1>2, <1>3, <1>4 DEF Calls

LEMMA NewTop ==
  ASSUME NEW d \in Items, NEW t, Calls(t, d), stack' = t
  PROVE  Silent'
BY CalledTop DEF Silent, Top, Last

LEMMA CallTop ==
  ASSUME StackInv, stack # <<>>, NEW f \in Frames, NEW d \in Items, NEW t, Calls(t, d),
         stack' = Append(Front(stack), f) \o t
  PROVE  Silent'
<1>1. TypeOK /\ Len(stack) \in Nat \ {0}
  BY TopType DEF StackInv
<1>2. t \in Seq(Frames) /\ Len(t) \in 1..2
  BY CallShape
<1>3. Len(stack') = Len(stack) + Len(t) /\ \A k \in 1..Len(t) : stack'[Len(stack) + k] = t[k]
  BY <1>1, <1>2, CalledNext, Zenon
<1>4. Top' = t[Len(t)]
  <2>0. Len(t) \in 1..2
    BY <1>2
  <2>1. Len(t) \in 1..Len(t)
    BY <2>0
  <2>2. stack'[Len(stack) + Len(t)] = t[Len(t)]
    BY <2>1, <1>3
  <2> QED
    BY <2>2, <1>3 DEF Top, Last
<1> QED
  BY <1>4, CalledTop DEF Silent

\* Of most steps TopInv says nothing afterwards.
LEMMA SilentSteps ==
  ASSUME StackInv,
         \/ UnpackStamp \/ CheckStamp \/ BuildDeps \/ BuildStamp \/ InstallCheck \/ InstallDeps
         \/ CopyProduct \/ TouchStamp \/ BuildTool \/ Wipe \/ InstallRoot \/ Finish
         \/ StartImage \/ UserBuild \/ UserClean \/ UninstallRemove \/ UninstallUnstamp
         \/ UserSkipUnpack \/ Abort
  PROVE  Silent'
<1>1. ASSUME stack # <<>>, Return, Top.script # "clean" PROVE Silent'
  BY <1>1, ReturnTop
<1>2. stack # <<>> => /\ Top.item \in Items /\ Top.todo \subseteq Items /\ Top \in Frames
                      /\ Top.pc \in Steps[Top.script]
  BY TopType DEF StackInv
<1>3. /\ "deps" \in Steps["build"] /\ "deps" \in Steps["install"] /\ "touch" \in Steps["install"]
  BY StepsAre
<1>4. Deps \in [Items -> SUBSET Items]
  BY Assumptions
<1>5. CASE UnpackStamp \/ BuildStamp \/ TouchStamp \/ UninstallUnstamp
  <2>1. stack # <<>> /\ Return /\ Top.script # "clean"
    BY <1>5 DEF UnpackStamp, BuildStamp, TouchStamp, UninstallUnstamp, At, DepsBuilt
  <2> QED
    BY <2>1, <1>1
<1>6. CASE CheckStamp
  <2>1. stack # <<>> /\ Top.script = "build"
    BY <1>6 DEF CheckStamp, At
  <2>2. CASE Rebuild(Deps[Top.item])
    <3> DEFINE f == AtDeps(Deps[Top.item])
    <3>1. Deps[Top.item] \in SUBSET Items
      BY <2>1, <1>2, <1>4
    <3>2. f \in Frames /\ f.script = Top.script /\ f.pc = "deps"
      BY <3>1, <2>1, AtDepsIs
    <3>3. stack' = Append(Front(stack), f)
      BY <2>2 DEF Rebuild
    <3> HIDE DEF f
    <3>4. stack' # <<>> /\ Top' = f
      BY <3>2, <3>3, <2>1, ReplaceTop
    <3> QED
      BY <3>2, <3>4, <2>1 DEF Silent
  <2> QED
    BY <2>1, <2>2, <1>1, <1>6 DEF CheckStamp
<1>7. CASE BuildDeps
  <2>1. stack # <<>> /\ Top.script = "build"
    BY <1>7 DEF BuildDeps, At
  <2>2. PICK d \in Top.todo : Call(Build(d), [Top EXCEPT !.todo = @ \ {d}])
    BY <1>7 DEF BuildDeps, CallDeps
  <2> DEFINE f == [Top EXCEPT !.todo = Top.todo \ {d}]
             t == Build(d)
  <2>3. Top.pc \in Steps[Top.script] /\ Top.todo \ {d} \in SUBSET Items
    BY <2>1, <1>2
  <2>4. f \in Frames
    BY <2>1, <2>3, ThenIs, Zenon
  <2>5. stack' = Append(Front(stack), f) \o t
    BY <2>2 DEF Call
  <2>6. Calls(t, d) /\ d \in Items
    BY <2>1, <1>2 DEF Calls
  <2> HIDE DEF f, t
  <2> QED
    BY <2>1, <2>4, <2>5, <2>6, CallTop
<1>8. CASE InstallDeps
  <2>1. stack # <<>> /\ Top.script = "install"
    BY <1>8 DEF InstallDeps, At
  <2>2. PICK d \in Top.todo : Call(Install(d), [Top EXCEPT !.todo = @ \ {d}])
    BY <1>8 DEF InstallDeps, CallDeps
  <2> DEFINE f == [Top EXCEPT !.todo = Top.todo \ {d}]
             t == Install(d)
  <2>3. Top.pc \in Steps[Top.script] /\ Top.todo \ {d} \in SUBSET Items
    BY <2>1, <1>2
  <2>4. f \in Frames
    BY <2>1, <2>3, ThenIs, Zenon
  <2>5. stack' = Append(Front(stack), f) \o t
    BY <2>2 DEF Call
  <2>6. Calls(t, d) /\ d \in Items
    BY <2>1, <1>2 DEF Calls
  <2> HIDE DEF f, t
  <2> QED
    BY <2>1, <2>4, <2>5, <2>6, CallTop
<1>9. CASE InstallCheck
  <2>1. stack # <<>> /\ Top.script = "install"
    BY <1>9 DEF InstallCheck, At
  <2> DEFINE ds == IF Top.item.tgt = "target" THEN Deps[Top.item] ELSE {}
             f == [Then("deps") EXCEPT !.todo = ds]
             t == Build(Top.item)
  <2>2. CASE Call(t, f)
    <3>1. "deps" \in Steps[Top.script] /\ ds \in SUBSET Items
      BY <2>1, <1>2, <1>3, <1>4
    <3> HIDE DEF ds
    <3>2. f \in Frames
      BY <3>1, <2>1, ThenIs, ZenonT(30)
    <3>3. stack' = Append(Front(stack), f) \o t
      BY <2>2 DEF Call
    <3>4. Calls(t, Top.item) /\ Top.item \in Items
      BY <2>1, <1>2 DEF Calls
    <3> HIDE DEF f, t
    <3> QED
      BY <2>1, <3>2, <3>3, <3>4, CallTop
  <2> QED
    BY <2>1, <2>2, <1>1, <1>9 DEF InstallCheck
<1>10. CASE CopyProduct
  <2>1. At("install", "deps") /\ Goto("touch")
    BY <1>10 DEF CopyProduct
  <2>2. Top'.script = "install"
    BY <2>1, <1>3, GotoTop
  <2> QED
    BY <2>2 DEF Silent
<1>11. CASE BuildTool
  <2>1. PICK i \in roots : stack' = Build(i)
    BY <1>11 DEF BuildTool
  <2>2. i \in Items
    BY DEF StackInv, TypeOK
  <2> QED
    BY <2>1, <2>2, NewTop DEF Calls
<1>12. CASE InstallRoot
  <2>1. PICK i \in roots : stack' = Install(i)
    BY <1>12 DEF InstallRoot
  <2>2. i \in Items
    BY DEF StackInv, TypeOK
  <2> QED
    BY <2>1, <2>2, NewTop DEF Calls
<1>13. CASE UserBuild
  <2>1. PICK i \in Items : stack' = Build(i)
    BY <1>13 DEF UserBuild, Command
  <2> QED
    BY <2>1, NewTop DEF Calls
<1>14. CASE UserClean
  <2>1. PICK p \in Packages : stack' = Clean(CHOOSE i \in Items : i.pkg = p)
    BY <1>14 DEF UserClean, Command
  <2>2. (CHOOSE i \in Items : i.pkg = p) \in Items
    BY Assumptions
  <2> QED
    BY <2>1, <2>2, NewTop DEF Calls
<1>15. CASE Wipe \/ Finish \/ StartImage \/ UserSkipUnpack \/ Abort
  <2>1. stack' = <<>>
    BY <1>15 DEF Wipe, Finish, Packing, StartImage, UserSkipUnpack, Abort, Idle
  <2> QED
    BY <2>1 DEF Silent
<1>16. CASE UninstallRemove
  <2>1. At("uninstall", "remove") /\ Goto("unstamp") /\ "unstamp" \in Steps["uninstall"]
    BY <1>16, StepsAre DEF UninstallRemove
  <2>2. Top'.script = "uninstall" /\ Top'.pc = "unstamp"
    BY <2>1, GotoTop
  <2> QED
    BY <2>2 DEF Silent
<1> QED
  BY <1>5, <1>6, <1>7, <1>8, <1>9, <1>10, <1>11, <1>12, <1>13, <1>14, <1>15, <1>16

----------------------------------------------------------------------------
(* NoneInv: who is at work has no stamp.                                   *)

LEMMA StampMoves ==
  ASSUME StackInv, Next, ~BuildStamp, ~Abort
  PROVE  \A i \in Items : stamp'[i] \in {stamp[i], None}
<1>1. stamp \in [Items -> Stamps]
  BY DEF StackInv, TypeOK
<1>2. CASE CleanUnstamp \/ UnpackUnstamp
  BY <1>1, <1>2 DEF CleanUnstamp, UnpackUnstamp, Without
<1>3. CASE CheckStamp
  BY <1>1, <1>3 DEF CheckStamp, Rebuild
<1>4. CASE UninstallUnstamp
  BY <1>1, <1>4 DEF UninstallUnstamp
<1>5. CASE CleanStart \/ CleanEnd \/ Look \/ Extract \/ Patch \/ UnpackStamp \/ BuildDeps \/ Compile
           \/ Make \/ InstallCheck \/ InstallDeps \/ CopyProduct \/ TouchStamp \/ BuildTool \/ Wipe
           \/ InstallRoot \/ Finish \/ StartImage \/ UserBuild \/ UserClean \/ UserUninstall
           \/ UninstallRemove \/ UserSkipUnpack \/ Edit
  <2>1. stamp' = stamp
    BY <1>5 DEF CleanStart, CleanEnd, Look, Extract, Patch, UnpackStamp, BuildDeps, Compile, Make,
      InstallCheck, InstallDeps, CopyProduct, TouchStamp, BuildTool, Wipe, InstallRoot, Finish,
      StartImage, UserBuild, UserClean, UserUninstall, Command, UninstallRemove, UserSkipUnpack,
      Edit, files
  <2> QED
    BY <2>1
<1> QED
  BY <1>2, <1>3, <1>4, <1>5 DEF Next, Script, Uninstaller, Developer

LEMMA NoneKept ==
  ASSUME StackInv, NoneInv, Next
  PROVE  NoneInv'
<1>1. CASE UNCHANGED stack /\ ~BuildStamp /\ ~Abort
  <2>1. ASSUME NEW k \in 1..Len(stack), Works(k) PROVE stamp'[stack[k].item] = None
    <3>1. stack[k].item \in Items /\ stamp[stack[k].item] = None
      <4>1. stack # <<>>
        BY <2>1
      <4> QED
        BY <2>1, <4>1, TopType DEF StackInv, NoneInv
    <3> QED
      BY <3>1, <1>1, StampMoves
  <2> QED
    BY <2>1, <1>1 DEF NoneInv, Works
<1>2. CASE Abort
  <2>1. stack' = <<>>
    BY <1>2 DEF Abort
  <2> QED
    BY <2>1 DEF NoneInv
<1>3. CASE WorkKept /\ ~Abort
  <2>1. ASSUME NEW k \in 1..Len(stack'), Works(k)' PROVE stamp'[stack'[k].item] = None
    <3>1. /\ k \in 1..Len(stack) /\ stack'[k].item = stack[k].item
          /\ Works(k) \/ (k = Len(stack) /\ stamp'[stack[k].item] = None)
      BY <1>3, <2>1 DEF WorkKept
    <3>2. stack # <<>>
      BY <3>1
    <3>3. CASE Works(k) /\ ~BuildStamp
      <4>1. stack[k].item \in Items /\ stamp[stack[k].item] = None
        BY <3>1, <3>2, <3>3, TopType DEF StackInv, NoneInv
      <4> QED
        BY <4>1, <3>1, <3>3, <1>3, StampMoves
    <3>4. CASE Works(k) /\ BuildStamp
      <4>1. /\ Len(stack) \in Nat \ {0} /\ Top = stack[Len(stack)] /\ TypeOK
            /\ stack[k].item \in Items /\ stamp \in [Items -> Stamps]
        BY <3>1, <3>2, TopType DEF StackInv, TypeOK
      <4>2. Len(stack') = Len(stack) - 1
        BY <3>2, <3>4, <4>1, Returned DEF BuildStamp
      <4>3. k < Len(stack) /\ Len(stack) \in 1..Len(stack)
        BY <4>1, <4>2, <2>1
      <4>4. Top.item \in AllDeps(stack[k].item)
        BY <4>1, <4>3, <3>1, <3>4 DEF StackInv, OrderInv
      <4>5. Top.item # stack[k].item
        BY <4>1, <4>4, DepsClosed
      <4>6. stamp[stack[k].item] = None
        BY <3>1, <3>4 DEF NoneInv
      <4>7. stamp' = [stamp EXCEPT ![Top.item] = src[Package]]
        BY <3>4 DEF BuildStamp
      <4> QED
        BY <4>1, <4>5, <4>6, <4>7, <3>1
    <3> QED
      BY <3>1, <3>3, <3>4
  <2> QED
    BY <2>1 DEF NoneInv
<1>4. CASE BuildStamp
  <2>1. stack # <<>> /\ Return
    BY <1>4 DEF BuildStamp, At, DepsBuilt
  <2>2. WorkKept
    BY <2>1, ReturnStep
  <2> QED
    BY <2>2, <1>2, <1>3
<1> QED
  BY <1>1, <1>2, <1>3, <1>4, StackSteps

----------------------------------------------------------------------------
(* Every step keeps what is known of trees, products and stamps.           *)

FilesInv == TreeInv /\ MadeInv /\ TopInv

LEMMA FilesAre ==
  ASSUME StackInv
  PROVE  /\ src \in [Packages -> Versions] /\ tree \in [Packages -> Trees]
         /\ product \in [Items -> Things] /\ stamp \in [Items -> Stamps]
         /\ \A i \in Items : i.pkg \in Packages
         /\ stack # <<>> => Package \in Packages /\ Top.item \in Items
BY TypeIs, TopType, Assumptions DEF StackInv, FilesType

LEMMA IdleSteps ==
  ASSUME StampInv, MadeInv,
         \/ BuildDeps \/ InstallCheck \/ InstallDeps \/ CopyProduct \/ TouchStamp \/ BuildTool \/ Wipe
         \/ InstallRoot \/ Finish \/ StartImage \/ UserBuild \/ UserClean
  PROVE  FilesInv'
<1>1. TopInv'
  <2>1. Silent'
    BY SilentSteps DEF StampInv
  <2> QED
    BY <2>1, SilentTop, PTL
<1>2. tree' = tree /\ product' = product /\ stamp' = stamp /\ spoiled' = spoiled
  BY DEF BuildDeps, InstallCheck, InstallDeps, CopyProduct, TouchStamp, BuildTool, Wipe, InstallRoot,
    Finish, StartImage, UserBuild, UserClean, Command, Forget, files, past
<1> QED
  BY <1>1, <1>2 DEF StampInv, TreeInv, MadeInv, Vouched, FilesInv

LEMMA CleanStartKeeps ==
  ASSUME StampInv, MadeInv, CleanStart
  PROVE  FilesInv'
<1> USE DEF CleanStart
<1>1. /\ stack # <<>> /\ tree \in [Packages -> Trees] /\ product \in [Items -> Things]
      /\ \A i \in Items : i.pkg \in Packages
      /\ Package \in Packages
  BY FilesAre DEF StampInv, At
<1>2. Top'.script = "clean" /\ Top'.pc = "removing" /\ Package' = Package
  BY StepsAre, GotoTop DEF StampInv
<1>3. CASE tree[Package].content = None
  BY <1>2, <1>3 DEF StampInv, TreeInv, MadeInv, Vouched, TopInv, FilesInv, At
<1>4. CASE tree[Package].content # None
  <2>1. PICK s \in {None, tree[Package].stamp} :
          tree' = [tree EXCEPT ![Package] = [stamp |-> s, content |-> Partial]]
    BY <1>4
  <2>2. /\ spoiled' = spoiled \cup {Package} /\ stamp' = stamp
        /\ product' = [i \in Items |-> IF i \in InTreeOf({Package}) /\ product[i] # None
                                      THEN Partial ELSE product[i]]
    BY <1>4
  <2>3. /\ tree'[Package].content = Partial
        /\ \A p \in Packages : p # Package => tree'[p] = tree[p]
    BY <2>1, <1>1
  <2>4. \A i \in Items : /\ product'[i] # None => product[i] # None
                         /\ i.pkg # Package => product'[i] = product[i]
    BY <2>2, <1>1 DEF InTreeOf
  <2>5. TreeInv'
    BY <2>2, <2>3, <2>4, <1>1, VersionsAre DEF StampInv, TreeInv
  <2>6. MadeInv'
    BY <2>2, <2>3, <2>4, <1>1 DEF MadeInv, Vouched
  <2>7. TopInv'
    BY <1>2, <2>2 DEF TopInv, At
  <2> QED
    BY <2>5, <2>6, <2>7 DEF FilesInv
<1> QED
  BY <1>3, <1>4

LEMMA CleanEndKeeps ==
  ASSUME StampInv, MadeInv, CleanEnd
  PROVE  FilesInv'
<1> DEFINE gone == {Package} \cup {q \in Shadowed[Package] : Stampless(q)}
           lost == {q \in gone \cap NoSources : \E i \in InTreeOf({q}) : stamp[i] # None}
<1>1. /\ stack # <<>> /\ tree \in [Packages -> Trees] /\ product \in [Items -> Things]
      /\ \A i \in Items : i.pkg \in Packages
      /\ Package \in Packages
  BY FilesAre DEF StampInv, At, CleanEnd
<1>2. Top'.script = "clean" /\ Top'.pc = "unstamp" /\ Package' = Package
  BY StepsAre, GotoTop DEF StampInv, CleanEnd
<1>4. Package \in gone
  OBVIOUS
<1>5. /\ tree' = [p \in Packages |-> IF p \in gone THEN NoTree ELSE tree[p]]
      /\ product' = Without(product, InTreeOf(gone))
      /\ spoiled' = (spoiled \ ({Package} \ NoSources)) \cup lost /\ stamp' = stamp
  BY DEF CleanEnd
<1>3. ASSUME NEW i \in Items, i.tgt = "target", i.pkg \in gone \cap NoSources, stamp[i] # None
      PROVE  i.pkg \in lost
  BY <1>3 DEF InTreeOf
<1> HIDE DEF lost
<1> HIDE DEF gone
<1>6. /\ \A p \in Packages : tree'[p] = IF p \in gone THEN NoTree ELSE tree[p]
      /\ \A i \in Items : product'[i] = IF i.pkg \in gone /\ i.tgt = "target" THEN None
                                                                            ELSE product[i]
  BY <1>5 DEF Without, InTreeOf
<1>8. TreeInv'
  <2>1. ASSUME NEW p \in Packages
        PROVE  /\ tree'[p].content = None => tree'[p].stamp = None
               /\ p \notin spoiled' \cup NoSources /\ tree'[p].stamp \in Versions =>
                    tree'[p].content = tree'[p].stamp
    <3>1. CASE p \in gone
      BY <3>1, <1>6, ValuesAre, VersionsAre
    <3>2. CASE p \notin gone
      BY <3>2, <1>4, <1>5, <1>6 DEF StampInv, TreeInv
    <3> QED
      BY <3>1, <3>2
  <2>2. ASSUME NEW i \in Items, i.tgt = "target", product'[i] # None
        PROVE  tree'[i.pkg].content # None
    BY <2>2, <1>1, <1>6 DEF StampInv, TreeInv
  <2> QED
    BY <2>1, <2>2 DEF TreeInv
<1>9. MadeInv'
  <2>1. ASSUME NEW i \in Items, i.pkg \notin spoiled' \cup Virtual, stamp'[i] \in Versions,
               i.pkg \in NoSources \/ tree'[i.pkg].stamp = stamp'[i]
        PROVE  product'[i] = stamp'[i]
    <3>1. CASE i.pkg \notin gone
      BY <3>1, <2>1, <1>1, <1>4, <1>5, <1>6 DEF MadeInv, Vouched
    <3>2. CASE i.pkg \in gone
      <4>1. i.pkg \in NoSources
        BY <3>2, <2>1, <1>1, <1>5, <1>6, ValuesAre, VersionsAre
      <4>2. i.pkg \notin spoiled /\ stamp[i] \in Versions
        BY <4>1, <2>1, <1>5
      <4>3. product[i] = stamp[i]
        BY <4>1, <4>2, <2>1 DEF MadeInv, Vouched
      <4>4. i.tgt # "target"
        BY <4>1, <4>2, <3>2, <2>1, <1>3, <1>5, VersionsAre
      <4> QED
        BY <4>3, <4>4, <1>5, <1>6
    <3> QED
      BY <3>1, <3>2
  <2> QED
    BY <2>1 DEF MadeInv, Vouched
<1>10. TopInv'
  BY <1>1, <1>2, <1>4, <1>6 DEF TopInv, At
<1> QED
  BY <1>8, <1>9, <1>10 DEF FilesInv

LEMMA CleanUnstampKeeps ==
  ASSUME StampInv, MadeInv, CleanUnstamp
  PROVE  FilesInv'
<1> USE DEF CleanUnstamp
<1>1. /\ stack # <<>> /\ Package \in Packages /\ Top.script = "clean" /\ tree[Package] = NoTree
  BY FilesAre DEF StampInv, At, TopInv
<1>2. /\ \A i \in Items : stamp'[i] = IF i.pkg = Package THEN None ELSE stamp[i]
      /\ spoiled' = spoiled \ {Package} /\ tree' = tree /\ product' = product
  BY DEF Without, ItemsOf
<1>3. TreeInv'
  BY <1>1, <1>2, ValuesAre, VersionsAre DEF StampInv, TreeInv
<1>4. MadeInv'
  BY <1>2, VersionsAre DEF MadeInv, Vouched
<1>5. \/ stack' = <<>>
      \/ /\ stack' # <<>> /\ Top'.script = "unpack" /\ Top'.pc = "extract"
         /\ Top'.item = Top.item
  BY <1>1, ReturnTop DEF StampInv
<1>6. TopInv'
  BY <1>1, <1>2, <1>5, ValuesAre DEF TopInv, At, Package
<1> QED
  BY <1>3, <1>4, <1>6 DEF FilesInv

LEMMA LookKeeps ==
  ASSUME StampInv, MadeInv, Look
  PROVE  FilesInv'
<1>1. /\ At("unpack", "look") /\ stack # <<>> /\ Package \in Packages /\ Top.item \in Items
      /\ Top.script = "unpack"
  BY FilesAre DEF StampInv, At, Look
<1>2. tree' = tree /\ product' = product /\ stamp' = stamp /\ spoiled' = spoiled
  BY DEF Look, files, past
<1>3. TreeInv' /\ MadeInv'
  BY <1>2 DEF StampInv, TreeInv, MadeInv, Vouched
<1>4. CASE Return
  <2>1. Silent'
    BY <1>1, <1>4, ReturnTop DEF StampInv
  <2> QED
    BY <2>1, <1>3, SilentTop, PTL DEF FilesInv
<1>5. CASE Call(Clean(Top.item), Then("extract"))
  <2> DEFINE f == Then("extract")
             t == Clean(Top.item)
  <2>1. "extract" \in Steps[Top.script]
    BY <1>1, StepsAre
  <2>2. f \in Frames
    BY <2>1, <1>1, ThenIs DEF StampInv
  <2>3. stack' = Append(Front(stack), f) \o t
    BY <1>5 DEF Call
  <2>4. Calls(t, Top.item)
    BY DEF Calls
  <2> HIDE DEF f, t
  <2>5. Silent'
    BY <2>2, <2>3, <2>4, <1>1, CallTop DEF StampInv
  <2> QED
    BY <2>5, <1>3, SilentTop, PTL DEF FilesInv
<1>6. CASE ~KeepTree(Package) /\ ~Removable(Package) /\ Goto("extract")
  <2>1. tree[Package].stamp = None
    BY <1>1, <1>6 DEF KeepTree, Removable, StampInv, TreeInv
  <2>2. /\ Top'.script = "unpack" /\ Top'.pc = "extract" /\ Package' = Package
    BY <1>1, <1>6, StepsAre, GotoTop DEF StampInv
  <2>3. TopInv'
    BY <2>1, <2>2, <1>2 DEF TopInv, At
  <2> QED
    BY <2>3, <1>3 DEF FilesInv
<1> QED
  BY <1>4, <1>5, <1>6 DEF Look

LEMMA ExtractKeeps ==
  ASSUME StampInv, MadeInv, Extract \/ Patch
  PROVE  FilesInv'
<1> DEFINE c == IF Extract THEN Partial ELSE src[Package]
<1>1. /\ stack # <<>> /\ tree \in [Packages -> Trees] /\ \A i \in Items : i.pkg \in Packages
      /\ Package \in Packages /\ src \in [Packages -> Versions]
  BY FilesAre DEF StampInv, At, Extract, Patch
<1>2. /\ Top'.script = "unpack" /\ Top'.pc = IF Extract THEN "patch" ELSE "unstamp"
      /\ Package' = Package
  BY StepsAre, GotoTop DEF StampInv, Extract, Patch
<1>3. tree[Package].stamp = None
  BY DEF StampInv, TopInv, Extract, Patch
<1>4. /\ tree' = [tree EXCEPT ![Package].content = c]
      /\ src' = src /\ product' = product /\ stamp' = stamp /\ spoiled' = spoiled
  BY DEF Extract, Patch, past
<1>5. c # None
  BY <1>1, VersionsAre
<1>6. ~Extract => c = src[Package]
  OBVIOUS
<1> HIDE DEF c
<1>7. /\ tree'[Package].content = c /\ tree'[Package].stamp = None
      /\ \A p \in Packages : tree'[p].stamp = tree[p].stamp /\ (p # Package => tree'[p] = tree[p])
  BY <1>1, <1>3, <1>4 DEF Trees
<1>8. TreeInv'
  BY <1>1, <1>4, <1>5, <1>7, VersionsAre DEF StampInv, TreeInv
<1>9. MadeInv'
  BY <1>1, <1>4, <1>7 DEF MadeInv, Vouched
<1>10. TopInv'
  BY <1>2, <1>4, <1>5, <1>6, <1>7 DEF TopInv, At
<1> QED
  BY <1>8, <1>9, <1>10 DEF FilesInv

LEMMA UnpackUnstampKeeps ==
  ASSUME StampInv, MadeInv, UnpackUnstamp
  PROVE  FilesInv'
<1> USE DEF UnpackUnstamp
<1>1. Top'.script = "unpack" /\ Top'.pc = "stamp" /\ Package' = Package
  BY StepsAre, GotoTop DEF StampInv
<1>2. /\ \A i \in Items : stamp'[i] = IF i.pkg = Package THEN None ELSE stamp[i]
      /\ src' = src /\ spoiled' = spoiled /\ tree' = tree /\ product' = product
  BY DEF Without, ItemsOf, past
<1>3. TreeInv' /\ MadeInv'
  BY <1>2, VersionsAre DEF StampInv, TreeInv, MadeInv, Vouched
<1>4. TopInv'
  BY <1>1, <1>2 DEF StampInv, TopInv, At, ItemsOf
<1> QED
  BY <1>3, <1>4 DEF FilesInv

LEMMA UnpackStampKeeps ==
  ASSUME StampInv, MadeInv, UnpackStamp
  PROVE  FilesInv'
<1>1. /\ stack # <<>> /\ tree \in [Packages -> Trees] /\ \A i \in Items : i.pkg \in Packages
      /\ Package \in Packages
  BY FilesAre DEF StampInv, At, UnpackStamp
<1>2. /\ tree[Package].content # None /\ (Package \notin spoiled => tree[Package].content = src[Package])
      /\ \A i \in ItemsOf(Package) : stamp[i] = None
  BY DEF StampInv, TopInv, UnpackStamp
<1>3. /\ tree' = [tree EXCEPT ![Package].stamp = src[Package]]
      /\ product' = product /\ stamp' = stamp /\ spoiled' = spoiled
  BY DEF UnpackStamp, past
<1>4. /\ tree'[Package].content = tree[Package].content /\ tree'[Package].stamp = src[Package]
      /\ \A p \in Packages : p # Package => tree'[p] = tree[p]
  BY <1>1, <1>3 DEF Trees
<1>5. TreeInv'
  BY <1>1, <1>2, <1>3, <1>4 DEF StampInv, TreeInv
<1>6. MadeInv'
  BY <1>1, <1>2, <1>3, <1>4, VersionsAre DEF MadeInv, Vouched, ItemsOf
<1>7. Silent'
  BY SilentSteps DEF StampInv
<1> QED
  BY <1>5, <1>6, <1>7, SilentTop, PTL DEF FilesInv

\* The item that the running build is for has no stamp.
LEMMA WorkerHasNone ==
  ASSUME StampInv, stack # <<>>, Top.script = "build", Top.pc # "check"
  PROVE  stamp[Top.item] = None
<1>1. Len(stack) \in 1..Len(stack) /\ Top = stack[Len(stack)]
  BY TopType DEF StampInv, StackInv
<1> QED
  BY <1>1 DEF StampInv, NoneInv, Works

LEMMA CheckStampKeeps ==
  ASSUME StampInv, MadeInv, CheckStamp
  PROVE  FilesInv'
<1>1. /\ stamp \in [Items -> Stamps] /\ tree' = tree /\ product' = product
      /\ Top.item \in Items /\ Package = Top.item.pkg
  BY FilesAre DEF StampInv, CheckStamp, At, Package
<1>2. /\ \A i \in Items : stamp'[i] \in {stamp[i], None}
      /\ \A p \in Packages \ NoSources : p \in spoiled' <=> p \in spoiled
  BY <1>1 DEF CheckStamp, Rebuild
<1>3. ASSUME NEW i \in Items, i.pkg \notin spoiled', stamp'[i] \in Versions
      PROVE  i.pkg \notin spoiled
  <2>1. CASE Rebuild(Deps[Top.item])
    <3>1. i # Top.item
      BY <2>1, <1>1, <1>3, VersionsAre DEF Rebuild
    <3> QED
      BY <3>1, <2>1, <1>3 DEF Rebuild, ItemsOf
  <2>2. CASE spoiled' = spoiled
    BY <2>2, <1>3
  <2> QED
    BY <2>1, <2>2 DEF CheckStamp
<1>4. TreeInv'
  BY <1>1, <1>2 DEF StampInv, TreeInv
<1>5. MadeInv'
  BY <1>1, <1>2, <1>3, VersionsAre DEF MadeInv, Vouched
<1>6. Silent'
  BY SilentSteps DEF StampInv
<1> QED
  BY <1>4, <1>5, <1>6, SilentTop, PTL DEF FilesInv

LEMMA CompileKeeps ==
  ASSUME StampInv, MadeInv, Compile
  PROVE  FilesInv'
<1>1. /\ stack # <<>> /\ tree \in [Packages -> Trees] /\ product \in [Items -> Things]
      /\ \A i \in Items : i.pkg \in Packages
      /\ Package \in Packages /\ Top.item \in Items /\ Package = Top.item.pkg
      /\ At("build", "deps") /\ Top.script = "build" /\ Top.pc = "deps"
  BY FilesAre DEF StampInv, At, Compile, DepsBuilt, Package
<1>2. Top'.script = "build" /\ Top'.pc = "make" /\ Package' = Package
  BY <1>1, StepsAre, GotoTop DEF StampInv, Compile
<1>3. stamp[Top.item] = None
  BY <1>1, WorkerHasNone
<1>4. /\ product' = [product EXCEPT ![Top.item] = Partial] /\ stamp' = stamp
      /\ tree' = [tree EXCEPT ![Package].content = IF @ = None THEN Partial ELSE @]
      /\ spoiled' = spoiled
  BY DEF Compile, past
<1>5. /\ \A p \in Packages :
           /\ p # Package => tree'[p] = tree[p]
           /\ tree'[p].stamp = tree[p].stamp
           /\ tree[p].content # None => tree'[p].content = tree[p].content
      /\ tree'[Package].content # None
  BY <1>1, <1>4, VersionsAre DEF Trees
<1>6. \A i \in Items : i # Top.item => product'[i] = product[i]
  BY <1>1, <1>4
<1>7. TreeInv'
  <2>1. ASSUME NEW p \in Packages
        PROVE  /\ tree'[p].content = None => tree'[p].stamp = None
               /\ p \notin spoiled' \cup NoSources /\ tree'[p].stamp \in Versions =>
                    tree'[p].content = tree'[p].stamp
    <3>1. tree[p].stamp # None => tree[p].content # None
      BY DEF StampInv, TreeInv
    <3>2. tree'[p].content = None => tree[p].stamp = None
      BY <3>1, <1>5
    <3>3. ASSUME p \notin spoiled' \cup NoSources, tree'[p].stamp \in Versions
          PROVE  tree'[p].content = tree'[p].stamp
      <4>1. tree[p].content = tree[p].stamp /\ tree[p].content # None
        BY <3>1, <3>3, <1>4, <1>5, VersionsAre DEF StampInv, TreeInv
      <4> QED
        BY <4>1, <1>5
    <3> QED
      BY <3>2, <3>3, <1>5
  <2>2. ASSUME NEW i \in Items, i.tgt = "target", product'[i] # None
        PROVE  tree'[i.pkg].content # None
    BY <2>2, <1>1, <1>5, <1>6 DEF StampInv, TreeInv
  <2> QED
    BY <2>1, <2>2 DEF TreeInv
<1>8. MadeInv'
  BY <1>1, <1>3, <1>4, <1>5, <1>6, VersionsAre DEF MadeInv, Vouched
<1>9. TopInv'
  BY <1>2, <1>5 DEF TopInv, At
<1> QED
  BY <1>7, <1>8, <1>9 DEF FilesInv

LEMMA MakeKeeps ==
  ASSUME StampInv, MadeInv, Make
  PROVE  FilesInv'
<1>1. /\ stack # <<>> /\ tree \in [Packages -> Trees] /\ product \in [Items -> Things]
      /\ \A i \in Items : i.pkg \in Packages
      /\ Package \in Packages /\ Top.item \in Items /\ Package = Top.item.pkg
      /\ At("build", "make") /\ Top.script = "build" /\ Top.pc = "make"
  BY FilesAre DEF StampInv, At, Make, Package
<1>2. Top'.script = "build" /\ Top'.pc = "stamp" /\ Package' = Package /\ Top'.item = Top.item
  <2>1. Goto("stamp") /\ "stamp" \in Steps["build"] /\ StackInv
    BY StepsAre DEF StampInv, Make
  <2> QED
    BY <1>1, <2>1, GotoTop
<1>3. stamp[Top.item] = None
  BY <1>1, WorkerHasNone
<1>4. tree[Package].content # None
  BY <1>1 DEF StampInv, TopInv
<1>5. /\ src' = src /\ stamp' = stamp /\ tree' = tree /\ spoiled \subseteq spoiled'
      /\ \A i \in Items : i # Top.item => product'[i] = product[i]
      /\ product'[Top.item] \in {Partial, src[Package]} /\ src[Package] \in Versions
  BY <1>1, FilesAre DEF Make, StampInv
<1>6. TreeInv'
  BY <1>1, <1>4, <1>5, VersionsAre DEF StampInv, TreeInv
<1>7. MadeInv'
  BY <1>3, <1>5, VersionsAre DEF MadeInv, Vouched
<1>8. ASSUME Package \notin spoiled'
      PROVE  /\ product'[Top.item] = src[Package]
             /\ Package \notin NoSources /\ tree[Package].stamp \in Versions =>
                  tree[Package].stamp = src[Package]
  <2>1. Ingredients = {src[Package]} /\ Package \notin spoiled
    BY <1>8 DEF Make
  <2>2. Package \notin NoSources => tree[Package].content = src[Package]
    BY <2>1 DEF Ingredients
  <2>3. product'[Top.item] = src[Package]
    BY <2>1, <1>1 DEF Make
  <2> QED
    BY <2>1, <2>2, <2>3, <1>1 DEF StampInv, TreeInv
<1>9. TopInv'
  BY <1>2, <1>5, <1>8 DEF TopInv, At
<1> QED
  BY <1>6, <1>7, <1>9 DEF FilesInv

LEMMA BuildStampKeeps ==
  ASSUME StampInv, MadeInv, BuildStamp
  PROVE  FilesInv'
<1>1. /\ stack # <<>> /\ stamp \in [Items -> Stamps] /\ src \in [Packages -> Versions]
      /\ Package \in Packages /\ Top.item \in Items /\ Package = Top.item.pkg
  BY FilesAre DEF StampInv, At, BuildStamp, DepsBuilt, Package
<1>2. At("build", "stamp") \/ Package \in Virtual
  BY DEF BuildStamp
<1>3. /\ tree' = tree /\ product' = product /\ spoiled' = spoiled
      /\ \A i \in Items : stamp'[i] = IF i = Top.item THEN src[Package] ELSE stamp[i]
  BY <1>1 DEF BuildStamp, past
<1>4. TreeInv'
  BY <1>3 DEF StampInv, TreeInv
<1>5. ASSUME Package \notin spoiled \cup Virtual,
             Package \in NoSources \/ tree[Package].stamp = src[Package]
      PROVE  product[Top.item] = src[Package]
  <2>1. src[Package] \in Versions
    BY <1>1
  <2> QED
    BY <2>1, <1>2, <1>5 DEF StampInv, TopInv
<1>6. MadeInv'
  BY <1>1, <1>3, <1>5 DEF MadeInv, Vouched
<1>7. Silent'
  BY SilentSteps DEF StampInv
<1> QED
  BY <1>4, <1>6, <1>7, SilentTop, PTL DEF FilesInv

\* What the developer does by hand, and what an abort leaves.
LEMMA UninstallStarts ==
  ASSUME StampInv, MadeInv, UserUninstall
  PROVE  FilesInv'
<1>1. /\ tree' = tree /\ product' = product /\ stamp' = stamp /\ spoiled' = spoiled
      /\ \A i \in Items : i.pkg \in Packages
  BY FilesAre DEF UserUninstall, Command, Forget, files, StampInv
<1>2. PICK i \in Items : Uninstallable(i) /\ stack' = Uninstall(i)
  BY DEF UserUninstall, Command
<1>3. stack' # <<>> /\ Top' = Frame("uninstall", i, "remove")
  BY <1>2 DEF Uninstall, Top, Last
<1>4. Top'.script = "uninstall" /\ Top'.pc = "remove" /\ Package' = i.pkg
  BY <1>3 DEF Frame, Package
<1>5. TopInv'
  BY <1>1, <1>2, <1>4 DEF TopInv, At, Uninstallable
<1>6. TreeInv' /\ MadeInv'
  BY <1>1 DEF StampInv, TreeInv, MadeInv, Vouched
<1> QED
  BY <1>5, <1>6 DEF FilesInv

\* The product goes, and until the stamp goes too it tells of what is not there.
LEMMA UninstallRemoveKeeps ==
  ASSUME StampInv, MadeInv, UninstallRemove
  PROVE  TreeInv' /\ VersionInv' /\ TopInv'
<1>1. /\ stack # <<>> /\ product \in [Items -> Things] /\ \A i \in Items : i.pkg \in Packages
      /\ Top.item \in Items /\ Package = Top.item.pkg
  BY FilesAre DEF StampInv, At, UninstallRemove, Package
<1>2. /\ stack' # <<>> /\ Top'.script = "uninstall" /\ Top'.pc = "unstamp"
      /\ Top'.item = Top.item
  BY StepsAre, GotoTop DEF StampInv, UninstallRemove
<1>3. /\ tree' = tree /\ stamp' = stamp /\ spoiled' = spoiled
      /\ \A i \in Items : i # Top.item => product'[i] = product[i]
      /\ Package \in Virtual => product' = product
  BY <1>1 DEF UninstallRemove, past
<1>4. Package \in Virtual \/ tree[Package].content # None
  BY DEF StampInv, TopInv, UninstallRemove
<1>5. TreeInv'
  BY <1>1, <1>3, <1>4 DEF StampInv, TreeInv
<1>6. VersionInv'
  <2>1. Uninstalling(Top.item)'
    BY <1>2 DEF Uninstalling, At
  <2>2. ASSUME NEW i \in Items, i # Top.item PROVE Vouched(i)'
    BY <2>2, <1>3 DEF MadeInv, Vouched
  <2>3. ASSUME NEW i \in Items, i = Top.item PROVE Uninstalling(i)'
    BY <2>3, <1>2 DEF Uninstalling, At
  <2> QED
    BY <2>2, <2>3 DEF VersionInv
<1>7. Silent'
  BY SilentSteps DEF StampInv
<1> QED
  BY <1>5, <1>6, <1>7, SilentTop, PTL

LEMMA UninstallUnstampKeeps ==
  ASSUME StampInv, UninstallUnstamp
  PROVE  FilesInv'
<1>1. /\ stamp \in [Items -> Stamps] /\ tree' = tree /\ product' = product
      /\ spoiled' = spoiled
  BY FilesAre DEF StampInv, UninstallUnstamp, past
<1>2. \A i \in Items : stamp'[i] = IF i = Top.item THEN None ELSE stamp[i]
  BY <1>1 DEF UninstallUnstamp
<1>3. ASSUME NEW i \in Items, i # Top.item PROVE Vouched(i)
  BY <1>3 DEF StampInv, VersionInv, Uninstalling
<1>4. MadeInv'
  BY <1>1, <1>2, <1>3, VersionsAre DEF MadeInv, Vouched
<1>5. TreeInv'
  BY <1>1 DEF StampInv, TreeInv
<1>6. Silent'
  BY SilentSteps DEF StampInv
<1> QED
  BY <1>4, <1>5, <1>6, SilentTop, PTL DEF FilesInv

LEMMA SkipUnpackKeeps ==
  ASSUME StampInv, MadeInv, UserSkipUnpack
  PROVE  FilesInv'
<1>1. /\ tree \in [Packages -> Trees] /\ \A i \in Items : i.pkg \in Packages
      /\ product' = product /\ stamp' = stamp
  BY FilesAre DEF StampInv, UserSkipUnpack
<1>2. PICK p \in Packages : /\ tree[p].stamp # None /\ spoiled' = spoiled \cup {p}
                           /\ tree' = [tree EXCEPT ![p].stamp = src[p]]
  BY DEF UserSkipUnpack
<1>3. /\ tree'[p].content = tree[p].content
      /\ \A q \in Packages : q # p => tree'[q] = tree[q]
  BY <1>1, <1>2 DEF Trees
<1>4. TreeInv'
  BY <1>1, <1>2, <1>3 DEF StampInv, TreeInv
<1>5. MadeInv'
  BY <1>1, <1>2, <1>3 DEF MadeInv, Vouched
<1>6. Silent'
  BY SilentSteps DEF StampInv
<1> QED
  BY <1>4, <1>5, <1>6, SilentTop, PTL DEF FilesInv

LEMMA EditKeeps ==
  ASSUME StampInv, Edit
  PROVE  TreeInv' /\ VersionInv' /\ TopInv'
<1>1. /\ src \in [Packages -> Versions]
      /\ tree' = tree /\ product' = product /\ stamp' = stamp /\ stack' = stack
  BY FilesAre DEF StampInv, Edit, files
<1>2. PICK p \in Packages, v \in Versions :
        /\ src' = [src EXCEPT ![p] = v]
        /\ spoiled' = IF InWindow(p) THEN spoiled \cup {p} ELSE spoiled
  BY DEF Edit
<1>3. spoiled \subseteq spoiled' /\ (InWindow(p) => p \in spoiled')
  BY <1>2
<1>4. TreeInv' /\ VersionInv'
  <2>1. \A i \in Items : Uninstalling(i)' <=> Uninstalling(i)
    BY <1>1 DEF Uninstalling, At, Top, Last
  <2> QED
    BY <2>1, <1>1, <1>3 DEF StampInv, TreeInv, VersionInv, Vouched
<1>5. ASSUME stack # <<>>, Package \notin spoiled',
             Top.script = "unpack" \/ (Top.script = "build" /\ Package \in NoSources)
      PROVE  src'[Package] = src[Package]
  <2>1. /\ Len(stack) \in DOMAIN stack /\ Top = stack[Len(stack)] /\ Package \in Packages
        /\ Package = Top.item.pkg
    BY <1>5, TopType, FilesAre DEF StampInv, StackInv, Package
  <2>2. Package # p
    BY <2>1, <1>3, <1>5 DEF InWindow
  <2> QED
    BY <2>1, <2>2, <1>1, <1>2
<1>6. Top' = Top /\ Package' = Package /\ (stack' # <<>> <=> stack # <<>>)
  BY <1>1 DEF Top, Last, Package
<1>7. TopInv'
  <2>1. TopInv /\ \A script, pc : At(script, pc)' <=> At(script, pc)
    BY <1>6 DEF StampInv, At
  <2>2. /\ At("clean", "removing") => Package \in spoiled' \/ tree[Package].content = None
        /\ At("clean", "unstamp") => tree[Package] = NoTree
        /\ \A pc \in {"extract", "patch", "unstamp", "stamp"} :
             At("unpack", pc) => tree[Package].stamp = None
        /\ \A pc \in {"patch", "unstamp", "stamp"} :
             At("unpack", pc) => tree[Package].content # None
        /\ At("unpack", "stamp") => \A i \in ItemsOf(Package) : stamp[i] = None
        /\ At("uninstall", "remove") => Package \in Virtual \/ tree[Package].content # None
        /\ At("build", "make") => tree[Package].content # None
    BY <2>1, <1>3 DEF TopInv
  <2>3. ASSUME NEW pc \in {"unstamp", "stamp"}, At("unpack", pc), Package \notin spoiled'
        PROVE  tree[Package].content = src'[Package]
    <3>1. src'[Package] = src[Package] /\ Package \notin spoiled
      <4>1. stack # <<>> /\ Top.script = "unpack"
        BY <2>3 DEF At
      <4>2. src'[Package] = src[Package]
        BY <4>1, <2>3, <1>5
      <4> QED
        BY <4>2, <2>3, <1>3
    <3> QED
      BY <3>1, <2>1, <2>3 DEF TopInv
  <2>4. ASSUME At("build", "stamp"), Package \notin spoiled' \cup Virtual
        PROVE  IF Package \in NoSources THEN product[Top.item] = src'[Package]
               ELSE tree[Package].stamp \in Versions => product[Top.item] = tree[Package].stamp
    <3>1. Package \notin spoiled /\ (Package \in NoSources => src'[Package] = src[Package])
      BY <2>4, <1>3, <1>5 DEF At
    <3> QED
      BY <3>1, <2>1, <2>4 DEF TopInv
  <2> QED
    BY <2>1, <2>2, <2>3, <2>4, <1>1, <1>6 DEF TopInv, ItemsOf
<1> QED
  BY <1>4, <1>7

\* The stamp that was being written matches nothing.
LEMMA AbortKeeps ==
  ASSUME StampInv, Abort
  PROVE  FilesInv'
<1>1. /\ tree \in [Packages -> Trees] /\ stamp \in [Items -> Stamps]
      /\ product' = product /\ spoiled \subseteq spoiled'
      /\ \A i \in Items : i.pkg \in Packages
      /\ stack # <<>> => Package \in Packages /\ Top.item \in Items
  BY FilesAre DEF StampInv, Abort
<1>2. \A i \in Items : stamp'[i] \in {stamp[i], None, Half}
  BY <1>1 DEF Abort
<1>3. \A p \in Packages :
        /\ tree'[p].content = tree[p].content
        /\ tree'[p].stamp \in {tree[p].stamp, None, Half}
        /\ tree'[p].stamp = tree[p].stamp \/ tree[p].content # None
  <2>1. CASE At("unpack", "stamp")
    <3>1. tree[Package].content # None /\ Package \in Packages
      BY <2>1, <1>1 DEF StampInv, TopInv, At
    <3>2. PICK s \in {None, Half} : tree' = [tree EXCEPT ![Package].stamp = s]
      BY <2>1 DEF Abort
    <3> QED
      BY <3>1, <3>2, <1>1 DEF Trees
  <2>2. CASE ~At("unpack", "stamp")
    BY <2>2 DEF Abort
  <2> QED
    BY <2>1, <2>2
<1>4. TreeInv'
  BY <1>1, <1>3, VersionsAre DEF StampInv, TreeInv
<1>5. MadeInv'
  <2>1. ASSUME NEW i \in Items, i.pkg \notin spoiled' PROVE Vouched(i)
    <3>1. ~Uninstalling(i)
      BY <2>1 DEF Abort, Uninstalling, Package
    <3> QED
      BY <3>1 DEF StampInv, VersionInv
  <2> QED
    BY <2>1, <1>1, <1>2, <1>3, VersionsAre DEF MadeInv, Vouched
<1>6. Silent'
  BY SilentSteps DEF StampInv
<1> QED
  BY <1>4, <1>5, <1>6, SilentTop, PTL DEF FilesInv

LEMMA StampInit == Init => StampInv
<1> SUFFICES ASSUME Init PROVE StampInv
  OBVIOUS
<1>1. stack = <<>> /\ Len(stack) = 0
  BY DEF Init
<1>2. NoneInv /\ TopInv
  BY <1>1 DEF NoneInv, TopInv, At
<1>3. /\ \A p \in Packages : tree[p].stamp = None /\ tree[p].content = None
      /\ \A i \in Items : product[i] = None /\ stamp[i] = None
  BY ValuesAre DEF Init
<1>4. TreeInv /\ VersionInv
  BY <1>3, VersionsAre DEF TreeInv, VersionInv, Vouched
<1> QED
  BY <1>2, <1>4, StackInit DEF StampInv

\* No other step begins between the two of an uninstall.
LEMMA NoneUninstalled ==
  ASSUME StampInv, Next, ~UninstallUnstamp, ~Edit, ~Abort
  PROVE  MadeInv
<1>1. ~At("uninstall", "unstamp")
  <2>1. CASE \/ Look \/ Extract \/ Patch \/ UnpackUnstamp \/ UnpackStamp
             \/ CleanStart \/ CleanEnd \/ CleanUnstamp
    BY <2>1 DEF CleanStart, CleanEnd, CleanUnstamp, Look, Extract, Patch, UnpackUnstamp,
      UnpackStamp, At
  <2>2. CASE \/ CheckStamp \/ BuildDeps \/ Compile \/ Make \/ BuildStamp
             \/ InstallCheck \/ InstallDeps \/ CopyProduct \/ TouchStamp \/ UninstallRemove
    BY <2>2 DEF CheckStamp, BuildDeps, Compile, Make, BuildStamp, DepsBuilt,
      InstallCheck, InstallDeps, CopyProduct, TouchStamp, UninstallRemove, At
  <2>3. CASE \/ BuildTool \/ Wipe \/ InstallRoot \/ Finish \/ StartImage \/ UserBuild
             \/ UserClean \/ UserUninstall \/ UserSkipUnpack
    BY <2>3 DEF BuildTool, Wipe, InstallRoot, Finish, Packing, StartImage, UserBuild, UserClean,
      UserUninstall, UserSkipUnpack, Command, Idle, At
  <2> QED
    BY <2>1, <2>2, <2>3 DEF Next, Script, Uninstaller, Developer
<1> QED
  BY <1>1 DEF StampInv, VersionInv, MadeInv, Uninstalling

LEMMA MadeIsVersion == MadeInv => VersionInv
BY DEF MadeInv, VersionInv

LEMMA StampKept == StampInv /\ [Next]_vars => StampInv'
<1> SUFFICES ASSUME StampInv, [Next]_vars PROVE StampInv'
  OBVIOUS
<1>1. StackInv'
  BY StackKept DEF StampInv
<1>2. CASE Next
  <2>1. NoneInv'
    BY <1>2, NoneKept DEF StampInv
  <2>2. TreeInv' /\ VersionInv' /\ TopInv'
    <3>1. FilesInv' => TreeInv' /\ VersionInv' /\ TopInv'
      BY MadeIsVersion, PTL DEF FilesInv
    <3>2. CASE UninstallUnstamp \/ Edit \/ Abort
      BY <3>1, <3>2, UninstallUnstampKeeps, EditKeeps, AbortKeeps
    <3>3. CASE ~UninstallUnstamp /\ ~Edit /\ ~Abort
      <4>1. MadeInv
        BY <3>3, <1>2, NoneUninstalled
      <4>2. CASE UninstallRemove
        BY <4>1, <4>2, UninstallRemoveKeeps
      <4>3. CASE ~UninstallRemove
        BY <4>1, <4>3, <3>1, <3>3, <1>2, IdleSteps, CleanStartKeeps, CleanEndKeeps,
          CleanUnstampKeeps, LookKeeps, ExtractKeeps, UnpackUnstampKeeps, UnpackStampKeeps,
          CheckStampKeeps, CompileKeeps, MakeKeeps, BuildStampKeeps, UninstallStarts,
          SkipUnpackKeeps DEF Next, Script, Uninstaller, Developer
      <4> QED
        BY <4>2, <4>3
    <3> QED
      BY <3>2, <3>3
  <2> QED
    BY <1>1, <2>1, <2>2 DEF StampInv
<1>3. CASE UNCHANGED vars
  <2>1. /\ src' = src /\ tree' = tree /\ product' = product /\ stamp' = stamp /\ stack' = stack
        /\ spoiled' = spoiled
    BY <1>3 DEF vars, files, past
  <2>2. Top' = Top /\ Package' = Package /\ \A script, pc : At(script, pc)' <=> At(script, pc)
    BY <2>1 DEF Top, Last, Package, At
  <2>3. NoneInv' /\ TreeInv' /\ VersionInv'
    BY <2>1, <2>2 DEF StampInv, NoneInv, Works, TreeInv, VersionInv, Vouched, Uninstalling
  <2>4. TopInv'
    BY <2>1, <2>2 DEF StampInv, TopInv, ItemsOf
  <2> QED
    BY <1>1, <2>3, <2>4 DEF StampInv
<1> QED
  BY <1>2, <1>3

\* What the unpack stamp and the build stamp call up to date is made of the
\* current version (scripts/unpack:42-56,174-181, scripts/build:49-62,349-354,
\* scripts/uninstall:92-109, scripts/clean:38-45): whatever the order of edits, builds,
\* cleans, uninstalls and aborts, no stamp vouches for what was not built, unless one of
\* the six things happened that leave a package spoiled, and nothing has repaired it.
THEOREM StampsTellTruth == Spec => []StampsTruthful
<1>1. StampInv => StampsTruthful
  <2> SUFFICES ASSUME StampInv, NEW i \in Items,
                      i.pkg \notin spoiled \cup Virtual, stamp[i] = src[i.pkg],
                      ~Uninstalling(i),
                      i.pkg \in NoSources \/ tree[i.pkg].stamp = src[i.pkg]
               PROVE  product[i] = src[i.pkg]
    BY DEF StampsTruthful
  <2>1. src[i.pkg] \in Versions
    BY FilesAre DEF StampInv
  <2> QED
    BY <2>1 DEF StampInv, VersionInv, Vouched
<1> QED
  BY <1>1, StampInit, StampKept, PTL DEF Spec

=============================================================================
