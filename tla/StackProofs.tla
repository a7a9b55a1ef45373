----------------------------- MODULE StackProofs -----------------------------
(***************************************************************************)
(* Theorems about module Stack, checked by TLAPS for every number of       *)
(* processes, every request, layer and hook, and every tree.  What a call  *)
(* makes of a tree is the subject of module TreeProofs.                    *)
(***************************************************************************)
EXTENDS TreeProofs

-----------------------------------------------------------------------------
(***************************************************************************)
(* What the variables may hold, and where a run can be.                    *)
(***************************************************************************)
Asked(r) ==
  /\ r.format \in {"dir", "tar", "qcow2"}
  /\ AreManifests(r.manifests) /\ AreManifests(r.base)

IsTarget(o) ==
  \/ o \in {Nothing, Torn}
  \/ o.kind = "dir" /\ o = TreeOut(o.tree)
  \/ o.kind = "file" /\ o = FileOut(o.parts, o.open)

Shape ==
  /\ \A p \in Proc : Asked(req[p])
  /\ at \in [Proc -> Phases \cup Ends]
  /\ dirs \in [Proc -> SUBSET {"user", "base"}]
  /\ stuck \in [Proc -> SUBSET {"user", "base"}]
  /\ tree = [p \in Proc |-> tree[p]]
  /\ todo = [p \in Proc |-> todo[p]]
  /\ ops = [p \in Proc |-> ops[p]]
  /\ IsTarget(out) /\ IsTarget(tmp) /\ tmp.kind \in {"nothing", "file"}

Where ==
  \A p \in Proc :
    /\ at[p] = "mask" => req[p].format = "dir" /\ dirs[p] = {}
    /\ at[p] \in {"stage", "options"} => dirs[p] = {"user"}
    /\ at[p] \in {"clear", "clearing"} => req[p].force
    /\ at[p] = "clearing" => req[p].format = "dir"
    /\ at[p] \in {"write", "writing"} => req[p].format # "dir"
    /\ at[p] \in {"base", "merge"} => req[p].format = "qcow2"

Does(p) == Proceed(p) \/ Fail(p) \/ Crash(p)

\* A step is one run's: what the others have at hand stays as it is.
Only(p) ==
  /\ req' = req
  /\ at' \in [Proc -> Phases \cup Ends] /\ \A q \in Proc \ {p} : at'[q] = at[q]
  /\ dirs' \in [Proc -> SUBSET {"user", "base"}] /\ \A q \in Proc \ {p} : dirs'[q] = dirs[q]
  /\ stuck' \in [Proc -> SUBSET {"user", "base"}] /\ \A q \in Proc \ {p} : stuck'[q] = stuck[q]
  /\ tree' = [q \in Proc |-> tree'[q]] /\ \A q \in Proc \ {p} : tree'[q] = tree[q]
  /\ todo' = [q \in Proc |-> todo'[q]] /\ \A q \in Proc \ {p} : todo'[q] = todo[q]
  /\ ops' = [q \in Proc |-> ops'[q]] /\ \A q \in Proc \ {p} : ops'[q] = ops[q]

LEMMA GotoOnly ==
  ASSUME Shape, NEW p \in Proc, NEW s \in Phases \cup Ends, Goto(p, s)
  PROVE  at' \in [Proc -> Phases \cup Ends] /\ at'[p] = s /\ \A q \in Proc \ {p} : at'[q] = at[q]
BY DEF Shape, Goto

\* What cannot be removed stays, and is known not to have been removed.
LEMMA RemovesOnly ==
  ASSUME Shape, NEW p \in Proc, NEW ds \in SUBSET {"user", "base"},
         NEW rest \in SUBSET {"user", "base"}, Removes(p, ds, rest)
  PROVE  /\ {dirs', stuck'} \subseteq [Proc -> SUBSET {"user", "base"}]
         /\ \A q \in Proc \ {p} : dirs'[q] = dirs[q] /\ stuck'[q] = stuck[q]
         /\ dirs'[p] = rest \cup stuck'[p]
<1>1. PICK t \in SUBSET {"user", "base"} :
        /\ dirs' = [dirs EXCEPT ![p] = rest \cup t]
        /\ stuck' = [stuck EXCEPT ![p] = t]
  BY DEF Removes
<1>2. rest \cup t \in SUBSET {"user", "base"}
  OBVIOUS
<1> QED
  BY <1>1, <1>2 DEF Shape

LEMMA GiveUpOnly ==
  ASSUME Shape, NEW p \in Proc, GiveUp(p), req' = req
  PROVE  Only(p) /\ at'[p] = "failed" /\ dirs'[p] = stuck'[p] /\ UNCHANGED own
<1>1. at' \in [Proc -> Phases \cup Ends] /\ at'[p] = "failed" /\ \A q \in Proc \ {p} : at'[q] = at[q]
  BY GotoOnly DEF GiveUp, Ends
<1>2. /\ {dirs', stuck'} \subseteq [Proc -> SUBSET {"user", "base"}]
      /\ \A q \in Proc \ {p} : dirs'[q] = dirs[q] /\ stuck'[q] = stuck[q]
      /\ dirs'[p] = stuck'[p]
  <2> DEFINE ds == dirs[p] \cup (IF at[p] = "base" THEN {"base"} ELSE {})
  <2>1. Removes(p, ds, {})
    BY DEF GiveUp
  <2>2. ds \in SUBSET {"user", "base"}
    BY DEF Shape
  <2> HIDE DEF ds
  <2>3. /\ {dirs', stuck'} \subseteq [Proc -> SUBSET {"user", "base"}]
        /\ \A q \in Proc \ {p} : dirs'[q] = dirs[q] /\ stuck'[q] = stuck[q]
        /\ dirs'[p] = {} \cup stuck'[p]
    BY <2>1, <2>2, RemovesOnly, Zenon
  <2> QED
    BY <2>3
<1>3. UNCHANGED own
  BY DEF GiveUp
<1> QED
  BY <1>1, <1>2, <1>3 DEF Shape, Only, own

LEMMA AfterCheckIs ==
  ASSUME NEW r, Asked(r)
  PROVE  /\ AfterCheck(r) \in {"create", "commit", "write", "merge"}
         /\ AfterCheck(r) = "write" => r.format = "tar"
         /\ AfterCheck(r) = "merge" => r.format = "qcow2"
         /\ r.format = "dir" => AfterCheck(r) = IF Fast(r) THEN "create" ELSE "commit"
BY DEF AfterCheck, Asked, Fast

LEMMA Others ==
  ASSUME Shape, NEW p \in Proc, Does(p)
  PROVE  Only(p)
<1>0. AfterCheck(req[p]) \in Phases
  BY AfterCheckIs DEF Shape, Phases
<1>1. CASE GiveUp(p) /\ req' = req
  BY <1>1, GiveUpOnly
<1>2. ASSUME NEW s \in Phases \cup Ends, Goto(p, s), req' = req, UNCHANGED <<own, staging>>
      PROVE  Only(p)
  BY <1>2, GotoOnly DEF Shape, Only, own, staging
<1>3. CASE CheckTarget(p)
  BY <1>0, <1>1, <1>2, <1>3 DEF CheckTarget, Phases
<1>4. CASE ClearTarget(p)
  BY <1>0, <1>1, <1>2, <1>4 DEF ClearTarget, Phases
<1>5. CASE FinishClear(p)
  BY <1>0, <1>1, <1>2, <1>5 DEF FinishClear
<1>6. CASE CreateStaging(p)
  BY <1>6, GotoOnly DEF CreateStaging, Shape, Only, own, Phases
<1>7. CASE StageLayer(p) \/ StageHook(p)
  <2>1. CASE UNCHANGED <<req, at, staging>>
    BY <1>7, <2>1, GiveUpOnly DEF StageLayer, StageHook, Shape, Only, own, staging
  <2> QED
    BY <1>1, <1>7, <2>1 DEF StageLayer, StageHook
<1>8. CASE StageEnd(p) \/ BuildOptions(p)
  BY <1>2, <1>8 DEF StageEnd, BuildOptions, Phases, Ends
<1>9. CASE StageBase(p)
  <2>1. CASE Goto(p, "check") /\ dirs' = [dirs EXCEPT ![p] = {"user", "base"}] /\ UNCHANGED <<req, own, stuck>>
    BY <2>1, GotoOnly DEF Shape, Only, own, Phases
  <2> QED
    BY <1>1, <1>9, <2>1 DEF StageBase
<1>10. CASE MergeBase(p)
  <2> DEFINE merged == Merge(BaseTree(req[p]).tree, tree[p])
  <2> HIDE DEF merged
  <2>1. CASE Goto(p, "write") /\ tree' = [tree EXCEPT ![p] = merged.tree] /\ UNCHANGED <<req, todo, ops, staging>>
    BY <2>1, GotoOnly DEF Shape, Only, own, staging, Phases
  <2> QED
    BY <1>1, <1>10, <2>1 DEF MergeBase, merged
<1>11. CASE CreateTmp(p)
  BY <1>2, <1>11 DEF CreateTmp, Phases
<1>12. CASE WriteTmp(p)
  BY <1>1, <1>2, <1>12 DEF WriteTmp, Phases
<1>13. CASE CommitDir(p)
  <2>1. CASE /\ dirs' = [dirs EXCEPT ![p] = {}] /\ UNCHANGED <<req, own, stuck>>
             /\ Goto(p, IF Fast(req[p]) THEN "done" ELSE "mask")
    BY <2>1, GotoOnly DEF Shape, Only, own, Phases, Ends
  <2> QED
    BY <1>1, <1>13, <2>1 DEF CommitDir
<1>14. CASE MaskTarget(p)
  BY <1>1, <1>2, <1>14 DEF MaskTarget, Ends
<1>15. CASE CommitFile(p)
  <2>0. req' = req
    BY <1>15 DEF CommitFile
  <2>1. CASE TarEnds(p)
    BY <2>0, <2>1, GotoOnly DEF TarEnds, Shape, Only, own, Ends
  <2>2. CASE ImageEnds(p)
    <3>1. Goto(p, "done") /\ Removes(p, {"base"}, {"user"}) /\ UNCHANGED own
      BY <2>2 DEF ImageEnds
    <3>2. /\ {dirs', stuck'} \subseteq [Proc -> SUBSET {"user", "base"}]
          /\ \A q \in Proc \ {p} : dirs'[q] = dirs[q] /\ stuck'[q] = stuck[q]
      BY <3>1, RemovesOnly
    <3> QED
      BY <2>0, <3>1, <3>2, GotoOnly DEF Shape, Only, own, Ends
  <2>3. CASE Die(p)
    BY <1>2, <2>0, <2>3 DEF Die, Ends
  <2> QED
    BY <1>1, <1>15, <2>0, <2>1, <2>2, <2>3 DEF CommitFile
<1>16. CASE Fail(p)
  BY <1>1, <1>16 DEF Fail
<1>17. CASE Crash(p)
  BY <1>2, <1>17 DEF Crash, Die, Ends
<1> QED
  BY <1>3, <1>4, <1>5, <1>6, <1>7, <1>8, <1>9, <1>10, <1>11, <1>12, <1>13, <1>14, <1>15,
     <1>16, <1>17 DEF Does, Proceed

LEMMA TargetsAre ==
  /\ \A t : IsTarget(TreeOut(t))
  /\ \A a, b : IsTarget(FileOut(a, b)) /\ FileOut(a, b).kind = "file"
  /\ \A o, p : IsTarget(o) => IsTarget(Closed(o, p)) /\ Closed(o, p).kind = o.kind
  /\ \A o, p : IsTarget(o) /\ o.kind # "file" => Closed(o, p) = o
  /\ Nothing.kind = "nothing" /\ Torn.kind = "torn" /\ \A t : TreeOut(t).kind = "dir"
<1>1. \A t : IsTarget(TreeOut(t)) /\ TreeOut(t).kind = "dir"
  BY DEF IsTarget, TreeOut
<1>2. \A a, b : IsTarget(FileOut(a, b)) /\ FileOut(a, b).kind = "file"
  BY DEF IsTarget, FileOut
<1>3. ASSUME NEW o, NEW p, IsTarget(o)
      PROVE  /\ IsTarget(Closed(o, p)) /\ Closed(o, p).kind = o.kind
             /\ o.kind # "file" => Closed(o, p) = o
  <2>1. CASE o.kind = "file"
    <3>1. o = FileOut(o.parts, o.open)
      BY <1>3, <2>1 DEF IsTarget, Nothing, Torn
    <3>2. Closed(o, p) = FileOut(o.parts, o.open \ {p})
      BY <2>1, <3>1 DEF Closed, FileOut
    <3> QED
      BY <1>2, <2>1, <3>2
  <2>2. CASE o.kind # "file"
    BY <1>3, <2>2 DEF Closed
  <2> QED
    BY <2>1, <2>2
<1> QED
  BY <1>1, <1>2, <1>3 DEF Nothing, Torn

LEMMA NextTargets ==
  ASSUME Shape, NEW p \in Proc, Does(p)
  PROVE  IsTarget(out') /\ IsTarget(tmp') /\ tmp'.kind \in {"nothing", "file"}
<1>0. IsTarget(out) /\ IsTarget(tmp) /\ tmp.kind \in {"nothing", "file"}
  BY DEF Shape
<1>1. \/ tmp' \in {tmp, Nothing, Closed(tmp, p)}
      \/ tmp' = FileOut(Writers(tmp) \cup {p}, Writers(tmp) \cup {p})
  BY DEF Does, Proceed, CheckTarget, ClearTarget, FinishClear, CreateStaging, StageLayer, StageHook,
         StageEnd, BuildOptions, StageBase, MergeBase, CreateTmp, WriteTmp, CommitDir,
         MaskTarget, CommitFile, Fail, Crash, disk
<1>2. \/ out' \in {out, Nothing, Torn, tmp, Closed(out, p)}
      \/ \E t : out' = TreeOut(t)
  <2>1. CASE Fail(p)
    BY <2>1 DEF Fail
  <2> QED
    BY <2>1 DEF Does, Proceed, CheckTarget, ClearTarget, FinishClear, CreateStaging, StageLayer,
         StageHook, StageEnd, BuildOptions, StageBase, MergeBase, CreateTmp, WriteTmp, CommitDir,
         MaskTarget, CommitFile, Crash, disk
<1>3. IsTarget(Nothing) /\ IsTarget(Torn)
  BY DEF IsTarget
<1> QED
  BY <1>0, <1>1, <1>2, <1>3, TargetsAre

LEMMA InitShape == StackInit => Shape
<1> SUFFICES ASSUME StackInit PROVE Shape
  OBVIOUS
<1>1. PICK s \in Scenario : req = s.req /\ out = s.out
  BY DEF StackInit
<1>2. \A p \in Proc : Asked(req[p])
  BY <1>1, StackAssumption DEF Asked
<1>3. IsTarget(out) /\ IsTarget(tmp) /\ tmp.kind \in {"nothing", "file"}
  <2>1. \/ out \in {Nothing, FileOut({}, {})}
        \/ out.kind = "dir" /\ out = TreeOut(out.tree)
    BY <1>1, StackAssumption
  <2>2. tmp = Nothing
    BY DEF StackInit
  <2>3. IsTarget(Nothing)
    BY DEF IsTarget
  <2> QED
    BY <2>1, <2>2, <2>3, TargetsAre DEF IsTarget
<1>4. at \in [Proc -> Phases \cup Ends]
  BY DEF StackInit, Phases, Ends
<1>5. {dirs, stuck} \subseteq [Proc -> SUBSET {"user", "base"}]
  BY DEF StackInit
<1> QED
  BY <1>2, <1>3, <1>4, <1>5 DEF StackInit, Shape

LEMMA NextShape == Shape /\ [StackNext]_vars => Shape'
<1> SUFFICES ASSUME Shape, [StackNext]_vars PROVE Shape'
  OBVIOUS
<1>1. CASE UNCHANGED vars
  BY <1>1 DEF vars, own, staging, disk, Shape, Asked, IsTarget
<1>2. ASSUME NEW p \in Proc, Does(p) PROVE Shape'
  <2>1. Only(p)
    BY <1>2, Others
  <2>2. IsTarget(out') /\ IsTarget(tmp') /\ tmp'.kind \in {"nothing", "file"}
    BY <1>2, NextTargets
  <2>3. \A r : Asked(r)' <=> Asked(r)
    BY DEF Asked
  <2> QED
    BY <2>1, <2>2 DEF Shape, Only, Asked, IsTarget
<1> QED
  BY <1>1, <1>2 DEF StackNext, Does

LEMMA InitWhere == StackInit => Where
BY DEF StackInit, Where

LEMMA NextWhere == Shape /\ Where /\ [StackNext]_vars => Where'
<1> SUFFICES ASSUME Shape, Where, [StackNext]_vars PROVE Where'
  OBVIOUS
<1>1. CASE UNCHANGED vars
  BY <1>1 DEF vars, own, staging, disk, Where
<1>2. ASSUME NEW p \in Proc, Does(p) PROVE Where'
  <2>1. Only(p)
    BY <1>2, Others
  <2> DEFINE Fine(s, d) ==
        /\ s = "mask" => req[p].format = "dir" /\ d = {}
        /\ s \in {"stage", "options"} => d = {"user"}
        /\ s \in {"clear", "clearing"} => req[p].force
        /\ s = "clearing" => req[p].format = "dir"
        /\ s \in {"write", "writing"} => req[p].format # "dir"
        /\ s \in {"base", "merge"} => req[p].format = "qcow2"
  <2>2. Fine(at'[p], dirs'[p])
    <3>0. Asked(req[p]) /\ Fine(at[p], dirs[p])
      BY DEF Shape, Where
    <3>1. CASE GiveUp(p) /\ req' = req
      BY <3>1, GiveUpOnly
    <3>2. ASSUME NEW s \in {"create", "check", "commit", "done", "dead", "failed"},
                 Goto(p, s)
          PROVE  Fine(at'[p], dirs'[p])
      BY <3>2 DEF Goto, Shape
    <3>3. CASE Goto(p, AfterCheck(req[p]))
      <4>1. at'[p] = AfterCheck(req[p])
        BY <3>3 DEF Goto, Shape
      <4> QED
        BY <3>0, <4>1, AfterCheckIs
    <3>4. CASE CheckTarget(p)
      BY <3>1, <3>3, <3>4 DEF CheckTarget, Goto, Shape
    <3>5. CASE ClearTarget(p)
      BY <3>0, <3>1, <3>3, <3>5 DEF ClearTarget, Goto, Shape
    <3>6. CASE FinishClear(p)
      BY <3>1, <3>3, <3>6 DEF FinishClear
    <3>7. CASE CreateStaging(p) \/ BuildOptions(p)
      BY <3>2, <3>7 DEF CreateStaging, BuildOptions, Goto, Shape
    <3>8. CASE StageLayer(p) \/ StageHook(p)
      <4>1. CASE UNCHANGED <<req, at, staging>>
        BY <3>0, <4>1 DEF staging
      <4> QED
        BY <3>1, <3>8, <4>1 DEF StageLayer, StageHook
    <3>9. CASE StageEnd(p)
      BY <3>0, <3>9 DEF StageEnd, Goto, Shape, Fast, staging
    <3>10. CASE StageBase(p)
      BY <3>1, <3>2, <3>10 DEF StageBase
    <3>11. CASE MergeBase(p)
      <4>1. GiveUp(p) \/ Goto(p, "write")
        BY <3>11 DEF MergeBase
      <4> QED
        BY <3>0, <3>1, <3>11, <4>1 DEF MergeBase, Goto, Shape
    <3>12. CASE CreateTmp(p) \/ WriteTmp(p)
      BY <3>0, <3>1, <3>2, <3>12 DEF CreateTmp, WriteTmp, Goto, Shape
    <3>13. CASE CommitDir(p)
      BY <3>1, <3>13 DEF CommitDir, Goto, Shape
    <3>14. CASE MaskTarget(p)
      BY <3>1, <3>2, <3>14 DEF MaskTarget
    <3>15. CASE CommitFile(p)
      BY <3>1, <3>2, <3>15 DEF CommitFile, TarEnds, ImageEnds, Die
    <3>16. CASE Fail(p) \/ Crash(p)
      BY <3>1, <3>2, <3>16 DEF Fail, Crash, Die
    <3> QED
      BY <1>2, <3>4, <3>5, <3>6, <3>7, <3>8, <3>9, <3>10, <3>11, <3>12, <3>13, <3>14, <3>15,
         <3>16 DEF Does, Proceed
  <2> QED
    BY <2>1, <2>2 DEF Only, Where
<1> QED
  BY <1>1, <1>2 DEF StackNext, Does

LEMMA ShapeAndWhere == StackSpec => [](Shape /\ Where)
<1>1. StackInit => Shape /\ Where
  BY InitShape, InitWhere
<1>2. Shape /\ Where /\ [StackNext]_vars => (Shape /\ Where)'
  BY NextShape, NextWhere
<1> QED
  BY <1>1, <1>2, PTL DEF StackSpec

-----------------------------------------------------------------------------
(***************************************************************************)
(* A staging tree stays a tree, and so does what is at the target.         *)
(***************************************************************************)
Trees ==
  /\ \A p \in Proc :
       /\ Grown(tree[p])
       /\ todo[p] \in Seq(DOMAIN LayerOf)
       /\ ops[p] \in Seq(ToSet(HookRun(req[p], req[p].manifests)))
  /\ out.kind = "dir" => IsWhole(out.tree)

LEMMA InitTrees == StackInit => Trees
<1> SUFFICES ASSUME StackInit PROVE Trees
  OBVIOUS
<1>1. PICK s \in Scenario : req = s.req /\ out = s.out
  BY DEF StackInit
<1>2. out.kind = "dir" => IsWhole(out.tree)
  <2>1. \/ out \in {Nothing, FileOut({}, {})}
        \/ out.kind = "dir" /\ IsWhole(out.tree)
    BY <1>1, StackAssumption
  <2> QED
    BY <2>1, TargetsAre
<1>3. ASSUME NEW p \in Proc
      PROVE  /\ Grown(tree[p]) /\ todo[p] \in Seq(DOMAIN LayerOf)
             /\ ops[p] \in Seq(ToSet(HookRun(req[p], req[p].manifests)))
  <2>1. AreManifests(req[p].manifests)
    BY <1>1, StackAssumption
  <2>2. /\ tree[p] = StagingRoot /\ todo[p] = Flatten(req[p].manifests)
        /\ ops[p] = HookRun(req[p], req[p].manifests)
    BY DEF StackInit
  <2> QED
    BY <2>1, <2>2, RootsGrown, ManifestsAre
<1> QED
  BY <1>2, <1>3 DEF Trees

LEMMA NextTreeOf ==
  ASSUME Shape, Trees, NEW p \in Proc, Does(p)
  PROVE  /\ Grown(tree'[p])
         /\ todo'[p] \in Seq(DOMAIN LayerOf)
         /\ ops'[p] \in Seq(ToSet(HookRun(req[p], req[p].manifests)))
<1>1. /\ Grown(tree[p]) /\ todo[p] \in Seq(DOMAIN LayerOf)
      /\ ops[p] \in Seq(ToSet(HookRun(req[p], req[p].manifests)))
  BY DEF Trees
<1>2. AreManifests(req[p].manifests) /\ AreManifests(req[p].base)
  BY DEF Shape, Asked
<1>3. CASE UNCHANGED own
  BY <1>1, <1>3 DEF own
<1>4. CASE StageLayer(p)
  <2> DEFINE r == ApplyLayer(tree[p], LayerOf[Head(todo[p])])
  <2>1. CASE r.ok
    <3>1. tree' = [tree EXCEPT ![p] = r.tree] /\ todo' = [todo EXCEPT ![p] = Tail(@)] /\ ops' = ops
          /\ todo[p] # <<>>
      BY <1>4, <2>1 DEF StageLayer
    <3>2. Head(todo[p]) \in DOMAIN LayerOf /\ Tail(todo[p]) \in Seq(DOMAIN LayerOf)
      BY <1>1, <3>1, HeadTailProperties
    <3>3. Grown(r.tree)
      BY <1>1, <3>2, LayerGrown
    <3> HIDE DEF r
    <3>4. tree'[p] = r.tree /\ todo'[p] = Tail(todo[p]) /\ ops'[p] = ops[p]
      BY <3>1 DEF Shape
    <3> QED
      BY <1>1, <3>2, <3>3, <3>4
  <2>2. CASE ~r.ok
    BY <1>3, <1>4, <2>2 DEF StageLayer, GiveUp
  <2> QED
    BY <2>1, <2>2
<1>5. CASE StageHook(p)
  <2> DEFINE r == RunOp(tree[p], Head(ops[p]))
             H == HookRun(req[p], req[p].manifests)
  <2>1. CASE r.ok
    <3>1. tree' = [tree EXCEPT ![p] = r.tree] /\ ops' = [ops EXCEPT ![p] = Tail(@)] /\ todo' = todo
          /\ ops[p] # <<>>
      BY <1>5, <2>1 DEF StageHook
    <3>2. Head(ops[p]) \in ToSet(H) /\ Tail(ops[p]) \in Seq(ToSet(H))
      BY <1>1, <3>1, HeadTailProperties
    <3>3. \A i \in DOMAIN H : IsOp(H[i])
      BY <1>2, ManifestsAre
    <3> HIDE DEF H
    <3>4. IsOp(Head(ops[p]))
      BY <3>2, <3>3 DEF ToSet
    <3>5. Grown(r.tree)
      BY <1>1, <3>4, RunOpGrown
    <3> HIDE DEF r
    <3>6. tree'[p] = r.tree /\ ops'[p] = Tail(ops[p]) /\ todo'[p] = todo[p]
      BY <3>1 DEF Shape
    <3> QED
      BY <1>1, <3>2, <3>5, <3>6 DEF H
  <2>2. CASE ~r.ok
    BY <1>3, <1>5, <2>2 DEF StageHook, GiveUp
  <2> QED
    BY <2>1, <2>2
<1>6. CASE MergeBase(p)
  <2> DEFINE merged == Merge(BaseTree(req[p]).tree, tree[p])
  <2>1. Grown(merged.tree)
    <3>1. Grown(BaseTree(req[p]).tree)
      BY <1>2, StagedGrown DEF BaseTree
    <3> QED
      BY <1>1, <3>1, MergeGrown
  <2>2. CASE merged.ok /\ ~req[p].finalize
    <3>1. tree' = [tree EXCEPT ![p] = merged.tree] /\ UNCHANGED <<todo, ops>>
      BY <1>6, <2>2 DEF MergeBase
    <3> HIDE DEF merged
    <3>2. tree'[p] = merged.tree
      BY <3>1 DEF Shape
    <3> QED
      BY <1>1, <2>1, <3>1, <3>2
  <2>3. CASE ~(merged.ok /\ ~req[p].finalize)
    BY <1>3, <1>6, <2>3 DEF MergeBase, GiveUp
  <2> QED
    BY <2>2, <2>3
<1>7. CASE ~(StageLayer(p) \/ StageHook(p) \/ MergeBase(p))
  <2>1. UNCHANGED own
    BY <1>7 DEF Does, Proceed, CheckTarget, ClearTarget, FinishClear, CreateStaging, StageEnd,
                BuildOptions, StageBase, CreateTmp, WriteTmp, CommitDir, MaskTarget, CommitFile,
                Fail, Crash, GiveUp, TarEnds, ImageEnds, Die
  <2> QED
    BY <1>3, <2>1
<1> QED
  BY <1>4, <1>5, <1>6, <1>7

LEMMA NextOutWhole ==
  ASSUME Shape, Trees, NEW p \in Proc, Does(p), out'.kind = "dir"
  PROVE  IsWhole(out'.tree)
<1>1. out.kind = "dir" => IsWhole(out.tree) /\ IsWhole(Masked(out.tree, req[p].mask))
  BY MaskedWhole DEF Trees
<1>2. IsWhole(tree[p])
  BY DEF Trees, Grown
<1>3. \/ out' \in {out, Nothing, Torn, tmp, Closed(out, p), TreeOut(tree[p])}
      \/ out.kind = "dir" /\ out' = TreeOut(Masked(out.tree, req[p].mask))
  <2>1. CASE Fail(p)
    BY <2>1 DEF Fail
  <2> QED
    BY <2>1 DEF Does, Proceed, CheckTarget, ClearTarget, FinishClear, CreateStaging, StageLayer,
         StageHook, StageEnd, BuildOptions, StageBase, MergeBase, CreateTmp, WriteTmp, CommitDir,
         MaskTarget, CommitFile, Crash, disk
<1>4. tmp.kind # "dir" /\ Closed(out, p).kind = out.kind /\ (out.kind # "file" => Closed(out, p) = out)
  BY TargetsAre DEF Shape
<1>5. \A t : TreeOut(t).tree = t
  BY DEF TreeOut
<1>6. CASE out.kind = "dir" /\ out' = TreeOut(Masked(out.tree, req[p].mask))
  BY <1>1, <1>5, <1>6
<1>7. CASE out' = TreeOut(tree[p])
  BY <1>2, <1>5, <1>7
<1>8. CASE out' \in {out, Nothing, Torn, tmp, Closed(out, p)}
  BY <1>1, <1>4, <1>8, TargetsAre
<1> QED
  BY <1>3, <1>6, <1>7, <1>8

LEMMA NextTrees == Shape /\ Trees /\ [StackNext]_vars => Trees'
<1> SUFFICES ASSUME Shape, Trees, [StackNext]_vars PROVE Trees'
  OBVIOUS
<1>1. CASE UNCHANGED vars
  BY <1>1 DEF vars, own, disk, Trees
<1>2. ASSUME NEW p \in Proc, Does(p) PROVE Trees'
  <2>1. Only(p)
    BY <1>2, Others
  <2>2. ASSUME NEW q \in Proc
        PROVE  /\ Grown(tree'[q]) /\ todo'[q] \in Seq(DOMAIN LayerOf)
               /\ ops'[q] \in Seq(ToSet(HookRun(req[q], req[q].manifests)))
    <3>1. CASE q = p
      BY <1>2, <3>1, NextTreeOf
    <3>2. CASE q # p
      <4>1. tree'[q] = tree[q] /\ todo'[q] = todo[q] /\ ops'[q] = ops[q]
        BY <2>1, <3>2 DEF Only
      <4> QED
        BY <4>1 DEF Trees
    <3> QED
      BY <3>1, <3>2
  <2>3. out'.kind = "dir" => IsWhole(out'.tree)
    BY <1>2, NextOutWhole
  <2>4. req' = req
    BY <2>1 DEF Only
  <2> QED
    BY <2>2, <2>3, <2>4 DEF Trees
<1> QED
  BY <1>1, <1>2 DEF StackNext, Does

\* Whatever layers, hooks and merges do, and whatever fails: a staging tree is a
\* tree, and so is what is at the target.
THEOREM StackTypeCorrect == StackSpec => []StackTypeOK
<1>1. StackInit => Trees
  BY InitTrees
<1>2. Shape /\ Trees /\ [StackNext]_vars => Trees'
  BY NextTrees
<1>3. Shape /\ Trees => StackTypeOK
  <2> SUFFICES ASSUME Shape, Trees PROVE StackTypeOK
    OBVIOUS
  <2>1. \A p \in Proc : IsWhole(tree[p])
    BY DEF Trees, Grown
  <2>2. out.kind \in {"nothing", "torn", "dir", "file"}
    BY TargetsAre DEF Shape, IsTarget
  <2> QED
    BY <2>1, <2>2 DEF Shape, Trees, StackTypeOK
<1> QED
  BY <1>1, <1>2, <1>3, ShapeAndWhere, PTL DEF StackSpec

-----------------------------------------------------------------------------
(***************************************************************************)
(* What is left on disk, and what is taken away.                           *)
(***************************************************************************)
LEMMA NotEnded ==
  ASSUME Shape, NEW p \in Proc, Does(p)
  PROVE  at[p] \in Phases
BY DEF Does, Proceed, CheckTarget, ClearTarget, FinishClear, CreateStaging, StageLayer, StageHook,
       StageEnd, BuildOptions, StageBase, MergeBase, CreateTmp, WriteTmp, CommitDir, MaskTarget,
       CommitFile, Fail, Crash, Shape, Phases

\* While a run has not ended, it has not tried to remove anything.
Untried == \A p \in Proc : at[p] \in Phases => stuck[p] = {}

LEMMA NextLitter ==
  Shape /\ Where /\ Untried /\ NoLitter /\ [StackNext]_vars => Untried' /\ NoLitter'
<1> SUFFICES ASSUME Shape, Where, Untried, NoLitter, [StackNext]_vars
             PROVE  Untried' /\ NoLitter'
  OBVIOUS
<1>1. CASE UNCHANGED vars
  BY <1>1 DEF vars, own, staging, disk, NoLitter, Untried
<1>2. ASSUME NEW p \in Proc, Does(p) PROVE Untried' /\ NoLitter'
  <2>1. Only(p)
    BY <1>2, Others
  <2> DEFINE Clean(s, d, k) ==
        /\ s \in Phases => k = {}
        /\ s = "done" => d = k \cup (IF req[p].format = "qcow2" THEN {"user"} ELSE {})
        /\ s = "failed" => d = k \/ (req[p].bad /\ d = {"user"})
  <2>2. Clean(at'[p], dirs'[p], stuck'[p])
    <3>0. at[p] \in Phases /\ stuck[p] = {}
      BY <1>2, NotEnded DEF Untried
    <3>1. CASE GiveUp(p) /\ req' = req
      BY <3>1, GiveUpOnly DEF Phases
    <3>2. ASSUME NEW s \in (Phases \cup Ends) \ {"done", "failed"}, Goto(p, s), stuck' = stuck
          PROVE  Clean(at'[p], dirs'[p], stuck'[p])
      BY <3>0, <3>2 DEF Goto, Shape
    <3>3. AfterCheck(req[p]) \in Phases
      BY AfterCheckIs DEF Shape, Phases
    <3>4. {"done", "failed"} \cap Phases = {}
      BY DEF Phases
    <3>5. CASE CheckTarget(p) \/ ClearTarget(p) \/ FinishClear(p)
      BY <3>1, <3>2, <3>3, <3>4, <3>5 DEF CheckTarget, ClearTarget, FinishClear, staging, Phases
    <3>6. CASE CreateStaging(p) \/ StageEnd(p) \/ Crash(p) \/ CreateTmp(p)
      BY <3>2, <3>6 DEF CreateStaging, StageEnd, Crash, Die, CreateTmp, staging, Phases, Ends
    <3>7. CASE StageLayer(p) \/ StageHook(p)
      <4>1. CASE UNCHANGED <<at, staging>>
        BY <3>0, <3>4, <4>1 DEF staging
      <4> QED
        BY <3>1, <3>7, <4>1 DEF StageLayer, StageHook
    <3>8. CASE BuildOptions(p)
      BY <3>0, <3>4, <3>8 DEF BuildOptions, Goto, Shape, Where, staging
    <3>9. CASE StageBase(p) \/ WriteTmp(p)
      BY <3>1, <3>2, <3>9 DEF StageBase, WriteTmp, staging, Phases
    <3>10. CASE MergeBase(p)
      <4>1. GiveUp(p) \/ (Goto(p, "write") /\ UNCHANGED staging)
        BY <3>10 DEF MergeBase
      <4> QED
        BY <3>1, <3>2, <3>10, <4>1 DEF MergeBase, staging, Phases
    <3>11. CASE CommitDir(p)
      <4>1. CASE GiveUp(p)
        BY <3>1, <3>11, <4>1 DEF CommitDir
      <4>2. CASE ~GiveUp(p)
        <5>1. /\ at'[p] \in {"done", "mask"} /\ dirs'[p] = {} /\ stuck'[p] = {}
              /\ req[p].format = "dir"
          BY <3>0, <3>11, <4>2 DEF CommitDir, Goto, Shape
        <5> QED
          BY <5>1
      <4> QED
        BY <4>1, <4>2
    <3>12. CASE MaskTarget(p)
      <4>1. CASE GiveUp(p)
        BY <3>1, <3>12, <4>1 DEF MaskTarget
      <4>2. CASE ~GiveUp(p)
        <5>1. at'[p] = "done" /\ dirs'[p] = {} /\ stuck'[p] = {} /\ req[p].format = "dir"
          BY <3>0, <3>12, <4>2 DEF MaskTarget, Goto, Shape, Where, staging
        <5> QED
          BY <3>4, <5>1
      <4> QED
        BY <4>1, <4>2
    <3>13. CASE CommitFile(p)
      <4>0. req' = req
        BY <3>13 DEF CommitFile
      <4>1. CASE TarEnds(p)
        <5>1. /\ at'[p] = "done" /\ dirs'[p] = {} /\ stuck'[p] = {} /\ req[p].format = "tar"
          BY <3>0, <4>1 DEF TarEnds, Goto, Shape
        <5> QED
          BY <3>4, <5>1
      <4>2. CASE ImageEnds(p)
        <5>1. at'[p] = "done" /\ Removes(p, {"base"}, {"user"}) /\ req[p].format = "qcow2"
          BY <4>2 DEF ImageEnds, Goto, Shape
        <5>2. dirs'[p] = {"user"} \cup stuck'[p]
          BY <5>1, RemovesOnly
        <5> QED
          BY <3>4, <5>1, <5>2
      <4>3. CASE Die(p)
        BY <3>2, <4>3 DEF Die, staging, Ends, Phases
      <4> QED
        BY <3>1, <3>13, <4>0, <4>1, <4>2, <4>3 DEF CommitFile
    <3>14. CASE Fail(p)
      BY <3>1, <3>14 DEF Fail
    <3> QED
      BY <1>2, <3>5, <3>6, <3>7, <3>8, <3>9, <3>10, <3>11, <3>12, <3>13, <3>14 DEF Does, Proceed
  <2> QED
    BY <2>1, <2>2 DEF Only, NoLitter, Untried
<1> QED
  BY <1>1, <1>2 DEF StackNext, Does

\* Whatever fails, the removals themselves among it, and whatever other runs do: a
\* run that ends has left no staging directory that it could have removed, but for
\* the two that nobody removes: that of options refused and that of a qcow2 image.
THEOREM StagingIsRemoved == StackSpec => []NoLitter
<1>1. StackInit => Untried /\ NoLitter
  BY DEF StackInit, NoLitter, Untried
<1>2. Shape /\ Where /\ Untried /\ NoLitter /\ [StackNext]_vars => (Untried /\ NoLitter)'
  BY NextLitter
<1> QED
  BY <1>1, <1>2, ShapeAndWhere, PTL DEF StackSpec

LEMMA StepKeeps ==
  ASSUME Shape, Where, NEW p \in Proc, Does(p), req[p].format = "dir", ~req[p].force,
         at[p] # "mask"
  PROVE  out' = out \/ Vacant(out)
<1>1. CASE CheckTarget(p) \/ CreateStaging(p) \/ StageLayer(p) \/ StageHook(p) \/ StageEnd(p)
           \/ BuildOptions(p) \/ StageBase(p) \/ MergeBase(p) \/ CreateTmp(p) \/ Crash(p)
  BY <1>1 DEF CheckTarget, CreateStaging, StageLayer, StageHook, StageEnd, BuildOptions,
              StageBase, MergeBase, CreateTmp, Crash, disk
<1>2. CASE ClearTarget(p) \/ FinishClear(p) \/ WriteTmp(p) \/ MaskTarget(p) \/ CommitFile(p)
  BY <1>2 DEF Where, ClearTarget, FinishClear, WriteTmp, MaskTarget, CommitFile
<1>3. CASE CommitDir(p)
  BY <1>3 DEF CommitDir
<1>4. CASE Fail(p)
  BY <1>4 DEF Fail
<1> QED
  BY <1>1, <1>2, <1>3, <1>4 DEF Does, Proceed

\* Whatever is put at the target between the look at it and the rename stays there.
THEOREM TargetIsKept == StackSpec => NoForceKeepsTarget
<1>1. Shape /\ Where /\ [StackNext]_vars =>
        [\A p \in Proc :
           /\ at'[p] # at[p]
           /\ req[p].format = "dir" /\ ~req[p].force /\ at[p] # "mask"
           => out' = out \/ Vacant(out)]_vars
  <2> SUFFICES ASSUME Shape, Where, StackNext, NEW p \in Proc, at'[p] # at[p],
                      req[p].format = "dir", ~req[p].force, at[p] # "mask"
               PROVE  out' = out \/ Vacant(out)
    BY DEF vars
  <2>1. PICK q \in Proc : Does(q)
    BY DEF StackNext, Does
  <2>2. q = p
    BY <2>1, Others DEF Only
  <2> QED
    BY <2>1, <2>2, StepKeeps
<1> QED
  BY <1>1, ShapeAndWhere, PTL DEF StackSpec, NoForceKeepsTarget

-----------------------------------------------------------------------------
(***************************************************************************)
(* A run has staged what its request says, as far as it has come: the      *)
(* layers up to the k-th, or all of them and k operations of the hook.     *)
(***************************************************************************)
LayersAsked(p) == Flatten(req[p].manifests)
HookAsked(p) == HookRun(req[p], req[p].manifests)
Laid(p) == Loop("layers", LayersAsked(p), Ok(StagingRoot), Len(LayersAsked(p)))
AllLaid(p) == Laid(p)[Len(LayersAsked(p))]
HookedSoFar(p) == Loop("hook", HookAsked(p), Ok(AllLaid(p).tree), Len(HookAsked(p)))

From(s, k) == [i \in 1..(Len(s) - k) |-> s[i + k]]

Laying(p) ==
  \E k \in 0..Len(LayersAsked(p)) :
    /\ Laid(p)[k].ok /\ tree[p] = Laid(p)[k].tree
    /\ todo[p] = From(LayersAsked(p), k) /\ ops[p] = HookAsked(p)
Hooking(p) ==
  /\ AllLaid(p).ok /\ todo[p] = <<>>
  /\ \E k \in 0..Len(HookAsked(p)) :
       /\ HookedSoFar(p)[k].ok /\ tree[p] = HookedSoFar(p)[k].tree
       /\ ops[p] = From(HookAsked(p), k)

AllStaged(p) ==
  at[p] \in {"options", "commit"} \/ (~Fast(req[p]) /\ at[p] \in {"check", "clear", "clearing"})

Staging ==
  \A p \in Proc : req[p].format = "dir" /\ at[p] \notin Ends =>
    /\ Laying(p) \/ Hooking(p)
    /\ AllStaged(p) => todo[p] = <<>> /\ ops[p] = <<>>

LEMMA FromIs ==
  ASSUME NEW X, NEW s \in Seq(X), NEW k \in 0..Len(s)
  PROVE  /\ From(s, 0) = s /\ From(s, Len(s)) = <<>>
         /\ From(s, k) \in Seq(X) /\ Len(From(s, k)) = Len(s) - k
         /\ From(s, k) = <<>> <=> k = Len(s)
         /\ k # Len(s) => /\ k + 1 \in 1..Len(s) /\ Head(From(s, k)) = s[k + 1]
                          /\ Tail(From(s, k)) = From(s, k + 1)
<1>1. Len(s) \in Nat /\ Len(s) - k \in Nat
  OBVIOUS
<1>2. From(s, k) \in Seq(X) /\ Len(From(s, k)) = Len(s) - k
  BY <1>1 DEF From
<1>3. From(s, 0) = s
  BY <1>1 DEF From
<1>4. From(s, Len(s)) = <<>>
  BY <1>1 DEF From
<1>5. ASSUME k # Len(s)
      PROVE  /\ k + 1 \in 1..Len(s) /\ Head(From(s, k)) = s[k + 1]
             /\ Tail(From(s, k)) = From(s, k + 1)
  <2>1. k + 1 \in 1..Len(s) /\ Len(s) - k # 0 /\ 1 \in 1..(Len(s) - k)
    BY <1>1, <1>5
  <2>2. Head(From(s, k)) = s[k + 1]
    BY <2>1 DEF From
  <2>3. Tail(From(s, k)) = From(s, k + 1)
    <3> DEFINE t == From(s, k)
               u == From(s, k + 1)
    <3>1. Tail(t) \in Seq(X) /\ Len(Tail(t)) = Len(s) - (k + 1)
      BY <1>1, <1>2, <2>1
    <3>2. \A i \in 1..(Len(s) - (k + 1)) : i + 1 \in 1..(Len(s) - k) /\ i + 1 + k = i + (k + 1)
      BY <1>1
    <3>3. \A i \in 1..(Len(s) - (k + 1)) : Tail(t)[i] = t[i + 1]
      BY <1>1, <1>2, <2>1
    <3>4. \A i \in 1..(Len(s) - k) : t[i] = s[i + k]
      BY DEF From
    <3>5. \A i \in 1..(Len(s) - (k + 1)) : u[i] = s[i + (k + 1)]
      BY DEF From
    <3>6. u = [i \in 1..(Len(s) - (k + 1)) |-> u[i]]
      BY DEF From
    <3> HIDE DEF t, u
    <3>7. \A i \in 1..(Len(s) - (k + 1)) : Tail(t)[i] = u[i]
      BY <3>2, <3>3, <3>4, <3>5
    <3>8. Tail(t) = [i \in 1..(Len(s) - (k + 1)) |-> Tail(t)[i]]
      <4> DEFINE v == Tail(t)
      <4> HIDE DEF v
      <4>1. v \in Seq(X) /\ Len(v) = Len(s) - (k + 1)
        BY <3>1 DEF v
      <4>2. v = [i \in 1..Len(v) |-> v[i]]
        BY <4>1
      <4> QED
        BY <4>1, <4>2 DEF v
    <3> QED
      BY <3>6, <3>7, <3>8 DEF t, u
  <2> QED
    BY <2>1, <2>2, <2>3
<1> QED
  BY <1>1, <1>2, <1>3, <1>4, <1>5

LEMMA AskedSeqs ==
  ASSUME Shape, NEW p \in Proc
  PROVE  \E X, Y : LayersAsked(p) \in Seq(X) /\ HookAsked(p) \in Seq(Y)
<1>1. AreManifests(req[p].manifests)
  BY DEF Shape, Asked
<1>2. LayersAsked(p) \in Seq(DOMAIN LayerOf) /\ HookAsked(p) \in Seq(ToSet(HookAsked(p)))
  BY <1>1, ManifestsAre DEF LayersAsked, HookAsked
<1> QED
  BY <1>2

LEMMA LaidIs ==
  ASSUME Shape, NEW p \in Proc
  PROVE  /\ Len(LayersAsked(p)) \in Nat /\ Len(HookAsked(p)) \in Nat
         /\ Laid(p)[0] = Ok(StagingRoot)
         /\ \A i \in 1..Len(LayersAsked(p)) :
              Laid(p)[i] = IF Laid(p)[i - 1].ok
                             THEN ApplyLayer(Laid(p)[i - 1].tree, LayerOf[LayersAsked(p)[i]])
                             ELSE Laid(p)[i - 1]
         /\ HookedSoFar(p)[0] = Ok(AllLaid(p).tree)
         /\ \A i \in 1..Len(HookAsked(p)) :
              HookedSoFar(p)[i] = IF HookedSoFar(p)[i - 1].ok
                                    THEN RunOp(HookedSoFar(p)[i - 1].tree, HookAsked(p)[i])
                                    ELSE HookedSoFar(p)[i - 1]
         /\ Staged(req[p], req[p].manifests) =
              IF AllLaid(p).ok THEN HookedSoFar(p)[Len(HookAsked(p))] ELSE AllLaid(p)
<1>1. PICK X, Y : LayersAsked(p) \in Seq(X) /\ HookAsked(p) \in Seq(Y)
  BY AskedSeqs
<1>2. Len(LayersAsked(p)) \in Nat /\ Len(HookAsked(p)) \in Nat
  BY <1>1
<1>3. \A s, x, i : /\ After("layers", s, x, i) =
                        IF x.ok THEN ApplyLayer(x.tree, LayerOf[s[i]]) ELSE x
                   /\ After("hook", s, x, i) = IF x.ok THEN RunOp(x.tree, s[i]) ELSE x
  BY DEF After
<1>4. /\ Laid(p)[0] = Ok(StagingRoot)
      /\ \A i \in 1..Len(LayersAsked(p)) :
           Laid(p)[i] = After("layers", LayersAsked(p), Laid(p)[i - 1], i)
  BY <1>2, LoopIs DEF Laid
<1>5. /\ HookedSoFar(p)[0] = Ok(AllLaid(p).tree)
      /\ \A i \in 1..Len(HookAsked(p)) :
           HookedSoFar(p)[i] = After("hook", HookAsked(p), HookedSoFar(p)[i - 1], i)
  BY <1>2, LoopIs DEF HookedSoFar
<1>6. Layered(StagingRoot, LayersAsked(p)) = AllLaid(p)
  BY <1>1, LayeredLoop DEF AllLaid, Laid
<1>7. Hooked(AllLaid(p).tree, HookAsked(p)) = HookedSoFar(p)[Len(HookAsked(p))]
  BY <1>1, HookedLoop DEF HookedSoFar
<1>8. Staged(req[p], req[p].manifests) =
        IF AllLaid(p).ok THEN HookedSoFar(p)[Len(HookAsked(p))] ELSE AllLaid(p)
  BY <1>6, <1>7 DEF Staged, LayersAsked, HookAsked
<1> QED
  BY <1>2, <1>3, <1>4, <1>5, <1>8

LEMMA StagedWhole ==
  ASSUME Shape, NEW p \in Proc, Laying(p) \/ Hooking(p), todo[p] = <<>>, ops[p] = <<>>
  PROVE  tree[p] = Staged(req[p], req[p].manifests).tree
<1>1. PICK X, Y : LayersAsked(p) \in Seq(X) /\ HookAsked(p) \in Seq(Y)
  BY AskedSeqs
<1>2. CASE Laying(p)
  <2>1. PICK k \in 0..Len(LayersAsked(p)) :
          /\ Laid(p)[k].ok /\ tree[p] = Laid(p)[k].tree
          /\ todo[p] = From(LayersAsked(p), k) /\ ops[p] = HookAsked(p)
    BY <1>2 DEF Laying
  <2>2. k = Len(LayersAsked(p))
    BY <1>1, <2>1, FromIs
  <2>3. AllLaid(p).ok /\ tree[p] = AllLaid(p).tree
    BY <2>1, <2>2 DEF AllLaid
  <2>4. Len(HookAsked(p)) = 0
    BY <2>1
  <2>5. HookedSoFar(p)[0].tree = AllLaid(p).tree
    <3>1. HookedSoFar(p)[0] = Ok(AllLaid(p).tree)
      BY LaidIs
    <3> QED
      BY <3>1 DEF Ok
  <2> QED
    BY <2>3, <2>4, <2>5, LaidIs
<1>3. CASE Hooking(p)
  <2>1. PICK k \in 0..Len(HookAsked(p)) :
          /\ HookedSoFar(p)[k].ok /\ tree[p] = HookedSoFar(p)[k].tree
          /\ ops[p] = From(HookAsked(p), k)
    BY <1>3 DEF Hooking
  <2>2. k = Len(HookAsked(p))
    BY <1>1, <2>1, FromIs
  <2> QED
    BY <1>3, <2>1, <2>2, LaidIs DEF Hooking
<1> QED
  BY <1>2, <1>3

\* A layer more.
LEMMA LayMore ==
  ASSUME Shape, NEW p \in Proc, Laying(p) \/ Hooking(p), todo[p] # <<>>,
         NEW r, r = ApplyLayer(tree[p], LayerOf[Head(todo[p])]), r.ok,
         tree'[p] = r.tree, todo'[p] = Tail(todo[p]), ops'[p] = ops[p], req' = req
  PROVE  Laying(p)'
<1>1. PICK X, Y : LayersAsked(p) \in Seq(X) /\ HookAsked(p) \in Seq(Y)
  BY AskedSeqs
<1>2. PICK k \in 0..Len(LayersAsked(p)) :
        /\ Laid(p)[k].ok /\ tree[p] = Laid(p)[k].tree
        /\ todo[p] = From(LayersAsked(p), k) /\ ops[p] = HookAsked(p)
  BY DEF Laying, Hooking
<1>3. /\ k # Len(LayersAsked(p)) /\ k + 1 \in 1..Len(LayersAsked(p))
      /\ Head(todo[p]) = LayersAsked(p)[k + 1] /\ Tail(todo[p]) = From(LayersAsked(p), k + 1)
  BY <1>1, <1>2, FromIs
<1>4. k + 1 - 1 = k /\ k + 1 \in 0..Len(LayersAsked(p))
  BY <1>3
<1>5. Laid(p)[k + 1] = r
  <2>1. PICK i \in 1..Len(LayersAsked(p)) : i = k + 1 /\ i - 1 = k
    BY <1>3, <1>4
  <2>2. Laid(p)[i] = IF Laid(p)[i - 1].ok
                             THEN ApplyLayer(Laid(p)[i - 1].tree, LayerOf[LayersAsked(p)[i]])
                             ELSE Laid(p)[i - 1]
    BY LaidIs
  <2> QED
    BY <1>2, <1>3, <2>1, <2>2
<1>6. Laid(p)' = Laid(p) /\ LayersAsked(p)' = LayersAsked(p) /\ HookAsked(p)' = HookAsked(p)
  BY DEF Laid, LayersAsked, HookAsked
<1>7. /\ Laid(p)[k + 1].ok /\ tree'[p] = Laid(p)[k + 1].tree
      /\ todo'[p] = From(LayersAsked(p), k + 1) /\ ops'[p] = HookAsked(p)
  BY <1>2, <1>3, <1>5
<1> QED
  BY <1>4, <1>6, <1>7 DEF Laying

\* A hook operation more.
LEMMA HookMore ==
  ASSUME Shape, NEW p \in Proc, Laying(p) \/ Hooking(p), todo[p] = <<>>, ops[p] # <<>>,
         NEW r, r = RunOp(tree[p], Head(ops[p])), r.ok,
         tree'[p] = r.tree, ops'[p] = Tail(ops[p]), todo'[p] = todo[p], req' = req
  PROVE  Hooking(p)'
<1>1. PICK X, Y : LayersAsked(p) \in Seq(X) /\ HookAsked(p) \in Seq(Y)
  BY AskedSeqs
<1>2. /\ AllLaid(p).ok
      /\ \E k \in 0..Len(HookAsked(p)) :
           /\ HookedSoFar(p)[k].ok /\ tree[p] = HookedSoFar(p)[k].tree
           /\ ops[p] = From(HookAsked(p), k)
  <2>1. CASE Laying(p)
    <3>1. PICK k \in 0..Len(LayersAsked(p)) :
            /\ Laid(p)[k].ok /\ tree[p] = Laid(p)[k].tree
            /\ todo[p] = From(LayersAsked(p), k) /\ ops[p] = HookAsked(p)
      BY <2>1 DEF Laying
    <3>2. k = Len(LayersAsked(p))
      BY <1>1, <3>1, FromIs
    <3>3. AllLaid(p).ok /\ tree[p] = AllLaid(p).tree
      BY <3>1, <3>2 DEF AllLaid
    <3>4. HookedSoFar(p)[0].ok /\ HookedSoFar(p)[0].tree = AllLaid(p).tree
      <4>1. HookedSoFar(p)[0] = Ok(AllLaid(p).tree)
        BY LaidIs
      <4> QED
        BY <4>1 DEF Ok
    <3>5. 0 \in 0..Len(HookAsked(p)) /\ From(HookAsked(p), 0) = HookAsked(p)
      BY <1>1, FromIs
    <3> QED
      BY <3>1, <3>3, <3>4, <3>5
  <2> QED
    BY <2>1 DEF Hooking
<1>3. PICK k \in 0..Len(HookAsked(p)) :
        /\ HookedSoFar(p)[k].ok /\ tree[p] = HookedSoFar(p)[k].tree
        /\ ops[p] = From(HookAsked(p), k)
  BY <1>2
<1>4. /\ k # Len(HookAsked(p)) /\ k + 1 \in 1..Len(HookAsked(p))
      /\ Head(ops[p]) = HookAsked(p)[k + 1] /\ Tail(ops[p]) = From(HookAsked(p), k + 1)
  BY <1>1, <1>3, FromIs
<1>5. k + 1 - 1 = k /\ k + 1 \in 0..Len(HookAsked(p))
  BY <1>4
<1>6. HookedSoFar(p)[k + 1] = r
  <2>1. PICK i \in 1..Len(HookAsked(p)) : i = k + 1 /\ i - 1 = k
    BY <1>4, <1>5
  <2>2. HookedSoFar(p)[i] = IF HookedSoFar(p)[i - 1].ok
                              THEN RunOp(HookedSoFar(p)[i - 1].tree, HookAsked(p)[i])
                              ELSE HookedSoFar(p)[i - 1]
    BY LaidIs
  <2> QED
    BY <1>3, <1>4, <2>1, <2>2
<1>7. /\ AllLaid(p)' = AllLaid(p) /\ HookedSoFar(p)' = HookedSoFar(p)
      /\ HookAsked(p)' = HookAsked(p)
  BY DEF AllLaid, HookedSoFar, Laid, LayersAsked, HookAsked
<1>8. /\ HookedSoFar(p)[k + 1].ok /\ tree'[p] = HookedSoFar(p)[k + 1].tree
      /\ ops'[p] = From(HookAsked(p), k + 1)
  BY <1>3, <1>4, <1>6
<1> QED
  BY <1>2, <1>5, <1>7, <1>8 DEF Hooking

LEMMA InitStaging == StackInit => Staging
<1> SUFFICES ASSUME StackInit, NEW p \in Proc, req[p].format = "dir", at[p] \notin Ends
             PROVE  Laying(p) /\ ~AllStaged(p)
  BY DEF Staging
<1>1. Shape
  BY InitShape
<1>2. PICK X, Y : LayersAsked(p) \in Seq(X) /\ HookAsked(p) \in Seq(Y)
  BY <1>1, AskedSeqs
<1>3. tree[p] = StagingRoot /\ todo[p] = LayersAsked(p) /\ ops[p] = HookAsked(p)
  BY DEF StackInit, LayersAsked, HookAsked
<1>4. 0 \in 0..Len(LayersAsked(p)) /\ From(LayersAsked(p), 0) = LayersAsked(p)
  BY <1>2, FromIs
<1>5. Laid(p)[0].ok /\ Laid(p)[0].tree = StagingRoot
  <2>1. Laid(p)[0] = Ok(StagingRoot)
    BY <1>1, LaidIs
  <2> QED
    BY <2>1 DEF Ok
<1>6. ~AllStaged(p)
  BY DEF StackInit, AllStaged, Ends
<1> QED
  BY <1>3, <1>4, <1>5, <1>6 DEF Laying

\* A run that goes on with what it has staged.
LEMMA StagingStays ==
  ASSUME Staging, NEW p \in Proc, req[p].format = "dir", at[p] \notin Ends,
         UNCHANGED <<req, own>>, AllStaged(p)' => AllStaged(p) \/ (todo[p] = <<>> /\ ops[p] = <<>>)
  PROVE  (Laying(p) \/ Hooking(p))' /\ (AllStaged(p) => todo[p] = <<>> /\ ops[p] = <<>>)'
<1>1. Laying(p)' <=> Laying(p)
  BY DEF Laying, Laid, LayersAsked, HookAsked, own
<1>2. Hooking(p)' <=> Hooking(p)
  BY DEF Hooking, HookedSoFar, AllLaid, Laid, LayersAsked, HookAsked, own
<1> QED
  BY <1>1, <1>2 DEF Staging, own

LEMMA NextStaging == Shape /\ Where /\ Staging /\ [StackNext]_vars => Staging'
<1> SUFFICES ASSUME Shape, Where, Staging, [StackNext]_vars PROVE Staging'
  OBVIOUS
<1>1. CASE UNCHANGED vars
  <2> SUFFICES ASSUME NEW p \in Proc, req[p].format = "dir", at[p] \notin Ends
               PROVE  (Laying(p) \/ Hooking(p))' /\ (AllStaged(p) => todo[p] = <<>> /\ ops[p] = <<>>)'
    BY <1>1 DEF Staging, vars
  <2> QED
    BY <1>1, StagingStays DEF vars, AllStaged
<1>2. ASSUME NEW p \in Proc, Does(p) PROVE Staging'
  <2>1. Only(p)
    BY <1>2, Others
  <2>2. ASSUME NEW q \in Proc, q # p, req[q].format = "dir", at[q] \notin Ends
        PROVE  (Laying(q) \/ Hooking(q))' /\ (AllStaged(q) => todo[q] = <<>> /\ ops[q] = <<>>)'
    <3>1. /\ req' = req /\ at'[q] = at[q] /\ tree'[q] = tree[q] /\ todo'[q] = todo[q]
          /\ ops'[q] = ops[q]
      BY <2>1, <2>2 DEF Only
    <3>2. Laying(q)' <=> Laying(q)
      BY <3>1 DEF Laying, Laid, LayersAsked, HookAsked
    <3>3. Hooking(q)' <=> Hooking(q)
      BY <3>1 DEF Hooking, HookedSoFar, AllLaid, Laid, LayersAsked, HookAsked
    <3>4. AllStaged(q)' <=> AllStaged(q)
      BY <3>1 DEF AllStaged
    <3> QED
      BY <2>2, <3>1, <3>2, <3>3, <3>4 DEF Staging
  <2>3. ASSUME req[p].format = "dir", at'[p] \notin Ends
        PROVE  (Laying(p) \/ Hooking(p))' /\ (AllStaged(p) => todo[p] = <<>> /\ ops[p] = <<>>)'
    <3>0. ~GiveUp(p)
      BY <2>3, GotoOnly DEF GiveUp, Ends
    <3>1. CASE StageLayer(p)
      <4> DEFINE r == ApplyLayer(tree[p], LayerOf[Head(todo[p])])
      <4>1. /\ at[p] = "stage" /\ at' = at /\ todo[p] # <<>> /\ r.ok /\ req' = req
            /\ tree'[p] = r.tree /\ todo'[p] = Tail(todo[p]) /\ ops'[p] = ops[p]
        BY <3>0, <3>1 DEF StageLayer, Shape
      <4> HIDE DEF r
      <4>2. Laying(p) \/ Hooking(p)
        BY <2>3, <4>1 DEF Staging, Ends
      <4>3. Laying(p)'
        BY <4>1, <4>2, LayMore DEF r
      <4> QED
        BY <4>1, <4>3 DEF AllStaged
    <3>2. CASE StageHook(p)
      <4> DEFINE r == RunOp(tree[p], Head(ops[p]))
      <4>1. /\ at[p] = "stage" /\ at' = at /\ todo[p] = <<>> /\ ops[p] # <<>> /\ r.ok /\ req' = req
            /\ tree'[p] = r.tree /\ ops'[p] = Tail(ops[p]) /\ todo'[p] = todo[p]
        BY <3>0, <3>2 DEF StageHook, Shape
      <4> HIDE DEF r
      <4>2. Laying(p) \/ Hooking(p)
        BY <2>3, <4>1 DEF Staging, Ends
      <4>3. Hooking(p)'
        BY <4>1, <4>2, HookMore DEF r
      <4> QED
        BY <4>1, <4>3 DEF AllStaged
    <3>3. CASE /\ at[p] \notin Ends /\ UNCHANGED <<req, own>>
               /\ AllStaged(p)' => AllStaged(p) \/ (todo[p] = <<>> /\ ops[p] = <<>>)
      BY <2>3, <3>3, StagingStays
    <3>4. AfterCheck(req[p]) = IF Fast(req[p]) THEN "create" ELSE "commit"
      BY <2>3, AfterCheckIs DEF Shape
    <3>5. CASE CheckTarget(p) \/ ClearTarget(p) \/ FinishClear(p)
      <4>1. /\ at[p] \in {"check", "clear", "clearing"}
            /\ at'[p] \in {"clear", "clearing", AfterCheck(req[p])}
            /\ UNCHANGED <<req, own>>
        BY <3>0, <3>5 DEF CheckTarget, ClearTarget, FinishClear, Goto, Shape
      <4>2. AllStaged(p)' => AllStaged(p)
        BY <3>4, <4>1 DEF AllStaged
      <4> QED
        BY <3>3, <4>1, <4>2 DEF Ends
    <3>6. CASE CreateStaging(p) \/ StageEnd(p) \/ BuildOptions(p)
      <4>1. /\ at[p] \in {"create", "stage", "options"} /\ UNCHANGED <<req, own>>
            /\ at[p] = "create" => at'[p] = "stage"
            /\ at[p] = "stage" => todo[p] = <<>> /\ ops[p] = <<>>
        BY <3>6 DEF CreateStaging, StageEnd, BuildOptions, Goto, Shape
      <4>2. AllStaged(p)' => AllStaged(p) \/ (todo[p] = <<>> /\ ops[p] = <<>>)
        BY <4>1 DEF AllStaged
      <4> QED
        BY <3>3, <4>1, <4>2 DEF Ends
    <3>7. CASE CommitDir(p)
      <4>1. at[p] = "commit" /\ at'[p] \in {"done", "mask"} /\ UNCHANGED <<req, own>>
        BY <3>0, <3>7 DEF CommitDir, Goto, Shape
      <4> QED
        BY <3>3, <4>1 DEF AllStaged, Ends
    <3>8. CASE StageBase(p) \/ MergeBase(p) \/ CreateTmp(p) \/ WriteTmp(p) \/ CommitFile(p)
      BY <2>3, <3>8 DEF Where, StageBase, MergeBase, CreateTmp, WriteTmp, CommitFile
    <3>9. CASE MaskTarget(p) \/ Fail(p) \/ Crash(p)
      BY <2>3, <3>0, <3>9, GotoOnly DEF MaskTarget, Fail, Crash, Die, Ends
    <3> QED
      BY <1>2, <3>1, <3>2, <3>5, <3>6, <3>7, <3>8, <3>9 DEF Does, Proceed
  <2> QED
    BY <2>1, <2>2, <2>3 DEF Staging, Only
<1> QED
  BY <1>1, <1>2 DEF StackNext, Does

-----------------------------------------------------------------------------
(***************************************************************************)
(* The target.  A tree there was staged by a run that has committed, or is *)
(* the old one and nobody has anything to mask; a removal is somebody's    *)
(* who may remove; and a file is the old one, or whole if only one run     *)
(* writes the temporary file.                                              *)
(***************************************************************************)
Whole(t) ==
  \E p \in Proc : /\ at[p] \in {"mask"} \cup Ends
                  /\ SameButModes(t, Staged(req[p], req[p].manifests).tree)
TreeInv ==
  out.kind = "dir" => Whole(out.tree) \/ (out \in Old /\ \A p \in Proc : at[p] # "mask")

TornInv ==
  out.kind = "torn" => \E p \in Proc : req[p].force /\ at[p] \in {"clearing", "failed", "dead"}

Packs(p) == req[p].format # "dir"
FileInv ==
  /\ (\A p \in Proc : ~Packs(p)) => (out.kind = "file" => out \in Old)
  /\ \A p \in Proc : Packs(p) /\ (\A q \in Proc : Packs(q) => q = p) =>
       /\ at[p] = "writing" => tmp = FileOut({p}, {p})
       /\ at[p] = "commit" => tmp = FileOut({p}, {})
       /\ at[p] \notin {"writing", "commit"} \cup Ends => tmp = Nothing
       /\ out.kind = "file" => \/ out = FileOut({}, {}) /\ out \in Old
                               \/ out = FileOut({p}, {}) /\ at[p] \in Ends

LEMMA InvsTarget == Shape /\ TreeInv /\ TornInv /\ FileInv => TargetComplete
<1> SUFFICES ASSUME Shape, TreeInv, TornInv, FileInv PROVE TargetComplete
  OBVIOUS
<1>1. CASE out.kind = "dir"
  BY <1>1 DEF TreeInv, Whole, TargetComplete
<1>2. CASE out.kind = "file"
  <2>1. CASE \A p \in Proc : ~Packs(p)
    BY <1>2, <2>1 DEF FileInv, TargetComplete
  <2>2. ASSUME NEW p \in Proc, Packs(p), \A q \in Proc : Packs(q) => q = p PROVE TargetComplete
    <3>1. \/ out \in Old
          \/ out = FileOut({p}, {}) /\ at[p] \in Ends
      BY <1>2, <2>2 DEF FileInv
    <3> QED
      BY <1>2, <3>1 DEF TargetComplete, FileOut
  <2>3. ASSUME NEW p \in Proc, NEW q \in Proc, p # q, Packs(p), Packs(q) PROVE TargetComplete
    <3>1. {req[p].format, req[q].format} \subseteq {"tar", "qcow2"}
      BY <2>3 DEF Shape, Asked, Packs
    <3> QED
      BY <1>2, <2>3, <3>1 DEF TargetComplete
  <2> QED
    BY <2>1, <2>2, <2>3
<1>3. CASE out.kind = "torn"
  BY <1>3 DEF TornInv, TargetComplete
<1> QED
  BY <1>1, <1>2, <1>3 DEF TargetComplete

LEMMA InitTarget == StackInit => TreeInv /\ TornInv /\ FileInv
<1> SUFFICES ASSUME StackInit PROVE TreeInv /\ TornInv /\ FileInv
  OBVIOUS
<1>1. PICK s \in Scenario : req = s.req /\ out = s.out
  BY DEF StackInit
<1>2. out \in Old
  BY <1>1 DEF Old
<1>3. out.kind \in {"nothing", "dir", "file"} /\ (out.kind = "file" => out = FileOut({}, {}))
  <2>1. \/ out \in {Nothing, FileOut({}, {})}
        \/ out.kind = "dir" /\ out = TreeOut(out.tree)
    BY <1>1, StackAssumption
  <2> QED
    BY <2>1, TargetsAre DEF Nothing
<1>4. \A p \in Proc : at[p] \in {"check", "create", "failed"} /\ tmp = Nothing
  BY DEF StackInit
<1>5. TreeInv
  BY <1>2, <1>4 DEF TreeInv
<1>6. TornInv
  BY <1>3 DEF TornInv
<1>7. FileInv
  BY <1>2, <1>3, <1>4 DEF FileInv
<1> QED
  BY <1>5, <1>6, <1>7

\* What a step does to the target.
Replaces(p) ==
  /\ at[p] = "commit" /\ req[p].format = "dir" /\ at'[p] \in {"mask", "done"}
  /\ out' = TreeOut(tree[p])
Masks(p) ==
  /\ at[p] = "mask" /\ at'[p] \in Ends
  /\ out.kind = "dir" /\ out' = TreeOut(Masked(out.tree, req[p].mask))
Renames(p) ==
  /\ at[p] = "commit" /\ Packs(p) /\ at'[p] \in Ends /\ tmp # Nothing
  /\ out' = tmp /\ tmp' = Nothing
Leaves(p) ==
  /\ out' = out /\ at'[p] # "mask"
  /\ at[p] = "clearing" => at'[p] \in {"failed", "dead"}

LEMMA OutIs ==
  ASSUME Shape, Where, NEW p \in Proc, Does(p)
  PROVE  /\ at[p] \notin Ends
         /\ \/ Leaves(p)
            \/ at[p] = "writing" /\ out' = Closed(out, p) /\ at'[p] \in {"commit", "failed"}
            \/ out' = Nothing /\ at'[p] # "mask"
            \/ out' = Torn /\ req[p].force /\ at'[p] = "clearing"
            \/ Replaces(p) \/ Masks(p) \/ Renames(p)
<1>0. AfterCheck(req[p]) \notin {"mask", "clearing"}
  BY AfterCheckIs DEF Shape
<1>1. CASE CheckTarget(p)
  <2>1. at[p] = "check" /\ at'[p] \in {"failed", "clear", AfterCheck(req[p])} /\ out' = out
    BY <1>1 DEF CheckTarget, GiveUp, Goto, Shape, disk
  <2> QED
    BY <1>0, <2>1 DEF Leaves, Ends
<1>2. CASE ClearTarget(p)
  BY <1>0, <1>2 DEF ClearTarget, GiveUp, Goto, Shape, Where, Leaves, Ends
<1>3. CASE FinishClear(p)
  BY <1>0, <1>3 DEF FinishClear, GiveUp, Goto, Shape, Leaves, Ends
<1>4. CASE StageLayer(p) \/ StageHook(p)
  <2>1. at[p] = "stage" /\ at'[p] \in {"stage", "failed"} /\ out' = out
    BY <1>4 DEF StageLayer, StageHook, GiveUp, Goto, Shape, disk
  <2> QED
    BY <2>1 DEF Leaves, Ends
<1>5. CASE CreateStaging(p) \/ StageEnd(p) \/ BuildOptions(p) \/ StageBase(p) \/ MergeBase(p)
           \/ CreateTmp(p)
  <2>1. /\ at[p] \in {"create", "stage", "options", "base", "merge", "write"}
        /\ at'[p] \in {"stage", "commit", "base", "options", "check", "failed", "write", "writing"}
        /\ out' = out
    BY <1>5 DEF CreateStaging, StageEnd, BuildOptions, StageBase, MergeBase, CreateTmp, GiveUp,
                Goto, Shape, disk
  <2> QED
    BY <2>1 DEF Leaves, Ends
<1>6. CASE WriteTmp(p)
  BY <1>6 DEF WriteTmp, GiveUp, Goto, Shape, Ends
<1>7. CASE CommitDir(p)
  BY <1>7 DEF CommitDir, GiveUp, Goto, Shape, Leaves, Replaces, Ends
<1>8. CASE MaskTarget(p)
  BY <1>8 DEF MaskTarget, GiveUp, Goto, Shape, Leaves, Masks, Ends
<1>9. CASE CommitFile(p)
  BY <1>9 DEF CommitFile, TarEnds, ImageEnds, Die, GiveUp, Goto, Shape, Leaves, Renames, Packs, Ends
<1>10. CASE Fail(p)
  BY <1>10 DEF Fail, GiveUp, Goto, Shape, Leaves, Masks, Ends
<1>11. CASE Crash(p)
  BY <1>11 DEF Crash, Die, Goto, Shape, Leaves, Ends, disk
<1> QED
  BY <1>1, <1>2, <1>3, <1>4, <1>5, <1>6, <1>7, <1>8, <1>9, <1>10, <1>11 DEF Does, Proceed

LEMMA MaskSame ==
  ASSUME NEW t, NEW u, NEW m, SameButModes(t, u)
  PROVE  SameButModes(Masked(t, m), u)
<1>1. DOMAIN Masked(t, m) = DOMAIN t
  BY DEF Masked
<1>2. ASSUME NEW q \in DOMAIN t
      PROVE  /\ Masked(t, m)[q].kind = t[q].kind /\ Masked(t, m)[q].data = t[q].data
             /\ Masked(t, m)[q].to = t[q].to
  BY DEF Masked, Node
<1> QED
  BY <1>1, <1>2 DEF SameButModes

\* A run that has committed or ended stays so, and its request does not change.
LEMMA WholeStays ==
  ASSUME Shape, Where, NEW p \in Proc, Does(p), at[p] = "mask" => at'[p] \in Ends, NEW t, Whole(t)
  PROVE  \E q \in Proc : /\ at'[q] \in {"mask"} \cup Ends
                         /\ SameButModes(t, Staged(req[q], req[q].manifests).tree)
<1>1. PICK q \in Proc : /\ at[q] \in {"mask"} \cup Ends
                        /\ SameButModes(t, Staged(req[q], req[q].manifests).tree)
  BY DEF Whole
<1>2. at'[q] \in {"mask"} \cup Ends
  BY <1>1, Others, OutIs DEF Only
<1> QED
  BY <1>1, <1>2

LEMMA MaskEnds ==
  ASSUME Shape, NEW p \in Proc, Does(p), at[p] = "mask"
  PROVE  at'[p] \in Ends
BY DEF Does, Proceed, CheckTarget, ClearTarget, FinishClear, CreateStaging, StageLayer, StageHook,
       StageEnd, BuildOptions, StageBase, MergeBase, CreateTmp, WriteTmp, CommitDir, MaskTarget,
       CommitFile, Fail, Crash, Die, GiveUp, Goto, Shape, Ends

LEMMA NextTree ==
  ASSUME Shape, Where, Staging, TreeInv, NEW p \in Proc, Does(p), out'.kind = "dir"
  PROVE  Whole(out.tree)' \/ (out' \in Old /\ \A q \in Proc : at'[q] # "mask")
<1>1. Only(p) /\ req' = req
  BY Others DEF Only
<1>2. at[p] = "mask" => at'[p] \in Ends
  BY MaskEnds
<1>3. CASE out' = out /\ at'[p] # "mask"
  <2>1. CASE Whole(out.tree)
    <3>1. PICK q \in Proc : /\ at'[q] \in {"mask"} \cup Ends
                            /\ SameButModes(out.tree, Staged(req[q], req[q].manifests).tree)
      BY <1>2, <2>1, WholeStays
    <3> QED
      BY <1>1, <1>3, <3>1 DEF Whole
  <2>2. CASE out \in Old /\ \A q \in Proc : at[q] # "mask"
    BY <1>1, <1>3, <2>2 DEF Only
  <2> QED
    BY <1>3, <2>1, <2>2 DEF TreeInv
<1>4. CASE Replaces(p)
  <2>1. AllStaged(p) /\ at[p] \notin Ends /\ req[p].format = "dir"
    BY <1>4 DEF Replaces, AllStaged, Ends
  <2>2. tree[p] = Staged(req[p], req[p].manifests).tree
    BY <2>1, StagedWhole DEF Staging
  <2>3. out'.tree = tree[p]
    BY <1>4 DEF Replaces, TreeOut
  <2>4. SameButModes(out.tree, Staged(req[p], req[p].manifests).tree)'
    BY <1>1, <2>2, <2>3 DEF SameButModes, Staged, HookRun
  <2>5. at'[p] \in {"mask"} \cup Ends
    BY <1>4 DEF Replaces, Ends
  <2> QED
    BY <2>4, <2>5 DEF Whole
<1>5. CASE Masks(p)
  <2>1. Whole(out.tree)
    BY <1>5 DEF Masks, TreeInv
  <2>2. out'.tree = Masked(out.tree, req[p].mask)
    BY <1>5 DEF Masks, TreeOut
  <2>3. Whole(out'.tree)
    BY <2>1, <2>2, MaskSame DEF Whole
  <2>4. PICK q \in Proc : /\ at'[q] \in {"mask"} \cup Ends
                          /\ SameButModes(out'.tree, Staged(req[q], req[q].manifests).tree)
    <3> DEFINE t == Masked(out.tree, req[p].mask)
    <3>1. Whole(t)
      BY <2>2, <2>3
    <3> HIDE DEF t
    <3>2. \E q \in Proc : /\ at'[q] \in {"mask"} \cup Ends
                          /\ SameButModes(t, Staged(req[q], req[q].manifests).tree)
      BY <1>2, <3>1, WholeStays
    <3> QED
      BY <2>2, <3>2 DEF t
  <2> QED
    BY <1>1, <2>4 DEF Whole
<1>6. CASE Renames(p) \/ out' \in {Nothing, Torn}
  BY <1>6, TargetsAre DEF Renames, Shape
<1>7. CASE at[p] = "writing" /\ out' = Closed(out, p) /\ at'[p] \in {"commit", "failed"}
  <2>1. out' = out
    BY <1>7, TargetsAre DEF Shape
  <2> QED
    BY <1>3, <1>7, <2>1
<1> QED
  BY <1>3, <1>4, <1>5, <1>6, <1>7, OutIs DEF Leaves

LEMMA NextTorn ==
  ASSUME Shape, Where, TornInv, NEW p \in Proc, Does(p), out'.kind = "torn"
  PROVE  \E q \in Proc : req'[q].force /\ at'[q] \in {"clearing", "failed", "dead"}
<1>1. Only(p) /\ req' = req
  BY Others DEF Only
<1>2. at[p] \notin Ends
  BY OutIs
<1>3. CASE out' = Torn /\ req[p].force /\ at'[p] = "clearing"
  BY <1>1, <1>3
<1>4. CASE out.kind = "torn" /\ (at[p] = "clearing" => at'[p] \in {"failed", "dead"})
  <2>1. PICK q \in Proc : req[q].force /\ at[q] \in {"clearing", "failed", "dead"}
    BY <1>4 DEF TornInv
  <2>2. at'[q] \in {"clearing", "failed", "dead"}
    BY <1>1, <1>2, <1>4, <2>1 DEF Only, Ends
  <2> QED
    BY <1>1, <2>1, <2>2
<1>5. CASE at[p] = "writing" /\ out' = Closed(out, p)
  BY <1>4, <1>5, TargetsAre DEF Shape
<1>6. CASE Replaces(p) \/ Masks(p) \/ Renames(p) \/ out' = Nothing
  BY <1>6, TargetsAre DEF Replaces, Masks, Renames, Shape
<1> QED
  BY <1>3, <1>4, <1>5, <1>6, OutIs DEF Leaves

\* What a step of a run that packs does to the two files.
LEMMA TmpIs ==
  ASSUME Shape, Where, NEW p \in Proc, Does(p), Packs(p)
  PROVE  \/ /\ at[p] = "write" /\ at'[p] = "writing" /\ out' = out
            /\ tmp' = FileOut(Writers(tmp) \cup {p}, Writers(tmp) \cup {p})
         \/ /\ at[p] = "writing" /\ at'[p] = "commit"
            /\ out' = Closed(out, p) /\ tmp' = Closed(tmp, p)
         \/ at'[p] \in {"failed", "dead"} /\ out' \in {out, Closed(out, p)}
         \/ Renames(p)
         \/ /\ at[p] \notin {"write", "writing", "commit"}
            /\ at'[p] \notin {"writing", "commit"} \cup Ends
            /\ tmp' = tmp /\ out' \in {out, Nothing}
<1>0. AfterCheck(req[p]) \in {"create", "write", "merge"}
  BY DEF AfterCheck, Fast, Packs, Shape, Asked
<1>1. ~Fast(req[p])
  BY DEF Fast, Packs
<1>2. CASE CheckTarget(p) \/ ClearTarget(p) \/ FinishClear(p)
  BY <1>0, <1>2 DEF CheckTarget, ClearTarget, FinishClear, GiveUp, Goto, Shape, Where, Packs, Ends, disk
<1>3. CASE \/ CreateStaging(p) \/ StageLayer(p) \/ StageHook(p) \/ StageEnd(p)
           \/ BuildOptions(p) \/ StageBase(p) \/ MergeBase(p)
  <2>1. /\ at[p] \in {"create", "stage", "options", "base", "merge"} /\ UNCHANGED disk
        /\ at'[p] \in {"stage", "base", "options", "check", "write", "failed"}
    BY <1>1, <1>3 DEF CreateStaging, StageLayer, StageHook, StageEnd, BuildOptions, StageBase,
                      MergeBase, GiveUp, Goto, Shape
  <2> QED
    BY <2>1 DEF Ends, disk
<1>4. CASE CreateTmp(p) \/ WriteTmp(p)
  BY <1>4 DEF CreateTmp, WriteTmp, GiveUp, Goto, Shape
<1>5. CASE CommitDir(p) \/ MaskTarget(p)
  BY <1>5 DEF CommitDir, MaskTarget, Where, Packs
<1>6. CASE CommitFile(p)
  BY <1>6 DEF CommitFile, TarEnds, ImageEnds, Die, GiveUp, Goto, Shape, Renames, Ends
<1>7. CASE Fail(p) \/ Crash(p)
  BY <1>7 DEF Fail, Crash, Die, GiveUp, Goto, Shape, Where, Packs, disk
<1> QED
  BY <1>2, <1>3, <1>4, <1>5, <1>6, <1>7 DEF Does, Proceed

\* A run that makes a directory has no part in the files, except to remove one.
LEMMA FilesAre ==
  ASSUME Shape, Where, NEW p \in Proc, Does(p), ~Packs(p)
  PROVE  tmp' = tmp /\ (out'.kind = "file" => out' = out)
<1>1. tmp' = tmp
  BY DEF Does, Proceed, CheckTarget, ClearTarget, FinishClear, CreateStaging, StageLayer, StageHook,
         StageEnd, BuildOptions, StageBase, MergeBase, CreateTmp, WriteTmp, CommitDir,
         MaskTarget, CommitFile, Fail, Crash, disk, Where, Packs
<1>2. at[p] # "writing" /\ ~Renames(p)
  BY DEF Where, Packs, Renames
<1>3. out' = out \/ out' \in {Nothing, Torn} \/ \E t : out' = TreeOut(t)
  BY <1>2, OutIs DEF Leaves, Replaces, Masks
<1> QED
  BY <1>1, <1>3, TargetsAre

LEMMA NextFile == Shape /\ Where /\ FileInv /\ [StackNext]_vars => FileInv'
<1> SUFFICES ASSUME Shape, Where, FileInv, [StackNext]_vars PROVE FileInv'
  OBVIOUS
<1>1. CASE UNCHANGED vars
  BY <1>1 DEF vars, disk, FileInv, Packs, Old
<1>2. ASSUME NEW p \in Proc, Does(p) PROVE FileInv'
  <2>1. req' = req /\ (\A q \in Proc \ {p} : at'[q] = at[q]) /\ \A q \in Proc : Packs(q)' <=> Packs(q)
    BY <1>2, Others DEF Only, Packs
  <2>2. ASSUME \A q \in Proc : ~Packs(q), out'.kind = "file" PROVE out' \in Old
    BY <1>2, <2>2, FilesAre DEF FileInv
  <2>3. ASSUME NEW r \in Proc, Packs(r), \A q \in Proc : Packs(q) => q = r
        PROVE  /\ at'[r] = "writing" => tmp' = FileOut({r}, {r})
               /\ at'[r] = "commit" => tmp' = FileOut({r}, {})
               /\ at'[r] \notin {"writing", "commit"} \cup Ends => tmp' = Nothing
               /\ out'.kind = "file" => \/ out' = FileOut({}, {}) /\ out' \in Old
                                        \/ out' = FileOut({r}, {}) /\ at'[r] \in Ends
    <3>1. /\ at[r] = "writing" => tmp = FileOut({r}, {r})
          /\ at[r] = "commit" => tmp = FileOut({r}, {})
          /\ at[r] \notin {"writing", "commit"} \cup Ends => tmp = Nothing
          /\ out.kind = "file" => \/ out = FileOut({}, {}) /\ out \in Old
                                  \/ out = FileOut({r}, {}) /\ at[r] \in Ends
      BY <2>3 DEF FileInv
    <3>2. CASE p # r
      <4>1. tmp' = tmp /\ (out'.kind = "file" => out' = out) /\ at'[r] = at[r]
        BY <1>2, <2>1, <2>3, <3>2, FilesAre
      <4> QED
        BY <3>1, <4>1
    <3>3. CASE p = r
      <4>1. at[r] \notin Ends
        BY <1>2, <3>3, OutIs
      <4>2. out.kind = "file" => out = FileOut({}, {}) /\ out \in Old
        BY <3>1, <4>1 DEF Ends
      <4>3. Closed(out, r) = out
        <5>1. Closed(FileOut({}, {}), r) = FileOut({}, {})
          BY DEF Closed, FileOut
        <5> QED
          BY <4>2, <5>1, TargetsAre DEF Shape
      <4>4. CASE /\ at[r] = "write" /\ at'[r] = "writing" /\ out' = out
                 /\ tmp' = FileOut(Writers(tmp) \cup {r}, Writers(tmp) \cup {r})
        <5>1. Writers(tmp) = {}
          BY <3>1, <4>4 DEF Writers, Nothing, Ends
        <5> QED
          BY <4>2, <4>4, <5>1
      <4>5. CASE /\ at[r] = "writing" /\ at'[r] = "commit"
                 /\ out' = Closed(out, r) /\ tmp' = Closed(tmp, r)
        <5>1. Closed(FileOut({r}, {r}), r) = FileOut({r}, {})
          BY DEF Closed, FileOut
        <5> QED
          BY <3>1, <4>2, <4>3, <4>5, <5>1
      <4>6. CASE at'[r] \in {"failed", "dead"} /\ out' \in {out, Closed(out, r)}
        BY <4>2, <4>3, <4>6 DEF Ends
      <4>7. CASE Renames(r)
        BY <3>1, <4>7 DEF Renames, Ends
      <4>8. CASE /\ at[r] \notin {"write", "writing", "commit"}
                 /\ at'[r] \notin {"writing", "commit"} \cup Ends
                 /\ tmp' = tmp /\ out' \in {out, Nothing}
        BY <3>1, <4>1, <4>2, <4>8, TargetsAre
      <4> QED
        BY <1>2, <2>3, <3>3, <4>4, <4>5, <4>6, <4>7, <4>8, TmpIs
    <3> QED
      BY <3>2, <3>3
  <2>4. Old' = Old
    BY DEF Old
  <2> QED
    BY <2>1, <2>2, <2>3, <2>4 DEF FileInv
<1> QED
  BY <1>1, <1>2 DEF StackNext, Does

\* Nobody ever finds a partial output under the target's name (Output::commit,
\* dir.rs, tar.rs, qcow2.rs): a tree there was there at first or is all of what
\* some run stages, permissions aside; a file is complete unless two runs pack;
\* and what a removal leaves is a run's with --force.
THEOREM TargetIsWhole == StackSpec => []TargetComplete
<1> DEFINE Inv == Staging /\ TreeInv /\ TornInv /\ FileInv
<1>1. StackInit => Inv
  BY InitStaging, InitTarget
<1>2. Shape /\ Where /\ Inv /\ [StackNext]_vars => Inv'
  <2> SUFFICES ASSUME Shape, Where, Inv, [StackNext]_vars PROVE TreeInv' /\ TornInv'
    BY NextStaging, NextFile
  <2>1. CASE UNCHANGED vars
    <3>1. UNCHANGED <<req, at, out>>
      BY <2>1 DEF vars, disk
    <3>2. Whole(out.tree) => Whole(out.tree)'
      BY <3>1 DEF Whole
    <3> QED
      BY <3>1, <3>2 DEF TreeInv, TornInv, Old
  <2>2. ASSUME NEW p \in Proc, Does(p) PROVE TreeInv' /\ TornInv'
    <3>1. TreeInv'
      BY <2>2, NextTree DEF TreeInv, Old
    <3>2. TornInv'
      BY <2>2, NextTorn DEF TornInv
    <3> QED
      BY <3>1, <3>2
  <2> QED
    BY <2>1, <2>2 DEF StackNext, Does
<1>3. Shape /\ Inv => TargetComplete
  BY InvsTarget
<1> HIDE DEF Inv
<1> QED
  BY <1>1, <1>2, <1>3, ShapeAndWhere, PTL DEF StackSpec


-----------------------------------------------------------------------------
\* Only a merge goes on to write the image.
LEMMA MergeIs ==
  ASSUME Shape, NEW p \in Proc, Does(p), at[p] = "merge", at'[p] = "write"
  PROVE  /\ Merge(BaseTree(req[p]).tree, tree[p]).ok
         /\ tree'[p] = Merge(BaseTree(req[p]).tree, tree[p]).tree
<1> DEFINE merged == Merge(BaseTree(req[p]).tree, tree[p])
<1>1. ~Fail(p) /\ ~Crash(p)
  BY DEF Fail, Crash, Die, GiveUp, Goto, Shape
<1>2. MergeBase(p)
  BY <1>1 DEF Does, Proceed, CheckTarget, ClearTarget, FinishClear, CreateStaging, StageLayer,
              StageHook, StageEnd, BuildOptions, StageBase, CreateTmp, WriteTmp, CommitDir,
              MaskTarget, CommitFile
<1>3. ~GiveUp(p)
  BY DEF GiveUp, Goto, Shape
<1>4. merged.ok /\ tree' = [tree EXCEPT ![p] = merged.tree]
  BY <1>2, <1>3 DEF MergeBase
<1> HIDE DEF merged
<1>5. tree'[p] = merged.tree
  BY <1>4 DEF Shape
<1> QED
  BY <1>4, <1>5 DEF merged

\* In a merge the user's files win over the base's (qcow2/mod.rs, merge_trees):
\* the image has each of them as the user has it, or a link on its path, unless
\* a link of either tree may lead something else to where the file lies.
THEOREM UsersFilesWin == StackSpec => UserWins
<1>1. Shape /\ Trees /\ [StackNext]_vars =>
        [\A p \in Proc : at[p] = "merge" /\ at'[p] = "write" =>
           \A q \in DOMAIN tree[p] : tree[p][q].kind # "dir" =>
             \/ q \in DOMAIN tree'[p] /\ tree'[p][q] = tree[p][q]
             \/ \E r \in Prefixes(q) : r \in DOMAIN tree'[p] /\ tree'[p][r].kind = "link"
             \/ LeadsAbove(BaseTree(req[p]).tree, q) \/ LeadsAbove(tree[p], q)]_vars
  <2> SUFFICES ASSUME Shape, Trees, StackNext, NEW p \in Proc, at[p] = "merge", at'[p] = "write",
                      NEW q \in DOMAIN tree[p], tree[p][q].kind # "dir",
                      ~LeadsAbove(BaseTree(req[p]).tree, q), ~LeadsAbove(tree[p], q)
               PROVE  \/ q \in DOMAIN tree'[p] /\ tree'[p][q] = tree[p][q]
                      \/ \E r \in Prefixes(q) : r \in DOMAIN tree'[p] /\ tree'[p][r].kind = "link"
    BY DEF vars
  <2>1. PICK a \in Proc : Does(a)
    BY DEF StackNext, Does
  <2>2. a = p
    BY <2>1, Others DEF Only
  <2> DEFINE base == BaseTree(req[p]).tree
             user == tree[p]
  <2>3. Grown(user)
    BY DEF Trees
  <2>4. Grown(base)
    <3>1. AreManifests(req[p].base)
      BY DEF Shape, Asked
    <3> QED
      BY <3>1, StagedGrown DEF BaseTree
  <2>5. Merge(base, user).ok /\ tree'[p] = Merge(base, user).tree
    BY <2>1, <2>2, MergeIs
  <2>6. Arrived(tree'[p], q, user[q])
    <3>1. ~LeadsAbove(base, q) /\ ~LeadsAbove(user, q) /\ user[q].kind # "dir"
      OBVIOUS
    <3> HIDE DEF base
    <3>2. Arrived(Merge(base, user).tree, q, user[q])
      BY <2>3, <2>4, <2>5, <3>1, MergeArrives
    <3> QED
      BY <2>5, <3>2
  <2>7. Prefixes(q) = {r \in Path : IsPrefix(r, q)}
    BY <2>3, GrownAt, PrefixesAre
  <2> QED
    BY <2>6, <2>7 DEF Arrived
<1> QED
  BY <1>1, ShapeAndWhere, InitShape, NextShape, InitTrees, NextTrees, PTL DEF StackSpec, UserWins

-----------------------------------------------------------------------------
\* Once a tar output has found a directory in its staging tree, it keeps it.
Rooted ==
  \A p \in Proc : req[p].format = "tar" /\ at[p] \in {"clear", "write"} => <<>> \in DOMAIN tree[p]

LEMMA InitRooted == StackInit => Rooted
  BY InitShape DEF StackInit, Rooted, Fast

LEMMA NextRooted == Shape /\ Where /\ Rooted /\ [StackNext]_vars => Rooted'
<1> SUFFICES ASSUME Shape, Where, Rooted, [StackNext]_vars PROVE Rooted'
  OBVIOUS
<1>1. CASE UNCHANGED vars
  BY <1>1 DEF vars, own, Rooted
<1>2. ASSUME NEW q \in Proc, Does(q) PROVE Rooted'
  <2>1. ASSUME NEW p \in Proc, req[p].format = "tar", at'[p] \in {"clear", "write"}, p = q
        PROVE  <<>> \in DOMAIN tree'[p]
    <3>1. ~Fast(req[p]) /\ AfterCheck(req[p]) = "write"
      BY <2>1 DEF Fast, AfterCheck
    <3>2. ~GiveUp(p) /\ \A s : Goto(p, s) => at'[p] = s
      BY <2>1 DEF GiveUp, Goto, Shape
    <3>3. CASE CheckTarget(p)
      BY <3>1, <3>2, <3>3 DEF CheckTarget, own
    <3>4. CASE ClearTarget(p)
      BY <2>1, <3>2, <3>4 DEF ClearTarget, Rooted, own
    <3>5. CASE FinishClear(p) \/ MergeBase(p)
      BY <2>1, <3>5 DEF FinishClear, MergeBase, Where
    <3>6. CASE StageLayer(p) \/ StageHook(p)
      BY <2>1, <3>2, <3>6 DEF StageLayer, StageHook
    <3>7. CASE \/ CreateStaging(p) \/ StageEnd(p) \/ BuildOptions(p) \/ StageBase(p)
               \/ CreateTmp(p) \/ WriteTmp(p) \/ CommitDir(p) \/ MaskTarget(p) \/ CommitFile(p)
               \/ Fail(p) \/ Crash(p)
      BY <2>1, <3>1, <3>2, <3>7 DEF CreateStaging, StageEnd, BuildOptions, StageBase, CreateTmp,
                            WriteTmp, CommitDir, MaskTarget, CommitFile, TarEnds, ImageEnds,
                            Fail, Crash, Die
    <3> QED
      BY <1>2, <2>1, <3>3, <3>4, <3>5, <3>6, <3>7 DEF Does, Proceed
  <2>2. req' = req /\ \A p \in Proc \ {q} : at'[p] = at[p] /\ tree'[p] = tree[p]
    BY <1>2, Others DEF Only
  <2> QED
    BY <2>1, <2>2 DEF Rooted
<1> QED
  BY <1>1, <1>2 DEF StackNext, Does

\* A tar output is a layer (tar.rs, apply.rs): unpacked into an empty directory
\* it gives the staged tree back, links, contents and permission bits and all, if
\* every directory is open to its owner and no name in it is that of a whiteout.
THEOREM TarOutputIsLayer == StackSpec => []TarIsLayer
<1>1. Trees /\ Rooted => TarIsLayer
  <2> SUFFICES ASSUME Trees, Rooted, NEW p \in Proc, at[p] = "write", req[p].format = "tar",
                      \A q \in DOMAIN tree[p] : ~IsWhiteout(q)
               PROVE  LET again == ApplyLayer(EmptyTree, Archive(tree[p]))
                      IN again.ok /\ again.tree = [tree[p] EXCEPT ![<<>>] = EmptyTree[<<>>]]
    BY DEF TarIsLayer
  <2>1. Grown(tree[p]) /\ <<>> \in DOMAIN tree[p] /\ NoWhiteouts(tree[p])
    BY DEF Trees, Rooted, NoWhiteouts
  <2> QED
    BY <2>1, ArchiveUnpacked
<1> QED
  BY <1>1, ShapeAndWhere, InitShape, NextShape, InitTrees, NextTrees, InitRooted, NextRooted,
     PTL DEF StackSpec

-----------------------------------------------------------------------------
LEMMA RootOfDir ==
  ASSUME NEW t, Grown(t), NEW p \in Path, IsDir(t, p)
  PROVE  <<>> \in DOMAIN t
<1>1. <<>> \in Path /\ IsPrefix(<<>>, p) /\ Exists(t, p)
  BY PrefixSelf DEF IsDir, Is, Exists, Path
<1>2. Stat(t, <<>>) \in DOMAIN t
  BY <1>1, ThereAbove
<1> QED
  BY <1>2, StatRoot

\* A move of several matches into a directory that is there (op_move) succeeds,
\* unless a system call fails or a directory is closed, and no file is lost: each
\* is put beside the others, none over another.
THEOREM MovesLoseNothing == StackSpec => MoveKeepsFiles
<1>1. Shape /\ Trees /\ [StackNext]_vars =>
        [\A p \in Proc \ Faulty :
           /\ at[p] = "stage" /\ todo[p] = <<>> /\ ops[p] # <<>>
           /\ <<at[p], ops[p]>>' # <<at[p], ops[p]>>
           /\ Head(ops[p]).op = "move" /\ SideBySide(tree[p], Head(ops[p])) /\ AllOpen(tree[p])
           => ops'[p] # ops[p] /\ Contents(tree[p]) = Contents(tree'[p])]_vars
  <2> SUFFICES ASSUME Shape, Trees, StackNext, NEW p \in Proc \ Faulty,
                      at[p] = "stage", todo[p] = <<>>, ops[p] # <<>>,
                      at'[p] # at[p] \/ ops'[p] # ops[p],
                      Head(ops[p]).op = "move", SideBySide(tree[p], Head(ops[p]))
               PROVE  ops'[p] # ops[p] /\ Contents(tree[p]) = Contents(tree'[p])
    BY DEF vars
  <2>1. PICK a \in Proc : Does(a)
    BY DEF StackNext, Does
  <2>2. a = p
    BY <2>1, Others DEF Only
  <2>3. StageHook(p)
    BY <2>1, <2>2 DEF Does, Proceed, CheckTarget, ClearTarget, FinishClear, CreateStaging,
                      StageLayer, StageEnd, BuildOptions, StageBase, MergeBase, CreateTmp,
                      WriteTmp, CommitDir, MaskTarget, CommitFile, Fail, Crash
  <2> DEFINE o == Head(ops[p])
             H == HookRun(req[p], req[p].manifests)
             r == RunOp(tree[p], o)
  <2>4. Grown(tree[p]) /\ ops[p] \in Seq(ToSet(H))
    BY DEF Trees
  <2>5. IsOp(o)
    <3>1. \A i \in DOMAIN H : IsOp(H[i])
      BY ManifestsAre DEF Shape, Asked
    <3> HIDE DEF H
    <3>2. o \in ToSet(H)
      BY <2>4, HeadTailProperties
    <3> QED
      BY <3>1, <3>2 DEF ToSet
  <2>6. r = RunEach(tree[p], o)
    <3>1. o.op = "move" /\ IsDir(tree[p], o.to) /\ o.to \in Path
      BY <2>5 DEF SideBySide, IsOp
    <3> HIDE DEF o
    <3>2. <<>> \in DOMAIN tree[p]
      BY <2>4, <3>1, RootOfDir
    <3> QED
      BY <3>1, <3>2 DEF RunOp
  <2>7. r.ok /\ Contents(r.tree) = Contents(tree[p])
    <3>1. o.op = "move" /\ SideBySide(tree[p], o)
      OBVIOUS
    <3> HIDE DEF o
    <3> QED
      BY <2>4, <2>5, <2>6, <3>1, MovesKeep
  <2>8. tree' = [tree EXCEPT ![p] = r.tree] /\ ops' = [ops EXCEPT ![p] = Tail(@)]
    BY <2>3, <2>7 DEF StageHook
  <2> HIDE DEF r, o, H
  <2>9. tree'[p] = r.tree /\ ops'[p] = Tail(ops[p])
    BY <2>8 DEF Shape
  <2>10. Tail(ops[p]) # ops[p]
    <3> DEFINE rest == Tail(ops[p])
    <3>1. Len(rest) = Len(ops[p]) - 1 /\ Len(ops[p]) \in Nat
      BY <2>4, HeadTailProperties
    <3> HIDE DEF rest
    <3>2. Len(rest) # Len(ops[p])
      BY <3>1
    <3> QED
      BY <3>2 DEF rest
  <2> QED
    BY <2>7, <2>9, <2>10
<1> QED
  BY <1>1, ShapeAndWhere, InitShape, NextShape, InitTrees, NextTrees, PTL DEF StackSpec, MoveKeepsFiles

-----------------------------------------------------------------------------
(***************************************************************************)
(* The layers of a run, laid one upon the other, give the union of them as *)
(* long as each is regular and plain, and then none is refused.            *)
(***************************************************************************)
LEMMA LayersAre ==
  ASSUME Shape, NEW p \in Proc
  PROVE  /\ \E X : LayersOf(p) \in Seq(X)
         /\ Len(LayersOf(p)) = Len(LayersAsked(p)) /\ Len(LayersAsked(p)) \in Nat
         /\ \A i \in 1..Len(LayersAsked(p)) :
              /\ LayersAsked(p)[i] \in DOMAIN LayerOf
              /\ LayersOf(p)[i] = LayerOf[LayersAsked(p)[i]]
<1> DEFINE s == LayersAsked(p)
           L == LayersOf(p)
<1>1. s \in Seq(DOMAIN LayerOf)
  BY ManifestsAre DEF Shape, Asked, LayersAsked
<1>2. L = [i \in DOMAIN s |-> LayerOf[s[i]]]
  BY DEF LayersOf, LayersAsked
<1> HIDE DEF s, L
<1>3. Len(s) \in Nat /\ DOMAIN s = 1..Len(s) /\ \A i \in 1..Len(s) : s[i] \in DOMAIN LayerOf
  BY <1>1, LenProperties
<1>4. L \in Seq({LayerOf[l] : l \in DOMAIN LayerOf}) /\ Len(L) = Len(s)
  BY <1>2, <1>3
<1> QED
  BY <1>2, <1>3, <1>4 DEF s, L

LEMMA LaidUnion ==
  ASSUME Shape, NEW p \in Proc, Wellformed(LayersOf(p)), NEW k \in 0..Len(LayersAsked(p))
  PROVE  Laid(p)[k].ok /\ Laid(p)[k].tree = Unions(LayersOf(p))[k]
<1> DEFINE n == Len(LayersAsked(p))
           L == LayersOf(p)
           u == Unions(L)
           r == Laid(p)
           S == {j \in 0..n : /\ r[j].ok /\ r[j].tree = u[j]
                              /\ Grown(u[j]) /\ <<>> \in DOMAIN u[j]}
<1>1. n \in Nat /\ Len(L) = n
  BY LayersAre
<1>2. PICK X : L \in Seq(X)
  BY LayersAre
<1>3. u[0] = StagingRoot /\ \A i \in 1..n : u[i] = Union(u[i - 1], L[i])
  BY <1>1, <1>2, UnionsAre
<1>4. /\ r[0] = Ok(StagingRoot)
      /\ \A i \in 1..n : r[i] = IF r[i - 1].ok THEN ApplyLayer(r[i - 1].tree, L[i]) ELSE r[i - 1]
  BY LaidIs, LayersAre
<1>5. \A i \in 1..n : Regular(L[i]) /\ Plain(u[i - 1], L[i])
  BY <1>1, <1>2, LenProperties DEF Wellformed
<1>6. ASSUME NEW i \in 1..n
      PROVE  L[i] \in Seq(ToSet(L[i])) /\ \A j \in DOMAIN L[i] : IsEntry(L[i][j])
  BY LayersAre, StackAssumption DEF IsSequence
<1> HIDE DEF n, L, u, r
<1>7. 0 \in S
  <2>1. Grown(StagingRoot) /\ <<>> \in DOMAIN StagingRoot
    BY RootsGrown DEF StagingRoot
  <2> QED
    BY <1>1, <1>3, <1>4, <2>1 DEF Ok
<1>8. ASSUME NEW j \in 0..(n - 1), j \in S PROVE j + 1 \in S
  <2>1. PICK i \in 1..n : i = j + 1 /\ i - 1 = j /\ i \in 0..n
    BY <1>1
  <2>2. r[i] = ApplyLayer(u[j], L[i]) /\ u[i] = Union(u[j], L[i])
    BY <1>3, <1>4, <1>8, <2>1
  <2>3. Regular(L[i]) /\ Plain(u[j], L[i])
    BY <1>5, <2>1
  <2>4. /\ ApplyLayer(u[j], L[i]).ok /\ ApplyLayer(u[j], L[i]).tree = Union(u[j], L[i])
        /\ Grown(Union(u[j], L[i])) /\ <<>> \in DOMAIN Union(u[j], L[i])
    BY <1>6, <1>8, <2>3, LayerIsUnion
  <2> QED
    BY <2>1, <2>2, <2>4
<1>9. k \in S
  <2> HIDE DEF S
  <2>1. 0..n \subseteq S
    BY <1>1, <1>7, <1>8, Climb
  <2> QED
    BY <2>1 DEF n
<1> QED
  BY <1>9 DEF r, u, L

\* Until its hook has run, a run of any format has staged what its request says;
\* then no layer is left; and one that gives up with layers left, though no call
\* fails, does so for a layer.
Unfolding ==
  \A p \in Proc :
    /\ at[p] \in {"create", "stage"} \/ (Fast(req[p]) /\ at[p] \in Phases)
         => Laying(p) \/ Hooking(p)
    /\ ~Fast(req[p]) /\ at[p] \in Phases \ {"create", "stage"} => todo[p] = <<>>
    /\ p \notin Faulty /\ ~Fast(req[p]) /\ at[p] = "failed" /\ todo[p] # <<>>
         => ~Wellformed(LayersOf(p))

LEMMA InitUnfolding == StackInit => Unfolding
<1> SUFFICES ASSUME StackInit, NEW p \in Proc
             PROVE  /\ at[p] \in Phases => Laying(p)
                    /\ ~Fast(req[p]) => at[p] \in {"create", "failed"}
                    /\ at[p] = "failed" => todo[p] = <<>>
  BY DEF Unfolding, Phases
<1>1. Shape
  BY InitShape
<1>2. PICK X, Y : LayersAsked(p) \in Seq(X) /\ HookAsked(p) \in Seq(Y)
  BY <1>1, AskedSeqs
<1>3. tree[p] = StagingRoot /\ todo[p] = LayersAsked(p) /\ ops[p] = HookAsked(p)
  BY DEF StackInit, LayersAsked, HookAsked
<1>4. 0 \in 0..Len(LayersAsked(p)) /\ From(LayersAsked(p), 0) = LayersAsked(p)
  BY <1>2, FromIs
<1>5. Laid(p)[0].ok /\ Laid(p)[0].tree = StagingRoot
  <2>1. Laid(p)[0] = Ok(StagingRoot)
    BY <1>1, LaidIs
  <2> QED
    BY <2>1 DEF Ok
<1>6. at[p] = CASE req[p].manifests = <<>> -> "failed"
                [] req[p].manifests # <<>> /\ Fast(req[p]) -> "check"
                [] OTHER -> "create"
  BY DEF StackInit
<1>7. ASSUME at[p] = "failed" PROVE todo[p] = <<>>
  <2>1. req[p].manifests = <<>>
    BY <1>6, <1>7
  <2>2. <<>> \in Seq({}) /\ DOMAIN <<>> = {}
    OBVIOUS
  <2>3. Flatten(<<>>) \in Seq({})
    BY <2>2, FlattenIs
  <2>4. \A s \in Seq({}) : s = <<>>
    OBVIOUS
  <2> QED
    BY <1>3, <2>1, <2>3, <2>4 DEF LayersAsked
<1> QED
  BY <1>3, <1>4, <1>5, <1>6, <1>7 DEF Laying

\* What a run has staged, and what it leaves, depends on nothing else.
LEMMA UnfoldingSame ==
  ASSUME NEW p \in Proc, req' = req, tree'[p] = tree[p], todo'[p] = todo[p], ops'[p] = ops[p]
  PROVE  /\ (Laying(p) \/ Hooking(p))' <=> Laying(p) \/ Hooking(p)
         /\ Wellformed(LayersOf(p))' <=> Wellformed(LayersOf(p))
<1>1. Laying(p)' <=> Laying(p)
  BY DEF Laying, Laid, LayersAsked, HookAsked
<1>2. Hooking(p)' <=> Hooking(p)
  BY DEF Hooking, HookedSoFar, AllLaid, Laid, LayersAsked, HookAsked
<1>3. LayersOf(p)' = LayersOf(p)
  BY DEF LayersOf
<1>4. Wellformed(LayersOf(p))' <=> Wellformed(LayersOf(p))
  BY <1>3 DEF Wellformed
<1> QED
  BY <1>1, <1>2, <1>4

\* The next layer is applied, if the layers are well-formed.
LEMMA LayerSucceeds ==
  ASSUME Shape, NEW p \in Proc, Laying(p) \/ Hooking(p), todo[p] # <<>>, Wellformed(LayersOf(p))
  PROVE  ApplyLayer(tree[p], LayerOf[Head(todo[p])]).ok
<1>1. PICK X, Y : LayersAsked(p) \in Seq(X) /\ HookAsked(p) \in Seq(Y)
  BY AskedSeqs
<1>2. PICK k \in 0..Len(LayersAsked(p)) :
        /\ Laid(p)[k].ok /\ tree[p] = Laid(p)[k].tree
        /\ todo[p] = From(LayersAsked(p), k) /\ ops[p] = HookAsked(p)
  BY DEF Laying, Hooking
<1>3. /\ k # Len(LayersAsked(p)) /\ k + 1 \in 1..Len(LayersAsked(p))
      /\ Head(todo[p]) = LayersAsked(p)[k + 1]
  BY <1>1, <1>2, FromIs
<1>4. PICK i \in 1..Len(LayersAsked(p)) : i = k + 1 /\ i - 1 = k /\ i \in 0..Len(LayersAsked(p))
  BY <1>3
<1>5. Laid(p)[i] = IF Laid(p)[i - 1].ok
                     THEN ApplyLayer(Laid(p)[i - 1].tree, LayerOf[LayersAsked(p)[i]])
                     ELSE Laid(p)[i - 1]
  BY LaidIs
<1>6. Laid(p)[i].ok
  BY <1>4, LaidUnion
<1> QED
  BY <1>2, <1>3, <1>4, <1>5, <1>6

LEMMA NextUnfolding == Shape /\ Where /\ Unfolding /\ [StackNext]_vars => Unfolding'
<1> SUFFICES ASSUME Shape, Where, Unfolding, [StackNext]_vars PROVE Unfolding'
  OBVIOUS
<1> DEFINE Begun(p) == \/ at[p] \in {"create", "stage"}
                       \/ Fast(req[p]) /\ at[p] \in Phases
           Late(p) == ~Fast(req[p]) /\ at[p] \in Phases \ {"create", "stage"}
           Gone(p) == p \notin Faulty /\ ~Fast(req[p]) /\ at[p] = "failed" /\ todo[p] # <<>>
           Fine(p) == /\ Begun(p) => Laying(p) \/ Hooking(p)
                      /\ Late(p) => todo[p] = <<>>
                      /\ Gone(p) => ~Wellformed(LayersOf(p))
<1>0. \A p \in Proc : Fine(p)
  BY DEF Unfolding
<1>1. ASSUME NEW p \in Proc, req' = req, at'[p] = at[p], tree'[p] = tree[p],
             todo'[p] = todo[p], ops'[p] = ops[p]
      PROVE  Fine(p)'
  BY <1>0, <1>1, UnfoldingSame
<1>2. ASSUME NEW p \in Proc, Does(p) PROVE Fine(p)'
  <2>0. /\ at[p] \notin Ends /\ req' = req /\ at'[p] \in Phases \cup Ends
        /\ (p \notin Faulty => ~Fail(p) /\ ~Crash(p))
        /\ Wellformed(LayersOf(p))' <=> Wellformed(LayersOf(p))
    <3>1. LayersOf(p)' = LayersOf(p) /\ req' = req /\ at'[p] \in Phases \cup Ends
      BY <1>2, Others DEF Only, LayersOf
    <3>2. Wellformed(LayersOf(p))' <=> Wellformed(LayersOf(p))
      BY <3>1 DEF Wellformed
    <3>3. at[p] \notin Ends
      BY <1>2, OutIs
    <3> QED
      BY <3>1, <3>2, <3>3 DEF Fail, Crash
  \* It gives up, or fails: layers are left only at the first phases.
  <2>1. ASSUME at'[p] = "failed", UNCHANGED own,
               p \notin Faulty /\ ~Fast(req[p]) /\ todo[p] # <<>> =>
                 at[p] \notin {"create", "stage"} \/ ~Wellformed(LayersOf(p))
        PROVE  Fine(p)'
    <3>1. at'[p] = "failed" /\ todo'[p] = todo[p]
      BY <2>1 DEF own
    <3>2. ~Begun(p)' /\ ~Late(p)'
      BY <3>1 DEF Phases
    <3>3. Gone(p)' => ~Wellformed(LayersOf(p))'
      <4> SUFFICES ASSUME p \notin Faulty, ~Fast(req[p]), todo[p] # <<>>
                   PROVE  ~Wellformed(LayersOf(p))
        BY <2>0, <3>1
      <4>1. ~Late(p)
        BY <1>0
      <4>2. at[p] \in Phases
        BY <2>0 DEF Shape
      <4> QED
        BY <2>1, <4>1, <4>2
    <3> QED
      BY <3>2, <3>3
  <2>2. CASE StageLayer(p)
    <3> DEFINE r == ApplyLayer(tree[p], LayerOf[Head(todo[p])])
    <3>1. at[p] = "stage" /\ todo[p] # <<>> /\ (Laying(p) \/ Hooking(p))
      BY <1>0, <2>2 DEF StageLayer
    <3>2. CASE r.ok
      <4>1. /\ at' = at /\ req' = req /\ tree'[p] = r.tree
            /\ todo'[p] = Tail(todo[p]) /\ ops'[p] = ops[p]
        BY <2>2, <3>2 DEF StageLayer, Shape
      <4> HIDE DEF r
      <4>2. Laying(p)'
        BY <3>1, <3>2, <4>1, LayMore DEF r
      <4> QED
        BY <3>1, <4>1, <4>2
    <3>3. CASE ~r.ok
      <4>1. GiveUp(p)
        BY <2>2, <3>3 DEF StageLayer
      <4>2. ~Wellformed(LayersOf(p))
        BY <3>1, <3>3, LayerSucceeds
      <4> QED
        BY <2>0, <2>1, <4>1, <4>2, GiveUpOnly
    <3> QED
      BY <3>2, <3>3
  <2>3. CASE StageHook(p)
    <3> DEFINE r == RunOp(tree[p], Head(ops[p]))
    <3>1. at[p] = "stage" /\ todo[p] = <<>> /\ ops[p] # <<>> /\ (Laying(p) \/ Hooking(p))
      BY <1>0, <2>3 DEF StageHook
    <3>2. CASE r.ok
      <4>1. /\ at' = at /\ req' = req /\ tree'[p] = r.tree
            /\ ops'[p] = Tail(ops[p]) /\ todo'[p] = todo[p]
        BY <2>3, <3>2 DEF StageHook, Shape
      <4> HIDE DEF r
      <4>2. Hooking(p)'
        BY <3>1, <3>2, <4>1, HookMore DEF r
      <4> QED
        BY <3>1, <4>1, <4>2
    <3>3. CASE ~r.ok
      <4>1. GiveUp(p)
        BY <2>3, <3>3 DEF StageHook
      <4> QED
        BY <2>0, <2>1, <3>1, <4>1, GiveUpOnly
    <3> QED
      BY <3>2, <3>3
  \* It goes on with what it has staged.
  <2>4. ASSUME UNCHANGED own, at'[p] # "failed",
               Begun(p)' => Begun(p), Late(p)' => Late(p) \/ todo[p] = <<>>
        PROVE  Fine(p)'
    <3>1. Begun(p)' => (Laying(p) \/ Hooking(p))'
      BY <1>0, <2>0, <2>4, UnfoldingSame DEF own
    <3>2. Late(p)' => todo'[p] = <<>>
      BY <1>0, <2>4 DEF own
    <3> QED
      BY <2>4, <3>1, <3>2
  \* After the hook's phase: the run gives up, or stays past it.
  <2>5. ASSUME at[p] \notin {"create", "stage"}, UNCHANGED own,
               ~Fast(req[p]) => at'[p] \notin {"create", "stage"}
        PROVE  Fine(p)'
    <3>1. at[p] \in Phases /\ req' = req
      BY <2>0 DEF Shape
    <3>2. CASE at'[p] = "failed"
      BY <2>1, <2>5, <3>2
    <3>3. CASE at'[p] # "failed"
      <4>1. Begun(p)' => Begun(p)
        BY <2>5, <3>1, <3>3 DEF Phases
      <4>2. Late(p)' => Late(p)
        BY <2>5, <3>1, <3>3 DEF Phases
      <4> QED
        BY <2>4, <2>5, <3>3, <4>1, <4>2
    <3> QED
      BY <3>2, <3>3
  <2>6. AfterCheck(req[p]) \notin {"create", "stage"} \/ Fast(req[p])
    BY AfterCheckIs DEF Shape, AfterCheck, Asked
  <2>7. CASE CheckTarget(p) \/ ClearTarget(p) \/ FinishClear(p)
    <3>1. /\ at[p] \in {"check", "clear", "clearing"} /\ UNCHANGED own
          /\ at'[p] \in {"failed", "clear", "clearing", AfterCheck(req[p])}
      BY <2>7 DEF CheckTarget, ClearTarget, FinishClear, GiveUp, Goto, Shape
    <3> QED
      BY <2>5, <2>6, <3>1
  <2>8. CASE CreateStaging(p) \/ StageEnd(p)
    <3>1. /\ at[p] \in {"create", "stage"} /\ UNCHANGED own /\ at'[p] # "failed"
          /\ at'[p] = "stage" \/ todo[p] = <<>>
      BY <2>8 DEF CreateStaging, StageEnd, Goto, Shape
    <3> QED
      BY <2>4, <3>1
  <2>9. CASE \/ BuildOptions(p) \/ StageBase(p) \/ CreateTmp(p) \/ WriteTmp(p)
             \/ CommitDir(p) \/ MaskTarget(p) \/ CommitFile(p)
    <3>1. /\ at[p] \in {"options", "base", "write", "writing", "commit", "mask"} /\ UNCHANGED own
          /\ at'[p] \in {"failed", "check", "writing", "commit", "mask", "done", "dead"}
      BY <2>9 DEF BuildOptions, StageBase, CreateTmp, WriteTmp, CommitDir, MaskTarget, CommitFile,
                  TarEnds, ImageEnds, Die, GiveUp, Goto, Shape
    <3> QED
      BY <2>5, <3>1
  <2>10. CASE MergeBase(p)
    <3>1. at[p] = "merge" /\ ~Fast(req[p]) /\ todo' = todo /\ at'[p] \in {"failed", "write"}
      BY <2>10 DEF MergeBase, GiveUp, Goto, Shape, Where, Fast, own
    <3>2. todo[p] = <<>>
      BY <1>0, <3>1 DEF Phases
    <3>3. todo'[p] = <<>> /\ ~Begun(p)'
      BY <2>0, <3>1, <3>2
    <3> QED
      BY <3>3
  <2>11. CASE Fail(p) \/ Crash(p)
    <3>1. p \in Faulty /\ at'[p] \in {"failed", "dead"}
      BY <2>11 DEF Fail, Crash, Die, GiveUp, Goto, Shape
    <3> QED
      BY <2>0, <3>1 DEF Phases
  <2> QED
    BY <1>2, <2>2, <2>3, <2>7, <2>8, <2>9, <2>10, <2>11 DEF Does, Proceed
<1>3. CASE UNCHANGED vars
  <2>1. \A p \in Proc : Fine(p)'
    BY <1>1, <1>3 DEF vars, own
  <2> QED
    BY <2>1 DEF Unfolding
<1>4. ASSUME NEW q \in Proc, Does(q) PROVE Unfolding'
  <2>1. Only(q)
    BY <1>4, Others
  <2>2. \A p \in Proc : Fine(p)'
    BY <1>1, <1>2, <1>4, <2>1 DEF Only
  <2> QED
    BY <2>2 DEF Unfolding
<1> QED
  BY <1>3, <1>4 DEF StackNext, Does

\* Layers stack as docs/prd/layers.md describes (apply.rs, whiteout.rs), as far as
\* the code follows it: if each is regular (no hard links, no opaque marker behind
\* entries deep in its directory, no directory closed to its owner) and plain, none is refused, and the tree that the hook finds is the
\* union of them, path by path.
THEOREM LayersAreUnion == StackSpec => []StagedIsUnion
<1>1. Shape /\ Unfolding => StagedIsUnion
  <2> SUFFICES ASSUME Shape, Unfolding, NEW p \in Proc, at[p] = "stage", todo[p] = <<>>,
                      ops[p] = HookAsked(p), Wellformed(LayersOf(p))
               PROVE  tree[p] = Unions(LayersOf(p))[Len(LayersOf(p))]
    BY DEF StagedIsUnion, Unfolding, HookAsked
  <2>1. PICK X, Y : LayersAsked(p) \in Seq(X) /\ HookAsked(p) \in Seq(Y)
    BY AskedSeqs
  <2>2. Len(LayersOf(p)) = Len(LayersAsked(p)) /\ Len(LayersAsked(p)) \in Nat
    BY LayersAre
  <2>3. tree[p] = AllLaid(p).tree
    <3>1. CASE Laying(p)
      <4>1. PICK k \in 0..Len(LayersAsked(p)) :
              tree[p] = Laid(p)[k].tree /\ todo[p] = From(LayersAsked(p), k)
        BY <3>1 DEF Laying
      <4>2. k = Len(LayersAsked(p))
        BY <2>1, <4>1, FromIs
      <4> QED
        BY <4>1, <4>2 DEF AllLaid
    <3>2. CASE Hooking(p)
      <4>1. PICK k \in 0..Len(HookAsked(p)) :
              tree[p] = HookedSoFar(p)[k].tree /\ ops[p] = From(HookAsked(p), k)
        BY <3>2 DEF Hooking
      <4>2. Len(From(HookAsked(p), k)) = Len(HookAsked(p)) - k /\ Len(HookAsked(p)) \in Nat
        BY <2>1, FromIs
      <4>3. k = 0
        <5> DEFINE n == Len(HookAsked(p))
        <5>1. n = n - k /\ n \in Nat /\ k \in 0..n
          BY <4>1, <4>2
        <5> HIDE DEF n
        <5> QED
          BY <5>1
      <4>4. HookedSoFar(p)[0] = Ok(AllLaid(p).tree)
        BY LaidIs
      <4> QED
        BY <4>1, <4>3, <4>4 DEF Ok
    <3> QED
      BY <3>1, <3>2 DEF Unfolding
  <2>4. Laid(p)[Len(LayersAsked(p))].tree = Unions(LayersOf(p))[Len(LayersAsked(p))]
    BY <2>2, LaidUnion
  <2> QED
    BY <2>2, <2>3, <2>4 DEF AllLaid
<1> QED
  BY <1>1, ShapeAndWhere, InitShape, NextShape, InitUnfolding, NextUnfolding, PTL DEF StackSpec
=============================================================================
