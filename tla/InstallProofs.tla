--------------------------- MODULE InstallProofs ---------------------------
(***************************************************************************)
(* Builds and installs only use the store through its calls, so what       *)
(* module Store guarantees holds of them whatever they are; and an install *)
(* gives dependencies their refs first, for any number of processes, any   *)
(* packages and any chain of registries.                                   *)
(***************************************************************************)
EXTENDS Install, StoreProofs

(***************************************************************************)
(* Where clients are.  PlaceInv types what builders and installers keep    *)
(* and says which manifest a builder or an installer is working on.        *)
(***************************************************************************)
BuildLocal ==
  /\ stage \in [Builder -> Stages]
  /\ goal \in [Builder -> {Absent} \cup Manifest]
  /\ todo \in [Builder -> SUBSET Diff]

InstallLocal ==
  /\ here \in Casts
  /\ step \in [Installer -> {"idle", "fetch", "refs"}]
  /\ root \in [Installer -> {Absent} \cup Manifest]
  /\ plan \in [Installer -> SUBSET (Manifest \cup Diff)]
  /\ recorded \in [Installer -> SUBSET Remote]

RefPut == {"ref_lock", "ref_tmp", "ref_commit"}
RmCall == {"rm_lock", "rm_unlink"}

GoalInv(p) ==
  /\ stage[p] # "idle" => goal[p] \in Tree[p]
  /\ pc[p] \in RefPut => stage[p] # "idle"

\* No client repairs.
NoRepair == \A p \in Proc : pc[p] \notin Repairing

RootInv(p) == step[p] # "idle" => root[p] \in Manifest /\ RefOf[root[p]] = Wanted[p]

ClientInv ==
  /\ TypeInv
  /\ NoRepair
  /\ BuildLocal
  /\ InstallLocal
  /\ \A p \in Builder : GoalInv(p)
  /\ \A p \in Installer : RootInv(p)

LEMMA ClientTypeOK == ClientInv => InstallTypeOK
  BY TypeInvTypeOK DEF ClientInv, BuildLocal, InstallLocal, InstallTypeOK, BuildTypeOK

LEMMA KeysAreRefs == ASSUME NEW m \in Manifest PROVE KeysOf(m) \subseteq Ref
<1>1. ASSUME NEW j \in Manifest PROVE AsksFor[<<j, m>>] \in Ref
  BY InstallAssumption
<1>2. RefOf[m] \in Ref
  BY BuildAssumption
<1> QED
  BY <1>1, <1>2 DEF KeysOf

\* A ref is put under one of the names its manifest is asked for by.
LEMMA Asked ==
  ASSUME ClientInv, NEW p \in Installer, step[p] # "idle", NEW m \in Manifest
  PROVE  AskedAs(p, m) \subseteq KeysOf(m) /\ KeysOf(m) \subseteq Ref
<1>1. root[p] \in Manifest /\ RefOf[root[p]] = Wanted[p]
  BY DEF ClientInv, RootInv
<1>2. Closure(root[p]) \subseteq Manifest
  BY <1>1, StoreAssumption DEF Closure
<1> QED
  BY <1>1, <1>2, KeysAreRefs DEF AskedAs, KeysOf

LEMMA InitClient == InstallInit => ClientInv
  BY InitTypeInv, BuildAssumption, InstallAssumption
  DEF InstallInit, BuildInit, Init, ClientInv, BuildLocal, InstallLocal, GoalInv, RootInv,
      Stages, Ended, RefPut, NoRepair, Repairing

(***************************************************************************)
(* Every step of a client is a step of the store, or leaves it alone.      *)
(***************************************************************************)
LEMMA BuildStepOf ==
  ASSUME ClientInv, NEW p \in Proc, BuildStep(p)
  PROVE  UNCHANGED vars \/ StepOf(p)
<1> USE DEF StepOf
<1>1. CASE p \in Builder /\ \E m \in Manifest : StartBuild(p, m)
  BY <1>1 DEF StartBuild
<1>2. CASE p \in Builder /\ Proceed(p)
  <2>1. ASSUME NEW b \in Blob, BuildLayer(p, b) PROVE StepOf(p)
    BY <2>1 DEF BuildLayer, Begin
  <2>2. ASSUME stage[p] # "idle" PROVE goal[p] \in Manifest /\ RefOf[goal[p]] \in Ref
    BY <1>2, <2>2, BuildAssumption DEF ClientInv, GoalInv
  <2>3. CASE BuildManifest(p)
    BY <2>2, <2>3 DEF BuildManifest, Begin
  <2>4. CASE BuildRef(p)
    BY <2>2, <2>4 DEF BuildRef, Begin
  <2>5. CASE ForceUnref(p)
    BY <2>2, <2>5 DEF ForceUnref, Begin
  <2>6. CASE ForceRef(p)
    BY <2>2, <2>6 DEF ForceRef, Begin
  <2> QED
    BY <1>2, <2>1, <2>3, <2>4, <2>5, <2>6 DEF Proceed
<1>3. CASE p \in Builder /\ BuildReject(p)
  BY <1>3 DEF BuildReject
<1>4. CASE p \notin Builder /\ Keep(p)
  BY <1>4 DEF Keep, Begin
<1>5. CASE Advance(p) \/ BuildFail(p) \/ BuildCrash(p)
  BY <1>5 DEF Advance, BuildFail, BuildCrash
<1> QED
  BY <1>1, <1>2, <1>3, <1>4, <1>5 DEF BuildStep

LEMMA InstallStepOf ==
  ASSUME ClientInv, NEW p \in Installer, InstallStep(p)
  PROVE  UNCHANGED vars \/ StepOf(p)
<1> USE DEF StepOf
<1>1. ASSUME NEW m \in Manifest, Resolve(p, m) PROVE UNCHANGED vars
  BY <1>1 DEF Resolve, bvars
<1>2. ASSUME NEW m \in Manifest, FetchManifest(p, m) PROVE StepOf(p)
  BY <1>2 DEF FetchManifest, Begin
<1>3. ASSUME NEW m \in Manifest, PutRefs(p, m) PROVE StepOf(p)
  <2>1. AskedAs(p, m) \subseteq Ref
    BY <1>3, Asked DEF PutRefs
  <2> QED
    BY <1>3, <2>1 DEF PutRefs, Begin
<1>4. ASSUME NEW d \in Diff, FetchLayer(p, d) PROVE UNCHANGED vars \/ StepOf(p)
  BY <1>4, InstallAssumption DEF FetchLayer, Begin
<1>5. CASE Fetched(p) \/ StackLayers(p) \/ FetchFails(p)
  BY <1>5 DEF Fetched, StackLayers, FetchFails, bvars
<1>6. CASE InCall(p) \/ InstallFails(p)
  BY <1>6 DEF InCall, InstallFails
<1> QED
  BY <1>1, <1>2, <1>3, <1>4, <1>5, <1>6 DEF InstallStep, InstallOn

LEMMA StoreStep ==
  ASSUME ClientInv, [InstallNext]_ivars
  PROVE  [Next]_vars
<1>1. CASE UNCHANGED ivars
  BY <1>1 DEF ivars, bvars
<1>2. CASE InstallNext
  <2>1. here \subseteq Proc /\ Installer \subseteq Proc
    BY InstallAssumption DEF ClientInv, InstallLocal
  <2> QED
    BY <1>2, <2>1, BuildStepOf, InstallStepOf DEF InstallNext, Next, StepOf
<1> QED
  BY <1>1, <1>2

(***************************************************************************)
(* ClientInv is inductive.                                                 *)
(***************************************************************************)
LEMMA OthersStay ==
  ASSUME NEW p \in Proc, TypeInv, StepOf(p), NEW q \in Proc, q # p
  PROVE  pc'[q] = pc[q] /\ arg'[q] = arg[q] /\ dst'[q] = dst[q]
<1> USE DEF TypeInv, LocalInv
<1>1. CASE Begin(p)
  BY <1>1 DEF Begin, PutBlob, PutManifest, PutRef, RemoveRef, Gc, PlanGc, FsckRepair, Call
<1>2. CASE TakeLock(p)
  BY <1>2 DEF TakeLock, RefLock, RemoveLock, PlanLock, LockShared, Goto
<1>3. CASE PutStep(p)
  BY <1>3 DEF PutStep, BlobPersist, DiffExists, DiffCreate, DiffWrite, ManifestPersist, RefTmp,
     RefCommit, RemoveUnlink, Goto, Return
<1>4. CASE GcStep(p)
  BY <1>4 DEF GcStep, Sweep, GcMark, GcScanObjects, GcScanDiffs, GcSweepObject,
     GcSweptObjects, GcSweepDiff, GcDone, PlanDone, Goto, Return
<1>5. CASE RepairStep(p)
  BY <1>5 DEF RepairStep, FsckRefs, RepairDiff, RepairedDiffs, RepairRef, RepairDone, Goto, Return
<1>6. CASE Fail(p) \/ Crash(p)
  BY <1>6 DEF Fail, Crash, Return
<1> QED
  BY <1>1, <1>2, <1>3, <1>4, <1>5, <1>6 DEF StepOf, Run

\* Inside a call: what is being put or removed stays the same, a ref changes by
\* the rename or the unlink that ends the call, and a call that no longer puts
\* has committed or failed.
Stays(p, S) ==
  /\ pc[p] \in S /\ pc'[p] \in S
  /\ arg'[p] = arg[p] /\ dst'[p] = dst[p]
  /\ UNCHANGED refs

Commits(p) ==
  /\ pc[p] = "ref_commit" /\ pc'[p] = "rest"
  /\ refs' = [refs EXCEPT ![dst[p]] = arg[p]]

Unlinks(p) ==
  /\ pc[p] = "rm_unlink" /\ pc'[p] = "rest"
  /\ refs' = [refs EXCEPT ![dst[p]] = Absent]

Elsewhere == RefPut \cup RmCall \cup Repairing

LEMMA InsideCall ==
  ASSUME TypeInv, NEW p \in Proc, pc[p] \notin Repairing, Run(p) \/ TakeLock(p)
  PROVE  \/ Stays(p, RefPut) \/ Commits(p) \/ Stays(p, RmCall) \/ Unlinks(p)
         \/ pc[p] \notin Elsewhere /\ pc'[p] \notin Elsewhere /\ UNCHANGED refs
<1> USE DEF TypeInv, LocalInv, RefPut, RmCall, Elsewhere, Repairing
<1>1. CASE TakeLock(p)
  BY <1>1 DEF TakeLock, RefLock, RemoveLock, PlanLock, LockShared, Goto, Stays, store
<1>2. CASE PutStep(p)
  <2>1. CASE RefTmp(p)
    BY <2>1 DEF RefTmp, Goto, Stays, store
  <2>2. CASE RefCommit(p)
    BY <2>2 DEF RefCommit, Return, Commits
  <2>3. CASE RemoveUnlink(p)
    BY <2>3 DEF RemoveUnlink, Return, Unlinks
  <2>4. CASE BlobPersist(p) \/ DiffExists(p) \/ DiffCreate(p) \/ DiffWrite(p) \/ ManifestPersist(p)
    BY <2>4 DEF BlobPersist, DiffExists, DiffCreate, DiffWrite, ManifestPersist, Goto, Return, store
  <2> QED
    BY <1>2, <2>1, <2>2, <2>3, <2>4 DEF PutStep
<1>3. CASE GcStep(p)
  BY <1>3 DEF GcStep, Sweep, GcMark, GcScanObjects, GcScanDiffs, GcSweepObject,
     GcSweptObjects, GcSweepDiff, GcDone, PlanDone, Goto, Return, store
<1>4. CASE RepairStep(p)
  BY <1>4 DEF RepairStep, FsckRefs, RepairDiff, RepairedDiffs, RepairRef, RepairDone
<1> QED
  BY <1>1, <1>2, <1>3, <1>4 DEF Run

LEMMA BuildLocalStep ==
  ASSUME ClientInv, NEW p \in Proc, BuildStep(p)
  PROVE  BuildLocal' /\ \A q \in Builder : GoalInv(q)'
<1> USE DEF ClientInv, BuildLocal
<1> DEFINE Kept(q) == stage'[q] = stage[q] /\ goal'[q] = goal[q] /\ pc'[q] = pc[q]
<1>a. \A q \in Builder : q \in Proc /\ GoalInv(q)
  BY BuildAssumption
<1>b. "idle" \in Stages /\ {"built", "layers", "ref", "unref", "reref"} \subseteq Stages
  BY DEF Stages, Ended
<1>c. TypeInv /\ pc \in [Proc -> Pcs]
  BY DEF TypeInv, LocalInv
<1>1. ASSUME p \in Builder, NEW m \in Manifest, StartBuild(p, m)
      PROVE  BuildLocal' /\ \A q \in Builder : GoalInv(q)'
  <2>1. BuildLocal'
    BY <1>1, <1>b, StoreAssumption DEF StartBuild
  <2>2. GoalInv(p)'
    BY <1>1, <1>b DEF StartBuild, GoalInv, vars
  <2>3. \A q \in Builder : q # p => Kept(q)
    BY <1>1 DEF StartBuild, vars
  <2> QED
    BY <1>a, <2>1, <2>2, <2>3 DEF GoalInv
<1>2. ASSUME p \in Builder, NEW b \in Blob, BuildLayer(p, b)
      PROVE  BuildLocal' /\ \A q \in Builder : GoalInv(q)'
  <2>1. UNCHANGED build /\ pc'[p] \notin RefPut /\ \A q \in Proc : q # p => pc'[q] = pc[q]
    BY <1>2, <1>c DEF BuildLayer, PutBlob, Call, RefPut
  <2> QED
    BY <1>a, <2>1 DEF build, GoalInv
<1>3. ASSUME p \in Builder, BuildManifest(p)
      PROVE  BuildLocal' /\ \A q \in Builder : GoalInv(q)'
  <2>1. pc'[p] \notin RefPut /\ \A q \in Proc : q # p => pc'[q] = pc[q]
    BY <1>3, <1>c DEF BuildManifest, PutManifest, Call, RefPut
  <2>2. stage[p] = "layers" /\ stage' = [stage EXCEPT ![p] = "ref"] /\ UNCHANGED <<goal, todo>>
    BY <1>3 DEF BuildManifest, Stage
  <2> QED
    BY <1>3, <1>a, <1>b, <2>1, <2>2 DEF GoalInv
<1>4. ASSUME p \in Builder, BuildReject(p)
      PROVE  BuildLocal' /\ \A q \in Builder : GoalInv(q)'
  <2>1. UNCHANGED pc /\ pc[p] = "rest"
    BY <1>4 DEF BuildReject, vars
  <2> QED
    BY <1>4, <1>a, <1>b, <2>1 DEF BuildReject, GiveUp, GoalInv, RefPut
<1>5. ASSUME p \in Builder, BuildRef(p) \/ ForceRef(p)
      PROVE  BuildLocal' /\ \A q \in Builder : GoalInv(q)'
  <2>1. stage[p] \in {"ref", "reref"} /\ PutRef(p, RefOf[goal[p]], goal[p])
    BY <1>5 DEF BuildRef, ForceRef
  <2>2. goal[p] \in Manifest /\ goal[p] # Absent
    BY <1>5, <1>a, <2>1, BuildAssumption, StoreAssumption DEF GoalInv
  <2>3. \A q \in Proc : q # p => pc'[q] = pc[q]
    BY <2>1, <1>c DEF PutRef, Call
  <2>4. \/ Stage(p, "built") \/ UNCHANGED build \/ Stage(p, "unref")
        \/ GiveUp(p) /\ refs[RefOf[goal[p]]] # Absent
    BY <1>5 DEF BuildRef, ForceRef
  <2>5. CASE GiveUp(p) /\ refs[RefOf[goal[p]]] # Absent
    <3>1. pc'[p] = "rest"
      BY <2>1, <2>5, <1>c DEF PutRef, Call
    <3> QED
      BY <1>5, <1>a, <1>b, <2>3, <2>5, <3>1 DEF GiveUp, GoalInv, RefPut
  <2>6. CASE Stage(p, "built") \/ UNCHANGED build \/ Stage(p, "unref")
    BY <1>5, <1>a, <1>b, <2>1, <2>3, <2>6 DEF Stage, build, GoalInv
  <2> QED
    BY <2>4, <2>5, <2>6
<1>6. ASSUME p \in Builder, ForceUnref(p)
      PROVE  BuildLocal' /\ \A q \in Builder : GoalInv(q)'
  <2>1. \A q \in Proc : q # p => pc'[q] = pc[q]
    BY <1>6, <1>c DEF ForceUnref, RemoveRef, Call
  <2> QED
    BY <1>6, <1>a, <1>b, <2>1 DEF ForceUnref, Stage, GoalInv
<1>7. ASSUME p \notin Builder, Keep(p) PROVE BuildLocal' /\ \A q \in Builder : GoalInv(q)'
  <2>1. \A q \in Proc : q # p => pc'[q] = pc[q]
    BY <1>7, <1>c DEF Keep, Gc, Call
  <2> QED
    BY <1>7, <1>a, <2>1 DEF Keep, build, GoalInv

<1>8. ASSUME Run(p) \/ TakeLock(p) \/ Fail(p) \/ Crash(p)
      PROVE  /\ pc'[p] \in RefPut => pc[p] \in RefPut
             /\ \A q \in Proc : q # p => pc'[q] = pc[q]
  <2>1. CASE Run(p) \/ TakeLock(p)
    BY <2>1, InsideCall, OthersStay DEF StepOf, NoRepair, Elsewhere, Stays, Commits, Unlinks, RefPut, RmCall
  <2>2. CASE Fail(p) \/ Crash(p)
    BY <2>2, <1>c DEF Fail, Crash, Return, RefPut
  <2> QED
    BY <1>8, <2>1, <2>2
<1>9. ASSUME Advance(p) PROVE BuildLocal' /\ \A q \in Builder : GoalInv(q)'
  <2>1. CASE p \in Builder /\ pc[p] = "ref_commit"
    BY <1>8, <1>9, <1>a, <1>b, <2>1 DEF Advance, Stage, GoalInv, RefPut
  <2>2. CASE p \in Builder /\ pc[p] # "ref_commit" /\ UNCHANGED <<stage, goal>>
               /\ todo' = [todo EXCEPT ![p] = @ \ {DiffOf[arg[p]]}]
    BY <1>8, <1>9, <1>a, <2>2 DEF Advance, GoalInv
  <2>3. CASE UNCHANGED build
    BY <1>8, <1>9, <1>a, <2>3 DEF Advance, GoalInv, build
  <2> QED
    BY <1>9, <2>1, <2>2, <2>3 DEF Advance
<1>10. ASSUME BuildFail(p) \/ BuildCrash(p) PROVE BuildLocal' /\ \A q \in Builder : GoalInv(q)'
  <2>1. pc'[p] = "rest"
    BY <1>10, <1>c DEF BuildFail, BuildCrash, Fail, Crash, Return
  <2>2. CASE p \in Builder /\ GiveUp(p)
    BY <1>8, <1>10, <1>a, <1>b, <2>1, <2>2 DEF BuildFail, BuildCrash, GiveUp, GoalInv, RefPut
  <2>3. CASE UNCHANGED build
    BY <1>8, <1>10, <1>a, <2>3 DEF BuildFail, BuildCrash, GoalInv, build
  <2> QED
    BY <1>10, <2>2, <2>3 DEF BuildFail, BuildCrash
<1> QED
  BY <1>1, <1>2, <1>3, <1>4, <1>5, <1>6, <1>7, <1>9, <1>10 DEF BuildStep, Proceed

LEMMA InstallLocalStep ==
  ASSUME ClientInv, NEW p \in Installer, InstallStep(p), UNCHANGED here
  PROVE  InstallLocal' /\ \A q \in Installer : RootInv(q)'
<1> USE DEF ClientInv, InstallLocal, RootInv
<1>1. ASSUME NEW i, Crossed(p, i) PROVE InstallLocal' /\ \A q \in Installer : RootInv(q)'
  BY <1>1 DEF Crossed
<1>2. ASSUME Forget(p) PROVE InstallLocal' /\ \A q \in Installer : RootInv(q)'
  BY <1>2 DEF Forget
<1>3. ASSUME UNCHANGED install PROVE InstallLocal' /\ \A q \in Installer : RootInv(q)'
  BY <1>3 DEF install
<1>4. \A m \in Manifest : Closure(m) \subseteq Manifest /\ Layers(m) \subseteq Diff
  BY StoreAssumption DEF Closure, Layers
<1>5. ASSUME NEW m \in Manifest, Resolve(p, m) PROVE InstallLocal' /\ \A q \in Installer : RootInv(q)'
  <2>1. FetchPlan(m) \subseteq Manifest \cup Diff
    BY <1>4 DEF FetchPlan
  <2>2. Closure(m) \ Roots \subseteq Remote
    BY <1>5 DEF Resolve, ByHash
  <2>3. recorded' \in [Installer -> SUBSET Remote]
    BY <1>5, <2>2 DEF Resolve, CacheRecords
  <2>4. RefOf[m] = Wanted[p]
    BY <1>5 DEF Resolve, Offers, FetchPackage
  <2> QED
    BY <1>5, <2>1, <2>3, <2>4 DEF Resolve
<1>6. ASSUME Fetched(p) PROVE InstallLocal' /\ \A q \in Installer : RootInv(q)'
  <2>1. root[p] \in Manifest
    BY <1>6 DEF Fetched
  <2> QED
    BY <1>4, <1>6, <2>1 DEF Fetched
<1>7. ASSUME NEW m \in Manifest, FetchManifest(p, m) \/ PutRefs(p, m)
      PROVE  InstallLocal' /\ \A q \in Installer : RootInv(q)'
  BY <1>1, <1>2, <1>7 DEF FetchManifest, PutRefs
<1>8. ASSUME NEW d \in Diff, FetchLayer(p, d) PROVE InstallLocal' /\ \A q \in Installer : RootInv(q)'
  BY <1>1, <1>2, <1>8 DEF FetchLayer
<1>9. ASSUME StackLayers(p) \/ InCall(p) \/ FetchFails(p) \/ InstallFails(p)
      PROVE  InstallLocal' /\ \A q \in Installer : RootInv(q)'
  BY <1>2, <1>3, <1>9 DEF StackLayers, InCall, FetchFails, InstallFails
<1> QED
  BY <1>5, <1>6, <1>7, <1>8, <1>9 DEF InstallStep, InstallOn

LEMMA NoRepairStep ==
  ASSUME ClientInv, NEW p \in Proc,
         BuildStep(p) \/ (p \in Installer /\ InstallStep(p))
  PROVE  NoRepair'
<1> USE DEF ClientInv, NoRepair
<1>1. TypeInv /\ pc \in [Proc -> Pcs]
  BY DEF TypeInv, LocalInv
<1>2. CASE UNCHANGED vars
  BY <1>2 DEF vars
<1>3. CASE Run(p) \/ TakeLock(p)
  BY <1>1, <1>3, InsideCall, OthersStay
  DEF StepOf, Elsewhere, Stays, Commits, Unlinks, RefPut, RmCall, Repairing
<1>4. CASE Fail(p) \/ Crash(p)
  BY <1>1, <1>4 DEF Fail, Crash, Return, Repairing
<1>5. ASSUME NEW l \in Pcs \ Repairing, NEW a, NEW r, Call(p, l, a, r) PROVE NoRepair'
  BY <1>1, <1>5 DEF Call
<1>6. {"rest", "blob_persist", "diff_exists", "man_persist", "ref_lock", "rm_lock", "gc_mark"}
         \subseteq Pcs \ Repairing
  BY DEF Pcs, Repairing, BlobPc, Waiting, InGc
<1>7. ASSUME NEW b, PutBlob(p, b) PROVE NoRepair'
  BY <1>5, <1>6, <1>7 DEF PutBlob
<1>8. ASSUME NEW m, PutManifest(p, m) PROVE NoRepair'
  BY <1>5, <1>6, <1>8 DEF PutManifest
<1>9. ASSUME NEW m, NEW r, PutRef(p, r, m) PROVE NoRepair'
  BY <1>5, <1>6, <1>9 DEF PutRef
<1>10. ASSUME NEW r, RemoveRef(p, r) PROVE NoRepair'
  BY <1>5, <1>6, <1>10 DEF RemoveRef
<1>11. ASSUME Gc(p) PROVE NoRepair'
  BY <1>5, <1>6, <1>11 DEF Gc
<1>12. CASE BuildStep(p)
  <2>1. ASSUME Proceed(p) PROVE NoRepair'
    BY <1>7, <1>8, <1>9, <1>10, <2>1
    DEF Proceed, BuildLayer, BuildManifest, BuildRef, ForceUnref, ForceRef
  <2>2. ASSUME Advance(p) \/ BuildFail(p) \/ BuildCrash(p) PROVE NoRepair'
    BY <1>3, <1>4, <2>2 DEF Advance, BuildFail, BuildCrash
  <2>3. ASSUME (\E m \in Manifest : StartBuild(p, m)) \/ BuildReject(p) PROVE NoRepair'
    BY <1>2, <2>3 DEF StartBuild, BuildReject
  <2> QED
    BY <1>11, <1>12, <2>1, <2>2, <2>3 DEF BuildStep, Keep
<1>13. CASE InstallStep(p)
  <2>1. ASSUME NEW m \in Manifest, Resolve(p, m) \/ FetchManifest(p, m) \/ PutRefs(p, m)
        PROVE  NoRepair'
    BY <1>2, <1>8, <1>9, <2>1 DEF Resolve, FetchManifest, PutRefs, bvars
  <2>2. ASSUME NEW d \in Diff, FetchLayer(p, d) PROVE NoRepair'
    BY <1>2, <1>7, <2>2 DEF FetchLayer
  <2>3. ASSUME Fetched(p) \/ StackLayers(p) \/ FetchFails(p) PROVE NoRepair'
    BY <1>2, <2>3 DEF Fetched, StackLayers, FetchFails, bvars
  <2>4. ASSUME InCall(p) \/ InstallFails(p) PROVE NoRepair'
    BY <1>3, <1>4, <2>4 DEF InCall, InstallFails
  <2> QED
    BY <1>13, <2>1, <2>2, <2>3, <2>4 DEF InstallStep, InstallOn
<1> QED
  BY <1>12, <1>13

\* A step of an installer leaves the builders alone, and the other way round.
LEMMA InstallerFrame ==
  ASSUME ClientInv, NEW p \in Installer, InstallStep(p)
  PROVE  UNCHANGED build /\ \A q \in Proc : q # p => pc'[q] = pc[q]
<1>1. UNCHANGED build
  BY DEF InstallStep, InstallOn, Resolve, FetchManifest, PutRefs, FetchLayer, Fetched,
     StackLayers, FetchFails, InCall, InstallFails, bvars
<1>2. p \in Proc /\ TypeInv
  BY InstallAssumption DEF ClientInv
<1> QED
  BY <1>1, <1>2, InstallStepOf, OthersStay DEF vars

LEMMA NextClient == ClientInv /\ [InstallNext]_ivars => ClientInv'
<1> SUFFICES ASSUME ClientInv, [InstallNext]_ivars PROVE ClientInv'
  OBVIOUS
<1> USE DEF ClientInv
<1>1. TypeInv'
  BY StoreStep, NextTypeInv
<1>2. CASE UNCHANGED ivars
  BY <1>1, <1>2 DEF ivars, bvars, vars, build, install, NoRepair, BuildLocal, InstallLocal, GoalInv, RootInv
<1>3. ASSUME NEW p \in here \cap Installer, InstallStep(p), UNCHANGED here PROVE ClientInv'
  <2>1. p \in Proc /\ NoRepair' /\ InstallLocal' /\ \A q \in Installer : RootInv(q)'
    BY <1>3, NoRepairStep, InstallLocalStep, InstallAssumption
  <2>2. BuildLocal' /\ \A q \in Builder : GoalInv(q)'
    BY <1>3, InstallerFrame, BuildAssumption, InstallAssumption DEF build, BuildLocal, GoalInv
  <2> QED
    BY <1>1, <2>1, <2>2
<1>4. ASSUME NEW p \in here \ Installer, BuildStep(p), UNCHANGED <<here, install>> PROVE ClientInv'
  <2>1. p \in Proc
    BY InstallAssumption DEF InstallLocal
  <2>2. NoRepair' /\ BuildLocal' /\ \A q \in Builder : GoalInv(q)'
    BY <1>4, <2>1, NoRepairStep, BuildLocalStep
  <2>3. InstallLocal' /\ \A q \in Installer : RootInv(q)'
    BY <1>4 DEF install, InstallLocal, RootInv
  <2> QED
    BY <1>1, <2>2, <2>3
<1> QED
  BY <1>2, <1>3, <1>4 DEF InstallNext

LEMMA ClientInvariant == InstallSpec => []ClientInv
  BY InitClient, NextClient, PTL DEF InstallSpec

\* Type correctness of builders and installers together: among others, a forced
\* put_ref always has a manifest, and what an install fetched came with a record.
THEOREM InstallTypeCorrect == InstallSpec => []InstallTypeOK
  BY ClientInvariant, ClientTypeOK, PTL

\* Builders and installers, failing and dying, are clients of the store like
\* any other: every behaviour of theirs is a behaviour of module Store.
THEOREM InstallUsesStore == InstallSpec => Init /\ [][Next]_vars
  BY ClientInvariant, StoreStep, PTL DEF InstallSpec, InstallInit, BuildInit

\* So gc.lock excludes a gc from their commits and from their forced unlinks.
THEOREM InstallLocks == InstallSpec => []LockMatchesCalls
<1>1. ClientInv /\ LockMatchesCalls /\ [InstallNext]_ivars => LockMatchesCalls'
  BY StoreStep, NextLock DEF ClientInv
<1> QED
  BY <1>1, ClientInvariant, InitLock, PTL DEF InstallSpec, InstallInit, BuildInit

(***************************************************************************)
(* Dependencies first, where they are published once.  A ref of a          *)
(* dependency is put once and never moved: every call that puts a ref puts *)
(* it under a name the manifest is asked for by, and only a version that   *)
(* is no dependency is ever taken away (StageInv).  PlanInv: an installer  *)
(* has put, or is putting, the refs it crossed off.                        *)
(***************************************************************************)
Dependencies == UNION {DepsOf[m] : m \in Manifest}
DepRefs == UNION {KeysOf(k) : k \in Dependencies}

Held(k) == \E s \in KeysOf(k) : refs[s] = k
HasDeps(m) == \A k \in DepsOf[m] : Held(k)

RefsInv == \A r \in Ref : refs[r] # Absent => r \in KeysOf(refs[r])

CallInv(p) ==
  /\ pc[p] \in RefPut =>
       /\ arg[p] \in Manifest /\ dst[p] \in KeysOf(arg[p])
       /\ arg[p] \in Remote => HasDeps(arg[p])
  /\ pc[p] \in RmCall => dst[p] \notin DepRefs

StageInv(p) == stage[p] = "unref" => RefOf[goal[p]] \notin DepRefs

PutOrPutting(p, k) == Held(k) \/ (pc[p] \in RefPut /\ arg[p] = k)

PlanInv(p) ==
  step[p] = "refs" =>
    /\ plan[p] \subseteq Closure(root[p])
    /\ \A k \in (Closure(root[p]) \cap Dependencies) \ plan[p] : PutOrPutting(p, k)

DepsFirst == \A m \in Remote, r \in Ref : refs[r] = m => HasDeps(m)

DepInv ==
  /\ RefsInv
  /\ \A p \in Proc : CallInv(p)
  /\ \A p \in Builder : StageInv(p)
  /\ \A p \in Installer : PlanInv(p)
  /\ DepsFirst

LEMMA DepKeys == Dependencies \subseteq Manifest /\ \A m \in Manifest : KeysOf(m) \subseteq Ref
  BY StoreAssumption, KeysAreRefs DEF Dependencies

\* What holds one of a dependency's refs is that dependency.
LEMMA OneForKey ==
  ASSUME PublishedOnce, NEW k \in Dependencies, NEW m \in Manifest, NEW r \in KeysOf(k) \cap KeysOf(m)
  PROVE  m = k
  BY DEF PublishedOnce, Dependencies

LEMMA InitDep == InstallInit => DepInv
<1>1. \A m \in Manifest : m # Absent
  BY StoreAssumption
<1>2. Remote \subseteq Manifest
  BY InstallAssumption DEF Remote
<1> QED
  BY <1>1, <1>2, InstallAssumption
  DEF InstallInit, BuildInit, Init, DepInv, RefsInv, CallInv, StageInv, PlanInv, RefPut, RmCall,
      DepsFirst

\* The dependencies of what is in a closure are in it.
LEMMA ClosureClosed ==
  ASSUME NEW m \in Manifest, NEW k \in Closure(m)
  PROVE  DepsOf[k] \subseteq Closure(m) \cap Dependencies
  BY StoreAssumption DEF Closure, Dependencies

LEMMA RefsMove ==
  ASSUME ClientInv, NEW p \in Proc, UNCHANGED vars \/ StepOf(p)
  PROVE  UNCHANGED refs \/ Commits(p) \/ Unlinks(p)
<1>1. CASE UNCHANGED vars
  BY <1>1 DEF vars
<1>2. CASE Begin(p)
  BY <1>2, BeginFrame DEF store
<1>3. CASE Run(p) \/ TakeLock(p)
  BY <1>3, InsideCall DEF ClientInv, NoRepair, Stays
<1>4. CASE Fail(p) \/ Crash(p)
  BY <1>4 DEF Fail, Crash, store
<1> QED
  BY <1>1, <1>2, <1>3, <1>4 DEF StepOf

LEMMA DepRefsStay ==
  ASSUME PublishedOnce, ClientInv, DepInv, NEW p \in Proc, UNCHANGED vars \/ StepOf(p),
         NEW k \in Dependencies, Held(k)
  PROVE  Held(k)'
<1>1. CallInv(p) /\ k \in Manifest /\ refs \in [Ref -> {Absent} \cup Manifest]
  BY DepKeys DEF DepInv, ClientInv, TypeInv, StoreType
<1>2. PICK s \in KeysOf(k) : refs[s] = k
  BY DEF Held
<1>3. s \in Ref /\ s \in DepRefs
  BY <1>1, DepKeys DEF DepRefs
<1>4. refs'[s] = k
  <2>1. CASE Commits(p)
    <3>1. arg[p] \in Manifest /\ dst[p] \in KeysOf(arg[p])
      BY <1>1, <2>1 DEF Commits, CallInv, RefPut
    <3>2. dst[p] = s => arg[p] = k
      BY <3>1, OneForKey
    <3> QED
      BY <1>1, <1>2, <1>3, <2>1, <3>2 DEF Commits
  <2>2. CASE Unlinks(p)
    BY <1>1, <1>2, <1>3, <2>2 DEF Unlinks, CallInv, RmCall
  <2> QED
    BY <1>2, <2>1, <2>2, RefsMove
<1> QED
  BY <1>4 DEF Held, KeysOf

LEMMA RefsAfter ==
  ASSUME PublishedOnce, ClientInv, DepInv, NEW p \in Proc, UNCHANGED vars \/ StepOf(p)
  PROVE  RefsInv' /\ DepsFirst'
<1>1. CallInv(p) /\ RefsInv /\ DepsFirst /\ refs \in [Ref -> {Absent} \cup Manifest]
  BY DEF DepInv, ClientInv, TypeInv, StoreType
<1>2. RefsInv'
  <2>1. CASE Commits(p)
    BY <1>1, <2>1 DEF Commits, CallInv, RefPut, RefsInv, KeysOf
  <2>2. CASE Unlinks(p)
    BY <1>1, <2>2 DEF Unlinks, RefsInv, KeysOf
  <2>3. CASE UNCHANGED refs
    BY <1>1, <2>3 DEF RefsInv, KeysOf
  <2> QED
    BY <2>1, <2>2, <2>3, RefsMove
<1>3. ASSUME NEW m \in Remote, NEW r \in Ref, refs'[r] = m, NEW k \in DepsOf[m]
      PROVE  Held(k)'
  <2>1. m \in Manifest /\ k \in Dependencies /\ m # Absent
    BY InstallAssumption, StoreAssumption DEF Remote, Dependencies
  <2>2. Held(k)
    <3>1. CASE refs[r] = m
      BY <1>1, <3>1 DEF DepsFirst, HasDeps
    <3>2. CASE refs[r] # m
      <4>1. Commits(p) /\ arg[p] = m
        BY <1>1, <1>3, <2>1, <3>2, RefsMove DEF Commits, Unlinks
      <4> QED
        BY <1>1, <4>1 DEF Commits, CallInv, RefPut, HasDeps
    <3> QED
      BY <3>1, <3>2
  <2> QED
    BY <2>1, <2>2, DepRefsStay
<1>4. DepsFirst'
  BY <1>3 DEF DepsFirst, HasDeps
<1> QED
  BY <1>2, <1>4

\* CallInv speaks of the refs, of what the process does and of nothing else.
LEMMA CallFrame ==
  ASSUME ClientInv, NEW p \in Proc, CallInv(p), \A k \in Dependencies : Held(k) => Held(k)',
         pc'[p] \in RefPut => pc[p] \in RefPut, pc'[p] \in RmCall => pc[p] \in RmCall,
         arg'[p] = arg[p], dst'[p] = dst[p]
  PROVE  CallInv(p)'
<1>2. ASSUME pc'[p] \in RefPut
      PROVE  /\ arg'[p] \in Manifest /\ dst'[p] \in KeysOf(arg'[p])
             /\ arg'[p] \in Remote => \A k \in DepsOf[arg'[p]] : Held(k)'
  <2>1. /\ arg[p] \in Manifest /\ dst[p] \in KeysOf(arg[p])
        /\ arg[p] \in Remote => HasDeps(arg[p])
    BY <1>2 DEF CallInv
  <2>2. HasDeps(arg[p]) => \A k \in DepsOf[arg[p]] : Held(k)'
    BY <2>1 DEF HasDeps, Dependencies
  <2> QED
    BY <2>1, <2>2
<1>3. pc'[p] \in RmCall => dst'[p] \notin DepRefs
  BY DEF CallInv
<1> QED
  BY <1>2, <1>3 DEF CallInv, KeysOf, DepRefs, Dependencies, HasDeps

\* A client begins to put a ref only when it holds what CallInv asks for.
LEMMA CallAfter ==
  ASSUME PublishedOnce, ClientInv, DepInv, NEW p \in Proc,
         BuildStep(p) \/ (p \in Installer /\ InstallStep(p))
  PROVE  CallInv(p)'
<1>1. pc \in [Proc -> Pcs] /\ arg \in [Proc -> {Absent} \cup Object]
        /\ dst \in [Proc -> {Absent} \cup Ref]
  BY TypeInvTypeOK DEF ClientInv, TypeOK
<1>2. UNCHANGED vars \/ StepOf(p)
  BY BuildStepOf, InstallStepOf
<1>3. ASSUME pc'[p] \notin RefPut \cup RmCall PROVE CallInv(p)'
  BY <1>3 DEF CallInv
<1>4. ASSUME NEW m \in Manifest, NEW r \in KeysOf(m), PutRef(p, r, m), m \in Remote => HasDeps(m)
      PROVE  CallInv(p)'
  <2>1. CASE refs[r] = Absent
    <3>1. UNCHANGED refs /\ pc'[p] = "ref_lock" /\ arg'[p] = m /\ dst'[p] = r
      BY <1>1, <1>4, <2>1 DEF PutRef, Call, store
    <3>2. r \in KeysOf(arg'[p]) /\ (HasDeps(m) => HasDeps(m)')
      BY <3>1 DEF HasDeps, Held
    <3> QED
      BY <1>4, <3>1, <3>2 DEF CallInv, HasDeps, Held, KeysOf, RmCall
  <2>2. CASE refs[r] # Absent
    <3>1. pc'[p] = "rest"
      BY <1>1, <1>4, <2>2 DEF PutRef, Call
    <3> QED
      BY <1>3, <3>1 DEF RefPut, RmCall
  <2> QED
    BY <2>1, <2>2
<1>5. ASSUME NEW r \in Ref, RemoveRef(p, r), r \notin DepRefs PROVE CallInv(p)'
  <2>1. pc'[p] = "rm_lock" /\ dst'[p] = r
    BY <1>1, <1>5 DEF RemoveRef, Call
  <2> QED
    BY <1>5, <2>1 DEF CallInv, RefPut, DepRefs, KeysOf, Dependencies
<1>6. ASSUME Run(p) \/ TakeLock(p) PROVE CallInv(p)'
  <2>1. CallInv(p)
    BY DEF DepInv
  <2>2. CASE Stays(p, RefPut) \/ Stays(p, RmCall)
    BY <2>1, <2>2, CallFrame DEF Stays, Held, RefPut, RmCall
  <2>3. CASE ~Stays(p, RefPut) /\ ~Stays(p, RmCall)
    BY <1>3, <1>6, <2>3, InsideCall
    DEF ClientInv, NoRepair, Commits, Unlinks, Elsewhere, RefPut, RmCall
  <2> QED
    BY <2>2, <2>3
<1>7. ASSUME Fail(p) \/ Crash(p) PROVE CallInv(p)'
  BY <1>1, <1>3, <1>7 DEF Fail, Crash, Return, RefPut, RmCall
<1>8. ASSUME UNCHANGED vars PROVE CallInv(p)'
  BY <1>8, CallFrame DEF DepInv, Held, vars
<1>9. CASE BuildStep(p)
  <2>1. ASSUME p \in Builder, Proceed(p) PROVE CallInv(p)'
    <3>1. ASSUME stage[p] # "idle" PROVE goal[p] \in Tree[p] /\ goal[p] \in Manifest
      BY <2>1, <3>1, BuildAssumption DEF ClientInv, GoalInv
    <3>2. ASSUME BuildRef(p) \/ ForceRef(p) PROVE CallInv(p)'
      <4>1. stage[p] # "idle" /\ PutRef(p, RefOf[goal[p]], goal[p])
        BY <3>2 DEF BuildRef, ForceRef
      <4>2. goal[p] \in Remote => HasDeps(goal[p])
        BY <2>1, <3>1, <4>1 DEF PublishedOnce, HasDeps
      <4>3. RefOf[goal[p]] \in KeysOf(goal[p])
        BY DEF KeysOf
      <4> QED
        BY <1>4, <3>1, <4>1, <4>2, <4>3
    <3>3. ASSUME ForceUnref(p) PROVE CallInv(p)'
      <4>1. stage[p] = "unref" /\ RemoveRef(p, RefOf[goal[p]]) /\ StageInv(p)
        BY <2>1, <3>3 DEF ForceUnref, DepInv
      <4> QED
        BY <1>5, <3>1, <4>1, BuildAssumption DEF StageInv
    <3>4. ASSUME BuildManifest(p) \/ \E b \in Blob : BuildLayer(p, b) PROVE CallInv(p)'
      BY <1>1, <1>3, <3>4 DEF BuildManifest, PutManifest, BuildLayer, PutBlob, Call, RefPut, RmCall
    <3> QED
      BY <2>1, <3>2, <3>3, <3>4 DEF Proceed
  <2>2. ASSUME Keep(p) PROVE CallInv(p)'
    BY <1>1, <1>3, <2>2 DEF Keep, Gc, Call, RefPut, RmCall
  <2>3. ASSUME (\E m \in Manifest : StartBuild(p, m)) \/ BuildReject(p) PROVE CallInv(p)'
    BY <1>8, <2>3 DEF StartBuild, BuildReject
  <2>4. ASSUME Advance(p) \/ BuildFail(p) \/ BuildCrash(p) PROVE CallInv(p)'
    BY <1>6, <1>7, <2>4 DEF Advance, BuildFail, BuildCrash
  <2> QED
    BY <1>9, <2>1, <2>2, <2>3, <2>4 DEF BuildStep
<1>10. CASE p \in Installer /\ InstallStep(p)
  <2>1. ASSUME NEW m \in Manifest, PutRefs(p, m) PROVE CallInv(p)'
    <3>1. PlanInv(p) /\ RootInv(p) /\ step[p] = "refs" /\ m \in plan[p] /\ pc[p] = "rest"
            /\ DepsOf[m] \cap plan[p] = {}
      BY <1>10, <2>1 DEF DepInv, ClientInv, PutRefs, PutRef, Call
    <3>2. m \in Closure(root[p]) /\ root[p] \in Manifest
      BY <3>1 DEF PlanInv, RootInv
    <3>3. HasDeps(m)
      BY <3>1, <3>2, ClosureClosed DEF HasDeps, PlanInv, PutOrPutting, RefPut
    <3>4. AskedAs(p, m) \subseteq KeysOf(m)
      BY <1>10, <3>1, Asked
    <3> QED
      BY <1>4, <2>1, <3>3, <3>4 DEF PutRefs
  <2>2. ASSUME NEW m \in Manifest, Resolve(p, m) \/ FetchManifest(p, m) PROVE CallInv(p)'
    BY <1>1, <1>3, <1>8, <2>2 DEF Resolve, FetchManifest, PutManifest, Call, RefPut, RmCall, bvars
  <2>3. ASSUME NEW d \in Diff, FetchLayer(p, d) PROVE CallInv(p)'
    BY <1>1, <1>3, <1>8, <2>3 DEF FetchLayer, PutBlob, Call, RefPut, RmCall
  <2>4. ASSUME Fetched(p) \/ StackLayers(p) \/ FetchFails(p) PROVE CallInv(p)'
    BY <1>8, <2>4 DEF Fetched, StackLayers, FetchFails, bvars
  <2>5. ASSUME InCall(p) \/ InstallFails(p) PROVE CallInv(p)'
    BY <1>6, <1>7, <2>5 DEF InCall, InstallFails
  <2> QED
    BY <1>10, <2>1, <2>2, <2>3, <2>4, <2>5 DEF InstallStep, InstallOn
<1> QED
  BY <1>9, <1>10

\* Only a version that conflicts is taken away, and a dependency never does.
LEMMA StageAfter ==
  ASSUME PublishedOnce, ClientInv, DepInv, NEW p \in Proc, BuildStep(p), NEW q \in Builder
  PROVE  StageInv(q)'
<1>1. StageInv(q) /\ GoalInv(q) /\ BuildLocal /\ RefsInv
  BY DEF DepInv, ClientInv
<1>2. CASE p = q /\ BuildRef(p)
  <2>1. goal[q] \in Manifest
    BY <1>1, <1>2, BuildAssumption DEF BuildRef, GoalInv
  <2>2. ASSUME Stage(q, "unref"), refs[RefOf[goal[q]]] \notin {Absent, goal[q]}
        PROVE  StageInv(q)'
    <3> DEFINE held == refs[RefOf[goal[q]]]
    <3>1. held \in Manifest /\ held # goal[q] /\ RefOf[goal[q]] \in KeysOf(held)
      BY <1>1, <2>1, <2>2, BuildAssumption DEF RefsInv, ClientInv, TypeInv, StoreType
    <3>2. RefOf[goal[q]] \in KeysOf(goal[q])
      BY DEF KeysOf
    <3>3. RefOf[goal[q]] \notin DepRefs
      BY <2>1, <3>1, <3>2, OneForKey DEF DepRefs
    <3> QED
      BY <2>2, <3>3 DEF Stage, StageInv, DepRefs, KeysOf, Dependencies
  <2>3. ASSUME Stage(q, "built") \/ UNCHANGED build \/ GiveUp(q) PROVE StageInv(q)'
    BY <1>1, <2>3 DEF Stage, GiveUp, build, StageInv, BuildLocal, DepRefs, KeysOf, Dependencies
  <2> QED
    BY <1>2, <2>2, <2>3 DEF BuildRef
<1>3. CASE p # q \/ ~BuildRef(p)
  <2>1. stage'[q] = "unref" => stage[q] = "unref" /\ goal'[q] = goal[q]
    <3>1. ASSUME NEW s \in Stages \ {"unref"}, Stage(p, s)
          PROVE  stage'[q] = "unref" => stage[q] = "unref" /\ goal'[q] = goal[q]
      BY <1>1, <3>1 DEF Stage, BuildLocal
    <3>2. ASSUME GiveUp(p)
          PROVE  stage'[q] = "unref" => stage[q] = "unref" /\ goal'[q] = goal[q]
      BY <1>1, <3>2 DEF GiveUp, BuildLocal
    <3>3. {"built", "layers", "ref", "reref"} \subseteq Stages \ {"unref"}
      BY DEF Stages, Ended
    <3>4. CASE \E m \in Manifest : StartBuild(p, m)
      BY <1>1, <3>4 DEF StartBuild, BuildLocal
    <3>5. CASE BuildRef(p)
      <4>1. p # q
        BY <1>3, <3>5
      <4> QED
        BY <1>1, <3>5, <4>1 DEF BuildRef, Stage, GiveUp, build, BuildLocal
    <3>6. CASE Proceed(p) /\ ~BuildRef(p)
      BY <3>1, <3>2, <3>3, <3>6
      DEF Proceed, BuildLayer, BuildManifest, ForceUnref, ForceRef, build
    <3>7. CASE BuildReject(p) \/ Keep(p) \/ BuildFail(p) \/ BuildCrash(p)
      BY <3>2, <3>7 DEF BuildReject, Keep, BuildFail, BuildCrash, build
    <3>8. CASE Advance(p)
      BY <3>1, <3>3, <3>8 DEF Advance, build
    <3> QED
      BY <3>4, <3>5, <3>6, <3>7, <3>8 DEF BuildStep
  <2> QED
    BY <1>1, <2>1 DEF StageInv, DepRefs, KeysOf, Dependencies
<1> QED
  BY <1>2, <1>3

\* A step of anyone else leaves the refs an installer has put.
LEMMA PlanStays ==
  ASSUME PublishedOnce, ClientInv, DepInv, NEW q \in Installer, NEW p \in Proc, UNCHANGED vars \/ StepOf(p),
         pc'[q] = pc[q] /\ arg'[q] = arg[q],
         step'[q] = step[q] /\ plan'[q] = plan[q] /\ root'[q] = root[q]
  PROVE  PlanInv(q)'
<1>1. PlanInv(q)
  BY DEF DepInv
<1>2. \A k \in Dependencies : PutOrPutting(q, k) => PutOrPutting(q, k)'
  BY DepRefsStay DEF PutOrPutting
<1> QED
  BY <1>1, <1>2 DEF PlanInv, Closure, Dependencies

\* An installer crosses off what it begins to put, and puts it or gives up.
LEMMA PlanAfter ==
  ASSUME PublishedOnce, ClientInv, DepInv, NEW p \in Installer, InstallStep(p)
  PROVE  PlanInv(p)'
<1>1. p \in Proc /\ PlanInv(p) /\ InstallLocal /\ CallInv(p) /\ TypeInv
        /\ pc \in [Proc -> Pcs] /\ arg \in [Proc -> {Absent} \cup Object]
        /\ refs \in [Ref -> {Absent} \cup Manifest]
  BY TypeInvTypeOK, InstallAssumption DEF DepInv, ClientInv, TypeOK
<1>2. UNCHANGED vars \/ StepOf(p)
  BY InstallStepOf
<1>3. ASSUME Forget(p) PROVE PlanInv(p)'
  BY <1>1, <1>3 DEF Forget, PlanInv, InstallLocal
<1>4. ASSUME step'[p] = "fetch" PROVE PlanInv(p)'
  BY <1>4 DEF PlanInv
<1>5. CASE \E m \in Manifest : Resolve(p, m)
  BY <1>1, <1>4, <1>5 DEF Resolve, InstallLocal
<1>6. CASE \E m \in Manifest : FetchManifest(p, m)
  BY <1>4, <1>6 DEF FetchManifest, Crossed
<1>7. CASE \E d \in Diff : FetchLayer(p, d)
  BY <1>3, <1>4, <1>7 DEF FetchLayer, Crossed
<1>8. CASE Fetched(p)
  BY <1>1, <1>8 DEF Fetched, InstallLocal, PlanInv, Closure
<1>9. ASSUME NEW m \in Manifest, PutRefs(p, m), NEW r \in AskedAs(p, m), PutRef(p, r, m),
             Crossed(p, m), refs[r] \in {Absent, m}
      PROVE  PlanInv(p)'
  <2>1. UNCHANGED refs /\ r \in KeysOf(m)
    BY <1>9, Asked DEF PutRefs, PutRef, store
  <2>2. UNCHANGED <<step, root>> /\ plan'[p] = plan[p] \ {m} /\ step[p] = "refs" /\ pc[p] = "rest"
    BY <1>1, <1>9, <2>1 DEF PutRefs, Crossed, InstallLocal, PutRef, Call
  <2>3. PutOrPutting(p, m)'
    BY <1>1, <1>9, <2>1 DEF PutOrPutting, Held, KeysOf, PutRef, Call, RefPut
  <2>4. \A k : k # m /\ PutOrPutting(p, k) => PutOrPutting(p, k)'
    BY <2>1, <2>2 DEF PutOrPutting, Held, KeysOf, RefPut
  <2> QED
    BY <1>1, <2>2, <2>3, <2>4 DEF PlanInv, Closure, Dependencies
<1>10. CASE StackLayers(p) \/ FetchFails(p) \/ InstallFails(p)
  BY <1>3, <1>10 DEF StackLayers, FetchFails, InstallFails
<1>11. CASE InCall(p)
  <2>1. UNCHANGED install /\ (Run(p) \/ TakeLock(p))
    BY <1>11 DEF InCall
  <2>2. ASSUME NEW k \in Dependencies, PutOrPutting(p, k) PROVE PutOrPutting(p, k)'
    <3>1. CASE Held(k)
      BY <1>1, <1>2, <3>1, DepRefsStay DEF PutOrPutting
    <3>2. CASE pc[p] \in RefPut /\ arg[p] = k
      <4>1. Stays(p, RefPut) \/ Commits(p)
        BY <1>1, <2>1, <3>2, InsideCall
        DEF ClientInv, NoRepair, RefPut, RmCall, Stays, Unlinks, Elsewhere
      <4>2. dst[p] \in KeysOf(k) /\ KeysOf(k) \subseteq Ref
        BY <1>1, <3>2, DepKeys DEF CallInv
      <4> QED
        BY <1>1, <3>2, <4>1, <4>2 DEF Stays, Commits, PutOrPutting, Held, KeysOf
    <3> QED
      BY <2>2, <3>1, <3>2 DEF PutOrPutting
  <2> QED
    BY <1>1, <2>1, <2>2 DEF install, PlanInv, Closure, Dependencies
<1>12. CASE \E m \in Manifest : PutRefs(p, m)
  BY <1>3, <1>9, <1>12 DEF PutRefs
<1> QED
  BY <1>5, <1>6, <1>7, <1>8, <1>10, <1>11, <1>12 DEF InstallStep, InstallOn

LEMMA NextDep == PublishedOnce /\ ClientInv /\ DepInv /\ [InstallNext]_ivars => DepInv'
<1> SUFFICES ASSUME PublishedOnce, ClientInv, DepInv, [InstallNext]_ivars PROVE DepInv'
  OBVIOUS
<1>1. CASE UNCHANGED ivars
  <2>1. UNCHANGED <<vars, build, install>> /\ refs' = refs
    BY <1>1 DEF ivars, bvars, vars
  <2>2. \A k : Held(k) => Held(k)'
    BY <2>1 DEF Held, KeysOf
  <2>3. ASSUME NEW p \in Proc PROVE CallInv(p)'
    BY <2>1, <2>2, CallFrame DEF DepInv, vars
  <2>4. RefsInv' /\ DepsFirst'
    BY <2>1, <2>2 DEF DepInv, RefsInv, DepsFirst, HasDeps, KeysOf
  <2>5. ASSUME NEW p \in Builder PROVE StageInv(p)'
    BY <2>1 DEF DepInv, StageInv, build, DepRefs, KeysOf, Dependencies
  <2>6. ASSUME NEW p \in Installer PROVE PlanInv(p)'
    <3>1. \A k : PutOrPutting(p, k) => PutOrPutting(p, k)'
      BY <2>1, <2>2 DEF PutOrPutting, vars
    <3> QED
      BY <2>1, <3>1 DEF DepInv, PlanInv, install, Closure, Dependencies
  <2> QED
    BY <2>3, <2>4, <2>5, <2>6 DEF DepInv
<1>2. ASSUME NEW p \in Proc,
             \/ p \notin Installer /\ BuildStep(p) /\ UNCHANGED install
             \/ p \in Installer /\ InstallStep(p)
      PROVE  DepInv'
  <2>1. (UNCHANGED vars \/ StepOf(p)) /\ TypeInv
    BY <1>2, BuildStepOf, InstallStepOf DEF ClientInv
  <2>2. \A q \in Proc : q # p => pc'[q] = pc[q] /\ arg'[q] = arg[q] /\ dst'[q] = dst[q]
    BY <2>1, OthersStay DEF vars
  <2>3. RefsInv' /\ DepsFirst'
    BY <2>1, RefsAfter
  <2>4. ASSUME NEW q \in Proc, q # p PROVE CallInv(q)'
    <3>1. CallInv(q)
      BY DEF DepInv
    <3>2. \A k \in Dependencies : Held(k) => Held(k)'
      BY <2>1, DepRefsStay
    <3> QED
      BY <2>2, <2>4, <3>1, <3>2, CallFrame
  <2>5. CallInv(p)'
    BY <1>2, CallAfter
  <2>6. ASSUME NEW q \in Builder PROVE StageInv(q)'
    <3>1. CASE BuildStep(p)
      BY <2>6, <3>1, StageAfter
    <3>2. CASE p \in Installer /\ InstallStep(p)
      BY <2>6, <3>2, InstallerFrame DEF build, DepInv, StageInv, DepRefs, KeysOf, Dependencies
    <3> QED
      BY <1>2, <3>1, <3>2
  <2>7. ASSUME NEW q \in Installer PROVE PlanInv(q)'
    <3>1. CASE p = q /\ InstallStep(p)
      BY <2>7, <3>1, PlanAfter
    <3>2. CASE p # q
      <4>1. q \in Proc /\ InstallLocal
        BY InstallAssumption DEF ClientInv
      <4>2. step'[q] = step[q] /\ plan'[q] = plan[q] /\ root'[q] = root[q]
        BY <1>2, <3>2, <4>1
        DEF install, InstallLocal, InstallStep, InstallOn, Resolve, FetchManifest, PutRefs,
            FetchLayer, Fetched, StackLayers, FetchFails, InCall, InstallFails, Crossed, Forget
      <4> QED
        BY <2>1, <2>2, <3>2, <4>1, <4>2, PlanStays
    <3> QED
      BY <1>2, <2>7, <3>1, <3>2
  <2> QED
    BY <2>3, <2>4, <2>5, <2>6, <2>7 DEF DepInv
<1>3. Installer \subseteq Proc /\ here \subseteq Proc
  BY InstallAssumption DEF ClientInv, InstallLocal
<1> QED
  BY <1>1, <1>2, <1>3 DEF InstallNext

LEMMA DepInvariant == InstallSpec => [](PublishedOnce => DepInv)
<1>1. (PublishedOnce => DepInv) /\ ClientInv /\ [InstallNext]_ivars => (PublishedOnce => DepInv)'
  BY NextDep DEF PublishedOnce, KeysOf
<1>2. InstallInit => (PublishedOnce => DepInv)
  BY InitDep
<1> QED
  BY <1>1, <1>2, ClientInvariant, PTL DEF InstallSpec

\* Whatever is killed and whenever, and whatever else is built: while the version
\* of a dependency is nobody else's, the ref of a package of the registry is never
\* there without refs of its dependencies, under the names they are asked for by.
THEOREM DependenciesFirstOnDisk == InstallSpec => []DependencyRefsFirst
<1>1. (PublishedOnce => DepInv) => DependencyRefsFirst
  <2> SUFFICES ASSUME PublishedOnce, DepInv, NEW m \in Remote, NEW r \in Ref, refs[r] = m,
                      NEW k \in DepsOf[m]
               PROVE  \E s \in Ref : refs[s] = k
    BY DEF DependencyRefsFirst
  <2>1. k \in Manifest
    BY InstallAssumption, StoreAssumption DEF Remote
  <2> QED
    BY <2>1, DepKeys DEF DepInv, DepsFirst, HasDeps, Held
<1> QED
  BY <1>1, DepInvariant, PTL

-----------------------------------------------------------------------------
(***************************************************************************)
(* Forced builds never lose a ref: any number of watchers and other        *)
(* builders of any versions take refs away and put them back, two calls    *)
(* without a lock over both, beside installs and collections.              *)
(***************************************************************************)

\* What the theorem is about: a builder that dies or gets an error between the
\* two calls does leave its version without a ref.
BuildersEndTheirCalls == Builder \cap Faulty = {}

\* A builder puts and removes the ref of its goal only, and removes it only on
\* the way to putting it again; nobody else removes one.
OwnCall(p) ==
  /\ pc[p] \in RefPut => stage[p] \in {"ref", "reref"} /\ dst[p] = RefOf[goal[p]]
  /\ pc[p] \in RmCall => stage[p] = "reref" /\ dst[p] = RefOf[goal[p]]

\* A version has its ref, or a builder is about to put it again.
Covered(r) == refs[r] # Absent \/ \E w \in Builder : stage[w] = "reref" /\ RefOf[goal[w]] = r

BuiltInv ==
  /\ \A p \in Builder : OwnCall(p) /\ (stage[p] = "built" => Covered(RefOf[goal[p]]))
  /\ \A p \in Proc \ Builder : pc[p] \notin RmCall

LEMMA InitBuilt == InstallInit => BuiltInv
  BY BuildAssumption DEF InstallInit, BuildInit, Init, BuiltInv, OwnCall, RefPut, RmCall

\* What a step of process p leaves as it was: the other processes.
Others(p) ==
  /\ \A q \in Builder : q # p => stage'[q] = stage[q] /\ goal'[q] = goal[q]
  /\ \A q \in Proc : q # p => pc'[q] = pc[q] /\ dst'[q] = dst[q]

\* A step that removes no ref and ends no second put without its ref covers what
\* was covered.
LEMMA CoveredStays ==
  ASSUME ClientInv, NEW p \in Proc, Others(p), UNCHANGED refs \/ Commits(p),
         p \in Builder /\ stage[p] = "reref" =>
           \/ stage'[p] = "reref" /\ goal'[p] = goal[p]
           \/ refs'[RefOf[goal[p]]] # Absent,
         NEW r \in Ref, Covered(r)
  PROVE  Covered(r)'
<1>1. refs \in [Ref -> {Absent} \cup Manifest] /\ Fits(pc[p], arg[p], dst[p])
  BY DEF ClientInv, TypeInv, StoreType, LocalInv
<1>2. refs[r] # Absent => refs'[r] # Absent
  BY <1>1, StoreAssumption DEF Commits, Fits
<1>3. ASSUME NEW w \in Builder, stage[w] = "reref", RefOf[goal[w]] = r PROVE Covered(r)'
  BY <1>3 DEF Covered, Others
<1> QED
  BY <1>2, <1>3 DEF Covered

\* So BuiltInv holds after a step if it holds of the process that made it.
LEMMA BuiltAfter ==
  ASSUME ClientInv, BuiltInv, NEW p \in Proc, Others(p), UNCHANGED refs \/ Commits(p),
         p \in Builder => /\ OwnCall(p)'
                          /\ stage'[p] = "built" => Covered(RefOf[goal[p]])'
                          /\ stage[p] = "reref" =>
                               \/ stage'[p] = "reref" /\ goal'[p] = goal[p]
                               \/ refs'[RefOf[goal[p]]] # Absent,
         p \notin Builder => pc'[p] \notin RmCall
  PROVE  BuiltInv'
<1>1. ASSUME NEW q \in Builder, q # p
      PROVE  OwnCall(q)' /\ (stage[q] = "built" => Covered(RefOf[goal[q]]))'
  <2>1. q \in Proc /\ (stage[q] = "built" => goal[q] \in Manifest /\ RefOf[goal[q]] \in Ref)
    BY BuildAssumption DEF ClientInv, GoalInv
  <2>2. stage'[q] = stage[q] /\ goal'[q] = goal[q] /\ pc'[q] = pc[q] /\ dst'[q] = dst[q]
    BY <1>1, <2>1 DEF Others
  <2>3. ASSUME stage[q] = "built" PROVE Covered(RefOf[goal[q]])'
    <3>1. PICK r \in Ref : r = RefOf[goal[q]]
      BY <2>1, <2>3
    <3>2. Covered(r)'
      BY <2>3, <3>1, CoveredStays DEF BuiltInv
    <3> QED
      BY <2>2, <3>1, <3>2 DEF Covered
  <2> QED
    BY <2>2, <2>3 DEF BuiltInv, OwnCall
<1>2. ASSUME NEW q \in Proc \ Builder PROVE pc'[q] \notin RmCall
  BY <1>2 DEF BuiltInv, Others
<1>3. ASSUME NEW q \in Builder PROVE OwnCall(q)' /\ (stage[q] = "built" => Covered(RefOf[goal[q]]))'
  BY <1>1
<1> QED
  BY <1>2, <1>3 DEF BuiltInv

LEMMA OthersOf ==
  ASSUME ClientInv, NEW p \in Proc, BuildStep(p)
  PROVE  Others(p)
<1>1. UNCHANGED vars \/ StepOf(p)
  BY BuildStepOf
<1>2. \A q \in Proc : q # p => pc'[q] = pc[q] /\ dst'[q] = dst[q]
  BY <1>1, OthersStay DEF vars, ClientInv
<1>3. \A q \in Builder : q # p => stage'[q] = stage[q] /\ goal'[q] = goal[q]
  BY DEF ClientInv, BuildLocal, BuildStep, StartBuild, Proceed, BuildLayer, BuildManifest, BuildRef,
         ForceUnref, ForceRef, BuildReject, Keep, Advance, BuildFail, BuildCrash, Stage, GiveUp, build
<1> QED
  BY <1>2, <1>3 DEF Others

\* A builder starts a call or a build.
LEMMA ProceedBuilt ==
  ASSUME ClientInv, BuiltInv, NEW p \in Builder,
         Proceed(p) \/ BuildReject(p) \/ \E m \in Manifest : StartBuild(p, m)
  PROVE  BuiltInv'
<1>1. p \in Proc /\ OwnCall(p) /\ stage \in [Builder -> Stages] /\ pc \in [Proc -> Pcs]
      /\ dst \in [Proc -> {Absent} \cup Ref] /\ BuildStep(p)
  BY BuildAssumption DEF ClientInv, TypeInv, LocalInv, BuiltInv, BuildLocal, BuildStep
<1>2. stage[p] # "idle" => goal[p] \in Manifest /\ RefOf[goal[p]] \in Ref
  BY BuildAssumption DEF ClientInv, GoalInv
<1>3. Others(p)
  BY <1>1, OthersOf
<1>4. ASSUME NEW m \in Manifest, StartBuild(p, m) PROVE BuiltInv'
  <2>1. stage[p] \in Ended /\ stage'[p] = "layers" /\ UNCHANGED <<refs, pc>>
    BY <1>1, <1>4 DEF StartBuild, vars
  <2> QED
    BY <1>1, <1>3, <2>1, BuiltAfter DEF OwnCall, Ended
<1>5. ASSUME BuildReject(p) PROVE BuiltInv'
  <2>1. stage[p] = "layers" /\ stage'[p] = "idle" /\ UNCHANGED <<refs, pc>>
    BY <1>1, <1>5 DEF BuildReject, GiveUp, vars
  <2> QED
    BY <1>1, <1>3, <2>1, BuiltAfter DEF OwnCall
<1>6. ASSUME (\E b \in Blob : BuildLayer(p, b)) \/ BuildManifest(p) PROVE BuiltInv'
  <2>1. stage[p] = "layers" /\ stage'[p] \in {"layers", "ref"} /\ UNCHANGED refs
    BY <1>1, <1>6 DEF BuildLayer, BuildManifest, Stage, build, PutBlob, PutManifest, store
  <2>2. pc'[p] \notin RefPut \cup RmCall
    BY <1>1, <1>6 DEF BuildLayer, BuildManifest, PutBlob, PutManifest, Call, RefPut, RmCall
  <2> QED
    BY <1>1, <1>3, <2>1, <2>2, BuiltAfter DEF OwnCall
<1>7. ASSUME ForceUnref(p) PROVE BuiltInv'
  <2>1. /\ stage[p] = "unref" /\ stage'[p] = "reref" /\ goal'[p] = goal[p] /\ UNCHANGED refs
        /\ pc'[p] = "rm_lock" /\ dst'[p] = RefOf[goal[p]]
    BY <1>1, <1>7 DEF ForceUnref, RemoveRef, Call, Stage, store
  <2> QED
    BY <1>1, <1>3, <2>1, BuiltAfter DEF OwnCall, RefPut, RmCall
<1>8. ASSUME BuildRef(p) \/ ForceRef(p) PROVE BuiltInv'
  <2>1. /\ stage[p] \in {"ref", "reref"} /\ UNCHANGED refs
        /\ PutRef(p, RefOf[goal[p]], goal[p])
    BY <1>8 DEF BuildRef, ForceRef, PutRef, store
  <2>2. goal[p] # Absent /\ goal[p] \in Manifest
    BY <1>2, <2>1, StoreAssumption
  <2>3. CASE refs[RefOf[goal[p]]] = goal[p]
    <3>1. stage'[p] = "built" /\ goal'[p] = goal[p]
      BY <1>1, <1>8, <2>3 DEF BuildRef, ForceRef, Stage
    <3>2. pc'[p] = "rest"
      BY <1>1, <2>1, <2>2, <2>3 DEF PutRef, Call
    <3> QED
      BY <1>1, <1>3, <2>1, <2>2, <2>3, <3>1, <3>2, BuiltAfter DEF OwnCall, Covered, RefPut, RmCall
  <2>4. CASE refs[RefOf[goal[p]]] = Absent
    <3>1. UNCHANGED <<stage, goal>>
      BY <1>8, <2>2, <2>4 DEF BuildRef, ForceRef, build
    <3>2. pc'[p] = "ref_lock" /\ dst'[p] = RefOf[goal[p]]
      BY <1>1, <2>1, <2>4 DEF PutRef, Call
    <3> QED
      BY <1>1, <1>3, <2>1, <3>1, <3>2, BuiltAfter DEF OwnCall, RefPut, RmCall
  <2>5. CASE refs[RefOf[goal[p]]] \notin {goal[p], Absent}
    <3>1. stage'[p] \in {"unref", "idle"}
      BY <1>1, <1>8, <2>5 DEF BuildRef, ForceRef, Stage, GiveUp
    <3>2. pc'[p] = "rest"
      BY <1>1, <2>1, <2>5 DEF PutRef, Call
    <3> QED
      BY <1>1, <1>3, <2>1, <2>5, <3>1, <3>2, BuiltAfter DEF OwnCall, RefPut, RmCall
  <2> QED
    BY <2>3, <2>4, <2>5
<1> QED
  BY <1>4, <1>5, <1>6, <1>7, <1>8 DEF Proceed

LEMMA CommitReturns ==
  ASSUME ClientInv, NEW p \in Proc, Run(p) \/ TakeLock(p), pc[p] = "ref_commit"
  PROVE  pc'[p] = "rest"
<1>1. pc \in [Proc -> Pcs]
  BY DEF ClientInv, TypeInv, LocalInv
<1>2. ~TakeLock(p) /\ ~GcStep(p) /\ ~RepairStep(p)
  BY DEF TakeLock, RefLock, RemoveLock, PlanLock, GcStep, Sweep, GcMark, GcScanObjects, GcScanDiffs,
         GcSweepObject, GcSweptObjects, GcSweepDiff, GcDone, PlanDone, RepairStep, FsckRefs, RepairDiff,
         RepairedDiffs, RepairRef, RepairDone
<1>3. RefCommit(p)
  BY <1>2 DEF Run, PutStep, BlobPersist, DiffExists, DiffCreate, DiffWrite, ManifestPersist, RefTmp,
              RemoveUnlink
<1> QED
  BY <1>1, <1>3 DEF RefCommit, Return

\* A step inside a call: a commit covers what it puts, and what an unlink takes
\* away its own builder will put again.
LEMMA AdvanceBuilt ==
  ASSUME ClientInv, BuiltInv, NEW p \in Proc, Advance(p)
  PROVE  BuiltInv'
<1>1. /\ stage \in [Builder -> Stages] /\ pc[p] \notin Repairing /\ BuildStep(p)
      /\ refs \in [Ref -> {Absent} \cup Manifest] /\ Fits(pc[p], arg[p], dst[p])
  BY DEF ClientInv, TypeInv, StoreType, LocalInv, BuildLocal, BuildStep, NoRepair
<1>2. Others(p)
  BY <1>1, OthersOf
<1>3. p \in Builder => OwnCall(p) /\ (stage[p] # "idle" => goal[p] \in Manifest)
  BY BuildAssumption DEF BuiltInv, ClientInv, GoalInv
<1>4. p \notin Builder => pc[p] \notin RmCall
  BY DEF BuiltInv
<1>5. p \in Builder /\ pc[p] # "ref_commit" => UNCHANGED <<stage, goal>>
  BY DEF Advance, build
<1>6. CASE Stays(p, RefPut) \/ Stays(p, RmCall)
  <2>1. pc[p] # "ref_commit"
    BY <1>6, CommitReturns DEF Advance, Stays, RefPut, RmCall
  <2>2. CASE p \in Builder
    <3>1. UNCHANGED <<stage, goal>>
      BY <1>5, <2>1, <2>2
    <3> QED
      BY <1>2, <1>3, <1>6, <2>2, <3>1, BuiltAfter DEF OwnCall, Stays, BuiltInv, Covered, RefPut, RmCall
  <2> QED
    BY <1>2, <1>4, <1>6, <2>2, BuiltAfter DEF Stays, RefPut, RmCall
<1>7. CASE Commits(p)
  <2>1. CASE p \in Builder
    <3>1. stage'[p] = "built" /\ goal'[p] = goal[p]
      BY <1>1, <1>7, <2>1 DEF Advance, Stage, Commits
    <3>2. dst[p] = RefOf[goal[p]] /\ refs'[RefOf[goal[p]]] # Absent /\ pc'[p] = "rest"
      BY <1>1, <1>3, <1>7, <2>1, StoreAssumption DEF Commits, OwnCall, RefPut, Fits
    <3> QED
      BY <1>2, <1>7, <2>1, <3>1, <3>2, BuiltAfter DEF OwnCall, Covered, RefPut, RmCall
  <2> QED
    BY <1>2, <1>7, <2>1, BuiltAfter DEF Commits, RmCall
<1>8. CASE Unlinks(p)
  <2>1. p \in Builder /\ stage[p] = "reref" /\ dst[p] = RefOf[goal[p]]
    BY <1>3, <1>4, <1>8 DEF Unlinks, OwnCall, RmCall
  <2>2. UNCHANGED <<stage, goal>>
    BY <1>5, <1>8, <2>1 DEF Unlinks
  <2>3. ASSUME NEW r \in Ref, Covered(r) PROVE Covered(r)'
    BY <1>1, <1>8, <2>1, <2>2, <2>3 DEF Unlinks, Covered
  <2>4. ASSUME NEW q \in Builder PROVE OwnCall(q)' /\ (stage[q] = "built" => Covered(RefOf[goal[q]]))'
    <3>1. q \in Proc /\ (stage[q] = "built" => goal[q] \in Manifest /\ RefOf[goal[q]] \in Ref)
      BY BuildAssumption DEF ClientInv, GoalInv
    <3>2. OwnCall(q)'
      BY <1>2, <1>8, <2>2, <3>1 DEF BuiltInv, OwnCall, Others, Unlinks, RefPut, RmCall
    <3>3. ASSUME stage[q] = "built" PROVE Covered(RefOf[goal[q]])'
      <4>1. PICK r \in Ref : r = RefOf[goal[q]]
        BY <3>1, <3>3
      <4>2. Covered(r)'
        BY <2>3, <3>3, <4>1 DEF BuiltInv
      <4> QED
        BY <2>2, <4>1, <4>2 DEF Covered
    <3> QED
      BY <2>2, <3>2, <3>3
  <2>5. \A q \in Proc \ Builder : pc'[q] \notin RmCall
    BY <1>2, <2>1 DEF BuiltInv, Others
  <2> QED
    BY <2>4, <2>5 DEF BuiltInv
<1>9. CASE pc[p] \notin Elsewhere /\ pc'[p] \notin Elsewhere /\ UNCHANGED refs
  <2>1. p \in Builder => UNCHANGED <<stage, goal>>
    BY <1>5, <1>9 DEF Elsewhere, RefPut
  <2> QED
    BY <1>2, <1>9, <2>1, BuiltAfter DEF Elsewhere, OwnCall, BuiltInv, Covered
<1> QED
  BY <1>1, <1>6, <1>7, <1>8, <1>9, InsideCall DEF Advance, ClientInv

\* The others: a keeper that begins a gc, failures and deaths of what is no
\* builder, installs.
LEMMA OtherBuilt ==
  ASSUME ClientInv, BuiltInv, BuildersEndTheirCalls, NEW p \in Proc \ Builder,
         Keep(p) \/ BuildFail(p) \/ BuildCrash(p) \/ (p \in Installer /\ InstallStep(p))
  PROVE  BuiltInv'
<1>1. p \in Proc /\ pc \in [Proc -> Pcs] /\ pc[p] \notin RmCall /\ pc[p] \notin Repairing
  BY DEF ClientInv, TypeInv, LocalInv, BuiltInv, NoRepair
<1>2. CASE Keep(p) \/ BuildFail(p) \/ BuildCrash(p)
  <2>1. Others(p)
    BY <1>1, <1>2, OthersOf DEF BuildStep
  <2>2. UNCHANGED refs /\ pc'[p] \notin RmCall
    BY <1>1, <1>2 DEF Keep, Gc, BuildFail, BuildCrash, Fail, Crash, Call, Return, RmCall, store
  <2> QED
    BY <2>1, <2>2, BuiltAfter
<1>3. CASE p \in Installer /\ InstallStep(p)
  <2>1. UNCHANGED vars \/ StepOf(p)
    BY <1>3, InstallStepOf
  <2>2. Others(p)
    BY <1>1, <1>3, <2>1, OthersStay, InstallerFrame, BuildAssumption DEF Others, build, vars, ClientInv
  <2>3. UNCHANGED refs \/ Commits(p)
    BY <1>1, <2>1, RefsMove DEF Unlinks, RmCall
  <2>4. pc'[p] \notin RmCall
    <3>1. CASE InCall(p)
      BY <1>1, <3>1, InsideCall DEF InCall, ClientInv, Stays, Commits, Unlinks, Elsewhere, RefPut, RmCall
    <3>2. CASE InstallFails(p)
      BY <1>1, <3>2 DEF InstallFails, Fail, Crash, Return, RmCall
    <3>3. CASE \E m \in Manifest : Resolve(p, m) \/ FetchManifest(p, m) \/ PutRefs(p, m)
      BY <1>1, <3>3 DEF Resolve, FetchManifest, PutRefs, PutManifest, PutRef, Call, RmCall, bvars, vars
    <3>4. CASE \E d \in Diff : FetchLayer(p, d)
      BY <1>1, <3>4 DEF FetchLayer, PutBlob, Call, RmCall, vars
    <3>5. CASE Fetched(p) \/ StackLayers(p) \/ FetchFails(p)
      BY <1>1, <3>5 DEF Fetched, StackLayers, FetchFails, bvars, vars
    <3> QED
      BY <1>3, <3>1, <3>2, <3>3, <3>4, <3>5 DEF InstallStep, InstallOn
  <2> QED
    BY <1>1, <2>2, <2>3, <2>4, BuiltAfter
<1> QED
  BY <1>2, <1>3

LEMMA NextBuilt ==
  ASSUME ClientInv, BuiltInv, BuildersEndTheirCalls, [InstallNext]_ivars
  PROVE  BuiltInv'
<1>1. CASE UNCHANGED ivars
  BY <1>1 DEF ivars, bvars, vars, build, BuiltInv, OwnCall, Covered
<1>2. ASSUME NEW p \in here \cap Installer, InstallStep(p) PROVE BuiltInv'
  BY <1>2, OtherBuilt, InstallAssumption
<1>3. ASSUME NEW p \in here \ Installer, BuildStep(p) PROVE BuiltInv'
  <2>1. p \in Proc /\ (p \in Faulty => p \notin Builder)
    BY InstallAssumption DEF ClientInv, InstallLocal, BuildersEndTheirCalls
  <2> QED
    BY <1>3, <2>1, ProceedBuilt, AdvanceBuilt, OtherBuilt DEF BuildStep, BuildFail, BuildCrash
<1> QED
  BY <1>1, <1>2, <1>3 DEF InstallNext

LEMMA BuiltHasRef == BuiltInv => BuiltVersionHasRef
  BY DEF BuiltInv, BuiltVersionHasRef, Covered, Building, Ended

\* Whatever watch builds of the same and of other versions, installs and
\* collections do beside it: once the builds are over, a version that one of them
\* reported built has a ref, if builders do not die or get errors inside a call.
THEOREM BuiltRefs ==
  ASSUME BuildersEndTheirCalls
  PROVE  InstallSpec => []BuiltVersionHasRef
<1>1. ClientInv /\ BuiltInv /\ [InstallNext]_ivars => BuiltInv'
  BY NextBuilt
<1> QED
  BY <1>1, InitBuilt, BuiltHasRef, ClientInvariant, PTL DEF InstallSpec
=============================================================================
