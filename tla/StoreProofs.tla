---------------------------- MODULE StoreProofs ----------------------------
(***************************************************************************)
(* Proofs about module Store, for any set of processes, any manifests,     *)
(* layers and encodings, and any set of refs.                              *)
(***************************************************************************)
EXTENDS Store, TLAPS

(***************************************************************************)
(* The type invariant, strengthened: inside a call the arguments it was    *)
(* given are still there.  StoreType is about what processes share,        *)
(* LocalInv about what each process keeps.                                 *)
(***************************************************************************)
Fits(l, a, r) ==
  /\ l \in BlobPc => a \in Blob
  /\ l = "man_persist" => a \in Manifest
  /\ l \in {"ref_lock", "ref_tmp", "ref_commit"} => a \in Manifest /\ r \in Ref
  /\ l \in {"rm_lock", "rm_unlink"} => r \in Ref

StoreType ==
  /\ objects \subseteq Object
  /\ diffs \in [Diff -> {Absent} \cup Blob \cup Proc]
  /\ refs \in [Ref -> {Absent} \cup Manifest]
  /\ strays \subseteq Manifest
  /\ shared \subseteq Proc
  /\ excl \in {Absent} \cup Proc

DeadType == [objs : SUBSET Object, diffs : SUBSET Diff, refs : SUBSET (Ref \cup Manifest)]

LocalInv ==
  /\ pc \in [Proc -> Pcs]
  /\ arg \in [Proc -> {Absent} \cup Object]
  /\ dst \in [Proc -> {Absent} \cup Ref]
  /\ dead \in [Proc -> DeadType]
  /\ kept \in [Proc -> SUBSET Ref]
  /\ mended \in [Proc -> SUBSET Diff]
  /\ \A p \in Proc : Fits(pc[p], arg[p], dst[p])

TypeInv == StoreType /\ LocalInv

LEMMA TypeInvTypeOK == TypeInv => TypeOK
  BY DEF TypeInv, StoreType, LocalInv, TypeOK, DeadType

LEMMA PcsMembers ==
  /\ "rest" \in Pcs /\ "man_persist" \in Pcs
  /\ InGc \subseteq Pcs /\ Repairing \subseteq Pcs /\ Sharing \subseteq Pcs
  /\ Waiting \subseteq Pcs /\ BlobPc \subseteq Pcs
  BY DEF Pcs

LEMMA InitTypeInv == Init => TypeInv
  BY PcsMembers DEF Init, TypeInv, StoreType, LocalInv, DeadType, Nothing, Fits, BlobPc

(***************************************************************************)
(* What the three control operators do to LocalInv.                        *)
(***************************************************************************)
LEMMA CallLocal ==
  ASSUME LocalInv, NEW p \in Proc, NEW l \in Pcs, NEW a \in {Absent} \cup Object,
         NEW r \in {Absent} \cup Ref, Fits(l, a, r), Call(p, l, a, r)
  PROVE  LocalInv'
<1>1. \A q \in Proc : Fits(pc'[q], arg'[q], dst'[q])
  BY DEF LocalInv, Call
<1> QED
  BY <1>1 DEF LocalInv, Call

LEMMA GotoLocal ==
  ASSUME LocalInv, NEW p \in Proc, NEW l \in Pcs, Fits(l, arg[p], dst[p]), Goto(p, l)
  PROVE  LocalInv'
<1>1. \A q \in Proc : Fits(pc'[q], arg'[q], dst'[q])
  BY DEF LocalInv, Goto
<1> QED
  BY <1>1 DEF LocalInv, Goto

LEMMA FitsRest == \A a, r : Fits("rest", a, r)
  BY DEF Fits, BlobPc

LEMMA ReturnLocal ==
  ASSUME LocalInv, NEW p \in Proc, Return(p)
  PROVE  LocalInv'
<1>1. \A q \in Proc : Fits(pc'[q], arg'[q], dst'[q])
  BY FitsRest DEF LocalInv, Return
<1>2. Nothing \in DeadType
  BY DEF Nothing, DeadType
<1> QED
  BY <1>1, <1>2, PcsMembers DEF LocalInv, Return

\* A step that moves the program counter of a process that has no arguments to
\* keep, and narrows or fills its lists of files found dead.
LEMMA ListLocal ==
  ASSUME LocalInv, NEW p \in Proc, NEW l \in InGc \cup Repairing, NEW D \in DeadType,
         pc' = [pc EXCEPT ![p] = l], dead' = [dead EXCEPT ![p] = D],
         kept' \in [Proc -> SUBSET Ref], mended' \in [Proc -> SUBSET Diff],
         UNCHANGED <<arg, dst>>
  PROVE  LocalInv'
<1>1. l \in Pcs
  BY PcsMembers
<1>2. Fits(l, arg[p], dst[p])
  BY DEF Fits, BlobPc, InGc, Sweeping, Repairing
<1>3. \A q \in Proc : Fits(pc'[q], arg'[q], dst'[q])
  BY <1>2 DEF LocalInv
<1> QED
  BY <1>1, <1>3 DEF LocalInv

\* Releasing the lock and leaving the directory tree alone keeps StoreType.
LEMMA UnlockType ==
  ASSUME StoreType, NEW p \in Proc, Unlock(p), UNCHANGED <<diffs, objects, refs>>,
         strays' \subseteq Manifest
  PROVE  StoreType'
  BY DEF StoreType, Unlock

(***************************************************************************)
(* One step per action, grouped as Next groups them.                       *)
(***************************************************************************)
LEMMA BeginType ==
  ASSUME TypeInv, NEW p \in Proc, Begin(p)
  PROVE  TypeInv'
<1> USE DEF TypeInv
<1>1. ASSUME NEW b \in Blob, PutBlob(p, b) PROVE TypeInv'
  <2>1. PICK l \in BlobPc : Call(p, l, b, Absent)
    BY <1>1 DEF PutBlob, BlobPc
  <2>2. LocalInv'
    BY <2>1, CallLocal, PcsMembers DEF Fits, BlobPc, Object
  <2> QED
    BY <1>1, <2>2 DEF PutBlob, StoreType, store, lock
<1>2. ASSUME NEW m \in Manifest, PutManifest(p, m) PROVE TypeInv'
  <2>1. CASE m \in objects
    <3>1. Call(p, "rest", Absent, Absent)
      BY <1>2, <2>1 DEF PutManifest
    <3> QED
      BY <1>2, <3>1, CallLocal, PcsMembers, FitsRest DEF PutManifest, StoreType, store, lock
  <2>2. CASE m \notin objects
    <3>1. Call(p, "man_persist", m, Absent)
      BY <1>2, <2>2 DEF PutManifest
    <3>2. Fits("man_persist", m, Absent)
      BY DEF Fits, BlobPc
    <3>3. LocalInv'
      BY <3>1, <3>2, CallLocal, PcsMembers DEF Object
    <3> QED
      BY <1>2, <3>3 DEF PutManifest, StoreType, store, lock
  <2> QED
    BY <2>1, <2>2
<1>3. ASSUME NEW r \in Ref, NEW m \in Manifest, PutRef(p, r, m) PROVE TypeInv'
  <2>1. Fits("ref_lock", m, r)
    BY DEF Fits, BlobPc
  <2>2. LocalInv'
    <3>1. CASE refs[r] = Absent
      <4>1. Call(p, "ref_lock", m, r)
        BY <1>3, <3>1 DEF PutRef
      <4>2. "ref_lock" \in Pcs
        BY DEF Pcs, Waiting
      <4> QED
        BY <4>1, <4>2, <2>1, CallLocal DEF Object
    <3>2. CASE refs[r] # Absent
      BY <1>3, <3>2, CallLocal, PcsMembers, FitsRest DEF PutRef
    <3> QED
      BY <3>1, <3>2
  <2> QED
    BY <1>3, <2>2 DEF PutRef, StoreType, store, lock
<1>4. ASSUME NEW r \in Ref, RemoveRef(p, r) PROVE TypeInv'
  <2>1. Fits("rm_lock", Absent, r) /\ "rm_lock" \in Pcs
    BY DEF Fits, BlobPc, Pcs, Waiting
  <2>2. LocalInv'
    BY <1>4, <2>1, CallLocal DEF RemoveRef
  <2> QED
    BY <1>4, <2>2 DEF RemoveRef, StoreType, store, lock
<1>5. CASE Gc(p)
  <2>1. Fits("gc_mark", Absent, Absent) /\ "gc_mark" \in Pcs
    BY DEF Fits, BlobPc, Pcs, InGc
  <2>2. LocalInv'
    BY <1>5, <2>1, FitsRest, CallLocal, PcsMembers DEF Gc
  <2> QED
    BY <1>5, <2>2 DEF Gc, StoreType, store
<1>6. CASE PlanGc(p)
  <2>1. Fits("plan_lock", Absent, Absent) /\ "plan_lock" \in Pcs
    BY DEF Fits, BlobPc, Pcs, Waiting
  <2>2. LocalInv'
    BY <1>6, <2>1, CallLocal DEF PlanGc
  <2> QED
    BY <1>6, <2>2 DEF PlanGc, StoreType, store, lock
<1>7. CASE FsckRepair(p)
  <2> DEFINE D == [dead[p] EXCEPT !.diffs = {d \in Diff : diffs[d] \in Blob \ objects}]
  <2>1. D \in DeadType
    BY DEF LocalInv, DeadType
  <2>2. dead' = [dead EXCEPT ![p] = D]
    BY <1>7 DEF FsckRepair
  <2>3. LocalInv'
    BY <1>7, <2>1, <2>2, ListLocal DEF FsckRepair, LocalInv, Repairing
  <2> QED
    BY <1>7, <2>3 DEF FsckRepair, StoreType, store, lock
<1> QED
  BY <1>1, <1>2, <1>3, <1>4, <1>5, <1>6, <1>7 DEF Begin

LEMMA TakeLockType ==
  ASSUME TypeInv, NEW p \in Proc, TakeLock(p)
  PROVE  TypeInv'
<1>1. PICK l \in Sharing : LockShared(p, l) /\ Fits(l, arg[p], dst[p])
  BY DEF TypeInv, LocalInv, TakeLock, RefLock, RemoveLock, PlanLock, Sharing, Fits, BlobPc
<1>2. LocalInv'
  BY <1>1, GotoLocal, PcsMembers DEF TypeInv, LockShared
<1> QED
  BY <1>1, <1>2 DEF TypeInv, StoreType, LockShared, store

LEMMA PutStepType ==
  ASSUME TypeInv, NEW p \in Proc, PutStep(p)
  PROVE  TypeInv'
<1> USE DEF TypeInv
<1>0. Fits(pc[p], arg[p], dst[p])
  BY DEF LocalInv
<1>1. CASE BlobPersist(p)
  <2>1. arg[p] \in Blob
    BY <1>0, <1>1 DEF BlobPersist, Fits, BlobPc
  <2>2. LocalInv'
    BY <1>1, <2>1, GotoLocal, PcsMembers DEF BlobPersist, Fits, BlobPc
  <2> QED
    BY <1>1, <2>1, <2>2 DEF BlobPersist, StoreType, lock, Object
<1>2. CASE DiffExists(p)
  <2>1. arg[p] \in Blob
    BY <1>0, <1>2 DEF DiffExists, Fits, BlobPc
  <2>2. Fits("diff_create", arg[p], dst[p]) /\ "diff_create" \in Pcs
    BY <2>1, PcsMembers DEF Fits, BlobPc
  <2>3. LocalInv'
    BY <1>2, <2>2, GotoLocal, ReturnLocal DEF DiffExists
  <2> QED
    BY <1>2, <2>3 DEF DiffExists, StoreType, store, lock
<1>3. CASE DiffCreate(p)
  <2>1. arg[p] \in Blob
    BY <1>0, <1>3 DEF DiffCreate, Fits, BlobPc
  <2>2. Fits("diff_write", arg[p], dst[p]) /\ "diff_write" \in Pcs
    BY <2>1, PcsMembers DEF Fits, BlobPc
  <2>3. LocalInv'
    BY <1>3, <2>2, GotoLocal, ReturnLocal DEF DiffCreate
  <2> QED
    BY <1>3, <2>3 DEF DiffCreate, StoreType, lock
<1>4. CASE DiffWrite(p)
  <2>1. arg[p] \in Blob
    BY <1>0, <1>4 DEF DiffWrite, Fits, BlobPc
  <2>2. LocalInv'
    BY <1>4, ReturnLocal DEF DiffWrite
  <2> QED
    BY <1>4, <2>1, <2>2 DEF DiffWrite, StoreType, lock
<1>5. CASE ManifestPersist(p)
  <2>1. arg[p] \in Manifest
    BY <1>0, <1>5 DEF ManifestPersist, Fits
  <2>2. LocalInv'
    BY <1>5, ReturnLocal DEF ManifestPersist
  <2> QED
    BY <1>5, <2>1, <2>2 DEF ManifestPersist, StoreType, lock, Object
<1>6. CASE RefTmp(p)
  <2>1. Fits("ref_commit", arg[p], dst[p]) /\ "ref_commit" \in Pcs
    BY <1>0, <1>6 DEF RefTmp, Fits, BlobPc, Pcs, Sharing
  <2>2. LocalInv'
    BY <1>6, <2>1, GotoLocal DEF RefTmp
  <2> QED
    BY <1>6, <2>2 DEF RefTmp, StoreType, store, lock
<1>7. CASE RefCommit(p)
  <2>1. arg[p] \in Manifest
    BY <1>0, <1>7 DEF RefCommit, Fits
  <2>2. LocalInv'
    BY <1>7, ReturnLocal DEF RefCommit
  <2> QED
    BY <1>7, <2>1, <2>2 DEF RefCommit, StoreType, Unlock
<1>8. CASE RemoveUnlink(p)
  <2>1. LocalInv'
    BY <1>8, ReturnLocal DEF RemoveUnlink
  <2> QED
    BY <1>8, <2>1 DEF RemoveUnlink, StoreType, Unlock
<1> QED
  BY <1>1, <1>2, <1>3, <1>4, <1>5, <1>6, <1>7, <1>8 DEF PutStep

LEMMA GcStepType ==
  ASSUME TypeInv, NEW p \in Proc, GcStep(p)
  PROVE  TypeInv'
<1> USE DEF TypeInv
<1> DEFINE lists == dead[p]
<1>0. /\ lists \in DeadType
      /\ {"gc_scan_objects", "gc_scan_diffs", "gc_sweep_objects", "gc_sweep_diffs"} \subseteq InGc
  BY DEF LocalInv, InGc, Sweeping
<1>1. CASE GcMark(p)
  <2> DEFINE D == [objs |-> Object \ (Marked \cup LiveBlobs),
                   diffs |-> Diff \ LiveDiffs, refs |-> {}]
  <2>1. D \in DeadType
    BY DEF DeadType
  <2>2. kept' \in [Proc -> SUBSET Ref] /\ mended' \in [Proc -> SUBSET Diff]
    BY <1>1 DEF GcMark, LocalInv
  <2>3. LocalInv'
    BY <1>0, <1>1, <2>1, <2>2, ListLocal DEF GcMark
  <2> QED
    BY <1>1, <2>3 DEF GcMark, StoreType, store, lock
<1>2. CASE GcScanObjects(p)
  <2> DEFINE D == [lists EXCEPT !.objs = @ \cap objects]
  <2>1. D \in DeadType /\ dead' = [dead EXCEPT ![p] = D]
    BY <1>0, <1>2 DEF DeadType, GcScanObjects
  <2>2. LocalInv'
    BY <1>0, <1>2, <2>1, ListLocal DEF GcScanObjects, LocalInv
  <2> QED
    BY <1>2, <2>2 DEF GcScanObjects, StoreType, store, lock
<1>3. CASE GcScanDiffs(p)
  <2> DEFINE D == [lists EXCEPT !.diffs = {d \in @ : diffs[d] # Absent}]
  <2>1. D \in DeadType /\ dead' = [dead EXCEPT ![p] = D]
    BY <1>0, <1>3 DEF DeadType, GcScanDiffs
  <2>2. LocalInv'
    BY <1>0, <1>3, <2>1, ListLocal DEF GcScanDiffs, LocalInv
  <2> QED
    BY <1>3, <2>2 DEF GcScanDiffs, StoreType, store, lock
<1>4. ASSUME NEW o \in Object, GcSweepObject(p, o) PROVE TypeInv'
  <2> DEFINE D == [lists EXCEPT !.objs = @ \ {o}]
  <2>1. D \in DeadType /\ dead' = [dead EXCEPT ![p] = D]
    BY <1>0, <1>4 DEF DeadType, GcSweepObject
  <2>2. LocalInv'
    BY <1>4, <2>1 DEF GcSweepObject, LocalInv
  <2> QED
    BY <1>4, <2>2 DEF GcSweepObject, StoreType, lock
<1>5. CASE GcSweptObjects(p)
  <2>1. Fits("gc_sweep_diffs", arg[p], dst[p])
    BY DEF Fits, BlobPc
  <2>2. LocalInv'
    BY <1>0, <1>5, <2>1, GotoLocal, PcsMembers DEF GcSweptObjects
  <2> QED
    BY <1>5, <2>2 DEF GcSweptObjects, StoreType, store, lock
<1>6. ASSUME NEW d \in Diff, GcSweepDiff(p, d) PROVE TypeInv'
  <2> DEFINE D == [lists EXCEPT !.diffs = @ \ {d}]
  <2>1. D \in DeadType /\ dead' = [dead EXCEPT ![p] = D]
    BY <1>0, <1>6 DEF DeadType, GcSweepDiff
  <2>2. LocalInv'
    BY <1>6, <2>1 DEF GcSweepDiff, LocalInv
  <2> QED
    BY <1>6, <2>2 DEF GcSweepDiff, StoreType, lock
<1>7. CASE GcDone(p)
  BY <1>7, ReturnLocal, UnlockType DEF GcDone, StoreType, store
<1>8. CASE PlanDone(p)
  BY <1>8, ReturnLocal, UnlockType DEF PlanDone, StoreType, store
<1> QED
  BY <1>1, <1>2, <1>3, <1>4, <1>5, <1>6, <1>7, <1>8 DEF GcStep, Sweep

LEMMA RepairStepType ==
  ASSUME TypeInv, NEW p \in Proc, RepairStep(p)
  PROVE  TypeInv'
<1> USE DEF TypeInv
<1> DEFINE lists == dead[p]
<1>0. lists \in DeadType /\ {"repair_diffs", "repair_refs"} \subseteq Repairing
  BY DEF LocalInv, Repairing
<1>1. CASE FsckRefs(p)
  <2> DEFINE D == [lists EXCEPT !.refs = {r \in Ref : refs[r] \notin objects \cup {Absent}}
                                           \cup ((strays \cup TmpRefs) \ objects)]
  <2>1. TmpRefs \subseteq Manifest
    BY DEF TmpRefs, LocalInv, Fits
  <2>2. D \in DeadType /\ dead' = [dead EXCEPT ![p] = D]
    BY <1>0, <1>1, <2>1 DEF DeadType, FsckRefs, StoreType
  <2>3. LocalInv'
    BY <1>0, <1>1, <2>2, ListLocal DEF FsckRefs, LocalInv
  <2> QED
    BY <1>1, <2>3 DEF FsckRefs, StoreType, store, lock
<1>2. ASSUME NEW d \in Diff, RepairDiff(p, d) PROVE TypeInv'
  <2> DEFINE D == [lists EXCEPT !.diffs = @ \ {d}]
  <2>1. D \in DeadType /\ dead' = [dead EXCEPT ![p] = D]
    BY <1>0, <1>2 DEF DeadType, RepairDiff
  <2>2. LocalInv'
    BY <1>2, <2>1 DEF RepairDiff, LocalInv
  <2> QED
    BY <1>2, <2>2 DEF RepairDiff, StoreType, lock
<1>3. CASE RepairedDiffs(p)
  <2>1. Fits("repair_refs", arg[p], dst[p])
    BY DEF Fits, BlobPc
  <2>2. LocalInv'
    BY <1>0, <1>3, <2>1, GotoLocal, PcsMembers DEF RepairedDiffs
  <2> QED
    BY <1>3, <2>2 DEF RepairedDiffs, StoreType, store, lock
<1>4. ASSUME NEW r \in Ref \cup Manifest, RepairRef(p, r) PROVE TypeInv'
  <2> DEFINE D == [lists EXCEPT !.refs = @ \ {r}]
  <2>1. D \in DeadType /\ dead' = [dead EXCEPT ![p] = D]
    BY <1>0, <1>4 DEF DeadType, RepairRef
  <2>2. LocalInv'
    BY <1>4, <2>1 DEF RepairRef, LocalInv
  <2> QED
    BY <1>4, <2>2 DEF RepairRef, StoreType, lock
<1>5. CASE RepairDone(p)
  BY <1>5, ReturnLocal DEF RepairDone, StoreType, store, lock
<1> QED
  BY <1>1, <1>2, <1>3, <1>4, <1>5 DEF RepairStep

LEMMA AbortType ==
  ASSUME TypeInv, NEW p \in Proc, Fail(p) \/ Crash(p)
  PROVE  TypeInv'
<1>1. CASE Fail(p)
  BY <1>1, ReturnLocal, UnlockType DEF Fail, TypeInv, StoreType, store
<1>2. CASE Crash(p)
  <2>1. strays' \subseteq Manifest
    BY <1>2 DEF Crash, TypeInv, StoreType, LocalInv, Fits
  <2> QED
    BY <1>2, <2>1, ReturnLocal, UnlockType DEF Crash, TypeInv
<1> QED
  BY <1>1, <1>2

LEMMA NextTypeInv == TypeInv /\ [Next]_vars => TypeInv'
<1> SUFFICES ASSUME TypeInv, [Next]_vars PROVE TypeInv'
  OBVIOUS
<1>1. ASSUME NEW p \in Proc, Begin(p) PROVE TypeInv'
  BY <1>1, BeginType
<1>2. ASSUME NEW p \in Proc, TakeLock(p) PROVE TypeInv'
  BY <1>2, TakeLockType
<1>3. ASSUME NEW p \in Proc, Run(p) PROVE TypeInv'
  BY <1>3, PutStepType, GcStepType, RepairStepType DEF Run
<1>4. ASSUME NEW p \in Proc, Fail(p) \/ Crash(p) PROVE TypeInv'
  BY <1>4, AbortType
<1>5. CASE UNCHANGED vars
  BY <1>5 DEF vars, TypeInv, StoreType, LocalInv
<1> QED
  BY <1>1, <1>2, <1>3, <1>4, <1>5 DEF Next

LEMMA TypeInvInvariant == Spec => []TypeInv
  BY InitTypeInv, NextTypeInv, PTL DEF Spec

\* Type correctness: every variable stays in its type, in particular diffs/
\* only ever holds blob hashes or files being written, and refs manifest hashes.
THEOREM TypeCorrect == Spec => []TypeOK
  BY TypeInvInvariant, TypeInvTypeOK, PTL

-----------------------------------------------------------------------------
(***************************************************************************)
(* The safety properties, from the type invariant, for every number of     *)
(* processes and every set of packages.                                    *)
(***************************************************************************)

StepOf(p) == Begin(p) \/ TakeLock(p) \/ Run(p) \/ Fail(p) \/ Crash(p)

LEMMA NextStep == ASSUME Next PROVE \E p \in Proc : StepOf(p)
  BY DEF Next, StepOf

(***************************************************************************)
(* What a step of one process may do to each shared part of the store.     *)
(***************************************************************************)
LEMMA BeginFrame ==
  ASSUME NEW p \in Proc, Begin(p)
  PROVE  UNCHANGED <<store, shared>>
  BY DEF Begin, PutBlob, PutManifest, PutRef, RemoveRef, Gc, PlanGc, FsckRepair, lock

LEMMA TakeLockFrame ==
  ASSUME NEW p \in Proc, TakeLock(p)
  PROVE  UNCHANGED store
  BY DEF TakeLock, RefLock, RemoveLock, PlanLock, LockShared

\* The only steps that touch an index file naming a blob unlink it.
LEMMA DiffsStep ==
  ASSUME TypeInv, NEW p \in Proc, StepOf(p), NEW d \in Diff, diffs[d] \in Blob
  PROVE  diffs'[d] = diffs[d] \/ GcSweepDiff(p, d) \/ RepairDiff(p, d)
<1> USE DEF TypeInv, StoreType, store
<1>1. CASE Begin(p)
  BY <1>1, BeginFrame
<1>2. CASE TakeLock(p)
  BY <1>2, TakeLockFrame
<1>3. CASE PutStep(p)
  <2>1. CASE DiffCreate(p)
    BY <2>1, StoreAssumption DEF DiffCreate
  <2>2. CASE DiffWrite(p)
    BY <2>2, StoreAssumption DEF DiffWrite
  <2>3. CASE ~DiffCreate(p) /\ ~DiffWrite(p)
    BY <1>3, <2>3 DEF PutStep, BlobPersist, DiffExists, ManifestPersist, RefTmp,
       RefCommit, RemoveUnlink
  <2> QED
    BY <2>1, <2>2, <2>3
<1>4. CASE GcStep(p)
  <2>1. ASSUME NEW e \in Diff, GcSweepDiff(p, e) PROVE diffs'[d] = diffs[d] \/ GcSweepDiff(p, d)
    BY <2>1 DEF GcSweepDiff
  <2>2. CASE ~\E e \in Diff : GcSweepDiff(p, e)
    BY <1>4, <2>2 DEF GcStep, Sweep, GcMark, GcScanObjects, GcScanDiffs, GcSweepObject,
       GcSweptObjects, GcDone, PlanDone
  <2> QED
    BY <2>1, <2>2
<1>5. CASE RepairStep(p)
  <2>1. ASSUME NEW e \in Diff, RepairDiff(p, e) PROVE diffs'[d] = diffs[d] \/ RepairDiff(p, d)
    BY <2>1 DEF RepairDiff
  <2>2. CASE ~\E e \in Diff : RepairDiff(p, e)
    BY <1>5, <2>2 DEF RepairStep, FsckRefs, RepairedDiffs, RepairRef, RepairDone
  <2> QED
    BY <2>1, <2>2
<1>6. CASE Fail(p) \/ Crash(p)
  BY <1>6 DEF Fail, Crash
<1> QED
  BY <1>1, <1>2, <1>3, <1>4, <1>5, <1>6 DEF StepOf, Run

\* The only step that gives a ref a manifest is the rename of a put_ref.
LEMMA RefsStep ==
  ASSUME TypeInv, NEW p \in Proc, StepOf(p), NEW r \in Ref
  PROVE  refs'[r] \in {refs[r], Absent} \/ pc[p] = "ref_commit"
<1> USE DEF TypeInv, StoreType, store
<1>1. CASE Begin(p)
  BY <1>1, BeginFrame
<1>2. CASE TakeLock(p)
  BY <1>2, TakeLockFrame
<1>3. CASE PutStep(p)
  BY <1>3 DEF PutStep, BlobPersist, DiffExists, DiffCreate, DiffWrite, ManifestPersist, RefTmp,
     RefCommit, RemoveUnlink
<1>4. CASE GcStep(p)
  BY <1>4 DEF GcStep, Sweep, GcMark, GcScanObjects, GcScanDiffs, GcSweepObject,
     GcSweptObjects, GcSweepDiff, GcDone, PlanDone
<1>5. CASE RepairStep(p)
  BY <1>5 DEF RepairStep, FsckRefs, RepairDiff, RepairedDiffs, RepairRef, RepairDone
<1>6. CASE Fail(p) \/ Crash(p)
  BY <1>6 DEF Fail, Crash
<1> QED
  BY <1>1, <1>2, <1>3, <1>4, <1>5, <1>6 DEF StepOf, Run

(***************************************************************************)
(* First writer wins.                                                      *)
(***************************************************************************)
\* Whatever the processes do, an index file that names a blob is never changed
\* to name another one, nor emptied: it can only be unlinked.
THEOREM FirstWriter == Spec => FirstWriterWins
<1>1. ASSUME TypeInv, [Next]_vars
      PROVE  [\A d \in Diff : diffs[d] \in Blob => diffs'[d] \in {diffs[d], Absent}]_vars
  <2> SUFFICES ASSUME Next, NEW d \in Diff, diffs[d] \in Blob
               PROVE  diffs'[d] \in {diffs[d], Absent}
    BY <1>1
  <2>1. PICK p \in Proc : StepOf(p)
    BY NextStep
  <2>2. diffs'[d] = diffs[d] \/ GcSweepDiff(p, d) \/ RepairDiff(p, d)
    BY <1>1, <2>1, DiffsStep
  <2> QED
    BY <1>1, <2>2 DEF GcSweepDiff, RepairDiff, TypeInv, StoreType
<1> QED
  BY <1>1, TypeInvInvariant, PTL DEF Spec, FirstWriterWins

(***************************************************************************)
(* The lock.  LockStep sums up what a step of p does to the lock and to    *)
(* the place of p: nothing, taking it shared, taking it exclusively, or    *)
(* letting go of it as the call returns.                                   *)
(***************************************************************************)
Keeps(p, l) ==
  /\ UNCHANGED lock
  /\ l \in Sharing <=> pc[p] \in Sharing
  /\ l \in InGc <=> pc[p] \in InGc

Shares(p, l) == excl = Absent /\ excl' = excl /\ shared' = shared \cup {p} /\ l \in Sharing

Excludes(p, l) == shared = {} /\ excl = Absent /\ shared' = shared /\ excl' = p /\ l \in InGc

Releases(p, l) == Unlock(p) /\ l = "rest"

Moves(p, l) ==
  /\ pc' = [pc EXCEPT ![p] = l]
  /\ Keeps(p, l) \/ Shares(p, l) \/ Excludes(p, l) \/ Releases(p, l)

LEMMA LockStep ==
  ASSUME TypeInv, NEW p \in Proc, StepOf(p)
  PROVE  \E l \in Pcs : Moves(p, l)
<1> USE PcsMembers DEF Moves
<1>0. pc \in [Proc -> Pcs]
  BY DEF TypeInv, LocalInv
<1>1. CASE Begin(p)
  <2>1. CASE Gc(p) /\ shared = {} /\ excl = Absent
    BY <2>1 DEF Gc, Call, Excludes, InGc
  <2>2. CASE ~(Gc(p) /\ shared = {} /\ excl = Absent)
    <3>1. PICK l \in {"rest", "man_persist"} \cup BlobPc \cup Waiting \cup Repairing :
            pc[p] = "rest" /\ pc' = [pc EXCEPT ![p] = l] /\ UNCHANGED lock
      BY <1>1, <2>2 DEF Begin, PutBlob, PutManifest, PutRef, RemoveRef, Gc, PlanGc, FsckRepair,
         Call, BlobPc, Waiting, Repairing, lock
    <3>2. Keeps(p, l)
      BY <3>1 DEF Keeps, BlobPc, Waiting, Repairing, Sharing, InGc, Sweeping
    <3> QED
      BY <3>1, <3>2
  <2> QED
    BY <2>1, <2>2
<1>2. CASE TakeLock(p)
  BY <1>2 DEF TakeLock, RefLock, RemoveLock, PlanLock, LockShared, Goto, Shares, Sharing
<1>3. CASE PutStep(p)
  <2>1. CASE RefCommit(p) \/ RemoveUnlink(p)
    BY <2>1 DEF RefCommit, RemoveUnlink, Return, Releases
  <2>2. CASE RefTmp(p)
    BY <2>2 DEF RefTmp, Goto, Keeps, Sharing, InGc, Sweeping
  <2>3. CASE BlobPersist(p) \/ DiffExists(p) \/ DiffCreate(p) \/ DiffWrite(p) \/ ManifestPersist(p)
    <3>1. PICK l \in {"rest"} \cup BlobPc :
            /\ pc[p] \in BlobPc \cup {"man_persist"}
            /\ pc' = [pc EXCEPT ![p] = l] /\ UNCHANGED lock
      BY <2>3 DEF BlobPersist, DiffExists, DiffCreate, DiffWrite, ManifestPersist, Goto, Return, BlobPc
    <3>2. Keeps(p, l)
      BY <3>1 DEF Keeps, BlobPc, Sharing, InGc, Sweeping
    <3> QED
      BY <3>1, <3>2
  <2> QED
    BY <1>3, <2>1, <2>2, <2>3 DEF PutStep
<1>4. CASE GcStep(p)
  <2>1. CASE GcDone(p) \/ PlanDone(p)
    BY <2>1 DEF GcDone, PlanDone, Return, Releases
  <2>2. CASE GcMark(p) \/ GcScanObjects(p) \/ GcScanDiffs(p) \/ GcSweptObjects(p)
    <3>1. PICK l \in InGc : pc[p] \in InGc /\ pc' = [pc EXCEPT ![p] = l] /\ UNCHANGED lock
      BY <2>2 DEF GcMark, GcScanObjects, GcScanDiffs, GcSweptObjects, Goto, InGc, Sweeping
    <3>2. Keeps(p, l)
      BY <3>1 DEF Keeps, Sharing, InGc, Sweeping
    <3> QED
      BY <3>1, <3>2
  <2>3. CASE Sweep(p)
    BY <1>0, <2>3 DEF Sweep, GcSweepObject, GcSweepDiff, Keeps
  <2> QED
    BY <1>4, <2>1, <2>2, <2>3 DEF GcStep
<1>5. CASE RepairStep(p)
  <2>1. PICK l \in {"rest"} \cup Repairing :
          pc[p] \in Repairing /\ pc' = [pc EXCEPT ![p] = l] /\ UNCHANGED lock
    <3>1. CASE FsckRefs(p) \/ RepairedDiffs(p) \/ RepairDone(p)
      BY <3>1 DEF FsckRefs, RepairedDiffs, RepairDone, Goto, Return, Repairing
    <3>2. CASE ~(FsckRefs(p) \/ RepairedDiffs(p) \/ RepairDone(p))
      BY <1>0, <1>5, <3>2 DEF RepairStep, RepairDiff, RepairRef, Repairing
    <3> QED
      BY <3>1, <3>2
  <2>2. Keeps(p, l)
    BY <2>1 DEF Keeps, Repairing, Sharing, InGc, Sweeping
  <2> QED
    BY <2>1, <2>2
<1>6. CASE Fail(p) \/ Crash(p)
  BY <1>6 DEF Fail, Crash, Return, Releases
<1> QED
  BY <1>1, <1>2, <1>3, <1>4, <1>5, <1>6 DEF StepOf, Run

LEMMA NextLock ==
  ASSUME TypeInv, LockMatchesCalls, [Next]_vars
  PROVE  LockMatchesCalls'
<1>1. CASE UNCHANGED vars
  BY <1>1 DEF vars, LockMatchesCalls
<1>2. CASE Next
  <2>1. PICK p \in Proc : StepOf(p)
    BY <1>2, NextStep
  <2>2. PICK l \in Pcs : Moves(p, l)
    BY <2>1, LockStep
  <2>3. /\ pc'[p] = l
        /\ \A q \in Proc \ {p} : pc'[q] = pc[q]
    BY <2>2 DEF Moves, TypeInv, LocalInv
  <2>4. Absent \notin Proc /\ Sharing \cap InGc = {} /\ "rest" \notin Sharing \cup InGc
    BY StoreAssumption DEF Sharing, InGc, Sweeping
  <2>5. CASE Keeps(p, l)
    BY <2>3, <2>5 DEF Keeps, LockMatchesCalls, lock
  <2>6. CASE Shares(p, l)
    BY <2>3, <2>4, <2>6 DEF Shares, LockMatchesCalls
  <2>7. CASE Excludes(p, l)
    BY <2>3, <2>4, <2>7 DEF Excludes, LockMatchesCalls
  <2>8. CASE Releases(p, l)
    BY <2>3, <2>4, <2>8 DEF Releases, Unlock, LockMatchesCalls
  <2> QED
    BY <2>2, <2>5, <2>6, <2>7, <2>8 DEF Moves
<1> QED
  BY <1>1, <1>2

LEMMA InitLock == Init => LockMatchesCalls
  BY StoreAssumption DEF Init, LockMatchesCalls, Sharing, InGc, Sweeping

\* gc.lock is held exactly by the calls that should hold it, shared or
\* exclusively but never both, after any number of failures and deaths.
THEOREM LockCorrect == Spec => []LockMatchesCalls
  BY TypeInvInvariant, InitLock, NextLock, PTL DEF Spec

\* While a gc sweeps, nobody else commits or unlinks under the lock.
LEMMA SweepExcludes ==
  ASSUME LockMatchesCalls, NEW p \in Proc, pc[p] \in InGc, NEW q \in Proc
  PROVE  pc[q] \notin Sharing /\ (pc[q] \in InGc => q = p)
  BY StoreAssumption DEF LockMatchesCalls

LEMMA FrozenStep ==
  ASSUME TypeInv, LockMatchesCalls, NEW q \in Proc, StepOf(q),
         NEW p \in Proc, pc[p] \in Sweeping, NEW r \in Ref
  PROVE  refs'[r] \in {refs[r], Absent}
<1>1. pc[q] # "ref_commit"
  BY SweepExcludes DEF InGc, Sharing
<1> QED
  BY <1>1, RefsStep

\* While any gc is between its mark and its last unlink, no ref appears and
\* none moves to another manifest.
THEOREM RootsFrozen == Spec => RootsFrozenDuringGc
<1>1. ASSUME TypeInv, LockMatchesCalls, [Next]_vars
      PROVE  [\A p \in Proc : pc[p] \in Sweeping =>
                \A r \in Ref : refs'[r] \in {refs[r], Absent}]_vars
  BY <1>1, NextStep, FrozenStep
<1> QED
  BY <1>1, TypeInvInvariant, LockCorrect, PTL DEF Spec, RootsFrozenDuringGc

-----------------------------------------------------------------------------
(***************************************************************************)
(* The garbage collector spares every file that a ref needs, if the ref    *)
(* was whole when the collector marked.                                    *)
(***************************************************************************)

(***************************************************************************)
(* The mark covers the dependency closure of every whole ref.              *)
(***************************************************************************)
LEMMA ClosureRoot == \A m \in Manifest : m \in Closure(m)
  BY DEF Closure

LEMMA MarkCoversClosure ==
  ASSUME TypeInv, NEW r \in Ref, Whole(r)
  PROVE  Closure(refs[r]) \subseteq Marked \cap objects
<1>1. refs[r] \in Roots /\ refs[r] \in Manifest
  BY DEF Roots, Whole, TypeInv, StoreType
<1>2. Closure(refs[r]) \subseteq objects
  BY DEF Whole, WholeManifest
<1> SUFFICES ASSUME NEW k \in Closure(refs[r]) PROVE k \in Marked
  BY <1>2
<1> SUFFICES ASSUME NEW S \in SUBSET Manifest, Roots \subseteq S,
                    \A j \in S \cap objects : DepsOf[j] \subseteq S
             PROVE  k \in S
  <2>1. k \in Manifest
    BY DEF Closure
  <2> QED
    BY <2>1 DEF Marked
<1> DEFINE T == S \cap Closure(refs[r])
<1>4. T \in SUBSET Manifest /\ refs[r] \in T
  BY <1>1, ClosureRoot
<1>5. ASSUME NEW j \in T PROVE DepsOf[j] \subseteq T
  <2>1. DepsOf[j] \subseteq S
    BY <1>2
  <2>2. DepsOf[j] \subseteq Closure(refs[r])
    BY <1>1, StoreAssumption DEF Closure
  <2> QED
    BY <2>1, <2>2
<1> QED
  BY <1>4, <1>5 DEF Closure

(***************************************************************************)
(* The inductive invariant.  While p sweeps, nothing that a kept ref needs *)
(* is on its lists, and the index entries of the layers it needs name      *)
(* blobs that are not on them either; but for the refs that need an index  *)
(* entry fsck_repair has unlinked since the mark.                          *)
(***************************************************************************)
Spared(p, r) ==
  refs[r] # Absent =>
    \A k \in Closure(refs[r]) :
      /\ k \notin dead[p].objs
      /\ \A d \in LayersOf[k] :
           d \notin dead[p].diffs /\ diffs[d] \in Blob \ dead[p].objs

SweepInv ==
  \A p \in Proc : pc[p] \in Sweeping =>
    \A r \in kept[p] : (\A d \in mended[p] : ~Needs(r, d)) => Spared(p, r)

LEMMA InitSweep == Init => SweepInv
  BY DEF Init, SweepInv, Sweeping

LEMMA MarkSpares ==
  ASSUME TypeInv, NEW p \in Proc, GcMark(p)
  PROVE  \A r \in kept'[p] : Spared(p, r)'
<1>1. /\ dead'[p] = [objs |-> Object \ (Marked \cup LiveBlobs), diffs |-> Diff \ LiveDiffs, refs |-> {}]
      /\ kept'[p] = {r \in Ref : Whole(r)}
      /\ UNCHANGED store
  BY DEF GcMark, TypeInv, LocalInv
<1> SUFFICES ASSUME NEW r \in kept'[p] PROVE Spared(p, r)'
  OBVIOUS
<1>2. r \in Ref /\ Whole(r)
  BY <1>1
<1>3. Closure(refs[r]) \subseteq Marked \cap objects
  BY <1>2, MarkCoversClosure
<1>4. ASSUME NEW k \in Closure(refs[r]), NEW d \in LayersOf[k]
      PROVE  d \in LiveDiffs /\ diffs[d] \in LiveBlobs /\ diffs[d] \in Blob
  BY <1>2, <1>3 DEF LiveDiffs, LiveBlobs, Whole, WholeManifest
<1>5. UNCHANGED <<refs, diffs>>
  BY <1>1 DEF store
<1>6. Closure(refs'[r]) = Closure(refs[r])
  BY <1>5
<1> QED
  BY <1>1, <1>3, <1>4, <1>5, <1>6 DEF Spared

\* A step taken while p sweeps shrinks p's lists and its kept refs, and takes
\* down an index file that fsck_repair unlinks.
LEMMA SweepStep ==
  ASSUME TypeInv, LockMatchesCalls, NEW q \in Proc, StepOf(q),
         NEW p \in Proc, pc'[p] \in Sweeping, ~GcMark(p)
  PROVE  /\ pc[p] \in Sweeping
         /\ kept'[p] \subseteq kept[p]
         /\ dead'[p].objs \subseteq dead[p].objs
         /\ dead'[p].diffs \subseteq dead[p].diffs
         /\ mended[p] \subseteq mended'[p]
         /\ \A d \in Diff : RepairDiff(q, d) => d \in mended'[p]
<1> USE DEF TypeInv, LocalInv
<1>1. CASE Begin(q) \/ TakeLock(q)
  <2>1. UNCHANGED <<kept, mended>>
    BY <1>1 DEF Begin, PutBlob, PutManifest, PutRef, RemoveRef, Gc, PlanGc, FsckRepair, Call,
       TakeLock, RefLock, RemoveLock, PlanLock, LockShared, Goto
  <2>2. ~\E d \in Diff : RepairDiff(q, d)
    BY <1>1 DEF RepairDiff, Begin, PutBlob, PutManifest, PutRef, RemoveRef, Gc, PlanGc,
       FsckRepair, Call, TakeLock, RefLock, RemoveLock, PlanLock
  <2>3. pc[p] = pc'[p] /\ dead'[p] = dead[p]
    BY <1>1 DEF Begin, PutBlob, PutManifest, PutRef, RemoveRef, Gc, PlanGc, FsckRepair, Call,
       TakeLock, RefLock, RemoveLock, PlanLock, LockShared, Goto, Sweeping
  <2> QED
    BY <2>1, <2>2, <2>3
<1>2. CASE PutStep(q)
  <2>1. pc[q] \in BlobPc \cup {"man_persist", "ref_tmp", "ref_commit", "rm_unlink"}
    BY <1>2 DEF PutStep, BlobPersist, DiffExists, DiffCreate, DiffWrite, ManifestPersist, RefTmp,
       RefCommit, RemoveUnlink, BlobPc
  <2>2. \/ \E l \in BlobPc \cup {"ref_commit"} : Goto(q, l)
        \/ Return(q)
    BY <1>2 DEF PutStep, BlobPersist, DiffExists, DiffCreate, DiffWrite, ManifestPersist, RefTmp,
       RefCommit, RemoveUnlink, BlobPc
  <2>3. p # q /\ pc'[p] = pc[p] /\ kept'[p] = kept[p] /\ mended'[p] = mended[p] /\ dead'[p] = dead[p]
    BY <2>2 DEF Goto, Return, BlobPc, Sweeping
  <2>4. ~\E d \in Diff : RepairDiff(q, d)
    BY <2>1 DEF RepairDiff, BlobPc
  <2> QED
    BY <2>3, <2>4
<1>3. CASE GcStep(q)
  <2>1. ~\E d \in Diff : RepairDiff(q, d)
    BY <1>3 DEF RepairDiff, GcStep, GcMark, GcScanObjects, GcScanDiffs, Sweep, GcSweepObject,
       GcSweptObjects, GcSweepDiff, GcDone, PlanDone
  <2>2. CASE p = q
    <3>1. CASE GcScanObjects(p)
      BY <2>1, <2>2, <3>1 DEF GcScanObjects, Sweeping, DeadType
    <3>2. CASE GcScanDiffs(p)
      BY <2>1, <2>2, <3>2 DEF GcScanDiffs, Sweeping, DeadType
    <3>3. CASE Sweep(p)
      <4>1. CASE \E o \in Object : GcSweepObject(p, o)
        BY <2>1, <2>2, <4>1 DEF GcSweepObject, Sweeping, DeadType
      <4>2. CASE \E d \in Diff : GcSweepDiff(p, d)
        BY <2>1, <2>2, <4>2 DEF GcSweepDiff, Sweeping, DeadType
      <4> QED
        BY <3>3, <4>1, <4>2 DEF Sweep
    <3>4. CASE GcSweptObjects(p)
      BY <2>1, <2>2, <3>4 DEF GcSweptObjects, Goto, Sweeping
    <3>5. CASE GcDone(p) \/ PlanDone(p)
      BY <3>5 DEF GcDone, PlanDone, Return, Sweeping
    <3> QED
      BY <1>3, <2>2, <3>1, <3>2, <3>3, <3>4, <3>5 DEF GcStep
  <2>3. CASE p # q
    <3>1. pc'[p] = pc[p] /\ kept'[p] = kept[p] /\ mended'[p] = mended[p] /\ dead'[p] = dead[p]
      BY <1>3, <2>3 DEF GcStep, GcMark, GcScanObjects, GcScanDiffs, Sweep, GcSweepObject,
         GcSweptObjects, GcSweepDiff, GcDone, PlanDone, Goto, Return
    <3> QED
      BY <2>1, <3>1
  <2> QED
    BY <2>2, <2>3
<1>4. CASE RepairStep(q)
  <2>1. pc[q] \in Repairing /\ (pc'[q] = pc[q] \/ pc'[q] \in Repairing \cup {"rest"})
    BY <1>4 DEF RepairStep, FsckRefs, RepairDiff, RepairedDiffs, RepairRef, RepairDone, Goto,
       Return, Repairing
  <2>2. p # q
    BY <2>1 DEF Repairing, Sweeping
  <2>3. CASE \E d \in Diff : RepairDiff(q, d)
    <3>1. UNCHANGED <<kept, pc>> /\ dead'[p] = dead[p]
      BY <2>2, <2>3 DEF RepairDiff
    <3>2. mended[p] \subseteq mended'[p]
      BY <2>3, <3>1 DEF RepairDiff
    <3>3. \A d \in Diff : RepairDiff(q, d) => d \in mended'[p]
      BY <3>1 DEF RepairDiff
    <3> QED
      BY <3>1, <3>2, <3>3
  <2>4. CASE ~\E d \in Diff : RepairDiff(q, d)
    <3>1. pc'[p] = pc[p] /\ kept'[p] = kept[p] /\ mended'[p] = mended[p] /\ dead'[p] = dead[p]
      BY <1>4, <2>2, <2>4 DEF RepairStep, FsckRefs, RepairedDiffs, RepairRef, RepairDone, Goto,
         Return
    <3> QED
      BY <2>4, <3>1
  <2> QED
    BY <2>3, <2>4
<1>5. CASE Fail(q) \/ Crash(q)
  <2>1. Return(q)
    BY <1>5 DEF Fail, Crash
  <2>2. p # q /\ pc'[p] = pc[p] /\ kept'[p] = kept[p] /\ mended'[p] = mended[p] /\ dead'[p] = dead[p]
    BY <2>1 DEF Return, Sweeping
  <2>3. ~\E d \in Diff : RepairDiff(q, d)
    BY <2>1 DEF Return, RepairDiff
  <2> QED
    BY <2>2, <2>3
<1> QED
  BY <1>1, <1>2, <1>3, <1>4, <1>5 DEF StepOf, Run

LEMMA NextSweep ==
  ASSUME TypeInv, LockMatchesCalls, SweepInv, [Next]_vars
  PROVE  SweepInv'
<1>1. CASE UNCHANGED vars
  BY <1>1 DEF vars, SweepInv, Spared, Needs, Closure
<1>2. CASE Next
  <2>1. PICK q \in Proc : StepOf(q)
    BY <1>2, NextStep
  <2> SUFFICES ASSUME NEW p \in Proc, pc'[p] \in Sweeping, NEW r \in kept'[p],
                      \A d \in mended'[p] : ~Needs(r, d)'
               PROVE  Spared(p, r)'
    BY DEF SweepInv
  <2>2. CASE GcMark(p)
    BY <2>2, MarkSpares
  <2>3. CASE ~GcMark(p)
    <3>1. /\ pc[p] \in Sweeping
          /\ r \in kept[p]
          /\ dead'[p].objs \subseteq dead[p].objs
          /\ dead'[p].diffs \subseteq dead[p].diffs
          /\ mended[p] \subseteq mended'[p]
          /\ \A d \in Diff : RepairDiff(q, d) => d \in mended'[p]
      BY <2>1, <2>3, SweepStep
    <3>a. r \in Ref
      BY <3>1 DEF TypeInv, LocalInv
    <3>3. refs'[r] \in {refs[r], Absent}
      BY <2>1, <3>1, <3>a, FrozenStep
    <3> SUFFICES ASSUME refs'[r] = refs[r], refs[r] # Absent PROVE Spared(p, r)'
      BY <3>3 DEF Spared
    <3>b. \A d \in mended'[p] : ~Needs(r, d)
      BY DEF Needs, Closure
    <3>2. Spared(p, r)
      BY <3>1, <3>b DEF SweepInv
    <3> SUFFICES ASSUME refs'[r] # Absent, NEW k \in Closure(refs[r])
                 PROVE  /\ k \notin dead'[p].objs
                        /\ \A d \in LayersOf[k] :
                             d \notin dead'[p].diffs /\ diffs'[d] \in Blob \ dead'[p].objs
      BY <3>3 DEF Spared
    <3>4. refs[r] # Absent
      BY <3>3
    <3>5. k \notin dead'[p].objs
      BY <3>1, <3>2, <3>4 DEF Spared
    <3>6. ASSUME NEW d \in LayersOf[k]
          PROVE  d \notin dead'[p].diffs /\ diffs'[d] \in Blob \ dead'[p].objs
      <4>1. d \in Diff
        BY StoreAssumption DEF Closure
      <4>2. d \notin dead[p].diffs /\ diffs[d] \in Blob \ dead[p].objs
        BY <3>2, <3>4 DEF Spared
      <4>3. ~RepairDiff(q, d)
        BY <3>1, <3>4, <3>b, <4>1 DEF Needs
      <4>4. ~GcSweepDiff(q, d)
        BY <3>1, <4>2, SweepExcludes DEF GcSweepDiff, InGc, Sweeping
      <4>5. diffs'[d] = diffs[d]
        BY <2>1, <4>1, <4>2, <4>3, <4>4, DiffsStep
      <4> QED
        BY <3>1, <4>2, <4>5
    <3> QED
      BY <3>5, <3>6
  <2> QED
    BY <2>2, <2>3
<1> QED
  BY <1>1, <1>2

LEMMA SweepInvariant == Spec => []SweepInv
  BY TypeInvInvariant, LockCorrect, InitSweep, NextSweep, PTL DEF Spec

\* No unlink of a sweep breaks a ref that was whole when the sweep marked, for
\* any dependency graph, any shared layers and encodings, and any other calls,
\* failures and deaths in between, unless the ref needs an index entry that
\* fsck_repair unlinked since the mark.
THEOREM GcSpares == Spec => GcSparesWhole
<1>1. ASSUME TypeInv, SweepInv, [Next]_vars
      PROVE  [\A p \in Proc, r \in Ref :
                /\ Sweep(p) /\ r \in kept[p] /\ Whole(r)
                /\ \A d \in mended[p] : ~Needs(r, d)
                => Whole(r)']_vars
  <2> SUFFICES ASSUME NEW p \in Proc, NEW r \in Ref, Sweep(p), r \in kept[p], Whole(r),
                      \A d \in mended[p] : ~Needs(r, d)
               PROVE  Whole(r)'
    OBVIOUS
  <2>1. pc[p] \in Sweeping
    BY DEF Sweep, GcSweepObject, GcSweepDiff, Sweeping
  <2>2. Spared(p, r) /\ refs[r] # Absent
    BY <1>1, <2>1 DEF SweepInv, Whole
  <2>3. UNCHANGED refs
    BY DEF Sweep, GcSweepObject, GcSweepDiff
  <2> SUFFICES ASSUME NEW k \in Closure(refs[r])
               PROVE  k \in objects' /\ \A d \in LayersOf[k] : diffs'[d] \in objects' \cap Blob
    BY <2>2, <2>3 DEF Whole, WholeManifest
  <2>4. /\ k \in objects /\ k \notin dead[p].objs
        /\ \A d \in LayersOf[k] : /\ diffs[d] \in objects \cap Blob
                                  /\ d \notin dead[p].diffs /\ diffs[d] \notin dead[p].objs
    BY <2>2 DEF Whole, WholeManifest, Spared
  <2>5. LayersOf[k] \subseteq Diff
    BY StoreAssumption DEF Closure
  <2>6. ASSUME NEW o \in Object, GcSweepObject(p, o)
        PROVE  k \in objects' /\ \A d \in LayersOf[k] : diffs'[d] \in objects' \cap Blob
    BY <2>4, <2>6 DEF GcSweepObject
  <2>7. ASSUME NEW e \in Diff, GcSweepDiff(p, e)
        PROVE  k \in objects' /\ \A d \in LayersOf[k] : diffs'[d] \in objects' \cap Blob
    BY <1>1, <2>4, <2>5, <2>7 DEF GcSweepDiff, TypeInv, StoreType
  <2> QED
    BY <2>6, <2>7 DEF Sweep
<1> QED
  BY <1>1, TypeInvInvariant, SweepInvariant, PTL DEF Spec, GcSparesWhole
=============================================================================
