------------------------------- MODULE Store -------------------------------
(***************************************************************************)
(* The on-disk package store of crates/elu-store (fs_store.rs, atomic.rs), *)
(* as several elu processes share it.  A step is one access to the shared  *)
(* directory tree; what a process does with memory or with a private file  *)
(* under tmp/ between two accesses is part of the step that follows.       *)
(*                                                                         *)
(* Contents are abstract: a manifest or a layer blob IS its hash, so an    *)
(* object that was renamed into objects/ holds exactly what its name says. *)
(* DiffOf gives the hash of a blob's uncompressed bytes; several blobs may *)
(* share it (the same tar, plain, gzipped or zstd).  LayersOf and DepsOf   *)
(* are what the ManifestReader given to gc reads from a manifest.          *)
(***************************************************************************)
CONSTANTS
  Proc,       \* processes sharing the store
  Manifest,   \* manifest hashes
  Blob,       \* layer blob hashes
  Diff,       \* hashes of uncompressed layers
  Ref,        \* <namespace, name, version> triples
  DiffOf,     \* Blob -> Diff
  LayersOf,   \* Manifest -> SUBSET Diff
  DepsOf,     \* Manifest -> SUBSET Manifest: dependencies pinned to a hash
  Absent      \* no such file, or an argument the running call does not have

ASSUME StoreAssumption ==
  /\ DiffOf \in [Blob -> Diff]
  /\ LayersOf \in [Manifest -> SUBSET Diff]
  /\ DepsOf \in [Manifest -> SUBSET Manifest]
  /\ Absent \notin Manifest \cup Blob \cup Ref \cup Proc
  /\ Blob \cap (Manifest \cup Proc) = {}
  /\ Ref \cap Manifest = {}

Object == Manifest \cup Blob

VARIABLES
  objects,  \* the complete files of objects/
  diffs,    \* diffs/: Absent, a blob, or the process whose create_new made
            \* the file and has not written it (an empty file)
  refs,     \* refs/<ns>/<name>/<version>: a manifest hash or Absent
  strays,   \* hashes in temporary files that crashed writers left in refs/
  shared,   \* processes holding locks/gc.lock shared
  excl,     \* the process holding locks/gc.lock exclusively, or Absent
  pc,       \* where each process is: a resting point, or inside a call
  arg,      \* blob or manifest of the running call
  dst,      \* ref of the running call
  dead,     \* what a running gc or fsck_repair has found fit for removal
  kept,     \* history: the refs that were whole when a running gc marked
  mended    \* history: the index entries unlinked by fsck_repair since then

store == <<objects, diffs, refs, strays>>
lock  == <<shared, excl>>
local == <<pc, arg, dst, dead, kept, mended>>
vars  == <<objects, diffs, refs, strays, shared, excl, pc, arg, dst, dead, kept, mended>>

(***************************************************************************)
(* Where a process can be.  Between two calls it is at "rest".  What a     *)
(* call returned is not kept: the step that returns tells it.              *)
(***************************************************************************)
Sweeping == {"gc_scan_objects", "gc_scan_diffs", "gc_sweep_objects", "gc_sweep_diffs"}
InGc == Sweeping \cup {"gc_mark"}
Repairing == {"fsck_refs", "repair_diffs", "repair_refs"}
Sharing == {"ref_tmp", "ref_commit", "rm_unlink", "plan"}
Waiting == {"ref_lock", "rm_lock", "plan_lock"}
BlobPc == {"blob_persist", "diff_exists", "diff_create", "diff_write"}
Pcs == {"rest"} \cup InGc \cup Repairing \cup Sharing \cup Waiting \cup BlobPc
         \cup {"man_persist"}

Nothing == [objs |-> {}, diffs |-> {}, refs |-> {}]

TypeOK ==
  /\ objects \subseteq Object
  /\ diffs \in [Diff -> {Absent} \cup Blob \cup Proc]
  /\ refs \in [Ref -> {Absent} \cup Manifest]
  /\ strays \subseteq Manifest
  /\ shared \subseteq Proc
  /\ excl \in {Absent} \cup Proc
  /\ pc \in [Proc -> Pcs]
  /\ arg \in [Proc -> {Absent} \cup Object]
  /\ dst \in [Proc -> {Absent} \cup Ref]
  /\ dead \in [Proc -> [objs : SUBSET Object, diffs : SUBSET Diff,
                        refs : SUBSET (Ref \cup Manifest)]]
  /\ kept \in [Proc -> SUBSET Ref]
  /\ mended \in [Proc -> SUBSET Diff]

Init ==
  /\ objects = {}
  /\ diffs = [d \in Diff |-> Absent]
  /\ refs = [r \in Ref |-> Absent]
  /\ strays = {}
  /\ shared = {}
  /\ excl = Absent
  /\ pc = [p \in Proc |-> "rest"]
  /\ arg = [p \in Proc |-> Absent]
  /\ dst = [p \in Proc |-> Absent]
  /\ dead = [p \in Proc |-> Nothing]
  /\ kept = [p \in Proc |-> {}]
  /\ mended = [p \in Proc |-> {}]

(***************************************************************************)
(* Control.  Call enters a call, Goto moves inside it, Return leaves it.   *)
(***************************************************************************)
Call(p, l, a, r) ==
  /\ pc[p] = "rest"
  /\ pc' = [pc EXCEPT ![p] = l]
  /\ arg' = [arg EXCEPT ![p] = a]
  /\ dst' = [dst EXCEPT ![p] = r]
  /\ UNCHANGED <<dead, kept, mended>>

Goto(p, l) ==
  /\ pc' = [pc EXCEPT ![p] = l]
  /\ UNCHANGED <<arg, dst, dead, kept, mended>>

Return(p) ==
  /\ pc' = [pc EXCEPT ![p] = "rest"]
  /\ arg' = [arg EXCEPT ![p] = Absent]
  /\ dst' = [dst EXCEPT ![p] = Absent]
  /\ dead' = [dead EXCEPT ![p] = Nothing]
  /\ kept' = [kept EXCEPT ![p] = {}]
  /\ mended' = [mended EXCEPT ![p] = {}]

(***************************************************************************)
(* flock on locks/gc.lock.  put_ref, remove_ref and plan_gc block for a    *)
(* shared lock; gc tries for the exclusive one.  Closing the file, on any  *)
(* return and on process death, releases it.                               *)
(***************************************************************************)
LockSharedNoWait(p, l) ==   \* mutant: an exclusive holder is not waited for
  /\ shared' = shared \cup {p}
  /\ Goto(p, l)
  /\ UNCHANGED <<store, excl>>

LockShared(p, l) ==
  /\ excl = Absent
  /\ shared' = shared \cup {p}
  /\ Goto(p, l)
  /\ UNCHANGED <<store, excl>>

Unlock(p) ==
  /\ shared' = shared \ {p}
  /\ excl' = IF excl = p THEN Absent ELSE excl

(***************************************************************************)
(* put_blob.  The blob is streamed to tmp/, hashed and synced before its   *)
(* first look at objects/.  The index file is created under its final name *)
(* and written by a second call; the write goes to the file this process   *)
(* created, so it is lost if that file was unlinked in between.            *)
(***************************************************************************)
PutBlob(p, b) ==
  /\ Call(p, IF b \in objects THEN "diff_exists" ELSE "blob_persist", b, Absent)
  /\ UNCHANGED <<store, lock>>

BlobPersist(p) ==
  /\ pc[p] = "blob_persist"
  /\ objects' = objects \cup {arg[p]}
  /\ Goto(p, "diff_exists")
  /\ UNCHANGED <<diffs, refs, strays, lock>>

DiffExists(p) ==
  /\ pc[p] = "diff_exists"
  /\ IF diffs[DiffOf[arg[p]]] = Absent THEN Goto(p, "diff_create") ELSE Return(p)
  /\ UNCHANGED <<store, lock>>

DiffCreateTruncating(p) ==   \* mutant: create instead of create_new
  /\ pc[p] = "diff_create"
  /\ diffs' = [diffs EXCEPT ![DiffOf[arg[p]]] = p]
  /\ Goto(p, "diff_write")
  /\ UNCHANGED <<objects, refs, strays, lock>>

DiffCreate(p) ==
  /\ pc[p] = "diff_create"
  /\ IF diffs[DiffOf[arg[p]]] = Absent
       THEN /\ diffs' = [diffs EXCEPT ![DiffOf[arg[p]]] = p]
            /\ Goto(p, "diff_write")
       ELSE Return(p) /\ UNCHANGED diffs
  /\ UNCHANGED <<objects, refs, strays, lock>>

DiffWriteOwnHash(p) ==   \* mutant: the entry's own hash written into it
  /\ pc[p] = "diff_write"
  /\ diffs' = [diffs EXCEPT ![DiffOf[arg[p]]] = IF @ = p THEN DiffOf[arg[p]] ELSE @]
  /\ Return(p)
  /\ UNCHANGED <<objects, refs, strays, lock>>

DiffWrite(p) ==
  /\ pc[p] = "diff_write"
  /\ diffs' = [diffs EXCEPT ![DiffOf[arg[p]]] = IF @ = p THEN arg[p] ELSE @]
  /\ Return(p)
  /\ UNCHANGED <<objects, refs, strays, lock>>

(***************************************************************************)
(* put_manifest.  The manifests/ index it also touches is never read.      *)
(***************************************************************************)
PutManifest(p, m) ==
  /\ Call(p, IF m \in objects THEN "rest" ELSE "man_persist",
             IF m \in objects THEN Absent ELSE m, Absent)
  /\ UNCHANGED <<store, lock>>

ManifestPersist(p) ==
  /\ pc[p] = "man_persist"
  /\ objects' = objects \cup {arg[p]}
  /\ Return(p)
  /\ UNCHANGED <<diffs, refs, strays, lock>>

(***************************************************************************)
(* put_ref.  The conflict check is a plain read, made before the shared    *)
(* lock is taken: a ref that holds something is left alone, with Ok when   *)
(* it holds m and RefConflict when not.  Under the lock the hash is        *)
(* written to a temporary file beside the ref, which is then renamed over  *)
(* whatever the ref holds by now.                                          *)
(***************************************************************************)
PutRef(p, r, m) ==
  /\ IF refs[r] = Absent
       THEN Call(p, "ref_lock", m, r)
       ELSE Call(p, "rest", Absent, Absent)
  /\ UNCHANGED <<store, lock>>

RefLock(p) == pc[p] = "ref_lock" /\ LockShared(p, "ref_tmp")

RefTmp(p) ==
  /\ pc[p] = "ref_tmp"
  /\ Goto(p, "ref_commit")
  /\ UNCHANGED <<store, lock>>

RefCommit(p) ==
  /\ pc[p] = "ref_commit"
  /\ refs' = [refs EXCEPT ![dst[p]] = arg[p]]
  /\ Unlock(p)
  /\ Return(p)
  /\ UNCHANGED <<objects, diffs, strays>>

RemoveRef(p, r) ==
  /\ Call(p, "rm_lock", Absent, r)
  /\ UNCHANGED <<store, lock>>

RemoveLock(p) == pc[p] = "rm_lock" /\ LockShared(p, "rm_unlink")

RemoveUnlink(p) ==
  /\ pc[p] = "rm_unlink"
  /\ refs' = [refs EXCEPT ![dst[p]] = Absent]
  /\ Unlock(p)
  /\ Return(p)
  /\ UNCHANGED <<objects, diffs, strays>>

(***************************************************************************)
(* What list_refs yields: every parseable file of a refs/<ns>/<name>       *)
(* directory, so also the temporary file of a put_ref between its two      *)
(* steps and the ones crashes left.                                        *)
(***************************************************************************)
TmpRefs == {arg[p] : p \in {q \in Proc : pc[q] = "ref_commit"}}
Roots == ({refs[r] : r \in Ref} \ {Absent}) \cup strays \cup TmpRefs

(***************************************************************************)
(* The mark: the manifests reached from the roots through the pinned       *)
(* dependencies of manifests that are present; their layers; and the       *)
(* blobs the index gives for those layers.  An index file that does not    *)
(* parse contributes no blob.                                              *)
(***************************************************************************)
MarkedRootsOnly == Roots   \* mutant: dependencies not followed

Marked ==
  {m \in Manifest :
     \A S \in SUBSET Manifest :
       (Roots \subseteq S /\ \A k \in S \cap objects : DepsOf[k] \subseteq S) => m \in S}

LiveDiffs == UNION {LayersOf[m] : m \in Marked \cap objects}
LiveBlobs == {diffs[d] : d \in LiveDiffs} \cap Blob

(***************************************************************************)
(* A ref is whole when everything a stack of it needs is in the store:     *)
(* each manifest of its dependency closure, and for each of their layers   *)
(* an index entry naming a blob that is present.                           *)
(***************************************************************************)
Closure(m) ==
  {k \in Manifest :
     \A S \in SUBSET Manifest : (m \in S /\ \A j \in S : DepsOf[j] \subseteq S) => k \in S}
WholeManifest(m) ==
  \A k \in Closure(m) :
    k \in objects /\ \A d \in LayersOf[k] : diffs[d] \in objects \cap Blob
Whole(r) == refs[r] # Absent /\ WholeManifest(refs[r])
Needs(r, d) == refs[r] # Absent /\ \E k \in Closure(refs[r]) : d \in LayersOf[k]

(***************************************************************************)
(* gc.  try_lock_exclusive fails at once (GcBusy) when anyone holds the    *)
(* lock.  After the mark, dead holds what a scan would find unmarked; each *)
(* scan narrows it to the files it sees; the sweep unlinks them one by     *)
(* one, ignoring errors: objects first, then index files.                  *)
(***************************************************************************)
GcOverReaders(p) ==   \* mutant: shared holders do not keep gc out
  /\ IF excl = Absent
       THEN Call(p, "gc_mark", Absent, Absent) /\ excl' = p
       ELSE Call(p, "rest", Absent, Absent) /\ UNCHANGED excl
  /\ UNCHANGED <<store, shared>>

Gc(p) ==
  /\ IF shared = {} /\ excl = Absent
       THEN Call(p, "gc_mark", Absent, Absent) /\ excl' = p
       ELSE Call(p, "rest", Absent, Absent) /\ UNCHANGED excl
  /\ UNCHANGED <<store, shared>>

GcMark(p) ==
  /\ pc[p] = "gc_mark"
  /\ pc' = [pc EXCEPT ![p] = "gc_scan_objects"]
  /\ dead' = [dead EXCEPT ![p] = [objs |-> Object \ (Marked \cup LiveBlobs),
                                  diffs |-> Diff \ LiveDiffs, refs |-> {}]]
  /\ kept' = [kept EXCEPT ![p] = {r \in Ref : Whole(r)}]
  /\ UNCHANGED <<store, lock, arg, dst, mended>>

GcScanObjects(p) ==
  /\ pc[p] = "gc_scan_objects"
  /\ pc' = [pc EXCEPT ![p] = "gc_scan_diffs"]
  /\ dead' = [dead EXCEPT ![p].objs = @ \cap objects]
  /\ UNCHANGED <<store, lock, arg, dst, kept, mended>>

GcScanDiffs(p) ==
  /\ pc[p] = "gc_scan_diffs"
  /\ pc' = [pc EXCEPT ![p] = "gc_sweep_objects"]
  /\ dead' = [dead EXCEPT ![p].diffs = {d \in @ : diffs[d] # Absent}]
  /\ UNCHANGED <<store, lock, arg, dst, kept, mended>>

GcSweepObject(p, o) ==
  /\ pc[p] = "gc_sweep_objects"
  /\ o \in dead[p].objs
  /\ objects' = objects \ {o}
  /\ dead' = [dead EXCEPT ![p].objs = @ \ {o}]
  /\ UNCHANGED <<diffs, refs, strays, lock, pc, arg, dst, kept, mended>>

GcSweptObjects(p) ==
  /\ pc[p] = "gc_sweep_objects"
  /\ dead[p].objs = {}
  /\ Goto(p, "gc_sweep_diffs")
  /\ UNCHANGED <<store, lock>>

GcSweepDiff(p, d) ==
  /\ pc[p] = "gc_sweep_diffs"
  /\ d \in dead[p].diffs
  /\ diffs' = [diffs EXCEPT ![d] = Absent]
  /\ dead' = [dead EXCEPT ![p].diffs = @ \ {d}]
  /\ UNCHANGED <<objects, refs, strays, lock, pc, arg, dst, kept, mended>>

Sweep(p) ==
  \/ \E o \in Object : GcSweepObject(p, o)
  \/ \E d \in Diff : GcSweepDiff(p, d)

GcDone(p) ==
  /\ pc[p] = "gc_sweep_diffs"
  /\ dead[p].diffs = {}
  /\ Unlock(p)
  /\ Return(p)
  /\ UNCHANGED store

(***************************************************************************)
(* plan_gc marks and scans under the shared lock and changes nothing: what *)
(* the others notice of it is the lock.                                    *)
(***************************************************************************)
PlanGc(p) ==
  /\ Call(p, "plan_lock", Absent, Absent)
  /\ UNCHANGED <<store, lock>>

PlanLock(p) == pc[p] = "plan_lock" /\ LockShared(p, "plan")

PlanDone(p) ==
  /\ pc[p] = "plan"
  /\ Unlock(p)
  /\ Return(p)
  /\ UNCHANGED store

(***************************************************************************)
(* fsck_repair.  fsck, without any lock, lists the index entries whose     *)
(* blob is missing (an entry that does not parse is passed over), then the *)
(* refs whose manifest is missing; the files listed are then unlinked one  *)
(* by one, again without a lock and without a second look.                 *)
(***************************************************************************)
FsckRepair(p) ==
  /\ pc[p] = "rest"
  /\ pc' = [pc EXCEPT ![p] = "fsck_refs"]
  /\ dead' = [dead EXCEPT ![p].diffs = {d \in Diff : diffs[d] \in Blob \ objects}]
  /\ UNCHANGED <<store, lock, arg, dst, kept, mended>>

FsckRefs(p) ==
  /\ pc[p] = "fsck_refs"
  /\ pc' = [pc EXCEPT ![p] = "repair_diffs"]
  /\ dead' = [dead EXCEPT ![p].refs =
                {r \in Ref : refs[r] \notin objects \cup {Absent}}
                  \cup ((strays \cup TmpRefs) \ objects)]
  /\ UNCHANGED <<store, lock, arg, dst, kept, mended>>

RepairDiff(p, d) ==
  /\ pc[p] = "repair_diffs"
  /\ d \in dead[p].diffs
  /\ diffs' = [diffs EXCEPT ![d] = Absent]
  /\ dead' = [dead EXCEPT ![p].diffs = @ \ {d}]
  /\ mended' = [q \in Proc |-> IF pc[q] \in Sweeping THEN mended[q] \cup {d} ELSE {}]
  /\ UNCHANGED <<objects, refs, strays, lock, pc, arg, dst, kept>>

RepairedDiffs(p) ==
  /\ pc[p] = "repair_diffs"
  /\ dead[p].diffs = {}
  /\ Goto(p, "repair_refs")
  /\ UNCHANGED <<store, lock>>

RepairRef(p, r) ==
  /\ pc[p] = "repair_refs"
  /\ r \in dead[p].refs
  /\ IF r \in Ref
       THEN refs' = [refs EXCEPT ![r] = Absent] /\ UNCHANGED strays
       ELSE strays' = strays \ {r} /\ UNCHANGED refs
  /\ dead' = [dead EXCEPT ![p].refs = @ \ {r}]
  /\ UNCHANGED <<objects, diffs, lock, pc, arg, dst, kept, mended>>

RepairDone(p) ==
  /\ pc[p] = "repair_refs"
  /\ dead[p].refs = {}
  /\ Return(p)
  /\ UNCHANGED <<store, lock>>

(***************************************************************************)
(* A call that touches the file system may fail (disk full, permissions):  *)
(* it returns an error, its NamedTempFile is unlinked and its lock file    *)
(* closed.  The sweeps ignore errors.  A process may also die: the kernel  *)
(* drops the lock, and a temporary file beside a ref stays behind.         *)
(***************************************************************************)
Failing == BlobPc \cup Sharing \cup Waiting
             \cup {"man_persist", "gc_mark", "gc_scan_objects", "gc_scan_diffs", "fsck_refs"}

Fail(p) ==
  /\ pc[p] \in Failing
  /\ Unlock(p)
  /\ Return(p)
  /\ UNCHANGED store

Crash(p) ==
  /\ pc[p] # "rest"
  /\ strays' = IF pc[p] = "ref_commit" THEN strays \cup {arg[p]} ELSE strays
  /\ Unlock(p)
  /\ Return(p)
  /\ UNCHANGED <<objects, diffs, refs>>

(***************************************************************************)
(* The calls a client may make, and the steps inside a call.               *)
(***************************************************************************)
Begin(p) ==
  \/ \E b \in Blob : PutBlob(p, b)
  \/ \E m \in Manifest : PutManifest(p, m)
  \/ \E r \in Ref, m \in Manifest : PutRef(p, r, m)
  \/ \E r \in Ref : RemoveRef(p, r)
  \/ Gc(p)
  \/ PlanGc(p)
  \/ FsckRepair(p)

TakeLock(p) == RefLock(p) \/ RemoveLock(p) \/ PlanLock(p)

PutStep(p) ==
  \/ BlobPersist(p) \/ DiffExists(p) \/ DiffCreate(p) \/ DiffWrite(p)
  \/ ManifestPersist(p)
  \/ RefTmp(p) \/ RefCommit(p) \/ RemoveUnlink(p)

GcStep(p) ==
  \/ GcMark(p) \/ GcScanObjects(p) \/ GcScanDiffs(p)
  \/ Sweep(p) \/ GcSweptObjects(p) \/ GcDone(p)
  \/ PlanDone(p)

RepairStep(p) ==
  \/ FsckRefs(p)
  \/ \E d \in Diff : RepairDiff(p, d)
  \/ RepairedDiffs(p)
  \/ \E r \in Ref \cup Manifest : RepairRef(p, r)
  \/ RepairDone(p)

Run(p) == PutStep(p) \/ GcStep(p) \/ RepairStep(p)

Next == \E p \in Proc : Begin(p) \/ TakeLock(p) \/ Run(p) \/ Fail(p) \/ Crash(p)

(***************************************************************************)
(* A call that has started runs on (the scheduler does not abandon a       *)
(* thread), and a process blocked in flock gets the lock if the lock is    *)
(* free again and again.  Nothing makes a client call, fail or die.        *)
(***************************************************************************)
Fairness == \A p \in Proc : WF_vars(Run(p)) /\ SF_vars(TakeLock(p))

Spec == Init /\ [][Next]_vars /\ Fairness

-----------------------------------------------------------------------------
(***************************************************************************)
(* Properties.                                                             *)
(***************************************************************************)

\* gc.lock: a sweep is never under way while another process commits or unlinks
\* a ref or computes a plan, nobody holds the lock outside the calls that take
\* it (so a failed or killed call has let go of it), and a gc always holds it.
LockMatchesCalls ==
  /\ \A p \in Proc : p \in shared <=> pc[p] \in Sharing
  /\ \A p \in Proc : excl = p <=> pc[p] \in InGc
  /\ shared = {} \/ excl = Absent

\* While an index file of diffs/ names a blob, no put_blob of another encoding
\* of the same layer changes it (first writer wins), also when both passed the
\* existence check before either created the file: it can only disappear.
FirstWriterWins ==
  [][\A d \in Diff : diffs[d] \in Blob => diffs'[d] \in {diffs[d], Absent}]_vars

\* While a gc is between its mark and its last unlink no ref appears or moves:
\* put_ref and remove_ref wait for the lock, and only fsck_repair, which takes
\* no lock, unlinks one.  Without this a sweep could strand a new ref.
RootsFrozenDuringGc ==
  [][\A p \in Proc : pc[p] \in Sweeping =>
       \A r \in Ref : refs'[r] \in {refs[r], Absent}]_vars

\* A sweep never takes a file that a ref needs, if that ref was whole when the
\* sweep marked: whatever put_blob, put_manifest, other failing or dying calls
\* do meanwhile, each unlink of the sweep leaves the ref whole.  The exception:
\* fsck_repair, which takes no lock and acts on an old list, unlinks an index
\* entry the ref needs after the mark.  A put_blob of another encoding may then
\* write the entry anew, and the sweep takes that blob, which no mark has seen.
GcSparesWhole ==
  [][\A p \in Proc, r \in Ref :
       /\ Sweep(p) /\ r \in kept[p] /\ Whole(r)
       /\ \A d \in mended[p] : ~Needs(r, d)
       => Whole(r)']_vars

\* A ref is append-only: put_ref never moves a ref that holds another hash, it
\* reports RefConflict (only remove_ref and fsck_repair unlink one).
RefNeverRebound ==
  [][\A r \in Ref : refs[r] # Absent => refs'[r] \in {refs[r], Absent}]_vars

\* fsck_repair unlinks only what is broken when it is unlinked: an index entry
\* without its blob, a ref without its manifest.
RepairRemovesOnlyBroken ==
  [][\A p \in Proc :
       /\ \A d \in Diff : RepairDiff(p, d) => diffs[d] \notin objects \cap Blob
       /\ \A r \in Ref : RepairRef(p, r) => refs[r] \notin objects]_vars
=============================================================================
