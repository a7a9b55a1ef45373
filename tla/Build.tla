------------------------------- MODULE Build -------------------------------
(***************************************************************************)
(* `elu build`, `elu build --watch` and the importers as clients of the    *)
(* shared store: each builder puts its layers, then the manifest, then the *)
(* ref (elu-author build.rs, elu-import manifest_build.rs), while other    *)
(* processes keep the store (gc, plan_gc).  A builder is a sequence of     *)
(* store calls; the steps of every call are those of module Store.         *)
(***************************************************************************)
EXTENDS Store

CONSTANTS
  Builder,   \* processes that build; the rest of Proc keeps the store
  Watcher,   \* the builders run with --watch, which sets force_ref
  Tree,      \* Builder -> SUBSET Manifest: what its source tree can become
  RefOf,     \* Manifest -> Ref: [package] namespace, name and version
  Faulty     \* the processes whose calls may fail and that may die

ASSUME BuildAssumption ==
  /\ Builder \subseteq Proc
  /\ Watcher \subseteq Builder
  /\ Tree \in [Builder -> SUBSET Manifest]
  /\ RefOf \in [Manifest -> Ref]
  /\ Faulty \subseteq Proc

VARIABLES
  stage,   \* what each builder does next; "built" once its last build
           \* succeeded, "idle" before the first and after a failed one
  goal,    \* the manifest a builder is building or built
  todo     \* the layers it has not put yet

build == <<stage, goal, todo>>
bvars == <<vars, build>>

Ended == {"idle", "built"}
Stages == Ended \cup {"layers", "ref", "unref", "reref"}

BuildTypeOK ==
  /\ TypeOK
  /\ stage \in [Builder -> Stages]
  /\ goal \in [Builder -> {Absent} \cup Manifest]
  /\ todo \in [Builder -> SUBSET Diff]

BuildInit ==
  /\ Init
  /\ stage = [p \in Builder |-> "idle"]
  /\ goal = [p \in Builder |-> Absent]
  /\ todo = [p \in Builder |-> {}]

Stage(p, s) == stage' = [stage EXCEPT ![p] = s] /\ UNCHANGED <<goal, todo>>

GiveUp(p) ==
  /\ stage' = [stage EXCEPT ![p] = "idle"]
  /\ goal' = [goal EXCEPT ![p] = Absent]
  /\ todo' = [todo EXCEPT ![p] = {}]

(***************************************************************************)
(* A build reads elu.toml and packs the layers: what it will produce is    *)
(* settled by the source tree.                                             *)
(***************************************************************************)
StartBuild(p, m) ==
  /\ stage[p] \in Ended
  /\ m \in Tree[p]
  /\ stage' = [stage EXCEPT ![p] = "layers"]
  /\ goal' = [goal EXCEPT ![p] = m]
  /\ todo' = [todo EXCEPT ![p] = LayersOf[m]]
  /\ UNCHANGED vars

BuildLayer(p, b) ==
  /\ stage[p] = "layers"
  /\ DiffOf[b] \in todo[p]
  /\ PutBlob(p, b)
  /\ UNCHANGED build

BuildManifestEarly(p) ==   \* mutant: does not wait for the layers
  /\ stage[p] = "layers"
  /\ PutManifest(p, goal[p])
  /\ Stage(p, "ref")

BuildManifest(p) ==
  /\ stage[p] = "layers"
  /\ todo[p] = {}
  /\ PutManifest(p, goal[p])
  /\ Stage(p, "ref")

\* An error in the sources, found by a walk, a check or a validation: the build
\* ends with a report, and the layers put so far stay in the store.
BuildReject(p) ==
  /\ stage[p] = "layers"
  /\ pc[p] = "rest"
  /\ GiveUp(p)
  /\ UNCHANGED vars

(***************************************************************************)
(* put_ref: Ok at once when the ref holds this manifest already.  On a     *)
(* RefConflict a watch build removes the ref (whatever that returns) and   *)
(* puts it again; any other build fails.                                   *)
(***************************************************************************)
BuildRef(p) ==
  /\ stage[p] = "ref"
  /\ PutRef(p, RefOf[goal[p]], goal[p])
  /\ IF refs[RefOf[goal[p]]] = goal[p] THEN Stage(p, "built")
     ELSE IF refs[RefOf[goal[p]]] = Absent THEN UNCHANGED build
     ELSE IF p \in Watcher THEN Stage(p, "unref") ELSE GiveUp(p)

ForceUnrefOnly(p) ==   \* mutant: the ref is not put again
  /\ stage[p] = "unref"
  /\ RemoveRef(p, RefOf[goal[p]])
  /\ Stage(p, "built")

ForceUnref(p) ==
  /\ stage[p] = "unref"
  /\ RemoveRef(p, RefOf[goal[p]])
  /\ Stage(p, "reref")

ForceRefRetrying(p) ==   \* mutant: a second conflict is retried too
  /\ stage[p] = "reref"
  /\ PutRef(p, RefOf[goal[p]], goal[p])
  /\ IF refs[RefOf[goal[p]]] = goal[p] THEN Stage(p, "built")
     ELSE IF refs[RefOf[goal[p]]] = Absent THEN UNCHANGED build
     ELSE Stage(p, "unref")

ForceRef(p) ==
  /\ stage[p] = "reref"
  /\ PutRef(p, RefOf[goal[p]], goal[p])
  /\ IF refs[RefOf[goal[p]]] = goal[p] THEN Stage(p, "built")
     ELSE IF refs[RefOf[goal[p]]] = Absent THEN UNCHANGED build
     ELSE GiveUp(p)

(***************************************************************************)
(* A step inside a store call; when it returns Ok the build moves on.      *)
(***************************************************************************)
Advance(p) ==
  /\ Run(p) \/ TakeLock(p)
  /\ IF p \in Builder /\ pc[p] = "ref_commit"
       THEN Stage(p, "built")
     ELSE IF p \in Builder /\ stage[p] = "layers" /\ pc'[p] = "rest"
       THEN todo' = [todo EXCEPT ![p] = @ \ {DiffOf[arg[p]]}] /\ UNCHANGED <<stage, goal>>
     ELSE UNCHANGED build

(***************************************************************************)
(* An error of any call but the forced remove_ref ends the build; a dead   *)
(* builder is a new process when it builds again.                          *)
(***************************************************************************)
BuildFail(p) ==
  /\ p \in Faulty
  /\ Fail(p)
  /\ IF p \in Builder /\ pc[p] \notin {"rm_lock", "rm_unlink"}
       THEN GiveUp(p)
       ELSE UNCHANGED build

BuildCrash(p) ==
  /\ p \in Faulty
  /\ Crash(p)
  /\ IF p \in Builder THEN GiveUp(p) ELSE UNCHANGED build

Proceed(p) ==
  \/ \E b \in Blob : BuildLayer(p, b)
  \/ BuildManifest(p) \/ BuildRef(p) \/ ForceUnref(p) \/ ForceRef(p)

Keep(p) == Gc(p) /\ UNCHANGED build

BuildStep(p) ==
  \/ p \in Builder /\ ((\E m \in Manifest : StartBuild(p, m)) \/ Proceed(p) \/ BuildReject(p))
  \/ p \notin Builder /\ Keep(p)
  \/ Advance(p) \/ BuildFail(p) \/ BuildCrash(p)

BuildNext == \E p \in Proc : BuildStep(p)

(***************************************************************************)
(* A build that has started goes on, and so does every call; a waiting     *)
(* flock is served if the lock keeps coming free.                          *)
(***************************************************************************)
BuildFairness ==
  /\ \A p \in Builder : WF_bvars(Proceed(p))
  /\ \A p \in Proc : SF_bvars(Advance(p))

BuildSpec == BuildInit /\ [][BuildNext]_bvars /\ BuildFairness

-----------------------------------------------------------------------------
Building(p) == stage[p] \notin Ended
NoGc == \A p \in Proc : pc[p] \notin InGc
NoOrphanEntry ==
  \A d \in Diff : diffs[d] \in Proc =>
    pc[diffs[d]] = "diff_write" /\ DiffOf[arg[diffs[d]]] = d

\* Every build ends, built or failed: its put_ref and remove_ref get the lock
\* however often others collect and die while collecting, and two watch builds
\* of one version cannot chase each other for ever inside one build.
EveryBuildEnds == \A p \in Builder : Building(p) ~> ~Building(p)

\* Watch builds of one version take the ref away and put it back, without a
\* lock over the two.  However they interleave, once no build is under way a
\* version that some build reported built still has its ref (provided no builder
\* fails or dies between the two calls: none is Faulty in the run).
BuiltVersionHasRef ==
  (\A p \in Builder : ~Building(p)) =>
    \A p \in Builder : stage[p] = "built" => refs[RefOf[goal[p]]] # Absent

\* If no gc ever runs, then from some time on every version that has a ref is
\* whole, for good, however many more builds and installs follow: a builder may
\* publish, or an install skip a layer, while another process is still writing
\* the index entry of a layer they share, but that writer finishes.  (A writer
\* that fails or dies in between leaves an empty entry, which everyone takes for
\* the layer: those behaviours are excluded.)
PublishedBecomesWhole ==
  [](NoGc /\ NoOrphanEntry) => <>[](\A r \in Ref : refs[r] # Absent => Whole(r))

\* When put_ref commits the ref of a build, everything the ref needs is in the
\* store: its manifest, and an index entry and a blob for each layer.
PublishedWhole ==
  [][\A p \in Builder, r \in Ref : RefCommit(p) /\ dst[p] = r => Whole(r)']_bvars
=============================================================================
