------------------------------ MODULE Install ------------------------------
(***************************************************************************)
(* `elu install` (elu-cli cmd/install.rs) as one more client of the shared *)
(* store, beside builders and gc: it lists the store, resolves against the *)
(* store first and the registry behind it, fetches what the plan says is   *)
(* missing, puts a ref for every resolved manifest and stacks.  Versions   *)
(* and ranges are the matter of module Resolver: here a request names one  *)
(* version and dependencies are pinned to hashes, written under a name     *)
(* which need not be the one that the manifest pinned gives itself.        *)
(***************************************************************************)
EXTENDS Build, Sequences

CONSTANTS
  Installer,   \* the processes that install
  Wanted,      \* Installer -> Ref: the version each asks for
  AsksFor,     \* Manifest \X Manifest -> Ref: the name under which the first
               \* asks for the second, a dependency, at its own version
  Serves,      \* the chain of registries: a sequence of SUBSET Manifest
  BlobOf,      \* Diff -> Blob: the encoding in the registry's layer records
  Casts        \* SUBSET SUBSET Proc: who takes part in a behaviour

ASSUME InstallAssumption ==
  /\ Installer \subseteq Proc \ Builder
  /\ Wanted \in [Installer -> Ref]
  /\ AsksFor \in [Manifest \X Manifest -> Ref]
  /\ Serves \in Seq(SUBSET Manifest)
  /\ BlobOf \in [Diff -> Blob]
  /\ \A d \in Diff : DiffOf[BlobOf[d]] = d
  /\ Casts \subseteq SUBSET Proc
  /\ Manifest \cap Diff = {}

Remote == UNION {Serves[i] : i \in DOMAIN Serves}
VARIABLES
  here,      \* the processes of this behaviour
  step,      \* where each install is
  root,      \* the manifest it resolved its request to
  plan,      \* fetching: what it still has to look at; then: the refs to put
  recorded   \* the manifests whose record it got from the registry

install == <<step, root, plan, recorded>>
ivars == <<bvars, here, install>>

InstallTypeOK ==
  /\ BuildTypeOK
  /\ here \in Casts
  /\ step \in [Installer -> {"idle", "fetch", "refs"}]
  /\ root \in [Installer -> {Absent} \cup Manifest]
  /\ plan \in [Installer -> SUBSET (Manifest \cup Diff)]
  /\ recorded \in [Installer -> SUBSET Remote]

InstallInit ==
  /\ BuildInit
  /\ here \in Casts
  /\ step = [p \in Installer |-> "idle"]
  /\ root = [p \in Installer |-> Absent]
  /\ plan = [p \in Installer |-> {}]
  /\ recorded = [p \in Installer |-> {}]

Installing(p) == step[p] # "idle"
Layers(m) == UNION {LayersOf[k] : k \in Closure(m)}

Forget(p) ==   \* the install ends, with its report
  /\ step' = [step EXCEPT ![p] = "idle"]
  /\ root' = [root EXCEPT ![p] = Absent]
  /\ plan' = [plan EXCEPT ![p] = {}]
  /\ recorded' = [recorded EXCEPT ![p] = {}]

Crossed(p, i) == plan' = [plan EXCEPT ![p] = @ \ {i}] /\ UNCHANGED <<step, root, recorded>>

(***************************************************************************)
(* The registries are asked in order, and each may be down: a request can  *)
(* be answered by any of them that has what it asks for, and two installs  *)
(* of one version may get two different builds of it.                      *)
(***************************************************************************)
FetchPackage(r) == {m \in Remote : RefOf[m] = r}

(***************************************************************************)
(* build_offline_source reads the manifest of every ref, and fails if one  *)
(* is missing.  HybridSource asks it first: a version or a hash it has is  *)
(* never asked of the registries, whose records RegistrySource keeps.      *)
(* build_fetch_plan lists what the store does not have at this moment.     *)
(***************************************************************************)
Offers(r) ==
  LET held == {m \in Roots : RefOf[m] = r} IN
  IF held # {} THEN held ELSE FetchPackage(r)

ByHash == Roots \cup Remote

FetchPlan(m) == (Closure(m) \ objects) \cup {d \in Layers(m) : diffs[d] = Absent}

CacheRecords(p, m) == recorded' = [recorded EXCEPT ![p] = Closure(m) \ Roots]

Resolve(p, m) ==
  /\ ~Installing(p)
  /\ Roots \subseteq objects
  /\ m \in Offers(Wanted[p])
  /\ Closure(m) \subseteq ByHash
  /\ step' = [step EXCEPT ![p] = "fetch"]
  /\ root' = [root EXCEPT ![p] = m]
  /\ plan' = [plan EXCEPT ![p] = FetchPlan(m)]
  /\ CacheRecords(p, m)
  /\ UNCHANGED bvars

HasRecord(p, d) == \E m \in recorded[p] : d \in LayersOf[m]

(***************************************************************************)
(* execute_fetch_plan: manifests, then layers.  What has come into the     *)
(* store meanwhile is skipped; an index entry counts as the layer whatever *)
(* it holds (has_diff).  A layer of no record the registry gave is an      *)
(* error.                                                                  *)
(***************************************************************************)
FetchManifest(p, m) ==
  /\ step[p] = "fetch"
  /\ m \in plan[p] \cap Manifest
  /\ PutManifest(p, m)
  /\ Crossed(p, m)
  /\ UNCHANGED build

FetchLayer(p, d) ==
  /\ step[p] = "fetch"
  /\ plan[p] \cap Manifest = {}
  /\ d \in plan[p]
  /\ IF diffs[d] # Absent
       THEN pc[p] = "rest" /\ Crossed(p, d) /\ UNCHANGED vars
     ELSE IF HasRecord(p, d)
       THEN PutBlob(p, BlobOf[d]) /\ Crossed(p, d)
     ELSE pc[p] = "rest" /\ Forget(p) /\ UNCHANGED vars
  /\ UNCHANGED build

Fetched(p) ==
  /\ step[p] = "fetch"
  /\ plan[p] = {}
  /\ pc[p] = "rest"
  /\ step' = [step EXCEPT ![p] = "refs"]
  /\ plan' = [plan EXCEPT ![p] = Closure(root[p])]
  /\ UNCHANGED <<bvars, root, recorded>>

(***************************************************************************)
(* A ref for every resolved manifest, under the name it was asked for, in  *)
(* the order of the resolution, which has dependencies first.  A conflict  *)
(* ends the install.  A dependency of several packages is resolved under   *)
(* the name that one of them gives it.                                     *)
(***************************************************************************)
AskedAs(p, m) ==
  IF m = root[p] THEN {Wanted[p]}
  ELSE {AsksFor[<<j, m>>] : j \in {k \in Closure(root[p]) : m \in DepsOf[k]}}

PutRefsUnordered(p, m) ==   \* mutant: in the order they were met
  /\ step[p] = "refs"
  /\ m \in plan[p]
  /\ \E r \in AskedAs(p, m) :
       /\ PutRef(p, r, m)
       /\ IF refs[r] \in {Absent, m} THEN Crossed(p, m) ELSE Forget(p)
  /\ UNCHANGED build

PutRefsRetrying(p, m) ==   \* mutant: a conflict is tried again
  /\ step[p] = "refs"
  /\ m \in plan[p]
  /\ DepsOf[m] \cap plan[p] = {}
  /\ \E r \in AskedAs(p, m) :
       /\ PutRef(p, r, m)
       /\ IF refs[r] \in {Absent, m} THEN Crossed(p, m) ELSE UNCHANGED install
  /\ UNCHANGED build

PutRefs(p, m) ==
  /\ step[p] = "refs"
  /\ m \in plan[p]
  /\ DepsOf[m] \cap plan[p] = {}
  /\ \E r \in AskedAs(p, m) :
       /\ PutRef(p, r, m)
       /\ IF refs[r] \in {Absent, m} THEN Crossed(p, m) ELSE Forget(p)
  /\ UNCHANGED build

\* The stack opens every layer through the index and fails if one is missing;
\* what it does is the matter of module Stack.
StackLayers(p) ==
  /\ step[p] = "refs"
  /\ plan[p] = {}
  /\ pc[p] = "rest"
  /\ Forget(p)
  /\ UNCHANGED bvars

(***************************************************************************)
(* The registry does not answer, or what it answers does not have the hash *)
(* it was asked for; or the process dies between two calls.  Within a call *)
(* it may die or get an error like any client of the store.                *)
(***************************************************************************)
FetchFails(p) ==
  /\ Installing(p)
  /\ pc[p] = "rest"
  /\ Forget(p)
  /\ UNCHANGED bvars

InstallFails(p) ==
  /\ p \in Faulty
  /\ Fail(p) \/ Crash(p)
  /\ Forget(p)
  /\ UNCHANGED build

InstallOn(p) ==
  \/ \E m \in Manifest : FetchManifest(p, m) \/ PutRefs(p, m)
  \/ \E d \in Diff : FetchLayer(p, d)
  \/ Fetched(p) \/ StackLayers(p)

InCall(p) == (Run(p) \/ TakeLock(p)) /\ UNCHANGED <<build, install>>

InstallStep(p) ==
  (\E m \in Manifest : Resolve(p, m)) \/ InstallOn(p) \/ InCall(p) \/ FetchFails(p) \/ InstallFails(p)

InstallNext ==
  /\ \/ \E p \in here \cap Installer : InstallStep(p)
     \/ \E p \in here \ Installer : BuildStep(p) /\ UNCHANGED install
  /\ UNCHANGED here

(***************************************************************************)
(* As for a build: a command that has started goes on (a request to the    *)
(* registry is answered or breaks), and so does every call.  Between two   *)
(* calls a process stays able to go on, so strong fairness asks no more of *)
(* it there than weak fairness; inside a call it is for the lock.          *)
(***************************************************************************)
GoesOn(p) ==
  IF p \in Installer THEN InstallOn(p) \/ InCall(p)
  ELSE ((p \in Builder /\ Proceed(p)) \/ Advance(p)) /\ UNCHANGED install

InstallFairness == \A p \in Proc : SF_ivars(p \in here /\ GoesOn(p) /\ UNCHANGED here)

InstallSpec == InstallInit /\ [][InstallNext]_ivars /\ InstallFairness

-----------------------------------------------------------------------------
\* Every install ends, with the package stacked or with an error, whatever
\* builds and collections do to its refs, its objects and the lock meanwhile.
EveryInstallEnds == \A p \in Installer : Installing(p) ~> ~Installing(p)

\* The versions of the dependencies are built once: no other manifest, of a
\* registry or of a builder, is put under a ref that a dependency can be put
\* under, and nobody rebuilds a package with dependencies into the very manifest
\* a registry has.
KeysOf(m) == {RefOf[m]} \cup {AsksFor[<<j, m>>] : j \in {k \in Manifest : m \in DepsOf[k]}}

PublishedOnce ==
  /\ \A j, m \in Manifest : \A k \in DepsOf[j] : KeysOf(m) \cap KeysOf(k) # {} => m = k
  /\ \A p \in Builder : \A m \in Tree[p] \cap Remote : DepsOf[m] = {}

\* Whoever finds a ref to a package that came from a registry finds refs to its
\* dependencies too, at every moment and also after an install was killed
\* between two refs: a later install of the package resolves from the store
\* alone, and gc keeps what it needs through refs of its own.  This is only so
\* while the dependencies are not rebuilt: a watch build takes the ref of a
\* dependency's version away from the manifest that is depended on.
DependencyRefsFirst ==
  PublishedOnce =>
    \A m \in Remote, r \in Ref : refs[r] = m =>
      \A k \in DepsOf[m] : \E s \in Ref : refs[s] = k
=============================================================================
