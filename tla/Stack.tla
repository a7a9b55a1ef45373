------------------------------- MODULE Stack --------------------------------
(***************************************************************************)
(* `elu stack`: processes that each assemble a staging tree, layer by      *)
(* layer and hook operation by hook operation, and commit it to one target *)
(* (elu-stacker stage.rs, elu-cli cmd/stack.rs, elu-outputs).              *)
(*                                                                         *)
(* A request is what the command line and the resolver settle: the         *)
(* manifests, dependencies first, each with its layers and hook; whether   *)
(* hooks run; the format, its options and --force; and for qcow2 the       *)
(* manifests of the base.  A process runs one request.                     *)
(***************************************************************************)
EXTENDS Outputs, Hooks, FiniteSets

CONSTANTS
  Proc,
  Scenario,   \* set of [req, out]: what each process is asked for, and what
              \* is at the target at first
  LayerOf,    \* the entries of a layer
  Faulty      \* the processes whose system calls may fail, or that may die

VARIABLES
  req,     \* Proc -> its request
  at,      \* Proc -> what it does next
  tree,    \* Proc -> its staging tree, as it last saw it
  todo,    \* Proc -> the layers left to apply
  ops,     \* Proc -> the hook operations left to run
  dirs,    \* Proc -> its staging directories on disk
  stuck,   \* history: Proc -> those whose removal failed
  out,     \* the target
  tmp      \* `.<target>.tmp', which tar and qcow2 share

own == <<tree, todo, ops>>
disk == <<out, tmp>>
staging == <<dirs, stuck>>
vars == <<req, at, own, staging, disk>>

(***************************************************************************)
(* A target: nothing, a tree, what a removal has left of one, or a file    *)
(* with the processes whose data is in it and those that still write it.   *)
(***************************************************************************)
Nothing == [kind |-> "nothing"]
Torn == [kind |-> "torn"]
TreeOut(t) == [kind |-> "dir", tree |-> t]
FileOut(parts, open) == [kind |-> "file", parts |-> parts, open |-> open]
IsTree(o) == o.kind \in {"dir", "torn"}

\* What a directory may be renamed over: nothing, or an empty directory, which
\* is perhaps what a removal has left.
Vacant(o) == o \in {Nothing, Torn} \/ (o.kind = "dir" /\ DOMAIN o.tree = {<<>>})

IsSequence(s) == s \in Seq(ToSet(s))

\* A tree: its root is a directory, and every other place is in one.
IsWhole(t) ==
  /\ DOMAIN t \subseteq Path
  /\ <<>> \in DOMAIN t => t[<<>>].kind = "dir"
  /\ \A q \in DOMAIN t \ {<<>>} : Front(q) \in DOMAIN t /\ t[Front(q)].kind = "dir"

\* Paths stay in the staging directory; that of a link is not its root.
IsEntry(e) ==
  /\ e.path \in Path /\ e.to \in Path
  /\ e.op \in {"file", "dir", "link", "hard", "other"} => ~IsWhiteout(e.path)
IsOp(o) ==
  CASE o.op \in {"chmod", "delete"} -> o.glob \subseteq Path
    [] o.op \in {"copy", "move"} -> o.glob \subseteq Path /\ o.to \in Path
    [] o.op \in {"mkdir", "write", "patch"} -> o.path \in Path
    [] o.op \in {"template", "index"} -> o.path \in Path /\ o.from \in Path
    [] o.op = "symlink" -> o.path \in Path \ {<<>>} /\ o.to \in Path
    [] OTHER -> FALSE
IsManifest(m) ==
  /\ m.layers \in Seq(DOMAIN LayerOf)
  /\ IsSequence(m.hook) /\ \A i \in DOMAIN m.hook : IsOp(m.hook[i])
AreManifests(s) == IsSequence(s) /\ \A i \in DOMAIN s : IsManifest(s[i])

ASSUME StackAssumption ==
  /\ Scenario # {} /\ Faulty \subseteq Proc
  /\ \A l \in DOMAIN LayerOf :
       IsSequence(LayerOf[l]) /\ \A i \in DOMAIN LayerOf[l] : IsEntry(LayerOf[l][i])
  /\ \A s \in Scenario :
       /\ \/ s.out \in {Nothing, FileOut({}, {})}
          \/ s.out.kind = "dir" /\ s.out = TreeOut(s.out.tree) /\ IsWhole(s.out.tree)
       /\ \A p \in Proc :
            /\ s.req[p].format \in {"dir", "tar", "qcow2"}
            /\ AreManifests(s.req[p].manifests) /\ AreManifests(s.req[p].base)

\* stage runs the hook of resolution.manifests.first(), which is the deepest
\* dependency of the package asked for.
HookRun(r, manifests) == IF r.hooks /\ manifests # <<>> THEN manifests[1].hook ELSE <<>>
RequestedHook(r) == Last(r.manifests).hook
Fast(r) == r.format = "dir" /\ r.mask = NoMode

\* tempfile makes the staging directory private.
StagingRoot == [q \in {<<>>} |-> Dir(Perm({"r", "w", "x"}, {}, {}))]

(***************************************************************************)
(* What stage makes of a request when nothing fails on the way.            *)
(***************************************************************************)
Layered(t, layers) ==
  LET r[i \in 0..Len(layers)] ==
        CASE i = 0 -> Ok(t)
          [] i # 0 /\ r[i - 1].ok -> ApplyLayer(r[i - 1].tree, LayerOf[layers[i]])
          [] OTHER -> r[i - 1]
  IN r[Len(layers)]
Hooked(t, hook) ==
  LET r[i \in 0..Len(hook)] ==
        CASE i = 0 -> Ok(t)
          [] i # 0 /\ r[i - 1].ok -> RunOp(r[i - 1].tree, hook[i])
          [] OTHER -> r[i - 1]
  IN r[Len(hook)]
Staged(r, manifests) ==
  LET l == Layered(StagingRoot, Flatten(manifests))
  IN IF l.ok THEN Hooked(l.tree, HookRun(r, manifests)) ELSE l
BaseTree(r) == Staged(r, r.base)

Phases == {"check", "clear", "clearing", "create", "stage", "options", "base", "merge", "write",
           "writing", "commit", "mask"}
Ends == {"done", "failed", "dead"}

\* Whatever layers, hooks and merges do to it, a staging tree is a tree, and so
\* is what is put at the target: no file or link is left with something below it.
StackTypeOK ==
  /\ at \in [Proc -> Phases \cup Ends]
  /\ {dirs, stuck} \subseteq [Proc -> SUBSET {"user", "base"}]
  /\ \A p \in Proc : IsWhole(tree[p])
  /\ out.kind \in {"nothing", "torn", "dir", "file"}
  /\ out.kind = "dir" => IsWhole(out.tree)
  /\ tmp.kind \in {"nothing", "file"}

StackInit ==
  /\ \E s \in Scenario : req = s.req /\ out = s.out
  /\ at = [p \in Proc |-> CASE req[p].manifests = <<>> -> "failed"    \* nothing asked for
                            [] req[p].manifests # <<>> /\ Fast(req[p]) -> "check"
                            [] OTHER -> "create"]
  /\ tree = [p \in Proc |-> StagingRoot]
  /\ todo = [p \in Proc |-> Flatten(req[p].manifests)]
  /\ ops = [p \in Proc |-> HookRun(req[p], req[p].manifests)]
  /\ dirs = [p \in Proc |-> {}]
  /\ stuck = [p \in Proc |-> {}]
  /\ tmp = Nothing

Goto(p, s) == at' = [at EXCEPT ![p] = s]

\* To remove a directory may fail, and nobody looks whether it did: `let _ ='.
Removes(p, ds, rest) ==
  \E s \in SUBSET IF p \in Faulty THEN ds ELSE {} :
    /\ dirs' = [dirs EXCEPT ![p] = rest \cup s]
    /\ stuck' = [stuck EXCEPT ![p] = s]

\* An error: Staging's Drop, or the caller's remove_dir_all.
GiveUp(p) ==
  /\ Goto(p, "failed")
  /\ Removes(p, dirs[p] \cup (IF at[p] = "base" THEN {"base"} ELSE {}), {})
  /\ UNCHANGED own

-----------------------------------------------------------------------------
(***************************************************************************)
(* The target is looked at before staging on the fast path, after it by    *)
(* the outputs.  With --force it is removed: a tree by a walk, which tar   *)
(* and qcow2, that only unlink, do not do.                                 *)
(***************************************************************************)
AfterCheck(r) == 
  CASE Fast(r) -> "create"
    [] r.format = "dir" /\ ~Fast(r) -> "commit"
    [] r.format = "tar" -> "write"
    [] r.format = "qcow2" -> "merge"

CheckTarget(p) ==
  /\ at[p] = "check"
  /\ IF \/ out # Nothing /\ ~req[p].force
        \/ ~Fast(req[p]) /\ <<>> \notin DOMAIN tree[p]    \* StagingNotDir
        \/ req[p].format = "qcow2" /\ <<>> \notin DOMAIN BaseTree(req[p]).tree
       THEN GiveUp(p)
       ELSE /\ Goto(p, IF out = Nothing THEN AfterCheck(req[p]) ELSE "clear")
            /\ UNCHANGED <<own, staging>>
  /\ UNCHANGED <<req, disk>>

ClearTarget(p) ==
  /\ at[p] = "clear"
  /\ IF IsTree(out)
       THEN IF req[p].format = "dir"
              THEN Goto(p, "clearing") /\ out' = Torn /\ UNCHANGED <<own, staging>>
              ELSE GiveUp(p) /\ UNCHANGED out
       ELSE Goto(p, AfterCheck(req[p])) /\ out' = Nothing /\ UNCHANGED <<own, staging>>
  /\ UNCHANGED <<req, tmp>>

FinishClear(p) ==
  /\ at[p] = "clearing"
  /\ IF out \in {Torn, Nothing}
       THEN Goto(p, AfterCheck(req[p])) /\ out' = Nothing /\ UNCHANGED <<own, staging>>
       ELSE GiveUp(p) /\ UNCHANGED out
  /\ UNCHANGED <<req, tmp>>

-----------------------------------------------------------------------------
CreateStaging(p) ==
  /\ at[p] = "create"
  /\ Goto(p, "stage")
  /\ dirs' = [dirs EXCEPT ![p] = {"user"}]
  /\ UNCHANGED <<req, own, stuck, disk>>

StageLayer(p) ==
  /\ at[p] = "stage"
  /\ todo[p] # <<>>
  /\ LET r == ApplyLayer(tree[p], LayerOf[Head(todo[p])])
     IN IF r.ok
          THEN /\ tree' = [tree EXCEPT ![p] = r.tree]
               /\ todo' = [todo EXCEPT ![p] = Tail(@)]
               /\ UNCHANGED <<at, ops, staging>>
          ELSE GiveUp(p)
  /\ UNCHANGED <<req, disk>>

StageHook(p) ==
  /\ at[p] = "stage"
  /\ todo[p] = <<>>
  /\ ops[p] # <<>>
  /\ LET r == RunOp(tree[p], Head(ops[p]))
     IN IF r.ok
          THEN /\ tree' = [tree EXCEPT ![p] = r.tree]
               /\ ops' = [ops EXCEPT ![p] = Tail(@)]
               /\ UNCHANGED <<at, todo, staging>>
          ELSE GiveUp(p)
  /\ UNCHANGED <<req, disk>>

StageEndEarly(p) ==   \* mutant: does not wait for the hook
  /\ at[p] = "stage"
  /\ todo[p] = <<>>
  /\ Goto(p, IF Fast(req[p]) THEN "commit"
             ELSE IF req[p].format = "qcow2" THEN "base" ELSE "options")
  /\ UNCHANGED <<req, own, staging, disk>>

\* The fast path commits; otherwise into_path disarms the guard.
StageEnd(p) ==
  /\ at[p] = "stage"
  /\ todo[p] = <<>>
  /\ ops[p] = <<>>
  /\ Goto(p, IF Fast(req[p]) THEN "commit"
             ELSE IF req[p].format = "qcow2" THEN "base" ELSE "options")
  /\ UNCHANGED <<req, own, staging, disk>>

\* build_options: an option that does not parse returns without a cleanup.
BuildOptions(p) ==
  /\ at[p] = "options"
  /\ Goto(p, IF req[p].bad THEN "failed" ELSE "check")
  /\ UNCHANGED <<req, own, staging, disk>>

(***************************************************************************)
(* run_qcow2 stages the base in a directory of its own, its hook being     *)
(* that of its first manifest too.                                         *)
(***************************************************************************)
StageBase(p) ==
  /\ at[p] = "base"
  /\ IF BaseTree(req[p]).ok
       THEN /\ Goto(p, "check")
            /\ dirs' = [dirs EXCEPT ![p] = {"user", "base"}]
            /\ UNCHANGED <<own, stuck>>
       ELSE GiveUp(p)
  /\ UNCHANGED <<req, disk>>

\* The merged tree is packed; a base with a finalize command then fails unless
\* --no-finalize is given, since finalize::run never succeeds.
MergeBase(p) ==
  /\ at[p] = "merge"
  /\ LET merged == Merge(BaseTree(req[p]).tree, tree[p])
     IN IF merged.ok /\ ~req[p].finalize
          THEN /\ Goto(p, "write")
               /\ tree' = [tree EXCEPT ![p] = merged.tree]
               /\ UNCHANGED <<todo, ops, staging>>
          ELSE GiveUp(p)
  /\ UNCHANGED <<req, disk>>

-----------------------------------------------------------------------------
(***************************************************************************)
(* tar and qcow2 write a file beside the target, under a name all runs     *)
(* share: to create it truncates what another run has there, which goes on *)
(* writing to it.                                                          *)
(***************************************************************************)
Closed(o, p) == IF o.kind = "file" THEN [o EXCEPT !.open = @ \ {p}] ELSE o
Writers(o) == IF o.kind = "file" THEN o.open ELSE {}

CreateTmp(p) ==
  /\ at[p] = "write"
  /\ tmp' = FileOut(Writers(tmp) \cup {p}, Writers(tmp) \cup {p})
  /\ Goto(p, "writing")
  /\ UNCHANGED <<req, own, staging, out>>

WriteTmp(p) ==
  /\ at[p] = "writing"
  /\ out' = Closed(out, p)
  /\ tmp' = Closed(tmp, p)
  /\ IF tmp = Nothing THEN GiveUp(p) ELSE Goto(p, "commit") /\ UNCHANGED <<own, staging>>
  /\ UNCHANGED req

\* fs::rename of a directory: onto nothing or an empty directory, which a torn
\* one need not be.
CommitReplacing(p) ==   \* mutant: whatever is there is replaced
  /\ at[p] = "commit"
  /\ req[p].format = "dir"
  /\ out' = TreeOut(tree[p])
  /\ dirs' = [dirs EXCEPT ![p] = {}]
  /\ Goto(p, IF Fast(req[p]) THEN "done" ELSE "mask")
  /\ UNCHANGED <<req, own, stuck, tmp>>

CommitDir(p) ==
  /\ at[p] = "commit"
  /\ req[p].format = "dir"
  /\ \/ /\ <<>> \in DOMAIN tree[p]
        /\ Vacant(out)
        /\ out' = TreeOut(tree[p])
        /\ dirs' = [dirs EXCEPT ![p] = {}]
        /\ Goto(p, IF Fast(req[p]) THEN "done" ELSE "mask")
        /\ UNCHANGED <<own, stuck>>
     \/ /\ <<>> \notin DOMAIN tree[p] \/ out = Torn \/ ~Vacant(out)
        /\ GiveUp(p)
        /\ UNCHANGED out
  /\ UNCHANGED <<req, tmp>>

\* The owner and mode options are applied where the tree lies now.
MaskTarget(p) ==
  /\ at[p] = "mask"
  /\ IF out.kind = "dir"
       THEN /\ Goto(p, "done")
            /\ out' = TreeOut(Masked(out.tree, req[p].mask))
            /\ UNCHANGED <<own, staging>>
       ELSE GiveUp(p) /\ UNCHANGED out
  /\ UNCHANGED <<req, tmp>>

CommitLittering(p) ==   \* mutant: tar leaves its staging directory, too
  /\ at[p] = "commit"
  /\ req[p].format # "dir"
  /\ IF tmp = Nothing \/ IsTree(out)
       THEN GiveUp(p) /\ UNCHANGED disk
       ELSE /\ out' = tmp
            /\ tmp' = Nothing
            /\ Goto(p, "done")
            /\ Removes(p, dirs[p] \ {"user"}, {"user"})
            /\ UNCHANGED own
  /\ UNCHANGED req

\* tar removes its staging directory and reports if it cannot; of qcow2 only that
\* of the base is removed.
TarEnds(p) ==
  /\ req[p].format = "tar"
  /\ Goto(p, "done")
  /\ dirs' = [dirs EXCEPT ![p] = {}]
  /\ UNCHANGED <<own, stuck>>

ImageEnds(p) ==
  /\ req[p].format = "qcow2"
  /\ Goto(p, "done")
  /\ Removes(p, {"base"}, {"user"})
  /\ UNCHANGED own

Die(p) == Goto(p, "dead") /\ UNCHANGED <<own, staging>>

\* Over a tree the rename fails: qcow2 then removes its file, tar does not.  A run
\* may have renamed its file and then fail, or die, over what is left to do.
CommitFile(p) ==
  /\ at[p] = "commit"
  /\ req[p].format # "dir"
  /\ IF tmp = Nothing \/ IsTree(out)
       THEN /\ GiveUp(p)
            /\ tmp' = IF req[p].format = "qcow2" THEN Nothing ELSE tmp
            /\ UNCHANGED out
       ELSE /\ out' = tmp
            /\ tmp' = Nothing
            /\ \/ TarEnds(p) \/ ImageEnds(p)
               \/ p \in Faulty /\ (GiveUp(p) \/ Die(p))
  /\ UNCHANGED req

-----------------------------------------------------------------------------
(***************************************************************************)
(* Any call may fail, and the process may die before any.  An error while  *)
(* the file is written removes it (tar) or leaves it (qemu-img); one while *)
(* the mask is applied leaves the target in part masked.                   *)
(***************************************************************************)
Fail(p) ==
  /\ p \in Faulty
  /\ at[p] \notin Ends
  /\ GiveUp(p)
  /\ out' \in IF at[p] = "mask" /\ out.kind = "dir"
                THEN {out, TreeOut(Masked(out.tree, req[p].mask))} ELSE {out}
  /\ tmp' = IF \/ at[p] = "writing" /\ req[p].format = "tar"
               \/ at[p] = "commit" /\ req[p].format = "qcow2"
              THEN Nothing ELSE tmp
  /\ UNCHANGED req

Crash(p) ==
  /\ p \in Faulty
  /\ at[p] \notin Ends
  /\ Die(p)
  /\ UNCHANGED <<req, disk>>

Proceed(p) ==
  \/ CheckTarget(p) \/ ClearTarget(p) \/ FinishClear(p)
  \/ CreateStaging(p) \/ StageLayer(p) \/ StageHook(p) \/ StageEnd(p)
  \/ BuildOptions(p) \/ StageBase(p) \/ MergeBase(p)
  \/ CreateTmp(p) \/ WriteTmp(p)
  \/ CommitDir(p) \/ MaskTarget(p) \/ CommitFile(p)

StackNext == \E p \in Proc : Proceed(p) \/ Fail(p) \/ Crash(p)

StackSpec == StackInit /\ [][StackNext]_vars

-----------------------------------------------------------------------------
LayersOf(p) == [i \in DOMAIN Flatten(req[p].manifests) |-> LayerOf[Flatten(req[p].manifests)[i]]]
Unions(layers) ==
  LET u[i \in 0..Len(layers)] == IF i = 0 THEN StagingRoot ELSE Union(u[i - 1], layers[i])
  IN u
Wellformed(layers) ==
  \A i \in DOMAIN layers : Regular(layers[i]) /\ Plain(Unions(layers)[i - 1], layers[i])

\* Layers applied in sequence give the tree docs/prd/layers.md describes path by
\* path, whiteouts and opaque directories included, and are never refused, if
\* each is regular (what is not, hard links and opaque markers behind deeper
\* entries among them, the code treats otherwise than that document) and plain.
StagedIsUnion ==
  \A p \in Proc :
    /\ /\ at[p] = "stage" /\ todo[p] = <<>>
       /\ ops[p] = HookRun(req[p], req[p].manifests)
       => \/ tree[p] = Unions(LayersOf(p))[Len(LayersOf(p))]
          \/ ~Wellformed(LayersOf(p))
    /\ p \notin Faulty /\ ~Fast(req[p]) /\ at[p] = "failed" /\ todo[p] # <<>>
       => ~Wellformed(LayersOf(p))

SameButModes(t, u) ==
  /\ DOMAIN t = DOMAIN u
  /\ \A q \in DOMAIN t :
       t[q].kind = u[q].kind /\ t[q].data = u[q].data /\ t[q].to = u[q].to

Old == {s.out : s \in Scenario}

\* Nobody ever finds a partial output under the target's name: a tree there is
\* the old one or the whole of what some request stages, permissions aside; a
\* file is complete unless two runs share the temporary file; what a removal
\* leaves is there only while a run with --force removes it, or died doing so.
TargetComplete ==
  CASE out.kind = "dir" ->
         \/ out \in Old
         \/ \E p \in Proc : /\ at[p] \in {"mask"} \cup Ends
                           /\ SameButModes(out.tree, Staged(req[p], req[p].manifests).tree)
    [] out.kind = "file" ->
         \/ out \in Old
         \/ \E p \in Proc : out.parts = {p} /\ out.open = {} /\ at[p] \in Ends
         \/ \E p, q \in Proc : p # q /\ {req[p].format, req[q].format} \subseteq {"tar", "qcow2"}
    [] out.kind = "torn" ->
         \E p \in Proc : req[p].force /\ at[p] \in {"clearing", "failed", "dead"}
    [] OTHER -> TRUE

\* Without --force a directory output never takes the place of anything but an
\* empty directory, not even of what another run puts there after the target was
\* looked at.
NoForceKeepsTarget ==
  [][\A p \in Proc :
       /\ at'[p] # at[p]
       /\ req[p].format = "dir" /\ ~req[p].force /\ at[p] # "mask"
       => out' = out \/ Vacant(out)]_vars

\* A run that ends has left no staging directory that it could have removed,
\* whatever else failed, except in the two ways in which nobody removes one:
\* options refused after the guard was disarmed leave the user's tree, and so
\* does a qcow2 image that was made.
NoLitter ==
  \A p \in Proc :
    /\ at[p] = "done" => dirs[p] = stuck[p] \cup (IF req[p].format = "qcow2" THEN {"user"} ELSE {})
    /\ at[p] = "failed" => dirs[p] = stuck[p] \/ (req[p].bad /\ dirs[p] = {"user"})

\* A move of several matches into a directory, all open, succeeds and loses none.
MoveKeepsFiles ==
  [][\A p \in Proc \ Faulty :
       /\ at[p] = "stage" /\ todo[p] = <<>> /\ ops[p] # <<>>
       /\ <<at[p], ops[p]>>' # <<at[p], ops[p]>>
       /\ Head(ops[p]).op = "move" /\ SideBySide(tree[p], Head(ops[p])) /\ AllOpen(tree[p])
       => ops'[p] # ops[p] /\ Contents(tree[p]) = Contents(tree'[p])]_vars

\* A tar output is a layer: applied to an empty directory it gives the staged
\* tree back, but for the bits of its root, if its directories are open and
\* nothing in it has the name of a whiteout, which it would be taken for.
TarIsLayer ==
  \A p \in Proc :
    /\ at[p] = "write" /\ req[p].format = "tar"
    /\ AllOpen(tree[p]) /\ \A q \in DOMAIN tree[p] : ~IsWhiteout(q)
    =>
    LET again == ApplyLayer(EmptyTree, Archive(tree[p]))
    IN again.ok /\ again.tree = [tree[p] EXCEPT ![<<>>] = EmptyTree[<<>>]]

\* The image of qcow2 holds every file of the user's tree as it is there, unless
\* its path leads through a link in the image, or a link of the base or the user
\* to its directory or one above may lead another of the user's files over it.
LeadsAbove(t, q) == \E l \in DOMAIN t : t[l].kind = "link" /\ IsPrefix(t[l].to, q)
UserWins ==
  [][\A p \in Proc : at[p] = "merge" /\ at'[p] = "write" =>
       \A q \in DOMAIN tree[p] : tree[p][q].kind # "dir" =>
         \/ q \in DOMAIN tree'[p] /\ tree'[p][q] = tree[p][q]
         \/ \E r \in Prefixes(q) : r \in DOMAIN tree'[p] /\ tree'[p][r].kind = "link"
         \/ LeadsAbove(BaseTree(req[p]).tree, q) \/ LeadsAbove(tree[p], q)]_vars

\* stage.rs:57: "Hook ops come from the root manifest (the entry the resolver was
\* asked about)": what a run commits is what that manifest's hook makes of the layers.
RootHookRuns ==
  \A p \in Proc :
    at[p] = "done" /\ req[p].hooks /\ out.kind = "dir" =>
      out.tree = Hooked(Layered(StagingRoot, Flatten(req[p].manifests)).tree,
                        RequestedHook(req[p])).tree
=============================================================================
