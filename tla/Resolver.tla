------------------------------ MODULE Resolver ------------------------------
(***************************************************************************)
(* The walk of crates/elu-resolver (resolve.rs): depth first from the      *)
(* roots, one manifest entered once, the names checked for conflicts at    *)
(* the end.  It asks a VersionSource; here that is the HybridSource of     *)
(* crates/elu-cli/src/source.rs, a snapshot of the local store's refs with *)
(* a registry behind it, or without one (OfflineSource).                   *)
(*                                                                         *)
(* The recursion of Walker::visit is an explicit stack.  Every question to *)
(* the source is a step of its own, as each is awaited: what is published  *)
(* in between is seen by the next one.                                     *)
(*                                                                         *)
(* A package's name stands for its place in the alphabetical order of      *)
(* references.  A manifest has at most one dependency of a name (elu add   *)
(* upserts), so the set of its dependencies, taken by name, is the sorted  *)
(* list of the code.  A demand carries the versions its VersionReq matches,*)
(* or the hash it is pinned to.                                            *)
(***************************************************************************)
EXTENDS Naturals, Sequences

CONSTANTS
  Name,      \* <namespace>/<name> references, by alphabetical place
  Version,   \* versions, by semver precedence
  Manifest,  \* manifest hashes
  Own,       \* the name and version a manifest gives itself
  Demand,    \* dependencies and roots: a name, with a hash or with versions
  Graphs,    \* the dependencies the manifests may have
  None

Key == [name : Name, ver : Version]
Entry == [name : Name, ver : Version, hash : Manifest]

ASSUME ResolverAssumption ==
  /\ Name \subseteq Nat /\ Version \subseteq Nat
  /\ Own \in [Manifest -> Key]
  /\ Demand \subseteq [name : Name, pin : {None} \cup Manifest, vers : SUBSET Version]
  /\ Graphs \subseteq [Manifest -> SUBSET Demand]
  /\ \A g \in Graphs, m \in Manifest : \A d, e \in g[m] : d.name = e.name => d = e
  /\ None \notin Manifest \cup Version \cup Entry

VARIABLES
  deps,      \* the dependencies of each manifest: its content, never changes
  registry,  \* the manifests published, under their own names and versions
  local,     \* OfflineSource: the manifests held, and those its refs lead to
  online,    \* whether the source has a registry
  pins,      \* what Lockfile::lookup finds in the lockfile given to the walk
  at,        \* what the walk does next
  queue,     \* the roots not visited yet
  stack,     \* the manifests entered and not left, each with the
             \* dependencies it still has to visit
  chosen,    \* the version highest_match chose
  ordered,   \* Walker::ordered
  visited,   \* Walker::visited
  byName,    \* Walker::by_name, without the chains
  verdict    \* what resolve returned

walk == <<at, queue, stack, chosen, ordered, visited, byName, verdict>>
source == <<local, online, pins>>
resolver == <<deps, registry, source, walk>>

Item == [name : Name, hash : Manifest]
Failures == {"NoMatch", "LockMismatch", "Source", "Conflict"}

ResolverTypeOK ==
  /\ deps \in Graphs
  /\ registry \subseteq Manifest
  /\ local \in [held : SUBSET Manifest, index : SUBSET Manifest]
  /\ local.index \subseteq local.held
  /\ online \in BOOLEAN
  /\ pins \in [Name -> {None} \cup Entry]
  /\ at \in {"idle", "walk", "fetch", "done"}
  /\ queue \in Seq(Demand)
  /\ stack \in Seq([name : Name, hash : Manifest, todo : SUBSET Demand])
  /\ chosen \in {None} \cup Version
  /\ ordered \in Seq(Item)
  /\ visited \subseteq Manifest
  /\ byName \in [Name -> SUBSET Manifest]
  /\ verdict \in {None, "ok"} \cup Failures

NoPins == [n \in Name |-> None]

WalkInit ==
  /\ local = [held |-> {}, index |-> {}]
  /\ online = FALSE
  /\ pins = NoPins
  /\ at = "idle"
  /\ queue = <<>>
  /\ stack = <<>>
  /\ chosen = None
  /\ ordered = <<>>
  /\ visited = {}
  /\ byName = [n \in Name |-> {}]
  /\ verdict = None

ResolverInit ==
  /\ deps \in Graphs
  /\ WalkInit

(***************************************************************************)
(* The source.                                                             *)
(***************************************************************************)
\* Lockfile::lookup: the first entry of a name.
Lookup(lock, n) ==
  IF \E i \in DOMAIN lock : lock[i].name = n
  THEN lock[CHOOSE i \in DOMAIN lock :
              /\ lock[i].name = n
              /\ \A j \in 1..(i - 1) : lock[j].name # n]
  ELSE None

Remote == IF online THEN registry ELSE {}

\* build_offline_source inserts the manifest of every ref of the store under
\* the manifest's own name and version; of two with the same, the last listed
\* stays.
Snapshot(held, index) ==
  /\ index \subseteq held
  /\ \A m \in held : \E i \in index : Own[i] = Own[m]
  /\ \A i, j \in index : Own[i] = Own[j] => i = j

Named(S, n) == {m \in S : Own[m].name = n}

\* The version of a name that a manifest of S has, highest among those matched.
IsHighest(v, d, S) ==
  LET matching == {Own[m].ver : m \in Named(S, d.name)} \cap d.vers
  IN v \in matching /\ \A w \in matching : w <= v

(***************************************************************************)
(* The walk.                                                               *)
(***************************************************************************)
Start(roots, pinned, net, held, index) ==
  /\ at = "idle"
  /\ Snapshot(held, index)
  /\ local' = [held |-> held, index |-> index]
  /\ online' = net
  /\ pins' = pinned
  /\ at' = "walk"
  /\ queue' = roots
  /\ UNCHANGED <<deps, registry, stack, chosen, ordered, visited, byName, verdict>>

\* The resolver's caller ends, and its memory with it.
End ==
  /\ local' = [held |-> {}, index |-> {}]
  /\ online' = FALSE
  /\ pins' = NoPins
  /\ at' = "idle"
  /\ queue' = <<>>
  /\ stack' = <<>>
  /\ chosen' = None
  /\ ordered' = <<>>
  /\ visited' = {}
  /\ byName' = [n \in Name |-> {}]
  /\ verdict' = None
  /\ UNCHANGED <<deps, registry>>

Top == stack[Len(stack)]
Below == SubSeq(stack, 1, Len(stack) - 1)
Asking == IF stack = <<>> THEN queue # <<>> ELSE Top.todo # {}
Asked ==
  IF stack = <<>> THEN Head(queue)
  ELSE CHOOSE d \in Top.todo : \A e \in Top.todo : d.name <= e.name

\* visit, once resolve_one has returned: the hash is recorded under the name
\* asked for, and its dependencies come next if it is new.
Visit(h) ==
  /\ at' = "walk"
  /\ byName' = [byName EXCEPT ![Asked.name] = @ \cup {h}]
  /\ visited' = visited \cup {h}
  /\ queue' = IF stack = <<>> THEN Tail(queue) ELSE queue
  /\ LET rest == IF stack = <<>> THEN <<>>
                 ELSE Append(Below, [Top EXCEPT !.todo = @ \ {Asked}])
     IN stack' = IF h \in visited THEN rest
                 ELSE Append(rest, [name |-> Asked.name, hash |-> h, todo |-> deps[h]])
  /\ chosen' = None
  /\ UNCHANGED <<deps, registry, source, ordered, verdict>>

Fail(why) ==
  /\ at' = "done"
  /\ verdict' = why
  /\ UNCHANGED <<deps, registry, source, queue, stack, chosen, ordered, visited, byName>>

\* fetch_by_hash: the snapshot first, then the registry, which may be out of
\* reach.
ByHash(h) ==
  \/ h \in local.held \cup Remote /\ Visit(h)
  \/ h \notin local.held /\ Fail("Source")

VisitPinned ==
  /\ at = "walk" /\ Asking
  /\ Asked.pin # None
  /\ ByHash(Asked.pin)

\* Mutant: a lock entry whose version does not match is used all the same.
VisitLockedLoose ==
  /\ at = "walk" /\ Asking
  /\ Asked.pin = None
  /\ pins[Asked.name] # None
  /\ ByHash(pins[Asked.name].hash)

VisitLocked ==
  /\ at = "walk" /\ Asking
  /\ Asked.pin = None
  /\ pins[Asked.name] # None
  /\ LET e == pins[Asked.name]
     IN IF e.ver \in Asked.vers THEN ByHash(e.hash) ELSE Fail("LockMismatch")

\* Mutant: a walk that finds no version waits for one.
VisitListedWaiting ==
  /\ at = "walk" /\ Asking
  /\ Asked.pin = None
  /\ pins[Asked.name] = None
  /\ \E listed \in {local.index \cup Remote, local.index}, v \in Version :
       /\ IsHighest(v, Asked, listed)
       /\ chosen' = v
       /\ at' = "fetch"
       /\ UNCHANGED <<deps, registry, source, queue, stack, ordered, visited, byName, verdict>>

\* list_versions and highest_match.  A registry that does not answer is passed
\* over: the versions of the snapshot are then all there are.
VisitListed ==
  /\ at = "walk" /\ Asking
  /\ Asked.pin = None
  /\ pins[Asked.name] = None
  /\ \E listed \in {local.index \cup Remote, local.index} :
       \/ \E v \in Version :
            /\ IsHighest(v, Asked, listed)
            /\ chosen' = v
            /\ at' = "fetch"
            /\ UNCHANGED <<deps, registry, source, queue, stack, ordered, visited, byName, verdict>>
       \/ (\A v \in Version : ~IsHighest(v, Asked, listed)) /\ Fail("NoMatch")

\* fetch_manifest of the version chosen: the snapshot first, then the registry.
Fetch ==
  /\ at = "fetch"
  /\ LET here(S) == {m \in S : Own[m] = [name |-> Asked.name, ver |-> chosen]}
     IN \/ \E m \in here(local.index) : Visit(m)
        \/ here(local.index) = {} /\ \E m \in here(Remote) : Visit(m)
        \/ here(local.index) = {} /\ Fail("Source")

\* Mutants: the stack's frame put in order, and the order reversed.
LeaveFrame ==
  /\ at = "walk"
  /\ stack # <<>> /\ Top.todo = {}
  /\ ordered' = Append(ordered, Top)
  /\ stack' = Below
  /\ UNCHANGED <<deps, registry, source, at, queue, chosen, visited, byName, verdict>>

LeaveReversed ==
  /\ at = "walk"
  /\ stack # <<>> /\ Top.todo = {}
  /\ ordered' = <<[name |-> Top.name, hash |-> Top.hash]>> \o ordered
  /\ stack' = Below
  /\ UNCHANGED <<deps, registry, source, at, queue, chosen, visited, byName, verdict>>

\* All dependencies of the manifest on top were visited: it is put in order.
Leave ==
  /\ at = "walk"
  /\ stack # <<>> /\ Top.todo = {}
  /\ ordered' = Append(ordered, [name |-> Top.name, hash |-> Top.hash])
  /\ stack' = Below
  /\ UNCHANGED <<deps, registry, source, at, queue, chosen, visited, byName, verdict>>

\* Mutant: no conflict check.
SettleUnchecked ==
  /\ at = "walk"
  /\ stack = <<>> /\ queue = <<>>
  /\ at' = "done"
  /\ verdict' = "ok"
  /\ UNCHANGED <<deps, registry, source, queue, stack, chosen, ordered, visited, byName>>

\* resolve, after the walk: check_conflicts.
Settle ==
  /\ at = "walk"
  /\ stack = <<>> /\ queue = <<>>
  /\ at' = "done"
  /\ verdict' = IF \A n \in Name : \A g, h \in byName[n] : g = h THEN "ok" ELSE "Conflict"
  /\ UNCHANGED <<deps, registry, source, queue, stack, chosen, ordered, visited, byName>>

Walk == VisitPinned \/ VisitLocked \/ VisitListed \/ Fetch \/ Leave \/ Settle

\* Somebody publishes: a version, once published, stays what it is.
Publish(m) ==
  /\ m \notin registry
  /\ \A p \in registry : Own[p] # Own[m]
  /\ registry' = registry \cup {m}
  /\ UNCHANGED <<deps, source, walk>>
=============================================================================
