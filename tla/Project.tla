------------------------------ MODULE Project -------------------------------
(***************************************************************************)
(* A project directory and the commands that resolve for it: elu lock,     *)
(* update, add and remove (crates/elu-cli/src/cmd), which resolve against  *)
(* the local store and write elu.toml and elu.lock one after the other,    *)
(* and elu install, which resolves against the store and the registry with *)
(* elu.lock, and puts a ref for what it resolved.  One command runs at a   *)
(* time; it may die between any two steps.  Around it packages are built   *)
(* and published.                                                          *)
(*                                                                         *)
(* elu.toml is the sequence of its dependencies.  Downloading and stacking,*)
(* which install does besides, change neither file nor any ref.            *)
(***************************************************************************)
EXTENDS Resolver

CONSTANTS
  Short,       \* Name -> what follows the slash
  Tomls,       \* dependency lists that elu.toml may have
  TomlsFirst,  \* those it may have at the start
  Installs,    \* what may be installed
  BuiltFirst,  \* what the store's refs lead to at the start
  PublishedFirst, \* and what the registry holds
  BuiltLater,  \* what may be built into the store
  PublishedLater, \* and published
  MaxCommands  \* bound on the commands run, for model checking

\* Vec::retain, as elu remove uses it.
Without(list, n) == SelectSeq(list, LAMBDA d : d.name # n)

ASSUME ProjectAssumption ==
  /\ Tomls \subseteq Seq(Demand) /\ TomlsFirst \subseteq Tomls
  /\ \A list \in Tomls, n \in Name : Without(list, n) \in Tomls
  /\ Installs \subseteq Seq(Demand)
  /\ DOMAIN Short = Name
  /\ BuiltFirst \cup PublishedFirst \subseteq Manifest
  /\ \A F \in {BuiltFirst, PublishedFirst} : \A m, n \in F : Own[m] = Own[n] => m = n
  /\ BuiltLater \cup PublishedLater \subseteq Manifest
  /\ MaxCommands \in Nat

VARIABLES
  refs,   \* the store's refs: [key, hash] records
  toml,   \* elu.toml
  lock,   \* elu.lock: its entries, or None
  cmd,    \* the command running: its kind, the names of an update,
          \* whether it wrote elu.toml
  want,   \* the dependency list it resolves: what it means elu.toml to be, or
          \* the arguments of an install
  prior,  \* history: elu.lock when it started
  made,   \* history: the dependency list and the manifests of the resolution
          \* that elu.lock was written from
  ran     \* how many commands were started

files == <<toml, lock>>
run == <<cmd, want, prior, ran>>
vars == <<deps, registry, source, walk, refs, toml, lock, cmd, want, prior, made, ran>>

Kinds == {"none", "lock", "update", "add", "remove", "install"}
Ref == [key : Key, hash : Manifest]

ProjectTypeOK ==
  /\ ResolverTypeOK
  /\ refs \subseteq Ref
  /\ \A r, s \in refs : r.key = s.key => r = s
  /\ toml \in Tomls
  /\ lock \in {None} \cup Seq(Entry)
  /\ cmd \in [kind : Kinds, names : SUBSET Name, wrote : BOOLEAN]
  /\ want \in Seq(Demand)
  /\ prior \in {None} \cup Seq(Entry)
  /\ made \in [roots : Seq(Demand), hashes : Seq(Manifest)]
  /\ ran \in 0..MaxCommands

NoCommand == [kind |-> "none", names |-> {}, wrote |-> FALSE]

ProjectInit ==
  /\ ResolverInit
  /\ registry = PublishedFirst
  /\ refs = {[key |-> Own[m], hash |-> m] : m \in BuiltFirst}
  /\ toml \in TomlsFirst
  /\ lock = None
  /\ cmd = NoCommand
  /\ want = <<>>
  /\ prior = None
  /\ made = [roots |-> <<>>, hashes |-> <<>>]
  /\ ran = 0

Held == {r.hash : r \in refs}

(***************************************************************************)
(* The commands.                                                           *)
(***************************************************************************)
Run(kind, names, roots, pinned, net) ==
  /\ ran < MaxCommands
  /\ ran' = ran + 1
  /\ cmd' = [kind |-> kind, names |-> names, wrote |-> FALSE]
  /\ want' = roots
  /\ prior' = lock
  /\ \E index \in SUBSET Held : Start(roots, pinned, net, Held, index)
  /\ UNCHANGED <<refs, files, made>>

\* elu lock, and elu update without names: no entry of elu.lock is consulted.
Lock == Run("lock", {}, toml, NoPins, FALSE)

Entries(lk) == IF lk = None THEN <<>> ELSE lk

\* Mutant: every pin is dropped.
PinFilterNone(lk, names) == NoPins

\* The lock entries an update keeps: the CLI cut the names down to what
\* follows the slash, and entries are compared by that.
PinFilter(lk, names) ==
  [n \in Name |-> IF \E m \in names : Short[n] = Short[m] THEN None ELSE Lookup(lk, n)]

Locked(lk) == [n \in Name |-> Lookup(lk, n)]

Update(names) ==
  /\ names # {}
  /\ \A n \in names : \E i \in DOMAIN toml : Short[toml[i].name] = Short[n]
  /\ Run("update", names, toml, PinFilter(Entries(lock), names), FALSE)

\* upsert_dep
Upsert(list, d) ==
  IF \E i \in DOMAIN list : list[i].name = d.name
  THEN [list EXCEPT ![CHOOSE i \in DOMAIN list :
                        /\ list[i].name = d.name
                        /\ \A j \in 1..(i - 1) : list[j].name # d.name] = d]
  ELSE Append(list, d)

Add(d) ==
  /\ Upsert(toml, d) \in Tomls
  /\ Run("add", {}, Upsert(toml, d), NoPins, FALSE)

Remove(n) ==
  /\ \E i \in DOMAIN toml : toml[i].name = n
  /\ Run("remove", {}, Without(toml, n), NoPins, FALSE)

\* Mutant: the lock is not given to the resolver.
InstallUnlocked(roots) == Run("install", {}, roots, NoPins, TRUE)

Install(roots) == Run("install", {}, roots, Locked(Entries(lock)), TRUE)

Stop ==
  /\ End
  /\ cmd' = NoCommand
  /\ want' = <<>>
  /\ prior' = None
  /\ UNCHANGED ran

\* resolution_to_lockfile: a manifest's own name and version, and its hash.
Resolution ==
  [i \in DOMAIN ordered |->
     [name |-> Own[ordered[i].hash].name, ver |-> Own[ordered[i].hash].ver,
      hash |-> ordered[i].hash]]

LockChanges == lock # Resolution

\* lockfile_diff: what install resolved and elu.lock does not have, by the
\* names asked for.
LockLacks ==
  \E i \in DOMAIN ordered :
    LET e == Lookup(Entries(lock), ordered[i].name)
    IN IF e = None THEN TRUE ELSE e.hash # ordered[i].hash

\* What --locked refuses: a command that would change a file.
WouldChange ==
  CASE cmd.kind \in {"lock", "update"} -> LockChanges
    [] cmd.kind = "add" -> toml # want \/ LockChanges
    [] cmd.kind = "remove" -> TRUE
    [] OTHER -> LockLacks

\* The flag is read here only, so either answer is possible.
GiveUp ==
  /\ at = "done" /\ ~cmd.wrote
  /\ ~(verdict = "ok" /\ ~WouldChange)
  /\ Stop
  /\ UNCHANGED <<refs, files, made>>

Settled == at = "done" /\ verdict = "ok"

WriteToml ==
  /\ Settled
  /\ cmd.kind \in {"add", "remove"}
  /\ toml # want
  /\ toml' = want
  /\ cmd' = [cmd EXCEPT !.wrote = TRUE]
  /\ UNCHANGED <<resolver, refs, lock, want, prior, ran, made>>

\* Mutant: elu.lock is written before elu.toml.
WriteLockFirst ==
  /\ Settled
  /\ cmd.kind \in {"lock", "update", "add", "remove"}
  /\ lock # Resolution
  /\ lock' = Resolution
  /\ made' = [roots |-> want, hashes |-> [i \in DOMAIN ordered |-> ordered[i].hash]]
  /\ UNCHANGED <<resolver, refs, toml, run>>

\* The last write of lock, update, add and remove; nothing is written if
\* elu.lock says the same already.
WriteLock ==
  /\ Settled
  /\ cmd.kind \in {"lock", "update", "add", "remove"}
  /\ toml = want
  /\ lock' = Resolution
  /\ made' = [roots |-> want, hashes |-> [i \in DOMAIN ordered |-> ordered[i].hash]]
  /\ Stop
  /\ UNCHANGED <<refs, toml>>

\* install, once everything is fetched: a ref for every manifest in order,
\* under the name it was asked for and its own version.  put_ref is an error
\* if the ref leads elsewhere; install ends there, as it does when it dies.
Puts(n) ==
  {[key |-> [name |-> ordered[i].name, ver |-> Own[ordered[i].hash].ver],
    hash |-> ordered[i].hash] : i \in 1..n}

PutRefs ==
  /\ Settled
  /\ cmd.kind = "install"
  /\ \E n \in 0..Len(ordered) :
       /\ \A r, s \in refs \cup Puts(n) : r.key = s.key => r = s
       /\ refs' = refs \cup Puts(n)
  /\ Stop
  /\ UNCHANGED <<files, made>>

\* The command dies, or an I/O error ends it.
Crash ==
  /\ at # "idle"
  /\ Stop
  /\ UNCHANGED <<refs, files, made>>

(***************************************************************************)
(* Around it.  elu build makes a version's ref lead to the new manifest    *)
(* (build --watch replaces one that leads elsewhere).  A build during a    *)
(* command is as good as one before or after, since a command reads its    *)
(* snapshot only; so is a publish during a command without a registry.     *)
(***************************************************************************)
Build(m) ==
  /\ at = "idle"
  /\ [key |-> Own[m], hash |-> m] \notin refs
  /\ refs' = {r \in refs : r.key # Own[m]} \cup {[key |-> Own[m], hash |-> m]}
  /\ UNCHANGED <<resolver, files, run, made>>

Published(m) ==
  /\ at = "idle" \/ online
  /\ Publish(m)
  /\ UNCHANGED <<refs, files, run, made>>

Walking == Walk /\ UNCHANGED <<refs, files, run, made>>

Command ==
  \/ Lock
  \/ \E names \in SUBSET Name : Update(names)
  \/ \E d \in Demand : Add(d)
  \/ \E n \in Name : Remove(n)
  \/ \E roots \in Installs : Install(roots)

Progress == Walking \/ GiveUp \/ WriteToml \/ WriteLock \/ PutRefs

Next ==
  \/ Command
  \/ Progress
  \/ Crash
  \/ (\E m \in BuiltLater : Build(m)) \/ (\E m \in PublishedLater : Published(m))

Spec == ProjectInit /\ [][Next]_vars /\ WF_vars(Progress)

-----------------------------------------------------------------------------
Ok == at = "done" /\ verdict = "ok"
Hashes == {ordered[i].hash : i \in DOMAIN ordered}
Demands == {want[i] : i \in DOMAIN want} \cup UNION {deps[h] : h \in Hashes}

\* Every pin names a manifest of the package it is written for.
Honest == \A m \in Manifest : \A d \in deps[m] : d.pin # None => Own[d.pin].name = d.name
HonestRoots(list) ==
  \A i \in DOMAIN list : list[i].pin # None => Own[list[i].pin].name = list[i].name

Answers(h, d) ==
  IF d.pin # None THEN h = d.pin ELSE Own[h].name = d.name /\ Own[h].ver \in d.vers

\* A resolution has, under the name of every root and of every dependency of
\* a manifest in it, a manifest in it that answers the demand; it lists no
\* manifest twice, and none that was not asked for.
Resolved ==
  Ok => /\ \A d \in Demands : \E h \in Hashes \cap byName[d.name] : Answers(h, d)
        /\ \A i, j \in DOMAIN ordered : ordered[i].hash = ordered[j].hash => i = j
        /\ \A h \in Hashes : \E d \in Demands : h \in byName[d.name] /\ Answers(h, d)

Needs(f, h) == \E d \in deps[f] : h \in byName[d.name]

\* g leads to h: h is in every set that has g and what its members need.
LeadsTo(g, h) ==
  \A S \in SUBSET Hashes :
    g \in S /\ (\A f \in S, e \in Hashes : Needs(f, e) => e \in S) => h \in S

\* A dependency is stacked before the package that depends on it, unless it
\* leads back to it.
DependenciesFirst ==
  Ok => \A i, j \in DOMAIN ordered :
          /\ Needs(ordered[i].hash, ordered[j].hash)
          /\ ~LeadsTo(ordered[j].hash, ordered[i].hash)
          => j < i

\* Unless a pin gives a package another name, a resolution has one version and
\* one build of each package.
OneBuildPerPackage ==
  Ok /\ Honest /\ HonestRoots(want) =>
    \A g, h \in Hashes : Own[g].name = Own[h].name => g = h

\* With elu.lock, an install of what it was made for resolves to the very
\* manifests it was made from, in their order, or fails: whatever was built and
\* published since, and however the registry answers.
LockReproduces ==
  /\ Ok /\ cmd.kind = "install"
  /\ lock # None /\ made.roots = want
  /\ Honest /\ HonestRoots(want)
  => [i \in DOMAIN ordered |-> ordered[i].hash] = made.hashes

\* An update leaves as elu.lock had them the packages that are neither among
\* the ones it was asked for nor among their transitive dependencies, those
\* apart that a dependency pins to another build.  Of the dependencies of the
\* named ones nothing is said: they are to be resolved again, but PinFilter
\* keeps the pins of all that are not named themselves.
UpdateKeepsOthers ==
  Ok /\ cmd.kind = "update" /\ prior # None =>
    \A i \in DOMAIN ordered :
      LET n == Own[ordered[i].hash].name
      IN \/ \E g \in Hashes, m \in cmd.names :
              Short[m] = Short[Own[g].name] /\ LeadsTo(g, ordered[i].hash)
         \/ Lookup(prior, n) = None
         \/ Lookup(prior, n).hash = ordered[i].hash
         \/ \E d \in Demands : d.pin = ordered[i].hash

\* lockfile::verify
Verify(list, lk) ==
  \A i \in DOMAIN list :
    LET e == Lookup(lk, list[i].name)
    IN e # None /\ (list[i].pin # None \/ e.ver \in list[i].vers)

\* What a command wrote to elu.lock passes verify against the list in elu.toml
\* it was written for, unless a pin gives a package another name, and elu.lock
\* is only ever for a list that elu.toml has had by then: a command that dies in
\* between leaves the older lock.
LockWritten ==
  [][lock' # lock => /\ toml = want
                     /\ Honest /\ HonestRoots(want) => Verify(toml, lock')]_vars

\* Whatever the dependencies, cycles included, and whatever the registry does,
\* a command ends.
EveryCommandEnds == at # "idle" ~> at = "idle"
=============================================================================
