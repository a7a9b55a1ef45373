------------------------------- MODULE Import -------------------------------
(***************************************************************************)
(* The importers of crates/elu-import: `elu import apt|npm|pip` fetches    *)
(* artifacts of another ecosystem, keeps them in a cache beside the store, *)
(* and makes one package of each (apt.rs, npm.rs, pip.rs).  Several such   *)
(* commands share the cache and the store.  A step is one access to        *)
(* upstream, to the cache or to a ref; unpacking and packing in a private  *)
(* directory is part of the step that stores the manifest.                 *)
(*                                                                         *)
(* An artifact is the release it was published as.  A manifest is its      *)
(* contents, and its hash the place it has in `made`.  Two packings of one *)
(* release are one layer only if done on one `day`: the archive carries    *)
(* the modification times of the directories it was unpacked into.         *)
(***************************************************************************)
EXTENDS Naturals, Sequences

CONSTANTS
  Ecosystem,  \* the importers, a subset of {"apt", "npm", "pip"}
  Importing,  \* processes that run `elu import`
  Faulty,     \* those that may die, or have a request or a write fail
  Package,    \* upstream names
  Name,       \* names of elu packages
  Tag,        \* upstream version strings
  EluName,    \* Package -> Name: the normalised name
  Numeric,    \* Tag -> Tag: what is left of a version without its suffix
  Releases,   \* Package -> Seq(Tag): what upstream publishes, oldest first
  DependsOn,  \* Package \X Tag -> Seq(Package)
  Commands,   \* [names, closure, want] of the commands that are run
  Day,        \* when a command can run, as coarsely as its archives tell
  MaxCommands, \* bound on the commands that are begun
  Torn,       \* bytes that are no whole artifact
  None        \* no such file, nothing asked for

ASSUME ImportAssumption ==
  /\ Ecosystem \subseteq {"apt", "npm", "pip"}
  /\ Faulty \subseteq Importing
  /\ EluName \in [Package -> Name]
  /\ Numeric \in [Tag -> Tag]
  /\ Releases \in [Package -> Seq(Tag)]
  /\ DependsOn \in [Package \X Tag -> Seq(Package)]
  /\ Commands \subseteq [names : Seq(Package), closure : BOOLEAN, want : Tag \cup {None}]
  /\ \A k \in Commands : Len(k.names) > 1 => k.want = None
  /\ MaxCommands \in Nat
  /\ "latest" \notin Tag

VARIABLES
  eco,     \* the importer at work
  latest,  \* how many of its releases each package has published
  cache,   \* <store>/cache/<importer>/<name>/<version>
  made,    \* the manifests put in the store, in the order of the first put
  refs,    \* refs/<importer-ns>/<name>/<version>: a manifest or 0
  begun,   \* how many commands were begun
  imp      \* what each process is doing

ivars == <<eco, latest, cache, made, refs, begun, imp>>

Artifact == Package \X Tag
Key == Name \X (Tag \cup {"latest"})
ManifestRec == [name : Name, tag : Tag, layer : [of : Artifact, day : Day],
                deps : Seq([name : Name, pin : Nat])]

Steps == {"idle", "name", "pop", "lookup", "fetch", "open", "write", "pack", "ref", "commit"}

ImportTypeOK ==
  /\ eco \in Ecosystem
  /\ \A q \in Package : latest[q] \in 0..Len(Releases[q])
  /\ begun \in 0..MaxCommands
  /\ cache \in [Key -> {None, Torn} \cup Artifact]
  /\ made \in Seq(ManifestRec)
  /\ refs \in [Name \X Tag -> 0..Len(made)]
  /\ \A p \in Importing :
       /\ imp[p].step \in Steps
       /\ imp[p].names \in Seq(Package)
       /\ imp[p].queue \in Seq(Package)
       /\ imp[p].imported \in [Name -> 0..Len(made)]
       /\ imp[p].cur \in Package \cup {None}
       /\ imp[p].tag \in Tag \cup {None, "latest"}
       /\ imp[p].art \in Artifact \cup {Torn, None}
       /\ imp[p].day \in Day \cup {None}
       /\ imp[p].man \in 0..Len(made)

NothingImported == [n \in Name |-> 0]

AtRest ==
  [step |-> "idle", names |-> <<>>, closure |-> FALSE, want |-> None, root |-> None,
   queue |-> <<>>, imported |-> NothingImported, missed |-> {}, ok |-> FALSE,
   day |-> None, cur |-> None, tag |-> None, deps |-> <<>>, art |-> None, man |-> 0]

ImportInit ==
  /\ eco \in Ecosystem
  /\ latest = [q \in Package |-> IF Releases[q] = <<>> THEN 0 ELSE 1]
  /\ begun = 0
  /\ cache = [k \in Key |-> None]
  /\ made = <<>>
  /\ refs = [r \in Name \X Tag |-> 0]
  /\ imp = [p \in Importing |-> AtRest]

-----------------------------------------------------------------------------
(***************************************************************************)
(* Upstream, as the importers ask it.  Any answer may be an error instead. *)
(***************************************************************************)
Published(q) == {Releases[q][i] : i \in 1..latest[q]}
Latest(q) == Releases[q][latest[q]]

Publish(q) ==
  /\ latest[q] < Len(Releases[q])
  /\ latest' = [latest EXCEPT ![q] = @ + 1]
  /\ UNCHANGED <<eco, cache, made, refs, begun, imp>>

\* The answer for a package: the version wanted, or else the latest one.
Answer(q, want) ==
  IF latest[q] = 0 THEN {} ELSE {IF want = None THEN Latest(q) ELSE want} \cap Published(q)

NpmDeps(q, tag) == DependsOn[<<q, tag>>]

\* PyPI's answer lists the requirements of the latest release whatever
\* version was asked for, and it is from there that they are read.
PipDeps(q, tag) == DependsOn[<<q, Latest(q)>>]

\* A deb is asked for by its version string, or by the word "latest"; its
\* dependencies and its version come with it.
DebServed(q, tag) ==
  IF latest[q] = 0 THEN {}
  ELSE {<<q, IF tag = "latest" THEN Latest(q) ELSE tag>>} \cap ({q} \X Published(q))

Served(q, tag) ==
  IF eco = "apt" THEN DebServed(q, tag) ELSE {<<q, tag>>} \cap ({q} \X Published(q))

-----------------------------------------------------------------------------
(***************************************************************************)
(* `elu import <kind> names...`: one import after the other, until one     *)
(* fails.  A single import is a closure of its own package only: it queues *)
(* nothing more, pins nothing, and an error ends it.                       *)
(***************************************************************************)
Set(p, r) == imp' = [imp EXCEPT ![p] = r]
In(p, s) == [imp[p] EXCEPT !.step = s]

Begin(p, k, d) ==
  /\ imp[p].step = "idle"
  /\ Set(p, [AtRest EXCEPT !.step = "name", !.names = k.names, !.closure = k.closure,
                           !.want = k.want, !.day = d])
  /\ begun < MaxCommands
  /\ begun' = begun + 1
  /\ UNCHANGED <<eco, latest, cache, made, refs>>

NextName(p) ==
  /\ imp[p].step = "name"
  /\ IF imp[p].names = <<>>
       THEN Set(p, AtRest)
       ELSE Set(p, [AtRest EXCEPT !.step = "pop", !.names = Tail(imp[p].names),
                      !.closure = imp[p].closure, !.want = imp[p].want, !.day = imp[p].day,
                      !.root = Head(imp[p].names), !.queue = <<Head(imp[p].names)>>])
  /\ UNCHANGED <<eco, latest, cache, made, refs, begun>>

Fail(p) == Set(p, AtRest)

MissForNow(p, q, rest) ==   \* mutant: tried again after the others
  IF imp[p].closure
    THEN Set(p, [In(p, "pop") EXCEPT !.missed = @ \cup {q}, !.queue = Append(rest, q),
                                     !.cur = None, !.tag = None])
    ELSE Fail(p)

\* In a closure, what cannot be had is left out; the package asked for is
\* missed when the queue is empty.
Miss(p, q, rest) ==
  IF imp[p].closure
    THEN Set(p, [In(p, "pop") EXCEPT !.missed = @ \cup {q}, !.queue = rest,
                                     !.cur = None, !.tag = None])
    ELSE Fail(p)

Want(p, q) == IF q = imp[p].root THEN imp[p].want ELSE None

QueuedFirst(p, deps) ==   \* mutant: one dependency only
  SubSeq(deps, 1, 1)

\* The loop that pushes what is not imported yet.
Queued(p, deps) ==
  LET kept[i \in 0..Len(deps)] ==
        CASE i = 0 -> <<>>
          [] i # 0 /\ imp[p].imported[EluName[deps[i]]] = 0 -> Append(kept[i - 1], deps[i])
          [] OTHER -> kept[i - 1]
  IN kept[Len(deps)]

(***************************************************************************)
(* The head of the loop.  npm and pip ask for the package's metadata here, *)
(* and queue its dependencies before they have its artifact.               *)
(***************************************************************************)
Finish(p) ==
  /\ imp[p].queue = <<>>
  /\ IF imp[p].imported[EluName[imp[p].root]] # 0
       THEN Set(p, [In(p, "name") EXCEPT !.ok = TRUE])
       ELSE Fail(p)

Lookup(p, q, tag, deps, queue) ==
  Set(p, [In(p, "lookup") EXCEPT !.cur = q, !.tag = tag, !.deps = deps, !.queue = queue])

\* import_single: the package asked for, and nothing more.
AptSingle(p, q) == Lookup(p, q, IF imp[p].want = None THEN "latest" ELSE imp[p].want, <<>>, <<>>)

NpmSingle(p, q) ==
  \E tag \in Answer(q, imp[p].want) : Lookup(p, q, tag, NpmDeps(q, tag), <<>>)

PipSingle(p, q) ==
  \E tag \in Answer(q, imp[p].want) : Lookup(p, q, tag, PipDeps(q, tag), <<>>)

\* import_closure: the dependencies go to the end of the queue.
AptTake(p, q) ==
  Lookup(p, q, IF Want(p, q) = None THEN "latest" ELSE Want(p, q), <<>>, Tail(imp[p].queue))

NpmTake(p, q) ==
  \E tag \in Answer(q, Want(p, q)) :
    Lookup(p, q, tag, NpmDeps(q, tag), Tail(imp[p].queue) \o Queued(p, NpmDeps(q, tag)))

PipTake(p, q) ==
  \E tag \in Answer(q, Want(p, q)) :
    Lookup(p, q, tag, PipDeps(q, tag), Tail(imp[p].queue) \o Queued(p, PipDeps(q, tag)))

Take(p, q) ==
  \/ eco = "apt" /\ IF imp[p].closure THEN AptTake(p, q) ELSE AptSingle(p, q)
  \/ eco = "npm" /\ IF imp[p].closure THEN NpmTake(p, q) ELSE NpmSingle(p, q)
  \/ eco = "pip" /\ IF imp[p].closure THEN PipTake(p, q) ELSE PipSingle(p, q)
  \/ /\ eco # "apt"
     /\ p \in Faulty \/ Answer(q, Want(p, q)) = {}
     /\ Miss(p, q, Tail(imp[p].queue))

Pop(p) ==
  /\ imp[p].step = "pop"
  /\ \/ Finish(p)
     \/ /\ imp[p].queue # <<>>
        /\ LET q == Head(imp[p].queue)
           IN  IF imp[p].imported[EluName[q]] # 0
                 THEN Set(p, [imp[p] EXCEPT !.queue = Tail(@)])
                 ELSE Take(p, q)
  /\ UNCHANGED <<eco, latest, cache, made, refs, begun>>

(***************************************************************************)
(* The artifact, from the cache or from upstream.  The cache is written in *)
(* place: opening the file empties it, and what two writers leave behind   *)
(* who opened it before either wrote need not be what either had.          *)
(***************************************************************************)
KeyWithoutVersion(p) ==   \* mutant: one entry per package
  <<EluName[imp[p].cur], "latest">>

KeyOf(p) == <<EluName[imp[p].cur], imp[p].tag>>

CacheGet(p) ==
  /\ imp[p].step = "lookup"
  /\ Set(p, IF cache[KeyOf(p)] = None
              THEN In(p, "fetch")
              ELSE [In(p, "pack") EXCEPT !.art = cache[KeyOf(p)]])
  /\ UNCHANGED <<eco, latest, cache, made, refs, begun>>

Fetch(p) ==
  /\ imp[p].step = "fetch"
  /\ \/ \E a \in Served(imp[p].cur, imp[p].tag) : Set(p, [In(p, "open") EXCEPT !.art = a])
     \/ /\ p \in Faulty \/ Served(imp[p].cur, imp[p].tag) = {}
        /\ IF eco = "apt" THEN Miss(p, imp[p].cur, imp[p].queue) ELSE Fail(p)
  /\ UNCHANGED <<eco, latest, cache, made, refs, begun>>

CacheOpen(p) ==
  /\ imp[p].step = "open"
  /\ cache' = [cache EXCEPT ![KeyOf(p)] = Torn]
  /\ Set(p, In(p, "write"))
  /\ UNCHANGED <<eco, latest, made, refs, begun>>

CacheWrite(p) ==
  /\ imp[p].step = "write"
  /\ \E bytes \in IF cache[KeyOf(p)] \in {Torn, imp[p].art}
                    THEN {imp[p].art} ELSE {imp[p].art, Torn} :
       cache' = [cache EXCEPT ![KeyOf(p)] = bytes]
  /\ Set(p, In(p, "pack"))
  /\ UNCHANGED <<eco, latest, made, refs, begun>>

(***************************************************************************)
(* Unpack, pack, and put the layer and the manifest.  Bytes that are no    *)
(* whole archive do not unpack, and nothing removes them from the cache.   *)
(* A dependency imported before, in this closure, is pinned to its hash.   *)
(***************************************************************************)
Unpacks(a) == a # Torn

PackedLayer(p) == [of |-> imp[p].art, day |-> imp[p].day]

Pin(p, q) == IF imp[p].closure THEN imp[p].imported[EluName[q]] ELSE 0

Packaged(p, tag, deps) ==
  [name |-> EluName[imp[p].cur], tag |-> tag, layer |-> PackedLayer(p),
   deps |-> [i \in 1..Len(deps) |-> [name |-> EluName[deps[i]], pin |-> Pin(p, deps[i])]]]

\* What the control file of a deb says.
DebTag(deb) == deb[2]
DebDeps(deb) == DependsOn[deb]

\* npm and pip describe a package by the metadata, apt by the artifact.
ManifestOf(p) ==
  IF eco = "apt" THEN Packaged(p, DebTag(imp[p].art), DebDeps(imp[p].art))
                 ELSE Packaged(p, imp[p].tag, imp[p].deps)

\* put_manifest: the hash of what was put before is found again.
Put(m) == IF \E i \in 1..Len(made) : made[i] = m THEN made ELSE Append(made, m)

HashOfNew(m) == Len(made) + 1   \* mutant: taken to be a new manifest

HashOf(m) == CHOOSE i \in 1..Len(Put(m)) : Put(m)[i] = m

\* apt learns only now what to queue.
QueueAfter(p) ==
  IF eco = "apt" /\ imp[p].closure
    THEN imp[p].queue \o Queued(p, DebDeps(imp[p].art))
    ELSE imp[p].queue

Pack(p) ==
  /\ imp[p].step = "pack"
  /\ IF Unpacks(imp[p].art)
       THEN /\ made' = Put(ManifestOf(p))
            /\ Set(p, [In(p, "ref") EXCEPT !.man = HashOf(ManifestOf(p)), !.queue = QueueAfter(p)])
       ELSE Fail(p) /\ UNCHANGED made
  /\ UNCHANGED <<eco, latest, cache, refs, begun>>

(***************************************************************************)
(* put_ref, under a version that is the upstream one cut down to numbers:  *)
(* it looks for another ref before it takes the lock under which it writes *)
(* (module Store has it step by step).                                     *)
(***************************************************************************)
DebVersion(tag) == Numeric[tag]
PipVersion(tag) == Numeric[tag]
NpmVersion(tag) == tag

VersionOf(tag) ==
  CASE eco = "apt" -> DebVersion(tag)
    [] eco = "pip" -> PipVersion(tag)
    [] eco = "npm" -> NpmVersion(tag)

RefOf(p) == <<made[imp[p].man].name, VersionOf(made[imp[p].man].tag)>>

Imported(p) ==
  Set(p, [In(p, "pop") EXCEPT !.imported[EluName[imp[p].cur]] = imp[p].man,
            !.cur = None, !.tag = None, !.deps = <<>>, !.art = None, !.man = 0])

PutRefCheck(p) ==
  /\ imp[p].step = "ref"
  /\ CASE refs[RefOf(p)] = imp[p].man -> Imported(p)
       [] refs[RefOf(p)] = 0 -> Set(p, In(p, "commit"))
       [] OTHER -> Fail(p)
  /\ UNCHANGED <<eco, latest, cache, made, refs, begun>>

PutRefCommit(p) ==
  /\ imp[p].step = "commit"
  /\ refs' = [refs EXCEPT ![RefOf(p)] = imp[p].man]
  /\ Imported(p)
  /\ UNCHANGED <<eco, latest, cache, made, begun>>

\* The process dies, or an I/O error ends the command, wherever it is.
Die(p) ==
  /\ p \in Faulty
  /\ imp[p].step # "idle"
  /\ Fail(p)
  /\ UNCHANGED <<eco, latest, cache, made, refs, begun>>

-----------------------------------------------------------------------------
Proceed(p) ==
  \/ NextName(p) \/ Pop(p) \/ CacheGet(p) \/ Fetch(p) \/ CacheOpen(p) \/ CacheWrite(p)
  \/ Pack(p) \/ PutRefCheck(p) \/ PutRefCommit(p)

ImportNext ==
  \/ \E q \in Package : Publish(q)
  \/ \E p \in Importing : (\E k \in Commands, d \in Day : Begin(p, k, d)) \/ Proceed(p) \/ Die(p)

\* A command that runs goes on; upstream answers, if only with an error.
ImportSpec == ImportInit /\ [][ImportNext]_ivars /\ \A p \in Importing : WF_ivars(Proceed(p))

-----------------------------------------------------------------------------
(***************************************************************************)
(* Properties.                                                             *)
(***************************************************************************)

\* The dependencies in m are those of the release t of what m packages.
ListsDepsOf(m, t) ==
  \E q \in Package :
    /\ EluName[q] = m.name /\ t \in Published(q)
    /\ Len(m.deps) = Len(DependsOn[<<q, t>>])
    /\ \A i \in 1..Len(m.deps) : m.deps[i].name = EluName[DependsOn[<<q, t>>][i]]

\* A closure import that succeeds has imported exactly what its package needs:
\* every dependency that its manifests list is imported too unless it could not
\* be had, however the packages depend on one another, and nothing else is; and
\* a manifest lists the dependencies of the release it packages.  The exception
\* is pip: those of the release that was the latest when it was looked up, and
\* not of the older one that was imported.
ClosureExact ==
  \A p \in Importing : imp[p].ok /\ imp[p].closure =>
    LET got      == {n \in Name : imp[p].imported[n] # 0}
        top      == EluName[imp[p].root]
        man(n)   == made[imp[p].imported[n]]
        needs(n) == {man(n).deps[i].name : i \in 1..Len(man(n).deps)}
    IN  /\ top \in got
        /\ \A n \in got : needs(n) \subseteq got \cup {EluName[q] : q \in imp[p].missed}
        /\ \A s \in SUBSET got :
             top \in s /\ (\A n \in s : needs(n) \cap got \subseteq s) => s = got
        /\ \A n \in got : \/ ListsDepsOf(man(n), man(n).tag)
                          \/ eco = "pip" /\ \E t \in Tag : ListsDepsOf(man(n), t)

\* What a ref lists under a name and a version is what upstream published under
\* them, even when it came from a cache that other commands write in place and
\* may leave torn.
ImportedIsPublished ==
  \A r \in Name \X Tag : refs[r] # 0 =>
    LET m == made[refs[r]]
    IN  /\ \E q \in Package : EluName[q] = r[1] /\ m.layer.of \in {q} \X Published(q)
        /\ m.name = r[1]
        /\ VersionOf(m.layer.of[2]) = r[2]
        /\ m.layer.of[2] = m.tag

\* Every import ends, although packages depend on each other in circles and
\* what was left out is asked for again whenever it is met.
EveryImportEnds == \A p \in Importing : imp[p].step # "idle" ~> imp[p].step = "idle"
=============================================================================
