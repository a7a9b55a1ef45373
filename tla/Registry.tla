------------------------------ MODULE Registry ------------------------------
(***************************************************************************)
(* The publish protocol of crates/elu-registry: clients (client/publish.rs)*)
(* post begin, put the blobs they are asked for, and post commit; the      *)
(* server's handlers (server/publish.rs) run concurrently over one SQLite  *)
(* connection behind a mutex (db/sqlite.rs) and a blob backend             *)
(* (blob_store.rs).  A step of a handler is what it does under one hold of *)
(* the mutex, or one round of questions to the backend.                    *)
(*                                                                         *)
(* A blob is its hash: the backend refuses bytes that hash to another name,*)
(* and a manifest's own blob has the manifest's hash.                      *)
(***************************************************************************)
EXTENDS Naturals, FiniteSets

CONSTANTS
  Client,       \* publishing processes
  Handler,      \* requests the server can be handling at once
  Package,      \* <namespace, name> pairs
  Version,      \* <namespace, name, version> triples
  Manifest,     \* manifest hashes
  Layer,        \* layer blob hashes
  PkgOf,        \* Version -> Package
  LayersOf,     \* Manifest -> SUBSET Layer
  DepsOf,       \* Manifest -> SUBSET Package
  Private,      \* the manifests published with private visibility
  Built,        \* Client -> [Version -> SUBSET Manifest]: what the ref in the
                \* client's own store may hold when it publishes a version
  DbFaults,     \* whether an SQL statement may fail halfway through a commit
  MaxSessions,  \* bound on the sessions ever opened, for model checking
  None          \* no row, no request

ASSUME RegistryAssumption ==
  /\ PkgOf \in [Version -> Package]
  /\ LayersOf \in [Manifest -> SUBSET Layer]
  /\ DepsOf \in [Manifest -> SUBSET Package]
  /\ Private \subseteq Manifest
  /\ Built \in [Client -> [Version -> SUBSET Manifest]]
  /\ DbFaults \in BOOLEAN
  /\ MaxSessions \in Nat
  /\ None \notin Manifest \cup Version \cup Handler
  /\ Manifest \cap Layer = {}

VARIABLES
  sessions,  \* rows of publish_sessions
  opened,    \* how many were ever inserted: the rowid of the last
  versions,  \* rows of package_versions: a manifest hash or None
  stamp,     \* published_at of a version: when its session was opened
  rows,      \* rows of the layers table, per version
  blobs,     \* what the backend holds
  at,        \* where each handler is
  req,       \* the request it handles: the version, the manifest of a begin
  found,     \* the session a commit handler found
  pc,        \* what each client is doing
  goal,      \* the version and manifest it publishes
  todo,      \* the blobs it still has to upload
  job,       \* the handler it waits for
  acked,     \* history: the publishes that returned Ok to their caller, with
             \* the manifest of the record returned
  lost       \* history: a client gave up, or the database failed

db      == <<sessions, opened, versions, stamp, rows>>
server  == <<at, req, found>>
client  == <<pc, goal, todo, job>>
history == <<acked, lost>>
vars == <<sessions, opened, versions, stamp, rows, blobs, at, req, found,
          pc, goal, todo, job, acked, lost>>

Blobs == Manifest \cup Layer
Session == [id : Nat, ver : Version, man : Manifest]
Begins == {"check", "open", "slots"}
Commits == {"find", "verify", "commit"}
Busy == Begins \cup Commits

RegistryTypeOK ==
  /\ sessions \subseteq Session
  /\ opened \in Nat
  /\ versions \in [Version -> {None} \cup Manifest]
  /\ stamp \in [Version -> Nat]
  /\ rows \in [Version -> SUBSET Layer]
  /\ blobs \subseteq Blobs
  /\ at \in [Handler -> {"idle"} \cup Busy]
  /\ req \in [Handler -> [ver : {None} \cup Version, man : {None} \cup Manifest]]
  /\ found \in [Handler -> {None} \cup Session]
  /\ pc \in [Client -> {"idle", "begin", "upload", "commit"}]
  /\ goal \in [Client -> [ver : {None} \cup Version, man : {None} \cup Manifest]]
  /\ todo \in [Client -> SUBSET Blobs]
  /\ job \in [Client -> {None} \cup Handler]
  /\ acked \subseteq [by : Client, ver : Version, man : Manifest, rec : Manifest]
  /\ lost \in BOOLEAN

NoReq == [ver |-> None, man |-> None]

RegistryInit ==
  /\ sessions = {}
  /\ opened = 0
  /\ versions = [v \in Version |-> None]
  /\ stamp = [v \in Version |-> 0]
  /\ rows = [v \in Version |-> {}]
  /\ blobs = {}
  /\ at = [h \in Handler |-> "idle"]
  /\ req = [h \in Handler |-> NoReq]
  /\ found = [h \in Handler |-> None]
  /\ pc = [c \in Client |-> "idle"]
  /\ goal = [c \in Client |-> NoReq]
  /\ todo = [c \in Client |-> {}]
  /\ job = [c \in Client |-> None]
  /\ acked = {}
  /\ lost = FALSE

(***************************************************************************)
(* The client.  publish_package reads its store's ref and manifest, posts  *)
(* begin, uploads what it is asked for and posts commit.  It waits for     *)
(* each answer, without a timeout; any error answer ends the publish.      *)
(***************************************************************************)
Post(c, h, where, r) ==
  /\ at[h] = "idle"
  /\ at' = [at EXCEPT ![h] = where]
  /\ req' = [req EXCEPT ![h] = r]
  /\ job' = [job EXCEPT ![c] = h]
  /\ UNCHANGED <<db, blobs, found, todo, history>>

PostBegin(c, h, v, m) ==
  /\ pc[c] = "idle"
  /\ m \in Built[c][v]
  /\ opened + Cardinality({g \in Handler : at[g] \in {"check", "open"}}) < MaxSessions
  /\ pc' = [pc EXCEPT ![c] = "begin"]
  /\ goal' = [goal EXCEPT ![c] = [ver |-> v, man |-> m]]
  /\ Post(c, h, "check", [ver |-> v, man |-> m])

Upload(c, b) ==
  /\ pc[c] = "upload"
  /\ b \in todo[c]
  /\ blobs' = blobs \cup {b}
  /\ todo' = [todo EXCEPT ![c] = @ \ {b}]
  /\ UNCHANGED <<db, server, pc, goal, job, history>>

PostCommit(c, h) ==
  /\ pc[c] = "upload"
  /\ todo[c] = {}
  /\ pc' = [pc EXCEPT ![c] = "commit"]
  /\ UNCHANGED goal
  /\ Post(c, h, "find", [ver |-> goal[c].ver, man |-> None])

Idle(c) ==
  /\ pc' = [pc EXCEPT ![c] = "idle"]
  /\ goal' = [goal EXCEPT ![c] = NoReq]
  /\ todo' = [todo EXCEPT ![c] = {}]
  /\ job' = [job EXCEPT ![c] = None]

\* The client dies, loses its connection, or misses a blob that its own store
\* has collected meanwhile.  A handler that runs for it runs on: there is no
\* await after the request has been read.
GiveUp(c) ==
  /\ pc[c] # "idle"
  /\ Idle(c)
  /\ lost' = TRUE
  /\ UNCHANGED <<db, blobs, server, acked>>

(***************************************************************************)
(* A handler's answer.  Refuse is any of the error statuses.               *)
(***************************************************************************)
Waits(c, h) == job[c] = h

Rest(h) ==
  /\ at' = [at EXCEPT ![h] = "idle"]
  /\ req' = [req EXCEPT ![h] = NoReq]
  /\ found' = [found EXCEPT ![h] = None]

Refuse(h) ==
  /\ Rest(h)
  /\ IF \E c \in Client : Waits(c, h)
       THEN \E c \in Client : Waits(c, h) /\ Idle(c)
       ELSE UNCHANGED client

Go(h, where) == at' = [at EXCEPT ![h] = where] /\ UNCHANGED <<req, client>>

(***************************************************************************)
(* begin_publish.  A public manifest may not depend on a package whose     *)
(* newest version is private; the session is opened by another hold of the *)
(* mutex, which looks whether the version exists.                          *)
(***************************************************************************)
Newest(k) ==
  {v \in Version : /\ PkgOf[v] = k /\ versions[v] # None
                   /\ \A w \in Version : PkgOf[w] = k => stamp[w] <= stamp[v]}

BeginCheck(h) ==
  /\ at[h] = "check"
  /\ IF /\ req[h].man \notin Private
        /\ \E k \in DepsOf[req[h].man] : \E v \in Newest(k) : versions[v] \in Private
       THEN Refuse(h)
       ELSE Go(h, "open") /\ UNCHANGED found
  /\ UNCHANGED <<db, blobs, history>>

BeginOpen(h) ==
  /\ at[h] = "open"
  /\ IF versions[req[h].ver] # None
       THEN Refuse(h) /\ UNCHANGED <<sessions, opened>>
       ELSE /\ opened' = opened + 1
            /\ sessions' = sessions \cup {[id |-> opened + 1, ver |-> req[h].ver, man |-> req[h].man]}
            /\ Go(h, "slots")
            /\ UNCHANGED found
  /\ UNCHANGED <<versions, stamp, rows, blobs, history>>

Needed(m) == {m} \cup LayersOf[m]

FirstSlotOnly(h) ==   \* mutant: an upload slot for one missing blob only
  /\ at[h] = "slots"
  /\ Rest(h)
  /\ \/ \E c \in Client :
          /\ Waits(c, h)
          /\ pc' = [pc EXCEPT ![c] = "upload"]
          /\ todo' = [todo EXCEPT ![c] = LET missing == Needed(req[h].man) \ blobs
                                         IN  IF missing = {} THEN {}
                                             ELSE {CHOOSE b \in missing : TRUE}]
          /\ job' = [job EXCEPT ![c] = None]
          /\ UNCHANGED goal
     \/ ~(\E c \in Client : Waits(c, h)) /\ UNCHANGED client
  /\ UNCHANGED <<db, blobs, history>>

BeginSlots(h) ==
  /\ at[h] = "slots"
  /\ Rest(h)
  /\ \/ \E c \in Client :
          /\ Waits(c, h)
          /\ pc' = [pc EXCEPT ![c] = "upload"]
          /\ todo' = [todo EXCEPT ![c] = Needed(req[h].man) \ blobs]
          /\ job' = [job EXCEPT ![c] = None]
          /\ UNCHANGED goal
     \/ ~(\E c \in Client : Waits(c, h)) /\ UNCHANGED client
  /\ UNCHANGED <<db, blobs, history>>

(***************************************************************************)
(* commit_publish.  The request names a version only: the session is the   *)
(* first row found for it, the one with the smallest rowid.  Its layers    *)
(* are looked up in the backend without the mutex.  commit_version, under  *)
(* one hold of the mutex but outside a transaction, reads the session      *)
(* again, checks that the version is free, inserts the version and layer   *)
(* rows and deletes the session.                                           *)
(***************************************************************************)
CommitFind(h) ==
  /\ at[h] = "find"
  /\ IF \E s \in sessions : s.ver = req[h].ver
       THEN /\ \E s \in sessions :
                 /\ s.ver = req[h].ver
                 /\ \A t \in sessions : t.ver = s.ver => s.id <= t.id
                 /\ found' = [found EXCEPT ![h] = s]
            /\ Go(h, "verify")
       ELSE Refuse(h)
  /\ UNCHANGED <<db, blobs, history>>

VerifyNothing(h) ==   \* mutant: blobs not looked up
  /\ at[h] = "verify"
  /\ Go(h, "commit") /\ UNCHANGED found
  /\ UNCHANGED <<db, blobs, history>>

CommitVerify(h) ==
  /\ at[h] = "verify"
  /\ IF LayersOf[found[h].man] \subseteq blobs
       THEN Go(h, "commit") /\ UNCHANGED found
       ELSE Refuse(h)
  /\ UNCHANGED <<db, blobs, history>>

Free(s) == s \in sessions /\ versions[s.ver] = None

PublishSwapped(s) ==   \* mutant: two columns of the INSERT exchanged
  /\ versions' = [versions EXCEPT ![s.ver] = s.id]
  /\ stamp' = [stamp EXCEPT ![s.ver] = s.man]

Publish(s) ==
  /\ versions' = [versions EXCEPT ![s.ver] = s.man]
  /\ stamp' = [stamp EXCEPT ![s.ver] = s.id]

Accept(h, s) ==
  /\ IF \E c \in Client : Waits(c, h)
       THEN \E c \in Client :
              /\ Waits(c, h)
              /\ Idle(c)
              /\ acked' = acked \cup
                   {[by |-> c, ver |-> goal[c].ver, man |-> goal[c].man, rec |-> s.man]}
       ELSE UNCHANGED <<client, acked>>
  /\ Rest(h)

CommitReplacing(h) ==   \* mutant: the version is not looked up again
  /\ at[h] = "commit"
  /\ IF found[h] \in sessions
       THEN /\ Publish(found[h])
            /\ rows' = [rows EXCEPT ![found[h].ver] = LayersOf[found[h].man]]
            /\ sessions' = sessions \ {found[h]}
            /\ Accept(h, found[h])
       ELSE Refuse(h) /\ UNCHANGED <<sessions, versions, stamp, rows, acked>>
  /\ UNCHANGED <<opened, blobs, lost>>

CommitSessionless(h) ==   \* mutant: a session that is gone counts as committed
  /\ at[h] = "commit"
  /\ IF Free(found[h])
       THEN /\ Publish(found[h])
            /\ rows' = [rows EXCEPT ![found[h].ver] = LayersOf[found[h].man]]
            /\ sessions' = sessions \ {found[h]}
            /\ Accept(h, found[h])
       ELSE /\ Accept(h, found[h])
            /\ UNCHANGED <<sessions, versions, stamp, rows>>
  /\ UNCHANGED <<opened, blobs, lost>>

CommitVersion(h) ==
  /\ at[h] = "commit"
  /\ IF Free(found[h])
       THEN /\ Publish(found[h])
            /\ rows' = [rows EXCEPT ![found[h].ver] = LayersOf[found[h].man]]
            /\ sessions' = sessions \ {found[h]}
            /\ Accept(h, found[h])
       ELSE Refuse(h) /\ UNCHANGED <<sessions, versions, stamp, rows, acked>>
  /\ UNCHANGED <<opened, blobs, lost>>

\* A statement after the insertion of the version row fails: the rows inserted
\* so far stay, and so does the session.
CommitHalfway(h) ==
  /\ DbFaults
  /\ at[h] = "commit"
  /\ Free(found[h])
  /\ Publish(found[h])
  /\ \E done \in SUBSET LayersOf[found[h].man] : rows' = [rows EXCEPT ![found[h].ver] = done]
  /\ Refuse(h)
  /\ lost' = TRUE
  /\ UNCHANGED <<sessions, opened, blobs, acked>>

(***************************************************************************)
(* The specification.  The server finishes what it handles, a client that  *)
(* publishes goes on, and a request is taken up when a handler keeps       *)
(* coming free.                                                            *)
(***************************************************************************)
Handle(h) ==
  \/ BeginCheck(h) \/ BeginOpen(h) \/ BeginSlots(h)
  \/ CommitFind(h) \/ CommitVerify(h) \/ CommitVersion(h)

RegistryNext ==
  \/ \E c \in Client, h \in Handler :
       \/ \E v \in Version, m \in Manifest : PostBegin(c, h, v, m)
       \/ PostCommit(c, h)
  \/ \E c \in Client : GiveUp(c) \/ \E b \in Blobs : Upload(c, b)
  \/ \E h \in Handler : Handle(h) \/ CommitHalfway(h)

RegistryFairness ==
  /\ \A h \in Handler : WF_vars(Handle(h))
  /\ \A c \in Client :
       /\ WF_vars(\E b \in Blobs : Upload(c, b))
       /\ SF_vars(\E h \in Handler : PostCommit(c, h))

RegistrySpec == RegistryInit /\ [][RegistryNext]_vars /\ RegistryFairness

-----------------------------------------------------------------------------
(***************************************************************************)
(* Properties.                                                             *)
(***************************************************************************)

\* Versions are immutable once committed: however many sessions of a version
\* are open and however their commits interleave, the row a version got and the
\* layer rows that came with it never change.
VersionsImmutable ==
  [][\A v \in Version : versions[v] # None =>
       versions'[v] = versions[v] /\ rows'[v] = rows[v]]_vars

\* A version that is visible lists only layers that the backend holds, although
\* the backend is asked before, and outside, the mutex that publishes it.
ListedLayersPresent == \A v \in Version : rows[v] \subseteq blobs

\* Who is told that a version was published can rely on it: the version is
\* there with the manifest of the record returned and all of its layers, and
\* nobody else was told that it published this version.
AckedPublished ==
  /\ \A x \in acked : versions[x.ver] = x.rec /\ rows[x.ver] = LayersOf[x.rec]
  /\ \A x, y \in acked : x.ver = y.ver => x = y

\* Sessions, uploads and handlers that interleave amount to an index in which
\* every publish is one step: a version is settled once, with its layers there,
\* by one publisher at most.
Index == INSTANCE VersionIndex WITH
           published <- versions, listed <- rows, held <- blobs, told <- acked

ImplementsIndex == Index!IndexSpec

\* Publishers of one version cannot block each other: unless a client is lost
\* or the database fails, a version for which a session is open gets published.
OpenedGetsPublished ==
  [](~lost) => \A v \in Version : (\E s \in sessions : s.ver = v) ~> (versions[v] # None)

\* What publish returns is the package it was asked to publish, the one its
\* store holds under this version.
PublishedIsRequested == \A x \in acked : x.rec = x.man

\* A version is either entirely published or entirely absent: once it is
\* visible, its manifest and all its layers can be fetched.
EntirelyPublished ==
  \A v \in Version : versions[v] # None =>
    rows[v] = LayersOf[versions[v]] /\ Needed(versions[v]) \subseteq blobs
=============================================================================
