---------------------------- MODULE VersionIndex ----------------------------
(***************************************************************************)
(* What the registry promises its clients (docs/prd/registry.md): an index *)
(* of versions in which a publish is one step.  The step needs the blobs   *)
(* to be there, settles the version for good, and tells at most one client *)
(* that it was the one who published it.  Module Registry implements this  *)
(* index with sessions, uploads, and handlers that run concurrently.       *)
(***************************************************************************)
CONSTANTS
  Client,     \* who publishes
  Version,    \* <namespace, name, version> triples
  Manifest,   \* manifest hashes
  Layer,      \* layer blob hashes
  LayersOf,   \* Manifest -> SUBSET Layer
  DbFaults,   \* whether the database may fail in the middle of a publish
  None        \* not published

VARIABLES
  published,  \* the manifest of each version, or None
  listed,     \* the layers listed for it
  held,       \* the blobs that can be fetched
  told        \* who was told that it published which version

xvars == <<published, listed, held, told>>

IndexInit ==
  /\ published = [v \in Version |-> None]
  /\ listed = [v \in Version |-> {}]
  /\ held = {}
  /\ told = {}

Hold(b) ==
  /\ held' = held \cup {b}
  /\ UNCHANGED <<published, listed, told>>

Settle(v, m, layers) ==
  /\ published[v] = None
  /\ LayersOf[m] \subseteq held
  /\ published' = [published EXCEPT ![v] = m]
  /\ listed' = [listed EXCEPT ![v] = layers]
  /\ UNCHANGED held

Tell(v, m) ==
  \E c \in Client, wanted \in Manifest :
    told' = told \cup {[by |-> c, ver |-> v, man |-> wanted, rec |-> m]}

PublishVersion(v, m) ==
  /\ Settle(v, m, LayersOf[m])
  /\ Tell(v, m) \/ UNCHANGED told

\* The database fails: some of the layers are listed, and nobody is told.
PublishHalfway(v, m) ==
  /\ DbFaults
  /\ \E some \in SUBSET LayersOf[m] : Settle(v, m, some)
  /\ UNCHANGED told

IndexNext ==
  \/ \E b \in Manifest \cup Layer : Hold(b)
  \/ \E v \in Version, m \in Manifest : PublishVersion(v, m) \/ PublishHalfway(v, m)

IndexSpec == IndexInit /\ [][IndexNext]_xvars
=============================================================================
