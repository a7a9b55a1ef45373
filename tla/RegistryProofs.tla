--------------------------- MODULE RegistryProofs ---------------------------
(***************************************************************************)
(* Proofs about module Registry, for any clients, any number of requests   *)
(* handled at once, and any packages, versions and manifests.              *)
(***************************************************************************)
EXTENDS Registry, TLAPS

(***************************************************************************)
(* The type invariant, strengthened: a handler at work has its request and *)
(* a session of the version asked for; a client waits for one handler,     *)
(* nobody else does, and that handler works on the client's version.       *)
(***************************************************************************)
HandlerInv ==
  \A h \in Handler :
    /\ at[h] \in Busy => req[h].ver \in Version
    /\ at[h] \in Begins => req[h].man \in Manifest
    /\ at[h] \in {"verify", "commit"} => found[h] \in Session /\ found[h].ver = req[h].ver

ClientInv ==
  \A c \in Client :
    /\ pc[c] # "idle" => goal[c] \in [ver : Version, man : Manifest]
    /\ job[c] # None => /\ pc[c] \in {"begin", "commit"}
                        /\ at[job[c]] \in Busy
                        /\ req[job[c]].ver = goal[c].ver
    /\ \A d \in Client : job[c] # None /\ job[d] = job[c] => d = c

RegistryInv == RegistryTypeOK /\ HandlerInv /\ ClientInv

LEMMA InitRegistry == RegistryInit => RegistryInv
<1> SUFFICES ASSUME RegistryInit PROVE RegistryInv
  OBVIOUS
<1> USE DEF RegistryInit
<1>1. RegistryTypeOK
  BY DEF RegistryTypeOK, NoReq
<1>2. HandlerInv
  BY DEF HandlerInv, Busy, Begins, Commits
<1>3. ClientInv
  BY DEF ClientInv
<1> QED
  BY <1>1, <1>2, <1>3 DEF RegistryInv

(***************************************************************************)
(* What the server and the clients keep, apart from the database.          *)
(***************************************************************************)
ServerType ==
  /\ at \in [Handler -> {"idle"} \cup Busy]
  /\ req \in [Handler -> [ver : {None} \cup Version, man : {None} \cup Manifest]]
  /\ found \in [Handler -> {None} \cup Session]

ClientType ==
  /\ pc \in [Client -> {"idle", "begin", "upload", "commit"}]
  /\ goal \in [Client -> [ver : {None} \cup Version, man : {None} \cup Manifest]]
  /\ todo \in [Client -> SUBSET Blobs]
  /\ job \in [Client -> {None} \cup Handler]

DbType ==
  /\ sessions \subseteq Session
  /\ opened \in Nat
  /\ versions \in [Version -> {None} \cup Manifest]
  /\ stamp \in [Version -> Nat]
  /\ rows \in [Version -> SUBSET Layer]
  /\ blobs \subseteq Blobs

AckedType == acked \subseteq [by : Client, ver : Version, man : Manifest, rec : Manifest]

LEMMA TypeParts ==
  RegistryTypeOK <=> ServerType /\ ClientType /\ DbType /\ AckedType /\ lost \in BOOLEAN
  BY DEF RegistryTypeOK, ServerType, ClientType, DbType, AckedType

\* The clients and the handlers agree on who waits for whom, and for what.
Calm == ServerType /\ ClientType /\ HandlerInv /\ ClientInv

\* A client stops waiting and starts over.
LEMMA IdleCalm ==
  ASSUME Calm, NEW c \in Client, Idle(c), UNCHANGED server
  PROVE  Calm'
<1> USE DEF Calm
<1>1. ServerType' /\ HandlerInv'
  BY DEF server, ServerType, HandlerInv
<1>2. ClientType'
  BY DEF Idle, ClientType, NoReq
<1>3. ClientInv'
  BY RegistryAssumption DEF Idle, ClientType, ClientInv, server
<1> QED
  BY <1>1, <1>2, <1>3

\* A handler finishes, and the client that waits for it, if any, goes to "idle"
\* or on to its uploads.
Served(h) ==
  \/ (\A c \in Client : ~Waits(c, h)) /\ UNCHANGED client
  \/ \E c \in Client :
       /\ Waits(c, h)
       /\ job' = [job EXCEPT ![c] = None]
       /\ \A d \in Client \ {c} : pc'[d] = pc[d] /\ goal'[d] = goal[d]
       /\ pc'[c] = "idle" \/ (goal'[c] = goal[c] /\ pc[c] # "idle")

LEMMA RestCalm ==
  ASSUME Calm, NEW h \in Handler, Rest(h), ClientType', Served(h)
  PROVE  Calm'
<1> USE DEF Calm
<1>1. ServerType'
  BY DEF Rest, ServerType, NoReq
<1>2. HandlerInv'
  BY DEF Rest, ServerType, HandlerInv, Busy, Begins, Commits
<1>3. \A d \in Client : /\ pc'[d] # "idle" => goal'[d] \in [ver : Version, man : Manifest]
                        /\ job'[d] # None => /\ job'[d] = job[d] /\ job[d] # h
                                             /\ pc'[d] = pc[d] /\ goal'[d] = goal[d]
  BY RegistryAssumption DEF Served, client, Waits, ClientType, ClientInv
<1>4. \A g \in Handler \ {h} : at'[g] = at[g] /\ req'[g] = req[g]
  BY DEF Rest, ServerType
<1>5. ClientInv'
  BY <1>3, <1>4 DEF ClientInv, ClientType
<1> QED
  BY <1>1, <1>2, <1>5

LEMMA IdleServed ==
  ASSUME ClientType, NEW h \in Handler,
         IF \E c \in Client : Waits(c, h)
           THEN \E c \in Client : Waits(c, h) /\ Idle(c)
           ELSE UNCHANGED client
  PROVE  ClientType' /\ Served(h)
<1>1. CASE \E c \in Client : Waits(c, h)
  <2>1. PICK c \in Client : Waits(c, h) /\ Idle(c)
    BY <1>1
  <2>2. ClientType'
    BY <2>1 DEF Idle, ClientType, NoReq
  <2>3. /\ job' = [job EXCEPT ![c] = None]
        /\ \A d \in Client \ {c} : pc'[d] = pc[d] /\ goal'[d] = goal[d]
        /\ pc'[c] = "idle"
    BY <2>1 DEF Idle, ClientType
  <2> QED
    BY <2>1, <2>2, <2>3 DEF Served
<1>2. CASE \A c \in Client : ~Waits(c, h)
  BY <1>2 DEF Served, ClientType, client
<1> QED
  BY <1>1, <1>2

LEMMA RefuseCalm ==
  ASSUME Calm, NEW h \in Handler, Refuse(h)
  PROVE  Calm'
  BY RestCalm, IdleServed DEF Refuse, Calm

\* A handler moves on to its next step.
LEMMA GoCalm ==
  ASSUME Calm, NEW h \in Handler, NEW l \in Busy, Go(h, l), ServerType', req[h].ver \in Version,
         l \in Begins => req[h].man \in Manifest,
         l \in {"verify", "commit"} => found'[h] \in Session /\ found'[h].ver = req[h].ver,
         \A g \in Handler \ {h} : found'[g] = found[g]
  PROVE  Calm'
<1> USE DEF Calm
<1>1. ClientType' /\ UNCHANGED <<req, client>> /\ at' = [at EXCEPT ![h] = l]
  BY DEF Go, client, ClientType
<1>2. HandlerInv'
  BY <1>1 DEF ServerType, HandlerInv
<1>3. ClientInv'
  BY <1>1 DEF ServerType, ClientType, ClientInv, client
<1> QED
  BY <1>1, <1>2, <1>3

(***************************************************************************)
(* The steps of the clients.                                               *)
(***************************************************************************)
LEMMA PostCalm ==
  ASSUME Calm, NEW c \in Client, NEW h \in Handler, NEW l \in {"begin", "commit"},
         NEW w \in Busy, NEW r \in [ver : Version, man : {None} \cup Manifest],
         w \in Begins => r.man \in Manifest, w \notin {"verify", "commit"},
         pc[c] \in {"idle", "upload"}, pc' = [pc EXCEPT ![c] = l],
         goal' \in [Client -> [ver : {None} \cup Version, man : {None} \cup Manifest]],
         goal'[c] \in [ver : Version, man : Manifest], goal'[c].ver = r.ver,
         \A d \in Client \ {c} : goal'[d] = goal[d],
         Post(c, h, w, r)
  PROVE  Calm'
<1> USE DEF Calm
<1>1. ServerType'
  BY DEF Post, ServerType
<1>2. ClientType'
  BY DEF Post, ClientType
<1>3. HandlerInv'
  <2>1. \A g \in Handler \ {h} : at'[g] = at[g] /\ req'[g] = req[g] /\ found'[g] = found[g]
    BY DEF Post, ServerType
  <2>2. at'[h] = w /\ req'[h] = r
    BY DEF Post, ServerType
  <2> QED
    BY <2>1, <2>2 DEF HandlerInv
<1>4. \A d \in Client : job[d] # h
  <2>1. at[h] = "idle" /\ h # None
    BY RegistryAssumption DEF Post
  <2>2. "idle" \notin Busy
    BY DEF Busy, Begins, Commits
  <2> QED
    BY <2>1, <2>2 DEF ClientInv
<1>5. \A d \in Client \ {c} : /\ pc'[d] = pc[d] /\ job'[d] = job[d]
                              /\ job[d] # None => at'[job[d]] = at[job[d]]
                                                  /\ req'[job[d]] = req[job[d]]
  BY <1>4 DEF Post, ServerType, ClientType
<1>6. pc'[c] = l /\ job'[c] = h /\ at'[h] = w /\ req'[h] = r
  BY DEF Post, ServerType, ClientType
<1>7. ClientInv'
  BY <1>4, <1>5, <1>6 DEF ClientInv
<1> QED
  BY <1>1, <1>2, <1>3, <1>7

LEMMA ClientCalm ==
  ASSUME Calm, NEW c \in Client,
         \/ \E h \in Handler, v \in Version, m \in Manifest : PostBegin(c, h, v, m)
         \/ \E h \in Handler : PostCommit(c, h)
         \/ GiveUp(c) \/ \E b \in Blobs : Upload(c, b)
  PROVE  Calm'
<1> USE DEF Calm
<1>1. ASSUME NEW h \in Handler, NEW v \in Version, NEW m \in Manifest, PostBegin(c, h, v, m)
      PROVE  Calm'
  <2>1. "check" \in Begins /\ Begins \subseteq Busy
    BY DEF Busy, Begins
  <2>2. /\ goal' \in [Client -> [ver : {None} \cup Version, man : {None} \cup Manifest]]
        /\ goal'[c] = [ver |-> v, man |-> m]
        /\ \A d \in Client \ {c} : goal'[d] = goal[d]
    BY <1>1 DEF PostBegin, ClientType
  <2> QED
    BY <1>1, <2>1, <2>2, PostCalm DEF PostBegin
<1>2. ASSUME NEW h \in Handler, PostCommit(c, h) PROVE Calm'
  <2>1. "find" \in Busy /\ "find" \notin Begins
    BY DEF Busy, Begins, Commits
  <2>2. goal[c] \in [ver : Version, man : Manifest] /\ pc[c] = "upload" /\ goal' = goal
    BY <1>2 DEF PostCommit, ClientInv
  <2>3. [ver |-> goal[c].ver, man |-> None] \in [ver : Version, man : {None} \cup Manifest]
    BY <2>2
  <2>4. Post(c, h, "find", [ver |-> goal[c].ver, man |-> None]) /\ pc' = [pc EXCEPT ![c] = "commit"]
    BY <1>2 DEF PostCommit
  <2>5. goal' \in [Client -> [ver : {None} \cup Version, man : {None} \cup Manifest]]
    BY <2>2 DEF ClientType
  <2> HIDE DEF Calm
  <2> QED
    BY <2>1, <2>2, <2>3, <2>4, <2>5, PostCalm
<1>3. CASE GiveUp(c)
  BY <1>3, IdleCalm DEF GiveUp
<1>4. ASSUME NEW b \in Blobs, Upload(c, b) PROVE Calm'
  <2>1. ClientType'
    BY <1>4 DEF Upload, ClientType
  <2> QED
    BY <1>4, <2>1 DEF Upload, server, ServerType, HandlerInv, ClientType, ClientInv
<1> QED
  BY <1>1, <1>2, <1>3, <1>4

(***************************************************************************)
(* The steps of the handlers.                                              *)
(***************************************************************************)
LEMMA AcceptCalm ==
  ASSUME Calm, NEW h \in Handler, NEW s, Accept(h, s)
  PROVE  Calm'
<1>1. IF \E c \in Client : Waits(c, h)
        THEN \E c \in Client : Waits(c, h) /\ Idle(c)
        ELSE UNCHANGED client
  BY DEF Accept
<1> QED
  BY <1>1, RestCalm, IdleServed DEF Accept, Calm

LEMMA BeginCalm ==
  ASSUME Calm, NEW h \in Handler, BeginCheck(h) \/ BeginOpen(h) \/ BeginSlots(h)
  PROVE  Calm'
<1>1. at[h] \in Begins /\ req[h].ver \in Version /\ req[h].man \in Manifest
  BY DEF BeginCheck, BeginOpen, BeginSlots, Calm, HandlerInv, Busy, Begins
<1>2. ASSUME NEW l \in {"open", "slots"}, Go(h, l), UNCHANGED found PROVE Calm'
  <2>1. l \in Busy /\ l \in Begins /\ l \notin {"verify", "commit"}
    BY <1>2 DEF Busy, Begins
  <2>2. ServerType'
    BY <1>2, <2>1 DEF Go, Calm, ServerType
  <2> QED
    BY <1>1, <1>2, <2>1, <2>2, GoCalm
<1>3. CASE BeginCheck(h)
  BY <1>2, <1>3, RefuseCalm DEF BeginCheck
<1>4. CASE BeginOpen(h)
  BY <1>2, <1>4, RefuseCalm DEF BeginOpen
<1>5. CASE BeginSlots(h)
  <2>1. CASE \A c \in Client : ~Waits(c, h)
    BY <1>5, <2>1, RestCalm DEF BeginSlots, Served, Calm, ClientType, client
  <2>2. CASE \E c \in Client : Waits(c, h)
    <3>1. PICK c \in Client :
            /\ Waits(c, h)
            /\ pc' = [pc EXCEPT ![c] = "upload"]
            /\ todo' = [todo EXCEPT ![c] = Needed(req[h].man) \ blobs]
            /\ job' = [job EXCEPT ![c] = None]
            /\ UNCHANGED goal
      BY <1>5, <2>2 DEF BeginSlots
    <3>2. Needed(req[h].man) \subseteq Blobs
      BY <1>1, RegistryAssumption DEF Needed, Blobs
    <3>3. ClientType'
      BY <3>1, <3>2 DEF Calm, ClientType
    <3>4. pc[c] # "idle"
      BY <3>1, RegistryAssumption DEF Waits, Calm, ClientInv
    <3>5. Served(h)
      BY <3>1, <3>4 DEF Served, Calm, ClientType
    <3> QED
      BY <1>5, <3>3, <3>5, RestCalm DEF BeginSlots
  <2> QED
    BY <2>1, <2>2
<1> QED
  BY <1>3, <1>4, <1>5

LEMMA CommitCalm ==
  ASSUME Calm, sessions \subseteq Session, NEW h \in Handler,
         CommitFind(h) \/ CommitVerify(h) \/ CommitVersion(h) \/ CommitHalfway(h)
  PROVE  Calm'
<1>1. at[h] \in Commits /\ req[h].ver \in Version
  BY DEF CommitFind, CommitVerify, CommitVersion, CommitHalfway, Calm, HandlerInv, Busy, Commits
<1>2. {"verify", "commit"} \subseteq Busy /\ {"verify", "commit"} \cap Begins = {}
  BY DEF Busy, Begins, Commits
<1>3. CASE CommitFind(h)
  <2>1. CASE Refuse(h)
    BY <2>1, RefuseCalm
  <2>2. CASE ~Refuse(h)
    <3>1. PICK s \in sessions : s.ver = req[h].ver /\ found' = [found EXCEPT ![h] = s]
      BY <1>3, <2>2 DEF CommitFind
    <3>2. s \in Session /\ Go(h, "verify")
      BY <1>3, <2>2 DEF CommitFind
    <3>3. ServerType'
      BY <1>2, <3>1, <3>2 DEF Go, Calm, ServerType
    <3>4. found'[h] = s /\ \A g \in Handler \ {h} : found'[g] = found[g]
      BY <3>1 DEF Calm, ServerType
    <3> QED
      BY <1>1, <1>2, <3>1, <3>2, <3>3, <3>4, GoCalm
  <2> QED
    BY <2>1, <2>2
<1>4. CASE CommitVerify(h)
  <2>1. CASE Refuse(h)
    BY <2>1, RefuseCalm
  <2>2. CASE ~Refuse(h)
    <3>1. Go(h, "commit") /\ UNCHANGED found
      BY <1>4, <2>2 DEF CommitVerify
    <3>2. ServerType'
      BY <1>2, <3>1 DEF Go, Calm, ServerType
    <3>3. found[h] \in Session /\ found[h].ver = req[h].ver
      BY <1>4 DEF CommitVerify, Calm, HandlerInv
    <3> QED
      BY <1>1, <1>2, <3>1, <3>2, <3>3, GoCalm
  <2> QED
    BY <2>1, <2>2
<1>5. CASE CommitVersion(h)
  BY <1>5, AcceptCalm, RefuseCalm DEF CommitVersion
<1>6. CASE CommitHalfway(h)
  BY <1>6, RefuseCalm DEF CommitHalfway
<1> QED
  BY <1>3, <1>4, <1>5, <1>6

(***************************************************************************)
(* What a step does to the database, the backend and the record of answers:*)
(* one handler gives a free version its manifest and some of its layer     *)
(* rows, and when it gives it all of them it may tell the client that      *)
(* waits; every other step leaves versions and answers alone.              *)
(***************************************************************************)
Told(h, c) ==
  [by |-> c, ver |-> goal[c].ver, man |-> goal[c].man, rec |-> found[h].man]

Publishes(h, D) ==
  /\ at[h] = "commit"
  /\ Free(found[h])
  /\ Publish(found[h])
  /\ D \subseteq LayersOf[found[h].man]
  /\ D # LayersOf[found[h].man] => DbFaults
  /\ UNCHANGED blobs
  /\ rows' = [rows EXCEPT ![found[h].ver] = D]
  /\ \/ acked' = acked
     \/ /\ D = LayersOf[found[h].man]
        /\ \E c \in Client : Waits(c, h) /\ acked' = acked \cup {Told(h, c)}

Quiet == UNCHANGED <<versions, stamp, rows, acked>>

LEMMA CommitStep ==
  ASSUME NEW h \in Handler, CommitVersion(h) \/ CommitHalfway(h)
  PROVE  /\ Quiet \/ \E D \in SUBSET LayersOf[found[h].man] : Publishes(h, D)
         /\ sessions' \subseteq sessions
         /\ UNCHANGED <<opened, blobs>>
<1>1. CASE CommitVersion(h) /\ Free(found[h])
  BY <1>1 DEF CommitVersion, Publishes, Accept, Told
<1>2. CASE CommitVersion(h) /\ ~Free(found[h])
  BY <1>2 DEF CommitVersion, Quiet
<1>3. CASE CommitHalfway(h)
  BY <1>3 DEF CommitHalfway, Publishes
<1> QED
  BY <1>1, <1>2, <1>3

LEMMA RegistryStep ==
  ASSUME RegistryInv, [RegistryNext]_vars
  PROVE  /\ Calm' /\ sessions' \subseteq Session /\ opened' \in Nat /\ blobs' \subseteq Blobs
         /\ lost' \in BOOLEAN
         /\ blobs \subseteq blobs'
         /\ Quiet \/ \E h \in Handler : \E D \in SUBSET LayersOf[found[h].man] : Publishes(h, D)
<1> USE TypeParts DEF RegistryInv, Calm, DbType, Quiet
<1>1. ASSUME NEW c \in Client, NEW h \in Handler,
             \/ \E v \in Version, m \in Manifest : PostBegin(c, h, v, m)
             \/ PostCommit(c, h)
      PROVE  UNCHANGED <<db, blobs, history>> /\ Calm'
  BY <1>1, ClientCalm DEF PostBegin, PostCommit, Post
<1>2. ASSUME NEW c \in Client, GiveUp(c)
      PROVE  UNCHANGED <<db, blobs, acked>> /\ lost' = TRUE /\ Calm'
  BY <1>2, ClientCalm DEF GiveUp
<1>3. ASSUME NEW c \in Client, NEW b \in Blobs, Upload(c, b)
      PROVE  UNCHANGED <<db, history>> /\ blobs' = blobs \cup {b} /\ Calm'
  BY <1>3, ClientCalm DEF Upload
<1>4. ASSUME NEW h \in Handler, BeginCheck(h) \/ BeginSlots(h)
      PROVE  UNCHANGED <<db, blobs, history>> /\ Calm'
  BY <1>4, BeginCalm DEF BeginCheck, BeginSlots
<1>5. ASSUME NEW h \in Handler, BeginOpen(h)
      PROVE  /\ UNCHANGED <<versions, stamp, rows, blobs, history>> /\ Calm'
             /\ sessions' \subseteq Session /\ opened' \in Nat
  <2>1. req[h].ver \in Version /\ req[h].man \in Manifest
    BY <1>5 DEF BeginOpen, HandlerInv, Busy, Begins
  <2>2. [id |-> opened + 1, ver |-> req[h].ver, man |-> req[h].man] \in Session
    BY <2>1 DEF Session
  <2> QED
    BY <1>5, <2>2, BeginCalm DEF BeginOpen
<1>6. ASSUME NEW h \in Handler, CommitFind(h) \/ CommitVerify(h)
      PROVE  UNCHANGED <<db, blobs, history>> /\ Calm'
  BY <1>6, CommitCalm DEF CommitFind, CommitVerify
<1>7. ASSUME NEW h \in Handler, CommitVersion(h) \/ CommitHalfway(h)
      PROVE  Calm' /\ lost' \in BOOLEAN
  BY <1>7, CommitCalm DEF CommitVersion, CommitHalfway
<1>8. CASE UNCHANGED vars
  <2>1. UNCHANGED <<server, client, db, blobs, history>>
    BY <1>8 DEF vars, server, client, db, history
  <2> QED
    BY <2>1 DEF server, client, db, history, ServerType, ClientType, HandlerInv, ClientInv
<1> HIDE DEF RegistryInv, Calm
<1>9. sessions \subseteq Session /\ opened \in Nat /\ blobs \subseteq Blobs /\ lost \in BOOLEAN
  BY DEF RegistryInv
<1> QED
  BY <1>1, <1>2, <1>3, <1>4, <1>5, <1>6, <1>7, <1>8, <1>9, CommitStep
  DEF RegistryNext, Handle, db, history, vars

\* The session a commit publishes from is one of its client's version.
LEMMA FoundSession ==
  ASSUME RegistryInv, NEW h \in Handler, at[h] = "commit"
  PROVE  /\ found[h].man \in Manifest /\ found[h].ver \in Version /\ found[h].id \in Nat
         /\ \A c \in Client : Waits(c, h) => goal[c] \in [ver : {found[h].ver}, man : Manifest]
<1>1. found[h] \in Session /\ found[h].ver = req[h].ver
  BY DEF RegistryInv, HandlerInv
<1>2. ASSUME NEW c \in Client, Waits(c, h)
      PROVE  goal[c] \in [ver : Version, man : Manifest] /\ goal[c].ver = req[h].ver
  BY <1>2, RegistryAssumption DEF RegistryInv, ClientInv, Waits
<1> QED
  BY <1>1, <1>2 DEF Session

LEMMA NextRegistry == RegistryInv /\ [RegistryNext]_vars => RegistryInv'
<1> SUFFICES ASSUME RegistryInv, [RegistryNext]_vars PROVE RegistryInv'
  OBVIOUS
<1>1. Calm' /\ sessions' \subseteq Session /\ opened' \in Nat /\ blobs' \subseteq Blobs
        /\ lost' \in BOOLEAN
  BY RegistryStep
<1>2. /\ versions' \in [Version -> {None} \cup Manifest]
      /\ stamp' \in [Version -> Nat]
      /\ rows' \in [Version -> SUBSET Layer]
      /\ AckedType'
  <2>1. CASE Quiet
    BY <2>1, TypeParts DEF Quiet, RegistryInv, DbType, AckedType
  <2>2. ASSUME NEW h \in Handler, NEW D \in SUBSET LayersOf[found[h].man], Publishes(h, D)
        PROVE  /\ versions' \in [Version -> {None} \cup Manifest]
               /\ stamp' \in [Version -> Nat]
               /\ rows' \in [Version -> SUBSET Layer]
               /\ AckedType'
    <3>1. /\ found[h].man \in Manifest /\ found[h].ver \in Version /\ found[h].id \in Nat
          /\ \A c \in Client : Waits(c, h) => Told(h, c) \in
               [by : Client, ver : Version, man : Manifest, rec : Manifest]
      BY <2>2, FoundSession DEF Publishes, Told
    <3>2. LayersOf[found[h].man] \subseteq Layer
      BY <3>1, RegistryAssumption
    <3>3. AckedType'
      BY <2>2, <3>1, TypeParts DEF Publishes, AckedType, RegistryInv
    <3> QED
      BY <2>2, <3>1, <3>2, <3>3, TypeParts DEF Publishes, Publish, RegistryInv, DbType
  <2> QED
    BY <2>1, <2>2, RegistryStep
<1>3. RegistryTypeOK'
  BY <1>1, <1>2 DEF Calm, RegistryTypeOK, ServerType, ClientType, AckedType
<1> QED
  BY <1>1, <1>3 DEF RegistryInv, Calm

LEMMA RegistryInvariant == RegistrySpec => []RegistryInv
  BY InitRegistry, NextRegistry, PTL DEF RegistrySpec

\* Type correctness of server, database and clients.
THEOREM RegistryTypeCorrect == RegistrySpec => []RegistryTypeOK
<1>1. RegistryInv => RegistryTypeOK
  BY DEF RegistryInv
<1> QED
  BY <1>1, RegistryInvariant, PTL

\* A committed version never changes, for any number of sessions, clients and
\* handlers, and whatever statement of a commit fails.
THEOREM Immutable == RegistrySpec => VersionsImmutable
<1>1. ASSUME RegistryInv, [RegistryNext]_vars
      PROVE  [\A v \in Version : versions[v] # None =>
                versions'[v] = versions[v] /\ rows'[v] = rows[v]]_vars
  <2> SUFFICES ASSUME NEW v \in Version, versions[v] # None
               PROVE  versions'[v] = versions[v] /\ rows'[v] = rows[v]
    OBVIOUS
  <2>1. CASE Quiet
    BY <2>1 DEF Quiet
  <2>2. ASSUME NEW h \in Handler, NEW D \in SUBSET LayersOf[found[h].man], Publishes(h, D)
        PROVE  versions'[v] = versions[v] /\ rows'[v] = rows[v]
    <3>1. found[h].ver # v
      BY <2>2 DEF Publishes, Free
    <3> QED
      BY <1>1, <2>2, <3>1, TypeParts DEF Publishes, Publish, RegistryInv, DbType
  <2> QED
    BY <1>1, <2>1, <2>2, RegistryStep
<1> QED
  BY <1>1, RegistryInvariant, PTL DEF RegistrySpec, VersionsImmutable

(***************************************************************************)
(* The blobs a commit handler has found are still there when it publishes: *)
(* the backend only grows.                                                 *)
(***************************************************************************)
Verified ==
  \A h \in Handler : at[h] = "commit" => LayersOf[found[h].man] \subseteq blobs

LEMMA VerifiedStep == RegistryInv /\ Verified /\ [RegistryNext]_vars => Verified'
<1> SUFFICES ASSUME RegistryInv, Verified, [RegistryNext]_vars, NEW h \in Handler,
                    at'[h] = "commit"
             PROVE  LayersOf[found'[h].man] \subseteq blobs'
  BY DEF Verified
<1> USE DEF RegistryInv, RegistryTypeOK
<1>1. blobs \subseteq blobs'
  BY RegistryStep
<1>2. CASE CommitVerify(h)
  BY <1>2 DEF CommitVerify, Refuse, Rest, Go
<1>3. CASE ~CommitVerify(h)
  <2>1. ASSUME NEW g \in Handler, Handle(g) \/ CommitHalfway(g)
        PROVE  at[h] = "commit" /\ found'[h] = found[h]
    <3>1. CASE g = h
      BY <1>3, <2>1, <3>1 DEF Handle, BeginCheck, BeginOpen, BeginSlots, CommitFind,
         CommitVersion, CommitHalfway, Accept, Refuse, Rest, Go
    <3>2. CASE g # h
      BY <2>1, <3>2 DEF Handle, BeginCheck, BeginOpen, BeginSlots, CommitFind, CommitVerify,
         CommitVersion, CommitHalfway, Accept, Refuse, Rest, Go
    <3> QED
      BY <3>1, <3>2
  <2>2. ASSUME NEW c \in Client, NEW g \in Handler,
               \/ \E v \in Version, m \in Manifest : PostBegin(c, g, v, m)
               \/ PostCommit(c, g)
        PROVE  at[h] = "commit" /\ found'[h] = found[h]
    BY <2>2 DEF PostBegin, PostCommit, Post
  <2>3. ASSUME NEW c \in Client, GiveUp(c) \/ \E b \in Blobs : Upload(c, b)
        PROVE  at[h] = "commit" /\ found'[h] = found[h]
    BY <2>3 DEF GiveUp, Upload, server
  <2>4. ASSUME UNCHANGED vars PROVE at[h] = "commit" /\ found'[h] = found[h]
    BY <2>4 DEF vars
  <2>5. at[h] = "commit" /\ found'[h] = found[h]
    BY <2>1, <2>2, <2>3, <2>4 DEF RegistryNext
  <2> QED
    BY <1>1, <2>5 DEF Verified
<1> QED
  BY <1>2, <1>3

LEMMA VerifiedInvariant == RegistrySpec => [](RegistryInv /\ Verified)
<1>1. RegistryInit => Verified
  BY DEF RegistryInit, Verified
<1> QED
  BY <1>1, RegistryInvariant, VerifiedStep, PTL DEF RegistrySpec

\* A visible version lists only layers that can be fetched, for any number of
\* concurrent commits, and whatever statement of a commit fails.
THEOREM LayersPresent == RegistrySpec => []ListedLayersPresent
<1>1. RegistryInit => ListedLayersPresent
  BY DEF RegistryInit, ListedLayersPresent
<1>2. ASSUME RegistryInv, Verified, ListedLayersPresent, [RegistryNext]_vars
      PROVE  ListedLayersPresent'
  <2>1. blobs \subseteq blobs'
    BY <1>2, RegistryStep
  <2>2. CASE Quiet
    BY <1>2, <2>1, <2>2 DEF Quiet, ListedLayersPresent
  <2>3. ASSUME NEW h \in Handler, NEW D \in SUBSET LayersOf[found[h].man], Publishes(h, D)
        PROVE  ListedLayersPresent'
    <3>1. LayersOf[found[h].man] \subseteq blobs
      BY <1>2, <2>3 DEF Verified, Publishes
    <3> QED
      BY <1>2, <2>1, <2>3, <3>1, TypeParts DEF Publishes, ListedLayersPresent, RegistryInv, DbType
  <2> QED
    BY <1>2, <2>2, <2>3, RegistryStep
<1> QED
  BY <1>1, <1>2, VerifiedInvariant, PTL DEF RegistrySpec

\* A publish that returned Ok can be relied on, and one publisher at most is
\* told that it published a version.
THEOREM AckedStays == RegistrySpec => []AckedPublished
<1>1. RegistryInit => AckedPublished
  BY DEF RegistryInit, AckedPublished
<1>2. ASSUME RegistryInv, AckedPublished, [RegistryNext]_vars
      PROVE  AckedPublished'
  <2>1. CASE Quiet
    BY <1>2, <2>1 DEF Quiet, AckedPublished
  <2>2. ASSUME NEW h \in Handler, NEW D \in SUBSET LayersOf[found[h].man], Publishes(h, D)
        PROVE  AckedPublished'
    <3> DEFINE v == found[h].ver
    <3>1. /\ v \in Version /\ found[h].man \in Manifest
          /\ \A c \in Client : Waits(c, h) => goal[c].ver = v
      BY <1>2, <2>2, FoundSession DEF Publishes
    <3>2. \A x \in acked : x.ver \in Version /\ x.rec \in Manifest /\ x.ver # v
      BY <1>2, <2>2, RegistryAssumption, TypeParts
      DEF AckedPublished, Publishes, Free, RegistryInv, AckedType
    <3>3. /\ versions'[v] = found[h].man /\ rows'[v] = D
          /\ \A w \in Version \ {v} : versions'[w] = versions[w] /\ rows'[w] = rows[w]
      BY <1>2, <2>2, <3>1, TypeParts DEF Publishes, Publish, RegistryInv, DbType
    <3>4. CASE acked' = acked
      BY <1>2, <3>2, <3>3, <3>4 DEF AckedPublished
    <3>5. ASSUME NEW c \in Client, Waits(c, h), acked' = acked \cup {Told(h, c)},
                 D = LayersOf[found[h].man]
          PROVE  AckedPublished'
      <4>1. Told(h, c).ver = v /\ Told(h, c).rec = found[h].man
        BY <3>1, <3>5 DEF Told
      <4>2. \A x \in acked' : versions'[x.ver] = x.rec /\ rows'[x.ver] = LayersOf[x.rec]
        BY <1>2, <3>2, <3>3, <3>5, <4>1 DEF AckedPublished
      <4>3. \A x, y \in acked' : x.ver = y.ver => x = y
        BY <1>2, <3>2, <3>5, <4>1 DEF AckedPublished
      <4> QED
        BY <4>2, <4>3 DEF AckedPublished
    <3> QED
      BY <2>2, <3>4, <3>5 DEF Publishes
  <2> QED
    BY <1>2, <2>1, <2>2, RegistryStep
<1> QED
  BY <1>1, <1>2, RegistryInvariant, PTL DEF RegistrySpec

(***************************************************************************)
(* The registry implements the index of module VersionIndex.               *)
(***************************************************************************)
LEMMA InitIndex == RegistryInit => Index!IndexInit
  BY DEF RegistryInit, Index!IndexInit

\* A step that publishes is a publish of the index.
LEMMA PublishesIndex ==
  ASSUME RegistryInv, Verified, [RegistryNext]_vars,
         NEW h \in Handler, NEW D \in SUBSET LayersOf[found[h].man], Publishes(h, D)
  PROVE  Index!IndexNext
<1> DEFINE v == found[h].ver
           m == found[h].man
<1>1. v \in Version /\ m \in Manifest /\ \A c \in Client : Waits(c, h) => goal[c] \in [ver : {v}, man : Manifest]
  BY FoundSession DEF Publishes
<1>2. Index!Settle(v, m, D)
  BY DEF Publishes, Free, Publish, Verified, Index!Settle
<1>3. CASE acked' = acked /\ D # LayersOf[m]
  <2>1. DbFaults
    BY <1>3 DEF Publishes
  <2>2. Index!PublishHalfway(v, m)
    BY <1>2, <1>3, <2>1 DEF Index!PublishHalfway
  <2> QED
    BY <1>1, <2>2 DEF Index!IndexNext
<1>4. CASE acked' = acked /\ D = LayersOf[m]
  BY <1>1, <1>2, <1>4 DEF Index!IndexNext, Index!PublishVersion
<1>5. ASSUME NEW c \in Client, Waits(c, h), acked' = acked \cup {Told(h, c)}, D = LayersOf[m]
      PROVE  Index!IndexNext
  <2>1. Told(h, c) = [by |-> c, ver |-> v, man |-> goal[c].man, rec |-> m] /\ goal[c].man \in Manifest
    BY <1>1, <1>5 DEF Told
  <2>2. Index!Tell(v, m)
    BY <1>5, <2>1 DEF Index!Tell
  <2> QED
    BY <1>1, <1>2, <1>5, <2>2 DEF Index!IndexNext, Index!PublishVersion
<1> QED
  BY <1>3, <1>4, <1>5 DEF Publishes

LEMMA BlobStep ==
  ASSUME [RegistryNext]_vars
  PROVE  UNCHANGED blobs \/ \E b \in Blobs : blobs' = blobs \cup {b}
<1>1. ASSUME NEW c \in Client, NEW h \in Handler,
             \/ \E v \in Version, m \in Manifest : PostBegin(c, h, v, m)
             \/ PostCommit(c, h)
      PROVE  UNCHANGED blobs
  BY <1>1 DEF PostBegin, PostCommit, Post
<1>2. ASSUME NEW c \in Client, NEW b \in Blobs, Upload(c, b)
      PROVE  blobs' = blobs \cup {b}
  BY <1>2 DEF Upload
<1>3. ASSUME NEW h \in Handler, Handle(h) \/ CommitHalfway(h)
      PROVE  UNCHANGED blobs
  BY <1>3 DEF Handle, BeginCheck, BeginOpen, BeginSlots, CommitFind, CommitVerify,
     CommitVersion, CommitHalfway
<1> QED
  BY <1>1, <1>2, <1>3 DEF RegistryNext, GiveUp, vars

\* Every step of clients, handlers and database is a step of the index, or none.
THEOREM RegistryImplementsIndex == RegistrySpec => ImplementsIndex
<1>1. ASSUME RegistryInv, Verified, [RegistryNext]_vars
      PROVE  [Index!IndexNext]_Index!xvars
  <2>1. ASSUME NEW h \in Handler, NEW D \in SUBSET LayersOf[found[h].man], Publishes(h, D)
        PROVE  Index!IndexNext
    BY <1>1, <2>1, PublishesIndex
  <2>2. ASSUME Quiet, NEW b \in Blobs, blobs' = blobs \cup {b}
        PROVE  Index!IndexNext
    BY <2>2 DEF Quiet, Blobs, Index!IndexNext, Index!Hold
  <2>3. CASE Quiet /\ UNCHANGED blobs
    BY <2>3 DEF Quiet, Index!xvars
  <2> QED
    BY <1>1, <2>1, <2>2, <2>3, RegistryStep, BlobStep
<1> QED
  BY <1>1, InitIndex, VerifiedInvariant, PTL DEF RegistrySpec, ImplementsIndex, Index!IndexSpec
=============================================================================
