---------------------------- MODULE ImportProofs ----------------------------
(***************************************************************************)
(* What `elu import` leaves in the store is what upstream published, and a *)
(* closure is exact, for any number of commands at once, any packages and  *)
(* any dependencies between them.                                          *)
(***************************************************************************)
EXTENDS Import, SequenceTheorems, Induction

Busy == {"lookup", "fetch", "open", "write", "pack", "ref", "commit"}

\* What a process keeps when n manifests were made.
Record(n) ==
  [step : Steps, names : Seq(Package), closure : BOOLEAN, want : Tag \cup {None},
   root : Package \cup {None}, queue : Seq(Package), imported : [Name -> 0..n],
   missed : SUBSET Package, ok : BOOLEAN, day : Day \cup {None},
   cur : Package \cup {None}, tag : Tag \cup {None, "latest"}, deps : Seq(Package),
   art : Artifact \cup {Torn, None}, man : 0..n]

\* What it has at which step.
Placed(i) ==
  /\ i.step # "idle" => i.day \in Day
  /\ i.step \notin {"idle", "name"} \/ i.ok => i.root \in Package
  /\ i.step \in Busy => /\ i.cur \in Package /\ i.tag \in Tag \cup {"latest"}
                        /\ eco = "apt" \/ i.tag \in Tag
                        /\ i.imported[EluName[i.cur]] = 0
  /\ i.step \in {"open", "write", "pack"} => i.art \in Artifact \cup {Torn}
  /\ i.step \in {"ref", "commit"} => i.man # 0

TypeInv ==
  /\ eco \in Ecosystem
  /\ latest \in [Package -> Nat]
  /\ \A q \in Package : latest[q] <= Len(Releases[q])
  /\ begun \in 0..MaxCommands
  /\ cache \in [Key -> {None, Torn} \cup Artifact]
  /\ made \in Seq(ManifestRec)
  /\ refs \in [Name \X Tag -> 0..Len(made)]
  /\ imp \in [Importing -> Record(Len(made))]
  /\ \A p \in Importing : Placed(imp[p])

LEMMA TypeInvTypes == TypeInv => ImportTypeOK
<1> SUFFICES ASSUME TypeInv PROVE ImportTypeOK
  OBVIOUS
<1>1. \A q \in Package : latest[q] \in 0..Len(Releases[q])
  BY ImportAssumption DEF TypeInv
<1>2. ASSUME NEW p \in Importing PROVE imp[p] \in Record(Len(made))
  BY DEF TypeInv
<1> QED
  BY <1>1, <1>2 DEF TypeInv, ImportTypeOK, Record

LEMMA RestIsRecord == ASSUME NEW n \in Nat PROVE AtRest \in Record(n)
  BY DEF AtRest, Record, NothingImported, Steps

LEMMA RestIsPlaced == Placed(AtRest)
  BY DEF AtRest, Placed, Busy

LEMMA InitType == ImportInit => TypeInv
<1> SUFFICES ASSUME ImportInit PROVE TypeInv
  OBVIOUS
<1>1. made = <<>> /\ Len(made) = 0 /\ made \in Seq(ManifestRec)
  BY DEF ImportInit
<1>2. \A p \in Importing : imp[p] = AtRest
  BY DEF ImportInit
<1>3. imp \in [Importing -> Record(Len(made))] /\ \A p \in Importing : Placed(imp[p])
  BY <1>1, <1>2, RestIsRecord, RestIsPlaced DEF ImportInit
<1>4. /\ latest \in [Package -> Nat]
      /\ \A q \in Package : latest[q] <= Len(Releases[q])
  <2>1. \A q \in Package : Releases[q] \in Seq(Tag)
    BY ImportAssumption
  <2>2. \A q \in Package : Len(Releases[q]) \in Nat /\ (Releases[q] # <<>> => Len(Releases[q]) >= 1)
    BY <2>1
  <2> QED
    BY <2>2 DEF ImportInit
<1>5. cache \in [Key -> {None, Torn} \cup Artifact]
  BY DEF ImportInit
<1>6. refs \in [Name \X Tag -> 0..Len(made)]
  BY <1>1 DEF ImportInit
<1>7. begun \in 0..MaxCommands
  BY ImportAssumption DEF ImportInit
<1> QED
  BY <1>1, <1>3, <1>4, <1>5, <1>6, <1>7 DEF TypeInv, ImportInit

-----------------------------------------------------------------------------
\* What upstream says.
LEMMA UpstreamTypes ==
  ASSUME TypeInv, NEW q \in Package
  PROVE  /\ Published(q) \subseteq Tag
         /\ latest[q] # 0 => Latest(q) \in Published(q)
         /\ \A want, tag : tag \in Answer(q, want) => latest[q] # 0 /\ tag \in Published(q)
         /\ \A tag : DebServed(q, tag) \subseteq {q} \X Published(q)
         /\ \A tag, a : tag # "latest" /\ a \in DebServed(q, tag) => a[2] = tag
<1>1. Releases[q] \in Seq(Tag) /\ latest[q] \in Nat /\ latest[q] <= Len(Releases[q])
  BY ImportAssumption DEF TypeInv
<1>2. \A i \in 1..latest[q] : Releases[q][i] \in Tag
  BY <1>1
<1>3. Published(q) \subseteq Tag
  BY <1>2 DEF Published
<1>4. latest[q] # 0 => Latest(q) \in Published(q)
  BY <1>1 DEF Published, Latest
<1>5. \A want, tag : tag \in Answer(q, want) => latest[q] # 0 /\ tag \in Published(q)
  BY DEF Answer
<1>6. \A tag : DebServed(q, tag) \subseteq {q} \X Published(q)
  BY DEF DebServed
<1>7. \A tag, a : tag # "latest" /\ a \in DebServed(q, tag) => a[2] = tag
  BY DEF DebServed
<1> QED
  BY <1>3, <1>4, <1>5, <1>6, <1>7

\* What a step of one process leaves alone, and the two ways in which the
\* manifests grow.
LEMMA PutGrows ==
  ASSUME made \in Seq(ManifestRec), NEW m \in ManifestRec
  PROVE  /\ Put(m) \in Seq(ManifestRec)
         /\ Len(Put(m)) \in Nat /\ Len(made) <= Len(Put(m))
         /\ \A i \in 1..Len(made) : Put(m)[i] = made[i]
         /\ \A i \in 1..Len(Put(m)) : i \in 1..Len(made) \/ Put(m)[i] = m
         /\ HashOf(m) \in 1..Len(Put(m)) /\ Put(m)[HashOf(m)] = m
<1>1. CASE \E i \in 1..Len(made) : made[i] = m
  <2>1. Put(m) = made
    BY <1>1 DEF Put
  <2> QED
    BY <1>1, <2>1 DEF HashOf
<1>2. CASE ~\E i \in 1..Len(made) : made[i] = m
  <2>1. Put(m) = Append(made, m)
    BY <1>2 DEF Put
  <2>2. /\ Append(made, m) \in Seq(ManifestRec) /\ Len(Append(made, m)) = Len(made) + 1
        /\ \A i \in 1..Len(made) : Append(made, m)[i] = made[i]
        /\ Append(made, m)[Len(made) + 1] = m
    OBVIOUS
  <2>3. \E i \in 1..Len(Put(m)) : Put(m)[i] = m
    BY <2>1, <2>2
  <2>4. HashOf(m) \in 1..Len(Put(m)) /\ Put(m)[HashOf(m)] = m
    BY <2>3 DEF HashOf
  <2> QED
    BY <2>1, <2>2, <2>4
<1> QED
  BY <1>1, <1>2

-----------------------------------------------------------------------------
(***************************************************************************)
(* The types.  A step of a process that leaves it with the record r.       *)
(***************************************************************************)
Moves(p, r) == imp' = [imp EXCEPT ![p] = r]

LEMMA MoveTypes ==
  ASSUME TypeInv, made' \in Seq(ManifestRec), Len(made) <= Len(made'), eco' = eco,
         NEW p \in Importing, NEW r \in Record(Len(made')), Placed(r), Moves(p, r)
  PROVE  /\ imp' \in [Importing -> Record(Len(made'))]
         /\ \A o \in Importing : Placed(imp[o])'
<1>1. Record(Len(made)) \subseteq Record(Len(made'))
  <2>1. 0..Len(made) \subseteq 0..Len(made')
    BY DEF TypeInv
  <2> QED
    BY <2>1 DEF Record
<1>2. \A o \in Importing : imp'[o] = IF o = p THEN r ELSE imp[o]
  BY DEF TypeInv, Moves
<1>3. \A o \in Importing : imp'[o] \in Record(Len(made'))
  BY <1>1, <1>2 DEF TypeInv
<1>4. imp' \in [Importing -> Record(Len(made'))]
  BY <1>3 DEF TypeInv, Moves
<1>5. \A o \in Importing : Placed(imp[o])'
  BY <1>2 DEF TypeInv, Placed
<1> QED
  BY <1>4, <1>5

\* What the step of a process makes of its own record when it puts no manifest.
Steady(p, r) ==
  /\ r \in Record(Len(made)) /\ Placed(r)
  /\ Moves(p, r)

LEMMA ImpType ==
  ASSUME TypeInv, NEW p \in Importing
  PROVE  /\ imp[p] \in Record(Len(made)) /\ Placed(imp[p]) /\ Len(made) \in Nat
         /\ imp[p].names \in Seq(Package) /\ imp[p].queue \in Seq(Package)
         /\ imp[p].deps \in Seq(Package) /\ imp[p].imported \in [Name -> 0..Len(made)]
         /\ imp[p].step \in Steps /\ imp[p].want \in Tag \cup {None}
  BY DEF TypeInv, Record

LEMMA FailSteady == ASSUME TypeInv, NEW p, Fail(p) PROVE Steady(p, AtRest)
<1>1. Len(made) \in Nat
  BY DEF TypeInv
<1> QED
  BY <1>1, RestIsRecord, RestIsPlaced DEF Fail, Set, Steady, Moves

LEMMA BeginSteady ==
  ASSUME TypeInv, NEW p \in Importing, NEW k \in Commands, NEW d \in Day, Begin(p, k, d)
  PROVE  Steady(p, imp'[p])
<1> DEFINE r == [AtRest EXCEPT !.step = "name", !.names = k.names, !.closure = k.closure,
                               !.want = k.want, !.day = d]
<1>1. Moves(p, r)
  BY DEF Begin, Set, Moves
<1>2. k \in [names : Seq(Package), closure : BOOLEAN, want : Tag \cup {None}]
  BY ImportAssumption
<1>3. Len(made) \in Nat
  BY DEF TypeInv
<1>4. r \in Record(Len(made))
  BY <1>2, <1>3, RestIsRecord DEF Record, Steps
<1>5. Placed(r)
  BY <1>2 DEF AtRest, Placed, Busy
<1>6. imp'[p] = r
  BY <1>1 DEF Moves, TypeInv
<1> QED
  BY <1>1, <1>4, <1>5, <1>6 DEF Steady

LEMMA NextNameSteady ==
  ASSUME TypeInv, NEW p \in Importing, NextName(p)
  PROVE  Steady(p, imp'[p])
<1>1. CASE imp[p].names = <<>>
  <2>1. Fail(p)
    BY <1>1 DEF NextName, Fail
  <2> QED
    BY <2>1, FailSteady DEF Steady, Moves, TypeInv
<1>2. CASE imp[p].names # <<>>
  <2> DEFINE r == [AtRest EXCEPT !.step = "pop", !.names = Tail(imp[p].names),
                      !.closure = imp[p].closure, !.want = imp[p].want, !.day = imp[p].day,
                      !.root = Head(imp[p].names), !.queue = <<Head(imp[p].names)>>]
  <2>1. Moves(p, r)
    BY <1>2 DEF NextName, Set, Moves
  <2>2. /\ Head(imp[p].names) \in Package /\ Tail(imp[p].names) \in Seq(Package)
        /\ <<Head(imp[p].names)>> \in Seq(Package)
    BY <1>2, ImpType
  <2>3. imp[p].day \in Day /\ imp[p].closure \in BOOLEAN /\ imp[p].want \in Tag \cup {None}
    BY ImpType DEF NextName, Placed, Record
  <2>4. r \in Record(Len(made))
    BY <2>2, <2>3, ImpType, RestIsRecord, ZenonT(30) DEF Record, Steps
  <2>5. Placed(r)
    BY <2>2, <2>3 DEF AtRest, Placed, Busy
  <2>6. imp'[p] = r
    BY <2>1 DEF Moves, TypeInv
  <2> QED
    BY <2>1, <2>4, <2>5, <2>6 DEF Steady
<1> QED
  BY <1>1, <1>2

-----------------------------------------------------------------------------
(***************************************************************************)
(* The loop that queues dependencies: it leaves out those imported, and    *)
(* those only.                                                             *)
(***************************************************************************)
NextKept(p, deps, kept, i) ==
  CASE i = 0 -> <<>>
    [] i # 0 /\ imp[p].imported[EluName[deps[i]]] = 0 -> Append(kept[i - 1], deps[i])
    [] OTHER -> kept[i - 1]

LEMMA KeptExists ==
  ASSUME NEW p, NEW deps, NEW n \in Nat
  PROVE  \E kept : kept = [i \in 0..n |-> NextKept(p, deps, kept, i)]
<1> DEFINE Upto(k, f) == f = [i \in 0..k |-> NextKept(p, deps, f, i)]
           S == {k \in 0..n : \E f : Upto(k, f)}
<1>1. 0 \in S
  <2> DEFINE f == [i \in 0..0 |-> <<>>]
  <2>1. f = [i \in 0..0 |-> NextKept(p, deps, f, i)]
    BY DEF NextKept
  <2> QED
    BY <2>1
<1>2. ASSUME NEW k \in 0..(n - 1), k \in S PROVE k + 1 \in S
  <2>1. PICK f : f = [i \in 0..k |-> NextKept(p, deps, f, i)]
    BY <1>2
  <2> DEFINE g == [i \in 0..(k + 1) |-> IF i = k + 1 THEN NextKept(p, deps, f, i) ELSE f[i]]
  <2>2. ASSUME NEW i \in 0..(k + 1) PROVE g[i] = NextKept(p, deps, g, i)
    <3>1. i # 0 => i - 1 \in 0..(k + 1) /\ i - 1 # k + 1 /\ g[i - 1] = f[i - 1]
      OBVIOUS
    <3>2. NextKept(p, deps, f, i) = NextKept(p, deps, g, i)
      BY <3>1 DEF NextKept
    <3>3. i # k + 1 => i \in 0..k /\ f[i] = NextKept(p, deps, f, i)
      BY <2>1
    <3>4. g[i] = NextKept(p, deps, f, i)
      BY <3>3
    <3> QED
      BY <3>2, <3>4
  <2>3. g = [i \in 0..(k + 1) |-> NextKept(p, deps, g, i)]
    BY <2>2
  <2>4. k + 1 \in 0..n
    OBVIOUS
  <2> HIDE DEF g
  <2> QED
    BY <2>3, <2>4
<1>3. 0..n \subseteq S
  <2> HIDE DEF S
  <2> QED
    BY <1>1, <1>2, Climb
<1> QED
  BY <1>3

Elements(s) == {s[i] : i \in 1..Len(s)}

LEMMA QueuedIs ==
  ASSUME NEW p, NEW deps \in Seq(Package)
  PROVE  /\ Queued(p, deps) \in Seq(Package)
         /\ Elements(Queued(p, deps)) =
              {d \in Elements(deps) : imp[p].imported[EluName[d]] = 0}
<1> DEFINE n == Len(deps)
           kept == CHOOSE f : f = [i \in 0..n |-> NextKept(p, deps, f, i)]
           S == {k \in 0..n : /\ kept[k] \in Seq(Package)
                              /\ Elements(kept[k]) =
                                   {d \in {deps[i] : i \in 1..k} : imp[p].imported[EluName[d]] = 0}}
<1>1. n \in Nat
  OBVIOUS
<1>2. kept = [i \in 0..n |-> NextKept(p, deps, kept, i)]
  BY <1>1, KeptExists
<1> HIDE DEF kept
<1>3. 0 \in S
  BY <1>1, <1>2 DEF NextKept, Elements
<1>4. ASSUME NEW k \in 0..(n - 1), k \in S PROVE k + 1 \in S
  <2>1. k + 1 \in 0..n /\ k + 1 # 0 /\ k + 1 - 1 = k /\ deps[k + 1] \in Package
    OBVIOUS
  <2> DEFINE d == deps[k + 1]
  <2>2. kept[k + 1] = IF imp[p].imported[EluName[d]] = 0 THEN Append(kept[k], d) ELSE kept[k]
    <3>1. kept[k + 1] = NextKept(p, deps, kept, k + 1)
      BY <1>2, <2>1
    <3> QED
      BY <2>1, <3>1 DEF NextKept
  <2>3. {deps[i] : i \in 1..(k + 1)} = {deps[i] : i \in 1..k} \cup {d}
    BY <2>1
  <2>4. kept[k] \in Seq(Package)
    BY <1>4
  <2>5. Elements(Append(kept[k], d)) = Elements(kept[k]) \cup {d}
    <3>1. Len(Append(kept[k], d)) = Len(kept[k]) + 1 /\ Len(kept[k]) \in Nat
      BY <2>4
    <3>2. \A i \in 1..(Len(kept[k]) + 1) : Append(kept[k], d)[i] = IF i = Len(kept[k]) + 1 THEN d ELSE kept[k][i]
      BY <2>4
    <3> QED
      BY <3>1, <3>2 DEF Elements
  <2>6. CASE imp[p].imported[EluName[d]] = 0
    <3>1. kept[k + 1] \in Seq(Package) /\ kept[k + 1] = Append(kept[k], d)
      BY <2>1, <2>2, <2>4, <2>6
    <3> QED
      BY <1>4, <2>1, <2>3, <2>5, <2>6, <3>1
  <2>7. CASE imp[p].imported[EluName[d]] # 0
    BY <1>4, <2>1, <2>2, <2>3, <2>7
  <2> QED
    BY <2>6, <2>7
<1>5. 0..n \subseteq S
  <2> HIDE DEF S, n
  <2> QED
    BY <1>1, <1>3, <1>4, Climb
<1>6. n \in S
  <2>1. n \in 0..n
    BY <1>1
  <2> HIDE DEF S, n
  <2> QED
    BY <1>5, <2>1
<1>7. Queued(p, deps) = kept[n]
  BY DEF Queued, kept, NextKept
<1> QED
  BY <1>6, <1>7 DEF Elements

-----------------------------------------------------------------------------
(***************************************************************************)
(* The types again: the loop over the queue, the cache and the refs.       *)
(***************************************************************************)
LEMMA MovedTo ==
  ASSUME TypeInv, NEW p \in Importing, NEW r, Set(p, r)
  PROVE  Moves(p, r) /\ imp'[p] = r
  BY DEF Set, Moves, TypeInv

LEMMA InRecord ==
  ASSUME TypeInv, NEW p \in Importing, NEW s \in Steps
  PROVE  In(p, s) \in Record(Len(made))
  BY ImpType, ZenonT(30) DEF In, Record

LEMMA MissSteady ==
  ASSUME TypeInv, NEW p \in Importing, imp[p].step \notin {"idle", "name"},
         NEW q \in Package, NEW rest \in Seq(Package), Miss(p, q, rest)
  PROVE  Steady(p, imp'[p])
<1>1. CASE imp[p].closure
  <2> DEFINE r == [In(p, "pop") EXCEPT !.missed = @ \cup {q}, !.queue = rest,
                                       !.cur = None, !.tag = None]
  <2>1. Moves(p, r) /\ imp'[p] = r
    BY <1>1, MovedTo DEF Miss
  <2>2. r \in Record(Len(made))
    <3>1. In(p, "pop") \in Record(Len(made))
      BY InRecord DEF Steps
    <3> QED
      BY <3>1, ImpType DEF Record
  <2>3. Placed(r)
    BY ImpType DEF In, Placed, Record, Busy
  <2> QED
    BY <2>1, <2>2, <2>3 DEF Steady
<1>2. CASE ~imp[p].closure
  <2>1. Fail(p)
    BY <1>2 DEF Miss
  <2> QED
    BY <2>1, FailSteady, MovedTo DEF Fail
<1> QED
  BY <1>1, <1>2

\* Setting the fields of what is being imported keeps the record's type.
LEMMA RecordCurTag ==
  ASSUME NEW n \in Nat, NEW i \in Record(n), NEW q \in Package, NEW tag \in Tag \cup {"latest"}
  PROVE  [i EXCEPT !.cur = q, !.tag = tag] \in Record(n)
BY DEF Record

LEMMA RecordDepsQueue ==
  ASSUME NEW n \in Nat, NEW i \in Record(n), NEW deps \in Seq(Package), NEW queue \in Seq(Package)
  PROVE  [i EXCEPT !.deps = deps, !.queue = queue] \in Record(n)
BY DEF Record

LEMMA LookupSteady ==
  ASSUME TypeInv, NEW p \in Importing, imp[p].step = "pop",
         NEW q \in Package, imp[p].imported[EluName[q]] = 0,
         NEW tag \in Tag \cup {"latest"}, eco = "apt" \/ tag \in Tag,
         NEW deps \in Seq(Package), NEW queue \in Seq(Package),
         Lookup(p, q, tag, deps, queue)
  PROVE  Steady(p, imp'[p])
<1> DEFINE r == [In(p, "lookup") EXCEPT !.cur = q, !.tag = tag, !.deps = deps, !.queue = queue]
<1>1. Moves(p, r) /\ imp'[p] = r
  BY MovedTo DEF Lookup
<1>2. r \in Record(Len(made))
  <2>1. In(p, "lookup") \in Record(Len(made))
    BY InRecord DEF Steps
  <2> DEFINE s == [In(p, "lookup") EXCEPT !.cur = q, !.tag = tag]
  <2>2. Len(made) \in Nat
    BY ImpType
  <2>3. s \in Record(Len(made))
    BY <2>1, <2>2, RecordCurTag
  <2>4. [s EXCEPT !.deps = deps, !.queue = queue] \in Record(Len(made))
    <3> HIDE DEF s
    <3> QED
      BY <2>2, <2>3, RecordDepsQueue
  <2>5. r = [s EXCEPT !.deps = deps, !.queue = queue]
    OBVIOUS
  <2> QED
    BY <2>4, <2>5
<1>3. Placed(r)
  BY ImpType DEF In, Placed, Record, Busy
<1> QED
  BY <1>1, <1>2, <1>3 DEF Steady

\* What the importers look up: the package at the head, at a version that it
\* published, with the dependencies of one of its releases; and in a closure
\* these are queued behind the rest.
Looks(p, q, deps, queue) ==
  \E tag \in Tag \cup {"latest"} : (eco = "apt" \/ tag \in Tag) /\ Lookup(p, q, tag, deps, queue)

LEMMA TakeLooks ==
  ASSUME TypeInv, NEW p \in Importing, imp[p].queue # <<>>,
         NEW q, q = Head(imp[p].queue), Take(p, q)
  PROVE  \/ Miss(p, q, Tail(imp[p].queue))
         \/ ~imp[p].closure /\ \E deps \in Seq(Package) :
              (eco = "apt" => deps = <<>>) /\ Looks(p, q, deps, <<>>)
         \/ imp[p].closure /\ eco # "apt" /\ \E deps \in Seq(Package) :
              Looks(p, q, deps, Tail(imp[p].queue) \o Queued(p, deps))
         \/ imp[p].closure /\ eco = "apt" /\ Looks(p, q, <<>>, Tail(imp[p].queue))
<1>1. q \in Package /\ <<>> \in Seq(Package)
  BY ImpType
<1>2. \A want, tag : tag \in Answer(q, want) =>
        /\ tag \in Tag
        /\ NpmDeps(q, tag) \in Seq(Package) /\ PipDeps(q, tag) \in Seq(Package)
  <2>1. SUFFICES ASSUME NEW want, NEW tag \in Answer(q, want)
        PROVE  /\ tag \in Tag
               /\ NpmDeps(q, tag) \in Seq(Package) /\ PipDeps(q, tag) \in Seq(Package)
    OBVIOUS
  <2>2. tag \in Tag /\ Latest(q) \in Tag
    BY <1>1, <2>1, UpstreamTypes
  <2> QED
    BY <1>1, <2>2, ImportAssumption DEF NpmDeps, PipDeps
<1>3. imp[p].want \in Tag \cup {None} /\ Want(p, q) \in Tag \cup {None}
  BY ImpType DEF Want
<1>4. CASE eco = "apt" /\ imp[p].closure /\ AptTake(p, q)
  BY <1>3, <1>4 DEF AptTake, Looks
<1>5. CASE eco = "apt" /\ ~imp[p].closure /\ AptSingle(p, q)
  BY <1>1, <1>3, <1>5 DEF AptSingle, Looks
<1>6. CASE imp[p].closure /\ eco = "npm" /\ NpmTake(p, q)
  BY <1>2, <1>6 DEF NpmTake, Looks
<1>7. CASE ~imp[p].closure /\ eco = "npm" /\ NpmSingle(p, q)
  BY <1>2, <1>7 DEF NpmSingle, Looks
<1>8. CASE imp[p].closure /\ eco = "pip" /\ PipTake(p, q)
  BY <1>2, <1>8 DEF PipTake, Looks
<1>9. CASE ~imp[p].closure /\ eco = "pip" /\ PipSingle(p, q)
  BY <1>2, <1>9 DEF PipSingle, Looks
<1>10. CASE Miss(p, q, Tail(imp[p].queue))
  BY <1>10
<1> QED
  BY <1>4, <1>5, <1>6, <1>7, <1>8, <1>9, <1>10 DEF Take

LEMMA PopSteady ==
  ASSUME TypeInv, NEW p \in Importing, Pop(p)
  PROVE  Steady(p, imp'[p])
<1>1. imp[p].step = "pop" /\ imp[p].root \in Package
  BY ImpType DEF Pop, Placed
<1>2. CASE Finish(p)
  <2>1. CASE imp[p].imported[EluName[imp[p].root]] # 0
    <3> DEFINE r == [In(p, "name") EXCEPT !.ok = TRUE]
    <3>1. Moves(p, r) /\ imp'[p] = r
      BY <1>2, <2>1, MovedTo DEF Finish
    <3>2. r \in Record(Len(made))
      <4>1. In(p, "name") \in Record(Len(made))
        BY InRecord DEF Steps
      <4> QED
        BY <4>1, ImpType DEF Record
    <3>3. Placed(r)
      BY <1>1, ImpType DEF In, Placed, Record, Busy
    <3> QED
      BY <3>1, <3>2, <3>3 DEF Steady
  <2>2. CASE ~(imp[p].imported[EluName[imp[p].root]] # 0)
    <3>1. Fail(p)
      BY <1>2, <2>2 DEF Finish
    <3> QED
      BY <3>1, FailSteady, MovedTo DEF Fail
  <2> QED
    BY <2>1, <2>2
<1>3. CASE imp[p].queue # <<>>
  <2> DEFINE q == Head(imp[p].queue)
  <2>1. q \in Package /\ Tail(imp[p].queue) \in Seq(Package)
    BY <1>3, ImpType
  <2>2. CASE imp[p].imported[EluName[q]] # 0
    <3> DEFINE r == [imp[p] EXCEPT !.queue = Tail(@)]
    <3>1. Moves(p, r) /\ imp'[p] = r
      BY <1>3, <2>2, MovedTo DEF Pop, Finish
    <3>2. r \in Record(Len(made))
      BY <2>1, ImpType, ZenonT(30) DEF Record
    <3>3. Placed(r)
      BY <1>1, ImpType DEF Placed, Record, Busy
    <3> QED
      BY <3>1, <3>2, <3>3 DEF Steady
  <2>3. CASE imp[p].imported[EluName[q]] = 0
    <3>1. Take(p, q)
      BY <1>3, <2>3 DEF Pop, Finish
    <3>2. \A deps \in Seq(Package) : Tail(imp[p].queue) \o Queued(p, deps) \in Seq(Package)
      BY <2>1, QueuedIs
    <3>3. ASSUME NEW deps \in Seq(Package), NEW queue \in Seq(Package), Looks(p, q, deps, queue)
          PROVE  Steady(p, imp'[p])
      BY <1>1, <2>1, <2>3, <3>3, LookupSteady DEF Looks
    <3>4. CASE Miss(p, q, Tail(imp[p].queue))
      BY <1>1, <2>1, <3>4, MissSteady
    <3>5. <<>> \in Seq(Package)
      OBVIOUS
    <3> QED
      BY <1>3, <2>1, <3>1, <3>2, <3>3, <3>4, <3>5, TakeLooks
  <2> QED
    BY <2>2, <2>3
<1> QED
  BY <1>2, <1>3 DEF Pop

LEMMA BusyHas ==
  ASSUME TypeInv, NEW p \in Importing, imp[p].step \in Busy
  PROVE  /\ imp[p].cur \in Package /\ imp[p].root \in Package /\ imp[p].day \in Day
         /\ imp[p].tag \in Tag \cup {"latest"} /\ (eco = "apt" \/ imp[p].tag \in Tag)
         /\ imp[p].imported[EluName[imp[p].cur]] = 0
         /\ EluName[imp[p].cur] \in Name /\ KeyOf(p) \in Key
<1>1. /\ imp[p].cur \in Package /\ imp[p].root \in Package /\ imp[p].day \in Day
      /\ imp[p].tag \in Tag \cup {"latest"} /\ (eco = "apt" \/ imp[p].tag \in Tag)
      /\ imp[p].imported[EluName[imp[p].cur]] = 0
  BY ImpType DEF Placed, Busy
<1>2. EluName[imp[p].cur] \in Name
  BY <1>1, ImportAssumption
<1> QED
  BY <1>1, <1>2 DEF KeyOf, Key

\* Only the step and the artifact in hand change.
LEMMA HandSteady ==
  ASSUME TypeInv, NEW p \in Importing, imp[p].step \in Busy,
         NEW s \in {"fetch", "open", "write", "pack", "commit"},
         NEW a \in Artifact \cup {Torn, None},
         s \in {"open", "write", "pack"} => a \in Artifact \cup {Torn},
         s = "commit" => imp[p].step \in {"ref", "commit"},
         Set(p, [In(p, s) EXCEPT !.art = a])
  PROVE  Steady(p, imp'[p])
<1> DEFINE r == [In(p, s) EXCEPT !.art = a]
<1>1. Moves(p, r) /\ imp'[p] = r
  BY MovedTo
<1>2. r \in Record(Len(made))
  <2>1. In(p, s) \in Record(Len(made))
    BY InRecord DEF Steps
  <2> QED
    BY <2>1 DEF Record
<1>3. Placed(r)
  BY ImpType, BusyHas DEF In, Placed, Record, Busy
<1> QED
  BY <1>1, <1>2, <1>3 DEF Steady

LEMMA InIsHand ==
  ASSUME TypeInv, NEW p \in Importing, NEW s \in Steps
  PROVE  In(p, s) = [In(p, s) EXCEPT !.art = imp[p].art]
  BY ImpType DEF In, Record

LEMMA CacheGetSteady ==
  ASSUME TypeInv, NEW p \in Importing, CacheGet(p)
  PROVE  Steady(p, imp'[p])
<1>1. imp[p].step = "lookup" /\ imp[p].step \in Busy
  BY DEF CacheGet, Busy
<1>2. cache[KeyOf(p)] \in {None, Torn} \cup Artifact
  BY <1>1, BusyHas DEF TypeInv
<1>3. CASE cache[KeyOf(p)] = None
  <2>1. Set(p, [In(p, "fetch") EXCEPT !.art = imp[p].art])
    BY <1>3, InIsHand DEF CacheGet, Steps
  <2>2. imp[p].art \in Artifact \cup {Torn, None}
    BY ImpType DEF Record
  <2> QED
    BY <1>1, <2>1, <2>2, HandSteady
<1>4. CASE cache[KeyOf(p)] # None
  <2>1. Set(p, [In(p, "pack") EXCEPT !.art = cache[KeyOf(p)]])
    BY <1>4 DEF CacheGet
  <2> QED
    BY <1>1, <1>2, <1>4, <2>1, HandSteady
<1> QED
  BY <1>3, <1>4

LEMMA ServedIs ==
  ASSUME TypeInv, NEW q \in Package, NEW tag \in Tag \cup {"latest"}, NEW a \in Served(q, tag)
  PROVE  /\ a \in Artifact /\ a[1] = q /\ a[2] \in Published(q)
         /\ tag # "latest" => a[2] = tag
<1>1. a \in {q} \X Published(q) /\ (tag # "latest" => a[2] = tag)
  BY UpstreamTypes DEF Served
<1> QED
  BY <1>1, UpstreamTypes DEF Artifact

LEMMA FetchSteady ==
  ASSUME TypeInv, NEW p \in Importing, Fetch(p)
  PROVE  Steady(p, imp'[p])
<1>1. imp[p].step = "fetch" /\ imp[p].step \in Busy
  BY DEF Fetch, Busy
<1>2. ASSUME NEW a \in Served(imp[p].cur, imp[p].tag), Set(p, [In(p, "open") EXCEPT !.art = a])
      PROVE  Steady(p, imp'[p])
  <2>1. a \in Artifact
    BY <1>1, BusyHas, ServedIs
  <2> QED
    BY <1>1, <1>2, <2>1, HandSteady
<1>3. CASE Miss(p, imp[p].cur, imp[p].queue)
  BY <1>1, <1>3, BusyHas, ImpType, MissSteady
<1>4. CASE Fail(p)
  BY <1>4, FailSteady, MovedTo DEF Fail
<1> QED
  BY <1>2, <1>3, <1>4 DEF Fetch

LEMMA CacheOpenSteady ==
  ASSUME TypeInv, NEW p \in Importing, CacheOpen(p)
  PROVE  Steady(p, imp'[p])
<1>1. imp[p].step = "open" /\ imp[p].step \in Busy
  BY DEF CacheOpen, Busy
<1>2. Set(p, [In(p, "write") EXCEPT !.art = imp[p].art])
  BY InIsHand DEF CacheOpen, Steps
<1>3. imp[p].art \in Artifact \cup {Torn}
  BY <1>1, ImpType DEF Placed
<1> QED
  BY <1>1, <1>2, <1>3, HandSteady

LEMMA CacheWriteSteady ==
  ASSUME TypeInv, NEW p \in Importing, CacheWrite(p)
  PROVE  Steady(p, imp'[p])
<1>1. imp[p].step = "write" /\ imp[p].step \in Busy
  BY DEF CacheWrite, Busy
<1>2. Set(p, [In(p, "pack") EXCEPT !.art = imp[p].art])
  BY InIsHand DEF CacheWrite, Steps
<1>3. imp[p].art \in Artifact \cup {Torn}
  BY <1>1, ImpType DEF Placed
<1> QED
  BY <1>1, <1>2, <1>3, HandSteady

\* What is packed is a manifest, and its dependencies are those of the release.
Described(p) == IF eco = "apt" THEN DebDeps(imp[p].art) ELSE imp[p].deps

LEMMA ManifestIs ==
  ASSUME TypeInv, NEW p \in Importing, imp[p].step = "pack", Unpacks(imp[p].art)
  PROVE  /\ imp[p].art \in Artifact /\ Described(p) \in Seq(Package)
         /\ ManifestOf(p) \in ManifestRec
         /\ ManifestOf(p).name = EluName[imp[p].cur]
         /\ ManifestOf(p).tag = IF eco = "apt" THEN imp[p].art[2] ELSE imp[p].tag
         /\ ManifestOf(p).layer.of = imp[p].art
         /\ Len(ManifestOf(p).deps) = Len(Described(p))
         /\ \A i \in 1..Len(Described(p)) :
              ManifestOf(p).deps[i].name = EluName[Described(p)[i]]
<1> DEFINE tag == IF eco = "apt" THEN imp[p].art[2] ELSE imp[p].tag
           deps == Described(p)
           pins == [i \in 1..Len(deps) |-> [name |-> EluName[deps[i]], pin |-> Pin(p, deps[i])]]
<1>1. imp[p].step \in Busy /\ imp[p].art \in Artifact
  BY ImpType DEF Busy, Placed, Unpacks
<1>2. tag \in Tag
  BY <1>1, BusyHas DEF Artifact
<1>3. deps \in Seq(Package)
  BY <1>1, ImpType, ImportAssumption DEF Described, DebDeps, Artifact
<1>4. ManifestOf(p) = [name |-> EluName[imp[p].cur], tag |-> tag,
                       layer |-> [of |-> imp[p].art, day |-> imp[p].day], deps |-> pins]
  BY DEF ManifestOf, Packaged, DebTag, PackedLayer, Described
<1> HIDE DEF deps
<1>5. \A i \in 1..Len(deps) : deps[i] \in Package /\ EluName[deps[i]] \in Name /\ Pin(p, deps[i]) \in Nat
  <2>1. \A i \in 1..Len(deps) : deps[i] \in Package /\ EluName[deps[i]] \in Name
    BY <1>3, ImportAssumption
  <2>2. \A n \in Name : imp[p].imported[n] \in Nat
    BY ImpType
  <2> QED
    BY <2>1, <2>2 DEF Pin
<1>6. /\ pins \in Seq([name : Name, pin : Nat]) /\ Len(pins) = Len(deps)
      /\ \A i \in 1..Len(deps) : pins[i].name = EluName[deps[i]]
  BY <1>3, <1>5
<1> HIDE DEF pins
<1>7. ManifestOf(p) \in ManifestRec
  BY <1>1, <1>2, <1>4, <1>6, BusyHas DEF ManifestRec
<1>8. /\ ManifestOf(p).name = EluName[imp[p].cur] /\ ManifestOf(p).tag = tag
      /\ ManifestOf(p).layer.of = imp[p].art /\ ManifestOf(p).deps = pins
  BY <1>4
<1> QED
  BY <1>1, <1>3, <1>6, <1>7, <1>8 DEF deps

LEMMA QueueAfterIs ==
  ASSUME TypeInv, NEW p \in Importing, imp[p].step = "pack", Unpacks(imp[p].art)
  PROVE  /\ QueueAfter(p) \in Seq(Package)
         /\ QueueAfter(p) = IF eco = "apt" /\ imp[p].closure
                              THEN imp[p].queue \o Queued(p, Described(p)) ELSE imp[p].queue
<1>1. Queued(p, Described(p)) \in Seq(Package)
  BY ManifestIs, QueuedIs
<1>2. QueueAfter(p) = IF eco = "apt" /\ imp[p].closure
                        THEN imp[p].queue \o Queued(p, Described(p)) ELSE imp[p].queue
  BY DEF QueueAfter, Described
<1> QED
  BY <1>1, <1>2, ImpType

\* What a package leaves in the hands of the process that made it.
Packed(p) ==
  [In(p, "ref") EXCEPT !.man = HashOf(ManifestOf(p)), !.queue = QueueAfter(p)]

LEMMA PackIs ==
  ASSUME TypeInv, NEW p \in Importing, Pack(p), Unpacks(imp[p].art)
  PROVE  /\ imp[p].step = "pack" /\ ManifestOf(p) \in ManifestRec
         /\ made' = Put(ManifestOf(p)) /\ HashOf(ManifestOf(p)) \in 1..Len(made')
         /\ Moves(p, Packed(p)) /\ imp'[p] = Packed(p)
         /\ Packed(p) \in Record(Len(made')) /\ Placed(Packed(p))
<1>1. /\ imp[p].step = "pack" /\ made' = Put(ManifestOf(p))
      /\ Moves(p, Packed(p)) /\ imp'[p] = Packed(p)
  BY MovedTo DEF Pack, Packed
<1>2. ManifestOf(p) \in ManifestRec /\ made \in Seq(ManifestRec)
  BY <1>1, ManifestIs DEF TypeInv
<1>3. HashOf(ManifestOf(p)) \in 1..Len(made') /\ Len(made') \in Nat /\ Len(made) <= Len(made')
  BY <1>1, <1>2, PutGrows
<1>4. Packed(p) \in Record(Len(made'))
  <2>1. In(p, "ref") \in Record(Len(made)) /\ Len(made) \in Nat
    BY InRecord, ImpType DEF Steps
  <2>2. 0..Len(made) \subseteq 0..Len(made')
    BY <1>3, <2>1
  <2>3. In(p, "ref") \in Record(Len(made'))
    BY <2>1, <2>2 DEF Record
  <2>4. QueueAfter(p) \in Seq(Package)
    BY <1>1, QueueAfterIs
  <2>5. HashOf(ManifestOf(p)) \in 0..Len(made')
    BY <1>3
  <2> QED
    BY <2>3, <2>4, <2>5 DEF Packed, Record
<1>5. Placed(Packed(p))
  <2>1. imp[p].step \in Busy /\ HashOf(ManifestOf(p)) # 0
    BY <1>1, <1>3 DEF Busy
  <2> QED
    BY <2>1, ImpType, BusyHas DEF Packed, In, Placed, Record, Busy
<1> QED
  BY <1>1, <1>2, <1>3, <1>4, <1>5

LEMMA ImportedSteady ==
  ASSUME TypeInv, NEW p \in Importing, imp[p].step \in {"ref", "commit"}, Imported(p)
  PROVE  Steady(p, imp'[p])
<1> DEFINE r == [In(p, "pop") EXCEPT !.imported[EluName[imp[p].cur]] = imp[p].man,
                   !.cur = None, !.tag = None, !.deps = <<>>, !.art = None, !.man = 0]
           now == [imp[p].imported EXCEPT ![EluName[imp[p].cur]] = imp[p].man]
           s == [In(p, "pop") EXCEPT !.imported = now, !.cur = None, !.tag = None]
<1>1. Moves(p, r) /\ imp'[p] = r
  BY MovedTo DEF Imported
<1>2. In(p, "pop") \in Record(Len(made)) /\ In(p, "pop").imported = imp[p].imported
  <2>1. In(p, "pop") \in Record(Len(made))
    BY InRecord DEF Steps
  <2>2. In(p, "pop").imported = imp[p].imported
    BY ImpType DEF In, Record
  <2> QED
    BY <2>1, <2>2
<1>3. now \in [Name -> 0..Len(made)]
  BY ImpType DEF Record
<1>4. s \in Record(Len(made))
  <2> HIDE DEF now
  <2> QED
    BY <1>2, <1>3 DEF Record
<1>5. r = [s EXCEPT !.deps = <<>>, !.art = None, !.man = 0]
  BY <1>2
<1>6. [s EXCEPT !.deps = <<>>, !.art = None, !.man = 0] \in Record(Len(made))
  <2> HIDE DEF s
  <2>1. <<>> \in Seq(Package) /\ 0 \in 0..Len(made)
    BY ImpType
  <2> QED
    BY <1>4, <2>1 DEF Record
<1>7. Placed(r)
  <2>1. imp[p].step \in Busy
    BY DEF Busy
  <2> QED
    BY <2>1, ImpType, BusyHas DEF In, Placed, Record, Busy
<1> QED
  BY <1>1, <1>5, <1>6, <1>7 DEF Steady

LEMMA PutRefSteady ==
  ASSUME TypeInv, NEW p \in Importing, PutRefCheck(p) \/ PutRefCommit(p)
  PROVE  Steady(p, imp'[p])
<1>1. imp[p].step \in {"ref", "commit"} /\ imp[p].step \in Busy
  BY DEF PutRefCheck, PutRefCommit, Busy
<1>2. CASE Imported(p)
  BY <1>1, <1>2, ImportedSteady
<1>3. CASE Set(p, In(p, "commit"))
  <2>1. Set(p, [In(p, "commit") EXCEPT !.art = imp[p].art])
    BY <1>3, InIsHand DEF Steps
  <2>2. imp[p].art \in Artifact \cup {Torn, None}
    BY ImpType DEF Record
  <2> QED
    BY <1>1, <2>1, <2>2, HandSteady
<1>4. CASE Fail(p)
  BY <1>4, FailSteady, MovedTo DEF Fail
<1> QED
  BY <1>2, <1>3, <1>4 DEF PutRefCheck, PutRefCommit

\* The ref that a process puts.
LEMMA RefOfIs ==
  ASSUME TypeInv, NEW p \in Importing, imp[p].step \in {"ref", "commit"}
  PROVE  imp[p].man \in 1..Len(made) /\ made[imp[p].man] \in ManifestRec /\ RefOf(p) \in Name \X Tag
<1>1. imp[p].man \in 1..Len(made)
  BY ImpType DEF Placed, Record
<1>2. made[imp[p].man] \in ManifestRec
  BY <1>1 DEF TypeInv
<1>3. made[imp[p].man].name \in Name /\ made[imp[p].man].tag \in Tag
  BY <1>2 DEF ManifestRec
<1>4. \A tag \in Tag : VersionOf(tag) \in Tag
  BY ImportAssumption DEF TypeInv, VersionOf, DebVersion, PipVersion, NpmVersion
<1> QED
  BY <1>1, <1>2, <1>3, <1>4 DEF RefOf

\* The steps that put no manifest, and those that put one.
LEMMA StepSteady ==
  ASSUME TypeInv, NEW p \in Importing,
         (\E k \in Commands, d \in Day : Begin(p, k, d)) \/ Proceed(p) \/ Die(p)
  PROVE  \/ Steady(p, imp'[p]) /\ made' = made
         \/ Pack(p) /\ Unpacks(imp[p].art)
<1>1. ASSUME NEW k \in Commands, NEW d \in Day, Begin(p, k, d)
      PROVE  Steady(p, imp'[p]) /\ made' = made
  BY <1>1, BeginSteady DEF Begin
<1>2. CASE NextName(p)
  BY <1>2, NextNameSteady DEF NextName
<1>3. CASE Pop(p)
  BY <1>3, PopSteady DEF Pop
<1>4. CASE CacheGet(p)
  BY <1>4, CacheGetSteady DEF CacheGet
<1>5. CASE Fetch(p)
  BY <1>5, FetchSteady DEF Fetch
<1>6. CASE CacheOpen(p)
  BY <1>6, CacheOpenSteady DEF CacheOpen
<1>7. CASE CacheWrite(p)
  BY <1>7, CacheWriteSteady DEF CacheWrite
<1>8. CASE Pack(p) /\ ~Unpacks(imp[p].art)
  BY <1>8, FailSteady, MovedTo DEF Pack, Fail
<1>9. CASE PutRefCheck(p) \/ PutRefCommit(p)
  BY <1>9, PutRefSteady DEF PutRefCheck, PutRefCommit
<1>10. CASE Die(p)
  BY <1>10, FailSteady, MovedTo DEF Die, Fail
<1> QED
  BY <1>1, <1>2, <1>3, <1>4, <1>5, <1>6, <1>7, <1>8, <1>9, <1>10 DEF Proceed

LEMMA NextType == TypeInv /\ [ImportNext]_ivars => TypeInv'
<1> SUFFICES ASSUME TypeInv, [ImportNext]_ivars PROVE TypeInv'
  OBVIOUS
<1>1. CASE UNCHANGED ivars
  BY <1>1 DEF ivars, TypeInv, Placed
<1>2. ASSUME NEW q \in Package, Publish(q) PROVE TypeInv'
  <2>1. latest' \in [Package -> Nat] /\ \A r \in Package : latest'[r] <= Len(Releases[r])
    <3>1. \A r \in Package : Len(Releases[r]) \in Nat
      BY ImportAssumption
    <3> QED
      BY <1>2, <3>1 DEF Publish, TypeInv
  <2> QED
    BY <1>2, <2>1 DEF Publish, TypeInv, Placed
<1>3. ASSUME NEW p \in Importing,
             (\E k \in Commands, d \in Day : Begin(p, k, d)) \/ Proceed(p) \/ Die(p)
      PROVE  TypeInv'
  <2>1. eco' = eco /\ latest' = latest
    BY <1>3 DEF Begin, Proceed, Die, NextName, Pop, CacheGet, Fetch, CacheOpen, CacheWrite,
                Pack, PutRefCheck, PutRefCommit
  <2>2. begun' \in 0..MaxCommands
    <3>1. ASSUME NEW k \in Commands, NEW d \in Day, Begin(p, k, d)
          PROVE  begun' \in 0..MaxCommands
      <4>1. begun < MaxCommands /\ begun' = begun + 1
        BY <3>1 DEF Begin
      <4> QED
        BY <4>1, ImportAssumption DEF TypeInv
    <3>2. CASE begun' = begun
      BY <3>2 DEF TypeInv
    <3> QED
      BY <1>3, <3>1, <3>2 DEF Proceed, Die, NextName, Pop, CacheGet, Fetch,
                CacheOpen, CacheWrite, Pack, PutRefCheck, PutRefCommit
  <2>3. /\ made' \in Seq(ManifestRec) /\ Len(made) <= Len(made')
        /\ imp' \in [Importing -> Record(Len(made'))]
        /\ \A o \in Importing : Placed(imp[o])'
    <3>1. CASE Steady(p, imp'[p]) /\ made' = made
      <4>1. made' \in Seq(ManifestRec) /\ Len(made) <= Len(made')
        BY <3>1, ImpType DEF TypeInv
      <4> QED
        BY <2>1, <3>1, <4>1, MoveTypes DEF Steady
    <3>2. CASE Pack(p) /\ Unpacks(imp[p].art)
      <4>1. made' \in Seq(ManifestRec) /\ Len(made) <= Len(made')
        BY <3>2, PackIs, PutGrows DEF TypeInv
      <4> QED
        BY <2>1, <3>2, <4>1, PackIs, MoveTypes
    <3> QED
      BY <1>3, <3>1, <3>2, StepSteady
  <2>4. cache' \in [Key -> {None, Torn} \cup Artifact]
    <3>1. CASE CacheOpen(p)
      BY <3>1 DEF CacheOpen, TypeInv
    <3>2. CASE CacheWrite(p)
      <4>1. imp[p].art \in Artifact \cup {Torn}
        BY <3>2, ImpType DEF CacheWrite, Placed
      <4> QED
        BY <3>2, <4>1 DEF CacheWrite, TypeInv
    <3>3. CASE cache' = cache
      BY <3>3 DEF TypeInv
    <3> QED
      BY <1>3, <3>1, <3>2, <3>3 DEF Begin, Proceed, Die, NextName, Pop, CacheGet, Fetch,
                Pack, PutRefCheck, PutRefCommit
  <2>5. refs' \in [Name \X Tag -> 0..Len(made')]
    <3>1. 0..Len(made) \subseteq 0..Len(made')
      BY <2>3, ImpType
    <3>2. CASE PutRefCommit(p)
      <4>1. imp[p].man \in 0..Len(made)
        BY <3>2, RefOfIs DEF PutRefCommit
      <4> QED
        BY <3>1, <3>2, <4>1 DEF PutRefCommit, TypeInv
    <3>3. CASE refs' = refs
      BY <3>1, <3>3 DEF TypeInv
    <3> QED
      BY <1>3, <3>2, <3>3 DEF Begin, Proceed, Die, NextName, Pop, CacheGet, Fetch, CacheOpen,
                CacheWrite, Pack, PutRefCheck
  <2>6. eco' \in Ecosystem /\ latest' \in [Package -> Nat]
        /\ \A q \in Package : latest'[q] <= Len(Releases[q])
    BY <2>1 DEF TypeInv
  <2> QED
    BY <2>2, <2>3, <2>4, <2>5, <2>6 DEF TypeInv
<1> QED
  BY <1>1, <1>2, <1>3 DEF ImportNext

LEMMA TypeInvariant == ImportSpec => []TypeInv
  BY InitType, NextType, PTL DEF ImportSpec

\* Every variable of the importers keeps its type: the cache holds artifacts, and
\* a ref leads to a manifest that was put.
THEOREM ImportTypeCorrect == ImportSpec => []ImportTypeOK
  BY TypeInvariant, TypeInvTypes, PTL

-----------------------------------------------------------------------------
(***************************************************************************)
(* What a ref lists was published.  An artifact is genuine under a key of  *)
(* the cache if upstream published it under that name, and, but for the    *)
(* word "latest", that version; the cache holds nothing else that unpacks, *)
(* nor do the processes, whoever wrote the entry.                          *)
(***************************************************************************)
Genuine(k, a) ==
  /\ a \in Artifact /\ EluName[a[1]] = k[1] /\ a[2] \in Published(a[1])
  /\ k[2] # "latest" => a[2] = k[2]

ArtOk(i) ==
  i.step \in {"open", "write", "pack"} =>
    i.art = Torn \/ Genuine(<<EluName[i.cur], i.tag>>, i.art)

Listed(m) ==
  /\ m.layer.of \in Artifact /\ EluName[m.layer.of[1]] = m.name
  /\ m.layer.of[2] \in Published(m.layer.of[1]) /\ m.layer.of[2] = m.tag

GenuineInv ==
  /\ \A k \in Key : cache[k] \in {None, Torn} \/ Genuine(k, cache[k])
  /\ \A p \in Importing : ArtOk(imp[p])
  /\ \A i \in 1..Len(made) : Listed(made[i])
  /\ \A r \in Name \X Tag : refs[r] # 0 =>
       made[refs[r]].name = r[1] /\ VersionOf(made[refs[r]].tag) = r[2]

LEMMA GenuineIsPublished == TypeInv /\ GenuineInv => ImportedIsPublished
<1> SUFFICES ASSUME TypeInv, GenuineInv, NEW r \in Name \X Tag, refs[r] # 0
             PROVE  /\ \E q \in Package :
                         EluName[q] = r[1] /\ made[refs[r]].layer.of \in {q} \X Published(q)
                    /\ made[refs[r]].name = r[1]
                    /\ VersionOf(made[refs[r]].layer.of[2]) = r[2]
                    /\ made[refs[r]].layer.of[2] = made[refs[r]].tag
  BY DEF ImportedIsPublished
<1>1. refs[r] \in 1..Len(made)
  BY DEF TypeInv
<1>2. Listed(made[refs[r]]) /\ made[refs[r]].name = r[1] /\ VersionOf(made[refs[r]].tag) = r[2]
  BY <1>1 DEF GenuineInv
<1> DEFINE of == made[refs[r]].layer.of
<1>3. of[1] \in Package /\ EluName[of[1]] = r[1] /\ of \in {of[1]} \X Published(of[1])
  BY <1>2 DEF Listed, Artifact
<1> QED
  BY <1>2, <1>3 DEF Listed

LEMMA InitGenuine == ImportInit => GenuineInv
<1> SUFFICES ASSUME ImportInit PROVE GenuineInv
  OBVIOUS
<1>1. \A p \in Importing : ArtOk(imp[p])
  BY DEF ImportInit, ArtOk, AtRest
<1>2. Len(made) = 0
  BY DEF ImportInit
<1> QED
  BY <1>1, <1>2 DEF ImportInit, GenuineInv

LEMMA HandOk ==
  ASSUME TypeInv, NEW p \in Importing, imp[p].step \in Busy, NEW s \in Steps, NEW a,
         a = Torn \/ Genuine(KeyOf(p), a),
         Set(p, [In(p, s) EXCEPT !.art = a])
  PROVE  ArtOk(imp'[p])
<1>1. imp'[p] = [In(p, s) EXCEPT !.art = a]
  BY MovedTo
<1>2. imp'[p].cur = imp[p].cur /\ imp'[p].tag = imp[p].tag /\ imp'[p].art = a
  BY <1>1, ImpType DEF In, Record
<1> QED
  BY <1>2 DEF ArtOk, KeyOf

LEMMA RestOk == ArtOk(AtRest)
  BY DEF ArtOk, AtRest

LEMMA MissOk ==
  ASSUME TypeInv, NEW p \in Importing, NEW q, NEW rest, Miss(p, q, rest)
  PROVE  ArtOk(imp'[p])
<1>1. CASE imp[p].closure
  <2>1. imp'[p] = [In(p, "pop") EXCEPT !.missed = @ \cup {q}, !.queue = rest,
                                       !.cur = None, !.tag = None]
    BY <1>1, MovedTo DEF Miss
  <2>2. imp'[p].step = "pop"
    BY <2>1, ImpType DEF In, Record
  <2> QED
    BY <2>2 DEF ArtOk
<1>2. CASE ~imp[p].closure
  BY <1>2, RestOk, MovedTo DEF Miss, Fail
<1> QED
  BY <1>1, <1>2

\* The steps that take nothing in hand.
LEMMA OtherOk ==
  ASSUME TypeInv, NEW p \in Importing,
         \/ \E k \in Commands, d \in Day : Begin(p, k, d)
         \/ NextName(p) \/ Pop(p) \/ Pack(p) \/ PutRefCheck(p) \/ PutRefCommit(p) \/ Die(p)
  PROVE  ArtOk(imp'[p])
<1>1. CASE Fail(p)
  BY <1>1, RestOk, MovedTo DEF Fail
<1>2. ASSUME NEW k \in Commands, NEW d \in Day, Begin(p, k, d) PROVE ArtOk(imp'[p])
  <2> DEFINE r == [AtRest EXCEPT !.step = "name", !.names = k.names, !.closure = k.closure,
                                 !.want = k.want, !.day = d]
  <2>1. imp'[p] = r
    BY <1>2, MovedTo DEF Begin
  <2>2. r.step = "name"
    BY DEF AtRest
  <2> QED
    BY <2>1, <2>2 DEF ArtOk
<1>3. CASE NextName(p)
  <2> DEFINE r == [AtRest EXCEPT !.step = "pop", !.names = Tail(imp[p].names),
                      !.closure = imp[p].closure, !.want = imp[p].want, !.day = imp[p].day,
                      !.root = Head(imp[p].names), !.queue = <<Head(imp[p].names)>>]
  <2>1. imp'[p] = AtRest \/ imp'[p] = r
    BY <1>3, MovedTo DEF NextName
  <2>2. r.step = "pop"
    BY DEF AtRest
  <2> QED
    BY <2>1, <2>2, RestOk DEF ArtOk
<1>4. CASE Pop(p)
  <2>1. ASSUME NEW q, NEW tag, NEW deps, NEW queue, Lookup(p, q, tag, deps, queue)
        PROVE  ArtOk(imp'[p])
    <3>1. imp'[p].step = "lookup"
      BY <2>1, MovedTo, ImpType DEF Lookup, In, Record
    <3> QED
      BY <3>1 DEF ArtOk
  <2>2. CASE Finish(p)
    <3>1. CASE Set(p, [In(p, "name") EXCEPT !.ok = TRUE])
      <4>1. imp'[p].step = "name"
        BY <3>1, MovedTo, ImpType DEF In, Record
      <4> QED
        BY <4>1 DEF ArtOk
    <3> QED
      BY <1>1, <2>2, <3>1 DEF Finish
  <2>3. CASE Set(p, [imp[p] EXCEPT !.queue = Tail(@)])
    <3>1. imp'[p].step = "pop"
      BY <1>4, <2>3, MovedTo, ImpType DEF Pop, Record
    <3> QED
      BY <3>1 DEF ArtOk
  <2>4. CASE imp[p].queue # <<>> /\ Take(p, Head(imp[p].queue))
    BY <2>1, <2>4, MissOk, TakeLooks DEF Looks
  <2> QED
    BY <1>4, <2>2, <2>3, <2>4 DEF Pop
<1>5. CASE Pack(p)
  <2>1. CASE Unpacks(imp[p].art)
    <3>1. imp'[p].step = "ref"
      BY <1>5, <2>1, PackIs, ImpType, ZenonT(30) DEF Packed, In, Record
    <3> QED
      BY <3>1 DEF ArtOk
  <2> QED
    BY <1>1, <1>5, <2>1 DEF Pack
<1>6. CASE PutRefCheck(p) \/ PutRefCommit(p)
  <2>1. CASE Imported(p)
    <3> DEFINE r == [In(p, "pop") EXCEPT !.imported[EluName[imp[p].cur]] = imp[p].man,
                      !.cur = None, !.tag = None, !.deps = <<>>, !.art = None, !.man = 0]
    <3>1. imp'[p] = r
      BY <2>1, MovedTo DEF Imported
    <3>2. r.step = "pop"
      BY ImpType DEF In, Record
    <3> QED
      BY <3>1, <3>2 DEF ArtOk
  <2>2. CASE Set(p, In(p, "commit"))
    <3>1. imp'[p].step = "commit"
      BY <2>2, MovedTo, ImpType DEF In, Record
    <3> QED
      BY <3>1 DEF ArtOk
  <2> QED
    BY <1>1, <1>6, <2>1, <2>2 DEF PutRefCheck, PutRefCommit
<1> QED
  BY <1>1, <1>2, <1>3, <1>4, <1>5, <1>6 DEF Die

LEMMA CacheOk ==
  ASSUME TypeInv, GenuineInv, NEW p \in Importing,
         CacheGet(p) \/ Fetch(p) \/ CacheOpen(p) \/ CacheWrite(p)
  PROVE  /\ ArtOk(imp'[p])
         /\ \A k \in Key : cache'[k] \in {None, Torn} \/ Genuine(k, cache'[k])
<1>1. imp[p].step \in Busy
  BY DEF CacheGet, Fetch, CacheOpen, CacheWrite, Busy
<1>2. KeyOf(p) \in Key
  BY <1>1, BusyHas
<1>3. CASE CacheGet(p)
  <2>1. CASE cache[KeyOf(p)] = None
    <3>1. imp'[p].step = "fetch"
      BY <1>3, <2>1, MovedTo, ImpType DEF CacheGet, In, Record
    <3> QED
      BY <1>3, <3>1 DEF ArtOk, CacheGet, GenuineInv
  <2>2. CASE cache[KeyOf(p)] # None
    <3>1. cache[KeyOf(p)] = Torn \/ Genuine(KeyOf(p), cache[KeyOf(p)])
      BY <1>2, <2>2 DEF GenuineInv
    <3>2. ArtOk(imp'[p])
      BY <1>1, <1>3, <2>2, <3>1, HandOk DEF CacheGet, Steps
    <3> QED
      BY <1>3, <3>2 DEF CacheGet, GenuineInv
  <2> QED
    BY <2>1, <2>2
<1>4. CASE Fetch(p)
  <2>1. ASSUME NEW a \in Served(imp[p].cur, imp[p].tag), Set(p, [In(p, "open") EXCEPT !.art = a])
        PROVE  ArtOk(imp'[p])
    <3>1. /\ a \in Artifact /\ a[1] = imp[p].cur /\ a[2] \in Published(imp[p].cur)
          /\ imp[p].tag # "latest" => a[2] = imp[p].tag
      BY <1>1, BusyHas, ServedIs
    <3>2. Genuine(KeyOf(p), a)
      BY <3>1 DEF Genuine, KeyOf
    <3> QED
      BY <1>1, <2>1, <3>2, HandOk DEF Steps
  <2>2. ASSUME Fail(p) PROVE ArtOk(imp'[p])
    BY <2>2, RestOk, MovedTo DEF Fail
  <2>3. ArtOk(imp'[p])
    BY <1>4, <2>1, <2>2, MissOk DEF Fetch
  <2> QED
    BY <1>4, <2>3 DEF Fetch, GenuineInv
<1>5. CASE CacheOpen(p) \/ CacheWrite(p)
  <2>1. imp[p].art = Torn \/ Genuine(KeyOf(p), imp[p].art)
    BY <1>5 DEF GenuineInv, ArtOk, KeyOf, CacheOpen, CacheWrite
  <2>2. ASSUME NEW s \in Steps, Set(p, In(p, s)) PROVE ArtOk(imp'[p])
    BY <1>1, <2>1, <2>2, InIsHand, HandOk
  <2>3. ArtOk(imp'[p])
    BY <1>5, <2>2 DEF CacheOpen, CacheWrite, Steps
  <2>4. cache'[KeyOf(p)] \in {Torn, imp[p].art} /\ \A k \in Key : k # KeyOf(p) => cache'[k] = cache[k]
    BY <1>2, <1>5 DEF CacheOpen, CacheWrite, TypeInv
  <2> QED
    BY <2>1, <2>3, <2>4 DEF GenuineInv
<1> QED
  BY <1>3, <1>4, <1>5

LEMMA NextGenuine == TypeInv /\ GenuineInv /\ [ImportNext]_ivars => GenuineInv'
<1> SUFFICES ASSUME TypeInv, GenuineInv, [ImportNext]_ivars PROVE GenuineInv'
  OBVIOUS
<1>1. CASE UNCHANGED ivars
  <2>1. /\ \A k, a : Genuine(k, a)' <=> Genuine(k, a)
        /\ \A m : Listed(m)' <=> Listed(m)
        /\ \A tag : VersionOf(tag)' = VersionOf(tag)
    BY <1>1 DEF ivars, Genuine, Listed, Published, VersionOf, DebVersion, PipVersion, NpmVersion
  <2>2. \A i : ArtOk(i)' <=> ArtOk(i)
    BY <2>1 DEF ArtOk
  <2> QED
    BY <1>1, <2>1, <2>2 DEF ivars, GenuineInv
<1>2. ASSUME NEW q \in Package, Publish(q) PROVE GenuineInv'
  <2>1. \A r \in Package : Published(r) \subseteq Published(r)'
    BY <1>2 DEF Publish, Published, TypeInv
  <2>2. \A k, a : Genuine(k, a) => Genuine(k, a)'
    BY <2>1 DEF Genuine, Artifact
  <2>3. \A m : Listed(m) => Listed(m)'
    BY <2>1 DEF Listed, Artifact
  <2>4. \A i : ArtOk(i) => ArtOk(i)'
    BY <2>2 DEF ArtOk
  <2>5. \A tag : VersionOf(tag)' = VersionOf(tag)
    BY <1>2 DEF Publish, VersionOf, DebVersion, PipVersion, NpmVersion
  <2> QED
    BY <1>2, <2>2, <2>3, <2>4, <2>5 DEF Publish, GenuineInv
<1>3. ASSUME NEW p \in Importing,
             (\E k \in Commands, d \in Day : Begin(p, k, d)) \/ Proceed(p) \/ Die(p)
      PROVE  GenuineInv'
  <2>1. eco' = eco /\ latest' = latest
    BY <1>3 DEF Begin, Proceed, Die, NextName, Pop, CacheGet, Fetch, CacheOpen, CacheWrite,
                Pack, PutRefCheck, PutRefCommit
  <2>2. /\ \A k, a : Genuine(k, a)' <=> Genuine(k, a)
        /\ \A m : Listed(m)' <=> Listed(m)
        /\ \A tag : VersionOf(tag)' = VersionOf(tag)
    BY <2>1 DEF Genuine, Listed, Published, VersionOf, DebVersion, PipVersion, NpmVersion
  <2>3. \A i : ArtOk(i)' <=> ArtOk(i)
    BY <2>2 DEF ArtOk
  <2>4. \A k \in Key : (cache[k] \in {None, Torn} \/ Genuine(k, cache[k]))'
    <3>1. CASE CacheGet(p) \/ Fetch(p) \/ CacheOpen(p) \/ CacheWrite(p)
      BY <2>2, <3>1, CacheOk
    <3>2. CASE cache' = cache
      BY <2>2, <3>2 DEF GenuineInv
    <3> QED
      BY <1>3, <3>1, <3>2 DEF Begin, Proceed, Die, NextName, Pop, Pack, PutRefCheck, PutRefCommit
  <2>5. \A o \in Importing : ArtOk(imp[o])'
    <3>1. ArtOk(imp'[p])
      BY <1>3, CacheOk, OtherOk DEF Proceed
    <3>2. \A o \in Importing : o # p => imp'[o] = imp[o]
      BY <1>3, StepSteady, PackIs DEF Steady, Moves, TypeInv
    <3>3. \A o \in Importing : ArtOk(imp'[o])
      BY <3>1, <3>2 DEF GenuineInv
    <3> QED
      BY <2>2, <3>3 DEF ArtOk
  <2>6. /\ \A i \in 1..Len(made) : made'[i] = made[i]
        /\ \A i \in 1..Len(made') : Listed(made'[i])
    <3>1. CASE made' = made
      BY <3>1 DEF GenuineInv
    <3>2. CASE Pack(p) /\ Unpacks(imp[p].art)
      <4> DEFINE m == ManifestOf(p)
      <4>1. imp[p].step = "pack" /\ imp[p].step \in Busy /\ m \in ManifestRec /\ made' = Put(m)
        BY <3>2, PackIs DEF Busy
      <4>2. Genuine(KeyOf(p), imp[p].art)
        BY <3>2, <4>1 DEF GenuineInv, ArtOk, KeyOf, Unpacks
      <4>3. m.name = EluName[imp[p].cur] /\ m.layer.of = imp[p].art
            /\ m.tag = IF eco = "apt" THEN imp[p].art[2] ELSE imp[p].tag
        BY <3>2, <4>1, ManifestIs
      <4>4. eco # "apt" => imp[p].tag # "latest"
        BY <4>1, BusyHas, ImportAssumption
      <4>5. Listed(m)
        <5> HIDE DEF m
        <5> QED
          BY <4>2, <4>3, <4>4 DEF Genuine, Listed, KeyOf
      <4> HIDE DEF m
      <4>6. /\ \A i \in 1..Len(made) : Put(m)[i] = made[i]
            /\ \A i \in 1..Len(Put(m)) : i \in 1..Len(made) \/ Put(m)[i] = m
        BY <4>1, PutGrows DEF TypeInv
      <4> QED
        BY <4>1, <4>5, <4>6 DEF GenuineInv
    <3> QED
      BY <1>3, <3>1, <3>2, StepSteady
  <2>7. \A r \in Name \X Tag : refs'[r] # 0 =>
          made'[refs'[r]].name = r[1] /\ VersionOf(made'[refs'[r]].tag) = r[2]
    <3>1. \A r \in Name \X Tag : refs[r] # 0 =>
            refs[r] \in 1..Len(made) /\ made'[refs[r]] = made[refs[r]]
      BY <2>6 DEF TypeInv
    <3>2. CASE PutRefCommit(p)
      <4>1. imp[p].man \in 1..Len(made) /\ RefOf(p) \in Name \X Tag
        BY <3>2, RefOfIs DEF PutRefCommit
      <4>2. \A r \in Name \X Tag : refs'[r] = IF r = RefOf(p) THEN imp[p].man ELSE refs[r]
        BY <3>2 DEF PutRefCommit, TypeInv
      <4>3. /\ made'[imp[p].man].name = RefOf(p)[1]
            /\ VersionOf(made'[imp[p].man].tag) = RefOf(p)[2]
        BY <2>6, <4>1 DEF RefOf
      <4> QED
        BY <3>1, <4>2, <4>3 DEF GenuineInv
    <3>3. CASE refs' = refs
      BY <3>1, <3>3 DEF GenuineInv
    <3> QED
      BY <1>3, <3>2, <3>3 DEF Begin, Proceed, Die, NextName, Pop, CacheGet, Fetch, CacheOpen,
                CacheWrite, Pack, PutRefCheck
  <2>8. \A i \in 1..Len(made') : Listed(made[i])'
    BY <2>2, <2>6 DEF Listed
  <2>9. \A r \in Name \X Tag : (refs[r] # 0 =>
          made[refs[r]].name = r[1] /\ VersionOf(made[refs[r]].tag) = r[2])'
    BY <2>2, <2>7 DEF VersionOf, DebVersion, PipVersion, NpmVersion
  <2> QED
    BY <2>4, <2>5, <2>8, <2>9 DEF GenuineInv
<1> QED
  BY <1>1, <1>2, <1>3 DEF ImportNext

\* Whatever commands run at once, and whatever a torn entry of the cache makes of
\* some of them: what a ref lists is what upstream published.
THEOREM RefsArePublished == ImportSpec => []ImportedIsPublished
<1>1. TypeInv /\ GenuineInv /\ [ImportNext]_ivars => GenuineInv'
  BY NextGenuine
<1> QED
  BY <1>1, InitGenuine, TypeInvariant, GenuineIsPublished, PTL DEF ImportSpec

-----------------------------------------------------------------------------
(***************************************************************************)
(* A manifest lists the dependencies of a release of what it packages: of  *)
(* the one packaged, and with pip of the one that was the latest.  So do   *)
(* npm and pip from the lookup on; apt reads them from the artifact.       *)
(***************************************************************************)
Read(q, tag, deps) ==
  \E t \in Published(q) : (eco # "pip" => t = tag) /\ deps = DependsOn[<<q, t>>]

DepsOk(i) == eco # "apt" /\ i.step \in Busy => Read(i.cur, i.tag, i.deps)

Told(m) == \E t \in Tag : (eco # "pip" => t = m.tag) /\ ListsDepsOf(m, t)

ToldInv ==
  /\ \A p \in Importing : DepsOk(imp[p])
  /\ \A i \in 1..Len(made) : Told(made[i])

LEMMA InitTold == ImportInit => ToldInv
<1> SUFFICES ASSUME ImportInit PROVE ToldInv
  OBVIOUS
<1>1. \A p \in Importing : DepsOk(imp[p])
  BY DEF ImportInit, DepsOk, AtRest, Busy
<1>2. Len(made) = 0
  BY DEF ImportInit
<1> QED
  BY <1>1, <1>2 DEF ToldInv

LEMMA RestDeps == DepsOk(AtRest)
  BY DEF DepsOk, AtRest, Busy

LEMMA MissDeps ==
  ASSUME TypeInv, NEW p \in Importing, NEW q, NEW rest, Miss(p, q, rest)
  PROVE  DepsOk(imp'[p])
<1>1. CASE imp[p].closure
  <2>1. imp'[p] = [In(p, "pop") EXCEPT !.missed = @ \cup {q}, !.queue = rest,
                                       !.cur = None, !.tag = None]
    BY <1>1, MovedTo DEF Miss
  <2>2. imp'[p].step = "pop"
    BY <2>1, ImpType DEF In, Record
  <2> QED
    BY <2>2 DEF DepsOk, Busy
<1>2. CASE ~imp[p].closure
  BY <1>2, RestDeps, MovedTo DEF Miss, Fail
<1> QED
  BY <1>1, <1>2

LEMMA HandDeps ==
  ASSUME TypeInv, NEW p \in Importing, imp[p].step \in Busy, DepsOk(imp[p]), NEW s, NEW a,
         Set(p, [In(p, s) EXCEPT !.art = a])
  PROVE  DepsOk(imp'[p])
<1>1. imp'[p] = [In(p, s) EXCEPT !.art = a]
  BY MovedTo
<1>2. imp'[p].cur = imp[p].cur /\ imp'[p].tag = imp[p].tag /\ imp'[p].deps = imp[p].deps
  BY <1>1, ImpType DEF In, Record
<1> QED
  BY <1>2 DEF DepsOk

LEMMA LookupDeps ==
  ASSUME TypeInv, NEW p \in Importing, NEW q, NEW tag, NEW deps, NEW queue,
         eco # "apt" => Read(q, tag, deps), Lookup(p, q, tag, deps, queue)
  PROVE  DepsOk(imp'[p])
<1>1. imp'[p] = [In(p, "lookup") EXCEPT !.cur = q, !.tag = tag, !.deps = deps, !.queue = queue]
  BY MovedTo DEF Lookup
<1>2. imp'[p].cur = q /\ imp'[p].tag = tag /\ imp'[p].deps = deps
  BY <1>1, ImpType DEF In, Record
<1> QED
  BY <1>2 DEF DepsOk

LEMMA TakeDeps ==
  ASSUME TypeInv, NEW p \in Importing, NEW q \in Package, Take(p, q)
  PROVE  DepsOk(imp'[p])
<1>1. \A want, tag : tag \in Answer(q, want) =>
        tag \in Published(q) /\ Latest(q) \in Published(q)
  BY DEF Answer, Latest, Published, TypeInv
<1>2. \A want, tag : eco = "npm" /\ tag \in Answer(q, want) => Read(q, tag, NpmDeps(q, tag))
  BY <1>1 DEF Read, NpmDeps
<1>3. \A want, tag : eco = "pip" /\ tag \in Answer(q, want) => Read(q, tag, PipDeps(q, tag))
  BY <1>1 DEF Read, PipDeps
<1>4. CASE eco = "apt" /\ (AptTake(p, q) \/ AptSingle(p, q))
  BY <1>4, LookupDeps DEF AptTake, AptSingle
<1>5. CASE eco = "npm" /\ (NpmTake(p, q) \/ NpmSingle(p, q))
  BY <1>2, <1>5, LookupDeps DEF NpmTake, NpmSingle
<1>6. CASE eco = "pip" /\ (PipTake(p, q) \/ PipSingle(p, q))
  BY <1>3, <1>6, LookupDeps DEF PipTake, PipSingle
<1>7. CASE Miss(p, q, Tail(imp[p].queue))
  BY <1>7, MissDeps
<1> QED
  BY <1>4, <1>5, <1>6, <1>7 DEF Take

LEMMA StepDeps ==
  ASSUME TypeInv, NEW p \in Importing, DepsOk(imp[p]),
         (\E k \in Commands, d \in Day : Begin(p, k, d)) \/ Proceed(p) \/ Die(p)
  PROVE  DepsOk(imp'[p])
<1>1. CASE Fail(p)
  BY <1>1, RestDeps, MovedTo DEF Fail
<1>2. ASSUME NEW k \in Commands, NEW d \in Day, Begin(p, k, d) PROVE DepsOk(imp'[p])
  <2> DEFINE r == [AtRest EXCEPT !.step = "name", !.names = k.names, !.closure = k.closure,
                                 !.want = k.want, !.day = d]
  <2>1. imp'[p] = r
    BY <1>2, MovedTo DEF Begin
  <2>2. r.step = "name"
    BY DEF AtRest
  <2> QED
    BY <2>1, <2>2 DEF DepsOk, Busy
<1>3. CASE NextName(p)
  <2> DEFINE r == [AtRest EXCEPT !.step = "pop", !.names = Tail(imp[p].names),
                      !.closure = imp[p].closure, !.want = imp[p].want, !.day = imp[p].day,
                      !.root = Head(imp[p].names), !.queue = <<Head(imp[p].names)>>]
  <2>1. imp'[p] = AtRest \/ imp'[p] = r
    BY <1>3, MovedTo DEF NextName
  <2>2. r.step = "pop"
    BY DEF AtRest
  <2> QED
    BY <2>1, <2>2, RestDeps DEF DepsOk, Busy
<1>4. CASE Pop(p)
  <2>1. CASE Finish(p)
    <3>1. CASE Set(p, [In(p, "name") EXCEPT !.ok = TRUE])
      <4>1. imp'[p].step = "name"
        BY <3>1, MovedTo, ImpType DEF In, Record
      <4> QED
        BY <4>1 DEF DepsOk, Busy
    <3> QED
      BY <1>1, <2>1, <3>1 DEF Finish
  <2>2. CASE Set(p, [imp[p] EXCEPT !.queue = Tail(@)])
    <3>1. imp'[p].step = "pop"
      BY <1>4, <2>2, MovedTo, ImpType DEF Pop, Record
    <3> QED
      BY <3>1 DEF DepsOk, Busy
  <2>3. CASE imp[p].queue # <<>> /\ Take(p, Head(imp[p].queue))
    <3>1. Head(imp[p].queue) \in Package
      BY <2>3, ImpType
    <3> QED
      BY <2>3, <3>1, TakeDeps
  <2> QED
    BY <1>4, <2>1, <2>2, <2>3 DEF Pop
<1>5. ASSUME imp[p].step \in Busy, NEW s, Set(p, In(p, s)) PROVE DepsOk(imp'[p])
  <2>1. In(p, s) = [In(p, s) EXCEPT !.art = imp[p].art]
    BY ImpType DEF In, Record
  <2> QED
    BY <1>5, <2>1, HandDeps
<1>6. CASE CacheGet(p) \/ CacheOpen(p) \/ CacheWrite(p)
  <2>1. imp[p].step \in Busy
    BY <1>6 DEF CacheGet, CacheOpen, CacheWrite, Busy
  <2>2. CASE CacheGet(p)
    <3>1. CASE Set(p, In(p, "fetch"))
      BY <1>5, <2>1, <3>1
    <3>2. CASE Set(p, [In(p, "pack") EXCEPT !.art = cache[KeyOf(p)]])
      BY <2>1, <3>2, HandDeps
    <3> QED
      BY <2>2, <3>1, <3>2 DEF CacheGet
  <2> QED
    BY <1>5, <1>6, <2>1, <2>2 DEF CacheOpen, CacheWrite
<1>7. CASE Fetch(p)
  <2>1. imp[p].step \in Busy
    BY <1>7 DEF Fetch, Busy
  <2> QED
    BY <1>1, <1>7, <2>1, HandDeps, MissDeps DEF Fetch
<1>8. CASE Pack(p)
  <2>1. CASE Unpacks(imp[p].art)
    <3>1. imp[p].step = "pack" /\ imp'[p] = Packed(p)
      BY <1>8, <2>1, PackIs
    <3>2. \A man, queue : LET r == [In(p, "ref") EXCEPT !.man = man, !.queue = queue]
                          IN  r.cur = imp[p].cur /\ r.tag = imp[p].tag /\ r.deps = imp[p].deps
      BY ImpType DEF In, Record
    <3>3. imp'[p].cur = imp[p].cur /\ imp'[p].tag = imp[p].tag /\ imp'[p].deps = imp[p].deps
      BY <3>1, <3>2 DEF Packed
    <3> QED
      BY <3>1, <3>3 DEF DepsOk, Busy
  <2> QED
    BY <1>1, <1>8, <2>1 DEF Pack
<1>9. CASE PutRefCheck(p) \/ PutRefCommit(p)
  <2>1. imp[p].step \in Busy
    BY <1>9 DEF PutRefCheck, PutRefCommit, Busy
  <2>2. CASE Imported(p)
    <3> DEFINE r == [In(p, "pop") EXCEPT !.imported[EluName[imp[p].cur]] = imp[p].man,
                      !.cur = None, !.tag = None, !.deps = <<>>, !.art = None, !.man = 0]
    <3>1. imp'[p] = r
      BY <2>2, MovedTo DEF Imported
    <3>2. r.step = "pop"
      BY ImpType DEF In, Record
    <3> QED
      BY <3>1, <3>2 DEF DepsOk, Busy
  <2> QED
    BY <1>1, <1>5, <1>9, <2>1, <2>2 DEF PutRefCheck, PutRefCommit
<1> QED
  BY <1>1, <1>2, <1>3, <1>4, <1>6, <1>7, <1>8, <1>9 DEF Proceed, Die

\* What is packed is told from the release that was looked up, or unpacked.
LEMMA PackTold ==
  ASSUME TypeInv, GenuineInv, NEW p \in Importing, DepsOk(imp[p]),
         imp[p].step = "pack", Unpacks(imp[p].art)
  PROVE  Told(ManifestOf(p))
<1> DEFINE m == ManifestOf(p)
           deps == Described(p)
<1>1. /\ m.name = EluName[imp[p].cur] /\ m.tag = IF eco = "apt" THEN imp[p].art[2] ELSE imp[p].tag
      /\ Len(m.deps) = Len(deps) /\ \A i \in 1..Len(deps) : m.deps[i].name = EluName[deps[i]]
      /\ imp[p].art \in Artifact
  BY ManifestIs
<1>2. imp[p].cur \in Package
  BY BusyHas DEF Busy
<1>3. \A q \in Package : Published(q) \subseteq Tag
  BY UpstreamTypes
<1>4. CASE eco = "apt"
  <2>1. Genuine(KeyOf(p), imp[p].art)
    BY DEF GenuineInv, ArtOk, KeyOf, Unpacks
  <2>2. /\ imp[p].art[1] \in Package /\ EluName[imp[p].art[1]] = m.name
        /\ imp[p].art[2] \in Published(imp[p].art[1]) /\ imp[p].art[2] \in Tag
        /\ imp[p].art = <<imp[p].art[1], imp[p].art[2]>>
    BY <1>1, <2>1 DEF Genuine, KeyOf, Artifact
  <2>3. deps = DependsOn[<<imp[p].art[1], imp[p].art[2]>>]
    BY <1>4, <2>2 DEF Described, DebDeps
  <2> HIDE DEF m, deps
  <2> QED
    BY <1>1, <1>4, <2>2, <2>3 DEF Told, ListsDepsOf, m
<1>5. CASE eco # "apt"
  <2>1. PICK t \in Published(imp[p].cur) :
          (eco # "pip" => t = imp[p].tag) /\ imp[p].deps = DependsOn[<<imp[p].cur, t>>]
    BY <1>5 DEF DepsOk, Busy, Read
  <2>2. deps = DependsOn[<<imp[p].cur, t>>] /\ t \in Tag
    BY <1>2, <1>3, <1>5, <2>1 DEF Described
  <2>3. ListsDepsOf(m, t)
    <3> HIDE DEF m, deps
    <3> QED
      BY <1>1, <1>2, <2>1, <2>2 DEF ListsDepsOf
  <2> HIDE DEF m, deps
  <2> QED
    BY <1>1, <1>5, <2>1, <2>2, <2>3 DEF Told, m
<1> QED
  BY <1>4, <1>5

LEMMA NextTold == TypeInv /\ GenuineInv /\ ToldInv /\ [ImportNext]_ivars => ToldInv'
<1> SUFFICES ASSUME TypeInv, GenuineInv, ToldInv, [ImportNext]_ivars PROVE ToldInv'
  OBVIOUS
<1>1. eco' = eco /\ \A q \in Package : Published(q) \subseteq Published(q)'
  <2>1. eco' = eco
    BY DEF ImportNext, ivars, Publish, Begin, Proceed, Die, NextName, Pop, CacheGet, Fetch,
           CacheOpen, CacheWrite, Pack, PutRefCheck, PutRefCommit
  <2>2. ASSUME NEW q \in Package, Publish(q)
        PROVE  \A r \in Package : Published(r) \subseteq Published(r)'
    BY <2>2 DEF Publish, Published, TypeInv
  <2>3. CASE latest' = latest
    BY <2>1, <2>3 DEF Published
  <2> QED
    BY <2>1, <2>2, <2>3 DEF ImportNext, ivars, Begin, Proceed, Die, NextName, Pop, CacheGet, Fetch,
           CacheOpen, CacheWrite, Pack, PutRefCheck, PutRefCommit
<1>2. \A m : Told(m) => Told(m)'
  BY <1>1 DEF Told, ListsDepsOf
<1>3. ASSUME NEW p \in Importing, DepsOk(imp'[p]) PROVE DepsOk(imp[p])'
  <2>1. eco # "apt" /\ imp'[p].step \in Busy => imp'[p].cur \in Package
    <3>1. TypeInv'
      BY NextType
    <3> QED
      BY <3>1 DEF TypeInv, Placed
  <2> QED
    BY <1>1, <1>3, <2>1 DEF DepsOk, Read
<1>4. CASE imp' = imp /\ made' = made
  BY <1>2, <1>3, <1>4 DEF ToldInv
<1>5. ASSUME NEW p \in Importing,
             (\E k \in Commands, d \in Day : Begin(p, k, d)) \/ Proceed(p) \/ Die(p)
      PROVE  ToldInv'
  <2>1. \A o \in Importing : DepsOk(imp'[o])
    <3>1. DepsOk(imp'[p])
      BY <1>5, StepDeps DEF ToldInv
    <3>2. \A o \in Importing : o # p => imp'[o] = imp[o]
      BY <1>5, StepSteady, PackIs DEF Steady, Moves, TypeInv
    <3> QED
      BY <3>1, <3>2 DEF ToldInv
  <2>2. \A i \in 1..Len(made') : Told(made'[i])
    <3>1. CASE made' = made
      BY <3>1 DEF ToldInv
    <3>2. CASE Pack(p) /\ Unpacks(imp[p].art)
      <4> DEFINE m == ManifestOf(p)
      <4>1. imp[p].step = "pack" /\ m \in ManifestRec /\ made' = Put(m)
        BY <3>2, PackIs
      <4>2. Told(m)
        BY <3>2, <4>1, PackTold DEF ToldInv
      <4> HIDE DEF m
      <4>3. /\ \A i \in 1..Len(made) : Put(m)[i] = made[i]
            /\ \A i \in 1..Len(Put(m)) : i \in 1..Len(made) \/ Put(m)[i] = m
        BY <4>1, PutGrows DEF TypeInv
      <4> QED
        BY <4>1, <4>2, <4>3 DEF ToldInv
    <3> QED
      BY <1>5, <3>1, <3>2, StepSteady
  <2>3. \A i \in 1..Len(made') : Told(made[i])'
    BY <1>1, <2>2 DEF Told, ListsDepsOf
  <2> QED
    BY <1>3, <2>1, <2>3 DEF ToldInv
<1> QED
  BY <1>4, <1>5 DEF ImportNext, ivars, Publish

-----------------------------------------------------------------------------
(***************************************************************************)
(* A closure is exact.  For a process with the record i, when the          *)
(* manifests m were made: the names it imported, those its packages need,  *)
(* the one it is at, and what that one needs.                              *)
(***************************************************************************)
Names(s) == {EluName[q] : q \in Elements(s)}
DepNames(man) == {man.deps[j].name : j \in 1..Len(man.deps)}
Got(i) == {n \in Name : i.imported[n] # 0}
Needs(i, m) == UNION {DepNames(m[i.imported[n]]) : n \in Got(i)}
Coming(i) == IF i.step \in Busy THEN {EluName[i.cur]} ELSE {}
Asking(i, m) ==
  CASE i.step \in {"ref", "commit"} -> DepNames(m[i.man])
    [] i.step \in Busy \ {"ref", "commit"} -> Names(i.deps)
    [] OTHER -> {}
Accounted(i) == Got(i) \cup Coming(i) \cup Names(i.queue) \cup {EluName[q] : q \in i.missed}
Wanted(i, m) == {EluName[i.root]} \cup Needs(i, m)

\* Everything imported is reached from the package asked for.
Connected(i, m) ==
  \A s \in SUBSET Name :
    /\ EluName[i.root] \in s
    /\ \A n \in s \cap Got(i) : DepNames(m[i.imported[n]]) \cap Got(i) \subseteq s
    => Got(i) \subseteq s

\* What is needed is had, at hand, queued or missed; what is queued, or at hand,
\* is needed.
Walked(i, m) ==
  /\ Needs(i, m) \cup Asking(i, m) \subseteq Accounted(i)
  /\ Names(i.queue) \subseteq Wanted(i, m) \cup Asking(i, m)
  /\ Coming(i) \subseteq Wanted(i, m)
  /\ Connected(i, m)

Walks(i) == i.closure /\ (i.step \notin {"idle", "name"} \/ i.ok)

LocalInv(i, m) ==
  /\ i.ok => i.step = "name" /\ i.queue = <<>> /\ EluName[i.root] \in Got(i)
  /\ eco = "apt" /\ i.step \in Busy => i.deps = <<>>
  /\ Walks(i) => Walked(i, m)

ClosureInv == \A p \in Importing : LocalInv(imp[p], made)

LEMMA NamesAre ==
  ASSUME NEW s \in Seq(Package), NEW t \in Seq(Package)
  PROVE  /\ Names(<<>>) = {} /\ Names(s) \subseteq Name
         /\ Names(s \o t) = Names(s) \cup Names(t)
         /\ s # <<>> => Names(s) = {EluName[Head(s)]} \cup Names(Tail(s))
<1>1. Elements(<<>>) = {}
  BY DEF Elements
<1>2. Elements(s) \subseteq Package
  BY DEF Elements
<1>3. Elements(s \o t) = Elements(s) \cup Elements(t)
  <2>1. Len(s \o t) = Len(s) + Len(t) /\ Len(s) \in Nat /\ Len(t) \in Nat
    OBVIOUS
  <2>2. \A i \in 1..Len(s) : i \in 1..Len(s \o t) /\ (s \o t)[i] = s[i]
    BY <2>1
  <2>3. \A i \in 1..Len(t) : i + Len(s) \in 1..Len(s \o t) /\ (s \o t)[i + Len(s)] = t[i]
    BY <2>1
  <2>4. \A i \in 1..Len(s \o t) : i \in 1..Len(s) \/ (i - Len(s) \in 1..Len(t) /\ (s \o t)[i] = t[i - Len(s)])
    BY <2>1
  <2>5. Elements(s) \cup Elements(t) \subseteq Elements(s \o t)
    BY <2>2, <2>3 DEF Elements
  <2>6. Elements(s \o t) \subseteq Elements(s) \cup Elements(t)
    BY <2>2, <2>4 DEF Elements
  <2> QED
    BY <2>5, <2>6
<1>4. ASSUME s # <<>> PROVE Elements(s) = {Head(s)} \cup Elements(Tail(s))
  <2>1. Len(s) \in Nat \ {0} /\ Head(s) = s[1] /\ Len(Tail(s)) = Len(s) - 1
    BY <1>4
  <2>2. \A i \in 1..Len(Tail(s)) : i + 1 \in 1..Len(s) /\ Tail(s)[i] = s[i + 1]
    BY <1>4, <2>1
  <2>3. \A i \in 1..Len(s) : i = 1 \/ (i - 1 \in 1..Len(Tail(s)) /\ s[i] = Tail(s)[i - 1])
    BY <1>4, <2>1, <2>2
  <2>4. 1 \in 1..Len(s)
    BY <2>1
  <2>5. {Head(s)} \cup Elements(Tail(s)) \subseteq Elements(s)
    BY <2>1, <2>2, <2>4 DEF Elements
  <2>6. Elements(s) \subseteq {Head(s)} \cup Elements(Tail(s))
    BY <2>1, <2>3 DEF Elements
  <2> QED
    BY <2>5, <2>6
<1>5. Names(s) \subseteq Name
  BY <1>2, ImportAssumption DEF Names
<1> QED
  BY <1>1, <1>3, <1>4, <1>5 DEF Names

LEMMA ClosureInvExact == TypeInv /\ ToldInv /\ ClosureInv => ClosureExact
<1> SUFFICES ASSUME TypeInv, ToldInv, ClosureInv, NEW p \in Importing, imp[p].ok, imp[p].closure
             PROVE  LET got      == {n \in Name : imp[p].imported[n] # 0}
                        top      == EluName[imp[p].root]
                        man(n)   == made[imp[p].imported[n]]
                        needs(n) == {man(n).deps[i].name : i \in 1..Len(man(n).deps)}
                    IN  /\ top \in got
                        /\ \A n \in got : needs(n) \subseteq got \cup {EluName[q] : q \in imp[p].missed}
                        /\ \A s \in SUBSET got :
                             top \in s /\ (\A n \in s : needs(n) \cap got \subseteq s) => s = got
                        /\ \A n \in got : \/ ListsDepsOf(man(n), man(n).tag)
                                          \/ eco = "pip" /\ \E t \in Tag : ListsDepsOf(man(n), t)
  BY DEF ClosureExact
<1> DEFINE i == imp[p]
<1>1. Walked(i, made) /\ i.step = "name" /\ i.queue = <<>> /\ EluName[i.root] \in Got(i)
  BY DEF ClosureInv, LocalInv, Walks
<1>2. Names(i.queue) = {} /\ Coming(i) = {}
  BY <1>1, NamesAre DEF Coming, Busy, Names, Elements
<1>3. \A n \in Got(i) : DepNames(made[i.imported[n]]) \subseteq Got(i) \cup {EluName[q] : q \in i.missed}
  BY <1>1, <1>2 DEF Walked, Needs, Accounted
<1>4. ASSUME NEW s \in SUBSET Got(i), EluName[i.root] \in s,
             \A n \in s : DepNames(made[i.imported[n]]) \cap Got(i) \subseteq s
      PROVE  s = Got(i)
  <2>1. s \in SUBSET Name
    BY DEF Got
  <2> QED
    BY <1>1, <1>4, <2>1 DEF Walked, Connected
<1>5. ASSUME NEW n \in Got(i)
      PROVE  \/ ListsDepsOf(made[i.imported[n]], made[i.imported[n]].tag)
             \/ eco = "pip" /\ \E t \in Tag : ListsDepsOf(made[i.imported[n]], t)
  <2>1. i.imported[n] \in 1..Len(made)
    BY ImpType DEF Got
  <2> QED
    BY <2>1 DEF ToldInv, Told
<1> QED
  BY <1>1, <1>3, <1>4, <1>5 DEF DepNames, Got

-----------------------------------------------------------------------------
LEMMA RestLocal == \A m : LocalInv(AtRest, m)
  BY DEF AtRest, LocalInv, Walks, Busy

LEMMA InitClosure == ImportInit => ClosureInv
  BY RestLocal DEF ImportInit, ClosureInv

\* The manifests a process keeps stay what they are.
LEMMA GrownLocal ==
  ASSUME TypeInv, NEW p \in Importing, LocalInv(imp[p], made),
         \A j \in 1..Len(made) : made'[j] = made[j]
  PROVE  LocalInv(imp[p], made')
<1> DEFINE i == imp[p]
<1>1. \A n \in Got(i) : i.imported[n] \in 1..Len(made)
  BY ImpType DEF Got
<1>2. i.step \in {"ref", "commit"} => i.man \in 1..Len(made)
  BY ImpType DEF Placed, Record
<1>3. \A n \in Got(i) : made'[i.imported[n]] = made[i.imported[n]]
  BY <1>1
<1> HIDE DEF i
<1>4. Needs(i, made') = Needs(i, made)
  BY <1>3 DEF Needs
<1>5. Asking(i, made') = Asking(i, made)
  BY <1>2 DEF Asking
<1>6. Connected(i, made) => Connected(i, made')
  BY <1>3 DEF Connected
<1> QED
  BY <1>4, <1>5, <1>6 DEF LocalInv, Walked, Wanted, i

\* A process that only takes the next step with a package.
LEMMA HandLocal ==
  ASSUME TypeInv, NEW p \in Importing, LocalInv(imp[p], made), imp[p].step \in Busy,
         NEW s \in Busy, s \in {"ref", "commit"} <=> imp[p].step \in {"ref", "commit"},
         NEW a, Set(p, [In(p, s) EXCEPT !.art = a])
  PROVE  LocalInv(imp'[p], made)
<1> DEFINE i == imp[p]
           r == imp'[p]
<1>1. r = [In(p, s) EXCEPT !.art = a]
  BY MovedTo
<1>2. /\ r.step = s /\ r.imported = i.imported /\ r.root = i.root /\ r.queue = i.queue
      /\ r.missed = i.missed /\ r.cur = i.cur /\ r.deps = i.deps /\ r.man = i.man
      /\ r.closure = i.closure /\ r.ok = i.ok
  BY <1>1, ImpType DEF In, Record
<1> HIDE DEF i, r
<1>3. Got(r) = Got(i)
  BY <1>2 DEF Got
<1>4. Needs(r, made) = Needs(i, made) /\ Wanted(r, made) = Wanted(i, made)
  BY <1>2, <1>3 DEF Needs, Wanted
<1>5. Coming(r) = Coming(i)
  BY <1>2 DEF Coming, i
<1>6. Asking(r, made) = Asking(i, made)
  BY <1>2 DEF Asking, i
<1>7. Accounted(r) = Accounted(i)
  BY <1>2, <1>3, <1>5 DEF Accounted
<1>8. Connected(i, made) => Connected(r, made)
  BY <1>2, <1>3 DEF Connected
<1>9. Walks(r) => Walks(i)
  BY <1>2 DEF Walks, Busy, i
<1> QED
  BY <1>2, <1>4, <1>5, <1>6, <1>7, <1>8, <1>9 DEF LocalInv, Walked, i, r, Busy

\* The walk depends on a few fields only.
LEMMA SameWalk ==
  ASSUME NEW i, NEW r, NEW m, r.imported = i.imported, r.root = i.root
  PROVE  /\ Got(r) = Got(i) /\ Needs(r, m) = Needs(i, m) /\ Wanted(r, m) = Wanted(i, m)
         /\ Connected(r, m) <=> Connected(i, m)
<1>1. Got(r) = Got(i)
  BY DEF Got
<1>2. Needs(r, m) = Needs(i, m)
  BY <1>1 DEF Needs
<1> QED
  BY <1>1, <1>2 DEF Wanted, Connected

LEMMA BeginLocal ==
  ASSUME TypeInv, NEW p \in Importing, NEW k \in Commands, NEW d \in Day, Begin(p, k, d)
  PROVE  LocalInv(imp'[p], made)
<1> DEFINE r == [AtRest EXCEPT !.step = "name", !.names = k.names, !.closure = k.closure,
                               !.want = k.want, !.day = d]
<1>1. imp'[p] = r
  BY MovedTo DEF Begin
<1>2. r.step = "name" /\ r.ok = FALSE
  BY DEF AtRest
<1> QED
  BY <1>1, <1>2 DEF LocalInv, Walks, Busy

LEMMA NextNameLocal ==
  ASSUME TypeInv, NEW p \in Importing, NextName(p)
  PROVE  LocalInv(imp'[p], made)
<1> DEFINE r == [AtRest EXCEPT !.step = "pop", !.names = Tail(imp[p].names),
                    !.closure = imp[p].closure, !.want = imp[p].want, !.day = imp[p].day,
                    !.root = Head(imp[p].names), !.queue = <<Head(imp[p].names)>>]
<1>1. \/ imp[p].names = <<>> /\ imp'[p] = AtRest
      \/ imp[p].names # <<>> /\ imp'[p] = r
  <2>1. \/ imp[p].names = <<>> /\ Set(p, AtRest)
        \/ imp[p].names # <<>> /\ Set(p, r)
    BY DEF NextName
  <2> HIDE DEF r
  <2> QED
    BY <2>1, MovedTo
<1>2. ASSUME imp[p].names # <<>> PROVE LocalInv(r, made)
  <2>1. /\ r.step = "pop" /\ r.ok = FALSE /\ r.root = Head(imp[p].names)
        /\ r.queue = <<Head(imp[p].names)>> /\ r.imported = NothingImported
    BY DEF AtRest
  <2>2. Head(imp[p].names) \in Package
    BY <1>2, ImpType
  <2> HIDE DEF r
  <2>3. Got(r) = {}
    BY <2>1 DEF Got, NothingImported
  <2>4. Needs(r, made) = {} /\ Asking(r, made) = {} /\ Coming(r) = {}
    BY <2>1, <2>3 DEF Needs, Asking, Coming, Busy
  <2>5. Names(r.queue) = {EluName[r.root]}
    BY <2>1, <2>2 DEF Names, Elements
  <2>6. Connected(r, made)
    BY <2>3 DEF Connected
  <2> QED
    BY <2>1, <2>3, <2>4, <2>5, <2>6 DEF LocalInv, Walked, Wanted, Busy
<1> QED
  BY <1>1, <1>2, RestLocal

\* A package is missed: what it would have needed is not asked for any more.
LEMMA MissLocal ==
  ASSUME TypeInv, NEW p \in Importing, LocalInv(imp[p], made),
         imp[p].step \notin {"idle", "name"}, NEW q \in Package, NEW rest \in Seq(Package),
         Walks(imp[p]) => Asking(imp[p], made) = {},
         Coming(imp[p]) \cup Names(imp[p].queue) = {EluName[q]} \cup Names(rest),
         Names(rest) \subseteq Names(imp[p].queue),
         Miss(p, q, rest)
  PROVE  LocalInv(imp'[p], made)
<1>1. CASE imp[p].closure
  <2> DEFINE i == imp[p]
             r == [In(p, "pop") EXCEPT !.missed = @ \cup {q}, !.queue = rest,
                                       !.cur = None, !.tag = None]
  <2>1. imp'[p] = r
    BY <1>1, MovedTo DEF Miss
  <2>2. /\ r.step = "pop" /\ r.ok = i.ok /\ r.root = i.root /\ r.imported = i.imported
        /\ r.queue = rest /\ r.missed = i.missed \cup {q} /\ r.closure = i.closure
    BY ImpType DEF In, Record
  <2> HIDE DEF i, r
  <2>3. Walks(i) /\ ~i.ok /\ Walked(i, made) /\ Asking(i, made) = {}
    BY <1>1 DEF Walks, LocalInv, i
  <2>4. /\ Got(r) = Got(i) /\ Needs(r, made) = Needs(i, made)
        /\ Wanted(r, made) = Wanted(i, made) /\ Connected(r, made)
    BY <2>2, <2>3, SameWalk DEF Walked
  <2>5. Asking(r, made) = {} /\ Coming(r) = {}
    BY <2>2 DEF Asking, Coming, Busy
  <2>6. Accounted(i) \subseteq Accounted(r)
    BY <2>2, <2>4, <2>5 DEF Accounted, i
  <2>7. Names(r.queue) \subseteq Wanted(r, made)
    BY <2>2, <2>3, <2>4 DEF Walked, i
  <2>8. Walked(r, made)
    BY <2>3, <2>4, <2>5, <2>6, <2>7 DEF Walked
  <2> QED
    BY <2>1, <2>2, <2>3, <2>8 DEF LocalInv, Busy
<1>2. CASE ~imp[p].closure
  BY <1>2, RestLocal, MovedTo DEF Miss, Fail
<1> QED
  BY <1>1, <1>2

LEMMA LookupLocal ==
  ASSUME TypeInv, NEW p \in Importing, LocalInv(imp[p], made), imp[p].step = "pop",
         imp[p].queue # <<>>, NEW q, q = Head(imp[p].queue), imp[p].imported[EluName[q]] = 0,
         NEW tag, NEW deps \in Seq(Package), NEW queue \in Seq(Package),
         eco = "apt" => deps = <<>>,
         imp[p].closure => \/ deps = <<>> /\ queue = Tail(imp[p].queue)
                           \/ queue = Tail(imp[p].queue) \o Queued(p, deps),
         Lookup(p, q, tag, deps, queue)
  PROVE  LocalInv(imp'[p], made)
<1> DEFINE i == imp[p]
           r == [In(p, "lookup") EXCEPT !.cur = q, !.tag = tag, !.deps = deps, !.queue = queue]
<1>1. imp'[p] = r
  BY MovedTo DEF Lookup
<1>2. /\ r.step = "lookup" /\ r.ok = i.ok /\ r.root = i.root /\ r.imported = i.imported
      /\ r.queue = queue /\ r.missed = i.missed /\ r.closure = i.closure
      /\ r.cur = q /\ r.deps = deps
  BY ImpType DEF In, Record
<1>3. q \in Package /\ Tail(i.queue) \in Seq(Package) /\ i.queue \in Seq(Package)
      /\ Names(i.queue) = {EluName[q]} \cup Names(Tail(i.queue))
  BY ImpType, NamesAre
<1>4. ~i.ok
  BY DEF LocalInv
<1>5. ASSUME i.closure PROVE Walked(r, made)
  <2>1. Walked(i, made) /\ Asking(i, made) = {} /\ Coming(i) = {}
    BY <1>5 DEF LocalInv, Walks, Asking, Coming, Busy
  <2>2. Queued(p, deps) \in Seq(Package) /\ Names(Queued(p, deps)) \subseteq Names(deps)
        /\ Names(deps) \subseteq Got(i) \cup Names(Queued(p, deps))
    <3>1. Queued(p, deps) \in Seq(Package)
          /\ Elements(Queued(p, deps)) = {d \in Elements(deps) : i.imported[EluName[d]] = 0}
      BY QueuedIs
    <3>2. \A d \in Elements(deps) : EluName[d] \in Name
      BY NamesAre DEF Names
    <3> QED
      BY <3>1, <3>2 DEF Names, Got
  <2>3. /\ Names(queue) \subseteq Names(Tail(i.queue)) \cup Names(deps)
        /\ Names(Tail(i.queue)) \subseteq Names(queue)
        /\ Names(deps) \subseteq Got(i) \cup Names(queue)
    <3>1. CASE deps = <<>> /\ queue = Tail(i.queue)
      <4>1. Names(deps) = {}
        BY <3>1, NamesAre
      <4> QED
        BY <3>1, <4>1
    <3>2. CASE queue = Tail(i.queue) \o Queued(p, deps)
      <4>1. Names(queue) = Names(Tail(i.queue)) \cup Names(Queued(p, deps))
        BY <1>3, <2>2, <3>2, NamesAre
      <4> QED
        BY <2>2, <4>1
    <3> QED
      BY <1>5, <3>1, <3>2
  <2> HIDE DEF i, r
  <2>4. /\ Got(r) = Got(i) /\ Needs(r, made) = Needs(i, made)
        /\ Wanted(r, made) = Wanted(i, made) /\ Connected(r, made)
    BY <1>2, <2>1, SameWalk DEF Walked
  <2>5. Asking(r, made) = Names(deps) /\ Coming(r) = {EluName[q]}
    BY <1>2 DEF Asking, Coming, Busy
  <2>6. Accounted(i) \subseteq Accounted(r) /\ Names(deps) \subseteq Accounted(r)
    BY <1>2, <1>3, <2>1, <2>3, <2>4, <2>5 DEF Accounted
  <2>7. Names(i.queue) \subseteq Wanted(r, made)
    BY <2>1, <2>4 DEF Walked
  <2> QED
    BY <1>2, <1>3, <2>1, <2>3, <2>4, <2>5, <2>6, <2>7 DEF Walked
<1> QED
  BY <1>1, <1>2, <1>4, <1>5 DEF LocalInv, Walks, Busy

LEMMA PopLocal ==
  ASSUME TypeInv, NEW p \in Importing, LocalInv(imp[p], made), Pop(p)
  PROVE  LocalInv(imp'[p], made)
<1> DEFINE i == imp[p]
<1>1. i.step = "pop" /\ i.root \in Package /\ i.queue \in Seq(Package)
  BY ImpType DEF Pop, Placed
<1>2. ~i.ok /\ Asking(i, made) = {} /\ Coming(i) = {} /\ (i.closure => Walked(i, made))
  BY <1>1 DEF LocalInv, Walks, Asking, Coming, Busy
<1>3. CASE Finish(p)
  <2> DEFINE r == [In(p, "name") EXCEPT !.ok = TRUE]
  <2>1. CASE i.imported[EluName[i.root]] # 0
    <3>1. imp'[p] = r
      BY <1>3, <2>1, MovedTo DEF Finish
    <3>2. /\ r.step = "name" /\ r.ok = TRUE /\ r.root = i.root /\ r.imported = i.imported
          /\ r.queue = i.queue /\ r.missed = i.missed /\ r.closure = i.closure
      BY ImpType DEF In, Record
    <3>3. i.queue = <<>> /\ EluName[i.root] \in Got(i)
      BY <1>1, <1>3, <2>1, ImportAssumption DEF Finish, Got
    <3> HIDE DEF i, r
    <3>4. /\ Got(r) = Got(i) /\ Needs(r, made) = Needs(i, made)
          /\ Wanted(r, made) = Wanted(i, made) /\ (Connected(r, made) <=> Connected(i, made))
      BY <3>2, SameWalk
    <3>5. Asking(r, made) = {} /\ Coming(r) = {} /\ Accounted(r) = Accounted(i)
      BY <1>2, <3>2, <3>4 DEF Asking, Coming, Busy, Accounted
    <3> QED
      BY <1>2, <3>1, <3>2, <3>3, <3>4, <3>5 DEF LocalInv, Walked, Walks, Busy
  <2> QED
    BY <1>3, <2>1, RestLocal, MovedTo DEF Finish, Fail
<1>4. CASE i.queue # <<>>
  <2> DEFINE q == Head(i.queue)
  <2>1. /\ q \in Package /\ Tail(i.queue) \in Seq(Package) /\ EluName[q] \in Name
        /\ Names(i.queue) = {EluName[q]} \cup Names(Tail(i.queue))
    BY <1>1, <1>4, NamesAre, ImportAssumption
  <2>2. CASE i.imported[EluName[q]] # 0
    <3> DEFINE r == [i EXCEPT !.queue = Tail(@)]
    <3>1. imp'[p] = r
      BY <1>4, <2>2, MovedTo DEF Pop, Finish
    <3>2. /\ r.step = i.step /\ r.ok = i.ok /\ r.root = i.root /\ r.imported = i.imported
          /\ r.queue = Tail(i.queue) /\ r.missed = i.missed /\ r.closure = i.closure
      BY ImpType DEF Record
    <3>3. EluName[q] \in Got(i)
      BY <2>1, <2>2 DEF Got
    <3> HIDE DEF i, r
    <3>4. /\ Got(r) = Got(i) /\ Needs(r, made) = Needs(i, made)
          /\ Wanted(r, made) = Wanted(i, made) /\ (Connected(r, made) <=> Connected(i, made))
      BY <3>2, SameWalk
    <3>5. Asking(r, made) = {} /\ Coming(r) = {}
      BY <1>1, <3>2 DEF Asking, Coming, Busy
    <3>6. Accounted(i) \subseteq Accounted(r)
      BY <1>2, <2>1, <3>2, <3>3, <3>4, <3>5 DEF Accounted
    <3>7. i.closure => Walked(r, made)
      BY <1>2, <2>1, <3>2, <3>4, <3>5, <3>6 DEF Walked
    <3> QED
      BY <1>1, <1>2, <3>1, <3>2, <3>7 DEF LocalInv, Walks, Busy
  <2>3. CASE i.imported[EluName[q]] = 0
    <3>1. Take(p, q)
      BY <1>4, <2>3 DEF Pop, Finish
    <3>2. CASE Miss(p, q, Tail(i.queue))
      BY <1>1, <1>2, <2>1, <3>2, MissLocal
    <3>3. ASSUME NEW deps \in Seq(Package), NEW queue \in Seq(Package),
                 eco = "apt" => deps = <<>>,
                 i.closure => \/ deps = <<>> /\ queue = Tail(i.queue)
                              \/ queue = Tail(i.queue) \o Queued(p, deps),
                 Looks(p, q, deps, queue)
          PROVE  LocalInv(imp'[p], made)
      BY <1>1, <1>4, <2>3, <3>3, LookupLocal DEF Looks
    <3>4. \A deps \in Seq(Package) : Tail(i.queue) \o Queued(p, deps) \in Seq(Package)
      BY <2>1, QueuedIs
    <3>5. <<>> \in Seq(Package)
      OBVIOUS
    <3> HIDE DEF i, q
    <3> QED
      BY <1>4, <2>1, <3>1, <3>2, <3>3, <3>4, <3>5, TakeLooks DEF i, q
  <2> QED
    BY <2>2, <2>3
<1> QED
  BY <1>3, <1>4 DEF Pop

LEMMA CacheLocal ==
  ASSUME TypeInv, NEW p \in Importing, LocalInv(imp[p], made),
         CacheGet(p) \/ CacheOpen(p) \/ CacheWrite(p)
  PROVE  LocalInv(imp'[p], made)
<1>1. ASSUME NEW s \in {"fetch", "write", "pack"}, Set(p, In(p, s)) \/ Set(p, [In(p, s) EXCEPT !.art = cache[KeyOf(p)]]),
             imp[p].step \in {"lookup", "open", "write"}
      PROVE  LocalInv(imp'[p], made)
  <2>1. s \in Busy /\ s \in Steps /\ imp[p].step \in Busy
        /\ s \notin {"ref", "commit"} /\ imp[p].step \notin {"ref", "commit"}
    BY <1>1 DEF Busy, Steps
  <2>2. In(p, s) = [In(p, s) EXCEPT !.art = imp[p].art]
    BY <2>1, InIsHand
  <2>3. \E a : Set(p, [In(p, s) EXCEPT !.art = a])
    BY <1>1, <2>2
  <2>4. PICK a : Set(p, [In(p, s) EXCEPT !.art = a])
    BY <2>3
  <2> QED
    BY <2>1, <2>4, HandLocal
<1>2. CASE CacheGet(p)
  <2>1. Set(p, In(p, "fetch")) \/ Set(p, [In(p, "pack") EXCEPT !.art = cache[KeyOf(p)]])
    BY <1>2 DEF CacheGet
  <2> QED
    BY <1>1, <1>2, <2>1 DEF CacheGet
<1>3. CASE CacheOpen(p)
  BY <1>1, <1>3 DEF CacheOpen
<1>4. CASE CacheWrite(p)
  BY <1>1, <1>4 DEF CacheWrite
<1> QED
  BY <1>2, <1>3, <1>4

LEMMA FetchLocal ==
  ASSUME TypeInv, NEW p \in Importing, LocalInv(imp[p], made), Fetch(p)
  PROVE  LocalInv(imp'[p], made)
<1>1. imp[p].step = "fetch" /\ imp[p].step \in Busy
  BY DEF Fetch, Busy
<1>2. ASSUME NEW a, Set(p, [In(p, "open") EXCEPT !.art = a])
      PROVE  LocalInv(imp'[p], made)
  BY <1>1, <1>2, HandLocal DEF Busy
<1>3. CASE eco = "apt" /\ Miss(p, imp[p].cur, imp[p].queue)
  <2>1. Asking(imp[p], made) = {} /\ Coming(imp[p]) = {EluName[imp[p].cur]}
    <3>1. imp[p].deps = <<>>
      BY <1>1, <1>3 DEF LocalInv
    <3> QED
      BY <1>1, <3>1, NamesAre, ImpType DEF Asking, Coming
  <2> QED
    BY <1>1, <1>3, <2>1, BusyHas, ImpType, MissLocal
<1>4. CASE Fail(p)
  BY <1>4, RestLocal, MovedTo DEF Fail
<1> QED
  BY <1>2, <1>3, <1>4 DEF Fetch

\* What a package needs is queued before, or as soon as, its manifest is put.
LEMMA PackLocal ==
  ASSUME TypeInv, NEW p \in Importing, LocalInv(imp[p], made), LocalInv(imp[p], made'),
         Pack(p), Unpacks(imp[p].art)
  PROVE  LocalInv(imp'[p], made')
<1> DEFINE i == imp[p]
           r == Packed(p)
           deps == Described(p)
<1>1. imp'[p] = r /\ i.step = "pack" /\ i.step \in Busy /\ i.queue \in Seq(Package)
  BY PackIs, ImpType DEF Busy
<1>2. /\ r.step = "ref" /\ r.ok = i.ok /\ r.root = i.root /\ r.imported = i.imported
      /\ r.queue = QueueAfter(p) /\ r.missed = i.missed /\ r.closure = i.closure
      /\ r.cur = i.cur /\ r.deps = i.deps /\ r.man = HashOf(ManifestOf(p))
  BY ImpType DEF Packed, In, Record
<1>3. deps \in Seq(Package) /\ DepNames(made'[r.man]) = Names(deps)
  <2>1. made'[r.man] = ManifestOf(p)
    BY <1>2, PackIs, PutGrows, ZenonT(30) DEF TypeInv
  <2>2. /\ deps \in Seq(Package) /\ Len(ManifestOf(p).deps) = Len(deps)
        /\ \A j \in 1..Len(deps) : ManifestOf(p).deps[j].name = EluName[deps[j]]
    BY <1>1, ManifestIs
  <2> HIDE DEF deps
  <2>3. DepNames(ManifestOf(p)) = {EluName[deps[j]] : j \in 1..Len(deps)}
    BY <2>2 DEF DepNames
  <2>4. Names(deps) = {EluName[deps[j]] : j \in 1..Len(deps)}
    BY DEF Names, Elements
  <2> QED
    BY <2>1, <2>2, <2>3, <2>4
<1>4. ASSUME i.closure
      PROVE  /\ Names(deps) \subseteq Names(i.deps) \cup Got(i) \cup Names(QueueAfter(p))
             /\ Names(i.deps) \subseteq Names(deps)
             /\ Names(i.queue) \subseteq Names(QueueAfter(p))
             /\ Names(QueueAfter(p)) \subseteq Names(i.queue) \cup Names(deps)
  <2>1. QueueAfter(p) = IF eco = "apt" THEN i.queue \o Queued(p, deps) ELSE i.queue
    BY <1>1, <1>4, QueueAfterIs
  <2>2. CASE eco = "apt"
    <3>1. Names(i.deps) = {}
      BY <1>1, <2>2, NamesAre DEF LocalInv
    <3>2. Queued(p, deps) \in Seq(Package) /\ Names(Queued(p, deps)) \subseteq Names(deps)
          /\ Names(deps) \subseteq Got(i) \cup Names(Queued(p, deps))
      <4>1. Queued(p, deps) \in Seq(Package)
            /\ Elements(Queued(p, deps)) = {d \in Elements(deps) : i.imported[EluName[d]] = 0}
        BY <1>3, QueuedIs
      <4>2. \A d \in Elements(deps) : EluName[d] \in Name
        BY <1>3, NamesAre DEF Names
      <4> QED
        BY <4>1, <4>2 DEF Names, Got
    <3>3. Names(QueueAfter(p)) = Names(i.queue) \cup Names(Queued(p, deps))
      BY <1>1, <2>1, <2>2, <3>2, NamesAre
    <3> HIDE DEF i, deps
    <3> QED
      BY <3>1, <3>2, <3>3
  <2>3. CASE eco # "apt"
    BY <2>1, <2>3 DEF Described
  <2> QED
    BY <2>2, <2>3
<1>5. ASSUME i.closure PROVE Walked(r, made')
  <2>1. Walked(i, made') /\ Asking(i, made') = Names(i.deps) /\ Coming(i) = {EluName[i.cur]}
    BY <1>1, <1>5 DEF LocalInv, Walks, Asking, Coming
  <2> HIDE DEF i, r, deps
  <2>2. /\ Got(r) = Got(i) /\ Needs(r, made') = Needs(i, made')
        /\ Wanted(r, made') = Wanted(i, made') /\ Connected(r, made')
    BY <1>2, <2>1, SameWalk DEF Walked
  <2>3. Asking(r, made') = Names(deps) /\ Coming(r) = {EluName[i.cur]}
    BY <1>2, <1>3 DEF Asking, Coming, Busy
  <2>4. Accounted(i) \subseteq Accounted(r) /\ Names(i.deps) \subseteq Accounted(i)
    BY <1>2, <1>4, <1>5, <2>1, <2>2, <2>3 DEF Accounted, Walked
  <2>5. Names(deps) \subseteq Accounted(r)
    BY <1>2, <1>4, <1>5, <2>2, <2>4 DEF Accounted
  <2>6. Names(r.queue) \subseteq Wanted(r, made') \cup Names(deps)
    BY <1>2, <1>4, <1>5, <2>1, <2>2 DEF Walked
  <2> QED
    BY <1>2, <2>1, <2>2, <2>3, <2>4, <2>5, <2>6 DEF Walked
<1> QED
  BY <1>1, <1>2, <1>5 DEF LocalInv, Walks, Busy

\* The package at hand is imported: it was needed, and all it needs is accounted for.
LEMMA ImportedLocal ==
  ASSUME TypeInv, NEW p \in Importing, LocalInv(imp[p], made),
         imp[p].step \in {"ref", "commit"}, Imported(p)
  PROVE  LocalInv(imp'[p], made)
<1> DEFINE i == imp[p]
           c == EluName[i.cur]
           r == [In(p, "pop") EXCEPT !.imported[EluName[imp[p].cur]] = imp[p].man,
                   !.cur = None, !.tag = None, !.deps = <<>>, !.art = None, !.man = 0]
<1>1. imp'[p] = r
  BY MovedTo DEF Imported
<1>2. /\ r.step = "pop" /\ r.ok = i.ok /\ r.root = i.root /\ r.queue = i.queue
      /\ r.missed = i.missed /\ r.closure = i.closure
      /\ r.imported = [i.imported EXCEPT ![c] = i.man]
  BY ImpType DEF In, Record
<1>3. i.step \in Busy /\ c \in Name /\ i.imported[c] = 0 /\ i.man # 0
  <2>1. i.step \in Busy
    BY DEF Busy
  <2> QED
    BY <2>1, BusyHas, ImpType DEF Placed, Record
<1>4. \A n \in Name : r.imported[n] = IF n = c THEN i.man ELSE i.imported[n]
  BY <1>2, <1>3, ImpType
<1>5. Asking(i, made) = DepNames(made[i.man]) /\ Coming(i) = {c}
  BY <1>3 DEF Asking, Coming
<1>6. Walks(i) <=> i.closure
  BY <1>3 DEF Walks, Busy
<1>7. ~i.ok
  BY DEF LocalInv
<1>8. i.closure => Walked(i, made)
  BY <1>6 DEF LocalInv
<1> HIDE DEF i, c, r
<1>9. Got(r) = Got(i) \cup {c} /\ c \notin Got(i)
  BY <1>3, <1>4 DEF Got
<1>10. Needs(r, made) = Needs(i, made) \cup Asking(i, made)
  <2>1. \A n \in Got(i) : r.imported[n] = i.imported[n]
    BY <1>4, <1>9 DEF Got
  <2>2. DepNames(made[r.imported[c]]) = Asking(i, made)
    BY <1>3, <1>4, <1>5
  <2> QED
    BY <1>9, <2>1, <2>2 DEF Needs
<1>11. Asking(r, made) = {} /\ Coming(r) = {}
  BY <1>2 DEF Asking, Coming, Busy
<1>12. Accounted(r) = Accounted(i) /\ Wanted(r, made) = Wanted(i, made) \cup Asking(i, made)
  BY <1>2, <1>5, <1>9, <1>10, <1>11 DEF Accounted, Wanted
<1>13. ASSUME Connected(i, made), c \in Wanted(i, made) PROVE Connected(r, made)
  <2> SUFFICES ASSUME NEW s \in SUBSET Name, EluName[r.root] \in s,
                      \A n \in s \cap Got(r) : DepNames(made[r.imported[n]]) \cap Got(r) \subseteq s
               PROVE  Got(r) \subseteq s
    BY DEF Connected
  <2>1. \A n \in Got(i) : r.imported[n] = i.imported[n]
    BY <1>4, <1>9 DEF Got
  <2>2. \A n \in s \cap Got(i) : DepNames(made[i.imported[n]]) \cap Got(i) \subseteq s
    BY <1>9, <2>1
  <2>3. Got(i) \subseteq s
    BY <1>2, <1>13, <2>2 DEF Connected
  <2>4. c \in s
    <3>1. CASE c = EluName[i.root]
      BY <1>2, <3>1
    <3>2. ASSUME NEW n \in Got(i), c \in DepNames(made[i.imported[n]]) PROVE c \in s
      BY <1>9, <2>1, <2>3, <3>2
    <3> QED
      BY <1>13, <3>1, <3>2 DEF Wanted, Needs
  <2> QED
    BY <1>9, <2>3, <2>4
<1>14. i.closure => Walked(r, made)
  BY <1>2, <1>5, <1>8, <1>10, <1>11, <1>12, <1>13 DEF Walked
<1> QED
  BY <1>1, <1>2, <1>7, <1>14 DEF LocalInv, Walks, Busy

LEMMA PutRefLocal ==
  ASSUME TypeInv, NEW p \in Importing, LocalInv(imp[p], made), PutRefCheck(p) \/ PutRefCommit(p)
  PROVE  LocalInv(imp'[p], made)
<1>1. imp[p].step \in {"ref", "commit"} /\ imp[p].step \in Busy
  BY DEF PutRefCheck, PutRefCommit, Busy
<1>2. CASE Imported(p)
  BY <1>1, <1>2, ImportedLocal
<1>3. CASE Set(p, In(p, "commit"))
  <2>1. Set(p, [In(p, "commit") EXCEPT !.art = imp[p].art])
    BY <1>3, InIsHand DEF Steps
  <2> QED
    BY <1>1, <2>1, HandLocal DEF Busy
<1>4. CASE Fail(p)
  BY <1>4, RestLocal, MovedTo DEF Fail
<1> QED
  BY <1>2, <1>3, <1>4 DEF PutRefCheck, PutRefCommit

\* Every step of a process but the one that puts a manifest.
LEMMA StepLocal ==
  ASSUME TypeInv, NEW p \in Importing, LocalInv(imp[p], made),
         (\E k \in Commands, d \in Day : Begin(p, k, d)) \/ Proceed(p) \/ Die(p),
         ~(Pack(p) /\ Unpacks(imp[p].art))
  PROVE  LocalInv(imp'[p], made)
<1>1. CASE \E k \in Commands, d \in Day : Begin(p, k, d)
  BY <1>1, BeginLocal
<1>2. CASE Pack(p) \/ Die(p)
  BY <1>2, RestLocal, MovedTo DEF Pack, Die, Fail
<1> QED
  BY <1>1, <1>2, NextNameLocal, PopLocal, CacheLocal, FetchLocal, PutRefLocal DEF Proceed

LEMMA NextClosure == TypeInv /\ ClosureInv /\ [ImportNext]_ivars => ClosureInv'
<1> SUFFICES ASSUME TypeInv, ClosureInv, [ImportNext]_ivars PROVE ClosureInv'
  OBVIOUS
<1>1. eco' = eco
  BY DEF ImportNext, ivars, Publish, Begin, Proceed, Die, NextName, Pop, CacheGet, Fetch,
         CacheOpen, CacheWrite, Pack, PutRefCheck, PutRefCommit
<1>2. \A i, m : LocalInv(i, m)' <=> LocalInv(i', m')
  BY <1>1 DEF LocalInv, Walks, Walked, Needs, Asking, Accounted, Wanted, Connected, Got,
              Coming, Names, DepNames, Elements
<1>3. CASE imp' = imp /\ made' = made
  BY <1>2, <1>3 DEF ClosureInv
<1>4. ASSUME NEW p \in Importing,
             (\E k \in Commands, d \in Day : Begin(p, k, d)) \/ Proceed(p) \/ Die(p)
      PROVE  ClosureInv'
  <2>1. \A j \in 1..Len(made) : made'[j] = made[j]
    <3>1. CASE Pack(p) /\ Unpacks(imp[p].art)
      <4> DEFINE m == ManifestOf(p)
      <4>1. m \in ManifestRec /\ made' = Put(m)
        BY <3>1, PackIs
      <4> HIDE DEF m
      <4>2. \A j \in 1..Len(made) : Put(m)[j] = made[j]
        BY <4>1, PutGrows DEF TypeInv
      <4> QED
        BY <4>1, <4>2
    <3> QED
      BY <1>4, <3>1, StepSteady
  <2>2. \A o \in Importing : LocalInv(imp[o], made')
    BY <2>1, GrownLocal DEF ClosureInv
  <2>3. \A o \in Importing : o # p => imp'[o] = imp[o]
    BY <1>4, StepSteady, PackIs DEF Steady, Moves, TypeInv
  <2>4. LocalInv(imp'[p], made')
    <3>1. CASE Pack(p) /\ Unpacks(imp[p].art)
      BY <2>2, <3>1, PackLocal DEF ClosureInv
    <3>2. CASE ~(Pack(p) /\ Unpacks(imp[p].art))
      BY <1>4, <3>2, StepSteady, StepLocal DEF ClosureInv
    <3> QED
      BY <3>1, <3>2
  <2> QED
    BY <1>2, <2>2, <2>3, <2>4 DEF ClosureInv
<1> QED
  BY <1>3, <1>4 DEF ImportNext, ivars, Publish

\* A closure that succeeds has all that its manifests list and could be had, and
\* nothing that the package asked for does not lead to, whatever was published or
\* imported meanwhile; and they list what the releases packaged depend on, or
\* with pip what some other release of the same package does.
THEOREM ClosuresExact == ImportSpec => []ClosureExact
<1>1. TypeInv /\ ClosureInv /\ [ImportNext]_ivars => ClosureInv'
  BY NextClosure
<1>2. TypeInv /\ GenuineInv /\ [ImportNext]_ivars => GenuineInv'
  BY NextGenuine
<1>3. TypeInv /\ GenuineInv /\ ToldInv /\ [ImportNext]_ivars => ToldInv'
  BY NextTold
<1> QED
  BY <1>1, <1>2, <1>3, InitClosure, InitGenuine, InitTold, TypeInvariant, ClosureInvExact, PTL
  DEF ImportSpec
=============================================================================
