--------------------------- MODULE ProjectProofs ----------------------------
(***************************************************************************)
(* Theorems about modules Project and Resolver, checked by TLAPS for any   *)
(* graph of dependencies, any lists and any number of commands.  First the *)
(* walk step by step: what a visit does to the stack, what it may visit,   *)
(* and the types of the walk, the files and the refs.                      *)
(***************************************************************************)
EXTENDS Project, SequenceTheorems, Induction

\* Lockfile::lookup returns the first entry of a name, if there is one.
LEMMA LookupFinds ==
  ASSUME NEW lk \in Seq(Entry), NEW n
  PROVE  IF \E i \in DOMAIN lk : lk[i].name = n
           THEN \E i \in DOMAIN lk : /\ lk[i].name = n /\ Lookup(lk, n) = lk[i]
           ELSE Lookup(lk, n) = None
<1>1. CASE \E i \in DOMAIN lk : lk[i].name = n
  <2> DEFINE S == {i \in DOMAIN lk : lk[i].name = n}
  <2>1. S \in SUBSET Nat /\ S # {}
    BY <1>1
  <2>2. PICK i \in S : \A j \in S : i <= j
    BY <2>1, Least
  <2>3. \E k \in DOMAIN lk : lk[k].name = n /\ \A j \in 1..(k - 1) : lk[j].name # n
    BY <2>2
  <2> QED
    BY <1>1, <2>3 DEF Lookup
<1> QED
  BY <1>1 DEF Lookup

LEMMA DemandType ==
  ASSUME NEW d \in Demand
  PROVE  /\ d.name \in Name /\ d.name \in Nat
         /\ d.pin \in {None} \cup Manifest /\ d.vers \in SUBSET Version
<1>1. d \in [name : Name, pin : {None} \cup Manifest, vers : SUBSET Version] /\ Name \subseteq Nat
  BY ResolverAssumption
<1> QED
  BY <1>1

Frame == [name : Name, hash : Manifest, todo : SUBSET Demand]

LEMMA TopIs ==
  ASSUME ResolverTypeOK, stack # <<>>
  PROVE  /\ Len(stack) \in Nat \ {0} /\ Top = stack[Len(stack)] /\ Top \in Frame
         /\ Below \in Seq(Frame) /\ Len(Below) = Len(stack) - 1
         /\ \A k \in 1..(Len(stack) - 1) : Below[k] = stack[k]
<1>1. stack \in Seq(Frame)
  BY DEF ResolverTypeOK, Frame
<1>2. Len(stack) \in Nat \ {0}
  BY <1>1
<1>3. stack[Len(stack)] \in Frame
  BY <1>1, <1>2
<1>4. \A k \in 1..(Len(stack) - 1) : stack[k] \in Frame
  BY <1>1, <1>2
<1> DEFINE n == Len(stack) - 1
<1>5. n \in Int /\ n >= 0 /\ n - 1 + 1 = n
  BY <1>2
<1> HIDE DEF n
<1>6. /\ SubSeq(stack, 1, n) \in Seq(Frame)
      /\ Len(SubSeq(stack, 1, n)) = IF 1 <= n THEN n - 1 + 1 ELSE 0
      /\ \A i \in 1..(n - 1 + 1) : SubSeq(stack, 1, n)[i] = stack[1 + i - 1]
  BY <1>4, <1>5, SubSeqProperties DEF n
<1>7. Below \in Seq(Frame) /\ Len(Below) = n /\ \A k \in 1..n : Below[k] = stack[k]
  BY <1>5, <1>6 DEF Below, n
<1> QED
  BY <1>2, <1>3, <1>7 DEF Top, n

\* The demand that the walk asks for is one of those it may ask for.
LEMMA AskedIs ==
  ASSUME ResolverTypeOK, Asking
  PROVE  /\ Asked \in Demand
         /\ stack = <<>> => Asked = queue[1] /\ Len(queue) \in Nat \ {0}
         /\ stack # <<>> => Asked \in Top.todo /\ Len(stack) \in Nat \ {0}
<1>1. CASE stack = <<>>
  BY <1>1 DEF ResolverTypeOK, Asking, Asked
<1>2. CASE stack # <<>>
  <2>1. Len(stack) \in Nat \ {0} /\ Top.todo \in SUBSET Demand /\ Top.todo # {}
    BY <1>2, TopIs DEF Asking, Frame
  <2> DEFINE S == {d.name : d \in Top.todo}
  <2>2. S \in SUBSET Nat /\ S # {} /\ \A d \in Top.todo : d.name \in Nat
    BY <2>1, DemandType
  <2>3. PICK n \in S : \A m \in S : n <= m
    BY <2>2, Least
  <2>4. PICK d \in Top.todo : d.name = n
    OBVIOUS
  <2>5. \A e \in Top.todo : d.name <= e.name
    BY <2>3, <2>4
  <2> QED
    BY <1>2, <2>1, <2>5 DEF Asked
<1> QED
  BY <1>1, <1>2

\* What a visit makes of the stack: the top has one demand less to meet, and a
\* manifest not seen before is put on it with all of its own.
VisitedStack(h) ==
  /\ Len(stack') = IF h \in visited THEN Len(stack) ELSE Len(stack) + 1
  /\ \A k \in 1..Len(stack) :
       stack'[k] = IF k = Len(stack) THEN [stack[k] EXCEPT !.todo = @ \ {Asked}] ELSE stack[k]
  /\ h \notin visited =>
       stack'[Len(stack) + 1] = [name |-> Asked.name, hash |-> h, todo |-> deps[h]]

LEMMA VisitStack ==
  ASSUME ResolverTypeOK, Asking, NEW h \in Manifest, Visit(h)
  PROVE  stack' \in Seq(Frame) /\ Len(stack) \in Nat /\ VisitedStack(h)
<1> DEFINE new == [name |-> Asked.name, hash |-> h, todo |-> deps[h]]
           less == [Top EXCEPT !.todo = @ \ {Asked}]
           rest == IF stack = <<>> THEN <<>> ELSE Append(Below, less)
<1>1. stack' = IF h \in visited THEN rest ELSE Append(rest, new)
  BY DEF Visit
<1>2. new \in Frame
  <2>1. deps[h] \in SUBSET Demand
    BY ResolverAssumption DEF ResolverTypeOK
  <2> QED
    BY <2>1, AskedIs, DemandType DEF Frame
<1>3. /\ rest \in Seq(Frame) /\ Len(rest) = Len(stack) /\ Len(stack) \in Nat
      /\ \A k \in 1..Len(stack) : rest[k] = IF k = Len(stack) THEN [stack[k] EXCEPT !.todo = @ \ {Asked}] ELSE stack[k]
  <2>1. CASE stack = <<>>
    BY <2>1
  <2>2. CASE stack # <<>>
    <3>1. less \in Frame
      BY <2>2, TopIs DEF Frame
    <3> HIDE DEF less
    <3>2. /\ Append(Below, less) \in Seq(Frame)
          /\ Len(Append(Below, less)) = Len(Below) + 1
          /\ \A k \in 1..Len(Below) : Append(Below, less)[k] = Below[k]
          /\ Append(Below, less)[Len(Below) + 1] = less
      BY <2>2, <3>1, TopIs, AppendProperties
    <3>3. rest = Append(Below, less)
      BY <2>2
    <3> HIDE DEF rest
    <3>4. less = [stack[Len(stack)] EXCEPT !.todo = @ \ {Asked}]
      BY <2>2, TopIs DEF less
    <3>5. rest \in Seq(Frame) /\ Len(rest) = Len(stack) /\ Len(stack) \in Nat \ {0}
      BY <2>2, <3>2, <3>3, TopIs
    <3>6. ASSUME NEW k \in 1..Len(stack), k # Len(stack) PROVE rest[k] = stack[k]
      BY <2>2, <3>2, <3>3, <3>6, TopIs
    <3>7. rest[Len(stack)] = less
      BY <2>2, <3>2, <3>3, TopIs
    <3> QED
      BY <3>4, <3>5, <3>6, <3>7
  <2> QED
    BY <2>1, <2>2
<1> HIDE DEF rest, new
<1>4. CASE h \in visited
  BY <1>1, <1>3, <1>4 DEF VisitedStack
<1>5. CASE h \notin visited
  <2>1. /\ Append(rest, new) \in Seq(Frame)
        /\ Len(Append(rest, new)) = Len(rest) + 1
        /\ \A k \in 1..Len(rest) : Append(rest, new)[k] = rest[k]
        /\ Append(rest, new)[Len(rest) + 1] = new
    BY <1>2, <1>3, AppendProperties
  <2> QED
    BY <1>1, <1>3, <1>5, <2>1 DEF VisitedStack, new
<1> QED
  BY <1>4, <1>5

\* The roots that are left, and the one that is not.
LEMMA VisitQueue ==
  ASSUME ResolverTypeOK, Asking, NEW h \in Manifest, Visit(h)
  PROVE  /\ queue' \in Seq(Demand)
         /\ \A j \in DOMAIN queue : queue[j] = Asked \/ \E i \in DOMAIN queue' : queue'[i] = queue[j]
         /\ \A i \in DOMAIN queue' : \E j \in DOMAIN queue : queue'[i] = queue[j]
<1>1. CASE stack = <<>>
  <2>1. queue \in Seq(Demand) /\ queue # <<>> /\ Asked = queue[1] /\ queue' = Tail(queue)
    BY <1>1, AskedIs DEF ResolverTypeOK, Asking, Visit
  <2>2. /\ queue' \in Seq(Demand) /\ Len(queue') = Len(queue) - 1
        /\ \A i \in 1..Len(queue') : queue'[i] = queue[i + 1]
    BY <2>1, HeadTailProperties
  <2>3. DOMAIN queue = 1..Len(queue) /\ DOMAIN queue' = 1..Len(queue') /\ Len(queue) \in Nat
    BY <2>1, <2>2
  <2>4. ASSUME NEW j \in DOMAIN queue, j # 1 PROVE queue'[j - 1] = queue[j] /\ j - 1 \in DOMAIN queue'
    BY <2>2, <2>3, <2>4
  <2>5. ASSUME NEW i \in DOMAIN queue' PROVE queue'[i] = queue[i + 1] /\ i + 1 \in DOMAIN queue
    BY <2>2, <2>3, <2>5
  <2> QED
    BY <2>1, <2>2, <2>4, <2>5
<1>2. CASE stack # <<>>
  BY <1>2 DEF ResolverTypeOK, Visit
<1> QED
  BY <1>1, <1>2

LEMMA VisitType ==
  ASSUME ResolverTypeOK, Asking, NEW h \in Manifest, Visit(h)
  PROVE  ResolverTypeOK'
<1>1. stack' \in Seq(Frame) /\ queue' \in Seq(Demand)
  BY VisitStack, VisitQueue
<1>2. byName' \in [Name -> SUBSET Manifest] /\ visited' \in SUBSET Manifest /\ at' = "walk" /\ chosen' = None
  BY DEF ResolverTypeOK, Visit
<1> QED
  BY <1>1, <1>2 DEF ResolverTypeOK, Visit, source, Frame

\* What the walk may come to visit is a manifest that answers the demand, and
\* the one the lockfile has for its name if the demand is no hash.
Found(h, d) ==
  /\ Answers(h, d)
  /\ d.pin = None /\ pins[d.name] # None => h = pins[d.name].hash

\* What the lockfile says of a manifest is true of it.
TrueTable(table) ==
  \A n \in Name : table[n] # None => Own[table[n].hash] = [name |-> n, ver |-> table[n].ver]

TruePins == TrueTable(pins)

\* A version is chosen for a demand, and only if neither hash nor entry is there.
Choosing ==
  at = "fetch" => /\ Asking /\ Asked.pin = None /\ pins[Asked.name] = None
                  /\ chosen \in Asked.vers

\* A step of the walk.
LEMMA WalkIs ==
  ASSUME ResolverTypeOK, TruePins, Choosing, Walk
  PROVE  \/ Asking /\ \E h \in Manifest : Found(h, Asked) /\ Visit(h)
         \/ \E why \in Failures : Fail(why)
         \/ /\ at' = "fetch" /\ Asking /\ Asked.pin = None /\ pins[Asked.name] = None
            /\ chosen' \in Asked.vers \cap Version
            /\ UNCHANGED <<deps, registry, source, queue, stack, ordered, visited, byName, verdict>>
         \/ Leave
         \/ Settle
<1>1. ASSUME VisitPinned PROVE Asking /\ \/ \E h \in Manifest : Found(h, Asked) /\ Visit(h)
                                         \/ \E why \in Failures : Fail(why)
  <2>1. Asking /\ Asked.pin # None /\ Asked.pin \in Manifest /\ ByHash(Asked.pin)
    BY <1>1, AskedIs, DemandType DEF VisitPinned
  <2> QED
    BY <2>1 DEF ByHash, Found, Answers, Failures
<1>2. ASSUME VisitLocked PROVE Asking /\ \/ \E h \in Manifest : Found(h, Asked) /\ Visit(h)
                                         \/ \E why \in Failures : Fail(why)
  <2>1. Asking /\ Asked.pin = None /\ pins[Asked.name] # None /\ Asked.name \in Name
    BY <1>2, AskedIs, DemandType DEF VisitLocked
  <2>2. pins[Asked.name] \in Entry
    BY <2>1 DEF ResolverTypeOK
  <2>3. CASE pins[Asked.name].ver \in Asked.vers /\ ByHash(pins[Asked.name].hash)
    <3> DEFINE h == pins[Asked.name].hash
    <3>1. Own[h] = [name |-> Asked.name, ver |-> pins[Asked.name].ver]
      BY <2>1 DEF TruePins, TrueTable
    <3>2. Own[h].name = Asked.name /\ Own[h].ver \in Asked.vers
      BY <2>3, <3>1
    <3>3. Found(h, Asked)
      BY <2>1, <3>2 DEF Found, Answers
    <3>4. h \in Manifest
      BY <2>2 DEF Entry
    <3> QED
      BY <2>1, <2>3, <3>3, <3>4 DEF ByHash, Failures
  <2> QED
    BY <1>2, <2>1, <2>3 DEF VisitLocked, Failures
<1>3. ASSUME VisitListed
      PROVE  \/ \E why \in Failures : Fail(why)
             \/ /\ at' = "fetch" /\ Asking /\ Asked.pin = None /\ pins[Asked.name] = None
                /\ chosen' \in Asked.vers \cap Version
                /\ UNCHANGED <<deps, registry, source, queue, stack, ordered, visited, byName, verdict>>
  BY <1>3 DEF VisitListed, IsHighest, Failures
<1>4. ASSUME Fetch PROVE Asking /\ \/ \E h \in Manifest : Found(h, Asked) /\ Visit(h)
                                   \/ \E why \in Failures : Fail(why)
  <2>1. Asking /\ Asked.pin = None /\ pins[Asked.name] = None /\ chosen \in Asked.vers
    BY <1>4 DEF Fetch, Choosing
  <2>2. local.index \subseteq Manifest /\ Remote \subseteq Manifest
    BY DEF ResolverTypeOK, Remote
  <2>3. \A m \in Manifest : Own[m] = [name |-> Asked.name, ver |-> chosen] => Found(m, Asked)
    BY <2>1 DEF Found, Answers
  <2> QED
    BY <1>4, <2>1, <2>2, <2>3 DEF Fetch, Failures
<1> QED
  BY <1>1, <1>2, <1>3, <1>4 DEF Walk

LEMMA LeaveIs ==
  ASSUME ResolverTypeOK, Leave
  PROVE  /\ stack' \in Seq(Frame) /\ Len(stack) \in Nat \ {0} /\ Len(stack') = Len(stack) - 1
         /\ \A k \in 1..(Len(stack) - 1) : stack'[k] = stack[k]
         /\ ordered' \in Seq(Item) /\ Len(ordered) \in Nat /\ Len(ordered') = Len(ordered) + 1
         /\ \A i \in 1..Len(ordered) : ordered'[i] = ordered[i]
         /\ ordered'[Len(ordered) + 1].hash = stack[Len(stack)].hash
         /\ stack[Len(stack)].todo = {}
<1>1. stack # <<>> /\ stack' = Below /\ Top.todo = {}
  BY DEF Leave
<1> DEFINE item == [name |-> Top.name, hash |-> Top.hash]
<1>2. item \in Item /\ ordered \in Seq(Item) /\ ordered' = Append(ordered, item)
  BY <1>1, TopIs DEF Frame, Item, Leave, ResolverTypeOK
<1>3. item.hash = Top.hash
  OBVIOUS
<1> HIDE DEF item
<1>4. /\ ordered' \in Seq(Item) /\ Len(ordered) \in Nat /\ Len(ordered') = Len(ordered) + 1
      /\ \A i \in 1..Len(ordered) : ordered'[i] = ordered[i]
      /\ ordered'[Len(ordered) + 1] = item
  BY <1>2, AppendProperties
<1> QED
  BY <1>1, <1>3, <1>4, TopIs

LEMMA WalkType ==
  ASSUME ResolverTypeOK, TruePins, Choosing, Walk
  PROVE  ResolverTypeOK'
<1>1. ASSUME NEW why \in Failures, Fail(why) PROVE ResolverTypeOK'
  BY <1>1 DEF Fail, ResolverTypeOK, source
<1>2. ASSUME at' = "fetch", chosen' \in Version,
             UNCHANGED <<deps, registry, source, queue, stack, ordered, visited, byName, verdict>>
      PROVE  ResolverTypeOK'
  BY <1>2 DEF ResolverTypeOK, source
<1>3. ASSUME Leave PROVE ResolverTypeOK'
  BY <1>3, LeaveIs DEF ResolverTypeOK, Leave, source, Frame
<1>4. ASSUME Settle PROVE ResolverTypeOK'
  BY <1>4 DEF ResolverTypeOK, Settle, source, Failures
<1> QED
  BY <1>1, <1>2, <1>3, <1>4, WalkIs, VisitType

-----------------------------------------------------------------------------
TrueLock ==
  lock # None =>
    \A i \in DOMAIN lock : Own[lock[i].hash] = [name |-> lock[i].name, ver |-> lock[i].ver]

\* What a command has from elu.toml and elu.lock.
CommandInv ==
  /\ cmd.kind = "update" => pins = PinFilter(Entries(prior), cmd.names)
  /\ cmd.kind \in {"add", "remove"} => want \in Tomls

SourceInv == ProjectTypeOK /\ TruePins /\ Choosing /\ TrueLock /\ CommandInv

LEMMA LockTable ==
  ASSUME ProjectTypeOK, TrueLock, NEW table \in {Locked(Entries(lock))} \cup
           {PinFilter(Entries(lock), names) : names \in SUBSET Name}
  PROVE  table \in [Name -> {None} \cup Entry] /\ TrueTable(table)
<1> DEFINE lk == Entries(lock)
<1>1. lk \in Seq(Entry) /\ lock \in {None} \cup Seq(Entry)
  BY DEF ProjectTypeOK, Entries
<1>2. \A i \in DOMAIN lk : Own[lk[i].hash] = [name |-> lk[i].name, ver |-> lk[i].ver]
  BY DEF TrueLock, Entries
<1> HIDE DEF lk
<1>3. ASSUME NEW n \in Name
      PROVE  /\ Lookup(lk, n) \in {None} \cup Entry
             /\ Lookup(lk, n) # None =>
                  Own[Lookup(lk, n).hash] = [name |-> n, ver |-> Lookup(lk, n).ver]
  <2>1. CASE \E i \in DOMAIN lk : lk[i].name = n
    <3>1. PICK i \in DOMAIN lk : lk[i].name = n /\ Lookup(lk, n) = lk[i]
      BY <1>1, <2>1, LookupFinds
    <3> QED
      BY <1>1, <1>2, <3>1
  <2> QED
    BY <1>1, <2>1, LookupFinds
<1>4. \A n \in Name : table[n] \in {None, Lookup(lk, n)}
  BY DEF Locked, PinFilter, lk
<1>5. table = [n \in Name |-> table[n]]
  BY DEF Locked, PinFilter
<1> QED
  BY <1>3, <1>4, <1>5 DEF TrueTable

LEMMA RunKeeps ==
  ASSUME SourceInv, NEW kind \in Kinds, NEW names \in SUBSET Name, NEW roots \in Seq(Demand),
         NEW pinned \in [Name -> {None} \cup Entry], NEW net \in BOOLEAN, TrueTable(pinned),
         kind = "update" => pinned = PinFilter(Entries(lock), names),
         kind \in {"add", "remove"} => roots \in Tomls,
         Run(kind, names, roots, pinned, net)
  PROVE  SourceInv'
<1>1. PICK index \in SUBSET Held : Start(roots, pinned, net, Held, index)
  BY DEF Run
<1>2. Held \in SUBSET Manifest
  BY DEF Held, SourceInv, ProjectTypeOK, Ref
<1>3. local' \in [held : SUBSET Manifest, index : SUBSET Manifest] /\ local'.index \subseteq local'.held
  BY <1>1, <1>2 DEF Start
<1>4. ResolverTypeOK'
  BY <1>1, <1>3 DEF Start, SourceInv, ProjectTypeOK, ResolverTypeOK
<1>5. UNCHANGED <<refs, toml, lock, made>> /\ ran' \in 0..MaxCommands /\ prior' = lock
      /\ cmd' = [kind |-> kind, names |-> names, wrote |-> FALSE] /\ want' = roots
  BY ProjectAssumption DEF Run, SourceInv, ProjectTypeOK, files
<1>6. ProjectTypeOK'
  BY <1>4, <1>5 DEF SourceInv, ProjectTypeOK
<1>7. pins' = pinned /\ at' = "walk"
  BY <1>1 DEF Start
<1>8. TruePins' /\ Choosing' /\ TrueLock'
  BY <1>5, <1>7 DEF TruePins, TrueTable, Choosing, TrueLock, SourceInv
<1>9. CommandInv'
  BY <1>5, <1>7 DEF CommandInv
<1> QED
  BY <1>6, <1>8, <1>9 DEF SourceInv

LEMMA StopKeeps ==
  ASSUME SourceInv, Stop, toml' = toml, made' \in [roots : Seq(Demand), hashes : Seq(Manifest)],
         lock' \in {None} \cup Seq(Entry), TrueLock',
         refs' \in SUBSET Ref, \A r, s \in refs' : r.key = s.key => r = s
  PROVE  SourceInv'
<1>1. ResolverTypeOK'
  <2>1. /\ local' \in [held : SUBSET Manifest, index : SUBSET Manifest]
        /\ local'.index \subseteq local'.held
    BY DEF Stop, End
  <2>2. pins' \in [Name -> {None} \cup Entry] /\ byName' \in [Name -> SUBSET Manifest]
    BY DEF Stop, End, NoPins
  <2>3. <<>> \in Seq(Demand) /\ <<>> \in Seq(Frame) /\ <<>> \in Seq(Item)
    OBVIOUS
  <2> QED
    BY <2>1, <2>2, <2>3 DEF Stop, End, SourceInv, ProjectTypeOK, ResolverTypeOK, Frame
<1>2. ProjectTypeOK'
  BY <1>1 DEF SourceInv, ProjectTypeOK, Stop, NoCommand, Kinds
<1>3. TruePins' /\ Choosing' /\ CommandInv'
  BY DEF Stop, End, TruePins, TrueTable, Choosing, CommandInv, NoPins, NoCommand
<1> QED
  BY <1>2, <1>3 DEF SourceInv

LEMMA CommandKeeps ==
  ASSUME SourceInv, Command
  PROVE  SourceInv'
<1>1. toml \in Tomls /\ toml \in Seq(Demand) /\ Kinds = {"none", "lock", "update", "add", "remove", "install"}
  BY ProjectAssumption DEF SourceInv, ProjectTypeOK, Kinds
<1>2. NoPins \in [Name -> {None} \cup Entry] /\ TrueTable(NoPins)
  BY DEF NoPins, TrueTable
<1>3. ProjectTypeOK /\ TrueLock
  BY DEF SourceInv
<1>4. ASSUME Lock PROVE SourceInv'
  BY <1>1, <1>2, <1>4, RunKeeps DEF Lock
<1>5. ASSUME NEW names \in SUBSET Name, Update(names) PROVE SourceInv'
  <2> DEFINE pinned == PinFilter(Entries(lock), names)
  <2>1. pinned \in [Name -> {None} \cup Entry] /\ TrueTable(pinned)
    BY <1>3, LockTable
  <2>2. Run("update", names, toml, pinned, FALSE)
    BY <1>5 DEF Update
  <2> QED
    BY <1>1, <2>1, <2>2, RunKeeps
<1>6. ASSUME NEW d \in Demand, Add(d) PROVE SourceInv'
  <2>1. Upsert(toml, d) \in Tomls /\ Upsert(toml, d) \in Seq(Demand)
    BY <1>6, ProjectAssumption DEF Add
  <2> QED
    BY <1>1, <1>2, <1>6, <2>1, RunKeeps DEF Add
<1>7. ASSUME NEW n \in Name, Remove(n) PROVE SourceInv'
  <2>1. Without(toml, n) \in Tomls /\ Without(toml, n) \in Seq(Demand)
    BY <1>1, ProjectAssumption
  <2> QED
    BY <1>1, <1>2, <1>7, <2>1, RunKeeps DEF Remove
<1>8. ASSUME NEW roots \in Installs, Install(roots) PROVE SourceInv'
  <2> DEFINE pinned == Locked(Entries(lock))
  <2>1. pinned \in [Name -> {None} \cup Entry] /\ TrueTable(pinned)
    BY <1>3, LockTable
  <2>2. Run("install", {}, roots, pinned, TRUE) /\ roots \in Seq(Demand)
    BY <1>8, ProjectAssumption DEF Install
  <2> QED
    BY <1>1, <2>1, <2>2, RunKeeps
<1> QED
  BY <1>4, <1>5, <1>6, <1>7, <1>8 DEF Command

LEMMA ResolutionTrue ==
  ASSUME ResolverTypeOK
  PROVE  /\ Resolution \in Seq(Entry)
         /\ \A i \in DOMAIN Resolution :
              Own[Resolution[i].hash] = [name |-> Resolution[i].name, ver |-> Resolution[i].ver]
         /\ [i \in DOMAIN ordered |-> ordered[i].hash] \in Seq(Manifest)
<1>1. ordered \in Seq(Item) /\ DOMAIN ordered = 1..Len(ordered) /\ Len(ordered) \in Nat
  BY DEF ResolverTypeOK
<1>2. ASSUME NEW i \in DOMAIN ordered
      PROVE  /\ ordered[i].name \in Name /\ ordered[i].hash \in Manifest /\ Resolution[i] \in Entry
             /\ Own[Resolution[i].hash] = [name |-> Resolution[i].name, ver |-> Resolution[i].ver]
  <2>1. ordered[i] \in Item
    BY <1>1
  <2>2. ordered[i].hash \in Manifest /\ ordered[i].name \in Name /\ Own[ordered[i].hash] \in Key
    BY <2>1, ResolverAssumption DEF Item
  <2> QED
    BY <2>2 DEF Resolution, Entry, Key
<1>3. Resolution \in [1..Len(ordered) -> Entry] /\ DOMAIN Resolution = DOMAIN ordered
  BY <1>1, <1>2 DEF Resolution
<1>4. [i \in DOMAIN ordered |-> ordered[i].hash] \in [1..Len(ordered) -> Manifest]
  BY <1>1, <1>2
<1>5. \A S : [1..Len(ordered) -> S] \subseteq Seq(S)
  BY <1>1
<1> QED
  BY <1>2, <1>3, <1>4, <1>5

LEMMA ProgressKeeps ==
  ASSUME SourceInv, Progress \/ Crash
  PROVE  SourceInv'
<1>1. ResolverTypeOK /\ TruePins /\ Choosing /\ ProjectTypeOK
  BY DEF SourceInv, ProjectTypeOK
<1>2. ASSUME Walking PROVE SourceInv'
  <2>1. ResolverTypeOK'
    BY <1>1, <1>2, WalkType DEF Walking
  <2>2. /\ UNCHANGED <<pins, registry, refs, toml, lock, cmd, want, prior, ran, made>>
        /\ Choosing'
    <3>1. ASSUME NEW h \in Manifest, Visit(h) PROVE UNCHANGED pins /\ at' = "walk"
      BY <3>1 DEF Visit, source
    <3>2. ASSUME NEW why \in Failures, Fail(why) PROVE UNCHANGED pins /\ at' = "done"
      BY <3>2 DEF Fail, source
    <3>3. ASSUME at' = "fetch", Asking, Asked.pin = None, pins[Asked.name] = None, chosen' \in Asked.vers,
                 UNCHANGED <<deps, registry, source, queue, stack, ordered, visited, byName, verdict>>
          PROVE  UNCHANGED pins /\ Choosing'
      BY <3>3 DEF Choosing, source, Asking, Asked, Top
    <3>4. Leave \/ Settle => UNCHANGED pins /\ (at' = "walk" \/ at' = "done")
      BY DEF Leave, Settle, source
    <3>5. UNCHANGED pins /\ Choosing'
      BY <1>1, <1>2, <3>1, <3>2, <3>3, <3>4, WalkIs DEF Walking, Choosing
    <3>6. Walk => UNCHANGED registry
      BY DEF Walk, VisitPinned, VisitLocked, VisitListed, Fetch, ByHash, Leave, Settle, Visit, Fail
    <3> QED
      BY <1>2, <3>5, <3>6 DEF Walking, files, run
  <2>3. TruePins' /\ TrueLock' /\ CommandInv'
    BY <2>2 DEF SourceInv, TruePins, TrueTable, TrueLock, CommandInv
  <2> QED
    BY <1>1, <2>1, <2>2, <2>3 DEF SourceInv, ProjectTypeOK
<1>3. ASSUME GiveUp \/ Crash PROVE SourceInv'
  <2>1. Stop /\ UNCHANGED <<refs, toml, lock, made>>
    BY <1>3 DEF GiveUp, Crash, files
  <2> QED
    BY <1>1, <2>1, StopKeeps DEF SourceInv, ProjectTypeOK, TrueLock
<1>4. ASSUME WriteToml PROVE SourceInv'
  <2>1. toml' \in Tomls /\ cmd' \in [kind : Kinds, names : SUBSET Name, wrote : BOOLEAN]
        /\ cmd'.kind = cmd.kind /\ cmd'.names = cmd.names
    BY <1>1, <1>4 DEF WriteToml, SourceInv, CommandInv, ProjectTypeOK
  <2>2. UNCHANGED <<deps, registry, local, online, pins, at, queue, stack, chosen, ordered, visited,
                    byName, verdict, refs, lock, want, prior, ran, made>>
    BY <1>4 DEF WriteToml, resolver, source, walk
  <2>3. ResolverTypeOK'
    BY <1>1, <2>2 DEF ResolverTypeOK
  <2> QED
    BY <1>1, <2>1, <2>2, <2>3
    DEF SourceInv, ProjectTypeOK, TruePins, TrueTable, Choosing, Asking, Asked, Top, TrueLock, CommandInv
<1>5. ASSUME WriteLock PROVE SourceInv'
  <2>1. want \in Seq(Demand)
    BY <1>1 DEF ProjectTypeOK
  <2>2. /\ lock' = Resolution /\ made' \in [roots : Seq(Demand), hashes : Seq(Manifest)]
        /\ Stop /\ UNCHANGED <<refs, toml>>
    BY <1>1, <1>5, <2>1, ResolutionTrue DEF WriteLock
  <2>3. lock' \in {None} \cup Seq(Entry) /\ TrueLock'
    BY <1>1, <2>2, ResolutionTrue DEF TrueLock
  <2> QED
    BY <1>1, <2>2, <2>3, StopKeeps DEF ProjectTypeOK
<1>6. ASSUME PutRefs PROVE SourceInv'
  <2>1. PICK n \in 0..Len(ordered) : /\ \A r, s \in refs \cup Puts(n) : r.key = s.key => r = s
                                     /\ refs' = refs \cup Puts(n)
    BY <1>6 DEF PutRefs
  <2>2. Puts(n) \subseteq Ref
    <3>1. ordered \in Seq(Item) /\ Len(ordered) \in Nat
      BY <1>1 DEF ResolverTypeOK
    <3>2. ASSUME NEW i \in 1..n
          PROVE  [key |-> [name |-> ordered[i].name, ver |-> Own[ordered[i].hash].ver],
                  hash |-> ordered[i].hash] \in Ref
      <4>1. ordered[i] \in Item
        BY <3>1
      <4>2. ordered[i].name \in Name /\ ordered[i].hash \in Manifest /\ Own[ordered[i].hash] \in Key
        BY <4>1, ResolverAssumption DEF Item
      <4> QED
        BY <4>2 DEF Ref, Key
    <3> QED
      BY <3>2 DEF Puts
  <2>3. Stop /\ UNCHANGED <<toml, lock, made>>
    BY <1>6 DEF PutRefs, files
  <2> QED
    BY <1>1, <2>1, <2>2, <2>3, StopKeeps DEF SourceInv, ProjectTypeOK, TrueLock
<1> QED
  BY <1>2, <1>3, <1>4, <1>5, <1>6 DEF Progress

LEMMA AroundKeeps ==
  ASSUME SourceInv, (\E m \in BuiltLater : Build(m)) \/ \E m \in PublishedLater : Published(m)
  PROVE  SourceInv'
<1>1. ResolverTypeOK /\ ProjectTypeOK
  BY DEF SourceInv, ProjectTypeOK
<1>2. ASSUME NEW m \in BuiltLater, Build(m) PROVE SourceInv'
  <2>1. m \in Manifest /\ Own[m] \in Key
    BY ProjectAssumption, ResolverAssumption
  <2>2. [key |-> Own[m], hash |-> m] \in Ref
    BY <2>1 DEF Ref
  <2>3. refs' \subseteq Ref /\ \A r, s \in refs' : r.key = s.key => r = s
    BY <1>1, <1>2, <2>2 DEF Build, ProjectTypeOK
  <2>4. UNCHANGED <<deps, registry, local, online, pins, at, queue, stack, chosen, ordered, visited,
                    byName, verdict, toml, lock, cmd, want, prior, ran, made>>
    BY <1>2 DEF Build, resolver, source, walk, files, run
  <2>5. ResolverTypeOK'
    BY <1>1, <2>4 DEF ResolverTypeOK
  <2> QED
    BY <1>1, <2>3, <2>4, <2>5
    DEF SourceInv, ProjectTypeOK, TruePins, TrueTable, Choosing, Asking, Asked, Top, TrueLock, CommandInv
<1>3. ASSUME NEW m \in PublishedLater, Published(m) PROVE SourceInv'
  <2>1. registry' \subseteq Manifest
    BY <1>1, <1>3, ProjectAssumption DEF Published, Publish, ResolverTypeOK
  <2>2. UNCHANGED <<deps, local, online, pins, at, queue, stack, chosen, ordered, visited,
                    byName, verdict, refs, toml, lock, cmd, want, prior, ran, made>>
    BY <1>3 DEF Published, Publish, source, walk, files, run
  <2>3. ResolverTypeOK'
    BY <1>1, <2>1, <2>2 DEF ResolverTypeOK
  <2> QED
    BY <1>1, <2>2, <2>3
    DEF SourceInv, ProjectTypeOK, TruePins, TrueTable, Choosing, Asking, Asked, Top, TrueLock, CommandInv
<1> QED
  BY <1>2, <1>3

LEMMA NextKeeps ==
  ASSUME SourceInv, [Next]_vars
  PROVE  SourceInv'
<1>1. CASE UNCHANGED vars
  <2>1. UNCHANGED <<deps, registry, local, online, pins, at, queue, stack, chosen, ordered, visited,
                    byName, verdict, refs, toml, lock, cmd, want, prior, ran, made>>
    BY <1>1 DEF vars, source, walk
  <2>2. ResolverTypeOK'
    BY <2>1 DEF SourceInv, ProjectTypeOK, ResolverTypeOK
  <2> QED
    BY <2>1, <2>2
    DEF SourceInv, ProjectTypeOK, TruePins, TrueTable, Choosing, Asking, Asked, Top, TrueLock, CommandInv
<1> QED
  BY <1>1, CommandKeeps, ProgressKeeps, AroundKeeps DEF Next

LEMMA InitSource ==
  ASSUME ProjectInit
  PROVE  SourceInv
<1>1. /\ local \in [held : SUBSET Manifest, index : SUBSET Manifest] /\ local.index \subseteq local.held
      /\ pins \in [Name -> {None} \cup Entry] /\ byName \in [Name -> SUBSET Manifest]
      /\ <<>> \in Seq(Demand) /\ <<>> \in Seq(Frame) /\ <<>> \in Seq(Item) /\ <<>> \in Seq(Manifest)
  BY DEF ProjectInit, ResolverInit, WalkInit, NoPins
<1>2. ResolverTypeOK
  BY <1>1, ProjectAssumption DEF ProjectInit, ResolverInit, WalkInit, ResolverTypeOK, Frame
<1>3. refs \subseteq Ref /\ \A r, s \in refs : r.key = s.key => r = s
  BY ProjectAssumption, ResolverAssumption DEF ProjectInit, Ref
<1>4. ProjectTypeOK
  BY <1>1, <1>2, <1>3, ProjectAssumption DEF ProjectTypeOK, ProjectInit, NoCommand, Kinds
<1> QED
  BY <1>4 DEF SourceInv, ProjectInit, ResolverInit, WalkInit, TruePins, TrueTable, NoPins, Choosing,
              TrueLock, CommandInv, NoCommand

\* Whatever commands run and whatever is built and published around them, the
\* walk, the lockfile and the refs keep their types, and a version of the store
\* leads to one manifest.
THEOREM ProjectTypeCorrect == Spec => []ProjectTypeOK
<1>1. SourceInv /\ [Next]_vars => SourceInv'
  BY NextKeeps
<1>2. SourceInv => ProjectTypeOK
  BY DEF SourceInv
<1> QED
  BY <1>1, <1>2, InitSource, PTL DEF Spec

-----------------------------------------------------------------------------
(***************************************************************************)
(* The walk as a whole, over any graph of dependencies, cycles included,   *)
(* and whatever is published meanwhile: what it returns answers every      *)
(* demand, in an order in which dependencies come first, an update leaves  *)
(* the rest alone, and the lock reproduces what was installed.             *)
(***************************************************************************)
\* A demand of a root, or of a manifest visited.
Demanded(d) == (\E i \in DOMAIN want : want[i] = d) \/ \E m \in visited : d \in deps[m]

\* A manifest that answers it was visited, and is on record under its name.
Met(d) == \E h \in visited \cap byName[d.name] : Answers(h, d)

\* g leads to h, by what is on record so far.
Reaches(g, h) ==
  \A S \in SUBSET Manifest :
    g \in S /\ (\A f \in S \cap visited, e \in visited : Needs(f, e) => e \in S) => h \in S

\* What was visited is in order or on the stack, once.
SplitInv ==
  /\ visited = Hashes \cup {stack[k].hash : k \in DOMAIN stack}
  /\ \A i, j \in DOMAIN ordered : ordered[i].hash = ordered[j].hash => i = j
  /\ \A k, l \in DOMAIN stack : stack[k].hash = stack[l].hash => k = l
  /\ \A i \in DOMAIN ordered, k \in DOMAIN stack : ordered[i].hash # stack[k].hash

\* What a manifest on the stack needs is met or still to do, and it leads to
\* those above it.
StackInv ==
  /\ \A k \in DOMAIN stack : /\ stack[k].todo \subseteq deps[stack[k].hash]
                             /\ \A d \in deps[stack[k].hash] \ stack[k].todo : Met(d)
  /\ \A k, l \in DOMAIN stack : k <= l => Reaches(stack[k].hash, stack[l].hash)

\* What a manifest in order needs is met, by one before it or by one that leads
\* to it.
First(i, d) ==
  \E h \in visited \cap byName[d.name] :
    /\ Answers(h, d)
    /\ (\E j \in DOMAIN ordered : j < i /\ ordered[j].hash = h) \/ Reaches(h, ordered[i].hash)

OrderInv == \A i \in DOMAIN ordered : \A d \in deps[ordered[i].hash] : First(i, d)

RootInv ==
  /\ \A j \in DOMAIN queue : \E i \in DOMAIN want : want[i] = queue[j]
  /\ \A i \in DOMAIN want : Met(want[i]) \/ \E j \in DOMAIN queue : queue[j] = want[i]

FoundInv == \A h \in visited : \E d \in Demand : Demanded(d) /\ h \in byName[d.name] /\ Found(h, d)

EndInv == Ok => stack = <<>> /\ queue = <<>> /\ \A n \in Name : \A g, h \in byName[n] : g = h

IdleInv == at = "idle" => visited = {}

WalkInv == SplitInv /\ StackInv /\ OrderInv /\ RootInv /\ FoundInv /\ EndInv /\ IdleInv

\* What was on record stays so.
Grows ==
  /\ visited \subseteq visited' /\ deps' = deps
  /\ \A n \in Name : byName[n] \subseteq byName'[n]

LEMMA MetStays ==
  ASSUME Grows, NEW d \in Demand, Met(d)
  PROVE  Met(d)'
  BY DemandType DEF Grows, Met, Answers

LEMMA ReachesStays ==
  ASSUME ResolverTypeOK, Grows, NEW g \in Manifest, NEW h \in Manifest, Reaches(g, h)
  PROVE  Reaches(g, h)'
<1> SUFFICES ASSUME NEW S \in SUBSET Manifest, g \in S,
                    \A f \in S \cap visited', e \in visited' : Needs(f, e)' => e \in S
             PROVE  h \in S
  BY DEF Reaches
<1>1. deps \in [Manifest -> SUBSET Demand] /\ visited \subseteq Manifest
  BY ResolverAssumption DEF ResolverTypeOK
<1>2. ASSUME NEW f \in S \cap visited, NEW e \in visited, Needs(f, e) PROVE e \in S
  <2>1. PICK d \in deps[f] : e \in byName[d.name]
    BY <1>2 DEF Needs
  <2>2. d \in Demand
    BY <1>1, <2>1
  <2>3. Needs(f, e)'
    BY <2>1, <2>2, DemandType DEF Needs, Grows
  <2> QED
    BY <1>2, <2>3 DEF Grows
<1> QED
  BY <1>2 DEF Reaches

\* What the invariant says of names and hashes, for the steps below.
LEMMA WalkTypes ==
  ASSUME ResolverTypeOK
  PROVE  /\ deps \in [Manifest -> SUBSET Demand] /\ visited \in SUBSET Manifest
         /\ byName \in [Name -> SUBSET Manifest]
         /\ stack \in Seq(Frame) /\ ordered \in Seq(Item) /\ queue \in Seq(Demand)
         /\ Len(stack) \in Nat /\ Len(ordered) \in Nat /\ Len(queue) \in Nat
         /\ DOMAIN stack = 1..Len(stack) /\ DOMAIN ordered = 1..Len(ordered)
         /\ DOMAIN queue = 1..Len(queue)
         /\ \A k \in DOMAIN stack : stack[k] \in Frame /\ stack[k].hash \in Manifest
         /\ \A i \in DOMAIN ordered : ordered[i].hash \in Manifest
<1>1. /\ deps \in [Manifest -> SUBSET Demand] /\ visited \in SUBSET Manifest
      /\ byName \in [Name -> SUBSET Manifest]
      /\ stack \in Seq(Frame) /\ ordered \in Seq(Item) /\ queue \in Seq(Demand)
  BY ResolverAssumption DEF ResolverTypeOK, Frame
<1>2. \A k \in DOMAIN stack : stack[k] \in Frame
  BY <1>1
<1>3. \A i \in DOMAIN ordered : ordered[i] \in Item
  BY <1>1
<1> QED
  BY <1>1, <1>2, <1>3 DEF Frame, Item

-----------------------------------------------------------------------------
\* The stack after a visit: as before, but for the demand met, and with the
\* manifest visited on top if it is new.
Pushed(h) ==
  \E t \in Nat :
    /\ t \notin DOMAIN stack /\ \A k \in DOMAIN stack : k <= t
    /\ stack # <<>> => Len(stack) \in DOMAIN stack /\ \A k \in DOMAIN stack : k <= Len(stack)
    /\ DOMAIN stack' = DOMAIN stack \cup {t}
    /\ stack'[t].hash = h /\ stack'[t].todo = deps[h]

LEMMA StackAfter ==
  ASSUME ResolverTypeOK, Asking, NEW h \in Manifest, Visit(h)
  PROVE  /\ \A k \in DOMAIN stack : /\ stack'[k].hash = stack[k].hash
                                    /\ stack'[k].todo \in {stack[k].todo, stack[k].todo \ {Asked}}
         /\ IF h \in visited THEN DOMAIN stack' = DOMAIN stack ELSE Pushed(h)
<1> DEFINE n == Len(stack)
<1>1. /\ n \in Nat /\ DOMAIN stack = 1..n /\ \A k \in DOMAIN stack : stack[k] \in Frame
      /\ stack = <<>> \/ n # 0
  BY WalkTypes
<1>2. VisitedStack(h) /\ stack' \in Seq(Frame)
  BY VisitStack
<1>3. DOMAIN stack' = 1..Len(stack')
  BY <1>2
<1> HIDE DEF n
<1>4. ASSUME NEW k \in DOMAIN stack
      PROVE  /\ stack'[k].hash = stack[k].hash
             /\ stack'[k].todo \in {stack[k].todo, stack[k].todo \ {Asked}}
  <2>1. stack'[k] = IF k = n THEN [stack[k] EXCEPT !.todo = @ \ {Asked}] ELSE stack[k]
    BY <1>1, <1>2 DEF VisitedStack, n
  <2> QED
    BY <1>1, <2>1 DEF Frame
<1>5. CASE h \in visited
  BY <1>1, <1>2, <1>3, <1>4, <1>5 DEF VisitedStack, n
<1>6. CASE h \notin visited
  <2>1. Len(stack') = n + 1 /\ stack'[n + 1] = [name |-> Asked.name, hash |-> h, todo |-> deps[h]]
    BY <1>2, <1>6 DEF VisitedStack, n
  <2>2. n + 1 \in Nat /\ n + 1 \notin 1..n /\ 1..(n + 1) = 1..n \cup {n + 1} /\ \A k \in 1..n : k <= n /\ k <= n + 1
    BY <1>1
  <2>3. stack # <<>> => n \in 1..n
    BY <1>1
  <2>4. Pushed(h)
    BY <1>1, <1>3, <2>1, <2>2, <2>3 DEF Pushed, n
  <2> QED
    BY <1>4, <1>6, <2>4
<1> QED
  BY <1>5, <1>6

\* A manifest just recorded for the top of the stack is one that the top needs,
\* so what leads to the top leads to it.
LEMMA ReachesNext ==
  ASSUME NEW g \in Manifest, NEW f \in Manifest, NEW h \in Manifest, Reaches(g, f),
         f \in visited, h \in visited, Needs(f, h)
  PROVE  Reaches(g, h)
  BY DEF Reaches

LEMMA VisitWalk ==
  ASSUME SourceInv, WalkInv, Asking, NEW h \in Manifest, Found(h, Asked), Visit(h), UNCHANGED want
  PROVE  WalkInv'
<1>1. ResolverTypeOK /\ ResolverTypeOK' /\ want \in Seq(Demand)
  BY VisitType DEF SourceInv, ProjectTypeOK
<1>2. PICK ask \in Demand : ask = Asked /\ ask.name \in Name
  BY <1>1, AskedIs, DemandType
<1>3. /\ visited' = visited \cup {h} /\ deps' = deps /\ ordered' = ordered /\ pins' = pins
      /\ byName' = [byName EXCEPT ![ask.name] = @ \cup {h}] /\ at' = "walk"
  BY <1>2 DEF Visit, source
<1>4. Grows /\ h \in byName'[ask.name] /\ h \in visited'
  BY <1>1, <1>2, <1>3, WalkTypes DEF Grows
<1>5. Met(ask)'
  BY <1>2, <1>3, <1>4 DEF Met, Found, Answers
<1>6. /\ deps \in [Manifest -> SUBSET Demand]
      /\ \A k \in DOMAIN stack : stack[k].hash \in Manifest
      /\ \A i \in DOMAIN ordered : ordered[i].hash \in Manifest
  BY <1>1, WalkTypes
<1>7. /\ \A k \in DOMAIN stack : /\ stack'[k].hash = stack[k].hash
                                 /\ stack'[k].todo \in {stack[k].todo, stack[k].todo \ {ask}}
      /\ IF h \in visited THEN DOMAIN stack' = DOMAIN stack ELSE Pushed(h)
  BY <1>1, <1>2, StackAfter
<1>8. visited = Hashes \cup {stack[k].hash : k \in DOMAIN stack} /\ Hashes' = Hashes
  BY <1>3 DEF WalkInv, SplitInv, Hashes
<1>9. SplitInv'
  <2>1. CASE h \in visited
    <3>1. {stack'[k].hash : k \in DOMAIN stack'} = {stack[k].hash : k \in DOMAIN stack}
      BY <1>7, <2>1
    <3> QED
      BY <1>3, <1>7, <1>8, <2>1, <3>1 DEF WalkInv, SplitInv
  <2>2. CASE h \notin visited
    <3>1. PICK t \in Nat : t \notin DOMAIN stack /\ DOMAIN stack' = DOMAIN stack \cup {t} /\ stack'[t].hash = h
      BY <1>7, <2>2 DEF Pushed
    <3>2. {stack'[k].hash : k \in DOMAIN stack'} = {stack[k].hash : k \in DOMAIN stack} \cup {h}
      BY <1>7, <3>1
    <3>3. (\A k \in DOMAIN stack : stack[k].hash # h) /\ \A i \in DOMAIN ordered : ordered[i].hash # h
      BY <1>8, <2>2 DEF Hashes
    <3> QED
      BY <1>3, <1>7, <1>8, <3>1, <3>2, <3>3 DEF WalkInv, SplitInv
  <2> QED
    BY <2>1, <2>2
<1>10. ASSUME NEW k \in DOMAIN stack'
       PROVE  /\ stack'[k].todo \subseteq deps'[stack'[k].hash]
              /\ \A d \in deps'[stack'[k].hash] \ stack'[k].todo : Met(d)'
  <2>1. CASE k \in DOMAIN stack
    <3>1. /\ stack[k].todo \subseteq deps[stack[k].hash]
          /\ \A d \in deps[stack[k].hash] \ stack[k].todo : Met(d)
      BY <2>1 DEF WalkInv, StackInv
    <3>2. \A d \in deps[stack[k].hash] : d \in Demand
      BY <1>6, <2>1
    <3>3. \A d \in deps[stack[k].hash] \ stack[k].todo : Met(d)'
      BY <1>4, <3>1, <3>2, MetStays
    <3> QED
      BY <1>3, <1>5, <1>7, <2>1, <3>1, <3>3
  <2>2. CASE k \notin DOMAIN stack
    BY <1>3, <1>7, <1>10, <2>2 DEF Pushed
  <2> QED
    BY <2>1, <2>2
<1>11. \A g, e \in Manifest : Reaches(g, e) => Reaches(g, e)'
  BY <1>1, <1>4, ReachesStays
<1>12. ASSUME NEW k \in DOMAIN stack', NEW l \in DOMAIN stack', k <= l
       PROVE  Reaches(stack[k].hash, stack[l].hash)'
  <2>1. ASSUME NEW i \in DOMAIN stack, NEW j \in DOMAIN stack, i <= j,
               NEW g \in Manifest, NEW e \in Manifest, g = stack[i].hash, e = stack[j].hash
        PROVE  Reaches(g, e)'
    BY <1>11, <2>1 DEF WalkInv, StackInv
  <2>2. CASE k \in DOMAIN stack /\ l \in DOMAIN stack
    <3>1. stack'[k].hash \in Manifest /\ stack'[l].hash \in Manifest
      BY <1>6, <1>7, <2>2
    <3>2. PICK g \in Manifest, e \in Manifest : g = stack'[k].hash /\ e = stack'[l].hash
      BY <3>1
    <3>3. Reaches(g, e)'
      BY <1>7, <1>12, <2>1, <2>2, <3>2
    <3> QED
      BY <3>2, <3>3
  <2>3. CASE ~(k \in DOMAIN stack /\ l \in DOMAIN stack)
    <3>1. h \notin visited
      BY <1>7, <2>3
    <3>2. PICK t \in Nat :
            /\ t \notin DOMAIN stack /\ \A m \in DOMAIN stack : m <= t
            /\ stack # <<>> => Len(stack) \in DOMAIN stack /\ \A m \in DOMAIN stack : m <= Len(stack)
            /\ DOMAIN stack' = DOMAIN stack \cup {t} /\ stack'[t].hash = h
      BY <1>7, <3>1 DEF Pushed
    <3>3. l = t
      BY <1>1, <1>12, <2>3, <3>2, WalkTypes
    <3>4. CASE k = t
      <4>1. Reaches(h, h)'
        BY DEF Reaches
      <4> QED
        BY <3>2, <3>3, <3>4, <4>1
    <3>5. CASE k \in DOMAIN stack
      <4>1. stack # <<>>
        BY <3>5
      <4>2. PICK g \in Manifest, f \in Manifest : g = stack[k].hash /\ f = Top.hash
        BY <1>1, <1>6, <3>5, <4>1, TopIs DEF Frame
      <4>3. Reaches(g, f)'
        BY <1>1, <2>1, <3>2, <3>5, <4>1, <4>2, TopIs
      <4>4. ask \in deps[f]
        <5>1. Len(stack) \in DOMAIN stack /\ Top = stack[Len(stack)] /\ ask \in Top.todo
          BY <1>1, <1>2, <3>2, <4>1, TopIs, AskedIs
        <5> QED
          BY <4>2, <5>1 DEF WalkInv, StackInv
      <4>5. f \in visited' /\ Needs(f, h)'
        <5>1. f \in visited
          BY <1>1, <1>8, <3>2, <4>1, <4>2, TopIs
        <5> QED
          BY <1>3, <1>4, <4>4, <5>1 DEF Needs
      <4>6. Reaches(g, h)'
        BY <1>4, <4>3, <4>5 DEF Reaches
      <4>7. stack'[k].hash = g /\ stack'[l].hash = h
        BY <1>7, <3>2, <3>3, <3>5, <4>2
      <4> QED
        BY <4>6, <4>7
    <3> QED
      BY <1>12, <3>2, <3>4, <3>5
  <2> QED
    BY <2>2, <2>3
<1>13. StackInv'
  BY <1>10, <1>12 DEF StackInv
<1>14. OrderInv'
  <2> SUFFICES ASSUME NEW i \in DOMAIN ordered', NEW d \in deps'[ordered'[i].hash]
               PROVE  First(i, d)'
    BY DEF OrderInv
  <2>1. i \in DOMAIN ordered /\ d \in deps[ordered[i].hash] /\ ordered[i].hash \in Manifest
    BY <1>3, <1>6
  <2>2. d \in Demand /\ d.name \in Name
    BY <1>6, <2>1, DemandType
  <2>3. PICK e \in visited \cap byName[d.name] :
          /\ Answers(e, d)
          /\ (\E j \in DOMAIN ordered : j < i /\ ordered[j].hash = e) \/ Reaches(e, ordered[i].hash)
    BY <2>1 DEF WalkInv, OrderInv, First
  <2>4. PICK m \in Manifest : m = ordered[i].hash
    BY <2>1
  <2>5. e \in Manifest /\ e \in visited' \cap byName'[d.name]
    BY <1>1, <1>4, <2>2, <2>3, WalkTypes DEF Grows
  <2>6. Reaches(e, m) => Reaches(e, m)'
    BY <1>11, <2>5
  <2>7. Answers(e, d)' /\ ((\E j \in DOMAIN ordered : j < i /\ ordered[j].hash = e) \/ Reaches(e, ordered[i].hash))'
    BY <1>3, <2>3, <2>4, <2>6 DEF Answers
  <2> QED
    BY <2>5, <2>7 DEF First
<1>15. RootInv'
  <2>1. /\ \A j \in DOMAIN queue : queue[j] = ask \/ \E i \in DOMAIN queue' : queue'[i] = queue[j]
        /\ \A i \in DOMAIN queue' : \E j \in DOMAIN queue : queue'[i] = queue[j]
    BY <1>1, <1>2, VisitQueue
  <2>2. ASSUME NEW i \in DOMAIN want PROVE Met(want[i])' \/ \E j \in DOMAIN queue' : queue'[j] = want[i]
    <3>1. PICK d \in Demand : d = want[i] /\ want' = want
      BY <1>1
    <3>2. Met(d) \/ \E j \in DOMAIN queue : queue[j] = d
      BY <3>1 DEF WalkInv, RootInv
    <3>3. Met(d)' \/ \E j \in DOMAIN queue' : queue'[j] = d
      BY <1>4, <1>5, <2>1, <3>2, MetStays
    <3> QED
      BY <3>1, <3>3
  <2> QED
    BY <2>1, <2>2 DEF WalkInv, RootInv
<1>16. FoundInv'
  <2>1. ASSUME NEW d \in Demand, Demanded(d) PROVE Demanded(d)'
    BY <1>3, <2>1 DEF Demanded
  <2>2. Demanded(ask)
    <3>1. CASE stack = <<>>
      <4>1. 1 \in DOMAIN queue /\ ask = queue[1]
        BY <1>1, <1>2, <3>1, AskedIs, WalkTypes
      <4> QED
        BY <4>1 DEF WalkInv, RootInv, Demanded
    <3>2. CASE stack # <<>>
      <4>1. Len(stack) \in DOMAIN stack /\ Top = stack[Len(stack)] /\ ask \in Top.todo
        BY <1>1, <1>2, <3>2, TopIs, AskedIs, WalkTypes
      <4>2. ask \in deps[Top.hash] /\ Top.hash \in visited
        BY <1>8, <4>1 DEF WalkInv, StackInv
      <4> QED
        BY <4>2 DEF Demanded
    <3> QED
      BY <3>1, <3>2
  <2>3. Found(h, ask)'
    BY <1>2, <1>3 DEF Found, Answers
  <2>4. ASSUME NEW e \in visited PROVE \E d \in Demand : Demanded(d)' /\ e \in byName'[d.name] /\ Found(e, d)'
    <3>1. PICK d \in Demand : Demanded(d) /\ e \in byName[d.name] /\ Found(e, d)
      BY DEF WalkInv, FoundInv
    <3> QED
      BY <1>3, <1>4, <2>1, <3>1, DemandType DEF Grows, Found, Answers
  <2> QED
    BY <1>3, <1>4, <2>1, <2>2, <2>3, <2>4 DEF FoundInv
<1>17. EndInv' /\ IdleInv'
  BY <1>3 DEF EndInv, Ok, IdleInv
<1> QED
  BY <1>9, <1>13, <1>14, <1>15, <1>16, <1>17 DEF WalkInv

LEMMA LeaveWalk ==
  ASSUME SourceInv, WalkInv, Leave, UNCHANGED want
  PROVE  WalkInv'
<1>1. ResolverTypeOK
  BY DEF SourceInv, ProjectTypeOK
<1>2. UNCHANGED <<deps, pins, at, queue, visited, byName>> /\ at = "walk"
  BY DEF Leave, source
<1> DEFINE n == Len(stack)
           m == Len(ordered) + 1
<1>3. /\ DOMAIN stack = 1..n /\ DOMAIN ordered = 1..(m - 1) /\ n \in Nat \ {0} /\ m \in Nat \ {0}
      /\ DOMAIN stack' = 1..(n - 1) /\ DOMAIN ordered' = 1..m
      /\ \A k \in 1..(n - 1) : stack'[k] = stack[k]
      /\ \A i \in 1..(m - 1) : ordered'[i] = ordered[i]
      /\ ordered'[m].hash = stack[n].hash /\ stack[n].todo = {}
  BY <1>1, LeaveIs, WalkTypes
<1> HIDE DEF n, m
<1>4. /\ n \notin DOMAIN stack' /\ DOMAIN stack = DOMAIN stack' \cup {n}
      /\ m \notin DOMAIN ordered /\ DOMAIN ordered' = DOMAIN ordered \cup {m}
      /\ (\A k \in DOMAIN stack : k <= n) /\ \A i \in DOMAIN ordered : i < m
  BY <1>3
<1>5. /\ \A k \in DOMAIN stack' : stack'[k] = stack[k]
      /\ \A i \in DOMAIN ordered : ordered'[i] = ordered[i]
  BY <1>3
<1>6. SplitInv'
  <2>1. Hashes' = Hashes \cup {stack[n].hash}
    BY <1>3, <1>4, <1>5 DEF Hashes
  <2>2. {stack[k].hash : k \in DOMAIN stack} = {stack'[k].hash : k \in DOMAIN stack'} \cup {stack[n].hash}
    BY <1>4, <1>5
  <2> QED
    BY <1>2, <1>3, <1>4, <1>5, <2>1, <2>2, SMTT(30) DEF WalkInv, SplitInv
<1>7. \A g, e : Reaches(g, e)' <=> Reaches(g, e)
  BY <1>2 DEF Reaches, Needs
<1>8. StackInv'
  BY <1>2, <1>4, <1>5, <1>7 DEF WalkInv, StackInv, Met, Answers
<1>9. OrderInv'
  <2> SUFFICES ASSUME NEW i \in DOMAIN ordered', NEW d \in deps'[ordered'[i].hash]
               PROVE  First(i, d)'
    BY DEF OrderInv
  <2>1. CASE i \in DOMAIN ordered
    <3>1. PICK e \in visited \cap byName[d.name] :
            /\ Answers(e, d)
            /\ (\E j \in DOMAIN ordered : j < i /\ ordered[j].hash = e) \/ Reaches(e, ordered[i].hash)
      BY <1>2, <1>5, <2>1 DEF WalkInv, OrderInv, First
    <3> QED
      BY <1>2, <1>4, <1>5, <1>7, <2>1, <3>1 DEF First, Answers
  <2>2. CASE i = m
    <3>1. d \in deps[stack[n].hash] /\ d \notin stack[n].todo
      BY <1>2, <1>3, <2>2
    <3>2. PICK e \in visited \cap byName[d.name] : Answers(e, d)
      BY <1>4, <3>1 DEF WalkInv, StackInv, Met
    <3>3. CASE \E j \in DOMAIN ordered : ordered[j].hash = e
      BY <1>2, <1>4, <1>5, <2>2, <3>2, <3>3 DEF First, Answers
    <3>4. CASE \E k \in DOMAIN stack : stack[k].hash = e
      <4>1. Reaches(e, stack[n].hash)
        BY <1>4, <3>4 DEF WalkInv, StackInv
      <4> QED
        BY <1>2, <1>3, <1>7, <2>2, <3>2, <4>1 DEF First, Answers
    <3> QED
      BY <3>2, <3>3, <3>4 DEF WalkInv, SplitInv, Hashes
  <2> QED
    BY <1>4, <2>1, <2>2
<1>10. RootInv' /\ FoundInv' /\ EndInv' /\ IdleInv'
  BY <1>2 DEF WalkInv, RootInv, FoundInv, EndInv, IdleInv, Met, Answers, Demanded, Found, Ok
<1> QED
  BY <1>6, <1>8, <1>9, <1>10 DEF WalkInv

\* Steps that touch nothing of this, or begin and end the walk.
LEMMA StillWalk ==
  ASSUME WalkInv, UNCHANGED <<deps, pins, queue, stack, ordered, visited, byName, want>>,
         EndInv', IdleInv'
  PROVE  WalkInv'
<1>1. \A g, e : Reaches(g, e)' <=> Reaches(g, e)
  BY DEF Reaches, Needs
<1>2. SplitInv' /\ RootInv' /\ FoundInv'
  BY DEF WalkInv, SplitInv, RootInv, FoundInv, Hashes, Met, Answers, Demanded, Found
<1>3. StackInv'
  BY <1>1 DEF WalkInv, StackInv, Met, Answers
<1>4. OrderInv'
  BY <1>1 DEF WalkInv, OrderInv, First, Answers
<1> QED
  BY <1>2, <1>3, <1>4 DEF WalkInv

NothingYet == visited = {} /\ stack = <<>> /\ ordered = <<>> /\ queue = want /\ at # "done"

LEMMA EmptyWalk == NothingYet => WalkInv
  BY DEF NothingYet, WalkInv, SplitInv, StackInv, OrderInv, RootInv, FoundInv, EndInv, IdleInv, Hashes, Ok

LEMMA WalkKeeps ==
  ASSUME SourceInv, WalkInv, Walking
  PROVE  WalkInv'
<1>1. ResolverTypeOK /\ TruePins /\ Choosing /\ Walk /\ UNCHANGED want
  BY DEF SourceInv, ProjectTypeOK, Walking, run
<1>2. ASSUME NEW h \in Manifest, Asking, Found(h, Asked), Visit(h) PROVE WalkInv'
  BY <1>1, <1>2, VisitWalk
<1>3. ASSUME NEW why \in Failures, Fail(why) PROVE WalkInv'
  BY <1>1, <1>3, StillWalk DEF Fail, source, EndInv, IdleInv, Ok, Failures
<1>4. ASSUME at' = "fetch",
             UNCHANGED <<deps, registry, source, queue, stack, ordered, visited, byName, verdict>>
      PROVE  WalkInv'
  BY <1>1, <1>4, StillWalk DEF source, EndInv, IdleInv, Ok
<1>5. ASSUME Leave PROVE WalkInv'
  BY <1>1, <1>5, LeaveWalk
<1>6. ASSUME Settle PROVE WalkInv'
  BY <1>1, <1>6, StillWalk DEF Settle, source, EndInv, IdleInv, Ok
<1> QED
  BY <1>1, <1>2, <1>3, <1>4, <1>5, <1>6, WalkIs

\* A command starts with nothing visited.
LEMMA RunStarts ==
  ASSUME SourceInv, WalkInv, NEW kind, NEW names, NEW roots, NEW pinned, NEW net,
         Run(kind, names, roots, pinned, net)
  PROVE  NothingYet'
<1>1. at = "idle" /\ at' = "walk" /\ queue' = roots /\ want' = roots
      /\ UNCHANGED <<stack, ordered, visited>>
  BY DEF Run, Start
<1>2. visited = {} /\ DOMAIN stack = {} /\ DOMAIN ordered = {}
  <2>1. visited = {}
    BY <1>1 DEF WalkInv, IdleInv
  <2>2. \A k \in DOMAIN stack : stack[k].hash \in visited
    BY DEF WalkInv, SplitInv
  <2>3. \A i \in DOMAIN ordered : ordered[i].hash \in visited
    BY DEF WalkInv, SplitInv, Hashes
  <2> QED
    BY <2>1, <2>2, <2>3
<1>3. stack = <<>> /\ ordered = <<>>
  <2>1. stack \in Seq(Frame) /\ ordered \in Seq(Item)
    BY WalkTypes DEF SourceInv, ProjectTypeOK
  <2> QED
    BY <1>2, <2>1
<1> QED
  BY <1>1, <1>2, <1>3 DEF NothingYet

LEMMA NextWalk ==
  ASSUME SourceInv, WalkInv, [Next]_vars
  PROVE  WalkInv'
<1>1. ResolverTypeOK /\ ProjectTypeOK
  BY DEF SourceInv, ProjectTypeOK
<1>2. CASE UNCHANGED <<deps, pins, at, queue, stack, ordered, visited, byName, verdict, want>>
  BY <1>2, StillWalk DEF WalkInv, EndInv, IdleInv, Ok
<1>3. CASE Stop
  <2>1. NothingYet'
    BY <1>3 DEF Stop, End, NothingYet
  <2> QED
    BY <2>1, EmptyWalk, PTL
<1>4. ASSUME NEW kind, NEW names, NEW roots, NEW pinned, NEW net, Run(kind, names, roots, pinned, net)
      PROVE  WalkInv'
  <2>4. NothingYet'
    BY <1>4, RunStarts
  <2> QED
    BY <2>4, EmptyWalk, PTL
<1>5. CASE Command
  BY <1>4, <1>5 DEF Command, Lock, Update, Add, Remove, Install
<1>6. CASE Walking
  BY <1>6, WalkKeeps
<1>7. CASE GiveUp \/ WriteLock \/ PutRefs \/ Crash
  BY <1>3, <1>7 DEF GiveUp, WriteLock, PutRefs, Crash
<1>8. CASE WriteToml \/ (\E m \in Manifest : Build(m) \/ Published(m)) \/ UNCHANGED vars
  BY <1>2, <1>8 DEF WriteToml, Build, Published, Publish, resolver, source, walk, run, vars
<1> QED
  BY <1>5, <1>6, <1>7, <1>8, ProjectAssumption DEF Next, Progress

\* WalkInv holds at every step of every command.
THEOREM WalkInvariant == Spec => [](SourceInv /\ WalkInv)
<1>1. ProjectInit => SourceInv /\ WalkInv
  <2> SUFFICES ASSUME ProjectInit PROVE SourceInv /\ WalkInv
    OBVIOUS
  <2>1. visited = {} /\ stack = <<>> /\ ordered = <<>> /\ queue = want /\ at = "idle"
    BY DEF ProjectInit, ResolverInit, WalkInit
  <2> QED
    BY <2>1, InitSource, EmptyWalk DEF NothingYet
<1>2. SourceInv /\ WalkInv /\ [Next]_vars => (SourceInv /\ WalkInv)'
  BY NextKeeps, NextWalk
<1> QED
  BY <1>1, <1>2, PTL DEF Spec

-----------------------------------------------------------------------------
(***************************************************************************)
(* What the invariant says of a walk that has ended.                       *)
(***************************************************************************)
LEMMA Ended ==
  ASSUME SourceInv, WalkInv, Ok
  PROVE  /\ visited = Hashes /\ Hashes \in SUBSET Manifest
         /\ \A n \in Name : \A g, h \in byName[n] : g = h
         /\ \A d : Demanded(d) <=> d \in Demands
         /\ \A i \in DOMAIN want : Met(want[i])
         /\ Demands \in SUBSET Demand
<1>1. ResolverTypeOK /\ want \in Seq(Demand)
  BY DEF SourceInv, ProjectTypeOK
<1>2. stack = <<>> /\ queue = <<>> /\ \A n \in Name : \A g, h \in byName[n] : g = h
  BY DEF WalkInv, EndInv
<1>3. DOMAIN stack = {} /\ DOMAIN queue = {}
  BY <1>2
<1>4. {stack[k].hash : k \in DOMAIN stack} = {}
  BY <1>3
<1>5. visited = Hashes /\ visited \in SUBSET Manifest
  BY <1>1, <1>4, WalkTypes DEF WalkInv, SplitInv
<1>6. \A d : Demanded(d) <=> d \in Demands
  BY <1>5 DEF Demanded, Demands
<1>7. \A i \in DOMAIN want : Met(want[i])
  BY <1>3 DEF WalkInv, RootInv
<1>8. Demands \in SUBSET Demand
  BY <1>1, <1>5, WalkTypes DEF Demands
<1> QED
  BY <1>2, <1>5, <1>6, <1>7, <1>8

LEMMA WalkResolved ==
  ASSUME SourceInv, WalkInv
  PROVE  Resolved
<1> SUFFICES ASSUME Ok PROVE Resolved
  BY DEF Resolved
<1>1. ASSUME NEW d \in Demands PROVE \E h \in Hashes \cap byName[d.name] : Answers(h, d)
  <2>1. CASE \E i \in DOMAIN want : want[i] = d
    BY <2>1, Ended DEF Met
  <2>2. CASE \E i \in DOMAIN ordered : d \in deps[ordered[i].hash]
    BY <2>2, Ended DEF WalkInv, OrderInv, First
  <2> QED
    BY <2>1, <2>2 DEF Demands, Hashes
<1>2. ASSUME NEW h \in Hashes PROVE \E d \in Demands : h \in byName[d.name] /\ Answers(h, d)
  BY Ended DEF WalkInv, FoundInv, Found
<1> QED
  BY <1>1, <1>2 DEF Resolved, WalkInv, SplitInv

LEMMA WalkOrdered ==
  ASSUME SourceInv, WalkInv
  PROVE  DependenciesFirst
<1> SUFFICES ASSUME Ok, NEW i \in DOMAIN ordered, NEW j \in DOMAIN ordered,
                    Needs(ordered[i].hash, ordered[j].hash),
                    ~LeadsTo(ordered[j].hash, ordered[i].hash)
             PROVE  j < i
  BY DEF DependenciesFirst
<1>1. PICK d \in deps[ordered[i].hash] : ordered[j].hash \in byName[d.name]
  BY DEF Needs
<1>2. d.name \in Name
  <2>1. d \in Demands
    BY <1>1 DEF Demands, Hashes
  <2> QED
    BY <2>1, Ended, DemandType
<1>3. PICK h \in visited \cap byName[d.name] :
        (\E k \in DOMAIN ordered : k < i /\ ordered[k].hash = h) \/ Reaches(h, ordered[i].hash)
  BY <1>1 DEF WalkInv, OrderInv, First
<1>4. h = ordered[j].hash
  BY <1>1, <1>2, <1>3, Ended
<1>5. ~Reaches(h, ordered[i].hash)
  <2>1. Reaches(h, ordered[i].hash) => LeadsTo(h, ordered[i].hash)
    <3> SUFFICES ASSUME Reaches(h, ordered[i].hash), NEW S \in SUBSET Hashes, h \in S,
                        \A f \in S, e \in Hashes : Needs(f, e) => e \in S
                 PROVE  ordered[i].hash \in S
      BY DEF LeadsTo
    <3>1. S \in SUBSET Manifest /\ visited = Hashes
      BY Ended
    <3> QED
      BY <3>1 DEF Reaches
  <2> QED
    BY <1>4, <2>1
<1>6. PICK k \in DOMAIN ordered : k < i /\ ordered[k].hash = h
  BY <1>3, <1>5
<1>7. k = j
  BY <1>4, <1>6 DEF WalkInv, SplitInv
<1> QED
  BY <1>6, <1>7

\* With honest pins a manifest was asked for under its own name.
LEMMA UnderOwnName ==
  ASSUME SourceInv, WalkInv, Ok, Honest, HonestRoots(want), NEW h \in Hashes
  PROVE  h \in byName[Own[h].name] /\ Own[h].name \in Name
<1>1. PICK d \in Demand : Demanded(d) /\ h \in byName[d.name] /\ Found(h, d)
  BY Ended DEF WalkInv, FoundInv
<1>2. d.pin # None => Own[d.pin].name = d.name
  <2>1. CASE \E i \in DOMAIN want : want[i] = d
    BY <2>1 DEF HonestRoots
  <2>2. CASE \E m \in visited : d \in deps[m]
    BY <2>2, Ended DEF Honest
  <2> QED
    BY <1>1, <2>1, <2>2 DEF Demanded
<1>3. Own[h].name = d.name
  BY <1>1, <1>2 DEF Found, Answers
<1> QED
  BY <1>1, <1>3, DemandType

LEMMA WalkOneBuild ==
  ASSUME SourceInv, WalkInv
  PROVE  OneBuildPerPackage
<1> SUFFICES ASSUME Ok, Honest, HonestRoots(want), NEW g \in Hashes, NEW h \in Hashes,
                    Own[g].name = Own[h].name
             PROVE  g = h
  BY DEF OneBuildPerPackage
<1>1. g \in byName[Own[g].name] /\ h \in byName[Own[g].name] /\ Own[g].name \in Name
  BY UnderOwnName
<1> QED
  BY <1>1, Ended

LEMMA WalkKeepsOthers ==
  ASSUME SourceInv, WalkInv
  PROVE  UpdateKeepsOthers
<1> SUFFICES ASSUME Ok, cmd.kind = "update", NEW i \in DOMAIN ordered,
                    ~\E m \in cmd.names : Short[m] = Short[Own[ordered[i].hash].name],
                    Lookup(Entries(prior), Own[ordered[i].hash].name) # None,
                    ~\E d \in Demands : d.pin = ordered[i].hash
             PROVE  Lookup(Entries(prior), Own[ordered[i].hash].name).hash = ordered[i].hash
  <2>1. \A i \in DOMAIN ordered :
          ordered[i].hash \in Hashes /\ LeadsTo(ordered[i].hash, ordered[i].hash)
    BY DEF LeadsTo, Hashes
  <2> QED
    BY <2>1 DEF UpdateKeepsOthers, Entries
<1> DEFINE h == ordered[i].hash
<1>1. h \in visited
  BY Ended DEF Hashes
<1>2. PICK d \in Demand : Demanded(d) /\ h \in byName[d.name] /\ Found(h, d)
  BY <1>1 DEF WalkInv, FoundInv
<1>3. d.pin = None /\ Own[h].name = d.name
  BY <1>2, Ended DEF Found, Answers
<1>4. pins = PinFilter(Entries(prior), cmd.names) /\ d.name \in Name
  BY DemandType DEF SourceInv, CommandInv
<1>5. pins[d.name] = Lookup(Entries(prior), d.name)
  BY <1>3, <1>4 DEF PinFilter
<1> QED
  BY <1>2, <1>3, <1>5 DEF Found

\* What elu.lock would be written with passes verify.
LEMMA ResolutionVerifies ==
  ASSUME SourceInv, WalkInv, Ok, Honest, HonestRoots(want)
  PROVE  Verify(want, Resolution)
<1>1. ResolverTypeOK
  BY DEF SourceInv, ProjectTypeOK
<1>2. Resolution \in Seq(Entry) /\ DOMAIN Resolution = DOMAIN ordered
  BY <1>1, ResolutionTrue DEF Resolution
<1> SUFFICES ASSUME NEW i \in DOMAIN want
             PROVE  LET e == Lookup(Resolution, want[i].name)
                    IN  e # None /\ (want[i].pin # None \/ e.ver \in want[i].vers)
  BY DEF Verify
<1> DEFINE d == want[i]
<1>3. PICK h \in Hashes : Answers(h, d)
  BY Ended DEF Met
<1>4. Own[h].name = d.name
  BY <1>3 DEF Answers, HonestRoots
<1>5. PICK j \in DOMAIN ordered : ordered[j].hash = h
  BY DEF Hashes
<1>6. Resolution[j].name = d.name
  BY <1>4, <1>5 DEF Resolution
<1>7. PICK k \in DOMAIN Resolution : Resolution[k].name = d.name /\ Lookup(Resolution, d.name) = Resolution[k]
  BY <1>2, <1>5, <1>6, LookupFinds
<1>8. Resolution[k] \in Entry
  BY <1>2
<1>9. Own[ordered[k].hash].name = d.name /\ ordered[k].hash \in Hashes
      /\ Resolution[k].ver = Own[ordered[k].hash].ver
  BY <1>2, <1>7 DEF Resolution, Hashes
<1>10. ordered[k].hash = h
  BY <1>4, <1>9, WalkOneBuild DEF OneBuildPerPackage
<1> QED
  BY <1>3, <1>7, <1>8, <1>9, <1>10, ResolverAssumption DEF Answers

-----------------------------------------------------------------------------
(***************************************************************************)
(* A lock reproduces the resolution it was written from.  A walk is what   *)
(* its answers make of its roots: from where it is, and the manifest that  *)
(* answers the demand it asks for, follows where it is next.  Two walks    *)
(* from the same roots whose answers to a demand never differ go the same  *)
(* way, and end in the same place.                                         *)
(***************************************************************************)
Now == [queue |-> queue, stack |-> stack, ordered |-> ordered, visited |-> visited]
Beginning(roots) == [queue |-> roots, stack |-> <<>>, ordered |-> <<>>, visited |-> {}]

TopAt(x) == x.stack[Len(x.stack)]
BelowAt(x) == SubSeq(x.stack, 1, Len(x.stack) - 1)
AskingAt(x) == IF x.stack = <<>> THEN x.queue # <<>> ELSE TopAt(x).todo # {}
AskedAt(x) ==
  IF x.stack = <<>> THEN Head(x.queue)
  ELSE CHOOSE d \in TopAt(x).todo : \A e \in TopAt(x).todo : d.name <= e.name
EndAt(x) == x.stack = <<>> /\ x.queue = <<>>

Visited(x, h) ==
  LET rest == IF x.stack = <<>> THEN <<>>
              ELSE Append(BelowAt(x), [TopAt(x) EXCEPT !.todo = @ \ {AskedAt(x)}])
  IN [queue |-> IF x.stack = <<>> THEN Tail(x.queue) ELSE x.queue,
      stack |-> IF h \in x.visited THEN rest
                ELSE Append(rest, [name |-> AskedAt(x).name, hash |-> h, todo |-> deps[h]]),
      ordered |-> x.ordered,
      visited |-> x.visited \cup {h}]
Left(x) ==
  [queue |-> x.queue, stack |-> BelowAt(x),
   ordered |-> Append(x.ordered, [name |-> TopAt(x).name, hash |-> TopAt(x).hash]),
   visited |-> x.visited]

\* A step, whose answer is among the pairs A, and a walk t of k such steps.
Follows(x, y, A) ==
  IF AskingAt(x)
  THEN \E h \in Manifest : <<AskedAt(x), h>> \in A /\ y = Visited(x, h)
  ELSE ~EndAt(x) /\ y = Left(x)

Trace(t, k, roots, A) ==
  t[0] = Beginning(roots) /\ \A i \in 0..(k - 1) : Follows(t[i], t[i + 1], A)

\* The answers of this walk, and those that a lock gives.
Answered == {a \in Demand \X Manifest : a[2] \in visited /\ Found(a[2], a[1])}
Given(lk) ==
  {a \in Demand \X Manifest :
     IF a[1].pin # None THEN a[2] = a[1].pin
     ELSE Lookup(lk, a[1].name) # None /\ a[2] = Lookup(lk, a[1].name).hash}

TraceInv == at # "idle" => \E k \in Nat : \E t : Trace(t, k, want, Answered) /\ t[k] = Now

MadeInv ==
  lock # None /\ Honest /\ HonestRoots(made.roots) =>
    \E k \in Nat : \E t :
      /\ Trace(t, k, made.roots, Given(lock)) /\ EndAt(t[k])
      /\ made.hashes = [i \in DOMAIN t[k].ordered |-> t[k].ordered[i].hash]

InstallInv == cmd.kind = "install" => pins = Locked(Entries(lock))

LEMMA SameEnd ==
  ASSUME NEW k \in Nat, NEW t, NEW l \in Nat, NEW u, NEW roots, NEW A, NEW B,
         Trace(t, k, roots, A), Trace(u, l, roots, B), EndAt(t[k]), EndAt(u[l]),
         \A d, g, h : <<d, g>> \in A /\ <<d, h>> \in B => g = h
  PROVE  t[k] = u[l]
<1> DEFINE n == IF k <= l THEN k ELSE l
           S == {i \in 0..n : t[i] = u[i]}
<1>0. n \in Nat /\ n <= k /\ n <= l /\ n \in {k, l}
  OBVIOUS
<1> HIDE DEF n
<1>1. 0 \in S
  BY <1>0 DEF Trace
<1>2. ASSUME NEW i \in 0..(n - 1), i \in S PROVE i + 1 \in S
  <2>1. i \in 0..(k - 1) /\ i \in 0..(l - 1) /\ i + 1 \in 0..n
    BY <1>0
  <2>2. Follows(t[i], t[i + 1], A) /\ Follows(u[i], u[i + 1], B) /\ t[i] = u[i]
    BY <1>2, <2>1 DEF Trace
  <2>3. t[i + 1] = u[i + 1]
    BY <2>2 DEF Follows
  <2> QED
    BY <2>1, <2>3
<1> HIDE DEF S
<1>3. 0..n \subseteq S
  BY <1>0, <1>1, <1>2, Climb
<1>4. t[n] = u[n]
  BY <1>0, <1>3 DEF S
<1>5. ~AskingAt(t[n])
  BY <1>0, <1>4 DEF AskingAt, EndAt
<1>6. ~(n < k)
  BY <1>0, <1>4, <1>5 DEF Trace, Follows
<1>7. ~(n < l)
  BY <1>0, <1>4, <1>5 DEF Trace, Follows
<1> QED
  BY <1>0, <1>4, <1>6, <1>7

\* A step further.
LEMMA TraceGrows ==
  ASSUME NEW k \in Nat, NEW t, NEW roots, NEW A, NEW x, Trace(t, k, roots, A),
         Follows(t[k], x, A)
  PROVE  \E l \in Nat : \E u : Trace(u, l, roots, A) /\ u[l] = x
<1> DEFINE u == [i \in 0..(k + 1) |-> IF i = k + 1 THEN x ELSE t[i]]
<1>1. k + 1 \in Nat /\ u[k + 1] = x /\ u[0] = t[0]
  OBVIOUS
<1>2. \A i \in 0..k : u[i] = t[i]
  OBVIOUS
<1> HIDE DEF u
<1>3. ASSUME NEW i \in 0..((k + 1) - 1)
      PROVE  Follows(u[i], u[i + 1], A)
  <2>1. CASE i = k
    <3>1. u[i] = t[k] /\ u[i + 1] = x
      BY <1>1, <1>2, <2>1
    <3> QED
      BY <3>1
  <2>2. CASE i # k
    <3>1. i \in 0..(k - 1) /\ i + 1 \in 0..k /\ i \in 0..k
      BY <2>2
    <3> QED
      BY <1>2, <3>1 DEF Trace
  <2> QED
    BY <2>1, <2>2
<1>4. Trace(u, k + 1, roots, A)
  BY <1>1, <1>3 DEF Trace
<1> QED
  BY <1>1, <1>4

\* A walk with more answers to choose from is still that walk.
LEMMA TraceWidens ==
  ASSUME NEW k \in Nat, NEW t, NEW roots, NEW A, NEW B, Trace(t, k, roots, A), A \subseteq B
  PROVE  Trace(t, k, roots, B)
  BY DEF Trace, Follows

\* What the walk does next is what the record of it does.
LEMMA NowIs ==
  ASSUME ResolverTypeOK
  PROVE  /\ AskingAt(Now) <=> Asking
         /\ Asking => AskedAt(Now) = Asked
         /\ EndAt(Now) <=> stack = <<>> /\ queue = <<>>
         /\ \A h : Asking /\ Visit(h) => Now' = Visited(Now, h)
         /\ Leave => ~AskingAt(Now) /\ ~EndAt(Now) /\ Now' = Left(Now)
<1>1. AskingAt(Now) <=> Asking
  BY DEF AskingAt, Asking, Now, Top, TopAt
<1>2. AskedAt(Now) = Asked
  BY DEF AskedAt, Asked, Now, Top, TopAt
<1>3. EndAt(Now) <=> stack = <<>> /\ queue = <<>>
  BY DEF EndAt, Now
<1>4. ASSUME NEW h, Visit(h) PROVE Now' = Visited(Now, h)
  BY <1>2, <1>4 DEF Visit, Visited, Now, Top, TopAt, Below, BelowAt
<1>5. ASSUME Leave PROVE ~AskingAt(Now) /\ ~EndAt(Now) /\ Now' = Left(Now)
  BY <1>1, <1>3, <1>5 DEF Leave, Left, Now, Top, TopAt, Below, BelowAt, Asking
<1> QED
  BY <1>1, <1>2, <1>3, <1>4, <1>5

LEMMA AnswersStay ==
  ASSUME visited \subseteq visited', pins' = pins
  PROVE  Answered \subseteq Answered'
  BY DEF Answered, Found, Answers

LEMMA WalkTraced ==
  ASSUME SourceInv, TraceInv, Walking
  PROVE  TraceInv'
<1>1. ResolverTypeOK /\ TruePins /\ Choosing /\ Walk /\ UNCHANGED want
  BY DEF SourceInv, ProjectTypeOK, Walking, run
<1>2. at # "idle"
  BY <1>1 DEF Walk, VisitPinned, VisitLocked, VisitListed, Fetch, Leave, Settle
<1>3. PICK k, t : k \in Nat /\ Trace(t, k, want, Answered) /\ t[k] = Now
  BY <1>2 DEF TraceInv
<1>4. ASSUME visited \subseteq visited', UNCHANGED <<deps, pins>>,
             Now' = Now \/ Follows(Now, Now', Answered')
      PROVE  TraceInv'
  <2>1. Trace(t, k, want, Answered')
    BY <1>3, <1>4, AnswersStay, TraceWidens
  <2>2. \E l \in Nat : \E u : Trace(u, l, want, Answered') /\ u[l] = Now'
    <3>1. CASE Now' = Now
      BY <1>3, <2>1, <3>1
    <3>2. CASE Follows(t[k], Now', Answered')
      BY <1>3, <2>1, <3>2, TraceGrows
    <3> QED
      BY <1>3, <1>4, <3>1, <3>2
  <2>3. PICK l, u : l \in Nat /\ Trace(u, l, want, Answered') /\ u[l] = Now'
    BY <2>2
  <2>4. Trace(u, l, want', Answered')
    BY <1>1, <2>3
  <2> QED
    BY <1>4, <2>3, <2>4 DEF TraceInv, Trace, Follows, Visited
<1>5. ASSUME NEW h \in Manifest, Asking, Found(h, Asked), Visit(h) PROVE TraceInv'
  <2>1. visited' = visited \cup {h} /\ UNCHANGED <<deps, pins>>
    BY <1>5 DEF Visit, source
  <2>2. <<Asked, h>> \in Answered'
    BY <1>1, <1>5, <2>1, AskedIs DEF Answered, Found, Answers
  <2> QED
    BY <1>1, <1>4, <1>5, <2>1, <2>2, NowIs DEF Follows
<1>6. ASSUME Leave PROVE TraceInv'
  <2>1. visited' = visited /\ UNCHANGED <<deps, pins>>
    BY <1>6 DEF Leave, source
  <2> QED
    BY <1>1, <1>4, <1>6, <2>1, NowIs DEF Follows
<1>7. ASSUME UNCHANGED <<deps, source, queue, stack, ordered, visited>> PROVE TraceInv'
  BY <1>4, <1>7 DEF Now, source
<1> QED
  BY <1>1, <1>5, <1>6, <1>7, WalkIs DEF Fail, Settle

LEMMA NextTrace ==
  ASSUME SourceInv, WalkInv, TraceInv, [Next]_vars
  PROVE  TraceInv'
<1>1. CASE Walking
  BY <1>1, WalkTraced
<1>2. CASE Stop
  BY <1>2 DEF Stop, End, TraceInv
<1>3. CASE UNCHANGED <<deps, pins, at, queue, stack, ordered, visited, want>>
  <2>1. Now' = Now /\ Answered' = Answered
    BY <1>3 DEF Now, Answered, Found, Answers
  <2>2. CASE at # "idle"
    <3>1. PICK k, t : k \in Nat /\ Trace(t, k, want, Answered) /\ t[k] = Now
      BY <2>2 DEF TraceInv
    <3>2. Trace(t, k, want', Answered') /\ t[k] = Now'
      BY <1>3, <2>1, <3>1
    <3> QED
      BY <1>3, <3>1, <3>2 DEF TraceInv, Trace, Follows, Visited
  <2> QED
    BY <1>3, <2>2 DEF TraceInv
<1>4. ASSUME NEW kind, NEW names, NEW roots, NEW pinned, NEW net, Run(kind, names, roots, pinned, net)
      PROVE  TraceInv'
  <2>1. NothingYet'
    BY <1>4, RunStarts
  <2>2. Now' = Beginning(want')
    BY <2>1 DEF NothingYet, Now, Beginning
  <2>3. PICK t : t = [i \in {0} |-> Now']
    OBVIOUS
  <2>4. t[0] = Now'
    BY <2>3
  <2>5. Trace(t, 0, want, Answered)'
    BY <2>2, <2>4 DEF Trace, Beginning
  <2> QED
    BY <2>4, <2>5 DEF TraceInv
<1>5. CASE Command
  BY <1>4, <1>5 DEF Command, Lock, Update, Add, Remove, Install
<1>6. CASE GiveUp \/ WriteLock \/ PutRefs \/ Crash
  BY <1>2, <1>6 DEF GiveUp, WriteLock, PutRefs, Crash
<1>7. CASE WriteToml \/ (\E m \in Manifest : Build(m) \/ Published(m)) \/ UNCHANGED vars
  BY <1>3, <1>7 DEF WriteToml, Build, Published, Publish, resolver, source, walk, run, vars
<1> QED
  BY <1>1, <1>5, <1>6, <1>7, ProjectAssumption DEF Next, Progress

LEMMA NextInstall ==
  ASSUME SourceInv, InstallInv, [Next]_vars
  PROVE  InstallInv'
<1>1. CASE Stop
  BY <1>1 DEF Stop, NoCommand, InstallInv
<1>2. CASE UNCHANGED <<cmd, pins, lock>>
  BY <1>2 DEF InstallInv
<1>3. ASSUME NEW kind, NEW names, NEW roots, NEW pinned, NEW net, Run(kind, names, roots, pinned, net),
             kind = "install" => pinned = Locked(Entries(lock))
      PROVE  InstallInv'
  <2>1. cmd'.kind = kind /\ pins' = pinned /\ lock' = lock
    BY <1>3 DEF Run, Start, files
  <2> QED
    BY <1>3, <2>1 DEF InstallInv
<1>4. CASE Command
  BY <1>3, <1>4 DEF Command, Lock, Update, Add, Remove, Install
<1>5. CASE Walking
  BY <1>2, <1>5 DEF Walking, files, run, Walk, VisitPinned, VisitLocked, VisitListed, Fetch, ByHash,
                    Leave, Settle, Visit, Fail, source
<1>6. CASE WriteToml
  BY <1>6 DEF WriteToml, InstallInv, SourceInv, ProjectTypeOK, resolver, source
<1>7. CASE GiveUp \/ WriteLock \/ PutRefs \/ Crash
  BY <1>1, <1>7 DEF GiveUp, WriteLock, PutRefs, Crash
<1>8. CASE (\E m \in Manifest : Build(m) \/ Published(m)) \/ UNCHANGED vars
  BY <1>2, <1>8 DEF Build, Published, Publish, resolver, source, walk, run, files, vars
<1> QED
  BY <1>4, <1>5, <1>6, <1>7, <1>8, ProjectAssumption DEF Next, Progress

\* With honest pins, the lock that a resolution is written to gives its answers.
LEMMA LockGives ==
  ASSUME SourceInv, WalkInv, Ok, Honest, HonestRoots(want)
  PROVE  Answered \subseteq Given(Resolution)
<1> SUFFICES ASSUME NEW a \in Answered, a[1].pin = None
             PROVE  /\ Lookup(Resolution, a[1].name) # None
                    /\ a[2] = Lookup(Resolution, a[1].name).hash
  BY DEF Answered, Given, Found, Answers
<1> DEFINE n == a[1].name
<1>1. a[2] \in Hashes /\ Own[a[2]].name = n
  BY Ended DEF Answered, Found, Answers
<1>2. Resolution \in Seq(Entry) /\ DOMAIN Resolution = DOMAIN ordered
  BY ResolutionTrue DEF Resolution, SourceInv, ProjectTypeOK
<1>3. PICK j \in DOMAIN ordered : ordered[j].hash = a[2]
  BY <1>1 DEF Hashes
<1>4. Resolution[j].name = n
  BY <1>1, <1>3 DEF Resolution
<1>5. PICK i \in DOMAIN Resolution : Resolution[i].name = n /\ Lookup(Resolution, n) = Resolution[i]
  BY <1>2, <1>3, <1>4, LookupFinds
<1>6. Resolution[i] \in Entry
  BY <1>2
<1>7. Own[ordered[i].hash].name = n /\ ordered[i].hash \in Hashes
      /\ Resolution[i].hash = ordered[i].hash
  BY <1>2, <1>5 DEF Resolution, Hashes
<1>8. ordered[i].hash = a[2]
  BY <1>1, <1>7, WalkOneBuild DEF OneBuildPerPackage
<1> QED
  BY <1>5, <1>6, <1>7, <1>8, ResolverAssumption

LEMMA WriteMade ==
  ASSUME SourceInv, WalkInv, TraceInv, WriteLock
  PROVE  MadeInv'
<1>1. /\ Ok /\ lock' = Resolution /\ deps' = deps /\ made'.roots = want
      /\ made'.hashes = [i \in DOMAIN ordered |-> ordered[i].hash]
  BY DEF WriteLock, Settled, Ok, Stop, End
<1> SUFFICES ASSUME Honest, HonestRoots(want) PROVE MadeInv'
  BY <1>1 DEF MadeInv, Honest, HonestRoots
<1>2. PICK k, t : k \in Nat /\ Trace(t, k, want, Answered) /\ t[k] = Now
  BY <1>1 DEF TraceInv, Ok
<1>3. Trace(t, k, want, Given(Resolution))
  BY <1>1, <1>2, LockGives, TraceWidens
<1>4. EndAt(t[k]) /\ t[k].ordered = ordered
  BY <1>1, <1>2, NowIs DEF Now, WalkInv, EndInv, SourceInv, ProjectTypeOK
<1>5. Given(Resolution) = Given(lock')
  BY <1>1
<1>6. Trace(t, k, made'.roots, Given(lock'))
  BY <1>1, <1>3, <1>5
<1>7. made'.hashes = [i \in DOMAIN t[k].ordered |-> t[k].ordered[i].hash]
  BY <1>1, <1>4
<1>8. Trace(t, k, made.roots, Given(lock))'
  BY <1>1, <1>6 DEF Trace, Follows, Visited, Given
<1>9. \E j \in Nat : \E u :
        /\ Trace(u, j, made.roots, Given(lock))' /\ EndAt(u[j])
        /\ made'.hashes = [i \in DOMAIN u[j].ordered |-> u[j].ordered[i].hash]
  BY <1>2, <1>4, <1>7, <1>8
<1> QED
  BY <1>9 DEF MadeInv

LEMMA NextMade ==
  ASSUME SourceInv, WalkInv, TraceInv, MadeInv, [Next]_vars
  PROVE  MadeInv'
<1>1. CASE WriteLock
  BY <1>1, WriteMade
<1>2. CASE UNCHANGED <<lock, made, deps>>
  <2> SUFFICES ASSUME lock # None, Honest, HonestRoots(made.roots) PROVE MadeInv'
    BY <1>2 DEF MadeInv, Honest, HonestRoots
  <2>1. PICK k, t :
          /\ k \in Nat /\ Trace(t, k, made.roots, Given(lock)) /\ EndAt(t[k])
          /\ made.hashes = [i \in DOMAIN t[k].ordered |-> t[k].ordered[i].hash]
    BY DEF MadeInv
  <2>2. Trace(t, k, made.roots, Given(lock))'
    BY <1>2, <2>1, ZenonT(30) DEF Trace, Follows, Visited, Given
  <2> QED
    BY <1>2, <2>1, <2>2 DEF MadeInv
<1>3. CASE Command
  BY <1>2, <1>3 DEF Command, Lock, Update, Add, Remove, Install, Run, Start, files
<1>4. CASE Walking
  BY <1>2, <1>4 DEF Walking, files, Walk, VisitPinned, VisitLocked, VisitListed, Fetch, ByHash,
                    Leave, Settle, Visit, Fail
<1>5. CASE WriteToml
  BY <1>2, <1>5 DEF WriteToml, resolver
<1>6. CASE GiveUp \/ PutRefs \/ Crash
  BY <1>2, <1>6 DEF GiveUp, PutRefs, Crash, Stop, End, files
<1>7. CASE (\E m \in Manifest : Build(m) \/ Published(m)) \/ UNCHANGED vars
  BY <1>2, <1>7 DEF Build, Published, Publish, resolver, files, vars
<1> QED
  BY <1>1, <1>3, <1>4, <1>5, <1>6, <1>7, ProjectAssumption DEF Next, Progress

LEMMA WalkReproduces ==
  ASSUME SourceInv, WalkInv, TraceInv, MadeInv, InstallInv
  PROVE  LockReproduces
<1> SUFFICES ASSUME Ok, cmd.kind = "install", lock # None, made.roots = want,
                    Honest, HonestRoots(want)
             PROVE  [i \in DOMAIN ordered |-> ordered[i].hash] = made.hashes
  BY DEF LockReproduces
<1>1. PICK k, t : k \in Nat /\ Trace(t, k, want, Answered) /\ t[k] = Now
  BY DEF TraceInv, Ok
<1>2. PICK l, u :
        /\ l \in Nat /\ Trace(u, l, want, Given(lock)) /\ EndAt(u[l])
        /\ made.hashes = [i \in DOMAIN u[l].ordered |-> u[l].ordered[i].hash]
  BY DEF MadeInv
<1>3. EndAt(t[k])
  BY <1>1, NowIs DEF WalkInv, EndInv, SourceInv, ProjectTypeOK
<1>4. ASSUME NEW d, NEW g, NEW h, <<d, g>> \in Answered, <<d, h>> \in Given(lock) PROVE g = h
  <2>1. d \in Demand /\ d.name \in Name /\ Found(g, d)
    BY <1>4, DemandType DEF Answered
  <2>2. pins[d.name] = Lookup(lock, d.name)
    BY <2>1 DEF InstallInv, Locked, Entries
  <2> QED
    BY <1>4, <2>1, <2>2 DEF Given, Found, Answers
<1>5. t[k] = u[l]
  BY <1>1, <1>2, <1>3, <1>4, SameEnd
<1> QED
  BY <1>1, <1>2, <1>5 DEF Now

-----------------------------------------------------------------------------
\* What the resolver returns has an answer to every demand of the roots and of
\* what it lists, lists nothing twice and nothing that was not asked for, over
\* any graph of dependencies, with or without a lockfile.
THEOREM ResolutionCorrect == Spec => []Resolved
<1>1. SourceInv /\ WalkInv => Resolved
  BY WalkResolved
<1> QED
  BY <1>1, WalkInvariant, PTL

\* In it a dependency comes before what depends on it, unless it leads back to it.
THEOREM OrderCorrect == Spec => []DependenciesFirst
<1>1. SourceInv /\ WalkInv => DependenciesFirst
  BY WalkOrdered
<1> QED
  BY <1>1, WalkInvariant, PTL

\* Where no pin gives a package another name, it has one build of each package.
THEOREM OneBuild == Spec => []OneBuildPerPackage
<1>1. SourceInv /\ WalkInv => OneBuildPerPackage
  BY WalkOneBuild
<1> QED
  BY <1>1, WalkInvariant, PTL

\* An update leaves as the lockfile had it what it was not asked for and no
\* package it was asked for needs.  (The proof shows more, and what the doc of
\* update denies: what those packages need stays as well.)
THEOREM UpdateKeeps == Spec => []UpdateKeepsOthers
<1>1. SourceInv /\ WalkInv => UpdateKeepsOthers
  BY WalkKeepsOthers
<1> QED
  BY <1>1, WalkInvariant, PTL

\* elu.lock is written for the elu.toml that is there, and passes verify.
THEOREM LockVerified == Spec => LockWritten
<1> DEFINE A == lock' # lock => /\ toml = want
                                /\ Honest /\ HonestRoots(want) => Verify(toml, lock')
<1>1. SourceInv /\ WalkInv /\ [Next]_vars => [A]_vars
  <2> SUFFICES ASSUME SourceInv, WalkInv, Next, lock' # lock
               PROVE  A
    BY DEF vars
  <2>1. ~Command
    BY DEF Command, Lock, Update, Add, Remove, Install, Run, files
  <2>2. ~Walking /\ ~GiveUp /\ ~WriteToml /\ ~PutRefs /\ ~Crash
    BY DEF Walking, GiveUp, WriteToml, PutRefs, Crash, files
  <2>3. \A m : ~Build(m) /\ ~Published(m)
    BY DEF Build, Published, files
  <2>4. WriteLock
    BY <2>1, <2>2, <2>3 DEF Next, Progress
  <2>5. Ok /\ toml = want /\ lock' = Resolution
    BY <2>4 DEF WriteLock, Settled, Ok
  <2> QED
    BY <2>5, ResolutionVerifies
<1> QED
  BY <1>1, WalkInvariant, PTL DEF Spec, LockWritten
\* An install with elu.lock, of what it was made for, gets the very manifests in
\* the very order that elu.lock was written from, or fails (Walker::visit, with
\* Lockfile::lookup first): whatever is built and published in between.
THEOREM LockIsReproduced == Spec => []LockReproduces
<1>1. ProjectInit => TraceInv /\ MadeInv /\ InstallInv
  BY DEF ProjectInit, ResolverInit, WalkInit, TraceInv, MadeInv, InstallInv, NoCommand
<1>2. /\ SourceInv /\ WalkInv /\ TraceInv /\ MadeInv /\ InstallInv /\ [Next]_vars
      => (TraceInv /\ MadeInv /\ InstallInv)'
  BY NextTrace, NextMade, NextInstall
<1>3. SourceInv /\ WalkInv /\ TraceInv /\ MadeInv /\ InstallInv => LockReproduces
  BY WalkReproduces
<1> QED
  BY <1>1, <1>2, <1>3, WalkInvariant, PTL DEF Spec
=============================================================================
