----------------------------- MODULE TreeProofs ------------------------------
(***************************************************************************)
(* What the calls and loops of modules Tree, Layers, Hooks and Outputs     *)
(* make of a tree, checked by TLAPS for every tree and path.               *)
(***************************************************************************)
EXTENDS Stack, Induction, FiniteSetTheorems, SequenceTheorems

(***************************************************************************)
(* The loops of the model are recursive functions.  Each has a base, and a *)
(* value at i that depends on the one before and on the i-th element of a  *)
(* sequence; they exist, and have these values, for that reason alone.     *)
(***************************************************************************)
After(kind, s, x, i) ==
  CASE kind = "layers" -> IF x.ok THEN ApplyLayer(x.tree, LayerOf[s[i]]) ELSE x
    [] kind = "hook" -> IF x.ok THEN RunOp(x.tree, s[i]) ELSE x
    [] kind = "once" -> IF s[i] \notin ToSet(x) THEN Append(x, s[i]) ELSE x
    [] kind = "all" -> x \o s[i]
    [] kind = "stat" -> Follow(s.tree, Append(x, s.path[i]))
    [] kind = "left" -> x \ {First(x)}
    [] kind = "entries" -> ApplyEntry(x, s[i], Opaques(s))
    [] kind = "union" -> Union(x, s[i])
    [] kind = "each" -> IF x.ok THEN RunOne(x.tree, s.found[i], s.o) ELSE x
    [] kind = "copy" -> IF x.ok THEN CopyNode(x.tree, s.paths[i], s.src[s.paths[i]]) ELSE x

Loop(kind, s, b, n) ==
  CHOOSE r : r = [i \in 0..n |-> IF i = 0 THEN b ELSE After(kind, s, r[i - 1], i)]

LEMMA LoopExists ==
  ASSUME NEW kind, NEW s, NEW b, NEW n \in Nat
  PROVE  \E r : r = [i \in 0..n |-> IF i = 0 THEN b ELSE After(kind, s, r[i - 1], i)]
<1> DEFINE S == {k \in 0..n : \E r : r = [i \in 0..k |-> IF i = 0 THEN b ELSE After(kind, s, r[i - 1], i)]}
<1>1. 0 \in S
  <2> DEFINE r == [i \in 0..0 |-> b]
  <2>1. r = [i \in 0..0 |-> IF i = 0 THEN b ELSE After(kind, s, r[i - 1], i)]
    OBVIOUS
  <2> HIDE DEF r
  <2> QED
    BY <2>1
<1>2. ASSUME NEW k \in 0..(n - 1), k \in S PROVE k + 1 \in S
  <2>1. PICK r : r = [i \in 0..k |-> IF i = 0 THEN b ELSE After(kind, s, r[i - 1], i)]
    BY <1>2
  <2> DEFINE q == [i \in 0..(k + 1) |-> IF i = k + 1 THEN After(kind, s, r[k], i) ELSE r[i]]
  <2>2. ASSUME NEW i \in 0..(k + 1)
        PROVE  q[i] = IF i = 0 THEN b ELSE After(kind, s, q[i - 1], i)
    <3>1. CASE i = 0
      BY <2>1, <3>1
    <3>2. CASE i # 0
      <4>1. i - 1 \in 0..(k + 1) /\ i - 1 # k + 1 /\ q[i - 1] = r[i - 1]
        BY <3>2
      <4>2. CASE i = k + 1
        <5>1. i - 1 = k
          BY <4>2
        <5> QED
          BY <3>2, <4>1, <4>2, <5>1
      <4>3. CASE i # k + 1
        <5>1. i \in 0..k
          BY <4>3
        <5>2. r[i] = After(kind, s, r[i - 1], i)
          BY <2>1, <3>2, <5>1
        <5> QED
          BY <3>2, <4>1, <4>3, <5>2
      <4> QED
        BY <4>2, <4>3
    <3> QED
      BY <3>1, <3>2
  <2>3. q = [i \in 0..(k + 1) |-> IF i = 0 THEN b ELSE After(kind, s, q[i - 1], i)]
    BY <2>2
  <2>4. k + 1 \in 0..n
    OBVIOUS
  <2> HIDE DEF q
  <2> QED
    BY <2>3, <2>4
<1>3. 0..n \subseteq S
  <2> HIDE DEF S
  <2> QED
    BY <1>1, <1>2, Climb
<1>4. n \in S
  BY <1>3
<1> QED
  BY <1>4

LEMMA LoopIs ==
  ASSUME NEW kind, NEW s, NEW b, NEW n \in Nat
  PROVE  /\ Loop(kind, s, b, n)[0] = b
         /\ \A i \in 1..n : Loop(kind, s, b, n)[i] = After(kind, s, Loop(kind, s, b, n)[i - 1], i)
         /\ Loop(kind, s, b, n) = [i \in 0..n |-> Loop(kind, s, b, n)[i]]
<1> DEFINE r == Loop(kind, s, b, n)
<1>1. r = [i \in 0..n |-> IF i = 0 THEN b ELSE After(kind, s, r[i - 1], i)]
  BY LoopExists DEF Loop
<1>2. 0 \in 0..n /\ \A i \in 1..n : i \in 0..n /\ i # 0
  OBVIOUS
<1> HIDE DEF r
<1>3. r[0] = b /\ \A i \in 1..n : r[i] = After(kind, s, r[i - 1], i)
  BY <1>1, <1>2
<1>4. r = [i \in 0..n |-> r[i]]
  BY <1>1
<1> QED
  BY <1>3, <1>4 DEF r

LEMMA LoopUnique ==
  ASSUME NEW kind, NEW s, NEW b, NEW n \in Nat, NEW r, r[0] = b,
         \A i \in 1..n : r[i] = After(kind, s, r[i - 1], i)
  PROVE  r[n] = Loop(kind, s, b, n)[n]
<1> DEFINE l == Loop(kind, s, b, n)
           S == {k \in 0..n : r[k] = l[k]}
<1>1. l[0] = b /\ \A i \in 1..n : l[i] = After(kind, s, l[i - 1], i)
  BY LoopIs
<1> HIDE DEF l
<1>2. 0 \in S
  BY <1>1
<1>3. ASSUME NEW k \in 0..(n - 1), k \in S PROVE k + 1 \in S
  <2>1. k + 1 \in 1..n /\ k + 1 \in 0..n /\ k + 1 - 1 = k
    OBVIOUS
  <2> QED
    BY <1>1, <1>3, <2>1
<1>4. 0..n \subseteq S
  <2> HIDE DEF S
  <2> QED
    BY <1>2, <1>3, Climb
<1> QED
  BY <1>4 DEF l

LEMMA LayeredLoop ==
  ASSUME NEW t, NEW X, NEW s \in Seq(X)
  PROVE  Layered(t, s) = Loop("layers", s, Ok(t), Len(s))[Len(s)]
<1> DEFINE n == Len(s)
           Yields(r) == r = [i \in 0..n |->
                           CASE i = 0 -> Ok(t)
                             [] i # 0 /\ r[i - 1].ok -> ApplyLayer(r[i - 1].tree, LayerOf[s[i]])
                             [] OTHER -> r[i - 1]]
           r == CHOOSE f : Yields(f)
<1>1. n \in Nat
  OBVIOUS
<1>2. Yields(r)
  <2> DEFINE f == Loop("layers", s, Ok(t), n)
  <2>1. f[0] = Ok(t) /\ f = [i \in 0..n |-> f[i]]
    BY <1>1, LoopIs
  <2>2. \A i \in 1..n : f[i] = IF f[i - 1].ok THEN ApplyLayer(f[i - 1].tree, LayerOf[s[i]]) ELSE f[i - 1]
    BY <1>1, LoopIs DEF After
  <2> HIDE DEF f
  <2>3. \A i \in 0..n : f[i] = CASE i = 0 -> Ok(t)
                                [] i # 0 /\ f[i - 1].ok -> ApplyLayer(f[i - 1].tree, LayerOf[s[i]])
                                [] OTHER -> f[i - 1]
    <3>1. \A i \in 0..n : i = 0 \/ i \in 1..n
      BY <1>1
    <3> QED
      BY <2>1, <2>2, <3>1
  <2>4. Yields(f)
    BY <2>1, <2>3
  <2> QED
    BY <2>4
<1>3. Layered(t, s) = r[n]
  BY DEF Layered
<1> HIDE DEF r
<1>4. r[0] = Ok(t)
  BY <1>1, <1>2
<1>5. \A i \in 1..n : r[i] = After("layers", s, r[i - 1], i)
  BY <1>1, <1>2 DEF After
<1> QED
  BY <1>1, <1>3, <1>4, <1>5, LoopUnique

LEMMA HookedLoop ==
  ASSUME NEW t, NEW X, NEW s \in Seq(X)
  PROVE  Hooked(t, s) = Loop("hook", s, Ok(t), Len(s))[Len(s)]
<1> DEFINE n == Len(s)
           Yields(r) == r = [i \in 0..n |->
                           CASE i = 0 -> Ok(t)
                             [] i # 0 /\ r[i - 1].ok -> RunOp(r[i - 1].tree, s[i])
                             [] OTHER -> r[i - 1]]
           r == CHOOSE f : Yields(f)
<1>1. n \in Nat
  OBVIOUS
<1>2. Yields(r)
  <2> DEFINE f == Loop("hook", s, Ok(t), n)
  <2>1. f[0] = Ok(t) /\ f = [i \in 0..n |-> f[i]]
    BY <1>1, LoopIs
  <2>2. \A i \in 1..n : f[i] = IF f[i - 1].ok THEN RunOp(f[i - 1].tree, s[i]) ELSE f[i - 1]
    BY <1>1, LoopIs DEF After
  <2> HIDE DEF f
  <2>3. \A i \in 0..n : f[i] = CASE i = 0 -> Ok(t)
                                [] i # 0 /\ f[i - 1].ok -> RunOp(f[i - 1].tree, s[i])
                                [] OTHER -> f[i - 1]
    <3>1. \A i \in 0..n : i = 0 \/ i \in 1..n
      BY <1>1
    <3> QED
      BY <2>1, <2>2, <3>1
  <2>4. Yields(f)
    BY <2>1, <2>3
  <2> QED
    BY <2>4
<1>3. Hooked(t, s) = r[n]
  BY DEF Hooked
<1> HIDE DEF r
<1>4. r[0] = Ok(t)
  BY <1>1, <1>2
<1>5. \A i \in 1..n : r[i] = After("hook", s, r[i - 1], i)
  BY <1>1, <1>2 DEF After
<1> QED
  BY <1>1, <1>3, <1>4, <1>5, LoopUnique

\* The layers of manifests, one after another, and each at its first position.
LEMMA FlattenSeqIs ==
  ASSUME NEW X, NEW s \in Seq(Seq(X))
  PROVE  FlattenSeq(s) \in Seq(X)
<1> DEFINE n == Len(s)
           Yields(r) == r = [i \in 1..n |-> IF i = 1 THEN s[i] ELSE r[i - 1] \o s[i]]
           r == CHOOSE f : Yields(f)
           S == {k \in 0..n : k # 0 => r[k] \in Seq(X)}
<1>1. n \in Nat
  OBVIOUS
<1>2. CASE n = 0
  <2>1. FlattenSeq(s) = <<>>
    BY <1>2 DEF FlattenSeq
  <2> QED
    BY <2>1
<1>3. CASE n # 0
  <2>1. Yields(r)
    <3> DEFINE l == Loop("all", s, <<>>, n)
               f == [i \in 1..n |-> l[i]]
    <3>1. l[0] = <<>> /\ \A i \in 1..n : l[i] = l[i - 1] \o s[i]
      <4>1. \A x, i : After("all", s, x, i) = x \o s[i]
        BY DEF After
      <4>2. l[0] = <<>> /\ \A i \in 1..n : l[i] = After("all", s, l[i - 1], i)
        BY <1>1, LoopIs
      <4> QED
        BY <4>1, <4>2
    <3> HIDE DEF l
    <3>2. l[1] = s[1]
      <4>1. 1 \in 1..n /\ 1 - 1 = 0 /\ s[1] \in Seq(X)
        BY <1>1, <1>3
      <4>2. <<>> \o s[1] = s[1]
        BY <4>1
      <4>3. l[1] = l[0] \o s[1]
        BY <3>1, <4>1
      <4> QED
        BY <3>1, <4>2, <4>3
    <3>3. ASSUME NEW i \in 1..n, i # 1 PROVE f[i] = f[i - 1] \o s[i]
      <4>1. i - 1 \in 1..n
        BY <1>1, <3>3
      <4> QED
        BY <3>1, <4>1
    <3>4. \A i \in 1..n : f[i] = IF i = 1 THEN s[i] ELSE f[i - 1] \o s[i]
      BY <3>2, <3>3
    <3>5. Yields(f)
      BY <3>4
    <3> QED
      BY <3>5
  <2>2. FlattenSeq(s) = r[n]
    BY <1>3 DEF FlattenSeq
  <2> HIDE DEF r
  <2>3. \A i \in 1..n : r[i] = IF i = 1 THEN s[i] ELSE r[i - 1] \o s[i]
    BY <2>1
  <2>4. 0 \in S
    BY <1>1
  <2>5. ASSUME NEW k \in 0..(n - 1), k \in S PROVE k + 1 \in S
    <3>1. k + 1 \in 1..n /\ k + 1 \in 0..n /\ k + 1 - 1 = k /\ s[k + 1] \in Seq(X)
      BY <1>1
    <3>2. CASE k = 0
      BY <2>3, <3>1, <3>2
    <3>3. CASE k # 0
      <4>1. r[k] \in Seq(X)
        BY <2>5, <3>3
      <4>2. k + 1 # 1
        BY <3>3
      <4>3. r[k + 1] = r[k] \o s[k + 1]
        <5> HIDE DEF n
        <5>1. PICK i \in 1..n : i = k + 1
          BY <3>1
        <5>2. r[i] = r[i - 1] \o s[i]
          BY <2>3, <4>2, <5>1
        <5>3. i - 1 = k
          BY <5>1
        <5> QED
          BY <5>1, <5>2, <5>3
      <4>4. r[k] \o s[k + 1] \in Seq(X)
        BY <3>1, <4>1
      <4> QED
        BY <3>1, <4>3, <4>4
    <3> QED
      BY <3>2, <3>3
  <2>6. 0..n \subseteq S
    <3> HIDE DEF S, n
    <3> QED
      BY <1>1, <2>4, <2>5, Climb
  <2>7. n \in 0..n
    BY <1>1
  <2> QED
    BY <1>3, <2>2, <2>6, <2>7
<1> QED
  BY <1>2, <1>3

LEMMA FlattenIs ==
  ASSUME NEW X, NEW Y, NEW manifests \in Seq(Y),
         \A i \in DOMAIN manifests : manifests[i].layers \in Seq(X)
  PROVE  Flatten(manifests) \in Seq(X)
<1> DEFINE all == FlattenSeq([i \in DOMAIN manifests |-> manifests[i].layers])
           n == Len(all)
           Yields(r) == r = [i \in 0..n |->
                           CASE i = 0 -> <<>>
                             [] i # 0 /\ all[i] \notin ToSet(r[i - 1]) -> Append(r[i - 1], all[i])
                             [] OTHER -> r[i - 1]]
           r == CHOOSE f : Yields(f)
           S == {k \in 0..n : r[k] \in Seq(X)}
<1>1. all \in Seq(X)
  <2>1. [i \in DOMAIN manifests |-> manifests[i].layers] \in Seq(Seq(X))
    OBVIOUS
  <2> QED
    BY <2>1, FlattenSeqIs
<1>2. Flatten(manifests) = r[n]
  BY DEF Flatten
<1> HIDE DEF all
<1>3. n \in Nat
  BY <1>1
<1>4. Yields(r)
  <2> DEFINE f == Loop("once", all, <<>>, n)
  <2>1. f[0] = <<>> /\ f = [i \in 0..n |-> f[i]]
    BY <1>3, LoopIs
  <2>2. \A i \in 1..n : f[i] = After("once", all, f[i - 1], i)
    BY <1>3, LoopIs
  <2> HIDE DEF f
  <2>4. \A x, i : After("once", all, x, i) =
          IF all[i] \notin ToSet(x) THEN Append(x, all[i]) ELSE x
    BY DEF After
  <2>3. \A i \in 0..n : f[i] = CASE i = 0 -> <<>>
                                [] i # 0 /\ all[i] \notin ToSet(f[i - 1]) -> Append(f[i - 1], all[i])
                                [] OTHER -> f[i - 1]
    <3>1. \A i \in 0..n : i = 0 \/ i \in 1..n
      BY <1>3
    <3> QED
      BY <2>1, <2>2, <2>4, <3>1
  <2>5. Yields(f)
    BY <2>1, <2>3
  <2> QED
    BY <2>5
<1> HIDE DEF r
<1>5. 0 \in S
  BY <1>3, <1>4
<1>6. ASSUME NEW k \in 0..(n - 1), k \in S PROVE k + 1 \in S
  <2>1. k + 1 \in 0..n /\ k + 1 # 0 /\ k + 1 - 1 = k /\ all[k + 1] \in X
    BY <1>1, <1>3
  <2> HIDE DEF n
  <2>2. \A i \in 0..n : i # 0 => r[i] = Append(r[i - 1], all[i]) \/ r[i] = r[i - 1]
    BY <1>4
  <2>3. r[k + 1] = Append(r[k], all[k + 1]) \/ r[k + 1] = r[k]
    BY <2>1, <2>2
  <2>4. r[k] \in Seq(X)
    BY <1>6
  <2>5. Append(r[k], all[k + 1]) \in Seq(X)
    BY <2>1, <2>4
  <2> QED
    BY <2>1, <2>3, <2>4, <2>5
<1>7. 0..n \subseteq S
  <2> HIDE DEF S, n
  <2> QED
    BY <1>3, <1>5, <1>6, Climb
<1>8. n \in 0..n
  BY <1>3
<1> QED
  BY <1>2, <1>7, <1>8

-----------------------------------------------------------------------------
(***************************************************************************)
(* Paths.                                                                  *)
(***************************************************************************)
LEMMA PathFront ==
  ASSUME NEW p \in Path, p # <<>>
  PROVE  /\ Front(p) \in Path /\ Last(p) \in Nat /\ Len(p) \in Nat /\ Len(p) >= 1
         /\ Len(Front(p)) = Len(p) - 1 /\ \A i \in 1..(Len(p) - 1) : Front(p)[i] = p[i]
         /\ p = Append(Front(p), Last(p))
<1>1. Len(p) \in Nat /\ Len(p) >= 1 /\ \A i \in 1..Len(p) : p[i] \in Nat
  BY EmptySeq DEF Path
<1>2. /\ Front(p) \in Path /\ Len(Front(p)) = Len(p) - 1
      /\ \A i \in 1..(Len(p) - 1) : Front(p)[i] = p[i]
  <2> DEFINE n == Len(p) - 1
  <2>1. n \in Int /\ 1 \in Int /\ \A i \in 1..n : p[i] \in Nat
    BY <1>1
  <2>2. /\ SubSeq(p, 1, n) \in Seq(Nat)
        /\ Len(SubSeq(p, 1, n)) = IF 1 <= n THEN n - 1 + 1 ELSE 0
        /\ \A i \in 1..(n - 1 + 1) : SubSeq(p, 1, n)[i] = p[1 + i - 1]
    BY <2>1, SubSeqProperties
  <2>0. n \in Nat
    BY <1>1
  <2> HIDE DEF n
  <2>3. n - 1 + 1 = n /\ (\A i \in 1..n : 1 + i - 1 = i) /\ (1 <= n \/ n = 0)
    BY <2>0
  <2>4. Len(SubSeq(p, 1, n)) = n /\ \A i \in 1..n : SubSeq(p, 1, n)[i] = p[i]
    BY <2>2, <2>3
  <2> QED
    BY <2>2, <2>4 DEF Front, Path, n
<1>3. p = Append(Front(p), Last(p))
  <2>1. p \in Seq(Nat) /\ Front(p) \in Seq(Nat) /\ Last(p) = p[Len(p)] /\ Last(p) \in Nat
    BY <1>1, <1>2 DEF Last, Path
  <2>2. /\ Append(Front(p), Last(p)) \in Seq(Nat)
        /\ Len(Append(Front(p), Last(p))) = Len(Front(p)) + 1
        /\ \A i \in 1..Len(Front(p)) : Append(Front(p), Last(p))[i] = Front(p)[i]
        /\ Append(Front(p), Last(p))[Len(Front(p)) + 1] = Last(p)
    BY <2>1, AppendProperties
  <2>3. Len(Append(Front(p), Last(p))) = Len(p)
    BY <1>1, <1>2, <2>2
  <2>4. ASSUME NEW i \in 1..Len(p) PROVE Append(Front(p), Last(p))[i] = p[i]
    <3>1. CASE i \in 1..(Len(p) - 1)
      BY <1>1, <1>2, <2>2, <3>1
    <3>2. CASE i = Len(p)
      BY <1>1, <1>2, <2>1, <2>2, <3>2
    <3>3. i \in 1..(Len(p) - 1) \/ i = Len(p)
      <4> DEFINE n == Len(p)
      <4>1. n \in Nat /\ i \in 1..n
        BY <1>1
      <4> HIDE DEF n
      <4>2. i \in 1..(n - 1) \/ i = n
        BY <4>1
      <4> QED
        BY <4>2 DEF n
    <3> QED
      BY <3>1, <3>2, <3>3
  <2> QED
    BY <2>1, <2>2, <2>3, <2>4, SeqEqual
<1> QED
  BY <1>1, <1>2, <1>3 DEF Last

LEMMA PathTake ==
  ASSUME NEW p \in Path, NEW n \in Nat, n <= Len(p)
  PROVE  /\ SubSeq(p, 1, n) \in Path /\ Len(SubSeq(p, 1, n)) = n
         /\ \A i \in 1..n : SubSeq(p, 1, n)[i] = p[i]
<1>1. Len(p) \in Nat /\ \A i \in 1..n : p[i] \in Nat
  BY DEF Path
<1>2. /\ SubSeq(p, 1, n) \in Seq(Nat) /\ Len(SubSeq(p, 1, n)) = IF 1 <= n THEN n - 1 + 1 ELSE 0
      /\ \A i \in 1..(n - 1 + 1) : SubSeq(p, 1, n)[i] = p[1 + i - 1]
  <2>1. 1 \in Int /\ n \in Int
    OBVIOUS
  <2> QED
    BY <1>1, <2>1, SubSeqProperties
<1>3. n - 1 + 1 = n /\ \A i \in 1..n : 1 + i - 1 = i
  OBVIOUS
<1> QED
  BY <1>2, <1>3 DEF Path

LEMMA PathAppend ==
  ASSUME NEW p \in Path, NEW x \in Nat
  PROVE  /\ Append(p, x) \in Path \ {<<>>}
         /\ Front(Append(p, x)) = p /\ Last(Append(p, x)) = x
         /\ Len(Append(p, x)) = Len(p) + 1
<1> DEFINE a == Append(p, x)
<1>1. a \in Path /\ Len(a) = Len(p) + 1 /\ Len(p) \in Nat /\ a[Len(p) + 1] = x
      /\ \A i \in 1..Len(p) : a[i] = p[i]
  BY DEF Path
<1>2. a # <<>>
  BY <1>1
<1>3. Front(a) \in Path /\ Len(Front(a)) = Len(p) /\ \A i \in 1..Len(p) : Front(a)[i] = p[i]
  <2> HIDE DEF a
  <2>1. /\ Front(a) \in Path /\ Len(Front(a)) = Len(a) - 1
        /\ \A i \in 1..(Len(a) - 1) : Front(a)[i] = a[i]
    BY <1>1, <1>2, PathFront
  <2>2. Len(a) - 1 = Len(p)
    BY <1>1
  <2> QED
    BY <1>1, <2>1, <2>2
<1>4. Front(a) = p
  BY <1>3, SeqEqual DEF Path
<1> QED
  BY <1>1, <1>2, <1>4 DEF Last

LEMMA PrefixIs ==
  ASSUME NEW q \in Path, NEW p \in Path
  PROVE  IsPrefix(q, p) <=> Len(q) <= Len(p) /\ \A i \in 1..Len(q) : q[i] = p[i]
<1>1. Len(q) \in Nat /\ Len(p) \in Nat
  BY DEF Path
<1>2. SubSeq(q, 1, Len(q)) = q
  BY SubSeqFull DEF Path
<1>3. CASE Len(q) <= Len(p)
  <2> DEFINE s == SubSeq(p, 1, Len(q))
  <2>1. s \in Path /\ Len(s) = Len(q) /\ \A i \in 1..Len(q) : s[i] = p[i]
    BY <1>1, <1>3 DEF Path
  <2> HIDE DEF s
  <2>2. q = s <=> \A i \in 1..Len(q) : q[i] = p[i]
    BY <2>1, SeqEqual DEF Path
  <2> QED
    BY <1>2, <1>3, <2>2 DEF IsPrefix, s
<1> QED
  BY <1>3 DEF IsPrefix

LEMMA PrefixSelf == ASSUME NEW p \in Path PROVE IsPrefix(p, p) /\ IsPrefix(<<>>, p)
<1>1. <<>> \in Path /\ Len(<<>>) = 0 /\ Len(p) \in Nat
  BY DEF Path
<1> QED
  BY <1>1, PrefixIs

LEMMA PrefixTrans ==
  ASSUME NEW o \in Path, NEW q \in Path, NEW p \in Path, IsPrefix(o, q), IsPrefix(q, p)
  PROVE  IsPrefix(o, p)
<1>1. Len(o) \in Nat /\ Len(q) \in Nat /\ Len(p) \in Nat
  BY DEF Path
<1>2. Len(o) <= Len(q) /\ \A i \in 1..Len(o) : o[i] = q[i]
  BY PrefixIs
<1>3. Len(q) <= Len(p) /\ \A i \in 1..Len(q) : q[i] = p[i]
  BY PrefixIs
<1> QED
  BY <1>1, <1>2, <1>3, PrefixIs

LEMMA PrefixSame ==
  ASSUME NEW q \in Path, NEW p \in Path, IsPrefix(q, p), Len(p) <= Len(q)
  PROVE  q = p
<1>1. Len(q) \in Nat /\ Len(p) \in Nat
  BY DEF Path
<1>2. Len(q) <= Len(p) /\ \A i \in 1..Len(q) : q[i] = p[i]
  BY PrefixIs
<1> QED
  BY <1>1, <1>2, SeqEqual DEF Path

LEMMA PrefixFront ==
  ASSUME NEW q \in Path, NEW p \in Path, p # <<>>
  PROVE  IsPrefix(q, p) <=> q = p \/ IsPrefix(q, Front(p))
<1>1. Len(q) \in Nat /\ Len(p) \in Nat
  BY DEF Path
<1>2. Front(p) \in Path /\ Len(Front(p)) = Len(p) - 1 /\ \A i \in 1..(Len(p) - 1) : Front(p)[i] = p[i]
  BY PathFront
<1>3. ASSUME IsPrefix(q, Front(p)) PROVE IsPrefix(q, p)
  <2>1. Len(q) <= Len(p) - 1 /\ \A i \in 1..Len(q) : q[i] = Front(p)[i]
    BY <1>2, <1>3, PrefixIs
  <2>2. \A i \in 1..Len(q) : i \in 1..(Len(p) - 1)
    BY <1>1, <2>1
  <2>3. Len(q) <= Len(p) /\ \A i \in 1..Len(q) : q[i] = p[i]
    BY <1>1, <1>2, <2>1, <2>2
  <2> QED
    BY <2>3, PrefixIs
<1>4. ASSUME IsPrefix(q, p), q # p PROVE IsPrefix(q, Front(p))
  <2>1. Len(q) < Len(p) /\ \A i \in 1..Len(q) : q[i] = p[i]
    BY <1>1, <1>4, PrefixIs, PrefixSame
  <2>2. \A i \in 1..Len(q) : i \in 1..(Len(p) - 1)
    BY <1>1, <2>1
  <2>3. Len(q) <= Len(Front(p)) /\ \A i \in 1..Len(q) : q[i] = Front(p)[i]
    BY <1>1, <1>2, <2>1, <2>2
  <2> QED
    BY <1>2, <2>3, PrefixIs
<1> QED
  BY <1>3, <1>4, PrefixSelf

LEMMA PrefixOfRoot == ASSUME NEW q \in Path, IsPrefix(q, <<>>) PROVE q = <<>>
<1>1. <<>> \in Path /\ Len(<<>>) = 0 /\ Len(q) \in Nat
  BY DEF Path
<1> QED
  BY <1>1, PrefixSame

LEMMA PrefixesAre ==
  ASSUME NEW p \in Path
  PROVE  Prefixes(p) = {q \in Path : IsPrefix(q, p)}
<1>1. Len(p) \in Nat
  BY DEF Path
<1>2. ASSUME NEW l \in 0..Len(p) PROVE SubSeq(p, 1, l) \in Path /\ IsPrefix(SubSeq(p, 1, l), p)
  <2> DEFINE q == SubSeq(p, 1, l)
  <2>1. q \in Path /\ Len(q) = l /\ \A i \in 1..l : q[i] = p[i]
    BY <1>1 DEF Path
  <2> HIDE DEF q
  <2>2. IsPrefix(q, p)
    BY <1>1, <2>1, PrefixIs
  <2> QED
    BY <2>1, <2>2 DEF q
<1>3. ASSUME NEW q \in Path, IsPrefix(q, p) PROVE Len(q) \in 0..Len(p) /\ q = SubSeq(p, 1, Len(q))
  <2>1. Len(q) \in Nat /\ q = SubSeq(q, 1, Len(q))
    BY SubSeqFull DEF Path
  <2> QED
    BY <1>1, <1>3, <2>1 DEF IsPrefix
<1> QED
  BY <1>2, <1>3 DEF Prefixes

-----------------------------------------------------------------------------
(***************************************************************************)
(* Trees as they grow from the staging root: finite, whole, of nodes whose *)
(* links lead to paths.                                                    *)
(***************************************************************************)
IsNode(n) ==
  /\ n.kind \in {"file", "dir", "link"} /\ n.to \in Path
  /\ n.kind = "file" => n = File(n.data, n.mode)
  /\ n.kind = "dir" => n = Dir(n.mode)
  /\ n.kind = "link" => n = Link(n.to)

Grown(t) ==
  /\ t = [q \in DOMAIN t |-> t[q]]
  /\ IsFiniteSet(DOMAIN t) /\ IsWhole(t)
  /\ \A q \in DOMAIN t : IsNode(t[q])

\* A link is followed at each name of a path.
LEMMA StatLoop ==
  ASSUME NEW t, NEW p \in Path
  PROVE  Stat(t, p) = Loop("stat", [tree |-> t, path |-> p], <<>>, Len(p))[Len(p)]
<1> DEFINE n == Len(p)
           s == [tree |-> t, path |-> p]
           Yields(r) == r = [i \in 0..n |-> IF i = 0 THEN <<>> ELSE Follow(t, Append(r[i - 1], p[i]))]
           r == CHOOSE f : Yields(f)
<1>1. n \in Nat
  BY DEF Path
<1>2. \A x, i : After("stat", s, x, i) = Follow(t, Append(x, p[i]))
  BY DEF After
<1>3. Yields(r)
  <2> DEFINE f == Loop("stat", s, <<>>, n)
  <2>1. f[0] = <<>> /\ f = [i \in 0..n |-> f[i]]
    BY <1>1, LoopIs
  <2>2. \A i \in 1..n : f[i] = After("stat", s, f[i - 1], i)
    BY <1>1, LoopIs
  <2> HIDE DEF f
  <2>3. \A i \in 0..n : f[i] = IF i = 0 THEN <<>> ELSE Follow(t, Append(f[i - 1], p[i]))
    <3>1. \A i \in 0..n : i = 0 \/ i \in 1..n
      BY <1>1
    <3> QED
      BY <1>2, <2>1, <2>2, <3>1
  <2>4. Yields(f)
    BY <2>1, <2>3
  <2> QED
    BY <2>4
<1>4. Stat(t, p) = r[n]
  BY DEF Stat
<1> HIDE DEF r, s
<1>5. r[0] = <<>> /\ \A i \in 1..n : r[i] = After("stat", s, r[i - 1], i)
  BY <1>1, <1>2, <1>3
<1>6. r[n] = Loop("stat", s, <<>>, n)[n]
  BY <1>1, <1>5, LoopUnique
<1> QED
  BY <1>4, <1>6 DEF s

LEMMA StatRoot == ASSUME NEW t PROVE Stat(t, <<>>) = <<>>
<1> DEFINE s == [tree |-> t, path |-> <<>>]
<1>1. <<>> \in Path /\ Len(<<>>) = 0 /\ 0 \in Nat
  BY DEF Path
<1>2. Stat(t, <<>>) = Loop("stat", s, <<>>, Len(<<>>))[Len(<<>>)]
  BY <1>1, StatLoop
<1> HIDE DEF s
<1>3. Loop("stat", s, <<>>, 0)[0] = <<>>
  BY <1>1, LoopIs
<1> QED
  BY <1>1, <1>2, <1>3

LEMMA NextStat ==
  \A v, y, i : After("stat", v, y, i) = Follow(v.tree, Append(y, v.path[i]))
<1> SUFFICES ASSUME NEW v, NEW y, NEW i
             PROVE  After("stat", v, y, i) = Follow(v.tree, Append(y, v.path[i]))
  OBVIOUS
<1> QED
  BY DEF After

LEMMA StatNext ==
  ASSUME NEW t, NEW p \in Path, NEW x \in Nat
  PROVE  Stat(t, Append(p, x)) = Follow(t, Append(Stat(t, p), x))
<1> DEFINE a == Append(p, x)
           n == Len(p)
           s == [tree |-> t, path |-> p]
           u == [tree |-> t, path |-> a]
           r == Loop("stat", u, <<>>, n + 1)
<1>1. n \in Nat /\ n + 1 \in Nat /\ a \in Path /\ Len(a) = n + 1
  BY PathAppend DEF Path
<1>2. a[n + 1] = x /\ \A i \in 1..n : a[i] = p[i]
  BY DEF Path
<1>3. \A y, i : /\ After("stat", s, y, i) = Follow(t, Append(y, p[i]))
                /\ After("stat", u, y, i) = Follow(t, Append(y, a[i]))
  <2> HIDE DEF a
  <2>1. s.tree = t /\ s.path = p /\ u.tree = t /\ u.path = a
    OBVIOUS
  <2> HIDE DEF s, u
  <2> QED
    BY <2>1, NextStat
<1>4. r[0] = <<>> /\ \A i \in 1..(n + 1) : r[i] = After("stat", u, r[i - 1], i)
  BY <1>1, LoopIs
<1>5. Stat(t, a) = r[n + 1]
  <2> HIDE DEF a
  <2> QED
    BY <1>1, StatLoop
<1> HIDE DEF a, r, s, u
<1>6. \A i \in 1..n : r[i] = After("stat", s, r[i - 1], i)
  <2>1. \A i \in 1..n : i \in 1..(n + 1)
    BY <1>1
  <2> QED
    BY <1>2, <1>3, <1>4, <2>1
<1>7. r[n] = Loop("stat", s, <<>>, n)[n]
  BY <1>1, <1>4, <1>6, LoopUnique
<1>8. r[n] = Stat(t, p)
  BY <1>7, StatLoop DEF s
<1>9. r[n + 1] = Follow(t, Append(r[n], x))
  <2>1. n + 1 \in 1..(n + 1) /\ n + 1 - 1 = n
    BY <1>1
  <2> QED
    BY <1>2, <1>3, <1>4, <2>1
<1> QED
  BY <1>5, <1>8, <1>9 DEF a

LEMMA StatPath ==
  ASSUME NEW t, \A q \in DOMAIN t : t[q].to \in Path, NEW p \in Path
  PROVE  Stat(t, p) \in Path
<1> DEFINE n == Len(p)
           s == [tree |-> t, path |-> p]
           r == Loop("stat", s, <<>>, n)
           S == {k \in 0..n : r[k] \in Path}
<1>1. n \in Nat /\ \A i \in 1..n : p[i] \in Nat
  BY DEF Path
<1>2. \A y, i : After("stat", s, y, i) = Follow(t, Append(y, p[i]))
  BY DEF After
<1>3. r[0] = <<>> /\ \A i \in 1..n : r[i] = After("stat", s, r[i - 1], i)
  BY <1>1, LoopIs
<1>4. Stat(t, p) = r[n]
  BY StatLoop
<1> HIDE DEF r, s
<1>5. 0 \in S
  <2>1. <<>> \in Path
    BY DEF Path
  <2> QED
    BY <1>1, <1>3, <2>1
<1>6. ASSUME NEW k \in 0..(n - 1), k \in S PROVE k + 1 \in S
  <2>1. k + 1 \in 1..n /\ k + 1 \in 0..n /\ k + 1 - 1 = k
    BY <1>1
  <2>2. r[k + 1] = Follow(t, Append(r[k], p[k + 1]))
    BY <1>2, <1>3, <2>1
  <2>3. Append(r[k], p[k + 1]) \in Path
    BY <1>1, <1>6, <2>1, PathAppend
  <2> QED
    BY <2>1, <2>2, <2>3 DEF Follow
<1>7. 0..n \subseteq S
  <2> HIDE DEF S, n
  <2> QED
    BY <1>1, <1>5, <1>6, Climb
<1> QED
  BY <1>1, <1>4, <1>7

LEMMA StatIs ==
  ASSUME NEW t, Grown(t), NEW p \in Path
  PROVE  /\ Stat(t, p) \in Path /\ Lstat(t, p) \in Path
         /\ p = <<>> => Stat(t, p) = <<>> /\ Lstat(t, p) = <<>>
         /\ p # <<>> => /\ Front(p) \in Path
                        /\ Lstat(t, p) = Append(Stat(t, Front(p)), Last(p))
                        /\ Lstat(t, p) # <<>> /\ Front(Lstat(t, p)) = Stat(t, Front(p))
                        /\ Stat(t, p) = Follow(t, Lstat(t, p))
<1>1. \A q \in DOMAIN t : t[q].to \in Path
  BY DEF Grown, IsNode
<1>2. Stat(t, p) \in Path
  BY <1>1, StatPath
<1>3. CASE p = <<>>
  BY <1>2, <1>3, StatRoot DEF Lstat
<1>4. CASE p # <<>>
  <2>1. Front(p) \in Path /\ Last(p) \in Nat /\ p = Append(Front(p), Last(p))
    BY <1>4, PathFront
  <2>2. Stat(t, Front(p)) \in Path
    BY <1>1, <2>1, StatPath
  <2>3. Lstat(t, p) = Append(Stat(t, Front(p)), Last(p))
    BY <1>4 DEF Lstat
  <2>4. Stat(t, p) = Follow(t, Append(Stat(t, Front(p)), Last(p)))
    BY <2>1, StatNext
  <2> QED
    BY <1>2, <1>4, <2>1, <2>2, <2>3, <2>4, PathAppend
<1> QED
  BY <1>3, <1>4

\* What is at a place of a tree.
LEMMA GrownAt ==
  ASSUME NEW t, Grown(t), NEW q \in DOMAIN t
  PROVE  /\ q \in Path /\ IsNode(t[q])
         /\ q = <<>> => t[q].kind = "dir"
         /\ q # <<>> => Front(q) \in DOMAIN t /\ t[Front(q)].kind = "dir"
  BY DEF Grown, IsWhole

LEMMA NodesAre ==
  ASSUME NEW d, NEW m
  PROVE  /\ IsNode(File(d, m)) /\ File(d, m).kind = "file"
         /\ IsNode(Dir(m)) /\ Dir(m).kind = "dir"
         /\ \A l \in Path : IsNode(Link(l)) /\ Link(l).kind = "link"
<1>1. <<>> \in Path
  BY DEF Path
<1> QED
  BY <1>1 DEF IsNode, Node, File, Dir, Link

\* A part of a tree that has the parent of what it has.
LEMMA PartGrown ==
  ASSUME NEW t, Grown(t), NEW S \in SUBSET DOMAIN t,
         \A q \in S : q # <<>> => Front(q) \in S
  PROVE  Grown(Restrict(t, S))
<1> DEFINE u == Restrict(t, S)
<1>1. u = [q \in S |-> t[q]]
  BY DEF Restrict
<1> HIDE DEF u
<1>2. DOMAIN u = S /\ \A q \in S : u[q] = t[q]
  BY <1>1
<1>3. IsFiniteSet(DOMAIN u) /\ DOMAIN u \subseteq Path
  BY <1>2, FS_Subset DEF Grown, IsWhole
<1>4. u = [q \in DOMAIN u |-> u[q]]
  BY <1>1, <1>2
<1>5. \A q \in DOMAIN u :
        /\ IsNode(u[q]) /\ (q = <<>> => u[q].kind = "dir")
        /\ q # <<>> => Front(q) \in DOMAIN u /\ u[Front(q)].kind = "dir"
  BY <1>2, GrownAt
<1>6. IsWhole(u)
  BY <1>3, <1>5 DEF IsWhole
<1> QED
  BY <1>3, <1>4, <1>5, <1>6 DEF Grown, u

LEMMA CutGrown ==
  ASSUME NEW t, Grown(t), NEW q \in Path
  PROVE  Grown(Cut(t, q)) /\ Grown(Emptied(t, q))
<1>1. ASSUME NEW r \in DOMAIN t, r # <<>>
      PROVE  /\ Front(r) \in DOMAIN t
             /\ IsPrefix(q, Front(r)) => IsPrefix(q, r)
             /\ Below(q, Front(r)) => Below(q, r)
  <2>1. r \in Path /\ Front(r) \in DOMAIN t /\ Front(r) \in Path
    BY <1>1, GrownAt, PathFront
  <2>2. IsPrefix(q, Front(r)) => IsPrefix(q, r)
    BY <1>1, <2>1, PrefixFront
  <2>3. ~IsPrefix(r, Front(r))
    <3>1. Len(Front(r)) = Len(r) - 1 /\ Len(r) \in Nat
      BY <1>1, <2>1, PathFront
    <3>2. ~(Len(r) <= Len(Front(r)))
      BY <3>1
    <3> QED
      BY <2>1, <3>2, PrefixIs
  <2> QED
    BY <2>1, <2>2, <2>3 DEF Below, IsStrictPrefix
<1> DEFINE S == {r \in DOMAIN t : ~IsPrefix(q, r)}
           T == {r \in DOMAIN t : ~Below(q, r)}
<1>2. Grown(Restrict(t, S))
  <2>1. S \in SUBSET DOMAIN t /\ \A r \in S : r # <<>> => Front(r) \in S
    BY <1>1
  <2> HIDE DEF S
  <2> QED
    BY <2>1, PartGrown
<1>3. Grown(Restrict(t, T))
  <2>1. T \in SUBSET DOMAIN t /\ \A r \in T : r # <<>> => Front(r) \in T
    BY <1>1
  <2> HIDE DEF T
  <2> QED
    BY <2>1, PartGrown
<1> QED
  BY <1>2, <1>3 DEF Cut, Emptied

LEMMA UnlinkGrown ==
  ASSUME NEW t, Grown(t), NEW p \in Path
  PROVE  Grown(Unlink(t, p))
  BY StatIs, CutGrown DEF Unlink

\* A node set at a place in a directory, where no directory is.
LEMMA CreateGrown ==
  ASSUME NEW t, Grown(t), NEW q \in Path, NEW n, IsNode(n)
  PROVE  Grown(Create(t, q, n).tree)
<1> DEFINE u == Set(t, q, n)
<1>1. CASE /\ Parent(q) \in DOMAIN t /\ t[Parent(q)].kind = "dir"
           /\ q \in DOMAIN t => t[q].kind # "dir"
  <2>1. u = [r \in {q} \cup DOMAIN t |-> IF r = q THEN n ELSE t[r]]
    BY DEF Set
  <2> HIDE DEF u
  <2>2. /\ DOMAIN u = DOMAIN t \cup {q} /\ u[q] = n
        /\ \A r \in DOMAIN t : r # q => u[r] = t[r]
    BY <2>1
  <2>3. u = [r \in DOMAIN u |-> u[r]]
    BY <2>1, <2>2
  <2>4. q # <<>> /\ Front(q) \in DOMAIN t /\ t[Front(q)].kind = "dir" /\ Front(q) # q
    <3>1. q # <<>>
      BY <1>1 DEF Parent
    <3>2. Len(Front(q)) = Len(q) - 1 /\ Len(q) \in Nat
      BY <3>1, PathFront
    <3>3. Front(q) # q
      BY <3>2
    <3> QED
      BY <1>1, <3>1, <3>3 DEF Parent
  <2>5. IsFiniteSet(DOMAIN u) /\ DOMAIN u \subseteq Path
    BY <2>2, FS_AddElement DEF Grown, IsWhole
  <2>6. ASSUME NEW r \in DOMAIN u
        PROVE  /\ IsNode(u[r]) /\ (r = <<>> => u[r].kind = "dir")
               /\ r # <<>> => Front(r) \in DOMAIN u /\ u[Front(r)].kind = "dir"
    <3>1. CASE r = q
      BY <2>2, <2>4, <3>1
    <3>2. CASE r # q
      <4>1. /\ r \in DOMAIN t /\ IsNode(t[r]) /\ (r = <<>> => t[r].kind = "dir")
            /\ r # <<>> => Front(r) \in DOMAIN t /\ t[Front(r)].kind = "dir"
        BY <2>2, <3>2, GrownAt
      <4>2. r # <<>> => Front(r) # q
        BY <1>1, <4>1
      <4> QED
        BY <2>2, <3>2, <4>1, <4>2
    <3> QED
      BY <3>1, <3>2
  <2>7. Grown(u)
    BY <2>3, <2>5, <2>6 DEF Grown, IsWhole
  <2> QED
    BY <1>1, <2>7 DEF Create, Ok, u
<1>2. CASE ~(/\ Parent(q) \in DOMAIN t /\ t[Parent(q)].kind = "dir"
             /\ q \in DOMAIN t => t[q].kind # "dir")
  BY <1>2 DEF Create, Err
<1> QED
  BY <1>1, <1>2

LEMMA ChmodGrown ==
  ASSUME NEW t, Grown(t), NEW p, NEW m
  PROVE  Grown(Chmod(t, p, m))
<1> DEFINE q == Stat(t, p)
           u == Chmod(t, p, m)
           changed(r) == IF t[r].kind = "link" THEN t[r] ELSE Node(t[r].kind, t[r].data, t[r].to, m)
<1>1. u = [r \in DOMAIN t |-> IF r = q THEN changed(r) ELSE t[r]]
  BY DEF Chmod
<1> HIDE DEF u, q
<1>2. DOMAIN u = DOMAIN t /\ u = [r \in DOMAIN u |-> u[r]]
  BY <1>1
<1>3. ASSUME NEW r \in DOMAIN t PROVE IsNode(u[r]) /\ u[r].kind = t[r].kind
  <2>1. IsNode(t[r])
    BY GrownAt
  <2>2. IsNode(changed(r)) /\ changed(r).kind = t[r].kind
    <3> DEFINE n == t[r]
    <3> HIDE DEF n
    <3>1. n.kind = "file" => n.to = <<>>
      BY <2>1 DEF IsNode, Node, File, n
    <3>2. n.kind = "dir" => n.to = <<>> /\ n.data = ""
      <4>1. Dir(n.mode).to = <<>> /\ Dir(n.mode).data = ""
        BY DEF Dir, Node
      <4>2. n.kind = "dir" => n = Dir(n.mode)
        BY <2>1 DEF IsNode, n
      <4> QED
        BY <4>1, <4>2, Zenon
    <3>3. CASE n.kind = "link"
      BY <2>1, <3>3 DEF n
    <3>4. CASE n.kind = "file"
      <4>1. changed(r) = File(n.data, m)
        BY <3>1, <3>4 DEF File, n
      <4> QED
        BY <3>4, <4>1, NodesAre DEF n
    <3>5. CASE n.kind = "dir"
      <4>1. changed(r) = Dir(m)
        BY <3>2, <3>5 DEF Dir, n
      <4> QED
        BY <3>5, <4>1, NodesAre DEF n
    <3> QED
      BY <2>1, <3>3, <3>4, <3>5 DEF IsNode, n
  <2>3. u[r] = changed(r) \/ u[r] = t[r]
    BY <1>1
  <2> HIDE DEF changed
  <2> QED
    BY <2>1, <2>2, <2>3
<1>4. IsWhole(u)
  BY <1>2, <1>3, GrownAt DEF IsWhole
<1> QED
  BY <1>2, <1>3, <1>4 DEF Grown, u

\* What the elements of a finite set are mapped to is finite.
LEMMA ImageFinite ==
  ASSUME NEW S, IsFiniteSet(S), NEW T, NEW f \in [S -> T], \A y \in T : \E x \in S : f[x] = y
  PROVE  IsFiniteSet(T)
<1>1. f \in Surjection(S, T)
  BY DEF Surjection
<1> QED
  BY <1>1, FS_Surjection

LEMMA CreateDirAllGrown ==
  ASSUME NEW t, Grown(t), NEW p \in Path
  PROVE  Grown(CreateDirAll(t, p).tree)
<1> DEFINE places == {Stat(t, q) : q \in Prefixes(p)}
           u == [q \in DOMAIN t \cup places |-> IF q \in DOMAIN t THEN t[q] ELSE Dir(DirMode)]
<1>1. CASE \A q \in Prefixes(p) : Present(t, q) => IsDir(t, q)
  <2>1. \A q \in Prefixes(p) : q \in Path /\ Stat(t, q) \in Path
    BY PrefixesAre, StatIs
  <2>2. IsFiniteSet(places)
    <3> DEFINE f == [l \in 0..Len(p) |-> Stat(t, SubSeq(p, 1, l))]
    <3>1. IsFiniteSet(0..Len(p))
      <4>1. 0 \in Int /\ Len(p) \in Int
        BY DEF Path
      <4> QED
        BY <4>1, FS_Interval
    <3>2. f \in [0..Len(p) -> places] /\ \A y \in places : \E l \in 0..Len(p) : f[l] = y
      BY DEF Prefixes
    <3> HIDE DEF f, places
    <3> QED
      BY <3>1, <3>2, ImageFinite
  <2>3. places \subseteq Path
    BY <2>1
  <2>4. /\ DOMAIN u = DOMAIN t \cup places /\ u = [q \in DOMAIN u |-> u[q]]
        /\ \A q \in DOMAIN t : u[q] = t[q]
        /\ \A q \in places \ DOMAIN t : u[q] = Dir(DirMode)
    OBVIOUS
  <2>5. ASSUME NEW q \in Prefixes(p), Stat(t, q) \in DOMAIN t
        PROVE  t[Stat(t, q)].kind = "dir"
    <3>1. Present(t, q)
      <4>1. CASE q = <<>>
        BY <2>1, <2>5, <4>1, StatIs DEF Present
      <4>2. CASE q # <<>>
        <5>1. Stat(t, q) = Follow(t, Lstat(t, q))
          BY <2>1, <4>2, StatIs
        <5> QED
          BY <2>5, <5>1 DEF Present, Follow
      <4> QED
        BY <4>1, <4>2
    <3> QED
      BY <1>1, <2>5, <3>1 DEF IsDir, Is
  <2>6. ASSUME NEW q \in Prefixes(p), Stat(t, q) \notin DOMAIN t, Stat(t, q) # <<>>
        PROVE  Front(Stat(t, q)) \in places
    <3>1. q \in Path /\ IsPrefix(q, p) /\ q # <<>>
      BY <2>6, PrefixesAre, StatIs
    <3>2. Stat(t, q) = Lstat(t, q)
      <4>1. CASE Present(t, q)
        BY <1>1, <2>6, <4>1 DEF IsDir, Is
      <4>2. CASE ~Present(t, q)
        BY <3>1, <4>2, StatIs DEF Follow, Present
      <4> QED
        BY <4>1, <4>2
    <3>3. Front(q) \in Path /\ IsPrefix(Front(q), q)
      BY <3>1, PathFront, PrefixFront, PrefixSelf
    <3>4. Front(q) \in Prefixes(p)
      BY <3>1, <3>3, PrefixTrans, PrefixesAre
    <3>5. Front(Stat(t, q)) = Stat(t, Front(q))
      BY <3>1, <3>2, StatIs
    <3> QED
      BY <3>4, <3>5
  <2>7. ASSUME NEW r \in places PROVE u[r].kind = "dir" /\ IsNode(u[r])
    <3>1. CASE r \in DOMAIN t
      BY <2>4, <2>5, <2>7, <3>1, GrownAt
    <3>2. CASE r \notin DOMAIN t
      BY <2>4, <2>7, <3>2, NodesAre
    <3> QED
      BY <3>1, <3>2
  <2>8. ASSUME NEW r \in DOMAIN u
        PROVE  /\ IsNode(u[r]) /\ (r = <<>> => u[r].kind = "dir")
               /\ r # <<>> => Front(r) \in DOMAIN u /\ u[Front(r)].kind = "dir"
    <3>1. CASE r \in DOMAIN t
      BY <2>4, <3>1, GrownAt
    <3>2. CASE r \notin DOMAIN t
      <4>1. r \in places /\ (r # <<>> => Front(r) \in places)
        BY <2>4, <2>6, <2>8, <3>2
      <4> HIDE DEF u, places
      <4> QED
        BY <2>4, <2>7, <4>1
    <3> QED
      BY <3>1, <3>2
  <2> HIDE DEF places, u
  <2>9. IsFiniteSet(DOMAIN u) /\ DOMAIN u \subseteq Path
    <3>1. IsFiniteSet(DOMAIN t) /\ DOMAIN t \subseteq Path
      BY DEF Grown, IsWhole
    <3>2. IsFiniteSet(DOMAIN t \cup places)
      BY <2>2, <3>1, FS_Union
    <3> QED
      BY <2>3, <2>4, <3>1, <3>2
  <2>10. Grown(u)
    BY <2>4, <2>8, <2>9 DEF Grown, IsWhole
  <2> QED
    BY <1>1, <2>10 DEF CreateDirAll, Ok, u, places
<1>2. CASE ~\A q \in Prefixes(p) : Present(t, q) => IsDir(t, q)
  BY <1>2 DEF CreateDirAll, Err
<1> QED
  BY <1>1, <1>2

-----------------------------------------------------------------------------
(***************************************************************************)
(* A rename puts what is at and below one place at and below another.      *)
(***************************************************************************)
Moved(q, p, s) == p \o SubSeq(s, Len(q) + 1, Len(s))

LEMMA MovedIs ==
  ASSUME NEW q \in Path, NEW p \in Path, NEW s \in Path, IsPrefix(q, s)
  PROVE  /\ Moved(q, p, s) \in Path /\ Len(Moved(q, p, s)) = Len(p) + Len(s) - Len(q)
         /\ \A i \in 1..Len(p) : Moved(q, p, s)[i] = p[i]
         /\ \A i \in 1..(Len(s) - Len(q)) : Moved(q, p, s)[Len(p) + i] = s[Len(q) + i]
<1> DEFINE a == Len(q)
           b == Len(p)
           c == Len(s)
           e == SubSeq(s, a + 1, c)
<1>1. a \in Nat /\ b \in Nat /\ c \in Nat /\ a <= c
  BY PrefixIs DEF Path
<1>2. \A i \in (a + 1)..c : s[i] \in Nat
  <2>1. \A i \in (a + 1)..c : i \in 1..c
    BY <1>1
  <2> QED
    BY <2>1, ElementOfSeq DEF Path
<1>3. /\ e \in Seq(Nat) /\ Len(e) = IF a + 1 <= c THEN c - (a + 1) + 1 ELSE 0
      /\ \A i \in 1..(c - (a + 1) + 1) : e[i] = s[(a + 1) + i - 1]
  <2>1. a + 1 \in Int /\ c \in Int
    BY <1>1
  <2> QED
    BY <1>2, <2>1, SubSeqProperties
<1>4. /\ p \o e \in Seq(Nat) /\ Len(p \o e) = b + Len(e)
      /\ \A i \in 1..(b + Len(e)) : (p \o e)[i] = IF i <= b THEN p[i] ELSE e[i - b]
  BY <1>3, ConcatProperties DEF Path
<1>5. Moved(q, p, s) = p \o e
  BY DEF Moved
<1> HIDE DEF a, b, c, e
<1>6. Len(e) = c - a
  BY <1>1, <1>3
<1>7. \A i \in 1..(c - a) : e[i] = s[a + i]
  <2>1. c - (a + 1) + 1 = c - a /\ \A i \in 1..(c - a) : (a + 1) + i - 1 = a + i
    BY <1>1
  <2> QED
    BY <1>3, <2>1
<1>8. \A i \in 1..b : (p \o e)[i] = p[i]
  BY <1>1, <1>4, <1>6
<1>9. \A i \in 1..(c - a) : (p \o e)[b + i] = s[a + i]
  <2> SUFFICES ASSUME NEW i \in 1..(c - a) PROVE (p \o e)[b + i] = s[a + i]
    OBVIOUS
  <2>1. b + i \in 1..(b + Len(e)) /\ ~(b + i <= b) /\ b + i - b = i
    BY <1>1, <1>6
  <2>2. PICK k \in 1..(b + Len(e)) : k = b + i
    BY <2>1
  <2>3. (p \o e)[k] = e[k - b] /\ k - b = i
    BY <1>1, <1>4, <2>1, <2>2
  <2> QED
    BY <1>7, <2>2, <2>3
<1> QED
  BY <1>1, <1>4, <1>5, <1>6, <1>8, <1>9 DEF a, b, c, Path

LEMMA MovedBack ==
  ASSUME NEW q \in Path, NEW p \in Path, NEW s \in Path, IsPrefix(q, s)
  PROVE  /\ IsPrefix(p, Moved(q, p, s)) /\ Moved(p, q, Moved(q, p, s)) = s
         /\ s = q => Moved(q, p, s) = p
         /\ s # q => /\ s # <<>> /\ Moved(q, p, s) # <<>> /\ IsPrefix(q, Front(s))
                     /\ Front(Moved(q, p, s)) = Moved(q, p, Front(s))
<1> DEFINE m == Moved(q, p, s)
<1>1. Len(q) \in Nat /\ Len(p) \in Nat /\ Len(s) \in Nat /\ Len(q) <= Len(s)
      /\ \A i \in 1..Len(q) : q[i] = s[i]
  BY PrefixIs DEF Path
<1>2. /\ m \in Path /\ Len(m) = Len(p) + Len(s) - Len(q)
      /\ \A i \in 1..Len(p) : m[i] = p[i]
      /\ \A i \in 1..(Len(s) - Len(q)) : m[Len(p) + i] = s[Len(q) + i]
  BY MovedIs
<1> HIDE DEF m
<1>3. IsPrefix(p, m)
  BY <1>1, <1>2, PrefixIs
<1>4. Moved(p, q, m) = s
  <2> DEFINE n == Moved(p, q, m)
  <2>1. /\ n \in Path /\ Len(n) = Len(q) + Len(m) - Len(p)
        /\ \A i \in 1..Len(q) : n[i] = q[i]
        /\ \A i \in 1..(Len(m) - Len(p)) : n[Len(q) + i] = m[Len(p) + i]
    BY <1>2, <1>3, MovedIs
  <2> HIDE DEF n
  <2>2. Len(n) = Len(s) /\ Len(m) - Len(p) = Len(s) - Len(q)
    BY <1>1, <1>2, <2>1
  <2>3. ASSUME NEW i \in 1..Len(s) PROVE n[i] = s[i]
    <3>1. CASE i <= Len(q)
      BY <1>1, <2>1, <3>1
    <3>2. CASE ~(i <= Len(q))
      <4>1. PICK j \in 1..(Len(s) - Len(q)) : i = Len(q) + j
        <5>1. i - Len(q) \in 1..(Len(s) - Len(q)) /\ i = Len(q) + (i - Len(q))
          BY <1>1, <3>2
        <5> QED
          BY <5>1
      <4>2. n[Len(q) + j] = m[Len(p) + j] /\ m[Len(p) + j] = s[Len(q) + j]
        BY <1>2, <2>1, <2>2
      <4> QED
        BY <4>1, <4>2
    <3> QED
      BY <3>1, <3>2
  <2>4. n = s
    BY <2>1, <2>2, <2>3, SeqEqual DEF Path
  <2> QED
    BY <2>4 DEF n
<1>5. s = q => m = p
  <2> SUFFICES ASSUME s = q PROVE m = p
    OBVIOUS
  <2>1. Len(m) = Len(p)
    BY <1>1, <1>2
  <2> QED
    BY <1>2, <2>1, SeqEqual DEF Path
<1>6. s # q => /\ s # <<>> /\ m # <<>> /\ IsPrefix(q, Front(s))
               /\ Front(m) = Moved(q, p, Front(s))
  <2> SUFFICES ASSUME s # q PROVE /\ s # <<>> /\ m # <<>> /\ IsPrefix(q, Front(s))
                                  /\ Front(m) = Moved(q, p, Front(s))
    OBVIOUS
  <2>1. s # <<>>
    BY PrefixOfRoot
  <2>2. IsPrefix(q, Front(s)) /\ Front(s) \in Path /\ Len(Front(s)) = Len(s) - 1
        /\ \A i \in 1..(Len(s) - 1) : Front(s)[i] = s[i]
    BY <2>1, PrefixFront, PathFront
  <2>3. Len(q) < Len(s)
    BY <1>1, <2>2, PrefixIs
  <2>4. m # <<>>
    BY <1>1, <1>2, <2>3
  <2>5. Front(m) \in Path /\ Len(Front(m)) = Len(m) - 1 /\ \A i \in 1..(Len(m) - 1) : Front(m)[i] = m[i]
    BY <1>2, <2>4, PathFront
  <2> DEFINE f == Moved(q, p, Front(s))
  <2>6. /\ f \in Path /\ Len(f) = Len(p) + Len(Front(s)) - Len(q)
        /\ \A i \in 1..Len(p) : f[i] = p[i]
        /\ \A i \in 1..(Len(Front(s)) - Len(q)) : f[Len(p) + i] = Front(s)[Len(q) + i]
    BY <2>2, MovedIs
  <2> HIDE DEF f
  <2>7. Len(Front(m)) = Len(f)
    BY <1>1, <1>2, <2>2, <2>5, <2>6
  <2>8. ASSUME NEW i \in 1..Len(f) PROVE Front(m)[i] = f[i]
    <3>1. i \in 1..(Len(m) - 1) /\ i \in Nat /\ Len(m) = Len(p) + Len(s) - Len(q)
      BY <1>1, <1>2, <2>5, <2>7
    <3>2. CASE i <= Len(p)
      <4>1. i \in 1..Len(p)
        BY <1>1, <3>1, <3>2
      <4> QED
        BY <1>2, <2>5, <2>6, <3>1, <4>1
    <3>3. CASE ~(i <= Len(p))
      <4>1. PICK j \in 1..(Len(s) - 1 - Len(q)) : i = Len(p) + j
        <5>1. i - Len(p) \in 1..(Len(s) - 1 - Len(q)) /\ i = Len(p) + (i - Len(p))
          BY <1>1, <3>1, <3>3
        <5> QED
          BY <5>1
      <4>2. j \in 1..(Len(s) - Len(q)) /\ j \in 1..(Len(Front(s)) - Len(q)) /\ Len(q) + j \in 1..(Len(s) - 1)
        BY <1>1, <2>2, <2>3
      <4>3. Front(m)[i] = m[i]
        BY <2>5, <3>1
      <4>4. m[Len(p) + j] = s[Len(q) + j] /\ f[Len(p) + j] = Front(s)[Len(q) + j]
            /\ Front(s)[Len(q) + j] = s[Len(q) + j]
        BY <1>2, <2>2, <2>6, <4>2
      <4> QED
        BY <4>1, <4>3, <4>4
    <3> QED
      BY <3>2, <3>3
  <2>9. Front(m) = f
    BY <2>5, <2>6, <2>7, <2>8, SeqEqual DEF Path
  <2> QED
    BY <2>1, <2>2, <2>4, <2>9 DEF f
<1> QED
  BY <1>3, <1>4, <1>5, <1>6 DEF m

\* What is neither at nor below two places, and what is at or below one.
Spared(t, q, p) == {r \in DOMAIN t : ~IsPrefix(q, r) /\ ~IsPrefix(p, r)}
Within(t, q) == {r \in DOMAIN t : IsPrefix(q, r)}

\* What a rename leaves: what was neither at, nor below, the two places, and
\* what was at and below the one now at and below the other.
LEMMA RenamedIs ==
  ASSUME NEW t, Grown(t), NEW q \in Path, NEW p \in Path
  PROVE  /\ \A r : r \in DOMAIN Renamed(t, q, p) <=>
                   r \in Spared(t, q, p) \/ \E s \in Within(t, q) : r = Moved(q, p, s)
         /\ \A r \in Spared(t, q, p) : Renamed(t, q, p)[r] = t[r]
         /\ \A s \in Within(t, q) : /\ Moved(q, p, s) \in Path \ Spared(t, q, p)
                                    /\ Renamed(t, q, p)[Moved(q, p, s)] = t[s]
<1> DEFINE R == {r \in DOMAIN t : ~IsPrefix(q, r) /\ ~IsPrefix(p, r)}
           M == {r \in DOMAIN t : IsPrefix(q, r)}
           N == {Moved(q, p, s) : s \in M}
           u == [r \in R \cup N |-> IF r \in R THEN t[r] ELSE t[Moved(p, q, r)]]
<1>1. Renamed(t, q, p) = u
  <2>1. Cut(Cut(t, q), p) = [r \in R |-> t[r]]
    BY DEF Cut, Restrict
  <2> HIDE DEF R
  <2> QED
    BY <2>1 DEF Renamed, Moved
<1>2. DOMAIN t \subseteq Path /\ IsFiniteSet(DOMAIN t)
  BY DEF Grown, IsWhole
<1>3. \A s \in M : s \in Path /\ IsPrefix(q, s)
  BY <1>2
<1>4. \A s \in M : Moved(q, p, s) \in Path \ R /\ Moved(p, q, Moved(q, p, s)) = s
  BY <1>3, MovedIs, MovedBack
<1>5. /\ DOMAIN u = R \cup N /\ u = [r \in DOMAIN u |-> u[r]]
      /\ \A r \in R : u[r] = t[r]
      /\ \A s \in M : u[Moved(q, p, s)] = t[s]
  <2>1. DOMAIN u = R \cup N /\ u = [r \in DOMAIN u |-> u[r]]
        /\ \A r \in R : u[r] = t[r]
    OBVIOUS
  <2>2. \A r \in N \ R : u[r] = t[Moved(p, q, r)]
    OBVIOUS
  <2>3. \A s \in M : Moved(q, p, s) \in N
    OBVIOUS
  <2> HIDE DEF u, R, M, N
  <2>4. ASSUME NEW s \in M PROVE u[Moved(q, p, s)] = t[s]
    <3>1. Moved(q, p, s) \in N \ R /\ Moved(p, q, Moved(q, p, s)) = s
      BY <1>4, <2>3
    <3> QED
      BY <2>2, <3>1, Zenon
  <2> QED
    BY <2>1, <2>4
<1>6. R = Spared(t, q, p) /\ M = Within(t, q)
  BY DEF Spared, Within
<1>7. \A r : r \in DOMAIN u <=> r \in R \/ \E s \in M : r = Moved(q, p, s)
  <2> HIDE DEF u, R, M
  <2> QED
    BY <1>5
<1> HIDE DEF u, R, M, N
<1> QED
  BY <1>1, <1>4, <1>5, <1>6, <1>7

LEMMA RenamedGrown ==
  ASSUME NEW t, Grown(t), NEW q \in Path, NEW p \in Path, q # p, q \in DOMAIN t, ~Below(q, p),
         Parent(p) \in DOMAIN t, t[Parent(p)].kind = "dir",
         p \in DOMAIN t => \A r \in DOMAIN t : ~Below(p, r)
  PROVE  Grown(Renamed(t, q, p))
<1> DEFINE R == {r \in DOMAIN t : ~IsPrefix(q, r) /\ ~IsPrefix(p, r)}
           M == {r \in DOMAIN t : IsPrefix(q, r)}
           N == {Moved(q, p, s) : s \in M}
           u == Renamed(t, q, p)
<1>2. DOMAIN t \subseteq Path /\ IsFiniteSet(DOMAIN t)
  BY DEF Grown, IsWhole
<1>3. \A s \in M : s \in Path /\ IsPrefix(q, s)
  BY <1>2
<1>7. /\ DOMAIN u = R \cup N /\ u = [r \in DOMAIN u |-> u[r]]
      /\ \A r \in R : u[r] = t[r]
      /\ \A s \in M : u[Moved(q, p, s)] = t[s] /\ Moved(q, p, s) \in Path \ R
  <2>1. R = Spared(t, q, p) /\ M = Within(t, q)
    BY DEF Spared, Within
  <2>2. \A r : r \in DOMAIN u <=> r \in Spared(t, q, p) \/ \E s \in Within(t, q) : r = Moved(q, p, s)
    BY RenamedIs
  <2>3. u = [r \in DOMAIN u |-> u[r]]
    BY DEF Renamed
  <2>4. /\ \A r \in Spared(t, q, p) : u[r] = t[r]
        /\ \A s \in Within(t, q) : /\ Moved(q, p, s) \in Path \ Spared(t, q, p)
                                   /\ u[Moved(q, p, s)] = t[s]
    BY RenamedIs
  <2> HIDE DEF R, M, u
  <2>5. DOMAIN u = R \cup N
    BY <2>1, <2>2
  <2> QED
    BY <2>1, <2>3, <2>4, <2>5
<1> HIDE DEF u
<1>5. p # <<>> /\ Front(p) \in R
  <2>1. p # <<>>
    <3>1. ASSUME p = <<>> PROVE FALSE
      <4>1. IsPrefix(<<>>, q)
        BY PrefixSelf
      <4>2. p \in DOMAIN t
        BY <3>1 DEF Parent
      <4> QED
        BY <3>1, <4>1, <4>2 DEF Below, IsStrictPrefix
    <3> QED
      BY <3>1
  <2>2. Front(p) \in DOMAIN t /\ Front(p) \in Path /\ Len(p) \in Nat /\ Len(Front(p)) = Len(p) - 1
    BY <2>1, PathFront DEF Parent
  <2>3. ~IsPrefix(q, Front(p))
    BY <2>1, PrefixFront DEF Below, IsStrictPrefix
  <2>4. ~IsPrefix(p, Front(p))
    <3>1. ~(Len(p) <= Len(Front(p)))
      BY <2>2
    <3> QED
      BY <2>2, <3>1, PrefixIs
  <2> QED
    BY <2>1, <2>2, <2>3, <2>4
<1>6. IsFiniteSet(R \cup N)
  <2>1. IsFiniteSet(M) /\ IsFiniteSet(R)
    BY <1>2, FS_Subset
  <2>2. IsFiniteSet(N)
    <3> DEFINE f == [s \in M |-> Moved(q, p, s)]
    <3>1. f \in [M -> N] /\ \A y \in N : \E s \in M : f[s] = y
      OBVIOUS
    <3> HIDE DEF f, M, N
    <3> QED
      BY <2>1, <3>1, ImageFinite
  <2> QED
    BY <2>1, <2>2, FS_Union
<1>8. ASSUME NEW r \in R
      PROVE  /\ IsNode(u[r]) /\ (r = <<>> => u[r].kind = "dir")
             /\ r # <<>> => Front(r) \in R /\ u[Front(r)].kind = "dir"
  <2>1. r \in Path /\ IsNode(t[r]) /\ (r = <<>> => t[r].kind = "dir")
    BY GrownAt
  <2>2. ASSUME r # <<>> PROVE Front(r) \in R /\ t[Front(r)].kind = "dir"
    <3>1. Front(r) \in DOMAIN t /\ t[Front(r)].kind = "dir"
      BY <2>2, GrownAt
    <3>2. ~IsPrefix(q, Front(r)) /\ ~IsPrefix(p, Front(r))
      BY <2>1, <2>2, PrefixFront
    <3> QED
      BY <3>1, <3>2
  <2> HIDE DEF u, R
  <2> QED
    BY <1>7, <2>1, <2>2
<1>9. ASSUME NEW s \in M
      PROVE  /\ IsNode(u[Moved(q, p, s)]) /\ Moved(q, p, s) # <<>>
             /\ Front(Moved(q, p, s)) \in DOMAIN u /\ u[Front(Moved(q, p, s))].kind = "dir"
  <2>1. s \in DOMAIN t /\ s \in Path /\ IsPrefix(q, s) /\ IsNode(t[s])
    BY <1>2, GrownAt
  <2>2. IsNode(u[Moved(q, p, s)])
    <3> HIDE DEF u, M
    <3> QED
      BY <1>7, <2>1
  <2>5. Moved(q, p, s) # <<>>
    <3>1. IsPrefix(p, Moved(q, p, s)) /\ <<>> \in Path
      <4>1. Len(p) \in Nat /\ Len(q) <= Len(s) /\ Len(q) \in Nat /\ Len(s) \in Nat
        BY <2>1, PrefixIs DEF Path
      <4>2. Moved(q, p, s) \in Path /\ Len(Moved(q, p, s)) = Len(p) + Len(s) - Len(q)
            /\ \A i \in 1..Len(p) : Moved(q, p, s)[i] = p[i]
        BY <2>1, MovedIs
      <4>3. Len(p) <= Len(Moved(q, p, s))
        BY <4>1, <4>2
      <4> QED
        BY <4>2, <4>3, PrefixIs, PrefixSelf DEF Path
    <3> QED
      BY <1>5, <3>1, PrefixOfRoot
  <2>3. CASE s = q
    <3>1. Moved(q, p, s) = p
      BY <2>1, <2>3, MovedBack
    <3>2. t[Front(p)].kind = "dir"
      BY <1>5 DEF Parent
    <3> HIDE DEF u, R, M
    <3> QED
      BY <1>5, <1>7, <2>2, <2>5, <3>1, <3>2
  <2>4. CASE s # q
    <3>1. s # <<>> /\ IsPrefix(q, Front(s)) /\ Front(Moved(q, p, s)) = Moved(q, p, Front(s))
      BY <2>1, <2>4, MovedBack
    <3>2. Front(s) \in M /\ t[Front(s)].kind = "dir"
      BY <2>1, <3>1, GrownAt
    <3>3. Moved(q, p, Front(s)) \in N
      BY <3>2
    <3> HIDE DEF u, R, M, N
    <3> QED
      BY <1>7, <2>2, <2>5, <3>1, <3>2, <3>3
  <2> QED
    BY <2>3, <2>4
<1>10. \A r \in DOMAIN u : r \in Path /\ IsNode(u[r])
           /\ (r = <<>> => u[r].kind = "dir")
           /\ (r # <<>> => Front(r) \in DOMAIN u /\ u[Front(r)].kind = "dir")
  <2> SUFFICES ASSUME NEW r \in DOMAIN u
               PROVE  /\ r \in Path /\ IsNode(u[r]) /\ (r = <<>> => u[r].kind = "dir")
                      /\ r # <<>> => Front(r) \in DOMAIN u /\ u[Front(r)].kind = "dir"
    OBVIOUS
  <2>1. CASE r \in R
    <3>1. r \in Path
      BY <1>2, <2>1
    <3> HIDE DEF u, R
    <3> QED
      BY <1>7, <1>8, <2>1, <3>1
  <2>2. CASE r \notin R
    <3>1. PICK s \in M : r = Moved(q, p, s)
      BY <1>7, <2>2
    <3> HIDE DEF u, R, M
    <3> QED
      BY <1>7, <1>9, <3>1
  <2> QED
    BY <2>1, <2>2
<1> HIDE DEF u, R, M, N
<1>11. DOMAIN u \subseteq Path /\ IsFiniteSet(DOMAIN u)
  BY <1>6, <1>7, <1>10
<1> QED
  BY <1>7, <1>10, <1>11 DEF Grown, IsWhole, u

LEMMA RenameGrown ==
  ASSUME NEW t, Grown(t), NEW q \in Path, NEW p \in Path
  PROVE  Grown(Rename(t, q, p).tree)
<1>1. CASE q = p /\ q \in DOMAIN t
  BY <1>1 DEF Rename, Ok
<1>2. CASE ~(q = p /\ q \in DOMAIN t)
  <2> DEFINE C == /\ q \in DOMAIN t /\ ~Below(q, p)
                  /\ Parent(p) \in DOMAIN t /\ t[Parent(p)].kind = "dir"
                  /\ p \in DOMAIN t =>
                       /\ (t[q].kind = "dir") = (t[p].kind = "dir")
                       /\ \A r \in DOMAIN t : ~Below(p, r)
  <2>1. CASE C
    <3>2. q # p
      BY <1>2, <2>1
    <3>3. Grown(Renamed(t, q, p))
      BY <2>1, <3>2, RenamedGrown
    <3>4. Rename(t, q, p) = Ok(Renamed(t, q, p))
      BY <1>2, <2>1 DEF Rename
    <3> QED
      BY <3>3, <3>4 DEF Ok
  <2>2. CASE ~C
    <3>1. Rename(t, q, p) = Err(t)
      BY <1>2, <2>2 DEF Rename
    <3> QED
      BY <3>1 DEF Err
  <2> QED
    BY <2>1, <2>2
<1> QED
  BY <1>1, <1>2

-----------------------------------------------------------------------------
(***************************************************************************)
(* The order of a sorted walk.                                             *)
(***************************************************************************)
LexAt(p, q, i) == i <= Len(p) /\ i <= Len(q) /\ p[i] < q[i] /\ \A j \in 1..(i - 1) : p[j] = q[j]

LEMMA LexicallyIs ==
  ASSUME NEW p \in Path, NEW q \in Path
  PROVE  Lexically(p, q) <=> IsPrefix(p, q) \/ \E i \in Nat \ {0} : LexAt(p, q, i)
<1>1. Len(p) \in Nat /\ Len(q) \in Nat
  BY DEF Path
<1>2. ASSUME NEW i \in 1..Len(p), i <= Len(q)
      PROVE  SubSeq(p, 1, i - 1) = SubSeq(q, 1, i - 1) <=> \A j \in 1..(i - 1) : p[j] = q[j]
  <2> DEFINE n == i - 1
             a == SubSeq(p, 1, n)
             b == SubSeq(q, 1, n)
  <2>1. n \in Nat /\ n <= Len(p) /\ n <= Len(q)
    BY <1>1, <1>2
  <2> HIDE DEF n
  <2>2. /\ a \in Seq(Nat) /\ Len(a) = n /\ \A j \in 1..n : a[j] = p[j]
        /\ b \in Seq(Nat) /\ Len(b) = n /\ \A j \in 1..n : b[j] = q[j]
    BY <2>1, PathTake DEF Path
  <2> HIDE DEF a, b
  <2>3. a = b <=> \A j \in 1..n : a[j] = b[j]
    BY <2>2, SeqEqual
  <2>4. a = b <=> \A j \in 1..n : p[j] = q[j]
    BY <2>2, <2>3
  <2> QED
    BY <2>4 DEF a, b, n
<1>3. ASSUME Lexically(p, q), ~IsPrefix(p, q) PROVE \E i \in Nat \ {0} : LexAt(p, q, i)
  <2>1. PICK i \in 1..Len(p) : /\ i <= Len(q) /\ p[i] < q[i]
                               /\ SubSeq(p, 1, i - 1) = SubSeq(q, 1, i - 1)
    BY <1>3 DEF Lexically
  <2>2. LexAt(p, q, i) /\ i \in Nat \ {0}
    BY <1>1, <1>2, <2>1 DEF LexAt
  <2> QED
    BY <2>2
<1>4. ASSUME NEW i \in Nat \ {0}, LexAt(p, q, i) PROVE Lexically(p, q)
  <2>1. i \in 1..Len(p) /\ i <= Len(q) /\ p[i] < q[i]
    BY <1>1, <1>4 DEF LexAt
  <2>2. SubSeq(p, 1, i - 1) = SubSeq(q, 1, i - 1)
    BY <1>2, <1>4, <2>1 DEF LexAt
  <2> QED
    BY <2>1, <2>2 DEF Lexically
<1> QED
  BY <1>3, <1>4 DEF Lexically

LEMMA LexTotal ==
  ASSUME NEW p \in Path, NEW q \in Path
  PROVE  Lexically(p, q) \/ Lexically(q, p)
<1> SUFFICES ASSUME ~IsPrefix(p, q), ~IsPrefix(q, p)
             PROVE  Lexically(p, q) \/ Lexically(q, p)
  BY DEF Lexically
<1> DEFINE D == {i \in Nat \ {0} : i <= Len(p) /\ i <= Len(q) /\ p[i] # q[i]}
<1>1. /\ Len(p) \in Nat /\ Len(q) \in Nat
      /\ (\A i \in 1..Len(p) : p[i] \in Nat) /\ \A i \in 1..Len(q) : q[i] \in Nat
  BY DEF Path
<1>2. D # {}
  <2>1. CASE Len(p) <= Len(q)
    <3>1. PICK i \in 1..Len(p) : p[i] # q[i]
      BY <2>1, PrefixIs
    <3> QED
      BY <1>1, <2>1, <3>1
  <2>2. CASE ~(Len(p) <= Len(q))
    <3>1. PICK i \in 1..Len(q) : p[i] # q[i]
      BY <1>1, <2>2, PrefixIs
    <3> QED
      BY <1>1, <2>2, <3>1
  <2> QED
    BY <2>1, <2>2
<1>3. PICK i \in D : \A j \in D : i <= j
  <2>1. D \in SUBSET Nat
    OBVIOUS
  <2> HIDE DEF D
  <2> QED
    BY <1>2, <2>1, Least
<1>4. i \in Nat \ {0} /\ i <= Len(p) /\ i <= Len(q) /\ p[i] # q[i] /\ p[i] \in Nat /\ q[i] \in Nat
  BY <1>1, <1>3
<1>5. ASSUME NEW j \in 1..(i - 1) PROVE p[j] = q[j]
  <2>1. j \in Nat \ {0} /\ j <= Len(p) /\ j <= Len(q) /\ ~(i <= j)
    BY <1>1, <1>4
  <2>2. j \notin D
    BY <1>3, <2>1
  <2> QED
    BY <2>1, <2>2
<1>6. CASE p[i] < q[i]
  <2>1. LexAt(p, q, i)
    BY <1>4, <1>5, <1>6 DEF LexAt
  <2> QED
    BY <1>4, <2>1, LexicallyIs
<1>7. CASE q[i] < p[i]
  <2>1. LexAt(q, p, i)
    BY <1>4, <1>5, <1>7 DEF LexAt
  <2> QED
    BY <1>4, <2>1, LexicallyIs
<1> QED
  BY <1>4, <1>6, <1>7

LEMMA LexTrans ==
  ASSUME NEW p \in Path, NEW q \in Path, NEW r \in Path, Lexically(p, q), Lexically(q, r)
  PROVE  Lexically(p, r)
<1>1. /\ Len(p) \in Nat /\ Len(q) \in Nat /\ Len(r) \in Nat
      /\ (\A i \in 1..Len(p) : p[i] \in Nat) /\ (\A i \in 1..Len(q) : q[i] \in Nat)
      /\ \A i \in 1..Len(r) : r[i] \in Nat
  BY DEF Path
<1>2. CASE IsPrefix(p, q) /\ IsPrefix(q, r)
  BY <1>2, PrefixTrans DEF Lexically
<1>3. ASSUME IsPrefix(p, q), NEW j \in Nat \ {0}, LexAt(q, r, j) PROVE Lexically(p, r)
  <2>1. Len(p) <= Len(q) /\ \A i \in 1..Len(p) : p[i] = q[i]
    BY <1>3, PrefixIs
  <2>2. j <= Len(q) /\ j <= Len(r) /\ q[j] < r[j] /\ \A i \in 1..(j - 1) : q[i] = r[i]
    BY <1>3 DEF LexAt
  <2>3. CASE j <= Len(p)
    <3>1. p[j] = q[j] /\ \A i \in 1..(j - 1) : p[i] = q[i]
      BY <1>1, <2>1, <2>3
    <3>2. LexAt(p, r, j)
      BY <2>2, <2>3, <3>1 DEF LexAt
    <3> QED
      BY <3>2, LexicallyIs
  <2>4. CASE ~(j <= Len(p))
    <3>1. Len(p) <= Len(r) /\ \A i \in 1..Len(p) : i \in 1..(j - 1)
      BY <1>1, <2>2, <2>4
    <3>2. IsPrefix(p, r)
      BY <2>1, <2>2, <3>1, PrefixIs
    <3> QED
      BY <3>2 DEF Lexically
  <2> QED
    BY <2>3, <2>4
<1>4. ASSUME NEW i \in Nat \ {0}, LexAt(p, q, i), IsPrefix(q, r) PROVE Lexically(p, r)
  <2>1. Len(q) <= Len(r) /\ \A j \in 1..Len(q) : q[j] = r[j]
    BY <1>4, PrefixIs
  <2>2. i <= Len(p) /\ i <= Len(q) /\ p[i] < q[i] /\ \A j \in 1..(i - 1) : p[j] = q[j]
    BY <1>4 DEF LexAt
  <2>3. i <= Len(r) /\ q[i] = r[i] /\ \A j \in 1..(i - 1) : q[j] = r[j]
    BY <1>1, <2>1, <2>2
  <2>4. LexAt(p, r, i)
    BY <2>2, <2>3 DEF LexAt
  <2> QED
    BY <2>4, LexicallyIs
<1>5. ASSUME NEW i \in Nat \ {0}, NEW j \in Nat \ {0}, LexAt(p, q, i), LexAt(q, r, j)
      PROVE  Lexically(p, r)
  <2>1. i <= Len(p) /\ i <= Len(q) /\ p[i] < q[i] /\ \A k \in 1..(i - 1) : p[k] = q[k]
    BY <1>5 DEF LexAt
  <2>2. j <= Len(q) /\ j <= Len(r) /\ q[j] < r[j] /\ \A k \in 1..(j - 1) : q[k] = r[k]
    BY <1>5 DEF LexAt
  <2>3. CASE i < j
    <3>1. i <= Len(r) /\ q[i] = r[i] /\ \A k \in 1..(i - 1) : q[k] = r[k]
      BY <1>1, <2>2, <2>3
    <3>2. LexAt(p, r, i)
      BY <2>1, <3>1 DEF LexAt
    <3> QED
      BY <3>2, LexicallyIs
  <2>4. CASE j < i
    <3>1. j <= Len(p) /\ p[j] = q[j] /\ \A k \in 1..(j - 1) : p[k] = q[k]
      BY <1>1, <2>1, <2>4
    <3>2. LexAt(p, r, j)
      BY <2>2, <3>1 DEF LexAt
    <3> QED
      BY <3>2, LexicallyIs
  <2>5. CASE i = j
    <3>1. p[i] \in Nat /\ q[i] \in Nat /\ r[i] \in Nat
      BY <1>1, <2>1, <2>2, <2>5
    <3>2. p[i] < r[i]
      BY <2>1, <2>2, <2>5, <3>1
    <3>3. LexAt(p, r, i)
      BY <2>1, <2>2, <2>5, <3>2 DEF LexAt
    <3> QED
      BY <3>3, LexicallyIs
  <2> QED
    BY <2>3, <2>4, <2>5
<1> QED
  BY <1>2, <1>3, <1>4, <1>5, LexicallyIs

\* Of finitely many paths one is the first.
LEMMA FirstIs ==
  ASSUME NEW R \in SUBSET Path, IsFiniteSet(R), R # {}
  PROVE  First(R) \in R /\ \A q \in R : Lexically(First(R), q)
<1> DEFINE Has(Q) == \E p \in Q : \A q \in Q : Lexically(p, q)
           n == Cardinality(R)
           S == {k \in 0..n : \A Q \in SUBSET Path :
                    IsFiniteSet(Q) /\ Cardinality(Q) = k /\ Q # {} => Has(Q)}
<1>1. n \in Nat
  BY FS_CardinalityType
<1>2. 0 \in S
  <2>1. \A Q : IsFiniteSet(Q) /\ Cardinality(Q) = 0 => Q = {}
    BY FS_EmptySet
  <2> QED
    BY <1>1, <2>1
<1>3. ASSUME NEW k \in 0..(n - 1), k \in S PROVE k + 1 \in S
  <2>1. k + 1 \in 0..n /\ k \in Nat
    BY <1>1
  <2>2. ASSUME NEW Q \in SUBSET Path, IsFiniteSet(Q), Cardinality(Q) = k + 1, Q # {} PROVE Has(Q)
    <3>1. PICK x \in Q : TRUE
      BY <2>2
    <3> DEFINE P == Q \ {x}
    <3>2. P \in SUBSET Path /\ IsFiniteSet(P) /\ Cardinality(P) = k /\ x \in Path
      <4>1. IsFiniteSet(P) /\ Cardinality(P) = Cardinality(Q) - 1
        BY <2>2, FS_RemoveElement
      <4> QED
        BY <2>1, <2>2, <4>1
    <3>3. CASE P = {}
      <4>1. Lexically(x, x)
        BY <3>2, PrefixSelf DEF Lexically
      <4>2. Q = {x}
        BY <3>1, <3>3
      <4> QED
        BY <4>1, <4>2
    <3>4. CASE P # {}
      <4>1. PICK p \in P : \A q \in P : Lexically(p, q)
        <5> HIDE DEF P
        <5> QED
          BY <1>3, <3>2, <3>4
      <4>2. p \in Path /\ p \in Q
        BY <3>2
      <4>3. CASE Lexically(p, x)
        <5>1. \A q \in Q : Lexically(p, q)
          BY <4>1, <4>3
        <5> QED
          BY <4>2, <5>1
      <4>4. CASE Lexically(x, p)
        <5>1. \A q \in P : Lexically(x, q)
          BY <3>2, <4>1, <4>2, <4>4, LexTrans
        <5>2. Lexically(x, x)
          BY <3>2, PrefixSelf DEF Lexically
        <5>3. \A q \in Q : Lexically(x, q)
          BY <5>1, <5>2
        <5> QED
          BY <5>3
      <4> QED
        BY <3>2, <4>2, <4>3, <4>4, LexTotal
    <3> QED
      BY <3>3, <3>4
  <2> HIDE DEF Has
  <2> QED
    BY <2>1, <2>2
<1>4. 0..n \subseteq S
  <2> HIDE DEF S, n
  <2> QED
    BY <1>1, <1>2, <1>3, Climb
<1>5. n \in S
  BY <1>1, <1>4
<1>6. Has(R)
  <2> HIDE DEF Has
  <2> QED
    BY <1>5
<1> QED
  BY <1>6 DEF First

LEMMA InOrderLoop ==
  ASSUME NEW S, IsFiniteSet(S)
  PROVE  InOrder(S) = [i \in 1..Cardinality(S) |-> First(Loop("left", S, S, Cardinality(S))[i - 1])]
<1> DEFINE n == Cardinality(S)
           Yields(r) == r = [i \in 0..n |-> IF i = 0 THEN S ELSE r[i - 1] \ {First(r[i - 1])}]
           r == CHOOSE f : Yields(f)
           l == Loop("left", S, S, n)
<1>1. n \in Nat
  BY FS_CardinalityType
<1>2. \A x, i : After("left", S, x, i) = x \ {First(x)}
  BY DEF After
<1>3. Yields(r)
  <2>1. l[0] = S /\ l = [i \in 0..n |-> l[i]]
    BY <1>1, LoopIs
  <2>2. \A i \in 1..n : l[i] = After("left", S, l[i - 1], i)
    BY <1>1, LoopIs
  <2> HIDE DEF l
  <2>3. \A i \in 0..n : l[i] = IF i = 0 THEN S ELSE l[i - 1] \ {First(l[i - 1])}
    <3>1. \A i \in 0..n : i = 0 \/ i \in 1..n
      BY <1>1
    <3> QED
      BY <1>2, <2>1, <2>2, <3>1
  <2>4. Yields(l)
    BY <2>1, <2>3
  <2> QED
    BY <2>4
<1>4. InOrder(S) = [i \in 1..n |-> First(r[i - 1])]
  BY DEF InOrder
<1> HIDE DEF r, n
<1>5. r[0] = S /\ \A i \in 1..n : r[i] = After("left", S, r[i - 1], i)
  <2>1. \A i \in 0..n : r[i] = IF i = 0 THEN S ELSE r[i - 1] \ {First(r[i - 1])}
    BY <1>3
  <2>2. 0 \in 0..n /\ \A i \in 1..n : i \in 0..n /\ i # 0
    BY <1>1
  <2> QED
    BY <1>2, <2>1, <2>2
<1>6. \A k \in 0..n : r[k] = l[k]
  <2>1. l[0] = S /\ \A i \in 1..n : l[i] = After("left", S, l[i - 1], i)
    BY <1>1, LoopIs
  <2> HIDE DEF l
  <2> DEFINE T == {k \in 0..n : r[k] = l[k]}
  <2>2. 0 \in T
    BY <1>1, <1>5, <2>1
  <2>3. ASSUME NEW k \in 0..(n - 1), k \in T PROVE k + 1 \in T
    <3>1. k + 1 \in 1..n /\ k + 1 \in 0..n /\ k + 1 - 1 = k
      BY <1>1
    <3> QED
      BY <1>5, <2>1, <2>3, <3>1
  <2>4. 0..n \subseteq T
    <3> HIDE DEF T
    <3> QED
      BY <1>1, <2>2, <2>3, Climb
  <2> QED
    BY <2>4
<1> HIDE DEF l
<1>7. \A i \in 1..n : i - 1 \in 0..n
  BY <1>1
<1>8. \A i \in 1..n : First(r[i - 1]) = First(l[i - 1])
  BY <1>6, <1>7
<1>9. InOrder(S) = [i \in 1..n |-> First(l[i - 1])]
  BY <1>4, <1>8
<1> QED
  BY <1>9 DEF l, n

\* Every path of the set, each once.
LEMMA InOrderIs ==
  ASSUME NEW S \in SUBSET Path, IsFiniteSet(S)
  PROVE  /\ InOrder(S) \in Seq(S) /\ Len(InOrder(S)) = Cardinality(S)
         /\ \A p \in S : \E i \in 1..Cardinality(S) : InOrder(S)[i] = p
         /\ \A i, j \in 1..Cardinality(S) : i < j =>
              /\ InOrder(S)[i] # InOrder(S)[j]
              /\ Lexically(InOrder(S)[i], InOrder(S)[j])
<1> DEFINE n == Cardinality(S)
           l == Loop("left", S, S, n)
           f == InOrder(S)
<1>1. n \in Nat
  BY FS_CardinalityType
<1>2. l[0] = S /\ \A i \in 1..n : l[i] = l[i - 1] \ {First(l[i - 1])}
  <2>1. \A x, i : After("left", S, x, i) = x \ {First(x)}
    BY DEF After
  <2>2. l[0] = S /\ \A i \in 1..n : l[i] = After("left", S, l[i - 1], i)
    BY <1>1, LoopIs
  <2> HIDE DEF l
  <2> QED
    BY <2>1, <2>2
<1>3. f = [i \in 1..n |-> First(l[i - 1])]
  BY InOrderLoop
<1> HIDE DEF l, f
<1> DEFINE T == {k \in 0..n : l[k] \in SUBSET S /\ IsFiniteSet(l[k]) /\ Cardinality(l[k]) = n - k}
<1>4. 0 \in T
  BY <1>1, <1>2
<1>5. ASSUME NEW k \in 0..(n - 1), k \in T
      PROVE  /\ k + 1 \in T /\ First(l[k]) \in l[k] /\ l[k + 1] = l[k] \ {First(l[k])}
             /\ \A q \in l[k] : Lexically(First(l[k]), q)
  <2>1. k + 1 \in 1..n /\ k + 1 \in 0..n /\ k + 1 - 1 = k /\ n - k # 0 /\ n - (k + 1) = n - k - 1
    BY <1>1
  <2>2. l[k] \in SUBSET S /\ IsFiniteSet(l[k]) /\ Cardinality(l[k]) = n - k
    BY <1>5
  <2>3. l[k] # {}
    BY <2>1, <2>2, FS_EmptySet
  <2>4. First(l[k]) \in l[k] /\ \A q \in l[k] : Lexically(First(l[k]), q)
    BY <2>2, <2>3, FirstIs
  <2>5. l[k + 1] = l[k] \ {First(l[k])}
    BY <1>2, <2>1
  <2>6. IsFiniteSet(l[k + 1]) /\ Cardinality(l[k + 1]) = Cardinality(l[k]) - 1
    BY <2>2, <2>4, <2>5, FS_RemoveElement
  <2>7. l[k + 1] \in SUBSET S
    BY <2>2, <2>5
  <2> QED
    BY <2>1, <2>2, <2>4, <2>5, <2>6, <2>7
<1>6. 0..n \subseteq T
  <2>1. \A k \in 0..(n - 1) : k \in T => k + 1 \in T
    BY <1>5
  <2> HIDE DEF T, n
  <2> QED
    BY <1>1, <1>4, <2>1, Climb
<1>7. ASSUME NEW k \in 0..(n - 1)
      PROVE  /\ l[k] \in SUBSET S /\ First(l[k]) \in l[k] /\ l[k + 1] = l[k] \ {First(l[k])}
             /\ \A q \in l[k] : Lexically(First(l[k]), q)
  <2>1. k \in T
    <3>1. k \in 0..n
      BY <1>1
    <3> HIDE DEF T
    <3> QED
      BY <1>6, <3>1
  <2> QED
    BY <1>5, <2>1
<1>8. l[n] = {}
  <2>1. n \in T
    <3>1. n \in 0..n
      BY <1>1
    <3> HIDE DEF T
    <3> QED
      BY <1>6, <3>1
  <2>2. IsFiniteSet(l[n]) /\ Cardinality(l[n]) = 0
    BY <1>1, <2>1
  <2> QED
    BY <2>2, FS_EmptySet
<1> HIDE DEF T, n
<1>9. \A i \in 1..n : i - 1 \in 0..(n - 1) /\ f[i] = First(l[i - 1])
  BY <1>1, <1>3
<1>10. f \in Seq(S) /\ Len(f) = n
  <2>1. \A i \in 1..n : f[i] \in S
    BY <1>7, <1>9
  <2>2. f \in [1..n -> S]
    BY <1>3, <2>1
  <2> QED
    BY <1>1, <2>2
<1>11. ASSUME NEW p \in S PROVE \E i \in 1..n : f[i] = p
  <2> SUFFICES ASSUME \A i \in 1..n : f[i] # p PROVE FALSE
    OBVIOUS
  <2> DEFINE U == {k \in 0..n : p \in l[k]}
  <2>1. 0 \in U
    BY <1>1, <1>2
  <2>2. ASSUME NEW k \in 0..(n - 1), k \in U PROVE k + 1 \in U
    <3>1. k + 1 \in 1..n /\ k + 1 \in 0..n /\ k + 1 - 1 = k
      BY <1>1
    <3>2. f[k + 1] = First(l[k])
      BY <1>9, <3>1
    <3> QED
      BY <1>7, <2>2, <3>1, <3>2
  <2>3. 0..n \subseteq U
    <3> HIDE DEF U
    <3> QED
      BY <1>1, <2>1, <2>2, Climb
  <2>4. n \in U
    BY <1>1, <2>3
  <2> QED
    BY <1>8, <2>4
<1>12. ASSUME NEW i \in 1..n, NEW j \in 1..n, i < j
       PROVE  f[i] # f[j] /\ Lexically(f[i], f[j])
  <2> DEFINE U == {k \in 0..n : k >= i => l[k] \subseteq l[i]}
  <2>1. 0 \in U
    BY <1>1
  <2>2. ASSUME NEW k \in 0..(n - 1), k \in U PROVE k + 1 \in U
    <3>1. k + 1 \in 0..n /\ k \in Nat
      BY <1>1
    <3>2. CASE k + 1 = i
      BY <3>1, <3>2
    <3>3. CASE k + 1 # i
      BY <1>7, <2>2, <3>1, <3>3
    <3> QED
      BY <3>2, <3>3
  <2>3. 0..n \subseteq U
    <3> HIDE DEF U
    <3> QED
      BY <1>1, <2>1, <2>2, Climb
  <2>4. l[j - 1] \subseteq l[i]
    <3>1. j - 1 \in 0..n /\ j - 1 >= i
      BY <1>1, <1>12
    <3> QED
      BY <2>3, <3>1
  <2>5. f[j] \in l[i]
    BY <1>7, <1>9, <2>4
  <2>6. i - 1 \in 0..(n - 1) /\ i - 1 + 1 = i /\ f[i] = First(l[i - 1])
    BY <1>9
  <2>7. l[i] = l[i - 1] \ {f[i]} /\ \A q \in l[i - 1] : Lexically(f[i], q)
    BY <1>7, <2>6
  <2> QED
    BY <2>5, <2>7
<1> QED
  BY <1>10, <1>11, <1>12 DEF f, n

-----------------------------------------------------------------------------
(***************************************************************************)
(* The operations of a hook: each leaves a tree a tree, also where it      *)
(* fails.                                                                  *)
(***************************************************************************)
LEMMA ParentPath == ASSUME NEW p \in Path PROVE Parent(p) \in Path
  BY PathFront DEF Parent

LEMMA SetModeGrown ==
  ASSUME NEW t, Grown(t), NEW p, NEW m
  PROVE  Grown(SetMode(t, p, m).tree)
  BY ChmodGrown DEF SetMode, Ok, Err

LEMMA AtomicWriteGrown ==
  ASSUME NEW t, Grown(t), NEW p \in Path, NEW d
  PROVE  Grown(AtomicWrite(t, p, d).tree)
<1> DEFINE made == CreateDirAll(t, Parent(p))
<1>1. Grown(made.tree)
  BY ParentPath, CreateDirAllGrown
<1> HIDE DEF made
<1>2. Grown(Create(made.tree, Lstat(made.tree, p), File(d, Private)).tree)
  BY <1>1, StatIs, NodesAre, CreateGrown
<1> QED
  BY <1>2 DEF AtomicWrite, Err, made

LEMMA RunMkdirGrown ==
  ASSUME NEW t, Grown(t), NEW o, o.path \in Path
  PROVE  Grown(RunMkdir(t, o).tree)
<1> DEFINE single == IF Present(t, o.path) THEN Ok(t) ELSE Create(t, Lstat(t, o.path), Dir(DirMode))
           made == IF o.parents \/ o.path = <<>> THEN CreateDirAll(t, o.path) ELSE single
<1>1. Grown(Create(t, Lstat(t, o.path), Dir(DirMode)).tree)
  BY StatIs, NodesAre, CreateGrown
<1>2. Grown(CreateDirAll(t, o.path).tree)
  BY CreateDirAllGrown
<1>3. Grown(made.tree)
  BY <1>1, <1>2 DEF Ok
<1>4. RunMkdir(t, o) = IF ~made.ok \/ o.mode = NoMode THEN made
                       ELSE IF Exists(made.tree, o.path)
                         THEN SetMode(made.tree, o.path, ApplyMode(o.mode, ModeAt(made.tree, o.path)))
                       ELSE Err(made.tree)
  BY DEF RunMkdir
<1> HIDE DEF made
<1>5. Grown(SetMode(made.tree, o.path, ApplyMode(o.mode, ModeAt(made.tree, o.path))).tree)
  BY <1>3, SetModeGrown
<1> QED
  BY <1>3, <1>4, <1>5 DEF Err

LEMMA RunSymlinkGrown ==
  ASSUME NEW t, Grown(t), NEW o, o.path \in Path, o.to \in Path
  PROVE  Grown(RunSymlink(t, o).tree)
<1> DEFINE cut == Unlink(t, o.path)
<1>1. Grown(cut)
  BY UnlinkGrown
<1> HIDE DEF cut
<1>2. Lstat(cut, o.path) \in Path
  BY <1>1, StatIs
<1>3. IsNode(Link(o.to))
  BY NodesAre
<1>4. Grown(Create(cut, Lstat(cut, o.path), Link(o.to)).tree)
  BY <1>1, <1>2, <1>3, CreateGrown
<1> QED
  BY <1>4 DEF RunSymlink, Err, cut

LEMMA RunWriteGrown ==
  ASSUME NEW t, Grown(t), NEW o, o.path \in Path
  PROVE  Grown(RunWrite(t, o).tree)
<1> DEFINE w == AtomicWrite(t, o.path, o.data)
<1>1. Grown(w.tree)
  BY AtomicWriteGrown
<1> HIDE DEF w
<1>2. Grown(SetMode(w.tree, o.path, ApplyMode(o.mode, Base)).tree)
  BY <1>1, SetModeGrown
<1> QED
  BY <1>1, <1>2 DEF RunWrite, Err, w

LEMMA RunTemplateGrown ==
  ASSUME NEW t, Grown(t), NEW o, o.path \in Path
  PROVE  Grown(RunTemplate(t, o).tree)
<1> DEFINE w == AtomicWrite(t, o.path, o.data)
<1>1. Grown(w.tree)
  BY AtomicWriteGrown
<1> HIDE DEF w
<1>2. /\ Grown(SetMode(w.tree, o.path, ApplyMode(o.mode, Base)).tree)
      /\ Grown(SetMode(w.tree, o.path, ModeAt(w.tree, o.from)).tree)
  BY <1>1, SetModeGrown
<1> QED
  BY <1>1, <1>2 DEF RunTemplate, Err, w

LEMMA RunPatchGrown ==
  ASSUME NEW t, Grown(t), NEW o, o.path \in Path
  PROVE  Grown(RunPatch(t, o).tree) /\ Grown(RunIndex(t, o).tree)
  BY AtomicWriteGrown DEF RunPatch, RunIndex, Err

LEMMA DestPath ==
  ASSUME NEW t, NEW src \in Path \ {<<>>}, NEW to \in Path
  PROVE  Dest(t, src, to) \in Path
  BY PathFront, PathAppend DEF Dest

LEMMA CopyOneGrown ==
  ASSUME NEW t, Grown(t), NEW src \in Path, NEW to \in Path
  PROVE  Grown(CopyOne(t, src, to).tree)
<1>1. CASE src = <<>>
  BY <1>1 DEF CopyOne, Err
<1>2. CASE src # <<>>
  <2> DEFINE dest == Dest(t, src, to)
             made == CreateDirAll(t, Parent(dest))
             u == made.tree
             from == Stat(u, src)
             file == IF from = Stat(u, dest) THEN File("", u[from].mode) ELSE u[from]
  <2>1. CopyOne(t, src, to) =
          IF made.ok /\ IsFile(u, src) THEN Create(u, Stat(u, dest), file) ELSE Err(t)
    BY <1>2 DEF CopyOne
  <2>2. dest \in Path
    BY <1>2, DestPath
  <2> HIDE DEF dest
  <2>3. Grown(made.tree)
    BY <2>2, ParentPath, CreateDirAllGrown
  <2> HIDE DEF made
  <2>4. CASE made.ok /\ IsFile(u, src)
    <3>1. from \in DOMAIN u
      BY <2>4 DEF IsFile, Is
    <3>2. IsNode(u[from])
      BY <2>3, <3>1, GrownAt
    <3>3. IsNode(file)
      BY <3>2, NodesAre
    <3>4. Stat(u, dest) \in Path
      BY <2>2, <2>3, StatIs
    <3> HIDE DEF file, u
    <3>5. Grown(Create(u, Stat(u, dest), file).tree)
      BY <2>3, <3>3, <3>4, CreateGrown DEF u
    <3> QED
      BY <2>1, <2>4, <3>5
  <2>5. CASE ~(made.ok /\ IsFile(u, src))
    <3>1. CopyOne(t, src, to) = Err(t)
      <4> HIDE DEF file, u
      <4> QED
        BY <2>1, <2>5
    <3> QED
      BY <3>1 DEF Err
  <2> QED
    BY <2>4, <2>5
<1> QED
  BY <1>1, <1>2

LEMMA MoveOneGrown ==
  ASSUME NEW t, Grown(t), NEW src \in Path, NEW to \in Path
  PROVE  Grown(MoveOne(t, src, to).tree)
<1>1. CASE src = <<>>
  BY <1>1 DEF MoveOne, Err
<1>2. CASE src # <<>>
  <2> DEFINE dest == Dest(t, src, to)
             made == CreateDirAll(t, Parent(dest))
  <2>1. MoveOne(t, src, to) =
          IF made.ok THEN Rename(made.tree, Lstat(made.tree, src), Lstat(made.tree, dest)) ELSE Err(t)
    BY <1>2 DEF MoveOne
  <2>2. dest \in Path
    BY <1>2, DestPath
  <2> HIDE DEF dest
  <2>3. Grown(made.tree)
    BY <2>2, ParentPath, CreateDirAllGrown
  <2> HIDE DEF made
  <2>4. Grown(Rename(made.tree, Lstat(made.tree, src), Lstat(made.tree, dest)).tree)
    BY <2>2, <2>3, StatIs, RenameGrown
  <2> QED
    BY <2>1, <2>4 DEF Err
<1> QED
  BY <1>1, <1>2

LEMMA RunOneGrown ==
  ASSUME NEW t, Grown(t), NEW o, o.op \in {"chmod", "copy", "move", "delete"}, IsOp(o),
         NEW p \in Path
  PROVE  Grown(RunOne(t, p, o).tree)
<1>1. CASE o.op = "chmod"
  <2>1. RunOne(t, p, o) = ChmodOne(t, p, o.mode)
    BY <1>1 DEF RunOne
  <2>2. Grown(SetMode(t, p, ApplyMode(o.mode, ModeAt(t, p))).tree)
    BY SetModeGrown
  <2> QED
    BY <2>1, <2>2 DEF ChmodOne, Err
<1>2. CASE o.op \in {"copy", "move"}
  <2>1. o.to \in Path
    BY <1>2 DEF IsOp
  <2>2. RunOne(t, p, o) \in {CopyOne(t, p, o.to), MoveOne(t, p, o.to)}
    BY <1>2 DEF RunOne
  <2> QED
    BY <2>1, <2>2, CopyOneGrown, MoveOneGrown
<1>3. CASE o.op = "delete"
  <2>1. RunOne(t, p, o) = DeleteOne(t, p)
    BY <1>3 DEF RunOne
  <2> QED
    BY <2>1, UnlinkGrown DEF DeleteOne, Ok, Err
<1> QED
  BY <1>1, <1>2, <1>3

LEMMA RunEachLoop ==
  ASSUME NEW t, NEW o, NEW X, Matches(t, o.glob) \in Seq(X)
  PROVE  RunEach(t, o) = Loop("each", [found |-> Matches(t, o.glob), o |-> o], Ok(t),
                              Len(Matches(t, o.glob)))[Len(Matches(t, o.glob))]
<1> DEFINE found == Matches(t, o.glob)
           n == Len(found)
           s == [found |-> found, o |-> o]
           Yields(r) == r = [i \in 0..n |->
                           CASE i = 0 -> Ok(t)
                             [] i # 0 /\ r[i - 1].ok -> RunOne(r[i - 1].tree, found[i], o)
                             [] OTHER -> r[i - 1]]
           r == CHOOSE f : Yields(f)
<1>0. RunEach(t, o) = r[n]
  BY DEF RunEach
<1> HIDE DEF found
<1>1. n \in Nat
  BY DEF found
<1>2. \A x, i : After("each", s, x, i) = IF x.ok THEN RunOne(x.tree, found[i], o) ELSE x
  BY DEF After
<1>3. Yields(r)
  <2> DEFINE f == Loop("each", s, Ok(t), n)
  <2>1. f[0] = Ok(t) /\ f = [i \in 0..n |-> f[i]]
    BY <1>1, LoopIs
  <2>2. \A i \in 1..n : f[i] = After("each", s, f[i - 1], i)
    BY <1>1, LoopIs
  <2> HIDE DEF f, s, n
  <2>3. \A i \in 0..n : f[i] = CASE i = 0 -> Ok(t)
                                [] i # 0 /\ f[i - 1].ok -> RunOne(f[i - 1].tree, found[i], o)
                                [] OTHER -> f[i - 1]
    <3>1. \A i \in 0..n : i = 0 \/ i \in 1..n
      BY <1>1
    <3> QED
      BY <1>2, <2>1, <2>2, <3>1
  <2>4. Yields(f)
    BY <2>1, <2>3
  <2> QED
    BY <2>4
<1> HIDE DEF r, s, n
<1>4. \A i \in 0..n : r[i] = CASE i = 0 -> Ok(t)
                               [] i # 0 /\ r[i - 1].ok -> RunOne(r[i - 1].tree, found[i], o)
                               [] OTHER -> r[i - 1]
  BY <1>3
<1>5. 0 \in 0..n /\ \A i \in 1..n : i \in 0..n /\ i # 0
  BY <1>1
<1>6. r[0] = Ok(t) /\ \A i \in 1..n : r[i] = After("each", s, r[i - 1], i)
  BY <1>2, <1>4, <1>5
<1>7. r[n] = Loop("each", s, Ok(t), n)[n]
  BY <1>1, <1>6, LoopUnique
<1> QED
  BY <1>0, <1>7 DEF n, s, found

LEMMA RunEachGrown ==
  ASSUME NEW t, Grown(t), NEW o, o.op \in {"chmod", "copy", "move", "delete"}, IsOp(o)
  PROVE  Grown(RunEach(t, o).tree)
<1> DEFINE found == Matches(t, o.glob)
           n == Len(found)
           s == [found |-> found, o |-> o]
           r == Loop("each", s, Ok(t), n)
           S == {k \in 0..n : Grown(r[k].tree)}
<1>1. o.glob \subseteq Path
  BY DEF IsOp
<1>2. found \in Seq(Path)
  <2> DEFINE hit == o.glob \cap DOMAIN t
  <2>1. hit \in SUBSET Path /\ IsFiniteSet(hit)
    BY <1>1, FS_Subset DEF Grown, IsWhole
  <2>2. found = InOrder(hit)
    BY DEF Matches
  <2> HIDE DEF hit, found
  <2>3. found \in Seq(hit)
    BY <2>1, <2>2, InOrderIs
  <2> QED
    BY <2>1, <2>3, SeqMonotonic
<1>3. RunEach(t, o) = r[n]
  BY <1>2, RunEachLoop
<1> HIDE DEF found
<1>4. n \in Nat /\ \A i \in 1..n : found[i] \in Path
  BY <1>2
<1>5. r[0] = Ok(t) /\ \A i \in 1..n : r[i] = After("each", s, r[i - 1], i)
  BY <1>4, LoopIs
<1>6. \A x, i : After("each", s, x, i) = IF x.ok THEN RunOne(x.tree, found[i], o) ELSE x
  BY DEF After
<1> HIDE DEF r, s, n
<1>7. 0 \in S
  BY <1>4, <1>5 DEF Ok
<1>8. ASSUME NEW k \in 0..(n - 1), k \in S PROVE k + 1 \in S
  <2>1. k + 1 \in 1..n /\ k + 1 \in 0..n /\ k + 1 - 1 = k
    BY <1>4
  <2>2. r[k + 1] = After("each", s, r[k], k + 1)
    BY <1>5, <2>1
  <2>3. r[k + 1] = IF r[k].ok THEN RunOne(r[k].tree, found[k + 1], o) ELSE r[k]
    BY <1>6, <2>2
  <2>4. Grown(RunOne(r[k].tree, found[k + 1], o).tree)
    BY <1>4, <1>8, <2>1, RunOneGrown
  <2> QED
    BY <1>8, <2>1, <2>3, <2>4
<1>9. 0..n \subseteq S
  <2> HIDE DEF S
  <2> QED
    BY <1>4, <1>7, <1>8, Climb
<1>10. n \in S
  BY <1>4, <1>9
<1> QED
  BY <1>3, <1>10

LEMMA RunOpGrown ==
  ASSUME NEW t, Grown(t), NEW o, IsOp(o)
  PROVE  Grown(RunOp(t, o).tree)
<1>a. CASE <<>> \notin DOMAIN t
  BY <1>a DEF RunOp, Err
<1>b. CASE <<>> \in DOMAIN t
  <2>1. CASE o.op \in {"chmod", "copy", "move", "delete"}
    <3>1. RunOp(t, o) = RunEach(t, o)
      BY <1>b, <2>1 DEF RunOp
    <3> QED
      BY <2>1, <3>1, RunEachGrown
  <2>2. CASE o.op = "mkdir"
    <3>1. RunOp(t, o) = RunMkdir(t, o) /\ o.path \in Path
      BY <1>b, <2>2 DEF RunOp, IsOp
    <3> QED
      BY <3>1, RunMkdirGrown
  <2>3. CASE o.op = "symlink"
    <3>1. RunOp(t, o) = RunSymlink(t, o) /\ o.path \in Path /\ o.to \in Path
      BY <1>b, <2>3 DEF RunOp, IsOp
    <3> QED
      BY <3>1, RunSymlinkGrown
  <2>4. CASE o.op = "write"
    <3>1. RunOp(t, o) = RunWrite(t, o) /\ o.path \in Path
      BY <1>b, <2>4 DEF RunOp, IsOp
    <3> QED
      BY <3>1, RunWriteGrown
  <2>5. CASE o.op = "template"
    <3>1. RunOp(t, o) = RunTemplate(t, o) /\ o.path \in Path
      BY <1>b, <2>5 DEF RunOp, IsOp
    <3> QED
      BY <3>1, RunTemplateGrown
  <2>6. CASE o.op \in {"index", "patch"}
    <3>1. RunOp(t, o) \in {RunIndex(t, o), RunPatch(t, o)} /\ o.path \in Path
      BY <1>b, <2>6 DEF RunOp, IsOp
    <3> QED
      BY <3>1, RunPatchGrown
  <2>7. o.op \in {"chmod", "copy", "move", "delete", "mkdir", "symlink", "write", "template", "index", "patch"}
    BY DEF IsOp
  <2> QED
    BY <2>1, <2>2, <2>3, <2>4, <2>5, <2>6, <2>7
<1> QED
  BY <1>a, <1>b

-----------------------------------------------------------------------------
(***************************************************************************)
(* The entries of a layer.                                                 *)
(***************************************************************************)
Unpacking(s) == s = [ok |-> s.ok, tree |-> s.tree, cleared |-> s.cleared] /\ Grown(s.tree)

LEMMA ReplaceGrown ==
  ASSUME NEW t, Grown(t), NEW p \in Path, NEW n, IsNode(n)
  PROVE  Grown(Replace(t, p, n).tree)
<1> DEFINE made == CreateDirAll(t, Parent(p))
           cut == Unlink(made.tree, p)
<1>1. Grown(made.tree)
  BY ParentPath, CreateDirAllGrown
<1>2. Replace(t, p, n) = IF made.ok THEN Create(cut, Lstat(cut, p), n) ELSE Err(t)
  BY DEF Replace
<1> HIDE DEF made
<1>3. Grown(cut)
  BY <1>1, UnlinkGrown
<1> HIDE DEF cut
<1>4. Grown(Create(cut, Lstat(cut, p), n).tree)
  BY <1>3, StatIs, CreateGrown
<1> QED
  BY <1>2, <1>4 DEF Err

LEMMA ApplyDirectoryGrown ==
  ASSUME NEW t, Grown(t), NEW p \in Path, NEW m
  PROVE  Grown(ApplyDirectory(t, p, m).tree)
<1> DEFINE made == CreateDirAll(t, p)
<1>1. Grown(made.tree)
  BY CreateDirAllGrown
<1> HIDE DEF made
<1>2. Grown(Chmod(made.tree, p, m))
  BY <1>1, ChmodGrown
<1> QED
  BY <1>2 DEF ApplyDirectory, Ok, Err, made

LEMMA SetUnpacking ==
  ASSUME NEW s, Unpacking(s), NEW d, NEW t, Grown(t)
  PROVE  Unpacking([s EXCEPT !.ok = d, !.tree = t])
<1> DEFINE u == [s EXCEPT !.ok = d, !.tree = t]
<1>1. PICK a, b, c : s = [ok |-> a, tree |-> b, cleared |-> c]
  BY DEF Unpacking
<1>2. u \in [ok : {d}, tree : {t}, cleared : {c}]
  BY <1>1
<1> HIDE DEF u
<1>3. u = [ok |-> d, tree |-> t, cleared |-> c]
  BY <1>2
<1>4. Unpacking(u)
  BY <1>3 DEF Unpacking
<1> QED
  BY <1>4 DEF u

LEMMA StepGrown ==
  ASSUME NEW s, Unpacking(s), NEW r, Grown(r.tree)
  PROVE  Unpacking(Step(s, r))
  BY SetUnpacking DEF Step

LEMMA ClearDirOnceGrown ==
  ASSUME NEW s, Unpacking(s), NEW d \in Path, NEW opaques
  PROVE  Unpacking(ClearDirOnce(s, d, opaques))
<1>1. Grown(Emptied(s.tree, Stat(s.tree, d)))
  BY StatIs, CutGrown DEF Unpacking
<1>2. CASE d \notin opaques \ s.cleared
  BY <1>2 DEF ClearDirOnce
<1>3. CASE d \in opaques \ s.cleared
  <2> DEFINE t == IF IsDir(s.tree, d) THEN Emptied(s.tree, Stat(s.tree, d)) ELSE s.tree
  <2>1. ClearDirOnce(s, d, opaques) =
          [ok |-> s.ok /\ ~ReadDirFails(s.tree, d), tree |-> t, cleared |-> s.cleared \cup {d}]
    BY <1>3 DEF ClearDirOnce
  <2>2. Grown(t)
    BY <1>1 DEF Unpacking
  <2> HIDE DEF t
  <2> QED
    BY <2>1, <2>2 DEF Unpacking
<1> QED
  BY <1>2, <1>3

LEMMA ApplyEntryGrown ==
  ASSUME NEW s, Unpacking(s), NEW e, IsEntry(e), NEW opaques
  PROVE  Unpacking(ApplyEntry(s, e, opaques))
<1>1. e.path \in Path /\ e.to \in Path
  BY DEF IsEntry
<1>2. CASE ~s.ok \/ e.op = "unsafe"
  <2>1. ApplyEntry(s, e, opaques) = [s EXCEPT !.ok = FALSE]
    BY <1>2 DEF ApplyEntry
  <2> DEFINE u == [s EXCEPT !.ok = FALSE]
  <2>2. PICK a, b, c : s = [ok |-> a, tree |-> b, cleared |-> c]
    BY DEF Unpacking
  <2>3. u \in [ok : {u.ok}, tree : {b}, cleared : {c}]
    BY <2>2
  <2> HIDE DEF u
  <2>4. u = [ok |-> u.ok, tree |-> b, cleared |-> c]
    BY <2>3
  <2>5. Grown(b)
    BY <2>2 DEF Unpacking
  <2>6. Unpacking(u)
    BY <2>4, <2>5 DEF Unpacking
  <2> QED
    BY <2>1, <2>6 DEF u
<1>3. CASE ~(~s.ok \/ e.op = "unsafe") /\ e.op = "remove"
  <2> DEFINE t == Unlink(s.tree, e.path)
             u == [s EXCEPT !.tree = t]
  <2>1. ApplyEntry(s, e, opaques) = u
    BY <1>3 DEF ApplyEntry
  <2>2. Grown(t)
    BY <1>1, UnlinkGrown DEF Unpacking
  <2> HIDE DEF t
  <2>3. PICK a, b, c : s = [ok |-> a, tree |-> b, cleared |-> c]
    BY DEF Unpacking
  <2>4. u \in [ok : {a}, tree : {t}, cleared : {c}]
    BY <2>3
  <2> HIDE DEF u
  <2>5. u = [ok |-> a, tree |-> t, cleared |-> c]
    BY <2>4
  <2>6. Unpacking(u)
    BY <2>2, <2>5 DEF Unpacking
  <2> QED
    BY <2>1, <2>6
<1>4. CASE ~(~s.ok \/ e.op = "unsafe") /\ e.op # "remove"
  <2> DEFINE c == ClearDirOnce(s, Home(e), opaques)
  <2>1. ApplyEntry(s, e, opaques) =
          IF ~c.ok THEN c
          ELSE CASE e.op = "file" -> Step(c, Replace(c.tree, e.path, File(e.data, e.mode)))
                 [] e.op = "link" -> Step(c, Replace(c.tree, e.path, Link(e.to)))
                 [] e.op = "dir" -> Step(c, ApplyDirectory(c.tree, e.path, e.mode))
                 [] OTHER -> c
    BY <1>4 DEF ApplyEntry
  <2>2. Unpacking(c)
    <3>1. Home(e) \in Path
      BY <1>1, ParentPath DEF Home
    <3> QED
      BY <3>1, ClearDirOnceGrown
  <2> HIDE DEF c
  <2>3. Grown(c.tree)
    BY <2>2 DEF Unpacking
  <2>4. /\ Unpacking(Step(c, Replace(c.tree, e.path, File(e.data, e.mode))))
        /\ Unpacking(Step(c, Replace(c.tree, e.path, Link(e.to))))
        /\ Unpacking(Step(c, ApplyDirectory(c.tree, e.path, e.mode)))
    <3>1. IsNode(File(e.data, e.mode)) /\ IsNode(Link(e.to))
      BY <1>1, NodesAre
    <3> QED
      BY <1>1, <2>2, <2>3, <3>1, ReplaceGrown, ApplyDirectoryGrown, StepGrown
  <2>5. ApplyEntry(s, e, opaques) \in
          {c, Step(c, Replace(c.tree, e.path, File(e.data, e.mode))),
           Step(c, Replace(c.tree, e.path, Link(e.to))),
           Step(c, ApplyDirectory(c.tree, e.path, e.mode))}
    BY <2>1
  <2> QED
    BY <2>2, <2>4, <2>5
<1> QED
  BY <1>2, <1>3, <1>4

LEMMA ApplyLayerLoop ==
  ASSUME NEW t, NEW X, NEW layer \in Seq(X)
  PROVE  ApplyLayer(t, layer) =
           Loop("entries", layer, Opened(t), Len(layer))[Len(layer)]
<1> DEFINE n == Len(layer)
           b == Opened(t)
           opaques == Opaques(layer)
           Yields(r) == r = [i \in 0..n |-> IF i = 0 THEN b ELSE ApplyEntry(r[i - 1], layer[i], opaques)]
           r == CHOOSE f : Yields(f)
<1>0. ApplyLayer(t, layer) = r[n]
  BY DEF ApplyLayer
<1>1. n \in Nat
  OBVIOUS
<1>2. \A x, i : After("entries", layer, x, i) = ApplyEntry(x, layer[i], opaques)
  BY DEF After
<1> HIDE DEF opaques, b
<1>3. Yields(r)
  <2> DEFINE f == Loop("entries", layer, b, n)
  <2>1. f[0] = b /\ f = [i \in 0..n |-> f[i]]
    BY <1>1, LoopIs
  <2>2. \A i \in 1..n : f[i] = After("entries", layer, f[i - 1], i)
    BY <1>1, LoopIs
  <2> HIDE DEF f, n
  <2>3. \A i \in 0..n : f[i] = IF i = 0 THEN b ELSE ApplyEntry(f[i - 1], layer[i], opaques)
    <3>1. \A i \in 0..n : i = 0 \/ i \in 1..n
      BY <1>1
    <3> QED
      BY <1>2, <2>1, <2>2, <3>1
  <2>4. Yields(f)
    BY <2>1, <2>3
  <2> QED
    BY <2>4
<1> HIDE DEF r, n
<1>4. \A i \in 0..n : r[i] = IF i = 0 THEN b ELSE ApplyEntry(r[i - 1], layer[i], opaques)
  BY <1>3
<1>5. 0 \in 0..n /\ \A i \in 1..n : i \in 0..n /\ i # 0
  BY <1>1
<1>6. r[0] = b /\ \A i \in 1..n : r[i] = After("entries", layer, r[i - 1], i)
  BY <1>2, <1>4, <1>5
<1>7. r[n] = Loop("entries", layer, b, n)[n]
  BY <1>1, <1>6, LoopUnique
<1> QED
  BY <1>0, <1>7 DEF n, b

LEMMA RootPath == <<>> \in Path
  BY DEF Path

LEMMA ApplyLayerGrown ==
  ASSUME NEW t, Grown(t), NEW X, NEW layer \in Seq(X), \A i \in DOMAIN layer : IsEntry(layer[i])
  PROVE  Grown(ApplyLayer(t, layer).tree)
<1> DEFINE n == Len(layer)
           b == Opened(t)
           r == Loop("entries", layer, b, n)
           S == {k \in 0..n : Unpacking(r[k])}
<1>1. n \in Nat /\ \A i \in 1..n : IsEntry(layer[i])
  BY LenProperties
<1>2. ApplyLayer(t, layer) = r[n]
  BY ApplyLayerLoop
<1>3. Unpacking(b)
  BY RootPath, CreateDirAllGrown DEF Opened, Unpacking
<1> HIDE DEF b
<1>4. r[0] = b /\ \A i \in 1..n : r[i] = After("entries", layer, r[i - 1], i)
  BY <1>1, LoopIs
<1>5. \A x, i : After("entries", layer, x, i) = ApplyEntry(x, layer[i], Opaques(layer))
  BY DEF After
<1> HIDE DEF r, n
<1>6. 0 \in S
  BY <1>1, <1>3, <1>4
<1>7. ASSUME NEW k \in 0..(n - 1), k \in S PROVE k + 1 \in S
  <2>1. k + 1 \in 1..n /\ k + 1 \in 0..n /\ k + 1 - 1 = k
    BY <1>1
  <2>2. r[k + 1] = After("entries", layer, r[k], k + 1)
    BY <1>4, <2>1
  <2>3. Unpacking(ApplyEntry(r[k], layer[k + 1], Opaques(layer)))
    BY <1>1, <1>7, <2>1, ApplyEntryGrown
  <2> QED
    BY <1>5, <2>1, <2>2, <2>3
<1>8. 0..n \subseteq S
  <2> HIDE DEF S
  <2> QED
    BY <1>1, <1>6, <1>7, Climb
<1>9. n \in S
  BY <1>1, <1>8
<1> QED
  BY <1>2, <1>9 DEF Unpacking

-----------------------------------------------------------------------------
(***************************************************************************)
(* The copy of one tree over another, and what stage makes of a request.   *)
(***************************************************************************)
LEMMA CopyNodeGrown ==
  ASSUME NEW t, Grown(t), NEW p \in Path, NEW n, IsNode(n)
  PROVE  Grown(CopyNode(t, p, n).tree)
<1>1. Grown(Create(t, Lstat(t, p), Dir(DirMode)).tree)
  BY StatIs, NodesAre, CreateGrown
<1>2. Grown(Create(t, Lstat(t, p), n).tree) /\ Grown(Create(t, Stat(t, p), n).tree)
  BY StatIs, CreateGrown
<1>3. Ok(t).tree = t /\ Err(t).tree = t
  BY DEF Ok, Err
<1>4. CopyNode(t, p, n) \in {Ok(t), Err(t), Create(t, Lstat(t, p), Dir(DirMode)),
                             Create(t, Lstat(t, p), n), Create(t, Stat(t, p), n)}
  BY DEF CopyNode
<1> QED
  BY <1>1, <1>2, <1>3, <1>4

LEMMA CopyTreeLoop ==
  ASSUME NEW t, NEW src, NEW X, InOrder(DOMAIN src \ {<<>>}) \in Seq(X)
  PROVE  CopyTree(t, src) =
           Loop("copy", [paths |-> InOrder(DOMAIN src \ {<<>>}), src |-> src], Ok(t),
                Len(InOrder(DOMAIN src \ {<<>>})))[Len(InOrder(DOMAIN src \ {<<>>}))]
<1> DEFINE paths == InOrder(DOMAIN src \ {<<>>})
           n == Len(paths)
           s == [paths |-> paths, src |-> src]
           Yields(r) == r = [i \in 0..n |->
                           CASE i = 0 -> Ok(t)
                             [] i # 0 /\ r[i - 1].ok -> CopyNode(r[i - 1].tree, paths[i], src[paths[i]])
                             [] OTHER -> r[i - 1]]
           r == CHOOSE f : Yields(f)
<1>0. CopyTree(t, src) = r[n]
  BY DEF CopyTree
<1> HIDE DEF paths
<1>1. n \in Nat
  BY DEF paths
<1>2. \A x, i : After("copy", s, x, i) =
        IF x.ok THEN CopyNode(x.tree, paths[i], src[paths[i]]) ELSE x
  BY DEF After
<1>3. Yields(r)
  <2> HIDE DEF s, n
  <2> DEFINE f == Loop("copy", s, Ok(t), n)
  <2>1. f[0] = Ok(t) /\ f = [i \in 0..n |-> f[i]]
    BY <1>1, LoopIs
  <2>2. \A i \in 1..n : f[i] = After("copy", s, f[i - 1], i)
    BY <1>1, LoopIs
  <2> HIDE DEF f
  <2>3. \A i \in 0..n : f[i] = CASE i = 0 -> Ok(t)
                                [] i # 0 /\ f[i - 1].ok -> CopyNode(f[i - 1].tree, paths[i], src[paths[i]])
                                [] OTHER -> f[i - 1]
    <3>1. \A i \in 0..n : i = 0 \/ i \in 1..n
      BY <1>1
    <3> QED
      BY <1>2, <2>1, <2>2, <3>1
  <2>4. Yields(f)
    BY <2>1, <2>3
  <2> QED
    BY <2>4
<1> HIDE DEF r, s, n
<1>4. \A i \in 0..n : r[i] = CASE i = 0 -> Ok(t)
                               [] i # 0 /\ r[i - 1].ok -> CopyNode(r[i - 1].tree, paths[i], src[paths[i]])
                               [] OTHER -> r[i - 1]
  BY <1>3
<1>5. 0 \in 0..n /\ \A i \in 1..n : i \in 0..n /\ i # 0
  BY <1>1
<1>6. r[0] = Ok(t) /\ \A i \in 1..n : r[i] = After("copy", s, r[i - 1], i)
  BY <1>2, <1>4, <1>5
<1>7. r[n] = Loop("copy", s, Ok(t), n)[n]
  BY <1>1, <1>6, LoopUnique
<1> QED
  BY <1>0, <1>7 DEF n, s, paths

\* The places that a copy goes over.
LEMMA PlacesAre ==
  ASSUME NEW t, Grown(t)
  PROVE  /\ DOMAIN t \ {<<>>} \in SUBSET Path /\ IsFiniteSet(DOMAIN t \ {<<>>})
         /\ InOrder(DOMAIN t \ {<<>>}) \in Seq(DOMAIN t \ {<<>>})
<1>1. DOMAIN t \ {<<>>} \in SUBSET Path /\ IsFiniteSet(DOMAIN t \ {<<>>})
  BY FS_Subset DEF Grown, IsWhole
<1> QED
  BY <1>1, InOrderIs

LEMMA CopyTreeGrown ==
  ASSUME NEW t, Grown(t), NEW src, Grown(src)
  PROVE  Grown(CopyTree(t, src).tree)
<1> DEFINE paths == InOrder(DOMAIN src \ {<<>>})
           n == Len(paths)
           s == [paths |-> paths, src |-> src]
           r == Loop("copy", s, Ok(t), n)
           S == {k \in 0..n : Grown(r[k].tree)}
<1>1. paths \in Seq(DOMAIN src \ {<<>>})
  BY PlacesAre
<1>2. CopyTree(t, src) = r[n]
  BY <1>1, CopyTreeLoop
<1> HIDE DEF paths
<1>3. n \in Nat /\ \A i \in 1..n : paths[i] \in Path /\ IsNode(src[paths[i]])
  BY <1>1, GrownAt
<1>4. r[0] = Ok(t) /\ \A i \in 1..n : r[i] = After("copy", s, r[i - 1], i)
  BY <1>3, LoopIs
<1>5. \A x, i : After("copy", s, x, i) =
        IF x.ok THEN CopyNode(x.tree, paths[i], src[paths[i]]) ELSE x
  BY DEF After
<1> HIDE DEF r, s, n
<1>6. 0 \in S
  BY <1>3, <1>4 DEF Ok
<1>7. ASSUME NEW k \in 0..(n - 1), k \in S PROVE k + 1 \in S
  <2>1. k + 1 \in 1..n /\ k + 1 \in 0..n /\ k + 1 - 1 = k
    BY <1>3
  <2>2. r[k + 1] = After("copy", s, r[k], k + 1)
    BY <1>4, <2>1
  <2>3. r[k + 1] = IF r[k].ok THEN CopyNode(r[k].tree, paths[k + 1], src[paths[k + 1]]) ELSE r[k]
    BY <1>5, <2>2
  <2>4. Grown(CopyNode(r[k].tree, paths[k + 1], src[paths[k + 1]]).tree)
    BY <1>3, <1>7, <2>1, CopyNodeGrown
  <2> QED
    BY <1>7, <2>1, <2>3, <2>4
<1>8. 0..n \subseteq S
  <2> HIDE DEF S
  <2> QED
    BY <1>3, <1>6, <1>7, Climb
<1>9. n \in S
  BY <1>3, <1>8
<1> QED
  BY <1>2, <1>9

LEMMA RootsGrown == Grown(EmptyTree) /\ Grown(StagingRoot)
<1>1. ASSUME NEW m, NEW t, t = [q \in {<<>>} |-> Dir(m)] PROVE Grown(t)
  <2>1. DOMAIN t = {<<>>} /\ t[<<>>] = Dir(m)
    BY <1>1
  <2>2. t = [q \in DOMAIN t |-> t[q]]
    BY <1>1
  <2>3. IsFiniteSet(DOMAIN t) /\ DOMAIN t \subseteq Path
    <3>1. <<>> \in Path
      BY DEF Path
    <3> QED
      BY <2>1, <3>1, FS_Singleton
  <2>4. IsNode(t[<<>>]) /\ t[<<>>].kind = "dir"
    BY <2>1, NodesAre
  <2> QED
    BY <2>1, <2>2, <2>3, <2>4 DEF Grown, IsWhole
<1> QED
  BY <1>1 DEF EmptyTree, StagingRoot

LEMMA MergeGrown ==
  ASSUME NEW base, Grown(base), NEW user, Grown(user)
  PROVE  Grown(Merge(base, user).tree)
<1>1. Grown(CopyTree(EmptyTree, base).tree)
  BY RootsGrown, CopyTreeGrown
<1>2. Grown(CopyTree(CopyTree(EmptyTree, base).tree, user).tree)
  BY <1>1, CopyTreeGrown
<1> QED
  BY <1>1, <1>2 DEF Merge

LEMMA MaskedWhole ==
  ASSUME NEW t, IsWhole(t), NEW m
  PROVE  IsWhole(Masked(t, m))
<1> DEFINE u == Masked(t, m)
<1>1. DOMAIN u = DOMAIN t
  BY DEF Masked
<1>2. ASSUME NEW q \in DOMAIN t PROVE u[q].kind = t[q].kind
  BY DEF Masked, Node
<1> HIDE DEF u
<1>3. IsWhole(u)
  BY <1>1, <1>2 DEF IsWhole
<1> QED
  BY <1>3 DEF u

LEMMA LayerGrown ==
  ASSUME NEW t, Grown(t), NEW l \in DOMAIN LayerOf
  PROVE  Grown(ApplyLayer(t, LayerOf[l]).tree)
<1>1. /\ LayerOf[l] \in Seq(ToSet(LayerOf[l]))
      /\ \A i \in DOMAIN LayerOf[l] : IsEntry(LayerOf[l][i])
  BY StackAssumption DEF IsSequence
<1> QED
  BY <1>1, ApplyLayerGrown

LEMMA LayeredGrown ==
  ASSUME NEW t, Grown(t), NEW s \in Seq(DOMAIN LayerOf)
  PROVE  Grown(Layered(t, s).tree)
<1> DEFINE n == Len(s)
           r == Loop("layers", s, Ok(t), n)
           S == {k \in 0..n : Grown(r[k].tree)}
<1>1. n \in Nat /\ \A i \in 1..n : s[i] \in DOMAIN LayerOf
  OBVIOUS
<1>2. Layered(t, s) = r[n]
  BY LayeredLoop
<1>3. r[0] = Ok(t) /\ \A i \in 1..n : r[i] = After("layers", s, r[i - 1], i)
  BY <1>1, LoopIs
<1>4. \A x, i : After("layers", s, x, i) = IF x.ok THEN ApplyLayer(x.tree, LayerOf[s[i]]) ELSE x
  BY DEF After
<1> HIDE DEF r, n
<1>5. 0 \in S
  BY <1>1, <1>3 DEF Ok
<1>6. ASSUME NEW k \in 0..(n - 1), k \in S PROVE k + 1 \in S
  <2>1. k + 1 \in 1..n /\ k + 1 \in 0..n /\ k + 1 - 1 = k
    BY <1>1
  <2>2. r[k + 1] = After("layers", s, r[k], k + 1)
    BY <1>3, <2>1
  <2>3. r[k + 1] = IF r[k].ok THEN ApplyLayer(r[k].tree, LayerOf[s[k + 1]]) ELSE r[k]
    BY <1>4, <2>2
  <2>4. Grown(ApplyLayer(r[k].tree, LayerOf[s[k + 1]]).tree)
    BY <1>1, <1>6, <2>1, LayerGrown
  <2> QED
    BY <1>6, <2>1, <2>3, <2>4
<1>7. 0..n \subseteq S
  <2> HIDE DEF S
  <2> QED
    BY <1>1, <1>5, <1>6, Climb
<1>8. n \in S
  BY <1>1, <1>7
<1> QED
  BY <1>2, <1>8

LEMMA HookedGrown ==
  ASSUME NEW t, Grown(t), NEW X, NEW s \in Seq(X), \A i \in DOMAIN s : IsOp(s[i])
  PROVE  Grown(Hooked(t, s).tree)
<1> DEFINE n == Len(s)
           r == Loop("hook", s, Ok(t), n)
           S == {k \in 0..n : Grown(r[k].tree)}
<1>1. n \in Nat /\ \A i \in 1..n : IsOp(s[i])
  BY LenProperties
<1>2. Hooked(t, s) = r[n]
  BY HookedLoop
<1>3. r[0] = Ok(t) /\ \A i \in 1..n : r[i] = After("hook", s, r[i - 1], i)
  BY <1>1, LoopIs
<1>4. \A x, i : After("hook", s, x, i) = IF x.ok THEN RunOp(x.tree, s[i]) ELSE x
  BY DEF After
<1> HIDE DEF r, n
<1>5. 0 \in S
  BY <1>1, <1>3 DEF Ok
<1>6. ASSUME NEW k \in 0..(n - 1), k \in S PROVE k + 1 \in S
  <2>1. k + 1 \in 1..n /\ k + 1 \in 0..n /\ k + 1 - 1 = k
    BY <1>1
  <2>2. r[k + 1] = After("hook", s, r[k], k + 1)
    BY <1>3, <2>1
  <2>3. r[k + 1] = IF r[k].ok THEN RunOp(r[k].tree, s[k + 1]) ELSE r[k]
    BY <1>4, <2>2
  <2>4. Grown(RunOp(r[k].tree, s[k + 1]).tree)
    BY <1>1, <1>6, <2>1, RunOpGrown
  <2> QED
    BY <1>6, <2>1, <2>3, <2>4
<1>7. 0..n \subseteq S
  <2> HIDE DEF S
  <2> QED
    BY <1>1, <1>5, <1>6, Climb
<1>8. n \in S
  BY <1>1, <1>7
<1> QED
  BY <1>2, <1>8

\* The layers and the hook of a request, as the assumption has them.
LEMMA ManifestsAre ==
  ASSUME NEW m, AreManifests(m)
  PROVE  /\ Flatten(m) \in Seq(DOMAIN LayerOf)
         /\ \A r : /\ HookRun(r, m) \in Seq(ToSet(HookRun(r, m)))
                   /\ \A i \in DOMAIN HookRun(r, m) : IsOp(HookRun(r, m)[i])
<1>1. m \in Seq(ToSet(m)) /\ \A i \in DOMAIN m : IsManifest(m[i])
  BY DEF AreManifests, IsSequence
<1>2. Flatten(m) \in Seq(DOMAIN LayerOf)
  BY <1>1, FlattenIs DEF IsManifest
<1>4. \A h : h = <<>> => h \in Seq(ToSet(h)) /\ DOMAIN h = {}
  OBVIOUS
<1>3. ASSUME NEW r
      PROVE  /\ HookRun(r, m) \in Seq(ToSet(HookRun(r, m)))
             /\ \A i \in DOMAIN HookRun(r, m) : IsOp(HookRun(r, m)[i])
  <2>1. CASE m # <<>>
    <3>1. 1 \in DOMAIN m
      BY <1>1, <2>1
    <3>2. IsSequence(m[1].hook) /\ \A i \in DOMAIN m[1].hook : IsOp(m[1].hook[i])
      BY <1>1, <3>1 DEF IsManifest
    <3>3. HookRun(r, m) = m[1].hook \/ HookRun(r, m) = <<>>
      BY DEF HookRun
    <3> QED
      BY <1>4, <3>2, <3>3 DEF IsSequence
  <2>2. CASE m = <<>>
    <3>1. HookRun(r, m) = <<>>
      BY <2>2 DEF HookRun
    <3> QED
      BY <1>4, <3>1
  <2> QED
    BY <2>1, <2>2
<1> QED
  BY <1>2, <1>3

LEMMA StagedGrown ==
  ASSUME NEW r, NEW m, AreManifests(m)
  PROVE  Grown(Staged(r, m).tree)
<1>1. Grown(Layered(StagingRoot, Flatten(m)).tree)
  BY RootsGrown, ManifestsAre, LayeredGrown
<1>2. Grown(Hooked(Layered(StagingRoot, Flatten(m)).tree, HookRun(r, m)).tree)
  <2> DEFINE h == HookRun(r, m)
             t == Layered(StagingRoot, Flatten(m)).tree
  <2>1. h \in Seq(ToSet(h)) /\ \A i \in DOMAIN h : IsOp(h[i])
    BY ManifestsAre
  <2>2. Grown(t)
    BY <1>1
  <2> HIDE DEF h, t
  <2>3. Grown(Hooked(t, h).tree)
    BY <2>1, <2>2, HookedGrown
  <2> QED
    BY <2>3 DEF h, t
<1> QED
  BY <1>1, <1>2 DEF Staged

-----------------------------------------------------------------------------
(***************************************************************************)
(* Where a path leads, when links are few.                                 *)
(***************************************************************************)
\* What holds of the root, and of a prefix if it holds of the one before,
\* holds of the path.
LEMMA PathClimb ==
  ASSUME NEW p \in Path, NEW S, <<>> \in S,
         \A q \in Path : q # <<>> /\ IsPrefix(q, p) /\ Front(q) \in S => q \in S
  PROVE  p \in S
<1> DEFINE n == Len(p)
           T == {k \in 0..n : SubSeq(p, 1, k) \in S}
<1>1. n \in Nat
  BY DEF Path
<1>2. 0 \in T
  <2>1. SubSeq(p, 1, 0) \in Path /\ Len(SubSeq(p, 1, 0)) = 0
    BY <1>1, PathTake
  <2>2. SubSeq(p, 1, 0) = <<>>
    BY <2>1, EmptySeq DEF Path
  <2>3. 0 \in 0..n
    BY <1>1
  <2> QED
    BY <2>2, <2>3
<1>3. ASSUME NEW k \in 0..(n - 1), k \in T PROVE k + 1 \in T
  <2> DEFINE q == SubSeq(p, 1, k + 1)
             o == SubSeq(p, 1, k)
  <2>1. k \in Nat /\ k + 1 \in Nat /\ k <= n /\ k + 1 <= n /\ k + 1 \in 0..n
    BY <1>1
  <2>2. /\ q \in Path /\ Len(q) = k + 1 /\ \A i \in 1..(k + 1) : q[i] = p[i]
        /\ o \in Path /\ Len(o) = k /\ \A i \in 1..k : o[i] = p[i]
    BY <2>1, PathTake
  <2>3. o \in S
    BY <1>3
  <2> HIDE DEF q, o
  <2>4. q # <<>> /\ IsPrefix(q, p)
    <3>1. q # <<>>
      <4>1. Len(<<>>) = 0
        OBVIOUS
      <4> QED
        BY <2>1, <2>2, <4>1
    <3> QED
      BY <2>1, <2>2, <3>1, PrefixIs
  <2>5. Front(q) \in Path /\ Len(Front(q)) = k /\ \A i \in 1..k : Front(q)[i] = q[i]
    <3>1. /\ Front(q) \in Path /\ Len(Front(q)) = Len(q) - 1
          /\ \A i \in 1..(Len(q) - 1) : Front(q)[i] = q[i]
      BY <2>2, <2>4, PathFront
    <3>2. Len(q) - 1 = k
      BY <2>1, <2>2
    <3> QED
      BY <3>1, <3>2
  <2>6. Front(q) = o
    <3>1. \A i \in 1..k : i \in 1..(k + 1)
      BY <2>1
    <3>2. \A i \in 1..k : Front(q)[i] = o[i]
      BY <2>2, <2>5, <3>1
    <3> QED
      BY <2>2, <2>5, <3>2, SeqEqual DEF Path
  <2>7. q \in S
    BY <2>2, <2>3, <2>4, <2>6
  <2> QED
    BY <2>1, <2>7 DEF q
<1>4. 0..n \subseteq T
  <2> HIDE DEF T
  <2> QED
    BY <1>1, <1>2, <1>3, Climb
<1>5. n \in T
  BY <1>1, <1>4
<1>6. SubSeq(p, 1, n) = p
  BY SubSeqFull DEF Path
<1> QED
  BY <1>5, <1>6

LEMMA FrontPrefix ==
  ASSUME NEW p \in Path, p # <<>>
  PROVE  /\ Front(p) \in Path /\ IsPrefix(Front(p), p)
         /\ \A q \in Path : IsPrefix(p, q) => IsPrefix(Front(p), q)
<1>1. Front(p) \in Path /\ IsPrefix(Front(p), p)
  BY PathFront, PrefixFront, PrefixSelf
<1> QED
  BY <1>1, PrefixTrans

LEMMA LstatSame ==
  ASSUME NEW t, Grown(t), NEW p \in Path, p # <<>>, Stat(t, Front(p)) = Front(p)
  PROVE  Lstat(t, p) = p
<1>1. Lstat(t, p) = Append(Stat(t, Front(p)), Last(p))
  BY StatIs
<1>2. p = Append(Front(p), Last(p))
  BY PathFront
<1> QED
  BY <1>1, <1>2, Zenon

\* A path without a link on it leads to the place of its names.
LEMMA StatStraight ==
  ASSUME NEW t, Grown(t), NEW p \in Path,
         \A q \in Path : IsPrefix(q, p) /\ q \in DOMAIN t => t[q].kind # "link"
  PROVE  Stat(t, p) = p
<1> DEFINE S == {q \in Path : Stat(t, q) = q}
<1>1. <<>> \in S
  BY StatRoot DEF Path
<1>2. ASSUME NEW q \in Path, q # <<>>, IsPrefix(q, p), Front(q) \in S PROVE q \in S
  <2>1. Stat(t, Front(q)) = Front(q)
    BY <1>2
  <2>2. Lstat(t, q) = q
    BY <1>2, <2>1, LstatSame
  <2>3. Stat(t, q) = Follow(t, q)
    BY <1>2, <2>2, StatIs
  <2> QED
    BY <1>2, <2>3 DEF Follow
<1> HIDE DEF S
<1>3. p \in S
  BY <1>1, <1>2, PathClimb
<1> QED
  BY <1>3 DEF S

\* A link of the path itself is not followed by Lstat.
LEMMA LstatStraight ==
  ASSUME NEW t, Grown(t), NEW p \in Path, p # <<>>,
         \A q \in Path : IsPrefix(q, Front(p)) /\ q \in DOMAIN t => t[q].kind # "link"
  PROVE  Lstat(t, p) = p
<1>1. Stat(t, Front(p)) = Front(p)
  BY FrontPrefix, StatStraight
<1> QED
  BY <1>1, LstatSame

\* A place to which, and above which, no link leads is reached by its own
\* names only.
LEMMA StatAlone ==
  ASSUME NEW t, Grown(t), NEW q \in Path, ~LeadsAbove(t, q), NEW p \in Path,
         IsPrefix(Stat(t, p), q)
  PROVE  Stat(t, p) = p
<1> DEFINE S == {r \in Path : IsPrefix(Stat(t, r), q) => Stat(t, r) = r}
<1>1. <<>> \in S
  BY StatRoot DEF Path
<1>2. ASSUME NEW r \in Path, r # <<>>, Front(r) \in S, IsPrefix(Stat(t, r), q) PROVE Stat(t, r) = r
  <2>1. Stat(t, r) = Follow(t, Lstat(t, r)) /\ Lstat(t, r) \in Path /\ Lstat(t, r) # <<>>
    BY <1>2, StatIs
  <2>2. Stat(t, r) = Lstat(t, r)
    BY <1>2, <2>1 DEF Follow, LeadsAbove
  <2>3. IsPrefix(Stat(t, Front(r)), q)
    BY <1>2, <2>1, <2>2, StatIs, FrontPrefix
  <2>4. Stat(t, Front(r)) = Front(r)
    BY <1>2, <2>3
  <2> QED
    BY <1>2, <2>2, <2>4, LstatSame
<1>3. \A r \in Path : r # <<>> /\ IsPrefix(r, p) /\ Front(r) \in S => r \in S
  BY <1>2
<1> HIDE DEF S
<1>4. p \in S
  BY <1>1, <1>3, PathClimb
<1> QED
  BY <1>4 DEF S

LEMMA LstatAlone ==
  ASSUME NEW t, Grown(t), NEW q \in Path, ~LeadsAbove(t, q), NEW p \in Path,
         IsPrefix(Lstat(t, p), q)
  PROVE  Lstat(t, p) = p
<1>1. CASE p = <<>>
  BY <1>1, StatIs
<1>2. CASE p # <<>>
  <2>1. /\ Front(p) \in Path /\ Lstat(t, p) \in Path /\ Lstat(t, p) # <<>>
        /\ Front(Lstat(t, p)) = Stat(t, Front(p))
    BY <1>2, StatIs
  <2>2. IsPrefix(Stat(t, Front(p)), q)
    BY <2>1, FrontPrefix
  <2>3. Stat(t, Front(p)) = Front(p)
    BY <2>1, <2>2, StatAlone
  <2> QED
    BY <1>2, <2>3, LstatSame
<1> QED
  BY <1>1, <1>2

-----------------------------------------------------------------------------
(***************************************************************************)
(* What a copy over a tree keeps.                                          *)
(***************************************************************************)
LEMMA CreateIs ==
  ASSUME NEW t, NEW q, NEW n
  PROVE  /\ Create(t, q, n).ok =>
              /\ DOMAIN Create(t, q, n).tree = DOMAIN t \cup {q}
              /\ Create(t, q, n).tree[q] = n
              /\ \A r \in DOMAIN t : r # q => Create(t, q, n).tree[r] = t[r]
              /\ Parent(q) \in DOMAIN t /\ t[Parent(q)].kind = "dir"
         /\ ~Create(t, q, n).ok => Create(t, q, n).tree = t
<1>1. \/ /\ Create(t, q, n) = Ok(Set(t, q, n))
         /\ Parent(q) \in DOMAIN t /\ t[Parent(q)].kind = "dir"
      \/ Create(t, q, n) = Err(t)
  BY DEF Create
<1> DEFINE u == Set(t, q, n)
<1>2. u = [r \in DOMAIN t \cup {q} |-> IF r = q THEN n ELSE t[r]]
  BY DEF Set
<1> HIDE DEF u
<1>3. DOMAIN u = DOMAIN t \cup {q} /\ u[q] = n /\ \A r \in DOMAIN t : r # q => u[r] = t[r]
  BY <1>2
<1> QED
  BY <1>1, <1>3 DEF Ok, Err, u

\* At and above q, u has what t has.
SameAbove(t, u, q) ==
  \A r \in Path : IsPrefix(r, q) =>
    /\ r \in DOMAIN t <=> r \in DOMAIN u
    /\ r \in DOMAIN t => u[r] = t[r]

\* A copied node is put at a place that the path leads to.
CopyPlaces(t, p) == {Lstat(t, p), Stat(t, p)}

LEMMA CopyNodeIs ==
  ASSUME NEW t, NEW p, NEW n
  PROVE  /\ \/ CopyNode(t, p, n).tree = t
            \/ \E s \in CopyPlaces(t, p), m \in {n, Dir(DirMode)} :
                 CopyNode(t, p, n) = Create(t, s, m) /\ Create(t, s, m).ok
         /\ n.kind # "dir" /\ CopyNode(t, p, n).ok =>
              \E s \in CopyPlaces(t, p) :
                CopyNode(t, p, n) = Create(t, s, n) /\ Create(t, s, n).ok
<1>1. \A s, m : ~Create(t, s, m).ok => Create(t, s, m).tree = t
  BY CreateIs
<1>2. Ok(t).tree = t /\ Err(t).tree = t
  BY DEF Ok, Err
<1>3. CASE n.kind = "dir"
  <2>1. \/ CopyNode(t, p, n) \in {Ok(t), Err(t)}
        \/ CopyNode(t, p, n) = Create(t, Lstat(t, p), Dir(DirMode))
    BY <1>3 DEF CopyNode
  <2> QED
    BY <1>1, <1>2, <1>3, <2>1 DEF CopyPlaces
<1>4. CASE n.kind # "dir"
  <2>1. \E s \in CopyPlaces(t, p) : CopyNode(t, p, n) = Create(t, s, n)
    BY <1>4 DEF CopyNode, CopyPlaces
  <2> QED
    BY <1>1, <2>1
<1> QED
  BY <1>3, <1>4

LEMMA CopyPlacesAlone ==
  ASSUME NEW t, Grown(t), NEW q \in Path, ~LeadsAbove(t, q), NEW p \in Path,
         NEW s \in CopyPlaces(t, p), IsPrefix(s, q)
  PROVE  s = p
  BY StatAlone, LstatAlone DEF CopyPlaces

LEMMA CopyNodeAway ==
  ASSUME NEW t, Grown(t), NEW q \in Path, ~LeadsAbove(t, q), NEW p \in Path, ~IsPrefix(p, q),
         NEW n
  PROVE  SameAbove(t, CopyNode(t, p, n).tree, q)
<1>1. CASE CopyNode(t, p, n).tree = t
  BY <1>1 DEF SameAbove
<1>2. CASE \E s \in CopyPlaces(t, p), m \in {n, Dir(DirMode)} :
             CopyNode(t, p, n) = Create(t, s, m) /\ Create(t, s, m).ok
  <2>1. PICK s \in CopyPlaces(t, p), m \in {n, Dir(DirMode)} :
               CopyNode(t, p, n) = Create(t, s, m) /\ Create(t, s, m).ok
    BY <1>2
  <2>2. ~IsPrefix(s, q)
    BY CopyPlacesAlone
  <2> DEFINE u == Create(t, s, m).tree
  <2>3. DOMAIN u = DOMAIN t \cup {s} /\ \A r \in DOMAIN t : r # s => u[r] = t[r]
    BY <2>1, CreateIs
  <2> HIDE DEF u
  <2>4. SameAbove(t, u, q)
    BY <2>2, <2>3 DEF SameAbove
  <2> QED
    BY <2>1, <2>4 DEF u
<1> QED
  BY <1>1, <1>2, CopyNodeIs

\* No new link leads above q if none of what is copied does.
LEMMA CopyNodeLeads ==
  ASSUME NEW t, Grown(t), NEW q, ~LeadsAbove(t, q), NEW p, NEW n,
         n.kind = "link" => ~IsPrefix(n.to, q)
  PROVE  ~LeadsAbove(CopyNode(t, p, n).tree, q)
<1>1. CASE CopyNode(t, p, n).tree = t
  BY <1>1
<1>2. CASE \E s \in CopyPlaces(t, p), m \in {n, Dir(DirMode)} :
             CopyNode(t, p, n) = Create(t, s, m) /\ Create(t, s, m).ok
  <2>1. PICK s \in CopyPlaces(t, p), m \in {n, Dir(DirMode)} :
               CopyNode(t, p, n) = Create(t, s, m) /\ Create(t, s, m).ok
    BY <1>2
  <2>2. m.kind = "link" => ~IsPrefix(m.to, q)
    <3>1. Dir(DirMode).kind # "link"
      BY NodesAre
    <3> QED
      BY <3>1
  <2> DEFINE u == Create(t, s, m).tree
  <2>3. DOMAIN u = DOMAIN t \cup {s} /\ u[s] = m /\ \A r \in DOMAIN t : r # s => u[r] = t[r]
    BY <2>1, CreateIs
  <2> HIDE DEF u
  <2>4. ~LeadsAbove(u, q)
    BY <2>2, <2>3 DEF LeadsAbove
  <2> QED
    BY <2>1, <2>4 DEF u
<1> QED
  BY <1>1, <1>2, CopyNodeIs

\* q is as n, or a link is on the path to it.
Arrived(t, q, n) ==
  \/ q \in DOMAIN t /\ t[q] = n
  \/ \E r \in Path : IsPrefix(r, q) /\ r \in DOMAIN t /\ t[r].kind = "link"

LEMMA CopyNodeArrives ==
  ASSUME NEW t, Grown(t), NEW q \in Path, ~LeadsAbove(t, q), NEW n, n.kind # "dir",
         CopyNode(t, q, n).ok
  PROVE  Arrived(CopyNode(t, q, n).tree, q, n)
<1>1. PICK s \in CopyPlaces(t, q) : CopyNode(t, q, n) = Create(t, s, n) /\ Create(t, s, n).ok
  BY CopyNodeIs
<1> DEFINE u == Create(t, s, n).tree
<1>2. DOMAIN u = DOMAIN t \cup {s} /\ u[s] = n /\ \A r \in DOMAIN t : r # s => u[r] = t[r]
  BY <1>1, CreateIs
<1> HIDE DEF u
<1>3. CASE s = q
  BY <1>1, <1>2, <1>3 DEF Arrived, u
<1>4. CASE s # q
  <2>1. ~IsPrefix(s, q)
    BY <1>4, CopyPlacesAlone
  <2>2. PICK r \in Path : IsPrefix(r, q) /\ r \in DOMAIN t /\ t[r].kind = "link"
    <3>1. Stat(t, q) # q \/ Lstat(t, q) # q
      BY <1>4 DEF CopyPlaces
    <3>2. CASE Stat(t, q) # q
      BY <3>2, StatStraight
    <3>3. CASE Lstat(t, q) # q
      <4>1. q # <<>>
        BY <3>3, StatIs
      <4>2. PICK r \in Path : IsPrefix(r, Front(q)) /\ r \in DOMAIN t /\ t[r].kind = "link"
        BY <3>3, <4>1, LstatStraight
      <4> QED
        BY <4>1, <4>2, PrefixFront
    <3> QED
      BY <3>1, <3>2, <3>3
  <2>3. r \in DOMAIN u /\ u[r].kind = "link"
    BY <1>2, <2>1, <2>2
  <2> QED
    BY <1>1, <2>2, <2>3 DEF Arrived, u
<1> QED
  BY <1>3, <1>4

LEMMA ArrivedStays ==
  ASSUME NEW t, NEW u, NEW q \in Path, NEW n, SameAbove(t, u, q), Arrived(t, q, n)
  PROVE  Arrived(u, q, n)
<1>1. IsPrefix(q, q)
  BY PrefixSelf
<1> QED
  BY <1>1 DEF SameAbove, Arrived

\* A walk is at a directory before it is at what is in it.
LEMMA LexPrefix ==
  ASSUME NEW p \in Path, NEW q \in Path, Lexically(q, p), IsPrefix(p, q)
  PROVE  p = q
<1>1. Len(p) \in Nat /\ Len(q) \in Nat /\ \A i \in 1..Len(p) : p[i] \in Nat
  BY DEF Path
<1>2. Len(p) <= Len(q) /\ \A i \in 1..Len(p) : p[i] = q[i]
  BY PrefixIs
<1>3. CASE IsPrefix(q, p)
  <2>1. Len(q) <= Len(p)
    BY <1>3, PrefixIs
  <2> QED
    BY <2>1, PrefixSame
<1>4. CASE \E i \in Nat \ {0} : LexAt(q, p, i)
  <2>1. PICK i \in Nat \ {0} : i <= Len(p) /\ q[i] < p[i]
    BY <1>4 DEF LexAt
  <2>2. i \in 1..Len(p)
    BY <1>1, <2>1
  <2>3. p[i] = q[i] /\ p[i] \in Nat
    BY <1>1, <1>2, <2>2
  <2> QED
    BY <2>1, <2>3
<1> QED
  BY <1>3, <1>4, LexicallyIs

\* The steps of a copy, one for each place of what is copied.
CopyPaths(src) == InOrder(DOMAIN src \ {<<>>})
CopySteps(t, src) ==
  Loop("copy", [paths |-> CopyPaths(src), src |-> src], Ok(t), Len(CopyPaths(src)))

LEMMA CopyStepsAre ==
  ASSUME NEW t, NEW src, Grown(src)
  PROVE  LET paths == CopyPaths(src)
             r == CopySteps(t, src)
             n == Len(CopyPaths(src))
         IN /\ n \in Nat /\ r[0] = Ok(t) /\ CopyTree(t, src) = r[n]
            /\ \A i \in 1..n : paths[i] \in DOMAIN src \ {<<>>} /\ paths[i] \in Path
            /\ \A k \in 0..(n - 1) :
                 /\ k + 1 \in 0..n /\ k + 1 \in 1..n
                 /\ r[k + 1] = IF r[k].ok THEN CopyNode(r[k].tree, paths[k + 1], src[paths[k + 1]])
                               ELSE r[k]
            /\ \A p \in DOMAIN src \ {<<>>} : \E i \in 1..n : paths[i] = p
            /\ \A i, j \in 1..n : i < j => paths[i] # paths[j] /\ Lexically(paths[i], paths[j])
<1> DEFINE paths == CopyPaths(src)
           r == CopySteps(t, src)
           n == Len(paths)
           s == [paths |-> paths, src |-> src]
           D == DOMAIN src \ {<<>>}
<1>1. paths \in Seq(D) /\ D \in SUBSET Path /\ IsFiniteSet(D)
  BY PlacesAre DEF CopyPaths
<1>2. CopyTree(t, src) = r[n]
  BY <1>1, CopyTreeLoop DEF CopySteps, CopyPaths
<1>3. r = Loop("copy", s, Ok(t), n)
  BY DEF CopySteps
<1>4. paths = InOrder(D)
  BY DEF CopyPaths
<1>5. \A x, i : After("copy", s, x, i) =
        IF x.ok THEN CopyNode(x.tree, paths[i], src[paths[i]]) ELSE x
  BY DEF After
<1> HIDE DEF paths, r, s
<1>6. n \in Nat /\ \A i \in 1..n : paths[i] \in D /\ paths[i] \in Path
  BY <1>1
<1>7. /\ \A p \in D : \E i \in 1..n : paths[i] = p
      /\ \A i, j \in 1..n : i < j => paths[i] # paths[j] /\ Lexically(paths[i], paths[j])
  <2> HIDE DEF D, n
  <2>1. /\ Len(InOrder(D)) = Cardinality(D)
        /\ \A p \in D : \E i \in 1..Cardinality(D) : InOrder(D)[i] = p
        /\ \A i, j \in 1..Cardinality(D) : i < j =>
              /\ InOrder(D)[i] # InOrder(D)[j]
              /\ Lexically(InOrder(D)[i], InOrder(D)[j])
    BY <1>1, InOrderIs
  <2>2. n = Cardinality(D)
    BY <1>4, <2>1 DEF n
  <2> QED
    BY <1>4, <2>1, <2>2
<1> HIDE DEF n, D
<1>8. r[0] = Ok(t) /\ \A i \in 1..n : r[i] = After("copy", s, r[i - 1], i)
  BY <1>3, <1>6, LoopIs
<1>9. ASSUME NEW k \in 0..(n - 1)
      PROVE  /\ k + 1 \in 0..n /\ k + 1 \in 1..n
             /\ r[k + 1] = IF r[k].ok THEN CopyNode(r[k].tree, paths[k + 1], src[paths[k + 1]])
                           ELSE r[k]
  <2>1. k + 1 \in 1..n /\ k + 1 \in 0..n /\ k + 1 - 1 = k
    BY <1>6
  <2>2. PICK i \in 1..n : i = k + 1 /\ i - 1 = k
    BY <2>1
  <2>3. r[k + 1] = After("copy", s, r[k], k + 1)
    BY <1>8, <2>2
  <2> QED
    BY <1>5, <2>1, <2>3
<1> QED
  BY <1>2, <1>6, <1>7, <1>8, <1>9 DEF D, n, paths, r

LEMMA CopyStepsGrown ==
  ASSUME NEW t, Grown(t), NEW src, Grown(src), NEW q,
         ~LeadsAbove(t, q), ~LeadsAbove(src, q)
  PROVE  \A k \in 0..Len(CopyPaths(src)) :
           Grown(CopySteps(t, src)[k].tree) /\ ~LeadsAbove(CopySteps(t, src)[k].tree, q)
<1> DEFINE paths == CopyPaths(src)
           n == Len(paths)
           r == CopySteps(t, src)
<1>1. /\ n \in Nat /\ r[0] = Ok(t) /\ CopyTree(t, src) = r[n]
      /\ \A i \in 1..n : paths[i] \in DOMAIN src \ {<<>>} /\ paths[i] \in Path
      /\ \A k \in 0..(n - 1) :
           /\ k + 1 \in 0..n /\ k + 1 \in 1..n
           /\ r[k + 1] = IF r[k].ok THEN CopyNode(r[k].tree, paths[k + 1], src[paths[k + 1]])
                         ELSE r[k]
      /\ \A p \in DOMAIN src \ {<<>>} : \E i \in 1..n : paths[i] = p
      /\ \A i, j \in 1..n : i < j => paths[i] # paths[j] /\ Lexically(paths[i], paths[j])
  BY CopyStepsAre
<1> HIDE DEF paths, n, r
<1> DEFINE S == {i \in 0..n : Grown(r[i].tree) /\ ~LeadsAbove(r[i].tree, q)}
<1>2. \A i \in 1..n : IsNode(src[paths[i]])
                      /\ (src[paths[i]].kind = "link" => ~IsPrefix(src[paths[i]].to, q))
  BY <1>1, GrownAt DEF LeadsAbove
<1>3. 0 \in S
  BY <1>1 DEF Ok
<1>4. ASSUME NEW i \in 0..(n - 1), i \in S PROVE i + 1 \in S
  <2> DEFINE u == CopyNode(r[i].tree, paths[i + 1], src[paths[i + 1]])
  <2>1. Grown(r[i].tree) /\ ~LeadsAbove(r[i].tree, q) /\ i + 1 \in 1..n /\ i + 1 \in 0..n
    BY <1>1, <1>4
  <2>2. Grown(u.tree)
    BY <1>1, <1>2, <2>1, CopyNodeGrown
  <2>3. ~LeadsAbove(u.tree, q)
    BY <1>1, <1>2, <2>1, CopyNodeLeads
  <2>4. r[i + 1] = u \/ r[i + 1] = r[i]
    BY <1>1
  <2> HIDE DEF u
  <2> QED
    BY <2>1, <2>2, <2>3, <2>4
<1>5. 0..n \subseteq S
  <2> HIDE DEF S
  <2> QED
    BY <1>1, <1>3, <1>4, Climb
<1> QED
  BY <1>5 DEF n, paths, r

\* A file or link of the tree that is copied arrives, and what is copied after
\* it leaves it alone.
LEMMA CopyTreeArrives ==
  ASSUME NEW t, Grown(t), NEW src, Grown(src), NEW q \in DOMAIN src, src[q].kind # "dir",
         ~LeadsAbove(t, q), ~LeadsAbove(src, q), CopyTree(t, src).ok
  PROVE  Arrived(CopyTree(t, src).tree, q, src[q])
<1> DEFINE paths == CopyPaths(src)
           n == Len(paths)
           r == CopySteps(t, src)
<1>2. \A k \in 0..n : Grown(r[k].tree) /\ ~LeadsAbove(r[k].tree, q)
  BY CopyStepsGrown
<1>1. /\ n \in Nat /\ r[0] = Ok(t) /\ CopyTree(t, src) = r[n]
      /\ \A i \in 1..n : paths[i] \in DOMAIN src /\ paths[i] \in Path
      /\ \A i \in 0..(n - 1) :
              /\ i + 1 \in 0..n /\ i + 1 \in 1..n
              /\ r[i + 1] = IF r[i].ok THEN CopyNode(r[i].tree, paths[i + 1], src[paths[i + 1]])
                            ELSE r[i]
      /\ \A p \in DOMAIN src \ {<<>>} : \E i \in 1..n : paths[i] = p
      /\ \A i, j \in 1..n : i < j => paths[i] # paths[j] /\ Lexically(paths[i], paths[j])
  BY CopyStepsAre
<1> HIDE DEF paths, n, r
<1>3. q \in Path /\ q # <<>>
  BY GrownAt
<1>4. PICK a \in 1..n : paths[a] = q
  BY <1>1, <1>3
<1>5. \A j \in 1..n : a < j => ~IsPrefix(paths[j], q)
  <2> SUFFICES ASSUME NEW j \in 1..n, a < j, IsPrefix(paths[j], q) PROVE FALSE
    OBVIOUS
  <2>1. paths[j] \in Path /\ paths[j] # q /\ Lexically(q, paths[j])
    BY <1>1, <1>4
  <2>2. Lexically(paths[j], q)
    BY DEF Lexically
  <2> QED
    BY <1>3, <2>1, <2>2, LexPrefix
<1> DEFINE S == {k \in 0..n : k >= a /\ r[k].ok => Arrived(r[k].tree, q, src[q])}
<1>6. 0 \in S
  BY <1>1
<1>7. ASSUME NEW k \in 0..(n - 1), k \in S PROVE k + 1 \in S
  <2> DEFINE u == CopyNode(r[k].tree, paths[k + 1], src[paths[k + 1]])
  <2>1. k + 1 \in 1..n /\ k + 1 \in 0..n /\ k \in 0..n /\ k \in Nat /\ a \in Nat
    BY <1>1
  <2>2. Grown(r[k].tree) /\ ~LeadsAbove(r[k].tree, q)
    BY <1>2, <2>1
  <2> SUFFICES ASSUME k + 1 >= a, r[k + 1].ok PROVE Arrived(r[k + 1].tree, q, src[q])
    BY <2>1
  <2>3. r[k].ok /\ r[k + 1] = u
    BY <1>1
  <2>4. CASE k + 1 = a
    <3>1. u = CopyNode(r[k].tree, q, src[q])
      BY <1>4, <2>4
    <3> HIDE DEF u
    <3> QED
      BY <1>3, <2>2, <2>3, <3>1, CopyNodeArrives
  <2>5. CASE k >= a
    <3>1. Arrived(r[k].tree, q, src[q])
      BY <1>7, <2>3, <2>5
    <3>2. paths[k + 1] \in Path /\ ~IsPrefix(paths[k + 1], q)
      <4>1. a < k + 1
        BY <2>1, <2>5
      <4> QED
        BY <1>1, <1>5, <2>1, <4>1
    <3>3. SameAbove(r[k].tree, u.tree, q)
      BY <1>3, <2>2, <3>2, CopyNodeAway
    <3> QED
      BY <1>3, <2>3, <3>1, <3>3, ArrivedStays
  <2> QED
    BY <2>1, <2>4, <2>5
<1>8. 0..n \subseteq S
  <2> HIDE DEF S
  <2> QED
    BY <1>1, <1>6, <1>7, Climb
<1>9. n \in S /\ n >= a
  BY <1>1, <1>8
<1> QED
  BY <1>1, <1>9

LEMMA MergeArrives ==
  ASSUME NEW base, Grown(base), NEW user, Grown(user), NEW q \in DOMAIN user,
         user[q].kind # "dir", ~LeadsAbove(base, q), ~LeadsAbove(user, q), Merge(base, user).ok
  PROVE  Arrived(Merge(base, user).tree, q, user[q])
<1> DEFINE c == CopyTree(EmptyTree, base)
           n == Len(CopyPaths(base))
<1>1. Grown(EmptyTree) /\ ~LeadsAbove(EmptyTree, q)
  <2>1. DOMAIN EmptyTree = {<<>>} /\ EmptyTree[<<>>].kind = "dir"
    BY NodesAre DEF EmptyTree
  <2> QED
    BY <2>1, RootsGrown DEF LeadsAbove
<1>2. n \in Nat /\ c = CopySteps(EmptyTree, base)[n]
  BY CopyStepsAre
<1>3. Grown(c.tree) /\ ~LeadsAbove(c.tree, q)
  <2>1. n \in 0..n
    BY <1>2
  <2> QED
    BY <1>1, <1>2, <2>1, CopyStepsGrown
<1>4. c.ok /\ Merge(base, user) = CopyTree(c.tree, user)
  BY DEF Merge
<1> HIDE DEF c
<1> QED
  BY <1>3, <1>4, CopyTreeArrives

-----------------------------------------------------------------------------
(***************************************************************************)
(* A tree that is written as an archive and unpacked again.                *)
(***************************************************************************)
\* What is above a place of a tree is there, and a directory.
LEMMA AboveIs ==
  ASSUME NEW t, Grown(t), NEW p \in DOMAIN t, NEW q \in Path, IsPrefix(q, p), q # p
  PROVE  q \in DOMAIN t /\ t[q].kind = "dir"
<1> DEFINE S == {r \in Path : r \in DOMAIN t /\ IsPrefix(q, r) /\ q # r
                              => q \in DOMAIN t /\ t[q].kind = "dir"}
<1>1. <<>> \in S
  BY PrefixOfRoot DEF Path
<1>2. ASSUME NEW r \in Path, r # <<>>, Front(r) \in S PROVE r \in S
  <2> SUFFICES ASSUME r \in DOMAIN t, IsPrefix(q, r), q # r
               PROVE  q \in DOMAIN t /\ t[q].kind = "dir"
    OBVIOUS
  <2>1. Front(r) \in DOMAIN t /\ t[Front(r)].kind = "dir"
    BY <1>2, GrownAt
  <2>2. IsPrefix(q, Front(r))
    BY <1>2, PrefixFront
  <2> QED
    BY <1>2, <2>1, <2>2
<1>3. p \in Path
  BY GrownAt
<1> HIDE DEF S
<1>4. p \in S
  BY <1>1, <1>2, <1>3, PathClimb
<1> QED
  BY <1>4 DEF S

\* Where all directories are there, none is made.
LEMMA NoneMade ==
  ASSUME NEW t, Grown(t), NEW p \in Path,
         \A q \in Path : IsPrefix(q, p) => q \in DOMAIN t /\ t[q].kind = "dir"
  PROVE  CreateDirAll(t, p) = Ok(t)
<1>1. Prefixes(p) = {q \in Path : IsPrefix(q, p)}
  BY PrefixesAre
<1>2. ASSUME NEW q \in Prefixes(p) PROVE q \in DOMAIN t /\ Stat(t, q) = q /\ t[q].kind = "dir"
  <2>1. q \in Path /\ IsPrefix(q, p)
    BY <1>1
  <2>2. \A r \in Path : IsPrefix(r, q) /\ r \in DOMAIN t => t[r].kind # "link"
    BY <2>1, PrefixTrans
  <2>3. Stat(t, q) = q
    BY <2>1, <2>2, StatStraight
  <2> QED
    BY <2>1, <2>3
<1> DEFINE places == {Stat(t, q) : q \in Prefixes(p)}
           made == [q \in DOMAIN t \cup places |-> IF q \in DOMAIN t THEN t[q] ELSE Dir(DirMode)]
<1>3. DOMAIN t \cup places = DOMAIN t
  BY <1>2
<1>4. \A q \in Prefixes(p) : IsDir(t, q)
  BY <1>2 DEF IsDir, Is
<1>5. CreateDirAll(t, p) = Ok(made)
  BY <1>4 DEF CreateDirAll
<1> HIDE DEF places
<1>6. made = t
  BY <1>3 DEF Grown
<1> QED
  BY <1>5, <1>6

\* A new place in a directory.
Fresh(t, p) ==
  /\ p # <<>> /\ p \notin DOMAIN t
  /\ \A q \in Path : IsPrefix(q, p) /\ q # p => q \in DOMAIN t /\ t[q].kind = "dir"

LEMMA FreshIs ==
  ASSUME NEW t, Grown(t), NEW p \in Path, Fresh(t, p)
  PROVE  /\ Parent(p) = Front(p) /\ Front(p) \in Path /\ Front(p) # p
         /\ \A q \in Path : IsPrefix(q, Front(p)) => q \in DOMAIN t /\ t[q].kind = "dir"
         /\ Lstat(t, p) = p /\ Stat(t, p) = p /\ ~Present(t, p)
         /\ \A n : Create(t, p, n) = Ok(Set(t, p, n))
<1>1. p # <<>> /\ p \notin DOMAIN t
  BY DEF Fresh
<1>2. Parent(p) = Front(p) /\ Front(p) \in Path /\ IsPrefix(Front(p), p)
  BY <1>1, FrontPrefix DEF Parent
<1>3. Front(p) # p
  <2>1. Len(Front(p)) = Len(p) - 1 /\ Len(p) \in Nat
    BY <1>1, PathFront
  <2> QED
    BY <2>1
<1>4. ASSUME NEW q \in Path, IsPrefix(q, Front(p)) PROVE q \in DOMAIN t /\ t[q].kind = "dir"
  <2>1. IsPrefix(q, p) /\ q # p
    <3>1. IsPrefix(q, p)
      BY <1>2, <1>4, PrefixTrans
    <3>2. q # p
      BY <1>2, <1>3, <1>4, PrefixSame, PrefixIs
    <3> QED
      BY <3>1, <3>2
  <2> QED
    BY <2>1 DEF Fresh
<1>5. Lstat(t, p) = p
  BY <1>1, <1>4, LstatStraight
<1>6. Stat(t, p) = p
  BY <1>1, <1>5, StatIs DEF Follow
<1>7. Front(p) \in DOMAIN t /\ t[Front(p)].kind = "dir"
  BY <1>2, <1>4, PrefixSelf
<1> QED
  BY <1>1, <1>2, <1>3, <1>4, <1>5, <1>6, <1>7 DEF Present, Create

LEMMA ReplaceFresh ==
  ASSUME NEW t, Grown(t), NEW p \in Path, Fresh(t, p), NEW n
  PROVE  Replace(t, p, n) = Ok(Set(t, p, n))
<1>1. CreateDirAll(t, Parent(p)) = Ok(t)
  BY FreshIs, NoneMade
<1>2. Unlink(t, p) = t
  BY FreshIs DEF Unlink
<1> QED
  BY <1>1, <1>2, FreshIs DEF Replace, Ok

LEMMA ApplyDirectoryFresh ==
  ASSUME NEW t, Grown(t), NEW p \in Path, Fresh(t, p), NEW m
  PROVE  ApplyDirectory(t, p, m) = Ok(Set(t, p, Dir(m)))
<1> DEFINE u == Set(t, p, Dir(DirMode))
           v == Set(t, p, Dir(m))
<1>1. Prefixes(p) = {q \in Path : IsPrefix(q, p)}
  BY PrefixesAre
<1>2. \A q \in Prefixes(p) : q # p => q \in DOMAIN t /\ t[q].kind = "dir"
  BY <1>1 DEF Fresh
<1>3. ASSUME NEW q \in Prefixes(p) PROVE Stat(t, q) = q
  <2>1. CASE q = p
    BY <2>1, FreshIs
  <2>2. CASE q # p
    <3>1. q \in Path /\ IsPrefix(q, p)
      BY <1>1
    <3>2. ASSUME NEW r \in Path, IsPrefix(r, q), r \in DOMAIN t PROVE t[r].kind # "link"
      <4>1. r \in Prefixes(p) /\ r # p
        BY <1>1, <3>1, <3>2, PrefixTrans DEF Fresh
      <4> QED
        BY <1>2, <4>1
    <3> QED
      BY <3>1, <3>2, StatStraight
  <2> QED
    BY <2>1, <2>2
<1>4. CreateDirAll(t, p) = Ok(u)
  <2> DEFINE places == {Stat(t, q) : q \in Prefixes(p)}
             made == [q \in DOMAIN t \cup places |-> IF q \in DOMAIN t THEN t[q] ELSE Dir(DirMode)]
  <2>1. p \in Prefixes(p)
    BY <1>1, PrefixSelf
  <2>2. DOMAIN t \cup places = DOMAIN t \cup {p}
    BY <1>2, <1>3, <2>1
  <2>3. \A q \in Prefixes(p) : Present(t, q) => IsDir(t, q)
    BY <1>2, <1>3, FreshIs DEF IsDir, Is
  <2>4. CreateDirAll(t, p) = Ok(made)
    BY <2>3 DEF CreateDirAll
  <2> HIDE DEF places
  <2>5. made = [q \in DOMAIN t \cup {p} |-> IF q = p THEN Dir(DirMode) ELSE t[q]]
    BY <2>2 DEF Fresh
  <2> QED
    BY <2>4, <2>5 DEF Set
<1>5. DOMAIN u = DOMAIN t \cup {p} /\ u[p] = Dir(DirMode) /\ \A r \in DOMAIN t : r # p => u[r] = t[r]
  BY DEF Set
<1>6. Grown(u)
  BY <1>4, CreateDirAllGrown DEF Ok
<1> HIDE DEF u
<1>7. Stat(u, p) = p
  <2>1. \A q \in Path : IsPrefix(q, p) /\ q \in DOMAIN u => u[q].kind # "link"
    <3>1. Dir(DirMode).kind # "link"
      BY NodesAre
    <3> QED
      BY <1>1, <1>2, <1>5, <3>1
  <2> QED
    BY <1>6, <2>1, StatStraight
<1>8. Chmod(u, p, m) = v
  <2>1. Chmod(u, p, m) = [u EXCEPT ![p] = Dir(m)]
    <3>1. /\ Dir(DirMode).kind = "dir" /\ Dir(DirMode).data = "" /\ Dir(DirMode).to = <<>>
      BY DEF Dir, Node
    <3>2. u[p].kind = "dir" /\ u[p].data = "" /\ u[p].to = <<>>
      BY <1>5, <3>1, Zenon
    <3> QED
      BY <1>7, <3>2 DEF Chmod, Dir
  <2>2. u = [r \in DOMAIN t \cup {p} |-> u[r]]
    BY <1>5, <1>6 DEF Grown
  <2>3. v = [r \in DOMAIN t \cup {p} |-> IF r = p THEN Dir(m) ELSE t[r]]
    BY DEF Set
  <2> HIDE DEF v
  <2> QED
    BY <1>5, <2>1, <2>2, <2>3
<1> QED
  BY <1>4, <1>8 DEF ApplyDirectory, Ok

NoWhiteouts(t) == \A q \in DOMAIN t : ~IsWhiteout(q)

LEMMA EntryIs ==
  ASSUME NEW t, NEW p, p # <<>>, ~IsWhiteout(p)
  PROVE  EntryOf(t, p) = [op |-> t[p].kind, path |-> p, data |-> t[p].data, mode |-> t[p].mode,
                          to |-> t[p].to, dotted |-> FALSE]
<1>1. Last(p) \notin DOMAIN Hides /\ Last(p) # OpaqueName
  BY DEF IsWhiteout
<1> QED
  BY <1>1 DEF EntryOf

\* A node that an archive has for a new place is put there as it is.
LEMMA EntryFresh ==
  ASSUME NEW u, Grown(u), NEW p \in Path, Fresh(u, p), NEW t, IsNode(t[p]),
         p # <<>>, ~IsWhiteout(p)
  PROVE  ApplyEntry([ok |-> TRUE, tree |-> u, cleared |-> {}], EntryOf(t, p), {}) =
           [ok |-> TRUE, tree |-> Set(u, p, t[p]), cleared |-> {}]
<1> DEFINE s == [ok |-> TRUE, tree |-> u, cleared |-> {}]
           e == EntryOf(t, p)
           n == t[p]
<1>1. /\ e.op = n.kind /\ e.path = p /\ e.data = n.data /\ e.mode = n.mode /\ e.to = n.to
  BY EntryIs
<1>2. n.kind \in {"file", "dir", "link"}
  BY DEF IsNode
<1>3. s.ok /\ ClearDirOnce(s, Home(e), {}) = s
  BY DEF ClearDirOnce
<1>4. ASSUME NEW v PROVE Step(s, Ok(v)) = [ok |-> TRUE, tree |-> v, cleared |-> {}]
  <2>1. s \in [ok : {TRUE}, tree : {u}, cleared : {{}}]
    OBVIOUS
  <2>2. Ok(v).ok = TRUE /\ Ok(v).tree = v
    BY DEF Ok
  <2> HIDE DEF s
  <2> DEFINE w == Step(s, Ok(v))
  <2>3. w \in [ok : {TRUE}, tree : {v}, cleared : {{}}]
    BY <2>1, <2>2 DEF Step
  <2> HIDE DEF w
  <2>4. w = [ok |-> TRUE, tree |-> v, cleared |-> {}]
    BY <2>3
  <2> QED
    BY <2>4 DEF w
<1>5. s.tree = u
  OBVIOUS
<1> HIDE DEF s, e, n
<1>6. CASE n.kind = "file"
  <2>1. ApplyEntry(s, e, {}) = Step(s, Replace(s.tree, e.path, File(e.data, e.mode)))
    BY <1>1, <1>3, <1>6 DEF ApplyEntry
  <2>2. Replace(u, p, File(n.data, n.mode)) = Ok(Set(u, p, File(n.data, n.mode)))
    BY ReplaceFresh
  <2>3. File(n.data, n.mode) = n
    BY <1>6 DEF IsNode, n
  <2> QED
    BY <1>1, <1>4, <1>5, <2>1, <2>2, <2>3 DEF s, e, n
<1>7. CASE n.kind = "link"
  <2>1. ApplyEntry(s, e, {}) = Step(s, Replace(s.tree, e.path, Link(e.to)))
    BY <1>1, <1>3, <1>7 DEF ApplyEntry
  <2>2. Replace(u, p, Link(n.to)) = Ok(Set(u, p, Link(n.to)))
    BY ReplaceFresh
  <2>3. Link(n.to) = n
    BY <1>7 DEF IsNode, n
  <2> QED
    BY <1>1, <1>4, <1>5, <2>1, <2>2, <2>3 DEF s, e, n
<1>8. CASE n.kind = "dir"
  <2>1. ApplyEntry(s, e, {}) = Step(s, ApplyDirectory(s.tree, e.path, e.mode))
    BY <1>1, <1>3, <1>8 DEF ApplyEntry
  <2>2. ApplyDirectory(u, p, n.mode) = Ok(Set(u, p, Dir(n.mode)))
    BY ApplyDirectoryFresh
  <2>3. Dir(n.mode) = n
    BY <1>8 DEF IsNode, n
  <2> QED
    BY <1>1, <1>4, <1>5, <2>1, <2>2, <2>3 DEF s, e, n
<1> QED
  BY <1>2, <1>6, <1>7, <1>8

LEMMA ArchiveIs ==
  ASSUME NEW t, Grown(t), NoWhiteouts(t)
  PROVE  /\ Archive(t) = [i \in 1..Len(CopyPaths(t)) |-> EntryOf(t, CopyPaths(t)[i])]
         /\ Archive(t) \in Seq({EntryOf(t, p) : p \in DOMAIN t}) /\ Len(Archive(t)) = Len(CopyPaths(t))
         /\ Opaques(Archive(t)) = {}
<1> DEFINE paths == CopyPaths(t)
           n == Len(paths)
           a == Archive(t)
           E == {EntryOf(t, p) : p \in DOMAIN t}
<1>1. n \in Nat /\ paths \in Seq(DOMAIN t \ {<<>>}) /\ DOMAIN paths = 1..n
  <2>1. paths \in Seq(DOMAIN t \ {<<>>})
    BY PlacesAre DEF CopyPaths
  <2> HIDE DEF paths
  <2> QED
    BY <2>1, LenProperties
<1>2. a = [i \in DOMAIN paths |-> EntryOf(t, paths[i])]
  BY DEF Archive, CopyPaths
<1> HIDE DEF paths, n, a
<1>3. \A i \in 1..n : paths[i] \in DOMAIN t /\ paths[i] # <<>>
  BY <1>1 DEF n
<1>4. a = [i \in 1..n |-> EntryOf(t, paths[i])]
  BY <1>1, <1>2
<1>5. a \in Seq(E) /\ Len(a) = n /\ DOMAIN a = 1..n
  <2>1. a \in [1..n -> E]
    BY <1>3, <1>4
  <2> HIDE DEF E
  <2> QED
    BY <1>1, <2>1
<1>6. \A i \in 1..n : a[i].op # "opaque"
  <2> SUFFICES ASSUME NEW i \in 1..n PROVE a[i].op # "opaque"
    OBVIOUS
  <2>1. a[i].op = t[paths[i]].kind
    <3>1. a[i] = EntryOf(t, paths[i]) /\ ~IsWhiteout(paths[i]) /\ paths[i] # <<>>
      BY <1>3, <1>4 DEF NoWhiteouts
    <3> QED
      BY <3>1, EntryIs
  <2> QED
    BY <1>3, <2>1, GrownAt DEF IsNode
<1>7. Opaques(a) = {}
  BY <1>5, <1>6 DEF Opaques
<1> QED
  BY <1>4, <1>5, <1>7 DEF paths, n, a

LEMMA OpenedIs ==
  ASSUME NEW t, Grown(t), <<>> \in DOMAIN t
  PROVE  Opened(t) = [ok |-> TRUE, tree |-> t, cleared |-> {}]
<1>1. \A q \in Path : IsPrefix(q, <<>>) => q \in DOMAIN t /\ t[q].kind = "dir"
  BY PrefixOfRoot, GrownAt
<1>2. CreateDirAll(t, <<>>) = Ok(t)
  BY <1>1, RootPath, NoneMade
<1> DEFINE made == CreateDirAll(t, <<>>)
<1>3. Opened(t) = [ok |-> made.ok, tree |-> made.tree, cleared |-> {}]
  BY DEF Opened
<1> HIDE DEF made
<1>4. made.ok = TRUE /\ made.tree = t
  BY <1>2 DEF Ok, made
<1> QED
  BY <1>3, <1>4

\* A tree without the names of whiteouts, written as an archive and unpacked
\* again, is that tree, but for the root, which no entry has: each entry finds its
\* directory there.
LEMMA ArchiveUnpacked ==
  ASSUME NEW t, Grown(t), <<>> \in DOMAIN t, NoWhiteouts(t)
  PROVE  /\ ApplyLayer(EmptyTree, Archive(t)).ok
         /\ ApplyLayer(EmptyTree, Archive(t)).tree = [t EXCEPT ![<<>>] = EmptyTree[<<>>]]
<1> DEFINE paths == CopyPaths(t)
           n == Len(paths)
           a == Archive(t)
           b == [ok |-> TRUE, tree |-> EmptyTree, cleared |-> {}]
           r == Loop("entries", a, b, n)
           places(k) == {<<>>} \cup {paths[i] : i \in 1..k}
           part(k) == [q \in places(k) |-> IF q = <<>> THEN EmptyTree[<<>>] ELSE t[q]]
           state(k) == [ok |-> TRUE, tree |-> part(k), cleared |-> {}]
<1>1. /\ n \in Nat
      /\ \A i \in 1..n : paths[i] \in DOMAIN t \ {<<>>} /\ paths[i] \in Path
      /\ \A p \in DOMAIN t \ {<<>>} : \E i \in 1..n : paths[i] = p
      /\ \A i, j \in 1..n : i < j => paths[i] # paths[j] /\ Lexically(paths[i], paths[j])
  BY CopyStepsAre
<1>2. a = [i \in 1..n |-> EntryOf(t, paths[i])] /\ Opaques(a) = {}
  BY ArchiveIs
<1>3. ApplyLayer(EmptyTree, a) = r[n]
  <2>1. Grown(EmptyTree) /\ <<>> \in DOMAIN EmptyTree
    BY RootsGrown DEF EmptyTree
  <2>2. Opened(EmptyTree) = b
    BY <2>1, OpenedIs
  <2> HIDE DEF b
  <2> QED
    BY <2>2, ArchiveIs, ApplyLayerLoop
<1> HIDE DEF paths, a
<1>4. r[0] = b /\ \A i \in 1..n : r[i] = After("entries", a, r[i - 1], i)
  <2> HIDE DEF b, n
  <2> QED
    BY <1>1, LoopIs
<1>5. \A x, i : After("entries", a, x, i) = ApplyEntry(x, a[i], Opaques(a))
  BY DEF After
<1> HIDE DEF r, n
<1> DEFINE S == {k \in 0..n : r[k] = state(k) /\ Grown(part(k))}
<1>6. 0 \in S
  <2>1. places(0) = {<<>>} /\ 0 \in 0..n
    BY <1>1
  <2>2. part(0) = EmptyTree
    <3> HIDE DEF places
    <3> QED
      BY <2>1 DEF EmptyTree
  <2> HIDE DEF part
  <2> QED
    BY <1>4, <2>1, <2>2, RootsGrown
<1>7. ASSUME NEW k \in 0..(n - 1), k \in S PROVE k + 1 \in S
  <2>1. k + 1 \in 1..n /\ k + 1 \in 0..n /\ k \in Nat /\ k + 1 - 1 = k
    BY <1>1
  <2> DEFINE p == paths[k + 1]
             u == part(k)
  <2>2. p \in DOMAIN t /\ p \in Path /\ p # <<>> /\ IsNode(t[p]) /\ ~IsWhiteout(p)
    BY <1>1, <2>1, GrownAt DEF NoWhiteouts
  <2>3. DOMAIN u = places(k) /\ \A q \in places(k) : u[q] = IF q = <<>> THEN EmptyTree[<<>>] ELSE t[q]
    <3> HIDE DEF places
    <3> QED
      OBVIOUS
  <2>4. p \notin places(k)
    <3> SUFFICES ASSUME NEW i \in 1..k, paths[i] = p PROVE FALSE
      BY <2>2
    <3>1. i \in 1..n /\ i < k + 1
      BY <1>1, <2>1
    <3> QED
      BY <1>1, <2>1, <3>1
  <2>5. ASSUME NEW q \in Path, IsPrefix(q, p), q # p PROVE q \in places(k) /\ u[q].kind = "dir"
    <3>1. q \in DOMAIN t /\ t[q].kind = "dir"
      BY <2>2, <2>5, AboveIs
    <3>2. CASE q = <<>>
      BY <2>3, <3>2, NodesAre DEF EmptyTree
    <3>3. CASE q # <<>>
      <4>1. PICK j \in 1..n : paths[j] = q
        BY <1>1, <3>1, <3>3
      <4>2. ~(k + 1 < j)
        <5> SUFFICES ASSUME k + 1 < j PROVE FALSE
          OBVIOUS
        <5>1. Lexically(p, q)
          BY <1>1, <2>1, <4>1
        <5> QED
          BY <2>2, <2>5, <5>1, LexPrefix
      <4>3. j \in 1..k
        <5>1. j # k + 1
          BY <2>5, <4>1
        <5> QED
          BY <1>1, <2>1, <4>1, <4>2, <5>1
      <4> QED
        BY <2>3, <3>1, <3>3, <4>1, <4>3
    <3> QED
      BY <3>2, <3>3
  <2>6. Fresh(u, p)
    BY <2>2, <2>3, <2>4, <2>5 DEF Fresh
  <2>7. part(k + 1) = Set(u, p, t[p])
    <3>1. places(k + 1) = places(k) \cup {p}
      BY <2>1
    <3> HIDE DEF places, u, p
    <3>2. Set(u, p, t[p]) = [q \in places(k) \cup {p} |-> IF q = p THEN t[p] ELSE u[q]]
      BY <2>3 DEF Set
    <3> QED
      BY <2>2, <2>3, <2>4, <3>1, <3>2
  <2>8. a[k + 1] = EntryOf(t, p)
    BY <1>2, <2>1
  <2>9. r[k] = [ok |-> TRUE, tree |-> u, cleared |-> {}] /\ Grown(u)
    BY <1>7
  <2> HIDE DEF u, p, part
  <2>10. r[k + 1] = ApplyEntry(r[k], a[k + 1], Opaques(a))
    <3>1. PICK i \in 1..n : i = k + 1 /\ i - 1 = k
      BY <2>1
    <3>2. r[k + 1] = After("entries", a, r[k], k + 1)
      BY <1>4, <3>1
    <3> QED
      BY <1>5, <3>2
  <2>11. r[k + 1] = [ok |-> TRUE, tree |-> Set(u, p, t[p]), cleared |-> {}]
    BY <1>2, <2>2, <2>6, <2>8, <2>9, <2>10, EntryFresh
  <2>12. Grown(Set(u, p, t[p]))
    <3>1. Create(u, p, t[p]) = Ok(Set(u, p, t[p]))
      BY <2>2, <2>6, <2>9, FreshIs
    <3>2. Grown(Create(u, p, t[p]).tree)
      BY <2>2, <2>9, CreateGrown
    <3> QED
      BY <3>1, <3>2 DEF Ok
  <2> QED
    BY <2>1, <2>7, <2>11, <2>12
<1>8. 0..n \subseteq S
  <2> HIDE DEF S
  <2> QED
    BY <1>1, <1>6, <1>7, Climb
<1>9. r[n] = state(n)
  BY <1>1, <1>8
<1>10. part(n) = [t EXCEPT ![<<>>] = EmptyTree[<<>>]]
  <2>1. places(n) = DOMAIN t
    <3>1. \A q \in places(n) : q \in DOMAIN t
      BY <1>1
    <3>2. ASSUME NEW q \in DOMAIN t PROVE q \in places(n)
      BY <1>1
    <3> QED
      BY <3>1, <3>2
  <2>2. t = [q \in DOMAIN t |-> t[q]]
    BY DEF Grown
  <2> HIDE DEF places
  <2> QED
    BY <2>1, <2>2
<1> QED
  BY <1>3, <1>9, <1>10 DEF a

-----------------------------------------------------------------------------
(***************************************************************************)
(* Matches that are moved side by side.                                    *)
(***************************************************************************)
\* What a path leads to is there only if all it leads through is.
LEMMA ThereAbove ==
  ASSUME NEW t, Grown(t), NEW p \in Path, Exists(t, p), NEW q \in Path, IsPrefix(q, p)
  PROVE  /\ Stat(t, q) \in DOMAIN t /\ Lstat(t, q) \in DOMAIN t
         /\ q # p => t[Stat(t, q)].kind = "dir"
<1>1. ASSUME NEW r \in Path, r # <<>>, Exists(t, r)
      PROVE  /\ Lstat(t, r) \in DOMAIN t
             /\ Exists(t, Front(r)) /\ t[Stat(t, Front(r))].kind = "dir"
  <2>1. /\ Stat(t, r) \in DOMAIN t /\ Stat(t, r) = Follow(t, Lstat(t, r))
        /\ Lstat(t, r) # <<>> /\ Front(Lstat(t, r)) = Stat(t, Front(r))
    BY <1>1, StatIs DEF Exists
  <2>2. Lstat(t, r) \in DOMAIN t
    BY <2>1 DEF Follow
  <2> QED
    BY <2>1, <2>2, GrownAt DEF Exists
<1> DEFINE S == {r \in Path : Exists(t, r) /\ IsPrefix(q, r) =>
                   /\ Exists(t, q) /\ Lstat(t, q) \in DOMAIN t
                   /\ q # r => t[Stat(t, q)].kind = "dir"}
<1>2. <<>> \in S
  <2> SUFFICES ASSUME Exists(t, <<>>), IsPrefix(q, <<>>) PROVE q = <<>> /\ Lstat(t, <<>>) \in DOMAIN t
    BY DEF Path
  <2>1. <<>> \in Path
    BY DEF Path
  <2> QED
    BY <2>1, PrefixOfRoot, StatIs DEF Exists
<1>3. ASSUME NEW r \in Path, r # <<>>, Front(r) \in S PROVE r \in S
  <2> SUFFICES ASSUME Exists(t, r), IsPrefix(q, r)
               PROVE  /\ Exists(t, q) /\ Lstat(t, q) \in DOMAIN t
                      /\ q # r => t[Stat(t, q)].kind = "dir"
    OBVIOUS
  <2>1. CASE q = r
    BY <1>1, <1>3, <2>1
  <2>2. CASE q # r
    <3>1. IsPrefix(q, Front(r))
      BY <1>3, <2>2, PrefixFront
    <3> QED
      BY <1>1, <1>3, <3>1
  <2> QED
    BY <2>1, <2>2
<1> HIDE DEF S
<1>4. p \in S
  BY <1>2, <1>3, PathClimb
<1> QED
  BY <1>4 DEF S, Exists

\* A path leads where it led if all it led through is as it was.
LEMMA StatKept ==
  ASSUME NEW u, Grown(u), NEW v, Grown(v), NEW p \in Path,
         \A q \in Path : IsPrefix(q, p) =>
           Lstat(u, q) \in DOMAIN u \cap DOMAIN v /\ v[Lstat(u, q)] = u[Lstat(u, q)],
         NEW q \in Path, IsPrefix(q, p)
  PROVE  Stat(v, q) = Stat(u, q) /\ Lstat(v, q) = Lstat(u, q)
<1> DEFINE S == {r \in Path : IsPrefix(r, p) => Stat(v, r) = Stat(u, r) /\ Lstat(v, r) = Lstat(u, r)}
<1>1. <<>> \in S
  <2>1. <<>> \in Path
    BY DEF Path
  <2> QED
    BY <2>1, StatIs
<1>2. ASSUME NEW r \in Path, r # <<>>, Front(r) \in S PROVE r \in S
  <2> SUFFICES ASSUME IsPrefix(r, p) PROVE Stat(v, r) = Stat(u, r) /\ Lstat(v, r) = Lstat(u, r)
    OBVIOUS
  <2>1. Front(r) \in Path /\ IsPrefix(Front(r), p)
    BY <1>2, FrontPrefix
  <2>2. Stat(v, Front(r)) = Stat(u, Front(r))
    BY <1>2, <2>1
  <2>3. Lstat(v, r) = Lstat(u, r)
    <3>1. /\ Lstat(v, r) = Append(Stat(v, Front(r)), Last(r))
          /\ Lstat(u, r) = Append(Stat(u, Front(r)), Last(r))
      BY <1>2, StatIs
    <3> QED
      BY <2>2, <3>1, Zenon
  <2>4. Stat(v, r) = Follow(v, Lstat(v, r)) /\ Stat(u, r) = Follow(u, Lstat(u, r))
    BY <1>2, StatIs
  <2>5. Lstat(u, r) \in DOMAIN u \cap DOMAIN v /\ v[Lstat(u, r)] = u[Lstat(u, r)]
    OBVIOUS
  <2> QED
    BY <2>3, <2>4, <2>5 DEF Follow
<1> HIDE DEF S
<1>3. q \in S
  BY <1>1, <1>2, PathClimb
<1> QED
  BY <1>3 DEF S

\* A directory that is there needs none made for it.
LEMMA DirThere ==
  ASSUME NEW t, Grown(t), NEW p \in Path, IsDir(t, p)
  PROVE  CreateDirAll(t, p) = Ok(t)
<1>1. Prefixes(p) = {q \in Path : IsPrefix(q, p)}
  BY PrefixesAre
<1>2. Exists(t, p)
  BY DEF IsDir, Is, Exists
<1>3. ASSUME NEW q \in Prefixes(p) PROVE Stat(t, q) \in DOMAIN t /\ IsDir(t, q)
  BY <1>1, <1>2, ThereAbove DEF IsDir, Is
<1> DEFINE places == {Stat(t, q) : q \in Prefixes(p)}
           made == [q \in DOMAIN t \cup places |-> IF q \in DOMAIN t THEN t[q] ELSE Dir(DirMode)]
<1>4. DOMAIN t \cup places = DOMAIN t
  BY <1>3
<1>5. CreateDirAll(t, p) = Ok(made)
  BY <1>3 DEF CreateDirAll
<1> HIDE DEF places
<1>6. made = t
  BY <1>4 DEF Grown
<1> QED
  BY <1>5, <1>6

\* A move of src to a place in the directory at `to' where nothing is.
Beside(t, src, to) ==
  /\ src \in DOMAIN t /\ src # <<>> /\ IsDir(t, to) /\ ~IsPrefix(src, Stat(t, to))
  /\ Append(Stat(t, to), Last(src)) \notin DOMAIN t

LEMMA BesidePlace ==
  ASSUME NEW t, Grown(t), NEW src, NEW to \in Path, Beside(t, src, to)
  PROVE  LET d == Stat(t, to)
             m == Append(d, Last(src))
         IN /\ src \in Path /\ Last(src) \in Nat /\ d \in DOMAIN t /\ d \in Path /\ t[d].kind = "dir"
            /\ m \in Path /\ m # <<>> /\ Front(m) = d /\ m \notin DOMAIN t /\ src # m
            /\ ~IsPrefix(src, m) /\ \A r \in DOMAIN t : ~IsPrefix(m, r)
<1> DEFINE d == Stat(t, to)
           m == Append(d, Last(src))
<1>1. src \in Path /\ Last(src) \in Nat /\ d \in Path
  BY GrownAt, PathFront, StatIs DEF Beside
<1>2. d \in DOMAIN t /\ t[d].kind = "dir" /\ m \notin DOMAIN t /\ src \in DOMAIN t /\ ~IsPrefix(src, d)
  BY DEF Beside, IsDir, Is
<1> HIDE DEF d
<1>3. m \in Path /\ m # <<>> /\ Front(m) = d
  BY <1>1, PathAppend
<1> HIDE DEF m
<1>4. ~IsPrefix(src, m)
  BY <1>1, <1>2, <1>3, PrefixFront
<1>5. ASSUME NEW r \in DOMAIN t, IsPrefix(m, r) PROVE FALSE
  BY <1>2, <1>3, <1>5, AboveIs
<1> QED
  BY <1>1, <1>2, <1>3, <1>4, <1>5 DEF d, m

LEMMA MoveOneBeside ==
  ASSUME NEW t, Grown(t), NEW src, NEW to \in Path, Beside(t, src, to)
  PROVE  MoveOne(t, src, to) = Ok(Renamed(t, src, Append(Stat(t, to), Last(src))))
<1> DEFINE d == Stat(t, to)
           m == Append(d, Last(src))
           dest == Append(to, Last(src))
<1>1. /\ src \in Path /\ Last(src) \in Nat /\ d \in DOMAIN t /\ d \in Path /\ t[d].kind = "dir"
      /\ m \in Path /\ m # <<>> /\ Front(m) = d /\ m \notin DOMAIN t /\ src # m
      /\ ~IsPrefix(src, m) /\ \A r \in DOMAIN t : ~IsPrefix(m, r)
  BY BesidePlace
<1>2. src # <<>> /\ src \in DOMAIN t /\ IsDir(t, to)
  BY DEF Beside
<1>3. Dest(t, src, to) = dest
  BY <1>2 DEF Dest
<1>4. dest \in Path /\ dest # <<>> /\ Front(dest) = to /\ Last(dest) = Last(src)
  BY <1>1, PathAppend
<1>5. Lstat(t, dest) = m
  <2> HIDE DEF dest
  <2>1. Lstat(t, dest) = Append(Stat(t, Front(dest)), Last(dest))
    BY <1>4, StatIs
  <2> QED
    BY <1>4, <2>1, Zenon
<1>6. Lstat(t, src) = src
  <2>1. ASSUME NEW q \in Path, IsPrefix(q, Front(src)), q \in DOMAIN t PROVE t[q].kind # "link"
    <3>1. IsPrefix(q, src) /\ q # src
      <4>1. Len(Front(src)) = Len(src) - 1 /\ Len(src) \in Nat /\ Front(src) \in Path
        BY <1>1, <1>2, PathFront
      <4>2. Len(q) <= Len(Front(src))
        BY <2>1, <4>1, PrefixIs
      <4> QED
        BY <1>1, <1>2, <2>1, <4>1, <4>2, PrefixFront
    <3> QED
      BY <1>2, <3>1, AboveIs
  <2> QED
    BY <1>1, <1>2, <2>1, LstatStraight
<1>7. CreateDirAll(t, Parent(dest)) = Ok(t)
  <2>1. Parent(dest) = to
    BY <1>4 DEF Parent
  <2> QED
    BY <1>2, <2>1, DirThere
<1> HIDE DEF d, m, dest
<1>8. Rename(t, src, m) = Ok(Renamed(t, src, m))
  BY <1>1, <1>2 DEF Rename, Below, IsStrictPrefix, Parent
<1>9. MoveOne(t, src, to) = Rename(t, src, m)
  BY <1>2, <1>3, <1>5, <1>6, <1>7 DEF MoveOne, Ok
<1> QED
  BY <1>8, <1>9 DEF d, m

Slot(t, src, to) == Append(Stat(t, to), Last(src))
Besides(t, src, to) == Renamed(t, src, Slot(t, src, to))

LEMMA BesideIs ==
  ASSUME NEW t, Grown(t), NEW src, NEW to \in Path, Beside(t, src, to)
  PROVE  /\ Grown(Besides(t, src, to)) /\ Contents(Besides(t, src, to)) = Contents(t)
         /\ \A r \in DOMAIN t : ~IsPrefix(src, r) =>
              r \in DOMAIN Besides(t, src, to) /\ Besides(t, src, to)[r] = t[r]
         /\ \A r \in DOMAIN Besides(t, src, to) : r \in DOMAIN t \/ IsPrefix(Slot(t, src, to), r)
<1> DEFINE m == Slot(t, src, to)
           u == Besides(t, src, to)
<1> USE DEF Slot
<1>1. /\ src \in Path /\ m \in Path /\ m # <<>> /\ Front(m) = Stat(t, to) /\ m \notin DOMAIN t
      /\ src # m /\ ~IsPrefix(src, m) /\ \A r \in DOMAIN t : ~IsPrefix(m, r)
  BY BesidePlace
<1>0. u = Renamed(t, src, m)
  BY DEF Besides
<1> HIDE DEF m, u
<1>2. src \in DOMAIN t /\ Front(m) \in DOMAIN t /\ t[Front(m)].kind = "dir"
  BY <1>1 DEF Beside, IsDir, Is
<1>3. Grown(u)
  BY <1>0, <1>1, <1>2, RenamedGrown DEF Below, IsStrictPrefix, Parent
<1>4. /\ \A r : r \in DOMAIN u <=>
             r \in Spared(t, src, m) \/ \E s \in Within(t, src) : r = Moved(src, m, s)
      /\ \A r \in Spared(t, src, m) : u[r] = t[r]
      /\ \A s \in Within(t, src) : /\ Moved(src, m, s) \in Path \ Spared(t, src, m)
                                 /\ u[Moved(src, m, s)] = t[s]
  BY <1>0, <1>1, RenamedIs
<1>5. \A r \in DOMAIN t : r \in Within(t, src) \/ r \in Spared(t, src, m)
  BY <1>1 DEF Spared, Within
<1>6. \A r \in DOMAIN t : ~IsPrefix(src, r) => r \in Spared(t, src, m)
  BY <1>1 DEF Spared
<1>7. \A r \in Spared(t, src, m) : r \in DOMAIN t
  BY DEF Spared
<1>8. \A s \in Within(t, src) : s \in DOMAIN t /\ IsPrefix(m, Moved(src, m, s))
  <2> SUFFICES ASSUME NEW s \in Within(t, src) PROVE s \in DOMAIN t /\ IsPrefix(m, Moved(src, m, s))
    OBVIOUS
  <2>1. s \in DOMAIN t /\ IsPrefix(src, s)
    BY DEF Within
  <2> QED
    BY <1>1, <2>1, GrownAt, MovedBack
<1>9. Contents(u) = Contents(t)
  <2>1. ASSUME NEW r \in DOMAIN u, u[r].kind = "file"
        PROVE  \E s \in DOMAIN t : t[s].kind = "file" /\ t[s].data = u[r].data
    <3>1. \E s \in DOMAIN t : t[s] = u[r]
      BY <1>4, <1>7, <1>8
    <3> QED
      BY <2>1, <3>1
  <2>2. ASSUME NEW s \in DOMAIN t, t[s].kind = "file"
        PROVE  \E r \in DOMAIN u : u[r].kind = "file" /\ u[r].data = t[s].data
    <3>1. \E r \in DOMAIN u : u[r] = t[s]
      BY <1>4, <1>5
    <3> QED
      BY <2>2, <3>1
  <2> QED
    BY <2>1, <2>2 DEF Contents
<1> QED
  BY <1>3, <1>4, <1>6, <1>7, <1>8, <1>9 DEF m, u

\* The matches, which are places of the tree, each once.
LEMMA MatchesAre ==
  ASSUME NEW t, Grown(t), NEW glob, glob \subseteq Path
  PROVE  LET found == Matches(t, glob)
         IN /\ found \in Seq(Path) /\ Len(found) \in Nat
            /\ \A i \in 1..Len(found) : found[i] \in glob \cap DOMAIN t
            /\ \A i, j \in 1..Len(found) : i # j => found[i] # found[j]
<1> DEFINE hit == glob \cap DOMAIN t
           found == Matches(t, glob)
<1>1. hit \in SUBSET Path /\ IsFiniteSet(hit)
  BY FS_Subset DEF Grown, IsWhole
<1>2. found = InOrder(hit)
  BY DEF Matches
<1> HIDE DEF hit, found
<1>3. /\ found \in Seq(hit) /\ Len(found) = Cardinality(hit)
      /\ \A i, j \in 1..Cardinality(hit) : i < j => found[i] # found[j]
  BY <1>1, <1>2, InOrderIs
<1>4. found \in Seq(Path) /\ Len(found) \in Nat
  BY <1>1, <1>3, SeqMonotonic
<1>5. \A i \in 1..Len(found) : found[i] \in hit
  BY <1>3
<1>6. \A i, j \in 1..Len(found) : i # j => found[i] # found[j]
  <2> SUFFICES ASSUME NEW i \in 1..Len(found), NEW j \in 1..Len(found), i # j
               PROVE  found[i] # found[j]
    OBVIOUS
  <2>1. i < j \/ j < i
    BY <1>4
  <2> QED
    BY <1>3, <2>1
<1> QED
  BY <1>4, <1>5, <1>6 DEF hit, found

\* The matches from the k-th on are still to be moved, and nothing is where they
\* go; the directory is where it was.
Apart(t, to, f) ==
  /\ f \in Seq(Path) /\ Len(f) \in Nat
  /\ \A i \in 1..Len(f) :
       /\ f[i] \in Path /\ f[i] # <<>>
       /\ \A q \in Path : IsPrefix(q, to) => ~IsPrefix(f[i], Lstat(t, q)) /\ ~IsPrefix(f[i], Stat(t, q))
  /\ \A i, j \in 1..Len(f) : i # j => Last(f[i]) # Last(f[j]) /\ ~IsPrefix(f[i], f[j])
Moving(t, to, f, u, k) ==
  /\ Grown(u) /\ Contents(u) = Contents(t) /\ IsDir(u, to)
  /\ \A q \in Path : IsPrefix(q, to) => Stat(u, q) = Stat(t, q) /\ Lstat(u, q) = Lstat(t, q)
  /\ \A i \in 1..Len(f) :
       i > k => f[i] \in DOMAIN u /\ Append(Stat(t, to), Last(f[i])) \notin DOMAIN u

LEMMA MovingStep ==
  ASSUME NEW t, NEW to \in Path, NEW f, Apart(t, to, f), NEW u, NEW k \in 0..(Len(f) - 1),
         Moving(t, to, f, u, k)
  PROVE  MoveOne(u, f[k + 1], to).ok /\ Moving(t, to, f, MoveOne(u, f[k + 1], to).tree, k + 1)
<1> DEFINE p == f[k + 1]
           d == Stat(t, to)
           m == Append(d, Last(p))
           v == Renamed(u, p, m)
<1>1. Len(f) \in Nat /\ k \in Nat /\ k + 1 \in 1..Len(f) /\ k + 1 > k
  BY DEF Apart
<1>2. Grown(u) /\ Contents(u) = Contents(t) /\ IsDir(u, to) /\ Stat(u, to) = d
  BY PrefixSelf DEF Moving
<1>3. p \in DOMAIN u /\ m \notin DOMAIN u
  BY <1>1 DEF Moving
<1>4. /\ p \in Path /\ p # <<>>
      /\ \A q \in Path : IsPrefix(q, to) => ~IsPrefix(p, Lstat(t, q)) /\ ~IsPrefix(p, Stat(t, q))
  BY <1>1 DEF Apart
<1>5. Beside(u, p, to)
  BY <1>2, <1>3, <1>4, PrefixSelf DEF Beside
<1>6. MoveOne(u, p, to) = Ok(v)
  BY <1>2, <1>5, MoveOneBeside
<1>7. /\ Grown(v) /\ Contents(v) = Contents(u)
      /\ \A r \in DOMAIN u : ~IsPrefix(p, r) => r \in DOMAIN v /\ v[r] = u[r]
      /\ \A r \in DOMAIN v : r \in DOMAIN u \/ IsPrefix(m, r)
  <2>1. m = Slot(u, p, to) /\ v = Besides(u, p, to)
    BY <1>2 DEF Slot, Besides
  <2> HIDE DEF m, v, d, p
  <2>2. /\ Grown(Besides(u, p, to)) /\ Contents(Besides(u, p, to)) = Contents(u)
        /\ \A r \in DOMAIN u : ~IsPrefix(p, r) =>
             r \in DOMAIN Besides(u, p, to) /\ Besides(u, p, to)[r] = u[r]
        /\ \A r \in DOMAIN Besides(u, p, to) : r \in DOMAIN u \/ IsPrefix(Slot(u, p, to), r)
    BY <1>2, <1>5, BesideIs
  <2> QED
    BY <2>1, <2>2
<1>8. m \in Path /\ Last(p) \in Nat /\ d \in Path
  BY <1>2, <1>5, BesidePlace
<1> HIDE DEF v, d, p
<1>9. ASSUME NEW q \in Path, IsPrefix(q, to) PROVE Stat(v, q) = Stat(t, q) /\ Lstat(v, q) = Lstat(t, q)
  <2>1. ASSUME NEW r \in Path, IsPrefix(r, to)
        PROVE  Lstat(u, r) \in DOMAIN u \cap DOMAIN v /\ v[Lstat(u, r)] = u[Lstat(u, r)]
    <3>1. Lstat(u, r) \in DOMAIN u
      BY <1>2, <2>1, ThereAbove DEF IsDir, Is, Exists
    <3>2. ~IsPrefix(p, Lstat(u, r))
      BY <1>4, <2>1 DEF Moving
    <3> QED
      BY <1>7, <3>1, <3>2
  <2>2. Stat(v, q) = Stat(u, q) /\ Lstat(v, q) = Lstat(u, q)
    BY <1>2, <1>7, <1>9, <2>1, StatKept
  <2> QED
    BY <1>9, <2>2 DEF Moving
<1>10. IsDir(v, to)
  <2>1. Stat(v, to) = d /\ Stat(u, to) = d
    BY <1>2, <1>9, PrefixSelf DEF d
  <2>2. ~IsPrefix(p, d)
    BY <1>4, PrefixSelf DEF d
  <2> QED
    BY <1>2, <1>7, <2>1, <2>2 DEF IsDir, Is
<1>11. ASSUME NEW i \in 1..Len(f), i > k + 1
       PROVE  f[i] \in DOMAIN v /\ Append(d, Last(f[i])) \notin DOMAIN v
  <2>1. i > k /\ i # k + 1
    BY <1>1, <1>11
  <2>2. f[i] \in DOMAIN u /\ Append(d, Last(f[i])) \notin DOMAIN u
    BY <2>1 DEF Moving, d
  <2>3. ~IsPrefix(p, f[i]) /\ Last(f[i]) # Last(p) /\ f[i] \in Path /\ f[i] # <<>>
    BY <1>1, <2>1 DEF Apart, p
  <2>4. f[i] \in DOMAIN v
    BY <1>7, <2>2, <2>3
  <2> DEFINE e == Append(d, Last(f[i]))
  <2>5. e \in Path /\ Last(e) = Last(f[i]) /\ Len(e) = Len(d) + 1 /\ e # <<>>
    BY <1>8, <2>3, PathFront, PathAppend
  <2>6. Last(m) = Last(p) /\ Len(m) = Len(d) + 1
    BY <1>8, PathAppend
  <2> HIDE DEF e, m
  <2>7. ~IsPrefix(m, e)
    <3> SUFFICES ASSUME IsPrefix(m, e) PROVE FALSE
      OBVIOUS
    <3>1. m = e
      BY <1>8, <2>5, <2>6, PrefixSame DEF Path
    <3> QED
      BY <2>3, <2>5, <2>6, <3>1
  <2>8. e \notin DOMAIN v
    BY <1>7, <2>2, <2>7 DEF e
  <2> QED
    BY <2>4, <2>8 DEF e
<1>12. Moving(t, to, f, v, k + 1)
  BY <1>2, <1>7, <1>9, <1>10, <1>11 DEF Moving, d
<1> QED
  BY <1>6, <1>12 DEF Ok, p

\* A move of matches side by side succeeds, and loses no file.
LEMMA MovesKeep ==
  ASSUME NEW t, Grown(t), NEW o, o.op = "move", IsOp(o), SideBySide(t, o)
  PROVE  RunEach(t, o).ok /\ Contents(RunEach(t, o).tree) = Contents(t)
<1> DEFINE f == Matches(t, o.glob)
           n == Len(f)
           s == [found |-> f, o |-> o]
           r == Loop("each", s, Ok(t), n)
           S == {k \in 0..n : r[k].ok /\ Moving(t, o.to, f, r[k].tree, k)}
<1>1. o.glob \subseteq Path /\ o.to \in Path
  BY DEF IsOp
<1>2. /\ f \in Seq(Path) /\ n \in Nat
      /\ \A i \in 1..n : f[i] \in o.glob \cap DOMAIN t
      /\ \A i, j \in 1..n : i # j => f[i] # f[j]
  BY <1>1, MatchesAre
<1>3. RunEach(t, o) = r[n]
  BY <1>2, RunEachLoop
<1> HIDE DEF f
<1>4. r[0] = Ok(t) /\ \A i \in 1..n : r[i] = After("each", s, r[i - 1], i)
  <2> HIDE DEF s, n
  <2> QED
    BY <1>2, LoopIs
<1>5. \A x, i : After("each", s, x, i) = IF x.ok THEN RunOne(x.tree, f[i], o) ELSE x
  BY DEF After
<1> HIDE DEF r, s
<1>6. Prefixes(o.to) = {q \in Path : IsPrefix(q, o.to)}
  BY <1>1, PrefixesAre
<1>7. /\ IsDir(t, o.to)
      /\ \A i \in 1..n :
           /\ f[i] \in Path /\ f[i] # <<>> /\ ~Present(t, Append(o.to, Last(f[i])))
           /\ \A q \in Prefixes(o.to) : ~IsPrefix(f[i], Lstat(t, q)) /\ ~IsPrefix(f[i], Stat(t, q))
      /\ \A i, j \in 1..n : i # j => Last(f[i]) # Last(f[j]) /\ ~Below(f[i], f[j])
  BY <1>1, <1>2 DEF SideBySide
<1>8. Apart(t, o.to, f)
  BY <1>2, <1>6, <1>7 DEF Apart, Below, IsStrictPrefix
<1>9. Moving(t, o.to, f, t, 0)
  <2>1. ASSUME NEW i \in 1..n PROVE Append(Stat(t, o.to), Last(f[i])) \notin DOMAIN t
    <3> DEFINE e == Append(o.to, Last(f[i]))
    <3>1. ~Present(t, e)
      BY <1>7
    <3>2. e \in Path /\ e # <<>> /\ Front(e) = o.to /\ Last(e) = Last(f[i])
      BY <1>1, <1>7, PathFront, PathAppend
    <3> HIDE DEF e
    <3>3. Lstat(t, e) = Append(Stat(t, Front(e)), Last(e))
      BY <3>2, StatIs
    <3>4. Lstat(t, e) = Append(Stat(t, o.to), Last(f[i]))
      BY <3>2, <3>3, Zenon
    <3>5. Lstat(t, e) \notin DOMAIN t
      BY <3>1 DEF Present
    <3> QED
      BY <3>4, <3>5, Zenon
  <2> QED
    BY <1>2, <1>7, <2>1 DEF Moving
<1>10. 0 \in S
  BY <1>2, <1>4, <1>9 DEF Ok
<1>11. ASSUME NEW k \in 0..(n - 1), k \in S PROVE k + 1 \in S
  <2>1. k + 1 \in 1..n /\ k + 1 \in 0..n /\ k + 1 - 1 = k
    BY <1>2
  <2>2. PICK i \in 1..n : i = k + 1 /\ i - 1 = k
    BY <2>1
  <2>3. r[k + 1] = After("each", s, r[k], k + 1)
    BY <1>4, <2>2
  <2>4. r[k + 1] = RunOne(r[k].tree, f[k + 1], o)
    BY <1>5, <1>11, <2>3
  <2>5. r[k + 1] = MoveOne(r[k].tree, f[k + 1], o.to)
    BY <2>4 DEF RunOne
  <2>6. k \in 0..(Len(f) - 1) /\ Moving(t, o.to, f, r[k].tree, k)
    BY <1>11
  <2> QED
    BY <1>1, <1>8, <2>1, <2>5, <2>6, MovingStep
<1>12. 0..n \subseteq S
  <2> HIDE DEF S
  <2> QED
    BY <1>2, <1>10, <1>11, Climb
<1>13. n \in S
  BY <1>2, <1>12
<1> QED
  BY <1>3, <1>13 DEF Moving


-----------------------------------------------------------------------------
(***************************************************************************)
(* What the calls of a layer's entries do when no link or file is on the   *)
(* way: Straight(t, p) says that what there is of a path is directories.   *)
(***************************************************************************)
Straight(t, p) == \A q \in Path : IsPrefix(q, p) /\ q \in DOMAIN t => t[q].kind = "dir"

LEMMA StraightIs ==
  ASSUME NEW t, Grown(t), NEW p \in Path, Straight(t, p), NEW q \in Path, IsPrefix(q, p)
  PROVE  /\ Straight(t, q) /\ Stat(t, q) = q /\ Lstat(t, q) = q
         /\ Present(t, q) <=> q \in DOMAIN t
         /\ IsDir(t, q) <=> q \in DOMAIN t
         /\ ~IsFile(t, q)
<1>1. Straight(t, q)
  BY PrefixTrans DEF Straight
<1>2. \A r \in Path : IsPrefix(r, q) /\ r \in DOMAIN t => t[r].kind # "link"
  BY <1>1 DEF Straight
<1>3. Stat(t, q) = q
  BY <1>2, StatStraight
<1>4. Lstat(t, q) = q
  <2>1. CASE q = <<>>
    BY <2>1, StatIs
  <2>2. CASE q # <<>>
    BY <1>2, <2>2, LstatStraight, FrontPrefix, PrefixTrans
  <2> QED
    BY <2>1, <2>2
<1>5. q \in DOMAIN t => t[q].kind = "dir"
  BY DEF Straight
<1> QED
  BY <1>1, <1>3, <1>4, <1>5 DEF Present, IsDir, IsFile, Is

LEMMA DirsMade ==
  ASSUME NEW t, Grown(t), NEW p \in Path, Straight(t, p)
  PROVE  LET made == CreateDirAll(t, p)
         IN /\ made.ok /\ Grown(made.tree) /\ Straight(made.tree, p)
            /\ \A r : r \in DOMAIN made.tree <=> r \in DOMAIN t \/ (r \in Path /\ IsPrefix(r, p))
            /\ \A r \in DOMAIN made.tree :
                 made.tree[r] = IF r \in DOMAIN t THEN t[r] ELSE Dir(DirMode)
<1> DEFINE places == {Stat(t, q) : q \in Prefixes(p)}
           u == [q \in DOMAIN t \cup places |-> IF q \in DOMAIN t THEN t[q] ELSE Dir(DirMode)]
<1>1. Prefixes(p) = {q \in Path : IsPrefix(q, p)}
  BY PrefixesAre
<1>2. \A q \in Prefixes(p) : Stat(t, q) = q /\ (Present(t, q) => IsDir(t, q))
  BY <1>1, StraightIs
<1>3. CreateDirAll(t, p) = Ok(u)
  BY <1>2 DEF CreateDirAll
<1>4. \A r : r \in places <=> r \in Path /\ IsPrefix(r, p)
  BY <1>1, <1>2
<1> HIDE DEF places
<1>5. /\ \A r : r \in DOMAIN u <=> r \in DOMAIN t \/ (r \in Path /\ IsPrefix(r, p))
      /\ \A r \in DOMAIN u : u[r] = IF r \in DOMAIN t THEN t[r] ELSE Dir(DirMode)
  BY <1>4
<1> HIDE DEF u
<1>6. CreateDirAll(t, p).ok /\ CreateDirAll(t, p).tree = u
  BY <1>3 DEF Ok
<1>7. Grown(u)
  BY <1>6, CreateDirAllGrown
<1>8. Straight(u, p)
  <2>1. Dir(DirMode).kind = "dir"
    BY NodesAre
  <2> QED
    BY <1>5, <2>1 DEF Straight
<1> QED
  BY <1>5, <1>6, <1>7, <1>8

\* What is removed goes with all that is below it.
LEMMA UnlinkStraight ==
  ASSUME NEW t, Grown(t), NEW p \in Path, Lstat(t, p) = p
  PROVE  /\ \A r : r \in DOMAIN Unlink(t, p) <=> r \in DOMAIN t /\ ~IsPrefix(p, r)
         /\ \A r \in DOMAIN Unlink(t, p) : Unlink(t, p)[r] = t[r]
<1>1. CASE p \in DOMAIN t
  BY <1>1 DEF Unlink, Present, Cut, Restrict
<1>2. CASE p \notin DOMAIN t
  <2>1. ASSUME NEW r \in DOMAIN t, IsPrefix(p, r) PROVE FALSE
    BY <1>2, <2>1, AboveIs
  <2>2. Unlink(t, p) = t
    BY <1>2 DEF Unlink, Present
  <2> QED
    BY <2>1, <2>2
<1> QED
  BY <1>1, <1>2

LEMMA ReplaceStraight ==
  ASSUME NEW t, Grown(t), NEW p \in Path, p # <<>>, Straight(t, Front(p)), NEW n
  PROVE  LET put == Replace(t, p, n)
         IN /\ put.ok
            /\ \A r : r \in DOMAIN put.tree <=>
                        \/ r = p \/ (r \in Path /\ IsPrefix(r, Front(p)))
                        \/ r \in DOMAIN t /\ ~IsPrefix(p, r)
            /\ put.tree[p] = n
            /\ \A r \in DOMAIN put.tree : r # p =>
                 put.tree[r] = IF r \in DOMAIN t THEN t[r] ELSE Dir(DirMode)
<1> DEFINE made == CreateDirAll(t, Front(p))
           cut == Unlink(made.tree, p)
<1>1. /\ Parent(p) = Front(p) /\ Front(p) \in Path
      /\ \A r \in Path : IsPrefix(r, Front(p)) => ~IsPrefix(p, r)
  <2>1. Len(Front(p)) = Len(p) - 1 /\ Len(p) \in Nat /\ Front(p) \in Path
    BY PathFront
  <2>2. ASSUME NEW r \in Path, IsPrefix(r, Front(p)), IsPrefix(p, r) PROVE FALSE
    BY <2>1, <2>2, PrefixIs
  <2> QED
    BY <2>1, <2>2 DEF Parent
<1>2. /\ made.ok /\ Grown(made.tree) /\ Straight(made.tree, Front(p))
      /\ \A r : r \in DOMAIN made.tree <=> r \in DOMAIN t \/ (r \in Path /\ IsPrefix(r, Front(p)))
      /\ \A r \in DOMAIN made.tree :
           made.tree[r] = IF r \in DOMAIN t THEN t[r] ELSE Dir(DirMode)
  BY <1>1, DirsMade
<1>3. Replace(t, p, n) = Create(cut, Lstat(cut, p), n)
  BY <1>1, <1>2 DEF Replace
<1> HIDE DEF made
<1>4. Lstat(made.tree, p) = p
  BY <1>1, <1>2, StraightIs, PrefixSelf, LstatSame
<1>5. /\ \A r : r \in DOMAIN cut <=> r \in DOMAIN made.tree /\ ~IsPrefix(p, r)
      /\ \A r \in DOMAIN cut : cut[r] = made.tree[r]
      /\ Grown(cut)
  BY <1>2, <1>4, UnlinkStraight, UnlinkGrown
<1> HIDE DEF cut
<1>6. Straight(cut, Front(p))
  BY <1>2, <1>5 DEF Straight
<1>7. Lstat(cut, p) = p
  BY <1>1, <1>5, <1>6, StraightIs, PrefixSelf, LstatSame
<1>8. p \notin DOMAIN cut /\ Front(p) \in DOMAIN cut /\ cut[Front(p)].kind = "dir"
  <2>1. IsPrefix(p, p) /\ IsPrefix(Front(p), Front(p))
    BY <1>1, PrefixSelf
  <2> QED
    BY <1>1, <1>2, <1>5, <1>6, <2>1 DEF Straight
<1>9. Create(cut, p, n).ok
  BY <1>1, <1>8 DEF Create, Ok
<1>10. /\ DOMAIN Create(cut, p, n).tree = DOMAIN cut \cup {p}
       /\ Create(cut, p, n).tree[p] = n
       /\ \A r \in DOMAIN cut : r # p => Create(cut, p, n).tree[r] = cut[r]
  BY <1>9, CreateIs
<1> DEFINE u == Create(cut, p, n).tree
<1>11. Replace(t, p, n).ok /\ Replace(t, p, n).tree = u
  BY <1>3, <1>7, <1>9
<1> HIDE DEF u
<1>12. /\ \A r : r \in DOMAIN u <=>
                   \/ r = p \/ (r \in Path /\ IsPrefix(r, Front(p)))
                   \/ r \in DOMAIN t /\ ~IsPrefix(p, r)
       /\ u[p] = n
       /\ \A r \in DOMAIN u : r # p => u[r] = IF r \in DOMAIN t THEN t[r] ELSE Dir(DirMode)
  BY <1>1, <1>2, <1>5, <1>10 DEF u
<1> QED
  BY <1>11, <1>12

LEMMA DirectoryStraight ==
  ASSUME NEW t, Grown(t), NEW p \in Path, Straight(t, p), NEW m
  PROVE  LET put == ApplyDirectory(t, p, m)
         IN /\ put.ok
            /\ \A r : r \in DOMAIN put.tree <=> r \in DOMAIN t \/ (r \in Path /\ IsPrefix(r, p))
            /\ put.tree[p] = Dir(m)
            /\ \A r \in DOMAIN put.tree : r # p =>
                 put.tree[r] = IF r \in DOMAIN t THEN t[r] ELSE Dir(DirMode)
<1> DEFINE made == CreateDirAll(t, p)
           v == made.tree
           u == Chmod(v, p, m)
<1>1. /\ made.ok /\ Grown(v) /\ Straight(v, p)
      /\ \A r : r \in DOMAIN v <=> r \in DOMAIN t \/ (r \in Path /\ IsPrefix(r, p))
      /\ \A r \in DOMAIN v : v[r] = IF r \in DOMAIN t THEN t[r] ELSE Dir(DirMode)
  BY DirsMade
<1>2. ApplyDirectory(t, p, m).ok /\ ApplyDirectory(t, p, m).tree = u
  BY <1>1 DEF ApplyDirectory, Ok
<1> HIDE DEF made
<1>3. IsPrefix(p, p)
  BY PrefixSelf
<1>4. Stat(v, p) = p /\ p \in DOMAIN v /\ v[p].kind = "dir"
  <2>1. Stat(v, p) = p /\ p \in DOMAIN v
    BY <1>1, <1>3, StraightIs
  <2> QED
    BY <1>1, <1>3, <2>1 DEF Straight
<1>5. v[p].data = "" /\ v[p].to = <<>>
  <2>1. v[p] = Dir(v[p].mode)
    BY <1>1, <1>4, GrownAt DEF IsNode
  <2>2. \A k : Dir(k).data = "" /\ Dir(k).to = <<>>
    BY DEF Dir, Node
  <2> QED
    BY <2>1, <2>2, Zenon
<1> HIDE DEF v
<1>6. u = [v EXCEPT ![p] = Dir(m)]
  BY <1>4, <1>5 DEF Chmod, Dir
<1> HIDE DEF u
<1>7. DOMAIN u = DOMAIN v /\ u[p] = Dir(m) /\ \A r \in DOMAIN v : r # p => u[r] = v[r]
  BY <1>4, <1>6
<1> QED
  BY <1>1, <1>2, <1>7

LEMMA ClearStraight ==
  ASSUME NEW t, Grown(t), NEW p \in Path, Straight(t, p)
  PROVE  LET u == IF IsDir(t, p) THEN Emptied(t, Stat(t, p)) ELSE t
         IN /\ ~ReadDirFails(t, p)
            /\ \A r : r \in DOMAIN u <=> r \in DOMAIN t /\ ~Below(p, r)
            /\ \A r \in DOMAIN u : u[r] = t[r]
<1>1. Prefixes(p) = {q \in Path : IsPrefix(q, p)}
  BY PrefixesAre
<1>2. ~ReadDirFails(t, p)
  BY <1>1, StraightIs DEF ReadDirFails, FileInTheWay
<1>3. Stat(t, p) = p /\ (IsDir(t, p) <=> p \in DOMAIN t)
  BY PrefixSelf, StraightIs
<1>4. CASE p \in DOMAIN t
  BY <1>2, <1>3, <1>4 DEF Emptied, Restrict
<1>5. CASE p \notin DOMAIN t
  <2>1. ASSUME NEW r \in DOMAIN t, Below(p, r) PROVE FALSE
    BY <1>5, <2>1, AboveIs DEF Below, IsStrictPrefix
  <2> QED
    BY <1>2, <1>3, <1>5, <2>1
<1> QED
  BY <1>4, <1>5

-----------------------------------------------------------------------------
(***************************************************************************)
(* A layer entry by entry.  What the first i entries make, need and hide,  *)
(* when the directories of C have been cleared, is the tree Shows; after   *)
(* the last entry that is the union.                                       *)
(***************************************************************************)
MadeBy(layer, i, p) == \E j \in 1..i : j \in Makes(layer) /\ layer[j].path = p
NeededBy(layer, i, p) == \E j \in 1..i : j \in Makes(layer) /\ IsPrefix(p, Parent(layer[j].path))
HiddenBy(layer, i, C, p) ==
  \/ \E c \in C : Below(c, p)
  \/ \E j \in 1..i : \/ layer[j].op = "remove" /\ IsPrefix(layer[j].path, p)
                     \/ layer[j].op \in {"file", "link"} /\ Below(layer[j].path, p)
ClearedBy(layer, i, c) ==
  c \in Opaques(layer) /\ \E j \in 1..i : layer[j].op # "remove" /\ Home(layer[j]) = c
NodeOf(e) ==
  CASE e.op = "file" -> File(e.data, e.mode)
    [] e.op = "link" -> Link(e.to)
    [] e.op = "dir" -> Dir(e.mode)

Shown(t, layer, i, C, p) ==
  MadeBy(layer, i, p) \/ NeededBy(layer, i, p) \/ (p \in DOMAIN t /\ ~HiddenBy(layer, i, C, p))

Shows(t, layer, i, C, u) ==
  /\ \A p : p \in DOMAIN u <=> p \in Path /\ Shown(t, layer, i, C, p)
  /\ \A j \in 1..i : j \in Makes(layer) => u[layer[j].path] = NodeOf(layer[j])
  /\ \A p \in DOMAIN u : ~MadeBy(layer, i, p) =>
       u[p] = IF p \in DOMAIN t /\ ~HiddenBy(layer, i, C, p) THEN t[p] ELSE Dir(DirMode)

\* A tree and a layer that is regular and plain for it.
Apt(t, layer) ==
  /\ Grown(t) /\ Len(layer) \in Nat /\ DOMAIN layer = 1..Len(layer)
  /\ \A i \in 1..Len(layer) : IsEntry(layer[i])
  /\ Regular(layer) /\ Plain(t, layer)

LEMMA AptNames ==
  ASSUME NEW t, NEW layer, Apt(t, layer), NEW i \in 1..Len(layer)
  PROVE  /\ layer[i].path \in Path /\ layer[i].op # "unsafe" /\ Parent(layer[i].path) \in Path
         /\ layer[i].op \in {"file", "link", "remove"} => layer[i].path # <<>>
         /\ i \in Makes(layer) <=> layer[i].op \in {"file", "dir", "link"}
         /\ i \in Makes(layer) => IsNode(NodeOf(layer[i])) /\ NodeOf(layer[i]).kind = layer[i].op
<1>1. layer[i].path \in Path /\ layer[i].to \in Path /\ Parent(layer[i].path) \in Path
  BY ParentPath DEF Apt, IsEntry
<1>2. /\ layer[i].op # "unsafe"
      /\ layer[i].op \in {"file", "link", "remove"} => layer[i].path # <<>>
  BY DEF Apt, Regular
<1>3. i \in Makes(layer) <=> layer[i].op \in {"file", "dir", "link"}
  BY DEF Apt, Makes
<1>4. ASSUME layer[i].op \in {"file", "dir", "link"}
      PROVE  IsNode(NodeOf(layer[i])) /\ NodeOf(layer[i]).kind = layer[i].op
  BY <1>1, <1>4, NodesAre DEF NodeOf
<1> QED
  BY <1>1, <1>2, <1>3, <1>4

LEMMA AptRegular ==
  ASSUME NEW t, NEW layer, Apt(t, layer), NEW j \in Makes(layer)
  PROVE  /\ j \in 1..Len(layer)
         /\ \A i \in Makes(layer) : layer[i].path = layer[j].path => i = j
         /\ \A i \in 1..Len(layer) :
              layer[i].op = "remove" /\ IsPrefix(layer[i].path, layer[j].path) => i < j
         /\ \A c \in Opaques(layer) : Below(c, layer[j].path) => ClearedBy(layer, j, c)
         /\ \A i \in Makes(layer) : Below(layer[i].path, layer[j].path) => layer[i].op = "dir"
<1>1. j \in 1..Len(layer)
  BY DEF Apt, Makes
<1>2. \A i \in Makes(layer) : layer[i].path = layer[j].path => i = j
  BY DEF Apt, Regular
<1>3. \A i \in 1..Len(layer) :
        layer[i].op = "remove" /\ IsPrefix(layer[i].path, layer[j].path) => i < j
  BY DEF Apt, Regular
<1>4. ASSUME NEW c \in Opaques(layer), Below(c, layer[j].path) PROVE ClearedBy(layer, j, c)
  <2>1. PICK i \in DOMAIN layer : layer[i].op = "opaque" /\ layer[i].path = c
    BY <1>4 DEF Opaques
  <2>2. \E k \in 1..j : layer[k].op # "remove" /\ Home(layer[k]) = layer[i].path
    BY <1>4, <2>1 DEF Apt, Regular
  <2> QED
    BY <1>4, <2>1, <2>2 DEF ClearedBy
<1>5. \A i \in Makes(layer) : Below(layer[i].path, layer[j].path) => layer[i].op = "dir"
  BY DEF Apt, Plain
<1> QED
  BY <1>1, <1>2, <1>3, <1>4, <1>5

\* On a new node's way: the directories above it, and what a directory is put over.
OnWay(e, q) == q \in Path /\ (IsPrefix(q, Parent(e.path)) \/ (e.op = "dir" /\ q = e.path))

LEMMA AptPlain ==
  ASSUME NEW t, NEW layer, Apt(t, layer), NEW j \in Makes(layer), NEW q \in DOMAIN t,
         OnWay(layer[j], q)
  PROVE  Hidden(layer, q) \/ t[q].kind = "dir"
<1>1. layer[j].path \in Path /\ Parent(layer[j].path) \in Path
  BY AptNames, AptRegular
<1>2. CASE IsPrefix(q, Parent(layer[j].path))
  <2>1. q \in Prefixes(Parent(layer[j].path))
    BY <1>1, <1>2, PrefixesAre DEF OnWay
  <2> QED
    BY <2>1 DEF Apt, Plain
<1>3. CASE layer[j].op = "dir" /\ q = layer[j].path
  BY <1>3 DEF Apt, Plain
<1> QED
  BY <1>2, <1>3 DEF OnWay

LEMMA AptOpaque ==
  ASSUME NEW t, NEW layer, Apt(t, layer), NEW c \in Opaques(layer)
  PROVE  /\ c \in Path
         /\ \A q \in DOMAIN t : q \in Path /\ IsPrefix(q, c) => t[q].kind = "dir"
         /\ \A j \in Makes(layer) : IsPrefix(layer[j].path, c) => layer[j].op = "dir"
<1>1. PICK i \in DOMAIN layer : layer[i].op = "opaque" /\ layer[i].path = c
  BY DEF Opaques
<1>2. c \in Path
  BY <1>1, AptNames DEF Apt
<1>3. Prefixes(c) = {q \in Path : IsPrefix(q, c)}
  BY <1>2, PrefixesAre
<1>4. \A q \in Prefixes(c) : /\ q \in DOMAIN t => t[q].kind = "dir"
                             /\ \A j \in Above(layer, q) : layer[j].op = "dir"
  BY <1>1 DEF Apt, Plain
<1>5. ASSUME NEW j \in Makes(layer), IsPrefix(layer[j].path, c) PROVE layer[j].op = "dir"
  <2>1. layer[j].path \in Path /\ j \in Above(layer, layer[j].path)
    BY <1>5, AptNames, AptRegular DEF Above
  <2> QED
    BY <1>3, <1>4, <1>5, <2>1
<1> QED
  BY <1>2, <1>3, <1>4, <1>5

LEMMA AptRemove ==
  ASSUME NEW t, NEW layer, Apt(t, layer), NEW i \in 1..Len(layer), layer[i].op = "remove"
  PROVE  /\ \A q \in DOMAIN t : q \in Path /\ IsPrefix(q, Front(layer[i].path)) => t[q].kind # "link"
         /\ \A j \in Makes(layer) : IsPrefix(layer[j].path, Front(layer[i].path)) => layer[j].op # "link"
<1>1. layer[i].path # <<>> /\ Parent(layer[i].path) \in Path
  BY AptNames
<1>2. Parent(layer[i].path) = Front(layer[i].path)
  BY <1>1 DEF Parent
<1>3. Prefixes(Front(layer[i].path)) = {q \in Path : IsPrefix(q, Front(layer[i].path))}
  BY <1>1, <1>2, PrefixesAre
<1>4. \A q \in Prefixes(Front(layer[i].path)) :
        /\ q \in DOMAIN t => t[q].kind # "link"
        /\ \A j \in Above(layer, q) : layer[j].op # "link"
  BY <1>2 DEF Apt, Plain
<1>5. ASSUME NEW j \in Makes(layer), IsPrefix(layer[j].path, Front(layer[i].path))
      PROVE  layer[j].op # "link"
  <2>1. layer[j].path \in Path /\ j \in Above(layer, layer[j].path)
    BY <1>5, AptNames, AptRegular DEF Above
  <2> QED
    BY <1>3, <1>4, <1>5, <2>1
<1> QED
  BY <1>3, <1>4, <1>5

LEMMA NextEntry ==
  ASSUME NEW layer, NEW k \in Nat, NEW p
  PROVE  /\ MadeBy(layer, k + 1, p) <=>
              MadeBy(layer, k, p) \/ (k + 1 \in Makes(layer) /\ layer[k + 1].path = p)
         /\ NeededBy(layer, k + 1, p) <=>
              \/ NeededBy(layer, k, p)
              \/ k + 1 \in Makes(layer) /\ IsPrefix(p, Parent(layer[k + 1].path))
         /\ \A C : HiddenBy(layer, k + 1, C, p) <=>
              \/ HiddenBy(layer, k, C, p)
              \/ layer[k + 1].op = "remove" /\ IsPrefix(layer[k + 1].path, p)
              \/ layer[k + 1].op \in {"file", "link"} /\ Below(layer[k + 1].path, p)
         /\ ClearedBy(layer, k + 1, p) <=>
              \/ ClearedBy(layer, k, p)
              \/ p \in Opaques(layer) /\ layer[k + 1].op # "remove" /\ Home(layer[k + 1]) = p
<1>1. \A j : j \in 1..(k + 1) <=> j \in 1..k \/ j = k + 1
  OBVIOUS
<1>2. MadeBy(layer, k + 1, p) <=>
        MadeBy(layer, k, p) \/ (k + 1 \in Makes(layer) /\ layer[k + 1].path = p)
  BY <1>1 DEF MadeBy
<1>3. NeededBy(layer, k + 1, p) <=>
        \/ NeededBy(layer, k, p)
        \/ k + 1 \in Makes(layer) /\ IsPrefix(p, Parent(layer[k + 1].path))
  BY <1>1 DEF NeededBy
<1>4. \A C : HiddenBy(layer, k + 1, C, p) <=>
        \/ HiddenBy(layer, k, C, p)
        \/ layer[k + 1].op = "remove" /\ IsPrefix(layer[k + 1].path, p)
        \/ layer[k + 1].op \in {"file", "link"} /\ Below(layer[k + 1].path, p)
  BY <1>1 DEF HiddenBy
<1>5. ClearedBy(layer, k + 1, p) <=>
        \/ ClearedBy(layer, k, p)
        \/ p \in Opaques(layer) /\ layer[k + 1].op # "remove" /\ Home(layer[k + 1]) = p
  BY <1>1 DEF ClearedBy
<1> QED
  BY <1>2, <1>3, <1>4, <1>5

\* Where a node that is shown comes from.
LEMMA Origin ==
  ASSUME NEW t, NEW layer, Apt(t, layer), NEW k \in 0..Len(layer), NEW C, NEW u,
         Shows(t, layer, k, C, u), NEW q \in DOMAIN u
  PROVE  /\ q \in Path
         /\ \/ \E j \in Makes(layer) : j <= k /\ layer[j].path = q /\ u[q].kind = layer[j].op
            \/ q \in DOMAIN t /\ ~HiddenBy(layer, k, C, q) /\ u[q] = t[q]
            \/ u[q].kind = "dir"
<1>1. k \in Nat /\ Len(layer) \in Nat
  BY DEF Apt
<1>2. CASE MadeBy(layer, k, q)
  <2>1. PICK j \in 1..k : j \in Makes(layer) /\ layer[j].path = q
    BY <1>2 DEF MadeBy
  <2>2. j \in 1..Len(layer) /\ j <= k
    BY <1>1
  <2>3. u[q] = NodeOf(layer[j])
    BY <2>1 DEF Shows
  <2>4. u[q].kind = layer[j].op
    BY <2>1, <2>2, <2>3, AptNames
  <2> QED
    BY <2>1, <2>2, <2>4 DEF Shows
<1>3. CASE ~MadeBy(layer, k, q)
  <2>1. Dir(DirMode).kind = "dir"
    BY NodesAre
  <2>2. u[q] = IF q \in DOMAIN t /\ ~HiddenBy(layer, k, C, q) THEN t[q] ELSE Dir(DirMode)
    BY <1>3 DEF Shows
  <2> QED
    BY <2>1, <2>2 DEF Shows
<1> QED
  BY <1>2, <1>3

\* What hides a place on a new node's way has done so before the node is made.
LEMMA HiddenInTime ==
  ASSUME NEW t, NEW layer, Apt(t, layer), NEW k \in 0..(Len(layer) - 1), k + 1 \in Makes(layer),
         NEW C, \A c : ClearedBy(layer, k + 1, c) => c \in C,
         NEW q, OnWay(layer[k + 1], q), Hidden(layer, q)
  PROVE  HiddenBy(layer, k, C, q)
<1> DEFINE p == layer[k + 1].path
<1>1. Len(layer) \in Nat /\ DOMAIN layer = 1..Len(layer) /\ k + 1 \in 1..Len(layer)
  BY DEF Apt
<1>2. p \in Path /\ q \in Path /\ IsPrefix(q, p)
  <2>1. p \in Path /\ Parent(p) \in Path
    BY <1>1, AptNames
  <2>2. IsPrefix(Parent(p), p)
    BY <2>1, PrefixSelf, FrontPrefix DEF Parent
  <2> QED
    BY <2>1, <2>2, PrefixSelf, PrefixTrans DEF OnWay
<1> HIDE DEF p
<1>3. ASSUME NEW c \in Path, Below(c, q) PROVE Below(c, p)
  <2>1. IsPrefix(c, q) /\ c # q
    BY <1>3 DEF Below, IsStrictPrefix
  <2>2. IsPrefix(c, p)
    BY <1>2, <2>1, PrefixTrans
  <2>3. c # p
    BY <1>2, <2>1, PrefixSame, PrefixIs
  <2> QED
    BY <2>2, <2>3 DEF Below, IsStrictPrefix
<1>4. PICK i \in DOMAIN layer :
        \/ layer[i].op = "remove" /\ IsPrefix(layer[i].path, q)
        \/ layer[i].op = "opaque" /\ Below(layer[i].path, q)
        \/ layer[i].op \in {"file", "link"} /\ Below(layer[i].path, q)
  BY DEF Hidden
<1>5. i \in 1..Len(layer) /\ layer[i].path \in Path
  BY <1>1, AptNames
<1>6. CASE layer[i].op = "remove" /\ IsPrefix(layer[i].path, q)
  <2>1. IsPrefix(layer[i].path, p)
    BY <1>2, <1>5, <1>6, PrefixTrans
  <2>2. i < k + 1
    BY <1>5, <1>6, <2>1, AptRegular DEF p
  <2>3. i \in 1..k
    BY <1>1, <1>5, <2>2
  <2> QED
    BY <1>6, <2>3 DEF HiddenBy
<1>7. CASE layer[i].op = "opaque" /\ Below(layer[i].path, q)
  <2>1. layer[i].path \in Opaques(layer)
    BY <1>1, <1>5, <1>7 DEF Opaques, Apt, Regular
  <2>2. ClearedBy(layer, k + 1, layer[i].path)
    BY <1>3, <1>5, <1>7, <2>1, AptRegular DEF p
  <2> QED
    BY <1>7, <2>2 DEF HiddenBy
<1>8. CASE layer[i].op \in {"file", "link"} /\ Below(layer[i].path, q)
  <2>1. i \in Makes(layer) /\ layer[i].op # "dir"
    BY <1>5, <1>8, AptNames
  <2> QED
    BY <1>3, <1>5, <1>8, <2>1, AptRegular DEF p
<1> QED
  BY <1>4, <1>6, <1>7, <1>8

\* A new node is made through directories only.
LEMMA WayIsStraight ==
  ASSUME NEW t, NEW layer, Apt(t, layer), NEW k \in 0..(Len(layer) - 1), k + 1 \in Makes(layer),
         NEW C, \A c : ClearedBy(layer, k + 1, c) => c \in C,
         NEW u, Shows(t, layer, k, C, u), NEW q \in DOMAIN u, OnWay(layer[k + 1], q)
  PROVE  u[q].kind = "dir"
<1> DEFINE p == layer[k + 1].path
<1>1. Len(layer) \in Nat /\ k \in 0..Len(layer) /\ k \in Nat /\ k + 1 \in 1..Len(layer)
  BY DEF Apt
<1>2. ASSUME NEW j \in Makes(layer), j <= k, layer[j].path = q PROVE layer[j].op = "dir"
  <2>1. j # k + 1 /\ p \in Path /\ layer[j].path \in Path
    BY <1>1, <1>2, AptNames, AptRegular
  <2>2. q # p
    BY <1>2, <2>1, AptRegular
  <2>3. IsPrefix(q, p)
    <3>1. IsPrefix(Parent(p), p) /\ Parent(p) \in Path
      BY <2>1, PrefixSelf, FrontPrefix, ParentPath DEF Parent
    <3> QED
      BY <1>2, <2>1, <2>2, <3>1, PrefixTrans DEF OnWay
  <2> QED
    BY <1>2, <2>2, <2>3, AptRegular DEF Below, IsStrictPrefix
<1>3. CASE \E j \in Makes(layer) : j <= k /\ layer[j].path = q /\ u[q].kind = layer[j].op
  BY <1>2, <1>3
<1>4. CASE q \in DOMAIN t /\ ~HiddenBy(layer, k, C, q) /\ u[q] = t[q]
  BY <1>4, HiddenInTime, AptPlain
<1> QED
  BY <1>1, <1>3, <1>4, Origin

\* A directory is cleared through directories only, and no whiteout acts through a link.
LEMMA OpaqueIsStraight ==
  ASSUME NEW t, NEW layer, Apt(t, layer), NEW k \in 0..Len(layer), NEW C, NEW u,
         Shows(t, layer, k, C, u), NEW c \in Opaques(layer)
  PROVE  c \in Path /\ Straight(u, c)
<1>1. ASSUME NEW q \in Path, IsPrefix(q, c), q \in DOMAIN u PROVE u[q].kind = "dir"
  BY <1>1, Origin, AptOpaque
<1> QED
  BY <1>1, AptOpaque DEF Straight

LEMMA RemoveIsStraight ==
  ASSUME NEW t, NEW layer, Apt(t, layer), NEW k \in 0..Len(layer), NEW C, NEW u, Grown(u),
         Shows(t, layer, k, C, u), NEW i \in 1..Len(layer), layer[i].op = "remove"
  PROVE  Lstat(u, layer[i].path) = layer[i].path
<1>1. layer[i].path \in Path /\ layer[i].path # <<>>
  BY AptNames
<1>2. ASSUME NEW q \in Path, IsPrefix(q, Front(layer[i].path)), q \in DOMAIN u
      PROVE  u[q].kind # "link"
  BY <1>2, Origin, AptRemove
<1> QED
  BY <1>1, <1>2, LstatStraight

\* What each kind of entry does to the tree that is shown.
LEMMA ShowsClear ==
  ASSUME NEW t, NEW layer, Apt(t, layer), NEW k \in 0..Len(layer), NEW C, NEW u,
         Shows(t, layer, k, C, u), NEW c \in Path,
         \A j \in Makes(layer) : j <= k => ~Below(c, layer[j].path),
         NEW v, \A p : p \in DOMAIN v <=> p \in DOMAIN u /\ ~Below(c, p),
         \A p \in DOMAIN v : v[p] = u[p]
  PROVE  Shows(t, layer, k, C \cup {c}, v)
<1>1. k \in Nat /\ Len(layer) \in Nat
  BY DEF Apt
<1>2. \A p : HiddenBy(layer, k, C \cup {c}, p) <=> HiddenBy(layer, k, C, p) \/ Below(c, p)
  BY DEF HiddenBy
<1>3. ASSUME NEW p \in Path, MadeBy(layer, k, p) \/ NeededBy(layer, k, p) PROVE ~Below(c, p)
  <2>1. PICK j \in 1..k : j \in Makes(layer) /\ (layer[j].path = p \/ IsPrefix(p, Parent(layer[j].path)))
    BY <1>3 DEF MadeBy, NeededBy
  <2>2. j \in 1..Len(layer) /\ j <= k
    BY <1>1
  <2>3. layer[j].path \in Path /\ Parent(layer[j].path) \in Path
    BY <2>2, AptNames
  <2>4. IsPrefix(p, layer[j].path)
    BY <2>1, <2>3, PrefixSelf, FrontPrefix, PrefixTrans DEF Parent
  <2>5. Below(c, p) => Below(c, layer[j].path)
    BY <2>3, <2>4, PrefixTrans, PrefixSame, PrefixIs DEF Below, IsStrictPrefix
  <2> QED
    BY <2>1, <2>2, <2>5
<1>4. ASSUME NEW p PROVE p \in DOMAIN v <=> p \in Path /\ Shown(t, layer, k, C \cup {c}, p)
  BY <1>2, <1>3 DEF Shows, Shown
<1>5. \A j \in 1..k : j \in Makes(layer) => v[layer[j].path] = NodeOf(layer[j])
  <2> SUFFICES ASSUME NEW j \in 1..k, j \in Makes(layer) PROVE v[layer[j].path] = NodeOf(layer[j])
    OBVIOUS
  <2>1. j \in 1..Len(layer)
    BY <1>1
  <2>2. layer[j].path \in Path /\ MadeBy(layer, k, layer[j].path)
    BY <2>1, AptNames DEF MadeBy
  <2>3. layer[j].path \in DOMAIN v
    BY <1>4, <2>2 DEF Shown
  <2> QED
    BY <2>3 DEF Shows
<1>6. ASSUME NEW p \in DOMAIN v, ~MadeBy(layer, k, p)
      PROVE  v[p] = IF p \in DOMAIN t /\ ~HiddenBy(layer, k, C \cup {c}, p) THEN t[p] ELSE Dir(DirMode)
  <2>1. p \in DOMAIN u /\ ~Below(c, p) /\ v[p] = u[p]
    OBVIOUS
  <2> QED
    BY <1>2, <1>6, <2>1 DEF Shows
<1> QED
  BY <1>4, <1>5, <1>6 DEF Shows

LEMMA ShowsRemove ==
  ASSUME NEW t, NEW layer, Apt(t, layer), NEW k \in 0..(Len(layer) - 1), NEW C, NEW u, Grown(u),
         Shows(t, layer, k, C, u), layer[k + 1].op = "remove"
  PROVE  Shows(t, layer, k + 1, C, Unlink(u, layer[k + 1].path))
<1> DEFINE d == layer[k + 1].path
           v == Unlink(u, d)
<1>1. k \in Nat /\ Len(layer) \in Nat /\ k \in 0..Len(layer) /\ k + 1 \in 1..Len(layer)
  BY DEF Apt
<1>2. d \in Path /\ k + 1 \notin Makes(layer)
  BY <1>1, AptNames
<1>3. Lstat(u, d) = d
  BY <1>1, RemoveIsStraight
<1>4. (\A p : p \in DOMAIN v <=> p \in DOMAIN u /\ ~IsPrefix(d, p)) /\ \A p \in DOMAIN v : v[p] = u[p]
  BY <1>2, <1>3, UnlinkStraight
<1> HIDE DEF v
<1>5. \A p : /\ MadeBy(layer, k + 1, p) <=> MadeBy(layer, k, p)
             /\ NeededBy(layer, k + 1, p) <=> NeededBy(layer, k, p)
             /\ HiddenBy(layer, k + 1, C, p) <=> HiddenBy(layer, k, C, p) \/ IsPrefix(d, p)
  BY <1>1, <1>2, NextEntry
<1>6. ASSUME NEW p \in Path, MadeBy(layer, k, p) \/ NeededBy(layer, k, p) PROVE ~IsPrefix(d, p)
  <2>1. PICK j \in 1..k : j \in Makes(layer) /\ (layer[j].path = p \/ IsPrefix(p, Parent(layer[j].path)))
    BY <1>6 DEF MadeBy, NeededBy
  <2>2. j \in 1..Len(layer) /\ ~(k + 1 < j)
    BY <1>1
  <2>3. layer[j].path \in Path /\ Parent(layer[j].path) \in Path
    BY <2>2, AptNames
  <2>4. IsPrefix(p, layer[j].path)
    BY <2>1, <2>3, PrefixSelf, FrontPrefix, PrefixTrans DEF Parent
  <2>5. ~IsPrefix(d, layer[j].path)
    BY <1>1, <2>1, <2>2, AptRegular
  <2> QED
    BY <1>2, <2>3, <2>4, <2>5, PrefixTrans
<1> HIDE DEF d
<1>7. ASSUME NEW p PROVE p \in DOMAIN v <=> p \in Path /\ Shown(t, layer, k + 1, C, p)
  BY <1>4, <1>5, <1>6 DEF Shows, Shown
<1>8. \A j \in 1..(k + 1) : j \in Makes(layer) => v[layer[j].path] = NodeOf(layer[j])
  <2> SUFFICES ASSUME NEW j \in 1..(k + 1), j \in Makes(layer)
               PROVE  v[layer[j].path] = NodeOf(layer[j])
    OBVIOUS
  <2>1. j \in 1..k /\ j \in 1..Len(layer)
    BY <1>1, <1>2
  <2>2. layer[j].path \in Path /\ MadeBy(layer, k + 1, layer[j].path)
    BY <2>1, AptNames DEF MadeBy
  <2>3. layer[j].path \in DOMAIN v
    BY <1>7, <2>2 DEF Shown
  <2> QED
    BY <1>4, <2>1, <2>3 DEF Shows
<1>9. ASSUME NEW p \in DOMAIN v, ~MadeBy(layer, k + 1, p)
      PROVE  v[p] = IF p \in DOMAIN t /\ ~HiddenBy(layer, k + 1, C, p) THEN t[p] ELSE Dir(DirMode)
  BY <1>4, <1>5, <1>9 DEF Shows
<1> QED
  BY <1>7, <1>8, <1>9 DEF Shows, v, d

LEMMA ShowsNothing ==
  ASSUME NEW t, NEW layer, Apt(t, layer), NEW k \in 0..(Len(layer) - 1), NEW C, NEW u,
         Shows(t, layer, k, C, u), k + 1 \notin Makes(layer), layer[k + 1].op # "remove"
  PROVE  Shows(t, layer, k + 1, C, u)
<1>1. k \in Nat /\ Len(layer) \in Nat /\ k + 1 \in 1..Len(layer)
  BY DEF Apt
<1>2. layer[k + 1].op \notin {"file", "link"}
  BY <1>1, AptNames
<1>3. \A p : /\ MadeBy(layer, k + 1, p) <=> MadeBy(layer, k, p)
             /\ NeededBy(layer, k + 1, p) <=> NeededBy(layer, k, p)
             /\ HiddenBy(layer, k + 1, C, p) <=> HiddenBy(layer, k, C, p)
  BY <1>1, <1>2, NextEntry
<1>4. \A j \in 1..(k + 1) : j \in Makes(layer) => j \in 1..k
  BY <1>1
<1> QED
  BY <1>3, <1>4 DEF Shows, Shown

LEMMA ShowsMade ==
  ASSUME NEW t, NEW layer, Apt(t, layer), NEW k \in 0..(Len(layer) - 1), k + 1 \in Makes(layer),
         NEW C, NEW u, Shows(t, layer, k, C, u), NEW v,
         \A p : p \in DOMAIN v <=>
           \/ p = layer[k + 1].path \/ (p \in Path /\ IsPrefix(p, Parent(layer[k + 1].path)))
           \/ p \in DOMAIN u /\ ~(layer[k + 1].op \in {"file", "link"} /\ Below(layer[k + 1].path, p)),
         v[layer[k + 1].path] = NodeOf(layer[k + 1]),
         \A p \in DOMAIN v : p # layer[k + 1].path =>
           v[p] = IF p \in DOMAIN u THEN u[p] ELSE Dir(DirMode)
  PROVE  Shows(t, layer, k + 1, C, v)
<1> DEFINE d == layer[k + 1].path
           Over(p) == layer[k + 1].op \in {"file", "link"} /\ Below(d, p)
<1>1. k \in Nat /\ Len(layer) \in Nat /\ k \in 0..Len(layer) /\ k + 1 \in 1..Len(layer)
  BY DEF Apt
<1>2. d \in Path /\ layer[k + 1].op # "remove"
  BY <1>1, AptNames
<1>3. \A p : /\ MadeBy(layer, k + 1, p) <=> MadeBy(layer, k, p) \/ p = d
             /\ NeededBy(layer, k + 1, p) <=> NeededBy(layer, k, p) \/ IsPrefix(p, Parent(d))
             /\ HiddenBy(layer, k + 1, C, p) <=> HiddenBy(layer, k, C, p) \/ Over(p)
  BY <1>1, <1>2, NextEntry
<1>4. ASSUME NEW p \in Path, MadeBy(layer, k, p) \/ NeededBy(layer, k, p) PROVE ~Over(p)
  <2>1. PICK j \in 1..k : j \in Makes(layer) /\ (layer[j].path = p \/ IsPrefix(p, Parent(layer[j].path)))
    BY <1>4 DEF MadeBy, NeededBy
  <2>2. j \in 1..Len(layer)
    BY <1>1
  <2>3. layer[j].path \in Path /\ Parent(layer[j].path) \in Path
    BY <2>2, AptNames
  <2>4. IsPrefix(p, layer[j].path)
    BY <2>1, <2>3, PrefixSelf, FrontPrefix, PrefixTrans DEF Parent
  <2>5. Below(d, p) => Below(d, layer[j].path)
    BY <1>2, <2>3, <2>4, PrefixTrans, PrefixSame, PrefixIs DEF Below, IsStrictPrefix
  <2>6. ~Over(layer[j].path)
    BY <1>1, <2>1, AptRegular
  <2> QED
    BY <2>5, <2>6
<1>5. ~Over(d)
  BY DEF Below, IsStrictPrefix
<1>6. ASSUME NEW p \in Path, IsPrefix(p, Parent(d)) PROVE ~Over(p)
  <2>1. CASE d = <<>>
    BY <1>1, <2>1, AptNames
  <2>2. CASE d # <<>>
    <3>1. Len(Front(d)) = Len(d) - 1 /\ Len(d) \in Nat /\ Front(d) \in Path
      BY <1>2, <2>2, PathFront
    <3>2. IsPrefix(p, Front(d))
      BY <1>6, <2>2 DEF Parent
    <3>3. ~IsPrefix(d, p)
      BY <1>2, <1>6, <3>1, <3>2, PrefixIs
    <3> QED
      BY <3>3 DEF Below, IsStrictPrefix
  <2> QED
    BY <2>1, <2>2
<1>7. ASSUME NEW j \in Makes(layer), j <= k PROVE layer[j].path # d
  BY <1>1, <1>7, AptRegular
<1>8. ~MadeBy(layer, k, d)
  BY <1>1, <1>7 DEF MadeBy
<1>9. /\ \A p : p \in DOMAIN v <=>
           p = d \/ (p \in Path /\ IsPrefix(p, Parent(d))) \/ (p \in DOMAIN u /\ ~Over(p))
      /\ v[d] = NodeOf(layer[k + 1])
      /\ \A p \in DOMAIN v : p # d => v[p] = IF p \in DOMAIN u THEN u[p] ELSE Dir(DirMode)
  OBVIOUS
<1> HIDE DEF d, Over
<1>10. ASSUME NEW p PROVE p \in DOMAIN v <=> p \in Path /\ Shown(t, layer, k + 1, C, p)
  BY <1>2, <1>3, <1>4, <1>5, <1>6, <1>9 DEF Shows, Shown
<1>11. \A j \in 1..(k + 1) : j \in Makes(layer) => v[layer[j].path] = NodeOf(layer[j])
  <2> SUFFICES ASSUME NEW j \in 1..(k + 1), j \in Makes(layer)
               PROVE  v[layer[j].path] = NodeOf(layer[j])
    OBVIOUS
  <2>1. CASE j = k + 1
    BY <1>9, <2>1 DEF d
  <2>2. CASE j # k + 1
    <3>1. j \in 1..k /\ j \in 1..Len(layer) /\ j <= k
      BY <1>1, <2>2
    <3>2. layer[j].path \in Path /\ MadeBy(layer, k, layer[j].path)
      BY <3>1, AptNames DEF MadeBy
    <3>3. layer[j].path \in DOMAIN v /\ layer[j].path \in DOMAIN u
      BY <1>3, <1>10, <3>2 DEF Shown, Shows
    <3>4. u[layer[j].path] = NodeOf(layer[j])
      BY <3>1 DEF Shows
    <3> QED
      BY <1>7, <1>9, <3>1, <3>3, <3>4
  <2> QED
    BY <2>1, <2>2
<1>12. ASSUME NEW p \in DOMAIN v, ~MadeBy(layer, k + 1, p)
       PROVE  v[p] = IF p \in DOMAIN t /\ ~HiddenBy(layer, k + 1, C, p) THEN t[p] ELSE Dir(DirMode)
  <2>1. p # d /\ ~MadeBy(layer, k, p)
    BY <1>3, <1>12
  <2>2. v[p] = IF p \in DOMAIN u THEN u[p] ELSE Dir(DirMode)
    BY <1>9, <2>1
  <2>3. CASE p \in DOMAIN u
    <3>1. u[p] = IF p \in DOMAIN t /\ ~HiddenBy(layer, k, C, p) THEN t[p] ELSE Dir(DirMode)
      BY <2>1, <2>3 DEF Shows
    <3>2. ~Over(p)
      BY <1>6, <1>9, <2>1
    <3> QED
      BY <1>3, <2>2, <2>3, <3>1, <3>2
  <2>4. CASE p \notin DOMAIN u
    <3>1. p \in Path /\ ~Shown(t, layer, k, C, p)
      BY <1>10, <2>4 DEF Shows
    <3> QED
      BY <1>3, <2>2, <2>4, <3>1 DEF Shown
  <2> QED
    BY <2>3, <2>4
<1> QED
  BY <1>10, <1>11, <1>12 DEF Shows

\* The state of the loop after k entries.
Applied(t, layer, k, s) ==
  /\ Unpacking(s) /\ s.ok /\ \A c : c \in s.cleared <=> ClearedBy(layer, k, c)
  /\ Shows(t, layer, k, s.cleared, s.tree)

LEMMA ClearStep ==
  ASSUME NEW t, NEW layer, Apt(t, layer), NEW k \in 0..(Len(layer) - 1), layer[k + 1].op # "remove",
         NEW s, Applied(t, layer, k, s)
  PROVE  LET c == ClearDirOnce(s, Home(layer[k + 1]), Opaques(layer))
         IN /\ Unpacking(c) /\ c.ok /\ \A d : d \in c.cleared <=> ClearedBy(layer, k + 1, d)
            /\ Shows(t, layer, k, c.cleared, c.tree)
<1> DEFINE d == Home(layer[k + 1])
           c == ClearDirOnce(s, d, Opaques(layer))
<1>1. k \in Nat /\ k \in 0..Len(layer) /\ Len(layer) \in Nat /\ k + 1 \in 1..Len(layer)
  BY DEF Apt
<1>2. d \in Path
  BY <1>1, AptNames DEF Home
<1>3. Unpacking(c)
  BY <1>2, ClearDirOnceGrown DEF Applied
<1>4. \A e : ClearedBy(layer, k + 1, e) <=> ClearedBy(layer, k, e) \/ (e \in Opaques(layer) /\ e = d)
  BY <1>1, NextEntry
<1>5. CASE d \notin Opaques(layer) \ s.cleared
  <2>1. c = s
    BY <1>5 DEF ClearDirOnce
  <2>2. \A e : ClearedBy(layer, k + 1, e) <=> ClearedBy(layer, k, e)
    BY <1>4, <1>5 DEF Applied
  <2> HIDE DEF c, d
  <2> QED
    BY <1>3, <2>1, <2>2 DEF Applied, c, d
<1>6. CASE d \in Opaques(layer) /\ d \notin s.cleared
  <2> DEFINE v == IF IsDir(s.tree, d) THEN Emptied(s.tree, Stat(s.tree, d)) ELSE s.tree
  <2>1. c = [ok |-> s.ok /\ ~ReadDirFails(s.tree, d), tree |-> v, cleared |-> s.cleared \cup {d}]
    BY <1>6 DEF ClearDirOnce
  <2>2. Grown(s.tree) /\ Straight(s.tree, d)
    BY <1>1, <1>6, OpaqueIsStraight DEF Applied, Unpacking
  <2>3. /\ ~ReadDirFails(s.tree, d)
        /\ \A r : r \in DOMAIN v <=> r \in DOMAIN s.tree /\ ~Below(d, r)
        /\ \A r \in DOMAIN v : v[r] = s.tree[r]
    BY <1>2, <2>2, ClearStraight
  <2> HIDE DEF v
  <2>4. ASSUME NEW j \in Makes(layer), j <= k, Below(d, layer[j].path) PROVE FALSE
    <3>1. ClearedBy(layer, j, d) /\ j \in 1..Len(layer)
      BY <1>6, <2>4, AptRegular
    <3>2. ClearedBy(layer, k, d)
      BY <1>1, <2>4, <3>1 DEF ClearedBy
    <3> QED
      BY <1>6, <3>2 DEF Applied
  <2>5. Shows(t, layer, k, s.cleared \cup {d}, v)
    BY <1>1, <1>2, <2>3, <2>4, ShowsClear DEF Applied
  <2>6. \A e : e \in s.cleared \cup {d} <=> ClearedBy(layer, k + 1, e)
    BY <1>4, <1>6 DEF Applied
  <2>7. c.ok /\ c.tree = v /\ c.cleared = s.cleared \cup {d}
    <3> DEFINE b == s.ok /\ ~ReadDirFails(s.tree, d)
    <3>1. b
      BY <2>3 DEF Applied
    <3>2. c = [ok |-> b, tree |-> v, cleared |-> s.cleared \cup {d}]
      BY <2>1
    <3> HIDE DEF b, c
    <3>3. c.ok = b /\ c.tree = v /\ c.cleared = s.cleared \cup {d}
      BY <3>2
    <3> QED
      BY <3>1, <3>3
  <2> HIDE DEF c, d
  <2> QED
    BY <1>3, <2>5, <2>6, <2>7 DEF c, d
<1> QED
  BY <1>5, <1>6

LEMMA EntryStep ==
  ASSUME NEW t, NEW layer, Apt(t, layer), NEW k \in 0..(Len(layer) - 1), NEW s, Applied(t, layer, k, s)
  PROVE  Applied(t, layer, k + 1, ApplyEntry(s, layer[k + 1], Opaques(layer)))
<1> DEFINE e == layer[k + 1]
           w == ApplyEntry(s, e, Opaques(layer))
<1>1. k \in Nat /\ k \in 0..Len(layer) /\ Len(layer) \in Nat /\ k + 1 \in 1..Len(layer)
  BY DEF Apt
<1>2. /\ e.path \in Path /\ e.op # "unsafe" /\ Parent(e.path) \in Path
      /\ e.op \in {"file", "link", "remove"} => e.path # <<>>
      /\ k + 1 \in Makes(layer) <=> e.op \in {"file", "dir", "link"}
  BY <1>1, AptNames
<1>3. Unpacking(w)
  BY <1>1, ApplyEntryGrown DEF Applied, Apt
<1>4. s.ok
  BY DEF Applied
<1>5. CASE e.op = "remove"
  <2> DEFINE v == Unlink(s.tree, e.path)
  <2>1. w = [s EXCEPT !.tree = v]
    BY <1>2, <1>4, <1>5 DEF ApplyEntry
  <2>2. Shows(t, layer, k + 1, s.cleared, v)
    BY <1>5, ShowsRemove DEF Applied, Unpacking
  <2> HIDE DEF v
  <2>3. w.ok = s.ok /\ w.cleared = s.cleared /\ w.tree = v
    BY <2>1 DEF Applied, Unpacking
  <2>4. \A c : ClearedBy(layer, k + 1, c) <=> ClearedBy(layer, k, c)
    BY <1>1, <1>5, NextEntry
  <2> HIDE DEF w
  <2>5. Applied(t, layer, k + 1, w)
    BY <1>3, <2>2, <2>3, <2>4 DEF Applied
  <2> QED
    BY <2>5 DEF w
<1>6. CASE e.op # "remove"
  <2> DEFINE c == ClearDirOnce(s, Home(e), Opaques(layer))
  <2>1. /\ Unpacking(c) /\ c.ok /\ \A d : d \in c.cleared <=> ClearedBy(layer, k + 1, d)
        /\ Shows(t, layer, k, c.cleared, c.tree)
    BY <1>6, ClearStep
  <2>2. w = IF ~c.ok THEN c
            ELSE CASE e.op = "file" -> Step(c, Replace(c.tree, e.path, File(e.data, e.mode)))
                   [] e.op = "link" -> Step(c, Replace(c.tree, e.path, Link(e.to)))
                   [] e.op = "dir" -> Step(c, ApplyDirectory(c.tree, e.path, e.mode))
                   [] OTHER -> c
    BY <1>2, <1>4, <1>6 DEF ApplyEntry
  <2> HIDE DEF c
  <2>3. ASSUME NEW r, w = Step(c, r), r.ok, Shows(t, layer, k + 1, c.cleared, r.tree)
        PROVE  Applied(t, layer, k + 1, w)
    <3>1. w.ok = r.ok /\ w.tree = r.tree /\ w.cleared = c.cleared
      BY <2>1, <2>3 DEF Step, Unpacking
    <3> HIDE DEF w
    <3> QED
      BY <1>3, <2>1, <2>3, <3>1 DEF Applied
  <2>4. ASSUME k + 1 \in Makes(layer)
        PROVE  \A q \in DOMAIN c.tree : OnWay(e, q) => c.tree[q].kind = "dir"
    BY <2>1, <2>4, WayIsStraight
  <2>5. CASE e.op \in {"file", "link"}
    <3> DEFINE n == NodeOf(e)
               r == Replace(c.tree, e.path, n)
    <3>1. w = Step(c, r)
      BY <2>1, <2>2, <2>5 DEF NodeOf
    <3>2. e.path # <<>> /\ Parent(e.path) = Front(e.path) /\ k + 1 \in Makes(layer)
      BY <1>2, <2>5 DEF Parent
    <3>3. Grown(c.tree) /\ Straight(c.tree, Front(e.path))
      BY <2>1, <2>4, <3>2 DEF Straight, OnWay, Unpacking
    <3>4. /\ r.ok
          /\ \A p : p \in DOMAIN r.tree <=>
                      \/ p = e.path \/ (p \in Path /\ IsPrefix(p, Front(e.path)))
                      \/ p \in DOMAIN c.tree /\ ~IsPrefix(e.path, p)
          /\ r.tree[e.path] = n
          /\ \A p \in DOMAIN r.tree : p # e.path =>
               r.tree[p] = IF p \in DOMAIN c.tree THEN c.tree[p] ELSE Dir(DirMode)
      BY <1>2, <3>2, <3>3, ReplaceStraight
    <3> HIDE DEF r
    <3>5. \A p : p \in DOMAIN r.tree <=>
            \/ p = e.path \/ (p \in Path /\ IsPrefix(p, Parent(e.path)))
            \/ p \in DOMAIN c.tree /\ ~(e.op \in {"file", "link"} /\ Below(e.path, p))
      BY <2>5, <3>2, <3>4 DEF Below, IsStrictPrefix
    <3>6. Shows(t, layer, k + 1, c.cleared, r.tree)
      BY <2>1, <3>2, <3>4, <3>5, ShowsMade
    <3> QED
      BY <2>3, <3>1, <3>4, <3>6
  <2>6. CASE e.op = "dir"
    <3> DEFINE r == ApplyDirectory(c.tree, e.path, e.mode)
    <3>1. w = Step(c, r)
      BY <2>1, <2>2, <2>6
    <3>2. k + 1 \in Makes(layer) /\ NodeOf(e) = Dir(e.mode)
      BY <1>2, <2>6 DEF NodeOf
    <3>3. \A q \in Path : IsPrefix(q, e.path) <=> q = e.path \/ IsPrefix(q, Parent(e.path))
      <4>1. CASE e.path = <<>>
        BY <1>2, <4>1, PrefixSelf, PrefixOfRoot DEF Parent
      <4>2. CASE e.path # <<>>
        BY <1>2, <4>2, PrefixFront DEF Parent
      <4> QED
        BY <4>1, <4>2
    <3>4. Grown(c.tree) /\ Straight(c.tree, e.path)
      BY <2>1, <2>4, <2>6, <3>2, <3>3 DEF Straight, OnWay, Unpacking
    <3>5. /\ r.ok
          /\ \A p : p \in DOMAIN r.tree <=> p \in DOMAIN c.tree \/ (p \in Path /\ IsPrefix(p, e.path))
          /\ r.tree[e.path] = Dir(e.mode)
          /\ \A p \in DOMAIN r.tree : p # e.path =>
               r.tree[p] = IF p \in DOMAIN c.tree THEN c.tree[p] ELSE Dir(DirMode)
      BY <1>2, <3>4, DirectoryStraight
    <3> HIDE DEF r
    <3>6. \A p : p \in DOMAIN r.tree <=>
            \/ p = e.path \/ (p \in Path /\ IsPrefix(p, Parent(e.path)))
            \/ p \in DOMAIN c.tree /\ ~(e.op \in {"file", "link"} /\ Below(e.path, p))
      BY <1>2, <2>6, <3>3, <3>5
    <3>7. Shows(t, layer, k + 1, c.cleared, r.tree)
      BY <2>1, <3>2, <3>5, <3>6, ShowsMade
    <3> QED
      BY <2>3, <3>1, <3>5, <3>7
  <2>7. CASE e.op \notin {"file", "link", "dir"}
    <3>1. w = c
      BY <2>1, <2>2, <2>7
    <3>2. Shows(t, layer, k + 1, c.cleared, c.tree)
      BY <1>2, <1>6, <2>1, <2>7, ShowsNothing
    <3> HIDE DEF w
    <3>3. Applied(t, layer, k + 1, w)
      BY <2>1, <3>1, <3>2 DEF Applied
    <3> QED
      BY <3>3 DEF w
  <2> QED
    BY <2>5, <2>6, <2>7
<1> QED
  BY <1>5, <1>6

\* After the last entry the tree that is shown is the union.
LEMMA UnionIs ==
  ASSUME NEW t, NEW layer, Apt(t, layer), NEW C, NEW u, Grown(u),
         \A c : c \in C <=> ClearedBy(layer, Len(layer), c), Shows(t, layer, Len(layer), C, u)
  PROVE  u = Union(t, layer)
<1> DEFINE n == Len(layer)
           made == {layer[i].path : i \in Makes(layer)}
           needed == UNION {Prefixes(Parent(p)) : p \in made}
           kept == {p \in DOMAIN t : ~Hidden(layer, p)}
           first(p) == CHOOSE i \in Above(layer, p) : TRUE
           node(p) == LET e == layer[first(p)]
                      IN CASE e.op = "file" -> File(e.data, e.mode)
                           [] e.op = "link" -> Link(e.to)
                           [] e.op = "dir" -> Dir(e.mode)
           value(p) == IF p \in made THEN node(p) ELSE IF p \in kept THEN t[p] ELSE Dir(DirMode)
<1>1. Union(t, layer) = [p \in kept \cup made \cup needed |-> value(p)]
  BY DEF Union
<1>2. n \in Nat /\ DOMAIN layer = 1..n /\ Makes(layer) \subseteq 1..n
  BY DEF Apt, Makes
<1>3. \A p : p \in made <=> MadeBy(layer, n, p)
  BY <1>2 DEF MadeBy
<1>4. \A p : p \in needed <=> p \in Path /\ NeededBy(layer, n, p)
  <2>1. \A i \in Makes(layer) : Prefixes(Parent(layer[i].path)) =
                                  {q \in Path : IsPrefix(q, Parent(layer[i].path))}
    BY <1>2, AptNames, PrefixesAre
  <2>2. \A p : p \in needed <=> \E i \in Makes(layer) : p \in Prefixes(Parent(layer[i].path))
    OBVIOUS
  <2> QED
    BY <1>2, <2>1, <2>2 DEF NeededBy
<1>5. \A p : HiddenBy(layer, n, C, p) <=> Hidden(layer, p)
  <2>1. ASSUME NEW c PROVE c \in C <=> \E i \in 1..n : layer[i].op = "opaque" /\ layer[i].path = c
    <3>1. ASSUME NEW i \in 1..n, layer[i].op = "opaque", layer[i].path = c PROVE ClearedBy(layer, n, c)
      <4>1. c \in Opaques(layer)
        BY <1>2, <3>1 DEF Opaques, Apt, Regular
      <4>2. Home(layer[i]) = c
        BY <3>1 DEF Home
      <4> QED
        BY <3>1, <4>1, <4>2 DEF ClearedBy
    <3>2. ASSUME ClearedBy(layer, n, c) PROVE \E i \in 1..n : layer[i].op = "opaque" /\ layer[i].path = c
      BY <1>2, <3>2 DEF ClearedBy, Opaques
    <3> QED
      BY <3>1, <3>2
  <2> QED
    BY <1>2, <2>1 DEF HiddenBy, Hidden
<1>6. \A p : p \in kept <=> p \in DOMAIN t /\ ~HiddenBy(layer, n, C, p)
  BY <1>5
<1>7. ASSUME NEW i \in Makes(layer) PROVE node(layer[i].path) = NodeOf(layer[i])
  <2>1. i \in Above(layer, layer[i].path)
    BY <1>7 DEF Above
  <2>2. first(layer[i].path) \in Above(layer, layer[i].path)
    BY <2>1
  <2>3. first(layer[i].path) = i
    BY <1>7, <2>2, AptRegular DEF Above
  <2> HIDE DEF first
  <2> QED
    BY <2>3 DEF NodeOf
<1> HIDE DEF made, needed, kept, node
<1>8. DOMAIN u = kept \cup made \cup needed
  <2>1. \A p : MadeBy(layer, n, p) \/ p \in DOMAIN t => p \in Path
    <3>1. \A p \in DOMAIN t : p \in Path
      BY GrownAt DEF Apt
    <3>2. \A i \in Makes(layer) : layer[i].path \in Path
      BY <1>2, AptNames
    <3> QED
      BY <3>1, <3>2 DEF MadeBy
  <2>2. \A p : p \in DOMAIN u <=> p \in Path /\ Shown(t, layer, n, C, p)
    BY DEF Shows
  <2>3. \A p : p \in DOMAIN u <=> p \in kept \cup made \cup needed
    BY <1>3, <1>4, <1>6, <2>1, <2>2 DEF Shown
  <2> QED
    BY <2>3
<1>9. ASSUME NEW p \in DOMAIN u PROVE u[p] = value(p)
  <2>1. CASE MadeBy(layer, n, p)
    <3>1. PICK i \in 1..n : i \in Makes(layer) /\ layer[i].path = p
      BY <2>1 DEF MadeBy
    <3>2. u[p] = NodeOf(layer[i])
      BY <3>1 DEF Shows
    <3>3. node(p) = NodeOf(layer[i]) /\ p \in made
      BY <1>3, <1>7, <2>1, <3>1
    <3> QED
      BY <3>2, <3>3
  <2>2. CASE ~MadeBy(layer, n, p)
    <3>1. u[p] = IF p \in DOMAIN t /\ ~HiddenBy(layer, n, C, p) THEN t[p] ELSE Dir(DirMode)
      BY <2>2 DEF Shows
    <3> QED
      BY <1>3, <1>6, <2>2, <3>1
  <2> QED
    BY <2>1, <2>2
<1>10. u = [p \in DOMAIN u |-> u[p]]
  BY DEF Grown
<1> HIDE DEF value
<1> QED
  BY <1>1, <1>8, <1>9, <1>10

LEMMA LayerIsUnion ==
  ASSUME NEW t, Grown(t), <<>> \in DOMAIN t, NEW X, NEW layer \in Seq(X),
         \A i \in DOMAIN layer : IsEntry(layer[i]), Regular(layer), Plain(t, layer)
  PROVE  /\ ApplyLayer(t, layer).ok /\ ApplyLayer(t, layer).tree = Union(t, layer)
         /\ Grown(Union(t, layer)) /\ <<>> \in DOMAIN Union(t, layer)
<1> DEFINE n == Len(layer)
           b == Opened(t)
           r == Loop("entries", layer, b, n)
           S == {k \in 0..n : Applied(t, layer, k, r[k])}
<1>1. n \in Nat /\ DOMAIN layer = 1..n
  BY LenProperties
<1>2. Apt(t, layer)
  BY <1>1 DEF Apt
<1>3. ApplyLayer(t, layer) = r[n]
  BY ApplyLayerLoop
<1>4. Applied(t, layer, 0, b)
  <2>1. b = [ok |-> TRUE, tree |-> t, cleared |-> {}]
    BY OpenedIs
  <2> HIDE DEF b
  <2>2. b.ok /\ b.tree = t /\ b.cleared = {} /\ Unpacking(b)
    BY <2>1 DEF Unpacking
  <2>3. 1..0 = {}
    OBVIOUS
  <2>4. /\ \A p, C : HiddenBy(layer, 0, C, p) <=> \E c \in C : Below(c, p)
        /\ \A p : ~MadeBy(layer, 0, p) /\ ~NeededBy(layer, 0, p) /\ ~ClearedBy(layer, 0, p)
    BY <2>3 DEF HiddenBy, MadeBy, NeededBy, ClearedBy
  <2>5. Shows(t, layer, 0, {}, t)
    <3>1. \A p \in DOMAIN t : p \in Path
      BY GrownAt
    <3> QED
      BY <2>3, <2>4, <3>1 DEF Shows, Shown
  <2> QED
    BY <2>2, <2>4, <2>5 DEF Applied
<1>5. r[0] = b /\ \A i \in 1..n : r[i] = After("entries", layer, r[i - 1], i)
  <2> HIDE DEF b, n
  <2> QED
    BY <1>1, LoopIs
<1>6. \A x, i : After("entries", layer, x, i) = ApplyEntry(x, layer[i], Opaques(layer))
  BY DEF After
<1> HIDE DEF r, b
<1>7. 0 \in S
  BY <1>1, <1>4, <1>5
<1>8. ASSUME NEW k \in 0..(n - 1), k \in S PROVE k + 1 \in S
  <2>1. k + 1 \in 1..n /\ k + 1 \in 0..n /\ k + 1 - 1 = k
    BY <1>1
  <2>2. r[k + 1] = ApplyEntry(r[k], layer[k + 1], Opaques(layer))
    BY <1>5, <1>6, <2>1
  <2>3. Applied(t, layer, k + 1, ApplyEntry(r[k], layer[k + 1], Opaques(layer)))
    BY <1>2, <1>8, EntryStep
  <2> QED
    BY <2>1, <2>2, <2>3
<1>9. Applied(t, layer, n, r[n])
  <2> HIDE DEF S, n
  <2>1. 0..n \subseteq S
    BY <1>1, <1>7, <1>8, Climb
  <2>2. n \in S
    BY <1>1, <2>1
  <2> QED
    BY <2>2 DEF S
<1>10. r[n].ok /\ Grown(r[n].tree) /\ r[n].tree = Union(t, layer)
  BY <1>2, <1>9, UnionIs DEF Applied, Unpacking
<1>11. <<>> \in DOMAIN r[n].tree
  <2>1. ~Hidden(layer, <<>>)
    <3>1. ASSUME NEW i \in DOMAIN layer PROVE ~Below(layer[i].path, <<>>)
      BY <1>1, <1>2, PrefixOfRoot, AptNames DEF Below, IsStrictPrefix
    <3>2. ASSUME NEW i \in DOMAIN layer, layer[i].op = "remove" PROVE ~IsPrefix(layer[i].path, <<>>)
      BY <1>1, <1>2, <3>2, PrefixOfRoot, AptNames
    <3> QED
      BY <3>1, <3>2 DEF Hidden
  <2>2. DOMAIN Union(t, layer) =
          {p \in DOMAIN t : ~Hidden(layer, p)} \cup {layer[i].path : i \in Makes(layer)}
            \cup UNION {Prefixes(Parent(p)) : p \in {layer[i].path : i \in Makes(layer)}}
    BY DEF Union
  <2>3. <<>> \in DOMAIN Union(t, layer)
    BY <2>1, <2>2
  <2> QED
    BY <1>10, <2>3
<1> QED
  BY <1>3, <1>10, <1>11

LEMMA UnionsAre ==
  ASSUME NEW X, NEW layers \in Seq(X)
  PROVE  /\ Unions(layers)[0] = StagingRoot
         /\ \A i \in 1..Len(layers) : Unions(layers)[i] = Union(Unions(layers)[i - 1], layers[i])
<1> DEFINE n == Len(layers)
           b == StagingRoot
           Yields(r) == r = [i \in 0..n |-> IF i = 0 THEN b ELSE Union(r[i - 1], layers[i])]
           r == CHOOSE f : Yields(f)
<1>0. Unions(layers) = r
  BY DEF Unions
<1>1. n \in Nat
  OBVIOUS
<1>2. \A x, i : After("union", layers, x, i) = Union(x, layers[i])
  BY DEF After
<1> HIDE DEF b
<1>3. Yields(r)
  <2> DEFINE f == Loop("union", layers, b, n)
  <2>1. f[0] = b /\ f = [i \in 0..n |-> f[i]]
    BY <1>1, LoopIs
  <2>2. \A i \in 1..n : f[i] = After("union", layers, f[i - 1], i)
    BY <1>1, LoopIs
  <2> HIDE DEF f, n
  <2>3. \A i \in 0..n : f[i] = IF i = 0 THEN b ELSE Union(f[i - 1], layers[i])
    <3>1. \A i \in 0..n : i = 0 \/ i \in 1..n
      BY <1>1
    <3> QED
      BY <1>2, <2>1, <2>2, <3>1
  <2>4. Yields(f)
    BY <2>1, <2>3
  <2> QED
    BY <2>4
<1> HIDE DEF r, n
<1>4. \A i \in 0..n : r[i] = IF i = 0 THEN b ELSE Union(r[i - 1], layers[i])
  BY <1>3
<1>5. 0 \in 0..n /\ \A i \in 1..n : i \in 0..n /\ i # 0
  BY <1>1
<1>6. r[0] = b /\ \A i \in 1..n : r[i] = Union(r[i - 1], layers[i])
  BY <1>4, <1>5
<1> QED
  BY <1>0, <1>6 DEF n, b
=============================================================================
