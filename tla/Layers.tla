------------------------------- MODULE Layers -------------------------------
(***************************************************************************)
(* Applying a layer, a tar archive of entries, to a staging tree           *)
(* (elu-layers apply.rs, whiteout.rs), and the union of layers that        *)
(* docs/prd/layers.md ("Stacking Semantics") gives it as its meaning.      *)
(*                                                                         *)
(* An entry is what its header and name say of it: `op' is "file", "dir",  *)
(* "link", "hard" (a hard link), "other" (devices), "remove" (.wh.<name>), *)
(* "opaque" (.wh..wh..opq) or "unsafe" (absolute, with .., not UTF-8);     *)
(* `path' is where it acts, for a whiteout its victim, for an opaque       *)
(* marker its directory.  `dotted' says that the name is written with a    *)
(* leading ./                                                              *)
(***************************************************************************)
EXTENDS Tree

CONSTANTS
  Hides,       \* the names .wh.<name>, each with the name that it hides
  OpaqueName   \* .wh..wh..opq

ASSUME WhiteoutAssumption ==
  /\ Hides \in [DOMAIN Hides -> Nat] /\ DOMAIN Hides \subseteq Nat
  /\ OpaqueName \in Nat \ DOMAIN Hides

\* classify looks at the last name only, whatever is under it.
IsWhiteout(p) == p # <<>> /\ Last(p) \in DOMAIN Hides \cup {OpaqueName}

Entry(o, p, d, m) == [op |-> o, path |-> p, data |-> d, mode |-> m,
                      to |-> <<>>, dotted |-> FALSE]

\* The directory whose clearing an entry may trigger: for a whiteout file and
\* for any other entry the one it is in.
Home(e) == IF e.op = "opaque" THEN e.path ELSE Parent(e.path)

(***************************************************************************)
(* collect_opaques keeps the parent as it is written, so that of a dotted  *)
(* name is none that apply_entry, which strips the dot, will look up.      *)
(***************************************************************************)
Opaques(layer) ==
  {layer[i].path : i \in {j \in DOMAIN layer : layer[j].op = "opaque" /\ ~layer[j].dotted}}

Step(s, r) == [s EXCEPT !.ok = r.ok, !.tree = r.tree]

ClearDirEachTime(s, d, opaques) ==   \* mutant: not only once
  IF d \notin opaques THEN s
  ELSE [s EXCEPT !.tree = IF IsDir(@, d) THEN Emptied(@, Stat(@, d)) ELSE @]

ClearDirOnce(s, d, opaques) ==
  IF d \notin opaques \ s.cleared THEN s
  ELSE [ok |-> s.ok /\ ~ReadDirFails(s.tree, d),
        tree |-> IF IsDir(s.tree, d) THEN Emptied(s.tree, Stat(s.tree, d)) ELSE s.tree,
        cleared |-> s.cleared \cup {d}]

\* ensure_parent, remove_existing, then the new node.
Replace(t, p, n) ==
  LET made == CreateDirAll(t, Parent(p))
      cut == Unlink(made.tree, p)
  IN IF made.ok THEN Create(cut, Lstat(cut, p), n) ELSE Err(t)

ApplyDirectory(t, p, m) ==
  LET made == CreateDirAll(t, p)
  IN IF made.ok THEN Ok(Chmod(made.tree, p, m)) ELSE Err(t)

(***************************************************************************)
(* apply_entry.  A whiteout removes what is there now, whichever layer it  *)
(* came from, and ignores errors; entries of other types, hard links among *)
(* them, are only counted.                                                 *)
(***************************************************************************)
ApplyEntry(s, e, opaques) ==
  IF ~s.ok \/ e.op = "unsafe" THEN [s EXCEPT !.ok = FALSE]
  ELSE IF e.op = "remove" THEN [s EXCEPT !.tree = Unlink(@, e.path)]
  ELSE LET c == ClearDirOnce(s, Home(e), opaques)
       IN IF ~c.ok THEN c
          ELSE CASE e.op = "file" -> Step(c, Replace(c.tree, e.path, File(e.data, e.mode)))
                 [] e.op = "link" -> Step(c, Replace(c.tree, e.path, Link(e.to)))
                 [] e.op = "dir" -> Step(c, ApplyDirectory(c.tree, e.path, e.mode))
                 [] OTHER -> c

\* apply_archive makes the directory it unpacks into, if it is gone.
Opened(t) ==
  LET made == CreateDirAll(t, <<>>)
  IN [ok |-> made.ok, tree |-> made.tree, cleared |-> {}]

ApplyLayer(t, layer) ==
  LET opaques == Opaques(layer)
      s[i \in 0..Len(layer)] ==
        IF i = 0 THEN Opened(t) ELSE ApplyEntry(s[i - 1], layer[i], opaques)
  IN s[Len(layer)]

(***************************************************************************)
(* Resolution::layers: the layers of the manifests in order, each at its   *)
(* first position (flatten).                                               *)
(***************************************************************************)
Flatten(manifests) ==
  LET all == FlattenSeq([i \in DOMAIN manifests |-> manifests[i].layers])
      done[i \in 0..Len(all)] ==
        CASE i = 0 -> <<>>
          [] i # 0 /\ all[i] \notin ToSet(done[i - 1]) -> Append(done[i - 1], all[i])
          [] OTHER -> done[i - 1]
  IN done[Len(all)]

-----------------------------------------------------------------------------
(***************************************************************************)
(* The meaning of a layer, path by path and without an order of entries:   *)
(* whiteouts hide what the layers below show, and the layer's own entries  *)
(* lie on top, with the directories they need.                             *)
(***************************************************************************)
Makes(layer) == {i \in DOMAIN layer : layer[i].op \in {"file", "dir", "link"}}
Above(layer, p) == {i \in Makes(layer) : layer[i].path = p}

Hidden(layer, p) ==
  \E i \in DOMAIN layer :
    \/ layer[i].op = "remove" /\ IsPrefix(layer[i].path, p)
    \/ layer[i].op = "opaque" /\ Below(layer[i].path, p)
    \/ layer[i].op \in {"file", "link"} /\ Below(layer[i].path, p)

Union(t, layer) ==
  LET made == {layer[i].path : i \in Makes(layer)}
      needed == UNION {Prefixes(Parent(p)) : p \in made}
      kept == {p \in DOMAIN t : ~Hidden(layer, p)}
      node(p) ==
        LET e == layer[CHOOSE i \in Above(layer, p) : TRUE]
        IN CASE e.op = "file" -> File(e.data, e.mode)
             [] e.op = "link" -> Link(e.to)
             [] e.op = "dir" -> Dir(e.mode)
  IN [p \in kept \cup made \cup needed |->
        IF p \in made THEN node(p) ELSE IF p \in kept THEN t[p] ELSE Dir(DirMode)]

(***************************************************************************)
(* The layers on which the union and the archive order agree: safe names,  *)
(* no hard link, which is dropped, directories that their owner may use, a *)
(* path once, its whiteout before it, an opaque marker undotted and with,  *)
(* as the first entry below its directory, one directly in it: with a      *)
(* deeper one first, the layer's own entries are cleared away.             *)
(***************************************************************************)
Regular(layer) ==
  /\ \A i \in DOMAIN layer :
       /\ layer[i].op \notin {"unsafe", "hard"}
       /\ layer[i].op = "dir" => IsOpen(Dir(layer[i].mode))
       /\ layer[i].op \in {"file", "link", "remove"} => layer[i].path # <<>>
  /\ \A i, j \in Makes(layer) : layer[i].path = layer[j].path => i = j
  /\ \A i \in DOMAIN layer, j \in Makes(layer) :
       layer[i].op = "remove" /\ IsPrefix(layer[i].path, layer[j].path) => i < j
  /\ \A i \in DOMAIN layer : layer[i].op = "opaque" =>
       /\ ~layer[i].dotted
       /\ \A j \in Makes(layer) : Below(layer[i].path, layer[j].path) =>
            \E k \in 1..j : layer[k].op # "remove" /\ Home(layer[k]) = layer[i].path

\* Nothing is written, and no directory cleared, through a symbolic link or a
\* file, nor is a directory put over something else.
Plain(t, layer) ==
  /\ \A i \in DOMAIN layer : layer[i].op = "opaque" =>
       \A q \in Prefixes(layer[i].path) :
         /\ q \in DOMAIN t => t[q].kind = "dir"
         /\ \A j \in Above(layer, q) : layer[j].op = "dir"
  /\ \A i \in DOMAIN layer : layer[i].op = "remove" =>
       \A q \in Prefixes(Parent(layer[i].path)) :
         /\ q \in DOMAIN t => t[q].kind # "link"
         /\ \A j \in Above(layer, q) : layer[j].op # "link"
  /\ \A i \in Makes(layer) :
       /\ \A q \in Prefixes(Parent(layer[i].path)) :
            q \in DOMAIN t => Hidden(layer, q) \/ t[q].kind = "dir"
       /\ \A j \in Makes(layer) :
            Below(layer[j].path, layer[i].path) => layer[j].op = "dir"
       /\ layer[i].op = "dir" =>
            LET p == layer[i].path
            IN p \in DOMAIN t => Hidden(layer, p) \/ t[p].kind = "dir"
=============================================================================
