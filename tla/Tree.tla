-------------------------------- MODULE Tree --------------------------------
(***************************************************************************)
(* A directory tree as the code sees it through std::fs: the calls that    *)
(* elu-layers, elu-hooks and elu-outputs make on a staging directory.      *)
(*                                                                         *)
(* A name is its alphabetical place, a path the sequence of its names; the *)
(* root is <<>>.  A tree maps the paths that exist to nodes.  A symbolic   *)
(* link's `to' is the place it leads to (links to links are not in the     *)
(* instances).  A call yields whether it succeeded and the tree it left.   *)
(*                                                                         *)
(* Modes are data: no call is refused because of one, as is so for root.   *)
(* For anybody else it is so while AllOpen holds of the tree and of what is *)
(* made of it; properties that promise a success have that as a premise.   *)
(***************************************************************************)
EXTENDS Naturals, SequencesExt

Path == Seq(Nat)

Node(k, d, l, m) == [kind |-> k, data |-> d, to |-> l, mode |-> m]
File(d, m) == Node("file", d, <<>>, m)
Dir(m) == Node("dir", "", <<>>, m)

\* Permission bits by class; the defaults are those of umask 022.
Who == {"u", "g", "o"}
Perm(u, g, o) == [w \in Who |-> CASE w = "u" -> u [] w = "g" -> g [] w = "o" -> o]
DirMode == Perm({"r", "w", "x"}, {"r", "x"}, {"r", "x"})
Link(l) == Node("link", "", l, Perm({}, {}, {}))

\* The owner may list, enter and change it, if it is a directory.
IsOpen(n) == n.kind = "dir" => {"r", "w", "x"} \subseteq n.mode["u"]
AllOpen(t) == \A q \in DOMAIN t : IsOpen(t[q])

EmptyTree == [p \in {<<>>} |-> Dir(DirMode)]
Ok(t) == [ok |-> TRUE, tree |-> t]
Err(t) == [ok |-> FALSE, tree |-> t]

Parent(p) == IF p = <<>> THEN p ELSE Front(p)
Below(p, q) == IsStrictPrefix(p, q)
Lexically(p, q) ==   \* the order of a walk sorted by file name
  \/ IsPrefix(p, q)
  \/ \E i \in 1..Len(p) : /\ i <= Len(q) /\ p[i] < q[i]
                          /\ SubSeq(p, 1, i - 1) = SubSeq(q, 1, i - 1)
First(R) == CHOOSE p \in R : \A q \in R : Lexically(p, q)
InOrder(S) ==
  LET left[i \in 0..Cardinality(S)] ==
        IF i = 0 THEN S ELSE left[i - 1] \ {First(left[i - 1])}
  IN [i \in 1..Cardinality(S) |-> First(left[i - 1])]

(***************************************************************************)
(* Path resolution.  Stat follows every link, Lstat all but the last.      *)
(***************************************************************************)
Follow(t, q) == IF q \in DOMAIN t /\ t[q].kind = "link" THEN t[q].to ELSE q
Stat(t, p) ==
  LET at[i \in 0..Len(p)] == IF i = 0 THEN <<>> ELSE Follow(t, Append(at[i - 1], p[i]))
  IN at[Len(p)]
Lstat(t, p) == IF p = <<>> THEN p ELSE Append(Stat(t, Front(p)), Last(p))

Is(t, p, k) == Stat(t, p) \in DOMAIN t /\ t[Stat(t, p)].kind = k
IsDir(t, p) == Is(t, p, "dir")
IsFile(t, p) == Is(t, p, "file")
Exists(t, p) == Stat(t, p) \in DOMAIN t
Present(t, p) == Lstat(t, p) \in DOMAIN t
FileInTheWay(t, p) == \E q \in Prefixes(p) : IsFile(t, q)

CutNode(t, q) == Restrict(t, DOMAIN t \ {q})   \* mutant: what is below stays
Cut(t, q) == Restrict(t, {r \in DOMAIN t : ~IsPrefix(q, r)})
Emptied(t, q) == Restrict(t, {r \in DOMAIN t : ~Below(q, r)})
Set(t, q, n) == [r \in DOMAIN t \cup {q} |-> IF r = q THEN n ELSE t[r]]

\* A node at a real place: its directory must be there, and it no directory.
Create(t, q, n) ==
  IF /\ Parent(q) \in DOMAIN t /\ t[Parent(q)].kind = "dir"
     /\ q \in DOMAIN t => t[q].kind # "dir"
    THEN Ok(Set(t, q, n)) ELSE Err(t)

(***************************************************************************)
(* fs::create_dir_all: every prefix that exists must lead to a directory,  *)
(* and those that do not are made.                                         *)
(***************************************************************************)
CreateDirAll(t, p) ==
  LET places == {Stat(t, q) : q \in Prefixes(p)}
  IN IF \A q \in Prefixes(p) : Present(t, q) => IsDir(t, q)
       THEN Ok([q \in DOMAIN t \cup places |->
                  IF q \in DOMAIN t THEN t[q] ELSE Dir(DirMode)])
       ELSE Err(t)

\* remove_dir_all of a directory, remove_file of anything else, never through
\* a link; nothing there, or a file on the way, is told apart by the callers.
Unlink(t, p) == IF Present(t, p) THEN Cut(t, Lstat(t, p)) ELSE t

\* The bits of a link never change.
Chmod(t, p, m) ==
  [t EXCEPT ![Stat(t, p)] = IF @.kind = "link" THEN @ ELSE Node(@.kind, @.data, @.to, m)]

(***************************************************************************)
(* fs::rename of q to p, both real places: over a file or a link if q is   *)
(* none of a directory, over an empty directory if q is one, never into    *)
(* itself.                                                                 *)
(***************************************************************************)
Renamed(t, q, p) ==
  LET rest == Cut(Cut(t, q), p)
      moved == {r \in DOMAIN t : IsPrefix(q, r)}
      to(r) == p \o SubSeq(r, Len(q) + 1, Len(r))
      from(r) == q \o SubSeq(r, Len(p) + 1, Len(r))
  IN [r \in DOMAIN rest \cup {to(s) : s \in moved} |->
        IF r \in DOMAIN rest THEN rest[r] ELSE t[from(r)]]

Rename(t, q, p) ==
  IF q = p /\ q \in DOMAIN t THEN Ok(t)
  ELSE IF /\ q \in DOMAIN t /\ ~Below(q, p)
          /\ Parent(p) \in DOMAIN t /\ t[Parent(p)].kind = "dir"
          /\ p \in DOMAIN t =>
               /\ (t[q].kind = "dir") = (t[p].kind = "dir")
               /\ \A r \in DOMAIN t : ~Below(p, r)
    THEN Ok(Renamed(t, q, p))
  ELSE Err(t)

\* fs::read_dir of q on a path no directory is at: NotFound unless a file is
\* in the way (NotADirectory).
ReadDirFails(t, p) == FileInTheWay(t, p)
=============================================================================
