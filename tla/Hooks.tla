------------------------------- MODULE Hooks --------------------------------
(***************************************************************************)
(* The post-unpack hook: the declarative operations of a manifest, run in  *)
(* order on the staging tree (elu-hooks).  A glob stands for the set of    *)
(* paths it matches in any tree; contents are values, and what a           *)
(* conversion makes of them is a value too: `data' of a write or a patch   *)
(* is its result, "index" that of an index.                                *)
(***************************************************************************)
EXTENDS Tree

(***************************************************************************)
(* Permission bits, and a mode as a sequence of clauses.  An octal mode    *)
(* sets all three classes, a symbolic clause those it names.               *)
(***************************************************************************)
Octal(mode) == << [w \in Who |-> [op |-> "=", bits |-> mode[w]]] >>
Private == Perm({"r", "w"}, {}, {})       \* tempfile's 0600
Base == Perm({"r", "w"}, {"r"}, {"r"})    \* 0644
NoMode == <<>>                            \* the key is absent

\* ModeSpec::apply, where a class that a clause does not name keeps its bits.
ApplyClause(mode, clause) ==
  [w \in Who |->
     IF w \notin DOMAIN clause THEN mode[w]
     ELSE CASE clause[w].op = "+" -> mode[w] \cup clause[w].bits
            [] clause[w].op = "-" -> mode[w] \ clause[w].bits
            [] clause[w].op = "=" -> clause[w].bits]
ApplyMode(spec, mode) == FoldLeft(ApplyClause, mode, spec)

\* glob_in_staging: the matches that exist, in the order of a sorted walk, all
\* found before the operation changes anything.
Matches(t, glob) == InOrder(glob \cap DOMAIN t)

SetMode(t, p, mode) == IF Exists(t, p) THEN Ok(Chmod(t, p, mode)) ELSE Err(t)
ModeAt(t, p) == t[Stat(t, p)].mode

\* atomic_write: the parents are made, a private temporary file takes the
\* place of whatever is at the path, a link included, a directory excepted.
AtomicWrite(t, p, d) ==
  LET made == CreateDirAll(t, Parent(p))
      place == Lstat(made.tree, p)
  IN IF made.ok
       THEN Create(made.tree, place, File(d, Private))
       ELSE Err(t)

-----------------------------------------------------------------------------
RunMkdir(t, o) ==
  LET single == IF Present(t, o.path) THEN Ok(t)
                ELSE Create(t, Lstat(t, o.path), Dir(DirMode))
      made == IF o.parents \/ o.path = <<>> THEN CreateDirAll(t, o.path) ELSE single
  IN IF ~made.ok \/ o.mode = NoMode THEN made
     ELSE IF Exists(made.tree, o.path)
       THEN SetMode(made.tree, o.path, ApplyMode(o.mode, ModeAt(made.tree, o.path)))
     ELSE Err(made.tree)

RunSymlink(t, o) ==
  IF Present(t, o.path) /\ ~o.replace THEN Err(t)
  ELSE LET cut == Unlink(t, o.path)
       IN Create(cut, Lstat(cut, o.path), Link(o.to))

\* A file that is there is replaced only on request; without a mode the
\* private bits of the temporary file remain.
RunWrite(t, o) ==
  LET w == AtomicWrite(t, o.path, o.data)
  IN IF Exists(t, o.path) /\ ~o.replace THEN Err(t)
     ELSE IF ~w.ok \/ o.mode = NoMode THEN w
     ELSE SetMode(w.tree, o.path, ApplyMode(o.mode, Base))

RunTemplate(t, o) ==
  IF ~IsFile(t, o.from) THEN Err(t)
  ELSE LET w == AtomicWrite(t, o.path, o.data)
       IN IF ~w.ok THEN w
          ELSE IF o.mode # NoMode THEN SetMode(w.tree, o.path, ApplyMode(o.mode, Base))
          ELSE SetMode(w.tree, o.path, ModeAt(w.tree, o.from))

\* The diff applies if the file holds what it was made against.
RunPatch(t, o) ==
  IF IsFile(t, o.path) /\ t[Stat(t, o.path)].data = o.from
    THEN AtomicWrite(t, o.path, o.data)
    ELSE Err(t)

RunIndex(t, o) ==
  IF Exists(t, o.from) THEN AtomicWrite(t, o.path, "index") ELSE Err(t)

(***************************************************************************)
(* Where copy and move put a match.  The slash that ends `to' is gone      *)
(* after resolve_in_staging: only what is there now makes it a directory.  *)
(***************************************************************************)
DestBeside(t, src, to) ==   \* mutant: a directory is taken for a file
  to

Dest(t, src, to) ==
  IF IsDir(t, to) THEN Append(to, Last(src)) ELSE to

\* The staging root is a match of "*": a directory is not copied, nor moved
\* into itself.
CopyOne(t, src, to) ==
  IF src = <<>> THEN Err(t) ELSE
  LET dest == Dest(t, src, to)
      made == CreateDirAll(t, Parent(dest))
      u == made.tree
      from == Stat(u, src)
      file == IF from = Stat(u, dest) THEN File("", u[from].mode) ELSE u[from]
  IN IF made.ok /\ IsFile(u, src) THEN Create(u, Stat(u, dest), file) ELSE Err(t)

MoveOne(t, src, to) ==
  IF src = <<>> THEN Err(t) ELSE
  LET dest == Dest(t, src, to)
      made == CreateDirAll(t, Parent(dest))
  IN IF made.ok THEN Rename(made.tree, Lstat(made.tree, src), Lstat(made.tree, dest))
     ELSE Err(t)

ChmodOne(t, p, mode) ==
  IF Exists(t, p) THEN SetMode(t, p, ApplyMode(mode, ModeAt(t, p))) ELSE Err(t)

\* A match below one already deleted is not there any more: an error.
DeleteOne(t, p) == IF Present(t, p) THEN Ok(Unlink(t, p)) ELSE Err(t)

RunOne(t, p, o) ==
  CASE o.op = "chmod" -> ChmodOne(t, p, o.mode)
    [] o.op = "copy" -> CopyOne(t, p, o.to)
    [] o.op = "move" -> MoveOne(t, p, o.to)
    [] o.op = "delete" -> DeleteOne(t, p)

\* The loop over the matches ends at the first error.
RunEach(t, o) ==
  LET found == Matches(t, o.glob)
      r[i \in 0..Len(found)] ==
        CASE i = 0 -> Ok(t)
          [] i # 0 /\ r[i - 1].ok -> RunOne(r[i - 1].tree, found[i], o)
          [] OTHER -> r[i - 1]
  IN r[Len(found)]

\* Every operation starts with the staging root (verify_under_staging, or the
\* walk of a glob) and fails if an earlier one has deleted it.
RunOp(t, o) ==
  IF <<>> \notin DOMAIN t THEN Err(t)
  ELSE CASE o.op \in {"chmod", "copy", "move", "delete"} -> RunEach(t, o)
         [] o.op = "mkdir" -> RunMkdir(t, o)
         [] o.op = "symlink" -> RunSymlink(t, o)
         [] o.op = "write" -> RunWrite(t, o)
         [] o.op = "template" -> RunTemplate(t, o)
         [] o.op = "index" -> RunIndex(t, o)
         [] o.op = "patch" -> RunPatch(t, o)

-----------------------------------------------------------------------------
Contents(t) == {t[p].data : p \in {q \in DOMAIN t : t[q].kind = "file"}}

\* Matches that a copy or a move puts side by side: into a directory that is
\* there and they are not on the way to, under different names, over nothing, and
\* none below another.
SideBySide(t, o) ==
  LET hit == o.glob \cap DOMAIN t
  IN /\ IsDir(t, o.to)
     /\ \A p \in hit :
          /\ p # <<>> /\ ~Present(t, Append(o.to, Last(p)))
          /\ \A q \in Prefixes(o.to) : ~IsPrefix(p, Lstat(t, q)) /\ ~IsPrefix(p, Stat(t, q))
     /\ \A p, q \in hit : p # q => Last(p) # Last(q) /\ ~Below(p, q)
=============================================================================
