------------------------------- MODULE Outputs ------------------------------
(***************************************************************************)
(* What the outputs make of a staging tree (elu-outputs): the archive of   *)
(* `tar', which is again a sequence of layer entries, the tree that        *)
(* `qcow2' packs, merged from a base and the user's, and the permission    *)
(* mask of `dir'.                                                          *)
(***************************************************************************)
EXTENDS Layers

(***************************************************************************)
(* write_archive: every path but the root, parents first, under its own    *)
(* name.  Whoever applies the archive takes the name of a whiteout for     *)
(* one, whatever has it.                                                   *)
(***************************************************************************)
EntryOf(t, p) ==
  LET hidden == Last(p) \in DOMAIN Hides
      opaque == Last(p) = OpaqueName
  IN [op |-> CASE hidden -> "remove" [] opaque -> "opaque" [] OTHER -> t[p].kind,
      path |-> CASE hidden -> Append(Front(p), Hides[Last(p)]) [] opaque -> Front(p) [] OTHER -> p,
      data |-> t[p].data, mode |-> t[p].mode, to |-> t[p].to, dotted |-> FALSE]
ArchiveFilesOnly(t) ==   \* mutant: directories are left to their files
  LET paths == InOrder({p \in DOMAIN t \ {<<>>} : t[p].kind # "dir"})
  IN [i \in DOMAIN paths |-> EntryOf(t, paths[i])]
Archive(t) ==
  LET paths == InOrder(DOMAIN t \ {<<>>})
  IN [i \in DOMAIN paths |-> EntryOf(t, paths[i])]

\* apply_owner_mode: links keep their bits.
Masked(t, mask) ==
  [p \in DOMAIN t |-> IF t[p].kind = "link" THEN t[p]
                      ELSE Node(t[p].kind, t[p].data, t[p].to,
                                [w \in Who |-> t[p].mode[w] \cap mask[w]])]

(***************************************************************************)
(* copy_tree copies one tree over another, entry by entry.  A new          *)
(* directory gets the default mode and one that is there keeps its own;    *)
(* what stands in the way of a file or a link is removed unless it is a    *)
(* directory, and then the copy fails.  A link that leads nowhere is not   *)
(* seen to be in the way of a file, which is then copied through it.       *)
(***************************************************************************)
CopyNodeKeeping(t, p, n) ==   \* mutant: what is there stays
  IF Present(t, p) THEN Ok(t) ELSE Ok(Set(t, Lstat(t, p), n))

CopyNode(t, p, n) ==
  CASE n.kind = "dir" -> IF IsDir(t, p) THEN Ok(t)
                         ELSE IF Present(t, p) THEN Err(t)
                         ELSE Create(t, Lstat(t, p), Dir(DirMode))
    [] n.kind = "link" \/ (n.kind = "file" /\ Exists(t, p)) -> Create(t, Lstat(t, p), n)
    [] OTHER -> Create(t, Stat(t, p), n)

CopyTree(t, src) ==
  LET paths == InOrder(DOMAIN src \ {<<>>})
      r[i \in 0..Len(paths)] ==
        CASE i = 0 -> Ok(t)
          [] i # 0 /\ r[i - 1].ok -> CopyNode(r[i - 1].tree, paths[i], src[paths[i]])
          [] OTHER -> r[i - 1]
  IN r[Len(paths)]

\* merge_trees: the base, then the user's tree over it.
Merge(base, user) ==
  LET copied == CopyTree(EmptyTree, base)
  IN IF copied.ok THEN CopyTree(copied.tree, user) ELSE copied
=============================================================================
