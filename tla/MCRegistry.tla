----------------------------- MODULE MCRegistry -----------------------------
(***************************************************************************)
(* Two publishers of one application version, each with its own build of   *)
(* it; the first may have rebuilt it between two attempts.  The            *)
(* application depends on a library that may be published as private.      *)
(***************************************************************************)
EXTENDS Registry, TLC
CONSTANTS c1, c2, h1, h2, app, lib, app1, lib1, mine, fixed, theirs, libm, l1

MCPkgOf == app1 :> app @@ lib1 :> lib
MCLayersOf == mine :> {l1} @@ fixed :> {l1} @@ theirs :> {} @@ libm :> {}
MCDepsOf == mine :> {} @@ fixed :> {} @@ theirs :> {lib} @@ libm :> {}
MCPrivate == {libm}
MCBuilt == [c \in Client |-> IF c = c1 THEN app1 :> {mine, fixed} @@ lib1 :> {}
                                     ELSE app1 :> {theirs} @@ lib1 :> {libm}]
=============================================================================
