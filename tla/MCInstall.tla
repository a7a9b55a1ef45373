----------------------------- MODULE MCInstall -----------------------------
(***************************************************************************)
(* Two checkouts of one package under one version number: their manifests  *)
(* differ and share their layer.  One registry has the same version as a   *)
(* third manifest, which has the layer too and depends on a library that   *)
(* the next registry has, pinned by its hash under another name.           *)
(***************************************************************************)
EXTENDS Install, TLC
CONSTANTS p1, p2, user, keeper, old, new, app, lib, plain, layer, v1, v2, v3

MCManifest == {old, new, app, lib}
MCBlob == {plain}
MCDiff == {layer}
MCRef == {v1, v2, v3}
MCDiffOf == plain :> layer
MCLayersOf == old :> {layer} @@ new :> {layer} @@ app :> {layer} @@ lib :> {}
MCDepsOf == old :> {} @@ new :> {} @@ app :> {lib} @@ lib :> {}
MCTree == [p \in Builder |-> IF p = p1 THEN {old} ELSE {new}]
MCRefOf == old :> v1 @@ new :> v1 @@ app :> v1 @@ lib :> v2
MCWanted == [p \in Installer |-> v1]
MCAsksFor == [d \in Manifest \X Manifest |-> IF d[2] = lib THEN v3 ELSE RefOf[d[2]]]
MCServes == <<{app}, {lib}>>
MCBlobOf == layer :> plain
MCCasts == {{p1, p2, keeper}, {p1, user}, {user, keeper}}
=============================================================================
