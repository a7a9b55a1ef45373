------------------------------- MODULE MCBuild -------------------------------
(***************************************************************************)
(* Two checkouts of one package, built under one version number: their     *)
(* manifests differ and share their layer.                                 *)
(***************************************************************************)
EXTENDS Build, TLC
CONSTANTS p1, p2, keeper, old, new, plain, layer, v1

MCManifest == {old, new}
MCBlob == {plain}
MCDiff == {layer}
MCRef == {v1}
MCDiffOf == plain :> layer
MCLayersOf == old :> {layer} @@ new :> {layer}
MCDepsOf == old :> {} @@ new :> {}
MCTree == [p \in Builder |-> IF p = p1 THEN {old} ELSE {new}]
MCRefOf == old :> v1 @@ new :> v1
=============================================================================
