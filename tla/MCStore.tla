------------------------------- MODULE MCStore -------------------------------
(***************************************************************************)
(* A small store: an application manifest that depends on a base manifest, *)
(* both using one layer, which exists in two encodings.                    *)
(***************************************************************************)
EXTENDS Store, TLC
CONSTANTS p1, p2, app, base, plain, gzip, layer, v1

Symmetry == Permutations({p1, p2}) \cup Permutations({plain, gzip})

MCProc == {p1, p2}
MCManifest == {app, base}
MCBlob == {plain, gzip}
MCDiff == {layer}
MCRef == {v1}
MCDiffOf == plain :> layer @@ gzip :> layer
MCLayersOf == app :> {} @@ base :> {layer}
MCDepsOf == app :> {base} @@ base :> {}
=============================================================================
