----------------------------- MODULE MCProject ------------------------------
(* Three packages of two versions, one version built twice: a1, a2, b1, b2, *)
(* c1, c3 (another build of c1) and c2.  An elu.toml depends on a, or on a and *)
(* c; a depends on b and c, b on c or back on a, by ranges and by hashes,   *)
(* one of them the hash of another package.                                 *)
EXTENDS Project, TLC

CONSTANTS a1, a2, b1, b2, c1, c2, c3

Names == {1, 2, 3}
Versions == {1, 2}
Manifests == {a1, a2, b1, b2, c1, c2, c3}
Of(n, v) == [name |-> n, ver |-> v]
Owns == a1 :> Of(1, 1) @@ a2 :> Of(1, 2) @@ b1 :> Of(2, 1) @@ b2 :> Of(2, 2)
        @@ c1 :> Of(3, 1) @@ c2 :> Of(3, 2) @@ c3 :> Of(3, 1)

Star(n) == [name |-> n, pin |-> None, vers |-> {1, 2}]
Is(n, v) == [name |-> n, pin |-> None, vers |-> {v}]
Pin(n, m) == [name |-> n, pin |-> m, vers |-> {}]
DemandSet == {Star(n) : n \in Names} \cup {Is(n, v) : n \in Names, v \in Versions}
             \cup {Pin(2, c1), Pin(3, c1)}

Graph(da1, da2, db1, db2, dc) ==
  [m \in Manifests |->
     CASE m = a1 -> da1 [] m = a2 -> da2 [] m = b1 -> db1 [] m = b2 -> db2
       [] OTHER -> dc]
GraphSet ==
  {\* a diamond whose sides agree on the first c only, by range and by hash
   Graph({Star(2)}, {Star(2), Star(3)}, {Is(3, 1)}, {Pin(3, c1)}, {}),
   \* a cycle through all three
   Graph({Star(2)}, {Star(2), Star(3)}, {Star(3)}, {Star(3)}, {Star(1)}),
   \* the hash of another package
   Graph({Star(3)}, {Pin(2, c1), Star(3)}, {}, {Star(3)}, {})}

FirstTomls == {<<Star(1)>>, <<Star(3), Star(1)>>}
TomlSet == FirstTomls \cup {<<Is(1, 1)>>, <<Star(1), Star(3)>>, <<Star(3)>>, <<>>}
InstallSet == FirstTomls \cup {<<Is(1, 2)>>}
InStore == {a1, b1, c1}
InRegistry == {a1, b1, b2, c1}
Builds == {a2, c3}
Publishes == {c2}
\* b and c are of two namespaces and have the same name after the slash.
Shorts == 1 :> 1 @@ 2 :> 2 @@ 3 :> 2
=============================================================================
