------------------------------ MODULE MCImport ------------------------------
(***************************************************************************)
(* Two packages that depend on each other, one of them in two revisions of *)
(* one version, and a dependency that upstream does not have.              *)
(***************************************************************************)
EXTENDS Import, TLC
CONSTANTS p1, p2, app, lib, gone

MCTag == {"1-1", "1-2", "1"}
MCEluName == [q \in Package |-> q]
MCNumeric == [t \in Tag |-> "1"]
MCReleases == app :> <<"1-1", "1-2">> @@ lib :> <<"1">> @@ gone :> <<>>
MCDependsOn == [a \in Package \X Tag |->
  CASE a[1] = app -> IF a[2] = "1-1" THEN <<gone, lib>> ELSE <<lib>>
    [] a[1] = lib -> <<app>>
    [] OTHER -> <<>>]
MCCommands == {[names |-> <<app>>, closure |-> TRUE, want |-> "1-1"],
               [names |-> <<lib, app>>, closure |-> FALSE, want |-> None]}
=============================================================================
