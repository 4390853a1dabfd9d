-------------------------- MODULE MCResetGenerator --------------------------
(***************************************************************************)
(* ResetGenerator for three structures in two packages: one nested in      *)
(* another by value and through a pointer, one embedded, one across the    *)
(* packages.                                                               *)
(***************************************************************************)
EXTENDS ResetGenerator, TLC

ThreeStructs == {"Buffer", "Record", "Sample"}
TwoPackages == <<"metric", "server">>

Home == [s \in ThreeStructs |-> IF s = "Sample" THEN "server" ELSE "metric"]

Layout ==
    [s \in ThreeStructs |->
        CASE s = "Buffer" -> ("items" :> "slice")
          [] s = "Record" -> ("Buffer" :> "Buffer") @@ ("count" :> "basic") @@ ("index" :> "map")
          [] s = "Sample" -> ("record" :> "Record") @@ ("next" :> "Buffer")]

Embedding == [s \in ThreeStructs |-> IF s = "Record" THEN {"Buffer"} ELSE {}]

=============================================================================
