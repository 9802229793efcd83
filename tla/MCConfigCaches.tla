--------------------------- MODULE MCConfigCaches ---------------------------
(* An instance of ConfigCaches for TLC: two calls in one process, where an *)
(* edit may be made too, and one in the other.                             *)
EXTENDS ConfigCaches, TLC

TwoInOne == "c1" :> "p1" @@ "c2" :> "p1"
=============================================================================
