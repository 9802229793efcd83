---------------------------- MODULE MCImportJob ----------------------------
(* An instance of ImportJob for TLC: the first import names an image that  *)
(* is there and a new one, the second, in bulk, the new one.               *)
EXTENDS ImportJob, TLC

SharedItems == 1 :> {"x", "y"} @@ 2 :> {"y"}
OneRejected == 1 :> 1 @@ 2 :> 0
=============================================================================
