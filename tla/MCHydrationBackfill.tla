------------------------ MODULE MCHydrationBackfill ------------------------
(***************************************************************************)
(* Instances of HydrationBackfill for TLC.                                 *)
(***************************************************************************)
EXTENDS HydrationBackfill, TLC

CONSTANTS w1, w2, a1, a2
OneWorker  == {w1}
TwoWorkers == {w1, w2}
OneAdmin   == {a1}
ThreeIllusts == {2, 3, 5}
TwoIllusts   == {2, 5}
AllErrors  == {"failed", "disabled"}
NoErrors   == {}
=============================================================================
