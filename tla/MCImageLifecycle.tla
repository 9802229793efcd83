-------------------------- MODULE MCImageLifecycle --------------------------
(* Instances of ImageLifecycle for TLC.                                    *)
EXTENDS ImageLifecycle, TLC

CONSTANTS p1, p2, r1

TwoPages == {p1, p2}
=============================================================================
