--------------------------- MODULE MCTokenService ---------------------------
(* Instances of TokenService for TLC.                                      *)
EXTENDS TokenService, TLC

CONSTANTS c1, c2

TwoCallers == {c1, c2}
CallerSymmetry == Permutations(TwoCallers)
TwoTokens == {1, 2}
RoundRobin == {"round_robin"}
FirstOff == <<0, 2>>
AnyChoice == {"random"}
=============================================================================
