--------------------------- MODULE MCServerRoutes ---------------------------
(* Instances of ServerRoutes for TLC. *)
EXTENDS ServerRoutes, TLC

CONSTANTS c1, c2, c3

ThreeCalls == {c1, c2, c3}
NoCalls    == {}
OneCall    == {c1}
AllOps     == Operations
RouteOps   == {"connect", "reconnect", "close"}

Symmetry == Permutations(Call)
=============================================================================
