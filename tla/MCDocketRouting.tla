--------------------------- MODULE MCDocketRouting ---------------------------
(* Two teams of one user each; one of the two manages its team.               *)
EXTENDS DocketRouting, TLC

CONSTANTS u1, u2, t1, t2, h1, h2

MCTeamOf   == u1 :> t1 @@ u2 :> t2
MCSymmetry == Permutations({h1, h2})
==============================================================================
