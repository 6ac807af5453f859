-------------------------- MODULE MCSessionReaper --------------------------
(* Instances of SessionReaper: connections c1 and c2 that share one pid.   *)
EXTENDS SessionReaper, TLC

CONSTANTS c1, c2, p1

(* The connections are alike.                                              *)
Sym == Permutations(Conns)
=============================================================================
