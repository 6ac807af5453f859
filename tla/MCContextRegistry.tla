------------------------- MODULE MCContextRegistry -------------------------
(* Instances of ContextRegistry; processes, tenants and names are alike.   *)
EXTENDS ContextRegistry, TLC

Alike == Permutations(Procs) \cup Permutations(Urls) \cup Permutations(Names)
=============================================================================
