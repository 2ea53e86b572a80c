--------------------------- MODULE MCManagerServer ---------------------------
(* An instance of ManagerServer with every proxied call. *)
EXTENDS ManagerServer, TLC
AllProxied == DOMAIN ProxyRoutes
Symmetry == Permutations(Requests) \cup Permutations(Names) \cup Permutations(Addresses)
=============================================================================
