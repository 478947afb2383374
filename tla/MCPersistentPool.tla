-------------------------- MODULE MCPersistentPool --------------------------
(* PersistentPool for TLC: interchangeable clients and connections.           *)
EXTENDS PersistentPool, TLC

Symmetry == Permutations(Clients) \cup Permutations(Conns)
=============================================================================
