----------------------------- MODULE MCPhp5Pool -----------------------------
(* Php5Pool for TLC: interchangeable clients and connections.                 *)
EXTENDS Php5Pool, TLC

Symmetry == Permutations(Clients) \cup Permutations(Conns)
=============================================================================
