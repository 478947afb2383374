-------------------------- MODULE MCSessionHandler --------------------------
(* SessionHandler for TLC: workers are interchangeable, and a serial matters  *)
(* only relative to the last one of its connection.                           *)
EXTENDS SessionHandler, TLC

Symmetry == Permutations(Workers)

Behind(w, serial) == (handler[w].serial + SerialMod - serial) % SerialMod

Relative(w, queue) ==
  [n \in 1..Len(queue) |-> [queue[n] EXCEPT !.serial = Behind(w, @)]]

View ==
  <<[w \in Workers |-> [handler[w] EXCEPT !.serial = 0]],
    [w \in Workers |-> Relative(w, wire[w])],
    [w \in Workers |-> Relative(w, resp[w])],
    conn, store, holder>>
=============================================================================
