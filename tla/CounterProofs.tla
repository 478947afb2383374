--------------------------- MODULE CounterProofs ----------------------------
(* Theorems about Counter, for any users, sessions, sizes and statistics.    *)
EXTENDS Counter, SequenceTheorems, FiniteSetTheorems, WellFoundedInduction, TLAPS

-----------------------------------------------------------------------------
(* Induction: a set of numbers that is not empty has a smallest one.         *)
LEMMA Smallest ==
  ASSUME NEW T, T \subseteq Nat, T # {}
  PROVE  \E m \in T : \A n \in T : m <= n
<1> DEFINE R == {p \in Nat \X Nat : p[1] < p[2]}
<1>1. IsWellFoundedOn(R, Nat)
  BY NatLessThanWellFounded DEF OpToRel
<1> HIDE DEF R
<1>2. PICK m \in T : \A n \in T : ~(<<n, m>> \in R)
  BY <1>1, WFMin
<1>3. \A n \in T : ~(n < m)
  BY <1>2 DEF R
<1> QED BY <1>3

-----------------------------------------------------------------------------
(* FlattenSeq, part by part.                                                *)
Parts(f, s) ==
  /\ f[0] = <<>>
  /\ \A n \in 1..Len(s) : f[n] = f[n - 1] \o s[n]

(* What FlattenSeq joins: one sequence after the other.                     *)
LEMMA FlattenIs ==
  ASSUME NEW S, NEW s \in Seq(Seq(S))
  PROVE  \E f \in [0..Len(s) -> Seq(S)] : Parts(f, s) /\ FlattenSeq(s) = f[Len(s)]
<1> DEFINE N == Len(s)
           Rec(g, k) == g = [i \in 1..k |-> IF i = 1 THEN s[i] ELSE g[i - 1] \o s[i]]
           T == {k \in Nat : ~\E g : Rec(g, k)}
           flatten == CHOOSE g : Rec(g, N)
<1>1. N \in Nat /\ \A n \in 1..N : s[n] \in Seq(S)
  OBVIOUS
<1>2. T = {}
  <2> SUFFICES ASSUME T # {} PROVE FALSE
    OBVIOUS
  <2>1. T \subseteq Nat
    OBVIOUS
  <2> HIDE DEF T
  <2>2. PICK m \in T : \A n \in T : m <= n
    BY <2>1, Smallest
  <2>3. m \in Nat /\ ~\E g : Rec(g, m)
    BY DEF T
  <2>4. m # 0
    <3>1. Rec([i \in 1..0 |-> 0], 0)
      OBVIOUS
    <3> QED BY <2>3, <3>1
  <2>5. m - 1 \in Nat /\ m - 1 \notin T
    BY <2>2, <2>3, <2>4
  <2>6. PICK g : Rec(g, m - 1)
    BY <2>5 DEF T
  <2> DEFINE h == [i \in 1..m |-> IF i < m THEN g[i]
                                  ELSE IF i = 1 THEN s[i] ELSE g[i - 1] \o s[i]]
  <2>7. \A i \in 1..m : h[i] = IF i = 1 THEN s[i] ELSE h[i - 1] \o s[i]
    <3> SUFFICES ASSUME NEW i \in 1..m
                 PROVE  h[i] = IF i = 1 THEN s[i] ELSE h[i - 1] \o s[i]
      OBVIOUS
    <3>1. i # 1 => i - 1 \in 1..m /\ i - 1 < m /\ h[i - 1] = g[i - 1]
      BY <2>3
    <3>2. CASE i < m
      <4>1. i \in 1..(m - 1)
        BY <2>3, <3>2
      <4>2. g[i] = IF i = 1 THEN s[i] ELSE g[i - 1] \o s[i]
        BY <2>6, <4>1
      <4> QED BY <3>1, <3>2, <4>2
    <3>3. CASE i = m
      BY <2>3, <3>1, <3>3
    <3> QED BY <2>3, <3>2, <3>3
  <2>8. Rec(h, m)
    BY <2>7
  <2> QED BY <2>3, <2>8
<1>3. Rec(flatten, N)
  <2>1. \E g : Rec(g, N)
    BY <1>1, <1>2
  <2> QED BY <2>1
<1>4. FlattenSeq(s) = IF N = 0 THEN s ELSE flatten[N]
  BY DEF FlattenSeq
<1> HIDE DEF flatten, T
<1>5. \A n \in 1..N : flatten[n] = IF n = 1 THEN s[n] ELSE flatten[n - 1] \o s[n]
  BY <1>3
<1> HIDE DEF Rec
<1> DEFINE U == {n \in 1..N : flatten[n] \notin Seq(S)}
<1>6. U = {}
  <2> SUFFICES ASSUME U # {} PROVE FALSE
    OBVIOUS
  <2>1. U \subseteq Nat
    BY <1>1
  <2> HIDE DEF U
  <2>2. PICK m \in U : \A n \in U : m <= n
    BY <2>1, Smallest
  <2>3. m \in 1..N /\ flatten[m] \notin Seq(S)
    BY DEF U
  <2>4. CASE m = 1
    BY <1>1, <1>5, <2>3, <2>4
  <2>5. CASE m # 1
    <3>1. m - 1 \in 1..N /\ m - 1 \notin U
      BY <1>1, <2>2, <2>3, <2>5
    <3>2. flatten[m - 1] \in Seq(S)
      BY <3>1 DEF U
    <3>3. flatten[m] = flatten[m - 1] \o s[m]
      BY <1>5, <2>3, <2>5
    <3> QED BY <1>1, <2>3, <3>2, <3>3, ConcatProperties
  <2> QED BY <2>4, <2>5
<1>7. \A n \in 1..N : flatten[n] \in Seq(S)
  BY <1>6
<1> HIDE DEF U
<1> DEFINE f == [n \in 0..N |-> IF n = 0 THEN <<>> ELSE flatten[n]]
<1>8. f \in [0..N -> Seq(S)]
  BY <1>1, <1>7
<1>9. \A n \in 1..N : f[n] = f[n - 1] \o s[n]
  <2> SUFFICES ASSUME NEW n \in 1..N PROVE f[n] = f[n - 1] \o s[n]
    OBVIOUS
  <2>1. f[n] = flatten[n] /\ f[n - 1] = IF n = 1 THEN <<>> ELSE flatten[n - 1]
    BY <1>1
  <2>2. <<>> \o s[n] = s[n]
    BY <1>1, ConcatEmptySeq
  <2> QED BY <1>5, <2>1, <2>2
<1>10. FlattenSeq(s) = f[N]
  <2>1. N = 0 => s = <<>>
    OBVIOUS
  <2> QED BY <1>1, <1>4, <2>1
<1>11. f[0] = <<>>
  BY <1>1
<1> HIDE DEF f
<1> QED BY <1>8, <1>9, <1>10, <1>11 DEF Parts

-----------------------------------------------------------------------------
(* parse_statistics.  One round of the loop, from position p.               *)
Round(body, from, p) ==
  LET end     == Len(body)
      size(q) == 2 + body[q] + body[q + 1]
  IN IF p = end + 1 THEN [ok |-> TRUE, out |-> <<>>]
     ELSE IF p + 1 > end \/ p + size(p) > end + 1 THEN [ok |-> FALSE, out |-> <<>>]
     ELSE [ok  |-> from[p + size(p)].ok,
           out |-> SubSeq(body, p + 2, p + size(p) - 1) \o from[p + size(p)].out]

(* A round goes on behind its position, and not past the end.                *)
LEMMA Onward ==
  ASSUME NEW end \in Nat, NEW p \in 1..(end + 1), NEW z \in Nat, z >= 2, ~(p + z > end + 1)
  PROVE  p + z \in (p + 1)..(end + 1)
OBVIOUS

(* One round of parse_statistics reads the pair at its position.            *)
LEMMA RoundIs ==
  ASSUME NEW body \in Seq(Nat), NEW g, NEW h, NEW p \in 1..(Len(body) + 1),
         \A q \in (p + 1)..(Len(body) + 1) : g[q] = h[q]
  PROVE  Round(body, g, p) = Round(body, h, p)
<1> DEFINE end == Len(body)
           size(q) == 2 + body[q] + body[q + 1]
<1>1. end \in Nat
  OBVIOUS
<1>2. CASE p = end + 1 \/ p + 1 > end \/ p + size(p) > end + 1
  BY <1>2 DEF Round
<1>3. CASE ~(p = end + 1 \/ p + 1 > end \/ p + size(p) > end + 1)
  <2>1. p \in 1..end /\ p + 1 \in 1..end
    BY <1>1, <1>3
  <2>2. size(p) \in Nat /\ size(p) >= 2
    BY <2>1, ElementOfSeq
  <2>3. p + size(p) \in (p + 1)..(end + 1)
    <3>1. PICK z \in Nat : z = size(p) /\ z >= 2
      BY <2>2
    <3>2. ~(p + z > end + 1)
      BY <1>3, <3>1
    <3> QED BY <1>1, <3>1, <3>2, Onward
  <2>4. g[p + size(p)] = h[p + size(p)]
    BY <2>3
  <2> HIDE DEF size
  <2>5. Round(body, g, p)
          = [ok  |-> g[p + size(p)].ok,
             out |-> SubSeq(body, p + 2, p + size(p) - 1) \o g[p + size(p)].out]
    BY <1>3 DEF Round, size
  <2>6. Round(body, h, p)
          = [ok  |-> h[p + size(p)].ok,
             out |-> SubSeq(body, p + 2, p + size(p) - 1) \o h[p + size(p)].out]
    BY <1>3 DEF Round, size
  <2> QED BY <2>4, <2>5, <2>6
<1> QED BY <1>2, <1>3

(* The loop starts at the first byte, and each round goes on where the one   *)
(* before it has stopped.                                                   *)
LEMMA ParsedIs ==
  ASSUME NEW body \in Seq(Nat)
  PROVE  \E from \in [1..(Len(body) + 1) -> [ok : BOOLEAN, out : Seq(Nat)]] :
           /\ parse_statistics(body) = from[1]
           /\ \A p \in 1..(Len(body) + 1) : from[p] = Round(body, from, p)
<1> DEFINE E == Len(body) + 1
           Rec(g, k) == g = [p \in (E - k + 1)..E |-> Round(body, g, p)]
           T == {k \in 0..E : ~\E g : Rec(g, k)}
           from == CHOOSE g : g = [p \in 1..E |-> Round(body, g, p)]
<1>1. E \in Nat /\ E >= 1
  OBVIOUS
<1>2. T = {}
  <2> SUFFICES ASSUME T # {} PROVE FALSE
    OBVIOUS
  <2>1. T \subseteq Nat
    BY <1>1
  <2> HIDE DEF T
  <2>2. PICK m \in T : \A n \in T : m <= n
    BY <2>1, Smallest
  <2>3. m \in 0..E /\ ~\E g : Rec(g, m)
    BY DEF T
  <2> HIDE DEF E
  <2>4. m # 0
    <3>1. (E - 0 + 1)..E = {}
      BY <1>1
    <3>2. Rec([p \in {} |-> 0], 0)
      BY <3>1
    <3> QED BY <2>3, <3>2
  <2>5. m - 1 \in 0..E /\ m - 1 \notin T
    BY <1>1, <2>2, <2>3, <2>4
  <2>6. PICK g : Rec(g, m - 1)
    BY <2>5 DEF T
  <2> DEFINE a == E - m + 1
             h == [p \in a..E |-> Round(body, g, p)]
  <2>7. a \in 1..E /\ E - (m - 1) + 1 = a + 1
    BY <1>1, <2>3, <2>4
  <2>8. \A q \in (a + 1)..E : g[q] = h[q]
    <3> SUFFICES ASSUME NEW q \in (a + 1)..E PROVE g[q] = h[q]
      OBVIOUS
    <3>1. q \in a..E
      BY <1>1, <2>7
    <3>2. g[q] = Round(body, g, q)
      BY <2>6, <2>7
    <3> QED BY <3>1, <3>2
  <2> HIDE DEF a
  <2>9. \A p \in a..E : h[p] = Round(body, h, p)
    <3> SUFFICES ASSUME NEW p \in a..E PROVE h[p] = Round(body, h, p)
      OBVIOUS
    <3>1. p \in 1..(Len(body) + 1)
      BY <1>1, <2>7 DEF E
    <3> HIDE DEF h
    <3>2. \A q \in (p + 1)..E : q \in (a + 1)..E
      BY <1>1, <2>7
    <3>3. \A q \in (p + 1)..E : g[q] = h[q]
      BY <2>8, <3>2
    <3>4. \A q \in (p + 1)..(Len(body) + 1) : g[q] = h[q]
      BY <3>3 DEF E
    <3>5. Round(body, g, p) = Round(body, h, p)
      BY <3>1, <3>4, RoundIs
    <3>6. h[p] = Round(body, g, p)
      BY DEF h
    <3> QED BY <3>5, <3>6
  <2>10. Rec(h, m)
    <3>1. h = [p \in a..E |-> h[p]]
      OBVIOUS
    <3> HIDE DEF h
    <3>2. h = [p \in a..E |-> Round(body, h, p)]
      BY <2>9, <3>1
    <3> QED BY <3>2 DEF a
  <2> QED BY <2>3, <2>10
<1>3. from = [p \in 1..E |-> Round(body, from, p)]
  <2>1. E \in 0..E /\ E - E + 1 = 1
    BY <1>1
  <2> HIDE DEF E
  <2>2. E \notin T
    BY <1>2
  <2>3. \E g : Rec(g, E)
    BY <2>1, <2>2
  <2>4. \E g : g = [p \in 1..E |-> Round(body, g, p)]
    BY <2>1, <2>3
  <2> QED BY <2>4
<1>4. parse_statistics(body) = from[1]
  BY DEF parse_statistics, Round
<1> HIDE DEF from
<1>5. \A p \in 1..E : from[p] = Round(body, from, p)
  BY <1>3
<1> DEFINE R == [ok : BOOLEAN, out : Seq(Nat)]
           U == {k \in 0..(E - 1) : from[E - k] \notin R}
<1>6. U = {}
  <2> SUFFICES ASSUME U # {} PROVE FALSE
    OBVIOUS
  <2>1. U \subseteq Nat
    BY <1>1
  <2> HIDE DEF U
  <2>2. PICK m \in U : \A n \in U : m <= n
    BY <2>1, Smallest
  <2>3. PICK p \in 1..E : p = E - m
    BY <1>1 DEF U
  <2>4. from[p] \notin R
    BY <2>3 DEF U
  <2>5. from[p] = Round(body, from, p)
    BY <1>5
  <2>6. ASSUME NEW q \in (p + 1)..E PROVE from[q] \in R
    <3>1. E - q \in 0..(E - 1) /\ E - q < m /\ E - (E - q) = q
      BY <1>1, <2>3 DEF U
    <3>2. E - q \notin U
      <4> HIDE DEF E, R
      <4> QED BY <2>1, <2>2, <3>1
    <3>3. from[E - (E - q)] \in R
      BY <3>1, <3>2 DEF U
    <3> HIDE DEF E, R
    <3> QED BY <3>1, <3>3
  <2>7. Round(body, from, p) \in R
    <3> DEFINE size(q) == 2 + body[q] + body[q + 1]
    <3>1. CASE p = Len(body) + 1 \/ p + 1 > Len(body) \/ p + size(p) > Len(body) + 1
      <4>1. <<>> \in Seq(Nat)
        OBVIOUS
      <4> QED BY <3>1, <4>1 DEF Round
    <3>2. CASE ~(p = Len(body) + 1 \/ p + 1 > Len(body) \/ p + size(p) > Len(body) + 1)
      <4>1. p \in 1..Len(body) /\ p + 1 \in 1..Len(body)
        BY <1>1, <3>2
      <4>2. body[p] \in Nat /\ body[p + 1] \in Nat
        BY <4>1, ElementOfSeq
      <4>3. size(p) \in Nat /\ size(p) >= 2
        <5> HIDE DEF E, R
        <5>1. PICK x \in Nat, y \in Nat : x = body[p] /\ y = body[p + 1]
          BY <4>2
        <5>2. size(p) = 2 + x + y
          BY <5>1
        <5> QED BY <5>2
      <4> HIDE DEF size
      <4>4. p + size(p) \in (p + 1)..E
        BY <3>2, <4>1, <4>3
      <4>5. from[p + size(p)] \in R
        BY <2>6, <4>4
      <4> DEFINE part == SubSeq(body, p + 2, p + size(p) - 1)
      <4>6. part \in Seq(Nat)
        <5>1. p + 2 \in Int /\ p + size(p) - 1 \in Int
          BY <4>3
        <5>2. \A i \in (p + 2)..(p + size(p) - 1) : i \in 1..Len(body)
          BY <4>1, <4>3, <4>4
        <5>3. \A i \in (p + 2)..(p + size(p) - 1) : body[i] \in Nat
          BY <5>2, ElementOfSeq
        <5> QED BY <5>1, <5>3, SubSeqProperties
      <4> HIDE DEF part
      <4>7. Round(body, from, p) = [ok |-> from[p + size(p)].ok, out |-> part \o from[p + size(p)].out]
        BY <3>2 DEF Round, size, part
      <4>8. part \o from[p + size(p)].out \in Seq(Nat)
        BY <4>5, <4>6, ConcatProperties
      <4> QED BY <4>5, <4>7, <4>8
    <3> QED BY <3>1, <3>2
  <2> QED BY <2>4, <2>5, <2>7
<1>7. \A p \in 1..E : from[p] \in R
  <2> SUFFICES ASSUME NEW p \in 1..E PROVE from[p] \in R
    OBVIOUS
  <2>1. E - p \in 0..(E - 1) /\ E - (E - p) = p
    BY <1>1
  <2> QED BY <1>6, <2>1
<1> HIDE DEF U
<1>8. from \in [1..E -> R]
  <2>1. from = [p \in 1..E |-> from[p]]
    BY <1>3
  <2> QED BY <1>7, <2>1
<1> QED BY <1>4, <1>5, <1>8

-----------------------------------------------------------------------------
(* The statistics.  A body that begins as the statistics do is read pair by  *)
(* pair, up to where it differs.                                            *)
StatPairs == [n \in 1..Len(Stats) |-> Pair(Stats[n])]
StatWords == [n \in 1..Len(Stats) |-> Stats[n].name \o Stats[n].value]

Begins(b, f, k) ==
  Len(f[k]) <= Len(b) /\ \A i \in 1..Len(f[k]) : b[i] = f[k][i]

(* The types of the statistics.                                             *)
LEMMA StatTypes ==
  /\ Len(Stats) \in Nat
  /\ \A n \in 1..Len(Stats) :
       /\ Stats[n].name \in Seq(Nat) /\ Stats[n].value \in Seq(Nat)
       /\ StatPairs[n] = <<Len(Stats[n].name), Len(Stats[n].value)>> \o StatWords[n]
       /\ StatWords[n] \in Seq(Nat) /\ StatPairs[n] \in Seq(Nat)
       /\ Len(StatWords[n]) = Len(Stats[n].name) + Len(Stats[n].value)
       /\ Len(StatPairs[n]) = 2 + Len(StatWords[n])
       /\ StatPairs[n][1] = Len(Stats[n].name) /\ StatPairs[n][2] = Len(Stats[n].value)
       /\ \A i \in 1..Len(StatWords[n]) : StatPairs[n][i + 2] = StatWords[n][i]
  /\ StatPairs \in Seq(Seq(Nat)) /\ Len(StatPairs) = Len(Stats)
  /\ StatWords \in Seq(Seq(Nat)) /\ Len(StatWords) = Len(Stats)
<1> DEFINE N == Len(Stats)
<1>1. N \in Nat /\ \A n \in 1..N : Stats[n] \in [name : Seq(Nat), value : Seq(Nat)]
  <2> DEFINE R == [name : Seq(Nat), value : Seq(Nat)]
  <2>1. Stats \in Seq(R)
    BY StatsAssumption
  <2> HIDE DEF R
  <2>2. N \in Nat /\ \A n \in 1..N : Stats[n] \in R
    BY <2>1, ElementOfSeq
  <2> QED BY <2>2 DEF R
<1>2. ASSUME NEW n \in 1..N
      PROVE  /\ Stats[n].name \in Seq(Nat) /\ Stats[n].value \in Seq(Nat)
             /\ StatPairs[n] = <<Len(Stats[n].name), Len(Stats[n].value)>> \o StatWords[n]
             /\ StatWords[n] \in Seq(Nat) /\ StatPairs[n] \in Seq(Nat)
             /\ Len(StatWords[n]) = Len(Stats[n].name) + Len(Stats[n].value)
             /\ Len(StatPairs[n]) = 2 + Len(StatWords[n])
             /\ StatPairs[n][1] = Len(Stats[n].name) /\ StatPairs[n][2] = Len(Stats[n].value)
             /\ \A i \in 1..Len(StatWords[n]) : StatPairs[n][i + 2] = StatWords[n][i]
  <2>1. Stats[n].name \in Seq(Nat) /\ Stats[n].value \in Seq(Nat)
    BY <1>1
  <2>2. PICK x \in Seq(Nat), y \in Seq(Nat) : x = Stats[n].name /\ y = Stats[n].value
    BY <2>1
  <2>3. Len(x) \in Nat /\ Len(y) \in Nat
    OBVIOUS
  <2>4. PICK front \in Seq(Nat) : front = <<Len(x), Len(y)>>
    <3>1. \A a, b \in Nat : <<a, b>> \in Seq(Nat)
      OBVIOUS
    <3>2. <<Len(x), Len(y)>> \in Seq(Nat)
      BY <2>3, <3>1
    <3> QED BY <3>2
  <2>13. Len(front) = 2 /\ front[1] = Len(x) /\ front[2] = Len(y)
    BY <2>4
  <2>5. StatWords[n] = x \o y /\ StatPairs[n] = (front \o x) \o y
    BY <2>2, <2>4 DEF StatWords, StatPairs, Pair
  <2>6. StatPairs[n] = front \o StatWords[n]
    <3>1. (front \o x) \o y = front \o (x \o y)
      BY ConcatAssociative, SMTT(30)
    <3> QED BY <2>5, <3>1
  <2>7. StatWords[n] \in Seq(Nat) /\ Len(StatWords[n]) = Len(x) + Len(y)
    BY <2>5, ConcatProperties
  <2>8. PICK w \in Seq(Nat) : w = StatWords[n]
    BY <2>7
  <2>9. /\ front \o w \in Seq(Nat) /\ Len(front \o w) = 2 + Len(w)
        /\ \A i \in 1..(2 + Len(w)) : (front \o w)[i] = IF i <= 2 THEN front[i] ELSE w[i - 2]
    <3>1. /\ front \o w \in Seq(Nat) /\ Len(front \o w) = Len(front) + Len(w)
          /\ \A i \in 1..(Len(front) + Len(w)) :
               (front \o w)[i] = IF i <= Len(front) THEN front[i] ELSE w[i - Len(front)]
      BY ConcatProperties
    <3> QED BY <2>13, <3>1
  <2>10. Len(w) \in Nat
    OBVIOUS
  <2>11. \A i \in 1..Len(w) : (front \o w)[i + 2] = w[i]
    BY <2>9, <2>10, SMTT(30)
  <2>12. (front \o w)[1] = Len(x) /\ (front \o w)[2] = Len(y)
    BY <2>9, <2>10, <2>13
  <2> QED BY <2>1, <2>2, <2>4, <2>6, <2>7, <2>8, <2>9, <2>11, <2>12
<1>3. StatPairs \in Seq(Seq(Nat)) /\ Len(StatPairs) = N
  <2>1. StatPairs = [n \in 1..N |-> StatPairs[n]] /\ \A n \in 1..N : StatPairs[n] \in Seq(Nat)
    BY <1>2 DEF StatPairs
  <2>2. StatPairs \in [1..N -> Seq(Nat)]
    BY <2>1
  <2> QED BY <1>1, <2>2
<1>4. StatWords \in Seq(Seq(Nat)) /\ Len(StatWords) = N
  <2>1. StatWords = [n \in 1..N |-> StatWords[n]] /\ \A n \in 1..N : StatWords[n] \in Seq(Nat)
    BY <1>2 DEF StatWords
  <2>2. StatWords \in [1..N -> Seq(Nat)]
    BY <2>1
  <2> QED BY <1>1, <2>2
<1> QED BY <1>1, <1>2, <1>3, <1>4

Joined(word, rest) == [ok |-> rest.ok, out |-> word \o rest.out]

(* Where a pair begins and ends in the body.                                *)
LEMMA PairWithin ==
  ASSUME NEW p \in Nat, NEW x \in Nat, NEW y \in Nat, NEW n \in Nat, NEW z \in Nat,
         p >= 1, n = p + 1 + x + y, n <= z
  PROVE  p \in 1..(z + 1) /\ n + 1 \in 1..(z + 1)
OBVIOUS

(* One pair: a round of the loop over a body that has it where the           *)
(* statistics do reads it and goes on behind it.                            *)
LEMMA PairRead ==
  ASSUME NEW f \in [0..Len(Stats) -> Seq(Nat)], Parts(f, StatPairs), NEW k \in 1..Len(Stats),
         NEW b \in Seq(Nat), Begins(b, f, k),
         NEW from \in [1..(Len(b) + 1) -> [ok : BOOLEAN, out : Seq(Nat)]]
  PROVE  /\ Begins(b, f, k - 1)
         /\ Len(f[k - 1]) + 1 \in 1..(Len(b) + 1) /\ Len(f[k]) + 1 \in 1..(Len(b) + 1)
         /\ Round(b, from, Len(f[k - 1]) + 1)
              = Joined(StatWords[k], from[Len(f[k]) + 1])
<1>1. k \in 1..Len(StatPairs) /\ k - 1 \in 0..Len(Stats) /\ k \in 0..Len(Stats)
  BY StatTypes
<1>2. f[k] = f[k - 1] \o StatPairs[k]
  BY <1>1 DEF Parts
<1>3. PICK old \in Seq(Nat), pair \in Seq(Nat), word \in Seq(Nat) :
        old = f[k - 1] /\ pair = StatPairs[k] /\ word = StatWords[k]
  BY <1>1, StatTypes
<1>4. PICK x \in Nat, y \in Nat : x = Len(Stats[k].name) /\ y = Len(Stats[k].value)
  <2>1. Stats[k].name \in Seq(Nat) /\ Stats[k].value \in Seq(Nat)
    BY StatTypes
  <2>2. Len(Stats[k].name) \in Nat /\ Len(Stats[k].value) \in Nat
    BY <2>1
  <2> QED BY <2>2
<1>5. /\ Len(word) = x + y /\ Len(pair) = 2 + x + y /\ pair[1] = x /\ pair[2] = y
      /\ \A i \in 1..Len(word) : pair[i + 2] = word[i]
  <2>1. /\ Len(word) = x + y /\ Len(pair) = 2 + Len(word) /\ pair[1] = x /\ pair[2] = y
        /\ \A i \in 1..Len(word) : pair[i + 2] = word[i]
    BY <1>3, <1>4, StatTypes
  <2> QED BY <2>1
<1>6. PICK p \in Nat : p = Len(old) + 1
  OBVIOUS
<1>7. /\ old \o pair \in Seq(Nat) /\ Len(old \o pair) = Len(old) + Len(pair)
      /\ \A i \in 1..(Len(old) + Len(pair)) :
           (old \o pair)[i] = IF i <= Len(old) THEN old[i] ELSE pair[i - Len(old)]
  BY ConcatProperties
<1>8. PICK new \in Seq(Nat) : new = old \o pair /\ new = f[k]
  BY <1>2, <1>3, <1>7
<1>9. /\ Len(new) = Len(old) + Len(pair)
       /\ \A i \in 1..Len(new) : new[i] = IF i <= Len(old) THEN old[i] ELSE pair[i - Len(old)]
  <2>1. Len(new) = Len(old) + Len(pair)
    BY <1>7, <1>8
  <2>2. \A i \in 1..Len(new) : new[i] = IF i <= Len(old) THEN old[i] ELSE pair[i - Len(old)]
    BY <1>7, <1>8, <2>1
  <2> QED BY <2>1, <2>2
<1>10. Len(old) \in Nat /\ Len(b) \in Nat /\ Len(new) = p + 1 + x + y
  <2>1. Len(old) \in Nat /\ Len(b) \in Nat
    OBVIOUS
  <2> QED BY <1>5, <1>6, <1>9, <2>1
<1>11. Len(new) <= Len(b) /\ \A i \in 1..Len(new) : b[i] = new[i]
  BY <1>8 DEF Begins
<1>12. \A i \in 1..Len(old) : b[i] = old[i]
  <2> SUFFICES ASSUME NEW i \in 1..Len(old) PROVE b[i] = old[i]
    OBVIOUS
  <2>1. i \in 1..Len(new) /\ i <= Len(old)
    BY <1>5, <1>10, <1>9
  <2>2. new[i] = old[i]
    BY <1>9, <2>1
  <2> QED BY <1>11, <2>1, <2>2
<1>13. Begins(b, f, k - 1)
  BY <1>3, <1>10, <1>11, <1>12, <1>6 DEF Begins
<1>14. \A i \in 1..(2 + x + y) : b[p - 1 + i] = pair[i]
  <2> SUFFICES ASSUME NEW i \in 1..(2 + x + y) PROVE b[p - 1 + i] = pair[i]
    OBVIOUS
  <2>1. PICK j \in 1..Len(new) : j = p - 1 + i
    <3>1. p >= 1
      BY <1>6, <1>10
    <3>2. p - 1 + i \in 1..(p + 1 + x + y)
      BY <3>1
    <3> QED BY <1>10, <3>2
  <2>2. ~(j <= Len(old)) /\ j - Len(old) = i
    BY <1>6, <1>10, <2>1
  <2>3. new[j] = pair[j - Len(old)]
    BY <1>9, <2>2
  <2>4. b[j] = pair[i]
    BY <1>11, <2>2, <2>3
  <2> QED BY <2>1, <2>4
<1>15. b[p] = x /\ b[p + 1] = y
  <2>1. p - 1 + 1 = p /\ p - 1 + 2 = p + 1 /\ 1 \in 1..(2 + x + y) /\ 2 \in 1..(2 + x + y)
    OBVIOUS
  <2>2. b[p - 1 + 1] = pair[1] /\ b[p - 1 + 2] = pair[2]
    BY <1>14, <2>1
  <2> QED BY <1>5, <2>1, <2>2
<1>16. SubSeq(b, p + 2, p + 1 + x + y) = word
  <2>1. \A i \in (p + 2)..(p + 1 + x + y) : i \in 1..Len(b)
    BY <1>10, <1>11
  <2>2. \A i \in (p + 2)..(p + 1 + x + y) : b[i] \in Nat
    BY <2>1, ElementOfSeq
  <2>3. p + 2 \in Int /\ p + 1 + x + y \in Int
    OBVIOUS
  <2>4. /\ SubSeq(b, p + 2, p + 1 + x + y) \in Seq(Nat)
        /\ Len(SubSeq(b, p + 2, p + 1 + x + y))
             = IF p + 2 <= p + 1 + x + y THEN p + 1 + x + y - (p + 2) + 1 ELSE 0
        /\ \A i \in 1..(p + 1 + x + y - (p + 2) + 1) :
             SubSeq(b, p + 2, p + 1 + x + y)[i] = b[p + 2 + i - 1]
    BY <2>2, <2>3, SubSeqProperties
  <2>5. PICK cut \in Seq(Nat) : cut = SubSeq(b, p + 2, p + 1 + x + y)
    BY <2>4
  <2>6. Len(cut) = x + y
    BY <2>4, <2>5
  <2>7. \A i \in 1..(x + y) : cut[i] = word[i]
    <3> SUFFICES ASSUME NEW i \in 1..(x + y) PROVE cut[i] = word[i]
      OBVIOUS
    <3>1. cut[i] = b[p + 2 + i - 1]
      BY <2>4, <2>5
    <3>2. p + 2 + i - 1 = p - 1 + (i + 2) /\ i + 2 \in 1..(2 + x + y)
      OBVIOUS
    <3>3. b[p - 1 + (i + 2)] = pair[i + 2]
      BY <1>14, <3>2
    <3>4. pair[i + 2] = word[i]
      BY <1>5
    <3> QED BY <3>1, <3>2, <3>3, <3>4
  <2> QED BY <1>5, <2>5, <2>6, <2>7, SeqEqual, ZenonT(40)
<1>17. Round(b, from, p)
         = Joined(SubSeq(b, p + 2, p + (2 + x + y) - 1), from[p + (2 + x + y)])
  <2>1. ~(p = Len(b) + 1) /\ ~(p + 1 > Len(b)) /\ ~(p + (2 + x + y) > Len(b) + 1)
    BY <1>10, <1>11, SMTT(30)
  <2> QED BY <1>15, <2>1 DEF Round, Joined
<1>18. p + (2 + x + y) = Len(new) + 1 /\ p + (2 + x + y) - 1 = p + 1 + x + y
  BY <1>10
<1>19. p \in 1..(Len(b) + 1) /\ Len(new) + 1 \in 1..(Len(b) + 1)
  <2>1. p >= 1
    BY <1>6, <1>10
  <2>2. Len(new) <= Len(b)
    BY <1>11
  <2>3. Len(b) \in Nat /\ Len(new) \in Nat /\ Len(new) = p + 1 + x + y
    BY <1>10
  <2> QED BY <2>1, <2>2, <2>3, PairWithin
<1>20. Round(b, from, p) = Joined(word, from[Len(new) + 1])
  BY <1>16, <1>17, <1>18
<1> QED BY <1>3, <1>6, <1>8, <1>13, <1>20, <1>19

(* Joining three sequences does not depend on the grouping.                 *)
LEMMA Reassociate ==
  ASSUME NEW x \in Seq(Nat), NEW y \in Seq(Nat), NEW z \in Seq(Nat)
  PROVE  (x \o y) \o z = x \o (y \o z)
BY ConcatAssociative, SMTT(30)

(* A sequence without its last element.                                     *)
LEMMA CutIs ==
  ASSUME NEW b \in Seq(Nat), NEW m \in Nat, m + 1 = Len(b)
  PROVE  \E cut \in Seq(Nat) : /\ cut = SubSeq(b, 1, Len(b) - 1) /\ Len(cut) = m
                              /\ \A i \in 1..m : cut[i] = b[i]
<1>1. \A i \in 1..m : b[i] \in Nat
  BY ElementOfSeq
<1>2. /\ SubSeq(b, 1, m) \in Seq(Nat)
      /\ Len(SubSeq(b, 1, m)) = IF 1 <= m THEN m - 1 + 1 ELSE 0
      /\ \A i \in 1..(m - 1 + 1) : SubSeq(b, 1, m)[i] = b[1 + i - 1]
  BY <1>1, SubSeqProperties
<1>3. Len(b) - 1 = m
  OBVIOUS
<1>4. PICK cut \in Seq(Nat) : cut = SubSeq(b, 1, m)
  BY <1>2
<1>5. Len(cut) = m
  BY <1>2, <1>4
<1>6. \A i \in 1..m : cut[i] = b[i]
  <2> SUFFICES ASSUME NEW i \in 1..m PROVE cut[i] = b[i]
    OBVIOUS
  <2>1. i \in 1..(m - 1 + 1) /\ 1 + i - 1 = i
    OBVIOUS
  <2> QED BY <1>2, <1>4, <2>1
<1> QED BY <1>3, <1>4, <1>5, <1>6

(* A body ends with a pair of x and y units, behind the o units of old.      *)
Ends(b, old, pair, o, x, y) ==
  /\ pair[1] = x /\ pair[2] = y /\ Len(b) = o + (2 + x + y)
  /\ \A i \in 1..(o + (2 + x + y)) : b[i] = IF i <= o THEN old[i] ELSE pair[i - o]

(* Without its last unit, it still begins with old, and its loop ends there   *)
(* with an error.                                                           *)
Refuses(b, old, o) ==
  \E cut \in Seq(Nat) :
    /\ cut = SubSeq(b, 1, Len(b) - 1) /\ o + 1 \in 1..(Len(cut) + 1)
    /\ \A i \in 1..o : cut[i] = old[i]
    /\ \A from : Round(cut, from, o + 1) = [ok |-> FALSE, out |-> <<>>]

(* A pair without its last character is refused.                            *)
LEMMA PairCut ==
  ASSUME NEW old, NEW pair, NEW b \in Seq(Nat), NEW o \in Nat, NEW x \in Nat, NEW y \in Nat,
         Ends(b, old, pair, o, x, y)
  PROVE  Refuses(b, old, o)
<1>1. /\ pair[1] = x /\ pair[2] = y /\ Len(b) = o + (2 + x + y)
      /\ \A i \in 1..(o + (2 + x + y)) : b[i] = IF i <= o THEN old[i] ELSE pair[i - o]
  BY DEF Ends
<1>2. PICK m \in Nat : m = o + 1 + x + y /\ m + 1 = Len(b)
  BY <1>1
<1>3. PICK cut \in Seq(Nat) : /\ cut = SubSeq(b, 1, Len(b) - 1) /\ Len(cut) = m
                              /\ \A i \in 1..m : cut[i] = b[i]
  BY <1>2, CutIs
<1>4. \A i \in 1..m : i \in 1..(o + (2 + x + y))
  BY <1>2
<1>5. \A i \in 1..m : cut[i] = IF i <= o THEN old[i] ELSE pair[i - o]
  <2> SUFFICES ASSUME NEW i \in 1..m PROVE cut[i] = IF i <= o THEN old[i] ELSE pair[i - o]
    OBVIOUS
  <2>1. i \in 1..(o + (2 + x + y))
    BY <1>4
  <2>2. b[i] = IF i <= o THEN old[i] ELSE pair[i - o]
    BY <1>1, <2>1
  <2> QED BY <1>3, <2>2
<1>6. \A i \in 1..o : i \in 1..m
  BY <1>2
<1>7. \A i \in 1..o : cut[i] = old[i]
  <2> SUFFICES ASSUME NEW i \in 1..o PROVE cut[i] = old[i]
    OBVIOUS
  <2>1. i \in 1..m /\ i <= o
    BY <1>2
  <2>2. cut[i] = IF i <= o THEN old[i] ELSE pair[i - o]
    BY <1>5, <2>1
  <2> QED BY <2>1, <2>2
<1>8. o + 1 \in 1..(m + 1)
  BY <1>2
<1>9. ASSUME NEW from PROVE Round(cut, from, o + 1) = [ok |-> FALSE, out |-> <<>>]
  <2>1. ~(o + 1 = m + 1)
    BY <1>2
  <2>2. CASE o + 1 + 1 > m
    BY <1>3, <2>1, <2>2 DEF Round
  <2>3. CASE ~(o + 1 + 1 > m)
    <3>1. o + 1 \in 1..m /\ o + 1 + 1 \in 1..m /\ o + 1 - o = 1 /\ o + 1 + 1 - o = 2
      BY <2>3
    <3>2. ~(o + 1 <= o) /\ ~(o + 1 + 1 <= o)
      OBVIOUS
    <3>3. cut[o + 1] = x /\ cut[o + 1 + 1] = y
      <4>1. cut[o + 1] = IF o + 1 <= o THEN old[o + 1] ELSE pair[o + 1 - o]
        BY <1>5, <3>1, SMTT(30)
      <4>2. cut[o + 1 + 1] = IF o + 1 + 1 <= o THEN old[o + 1 + 1] ELSE pair[o + 1 + 1 - o]
        BY <1>5, <3>1
      <4> QED BY <1>1, <3>1, <3>2, <4>1, <4>2
    <3>4. o + 1 + (2 + x + y) > m + 1
      BY <1>2
    <3> QED BY <1>3, <2>1, <3>3, <3>4 DEF Round
  <2> QED BY <2>2, <2>3
<1> QED BY <1>3, <1>7, <1>8, <1>9 DEF Refuses

(* The rounds over a body that begins with k pairs.                          *)
LEMMA PairsRead ==
  ASSUME NEW f \in [0..Len(Stats) -> Seq(Nat)], Parts(f, StatPairs),
         NEW g \in [0..Len(Stats) -> Seq(Nat)], Parts(g, StatWords),
         NEW b \in Seq(Nat), NEW from \in [1..(Len(b) + 1) -> [ok : BOOLEAN, out : Seq(Nat)]],
         \A p \in 1..(Len(b) + 1) : from[p] = Round(b, from, p),
         NEW k \in 0..Len(Stats), Begins(b, f, k)
  PROVE  /\ Len(f[k]) + 1 \in 1..(Len(b) + 1)
         /\ from[1] = [ok  |-> from[Len(f[k]) + 1].ok,
                       out |-> g[k] \o from[Len(f[k]) + 1].out]
<1> DEFINE Claim(n) == /\ Len(f[n]) + 1 \in 1..(Len(b) + 1)
                       /\ from[1] = [ok  |-> from[Len(f[n]) + 1].ok,
                                     out |-> g[n] \o from[Len(f[n]) + 1].out]
           T == {n \in 0..Len(Stats) : Begins(b, f, n) /\ ~Claim(n)}
<1>1. Len(Stats) \in Nat /\ Len(b) \in Nat
  BY StatTypes
<1>2. T \subseteq Nat
  BY <1>1
<1>3. T = {}
  <2> SUFFICES ASSUME T # {} PROVE FALSE
    OBVIOUS
  <2> HIDE DEF T
  <2>1. PICK n \in T : \A i \in T : n <= i
    BY <1>2, Smallest
  <2>2. n \in 0..Len(Stats) /\ Begins(b, f, n) /\ ~Claim(n)
    BY <2>1 DEF T
  <2>3. CASE n = 0
    <3>1. f[n] = <<>> /\ g[n] = <<>>
      BY <2>3 DEF Parts
    <3>2. Len(f[n]) + 1 = 1 /\ 1 \in 1..(Len(b) + 1)
      BY <1>1, <3>1
    <3>3. from[1] \in [ok : BOOLEAN, out : Seq(Nat)]
      BY <3>2
    <3>4. <<>> \o from[1].out = from[1].out
      BY <3>3, ConcatEmptySeq
    <3>5. from[1] = [ok |-> from[1].ok, out |-> from[1].out]
      BY <3>3
    <3> QED BY <2>2, <3>1, <3>2, <3>4, <3>5
  <2>4. CASE n # 0
    <3>1. n \in 1..Len(Stats) /\ n - 1 \in 0..Len(Stats)
      BY <1>1, <2>2, <2>4
    <3>2. PICK p \in 1..(Len(b) + 1), q \in 1..(Len(b) + 1) :
            /\ p = Len(f[n - 1]) + 1 /\ q = Len(f[n]) + 1 /\ Begins(b, f, n - 1)
            /\ Round(b, from, p) = Joined(StatWords[n], from[q])
      <4>1. /\ Begins(b, f, n - 1)
            /\ Len(f[n - 1]) + 1 \in 1..(Len(b) + 1) /\ Len(f[n]) + 1 \in 1..(Len(b) + 1)
            /\ Round(b, from, Len(f[n - 1]) + 1)
                 = Joined(StatWords[n], from[Len(f[n]) + 1])
        <5>1. Begins(b, f, n)
          BY <2>2
        <5> HIDE DEF Claim
        <5>2. Parts(f, StatPairs)
          OBVIOUS
        <5> QED BY <3>1, <5>1, <5>2, PairRead
      <4> QED BY <4>1
    <3>3. n - 1 \notin T
      BY <1>2, <2>1, <3>1
    <3>4. Claim(n - 1)
      BY <3>1, <3>2, <3>3 DEF T
    <3>5. from[q] \in [ok : BOOLEAN, out : Seq(Nat)]
      OBVIOUS
    <3>6. PICK x \in BOOLEAN, y \in Seq(Nat) : from[q] = [ok |-> x, out |-> y]
      BY <3>5
    <3>7. PICK word \in Seq(Nat), old \in Seq(Nat), new \in Seq(Nat) :
            word = StatWords[n] /\ old = g[n - 1] /\ new = g[n]
      BY <2>2, <3>1, StatTypes
    <3>8. n \in 1..Len(StatWords)
      BY <3>1, StatTypes
    <3>9. new = old \o word
      BY <3>7, <3>8 DEF Parts
    <3>10. from[p] = [ok |-> x, out |-> word \o y]
      <4>1. from[p] = Round(b, from, p)
        OBVIOUS
      <4>2. from[p] = Joined(word, from[q])
        BY <3>2, <3>7, <4>1
      <4> QED BY <3>6, <4>2 DEF Joined
    <3>11. from[1] = [ok |-> from[p].ok, out |-> old \o from[p].out]
      BY <3>2, <3>4, <3>7
    <3>12. from[1] = [ok |-> x, out |-> old \o (word \o y)]
      BY <3>10, <3>11
    <3>13. (old \o word) \o y = old \o (word \o y)
      BY Reassociate, ZenonT(40)
    <3>14. from[1] = [ok |-> x, out |-> new \o y]
      BY <3>9, <3>12, <3>13
    <3>15. from[1] = [ok |-> from[q].ok, out |-> new \o from[q].out]
      BY <3>6, <3>14
    <3>16. Claim(n)
      BY <3>2, <3>7, <3>15
    <3> QED BY <2>2, <3>16
  <2> QED BY <2>3, <2>4
<1> QED BY <1>3

(* parse_statistics takes the statistics apart into their names and values,  *)
(* all of them in order, and refuses them when the last byte is missing.    *)
LEMMA StatisticsRead ==
  /\ StatsBody \in Seq(Nat) /\ StatsSaid \in Seq(Nat)
  /\ parse_statistics(StatsBody) = [ok |-> TRUE, out |-> StatsSaid]
  /\ StatsBody # <<>> => ~parse_statistics(SubSeq(StatsBody, 1, Len(StatsBody) - 1)).ok
<1> DEFINE N == Len(Stats)
<1>1. N \in Nat
  BY StatTypes
<1>2. PICK f \in [0..N -> Seq(Nat)] : Parts(f, StatPairs) /\ StatsBody = f[N]
  <2>1. StatsBody = FlattenSeq(StatPairs)
    BY DEF StatsBody, StatPairs
  <2>2. \E f \in [0..Len(StatPairs) -> Seq(Nat)] :
          Parts(f, StatPairs) /\ FlattenSeq(StatPairs) = f[Len(StatPairs)]
    BY StatTypes, FlattenIs
  <2> QED BY <2>1, <2>2, StatTypes
<1>3. PICK g \in [0..N -> Seq(Nat)] : Parts(g, StatWords) /\ StatsSaid = g[N]
  <2>1. StatsSaid = FlattenSeq(StatWords)
    BY DEF StatsSaid, StatWords
  <2>2. \E g \in [0..Len(StatWords) -> Seq(Nat)] :
          Parts(g, StatWords) /\ FlattenSeq(StatWords) = g[Len(StatWords)]
    BY StatTypes, FlattenIs
  <2> QED BY <2>1, <2>2, StatTypes
<1>4. PICK body \in Seq(Nat) : body = StatsBody /\ body = f[N]
  BY <1>1, <1>2
<1>5. PICK said \in Seq(Nat) : said = StatsSaid /\ said = g[N]
  <2>1. N \in 0..N
    BY <1>1
  <2> HIDE DEF N
  <2>2. g[N] \in Seq(Nat)
    BY <2>1
  <2> QED BY <1>3, <2>2
<1>6. parse_statistics(body) = [ok |-> TRUE, out |-> said]
  <2>1. PICK from \in [1..(Len(body) + 1) -> [ok : BOOLEAN, out : Seq(Nat)]] :
          /\ parse_statistics(body) = from[1]
          /\ \A p \in 1..(Len(body) + 1) : from[p] = Round(body, from, p)
    BY ParsedIs
  <2>2. N \in 0..N /\ Begins(body, f, N)
    BY <1>1, <1>4 DEF Begins
  <2>3. /\ Len(body) + 1 \in 1..(Len(body) + 1)
        /\ from[1] = [ok |-> from[Len(body) + 1].ok, out |-> said \o from[Len(body) + 1].out]
    <3>1. /\ Len(f[N]) + 1 \in 1..(Len(body) + 1)
          /\ from[1] = [ok  |-> from[Len(f[N]) + 1].ok,
                        out |-> g[N] \o from[Len(f[N]) + 1].out]
      BY <1>2, <1>3, <2>1, <2>2, PairsRead
    <3> QED BY <1>4, <1>5, <3>1
  <2>4. from[Len(body) + 1] = [ok |-> TRUE, out |-> <<>>]
    BY <2>1, <2>3 DEF Round
  <2>5. said \o <<>> = said
    BY ConcatEmptySeq
  <2> QED BY <2>1, <2>3, <2>4, <2>5
<1>7. ASSUME body # <<>>
      PROVE  ~parse_statistics(SubSeq(body, 1, Len(body) - 1)).ok
  <2>1. N # 0
    BY <1>4, <1>7, <1>2 DEF Parts
  <2>2. N \in 1..N /\ N - 1 \in 0..N /\ N \in 1..Len(StatPairs)
    BY <1>1, <2>1, StatTypes
  <2>3. PICK old \in Seq(Nat), pair \in Seq(Nat), x \in Nat, y \in Nat :
          /\ old = f[N - 1] /\ pair = StatPairs[N]
          /\ Len(pair) = 2 + x + y /\ pair[1] = x /\ pair[2] = y
    <3>1. /\ StatPairs[N] \in Seq(Nat)
          /\ Stats[N].name \in Seq(Nat) /\ Stats[N].value \in Seq(Nat)
          /\ Len(StatWords[N]) = Len(Stats[N].name) + Len(Stats[N].value)
          /\ Len(StatPairs[N]) = 2 + Len(StatWords[N])
          /\ StatPairs[N][1] = Len(Stats[N].name) /\ StatPairs[N][2] = Len(Stats[N].value)
      BY <2>2, StatTypes
    <3>2. PICK x \in Nat, y \in Nat : x = Len(Stats[N].name) /\ y = Len(Stats[N].value)
      BY <3>1
    <3>3. Len(StatPairs[N]) = 2 + x + y
      <4>1. Len(StatPairs[N]) = 2 + (x + y)
        BY <3>1, <3>2
      <4> QED BY <4>1
    <3>4. PICK old \in Seq(Nat), pair \in Seq(Nat) : old = f[N - 1] /\ pair = StatPairs[N]
      BY <2>2, <3>1
    <3> QED BY <3>1, <3>2, <3>3, <3>4
  <2>4. body = old \o pair
    BY <1>2, <1>4, <2>2, <2>3 DEF Parts
  <2>5. PICK cut \in Seq(Nat) :
          /\ cut = SubSeq(body, 1, Len(body) - 1) /\ Len(old) + 1 \in 1..(Len(cut) + 1)
          /\ \A i \in 1..Len(old) : cut[i] = old[i]
          /\ \A from : Round(cut, from, Len(old) + 1) = [ok |-> FALSE, out |-> <<>>]
    <3>1. Len(pair) = 2 + x + y /\ pair[1] = x /\ pair[2] = y
      BY <2>3
    <3>2. PICK o \in Nat : o = Len(old)
      OBVIOUS
    <3>3. /\ Len(old \o pair) = Len(old) + Len(pair)
          /\ \A i \in 1..(Len(old) + Len(pair)) :
               (old \o pair)[i] = IF i <= Len(old) THEN old[i] ELSE pair[i - Len(old)]
      BY ConcatProperties
    <3>4. Len(body) = o + (2 + x + y)
      BY <2>4, <3>1, <3>2, <3>3
    <3>5. \A i \in 1..(o + (2 + x + y)) : body[i] = IF i <= o THEN old[i] ELSE pair[i - o]
      BY <2>4, <3>1, <3>2, <3>3
    <3>6. Ends(body, old, pair, o, x, y)
      BY <3>1, <3>4, <3>5 DEF Ends
    <3>7. Refuses(body, old, o)
      BY <3>6, PairCut
    <3> QED BY <3>2, <3>7 DEF Refuses
  <2>6. PICK from \in [1..(Len(cut) + 1) -> [ok : BOOLEAN, out : Seq(Nat)]] :
          /\ parse_statistics(cut) = from[1]
          /\ \A p \in 1..(Len(cut) + 1) : from[p] = Round(cut, from, p)
    BY ParsedIs
  <2>7. Begins(cut, f, N - 1)
    <3>1. Len(old) \in Nat /\ Len(cut) \in Nat
      OBVIOUS
    <3>2. Len(old) <= Len(cut)
      BY <2>5, <3>1
    <3> QED BY <2>3, <2>5, <3>2 DEF Begins
  <2>8. from[1] = [ok  |-> from[Len(f[N - 1]) + 1].ok,
                   out |-> g[N - 1] \o from[Len(f[N - 1]) + 1].out]
    BY <1>2, <1>3, <2>2, <2>6, <2>7, PairsRead, ZenonT(40)
  <2>9. from[Len(old) + 1] = [ok |-> FALSE, out |-> <<>>]
    BY <2>5, <2>6
  <2> QED BY <2>3, <2>5, <2>6, <2>8, <2>9
<1> QED BY <1>4, <1>5, <1>6, <1>7

(* How the responses lie on the stream: the ones from the k-th to the n-th    *)
(* follow each other from position last on, as far as the stream goes; all   *)
(* of them are there unless the connection was cut.                         *)
Laid(s, ans, k, n, last, whole, at) ==
  /\ k \in 1..(n + 1) /\ n <= Len(ans)
  /\ at \in [k..(n + 1) -> Nat] /\ at[k] = last
  /\ \A i, j \in k..(n + 1) : i <= j => at[i] <= at[j]
  /\ \A j \in k..n : at[j + 1] = at[j] + Len(ans[j])
  /\ \A j \in k..n : \A i \in 1..Len(ans[j]) :
       at[j] + i <= Len(s) => s[at[j] + i] = ans[j][i]
  /\ Len(s) <= at[n + 1] /\ (whole => Len(s) = at[n + 1])

LaidOut(s, ans, k, n, last, whole) == \E at : Laid(s, ans, k, n, last, whole, at)

(* Nothing is sent yet.                                                      *)
LEMMA NothingLaid ==
  ASSUME NEW ans \in Seq(Seq(Nat)), NEW whole \in BOOLEAN
  PROVE  LaidOut(<<>>, ans, 1, 0, 0, whole)
<1> DEFINE at == [j \in 1..1 |-> 0]
<1>1. at \in [1..1 -> Nat] /\ at[1] = 0
  OBVIOUS
<1>2. Len(ans) \in Nat
  OBVIOUS
<1>3. 1..(0 + 1) = 1..1 /\ 1..0 = {} /\ 0 + 1 = 1 /\ 1 \in 1..1 /\ \A i \in 1..1 : i = 1
  OBVIOUS
<1>4. Len(<<>>) = 0
  OBVIOUS
<1> HIDE DEF at
<1>5. \A i, j \in 1..1 : i <= j => at[i] <= at[j]
  BY <1>1
<1>6. Laid(<<>>, ans, 1, 0, 0, whole, at)
  BY <1>1, <1>2, <1>3, <1>4, <1>5 DEF Laid
<1> QED BY <1>6 DEF LaidOut

(* Nor does it matter what will be.                                          *)
LEMMA NothingLaidYet ==
  ASSUME NEW s, NEW old, NEW ans \in Seq(Seq(Nat)), NEW last, NEW whole, NEW k,
         LaidOut(s, old, k, 0, last, whole)
  PROVE  LaidOut(s, ans, k, 0, last, whole)
<1>1. PICK at : Laid(s, old, k, 0, last, whole, at)
  BY DEF LaidOut
<1>2. k \in 1..1 /\ k..0 = {} /\ 0 <= Len(ans)
  <2>1. k \in 1..1 /\ Len(ans) \in Nat
    BY <1>1 DEF Laid
  <2> QED BY <2>1
<1>3. Laid(s, ans, k, 0, last, whole, at)
  BY <1>1, <1>2 DEF Laid
<1> QED BY <1>3 DEF LaidOut

(* The next response is sent.                                                *)
LEMMA NextLaid ==
  ASSUME NEW s \in Seq(Nat), NEW ans \in Seq(Seq(Nat)), NEW k \in Nat, NEW n \in Nat,
         NEW last \in Nat, n + 1 <= Len(ans), LaidOut(s, ans, k, n, last, TRUE),
         NEW whole \in BOOLEAN
  PROVE  LaidOut(s \o ans[n + 1], ans, k, n + 1, last, whole)
<1>1. PICK at : Laid(s, ans, k, n, last, TRUE, at)
  BY DEF LaidOut
<1>2. PICK f \in Seq(Nat) : f = ans[n + 1]
  <2>1. Len(ans) \in Nat /\ n + 1 \in 1..Len(ans)
    OBVIOUS
  <2> QED BY <2>1, ElementOfSeq
<1>3. PICK x \in Nat, y \in Nat : x = Len(s) /\ y = Len(f)
  OBVIOUS
<1>4. PICK t \in Seq(Nat) : /\ t = s \o f /\ Len(t) = x + y
                            /\ \A i \in 1..(x + y) : t[i] = IF i <= x THEN s[i] ELSE f[i - x]
  <2>1. /\ s \o f \in Seq(Nat) /\ Len(s \o f) = Len(s) + Len(f)
        /\ \A i \in 1..(Len(s) + Len(f)) :
             (s \o f)[i] = IF i <= Len(s) THEN s[i] ELSE f[i - Len(s)]
    BY ConcatProperties
  <2>2. PICK t \in Seq(Nat) : t = s \o f
    BY <2>1
  <2>3. Len(t) = x + y
    BY <1>3, <2>1, <2>2
  <2>4. \A i \in 1..(x + y) : t[i] = IF i <= x THEN s[i] ELSE f[i - x]
    BY <1>3, <2>1, <2>2
  <2> QED BY <2>2, <2>3, <2>4
<1>5. /\ k \in 1..(n + 1) /\ at \in [k..(n + 1) -> Nat] /\ at[k] = last
      /\ \A i, j \in k..(n + 1) : i <= j => at[i] <= at[j]
      /\ \A j \in k..n : at[j + 1] = at[j] + Len(ans[j])
      /\ \A j \in k..n : \A i \in 1..Len(ans[j]) : at[j] + i <= x => s[at[j] + i] = ans[j][i]
      /\ x = at[n + 1]
  BY <1>1, <1>3 DEF Laid
<1> DEFINE to == [j \in k..(n + 1 + 1) |-> IF j = n + 2 THEN x + y ELSE at[j]]
<1>6. to \in [k..(n + 1 + 1) -> Nat] /\ to[k] = last
  <2>1. ASSUME NEW j \in k..(n + 1 + 1) PROVE (IF j = n + 2 THEN x + y ELSE at[j]) \in Nat
    <3>1. j # n + 2 => j \in k..(n + 1)
      OBVIOUS
    <3>2. x + y \in Nat
      OBVIOUS
    <3> QED BY <1>5, <3>1, <3>2
  <2>5. k \in 1..(n + 1)
    BY <1>5
  <2>2. k \in k..(n + 1 + 1) /\ k # n + 2
    BY <2>5
  <2>3. to \in [k..(n + 1 + 1) -> Nat]
    BY <2>1
  <2>4. to[k] = at[k]
    BY <2>2
  <2> QED BY <1>5, <2>3, <2>4
<1>7. \A j \in k..(n + 1) : to[j] = at[j] /\ j \in k..(n + 1 + 1) /\ at[j] \in Nat
  BY <1>5, SMTT(30)
<1>8. to[n + 1 + 1] = x + y /\ n + 1 + 1 \in k..(n + 1 + 1) /\ n + 1 \in k..(n + 1)
  BY <1>5
<1> HIDE DEF to
<1>9. \A j \in k..(n + 1) : at[j] <= x
  BY <1>5, <1>8
<1>10. \A i, j \in k..(n + 1 + 1) : i <= j => to[i] <= to[j]
  <2> SUFFICES ASSUME NEW i \in k..(n + 1 + 1), NEW j \in k..(n + 1 + 1), i <= j
               PROVE  to[i] <= to[j]
    OBVIOUS
  <2>1. CASE j = n + 1 + 1
    <3>1. CASE i = n + 1 + 1
      BY <1>8, <2>1, <3>1
    <3>2. CASE i # n + 1 + 1
      <4>1. i \in k..(n + 1)
        BY <3>2
      <4>2. to[i] \in Nat /\ to[i] <= x
        BY <1>7, <1>9, <4>1
      <4> QED BY <1>8, <2>1, <4>2
    <3> QED BY <3>1, <3>2
  <2>2. CASE j # n + 1 + 1
    <3>1. i \in k..(n + 1) /\ j \in k..(n + 1)
      BY <2>2
    <3> QED BY <1>5, <1>7, <3>1
  <2> QED BY <2>1, <2>2
<1>11. \A j \in k..(n + 1) : to[j + 1] = to[j] + Len(ans[j])
  <2> SUFFICES ASSUME NEW j \in k..(n + 1) PROVE to[j + 1] = to[j] + Len(ans[j])
    OBVIOUS
  <2>1. CASE j = n + 1
    BY <1>2, <1>3, <1>5, <1>7, <1>8, <2>1
  <2>2. CASE j # n + 1
    <3>1. j \in k..n /\ j + 1 \in k..(n + 1)
      BY <2>2
    <3> QED BY <1>5, <1>7, <3>1
  <2> QED BY <2>1, <2>2
<1>12. \A j \in k..(n + 1) : \A i \in 1..Len(ans[j]) :
         to[j] + i <= Len(t) => t[to[j] + i] = ans[j][i]
  <2> SUFFICES ASSUME NEW j \in k..(n + 1), NEW i \in 1..Len(ans[j]), to[j] + i <= Len(t)
               PROVE  t[to[j] + i] = ans[j][i]
    OBVIOUS
  <2>1. i \in Nat /\ i >= 1 /\ to[j] \in Nat
    <3>1. j \in 1..Len(ans)
      BY <1>5
    <3>2. Len(ans[j]) \in Nat
      BY <3>1, ElementOfSeq
    <3>3. i \in Nat /\ i >= 1
      BY <3>2
    <3>4. to[j] \in Nat
      BY <1>7
    <3> QED BY <3>3, <3>4
  <2>2. PICK p \in 1..(x + y) : p = to[j] + i
    BY <1>4, <2>1
  <2>3. CASE j = n + 1
    <3>1. to[j] = x
      BY <1>5, <1>7, <2>3
    <3>2. ~(p <= x) /\ p - x = i
      BY <2>1, <2>2, <3>1
    <3>3. t[p] = f[i]
      BY <1>4, <3>2
    <3> QED BY <1>2, <2>2, <2>3, <3>3
  <2>4. CASE j # n + 1
    <3>1. j \in k..n /\ j + 1 \in k..(n + 1)
      BY <2>4
    <3>2. PICK l \in Nat : l = Len(ans[j])
      <4>1. j \in 1..Len(ans)
        BY <1>5
      <4> QED BY <4>1, ElementOfSeq
    <3>3. at[j] \in Nat /\ to[j] = at[j]
      BY <1>7
    <3>4. at[j + 1] = at[j] + l /\ at[j + 1] <= x
      BY <1>5, <1>9, <3>1, <3>2
    <3>7. i <= l
      BY <3>2
    <3>8. p = at[j] + i /\ p <= x
      <4>1. PICK a \in Nat : a = at[j]
        BY <3>3
      <4>2. a + l <= x /\ p = a + i
        BY <2>2, <3>3, <3>4, <4>1
      <4>3. a + i <= x
        BY <2>1, <3>7, <4>2
      <4> QED BY <4>1, <4>2, <4>3
    <3>5. s[p] = ans[j][i]
      <4>1. at[j] + i <= x => s[at[j] + i] = ans[j][i]
        BY <1>5, <3>1
      <4> QED BY <3>8, <4>1
    <3>6. t[p] = s[p]
      BY <1>4, <3>8
    <3> QED BY <2>2, <3>5, <3>6
  <2> QED BY <2>3, <2>4
<1>13. k \in 1..(n + 1 + 1)
  BY <1>5
<1>14. Len(t) <= to[n + 1 + 1] /\ (whole => Len(t) = to[n + 1 + 1])
  BY <1>4, <1>8
<1>15. Laid(t, ans, k, n + 1, last, whole, to)
  <2> QED BY <1>6, <1>10, <1>11, <1>12, <1>13, <1>14 DEF Laid
<1> QED BY <1>2, <1>4, <1>15 DEF LaidOut

(* A part of what was sent does not arrive.                                   *)
LEMMA LessLaid ==
  ASSUME NEW s \in Seq(Nat), NEW ans \in Seq(Seq(Nat)), NEW k \in Nat, NEW n \in Nat,
         NEW last \in Nat, NEW whole, LaidOut(s, ans, k, n, last, whole), NEW m \in 0..Len(s)
  PROVE  LaidOut(SubSeq(s, 1, m), ans, k, n, last, FALSE)
<1>1. PICK at : Laid(s, ans, k, n, last, whole, at)
  BY DEF LaidOut
<1>2. PICK x \in Nat : x = Len(s) /\ m \in Nat /\ m <= x
  OBVIOUS
<1>3. PICK t \in Seq(Nat) : t = SubSeq(s, 1, m) /\ Len(t) = m /\ \A i \in 1..m : t[i] = s[i]
  <2>1. \A i \in 1..m : s[i] \in Nat
    BY <1>2, ElementOfSeq
  <2>2. /\ SubSeq(s, 1, m) \in Seq(Nat)
        /\ Len(SubSeq(s, 1, m)) = IF 1 <= m THEN m - 1 + 1 ELSE 0
        /\ \A i \in 1..(m - 1 + 1) : SubSeq(s, 1, m)[i] = s[1 + i - 1]
    BY <1>2, <2>1, SubSeqProperties
  <2>3. PICK t \in Seq(Nat) : t = SubSeq(s, 1, m)
    BY <2>2
  <2>4. Len(t) = m
    BY <1>2, <2>2, <2>3
  <2>5. \A i \in 1..m : t[i] = s[i]
    <3> SUFFICES ASSUME NEW i \in 1..m PROVE t[i] = s[i]
      OBVIOUS
    <3>1. i \in 1..(m - 1 + 1) /\ 1 + i - 1 = i
      BY <1>2
    <3> QED BY <2>2, <2>3, <3>1
  <2> QED BY <2>3, <2>4, <2>5
<1>4. /\ k \in 1..(n + 1) /\ at \in [k..(n + 1) -> Nat]
      /\ \A j \in k..n : \A i \in 1..Len(ans[j]) : at[j] + i <= x => s[at[j] + i] = ans[j][i]
      /\ x <= at[n + 1] /\ n <= Len(ans)
  BY <1>1, <1>2 DEF Laid
<1>5. \A j \in k..n : \A i \in 1..Len(ans[j]) :
        at[j] + i <= Len(t) => t[at[j] + i] = ans[j][i]
  <2> SUFFICES ASSUME NEW j \in k..n, NEW i \in 1..Len(ans[j]), at[j] + i <= Len(t)
               PROVE  t[at[j] + i] = ans[j][i]
    OBVIOUS
  <2>1. PICK a \in Nat : a = at[j]
    BY <1>4
  <2>2. i \in Nat /\ i >= 1
    <3>1. j \in 1..Len(ans)
      BY <1>4
    <3>2. Len(ans[j]) \in Nat
      BY <3>1, ElementOfSeq
    <3> QED BY <3>2
  <2>5. a + i <= m
    BY <1>3, <2>1
  <2>3. a + i \in 1..m /\ a + i <= x
    <3>1. PICK h \in Nat : h = i /\ h >= 1
      BY <2>2
    <3>2. a + h <= m
      BY <2>5, <3>1
    <3>3. a + h \in 1..m /\ a + h <= x
      BY <1>2, <3>1, <3>2
    <3> QED BY <3>1, <3>3
  <2>4. s[a + i] = ans[j][i]
    BY <1>4, <2>1, <2>3
  <2> QED BY <1>3, <2>1, <2>3, <2>4
<1>6. Len(t) <= at[n + 1]
  <2>1. PICK e \in Nat : e = at[n + 1]
    <3>1. n + 1 \in k..(n + 1)
      BY <1>4
    <3> QED BY <1>4, <3>1
  <2> QED BY <1>2, <1>3, <1>4, <2>1
<1>7. Laid(t, ans, k, n, last, FALSE, at)
  BY <1>1, <1>5, <1>6 DEF Laid
<1> QED BY <1>3, <1>7 DEF LaidOut

(* A position behind the front, seen from the front.                        *)
LEMMA Behind ==
  ASSUME NEW a \in Nat, NEW last \in Nat, NEW x \in Nat, NEW h \in Nat, h >= 1, a >= last,
         a - last + h <= x - last
  PROVE  a - last + h \in 1..(x - last) /\ last + (a - last + h) = a + h /\ a + h <= x
OBVIOUS

(* The buffer drops what lies before position last.                          *)
LEMMA DroppedLaid ==
  ASSUME NEW s \in Seq(Nat), NEW ans \in Seq(Seq(Nat)), NEW k \in Nat, NEW n \in Nat,
         NEW last \in Nat, NEW whole, LaidOut(s, ans, k, n, last, whole), last <= Len(s)
  PROVE  LaidOut(SubSeq(s, last + 1, Len(s)), ans, k, n, 0, whole)
<1>1. PICK at : Laid(s, ans, k, n, last, whole, at)
  BY DEF LaidOut
<1>2. PICK x \in Nat : x = Len(s) /\ last <= x
  OBVIOUS
<1>3. PICK t \in Seq(Nat) : /\ t = SubSeq(s, last + 1, Len(s)) /\ Len(t) = x - last
                            /\ \A i \in 1..(x - last) : t[i] = s[last + i]
  <2>1. \A i \in (last + 1)..x : s[i] \in Nat
    <3> SUFFICES ASSUME NEW i \in (last + 1)..x PROVE s[i] \in Nat
      OBVIOUS
    <3>1. i \in 1..Len(s)
      BY <1>2
    <3> QED BY <3>1, ElementOfSeq
  <2>2. /\ SubSeq(s, last + 1, x) \in Seq(Nat)
        /\ Len(SubSeq(s, last + 1, x)) = IF last + 1 <= x THEN x - (last + 1) + 1 ELSE 0
        /\ \A i \in 1..(x - (last + 1) + 1) : SubSeq(s, last + 1, x)[i] = s[last + 1 + i - 1]
    BY <2>1, SubSeqProperties
  <2>3. PICK t \in Seq(Nat) : t = SubSeq(s, last + 1, x)
    BY <2>2
  <2>4. Len(t) = x - last
    BY <1>2, <2>2, <2>3
  <2>5. \A i \in 1..(x - last) : t[i] = s[last + i]
    <3> SUFFICES ASSUME NEW i \in 1..(x - last) PROVE t[i] = s[last + i]
      OBVIOUS
    <3>1. i \in 1..(x - (last + 1) + 1) /\ last + 1 + i - 1 = last + i
      BY <1>2
    <3> QED BY <2>2, <2>3, <3>1
  <2> QED BY <1>2, <2>3, <2>4, <2>5
<1>4. /\ k \in 1..(n + 1) /\ at \in [k..(n + 1) -> Nat] /\ at[k] = last
      /\ \A j \in k..n : at[j + 1] = at[j] + Len(ans[j])
      /\ \A j \in k..n : \A i \in 1..Len(ans[j]) : at[j] + i <= x => s[at[j] + i] = ans[j][i]
      /\ x <= at[n + 1] /\ n <= Len(ans) /\ (whole => x = at[n + 1])
  BY <1>1, <1>2 DEF Laid
<1>5. \A i, j \in k..(n + 1) : i <= j => at[i] <= at[j]
  BY <1>1 DEF Laid
<1>6. \A j \in k..(n + 1) : at[j] \in Nat /\ at[j] >= last
  <2> SUFFICES ASSUME NEW j \in k..(n + 1) PROVE at[j] \in Nat /\ at[j] >= last
    OBVIOUS
  <2>1. k \in k..(n + 1) /\ k <= j
    OBVIOUS
  <2> QED BY <1>4, <1>5, <2>1
<1> DEFINE to == [j \in k..(n + 1) |-> at[j] - last]
<1>7. \A j \in k..(n + 1) : to[j] = at[j] - last
  OBVIOUS
<1>8. to \in [k..(n + 1) -> Nat]
  BY <1>6
<1> HIDE DEF to
<1>9. k \in k..(n + 1) /\ n + 1 \in k..(n + 1)
  <2>1. k \in 1..(n + 1)
    BY <1>4
  <2> QED BY <2>1
<1>10. to[k] = 0
  BY <1>4, <1>7, <1>9
<1>11. \A i, j \in k..(n + 1) : i <= j => to[i] <= to[j]
  <2> SUFFICES ASSUME NEW i \in k..(n + 1), NEW j \in k..(n + 1), i <= j PROVE to[i] <= to[j]
    OBVIOUS
  <2>1. PICK a \in Nat, e \in Nat : a = at[i] /\ e = at[j]
    BY <1>6
  <2>2. a <= e
    BY <1>5, <2>1
  <2>3. to[i] = a - last /\ to[j] = e - last
    BY <1>7, <2>1
  <2> QED BY <2>2, <2>3
<1>12. \A j \in k..n : to[j + 1] = to[j] + Len(ans[j])
  <2> SUFFICES ASSUME NEW j \in k..n PROVE to[j + 1] = to[j] + Len(ans[j])
    OBVIOUS
  <2>1. PICK l \in Nat : l = Len(ans[j])
    <3>1. j \in 1..Len(ans)
      BY <1>4
    <3> QED BY <3>1, ElementOfSeq
  <2>2. j \in k..(n + 1) /\ j + 1 \in k..(n + 1)
    OBVIOUS
  <2>3. PICK a \in Nat : a = at[j]
    BY <1>6, <2>2
  <2>4. at[j + 1] = a + l
    BY <1>4, <2>1, <2>3
  <2>5. to[j + 1] = at[j + 1] - last /\ to[j] = at[j] - last
    BY <1>7, <2>2
  <2> QED BY <2>1, <2>3, <2>4, <2>5, SMTT(30)
<1>13. \A j \in k..n : \A i \in 1..Len(ans[j]) :
         to[j] + i <= Len(t) => t[to[j] + i] = ans[j][i]
  <2> SUFFICES ASSUME NEW j \in k..n, NEW i \in 1..Len(ans[j]), to[j] + i <= Len(t)
               PROVE  t[to[j] + i] = ans[j][i]
    OBVIOUS
  <2>1. PICK a \in Nat : a = at[j] /\ a >= last
    BY <1>6, SMTT(30)
  <2>2. i \in Nat /\ i >= 1
    <3>1. j \in 1..Len(ans)
      BY <1>4
    <3>2. Len(ans[j]) \in Nat
      BY <3>1, ElementOfSeq
    <3> QED BY <3>2
  <2>3. to[j] + i = a - last + i
    BY <1>7, <2>1
  <2>6. a - last + i <= x - last
    BY <1>3, <2>3
  <2>4. a - last + i \in 1..(x - last) /\ last + (a - last + i) = a + i /\ a + i <= x
    <3>1. PICK h \in Nat : h = i /\ h >= 1
      BY <2>2
    <3>2. a - last + h <= x - last
      BY <2>6, <3>1
    <3>3. a - last + h \in 1..(x - last) /\ last + (a - last + h) = a + h /\ a + h <= x
      <4>1. h >= 1
        BY <3>1
      <4>2. a >= last
        BY <2>1
      <4> QED BY <3>2, <4>1, <4>2, Behind
    <3> QED BY <3>1, <3>3
  <2>5. s[a + i] = ans[j][i]
    BY <1>4, <2>1, <2>4
  <2> QED BY <1>3, <2>3, <2>4, <2>5
<1>14. Len(t) <= to[n + 1] /\ (whole => Len(t) = to[n + 1])
  <2>1. PICK e \in Nat : e = at[n + 1]
    BY <1>6, <1>9
  <2>2. to[n + 1] = e - last /\ x <= e /\ (whole => x = e)
    BY <1>4, <1>7, <1>9, <2>1
  <2> QED BY <1>2, <1>3, <2>2
<1>15. k \in 1..(n + 1) /\ n <= Len(ans)
  BY <1>4
<1>16. Laid(t, ans, k, n, 0, whole, to)
  BY <1>8, <1>10, <1>11, <1>12, <1>13, <1>14, <1>15 DEF Laid
<1> QED BY <1>3, <1>16 DEF LaidOut

(* The response at the front of the buffer is the k-th; the next begins       *)
(* where it ends.                                                           *)
LEMMA FrontLaid ==
  ASSUME NEW s \in Seq(Nat), NEW ans \in Seq(Seq(Nat)), NEW k \in Nat, NEW n \in Nat,
         NEW whole, LaidOut(s, ans, k, n, 0, whole), Len(s) >= 1
  PROVE  /\ k \in 1..n /\ k \in 1..Len(ans)
         /\ \A i \in 1..Len(ans[k]) : i <= Len(s) => s[i] = ans[k][i]
         /\ LaidOut(s, ans, k + 1, n, Len(ans[k]), whole)
<1>1. PICK at : Laid(s, ans, k, n, 0, whole, at)
  BY DEF LaidOut
<1>2. /\ k \in 1..(n + 1) /\ at \in [k..(n + 1) -> Nat] /\ at[k] = 0
      /\ \A j \in k..n : at[j + 1] = at[j] + Len(ans[j])
      /\ \A j \in k..n : \A i \in 1..Len(ans[j]) : at[j] + i <= Len(s) => s[at[j] + i] = ans[j][i]
      /\ Len(s) <= at[n + 1] /\ n <= Len(ans)
  BY <1>1 DEF Laid
<1>3. k \in 1..n
  <2>1. PICK x \in Nat : x = Len(s) /\ x >= 1
    OBVIOUS
  <2>2. k # n + 1
    BY <1>2, <2>1
  <2>3. k \in 1..(n + 1)
    BY <1>2
  <2> QED BY <2>2, <2>3
<1>4. k \in 1..Len(ans)
  <2>1. PICK x \in Nat : x = Len(ans) /\ n <= x
    BY <1>2
  <2> QED BY <1>3, <2>1
<1>5. PICK f \in Seq(Nat) : f = ans[k]
  BY <1>4, ElementOfSeq
<1>6. PICK l \in Nat : l = Len(f)
  OBVIOUS
<1>7. k \in k..n
  BY <1>3
<1>8. \A i \in 1..l : i <= Len(s) => s[i] = f[i]
  <2> SUFFICES ASSUME NEW i \in 1..l, i <= Len(s) PROVE s[i] = f[i]
    OBVIOUS
  <2>1. at[k] + i = i
    BY <1>2
  <2>2. at[k] + i <= Len(s) => s[at[k] + i] = ans[k][i]
    BY <1>2, <1>5, <1>6, <1>7
  <2> QED BY <1>5, <2>1, <2>2
<1>9. at[k + 1] = l
  BY <1>2, <1>5, <1>6, <1>7
<1> DEFINE to == [j \in (k + 1)..(n + 1) |-> at[j]]
<1>10. \A j \in (k + 1)..(n + 1) : to[j] = at[j] /\ j \in k..(n + 1)
  OBVIOUS
<1>11. to \in [(k + 1)..(n + 1) -> Nat]
  BY <1>2, <1>10
<1> HIDE DEF to
<1>12. k + 1 \in (k + 1)..(n + 1) /\ n + 1 \in (k + 1)..(n + 1) /\ k + 1 \in 1..(n + 1)
  BY <1>3
<1>13. \A i, j \in (k + 1)..(n + 1) : i <= j => to[i] <= to[j]
  <2>1. \A i, j \in k..(n + 1) : i <= j => at[i] <= at[j]
    BY <1>1 DEF Laid
  <2> QED BY <1>10, <2>1
<1>14. \A j \in (k + 1)..n : j \in k..n /\ j \in (k + 1)..(n + 1) /\ j + 1 \in (k + 1)..(n + 1)
  OBVIOUS
<1>15. \A j \in (k + 1)..n : to[j + 1] = to[j] + Len(ans[j])
  BY <1>2, <1>10, <1>14
<1>16. \A j \in (k + 1)..n : \A i \in 1..Len(ans[j]) :
         to[j] + i <= Len(s) => s[to[j] + i] = ans[j][i]
  <2> SUFFICES ASSUME NEW j \in (k + 1)..n
               PROVE  \A i \in 1..Len(ans[j]) : to[j] + i <= Len(s) => s[to[j] + i] = ans[j][i]
    OBVIOUS
  <2>1. \A i \in 1..Len(ans[j]) : at[j] + i <= Len(s) => s[at[j] + i] = ans[j][i]
    BY <1>2, <1>14
  <2>2. to[j] = at[j]
    BY <1>10, <1>14
  <2> QED BY <2>1, <2>2
<1>17. Len(s) <= to[n + 1] /\ (whole => Len(s) = to[n + 1])
  <2>1. Len(s) <= at[n + 1] /\ (whole => Len(s) = at[n + 1])
    BY <1>1 DEF Laid
  <2> QED BY <1>10, <1>12, <2>1
<1>18. to[k + 1] = l /\ n <= Len(ans)
  BY <1>2, <1>9, <1>10, <1>12
<1>19. Laid(s, ans, k + 1, n, l, whole, to)
  BY <1>11, <1>12, <1>13, <1>15, <1>16, <1>17, <1>18 DEF Laid
<1>20. LaidOut(s, ans, k + 1, n, l, whole)
  BY <1>19 DEF LaidOut
<1> QED BY <1>3, <1>4, <1>5, <1>6, <1>8, <1>20

(* What a frame carries behind its header.                                    *)
Body(f) == SubSeq(f, Header + 1, Len(f))

(* A response to the request of a serial, and one that is not.               *)
Good(f, serial, cmd, status) ==
  /\ Len(f) >= Header /\ Len(f) = Header + f[4]
  /\ f[1] = Magic /\ f[2] = cmd /\ f[3] = status /\ f[5] = serial

Spoilt(f) ==
  /\ Len(f) >= Header
  /\ \/ f[1] # Magic
     \/ /\ Len(f) = Header + f[4] /\ f[1] = Magic /\ f[3] = STATUS.OK
        /\ ~Parsed(f[2], Body(f)).ok

(* The body is what follows the header.                                     *)
LEMMA BodyIs ==
  ASSUME NEW f \in Seq(Nat), NEW n \in Nat, Len(f) = Header + n
  PROVE  /\ Body(f) \in Seq(Nat) /\ Len(Body(f)) = n
         /\ \A i \in 1..n : Body(f)[i] = f[Header + i]
<1>1. \A i \in 6..(5 + n) : f[i] \in Nat
  <2> SUFFICES ASSUME NEW i \in 6..(5 + n) PROVE f[i] \in Nat
    OBVIOUS
  <2>1. i \in 1..Len(f)
    BY DEF Header
  <2> QED BY <2>1, ElementOfSeq
<1>2. /\ SubSeq(f, 6, 5 + n) \in Seq(Nat)
      /\ Len(SubSeq(f, 6, 5 + n)) = IF 6 <= 5 + n THEN 5 + n - 6 + 1 ELSE 0
      /\ \A i \in 1..(5 + n - 6 + 1) : SubSeq(f, 6, 5 + n)[i] = f[6 + i - 1]
  BY <1>1, SubSeqProperties
<1>3. Body(f) = SubSeq(f, 6, 5 + n)
  BY DEF Body, Header
<1>4. \A i \in 1..n : Body(f)[i] = f[Header + i]
  <2> SUFFICES ASSUME NEW i \in 1..n PROVE Body(f)[i] = f[Header + i]
    OBVIOUS
  <2>1. i \in 1..(5 + n - 6 + 1) /\ 6 + i - 1 = Header + i
    BY DEF Header
  <2> QED BY <1>2, <1>3, <2>1
<1>5. Len(Body(f)) = n
  <2>1. (IF 6 <= 5 + n THEN 5 + n - 6 + 1 ELSE 0) = n
    OBVIOUS
  <2> QED BY <1>2, <1>3, <2>1
<1> QED BY <1>2, <1>3, <1>4, <1>5

(* A frame of the server is well formed and carries its body.               *)
LEMMA FrameIs ==
  ASSUME NEW serial \in Nat, NEW cmd \in Nat, NEW status \in Nat, NEW body \in Seq(Nat)
  PROVE  /\ Frame(serial, cmd, status, body) \in Seq(Nat)
         /\ Len(Frame(serial, cmd, status, body)) = Header + Len(body)
         /\ Good(Frame(serial, cmd, status, body), serial, cmd, status)
         /\ Frame(serial, cmd, status, body)[4] = Len(body)
         /\ Body(Frame(serial, cmd, status, body)) = body
<1>1. PICK n \in Nat : n = Len(body)
  OBVIOUS
<1>2. PICK head \in Seq(Nat) : head = <<Magic, cmd, status, n, serial>>
  <2>1. \A a, b, c, d, e \in Nat : <<a, b, c, d, e>> \in Seq(Nat)
    OBVIOUS
  <2>2. Magic \in Nat
    BY DEF Magic
  <2> QED BY <2>1, <2>2
<1>3. /\ Len(head) = 5 /\ head[1] = Magic /\ head[2] = cmd /\ head[3] = status
      /\ head[4] = n /\ head[5] = serial
  BY <1>2
<1>4. PICK f \in Seq(Nat) : f = head \o body
  BY ConcatProperties
<1>5. Len(f) = 5 + n /\ \A i \in 1..(5 + n) : f[i] = IF i <= 5 THEN head[i] ELSE body[i - 5]
  <2>1. /\ Len(head \o body) = Len(head) + Len(body)
        /\ \A i \in 1..(Len(head) + Len(body)) :
             (head \o body)[i] = IF i <= Len(head) THEN head[i] ELSE body[i - Len(head)]
    BY ConcatProperties
  <2> QED BY <1>1, <1>3, <1>4, <2>1
<1>6. f = Frame(serial, cmd, status, body)
  BY <1>1, <1>2, <1>4 DEF Frame
<1>7. f[1] = head[1] /\ f[2] = head[2] /\ f[3] = head[3] /\ f[4] = head[4] /\ f[5] = head[5]
  BY <1>5, SMTT(30)
<1>8. Good(f, serial, cmd, status) /\ f[4] = n
  BY <1>3, <1>5, <1>7 DEF Good, Header
<1>9. /\ Body(f) \in Seq(Nat) /\ Len(Body(f)) = n
      /\ \A i \in 1..n : Body(f)[i] = f[Header + i]
  BY <1>5, BodyIs DEF Header
<1>10. PICK c \in Seq(Nat) : c = Body(f) /\ Len(c) = n /\ \A i \in 1..n : c[i] = f[Header + i]
  BY <1>9
<1>11. \A i \in 1..n : c[i] = body[i]
  <2> SUFFICES ASSUME NEW i \in 1..n PROVE c[i] = body[i]
    OBVIOUS
  <2>1. PICK j \in 1..(5 + n) : j = Header + i /\ ~(j <= 5) /\ j - 5 = i
    BY DEF Header
  <2>2. f[j] = body[j - 5]
    BY <1>5, <2>1
  <2>3. c[i] = f[Header + i]
    BY <1>10
  <2> QED BY <2>1, <2>2, <2>3
<1>12. c = body
  BY <1>1, <1>10, <1>11, SeqEqual
<1>13. Len(f) = Header + Len(body)
  BY <1>1, <1>5 DEF Header
<1> QED BY <1>1, <1>6, <1>8, <1>10, <1>13, <1>12

(* The two ways in which the server spoils a response.                       *)
LEMMA GarbledIs ==
  ASSUME NEW f \in Seq(Nat), NEW serial \in Nat, NEW cmd \in Nat, NEW status \in Nat,
         Good(f, serial, cmd, status),
         status = STATUS.OK /\ Body(f) # <<>>
           => ~Parsed(cmd, SubSeq(Body(f), 1, Len(Body(f)) - 1)).ok,
         NEW g \in Garbled(f)
  PROVE  g \in Seq(Nat) /\ Spoilt(g)
<1>1. PICK n \in Nat : n = f[4] /\ Len(f) = 5 + n
  <2>1. 4 \in 1..Len(f) /\ Len(f) = Header + f[4]
    BY DEF Good, Header
  <2>2. f[4] \in Nat
    BY <2>1, ElementOfSeq
  <2> QED BY <2>1, <2>2 DEF Header
<1>2. CASE g = [f EXCEPT ![1] = 0]
  <2>1. g \in Seq(Nat) /\ Len(g) = Len(f) /\ g[1] = 0
    BY <1>1, <1>2, SMTT(30)
  <2> QED BY <2>1, <1>1 DEF Spoilt, Header, Magic
<1>3. CASE g # [f EXCEPT ![1] = 0]
  <2>1. n # 0 /\ status = STATUS.OK /\ g = SubSeq([f EXCEPT ![4] = @ - 1], 1, Len(f) - 1)
    BY <1>1, <1>3 DEF Garbled, Good
  <2>2. PICK m \in Nat : n = m + 1
    BY <2>1
  <2>3. PICK h \in Seq(Nat) : /\ h = [f EXCEPT ![4] = @ - 1] /\ Len(h) = Len(f) /\ h[4] = m
                              /\ \A i \in 1..Len(f) : i # 4 => h[i] = f[i]
    <3>1. 4 \in 1..Len(f) /\ f[4] - 1 = m
      BY <1>1, <2>2
    <3> DEFINE h == [f EXCEPT ![4] = m]
    <3>2. h \in Seq(Nat) /\ Len(h) = Len(f)
      BY <1>1
    <3>3. h[4] = m /\ \A i \in 1..Len(f) : i # 4 => h[i] = f[i]
      BY <1>1, <3>1
    <3>4. h = [f EXCEPT ![4] = @ - 1]
      BY <3>1
    <3> HIDE DEF h
    <3> QED BY <3>2, <3>3, <3>4
  <2>4. \A i \in 1..(5 + m) : h[i] \in Nat
    <3> SUFFICES ASSUME NEW i \in 1..(5 + m) PROVE h[i] \in Nat
      OBVIOUS
    <3>1. i \in 1..Len(h)
      BY <1>1, <2>2, <2>3
    <3> QED BY <3>1, ElementOfSeq
  <2>5. Len(f) - 1 = 5 + m
    BY <1>1, <2>2
  <2>6. /\ SubSeq(h, 1, 5 + m) \in Seq(Nat)
        /\ Len(SubSeq(h, 1, 5 + m)) = IF 1 <= 5 + m THEN 5 + m - 1 + 1 ELSE 0
        /\ \A i \in 1..(5 + m - 1 + 1) : SubSeq(h, 1, 5 + m)[i] = h[1 + i - 1]
    <3>1. PICK z \in Nat : z = 5 + m
      OBVIOUS
    <3>2. \A i \in 1..z : h[i] \in Nat
      BY <2>4, <3>1
    <3>3. /\ SubSeq(h, 1, z) \in Seq(Nat)
          /\ Len(SubSeq(h, 1, z)) = IF 1 <= z THEN z - 1 + 1 ELSE 0
          /\ \A i \in 1..(z - 1 + 1) : SubSeq(h, 1, z)[i] = h[1 + i - 1]
      BY <3>2, SubSeqProperties, SMTT(30)
    <3> QED BY <3>1, <3>3
  <2>7. g = SubSeq(h, 1, 5 + m)
    BY <2>1, <2>3, <2>5
  <2>8. g \in Seq(Nat) /\ Len(g) = 5 + m
    <3>1. (IF 1 <= 5 + m THEN 5 + m - 1 + 1 ELSE 0) = 5 + m
      OBVIOUS
    <3> QED BY <2>6, <2>7, <3>1
  <2>9. \A i \in 1..(5 + m) : g[i] = h[i]
    <3> SUFFICES ASSUME NEW i \in 1..(5 + m) PROVE g[i] = h[i]
      OBVIOUS
    <3>1. i \in 1..(5 + m - 1 + 1) /\ 1 + i - 1 = i
      OBVIOUS
    <3> QED BY <2>6, <2>7, <3>1
  <2>10. 1 \in 1..(5 + m) /\ 2 \in 1..(5 + m) /\ 3 \in 1..(5 + m) /\ 4 \in 1..(5 + m)
    OBVIOUS
  <2>11. 1 \in 1..Len(f) /\ 2 \in 1..Len(f) /\ 3 \in 1..Len(f)
    BY <1>1, SMTT(30)
  <2>12. g[1] = Magic /\ g[2] = cmd /\ g[3] = STATUS.OK /\ g[4] = m
    <3>1. f[1] = Magic /\ f[2] = cmd /\ f[3] = STATUS.OK
      BY <2>1 DEF Good
    <3>2. h[1] = f[1] /\ h[2] = f[2] /\ h[3] = f[3]
      BY <2>3, <2>11
    <3>3. g[1] = h[1] /\ g[2] = h[2] /\ g[3] = h[3] /\ g[4] = h[4]
      BY <2>9, <2>10
    <3> QED BY <2>3, <3>1, <3>2, <3>3
  <2>13. Body(g) = SubSeq(Body(f), 1, Len(Body(f)) - 1) /\ Body(f) # <<>>
    <3>1. PICK c \in Seq(Nat) : /\ c = Body(f) /\ Len(c) = n
                                /\ \A i \in 1..n : c[i] = f[Header + i]
      <4>1. Len(f) = Header + n
        BY <1>1 DEF Header
      <4>2. /\ Body(f) \in Seq(Nat) /\ Len(Body(f)) = n
            /\ \A i \in 1..n : Body(f)[i] = f[Header + i]
        BY <4>1, BodyIs
      <4> QED BY <4>2
    <3>2. PICK d \in Seq(Nat) : /\ d = Body(g) /\ Len(d) = m
                                /\ \A i \in 1..m : d[i] = g[Header + i]
      <4>1. Len(g) = Header + m
        BY <2>8 DEF Header
      <4>2. /\ Body(g) \in Seq(Nat) /\ Len(Body(g)) = m
            /\ \A i \in 1..m : Body(g)[i] = g[Header + i]
        BY <2>8, <4>1, BodyIs
      <4> QED BY <4>2
    <3>3. PICK e \in Seq(Nat) : /\ e = SubSeq(c, 1, Len(c) - 1) /\ Len(e) = m
                                /\ \A i \in 1..m : e[i] = c[i]
      <4>1. m + 1 = Len(c)
        BY <2>2, <3>1
      <4> QED BY <4>1, CutIs
    <3>4. \A i \in 1..m : d[i] = e[i]
      <4> SUFFICES ASSUME NEW i \in 1..m PROVE d[i] = e[i]
        OBVIOUS
      <4>1. i \in 1..n /\ Header + i \in 1..(5 + m) /\ Header + i \in 1..Len(f) /\ Header + i # 4
        BY <1>1, <2>2 DEF Header
      <4>2. d[i] = g[Header + i] /\ g[Header + i] = h[Header + i]
        BY <2>9, <3>2, <4>1
      <4>3. h[Header + i] = f[Header + i] /\ c[i] = f[Header + i] /\ e[i] = c[i]
        BY <2>3, <3>1, <3>3, <4>1
      <4> QED BY <4>2, <4>3
    <3>5. d = e
      BY <3>2, <3>3, <3>4, SeqEqual
    <3>6. c # <<>>
      BY <2>2, <3>1
    <3> QED BY <3>1, <3>2, <3>3, <3>5, <3>6
  <2>14. ~Parsed(g[2], Body(g)).ok
    BY <2>1, <2>12, <2>13
  <2>15. Len(g) >= Header /\ Len(g) = Header + g[4]
    BY <2>8, <2>12 DEF Header
  <2> QED BY <2>8, <2>12, <2>14, <2>15 DEF Spoilt
<1> QED BY <1>2, <1>3

-----------------------------------------------------------------------------
(* The commands.                                                            *)
Requests == [cmd : Nat, name : Seq(Nat), resources : Nat, initial : Nat]

(* A command line that is not refused makes a request.                        *)
LEMMA CommandTyped ==
  ASSUME NEW i \in Invocation, Command(i) # BadArgument
  PROVE  Command(i) \in Requests /\ (Command(i).cmd = CMD.dump <=> i.cmd = "dump")
<1>1. /\ i.name \in Seq(Nat) /\ i.resources \in Nat \cup {NULL} /\ i.initial \in Nat \cup {NULL}
      /\ i.argc \in Nat
  BY DEF Invocation
<1>2. PICK name \in Seq(Nat), r \in Nat \cup {NULL}, n \in Nat \cup {NULL}, c \in Nat :
        name = i.name /\ r = i.resources /\ n = i.initial /\ c = i.argc
  BY <1>1
<1>3. <<>> \in Seq(Nat)
  OBVIOUS
<1>4. CASE i.cmd = "noop"
  <2>1. Command(i) = yrmcds_cnt_noop
    BY <1>4 DEF Command
  <2> QED BY <1>3, <1>4, <2>1 DEF yrmcds_cnt_noop, Request, Requests, CMD
<1>5. CASE i.cmd = "get"
  <2>1. Command(i) = yrmcds_cnt_get(name)
    BY <1>2, <1>5 DEF Command
  <2>2. Command(i) = Request(CMD.get, name, 0, 0)
    BY <2>1 DEF yrmcds_cnt_get, Named
  <2> QED BY <1>5, <2>2 DEF Request, Requests, CMD
<1>6. CASE i.cmd = "acquire"
  <2>1. r # NULL /\ n # NULL /\ Command(i) = yrmcds_cnt_acquire(name, r, n)
    BY <1>2, <1>6 DEF Command
  <2>2. r \in Nat /\ n \in Nat
    BY <2>1
  <2>3. Command(i) = Request(CMD.acquire, name, r, n)
    BY <2>1 DEF yrmcds_cnt_acquire, Named
  <2> QED BY <1>6, <2>2, <2>3 DEF Request, Requests, CMD
<1>7. CASE i.cmd = "release"
  <2>1. r # NULL /\ Command(i) = yrmcds_cnt_release(name, r)
    BY <1>2, <1>7 DEF Command
  <2>2. r \in Nat
    BY <2>1
  <2>3. Command(i) = Request(CMD.release, name, r, 0)
    BY <2>1 DEF yrmcds_cnt_release, Named
  <2> QED BY <1>7, <2>2, <2>3 DEF Request, Requests, CMD
<1>8. CASE i.cmd = "stats"
  <2>1. Command(i) = yrmcds_cnt_stats
    BY <1>8 DEF Command
  <2> QED BY <1>3, <1>8, <2>1 DEF yrmcds_cnt_stats, Request, Requests, CMD
<1>9. CASE i.cmd = "dump"
  <2>1. Command(i) = yrmcds_cnt_dump
    BY <1>9 DEF Command
  <2> QED BY <1>3, <1>9, <2>1 DEF yrmcds_cnt_dump, Request, Requests, CMD
<1>10. CASE i.cmd \notin {"noop", "get", "acquire", "release", "stats", "dump"}
  BY <1>10 DEF Command
<1> QED BY <1>4, <1>5, <1>6, <1>7, <1>8, <1>9, <1>10

(* Only the command stats asks for statistics.                               *)
LEMMA StatsAsked ==
  ASSUME NEW i \in Invocation, Command(i) # BadArgument, Command(i).cmd = CMD.stats
  PROVE  i.cmd = "stats"
<1>1. \A name, r, n : Request(CMD.get, name, r, n).cmd # CMD.stats
                     /\ Request(CMD.acquire, name, r, n).cmd # CMD.stats
                     /\ Request(CMD.release, name, r, n).cmd # CMD.stats
                     /\ Request(CMD.noop, name, r, n).cmd # CMD.stats
                     /\ Request(CMD.dump, name, r, n).cmd # CMD.stats
  BY DEF Request, CMD
<1>2. CASE i.cmd = "noop"
  BY <1>1, <1>2 DEF Command, yrmcds_cnt_noop
<1>3. CASE i.cmd = "get"
  BY <1>1, <1>3 DEF Command, yrmcds_cnt_get, Named
<1>4. CASE i.cmd = "acquire"
  BY <1>1, <1>4 DEF Command, yrmcds_cnt_acquire, Named
<1>5. CASE i.cmd = "release"
  BY <1>1, <1>5 DEF Command, yrmcds_cnt_release, Named
<1>6. CASE i.cmd = "dump"
  BY <1>1, <1>6 DEF Command, yrmcds_cnt_dump
<1>7. CASE i.cmd \notin {"noop", "get", "acquire", "release", "stats", "dump"}
  BY <1>7 DEF Command
<1> QED BY <1>2, <1>3, <1>4, <1>5, <1>6, <1>7

-----------------------------------------------------------------------------
(* What the server answers.                                                 *)

(* The counters and the resources that are held of them.                      *)
StoreInv ==
  /\ IsFiniteSet(DOMAIN limit) /\ DOMAIN limit \subseteq Seq(Nat)
  /\ limit \in [DOMAIN limit -> Nat] /\ held \in [DOMAIN limit -> [Users -> Nat]]

(* What is held of a counter is a number.                                   *)
LEMMA TotalTyped ==
  ASSUME StoreInv, NEW name \in DOMAIN limit
  PROVE  Total(name) \in Nat /\ limit[name] \in Nat /\ name \in Seq(Nat)
<1>1. limit[name] \in Nat /\ name \in Seq(Nat)
  BY DEF StoreInv
<1>2. PICK n \in Nat : n = limit[name]
  BY <1>1
<1>3. IsFiniteSet(1..n)
  BY FS_Interval
<1>4. IsFiniteSet(Users \X (1..n))
  BY <1>3, UsersAssumption, FS_Product
<1> DEFINE S == {p \in Users \X (1..n) : p[2] <= held[name][p[1]]}
<1>5. S \in SUBSET (Users \X (1..n))
  OBVIOUS
<1> HIDE DEF S
<1>6. IsFiniteSet(S)
  BY <1>4, <1>5, FS_Subset
<1>7. Cardinality(S) \in Nat
  BY <1>6, FS_CardinalityType
<1> QED BY <1>1, <1>2, <1>7 DEF S, Total

(* The listing of the counters is a sequence of them.                       *)
LEMMA ListingTyped ==
  ASSUME StoreInv
  PROVE  Cardinality(DOMAIN limit) \in Nat /\ Listing \in [1..Cardinality(DOMAIN limit) -> DOMAIN limit]
<1> DEFINE S == DOMAIN limit
           N == Cardinality(S)
           Lists(s) == \A m, n \in DOMAIN s : s[m] = s[n] => m = n
<1>1. IsFiniteSet(S)
  BY DEF StoreInv
<1> HIDE DEF S
<1>2. N \in Nat /\ ExistsBijection(1..N, S)
  BY <1>1, FS_CardinalityType
<1> HIDE DEF N
<1>3. \E s \in [1..N -> S] : Lists(s)
  BY <1>2 DEF ExistsBijection, Bijection, Injection, IsInjective
<1>4. Listing = CHOOSE s \in [1..N -> S] : Lists(s)
  BY DEF Listing, S, N
<1>5. Listing \in [1..N -> S]
  BY <1>3, <1>4
<1> QED BY <1>2, <1>5 DEF N, S

(* A record of a dump is read whole, and refused without its last unit.       *)
RecordOf(x, y, name)  == <<x, y, Len(name)>> \o name
RecordSays(body, out) ==
  /\ body \in Seq(Nat) /\ body # <<>>
  /\ parse_dump_record(body) = [ok |-> TRUE, out |-> out]
  /\ ~parse_dump_record(SubSeq(body, 1, Len(body) - 1)).ok

(* A record of a dump is read as it was written, and refused without its end.*)
LEMMA RecordRead ==
  ASSUME NEW x \in Nat, NEW y \in Nat, NEW name \in Seq(Nat)
  PROVE  RecordSays(RecordOf(x, y, name), <<x, y>> \o name)
<1>1. PICK n \in Nat : n = Len(name)
  OBVIOUS
<1>2. PICK head \in Seq(Nat) : head = <<x, y, n>>
  <2>1. \A a, b, c \in Nat : <<a, b, c>> \in Seq(Nat)
    OBVIOUS
  <2> QED BY <2>1
<1>3. Len(head) = 3 /\ head[1] = x /\ head[2] = y /\ head[3] = n
  BY <1>2
<1>4. PICK b \in Seq(Nat) : b = head \o name
  BY ConcatProperties
<1>5. b = RecordOf(x, y, name)
  BY <1>1, <1>2, <1>4 DEF RecordOf
<1>6. Len(b) = 3 + n /\ \A i \in 1..(3 + n) : b[i] = IF i <= 3 THEN head[i] ELSE name[i - 3]
  <2>1. /\ Len(head \o name) = Len(head) + Len(name)
        /\ \A i \in 1..(Len(head) + Len(name)) :
             (head \o name)[i] = IF i <= Len(head) THEN head[i] ELSE name[i - Len(head)]
    BY ConcatProperties
  <2> QED BY <1>1, <1>3, <1>4, <2>1
<1>7. b[1] = x /\ b[2] = y /\ b[3] = n
  <2>1. 1 \in 1..(3 + n) /\ 2 \in 1..(3 + n) /\ 3 \in 1..(3 + n)
    OBVIOUS
  <2> QED BY <1>3, <1>6, <2>1
<1>8. PICK front \in Seq(Nat) : /\ front = SubSeq(b, 1, 2) /\ Len(front) = 2
                               /\ \A i \in 1..2 : front[i] = b[i]
  <2>1. \A i \in 1..2 : b[i] \in Nat
    BY <1>7
  <2>2. /\ SubSeq(b, 1, 2) \in Seq(Nat)
        /\ Len(SubSeq(b, 1, 2)) = IF 1 <= 2 THEN 2 - 1 + 1 ELSE 0
        /\ \A i \in 1..(2 - 1 + 1) : SubSeq(b, 1, 2)[i] = b[1 + i - 1]
    BY <2>1, SubSeqProperties
  <2>3. PICK front \in Seq(Nat) : front = SubSeq(b, 1, 2)
    BY <2>2
  <2>4. Len(front) = 2
    BY <2>2, <2>3
  <2>5. \A i \in 1..2 : front[i] = b[i]
    BY <2>2, <2>3
  <2> QED BY <2>3, <2>4, <2>5
<1>9. front = <<x, y>>
  <2>1. PICK xy \in Seq(Nat) : xy = <<x, y>>
    <3>1. \A a, c \in Nat : <<a, c>> \in Seq(Nat)
      OBVIOUS
    <3> QED BY <3>1
  <2>2. Len(xy) = 2 /\ xy[1] = x /\ xy[2] = y
    BY <2>1
  <2>3. front[1] = x /\ front[2] = y
    BY <1>7, <1>8
  <2>4. \A i \in 1..2 : i = 1 \/ i = 2
    OBVIOUS
  <2>5. \A i \in 1..Len(front) : front[i] = xy[i]
    BY <1>8, <2>2, <2>3, <2>4
  <2>6. front = xy
    BY <1>8, <2>2, <2>5, SeqEqual
  <2> QED BY <2>1, <2>6
<1>10. SubSeq(b, 4, 3 + b[3]) = name
  <2>1. PICK z \in Nat : z = 3 + n
    OBVIOUS
  <2>2. \A i \in 4..z : b[i] \in Nat
    <3> SUFFICES ASSUME NEW i \in 4..z PROVE b[i] \in Nat
      OBVIOUS
    <3>1. i \in 1..Len(b)
      BY <1>6, <2>1
    <3> QED BY <3>1, ElementOfSeq
  <2>3. /\ SubSeq(b, 4, z) \in Seq(Nat)
        /\ Len(SubSeq(b, 4, z)) = IF 4 <= z THEN z - 4 + 1 ELSE 0
        /\ \A i \in 1..(z - 4 + 1) : SubSeq(b, 4, z)[i] = b[4 + i - 1]
    BY <2>2, SubSeqProperties
  <2>4. PICK c \in Seq(Nat) : c = SubSeq(b, 4, z)
    BY <2>3
  <2>5. Len(c) = n
    <3>1. (IF 4 <= z THEN z - 4 + 1 ELSE 0) = n
      BY <2>1
    <3> QED BY <2>3, <2>4, <3>1
  <2>6. \A i \in 1..Len(c) : c[i] = name[i]
    <3> SUFFICES ASSUME NEW i \in 1..n PROVE c[i] = name[i]
      BY <2>5
    <3>1. PICK j \in 1..(3 + n) : j = 4 + i - 1 /\ ~(j <= 3) /\ j - 3 = i
      OBVIOUS
    <3>2. i \in 1..(z - 4 + 1)
      BY <2>1
    <3>3. c[i] = b[j]
      BY <2>3, <2>4, <3>1, <3>2
    <3>4. b[j] = name[j - 3]
      BY <1>6, <3>1
    <3> QED BY <3>1, <3>3, <3>4
  <2>7. c = name
    BY <1>1, <2>5, <2>6, SeqEqual
  <2> QED BY <1>7, <2>1, <2>4, <2>7
<1>11. parse_dump_record(b) = [ok |-> TRUE, out |-> <<x, y>> \o name]
  <2>1. Len(b) >= 3 /\ Len(b) >= 3 + b[3]
    BY <1>6, <1>7
  <2> QED BY <1>8, <1>9, <1>10, <2>1 DEF parse_dump_record
<1>12. ~parse_dump_record(SubSeq(b, 1, Len(b) - 1)).ok
  <2>1. PICK m \in Nat : m = 2 + n /\ m + 1 = Len(b)
    BY <1>6
  <2>2. PICK cut \in Seq(Nat) : /\ cut = SubSeq(b, 1, Len(b) - 1) /\ Len(cut) = m
                                /\ \A i \in 1..m : cut[i] = b[i]
    BY <2>1, CutIs
  <2>3. cut # <<>>
    <3>3. Len(cut) = m
      BY <2>2
    <3>1. Len(cut) # 0
      BY <2>1, <3>3
    <3>2. Len(<<>>) = 0
      OBVIOUS
    <3> QED BY <3>1, <3>2
  <2>4. Len(cut) >= 3 => ~(Len(cut) >= 3 + cut[3])
    <3> SUFFICES ASSUME Len(cut) >= 3 PROVE ~(Len(cut) >= 3 + cut[3])
      OBVIOUS
    <3>1. 3 \in 1..m
      BY <2>2
    <3>2. cut[3] = n
      BY <1>7, <2>2, <3>1
    <3> QED BY <2>1, <2>2, <3>2
  <2>5. ~parse_dump_record(cut).ok
    BY <2>3, <2>4 DEF parse_dump_record
  <2> QED BY <2>2, <2>5
<1>13. b # <<>>
  BY <1>6
<1> QED BY <1>5, <1>11, <1>12, <1>13 DEF RecordSays

(* The bodies of an answer, and what they say to the parser.                  *)
Answers(cmd, status, bodies, says) ==
  /\ bodies \in Seq(Seq(Nat)) /\ says \in Seq(Seq(Nat))
  /\ Len(bodies) = Len(says) /\ Len(bodies) >= 1
  /\ status # STATUS.OK => Len(bodies) = 1
  /\ status = STATUS.OK =>
       \A n \in 1..Len(bodies) :
         /\ Parsed(cmd, bodies[n]) = [ok |-> TRUE, out |-> says[n]]
         /\ n < Len(bodies) <=> (cmd = CMD.dump /\ bodies[n] # <<>>)
  /\ status = STATUS.OK /\ bodies[1] # <<>> =>
       ~Parsed(cmd, SubSeq(bodies[1], 1, Len(bodies[1]) - 1)).ok

(* A single response is an answer when it says what it should.              *)
LEMMA OneAnswer ==
  ASSUME NEW cmd \in Nat, NEW status, NEW body \in Seq(Nat), NEW says \in Seq(Nat),
         status = STATUS.OK => /\ Parsed(cmd, body) = [ok |-> TRUE, out |-> says]
                               /\ ~(cmd = CMD.dump /\ body # <<>>)
                               /\ body # <<>> => ~Parsed(cmd, SubSeq(body, 1, Len(body) - 1)).ok
  PROVE  Answers(cmd, status, <<body>>, <<says>>)
<1>1. \A s \in Seq(Nat) : <<s>> \in Seq(Seq(Nat)) /\ Len(<<s>>) = 1 /\ <<s>>[1] = s
  OBVIOUS
<1>2. PICK bodies \in Seq(Seq(Nat)), said \in Seq(Seq(Nat)) :
        /\ bodies = <<body>> /\ said = <<says>> /\ Len(bodies) = 1 /\ Len(said) = 1
        /\ bodies[1] = body /\ said[1] = says
  BY <1>1
<1>3. \A n \in 1..Len(bodies) : n = 1 /\ ~(n < Len(bodies))
  <2>1. Len(bodies) = 1 /\ \A n \in 1..1 : n = 1 /\ ~(n < 1)
    BY <1>2
  <2> QED BY <2>1
<1>4. /\ Len(bodies) = Len(said) /\ Len(bodies) >= 1
      /\ (status # STATUS.OK => Len(bodies) = 1)
  BY <1>2
<1>5. ASSUME status = STATUS.OK, NEW n \in 1..Len(bodies)
      PROVE  /\ Parsed(cmd, bodies[n]) = [ok |-> TRUE, out |-> said[n]]
             /\ n < Len(bodies) <=> (cmd = CMD.dump /\ bodies[n] # <<>>)
  <2>1. bodies[n] = body /\ said[n] = says /\ ~(n < Len(bodies))
    BY <1>2, <1>3
  <2> QED BY <1>5, <2>1
<1>6. status = STATUS.OK /\ bodies[1] # <<>> =>
        ~Parsed(cmd, SubSeq(bodies[1], 1, Len(bodies[1]) - 1)).ok
  BY <1>2
<1>7. Answers(cmd, status, bodies, said)
  BY <1>4, <1>5, <1>6 DEF Answers
<1> QED BY <1>2, <1>7

(* A number is read, and an empty body in its place refused.                *)
LEMMA NumberRead ==
  ASSUME NEW cmd \in {CMD.get, CMD.acquire}, NEW x \in Nat
  PROVE  /\ Parsed(cmd, <<x>>) = [ok |-> TRUE, out |-> <<x>>] /\ ~Parsed(cmd, <<>>).ok
         /\ cmd # CMD.dump
<1>1. PICK b \in Seq(Nat) : b = <<x>> /\ b # <<>> /\ Head(b) = x
  <2>1. <<x>> \in Seq(Nat) /\ <<x>> # <<>> /\ Head(<<x>>) = x
    OBVIOUS
  <2> QED BY <2>1
<1>2. \A body : Parsed(cmd, body)
                  = [ok |-> body # <<>>, out |-> IF body = <<>> THEN <<>> ELSE <<Head(body)>>]
  BY DEF Parsed, CMD
<1>3. Parsed(cmd, b) = [ok |-> TRUE, out |-> <<x>>]
  BY <1>1, <1>2
<1>4. ~Parsed(cmd, <<>>).ok
  <2>1. Parsed(cmd, <<>>) = [ok |-> FALSE, out |-> <<>>]
    BY <1>2
  <2> QED BY <2>1
<1>5. cmd # CMD.dump
  BY DEF CMD
<1> QED BY <1>1, <1>3, <1>4, <1>5

(* What Append does.                                                        *)
LEMMA Appended ==
  ASSUME NEW S, NEW s \in Seq(S), NEW e \in S, NEW n \in Nat, Len(s) = n
  PROVE  /\ Append(s, e) \in Seq(S) /\ Len(Append(s, e)) = n + 1 /\ Append(s, e)[n + 1] = e
         /\ \A i \in 1..n : Append(s, e)[i] = s[i]
BY AppendProperties

(* What the server answers to a request is what the client reads from it.   *)
LEMMA AnswersTyped ==
  ASSUME StoreInv, NEW u \in Users, NEW q \in Requests, NEW status, status = Status(u, q)
  PROVE  status \in {0, 1, 33, 34} /\ Answers(q.cmd, status, Bodies(q, status), Says(q, status))
<1>1. status \in {0, 1, 33, 34}
  BY DEF Status, STATUS
<1>2. /\ q.cmd \in Nat /\ q.name \in Seq(Nat) /\ q.resources \in Nat /\ q.initial \in Nat
  BY DEF Requests
<1>3. \A x \in Nat : <<x>> \in Seq(Nat) /\ <<x>> # <<>> /\ Head(<<x>>) = x /\ Len(<<x>>) = 1
  OBVIOUS
<1>4. \A x \in Nat : SubSeq(<<x>>, 1, Len(<<x>>) - 1) = <<>>
  <2> SUFFICES ASSUME NEW x \in Nat PROVE SubSeq(<<x>>, 1, 0) = <<>>
    OBVIOUS
  <2> QED OBVIOUS
<1>5. <<>> \in Seq(Nat)
  OBVIOUS
<1>6. CASE status # STATUS.OK
  <2>1. Bodies(q, status) = << <<7>> >> /\ Says(q, status) = << <<7>> >>
    BY <1>6 DEF Bodies, Says
  <2>2. <<7>> \in Seq(Nat)
    BY <1>3
  <2> QED BY <1>1, <1>2, <1>6, <2>1, <2>2, OneAnswer
<1>7. CASE status = STATUS.OK /\ q.cmd = CMD.get
  <2>1. q.name \in DOMAIN limit
    BY <1>7 DEF Status, STATUS, CMD, Known
  <2>2. PICK x \in Nat : x = Total(q.name)
    BY <2>1, TotalTyped
  <2>3. Bodies(q, status) = << <<x>> >> /\ Says(q, status) = << <<x>> >>
    BY <1>7, <2>2 DEF Bodies, Says, CMD
  <2>4. Parsed(q.cmd, <<x>>) = [ok |-> TRUE, out |-> <<x>>] /\ ~Parsed(q.cmd, <<>>).ok
    BY <1>7, NumberRead
  <2>5. q.cmd # CMD.dump
    BY <1>7 DEF CMD
  <2> QED BY <1>1, <1>2, <1>3, <1>4, <2>3, <2>4, <2>5, OneAnswer, ZenonT(60)
<1>8. CASE status = STATUS.OK /\ q.cmd = CMD.acquire
  <2>2. PICK x \in Nat : x = q.resources
    BY <1>2
  <2>3. Bodies(q, status) = << <<x>> >> /\ Says(q, status) = << <<x>> >>
    BY <1>8, <2>2 DEF Bodies, Says, CMD
  <2>4. Parsed(q.cmd, <<x>>) = [ok |-> TRUE, out |-> <<x>>] /\ ~Parsed(q.cmd, <<>>).ok
    BY <1>8, NumberRead
  <2>5. q.cmd # CMD.dump
    BY <1>8 DEF CMD
  <2> QED BY <1>1, <1>2, <1>3, <1>4, <2>3, <2>4, <2>5, OneAnswer, ZenonT(60)
<1>9. CASE status = STATUS.OK /\ q.cmd = CMD.stats
  <2>1. Bodies(q, status) = <<StatsBody>> /\ Says(q, status) = <<StatsSaid>>
    BY <1>9 DEF Bodies, Says, CMD
  <2>2. \A body : Parsed(q.cmd, body) = parse_statistics(body)
    BY <1>9 DEF Parsed, CMD
  <2>3. q.cmd # CMD.dump
    BY <1>9 DEF CMD
  <2> QED BY <1>1, <1>2, <2>1, <2>2, <2>3, StatisticsRead, OneAnswer
<1>10. CASE status = STATUS.OK /\ q.cmd = CMD.dump
  <2>12. PICK n \in Nat : n = Cardinality(DOMAIN limit) /\ Listing \in [1..n -> DOMAIN limit]
    BY ListingTyped
  <2>1. PICK l \in [1..n -> DOMAIN limit] : l = Listing
    BY <2>12
  <2>2. DOMAIN l = 1..n
    OBVIOUS
  <2> DEFINE B == [i \in 1..n |-> Record(l[i])]
             T == [i \in 1..n |-> <<Total(l[i]), limit[l[i]]>> \o l[i]]
  <2>3. Bodies(q, status) = Append(B, <<>>) /\ Says(q, status) = Append(T, <<>>)
    BY <1>10, <2>1, <2>2 DEF Bodies, Says, CMD
  <2>4. ASSUME NEW i \in 1..n
        PROVE  /\ B[i] \in Seq(Nat) /\ T[i] \in Seq(Nat) /\ B[i] # <<>>
               /\ parse_dump_record(B[i]) = [ok |-> TRUE, out |-> T[i]]
               /\ ~parse_dump_record(SubSeq(B[i], 1, Len(B[i]) - 1)).ok
    <3>1. PICK name \in DOMAIN limit : name = l[i]
      OBVIOUS
    <3>2. PICK x \in Nat, y \in Nat : x = Total(name) /\ y = limit[name] /\ name \in Seq(Nat)
      BY TotalTyped
    <3>3. B[i] = <<x, y, Len(name)>> \o name /\ T[i] = <<x, y>> \o name
      BY <3>1, <3>2 DEF Record
    <3>4. <<x, y>> \o name \in Seq(Nat)
      <4>1. <<x, y>> \in Seq(Nat)
        OBVIOUS
      <4> QED BY <3>2, <4>1, ConcatProperties
    <3>5. B[i] = RecordOf(x, y, name)
      BY <3>3 DEF RecordOf
    <3>6. RecordSays(RecordOf(x, y, name), <<x, y>> \o name)
      BY <3>2, RecordRead
    <3> HIDE DEF B, T
    <3>7. RecordSays(B[i], T[i])
      BY <3>3, <3>5, <3>6
    <3> QED BY <3>3, <3>4, <3>7 DEF RecordSays
  <2>5. B \in Seq(Seq(Nat)) /\ T \in Seq(Seq(Nat)) /\ Len(B) = n /\ Len(T) = n
    <3>1. B \in [1..n -> Seq(Nat)] /\ T \in [1..n -> Seq(Nat)]
      BY <2>4
    <3> QED BY <3>1
  <2> HIDE DEF B, T
  <2>6. PICK bodies \in Seq(Seq(Nat)), says \in Seq(Seq(Nat)) :
          /\ bodies = Append(B, <<>>) /\ says = Append(T, <<>>)
          /\ Len(bodies) = n + 1 /\ Len(says) = n + 1
          /\ bodies[n + 1] = <<>> /\ says[n + 1] = <<>>
          /\ \A i \in 1..n : bodies[i] = B[i] /\ says[i] = T[i]
    <3>1. /\ Append(B, <<>>) \in Seq(Seq(Nat)) /\ Len(Append(B, <<>>)) = n + 1
          /\ Append(B, <<>>)[n + 1] = <<>> /\ \A i \in 1..n : Append(B, <<>>)[i] = B[i]
      BY <1>5, <2>5, Appended
    <3>2. /\ Append(T, <<>>) \in Seq(Seq(Nat)) /\ Len(Append(T, <<>>)) = n + 1
          /\ Append(T, <<>>)[n + 1] = <<>> /\ \A i \in 1..n : Append(T, <<>>)[i] = T[i]
      BY <1>5, <2>5, Appended
    <3> QED BY <3>1, <3>2
  <2>7. \A body : Parsed(q.cmd, body) = parse_dump_record(body)
    BY <1>10 DEF Parsed, CMD
  <2>8. parse_dump_record(<<>>) = [ok |-> TRUE, out |-> <<>>]
    <3>1. ~(Len(<<>>) >= 3)
      OBVIOUS
    <3> QED BY <3>1 DEF parse_dump_record
  <2>9. ASSUME NEW i \in 1..(n + 1)
        PROVE  /\ Parsed(q.cmd, bodies[i]) = [ok |-> TRUE, out |-> says[i]]
               /\ i < n + 1 <=> (q.cmd = CMD.dump /\ bodies[i] # <<>>)
    <3>1. CASE i = n + 1
      <4>1. bodies[i] = <<>> /\ says[i] = <<>> /\ ~(i < n + 1)
        BY <2>6, <3>1
      <4> QED BY <2>7, <2>8, <4>1
    <3>2. CASE i # n + 1
      <4>1. i \in 1..n
        BY <3>2
      <4>2. bodies[i] = B[i] /\ says[i] = T[i] /\ i < n + 1
        BY <2>6, <4>1
      <4>3. B[i] # <<>> /\ parse_dump_record(B[i]) = [ok |-> TRUE, out |-> T[i]]
        BY <2>4, <4>1
      <4> QED BY <1>10, <2>7, <4>2, <4>3
    <3> QED BY <3>1, <3>2
  <2>10. bodies[1] # <<>> => ~Parsed(q.cmd, SubSeq(bodies[1], 1, Len(bodies[1]) - 1)).ok
    <3>1. n = 0 => bodies[1] = <<>>
      BY <2>6
    <3>2. n # 0 => 1 \in 1..n
      OBVIOUS
    <3>3. CASE n # 0
      <4>1. bodies[1] = B[1] /\ ~parse_dump_record(SubSeq(B[1], 1, Len(B[1]) - 1)).ok
        BY <2>4, <2>6, <3>2, <3>3
      <4> QED BY <2>7, <4>1
    <3> QED BY <3>1, <3>3
  <2>11. Answers(q.cmd, status, bodies, says)
    <3>1. Len(bodies) = n + 1 /\ Len(says) = n + 1 /\ n + 1 >= 1
      BY <2>6
    <3> QED BY <1>10, <2>9, <2>10, <3>1 DEF Answers
  <2> QED BY <1>1, <2>3, <2>6, <2>11
<1>11. CASE status = STATUS.OK /\ q.cmd \notin {CMD.get, CMD.acquire, CMD.stats, CMD.dump}
  <2>1. Bodies(q, status) = << <<>> >> /\ Says(q, status) = << <<>> >>
    BY <1>11 DEF Bodies, Says
  <2>2. Parsed(q.cmd, <<>>) = [ok |-> TRUE, out |-> <<>>]
    BY <1>11 DEF Parsed
  <2> QED BY <1>1, <1>2, <1>5, <2>1, <2>2, OneAnswer
<1> QED BY <1>6, <1>7, <1>8, <1>9, <1>10, <1>11

-----------------------------------------------------------------------------
(* The invariant: the types.                                                *)
Procs ==
  [pc : {"idle", "connecting", "open", "calling", "reading", "exited"}, n : Nat, serial : Nat,
   retries : Nat, code : 0..2]
Buffers == [used : Nat, last : Nat, capacity : Nat, invalid : BOOLEAN, nomem : BOOLEAN]
Message == [serial : Nat, request : Requests]
Reports == [status : Int, out : Seq(Seq(Nat))]

ProcTypes ==
  /\ session \in [Users -> Seq(Invocation)] /\ proc \in [Users -> Procs]
  /\ cnt \in [Users -> Buffers] /\ stream \in [Users -> Seq(Nat)]
  /\ shown \in [Users -> Seq(Seq(Nat))]

ServerTypes ==
  /\ wire \in [Users -> {<<>>} \cup {<<m>> : m \in Message}]
  /\ answer \in [Users -> Seq(Seq(Nat))] /\ sent \in [Users -> Nat]
  /\ alive \in [Users -> BOOLEAN] /\ told \in [Users -> Reports]

(* What is true of one user.  An answer fits the request of its serial.       *)
Fits(ans, serial, cmd, status, out) ==
  /\ Len(ans) >= 1 /\ Len(out) = Len(ans)
  /\ \A n \in 1..Len(ans) : Good(ans[n], serial, cmd, status)
  /\ status = STATUS.OK =>
       \A n \in 1..Len(ans) :
         /\ Parsed(cmd, Body(ans[n])) = [ok |-> TRUE, out |-> out[n]]
         /\ n < Len(ans) <=> (cmd = CMD.dump /\ Body(ans[n]) # <<>>)

Busy(u) == proc[u].pc \in {"calling", "reading"}
Before(u) == proc[u].pc \in {"idle", "connecting", "open"}
Answered(u) == told[u].status \notin {Nothing, Garbage}

(* Its process runs an invocation, and what is under way is that request.     *)
Asked(u) ==
  /\ proc[u].n <= Len(session[u]) /\ (proc[u].pc # "idle" => proc[u].n >= 1)
  /\ Before(u) => wire[u] = <<>> /\ told[u].status = Nothing /\ sent[u] = 0 /\ shown[u] = <<>>
  /\ ~alive[u] => wire[u] = <<>>
  /\ wire[u] # <<>> =>
       /\ told[u].status = Nothing /\ Command(Now(u)) # BadArgument
       /\ wire[u] = <<[serial |-> proc[u].serial, request |-> Command(Now(u))]>>

(* What has been answered to it.                                             *)
Replied(u) ==
  /\ told[u].status \in {Nothing, Garbage, 0, 1, 33, 34}
  /\ told[u].status = Nothing => answer[u] = <<>>
  /\ told[u].status = Garbage => answer[u] # <<>> /\ Spoilt(answer[u][1])
  /\ Answered(u) =>
       /\ Command(Now(u)) # BadArgument
       /\ Fits(answer[u], proc[u].serial, Command(Now(u)).cmd, told[u].status, told[u].out)

(* What it has printed of that.                                              *)
Shows(u) ==
  /\ ~Answered(u) => shown[u] = <<>>
  /\ Busy(u) /\ Answered(u) =>
       /\ Len(shown[u]) < Len(answer[u])
       /\ \A n \in 1..Len(shown[u]) : shown[u][n] = told[u].out[n]
  /\ proc[u].pc = "exited" /\ proc[u].code = 0 => told[u].status = STATUS.OK /\ shown[u] = told[u].out
  /\ proc[u].pc = "exited" /\ proc[u].code = 2 => told[u].status > STATUS.OK

(* Its buffer holds the front of the stream, and the stream the responses     *)
(* that are not printed yet.                                                *)
Buffered(u) ==
  /\ cnt[u].last <= cnt[u].used /\ cnt[u].used <= cnt[u].capacity
  /\ cnt[u].used <= Len(stream[u]) /\ RecvSize <= cnt[u].capacity
  /\ proc[u].pc = "reading" => cnt[u].last = 0 /\ ~cnt[u].invalid
  /\ cnt[u].invalid =>
       told[u].status = Garbage \/ (cnt[u].nomem /\ Now(u).cmd = "stats" /\ told[u].status = STATUS.OK)
  /\ sent[u] <= Len(answer[u])
  /\ ~Busy(u) => cnt[u] = NoCnt /\ stream[u] = <<>>
  /\ Busy(u) /\ ~cnt[u].invalid =>
       LaidOut(stream[u], answer[u], Len(shown[u]) + 1, sent[u], cnt[u].last, alive[u])

UserInv(u) == Asked(u) /\ Replied(u) /\ Shows(u) /\ Buffered(u)

CounterInv == ProcTypes /\ ServerTypes /\ StoreInv /\ \A u \in Users : UserInv(u)

-----------------------------------------------------------------------------
(* A step of one user leaves the others as they are.                         *)
Same(v) ==
  /\ session'[v] = session[v] /\ proc'[v] = proc[v] /\ cnt'[v] = cnt[v] /\ wire'[v] = wire[v]
  /\ answer'[v] = answer[v] /\ sent'[v] = sent[v] /\ stream'[v] = stream[v]
  /\ alive'[v] = alive[v] /\ shown'[v] = shown[v] /\ told'[v] = told[v]

(* A user nothing has changed for is as before.                             *)
LEMMA SameInv ==
  ASSUME NEW v \in Users, UserInv(v), Same(v)
  PROVE  UserInv(v)'
<1>1. Asked(v)'
  BY DEF UserInv, Asked, Same, Before, Now
<1>2. Replied(v)'
  BY DEF UserInv, Replied, Same, Answered, Now
<1>3. Shows(v)'
  BY DEF UserInv, Shows, Same, Answered, Busy
<1>4. Buffered(v)'
  BY DEF UserInv, Buffered, Same, Busy, Now
<1> QED BY <1>1, <1>2, <1>3, <1>4 DEF UserInv

(* What a step of u has to show.                                             *)
Steps(u) ==
  /\ ProcTypes' /\ ServerTypes' /\ StoreInv' /\ UserInv(u)'
  /\ \A v \in Users \ {u} : Same(v)

(* Every user then is as the invariant says.                                *)
LEMMA StepsInv ==
  ASSUME CounterInv, NEW u \in Users, Steps(u)
  PROVE  CounterInv'
<1>1. ASSUME NEW v \in Users PROVE UserInv(v)'
  <2>1. CASE v = u
    BY <2>1 DEF Steps
  <2>2. CASE v # u
    <3>1. UserInv(v) /\ Same(v)
      BY <2>2 DEF Steps, CounterInv
    <3> QED BY <3>1, SameInv
  <2> QED BY <2>1, <2>2
<1> QED BY <1>1 DEF CounterInv, Steps

(* At first.                                                                *)
LEMMA InitInv ==
  ASSUME CounterInit
  PROVE  CounterInv
<1>1. RecvSize \in Nat /\ <<>> \in Seq(Nat) /\ <<>> \in Seq(Seq(Nat)) /\ Len(<<>>) = 0
  BY SizeAssumption
<1>2. ProcTypes
  <2>1. session \in [Users -> Seq(Invocation)]
    BY SessionsAssumption DEF CounterInit
  <2>2. NoCnt \in Buffers
    BY <1>1 DEF NoCnt, Buffers
  <2>3. [pc |-> "idle", n |-> 0, serial |-> 0, retries |-> 0, code |-> 0] \in Procs
    BY DEF Procs
  <2> QED BY <1>1, <2>1, <2>2, <2>3 DEF CounterInit, ProcTypes
<1>3. ServerTypes
  <2>1. [status |-> Nothing, out |-> <<>>] \in Reports
    BY <1>1 DEF Reports, Nothing
  <2> QED BY <1>1, <2>1 DEF CounterInit, ServerTypes
<1>4. StoreInv
  <2>1. DOMAIN <<>> = {} /\ <<>> = [x \in {} |-> 0]
    OBVIOUS
  <2>2. IsFiniteSet({})
    BY FS_EmptySet
  <2>3. limit \in [{} -> Nat] /\ held \in [{} -> [Users -> Nat]] /\ DOMAIN limit = {}
    BY <2>1 DEF CounterInit
  <2> QED BY <2>2, <2>3 DEF StoreInv
<1>5. ASSUME NEW u \in Users PROVE UserInv(u)
  <2>1. /\ proc[u] = [pc |-> "idle", n |-> 0, serial |-> 0, retries |-> 0, code |-> 0]
        /\ cnt[u] = NoCnt /\ wire[u] = <<>> /\ answer[u] = <<>> /\ sent[u] = 0 /\ stream[u] = <<>>
        /\ shown[u] = <<>> /\ told[u] = [status |-> Nothing, out |-> <<>>]
    BY DEF CounterInit
  <2>2. Len(session[u]) \in Nat
    BY <1>2 DEF ProcTypes
  <2>3. Asked(u)
    BY <2>1, <2>2 DEF Asked
  <2>4. Replied(u)
    BY <2>1 DEF Replied, Answered, Nothing, Garbage
  <2>5. Shows(u)
    BY <2>1 DEF Shows, Answered, Busy
  <2>6. Buffered(u)
    BY <1>1, <2>1 DEF Buffered, Busy, NoCnt
  <2> QED BY <2>3, <2>4, <2>5, <2>6 DEF UserInv
<1> QED BY <1>2, <1>3, <1>4, <1>5 DEF CounterInv

-----------------------------------------------------------------------------
(* The process.                                                             *)
LEMMA UserFacts ==
  ASSUME CounterInv, NEW u \in Users
  PROVE  /\ ProcTypes /\ ServerTypes /\ StoreInv
         /\ Asked(u) /\ Replied(u) /\ Shows(u) /\ Buffered(u)
         /\ session[u] \in Seq(Invocation) /\ proc[u] \in Procs /\ cnt[u] \in Buffers
         /\ stream[u] \in Seq(Nat) /\ shown[u] \in Seq(Seq(Nat)) /\ answer[u] \in Seq(Seq(Nat))
         /\ sent[u] \in Nat /\ alive[u] \in BOOLEAN /\ told[u] \in Reports
BY DEF CounterInv, UserInv, ProcTypes, ServerTypes

(* A process past its start has an invocation.                              *)
LEMMA NowIs ==
  ASSUME CounterInv, NEW u \in Users, proc[u].pc # "idle"
  PROVE  Now(u) \in Invocation /\ Len(session[u]) \in Nat
<1>1. PICK s \in Seq(Invocation) : s = session[u]
  BY UserFacts
<1>2. proc[u] \in Procs /\ Asked(u)
  BY UserFacts
<1>3. proc[u].n \in Nat /\ proc[u].n <= Len(s) /\ proc[u].n >= 1
  BY <1>1, <1>2 DEF Procs, Asked
<1>4. proc[u].n \in 1..Len(s) /\ Len(s) \in Nat
  BY <1>3
<1>5. s[proc[u].n] \in Invocation
  BY <1>4, ElementOfSeq
<1> QED BY <1>1, <1>4, <1>5 DEF Now

(* The fresh buffer.                                                        *)
LEMMA NoCntIs == NoCnt \in Buffers /\ NoCnt.used = 0 /\ NoCnt.last = 0
                 /\ NoCnt.capacity = RecvSize /\ ~NoCnt.invalid
BY SizeAssumption DEF NoCnt, Buffers

(* Both are in place, and nothing else has changed.                           *)
LEMMA StoreSame ==
  ASSUME StoreInv, UNCHANGED <<held, limit>>
  PROVE  StoreInv'
BY DEF StoreInv

(* What an exit does.                                                       *)
LEMMA ExitsIs ==
  ASSUME CounterInv, NEW u \in Users, NEW code \in 0..2, Exits(u, code)
  PROVE  /\ proc' \in [Users -> Procs] /\ cnt' \in [Users -> Buffers] /\ stream' \in [Users -> Seq(Nat)]
         /\ proc'[u].pc = "exited" /\ proc'[u].code = code
         /\ proc'[u].n = proc[u].n /\ proc'[u].serial = proc[u].serial
         /\ cnt'[u] = NoCnt /\ stream'[u] = <<>>
         /\ \A v \in Users \ {u} :
              proc'[v] = proc[v] /\ cnt'[v] = cnt[v] /\ stream'[v] = stream[v]
<1>1. proc \in [Users -> Procs] /\ cnt \in [Users -> Buffers] /\ stream \in [Users -> Seq(Nat)]
  BY DEF CounterInv, ProcTypes
<1>2. proc[u] \in Procs
  BY <1>1
<1>3. /\ proc' \in [Users -> Procs] /\ proc'[u].pc = "exited" /\ proc'[u].code = code
      /\ proc'[u].n = proc[u].n /\ proc'[u].serial = proc[u].serial
      /\ \A v \in Users \ {u} : proc'[v] = proc[v]
  <2>1. proc' = [[proc EXCEPT ![u].pc = "exited"] EXCEPT ![u].code = code]
    BY DEF Exits
  <2>2. PICK q : q = [proc EXCEPT ![u].pc = "exited"]
    OBVIOUS
  <2>3. /\ q \in [Users -> Procs] /\ q[u].pc = "exited"
        /\ q[u].n = proc[u].n /\ q[u].serial = proc[u].serial
        /\ \A v \in Users \ {u} : q[v] = proc[v]
    BY <1>1, <2>2 DEF Procs
  <2>4. /\ proc' \in [Users -> Procs] /\ proc'[u].pc = q[u].pc /\ proc'[u].code = code
        /\ proc'[u].n = q[u].n /\ proc'[u].serial = q[u].serial
        /\ \A v \in Users \ {u} : proc'[v] = q[v]
    <3>1. proc' = [q EXCEPT ![u].code = code]
      BY <2>1, <2>2
    <3>2. q \in [Users -> Procs]
      BY <2>3
    <3> QED BY <3>1, <3>2 DEF Procs
  <2> QED BY <2>3, <2>4
<1>4. cnt' = [cnt EXCEPT ![u] = NoCnt] /\ stream' = [stream EXCEPT ![u] = <<>>]
  BY DEF Exits
<1>5. <<>> \in Seq(Nat)
  OBVIOUS
<1> QED BY <1>1, <1>3, <1>4, <1>5, NoCntIs

(* An exit, with what it claims to be true.                                  *)
LEMMA ExitSteps ==
  ASSUME CounterInv, NEW u \in Users, NEW code \in 0..2, Exits(u, code), proc[u].pc # "idle",
         UNCHANGED <<session, wire, answer, sent, alive, held, limit, told>>,
         shown' \in [Users -> Seq(Seq(Nat))], \A v \in Users \ {u} : shown'[v] = shown[v],
         ~Answered(u) => shown'[u] = <<>>,
         code = 0 => told[u].status = STATUS.OK /\ shown'[u] = told[u].out,
         code = 2 => told[u].status > STATUS.OK
  PROVE  Steps(u)
<1>1. /\ ProcTypes /\ ServerTypes /\ StoreInv
      /\ Asked(u) /\ Replied(u) /\ Shows(u) /\ Buffered(u) /\ proc[u] \in Procs
  BY UserFacts
<1>2. /\ proc' \in [Users -> Procs] /\ cnt' \in [Users -> Buffers] /\ stream' \in [Users -> Seq(Nat)]
      /\ proc'[u].pc = "exited" /\ proc'[u].code = code
      /\ proc'[u].n = proc[u].n /\ proc'[u].serial = proc[u].serial
      /\ cnt'[u] = NoCnt /\ stream'[u] = <<>>
      /\ \A v \in Users \ {u} :
           proc'[v] = proc[v] /\ cnt'[v] = cnt[v] /\ stream'[v] = stream[v]
  BY ExitsIs
<1>3. ProcTypes'
  BY <1>1, <1>2 DEF ProcTypes
<1>4. ServerTypes'
  BY <1>1 DEF ServerTypes
<1>5. StoreInv'
  BY <1>1, StoreSame
<1>6. Now(u)' = Now(u)
  BY <1>2 DEF Now
<1>7. Asked(u)'
  BY <1>1, <1>2, <1>6 DEF Asked, Before
<1>8. Replied(u)'
  BY <1>1, <1>2, <1>6 DEF Replied, Answered
<1>9. Shows(u)'
  BY <1>2 DEF Shows, Answered, Busy
<1>10. Buffered(u)'
  <2>1. sent[u] <= Len(answer[u]) /\ RecvSize <= RecvSize /\ 0 <= RecvSize /\ Len(<<>>) = 0
    BY <1>1, SizeAssumption DEF Buffered
  <2> QED BY <1>2, <2>1, NoCntIs DEF Buffered, Busy
<1>11. \A v \in Users \ {u} : Same(v)
  BY <1>2 DEF Same
<1> QED BY <1>3, <1>4, <1>5, <1>7, <1>8, <1>9, <1>10, <1>11 DEF Steps, UserInv

(* An exit with 1 claims nothing.                                           *)
LEMMA ExitWithError ==
  ASSUME CounterInv, NEW u \in Users, Exits(u, 1), proc[u].pc # "idle",
         UNCHANGED <<session, wire, answer, sent, alive, held, limit, told, shown>>
  PROVE  Steps(u)
<1>1. shown \in [Users -> Seq(Seq(Nat))] /\ Shows(u)
  BY DEF CounterInv, ProcTypes, UserInv
<1>2. ~Answered(u) => shown[u] = <<>>
  BY <1>1 DEF Shows
<1> QED BY <1>1, <1>2, ExitSteps

(* Start begins the next invocation.                                        *)
LEMMA StartSteps ==
  ASSUME CounterInv, NEW u \in Users, Start(u)
  PROVE  Steps(u)
<1>1. /\ ProcTypes /\ ServerTypes /\ StoreInv
      /\ Asked(u) /\ Replied(u) /\ Shows(u) /\ Buffered(u) /\ proc[u] \in Procs
  BY UserFacts
<1>2. PICK s \in Seq(Invocation), n \in Nat : s = session[u] /\ n = proc[u].n /\ n < Len(s)
  <2>1. proc[u].n \in Nat /\ session[u] \in Seq(Invocation)
    BY UserFacts DEF Procs
  <2> QED BY <2>1 DEF Start
<1>3. n + 1 \in 1..Len(s)
  BY <1>2
<1>4. PICK i \in Invocation : i = s[n + 1]
  BY <1>3, ElementOfSeq
<1> DEFINE p == [pc |-> IF Options(i) THEN "exited" ELSE "connecting", n |-> n + 1, serial |-> 0,
                 retries |-> i.retries, code |-> IF Options(i) THEN 1 ELSE 0]
<1>5. proc' = [proc EXCEPT ![u] = p]
  BY <1>2, <1>4 DEF Start
<1>6. p \in Procs /\ p.pc \in {"exited", "connecting"} /\ p.n = n + 1
      /\ (p.pc = "exited" => p.code = 1)
  <2>1. i.retries \in Nat
    BY DEF Invocation
  <2> HIDE DEF Options
  <2> QED BY <2>1 DEF Procs
<1> HIDE DEF p
<1>7. proc' \in [Users -> Procs] /\ proc'[u] = p /\ \A v \in Users \ {u} : proc'[v] = proc[v]
  BY <1>1, <1>5, <1>6 DEF ProcTypes
<1>8. <<>> \in Seq(Seq(Nat)) /\ [status |-> Nothing, out |-> <<>>] \in Reports
  BY DEF Nothing, Reports
<1>9. ProcTypes'
  BY <1>1, <1>7, <1>8 DEF ProcTypes, Start
<1>10. ServerTypes'
  <2>1. answer' \in [Users -> Seq(Seq(Nat))] /\ sent' \in [Users -> Nat] /\ told' \in [Users -> Reports]
    BY <1>1, <1>8 DEF ServerTypes, Start
  <2> QED BY <1>1, <2>1 DEF ServerTypes, Start
<1>11. StoreInv'
  BY <1>1, StoreSame DEF Start
<1>12. /\ wire'[u] = <<>> /\ alive'[u] = alive[u] /\ session'[u] = session[u]
       /\ cnt'[u] = NoCnt /\ stream'[u] = <<>>
  <2>1. wire[u] = <<>> /\ ~Busy(u)
    BY <1>1 DEF Start, Asked, Busy
  <2>2. cnt[u] = NoCnt /\ stream[u] = <<>>
    BY <1>1, <2>1 DEF Buffered
  <2> QED BY <2>1, <2>2 DEF Start
<1>13. /\ shown'[u] = <<>> /\ told'[u].status = Nothing /\ answer'[u] = <<>> /\ sent'[u] = 0
  BY <1>1 DEF Start, ProcTypes, ServerTypes
<1>14. Asked(u)'
  BY <1>2, <1>3, <1>6, <1>7, <1>12, <1>13 DEF Asked
<1>15. Replied(u)'
  BY <1>13 DEF Replied, Answered, Nothing, Garbage
<1>16. Shows(u)'
  BY <1>6, <1>7, <1>13 DEF Shows, Answered, Busy
<1>17. Buffered(u)'
  <2>1. RecvSize <= RecvSize /\ 0 <= RecvSize /\ Len(<<>>) = 0
    BY SizeAssumption
  <2>2. ~Busy(u)'
    BY <1>6, <1>7 DEF Busy
  <2>3. proc'[u].pc # "reading"
    BY <1>6, <1>7
  <2> QED BY <1>12, <1>13, <2>1, <2>2, <2>3, NoCntIs DEF Buffered
<1>18. \A v \in Users \ {u} : Same(v)
  BY <1>1, <1>7 DEF Same, Start, ProcTypes, ServerTypes
<1> QED BY <1>9, <1>10, <1>11, <1>14, <1>15, <1>16, <1>17, <1>18 DEF Steps, UserInv

(* Connects opens the connection or ends the process.                       *)
LEMMA ConnectsSteps ==
  ASSUME CounterInv, NEW u \in Users, Connects(u)
  PROVE  Steps(u)
<1>1. /\ ProcTypes /\ ServerTypes /\ StoreInv
      /\ Asked(u) /\ Replied(u) /\ Shows(u) /\ Buffered(u) /\ proc[u] \in Procs
  BY UserFacts
<1>2. CASE Exits(u, 1) /\ UNCHANGED alive
  BY <1>2, ExitWithError DEF Connects
<1>3. CASE /\ proc' = [proc EXCEPT ![u].pc = "open"]
           /\ cnt' = [cnt EXCEPT ![u] = NoCnt]
           /\ alive' = [alive EXCEPT ![u] = TRUE]
           /\ UNCHANGED stream
  <2>1. /\ proc' \in [Users -> Procs] /\ proc'[u].pc = "open"
        /\ proc'[u].n = proc[u].n /\ proc'[u].serial = proc[u].serial
        /\ \A v \in Users \ {u} : proc'[v] = proc[v]
    BY <1>1, <1>3 DEF Procs, ProcTypes
  <2>2. cnt' \in [Users -> Buffers] /\ cnt'[u] = NoCnt /\ \A v \in Users \ {u} : cnt'[v] = cnt[v]
    BY <1>1, <1>3, NoCntIs DEF ProcTypes
  <2>3. alive' \in [Users -> BOOLEAN] /\ alive'[u] = TRUE /\ \A v \in Users \ {u} : alive'[v] = alive[v]
    BY <1>1, <1>3 DEF ServerTypes
  <2>4. UNCHANGED <<session, wire, answer, sent, held, limit, shown, told, stream>>
    BY <1>3 DEF Connects
  <2>5. ProcTypes' /\ ServerTypes'
    BY <1>1, <2>1, <2>2, <2>3, <2>4 DEF ProcTypes, ServerTypes
  <2>6. StoreInv'
    BY <1>1, <2>4, StoreSame
  <2>7. Now(u)' = Now(u) /\ Before(u) /\ ~Busy(u) /\ proc[u].pc = "connecting"
    BY <2>1, <2>4 DEF Now, Connects, Before, Busy
  <2>8. Asked(u)'
    BY <1>1, <2>1, <2>3, <2>4, <2>7 DEF Asked, Before
  <2>9. Replied(u)'
    BY <1>1, <2>1, <2>4, <2>7 DEF Replied, Answered
  <2>10. Shows(u)'
    BY <1>1, <2>1, <2>4 DEF Shows, Answered, Busy
  <2>11. Buffered(u)'
    <3>1. RecvSize <= RecvSize /\ 0 <= RecvSize /\ Len(<<>>) = 0
      BY SizeAssumption
    <3>2. ~Busy(u)' /\ proc'[u].pc # "reading"
      BY <2>1 DEF Busy
    <3>3. stream'[u] = <<>> /\ sent'[u] <= Len(answer'[u])
      BY <1>1, <2>4, <2>7 DEF Buffered
    <3> QED BY <2>2, <3>1, <3>2, <3>3, NoCntIs DEF Buffered
  <2>12. \A v \in Users \ {u} : Same(v)
    BY <2>1, <2>2, <2>3, <2>4 DEF Same
  <2> QED BY <2>5, <2>6, <2>8, <2>9, <2>10, <2>11, <2>12 DEF Steps, UserInv
<1> QED BY <1>2, <1>3 DEF Connects

(* Sends puts the request under way, unless the connection is lost.         *)
LEMMA SendsSteps ==
  ASSUME CounterInv, NEW u \in Users, Sends(u)
  PROVE  Steps(u)
<1>1. /\ ProcTypes /\ ServerTypes /\ StoreInv
      /\ Asked(u) /\ Replied(u) /\ Shows(u) /\ Buffered(u) /\ proc[u] \in Procs
  BY UserFacts
<1>2. proc[u].pc = "open" /\ Command(Now(u)) # BadArgument /\ proc[u].serial + 1 \in Nat
  BY <1>1 DEF Sends, Procs
<1>3. Command(Now(u)) \in Requests
  BY <1>2, NowIs, CommandTyped
<1> DEFINE m == [serial |-> proc[u].serial + 1, request |-> Command(Now(u))]
<1>4. m \in Message
  BY <1>2, <1>3 DEF Message
<1> HIDE DEF m
<1>5. /\ proc' \in [Users -> Procs] /\ proc'[u].pc = "calling"
      /\ proc'[u].n = proc[u].n /\ proc'[u].serial = proc[u].serial + 1
      /\ \A v \in Users \ {u} : proc'[v] = proc[v]
  BY <1>1, <1>2 DEF Procs, ProcTypes, Sends
<1>6. wire[u] = <<>> /\ told[u].status = Nothing /\ sent[u] = 0 /\ shown[u] = <<>>
      /\ cnt[u] = NoCnt /\ stream[u] = <<>> /\ answer[u] = <<>>
  BY <1>1, <1>2 DEF Asked, Before, Buffered, Busy, Replied
<1>7. wire' = [wire EXCEPT ![u] = IF alive[u] THEN <<m>> ELSE wire[u]]
  BY DEF m, Sends
<1>8. /\ wire' \in [Users -> {<<>>} \cup {<<x>> : x \in Message}]
      /\ wire'[u] = IF alive[u] THEN <<m>> ELSE <<>>
      /\ \A v \in Users \ {u} : wire'[v] = wire[v]
  BY <1>1, <1>4, <1>6, <1>7 DEF ServerTypes
<1>9. UNCHANGED <<session, cnt, answer, sent, stream, alive, held, limit, shown, told>>
  BY DEF Sends
<1>10. ProcTypes' /\ ServerTypes'
  BY <1>1, <1>5, <1>8, <1>9 DEF ProcTypes, ServerTypes
<1>11. StoreInv'
  BY <1>1, <1>9, StoreSame
<1>12. Now(u)' = Now(u)
  BY <1>5, <1>9 DEF Now
<1>13. Asked(u)'
  <2>1. proc'[u].n <= Len(session'[u]) /\ proc'[u].n >= 1
    BY <1>1, <1>2, <1>5, <1>9 DEF Asked
  <2>2. ~Before(u)' /\ (~alive'[u] => wire'[u] = <<>>)
    BY <1>5, <1>8, <1>9 DEF Before
  <2>3. wire'[u] # <<>> => wire'[u] = <<[serial |-> proc'[u].serial, request |-> Command(Now(u)')]>>
    BY <1>5, <1>8, <1>12 DEF m
  <2> QED BY <1>2, <1>6, <1>9, <1>12, <2>1, <2>2, <2>3 DEF Asked
<1>14. Replied(u)'
  BY <1>6, <1>9 DEF Replied, Answered, Nothing, Garbage
<1>15. Shows(u)'
  BY <1>5, <1>6, <1>9 DEF Shows, Answered
<1>16. Buffered(u)'
  <2>1. RecvSize <= RecvSize /\ 0 <= RecvSize /\ Len(<<>>) = 0 /\ 0 + 1 = 1
    BY SizeAssumption
  <2>2. proc'[u].pc # "reading" /\ Busy(u)'
    BY <1>5 DEF Busy
  <2>3. answer[u] \in Seq(Seq(Nat)) /\ alive[u] \in BOOLEAN
    BY <1>1 DEF ServerTypes
  <2>4. LaidOut(<<>>, answer[u], 1, 0, 0, alive[u])
    BY <2>3, NothingLaid
  <2>5. LaidOut(stream[u], answer[u], Len(shown[u]) + 1, sent[u], cnt[u].last, alive[u])
    BY <1>6, <2>1, <2>4, NoCntIs
  <2> QED BY <1>6, <1>9, <2>1, <2>2, <2>5, NoCntIs DEF Buffered
<1>17. \A v \in Users \ {u} : Same(v)
  BY <1>5, <1>8, <1>9 DEF Same
<1> QED BY <1>10, <1>11, <1>13, <1>14, <1>15, <1>16, <1>17 DEF Steps, UserInv

(* SendFails ends the process.                                              *)
LEMMA SendFailsSteps ==
  ASSUME CounterInv, NEW u \in Users, SendFails(u)
  PROVE  Steps(u)
BY ExitWithError DEF SendFails

(* RecvInvalid ends the process.                                            *)
LEMMA RecvInvalidSteps ==
  ASSUME CounterInv, NEW u \in Users, RecvInvalid(u)
  PROVE  Steps(u)
BY ExitWithError DEF RecvInvalid

(* A sequence without its front.                                            *)
LEMMA FrontCut ==
  ASSUME NEW s \in Seq(Nat), NEW last \in Nat, last <= Len(s)
  PROVE  /\ SubSeq(s, last + 1, Len(s)) \in Seq(Nat)
         /\ Len(SubSeq(s, last + 1, Len(s))) = Len(s) - last
<1>1. PICK x \in Nat : x = Len(s)
  OBVIOUS
<1>2. \A i \in (last + 1)..x : s[i] \in Nat
  <2> SUFFICES ASSUME NEW i \in (last + 1)..x PROVE s[i] \in Nat
    OBVIOUS
  <2>1. i \in 1..Len(s)
    BY <1>1
  <2> QED BY <2>1, ElementOfSeq
<1>3. /\ SubSeq(s, last + 1, x) \in Seq(Nat)
      /\ Len(SubSeq(s, last + 1, x)) = IF last + 1 <= x THEN x - (last + 1) + 1 ELSE 0
  BY <1>2, SubSeqProperties
<1>4. (IF last + 1 <= x THEN x - (last + 1) + 1 ELSE 0) = x - last
  BY <1>1
<1> QED BY <1>1, <1>3, <1>4

(* BeginRecv drops the last response, and the next is at the front.         *)
LEMMA BeginRecvSteps ==
  ASSUME CounterInv, NEW u \in Users, BeginRecv(u)
  PROVE  Steps(u)
<1>1. /\ ProcTypes /\ ServerTypes /\ StoreInv
      /\ Asked(u) /\ Replied(u) /\ Shows(u) /\ Buffered(u)
      /\ proc[u] \in Procs /\ cnt[u] \in Buffers
  BY UserFacts
<1>2. proc[u].pc = "calling" /\ ~cnt[u].invalid
  BY DEF BeginRecv
<1>3. PICK s \in Seq(Nat), ans \in Seq(Seq(Nat)), k \in Nat, n \in Nat, last \in Nat, used \in Nat,
           cap \in Nat, whole \in BOOLEAN :
        /\ s = stream[u] /\ ans = answer[u] /\ k = Len(shown[u]) + 1 /\ n = sent[u]
        /\ last = cnt[u].last /\ used = cnt[u].used /\ cap = cnt[u].capacity /\ whole = alive[u]
  <2>1. /\ stream[u] \in Seq(Nat) /\ answer[u] \in Seq(Seq(Nat)) /\ sent[u] \in Nat
        /\ alive[u] \in BOOLEAN /\ shown[u] \in Seq(Seq(Nat))
    BY UserFacts
  <2>2. cnt[u].last \in Nat /\ cnt[u].used \in Nat /\ cnt[u].capacity \in Nat
    BY <1>1 DEF Buffers
  <2>3. Len(shown[u]) + 1 \in Nat
    BY <2>1
  <2> QED BY <2>1, <2>2, <2>3
<1>4. /\ last <= used /\ used <= cap /\ used <= Len(s) /\ RecvSize <= cap
      /\ n <= Len(ans) /\ LaidOut(s, ans, k, n, last, whole)
  BY <1>1, <1>2, <1>3 DEF Buffered, Busy
<1>5. PICK t \in Seq(Nat) : /\ t = SubSeq(s, last + 1, Len(s)) /\ Len(t) = Len(s) - last
                            /\ LaidOut(t, ans, k, n, 0, whole)
  <2>1. last <= Len(s)
    BY <1>4
  <2>2. /\ SubSeq(s, last + 1, Len(s)) \in Seq(Nat)
        /\ Len(SubSeq(s, last + 1, Len(s))) = Len(s) - last
    BY <2>1, FrontCut
  <2>3. LaidOut(SubSeq(s, last + 1, Len(s)), ans, k, n, 0, whole)
    BY <1>4, <2>1, DroppedLaid
  <2> QED BY <2>2, <2>3
<1>6. /\ stream' \in [Users -> Seq(Nat)] /\ stream'[u] = t
      /\ \A v \in Users \ {u} : stream'[v] = stream[v]
  <2>1. stream' = [stream EXCEPT ![u] = t]
    BY <1>3, <1>5 DEF BeginRecv
  <2> QED BY <1>1, <2>1 DEF ProcTypes
<1>7. PICK left \in Nat : left = used - last
  BY <1>4
<1>8. /\ cnt' \in [Users -> Buffers] /\ cnt'[u].used = left /\ cnt'[u].last = 0
      /\ cnt'[u].capacity = cap /\ ~cnt'[u].invalid
      /\ \A v \in Users \ {u} : cnt'[v] = cnt[v]
  <2>1. PICK c : c = [cnt EXCEPT ![u].used = left]
    OBVIOUS
  <2>2. cnt' = [c EXCEPT ![u].last = 0]
    BY <1>3, <1>7, <2>1 DEF BeginRecv
  <2>3. /\ c \in [Users -> Buffers] /\ c[u].used = left /\ c[u].capacity = cnt[u].capacity
        /\ c[u].invalid = cnt[u].invalid /\ \A v \in Users \ {u} : c[v] = cnt[v]
    BY <1>1, <2>1 DEF Buffers, ProcTypes
  <2>4. /\ cnt' \in [Users -> Buffers] /\ cnt'[u].used = c[u].used /\ cnt'[u].last = 0
        /\ cnt'[u].capacity = c[u].capacity /\ cnt'[u].invalid = c[u].invalid
        /\ \A v \in Users \ {u} : cnt'[v] = c[v]
    <3>1. c \in [Users -> Buffers]
      BY <2>3
    <3> QED BY <2>2, <3>1 DEF Buffers
  <2> QED BY <1>2, <1>3, <2>3, <2>4
<1>9. /\ proc' \in [Users -> Procs] /\ proc'[u].pc = "reading"
      /\ proc'[u].n = proc[u].n /\ proc'[u].serial = proc[u].serial
      /\ \A v \in Users \ {u} : proc'[v] = proc[v]
  BY <1>1 DEF Procs, ProcTypes, BeginRecv
<1>10. UNCHANGED <<session, wire, answer, sent, alive, held, limit, shown, told>>
  BY DEF BeginRecv
<1>11. ProcTypes' /\ ServerTypes'
  BY <1>1, <1>6, <1>8, <1>9, <1>10 DEF ProcTypes, ServerTypes
<1>12. StoreInv'
  BY <1>1, <1>10, StoreSame
<1>13. Now(u)' = Now(u)
  BY <1>9, <1>10 DEF Now
<1>14. Asked(u)'
  BY <1>1, <1>2, <1>9, <1>10, <1>13 DEF Asked, Before
<1>15. Replied(u)'
  BY <1>1, <1>9, <1>10, <1>13 DEF Replied, Answered
<1>16. Shows(u)'
  BY <1>1, <1>2, <1>9, <1>10 DEF Shows, Answered, Busy
<1>17. Buffered(u)'
  <2>1. 0 <= left /\ left <= cap /\ left <= Len(t)
    BY <1>4, <1>5, <1>7
  <2>2. sent'[u] = n /\ answer'[u] = ans /\ Len(shown'[u]) + 1 = k /\ alive'[u] = whole
    BY <1>3, <1>10
  <2>3. Busy(u)'
    BY <1>9 DEF Busy
  <2> QED BY <1>4, <1>5, <1>6, <1>8, <2>1, <2>2, <2>3 DEF Buffered
<1>18. \A v \in Users \ {u} : Same(v)
  BY <1>6, <1>8, <1>9, <1>10 DEF Same
<1> QED BY <1>11, <1>12, <1>14, <1>15, <1>16, <1>17, <1>18 DEF Steps, UserInv

(* The doubled buffer has room for the bytes that arrive.                   *)
LEMMA RoomGrows ==
  ASSUME NEW x \in Nat, NEW c \in Nat, NEW r \in Nat, NEW k \in 1..r, x <= c, r <= c
  PROVE  LET g == IF c - x < r THEN 2 * c ELSE c IN x + k <= g /\ r <= g /\ g \in Nat
OBVIOUS

(* RecvData takes bytes from the stream, and the buffer has room for them.  *)
LEMMA RecvDataSteps ==
  ASSUME CounterInv, NEW u \in Users, RecvData(u)
  PROVE  Steps(u)
<1>1. /\ ProcTypes /\ ServerTypes /\ StoreInv
      /\ Asked(u) /\ Replied(u) /\ Shows(u) /\ Buffered(u)
      /\ proc[u] \in Procs /\ cnt[u] \in Buffers
  BY UserFacts
<1>2. PICK k \in 1..RecvSize :
        /\ cnt[u].used + k <= Len(stream[u])
        /\ cnt' = [cnt EXCEPT ![u].used = @ + k, ![u].capacity = Grown(u)]
  BY DEF RecvData
<1>3. PICK x \in Nat, c \in Nat : x = cnt[u].used /\ c = cnt[u].capacity /\ x <= c /\ RecvSize <= c
  <2>1. cnt[u].used \in Nat /\ cnt[u].capacity \in Nat
    BY <1>1 DEF Buffers
  <2> QED BY <1>1, <2>1 DEF Buffered
<1>4. PICK g \in Nat : g = Grown(u) /\ x + k <= g /\ RecvSize <= g
  <2>1. RecvSize \in Nat
    BY SizeAssumption
  <2>2. LET g == IF c - x < RecvSize THEN 2 * c ELSE c IN x + k <= g /\ RecvSize <= g /\ g \in Nat
    BY <1>3, <2>1, RoomGrows
  <2>3. Grown(u) = IF c - x < RecvSize THEN 2 * c ELSE c
    BY <1>3 DEF Grown
  <2> QED BY <2>2, <2>3
<1>5. PICK y \in Nat : y = x + k /\ 0 <= y
  <2>1. k \in Nat
    BY SizeAssumption
  <2> QED BY <2>1
<1>6. /\ cnt' \in [Users -> Buffers] /\ cnt'[u].used = y /\ cnt'[u].capacity = g
      /\ cnt'[u].last = cnt[u].last /\ cnt'[u].invalid = cnt[u].invalid
      /\ \A v \in Users \ {u} : cnt'[v] = cnt[v]
  <2>1. PICK d : d = [cnt EXCEPT ![u].used = y]
    OBVIOUS
  <2>2. cnt' = [d EXCEPT ![u].capacity = g]
    BY <1>2, <1>3, <1>4, <1>5, <2>1
  <2>3. /\ d \in [Users -> Buffers] /\ d[u].used = y /\ d[u].last = cnt[u].last
        /\ d[u].invalid = cnt[u].invalid /\ \A v \in Users \ {u} : d[v] = cnt[v]
    BY <1>1, <2>1 DEF Buffers, ProcTypes
  <2>4. /\ cnt' \in [Users -> Buffers] /\ cnt'[u].used = d[u].used /\ cnt'[u].last = d[u].last
        /\ cnt'[u].capacity = g /\ cnt'[u].invalid = d[u].invalid
        /\ \A v \in Users \ {u} : cnt'[v] = d[v]
    <3>1. d \in [Users -> Buffers]
      BY <2>3
    <3> QED BY <2>2, <3>1 DEF Buffers
  <2> QED BY <2>3, <2>4
<1>7. UNCHANGED <<session, proc, wire, answer, sent, stream, alive, held, limit, shown, told>>
      /\ proc[u].pc = "reading"
  BY DEF RecvData
<1>8. ProcTypes' /\ ServerTypes'
  BY <1>1, <1>6, <1>7 DEF ProcTypes, ServerTypes
<1>9. StoreInv'
  BY <1>1, <1>7, StoreSame
<1>10. Asked(u)' /\ Replied(u)' /\ Shows(u)'
  BY <1>1, <1>7 DEF Asked, Replied, Shows, Before, Busy, Answered, Now
<1>11. Buffered(u)'
  <2>1. /\ cnt[u].last = 0 /\ ~cnt[u].invalid /\ Busy(u) /\ sent[u] <= Len(answer[u])
        /\ LaidOut(stream[u], answer[u], Len(shown[u]) + 1, sent[u], cnt[u].last, alive[u])
    BY <1>1, <1>7 DEF Buffered, Busy
  <2>2. y <= Len(stream[u]) /\ y <= g
    BY <1>2, <1>3, <1>4, <1>5
  <2>3. Busy(u)'
    BY <1>7 DEF Busy
  <2> QED BY <1>4, <1>5, <1>6, <1>7, <2>1, <2>2, <2>3 DEF Buffered
<1>12. \A v \in Users \ {u} : Same(v)
  BY <1>6, <1>7 DEF Same
<1> QED BY <1>8, <1>9, <1>10, <1>11, <1>12 DEF Steps, UserInv

(* RecvDataFails changes nothing, or ends the process.                      *)
LEMMA RecvDataFailsSteps ==
  ASSUME CounterInv, NEW u \in Users, RecvDataFails(u)
  PROVE  Steps(u)
<1>1. /\ ProcTypes /\ ServerTypes /\ StoreInv
      /\ Asked(u) /\ Replied(u) /\ Shows(u) /\ Buffered(u) /\ proc[u] \in Procs
  BY UserFacts
<1>2. CASE Exits(u, 1)
  BY <1>2, ExitWithError DEF RecvDataFails
<1>3. CASE /\ proc[u].retries > 0
           /\ proc' = [proc EXCEPT ![u].pc = "calling", ![u].retries = @ - 1]
           /\ UNCHANGED <<cnt, stream>>
  <2>1. PICK r \in Nat : r = proc[u].retries - 1
    BY <1>1, <1>3 DEF Procs
  <2>2. /\ proc' \in [Users -> Procs] /\ proc'[u].pc = "calling"
        /\ proc'[u].n = proc[u].n /\ proc'[u].serial = proc[u].serial
        /\ \A v \in Users \ {u} : proc'[v] = proc[v]
    <3>1. PICK q : q = [proc EXCEPT ![u].pc = "calling"]
      OBVIOUS
    <3>2. proc' = [q EXCEPT ![u].retries = r]
      BY <1>3, <2>1, <3>1
    <3>3. /\ q \in [Users -> Procs] /\ q[u].pc = "calling"
          /\ q[u].n = proc[u].n /\ q[u].serial = proc[u].serial
          /\ \A v \in Users \ {u} : q[v] = proc[v]
      BY <1>1, <3>1 DEF Procs, ProcTypes
    <3>4. /\ proc' \in [Users -> Procs] /\ proc'[u].pc = q[u].pc
          /\ proc'[u].n = q[u].n /\ proc'[u].serial = q[u].serial
          /\ \A v \in Users \ {u} : proc'[v] = q[v]
      <4>1. q \in [Users -> Procs]
        BY <3>3
      <4> QED BY <3>2, <4>1 DEF Procs
    <3> QED BY <3>3, <3>4
  <2>3. UNCHANGED <<session, cnt, wire, answer, sent, stream, alive, held, limit, shown, told>>
        /\ proc[u].pc = "reading"
    BY <1>3 DEF RecvDataFails
  <2>4. ProcTypes' /\ ServerTypes'
    BY <1>1, <2>2, <2>3 DEF ProcTypes, ServerTypes
  <2>5. StoreInv'
    BY <1>1, <2>3, StoreSame
  <2>6. Now(u)' = Now(u)
    BY <2>2, <2>3 DEF Now
  <2>7. Asked(u)'
    BY <1>1, <2>2, <2>3, <2>6 DEF Asked, Before
  <2>8. Replied(u)'
    BY <1>1, <2>2, <2>3, <2>6 DEF Replied, Answered
  <2>9. Shows(u)'
    BY <1>1, <2>2, <2>3 DEF Shows, Answered, Busy
  <2>10. Buffered(u)'
    BY <1>1, <2>2, <2>3 DEF Buffered, Busy
  <2>11. \A v \in Users \ {u} : Same(v)
    BY <2>2, <2>3 DEF Same
  <2> QED BY <2>4, <2>5, <2>7, <2>8, <2>9, <2>10, <2>11 DEF Steps, UserInv
<1> QED BY <1>2, <1>3 DEF RecvDataFails

-----------------------------------------------------------------------------
(* The front of the stream is a frame as far as it goes: its header, and its  *)
(* body once that is there.                                                 *)
LEMMA HeaderRead ==
  ASSUME NEW s \in Seq(Nat), NEW f \in Seq(Nat), Len(s) >= Header, Len(f) >= Header,
         \A i \in 1..Len(f) : i <= Len(s) => s[i] = f[i]
  PROVE  s[1] = f[1] /\ s[2] = f[2] /\ s[3] = f[3] /\ s[4] = f[4] /\ s[5] = f[5] /\ s[4] \in Nat
<1>1. /\ 1 \in 1..Len(f) /\ 2 \in 1..Len(f) /\ 3 \in 1..Len(f) /\ 4 \in 1..Len(f) /\ 5 \in 1..Len(f)
      /\ 1 <= Len(s) /\ 2 <= Len(s) /\ 3 <= Len(s) /\ 4 <= Len(s) /\ 5 <= Len(s)
  BY DEF Header
<1>2. f[4] \in Nat
  BY <1>1, ElementOfSeq
<1> QED BY <1>1, <1>2

(* The bytes behind the header are the body of the frame.                   *)
LEMMA BodyRead ==
  ASSUME NEW s \in Seq(Nat), NEW f \in Seq(Nat), NEW n \in Nat, Len(f) = Header + n,
         Header + n <= Len(s), \A i \in 1..Len(f) : i <= Len(s) => s[i] = f[i]
  PROVE  SubSeq(s, Header + 1, Header + n) = Body(f)
<1>1. PICK b \in Seq(Nat) : b = Body(f) /\ Len(b) = n /\ \A i \in 1..n : b[i] = f[Header + i]
  <2>1. /\ Body(f) \in Seq(Nat) /\ Len(Body(f)) = n
        /\ \A i \in 1..n : Body(f)[i] = f[Header + i]
    BY BodyIs
  <2> QED BY <2>1
<1>2. \A i \in 6..(5 + n) : s[i] \in Nat
  <2>1. PICK x \in Nat : x = Len(s) /\ 5 + n <= x
    BY DEF Header
  <2> SUFFICES ASSUME NEW i \in 6..(5 + n) PROVE s[i] \in Nat
    OBVIOUS
  <2>2. i \in 1..x
    BY <2>1
  <2> QED BY <2>1, <2>2, ElementOfSeq
<1>3. /\ SubSeq(s, 6, 5 + n) \in Seq(Nat)
      /\ Len(SubSeq(s, 6, 5 + n)) = IF 6 <= 5 + n THEN 5 + n - 6 + 1 ELSE 0
      /\ \A i \in 1..(5 + n - 6 + 1) : SubSeq(s, 6, 5 + n)[i] = s[6 + i - 1]
  BY <1>2, SubSeqProperties
<1>4. PICK c \in Seq(Nat) : c = SubSeq(s, 6, 5 + n)
  BY <1>3
<1>5. Len(c) = n
  <2>1. (IF 6 <= 5 + n THEN 5 + n - 6 + 1 ELSE 0) = n
    OBVIOUS
  <2> QED BY <1>3, <1>4, <2>1
<1>6. \A i \in 1..n : c[i] = b[i]
  <2> SUFFICES ASSUME NEW i \in 1..n PROVE c[i] = b[i]
    OBVIOUS
  <2>1. i \in 1..(5 + n - 6 + 1) /\ 6 + i - 1 = 5 + i
    OBVIOUS
  <2>2. c[i] = s[5 + i]
    BY <1>3, <1>4, <2>1
  <2>3. 5 + i \in 1..Len(f) /\ 5 + i <= Len(s)
    BY DEF Header
  <2>4. s[5 + i] = f[5 + i]
    BY <2>3
  <2>5. b[i] = f[5 + i]
    BY <1>1 DEF Header
  <2> QED BY <2>2, <2>4, <2>5
<1>7. c = b
  BY <1>1, <1>5, <1>6, SeqEqual
<1>8. Header + 1 = 6 /\ Header + n = 5 + n
  BY DEF Header
<1> QED BY <1>1, <1>4, <1>7, <1>8

(* What Received makes of it.                                                *)
Arrived(u) == SubSeq(stream[u], Header + 1, Header + BodyLength(u))
Got(u)     == Parsed(Field(u, 2), Arrived(u))
Fine(u)    == ~WrongMagic(u) /\ (Field(u, 3) # STATUS.OK \/ Got(u).ok)

(* The response read is the next one of the answer.                           *)
ReadsNext(u, k) ==
  /\ Fine(u) /\ Own(u) /\ Field(u, 3) = told[u].status /\ BodyLength(u) \in Nat
  /\ Command(Now(u)) # BadArgument /\ Field(u, 2) = Command(Now(u)).cmd
  /\ Header + BodyLength(u) <= cnt[u].used
  /\ told[u].status = STATUS.OK =>
       /\ Got(u) = [ok |-> TRUE, out |-> told[u].out[k]]
       /\ k < Len(answer[u]) <=> GoesOn(u, Arrived(u))
  /\ LaidOut(stream[u], answer[u], k + 1, sent[u], Header + BodyLength(u), alive[u])

(* A response that is read is garbled, or the next one of the answer.       *)
LEMMA ReceivedIs ==
  ASSUME CounterInv, NEW u \in Users, proc[u].pc = "reading", ~NeedsData(u),
         NEW k \in Nat, k = Len(shown[u]) + 1
  PROVE  /\ k \in 1..Len(answer[u])
         /\ ~WrongMagic(u) => BodyLength(u) \in Nat /\ Header + BodyLength(u) <= cnt[u].used
         /\ \/ told[u].status = Garbage /\ ~Fine(u)
            \/ Answered(u) /\ ReadsNext(u, k)
<1>1. /\ Asked(u) /\ Replied(u) /\ Shows(u) /\ Buffered(u) /\ proc[u] \in Procs /\ cnt[u] \in Buffers
  BY UserFacts
<1>2. PICK s \in Seq(Nat), ans \in Seq(Seq(Nat)), n \in Nat, used \in Nat, whole \in BOOLEAN :
        s = stream[u] /\ ans = answer[u] /\ n = sent[u] /\ used = cnt[u].used /\ whole = alive[u]
  <2>1. /\ stream[u] \in Seq(Nat) /\ answer[u] \in Seq(Seq(Nat)) /\ sent[u] \in Nat /\ alive[u] \in BOOLEAN
    BY UserFacts
  <2>2. cnt[u].used \in Nat
    BY <1>1 DEF Buffers
  <2> QED BY <2>1, <2>2
<1>3. /\ used <= Len(s) /\ LaidOut(s, ans, k, n, 0, whole)
  BY <1>1, <1>2 DEF Buffered, Busy
<1>4. used >= Header /\ (WrongMagic(u) \/ ~(used < Header + BodyLength(u)))
  BY <1>2 DEF NeedsData
<1>5. Len(s) >= Header /\ Len(s) >= 1
  BY <1>3, <1>4 DEF Header
<1>6. /\ k \in 1..n /\ k \in 1..Len(ans)
      /\ \A i \in 1..Len(ans[k]) : i <= Len(s) => s[i] = ans[k][i]
      /\ LaidOut(s, ans, k + 1, n, Len(ans[k]), whole)
  BY <1>3, <1>5, FrontLaid
<1>7. PICK f \in Seq(Nat) : f = ans[k]
  BY <1>6, ElementOfSeq
<1>8. told[u].status # Nothing
  <2>1. ans # <<>>
    BY <1>6
  <2> QED BY <1>1, <1>2, <2>1 DEF Replied
<1>9. CASE told[u].status = Garbage
  <2>1. k = 1
    <3>1. shown[u] = <<>>
      BY <1>1, <1>9 DEF Shows, Answered
    <3> QED BY <3>1
  <2>2. Spoilt(f)
    BY <1>1, <1>2, <1>7, <1>9, <2>1 DEF Replied
  <2>3. Len(f) >= Header
    BY <2>2 DEF Spoilt
  <2>4. s[1] = f[1] /\ s[2] = f[2] /\ s[3] = f[3] /\ s[4] = f[4] /\ s[5] = f[5] /\ s[4] \in Nat
    BY <1>5, <1>6, <1>7, <2>3, HeaderRead
  <2>5. PICK m \in Nat : m = s[4] /\ m = BodyLength(u)
    BY <1>2, <2>4 DEF BodyLength, Field
  <2>6. CASE WrongMagic(u)
    BY <1>2, <1>6, <1>9, <2>6 DEF Fine
  <2>7. CASE ~WrongMagic(u)
    <3>1. Header + m <= used /\ Header + m <= Len(s)
      BY <1>3, <1>4, <2>5, <2>7 DEF Header
    <3>2. s[1] = Magic
      BY <1>2, <2>7 DEF WrongMagic, Field
    <3>3. Len(f) = Header + m /\ f[3] = STATUS.OK /\ ~Parsed(f[2], Body(f)).ok
      BY <2>2, <2>4, <2>5, <3>2 DEF Spoilt
    <3>4. SubSeq(s, Header + 1, Header + m) = Body(f)
      BY <1>6, <1>7, <3>1, <3>3, BodyRead
    <3>5. Arrived(u) = Body(f)
      BY <1>2, <2>5, <3>4 DEF Arrived
    <3>6. Field(u, 2) = f[2] /\ Field(u, 3) = STATUS.OK
      BY <1>2, <2>4, <3>3 DEF Field
    <3>7. ~Fine(u)
      BY <3>3, <3>5, <3>6 DEF Fine, Got
    <3> QED BY <1>2, <1>6, <1>9, <2>5, <3>1, <3>7
  <2> QED BY <2>6, <2>7
<1>10. CASE told[u].status # Garbage
  <2>1. Answered(u)
    BY <1>8, <1>10 DEF Answered
  <2>2. Command(Now(u)) # BadArgument
        /\ Fits(ans, proc[u].serial, Command(Now(u)).cmd, told[u].status, told[u].out)
    BY <1>1, <1>2, <2>1 DEF Replied
  <2>3. Good(f, proc[u].serial, Command(Now(u)).cmd, told[u].status)
    BY <1>6, <1>7, <2>2 DEF Fits
  <2>4. Len(f) >= Header /\ Len(f) = Header + f[4]
    BY <2>3 DEF Good
  <2>5. s[1] = f[1] /\ s[2] = f[2] /\ s[3] = f[3] /\ s[4] = f[4] /\ s[5] = f[5] /\ s[4] \in Nat
    BY <1>5, <1>6, <1>7, <2>4, HeaderRead
  <2>6. PICK m \in Nat : m = s[4] /\ m = BodyLength(u)
    BY <1>2, <2>5 DEF BodyLength, Field
  <2>7. /\ Field(u, 1) = Magic /\ Field(u, 2) = Command(Now(u)).cmd
        /\ Field(u, 3) = told[u].status /\ Field(u, 5) = proc[u].serial
    BY <1>2, <2>3, <2>5 DEF Good, Field
  <2>8. ~WrongMagic(u) /\ Own(u)
    BY <2>7 DEF WrongMagic, Own
  <2>9. Header + m <= used /\ Header + m <= Len(s) /\ Len(f) = Header + m
    <3>1. ~(used < Header + m)
      BY <1>4, <2>6, <2>8
    <3>2. Header + m <= used /\ Header + m <= Len(s)
      BY <1>3, <3>1 DEF Header
    <3> QED BY <2>4, <2>5, <2>6, <3>2
  <2>10. SubSeq(s, Header + 1, Header + m) = Body(f)
    BY <1>6, <1>7, <2>9, BodyRead
  <2>11. Arrived(u) = Body(f)
    BY <1>2, <2>6, <2>10 DEF Arrived
  <2>12. LaidOut(s, ans, k + 1, n, Header + m, whole)
    BY <1>6, <1>7, <2>9
  <2>13. ASSUME told[u].status = STATUS.OK
         PROVE  /\ Got(u) = [ok |-> TRUE, out |-> told[u].out[k]]
                /\ k < Len(ans) <=> GoesOn(u, Arrived(u))
    <3>1. /\ Parsed(Command(Now(u)).cmd, Body(ans[k])) = [ok |-> TRUE, out |-> told[u].out[k]]
          /\ k < Len(ans) <=> (Command(Now(u)).cmd = CMD.dump /\ Body(ans[k]) # <<>>)
      BY <1>6, <2>2, <2>13 DEF Fits
    <3>2. Now(u) \in Invocation
      BY NowIs
    <3>3. Command(Now(u)).cmd = CMD.dump <=> Now(u).cmd = "dump"
      BY <2>2, <3>2, CommandTyped
    <3>4. Got(u) = [ok |-> TRUE, out |-> told[u].out[k]]
      BY <1>7, <2>7, <2>11, <3>1 DEF Got
    <3>5. k < Len(ans) <=> GoesOn(u, Arrived(u))
      BY <1>7, <2>7, <2>11, <2>13, <3>1, <3>3 DEF GoesOn
    <3> QED BY <3>4, <3>5
  <2>14. Fine(u)
    <3>1. CASE told[u].status = STATUS.OK
      BY <2>8, <2>13, <3>1 DEF Fine
    <3>2. CASE told[u].status # STATUS.OK
      BY <2>7, <2>8, <3>2 DEF Fine
    <3> QED BY <3>1, <3>2
  <2>15. ReadsNext(u, k)
    BY <1>2, <2>2, <2>6, <2>7, <2>8, <2>9, <2>12, <2>13, <2>14 DEF ReadsNext
  <2> QED BY <1>2, <1>6, <2>1, <2>6, <2>9, <2>15
<1> QED BY <1>9, <1>10

(* The buffer keeps the response until the next call.                         *)
Keeps(u) ==
  cnt' = [cnt EXCEPT ![u].invalid = ~Fine(u),
                     ![u].last = IF WrongMagic(u) THEN @ ELSE Header + BodyLength(u)]

(* What keeping it changes.                                                 *)
LEMMA KeepsIs ==
  ASSUME CounterInv, NEW u \in Users, Keeps(u), ~WrongMagic(u) => BodyLength(u) \in Nat
  PROVE  /\ cnt' \in [Users -> Buffers] /\ cnt'[u].invalid = ~Fine(u)
         /\ cnt'[u].used = cnt[u].used /\ cnt'[u].capacity = cnt[u].capacity
         /\ cnt'[u].last = (IF WrongMagic(u) THEN cnt[u].last ELSE Header + BodyLength(u))
         /\ \A v \in Users \ {u} : cnt'[v] = cnt[v]
<1>1. cnt \in [Users -> Buffers] /\ cnt[u] \in Buffers
  BY DEF CounterInv, ProcTypes
<1>2. PICK l \in Nat : l = IF WrongMagic(u) THEN cnt[u].last ELSE Header + BodyLength(u)
  <2>1. cnt[u].last \in Nat
    BY <1>1 DEF Buffers
  <2>2. ~WrongMagic(u) => Header + BodyLength(u) \in Nat
    BY DEF Header
  <2> QED BY <2>1, <2>2
<1>3. PICK i \in BOOLEAN : i = ~Fine(u)
  BY DEF Fine
<1>4. PICK c : c = [cnt EXCEPT ![u].invalid = i]
  OBVIOUS
<1>5. /\ c \in [Users -> Buffers] /\ c[u].invalid = i /\ c[u].used = cnt[u].used
      /\ c[u].capacity = cnt[u].capacity /\ c[u].last = cnt[u].last
      /\ \A v \in Users \ {u} : c[v] = cnt[v]
  BY <1>1, <1>4 DEF Buffers
<1>6. cnt' = [c EXCEPT ![u].last = l]
  <2>1. cnt' = [[cnt EXCEPT ![u].invalid = i] EXCEPT
                  ![u].last = IF WrongMagic(u) THEN @ ELSE Header + BodyLength(u)]
    BY <1>3 DEF Keeps
  <2>2. cnt' = [c EXCEPT ![u].last = IF WrongMagic(u) THEN @ ELSE Header + BodyLength(u)]
    BY <1>4, <2>1
  <2>3. (IF WrongMagic(u) THEN c[u].last ELSE Header + BodyLength(u)) = l
    BY <1>2, <1>5
  <2> HIDE DEF WrongMagic, BodyLength
  <2> QED BY <1>5, <2>2, <2>3
<1>7. /\ cnt' \in [Users -> Buffers] /\ cnt'[u].invalid = c[u].invalid
      /\ cnt'[u].used = c[u].used /\ cnt'[u].capacity = c[u].capacity
      /\ cnt'[u].last = l /\ \A v \in Users \ {u} : cnt'[v] = c[v]
  <2>1. c \in [Users -> Buffers]
    BY <1>5
  <2> QED BY <1>6, <2>1 DEF Buffers
<1> QED BY <1>2, <1>3, <1>5, <1>7

(* The process calls yrmcds_cnt_recv again.                                 *)
LEMMA CallingIs ==
  ASSUME CounterInv, NEW u \in Users, proc' = [proc EXCEPT ![u].pc = "calling"]
  PROVE  /\ proc' \in [Users -> Procs] /\ proc'[u].pc = "calling"
         /\ proc'[u].n = proc[u].n /\ proc'[u].serial = proc[u].serial
         /\ \A v \in Users \ {u} : proc'[v] = proc[v]
<1>1. proc \in [Users -> Procs] /\ proc[u] \in Procs
  BY DEF CounterInv, ProcTypes
<1> QED BY <1>1 DEF Procs

(* The response at the front is no answer, and the program calls again.       *)
LEMMA InvalidSteps ==
  ASSUME CounterInv, NEW u \in Users, proc[u].pc = "reading", ~NeedsData(u), ~Fine(u), Keeps(u),
         proc' = [proc EXCEPT ![u].pc = "calling"],
         UNCHANGED <<session, wire, answer, sent, stream, alive, held, limit, shown, told>>
  PROVE  Steps(u)
<1>1. /\ ProcTypes /\ ServerTypes /\ StoreInv
      /\ Asked(u) /\ Replied(u) /\ Shows(u) /\ Buffered(u) /\ shown[u] \in Seq(Seq(Nat))
      /\ cnt[u] \in Buffers
  BY UserFacts
<1>2. PICK k \in Nat : k = Len(shown[u]) + 1
  <2>1. Len(shown[u]) + 1 \in Nat
    BY <1>1
  <2> QED BY <2>1
<1>3. /\ ~WrongMagic(u) => BodyLength(u) \in Nat /\ Header + BodyLength(u) <= cnt[u].used
      /\ told[u].status = Garbage
  BY <1>2, ReceivedIs DEF ReadsNext
<1>4. /\ cnt' \in [Users -> Buffers] /\ cnt'[u].invalid
      /\ cnt'[u].used = cnt[u].used /\ cnt'[u].capacity = cnt[u].capacity
      /\ cnt'[u].last = (IF WrongMagic(u) THEN cnt[u].last ELSE Header + BodyLength(u))
      /\ \A v \in Users \ {u} : cnt'[v] = cnt[v]
  BY <1>3, KeepsIs
<1>5. /\ proc' \in [Users -> Procs] /\ proc'[u].pc = "calling"
      /\ proc'[u].n = proc[u].n /\ proc'[u].serial = proc[u].serial
      /\ \A v \in Users \ {u} : proc'[v] = proc[v]
  BY CallingIs
<1>6. ProcTypes' /\ ServerTypes'
  BY <1>1, <1>4, <1>5 DEF ProcTypes, ServerTypes
<1>7. StoreInv'
  BY <1>1, StoreSame
<1>8. Now(u)' = Now(u)
  BY <1>5 DEF Now
<1>9. Asked(u)'
  BY <1>1, <1>5, <1>8 DEF Asked, Before
<1>10. Replied(u)'
  BY <1>1, <1>5, <1>8 DEF Replied, Answered
<1>11. Shows(u)'
  BY <1>1, <1>5 DEF Shows, Answered, Busy
<1>12. Buffered(u)'
  <2>1. cnt'[u].last <= cnt'[u].used
    <3>1. cnt[u].last <= cnt[u].used
      BY <1>1 DEF Buffered
    <3> HIDE DEF WrongMagic, BodyLength
    <3> QED BY <1>3, <1>4, <3>1
  <2>2. Busy(u)' /\ proc'[u].pc # "reading"
    BY <1>5 DEF Busy
  <2> QED BY <1>1, <1>3, <1>4, <2>1, <2>2 DEF Buffered
<1>13. \A v \in Users \ {u} : Same(v)
  BY <1>4, <1>5 DEF Same
<1> QED BY <1>6, <1>7, <1>9, <1>10, <1>11, <1>12, <1>13 DEF Steps, UserInv

(* There is no memory for the statistics at the front.                       *)
LEMMA AppendStatFailsSteps ==
  ASSUME CounterInv, NEW u \in Users, AppendStatFails(u)
  PROVE  Steps(u)
<1>1. /\ ProcTypes /\ ServerTypes /\ StoreInv
      /\ Asked(u) /\ Replied(u) /\ Shows(u) /\ Buffered(u) /\ shown[u] \in Seq(Seq(Nat))
      /\ cnt[u] \in Buffers
  BY UserFacts
<1>2. /\ proc[u].pc = "reading" /\ ~NeedsData(u) /\ ~WrongMagic(u) /\ Field(u, 2) = CMD.stats
      /\ parse_statistics(Arrived(u)).ok /\ Field(u, 3) = STATUS.OK
      /\ UNCHANGED <<session, wire, answer, sent, alive, held, limit, shown, told>>
  BY DEF AppendStatFails, Arrived
<1>3. Fine(u)
  <2>1. Got(u) = parse_statistics(Arrived(u))
    BY <1>2 DEF Got, Parsed, CMD
  <2> QED BY <1>2, <2>1 DEF Fine
<1>4. PICK k \in Nat : k = Len(shown[u]) + 1
  <2>1. Len(shown[u]) + 1 \in Nat
    BY <1>1
  <2> QED BY <2>1
<1>5. ReadsNext(u, k)
  BY <1>2, <1>3, <1>4, ReceivedIs
<1>6. Now(u).cmd = "stats" /\ told[u].status = STATUS.OK
  <2>1. Now(u) \in Invocation
    BY <1>1, <1>2, NowIs
  <2>2. Command(Now(u)) # BadArgument /\ Command(Now(u)).cmd = CMD.stats
    BY <1>2, <1>5 DEF ReadsNext
  <2>3. told[u].status = STATUS.OK
    BY <1>2, <1>5 DEF ReadsNext
  <2> QED BY <2>1, <2>2, <2>3, StatsAsked
<1>7. CASE Exits(u, 1)
  BY <1>2, <1>7, ExitWithError
<1>8. CASE /\ cnt' = [cnt EXCEPT ![u].invalid = TRUE, ![u].nomem = TRUE,
                                ![u].last = Header + BodyLength(u)]
           /\ proc' = [proc EXCEPT ![u].pc = "calling"]
           /\ UNCHANGED stream
  <2>1. PICK l \in Nat : l = Header + BodyLength(u) /\ l <= cnt[u].used
    BY <1>5 DEF ReadsNext, Header
  <2>2. /\ cnt' \in [Users -> Buffers] /\ cnt'[u].invalid /\ cnt'[u].nomem
        /\ cnt'[u].used = cnt[u].used /\ cnt'[u].capacity = cnt[u].capacity /\ cnt'[u].last = l
        /\ \A v \in Users \ {u} : cnt'[v] = cnt[v]
    <3>1. PICK c : c = [cnt EXCEPT ![u].invalid = TRUE]
      OBVIOUS
    <3>2. PICK d : d = [c EXCEPT ![u].nomem = TRUE]
      OBVIOUS
    <3>3. cnt' = [d EXCEPT ![u].last = l]
      BY <1>8, <2>1, <3>1, <3>2
    <3>4. /\ c \in [Users -> Buffers] /\ c[u].invalid /\ c[u].used = cnt[u].used
          /\ c[u].capacity = cnt[u].capacity /\ \A v \in Users \ {u} : c[v] = cnt[v]
      BY <1>1, <3>1 DEF Buffers, ProcTypes
    <3>5. /\ d \in [Users -> Buffers] /\ d[u].invalid = c[u].invalid /\ d[u].nomem
          /\ d[u].used = c[u].used /\ d[u].capacity = c[u].capacity
          /\ \A v \in Users \ {u} : d[v] = c[v]
      <4>1. c \in [Users -> Buffers]
        BY <3>4
      <4> QED BY <3>2, <4>1 DEF Buffers
    <3>6. /\ cnt' \in [Users -> Buffers] /\ cnt'[u].invalid = d[u].invalid
          /\ cnt'[u].nomem = d[u].nomem /\ cnt'[u].used = d[u].used
          /\ cnt'[u].capacity = d[u].capacity /\ cnt'[u].last = l
          /\ \A v \in Users \ {u} : cnt'[v] = d[v]
      <4>1. d \in [Users -> Buffers]
        BY <3>5
      <4> QED BY <3>3, <4>1 DEF Buffers
    <3> QED BY <3>4, <3>5, <3>6
  <2>3. /\ proc' \in [Users -> Procs] /\ proc'[u].pc = "calling"
        /\ proc'[u].n = proc[u].n /\ proc'[u].serial = proc[u].serial
        /\ \A v \in Users \ {u} : proc'[v] = proc[v]
    BY <1>8, CallingIs
  <2>4. ProcTypes' /\ ServerTypes'
    BY <1>1, <1>2, <1>8, <2>2, <2>3 DEF ProcTypes, ServerTypes
  <2>5. StoreInv'
    BY <1>1, <1>2, StoreSame
  <2>6. Now(u)' = Now(u)
    BY <1>2, <2>3 DEF Now
  <2>7. Asked(u)'
    BY <1>1, <1>2, <2>3, <2>6 DEF Asked, Before
  <2>8. Replied(u)'
    BY <1>1, <1>2, <2>3, <2>6 DEF Replied, Answered
  <2>9. Shows(u)'
    BY <1>1, <1>2, <2>3 DEF Shows, Answered, Busy
  <2>10. Buffered(u)'
    <3>1. Busy(u)' /\ proc'[u].pc # "reading"
      BY <2>3 DEF Busy
    <3> QED BY <1>1, <1>2, <1>6, <1>8, <2>1, <2>2, <2>6, <3>1 DEF Buffered
  <2>11. \A v \in Users \ {u} : Same(v)
    BY <1>2, <1>8, <2>2, <2>3 DEF Same
  <2> QED BY <2>4, <2>5, <2>7, <2>8, <2>9, <2>10, <2>11 DEF Steps, UserInv
<1> QED BY <1>7, <1>8 DEF AppendStatFails

(* What is printed grows by the next part of the answer.                    *)
LEMMA Grows ==
  ASSUME NEW S, NEW s \in Seq(S), NEW out, NEW k \in Nat, k = Len(s) + 1, out[k] \in S,
         \A n \in 1..Len(s) : s[n] = out[n]
  PROVE  /\ Append(s, out[k]) \in Seq(S) /\ Len(Append(s, out[k])) = k
         /\ \A n \in 1..k : Append(s, out[k])[n] = out[n]
<1>1. PICK m \in Nat : m = Len(s) /\ k = m + 1
  OBVIOUS
<1>2. PICK t : t = Append(s, out[k])
  OBVIOUS
<1>3. t \in Seq(S) /\ Len(t) = m + 1 /\ t[m + 1] = out[k] /\ \A n \in 1..m : t[n] = s[n]
  BY <1>1, <1>2, Appended
<1>4. ASSUME NEW n \in 1..k PROVE t[n] = out[n]
  <2>1. n = m + 1 \/ n \in 1..m
    BY <1>1
  <2>2. CASE n = m + 1
    BY <1>1, <1>3, <2>2
  <2>3. CASE n \in 1..m
    BY <1>1, <1>3, <2>3
  <2> QED BY <2>1, <2>2, <2>3
<1> QED BY <1>1, <1>2, <1>3, <1>4

(* A record of a dump, and there are more.                                   *)
LEMMA RecordSteps ==
  ASSUME CounterInv, NEW u \in Users, proc[u].pc = "reading", ~NeedsData(u), Fine(u), Keeps(u),
         ~Own(u) \/ GoesOn(u, Arrived(u)),
         proc' = [proc EXCEPT ![u].pc = "calling"],
         shown' = [shown EXCEPT ![u] = IF Own(u) THEN Append(@, Got(u).out) ELSE @],
         UNCHANGED <<session, wire, answer, sent, stream, alive, held, limit, told>>
  PROVE  Steps(u)
<1>1. /\ ProcTypes /\ ServerTypes /\ StoreInv
      /\ Asked(u) /\ Replied(u) /\ Shows(u) /\ Buffered(u) /\ shown[u] \in Seq(Seq(Nat))
      /\ cnt[u] \in Buffers /\ told[u] \in Reports
  BY UserFacts
<1>2. PICK k \in Nat : k = Len(shown[u]) + 1
  <2>1. Len(shown[u]) + 1 \in Nat
    BY <1>1
  <2> QED BY <2>1
<1>3. k \in 1..Len(answer[u]) /\ Answered(u) /\ ReadsNext(u, k)
  BY <1>2, ReceivedIs
<1>4. Own(u) /\ GoesOn(u, Arrived(u)) /\ told[u].status = STATUS.OK /\ ~WrongMagic(u)
  BY <1>3 DEF ReadsNext, GoesOn, Fine
<1>5. k < Len(answer[u]) /\ Got(u).out = told[u].out[k]
  BY <1>3, <1>4 DEF ReadsNext
<1>6. /\ cnt' \in [Users -> Buffers] /\ ~cnt'[u].invalid
      /\ cnt'[u].used = cnt[u].used /\ cnt'[u].capacity = cnt[u].capacity
      /\ cnt'[u].last = Header + BodyLength(u)
      /\ \A v \in Users \ {u} : cnt'[v] = cnt[v]
  BY <1>3, <1>4, KeepsIs DEF ReadsNext
<1>7. /\ proc' \in [Users -> Procs] /\ proc'[u].pc = "calling"
      /\ proc'[u].n = proc[u].n /\ proc'[u].serial = proc[u].serial
      /\ \A v \in Users \ {u} : proc'[v] = proc[v]
  BY CallingIs
<1>8. PICK t \in Seq(Seq(Nat)) : /\ t = Append(shown[u], Got(u).out) /\ Len(t) = k
                                 /\ \A n \in 1..k : t[n] = told[u].out[n]
  <2>1. PICK s \in Seq(Seq(Nat)), out \in Seq(Seq(Nat)) : s = shown[u] /\ out = told[u].out
    BY <1>1 DEF Reports
  <2>2. Len(out) = Len(answer[u])
    BY <1>1, <1>3, <2>1 DEF Replied, Fits
  <2>3. out[k] \in Seq(Nat)
    BY <1>3, <2>2, ElementOfSeq
  <2>4. k = Len(s) + 1
    BY <1>2, <2>1
  <2>5. \A n \in 1..Len(s) : s[n] = out[n]
    BY <1>1, <1>3, <2>1 DEF Shows, Busy
  <2>6. /\ Append(s, out[k]) \in Seq(Seq(Nat)) /\ Len(Append(s, out[k])) = k
        /\ \A n \in 1..k : Append(s, out[k])[n] = out[n]
    BY <2>3, <2>4, <2>5, Grows
  <2> QED BY <1>5, <2>1, <2>6
<1>9. shown' \in [Users -> Seq(Seq(Nat))] /\ shown'[u] = t /\ \A v \in Users \ {u} : shown'[v] = shown[v]
  <2>1. shown' = [shown EXCEPT ![u] = t]
    BY <1>4, <1>8
  <2> QED BY <1>1, <2>1 DEF ProcTypes
<1>10. ProcTypes' /\ ServerTypes'
  BY <1>1, <1>6, <1>7, <1>9 DEF ProcTypes, ServerTypes
<1>11. StoreInv'
  BY <1>1, StoreSame
<1>12. Now(u)' = Now(u)
  BY <1>7 DEF Now
<1>13. Asked(u)'
  BY <1>1, <1>7, <1>12 DEF Asked, Before
<1>14. Replied(u)'
  BY <1>1, <1>7, <1>12 DEF Replied, Answered
<1>15. Shows(u)'
  BY <1>3, <1>5, <1>7, <1>8, <1>9 DEF Shows, Answered, Busy
<1>16. Buffered(u)'
  <2>1. /\ cnt'[u].last <= cnt'[u].used
        /\ LaidOut(stream'[u], answer'[u], Len(shown'[u]) + 1, sent'[u], cnt'[u].last, alive'[u])
    BY <1>3, <1>6, <1>8, <1>9 DEF ReadsNext
  <2>2. Busy(u)' /\ proc'[u].pc # "reading"
    BY <1>7 DEF Busy
  <2> QED BY <1>1, <1>6, <2>1, <2>2 DEF Buffered
<1>17. \A v \in Users \ {u} : Same(v)
  BY <1>6, <1>7, <1>9 DEF Same
<1> QED BY <1>10, <1>11, <1>13, <1>14, <1>15, <1>16, <1>17 DEF Steps, UserInv

(* The last response ends the command.                                       *)
LEMMA LastSteps ==
  ASSUME CounterInv, NEW u \in Users, proc[u].pc = "reading", ~NeedsData(u), Fine(u),
         Own(u), ~GoesOn(u, Arrived(u)), NEW code \in 0..2,
         code = (IF Field(u, 3) = STATUS.OK THEN 0 ELSE 2), Exits(u, code),
         shown' = [shown EXCEPT ![u] = IF Field(u, 3) = STATUS.OK THEN Append(@, Got(u).out) ELSE @],
         UNCHANGED <<session, wire, answer, sent, alive, held, limit, told>>
  PROVE  Steps(u)
<1>1. /\ ProcTypes /\ Asked(u) /\ Replied(u) /\ Shows(u) /\ Buffered(u)
      /\ shown[u] \in Seq(Seq(Nat)) /\ told[u] \in Reports
  BY UserFacts
<1>2. PICK k \in Nat : k = Len(shown[u]) + 1
  <2>1. Len(shown[u]) + 1 \in Nat
    BY <1>1
  <2> QED BY <2>1
<1>3. k \in 1..Len(answer[u]) /\ Answered(u) /\ ReadsNext(u, k)
  BY <1>2, ReceivedIs
<1>4. Field(u, 3) = told[u].status
  BY <1>3 DEF ReadsNext
<1>5. CASE told[u].status = STATUS.OK
  <2>1. Got(u).out = told[u].out[k] /\ ~(k < Len(answer[u]))
    BY <1>3, <1>5 DEF ReadsNext
  <2>2. PICK s \in Seq(Seq(Nat)), out \in Seq(Seq(Nat)) : s = shown[u] /\ out = told[u].out
    BY <1>1 DEF Reports
  <2>3. Len(out) = Len(answer[u])
    BY <1>1, <1>3, <2>2 DEF Replied, Fits
  <2>4. k \in 1..Len(out) /\ Len(out) = k
    BY <1>3, <2>1, <2>3
  <2>5. out[k] \in Seq(Nat)
    BY <2>4, ElementOfSeq
  <2>6. k = Len(s) + 1
    BY <1>2, <2>2
  <2>7. \A n \in 1..Len(s) : s[n] = out[n]
    BY <1>1, <1>3, <2>2 DEF Shows, Busy
  <2>8. PICK t \in Seq(Seq(Nat)) : /\ t = Append(s, out[k]) /\ Len(t) = k
                                   /\ \A n \in 1..k : t[n] = out[n]
    <3>1. /\ Append(s, out[k]) \in Seq(Seq(Nat)) /\ Len(Append(s, out[k])) = k
          /\ \A n \in 1..k : Append(s, out[k])[n] = out[n]
      BY <2>5, <2>6, <2>7, Grows
    <3> QED BY <3>1
  <2>9. t = out
    BY <2>4, <2>8, SeqEqual
  <2>10. shown' = [shown EXCEPT ![u] = t]
    BY <1>4, <1>5, <2>1, <2>2, <2>8
  <2>11. /\ shown' \in [Users -> Seq(Seq(Nat))] /\ shown'[u] = told[u].out
         /\ \A v \in Users \ {u} : shown'[v] = shown[v]
    BY <1>1, <2>2, <2>9, <2>10 DEF ProcTypes
  <2>12. code = 0
    BY <1>4, <1>5
  <2>13. /\ proc[u].pc # "idle" /\ (~Answered(u) => shown'[u] = <<>>)
         /\ (code = 0 => told[u].status = STATUS.OK /\ shown'[u] = told[u].out)
         /\ (code = 2 => told[u].status > STATUS.OK)
    BY <1>3, <1>5, <2>11, <2>12
  <2> QED BY <2>11, <2>13, ExitSteps
<1>6. CASE told[u].status # STATUS.OK
  <2>1. shown' = shown
    BY <1>1, <1>4, <1>6 DEF ProcTypes
  <2>2. code = 2
    BY <1>4, <1>6
  <2>3. told[u].status \in {1, 33, 34}
    BY <1>1, <1>3, <1>6 DEF Replied, Answered, STATUS
  <2>4. told[u].status > STATUS.OK
    BY <2>3 DEF STATUS
  <2>5. shown' \in [Users -> Seq(Seq(Nat))] /\ \A v \in Users \ {u} : shown'[v] = shown[v]
    BY <1>1, <2>1 DEF ProcTypes
  <2>6. /\ proc[u].pc # "idle" /\ (~Answered(u) => shown'[u] = <<>>)
        /\ (code = 0 => told[u].status = STATUS.OK /\ shown'[u] = told[u].out)
        /\ (code = 2 => told[u].status > STATUS.OK)
    BY <1>3, <2>2, <2>4
  <2> QED BY <2>5, <2>6, ExitSteps
<1> QED BY <1>5, <1>6

(* Received is one of these.                                                *)
LEMMA ReceivedSteps ==
  ASSUME CounterInv, NEW u \in Users, Received(u)
  PROVE  Steps(u)
<1>1. /\ proc[u].pc = "reading" /\ ~NeedsData(u)
      /\ UNCHANGED <<session, wire, answer, sent, alive, held, limit, told>>
  BY DEF Received
<1>2. CASE /\ ~Fine(u) /\ Keeps(u) /\ UNCHANGED <<stream, shown>>
           /\ proc' = [proc EXCEPT ![u].pc = "calling"]
  BY <1>1, <1>2, InvalidSteps
<1>3. CASE Exits(u, 1) /\ UNCHANGED shown
  BY <1>1, <1>3, ExitWithError
<1>4. CASE /\ Fine(u) /\ (~Own(u) \/ GoesOn(u, Arrived(u))) /\ Keeps(u) /\ UNCHANGED stream
           /\ proc' = [proc EXCEPT ![u].pc = "calling"]
           /\ shown' = [shown EXCEPT ![u] = IF Own(u) THEN Append(@, Got(u).out) ELSE @]
  BY <1>1, <1>4, RecordSteps
<1>5. CASE /\ Fine(u) /\ ~(~Own(u) \/ GoesOn(u, Arrived(u)))
           /\ Exits(u, IF Field(u, 3) = STATUS.OK THEN 0 ELSE 2)
           /\ shown' = [shown EXCEPT ![u] = IF Field(u, 3) = STATUS.OK THEN Append(@, Got(u).out) ELSE @]
  <2>1. PICK code \in 0..2 : code = (IF Field(u, 3) = STATUS.OK THEN 0 ELSE 2)
    OBVIOUS
  <2>2. Fine(u) /\ Own(u) /\ ~GoesOn(u, Arrived(u)) /\ Exits(u, code)
    BY <1>5, <2>1
  <2> QED BY <1>1, <1>5, <2>1, <2>2, LastSteps
<1> QED BY <1>2, <1>3, <1>4, <1>5 DEF Received, Fine, Got, Arrived, Keeps

-----------------------------------------------------------------------------
(* The server.                                                              *)
Frames(serial, cmd, status, bodies) ==
  [n \in DOMAIN bodies |-> Frame(serial, cmd, status, bodies[n])]

(* The frames it sends answer the request, unless the first is garbled.       *)
LEMMA FramesFit ==
  ASSUME NEW serial \in Nat, NEW cmd \in Nat, NEW status \in Nat, NEW bodies, NEW says,
         Answers(cmd, status, bodies, says)
  PROVE  /\ Frames(serial, cmd, status, bodies) \in Seq(Seq(Nat))
         /\ Fits(Frames(serial, cmd, status, bodies), serial, cmd, status, says)
<1>1. PICK n \in Nat : n = Len(bodies) /\ bodies \in Seq(Seq(Nat)) /\ n >= 1 /\ Len(says) = n
  <2>1. bodies \in Seq(Seq(Nat)) /\ Len(bodies) >= 1 /\ Len(says) = Len(bodies)
    BY DEF Answers
  <2>2. Len(bodies) \in Nat
    BY <2>1
  <2> QED BY <2>1, <2>2
<1>2. PICK f : f = Frames(serial, cmd, status, bodies)
  OBVIOUS
<1>3. f = [j \in 1..n |-> Frame(serial, cmd, status, bodies[j])]
  BY <1>1, <1>2 DEF Frames
<1>4. ASSUME NEW j \in 1..n
      PROVE  /\ f[j] \in Seq(Nat) /\ Good(f[j], serial, cmd, status) /\ Body(f[j]) = bodies[j]
  <2>1. PICK body \in Seq(Nat) : body = bodies[j]
    BY <1>1, ElementOfSeq
  <2>2. f[j] = Frame(serial, cmd, status, body)
    BY <1>3, <2>1
  <2> QED BY <2>1, <2>2, FrameIs
<1>5. f \in Seq(Seq(Nat)) /\ Len(f) = n
  <2>1. f \in [1..n -> Seq(Nat)]
    BY <1>3, <1>4
  <2> QED BY <2>1
<1>6. ASSUME status = STATUS.OK, NEW j \in 1..n
      PROVE  /\ Parsed(cmd, Body(f[j])) = [ok |-> TRUE, out |-> says[j]]
             /\ j < n <=> (cmd = CMD.dump /\ Body(f[j]) # <<>>)
  <2>1. /\ Parsed(cmd, bodies[j]) = [ok |-> TRUE, out |-> says[j]]
        /\ j < n <=> (cmd = CMD.dump /\ bodies[j] # <<>>)
    BY <1>1, <1>6 DEF Answers
  <2> QED BY <1>4, <2>1
<1>7. Fits(f, serial, cmd, status, says)
  BY <1>1, <1>4, <1>5, <1>6 DEF Fits
<1> QED BY <1>2, <1>5, <1>7

GarbledBy(frames, g) == [frames EXCEPT ![1] = g]

(* A function on 1..n is a sequence.                                        *)
LEMMA FunctionIsSeq ==
  ASSUME NEW S, NEW n \in Nat, NEW f \in [1..n -> S]
  PROVE  f \in Seq(S) /\ Len(f) = n
OBVIOUS

(* A garbled answer is spoilt.                                              *)
LEMMA GarbledFit ==
  ASSUME NEW serial \in Nat, NEW cmd \in Nat, NEW status \in Nat, NEW bodies, NEW says,
         Answers(cmd, status, bodies, says),
         NEW g \in Garbled(Frames(serial, cmd, status, bodies)[1])
  PROVE  \E ans \in Seq(Seq(Nat)) : /\ ans = GarbledBy(Frames(serial, cmd, status, bodies), g)
                                   /\ ans # <<>> /\ Spoilt(ans[1])
<1>1. PICK ans : ans = GarbledBy(Frames(serial, cmd, status, bodies), g)
  OBVIOUS
<1>2. PICK f \in Seq(Seq(Nat)) :
        f = Frames(serial, cmd, status, bodies) /\ Fits(f, serial, cmd, status, says)
  BY FramesFit
<1>3. Len(f) >= 1 /\ Good(f[1], serial, cmd, status)
  BY <1>2 DEF Fits
<1>4. 1 \in 1..Len(f) /\ f[1] \in Seq(Nat)
  BY <1>3, ElementOfSeq
<1>5. PICK x \in Seq(Nat) : x = f[1] /\ Good(x, serial, cmd, status)
  BY <1>3, <1>4
<1>6. Body(x) = bodies[1]
  <2>1. bodies \in Seq(Seq(Nat)) /\ Len(bodies) >= 1
    BY DEF Answers
  <2>2. 1 \in 1..Len(bodies)
    BY <2>1
  <2>3. PICK body \in Seq(Nat) : body = bodies[1]
    BY <2>1, <2>2, ElementOfSeq
  <2>4. x = Frame(serial, cmd, status, body)
    BY <1>2, <1>5, <2>1, <2>2, <2>3 DEF Frames
  <2>5. Body(Frame(serial, cmd, status, body)) = body
    BY FrameIs
  <2> QED BY <2>3, <2>4, <2>5
<1>7. status = STATUS.OK /\ Body(x) # <<>> => ~Parsed(cmd, SubSeq(Body(x), 1, Len(Body(x)) - 1)).ok
  BY <1>6 DEF Answers
<1>8. g \in Seq(Nat) /\ Spoilt(g)
  BY <1>2, <1>5, <1>7, GarbledIs
<1>9. ans = [f EXCEPT ![1] = g]
  BY <1>1, <1>2 DEF GarbledBy
<1>10. ans \in Seq(Seq(Nat)) /\ Len(ans) = Len(f) /\ ans[1] = g
  <2>1. PICK n \in Nat : n = Len(f) /\ n >= 1
    BY <1>3
  <2>2. f \in [1..n -> Seq(Nat)]
    BY <2>1, LenProperties
  <2>3. ans = [j \in 1..n |-> IF j = 1 THEN g ELSE f[j]]
    BY <1>9, <2>2
  <2>4. \A j \in 1..n : (IF j = 1 THEN g ELSE f[j]) \in Seq(Nat)
    BY <1>8, <2>2
  <2>5. ans \in Seq(Seq(Nat)) /\ Len(ans) = n
    <3>1. ans \in [1..n -> Seq(Nat)]
      BY <2>3, <2>4
    <3>2. PICK a \in [1..n -> Seq(Nat)] : a = ans
      BY <3>1
    <3>3. a \in Seq(Seq(Nat)) /\ Len(a) = n
      BY FunctionIsSeq
    <3> QED BY <3>2, <3>3
  <2>6. ans[1] = g
    BY <2>1, <2>3
  <2> QED BY <2>1, <2>5, <2>6
<1>11. ans # <<>>
  BY <1>3, <1>10
<1> QED BY <1>1, <1>8, <1>10, <1>11

(* What the counters become.                                                 *)
LEMMA AcquireStore ==
  ASSUME StoreInv, NEW u \in Users, NEW q \in Requests,
         held' = [name \in DOMAIN held \cup {q.name} |-> [x \in Users |->
                    (IF name \in DOMAIN held THEN held[name][x] ELSE 0)
                    + (IF name = q.name /\ x = u THEN q.resources ELSE 0)]],
         limit' = IF ~Known(q.name)
                  THEN [name \in DOMAIN limit \cup {q.name} |->
                          IF name = q.name THEN q.initial ELSE limit[name]]
                  ELSE limit
  PROVE  StoreInv'
<1> DEFINE D == DOMAIN limit
           E == D \cup {q.name}
<1>1. /\ IsFiniteSet(D) /\ D \subseteq Seq(Nat) /\ limit \in [D -> Nat]
      /\ held \in [D -> [Users -> Nat]] /\ DOMAIN held = D
  BY DEF StoreInv
<1>2. q.name \in Seq(Nat) /\ q.resources \in Nat /\ q.initial \in Nat
  BY DEF Requests
<1> HIDE DEF D
<1>3. limit' \in [E -> Nat]
  <2>1. CASE q.name \in D
    <3>1. E = D /\ limit' = limit
      BY <2>1 DEF Known, D
    <3> QED BY <1>1, <3>1
  <2>2. CASE q.name \notin D
    <3>1. limit' = [name \in E |-> IF name = q.name THEN q.initial ELSE limit[name]]
      BY <2>2 DEF Known, D
    <3> QED BY <1>1, <1>2, <3>1
  <2> QED BY <2>1, <2>2
<1>4. held' \in [E -> [Users -> Nat]]
  <2>1. held' = [name \in E |-> [x \in Users |->
                    (IF name \in D THEN held[name][x] ELSE 0)
                    + (IF name = q.name /\ x = u THEN q.resources ELSE 0)]]
    BY <1>1
  <2>2. ASSUME NEW name \in E, NEW x \in Users
        PROVE  (IF name \in D THEN held[name][x] ELSE 0)
               + (IF name = q.name /\ x = u THEN q.resources ELSE 0) \in Nat
    <3>1. (IF name \in D THEN held[name][x] ELSE 0) \in Nat
      BY <1>1
    <3>2. (IF name = q.name /\ x = u THEN q.resources ELSE 0) \in Nat
      BY <1>2
    <3> QED BY <3>1, <3>2
  <2> HIDE DEF E
  <2> QED BY <2>1, <2>2
<1>5. IsFiniteSet(E) /\ E \subseteq Seq(Nat)
  BY <1>1, <1>2, FS_AddElement
<1> HIDE DEF E
<1>6. DOMAIN limit' = E
  BY <1>3
<1> QED BY <1>3, <1>4, <1>5, <1>6 DEF StoreInv

(* A release takes no more than the user holds.                             *)
LEMMA ReleaseStore ==
  ASSUME StoreInv, NEW u \in Users, NEW q \in Requests, Known(q.name),
         ~(held[q.name][u] < q.resources),
         held' = [held EXCEPT ![q.name][u] = @ - q.resources], limit' = limit
  PROVE  StoreInv'
<1>1. limit \in [DOMAIN limit -> Nat] /\ held \in [DOMAIN limit -> [Users -> Nat]]
      /\ q.name \in DOMAIN limit /\ q.resources \in Nat
  BY DEF StoreInv, Known, Requests
<1>2. held[q.name][u] \in Nat
  BY <1>1
<1>3. PICK r \in Nat : r = held[q.name][u] - q.resources
  BY <1>1, <1>2
<1>4. held' \in [DOMAIN limit -> [Users -> Nat]]
  BY <1>1, <1>3
<1> QED BY <1>1, <1>4 DEF StoreInv

(* A lost connection gives everything back.                                 *)
LEMMA LoseStore ==
  ASSUME StoreInv, NEW u \in Users, limit' = limit,
         held' = [name \in DOMAIN held |-> [held[name] EXCEPT ![u] = 0]]
  PROVE  StoreInv'
<1>1. held \in [DOMAIN limit -> [Users -> Nat]]
  BY DEF StoreInv
<1>2. held' \in [DOMAIN limit -> [Users -> Nat]]
  BY <1>1
<1> QED BY <1>2 DEF StoreInv

(* It handles the request under way.                                         *)
LEMMA HandleIs ==
  ASSUME CounterInv, NEW u \in Users, wire[u] # <<>>
  PROVE  /\ told[u].status = Nothing /\ answer[u] = <<>> /\ sent[u] = 0 /\ shown[u] = <<>>
         /\ ~cnt[u].invalid /\ ~Before(u) /\ proc[u].serial \in Nat
         /\ Command(Now(u)) # BadArgument /\ Command(Now(u)) \in Requests
         /\ Head(wire[u]).request = Command(Now(u)) /\ Head(wire[u]).serial = proc[u].serial
<1>1. /\ Asked(u) /\ Replied(u) /\ Shows(u) /\ Buffered(u) /\ proc[u] \in Procs /\ sent[u] \in Nat
  BY UserFacts
<1>2. told[u].status = Nothing /\ ~Before(u) /\ Command(Now(u)) # BadArgument
  BY <1>1 DEF Asked
<1>3. answer[u] = <<>> /\ shown[u] = <<>>
  BY <1>1, <1>2 DEF Replied, Shows, Answered
<1>4. sent[u] <= Len(answer[u]) /\ Len(<<>>) = 0
  BY <1>1 DEF Buffered
<1>5. sent[u] = 0
  BY <1>1, <1>3, <1>4
<1>6. ~cnt[u].invalid
  BY <1>1, <1>2 DEF Buffered, Nothing, Garbage, STATUS
<1>7. proc[u].serial \in Nat
  BY <1>1 DEF Procs
<1>8. Command(Now(u)) \in Requests
  <2>1. proc[u].pc # "idle"
    BY <1>2 DEF Before
  <2> QED BY <1>2, <2>1, NowIs, CommandTyped
<1>9. wire[u] = <<[serial |-> proc[u].serial, request |-> Command(Now(u))]>>
  BY <1>1 DEF Asked
<1> QED BY <1>2, <1>3, <1>5, <1>6, <1>7, <1>8, <1>9

(* What the handler does with a request, its status and its serial.          *)
RepliesTo(u, q, status, serial) ==
  LET frames == Frames(serial, q.cmd, status, Bodies(q, status)) IN
  \/ /\ answer' = [answer EXCEPT ![u] = frames]
     /\ told' = [told EXCEPT ![u] = [status |-> status, out |-> Says(q, status)]]
  \/ /\ \E g \in Garbled(frames[1]) : answer' = [answer EXCEPT ![u] = GarbledBy(frames, g)]
     /\ told' = [told EXCEPT ![u] = [status |-> Garbage, out |-> <<>>]]

Counts(u, q, status) ==
  /\ held' = CASE status = STATUS.OK /\ q.cmd = CMD.acquire ->
                    [name \in DOMAIN held \cup {q.name} |-> [x \in Users |->
                       (IF name \in DOMAIN held THEN held[name][x] ELSE 0)
                       + (IF name = q.name /\ x = u THEN q.resources ELSE 0)]]
               [] status = STATUS.OK /\ q.cmd = CMD.release ->
                    [held EXCEPT ![q.name][u] = @ - q.resources]
               [] OTHER -> held
  /\ limit' = IF status = STATUS.OK /\ q.cmd = CMD.acquire /\ ~Known(q.name)
              THEN [name \in DOMAIN limit \cup {q.name} |->
                      IF name = q.name THEN q.initial ELSE limit[name]]
              ELSE limit

(* The counters keep their types.                                           *)
LEMMA CountsStore ==
  ASSUME StoreInv, NEW u \in Users, NEW q \in Requests, NEW status, status = Status(u, q),
         Counts(u, q, status)
  PROVE  StoreInv'
<1>1. CASE status = STATUS.OK /\ q.cmd = CMD.acquire
  <2>1. held' = [name \in DOMAIN held \cup {q.name} |-> [x \in Users |->
                   (IF name \in DOMAIN held THEN held[name][x] ELSE 0)
                   + (IF name = q.name /\ x = u THEN q.resources ELSE 0)]]
    BY <1>1 DEF CMD, Counts
  <2>2. limit' = IF ~Known(q.name)
                 THEN [name \in DOMAIN limit \cup {q.name} |->
                         IF name = q.name THEN q.initial ELSE limit[name]]
                 ELSE limit
    BY <1>1 DEF Counts
  <2> QED BY <2>1, <2>2, AcquireStore
<1>2. CASE status = STATUS.OK /\ q.cmd = CMD.release
  <2>1. held' = [held EXCEPT ![q.name][u] = @ - q.resources] /\ limit' = limit
    BY <1>2 DEF CMD, Counts
  <2>2. Known(q.name) /\ ~(held[q.name][u] < q.resources)
    BY <1>2 DEF Status, CMD, STATUS
  <2> QED BY <2>1, <2>2, ReleaseStore
<1>3. CASE ~(status = STATUS.OK /\ q.cmd \in {CMD.acquire, CMD.release})
  <2>1. held' = held /\ limit' = limit
    BY <1>3 DEF Counts
  <2> QED BY <2>1, StoreSame
<1> QED BY <1>1, <1>2, <1>3

Handled(u, q, status) ==
  LET bodies == Bodies(q, status)
      frames == [n \in DOMAIN bodies |-> Frame(Head(wire[u]).serial, q.cmd, status, bodies[n])]
  IN /\ \/ /\ answer' = [answer EXCEPT ![u] = frames]
           /\ told' = [told EXCEPT ![u] = [status |-> status, out |-> Says(q, status)]]
        \/ /\ \E frame \in Garbled(frames[1]) :
                answer' = [answer EXCEPT ![u] = [frames EXCEPT ![1] = frame]]
           /\ told' = [told EXCEPT ![u] = [status |-> Garbage, out |-> <<>>]]
     /\ Counts(u, q, status)

(* The request under way is the one of the invocation, and this is its answer.*)
LEMMA HandleParts ==
  ASSUME CounterInv, NEW u \in Users, Handle(u)
  PROVE  \E q \in Requests, status \in {0, 1, 33, 34}, serial \in Nat :
           /\ q = Command(Now(u)) /\ serial = proc[u].serial
           /\ Answers(q.cmd, status, Bodies(q, status), Says(q, status))
           /\ RepliesTo(u, q, status, serial) /\ StoreInv'
<1>1. StoreInv
  BY DEF CounterInv
<1>2. wire[u] # <<>>
  BY DEF Handle
<1>3. PICK q \in Requests, serial \in Nat :
        /\ q = Command(Now(u)) /\ serial = proc[u].serial
        /\ Head(wire[u]).request = q /\ Head(wire[u]).serial = serial
  BY <1>2, HandleIs
<1>4. PICK status : status = Status(u, q)
  OBVIOUS
<1>5. status \in {0, 1, 33, 34} /\ Answers(q.cmd, status, Bodies(q, status), Says(q, status))
  BY <1>1, <1>4, AnswersTyped
<1>6. \E r \in {Head(wire[u]).request} : \E s \in {Status(u, r)} : Handled(u, r, s)
  BY Zenon DEF Handle, Handled, Counts
<1>7. Handled(u, q, status)
  BY <1>3, <1>4, <1>6
<1>8. RepliesTo(u, q, status, serial)
  BY <1>3, <1>7 DEF Handled, Frames, RepliesTo, GarbledBy
<1>9. Counts(u, q, status)
  BY <1>7 DEF Handled
<1>10. StoreInv'
  BY <1>1, <1>4, <1>9, CountsStore
<1> QED BY <1>3, <1>5, <1>8, <1>10

(* The answer, garbled or not.                                               *)
Replying(u, ans, t) ==
  /\ answer' = [answer EXCEPT ![u] = ans] /\ told' = [told EXCEPT ![u] = t]
  /\ t.status \in {Garbage, 0, 1, 33, 34}
  /\ t.status = Garbage => ans # <<>> /\ Spoilt(ans[1])
  /\ t.status # Garbage => Fits(ans, proc[u].serial, Command(Now(u)).cmd, t.status, t.out)

(* The type of a report.                                                    *)
LEMMA ReportTyped ==
  ASSUME NEW status \in Int, NEW out \in Seq(Seq(Nat))
  PROVE  [status |-> status, out |-> out] \in Reports
BY DEF Reports

(* The server replies with an answer that fits, or a garbled one.           *)
LEMMA HandleReplies ==
  ASSUME CounterInv, NEW u \in Users, Handle(u)
  PROVE  \E ans \in Seq(Seq(Nat)), t \in Reports : Replying(u, ans, t)
<1>1. PICK q \in Requests, status \in {0, 1, 33, 34}, serial \in Nat :
        /\ q = Command(Now(u)) /\ serial = proc[u].serial
        /\ Answers(q.cmd, status, Bodies(q, status), Says(q, status))
        /\ RepliesTo(u, q, status, serial) /\ StoreInv'
  BY HandleParts
<1>2. PICK bodies, says : bodies = Bodies(q, status) /\ says = Says(q, status)
  OBVIOUS
<1>3. PICK cmd \in Nat : cmd = q.cmd
  BY DEF Requests
<1>4. status \in Nat /\ status \in Int /\ Answers(cmd, status, bodies, says)
  BY <1>1, <1>2, <1>3
<1>5. says \in Seq(Seq(Nat))
  BY <1>4 DEF Answers
<1>6. CASE /\ answer' = [answer EXCEPT ![u] = Frames(serial, cmd, status, bodies)]
           /\ told' = [told EXCEPT ![u] = [status |-> status, out |-> says]]
  <2>1. PICK ans \in Seq(Seq(Nat)) :
          ans = Frames(serial, cmd, status, bodies) /\ Fits(ans, serial, cmd, status, says)
    BY <1>4, FramesFit
  <2>2. PICK t \in Reports : t = [status |-> status, out |-> says]
    BY <1>4, <1>5, ReportTyped
  <2>3. t.status = status /\ t.out = says
    BY <2>2
  <2>4. answer' = [answer EXCEPT ![u] = ans] /\ told' = [told EXCEPT ![u] = t]
    BY <1>6, <2>1, <2>2
  <2>5. Fits(ans, proc[u].serial, Command(Now(u)).cmd, t.status, t.out)
    BY <1>1, <1>3, <2>1, <2>3
  <2>6. t.status \in {Garbage, 0, 1, 33, 34} /\ t.status # Garbage
    BY <1>1, <2>3 DEF Garbage
  <2>7. Replying(u, ans, t)
    BY <2>4, <2>5, <2>6 DEF Replying
  <2> QED BY <2>7
<1>7. CASE /\ \E g \in Garbled(Frames(serial, cmd, status, bodies)[1]) :
                answer' = [answer EXCEPT ![u] = GarbledBy(Frames(serial, cmd, status, bodies), g)]
           /\ told' = [told EXCEPT ![u] = [status |-> Garbage, out |-> <<>>]]
  <2>1. PICK g \in Garbled(Frames(serial, cmd, status, bodies)[1]) :
          answer' = [answer EXCEPT ![u] = GarbledBy(Frames(serial, cmd, status, bodies), g)]
    BY <1>7
  <2>2. PICK ans \in Seq(Seq(Nat)) : /\ ans = GarbledBy(Frames(serial, cmd, status, bodies), g)
                                     /\ ans # <<>> /\ Spoilt(ans[1])
    BY <1>4, GarbledFit
  <2>3. PICK t \in Reports : t = [status |-> Garbage, out |-> <<>>]
    <3>1. Garbage \in Int /\ <<>> \in Seq(Seq(Nat))
      BY DEF Garbage
    <3> QED BY <3>1, ReportTyped
  <2>4. answer' = [answer EXCEPT ![u] = ans] /\ told' = [told EXCEPT ![u] = t]
    BY <1>7, <2>1, <2>2, <2>3
  <2>5. t.status = Garbage
    BY <2>3
  <2>6. Replying(u, ans, t)
    BY <2>2, <2>4, <2>5 DEF Replying
  <2> QED BY <2>6
<1> QED BY <1>1, <1>2, <1>6, <1>7, <1>3 DEF RepliesTo

(* Handle leaves the answer to be sent.                                     *)
LEMMA HandleSteps ==
  ASSUME CounterInv, NEW u \in Users, Handle(u)
  PROVE  Steps(u)
<1>1. /\ ProcTypes /\ ServerTypes
      /\ Asked(u) /\ Replied(u) /\ Shows(u) /\ Buffered(u)
  BY UserFacts
<1>2. /\ wire[u] # <<>> /\ wire' = [wire EXCEPT ![u] = <<>>]
      /\ UNCHANGED <<session, proc, cnt, sent, stream, alive, shown>>
  BY DEF Handle
<1>3. /\ told[u].status = Nothing /\ answer[u] = <<>> /\ sent[u] = 0 /\ shown[u] = <<>>
      /\ ~cnt[u].invalid /\ ~Before(u) /\ Command(Now(u)) # BadArgument
  BY <1>2, HandleIs
<1>4. StoreInv'
  BY HandleParts
<1>5. PICK ans \in Seq(Seq(Nat)), t \in Reports : Replying(u, ans, t)
  BY HandleReplies
<1>6. /\ answer' = [answer EXCEPT ![u] = ans] /\ told' = [told EXCEPT ![u] = t]
      /\ t.status \in {Garbage, 0, 1, 33, 34}
      /\ t.status = Garbage => ans # <<>> /\ Spoilt(ans[1])
      /\ t.status # Garbage => Fits(ans, proc[u].serial, Command(Now(u)).cmd, t.status, t.out)
  BY <1>5 DEF Replying
<1>7. /\ answer' \in [Users -> Seq(Seq(Nat))] /\ answer'[u] = ans
      /\ told' \in [Users -> Reports] /\ told'[u] = t
      /\ wire' \in [Users -> {<<>>} \cup {<<m>> : m \in Message}] /\ wire'[u] = <<>>
      /\ \A v \in Users \ {u} : answer'[v] = answer[v] /\ told'[v] = told[v] /\ wire'[v] = wire[v]
  BY <1>1, <1>2, <1>6 DEF ServerTypes
<1>8. ProcTypes' /\ ServerTypes'
  BY <1>1, <1>2, <1>7 DEF ProcTypes, ServerTypes
<1>9. Now(u)' = Now(u)
  BY <1>2 DEF Now
<1>10. Asked(u)'
  BY <1>1, <1>2, <1>3, <1>7 DEF Asked, Before
<1>11. Replied(u)'
  <2>1. t.status # Nothing
    BY <1>6 DEF Nothing, Garbage
  <2>2. t.status = Garbage => ans # <<>> /\ Spoilt(ans[1])
    BY <1>6
  <2>3. t.status # Garbage => Fits(ans, proc[u].serial, Command(Now(u)).cmd, t.status, t.out)
    BY <1>6
  <2> QED BY <1>2, <1>3, <1>6, <1>7, <1>9, <2>1, <2>2, <2>3 DEF Replied, Answered
<1>12. Shows(u)'
  <2>1. (proc[u].pc = "exited" => proc[u].code \notin {0, 2}) \/ Busy(u)
    <3>1. proc[u].pc = "exited" /\ proc[u].code = 0 => told[u].status = STATUS.OK
      BY <1>1 DEF Shows
    <3>2. proc[u].pc = "exited" /\ proc[u].code = 2 => told[u].status > STATUS.OK
      BY <1>1 DEF Shows
    <3>3. told[u].status # STATUS.OK /\ ~(told[u].status > STATUS.OK)
      BY <1>3 DEF Nothing, STATUS
    <3> QED BY <3>1, <3>2, <3>3
  <2>2. Busy(u) => proc[u].pc # "exited"
    BY DEF Busy
  <2>3. t.status # Garbage => Len(ans) >= 1
    BY <1>6 DEF Fits
  <2>4. Len(shown[u]) = 0 /\ \A n \in 1..Len(shown[u]) : FALSE
    BY <1>3
  <2>5. Answered(u)' => t.status # Garbage
    BY <1>7 DEF Answered
  <2>6. Len(ans) \in Nat
    OBVIOUS
  <2>7. Answered(u)' => Len(shown[u]) < Len(ans)
    BY <2>3, <2>4, <2>5, <2>6
  <2> QED BY <1>2, <1>3, <1>7, <2>1, <2>2, <2>4, <2>7 DEF Shows, Busy
<1>13. Buffered(u)'
  <2>1. sent[u] <= Len(ans)
    BY <1>3
  <2>2. ASSUME Busy(u)
        PROVE  LaidOut(stream[u], ans, Len(shown[u]) + 1, sent[u], cnt[u].last, alive[u])
    <3>1. LaidOut(stream[u], answer[u], Len(shown[u]) + 1, sent[u], cnt[u].last, alive[u])
      BY <1>1, <1>3, <2>2 DEF Buffered
    <3>2. alive[u] \in BOOLEAN
      BY <1>1 DEF ServerTypes
    <3> QED BY <1>3, <3>1, <3>2, NothingLaidYet
  <2> QED BY <1>1, <1>2, <1>3, <1>7, <2>1, <2>2 DEF Buffered, Busy
<1>14. \A v \in Users \ {u} : Same(v)
  BY <1>2, <1>7 DEF Same
<1> QED BY <1>4, <1>8, <1>10, <1>11, <1>12, <1>13, <1>14 DEF Steps, UserInv

(* The stream grows.                                                        *)
LEMMA JoinedTo ==
  ASSUME NEW s \in Seq(Nat), NEW f \in Seq(Nat)
  PROVE  s \o f \in Seq(Nat) /\ Len(s) <= Len(s \o f)
<1>1. s \o f \in Seq(Nat) /\ Len(s \o f) = Len(s) + Len(f)
  BY ConcatProperties
<1>2. Len(s) \in Nat /\ Len(f) \in Nat
  OBVIOUS
<1> QED BY <1>1, <1>2

(* Reply puts the next response behind what is on the stream.               *)
LEMMA ReplySteps ==
  ASSUME CounterInv, NEW u \in Users, Reply(u)
  PROVE  Steps(u)
<1>1. /\ ProcTypes /\ ServerTypes /\ StoreInv
      /\ Asked(u) /\ Replied(u) /\ Shows(u) /\ Buffered(u)
  BY UserFacts
<1>2. /\ alive[u] /\ Busy(u) /\ UNCHANGED <<session, proc, cnt, wire, answer, alive, held, limit, shown, told>>
  BY DEF Reply, Busy
<1>3. PICK s \in Seq(Nat), ans \in Seq(Seq(Nat)), n \in Nat, k \in Nat, last \in Nat :
        /\ s = stream[u] /\ ans = answer[u] /\ n = sent[u] /\ k = Len(shown[u]) + 1
        /\ last = cnt[u].last
  <2>1. /\ stream[u] \in Seq(Nat) /\ answer[u] \in Seq(Seq(Nat)) /\ sent[u] \in Nat
        /\ shown[u] \in Seq(Seq(Nat)) /\ cnt[u] \in Buffers
    BY UserFacts
  <2>2. Len(shown[u]) + 1 \in Nat /\ cnt[u].last \in Nat
    BY <2>1 DEF Buffers
  <2> QED BY <2>1, <2>2
<1>4. n < Len(ans) /\ stream' = [stream EXCEPT ![u] = s \o ans[n + 1]] /\ sent' = [sent EXCEPT ![u] = n + 1]
  BY <1>3 DEF Reply
<1>5. n + 1 \in 1..Len(ans) /\ n + 1 <= Len(ans)
  BY <1>4
<1>6. PICK t \in Seq(Nat) : t = s \o ans[n + 1] /\ Len(s) <= Len(t)
  <2>1. ans[n + 1] \in Seq(Nat)
    BY <1>5, ElementOfSeq
  <2> QED BY <2>1, JoinedTo
<1>7. /\ stream' \in [Users -> Seq(Nat)] /\ stream'[u] = t
      /\ sent' \in [Users -> Nat] /\ sent'[u] = n + 1
      /\ \A v \in Users \ {u} : stream'[v] = stream[v] /\ sent'[v] = sent[v]
  <2>1. stream' = [stream EXCEPT ![u] = t]
    BY <1>4, <1>6
  <2>2. n + 1 \in Nat
    OBVIOUS
  <2> QED BY <1>1, <1>4, <2>1, <2>2 DEF ProcTypes, ServerTypes
<1>8. ProcTypes' /\ ServerTypes'
  BY <1>1, <1>2, <1>7 DEF ProcTypes, ServerTypes
<1>9. StoreInv'
  BY <1>1, <1>2, StoreSame
<1>10. Now(u)' = Now(u) /\ ~Before(u)
  BY <1>2 DEF Now, Busy, Before
<1>11. Asked(u)'
  BY <1>1, <1>2, <1>10 DEF Asked, Before
<1>12. Replied(u)'
  BY <1>1, <1>2, <1>10 DEF Replied, Answered
<1>13. Shows(u)'
  BY <1>1, <1>2 DEF Shows, Answered, Busy
<1>14. Buffered(u)'
  <2>1. ASSUME ~cnt[u].invalid PROVE LaidOut(t, ans, k, n + 1, last, TRUE)
    <3>1. LaidOut(s, ans, k, n, last, TRUE)
      BY <1>1, <1>2, <1>3, <2>1 DEF Buffered
    <3>2. LaidOut(s \o ans[n + 1], ans, k, n + 1, last, TRUE)
      BY <1>5, <3>1, NextLaid
    <3> QED BY <1>6, <3>2
  <2>2. cnt[u].used <= Len(t)
    <3>1. PICK x \in Nat, y \in Nat, z \in Nat : x = cnt[u].used /\ y = Len(s) /\ z = Len(t)
      BY UserFacts DEF Buffers
    <3>2. x <= y /\ y <= z
      BY <1>1, <1>3, <1>6, <3>1 DEF Buffered
    <3> QED BY <3>1, <3>2
  <2>3. alive'[u] = TRUE /\ Len(shown'[u]) + 1 = k
    BY <1>1, <1>2, <1>3 DEF ServerTypes
  <2>4. Busy(u)'
    BY <1>2 DEF Busy
  <2> QED BY <1>1, <1>2, <1>3, <1>5, <1>7, <1>10, <2>1, <2>2, <2>3, <2>4 DEF Buffered
<1>15. \A v \in Users \ {u} : Same(v)
  BY <1>2, <1>7 DEF Same
<1> QED BY <1>8, <1>9, <1>11, <1>12, <1>13, <1>14, <1>15 DEF Steps, UserInv

(* The connection is lost, with what may be left on the stream.               *)
LEMMA LoseSteps ==
  ASSUME CounterInv, NEW u \in Users, Lose(u), NEW n \in cnt[u].used..Len(stream[u]),
         stream' = [stream EXCEPT ![u] = SubSeq(@, 1, n)]
  PROVE  Steps(u)
<1>1. /\ ProcTypes /\ ServerTypes /\ StoreInv
      /\ Asked(u) /\ Replied(u) /\ Shows(u) /\ Buffered(u)
  BY UserFacts
<1>2. /\ alive' = [alive EXCEPT ![u] = FALSE] /\ wire' = [wire EXCEPT ![u] = <<>>]
      /\ UNCHANGED <<session, proc, cnt, answer, sent, limit, shown, told>>
  BY DEF Lose
<1>3. PICK s \in Seq(Nat), ans \in Seq(Seq(Nat)), m \in Nat, k \in Nat, last \in Nat, used \in Nat :
        /\ s = stream[u] /\ ans = answer[u] /\ m = sent[u] /\ k = Len(shown[u]) + 1
        /\ last = cnt[u].last /\ used = cnt[u].used
  <2>1. /\ stream[u] \in Seq(Nat) /\ answer[u] \in Seq(Seq(Nat)) /\ sent[u] \in Nat
        /\ shown[u] \in Seq(Seq(Nat)) /\ cnt[u] \in Buffers
    BY UserFacts
  <2>2. Len(shown[u]) + 1 \in Nat /\ cnt[u].last \in Nat /\ cnt[u].used \in Nat
    BY <2>1 DEF Buffers
  <2> QED BY <2>1, <2>2
<1>4. n \in 0..Len(s) /\ used <= n
  BY <1>3
<1>5. PICK t \in Seq(Nat) : t = SubSeq(s, 1, n) /\ Len(t) = n
  <2>1. \A i \in 1..n : s[i] \in Nat
    BY <1>4, ElementOfSeq
  <2>2. n \in Nat
    BY <1>4
  <2>3. /\ SubSeq(s, 1, n) \in Seq(Nat)
        /\ Len(SubSeq(s, 1, n)) = IF 1 <= n THEN n - 1 + 1 ELSE 0
    BY <2>1, <2>2, SubSeqProperties
  <2>4. (IF 1 <= n THEN n - 1 + 1 ELSE 0) = n
    BY <2>2
  <2> QED BY <2>3, <2>4
<1>6. /\ stream' \in [Users -> Seq(Nat)] /\ stream'[u] = t
      /\ \A v \in Users \ {u} : stream'[v] = stream[v]
  <2>1. stream' = [stream EXCEPT ![u] = t]
    BY <1>3, <1>5
  <2> QED BY <1>1, <2>1 DEF ProcTypes
<1>7. /\ wire' \in [Users -> {<<>>} \cup {<<x>> : x \in Message}] /\ wire'[u] = <<>>
      /\ alive' \in [Users -> BOOLEAN] /\ alive'[u] = FALSE
      /\ \A v \in Users \ {u} : wire'[v] = wire[v] /\ alive'[v] = alive[v]
  BY <1>1, <1>2 DEF ServerTypes
<1>8. ProcTypes' /\ ServerTypes'
  BY <1>1, <1>2, <1>6, <1>7 DEF ProcTypes, ServerTypes
<1>9. StoreInv'
  BY <1>1, LoseStore DEF Lose
<1>10. Now(u)' = Now(u)
  BY <1>2 DEF Now
<1>11. Asked(u)'
  BY <1>1, <1>2, <1>7 DEF Asked, Before
<1>12. Replied(u)'
  BY <1>1, <1>2, <1>10 DEF Replied, Answered
<1>13. Shows(u)'
  BY <1>1, <1>2 DEF Shows, Answered, Busy
<1>14. Buffered(u)'
  <2>1. ASSUME Busy(u), ~cnt[u].invalid PROVE LaidOut(t, ans, k, m, last, FALSE)
    <3>1. LaidOut(s, ans, k, m, last, alive[u])
      BY <1>1, <1>3, <2>1 DEF Buffered
    <3>2. LaidOut(SubSeq(s, 1, n), ans, k, m, last, FALSE)
      BY <1>4, <3>1, LessLaid
    <3> QED BY <1>5, <3>2
  <2>2. ASSUME ~Busy(u) PROVE t = <<>>
    <3>1. s = <<>>
      BY <1>1, <1>3, <2>2 DEF Buffered
    <3>2. n = 0
      BY <1>4, <3>1
    <3> QED BY <1>5, <3>2
  <2>3. used <= Len(t) /\ Len(shown'[u]) + 1 = k
    BY <1>2, <1>3, <1>4, <1>5
  <2>4. Busy(u)' <=> Busy(u)
    BY <1>2 DEF Busy
  <2> QED BY <1>1, <1>2, <1>3, <1>6, <1>7, <1>10, <2>1, <2>2, <2>3, <2>4 DEF Buffered
<1>15. \A v \in Users \ {u} : Same(v)
  BY <1>2, <1>6, <1>7 DEF Same
<1> QED BY <1>8, <1>9, <1>11, <1>12, <1>13, <1>14, <1>15 DEF Steps, UserInv

(* Drop loses a connection that is used.                                    *)
LEMMA DropSteps ==
  ASSUME CounterInv, NEW u \in Users, Drop(u)
  PROVE  Steps(u)
<1>1. PICK n \in cnt[u].used..Len(stream[u]) : stream' = [stream EXCEPT ![u] = SubSeq(@, 1, n)]
  BY DEF Drop
<1> QED BY <1>1, LoseSteps DEF Drop

(* Hangup loses one that is closed.                                         *)
LEMMA HangupSteps ==
  ASSUME CounterInv, NEW u \in Users, Hangup(u)
  PROVE  Steps(u)
<1>1. Lose(u) /\ stream' = stream /\ proc[u].pc = "exited"
  BY DEF Hangup
<1>2. Buffered(u) /\ stream \in [Users -> Seq(Nat)]
  BY DEF CounterInv, UserInv, ProcTypes
<1>3. cnt[u] = NoCnt /\ stream[u] = <<>>
  BY <1>1, <1>2 DEF Buffered, Busy
<1>4. 0 \in cnt[u].used..Len(stream[u])
  BY <1>3, NoCntIs
<1>5. SubSeq(stream[u], 1, 0) = stream[u]
  BY <1>3
<1>6. stream' = [stream EXCEPT ![u] = SubSeq(@, 1, 0)]
  BY <1>1, <1>2, <1>5
<1> QED BY <1>1, <1>4, <1>6, LoseSteps

-----------------------------------------------------------------------------
(* Every step keeps the invariant.                                          *)
LEMMA CounterNextInv ==
  ASSUME CounterInv, [CounterNext]_counterVars
  PROVE  CounterInv'
<1>1. CASE UNCHANGED counterVars
  <2>1. ProcTypes' /\ ServerTypes' /\ StoreInv'
    BY <1>1 DEF CounterInv, ProcTypes, ServerTypes, StoreInv, counterVars
  <2>2. ASSUME NEW u \in Users PROVE UserInv(u)'
    <3>1. UserInv(u) /\ Same(u)
      BY <1>1 DEF CounterInv, Same, counterVars
    <3> QED BY <3>1, SameInv
  <2> QED BY <2>1, <2>2 DEF CounterInv
<1>2. ASSUME NEW u \in Users,
             Start(u) \/ Process(u) \/ Handle(u) \/ Reply(u) \/ Hangup(u) \/ Drop(u)
      PROVE  CounterInv'
  <2>1. CASE Start(u)
    BY <2>1, StartSteps, StepsInv
  <2>2. CASE Connects(u)
    BY <2>2, ConnectsSteps, StepsInv
  <2>3. CASE Sends(u)
    BY <2>3, SendsSteps, StepsInv
  <2>4. CASE SendFails(u)
    BY <2>4, SendFailsSteps, StepsInv
  <2>5. CASE BeginRecv(u)
    BY <2>5, BeginRecvSteps, StepsInv
  <2>6. CASE RecvData(u)
    BY <2>6, RecvDataSteps, StepsInv
  <2>7. CASE RecvDataFails(u)
    BY <2>7, RecvDataFailsSteps, StepsInv
  <2>8. CASE Received(u)
    BY <2>8, ReceivedSteps, StepsInv
  <2>9. CASE RecvInvalid(u)
    BY <2>9, RecvInvalidSteps, StepsInv
  <2>14. CASE AppendStatFails(u)
    BY <2>14, AppendStatFailsSteps, StepsInv
  <2>10. CASE Handle(u)
    BY <2>10, HandleSteps, StepsInv
  <2>11. CASE Reply(u)
    BY <2>11, ReplySteps, StepsInv
  <2>12. CASE Hangup(u)
    BY <2>12, HangupSteps, StepsInv
  <2>13. CASE Drop(u)
    BY <2>13, DropSteps, StepsInv
  <2> QED BY <1>2, <2>1, <2>2, <2>3, <2>4, <2>5, <2>6, <2>7, <2>8, <2>9, <2>10, <2>11, <2>12, <2>13, <2>14
             DEF Process
<1> QED BY <1>1, <1>2 DEF CounterNext

(* In every state the bytes of a stream are the responses that are not        *)
(* printed yet, in their order, however they were cut (counter.c, recv_data  *)
(* and yrmcds_cnt_recv).                                                    *)
THEOREM CounterInvariant == CounterSpec => []CounterInv
<1>1. CounterInit => CounterInv
  BY InitInv
<1>2. CounterInv /\ [CounterNext]_counterVars => CounterInv'
  BY CounterNextInv
<1> QED BY <1>1, <1>2, PTL DEF CounterSpec

(* The types, and that the buffer never holds more than its capacity or than  *)
(* has been sent (counter.c, recv_data).                                     *)
THEOREM CounterTypes == CounterSpec => []CntTypeOK
<1>1. CounterInv => CntTypeOK
  <2> SUFFICES ASSUME CounterInv, NEW u \in Users
               PROVE  /\ proc[u].pc \in {"idle", "connecting", "open", "calling", "reading", "exited"}
                      /\ proc[u].n \in 0..Len(session[u]) /\ proc[u].code \in 0..2
                      /\ cnt[u].last <= cnt[u].used /\ cnt[u].used <= cnt[u].capacity
                      /\ cnt[u].used <= Len(stream[u])
                      /\ Len(wire[u]) <= 1
    BY DEF CntTypeOK
  <2>1. Asked(u) /\ Buffered(u) /\ proc[u] \in Procs /\ session[u] \in Seq(Invocation)
    BY UserFacts
  <2>2. proc[u].n \in 0..Len(session[u])
    BY <2>1 DEF Asked, Procs
  <2>3. Len(wire[u]) <= 1
    <3>1. wire[u] = <<>> \/ \E m \in Message : wire[u] = <<m>>
      BY DEF CounterInv, ServerTypes
    <3>2. Len(<<>>) = 0 /\ \A m : Len(<<m>>) = 1
      OBVIOUS
    <3>3. CASE wire[u] = <<>>
      BY <3>2, <3>3
    <3>4. ASSUME NEW m \in Message, wire[u] = <<m>> PROVE Len(wire[u]) <= 1
      <4>1. Len(wire[u]) = 1
        BY <3>2, <3>4
      <4> QED BY <4>1
    <3> QED BY <3>1, <3>3, <3>4
  <2>4. proc[u].pc \in {"idle", "connecting", "open", "calling", "reading", "exited"} /\ proc[u].code \in 0..2
    BY <2>1 DEF Procs
  <2>5. cnt[u].last <= cnt[u].used /\ cnt[u].used <= cnt[u].capacity /\ cnt[u].used <= Len(stream[u])
    BY <2>1 DEF Buffered
  <2> QED BY <2>2, <2>3, <2>4, <2>5
<1> QED BY <1>1, CounterInvariant, PTL

(* An exit with 0 has printed the answer of the server to this request, whole *)
(* and nothing else; an exit with 2 is a refusal of the server (yc-cnt.c).    *)
THEOREM PrintsTheAnswer == CounterSpec => []AnswerPrinted
<1>1. CounterInv => AnswerPrinted
  BY DEF CounterInv, UserInv, Shows, AnswerPrinted
<1> QED BY <1>1, CounterInvariant, PTL

(* A connection is given up as invalid only for a garbled answer, and for     *)
(* statistics there was no memory for: no other well-formed response is      *)
(* refused, and none is read from its middle (counter.c, yrmcds_cnt_recv and *)
(* append_stat).                                                            *)
THEOREM AcceptsWellFormed == CounterSpec => []WellFormedAccepted
<1>1. CounterInv => WellFormedAccepted
  <2> SUFFICES ASSUME CounterInv, NEW u \in Users,
                      cnt[u].invalid \/ (proc[u].pc = "reading" /\ cnt[u].used >= Header /\ WrongMagic(u))
               PROVE  \/ told[u].status = Garbage
                      \/ cnt[u].invalid /\ cnt[u].nomem /\ Now(u).cmd = "stats" /\ proc[u].pc # "reading"
    BY DEF WellFormedAccepted
  <2>1. Buffered(u) /\ shown[u] \in Seq(Seq(Nat))
    BY UserFacts
  <2>2. CASE cnt[u].invalid
    BY <2>1, <2>2 DEF Buffered
  <2>3. CASE proc[u].pc = "reading" /\ cnt[u].used >= Header /\ WrongMagic(u)
    <3>1. PICK k \in Nat : k = Len(shown[u]) + 1
      <4>1. Len(shown[u]) + 1 \in Nat
        BY <2>1
      <4> QED BY <4>1
    <3>2. ~NeedsData(u)
      BY <2>3 DEF NeedsData
    <3>3. ~Fine(u)
      BY <2>3 DEF Fine
    <3> QED BY <2>3, <3>1, <3>2, <3>3, ReceivedIs DEF ReadsNext
  <2> QED BY <2>2, <2>3
<1> QED BY <1>1, CounterInvariant, PTL
=============================================================================
