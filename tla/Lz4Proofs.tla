------------------------------ MODULE Lz4Proofs ------------------------------
(* What LZ4_decompress_safe makes of a block of LZ4_compress, for blocks of   *)
(* any length, any sizes of the format and any hash.                         *)
EXTENDS Lz4, SequenceTheorems, WellFoundedInduction, TLAPS

-----------------------------------------------------------------------------
(* Induction: a set of numbers that is not empty has a smallest one.         *)
LEMMA Smallest ==
  ASSUME NEW T, T \subseteq Nat, T # {}
  PROVE  \E m \in T : \A n \in T : m <= n
<1> DEFINE R == {p \in Nat \X Nat : p[1] < p[2]}
<1>1. IsWellFoundedOn(R, Nat)
  BY NatLessThanWellFounded DEF OpToRel
<1> HIDE DEF R
<1>2. PICK m \in T : \A n \in T : ~(<<n, m>> \in R)
  BY <1>1, WFMin
<1>3. \A n \in T : ~(n < m)
  BY <1>2 DEF R
<1> QED BY <1>3

(* A number is a multiple of M and a remainder below M.                     *)
LEMMA DivMod ==
  ASSUME NEW M \in Nat \ {0}, NEW x \in Nat
  PROVE  /\ x \div M \in Nat /\ x % M \in 0..(M - 1)
         /\ x = M * (x \div M) + (x % M)
OBVIOUS

(* The only multiple of M strictly between -M and M is 0.                   *)
LEMMA NoSmallMultiple ==
  ASSUME NEW M \in Nat \ {0}, NEW d \in Int, M * d < M, 0 - M < M * d
  PROVE  d = 0
OBVIOUS

(* The two digits of a number to the base M are its quotient and remainder.  *)
LEMMA Digits ==
  ASSUME NEW M \in Nat \ {0}, NEW high \in Nat, NEW low \in 0..(M - 1)
  PROVE  (high * M + low) \div M = high /\ (high * M + low) % M = low
<1>1. PICK x \in Nat : x = high * M + low
  OBVIOUS
<1>2. PICK q \in Nat, r \in 0..(M - 1) : q = x \div M /\ r = x % M /\ x = M * q + r
  BY DivMod
<1>3. M * (q - high) = low - r
  BY <1>1, <1>2
<1>4. q - high = 0
  BY <1>3, NoSmallMultiple, <1>2
<1> QED BY <1>1, <1>2, <1>3, <1>4

(* g is what a recursion in the last place defines.                         *)
Solves(g, D, T, next, val) == g = [x \in D |-> IF x \in T THEN val[x] ELSE g[next[x]]]

(* There is always such a g: the value where the steps from x stop, and      *)
(* anything where they go on for ever.                                      *)
LEMMA TailRecursion ==
  ASSUME NEW D, NEW T, NEW next, NEW val, \A x \in D : x \notin T => next[x] \in D
  PROVE  \E g : Solves(g, D, T, next, val)
<1> DEFINE Path(x, y, n) == \E p \in [0..n -> D] :
             /\ p[0] = x /\ p[n] = y /\ y \in T
             /\ \A i \in 0..(n - 1) : p[i] \notin T /\ p[i + 1] = next[p[i]]
           EndsAt(x) == {y \in D : \E n \in Nat : Path(x, y, n)}
           Any(S) == CHOOSE y \in S : TRUE
           g == [x \in D |-> IF EndsAt(x) = {} THEN 0 ELSE val[Any(EndsAt(x))]]
<1>1. ASSUME NEW x \in D, x \in T PROVE EndsAt(x) = {x}
  <2>1. x \in EndsAt(x)
    <3> DEFINE p == [i \in 0..0 |-> x]
    <3>1. p \in [0..0 -> D] /\ p[0] = x OBVIOUS
    <3>2. \A i \in 0..(0 - 1) : p[i] \notin T /\ p[i + 1] = next[p[i]] OBVIOUS
    <3>3. Path(x, x, 0) BY <3>1, <3>2, <1>1
    <3> QED BY <3>3
  <2>2. ASSUME NEW y \in EndsAt(x) PROVE y = x
    <3>1. PICK n \in Nat : Path(x, y, n) BY <2>2
    <3>2. PICK p \in [0..n -> D] :
             /\ p[0] = x /\ p[n] = y /\ y \in T
             /\ \A i \in 0..(n - 1) : p[i] \notin T /\ p[i + 1] = next[p[i]] BY <3>1
    <3>3. n = 0
      <4> SUFFICES ASSUME n # 0 PROVE FALSE OBVIOUS
      <4>1. 0 \in 0..(n - 1) OBVIOUS
      <4> QED BY <4>1, <3>2, <1>1
    <3> QED BY <3>2, <3>3
  <2> QED BY <2>1, <2>2
<1>2. ASSUME NEW x \in D, x \notin T PROVE EndsAt(x) = EndsAt(next[x])
  <2>1. ASSUME NEW y \in EndsAt(x) PROVE y \in EndsAt(next[x])
    <3>1. PICK n \in Nat : Path(x, y, n) BY <2>1
    <3>2. PICK p \in [0..n -> D] :
             /\ p[0] = x /\ p[n] = y /\ y \in T
             /\ \A i \in 0..(n - 1) : p[i] \notin T /\ p[i + 1] = next[p[i]] BY <3>1
    <3>3. n - 1 \in Nat BY <3>2, <1>2
    <3> DEFINE q == [i \in 0..(n - 1) |-> p[i + 1]]
    <3>4. q \in [0..(n - 1) -> D] BY <3>3
    <3>5. q[0] = next[x] /\ q[n - 1] = y BY <3>3, <3>2
    <3>6. \A i \in 0..((n - 1) - 1) : q[i] \notin T /\ q[i + 1] = next[q[i]] BY <3>3, <3>2
    <3>7. Path(next[x], y, n - 1) BY <3>4, <3>5, <3>6, <3>2
    <3> QED BY <3>7, <3>3
  <2>2. ASSUME NEW y \in EndsAt(next[x]) PROVE y \in EndsAt(x)
    <3>1. PICK n \in Nat : Path(next[x], y, n) BY <2>2
    <3>2. PICK p \in [0..n -> D] :
             /\ p[0] = next[x] /\ p[n] = y /\ y \in T
             /\ \A i \in 0..(n - 1) : p[i] \notin T /\ p[i + 1] = next[p[i]] BY <3>1
    <3>3. PICK m \in Nat : m = n + 1 OBVIOUS
    <3> DEFINE q == [i \in 0..m |-> IF i = 0 THEN x ELSE p[i - 1]]
    <3>4. q \in [0..m -> D] BY <3>3
    <3>5. q[0] = x /\ q[m] = y BY <3>2, <3>3
    <3>6. \A i \in 0..(m - 1) : q[i] \notin T /\ q[i + 1] = next[q[i]]
      <4> TAKE i \in 0..(m - 1)
      <4>1. CASE i = 0 BY <4>1, <3>2, <1>2
      <4>2. CASE i # 0
        <5>1. i - 1 \in 0..(n - 1) BY <4>2, <3>3
        <5>2. p[i - 1] \notin T /\ p[(i - 1) + 1] = next[p[i - 1]] BY <5>1, <3>2
        <5> QED BY <5>1, <5>2, <4>2, <3>3
      <4> QED BY <4>1, <4>2
    <3>7. Path(x, y, m) BY <3>4, <3>5, <3>6, <3>2
    <3> QED BY <3>7
  <2> QED BY <2>1, <2>2
<1> HIDE DEF EndsAt
<1>3. ASSUME NEW x \in D PROVE g[x] = IF x \in T THEN val[x] ELSE g[next[x]]
  <2>1. CASE x \in T
    <3>1. Any({x}) = x OBVIOUS
    <3> QED BY <2>1, <1>1, <3>1
  <2>2. CASE x \notin T BY <2>2, <1>2
  <2> QED BY <2>1, <2>2
<1>4. g = [x \in D |-> IF x \in T THEN val[x] ELSE g[next[x]]]
  <2> DEFINE h == [x \in D |-> IF x \in T THEN val[x] ELSE g[next[x]]]
  <2>1. \A x \in D : g[x] = h[x] BY <1>3
  <2> QED BY <2>1
<1> QED BY <1>4 DEF Solves

-----------------------------------------------------------------------------
(* The sizes of the format.                                                 *)
LEMMA Sizes ==
  /\ BYTE_MAX \in Nat \ {0, 1, 2}
  /\ RUN_MASK \in Nat \ {0} /\ ML_MASK \in Nat \ {0}
  /\ MFLIMIT \in Nat /\ MFLIMIT = COPYLENGTH + MINMATCH
  /\ MAX_DISTANCE \in Nat /\ MAX_DISTANCE = (BYTE_MAX + 1) * (BYTE_MAX + 1) - 1
  /\ LZ4_64Klimit = MAX_DISTANCE + MFLIMIT
<1>1. PICK M \in Nat \ {0, 1}, R \in Nat \ {0, 1} : M = ML_MASK + 1 /\ R = RUN_MASK + 1
  BY MaskAssumption
<1>2. M * R \in Nat /\ M * R >= 4
  OBVIOUS
<1>3. BYTE_MAX = M * R - 1
  BY <1>1 DEF BYTE_MAX
<1>4. BYTE_MAX \in Nat \ {0, 1, 2}
  BY <1>2, <1>3
<1>5. PICK B \in Nat \ {0} : B = BYTE_MAX + 1
  BY <1>4
<1>6. B * B \in Nat \ {0}
  OBVIOUS
<1>7. MAX_DISTANCE = B * B - 1
  BY <1>5 DEF MAX_DISTANCE
<1>8. MAX_DISTANCE \in Nat
  BY <1>6, <1>7
<1>9. MFLIMIT \in Nat /\ MFLIMIT = COPYLENGTH + MINMATCH
  BY EndAssumption DEF MFLIMIT
<1>10. LZ4_64Klimit = MAX_DISTANCE + MFLIMIT
  BY <1>8, <1>9 DEF LZ4_64Klimit
<1> QED BY <1>4, <1>5, <1>7, <1>8, <1>9, <1>10, MaskAssumption

(* Leading finds the first number that is not in the set.                   *)
LEMMA LeadingIs ==
  ASSUME NEW most \in Nat, NEW set, most \notin set,
         NEW n, n = Leading(set, most)
  PROVE  n \in 0..most /\ n \notin set /\ \A m \in 0..(n - 1) : m \in set
<1> DEFINE T == {k \in 0..most : k \notin set}
<1>1. PICK k \in T : \A m \in T : k <= m
  <2>1. T \subseteq Nat /\ most \in T
    OBVIOUS
  <2> HIDE DEF T
  <2> QED BY <2>1, Smallest
<1>2. \A m \in 0..(k - 1) : m \in set
  BY <1>1
<1>3. k \in 0..most /\ k \notin set /\ 0..(k - 1) \subseteq set
  BY <1>1, <1>2
<1>4. \E x \in 0..most : x \notin set /\ 0..(x - 1) \subseteq set
  BY <1>3
<1>5. n = CHOOSE x \in 0..most : x \notin set /\ 0..(x - 1) \subseteq set
  BY DEF Leading
<1> QED BY <1>4, <1>5

(* And there is only one such number.                                       *)
LEMMA LeadingUnique ==
  ASSUME NEW most \in Nat, NEW set, most \notin set,
         NEW n \in 0..most, n \notin set, \A m \in 0..(n - 1) : m \in set
  PROVE  Leading(set, most) = n
<1>1. PICK k : k = Leading(set, most)
  OBVIOUS
<1>2. k \in 0..most /\ k \notin set /\ \A m \in 0..(k - 1) : m \in set
  BY <1>1, LeadingIs
<1>3. ~(k < n) /\ ~(n < k)
  BY <1>2
<1> QED BY <1>1, <1>2, <1>3

-----------------------------------------------------------------------------
(* The search.                                                              *)

(* What the input is made of.                                               *)
Bytes == 0..BYTE_MAX

(* n bytes from position p on.                                              *)
LEMMA Slice ==
  ASSUME NEW S, NEW s \in Seq(S), NEW p \in Nat, NEW n \in Nat, p + n <= Len(s)
  PROVE  /\ SubSeq(s, p + 1, p + n) \in Seq(S)
         /\ SubSeq(s, p + 1, p + n) \in [1..n -> S]
         /\ Len(SubSeq(s, p + 1, p + n)) = n
         /\ \A k \in 1..n : SubSeq(s, p + 1, p + n)[k] = s[p + k]
<1>1. \A i \in (p + 1)..(p + n) : s[i] \in S
  OBVIOUS
<1>2. PICK a \in Nat, b \in Nat : a = p + 1 /\ b = p + n
  OBVIOUS
<1>3. /\ SubSeq(s, a, b) \in Seq(S)
      /\ Len(SubSeq(s, a, b)) = IF a <= b THEN b - a + 1 ELSE 0
      /\ \A i \in 1..(b - a + 1) : SubSeq(s, a, b)[i] = s[a + i - 1]
  BY <1>1, <1>2, SubSeqProperties
<1>4. Len(SubSeq(s, a, b)) = n /\ b - a + 1 = n
  BY <1>2, <1>3
<1>5. \A k \in 1..n : SubSeq(s, a, b)[k] = s[p + k]
  BY <1>2, <1>3, <1>4
<1>6. SubSeq(s, a, b) \in [1..n -> S]
  <2>1. PICK t \in Seq(S) : t = SubSeq(s, a, b) /\ Len(t) = n
    BY <1>3, <1>4
  <2>2. t \in [1..n -> S]
    BY <2>1, LenProperties
  <2> QED BY <2>1, <2>2
<1> QED BY <1>2, <1>3, <1>4, <1>5, <1>6

(* A length is a number.                                                    *)
LEMMA Length0 ==
  ASSUME NEW s \in Seq(Bytes)
  PROVE  Len(s) \in Nat
OBVIOUS

(* The word at a position that leaves room for one has a hash.               *)
LEMMA WordHash ==
  ASSUME NEW s \in Seq(Bytes), NEW p \in Nat, p + MINMATCH <= Len(s)
  PROVE  HashOf(Word(s, p)) \in HASHES
<1>1. Word(s, p) \in [1..MINMATCH -> Bytes]
  BY EndAssumption, Slice DEF Word
<1> QED BY <1>1, SearchAssumption DEF Bytes

(* Equal words are equal byte by byte.                                      *)
LEMMA WordsEqual ==
  ASSUME NEW s \in Seq(Bytes), NEW p \in Nat, NEW q \in Nat,
         p + MINMATCH <= Len(s), q + MINMATCH <= Len(s), Word(s, p) = Word(s, q)
  PROVE  \A k \in 1..MINMATCH : s[p + k] = s[q + k]
<1> TAKE k \in 1..MINMATCH
<1>1. Word(s, p)[k] = s[p + k] /\ Word(s, q)[k] = s[q + k]
  BY EndAssumption, Slice DEF Word
<1> QED BY <1>1

(* LZ4_count stops at the first byte that differs, or at the limit.          *)
LEMMA CountIs ==
  ASSUME NEW s \in Seq(Bytes), NEW ip \in Nat, NEW match \in Nat, NEW limit \in Int,
         limit <= Len(s), NEW n, n = LZ4_count(s, ip, match, limit)
  PROVE  /\ n \in Nat
         /\ \A m \in 0..(n - 1) : ip + m < limit /\ At(s, match + m) = At(s, ip + m)
         /\ ip + n >= limit \/ At(s, match + n) # At(s, ip + n)
<1> DEFINE set == {k \in 0..Len(s) : ip + k < limit /\ At(s, match + k) = At(s, ip + k)}
<1>1. Len(s) \in Nat /\ Len(s) \notin set
  OBVIOUS
<1>2. n = Leading(set, Len(s))
  BY DEF LZ4_count
<1>3. n \in 0..Len(s) /\ n \notin set /\ \A m \in 0..(n - 1) : m \in set
  <2> HIDE DEF set
  <2> QED BY <1>1, <1>2, LeadingIs
<1> QED BY <1>3, <1>1

(* CatchUp goes back over equal bytes, not before the anchor or the start.   *)
LEMMA CatchUpIs ==
  ASSUME NEW s \in Seq(Bytes), NEW anchor \in Nat, NEW ip \in Nat, NEW match \in Nat,
         NEW n, n = CatchUp(s, anchor, ip, match)
  PROVE  /\ n \in 0..match
         /\ \A m \in 0..(n - 1) : ip - m > anchor /\ At(s, ip - m - 1) = At(s, match - m - 1)
<1> DEFINE set == {k \in 0..(match - 1) :
                     ip - k > anchor /\ At(s, ip - k - 1) = At(s, match - k - 1)}
<1>1. match \notin set
  OBVIOUS
<1>2. n = Leading(set, match)
  BY DEF CatchUp
<1>3. n \in 0..match /\ n \notin set /\ \A m \in 0..(n - 1) : m \in set
  <2> HIDE DEF set
  <2> QED BY <1>1, <1>2, LeadingIs
<1> QED BY <1>3

(* Every position in a table is before p.                                   *)
Below(table, p) == \A h \in HASHES : table[h] < p

(* One step of the search keeps its state.                                  *)
LEMMA FurtherIs ==
  ASSUME NEW s \in Seq(Bytes), NEW at \in Search, ~AtEnd(s, at)
  PROVE  /\ HashOf(Word(s, at.ip)) \in HASHES
         /\ Match(s, at) \in Nat /\ Kept(s, at) \in Tables
         /\ Further(s, at) \in Search
         /\ Below(at.table, at.ip) => Match(s, at) < at.ip /\ Below(Kept(s, at), at.ip + 1)
<1> DEFINE h == HashOf(Word(s, at.ip))
<1>1. at.table \in [HASHES -> Nat] /\ at.ip \in Nat /\ at.step \in Nat /\ at.nb \in Nat
  BY DEF Search, Tables
<1>2. at.ip + MINMATCH <= Len(s)
  BY <1>1, Sizes, EndAssumption DEF AtEnd
<1>3. h \in HASHES
  BY <1>1, <1>2, WordHash
<1> HIDE DEF h
<1>4. Kept(s, at) = [at.table EXCEPT ![h] = at.ip] /\ Match(s, at) = at.table[h]
  BY DEF Kept, Match, h
<1>5. Kept(s, at) \in [HASHES -> Nat] /\ Match(s, at) \in Nat
  BY <1>1, <1>3, <1>4
<1>6. at.nb \div SKIP \in Nat
  <2>1. PICK k \in Nat \ {0}, n \in Nat : k = SKIP /\ n = at.nb
    BY <1>1, SearchAssumption
  <2>2. n \div k \in Nat
    BY DivMod
  <2> QED BY <2>1, <2>2
<1>7. Further(s, at) \in Search
  BY <1>1, <1>5, <1>6 DEF Further, Search, Tables
<1>8. ASSUME Below(at.table, at.ip)
      PROVE  Match(s, at) < at.ip /\ Below(Kept(s, at), at.ip + 1)
  <2>1. \A x \in HASHES : at.table[x] < at.ip /\ at.table[x] \in Nat
    BY <1>1, <1>8 DEF Below
  <2>2. \A x \in HASHES : Kept(s, at)[x] < at.ip + 1
    BY <1>1, <1>3, <1>4, <2>1
  <2> QED BY <1>3, <1>4, <2>1, <2>2 DEF Below
<1> QED BY <1>3, <1>5, <1>7, <1>8 DEF Tables, h

(* A search that is over.                                                   *)
Stopped(s) == {at \in Search : AtEnd(s, at) \/ Hit(s, at)}

IsFind(s, find) ==
  find = [at \in Search |-> IF AtEnd(s, at) \/ Hit(s, at) THEN Searched(s, at)
                            ELSE find[Further(s, at)]]

(* The search is the recursion that its definition writes.                  *)
LEMMA FindDef ==
  ASSUME NEW s \in Seq(Bytes)
  PROVE  \E find : /\ IsFind(s, find)
                   /\ \A start, from : Find(s, start, from) =
                        find[[table |-> start, ip |-> from, step |-> 1, nb |-> SKIP]]
<1> DEFINE next == [at \in Search |-> Further(s, at)]
           val  == [at \in Search |-> Searched(s, at)]
           find == CHOOSE f : f = [at \in Search |-> IF AtEnd(s, at) \/ Hit(s, at)
                                     THEN Searched(s, at) ELSE f[Further(s, at)]]
<1>1. \A at \in Search : at \notin Stopped(s) => next[at] \in Search
  BY FurtherIs DEF Stopped
<1>2. \E f : IsFind(s, f)
  <2> HIDE DEF next, val
  <2>1. PICK f : Solves(f, Search, Stopped(s), next, val)
    BY <1>1, TailRecursion
  <2> USE DEF next, val
  <2>2. \A at \in Search : (IF at \in Stopped(s) THEN val[at] ELSE f[next[at]])
                            = IF AtEnd(s, at) \/ Hit(s, at) THEN Searched(s, at)
                              ELSE f[Further(s, at)]
    BY DEF Stopped
  <2>3. [at \in Search |-> IF at \in Stopped(s) THEN val[at] ELSE f[next[at]]]
        = [at \in Search |-> IF AtEnd(s, at) \/ Hit(s, at) THEN Searched(s, at)
                             ELSE f[Further(s, at)]]
    BY <2>2
  <2> QED BY <2>1, <2>3 DEF IsFind, Solves
<1>3. IsFind(s, find)
  BY <1>2 DEF IsFind
<1>4. \A start, from : Find(s, start, from) =
         find[[table |-> start, ip |-> from, step |-> 1, nb |-> SKIP]]
  BY DEF Find
<1> HIDE DEF find
<1> QED BY <1>3, <1>4

(* What a search that goes on from at gives.                                *)
FoundBy(s, at, r) ==
  /\ r.found \in BOOLEAN
  /\ r.found =>
       /\ r.table \in Tables /\ r.ip \in Nat /\ r.match \in Nat
       /\ at.ip <= r.ip /\ r.ip < Len(s) - MFLIMIT
       /\ Word(s, r.match) = Word(s, r.ip)
       /\ r.ip - r.match <= MAX_DISTANCE
       /\ Below(at.table, at.ip) => r.match < r.ip /\ Below(r.table, r.ip + 1)

(* A search gives a match that an offset can express, or none.              *)
LEMMA FindIs ==
  ASSUME NEW s \in Seq(Bytes), NEW start \in Tables, NEW from \in Nat
  PROVE  LET r == Find(s, start, from)
         IN /\ r.found \in BOOLEAN
            /\ r.found =>
                 /\ r.table \in Tables /\ r.ip \in Nat /\ r.match \in Nat
                 /\ from <= r.ip /\ r.ip < Len(s) - MFLIMIT
                 /\ Word(s, r.match) = Word(s, r.ip)
                 /\ r.ip - r.match <= MAX_DISTANCE
                 /\ Below(start, from) => r.match < r.ip /\ Below(r.table, r.ip + 1)
<1>1. PICK find : /\ IsFind(s, find)
                  /\ \A st, fr : Find(s, st, fr) =
                       find[[table |-> st, ip |-> fr, step |-> 1, nb |-> SKIP]]
  BY FindDef
<1> DEFINE Going(at) == at \in Search /\ at.step >= 1 /\ at.nb >= SKIP
           T == {k \in Nat : \E at \in Search : /\ Going(at) /\ Len(s) - at.ip <= k
                                                 /\ ~FoundBy(s, at, find[at])}
<1>2. ASSUME NEW at \in Search, Going(at), AtEnd(s, at) PROVE FoundBy(s, at, find[at])
  <2>1. find[at] = [found |-> FALSE]
    BY <1>1, <1>2 DEF IsFind, Searched
  <2> QED BY <2>1 DEF FoundBy
<1>3. ASSUME NEW at \in Search, Going(at), ~AtEnd(s, at), Hit(s, at)
      PROVE  FoundBy(s, at, find[at])
  <2>1. find[at] = Searched(s, at)
    BY <1>1, <1>3 DEF IsFind
  <2>2. find[at] = [found |-> TRUE, ip |-> at.ip, match |-> Match(s, at), table |-> Kept(s, at)]
    BY <2>1, <1>3 DEF Searched
  <2>3. at.ip \in Nat /\ at.step \in Nat /\ at.ip + at.step <= Len(s) - MFLIMIT
    BY <1>3, Sizes DEF Search, AtEnd
  <2>4. /\ Match(s, at) \in Nat /\ Kept(s, at) \in Tables
        /\ Below(at.table, at.ip) => Match(s, at) < at.ip /\ Below(Kept(s, at), at.ip + 1)
    BY <1>3, FurtherIs
  <2>5. at.ip < Len(s) - MFLIMIT
    BY <1>3, <2>3, Sizes
  <2>6. at.ip - Match(s, at) <= MAX_DISTANCE
    BY <1>3, <2>3, <2>4, <2>5, Sizes DEF Hit
  <2>7. Word(s, Match(s, at)) = Word(s, at.ip)
    BY <1>3 DEF Hit
  <2> QED BY <2>2, <2>3, <2>4, <2>5, <2>6, <2>7 DEF FoundBy
<1>4. ASSUME NEW at \in Search, Going(at), ~AtEnd(s, at), ~Hit(s, at),
             FoundBy(s, Further(s, at), find[Further(s, at)])
      PROVE  FoundBy(s, at, find[at])
  <2>1. find[at] = find[Further(s, at)]
    BY <1>1, <1>4 DEF IsFind
  <2>2. at.ip \in Nat /\ at.step \in Nat /\ Further(s, at).ip = at.ip + at.step
    BY DEF Search, Further
  <2>3. ASSUME Below(at.table, at.ip) PROVE Below(Further(s, at).table, Further(s, at).ip)
    <3>1. Below(Kept(s, at), at.ip + 1) /\ Kept(s, at) \in [HASHES -> Nat]
      BY <1>4, <2>3, FurtherIs DEF Tables
    <3>2. \A h \in HASHES : Kept(s, at)[h] < at.ip + at.step
      BY <1>4, <2>2, <3>1 DEF Below
    <3> QED BY <2>2, <3>2 DEF Below, Further
  <2>4. \A n \in Nat : Further(s, at).ip <= n => at.ip <= n
    BY <2>2
  <2> QED BY <1>4, <2>1, <2>3, <2>4 DEF FoundBy
<1>5. ASSUME NEW at \in Search, Going(at), ~AtEnd(s, at)
      PROVE  /\ Further(s, at) \in Search /\ Going(Further(s, at))
             /\ Further(s, at).ip > at.ip /\ Further(s, at).ip <= Len(s)
  <2>1. Further(s, at) \in Search
    BY <1>5, FurtherIs
  <2>2. at.nb \div SKIP >= 1
    <3>1. PICK k \in Nat \ {0}, n \in Nat : k = SKIP /\ n = at.nb /\ n >= k
      BY <1>5, SearchAssumption DEF Search
    <3>2. PICK q \in Nat, r \in 0..(k - 1) : q = n \div k /\ n = k * q + r
      BY DivMod
    <3>3. q # 0
      BY <3>1, <3>2
    <3> QED BY <3>1, <3>2, <3>3
  <2>3. at.ip \in Nat /\ at.step \in Nat /\ at.nb \in Nat
    BY DEF Search
  <2>4. Further(s, at).step >= 1 /\ Further(s, at).nb >= SKIP
    BY <1>5, <2>2, <2>3, SearchAssumption DEF Further
  <2>5. Further(s, at).ip > at.ip /\ Further(s, at).ip <= Len(s)
    BY <1>5, <2>3, Sizes DEF Further, AtEnd
  <2> QED BY <2>1, <2>4, <2>5
<1>6. T = {}
  <2> SUFFICES ASSUME T # {} PROVE FALSE
    OBVIOUS
  <2>1. T \subseteq Nat
    OBVIOUS
  <2>2. PICK m \in T : \A n \in T : m <= n
    <3> HIDE DEF T
    <3> QED BY <2>1, Smallest
  <2>3. PICK at \in Search : /\ Going(at) /\ Len(s) - at.ip <= m
                             /\ ~FoundBy(s, at, find[at])
    BY <2>2
  <2> DEFINE to == Further(s, at)
  <2>4. ~AtEnd(s, at) /\ ~Hit(s, at)
    BY <2>3, <1>2, <1>3
  <2>5. to \in Search /\ Going(to) /\ to.ip > at.ip /\ to.ip <= Len(s) /\ ~FoundBy(s, to, find[to])
    BY <2>3, <2>4, <1>4, <1>5
  <2>6. at.ip \in Nat /\ to.ip \in Nat /\ m \in Nat /\ Len(s) \in Nat
    BY <2>2, <2>3, <2>5 DEF Search
  <2> HIDE DEF to
  <2>7. m - 1 \in Nat /\ Len(s) - to.ip <= m - 1
    BY <2>3, <2>5, <2>6
  <2>8. m - 1 \in T
    BY <2>5, <2>7
  <2>9. ~(m <= m - 1)
    BY <2>6
  <2> QED BY <2>2, <2>8, <2>9
<1> DEFINE at == [table |-> start, ip |-> from, step |-> 1, nb |-> SKIP]
<1>7. at \in Search /\ Going(at)
  BY SearchAssumption DEF Search
<1>8. FoundBy(s, at, find[at])
  <2> SUFFICES ASSUME ~FoundBy(s, at, find[at]) PROVE FALSE
    OBVIOUS
  <2>1. PICK k \in Nat : Len(s) - at.ip <= k
    OBVIOUS
  <2>2. k \in T
    BY <1>7, <2>1
  <2> QED BY <2>2, <1>6
<1>9. Find(s, start, from) = find[at] /\ at.ip = from /\ at.table = start
  BY <1>1
<1> HIDE DEF at
<1> QED BY <1>8, <1>9 DEF FoundBy

-----------------------------------------------------------------------------
(* Lengths.                                                                 *)

(* n is the mask, k whole bytes and r.                                      *)
IsRest(n, mask, k, r) ==
  /\ n = mask + k * BYTE_MAX + r /\ r < BYTE_MAX
  /\ Len(Rest(n, mask)) = k + 1 /\ Rest(n, mask)[k + 1] = r
  /\ \A i \in 1..k : Rest(n, mask)[i] = BYTE_MAX

(* A length above the mask is written as whole bytes and a smaller one.      *)
LEMMA RestIs ==
  ASSUME NEW n \in Int, NEW mask \in Nat
  PROVE  /\ Rest(n, mask) \in Seq(Nat)
         /\ n < mask => Rest(n, mask) = <<>>
         /\ n >= mask => \E k \in Nat, r \in Nat : IsRest(n, mask, k, r)
<1>1. CASE n < mask
  BY <1>1 DEF Rest
<1>2. CASE n >= mask
  <2>1. PICK B \in Nat \ {0} : B = BYTE_MAX
    BY Sizes
  <2>2. PICK d \in Nat : d = n - mask
    BY <1>2
  <2>3. PICK k \in Nat, r \in 0..(B - 1) : k = d \div B /\ r = d % B /\ d = B * k + r
    BY DivMod
  <2>4. B * k = k * B /\ k * B \in Nat
    OBVIOUS
  <2>5. n = mask + k * B + r
    BY <2>2, <2>3, <2>4
  <2> DEFINE u == [i \in 1..k |-> B]
             w == u \o <<r>>
  <2>6. Rest(n, mask) = w
    BY <1>2, <2>1, <2>2, <2>3 DEF Rest
  <2>7. u \in Seq(Nat) /\ Len(u) = k /\ \A i \in 1..k : u[i] = B
    OBVIOUS
  <2> HIDE DEF u
  <2>8. w \in Seq(Nat) /\ Len(w) = k + 1 /\ w[k + 1] = r /\ \A i \in 1..k : w[i] = B
    BY <2>7
  <2> HIDE DEF w
  <2>9. IsRest(n, mask, k, r)
    BY <2>1, <2>3, <2>5, <2>6, <2>8, SMTT(30) DEF IsRest
  <2> QED BY <1>2, <2>3, <2>6, <2>8, <2>9
<1> QED BY <1>1, <1>2

(* Numbers in a sequence.                                                   *)
LEMMA SequenceIs ==
  ASSUME NEW s \in Seq(Bytes), NEW anchor \in Nat, NEW ip \in Nat, NEW match \in Nat,
         NEW more \in Nat, ip <= Len(s)
  PROVE  /\ Sequence(s, anchor, ip, match, more) \in Seq(Int)
         /\ anchor <= ip => Sequence(s, anchor, ip, match, more) \in Seq(Nat)
<1>1. PICK B \in Nat \ {0}, M \in Nat, lit \in Int, off \in Int :
         B = BYTE_MAX + 1 /\ M = ML_MASK + 1 /\ lit = ip - anchor /\ off = ip - match
  BY Sizes
<1> DEFINE token == Nibble(lit, RUN_MASK) * M + Nibble(more, ML_MASK)
           lits  == SubSeq(s, anchor + 1, ip)
           u     == Rest(lit, RUN_MASK)
           v     == Rest(more, ML_MASK)
           o     == <<off % B, (off \div B) % B>>
<1>2. token \in Int /\ (anchor <= ip => token \in Nat)
  <2>0. /\ Nibble(lit, RUN_MASK) \in Int /\ Nibble(more, ML_MASK) \in Nat
        /\ anchor <= ip => Nibble(lit, RUN_MASK) \in Nat
    <3>1. RUN_MASK \in Nat /\ ML_MASK \in Nat
      BY Sizes
    <3>2. lit \in Int /\ (anchor <= ip => lit \in Nat)
      BY <1>1
    <3> QED BY <3>1, <3>2 DEF Nibble
  <2>1. PICK x \in Int, y \in Nat : x = Nibble(lit, RUN_MASK) /\ y = Nibble(more, ML_MASK)
    BY <2>0
  <2>2. x * M \in Int /\ (x \in Nat => x * M \in Nat)
    OBVIOUS
  <2> QED BY <2>0, <2>1, <2>2
<1>3. u \in Seq(Nat) /\ v \in Seq(Nat)
  <2>1. RUN_MASK \in Nat /\ ML_MASK \in Nat /\ lit \in Int /\ more \in Int
    BY Sizes, <1>1
  <2> QED BY <2>1, RestIs
<1>4. lits \in Seq(Nat)
  <2>1. \A i \in (anchor + 1)..ip : s[i] \in Nat
    BY Sizes DEF Bytes
  <2> QED BY <2>1, SubSeqProperties
<1>5. o \in Seq(Nat)
  <2>1. off % B \in Nat /\ off \div B \in Int
    OBVIOUS
  <2>2. PICK q \in Int : q = off \div B
    BY <2>1
  <2>3. q % B \in Nat
    OBVIOUS
  <2> QED BY <2>1, <2>2, <2>3
<1>6. Sequence(s, anchor, ip, match, more) = <<token>> \o u \o lits \o o \o v
  BY <1>1 DEF Sequence
<1> HIDE DEF token, lits, u, v, o
<1>7. Nat \subseteq Int /\ \A w \in Seq(Nat) : w \in Seq(Int)
  OBVIOUS
<1>8. <<token>> \in Seq(Int) /\ (anchor <= ip => <<token>> \in Seq(Nat))
  BY <1>2
<1>9. u \o lits \o o \o v \in Seq(Nat)
  BY <1>3, <1>4, <1>5
<1>10. <<token>> \o u \o lits \o o \o v \in Seq(Int)
  BY <1>3, <1>4, <1>5, <1>7, <1>8
<1>11. anchor <= ip => <<token>> \o u \o lits \o o \o v \in Seq(Nat)
  BY <1>3, <1>4, <1>5, <1>8
<1> QED BY <1>6, <1>10, <1>11

-----------------------------------------------------------------------------
(* The blocks.                                                              *)

(* Where the next sequence begins.                                          *)
LEMMA AfterIs ==
  ASSUME NEW s \in Seq(Bytes), NEW at \in Emitting
  PROVE  /\ More(s, at) \in Nat /\ After(s, at) \in Nat /\ After(s, at) >= MINMATCH
         /\ After(s, at) = at.ip + MINMATCH + More(s, at)
         /\ at.ip \in Nat /\ at.match \in Nat /\ at.anchor \in Nat /\ at.table \in [HASHES -> Nat]
         /\ at.op \in Seq(Int)
<1>1. /\ at.ip \in Nat /\ at.match \in Nat /\ at.anchor \in Nat /\ at.table \in [HASHES -> Nat]
      /\ at.op \in Seq(Int)
  BY DEF Emitting, Tables
<1>2. /\ at.ip + MINMATCH \in Nat /\ at.match + MINMATCH \in Nat
      /\ Len(s) - LASTLITERALS \in Int /\ Len(s) - LASTLITERALS <= Len(s)
  BY <1>1, EndAssumption
<1>3. More(s, at) \in Nat
  <2>1. PICK i \in Nat, j \in Nat, k \in Int :
           i = at.ip + MINMATCH /\ j = at.match + MINMATCH /\ k = Len(s) - LASTLITERALS
    BY <1>2
  <2> QED BY <1>2, <2>1, CountIs DEF More
<1> QED BY <1>1, <1>3, EndAssumption DEF After

(* What the table says after a match that is not the last.                  *)
LEMMA FilledIs ==
  ASSUME NEW s \in Seq(Bytes), NEW at \in Emitting, ~EndsAfter(s, at)
  PROVE  /\ Filled(s, at) \in Tables /\ Again(s, at) \in Nat
         /\ Below(at.table, After(s, at)) =>
              Again(s, at) < After(s, at) /\ Below(Filled(s, at), After(s, at) + 1)
<1>1. PICK n \in Nat : n = After(s, at) /\ n >= 2 /\ n + MINMATCH <= Len(s)
  <2>1. PICK n \in Nat : n = After(s, at) /\ n >= MINMATCH
    BY AfterIs, Zenon
  <2>2. MFLIMIT = COPYLENGTH + MINMATCH
    BY Sizes, Zenon
  <2>3. ~(n > Len(s) - (COPYLENGTH + MINMATCH))
    BY <2>1, <2>2, Zenon DEF EndsAfter
  <2>4. n >= 2 /\ n + MINMATCH <= Len(s)
    BY <2>1, <2>3, Length0, EndAssumption
  <2> QED BY <2>1, <2>4, Zenon
<1>2. PICK p \in Nat : p = n - 2
  BY <1>1
<1>3. PICK g \in HASHES, h \in HASHES : g = HashOf(Word(s, p)) /\ h = HashOf(Word(s, n))
  BY <1>1, <1>2, WordHash, EndAssumption
<1>4. at.table \in [HASHES -> Nat]
  BY AfterIs
<1>5. Back(s, at) = [at.table EXCEPT ![g] = p]
  BY <1>1, <1>2, <1>3 DEF Back
<1>6. Filled(s, at) = [Back(s, at) EXCEPT ![h] = n] /\ Again(s, at) = Back(s, at)[h]
  BY <1>1, <1>3 DEF Filled, Again
<1>7. Back(s, at) \in [HASHES -> Nat] /\ Filled(s, at) \in [HASHES -> Nat]
  BY <1>4, <1>5, <1>6
<1>8. ASSUME Below(at.table, n) PROVE Again(s, at) < n /\ Below(Filled(s, at), n + 1)
  <2>1. \A x \in HASHES : at.table[x] < n
    BY <1>8 DEF Below
  <2>2. \A x \in HASHES : Back(s, at)[x] < n /\ Back(s, at)[x] \in Nat
    BY <2>1, <1>2, <1>4, <1>5, <1>7
  <2>3. \A x \in HASHES : Filled(s, at)[x] < n + 1
    BY <2>2, <1>6, <1>7
  <2> QED BY <2>2, <2>3, <1>6 DEF Below
<1> QED BY <1>1, <1>6, <1>7, <1>8 DEF Tables

(* A match that a search found, from its first byte on.                     *)
LEMMA CaughtIs ==
  ASSUME NEW s \in Seq(Bytes), NEW anchor \in Nat, NEW op \in Seq(Int),
         NEW start \in Tables, NEW from \in Nat, anchor <= from,
         NEW f, f = Find(s, start, from), f.found
  PROVE  /\ Caught(s, anchor, f, op) \in Emitting
         /\ Caught(s, anchor, f, op).anchor = anchor /\ Caught(s, anchor, f, op).op = op
         /\ anchor <= Caught(s, anchor, f, op).ip
<1>1. f.table \in Tables /\ f.ip \in Nat /\ f.match \in Nat /\ from <= f.ip
  BY FindIs
<1>2. PICK ip \in Nat, match \in Nat : ip = f.ip /\ match = f.match /\ anchor <= ip
  BY <1>1
<1>3. PICK n : n = CatchUp(s, anchor, ip, match)
  OBVIOUS
<1>4. n \in 0..match
  BY <1>3, CatchUpIs
<1>5. \A m \in 0..(n - 1) : ip - m > anchor
  BY <1>3, CatchUpIs
<1>6. ip - n >= anchor
  <2>1. CASE n = 0
    BY <2>1, <1>2
  <2>2. CASE n # 0
    <3>1. n - 1 \in 0..(n - 1)
      BY <1>4, <2>2
    <3>2. ip - (n - 1) > anchor
      BY <1>5, <3>1
    <3> QED BY <3>2, <1>4
  <2> QED BY <2>1, <2>2
<1>7. ip - n \in Nat /\ match - n \in Nat
  BY <1>4, <1>6
<1> QED BY <1>1, <1>2, <1>3, <1>6, <1>7 DEF Caught, Emitting

(* The loop over the matches keeps its state.                               *)
LEMMA NextMatchIs ==
  ASSUME NEW s \in Seq(Bytes), NEW at \in Emitting, ~LastMatch(s, at)
  PROVE  /\ NextMatch(s, at) \in Emitting
         /\ NextMatch(s, at).anchor = After(s, at) /\ NextMatch(s, at).op = Out(s, at)
         /\ After(s, at) <= NextMatch(s, at).ip
<1>1. ~EndsAfter(s, at)
  BY DEF LastMatch
<1>2. Filled(s, at) \in Tables /\ Again(s, at) \in Nat
  BY <1>1, FilledIs
<1>3. After(s, at) \in Nat /\ at.ip \in Nat /\ at.ip <= Len(s)
  BY <1>1, AfterIs, Sizes, EndAssumption DEF EndsAfter
<1>4. Out(s, at) \in Seq(Int)
  <2>1. Sequence(s, at.anchor, at.ip, at.match, More(s, at)) \in Seq(Int)
    BY <1>3, AfterIs, SequenceIs
  <2> QED BY <2>1, AfterIs DEF Out
<1>5. CASE AtOnce(s, at)
  BY <1>2, <1>3, <1>4, <1>5 DEF NextMatch, Emitting
<1>6. CASE ~AtOnce(s, at)
  <2>1. FoundAfter(s, at).found
    BY <1>6, <1>1 DEF LastMatch
  <2>2. PICK n \in Nat, from \in Nat : n = After(s, at) /\ from = n + 1
    BY <1>3
  <2>3. FoundAfter(s, at) = Find(s, Filled(s, at), from)
    BY <2>2 DEF FoundAfter
  <2>4. NextMatch(s, at) = Caught(s, n, FoundAfter(s, at), Out(s, at))
    BY <1>6, <2>2 DEF NextMatch
  <2> QED BY <2>1, <2>2, <2>3, <2>4, <1>2, <1>4, CaughtIs
<1> QED BY <1>5, <1>6

IsEmit(s, emit) ==
  emit = [at \in Emitting |-> IF LastMatch(s, at) THEN LastLiterals(s, After(s, at), Out(s, at))
                              ELSE emit[NextMatch(s, at)]]

(* The loop is the recursion that its definition writes.                    *)
LEMMA BlocksDef ==
  ASSUME NEW s \in Seq(Bytes)
  PROVE  IsEmit(s, Blocks(s))
<1> DEFINE next == [at \in Emitting |-> NextMatch(s, at)]
           val  == [at \in Emitting |-> LastLiterals(s, After(s, at), Out(s, at))]
           T    == {at \in Emitting : LastMatch(s, at)}
           emit == CHOOSE f : f = [at \in Emitting |->
                     IF LastMatch(s, at) THEN LastLiterals(s, After(s, at), Out(s, at))
                     ELSE f[NextMatch(s, at)]]
<1>1. \A at \in Emitting : at \notin T => next[at] \in Emitting
  BY NextMatchIs
<1>2. \E f : IsEmit(s, f)
  <2> HIDE DEF next, val, T
  <2>1. PICK f : Solves(f, Emitting, T, next, val)
    BY <1>1, TailRecursion
  <2> USE DEF next, val, T
  <2>2. \A at \in Emitting : (IF at \in T THEN val[at] ELSE f[next[at]])
          = IF LastMatch(s, at) THEN LastLiterals(s, After(s, at), Out(s, at))
            ELSE f[NextMatch(s, at)]
    OBVIOUS
  <2>3. [at \in Emitting |-> IF at \in T THEN val[at] ELSE f[next[at]]]
        = [at \in Emitting |-> IF LastMatch(s, at) THEN LastLiterals(s, After(s, at), Out(s, at))
                               ELSE f[NextMatch(s, at)]]
    BY <2>2
  <2> QED BY <2>1, <2>3 DEF IsEmit, Solves
<1>3. IsEmit(s, emit)
  BY <1>2 DEF IsEmit
<1>4. Blocks(s) = emit
  BY DEF Blocks
<1> QED BY <1>3, <1>4

(* A match that the loop is at: it fits in an offset, and is equal over at    *)
(* least a word beyond every position of the table.                         *)
Matches(s, at, m) ==
  /\ at.ip + m < Len(s) - MFLIMIT + 1
  /\ Below(at.table, at.ip + m + 1)
  /\ \A k \in 1..(m + MINMATCH) : s[at.ip + k] = s[at.match + k]

Emits(s, at) ==
  /\ at \in Emitting /\ at.op \in Seq(Nat)
  /\ at.anchor <= at.ip /\ at.match < at.ip /\ at.ip - at.match <= MAX_DISTANCE
  /\ \E m \in Nat : Matches(s, at, m)

(* What is written of a match is equal, and ends before the last literals.   *)
LEMMA EmitsAfter ==
  ASSUME NEW s \in Seq(Bytes), NEW at, Emits(s, at)
  PROVE  /\ After(s, at) <= Len(s) - LASTLITERALS
         /\ at.ip + MINMATCH <= After(s, at) /\ at.ip <= Len(s) - MFLIMIT
         /\ Below(at.table, After(s, at))
         /\ \A k \in 1..(MINMATCH + More(s, at)) : s[at.ip + k] = s[at.match + k]
<1>1. PICK m \in Nat : Matches(s, at, m)
  BY DEF Emits
<1>2. PICK c \in Nat, ip \in Nat, match \in Nat :
         /\ c = More(s, at) /\ ip = at.ip /\ match = at.match /\ match < ip
         /\ After(s, at) = ip + MINMATCH + c
  BY AfterIs DEF Emits
<1>N. Len(s) \in Nat /\ MINMATCH \in Nat /\ LASTLITERALS \in Nat
  BY Length0, EndAssumption
<1>0. ip + MINMATCH \in Nat /\ match + MINMATCH \in Nat /\ Len(s) - LASTLITERALS \in Int
  BY <1>N
<1>3. PICK i \in Nat, j \in Nat, limit \in Int :
         i = ip + MINMATCH /\ j = match + MINMATCH /\ limit = Len(s) - LASTLITERALS
  BY <1>0
<1>4. limit <= Len(s) /\ c = LZ4_count(s, i, j, limit)
  BY <1>2, <1>3, EndAssumption DEF More
<1>5. /\ \A x \in 0..(c - 1) : i + x < limit /\ At(s, j + x) = At(s, i + x)
      /\ i + c >= limit \/ At(s, j + c) # At(s, i + c)
  <2>1. \A x \in 0..(c - 1) : i + x < limit /\ At(s, j + x) = At(s, i + x)
    BY <1>4, CountIs
  <2>2. i + c >= limit \/ At(s, j + c) # At(s, i + c)
    BY <1>4, CountIs
  <2> QED BY <2>1, <2>2
<1>6. i + m <= limit /\ i <= limit
  <2>1. ip + m < Len(s) - MFLIMIT + 1
    BY <1>1, <1>2 DEF Matches
  <2> QED BY <2>1, <1>3, <1>N, Sizes, EndAssumption
<1>7. i + c <= limit
  <2>1. CASE c = 0
    BY <2>1, <1>6
  <2>2. CASE c # 0
    <3>1. c - 1 \in 0..(c - 1)
      BY <2>2
    <3>2. i + (c - 1) < limit
      BY <3>1, <1>5
    <3> QED BY <3>2
  <2> QED BY <2>1, <2>2
<1>8. ASSUME NEW x \in Nat, i + x < limit
      PROVE  At(s, i + x) = s[ip + (MINMATCH + x + 1)] /\ At(s, j + x) = s[match + (MINMATCH + x + 1)]
  <2>1. i + x < Len(s) /\ j + x < Len(s)
    <3>1. match < ip /\ i = ip + MINMATCH /\ j = match + MINMATCH /\ limit <= Len(s)
      BY <1>2, <1>3, <1>4
    <3> QED BY <3>1, <1>8, <1>N
  <2>2. i + x + 1 = ip + (MINMATCH + x + 1) /\ j + x + 1 = match + (MINMATCH + x + 1)
    BY <1>3, EndAssumption
  <2> QED BY <2>1, <2>2 DEF At
<1>9. c >= m
  <2> SUFFICES ASSUME c < m PROVE FALSE
    OBVIOUS
  <2>1. i + c < limit
    BY <1>6
  <2>2. MINMATCH + c + 1 \in 1..(m + MINMATCH)
    BY EndAssumption
  <2>3. s[ip + (MINMATCH + c + 1)] = s[match + (MINMATCH + c + 1)]
    BY <2>2, <1>1, <1>2 DEF Matches
  <2>4. At(s, i + c) = At(s, j + c)
    BY <2>1, <2>3, <1>8
  <2> QED BY <2>1, <2>4, <1>5
<1>10. \A k \in 1..(MINMATCH + c) : s[ip + k] = s[match + k]
  <2> TAKE k \in 1..(MINMATCH + c)
  <2>1. CASE k <= MINMATCH
    <3>1. k \in 1..(m + MINMATCH)
      BY <2>1, EndAssumption
    <3> QED BY <3>1, <1>1, <1>2 DEF Matches
  <2>2. CASE k > MINMATCH
    <3>1. PICK x \in 0..(c - 1) : x = k - MINMATCH - 1
      BY <2>2, EndAssumption
    <3>2. i + x < limit /\ At(s, j + x) = At(s, i + x)
      BY <1>5
    <3>3. s[ip + (MINMATCH + x + 1)] = s[match + (MINMATCH + x + 1)]
      BY <3>2, <1>8
    <3>4. k = MINMATCH + x + 1
      BY <3>1, EndAssumption
    <3> QED BY <3>3, <3>4
  <2> QED BY <2>1, <2>2, EndAssumption
<1>11. Below(at.table, ip + MINMATCH + c)
  <2>1. \A h \in HASHES : at.table[h] \in Nat /\ at.table[h] < ip + m + 1
    BY <1>1, <1>2, AfterIs DEF Emits, Matches, Below
  <2>2. ip + m + 1 <= ip + MINMATCH + c
    BY <1>9, EndAssumption
  <2>3. \A h \in HASHES : at.table[h] < ip + MINMATCH + c
    BY <2>1, <2>2, EndAssumption
  <2> QED BY <2>3 DEF Below
<1>12. ip <= Len(s) - MFLIMIT
  BY <1>1, <1>2, Sizes, SMTT(30) DEF Matches
<1> QED BY <1>2, <1>3, <1>7, <1>10, <1>11, <1>12, EndAssumption

(* A match from its first byte on is one the loop may be at.                *)
LEMMA CaughtEmits ==
  ASSUME NEW s \in Seq(Bytes), NEW anchor \in Nat, NEW op \in Seq(Nat),
         NEW start \in Tables, NEW from \in Nat, anchor <= from, Below(start, from),
         NEW f, f = Find(s, start, from), f.found
  PROVE  Emits(s, Caught(s, anchor, f, op))
<1>1. /\ f.table \in Tables /\ f.ip \in Nat /\ f.match \in Nat /\ f.ip < Len(s) - MFLIMIT
      /\ Word(s, f.match) = Word(s, f.ip) /\ f.ip - f.match <= MAX_DISTANCE
      /\ f.match < f.ip /\ Below(f.table, f.ip + 1)
  BY FindIs
<1>2. PICK ip \in Nat, match \in Nat :
         /\ ip = f.ip /\ match = f.match /\ ip < Len(s) - MFLIMIT /\ match < ip
         /\ Word(s, match) = Word(s, ip) /\ ip - match <= MAX_DISTANCE
  BY <1>1
<1>3. PICK n : n = CatchUp(s, anchor, ip, match)
  OBVIOUS
<1>4. n \in 0..match
  BY <1>3, CatchUpIs
<1>5. \A m \in 0..(n - 1) : At(s, ip - m - 1) = At(s, match - m - 1)
  BY <1>3, CatchUpIs
<1> DEFINE c == Caught(s, anchor, f, op)
<1>6. c \in Emitting /\ c.anchor = anchor /\ c.op = op /\ anchor <= c.ip
  <2>1. op \in Seq(Int)
    OBVIOUS
  <2>2. c \in Emitting
    BY <2>1, CaughtIs
  <2>3. c.anchor = anchor /\ c.op = op
    BY DEF Caught
  <2>4. anchor <= c.ip
    BY <2>1, CaughtIs
  <2> QED BY <2>2, <2>3, <2>4
<1>7. PICK i \in Nat, j \in Nat : i = c.ip /\ j = c.match /\ i = ip - n /\ j = match - n
                                  /\ c.table = f.table
  <2>1. c.ip \in Nat /\ c.match \in Nat
    BY <1>6 DEF Emitting
  <2>2. c.ip = ip - n /\ c.match = match - n /\ c.table = f.table
    BY <1>2, <1>3 DEF Caught
  <2> QED BY <2>1, <2>2
<1> HIDE DEF c
<1>8. MINMATCH \in Nat /\ MFLIMIT \in Nat /\ MFLIMIT >= MINMATCH /\ Len(s) \in Nat
  BY Sizes, EndAssumption, Length0
<1>9. \A k \in 1..MINMATCH : s[match + k] = s[ip + k]
  <2>1. match + MINMATCH <= Len(s) /\ ip + MINMATCH <= Len(s)
    BY <1>2, <1>8
  <2> QED BY <1>2, <2>1, WordsEqual, SMTT(30)
<1>10. \A k \in 1..(n + MINMATCH) : s[i + k] = s[j + k]
  <2> TAKE k \in 1..(n + MINMATCH)
  <2>1. CASE k <= n
    <3>1. PICK m \in 0..(n - 1) : m = n - k
      BY <2>1, <1>4, <1>8
    <3>2. At(s, ip - m - 1) = At(s, match - m - 1)
      BY <1>5
    <3>3. ip - m - 1 < Len(s) /\ match - m - 1 < Len(s)
      BY <1>2, <1>4, <1>8, SMTT(30)
    <3>4. s[ip - m - 1 + 1] = s[match - m - 1 + 1]
      BY <3>2, <3>3 DEF At
    <3>5. ip - m - 1 + 1 = i + k /\ match - m - 1 + 1 = j + k
      BY <3>1, <1>4, <1>7, <1>8
    <3> QED BY <3>4, <3>5
  <2>2. CASE k > n
    <3>1. PICK l \in 1..MINMATCH : l = k - n
      BY <2>2, <1>4, <1>8
    <3>2. i + k = ip + l /\ j + k = match + l
      BY <3>1, <1>4, <1>7, <1>8
    <3> QED BY <3>2, <1>9
  <2> QED BY <2>1, <2>2, <1>4, <1>8
<1>11. Matches(s, c, n) /\ n \in Nat
  <2>1. i + n = ip /\ n \in Nat
    BY <1>4, <1>7
  <2>2. i + n < Len(s) - MFLIMIT + 1
    BY <2>1, <1>2, <1>8
  <2>3. Below(c.table, c.ip + n + 1)
    BY <1>1, <1>2, <1>7, <2>1
  <2> QED BY <2>1, <2>2, <2>3, <1>7, <1>10 DEF Matches
<1>12. c.match < c.ip /\ c.ip - c.match <= MAX_DISTANCE
  <2>0. match < ip /\ n \in Nat /\ i = ip - n /\ j = match - n
    BY <1>2, <1>4, <1>7
  <2>1. j < i /\ i - j = ip - match
    BY <2>0
  <2> QED BY <2>1, <1>2, <1>7
<1> QED BY <1>6, <1>11, <1>12 DEF Emits, c

(* The loop goes from one such match to the next.                           *)
LEMMA EmitsNext ==
  ASSUME NEW s \in Seq(Bytes), NEW at, Emits(s, at)
  PROVE  /\ Out(s, at) \in Seq(Nat)
         /\ ~LastMatch(s, at) => Emits(s, NextMatch(s, at))
<1>1. at \in Emitting
  BY DEF Emits
<1>2. Out(s, at) \in Seq(Nat)
  <2>1. at.ip <= Len(s) /\ at.anchor <= at.ip
    <3>1. at.ip <= Len(s) - MFLIMIT /\ at.anchor <= at.ip
      BY EmitsAfter DEF Emits
    <3>2. at.ip \in Nat /\ Len(s) \in Nat /\ MFLIMIT \in Nat
      BY <1>1, AfterIs, Length0, Sizes
    <3> QED BY <3>1, <3>2
  <2>2. Sequence(s, at.anchor, at.ip, at.match, More(s, at)) \in Seq(Nat)
    BY <2>1, <1>1, AfterIs, SequenceIs
  <2> QED BY <2>2 DEF Out, Emits
<1>3. ASSUME ~LastMatch(s, at) PROVE Emits(s, NextMatch(s, at))
  <2>1. ~EndsAfter(s, at)
    BY <1>3 DEF LastMatch
  <2>2. PICK n \in Nat : n = After(s, at) /\ n <= Len(s) - MFLIMIT
    BY <1>1, <2>1, AfterIs, Sizes DEF EndsAfter
  <2>3. /\ Filled(s, at) \in Tables /\ Again(s, at) \in Nat
        /\ Again(s, at) < n /\ Below(Filled(s, at), n + 1)
    BY <1>1, <2>1, <2>2, FilledIs, EmitsAfter
  <2>4. CASE AtOnce(s, at)
    <3> DEFINE to == NextMatch(s, at)
    <3>1. to = [table |-> Filled(s, at), anchor |-> n, ip |-> n, match |-> Again(s, at),
                op |-> Out(s, at)]
      BY <2>4, <2>2 DEF NextMatch
    <3>2. to \in Emitting
      BY <1>3, <1>1, NextMatchIs
    <3>3. n - Again(s, at) <= MAX_DISTANCE /\ Word(s, Again(s, at)) = Word(s, n)
      BY <2>2, <2>3, <2>4, Sizes, SMTT(30) DEF AtOnce
    <3>4. n + MINMATCH <= Len(s) /\ Again(s, at) + MINMATCH <= Len(s)
      BY <2>2, <2>3, Sizes, EndAssumption
    <3>5. \A k \in 1..MINMATCH : s[Again(s, at) + k] = s[n + k]
      BY <2>3, <3>3, <3>4, WordsEqual
    <3> HIDE DEF to
    <3>6. Matches(s, to, 0)
      <4>1. n + 0 < Len(s) - MFLIMIT + 1 /\ n + 0 + 1 = n + 1 /\ 0 + MINMATCH = MINMATCH
        BY <2>2, Sizes, EndAssumption
      <4> QED BY <4>1, <2>3, <3>1, <3>5 DEF Matches
    <3> QED BY <3>1, <3>2, <3>3, <3>6, <1>2, <2>3 DEF Emits, to
  <2>5. CASE ~AtOnce(s, at)
    <3>1. FoundAfter(s, at).found
      BY <2>5, <1>3, <2>1 DEF LastMatch
    <3>2. PICK from \in Nat : from = n + 1
      OBVIOUS
    <3>3. FoundAfter(s, at) = Find(s, Filled(s, at), from)
      BY <2>2, <3>2 DEF FoundAfter
    <3>4. NextMatch(s, at) = Caught(s, n, FoundAfter(s, at), Out(s, at))
      BY <2>5, <2>2 DEF NextMatch
    <3> QED BY <3>1, <3>2, <3>3, <3>4, <2>3, <1>2, CaughtEmits
  <2> QED BY <2>4, <2>5
<1> QED BY <1>2, <1>3

-----------------------------------------------------------------------------
(* Reading what was written.                                                *)

(* b has w at position p.                                                   *)
Reads(b, p, w) ==
  /\ p + Len(w) <= Len(b)
  /\ \A i \in 1..Len(w) : b[p + i] = w[i]

(* One part after the other.                                                *)
LEMMA ReadsBoth ==
  ASSUME NEW b \in Seq(Nat), NEW p \in Nat, NEW u \in Seq(Nat), NEW v \in Seq(Nat),
         Reads(b, p, u \o v)
  PROVE  Reads(b, p, u) /\ Reads(b, p + Len(u), v)
<1>1. PICK m \in Nat, n \in Nat : m = Len(u) /\ n = Len(v) /\ Len(u \o v) = m + n
  OBVIOUS
<1>0. \A i \in 1..(m + n) : (u \o v)[i] = IF i <= m THEN u[i] ELSE v[i - m]
  BY <1>1, ConcatProperties
<1>2. p + m + n <= Len(b) /\ \A i \in 1..(m + n) : b[p + i] = (u \o v)[i]
  <2>1. p + Len(u \o v) <= Len(b) /\ \A i \in 1..Len(u \o v) : b[p + i] = (u \o v)[i]
    BY Zenon DEF Reads
  <2>2. p + (m + n) <= Len(b) /\ \A i \in 1..(m + n) : b[p + i] = (u \o v)[i]
    BY <1>1, <2>1, Zenon
  <2>3. p + (m + n) = p + m + n
    OBVIOUS
  <2> QED BY <2>2, <2>3
<1>3. \A i \in 1..m : b[p + i] = u[i]
  <2> TAKE i \in 1..m
  <2>1. i \in 1..(m + n) /\ i <= m
    OBVIOUS
  <2> QED BY <2>1, <1>0, <1>2
<1>4. \A i \in 1..n : b[p + m + i] = v[i]
  <2> TAKE i \in 1..n
  <2>1. m + i \in 1..(m + n) /\ ~(m + i <= m) /\ (m + i) - m = i /\ p + m + i = p + (m + i)
    OBVIOUS
  <2>2. (u \o v)[m + i] = v[i]
    BY <2>1, <1>0
  <2> QED BY <2>1, <2>2, <1>2
<1>5. p + m <= Len(b) /\ p + m + n <= Len(b)
  BY <1>2
<1> QED BY <1>1, <1>3, <1>4, <1>5 DEF Reads

(* A byte that is there.                                                    *)
LEMMA AtReads ==
  ASSUME NEW b \in Seq(Nat), NEW p \in Nat, p < Len(b)
  PROVE  At(b, p) = b[p + 1] /\ At(b, p) \in Nat
BY DEF At

(* The bytes of a length are there: k whole ones and the last.              *)
HasRest(b, p, k, r) ==
  /\ p + k + 1 <= Len(b) /\ At(b, p + k) = r /\ r # BYTE_MAX
  /\ \A i \in 0..(k - 1) : At(b, p + i) = BYTE_MAX

(* The bytes of a length are read as they were written.                     *)
LEMMA RestRead ==
  ASSUME NEW b \in Seq(Nat), NEW p \in Nat, NEW n \in Nat, NEW mask \in Nat,
         NEW k \in Nat, NEW r \in Nat, IsRest(n, mask, k, r), Reads(b, p, Rest(n, mask))
  PROVE  HasRest(b, p, k, r)
<1>1. /\ r < BYTE_MAX
      /\ Len(Rest(n, mask)) = k + 1 /\ Rest(n, mask)[k + 1] = r
      /\ \A i \in 1..k : Rest(n, mask)[i] = BYTE_MAX
  BY DEF IsRest
<1>2. p + (k + 1) <= Len(b) /\ \A i \in 1..(k + 1) : b[p + i] = Rest(n, mask)[i]
  BY <1>1 DEF Reads
<1>3. At(b, p + k) = r
  <2>1. p + k < Len(b) /\ p + k \in Nat /\ p + k + 1 = p + (k + 1) /\ k + 1 \in 1..(k + 1)
    BY <1>2, SMTT(30)
  <2>2. At(b, p + k) = b[p + (k + 1)]
    BY <2>1 DEF At
  <2> QED BY <2>1, <2>2, <1>1, <1>2
<1>4. \A i \in 0..(k - 1) : At(b, p + i) = BYTE_MAX
  <2> TAKE i \in 0..(k - 1)
  <2>1. p + i < Len(b) /\ p + i \in Nat /\ p + i + 1 = p + (i + 1)
    BY <1>2
  <2>2. i + 1 \in 1..(k + 1) /\ i + 1 \in 1..k
    OBVIOUS
  <2>3. At(b, p + i) = b[p + (i + 1)]
    BY <2>1 DEF At
  <2> QED BY <2>2, <2>3, <1>1, <1>2
<1>5. r # BYTE_MAX
  BY <1>1, Sizes
<1>6. p + k + 1 <= Len(b)
  BY <1>2
<1> QED BY <1>3, <1>4, <1>5, <1>6 DEF HasRest

(* The length of the literals is read as it was written.                    *)
LEMMA RunRead ==
  ASSUME NEW b \in Seq(Nat), NEW p \in Nat, NEW n \in Nat, n >= RUN_MASK,
         Reads(b, p, Rest(n, RUN_MASK)), p + Len(Rest(n, RUN_MASK)) + n <= Len(b)
  PROVE  RunLength(b, p, RUN_MASK) = <<n, p + Len(Rest(n, RUN_MASK))>>
<1>0. PICK k \in Nat, r \in Nat : IsRest(n, RUN_MASK, k, r)
  <2>1. n \in Int /\ RUN_MASK \in Nat
    BY Sizes
  <2> QED BY <2>1, RestIs
<1>H. HasRest(b, p, k, r)
  BY <1>0, RestRead, Sizes
<1>1. /\ n = RUN_MASK + k * BYTE_MAX + r /\ r # BYTE_MAX
      /\ Len(Rest(n, RUN_MASK)) = k + 1 /\ p + k + 1 <= Len(b)
      /\ At(b, p + k) = r /\ \A i \in 0..(k - 1) : At(b, p + i) = BYTE_MAX
  BY <1>0, <1>H DEF IsRest, HasRest
<1> DEFINE set == {i \in 0..Len(b) : p + i + 1 < Len(b) - RUN_MASK /\ At(b, p + i) = BYTE_MAX}
<1>2. Len(b) \in Nat /\ RUN_MASK \in Nat
  BY Sizes
<1>3. Len(b) \notin set /\ k \in 0..Len(b) /\ k \notin set
  <2>1. ~(p + Len(b) + 1 < Len(b) - RUN_MASK)
    BY <1>2
  <2>2. k \in 0..Len(b) /\ At(b, p + k) # BYTE_MAX
    BY <1>1, <1>2
  <2> QED BY <2>1, <2>2
<1>4. \A i \in 0..(k - 1) : i \in set
  <2> TAKE i \in 0..(k - 1)
  <2>1. p + (k + 1) + n <= Len(b)
    BY <1>1
  <2>2. i \in 0..Len(b) /\ p + i + 1 < Len(b) - RUN_MASK
    BY <2>1, <1>2
  <2> QED BY <2>2, <1>1
<1>5. Leading(set, Len(b)) = k
  <2> HIDE DEF set
  <2> QED BY <1>2, <1>3, <1>4, LeadingUnique
<1>6. RunLength(b, p, RUN_MASK) = <<RUN_MASK + k * BYTE_MAX + At(b, p + k), p + k + 1>>
  BY <1>5 DEF RunLength
<1>7. p + (k + 1) = p + k + 1
  OBVIOUS
<1> QED BY <1>1, <1>6, <1>7

(* The length of a match is read as it was written.                         *)
LEMMA MatchRead ==
  ASSUME NEW b \in Seq(Nat), NEW p \in Nat, NEW n \in Nat, n >= ML_MASK,
         Reads(b, p, Rest(n, ML_MASK)),
         p + Len(Rest(n, ML_MASK)) + LASTLITERALS <= Len(b)
  PROVE  MatchLength(b, p, ML_MASK) = <<n, p + Len(Rest(n, ML_MASK))>>
<1>0. PICK k \in Nat, r \in Nat : IsRest(n, ML_MASK, k, r)
  <2>1. n \in Int /\ ML_MASK \in Nat
    BY Sizes
  <2> QED BY <2>1, RestIs
<1>H. HasRest(b, p, k, r)
  BY <1>0, RestRead, Sizes
<1>1. /\ n = ML_MASK + k * BYTE_MAX + r /\ r # BYTE_MAX
      /\ Len(Rest(n, ML_MASK)) = k + 1 /\ p + k + 1 <= Len(b)
      /\ At(b, p + k) = r /\ \A i \in 0..(k - 1) : At(b, p + i) = BYTE_MAX
  BY <1>0, <1>H DEF IsRest, HasRest
<1> DEFINE set == {i \in 0..Len(b) : p + i <= Len(b) - LASTLITERALS /\ At(b, p + i) = BYTE_MAX}
<1>2. Len(b) \in Nat /\ LASTLITERALS \in Nat \ {0}
  BY EndAssumption
<1>3. Len(b) \notin set /\ k \in 0..Len(b) /\ k \notin set
  BY <1>1, <1>2
<1>4. p + (k + 1) + LASTLITERALS <= Len(b)
  BY <1>1
<1>5. \A i \in 0..(k - 1) : i \in set
  <2> TAKE i \in 0..(k - 1)
  <2>1. i \in 0..Len(b) /\ p + i <= Len(b) - LASTLITERALS
    BY <1>4, <1>2
  <2> QED BY <2>1, <1>1
<1>6. Leading(set, Len(b)) = k
  <2> HIDE DEF set
  <2> QED BY <1>2, <1>3, <1>5, LeadingUnique
<1>7. ~(p + k > Len(b) - LASTLITERALS)
  BY <1>4, <1>2
<1>8. MatchLength(b, p, ML_MASK) = <<ML_MASK + k * BYTE_MAX + At(b, p + k), p + k + 1>>
  BY <1>6, <1>7 DEF MatchLength
<1>9. p + (k + 1) = p + k + 1
  OBVIOUS
<1> QED BY <1>1, <1>8, <1>9

(* A token and its literals.                                                *)
Token(lit, low) == Nibble(lit, RUN_MASK) * (ML_MASK + 1) + low

Literals(lit, low, w) == <<Token(lit, low)>> \o Rest(lit, RUN_MASK) \o w

(* What a token says is what was put in it.                                 *)
LEMMA TokenRead ==
  ASSUME NEW lit \in Nat, NEW low \in 0..ML_MASK
  PROVE  /\ Token(lit, low) \in Nat
         /\ Token(lit, low) \div (ML_MASK + 1) = Nibble(lit, RUN_MASK)
         /\ Token(lit, low) % (ML_MASK + 1) = low
         /\ Nibble(lit, RUN_MASK) \in Nat
<1>1. PICK M \in Nat \ {0} : M = ML_MASK + 1 /\ low \in 0..(M - 1)
  BY Sizes
<1>2. PICK x \in Nat : x = Nibble(lit, RUN_MASK)
  BY Sizes DEF Nibble
<1>3. x * M + low \in Nat
  <2>1. x * M \in Nat
    OBVIOUS
  <2> QED BY <2>1, <1>1
<1> QED BY <1>1, <1>2, <1>3, Digits DEF Token

(* The literals of a sequence are read as they were written.                *)
LEMMA LiteralsRead ==
  ASSUME NEW b \in Seq(Nat), NEW at \in Decoding, NEW lit \in Nat, NEW low \in 0..ML_MASK,
         NEW w \in Seq(Nat), Len(w) = lit, Reads(b, at.ip, Literals(lit, low, w))
  PROVE  /\ LiteralRun(b, at) = <<lit, at.ip + 1 + Len(Rest(lit, RUN_MASK))>>
         /\ Upto(b, at) = at.ip + 1 + Len(Rest(lit, RUN_MASK)) + lit
         /\ Upto(b, at) = at.ip + Len(Literals(lit, low, w))
         /\ Copied(b, at) = at.out \o w
         /\ At(b, at.ip) % (ML_MASK + 1) = low
         /\ Rest(lit, RUN_MASK) \in Seq(Nat)
<1>1. PICK p \in Nat, out \in Seq(Nat) : p = at.ip /\ out = at.out
  BY DEF Decoding
<1> DEFINE u == Rest(lit, RUN_MASK)
           token == Token(lit, low)
<1>2. RUN_MASK \in Nat \ {0} /\ u \in Seq(Nat) /\ token \in Nat
  <2>1. RUN_MASK \in Nat \ {0} /\ lit \in Int
    BY Sizes
  <2>2. u \in Seq(Nat)
    BY <2>1, RestIs
  <2>3. token \in Nat
    BY TokenRead
  <2> QED BY <2>1, <2>2, <2>3
<1>3. PICK m \in Nat : m = Len(u)
  BY <1>2
<1>4. Literals(lit, low, w) = <<token>> \o (u \o w)
  BY <1>2, SMTT(30) DEF Literals
<1> HIDE DEF u, token
<1>5. <<token>> \in Seq(Nat) /\ Len(<<token>>) = 1 /\ u \o w \in Seq(Nat) /\ Len(u \o w) = m + lit
  <2>1. <<token>> \in Seq(Nat) /\ Len(<<token>>) = 1
    BY <1>2
  <2>2. u \o w \in Seq(Nat) /\ Len(u \o w) = m + lit
    BY <1>2, <1>3, ConcatProperties
  <2> QED BY <2>1, <2>2
<1>6. Reads(b, p, <<token>>) /\ Reads(b, p + 1, u \o w)
  <2>1. PICK x \in Seq(Nat), y \in Seq(Nat) : x = <<token>> /\ y = u \o w /\ Len(x) = 1
    BY <1>5
  <2>2. Reads(b, p, x \o y)
    BY <2>1, <1>1, <1>4
  <2>3. Reads(b, p, x) /\ Reads(b, p + Len(x), y)
    BY <2>2, ReadsBoth
  <2> QED BY <2>1, <2>3
<1>7. Reads(b, p + 1, u) /\ Reads(b, p + 1 + m, w)
  <2>1. p + 1 \in Nat
    OBVIOUS
  <2> QED BY <2>1, <1>2, <1>3, <1>6, ReadsBoth
<1>8. At(b, p) = token
  <2>1. p + 1 <= Len(b) /\ b[p + 1] = token
    BY <1>5, <1>6, SMTT(30) DEF Reads
  <2> QED BY <2>1, AtReads
<1>9. /\ token \div (ML_MASK + 1) = Nibble(lit, RUN_MASK)
      /\ token % (ML_MASK + 1) = low
  BY TokenRead DEF token
<1>10. p + 1 + m + lit <= Len(b)
  BY <1>7 DEF Reads
<1>11. LiteralRun(b, at) = <<lit, p + 1 + m>>
  <2>1. CASE lit < RUN_MASK
    <3>1. Nibble(lit, RUN_MASK) = lit /\ lit # RUN_MASK
      BY <2>1, <1>2 DEF Nibble
    <3>2. m = 0
      BY <2>1, <1>2, <1>3, RestIs DEF u
    <3>3. p + 1 + 0 = p + 1
      OBVIOUS
    <3> QED BY <3>1, <3>2, <3>3, <1>1, <1>8, <1>9 DEF LiteralRun
  <2>2. CASE lit >= RUN_MASK
    <3>1. Nibble(lit, RUN_MASK) = RUN_MASK
      BY <2>2, <1>2 DEF Nibble
    <3>2. PICK q \in Nat : q = p + 1
      OBVIOUS
    <3>3. RunLength(b, q, RUN_MASK) = <<lit, q + m>>
      BY <2>2, <3>2, <1>3, <1>7, <1>10, RunRead DEF u
    <3> QED BY <3>1, <3>2, <3>3, <1>1, <1>8, <1>9 DEF LiteralRun
  <2> QED BY <2>1, <2>2, <1>2
<1>12. Upto(b, at) = p + 1 + m + lit
  BY <1>11 DEF Upto
<1>13. Copied(b, at) = out \o w
  <2>1. PICK q \in Nat : q = p + 1 + m /\ q + lit <= Len(b)
    BY <1>10
  <2>2. SubSeq(b, q + 1, q + lit) = w
    <3>1. /\ SubSeq(b, q + 1, q + lit) \in Seq(Nat) /\ Len(SubSeq(b, q + 1, q + lit)) = lit
          /\ \A k \in 1..lit : SubSeq(b, q + 1, q + lit)[k] = b[q + k]
      <4>1. \A k \in 1..lit : SubSeq(b, q + 1, q + lit)[k] = b[q + k]
        BY <2>1, SubSeqProperties
      <4>2. SubSeq(b, q + 1, q + lit) \in Seq(Nat) /\ Len(SubSeq(b, q + 1, q + lit)) = lit
        BY <2>1, Slice
      <4> QED BY <4>1, <4>2
    <3>2. \A k \in 1..lit : b[q + k] = w[k]
      BY <2>1, <1>7 DEF Reads
    <3>3. \A k \in 1..lit : SubSeq(b, q + 1, q + lit)[k] = w[k]
      BY <3>1, <3>2
    <3> QED BY <3>1, <3>3, SeqEqual
  <2>3. q + lit = Upto(b, at) /\ LiteralRun(b, at)[2] = q
    BY <2>1, <1>11, <1>12
  <2> QED BY <2>2, <2>3, <1>1 DEF Copied
<1>14. Len(Literals(lit, low, w)) = 1 + m + lit
  <2>0. PICK x \in Seq(Nat), y \in Seq(Nat) :
           x = <<token>> /\ y = u \o w /\ Len(x) = 1 /\ Len(y) = m + lit
    BY <1>5
  <2>1. Len(<<token>> \o (u \o w)) = 1 + (m + lit)
    <3>1. Len(x \o y) = Len(x) + Len(y)
      BY ConcatProperties
    <3> QED BY <3>1, <2>0
  <2>2. 1 + (m + lit) = 1 + m + lit
    OBVIOUS
  <2>3. Len(Literals(lit, low, w)) = 1 + (m + lit)
    BY <2>1, <1>4
  <2> QED BY <2>2, <2>3
<1>15. p + 1 + m + lit = p + (1 + m + lit)
  OBVIOUS
<1> QED BY <1>1, <1>2, <1>3, <1>8, <1>9, <1>11, <1>12, <1>13, <1>14, <1>15 DEF u

-----------------------------------------------------------------------------
(* A match that overlaps what it produces repeats it.                       *)
LEMMA Period ==
  ASSUME NEW D \in Nat \ {0}, NEW k \in Nat, k >= D
  PROVE  (k - D) % D = k % D
<1>1. PICK x \in Nat : x = k - D
  OBVIOUS
<1>2. PICK q \in Nat, r \in 0..(D - 1) : r = k % D /\ k = D * q + r
  BY DivMod
<1>3. PICK a \in Nat, c \in 0..(D - 1) : c = x % D /\ x = D * a + c
  BY DivMod
<1>4. D * (q - (a + 1)) = c - r
  <2>1. D * q + r = D * a + c + D
    BY <1>1, <1>2, <1>3
  <2>2. D * (q - (a + 1)) = D * q - D * a - D
    BY <1>2, <1>3
  <2>3. D * q \in Int /\ D * a \in Int
    BY <1>2, <1>3
  <2> QED BY <2>1, <2>2, <2>3
<1>5. PICK z \in Int : z = q - (a + 1)
  BY <1>2, <1>3
<1>6. D * z < D /\ 0 - D < D * z
  BY <1>4, <1>5, <1>2, <1>3
<1>7. z = 0
  BY <1>6, NoSmallMultiple
<1>8. c - r = 0
  <2>1. D * z = c - r
    BY <1>4, <1>5
  <2>2. D * 0 = 0
    OBVIOUS
  <2> QED BY <2>1, <2>2, <1>7
<1>9. c = r
  BY <1>8, <1>2, <1>3
<1> QED BY <1>1, <1>2, <1>3, <1>9, Zenon

(* A number below M is its own remainder.                                   *)
LEMMA SmallRemainder ==
  ASSUME NEW M \in Nat \ {0}, NEW k \in Nat, k < M
  PROVE  k % M = k
<1>1. PICK q \in Nat, r \in 0..(M - 1) : r = k % M /\ k = M * q + r
  BY DivMod
<1>2. M * q < M /\ 0 - M < M * q
  BY <1>1
<1>3. q = 0
  BY <1>2, NoSmallMultiple
<1> QED BY <1>1, <1>3

(* The n bytes from ip on repeat the D bytes from match on.                  *)
Periodic(s, ip, match, n, D) ==
  \A k \in 1..n : s[ip + k] = s[match + 1 + ((k - 1) % D)]

(* What a match of n bytes repeats is what follows, when that is equal.      *)
LEMMA RepeatsByte ==
  ASSUME NEW s \in Seq(Bytes), NEW ip \in Nat, NEW match \in Nat, NEW n \in Nat,
         NEW D \in Nat \ {0}, D = ip - match,
         \A k \in 1..n : s[ip + k] = s[match + k]
  PROVE  Periodic(s, ip, match, n, D)
<1> DEFINE T == {k \in 1..n : s[ip + k] # s[match + 1 + ((k - 1) % D)]}
<1>2. T = {}
  <2> SUFFICES ASSUME T # {} PROVE FALSE
    OBVIOUS
  <2>1. T \subseteq Nat
    OBVIOUS
  <2>2. PICK m \in T : \A k \in T : m <= k
    <3> HIDE DEF T
    <3> QED BY <2>1, Smallest
  <2>3. PICK j \in Nat : j = m - 1 /\ m \in 1..n /\ s[ip + m] # s[match + 1 + (j % D)]
    BY <2>2
  <2>4. CASE j < D
    <3>1. j % D = j
      BY <2>4, SmallRemainder
    <3>2. match + 1 + j = match + m
      BY <2>3
    <3> QED BY <2>3, <3>1, <3>2
  <2>5. CASE j >= D
    <3>1. PICK i \in 1..n : i = m - D /\ i < m
      BY <2>3, <2>5
    <3>2. i \notin T
      <4>1. i \in T => m <= i
        BY <2>2
      <4>2. ~(m <= i)
        BY <2>3, <3>1
      <4> QED BY <4>1, <4>2
    <3>3. s[ip + i] = s[match + 1 + ((i - 1) % D)]
      BY <3>2
    <3>4. i - 1 = j - D
      BY <2>3, <3>1
    <3>5. (i - 1) % D = j % D
      BY <3>4, <2>5, Period
    <3>6. ip + i = match + m
      BY <3>1, <2>3
    <3> QED BY <3>3, <3>5, <3>6, <2>3
  <2> QED BY <2>4, <2>5, <2>3
<1> QED BY <1>2 DEF Periodic

(* A repeated match is the bytes that follow.                               *)
LEMMA Repeats ==
  ASSUME NEW s \in Seq(Bytes), NEW ip \in Nat, NEW match \in Nat, match < ip, NEW n \in Nat,
         ip + n <= Len(s), \A k \in 1..n : s[ip + k] = s[match + k]
  PROVE  Repeat(SubSeq(s, 1, ip), ip - match, n) = SubSeq(s, 1, ip + n)
<1>1. PICK D \in Nat \ {0} : D = ip - match /\ D <= ip
  OBVIOUS
<1>2. PICK out \in Seq(Bytes) : out = SubSeq(s, 1, ip) /\ Len(out) = ip
                                 /\ \A i \in 1..ip : out[i] = s[i]
  <2>1. \A i \in 1..ip : s[i] \in Bytes
    OBVIOUS
  <2>2. /\ SubSeq(s, 1, ip) \in Seq(Bytes) /\ Len(SubSeq(s, 1, ip)) = IF 1 <= ip THEN ip - 1 + 1 ELSE 0
        /\ \A i \in 1..(ip - 1 + 1) : SubSeq(s, 1, ip)[i] = s[1 + i - 1]
    BY <2>1, SubSeqProperties
  <2>3. (IF 1 <= ip THEN ip - 1 + 1 ELSE 0) = ip /\ ip - 1 + 1 = ip /\ \A i \in 1..ip : 1 + i - 1 = i
    OBVIOUS
  <2>4. Len(SubSeq(s, 1, ip)) = ip /\ \A i \in 1..ip : SubSeq(s, 1, ip)[i] = s[i]
    BY <2>2, <2>3
  <2> QED BY <2>2, <2>4
<1> DEFINE rep == [k \in 1..n |-> out[ip - D + 1 + ((k - 1) % D)]]
           tail == SubSeq(s, ip + 1, ip + n)
<1>3. Repeat(SubSeq(s, 1, ip), ip - match, n) = out \o rep
  BY <1>1, <1>2 DEF Repeat
<1>4. /\ tail \in Seq(Bytes) /\ Len(tail) = n /\ \A k \in 1..n : tail[k] = s[ip + k]
      /\ tail \in [1..n -> Bytes]
  <2>1. tail \in Seq(Bytes)
    BY Slice
  <2>3. Len(tail) = n
    BY Slice
  <2>4. tail \in [1..n -> Bytes]
    BY <2>1, <2>3, LenProperties
  <2>2. \A k \in 1..n : tail[k] = s[ip + k]
    BY Slice
  <2> QED BY <2>1, <2>2, <2>3, <2>4
<1>5. \A k \in 1..n : rep[k] = s[ip + k]
  <2> TAKE k \in 1..n
  <2>1. (k - 1) % D \in 0..(D - 1)
    <3>1. PICK j \in Nat : j = k - 1
      OBVIOUS
    <3> QED BY <3>1, DivMod
  <2>2. PICK r \in 0..(D - 1) : r = (k - 1) % D
    BY <2>1
  <2>3. ip - D + 1 + r \in 1..ip /\ ip - D + 1 + r = match + 1 + r
    BY <1>1
  <2>4. s[ip + k] = s[match + 1 + r]
    <3>1. Periodic(s, ip, match, n, D)
      BY <1>1, RepeatsByte
    <3>2. s[ip + k] = s[match + 1 + ((k - 1) % D)]
      BY <3>1, Zenon DEF Periodic
    <3> QED BY <3>2, <2>2, Zenon
  <2> QED BY <1>2, <2>2, <2>3, <2>4
<1>6. rep = tail
  <2>1. tail = [k \in 1..n |-> tail[k]]
    BY <1>4
  <2> QED BY <1>4, <1>5, <2>1
<1>7. out \o tail = SubSeq(s, 1, ip + n)
  <2>1. ip + n \in ip..Len(s) /\ ip \in (1 - 1)..Len(s) /\ 1 \in 1..(Len(s) + 1)
    OBVIOUS
  <2>2. SubSeq(s, 1, ip) \o SubSeq(s, ip + 1, ip + n) = SubSeq(s, 1, ip + n)
    BY <2>1, ConcatAdjacentSubSeq
  <2> QED BY <2>2, <1>2
<1> HIDE DEF rep, tail
<1> QED BY <1>3, <1>6, <1>7

-----------------------------------------------------------------------------
(* Decoding.                                                                *)

(* What is read, in a block or after it, is a number.                       *)
LEMMA AtNat ==
  ASSUME NEW b \in Seq(Nat), NEW p \in Nat
  PROVE  At(b, p) \in Nat
<1>1. CASE p < Len(b)
  BY <1>1, AtReads
<1>2. CASE ~(p < Len(b))
  BY <1>2, SearchAssumption DEF At
<1> QED BY <1>1, <1>2

(* A length of literals and where they begin.                               *)
LEMMA RunLengthType ==
  ASSUME NEW b \in Seq(Nat), NEW p \in Nat, NEW start \in Nat
  PROVE  RunLength(b, p, start)[1] \in Nat /\ RunLength(b, p, start)[2] \in Nat
<1> DEFINE set == {i \in 0..Len(b) : p + i + 1 < Len(b) - RUN_MASK /\ At(b, p + i) = BYTE_MAX}
<1>1. Len(b) \in Nat /\ RUN_MASK \in Nat /\ BYTE_MAX \in Nat
  BY Sizes
<1>2. Len(b) \notin set
  <2>1. ~(p + Len(b) + 1 < Len(b) - RUN_MASK)
    BY <1>1
  <2> QED BY <2>1
<1>3. PICK n : n = Leading(set, Len(b))
  OBVIOUS
<1>4. n \in Nat
  <2> HIDE DEF set
  <2>1. n \in 0..Len(b)
    BY <1>1, <1>2, <1>3, LeadingIs
  <2> QED BY <2>1
<1>5. RunLength(b, p, start) = <<start + n * BYTE_MAX + At(b, p + n), p + n + 1>>
  BY <1>3 DEF RunLength
<1>6. At(b, p + n) \in Nat /\ n * BYTE_MAX \in Nat
  <2>1. PICK B \in Nat : B = BYTE_MAX
    BY <1>1
  <2>2. n * B \in Nat /\ p + n \in Nat
    BY <1>4
  <2> QED BY <2>1, <2>2, AtNat
<1>7. start + n * BYTE_MAX + At(b, p + n) \in Nat /\ p + n + 1 \in Nat
  BY <1>4, <1>6
<1> QED BY <1>5, <1>7

(* A length of a match, unless it is broken, and where it ends.              *)
LEMMA MatchLengthType ==
  ASSUME NEW b \in Seq(Nat), NEW p \in Nat, NEW start \in Nat
  PROVE  MatchLength(b, p, start)[1] \in Int /\ MatchLength(b, p, start)[2] \in Nat
<1> DEFINE set == {i \in 0..Len(b) : p + i <= Len(b) - LASTLITERALS /\ At(b, p + i) = BYTE_MAX}
<1>1. Len(b) \in Nat /\ LASTLITERALS \in Nat \ {0} /\ BYTE_MAX \in Nat
  BY Sizes, EndAssumption
<1>2. Len(b) \notin set
  <2>1. ~(p + Len(b) <= Len(b) - LASTLITERALS)
    BY <1>1
  <2> QED BY <2>1
<1>3. PICK n : n = Leading(set, Len(b))
  OBVIOUS
<1>4. n \in Nat
  <2> HIDE DEF set
  <2>1. n \in 0..Len(b)
    BY <1>1, <1>2, <1>3, LeadingIs
  <2> QED BY <2>1
<1>5. \/ MatchLength(b, p, start) = <<start + n * BYTE_MAX + At(b, p + n), p + n + 1>>
      \/ MatchLength(b, p, start) = <<-1, p + n>>
  BY <1>3 DEF MatchLength
<1>6. At(b, p + n) \in Nat /\ n * BYTE_MAX \in Nat
  <2>1. PICK B \in Nat : B = BYTE_MAX
    BY <1>1
  <2>2. n * B \in Nat /\ p + n \in Nat
    BY <1>4
  <2> QED BY <2>1, <2>2, AtNat
<1>7. /\ start + n * BYTE_MAX + At(b, p + n) \in Int /\ p + n + 1 \in Nat
      /\ -1 \in Int /\ p + n \in Nat
  BY <1>4, <1>6
<1> QED BY <1>5, <1>7

(* What a match repeats of numbers are numbers.                             *)
LEMMA RepeatType ==
  ASSUME NEW out \in Seq(Nat), NEW offset \in Nat, offset <= Len(out), NEW n \in Nat
  PROVE  Repeat(out, offset, n) \in Seq(Nat)
<1> DEFINE rep == [k \in 1..n |-> IF offset = 0 THEN Beyond
                                  ELSE out[Len(out) - offset + 1 + ((k - 1) % offset)]]
<1>1. \A k \in 1..n : rep[k] \in Nat
  <2> TAKE k \in 1..n
  <2>1. CASE offset = 0
    BY <2>1, SearchAssumption
  <2>2. CASE offset # 0
    <3>1. PICK j \in Nat, D \in Nat \ {0} : j = k - 1 /\ D = offset
      BY <2>2
    <3>2. PICK r \in 0..(D - 1) : r = j % D
      BY DivMod
    <3>3. Len(out) - D + 1 + r \in 1..Len(out)
      BY <3>1
    <3>4. out[Len(out) - D + 1 + r] \in Nat
      BY <3>3
    <3>5. rep[k] = out[Len(out) - D + 1 + r]
      BY <2>2, <3>1, <3>2, Zenon
    <3> QED BY <3>4, <3>5
  <2> QED BY <2>1, <2>2
<1>2. rep \in [1..n -> Nat]
  BY <1>1
<1>3. rep \in Seq(Nat)
  <2> HIDE DEF rep
  <2> QED BY <1>2
<1> HIDE DEF rep
<1>4. out \o rep \in Seq(Nat)
  BY <1>3
<1> QED BY <1>4 DEF Repeat, rep

(* Where literals are and end.                                              *)
LEMMA RunType ==
  ASSUME NEW b \in Seq(Nat), NEW at \in Decoding
  PROVE  /\ LiteralRun(b, at)[1] \in Nat /\ LiteralRun(b, at)[2] \in Nat /\ Upto(b, at) \in Nat
         /\ Upto(b, at) = LiteralRun(b, at)[2] + LiteralRun(b, at)[1]
<1>1. PICK p \in Nat : p = at.ip
  BY DEF Decoding
<1>2. PICK token \in Nat : token = At(b, p)
  BY AtNat
<1>3. PICK run \in Nat : run = token \div (ML_MASK + 1)
  <2>1. PICK M \in Nat \ {0} : M = ML_MASK + 1
    BY Sizes
  <2> QED BY <2>1, DivMod
<1>4. p + 1 \in Nat
  OBVIOUS
<1>5. LiteralRun(b, at)[1] \in Nat /\ LiteralRun(b, at)[2] \in Nat
  <2>1. CASE run = RUN_MASK
    <3>1. LiteralRun(b, at) = RunLength(b, p + 1, run)
      BY <2>1, <1>1, <1>2, <1>3 DEF LiteralRun
    <3> QED BY <3>1, <1>4, RunLengthType
  <2>2. CASE run # RUN_MASK
    <3>1. LiteralRun(b, at) = <<run, p + 1>>
      BY <2>2, <1>1, <1>2, <1>3 DEF LiteralRun
    <3> QED BY <3>1, <1>4
  <2> QED BY <2>1, <2>2
<1> QED BY <1>5 DEF Upto

(* A step of the decoder keeps its state.                                   *)
LEMMA DecodedType ==
  ASSUME NEW b \in Seq(Nat), NEW at \in Decoding, NEW size \in Nat, Continues(b, at, size)
  PROVE  AfterSequence(b, at) \in Decoding
<1>1. PICK p \in Nat, out \in Seq(Nat) : p = at.ip /\ out = at.out
  BY DEF Decoding
<1>2. PICK n \in Nat, from \in Nat, upto \in Nat :
         n = LiteralRun(b, at)[1] /\ from = LiteralRun(b, at)[2] /\ upto = Upto(b, at) /\ upto = from + n
  BY RunType
<1>3. upto <= Len(b)
  <2>1. ~(upto > Len(b) - (2 + 1 + LASTLITERALS))
    BY <1>2 DEF Continues, LastRun
  <2>2. Len(b) \in Nat /\ LASTLITERALS \in Nat
    BY EndAssumption
  <2> QED BY <2>1, <2>2
<1>4. Copied(b, at) \in Seq(Nat)
  <2>1. from + n <= Len(b)
    BY <1>2, <1>3
  <2>2. SubSeq(b, from + 1, from + n) \in Seq(Nat)
    BY <2>1, Slice
  <2> QED BY <2>2, <1>1, <1>2 DEF Copied
<1>5. Offset(b, at) \in Nat
  <2>1. PICK x \in Nat, y \in Nat : x = At(b, upto) /\ y = At(b, upto + 1)
    <3>1. upto + 1 \in Nat
      OBVIOUS
    <3> QED BY <3>1, AtNat
  <2>2. PICK B \in Nat : B = BYTE_MAX + 1
    BY Sizes
  <2>3. x + y * B \in Nat
    <3>1. y * B \in Nat
      OBVIOUS
    <3> QED BY <3>1
  <2> QED BY <2>1, <2>2, <2>3, <1>2 DEF Offset
<1>6. Length(b, at)[1] \in Int /\ Length(b, at)[2] \in Nat
  <2>1. PICK short \in Nat : short = At(b, p) % (ML_MASK + 1)
    <3>1. PICK M \in Nat \ {0} : M = ML_MASK + 1
      BY Sizes
    <3>2. At(b, p) \in Nat
      BY AtNat
    <3> QED BY <3>1, <3>2, DivMod
  <2>2. upto + 2 \in Nat
    OBVIOUS
  <2>3. CASE short = ML_MASK
    <3>1. Length(b, at) = MatchLength(b, upto + 2, short)
      BY <2>1, <2>3, <1>1, <1>2 DEF Length
    <3> QED BY <3>1, <2>2, MatchLengthType
  <2>4. CASE short # ML_MASK
    <3>1. Length(b, at) = <<short, upto + 2>>
      BY <2>1, <2>4, <1>1, <1>2 DEF Length
    <3> QED BY <3>1, <2>2
  <2> QED BY <2>3, <2>4
<1>7. Length(b, at)[1] + MINMATCH \in Nat
  BY <1>6, EndAssumption DEF Continues
<1>8. Repeat(Copied(b, at), Offset(b, at), Length(b, at)[1] + MINMATCH) \in Seq(Nat)
  BY <1>4, <1>5, <1>7, RepeatType DEF Continues
<1> QED BY <1>6, <1>8 DEF AfterSequence, Decoding

IsDecode(b, size, decode) ==
  decode = [at \in Decoding |-> IF Continues(b, at, size) THEN decode[AfterSequence(b, at)]
                                ELSE Final(b, at, size)]

(* The decoder is the recursion that its definition writes.                 *)
LEMMA DecodeDef ==
  ASSUME NEW b \in Seq(Nat), NEW size \in Nat \ {0}
  PROVE  \E decode : /\ IsDecode(b, size, decode)
                     /\ LZ4_decompress_safe(b, size) = decode[[ip |-> 0, out |-> <<>>]]
<1> DEFINE next == [at \in Decoding |-> AfterSequence(b, at)]
           val  == [at \in Decoding |-> Final(b, at, size)]
           T    == {at \in Decoding : ~Continues(b, at, size)}
           decode == CHOOSE f : f = [at \in Decoding |-> IF Continues(b, at, size)
                       THEN f[AfterSequence(b, at)] ELSE Final(b, at, size)]
<1>1. \A at \in Decoding : at \notin T => next[at] \in Decoding
  BY DecodedType
<1>2. \E f : IsDecode(b, size, f)
  <2> HIDE DEF next, val, T
  <2>1. PICK f : Solves(f, Decoding, T, next, val)
    BY <1>1, TailRecursion
  <2> USE DEF next, val, T
  <2>2. \A at \in Decoding : (IF at \in T THEN val[at] ELSE f[next[at]])
          = IF Continues(b, at, size) THEN f[AfterSequence(b, at)] ELSE Final(b, at, size)
    OBVIOUS
  <2>3. [at \in Decoding |-> IF at \in T THEN val[at] ELSE f[next[at]]]
        = [at \in Decoding |-> IF Continues(b, at, size) THEN f[AfterSequence(b, at)]
                               ELSE Final(b, at, size)]
    BY <2>2
  <2> QED BY <2>1, <2>3 DEF IsDecode, Solves
<1>3. IsDecode(b, size, decode)
  BY <1>2 DEF IsDecode
<1>4. LZ4_decompress_safe(b, size) = decode[[ip |-> 0, out |-> <<>>]]
  BY DEF LZ4_decompress_safe
<1> HIDE DEF decode
<1> QED BY <1>3, <1>4

-----------------------------------------------------------------------------
(* The round trip.                                                          *)

(* The first n bytes.                                                       *)
LEMMA Prefix ==
  ASSUME NEW s \in Seq(Bytes), NEW n \in 0..Len(s)
  PROVE  /\ SubSeq(s, 1, n) \in Seq(Nat) /\ Len(SubSeq(s, 1, n)) = n
         /\ SubSeq(s, n + 1, Len(s)) \in Seq(Nat) /\ Len(SubSeq(s, n + 1, Len(s))) = Len(s) - n
         /\ SubSeq(s, 1, n) \o SubSeq(s, n + 1, Len(s)) = s
<1>1. PICK N \in Nat : N = Len(s) /\ n \in 0..N
  BY Length0
<1>2. \A i \in 1..N : s[i] \in Nat
  <2>1. \A i \in 1..N : s[i] \in Bytes
    BY <1>1
  <2> QED BY <2>1, Sizes DEF Bytes
<1>3. SubSeq(s, 1, n) \in Seq(Nat) /\ Len(SubSeq(s, 1, n)) = n
  <2>1. \A i \in 1..n : s[i] \in Nat
    BY <1>1, <1>2
  <2>2. SubSeq(s, 1, n) \in Seq(Nat) /\ Len(SubSeq(s, 1, n)) = IF 1 <= n THEN n - 1 + 1 ELSE 0
    BY <2>1, SubSeqProperties
  <2> QED BY <2>2
<1>4. SubSeq(s, n + 1, N) \in Seq(Nat) /\ Len(SubSeq(s, n + 1, N)) = N - n
  <2>1. PICK m \in Nat : m = n + 1
    OBVIOUS
  <2>2. \A i \in m..N : s[i] \in Nat
    BY <1>1, <1>2, <2>1
  <2>3. SubSeq(s, m, N) \in Seq(Nat) /\ Len(SubSeq(s, m, N)) = IF m <= N THEN N - m + 1 ELSE 0
    BY <2>2, SubSeqProperties
  <2> QED BY <2>1, <2>3, <1>1
<1>5. SubSeq(s, 1, n) \o SubSeq(s, n + 1, N) = SubSeq(s, 1, N)
  <2>1. 1 \in 1..(Len(s) + 1) /\ n \in (1 - 1)..Len(s) /\ N \in n..Len(s)
    BY <1>1
  <2> QED BY <2>1, ConcatAdjacentSubSeq
<1>6. SubSeq(s, 1, N) = s
  BY <1>1, SubSeqFull
<1> QED BY <1>1, <1>3, <1>4, <1>5, <1>6

(* op is at the start of r.                                                 *)
Begins(r, op) ==
  /\ Len(op) <= Len(r)
  /\ \A i \in 1..Len(op) : r[i] = op[i]

(* What follows op at the start is read at the end of op.                   *)
LEMMA ReadsAfter ==
  ASSUME NEW r \in Seq(Nat), NEW t \in Seq(Nat), NEW op \in Seq(Nat), NEW x \in Seq(Nat),
         Begins(r, op \o x)
  PROVE  Reads(r \o t, Len(op), x) /\ Begins(r, op)
<1>1. PICK m \in Nat, n \in Nat, k \in Nat, j \in Nat :
         m = Len(op) /\ n = Len(x) /\ k = Len(r) /\ j = Len(t)
  OBVIOUS
<1>2. /\ Len(op \o x) = m + n
      /\ \A i \in 1..(m + n) : (op \o x)[i] = IF i <= m THEN op[i] ELSE x[i - m]
  BY <1>1, ConcatProperties
<1>3. /\ Len(r \o t) = k + j
      /\ \A i \in 1..(k + j) : (r \o t)[i] = IF i <= k THEN r[i] ELSE t[i - k]
  BY <1>1, ConcatProperties
<1>4. m + n <= k /\ \A i \in 1..(m + n) : r[i] = (op \o x)[i]
  BY <1>1, <1>2 DEF Begins
<1>5. \A i \in 1..n : (r \o t)[m + i] = x[i]
  <2> TAKE i \in 1..n
  <2>1. m + i \in 1..(k + j) /\ m + i <= k /\ m + i \in 1..(m + n) /\ ~(m + i <= m) /\ m + i - m = i
    BY <1>4
  <2>2. (r \o t)[m + i] = r[m + i]
    BY <2>1, <1>3
  <2>3. r[m + i] = (op \o x)[m + i]
    BY <2>1, <1>4
  <2>4. (op \o x)[m + i] = x[i]
    BY <2>1, <1>2
  <2> QED BY <2>2, <2>3, <2>4
<1>6. \A i \in 1..m : r[i] = op[i]
  <2> TAKE i \in 1..m
  <2>1. i \in 1..(m + n) /\ i <= m
    OBVIOUS
  <2> QED BY <2>1, <1>2, <1>4
<1>7. m + n <= Len(r \o t) /\ m <= k
  BY <1>3, <1>4
<1> QED BY <1>1, <1>5, <1>6, <1>7 DEF Reads, Begins

(* A number below a square has a quotient below its root.                   *)
LEMMA BelowSquare ==
  ASSUME NEW B \in Nat \ {0}, NEW x \in Nat, NEW y \in Nat, NEW off \in Nat, NEW top,
         top = B * B - 1, off <= top, off = B * x + y
  PROVE  x < B
<1> SUFFICES ASSUME x >= B PROVE FALSE
  OBVIOUS
<1>1. B * x >= B * B /\ B * B \in Nat /\ B * x \in Nat
  OBVIOUS
<1>2. PICK u \in Nat, v \in Nat : u = B * x /\ v = B * B /\ u >= v
  BY <1>1
<1>3. top = v - 1 /\ off = u + y
  BY <1>2
<1> QED BY <1>2, <1>3

(* Two numbers are a sequence.                                              *)
LEMMA Pair ==
  ASSUME NEW y \in Nat, NEW x \in Nat
  PROVE  <<y, x>> \in Seq(Nat) /\ Len(<<y, x>>) = 2 /\ <<y, x>>[1] = y /\ <<y, x>>[2] = x
OBVIOUS

(* The length of two parts.                                                 *)
LEMMA Joined ==
  ASSUME NEW u \in Seq(Nat), NEW v \in Seq(Nat)
  PROVE  /\ u \o v \in Seq(Nat) /\ Len(u \o v) = Len(u) + Len(v)
         /\ Len(u) \in Nat /\ Len(v) \in Nat
OBVIOUS

(* What is read where the literals of a sequence are.                        *)
HasLiterals(b, at, lit, low, w, n) ==
  /\ LiteralRun(b, at)[1] = lit
  /\ Upto(b, at) = at.ip + n
  /\ Copied(b, at) = at.out \o w
  /\ At(b, at.ip) % (ML_MASK + 1) = low

(* The literals of a sequence, once more.                                   *)
LEMMA LiteralsHeld ==
  ASSUME NEW b \in Seq(Nat), NEW at \in Decoding, NEW lit \in Nat, NEW low \in 0..ML_MASK,
         NEW w \in Seq(Nat), Len(w) = lit, Reads(b, at.ip, Literals(lit, low, w))
  PROVE  HasLiterals(b, at, lit, low, w, Len(Literals(lit, low, w)))
<1>1. LiteralRun(b, at)[1] = lit
  BY LiteralsRead
<1>2. Upto(b, at) = at.ip + Len(Literals(lit, low, w))
  BY LiteralsRead
<1>3. Copied(b, at) = at.out \o w
  BY LiteralsRead
<1>4. At(b, at.ip) % (ML_MASK + 1) = low
  BY LiteralsRead
<1> QED BY <1>1, <1>2, <1>3, <1>4 DEF HasLiterals

(* The two bytes of an offset.                                              *)
OffsetBytes(off) == <<off % (BYTE_MAX + 1), (off \div (BYTE_MAX + 1)) % (BYTE_MAX + 1)>>

(* They are two numbers.                                                    *)
LEMMA OffsetBytesType ==
  ASSUME NEW off \in Nat
  PROVE  OffsetBytes(off) \in Seq(Nat) /\ Len(OffsetBytes(off)) = 2
<1>1. PICK B \in Nat \ {0} : B = BYTE_MAX + 1
  BY Sizes
<1>2. PICK x \in Nat, y \in Nat : x = off \div B /\ y = off % B
  <2>1. off \div B \in Nat /\ off % B \in Nat
    BY DivMod
  <2> QED BY <2>1
<1>3. PICK z \in Nat : z = x % B
  <2>1. x % B \in Nat
    BY DivMod
  <2> QED BY <2>1
<1>4. OffsetBytes(off) = <<y, z>>
  BY <1>1, <1>2, <1>3, Zenon DEF OffsetBytes
<1> QED BY <1>4, Pair

(* The offset is read as it was written.                                    *)
LEMMA OffsetRead ==
  ASSUME NEW b \in Seq(Nat), NEW u \in Nat, NEW off \in Nat, off <= MAX_DISTANCE,
         Reads(b, u, OffsetBytes(off))
  PROVE  u + 2 <= Len(b) /\ At(b, u) + At(b, u + 1) * (BYTE_MAX + 1) = off
<1>0. PICK B \in Nat \ {0} : B = BYTE_MAX + 1 /\ MAX_DISTANCE = B * B - 1
  BY Sizes
<1>1. PICK x \in Nat, y \in 0..(B - 1) : x = off \div B /\ y = off % B /\ off = B * x + y
  BY DivMod
<1>2. x < B
  <2>1. y \in Nat
    OBVIOUS
  <2>2. PICK top : top = B * B - 1 /\ off <= top
    BY <1>0
  <2> QED BY <2>1, <2>2, <1>1, BelowSquare
<1>3. x % B = x
  BY <1>2, SmallRemainder
<1>4. Reads(b, u, <<y, x>>)
  BY <1>0, <1>1, <1>3, Zenon DEF OffsetBytes
<1>5. u + 2 <= Len(b) /\ b[u + 1] = y /\ b[u + 2] = x
  <2>1. PICK o \in Seq(Nat) : o = <<y, x>> /\ Len(o) = 2 /\ o[1] = y /\ o[2] = x
    <3>1. y \in Nat
      OBVIOUS
    <3>2. <<y, x>> \in Seq(Nat) /\ Len(<<y, x>>) = 2 /\ <<y, x>>[1] = y /\ <<y, x>>[2] = x
      BY <3>1, Pair
    <3> QED BY <3>2
  <2>2. Reads(b, u, o)
    BY <2>1, <1>4
  <2>3. u + 2 <= Len(b) /\ \A i \in 1..2 : b[u + i] = o[i]
    BY <2>1, <2>2 DEF Reads
  <2> QED BY <2>1, <2>3
<1>6. At(b, u) = y
  BY <1>5 DEF At
<1>7. At(b, u + 1) = x
  <2>1. u + 1 < Len(b) /\ u + 1 + 1 = u + 2
    BY <1>5
  <2> QED BY <2>1, <1>5 DEF At
<1>8. x * B = B * x /\ B * x \in Nat /\ y \in Nat
  OBVIOUS
<1>9. y + B * x = off
  BY <1>1, <1>8
<1> QED BY <1>0, <1>5, <1>6, <1>7, <1>8, <1>9

(* The part of a token that holds the length of the match.                   *)
HasLow(b, at, low) == At(b, at.ip) % (ML_MASK + 1) = low

(* The length of a match is n and ends at a position.                        *)
HasLength(b, at, n, to) == Length(b, at) = <<n, to>>

(* The length of a match is what was written.                               *)
LEMMA LengthRead ==
  ASSUME NEW b \in Seq(Nat), NEW d, NEW u \in Nat, NEW more \in Nat, NEW V \in Nat,
         Upto(b, d) = u, HasLow(b, d, Nibble(more, ML_MASK)),
         V = Len(Rest(more, ML_MASK)),
         Reads(b, u + 2, Rest(more, ML_MASK)), u + 2 + V + LASTLITERALS <= Len(b)
  PROVE  HasLength(b, d, more, u + 2 + V)
<1>0. ML_MASK \in Nat
  BY Sizes
<1>1. PICK low : low = Nibble(more, ML_MASK)
  OBVIOUS
<1>2. CASE more < ML_MASK
  <2>1. low = more /\ low # ML_MASK
    BY <1>0, <1>1, <1>2 DEF Nibble
  <2>2. V = 0
    BY <1>2, <1>0, RestIs, SMTT(30)
  <2>3. Length(b, d) = <<more, u + 2>>
    BY <2>1, <1>1 DEF Length, HasLow
  <2>4. u + 2 + 0 = u + 2
    OBVIOUS
  <2> QED BY <2>2, <2>3, <2>4 DEF HasLength
<1>3. CASE more >= ML_MASK
  <2>1. low = ML_MASK
    BY <1>0, <1>1, <1>3, SMTT(30) DEF Nibble
  <2>2. Length(b, d) = MatchLength(b, u + 2, ML_MASK)
    BY <2>1, <1>1 DEF Length, HasLow
  <2>3. PICK x \in Nat : x = u + 2
    OBVIOUS
  <2>4. MatchLength(b, x, ML_MASK) = <<more, x + V>>
    BY <1>3, <2>3, MatchRead
  <2> QED BY <2>2, <2>3, <2>4 DEF HasLength
<1> QED BY <1>0, <1>2, <1>3

(* The bytes at ip are those at match, n of them.                            *)
Same(s, ip, match, n) == \A k \in 1..n : s[ip + k] = s[match + k]

(* A match of such bytes is repeated.                                       *)
LEMMA RepeatsSame ==
  ASSUME NEW s \in Seq(Bytes), NEW ip \in Nat, NEW match \in Nat, match < ip, NEW n \in Nat,
         ip + n <= Len(s), Same(s, ip, match, n), NEW off, off = ip - match
  PROVE  Repeat(SubSeq(s, 1, ip), off, n) = SubSeq(s, 1, ip + n)
BY Repeats DEF Same

(* The parts of a sequence of n bytes: literals l, an offset, and the rest    *)
(* of the length of the match.                                              *)
HasParts(b, p, n, l, off, more) ==
  /\ n = Len(l) + 2 + Len(Rest(more, ML_MASK))
  /\ Len(l) \in Nat /\ Len(Rest(more, ML_MASK)) \in Nat
  /\ Reads(b, p, l)
  /\ Reads(b, p + Len(l), OffsetBytes(off))
  /\ Reads(b, p + Len(l) + 2, Rest(more, ML_MASK))

(* A sequence that is read has its parts.                                   *)
LEMMA SequenceParts ==
  ASSUME NEW s \in Seq(Bytes), NEW anchor \in Nat, NEW ip \in Nat, NEW match \in Nat,
         NEW more \in Nat, anchor <= ip, match < ip, ip <= Len(s),
         NEW b \in Seq(Nat), NEW p \in Nat, NEW q, q = Sequence(s, anchor, ip, match, more),
         Reads(b, p, q), NEW w, w = SubSeq(s, anchor + 1, ip),
         NEW l, l = Literals(ip - anchor, Nibble(more, ML_MASK), w)
  PROVE  /\ w \in Seq(Nat) /\ Len(w) = ip - anchor
         /\ HasParts(b, p, Len(q), l, ip - match, more)
<1>1. PICK lit \in Nat, off \in Nat : lit = ip - anchor /\ off = ip - match /\ anchor + lit = ip
  <2>1. ip - anchor \in Nat /\ ip - match \in Nat /\ anchor + (ip - anchor) = ip
    OBVIOUS
  <2> QED BY <2>1
<1>2. w \in Seq(Nat) /\ Len(w) = lit
  <2>1. s \in Seq(Nat)
    BY Sizes, SMTT(30) DEF Bytes
  <2>2. Len(SubSeq(s, anchor + 1, anchor + lit)) = lit
    BY <1>1, <2>1, Slice
  <2>3. SubSeq(s, anchor + 1, anchor + lit) \in Seq(Nat)
    BY <1>1, <2>1, Slice, SMTT(30)
  <2> QED BY <1>1, <2>2, <2>3
<1>3. PICK low \in 0..ML_MASK : low = Nibble(more, ML_MASK)
  <2>1. ML_MASK \in Nat
    BY Sizes
  <2> QED BY <2>1 DEF Nibble
<1>4. Rest(lit, RUN_MASK) \in Seq(Nat)
  BY RestIs, Sizes
<1>5. PICK v \in Seq(Nat) : v = Rest(more, ML_MASK)
  BY RestIs, Sizes
<1>6. l = Literals(lit, low, w)
  BY <1>1, <1>3
<1>7. l \in Seq(Nat)
  <2>1. Token(lit, low) \in Nat
    BY TokenRead
  <2>0. <<Token(lit, low)>> \in Seq(Nat)
    BY <2>1
  <2>2. PICK x \in Seq(Nat), y \in Seq(Nat) : x = <<Token(lit, low)>> /\ y = Rest(lit, RUN_MASK)
    BY <2>0, <1>4, Zenon
  <2>3. l = x \o y \o w
    BY <2>2, <1>6 DEF Literals
  <2>4. x \o y \in Seq(Nat)
    BY Joined
  <2> QED BY <2>3, <2>4, <1>2, Joined
<1>9. PICK o \in Seq(Nat) : o = OffsetBytes(off) /\ Len(o) = 2
  BY OffsetBytesType
<1>10. q = l \o o \o v
  BY <1>1, <1>3, <1>5, <1>6, <1>9, Zenon DEF Sequence, Literals, Token, OffsetBytes
<1>11. PICK y \in Seq(Nat) : y = l \o o /\ Len(y) = Len(l) + 2
  <2>1. l \o o \in Seq(Nat) /\ Len(l \o o) = Len(l) + 2
    <3>1. l \o o \in Seq(Nat) /\ Len(l \o o) = Len(l) + Len(o)
      BY <1>7, Joined
    <3> QED BY <3>1, <1>9
  <2> QED BY <2>1
<1>12. Len(q) = Len(l) + 2 + Len(v) /\ Len(l) \in Nat /\ Len(v) \in Nat
  <2>1. q = y \o v
    BY <1>10, <1>11, Zenon
  <2>2. Len(y \o v) = Len(y) + Len(v) /\ Len(v) \in Nat
    BY Joined
  <2>3. Len(l) \in Nat
    BY <1>7
  <2> QED BY <2>1, <2>2, <2>3, <1>11
<1>13. Reads(b, p, y) /\ Reads(b, p + Len(y), v)
  <2>1. Reads(b, p, y \o v)
    BY <1>10, <1>11
  <2> QED BY <2>1, ReadsBoth
<1>14. Reads(b, p, l) /\ Reads(b, p + Len(l), o)
  BY <1>7, <1>11, <1>13, ReadsBoth, SMTT(30)
<1>15. Reads(b, p + Len(l) + 2, v)
  <2>1. p + Len(y) = p + Len(l) + 2
    <3>1. PICK m \in Nat : m = Len(l) /\ Len(y) = m + 2
      BY <1>11, <1>12
    <3> QED BY <3>1
  <2> QED BY <2>1, <1>13
<1>16. o = OffsetBytes(ip - match)
  BY <1>1, <1>9, Zenon
<1>17. HasParts(b, p, Len(q), l, ip - match, more)
  BY <1>5, <1>12, <1>14, <1>15, <1>16, Zenon DEF HasParts
<1> QED BY <1>1, <1>2, <1>17, Zenon

(* A match of MINMATCH and more bytes, as the format allows it.              *)
Allowed(s, anchor, ip, match, more) ==
  /\ anchor <= ip /\ match < ip /\ ip - match <= MAX_DISTANCE
  /\ ip <= Len(s) - MFLIMIT /\ ip + MINMATCH + more <= Len(s) - LASTLITERALS
  /\ Same(s, ip, match, MINMATCH + more)

(* The decoder goes on from d, with n more bytes read and the first bytes     *)
(* of s, up to a position, produced.                                        *)
GoesTo(b, d, s, n, upto) ==
  /\ d \in Decoding /\ Continues(b, d, Len(s))
  /\ AfterSequence(b, d) = [ip |-> n, out |-> SubSeq(s, 1, upto)]

(* A sequence is decoded to what it stands for.                             *)
LEMMA SequenceGoes ==
  ASSUME NEW s \in Seq(Bytes), NEW anchor \in Nat, NEW ip \in Nat, NEW match \in Nat,
         NEW more \in Nat, Allowed(s, anchor, ip, match, more),
         NEW b \in Seq(Nat), NEW p \in Nat, NEW q, q = Sequence(s, anchor, ip, match, more),
         Reads(b, p, q), p + Len(q) + 1 + LASTLITERALS <= Len(b)
  PROVE  GoesTo(b, [ip |-> p, out |-> SubSeq(s, 1, anchor)], s, p + Len(q), ip + MINMATCH + more)
<1>D. PICK d : d = [ip |-> p, out |-> SubSeq(s, 1, anchor)]
  OBVIOUS
<1>A. /\ anchor <= ip /\ match < ip /\ ip - match <= MAX_DISTANCE
      /\ ip <= Len(s) - MFLIMIT /\ ip + MINMATCH + more <= Len(s) - LASTLITERALS
      /\ Same(s, ip, match, MINMATCH + more)
  BY DEF Allowed
<1>1. PICK N \in Nat : N = Len(s)
  BY Length0
<1>2. /\ MINMATCH \in Nat /\ LASTLITERALS \in Nat \ {0} /\ MFLIMIT \in Nat /\ MFLIMIT > 0
      /\ ML_MASK \in Nat /\ RUN_MASK \in Nat
  <2>1. MINMATCH \in Nat /\ MINMATCH >= 2 /\ COPYLENGTH \in Nat /\ LASTLITERALS \in Nat \ {0}
    BY EndAssumption
  <2>2. MFLIMIT \in Nat /\ MFLIMIT = COPYLENGTH + MINMATCH /\ ML_MASK \in Nat /\ RUN_MASK \in Nat
    BY Sizes
  <2> QED BY <2>1, <2>2
<1>3. ip <= N /\ anchor <= N
  BY <1>A, <1>1, <1>2
<1>4. PICK lit \in Nat, off \in Nat : lit = ip - anchor /\ off = ip - match /\ anchor + lit = ip
                                      /\ off <= MAX_DISTANCE /\ off <= ip
  <2>1. ip - anchor \in Nat /\ ip - match \in Nat /\ anchor + (ip - anchor) = ip /\ ip - match <= ip
    BY <1>A
  <2> QED BY <2>1, <1>A
<1>5. PICK low \in 0..ML_MASK : low = Nibble(more, ML_MASK)
  BY <1>2 DEF Nibble
<1>6. PICK w : w = SubSeq(s, anchor + 1, ip)
  OBVIOUS
<1>7. PICK l : l = Literals(lit, low, w)
  OBVIOUS
<1>8. l = Literals(ip - anchor, Nibble(more, ML_MASK), w) /\ ip <= Len(s)
  BY <1>1, <1>3, <1>4, <1>5, <1>7
<1>9. w \in Seq(Nat) /\ Len(w) = ip - anchor /\ HasParts(b, p, Len(q), l, ip - match, more)
  <2>1. l = Literals(ip - anchor, Nibble(more, ML_MASK), w)
    BY <1>8
  <2>2. ip <= Len(s)
    BY <1>8
  <2>3. w \in Seq(Nat)
    BY <2>1, <2>2, <1>6, SequenceParts, <1>A
  <2>4. Len(w) = ip - anchor
    BY <2>1, <2>2, <1>6, SequenceParts, <1>A
  <2>5. HasParts(b, p, Len(q), l, ip - match, more)
    BY <2>1, <2>2, <1>6, SequenceParts, <1>A, ZenonT(60)
  <2> QED BY <2>3, <2>4, <2>5
<1>10. Len(w) = lit /\ HasParts(b, p, Len(q), l, off, more)
  BY <1>4, <1>9
<1>11. PICK L \in Nat, V \in Nat : L = Len(l) /\ V = Len(Rest(more, ML_MASK))
  BY <1>10 DEF HasParts
<1>12. Len(q) = L + 2 + V
  BY <1>10, <1>11 DEF HasParts
<1>13. PICK u \in Nat : u = p + L
  OBVIOUS
<1>14. u + 2 + V + 1 + LASTLITERALS <= Len(b) /\ p + Len(q) = u + 2 + V
  <2>1. p + (L + 2 + V) = u + 2 + V
    BY <1>13
  <2> QED BY <2>1, <1>12
<1>15. PICK out \in Seq(Nat) : out = SubSeq(s, 1, anchor) /\ Len(out) = anchor
  <2>1. anchor \in 0..Len(s)
    BY <1>1, <1>3
  <2> QED BY <2>1, Prefix
<1>16. SubSeq(s, 1, ip) \in Seq(Nat) /\ Len(SubSeq(s, 1, ip)) = ip
  <2>1. ip \in 0..Len(s)
    BY <1>1, <1>3
  <2> QED BY <2>1, Prefix
<1>17. out \o w = SubSeq(s, 1, ip)
  <2>1. 1 \in 1..(Len(s) + 1) /\ anchor \in (1 - 1)..Len(s) /\ ip \in anchor..Len(s)
    BY <1>A, <1>1, <1>3
  <2> QED BY <2>1, <1>6, <1>15, ConcatAdjacentSubSeq
<1>18. d \in Decoding /\ d.ip = p /\ d.out = out
  BY <1>D, <1>15 DEF Decoding
<1>19. Reads(b, d.ip, Literals(lit, low, w))
  BY <1>7, <1>10, <1>18, Zenon DEF HasParts
<1>20. HasLiterals(b, d, lit, low, w, L)
  <2>1. HasLiterals(b, d, lit, low, w, Len(Literals(lit, low, w)))
    BY <1>19, <1>9, <1>10, <1>18, LiteralsHeld
  <2> QED BY <2>1, <1>7, <1>11
<1>21. LiteralRun(b, d)[1] = lit /\ Upto(b, d) = u
  BY <1>13, <1>18, <1>20 DEF HasLiterals
<1>22. Copied(b, d) = SubSeq(s, 1, ip)
  BY <1>17, <1>18, <1>20 DEF HasLiterals
<1>23. HasLow(b, d, Nibble(more, ML_MASK))
  BY <1>5, <1>20, Zenon DEF HasLiterals, HasLow
<1>24. Offset(b, d) = off
  <2>1. Reads(b, u, OffsetBytes(off))
    BY <1>10, <1>11, <1>13, Zenon DEF HasParts
  <2>2. At(b, u) + At(b, u + 1) * (BYTE_MAX + 1) = off
    BY <2>1, <1>4, OffsetRead, Zenon
  <2> QED BY <2>2, <1>21, Zenon DEF Offset
<1>25. Length(b, d) = <<more, u + 2 + V>>
  <2>1. u + 2 + V + LASTLITERALS <= Len(b)
    BY <1>2, <1>14
  <2>2. Reads(b, u + 2, Rest(more, ML_MASK))
    BY <1>10, <1>11, <1>13, Zenon DEF HasParts
  <2>3. HasLength(b, d, more, u + 2 + V)
    BY <2>1, <2>2, <1>11, <1>21, <1>23, LengthRead
  <2> QED BY <2>3 DEF HasLength
<1>26. ~LastRun(b, d, N)
  <2>1. ~(anchor + lit > N - MFLIMIT)
    BY <1>A, <1>1, <1>2, <1>4
  <2>2. ~(u > Len(b) - (2 + 1 + LASTLITERALS))
    BY <1>2, <1>14
  <2> QED BY <2>1, <2>2, <1>15, <1>18, <1>21 DEF LastRun
<1>27. Continues(b, d, N)
  <2>1. more >= 0 /\ ip + more + MINMATCH <= N - LASTLITERALS
    BY <1>A, <1>1, <1>2
  <2>2. Length(b, d)[1] = more
    BY <1>25
  <2>3. Len(Copied(b, d)) = ip
    BY <1>16, <1>22
  <2> QED BY <2>1, <2>2, <2>3, <1>4, <1>24, <1>26 DEF Continues
<1>28. Repeat(SubSeq(s, 1, ip), off, more + MINMATCH) = SubSeq(s, 1, ip + MINMATCH + more)
  <2>1. PICK n \in Nat : n = more + MINMATCH /\ n = MINMATCH + more /\ ip + n = ip + MINMATCH + more
                         /\ ip + n <= Len(s)
    BY <1>A, <1>1, <1>2
  <2>2. Same(s, ip, match, n)
    BY <1>A, <2>1
  <2>3. Repeat(SubSeq(s, 1, ip), off, n) = SubSeq(s, 1, ip + n)
    BY <1>A, <2>1, <2>2, <1>4, RepeatsSame
  <2> QED BY <2>1, <2>3
<1>29. AfterSequence(b, d) = [ip |-> u + 2 + V, out |-> SubSeq(s, 1, ip + MINMATCH + more)]
  <2>1. Length(b, d)[1] = more /\ Length(b, d)[2] = u + 2 + V
    BY <1>25
  <2> QED BY <2>1, <1>22, <1>24, <1>28 DEF AfterSequence
<1> QED BY <1>D, <1>1, <1>14, <1>18, <1>27, <1>29 DEF GoesTo

(* The sequence of a match that the loop writes.                             *)
LEMMA SequenceRead ==
  ASSUME NEW s \in Seq(Bytes), NEW at, Emits(s, at), NEW b \in Seq(Nat), NEW p \in Nat,
         NEW q, q = Sequence(s, at.anchor, at.ip, at.match, More(s, at)),
         Reads(b, p, q), p + Len(q) + 1 + LASTLITERALS <= Len(b)
  PROVE  GoesTo(b, [ip |-> p, out |-> SubSeq(s, 1, at.anchor)], s, p + Len(q), After(s, at))
<1>1. PICK anchor \in Nat, ip \in Nat, match \in Nat, more \in Nat :
         anchor = at.anchor /\ ip = at.ip /\ match = at.match /\ more = More(s, at)
  BY AfterIs DEF Emits, Emitting
<1>2. After(s, at) = ip + MINMATCH + more
  BY <1>1 DEF After
<1>3. match < ip /\ ip - match <= MAX_DISTANCE
  BY <1>1 DEF Emits
<1>4. anchor <= ip /\ ip <= Len(s) - MFLIMIT
  BY <1>1, EmitsAfter DEF Emits
<1>5. ip + MINMATCH + more <= Len(s) - LASTLITERALS
  BY <1>1, <1>2, EmitsAfter
<1>6. Same(s, ip, match, MINMATCH + more)
  BY <1>1, EmitsAfter DEF Same
<1>7. Allowed(s, anchor, ip, match, more)
  BY <1>3, <1>4, <1>5, <1>6 DEF Allowed
<1>8. q = Sequence(s, anchor, ip, match, more)
  BY <1>1
<1>9. GoesTo(b, [ip |-> p, out |-> SubSeq(s, 1, anchor)], s, p + Len(q), ip + MINMATCH + more)
  BY <1>7, <1>8, SequenceGoes
<1> QED BY <1>1, <1>2, <1>9

(* What the decoder makes of a block that t follows.                        *)
Outcome(s, t) == IF t = <<>> THEN [d |-> Len(s), out |-> s] ELSE Broken

(* r is op and what stands for s from the anchor on.                         *)
Restores(s, anchor, op, r) ==
  /\ r \in Seq(Nat) /\ Begins(r, op)
  /\ \A t \in Seq(Nat) : \A decode : IsDecode(r \o t, Len(s), decode) =>
        decode[[ip |-> Len(op), out |-> SubSeq(s, 1, anchor)]] = Outcome(s, t)

(* Only a sequence without elements has no length.                          *)
LEMMA Nothing ==
  ASSUME NEW t \in Seq(Nat)
  PROVE  Len(t) \in Nat /\ (Len(t) = 0 <=> t = <<>>)
BY EmptySeq

(* Three parts, put together from either end.                               *)
Joins(x, u, w) == (x \o u) \o w = x \o (u \o w)

(* It makes no difference.                                                  *)
LEMMA ThreeParts ==
  ASSUME NEW x \in Seq(Nat), NEW u \in Seq(Nat), NEW w \in Seq(Nat)
  PROVE  Joins(x, u, w)
<1>1. (x \o u) \o w = x \o (u \o w)
  BY ConcatAssociative, SMTT(60)
<1> QED BY <1>1, Zenon DEF Joins

(* The same for four parts.                                                 *)
LEMMA FourParts ==
  ASSUME NEW op \in Seq(Nat), NEW x \in Seq(Nat), NEW u \in Seq(Nat), NEW w \in Seq(Nat)
  PROVE  Joins(op, x \o u, w) /\ Joins(op, x, u)
<1>1. x \o u \in Seq(Nat)
  BY Joined
<1>2. Joins(op, x \o u, w)
  BY <1>1, ThreeParts
<1>3. Joins(op, x, u)
  BY ThreeParts
<1> QED BY <1>2, <1>3

(* The end of a block: op, a token and the literals w.                       *)
IsLast(s, anchor, op, lit, w, l) ==
  /\ w \in Seq(Nat) /\ Len(w) = lit /\ l \in Seq(Nat)
  /\ LastLiterals(s, anchor, op) = op \o l
  /\ Len(l) >= 1 + lit

(* What is written last is op, a token and literals.                         *)
LEMMA LastIs ==
  ASSUME NEW s \in Seq(Bytes), NEW anchor \in 0..Len(s), NEW op \in Seq(Nat),
         NEW lit \in Nat, lit = Len(s) - anchor,
         NEW w, w = SubSeq(s, anchor + 1, Len(s))
  PROVE  IsLast(s, anchor, op, lit, w, Literals(lit, 0, w))
<1>1. w \in Seq(Nat) /\ Len(w) = lit
  BY Prefix
<1>2. PICK u \in Seq(Nat) : u = Rest(lit, RUN_MASK)
  BY RestIs, Sizes
<1>3. Token(lit, 0) \in Nat /\ Token(lit, 0) = Nibble(lit, RUN_MASK) * (ML_MASK + 1)
  <2>1. 0 \in 0..ML_MASK /\ Nibble(lit, RUN_MASK) \in Nat
    BY Sizes DEF Nibble
  <2>2. Token(lit, 0) \in Nat
    BY <2>1, TokenRead
  <2>3. PICK x \in Nat, y \in Nat : x = Nibble(lit, RUN_MASK) /\ y = ML_MASK + 1
    BY <2>1, Sizes
  <2>4. x * y \in Nat
    OBVIOUS
  <2>5. x * y + 0 = x * y
    BY <2>4
  <2> QED BY <2>2, <2>3, <2>5, Zenon DEF Token
<1>4. PICK x \in Seq(Nat) : x = <<Token(lit, 0)>> /\ Len(x) = 1
  <2>1. <<Token(lit, 0)>> \in Seq(Nat) /\ Len(<<Token(lit, 0)>>) = 1
    BY <1>3
  <2> QED BY <2>1
<1>5. Literals(lit, 0, w) = x \o u \o w
  BY <1>2, <1>4 DEF Literals
<1>6. x \o u \o w \in Seq(Nat) /\ Len(x \o u \o w) >= 1 + lit
  <2>1. PICK y \in Seq(Nat) : y = x \o u /\ Len(y) = 1 + Len(u)
    <3>1. x \o u \in Seq(Nat) /\ Len(x \o u) = Len(x) + Len(u)
      BY Joined
    <3> QED BY <3>1, <1>4
  <2>2. y \o w \in Seq(Nat) /\ Len(y \o w) = Len(y) + Len(w)
    BY <1>1, Joined
  <2>3. Len(u) \in Nat
    OBVIOUS
  <2>4. PICK k \in Nat : k = Len(u)
    BY <2>3
  <2>5. Len(y \o w) = 1 + k + lit
    BY <2>1, <2>2, <2>4, <1>1
  <2>6. 1 + k + lit >= 1 + lit
    OBVIOUS
  <2> QED BY <2>1, <2>2, <2>5, <2>6
<1>7. LastLiterals(s, anchor, op) = op \o x \o u \o w
  BY <1>2, <1>3, <1>4, Zenon DEF LastLiterals
<1>8. op \o x \o u \o w = op \o (x \o u \o w)
  <2>1. Joins(op, x \o u, w) /\ Joins(op, x, u)
    BY <1>1, FourParts
  <2>2. (op \o x) \o u = op \o (x \o u)
    BY <2>1 DEF Joins
  <2>3. (op \o (x \o u)) \o w = op \o ((x \o u) \o w)
    BY <2>1 DEF Joins
  <2> QED BY <2>2, <2>3, Zenon
<1> QED BY <1>1, <1>5, <1>6, <1>7, <1>8 DEF IsLast

(* The last literals are decoded, and nothing may follow them.               *)
LEMMA LastWrites ==
  ASSUME NEW s \in Seq(Bytes), s # <<>>, NEW anchor \in 0..Len(s), NEW op \in Seq(Nat),
         NEW r, r = LastLiterals(s, anchor, op)
  PROVE  Restores(s, anchor, op, r) /\ Len(r) >= Len(op) + 1 + (Len(s) - anchor)
<1>1. PICK N \in Nat : N = Len(s) /\ anchor \in 0..N
  BY Length0
<1>2. PICK lit \in Nat : lit = Len(s) - anchor /\ anchor + lit = N
  <2>1. N - anchor \in Nat /\ anchor + (N - anchor) = N
    BY <1>1
  <2> QED BY <2>1, <1>1
<1>3. PICK w : w = SubSeq(s, anchor + 1, Len(s))
  OBVIOUS
<1>4. PICK l : l = Literals(lit, 0, w)
  OBVIOUS
<1>5. IsLast(s, anchor, op, lit, w, l)
  BY <1>2, <1>3, <1>4, LastIs
<1>6. /\ w \in Seq(Nat) /\ Len(w) = lit /\ l \in Seq(Nat)
      /\ r = op \o l /\ Len(l) >= 1 + lit
  BY <1>5 DEF IsLast
<1>8. PICK m \in Nat, n \in Nat : m = Len(op) /\ n = Len(l)
  BY <1>6
<1>9. r \in Seq(Nat) /\ Len(r) = m + n
  BY <1>6, <1>8, Joined
<1>10. Begins(r, op \o l)
  BY <1>6, <1>9 DEF Begins
<1>11. Begins(r, op)
  <2>1. <<>> \in Seq(Nat)
    OBVIOUS
  <2> QED BY <2>1, <1>6, <1>9, <1>10, ReadsAfter
<1>12. Len(r) >= Len(op) + 1 + (Len(s) - anchor)
  BY <1>2, <1>6, <1>8, <1>9
<1>13. PICK out \in Seq(Nat) : out = SubSeq(s, 1, anchor) /\ Len(out) = anchor /\ out \o w = s
  BY <1>3, Prefix
<1>14. PICK d : d = [ip |-> Len(op), out |-> SubSeq(s, 1, anchor)]
  OBVIOUS
<1>15. d \in Decoding /\ d.ip = m /\ d.out = out
  BY <1>8, <1>13, <1>14 DEF Decoding
<1>16. ASSUME NEW t \in Seq(Nat), NEW decode, IsDecode(r \o t, Len(s), decode)
       PROVE  decode[d] = Outcome(s, t)
  <2>1. PICK b \in Seq(Nat) : b = r \o t /\ Len(b) = m + n + Len(t)
    <3>1. r \o t \in Seq(Nat) /\ Len(r \o t) = Len(r) + Len(t)
      BY <1>9, Joined
    <3> QED BY <3>1, <1>9
  <2>2. Reads(b, d.ip, l)
    BY <2>1, <1>6, <1>8, <1>9, <1>10, <1>15, ReadsAfter
  <2>3. HasLiterals(b, d, lit, 0, w, n)
    <3>1. 0 \in 0..ML_MASK
      BY Sizes
    <3>2. Reads(b, d.ip, Literals(lit, 0, w))
      BY <2>2, <1>4
    <3>3. HasLiterals(b, d, lit, 0, w, Len(Literals(lit, 0, w)))
      BY <3>1, <3>2, <1>6, <1>15, LiteralsHeld
    <3> QED BY <3>3, <1>4, <1>8
  <2>4. LiteralRun(b, d)[1] = lit /\ Upto(b, d) = m + n /\ Copied(b, d) = s
    BY <2>3, <1>13, <1>15 DEF HasLiterals
  <2>5. LastRun(b, d, N) /\ Room(b, d, N)
    <3>1. anchor + lit > N - MFLIMIT
      BY <1>2, EndAssumption, Sizes
    <3>2. anchor + lit <= N
      BY <1>2
    <3> QED BY <3>1, <3>2, <2>4, <1>13, <1>15 DEF LastRun, Room
  <2>6. ~Continues(b, d, N)
    BY <2>5 DEF Continues
  <2>7. decode[d] = Final(b, d, N)
    BY <2>1, <2>6, <1>1, <1>15, <1>16 DEF IsDecode
  <2>8. Upto(b, d) = Len(b) <=> t = <<>>
    <3>1. PICK k \in Nat : k = Len(t) /\ (k = 0 <=> t = <<>>)
      BY Nothing
    <3>2. m + n = m + n + k <=> k = 0
      OBVIOUS
    <3> QED BY <3>1, <3>2, <2>1, <2>4
  <2> QED BY <2>4, <2>5, <2>7, <2>8, <1>1 DEF Final, Outcome
<1> QED BY <1>9, <1>11, <1>12, <1>14, <1>16 DEF Restores

(* What follows a match is written after it.                                *)
LEMMA MatchWrites ==
  ASSUME NEW s \in Seq(Bytes), s # <<>>, NEW at, Emits(s, at), NEW r,
         Restores(s, After(s, at), Out(s, at), r),
         Len(r) >= Len(Out(s, at)) + 1 + LASTLITERALS
  PROVE  Restores(s, at.anchor, at.op, r) /\ Len(r) >= Len(at.op) + 1 + LASTLITERALS
<1>1. at \in Emitting
  BY DEF Emits
<1>2. PICK op \in Seq(Nat) : op = at.op
  BY DEF Emits
<1>3. PICK q \in Seq(Nat) : q = Sequence(s, at.anchor, at.ip, at.match, More(s, at))
  <2>1. at.ip <= Len(s) /\ at.anchor <= at.ip
    <3>1. at.ip <= Len(s) - MFLIMIT /\ at.anchor <= at.ip
      BY EmitsAfter DEF Emits
    <3>2. at.ip \in Nat /\ Len(s) \in Nat /\ MFLIMIT \in Nat
      BY <1>1, AfterIs, Length0, Sizes
    <3> QED BY <3>1, <3>2
  <2>2. Sequence(s, at.anchor, at.ip, at.match, More(s, at)) \in Seq(Nat)
    BY <2>1, <1>1, AfterIs, SequenceIs
  <2> QED BY <2>2
<1>4. Out(s, at) = op \o q
  BY <1>2, <1>3 DEF Out
<1>5. PICK m \in Nat, n \in Nat : m = Len(op) /\ n = Len(q) /\ Len(Out(s, at)) = m + n
  BY <1>4, Joined
<1>6. r \in Seq(Nat) /\ Begins(r, op \o q)
  BY <1>4 DEF Restores
<1>7. Begins(r, op)
  <2>1. <<>> \in Seq(Nat)
    OBVIOUS
  <2> QED BY <2>1, <1>6, ReadsAfter
<1>8. PICK k \in Nat : k = Len(r) /\ k >= m + n + 1 + LASTLITERALS
  BY <1>5, <1>6
<1>9. Len(r) >= Len(at.op) + 1 + LASTLITERALS
  BY <1>2, <1>5, <1>8, EndAssumption
<1>10. ASSUME NEW t \in Seq(Nat), NEW decode, IsDecode(r \o t, Len(s), decode)
       PROVE  decode[[ip |-> Len(op), out |-> SubSeq(s, 1, at.anchor)]] = Outcome(s, t)
  <2>1. PICK b \in Seq(Nat) : b = r \o t /\ Len(b) = k + Len(t)
    <3>1. r \o t \in Seq(Nat) /\ Len(r \o t) = Len(r) + Len(t)
      BY <1>6, Joined
    <3> QED BY <3>1, <1>8
  <2>2. Reads(b, m, q)
    BY <2>1, <1>5, <1>6, ReadsAfter
  <2>3. m + Len(q) + 1 + LASTLITERALS <= Len(b)
    <3>1. PICK j \in Nat : j = Len(t)
      OBVIOUS
    <3> QED BY <3>1, <2>1, <1>5, <1>8, EndAssumption
  <2>4. PICK d : d = [ip |-> m, out |-> SubSeq(s, 1, at.anchor)]
    OBVIOUS
  <2>5. GoesTo(b, d, s, m + Len(q), After(s, at))
    BY <2>2, <2>3, <2>4, <1>3, SequenceRead
  <2>6. decode[d] = decode[AfterSequence(b, d)]
    BY <2>1, <2>5, <1>10 DEF GoesTo, IsDecode
  <2>7. AfterSequence(b, d) = [ip |-> Len(Out(s, at)), out |-> SubSeq(s, 1, After(s, at))]
    BY <2>5, <1>5 DEF GoesTo
  <2>8. decode[AfterSequence(b, d)] = Outcome(s, t)
    BY <2>7, <1>10 DEF Restores
  <2> QED BY <2>4, <2>6, <2>8, <1>5
<1> QED BY <1>2, <1>6, <1>7, <1>9, <1>10 DEF Restores

(* The loop writes the rest of s.                                           *)
LEMMA BlocksWrite ==
  ASSUME NEW s \in Seq(Bytes), s # <<>>
  PROVE  \A at : Emits(s, at) => /\ Restores(s, at.anchor, at.op, Blocks(s)[at])
                                 /\ Len(Blocks(s)[at]) >= Len(at.op) + 1 + LASTLITERALS
<1> DEFINE Ok(at) == /\ Restores(s, at.anchor, at.op, Blocks(s)[at])
                     /\ Len(Blocks(s)[at]) >= Len(at.op) + 1 + LASTLITERALS
           T == {k \in Nat : \E at : Emits(s, at) /\ Len(s) - at.anchor = k /\ ~Ok(at)}
<1>1. ASSUME NEW at, Emits(s, at)
      PROVE  /\ at.anchor \in Nat /\ After(s, at) \in Nat /\ at.anchor < After(s, at)
             /\ After(s, at) <= Len(s) - LASTLITERALS /\ After(s, at) <= Len(s)
  <2>1. at.anchor \in Nat /\ After(s, at) \in Nat /\ at.ip \in Nat
    BY <1>1, AfterIs DEF Emits
  <2>2. at.anchor <= at.ip /\ at.ip + MINMATCH <= After(s, at) /\ After(s, at) <= Len(s) - LASTLITERALS
    BY <1>1, EmitsAfter DEF Emits
  <2> QED BY <2>1, <2>2, EndAssumption, Length0
<1>2. ASSUME NEW at, Emits(s, at), LastMatch(s, at) PROVE Ok(at)
  <2>1. PICK r : r = LastLiterals(s, After(s, at), Out(s, at))
    OBVIOUS
  <2>2. Blocks(s)[at] = r
    BY <1>2, <2>1, BlocksDef DEF Emits, IsEmit
  <2>3. Out(s, at) \in Seq(Nat) /\ After(s, at) \in 0..Len(s)
    BY <1>1, <1>2, EmitsNext, Length0
  <2>4. Restores(s, After(s, at), Out(s, at), r)
    BY <2>1, <2>3, LastWrites
  <2>5. Len(r) >= Len(Out(s, at)) + 1 + (Len(s) - After(s, at))
    BY <2>1, <2>3, LastWrites
  <2>6. Len(r) >= Len(Out(s, at)) + 1 + LASTLITERALS
    <3>1. PICK n \in Nat, a \in Nat, m \in Nat, k \in Nat :
             n = Len(s) /\ a = After(s, at) /\ m = Len(Out(s, at)) /\ k = Len(r)
      BY <1>1, <1>2, <2>3, <2>4, Length0 DEF Restores
    <3>2. a <= n - LASTLITERALS
      BY <3>1, <1>1, <1>2
    <3> QED BY <2>5, <3>1, <3>2, EndAssumption
  <2> QED BY <1>2, <2>2, <2>4, <2>6, MatchWrites
<1>3. ASSUME NEW at, Emits(s, at), ~LastMatch(s, at), Ok(NextMatch(s, at)) PROVE Ok(at)
  <2>1. Blocks(s)[at] = Blocks(s)[NextMatch(s, at)]
    BY <1>3, BlocksDef DEF Emits, IsEmit
  <2>2. NextMatch(s, at).anchor = After(s, at) /\ NextMatch(s, at).op = Out(s, at)
    BY <1>3, NextMatchIs DEF Emits
  <2>3. PICK r : r = Blocks(s)[at]
    OBVIOUS
  <2>4. Restores(s, After(s, at), Out(s, at), r) /\ Len(r) >= Len(Out(s, at)) + 1 + LASTLITERALS
    BY <1>3, <2>1, <2>2, <2>3
  <2> QED BY <1>3, <2>3, <2>4, MatchWrites
<1>4. T = {}
  <2> SUFFICES ASSUME T # {} PROVE FALSE
    OBVIOUS
  <2>1. T \subseteq Nat
    OBVIOUS
  <2>2. PICK k \in T : \A n \in T : k <= n
    <3> HIDE DEF T
    <3> QED BY <2>1, Smallest
  <2>3. PICK at : Emits(s, at) /\ Len(s) - at.anchor = k /\ ~Ok(at)
    OBVIOUS
  <2>4. ~LastMatch(s, at)
    BY <1>2, <2>3
  <2>5. ~Ok(NextMatch(s, at))
    BY <1>3, <2>3, <2>4
  <2>6. Emits(s, NextMatch(s, at)) /\ NextMatch(s, at).anchor = After(s, at)
    BY <2>3, <2>4, EmitsNext, NextMatchIs DEF Emits
  <2>7. PICK j \in Nat : j = Len(s) - After(s, at) /\ j < k
    <3>1. PICK n \in Nat, a \in Nat, c \in Nat :
             n = Len(s) /\ a = at.anchor /\ c = After(s, at) /\ a < c /\ c <= n
      BY <1>1, <2>3, Length0
    <3>2. n - c \in Nat /\ n - c < n - a
      BY <3>1
    <3> QED BY <3>1, <3>2, <2>3
  <2>8. j \in T
    BY <2>5, <2>6, <2>7
  <2> HIDE DEF T
  <2>9. k <= j /\ k \in Nat
    BY <2>1, <2>2, <2>8
  <2> QED BY <2>7, <2>9
<1>5. ASSUME NEW at, Emits(s, at) PROVE Ok(at)
  <2>1. Len(s) - at.anchor \in Nat
    BY <1>1, <1>5, Length0
  <2> QED BY <2>1, <1>4, <1>5
<1> QED BY <1>5

(* The whole block restores the whole data,                                 *)
LEMMA CompressRestores ==
  ASSUME NEW s \in Seq(Bytes), s # <<>>
  PROVE  Restores(s, 0, <<>>, WholeBlock(s))
<1>1. PICK N \in Nat \ {0} : N = Len(s)
  <2>1. Len(s) \in Nat /\ Len(s) # 0
    BY EmptySeq
  <2> QED BY <2>1
<1>2. SubSeq(s, 1, 0) = <<>> /\ <<>> \in Seq(Nat) /\ Len(<<>>) = 0 /\ 0 \in 0..Len(s)
  BY <1>1
<1>3. Restores(s, 0, <<>>, WholeBlock(s))
  <2>1. CASE Len(s) >= MFLIMIT + 1 /\ FirstFound(s).found
    <3>1. 0 + MINMATCH <= Len(s)
      BY <2>1, <1>1, Sizes, EndAssumption
    <3>2. HashOf(Word(s, 0)) \in HASHES
      BY <3>1, WordHash
    <3>3. Empty(s) \in Tables /\ Below(Empty(s), 1)
      BY <3>2 DEF Empty, Tables, Below
    <3>4. FirstFound(s) = Find(s, Empty(s), 1)
      BY DEF FirstFound
    <3>5. Emits(s, Caught(s, 0, FirstFound(s), <<>>))
      <4>1. PICK anchor \in Nat, from \in Nat : anchor = 0 /\ from = 1
        OBVIOUS
      <4>2. anchor <= from /\ Below(Empty(s), from) /\ FirstFound(s) = Find(s, Empty(s), from)
        BY <4>1, <3>3, <3>4
      <4>3. Emits(s, Caught(s, anchor, FirstFound(s), <<>>))
        BY <4>2, <3>3, <2>1, <1>2, CaughtEmits
      <4> QED BY <4>1, <4>3
    <3>6. Caught(s, 0, FirstFound(s), <<>>).anchor = 0 /\ Caught(s, 0, FirstFound(s), <<>>).op = <<>>
      BY DEF Caught
    <3>7. WholeBlock(s) = Blocks(s)[Caught(s, 0, FirstFound(s), <<>>)]
      BY <2>1 DEF WholeBlock
    <3> QED BY <3>5, <3>6, <3>7, BlocksWrite
  <2>2. CASE ~(Len(s) >= MFLIMIT + 1 /\ FirstFound(s).found)
    <3>1. WholeBlock(s) = LastLiterals(s, 0, <<>>)
      BY <2>2 DEF WholeBlock
    <3> QED BY <1>2, <3>1, LastWrites
  <2> QED BY <2>1, <2>2
<1> QED BY <1>3

(* that of no data is a byte 0,                                             *)
LEMMA EmptyBlock ==
  ASSUME NEW s \in Seq(Bytes), s = <<>>
  PROVE  WholeBlock(s) = <<0>>
<1>1. Len(s) = 0 /\ Len(s) - 0 = 0
  OBVIOUS
<1>2. WholeBlock(s) = <<0>>
  <2>1. ~(Len(s) >= MFLIMIT + 1)
    BY <1>1, Sizes
  <2>2. WholeBlock(s) = LastLiterals(s, 0, <<>>)
    BY <2>1 DEF WholeBlock
  <2>3. Nibble(0, RUN_MASK) = 0 /\ Rest(0, RUN_MASK) = <<>>
    BY Sizes DEF Nibble, Rest
  <2>4. 0 * (ML_MASK + 1) = 0
    BY Sizes
  <2>5. SubSeq(s, 0 + 1, Len(s)) = <<>>
    OBVIOUS
  <2>6. LastLiterals(s, 0, <<>>) = <<>> \o <<0>> \o <<>> \o <<>>
    BY <1>1, <2>3, <2>4, <2>5, Zenon DEF LastLiterals
  <2>7. <<>> \o <<0>> \o <<>> \o <<>> = <<0>>
    OBVIOUS
  <2> QED BY <2>2, <2>6, <2>7
<1> QED BY <1>2

(* and all blocks are strings of bytes.                                     *)
LEMMA BlockBytes ==
  ASSUME NEW s \in Seq(Bytes)
  PROVE  WholeBlock(s) \in Seq(Nat)
<1>1. <<0>> \in Seq(Nat)
  OBVIOUS
<1>2. CASE s # <<>>
  BY <1>2, CompressRestores DEF Restores
<1>3. CASE s = <<>>
  BY <1>1, <1>3, EmptyBlock
<1> QED BY <1>2, <1>3

(* It is decoded to the data, and not when anything follows it.              *)
LEMMA BlockDecodes ==
  \A s \in Seq(Bytes) : \A t \in Seq(Nat) :
     LZ4_decompress_safe(WholeBlock(s) \o t, Len(s))
       = IF t = <<>> THEN [d |-> Len(s), out |-> s] ELSE Broken
<1> TAKE s \in Seq(Bytes)
<1> TAKE t \in Seq(Nat)
<1>1. CASE s # <<>>
  <2>1. PICK N \in Nat \ {0} : N = Len(s)
    <3>1. Len(s) \in Nat /\ Len(s) # 0
      BY <1>1, EmptySeq
    <3> QED BY <3>1
  <2>2. SubSeq(s, 1, 0) = <<>> /\ <<>> \in Seq(Nat) /\ Len(<<>>) = 0 /\ 0 \in 0..Len(s)
    BY <2>1
  <2>3. Restores(s, 0, <<>>, WholeBlock(s))
    BY <1>1, CompressRestores
  <2>4. WholeBlock(s) \o t \in Seq(Nat)
    BY BlockBytes, Joined
  <2>5. PICK decode : /\ IsDecode(WholeBlock(s) \o t, Len(s), decode)
                      /\ LZ4_decompress_safe(WholeBlock(s) \o t, Len(s))
                           = decode[[ip |-> 0, out |-> <<>>]]
    BY <2>1, <2>4, DecodeDef
  <2>6. decode[[ip |-> Len(<<>>), out |-> SubSeq(s, 1, 0)]] = Outcome(s, t)
    BY <2>3, <2>5 DEF Restores
  <2> QED BY <2>2, <2>5, <2>6 DEF Outcome
<1>2. CASE s = <<>>
  <2>1. Len(s) = 0 /\ Len(s) - 0 = 0
    BY <1>2
  <2>2. WholeBlock(s) = <<0>>
    BY <1>2, EmptyBlock
  <2>3. <<0>> \o t = <<0>> <=> t = <<>>
    <3>1. PICK x \in Seq(Nat) : x = <<0>>
      <4>1. <<0>> \in Seq(Nat)
        OBVIOUS
      <4> QED BY <4>1
    <3>2. x \o t = x <=> t = <<>>
      BY ConcatEqualIffEmpty
    <3> QED BY <3>1, <3>2
  <2>4. LZ4_decompress_safe(<<0>> \o t, 0)
          = IF <<0>> \o t = <<0>> THEN [d |-> 0, out |-> <<>>] ELSE Broken
    BY DEF LZ4_decompress_safe
  <2> QED BY <1>2, <2>1, <2>2, <2>3, <2>4
<1> QED BY <1>1, <1>2

(* What LZ4_compress makes of any string of bytes that is not too long is    *)
(* decoded to that string, and is not decoded when anything follows it      *)
(* (lz4.c:487-696, 970-1124): for any masks, limits, hash and lengths.      *)
THEOREM LZ4RoundTrip ==
  \A s \in Seq(Bytes) : \A t \in Seq(Nat) :
     IF Len(s) > LZ4_MAX_INPUT_SIZE THEN LZ4_compress(s) = <<>>
     ELSE LZ4_decompress_safe(LZ4_compress(s) \o t, Len(s))
            = IF t = <<>> THEN [d |-> Len(s), out |-> s] ELSE Broken
<1> TAKE s \in Seq(Bytes)
<1> TAKE t \in Seq(Nat)
<1>1. LZ4_decompress_safe(WholeBlock(s) \o t, Len(s))
        = IF t = <<>> THEN [d |-> Len(s), out |-> s] ELSE Broken
  BY BlockDecodes
<1>2. LZ4_compress(s) = IF Len(s) > LZ4_MAX_INPUT_SIZE THEN <<>> ELSE WholeBlock(s)
  BY DEF LZ4_compress
<1> QED BY <1>1, <1>2, Zenon
=============================================================================
