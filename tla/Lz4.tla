-------------------------------- MODULE Lz4 ---------------------------------
(* The block format of lz4.c as libyrmcds uses it: LZ4_compress, without a   *)
(* limit of the output or a dictionary, and LZ4_decompress_safe.            *)
(*                                                                         *)
(* A position is an offset from the start, as in the code: the byte at p is *)
(* s[p + 1].  The sizes of the format are constants, so that a small        *)
(* instance meets the lengths that take several bytes and the distances     *)
(* that do not fit in an offset.                                            *)
EXTENDS Integers, Sequences, FiniteSets

CONSTANTS
  ML_MASK,       \* values of a token that hold the length of the match, 15
  RUN_MASK,      \* values of a token that hold the length of the literals, 15
  MINMATCH,      \* the shortest match, 4
  COPYLENGTH,    \* the step of the fast copies, 8
  LASTLITERALS,  \* literals at the end of a block, 5
  LZ4_MAX_INPUT_SIZE,  \* the longest input, 0x7E000000
  SKIP,          \* misses after which the search goes faster, 2^SKIPTRIGGER
  HASHES,        \* entries of the hash table
  HashOf(_),     \* the hash of MINMATCH bytes
  Beyond         \* what a read after the end of a block returns

BYTE_MAX     == (ML_MASK + 1) * (RUN_MASK + 1) - 1
MFLIMIT      == COPYLENGTH + MINMATCH
MAX_DISTANCE == (BYTE_MAX + 1) * (BYTE_MAX + 1) - 1

ASSUME MaskAssumption == ML_MASK \in Nat \ {0} /\ RUN_MASK \in Nat \ {0}
ASSUME EndAssumption ==
  /\ MINMATCH \in Nat /\ MINMATCH >= 2
  /\ LASTLITERALS \in Nat \ {0}
  /\ COPYLENGTH \in Nat /\ COPYLENGTH >= LASTLITERALS
ASSUME InputAssumption == LZ4_MAX_INPUT_SIZE \in Nat
ASSUME SearchAssumption ==
  /\ SKIP \in Nat \ {0}
  /\ Beyond \in Nat
  /\ \A w \in [1..MINMATCH -> 0..BYTE_MAX] : HashOf(w) \in HASHES

(* Mutant: inputs longer than the positions of the table allow.             *)
LimitPast == 2 * (MAX_DISTANCE + 1) + MFLIMIT - 1

(* Shorter inputs keep positions of 16 bits in the table.                   *)
LZ4_64Klimit == MAX_DISTANCE + 1 + MFLIMIT - 1

At(s, p) == IF p < Len(s) THEN s[p + 1] ELSE Beyond

Word(s, p) == SubSeq(s, p + 1, p + MINMATCH)

(* How many numbers from 0 on are in a set, which does not hold most.        *)
Leading(set, most) == CHOOSE n \in 0..most : n \notin set /\ 0..(n - 1) \subseteq set

-----------------------------------------------------------------------------
(* LZ4_compress_generic.                                                    *)

(* A length above the mask goes on in bytes that add up.                    *)
Rest(n, mask) ==
  IF n < mask THEN <<>>
  ELSE [i \in 1..((n - mask) \div BYTE_MAX) |-> BYTE_MAX] \o <<(n - mask) % BYTE_MAX>>

Nibble(n, mask) == IF n < mask THEN n ELSE mask

(* LZ4_count: bytes that match from two positions on, up to a limit.         *)
LZ4_count(s, ip, match, limit) ==
  Leading({n \in 0..Len(s) : ip + n < limit /\ At(s, match + n) = At(s, ip + n)}, Len(s))

(* Bytes that match before two positions, back to the anchor.               *)
CatchUp(s, anchor, ip, match) ==
  Leading({n \in 0..(match - 1) : ip - n > anchor /\ At(s, ip - n - 1) = At(s, match - n - 1)},
          match)

(* The search for a word seen before, faster after many misses; the table    *)
(* keeps the last position of each hash.                                    *)
Tables == [HASHES -> Nat]
Search == [table : Tables, ip : Nat, step : Nat, nb : Nat]

Match(s, at) == at.table[HashOf(Word(s, at.ip))]
Kept(s, at)  == [at.table EXCEPT ![HashOf(Word(s, at.ip))] = at.ip]

AtEnd(s, at) == at.ip + at.step > Len(s) - MFLIMIT
Hit(s, at) ==
  /\ Len(s) < LZ4_64Klimit \/ Match(s, at) + MAX_DISTANCE >= at.ip
  /\ Word(s, Match(s, at)) = Word(s, at.ip)

Searched(s, at) ==
  IF AtEnd(s, at) THEN [found |-> FALSE]
  ELSE [found |-> TRUE, ip |-> at.ip, match |-> Match(s, at), table |-> Kept(s, at)]

Further(s, at) == [table |-> Kept(s, at), ip |-> at.ip + at.step,
                   step |-> at.nb \div SKIP, nb |-> at.nb + 1]

Find(s, start, from) ==
  LET find[at \in Search] == IF AtEnd(s, at) \/ Hit(s, at) THEN Searched(s, at)
                             ELSE find[Further(s, at)]
  IN find[[table |-> start, ip |-> from, step |-> 1, nb |-> SKIP]]

LastLiterals(s, anchor, op) ==
  LET run == Len(s) - anchor
  IN op \o <<Nibble(run, RUN_MASK) * (ML_MASK + 1)>> \o Rest(run, RUN_MASK)
        \o SubSeq(s, anchor + 1, Len(s))

(* One sequence: a token, the literals since the anchor, the offset and the  *)
(* length of the match.                                                     *)
Sequence(s, anchor, ip, match, more) ==
  LET lit == ip - anchor
  IN <<Nibble(lit, RUN_MASK) * (ML_MASK + 1) + Nibble(more, ML_MASK)>>
     \o Rest(lit, RUN_MASK) \o SubSeq(s, anchor + 1, ip)
     \o <<(ip - match) % (BYTE_MAX + 1), ((ip - match) \div (BYTE_MAX + 1)) % (BYTE_MAX + 1)>>
     \o Rest(more, ML_MASK)

(* A match at ip is written; the next position is tried at once, and from    *)
(* there on the search goes on.                                             *)
Emitting == [table : Tables, anchor : Nat, ip : Nat, match : Nat, op : Seq(Int)]

More(s, at)  == LZ4_count(s, at.ip + MINMATCH, at.match + MINMATCH, Len(s) - LASTLITERALS)
After(s, at) == at.ip + MINMATCH + More(s, at)
Out(s, at)   == at.op \o Sequence(s, at.anchor, at.ip, at.match, More(s, at))

Back(s, at) == LET p == After(s, at) - 2 IN [at.table EXCEPT ![HashOf(Word(s, p))] = p]
Again(s, at) == Back(s, at)[HashOf(Word(s, After(s, at)))]
Filled(s, at) == [Back(s, at) EXCEPT ![HashOf(Word(s, After(s, at)))] = After(s, at)]

(* The match that a search has found, from the first byte that matches.      *)
Caught(s, anchor, f, op) ==
  LET n == CatchUp(s, anchor, f.ip, f.match)
  IN [table |-> f.table, anchor |-> anchor, ip |-> f.ip - n, match |-> f.match - n, op |-> op]

EndsAfter(s, at) == After(s, at) > Len(s) - MFLIMIT
AtOnce(s, at) ==
  /\ Again(s, at) + MAX_DISTANCE >= After(s, at)
  /\ Word(s, Again(s, at)) = Word(s, After(s, at))
FoundAfter(s, at) == Find(s, Filled(s, at), After(s, at) + 1)

LastMatch(s, at) == EndsAfter(s, at) \/ (~AtOnce(s, at) /\ ~FoundAfter(s, at).found)

NextMatch(s, at) ==
  IF AtOnce(s, at)
  THEN [table |-> Filled(s, at), anchor |-> After(s, at), ip |-> After(s, at),
        match |-> Again(s, at), op |-> Out(s, at)]
  ELSE Caught(s, After(s, at), FoundAfter(s, at), Out(s, at))

Blocks(s) ==
  LET emit[at \in Emitting] == IF LastMatch(s, at) THEN LastLiterals(s, After(s, at), Out(s, at))
                               ELSE emit[NextMatch(s, at)]
  IN emit

(* An input shorter than a match and its limits is only literals.           *)
Empty(s) == [[h \in HASHES |-> 0] EXCEPT ![HashOf(Word(s, 0))] = 0]
FirstFound(s) == Find(s, Empty(s), 1)
WholeBlock(s) ==
  IF Len(s) >= MFLIMIT + 1 /\ FirstFound(s).found THEN Blocks(s)[Caught(s, 0, FirstFound(s), <<>>)]
  ELSE LastLiterals(s, 0, <<>>)

(* Nothing is written for an input that is too long.                        *)
LZ4_compress(s) == IF Len(s) > LZ4_MAX_INPUT_SIZE THEN <<>> ELSE WholeBlock(s)

-----------------------------------------------------------------------------
(* LZ4_decompress_generic.                                                  *)

(* Literal lengths are read on only well before the end of the input.       *)
RunLength(b, from, start) ==
  LET n == Leading({k \in 0..Len(b) : /\ from + k + 1 < Len(b) - RUN_MASK
                                      /\ At(b, from + k) = BYTE_MAX}, Len(b))
  IN <<start + n * BYTE_MAX + At(b, from + n), from + n + 1>>

(* Match lengths must leave room for the last literals: -1 is an error.     *)
MatchLength(b, from, start) ==
  LET n == Leading({k \in 0..Len(b) : /\ from + k <= Len(b) - LASTLITERALS
                                      /\ At(b, from + k) = BYTE_MAX}, Len(b))
  IN IF from + n > Len(b) - LASTLITERALS THEN <<-1, from + n>>
     ELSE <<start + n * BYTE_MAX + At(b, from + n), from + n + 1>>

(* A match may overlap what it produces.                                    *)
Repeat(out, offset, n) ==
  out \o [k \in 1..n |-> IF offset = 0 THEN Beyond
                         ELSE out[Len(out) - offset + 1 + ((k - 1) % offset)]]

(* d: bytes decoded, -1 for a block that breaks the rules of the format.     *)
Broken == [d |-> -1, out |-> <<>>]

(* A sequence at ip: how many literals and from where, where they end, the   *)
(* offset, and the length of the match and where it ends.                    *)
Decoding == [ip : Nat, out : Seq(Nat)]

LiteralRun(b, at) ==
  LET run == At(b, at.ip) \div (ML_MASK + 1)
  IN IF run = RUN_MASK THEN RunLength(b, at.ip + 1, run) ELSE <<run, at.ip + 1>>
Upto(b, at)   == LiteralRun(b, at)[2] + LiteralRun(b, at)[1]
Copied(b, at) == at.out \o SubSeq(b, LiteralRun(b, at)[2] + 1, Upto(b, at))
Offset(b, at) == At(b, Upto(b, at)) + At(b, Upto(b, at) + 1) * (BYTE_MAX + 1)
Length(b, at) ==
  LET short == At(b, at.ip) % (ML_MASK + 1)
  IN IF short = ML_MASK THEN MatchLength(b, Upto(b, at) + 2, short) ELSE <<short, Upto(b, at) + 2>>

Room(b, at, size) == Len(at.out) + LiteralRun(b, at)[1] <= size
LastRun(b, at, size) ==
  \/ Len(at.out) + LiteralRun(b, at)[1] > size - MFLIMIT
  \/ Upto(b, at) > Len(b) - (2 + 1 + LASTLITERALS)

Continues(b, at, size) ==
  /\ ~LastRun(b, at, size)
  /\ Offset(b, at) <= Len(Copied(b, at))
  /\ Length(b, at)[1] >= 0
  /\ Len(Copied(b, at)) + Length(b, at)[1] + MINMATCH <= size - LASTLITERALS

AfterSequence(b, at) ==
  [ip  |-> Length(b, at)[2],
   out |-> Repeat(Copied(b, at), Offset(b, at), Length(b, at)[1] + MINMATCH)]

Final(b, at, size) ==
  IF LastRun(b, at, size) /\ Upto(b, at) = Len(b) /\ Room(b, at, size)
  THEN [d |-> Len(Copied(b, at)), out |-> Copied(b, at)] ELSE Broken

LZ4_decompress_safe(b, size) ==
  LET decode[at \in Decoding] == IF Continues(b, at, size) THEN decode[AfterSequence(b, at)]
                                 ELSE Final(b, at, size)
  IN IF size # 0 THEN decode[[ip |-> 0, out |-> <<>>]]
     ELSE IF b = <<0>> THEN [d |-> 0, out |-> <<>>] ELSE Broken
=============================================================================
