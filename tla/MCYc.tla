-------------------------------- MODULE MCYc --------------------------------
(* Small instances of Yc for TLC, with the block format of Lz4 in a small    *)
(* size: bytes of two bits, matches from two bytes on, offsets up to 15.    *)
EXTENDS Yc, Lz4, TLC

CONSTANTS a, b

MCHash(w) == (w[1] + 2 * w[2]) % 3

K == <<"k">>

Do(cmd, args) == [cmd |-> cmd, args |-> args, quiet |-> FALSE, port |-> 11211,
                  compress |-> 4, help |-> FALSE, kind |-> "general"]
Quietly(i) == [i EXCEPT !.quiet = TRUE]

Alone(invocations) == a :> invocations @@ b :> <<>>

(* What is stored is printed: short data of any kind, long data near the     *)
(* sizes where the format changes, and data too long to be compressed.      *)
Short == UNION {[1..n -> 0..1] : n \in 0..6}
Long  == {[i \in 1..n |-> IF i = k THEN 1 ELSE IF i % p = 0 THEN 2 ELSE 0] :
            n \in {9, 12, 20, 21, 22, 23, 36}, k \in {1, 20}, p \in {1, 3, 17}}
         \cup {[i \in 1..n |-> IF i \in {1, m} THEN 1 ELSE IF i = m - 1 THEN 3 ELSE 0] : n \in {22, 24}, m \in 16..18}
         \cup {[i \in 1..37 |-> 0]}
Stores == {Alone(<<Do("set", <<K, d>>), [Do("get", <<K>>) EXCEPT !.compress = 9]>>) : d \in Short \cup Long}

Data == <<1, 1, 1, 1, 1, 1, 1, 1, 1>>

(* The blocks of all data that some user stores, and what they are decoded   *)
(* to, are computed once.                                                   *)
Packed   == [data \in Short \cup Long \cup {Data} |-> LZ4_compress(data)] @@ <<>>
Unpacked == [p \in {<<Packed[data], Len(data)>> : data \in DOMAIN Packed} |->
               LZ4_decompress_safe(p[1], p[2])] @@ <<>>

MCPack(data) == Packed[data]
MCUnpack(block, size) ==
  IF <<block, size>> \in DOMAIN Unpacked THEN Unpacked[<<block, size>>]
  ELSE LZ4_decompress_safe(block, size)

(* Every command, loud and quiet, and the arguments it refuses.             *)
Every == {Do(c, <<K>>) : c \in {"get", "getk", "lag", "lagk", "delete", "lock", "unlock", "keys"}}
         \cup {Do(c, <<K, <<2>>>>) : c \in {"set", "replace", "add", "rau", "append", "prepend"}}
         \cup {Do(c, <<K, 1>>) : c \in {"gat", "gatk", "touch", "incr", "decr"}}
         \cup {Do(c, <<K, 1, 2>>) : c \in {"incr", "decr"}}
         \cup {Do(c, <<>>) : c \in {"noop", "unlockall", "flush", "stat", "keys", "version", "quit", "none", ""}}
         \cup {Do("flush", <<9>>)}
Odd   == {Do(c, <<>>) : c \in {"get", "lag", "touch", "set", "rau", "incr", "append", "lock"}}
         \cup {Do("keys", <<<<>>>>), Do("set", <<K, NULL>>), Do("append", <<K, NULL>>), Do("set", <<K, <<>>>>), Do("get", <<<<>>>>),
               Do("set", <<K, Data, 0, 64>>), Do("set", <<K, <<2>>, 1, 0, 5>>), Do("replace", <<K, Data, 0, 1>>)}
         \cup {[Do("stat", <<>>) EXCEPT !.kind = k] : k \in {"settings", "items", "sizes", "other"}}
         \cup {[Do("get", <<K>>) EXCEPT !.port = 0], [Do("get", <<K>>) EXCEPT !.compress = 0],
               [Do("get", <<K>>) EXCEPT !.help = TRUE]}
Ways(set) == set \cup {Quietly(i) : i \in set}
Tries == {Alone(<<i, j>>) : i \in {Do("set", <<K, <<1>>>>), Do("noop", <<>>)},
                            j \in Ways(Every \cup Odd)}
         \cup {Alone(<<Do("set", <<K, d>>), i, Do("getk", <<K>>)>>) : d \in {<<1>>, Data},
                 i \in {Do(c, <<K, <<2>>>>) : c \in {"append", "prepend", "replace"}}}

(* Users who set the flag bit of compression themselves: data too short for *)
(* a length, data with a length, data with a length that is wrong.          *)
Careless == {Alone(<<Do("set", <<K, d, 0, 64>>), [Do("getk", <<K>>) EXCEPT !.compress = c]>>) :
               d \in {<<2>>, <<1, 2, 3>>, <<0, 0, 0, 1>>, <<3, 0, 0, 0>>}, c \in {4, 9}}
            \cup {Alone(<<[Do("set", <<K, <<0, 0, 0, 2>> \o t, 0, 64>>) EXCEPT !.compress = 9],
                         Do("get", <<K>>)>>) : t \in {<<0>>, <<2, 1, 1>>, <<2, 1, 1, 1>>}}

(* Two users and one key.                                                   *)
Rivals == {a :> <<Do("set", <<K, <<1>>>>), i>> @@ b :> <<j>> :
             i \in {Do("lock", <<K>>), Quietly(Do("lag", <<K>>))},
             j \in {Quietly(Do("lock", <<K>>)), Do("lagk", <<K>>), Do("delete", <<K>>)}}

MCSessions == Stores \cup Tries \cup Careless \cup Rivals
=============================================================================
