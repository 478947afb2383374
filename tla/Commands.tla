------------------------------ MODULE Commands ------------------------------
(* The command functions of libyrmcds (send.c): what each makes of its      *)
(* arguments, either a request for the socket or an error that sends        *)
(* nothing.  Sender models how a request goes out; here, what it says.      *)
(*                                                                         *)
(* Keys and data are sequences, <<>> for a null or empty one; extras is the *)
(* sequence of the integers the code packs, in its order.                   *)
EXTENDS Integers, Sequences

CONSTANTS
  Byte,       \* 256, the values of a byte
  U32,        \* 2^32, where the integers of a header and of extras wrap
  U64,        \* 2^64, where a cas and a counter wrap
  MaxKey,     \* the longest key, 65535
  MaxData,    \* MAX_DATA_SIZE, 2^30
  Pack(_)     \* LZ4_compress: the block, or <<>> when it fails

ASSUME WidthAssumption ==
  /\ Byte \in Nat \ {0, 1} /\ U32 = Byte * Byte * Byte * Byte
  /\ U32 >= 8 /\ U32 % 4 = 0 /\ U64 \in Nat \ {0}
ASSUME LimitAssumption == MaxKey \in Nat \ {0} /\ MaxData \in Nat \ {0}

-----------------------------------------------------------------------------
(* yrmcds_command.                                                         *)
Commands ==
  {"GET", "SET", "ADD", "REPLACE", "DELETE", "INCREMENT", "DECREMENT", "QUIT",
   "FLUSH", "GETQ", "NOOP", "VERSION", "GETK", "GETKQ", "APPEND", "PREPEND",
   "STAT", "SETQ", "ADDQ", "REPLACEQ", "DELETEQ", "INCREMENTQ", "DECREMENTQ",
   "QUITQ", "FLUSHQ", "APPENDQ", "PREPENDQ", "TOUCH", "GAT", "GATQ", "GATK",
   "GATKQ", "LOCK", "LOCKQ", "UNLOCK", "UNLOCKQ", "UNLOCKALL", "UNLOCKALLQ",
   "LAG", "LAGQ", "LAGK", "LAGKQ", "RAU", "RAUQ", "KEYS"}

(* YRMCDS_FLAG_COMPRESS, bit 30 of 32.                                      *)
CompressFlag == U32 \div 4

Compressed(flags) == (flags \div CompressFlag) % 2 = 1

(* A uint32_t or a uint64_t made of any C integer; an int made of a size_t. *)
Uint32(n) == n % U32

Uint64(n) == n % U64

Int32(n) == IF n % U32 < U32 \div 2 THEN n % U32 ELSE (n % U32) - U32

(* Four bytes, the most significant first; their division by Byte leaves    *)
(* the rest of a number below 2^32.                                         *)
hton32(n) ==
  LET above1 == n \div Byte
      above2 == above1 \div Byte
      above3 == above2 \div Byte
  IN <<above3, above2 % Byte, above1 % Byte, n % Byte>>

BadArgument    == [out |-> "BAD_ARGUMENT"]
CompressFailed == [out |-> "COMPRESS_FAILED"]

(* send_command up to the mutex: what does not fit in a header is refused.  *)
Request(cmd, cas, key, extras, data) ==
  IF Len(key) > MaxKey \/ Len(data) > MaxData
  THEN BadArgument
  ELSE [out |-> "send", cmd |-> cmd, cas |-> cas, key |-> key,
        extras |-> extras, data |-> data]

Either(quiet, loud, silent) == IF quiet THEN silent ELSE loud

(* The functions on one key begin by refusing a missing one.                *)
OnKey(cmd, key, extras) ==
  IF key = <<>> THEN BadArgument ELSE Request(cmd, 0, key, extras, <<>>)

(* send_data.  Data above the threshold is compressed and preceded by its    *)
(* length, unless the caller uses the flag bit that says so.  The length    *)
(* passes through an int, and what is longer is cut without a word.         *)
SendData(c, cmd, key, data, flags, expire, cas) ==
  LET block  == Pack(SubSeq(data, 1, Int32(Len(data))))
      extras == <<flags, expire>>
      packs  == c.threshold > 0 /\ Len(data) > c.threshold
  IN CASE key = <<>> \/ data = <<>> -> BadArgument
       [] key # <<>> /\ data # <<>> /\ ~packs ->
            Request(cmd, cas, key, extras, data)
       [] OTHER ->
            IF Compressed(extras[1]) THEN BadArgument
            ELSE IF Int32(Len(data)) < 0 \/ block = <<>> THEN CompressFailed
            ELSE Request(cmd, cas, key, [extras EXCEPT ![1] = @ + CompressFlag],
                         hton32(Uint32(Len(data))) \o block)

yrmcds_noop == Request("NOOP", 0, <<>>, <<>>, <<>>)

(* Mutant: the quiet getk is sent as a quiet get, which returns no key.     *)
GetkWithoutKey(key, quiet) == OnKey(Either(quiet, "GETK", "GETQ"), key, <<>>)

yrmcds_get(key, quiet) == OnKey(Either(quiet, "GET", "GETQ"), key, <<>>)
yrmcds_getk(key, quiet) == OnKey(Either(quiet, "GETK", "GETKQ"), key, <<>>)

yrmcds_get_touch(key, expire, quiet) ==
  OnKey(Either(quiet, "GAT", "GATQ"), key, <<expire>>)
yrmcds_getk_touch(key, expire, quiet) ==
  OnKey(Either(quiet, "GATK", "GATKQ"), key, <<expire>>)

yrmcds_lock_get(key, quiet) == OnKey(Either(quiet, "LAG", "LAGQ"), key, <<>>)
yrmcds_lock_getk(key, quiet) == OnKey(Either(quiet, "LAGK", "LAGKQ"), key, <<>>)

(* There is no quiet touch: the parameter is not used.                      *)
yrmcds_touch(key, expire, quiet) == OnKey("TOUCH", key, <<expire>>)

yrmcds_set(c, key, data, flags, expire, cas, quiet) ==
  SendData(c, Either(quiet, "SET", "SETQ"), key, data, flags, expire, cas)
yrmcds_replace(c, key, data, flags, expire, cas, quiet) ==
  SendData(c, Either(quiet, "REPLACE", "REPLACEQ"), key, data, flags, expire, cas)
yrmcds_add(c, key, data, flags, expire, cas, quiet) ==
  SendData(c, Either(quiet, "ADD", "ADDQ"), key, data, flags, expire, cas)
yrmcds_replace_unlock(c, key, data, flags, expire, quiet) ==
  SendData(c, Either(quiet, "RAU", "RAUQ"), key, data, flags, expire, 0)

(* Without an initial value a counter is not created: the expiration says so. *)
yrmcds_incr(key, value, quiet) ==
  OnKey(Either(quiet, "INCREMENT", "INCREMENTQ"), key, <<value, 0, U32 - 1>>)
yrmcds_incr2(key, value, initial, expire, quiet) ==
  OnKey(Either(quiet, "INCREMENT", "INCREMENTQ"), key, <<value, initial, expire>>)
yrmcds_decr(key, value, quiet) ==
  OnKey(Either(quiet, "DECREMENT", "DECREMENTQ"), key, <<value, 0, U32 - 1>>)
yrmcds_decr2(key, value, initial, expire, quiet) ==
  OnKey(Either(quiet, "DECREMENT", "DECREMENTQ"), key, <<value, initial, expire>>)

(* append and prepend send the data as it is, whatever its size.            *)
yrmcds_append(key, data, quiet) ==
  IF key = <<>> \/ data = <<>> THEN BadArgument
  ELSE Request(Either(quiet, "APPEND", "APPENDQ"), 0, key, <<>>, data)
yrmcds_prepend(key, data, quiet) ==
  IF key = <<>> \/ data = <<>> THEN BadArgument
  ELSE Request(Either(quiet, "PREPEND", "PREPENDQ"), 0, key, <<>>, data)

yrmcds_remove(key, quiet) == OnKey(Either(quiet, "DELETE", "DELETEQ"), key, <<>>)
yrmcds_lock(key, quiet) == OnKey(Either(quiet, "LOCK", "LOCKQ"), key, <<>>)
yrmcds_unlock(key, quiet) == OnKey(Either(quiet, "UNLOCK", "UNLOCKQ"), key, <<>>)

yrmcds_unlockall(quiet) ==
  Request(Either(quiet, "UNLOCKALL", "UNLOCKALLQ"), 0, <<>>, <<>>, <<>>)

(* Mutant: the loud and the quiet command are swapped.                      *)
FlushSwapped(delay, quiet) ==
  Request(Either(quiet, "FLUSHQ", "FLUSH"), 0, <<>>,
          IF delay = 0 THEN <<>> ELSE <<delay>>, <<>>)

yrmcds_flush(delay, quiet) ==
  Request(Either(quiet, "FLUSH", "FLUSHQ"), 0, <<>>,
          IF delay = 0 THEN <<>> ELSE <<delay>>, <<>>)

yrmcds_stat_general == Request("STAT", 0, <<>>, <<>>, <<>>)
yrmcds_stat_settings == Request("STAT", 0, <<"settings">>, <<>>, <<>>)
yrmcds_stat_items == Request("STAT", 0, <<"items">>, <<>>, <<>>)
yrmcds_stat_sizes == Request("STAT", 0, <<"sizes">>, <<>>, <<>>)

(* given: the pointer to the prefix is not null.  One of no length is       *)
(* refused then.                                                            *)
yrmcds_keys(given, prefix) ==
  IF given /\ prefix = <<>> THEN BadArgument
  ELSE Request("KEYS", 0, prefix, <<>>, <<>>)

(* Mutant: the version is asked for as a statistic, a list of answers.      *)
VersionAsStat == Request("STAT", 0, <<"version">>, <<>>, <<>>)
yrmcds_version == Request("VERSION", 0, <<>>, <<>>, <<>>)
yrmcds_quit(quiet) == Request(Either(quiet, "QUIT", "QUITQ"), 0, <<>>, <<>>, <<>>)
=============================================================================
