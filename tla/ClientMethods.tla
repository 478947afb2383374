--------------------------- MODULE ClientMethods ----------------------------
(* The methods of \yrmcds\Client in the extension for PHP 7 and 8           *)
(* (yrmcds.c): what each makes of its arguments, either a request of the    *)
(* library or an error that ends the PHP program.                           *)
(*                                                                         *)
(* An object is a record: conn, it has been constructed; prefix, <<>> when  *)
(* it has none; threshold, of compression on its connection.                *)
EXTENDS Commands

(* E_ERROR.                                                                *)
Fatal(why) == [out |-> why]

(* A method called before __construct takes the address of a member of a    *)
(* null connection, and the library refuses a request that does not fit     *)
(* before it looks at the connection.                                       *)
Crash == [out |-> "null connection"]

OnConn(o, request) ==
  IF o.conn \/ request = BadArgument THEN request ELSE Crash

(* The functions that store data read the threshold first.                  *)
OnThreshold(o, request) == IF o.conn THEN request ELSE Crash

(* YRMCDS_CLIENT_EXPLODE.                                                  *)
FullKey(o, key) == o.prefix \o key

-----------------------------------------------------------------------------
Noop(o) == OnConn(o, yrmcds_noop)

Get(o, key, quiet) ==
  IF key = <<>> THEN Fatal("Invalid key")
  ELSE OnConn(o, yrmcds_get(FullKey(o, key), quiet))

(* Mutant: the key goes out without the prefix.                             *)
GetkRaw(o, key, quiet) ==
  IF key = <<>> THEN Fatal("Invalid key")
  ELSE OnConn(o, yrmcds_getk(key, quiet))

Getk(o, key, quiet) ==
  IF key = <<>> THEN Fatal("Invalid key")
  ELSE OnConn(o, yrmcds_getk(FullKey(o, key), quiet))

GetTouch(o, key, expire, quiet) ==
  IF key = <<>> THEN Fatal("Invalid key")
  ELSE OnConn(o, yrmcds_get_touch(FullKey(o, key), Uint32(expire), quiet))

GetkTouch(o, key, expire, quiet) ==
  IF key = <<>> THEN Fatal("Invalid key")
  ELSE OnConn(o, yrmcds_getk_touch(FullKey(o, key), Uint32(expire), quiet))

LockGet(o, key, quiet) ==
  IF key = <<>> THEN Fatal("Invalid key")
  ELSE OnConn(o, yrmcds_lock_get(FullKey(o, key), quiet))

LockGetk(o, key, quiet) ==
  IF key = <<>> THEN Fatal("Invalid key")
  ELSE OnConn(o, yrmcds_lock_getk(FullKey(o, key), quiet))

Touch(o, key, expire, quiet) ==
  IF key = <<>> THEN Fatal("Invalid key")
  ELSE OnConn(o, yrmcds_touch(FullKey(o, key), Uint32(expire), quiet))

Set(o, key, data, flags, expire, cas, quiet) ==
  IF key = <<>> THEN Fatal("Invalid key")
  ELSE IF data = <<>> THEN Fatal("Empty data is not allowed")
  ELSE OnThreshold(o, yrmcds_set(o, FullKey(o, key), data, Uint32(flags),
                                 Uint32(expire), Uint64(cas), quiet))

Replace(o, key, data, flags, expire, cas, quiet) ==
  IF key = <<>> THEN Fatal("Invalid key")
  ELSE IF data = <<>> THEN Fatal("Empty data is not allowed")
  ELSE OnThreshold(o, yrmcds_replace(o, FullKey(o, key), data, Uint32(flags),
                                     Uint32(expire), Uint64(cas), quiet))

Add(o, key, data, flags, expire, cas, quiet) ==
  IF key = <<>> THEN Fatal("Invalid key")
  ELSE IF data = <<>> THEN Fatal("Empty data is not allowed")
  ELSE OnThreshold(o, yrmcds_add(o, FullKey(o, key), data, Uint32(flags),
                                 Uint32(expire), Uint64(cas), quiet))

ReplaceUnlock(o, key, data, flags, expire, quiet) ==
  IF key = <<>> THEN Fatal("Invalid key")
  ELSE IF data = <<>> THEN Fatal("Empty data is not allowed")
  ELSE OnThreshold(o, yrmcds_replace_unlock(o, FullKey(o, key), data, Uint32(flags),
                                            Uint32(expire), quiet))

Incr(o, key, value, quiet) ==
  IF key = <<>> THEN Fatal("Invalid key")
  ELSE IF value < 0 THEN Fatal("Invalid value")
  ELSE OnConn(o, yrmcds_incr(FullKey(o, key), value, quiet))

Decr(o, key, value, quiet) ==
  IF key = <<>> THEN Fatal("Invalid key")
  ELSE IF value < 0 THEN Fatal("Invalid value")
  ELSE OnConn(o, yrmcds_decr(FullKey(o, key), value, quiet))

Incr2(o, key, value, initial, expire, quiet) ==
  IF key = <<>> THEN Fatal("Invalid key")
  ELSE IF value < 0 THEN Fatal("Invalid value")
  ELSE IF initial < 0 THEN Fatal("Invalid initial value")
  ELSE OnConn(o, yrmcds_incr2(FullKey(o, key), value, initial,
                              Uint32(expire), quiet))

Decr2(o, key, value, initial, expire, quiet) ==
  IF key = <<>> THEN Fatal("Invalid key")
  ELSE IF value < 0 THEN Fatal("Invalid value")
  ELSE IF initial < 0 THEN Fatal("Invalid initial value")
  ELSE OnConn(o, yrmcds_decr2(FullKey(o, key), value, initial,
                              Uint32(expire), quiet))

AppendTo(o, key, data, quiet) ==
  IF key = <<>> THEN Fatal("Invalid key")
  ELSE IF data = <<>> THEN Fatal("Empty data is not allowed")
  ELSE OnConn(o, yrmcds_append(FullKey(o, key), data, quiet))

PrependTo(o, key, data, quiet) ==
  IF key = <<>> THEN Fatal("Invalid key")
  ELSE IF data = <<>> THEN Fatal("Empty data is not allowed")
  ELSE OnConn(o, yrmcds_prepend(FullKey(o, key), data, quiet))

Delete(o, key, quiet) ==
  IF key = <<>> THEN Fatal("Invalid key")
  ELSE OnConn(o, yrmcds_remove(FullKey(o, key), quiet))

LockKey(o, key, quiet) ==
  IF key = <<>> THEN Fatal("Invalid key")
  ELSE OnConn(o, yrmcds_lock(FullKey(o, key), quiet))

UnlockKey(o, key, quiet) ==
  IF key = <<>> THEN Fatal("Invalid key")
  ELSE OnConn(o, yrmcds_unlock(FullKey(o, key), quiet))

(* The methods below do not use the prefix.                                 *)
UnlockAll(o, quiet) == OnConn(o, yrmcds_unlockall(quiet))

(* Mutant: a negative delay is not cut to 0.                                *)
FlushUnclamped(o, delay, quiet) == OnConn(o, yrmcds_flush(Uint32(delay), quiet))

Flush(o, delay, quiet) ==
  OnConn(o, yrmcds_flush(IF delay < 0 THEN 0 ELSE Uint32(delay), quiet))

StatGeneral(o) == OnConn(o, yrmcds_stat_general)
StatSettings(o) == OnConn(o, yrmcds_stat_settings)
StatItems(o) == OnConn(o, yrmcds_stat_items)
StatSizes(o) == OnConn(o, yrmcds_stat_sizes)
(* An empty prefix is made a null one.                                      *)
KeysOf(o, prefix) == OnConn(o, yrmcds_keys(prefix # <<>>, prefix))
Version(o) == OnConn(o, yrmcds_version)
Quit(o, quiet) == OnConn(o, yrmcds_quit(quiet))

(* recv makes an object of a response.  Its properties are declared by the  *)
(* class, so all of them are there; a key or data of no length stay null.   *)
Response(r) ==
  [serial |-> r.serial, status |-> r.status, command |-> r.cmd, key |-> r.key,
   data |-> r.data]

-----------------------------------------------------------------------------
(* The names in the function table.                                         *)
MethodNames ==
  {"noop", "get", "getk", "getTouch", "getkTouch", "lockGet",
   "lockGetk", "touch", "set", "replace", "add", "replaceUnlock",
   "incr", "decr", "incr2", "decr2", "append", "prepend", "delete",
   "lock", "unlock", "unlockAll", "flush", "statGeneral",
   "statSettings", "statItems", "statSizes", "keys", "version",
   "quit"}

(* The function table: a call is a record of the method's name and of the   *)
(* arguments, those it does not take included.                              *)
Method(o, a) ==
  CASE a.m = "noop"          -> Noop(o)
    [] a.m = "get"           -> Get(o, a.key, a.quiet)
    [] a.m = "getk"          -> Getk(o, a.key, a.quiet)
    [] a.m = "getTouch"      -> GetTouch(o, a.key, a.expire, a.quiet)
    [] a.m = "getkTouch"     -> GetkTouch(o, a.key, a.expire, a.quiet)
    [] a.m = "lockGet"       -> LockGet(o, a.key, a.quiet)
    [] a.m = "lockGetk"      -> LockGetk(o, a.key, a.quiet)
    [] a.m = "touch"         -> Touch(o, a.key, a.expire, a.quiet)
    [] a.m = "set"           -> Set(o, a.key, a.data, a.flags, a.expire, a.cas, a.quiet)
    [] a.m = "replace"       -> Replace(o, a.key, a.data, a.flags, a.expire, a.cas, a.quiet)
    [] a.m = "add"           -> Add(o, a.key, a.data, a.flags, a.expire, a.cas, a.quiet)
    [] a.m = "replaceUnlock" -> ReplaceUnlock(o, a.key, a.data, a.flags, a.expire, a.quiet)
    [] a.m = "incr"          -> Incr(o, a.key, a.value, a.quiet)
    [] a.m = "decr"          -> Decr(o, a.key, a.value, a.quiet)
    [] a.m = "incr2"         -> Incr2(o, a.key, a.value, a.initial, a.expire, a.quiet)
    [] a.m = "decr2"         -> Decr2(o, a.key, a.value, a.initial, a.expire, a.quiet)
    [] a.m = "append"        -> AppendTo(o, a.key, a.data, a.quiet)
    [] a.m = "prepend"       -> PrependTo(o, a.key, a.data, a.quiet)
    [] a.m = "delete"        -> Delete(o, a.key, a.quiet)
    [] a.m = "lock"          -> LockKey(o, a.key, a.quiet)
    [] a.m = "unlock"        -> UnlockKey(o, a.key, a.quiet)
    [] a.m = "unlockAll"     -> UnlockAll(o, a.quiet)
    [] a.m = "flush"         -> Flush(o, a.expire, a.quiet)
    [] a.m = "statGeneral"   -> StatGeneral(o)
    [] a.m = "statSettings"  -> StatSettings(o)
    [] a.m = "statItems"     -> StatItems(o)
    [] a.m = "statSizes"     -> StatSizes(o)
    [] a.m = "keys"          -> KeysOf(o, a.key)
    [] a.m = "version"       -> Version(o)
    [] a.m = "quit"          -> Quit(o, a.quiet)
=============================================================================
