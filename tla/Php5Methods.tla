---------------------------- MODULE Php5Methods -----------------------------
(* The methods of \yrmcds\Client in the extension for PHP 5                 *)
(* (yrmcds_php5.c), a source of its own beside yrmcds.c.  The connection    *)
(* and the prefix are properties of the object; an object is the record     *)
(* that ClientMethods describes.                                            *)
EXTENDS Commands

(* E_ERROR.                                                                *)
Fatal(why) == [out |-> why]

(* The property "conn" is looked up after the arguments are checked, and    *)
(* the method ends when it is not there.                                    *)
Lost == Fatal("Property \"conn\" was lost!")

OnConn(o, request) == IF o.conn THEN request ELSE Lost

(* The key goes out as it is when there is no property "prefix".            *)
FullKey(o, key) == IF o.prefix = <<>> THEN key ELSE o.prefix \o key

-----------------------------------------------------------------------------
Noop(o) == OnConn(o, yrmcds_noop)

Get(o, key, quiet) ==
  IF key = <<>> THEN Fatal("Invalid key")
  ELSE OnConn(o, yrmcds_get(FullKey(o, key), quiet))

Getk(o, key, quiet) ==
  IF key = <<>> THEN Fatal("Invalid key")
  ELSE OnConn(o, yrmcds_getk(FullKey(o, key), quiet))

GetTouch(o, key, expire, quiet) ==
  IF key = <<>> THEN Fatal("Invalid key")
  ELSE OnConn(o, yrmcds_get_touch(FullKey(o, key), Uint32(expire), quiet))

GetkTouch(o, key, expire, quiet) ==
  IF key = <<>> THEN Fatal("Invalid key")
  ELSE OnConn(o, yrmcds_getk_touch(FullKey(o, key), Uint32(expire), quiet))

LockGet(o, key, quiet) ==
  IF key = <<>> THEN Fatal("Invalid key")
  ELSE OnConn(o, yrmcds_lock_get(FullKey(o, key), quiet))

LockGetk(o, key, quiet) ==
  IF key = <<>> THEN Fatal("Invalid key")
  ELSE OnConn(o, yrmcds_lock_getk(FullKey(o, key), quiet))

Touch(o, key, expire, quiet) ==
  IF key = <<>> THEN Fatal("Invalid key")
  ELSE OnConn(o, yrmcds_touch(FullKey(o, key), Uint32(expire), quiet))

Set(o, key, data, flags, expire, cas, quiet) ==
  IF key = <<>> THEN Fatal("Invalid key")
  ELSE IF data = <<>> THEN Fatal("Empty data is not allowed")
  ELSE OnConn(o, yrmcds_set(o, FullKey(o, key), data, Uint32(flags),
                            Uint32(expire), Uint64(cas), quiet))

Replace(o, key, data, flags, expire, cas, quiet) ==
  IF key = <<>> THEN Fatal("Invalid key")
  ELSE IF data = <<>> THEN Fatal("Empty data is not allowed")
  ELSE OnConn(o, yrmcds_replace(o, FullKey(o, key), data, Uint32(flags),
                                Uint32(expire), Uint64(cas), quiet))

Add(o, key, data, flags, expire, cas, quiet) ==
  IF key = <<>> THEN Fatal("Invalid key")
  ELSE IF data = <<>> THEN Fatal("Empty data is not allowed")
  ELSE OnConn(o, yrmcds_add(o, FullKey(o, key), data, Uint32(flags),
                            Uint32(expire), Uint64(cas), quiet))

ReplaceUnlock(o, key, data, flags, expire, quiet) ==
  IF key = <<>> THEN Fatal("Invalid key")
  ELSE IF data = <<>> THEN Fatal("Empty data is not allowed")
  ELSE OnConn(o, yrmcds_replace_unlock(o, FullKey(o, key), data, Uint32(flags),
                                       Uint32(expire), quiet))

Incr(o, key, value, quiet) ==
  IF key = <<>> THEN Fatal("Invalid key")
  ELSE IF value < 0 THEN Fatal("Invalid value")
  ELSE OnConn(o, yrmcds_incr(FullKey(o, key), value, quiet))

Decr(o, key, value, quiet) ==
  IF key = <<>> THEN Fatal("Invalid key")
  ELSE IF value < 0 THEN Fatal("Invalid value")
  ELSE OnConn(o, yrmcds_decr(FullKey(o, key), value, quiet))

Incr2(o, key, value, initial, expire, quiet) ==
  IF key = <<>> THEN Fatal("Invalid key")
  ELSE IF value < 0 THEN Fatal("Invalid value")
  ELSE IF initial < 0 THEN Fatal("Invalid initial value")
  ELSE OnConn(o, yrmcds_incr2(FullKey(o, key), value, initial,
                              Uint32(expire), quiet))

Decr2(o, key, value, initial, expire, quiet) ==
  IF key = <<>> THEN Fatal("Invalid key")
  ELSE IF value < 0 THEN Fatal("Invalid value")
  ELSE IF initial < 0 THEN Fatal("Invalid initial value")
  ELSE OnConn(o, yrmcds_decr2(FullKey(o, key), value, initial,
                              Uint32(expire), quiet))

AppendTo(o, key, data, quiet) ==
  IF key = <<>> THEN Fatal("Invalid key")
  ELSE IF data = <<>> THEN Fatal("Empty data is not allowed")
  ELSE OnConn(o, yrmcds_append(FullKey(o, key), data, quiet))

PrependTo(o, key, data, quiet) ==
  IF key = <<>> THEN Fatal("Invalid key")
  ELSE IF data = <<>> THEN Fatal("Empty data is not allowed")
  ELSE OnConn(o, yrmcds_prepend(FullKey(o, key), data, quiet))

Delete(o, key, quiet) ==
  IF key = <<>> THEN Fatal("Invalid key")
  ELSE OnConn(o, yrmcds_remove(FullKey(o, key), quiet))

LockKey(o, key, quiet) ==
  IF key = <<>> THEN Fatal("Invalid key")
  ELSE OnConn(o, yrmcds_lock(FullKey(o, key), quiet))

UnlockKey(o, key, quiet) ==
  IF key = <<>> THEN Fatal("Invalid key")
  ELSE OnConn(o, yrmcds_unlock(FullKey(o, key), quiet))

(* The methods below do not use the prefix.                                 *)
UnlockAll(o, quiet) == OnConn(o, yrmcds_unlockall(quiet))

Flush(o, delay, quiet) ==
  OnConn(o, yrmcds_flush(IF delay < 0 THEN 0 ELSE Uint32(delay), quiet))

StatGeneral(o) == OnConn(o, yrmcds_stat_general)
StatSettings(o) == OnConn(o, yrmcds_stat_settings)
StatItems(o) == OnConn(o, yrmcds_stat_items)
StatSizes(o) == OnConn(o, yrmcds_stat_sizes)
(* An empty prefix is made a null one.                                      *)
KeysOf(o, prefix) == OnConn(o, yrmcds_keys(prefix # <<>>, prefix))
Version(o) == OnConn(o, yrmcds_version)
Quit(o, quiet) == OnConn(o, yrmcds_quit(quiet))

(* recv makes an object of a response: an empty key is a null property, and *)
(* without data there is no property "data".                                *)
Response(r) ==
  [p \in {"serial", "status", "command", "key"} \cup
         (IF r.data = <<>> THEN {} ELSE {"data"})
     |-> IF p = "command" THEN r.cmd ELSE r[p]]

-----------------------------------------------------------------------------
(* The function table: a call is a record of the method's name and of the   *)
(* arguments, those it does not take included.                              *)
Method(o, a) ==
  CASE a.m = "noop"          -> Noop(o)
    [] a.m = "get"           -> Get(o, a.key, a.quiet)
    [] a.m = "getk"          -> Getk(o, a.key, a.quiet)
    [] a.m = "getTouch"      -> GetTouch(o, a.key, a.expire, a.quiet)
    [] a.m = "getkTouch"     -> GetkTouch(o, a.key, a.expire, a.quiet)
    [] a.m = "lockGet"       -> LockGet(o, a.key, a.quiet)
    [] a.m = "lockGetk"      -> LockGetk(o, a.key, a.quiet)
    [] a.m = "touch"         -> Touch(o, a.key, a.expire, a.quiet)
    [] a.m = "set"           -> Set(o, a.key, a.data, a.flags, a.expire, a.cas, a.quiet)
    [] a.m = "replace"       -> Replace(o, a.key, a.data, a.flags, a.expire, a.cas, a.quiet)
    [] a.m = "add"           -> Add(o, a.key, a.data, a.flags, a.expire, a.cas, a.quiet)
    [] a.m = "replaceUnlock" -> ReplaceUnlock(o, a.key, a.data, a.flags, a.expire, a.quiet)
    [] a.m = "incr"          -> Incr(o, a.key, a.value, a.quiet)
    [] a.m = "decr"          -> Decr(o, a.key, a.value, a.quiet)
    [] a.m = "incr2"         -> Incr2(o, a.key, a.value, a.initial, a.expire, a.quiet)
    [] a.m = "decr2"         -> Decr2(o, a.key, a.value, a.initial, a.expire, a.quiet)
    [] a.m = "append"        -> AppendTo(o, a.key, a.data, a.quiet)
    [] a.m = "prepend"       -> PrependTo(o, a.key, a.data, a.quiet)
    [] a.m = "delete"        -> Delete(o, a.key, a.quiet)
    [] a.m = "lock"          -> LockKey(o, a.key, a.quiet)
    [] a.m = "unlock"        -> UnlockKey(o, a.key, a.quiet)
    [] a.m = "unlockAll"     -> UnlockAll(o, a.quiet)
    [] a.m = "flush"         -> Flush(o, a.expire, a.quiet)
    [] a.m = "statGeneral"   -> StatGeneral(o)
    [] a.m = "statSettings"  -> StatSettings(o)
    [] a.m = "statItems"     -> StatItems(o)
    [] a.m = "statSizes"     -> StatSizes(o)
    [] a.m = "keys"          -> KeysOf(o, a.key)
    [] a.m = "version"       -> Version(o)
    [] a.m = "quit"          -> Quit(o, a.quiet)
=============================================================================
