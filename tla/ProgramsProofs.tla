--------------------------- MODULE ProgramsProofs ---------------------------
(* Theorems about Programs, for every set of clients with any prefixes, all  *)
(* their calls and keys, and every width of the serials.                    *)
(*   1. The two extensions make the same request of every call, or differ in *)
(*      how they fail on an object that was never constructed.              *)
(*   2. The response that a wait accepts by its serial is the one to its     *)
(*      own call.                                                           *)
(*   3. Clients whose prefixes are apart do not read each other's objects.  *)
EXTENDS Programs, SequenceTheorems, TLAPS

-----------------------------------------------------------------------------
(* The methods of yrmcds.c and yrmcds_php5.c, one by one.                    *)

(* The gets and touch.                                                      *)
LEMMA SameReads ==
  ASSUME NEW o, o.conn = TRUE, NEW a, FullKey(o, a.key) = Php5!FullKey(o, a.key)
  PROVE  /\ Get(o, a.key, a.quiet) = Php5!Get(o, a.key, a.quiet)
         /\ Getk(o, a.key, a.quiet) = Php5!Getk(o, a.key, a.quiet)
         /\ GetTouch(o, a.key, a.expire, a.quiet)
            = Php5!GetTouch(o, a.key, a.expire, a.quiet)
         /\ GetkTouch(o, a.key, a.expire, a.quiet)
            = Php5!GetkTouch(o, a.key, a.expire, a.quiet)
         /\ LockGet(o, a.key, a.quiet) = Php5!LockGet(o, a.key, a.quiet)
         /\ LockGetk(o, a.key, a.quiet) = Php5!LockGetk(o, a.key, a.quiet)
         /\ Touch(o, a.key, a.expire, a.quiet)
            = Php5!Touch(o, a.key, a.expire, a.quiet)
<1> USE DEF Fatal, Php5!Fatal, OnConn, Php5!OnConn, Request, Php5!Request,
            Either, Php5!Either, BadArgument, Php5!BadArgument, Uint32,
            Php5!Uint32, Uint64, Php5!Uint64, OnKey, Php5!OnKey
<1>1. Get(o, a.key, a.quiet) = Php5!Get(o, a.key, a.quiet)
  BY DEF Get, Php5!Get, yrmcds_get, Php5!yrmcds_get
<1>2. Getk(o, a.key, a.quiet) = Php5!Getk(o, a.key, a.quiet)
  BY DEF Getk, Php5!Getk, yrmcds_getk, Php5!yrmcds_getk
<1>3. GetTouch(o, a.key, a.expire, a.quiet)
        = Php5!GetTouch(o, a.key, a.expire, a.quiet)
  BY DEF GetTouch, Php5!GetTouch, yrmcds_get_touch, Php5!yrmcds_get_touch
<1>4. GetkTouch(o, a.key, a.expire, a.quiet)
        = Php5!GetkTouch(o, a.key, a.expire, a.quiet)
  BY DEF GetkTouch, Php5!GetkTouch, yrmcds_getk_touch, Php5!yrmcds_getk_touch
<1>5. LockGet(o, a.key, a.quiet) = Php5!LockGet(o, a.key, a.quiet)
  BY DEF LockGet, Php5!LockGet, yrmcds_lock_get, Php5!yrmcds_lock_get
<1>6. LockGetk(o, a.key, a.quiet) = Php5!LockGetk(o, a.key, a.quiet)
  BY DEF LockGetk, Php5!LockGetk, yrmcds_lock_getk, Php5!yrmcds_lock_getk
<1>7. Touch(o, a.key, a.expire, a.quiet)
        = Php5!Touch(o, a.key, a.expire, a.quiet)
  BY DEF Touch, Php5!Touch, yrmcds_touch, Php5!yrmcds_touch
<1>8. QED BY <1>1, <1>2, <1>3, <1>4, <1>5, <1>6, <1>7

(* The methods that store data.                                             *)
LEMMA SameStores ==
  ASSUME NEW o, o.conn = TRUE, NEW a, FullKey(o, a.key) = Php5!FullKey(o, a.key)
  PROVE  /\ Set(o, a.key, a.data, a.flags, a.expire, a.cas, a.quiet)
            = Php5!Set(o, a.key, a.data, a.flags, a.expire, a.cas, a.quiet)
         /\ Replace(o, a.key, a.data, a.flags, a.expire, a.cas, a.quiet)
            = Php5!Replace(o, a.key, a.data, a.flags, a.expire, a.cas, a.quiet)
         /\ Add(o, a.key, a.data, a.flags, a.expire, a.cas, a.quiet)
            = Php5!Add(o, a.key, a.data, a.flags, a.expire, a.cas, a.quiet)
         /\ ReplaceUnlock(o, a.key, a.data, a.flags, a.expire, a.quiet)
            = Php5!ReplaceUnlock(o, a.key, a.data, a.flags, a.expire, a.quiet)
         /\ AppendTo(o, a.key, a.data, a.quiet)
            = Php5!AppendTo(o, a.key, a.data, a.quiet)
         /\ PrependTo(o, a.key, a.data, a.quiet)
            = Php5!PrependTo(o, a.key, a.data, a.quiet)
<1> USE DEF Fatal, Php5!Fatal, OnConn, Php5!OnConn, Request, Php5!Request,
            Either, Php5!Either, BadArgument, Php5!BadArgument, Uint32,
            Php5!Uint32, Uint64, Php5!Uint64, OnKey, Php5!OnKey,
            CompressFailed, Php5!CompressFailed, Compressed, Php5!Compressed,
            CompressFlag, Php5!CompressFlag, Int32, Php5!Int32, OnThreshold
<1>a. \A n : hton32(n) = Php5!hton32(n)
  BY DEF hton32, Php5!hton32
<1>0. ASSUME NEW cmd, NEW key, NEW flags, NEW expire, NEW cas
      PROVE  SendData(o, cmd, key, a.data, flags, expire, cas)
               = Php5!SendData(o, cmd, key, a.data, flags, expire, cas)
  BY <1>a DEF SendData, Php5!SendData
<1>1. Set(o, a.key, a.data, a.flags, a.expire, a.cas, a.quiet)
        = Php5!Set(o, a.key, a.data, a.flags, a.expire, a.cas, a.quiet)
  BY <1>0, ZenonT(60) DEF Set, Php5!Set, yrmcds_set, Php5!yrmcds_set
<1>2. Replace(o, a.key, a.data, a.flags, a.expire, a.cas, a.quiet)
        = Php5!Replace(o, a.key, a.data, a.flags, a.expire, a.cas, a.quiet)
  BY <1>0, ZenonT(60) DEF Replace, Php5!Replace, yrmcds_replace, Php5!yrmcds_replace
<1>3. Add(o, a.key, a.data, a.flags, a.expire, a.cas, a.quiet)
        = Php5!Add(o, a.key, a.data, a.flags, a.expire, a.cas, a.quiet)
  BY <1>0, ZenonT(60) DEF Add, Php5!Add, yrmcds_add, Php5!yrmcds_add
<1>4. ReplaceUnlock(o, a.key, a.data, a.flags, a.expire, a.quiet)
        = Php5!ReplaceUnlock(o, a.key, a.data, a.flags, a.expire, a.quiet)
  BY <1>0, ZenonT(60) DEF ReplaceUnlock, Php5!ReplaceUnlock, yrmcds_replace_unlock,
              Php5!yrmcds_replace_unlock
<1>5. AppendTo(o, a.key, a.data, a.quiet)
        = Php5!AppendTo(o, a.key, a.data, a.quiet)
  BY DEF AppendTo, Php5!AppendTo, yrmcds_append, Php5!yrmcds_append
<1>6. PrependTo(o, a.key, a.data, a.quiet)
        = Php5!PrependTo(o, a.key, a.data, a.quiet)
  BY DEF PrependTo, Php5!PrependTo, yrmcds_prepend, Php5!yrmcds_prepend
<1>7. QED BY <1>1, <1>2, <1>3, <1>4, <1>5, <1>6

(* The counters.                                                            *)
LEMMA SameCounters ==
  ASSUME NEW o, o.conn = TRUE, NEW a, FullKey(o, a.key) = Php5!FullKey(o, a.key)
  PROVE  /\ Incr(o, a.key, a.value, a.quiet)
            = Php5!Incr(o, a.key, a.value, a.quiet)
         /\ Decr(o, a.key, a.value, a.quiet)
            = Php5!Decr(o, a.key, a.value, a.quiet)
         /\ Incr2(o, a.key, a.value, a.initial, a.expire, a.quiet)
            = Php5!Incr2(o, a.key, a.value, a.initial, a.expire, a.quiet)
         /\ Decr2(o, a.key, a.value, a.initial, a.expire, a.quiet)
            = Php5!Decr2(o, a.key, a.value, a.initial, a.expire, a.quiet)
<1> USE DEF Fatal, Php5!Fatal, OnConn, Php5!OnConn, Request, Php5!Request,
            Either, Php5!Either, BadArgument, Php5!BadArgument, Uint32,
            Php5!Uint32, Uint64, Php5!Uint64, OnKey, Php5!OnKey
<1>1. Incr(o, a.key, a.value, a.quiet) = Php5!Incr(o, a.key, a.value, a.quiet)
  BY DEF Incr, Php5!Incr, yrmcds_incr, Php5!yrmcds_incr
<1>2. Decr(o, a.key, a.value, a.quiet) = Php5!Decr(o, a.key, a.value, a.quiet)
  BY DEF Decr, Php5!Decr, yrmcds_decr, Php5!yrmcds_decr
<1>3. Incr2(o, a.key, a.value, a.initial, a.expire, a.quiet)
        = Php5!Incr2(o, a.key, a.value, a.initial, a.expire, a.quiet)
  BY DEF Incr2, Php5!Incr2, yrmcds_incr2, Php5!yrmcds_incr2
<1>4. Decr2(o, a.key, a.value, a.initial, a.expire, a.quiet)
        = Php5!Decr2(o, a.key, a.value, a.initial, a.expire, a.quiet)
  BY DEF Decr2, Php5!Decr2, yrmcds_decr2, Php5!yrmcds_decr2
<1>5. QED BY <1>1, <1>2, <1>3, <1>4

(* The locks, and what removes or does nothing.                             *)
LEMMA SameLocks ==
  ASSUME NEW o, o.conn = TRUE, NEW a, FullKey(o, a.key) = Php5!FullKey(o, a.key)
  PROVE  /\ Delete(o, a.key, a.quiet) = Php5!Delete(o, a.key, a.quiet)
         /\ LockKey(o, a.key, a.quiet) = Php5!LockKey(o, a.key, a.quiet)
         /\ UnlockKey(o, a.key, a.quiet) = Php5!UnlockKey(o, a.key, a.quiet)
         /\ UnlockAll(o, a.quiet) = Php5!UnlockAll(o, a.quiet)
         /\ Flush(o, a.expire, a.quiet) = Php5!Flush(o, a.expire, a.quiet)
         /\ Noop(o) = Php5!Noop(o)
<1> USE DEF Fatal, Php5!Fatal, OnConn, Php5!OnConn, Request, Php5!Request,
            Either, Php5!Either, BadArgument, Php5!BadArgument, Uint32,
            Php5!Uint32, Uint64, Php5!Uint64, OnKey, Php5!OnKey
<1>1. Delete(o, a.key, a.quiet) = Php5!Delete(o, a.key, a.quiet)
  BY DEF Delete, Php5!Delete, yrmcds_remove, Php5!yrmcds_remove
<1>2. LockKey(o, a.key, a.quiet) = Php5!LockKey(o, a.key, a.quiet)
  BY DEF LockKey, Php5!LockKey, yrmcds_lock, Php5!yrmcds_lock
<1>3. UnlockKey(o, a.key, a.quiet) = Php5!UnlockKey(o, a.key, a.quiet)
  BY DEF UnlockKey, Php5!UnlockKey, yrmcds_unlock, Php5!yrmcds_unlock
<1>4. UnlockAll(o, a.quiet) = Php5!UnlockAll(o, a.quiet)
  BY DEF UnlockAll, Php5!UnlockAll, yrmcds_unlockall, Php5!yrmcds_unlockall
<1>5. Flush(o, a.expire, a.quiet) = Php5!Flush(o, a.expire, a.quiet)
  BY DEF Flush, Php5!Flush, yrmcds_flush, Php5!yrmcds_flush
<1>6. Noop(o) = Php5!Noop(o)
  BY DEF Noop, Php5!Noop, yrmcds_noop, Php5!yrmcds_noop
<1>7. QED BY <1>1, <1>2, <1>3, <1>4, <1>5, <1>6

(* The listings, version and quit.                                          *)
LEMMA SameListings ==
  ASSUME NEW o, o.conn = TRUE, NEW a, FullKey(o, a.key) = Php5!FullKey(o, a.key)
  PROVE  /\ StatGeneral(o) = Php5!StatGeneral(o)
         /\ StatSettings(o) = Php5!StatSettings(o)
         /\ StatItems(o) = Php5!StatItems(o)
         /\ StatSizes(o) = Php5!StatSizes(o)
         /\ KeysOf(o, a.key) = Php5!KeysOf(o, a.key)
         /\ Version(o) = Php5!Version(o)
         /\ Quit(o, a.quiet) = Php5!Quit(o, a.quiet)
<1> USE DEF Fatal, Php5!Fatal, OnConn, Php5!OnConn, Request, Php5!Request,
            Either, Php5!Either, BadArgument, Php5!BadArgument, Uint32,
            Php5!Uint32, Uint64, Php5!Uint64, OnKey, Php5!OnKey
<1>1. StatGeneral(o) = Php5!StatGeneral(o)
  BY DEF StatGeneral, Php5!StatGeneral, yrmcds_stat_general,
         Php5!yrmcds_stat_general
<1>2. StatSettings(o) = Php5!StatSettings(o)
  BY DEF StatSettings, Php5!StatSettings, yrmcds_stat_settings,
         Php5!yrmcds_stat_settings
<1>3. StatItems(o) = Php5!StatItems(o)
  BY DEF StatItems, Php5!StatItems, yrmcds_stat_items, Php5!yrmcds_stat_items
<1>4. StatSizes(o) = Php5!StatSizes(o)
  BY DEF StatSizes, Php5!StatSizes, yrmcds_stat_sizes, Php5!yrmcds_stat_sizes
<1>5. KeysOf(o, a.key) = Php5!KeysOf(o, a.key)
  BY DEF KeysOf, Php5!KeysOf, yrmcds_keys, Php5!yrmcds_keys
<1>6. Version(o) = Php5!Version(o)
  BY DEF Version, Php5!Version, yrmcds_version, Php5!yrmcds_version
<1>7. Quit(o, a.quiet) = Php5!Quit(o, a.quiet)
  BY ZenonT(60) DEF Quit, Php5!Quit, yrmcds_quit, Php5!yrmcds_quit
<1>8. QED BY <1>1, <1>2, <1>3, <1>4, <1>5, <1>6, <1>7

(* Both function tables lead to the same request.                            *)
LEMMA SameMethod ==
  ASSUME NEW o, o.conn = TRUE, NEW a, a.m \in MethodNames,
         FullKey(o, a.key) = Php5!FullKey(o, a.key)
  PROVE  Method(o, a) = Php5!Method(o, a)
<1> USE DEF Method, Php5!Method
<1>1. CASE a.m \in {"get", "getk", "getTouch", "getkTouch", "lockGet",
                  "lockGetk", "touch"}
  BY <1>1, SameReads
<1>2. CASE a.m \in {"set", "replace", "add", "replaceUnlock", "append",
                  "prepend"}
  BY <1>2, SameStores
<1>3. CASE a.m \in {"incr", "decr", "incr2", "decr2"}
  BY <1>3, SameCounters
<1>4. CASE a.m \in {"delete", "lock", "unlock", "unlockAll", "flush", "noop"}
  BY <1>4, SameLocks
<1>5. CASE a.m \in {"statGeneral", "statSettings", "statItems", "statSizes"}
  BY <1>5, SameListings
<1>6. CASE a.m = "keys"
  BY <1>6, SameListings
<1>7. CASE a.m = "version"
  BY <1>7, SameListings
<1>8. CASE a.m = "quit"
  BY <1>8, SameListings
<1>9. QED BY <1>1, <1>2, <1>3, <1>4, <1>5, <1>6, <1>7, <1>8 DEF MethodNames

(* The noop takes no key.                                                    *)
LEMMA SameNoop ==
  ASSUME NEW o, o.conn = TRUE, NEW a, a.m = "noop"
  PROVE  Method(o, a) = Php5!Method(o, a)
BY DEF Method, Php5!Method, Noop, Php5!Noop, OnConn, Php5!OnConn,
       yrmcds_noop, Php5!yrmcds_noop, Request, Php5!Request,
       BadArgument, Php5!BadArgument

-----------------------------------------------------------------------------
(* Methods of an object that was never constructed.                         *)

(* The same refusal, or one does not look for the connection and the other   *)
(* finds none.  Nothing is sent.                                            *)
Refuse(x, y) ==
  /\ x = y \/ (x \in {Crash, BadArgument} /\ y = Php5!Lost)
  /\ x.out # "send" /\ y.out # "send"

(* Where the arguments pass, the connection is what is missing.             *)
LEMMA NoConnection ==
  ASSUME NEW o, o.conn = FALSE
  PROVE  /\ \A r, s : Refuse(OnConn(o, r), Php5!OnConn(o, s))
         /\ \A r, s : Refuse(OnThreshold(o, r), Php5!OnConn(o, s))
<1>1. /\ \A r : OnConn(o, r) \in {Crash, BadArgument}
      /\ \A r : OnThreshold(o, r) = Crash
      /\ \A s : Php5!OnConn(o, s) = Php5!Lost
  BY DEF OnConn, OnThreshold, Php5!OnConn
<1>2. Crash.out # "send" /\ BadArgument.out # "send" /\ Php5!Lost.out # "send"
  BY DEF Crash, BadArgument, Php5!Lost, Php5!Fatal
<1>3. ASSUME NEW x \in {Crash, BadArgument} PROVE Refuse(x, Php5!Lost)
  BY <1>2 DEF Refuse
<1> QED BY <1>1, <1>3

(* Where they do not, both sources say the same.                            *)
LEMMA SameFatal ==
  ASSUME NEW why \in {"Invalid key", "Empty data is not allowed", "Invalid value",
                      "Invalid initial value"}
  PROVE  Refuse(Fatal(why), Php5!Fatal(why))
BY DEF Refuse, Fatal, Php5!Fatal

(* The gets and touch.                                                      *)
LEMMA RefusedReads ==
  ASSUME NEW o, o.conn = FALSE, NEW a
  PROVE  /\ Refuse(Get(o, a.key, a.quiet), Php5!Get(o, a.key, a.quiet))
         /\ Refuse(Getk(o, a.key, a.quiet), Php5!Getk(o, a.key, a.quiet))
         /\ Refuse(GetTouch(o, a.key, a.expire, a.quiet),
                   Php5!GetTouch(o, a.key, a.expire, a.quiet))
         /\ Refuse(GetkTouch(o, a.key, a.expire, a.quiet),
                   Php5!GetkTouch(o, a.key, a.expire, a.quiet))
         /\ Refuse(LockGet(o, a.key, a.quiet), Php5!LockGet(o, a.key, a.quiet))
         /\ Refuse(LockGetk(o, a.key, a.quiet), Php5!LockGetk(o, a.key, a.quiet))
         /\ Refuse(Touch(o, a.key, a.expire, a.quiet),
                   Php5!Touch(o, a.key, a.expire, a.quiet))
<1>1. Refuse(Fatal("Invalid key"), Php5!Fatal("Invalid key"))
  BY SameFatal
<1> QED BY <1>1, NoConnection DEF Get, Php5!Get, Getk, Php5!Getk, GetTouch, Php5!GetTouch,
        GetkTouch, Php5!GetkTouch, LockGet, Php5!LockGet, LockGetk, Php5!LockGetk,
        Touch, Php5!Touch

(* The methods that store data.                                             *)
LEMMA RefusedStores ==
  ASSUME NEW o, o.conn = FALSE, NEW a
  PROVE  /\ Refuse(Set(o, a.key, a.data, a.flags, a.expire, a.cas, a.quiet),
                   Php5!Set(o, a.key, a.data, a.flags, a.expire, a.cas, a.quiet))
         /\ Refuse(Replace(o, a.key, a.data, a.flags, a.expire, a.cas, a.quiet),
                   Php5!Replace(o, a.key, a.data, a.flags, a.expire, a.cas, a.quiet))
         /\ Refuse(Add(o, a.key, a.data, a.flags, a.expire, a.cas, a.quiet),
                   Php5!Add(o, a.key, a.data, a.flags, a.expire, a.cas, a.quiet))
         /\ Refuse(ReplaceUnlock(o, a.key, a.data, a.flags, a.expire, a.quiet),
                   Php5!ReplaceUnlock(o, a.key, a.data, a.flags, a.expire, a.quiet))
         /\ Refuse(AppendTo(o, a.key, a.data, a.quiet), Php5!AppendTo(o, a.key, a.data, a.quiet))
         /\ Refuse(PrependTo(o, a.key, a.data, a.quiet),
                   Php5!PrependTo(o, a.key, a.data, a.quiet))
<1>1. /\ Refuse(Fatal("Invalid key"), Php5!Fatal("Invalid key"))
      /\ Refuse(Fatal("Empty data is not allowed"), Php5!Fatal("Empty data is not allowed"))
  BY SameFatal
<1>2. Refuse(Set(o, a.key, a.data, a.flags, a.expire, a.cas, a.quiet),
             Php5!Set(o, a.key, a.data, a.flags, a.expire, a.cas, a.quiet))
  BY <1>1, NoConnection DEF Set, Php5!Set
<1>3. Refuse(Replace(o, a.key, a.data, a.flags, a.expire, a.cas, a.quiet),
             Php5!Replace(o, a.key, a.data, a.flags, a.expire, a.cas, a.quiet))
  BY <1>1, NoConnection DEF Replace, Php5!Replace
<1>4. Refuse(Add(o, a.key, a.data, a.flags, a.expire, a.cas, a.quiet),
             Php5!Add(o, a.key, a.data, a.flags, a.expire, a.cas, a.quiet))
  BY <1>1, NoConnection DEF Add, Php5!Add
<1>5. Refuse(ReplaceUnlock(o, a.key, a.data, a.flags, a.expire, a.quiet),
             Php5!ReplaceUnlock(o, a.key, a.data, a.flags, a.expire, a.quiet))
  BY <1>1, NoConnection DEF ReplaceUnlock, Php5!ReplaceUnlock
<1>6. /\ Refuse(AppendTo(o, a.key, a.data, a.quiet), Php5!AppendTo(o, a.key, a.data, a.quiet))
      /\ Refuse(PrependTo(o, a.key, a.data, a.quiet), Php5!PrependTo(o, a.key, a.data, a.quiet))
  BY <1>1, NoConnection DEF AppendTo, Php5!AppendTo, PrependTo, Php5!PrependTo
<1> QED BY <1>2, <1>3, <1>4, <1>5, <1>6

(* The counters.                                                            *)
LEMMA RefusedCounters ==
  ASSUME NEW o, o.conn = FALSE, NEW a
  PROVE  /\ Refuse(Incr(o, a.key, a.value, a.quiet), Php5!Incr(o, a.key, a.value, a.quiet))
         /\ Refuse(Decr(o, a.key, a.value, a.quiet), Php5!Decr(o, a.key, a.value, a.quiet))
         /\ Refuse(Incr2(o, a.key, a.value, a.initial, a.expire, a.quiet),
                   Php5!Incr2(o, a.key, a.value, a.initial, a.expire, a.quiet))
         /\ Refuse(Decr2(o, a.key, a.value, a.initial, a.expire, a.quiet),
                   Php5!Decr2(o, a.key, a.value, a.initial, a.expire, a.quiet))
<1>1. /\ Refuse(Fatal("Invalid key"), Php5!Fatal("Invalid key"))
      /\ Refuse(Fatal("Invalid value"), Php5!Fatal("Invalid value"))
      /\ Refuse(Fatal("Invalid initial value"), Php5!Fatal("Invalid initial value"))
  BY SameFatal
<1>2. /\ Refuse(Incr(o, a.key, a.value, a.quiet), Php5!Incr(o, a.key, a.value, a.quiet))
      /\ Refuse(Decr(o, a.key, a.value, a.quiet), Php5!Decr(o, a.key, a.value, a.quiet))
  BY <1>1, NoConnection DEF Incr, Php5!Incr, Decr, Php5!Decr
<1>3. Refuse(Incr2(o, a.key, a.value, a.initial, a.expire, a.quiet),
             Php5!Incr2(o, a.key, a.value, a.initial, a.expire, a.quiet))
  BY <1>1, NoConnection DEF Incr2, Php5!Incr2
<1>4. Refuse(Decr2(o, a.key, a.value, a.initial, a.expire, a.quiet),
             Php5!Decr2(o, a.key, a.value, a.initial, a.expire, a.quiet))
  BY <1>1, NoConnection DEF Decr2, Php5!Decr2
<1> QED BY <1>2, <1>3, <1>4

(* All others.                                                              *)
LEMMA RefusedRest ==
  ASSUME NEW o, o.conn = FALSE, NEW a
  PROVE  /\ Refuse(Delete(o, a.key, a.quiet), Php5!Delete(o, a.key, a.quiet))
         /\ Refuse(LockKey(o, a.key, a.quiet), Php5!LockKey(o, a.key, a.quiet))
         /\ Refuse(UnlockKey(o, a.key, a.quiet), Php5!UnlockKey(o, a.key, a.quiet))
         /\ Refuse(UnlockAll(o, a.quiet), Php5!UnlockAll(o, a.quiet))
         /\ Refuse(Flush(o, a.expire, a.quiet), Php5!Flush(o, a.expire, a.quiet))
         /\ Refuse(Noop(o), Php5!Noop(o))
         /\ Refuse(StatGeneral(o), Php5!StatGeneral(o))
         /\ Refuse(StatSettings(o), Php5!StatSettings(o))
         /\ Refuse(StatItems(o), Php5!StatItems(o))
         /\ Refuse(StatSizes(o), Php5!StatSizes(o))
         /\ Refuse(KeysOf(o, a.key), Php5!KeysOf(o, a.key))
         /\ Refuse(Version(o), Php5!Version(o))
         /\ Refuse(Quit(o, a.quiet), Php5!Quit(o, a.quiet))
<1>1. Refuse(Fatal("Invalid key"), Php5!Fatal("Invalid key"))
  BY SameFatal
<1>2. /\ Refuse(Delete(o, a.key, a.quiet), Php5!Delete(o, a.key, a.quiet))
      /\ Refuse(LockKey(o, a.key, a.quiet), Php5!LockKey(o, a.key, a.quiet))
      /\ Refuse(UnlockKey(o, a.key, a.quiet), Php5!UnlockKey(o, a.key, a.quiet))
  BY <1>1, NoConnection DEF Delete, Php5!Delete, LockKey, Php5!LockKey, UnlockKey, Php5!UnlockKey
<1>3. /\ Refuse(UnlockAll(o, a.quiet), Php5!UnlockAll(o, a.quiet))
      /\ Refuse(Flush(o, a.expire, a.quiet), Php5!Flush(o, a.expire, a.quiet))
      /\ Refuse(Noop(o), Php5!Noop(o))
  BY NoConnection DEF UnlockAll, Php5!UnlockAll, Flush, Php5!Flush, Noop, Php5!Noop
<1>4. /\ Refuse(StatGeneral(o), Php5!StatGeneral(o))
      /\ Refuse(StatSettings(o), Php5!StatSettings(o))
      /\ Refuse(StatItems(o), Php5!StatItems(o))
      /\ Refuse(StatSizes(o), Php5!StatSizes(o))
  BY NoConnection DEF StatGeneral, Php5!StatGeneral, StatSettings, Php5!StatSettings,
     StatItems, Php5!StatItems, StatSizes, Php5!StatSizes
<1>5. /\ Refuse(KeysOf(o, a.key), Php5!KeysOf(o, a.key))
      /\ Refuse(Version(o), Php5!Version(o))
      /\ Refuse(Quit(o, a.quiet), Php5!Quit(o, a.quiet))
  BY NoConnection DEF KeysOf, Php5!KeysOf, Version, Php5!Version, Quit, Php5!Quit
<1> QED BY <1>2, <1>3, <1>4, <1>5

(* So with every entry of the function tables.                              *)
LEMMA RefusedMethod ==
  ASSUME NEW o, o.conn = FALSE, NEW a, a.m \in MethodNames
  PROVE  Refuse(Method(o, a), Php5!Method(o, a))
<1> USE DEF Method, Php5!Method
<1>1. CASE a.m \in {"get", "getk", "getTouch", "getkTouch", "lockGet", "lockGetk", "touch"}
  BY <1>1, RefusedReads
<1>2. CASE a.m \in {"set", "replace", "add", "replaceUnlock", "append", "prepend"}
  BY <1>2, RefusedStores
<1>3. CASE a.m \in {"incr", "decr", "incr2", "decr2"}
  BY <1>3, RefusedCounters
<1>4. CASE a.m \in {"delete", "lock", "unlock", "unlockAll", "flush", "noop"}
  BY <1>4, RefusedRest
<1>5. CASE a.m \in {"statGeneral", "statSettings", "statItems", "statSizes"}
  BY <1>5, RefusedRest
<1>6. CASE a.m \in {"keys", "version", "quit"}
  BY <1>6, RefusedRest
<1> QED BY <1>1, <1>2, <1>3, <1>4, <1>5, <1>6 DEF MethodNames

-----------------------------------------------------------------------------
(* Serials wrap.                                                           *)

(* Quotient and remainder.                                                  *)
LEMMA DivMod ==
  ASSUME NEW M \in Nat \ {0}, NEW x \in Nat
  PROVE  /\ x \div M \in Nat /\ x % M \in 0..(M - 1)
         /\ x = M * (x \div M) + (x % M)
OBVIOUS

(* Every number is a multiple of M and a remainder below M.                 *)
LEMMA Quotient ==
  ASSUME NEW M \in Nat \ {0}, NEW x \in Nat
  PROVE  \E q \in Nat : x = M * q + (x % M) /\ x % M \in 0..(M - 1)
BY DivMod

(* The only multiple of M strictly between -M and M is 0.                   *)
LEMMA NoSmallMultiple ==
  ASSUME NEW M \in Nat \ {0}, NEW d \in Int, M * d < M, 0 - M < M * d
  PROVE  d = 0
OBVIOUS

(* A number has one remainder.                                              *)
LEMMA UniqueRemainder ==
  ASSUME NEW M \in Nat \ {0}, NEW q \in Nat, NEW r \in Nat, NEW p \in Nat,
         NEW s \in Nat, r < M, s < M, M * q + r = M * p + s
  PROVE  r = s
<1>1. M * (q - p) = s - r
  OBVIOUS
<1>2. q - p = 0
  BY <1>1, NoSmallMultiple
<1>3. QED BY <1>1, <1>2

(* Two numbers less than M apart with the same remainder are the same.       *)
LEMMA SameSerial ==
  ASSUME NEW M \in Nat \ {0}, NEW m \in Nat, NEW n \in Nat,
         m % M = n % M, n <= m, m - n < M
  PROVE  m = n
<1>1. PICK q \in Nat : m = M * q + (m % M) /\ m % M \in 0..(M - 1)
  BY Quotient
<1>2. PICK p \in Nat : n = M * p + (n % M) /\ n % M \in 0..(M - 1)
  BY Quotient
<1>3. M * (q - p) = m - n
  BY <1>1, <1>2
<1>4. q - p = 0
  BY <1>3, NoSmallMultiple
<1>5. QED BY <1>1, <1>2, <1>4

(* Counting on from the remainder is counting on from the number: the       *)
(* serial of send_command, which is stored reduced, stays the number        *)
(* reduced.                                                                 *)
LEMMA NextRemainder ==
  ASSUME NEW M \in Nat \ {0}, NEW x \in Nat
  PROVE  ((x % M) + 1) % M = (x + 1) % M
<1>1. PICK r \in Nat : r = x % M /\ r < M
  BY DivMod
<1>2. PICK q \in Nat : x = M * q + r
  BY Quotient, <1>1
<1>3. PICK y \in Nat : y = x + 1
  OBVIOUS
<1>4. PICK z \in Nat : z = r + 1
  OBVIOUS
<1>5. PICK s \in Nat : s = y % M /\ s < M
  BY DivMod
<1>6. PICK t \in Nat : t = z % M /\ t < M
  BY DivMod
<1>7. PICK p \in Nat : y = M * p + s
  BY Quotient, <1>5
<1>8. PICK k \in Nat : z = M * k + t
  BY Quotient, <1>6
<1>9. PICK n \in Nat : n = q + k
  OBVIOUS
<1>10. M * n + t = M * p + s
  <2>1. M * n = M * q + M * k
    BY <1>9
  <2>2. M * q + z = y
    BY <1>2, <1>3, <1>4
  <2>3. M * q \in Nat /\ M * k \in Nat
    OBVIOUS
  <2>4. M * q + (M * k + t) = M * p + s
    BY <2>2, <1>7, <1>8
  <2>5. (M * q + M * k) + t = M * q + (M * k + t)
    BY <2>3
  <2>6. QED BY <2>1, <2>4, <2>5
<1>11. t = s
  BY <1>10, UniqueRemainder, <1>5, <1>6
<1>12. z % M = y % M
  BY <1>5, <1>6, <1>11
<1>13. QED BY <1>1, <1>3, <1>4, <1>12

-----------------------------------------------------------------------------
(* Sequences of whatever elements: queues of requests and responses.        *)

IsSeq(s) == \E S : s \in Seq(S)

(* A sequence over S is one over any larger set.                            *)
LEMMA Widened ==
  ASSUME NEW S, NEW T, NEW s \in Seq(S)
  PROVE  s \in Seq(S \cup T)
BY SeqDef

(* What Tail does to a sequence of any kind.                                *)
LEMMA TailOf ==
  ASSUME NEW s, IsSeq(s), s # <<>>
  PROVE  /\ IsSeq(Tail(s)) /\ Len(s) \in Nat /\ Len(s) >= 1
         /\ Head(s) = s[1] /\ Len(Tail(s)) = Len(s) - 1
         /\ \A i \in 1..Len(Tail(s)) : Tail(s)[i] = s[i + 1]
<1>1. PICK S : s \in Seq(S)
  BY DEF IsSeq
<1>2. Tail(s) \in Seq(S) /\ Len(s) \in Nat /\ Len(s) >= 1
  BY <1>1
<1>3. QED BY <1>1, <1>2 DEF IsSeq

(* What Append does to a sequence of any kind.                              *)
LEMMA AppendOf ==
  ASSUME NEW s, IsSeq(s), NEW e
  PROVE  /\ IsSeq(Append(s, e)) /\ Len(s) \in Nat /\ Len(Append(s, e)) = Len(s) + 1
         /\ \A i \in 1..Len(s) : Append(s, e)[i] = s[i]
         /\ Append(s, e)[Len(s) + 1] = e
<1>1. PICK S : s \in Seq(S)
  BY DEF IsSeq
<1>2. s \in Seq(S \cup {e})
  BY <1>1, Widened
<1>3. Append(s, e) \in Seq(S \cup {e})
  BY <1>2
<1>4. QED BY <1>2, <1>3 DEF IsSeq

(* What joining does to sequences of any kind.                              *)
LEMMA ConcatOf ==
  ASSUME NEW s, NEW t, IsSeq(s), IsSeq(t)
  PROVE  /\ IsSeq(s \o t) /\ Len(s) \in Nat /\ Len(t) \in Nat
         /\ Len(s \o t) = Len(s) + Len(t)
         /\ \A i \in 1..Len(s) : (s \o t)[i] = s[i]
         /\ \A i \in (Len(s) + 1)..(Len(s) + Len(t)) : (s \o t)[i] = t[i - Len(s)]
<1>1. PICK S : s \in Seq(S)
  BY DEF IsSeq
<1>2. PICK T : t \in Seq(T)
  BY DEF IsSeq
<1>3. s \in Seq(S \cup T) /\ t \in Seq(S \cup T)
  BY <1>1, <1>2, Widened, S \cup T = T \cup S
<1>4. s \o t \in Seq(S \cup T)
  BY <1>3
<1>5. QED BY <1>3, <1>4 DEF IsSeq

-----------------------------------------------------------------------------
(* The shape of the states.                                                *)

(* What a program may call: a call of Calls, or one the multi-get makes.     *)
Called == (UNION {Calls[n] : n \in 1..Len(Calls)}) \cup {NoCall}
          \cup {[m |-> "getk", key |-> key, quiet |-> TRUE] : key \in Seq(STRING)}

Loops == {"waiting", "collecting", "listing"}

Shape ==
  /\ DOMAIN at = Clients /\ DOMAIN wire = Clients /\ DOMAIN back = Clients
  /\ sent \in [Clients -> Nat] /\ serial \in [Clients -> Nat]
  /\ last \in [Clients -> [a : Called, n : Nat, serial : Nat]]
  /\ DOMAIN answer = Clients
  /\ todo \in [Clients -> Seq(Seq(STRING))]
  /\ count \in Nat
  /\ \A c \in Clients : IsSeq(wire[c]) /\ IsSeq(back[c])

(* A request or a response numbered up to k, and recent.                    *)
Fits(e, k) ==
  /\ e.n \in Nat /\ e.n <= k /\ k - e.n < SerialMod
  /\ e.serial = e.n % SerialMod

Numbered(s, k) == \A i \in 1..Len(s) : Fits(s[i], k)

(* The serials of a connection are its numbers, wrapped; in a loop, the last *)
(* call is the last request.                                                *)
Numbers(c) ==
  /\ serial[c] = sent[c] % SerialMod
  /\ last[c].n <= sent[c] /\ last[c].serial = last[c].n % SerialMod
  /\ at[c] \in Loops => last[c].n = sent[c]
  /\ Numbered(wire[c], sent[c]) /\ Numbered(back[c], sent[c])
  /\ answer[c].n = answer[c].for

NumberInv == Shape /\ \A c \in Clients : Numbers(c)

(* A call names a method of the function table and has a key of bytes.      *)
LEMMA CalledSound ==
  ASSUME NEW a \in Called
  PROVE  a.m = "noop" \/ (a.m \in MethodNames /\ a.key \in Seq(STRING))
<1>1. CASE a \in UNION {Calls[n] : n \in 1..Len(Calls)}
  BY <1>1, CallsAssumption
<1>2. CASE a = NoCall
  BY <1>2 DEF NoCall
<1>3. CASE a \in {[m |-> "getk", key |-> key, quiet |-> TRUE] : key \in Seq(STRING)}
  BY <1>3 DEF MethodNames
<1>4. QED BY <1>1, <1>2, <1>3 DEF Called

(* The empty sequence.                                                      *)
LEMMA EmptyIsSeq == IsSeq(<<>>) /\ Len(<<>>) = 0
BY EmptySeq DEF IsSeq

(* Nothing is under way at first.                                           *)
LEMMA NumbersInit == ProgramInit => NumberInv
<1> SUFFICES ASSUME ProgramInit PROVE NumberInv
  OBVIOUS
<1> USE ProgramsAssumption DEF ProgramInit
<1>1. Shape
  BY EmptyIsSeq, EmptySeq DEF Shape, Called
<1>2. 0 % SerialMod = 0
  BY DivMod, SerialMod \in Nat \ {0}
<1>3. ASSUME NEW c \in Clients PROVE Numbers(c)
  BY <1>2, EmptyIsSeq DEF Numbers, Numbered, Loops
<1>4. QED BY <1>1, <1>3 DEF NumberInv

(* A connection nothing happens to.                                         *)
Untouched(d) ==
  /\ at'[d] = at[d] /\ sent'[d] = sent[d] /\ serial'[d] = serial[d]
  /\ last'[d] = last[d] /\ wire'[d] = wire[d] /\ back'[d] = back[d]
  /\ answer'[d] = answer[d]

(* The step of another program changes no number of this one.               *)
LEMMA UntouchedKeeps ==
  ASSUME NEW d \in Clients, Numbers(d), Untouched(d)
  PROVE  Numbers(d)'
BY DEF Numbers, Numbered, Fits, Untouched

(* Numbering goes on.                                                       *)
LEMMA NumberedTail ==
  ASSUME NEW s, NEW k, IsSeq(s), s # <<>>, Numbered(s, k)
  PROVE  Numbered(Tail(s), k)
<1>1. /\ Len(s) \in Nat /\ Len(Tail(s)) = Len(s) - 1
      /\ \A i \in 1..Len(Tail(s)) : Tail(s)[i] = s[i + 1]
  BY TailOf
<1>2. \A i \in 1..Len(Tail(s)) : i + 1 \in 1..Len(s)
  BY <1>1
<1>3. QED BY <1>1, <1>2 DEF Numbered

(* One more request leaves what is under way numbered, as long as none is   *)
(* SerialMod behind.                                                        *)
LEMMA NumberedLater ==
  ASSUME NEW s, NEW k \in Nat, Numbered(s, k),
         \A i \in 1..Len(s) : k + 1 - s[i].n < SerialMod
  PROVE  Numbered(s, k + 1)
BY DEF Numbered, Fits

(* Numbering is kept by what is put at the end,                             *)
LEMMA NumberedAppend ==
  ASSUME NEW s, NEW k \in Nat, NEW q, IsSeq(s), Numbered(s, k), Fits(q, k)
  PROVE  Numbered(Append(s, q), k)
<1>1. /\ Len(s) \in Nat /\ Len(Append(s, q)) = Len(s) + 1
      /\ \A i \in 1..Len(s) : Append(s, q)[i] = s[i]
      /\ Append(s, q)[Len(s) + 1] = q
  BY AppendOf
<1>2. \A i \in 1..Len(s) : Fits(Append(s, q)[i], k)
  BY <1>1 DEF Numbered
<1>3. Fits(Append(s, q)[Len(s) + 1], k)
  BY <1>1
<1>4. \A i \in 1..(Len(s) + 1) : i \in 1..Len(s) \/ i = Len(s) + 1
  BY <1>1
<1>5. QED BY <1>1, <1>2, <1>3, <1>4 DEF Numbered

(* and by joining.                                                          *)
LEMMA NumberedConcat ==
  ASSUME NEW s, NEW t, NEW k, IsSeq(s), IsSeq(t), Numbered(s, k), Numbered(t, k)
  PROVE  Numbered(s \o t, k)
<1>1. /\ Len(s) \in Nat /\ Len(t) \in Nat /\ Len(s \o t) = Len(s) + Len(t)
      /\ \A i \in 1..Len(s) : (s \o t)[i] = s[i]
      /\ \A i \in (Len(s) + 1)..(Len(s) + Len(t)) : (s \o t)[i] = t[i - Len(s)]
  BY ConcatOf
<1>2. \A i \in 1..Len(s) : Fits((s \o t)[i], k)
  BY <1>1 DEF Numbered
<1>3. \A i \in (Len(s) + 1)..(Len(s) + Len(t)) : i - Len(s) \in 1..Len(t)
  BY <1>1
<1>4. \A i \in (Len(s) + 1)..(Len(s) + Len(t)) : Fits((s \o t)[i], k)
  BY <1>1, <1>3 DEF Numbered
<1>5. \A i \in 1..(Len(s) + Len(t)) :
        i \in 1..Len(s) \/ i \in (Len(s) + 1)..(Len(s) + Len(t))
  BY <1>1
<1>6. QED BY <1>1, <1>2, <1>4, <1>5 DEF Numbered

-----------------------------------------------------------------------------
(* The steps keep the numbering.                                            *)

(* A call.  What the extension made of it plays no part.                     *)
LEMMA IssueKeeps ==
  ASSUME NumberInv, NEW c \in Clients, NEW a \in Called, NEW next, Recent(c),
         at[c] \notin Loops, Issue(c, a, next), UNCHANGED <<back, answer>>,
         todo' \in [Clients -> Seq(Seq(STRING))]
  PROVE  NumberInv'
<1> USE DEF NumberInv
<1>1. PICK n \in Nat : n = sent[c]
  BY DEF Shape
<1>2. /\ \A i \in 1..Len(wire[c]) : n + 1 - wire[c][i].n < SerialMod
      /\ \A i \in 1..Len(back[c]) : n + 1 - back[c][i].n < SerialMod
  BY <1>1 DEF Recent, Unread
<1>3. Numbered(wire[c], n + 1) /\ Numbered(back[c], n + 1)
  BY <1>1, <1>2, NumberedLater DEF Numbers
<1>4. NextSerial(c) = (n + 1) % SerialMod /\ NextSerial(c) \in Nat
  <2>1. serial[c] = n % SerialMod
    BY <1>1 DEF Numbers
  <2>2. ((n % SerialMod) + 1) % SerialMod = (n + 1) % SerialMod
    BY ProgramsAssumption, NextRemainder
  <2>3. (n + 1) % SerialMod \in Nat
    BY ProgramsAssumption, DivMod, n + 1 \in Nat
  <2>4. QED BY <2>1, <2>2, <2>3 DEF NextSerial
<1>5. ASSUME NEW d \in Clients, d # c PROVE Untouched(d)
  BY <1>5, SMTT(30) DEF Issue, Send, Shape, Untouched
<1>6. CASE Made(c, a).out = "send"
  <2>1. /\ at' = [at EXCEPT ![c] = next]
        /\ serial' = [serial EXCEPT ![c] = (n + 1) % SerialMod]
        /\ sent' = [sent EXCEPT ![c] = n + 1]
        /\ last' = [last EXCEPT ![c] = [a |-> a, n |-> n + 1,
                                        serial |-> (n + 1) % SerialMod]]
    BY <1>1, <1>4, <1>6 DEF Issue, Send, Shape
  <2>2. PICK q : /\ q.n = n + 1 /\ q.serial = (n + 1) % SerialMod
                 /\ wire' = [wire EXCEPT ![c] = Append(wire[c], q)]
    BY <1>1, <1>4, <1>6 DEF Issue, Send, Shape
  <2>3. Fits(q, n + 1)
    BY <2>2, ProgramsAssumption, <1>1 DEF Fits
  <2>4. IsSeq(wire'[c]) /\ Numbered(wire'[c], n + 1)
    BY <2>2, <2>3, <1>3, NumberedAppend, AppendOf, n + 1 \in Nat DEF Shape
  <2>5. Shape'
    <3>1. \A d \in Clients : IsSeq(wire'[d]) /\ IsSeq(back'[d])
      BY <2>4, <1>5 DEF Shape, Untouched
    <3>2. last' \in [Clients -> [a : Called, n : Nat, serial : Nat]]
      BY <2>1, <1>4 DEF Shape
    <3>3. sent' \in [Clients -> Nat] /\ serial' \in [Clients -> Nat]
      BY <2>1, <1>4 DEF Shape
    <3>4. /\ DOMAIN at' = Clients /\ DOMAIN wire' = Clients
          /\ DOMAIN back' = Clients /\ DOMAIN answer' = Clients /\ count' \in Nat
      BY <2>1, <2>2 DEF Shape, Issue
    <3>5. QED BY <3>1, <3>2, <3>3, <3>4 DEF Shape
  <2>6. Numbers(c)'
    BY <2>1, <2>4, <1>3 DEF Numbers, Shape
  <2>7. QED BY <2>5, <2>6, <1>5, UntouchedKeeps
<1>7. CASE Made(c, a).out # "send"
  <2>1. /\ at' = [at EXCEPT ![c] = at'[c]] /\ at'[c] \notin Loops
        /\ last' = [last EXCEPT ![c].a = a] /\ count' \in Nat
        /\ UNCHANGED <<serial, sent, wire>>
    BY <1>7 DEF Issue, Shape, Loops
  <2>2. Shape'
    <3>1. /\ DOMAIN at' = Clients /\ DOMAIN wire' = Clients
          /\ DOMAIN back' = Clients /\ DOMAIN answer' = Clients
      BY <2>1 DEF Shape
    <3>2. last' \in [Clients -> [a : Called, n : Nat, serial : Nat]]
      <4>1. last[c] \in [a : Called, n : Nat, serial : Nat]
        BY DEF Shape
      <4>2. [last[c] EXCEPT !.a = a] \in [a : Called, n : Nat, serial : Nat]
        BY <4>1
      <4>3. QED BY <2>1, <4>2 DEF Shape
    <3>3. \A d \in Clients : IsSeq(wire'[d]) /\ IsSeq(back'[d])
      BY <2>1 DEF Shape
    <3>4. sent' \in [Clients -> Nat] /\ serial' \in [Clients -> Nat]
      BY <2>1 DEF Shape
    <3>5. QED BY <2>1, <3>1, <3>2, <3>3, <3>4 DEF Shape
  <2>3. Numbers(c)'
    BY <2>1 DEF Numbers, Shape
  <2>4. QED BY <2>2, <2>3, <1>5, UntouchedKeeps
<1>8. QED BY <1>6, <1>7

(* A call takes the next number and puts it at the end of the wire.         *)
LEMMA CallKeeps ==
  ASSUME NumberInv, NEW c \in Clients, NEW a \in Called, Call(c, a) \/ CallAndWait(c, a)
  PROVE  NumberInv'
<1>1. at[c] \notin Loops /\ todo' \in [Clients -> Seq(Seq(STRING))]
  BY DEF Call, CallAndWait, Loops, NumberInv, Shape
<1>2. QED BY <1>1, IssueKeeps DEF Call, CallAndWait

(* A round of the multi-get is a call like any other: a quiet get, or the   *)
(* noop behind the last.                                                    *)
LEMMA AskCalls ==
  ASSUME NumberInv, NEW c \in Clients, Ask(c)
  PROVE  /\ \E a \in Called : \E next : Issue(c, a, next)
         /\ todo' \in [Clients -> Seq(Seq(STRING))]
<1>1. todo[c] \in Seq(Seq(STRING))
  BY DEF NumberInv, Shape
<1>2. CASE todo[c] # <<>>
  <2>1. Head(todo[c]) \in Seq(STRING) /\ Tail(todo[c]) \in Seq(Seq(STRING))
    BY <1>1, <1>2, HeadTailProperties, Zenon
  <2>2. [m |-> "getk", key |-> Head(todo[c]), quiet |-> TRUE] \in Called
    BY <2>1 DEF Called
  <2>3. todo' \in [Clients -> Seq(Seq(STRING))]
    BY <2>1, <1>2 DEF Ask, NumberInv, Shape
  <2>4. QED BY <1>2, <2>2, <2>3 DEF Ask
<1>3. CASE todo[c] = <<>>
  BY <1>3 DEF Called, Ask, NumberInv, Shape
<1>4. QED BY <1>2, <1>3

(* So it keeps the numbers too.                                             *)
LEMMA AskKeeps ==
  ASSUME NumberInv, NEW c \in Clients, Ask(c)
  PROVE  NumberInv'
<1>1. at[c] \notin Loops
  BY DEF Ask, Loops
<1>2. PICK a \in Called : \E next : Issue(c, a, next)
  BY AskCalls
<1>3. QED BY <1>1, <1>2, AskCalls, IssueKeeps DEF Ask

(* A program that has a loop begin or end, or gets nothing.                  *)
LEMMA QuietKeeps ==
  ASSUME NumberInv, NEW c \in Clients,
         UNCHANGED <<serial, sent, last, wire, back, answer, count>>,
         DOMAIN at' = Clients, \A d \in Clients : at'[d] = at[d] \/ at'[d] \notin Loops,
         todo' \in [Clients -> Seq(Seq(STRING))]
  PROVE  NumberInv'
<1>1. Shape'
  BY DEF NumberInv, Shape
<1>2. ASSUME NEW d \in Clients PROVE Numbers(d)'
  BY DEF NumberInv, Numbers, Numbered, Fits
<1>3. QED BY <1>1, <1>2 DEF NumberInv

(* Constructors, the start of a multi-get and a failed recv send and        *)
(* receive nothing.                                                         *)
LEMMA RestKeeps ==
  ASSUME NumberInv, NEW c \in Clients,
         Construct(c) \/ MultiGet(c, Keys) \/ RecvFails(c)
  PROVE  NumberInv'
<1>1. PICK S : S = Seq(Seq(STRING))
  OBVIOUS
<1>2. todo' \in [Clients -> S]
  BY <1>1, CallsAssumption DEF Construct, MultiGet, RecvFails, NumberInv, Shape
<1>3. DOMAIN at' = Clients /\ \A d \in Clients : at'[d] = at[d] \/ at'[d] \notin Loops
  BY DEF Construct, MultiGet, RecvFails, NumberInv, Shape, Loops
<1>4. UNCHANGED <<serial, sent, last, wire, back, answer, count>>
  BY DEF Construct, MultiGet, RecvFails
<1>5. QED BY <1>1, <1>2, <1>3, <1>4, QuietKeeps

(* Both extensions pass the serial of a response on.                         *)
LEMMA ReceivedSerial ==
  ASSUME NEW c \in Clients, NEW e
  PROVE  Received(c, e).serial = e.serial
BY DEF Received, Response, Php5!Response

(* A recv takes the first answer away and leaves the numbers of the others. *)
LEMMA RecvKeeps ==
  ASSUME NumberInv, NEW c \in Clients, Recv(c)
  PROVE  NumberInv'
<1> USE DEF NumberInv
<1>1. PICK e : e = Head(back[c])
  OBVIOUS
<1>2. IsSeq(back[c]) /\ back[c] # <<>> /\ at[c] \in Loops
  BY DEF Recv, Shape, Loops
<1>3. Fits(e, sent[c])
  BY <1>1, <1>2, TailOf DEF Numbers, Numbered
<1>4. PICK mine \in BOOLEAN : mine <=> e.serial = last[c].serial
  OBVIOUS
<1>5. mine => e.n = last[c].n
  <2>1. last[c].n = sent[c] /\ last[c].serial = sent[c] % SerialMod
    BY <1>2 DEF Numbers
  <2>2. sent[c] \in Nat /\ SerialMod \in Nat \ {0}
    BY ProgramsAssumption DEF Shape
  <2>3. e.n \in Nat /\ e.n <= sent[c] /\ sent[c] - e.n < SerialMod
        /\ e.serial = e.n % SerialMod
    BY <1>3 DEF Fits
  <2>4. QED BY <1>4, <2>1, <2>2, <2>3, SameSerial
<1>6. /\ answer' = [answer EXCEPT ![c] = IF mine THEN [n |-> e.n, for |-> last[c].n] ELSE @]
      /\ back' = [back EXCEPT ![c] = Tail(@)]
      /\ DOMAIN at' = Clients /\ at'[c] \in {at[c], "free"}
      /\ \A d \in Clients : d # c => at'[d] = at[d]
      /\ UNCHANGED <<serial, wire, count, sent, last, todo>>
  BY <1>1, <1>4, ReceivedSerial DEF Recv, Shape
<1>7. IsSeq(back'[c]) /\ Numbered(back'[c], sent[c])
  BY <1>2, <1>6, TailOf, NumberedTail DEF Shape, Numbers
<1>8. answer'[c].n = answer'[c].for
  BY <1>5, <1>6 DEF Shape, Numbers
<1>9. ASSUME NEW d \in Clients, d # c PROVE Untouched(d)
  BY <1>6, <1>9 DEF Untouched, Shape
<1>10. Shape'
  BY <1>6, <1>7, <1>9 DEF Shape, Untouched
<1>11. Numbers(c)'
  <2>1. at'[c] \in Loops => at'[c] = at[c]
    BY <1>6 DEF Loops
  <2>2. QED BY <1>6, <1>7, <1>8, <2>1 DEF Numbers, Shape
<1>12. QED BY <1>9, <1>10, <1>11, UntouchedKeeps

(* Every answer of the server carries the number and serial of its request. *)
LEMMA RepliesFit ==
  ASSUME NEW q, NEW status, NEW k, Fits(q, k)
  PROVE  IsSeq(Replies(q, status)) /\ Numbered(Replies(q, status), k)
<1>1. ASSUME NEW key, NEW by PROVE Fits(Reply(q, status, key, by), k)
  BY DEF Fits, Reply
<1>2. \A key, by : Fits(Reply(q, status, key, by), k)
  BY <1>1
<1>3. ASSUME NEW e, Fits(e, k) PROVE IsSeq(<<e>>) /\ Numbered(<<e>>, k)
  <2>1. <<e>> \in Seq({e}) /\ Len(<<e>>) = 1 /\ <<e>>[1] = e
    OBVIOUS
  <2>2. \A i \in 1..1 : Fits(<<e>>[i], k)
    BY <1>3, <2>1
  <2>3. QED BY <2>1, <2>2 DEF IsSeq, Numbered
<1>4. ASSUME NEW e, NEW f, Fits(e, k), Fits(f, k)
      PROVE  IsSeq(<<e, f>>) /\ Numbered(<<e, f>>, k)
  <2>1. <<e, f>> \in Seq({e, f}) /\ Len(<<e, f>>) = 2
    OBVIOUS
  <2>2. \A i \in 1..2 : Fits(<<e, f>>[i], k)
    BY <1>4
  <2>3. QED BY <2>1, <2>2 DEF IsSeq, Numbered
<1>5. IsSeq(<<>>) /\ Numbered(<<>>, k)
  BY EmptyIsSeq DEF Numbered
<1>6. QED BY <1>2, <1>3, <1>4, <1>5 DEF Replies

(* The server gives each answer the number and the serial of its request.   *)
LEMMA HandleKeeps ==
  ASSUME NumberInv, NEW c \in Clients, Handle(c)
  PROVE  NumberInv'
<1> USE DEF NumberInv
<1>1. PICK q, status : /\ q = Head(wire[c])
                       /\ wire' = [wire EXCEPT ![c] = Tail(@)]
                       /\ back' = [back EXCEPT ![c] = @ \o Replies(q, status)]
  BY DEF Handle
<1>2. wire[c] # <<>> /\ UNCHANGED <<at, serial, count, sent, last, answer, todo>>
  BY DEF Handle
<1>3. Fits(q, sent[c]) /\ IsSeq(wire'[c]) /\ Numbered(wire'[c], sent[c])
  BY <1>1, <1>2, TailOf, NumberedTail DEF Numbers, Numbered, Shape
<1>4. IsSeq(back'[c]) /\ Numbered(back'[c], sent[c])
  BY <1>1, <1>3, RepliesFit, ConcatOf, NumberedConcat, ZenonT(40) DEF Numbers, Shape
<1>5. ASSUME NEW d \in Clients, d # c PROVE Untouched(d)
  BY <1>1, <1>2, <1>5 DEF Untouched, Shape
<1>6. Shape'
  BY <1>1, <1>2, <1>3, <1>4, <1>5 DEF Shape, Untouched
<1>7. Numbers(c)'
  BY <1>2, <1>3, <1>4 DEF Numbers
<1>8. QED BY <1>5, <1>6, <1>7, UntouchedKeeps

(* Every step keeps the numbers.                                            *)
LEMMA NumbersNext == NumberInv /\ [ProgramNext]_programVars => NumberInv'
<1> SUFFICES ASSUME NumberInv, [ProgramNext]_programVars PROVE NumberInv'
  OBVIOUS
<1>1. CASE UNCHANGED programVars
  BY <1>1, SMTT(30) DEF programVars, NumberInv, Shape, Numbers, Numbered, Fits
<1>2. ASSUME NEW c \in Clients, NEW a \in Calls[count + 1], count < MaxCalls,
             Call(c, a) \/ CallAndWait(c, a)
      PROVE  NumberInv'
  <2>1. count + 1 \in 1..Len(Calls)
    BY <1>2, CallsAssumption DEF NumberInv, Shape, MaxCalls
  <2>2. a \in Called
    BY <2>1 DEF Called
  <2>3. QED BY <1>2, <2>2, CallKeeps
<1>3. ASSUME NEW c \in Clients, Construct(c) \/ MultiGet(c, Keys) \/ RecvFails(c)
      PROVE  NumberInv'
  BY <1>3, RestKeeps
<1>4. ASSUME NEW c \in Clients, Ask(c) PROVE NumberInv'
  BY <1>4, AskKeeps
<1>5. ASSUME NEW c \in Clients, Recv(c) PROVE NumberInv'
  BY <1>5, RecvKeeps
<1>6. ASSUME NEW c \in Clients, Handle(c) PROVE NumberInv'
  BY <1>6, HandleKeeps
<1>7. QED BY <1>1, <1>2, <1>3, <1>4, <1>5, <1>6 DEF ProgramNext, Looping

(* The numbers hold in every state.                                         *)
LEMMA NumbersAlways == ProgramSpec => []NumberInv
BY NumbersInit, NumbersNext, PTL DEF ProgramSpec

-----------------------------------------------------------------------------
(* The response a wait takes for its own by the serial, which comes round    *)
(* again every 2^32 requests, is the answer to its request.                  *)
THEOREM ProgramAnswers == ProgramSpec => []AnswerMatches
<1>1. NumberInv => AnswerMatches
  BY DEF NumberInv, Numbers, AnswerMatches
<1>2. QED BY <1>1, NumbersAlways, PTL

(* yrmcds.c and yrmcds_php5.c ask the library for the same request, and      *)
(* refuse for the same reason, on every call a program makes; on an object  *)
(* that was never constructed nothing is sent, and where the arguments pass, *)
(* one uses the null connection or has the library refuse, the other says    *)
(* that the connection is lost.                                             *)
THEOREM ProgramRequests == ProgramSpec => []SameRequest
<1>1. ASSUME NumberInv PROVE SameRequest
  <2>1. SUFFICES ASSUME NEW c \in Clients, NEW constructed \in BOOLEAN,
                        NEW o, o = ObjectOf(c, constructed)
                 PROVE  \/ Method(o, last[c].a) = Php5!Method(o, last[c].a)
                        \/ /\ ~constructed /\ Method(o, last[c].a) \in {Crash, BadArgument}
                           /\ Php5!Method(o, last[c].a) = Php5!Lost
    BY DEF SameRequest
  <2>2. last[c].a \in Called
    BY <1>1 DEF NumberInv, Shape
  <2>3. last[c].a.m \in MethodNames
    BY <2>2, CalledSound DEF MethodNames
  <2>4. CASE constructed = FALSE
    <3>1. o.conn = FALSE
      BY <2>1, <2>4 DEF ObjectOf
    <3>2. Refuse(Method(o, last[c].a), Php5!Method(o, last[c].a))
      BY <2>3, <3>1, RefusedMethod
    <3> QED BY <2>4, <3>2 DEF Refuse
  <2>5. CASE constructed = TRUE
    <3>1. o.conn = TRUE /\ o.prefix = Prefix[c] /\ Prefix[c] \in Seq(STRING)
      BY <2>1, <2>5, CallsAssumption DEF ObjectOf
    <3>2. CASE last[c].a.m = "noop"
      BY <3>1, <3>2, SameNoop
    <3>3. CASE last[c].a.m \in MethodNames /\ last[c].a.key \in Seq(STRING)
      <4>1. FullKey(o, last[c].a.key) = Php5!FullKey(o, last[c].a.key)
        <5>1. <<>> \o last[c].a.key = last[c].a.key
          BY <3>3, ConcatEmptySeq, Zenon
        <5> QED BY <3>1, <5>1 DEF FullKey, Php5!FullKey
      <4> QED BY <3>1, <3>3, <4>1, SameMethod
    <3> QED BY <2>2, <3>2, <3>3, CalledSound
  <2> QED BY <2>4, <2>5
<1>2. QED BY <1>1, NumbersAlways, PTL

-----------------------------------------------------------------------------
(* Keys and prefixes.                                                       *)

Keyed == Gets \cup Writes

(* What a request that reads or writes one object says of its key.           *)
Prefixed(o, a, made) ==
  made.out = "send" /\ made.cmd \in Keyed => made.key = o.prefix \o a.key

(* Every method that reads puts the prefix of its client before the key,    *)
LEMMA PrefixedReads ==
  ASSUME NEW o, NEW a
  PROVE  /\ Prefixed(o, a, Get(o, a.key, a.quiet))
         /\ Prefixed(o, a, Getk(o, a.key, a.quiet))
         /\ Prefixed(o, a, GetTouch(o, a.key, a.expire, a.quiet))
         /\ Prefixed(o, a, GetkTouch(o, a.key, a.expire, a.quiet))
         /\ Prefixed(o, a, LockGet(o, a.key, a.quiet))
         /\ Prefixed(o, a, LockGetk(o, a.key, a.quiet))
         /\ Prefixed(o, a, Touch(o, a.key, a.expire, a.quiet))
<1> USE DEF Fatal, Crash, OnConn, Request, BadArgument, OnKey, FullKey, Prefixed
<1>1. Prefixed(o, a, Get(o, a.key, a.quiet))
  BY DEF Get, yrmcds_get
<1>2. Prefixed(o, a, Getk(o, a.key, a.quiet))
  BY DEF Getk, yrmcds_getk
<1>3. Prefixed(o, a, GetTouch(o, a.key, a.expire, a.quiet))
  BY DEF GetTouch, yrmcds_get_touch
<1>4. Prefixed(o, a, GetkTouch(o, a.key, a.expire, a.quiet))
  BY DEF GetkTouch, yrmcds_getk_touch
<1>5. Prefixed(o, a, LockGet(o, a.key, a.quiet))
  BY DEF LockGet, yrmcds_lock_get
<1>6. Prefixed(o, a, LockGetk(o, a.key, a.quiet))
  BY DEF LockGetk, yrmcds_lock_getk
<1>7. Prefixed(o, a, Touch(o, a.key, a.expire, a.quiet))
  BY DEF Touch, yrmcds_touch
<1>8. QED BY <1>1, <1>2, <1>3, <1>4, <1>5, <1>6, <1>7

(* and so does every method that stores,                                    *)
LEMMA PrefixedStores ==
  ASSUME NEW o, NEW a
  PROVE  /\ Prefixed(o, a, Set(o, a.key, a.data, a.flags, a.expire, a.cas, a.quiet))
         /\ Prefixed(o, a, Replace(o, a.key, a.data, a.flags, a.expire, a.cas, a.quiet))
         /\ Prefixed(o, a, Add(o, a.key, a.data, a.flags, a.expire, a.cas, a.quiet))
         /\ Prefixed(o, a, ReplaceUnlock(o, a.key, a.data, a.flags, a.expire, a.quiet))
         /\ Prefixed(o, a, AppendTo(o, a.key, a.data, a.quiet))
         /\ Prefixed(o, a, PrependTo(o, a.key, a.data, a.quiet))
<1> USE DEF Fatal, Crash, OnConn, OnThreshold, Request, BadArgument, CompressFailed, FullKey,
            Prefixed
<1>0. ASSUME NEW cmd, NEW flags, NEW expire, NEW cas
      PROVE  Prefixed(o, a, SendData(o, cmd, FullKey(o, a.key), a.data, flags, expire, cas))
  BY DEF SendData
<1>1. Prefixed(o, a, Set(o, a.key, a.data, a.flags, a.expire, a.cas, a.quiet))
  BY <1>0 DEF Set, yrmcds_set
<1>2. Prefixed(o, a, Replace(o, a.key, a.data, a.flags, a.expire, a.cas, a.quiet))
  BY <1>0 DEF Replace, yrmcds_replace
<1>3. Prefixed(o, a, Add(o, a.key, a.data, a.flags, a.expire, a.cas, a.quiet))
  BY <1>0 DEF Add, yrmcds_add
<1>4. Prefixed(o, a, ReplaceUnlock(o, a.key, a.data, a.flags, a.expire, a.quiet))
  BY <1>0 DEF ReplaceUnlock, yrmcds_replace_unlock
<1>5. Prefixed(o, a, AppendTo(o, a.key, a.data, a.quiet))
  BY DEF AppendTo, yrmcds_append
<1>6. Prefixed(o, a, PrependTo(o, a.key, a.data, a.quiet))
  BY DEF PrependTo, yrmcds_prepend
<1>7. QED BY <1>1, <1>2, <1>3, <1>4, <1>5, <1>6

(* every method that counts,                                                *)
LEMMA PrefixedCounters ==
  ASSUME NEW o, NEW a
  PROVE  /\ Prefixed(o, a, Incr(o, a.key, a.value, a.quiet))
         /\ Prefixed(o, a, Decr(o, a.key, a.value, a.quiet))
         /\ Prefixed(o, a, Incr2(o, a.key, a.value, a.initial, a.expire, a.quiet))
         /\ Prefixed(o, a, Decr2(o, a.key, a.value, a.initial, a.expire, a.quiet))
<1> USE DEF Fatal, Crash, OnConn, Request, BadArgument, OnKey, FullKey, Prefixed
<1>1. Prefixed(o, a, Incr(o, a.key, a.value, a.quiet))
  BY DEF Incr, yrmcds_incr
<1>2. Prefixed(o, a, Decr(o, a.key, a.value, a.quiet))
  BY DEF Decr, yrmcds_decr
<1>3. Prefixed(o, a, Incr2(o, a.key, a.value, a.initial, a.expire, a.quiet))
  BY DEF Incr2, yrmcds_incr2
<1>4. Prefixed(o, a, Decr2(o, a.key, a.value, a.initial, a.expire, a.quiet))
  BY DEF Decr2, yrmcds_decr2
<1>5. QED BY <1>1, <1>2, <1>3, <1>4

(* and every method that deletes, locks or unlocks.                         *)
LEMMA PrefixedLocks ==
  ASSUME NEW o, NEW a
  PROVE  /\ Prefixed(o, a, Delete(o, a.key, a.quiet))
         /\ Prefixed(o, a, LockKey(o, a.key, a.quiet))
         /\ Prefixed(o, a, UnlockKey(o, a.key, a.quiet))
<1> USE DEF Fatal, Crash, OnConn, Request, BadArgument, OnKey, FullKey, Prefixed
<1>1. Prefixed(o, a, Delete(o, a.key, a.quiet))
  BY DEF Delete, yrmcds_remove
<1>2. Prefixed(o, a, LockKey(o, a.key, a.quiet))
  BY DEF LockKey, yrmcds_lock
<1>3. Prefixed(o, a, UnlockKey(o, a.key, a.quiet))
  BY DEF UnlockKey, yrmcds_unlock
<1>4. QED BY <1>1, <1>2, <1>3

(* The commands without the prefix neither read nor write one object.        *)
LEMMA PrefixedRest ==
  ASSUME NEW o, NEW a
  PROVE  /\ Prefixed(o, a, Noop(o)) /\ Prefixed(o, a, UnlockAll(o, a.quiet))
         /\ Prefixed(o, a, Flush(o, a.expire, a.quiet))
         /\ Prefixed(o, a, StatGeneral(o)) /\ Prefixed(o, a, StatSettings(o))
         /\ Prefixed(o, a, StatItems(o)) /\ Prefixed(o, a, StatSizes(o))
         /\ Prefixed(o, a, KeysOf(o, a.key)) /\ Prefixed(o, a, Version(o))
         /\ Prefixed(o, a, Quit(o, a.quiet))
<1> USE DEF Crash, OnConn, Request, BadArgument, Either, Prefixed, Keyed, Gets, Writes
<1>1. Prefixed(o, a, Noop(o)) /\ Prefixed(o, a, Version(o))
  BY DEF Noop, yrmcds_noop, Version, yrmcds_version
<1>2. Prefixed(o, a, UnlockAll(o, a.quiet)) /\ Prefixed(o, a, Quit(o, a.quiet))
  BY DEF UnlockAll, yrmcds_unlockall, Quit, yrmcds_quit
<1>3. Prefixed(o, a, Flush(o, a.expire, a.quiet))
  BY DEF Flush, yrmcds_flush
<1>4. Prefixed(o, a, StatGeneral(o)) /\ Prefixed(o, a, StatSettings(o))
  BY DEF StatGeneral, yrmcds_stat_general, StatSettings, yrmcds_stat_settings
<1>5. Prefixed(o, a, StatItems(o)) /\ Prefixed(o, a, StatSizes(o))
  BY DEF StatItems, yrmcds_stat_items, StatSizes, yrmcds_stat_sizes
<1>6. Prefixed(o, a, KeysOf(o, a.key))
  BY DEF KeysOf, yrmcds_keys
<1>7. QED BY <1>1, <1>2, <1>3, <1>4, <1>5, <1>6

(* So the function table has no entry that forgets the prefix, in either    *)
(* source.                                                                  *)
LEMMA PrefixedMethod ==
  ASSUME NEW o, NEW a, a.m \in MethodNames
  PROVE  Prefixed(o, a, Method(o, a))
<1> USE DEF Method
<1>1. CASE a.m \in {"get", "getk", "getTouch", "getkTouch", "lockGet",
                  "lockGetk", "touch"}
  BY <1>1, PrefixedReads
<1>2. CASE a.m \in {"set", "replace", "add", "replaceUnlock", "append",
                  "prepend"}
  BY <1>2, PrefixedStores
<1>3. CASE a.m \in {"incr", "decr", "incr2", "decr2"}
  BY <1>3, PrefixedCounters
<1>4. CASE a.m \in {"delete", "lock", "unlock"}
  BY <1>4, PrefixedLocks
<1>5. CASE a.m \in {"unlockAll", "flush", "noop"}
  BY <1>5, PrefixedRest
<1>6. CASE a.m \in {"statGeneral", "statSettings", "statItems", "statSizes"}
  BY <1>6, PrefixedRest
<1>7. CASE a.m \in {"keys", "version", "quit"}
  BY <1>7, PrefixedRest
<1>8. QED BY <1>1, <1>2, <1>3, <1>4, <1>5, <1>6, <1>7 DEF MethodNames

(* A key made with a prefix begins with it.                                 *)
LEMMA BeginsWith ==
  ASSUME NEW p \in Seq(STRING), NEW k \in Seq(STRING)
  PROVE  p \o k \in Seq(STRING) /\ Begins(p, p \o k)
<1>1. p \o k \in Seq(STRING) /\ Len(p \o k) = Len(p) + Len(k)
  OBVIOUS
<1>2. Len(p) <= Len(p \o k) /\ Len(p) \in Nat
  BY <1>1
<1>3. SubSeq(p \o k, 1, Len(p)) = p
  BY <1>1, <1>2
<1>4. QED BY <1>1, <1>2, <1>3 DEF Begins

(* Of two prefixes of a key one begins the other.                            *)
LEMMA BothBegin ==
  ASSUME NEW p \in Seq(STRING), NEW q \in Seq(STRING), NEW k \in Seq(STRING),
         Begins(p, k), Begins(q, k)
  PROVE  Begins(p, q) \/ Begins(q, p)
<1>1. ASSUME NEW r \in Seq(STRING), NEW s \in Seq(STRING), Begins(r, k),
             Begins(s, k), Len(r) <= Len(s)
      PROVE  Begins(r, s)
  <2>1. Len(r) \in Nat /\ Len(s) \in Nat /\ Len(k) \in Nat /\ Len(s) <= Len(k)
    BY <1>1 DEF Begins
  <2>2. \A i \in 1..Len(r) : r[i] = k[i]
    BY <1>1, <2>1 DEF Begins
  <2>3. \A i \in 1..Len(s) : s[i] = k[i]
    BY <1>1, <2>1 DEF Begins
  <2>4. SubSeq(s, 1, Len(r)) \in Seq(STRING) /\ Len(SubSeq(s, 1, Len(r))) = Len(r)
    BY <1>1, <2>1
  <2>5. \A i \in 1..Len(r) : SubSeq(s, 1, Len(r))[i] = r[i]
    BY <1>1, <2>1, <2>2, <2>3
  <2>6. SubSeq(s, 1, Len(r)) = r
    BY <2>4, <2>5, SeqEqual, Zenon
  <2>7. QED BY <1>1, <2>6 DEF Begins
<1>2. Len(p) \in Nat /\ Len(q) \in Nat
  OBVIOUS
<1>3. Len(p) <= Len(q) \/ Len(q) <= Len(p)
  BY <1>2, SMTT(30)
<1>4. QED BY <1>1, <1>3

-----------------------------------------------------------------------------
(* Every key that is asked for, written or stored begins with the prefix of *)
(* the client it is of.                                                     *)

OwnKey(c, k) == k \in Seq(STRING) /\ Begins(Prefix[c], k)

Owned(c, q) == q.cmd \in Keyed => OwnKey(c, q.key)

Apart(c, by) ==
  by \in {NULL, c} \/ Begins(Prefix[c], Prefix[by]) \/ Begins(Prefix[by], Prefix[c])

AllOwned(c, s) == \A i \in 1..Len(s) : Owned(c, s[i])
AllApart(c, s) == \A i \in 1..Len(s) : Apart(c, s[i].by)

Stored(f) == \A k \in DOMAIN f : f[k] \in Clients /\ OwnKey(f[k], k)

TenantInv ==
  /\ NumberInv
  /\ \A c \in Clients : AllOwned(c, wire[c]) /\ AllApart(c, back[c])
  /\ Stored(store)

(* What goes out, from either extension, is on a key of the client.         *)
LEMMA MadeOwned ==
  ASSUME NEW c \in Clients, NEW a \in Called, Made(c, a).out = "send"
  PROVE  Owned(c, Made(c, a))
<1>0. PICK o : o = Object(c)
  OBVIOUS
<1>2. Made(c, a) = Method(o, a) \/ Made(c, a) = Php5!Method(o, a)
  BY <1>0 DEF Made
<1>1. o.conn = TRUE /\ o.prefix = Prefix[c]
  <2>1. o.conn = TRUE \/ o.conn = FALSE
    BY <1>0 DEF Object, ObjectOf
  <2>2. CASE o.conn = FALSE
    <3>1. CASE a.m = "noop"
      <4>1. Method(o, a) = Noop(o) /\ Php5!Method(o, a) = Php5!Noop(o)
        BY <3>1 DEF Method, Php5!Method
      <4>2. Refuse(Noop(o), Php5!Noop(o))
        BY <2>2, RefusedRest
      <4> QED BY <1>2, <4>1, <4>2 DEF Refuse
    <3>2. CASE a.m \in MethodNames
      <4>1. Refuse(Method(o, a), Php5!Method(o, a))
        BY <2>2, <3>2, RefusedMethod
      <4> QED BY <1>2, <4>1 DEF Refuse
    <3> QED BY <3>1, <3>2, CalledSound
  <2>3. o.conn = TRUE => o.prefix = Prefix[c]
    BY <1>0 DEF Object, ObjectOf
  <2> QED BY <2>1, <2>2, <2>3
<1>3. Prefix[c] \in Seq(STRING)
  BY CallsAssumption
<1>4. CASE a.m = "noop"
  <2>1. Method(o, a) = Noop(o) /\ Php5!Method(o, a) = Php5!Noop(o)
    BY <1>4 DEF Method, Php5!Method
  <2>2. Noop(o).out = "send" => Noop(o).cmd = "NOOP"
    BY DEF Noop, OnConn, Crash, yrmcds_noop, Request, BadArgument
  <2>3. Php5!Noop(o).out = "send" => Php5!Noop(o).cmd = "NOOP"
    <3>1. Php5!OnConn(o, Php5!yrmcds_noop) = Php5!yrmcds_noop
      BY <1>1 DEF Php5!OnConn
    <3> QED BY <3>1 DEF Php5!Noop, Php5!yrmcds_noop, Php5!Request, Php5!BadArgument
  <2>4. "NOOP" \notin Keyed
    BY DEF Keyed, Gets, Writes
  <2>5. QED BY <1>2, <2>1, <2>2, <2>3, <2>4 DEF Owned
<1>5. CASE a.m \in MethodNames /\ a.key \in Seq(STRING)
  <2>1. Made(c, a) = Method(o, a)
    <3>1. CASE Made(c, a) = Php5!Method(o, a)
      <4>2. <<>> \o a.key = a.key
        BY <1>5, ConcatEmptySeq, Zenon
      <4>3. FullKey(o, a.key) = Php5!FullKey(o, a.key)
        BY <4>2 DEF FullKey, Php5!FullKey
      <4>4. QED BY <1>1, <1>5, <3>1, <4>3, SameMethod
    <3>2. QED BY <1>2, <3>1
  <2>2. Made(c, a).cmd \in Keyed => Made(c, a).key = Prefix[c] \o a.key
    <3>1. Prefixed(o, a, Method(o, a))
      BY <1>5, PrefixedMethod
    <3>2. Prefixed(o, a, Made(c, a))
      BY <2>1, <3>1
    <3> QED BY <1>1, <3>2 DEF Prefixed
  <2>3. OwnKey(c, Prefix[c] \o a.key)
    BY <1>3, <1>5, BeginsWith DEF OwnKey
  <2>4. QED BY <2>2, <2>3 DEF Owned
<1>6. QED BY <1>4, <1>5, CalledSound

(* What a client sends is its own.                                          *)
LEMMA IssueOwned ==
  ASSUME TenantInv, NEW c \in Clients, NEW a \in Called, NEW next, Issue(c, a, next),
         NumberInv', UNCHANGED <<back, store>>
  PROVE  TenantInv'
<1> USE DEF TenantInv
<1>1. CASE Made(c, a).out = "send"
  <2>1. PICK q : /\ q.cmd = Made(c, a).cmd /\ q.key = Made(c, a).key
                 /\ wire' = [wire EXCEPT ![c] = Append(wire[c], q)]
    BY <1>1 DEF Issue, Send
  <2>2. Owned(c, q)
    BY <1>1, <2>1, MadeOwned DEF Owned
  <2>3. IsSeq(wire[c]) /\ DOMAIN wire = Clients
    BY DEF NumberInv, Shape
  <2>4. /\ Len(wire[c]) \in Nat /\ Len(Append(wire[c], q)) = Len(wire[c]) + 1
        /\ \A i \in 1..Len(wire[c]) : Append(wire[c], q)[i] = wire[c][i]
        /\ Append(wire[c], q)[Len(wire[c]) + 1] = q
    BY <2>3, AppendOf
  <2>5. \A i \in 1..(Len(wire[c]) + 1) : i \in 1..Len(wire[c]) \/ i = Len(wire[c]) + 1
    BY <2>4
  <2>6. AllOwned(c, Append(wire[c], q))
    BY <2>2, <2>4, <2>5 DEF AllOwned
  <2>7. QED BY <2>1, <2>3, <2>6
<1>2. CASE Made(c, a).out # "send"
  BY <1>2 DEF Issue
<1>3. QED BY <1>1, <1>2

(* An object is given to clients whose prefix and its writer's begin its key. *)
LEMMA FoundApart ==
  ASSUME Stored(store), NEW c \in Clients, NEW k \in DOMAIN store, OwnKey(c, k)
  PROVE  Apart(c, store[k])
<1>1. store[k] \in Clients /\ OwnKey(store[k], k)
  BY DEF Stored
<1>2. Prefix[c] \in Seq(STRING) /\ Prefix[store[k]] \in Seq(STRING)
  BY <1>1, CallsAssumption
<1>3. QED BY <1>1, <1>2, BothBegin DEF OwnKey, Apart

(* What the server answers from a store whose objects are their writers' is *)
(* no object of a client with an unrelated prefix.                          *)
LEMMA RepliesApart ==
  ASSUME Stored(store), NEW c \in Clients, NEW q, Owned(c, q),
         NEW status \in Statuses(q)
  PROVE  AllApart(c, Replies(q, status))
<1>1. ASSUME NEW key PROVE Apart(c, Reply(q, status, key, NULL).by)
  BY DEF Apart, Reply
<1>2. CASE Silent(q, status)
  BY <1>2, EmptyIsSeq DEF Replies, AllApart
<1>3. CASE ~Silent(q, status) /\ q.cmd \in {"STAT", "KEYS"}
  <2>1. PICK e, f : Replies(q, status) = <<e, f>> /\ Apart(c, e.by) /\ Apart(c, f.by)
    BY <1>1, <1>3 DEF Replies
  <2>2. QED BY <2>1 DEF AllApart
<1>4. CASE ~Silent(q, status) /\ q.cmd \notin {"STAT", "KEYS"}
  <2>1. PICK e : /\ Replies(q, status) = <<e>>
                 /\ e.by = IF q.cmd \in Gets /\ status = "OK" THEN store[q.key] ELSE NULL
    BY <1>4 DEF Replies, Reply
  <2>2. Apart(c, e.by)
    <3>1. CASE q.cmd \in Gets /\ status = "OK"
      <4>1. q.key \in DOMAIN store /\ OwnKey(c, q.key)
        BY <3>1 DEF Statuses, Owned, Keyed, Gets, Sure
      <4>2. QED BY <2>1, <3>1, <4>1, FoundApart
    <3>2. CASE ~(q.cmd \in Gets /\ status = "OK")
      BY <2>1, <3>2 DEF Apart
    <3>3. QED BY <3>1, <3>2
  <2>3. QED BY <2>1, <2>2 DEF AllApart
<1>5. QED BY <1>2, <1>3, <1>4

(* What a request of a client writes begins with the client's prefix.       *)
LEMMA StaysStored ==
  ASSUME Stored(store), NEW c \in Clients, NEW q, Owned(c, q), NEW status
  PROVE  Stored(StoreAfter(c, q, status))
<1>1. q.cmd \in Writes => q.cmd \notin {"DELETE", "DELETEQ", "FLUSH", "FLUSHQ"}
  BY DEF Writes
<1>2. CASE q.cmd \in Writes /\ status = "OK"
  BY <1>1, <1>2 DEF StoreAfter, With, Stored, Owned, Keyed
<1>3. CASE q.cmd \in {"DELETE", "DELETEQ"} /\ status = "OK"
  BY <1>1, <1>3 DEF StoreAfter, Without, Stored
<1>4. CASE q.cmd \in {"FLUSH", "FLUSHQ"}
  BY <1>1, <1>4 DEF StoreAfter, Stored
<1>5. CASE /\ ~(q.cmd \in Writes /\ status = "OK")
           /\ ~(q.cmd \in {"DELETE", "DELETEQ"} /\ status = "OK")
           /\ q.cmd \notin {"FLUSH", "FLUSHQ"}
  BY <1>5 DEF StoreAfter, Stored
<1>6. QED BY <1>2, <1>3, <1>4, <1>5

(* The server keeps tenants apart,                                          *)
LEMMA HandleOwned ==
  ASSUME TenantInv, NEW c \in Clients, Handle(c), NumberInv'
  PROVE  TenantInv'
<1> USE DEF TenantInv
<1>1. PICK q, status : /\ q = Head(wire[c]) /\ status \in Statuses(q)
                       /\ wire' = [wire EXCEPT ![c] = Tail(@)]
                       /\ back' = [back EXCEPT ![c] = @ \o Replies(q, status)]
                       /\ store' = StoreAfter(c, q, status)
  BY DEF Handle
<1>2. IsSeq(wire[c]) /\ wire[c] # <<>> /\ IsSeq(back[c])
      /\ DOMAIN wire = Clients /\ DOMAIN back = Clients
  BY DEF Handle, NumberInv, Shape
<1>3. Fits(q, sent[c])
  BY <1>1, <1>2, TailOf DEF NumberInv, Numbers, Numbered
<1>4. /\ Len(wire[c]) \in Nat /\ Len(wire[c]) >= 1 /\ q = wire[c][1]
      /\ Len(Tail(wire[c])) = Len(wire[c]) - 1
      /\ \A i \in 1..Len(Tail(wire[c])) : Tail(wire[c])[i] = wire[c][i + 1]
  BY <1>1, <1>2, TailOf
<1>5. \A i \in 1..Len(Tail(wire[c])) : i + 1 \in 1..Len(wire[c])
  BY <1>4
<1>6. Owned(c, q) /\ AllOwned(c, Tail(wire[c]))
  BY <1>4, <1>5 DEF AllOwned
<1>7. AllApart(c, Replies(q, status)) /\ Stored(store')
  BY <1>1, <1>6, RepliesApart, StaysStored
<1>8. AllApart(c, back[c] \o Replies(q, status))
  <2>1. PICK s, t : s = back[c] /\ t = Replies(q, status)
    OBVIOUS
  <2>2. IsSeq(s) /\ IsSeq(t) /\ AllApart(c, s) /\ AllApart(c, t)
    BY <1>2, <1>3, <1>7, <2>1, RepliesFit
  <2>3. /\ Len(s) \in Nat /\ Len(t) \in Nat /\ Len(s \o t) = Len(s) + Len(t)
        /\ \A i \in 1..Len(s) : (s \o t)[i] = s[i]
        /\ \A i \in (Len(s) + 1)..(Len(s) + Len(t)) : (s \o t)[i] = t[i - Len(s)]
    BY <2>2, ConcatOf
  <2>4. \A i \in (Len(s) + 1)..(Len(s) + Len(t)) : i - Len(s) \in 1..Len(t)
    BY <2>3
  <2>5. \A i \in 1..(Len(s) + Len(t)) :
          i \in 1..Len(s) \/ i \in (Len(s) + 1)..(Len(s) + Len(t))
    BY <2>3
  <2>6. QED BY <2>1, <2>2, <2>3, <2>4, <2>5, SMTT(30) DEF AllApart
<1>9. QED BY <1>1, <1>2, <1>6, <1>7, <1>8

(* and so does receiving.                                                   *)
LEMMA RecvOwned ==
  ASSUME TenantInv, NEW c \in Clients, Recv(c), NumberInv'
  PROVE  TenantInv'
<1> USE DEF TenantInv
<1>1. back' = [back EXCEPT ![c] = Tail(@)] /\ UNCHANGED <<wire, store>>
  BY DEF Recv
<1>2. IsSeq(back[c]) /\ back[c] # <<>> /\ DOMAIN back = Clients
  BY DEF Recv, NumberInv, Shape
<1>3. /\ Len(back[c]) \in Nat /\ Len(Tail(back[c])) = Len(back[c]) - 1
      /\ \A i \in 1..Len(Tail(back[c])) : Tail(back[c])[i] = back[c][i + 1]
  BY <1>2, TailOf
<1>4. \A i \in 1..Len(Tail(back[c])) : i + 1 \in 1..Len(back[c])
  BY <1>3
<1>5. AllApart(c, Tail(back[c]))
  BY <1>3, <1>4 DEF AllApart
<1>6. QED BY <1>1, <1>2, <1>5

(* Every step keeps the tenants apart,                                      *)
LEMMA TenantNext == TenantInv /\ [ProgramNext]_programVars => TenantInv'
<1> SUFFICES ASSUME TenantInv, [ProgramNext]_programVars PROVE TenantInv'
  OBVIOUS
<1>0. NumberInv'
  BY NumbersNext DEF TenantInv
<1>1. CASE UNCHANGED <<wire, back, store>>
  BY <1>0, <1>1 DEF TenantInv, AllOwned, AllApart, Owned
<1>2. ASSUME NEW c \in Clients, NEW a \in Calls[count + 1], count < MaxCalls,
             Call(c, a) \/ CallAndWait(c, a)
      PROVE  TenantInv'
  <2>1. count + 1 \in 1..Len(Calls)
    BY <1>2, CallsAssumption DEF TenantInv, NumberInv, Shape, MaxCalls
  <2>2. a \in Called
    BY <2>1 DEF Called
  <2>3. QED BY <1>0, <1>2, <2>2, IssueOwned DEF Call, CallAndWait
<1>3. ASSUME NEW c \in Clients, Construct(c) \/ MultiGet(c, Keys) \/ RecvFails(c)
      PROVE  TenantInv'
  BY <1>1, <1>3 DEF Construct, MultiGet, RecvFails
<1>4. ASSUME NEW c \in Clients, Ask(c) PROVE TenantInv'
  <2>1. PICK a \in Called : \E next : Issue(c, a, next)
    BY <1>4, AskCalls DEF TenantInv
  <2>2. QED BY <1>0, <1>4, <2>1, IssueOwned DEF Ask
<1>5. ASSUME NEW c \in Clients, Recv(c) PROVE TenantInv'
  BY <1>0, <1>5, RecvOwned
<1>6. ASSUME NEW c \in Clients, Handle(c) PROVE TenantInv'
  BY <1>0, <1>6, HandleOwned
<1>7. CASE UNCHANGED programVars
  BY <1>1, <1>7 DEF programVars
<1>8. QED BY <1>2, <1>3, <1>4, <1>5, <1>6, <1>7 DEF ProgramNext, Looping

(* and the store is empty at first.                                         *)
LEMMA TenantInit == ProgramInit => TenantInv
<1> SUFFICES ASSUME ProgramInit PROVE TenantInv
  OBVIOUS
<1>1. NumberInv
  BY NumbersInit
<1>2. \A c \in Clients : wire[c] = <<>> /\ back[c] = <<>>
  BY DEF ProgramInit
<1>3. \A c \in Clients : AllOwned(c, <<>>) /\ AllApart(c, <<>>)
  BY EmptyIsSeq DEF AllOwned, AllApart
<1>4. Stored(store)
  BY DEF ProgramInit, Stored
<1>5. QED BY <1>1, <1>2, <1>3, <1>4 DEF TenantInv

(* Two programs of which neither prefix begins the other's never receive an  *)
(* object that the other wrote, whatever they call in whichever extension:   *)
(* every method that reads or writes an object puts the prefix before the    *)
(* key.                                                                     *)
THEOREM ProgramTenants == ProgramSpec => []TenantsApart
<1>1. TenantInv => TenantsApart
  BY DEF TenantInv, AllApart, Apart, TenantsApart
<1>2. QED BY <1>1, TenantInit, TenantNext, PTL DEF ProgramSpec

-----------------------------------------------------------------------------
(* The order of what is under way: requests by their numbers, before them   *)
(* the answers, of which only a listing has more than one to a request, all  *)
(* with a key but the last.                                                 *)
Listing(e) == e.cmd \in {"STAT", "KEYS"}

Ascending(s) == \A i, j \in 1..Len(s) : i < j => s[i].n < s[j].n

InTurn(s) ==
  \A i, j \in 1..Len(s) : i < j =>
    /\ s[i].n <= s[j].n
    /\ s[i].n = s[j].n => Listing(s[i]) /\ s[i].key # <<>>

Before(s, t) == \A i \in 1..Len(s) : \A j \in 1..Len(t) : s[i].n < t[j].n

Single(s, k) == \A i \in 1..Len(s) : s[i].n = k => ~Listing(s[i])

Ordered(c) ==
  /\ Ascending(wire[c]) /\ InTurn(back[c]) /\ Before(back[c], wire[c])
  /\ at[c] \in {"waiting", "collecting"} =>
       Single(wire[c], sent[c]) /\ Single(back[c], sent[c])
  /\ drained[c] => wire[c] = <<>> /\ back[c] = <<>>

Histories == DOMAIN drained = Clients /\ DOMAIN found = Clients /\ DOMAIN hits = Clients

OrderInv ==
  /\ NumberInv
  /\ Histories
  /\ \A c \in Clients : Ordered(c)

(* A sequence is empty when it has no first element.                        *)
LEMMA NoneIn ==
  ASSUME NEW s, IsSeq(s)
  PROVE  Len(s) \in Nat /\ (s = <<>> <=> Len(s) < 1)
<1>1. PICK S : s \in Seq(S)
  BY DEF IsSeq
<1>2. QED BY <1>1

(* The orders of a queue are kept when its first element leaves.            *)
LEMMA LaterTail ==
  ASSUME NEW s, IsSeq(s), s # <<>>
  PROVE  /\ Ascending(s) => Ascending(Tail(s))
         /\ InTurn(s) => InTurn(Tail(s))
         /\ \A k : Single(s, k) => Single(Tail(s), k)
         /\ \A t : Before(s, t) => Before(Tail(s), t)
         /\ \A t : Before(t, s) => Before(t, Tail(s))
<1>1. /\ Len(s) \in Nat /\ Len(Tail(s)) = Len(s) - 1
      /\ \A i \in 1..Len(Tail(s)) : Tail(s)[i] = s[i + 1]
  BY TailOf
<1>2. \A i \in 1..Len(Tail(s)) : i + 1 \in 1..Len(s)
  BY <1>1
<1>3. \A i, j \in 1..Len(Tail(s)) : i < j => i + 1 < j + 1
  BY <1>1
<1>4. Ascending(s) => Ascending(Tail(s))
  BY <1>1, <1>2, <1>3 DEF Ascending
<1>5. InTurn(s) => InTurn(Tail(s))
  BY <1>1, <1>2, <1>3 DEF InTurn
<1>6. QED BY <1>1, <1>2, <1>4, <1>5 DEF Single, Before

(* Its first goes before the rest.                                          *)
LEMMA FirstBefore ==
  ASSUME NEW s, IsSeq(s), s # <<>>, Ascending(s)
  PROVE  \A j \in 1..Len(Tail(s)) : Head(s).n < Tail(s)[j].n
<1>1. /\ Len(s) \in Nat /\ Len(s) >= 1 /\ Head(s) = s[1] /\ Len(Tail(s)) = Len(s) - 1
      /\ \A i \in 1..Len(Tail(s)) : Tail(s)[i] = s[i + 1]
  BY TailOf
<1>2. \A j \in 1..Len(Tail(s)) : 1 \in 1..Len(s) /\ j + 1 \in 1..Len(s) /\ 1 < j + 1
  BY <1>1
<1>3. QED BY <1>1, <1>2 DEF Ascending

(* One more request, with the next number.                                  *)
LEMMA LaterAppend ==
  ASSUME NEW s, IsSeq(s), NEW k \in Nat, Numbered(s, k), NEW q, q.n = k + 1
  PROVE  /\ Ascending(s) => Ascending(Append(s, q))
         /\ ~Listing(q) => Single(Append(s, q), k + 1)
         /\ \A t : Numbered(t, k) /\ Before(t, s) => Before(t, Append(s, q))
<1>1. /\ Len(s) \in Nat /\ Len(Append(s, q)) = Len(s) + 1
      /\ \A i \in 1..Len(s) : Append(s, q)[i] = s[i]
      /\ Append(s, q)[Len(s) + 1] = q
  BY AppendOf
<1>2. \A i \in 1..(Len(s) + 1) : i \in 1..Len(s) \/ i = Len(s) + 1
  BY <1>1
<1>3. \A i \in 1..Len(s) : s[i].n \in Nat /\ s[i].n < k + 1
  BY DEF Numbered, Fits
<1>4. ASSUME Ascending(s) PROVE Ascending(Append(s, q))
  <2>1. SUFFICES ASSUME NEW i \in 1..(Len(s) + 1), NEW j \in 1..(Len(s) + 1), i < j
                 PROVE  Append(s, q)[i].n < Append(s, q)[j].n
    BY <1>1 DEF Ascending
  <2>2. i \in 1..Len(s)
    BY <1>1, <2>1
  <2>3. CASE j \in 1..Len(s)
    BY <1>1, <1>4, <2>1, <2>2, <2>3 DEF Ascending
  <2>4. CASE j = Len(s) + 1
    BY <1>1, <1>3, <2>2, <2>4
  <2>5. QED BY <1>2, <2>3, <2>4
<1>5. ASSUME ~Listing(q) PROVE Single(Append(s, q), k + 1)
  <2>1. \A i \in 1..Len(s) : Append(s, q)[i].n # k + 1
    BY <1>1, <1>3
  <2>2. QED BY <1>1, <1>2, <1>5, <2>1 DEF Single
<1>6. ASSUME NEW t, Numbered(t, k), Before(t, s) PROVE Before(t, Append(s, q))
  <2>1. \A i \in 1..Len(t) : t[i].n < k + 1
    BY <1>6 DEF Numbered, Fits
  <2>2. QED BY <1>1, <1>2, <1>6, <2>1 DEF Before
<1>7. QED BY <1>4, <1>5, <1>6

(* The answers to a request, which goes before those that wait.             *)
LEMMA LaterConcat ==
  ASSUME NEW s, NEW t, IsSeq(s), IsSeq(t), NEW m \in Nat, InTurn(s), InTurn(t),
         \A i \in 1..Len(s) : s[i].n \in Nat /\ s[i].n < m, \A i \in 1..Len(t) : t[i].n = m
  PROVE  /\ InTurn(s \o t)
         /\ \A k : Single(s, k) /\ Single(t, k) => Single(s \o t, k)
         /\ \A u : Before(s, u) /\ Before(t, u) => Before(s \o t, u)
<1>1. /\ Len(s) \in Nat /\ Len(t) \in Nat /\ Len(s \o t) = Len(s) + Len(t)
      /\ \A i \in 1..Len(s) : (s \o t)[i] = s[i]
      /\ \A i \in (Len(s) + 1)..(Len(s) + Len(t)) : (s \o t)[i] = t[i - Len(s)]
  BY ConcatOf
<1>2. \A i \in (Len(s) + 1)..(Len(s) + Len(t)) : i - Len(s) \in 1..Len(t)
  BY <1>1
<1>3. \A i \in 1..(Len(s) + Len(t)) : i \in 1..Len(s) \/ i \in (Len(s) + 1)..(Len(s) + Len(t))
  BY <1>1
<1>4. InTurn(s \o t)
  <2>1. SUFFICES ASSUME NEW i \in 1..(Len(s) + Len(t)), NEW j \in 1..(Len(s) + Len(t)), i < j
                 PROVE  /\ (s \o t)[i].n <= (s \o t)[j].n
                        /\ (s \o t)[i].n = (s \o t)[j].n =>
                             Listing((s \o t)[i]) /\ (s \o t)[i].key # <<>>
    BY <1>1 DEF InTurn
  <2>2. CASE j \in 1..Len(s)
    <3>1. i \in 1..Len(s)
      BY <1>1, <2>1, <2>2
    <3>2. QED BY <1>1, <2>1, <2>2, <3>1 DEF InTurn
  <2>3. CASE i \in 1..Len(s) /\ j \in (Len(s) + 1)..(Len(s) + Len(t))
    <3>1. (s \o t)[i].n \in Nat /\ (s \o t)[i].n < m /\ (s \o t)[j].n = m
      BY <1>1, <1>2, <2>3
    <3>2. (s \o t)[i].n # m /\ (s \o t)[i].n <= m
      BY <3>1
    <3>3. QED BY <3>1, <3>2
  <2>4. CASE i \in (Len(s) + 1)..(Len(s) + Len(t)) /\ j \in (Len(s) + 1)..(Len(s) + Len(t))
    <3>1. i - Len(s) < j - Len(s)
      BY <1>1, <2>1, <2>4
    <3>2. QED BY <1>1, <1>2, <2>4, <3>1 DEF InTurn
  <2>5. i \notin 1..Len(s) => j \notin 1..Len(s)
    BY <1>1, <2>1
  <2>6. QED BY <1>3, <2>2, <2>3, <2>4, <2>5
<1>5. ASSUME NEW k, Single(s, k), Single(t, k) PROVE Single(s \o t, k)
  BY <1>1, <1>2, <1>3, <1>5 DEF Single
<1>6. ASSUME NEW u, Before(s, u), Before(t, u) PROVE Before(s \o t, u)
  BY <1>1, <1>2, <1>3, <1>6, SMTT(30) DEF Before
<1>7. QED BY <1>4, <1>5, <1>6

-----------------------------------------------------------------------------
(* A call that is waited for, and is no listing, has one answer.             *)
NotListed(made) == made.out = "send" => made.cmd \notin {"STAT", "KEYS"}

(* Only the listing methods make a request that may be answered more than   *)
(* once,                                                                    *)
LEMMA NotListedMethod ==
  ASSUME NEW o, NEW a, a.m \in MethodNames \ Listings
  PROVE  NotListed(Method(o, a))
<1> USE DEF NotListed, Method, Fatal, Crash, OnConn, OnThreshold, Request, BadArgument, Either,
            OnKey
<1>0. ASSUME NEW cmd, cmd \notin {"STAT", "KEYS"}, NEW key, NEW flags, NEW expire, NEW cas
      PROVE  NotListed(SendData(o, cmd, key, a.data, flags, expire, cas))
  BY <1>0 DEF SendData, CompressFailed
<1>1. CASE a.m \in {"get", "getk", "getTouch"}
  BY <1>1, ZenonT(60) DEF Get, Getk, GetTouch, yrmcds_get, yrmcds_getk, yrmcds_get_touch
<1>2. CASE a.m \in {"getkTouch", "lockGet", "lockGetk", "touch"}
  BY <1>2, ZenonT(60) DEF GetkTouch, LockGet, LockGetk, Touch, yrmcds_getk_touch, yrmcds_lock_get,
              yrmcds_lock_getk, yrmcds_touch
<1>3. CASE a.m \in {"set", "replace", "add", "replaceUnlock"}
  <2>1. NotListed(Set(o, a.key, a.data, a.flags, a.expire, a.cas, a.quiet))
    BY <1>0 DEF Set, yrmcds_set
  <2>2. NotListed(Replace(o, a.key, a.data, a.flags, a.expire, a.cas, a.quiet))
    BY <1>0 DEF Replace, yrmcds_replace
  <2>3. NotListed(Add(o, a.key, a.data, a.flags, a.expire, a.cas, a.quiet))
    BY <1>0 DEF Add, yrmcds_add
  <2>4. NotListed(ReplaceUnlock(o, a.key, a.data, a.flags, a.expire, a.quiet))
    BY <1>0 DEF ReplaceUnlock, yrmcds_replace_unlock
  <2>5. QED BY <1>3, <2>1, <2>2, <2>3, <2>4
<1>4. CASE a.m \in {"append", "prepend"}
  BY <1>4, ZenonT(60) DEF AppendTo, PrependTo, yrmcds_append, yrmcds_prepend
<1>5. CASE a.m \in {"incr", "decr", "incr2", "decr2"}
  <2>1. NotListed(Incr(o, a.key, a.value, a.quiet)) /\ NotListed(Decr(o, a.key, a.value, a.quiet))
    BY DEF Incr, Decr, yrmcds_incr, yrmcds_decr
  <2>2. NotListed(Incr2(o, a.key, a.value, a.initial, a.expire, a.quiet))
    BY DEF Incr2, yrmcds_incr2
  <2>3. NotListed(Decr2(o, a.key, a.value, a.initial, a.expire, a.quiet))
    BY DEF Decr2, yrmcds_decr2
  <2>4. QED BY <1>5, <2>1, <2>2, <2>3
<1>6. CASE a.m \in {"delete", "lock", "unlock", "unlockAll"}
  BY <1>6, ZenonT(60) DEF Delete, LockKey, UnlockKey, UnlockAll, yrmcds_remove, yrmcds_lock,
              yrmcds_unlock, yrmcds_unlockall
<1>7. CASE a.m \in {"flush", "noop", "version", "quit"}
  BY <1>7, ZenonT(60) DEF Flush, Noop, Version, Quit, yrmcds_flush, yrmcds_noop, yrmcds_version, yrmcds_quit
<1>8. QED BY <1>1, <1>2, <1>3, <1>4, <1>5, <1>6, <1>7, ZenonT(60) DEF MethodNames, Listings

(* Either extension makes of a call on a constructed object what the other   *)
(* makes of it.                                                             *)
LEMMA MadeIs ==
  ASSUME NEW c \in Clients, NEW a \in Called, at[c] # "new"
  PROVE  \E o : o.conn = TRUE /\ Made(c, a) = Method(o, a)
<1>0. PICK o : o = Object(c)
  OBVIOUS
<1>1. o = Object(c) /\ o.conn = TRUE /\ o.prefix = Prefix[c]
  BY <1>0 DEF Object, ObjectOf
<1>2. Made(c, a) = Method(o, a) \/ Made(c, a) = Php5!Method(o, a)
  BY <1>1 DEF Made
<1>3. Prefix[c] \in Seq(STRING)
  BY CallsAssumption
<1>4. Method(o, a) = Php5!Method(o, a)
  <2>1. CASE a.m = "noop"
    BY <1>1, <2>1, SameNoop
  <2>2. CASE a.m \in MethodNames /\ a.key \in Seq(STRING)
    <3>1. <<>> \o a.key = a.key
      BY <2>2, ConcatEmptySeq, Zenon
    <3>2. FullKey(o, a.key) = Php5!FullKey(o, a.key)
      BY <3>1 DEF FullKey, Php5!FullKey
    <3>3. QED BY <1>1, <2>2, <3>2, SameMethod
  <2>3. QED BY <2>1, <2>2, CalledSound
<1>5. QED BY <1>1, <1>2, <1>4

(* so a call of another method does not.                                    *)
LEMMA NotListedMade ==
  ASSUME NEW c \in Clients, NEW a \in Called, at[c] # "new", a.m \notin Listings
  PROVE  NotListed(Made(c, a))
<1>1. a.m \in MethodNames \ Listings
  BY CalledSound DEF MethodNames
<1>2. QED BY <1>1, MadeIs, NotListedMethod

(* The two calls of a multi-get.                                            *)
LEMMA AskedMade ==
  ASSUME NEW c \in Clients, NEW a \in Called, at[c] # "new", Made(c, a).out = "send"
  PROVE  /\ a.m = "getk" /\ a.quiet = TRUE => Made(c, a).cmd = "GETKQ"
         /\ a.m = "noop" => Made(c, a).cmd = "NOOP"
<1>1. PICK o : o.conn = TRUE /\ Made(c, a) = Method(o, a)
  BY MadeIs
<1> USE DEF Method, OnConn, Request, BadArgument, Either, OnKey
<1>2. ASSUME a.m = "getk", a.quiet = TRUE PROVE Made(c, a).cmd = "GETKQ"
  <2>1. Made(c, a) = Getk(o, a.key, TRUE)
    BY <1>1, <1>2
  <2>2. a.key # <<>>
    <3>1. Fatal("Invalid key").out # "send"
      BY DEF Fatal
    <3>2. QED BY <2>1, <3>1 DEF Getk
  <2>3. Made(c, a) = yrmcds_getk(FullKey(o, a.key), TRUE)
    BY <1>1, <2>1, <2>2 DEF Getk
  <2>4. QED BY <2>3 DEF yrmcds_getk
<1>3. ASSUME a.m = "noop" PROVE Made(c, a).cmd = "NOOP"
  BY <1>1, <1>3 DEF Noop, yrmcds_noop
<1>4. QED BY <1>2, <1>3

-----------------------------------------------------------------------------
(* The steps keep the order.                                                *)

(* A connection nothing is done on.                                         *)
Elsewhere(c) ==
  \A d \in Clients \ {c} :
    /\ at'[d] = at[d] /\ sent'[d] = sent[d] /\ wire'[d] = wire[d] /\ back'[d] = back[d]
    /\ drained'[d] = drained[d] /\ found'[d] = found[d] /\ hits'[d] = hits[d]

(* A step of one program disturbs no other's order.                         *)
LEMMA OrderStep ==
  ASSUME OrderInv, NumberInv', NEW c \in Clients, Elsewhere(c), Ordered(c)', Histories'
  PROVE  OrderInv'
<1>1. ASSUME NEW d \in Clients, d # c PROVE Ordered(d)'
  BY <1>1 DEF OrderInv, Ordered, Elsewhere
<1>2. QED BY <1>1 DEF OrderInv

(* What a call changes.                                                     *)
LEMMA IssueIs ==
  ASSUME NumberInv, NEW c \in Clients, NEW a, NEW next, Issue(c, a, next)
  PROVE  /\ \A d \in Clients \ {c} : at'[d] = at[d] /\ sent'[d] = sent[d] /\ wire'[d] = wire[d]
         /\ Made(c, a).out = "send" =>
              \E q : /\ q.n = sent[c] + 1 /\ q.cmd = Made(c, a).cmd /\ q.multi = (at[c] = "asking")
                     /\ wire'[c] = Append(wire[c], q) /\ sent'[c] = sent[c] + 1 /\ at'[c] = next
         /\ Made(c, a).out # "send" =>
              wire'[c] = wire[c] /\ sent'[c] = sent[c] /\ at'[c] \in {at[c], "over"}
<1> USE DEF NumberInv, Shape
<1>1. CASE Made(c, a).out = "send"
  <2>1. PICK q : /\ q.n = sent[c] + 1 /\ q.cmd = Made(c, a).cmd /\ q.multi = (at[c] = "asking")
                 /\ wire' = [wire EXCEPT ![c] = Append(wire[c], q)]
    BY <1>1 DEF Issue, Send
  <2>2. at' = [at EXCEPT ![c] = next] /\ sent' = [sent EXCEPT ![c] = sent[c] + 1]
    BY <1>1 DEF Issue, Send
  <2>3. QED BY <1>1, <2>1, <2>2
<1>2. CASE Made(c, a).out # "send"
  BY <1>2 DEF Issue
<1>3. QED BY <1>1, <1>2

(* A request takes the highest number, so it goes behind all that is under  *)
(* way.                                                                     *)
LEMMA IssueOrdered ==
  ASSUME OrderInv, NumberInv', NEW c \in Clients, NEW a, NEW next, Issue(c, a, next),
         at[c] \notin Loops, UNCHANGED <<back, found, hits>>,
         drained' = [drained EXCEPT ![c] = FALSE],
         next \in {"waiting", "collecting"} => NotListed(Made(c, a))
  PROVE  OrderInv'
<1>1. Elsewhere(c) /\ drained'[c] = FALSE /\ Histories'
  BY IssueIs DEF Elsewhere, OrderInv, Histories
<1>2. /\ IsSeq(wire[c]) /\ sent[c] \in Nat /\ Numbered(wire[c], sent[c])
      /\ Numbered(back[c], sent[c]) /\ Ordered(c)
  BY DEF OrderInv, NumberInv, Shape, Numbers
<1>3. CASE Made(c, a).out = "send"
  <2>1. PICK q : /\ q.n = sent[c] + 1 /\ q.cmd = Made(c, a).cmd
                 /\ wire'[c] = Append(wire[c], q) /\ sent'[c] = sent[c] + 1 /\ at'[c] = next
    BY <1>3, IssueIs DEF OrderInv
  <2>2. Ascending(wire'[c]) /\ Before(back[c], wire'[c])
    BY <1>2, <2>1, LaterAppend DEF Ordered
  <2>3. at'[c] \in {"waiting", "collecting"} => Single(wire'[c], sent'[c])
    BY <1>2, <1>3, <2>1, LaterAppend DEF NotListed, Listing
  <2>4. Single(back[c], sent'[c])
    BY <1>2, <2>1 DEF Single, Numbered, Fits
  <2>5. Ordered(c)'
    BY <1>1, <1>2, <2>2, <2>3, <2>4 DEF Ordered
  <2>6. QED BY <1>1, <2>5, OrderStep
<1>4. CASE Made(c, a).out # "send"
  <2>1. at'[c] \notin {"waiting", "collecting"} /\ wire'[c] = wire[c]
    BY <1>4, IssueIs DEF OrderInv, Loops
  <2>2. Ordered(c)'
    BY <1>1, <1>2, <2>1 DEF Ordered
  <2>3. QED BY <1>1, <2>2, OrderStep
<1>5. QED BY <1>3, <1>4

(* Calls keep the order,                                                    *)
LEMMA CallOrdered ==
  ASSUME OrderInv, NumberInv', NEW c \in Clients, NEW a \in Called,
         Call(c, a) \/ CallAndWait(c, a)
  PROVE  OrderInv'
<1>1. at[c] \notin Loops
  BY DEF Call, CallAndWait, Loops
<1>2. CASE Call(c, a)
  BY <1>1, <1>2, IssueOrdered DEF Call
<1>3. CASE CallAndWait(c, a)
  <2>1. PICK next : /\ next = (IF a.m \in Listings THEN "listing" ELSE "waiting")
                    /\ Issue(c, a, next)
    BY <1>3 DEF CallAndWait
  <2>2. next \in {"waiting", "collecting"} => NotListed(Made(c, a))
    BY <1>3, <2>1, NotListedMade DEF CallAndWait
  <2>3. UNCHANGED <<back, found, hits>> /\ drained' = [drained EXCEPT ![c] = FALSE]
    BY <1>3 DEF CallAndWait
  <2>4. QED BY <1>1, <2>1, <2>2, <2>3, IssueOrdered
<1>4. QED BY <1>2, <1>3

(* The call that ends a multi-get is a noop.                                *)
LEMMA AskIs ==
  ASSUME NumberInv, NEW c \in Clients, Ask(c)
  PROVE  \E a \in Called : \E next :
           /\ Issue(c, a, next) /\ a.m \in {"getk", "noop"}
           /\ a.m = "getk" => a.quiet = TRUE /\ next = "asking"
           /\ a.m = "noop" => next = "collecting"
<1>1. todo[c] \in Seq(Seq(STRING))
  BY DEF NumberInv, Shape
<1>2. CASE todo[c] # <<>>
  <2>1. Head(todo[c]) \in Seq(STRING)
    BY <1>1, <1>2, HeadTailProperties, Zenon
  <2>2. PICK a : a = [m |-> "getk", key |-> Head(todo[c]), quiet |-> TRUE]
    OBVIOUS
  <2>3. a \in Called /\ a.m = "getk" /\ a.quiet = TRUE /\ Issue(c, a, "asking")
    BY <1>2, <2>1, <2>2 DEF Called, Ask
  <2>4. QED BY <2>3
<1>3. CASE todo[c] = <<>>
  <2>1. NoCall \in Called /\ NoCall.m = "noop" /\ Issue(c, NoCall, "collecting")
    BY <1>3 DEF Called, Ask, NoCall
  <2>2. QED BY <2>1
<1>4. QED BY <1>2, <1>3

(* and so do the rounds of a multi-get,                                     *)
LEMMA AskOrdered ==
  ASSUME OrderInv, NumberInv', NEW c \in Clients, Ask(c)
  PROVE  OrderInv'
<1>1. PICK a, next :
        /\ a \in Called
        /\ Issue(c, a, next) /\ a.m \in {"getk", "noop"}
  BY AskIs DEF OrderInv
<1>2. NotListed(Made(c, a))
  BY <1>1, NotListedMade DEF Ask, Listings
<1>3. /\ at[c] \notin Loops /\ UNCHANGED <<back, found, hits>>
      /\ drained' = [drained EXCEPT ![c] = FALSE]
  BY DEF Ask, Loops
<1>4. QED BY <1>1, <1>2, <1>3, IssueOrdered

(* and the steps that send and receive nothing.                             *)
LEMMA RestOrdered ==
  ASSUME OrderInv, NumberInv', NEW c \in Clients,
         Construct(c) \/ MultiGet(c, Keys) \/ RecvFails(c)
  PROVE  OrderInv'
<1>1. /\ at'[c] \notin {"waiting", "collecting"}
      /\ UNCHANGED <<sent, wire, back, drained>>
  BY DEF OrderInv, NumberInv, Shape, Construct, MultiGet, RecvFails
<1>2. Elsewhere(c)
  <2>1. CASE Construct(c)
    BY <2>1 DEF Elsewhere, Construct, OrderInv, NumberInv, Shape
  <2>2. CASE MultiGet(c, Keys)
    BY <2>2 DEF Elsewhere, MultiGet, OrderInv, NumberInv, Shape, Histories
  <2>3. CASE RecvFails(c)
    BY <2>3 DEF Elsewhere, RecvFails, OrderInv, NumberInv, Shape
  <2>4. QED BY <2>1, <2>2, <2>3
<1>3. Ordered(c)'
  BY <1>1 DEF OrderInv, Ordered
<1>4. Histories'
  <2>1. CASE Construct(c) \/ RecvFails(c)
    BY <2>1 DEF Construct, RecvFails, OrderInv, Histories
  <2>2. CASE MultiGet(c, Keys)
    BY <2>2 DEF MultiGet, OrderInv, Histories
  <2>3. QED BY <2>1, <2>2
<1>5. QED BY <1>1, <1>2, <1>3, <1>4, OrderStep DEF OrderInv

(* Both extensions pass the key of a response on.                           *)
LEMMA ReceivedKey ==
  ASSUME NEW c \in Clients, NEW e
  PROVE  Received(c, e).key = e.key
BY DEF Received, Response, Php5!Response

(* What a turn of a loop sees and changes.                                  *)
LEMMA RecvIs ==
  ASSUME OrderInv, NEW c \in Clients, Recv(c)
  PROVE  \E e, mine, end :
           /\ e = Head(back[c]) /\ e.n \in Nat /\ e.n <= sent[c]
           /\ back[c] # <<>> /\ IsSeq(back[c])
           /\ mine \in BOOLEAN /\ (mine <=> e.n = sent[c])
           /\ end \in BOOLEAN /\ (end <=> mine /\ (at[c] = "listing" => e.key = <<>>))
           /\ at[c] \in {"waiting", "collecting", "listing"}
           /\ at'[c] = (IF end THEN "free" ELSE at[c]) /\ drained'[c] = end
           /\ found'[c] = IF at[c] = "collecting" /\ ~mine THEN found[c] \cup {e.key} ELSE found[c]
           /\ back'[c] = Tail(back[c]) /\ Elsewhere(c)
           /\ Histories'
           /\ UNCHANGED <<sent, wire, hits>>
<1> USE DEF OrderInv, NumberInv
<1>1. PICK e : e = Head(back[c])
  OBVIOUS
<1>2. IsSeq(back[c]) /\ back[c] # <<>> /\ at[c] \in Loops /\ sent[c] \in Nat
  BY DEF Recv, Shape, Loops
<1>3. Fits(e, sent[c])
  BY <1>1, <1>2, TailOf DEF Numbers, Numbered
<1>4. PICK mine \in BOOLEAN : mine <=> e.serial = last[c].serial
  OBVIOUS
<1>5. last[c].n = sent[c] /\ last[c].serial = sent[c] % SerialMod
  BY <1>2 DEF Numbers
<1>6. e.n \in Nat /\ e.n <= sent[c] /\ sent[c] - e.n < SerialMod /\ e.serial = e.n % SerialMod
  BY <1>3 DEF Fits
<1>7. mine <=> e.n = sent[c]
  <2>1. SerialMod \in Nat \ {0}
    BY ProgramsAssumption
  <2>2. mine => e.n = sent[c]
    BY <1>2, <1>4, <1>5, <1>6, <2>1, SameSerial
  <2>3. QED BY <1>4, <1>5, <1>6, <2>2
<1>8. PICK end \in BOOLEAN : end <=> mine /\ (at[c] = "listing" => e.key = <<>>)
  OBVIOUS
<1>9. /\ back' = [back EXCEPT ![c] = Tail(@)]
      /\ at' = [at EXCEPT ![c] = IF end THEN "free" ELSE @]
      /\ UNCHANGED <<sent, wire, hits>>
  BY <1>1, <1>4, <1>8, ReceivedSerial, ReceivedKey DEF Recv
<1>10. drained' = [drained EXCEPT ![c] = end]
  <2>1. (Received(c, e).serial = last[c].serial
         /\ (at[c] = "listing" => Received(c, e).key = <<>>)) = end
    BY <1>4, <1>8, ReceivedSerial, ReceivedKey
  <2>2. QED BY <1>1, <2>1 DEF Recv
<1>11. /\ found'[c] = (IF at[c] = "collecting" /\ ~mine THEN found[c] \cup {e.key} ELSE found[c])
       /\ \A d \in Clients \ {c} : found'[d] = found[d]
       /\ DOMAIN found' = Clients
  <2>1. found' = [found EXCEPT ![c] = IF at[c] = "collecting" /\ ~mine THEN @ \cup {e.key} ELSE @]
    BY <1>1, <1>4, ReceivedSerial, ReceivedKey DEF Recv
  <2>2. QED BY <2>1 DEF Histories
<1>12. Elsewhere(c) /\ Histories'
  <2>1. DOMAIN drained = Clients /\ DOMAIN hits = Clients
    BY DEF Histories
  <2>2. \A d \in Clients \ {c} : at'[d] = at[d] /\ back'[d] = back[d]
    BY <1>9 DEF Shape
  <2>3. /\ \A d \in Clients \ {c} : drained'[d] = drained[d]
        /\ DOMAIN drained' = Clients
    BY <1>10, <2>1
  <2>4. Histories'
    BY <1>9, <1>11, <2>1, <2>3 DEF Histories
  <2>5. QED BY <1>9, <1>11, <2>2, <2>3, <2>4 DEF Elsewhere
<1>13. at'[c] = (IF end THEN "free" ELSE at[c]) /\ drained'[c] = end /\ back'[c] = Tail(back[c])
  BY <1>9, <1>10 DEF Shape, Histories
<1>14. QED BY <1>1, <1>2, <1>6, <1>7, <1>8, <1>9, <1>11, <1>12, <1>13 DEF Loops

(* The loop that ends has received the last of the answers.                 *)
LEMMA RecvOrdered ==
  ASSUME OrderInv, NumberInv', NEW c \in Clients, Recv(c)
  PROVE  OrderInv'
<1>1. PICK e, mine, end :
        /\ e = Head(back[c]) /\ e.n \in Nat /\ e.n <= sent[c]
        /\ back[c] # <<>> /\ IsSeq(back[c])
        /\ mine \in BOOLEAN /\ (mine <=> e.n = sent[c])
        /\ end \in BOOLEAN /\ (end <=> mine /\ (at[c] = "listing" => e.key = <<>>))
        /\ at[c] \in {"waiting", "collecting", "listing"}
        /\ at'[c] = (IF end THEN "free" ELSE at[c]) /\ drained'[c] = end
        /\ back'[c] = Tail(back[c]) /\ Elsewhere(c) /\ Histories'
        /\ UNCHANGED <<sent, wire, hits>>
  BY RecvIs
<1>2. /\ Ordered(c) /\ sent[c] \in Nat /\ IsSeq(wire[c])
      /\ Numbered(wire[c], sent[c]) /\ Numbered(back[c], sent[c])
  BY DEF OrderInv, NumberInv, Shape, Numbers
<1>3. /\ Len(back[c]) \in Nat /\ Len(back[c]) >= 1 /\ e = back[c][1]
      /\ Len(Tail(back[c])) = Len(back[c]) - 1 /\ IsSeq(Tail(back[c]))
  BY <1>1, TailOf
<1>4. ASSUME end PROVE wire[c] = <<>> /\ Tail(back[c]) = <<>>
  <2>1. e.n = sent[c] /\ (at[c] = "listing" => e.key = <<>>)
    BY <1>1, <1>4
  <2>2. ~(Listing(e) /\ e.key # <<>>)
    <3>1. CASE at[c] = "listing"
      BY <2>1, <3>1
    <3>2. CASE at[c] \in {"waiting", "collecting"}
      BY <1>2, <1>3, <2>1, <3>2 DEF Ordered, Single
    <3>3. QED BY <1>1, <3>1, <3>2
  <2>3. ~(Len(wire[c]) >= 1)
    <3>1. SUFFICES ASSUME Len(wire[c]) >= 1 PROVE FALSE
      OBVIOUS
    <3>2. 1 \in 1..Len(wire[c]) /\ 1 \in 1..Len(back[c])
      BY <1>2, <1>3, <3>1, NoneIn
    <3>3. e.n < wire[c][1].n
      BY <1>2, <1>3, <3>2 DEF Ordered, Before
    <3>4. wire[c][1].n \in Nat /\ wire[c][1].n <= sent[c]
      BY <1>2, <3>2 DEF Numbered, Fits
    <3>5. QED BY <1>2, <2>1, <3>3, <3>4
  <2>4. ~(Len(back[c]) >= 2)
    <3>1. SUFFICES ASSUME Len(back[c]) >= 2 PROVE FALSE
      OBVIOUS
    <3>2. 1 \in 1..Len(back[c]) /\ 2 \in 1..Len(back[c]) /\ 1 < 2
      BY <1>3, <3>1
    <3>3. e.n <= back[c][2].n /\ (e.n = back[c][2].n => Listing(e) /\ e.key # <<>>)
      BY <1>2, <1>3, <3>2 DEF Ordered, InTurn
    <3>4. back[c][2].n \in Nat /\ back[c][2].n <= sent[c]
      BY <1>2, <3>2 DEF Numbered, Fits
    <3>5. e.n = back[c][2].n
      BY <1>2, <2>1, <3>3, <3>4
    <3>6. QED BY <2>2, <3>3, <3>5
  <2>5. Len(wire[c]) < 1 /\ Len(Tail(back[c])) < 1
    BY <1>2, <1>3, <2>3, <2>4, NoneIn
  <2>6. QED BY <1>2, <1>3, <2>5, NoneIn
<1>5. Ordered(c)'
  <2>1. at'[c] \in {"waiting", "collecting"} => at[c] \in {"waiting", "collecting"}
    BY <1>1
  <2>2. /\ Ascending(wire[c]) /\ InTurn(Tail(back[c])) /\ Before(Tail(back[c]), wire[c])
        /\ \A k : Single(back[c], k) => Single(Tail(back[c]), k)
    BY <1>1, <1>2, LaterTail DEF Ordered
  <2>3. drained'[c] => end
    BY <1>1
  <2>4. QED BY <1>1, <1>2, <1>4, <2>1, <2>2, <2>3 DEF Ordered
<1>6. QED BY <1>1, <1>5, OrderStep

(* What the server answers to a request: nothing, one response, or the two   *)
(* of a listing.                                                            *)
LEMMA RepliesAre ==
  ASSUME NEW q, NEW status
  PROVE  /\ Silent(q, status) => Replies(q, status) = <<>>
         /\ ~Silent(q, status) /\ Listing(q) =>
              \E e, f : /\ Replies(q, status) = <<e, f>>
                        /\ e.n = q.n /\ e.cmd = q.cmd /\ e.key = <<"name">>
                        /\ f.n = q.n /\ f.cmd = q.cmd
         /\ ~Silent(q, status) /\ ~Listing(q) =>
              \E e : /\ Replies(q, status) = <<e>>
                     /\ e.n = q.n /\ e.cmd = q.cmd
                     /\ q.cmd \in GetKs /\ status = "OK" => e.key = q.key
BY DEF Replies, Reply, Listing

(* The replies to one request have its number and command, and only a       *)
(* listing is answered more than once, with a key in all replies but the    *)
(* last.                                                                    *)
LEMMA RepliesInTurn ==
  ASSUME NEW q, NEW status, q.n \in Nat
  PROVE  /\ IsSeq(Replies(q, status)) /\ InTurn(Replies(q, status))
         /\ \A i \in 1..Len(Replies(q, status)) :
              Replies(q, status)[i].n = q.n /\ Replies(q, status)[i].cmd = q.cmd
<1>1. CASE Silent(q, status)
  BY <1>1, RepliesAre, EmptyIsSeq DEF InTurn
<1>2. CASE ~Silent(q, status) /\ Listing(q)
  <2>1. PICK e, f : /\ Replies(q, status) = <<e, f>>
                    /\ e.n = q.n /\ e.cmd = q.cmd /\ e.key = <<"name">>
                    /\ f.n = q.n /\ f.cmd = q.cmd
    BY <1>2, RepliesAre
  <2>2. /\ <<e, f>> \in Seq({e, f}) /\ Len(<<e, f>>) = 2
        /\ <<e, f>>[1] = e /\ <<e, f>>[2] = f
    OBVIOUS
  <2>3. Listing(e) /\ e.key # <<>>
    BY <1>2, <2>1 DEF Listing
  <2>4. \A i, j \in 1..2 : i < j => i = 1 /\ j = 2
    OBVIOUS
  <2>5. InTurn(<<e, f>>)
    <3>1. PICK s : s = <<e, f>> /\ Len(s) = 2 /\ s[1] = e /\ s[2] = f
      BY <2>2
    <3>2. e.n <= f.n
      BY <2>1
    <3>3. \A i, j \in 1..Len(s) : i < j => i = 1 /\ j = 2
      BY <2>4, <3>1
    <3>4. InTurn(s)
      BY <2>3, <3>1, <3>2, <3>3 DEF InTurn
    <3>5. QED BY <3>1, <3>4
  <2>6. \A i \in 1..2 : <<e, f>>[i].n = q.n /\ <<e, f>>[i].cmd = q.cmd
    BY <2>1
  <2>7. QED BY <2>1, <2>2, <2>5, <2>6 DEF IsSeq
<1>3. CASE ~Silent(q, status) /\ ~Listing(q)
  <2>1. PICK e : Replies(q, status) = <<e>> /\ e.n = q.n /\ e.cmd = q.cmd
    BY <1>3, RepliesAre
  <2>2. <<e>> \in Seq({e}) /\ Len(<<e>>) = 1 /\ <<e>>[1] = e
    OBVIOUS
  <2>3. PICK s : s = Replies(q, status) /\ s = <<e>> /\ s[1] = e
    BY <2>1, <2>2
  <2>4. \A i \in 1..Len(s) : i = 1
    BY <2>2, <2>3
  <2>5. \A i, j \in 1..Len(s) : ~(i < j)
    BY <2>4
  <2>6. InTurn(s) /\ IsSeq(s)
    BY <2>2, <2>3, <2>5 DEF InTurn, IsSeq
  <2>7. QED BY <2>1, <2>3, <2>4, <2>6
<1>4. QED BY <1>1, <1>2, <1>3

(* What the server sees and changes.                                        *)
LEMMA HandleIs ==
  ASSUME OrderInv, NEW c \in Clients, Handle(c)
  PROVE  \E q, status :
           /\ q = Head(wire[c]) /\ q = wire[c][1] /\ q.n \in Nat
           /\ wire[c] # <<>> /\ IsSeq(wire[c]) /\ IsSeq(back[c])
           /\ status \in Statuses(q)
           /\ wire'[c] = Tail(wire[c]) /\ back'[c] = back[c] \o Replies(q, status)
           /\ hits'[c] = (IF q.multi /\ status = "OK" /\ q.cmd # "NOOP"
                          THEN hits[c] \cup {q.key} ELSE hits[c])
           /\ Elsewhere(c) /\ Histories'
           /\ UNCHANGED <<at, sent, found, drained>>
<1> USE DEF OrderInv, NumberInv, Shape
<1>1. PICK q, status :
        /\ q = Head(wire[c]) /\ status \in Statuses(q)
        /\ wire' = [wire EXCEPT ![c] = Tail(@)]
        /\ back' = [back EXCEPT ![c] = @ \o Replies(q, status)]
        /\ hits' = [hits EXCEPT ![c] = IF q.multi /\ status = "OK" /\ q.cmd # "NOOP"
                                       THEN @ \cup {q.key} ELSE @]
        /\ UNCHANGED <<at, sent, found, drained>>
  BY DEF Handle
<1>2. wire[c] # <<>> /\ IsSeq(wire[c]) /\ IsSeq(back[c])
  BY DEF Handle
<1>3. q = wire[c][1] /\ q.n \in Nat
  BY <1>1, <1>2, TailOf DEF Numbers, Numbered, Fits
<1>4. /\ wire'[c] = Tail(wire[c]) /\ back'[c] = back[c] \o Replies(q, status)
      /\ \A d \in Clients \ {c} : wire'[d] = wire[d] /\ back'[d] = back[d]
  BY <1>1
<1>5. /\ hits'[c] = (IF q.multi /\ status = "OK" /\ q.cmd # "NOOP"
                     THEN hits[c] \cup {q.key} ELSE hits[c])
      /\ DOMAIN hits' = Clients
      /\ \A d \in Clients \ {c} : hits'[d] = hits[d]
  BY <1>1 DEF Histories
<1>6. Elsewhere(c) /\ Histories'
  BY <1>1, <1>4, <1>5 DEF Elsewhere, Histories
<1>7. QED BY <1>1, <1>2, <1>3, <1>4, <1>5, <1>6

(* The oldest request is answered behind the answers of the earlier ones,    *)
(* and before the requests that are left.                                   *)
LEMMA HandleOrdered ==
  ASSUME OrderInv, NumberInv', NEW c \in Clients, Handle(c)
  PROVE  OrderInv'
<1>1. PICK q, status :
        /\ q = Head(wire[c]) /\ q = wire[c][1] /\ q.n \in Nat
        /\ wire[c] # <<>> /\ IsSeq(wire[c]) /\ IsSeq(back[c])
        /\ wire'[c] = Tail(wire[c]) /\ back'[c] = back[c] \o Replies(q, status)
        /\ Elsewhere(c) /\ Histories'
        /\ UNCHANGED <<at, sent, found, drained>>
  <2>1. PICK q, status :
          /\ q = Head(wire[c]) /\ q = wire[c][1] /\ q.n \in Nat
          /\ wire[c] # <<>> /\ IsSeq(wire[c]) /\ IsSeq(back[c])
          /\ status \in Statuses(q)
          /\ wire'[c] = Tail(wire[c]) /\ back'[c] = back[c] \o Replies(q, status)
          /\ hits'[c] = (IF q.multi /\ status = "OK" /\ q.cmd # "NOOP"
                         THEN hits[c] \cup {q.key} ELSE hits[c])
          /\ Elsewhere(c) /\ Histories'
          /\ UNCHANGED <<at, sent, found, drained>>
    BY HandleIs
  <2>2. QED BY <2>1
<1>2. PICK s, t : s = back[c] /\ t = Replies(q, status)
  OBVIOUS
<1>3. Ordered(c) /\ IsSeq(s) /\ Numbered(s, sent[c])
  BY <1>1, <1>2 DEF OrderInv, NumberInv, Numbers
<1>4. /\ IsSeq(t) /\ InTurn(t)
      /\ \A i \in 1..Len(t) : t[i].n = q.n /\ t[i].cmd = q.cmd
  BY <1>1, <1>2, RepliesInTurn
<1>5. Len(wire[c]) \in Nat /\ Len(wire[c]) >= 1
  BY <1>1, TailOf
<1>6. \A i \in 1..Len(s) : s[i].n \in Nat /\ s[i].n < q.n
  <2>1. 1 \in 1..Len(wire[c])
    BY <1>5
  <2>2. \A i \in 1..Len(s) : s[i].n < q.n
    BY <1>1, <1>2, <1>3, <2>1 DEF Ordered, Before
  <2>3. QED BY <1>3, <2>2 DEF Numbered, Fits
<1>7. Before(s, Tail(wire[c])) /\ Ascending(Tail(wire[c]))
      /\ \A k : Single(wire[c], k) => Single(Tail(wire[c]), k)
  BY <1>1, <1>2, <1>3, LaterTail DEF Ordered
<1>8. Before(t, Tail(wire[c]))
  BY <1>1, <1>3, <1>4, FirstBefore DEF Ordered, Before
<1>9. \A k : Single(wire[c], k) => Single(t, k)
  <2>1. 1 \in 1..Len(wire[c])
    BY <1>5
  <2>2. QED BY <1>1, <1>4, <2>1 DEF Single, Listing
<1>10. /\ InTurn(s \o t) /\ Before(s \o t, Tail(wire[c]))
       /\ \A k : Single(s, k) /\ Single(t, k) => Single(s \o t, k)
  BY <1>1, <1>2, <1>3, <1>4, <1>6, <1>7, <1>8, LaterConcat DEF Ordered
<1>11. ~drained'[c]
  BY <1>1, <1>3 DEF Ordered
<1>12. Ordered(c)'
  BY <1>1, <1>2, <1>3, <1>7, <1>9, <1>10, <1>11 DEF Ordered
<1>13. QED BY <1>1, <1>12, OrderStep

(* Nothing is under way at first,                                           *)
LEMMA OrderInit == ProgramInit => OrderInv
<1> SUFFICES ASSUME ProgramInit PROVE OrderInv
  OBVIOUS
<1>1. NumberInv
  BY NumbersInit
<1>2. Histories
  BY DEF ProgramInit, Histories
<1>3. ASSUME NEW c \in Clients PROVE Ordered(c)
  <2>1. wire[c] = <<>> /\ back[c] = <<>>
    BY DEF ProgramInit
  <2>2. /\ Ascending(<<>>) /\ InTurn(<<>>) /\ Before(<<>>, <<>>)
        /\ \A k : Single(<<>>, k)
    BY EmptyIsSeq DEF Ascending, InTurn, Before, Single
  <2>3. QED BY <2>1, <2>2 DEF Ordered
<1>4. QED BY <1>1, <1>2, <1>3 DEF OrderInv

(* and every step keeps the order.                                          *)
LEMMA OrderNext == OrderInv /\ [ProgramNext]_programVars => OrderInv'
<1> SUFFICES ASSUME OrderInv, [ProgramNext]_programVars PROVE OrderInv'
  OBVIOUS
<1>0. NumberInv'
  BY NumbersNext DEF OrderInv
<1>1. CASE UNCHANGED programVars
  BY <1>0, <1>1 DEF programVars, OrderInv, Histories, Ordered
<1>2. ASSUME NEW c \in Clients, NEW a \in Calls[count + 1], count < MaxCalls,
             Call(c, a) \/ CallAndWait(c, a)
      PROVE  OrderInv'
  <2>1. count + 1 \in 1..Len(Calls)
    BY <1>2, CallsAssumption DEF OrderInv, NumberInv, Shape, MaxCalls
  <2>2. a \in Called
    BY <2>1 DEF Called
  <2>3. QED BY <1>0, <1>2, <2>2, CallOrdered
<1>3. ASSUME NEW c \in Clients, Construct(c) \/ MultiGet(c, Keys) \/ RecvFails(c)
      PROVE  OrderInv'
  BY <1>0, <1>3, RestOrdered
<1>4. ASSUME NEW c \in Clients, Ask(c) PROVE OrderInv'
  BY <1>0, <1>4, AskOrdered
<1>5. ASSUME NEW c \in Clients, Recv(c) PROVE OrderInv'
  BY <1>0, <1>5, RecvOrdered
<1>6. ASSUME NEW c \in Clients, Handle(c) PROVE OrderInv'
  BY <1>0, <1>6, HandleOrdered
<1>7. QED BY <1>1, <1>2, <1>3, <1>4, <1>5, <1>6 DEF ProgramNext, Looping

(* When the loop of a program has seen its last answer no request of the     *)
(* connection is unanswered and no answer unread: the response that ends a   *)
(* wait or a multi-get answers the request sent last, the server answers in  *)
(* the order of the requests, and of a listing the last response alone has   *)
(* no key.                                                                  *)
THEOREM ProgramBarrier == ProgramSpec => []Barrier
<1>1. OrderInv => Barrier
  <2>1. SUFFICES ASSUME OrderInv, NEW c \in Clients, drained[c] PROVE Unread(c) = {}
    BY DEF Barrier
  <2>2. wire[c] = <<>> /\ back[c] = <<>>
    BY <2>1 DEF OrderInv, Ordered
  <2>3. QED BY <2>2, EmptyIsSeq DEF Unread
<1>2. QED BY <1>1, OrderInit, OrderNext, PTL DEF ProgramSpec

-----------------------------------------------------------------------------
(* The multi-get.  From its first request until its last answer all that is  *)
(* under way is its own: quiet getk, and the noop that ends it, which alone  *)
(* is numbered last.  What the server has found for it, the program has      *)
(* received, or it is in an answer under way.                               *)
Asked(c, e) ==
  /\ e.cmd \in {"GETKQ", "NOOP"}
  /\ e.cmd = "NOOP" <=> at[c] = "collecting" /\ e.n = sent[c]

KeysIn(s) == {s[i].key : i \in {j \in 1..Len(s) : s[j].cmd # "NOOP"}}

AllAsked(c, s) == \A i \in 1..Len(s) : Asked(c, s[i])

MultiUnderWay(c) ==
  /\ AllAsked(c, wire[c]) /\ AllAsked(c, back[c])
  /\ \A i \in 1..Len(wire[c]) : wire[c][i].multi = TRUE
  /\ hits[c] = found[c] \cup KeysIn(back[c])

NoMulti(c) ==
  /\ \A i \in 1..Len(wire[c]) : wire[c][i].multi = FALSE
  /\ hits[c] = found[c]

Multi(c) ==
  /\ at[c] \in {"asking", "collecting"} => MultiUnderWay(c)
  /\ at[c] \in {"new", "free", "waiting", "listing"} => NoMulti(c)

MultiInv == OrderInv /\ \A c \in Clients : Multi(c)

(* The elements of a tail and of a concatenation, and their keys.           *)
LEMMA InTail ==
  ASSUME NEW s, IsSeq(s), s # <<>>
  PROVE  /\ \A i \in 1..Len(Tail(s)) : \E j \in 1..Len(s) : Tail(s)[i] = s[j]
         /\ \E j \in 1..Len(s) : Head(s) = s[j]
         /\ \A j \in 1..Len(s) : s[j] = Head(s) \/ \E i \in 1..Len(Tail(s)) : s[j] = Tail(s)[i]
<1>1. /\ Len(s) \in Nat /\ Len(s) >= 1 /\ Head(s) = s[1] /\ Len(Tail(s)) = Len(s) - 1
      /\ \A i \in 1..Len(Tail(s)) : Tail(s)[i] = s[i + 1]
  BY TailOf
<1>2. \A i \in 1..Len(Tail(s)) : i + 1 \in 1..Len(s)
  BY <1>1
<1>3. ASSUME NEW j \in 1..Len(s), j # 1
      PROVE  \E i \in 1..Len(Tail(s)) : s[j] = Tail(s)[i]
  <2>1. PICK i \in 1..Len(Tail(s)) : j = i + 1
    <3>1. j - 1 \in 1..Len(Tail(s)) /\ j = (j - 1) + 1
      BY <1>1, <1>3
    <3>2. QED BY <3>1
  <2>2. QED BY <1>1, <2>1
<1>4. 1 \in 1..Len(s)
  BY <1>1
<1>5. \A i \in 1..Len(Tail(s)) : \E j \in 1..Len(s) : Tail(s)[i] = s[j]
  BY <1>1, <1>2
<1>6. \A j \in 1..Len(s) : s[j] = Head(s) \/ \E i \in 1..Len(Tail(s)) : s[j] = Tail(s)[i]
  BY <1>1, <1>3
<1>7. QED BY <1>1, <1>4, <1>5, <1>6

(* The elements of two joined sequences are those of the two.               *)
LEMMA InConcat ==
  ASSUME NEW s, NEW t, IsSeq(s), IsSeq(t)
  PROVE  /\ \A i \in 1..Len(s \o t) :
              \/ \E j \in 1..Len(s) : (s \o t)[i] = s[j]
              \/ \E j \in 1..Len(t) : (s \o t)[i] = t[j]
         /\ \A j \in 1..Len(s) : \E i \in 1..Len(s \o t) : (s \o t)[i] = s[j]
         /\ \A j \in 1..Len(t) : \E i \in 1..Len(s \o t) : (s \o t)[i] = t[j]
<1>1. /\ Len(s) \in Nat /\ Len(t) \in Nat /\ Len(s \o t) = Len(s) + Len(t)
      /\ \A i \in 1..Len(s) : (s \o t)[i] = s[i]
      /\ \A i \in (Len(s) + 1)..(Len(s) + Len(t)) : (s \o t)[i] = t[i - Len(s)]
  BY ConcatOf
<1>2. \A i \in (Len(s) + 1)..(Len(s) + Len(t)) : i - Len(s) \in 1..Len(t)
  BY <1>1
<1>3. \A i \in 1..(Len(s) + Len(t)) : i \in 1..Len(s) \/ i \in (Len(s) + 1)..(Len(s) + Len(t))
  BY <1>1
<1>4. \A j \in 1..Len(s) : j \in 1..(Len(s) + Len(t))
  BY <1>1
<1>5. \A i \in 1..Len(s \o t) :
        \/ \E j \in 1..Len(s) : (s \o t)[i] = s[j]
        \/ \E j \in 1..Len(t) : (s \o t)[i] = t[j]
  BY <1>1, <1>2, <1>3
<1>6. ASSUME NEW j \in 1..Len(t)
      PROVE  \E i \in 1..Len(s \o t) : (s \o t)[i] = t[j]
  <2>1. PICK i \in (Len(s) + 1)..(Len(s) + Len(t)) : i - Len(s) = j
    <3>1. Len(s) + j \in (Len(s) + 1)..(Len(s) + Len(t)) /\ (Len(s) + j) - Len(s) = j
      BY <1>1
    <3>2. QED BY <3>1
  <2>2. i \in 1..(Len(s) + Len(t))
    BY <1>1
  <2>3. QED BY <1>1, <2>1, <2>2
<1>7. QED BY <1>1, <1>4, <1>5, <1>6

(* Append adds one element.                                                 *)
LEMMA InAppend ==
  ASSUME NEW s, IsSeq(s), NEW e
  PROVE  \A i \in 1..Len(Append(s, e)) :
           Append(s, e)[i] = e \/ \E j \in 1..Len(s) : Append(s, e)[i] = s[j]
<1>1. /\ Len(s) \in Nat /\ Len(Append(s, e)) = Len(s) + 1
      /\ \A i \in 1..Len(s) : Append(s, e)[i] = s[i]
      /\ Append(s, e)[Len(s) + 1] = e
  BY AppendOf
<1>2. \A i \in 1..(Len(s) + 1) : i \in 1..Len(s) \/ i = Len(s) + 1
  BY <1>1
<1>3. QED BY <1>1, <1>2

(* The keys of a queue, element by element.                                 *)
LEMMA KeysIs ==
  ASSUME NEW s, NEW k
  PROVE  k \in KeysIn(s) <=> \E i \in 1..Len(s) : s[i].cmd # "NOOP" /\ s[i].key = k
BY DEF KeysIn

(* Receiving takes the key of the first element away,                       *)
LEMMA KeysTail ==
  ASSUME NEW s, IsSeq(s), s # <<>>
  PROVE  KeysIn(s) = KeysIn(Tail(s)) \cup
           (IF Head(s).cmd # "NOOP" THEN {Head(s).key} ELSE {})
<1>1. ASSUME NEW k
      PROVE  k \in KeysIn(s) <=> k \in KeysIn(Tail(s)) \/ (Head(s).cmd # "NOOP" /\ k = Head(s).key)
  <2>1. PICK h, t : h = Head(s) /\ t = Tail(s)
    OBVIOUS
  <2>2. /\ \A i \in 1..Len(t) : \E j \in 1..Len(s) : t[i] = s[j]
        /\ \E j \in 1..Len(s) : h = s[j]
        /\ \A j \in 1..Len(s) : s[j] = h \/ \E i \in 1..Len(t) : s[j] = t[i]
    BY <2>1, InTail
  <2>3. k \in KeysIn(s) <=> \E i \in 1..Len(s) : s[i].cmd # "NOOP" /\ s[i].key = k
    BY KeysIs
  <2>4. k \in KeysIn(t) <=> \E i \in 1..Len(t) : t[i].cmd # "NOOP" /\ t[i].key = k
    BY KeysIs
  <2>5. k \in KeysIn(s) <=> k \in KeysIn(t) \/ (h.cmd # "NOOP" /\ k = h.key)
    BY <2>2, <2>3, <2>4, Zenon
  <2>6. QED BY <2>1, <2>5
<1>2. QED BY <1>1

(* answering adds the keys of the answers,                                  *)
LEMMA KeysConcat ==
  ASSUME NEW s, NEW t, IsSeq(s), IsSeq(t)
  PROVE  KeysIn(s \o t) = KeysIn(s) \cup KeysIn(t)
<1>1. ASSUME NEW k
      PROVE  k \in KeysIn(s \o t) <=> k \in KeysIn(s) \/ k \in KeysIn(t)
  <2>1. PICK u : u = s \o t
    OBVIOUS
  <2>2. /\ \A i \in 1..Len(u) : \/ \E j \in 1..Len(s) : u[i] = s[j]
                                \/ \E j \in 1..Len(t) : u[i] = t[j]
        /\ \A j \in 1..Len(s) : \E i \in 1..Len(u) : u[i] = s[j]
        /\ \A j \in 1..Len(t) : \E i \in 1..Len(u) : u[i] = t[j]
    BY <2>1, InConcat
  <2>3. k \in KeysIn(u) <=> k \in KeysIn(s) \/ k \in KeysIn(t)
    <3>1. k \in KeysIn(u) <=> \E i \in 1..Len(u) : u[i].cmd # "NOOP" /\ u[i].key = k
      BY KeysIs
    <3>2. k \in KeysIn(s) <=> \E i \in 1..Len(s) : s[i].cmd # "NOOP" /\ s[i].key = k
      BY KeysIs
    <3>3. k \in KeysIn(t) <=> \E i \in 1..Len(t) : t[i].cmd # "NOOP" /\ t[i].key = k
      BY KeysIs
    <3>4. k \in KeysIn(u) => k \in KeysIn(s) \/ k \in KeysIn(t)
      BY <2>2, <3>1, <3>2, <3>3
    <3>5. k \in KeysIn(s) => k \in KeysIn(u)
      BY <2>2, <3>1, <3>2, ZenonT(60)
    <3>6. k \in KeysIn(t) => k \in KeysIn(u)
      BY <2>2, <3>1, <3>3, ZenonT(60)
    <3>7. QED BY <3>4, <3>5, <3>6
  <2>4. QED BY <2>1, <2>3
<1>2. QED BY <1>1

(* and an empty queue has none.                                             *)
LEMMA KeysNone == KeysIn(<<>>) = {}
BY EmptyIsSeq DEF KeysIn

(* A step of one program disturbs no other's multi-get.                     *)
LEMMA MultiStep ==
  ASSUME MultiInv, OrderInv', NEW c \in Clients, Elsewhere(c), Multi(c)'
  PROVE  MultiInv'
<1>1. ASSUME NEW d \in Clients, d # c PROVE Multi(d)'
  BY <1>1 DEF MultiInv, Multi, MultiUnderWay, NoMulti, AllAsked, Asked, Elsewhere
<1>2. QED BY <1>1 DEF MultiInv

(* A call outside a multi-get: its request is none of one.                  *)
LEMMA CallMulti ==
  ASSUME MultiInv, OrderInv', NEW c \in Clients, NEW a \in Called,
         Call(c, a) \/ CallAndWait(c, a)
  PROVE  MultiInv'
<1>1. PICK next : /\ Issue(c, a, next) /\ next \in {"free", "waiting", "listing"}
                  /\ at[c] \in {"new", "free"}
                  /\ UNCHANGED <<back, found, hits>>
                  /\ drained' = [drained EXCEPT ![c] = FALSE]
  <2>1. CASE Call(c, a)
    BY <2>1 DEF Call
  <2>2. CASE CallAndWait(c, a)
    <3>1. PICK next : next = (IF a.m \in Listings THEN "listing" ELSE "waiting")
      OBVIOUS
    <3>2. QED BY <2>2, <3>1 DEF CallAndWait
  <2>3. QED BY <2>1, <2>2
<1>2. Elsewhere(c)
  BY <1>1, IssueIs DEF Elsewhere, MultiInv, OrderInv, Histories
<1>3. IsSeq(wire[c]) /\ NoMulti(c)
  BY <1>1 DEF MultiInv, Multi, OrderInv, NumberInv, Shape
<1>4. /\ \A i \in 1..Len(wire'[c]) : wire'[c][i].multi = FALSE
      /\ at'[c] \in {"free", "waiting", "listing", "new", "over"}
  <2>1. CASE Made(c, a).out = "send"
    <3>1. PICK q : q.multi = (at[c] = "asking") /\ wire'[c] = Append(wire[c], q) /\ at'[c] = next
      BY <1>1, <2>1, IssueIs DEF MultiInv, OrderInv
    <3>2. q.multi = FALSE
      BY <1>1, <3>1
    <3>3. PICK t : t = Append(wire[c], q)
      OBVIOUS
    <3>4. \A i \in 1..Len(t) : t[i] = q \/ \E j \in 1..Len(wire[c]) : t[i] = wire[c][j]
      BY <1>3, <3>3, InAppend
    <3>5. \A i \in 1..Len(t) : t[i].multi = FALSE
      BY <1>3, <3>2, <3>4 DEF NoMulti
    <3>6. QED BY <1>1, <3>1, <3>3, <3>5
  <2>2. CASE Made(c, a).out # "send"
    BY <1>1, <1>3, <2>2, IssueIs DEF NoMulti, MultiInv, OrderInv
  <2>3. QED BY <2>1, <2>2
<1>5. Multi(c)'
  BY <1>1, <1>3, <1>4 DEF Multi, NoMulti
<1>6. QED BY <1>2, <1>5, MultiStep

(* A request of a multi-get.  The noop takes the number that none has yet.   *)
LEMMA AskMulti ==
  ASSUME MultiInv, OrderInv', NEW c \in Clients, Ask(c)
  PROVE  MultiInv'
<1>1. PICK a, next :
        /\ a \in Called
        /\ Issue(c, a, next) /\ a.m \in {"getk", "noop"}
        /\ a.m = "getk" => a.quiet = TRUE /\ next = "asking"
        /\ a.m = "noop" => next = "collecting"
  BY AskIs DEF MultiInv, OrderInv
<1>2. /\ at[c] = "asking" /\ UNCHANGED <<back, found, hits>>
      /\ drained' = [drained EXCEPT ![c] = FALSE]
  BY DEF Ask
<1>3. Elsewhere(c)
  BY <1>1, <1>2, IssueIs DEF Elsewhere, MultiInv, OrderInv, Histories
<1>4. /\ IsSeq(wire[c]) /\ MultiUnderWay(c) /\ sent[c] \in Nat
      /\ Numbered(wire[c], sent[c]) /\ Numbered(back[c], sent[c])
  BY <1>2 DEF MultiInv, Multi, OrderInv, NumberInv, Shape, Numbers
<1>5. CASE Made(c, a).out = "send"
  <2>1. PICK q : /\ q.n = sent[c] + 1 /\ q.cmd = Made(c, a).cmd /\ q.multi = (at[c] = "asking")
                 /\ wire'[c] = Append(wire[c], q) /\ sent'[c] = sent[c] + 1 /\ at'[c] = next
    BY <1>1, <1>5, IssueIs DEF MultiInv, OrderInv
  <2>2. a.m = "getk" => q.cmd = "GETKQ"
    BY <1>1, <1>2, <1>5, <2>1, AskedMade
  <2>3. a.m = "noop" => q.cmd = "NOOP"
    BY <1>1, <1>2, <1>5, <2>1, AskedMade
  <2>4. Asked(c, q)' /\ q.multi = TRUE
    <3>1. CASE a.m = "getk"
      BY <1>1, <1>2, <2>1, <2>2, <3>1 DEF Asked
    <3>2. CASE a.m = "noop"
      BY <1>1, <1>2, <2>1, <2>3, <3>2 DEF Asked
    <3>3. QED BY <1>1, <3>1, <3>2
  <2>5. ASSUME NEW e, Asked(c, e), Fits(e, sent[c]) PROVE Asked(c, e)'
    <3>1. e.n # sent'[c]
      BY <1>4, <2>1, <2>5 DEF Fits
    <3>2. e.cmd = "GETKQ"
      BY <1>2, <2>5 DEF Asked
    <3>3. QED BY <3>1, <3>2 DEF Asked
  <2>6. AllAsked(c, back[c])'
    BY <1>2, <1>4, <2>5 DEF AllAsked, MultiUnderWay, Numbered
  <2>7. \A j \in 1..Len(wire[c]) :
          (\E e : e = wire[c][j] /\ Asked(c, e)') /\ wire[c][j].multi = TRUE
    <3>1. ASSUME NEW j \in 1..Len(wire[c])
          PROVE  (\E e : e = wire[c][j] /\ Asked(c, e)') /\ wire[c][j].multi = TRUE
      <4>1. PICK e : e = wire[c][j]
        OBVIOUS
      <4>2. Asked(c, e) /\ Fits(e, sent[c]) /\ e.multi = TRUE
        BY <1>4, <4>1 DEF MultiUnderWay, AllAsked, Numbered
      <4>3. QED BY <2>5, <4>1, <4>2
    <3>2. QED BY <3>1
  <2>8. PICK t : t = Append(wire[c], q)
    OBVIOUS
  <2>9. \A i \in 1..Len(t) : t[i] = q \/ \E j \in 1..Len(wire[c]) : t[i] = wire[c][j]
    BY <1>4, <2>8, InAppend
  <2>10. AllAsked(c, wire[c])' /\ \A i \in 1..Len(wire'[c]) : wire'[c][i].multi = TRUE
    <3>1. \A i \in 1..Len(t) : (\E e : e = t[i] /\ Asked(c, e)') /\ t[i].multi = TRUE
      BY <2>4, <2>7, <2>9
    <3>2. \A i \in 1..Len(wire'[c]) :
            (\E e : e = wire'[c][i] /\ Asked(c, e)') /\ wire'[c][i].multi = TRUE
      BY <2>1, <2>8, <3>1
    <3>3. QED BY <3>2 DEF AllAsked
  <2>11. MultiUnderWay(c)'
    BY <1>2, <1>4, <2>6, <2>10 DEF MultiUnderWay
  <2>12. Multi(c)'
    BY <1>1, <2>1, <2>11 DEF Multi
  <2>13. QED BY <1>3, <2>12, MultiStep
<1>6. CASE Made(c, a).out # "send"
  <2>1. wire'[c] = wire[c] /\ sent'[c] = sent[c] /\ at'[c] \in {at[c], "over"}
    BY <1>1, <1>6, IssueIs DEF MultiInv, OrderInv
  <2>2. CASE at'[c] = "asking"
    <3>1. MultiUnderWay(c)'
      BY <1>2, <1>4, <2>1, <2>2 DEF MultiUnderWay, AllAsked, Asked
    <3>2. QED BY <1>3, <2>2, <3>1, MultiStep DEF Multi
  <2>3. CASE at'[c] = "over"
    BY <1>3, <2>3, MultiStep DEF Multi
  <2>4. QED BY <1>2, <2>1, <2>2, <2>3
<1>7. QED BY <1>5, <1>6

(* A multi-get begins with nothing under way.                               *)
LEMMA RestMulti ==
  ASSUME MultiInv, OrderInv', NEW c \in Clients,
         Construct(c) \/ MultiGet(c, Keys) \/ RecvFails(c)
  PROVE  MultiInv'
<1> USE DEF MultiInv, OrderInv, NumberInv, Shape
<1>1. CASE Construct(c)
  <2>1. Elsewhere(c) /\ at[c] = "new" /\ at'[c] = "free"
        /\ UNCHANGED <<wire, found, hits>>
    BY <1>1 DEF Construct, Elsewhere
  <2>2. Multi(c)'
    BY <2>1 DEF Multi, NoMulti
  <2>3. QED BY <2>1, <2>2, MultiStep
<1>2. CASE MultiGet(c, Keys)
  <2>1. /\ at'[c] = "asking" /\ drained[c] /\ UNCHANGED <<wire, back, sent, drained>>
        /\ \A d \in Clients \ {c} : at'[d] = at[d]
    BY <1>2 DEF MultiGet
  <2>2. /\ found'[c] = {} /\ hits'[c] = {}
        /\ \A d \in Clients \ {c} : found'[d] = found[d] /\ hits'[d] = hits[d]
    BY <1>2 DEF MultiGet, Histories
  <2>3. wire'[c] = <<>> /\ back'[c] = <<>>
    BY <2>1 DEF Ordered
  <2>4. MultiUnderWay(c)'
    BY <2>2, <2>3, EmptyIsSeq, KeysNone DEF MultiUnderWay, AllAsked
  <2>5. Elsewhere(c) /\ Multi(c)'
    BY <2>1, <2>2, <2>4 DEF Elsewhere, Multi
  <2>6. QED BY <2>5, MultiStep
<1>3. CASE RecvFails(c)
  <2>1. Elsewhere(c) /\ at'[c] = "over"
    BY <1>3 DEF RecvFails, Elsewhere
  <2>2. QED BY <2>1, MultiStep DEF Multi
<1>4. QED BY <1>1, <1>2, <1>3

(* An answer that a multi-get receives and that does not end it names a key  *)
(* that the server found.                                                   *)
LEMMA RecvMulti ==
  ASSUME MultiInv, OrderInv', NEW c \in Clients, Recv(c)
  PROVE  MultiInv'
<1>1. PICK e, mine, end :
        /\ e = Head(back[c]) /\ e.n \in Nat /\ e.n <= sent[c]
        /\ back[c] # <<>> /\ IsSeq(back[c])
        /\ mine \in BOOLEAN /\ (mine <=> e.n = sent[c])
        /\ end \in BOOLEAN /\ (end <=> mine /\ (at[c] = "listing" => e.key = <<>>))
        /\ at[c] \in {"waiting", "collecting", "listing"}
        /\ at'[c] = (IF end THEN "free" ELSE at[c]) /\ drained'[c] = end
        /\ found'[c] = IF at[c] = "collecting" /\ ~mine THEN found[c] \cup {e.key} ELSE found[c]
        /\ back'[c] = Tail(back[c]) /\ Elsewhere(c)
        /\ UNCHANGED <<sent, wire, hits>>
  <2>1. OrderInv
    BY DEF MultiInv
  <2>2. PICK e, mine, end :
          /\ e = Head(back[c]) /\ e.n \in Nat /\ e.n <= sent[c]
          /\ back[c] # <<>> /\ IsSeq(back[c])
          /\ mine \in BOOLEAN /\ (mine <=> e.n = sent[c])
          /\ end \in BOOLEAN /\ (end <=> mine /\ (at[c] = "listing" => e.key = <<>>))
          /\ at[c] \in {"waiting", "collecting", "listing"}
          /\ at'[c] = (IF end THEN "free" ELSE at[c]) /\ drained'[c] = end
          /\ found'[c] = IF at[c] = "collecting" /\ ~mine THEN found[c] \cup {e.key} ELSE found[c]
          /\ back'[c] = Tail(back[c]) /\ Elsewhere(c)
          /\ Histories'
          /\ UNCHANGED <<sent, wire, hits>>
    BY <2>1, RecvIs
  <2>3. QED BY <2>2
<1>2. Multi(c)
  BY DEF MultiInv
<1>3. CASE at[c] # "collecting"
  <2>1. found'[c] = found[c] /\ at'[c] \in {"free", "waiting", "listing"}
    BY <1>1, <1>3
  <2>2. NoMulti(c)
    BY <1>1, <1>2, <1>3 DEF Multi
  <2>3. NoMulti(c)'
    BY <1>1, <2>1, <2>2 DEF NoMulti
  <2>4. Multi(c)'
    BY <2>1, <2>3 DEF Multi
  <2>5. QED BY <1>1, <2>4, MultiStep
<1>4. CASE at[c] = "collecting"
  <2>1. MultiUnderWay(c)
    BY <1>2, <1>4 DEF Multi
  <2>2. Asked(c, e)
    <3>1. PICK s : s = back[c]
      OBVIOUS
    <3>2. \E j \in 1..Len(s) : Head(s) = s[j]
      BY <1>1, <3>1, InTail
    <3>3. QED BY <1>1, <2>1, <3>1, <3>2 DEF MultiUnderWay, AllAsked
  <2>3. (e.cmd = "NOOP") <=> mine
    BY <1>1, <1>4, <2>2 DEF Asked
  <2>4. KeysIn(back[c]) = KeysIn(Tail(back[c])) \cup (IF e.cmd # "NOOP" THEN {e.key} ELSE {})
    BY <1>1, KeysTail
  <2>5. hits[c] = found'[c] \cup KeysIn(Tail(back[c]))
    BY <1>1, <1>4, <2>1, <2>3, <2>4 DEF MultiUnderWay
  <2>6. CASE mine
    <3>1. at'[c] = "free" /\ drained'[c]
      BY <1>1, <1>4, <2>6
    <3>2. wire'[c] = <<>> /\ Tail(back[c]) = <<>>
      BY <1>1, <3>1 DEF OrderInv, Ordered
    <3>3. KeysIn(Tail(back[c])) = {}
      BY <3>2, KeysNone
    <3>4. NoMulti(c)'
      BY <1>1, <2>5, <3>2, <3>3, EmptyIsSeq DEF NoMulti
    <3>5. Multi(c)'
      BY <3>1, <3>4 DEF Multi
    <3>6. QED BY <1>1, <3>5, MultiStep
  <2>7. CASE ~mine
    <3>1. at'[c] = "collecting" /\ at[c] = "collecting" /\ sent'[c] = sent[c]
      BY <1>1, <1>4, <2>7
    <3>2. AllAsked(c, Tail(back[c]))
      <4>1. PICK s, t : s = back[c] /\ t = Tail(s)
        OBVIOUS
      <4>2. \A i \in 1..Len(t) : \E j \in 1..Len(s) : t[i] = s[j]
        BY <1>1, <4>1, InTail
      <4>3. \A j \in 1..Len(s) : Asked(c, s[j])
        BY <2>1, <4>1 DEF MultiUnderWay, AllAsked
      <4>4. \A i \in 1..Len(t) : Asked(c, t[i])
        BY <4>2, <4>3
      <4>5. QED BY <4>1, <4>4 DEF AllAsked
    <3>3. MultiUnderWay(c)'
      BY <1>1, <2>1, <2>5, <3>1, <3>2 DEF MultiUnderWay, AllAsked, Asked
    <3>4. Multi(c)'
      BY <3>1, <3>3 DEF Multi
    <3>5. QED BY <1>1, <3>4, MultiStep
  <2>8. QED BY <1>1, <2>6, <2>7
<1>5. QED BY <1>3, <1>4

(* The server answers a quiet getk exactly when it finds the key, with it.   *)
LEMMA AnswersAsked ==
  ASSUME NEW c, NEW q, Asked(c, q), q.multi = TRUE, NEW status \in Statuses(q), q.n \in Nat
  PROVE  /\ AllAsked(c, Replies(q, status))
         /\ KeysIn(Replies(q, status))
              = IF q.multi /\ status = "OK" /\ q.cmd # "NOOP" THEN {q.key} ELSE {}
<1>1. PICK t : t = Replies(q, status)
  OBVIOUS
<1>2. IsSeq(t) /\ \A i \in 1..Len(t) : t[i].n = q.n /\ t[i].cmd = q.cmd
  BY <1>1, RepliesInTurn
<1>3. AllAsked(c, t)
  BY <1>2 DEF AllAsked, Asked
<1>4. ~Listing(q)
  BY DEF Asked, Listing
<1>5. CASE q.cmd = "NOOP"
  <2>1. KeysIn(t) = {}
    BY <1>2, <1>5 DEF KeysIn
  <2>2. QED BY <1>1, <1>3, <1>5, <2>1
<1>6. CASE q.cmd = "GETKQ"
  <2>1. status \in {"OK", "NOTFOUND"}
    BY <1>6 DEF Statuses, Gets
  <2>2. Silent(q, status) <=> status = "NOTFOUND"
    BY <1>6 DEF Silent, Quiets, Gets
  <2>3. CASE status = "NOTFOUND"
    <3>1. t = <<>>
      BY <1>1, <2>2, <2>3, RepliesAre
    <3>2. QED BY <1>1, <1>3, <2>3, <3>1, KeysNone
  <2>4. CASE status = "OK"
    <3>1. PICK e : t = <<e>> /\ e.cmd = q.cmd /\ e.key = q.key
      BY <1>1, <1>4, <1>6, <2>2, <2>4, RepliesAre DEF GetKs
    <3>2. Len(<<e>>) = 1 /\ <<e>>[1] = e
      OBVIOUS
    <3>3. \A k : k \in KeysIn(t) <=> k = q.key
      <4>1. \A k : k \in KeysIn(t) <=> \E i \in 1..Len(t) : t[i].cmd # "NOOP" /\ t[i].key = k
        BY KeysIs
      <4>2. QED BY <1>6, <3>1, <3>2, <4>1
    <3>4. QED BY <1>1, <1>3, <1>6, <2>4, <3>3
  <2>5. QED BY <2>1, <2>3, <2>4
<1>7. QED BY <1>5, <1>6 DEF Asked

(* The server answers a quiet get exactly when it has the object, so a key  *)
(* moves from under way to found or drops out of both.                      *)
LEMMA HandleMulti ==
  ASSUME MultiInv, OrderInv', NEW c \in Clients, Handle(c)
  PROVE  MultiInv'
<1>0. OrderInv
  BY DEF MultiInv
<1>1. PICK q, status :
        /\ q = Head(wire[c]) /\ q = wire[c][1] /\ q.n \in Nat
        /\ wire[c] # <<>> /\ IsSeq(wire[c]) /\ IsSeq(back[c])
        /\ status \in Statuses(q)
        /\ wire'[c] = Tail(wire[c]) /\ back'[c] = back[c] \o Replies(q, status)
        /\ hits'[c] = (IF q.multi /\ status = "OK" /\ q.cmd # "NOOP"
                       THEN hits[c] \cup {q.key} ELSE hits[c])
        /\ Elsewhere(c) /\ Histories'
        /\ UNCHANGED <<at, sent, found, drained>>
  BY <1>0, HandleIs
<1>2. PICK s, t : s = back[c] /\ t = Replies(q, status)
  OBVIOUS
<1>3. PICK u, v : u = wire[c] /\ v = Tail(u)
  OBVIOUS
<1>4. \A i \in 1..Len(v) : \E j \in 1..Len(u) : v[i] = u[j]
  BY <1>1, <1>3, InTail
<1>5. \E j \in 1..Len(u) : q = u[j]
  BY <1>1, <1>3, InTail
<1>6. CASE at[c] \in {"asking", "collecting"}
  <2>1. MultiUnderWay(c)
    BY <1>6 DEF MultiInv, Multi
  <2>2. Asked(c, q) /\ q.multi = TRUE
    BY <1>3, <1>5, <2>1 DEF MultiUnderWay, AllAsked
  <2>3. /\ AllAsked(c, t) /\ IsSeq(t)
        /\ KeysIn(t) = IF q.multi /\ status = "OK" /\ q.cmd # "NOOP" THEN {q.key} ELSE {}
    BY <1>1, <1>2, <2>2, AnswersAsked, RepliesInTurn
  <2>4. hits'[c] = found[c] \cup KeysIn(s \o t)
    <3>1. KeysIn(s \o t) = KeysIn(s) \cup KeysIn(t)
      BY <1>1, <1>2, <2>3, KeysConcat
    <3>2. QED BY <1>1, <1>2, <2>1, <2>3, <3>1 DEF MultiUnderWay
  <2>5. AllAsked(c, s \o t)
    <3>1. PICK w : w = s \o t
      OBVIOUS
    <3>2. \A i \in 1..Len(w) : \/ \E j \in 1..Len(s) : w[i] = s[j]
                               \/ \E j \in 1..Len(t) : w[i] = t[j]
      <4>1. IsSeq(s) /\ IsSeq(t)
        BY <1>1, <1>2, <2>3
      <4>2. QED BY <3>1, <4>1, InConcat
    <3>3. AllAsked(c, s)
      BY <1>2, <2>1 DEF MultiUnderWay
    <3>4. AllAsked(c, w)
      BY <2>3, <3>2, <3>3 DEF AllAsked
    <3>5. QED BY <3>1, <3>4
  <2>6. AllAsked(c, v) /\ \A i \in 1..Len(v) : v[i].multi = TRUE
    BY <1>3, <1>4, <2>1 DEF MultiUnderWay, AllAsked
  <2>7. MultiUnderWay(c)'
    <3>1. PICK w : w = s \o t
      OBVIOUS
    <3>2. back'[c] = w /\ wire'[c] = v /\ hits'[c] = found'[c] \cup KeysIn(w)
      BY <1>1, <1>2, <1>3, <2>4, <3>1
    <3>3. AllAsked(c, w) /\ AllAsked(c, v)
      BY <2>5, <2>6, <3>1
    <3>4. AllAsked(c, w)' /\ AllAsked(c, v)'
      BY <1>1, <3>3 DEF AllAsked, Asked
    <3>5. AllAsked(c, back[c])' /\ AllAsked(c, wire[c])'
      BY <3>2, <3>4
    <3>6. QED BY <2>6, <3>2, <3>5 DEF MultiUnderWay
  <2>8. Multi(c)'
    BY <1>1, <1>6, <2>7 DEF Multi
  <2>9. QED BY <1>1, <2>8, MultiStep
<1>7. CASE at[c] \in {"new", "free", "waiting", "listing"}
  <2>1. NoMulti(c)
    BY <1>7 DEF MultiInv, Multi
  <2>2. q.multi = FALSE /\ \A i \in 1..Len(v) : v[i].multi = FALSE
    BY <1>3, <1>4, <1>5, <2>1 DEF NoMulti
  <2>3. NoMulti(c)'
    BY <1>1, <1>3, <2>1, <2>2 DEF NoMulti
  <2>4. Multi(c)'
    BY <1>1, <1>7, <2>3 DEF Multi
  <2>5. QED BY <1>1, <2>4, MultiStep
<1>8. CASE at[c] \notin {"asking", "collecting", "new", "free", "waiting", "listing"}
  <2>1. Multi(c)'
    BY <1>1, <1>8 DEF Multi
  <2>2. QED BY <1>1, <2>1, MultiStep
<1>9. QED BY <1>6, <1>7, <1>8

(* No multi-get runs at first,                                              *)
LEMMA MultiInit == ProgramInit => MultiInv
<1> SUFFICES ASSUME ProgramInit PROVE MultiInv
  OBVIOUS
<1>1. OrderInv
  BY OrderInit
<1>2. ASSUME NEW c \in Clients PROVE Multi(c)
  BY EmptyIsSeq DEF ProgramInit, Multi, NoMulti
<1>3. QED BY <1>1, <1>2 DEF MultiInv

(* and every step keeps what is found and what is under way together.       *)
LEMMA MultiNext == MultiInv /\ [ProgramNext]_programVars => MultiInv'
<1> SUFFICES ASSUME MultiInv, [ProgramNext]_programVars PROVE MultiInv'
  OBVIOUS
<1>0. OrderInv'
  BY OrderNext DEF MultiInv
<1>1. CASE UNCHANGED programVars
  BY <1>0, <1>1 DEF programVars, MultiInv, Multi, MultiUnderWay, NoMulti, AllAsked, Asked
<1>2. ASSUME NEW c \in Clients, NEW a \in Calls[count + 1], count < MaxCalls,
             Call(c, a) \/ CallAndWait(c, a)
      PROVE  MultiInv'
  <2>1. count + 1 \in 1..Len(Calls)
    BY <1>2, CallsAssumption DEF MultiInv, OrderInv, NumberInv, Shape, MaxCalls
  <2>2. a \in Called
    BY <2>1 DEF Called
  <2>3. QED BY <1>0, <1>2, <2>2, CallMulti
<1>3. ASSUME NEW c \in Clients, Construct(c) \/ MultiGet(c, Keys) \/ RecvFails(c)
      PROVE  MultiInv'
  BY <1>0, <1>3, RestMulti
<1>4. ASSUME NEW c \in Clients, Ask(c) PROVE MultiInv'
  BY <1>0, <1>4, AskMulti
<1>5. ASSUME NEW c \in Clients, Recv(c) PROVE MultiInv'
  BY <1>0, <1>5, RecvMulti
<1>6. ASSUME NEW c \in Clients, Handle(c) PROVE MultiInv'
  BY <1>0, <1>6, HandleMulti
<1>7. QED BY <1>1, <1>2, <1>3, <1>4, <1>5, <1>6 DEF ProgramNext, Looping

(* The multi-get of USAGE.md, quiet getk for each key and a noop, ends with  *)
(* the keys that the server found and no others: it starts on a connection   *)
(* with nothing under way, the noop is answered last, and a quiet getk is    *)
(* answered when its key is found, with the key.                            *)
THEOREM ProgramMultiGet == ProgramSpec => []MultiGetExact
<1>1. MultiInv => MultiGetExact
  BY DEF MultiInv, Multi, NoMulti, MultiGetExact
<1>2. QED BY <1>1, MultiInit, MultiNext, PTL DEF ProgramSpec

=============================================================================
