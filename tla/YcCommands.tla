---------------------------- MODULE YcCommands ------------------------------
(* The commands of the tool yc (yc.c): what each makes of its arguments,     *)
(* either an exit without a request or a request and the way it is received. *)
(*                                                                         *)
(* i.args are the arguments after the command: a key is a sequence, a file  *)
(* what it contains or NULL when it cannot be read, a number an integer     *)
(* (strtoull).  c is the connection.                                        *)
EXTENDS Commands, ServerCommands

CONSTANT NULL

(* exit: the command ends at once with this code; otherwise -1.             *)
Stop(code) == [exit |-> code, request |-> BadArgument, noop |-> FALSE,
               until |-> "none", prints |-> "nothing", prompts |-> FALSE]

(* CHECK_ERROR: 2 when the library refuses the request.                     *)
(* noop: one follows a quiet request; until: what ends the receive loop.    *)
Sends(request, noop, until, prints, prompts) ==
  IF request.out # "send" THEN Stop(2)
  ELSE [exit |-> -1, request |-> request, noop |-> noop, until |-> until,
        prints |-> prints, prompts |-> prompts]

(* Mutant: a quiet request is not followed by a noop.                       *)
AwaitsAlone(i, request, prints) == Sends(request, FALSE, "serial", prints, FALSE)

(* Nearly every command: wait for the serial of the last request.           *)
Awaits(i, request, prints) == Sends(request, i.quiet, "serial", prints, FALSE)

Prompts(i, request, prints) == Sends(request, i.quiet, "serial", prints, TRUE)

Count(i, counts, does) == IF Len(i.args) \in counts THEN does ELSE Stop(1)

Arg(i, n, default) == IF Len(i.args) >= n THEN i.args[n] ELSE default

(* A file that cannot be read ends the command.                             *)
read_data(i, does) == IF i.args[2] = NULL THEN Stop(2) ELSE does

Expire(i) == Uint32(Arg(i, 3, 0))
Flags(i)  == Uint32(Arg(i, 4, 0))
Cas(i)    == Uint64(Arg(i, 5, 0))

-----------------------------------------------------------------------------
cmd_noop(i, c) == Sends(yrmcds_noop, FALSE, "first", "ok", FALSE)

cmd_get(i, c) == Count(i, {1}, Awaits(i, yrmcds_get(i.args[1], i.quiet), "data"))
cmd_getk(i, c) == Count(i, {1}, Awaits(i, yrmcds_getk(i.args[1], i.quiet), "data"))

cmd_gat(i, c) == Count(i, {2},
  Awaits(i, yrmcds_get_touch(i.args[1], Uint32(i.args[2]), i.quiet), "data"))
cmd_gatk(i, c) == Count(i, {2},
  Awaits(i, yrmcds_getk_touch(i.args[1], Uint32(i.args[2]), i.quiet), "data"))

(* The lock is held until the user presses enter.                           *)
cmd_lag(i, c) == Count(i, {1}, Prompts(i, yrmcds_lock_get(i.args[1], i.quiet), "data"))
cmd_lagk(i, c) == Count(i, {1}, Prompts(i, yrmcds_lock_getk(i.args[1], i.quiet), "data"))

cmd_touch(i, c) == Count(i, {2},
  Awaits(i, yrmcds_touch(i.args[1], Uint32(i.args[2]), i.quiet), "nothing"))

cmd_set(i, c) == Count(i, 2..5, read_data(i,
  Awaits(i, yrmcds_set(c, i.args[1], i.args[2], Flags(i), Expire(i), Cas(i), i.quiet), "nothing")))
cmd_replace(i, c) == Count(i, 2..5, read_data(i,
  Awaits(i, yrmcds_replace(c, i.args[1], i.args[2], Flags(i), Expire(i), Cas(i), i.quiet), "nothing")))
cmd_add(i, c) == Count(i, 2..5, read_data(i,
  Awaits(i, yrmcds_add(c, i.args[1], i.args[2], Flags(i), Expire(i), Cas(i), i.quiet), "nothing")))
cmd_rau(i, c) == Count(i, 2..4, read_data(i,
  Awaits(i, yrmcds_replace_unlock(c, i.args[1], i.args[2], Flags(i), Expire(i), i.quiet), "nothing")))

(* Without an initial value a counter is not created.                       *)
cmd_incr(i, c) == Count(i, 2..4,
  LET key == i.args[1]  by == Uint64(i.args[2]) IN
  Awaits(i, IF Len(i.args) = 2 THEN yrmcds_incr(key, by, i.quiet)
            ELSE yrmcds_incr2(key, by, Uint64(i.args[3]), Uint32(Arg(i, 4, 0)), i.quiet), "value"))
cmd_decr(i, c) == Count(i, 2..4,
  LET key == i.args[1]  by == Uint64(i.args[2]) IN
  Awaits(i, IF Len(i.args) = 2 THEN yrmcds_decr(key, by, i.quiet)
            ELSE yrmcds_decr2(key, by, Uint64(i.args[3]), Uint32(Arg(i, 4, 0)), i.quiet), "value"))

cmd_append(i, c) == Count(i, {2}, read_data(i,
  Awaits(i, yrmcds_append(i.args[1], i.args[2], i.quiet), "nothing")))
cmd_prepend(i, c) == Count(i, {2}, read_data(i,
  Awaits(i, yrmcds_prepend(i.args[1], i.args[2], i.quiet), "nothing")))

cmd_delete(i, c) == Count(i, {1}, Awaits(i, yrmcds_remove(i.args[1], i.quiet), "data"))

(* Mutant: the lock is taken for granted, and the answer not waited for.    *)
LockUnawaited(i, c) ==
  Count(i, {1}, Sends(yrmcds_lock(i.args[1], i.quiet), i.quiet, "none", "nothing", TRUE))

cmd_lock(i, c) == Count(i, {1}, Prompts(i, yrmcds_lock(i.args[1], i.quiet), "nothing"))
cmd_unlock(i, c) == Count(i, {1}, Awaits(i, yrmcds_unlock(i.args[1], i.quiet), "nothing"))
cmd_unlockall(i, c) == Awaits(i, yrmcds_unlockall(i.quiet), "nothing")

cmd_flush(i, c) ==
  Awaits(i, yrmcds_flush(IF Len(i.args) = 1 THEN Uint32(i.args[1]) ELSE 0, i.quiet), "nothing")

(* i.kind: what the first argument says.                                    *)
cmd_stat(i, c) ==
  CASE i.kind = "general"  -> Sends(yrmcds_stat_general, FALSE, "empty", "keys", FALSE)
    [] i.kind = "settings" -> Sends(yrmcds_stat_settings, FALSE, "empty", "keys", FALSE)
    [] i.kind = "items"    -> Sends(yrmcds_stat_items, FALSE, "empty", "keys", FALSE)
    [] i.kind = "sizes"    -> Sends(yrmcds_stat_sizes, FALSE, "empty", "keys", FALSE)
    [] OTHER               -> Stop(1)

cmd_keys(i, c) ==
  Sends(yrmcds_keys(Len(i.args) = 1, IF Len(i.args) = 1 THEN i.args[1] ELSE <<>>),
        FALSE, "empty", "keys", FALSE)

cmd_version(i, c) == Sends(yrmcds_version, FALSE, "first", "data", FALSE)

cmd_quit(i, c) ==
  Sends(yrmcds_quit(i.quiet), FALSE, IF i.quiet THEN "none" ELSE "first", "nothing", FALSE)

(* do_cmd.                                                                 *)
Command(i, c) ==
  CASE i.cmd = "noop" -> cmd_noop(i, c)
    [] i.cmd = "get" -> cmd_get(i, c)         [] i.cmd = "getk" -> cmd_getk(i, c)
    [] i.cmd = "gat" -> cmd_gat(i, c)         [] i.cmd = "gatk" -> cmd_gatk(i, c)
    [] i.cmd = "lag" -> cmd_lag(i, c)         [] i.cmd = "lagk" -> cmd_lagk(i, c)
    [] i.cmd = "touch" -> cmd_touch(i, c)     [] i.cmd = "set" -> cmd_set(i, c)
    [] i.cmd = "replace" -> cmd_replace(i, c) [] i.cmd = "add" -> cmd_add(i, c)
    [] i.cmd = "rau" -> cmd_rau(i, c)         [] i.cmd = "incr" -> cmd_incr(i, c)
    [] i.cmd = "decr" -> cmd_decr(i, c)       [] i.cmd = "append" -> cmd_append(i, c)
    [] i.cmd = "prepend" -> cmd_prepend(i, c) [] i.cmd = "delete" -> cmd_delete(i, c)
    [] i.cmd = "lock" -> cmd_lock(i, c)       [] i.cmd = "unlock" -> cmd_unlock(i, c)
    [] i.cmd = "unlockall" -> cmd_unlockall(i, c)
    [] i.cmd = "flush" -> cmd_flush(i, c)     [] i.cmd = "stat" -> cmd_stat(i, c)
    [] i.cmd = "keys" -> cmd_keys(i, c)       [] i.cmd = "version" -> cmd_version(i, c)
    [] i.cmd = "quit" -> cmd_quit(i, c)
    [] OTHER -> Stop(1)
=============================================================================
