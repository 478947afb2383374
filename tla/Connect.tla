------------------------------ MODULE Connect -------------------------------
(* Opening and closing a connection (connect.c, close.c): a name resolved    *)
(* for IPv4 and then for IPv6, a connect that does not block and is waited   *)
(* for 5 seconds, the options of the socket, the receive buffer.  Each step  *)
(* may fail, and has to release what the steps before it took.              *)
EXTENDS Naturals

CONSTANT Users    \* each opens one connection after another

VARIABLE link     \* of each user

connectVars == <<link>>

Stages == {"closed", "resolving", "resolved", "socket", "polling", "options",
           "connected", "open", "failed"}

(* fd, res, buf: the descriptor, the addresses and the buffers it holds;     *)
(* mutex: the send mutex is initialised.                                     *)
NoLink == [stage |-> "closed", family |-> "INET", fd |-> FALSE, res |-> FALSE,
           buf |-> FALSE, mutex |-> FALSE, error |-> "OK"]

ConnectTypeOK ==
  link \in [Users -> [stage : Stages, family : {"INET", "INET6"}, fd : BOOLEAN,
                      res : BOOLEAN, buf : BOOLEAN, mutex : BOOLEAN,
                      error : {"OK", "SYSTEM_ERROR", "NOT_RESOLVED", "TIMEOUT",
                               "DISCONNECTED", "OUT_OF_MEMORY"}]]

ConnectInit == link = [u \in Users |-> NoLink]

Goes(u, stage) == link' = [link EXCEPT ![u].stage = stage]

(* connect_to_server returns an error: addresses freed, descriptor closed.  *)
(* The mutex stays initialised.                                             *)
Fails(u, why) ==
  link' = [link EXCEPT ![u].stage = "failed", ![u].error = why,
                       ![u].fd = FALSE, ![u].res = FALSE]

StartConnect(u) ==
  /\ link[u].stage \in {"closed", "failed"}
  /\ link' = [link EXCEPT ![u] = [NoLink EXCEPT !.stage = "resolving", !.mutex = TRUE]]

MutexFails(u) ==
  /\ link[u].stage \in {"closed", "failed"}
  /\ link' = [link EXCEPT ![u] = [NoLink EXCEPT !.stage = "failed", !.error = "SYSTEM_ERROR"]]

(* getaddrinfo: a host without an IPv4 address is asked for again, without   *)
(* AI_ADDRCONFIG, for its IPv6 address.                                      *)
Resolve(u) ==
  /\ link[u].stage = "resolving"
  /\ link' = [link EXCEPT ![u].stage = "resolved", ![u].res = TRUE]

ResolveAgain(u) ==
  /\ link[u].stage = "resolving" /\ link[u].family = "INET"
  /\ link' = [link EXCEPT ![u].family = "INET6"]

ResolveFails(u) ==
  /\ link[u].stage = "resolving"
  /\ \/ Fails(u, "SYSTEM_ERROR")
     \/ Fails(u, "NOT_RESOLVED")

OpenSocket(u) ==
  /\ link[u].stage = "resolved"
  /\ \/ link' = [link EXCEPT ![u].stage = "socket", ![u].fd = TRUE]
     \/ Fails(u, "SYSTEM_ERROR")

(* connect: at once, under way, or refused.                                 *)
ConnectSocket(u) ==
  /\ link[u].stage = "socket"
  /\ \/ link' = [link EXCEPT ![u].stage = "options", ![u].res = FALSE]
     \/ link' = [link EXCEPT ![u].stage = "polling", ![u].res = FALSE]
     \/ Fails(u, "SYSTEM_ERROR")

(* Mutant: the descriptor of a connection that is not made in time is kept. *)
TimeoutKeepsSocket(u) ==
  /\ link[u].stage = "polling"
  /\ \/ Goes(u, "options")
     \/ link' = [link EXCEPT ![u].stage = "failed", ![u].error = "TIMEOUT"]
     \/ Fails(u, "DISCONNECTED")
     \/ Fails(u, "SYSTEM_ERROR")

(* poll for 5 seconds, then SO_ERROR.                                       *)
PollSocket(u) ==
  /\ link[u].stage = "polling"
  /\ \/ Goes(u, "options")
     \/ Fails(u, "TIMEOUT")
     \/ Fails(u, "DISCONNECTED")
     \/ Fails(u, "SYSTEM_ERROR")

(* The socket blocks again, and sends small requests at once.               *)
SetOptions(u) ==
  /\ link[u].stage = "options"
  /\ \/ Goes(u, "connected")
     \/ Fails(u, "SYSTEM_ERROR")

(* yrmcds_connect: the receive buffer.  Here the mutex is destroyed as well. *)
Allocate(u) ==
  /\ link[u].stage = "connected"
  /\ \/ link' = [link EXCEPT ![u].stage = "open", ![u].buf = TRUE]
     \/ link' = [link EXCEPT ![u].stage = "failed", ![u].error = "OUT_OF_MEMORY",
                             ![u].fd = FALSE, ![u].mutex = FALSE]

(* yrmcds_close.                                                            *)
CloseLink(u) == link' = [link EXCEPT ![u] = NoLink]

ConnectStep(u) ==
  \/ Resolve(u) \/ ResolveAgain(u) \/ ResolveFails(u) \/ OpenSocket(u)
  \/ ConnectSocket(u) \/ PollSocket(u) \/ SetOptions(u) \/ Allocate(u)

ConnectNext ==
  \E u \in Users : StartConnect(u) \/ MutexFails(u) \/ ConnectStep(u) \/ CloseLink(u)

ConnectSpec == ConnectInit /\ [][ConnectNext]_connectVars

-----------------------------------------------------------------------------
(* A connection that failed or was closed holds no descriptor, no addresses  *)
(* and no buffer, whatever step failed; an open one has let go of the        *)
(* addresses and holds the rest.  The mutex is destroyed by a close, and when *)
(* there is no memory for the buffer; any other failure leaves it.           *)
NothingLeaks ==
  \A u \in Users :
    LET l == link[u] IN
    /\ l.stage \in {"closed", "failed"} => ~l.fd /\ ~l.res /\ ~l.buf
    /\ l.stage = "open" => l.fd /\ l.buf /\ l.mutex /\ ~l.res
    /\ l.stage = "closed" \/ l.error = "OUT_OF_MEMORY" => ~l.mutex
=============================================================================
