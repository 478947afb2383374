----------------------------- MODULE CommandLog -----------------------------
(* What a connection promises to the threads that send on it: whole         *)
(* commands, one at a time, each with a serial larger than those before it, *)
(* and an error for the one that fails.  If the failed one is cut in the    *)
(* middle, nothing that follows can be relied on.                           *)
EXTENDS Naturals

VARIABLES last,     \* the last serial handed out
          sent,     \* serials of the commands sent whole
          failed,   \* serials of the commands that ended in an error
          broken    \* a command was cut

LogInit == last = 0 /\ sent = {} /\ failed = {} /\ broken = FALSE

(* A serial is taken, once the command before is settled.                   *)
LogTake == /\ last = 0 \/ last \in sent \cup failed \/ broken
           /\ last' = last + 1
           /\ UNCHANGED <<sent, failed, broken>>

(* The command with the last serial is complete, after all the others.      *)
LogSend == /\ ~broken /\ last \notin sent \cup failed
           /\ sent' = sent \cup {last}
           /\ UNCHANGED <<last, failed, broken>>

(* It fails: not a byte of it was sent, or it was cut.                      *)
LogFail == /\ last \notin sent \cup failed
           /\ failed' = failed \cup {last}
           /\ broken' \in {broken, TRUE}
           /\ UNCHANGED <<last, sent>>

LogNext == LogTake \/ LogSend \/ LogFail

LogSpec == LogInit /\ [][LogNext]_<<last, sent, failed, broken>>
=============================================================================
