--------------------------- MODULE ServerCommands ---------------------------
(* What the clients take for granted of the server (external), by command:  *)
(* a quiet request is answered when it fails; a quiet get, when it finds    *)
(* the object or fails otherwise.                                           *)

Quiets == {"GETQ", "GETKQ", "SETQ", "ADDQ", "REPLACEQ", "DELETEQ", "INCREMENTQ",
           "DECREMENTQ", "QUITQ", "FLUSHQ", "APPENDQ", "PREPENDQ", "GATQ",
           "GATKQ", "LOCKQ", "UNLOCKQ", "UNLOCKALLQ", "LAGQ", "LAGKQ", "RAUQ"}
Gets   == {"GET", "GETQ", "GETK", "GETKQ", "GAT", "GATQ", "GATK", "GATKQ",
           "LAG", "LAGQ", "LAGK", "LAGKQ"}
GetKs  == {"GETK", "GETKQ", "GATK", "GATKQ", "LAGK", "LAGKQ"}
Writes == {"SET", "SETQ", "ADD", "ADDQ", "REPLACE", "REPLACEQ", "INCREMENT",
           "INCREMENTQ", "DECREMENT", "DECREMENTQ", "APPEND", "APPENDQ",
           "PREPEND", "PREPENDQ", "RAU", "RAUQ"}
Sure   == {"NOOP", "VERSION", "STAT", "KEYS", "QUIT", "QUITQ", "FLUSH", "FLUSHQ",
           "UNLOCKALL", "UNLOCKALLQ"}

(* No answer.                                                              *)
Silent(q, status) ==
  /\ q.cmd \in Quiets
  /\ IF q.cmd \in Gets THEN status = "NOTFOUND" ELSE status = "OK"

(* A function without a key, and with one.                                  *)
Without(f, k) == [x \in DOMAIN f \ {k} |-> f[x]]
With(f, k, v) == [x \in DOMAIN f \cup {k} |-> IF x = k THEN v ELSE f[x]]
=============================================================================
