--------------------------- MODULE RequestService ---------------------------
(***************************************************************************)
(* What a caller may rely on when the code of a source runs outside the    *)
(* process, in a thread or in a child process: the specification that      *)
(* JsSpiderWorker and Sidecar implement.                                   *)
(*                                                                         *)
(* The code lives once.  A call is settled once: answered, which takes a   *)
(* live executor, or failed, at any time.                                  *)
(***************************************************************************)
CONSTANT Calls

VARIABLES
    life,   \* "new", "up", "down"
    call    \* "idle", "open", "answered", "failed"

Init == life = "new" /\ call = [c \in Calls |-> "idle"]

Ages == \/ life' = life
        \/ life = "new" /\ life' \in {"up", "down"}
        \/ life = "up" /\ life' = "down"

\* What may become of a call in a step.
Goes(c) ==
    \/ call'[c] = call[c]
    \/ call[c] = "idle" /\ call'[c] = "open"
    \/ call[c] \in {"idle", "open"} /\ call'[c] = "failed"
    \/ call[c] \in {"idle", "open"} /\ call'[c] = "answered" /\ life = "up"

Next == /\ Ages
        /\ call' \in [Calls -> {"idle", "open", "answered", "failed"}]
        /\ \A c \in Calls : Goes(c)

Spec == Init /\ [][Next]_<<life, call>>

\* And every call that was made is settled.
LiveSpec == Spec /\ \A c \in Calls :
                      call[c] = "open" ~> call[c] \in {"answered", "failed"}
=============================================================================
