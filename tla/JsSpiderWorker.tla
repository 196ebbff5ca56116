--------------------------- MODULE JsSpiderWorker ---------------------------
(***************************************************************************)
(* JsSpiderWorker (src/spider/js-spider-worker-client.ts): one worker      *)
(* thread that runs the JavaScript of a source, and the requests that wait *)
(* for its answers.  The thread (js-spider-worker.ts) runs code of the     *)
(* source: it may answer in any order, not at all, or die.                 *)
(*                                                                         *)
(* Every request has a timer.  The first one that fires gives the thread   *)
(* up and rejects all that wait with it.                                   *)
(***************************************************************************)
EXTENDS Naturals

CONSTANTS
    Requests,    \* calls of home, category, search, detail, player
    Starters,    \* calls of start
    Destroyers   \* calls of destroy

ASSUME CallsDistinct ==
    /\ Requests \cap Starters = {} /\ Requests \cap Destroyers = {}
    /\ Starters \cap Destroyers = {}
    /\ "create" \notin Requests \cup Starters \cup Destroyers

Callers == Requests \cup Starters \cup Destroyers

\* The requests sent to the thread: those of the callers, and the "create" of
\* startInternal.
Ids == Requests \cup Destroyers \cup {"create"}

VARIABLES
    state,       \* stateValue
    worker,      \* the field worker is set
    pending,     \* the map pending, each with its timer armed
    start,       \* startInternal: "no", "creating", "stopping", "over"
    pc,          \* what became of each call
    thread,      \* the thread: "none", "running", "ended"
    terminated,  \* terminate() was called on it
    inbox,       \* requests posted to it and not answered
    outbox       \* its answers on the way: <<id, ok>>

vars == <<state, worker, pending, start, pc, thread, terminated, inbox, outbox>>
wires == <<thread, inbox, outbox>>

Init ==
    /\ state = "new"
    /\ worker = FALSE
    /\ pending = {}
    /\ start = "no"
    /\ pc = [c \in Callers |-> "idle"]
    /\ thread = "none"
    /\ terminated = FALSE
    /\ inbox = {} /\ outbox = {}

\* startPromise is there.
Starting == start \in {"creating", "stopping"}

-----------------------------------------------------------------------------
(* Settling. *)

\* A bug: the other requests are dropped from the map and never rejected.
MutRejectPending(s, stop) ==
    /\ pending' = {}
    /\ pc' = [c \in Callers |->
                IF c \in pending \cap Destroyers THEN "stopping" ELSE pc[c]]
    /\ state' = IF "create" \in pending THEN "failed" ELSE s
    /\ start' = IF "create" \in pending THEN "stopping" ELSE start
    /\ terminated' = (terminated \/ stop
                      \/ pending \cap (Destroyers \cup {"create"}) # {})

\* What a rejected request means to its caller: destroy goes on to terminate.
Outcome(c) == IF c \notin pending THEN pc[c]
              ELSE IF c \in Destroyers THEN "stopping" ELSE "failed"

\* rejectPending, and what its rejections set off: the catch of startInternal
\* and the finally of destroy terminate the thread.
RejectPending(s, stop) ==
    /\ pending' = {}
    /\ pc' = [c \in Callers |-> Outcome(c)]
    /\ state' = IF "create" \in pending THEN "failed" ELSE s
    /\ start' = IF "create" \in pending THEN "stopping" ELSE start
    /\ terminated' = (terminated \/ stop
                      \/ pending \cap (Destroyers \cup {"create"}) # {})

\* The callers that await startPromise.
StartersSettle(outcome) ==
    pc' = [c \in Callers |-> IF c \in Starters /\ pc[c] = "waiting"
                             THEN outcome ELSE pc[c]]

-----------------------------------------------------------------------------
(* Calls. *)

\* start: the state decides, then the promise of a start under way.
Start(c) ==
    /\ pc[c] = "idle"
    /\ \/ /\ state \in {"terminated", "failed", "ready"}
          /\ pc' = [pc EXCEPT ![c] = IF state = "ready" THEN "answered"
                                     ELSE "failed"]
          /\ UNCHANGED <<state, worker, pending, start, terminated, wires>>
       \/ /\ state = "starting" /\ Starting
          /\ pc' = [pc EXCEPT ![c] = "waiting"]
          /\ UNCHANGED <<state, worker, pending, start, terminated, wires>>
       \/ /\ state = "new"
          /\ pc' = [pc EXCEPT ![c] = "waiting"]
          /\ state' = "starting"
          /\ start' = "creating"
          /\ worker' = TRUE
          /\ thread' = "running"
          /\ pending' = pending \cup {"create"}
          /\ inbox' = inbox \cup {"create"}
          /\ UNCHANGED <<terminated, outbox>>

\* call: only the field worker is looked at, never the state.
Call(r) ==
    /\ pc[r] = "idle"
    /\ \/ /\ ~worker
          /\ pc' = [pc EXCEPT ![r] = "failed"]
          /\ UNCHANGED <<pending, inbox>>
       \/ /\ worker
          /\ pc' = [pc EXCEPT ![r] = "waiting"]
          /\ pending' = pending \cup {r}
          /\ inbox' = IF thread = "running" THEN inbox \cup {r} ELSE inbox
    /\ UNCHANGED <<state, worker, start, thread, terminated, outbox>>

DestroyReturns(d) ==
    /\ pc[d] = "idle"
    /\ state = "terminated" \/ ~worker
    /\ state' = "terminated"
    /\ pc' = [pc EXCEPT ![d] = "done"]
    /\ UNCHANGED <<worker, pending, start, terminated, wires>>

\* A thread that lives is asked to clean up.
DestroyAsks(d) ==
    /\ pc[d] = "idle"
    /\ state # "terminated" /\ worker /\ thread = "running"
    /\ state' = "terminated"
    /\ pc' = [pc EXCEPT ![d] = "waiting"]
    /\ pending' = pending \cup {d}
    /\ inbox' = inbox \cup {d}
    /\ UNCHANGED <<worker, start, thread, terminated, outbox>>

\* threadId is -1: straight to the finally of destroy.
DestroyDead(d) ==
    /\ pc[d] = "idle"
    /\ state # "terminated" /\ worker /\ thread = "ended"
    /\ pending' = {}
    /\ state' = IF "create" \in pending THEN "failed" ELSE "terminated"
    /\ start' = IF "create" \in pending THEN "stopping" ELSE start
    /\ pc' = [c \in Callers |-> IF c = d THEN "stopping" ELSE Outcome(c)]
    /\ terminated' = TRUE
    /\ UNCHANGED <<worker, wires>>

\* A bug: the field still holds the thread that is gone.
MutDestroyEnds(d) ==
    /\ pc[d] = "stopping"
    /\ thread = "ended"
    /\ pc' = [pc EXCEPT ![d] = "done"]
    /\ UNCHANGED <<state, worker, pending, start, terminated, wires>>

\* terminate() has resolved.
DestroyEnds(d) ==
    /\ pc[d] = "stopping"
    /\ thread = "ended"
    /\ pc' = [pc EXCEPT ![d] = "done"]
    /\ worker' = FALSE
    /\ UNCHANGED <<state, pending, start, terminated, wires>>

StartEnds ==
    /\ start = "stopping"
    /\ thread = "ended"
    /\ start' = "over"
    /\ StartersSettle("failed")
    /\ UNCHANGED <<state, worker, pending, terminated, wires>>

-----------------------------------------------------------------------------
(* Answers. *)

\* The worker's handle(): each message is answered when its work is done.
Handles(i) ==
    /\ i \in inbox /\ thread = "running"
    /\ inbox' = inbox \ {i}
    /\ \E ok \in BOOLEAN : outbox' = outbox \cup {<<i, ok>>}
    /\ UNCHANGED <<state, worker, pending, start, pc, thread, terminated>>

\* resolve: an answer nobody waits for is dropped.
AnswerDropped(i) ==
    \E ok \in BOOLEAN :
        /\ <<i, ok>> \in outbox /\ i \notin pending
        /\ outbox' = outbox \ {<<i, ok>>}
        /\ UNCHANGED <<state, worker, pending, start, pc, thread, terminated,
                       inbox>>

\* A bug: an answered request keeps its entry, and its timer.
MutRequestAnswered(r) ==
    \E ok \in BOOLEAN :
        /\ <<r, ok>> \in outbox /\ r \in pending
        /\ outbox' = outbox \ {<<r, ok>>}
        /\ pc' = [pc EXCEPT ![r] = IF ok THEN "answered" ELSE "failed"]
        /\ UNCHANGED <<state, worker, pending, start, thread, terminated, inbox>>

RequestAnswered(r) ==
    \E ok \in BOOLEAN :
        /\ <<r, ok>> \in outbox /\ r \in pending
        /\ outbox' = outbox \ {<<r, ok>>}
        /\ pending' = pending \ {r}
        /\ pc' = [pc EXCEPT ![r] = IF ok THEN "answered" ELSE "failed"]
        /\ UNCHANGED <<state, worker, start, thread, terminated, inbox>>

\* startInternal goes on, whatever happened to the state meanwhile.
Created ==
    /\ <<"create", TRUE>> \in outbox /\ "create" \in pending
    /\ outbox' = outbox \ {<<"create", TRUE>>}
    /\ pending' = pending \ {"create"}
    /\ state' = "ready"
    /\ start' = "over"
    /\ StartersSettle("answered")
    /\ UNCHANGED <<worker, thread, terminated, inbox>>

CreateFails ==
    /\ <<"create", FALSE>> \in outbox /\ "create" \in pending
    /\ outbox' = outbox \ {<<"create", FALSE>>}
    /\ pending' = pending \ {"create"}
    /\ state' = "failed"
    /\ start' = "stopping"
    /\ terminated' = TRUE
    /\ UNCHANGED <<worker, pc, thread, inbox>>

\* The answer to destroy, whichever it is: its finally.
DestroyAnswered(d) ==
    /\ d \in pending
    /\ \E ok \in BOOLEAN : <<d, ok>> \in outbox /\ outbox' = outbox \ {<<d, ok>>}
    /\ RejectPending(state, TRUE)
    /\ UNCHANGED <<worker, thread, inbox>>

\* A bug: the thread is given up and not terminated.
MutTimeout(i) ==
    /\ i \in pending
    /\ RejectPending("failed", FALSE)
    /\ worker' = FALSE
    /\ UNCHANGED wires

\* A timer: the thread is given up, with everything it was working on.
Timeout(i) ==
    /\ i \in pending
    /\ RejectPending("failed", worker)
    /\ worker' = FALSE
    /\ UNCHANGED wires

-----------------------------------------------------------------------------
(* The end of the thread. *)

\* The exit handler, failWorker; not when destroyed.
Exit ==
    /\ thread' = "ended"
    /\ inbox' = {} /\ outbox' = {}
    /\ \/ /\ state = "terminated"
          /\ UNCHANGED <<state, pending, start, pc, terminated>>
       \/ /\ state # "terminated"
          /\ RejectPending("failed", FALSE)
    /\ UNCHANGED worker

Terminates == thread = "running" /\ terminated /\ Exit

Crashes == thread = "running" /\ ~terminated /\ Exit

-----------------------------------------------------------------------------
Next ==
    \/ \E c \in Starters : Start(c)
    \/ \E r \in Requests : Call(r) \/ RequestAnswered(r)
    \/ \E d \in Destroyers :
          \/ DestroyReturns(d) \/ DestroyAsks(d) \/ DestroyDead(d)
          \/ DestroyAnswered(d) \/ DestroyEnds(d)
    \/ \E i \in Ids : Handles(i) \/ AnswerDropped(i) \/ Timeout(i)
    \/ Created \/ CreateFails \/ StartEnds
    \/ Terminates \/ Crashes

\* Timers fire, terminate() ends a thread, promises settle.  Nothing is
\* assumed of the code of the source.
Fairness ==
    /\ \A i \in Ids : WF_vars(Timeout(i))
    /\ \A d \in Destroyers : WF_vars(DestroyEnds(d))
    /\ WF_vars(StartEnds)
    /\ WF_vars(Terminates)

Spec == Init /\ [][Next]_vars /\ Fairness

-----------------------------------------------------------------------------
(* Properties. *)

\* Every variable has its type, and who waits is who is in the map.
TypeOK ==
    /\ state \in {"new", "starting", "ready", "failed", "terminated"}
    /\ worker \in BOOLEAN /\ terminated \in BOOLEAN
    /\ pending \in SUBSET Ids
    /\ start \in {"no", "creating", "stopping", "over"}
    /\ pc \in [Callers -> {"idle", "waiting", "stopping", "answered", "failed",
                           "done"}]
    /\ thread \in {"none", "running", "ended"}
    /\ inbox \in SUBSET Ids
    /\ outbox \in SUBSET (Ids \X BOOLEAN)
    /\ "create" \in pending <=> start = "creating"
    /\ \A c \in Requests \cup Destroyers : c \in pending <=> pc[c] = "waiting"

\* The thread that runs the code of a source is never out of reach: as long as
\* it runs the object still holds it, or has already terminated it, also when
\* a timer gives it up while start and destroy are under way.
ThreadOwned == thread = "running" => worker \/ terminated

\* When destroy has returned and none is under way, the thread is gone or
\* going, no start waits for it, and nothing can be sent any more, also if the
\* start that destroy overtook has changed the state since.  Only a request
\* made while the thread was ending may still wait, for its own timer.
DestroyedIsQuiet ==
    (/\ \E d \in Destroyers : pc[d] = "done"
     /\ \A d \in Destroyers : pc[d] \in {"idle", "done"})
    => /\ ~worker /\ pending \subseteq Requests
       /\ thread = "running" => terminated

\* The abstract service: a call is a request or a start.
Service == INSTANCE RequestService WITH
    Calls <- Requests \cup Starters,
    life <- IF thread = "none" THEN "new"
            ELSE IF thread = "running" THEN "up" ELSE "down",
    call <- [c \in Requests \cup Starters |->
               IF pc[c] \in {"waiting", "stopping"} THEN "open" ELSE pc[c]]

\* A request or a start is settled exactly once, it is answered only by a thread
\* that lives, which it does once, and it is always settled, be it by another's
\* timer, whatever the code of the source does: the worker implements
\* RequestService.  And every destroy returns.
WorkerServes ==
    /\ Service!LiveSpec
    /\ \A d \in Destroyers : (pc[d] # "idle") ~> (pc[d] = "done")
=============================================================================
