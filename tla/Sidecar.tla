------------------------------ MODULE Sidecar ------------------------------
(***************************************************************************)
(* JvmSidecar and PythonSidecar (src/spider/jvm-sidecar.ts and             *)
(* python-sidecar.ts): one child process that runs the code of a source    *)
(* and answers requests, a line of JSON each.  The two differ in how they  *)
(* start, how they kill and what they clean up; kind says which it is, and *)
(* whether the script of a Python source is a local file or a download.    *)
(*                                                                         *)
(* The process may answer in any order, not at all, write a line that is   *)
(* no answer, or exit.  It is never restarted.                             *)
(***************************************************************************)
EXTENDS Naturals

CONSTANTS
    ScRequests,    \* calls of init, home, category, search, detail, player
    ScStarts,      \* calls of start
    ScDestroys     \* calls of destroy

ASSUME ScCallsDistinct ==
    /\ ScRequests \cap ScStarts = {} /\ ScRequests \cap ScDestroys = {}
    /\ ScStarts \cap ScDestroys = {}
    /\ "destroy" \notin ScRequests \cup ScStarts \cup ScDestroys

ScCalls == ScRequests \cup ScStarts \cup ScDestroys
ScIds == ScRequests \cup {"destroy"}   \* of requests: destroyInternal has one

ScKinds == {"jvm", "file", "download"}

VARIABLES
    sc,       \* the fields of the object
    scPc,     \* what became of each call
    scProc    \* the process, and the lines on their way to and from it

scVars == <<sc, scPc, scProc>>

(* start and destroy are startPromise and destroyPromise: "no", or the     *)
(* await their function is in.  held: the field child is set.  script:     *)
(* there is a temporary directory and scriptTempDirectory names it; lost:  *)
(* there is one that no field names, and why.                              *)
ScInit ==
    /\ sc \in [kind : ScKinds, state : {"new"}, held : {FALSE},
               termination : {FALSE}, destroyAsked : {FALSE}, pending : {{}},
               start : {"no"}, destroy : {"no"}, script : {FALSE}, lost : {{}}]
    /\ scPc = [c \in ScCalls |-> "idle"]
    /\ scProc = [life |-> "none", killed |-> FALSE, inbox |-> {}, outbox |-> {}]

IsRunning == /\ sc.state = "running" /\ ~sc.termination
             /\ sc.held /\ scProc.life = "running" /\ ~scProc.killed

\* The calls of one sort that wait are settled together.
Settled(calls, outcome) ==
    [c \in ScCalls |-> IF c \in calls /\ scPc[c] = "waiting" THEN outcome
                       ELSE scPc[c]]

-----------------------------------------------------------------------------
(* Giving up. *)

\* A bug: the requests are rejected and left in the map, where a late answer
\* finds them.
MutTerminated(s) == [s EXCEPT !.termination = TRUE]

\* terminate: all that wait are rejected, the ready promise too; a start under
\* way then waits for the exit, a destroy that asked goes on to do the same.
Terminated(s) ==
    [s EXCEPT !.termination = TRUE, !.pending = {},
              !.start = IF s.start = "booting" THEN "exiting" ELSE s.start,
              !.destroy = IF "destroy" \in s.pending THEN "exiting"
                          ELSE s.destroy]

\* fail, and the timers: the process is killed.
GiveUp ==
    /\ sc' = Terminated(sc)
    /\ scPc' = Settled(sc.pending, "failed")
    /\ scProc' = [scProc EXCEPT !.killed = TRUE]

\* The timer of a request.
ScTimeout(i) == i \in sc.pending /\ GiveUp

\* The timer of the startup.
StartupTimeout == sc.start = "booting" /\ GiveUp

\* consumeLine: invalid JSON, another protocol, an unknown id.
BadLine == scProc.life = "running" /\ sc.held /\ GiveUp

-----------------------------------------------------------------------------
(* Starting. *)

Spawned(s) == [s EXCEPT !.state = "starting", !.held = TRUE, !.start = "booting",
                        !.termination = FALSE, !.destroyAsked = FALSE]

\* A spawn that throws: there is no process, and the object is of no use.
Unspawned(s, state) == [s EXCEPT !.state = state, !.termination = FALSE,
                                 !.destroyAsked = FALSE]

\* The JVM: the artifact is validated, and the process spawned, in the call;
\* a spawn that throws leaves the state where it was set.
JvmStartInternal(c) ==
    /\ sc.kind = "jvm"
    /\ \/ /\ scPc' = [scPc EXCEPT ![c] = "failed"]
          /\ sc' \in {sc, Unspawned(sc, "starting")}
          /\ UNCHANGED scProc
       \/ /\ scPc' = [scPc EXCEPT ![c] = "waiting"]
          /\ sc' = Spawned(sc)
          /\ scProc' = [scProc EXCEPT !.life = "running"]

\* Python: the script may have to be downloaded first; the state stays "new".
PythonStartInternal(c) ==
    /\ sc.kind # "jvm"
    /\ scPc' = [scPc EXCEPT ![c] = "waiting"]
    /\ sc' = [sc EXCEPT !.start = "script"]
    /\ UNCHANGED scProc

\* start: a state, the promise of a start under way, or a new one.
ScStart(c) ==
    /\ scPc[c] = "idle"
    /\ \/ /\ sc.state = "running"
          /\ scPc' = [scPc EXCEPT ![c] = "answered"]
          /\ UNCHANGED <<sc, scProc>>
       \/ /\ sc.state # "running" /\ sc.start # "no"
          /\ scPc' = [scPc EXCEPT ![c] = "waiting"]
          /\ UNCHANGED <<sc, scProc>>
       \/ /\ sc.state \in {"starting", "stopped"} /\ sc.start = "no"
          /\ scPc' = [scPc EXCEPT ![c] = "failed"]
          /\ UNCHANGED <<sc, scProc>>
       \/ /\ sc.state = "new" /\ sc.start = "no"
          /\ JvmStartInternal(c) \/ PythonStartInternal(c)

\* The start is over: destroyInternal, if it waited for it, goes on.
StartOver(s) == [s EXCEPT !.start = "no",
                          !.destroy = IF s.destroy = "start" THEN "go"
                                      ELSE s.destroy]

\* What a resolveScript or a stat that fails leaves on the disk: nothing, or
\* the directory of a download, which is recorded only when its file is written.
LeftOnDisk(s) ==
    {s} \cup IF s.kind # "download" THEN {}
             ELSE {[s EXCEPT !.script = TRUE]}
                  \cup IF s.script THEN {}
                       ELSE {[s EXCEPT !.lost = @ \cup {"unwritten"}]}

\* resolveScript fails, or there is no such file: a start may be tried again.
ScriptFails ==
    /\ sc.start = "script"
    /\ sc' \in LeftOnDisk(StartOver(sc))
    /\ scPc' = Settled(ScStarts, "failed")
    /\ UNCHANGED scProc

\* The script is there, and a download in a directory of its own.
Scripted(s) == [s EXCEPT !.script = s.kind = "download"]

ScriptReady ==
    /\ sc.start = "script"
    /\ sc' = Spawned(Scripted(sc))
    /\ scProc' = [scProc EXCEPT !.life = "running"]
    /\ UNCHANGED scPc

SpawnThrows ==
    /\ sc.start = "script"
    /\ sc' = Unspawned(StartOver(Scripted(sc)), "stopped")
    /\ scPc' = Settled(ScStarts, "failed")
    /\ UNCHANGED scProc

\* The line {"type": "ready"}.
Ready ==
    /\ scProc.life = "running" /\ sc.start = "booting"
    /\ sc' = [StartOver(sc) EXCEPT !.state = "running"]
    /\ scPc' = Settled(ScStarts, "answered")
    /\ UNCHANGED scProc

-----------------------------------------------------------------------------
(* Requests. *)

Accepts == IsRunning /\ ~sc.destroyAsked

ScRequest(r) ==
    /\ scPc[r] = "idle"
    /\ \/ /\ ~Accepts
          /\ scPc' = [scPc EXCEPT ![r] = "failed"]
          /\ UNCHANGED <<sc, scProc>>
       \/ /\ Accepts
          /\ scPc' = [scPc EXCEPT ![r] = "waiting"]
          /\ sc' = [sc EXCEPT !.pending = @ \cup {r}]
          /\ scProc' = [scProc EXCEPT !.inbox = @ \cup {r}]

\* The process writes an answer.
Handle(i) ==
    /\ scProc.life = "running" /\ i \in scProc.inbox
    /\ scProc' = [scProc EXCEPT !.inbox = @ \ {i}, !.outbox = @ \cup {i}]
    /\ UNCHANGED <<sc, scPc>>

\* consumeLine, an answer to a request that waits for it.  An answer to none
\* is a BadLine.
Answer(r) ==
    /\ r \in scProc.outbox \cap sc.pending \cap ScRequests
    /\ sc' = [sc EXCEPT !.pending = @ \ {r}]
    /\ \E outcome \in {"answered", "failed"} :
          scPc' = [scPc EXCEPT ![r] = outcome]
    /\ scProc' = [scProc EXCEPT !.outbox = @ \ {r}]

-----------------------------------------------------------------------------
(* Destroying. *)

\* destroy: the promise of one under way is shared.
ScDestroy(d) ==
    /\ scPc[d] = "idle"
    /\ scPc' = [scPc EXCEPT ![d] = "waiting"]
    /\ sc' = [sc EXCEPT !.destroy = IF @ # "no" THEN @
                                    ELSE IF sc.start # "no" THEN "start"
                                    ELSE "go"]
    /\ UNCHANGED scProc

\* cleanupScript forgets the directory before it removes it: where that fails
\* the callers hear of it, and the directory stays.
Cleaned(s, removed) ==
    [s EXCEPT !.script = FALSE, !.lost = IF removed THEN @
                                         ELSE @ \cup {"unremoved"}]

DestroyEndsWith(s) ==
    \E removed \in {TRUE, ~s.script} :
       /\ sc' = [Cleaned(s, removed) EXCEPT
                    !.destroy = "no", !.state = "stopped", !.pending = {},
                    !.termination = TRUE, !.held = FALSE]
       /\ scPc' = [c \in ScCalls |->
                     IF scPc[c] # "waiting" THEN scPc[c]
                     ELSE IF c \in ScDestroys
                          THEN IF removed THEN "done" ELSE "failed"
                     ELSE IF c \in s.pending THEN "failed" ELSE scPc[c]]

\* destroyInternal from the end of the start on, where the process was never
\* spawned, or is let go already.
DestroyNothing ==
    /\ sc.destroy = "go" /\ ~sc.held
    /\ DestroyEndsWith(sc)
    /\ UNCHANGED scProc

\* A process that works is asked.
ScDestroyAsks ==
    /\ sc.destroy = "go" /\ sc.held /\ Accepts
    /\ sc' = [sc EXCEPT !.destroy = "asking", !.pending = @ \cup {"destroy"}]
    /\ scProc' = [scProc EXCEPT !.inbox = @ \cup {"destroy"}]
    /\ UNCHANGED scPc

\* Else, and when it has answered: kill, and wait for the exit.
DestroyKills ==
    /\ sc.destroy = "go" /\ sc.held /\ ~Accepts
    /\ sc' = [sc EXCEPT !.destroy = "exiting", !.termination = TRUE]
    /\ scProc' = [scProc EXCEPT !.killed = TRUE]
    /\ UNCHANGED scPc

ScDestroyAnswered ==
    /\ sc.destroy = "asking" /\ "destroy" \in scProc.outbox \cap sc.pending
    /\ sc' = [sc EXCEPT !.destroy = "exiting", !.termination = TRUE,
                        !.destroyAsked = TRUE, !.pending = @ \ {"destroy"}]
    /\ scProc' = [scProc EXCEPT !.killed = TRUE, !.outbox = @ \ {"destroy"}]
    /\ UNCHANGED scPc

\* A bug: the field keeps the process, and the directory of the script stays.
MutDestroyOver ==
    /\ sc.destroy = "exiting"
    /\ sc' = [sc EXCEPT !.destroy = "no", !.state = "stopped"]
    /\ scPc' = Settled(ScDestroys, "done")
    /\ UNCHANGED scProc

\* waitForExit has ended, by the exit or by its second.
DestroyOver ==
    /\ sc.destroy = "exiting"
    /\ DestroyEndsWith(sc)
    /\ UNCHANGED scProc

\* The same wait at the end of a start that failed.
StartOverFailed ==
    /\ sc.start = "exiting"
    /\ sc' = StartOver(sc)
    /\ scPc' = Settled(ScStarts, "failed")
    /\ UNCHANGED scProc

-----------------------------------------------------------------------------
\* The exit event: the state, the requests, the ready promise.
ScExit ==
    /\ scProc.life = "running"
    /\ scProc' = [scProc EXCEPT !.life = "exited", !.inbox = {}, !.outbox = {}]
    /\ sc' = [Terminated(sc) EXCEPT !.state = "stopped",
                                    !.termination = sc.termination]
    /\ scPc' = Settled(sc.pending, "failed")

\* The program could not be spawned: an error event, and no exit event.
SpawnFails ==
    /\ scProc.life = "running" /\ sc.start = "booting"
    /\ sc' = Terminated(sc)
    /\ scPc' = Settled(sc.pending, "failed")
    /\ scProc' = [scProc EXCEPT !.life = "lost"]

\* What a handler has settled goes on before the next event: a destroy that
\* need not wait, and those that waited for an exit that was seen.
Continues == \/ sc.destroy = "go"
             \/ scProc.life = "exited" /\ "exiting" \in {sc.start, sc.destroy}

ScEvent ==
    \/ \E c \in ScStarts : ScStart(c)
    \/ \E r \in ScRequests : ScRequest(r) \/ Answer(r)
    \/ \E d \in ScDestroys : ScDestroy(d)
    \/ \E i \in ScIds : Handle(i) \/ ScTimeout(i)
    \/ StartupTimeout \/ BadLine \/ Ready
    \/ ScriptFails \/ ScriptReady \/ SpawnThrows
    \/ ScDestroyAnswered \/ ScExit \/ SpawnFails

ScNext ==
    \/ DestroyNothing \/ ScDestroyAsks \/ DestroyKills
    \/ DestroyOver \/ StartOverFailed
    \/ ~Continues /\ ScEvent

\* Timers fire and the event loop goes on; nothing is asked of the process.
ScFairness ==
    /\ \A i \in ScIds : WF_scVars(ScTimeout(i))
    /\ WF_scVars(StartupTimeout)
    /\ WF_scVars(ScriptFails \/ ScriptReady \/ SpawnThrows)
    /\ WF_scVars(DestroyNothing) /\ WF_scVars(ScDestroyAsks)
    /\ WF_scVars(DestroyKills) /\ WF_scVars(DestroyOver)
    /\ WF_scVars(StartOverFailed)

ScSpec == ScInit /\ [][ScNext]_scVars /\ ScFairness

-----------------------------------------------------------------------------
(* Properties. *)

ScTypeOK ==
    /\ sc \in [kind : ScKinds, held : BOOLEAN,
               state : {"new", "starting", "running", "stopped"},
               termination : BOOLEAN, destroyAsked : BOOLEAN,
               pending : SUBSET ScIds,
               start : {"no", "script", "booting", "exiting"},
               destroy : {"no", "start", "go", "asking", "exiting"},
               script : BOOLEAN, lost : SUBSET {"unwritten", "unremoved"}]
    /\ scPc \in [ScCalls -> {"idle", "waiting", "answered", "failed", "done"}]
    /\ scProc \in [life : {"none", "running", "exited", "lost"},
                   killed : BOOLEAN,
                   inbox : SUBSET ScIds, outbox : SUBSET ScIds]

\* Once a destroy has returned and none is under way, the process is gone or
\* killed, nobody waits for it or for its start, and the temporary directory
\* of the script is removed, whichever start, timeout, exit or bad line the
\* destroy met on its way (destroyInternal, terminate, waitForExit).  Two
\* failures leave a directory behind, and the caller of each is told: the
\* script that cannot be written into it (resolveScript), by the start, and the
\* directory that cannot be removed (cleanupScript), by the destroy.
SidecarLeavesNothing ==
    /\ ((\E d \in ScDestroys : scPc[d] \in {"done", "failed"})
        /\ sc.destroy = "no")
       => /\ ~sc.held /\ sc.pending = {} /\ ~sc.script /\ sc.start = "no"
          /\ scProc.life = "running" => scProc.killed
          /\ \A c \in ScCalls : scPc[c] # "waiting"
    /\ "unwritten" \in sc.lost => \E c \in ScStarts : scPc[c] = "failed"
    /\ "unremoved" \in sc.lost => \E d \in ScDestroys : scPc[d] = "failed"

\* The abstract service: a call is a request or a start.
ScService == INSTANCE RequestService WITH
    Calls <- ScRequests \cup ScStarts,
    life <- IF scProc.life = "none" THEN "new"
            ELSE IF scProc.life = "running" THEN "up" ELSE "down",
    call <- [c \in ScRequests \cup ScStarts |->
               IF scPc[c] = "waiting" THEN "open" ELSE scPc[c]]

\* A request or a start is settled exactly once, it is answered only by a
\* process that lives, which it does once, and it is always settled, whatever
\* the process does: the sidecar implements RequestService.
SidecarServes == ScService!LiveSpec
=============================================================================
