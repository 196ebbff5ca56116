------------------------------ MODULE Downloads ------------------------------
(***************************************************************************)
(* The download manager: DownloadService (src/downloads/download-service.ts)*)
(* over its table download_tasks (download-repository.ts) and over          *)
(* Aria2Backend (download-backend.ts), which spawns one aria2 process and   *)
(* talks JSON-RPC to it.  The aria2 process itself is external: it is       *)
(* modelled from the methods the backend calls.                             *)
(*                                                                          *)
(* Every request of the UI is one call in progress; nothing in the service  *)
(* serialises them.  A call reads its row BEFORE its first await and writes *)
(* a copy of that row back AFTER the last one.  Between two awaits          *)
(* JavaScript runs to completion: a call that is "next" or "rejected" goes  *)
(* on before any other handler (Quiet).  The process may crash at any       *)
(* moment; the table survives, everything else is lost.                     *)
(***************************************************************************)
EXTENDS Naturals, FiniteSets

CONSTANTS
    Tasks,      \* ids that add() may hand out
    Calls,      \* bound: the requests the UI makes, each once
    MaxAtOnce,  \* bound: how many of them are in progress at once
    Gids,       \* aria2 download ids, each issued at most once
    Names,      \* file names of the one target directory
    NoRow,      \* no such row in download_tasks
    NoGid,      \* a row whose backend_id is NULL
    MaxTasks,   \* DownloadServiceOptions.maxTasks
    MaxRuns,    \* bound: how often the service is constructed
    Lossy       \* TRUE: a JSON-RPC request may time out or fail

ASSUME MaxTasksAssumption == MaxTasks \in Nat \ {0}
ASSUME MaxAtOnceAssumption == MaxAtOnce \in Nat \ {0}
ASSUME MaxRunsAssumption == MaxRuns \in Nat \ {0}
ASSUME LossyAssumption == Lossy \in BOOLEAN

Status == {"queued", "starting", "downloading", "paused", "completed",
           "failed", "cancelled", "removed"}

\* isActiveStatus
ActiveStatus == {"queued", "starting", "downloading"}

Row == [status : Status, gid : Gids \cup {NoGid}, name : Names]

\* NULL is no row and no download id.
ASSUME NullAssumption == NoRow \notin Row /\ NoGid \notin Gids

Ops == {"add", "pause", "resume", "cancel", "retry", "remove", "refresh"}

Methods == {"addUri", "pause", "unpause", "forceRemove", "tellStatus",
            "removeResult"}

VARIABLES
    rows,      \* the table download_tasks
    service,   \* DownloadService: "open", "closing", "closed", "down"
    closing,   \* close(): the active rows it read before its await
    shut,      \* shutdown(): "no", "pausing", "stopping", "done"
    process,   \* Aria2Backend.process and processExited
    start,     \* Aria2Backend.startPromise: "no", "port", "ready"
    requests,  \* Aria2Backend.requests: gids with metadata for a retry
    calls,     \* requests of the UI in progress
    aria,      \* the running aria2 process: its downloads
    alive,     \* aria2 processes this backend spawned that still run
    issued,    \* for each gid, the task and the run it was issued in
    run        \* how often the service was constructed

downloadVars == <<rows, service, closing, shut, process, start, requests, calls,
                  aria, alive, issued, run>>

backend == <<shut, process, start, alive>>
lifetime == <<service, closing, run>>

-----------------------------------------------------------------------------
NoRows == [t \in Tasks |-> NoRow]

NoIssue == [task |-> NoRow, run |-> 0]

Idle == [at |-> "idle", op |-> "refresh", id |-> NoRow, left |-> {},
         seen |-> NoRows, method |-> "tellStatus", reply |-> "none",
         gid |-> NoGid]

\* A finished request keeps nothing.
Over == [Idle EXCEPT !.at = "over"]

InProgress == {c \in Calls : calls[c].at \notin {"idle", "over"}}

\* No request outlives its service.
Dropped == [c \in Calls |-> IF c \in InProgress THEN Over ELSE calls[c]]

Listed == {t \in Tasks : rows[t] # NoRow /\ rows[t].status # "removed"}

Active(table) == {t \in Tasks : table[t] # NoRow
                                /\ table[t].status \in ActiveStatus}

\* close writes back, paused, the rows it listed before its await.
Pausing(table, ids, from) ==
    [t \in Tasks |->
        IF t \in ids THEN [from[t] EXCEPT !.status = "paused"] ELSE table[t]]

\* pauseInterruptedTasks, in the constructor.
InterruptedPaused == Pausing(rows, Active(rows), rows)

\* JavaScript runs each handler to its next await before another begins.
Quiet == /\ \A c \in Calls : calls[c].at \notin {"next", "rejected"}
         /\ ~(service = "closing" /\ shut = "done")

\* ensureOpen: only the flag that close sets LAST refuses a request.
EnsureOpen == service \in {"open", "closing"}

\* close is followed at once by the closing of the data layer: a later
\* upsert throws and changes nothing.
Upsert(t, row) ==
    rows' = IF EnsureOpen THEN [rows EXCEPT ![t] = row] ELSE rows

\* Aria2Backend.closed is set by the first step of shutdown.
BackendClosed == shut # "no"

DownloadsInit ==
    /\ rows = NoRows
    /\ service = "open"
    /\ closing = NoRows
    /\ shut = "no"
    /\ process = "none"
    /\ start = "no"
    /\ requests = {}
    /\ calls = [c \in Calls |-> Idle]
    /\ aria = [g \in Gids |-> "unknown"]
    /\ alive = 0
    /\ issued = [g \in Gids |-> NoIssue]
    /\ run = 1

-----------------------------------------------------------------------------
(* Requests of the UI. *)

\* A request may come in: nothing else is running its code, and the service
\* is open.
Arrives(c) ==
    /\ Quiet /\ EnsureOpen
    /\ calls[c].at = "idle"
    /\ Cardinality(InProgress) < MaxAtOnce

\* A bug: refresh goes on with the download id of the row before.
MutBegins(c, op, ids, seen) ==
    \E id \in ids :
        calls' = [calls EXCEPT ![c] =
            [Idle EXCEPT !.at = "next", !.op = op, !.id = id,
                         !.left = ids \ {id}, !.seen = seen,
                         !.gid = IF calls[c].at = "idle" THEN seen[id].gid
                                 ELSE calls[c].gid,
                         !.method = CASE op = "add" -> "addUri"
                                      [] op = "pause" -> "pause"
                                      [] op = "resume" -> "unpause"
                                      [] op \in {"cancel", "remove"} ->
                                            "forceRemove"
                                      [] OTHER -> "tellStatus"]]

\* The call c starts work on the rows of ids, as its copy `seen` has them.
Begins(c, op, ids, seen) ==
    \E id \in ids :
        calls' = [calls EXCEPT ![c] =
            [Idle EXCEPT !.at = "next", !.op = op, !.id = id,
                         !.left = ids \ {id}, !.seen = seen,
                         !.gid = seen[id].gid,
                         !.method = CASE op = "add" -> "addUri"
                                      [] op = "pause" -> "pause"
                                      [] op = "resume" -> "unpause"
                                      [] op \in {"cancel", "remove"} ->
                                            "forceRemove"
                                      [] OTHER -> "tellStatus"]]

UsedNames == {rows[t].name : t \in Listed}

\* add: the limit, a free file name, the row "queued", then the backend.
Add(c, t) ==
    /\ Arrives(c)
    /\ rows[t] = NoRow
    /\ Cardinality(Listed) < MaxTasks
    /\ \E n \in Names \ UsedNames :
          LET row == [status |-> "queued", gid |-> NoGid, name |-> n] IN
          /\ rows' = [rows EXCEPT ![t] = row]
          /\ Begins(c, "add", {t}, [NoRows EXCEPT ![t] = row])
    /\ UNCHANGED <<backend, lifetime, requests, aria, issued>>

\* mutate, for every operation but retry: no check of the row's status.
Mutate(c, t, op) ==
    /\ Arrives(c)
    /\ op \in {"pause", "resume", "cancel", "remove"}
    /\ rows[t] # NoRow /\ rows[t].gid # NoGid
    /\ Begins(c, op, {t}, [NoRows EXCEPT ![t] = rows[t]])
    /\ UNCHANGED <<rows, backend, lifetime, requests, aria, issued>>

\* A bug: the reset before a retry forgets to ask whether the process exited.
MutRetry(c, t) ==
    /\ Arrives(c)
    /\ rows[t] # NoRow /\ rows[t].gid # NoGid
    /\ Begins(c, "retry", {t}, [NoRows EXCEPT ![t] = rows[t]])
    /\ process' = "none"
    /\ UNCHANGED <<rows, lifetime, shut, start, alive, requests, aria, issued>>

\* retry: resetExitedProcessForExplicitRetry runs before ensureStarted.
Retry(c, t) ==
    /\ Arrives(c)
    /\ rows[t] # NoRow /\ rows[t].gid # NoGid
    /\ Begins(c, "retry", {t}, [NoRows EXCEPT ![t] = rows[t]])
    /\ process' = IF process = "exited" THEN "none" ELSE process
    /\ UNCHANGED <<rows, lifetime, shut, start, alive, requests, aria, issued>>

\* refresh works through one listTasks(), row after row.
Refresh(c) ==
    /\ Arrives(c)
    /\ LET ids == {t \in Active(rows) : rows[t].gid # NoGid}
       IN  ids # {} /\ Begins(c, "refresh", ids, rows)
    /\ UNCHANGED <<rows, backend, lifetime, requests, aria, issued>>

-----------------------------------------------------------------------------
(* ensureStarted and the start of the process. *)

\* Three outcomes: refused; the process is there; wait for startPromise.
EnsureStarted(c) ==
    /\ calls[c].at = "next"
    /\ \/ /\ BackendClosed \/ process = "exited"
          /\ calls' = [calls EXCEPT ![c].at = "rejected"]
          /\ UNCHANGED start
       \/ /\ ~BackendClosed /\ process = "up"
          /\ calls' = [calls EXCEPT ![c].at = "sent"]
          /\ UNCHANGED start
       \/ /\ ~BackendClosed /\ process = "none"
          /\ calls' = [calls EXCEPT ![c].at = "starting"]
          /\ start' = IF start = "no" THEN "port" ELSE start
    /\ UNCHANGED <<rows, lifetime, shut, process, alive, requests, aria, issued>>

\* The port is found and the process spawned; nothing looks at `closed`.
Spawn ==
    /\ Quiet /\ service # "down"
    /\ start = "port"
    /\ start' = "ready"
    /\ process' = "up"
    /\ alive' = alive + 1
    /\ aria' = [g \in Gids |-> "unknown"]
    /\ UNCHANGED <<rows, lifetime, shut, requests, calls, issued>>

\* startPromise resolves: every call that awaits it sends its request.  The
\* status() of a retry asks ensureStarted once more, and catches its refusal.
StartReady ==
    /\ Quiet /\ service # "down"
    /\ start = "ready" /\ process = "up"
    /\ start' = "no"
    /\ calls' = [c \in Calls |->
          IF calls[c].at # "starting" THEN calls[c]
          ELSE IF calls[c].op = "retry" /\ BackendClosed
               THEN [calls[c] EXCEPT !.at = "answered", !.reply = "rejected"]
               ELSE [calls[c] EXCEPT !.at = "sent"]]
    /\ UNCHANGED <<rows, lifetime, shut, process, alive, requests, aria, issued>>

\* A bug: a failed start clears startPromise and settles nobody.
MutStartFails ==
    /\ Quiet /\ service # "down"
    /\ start \in {"port", "ready"}
    /\ start' = "no"
    /\ UNCHANGED <<rows, lifetime, shut, process, alive, requests, calls,
                   aria, issued>>

\* startPromise rejects every call that awaits it: no port, or no answer
\* before the deadline of waitForRpcReady.  A spawned process stays set.
StartFails ==
    /\ Quiet /\ service # "down"
    /\ start \in {"port", "ready"}
    /\ start' = "no"
    /\ calls' = [c \in Calls |->
          IF calls[c].at = "starting" THEN [calls[c] EXCEPT !.at = "rejected"]
          ELSE calls[c]]
    /\ UNCHANGED <<rows, lifetime, shut, process, alive, requests, aria, issued>>

-----------------------------------------------------------------------------
(* The aria2 process (external): how it answers a request that was sent. *)

\* What tellStatus says of a download, through mapAria2Status.
Reported(state) == CASE state = "running" -> {"downloading", "queued"}
                     [] state = "paused" -> {"paused"}
                     [] state = "complete" -> {"completed"}
                     [] state = "error" -> {"failed"}
                     [] state = "removed" -> {"removed"}
                     [] state = "unknown" -> {"rejected"}

Answers(c, reply, gid) ==
    calls' = [calls EXCEPT ![c].at = "answered", ![c].reply = reply,
                           ![c].gid = gid]

\* A method that is legal in the states `from` moves the download to `to`.
Moves(c, from, to) ==
    LET g == calls[c].gid IN
    \/ /\ aria[g] \in from
       /\ aria' = [aria EXCEPT ![g] = to]
       /\ Answers(c, "done", g)
    \/ /\ aria[g] \notin from
       /\ Answers(c, "rejected", g)
       /\ UNCHANGED aria

Handles(c) ==
    LET call == calls[c] IN
    /\ call.at = "sent" /\ process = "up"
    /\ \/ /\ call.method = "addUri"
          /\ \E g \in Gids :
                /\ issued[g] = NoIssue
                /\ issued' = [issued EXCEPT ![g] =
                                 [task |-> call.id, run |-> run]]
                /\ aria' = [aria EXCEPT ![g] = "running"]
                /\ Answers(c, "done", g)
       \/ /\ \/ /\ call.method = "pause"
                /\ Moves(c, {"running"}, "paused")
             \/ /\ call.method = "unpause"
                /\ Moves(c, {"paused"}, "running")
             \/ /\ call.method = "forceRemove"
                /\ Moves(c, {"running", "paused"}, "removed")
             \/ /\ call.method = "removeResult"
                /\ Moves(c, {"complete", "error", "removed"}, "unknown")
             \/ /\ call.method = "tellStatus"
                /\ \E reply \in Reported(aria[call.gid]) :
                      Answers(c, reply, call.gid)
                /\ UNCHANGED aria
          /\ UNCHANGED issued
    /\ UNCHANGED <<rows, backend, lifetime, requests>>

\* No answer: a timeout or a failed request, its effect done or not; or the
\* listener of a process that just started refuses the connection.
Unanswered(c) ==
    /\ calls[c].at \in {"sent", "answered"}
    /\ calls[c].reply # "rejected"
    /\ Lossy \/ (calls[c].at = "sent" /\ start = "ready")
    /\ calls' = [calls EXCEPT ![c].at = "answered", ![c].reply = "rejected"]
    /\ UNCHANGED <<rows, backend, lifetime, requests, aria, issued>>

\* A download ends by itself.
DownloadEnds ==
    /\ \E g \in Gids, state \in {"complete", "error"} :
          aria[g] = "running" /\ aria' = [aria EXCEPT ![g] = state]
    /\ UNCHANGED <<rows, backend, lifetime, requests, calls, issued>>

\* The exit or error event: requests on the wire fail with it.
ProcessExits ==
    /\ Quiet
    /\ process = "up"
    /\ process' = "exited"
    /\ alive' = alive - 1
    /\ aria' = [g \in Gids |-> "unknown"]
    /\ calls' = [c \in Calls |->
          IF calls[c].at = "sent"
          THEN [calls[c] EXCEPT !.at = "answered", !.reply = "rejected"]
          ELSE calls[c]]
    /\ UNCHANGED <<rows, lifetime, shut, start, requests, issued>>

-----------------------------------------------------------------------------
(* What a call does with an answer. *)

\* A bug: rpc does not look whether the process is still there.
MutSends(c, method) ==
    calls' = [calls EXCEPT ![c].at = "sent", ![c].method = method,
                           ![c].reply = "none"]

\* rpc: the request goes out, or fails at once when the process is gone.
Sends(c, method) ==
    calls' = [calls EXCEPT
        ![c].at = IF process = "up" THEN "sent" ELSE "answered",
        ![c].method = method,
        ![c].reply = IF process = "up" THEN "none" ELSE "rejected"]

\* status() after pause or unpause passes through ensureStarted again.
AsksStatus(c) ==
    calls' = [calls EXCEPT ![c].at = "next", ![c].method = "tellStatus",
                           ![c].reply = "none", ![c].op =
                               IF calls[c].op = "retry" THEN "resume"
                               ELSE calls[c].op]

\* The call is over, or refresh goes on with another row of its list.
GoesOn(c) ==
    IF calls[c].left = {} THEN calls' = [calls EXCEPT ![c] = Over]
    ELSE Begins(c, calls[c].op, calls[c].left, calls[c].seen)

\* applySnapshot on the copy of the row that the call read at its start.
Applies(c, status) ==
    /\ Upsert(calls[c].id,
              [calls[c].seen[calls[c].id] EXCEPT !.status = status,
                                                 !.gid = calls[c].gid])
    /\ GoesOn(c)

\* A bug: the catch of add rethrows and leaves its row as it is.
MutRejected(c) ==
    /\ calls[c].at = "rejected"
    /\ IF calls[c].op = "add" THEN UNCHANGED rows
       ELSE Upsert(calls[c].id,
                   [calls[c].seen[calls[c].id] EXCEPT !.status = "failed"])
    /\ GoesOn(c)
    /\ UNCHANGED <<backend, lifetime, requests, aria, issued>>

\* applyFailure, in the catch of add, mutate and refresh.
Rejected(c) ==
    /\ calls[c].at = "rejected"
    /\ Upsert(calls[c].id,
              [calls[c].seen[calls[c].id] EXCEPT !.status = "failed"])
    /\ GoesOn(c)
    /\ UNCHANGED <<backend, lifetime, requests, aria, issued>>

Throws(c) == calls' = [calls EXCEPT ![c].at = "rejected"]

\* A new gid: `requests` remembers what it downloads.
UriAdded(c) ==
    LET call == calls[c]
        old == call.seen[call.id].gid
    IN  /\ call.method = "addUri" /\ call.reply = "done"
        /\ requests' = (requests \ {old}) \cup {call.gid}
        /\ Applies(c, "starting")

Stepped(c) ==
    LET call == calls[c] IN
    /\ call.reply = "done"
    /\ \/ /\ call.method \in {"pause", "unpause"}
          /\ AsksStatus(c)
          /\ UNCHANGED rows
       \/ /\ call.method = "forceRemove"
          /\ Applies(c, IF call.op = "remove" THEN "removed" ELSE "cancelled")

StatusKnown(c) ==
    LET call == calls[c] IN
    /\ call.method = "tellStatus" /\ call.op # "retry"
    /\ call.reply # "rejected"
    /\ Applies(c, call.reply)

\* retry: resume what is paused, keep what runs or is done ...
RetryKeeps(c) ==
    LET call == calls[c] IN
    /\ call.method = "tellStatus" /\ call.op = "retry"
    /\ \/ /\ call.reply \in {"paused", "queued"}
          /\ Sends(c, "unpause")
          /\ UNCHANGED rows
       \/ /\ call.reply \in {"completed", "downloading"}
          /\ Applies(c, call.reply)

\* A bug: a retry hands in again a download that still runs.
MutRetryResubmits(c) ==
    LET call == calls[c] IN
    /\ call.op = "retry"
    /\ \/ /\ call.method = "tellStatus"
          /\ IF call.gid \in requests THEN Sends(c, "removeResult")
                                      ELSE Throws(c)
       \/ /\ call.method = "removeResult"
          /\ Sends(c, "addUri")
    /\ UNCHANGED rows

\* ... and hand in again what failed, was removed or could not be asked for.
RetryResubmits(c) ==
    LET call == calls[c] IN
    /\ call.op = "retry"
    /\ \/ /\ call.method = "tellStatus"
          /\ call.reply \in {"failed", "removed", "rejected"}
          /\ IF call.gid \in requests THEN Sends(c, "removeResult")
                                      ELSE Throws(c)
       \/ /\ call.method = "removeResult"
          /\ Sends(c, "addUri")
    /\ UNCHANGED rows

Fails(c) ==
    LET call == calls[c] IN
    /\ call.reply = "rejected"
    /\ \/ call.method \in {"addUri", "pause", "unpause", "forceRemove"}
       \/ call.method = "tellStatus" /\ call.op # "retry"
    /\ Throws(c)
    /\ UNCHANGED rows

Answered(c) ==
    /\ Quiet /\ service # "down"
    /\ calls[c].at = "answered"
    /\ \/ UriAdded(c)
       \/ /\ \/ Stepped(c)
             \/ StatusKnown(c)
             \/ RetryKeeps(c)
             \/ RetryResubmits(c)
             \/ Fails(c)
          /\ UNCHANGED requests
    /\ UNCHANGED <<backend, lifetime, aria, issued>>

-----------------------------------------------------------------------------
(* Shutdown, crash and restart. *)

\* close: the active rows are read before shutdown is awaited.
Close ==
    /\ Quiet
    /\ service = "open"
    /\ service' = "closing"
    /\ closing' = [t \in Tasks |-> IF t \in Active(rows) THEN rows[t] ELSE NoRow]
    /\ shut' = IF process = "up" THEN "pausing" ELSE "done"
    /\ UNCHANGED <<rows, process, start, alive, requests, calls, aria, issued, run>>

\* A bug: a failed pauseAll is not caught and shutdown never goes on.
MutPauseAll ==
    /\ Quiet /\ service # "down"
    /\ shut = "pausing"
    /\ shut' = "stopping"
    /\ process = "up"
    /\ aria' = [g \in Gids |-> IF aria[g] = "running" THEN "paused"
                               ELSE aria[g]]
    /\ UNCHANGED <<rows, lifetime, process, start, alive, requests, calls, issued>>

\* pauseAll is answered or fails: either way shutdown goes on.
PauseAll ==
    /\ Quiet /\ service # "down"
    /\ shut = "pausing"
    /\ shut' = "stopping"
    /\ \/ /\ process = "up"
          /\ aria' = [g \in Gids |-> IF aria[g] = "running" THEN "paused"
                                     ELSE aria[g]]
       \/ /\ Lossy \/ process # "up" \/ start = "ready"
          /\ UNCHANGED aria
    /\ UNCHANGED <<rows, lifetime, process, start, alive, requests, calls, issued>>

\* The process is gone, or it is killed when the wait for its exit is over.
ShutdownEnds ==
    /\ Quiet /\ service # "down"
    /\ shut = "stopping"
    /\ shut' = "done"
    /\ process' = "exited"
    /\ alive' = IF process = "up" THEN alive - 1 ELSE alive
    /\ aria' = [g \in Gids |-> "unknown"]
    /\ calls' = [c \in Calls |->
          IF calls[c].at = "sent"
          THEN [calls[c] EXCEPT !.at = "answered", !.reply = "rejected"]
          ELSE calls[c]]
    /\ UNCHANGED <<rows, lifetime, start, requests, issued>>

\* The rest of close: the copies it read come back as "paused".
CloseEnds ==
    /\ service = "closing" /\ shut = "done"
    /\ service' = "closed"
    /\ rows' = Pausing(rows, Active(closing), closing)
    /\ closing' = NoRows
    /\ UNCHANGED <<backend, requests, calls, aria, issued, run>>

\* close called again meanwhile: `closed` is not set yet, shutdown returns.
CloseAgain ==
    /\ Quiet
    /\ service = "closing"
    /\ service' = "closed"
    /\ rows' = Pausing(rows, Active(rows), rows)
    /\ closing' = NoRows
    /\ UNCHANGED <<backend, requests, calls, aria, issued, run>>

\* The application dies: only the table is left.
Crash ==
    /\ service \in {"open", "closing"}
    /\ service' = "down"
    /\ closing' = NoRows
    /\ calls' = Dropped
    /\ UNCHANGED <<rows, backend, requests, aria, issued, run>>

\* The constructor of the next DownloadService, with a new backend.
Restart ==
    /\ service \in {"closed", "down"}
    /\ run < MaxRuns
    /\ run' = run + 1
    /\ service' = "open"
    /\ rows' = InterruptedPaused
    /\ shut' = "no" /\ process' = "none" /\ start' = "no" /\ alive' = 0
    /\ requests' = {}
    /\ calls' = Dropped
    /\ aria' = [g \in Gids |-> "unknown"]
    /\ UNCHANGED <<closing, issued>>

-----------------------------------------------------------------------------
Requested == \E c \in Calls :
    \/ Refresh(c)
    \/ \E t \in Tasks : Add(c, t) \/ Retry(c, t)
    \/ \E t \in Tasks, op \in Ops : Mutate(c, t, op)

Continued == \E c \in Calls : EnsureStarted(c) \/ Rejected(c) \/ Answered(c)

External == \/ \E c \in Calls : Handles(c) \/ Unanswered(c)
            \/ DownloadEnds \/ ProcessExits

Lifecycle == \/ Spawn \/ StartReady \/ StartFails
             \/ Close \/ PauseAll \/ ShutdownEnds \/ CloseEnds \/ CloseAgain
             \/ Crash \/ Restart

DownloadsNext == Requested \/ Continued \/ External \/ Lifecycle

DownloadsSpec == DownloadsInit /\ [][DownloadsNext]_downloadVars

\* The event loop runs what is ready, every fetch has its timeout, and the
\* deadline of waitForRpcReady and the wait of shutdown are timers.
DownloadsFairness ==
    /\ \A c \in Calls : /\ WF_downloadVars(EnsureStarted(c) \/ Rejected(c))
                        /\ WF_downloadVars(Answered(c))
                        /\ WF_downloadVars(Handles(c) \/ Unanswered(c))
    /\ WF_downloadVars(Spawn \/ StartReady \/ StartFails)
    /\ WF_downloadVars(PauseAll) /\ WF_downloadVars(ShutdownEnds)
    /\ WF_downloadVars(CloseEnds)

DownloadsFairSpec == DownloadsSpec /\ DownloadsFairness

-----------------------------------------------------------------------------
(* Properties. *)

Call == [at : {"idle", "over", "next", "starting", "sent", "answered", "rejected"},
         op : Ops, id : Tasks \cup {NoRow}, left : SUBSET Tasks,
         seen : [Tasks -> Row \cup {NoRow}], method : Methods,
         reply : Status \cup {"none", "done", "rejected"},
         gid : Gids \cup {NoGid}]

\* Every variable has its type; a request is on the wire only while the
\* process is up (rpc throws otherwise).
DownloadsTypeOK ==
    /\ rows \in [Tasks -> Row \cup {NoRow}]
    /\ service \in {"open", "closing", "closed", "down"}
    /\ closing \in [Tasks -> Row \cup {NoRow}]
    /\ shut \in {"no", "pausing", "stopping", "done"}
    /\ process \in {"none", "up", "exited"}
    /\ start \in {"no", "port", "ready"}
    /\ requests \in SUBSET Gids
    /\ calls \in [Calls -> Call]
    /\ aria \in [Gids -> {"unknown", "running", "paused", "complete", "error",
                          "removed"}]
    /\ alive \in Nat
    /\ issued \in [Gids -> [task : Tasks \cup {NoRow}, run : 0..MaxRuns]]
    /\ run \in 1..MaxRuns
    /\ \A c \in Calls : calls[c].at = "sent" => process = "up"

BeingAdded(t) ==
    rows[t] # NoRow /\ rows[t].status = "queued" /\ rows[t].gid = NoGid

\* No row pretends, however late a call comes back.  A row that shows an active
\* download names a download of THIS run: what an earlier run left behind was
\* paused by the constructor (pauseInterruptedTasks).  A row "queued" without a
\* download has its add() still at work, also after a failure, a refused start
\* or a restart.
ActiveRowsAreReal ==
    EnsureOpen => \A t \in Active(rows) :
        IF BeingAdded(t)
        THEN \E c \in InProgress : calls[c].op = "add" /\ calls[c].id = t
        ELSE rows[t].gid # NoGid /\ issued[rows[t].gid].run = run

\* Rows and calls are never wired to the download of another task, although
\* every write puts back a copy read before the awaits and a retry replaces
\* the id: pausing or removing one task cannot hit another one's download.
GidsWired ==
    /\ \A t \in Tasks : rows[t] # NoRow /\ rows[t].gid # NoGid
                            => issued[rows[t].gid].task = t
    /\ \A c \in InProgress : calls[c].gid # NoGid
                            => issued[calls[c].gid].task = calls[c].id

\* However often the process exits and a retry asks for another, also while
\* calls wait for its start or shutdown kills it, the backend knows of every
\* aria2 process it spawned and never has two of them running.
SingleProcess == alive = IF process = "up" THEN 1 ELSE 0

\* With one request at a time and a JSON-RPC that answers, no download runs
\* on behind the user's back: what aria2 still holds is what its row names.
DownloadsAreOwned ==
    service = "open" => \A g \in Gids : aria[g] \in {"running", "paused"} =>
        \/ rows[issued[g].task].gid = g
        \/ \E c \in InProgress : calls[c].gid = g

\* An added task leaves "queued": its download starts, or it fails, or the
\* service goes down.
AddsSettle ==
    \A t \in Tasks :
        (EnsureOpen /\ BeingAdded(t)) ~> (~EnsureOpen \/ ~BeingAdded(t))

\* close() comes to its end whatever aria2 does.
CloseSettles == service = "closing" ~> service # "closing"

-----------------------------------------------------------------------------
(* What docs and tests say, and the code does not do. *)

\* docs/spike-64-download-manager.md: shutdown asks the managed process to
\* stop, waits, then terminates it.  After it no aria2 process is left.
ShutdownStopsProcess == shut = "done" => process # "up"
=============================================================================
