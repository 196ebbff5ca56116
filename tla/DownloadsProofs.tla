--------------------------- MODULE DownloadsProofs ---------------------------
(***************************************************************************)
(* The safety of Downloads for any number of tasks, requests, download ids *)
(* and restarts, over a JSON-RPC that may lose answers or not.             *)
(*                                                                         *)
(* A request carries copies of rows, a download id and an answer across    *)
(* its awaits, and writes them back.  The inductive invariant says of each *)
(* request what these may be (CallOK): its copies and its id are wired to  *)
(* its task, and an answer that is no refusal names a download of this run *)
(* of the service.                                                         *)
(*                                                                         *)
(* The last part is about the instance with one request at a time: that    *)
(* each of its steps is one of Downloads (OneIsOne), and that nothing     *)
(* aria2 holds is left behind (AloneInv).                                  *)
(***************************************************************************)
EXTENDS MCDownloadsSafety, FiniteSetTheorems, TLAPS

\* Download g was issued, for task t.
IssuedTo(iss, g, t) == iss[g] # NoIssue /\ iss[g].task = t

RowWired(row, t, iss) ==
    row # NoRow /\ row.gid # NoGid => IssuedTo(iss, row.gid, t)

\* A request in progress, over the downloads issued and the number of the run.
CallOK(call, iss, r) ==
    /\ \A t \in Tasks : RowWired(call.seen[t], t, iss)
    /\ call.at \notin {"idle", "over"} =>
          /\ call.id \in Tasks
          /\ \A t \in call.left \cup {call.id} : call.seen[t] # NoRow
          /\ call.gid # NoGid => IssuedTo(iss, call.gid, call.id)
          /\ IF call.op = "add" THEN call.method = "addUri" /\ call.left = {}
             ELSE /\ call.gid # NoGid
                  /\ \A t \in call.left : call.seen[t].gid # NoGid
          /\ call.at = "answered" =>
                /\ call.reply # "none"
                /\ call.method = "tellStatus" => call.reply # "done"
                /\ call.reply # "rejected" =>
                      call.gid # NoGid /\ iss[call.gid].run = r

CallsOK == \A c \in Calls : CallOK(calls[c], issued, run)

RowsWired == \A t \in Tasks : /\ RowWired(rows[t], t, issued)
                              /\ RowWired(closing[t], t, issued)

\* What aria2 holds was handed in by this run.
AriaOfRun == \A g \in Gids : aria[g] # "unknown" => issued[g].run = run

\* The process is spawned only where none runs.
Processes == SingleProcess /\ (start = "port" => process # "up")

IInv == /\ DownloadsTypeOK /\ CallsOK /\ RowsWired /\ AriaOfRun /\ Processes
        /\ ActiveRowsAreReal
-----------------------------------------------------------------------------
(* What the helpers of the actions leave behind. *)

\* Downloads are only ever added to `issued`.
LEMMA RowsGrow ==
  ASSUME NEW iss, NEW later,
         \A g \in Gids : later[g] = iss[g] \/ iss[g] = NoIssue
  PROVE  /\ \A g \in Gids, t \in Tasks : IssuedTo(iss, g, t) => IssuedTo(later, g, t)
         /\ \A t \in Tasks, row \in Row \cup {NoRow} :
               RowWired(row, t, iss) => RowWired(row, t, later)
<1> USE NullAssumption
<1>1. \A g \in Gids, t \in Tasks : IssuedTo(iss, g, t) => IssuedTo(later, g, t)
  BY DEF IssuedTo
<1> QED
  BY <1>1 DEF RowWired, Row

\* So is what a call relies on.
LEMMA IssuedGrows ==
  ASSUME NEW call, NEW iss, NEW later, NEW r,
         call.gid \in Gids \cup {NoGid},
         call.seen \in [Tasks -> Row \cup {NoRow}],
         \A g \in Gids : later[g] = iss[g] \/ iss[g] = NoIssue
  PROVE  CallOK(call, iss, r) => CallOK(call, later, r)
<1> USE NullAssumption
<1>1. \A g \in Gids, t \in Tasks : IssuedTo(iss, g, t) => IssuedTo(later, g, t)
  BY RowsGrow
<1>2. \A t \in Tasks, row \in Row \cup {NoRow} :
         RowWired(row, t, iss) => RowWired(row, t, later)
  BY RowsGrow
<1>3. ASSUME CallOK(call, iss, r) PROVE CallOK(call, later, r)
  <2>1. \A t \in Tasks : RowWired(call.seen[t], t, later)
    BY <1>2, <1>3 DEF CallOK
  <2>2. call.gid # NoGid /\ IssuedTo(iss, call.gid, call.id)
           => /\ IssuedTo(later, call.gid, call.id)
              /\ later[call.gid] = iss[call.gid]
    BY DEF IssuedTo
  <2> QED
    BY <1>3, <2>1, <2>2 DEF CallOK
<1> QED
  BY <1>2, <1>3

\* What a request may begin with: copies of rows, a download id for each.
Readable(op, ids, seen) ==
    /\ op \in Ops /\ ids \in SUBSET Tasks
    /\ seen \in [Tasks -> Row \cup {NoRow}]
    /\ \A t \in Tasks : RowWired(seen[t], t, issued)
    /\ \A t \in ids : seen[t] # NoRow
    /\ IF op = "add" THEN \E t \in Tasks : ids = {t}
       ELSE \A t \in ids : seen[t].gid # NoGid

LEMMA BeginsOK ==
  ASSUME DownloadsTypeOK, NEW c \in Calls, NEW op, NEW ids, NEW seen,
         Readable(op, ids, seen), Begins(c, op, ids, seen)
  PROVE  /\ calls' \in [Calls -> Call]
         /\ \A d \in Calls : d # c => calls'[d] = calls[d]
         /\ calls'[c].at = "next" /\ calls'[c].op = op /\ calls'[c].id \in ids
         /\ CallOK(calls'[c], issued, run)
<1>1. PICK id \in ids : calls' = [calls EXCEPT ![c] =
            [Idle EXCEPT !.at = "next", !.op = op, !.id = id,
                         !.left = ids \ {id}, !.seen = seen,
                         !.gid = seen[id].gid,
                         !.method = CASE op = "add" -> "addUri"
                                      [] op = "pause" -> "pause"
                                      [] op = "resume" -> "unpause"
                                      [] op \in {"cancel", "remove"} ->
                                            "forceRemove"
                                      [] OTHER -> "tellStatus"]]
  BY DEF Begins
<1>2. seen[id] \in Row /\ id \in Tasks /\ op \in Ops /\ ids \in SUBSET Tasks
      /\ seen \in [Tasks -> Row \cup {NoRow}]
  BY <1>1 DEF Readable
<1>3. /\ calls'[c].at = "next" /\ calls'[c].op = op /\ calls'[c].id = id
      /\ calls'[c].left = ids \ {id} /\ calls'[c].seen = seen
      /\ calls'[c].gid = seen[id].gid /\ calls'[c].reply = "none"
      /\ calls'[c].method \in Methods
      /\ op = "add" => calls'[c].method = "addUri"
      /\ calls'[c] \in Call
      /\ \A d \in Calls : d # c => calls'[d] = calls[d]
      /\ calls' \in [Calls -> Call]
  BY <1>1, <1>2 DEF DownloadsTypeOK, Idle, Call, Ops, Methods, Row
<1>4. CallOK(calls'[c], issued, run)
  BY <1>1, <1>2, <1>3 DEF CallOK, RowWired, Readable
<1> QED
  BY <1>1, <1>3, <1>4

\* A request writes its row and is over, or goes on with its next one.
LEMMA GoesOnOK ==
  ASSUME DownloadsTypeOK, NEW c \in InProgress, CallOK(calls[c], issued, run),
         GoesOn(c)
  PROVE  /\ calls' \in [Calls -> Call]
         /\ \A d \in Calls : d # c => calls'[d] = calls[d]
         /\ calls'[c].at \in {"over", "next"}
         /\ CallOK(calls'[c], issued, run)
<1>1. c \in Calls /\ calls[c] \in Call
  BY DEF InProgress, DownloadsTypeOK
<1>2. CASE calls[c].left = {}
  <2>1. calls' = [calls EXCEPT ![c] = Over]
    BY <1>2 DEF GoesOn
  <2>2. Over \in Call /\ Over.at = "over" /\ Over.seen = NoRows
    BY DEF Over, Idle, Call, Ops, Methods, NoRows
  <2>3. CallOK(Over, issued, run)
    BY <2>2 DEF CallOK, RowWired, NoRows
  <2> QED
    BY <1>1, <2>1, <2>2, <2>3 DEF DownloadsTypeOK
<1>3. CASE calls[c].left # {}
  <2>1. Begins(c, calls[c].op, calls[c].left, calls[c].seen)
    BY <1>3 DEF GoesOn
  <2>2. Readable(calls[c].op, calls[c].left, calls[c].seen)
    BY <1>3, <1>1 DEF CallOK, InProgress, Call, Readable
  <2> QED
    BY <1>1, <2>1, <2>2, BeginsOK
<1> QED
  BY <1>2, <1>3
\* A row stays real while its add is at work and downloads keep their run.
LEMMA RowsStayReal ==
  ASSUME IInv, UNCHANGED <<rows, service, run>>,
         \A g \in Gids : issued'[g] = issued[g] \/ issued[g] = NoIssue,
         \A d \in InProgress : calls[d].op = "add" =>
            /\ calls'[d].at \notin {"idle", "over"}
            /\ calls'[d].op = "add" /\ calls'[d].id = calls[d].id
  PROVE  ActiveRowsAreReal'
<1> SUFFICES ASSUME EnsureOpen', NEW t \in Active(rows)'
             PROVE  IF BeingAdded(t)'
                    THEN \E c \in InProgress' : calls'[c].op = "add"
                                                /\ calls'[c].id = t
                    ELSE rows'[t].gid # NoGid
                         /\ issued'[rows'[t].gid].run = run'
  BY DEF ActiveRowsAreReal
<1>1. EnsureOpen /\ t \in Active(rows)
  BY DEF EnsureOpen, Active
<1>2. CASE BeingAdded(t)
  <2>1. PICK c \in InProgress : calls[c].op = "add" /\ calls[c].id = t
    BY <1>1, <1>2 DEF IInv, ActiveRowsAreReal
  <2>2. BeingAdded(t)'
    BY <1>2 DEF BeingAdded
  <2> QED
    BY <2>1, <2>2 DEF InProgress
<1>3. CASE ~BeingAdded(t)
  <2>1. rows[t].gid # NoGid /\ issued[rows[t].gid].run = run
    BY <1>1, <1>3 DEF IInv, ActiveRowsAreReal
  <2>2. rows[t] \in Row /\ t \in Tasks /\ rows[t] # NoRow
    BY <1>1 DEF Active, IInv, DownloadsTypeOK
  <2>3. IssuedTo(issued, rows[t].gid, t)
    BY <2>1, <2>2 DEF IInv, RowsWired, RowWired
  <2>4. ~BeingAdded(t)'
    BY <1>3 DEF BeingAdded
  <2> QED
    BY <2>1, <2>2, <2>3, <2>4 DEF IssuedTo, Row
<1> QED
  BY <1>2, <1>3

\* A step of one request that issues no download and writes no row.
LEMMA OneCall ==
  ASSUME IInv, NEW c \in Calls, calls' \in [Calls -> Call],
         \A d \in Calls : d # c => calls'[d] = calls[d],
         CallOK(calls'[c], issued, run),
         calls'[c].at = "sent" => process' = "up",
         process = "up" => process' = "up",
         UNCHANGED <<rows, closing, service, issued, run>>,
         c \in InProgress /\ calls[c].op = "add" =>
            /\ calls'[c].at \notin {"idle", "over"}
            /\ calls'[c].op = "add" /\ calls'[c].id = calls[c].id
  PROVE  /\ CallsOK' /\ RowsWired' /\ ActiveRowsAreReal'
         /\ \A d \in Calls : calls'[d].at = "sent" => process' = "up"
<1>1. CallsOK'
  BY DEF IInv, CallsOK, CallOK, RowWired, IssuedTo
<1>2. RowsWired'
  BY DEF IInv, RowsWired, RowWired, IssuedTo
<1>3. ActiveRowsAreReal'
  BY RowsStayReal DEF InProgress
<1> QED
  BY <1>1, <1>2, <1>3 DEF IInv, DownloadsTypeOK
\* A request writes its row and goes on.
LEMMA WritesOK ==
  ASSUME IInv, NEW c \in InProgress, GoesOn(c),
         NEW row \in Row, Upsert(calls[c].id, row),
         RowWired(row, calls[c].id, issued),
         row.status \in ActiveStatus =>
            row.gid # NoGid /\ issued[row.gid].run = run,
         UNCHANGED <<process, closing, service, issued, run>>
  PROVE  /\ calls' \in [Calls -> Call] /\ rows' \in [Tasks -> Row \cup {NoRow}]
         /\ CallsOK' /\ RowsWired' /\ ActiveRowsAreReal'
         /\ \A d \in Calls : calls'[d].at = "sent" => process' = "up"
<1>1. /\ calls' \in [Calls -> Call]
      /\ \A d \in Calls : d # c => calls'[d] = calls[d]
      /\ calls'[c].at \in {"over", "next"}
      /\ CallOK(calls'[c], issued, run)
  BY GoesOnOK DEF IInv, CallsOK, InProgress
<1>2. c \in Calls /\ calls[c].id \in Tasks
  BY DEF IInv, CallsOK, CallOK, InProgress
<1>3. rows' \in [Tasks -> Row \cup {NoRow}]
  BY DEF Upsert, IInv, DownloadsTypeOK
<1>4. CallsOK'
  BY <1>1 DEF IInv, CallsOK, CallOK, RowWired, IssuedTo
<1>5. RowsWired'
  BY DEF IInv, RowsWired, RowWired, IssuedTo, Upsert, DownloadsTypeOK
<1>6. ActiveRowsAreReal'
  <2> SUFFICES ASSUME EnsureOpen', NEW t \in Active(rows)'
               PROVE  IF BeingAdded(t)'
                      THEN \E d \in InProgress' : calls'[d].op = "add"
                                                  /\ calls'[d].id = t
                      ELSE rows'[t].gid # NoGid
                           /\ issued'[rows'[t].gid].run = run'
    BY DEF ActiveRowsAreReal
  <2>1. EnsureOpen /\ rows' = [rows EXCEPT ![calls[c].id] = row] /\ t \in Tasks
    BY DEF EnsureOpen, Upsert, Active
  <2>2. CASE t = calls[c].id
    <3>1. rows'[t] = row
      BY <1>2, <2>1, <2>2 DEF IInv, DownloadsTypeOK
    <3> QED
      BY <3>1 DEF Active, BeingAdded
  <2>3. CASE t # calls[c].id
    <3>1. rows'[t] = rows[t] /\ t \in Active(rows)
      BY <1>2, <2>1, <2>3 DEF IInv, DownloadsTypeOK, Active
    <3>2. CASE BeingAdded(t)
      <4>1. PICK d \in InProgress : calls[d].op = "add" /\ calls[d].id = t
        BY <2>1, <3>1, <3>2 DEF IInv, ActiveRowsAreReal
      <4> QED
        BY <1>1, <2>3, <3>1, <3>2, <4>1 DEF InProgress, BeingAdded
    <3>3. CASE ~BeingAdded(t)
      BY <2>1, <3>1, <3>3 DEF IInv, ActiveRowsAreReal, BeingAdded
    <3> QED
      BY <3>2, <3>3
  <2> QED
    BY <2>2, <2>3
<1>7. \A d \in Calls : calls'[d].at = "sent" => process' = "up"
  BY <1>1 DEF IInv, DownloadsTypeOK
<1> QED
  BY <1>1, <1>3, <1>4, <1>5, <1>6, <1>7

\* applySnapshot: the copy of the row, its status, the id of the request.
LEMMA AppliesOK ==
  ASSUME IInv, NEW c \in InProgress, NEW status \in Status, Applies(c, status),
         status \in ActiveStatus =>
            calls[c].gid # NoGid /\ issued[calls[c].gid].run = run,
         UNCHANGED <<process, closing, service, issued, run>>
  PROVE  /\ calls' \in [Calls -> Call] /\ rows' \in [Tasks -> Row \cup {NoRow}]
         /\ CallsOK' /\ RowsWired' /\ ActiveRowsAreReal'
         /\ \A d \in Calls : calls'[d].at = "sent" => process' = "up"
<1> DEFINE row == [calls[c].seen[calls[c].id] EXCEPT !.status = status,
                                                     !.gid = calls[c].gid]
<1>1. /\ c \in Calls /\ calls[c] \in Call /\ calls[c].id \in Tasks
      /\ calls[c].seen[calls[c].id] # NoRow
      /\ calls[c].gid # NoGid => IssuedTo(issued, calls[c].gid, calls[c].id)
  BY DEF IInv, CallsOK, CallOK, InProgress, DownloadsTypeOK
<1>2. calls[c].seen[calls[c].id] \in Row /\ calls[c].gid \in Gids \cup {NoGid}
  BY <1>1 DEF Call
<1>3. row \in Row /\ row.status = status /\ row.gid = calls[c].gid
  BY <1>2 DEF Row
<1>4. Upsert(calls[c].id, row) /\ GoesOn(c)
  BY DEF Applies
<1>5. RowWired(row, calls[c].id, issued)
  BY <1>1, <1>3 DEF RowWired
<1> HIDE DEF row
<1> QED
  BY <1>3, <1>4, <1>5, WritesOK

-----------------------------------------------------------------------------
(* Every step keeps the inductive invariant: one lemma per action. *)

LEMMA MutateStep ==
  ASSUME IInv, NEW c \in Calls, NEW t \in Tasks, NEW op \in Ops,
         Mutate(c, t, op)
  PROVE  IInv'
<1> DEFINE seen == [NoRows EXCEPT ![t] = rows[t]]
<1>1. seen \in [Tasks -> Row \cup {NoRow}] /\ seen[t] = rows[t]
      /\ \A u \in Tasks : seen[u] \in {rows[u], NoRow}
  BY DEF NoRows, IInv, DownloadsTypeOK
<1>2. \A u \in Tasks : RowWired(seen[u], u, issued)
  BY <1>1 DEF IInv, RowsWired, RowWired
<1>3. /\ calls' \in [Calls -> Call]
      /\ \A d \in Calls : d # c => calls'[d] = calls[d]
      /\ calls'[c].at = "next" /\ calls'[c].op = op
      /\ CallOK(calls'[c], issued, run)
  <2> HIDE DEF seen
  <2>1. Begins(c, op, {t}, seen) /\ op \in Ops \ {"add"}
    BY DEF Mutate, seen, Ops
  <2>2. \A u \in {t} : seen[u] # NoRow /\ seen[u].gid # NoGid
    BY <1>1 DEF Mutate
  <2>3. Readable(op, {t}, seen)
    BY <1>1, <1>2, <2>1, <2>2 DEF Readable
  <2> QED
    BY <2>1, <2>3, BeginsOK DEF IInv
<1>4. CallsOK' /\ RowsWired' /\ ActiveRowsAreReal'
      /\ \A d \in Calls : calls'[d].at = "sent" => process' = "up"
  BY <1>3, OneCall DEF Mutate, backend, lifetime, InProgress, Arrives
<1>5. DownloadsTypeOK'
  BY <1>3, <1>4 DEF Mutate, backend, lifetime, IInv, DownloadsTypeOK
<1>6. AriaOfRun' /\ Processes'
  BY DEF Mutate, backend, lifetime, IInv, AriaOfRun, Processes, SingleProcess
<1> QED
  BY <1>4, <1>5, <1>6 DEF IInv

LEMMA RetryStep ==
  ASSUME IInv, NEW c \in Calls, NEW t \in Tasks,
         Retry(c, t)
  PROVE  IInv'
<1> DEFINE seen == [NoRows EXCEPT ![t] = rows[t]]
<1>1. seen \in [Tasks -> Row \cup {NoRow}] /\ seen[t] = rows[t]
      /\ \A u \in Tasks : seen[u] \in {rows[u], NoRow}
  BY DEF NoRows, IInv, DownloadsTypeOK
<1>2. \A u \in Tasks : RowWired(seen[u], u, issued)
  BY <1>1 DEF IInv, RowsWired, RowWired
<1>3. /\ calls' \in [Calls -> Call]
      /\ \A d \in Calls : d # c => calls'[d] = calls[d]
      /\ calls'[c].at = "next" /\ calls'[c].op = "retry"
      /\ CallOK(calls'[c], issued, run)
  <2> HIDE DEF seen
  <2>1. Begins(c, "retry", {t}, seen) /\ "retry" \in Ops \ {"add"}
    BY DEF Retry, seen, Ops
  <2>2. \A u \in {t} : seen[u] # NoRow /\ seen[u].gid # NoGid
    BY <1>1 DEF Retry
  <2>3. Readable("retry", {t}, seen)
    BY <1>1, <1>2, <2>1, <2>2 DEF Readable
  <2> QED
    BY <2>1, <2>3, BeginsOK DEF IInv
<1>4. CallsOK' /\ RowsWired' /\ ActiveRowsAreReal'
      /\ \A d \in Calls : calls'[d].at = "sent" => process' = "up"
  BY <1>3, OneCall DEF Retry, backend, lifetime, InProgress, Arrives
<1>5. DownloadsTypeOK'
  BY <1>3, <1>4 DEF Retry, backend, lifetime, IInv, DownloadsTypeOK
<1>6. AriaOfRun' /\ Processes'
  BY DEF Retry, backend, lifetime, IInv, AriaOfRun, Processes, SingleProcess
<1> QED
  BY <1>4, <1>5, <1>6 DEF IInv

LEMMA RefreshStep ==
  ASSUME IInv, NEW c \in Calls, Refresh(c)
  PROVE  IInv'
<1> DEFINE ids == {t \in Active(rows) : rows[t].gid # NoGid}
<1>1. /\ calls' \in [Calls -> Call]
      /\ \A d \in Calls : d # c => calls'[d] = calls[d]
      /\ calls'[c].at = "next" /\ calls'[c].op = "refresh"
      /\ CallOK(calls'[c], issued, run)
  <2>1. Begins(c, "refresh", ids, rows) /\ "refresh" \in Ops \ {"add"}
    BY DEF Refresh, Ops
  <2>2. ids \in SUBSET Tasks
        /\ \A u \in ids : rows[u] # NoRow /\ rows[u].gid # NoGid
    BY DEF Active
  <2>3. rows \in [Tasks -> Row \cup {NoRow}]
        /\ \A u \in Tasks : RowWired(rows[u], u, issued)
    BY DEF IInv, DownloadsTypeOK, RowsWired
  <2> HIDE DEF ids
  <2>4. Readable("refresh", ids, rows)
    BY <2>1, <2>2, <2>3 DEF Readable
  <2> QED
    BY <2>1, <2>4, BeginsOK DEF IInv
<1>2. CallsOK' /\ RowsWired' /\ ActiveRowsAreReal'
      /\ \A d \in Calls : calls'[d].at = "sent" => process' = "up"
  BY <1>1, OneCall DEF Refresh, backend, lifetime, InProgress, Arrives
<1>3. DownloadsTypeOK'
  BY <1>1, <1>2 DEF Refresh, backend, lifetime, IInv, DownloadsTypeOK
<1>4. AriaOfRun' /\ Processes'
  BY DEF Refresh, backend, lifetime, IInv, AriaOfRun, Processes, SingleProcess
<1> QED
  BY <1>2, <1>3, <1>4 DEF IInv

LEMMA AddStep ==
  ASSUME IInv, NEW c \in Calls, NEW t \in Tasks, Add(c, t)
  PROVE  IInv'
<1> USE NullAssumption
<1>1. PICK n \in Names \ UsedNames :
         LET row == [status |-> "queued", gid |-> NoGid, name |-> n]
         IN  /\ rows' = [rows EXCEPT ![t] = row]
             /\ Begins(c, "add", {t}, [NoRows EXCEPT ![t] = row])
  BY DEF Add
<1> DEFINE row == [status |-> "queued", gid |-> NoGid, name |-> n]
           seen == [NoRows EXCEPT ![t] = row]
<1>2. row \in Row /\ row # NoRow /\ row.gid = NoGid /\ row.status = "queued"
  BY DEF Row, Status
<1> HIDE DEF row
<1>3. /\ seen \in [Tasks -> Row \cup {NoRow}] /\ seen[t] = row
      /\ \A u \in Tasks : RowWired(seen[u], u, issued)
  BY <1>2 DEF NoRows, RowWired
<1> HIDE DEF seen
<1>4. rows' = [rows EXCEPT ![t] = row] /\ Begins(c, "add", {t}, seen)
  BY <1>1 DEF row, seen
<1>5. /\ calls' \in [Calls -> Call]
      /\ \A d \in Calls : d # c => calls'[d] = calls[d]
      /\ calls'[c].at = "next" /\ calls'[c].op = "add" /\ calls'[c].id = t
      /\ CallOK(calls'[c], issued, run)
  <2>1. Readable("add", {t}, seen)
    BY <1>2, <1>3 DEF Readable, Ops
  <2> QED
    BY <1>4, <2>1, BeginsOK DEF IInv
<1>6. CallsOK'
  BY <1>5 DEF Add, lifetime, IInv, CallsOK, CallOK, RowWired, IssuedTo
<1>7. RowsWired'
  BY <1>2, <1>4 DEF Add, lifetime, IInv, RowsWired, RowWired, IssuedTo,
     DownloadsTypeOK
<1>8. ActiveRowsAreReal'
  <2> SUFFICES ASSUME EnsureOpen', NEW u \in Active(rows)'
               PROVE  IF BeingAdded(u)'
                      THEN \E d \in InProgress' : calls'[d].op = "add"
                                                  /\ calls'[d].id = u
                      ELSE rows'[u].gid # NoGid
                           /\ issued'[rows'[u].gid].run = run'
    BY DEF ActiveRowsAreReal
  <2>1. u \in Tasks
    BY DEF Active
  <2>2. CASE u = t
    <3>1. rows'[u] = row /\ c \in InProgress'
      BY <1>4, <1>5, <2>2 DEF IInv, DownloadsTypeOK, InProgress
    <3> QED
      BY <1>2, <1>5, <2>2, <3>1 DEF BeingAdded
  <2>3. CASE u # t
    <3>1. rows'[u] = rows[u] /\ u \in Active(rows) /\ EnsureOpen
      BY <1>4, <2>1, <2>3 DEF IInv, DownloadsTypeOK, Active, Add, Arrives
    <3>2. CASE BeingAdded(u)
      <4>1. PICK d \in InProgress : calls[d].op = "add" /\ calls[d].id = u
        BY <3>1, <3>2 DEF IInv, ActiveRowsAreReal
      <4> QED
        BY <1>5, <3>1, <3>2, <4>1 DEF InProgress, BeingAdded, Add, Arrives
    <3>3. CASE ~BeingAdded(u)
      BY <3>1, <3>3 DEF IInv, ActiveRowsAreReal, BeingAdded, Add, lifetime
    <3> QED
      BY <3>2, <3>3
  <2> QED
    BY <2>2, <2>3
<1>9. DownloadsTypeOK'
  BY <1>2, <1>4, <1>5 DEF Add, backend, lifetime, IInv, DownloadsTypeOK
<1>10. AriaOfRun' /\ Processes'
  BY DEF Add, backend, lifetime, IInv, AriaOfRun, Processes, SingleProcess
<1> QED
  BY <1>6, <1>7, <1>8, <1>9, <1>10 DEF IInv
LEMMA EnsureStartedStep ==
  ASSUME IInv, NEW c \in Calls, EnsureStarted(c)
  PROVE  IInv'
<1>1. /\ calls[c] \in Call /\ calls[c].at = "next"
      /\ CallOK(calls[c], issued, run)
  BY DEF EnsureStarted, IInv, CallsOK, DownloadsTypeOK
<1>2. PICK at \in {"rejected", "sent", "starting"} :
         calls' = [calls EXCEPT ![c].at = at] /\ (at = "sent" => process = "up")
  BY DEF EnsureStarted
<1>3. /\ \A d \in Calls : d # c => calls'[d] = calls[d]
      /\ calls'[c] = [calls[c] EXCEPT !.at = at]
  BY <1>2 DEF IInv, DownloadsTypeOK
<1>4. calls'[c] \in Call /\ CallOK(calls'[c], issued, run)
      /\ calls'[c].at = at
      /\ calls'[c].op = calls[c].op /\ calls'[c].id = calls[c].id
  BY <1>1, <1>3 DEF Call, CallOK
<1>5. calls' \in [Calls -> Call]
  BY <1>2, <1>4 DEF IInv, DownloadsTypeOK
<1>6. CallsOK' /\ RowsWired' /\ ActiveRowsAreReal'
      /\ \A d \in Calls : calls'[d].at = "sent" => process' = "up"
  BY <1>2, <1>3, <1>4, <1>5, OneCall DEF EnsureStarted, lifetime
<1>7. DownloadsTypeOK'
  BY <1>5, <1>6 DEF EnsureStarted, lifetime, IInv, DownloadsTypeOK
<1>8. AriaOfRun' /\ Processes'
  BY DEF EnsureStarted, lifetime, IInv, AriaOfRun, Processes, SingleProcess
<1> QED
  BY <1>6, <1>7, <1>8 DEF IInv

LEMMA UnansweredStep ==
  ASSUME IInv, NEW c \in Calls, Unanswered(c)
  PROVE  IInv'
<1>1. /\ calls' \in [Calls -> Call]
      /\ \A d \in Calls : d # c => calls'[d] = calls[d]
      /\ calls'[c].at = "answered"
      /\ calls'[c].op = calls[c].op /\ calls'[c].id = calls[c].id
      /\ CallOK(calls'[c], issued, run)
  BY DEF Unanswered, IInv, DownloadsTypeOK, Call, CallsOK, CallOK
<1>2. CallsOK' /\ RowsWired' /\ ActiveRowsAreReal'
      /\ \A d \in Calls : calls'[d].at = "sent" => process' = "up"
  BY <1>1, OneCall DEF Unanswered, backend, lifetime
<1>3. DownloadsTypeOK'
  BY <1>1, <1>2 DEF Unanswered, backend, lifetime, IInv, DownloadsTypeOK
<1>4. AriaOfRun' /\ Processes'
  BY DEF Unanswered, backend, lifetime, IInv, AriaOfRun, Processes,
     SingleProcess
<1> QED
  BY <1>2, <1>3, <1>4 DEF IInv

LEMMA StartReadyStep ==
  ASSUME IInv, StartReady
  PROVE  IInv'
<1>1. /\ calls' \in [Calls -> Call]
      /\ \A d \in Calls : /\ calls'[d].op = calls[d].op
                          /\ calls'[d].id = calls[d].id
                          /\ d \in InProgress <=> d \in InProgress'
                          /\ calls'[d].at = "sent" => process' = "up"
  <2>1. ASSUME NEW d \in Calls
        PROVE  /\ calls'[d] \in Call
               /\ calls'[d].op = calls[d].op /\ calls'[d].id = calls[d].id
               /\ d \in InProgress <=> d \in InProgress'
               /\ calls'[d].at = "sent" => process' = "up"
    <3>1. calls[d] \in Call /\ (calls[d].at = "sent" => process = "up")
      BY DEF IInv, DownloadsTypeOK
    <3> QED
      BY <3>1 DEF StartReady, Call, InProgress
  <2>2. calls' = [d \in Calls |-> calls'[d]]
    BY DEF StartReady
  <2> QED
    BY <2>1, <2>2
<1>2. CallsOK'
  <2> SUFFICES ASSUME NEW d \in Calls PROVE CallOK(calls'[d], issued, run)
    BY DEF CallsOK, StartReady, lifetime, CallOK, RowWired, IssuedTo
  <2>1. CallOK(calls[d], issued, run) /\ calls[d] \in Call
    BY DEF IInv, CallsOK, DownloadsTypeOK
  <2> QED
    BY <2>1 DEF StartReady, Call, CallOK
<1>3. RowsWired'
  BY DEF StartReady, lifetime, IInv, RowsWired, RowWired, IssuedTo
<1>4. ActiveRowsAreReal'
  BY <1>1, RowsStayReal DEF StartReady, lifetime, InProgress
<1>5. DownloadsTypeOK'
  BY <1>1 DEF StartReady, lifetime, IInv, DownloadsTypeOK, Processes,
     SingleProcess
<1>6. AriaOfRun' /\ Processes'
  BY DEF StartReady, lifetime, IInv, AriaOfRun, Processes, SingleProcess,
     DownloadsTypeOK
<1> QED
  BY <1>2, <1>3, <1>4, <1>5, <1>6 DEF IInv

LEMMA StartFailsStep ==
  ASSUME IInv, StartFails
  PROVE  IInv'
<1>1. /\ calls' \in [Calls -> Call]
      /\ \A d \in Calls : /\ calls'[d].op = calls[d].op
                          /\ calls'[d].id = calls[d].id
                          /\ d \in InProgress <=> d \in InProgress'
                          /\ calls'[d].at = "sent" => process' = "up"
  <2>1. ASSUME NEW d \in Calls
        PROVE  /\ calls'[d] \in Call
               /\ calls'[d].op = calls[d].op /\ calls'[d].id = calls[d].id
               /\ d \in InProgress <=> d \in InProgress'
               /\ calls'[d].at = "sent" => process' = "up"
    <3>1. calls[d] \in Call /\ (calls[d].at = "sent" => process = "up")
      BY DEF IInv, DownloadsTypeOK
    <3> QED
      BY <3>1 DEF StartFails, Call, InProgress
  <2>2. calls' = [d \in Calls |-> calls'[d]]
    BY DEF StartFails
  <2> QED
    BY <2>1, <2>2
<1>2. CallsOK'
  <2> SUFFICES ASSUME NEW d \in Calls PROVE CallOK(calls'[d], issued, run)
    BY DEF CallsOK, StartFails, lifetime, CallOK, RowWired, IssuedTo
  <2>1. CallOK(calls[d], issued, run) /\ calls[d] \in Call
    BY DEF IInv, CallsOK, DownloadsTypeOK
  <2> QED
    BY <2>1 DEF StartFails, Call, CallOK
<1>3. RowsWired'
  BY DEF StartFails, lifetime, IInv, RowsWired, RowWired, IssuedTo
<1>4. ActiveRowsAreReal'
  BY <1>1, RowsStayReal DEF StartFails, lifetime, InProgress
<1>5. DownloadsTypeOK'
  BY <1>1 DEF StartFails, lifetime, IInv, DownloadsTypeOK, Processes,
     SingleProcess
<1>6. AriaOfRun' /\ Processes'
  BY DEF StartFails, lifetime, IInv, AriaOfRun, Processes, SingleProcess,
     DownloadsTypeOK
<1> QED
  BY <1>2, <1>3, <1>4, <1>5, <1>6 DEF IInv

LEMMA ProcessExitsStep ==
  ASSUME IInv, ProcessExits
  PROVE  IInv'
<1>1. /\ calls' \in [Calls -> Call]
      /\ \A d \in Calls : /\ calls'[d].op = calls[d].op
                          /\ calls'[d].id = calls[d].id
                          /\ d \in InProgress <=> d \in InProgress'
                          /\ calls'[d].at = "sent" => process' = "up"
  <2>1. ASSUME NEW d \in Calls
        PROVE  /\ calls'[d] \in Call
               /\ calls'[d].op = calls[d].op /\ calls'[d].id = calls[d].id
               /\ d \in InProgress <=> d \in InProgress'
               /\ calls'[d].at = "sent" => process' = "up"
    <3>1. calls[d] \in Call /\ (calls[d].at = "sent" => process = "up")
      BY DEF IInv, DownloadsTypeOK
    <3> QED
      BY <3>1 DEF ProcessExits, Call, InProgress
  <2>2. calls' = [d \in Calls |-> calls'[d]]
    BY DEF ProcessExits
  <2> QED
    BY <2>1, <2>2
<1>2. CallsOK'
  <2> SUFFICES ASSUME NEW d \in Calls PROVE CallOK(calls'[d], issued, run)
    BY DEF CallsOK, ProcessExits, lifetime, CallOK, RowWired, IssuedTo
  <2>1. CallOK(calls[d], issued, run) /\ calls[d] \in Call
    BY DEF IInv, CallsOK, DownloadsTypeOK
  <2> QED
    BY <2>1 DEF ProcessExits, Call, CallOK
<1>3. RowsWired'
  BY DEF ProcessExits, lifetime, IInv, RowsWired, RowWired, IssuedTo
<1>4. ActiveRowsAreReal'
  BY <1>1, RowsStayReal DEF ProcessExits, lifetime, InProgress
<1>5. alive' = 0 /\ process' = "exited"
  <2>1. alive = IF process = "up" THEN 1 ELSE 0
    BY DEF IInv, Processes, SingleProcess
  <2>2. alive' = (IF process = "up" THEN alive - 1 ELSE alive)
        /\ process' = "exited"
    BY DEF ProcessExits
  <2> QED
    BY <2>1, <2>2
<1>6. DownloadsTypeOK'
  <2>1. /\ aria' \in [Gids -> {"unknown", "running", "paused", "complete",
                               "error", "removed"}]
        /\ shut' \in {"no", "pausing", "stopping", "done"}
        /\ UNCHANGED <<rows, service, closing, start, requests, issued, run>>
    BY DEF ProcessExits, lifetime, IInv, DownloadsTypeOK
  <2> QED
    BY <1>1, <1>5, <2>1 DEF IInv, DownloadsTypeOK
<1>7. AriaOfRun' /\ Processes'
  BY <1>5 DEF ProcessExits, lifetime, IInv, AriaOfRun, Processes,
     SingleProcess
<1> QED
  BY <1>2, <1>3, <1>4, <1>6, <1>7 DEF IInv

LEMMA ShutdownEndsStep ==
  ASSUME IInv, ShutdownEnds
  PROVE  IInv'
<1>1. /\ calls' \in [Calls -> Call]
      /\ \A d \in Calls : /\ calls'[d].op = calls[d].op
                          /\ calls'[d].id = calls[d].id
                          /\ d \in InProgress <=> d \in InProgress'
                          /\ calls'[d].at = "sent" => process' = "up"
  <2>1. ASSUME NEW d \in Calls
        PROVE  /\ calls'[d] \in Call
               /\ calls'[d].op = calls[d].op /\ calls'[d].id = calls[d].id
               /\ d \in InProgress <=> d \in InProgress'
               /\ calls'[d].at = "sent" => process' = "up"
    <3>1. calls[d] \in Call /\ (calls[d].at = "sent" => process = "up")
      BY DEF IInv, DownloadsTypeOK
    <3> QED
      BY <3>1 DEF ShutdownEnds, Call, InProgress
  <2>2. calls' = [d \in Calls |-> calls'[d]]
    BY DEF ShutdownEnds
  <2> QED
    BY <2>1, <2>2
<1>2. CallsOK'
  <2> SUFFICES ASSUME NEW d \in Calls PROVE CallOK(calls'[d], issued, run)
    BY DEF CallsOK, ShutdownEnds, lifetime, CallOK, RowWired, IssuedTo
  <2>1. CallOK(calls[d], issued, run) /\ calls[d] \in Call
    BY DEF IInv, CallsOK, DownloadsTypeOK
  <2> QED
    BY <2>1 DEF ShutdownEnds, Call, CallOK
<1>3. RowsWired'
  BY DEF ShutdownEnds, lifetime, IInv, RowsWired, RowWired, IssuedTo
<1>4. ActiveRowsAreReal'
  BY <1>1, RowsStayReal DEF ShutdownEnds, lifetime, InProgress
<1>5. alive' = 0 /\ process' = "exited"
  <2>1. alive = IF process = "up" THEN 1 ELSE 0
    BY DEF IInv, Processes, SingleProcess
  <2>2. alive' = (IF process = "up" THEN alive - 1 ELSE alive)
        /\ process' = "exited"
    BY DEF ShutdownEnds
  <2> QED
    BY <2>1, <2>2
<1>6. DownloadsTypeOK'
  <2>1. /\ aria' \in [Gids -> {"unknown", "running", "paused", "complete",
                               "error", "removed"}]
        /\ shut' \in {"no", "pausing", "stopping", "done"}
        /\ UNCHANGED <<rows, service, closing, start, requests, issued, run>>
    BY DEF ShutdownEnds, lifetime, IInv, DownloadsTypeOK
  <2> QED
    BY <1>1, <1>5, <2>1 DEF IInv, DownloadsTypeOK
<1>7. AriaOfRun' /\ Processes'
  BY <1>5 DEF ShutdownEnds, lifetime, IInv, AriaOfRun, Processes,
     SingleProcess
<1> QED
  BY <1>2, <1>3, <1>4, <1>6, <1>7 DEF IInv

LEMMA SpawnStep ==
  ASSUME IInv, Spawn
  PROVE  IInv'
<1>1. CallsOK'
  BY DEF Spawn, backend, lifetime, IInv, CallsOK, CallOK, RowWired, IssuedTo
<1>2. RowsWired'
  BY DEF Spawn, backend, lifetime, IInv, RowsWired, RowWired, IssuedTo
<1>3. ActiveRowsAreReal'
  BY RowsStayReal DEF Spawn, backend, lifetime, InProgress
<1>4. DownloadsTypeOK'
  BY DEF Spawn, backend, lifetime, IInv, DownloadsTypeOK
<1>5. AriaOfRun' /\ Processes'
  BY DEF Spawn, backend, lifetime, IInv, AriaOfRun, Processes, SingleProcess,
     DownloadsTypeOK
<1> QED
  BY <1>1, <1>2, <1>3, <1>4, <1>5 DEF IInv

LEMMA DownloadEndsStep ==
  ASSUME IInv, DownloadEnds
  PROVE  IInv'
<1>1. CallsOK'
  BY DEF DownloadEnds, backend, lifetime, IInv, CallsOK, CallOK, RowWired,
     IssuedTo
<1>2. RowsWired'
  BY DEF DownloadEnds, backend, lifetime, IInv, RowsWired, RowWired, IssuedTo
<1>3. ActiveRowsAreReal'
  BY RowsStayReal DEF DownloadEnds, backend, lifetime, InProgress
<1>4. DownloadsTypeOK'
  BY DEF DownloadEnds, backend, lifetime, IInv, DownloadsTypeOK
<1>5. AriaOfRun' /\ Processes'
  BY DEF DownloadEnds, backend, lifetime, IInv, AriaOfRun, Processes,
     SingleProcess,
     DownloadsTypeOK
<1> QED
  BY <1>1, <1>2, <1>3, <1>4, <1>5 DEF IInv

LEMMA PauseAllStep ==
  ASSUME IInv, PauseAll
  PROVE  IInv'
<1>1. CallsOK'
  BY DEF PauseAll, backend, lifetime, IInv, CallsOK, CallOK, RowWired,
     IssuedTo
<1>2. RowsWired'
  BY DEF PauseAll, backend, lifetime, IInv, RowsWired, RowWired, IssuedTo
<1>3. ActiveRowsAreReal'
  BY RowsStayReal DEF PauseAll, backend, lifetime, InProgress
<1>4. DownloadsTypeOK'
  BY DEF PauseAll, backend, lifetime, IInv, DownloadsTypeOK
<1>5. AriaOfRun' /\ Processes'
  BY DEF PauseAll, backend, lifetime, IInv, AriaOfRun, Processes,
     SingleProcess,
     DownloadsTypeOK
<1> QED
  BY <1>1, <1>2, <1>3, <1>4, <1>5 DEF IInv

LEMMA CloseStep ==
  ASSUME IInv, Close
  PROVE  IInv'
<1>1. CallsOK'
  BY DEF Close, backend, lifetime, IInv, CallsOK, CallOK, RowWired, IssuedTo
<1>2. RowsWired'
  BY DEF Close, backend, lifetime, IInv, RowsWired, RowWired, IssuedTo
<1>3. ActiveRowsAreReal'
  BY DEF Close, IInv, ActiveRowsAreReal, EnsureOpen, Active, BeingAdded,
     InProgress
<1>4. DownloadsTypeOK'
  BY DEF Close, backend, lifetime, IInv, DownloadsTypeOK
<1>5. AriaOfRun' /\ Processes'
  BY DEF Close, backend, lifetime, IInv, AriaOfRun, Processes, SingleProcess,
     DownloadsTypeOK
<1> QED
  BY <1>1, <1>2, <1>3, <1>4, <1>5 DEF IInv

LEMMA CloseEndsStep ==
  ASSUME IInv, CloseEnds
  PROVE  IInv'
<1>1. calls' \in [Calls -> Call] /\ rows' \in [Tasks -> Row \cup {NoRow}]
      /\ closing' \in [Tasks -> Row \cup {NoRow}]
  <2>1. calls' \in [Calls -> Call]
    BY DEF CloseEnds, IInv, DownloadsTypeOK
  <2>2. rows' \in [Tasks -> Row \cup {NoRow}]
    <3>1. \A t \in Active(closing) :
             [closing[t] EXCEPT !.status = "paused"] \in Row
      BY DEF IInv, DownloadsTypeOK, Active, Row, Status
    <3> QED
      BY <3>1 DEF CloseEnds, IInv, DownloadsTypeOK, Pausing
  <2>3. closing' \in [Tasks -> Row \cup {NoRow}]
    BY DEF CloseEnds, IInv, DownloadsTypeOK, NoRows
  <2> QED
    BY <2>1, <2>2, <2>3
<1>2. CallsOK'
  BY DEF CloseEnds, backend, lifetime, IInv, CallsOK, CallOK, RowWired,
     IssuedTo,
     Dropped, Over, Idle, NoRows, InProgress
<1>3. RowsWired'
  BY DEF CloseEnds, backend, lifetime, IInv, RowsWired, RowWired, IssuedTo,
     Pausing, Active, InterruptedPaused, NoRows, DownloadsTypeOK, Row
<1>4. ActiveRowsAreReal'
  BY DEF CloseEnds, ActiveRowsAreReal, EnsureOpen
<1>5. DownloadsTypeOK'
  BY <1>1 DEF CloseEnds, backend, lifetime, IInv, DownloadsTypeOK, Dropped,
     Over,
     Idle, InProgress
<1>6. AriaOfRun' /\ Processes'
  BY DEF CloseEnds, backend, lifetime, IInv, AriaOfRun, Processes,
     SingleProcess
<1> QED
  BY <1>2, <1>3, <1>4, <1>5, <1>6 DEF IInv

LEMMA CloseAgainStep ==
  ASSUME IInv, CloseAgain
  PROVE  IInv'
<1>1. calls' \in [Calls -> Call] /\ rows' \in [Tasks -> Row \cup {NoRow}]
      /\ closing' \in [Tasks -> Row \cup {NoRow}]
  BY SMTT(30) DEF CloseAgain, backend, lifetime, IInv, DownloadsTypeOK, Dropped,
     Over, Idle,
     Call, Ops, Methods, NoRows, Pausing, Active, InterruptedPaused, Row, Status
<1>2. CallsOK'
  BY DEF CloseAgain, backend, lifetime, IInv, CallsOK, CallOK, RowWired,
     IssuedTo,
     Dropped, Over, Idle, NoRows, InProgress
<1>3. RowsWired'
  BY DEF CloseAgain, backend, lifetime, IInv, RowsWired, RowWired, IssuedTo,
     Pausing, Active, InterruptedPaused, NoRows, DownloadsTypeOK, Row
<1>4. ActiveRowsAreReal'
  BY DEF CloseAgain, ActiveRowsAreReal, EnsureOpen
<1>5. DownloadsTypeOK'
  BY <1>1 DEF CloseAgain, backend, lifetime, IInv, DownloadsTypeOK, Dropped,
     Over,
     Idle, InProgress
<1>6. AriaOfRun' /\ Processes'
  BY DEF CloseAgain, backend, lifetime, IInv, AriaOfRun, Processes,
     SingleProcess
<1> QED
  BY <1>2, <1>3, <1>4, <1>5, <1>6 DEF IInv

LEMMA CrashStep ==
  ASSUME IInv, Crash
  PROVE  IInv'
<1>1. calls' \in [Calls -> Call] /\ rows' \in [Tasks -> Row \cup {NoRow}]
      /\ closing' \in [Tasks -> Row \cup {NoRow}]
  BY DEF Crash, backend, lifetime, IInv, DownloadsTypeOK, Dropped, Over, Idle,
     Call, Ops, Methods, NoRows, Pausing, Active, InterruptedPaused, Row, Status
<1>2. CallsOK'
  BY DEF Crash, backend, lifetime, IInv, CallsOK, CallOK, RowWired, IssuedTo,
     Dropped, Over, Idle, NoRows, InProgress
<1>3. RowsWired'
  BY DEF Crash, backend, lifetime, IInv, RowsWired, RowWired, IssuedTo,
     Pausing, Active, InterruptedPaused, NoRows, DownloadsTypeOK, Row
<1>4. ActiveRowsAreReal'
  BY DEF Crash, ActiveRowsAreReal, EnsureOpen
<1>5. DownloadsTypeOK'
  BY <1>1 DEF Crash, backend, lifetime, IInv, DownloadsTypeOK, Dropped, Over,
     Idle, InProgress
<1>6. AriaOfRun' /\ Processes'
  BY DEF Crash, backend, lifetime, IInv, AriaOfRun, Processes, SingleProcess
<1> QED
  BY <1>2, <1>3, <1>4, <1>5, <1>6 DEF IInv

LEMMA RestartStep ==
  ASSUME IInv, Restart
  PROVE  IInv'
<1>1. calls' \in [Calls -> Call] /\ rows' \in [Tasks -> Row \cup {NoRow}]
      /\ closing' \in [Tasks -> Row \cup {NoRow}]
  <2>1. calls' \in [Calls -> Call]
    BY DEF Restart, IInv, DownloadsTypeOK, Dropped, Over, Idle, Call,
       Ops, Methods, NoRows
  <2>2. rows' \in [Tasks -> Row \cup {NoRow}]
    <3>1. \A t \in Active(rows) :
             [rows[t] EXCEPT !.status = "paused"] \in Row
      BY DEF IInv, DownloadsTypeOK, Active, Row, Status
    <3> QED
      BY <3>1 DEF Restart, InterruptedPaused, IInv, DownloadsTypeOK, Pausing
  <2>3. closing' \in [Tasks -> Row \cup {NoRow}]
    BY DEF Restart, IInv, DownloadsTypeOK, NoRows
  <2> QED
    BY <2>1, <2>2, <2>3
<1>2. CallsOK'
  BY DEF Restart, backend, lifetime, IInv, CallsOK, CallOK, RowWired,
     IssuedTo,
     Dropped, Over, Idle, NoRows, InProgress
<1>3. RowsWired'
  BY DEF Restart, backend, lifetime, IInv, RowsWired, RowWired, IssuedTo,
     Pausing, Active, InterruptedPaused, NoRows, DownloadsTypeOK, Row
<1>4. ActiveRowsAreReal'
  BY DEF Restart, ActiveRowsAreReal, EnsureOpen, Active, InterruptedPaused,
     Pausing, ActiveStatus, IInv, DownloadsTypeOK, Row
<1>5. DownloadsTypeOK'
  <2>1. \A c \in Calls : calls'[c].at # "sent"
    BY DEF Restart, Dropped, Over, Idle, InProgress
  <2>2. run' \in 1..MaxRuns
    BY MaxRunsAssumption DEF Restart, IInv, DownloadsTypeOK
  <2> QED
    BY <1>1, <2>1, <2>2 DEF Restart, IInv, DownloadsTypeOK
<1>6. AriaOfRun' /\ Processes'
  BY DEF Restart, backend, lifetime, IInv, AriaOfRun, Processes, SingleProcess
<1> QED
  BY <1>2, <1>3, <1>4, <1>5, <1>6 DEF IInv

\* aria2 accepts a download: one more is issued, to the task of the request.
LEMMA HandsInStep ==
  ASSUME IInv, NEW c \in Calls, NEW g \in Gids,
         calls[c].at = "sent", process = "up", calls[c].method = "addUri",
         issued[g] = NoIssue,
         issued' = [issued EXCEPT ![g] = [task |-> calls[c].id, run |-> run]],
         aria' = [aria EXCEPT ![g] = "running"],
         Answers(c, "done", g),
         UNCHANGED <<rows, backend, lifetime, requests>>
  PROVE  IInv'
<1> USE NullAssumption
<1>1. /\ calls[c] \in Call /\ CallOK(calls[c], issued, run)
      /\ calls[c].id \in Tasks /\ run \in 1..MaxRuns /\ c \in InProgress
  BY DEF IInv, CallsOK, CallOK, DownloadsTypeOK, InProgress
<1>2. /\ issued'[g] = [task |-> calls[c].id, run |-> run]
      /\ \A h \in Gids : h # g => issued'[h] = issued[h]
      /\ issued' \in [Gids -> [task : Tasks \cup {NoRow}, run : 0..MaxRuns]]
  BY <1>1 DEF IInv, DownloadsTypeOK
<1>3. IssuedTo(issued', g, calls[c].id) /\ issued'[g].run = run
  BY <1>1, <1>2 DEF IssuedTo, NoIssue
<1>4. /\ \A d \in Calls : d # c => calls'[d] = calls[d]
      /\ calls'[c] = [calls[c] EXCEPT !.at = "answered", !.reply = "done",
                                      !.gid = g]
  BY DEF Answers, IInv, DownloadsTypeOK
<1>5. calls'[c] \in Call /\ calls' \in [Calls -> Call]
  BY <1>1, <1>4 DEF Call, Answers, IInv, DownloadsTypeOK
<1>6. CallOK(calls[c], issued', run)
  BY <1>1, <1>2, IssuedGrows DEF Call
<1>7. CallOK(calls'[c], issued', run)
  <2> DEFINE call == calls'[c]
  <2>1. /\ call.at = "answered" /\ call.reply = "done" /\ call.gid = g
        /\ call.id = calls[c].id /\ call.left = calls[c].left
        /\ call.seen = calls[c].seen /\ call.op = calls[c].op
        /\ call.method = "addUri"
    BY <1>1, <1>4 DEF Call
  <2> HIDE DEF call
  <2>2. /\ \A t \in Tasks : RowWired(call.seen[t], t, issued')
        /\ call.id \in Tasks
        /\ \A t \in call.left \cup {call.id} : call.seen[t] # NoRow
        /\ call.op = "add" => call.left = {}
        /\ call.op # "add" => \A t \in call.left : call.seen[t].gid # NoGid
    BY <1>1, <1>6, <2>1 DEF CallOK, InProgress
  <2>3. IssuedTo(issued', call.gid, call.id) /\ call.gid # NoGid
        /\ issued'[call.gid].run = run
    BY <1>3, <2>1
  <2>4. CallOK(call, issued', run)
    BY <2>1, <2>2, <2>3 DEF CallOK
  <2> QED
    BY <2>4 DEF call
<1>8. CallsOK'
  <2>1. ASSUME NEW d \in Calls PROVE CallOK(calls'[d], issued', run)
    <3>1. CASE d = c
      BY <1>7, <3>1
    <3>2. CASE d # c
      <4>1. calls[d] \in Call /\ CallOK(calls[d], issued, run)
        BY DEF IInv, CallsOK, DownloadsTypeOK
      <4>2. CallOK(calls[d], issued', run)
        BY <1>2, <4>1, IssuedGrows DEF Call
      <4> QED
        BY <1>4, <3>2, <4>2
    <3> QED
      BY <3>1, <3>2
  <2> QED
    BY <2>1 DEF CallsOK, lifetime, CallOK, RowWired, IssuedTo
<1>9. RowsWired'
  <2>1. \A t \in Tasks : RowWired(rows[t], t, issued')
                         /\ RowWired(closing[t], t, issued')
    <3>1. \A t \in Tasks : /\ rows[t] \in Row \cup {NoRow}
                           /\ closing[t] \in Row \cup {NoRow}
      BY DEF IInv, DownloadsTypeOK
    <3>2. ASSUME NEW t \in Tasks, NEW row \in Row \cup {NoRow},
                 RowWired(row, t, issued)
          PROVE  RowWired(row, t, issued')
      <4>1. CASE row = NoRow \/ row.gid = NoGid
        BY <4>1 DEF RowWired
      <4>2. CASE row # NoRow /\ row.gid # NoGid
        <5>1. row.gid \in Gids /\ IssuedTo(issued, row.gid, t)
          BY <3>2, <4>2 DEF RowWired, Row
        <5>2. issued'[row.gid] = issued[row.gid]
          BY <1>2, <5>1 DEF IssuedTo
        <5> QED
          BY <5>1, <5>2 DEF RowWired, IssuedTo
      <4> QED
        BY <4>1, <4>2
    <3> QED
      BY <3>1, <3>2 DEF IInv, RowsWired
  <2> QED
    BY <2>1 DEF RowsWired, lifetime, RowWired, IssuedTo
<1>10. ActiveRowsAreReal'
  <2>1. \A d \in InProgress : calls[d].op = "add" =>
            /\ calls'[d].at \notin {"idle", "over"}
            /\ calls'[d].op = "add" /\ calls'[d].id = calls[d].id
    BY <1>1, <1>4 DEF InProgress, Call
  <2> QED
    BY <1>2, <2>1, RowsStayReal DEF lifetime
<1>11. DownloadsTypeOK'
  BY <1>2, <1>4, <1>5 DEF backend, lifetime, IInv, DownloadsTypeOK
<1>12. AriaOfRun' /\ Processes'
  BY <1>2, <1>3 DEF backend, lifetime, IInv, AriaOfRun, Processes,
     SingleProcess,
     DownloadsTypeOK
<1> QED
  BY <1>8, <1>9, <1>10, <1>11, <1>12 DEF IInv

LEMMA HandlesStep ==
  ASSUME IInv, NEW c \in Calls, Handles(c)
  PROVE  IInv'
<1>1. CASE calls[c].method = "addUri"
  <2>1. PICK g \in Gids :
          /\ issued[g] = NoIssue
          /\ issued' = [issued EXCEPT ![g] =
                           [task |-> calls[c].id, run |-> run]]
          /\ aria' = [aria EXCEPT ![g] = "running"]
          /\ Answers(c, "done", g)
    BY <1>1 DEF Handles
  <2> QED
    BY <1>1, <2>1, HandsInStep DEF Handles
<1>2. CASE calls[c].method # "addUri"
  <2>1. /\ calls[c] \in Call /\ CallOK(calls[c], issued, run)
        /\ calls[c].at = "sent" /\ c \in InProgress
        /\ calls[c].op # "add" /\ calls[c].gid \in Gids
    BY <1>2 DEF Handles, IInv, CallsOK, CallOK, DownloadsTypeOK, InProgress,
       Call
  <2> DEFINE g == calls[c].gid
  <2>2. PICK reply \in Status \cup {"done", "rejected"} :
           /\ Answers(c, reply, g)
           /\ reply # "rejected" => aria[g] # "unknown"
           /\ calls[c].method = "tellStatus" => reply # "done"
    BY <1>2, <2>1 DEF Handles, Moves, Reported, Status, IInv, DownloadsTypeOK
  <2>3. /\ \A d \in Calls : d # c => calls'[d] = calls[d]
        /\ calls'[c] = [calls[c] EXCEPT !.at = "answered", !.reply = reply,
                                        !.gid = g]
    BY <2>2 DEF Answers, IInv, DownloadsTypeOK
  <2>4. /\ calls'[c] \in Call /\ calls'[c].at = "answered"
        /\ calls' \in [Calls -> Call]
    BY <2>1, <2>2, <2>3 DEF Call, Answers, IInv, DownloadsTypeOK
  <2>5. CallOK(calls'[c], issued, run)
    <3>1. reply # "rejected" => issued[g].run = run
      BY <2>1, <2>2 DEF IInv, AriaOfRun
    <3>2. /\ calls'[c].op = calls[c].op /\ calls'[c].id = calls[c].id
          /\ calls'[c].left = calls[c].left /\ calls'[c].seen = calls[c].seen
          /\ calls'[c].method = calls[c].method /\ calls'[c].gid = g
          /\ calls'[c].reply = reply
      BY <2>1, <2>3 DEF Call
    <3> QED
      BY <2>1, <2>2, <2>4, <3>1, <3>2 DEF CallOK, Status, InProgress
  <2>6. CallsOK' /\ RowsWired' /\ ActiveRowsAreReal'
        /\ \A d \in Calls : calls'[d].at = "sent" => process' = "up"
    BY <1>2, <2>1, <2>3, <2>4, <2>5, OneCall DEF Handles, backend, lifetime
  <2>7. aria' \in [Gids -> {"unknown", "running", "paused", "complete", "error",
                            "removed"}]
        /\ \A h \in Gids : aria'[h] # "unknown" => aria[h] # "unknown"
    BY <1>2, <2>1 DEF Handles, Moves, IInv, DownloadsTypeOK
  <2>8. DownloadsTypeOK'
    BY <1>2, <2>4, <2>6, <2>7 DEF Handles, backend, lifetime, IInv,
       DownloadsTypeOK
  <2>9. AriaOfRun' /\ Processes'
    BY <1>2, <2>7 DEF Handles, backend, lifetime, IInv, AriaOfRun, Processes,
       SingleProcess
  <2> QED
    BY <2>6, <2>8, <2>9 DEF IInv
<1> QED
  BY <1>1, <1>2

LEMMA RejectedStep ==
  ASSUME IInv, NEW c \in Calls, Rejected(c)
  PROVE  IInv'
<1> DEFINE row == [calls[c].seen[calls[c].id] EXCEPT !.status = "failed"]
<1>1. /\ c \in InProgress /\ calls[c] \in Call /\ calls[c].id \in Tasks
      /\ calls[c].seen[calls[c].id] # NoRow
      /\ RowWired(calls[c].seen[calls[c].id], calls[c].id, issued)
  BY DEF Rejected, IInv, CallsOK, CallOK, InProgress, DownloadsTypeOK
<1>2. calls[c].seen[calls[c].id] \in Row
  BY <1>1 DEF Call
<1>3. row \in Row /\ row.status \notin ActiveStatus
      /\ RowWired(row, calls[c].id, issued)
  BY <1>1, <1>2 DEF Row, Status, ActiveStatus, RowWired
<1>4. Upsert(calls[c].id, row) /\ GoesOn(c)
  BY DEF Rejected
<1> HIDE DEF row
<1>5. /\ calls' \in [Calls -> Call] /\ rows' \in [Tasks -> Row \cup {NoRow}]
      /\ CallsOK' /\ RowsWired' /\ ActiveRowsAreReal'
      /\ \A d \in Calls : calls'[d].at = "sent" => process' = "up"
  BY <1>1, <1>3, <1>4, WritesOK DEF Rejected, backend, lifetime
<1>6. DownloadsTypeOK'
  BY <1>5 DEF Rejected, backend, lifetime, IInv, DownloadsTypeOK
<1>7. AriaOfRun' /\ Processes'
  BY DEF Rejected, backend, lifetime, IInv, AriaOfRun, Processes,
     SingleProcess
<1> QED
  BY <1>5, <1>6, <1>7 DEF IInv
\* An answer is turned into a row.
LEMMA SettlesStep ==
  ASSUME IInv, NEW c \in InProgress, NEW status \in Status, Applies(c, status),
         status \in ActiveStatus =>
            calls[c].gid # NoGid /\ issued[calls[c].gid].run = run,
         requests' \in SUBSET Gids,
         UNCHANGED <<backend, lifetime, aria, issued>>
  PROVE  IInv'
<1>1. /\ calls' \in [Calls -> Call] /\ rows' \in [Tasks -> Row \cup {NoRow}]
      /\ CallsOK' /\ RowsWired' /\ ActiveRowsAreReal'
      /\ \A d \in Calls : calls'[d].at = "sent" => process' = "up"
  BY AppliesOK DEF backend, lifetime
<1>2. DownloadsTypeOK'
  BY <1>1 DEF backend, lifetime, IInv, DownloadsTypeOK
<1>3. AriaOfRun' /\ Processes'
  BY DEF backend, lifetime, IInv, AriaOfRun, Processes, SingleProcess
<1> QED
  BY <1>1, <1>2, <1>3 DEF IInv

\* A request whose answer came in goes on with another method.
Asks(c, call) ==
    /\ call \in Call /\ call.at \in {"next", "sent", "answered", "rejected"}
    /\ call.id = calls[c].id /\ call.left = calls[c].left
    /\ call.seen = calls[c].seen /\ call.gid = calls[c].gid
    /\ call.at = "sent" => process = "up"
    /\ call.at = "answered" => call.reply = "rejected"
    /\ call.op = "add" <=> calls[c].op = "add"
    /\ call.op = "add" => call.method = "addUri"

LEMMA AsksStep ==
  ASSUME IInv, NEW c \in Calls, calls[c].at = "answered",
         NEW call, Asks(c, call), calls' = [calls EXCEPT ![c] = call],
         UNCHANGED <<rows, backend, lifetime, requests, aria, issued>>
  PROVE  IInv'
<1>1. calls[c] \in Call /\ CallOK(calls[c], issued, run) /\ c \in InProgress
  BY DEF IInv, CallsOK, DownloadsTypeOK, InProgress
<1>2. (\A d \in Calls : d # c => calls'[d] = calls[d]) /\ calls'[c] = call
  BY DEF IInv, DownloadsTypeOK
<1>3. CallOK(call, issued, run)
  <2>1. \A t \in Tasks : RowWired(call.seen[t], t, issued)
    BY <1>1 DEF Asks, CallOK
  <2>2. /\ call.id \in Tasks
        /\ \A t \in call.left \cup {call.id} : call.seen[t] # NoRow
        /\ call.gid # NoGid => IssuedTo(issued, call.gid, call.id)
        /\ IF call.op = "add" THEN call.method = "addUri" /\ call.left = {}
           ELSE /\ call.gid # NoGid
                /\ \A t \in call.left : call.seen[t].gid # NoGid
    BY <1>1 DEF Asks, CallOK
  <2>3. call.at = "answered" => call.reply = "rejected"
    BY DEF Asks
  <2> QED
    BY <2>1, <2>2, <2>3 DEF CallOK
<1>4. calls' \in [Calls -> Call]
  BY DEF IInv, DownloadsTypeOK, Asks
<1>5. CallsOK' /\ RowsWired' /\ ActiveRowsAreReal'
      /\ \A d \in Calls : calls'[d].at = "sent" => process' = "up"
  BY <1>1, <1>2, <1>3, <1>4, OneCall DEF backend, lifetime, Asks
<1>6. DownloadsTypeOK'
  BY <1>4, <1>5 DEF backend, lifetime, IInv, DownloadsTypeOK
<1>7. AriaOfRun' /\ Processes'
  BY DEF backend, lifetime, IInv, AriaOfRun, Processes, SingleProcess
<1> QED
  BY <1>5, <1>6, <1>7 DEF IInv

LEMMA AnsweredStep ==
  ASSUME IInv, NEW c \in Calls, Answered(c)
  PROVE  IInv'
<1>1. /\ calls[c] \in Call /\ CallOK(calls[c], issued, run)
      /\ calls[c].at = "answered" /\ c \in InProgress
      /\ UNCHANGED <<backend, lifetime, aria, issued>>
  BY DEF Answered, IInv, CallsOK, DownloadsTypeOK, InProgress
<1>2. /\ calls[c].reply # "none"
      /\ calls[c].method = "tellStatus" =>
            calls[c].reply # "done" /\ calls[c].op # "add"
      /\ calls[c].reply # "rejected" =>
            calls[c].gid \in Gids /\ calls[c].gid # NoGid
            /\ issued[calls[c].gid].run = run
      /\ calls[c].op = "add" => calls[c].method = "addUri"
  BY <1>1 DEF CallOK, Call
<1> USE DEF Ops, Methods
<1>3. CASE UriAdded(c)
  <2>1. requests' \in SUBSET Gids
    BY <1>1, <1>2, <1>3 DEF UriAdded, IInv, DownloadsTypeOK
  <2>2. Applies(c, "starting") /\ "starting" \in Status
    BY <1>3 DEF UriAdded, Status
  <2> QED
    BY <1>1, <1>2, <1>3, <2>1, <2>2, SettlesStep DEF UriAdded
<1>4. CASE Stepped(c) /\ UNCHANGED requests
  <2>1. CASE calls[c].method \in {"pause", "unpause"} /\ AsksStatus(c)
             /\ UNCHANGED rows
    <3> DEFINE call == [calls[c] EXCEPT !.at = "next", !.reply = "none",
                          !.method = "tellStatus",
                          !.op = IF calls[c].op = "retry" THEN "resume"
                                 ELSE calls[c].op]
    <3>1. calls' = [calls EXCEPT ![c] = call]
      BY <1>1, <2>1 DEF AsksStatus, IInv, DownloadsTypeOK, Call
    <3>2. calls[c].op # "add"
      BY <1>2, <2>1
    <3>3. Asks(c, call)
      BY <1>1, <3>2, ZenonT(30) DEF Call, Asks
    <3> HIDE DEF call
    <3> QED
      BY <1>1, <1>4, <2>1, <3>1, <3>3, AsksStep
  <2>2. CASE calls[c].method = "forceRemove"
             /\ Applies(c, IF calls[c].op = "remove" THEN "removed"
                           ELSE "cancelled")
    <3> DEFINE status == IF calls[c].op = "remove" THEN "removed"
                         ELSE "cancelled"
    <3>1. status \in Status /\ status \notin ActiveStatus
          /\ Applies(c, status) /\ requests' \in SUBSET Gids
      BY <1>4, <2>2 DEF Status, ActiveStatus, IInv, DownloadsTypeOK
    <3> HIDE DEF status
    <3> QED
      BY <1>1, <3>1, SettlesStep
  <2> QED
    BY <1>4, <2>1, <2>2 DEF Stepped
<1>5. CASE StatusKnown(c) /\ UNCHANGED requests
  <2>1. calls[c].reply \in Status /\ Applies(c, calls[c].reply)
        /\ requests' \in SUBSET Gids
    BY <1>1, <1>2, <1>5 DEF StatusKnown, Call, IInv, DownloadsTypeOK
  <2> QED
    BY <1>1, <1>2, <1>5, <2>1, SettlesStep DEF StatusKnown
<1>6. ASSUME NEW method \in Methods, Sends(c, method),
             calls[c].op = "retry", UNCHANGED <<rows, requests>>
      PROVE  IInv'
  <2> DEFINE call == [calls[c] EXCEPT
                        !.at = IF process = "up" THEN "sent" ELSE "answered",
                        !.method = method,
                        !.reply = IF process = "up" THEN "none"
                                  ELSE "rejected"]
  <2>1. calls' = [calls EXCEPT ![c] = call]
    BY <1>1, <1>6 DEF Sends, IInv, DownloadsTypeOK, Call
  <2>2. /\ call \in Call /\ call.at \in {"sent", "answered"}
        /\ call.id = calls[c].id /\ call.left = calls[c].left
        /\ call.seen = calls[c].seen /\ call.gid = calls[c].gid
        /\ call.op = calls[c].op
        /\ call.at = "sent" => process = "up"
        /\ call.at = "answered" => call.reply = "rejected"
    BY <1>1, <1>6, ZenonT(30) DEF Call
  <2>3. Asks(c, call)
    <3> HIDE DEF call
    <3> QED
      BY <1>6, <2>2 DEF Asks
  <2> HIDE DEF call
  <2> QED
    BY <1>1, <1>6, <2>1, <2>3, AsksStep
<1>7. ASSUME Throws(c), UNCHANGED <<rows, requests>>
      PROVE  IInv'
  <2> DEFINE call == [calls[c] EXCEPT !.at = "rejected"]
  <2>1. calls' = [calls EXCEPT ![c] = call]
    BY <1>1, <1>7 DEF Throws, IInv, DownloadsTypeOK, Call
  <2>2. Asks(c, call)
    BY <1>1, <1>2 DEF Call, Asks
  <2> HIDE DEF call
  <2> QED
    BY <1>1, <1>7, <2>1, <2>2, AsksStep
<1>8. CASE RetryKeeps(c) /\ UNCHANGED requests
  <2>1. CASE Sends(c, "unpause") /\ UNCHANGED rows
    BY <1>6, <1>8, <2>1 DEF RetryKeeps
  <2>2. CASE calls[c].reply \in {"completed", "downloading"}
             /\ Applies(c, calls[c].reply)
    <3>1. calls[c].reply \in Status /\ requests' \in SUBSET Gids
      BY <1>8, <2>2 DEF Status, IInv, DownloadsTypeOK
    <3> QED
      BY <1>1, <1>2, <2>2, <3>1, SettlesStep
  <2> QED
    BY <1>8, <2>1, <2>2 DEF RetryKeeps
<1>9. CASE RetryResubmits(c) /\ UNCHANGED requests
  BY <1>6, <1>7, <1>9 DEF RetryResubmits
<1>10. CASE Fails(c) /\ UNCHANGED requests
  BY <1>7, <1>10 DEF Fails
<1> QED
  BY <1>3, <1>4, <1>5, <1>8, <1>9, <1>10 DEF Answered
-----------------------------------------------------------------------------
(* The inductive invariant, and the properties the runs check. *)

LEMMA InitIInv == DownloadsInit => IInv
<1> SUFFICES ASSUME DownloadsInit PROVE IInv
  OBVIOUS
<1>1. Idle \in Call /\ Idle.at = "idle" /\ Idle.seen = NoRows
  BY DEF Idle, Call, Ops, Methods, NoRows
<1>2. DownloadsTypeOK
  BY <1>1, MaxRunsAssumption DEF DownloadsInit, DownloadsTypeOK, NoRows,
     NoIssue
<1>3. CallsOK /\ RowsWired
  BY <1>1 DEF DownloadsInit, CallsOK, CallOK, RowsWired, RowWired, NoRows
<1>4. AriaOfRun /\ Processes /\ ActiveRowsAreReal
  BY DEF DownloadsInit, AriaOfRun, Processes, SingleProcess,
     ActiveRowsAreReal, Active, NoRows
<1> QED
  BY <1>2, <1>3, <1>4 DEF IInv

LEMMA StepIInv == IInv /\ [DownloadsNext]_downloadVars => IInv'
<1> SUFFICES ASSUME IInv, [DownloadsNext]_downloadVars PROVE IInv'
  OBVIOUS
<1>1. CASE Requested
  BY <1>1, RefreshStep, AddStep, RetryStep, MutateStep DEF Requested
<1>2. CASE Continued
  BY <1>2, EnsureStartedStep, RejectedStep, AnsweredStep DEF Continued
<1>3. CASE External
  BY <1>3, HandlesStep, UnansweredStep, DownloadEndsStep, ProcessExitsStep
     DEF External
<1>4. CASE Lifecycle
  BY <1>4, SpawnStep, StartReadyStep, StartFailsStep, CloseStep, PauseAllStep,
     ShutdownEndsStep, CloseEndsStep, CloseAgainStep, CrashStep, RestartStep
     DEF Lifecycle
<1>5. CASE UNCHANGED downloadVars
  BY <1>5 DEF downloadVars, IInv, DownloadsTypeOK, CallsOK, CallOK, RowsWired,
     RowWired, IssuedTo, AriaOfRun, Processes, SingleProcess,
     ActiveRowsAreReal, EnsureOpen, Active, BeingAdded, InProgress
<1> QED
  BY <1>1, <1>2, <1>3, <1>4, <1>5 DEF DownloadsNext

\* The inductive invariant holds in every state the service can reach.
THEOREM Invariance == DownloadsSpec => []IInv
  BY InitIInv, StepIInv, PTL DEF DownloadsSpec

\* Every variable has its type, and a request is on the wire only while the
\* aria2 process is up (rpc).
THEOREM TypeCorrect == DownloadsSpec => []DownloadsTypeOK
<1>1. IInv => DownloadsTypeOK
  BY DEF IInv
<1> QED
  BY <1>1, Invariance, PTL

\* The backend never has two aria2 processes, nor one it does not know of
\* (ensureStarted, resetExitedProcessForExplicitRetry, shutdown).
THEOREM OneProcess == DownloadsSpec => []SingleProcess
<1>1. IInv => SingleProcess
  BY DEF IInv, Processes
<1> QED
  BY <1>1, Invariance, PTL

\* No row and no request is ever wired to the download of another task
\* (mutate, applySnapshot, applyFailure, retry).
THEOREM Wired == DownloadsSpec => []GidsWired
<1>1. IInv => GidsWired
  BY DEF IInv, RowsWired, RowWired, CallsOK, CallOK, IssuedTo, GidsWired,
     InProgress
<1> QED
  BY <1>1, Invariance, PTL

\* A row that shows an active download names one of this run, or its add is
\* still at work (addTask, refresh, pauseInterruptedTasks).
THEOREM RowsAreReal == DownloadsSpec => []ActiveRowsAreReal
<1>1. IInv => ActiveRowsAreReal
  BY DEF IInv
<1> QED
  BY <1>1, Invariance, PTL
-----------------------------------------------------------------------------
(* One request at a time: what aria2 holds is what the rows name. *)

Held == {"running", "paused"}

\* aria2 gave the request a new download.
Renewed(call) ==
    call.method = "addUri" /\ call.at = "answered" /\ call.reply = "done"

\* The retry goes on to a new download: aria2 let the old one go.
LetsGo(call) ==
    /\ call.op = "retry"
    /\ \/ call.method \in {"addUri", "removeResult"}
       \/ /\ call.method = "tellStatus" /\ call.at = "answered"
          /\ call.reply \in {"failed", "removed", "rejected"}

\* A request that is the only one, over the table and what aria2 has: nobody
\* else wrote the rows it read, and a new download replaces none that is held.
CallAlone(call, table, has) ==
    LET old == call.seen[call.id].gid IN
    /\ call.id \notin call.left
    /\ \A t \in call.left \cup {call.id} : table[t] = call.seen[t]
    /\ call.op = "add" => old = NoGid
    /\ call.method = "addUri" => call.op \in {"add", "retry"}
    /\ call.method = "removeResult" => call.op = "retry"
    /\ Renewed(call) \/ call.gid = old
    /\ LetsGo(call) => old \in Gids /\ has[old] \notin Held

AtMostOne == \A c, d \in InProgress : c = d

AriaDown == process # "up" => \A g \in Gids : aria[g] = "unknown"

\* The row of a download is never deleted.
IssuedKept ==
    service = "open" => \A g \in Gids : issued[g] # NoIssue =>
        issued[g].task \in Tasks /\ rows[issued[g].task] # NoRow

\* While the service is open, a start has the request that asked for it.
StartAwaited ==
    start # "no" => \E c \in InProgress : calls[c].at = "starting"

AloneInv ==
    /\ AtMostOne /\ AriaDown /\ IssuedKept
    /\ service = "open" =>
          /\ shut = "no" /\ StartAwaited
          /\ \A c \in InProgress : CallAlone(calls[c], rows, aria)
          /\ DownloadsAreOwned

\* A step with at most one request in progress, answers that are not lost and
\* one run of the service.
OneStep ==
    \/ Requested /\ InProgress = {}
    \/ Continued
    \/ \E c \in Calls : \/ Handles(c)
                        \/ /\ Unanswered(c)
                           /\ calls[c].at = "sent" /\ start = "ready"
    \/ DownloadEnds \/ ProcessExits
    \/ Spawn \/ StartReady \/ StartFails
    \/ Close \/ PauseAll \/ ShutdownEnds \/ CloseEnds \/ CloseAgain \/ Crash

\* FiniteSets is instantiated with Downloads.
LEMMA SameCardinality ==
  ASSUME NEW S
  PROVE  One!Cardinality(S) = Cardinality(S)
BY DEF One!Cardinality, Cardinality, One!IsFiniteSet, IsFiniteSet

\* A request of the instance comes in where none is in progress.
LEMMA OneArrives ==
  ASSUME NEW c \in Calls, AtMostOne, One!Arrives(c)
  PROVE  Arrives(c) /\ InProgress = {}
<1>1. One!InProgress = InProgress
  BY DEF One!InProgress, InProgress
<1>2. Cardinality(InProgress) < 1
  BY <1>1, SameCardinality DEF One!Arrives
<1>3. ASSUME NEW d \in InProgress PROVE FALSE
  <2>1. InProgress = {d}
    BY <1>3 DEF AtMostOne
  <2> QED
    BY <1>2, <2>1, FS_Singleton
<1>4. InProgress = {}
  BY <1>3
<1>5. Cardinality(InProgress) < MaxAtOnce
  BY <1>4, FS_EmptySet, MaxAtOnceAssumption
<1> QED
  BY <1>4, <1>5 DEF One!Arrives, Arrives, One!Quiet, Quiet, One!EnsureOpen,
     EnsureOpen

LEMMA OneBegins ==
  ASSUME NEW c, NEW op, NEW ids, NEW seen
  PROVE  One!Begins(c, op, ids, seen) <=> Begins(c, op, ids, seen)
BY DEF One!Begins, Begins, One!Idle, Idle, One!NoRows, NoRows

\* So every step of the instance is one of Downloads, with what was given for
\* its constants.
LEMMA OneIsOne ==
  ASSUME DownloadsTypeOK, AtMostOne, One!DownloadsNext
  PROVE  OneStep
<1> USE DEF One!backend, backend, One!lifetime, lifetime
<1>1. ASSUME NEW c \in Calls, NEW t \in Tasks, One!Add(c, t)
      PROVE  Add(c, t) /\ InProgress = {}
  <2>1. Arrives(c) /\ InProgress = {}
    BY <1>1, OneArrives DEF One!Add
  <2>2. One!Listed = Listed /\ One!UsedNames = UsedNames /\ One!NoRows = NoRows
    BY DEF One!Listed, Listed, One!UsedNames, UsedNames, One!NoRows, NoRows
  <2>3. Cardinality(Listed) < MaxTasks
    BY <1>1, <2>2, SameCardinality DEF One!Add
  <2>4. PICK n \in Names \ UsedNames :
           /\ rows' = [rows EXCEPT ![t] =
                          [status |-> "queued", gid |-> NoGid, name |-> n]]
           /\ Begins(c, "add", {t}, [NoRows EXCEPT ![t] =
                          [status |-> "queued", gid |-> NoGid, name |-> n]])
    BY <1>1, <2>2, OneBegins DEF One!Add
  <2> QED
    BY <1>1, <2>1, <2>3, <2>4 DEF One!Add, Add
<1>2. ASSUME NEW c \in Calls, NEW t \in Tasks, NEW op \in Ops,
             One!Mutate(c, t, op)
      PROVE  Mutate(c, t, op) /\ InProgress = {}
  <2>1. Begins(c, op, {t}, [NoRows EXCEPT ![t] = rows[t]])
    BY <1>2, OneBegins DEF One!Mutate, One!NoRows, NoRows
  <2> QED
    BY <1>2, <2>1, OneArrives DEF One!Mutate, Mutate
<1>3. ASSUME NEW c \in Calls, NEW t \in Tasks, One!Retry(c, t)
      PROVE  Retry(c, t) /\ InProgress = {}
  <2>1. Begins(c, "retry", {t}, [NoRows EXCEPT ![t] = rows[t]])
    BY <1>3, OneBegins DEF One!Retry, One!NoRows, NoRows
  <2> QED
    BY <1>3, <2>1, OneArrives DEF One!Retry, Retry
<1>4. ASSUME NEW c \in Calls, One!Refresh(c)
      PROVE  Refresh(c) /\ InProgress = {}
  <2>1. One!Active(rows) = Active(rows)
    BY DEF One!Active, Active, One!ActiveStatus, ActiveStatus
  <2> QED
    BY <1>4, <2>1, OneArrives, OneBegins DEF One!Refresh, Refresh
<1>5. ASSUME NEW c \in Calls, One!EnsureStarted(c)
      PROVE  EnsureStarted(c)
  BY <1>5 DEF One!EnsureStarted, EnsureStarted, One!BackendClosed,
     BackendClosed
<1>6. ASSUME NEW c \in Calls, One!GoesOn(c) PROVE GoesOn(c)
  BY <1>6, OneBegins DEF One!GoesOn, GoesOn, One!Over, Over, One!Idle, Idle,
     One!NoRows, NoRows
<1>7. ASSUME NEW t, NEW row, One!Upsert(t, row) PROVE Upsert(t, row)
  BY <1>7 DEF One!Upsert, Upsert, One!EnsureOpen, EnsureOpen
<1>8. ASSUME NEW c \in Calls, One!Rejected(c) PROVE Rejected(c)
  BY <1>6, <1>7, <1>8 DEF One!Rejected, Rejected
<1>9. ASSUME NEW c \in Calls, NEW status, One!Applies(c, status)
      PROVE  Applies(c, status)
  BY <1>6, <1>7, <1>9 DEF One!Applies, Applies
<1>10. ASSUME NEW c \in Calls, One!Answered(c) PROVE Answered(c)
  <2>1. Quiet /\ service # "down" /\ calls[c].at = "answered"
        /\ UNCHANGED <<backend, lifetime, aria, issued>>
    BY <1>10 DEF One!Answered, One!Quiet, Quiet
  <2>2. ASSUME One!UriAdded(c) PROVE UriAdded(c)
    BY <1>9, <2>2 DEF One!UriAdded, UriAdded
  <2>3. ASSUME One!Stepped(c) PROVE Stepped(c)
    BY <1>9, <2>3 DEF One!Stepped, Stepped, One!AsksStatus, AsksStatus
  <2>4. ASSUME One!StatusKnown(c) PROVE StatusKnown(c)
    BY <1>9, <2>4 DEF One!StatusKnown, StatusKnown
  <2>5. ASSUME One!RetryKeeps(c) PROVE RetryKeeps(c)
    BY <1>9, <2>5 DEF One!RetryKeeps, RetryKeeps, One!Sends, Sends
  <2>6. ASSUME One!RetryResubmits(c) PROVE RetryResubmits(c)
    BY <2>6 DEF One!RetryResubmits, RetryResubmits, One!Sends, Sends,
       One!Throws, Throws
  <2>7. ASSUME One!Fails(c) PROVE Fails(c)
    BY <2>7 DEF One!Fails, Fails, One!Throws, Throws
  <2> QED
    BY <1>10, <2>1, <2>2, <2>3, <2>4, <2>5, <2>6, <2>7
    DEF One!Answered, Answered
<1>11. ASSUME NEW c \in Calls, One!Handles(c) PROVE Handles(c)
  BY <1>11 DEF One!Handles, Handles, One!Moves, Moves, One!Answers, Answers,
     One!Reported, Reported, One!NoIssue, NoIssue
<1>12. ASSUME NEW c \in Calls, One!Unanswered(c)
       PROVE  Unanswered(c) /\ calls[c].at = "sent" /\ start = "ready"
  BY <1>12 DEF One!Unanswered, Unanswered
<1>13. One!DownloadEnds => DownloadEnds
  BY DEF One!DownloadEnds, DownloadEnds
<1>14. One!ProcessExits => ProcessExits
  BY DEF One!ProcessExits, ProcessExits, One!Quiet, Quiet
<1>15. One!Spawn => Spawn
  BY DEF One!Spawn, Spawn, One!Quiet, Quiet
<1>16. One!StartReady => StartReady
  BY DEF One!StartReady, StartReady, One!Quiet, Quiet, One!BackendClosed,
     BackendClosed
<1>17. One!StartFails => StartFails
  BY DEF One!StartFails, StartFails, One!Quiet, Quiet
<1>18. One!Close => Close
  BY DEF One!Close, Close, One!Quiet, Quiet, One!Active, Active,
     One!ActiveStatus, ActiveStatus
<1>19. One!PauseAll => PauseAll
  BY DEF One!PauseAll, PauseAll, One!Quiet, Quiet
<1>20. One!ShutdownEnds => ShutdownEnds
  BY DEF One!ShutdownEnds, ShutdownEnds, One!Quiet, Quiet
<1>21. One!CloseEnds => CloseEnds
  BY DEF One!CloseEnds, CloseEnds, One!Pausing, Pausing, One!Active, Active,
     One!ActiveStatus, ActiveStatus, One!NoRows, NoRows
<1>22. One!CloseAgain => CloseAgain
  BY DEF One!CloseAgain, CloseAgain, One!Quiet, Quiet, One!Pausing, Pausing,
     One!Active, Active, One!ActiveStatus, ActiveStatus, One!NoRows, NoRows
<1>23. One!Crash => Crash
  BY DEF One!Crash, Crash, One!Dropped, Dropped, One!InProgress, InProgress,
     One!Over, Over, One!Idle, Idle, One!NoRows, NoRows
<1>24. ~One!Restart
  BY DEF One!Restart, DownloadsTypeOK
<1>25. CASE One!Requested
  BY <1>1, <1>2, <1>3, <1>4, <1>25
  DEF One!Requested, Requested, OneStep, One!Ops, Ops
<1>26. CASE One!Continued
  BY <1>5, <1>8, <1>10, <1>26 DEF One!Continued, Continued, OneStep
<1>27. CASE One!External
  BY <1>11, <1>12, <1>13, <1>14, <1>27 DEF One!External, OneStep
<1>28. CASE One!Lifecycle
  BY <1>15, <1>16, <1>17, <1>18, <1>19, <1>20, <1>21, <1>22, <1>23, <1>24,
     <1>28 DEF One!Lifecycle, OneStep
<1> QED
  BY <1>25, <1>26, <1>27, <1>28 DEF One!DownloadsNext

\* What one request's step may do to the others: nothing.
LEMMA OnlyOne ==
  ASSUME AtMostOne, NEW c \in InProgress,
         \A d \in Calls : d # c => calls'[d] = calls[d]
  PROVE  AtMostOne' /\ InProgress' \subseteq {c}
<1>1. ASSUME NEW d \in InProgress' PROVE d = c
  <2>1. d \in Calls /\ calls'[d].at \notin {"idle", "over"}
    BY DEF InProgress
  <2>2. d # c => d \in InProgress
    BY <2>1 DEF InProgress
  <2> QED
    BY <2>2 DEF AtMostOne
<1> QED
  BY <1>1 DEF AtMostOne

\* A download that is held has a row or a request.
LEMMA HeldHasRow ==
  ASSUME IInv, AloneInv, service = "open", NEW g \in Gids, aria[g] \in Held
  PROVE  /\ issued[g] # NoIssue /\ issued[g].task \in Tasks
         /\ rows[issued[g].task] \in Row
         /\ \/ rows[issued[g].task].gid = g
            \/ \E c \in InProgress : calls[c].gid = g
<1>1. issued[g] # NoIssue
  BY DEF IInv, AriaOfRun, DownloadsTypeOK, NoIssue, Held
<1>2. issued[g].task \in Tasks /\ rows[issued[g].task] # NoRow
  BY <1>1 DEF AloneInv, IssuedKept
<1> QED
  BY <1>1, <1>2 DEF AloneInv, DownloadsAreOwned, Held, IInv, DownloadsTypeOK

\* A request begins while none is in progress.
LEMMA BegunAlone ==
  ASSUME IInv, AloneInv, InProgress = {}, NEW c \in Calls, NEW op,
         NEW ids, NEW seen, Readable(op, ids, seen), Begins(c, op, ids, seen),
         rows' \in [Tasks -> Row \cup {NoRow}],
         \A t \in ids : rows'[t] = seen[t],
         \A t \in Tasks : rows'[t] = rows[t]
                            \/ (rows[t] = NoRow /\ rows'[t] # NoRow),
         op = "add" => \A t \in ids : seen[t].gid = NoGid,
         process' # "up" <=> process # "up",
         UNCHANGED <<lifetime, shut, start, aria, issued>>
  PROVE  AloneInv'
<1>1. PICK id \in ids : calls' = [calls EXCEPT ![c] =
            [Idle EXCEPT !.at = "next", !.op = op, !.id = id,
                         !.left = ids \ {id}, !.seen = seen,
                         !.gid = seen[id].gid,
                         !.method = CASE op = "add" -> "addUri"
                                      [] op = "pause" -> "pause"
                                      [] op = "resume" -> "unpause"
                                      [] op \in {"cancel", "remove"} ->
                                            "forceRemove"
                                      [] OTHER -> "tellStatus"]]
  BY DEF Begins
<1>2. /\ calls'[c].at = "next" /\ calls'[c].op = op /\ calls'[c].id = id
      /\ calls'[c].left = ids \ {id} /\ calls'[c].seen = seen
      /\ calls'[c].gid = seen[id].gid
      /\ calls'[c].method = "addUri" => op = "add"
      /\ calls'[c].method # "removeResult"
      /\ \A d \in Calls : d # c => calls'[d] = calls[d]
  <2>1. op \in Ops
    BY DEF Readable
  <2> QED
    BY <1>1, <2>1 DEF IInv, DownloadsTypeOK, Idle, Ops
<1>3. InProgress' = {c}
  BY <1>2 DEF InProgress
<1>4. CallAlone(calls'[c], rows', aria')
  BY <1>1, <1>2 DEF CallAlone, Renewed, LetsGo
<1>5. IssuedKept'
  BY DEF AloneInv, IssuedKept, lifetime
<1>6. AriaDown'
  BY DEF AloneInv, AriaDown
<1>7. ASSUME service' = "open"
      PROVE  shut' = "no" /\ StartAwaited' /\ DownloadsAreOwned'
  <2>1. service = "open"
    BY <1>7 DEF lifetime
  <2>2. start = "no" /\ shut = "no"
    BY <2>1 DEF AloneInv, StartAwaited
  <2>3. ASSUME NEW g \in Gids, aria'[g] \in Held
        PROVE  rows'[issued'[g].task].gid = g
    BY <2>1, <2>3, HeldHasRow, NullAssumption
  <2> QED
    BY <2>2, <2>3 DEF StartAwaited, DownloadsAreOwned, Held
<1> QED
  BY <1>3, <1>4, <1>5, <1>6, <1>7 DEF AloneInv, AtMostOne

\* The request in progress writes its row and is over, or reads its next one.
LEMMA WrittenAlone ==
  ASSUME IInv, AloneInv, NEW c \in InProgress, NEW row \in Row,
         Upsert(calls[c].id, row), GoesOn(c), row.gid = calls[c].gid,
         calls[c].at # "starting",
         UNCHANGED <<backend, lifetime, aria, issued>>
  PROVE  AloneInv'
<1>1. /\ c \in Calls /\ calls[c] \in Call /\ CallOK(calls[c], issued, run)
      /\ calls[c].id \in Tasks /\ rows \in [Tasks -> Row \cup {NoRow}]
  BY DEF InProgress, IInv, DownloadsTypeOK, CallsOK, CallOK
<1>2. \A d \in Calls : d # c => calls'[d] = calls[d]
  BY <1>1, GoesOnOK DEF IInv
<1>3. AtMostOne' /\ InProgress' \subseteq {c}
  BY <1>2, OnlyOne DEF AloneInv
<1>4. /\ \A t \in Tasks : t # calls[c].id => rows'[t] = rows[t]
      /\ rows'[calls[c].id] \in {row, rows[calls[c].id]}
      /\ service = "open" => rows'[calls[c].id] = row
  BY <1>1 DEF Upsert, EnsureOpen
<1>5. IssuedKept'
  BY <1>4, NullAssumption DEF AloneInv, IssuedKept, lifetime
<1>6. AriaDown'
  BY DEF AloneInv, AriaDown, backend
<1>7. ASSUME service' = "open"
      PROVE  /\ shut' = "no" /\ StartAwaited' /\ DownloadsAreOwned'
             /\ \A d \in InProgress' : CallAlone(calls'[d], rows', aria')
  <2>1. service = "open" /\ shut = "no"
    BY <1>7 DEF lifetime, AloneInv
  <2>2. start = "no"
    BY <2>1 DEF AloneInv, StartAwaited, AtMostOne
  <2>3. CallAlone(calls[c], rows, aria)
    BY <2>1 DEF AloneInv
  <2>4. ASSUME NEW g \in Gids, aria'[g] \in Held
        PROVE  rows'[issued'[g].task].gid = g
    <3>1. /\ issued[g] # NoIssue /\ issued[g].task \in Tasks
          /\ rows[issued[g].task].gid = g \/ calls[c].gid = g
      BY <2>1, <2>4, HeldHasRow DEF AloneInv, AtMostOne
    <3>2. CASE calls[c].gid = g
      <4>1. IssuedTo(issued, g, calls[c].id)
        BY <1>1, <3>2, NullAssumption DEF CallOK, InProgress
      <4> QED
        BY <1>4, <2>1, <3>2, <4>1 DEF IssuedTo
    <3>3. CASE calls[c].gid # g /\ issued[g].task = calls[c].id
      <4>1. calls[c].seen[calls[c].id].gid = g
        BY <2>3, <3>1, <3>3 DEF CallAlone
      <4>2. Renewed(calls[c]) /\ calls[c].op = "retry"
        BY <2>3, <3>3, <4>1, NullAssumption DEF CallAlone, Renewed
      <4> QED
        BY <2>3, <2>4, <4>1, <4>2 DEF CallAlone, LetsGo, Renewed
    <3>4. CASE calls[c].gid # g /\ issued[g].task # calls[c].id
      BY <1>4, <3>1, <3>4
    <3> QED
      BY <3>2, <3>3, <3>4
  <2>5. CASE calls[c].left = {}
    <3>1. calls'[c] = Over
      BY <1>1, <2>5 DEF GoesOn, IInv, DownloadsTypeOK
    <3>2. InProgress' = {}
      BY <1>3, <3>1 DEF InProgress, Over, Idle
    <3> QED
      BY <2>1, <2>2, <2>4, <3>2
      DEF backend, StartAwaited, DownloadsAreOwned, Held
  <2>6. CASE calls[c].left # {}
    <3>1. PICK id \in calls[c].left : calls' = [calls EXCEPT ![c] =
            [Idle EXCEPT !.at = "next", !.op = calls[c].op, !.id = id,
                         !.left = calls[c].left \ {id},
                         !.seen = calls[c].seen,
                         !.gid = calls[c].seen[id].gid,
                         !.method = CASE calls[c].op = "add" -> "addUri"
                                      [] calls[c].op = "pause" -> "pause"
                                      [] calls[c].op = "resume" -> "unpause"
                                      [] calls[c].op \in {"cancel", "remove"} ->
                                            "forceRemove"
                                      [] OTHER -> "tellStatus"]]
      BY <2>6 DEF GoesOn, Begins
    <3>2. /\ calls'[c].at = "next" /\ calls'[c].op = calls[c].op
          /\ calls'[c].id = id /\ calls'[c].left = calls[c].left \ {id}
          /\ calls'[c].seen = calls[c].seen
          /\ calls'[c].gid = calls[c].seen[id].gid
          /\ calls'[c].method = "addUri" => calls[c].op = "add"
          /\ calls'[c].method # "removeResult"
      <4>1. calls[c].op \in Ops /\ calls \in [Calls -> Call]
        BY <1>1 DEF Call, IInv, DownloadsTypeOK
      <4> QED
        BY <1>1, <3>1, <4>1 DEF Idle, Ops
    <3>3. calls[c].op # "add" /\ calls[c].left \subseteq Tasks
      BY <1>1, <2>6 DEF CallOK, InProgress, Call
    <3>4. \A t \in calls[c].left : rows'[t] = calls[c].seen[t]
      BY <1>4, <2>3, <3>3 DEF CallAlone
    <3>5. CallAlone(calls'[c], rows', aria')
      BY <3>2, <3>3, <3>4 DEF CallAlone, Renewed, LetsGo
    <3> QED
      BY <1>3, <2>1, <2>2, <2>4, <3>5
      DEF backend, StartAwaited, DownloadsAreOwned, Held
  <2> QED
    BY <2>5, <2>6
<1> QED
  BY <1>3, <1>5, <1>6, <1>7 DEF AloneInv

\* The request in progress goes on without a write and with its download.
LEMMA CallGoesOnAlone ==
  ASSUME IInv, AloneInv, NEW c \in InProgress, NEW call,
         calls' = [calls EXCEPT ![c] = call],
         call.at \notin {"idle", "over"}, call.gid = calls[c].gid,
         service = "open" => /\ CallAlone(call, rows, aria')
                             /\ start' # "no" => call.at = "starting",
         \A g \in Gids : aria'[g] \in Held => aria[g] \in Held,
         AriaDown', UNCHANGED <<rows, lifetime, shut, issued>>
  PROVE  AloneInv'
<1>1. c \in Calls /\ calls \in [Calls -> Call]
  BY DEF InProgress, IInv, DownloadsTypeOK
<1>2. calls'[c] = call /\ \A d \in Calls : d # c => calls'[d] = calls[d]
  BY <1>1
<1>3. AtMostOne' /\ InProgress' = {c}
  <2>1. AtMostOne' /\ InProgress' \subseteq {c}
    BY <1>2, OnlyOne DEF AloneInv
  <2>2. c \in InProgress'
    BY <1>1, <1>2 DEF InProgress
  <2> QED
    BY <2>1, <2>2
<1>4. IssuedKept'
  BY DEF AloneInv, IssuedKept, lifetime
<1>5. ASSUME service' = "open"
      PROVE  /\ shut' = "no" /\ StartAwaited' /\ DownloadsAreOwned'
             /\ \A d \in InProgress' : CallAlone(calls'[d], rows', aria')
  <2>1. service = "open"
    BY <1>5 DEF lifetime
  <2>2. shut' = "no" /\ StartAwaited'
    BY <1>2, <1>3, <2>1 DEF AloneInv, StartAwaited
  <2>3. CallAlone(calls'[c], rows', aria')
    BY <1>2, <2>1
  <2>4. ASSUME NEW g \in Gids, aria'[g] \in Held
        PROVE  rows'[issued'[g].task].gid = g
               \/ \E d \in InProgress' : calls'[d].gid = g
    <3>1. rows[issued[g].task].gid = g \/ calls[c].gid = g
      BY <2>1, <2>4, HeldHasRow DEF AloneInv, AtMostOne
    <3> QED
      BY <1>2, <1>3, <3>1
  <2> QED
    BY <1>3, <2>2, <2>3, <2>4 DEF DownloadsAreOwned, Held
<1> QED
  BY <1>3, <1>4, <1>5 DEF AloneInv

\* The requests go on together, none is over and none has a new download.
LEMMA AllGoOnAlone ==
  ASSUME IInv, AloneInv, calls' \in [Calls -> Call],
         \A d \in Calls : /\ calls'[d].at \in {"idle", "over"}
                                <=> calls[d].at \in {"idle", "over"}
                          /\ calls'[d].gid = calls[d].gid,
         service = "open" => \A d \in InProgress :
                                CallAlone(calls'[d], rows, aria'),
         start' # "no" => /\ start # "no"
                          /\ \A d \in Calls : calls[d].at = "starting"
                                => calls'[d].at = "starting",
         \A g \in Gids : aria'[g] \in Held => aria[g] \in Held,
         AriaDown', UNCHANGED <<rows, lifetime, shut, issued>>
  PROVE  AloneInv'
<1>1. InProgress' = InProgress
  BY DEF InProgress
<1>2. AtMostOne' /\ IssuedKept'
  BY <1>1 DEF AloneInv, AtMostOne, IssuedKept, lifetime
<1>3. ASSUME service' = "open"
      PROVE  /\ shut' = "no" /\ StartAwaited' /\ DownloadsAreOwned'
             /\ \A d \in InProgress' : CallAlone(calls'[d], rows', aria')
  <2>1. service = "open"
    BY <1>3 DEF lifetime
  <2>2. shut' = "no" /\ StartAwaited'
    BY <1>1, <2>1 DEF AloneInv, StartAwaited, InProgress
  <2>3. ASSUME NEW g \in Gids, aria'[g] \in Held
        PROVE  rows'[issued'[g].task].gid = g
               \/ \E d \in InProgress' : calls'[d].gid = g
    <3>1. \/ rows[issued[g].task].gid = g
          \/ \E d \in InProgress : calls[d].gid = g
      BY <2>1, <2>3, HeldHasRow
    <3> QED
      BY <1>1, <3>1 DEF InProgress
  <2> QED
    BY <1>1, <2>1, <2>2, <2>3 DEF DownloadsAreOwned, Held
<1> QED
  BY <1>2, <1>3 DEF AloneInv

\* Where the service is not open, the rest is all there is to say.
LEMMA NotOpenAlone ==
  ASSUME IInv, AloneInv, service' # "open", InProgress' \subseteq InProgress,
         AriaDown'
  PROVE  AloneInv'
<1>1. AtMostOne'
  BY DEF AloneInv, AtMostOne
<1>2. IssuedKept'
  BY DEF IssuedKept
<1> QED
  BY <1>1, <1>2 DEF AloneInv

LEMMA RequestedAlone ==
  ASSUME IInv, AloneInv, Requested, InProgress = {}
  PROVE  AloneInv'
<1> USE NullAssumption
<1>1. rows \in [Tasks -> Row \cup {NoRow}]
  BY DEF IInv, DownloadsTypeOK
<1>2. ASSUME NEW c \in Calls, NEW t \in Tasks, Add(c, t) PROVE AloneInv'
  <2>1. PICK row \in Row :
           /\ row.gid = NoGid /\ rows[t] = NoRow
           /\ rows' = [rows EXCEPT ![t] = row]
           /\ Begins(c, "add", {t}, [NoRows EXCEPT ![t] = row])
    BY <1>2 DEF Add, Row, Status
  <2> DEFINE seen == [NoRows EXCEPT ![t] = row]
  <2>2. seen[t] = row /\ seen \in [Tasks -> Row \cup {NoRow}]
        /\ \A x \in Tasks : x # t => seen[x] = NoRow
    BY DEF NoRows
  <2> HIDE DEF seen
  <2>3. Readable("add", {t}, seen)
    BY <2>1, <2>2 DEF Readable, RowWired, Ops
  <2>4. /\ rows' \in [Tasks -> Row \cup {NoRow}]
        /\ \A x \in {t} : rows'[x] = seen[x]
        /\ \A x \in {t} : seen[x].gid = NoGid
    BY <1>1, <2>1, <2>2
  <2>7. \A x \in Tasks : rows'[x] = rows[x]
                         \/ (rows[x] = NoRow /\ rows'[x] # NoRow)
    <3>1. row # NoRow
      OBVIOUS
    <3>2. rows'[t] = row /\ \A x \in Tasks : x # t => rows'[x] = rows[x]
      BY <1>1, <2>1
    <3> QED
      BY <2>1, <3>1, <3>2
  <2>5. Begins(c, "add", {t}, seen)
    BY <2>1 DEF seen
  <2>6. UNCHANGED <<backend, lifetime, aria, issued>>
    BY <1>2 DEF Add
  <2>8. UNCHANGED <<process, shut, start>>
    BY <2>6 DEF backend
  <2> QED
    BY <2>3, <2>4, <2>5, <2>6, <2>7, <2>8, BegunAlone
<1>3. ASSUME NEW c \in Calls, NEW t \in Tasks, NEW op \in Ops, op # "add",
             rows[t] # NoRow, rows[t].gid # NoGid,
             Begins(c, op, {t}, [NoRows EXCEPT ![t] = rows[t]]),
             process' # "up" <=> process # "up",
             UNCHANGED <<rows, lifetime, shut, start, aria, issued>>
      PROVE  AloneInv'
  <2> DEFINE seen == [NoRows EXCEPT ![t] = rows[t]]
  <2>1. seen[t] = rows[t] /\ seen \in [Tasks -> Row \cup {NoRow}]
        /\ \A x \in Tasks : x # t => seen[x] = NoRow
    BY <1>1 DEF NoRows
  <2>2. Begins(c, op, {t}, seen)
    BY <1>3
  <2> HIDE DEF seen
  <2>3. Readable(op, {t}, seen)
    BY <1>1, <1>3, <2>1 DEF Readable, RowWired, IInv, RowsWired
  <2>4. /\ rows' \in [Tasks -> Row \cup {NoRow}]
        /\ \A x \in {t} : rows'[x] = seen[x]
        /\ \A x \in Tasks : rows'[x] = rows[x]
                            \/ (rows[x] = NoRow /\ rows'[x] # NoRow)
    BY <1>1, <1>3, <2>1
  <2> QED
    BY <1>3, <2>2, <2>3, <2>4, BegunAlone
<1>4. ASSUME NEW c \in Calls, NEW t \in Tasks, NEW op \in Ops,
             Mutate(c, t, op)
      PROVE  AloneInv'
  BY <1>3, <1>4 DEF Mutate, backend
<1>5. ASSUME NEW c \in Calls, NEW t \in Tasks, Retry(c, t) PROVE AloneInv'
  BY <1>3, <1>5 DEF Retry, Ops
<1>6. ASSUME NEW c \in Calls, Refresh(c) PROVE AloneInv'
  <2> DEFINE ids == {t \in Active(rows) : rows[t].gid # NoGid}
  <2>1. Readable("refresh", ids, rows)
    BY <1>1, <1>6 DEF Refresh, Readable, IInv, RowsWired, Active, Ops
  <2>2. Begins(c, "refresh", ids, rows) /\ ids \subseteq Tasks
        /\ UNCHANGED <<rows, backend, lifetime, aria, issued>>
    BY <1>6 DEF Refresh, Active
  <2> HIDE DEF ids
  <2>3. /\ rows' \in [Tasks -> Row \cup {NoRow}]
        /\ \A x \in ids : rows'[x] = rows[x]
        /\ \A x \in Tasks : rows'[x] = rows[x]
                            \/ (rows[x] = NoRow /\ rows'[x] # NoRow)
        /\ UNCHANGED <<process, shut, start>>
    BY <1>1, <2>2 DEF backend
  <2> QED
    BY <2>1, <2>2, <2>3, BegunAlone
<1> QED
  BY <1>2, <1>4, <1>5, <1>6 DEF Requested

\* What is known of a request in progress while the service is open or not.
LEMMA InProgressIs ==
  ASSUME IInv, AloneInv, NEW c \in InProgress
  PROVE  /\ c \in Calls /\ calls[c] \in Call /\ calls[c].id \in Tasks
         /\ CallOK(calls[c], issued, run)
         /\ calls[c].seen[calls[c].id] \in Row
         /\ calls[c].op # "add" => calls[c].gid \in Gids
         /\ service = "open" => CallAlone(calls[c], rows, aria)
         /\ service = "open" /\ calls[c].at # "starting" => start = "no"
<1>1. c \in Calls /\ calls[c] \in Call /\ CallOK(calls[c], issued, run)
      /\ calls[c].at \notin {"idle", "over"}
  BY DEF InProgress, IInv, DownloadsTypeOK, CallsOK
<1>2. calls[c].id \in Tasks /\ calls[c].seen[calls[c].id] \in Row
  BY <1>1 DEF CallOK, Call
<1>3. calls[c].op # "add" => calls[c].gid \in Gids
  BY <1>1 DEF CallOK, Call
<1>4. service = "open" => CallAlone(calls[c], rows, aria)
  BY DEF AloneInv
<1>5. service = "open" /\ calls[c].at # "starting" => start = "no"
  BY DEF AloneInv, AtMostOne, StartAwaited
<1> QED
  BY <1>1, <1>2, <1>3, <1>4, <1>5

LEMMA EnsureStartedAlone ==
  ASSUME IInv, AloneInv, NEW c \in Calls, EnsureStarted(c)
  PROVE  AloneInv'
<1>1. c \in InProgress /\ calls[c].at = "next"
      /\ UNCHANGED <<rows, lifetime, shut, process, aria, issued>>
  BY DEF EnsureStarted, InProgress
<1>2. PICK at \in {"rejected", "sent", "starting"} :
         /\ calls' = [calls EXCEPT ![c].at = at]
         /\ start' # start => at = "starting"
  BY DEF EnsureStarted
<1> DEFINE call == [calls[c] EXCEPT !.at = at]
<1>3. calls' = [calls EXCEPT ![c] = call]
  BY <1>2 DEF IInv, DownloadsTypeOK
<1>4. /\ call.at = at /\ call.gid = calls[c].gid /\ call.id = calls[c].id
      /\ call.left = calls[c].left /\ call.seen = calls[c].seen
      /\ call.op = calls[c].op /\ call.method = calls[c].method
  BY <1>1, InProgressIs DEF Call
<1> HIDE DEF call
<1>5. CallAlone(calls[c], rows, aria) => CallAlone(call, rows, aria')
  BY <1>1, <1>4 DEF CallAlone, Renewed, LetsGo
<1>6. service = "open" /\ start' # "no" => call.at = "starting"
  BY <1>1, <1>2, <1>4, InProgressIs
<1>7. AriaDown'
  BY <1>1 DEF AloneInv, AriaDown
<1>8. service = "open" => CallAlone(call, rows, aria')
  BY <1>1, <1>5, InProgressIs
<1>9. call.at \notin {"idle", "over"}
  BY <1>2, <1>4
<1> QED
  BY <1>1, <1>3, <1>4, <1>6, <1>7, <1>8, <1>9, CallGoesOnAlone

LEMMA RejectedAlone ==
  ASSUME IInv, AloneInv, NEW c \in Calls, Rejected(c)
  PROVE  AloneInv'
<1>1. c \in InProgress /\ calls[c].at = "rejected"
      /\ UNCHANGED <<backend, lifetime, requests, aria, issued>>
  BY DEF Rejected, InProgress
<1> DEFINE row == [calls[c].seen[calls[c].id] EXCEPT !.status = "failed"]
<1>2. row \in Row /\ row.gid = calls[c].seen[calls[c].id].gid
  BY <1>1, InProgressIs DEF Row, Status
<1>3. Upsert(calls[c].id, row) /\ GoesOn(c)
  BY DEF Rejected
<1> HIDE DEF row
<1>4. CASE service = "open"
  <2>1. row.gid = calls[c].gid
    BY <1>1, <1>2, <1>4, InProgressIs DEF CallAlone, Renewed
  <2> QED
    BY <1>1, <1>2, <1>3, <2>1, WrittenAlone
<1>5. CASE service # "open"
  <2>1. InProgress' \subseteq InProgress
    <3>1. \A d \in Calls : d # c => calls'[d] = calls[d]
      BY <1>1, <1>3, InProgressIs, GoesOnOK DEF IInv
    <3> QED
      BY <1>1, <3>1, OnlyOne DEF AloneInv
  <2>2. AriaDown'
    BY <1>1 DEF AloneInv, AriaDown, backend
  <2> QED
    BY <1>1, <1>5, <2>1, <2>2, NotOpenAlone DEF lifetime
<1> QED
  BY <1>4, <1>5

LEMMA AppliesAlone ==
  ASSUME IInv, AloneInv, NEW c \in InProgress, calls[c].at = "answered",
         NEW status \in Status, Applies(c, status),
         UNCHANGED <<backend, lifetime, aria, issued>>
  PROVE  AloneInv'
<1> DEFINE row == [calls[c].seen[calls[c].id] EXCEPT !.status = status,
                                                    !.gid = calls[c].gid]
<1>1. row \in Row /\ row.gid = calls[c].gid
  BY InProgressIs DEF Row, Call
<1>2. Upsert(calls[c].id, row) /\ GoesOn(c)
  BY DEF Applies
<1> HIDE DEF row
<1> QED
  BY <1>1, <1>2, WrittenAlone

\* An answer leads to another request to aria2, or to a failure.
LEMMA AsksAlone ==
  ASSUME IInv, AloneInv, NEW c \in InProgress, calls[c].at = "answered",
         NEW call, calls' = [calls EXCEPT ![c] = call],
         call.at \in {"next", "sent", "answered", "rejected"},
         call.id = calls[c].id, call.left = calls[c].left,
         call.seen = calls[c].seen, call.gid = calls[c].gid,
         call.op = calls[c].op \/ (calls[c].op = "retry" /\ call.op = "resume"),
         call.op = "resume" => call.method \notin {"addUri", "removeResult"},
         ~Renewed(calls[c]), ~Renewed(call),
         call.method = "addUri" => call.op \in {"add", "retry"},
         call.method = "removeResult" => call.op = "retry",
         LetsGo(call) => LetsGo(calls[c]),
         UNCHANGED <<rows, backend, lifetime, aria, issued>>
  PROVE  AloneInv'
<1>1. CallAlone(calls[c], rows, aria) => CallAlone(call, rows, aria')
  BY DEF CallAlone
<1>2. service = "open" => CallAlone(call, rows, aria') /\ start' = "no"
  BY <1>1, InProgressIs DEF backend
<1>3. AriaDown'
  BY DEF AloneInv, AriaDown, backend
<1> QED
  BY <1>2, <1>3, CallGoesOnAlone DEF backend

LEMMA AnsweredAlone ==
  ASSUME IInv, AloneInv, NEW c \in Calls, Answered(c)
  PROVE  AloneInv'
<1>1. c \in InProgress /\ calls[c].at = "answered"
      /\ UNCHANGED <<backend, lifetime, aria, issued>>
  BY DEF Answered, InProgress
<1>2. /\ calls \in [Calls -> Call] /\ calls[c] \in Call
      /\ calls[c].reply # "none"
      /\ calls[c].method = "tellStatus" => calls[c].reply # "done"
      /\ calls[c].method = "tellStatus" /\ calls[c].reply # "rejected" =>
            calls[c].reply \in Status
  BY <1>1, InProgressIs DEF CallOK, Call, IInv, DownloadsTypeOK
<1>3. ASSUME NEW status \in Status, Applies(c, status) PROVE AloneInv'
  BY <1>1, <1>3, AppliesAlone
<1>4. CASE UriAdded(c)
  BY <1>3, <1>4 DEF UriAdded, Status
<1>5. CASE Stepped(c)
  <2>1. CASE calls[c].method = "forceRemove"
    BY <1>3, <1>5, <2>1 DEF Stepped, Status
  <2>2. CASE calls[c].method # "forceRemove"
    <3> DEFINE call == [calls[c] EXCEPT !.at = "next", !.reply = "none",
                          !.method = "tellStatus",
                          !.op = IF calls[c].op = "retry" THEN "resume"
                                 ELSE calls[c].op]
    <3>1. /\ calls[c].method \in {"pause", "unpause"} /\ AsksStatus(c)
          /\ UNCHANGED rows
      BY <1>5, <2>2 DEF Stepped
    <3>2. calls' = [calls EXCEPT ![c] = call]
      BY <1>2, <3>1 DEF AsksStatus, Call
    <3>3. /\ call.at = "next" /\ call.method = "tellStatus"
          /\ call.id = calls[c].id /\ call.left = calls[c].left
          /\ call.seen = calls[c].seen /\ call.gid = calls[c].gid
          /\ call.op = calls[c].op
             \/ (calls[c].op = "retry" /\ call.op = "resume")
      BY <1>2 DEF Call
    <3> HIDE DEF call
    <3>4. ~Renewed(calls[c]) /\ ~Renewed(call) /\ ~LetsGo(call)
      BY <3>1, <3>3 DEF Renewed, LetsGo
    <3> QED
      BY <1>1, <3>1, <3>2, <3>3, <3>4, AsksAlone
  <2> QED
    BY <2>1, <2>2
<1>6. CASE StatusKnown(c)
  BY <1>2, <1>3, <1>6 DEF StatusKnown
<1>7. ASSUME NEW method \in {"unpause", "removeResult", "addUri"},
             Sends(c, method), calls[c].op = "retry", ~Renewed(calls[c]),
             method # "unpause" => LetsGo(calls[c]), UNCHANGED rows
      PROVE  AloneInv'
  <2> DEFINE call == [calls[c] EXCEPT
                        !.at = IF process = "up" THEN "sent" ELSE "answered",
                        !.method = method,
                        !.reply = IF process = "up" THEN "none"
                                  ELSE "rejected"]
  <2>1. calls' = [calls EXCEPT ![c] = call]
    BY <1>2, <1>7 DEF Sends, Call
  <2>2. /\ call.at \in {"sent", "answered"} /\ call.method = method
        /\ call.id = calls[c].id /\ call.left = calls[c].left
        /\ call.seen = calls[c].seen /\ call.gid = calls[c].gid
        /\ call.op = calls[c].op /\ call.reply # "done"
    BY <1>2 DEF Call
  <2> HIDE DEF call
  <2>3. ~Renewed(call) /\ (LetsGo(call) => LetsGo(calls[c]))
    BY <1>7, <2>2 DEF Renewed, LetsGo
  <2> QED
    BY <1>1, <1>7, <2>1, <2>2, <2>3, AsksAlone
<1>8. ASSUME Throws(c), calls[c].reply # "done", UNCHANGED rows
      PROVE  AloneInv'
  <2> DEFINE call == [calls[c] EXCEPT !.at = "rejected"]
  <2>1. calls' = [calls EXCEPT ![c] = call]
    BY <1>2, <1>8 DEF Throws, Call
  <2>2. /\ call.at = "rejected" /\ call.method = calls[c].method
        /\ call.id = calls[c].id /\ call.left = calls[c].left
        /\ call.seen = calls[c].seen /\ call.gid = calls[c].gid
        /\ call.op = calls[c].op
    BY <1>2 DEF Call
  <2> HIDE DEF call
  <2>3. /\ ~Renewed(calls[c]) /\ ~Renewed(call)
        /\ LetsGo(call) => LetsGo(calls[c])
    BY <1>1, <1>8, <2>2 DEF Renewed, LetsGo
  <2>4. CASE service = "open"
    <3>1. /\ call.method = "addUri" => call.op \in {"add", "retry"}
          /\ call.method = "removeResult" => call.op = "retry"
      BY <1>1, <2>2, <2>4, InProgressIs DEF CallAlone
    <3>2. call.op = "resume" => call.method \notin {"addUri", "removeResult"}
      BY <3>1
    <3> QED
      BY <1>1, <1>8, <2>1, <2>2, <2>3, <3>1, <3>2, AsksAlone
  <2>5. CASE service # "open"
    <3>1. InProgress' \subseteq InProgress
      BY <1>1, <1>2, <2>1, OnlyOne DEF AloneInv
    <3> QED
      BY <1>1, <1>8, <2>5, <3>1, NotOpenAlone
      DEF lifetime, backend, AloneInv, AriaDown
  <2> QED
    BY <2>4, <2>5
<1>9. CASE RetryKeeps(c)
  <2>1. CASE calls[c].reply \in {"paused", "queued"}
    BY <1>7, <1>9, <2>1 DEF RetryKeeps, Renewed
  <2>2. CASE calls[c].reply \notin {"paused", "queued"}
    BY <1>3, <1>9, <2>2 DEF RetryKeeps, Status
  <2> QED
    BY <2>1, <2>2
<1>10. CASE RetryResubmits(c)
  <2>1. /\ calls[c].op = "retry" /\ UNCHANGED rows
        /\ calls[c].method \in {"tellStatus", "removeResult"}
        /\ LetsGo(calls[c]) /\ ~Renewed(calls[c])
    BY <1>1, <1>10 DEF RetryResubmits, LetsGo, Renewed
  <2>2. CASE calls[c].method = "tellStatus"
    BY <1>2, <1>7, <1>8, <1>10, <2>1, <2>2 DEF RetryResubmits
  <2>3. CASE calls[c].method = "removeResult"
    BY <1>7, <1>10, <2>1, <2>3 DEF RetryResubmits
  <2> QED
    BY <2>1, <2>2, <2>3
<1>11. CASE Fails(c)
  BY <1>8, <1>11 DEF Fails
<1> QED
  BY <1>4, <1>5, <1>6, <1>9, <1>10, <1>11 DEF Answered

\* aria2 takes the download of the only request.
LEMMA HandsInAlone ==
  ASSUME IInv, AloneInv, NEW c \in Calls, NEW g \in Gids,
         calls[c].at = "sent", calls[c].method = "addUri", process = "up",
         issued[g] = NoIssue,
         issued' = [issued EXCEPT ![g] = [task |-> calls[c].id, run |-> run]],
         aria' = [aria EXCEPT ![g] = "running"],
         Answers(c, "done", g),
         UNCHANGED <<rows, backend, lifetime, requests>>
  PROVE  AloneInv'
<1>1. c \in InProgress
  BY DEF InProgress
<1>2. /\ calls[c] \in Call /\ calls[c].id \in Tasks
      /\ calls \in [Calls -> Call] /\ issued[g].task = NoRow
      /\ calls[c].seen[calls[c].id] \in Row
  BY <1>1, InProgressIs DEF IInv, DownloadsTypeOK, NoIssue
<1>3. /\ \A d \in Calls : d # c => calls'[d] = calls[d]
      /\ calls'[c].at = "answered" /\ calls'[c].reply = "done"
      /\ calls'[c].gid = g /\ calls'[c].id = calls[c].id
      /\ calls'[c].left = calls[c].left /\ calls'[c].seen = calls[c].seen
      /\ calls'[c].op = calls[c].op /\ calls'[c].method = "addUri"
  BY <1>2 DEF Answers, Call
<1>4. /\ issued'[g].task = calls[c].id /\ aria'[g] = "running"
      /\ \A h \in Gids : h # g => issued'[h] = issued[h] /\ aria'[h] = aria[h]
  BY DEF IInv, DownloadsTypeOK
<1>5. AtMostOne' /\ InProgress' = {c}
  <2>1. AtMostOne' /\ InProgress' \subseteq {c}
    BY <1>1, <1>3, OnlyOne DEF AloneInv
  <2>2. c \in InProgress'
    BY <1>3 DEF InProgress
  <2> QED
    BY <2>1, <2>2
<1>6. AriaDown'
  BY DEF AriaDown, backend
<1>7. ASSUME service' = "open"
      PROVE  /\ shut' = "no" /\ StartAwaited' /\ DownloadsAreOwned'
             /\ IssuedKept' /\ CallAlone(calls'[c], rows', aria')
  <2>1. service = "open" /\ shut = "no" /\ start = "no"
    BY <1>1, <1>7, InProgressIs DEF lifetime, AloneInv
  <2>2. CallAlone(calls[c], rows, aria)
    BY <1>1, <2>1, InProgressIs
  <2> DEFINE old == calls[c].seen[calls[c].id].gid
  <2>3. /\ calls[c].gid = old /\ rows[calls[c].id] = calls[c].seen[calls[c].id]
        /\ old \in Gids => aria[old] \notin Held
    BY <1>1, <2>2, NullAssumption DEF CallAlone, Renewed, LetsGo
  <2>4. old # g
    <3>1. old = NoGid \/ IssuedTo(issued, old, calls[c].id)
      BY <1>1, <2>3, InProgressIs DEF CallOK, InProgress
    <3> QED
      BY <3>1, NullAssumption DEF IssuedTo
  <2>5. IssuedKept'
    BY <1>2, <1>4, <2>1, <2>3, NullAssumption DEF AloneInv, IssuedKept
  <2>6. CallAlone(calls'[c], rows', aria')
    <3>1. LetsGo(calls'[c]) => old \in Gids /\ aria'[old] \notin Held
      <4>1. calls[c].op = "retry" => old \in Gids
        BY <1>1, <2>3, InProgressIs
      <4> QED
        BY <1>3, <1>4, <2>3, <2>4, <4>1 DEF LetsGo
    <3>2. Renewed(calls'[c])
      BY <1>3 DEF Renewed
    <3> QED
      BY <1>3, <2>2, <3>1, <3>2 DEF CallAlone
  <2>7. ASSUME NEW h \in Gids, aria'[h] \in Held
        PROVE  rows'[issued'[h].task].gid = h
               \/ \E d \in InProgress' : calls'[d].gid = h
    <3>1. CASE h = g
      BY <1>3, <1>5, <3>1
    <3>2. CASE h # g
      <4>1. rows[issued[h].task].gid = h \/ calls[c].gid = h
        BY <1>1, <1>4, <2>1, <2>7, <3>2, HeldHasRow DEF AloneInv, AtMostOne
      <4> QED
        BY <1>4, <2>3, <2>7, <3>2, <4>1
    <3> QED
      BY <3>1, <3>2
  <2> QED
    BY <2>1, <2>5, <2>6, <2>7
    DEF backend, StartAwaited, DownloadsAreOwned, Held
<1> QED
  BY <1>5, <1>6, <1>7 DEF AloneInv, IssuedKept

LEMMA HandlesAlone ==
  ASSUME IInv, AloneInv, NEW c \in Calls, Handles(c)
  PROVE  AloneInv'
<1>1. c \in InProgress /\ calls[c].at = "sent" /\ process = "up"
      /\ UNCHANGED <<rows, backend, lifetime, requests>>
  BY DEF Handles, InProgress
<1>2. CASE calls[c].method = "addUri"
  BY <1>1, <1>2, HandsInAlone DEF Handles
<1>3. CASE calls[c].method # "addUri"
  <2> DEFINE g == calls[c].gid
  <2>1. g \in Gids /\ calls \in [Calls -> Call] /\ calls[c] \in Call
    BY <1>1, <1>3, InProgressIs DEF CallOK, InProgress, IInv, DownloadsTypeOK
  <2>2. PICK reply : /\ Answers(c, reply, g)
                     /\ UNCHANGED issued
                     /\ \/ UNCHANGED aria
                        \/ aria[g] \in Held /\ \E to \in Held \cup {"removed"} :
                              aria' = [aria EXCEPT ![g] = to]
                        \/ aria[g] \notin Held
                           /\ aria' = [aria EXCEPT ![g] = "unknown"]
                     /\ calls[c].method = "tellStatus" =>
                           reply \in Reported(aria[g]) /\ UNCHANGED aria
    <3>1. CASE calls[c].method \in {"pause", "unpause", "forceRemove"}
      BY <1>3, <3>1 DEF Handles, Moves, Held
    <3>2. CASE calls[c].method = "removeResult"
      BY <1>3, <3>2 DEF Handles, Moves, Held
    <3>3. CASE calls[c].method = "tellStatus"
      BY <1>3, <3>3 DEF Handles
    <3> QED
      BY <2>1, <3>1, <3>2, <3>3, <1>3 DEF Call, Methods
  <2> DEFINE call == [calls[c] EXCEPT !.at = "answered", !.reply = reply,
                                      !.gid = g]
  <2>3. calls' = [calls EXCEPT ![c] = call]
    BY <2>1, <2>2 DEF Answers, Call
  <2>4. /\ call.at = "answered" /\ call.reply = reply /\ call.gid = g
        /\ call.id = calls[c].id /\ call.left = calls[c].left
        /\ call.seen = calls[c].seen /\ call.op = calls[c].op
        /\ call.method = calls[c].method
    BY <2>1 DEF Call
  <2> HIDE DEF call
  <2>5. \A h \in Gids : aria'[h] \in Held => aria[h] \in Held
    BY <2>1, <2>2 DEF Held, IInv, DownloadsTypeOK
  <2>6. AriaDown'
    BY <1>1 DEF AriaDown, backend
  <2>7. ASSUME service = "open"
        PROVE  CallAlone(call, rows, aria') /\ start' = "no"
    <3>1. CallAlone(calls[c], rows, aria) /\ start' = "no"
      BY <1>1, <2>7, InProgressIs DEF backend
    <3>2. calls[c].gid = calls[c].seen[calls[c].id].gid
      BY <1>1, <3>1 DEF CallAlone, Renewed
    <3>3. ASSUME LetsGo(call) PROVE aria'[g] \notin Held
      <4>1. CASE call.method = "tellStatus"
        <5>1. aria[g] \in {"unknown", "running", "paused", "complete", "error",
                          "removed"}
          BY <2>1 DEF IInv, DownloadsTypeOK
        <5>2. reply \in {"failed", "removed", "rejected"}
          BY <2>4, <3>3, <4>1 DEF LetsGo
        <5>3. reply \in Reported(aria[g])
          BY <2>2, <2>4, <4>1
        <5>4. aria[g] \notin Held
          BY <5>1, <5>2, <5>3 DEF Held, Reported
        <5> QED
          BY <2>2, <2>4, <4>1, <5>4
      <4>2. CASE call.method # "tellStatus"
        <5>1. LetsGo(calls[c])
          BY <2>4, <3>3, <4>2 DEF LetsGo
        <5> QED
          BY <2>1, <2>5, <3>1, <3>2, <5>1 DEF CallAlone
      <4> QED
        BY <4>1, <4>2
    <3>4. Renewed(call) \/ call.gid = call.seen[call.id].gid
      BY <2>4, <3>2
    <3>5. LetsGo(call) => /\ call.seen[call.id].gid \in Gids
                          /\ aria'[call.seen[call.id].gid] \notin Held
      BY <2>1, <2>4, <3>2, <3>3
    <3> QED
      BY <2>4, <3>1, <3>4, <3>5 DEF CallAlone
  <2> QED
    BY <1>1, <2>2, <2>3, <2>4, <2>5, <2>6, <2>7, CallGoesOnAlone DEF backend
<1> QED
  BY <1>2, <1>3

\* A request that was asleep or on the wire is woken or answered: what it is
\* about stays as it was.
SameCall(call, was) ==
    /\ call.at \notin {"idle", "over"} /\ call.gid = was.gid
    /\ call.id = was.id /\ call.left = was.left /\ call.seen = was.seen
    /\ call.op = was.op /\ call.method = was.method

LEMMA SameCallAlone ==
  ASSUME NEW call, NEW was, SameCall(call, was), CallAlone(was, rows, aria),
         ~Renewed(was), ~Renewed(call),
         \A g \in Gids : aria'[g] = aria[g] \/ aria'[g] = "unknown",
         LetsGo(call) => LetsGo(was)
                         \/ (was.gid \in Gids /\ aria'[was.gid] \notin Held)
  PROVE  CallAlone(call, rows, aria')
BY DEF SameCall, CallAlone, Held

\* The start that the request waits for succeeds or fails.
LEMMA StartOverAlone ==
  ASSUME IInv, AloneInv, StartReady \/ StartFails
  PROVE  AloneInv'
<1>1. /\ calls \in [Calls -> Call] /\ start' = "no"
      /\ UNCHANGED <<rows, lifetime, shut, process, aria, issued>>
  BY DEF IInv, DownloadsTypeOK, StartReady, StartFails
<1>2. ASSUME NEW d \in Calls, calls[d].at = "starting"
      PROVE  \/ calls'[d] = [calls[d] EXCEPT !.at = "sent"]
             \/ calls'[d] = [calls[d] EXCEPT !.at = "rejected"]
             \/ /\ calls'[d] = [calls[d] EXCEPT !.at = "answered",
                                               !.reply = "rejected"]
                /\ shut # "no"
  BY <1>2 DEF StartReady, StartFails, BackendClosed
<1>3. ASSUME NEW d \in Calls, calls[d].at # "starting"
      PROVE  calls'[d] = calls[d]
  BY <1>3 DEF StartReady, StartFails
<1>4. ASSUME NEW d \in Calls, calls[d].at = "starting"
      PROVE  /\ calls'[d] \in Call /\ SameCall(calls'[d], calls[d])
             /\ ~Renewed(calls[d]) /\ ~Renewed(calls'[d])
             /\ calls'[d].at = "answered" => shut # "no"
  <2>1. calls[d] \in Call
    BY <1>1
  <2>2. CASE calls'[d] = [calls[d] EXCEPT !.at = "sent"]
    BY <1>4, <2>1, <2>2 DEF Call, SameCall, Renewed
  <2>3. CASE calls'[d] = [calls[d] EXCEPT !.at = "rejected"]
    BY <1>4, <2>1, <2>3 DEF Call, SameCall, Renewed
  <2>4. CASE /\ calls'[d] = [calls[d] EXCEPT !.at = "answered",
                                             !.reply = "rejected"]
             /\ shut # "no"
    BY <1>4, <2>1, <2>4 DEF Call, SameCall, Renewed
  <2> QED
    BY <1>2, <1>4, <2>2, <2>3, <2>4
<1>5. calls' \in [Calls -> Call]
  <2>1. \A d \in Calls : calls'[d] \in Call
    BY <1>1, <1>3, <1>4
  <2>2. \E f : calls' = [d \in Calls |-> f[d]]
    BY DEF StartReady, StartFails
  <2> QED
    BY <2>1, <2>2
<1>6. ASSUME service = "open", NEW d \in InProgress
      PROVE  CallAlone(calls'[d], rows, aria')
  <2>1. /\ CallAlone(calls[d], rows, aria) /\ shut = "no" /\ d \in Calls
    BY <1>6, InProgressIs DEF AloneInv
  <2>2. CASE calls[d].at = "starting"
    <3>1. LetsGo(calls'[d]) => LetsGo(calls[d])
      BY <1>4, <2>1, <2>2 DEF LetsGo, SameCall
    <3> QED
      BY <1>1, <1>4, <2>1, <2>2, <3>1, SameCallAlone
  <2>3. CASE calls[d].at # "starting"
    BY <1>1, <1>3, <2>1, <2>3
  <2> QED
    BY <2>2, <2>3
<1>7. \A d \in Calls : /\ calls'[d].at \in {"idle", "over"}
                              <=> calls[d].at \in {"idle", "over"}
                       /\ calls'[d].gid = calls[d].gid
  BY <1>3, <1>4 DEF SameCall
<1>8. AriaDown'
  BY <1>1 DEF AloneInv, AriaDown
<1> QED
  BY <1>1, <1>5, <1>6, <1>7, <1>8, AllGoOnAlone

\* The process exits: what was on the wire is answered, and aria2 has nothing.
LEMMA ProcessExitsAlone ==
  ASSUME IInv, AloneInv, ProcessExits
  PROVE  AloneInv'
<1>1. /\ calls \in [Calls -> Call]
      /\ \A g \in Gids : aria'[g] = "unknown"
      /\ UNCHANGED <<rows, lifetime, shut, start, issued>>
  BY DEF IInv, DownloadsTypeOK, ProcessExits
<1>2. ASSUME NEW d \in Calls, calls[d].at = "sent"
      PROVE  /\ calls'[d] \in Call /\ SameCall(calls'[d], calls[d])
             /\ ~Renewed(calls[d]) /\ ~Renewed(calls'[d])
  <2>1. calls'[d] = [calls[d] EXCEPT !.at = "answered", !.reply = "rejected"]
    BY <1>2 DEF ProcessExits
  <2>2. calls[d] \in Call
    BY <1>1
  <2> QED
    BY <1>2, <2>1, <2>2 DEF Call, SameCall, Renewed
<1>3. ASSUME NEW d \in Calls, calls[d].at # "sent"
      PROVE  calls'[d] = calls[d]
  BY <1>3 DEF ProcessExits
<1>4. calls' \in [Calls -> Call]
  <2>1. \A d \in Calls : calls'[d] \in Call
    BY <1>1, <1>2, <1>3
  <2>2. \E f : calls' = [d \in Calls |-> f[d]]
    BY DEF ProcessExits
  <2> QED
    BY <2>1, <2>2
<1>5. ASSUME service = "open", NEW d \in InProgress
      PROVE  CallAlone(calls'[d], rows, aria')
  <2>1. /\ CallAlone(calls[d], rows, aria) /\ d \in Calls
        /\ calls[d].op # "add" => calls[d].gid \in Gids
    BY <1>5, InProgressIs
  <2>2. CASE calls[d].at = "sent"
    <3>1. LetsGo(calls'[d]) => calls[d].gid \in Gids
                               /\ aria'[calls[d].gid] \notin Held
      BY <1>1, <1>2, <2>1, <2>2 DEF LetsGo, SameCall, Held
    <3> QED
      BY <1>1, <1>2, <2>1, <2>2, <3>1, SameCallAlone
  <2>3. CASE calls[d].at # "sent"
    <3>1. calls'[d] = calls[d]
      BY <1>3, <2>1, <2>3
    <3> QED
      BY <1>1, <2>1, <3>1 DEF CallAlone, Held
  <2> QED
    BY <2>2, <2>3
<1>6. \A d \in Calls : /\ calls'[d].at \in {"idle", "over"}
                              <=> calls[d].at \in {"idle", "over"}
                       /\ calls'[d].gid = calls[d].gid
                       /\ calls[d].at = "starting" => calls'[d].at = "starting"
  BY <1>2, <1>3 DEF SameCall
<1>7. AriaDown' /\ \A g \in Gids : aria'[g] \in Held => aria[g] \in Held
  BY <1>1 DEF AriaDown, Held
<1> QED
  BY <1>1, <1>4, <1>5, <1>6, <1>7, AllGoOnAlone

\* A request sent before the process listens is refused.
LEMMA UnansweredAlone ==
  ASSUME IInv, AloneInv, NEW c \in Calls, Unanswered(c),
         calls[c].at = "sent", start = "ready"
  PROVE  AloneInv'
<1>1. c \in InProgress /\ UNCHANGED <<rows, backend, lifetime, aria, issued>>
  BY DEF Unanswered, InProgress
<1>2. service # "open"
  BY <1>1, InProgressIs
<1>3. InProgress' \subseteq InProgress
  <2>1. \A d \in Calls : d # c => calls'[d] = calls[d]
    BY DEF Unanswered, IInv, DownloadsTypeOK
  <2> QED
    BY <1>1, <2>1, OnlyOne DEF AloneInv
<1> QED
  BY <1>1, <1>2, <1>3, NotOpenAlone DEF backend, lifetime, AloneInv, AriaDown

\* The process is there and aria2 has nothing yet, or a download ends.
LEMMA QuietlyAlone ==
  ASSUME IInv, AloneInv, Spawn \/ DownloadEnds
  PROVE  AloneInv'
<1>1. /\ calls \in [Calls -> Call] /\ UNCHANGED <<rows, lifetime, shut, calls, issued>>
      /\ start' # "no" => start # "no"
  BY DEF IInv, DownloadsTypeOK, Spawn, DownloadEnds, backend
<1>2. \A g \in Gids : aria'[g] \in Held => aria[g] \in Held
  BY DEF Spawn, DownloadEnds, Held, IInv, DownloadsTypeOK
<1>3. AriaDown'
  <2>1. CASE Spawn
    BY <2>1 DEF Spawn, AriaDown
  <2>2. CASE DownloadEnds
    <3>1. process = "up"
      BY <2>2 DEF DownloadEnds, AloneInv, AriaDown
    <3> QED
      BY <2>2, <3>1 DEF DownloadEnds, AriaDown, backend
  <2> QED
    BY <2>1, <2>2
<1>4. ASSUME service = "open", NEW d \in InProgress
      PROVE  CallAlone(calls'[d], rows, aria')
  <2>1. CallAlone(calls[d], rows, aria)
    BY <1>4, InProgressIs
  <2>2. d \in Calls
    BY DEF InProgress
  <2> QED
    BY <1>1, <1>2, <2>1, <2>2 DEF CallAlone
<1> QED
  BY <1>1, <1>2, <1>3, <1>4, AllGoOnAlone

\* The end of the service, by a close or a crash.
LEMMA EndsAlone ==
  ASSUME IInv, AloneInv,
         \/ Close \/ PauseAll \/ ShutdownEnds \/ CloseEnds \/ CloseAgain \/ Crash
  PROVE  AloneInv'
<1>1. service' # "open"
  BY DEF Close, PauseAll, ShutdownEnds, CloseEnds, CloseAgain, Crash, lifetime,
     AloneInv
<1>2. InProgress' \subseteq InProgress
  <2>1. CASE \/ Close \/ PauseAll \/ CloseEnds \/ CloseAgain
    <3>1. UNCHANGED calls
      BY <2>1 DEF Close, PauseAll, CloseEnds, CloseAgain
    <3> QED
      BY <3>1 DEF InProgress
  <2>2. CASE ShutdownEnds
    <3>1. \A d \in Calls : calls[d].at # "sent" => calls'[d] = calls[d]
      BY <2>2 DEF ShutdownEnds
    <3> QED
      BY <3>1 DEF InProgress
  <2>3. CASE Crash
    <3>1. \A d \in Calls : d \notin InProgress => calls'[d] = calls[d]
      BY <2>3 DEF Crash, Dropped
    <3> QED
      BY <3>1 DEF InProgress
  <2> QED
    BY <2>1, <2>2, <2>3
<1>3. AriaDown'
  <2>1. CASE PauseAll
    BY <2>1 DEF PauseAll, AloneInv, AriaDown
  <2>2. CASE ShutdownEnds
    BY <2>2 DEF ShutdownEnds, AriaDown
  <2>3. CASE Close \/ CloseEnds \/ CloseAgain \/ Crash
    BY <2>3 DEF Close, CloseEnds, CloseAgain, Crash, backend, AloneInv, AriaDown
  <2> QED
    BY <2>1, <2>2, <2>3
<1> QED
  BY <1>1, <1>2, <1>3, NotOpenAlone

LEMMA StepAlone ==
  ASSUME IInv, AloneInv, OneStep
  PROVE  AloneInv'
<1>1. CASE Requested /\ InProgress = {}
  BY <1>1, RequestedAlone
<1>2. CASE Continued
  BY <1>2, EnsureStartedAlone, RejectedAlone, AnsweredAlone DEF Continued
<1>3. ASSUME NEW c \in Calls,
             \/ Handles(c)
             \/ Unanswered(c) /\ calls[c].at = "sent" /\ start = "ready"
      PROVE  AloneInv'
  BY <1>3, HandlesAlone, UnansweredAlone
<1> QED
  BY <1>1, <1>2, <1>3, StartOverAlone, ProcessExitsAlone, QuietlyAlone, EndsAlone
  DEF OneStep

\* A step of the one run is a step of the other.
LEMMA OneStepIsAStep == OneStep => DownloadsNext
BY DEF OneStep, DownloadsNext, Requested, Continued, External, Lifecycle

\* Both instances at once: the invariant of the many, and that of the one where
\* requests come one at a time.
BothInv == IInv /\ (alone => AloneInv)

\* BothInv holds at first and is kept by each step of either instance.
THEOREM BothInvariance == BothSpec => []BothInv
<1>1. BothInit => BothInv
  <2> SUFFICES ASSUME BothInit PROVE AloneInv
    BY InitIInv DEF BothInit, BothInv
  <2>1. \A c \in Calls : calls[c].at = "idle"
    BY DEF BothInit, DownloadsInit, Idle
  <2>2. InProgress = {}
    BY <2>1 DEF InProgress
  <2>3. AriaDown /\ DownloadsAreOwned /\ IssuedKept
    BY DEF BothInit, DownloadsInit, AriaDown, DownloadsAreOwned, IssuedKept
  <2>4. shut = "no" /\ StartAwaited
    BY DEF BothInit, DownloadsInit, StartAwaited
  <2> QED
    BY <2>2, <2>3, <2>4 DEF AloneInv, AtMostOne
<1>2. BothInv /\ [BothNext]_<<downloadVars, alone>> => BothInv'
  <2> SUFFICES ASSUME BothInv, [BothNext]_<<downloadVars, alone>>
               PROVE  BothInv'
    OBVIOUS
  <2>1. CASE Many
    BY <2>1, StepIInv DEF Many, BothInv
  <2>2. CASE OneByOne
    <3>1. OneStep
      BY <2>2, OneIsOne DEF OneByOne, BothInv, IInv, AloneInv
    <3> QED
      BY <2>2, <3>1, OneStepIsAStep, StepAlone, StepIInv DEF OneByOne, BothInv
  <2>3. CASE UNCHANGED <<downloadVars, alone>>
    <3>1. IInv'
      BY <2>3, StepIInv DEF BothInv
    <3>2. AloneInv => AloneInv'
      BY <2>3 DEF downloadVars, AloneInv, AtMostOne, AriaDown, IssuedKept,
         StartAwaited, DownloadsAreOwned, InProgress
    <3> QED
      BY <2>3, <3>1, <3>2 DEF BothInv
  <2> QED
    BY <2>1, <2>2, <2>3 DEF BothNext
<1> QED
  BY <1>1, <1>2, PTL DEF BothSpec

\* With requests that come one at a time and a JSON-RPC that answers, however
\* often the process exits, a start fails or a retry resubmits: what aria2 still
\* holds is what the row of its task names (applySnapshot and retry in
\* download-service.ts, Aria2Backend.retry in download-backend.ts).
THEOREM DownloadsOwned == BothSpec => []AloneAreOwned
<1>1. BothInv => AloneAreOwned
  BY DEF BothInv, AloneInv, AloneAreOwned, DownloadsAreOwned
<1> QED
  BY <1>1, BothInvariance, PTL
=============================================================================
