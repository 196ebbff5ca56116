------------------------ MODULE JsSpiderWorkerProofs ------------------------
(***************************************************************************)
(* The safety of JsSpiderWorker for any number of calls.                   *)
(*                                                                         *)
(* DestroyedIsQuiet is not inductive: that no destroy is under way says    *)
(* nothing of how the last one ended.  IInv adds that a state that says    *)
(* "terminated" over a thread still held has a destroy at work that will   *)
(* let it go (Terminating), that a start still waiting for the thread has  *)
(* not been overtaken by the end of a destroy (Creating), and that before  *)
(* the start there is nothing (Fresh).                                     *)
(***************************************************************************)
EXTENDS JsSpiderWorker, TLAPS

\* A destroy is under way.
Working == \E d \in Destroyers : pc[d] \in {"waiting", "stopping"}

Fresh == state = "new" =>
            /\ start = "no" /\ ~worker /\ thread = "none"
            /\ \A d \in Destroyers : pc[d] = "idle"

Creating == start = "creating" =>
            /\ worker
            /\ \A d \in Destroyers : pc[d] # "stopping"
            /\ (\E d \in Destroyers : pc[d] = "done") => Working

Terminating == state = "terminated" /\ worker => Working

\* The last destroy has let the thread go.
Released == (\E d \in Destroyers : pc[d] = "done") /\ ~Working => ~worker

IInv == TypeOK /\ ThreadOwned /\ Fresh /\ Creating /\ Terminating /\ Released

PCs == {"idle", "waiting", "stopping", "answered", "failed", "done"}

-----------------------------------------------------------------------------
LEMMA InitIInv == Init => IInv
<1> SUFFICES ASSUME Init PROVE IInv
  OBVIOUS
<1>1. \A c \in Callers : pc[c] = "idle"
  BY DEF Init
<1>2. TypeOK
  <2>1. pc \in [Callers -> {"idle", "waiting", "stopping", "answered", "failed", "done"}]
    BY DEF Init
  <2>2. \A c \in Requests \cup Destroyers : c \in pending <=> pc[c] = "waiting"
    BY <1>1 DEF Init, Callers
  <2> QED
    BY <2>1, <2>2 DEF Init, TypeOK
<1>3. \A d \in Destroyers : pc[d] = "idle"
  BY <1>1 DEF Callers
<1>4. ThreadOwned /\ Fresh /\ Creating /\ Terminating /\ Released
  BY <1>3 DEF Init, ThreadOwned, Fresh, Creating, Terminating, Released
<1> QED
  BY <1>2, <1>4 DEF IInv

\* rejectPending keeps the types, and leaves nobody waiting for the thread.
LEMMA Rejected ==
  ASSUME TypeOK, NEW s \in {"starting", "ready", "failed", "terminated"}, NEW stop \in BOOLEAN,
         RejectPending(s, stop)
  PROVE  /\ pending' = {} /\ start' # "creating"
         /\ start' \in {"no", "stopping", "over"}
         /\ state' \in {"starting", "ready", "failed", "terminated"}
         /\ state' = "terminated" => s = "terminated"
         /\ terminated' \in BOOLEAN
         /\ terminated => terminated'
         /\ stop => terminated'
         /\ pc' \in [Callers -> PCs]
         /\ \A c \in Requests \cup Destroyers : pc'[c] # "waiting"
         /\ \A d \in Destroyers : /\ pc'[d] = "done" <=> pc[d] = "done"
                                  /\ pc'[d] = "stopping" <=> (pc[d] \in {"waiting", "stopping"})
<1>1. /\ pending' = {} /\ terminated' \in BOOLEAN
      /\ state' \in {"starting", "ready", "failed", "terminated"}
      /\ state' = "terminated" => s = "terminated"
      /\ terminated => terminated'
      /\ stop => terminated'
  BY DEF RejectPending, TypeOK
<1>2. start' \in {"no", "stopping", "over"}
  BY DEF RejectPending, TypeOK
<1>3. \A c \in Callers : pc'[c] = IF c \notin pending THEN pc[c]
                                  ELSE IF c \in Destroyers THEN "stopping" ELSE "failed"
  BY DEF RejectPending, Outcome
<1>4. pc' \in [Callers -> PCs]
  BY DEF RejectPending, Outcome, TypeOK, PCs
<1>5. \A c \in Requests \cup Destroyers : c \in pending <=> pc[c] = "waiting"
  BY DEF TypeOK
<1>6. \A c \in Requests \cup Destroyers : pc'[c] # "waiting"
  BY <1>3, <1>5 DEF Callers
<1>7. \A d \in Destroyers : /\ pc'[d] = "done" <=> pc[d] = "done"
                            /\ pc'[d] = "stopping" <=> (pc[d] \in {"waiting", "stopping"})
  BY <1>3, <1>5 DEF Callers
<1> QED
  BY <1>1, <1>2, <1>4, <1>6, <1>7

-----------------------------------------------------------------------------
\* What the invariant asks beyond the types, of a step that leaves the
\* destroys alone and starts nothing.
LEMMA DestroysAlone ==
  ASSUME IInv, TypeOK', ThreadOwned',
         \A d \in Destroyers : pc'[d] = pc[d],
         state' # "new" \/ (state = "new" /\ UNCHANGED <<start, worker, thread>>),
         start' = "creating" => start = "creating" /\ worker',
         worker' => worker,
         state' = "terminated" => state = "terminated"
  PROVE  IInv'
<1>1. Working' <=> Working
  BY DEF Working
<1>2. Fresh'
  BY DEF IInv, Fresh
<1>3. Creating'
  BY <1>1 DEF IInv, Creating
<1>4. Terminating' /\ Released'
  BY <1>1 DEF IInv, Terminating, Released
<1> QED
  BY <1>2, <1>3, <1>4 DEF IInv

\* The same of a step that rejects all that waits.
LEMMA AllRejected ==
  ASSUME IInv, TypeOK', ThreadOwned',
         NEW s \in {"starting", "ready", "failed", "terminated"}, NEW stop \in BOOLEAN,
         RejectPending(s, stop),
         s = "terminated" => state = "terminated",
         worker' => worker
  PROVE  IInv'
<1> TypeOK
  BY DEF IInv
<1>1. /\ start' # "creating"
      /\ state' \in {"starting", "ready", "failed", "terminated"}
      /\ state' = "terminated" => s = "terminated"
      /\ \A d \in Destroyers : /\ pc'[d] = "done" <=> pc[d] = "done"
                               /\ pc'[d] = "stopping" <=> (pc[d] \in {"waiting", "stopping"})
      /\ \A c \in Requests \cup Destroyers : pc'[c] # "waiting"
  BY Rejected
<1>2. Working' <=> Working
  BY <1>1 DEF Working
<1>3. Fresh' /\ Creating'
  BY <1>1 DEF Fresh, Creating
<1>4. Terminating' /\ Released'
  BY <1>1, <1>2 DEF IInv, Terminating, Released
<1> QED
  BY <1>3, <1>4 DEF IInv

-----------------------------------------------------------------------------
LEMMA StartStep ==
  ASSUME IInv, NEW c \in Starters, Start(c)
  PROVE  IInv'
<1> USE CallsDistinct
<1> TypeOK /\ pc \in [Callers -> PCs] /\ c \in Callers
  BY DEF IInv, TypeOK, PCs, Callers
<1>1. \A e \in Requests \cup Destroyers : pc'[e] = pc[e]
  BY DEF Start, Callers
<1>2. pc' \in [Callers -> PCs]
  BY DEF Start, PCs
<1>3. CASE UNCHANGED <<state, worker, pending, start, terminated, wires>>
  <2>1. TypeOK'
    BY <1>1, <1>2, <1>3 DEF TypeOK, PCs, wires
  <2>2. ThreadOwned'
    BY <1>3 DEF IInv, ThreadOwned, wires
  <2>3. start = "creating" => worker
    BY DEF IInv, Creating
  <2> QED
    BY <1>1, <1>3, <2>1, <2>2, <2>3, DestroysAlone DEF wires
<1>4. CASE /\ state = "new" /\ state' = "starting" /\ start' = "creating"
           /\ worker' = TRUE /\ thread' = "running"
           /\ pending' = pending \cup {"create"}
           /\ inbox' = inbox \cup {"create"}
           /\ UNCHANGED <<terminated, outbox>>
  <2>1. "create" \in Ids /\ "create" \notin Requests \cup Destroyers
    BY DEF Ids
  <2>2. \A e \in Requests \cup Destroyers : e \in pending' <=> pc'[e] = "waiting"
    BY <1>1, <1>4, <2>1 DEF TypeOK
  <2>3. TypeOK'
    BY <1>2, <1>4, <2>1, <2>2 DEF TypeOK, PCs
  <2>4. \A d \in Destroyers : pc'[d] = "idle"
    BY <1>1, <1>4 DEF IInv, Fresh
  <2>5. ThreadOwned' /\ Fresh' /\ Creating' /\ Terminating' /\ Released'
    BY <1>4, <2>4 DEF ThreadOwned, Fresh, Creating, Terminating, Released
  <2> QED
    BY <2>3, <2>5 DEF IInv
<1> QED
  BY <1>3, <1>4 DEF Start

LEMMA CallStep ==
  ASSUME IInv, NEW r \in Requests, Call(r)
  PROVE  IInv'
<1> USE CallsDistinct
<1> TypeOK /\ pc \in [Callers -> PCs] /\ r \in Callers /\ r \in Ids
  BY DEF IInv, TypeOK, PCs, Callers, Ids
<1>1. UNCHANGED <<state, worker, start, thread, terminated, outbox>>
  BY DEF Call
<1>2. \A e \in Callers : e # r => pc'[e] = pc[e]
  BY DEF Call
<1>3. pc' \in [Callers -> PCs] /\ inbox' \in SUBSET Ids /\ pending' \in SUBSET Ids
  BY DEF Call, PCs, TypeOK
<1>4. r \in pending' <=> pc'[r] = "waiting"
  BY DEF Call, TypeOK
<1>5. \A e \in Ids : e # r => (e \in pending' <=> e \in pending)
  BY DEF Call
<1>6. \A e \in Requests \cup Destroyers : e \in pending' <=> pc'[e] = "waiting"
  BY <1>2, <1>4, <1>5 DEF TypeOK, Callers, Ids
<1>7. "create" \in pending' <=> start' = "creating"
  BY <1>1, <1>5 DEF TypeOK, Ids
<1>8. TypeOK'
  BY <1>1, <1>3, <1>6, <1>7 DEF TypeOK, PCs
<1>9. ThreadOwned'
  BY <1>1 DEF IInv, ThreadOwned
<1>10. \A d \in Destroyers : pc'[d] = pc[d]
  BY <1>2 DEF Callers
<1>11. start = "creating" => worker
  BY DEF IInv, Creating
<1> QED
  BY <1>1, <1>8, <1>9, <1>10, <1>11, DestroysAlone

LEMMA RequestAnsweredStep ==
  ASSUME IInv, NEW r \in Requests, RequestAnswered(r)
  PROVE  IInv'
<1> USE CallsDistinct
<1> TypeOK /\ pc \in [Callers -> PCs] /\ r \in Callers /\ r \in Ids
  BY DEF IInv, TypeOK, PCs, Callers, Ids
<1>1. UNCHANGED <<state, worker, start, thread, terminated, inbox>>
  BY DEF RequestAnswered
<1>2. pending' = pending \ {r} /\ outbox' \subseteq outbox
  BY DEF RequestAnswered
<1>3. /\ pc' \in [Callers -> PCs] /\ pc'[r] # "waiting"
      /\ \A e \in Callers : e # r => pc'[e] = pc[e]
  BY DEF RequestAnswered, PCs
<1>4. \A e \in Requests \cup Destroyers : e \in pending' <=> pc'[e] = "waiting"
  BY <1>2, <1>3 DEF TypeOK, Callers
<1>5. "create" \in pending' <=> start' = "creating"
  BY <1>1, <1>2 DEF TypeOK
<1>6. TypeOK'
  BY <1>1, <1>2, <1>3, <1>4, <1>5 DEF TypeOK, PCs
<1>7. ThreadOwned'
  BY <1>1 DEF IInv, ThreadOwned
<1>8. \A d \in Destroyers : pc'[d] = pc[d]
  BY <1>3 DEF Callers
<1>9. start = "creating" => worker
  BY DEF IInv, Creating
<1> QED
  BY <1>1, <1>6, <1>7, <1>8, <1>9, DestroysAlone

\* Only the callers of start are settled.
LEMMA StartersOnly ==
  ASSUME TypeOK, NEW outcome \in PCs, StartersSettle(outcome)
  PROVE  /\ pc' \in [Callers -> PCs]
         /\ \A e \in Requests \cup Destroyers : pc'[e] = pc[e]
<1>1. \A e \in Callers : pc'[e] = IF e \in Starters /\ pc[e] = "waiting"
                                  THEN outcome ELSE pc[e]
  BY DEF StartersSettle
<1>2. pc' \in [Callers -> PCs]
  BY DEF StartersSettle, TypeOK, PCs
<1> QED
  BY <1>1, <1>2, CallsDistinct DEF Callers

LEMMA CreatedStep ==
  ASSUME IInv, Created
  PROVE  IInv'
<1> USE CallsDistinct
<1> TypeOK
  BY DEF IInv
<1>1. /\ pc' \in [Callers -> PCs]
      /\ \A e \in Requests \cup Destroyers : pc'[e] = pc[e]
  BY StartersOnly DEF Created, PCs
<1>2. TypeOK'
  BY <1>1 DEF Created, TypeOK, PCs
<1>3. ThreadOwned'
  BY DEF Created, IInv, ThreadOwned
<1> QED
  BY <1>1, <1>2, <1>3, DestroysAlone DEF Created

LEMMA CreateFailsStep ==
  ASSUME IInv, CreateFails
  PROVE  IInv'
<1> USE CallsDistinct
<1> TypeOK
  BY DEF IInv
<1>1. TypeOK'
  BY DEF CreateFails, TypeOK
<1>2. ThreadOwned'
  BY DEF CreateFails, ThreadOwned
<1> QED
  BY <1>1, <1>2, DestroysAlone DEF CreateFails

LEMMA StartEndsStep ==
  ASSUME IInv, StartEnds
  PROVE  IInv'
<1> TypeOK
  BY DEF IInv
<1>1. /\ pc' \in [Callers -> PCs]
      /\ \A e \in Requests \cup Destroyers : pc'[e] = pc[e]
  BY StartersOnly DEF StartEnds, PCs
<1>2. TypeOK'
  BY <1>1 DEF StartEnds, TypeOK, PCs, wires
<1>3. ThreadOwned'
  BY DEF StartEnds, IInv, ThreadOwned, wires
<1>4. state # "new"
  BY DEF StartEnds, IInv, Fresh
<1> QED
  BY <1>1, <1>2, <1>3, <1>4, DestroysAlone DEF StartEnds, wires

LEMMA WireStep ==
  ASSUME IInv, NEW i \in Ids, Handles(i) \/ AnswerDropped(i)
  PROVE  IInv'
<1> TypeOK
  BY DEF IInv
<1>1. UNCHANGED <<state, worker, pending, start, pc, thread, terminated>>
  BY DEF Handles, AnswerDropped
<1>2. inbox' \in SUBSET Ids /\ outbox' \in SUBSET (Ids \X BOOLEAN)
  <2>1. CASE Handles(i)
    <3>1. PICK ok \in BOOLEAN : outbox' = outbox \cup {<<i, ok>>}
      BY <2>1 DEF Handles
    <3>2. <<i, ok>> \in Ids \X BOOLEAN
      OBVIOUS
    <3> QED
      BY <2>1, <3>1, <3>2 DEF Handles, TypeOK
  <2>2. CASE AnswerDropped(i)
    BY <2>2 DEF AnswerDropped, TypeOK
  <2> QED
    BY <2>1, <2>2
<1>3. TypeOK'
  BY <1>1, <1>2 DEF TypeOK
<1>4. ThreadOwned'
  BY <1>1 DEF IInv, ThreadOwned
<1>5. start = "creating" => worker
  BY DEF IInv, Creating
<1> QED
  BY <1>1, <1>3, <1>4, <1>5, DestroysAlone

-----------------------------------------------------------------------------
LEMMA DestroyReturnsStep ==
  ASSUME IInv, NEW d \in Destroyers, DestroyReturns(d)
  PROVE  IInv'
<1> USE CallsDistinct
<1> TypeOK /\ pc \in [Callers -> PCs] /\ d \in Callers
  BY DEF IInv, TypeOK, PCs, Callers
<1>1. /\ UNCHANGED <<worker, pending, start, terminated, wires>>
      /\ state' = "terminated" /\ pc[d] = "idle"
      /\ state = "terminated" \/ ~worker
  BY DEF DestroyReturns
<1>2. /\ pc' \in [Callers -> PCs] /\ pc'[d] = "done"
      /\ \A e \in Callers : e # d => pc'[e] = pc[e]
  BY DEF DestroyReturns, PCs
<1>3. \A e \in Requests \cup Destroyers : e \in pending' <=> pc'[e] = "waiting"
  BY <1>1, <1>2 DEF TypeOK, Callers
<1>4. TypeOK'
  BY <1>1, <1>2, <1>3 DEF TypeOK, PCs, wires
<1>5. ThreadOwned'
  BY <1>1 DEF IInv, ThreadOwned, wires
<1>6. Working' <=> Working
  BY <1>1, <1>2 DEF Working, Callers
<1>7. worker => Working
  BY <1>1 DEF IInv, Terminating
<1>8. \A e \in Destroyers : pc'[e] = "stopping" => pc[e] = "stopping"
  BY <1>2 DEF Callers
<1>9. Fresh' /\ Terminating' /\ Released'
  BY <1>1, <1>6, <1>7 DEF Fresh, Terminating, Released
<1>10. Creating'
  BY <1>1, <1>6, <1>7, <1>8 DEF IInv, Creating
<1> QED
  BY <1>4, <1>5, <1>9, <1>10 DEF IInv

LEMMA DestroyAsksStep ==
  ASSUME IInv, NEW d \in Destroyers, DestroyAsks(d)
  PROVE  IInv'
<1> USE CallsDistinct
<1> TypeOK /\ pc \in [Callers -> PCs] /\ d \in Callers /\ d \in Ids
  BY DEF IInv, TypeOK, PCs, Callers, Ids
<1>1. /\ UNCHANGED <<worker, start, thread, terminated, outbox>>
      /\ state' = "terminated" /\ pending' = pending \cup {d}
      /\ inbox' = inbox \cup {d}
  BY DEF DestroyAsks
<1>2. /\ pc' \in [Callers -> PCs] /\ pc'[d] = "waiting"
      /\ \A e \in Callers : e # d => pc'[e] = pc[e]
  BY DEF DestroyAsks, PCs
<1>3. \A e \in Requests \cup Destroyers : e \in pending' <=> pc'[e] = "waiting"
  BY <1>1, <1>2 DEF TypeOK, Callers
<1>4. "create" \in pending' <=> start' = "creating"
  BY <1>1 DEF TypeOK
<1>5. TypeOK'
  BY <1>1, <1>2, <1>3, <1>4 DEF TypeOK, PCs
<1>6. ThreadOwned'
  BY <1>1 DEF IInv, ThreadOwned
<1>7. Working'
  BY <1>2 DEF Working
<1>8. \A e \in Destroyers : pc'[e] = "stopping" => pc[e] = "stopping"
  BY <1>2 DEF Callers
<1>9. Fresh' /\ Terminating' /\ Released' /\ Creating'
  BY <1>1, <1>7, <1>8 DEF IInv, Fresh, Terminating, Released, Creating
<1> QED
  BY <1>5, <1>6, <1>9 DEF IInv

LEMMA DestroyDeadStep ==
  ASSUME IInv, NEW d \in Destroyers, DestroyDead(d)
  PROVE  IInv'
<1> USE CallsDistinct
<1> TypeOK /\ pc \in [Callers -> PCs] /\ d \in Callers
  BY DEF IInv, TypeOK, PCs, Callers
<1>1. /\ UNCHANGED <<worker, wires>> /\ pending' = {} /\ terminated' = TRUE
      /\ state' \in {"failed", "terminated"}
      /\ start' \in {"no", "stopping", "over"}
  BY DEF DestroyDead, TypeOK
<1>2. /\ pc' \in [Callers -> PCs] /\ pc'[d] = "stopping"
      /\ \A e \in Callers : e # d => pc'[e] = Outcome(e)
  BY DEF DestroyDead, Outcome, PCs
<1>3. \A e \in Requests \cup Destroyers : pc'[e] # "waiting"
  BY <1>2 DEF Outcome, TypeOK, Callers
<1>4. TypeOK'
  BY <1>1, <1>2, <1>3 DEF TypeOK, PCs, wires
<1>5. Working'
  BY <1>2 DEF Working
<1>6. ThreadOwned' /\ Fresh' /\ Terminating' /\ Released' /\ Creating'
  BY <1>1, <1>5 DEF ThreadOwned, Fresh, Terminating, Released, Creating
<1> QED
  BY <1>4, <1>6 DEF IInv

LEMMA DestroyEndsStep ==
  ASSUME IInv, NEW d \in Destroyers, DestroyEnds(d)
  PROVE  IInv'
<1> USE CallsDistinct
<1> TypeOK /\ pc \in [Callers -> PCs] /\ d \in Callers
  BY DEF IInv, TypeOK, PCs, Callers
<1>1. /\ UNCHANGED <<state, pending, start, terminated, wires>>
      /\ worker' = FALSE /\ thread = "ended" /\ pc[d] = "stopping"
  BY DEF DestroyEnds
<1>2. /\ pc' \in [Callers -> PCs] /\ pc'[d] = "done"
      /\ \A e \in Callers : e # d => pc'[e] = pc[e]
  BY DEF DestroyEnds, PCs
<1>3. \A e \in Requests \cup Destroyers : e \in pending' <=> pc'[e] = "waiting"
  BY <1>1, <1>2 DEF TypeOK, Callers
<1>4. TypeOK'
  BY <1>1, <1>2, <1>3 DEF TypeOK, PCs, wires
<1>5. start # "creating" /\ state # "new"
  BY <1>1 DEF IInv, Creating, Fresh
<1>6. ThreadOwned' /\ Fresh' /\ Terminating' /\ Released' /\ Creating'
  BY <1>1, <1>5 DEF ThreadOwned, Fresh, Terminating, Released, Creating, wires
<1> QED
  BY <1>4, <1>6 DEF IInv

\* The types of a step that rejects all that waits.
LEMMA RejectedTypes ==
  ASSUME TypeOK, NEW s \in {"starting", "ready", "failed", "terminated"}, NEW stop \in BOOLEAN,
         RejectPending(s, stop), worker' \in BOOLEAN,
         thread' \in {"none", "running", "ended"},
         inbox' \in SUBSET Ids, outbox' \in SUBSET (Ids \X BOOLEAN)
  PROVE  TypeOK'
<1>1. /\ pending' = {} /\ start' # "creating"
      /\ start' \in {"no", "stopping", "over"}
      /\ state' \in {"starting", "ready", "failed", "terminated"}
      /\ terminated' \in BOOLEAN /\ pc' \in [Callers -> PCs]
      /\ \A c \in Requests \cup Destroyers : pc'[c] # "waiting"
  BY Rejected
<1> QED
  BY <1>1 DEF TypeOK, PCs

LEMMA DestroyAnsweredStep ==
  ASSUME IInv, NEW d \in Destroyers, DestroyAnswered(d)
  PROVE  IInv'
<1> USE CallsDistinct
<1> TypeOK /\ d \in Callers
  BY DEF IInv, Callers
<1>1. pc[d] = "waiting"
  BY DEF DestroyAnswered, TypeOK
<1>2. /\ RejectPending(state, TRUE) /\ UNCHANGED <<worker, thread, inbox>>
      /\ outbox' \in SUBSET (Ids \X BOOLEAN)
  BY DEF DestroyAnswered, TypeOK
<1>3. state # "new"
  BY <1>1 DEF IInv, Fresh
<1>4. state \in {"starting", "ready", "failed", "terminated"}
  BY <1>3 DEF TypeOK
<1>5. TypeOK'
  BY <1>2, <1>4, RejectedTypes DEF TypeOK
<1>6. terminated'
  BY <1>2, <1>4, Rejected
<1>7. ThreadOwned'
  BY <1>6 DEF ThreadOwned
<1> QED
  BY <1>2, <1>4, <1>5, <1>7, AllRejected

LEMMA TimeoutStep ==
  ASSUME IInv, NEW i \in Ids, Timeout(i)
  PROVE  IInv'
<1> TypeOK
  BY DEF IInv
<1>1. /\ RejectPending("failed", worker) /\ worker' = FALSE
      /\ UNCHANGED <<thread, inbox, outbox>>
  BY DEF Timeout, wires
<1>2. worker \in BOOLEAN
  BY DEF TypeOK
<1>3. TypeOK'
  BY <1>1, <1>2, RejectedTypes DEF TypeOK
<1>4. /\ terminated => terminated'
      /\ worker => terminated'
  BY <1>1, <1>2, Rejected
<1>5. ThreadOwned'
  BY <1>1, <1>4 DEF IInv, ThreadOwned
<1> QED
  BY <1>1, <1>2, <1>3, <1>5, AllRejected

LEMMA ExitStep ==
  ASSUME IInv, thread = "running", Exit
  PROVE  IInv'
<1> TypeOK
  BY DEF IInv
<1>1. /\ thread' = "ended" /\ inbox' = {} /\ outbox' = {} /\ UNCHANGED worker
  BY DEF Exit
<1>2. ThreadOwned'
  BY <1>1 DEF ThreadOwned
<1>3. CASE UNCHANGED <<state, pending, start, pc, terminated>>
  <2>1. TypeOK'
    BY <1>1, <1>3 DEF TypeOK
  <2>2. state # "new" /\ (start = "creating" => worker)
    BY DEF IInv, Fresh, Creating
  <2> QED
    BY <1>1, <1>2, <1>3, <2>1, <2>2, DestroysAlone
<1>4. CASE RejectPending("failed", FALSE)
  <2>1. TypeOK'
    BY <1>1, <1>4, RejectedTypes DEF TypeOK
  <2> QED
    BY <1>1, <1>2, <1>4, <2>1, AllRejected
<1> QED
  BY <1>3, <1>4 DEF Exit

-----------------------------------------------------------------------------
LEMMA StepIInv == IInv /\ [Next]_vars => IInv'
<1> SUFFICES ASSUME IInv, [Next]_vars PROVE IInv'
  OBVIOUS
<1>1. CASE UNCHANGED vars
  BY <1>1 DEF IInv, TypeOK, ThreadOwned, Fresh, Creating, Terminating, Released,
              Working, vars
<1>2. CASE \E c \in Starters : Start(c)
  BY <1>2, StartStep
<1>3. CASE \E r \in Requests : Call(r) \/ RequestAnswered(r)
  BY <1>3, CallStep, RequestAnsweredStep
<1>4. CASE \E d \in Destroyers :
              \/ DestroyReturns(d) \/ DestroyAsks(d) \/ DestroyDead(d)
              \/ DestroyAnswered(d) \/ DestroyEnds(d)
  BY <1>4, DestroyReturnsStep, DestroyAsksStep, DestroyDeadStep,
     DestroyAnsweredStep, DestroyEndsStep
<1>5. CASE \E i \in Ids : Handles(i) \/ AnswerDropped(i) \/ Timeout(i)
  BY <1>5, WireStep, TimeoutStep
<1>6. CASE Created \/ CreateFails \/ StartEnds
  BY <1>6, CreatedStep, CreateFailsStep, StartEndsStep
<1>7. CASE Terminates \/ Crashes
  BY <1>7, ExitStep DEF Terminates, Crashes
<1> QED
  BY <1>1, <1>2, <1>3, <1>4, <1>5, <1>6, <1>7 DEF Next

\* The inductive invariant holds in every state the object can reach.
THEOREM Invariance == Spec => []IInv
<1>1. Init => IInv
  BY InitIInv
<1>2. IInv /\ [Next]_vars => IInv'
  BY StepIInv
<1> QED
  BY <1>1, <1>2, PTL DEF Spec

\* Types, and the correspondence of the map of pending requests with the
\* callers that wait.
THEOREM TypeCorrect == Spec => []TypeOK
<1>1. IInv => TypeOK
  BY DEF IInv
<1> QED
  BY <1>1, Invariance, PTL

\* A running thread can always be reached by destroy, or was terminated
\* (Timeout against start and destroy).
THEOREM ThreadsOwned == Spec => []ThreadOwned
<1>1. IInv => ThreadOwned
  BY DEF IInv
<1> QED
  BY <1>1, Invariance, PTL

\* After the last destroy the object is inert, whatever the start it overtook
\* makes of the state.
THEOREM DestroyQuiets == Spec => []DestroyedIsQuiet
<1>1. IInv => DestroyedIsQuiet
  <2> SUFFICES ASSUME IInv, \E d \in Destroyers : pc[d] = "done",
                      \A d \in Destroyers : pc[d] \in {"idle", "done"}
               PROVE  /\ ~worker /\ pending \subseteq Requests
                      /\ thread = "running" => terminated
    BY DEF DestroyedIsQuiet
  <2>1. ~Working
    BY DEF Working
  <2>2. ~worker
    BY <2>1 DEF IInv, Released
  <2>3. thread = "running" => terminated
    BY <2>2 DEF IInv, ThreadOwned
  <2>4. "create" \notin pending
    BY <2>1 DEF IInv, TypeOK, Creating
  <2>5. \A d \in Destroyers : d \notin pending
    BY DEF IInv, TypeOK
  <2> QED
    BY <2>2, <2>3, <2>4, <2>5 DEF IInv, TypeOK, Ids
<1> QED
  BY <1>1, Invariance, PTL
-----------------------------------------------------------------------------
(* JsSpiderWorker implements the safety of RequestService.  Of the           *)
(* invariants this needs one more: answers are on their way, and the state   *)
(* says "ready", only while the thread runs, so that nobody is answered by   *)
(* one that is gone.                                                         *)

Served == Requests \cup Starters

Wired == /\ outbox # {} \/ state = "ready" => thread = "running"
         /\ \A c \in Served : pc[c] \in {"idle", "waiting", "answered", "failed"}

\* What a step may make of a call, and of the thread.
Settles(c) == \/ pc'[c] = pc[c]
              \/ pc[c] = "idle" /\ pc'[c] = "waiting"
              \/ pc[c] \in {"idle", "waiting"} /\ pc'[c] = "failed"
              \/ /\ pc[c] \in {"idle", "waiting"} /\ pc'[c] = "answered"
                 /\ thread = "running"

Lives == \/ thread' = thread
         \/ thread = "none" /\ thread' = "running"
         \/ thread = "running" /\ thread' = "ended"

Faithful == Wired' /\ Lives /\ \A c \in Served : Settles(c)

\* Such a step is one of the service.
LEMMA Simulated ==
  ASSUME Wired, Faithful
  PROVE  Service!Next
<1>1. Service!Ages
  BY DEF Service!Ages, Faithful, Lives
<1>2. \A c \in Served : pc'[c] \in {"idle", "waiting", "answered", "failed"}
  BY DEF Faithful, Wired
<1>3. [c \in Served |-> IF pc'[c] \in {"waiting", "stopping"} THEN "open"
                        ELSE pc'[c]]
         \in [Served -> {"idle", "open", "answered", "failed"}]
  BY <1>2
<1>4. ASSUME NEW c \in Served PROVE Service!Goes(c)
  <2>1. Settles(c)
    BY DEF Faithful
  <2>2. pc[c] \in {"idle", "waiting", "answered", "failed"}
    BY DEF Wired
  <2> QED
    BY <2>1, <2>2, <1>2 DEF Settles, Service!Goes, Served
<1> QED
  BY <1>1, <1>3, <1>4 DEF Service!Next, Served

\* rejectPending fails those that waited, and no other.
LEMMA RejectedServed ==
  ASSUME TypeOK, Wired, NEW s \in {"starting", "failed", "terminated", "ready"},
         NEW stop \in BOOLEAN, RejectPending(s, stop)
  PROVE  \A c \in Served :
            /\ Settles(c)
            /\ pc'[c] \in {"idle", "waiting", "answered", "failed"}
<1> SUFFICES ASSUME NEW c \in Served
             PROVE  /\ Settles(c)
                    /\ pc'[c] \in {"idle", "waiting", "answered", "failed"}
  OBVIOUS
<1>1. c \in Callers /\ c \notin Destroyers
  BY CallsDistinct DEF Served, Callers
<1>2. pc'[c] = IF c \in pending THEN "failed" ELSE pc[c]
  BY <1>1 DEF RejectPending, Outcome
<1>3. c \in pending => pc[c] = "waiting"
  BY CallsDistinct DEF TypeOK, Served, Ids
<1> QED
  BY <1>2, <1>3 DEF Settles, Wired

\* A step that touches neither the calls of the service nor the thread.
LEMMA ServedAlone ==
  ASSUME Wired, \A c \in Served : pc'[c] = pc[c], UNCHANGED thread,
         outbox' \subseteq outbox \/ thread = "running",
         state' = "ready" => state = "ready" \/ thread = "running"
  PROVE  Faithful
BY DEF Faithful, Wired, Lives, Settles

LEMMA StepFaithful == IInv /\ Wired /\ [Next]_vars => Faithful
<1> SUFFICES ASSUME IInv, Wired, [Next]_vars PROVE Faithful
  OBVIOUS
<1> USE CallsDistinct
<1> TypeOK /\ pc \in [Callers -> PCs]
  BY DEF IInv, TypeOK, PCs
<1>s. Served \subseteq Callers /\ Served \cap Destroyers = {}
  BY DEF Served, Callers
<1>0. CASE UNCHANGED vars
  BY <1>0, ServedAlone DEF vars
<1>1. ASSUME NEW c \in Starters, Start(c) PROVE Faithful
  <2>1. c \in Callers /\ c \in Served /\ \A e \in Callers : e # c => pc'[e] = pc[e]
    BY <1>1 DEF Start, Callers, Served
  <2>2. CASE UNCHANGED <<state, worker, pending, start, terminated, wires>>
    <3>1. Settles(c) /\ pc'[c] \in {"waiting", "answered", "failed"}
      BY <1>1, <2>1, <2>2 DEF Start, Settles, Wired
    <3> QED
      BY <1>s, <2>1, <2>2, <3>1 DEF Faithful, Wired, Lives, Settles, wires
  <2>3. CASE /\ state = "new" /\ state' = "starting" /\ thread' = "running"
             /\ UNCHANGED <<terminated, outbox>> /\ pc[c] = "idle"
             /\ pc' = [pc EXCEPT ![c] = "waiting"]
    <3>1. thread = "none"
      BY <2>3 DEF IInv, Fresh
    <3>2. pc'[c] = "waiting"
      BY <2>1, <2>3
    <3> QED
      BY <1>s, <2>1, <2>3, <3>1, <3>2 DEF Faithful, Wired, Lives, Settles
  <2> QED
    BY <1>1, <2>2, <2>3 DEF Start
<1>2. ASSUME NEW r \in Requests, Call(r) PROVE Faithful
  <2>1. /\ r \in Callers /\ r \in Served /\ pc[r] = "idle"
        /\ pc'[r] \in {"failed", "waiting"}
        /\ \A e \in Callers : e # r => pc'[e] = pc[e]
    BY <1>2 DEF Call, Callers, Served
  <2>2. UNCHANGED <<state, thread, outbox>>
    BY <1>2 DEF Call
  <2> QED
    BY <1>s, <2>1, <2>2 DEF Faithful, Wired, Lives, Settles
<1>3. ASSUME NEW r \in Requests, RequestAnswered(r) PROVE Faithful
  <2>1. /\ r \in Callers /\ r \in Served /\ r \in pending
        /\ pc'[r] \in {"failed", "answered"}
        /\ \A e \in Callers : e # r => pc'[e] = pc[e]
    BY <1>3 DEF RequestAnswered, Callers, Served
  <2>2. UNCHANGED <<state, thread>> /\ outbox' \subseteq outbox /\ outbox # {}
    BY <1>3 DEF RequestAnswered
  <2>3. pc[r] = "waiting"
    BY <2>1 DEF TypeOK
  <2> QED
    BY <1>s, <2>1, <2>2, <2>3 DEF Faithful, Wired, Lives, Settles
<1>4. ASSUME NEW d \in Destroyers,
             DestroyReturns(d) \/ DestroyAsks(d) \/ DestroyEnds(d)
      PROVE  Faithful
  <2>1. \A e \in Callers : e # d => pc'[e] = pc[e]
    BY <1>4 DEF DestroyReturns, DestroyAsks, DestroyEnds, Callers
  <2>2. UNCHANGED <<thread, outbox>> /\ (state' = state \/ state' = "terminated")
    BY <1>4 DEF DestroyReturns, DestroyAsks, DestroyEnds, wires
  <2> QED
    BY <1>s, <2>1, <2>2, ServedAlone
<1>5. ASSUME NEW d \in Destroyers, DestroyDead(d) PROVE Faithful
  <2>1. /\ UNCHANGED <<thread, outbox>> /\ state' # "ready"
    BY <1>5 DEF DestroyDead, wires
  <2>2. \A e \in Served : pc'[e] = IF e \in pending THEN "failed" ELSE pc[e]
    BY <1>5, <1>s DEF DestroyDead, Outcome
  <2>3. \A e \in Served : e \in pending => pc[e] = "waiting"
    BY DEF TypeOK, Served, Ids
  <2> QED
    BY <2>1, <2>2, <2>3 DEF Faithful, Wired, Lives, Settles
<1>6. ASSUME NEW d \in Destroyers, DestroyAnswered(d) PROVE Faithful
  <2>1. /\ RejectPending(state, TRUE) /\ UNCHANGED thread
        /\ outbox' \subseteq outbox /\ outbox # {}
    BY <1>6 DEF DestroyAnswered
  <2>2. state # "new"
    BY <2>1 DEF IInv, Fresh, Wired
  <2>3. state \in {"starting", "failed", "terminated", "ready"}
    BY <2>2 DEF TypeOK
  <2>4. \A c \in Served : /\ Settles(c)
                          /\ pc'[c] \in {"idle", "waiting", "answered", "failed"}
    BY <2>1, <2>3, RejectedServed
  <2> QED
    BY <2>1, <2>4 DEF Faithful, Wired, Lives
<1>7. ASSUME NEW i \in Ids, Handles(i) \/ AnswerDropped(i) PROVE Faithful
  BY <1>7, <1>s, ServedAlone DEF Handles, AnswerDropped
<1>8. ASSUME NEW i \in Ids, Timeout(i) PROVE Faithful
  <2>1. RejectPending("failed", worker) /\ UNCHANGED <<thread, outbox>>
    BY <1>8 DEF Timeout, wires
  <2>2. worker \in BOOLEAN /\ state' = "failed"
    BY <2>1 DEF TypeOK, RejectPending
  <2>3. \A c \in Served : /\ Settles(c)
                          /\ pc'[c] \in {"idle", "waiting", "answered", "failed"}
    BY <2>1, <2>2, RejectedServed
  <2> QED
    BY <2>1, <2>2, <2>3 DEF Faithful, Wired, Lives
<1>9. ASSUME NEW outcome \in {"answered", "failed"}, StartersSettle(outcome),
             outcome = "answered" => thread = "running"
      PROVE  \A c \in Served :
                /\ Settles(c)
                /\ pc'[c] \in {"idle", "waiting", "answered", "failed"}
  <2>1. \A c \in Served : pc'[c] = IF c \in Starters /\ pc[c] = "waiting"
                                   THEN outcome ELSE pc[c]
    BY <1>9, <1>s DEF StartersSettle
  <2> QED
    BY <1>9, <2>1 DEF Settles, Wired
<1>10. CASE Created
  <2>1. outbox # {} /\ outbox' \subseteq outbox /\ UNCHANGED thread
    BY <1>10 DEF Created
  <2>2. thread = "running"
    BY <2>1 DEF Wired
  <2> QED
    BY <1>9, <1>10, <2>1, <2>2 DEF Created, Faithful, Wired, Lives
<1>11. CASE CreateFails
  BY <1>11, <1>s, ServedAlone DEF CreateFails
<1>12. CASE StartEnds
  BY <1>9, <1>12 DEF StartEnds, Faithful, Wired, Lives, wires
<1>13. CASE Terminates \/ Crashes
  <2>1. /\ thread = "running" /\ thread' = "ended" /\ outbox' = {}
        /\ \/ UNCHANGED <<state, pc>> /\ state = "terminated"
           \/ RejectPending("failed", FALSE)
    BY <1>13 DEF Terminates, Crashes, Exit
  <2>2. CASE UNCHANGED <<state, pc>> /\ state = "terminated"
    BY <2>1, <2>2 DEF Faithful, Wired, Lives, Settles
  <2>3. CASE RejectPending("failed", FALSE)
    <3>1. state' = "failed"
      BY <2>3 DEF RejectPending
    <3>2. \A c \in Served : /\ Settles(c)
                            /\ pc'[c] \in {"idle", "waiting", "answered", "failed"}
      BY <2>3, RejectedServed
    <3> QED
      BY <2>1, <3>1, <3>2 DEF Faithful, Wired, Lives
  <2> QED
    BY <2>1, <2>2, <2>3
<1> QED
  BY <1>0, <1>1, <1>2, <1>3, <1>4, <1>5, <1>6, <1>7, <1>8, <1>10, <1>11, <1>12,
     <1>13 DEF Next

\* A request or a start is settled once, and answered only by a thread that
\* lives, which it does once, for any number of calls (Start, Call,
\* rejectPending, Exit): the safety part of WorkerServes.
THEOREM Implements == Spec => Service!Spec
<1>1. Init => Service!Init /\ Wired
  <2> SUFFICES ASSUME Init PROVE Service!Init /\ Wired
    OBVIOUS
  <2>1. \A c \in Served : pc[c] = "idle"
    BY DEF Init, Served, Callers
  <2> QED
    BY <2>1 DEF Init, Service!Init, Wired, Served
<1>2. IInv /\ Wired /\ [Next]_vars => Wired' /\ Service!Next
  BY StepFaithful, Simulated DEF Faithful
<1> QED
  BY <1>1, <1>2, Invariance, PTL DEF Spec, Service!Spec
=============================================================================
