---------------------------- MODULE SidecarProofs ----------------------------
(***************************************************************************)
(* The safety of Sidecar for any number of calls, and the steps by which   *)
(* it implements RequestService.                                           *)
(*                                                                         *)
(* SidecarLeavesNothing is not inductive: what it says of the end of a     *)
(* destroy rests on what holds while destroy and start are under way.      *)
(* IInv adds that destroyInternal, once past its wait for the start, has   *)
(* no start beside it (Ordered), that the object lets go only of a process *)
(* that is gone or killed (Reaped), that nothing begins again after a      *)
(* destroy (Inert), and who waits for what (Waits).                        *)
(***************************************************************************)
EXTENDS Sidecar, TLAPS

\* What the fields say of each other.
Held == /\ sc.held => sc.state # "new"
        /\ sc.state = "new" => scProc.life = "none"
        /\ sc.start = "script" => sc.state = "new"
        /\ sc.start = "booting" => sc.state = "starting"
        /\ sc.state = "running" => scProc.life = "running"
        /\ scProc.inbox \cup scProc.outbox # {} =>
              scProc.life = "running" /\ sc.state \in {"running", "stopped"}

\* destroyInternal waits for the start, and none begins behind it.
Ordered == /\ sc.destroy \in {"go", "asking", "exiting"} => sc.start = "no"
           /\ sc.destroy \in {"asking", "exiting"} => sc.held
           /\ sc.destroy = "start" => sc.start # "no"
           /\ "destroy" \in sc.pending => sc.destroy = "asking"

\* A process is let go of only when it is gone or killed.
Reaped == ~sc.held \/ sc.destroy = "exiting" =>
             (scProc.life = "running" => scProc.killed)

\* A destroy has returned.
ScGone == \E d \in ScDestroys : scPc[d] \in {"done", "failed"}

Inert == ScGone => /\ ~sc.held /\ sc.pending = {} /\ ~sc.script
                   /\ sc.start = "no" /\ sc.state = "stopped"

Waits == /\ \A r \in ScRequests : scPc[r] = "waiting" <=> r \in sc.pending
         /\ \A c \in ScStarts : scPc[c] = "waiting" => sc.start # "no"
         /\ \A d \in ScDestroys : scPc[d] = "waiting" => sc.destroy # "no"
         /\ \A c \in ScRequests \cup ScStarts : scPc[c] # "done"

IInv == ScTypeOK /\ Held /\ Ordered /\ Reaped /\ Inert /\ Waits

\* A start and a destroy under way have a caller, who hears what was left.
Heard == /\ sc.start # "no" => \E c \in ScStarts : scPc[c] = "waiting"
         /\ sc.destroy # "no" => \E d \in ScDestroys : scPc[d] = "waiting"
         /\ "unwritten" \in sc.lost => \E c \in ScStarts : scPc[c] = "failed"
         /\ "unremoved" \in sc.lost => \E d \in ScDestroys : scPc[d] = "failed"

-----------------------------------------------------------------------------
(* Every step keeps the inductive invariant: one lemma per action. *)

LEMMA ScTimeoutStep ==
  ASSUME IInv, NEW i \in ScIds, ScTimeout(i)
  PROVE  IInv'
<1> USE ScCallsDistinct
<1> ScTypeOK /\ Held /\ Ordered /\ Reaped /\ Inert /\ Waits
  BY DEF IInv
<1>1. ScTypeOK'
  BY DEF ScTimeout, GiveUp, Terminated, Settled, ScTypeOK, ScCalls, ScIds
<1>2. Held' /\ Ordered' /\ Reaped'
  BY DEF ScTimeout, GiveUp, Terminated, Settled, ScTypeOK, Held, Ordered,
     Reaped
<1>3. Inert'
  BY DEF ScTimeout, GiveUp, Terminated, Settled, ScTypeOK, ScIds, ScGone,
     Inert, ScCalls, Held, Ordered
<1>4. Waits'
  BY DEF ScTimeout, GiveUp, Terminated, Settled, ScTypeOK, ScCalls, ScIds,
     Waits, Ordered
<1> QED
  BY <1>1, <1>2, <1>3, <1>4 DEF IInv

LEMMA StartupTimeoutStep ==
  ASSUME IInv, StartupTimeout
  PROVE  IInv'
<1> USE ScCallsDistinct
<1> ScTypeOK /\ Held /\ Ordered /\ Reaped /\ Inert /\ Waits
  BY DEF IInv
<1>1. ScTypeOK'
  BY DEF StartupTimeout, GiveUp, Terminated, Settled, ScTypeOK, ScCalls, ScIds
<1>2. Held' /\ Ordered' /\ Reaped'
  BY DEF StartupTimeout, GiveUp, Terminated, Settled, ScTypeOK, Held,
     Ordered, Reaped
<1>3. Inert'
  BY DEF StartupTimeout, GiveUp, Terminated, Settled, ScTypeOK, ScIds, ScGone,
     Inert, ScCalls, Held, Ordered
<1>4. Waits'
  BY DEF StartupTimeout, GiveUp, Terminated, Settled, ScTypeOK, ScCalls,
     ScIds, Waits, Ordered
<1> QED
  BY <1>1, <1>2, <1>3, <1>4 DEF IInv

LEMMA BadLineStep ==
  ASSUME IInv, BadLine
  PROVE  IInv'
<1> USE ScCallsDistinct
<1> ScTypeOK /\ Held /\ Ordered /\ Reaped /\ Inert /\ Waits
  BY DEF IInv
<1>1. ScTypeOK'
  BY DEF BadLine, GiveUp, Terminated, Settled, ScTypeOK, ScCalls, ScIds
<1>2. Held' /\ Ordered' /\ Reaped'
  BY DEF BadLine, GiveUp, Terminated, Settled, ScTypeOK, Held, Ordered, Reaped
<1>3. Inert'
  BY DEF BadLine, GiveUp, Terminated, Settled, ScTypeOK, ScIds, ScGone,
     Inert, ScCalls, Held, Ordered
<1>4. Waits'
  BY DEF BadLine, GiveUp, Terminated, Settled, ScTypeOK, ScCalls, ScIds,
     Waits, Ordered
<1> QED
  BY <1>1, <1>2, <1>3, <1>4 DEF IInv

LEMMA ScStartStep ==
  ASSUME IInv, NEW c \in ScStarts, ScStart(c), sc.destroy # "go"
  PROVE  IInv'
<1> USE ScCallsDistinct
<1> ScTypeOK /\ Held /\ Ordered /\ Reaped /\ Inert /\ Waits /\ c \in ScCalls
  BY DEF IInv, ScCalls
<1>1. /\ \A d \in ScCalls : d # c => scPc'[d] = scPc[d]
      /\ scPc' \in [ScCalls ->
                        {"idle", "waiting", "answered", "failed", "done"}]
      /\ scPc'[c] \in {"waiting", "answered", "failed"}
      /\ scPc'[c] = "waiting" => sc'.start # "no"
  <2>1. CASE UNCHANGED sc
    BY <2>1, ZenonT(30) DEF ScStart, JvmStartInternal, PythonStartInternal, Spawned,
       ScTypeOK
  <2>2. CASE JvmStartInternal(c)
    <3>1. CASE scPc' = [scPc EXCEPT ![c] = "failed"]
      BY <3>1 DEF ScTypeOK
    <3>2. CASE scPc' = [scPc EXCEPT ![c] = "waiting"] /\ sc' = Spawned(sc)
      BY <3>2 DEF Spawned, ScTypeOK
    <3> QED
      BY <2>2, <3>1, <3>2 DEF JvmStartInternal
  <2>3. CASE PythonStartInternal(c)
    BY <2>3 DEF PythonStartInternal, ScTypeOK
  <2> QED
    BY <2>1, <2>2, <2>3 DEF ScStart
<1>2. \/ UNCHANGED <<sc, scProc>>
      \/ /\ sc.state = "new" /\ sc.start = "no"
         /\ \/ sc' = Spawned(sc) /\ scProc' = [scProc EXCEPT !.life = "running"]
            \/ sc' = [sc EXCEPT !.start = "script"] /\ UNCHANGED scProc
            \/ sc' = Unspawned(sc, "starting") /\ UNCHANGED scProc
  BY DEF ScStart, JvmStartInternal, PythonStartInternal
<1>3. sc'.pending = sc.pending /\ sc'.destroy = sc.destroy
  <2>1. CASE UNCHANGED <<sc, scProc>>
    BY <2>1
  <2>2. CASE sc' = Spawned(sc)
    BY <2>2 DEF Spawned, ScTypeOK
  <2>3. CASE sc' = [sc EXCEPT !.start = "script"]
    BY <2>3 DEF ScTypeOK
  <2>4. CASE sc' = Unspawned(sc, "starting")
    BY <2>4 DEF Unspawned, ScTypeOK
  <2> QED
    BY <1>2, <2>1, <2>2, <2>3, <2>4
<1>4. ScTypeOK' /\ Held' /\ Ordered' /\ Reaped'
  <2>1. CASE UNCHANGED <<sc, scProc>>
    BY <1>1, <2>1 DEF ScTypeOK, Held, Ordered, Reaped
  <2>2. CASE /\ sc.state = "new" /\ sc.start = "no" /\ sc' = Spawned(sc)
             /\ scProc' = [scProc EXCEPT !.life = "running"]
    <3>1. ScTypeOK'
      BY <1>1, <2>2 DEF Spawned, ScTypeOK
    <3> QED
      BY <2>2, <3>1 DEF Spawned, ScTypeOK, Held, Ordered, Reaped
  <2>3. CASE /\ sc.state = "new" /\ sc.start = "no"
             /\ sc' = [sc EXCEPT !.start = "script"] /\ UNCHANGED scProc
    <3>1. ScTypeOK'
      BY <1>1, <2>3 DEF ScTypeOK
    <3> QED
      BY <2>3, <3>1 DEF ScTypeOK, Held, Ordered, Reaped
  <2>4. CASE /\ sc.state = "new" /\ sc.start = "no"
             /\ sc' = Unspawned(sc, "starting") /\ UNCHANGED scProc
    <3>1. ScTypeOK'
      BY <1>1, <2>4 DEF Unspawned, ScTypeOK
    <3> QED
      BY <2>4, <3>1 DEF Unspawned, ScTypeOK, Held, Ordered, Reaped
  <2> QED
    BY <1>2, <2>1, <2>2, <2>3, <2>4
<1>6. \A d \in ScRequests \cup ScDestroys : d # c /\ d \in ScCalls
  BY DEF ScCalls
<1>7. Inert'
  BY <1>1, <1>2, <1>6 DEF ScGone, Inert
<1>8. Waits'
  <2>1. sc'.start = "no" => sc.start = "no"
    BY <1>2 DEF Spawned, Unspawned, ScTypeOK
  <2> QED
    BY <1>1, <1>3, <1>6, <2>1 DEF Waits, ScCalls
<1> QED
  BY <1>4, <1>7, <1>8 DEF IInv

LEMMA ScriptFailsStep ==
  ASSUME IInv, ScriptFails
  PROVE  IInv'
<1> USE ScCallsDistinct
<1> ScTypeOK /\ Held /\ Ordered /\ Reaped /\ Inert /\ Waits
  BY DEF IInv
<1>0. \E script \in BOOLEAN, lost \in SUBSET {"unwritten", "unremoved"} :
         sc' = [StartOver(sc) EXCEPT !.script = script, !.lost = lost]
  <2>1. CASE sc' = StartOver(sc)
    <3>1. sc' = [StartOver(sc) EXCEPT !.script = sc.script, !.lost = sc.lost]
      BY <2>1 DEF StartOver, ScTypeOK
    <3> QED
      BY <3>1 DEF ScTypeOK
  <2>2. CASE sc' = [StartOver(sc) EXCEPT !.script = TRUE]
    <3>1. sc' = [StartOver(sc) EXCEPT !.script = TRUE, !.lost = sc.lost]
      BY <2>2 DEF StartOver, ScTypeOK
    <3> QED
      BY <3>1 DEF ScTypeOK
  <2>3. CASE sc' = [StartOver(sc) EXCEPT !.lost = @ \cup {"unwritten"}]
    <3>1. sc' = [StartOver(sc) EXCEPT !.script = sc.script,
                                      !.lost = sc.lost \cup {"unwritten"}]
      BY <2>3 DEF StartOver, ScTypeOK
    <3> QED
      BY <3>1 DEF ScTypeOK
  <2> QED
    BY <2>1, <2>2, <2>3 DEF ScriptFails, LeftOnDisk
<1>1. ScTypeOK'
  <2>1. scPc' \in [ScCalls ->
                      {"idle", "waiting", "answered", "failed", "done"}]
    BY DEF ScriptFails, Settled, ScTypeOK
  <2>2. UNCHANGED scProc
    BY DEF ScriptFails
  <2> PICK script \in BOOLEAN, lost \in SUBSET {"unwritten", "unremoved"} :
         sc' = [StartOver(sc) EXCEPT !.script = script, !.lost = lost]
    BY <1>0
  <2> QED
    BY <2>1, <2>2 DEF StartOver, ScTypeOK
<1>2. Held' /\ Ordered' /\ Reaped'
  BY <1>0 DEF ScriptFails, StartOver, Settled, ScTypeOK, Held, Ordered, Reaped
<1>3. Inert'
  BY <1>0 DEF ScriptFails, Settled, ScTypeOK, ScGone, Inert, ScCalls
<1>4. Waits'
  BY <1>0 DEF ScriptFails, StartOver, Settled, ScTypeOK, ScCalls, ScIds,
     Waits, Ordered
<1> QED
  BY <1>1, <1>2, <1>3, <1>4 DEF IInv

LEMMA ScriptReadyStep ==
  ASSUME IInv, ScriptReady
  PROVE  IInv'
<1> USE ScCallsDistinct
<1> ScTypeOK /\ Held /\ Ordered /\ Reaped /\ Inert /\ Waits
  BY DEF IInv
<1>1. ScTypeOK'
  BY DEF ScriptReady, Scripted, Spawned, ScTypeOK, ScCalls, ScIds
<1>2. Held' /\ Ordered' /\ Reaped'
  BY DEF ScriptReady, Scripted, Spawned, ScTypeOK, Held, Ordered, Reaped
<1>3. Inert'
  BY DEF ScriptReady, ScGone, Inert
<1>4. Waits'
  BY DEF ScriptReady, Scripted, Spawned, ScTypeOK, ScCalls, ScIds, Waits,
     Ordered
<1> QED
  BY <1>1, <1>2, <1>3, <1>4 DEF IInv

LEMMA SpawnThrowsStep ==
  ASSUME IInv, SpawnThrows
  PROVE  IInv'
<1> USE ScCallsDistinct
<1> ScTypeOK /\ Held /\ Ordered /\ Reaped /\ Inert /\ Waits
  BY DEF IInv
<1>0. /\ sc' = [sc EXCEPT !.script = sc'.script, !.state = "stopped",
                         !.termination = FALSE, !.destroyAsked = FALSE,
                         !.start = "no", !.destroy = sc'.destroy]
      /\ sc'.script \in BOOLEAN
      /\ sc'.destroy = IF sc.destroy = "start" THEN "go" ELSE sc.destroy
      /\ sc.start = "script" /\ UNCHANGED scProc
  <2> DEFINE script == sc.kind = "download"
             destroy == IF sc.destroy = "start" THEN "go" ELSE sc.destroy
  <2>1. StartOver(Scripted(sc)) =
           [sc EXCEPT !.script = script, !.start = "no", !.destroy = destroy]
    BY DEF Scripted, StartOver, ScTypeOK
  <2>2. /\ sc' = Unspawned([sc EXCEPT !.script = script, !.start = "no",
                                     !.destroy = destroy], "stopped")
        /\ sc.start = "script" /\ UNCHANGED scProc
    BY <2>1 DEF SpawnThrows
  <2>3. script \in BOOLEAN
    OBVIOUS
  <2> HIDE DEF script, destroy
  <2>4. sc' = [sc EXCEPT !.script = script, !.state = "stopped",
                         !.termination = FALSE, !.destroyAsked = FALSE,
                         !.start = "no", !.destroy = destroy]
    BY <2>2 DEF Unspawned, ScTypeOK
  <2>5. sc'.script = script /\ sc'.destroy = destroy
    BY <2>4 DEF ScTypeOK
  <2> QED
    BY <2>2, <2>3, <2>4, <2>5 DEF destroy
<1>1. ScTypeOK'
  <2>1. scPc' \in [ScCalls ->
                      {"idle", "waiting", "answered", "failed", "done"}]
    BY DEF SpawnThrows, Settled, ScTypeOK
  <2> QED
    BY <1>0, <2>1 DEF ScTypeOK
<1>2. Held' /\ Ordered' /\ Reaped'
  BY <1>0 DEF ScTypeOK, Held, Ordered, Reaped
<1>3. Inert'
  BY DEF SpawnThrows, Settled, ScTypeOK, ScGone, Inert, ScCalls
<1>4. Waits'
  BY <1>0 DEF SpawnThrows, Settled, ScTypeOK, ScCalls, ScIds, Waits, Ordered
<1> QED
  BY <1>1, <1>2, <1>3, <1>4 DEF IInv

LEMMA ReadyStep ==
  ASSUME IInv, Ready
  PROVE  IInv'
<1> USE ScCallsDistinct
<1> ScTypeOK /\ Held /\ Ordered /\ Reaped /\ Inert /\ Waits
  BY DEF IInv
<1>1. ScTypeOK'
  BY DEF Ready, StartOver, Settled, ScTypeOK, ScCalls, ScIds
<1>2. Held' /\ Ordered' /\ Reaped'
  BY DEF Ready, StartOver, Settled, ScTypeOK, Held, Ordered, Reaped
<1>3. Inert'
  BY DEF Ready, StartOver, Settled, ScTypeOK, ScGone, Inert, ScCalls, Held,
     Ordered
<1>4. Waits'
  BY DEF Ready, StartOver, Settled, ScTypeOK, ScCalls, ScIds, Waits, Ordered
<1> QED
  BY <1>1, <1>2, <1>3, <1>4 DEF IInv

LEMMA ScRequestStep ==
  ASSUME IInv, NEW r \in ScRequests, ScRequest(r)
  PROVE  IInv'
<1> USE ScCallsDistinct
<1> ScTypeOK /\ Held /\ Ordered /\ Reaped /\ Inert /\ Waits
  BY DEF IInv
<1>1. ScTypeOK'
  BY DEF ScRequest, Accepts, IsRunning, ScTypeOK, ScCalls, ScIds
<1>2. Held' /\ Ordered' /\ Reaped'
  BY DEF ScRequest, Accepts, IsRunning, ScTypeOK, Held, Ordered, Reaped
<1>3. Inert'
  BY DEF ScRequest, Accepts, IsRunning, ScTypeOK, ScGone, Inert, ScCalls,
     Held, Ordered
<1>4. Waits'
  BY DEF ScRequest, Accepts, IsRunning, ScTypeOK, ScCalls, ScIds, Waits,
     Ordered
<1> QED
  BY <1>1, <1>2, <1>3, <1>4 DEF IInv

LEMMA HandleStep ==
  ASSUME IInv, NEW i \in ScIds, Handle(i)
  PROVE  IInv'
<1> USE ScCallsDistinct
<1> ScTypeOK /\ Held /\ Ordered /\ Reaped /\ Inert /\ Waits
  BY DEF IInv
<1>1. ScTypeOK'
  BY ZenonT(30) DEF Handle, ScTypeOK
<1>2. Held' /\ Ordered' /\ Reaped'
  BY DEF Handle, ScTypeOK, Held, Ordered, Reaped
<1>3. Inert'
  BY DEF Handle, ScTypeOK, ScGone, Inert, ScCalls, Held, Ordered
<1>4. Waits'
  BY DEF Handle, ScTypeOK, ScCalls, ScIds, Waits, Ordered
<1> QED
  BY <1>1, <1>2, <1>3, <1>4 DEF IInv

LEMMA AnswerStep ==
  ASSUME IInv, NEW r \in ScRequests, Answer(r)
  PROVE  IInv'
<1> USE ScCallsDistinct
<1> ScTypeOK /\ Held /\ Ordered /\ Reaped /\ Inert /\ Waits
  BY DEF IInv
<1>1. ScTypeOK'
  BY DEF Answer, ScTypeOK, ScCalls, ScIds
<1>2. Held' /\ Ordered' /\ Reaped'
  BY DEF Answer, ScTypeOK, Held, Ordered, Reaped
<1>3. Inert'
  BY DEF Answer, ScTypeOK, ScGone, Inert, ScCalls, Held, Ordered
<1>4. Waits'
  BY DEF Answer, ScTypeOK, ScCalls, ScIds, Waits, Ordered
<1> QED
  BY <1>1, <1>2, <1>3, <1>4 DEF IInv

LEMMA ScDestroyStep ==
  ASSUME IInv, NEW d \in ScDestroys, ScDestroy(d)
  PROVE  IInv'
<1> USE ScCallsDistinct
<1> ScTypeOK /\ Held /\ Ordered /\ Reaped /\ Inert /\ Waits
  BY DEF IInv
<1>1. ScTypeOK'
  BY DEF ScDestroy, ScTypeOK, ScCalls, ScIds
<1>2. Held' /\ Ordered' /\ Reaped'
  BY DEF ScDestroy, ScTypeOK, Held, Ordered, Reaped
<1>3. Inert'
  BY DEF ScDestroy, ScTypeOK, ScGone, Inert, ScCalls, Held, Ordered
<1>4. Waits'
  BY DEF ScDestroy, ScTypeOK, ScCalls, ScIds, Waits, Ordered
<1> QED
  BY <1>1, <1>2, <1>3, <1>4 DEF IInv

\* The end of a destroy, behind which nothing may be left.
LEMMA DestroyEnds ==
  ASSUME IInv, DestroyEndsWith(sc), UNCHANGED scProc, sc.start = "no",
         scProc.life = "running" => scProc.killed
  PROVE  IInv'
<1> USE ScCallsDistinct
<1> ScTypeOK /\ Held /\ Ordered /\ Reaped /\ Inert /\ Waits
  BY DEF IInv
<1> PICK removed \in {TRUE, ~sc.script} :
       /\ sc' = [Cleaned(sc, removed) EXCEPT
                    !.destroy = "no", !.state = "stopped", !.pending = {},
                    !.termination = TRUE, !.held = FALSE]
       /\ scPc' = [c \in ScCalls |->
                     IF scPc[c] # "waiting" THEN scPc[c]
                     ELSE IF c \in ScDestroys
                          THEN IF removed THEN "done" ELSE "failed"
                     ELSE IF c \in sc.pending THEN "failed" ELSE scPc[c]]
  BY DEF DestroyEndsWith
<1>0. removed \in BOOLEAN
  OBVIOUS
<1>1. ScTypeOK'
  BY <1>0 DEF Cleaned, ScTypeOK, ScCalls, ScIds
<1>2. Held' /\ Ordered' /\ Reaped'
  BY DEF Cleaned, ScTypeOK, Held, Ordered, Reaped
<1>3. Inert'
  BY DEF Cleaned, ScTypeOK, ScGone, Inert
<1>4. Waits'
  BY DEF Cleaned, ScTypeOK, ScCalls, ScIds, Waits, Ordered
<1> QED
  BY <1>1, <1>2, <1>3, <1>4 DEF IInv

LEMMA DestroyNothingStep ==
  ASSUME IInv, DestroyNothing
  PROVE  IInv'
<1> ScTypeOK /\ Held /\ Ordered /\ Reaped /\ Inert /\ Waits
  BY DEF IInv
<1>1. /\ DestroyEndsWith(sc) /\ UNCHANGED scProc /\ sc.start = "no"
      /\ scProc.life = "running" => scProc.killed
  BY DEF DestroyNothing, Ordered, Reaped
<1> QED
  BY <1>1, DestroyEnds

LEMMA ScDestroyAsksStep ==
  ASSUME IInv, ScDestroyAsks
  PROVE  IInv'
<1> USE ScCallsDistinct
<1> ScTypeOK /\ Held /\ Ordered /\ Reaped /\ Inert /\ Waits
  BY DEF IInv
<1>1. ScTypeOK'
  BY DEF ScDestroyAsks, Accepts, IsRunning, ScTypeOK, ScCalls, ScIds
<1>2. Held' /\ Ordered' /\ Reaped'
  BY DEF ScDestroyAsks, Accepts, IsRunning, ScTypeOK, Held, Ordered, Reaped
<1>3. Inert'
  BY DEF ScDestroyAsks, Accepts, IsRunning, ScTypeOK, ScGone, Inert,
     ScCalls, Held, Ordered
<1>4. Waits'
  BY DEF ScDestroyAsks, Accepts, IsRunning, ScTypeOK, ScCalls, ScIds, Waits,
     Ordered
<1> QED
  BY <1>1, <1>2, <1>3, <1>4 DEF IInv

LEMMA DestroyKillsStep ==
  ASSUME IInv, DestroyKills
  PROVE  IInv'
<1> USE ScCallsDistinct
<1> ScTypeOK /\ Held /\ Ordered /\ Reaped /\ Inert /\ Waits
  BY DEF IInv
<1>1. ScTypeOK'
  BY DEF DestroyKills, ScTypeOK, ScCalls, ScIds
<1>2. Held' /\ Ordered' /\ Reaped'
  BY DEF DestroyKills, ScTypeOK, Held, Ordered, Reaped
<1>3. Inert'
  BY DEF DestroyKills, ScTypeOK, ScGone, Inert, ScCalls, Held, Ordered
<1>4. Waits'
  BY DEF DestroyKills, ScTypeOK, ScCalls, ScIds, Waits, Ordered
<1> QED
  BY <1>1, <1>2, <1>3, <1>4 DEF IInv

LEMMA ScDestroyAnsweredStep ==
  ASSUME IInv, ScDestroyAnswered
  PROVE  IInv'
<1> USE ScCallsDistinct
<1> ScTypeOK /\ Held /\ Ordered /\ Reaped /\ Inert /\ Waits
  BY DEF IInv
<1>1. ScTypeOK'
  BY DEF ScDestroyAnswered, ScTypeOK, ScCalls, ScIds
<1>2. Held' /\ Ordered' /\ Reaped'
  BY DEF ScDestroyAnswered, ScTypeOK, Held, Ordered, Reaped
<1>3. Inert'
  BY DEF ScDestroyAnswered, ScTypeOK, ScGone, Inert, ScCalls, Held, Ordered
<1>4. Waits'
  BY DEF ScDestroyAnswered, ScTypeOK, ScCalls, ScIds, Waits, Ordered
<1> QED
  BY <1>1, <1>2, <1>3, <1>4 DEF IInv

LEMMA DestroyOverStep ==
  ASSUME IInv, DestroyOver
  PROVE  IInv'
<1> ScTypeOK /\ Held /\ Ordered /\ Reaped /\ Inert /\ Waits
  BY DEF IInv
<1>1. /\ DestroyEndsWith(sc) /\ UNCHANGED scProc /\ sc.start = "no"
      /\ scProc.life = "running" => scProc.killed
  BY DEF DestroyOver, Ordered, Reaped
<1> QED
  BY <1>1, DestroyEnds

LEMMA StartOverFailedStep ==
  ASSUME IInv, StartOverFailed
  PROVE  IInv'
<1> USE ScCallsDistinct
<1> ScTypeOK /\ Held /\ Ordered /\ Reaped /\ Inert /\ Waits
  BY DEF IInv
<1>1. ScTypeOK'
  BY DEF StartOverFailed, StartOver, Settled, ScTypeOK, ScCalls, ScIds
<1>2. Held' /\ Ordered' /\ Reaped'
  BY DEF StartOverFailed, StartOver, Settled, ScTypeOK, Held, Ordered, Reaped
<1>3. Inert'
  BY DEF StartOverFailed, StartOver, Settled, ScTypeOK, ScGone, Inert,
     ScCalls, Held, Ordered
<1>4. Waits'
  BY DEF StartOverFailed, StartOver, Settled, ScTypeOK, ScCalls, ScIds,
     Waits, Ordered
<1> QED
  BY <1>1, <1>2, <1>3, <1>4 DEF IInv

LEMMA ScExitStep ==
  ASSUME IInv, ScExit
  PROVE  IInv'
<1> USE ScCallsDistinct
<1> ScTypeOK /\ Held /\ Ordered /\ Reaped /\ Inert /\ Waits
  BY DEF IInv
<1>1. ScTypeOK'
  BY DEF ScExit, Terminated, Settled, ScTypeOK, ScCalls, ScIds
<1>2. Held' /\ Ordered' /\ Reaped'
  BY DEF ScExit, Terminated, Settled, ScTypeOK, Held, Ordered, Reaped
<1>3. Inert'
  BY DEF ScExit, Terminated, Settled, ScTypeOK, ScIds, ScGone, Inert, ScCalls,
     Held, Ordered
<1>4. Waits'
  BY DEF ScExit, Terminated, Settled, ScTypeOK, ScCalls, ScIds, Waits, Ordered
<1> QED
  BY <1>1, <1>2, <1>3, <1>4 DEF IInv

LEMMA SpawnFailsStep ==
  ASSUME IInv, SpawnFails
  PROVE  IInv'
<1> USE ScCallsDistinct
<1> ScTypeOK /\ Held /\ Ordered /\ Reaped /\ Inert /\ Waits
  BY DEF IInv
<1>1. ScTypeOK'
  BY DEF SpawnFails, Terminated, Settled, ScTypeOK, ScCalls, ScIds
<1>2. Held' /\ Ordered' /\ Reaped'
  BY DEF SpawnFails, Terminated, Settled, ScTypeOK, Held, Ordered, Reaped
<1>3. Inert'
  BY DEF SpawnFails, Terminated, Settled, ScTypeOK, ScIds, ScGone, Inert, ScCalls,
     Held, Ordered
<1>4. Waits'
  BY DEF SpawnFails, Terminated, Settled, ScTypeOK, ScCalls, ScIds, Waits,
     Ordered
<1> QED
  BY <1>1, <1>2, <1>3, <1>4 DEF IInv
-----------------------------------------------------------------------------
(* The inductive invariant, and the property a run checks. *)

LEMMA InitIInv == ScInit => IInv
<1> SUFFICES ASSUME ScInit PROVE IInv
  OBVIOUS
<1>1. \A c \in ScCalls : scPc[c] = "idle"
  BY DEF ScInit
<1>2. \A c \in ScRequests \cup ScStarts \cup ScDestroys : scPc[c] = "idle"
  BY <1>1 DEF ScCalls
<1>3. /\ sc.kind \in ScKinds /\ sc.state = "new" /\ sc.held = FALSE
      /\ sc.pending = {} /\ sc.start = "no" /\ sc.destroy = "no"
      /\ sc.script = FALSE
  BY DEF ScInit
<1>4. ScTypeOK
  BY <1>1 DEF ScInit, ScTypeOK
<1>5. Held /\ Ordered /\ Reaped
  BY <1>3 DEF ScInit, Held, Ordered, Reaped
<1>6. Inert /\ Waits
  BY <1>2, <1>3 DEF ScGone, Inert, Waits
<1> QED
  BY <1>4, <1>5, <1>6 DEF IInv

LEMMA StepIInv == IInv /\ [ScNext]_scVars => IInv'
<1> SUFFICES ASSUME IInv, [ScNext]_scVars PROVE IInv'
  OBVIOUS
<1>1. CASE UNCHANGED scVars
  BY <1>1 DEF scVars, IInv, ScTypeOK, Held, Ordered, Reaped, ScGone, Inert,
     Waits
<1>2. CASE DestroyNothing \/ ScDestroyAsks \/ DestroyKills \/ DestroyOver
           \/ StartOverFailed
  BY <1>2, DestroyNothingStep, ScDestroyAsksStep, DestroyKillsStep,
     DestroyOverStep, StartOverFailedStep
<1>3. CASE ~Continues /\ ScEvent
  <2>1. CASE \E c \in ScStarts : ScStart(c)
    BY <1>3, <2>1, ScStartStep DEF Continues
  <2>2. CASE \E r \in ScRequests : ScRequest(r) \/ Answer(r)
    BY <2>2, ScRequestStep, AnswerStep
  <2>3. CASE \E d \in ScDestroys : ScDestroy(d)
    BY <2>3, ScDestroyStep
  <2>4. CASE \E i \in ScIds : Handle(i) \/ ScTimeout(i)
    BY <2>4, HandleStep, ScTimeoutStep
  <2>5. CASE StartupTimeout \/ BadLine \/ Ready
    BY <2>5, StartupTimeoutStep, BadLineStep, ReadyStep
  <2>7. CASE ScriptFails \/ ScriptReady \/ SpawnThrows
    BY <2>7, ScriptFailsStep, ScriptReadyStep, SpawnThrowsStep
  <2>6. CASE ScDestroyAnswered \/ ScExit \/ SpawnFails
    BY <2>6, ScDestroyAnsweredStep, ScExitStep, SpawnFailsStep
  <2> QED
    BY <1>3, <2>1, <2>2, <2>3, <2>4, <2>5, <2>6, <2>7 DEF ScEvent
<1> QED
  BY <1>1, <1>2, <1>3 DEF ScNext

\* The inductive invariant holds in every state a sidecar can reach.
THEOREM Invariance == ScSpec => []IInv
BY InitIInv, StepIInv, PTL DEF ScSpec

LEMMA InitHeard == ScInit => Heard
BY DEF ScInit, Heard

\* Who hears of what: nobody who waits is dropped, and a directory is lost
\* only by a step that fails its callers.
LEMMA StepHeard == IInv /\ Heard /\ [ScNext]_scVars => Heard'
<1> SUFFICES ASSUME IInv, Heard, [ScNext]_scVars PROVE Heard'
  OBVIOUS
<1> USE ScCallsDistinct
<1> ScTypeOK /\ Ordered /\ Waits
  BY DEF IInv
<1>1. CASE UNCHANGED scVars
  BY <1>1 DEF scVars, Heard
\* A step that settles only requests, or nothing, keeps what it must.
<1>2. ASSUME /\ sc'.lost = sc.lost
             /\ sc'.start # "no" => sc.start # "no"
             /\ sc'.destroy # "no" => sc.destroy # "no"
             /\ \A c \in ScStarts \cup ScDestroys : scPc'[c] = scPc[c]
      PROVE  Heard'
  BY <1>2 DEF Heard
<1>r. \A calls, outcome : scPc' = Settled(calls, outcome) =>
         \A c \in ScStarts \cup ScDestroys : c \notin calls => scPc'[c] = scPc[c]
  BY DEF Settled, ScCalls
<1>p. sc.pending \cap (ScStarts \cup ScDestroys) = {}
  BY DEF ScTypeOK, ScIds
<1>3. CASE \/ StartupTimeout \/ BadLine \/ ScExit \/ SpawnFails
           \/ \E i \in ScIds : ScTimeout(i)
  <2>1. /\ sc'.lost = sc.lost /\ scPc' = Settled(sc.pending, "failed")
        /\ sc'.start # "no" => sc.start # "no"
        /\ sc'.destroy # "no" => sc.destroy # "no" \/ "destroy" \in sc.pending
    <3>1. \/ sc' = Terminated(sc)
          \/ sc' = [Terminated(sc) EXCEPT !.state = "stopped",
                                          !.termination = sc.termination]
      BY <1>3 DEF StartupTimeout, BadLine, ScExit, SpawnFails, ScTimeout, GiveUp
    <3>2. scPc' = Settled(sc.pending, "failed")
      BY <1>3 DEF StartupTimeout, BadLine, ScExit, SpawnFails, ScTimeout, GiveUp
    <3>3. /\ Terminated(sc).lost = sc.lost
          /\ Terminated(sc).start # "no" => sc.start # "no"
          /\ Terminated(sc).destroy # "no" =>
                sc.destroy # "no" \/ "destroy" \in sc.pending
      BY DEF Terminated, ScTypeOK
    <3>4. /\ sc'.lost = Terminated(sc).lost /\ sc'.start = Terminated(sc).start
          /\ sc'.destroy = Terminated(sc).destroy
      BY <3>1 DEF Terminated, ScTypeOK
    <3> QED
      BY <3>2, <3>3, <3>4
  <2> QED
    BY <2>1, <1>2, <1>r, <1>p DEF Ordered
<1>4. CASE \E i \in ScIds : Handle(i)
  BY <1>4, <1>2 DEF Handle
<1>5. ASSUME NEW r \in ScRequests, ScRequest(r) \/ Answer(r) PROVE Heard'
  BY <1>5, <1>2 DEF ScRequest, Answer, ScTypeOK, ScCalls
<1>6. CASE ScDestroyAsks \/ DestroyKills \/ ScDestroyAnswered
  <2>1. /\ sc'.lost = sc.lost /\ sc'.start = sc.start /\ sc.destroy # "no"
        /\ UNCHANGED scPc
    <3>1. CASE ScDestroyAsks
      BY <3>1 DEF ScDestroyAsks, ScTypeOK
    <3>2. CASE DestroyKills
      BY <3>2 DEF DestroyKills, ScTypeOK
    <3>3. CASE ScDestroyAnswered
      BY <3>3 DEF ScDestroyAnswered, ScTypeOK
    <3> QED
      BY <1>6, <3>1, <3>2, <3>3
  <2> QED
    BY <2>1, <1>2
<1>7. ASSUME NEW c \in ScStarts, ScStart(c) PROVE Heard'
  <2>1. /\ sc'.lost = sc.lost /\ sc'.destroy = sc.destroy
        /\ sc'.start # "no" => sc.start # "no" \/ scPc'[c] = "waiting"
        /\ scPc[c] = "idle"
        /\ \A d \in ScCalls : d # c => scPc'[d] = scPc[d]
    <3>1. /\ scPc[c] = "idle"
          /\ \A d \in ScCalls : d # c => scPc'[d] = scPc[d]
      BY <1>7 DEF ScStart, JvmStartInternal, PythonStartInternal, ScTypeOK
    <3>2. CASE JvmStartInternal(c)
      <4>1. /\ Spawned(sc).lost = sc.lost /\ Spawned(sc).destroy = sc.destroy
            /\ Unspawned(sc, "starting").lost = sc.lost
            /\ Unspawned(sc, "starting").destroy = sc.destroy
            /\ Unspawned(sc, "starting").start = sc.start
        BY DEF Spawned, Unspawned, ScTypeOK
      <4>2. \/ sc' = sc \/ sc' = Unspawned(sc, "starting")
            \/ sc' = Spawned(sc) /\ scPc'[c] = "waiting"
        BY <3>2 DEF JvmStartInternal, ScTypeOK, ScCalls
      <4> QED
        BY <3>1, <4>1, <4>2
    <3>3. CASE PythonStartInternal(c)
      BY <3>1, <3>3 DEF PythonStartInternal, ScTypeOK, ScCalls
    <3>4. CASE UNCHANGED sc
      BY <3>1, <3>4
    <3> QED
      BY <1>7, <3>2, <3>3, <3>4 DEF ScStart
  <2> QED
    BY <2>1 DEF Heard, ScCalls
<1>8. CASE Ready
  <2>1. /\ sc'.lost = sc.lost /\ sc'.start = "no"
        /\ sc'.destroy # "no" => sc.destroy # "no"
    BY <1>8 DEF Ready, StartOver, ScTypeOK
  <2>2. /\ \A d \in ScDestroys : scPc'[d] = scPc[d]
        /\ \A c \in ScStarts : scPc[c] = "failed" => scPc'[c] = "failed"
    BY <1>8 DEF Ready, Settled, ScCalls
  <2> QED
    BY <2>1, <2>2 DEF Heard
\* A start that fails, with all its callers.
<1>9. CASE ScriptFails \/ SpawnThrows \/ StartOverFailed
  <2>1. /\ sc.start # "no" /\ sc'.start = "no"
        /\ sc'.lost \in {sc.lost, sc.lost \cup {"unwritten"}}
        /\ sc'.destroy # "no" => sc.destroy # "no"
        /\ scPc' = Settled(ScStarts, "failed")
    <3>1. CASE ScriptFails
      <4>1. /\ sc' \in LeftOnDisk(StartOver(sc))
            /\ sc.start # "no" /\ scPc' = Settled(ScStarts, "failed")
        BY <3>1 DEF ScriptFails
      <4>2. \/ sc' = StartOver(sc)
            \/ sc' = [StartOver(sc) EXCEPT !.script = TRUE]
            \/ sc' = [StartOver(sc) EXCEPT !.lost = @ \cup {"unwritten"}]
        BY <4>1 DEF LeftOnDisk
      <4> QED
        BY <4>1, <4>2 DEF StartOver, ScTypeOK
    <3>2. CASE SpawnThrows
      BY <3>2 DEF SpawnThrows, Scripted, Unspawned, StartOver, ScTypeOK
    <3>3. CASE StartOverFailed
      BY <3>3 DEF StartOverFailed, StartOver, ScTypeOK
    <3> QED
      BY <1>9, <3>1, <3>2, <3>3
  <2>2. /\ \A d \in ScDestroys : scPc'[d] = scPc[d]
        /\ \A c \in ScStarts : scPc[c] = "waiting" => scPc'[c] = "failed"
    BY <2>1 DEF Settled, ScCalls
  <2> QED
    BY <2>1, <2>2 DEF Heard
<1>10. CASE ScriptReady
  BY <1>10, <1>2 DEF ScriptReady, Scripted, Spawned, ScTypeOK
<1>11. ASSUME NEW d \in ScDestroys, ScDestroy(d) PROVE Heard'
  <2>1. /\ sc'.lost = sc.lost /\ sc'.start = sc.start /\ scPc[d] = "idle"
        /\ scPc'[d] = "waiting"
        /\ \A c \in ScCalls : c # d => scPc'[c] = scPc[c]
    BY <1>11 DEF ScDestroy, ScTypeOK, ScCalls
  <2> QED
    BY <2>1 DEF Heard, ScCalls
\* The end of a destroy, with all its callers.
<1>12. CASE DestroyNothing \/ DestroyOver
  <2>1. DestroyEndsWith(sc) /\ sc.destroy # "no"
    BY <1>12 DEF DestroyNothing, DestroyOver
  <2>2. /\ sc'.destroy = "no" /\ sc'.start = sc.start
        /\ \/ sc'.lost = sc.lost
           \/ /\ sc'.lost = sc.lost \cup {"unremoved"}
              /\ \A d \in ScDestroys : scPc[d] = "waiting" => scPc'[d] = "failed"
    BY <2>1 DEF DestroyEndsWith, Cleaned, ScTypeOK, ScCalls
  <2>3. /\ \A c \in ScStarts : scPc'[c] = scPc[c]
        /\ \A d \in ScDestroys : scPc[d] = "failed" => scPc'[d] = "failed"
    BY <2>1, <1>p DEF DestroyEndsWith, ScCalls
  <2> QED
    BY <2>1, <2>2, <2>3 DEF Heard
<1> QED
  BY <1>1, <1>3, <1>4, <1>5, <1>6, <1>7, <1>8, <1>9, <1>10, <1>11, <1>12
     DEF ScNext, ScEvent

\* After a destroy nothing is left: no process that is not killed, no request
\* or start that waits, no directory of the script but one whose loss a caller
\* was told of (destroyInternal, terminate, waitForExit, cleanupScript).
THEOREM LeavesNothing == ScSpec => []SidecarLeavesNothing
<1>1. IInv /\ Heard => SidecarLeavesNothing
  <2> SUFFICES ASSUME IInv, ScGone, sc.destroy = "no"
               PROVE  /\ ~sc.held /\ sc.pending = {} /\ ~sc.script
                      /\ sc.start = "no"
                      /\ scProc.life = "running" => scProc.killed
                      /\ \A c \in ScCalls : scPc[c] # "waiting"
    BY DEF SidecarLeavesNothing, ScGone, Heard
  <2>1. ~sc.held /\ sc.pending = {} /\ ~sc.script /\ sc.start = "no"
    BY DEF IInv, Inert
  <2>2. scProc.life = "running" => scProc.killed
    BY <2>1 DEF IInv, Reaped
  <2>3. \A c \in ScCalls : scPc[c] # "waiting"
    BY <2>1 DEF IInv, Waits, ScCalls
  <2> QED
    BY <2>1, <2>2, <2>3
<1>2. ScSpec => [](IInv /\ Heard)
  BY InitIInv, StepIInv, InitHeard, StepHeard, PTL DEF ScSpec
<1> QED
  BY <1>1, <1>2, PTL

-----------------------------------------------------------------------------
(* Sidecar implements the safety of RequestService.                          *)

ServedAlready == ScRequests \cup ScStarts

\* What a step may make of a call, and of the process.
Settles(c) == \/ scPc'[c] = scPc[c]
              \/ scPc[c] = "idle" /\ scPc'[c] = "waiting"
              \/ scPc[c] \in {"idle", "waiting"} /\ scPc'[c] = "failed"
              \/ /\ scPc[c] \in {"idle", "waiting"} /\ scPc'[c] = "answered"
                 /\ scProc.life = "running"

Lives == \/ scProc'.life = scProc.life
         \/ scProc.life = "none" /\ scProc'.life = "running"
         \/ scProc.life = "running" /\ scProc'.life \in {"exited", "lost"}

Faithful == Lives /\ \A c \in ServedAlready : Settles(c)

\* Such a step is one of the service.
LEMMA Simulated ==
  ASSUME IInv, IInv', Faithful
  PROVE  ScService!Next
<1>1. ScService!Ages
  BY DEF ScService!Ages, Faithful, Lives
<1>2. \A c \in ServedAlready :
         /\ scPc[c] \in {"idle", "waiting", "answered", "failed"}
         /\ scPc'[c] \in {"idle", "waiting", "answered", "failed"}
  BY DEF IInv, ScTypeOK, Waits, ServedAlready, ScCalls
<1>3. [c \in ServedAlready |-> IF scPc'[c] = "waiting" THEN "open" ELSE scPc'[c]]
         \in [ServedAlready -> {"idle", "open", "answered", "failed"}]
  BY <1>2
<1>4. ASSUME NEW c \in ServedAlready PROVE ScService!Goes(c)
  <2>1. Settles(c)
    BY DEF Faithful
  <2> QED
    BY <2>1, <1>2 DEF Settles, ScService!Goes, ServedAlready
<1> QED
  BY <1>1, <1>3, <1>4 DEF ScService!Next, ServedAlready

LEMMA StepFaithful == IInv /\ [ScNext]_scVars => Faithful
<1> SUFFICES ASSUME IInv, [ScNext]_scVars PROVE Faithful
  OBVIOUS
<1> USE ScCallsDistinct
<1> ScTypeOK /\ Held /\ Ordered /\ Waits
  BY DEF IInv
<1>s. \A c \in ServedAlready : c \in ScCalls /\ c \notin ScDestroys
  BY DEF ServedAlready, ScCalls
<1>0. CASE UNCHANGED scVars
  BY <1>0 DEF scVars, Faithful, Lives, Settles
\* One sort of calls is settled, answered only while the process lives.
<1>t. ASSUME NEW calls, NEW outcome \in {"answered", "failed"},
             scPc' = Settled(calls, outcome),
             outcome = "answered" => scProc.life = "running"
      PROVE  \A c \in ServedAlready : Settles(c)
  BY <1>t, <1>s DEF Settled, Settles
<1>1. CASE StartupTimeout \/ BadLine \/ \E i \in ScIds : ScTimeout(i)
  <2>1. GiveUp
    BY <1>1 DEF StartupTimeout, BadLine, ScTimeout
  <2> QED
    BY <2>1, <1>t DEF GiveUp, Faithful, Lives, ScTypeOK
<1>2. ASSUME NEW c \in ScStarts, ScStart(c) PROVE Faithful
  <2>1. c \in ScCalls /\ scPc[c] = "idle"
    BY <1>2 DEF ScCalls, ScStart
  <2>2. /\ \A d \in ScCalls : d # c => scPc'[d] = scPc[d]
        /\ \/ scPc'[c] \in {"waiting", "failed"}
           \/ scPc'[c] = "answered" /\ sc.state = "running"
    BY <1>2, <2>1 DEF ScStart, JvmStartInternal, PythonStartInternal, ScTypeOK
  <2>3. Lives
    BY <1>2 DEF ScStart, JvmStartInternal, PythonStartInternal, ScTypeOK,
       Lives, Held
  <2> QED
    BY <1>s, <2>1, <2>2, <2>3 DEF Faithful, Settles, Held
<1>3. CASE ScriptFails \/ SpawnThrows \/ StartOverFailed
  BY <1>3, <1>t DEF ScriptFails, SpawnThrows, StartOverFailed, Faithful, Lives
<1>4. CASE ScriptReady
  <2>1. Lives
    BY <1>4 DEF ScriptReady, Lives, Held, ScTypeOK
  <2> QED
    BY <1>4, <2>1 DEF ScriptReady, Faithful, Settles
<1>5. CASE Ready
  BY <1>5, <1>t DEF Ready, Faithful, Lives
<1>6. ASSUME NEW r \in ScRequests, ScRequest(r) \/ Answer(r) PROVE Faithful
  <2>1. r \in ScCalls
    BY DEF ScCalls
  <2>2. \A d \in ScCalls : d # r => scPc'[d] = scPc[d]
    BY <1>6, <2>1 DEF ScRequest, Answer, ScTypeOK
  <2>3. Lives
    BY <1>6 DEF ScRequest, Answer, Lives, ScTypeOK
  <2>4. CASE ScRequest(r)
    <3>1. scPc[r] = "idle" /\ scPc'[r] \in {"failed", "waiting"}
      BY <2>1, <2>4 DEF ScRequest, ScTypeOK
    <3> QED
      BY <1>s, <2>2, <2>3, <3>1 DEF Faithful, Settles
  <2>5. CASE Answer(r)
    <3>1. scPc[r] = "waiting" /\ scPc'[r] \in {"failed", "answered"}
      BY <2>1, <2>5 DEF Answer, ScTypeOK, Waits
    <3>2. scProc.life = "running"
      BY <2>5 DEF Answer, Held
    <3> QED
      BY <1>s, <2>2, <2>3, <3>1, <3>2 DEF Faithful, Settles
  <2> QED
    BY <1>6, <2>4, <2>5
<1>7. CASE \E i \in ScIds : Handle(i)
  BY <1>7 DEF Handle, Faithful, Lives, Settles, ScTypeOK
<1>8. ASSUME NEW d \in ScDestroys, ScDestroy(d) PROVE Faithful
  <2>1. \A c \in ScCalls : c # d => scPc'[c] = scPc[c]
    BY <1>8 DEF ScDestroy, ScTypeOK
  <2> QED
    BY <1>8, <1>s, <2>1 DEF ScDestroy, Faithful, Lives, Settles
<1>9. CASE DestroyNothing \/ DestroyOver
  <2>1. DestroyEndsWith(sc) /\ UNCHANGED scProc
    BY <1>9 DEF DestroyNothing, DestroyOver
  <2> QED
    BY <1>s, <2>1 DEF DestroyEndsWith, Faithful, Lives, Settles
<1>10. CASE ScDestroyAsks \/ DestroyKills \/ ScDestroyAnswered
  BY <1>10 DEF ScDestroyAsks, DestroyKills, ScDestroyAnswered, Faithful,
     Lives, Settles, ScTypeOK
<1>11. CASE ScExit \/ SpawnFails
  <2>1. Lives
    BY <1>11 DEF ScExit, SpawnFails, Lives, ScTypeOK
  <2> QED
    BY <1>11, <1>t, <2>1 DEF ScExit, SpawnFails, Faithful
<1> QED
  BY <1>0, <1>1, <1>2, <1>3, <1>4, <1>5, <1>6, <1>7, <1>8, <1>9, <1>10, <1>11
     DEF ScNext, ScEvent

\* A request or a start is settled once, and answered only by a process that
\* lives, which it does once, for any number of calls (start, request,
\* consumeLine, terminate): the safety part of SidecarServes.
THEOREM Implements == ScSpec => ScService!Spec
<1>1. ScInit => ScService!Init
  <2> SUFFICES ASSUME ScInit PROVE ScService!Init
    OBVIOUS
  <2>1. \A c \in ServedAlready : scPc[c] = "idle"
    BY DEF ScInit, ServedAlready, ScCalls
  <2> QED
    BY <2>1 DEF ScInit, ScService!Init, ServedAlready
<1>2. IInv /\ [ScNext]_scVars => ScService!Next
  BY StepIInv, StepFaithful, Simulated
<1> QED
  BY <1>1, <1>2, Invariance, PTL DEF ScSpec, ScService!Spec
=============================================================================
