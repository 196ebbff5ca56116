--------------------------- MODULE SettlesProofs ----------------------------
(*****************************************************************************)
(* What is proved of the playback, of the restore of a backup and of the     *)
(* proxy of the Tauri application, and then of the parts that come to an end *)
(* together (MCSettles), for any number of calls, media, candidates and      *)
(* connections.                                                              *)
(*                                                                           *)
(* What the proxy of the desktop serves, where the requests of the window    *)
(* come one after another, is the medium that is loaded and nothing else.    *)
(* That is so at rest; while a call is under way it depends on where the     *)
(* call is (PbPlace): what had been served is released before a medium is    *)
(* prepared, the one prepared is served before it is loaded, and whoever     *)
(* fails after that releases it before the next attempt or the end.          *)
(*                                                                           *)
(* What a restore has done to the files depends on how far its script has    *)
(* come, and, once it fails, on how far the rollback has: RestoreInv has one *)
(* conjunct for each stretch of it.                                          *)
(*****************************************************************************)
EXTENDS MCSettles, SidecarProofs, ServicesProofs

(* Playback. *)

PbType == [player : {"idle", "stopped", "active", "ended", "error"},
           source : 0..PbMaxMedia, direct : BOOLEAN, session : 0..PbMaxMedia,
           proxy : 0..PbMaxMedia, request : BOOLEAN, closed : BOOLEAN,
           media : 0..PbMaxMedia, last : {"none", "play", "stop"}]
FbType == [mode : {"off", "prompt", "auto"},
           status : {"idle", "disabled", "prompt", "trying", "recovered",
                     "cancelled", "stopped"},
           tried : SUBSET PbCandidates, expired : BOOLEAN]
PbSteps == {"idle", "content", "preparing", "proxied", "danmaku", "failing",
            "stopping", "toLocal", "toPush", "pushing", "refused", "done"}
PbCallType == [at : PbSteps, id : 0..PbMaxMedia, depth : 0..PbMaxMedia]
PbPcType == [PbCalls -> PbCallType]

PbTyped == /\ pb \in PbType /\ pxy \subseteq 1..PbMaxMedia /\ fb \in FbType
           /\ pbPc \in PbPcType /\ pbMet \in BOOLEAN

PbBusy(c) == pbPc[c].at \notin {"idle", "done"}

\* An attempt is of a medium that was resolved, and each one inside another of
\* a later one.
PbAttempts == {"content", "preparing", "proxied", "danmaku", "pushing"}

PbIds == \A c \in PbCalls :
            /\ pbPc[c].depth <= pbPc[c].id /\ pbPc[c].id <= pb.media
            /\ pbPc[c].at \in PbAttempts => pbPc[c].id # 0

\* What is loaded and served where call c is alone under way.
PbPlace(c) ==
    LET at == pbPc[c].at  id == pbPc[c].id
    IN  /\ PbBusy(c) /\ at # "danmaku" => pb.source = 0
        /\ PbBusy(c) /\ at \notin {"content", "proxied", "danmaku"} => pxy = {}
        /\ at \in {"proxied", "danmaku"} => pxy = {id}
        /\ at = "danmaku" =>
              pb.source = id /\ ~pb.direct /\ pb.player = "active"

ServedNow == IF pb.source # 0 /\ ~pb.direct THEN {pb.source} ELSE {}

PbServes == ~pbMet =>
    /\ \A c \in PbCalls, d \in PbCalls : PbBusy(c) /\ PbBusy(d) => c = d
    /\ \A c \in PbCalls : PbPlace(c)
    /\ ~PbUnderWay => pxy = ServedNow

PbInv == PbTyped /\ PbIds /\ PbServes

-----------------------------------------------------------------------------
\* The coordinator.

LEMMA TakeNextIs ==
  ASSUME NEW f \in FbType
  PROVE  TakeNext(f).fb \in FbType
<1>1. FbStop(f).fb \in FbType
  BY DEF FbStop, PbOutcome, FbType
<1>2. CASE FbHasNext(f) /\ FbTried(f) < PbMaxAttempts
  <2> DEFINE next == CHOOSE c \in PbCandidates : c \notin f.tried
  <2>1. next \in PbCandidates
    BY <1>2 DEF FbHasNext
  <2>2. TakeNext(f).fb = [f EXCEPT !.status = "trying",
                                   !.tried = f.tried \cup {next}]
    BY <1>2 DEF TakeNext, PbOutcome
  <2>3. f.tried \cup {next} \in SUBSET PbCandidates
    BY <2>1 DEF FbType
  <2> HIDE DEF next
  <2> QED
    BY <2>2, <2>3 DEF FbType
<1>3. CASE ~(FbHasNext(f) /\ FbTried(f) < PbMaxAttempts)
  BY <1>1, <1>3 DEF TakeNext
<1> QED
  BY <1>2, <1>3

LEMMA TriggerIs ==
  ASSUME NEW f \in FbType
  PROVE  Trigger(f).fb \in FbType
<1>1. FbStop(f).fb \in FbType /\ PbOutcome(f, FALSE).fb \in FbType
  BY DEF FbStop, PbOutcome, FbType
<1>2. /\ PbOutcome([f EXCEPT !.status = "disabled"], FALSE).fb \in FbType
      /\ PbOutcome([f EXCEPT !.status = "prompt"], FALSE).fb \in FbType
  BY DEF PbOutcome, FbType
<1> QED
  BY <1>1, <1>2, TakeNextIs DEF Trigger

LEMMA TriggeredIs ==
  ASSUME fb \in FbType, NEW next \in Triggered
  PROVE  next.fb \in FbType
<1>1. PbOutcome(fb, FALSE).fb \in FbType
  BY DEF PbOutcome
<1> QED
  BY <1>1, TriggerIs DEF Triggered

-----------------------------------------------------------------------------
\* A step of call c, and what it owes where c is alone.

PbAlone(c) == /\ ~pbMet
              /\ IF PbBusy(c) THEN PbPlace(c) ELSE pxy = ServedNow

PbMoves(c) ==
    /\ pb' \in PbType /\ pxy' \subseteq 1..PbMaxMedia /\ fb' \in FbType
    /\ pbPc' \in PbPcType
    /\ \A d \in PbCalls : d # c => pbPc'[d] = pbPc[d]
    /\ pbPc'[c].depth <= pbPc'[c].id /\ pbPc'[c].id <= pb'.media
    /\ pbPc'[c].at \in PbAttempts => pbPc'[c].id # 0
    /\ pb.media <= pb'.media

PbOwes(c) == PbAlone(c) => /\ PbPlace(c)'
                           /\ ~PbBusy(c)' => pxy' = ServedNow'

LEMMA PbKept ==
  ASSUME PbInv, NEW c \in PbCalls, PbMoves(c), PbOwes(c), pbMet' \in BOOLEAN,
         \/ PbBusy(c) /\ UNCHANGED pbMet
         \/ ~PbBusy(c) /\ pbMet' = (pbMet \/ PbUnderWay)
  PROVE  PbInv'
<1>1. PbTyped'
  BY DEF PbMoves, PbTyped
<1>2. PbIds'
  <2>1. /\ pb.media \in Nat /\ pb'.media \in Nat
        /\ \A d \in PbCalls : pbPc[d].id \in Nat
    BY <1>1, PbBounds DEF PbInv, PbTyped, PbType, PbPcType, PbCallType
  <2> QED
    BY <2>1 DEF PbMoves, PbIds, PbInv
<1>3. ASSUME ~pbMet'
      PROVE  /\ \A d \in PbCalls, e \in PbCalls :
                   PbBusy(d)' /\ PbBusy(e)' => d = e
             /\ \A d \in PbCalls : PbPlace(d)'
             /\ ~PbUnderWay' => pxy' = ServedNow'
  <2>1. ~pbMet /\ \A d \in PbCalls : d # c => ~PbBusy(d)
    BY <1>3 DEF PbInv, PbServes, PbBusy, PbUnderWay
  <2>2. PbAlone(c)
    BY <1>3, <2>1 DEF PbInv, PbServes, PbAlone, PbUnderWay, PbBusy
  <2>3. \A d \in PbCalls : d # c => ~PbBusy(d)' /\ PbPlace(d)'
    BY <2>1 DEF PbMoves, PbBusy, PbPlace
  <2> QED
    BY <2>2, <2>3 DEF PbOwes, PbUnderWay, PbBusy
<1> QED
  BY <1>1, <1>2, <1>3 DEF PbInv, PbServes

\* Call c goes to at, and the rest of it stays.
LEMMA PbAtIs ==
  ASSUME PbTyped, PbIds, NEW c \in PbCalls, NEW at \in PbSteps,
         pbPc' = PbAt(c, at)
  PROVE  /\ pbPc' \in PbPcType
         /\ \A d \in PbCalls : d # c => pbPc'[d] = pbPc[d]
         /\ pbPc'[c].at = at /\ pbPc'[c].id = pbPc[c].id
         /\ pbPc'[c].depth = pbPc[c].depth
         /\ pbPc[c].depth <= pbPc[c].id /\ pbPc[c].id <= pb.media
  BY DEF PbAt, PbTyped, PbPcType, PbCallType, PbIds

\* A step that takes call c to at, and the numbers of media leaves alone.
LEMMA AtMoves ==
  ASSUME PbTyped, PbIds, NEW c \in PbCalls, NEW at \in PbSteps,
         pbPc' = PbAt(c, at), pb' \in PbType, pb'.media = pb.media,
         fb' \in FbType, pxy' \subseteq 1..PbMaxMedia,
         at \in PbAttempts => pbPc[c].id # 0
  PROVE  PbMoves(c)
<1>1. pb.media \in Nat
  BY PbBounds DEF PbTyped, PbType
<1> QED
  BY <1>1, PbAtIs DEF PbMoves

-----------------------------------------------------------------------------
\* The parts of an attempt.

LEMMA StartIs ==
  ASSUME PbTyped, PbIds, NEW c \in PbCalls, NEW depth \in Nat,
         depth <= pb.media + 1, NEW f \in FbType, NEW p \in PbType,
         p.media = pb.media, StartAttempt(c, depth, f, p), UNCHANGED pxy
  PROVE  PbMoves(c) /\ PbOwes(c)
<1>1. /\ pb.media \in Nat /\ PbMaxMedia \in Nat /\ pb.media < PbMaxMedia
      /\ pb.media + 1 \in 0..PbMaxMedia /\ 0 \in 0..PbMaxMedia
      /\ depth \in 0..PbMaxMedia
  BY PbBounds DEF StartAttempt, PbTyped, PbType
<1>2. /\ pb' \in PbType /\ pb'.media = pb.media + 1 /\ pb'.source = 0
  <2>1. pb' = [p EXCEPT !.player = "stopped", !.source = 0,
                        !.media = pb.media + 1, !.session = 0, !.request = TRUE]
    BY DEF StartAttempt, Stopped, PbType
  <2> QED
    BY <1>1, <2>1 DEF PbType
<1>3. /\ pbPc' \in PbPcType /\ \A d \in PbCalls : d # c => pbPc'[d] = pbPc[d]
      /\ pbPc'[c].at = "content" /\ pbPc'[c].id = pb.media + 1
      /\ pbPc'[c].depth = depth
  <2> DEFINE new == [at |-> "content", id |-> pb.media + 1, depth |-> depth]
  <2>1. new \in PbCallType /\ new.at = "content" /\ new.id = pb.media + 1
        /\ new.depth = depth
    BY <1>1 DEF PbCallType, PbSteps
  <2>2. pbPc' = [pbPc EXCEPT ![c] = new]
    BY DEF StartAttempt
  <2> HIDE DEF new
  <2> QED
    BY <2>1, <2>2 DEF PbTyped, PbPcType
<1>4. fb' \in FbType /\ pxy' \subseteq 1..PbMaxMedia
  BY DEF StartAttempt, PbTyped
<1>5. PbMoves(c)
  BY <1>1, <1>2, <1>3, <1>4 DEF PbMoves, PbAttempts
<1>6. PbOwes(c)
  BY <1>1, <1>2, <1>3 DEF PbOwes, PbPlace, PbBusy
<1> QED
  BY <1>5, <1>6

LEMMA ReleaseIs ==
  ASSUME PbTyped, NEW p \in PbType, ReleaseProxy(p)
  PROVE  /\ pb' \in PbType /\ pb'.media = p.media /\ pb'.source = p.source
         /\ pxy' = {}
<1>1. 0 \in 0..PbMaxMedia
  BY PbBounds
<1> QED
  BY <1>1 DEF ReleaseProxy, PbType

LEMMA FailIs ==
  ASSUME PbTyped, PbIds, NEW c \in PbCalls, NEW p \in PbType, PbBusy(c),
         p.media = pb.media, PbAlone(c) => p.source = 0, Fail(c, p)
  PROVE  PbMoves(c) /\ PbOwes(c)
<1>1. PICK next \in Triggered :
        \/ /\ next.attempt
           /\ StartAttempt(c, pbPc[c].depth + 1, next.fb, p)
           /\ UNCHANGED pxy
        \/ /\ ~next.attempt
           /\ fb' = next.fb
           /\ ReleaseProxy(p)
           /\ pbPc' = PbAt(c, "failing")
  BY DEF Fail
<1>2. next.fb \in FbType
  BY TriggeredIs DEF PbTyped
<1>3. CASE /\ StartAttempt(c, pbPc[c].depth + 1, next.fb, p)
           /\ UNCHANGED pxy
  <2>1. pbPc[c].depth + 1 \in Nat /\ pbPc[c].depth + 1 <= pb.media + 1
    BY PbBounds DEF PbTyped, PbPcType, PbCallType, PbIds, PbType
  <2> QED
    BY <1>2, <1>3, <2>1, StartIs
<1>4. CASE fb' = next.fb /\ ReleaseProxy(p) /\ pbPc' = PbAt(c, "failing")
  <2>1. /\ pb' \in PbType /\ pb'.media = pb.media /\ pb'.source = p.source
        /\ pxy' = {}
    BY <1>4, ReleaseIs
  <2>2. PbMoves(c) /\ pbPc'[c].at = "failing"
    BY <1>2, <1>4, <2>1, AtMoves, PbAtIs DEF PbSteps, PbAttempts
  <2>3. PbOwes(c)
    BY <2>1, <2>2 DEF PbOwes, PbPlace, PbBusy
  <2> QED
    BY <2>2, <2>3
<1> QED
  BY <1>1, <1>3, <1>4

LEMMA SucceedIs ==
  ASSUME PbTyped, PbIds, NEW c \in PbCalls, NEW p \in PbType,
         p.media = pb.media, Succeed(c, p),
         PbAlone(c) => /\ p.source # 0 /\ ~p.direct /\ p.player = "active"
                       /\ pxy = {p.source}
  PROVE  PbMoves(c) /\ PbOwes(c)
<1>1. fb' \in FbType
  BY DEF Succeed, PbTyped, FbType
<1>2. CASE pb' = p /\ pbPc' = PbAt(c, "done") /\ UNCHANGED pxy
  <2>1. PbMoves(c) /\ pbPc'[c].at = "done"
    BY <1>1, <1>2, AtMoves, PbAtIs DEF PbSteps, PbAttempts, PbTyped
  <2>2. PbOwes(c)
    BY <1>2, <2>1 DEF PbOwes, PbPlace, PbBusy, ServedNow
  <2> QED
    BY <2>1, <2>2
<1>3. CASE /\ pbPc[c].depth > 0 /\ ~(p.source # 0 /\ p.player # "error")
           /\ ReleaseProxy(p)
           /\ pbPc' = [pbPc EXCEPT ![c].depth = @ - 1, ![c].at = "failing"]
  <2>1. /\ pb' \in PbType /\ pb'.media = pb.media /\ pxy' = {}
    BY <1>3, ReleaseIs
  <2>2. /\ pbPc' \in PbPcType /\ \A d \in PbCalls : d # c => pbPc'[d] = pbPc[d]
        /\ pbPc'[c].id = pbPc[c].id /\ pbPc'[c].depth = pbPc[c].depth - 1
        /\ pbPc'[c].at = "failing"
    <3> DEFINE new == [pbPc[c] EXCEPT !.depth = pbPc[c].depth - 1,
                                      !.at = "failing"]
    <3>1. pbPc[c] \in PbCallType /\ pbPc[c].depth - 1 \in 0..PbMaxMedia
      BY <1>3, PbBounds DEF PbTyped, PbPcType, PbCallType
    <3>2. /\ new \in PbCallType /\ new.id = pbPc[c].id
          /\ new.depth = pbPc[c].depth - 1 /\ new.at = "failing"
      BY <3>1 DEF PbCallType, PbSteps
    <3>3. pbPc' = [pbPc EXCEPT ![c] = new]
      BY <1>3 DEF PbTyped, PbPcType
    <3> HIDE DEF new
    <3> QED
      BY <3>2, <3>3 DEF PbTyped, PbPcType
  <2>3. /\ pbPc[c].depth \in Nat /\ pbPc[c].id \in Nat /\ pb.media \in Nat
        /\ pbPc[c].depth <= pbPc[c].id /\ pbPc[c].id <= pb.media
    BY PbBounds DEF PbTyped, PbPcType, PbCallType, PbIds, PbType
  <2>4. PbMoves(c)
    BY <1>1, <2>1, <2>2, <2>3 DEF PbMoves, PbAttempts
  <2>5. ~PbAlone(c)
    BY <1>3
  <2> QED
    BY <2>4, <2>5 DEF PbOwes
<1> QED
  BY <1>2, <1>3 DEF Succeed

-----------------------------------------------------------------------------
\* The requests of the window and the events of the media element.

LEMMA AskedIs ==
  ASSUME pb \in PbType, NEW asked \in {"play", "stop"}
  PROVE  Asked(asked) \in PbType /\ Asked(asked).media = pb.media
  BY DEF Asked, PbType

LEMMA StoppedIs ==
  ASSUME NEW p \in PbType
  PROVE  /\ Stopped(p) \in PbType /\ Stopped(p).media = p.media
         /\ Stopped(p).source = 0
<1>1. 0 \in 0..PbMaxMedia
  BY PbBounds
<1> QED
  BY <1>1 DEF Stopped, PbType

LEMMA BeginMoves ==
  ASSUME PbTyped, PbIds, NEW c \in PbCalls, BeginsCall(c)
  PROVE  PbMoves(c) /\ PbOwes(c)
<1>0. /\ ~PbBusy(c) /\ pbPc[c].at = "idle"
      /\ pb \in PbType /\ fb \in FbType /\ pxy \subseteq 1..PbMaxMedia
      /\ pb.media \in Nat
  BY PbBounds DEF BeginsCall, PbBusy, PbTyped, PbType
<1>1. CASE Play(c)
  <2>1. Asked("play") \in PbType /\ Asked("play").media = pb.media
    BY <1>0 DEF Asked, PbType
  <2>2. FbBegun \in FbType
    BY <1>0 DEF FbBegun, FbType
  <2>3. StartAttempt(c, 0, FbBegun, Asked("play")) /\ UNCHANGED pxy
    BY <1>1 DEF Play
  <2>4. 0 \in Nat /\ 0 <= pb.media + 1
    BY <1>0
  <2> QED
    BY <2>1, <2>2, <2>3, <2>4, StartIs
<1>2. CASE Approve(c)
  <2> DEFINE next == TakeNext(fb)
  <2>1. next.fb \in FbType
    BY <1>0, TakeNextIs
  <2>2. CASE next.attempt /\ StartAttempt(c, 0, next.fb, Asked("play"))
             /\ UNCHANGED pxy
    <3>1. Asked("play") \in PbType /\ Asked("play").media = pb.media
      BY <1>0 DEF Asked, PbType
    <3> QED
      BY <1>0, <2>1, <2>2, <3>1, StartIs
  <2>3. CASE fb' = next.fb /\ pbPc' = PbAt(c, "done") /\ UNCHANGED <<pb, pxy>>
    <3>1. PbMoves(c) /\ pbPc'[c].at = "done"
      BY <1>0, <2>1, <2>3, AtMoves, PbAtIs DEF PbSteps, PbAttempts
    <3> QED
      BY <1>0, <2>3, <3>1 DEF PbOwes, PbAlone, PbPlace, PbBusy, ServedNow
  <2> QED
    BY <1>2, <2>2, <2>3 DEF Approve
<1>3. CASE Choose(c)
  <2>1. fb' \in FbType
    <3>1. FbCancelled \in FbType
      BY <1>0 DEF FbCancelled, FbType
    <3>2. ASSUME NEW mode \in {"off", "prompt", "auto"},
                 fb' = [fb EXCEPT !.mode = mode,
                           !.status = IF mode = "off" THEN "disabled"
                                      ELSE IF @ = "disabled" THEN "idle" ELSE @]
          PROVE  fb' \in FbType
      BY <1>0, <3>2 DEF FbType
    <3> QED
      BY <1>3, <3>1, <3>2 DEF Choose
  <2>2. pbPc' = PbAt(c, "done") /\ UNCHANGED <<pb, pxy>>
    BY <1>3 DEF Choose
  <2>3. PbMoves(c) /\ pbPc'[c].at = "done"
    BY <1>0, <2>1, <2>2, AtMoves, PbAtIs DEF PbSteps, PbAttempts
  <2> QED
    BY <1>0, <2>2, <2>3 DEF PbOwes, PbAlone, PbPlace, PbBusy, ServedNow
<1>4. CASE \E then \in {"done", "local", "push"} : Stop(c, then)
  <2>1. PICK then \in {"done", "local", "push"} : Stop(c, then)
    BY <1>4
  <2>2. PICK asked \in {"stop", "play"} : ReleaseProxy(Stopped(Asked(asked)))
    BY <2>1 DEF Stop
  <2>3. PICK at \in {"stopping", "toLocal", "toPush"} : pbPc' = PbAt(c, at)
    BY <2>1 DEF Stop
  <2>4. /\ Stopped(Asked(asked)) \in PbType
        /\ Stopped(Asked(asked)).media = pb.media
        /\ Stopped(Asked(asked)).source = 0
    BY <1>0, StoppedIs, AskedIs
  <2>5. /\ pb' \in PbType /\ pb'.media = pb.media /\ pb'.source = 0
        /\ pxy' = {}
    BY <2>2, <2>4, ReleaseIs
  <2>6. fb' \in FbType
    BY <1>0, <2>1 DEF Stop, FbCancelled, FbType
  <2>7. at \in PbSteps
    BY DEF PbSteps, PbAttempts
  <2>8. PbMoves(c) /\ pbPc'[c].at = at
    BY <2>3, <2>5, <2>6, <2>7, AtMoves, PbAtIs DEF PbAttempts
  <2> QED
    BY <2>5, <2>8 DEF PbOwes, PbPlace, PbBusy
<1>5. CASE Close(c)
  <2> DEFINE p == [Stopped(Asked("stop")) EXCEPT !.closed = TRUE]
  <2>1. p \in PbType /\ p.media = pb.media /\ p.source = 0
    <3>1. PICK asked \in {"play", "stop"} : asked = "stop"
      OBVIOUS
    <3>2. PICK q \in PbType : /\ q = Stopped(Asked(asked))
                              /\ q.media = pb.media /\ q.source = 0
      BY <1>0, StoppedIs, AskedIs
    <3>3. p = [q EXCEPT !.closed = TRUE]
      BY <3>1, <3>2
    <3> QED
      BY <3>2, <3>3 DEF PbType
  <2>2. ReleaseProxy(p) /\ pbPc' = PbAt(c, "stopping") /\ UNCHANGED fb
    BY <1>5 DEF Close
  <2> HIDE DEF p
  <2>3. /\ pb' \in PbType /\ pb'.media = pb.media /\ pb'.source = 0
        /\ pxy' = {}
    BY <2>1, <2>2, ReleaseIs
  <2>4. PbMoves(c) /\ pbPc'[c].at = "stopping"
    BY <1>0, <2>2, <2>3, AtMoves, PbAtIs DEF PbSteps, PbAttempts
  <2> QED
    BY <2>3, <2>4 DEF PbOwes, PbPlace, PbBusy
<1>6. CASE PbCompleted(c)
  <2>1. /\ pb' = [pb EXCEPT !.player = IF pb.source # 0 THEN "ended" ELSE @]
        /\ pbPc' = PbAt(c, "done") /\ UNCHANGED <<pxy, fb>>
    BY <1>6 DEF PbCompleted
  <2>2. /\ pb' \in PbType /\ pb'.media = pb.media /\ pb'.source = pb.source
        /\ pb'.direct = pb.direct
    BY <1>0, <2>1 DEF PbType
  <2>3. PbMoves(c) /\ pbPc'[c].at = "done"
    BY <1>0, <2>1, <2>2, AtMoves, PbAtIs DEF PbSteps, PbAttempts
  <2> QED
    BY <1>0, <2>1, <2>2, <2>3 DEF PbOwes, PbAlone, PbPlace, PbBusy, ServedNow
<1>7. CASE MediaFails(c)
  <2>1. PICK visible \in BOOLEAN :
         LET p == IF visible /\ pb.source # 0 THEN [pb EXCEPT !.player = "error"]
                  ELSE pb
         IN  \/ /\ pb' = p /\ pbPc' = PbAt(c, "done")
                /\ UNCHANGED fb
             \/ \E next \in Triggered :
                     \/ StartAttempt(c, 0, next.fb, p)
                     \/ /\ fb' = next.fb /\ pb' = p /\ pbPc' = PbAt(c, "done")
    BY <1>7 DEF MediaFails
  <2> DEFINE p == IF visible /\ pb.source # 0 THEN [pb EXCEPT !.player = "error"]
                  ELSE pb
  <2>2. /\ p \in PbType /\ p.media = pb.media /\ p.source = pb.source
        /\ p.direct = pb.direct
    BY <1>0 DEF PbType
  <2>3. UNCHANGED pxy
    BY <1>7 DEF MediaFails
  <2>4. \/ pb' = p /\ pbPc' = PbAt(c, "done") /\ fb' \in FbType
        \/ \E f \in FbType : StartAttempt(c, 0, f, p)
    BY <1>0, <2>1, TriggeredIs
  <2> HIDE DEF p
  <2>5. CASE pb' = p /\ pbPc' = PbAt(c, "done") /\ fb' \in FbType
    <3>1. PbMoves(c) /\ pbPc'[c].at = "done"
      BY <1>0, <2>2, <2>3, <2>5, AtMoves, PbAtIs DEF PbSteps, PbAttempts
    <3> QED
      BY <1>0, <2>2, <2>3, <2>5, <3>1
      DEF PbOwes, PbAlone, PbPlace, PbBusy, ServedNow
  <2>6. CASE \E f \in FbType : StartAttempt(c, 0, f, p)
    BY <1>0, <2>2, <2>3, <2>6, StartIs
  <2> QED
    BY <2>4, <2>5, <2>6
<1> QED
  BY <1>1, <1>2, <1>3, <1>4, <1>5, <1>6, <1>7 DEF BeginsCall

-----------------------------------------------------------------------------
\* What is awaited goes on.

LEMMA ContinueMoves ==
  ASSUME PbTyped, PbIds, NEW c \in PbCalls, Continue(c)
  PROVE  PbMoves(c) /\ PbOwes(c) /\ PbBusy(c)
<1>0. /\ pb \in PbType /\ fb \in FbType /\ pxy \subseteq 1..PbMaxMedia
      /\ pb.media \in Nat /\ pbPc[c].id \in 0..PbMaxMedia
      /\ 0 \in 0..PbMaxMedia
      /\ PbAlone(c) => pxy \subseteq 1..PbMaxMedia
  BY PbBounds DEF PbTyped, PbType, PbPcType, PbCallType
<1>1. CASE PlayerContent(c)
  <2>1. PbBusy(c) /\ (PbAlone(c) => pb.source = 0)
    BY <1>1 DEF PlayerContent, PbBusy, PbAlone, PbPlace
  <2>2. CASE Fail(c, pb)
    BY <1>0, <2>1, <2>2, FailIs
  <2>3. CASE ReleaseProxy(pb) /\ pbPc' = PbAt(c, "preparing") /\ UNCHANGED fb
    <3>1. /\ pb' \in PbType /\ pb'.media = pb.media /\ pb'.source = pb.source
          /\ pxy' = {}
      BY <1>0, <2>3, ReleaseIs
    <3>2. /\ PbMoves(c) /\ pbPc'[c].at = "preparing"
          /\ pbPc'[c].id = pbPc[c].id
      <4>1. pbPc[c].id # 0
        BY <1>1 DEF PlayerContent, PbIds, PbAttempts
      <4> QED
        BY <1>0, <2>3, <3>1, <4>1, AtMoves, PbAtIs DEF PbSteps
    <3> QED
      BY <1>1, <2>1, <3>1, <3>2 DEF PbOwes, PbAlone, PbPlace, PbBusy,
         PlayerContent
  <2> QED
    BY <1>1, <2>1, <2>2, <2>3 DEF PlayerContent
<1>2. CASE Prepared(c)
  <2>1. /\ PbBusy(c)
        /\ PbAlone(c) => pb.source = 0 /\ pxy = {}
    BY <1>2 DEF Prepared, PbBusy, PbAlone, PbPlace
  <2>2. CASE Fail(c, pb)
    BY <1>0, <2>1, <2>2, FailIs
  <2>3. CASE /\ Served(pbPc[c].id)
             /\ pb' = [pb EXCEPT !.proxy = pbPc[c].id]
             /\ pbPc' = PbAt(c, "proxied")
             /\ UNCHANGED fb
    <3>1. pb' \in PbType /\ pb'.media = pb.media /\ pb'.source = pb.source
      BY <1>0, <2>3 DEF PbType
    <3>2. pxy' = pxy \cup {pbPc[c].id}
      BY <2>3 DEF Served
    <3>3. pbPc[c].id # 0 /\ pbPc[c].id \in 1..PbMaxMedia
      BY <1>0, <1>2 DEF Prepared, PbIds, PbAttempts
    <3>4. /\ PbMoves(c) /\ pbPc'[c].at = "proxied"
          /\ pbPc'[c].id = pbPc[c].id
      BY <1>0, <2>3, <3>1, <3>2, <3>3, AtMoves, PbAtIs DEF PbSteps, PbAttempts
    <3> QED
      BY <2>1, <3>1, <3>2, <3>4 DEF PbOwes, PbPlace, PbBusy
  <2> QED
    BY <1>2, <2>1, <2>2, <2>3 DEF Prepared
<1>3. CASE Load(c)
  <2> DEFINE p == Loaded(pb, pbPc[c].id, FALSE)
             error == [pb EXCEPT !.player = "error", !.source = 0]
             loaded == [p EXCEPT !.session = pbPc[c].id]
  <2>1. /\ PbBusy(c) /\ pbPc[c].id # 0
        /\ PbAlone(c) => pb.source = 0 /\ pxy = {pbPc[c].id}
    BY <1>3 DEF Load, PbBusy, PbAlone, PbPlace, PbIds, PbAttempts
  <2>2. /\ error \in PbType /\ error.media = pb.media /\ error.source = 0
        /\ p \in PbType /\ p.media = pb.media /\ p.source = pbPc[c].id
        /\ ~p.direct /\ p.player = "active"
        /\ loaded \in PbType /\ loaded.media = pb.media
        /\ loaded.source = pbPc[c].id /\ ~loaded.direct
        /\ loaded.player = "active"
    BY <1>0 DEF Loaded, PbType
  <2>3. \/ Fail(c, pb) \/ Fail(c, error) \/ Succeed(c, loaded)
        \/ pb' = p /\ pbPc' = PbAt(c, "danmaku") /\ UNCHANGED <<pxy, fb>>
    BY <1>3 DEF Load
  <2> HIDE DEF p, error, loaded
  <2>4. CASE Fail(c, pb)
    BY <1>0, <2>1, <2>4, FailIs
  <2>5. CASE Fail(c, error)
    BY <1>0, <2>1, <2>2, <2>5, FailIs
  <2>6. CASE Succeed(c, loaded)
    BY <1>0, <2>1, <2>2, <2>6, SucceedIs
  <2>7. CASE pb' = p /\ pbPc' = PbAt(c, "danmaku") /\ UNCHANGED <<pxy, fb>>
    <3>1. /\ PbMoves(c) /\ pbPc'[c].at = "danmaku"
          /\ pbPc'[c].id = pbPc[c].id
      BY <1>0, <2>1, <2>2, <2>7, AtMoves, PbAtIs DEF PbSteps, PbAttempts
    <3> QED
      BY <2>1, <2>2, <2>7, <3>1 DEF PbOwes, PbPlace, PbBusy
  <2> QED
    BY <2>1, <2>3, <2>4, <2>5, <2>6, <2>7
<1>4. CASE DanmakuLoaded(c)
  <2> DEFINE p == [pb EXCEPT !.session = pbPc[c].id]
  <2>1. /\ PbBusy(c) /\ pbPc[c].id # 0
        /\ PbAlone(c) => /\ pb.source = pbPc[c].id /\ pxy = {pbPc[c].id}
                         /\ ~pb.direct /\ pb.player = "active"
    BY <1>4 DEF DanmakuLoaded, PbBusy, PbAlone, PbPlace, PbIds, PbAttempts
  <2>2. /\ p \in PbType /\ p.media = pb.media /\ p.source = pb.source
        /\ p.direct = pb.direct /\ p.player = pb.player
    BY <1>0 DEF PbType
  <2>3. Succeed(c, p)
    BY <1>4 DEF DanmakuLoaded
  <2> HIDE DEF p
  <2> QED
    BY <2>1, <2>2, <2>3, SucceedIs
<1>5. CASE Unwind(c)
  <2> DEFINE p == [pb EXCEPT !.player = "error", !.session = 0]
  <2>1. /\ PbBusy(c) /\ (PbAlone(c) => pb.source = 0 /\ pxy = {})
        /\ UNCHANGED fb
    BY <1>5 DEF Unwind, PbBusy, PbAlone, PbPlace
  <2>2. p \in PbType /\ p.media = pb.media /\ p.source = pb.source
    BY <1>0 DEF PbType
  <2>3. \/ pb' = p /\ pbPc' = PbAt(c, "done") /\ UNCHANGED pxy
        \/ /\ pbPc[c].depth > 0
           /\ ReleaseProxy(p)
           /\ pbPc' = [pbPc EXCEPT ![c].depth = @ - 1]
    BY <1>5 DEF Unwind
  <2> HIDE DEF p
  <2>4. CASE pb' = p /\ pbPc' = PbAt(c, "done") /\ UNCHANGED pxy
    <3>1. PbMoves(c) /\ pbPc'[c].at = "done"
      BY <1>0, <2>1, <2>2, <2>4, AtMoves, PbAtIs DEF PbSteps, PbAttempts
    <3> QED
      BY <2>1, <2>2, <2>4, <3>1 DEF PbOwes, PbPlace, PbBusy, ServedNow
  <2>5. CASE /\ pbPc[c].depth > 0
             /\ ReleaseProxy(p)
             /\ pbPc' = [pbPc EXCEPT ![c].depth = @ - 1]
    <3>1. /\ pb' \in PbType /\ pb'.media = pb.media /\ pb'.source = pb.source
          /\ pxy' = {}
      BY <2>2, <2>5, ReleaseIs
    <3>2. /\ pbPc' \in PbPcType
          /\ \A d \in PbCalls : d # c => pbPc'[d] = pbPc[d]
          /\ pbPc'[c].id = pbPc[c].id /\ pbPc'[c].depth = pbPc[c].depth - 1
          /\ pbPc'[c].at = "failing"
      <4> DEFINE new == [pbPc[c] EXCEPT !.depth = pbPc[c].depth - 1]
      <4>1. pbPc[c] \in PbCallType /\ pbPc[c].depth - 1 \in 0..PbMaxMedia
        BY <2>5, PbBounds DEF PbTyped, PbPcType, PbCallType
      <4>2. /\ new \in PbCallType /\ new.id = pbPc[c].id
            /\ new.depth = pbPc[c].depth - 1 /\ new.at = "failing"
        BY <1>5, <4>1 DEF PbCallType, Unwind
      <4>3. pbPc' = [pbPc EXCEPT ![c] = new]
        BY <2>5 DEF PbTyped, PbPcType
      <4> HIDE DEF new
      <4> QED
        BY <4>2, <4>3 DEF PbTyped, PbPcType
    <3>3. /\ pbPc[c].depth \in Nat /\ pbPc[c].id \in Nat /\ pb.media \in Nat
          /\ pbPc[c].depth <= pbPc[c].id /\ pbPc[c].id <= pb.media
      BY PbBounds DEF PbTyped, PbPcType, PbCallType, PbIds, PbType
    <3>4. PbMoves(c)
      BY <1>0, <2>1, <3>1, <3>2, <3>3 DEF PbMoves, PbAttempts
    <3> QED
      BY <2>1, <3>1, <3>2, <3>4 DEF PbOwes, PbPlace, PbBusy
  <2> QED
    BY <2>1, <2>3, <2>4, <2>5
<1>6. CASE StopEnds(c)
  <2>1. /\ PbBusy(c) /\ (PbAlone(c) => pb.source = 0 /\ pxy = {})
        /\ pb' = [pb EXCEPT !.session = 0] /\ pbPc' = PbAt(c, "done")
        /\ UNCHANGED <<pxy, fb>>
    BY <1>6 DEF StopEnds, PbBusy, PbAlone, PbPlace
  <2>2. pb' \in PbType /\ pb'.media = pb.media /\ pb'.source = pb.source
    BY <1>0, <2>1 DEF PbType
  <2>3. PbMoves(c) /\ pbPc'[c].at = "done"
    BY <1>0, <2>1, <2>2, AtMoves, PbAtIs DEF PbSteps, PbAttempts
  <2> QED
    BY <2>1, <2>2, <2>3 DEF PbOwes, PbPlace, PbBusy, ServedNow
<1>7. CASE LocalLoads(c)
  <2>1. /\ PbBusy(c) /\ (PbAlone(c) => pxy = {})
        /\ pbPc' = PbAt(c, "done") /\ fb' = FbCancelled /\ UNCHANGED pxy
    BY <1>7 DEF LocalLoads, PbBusy, PbAlone, PbPlace
  <2>2. pb.media \in Nat /\ pb.media <= pb.media
    BY <1>0
  <2>3. /\ pb' \in PbType /\ pb'.media \in Nat /\ pb.media <= pb'.media
        /\ pb'.source = 0 \/ pb'.direct
    <3>1. CASE pb' = [pb EXCEPT !.session = 0, !.request = FALSE,
                                !.player = "error", !.source = 0]
      <4>1. pb' \in PbType
        BY <1>0, <3>1 DEF PbType
      <4>2. pb'.media = pb.media /\ pb'.source = 0
        BY <1>0, <3>1 DEF PbType
      <4> QED
        BY <2>2, <4>1, <4>2
    <3>2. CASE /\ pb.media < PbMaxMedia
               /\ pb' = [Loaded([pb EXCEPT !.session = 0, !.request = FALSE],
                                pb.media + 1, TRUE) EXCEPT
                            !.session = pb.media + 1, !.media = @ + 1]
      <4> DEFINE id == pb.media + 1
      <4>1. id \in 0..PbMaxMedia /\ pb.media <= id /\ id \in Nat
        BY <2>2, <3>2, PbBounds
      <4>2. pb' = [pb EXCEPT !.session = id, !.request = FALSE, !.media = id,
                             !.player = "active", !.source = id, !.direct = TRUE]
        BY <1>0, <3>2 DEF Loaded, PbType
      <4> HIDE DEF id
      <4> QED
        BY <1>0, <4>1, <4>2 DEF PbType
    <3> QED
      BY <1>7, <3>1, <3>2 DEF LocalLoads
  <2>4. fb' \in FbType
    BY <1>0, <2>1 DEF FbCancelled, FbType
  <2>5. /\ pbPc' \in PbPcType /\ \A d \in PbCalls : d # c => pbPc'[d] = pbPc[d]
        /\ pbPc'[c].at = "done" /\ pbPc'[c].id = pbPc[c].id
        /\ pbPc'[c].depth = pbPc[c].depth
        /\ pbPc[c].depth <= pbPc[c].id /\ pbPc[c].id <= pb.media
    BY <2>1, PbAtIs DEF PbSteps
  <2>6. PbMoves(c)
    <3>1. pbPc[c].id \in Nat /\ pbPc[c].id <= pb'.media
      BY <1>0, <2>2, <2>3, <2>5
    <3>2. pbPc'[c].at \notin PbAttempts
      BY <2>5 DEF PbAttempts
    <3> QED
      BY <1>0, <2>1, <2>3, <2>4, <2>5, <3>1, <3>2 DEF PbMoves
  <2> QED
    BY <2>1, <2>3, <2>5, <2>6 DEF PbOwes, PbPlace, PbBusy, ServedNow
<1>8. CASE PushStarts(c)
  <2> DEFINE id == pb.media + 1
             new == [pbPc[c] EXCEPT !.at = "pushing", !.id = id]
  <2>1. /\ PbBusy(c) /\ (PbAlone(c) => pb.source = 0 /\ pxy = {})
        /\ pb' = [pb EXCEPT !.session = 0, !.media = @ + 1, !.request = FALSE]
        /\ fb' = FbCancelled /\ UNCHANGED pxy
        /\ pb.media < PbMaxMedia
    BY <1>8 DEF PushStarts, PbBusy, PbAlone, PbPlace
  <2>2. id \in 0..PbMaxMedia /\ id > pb.media /\ id \in Nat /\ id # 0
    BY <1>0, <2>1, PbBounds
  <2>3. pb' \in PbType /\ pb'.media = id /\ pb'.source = pb.source
    BY <1>0, <2>1, <2>2 DEF PbType
  <2>4. fb' \in FbType
    BY <1>0, <2>1 DEF FbCancelled, FbType
  <2>5. pbPc' = [pbPc EXCEPT ![c] = new]
    BY <1>8 DEF PushStarts, PbTyped, PbPcType
  <2>6. pbPc[c] \in PbCallType
    BY DEF PbTyped, PbPcType
  <2>7. /\ new \in PbCallType /\ new.at = "pushing" /\ new.id = id
        /\ new.depth = pbPc[c].depth
    <3> HIDE DEF id
    <3> QED
      BY <2>2, <2>6 DEF PbCallType, PbSteps
  <2>8. /\ pbPc[c].depth \in Nat /\ pbPc[c].depth <= pb.media
    BY <1>0, <2>6, PbBounds DEF PbIds, PbCallType
  <2> HIDE DEF id, new
  <2>9. /\ pbPc' \in PbPcType /\ \A d \in PbCalls : d # c => pbPc'[d] = pbPc[d]
        /\ pbPc'[c] = new
    BY <2>5, <2>7 DEF PbTyped, PbPcType
  <2>10. PbMoves(c)
    BY <1>0, <2>1, <2>2, <2>3, <2>4, <2>7, <2>8, <2>9 DEF PbMoves
  <2> QED
    BY <2>1, <2>3, <2>7, <2>9, <2>10 DEF PbOwes, PbPlace, PbBusy
<1>9. CASE PushLoads(c)
  <2> DEFINE id == pbPc[c].id
             p == [pb EXCEPT !.proxy = id]
             loaded == [Loaded(p, id, FALSE) EXCEPT !.session = id]
             error == [p EXCEPT !.player = "error", !.source = 0]
  <2>1. /\ PbBusy(c) /\ (PbAlone(c) => pb.source = 0 /\ pxy = {})
        /\ UNCHANGED fb /\ id # 0 /\ id \in 0..PbMaxMedia
        /\ id \in 1..PbMaxMedia
    BY <1>0, <1>9 DEF PushLoads, PbBusy, PbAlone, PbPlace, PbIds, PbAttempts
  <2>2. /\ loaded \in PbType /\ loaded.media = pb.media /\ loaded.source = id
        /\ ~loaded.direct
        /\ error \in PbType /\ error.media = pb.media /\ error.source = 0
    BY <1>0 DEF Loaded, PbType
  <2>3. \/ UNCHANGED <<pb, pxy>> /\ pbPc' = PbAt(c, "done")
        \/ pb' = loaded /\ pxy' = pxy \cup {id} /\ pbPc' = PbAt(c, "done")
        \/ ReleaseProxy(error) /\ pbPc' = PbAt(c, "refused")
    BY <1>9 DEF PushLoads, Served
  <2> HIDE DEF id, loaded, error, p
  <2>4. CASE UNCHANGED <<pb, pxy>> /\ pbPc' = PbAt(c, "done")
    <3>1. PbMoves(c) /\ pbPc'[c].at = "done"
      BY <1>0, <2>1, <2>4, AtMoves, PbAtIs DEF PbSteps, PbAttempts
    <3> QED
      BY <2>1, <2>4, <3>1 DEF PbOwes, PbPlace, PbBusy, ServedNow
  <2>5. CASE pb' = loaded /\ pxy' = pxy \cup {id} /\ pbPc' = PbAt(c, "done")
    <3>1. PbMoves(c) /\ pbPc'[c].at = "done"
      BY <1>0, <2>1, <2>2, <2>5, AtMoves, PbAtIs DEF PbSteps, PbAttempts
    <3> QED
      BY <2>1, <2>2, <2>5, <3>1 DEF PbOwes, PbPlace, PbBusy, ServedNow
  <2>6. CASE ReleaseProxy(error) /\ pbPc' = PbAt(c, "refused")
    <3>1. pb' \in PbType /\ pb'.media = pb.media /\ pb'.source = 0 /\ pxy' = {}
      BY <2>2, <2>6, ReleaseIs
    <3>2. PbMoves(c) /\ pbPc'[c].at = "refused"
      BY <1>0, <2>1, <2>6, <3>1, AtMoves, PbAtIs DEF PbSteps, PbAttempts
    <3>3. PbPlace(c)'
      BY <3>1, <3>2 DEF PbPlace, PbBusy
    <3> QED
      BY <2>1, <3>2, <3>3 DEF PbOwes, PbBusy
  <2> QED
    BY <2>1, <2>3, <2>4, <2>5, <2>6
<1>10. CASE PushRefused(c)
  <2>1. /\ PbBusy(c) /\ (PbAlone(c) => pb.source = 0 /\ pxy = {})
        /\ pbPc' = PbAt(c, "done") /\ UNCHANGED <<pb, pxy, fb>>
    BY <1>10 DEF PushRefused, PbBusy, PbAlone, PbPlace
  <2>2. PbMoves(c) /\ pbPc'[c].at = "done"
    BY <1>0, <2>1, AtMoves, PbAtIs DEF PbSteps, PbAttempts
  <2> QED
    BY <2>1, <2>2 DEF PbOwes, PbPlace, PbBusy, ServedNow
<1> QED
  BY <1>1, <1>2, <1>3, <1>4, <1>5, <1>6, <1>7, <1>8, <1>9, <1>10 DEF Continue

-----------------------------------------------------------------------------
\* The invariant holds of the first state, and every step keeps it.

LEMMA PbStarts == PbInit => PbInv
<1> SUFFICES ASSUME PbInit PROVE PbInv
  OBVIOUS
<1>1. PbTyped
  <2>1. 0 \in 0..PbMaxMedia
    BY PbBounds
  <2>2. pb \in PbType /\ pxy \subseteq 1..PbMaxMedia /\ pbMet \in BOOLEAN
    BY <2>1 DEF PbInit, PbType
  <2>3. fb \in FbType
    BY DEF PbInit, FbType
  <2>4. pbPc \in PbPcType
    BY <2>1 DEF PbInit, PbPcType, PbCallType, PbSteps
  <2> QED
    BY <2>2, <2>3, <2>4 DEF PbTyped
<1>2. PbIds
  BY DEF PbInit, PbIds, PbAttempts
<1>3. PbServes
  BY DEF PbInit, PbServes, PbPlace, PbBusy, ServedNow
<1> QED
  BY <1>1, <1>2, <1>3 DEF PbInv

LEMMA PbPreserves == PbInv /\ [PbNext]_pbVars => PbInv'
<1> SUFFICES ASSUME PbInv, [PbNext]_pbVars PROVE PbInv'
  OBVIOUS
<1>0. PbTyped /\ PbIds
  BY DEF PbInv
<1>1. ASSUME NEW c \in PbCalls, BeginsCall(c), pbMet' = (pbMet \/ PbUnderWay)
      PROVE  PbInv'
  <2>1. PbMoves(c) /\ PbOwes(c) /\ ~PbBusy(c)
    BY <1>0, <1>1, BeginMoves DEF BeginsCall, PbBusy
  <2>2. pbMet' \in BOOLEAN
    BY <1>1
  <2> QED
    BY <1>1, <2>1, <2>2, PbKept
<1>2. ASSUME NEW c \in PbCalls, Continue(c)
      PROVE  PbInv'
  <2>1. PbMoves(c) /\ PbOwes(c) /\ PbBusy(c) /\ UNCHANGED pbMet
    BY <1>0, <1>2, ContinueMoves DEF Continue
  <2>2. pbMet' \in BOOLEAN
    BY <1>0, <2>1 DEF PbTyped
  <2> QED
    BY <2>1, <2>2, PbKept
<1>3. CASE Expire /\ UNCHANGED pbMet
  <2>1. UNCHANGED <<pb, pxy, pbPc, pbMet>> /\ fb' \in FbType
    BY <1>0, <1>3 DEF Expire, PbTyped, FbType
  <2> QED
    BY <2>1 DEF PbInv, PbTyped, PbIds, PbServes, PbPlace, PbBusy, PbUnderWay,
       ServedNow
<1>4. CASE UNCHANGED pbVars
  <2>1. UNCHANGED <<pb, pxy, fb, pbPc, pbMet>>
    BY <1>4 DEF pbVars
  <2> QED
    BY <2>1 DEF PbInv, PbTyped, PbIds, PbServes, PbPlace, PbBusy, PbUnderWay,
       ServedNow
<1> QED
  BY <1>1, <1>2, <1>3, <1>4 DEF PbNext

\* What every step of the calls keeps: the types, the numbering of the attempts,
\* and what each place of a lone call says of the loaded and the served media.
THEOREM PlaybackInvariance == PbSpec => []PbInv
  BY PbStarts, PbPreserves, PTL DEF PbSpec

LEMMA PbTypes == PbInv => PbTypeOK
  BY DEF PbInv, PbTyped, PbTypeOK, PbType, FbType, PbPcType, PbCallType,
     PbSteps

\* The controller, the coordinator and the calls keep their types: an attempt
\* inside an attempt is never deeper than the media that were resolved, and the
\* coordinator tries candidates only.
THEOREM PlaybackTyped == PbSpec => []PbTypeOK
  BY PbTypes, PlaybackInvariance, PTL

\* Where the requests and events came one after another, whatever failed on the
\* way, the proxy serves the medium that is loaded and nothing else
\* (preparePlayback, releasePlaybackProxy, handlePlaybackFailure).
THEOREM OnlyLoadedIsServed == PbSpec => []ServedIsPlayed
<1>1. PbInv => ServedIsPlayed
  BY DEF PbInv, PbServes, ServedIsPlayed, ServedNow
<1> QED
  BY <1>1, PlaybackInvariance, PTL

-----------------------------------------------------------------------------
(* BackupRestore. *)

\* Which step of its stretch is the one for a file.
Turn == [db |-> 1, wal |-> 2, shm |-> 3, trusted |-> 4, cache |-> 5]
InstallTurn == [db |-> 1, trusted |-> 2, cache |-> 3]
UninstallTurn == [cache |-> 1, trusted |-> 3, db |-> 5]
ReturnTurn == [cache |-> 2, trusted |-> 4, db |-> 6, wal |-> 7, shm |-> 8]

Copied == \A f \in Files : TakesPart(f) => copy[f] = before[f]

\* At any time: what was neither moved nor installed is as it was, and only
\* what was moved lies beside.
FilesKept ==
    /\ \A f \in Files :
          /\ before[f] \in {"none", "old"} /\ stage[f] \in {"none", "new"}
          /\ prev[f] \in {"none", "old", "part"}
          /\ f \in moved => before[f] = "old" /\ TakesPart(f)
          /\ f \notin moved => prev[f] = "none"
          /\ f \in installed => /\ f \in {"db", "trusted", "cache"}
                                /\ TakesPart(f)
                                /\ f \in moved \/ before[f] = "none"
          /\ f \notin moved \cup installed => live[f] = before[f]
    /\ ~cached => stage["cache"] = "none"

\* The stretches: how far each has come.
CopyGood ==
    /\ live = before /\ prev = Nothing /\ moved = {} /\ installed = {}
    /\ stage["db"] = "new"
    /\ phase = "copy" =>
          \A f \in Files : /\ copy[f] \in {"none", before[f]}
                           /\ TakesPart(f) /\ Turn[f] < n => copy[f] = before[f]

MoveGood ==
    /\ installed = {} /\ stage["db"] = "new"
    /\ \A f \in Files :
          /\ f \in moved => Turn[f] < n /\ prev[f] = "old"
          /\ TakesPart(f) /\ Turn[f] < n => live[f] = "none"

\* Where the backup's files are: nothing old that takes part is left in place.
Emptied == \A f \in Files : TakesPart(f) /\ f \notin installed => live[f] = "none"
Filled(f) == /\ f \in installed
             /\ live[f] = "new" \/ (f = "cache" /\ live[f] = "empty")

InstallGood ==
    /\ Emptied
    /\ \A f \in moved : prev[f] = "old"
    /\ \A f \in installed : InstallTurn[f] < n /\ Filled(f)
    /\ IF n = 1 THEN stage["db"] = "new" ELSE "db" \in installed
    /\ n > 3 /\ cached => "cache" \in installed

CleanGood ==
    /\ Emptied
    /\ \A f \in installed : Filled(f)
    /\ "db" \in installed
    /\ cached => "cache" \in installed
    /\ \A f \in Files : Turn[f] < n => prev[f] = "none"

\* Unless the old files were being deleted, every one is aside until it is
\* back, and what was installed is gone before that.
RollbackGood ==
    failedIn # "clean" =>
        \A f \in Files :
            /\ f \in moved => IF n > ReturnTurn[f] THEN live[f] = "old"
                              ELSE prev[f] = "old"
            /\ f \in installed \ moved /\ n > UninstallTurn[f] =>
                  live[f] = "none"

\* The new database has no log beside it, and is gone before the logs are back.
NewDbAlone ==
    live["db"] = "new" =>
        /\ "db" \in installed /\ live["wal"] = "none" /\ live["shm"] = "none"
        /\ phase \in {"install", "clean", "rollback", "done", "abandoned",
                      "crashed"}
        /\ phase = "rollback" => n <= 5

RestoreInv ==
    /\ RestoreTypeOK /\ FilesKept /\ NewDbAlone
    /\ phase \in {"copy", "refused"} => CopyGood
    /\ phase \in {"move", "install", "clean", "rollback", "done", "failed",
                  "abandoned"} => Copied
    /\ phase = "crashed" => live = before \/ Copied
    /\ phase = "move" => MoveGood
    /\ phase = "install" => InstallGood
    /\ phase = "clean" => CleanGood
    /\ phase = "rollback" => RollbackGood
    /\ RollbackRestores /\ DoneIsReplaced

-----------------------------------------------------------------------------
LEMMA ScriptLengths ==
  /\ Len(Script["copy"]) = 5 /\ Len(Script["move"]) = 5
  /\ Len(Script["install"]) = 4 /\ Len(Script["clean"]) = 6
  /\ Len(Script["rollback"]) = 9
  /\ DOMAIN Script = {"copy", "move", "install", "clean", "rollback"}
  BY DEF Script

\* What restore() is about to do.
LEMMA CurrentIs ==
  ASSUME RestoreTypeOK, Running
  PROVE  /\ phase \in {"copy", "move", "install", "clean", "rollback"}
         /\ n \in 1..Len(Script[phase]) /\ n \in Nat
         /\ phase = "copy" => /\ n <= 5 /\ Current.do = "copy"
                              /\ Current.file \in Files /\ Turn[Current.file] = n
         /\ phase = "move" => /\ n <= 5 /\ Current.do = "move"
                              /\ Current.file \in Files /\ Turn[Current.file] = n
         /\ phase = "install" =>
               /\ n <= 4
               /\ Current = IF n = 1 THEN Step("install", "db")
                            ELSE IF n = 2 THEN Step("install", "trusted")
                            ELSE IF n = 3 THEN Step("install", "cache")
                            ELSE Step("validate", "db")
         /\ phase = "clean" =>
               /\ n <= 6
               /\ n < 6 => /\ Current.do = "forget"
                           /\ Current.file \in Files /\ Turn[Current.file] = n
               /\ n = 6 => Current = Step("unstage", "db")
         /\ phase = "rollback" =>
               /\ n <= 9
               /\ n \in {1, 3, 5} =>
                     /\ Current.do = "uninstall"
                     /\ Current.file \in {"cache", "trusted", "db"}
                     /\ UninstallTurn[Current.file] = n
               /\ n \in {2, 4, 6, 7, 8} =>
                     /\ Current.do = "return"
                     /\ Current.file \in Files /\ ReturnTurn[Current.file] = n
               /\ n = 9 => Current = Step("unstage", "db")
<1>1. /\ phase \in {"copy", "move", "install", "clean", "rollback"}
      /\ n \in 1..Len(Script[phase]) /\ n \in Nat
  BY ScriptLengths DEF RestoreTypeOK, Running, Ended
<1>2. CASE phase = "copy"
  <2>1. n \in 1..5
    BY <1>1, <1>2, ScriptLengths
  <2>2. n = 1 \/ n = 2 \/ n = 3 \/ n = 4 \/ n = 5
    BY <2>1
  <2> QED
    BY <1>1, <1>2, <2>1, <2>2 DEF Current, Script, Step, Turn, Files
<1>3. CASE phase = "move"
  <2>1. n \in 1..5
    BY <1>1, <1>3, ScriptLengths
  <2>2. n = 1 \/ n = 2 \/ n = 3 \/ n = 4 \/ n = 5
    BY <2>1
  <2> QED
    BY <1>1, <1>3, <2>1, <2>2 DEF Current, Script, Step, Turn, Files
<1>4. CASE phase = "install"
  <2>1. n \in 1..4
    BY <1>1, <1>4, ScriptLengths
  <2>2. n = 1 \/ n = 2 \/ n = 3 \/ n = 4
    BY <2>1
  <2>3. Current = <<Step("install", "db"), Step("install", "trusted"),
                    Step("install", "cache"), Step("validate", "db")>>[n]
    BY <1>4 DEF Current, Script
  <2>4. Current = IF n = 1 THEN Step("install", "db")
                  ELSE IF n = 2 THEN Step("install", "trusted")
                  ELSE IF n = 3 THEN Step("install", "cache")
                  ELSE Step("validate", "db")
    BY <2>2, <2>3
  <2> QED
    BY <1>1, <1>4, <2>1, <2>4
<1>5. CASE phase = "clean"
  <2>1. n \in 1..6
    BY <1>1, <1>5, ScriptLengths
  <2>2. n = 1 \/ n = 2 \/ n = 3 \/ n = 4 \/ n = 5 \/ n = 6
    BY <2>1
  <2> QED
    BY <1>1, <1>5, <2>1, <2>2 DEF Current, Script, Step, Turn, Files
<1>6. CASE phase = "rollback"
  <2>1. n \in 1..9
    BY <1>1, <1>6, ScriptLengths
  <2>2. \/ n = 1 \/ n = 2 \/ n = 3 \/ n = 4 \/ n = 5
        \/ n = 6 \/ n = 7 \/ n = 8 \/ n = 9
    BY <2>1
  <2> QED
    BY <1>1, <1>6, <2>1, <2>2
    DEF Current, Script, Step, UninstallTurn, ReturnTurn, Files
<1> QED
  BY <1>1, <1>2, <1>3, <1>4, <1>5, <1>6

\* The next step, of this stretch or of the next one.
LEMMA Advances ==
  ASSUME RestoreTypeOK, Running, Advance
  PROVE  /\ phase' \in Ended \cup DOMAIN Script
         /\ n' \in 1..(IF phase' \notin Ended THEN Len(Script[phase']) ELSE 1)
         /\ n' \in Nat
         /\ phase = "copy" => IF n < 5 THEN phase' = "copy" /\ n' = n + 1
                              ELSE phase' = "move" /\ n' = 1
         /\ phase = "move" => IF n < 5 THEN phase' = "move" /\ n' = n + 1
                              ELSE phase' = "install" /\ n' = 1
         /\ phase = "install" => IF n < 4 THEN phase' = "install" /\ n' = n + 1
                                 ELSE phase' = "clean" /\ n' = 1
         /\ phase = "clean" => IF n < 6 THEN phase' = "clean" /\ n' = n + 1
                               ELSE phase' = "done" /\ n' = 1
         /\ phase = "rollback" =>
               IF n < 9 THEN phase' = "rollback" /\ n' = n + 1
               ELSE phase' = "failed" /\ n' = 1
<1>1. phase \in {"copy", "move", "install", "clean", "rollback"}
  BY CurrentIs
<1>2. n \in Nat /\ n \in 1..Len(Script[phase])
  BY CurrentIs
<1>3. CASE n < Len(Script[phase])
  <2>1. n' = n + 1 /\ phase' = phase
    BY <1>3 DEF Advance
  <2>2. phase \notin Ended
    BY DEF Running
  <2>3. Len(Script[phase]) \in Nat
    BY <1>1, ScriptLengths
  <2>4. n + 1 \in 1..Len(Script[phase]) /\ n + 1 \in Nat
    BY <1>2, <1>3, <2>3
  <2>5. phase' \in Ended \cup DOMAIN Script
    BY <1>1, <2>1, ScriptLengths
  <2>6. n' \in 1..(IF phase' \notin Ended THEN Len(Script[phase']) ELSE 1)
    BY <2>1, <2>2, <2>4
  <2>7. phase = "copy" => n < 5 /\ phase' = "copy"
    BY <1>3, <2>1, ScriptLengths
  <2>8. phase = "move" => n < 5 /\ phase' = "move"
    BY <1>3, <2>1, ScriptLengths
  <2>9. phase = "install" => n < 4 /\ phase' = "install"
    BY <1>3, <2>1, ScriptLengths
  <2>10. phase = "clean" => n < 6 /\ phase' = "clean"
    BY <1>3, <2>1, ScriptLengths
  <2>11. phase = "rollback" => n < 9 /\ phase' = "rollback"
    BY <1>3, <2>1, ScriptLengths
  <2> QED
    BY <2>1, <2>4, <2>5, <2>6, <2>7, <2>8, <2>9, <2>10, <2>11
<1>4. CASE ~(n < Len(Script[phase]))
  <2>1. n' = 1 /\ phase' = NextPhase[phase]
    BY <1>4 DEF Advance
  <2>2. /\ phase = "copy" => n = 5 /\ phase' = "move"
        /\ phase = "move" => n = 5 /\ phase' = "install"
        /\ phase = "install" => n = 4 /\ phase' = "clean"
        /\ phase = "clean" => n = 6 /\ phase' = "done"
        /\ phase = "rollback" => n = 9 /\ phase' = "failed"
    <3>1. n = Len(Script[phase])
      BY <1>1, <1>2, <1>4, ScriptLengths
    <3> QED
      BY <2>1, <3>1, ScriptLengths DEF NextPhase
  <2>3. phase' \in {"move", "install", "clean", "done", "failed"}
    BY <1>1, <2>2
  <2>4. 1 \in 1..Len(Script["move"]) /\ 1 \in 1..Len(Script["install"])
        /\ 1 \in 1..Len(Script["clean"]) /\ 1 \in 1..1
    BY ScriptLengths
  <2>5. n' \in 1..(IF phase' \notin Ended THEN Len(Script[phase']) ELSE 1)
    BY <2>1, <2>3, <2>4 DEF Ended
  <2> QED
    BY <2>1, <2>2, <2>3, <2>5, ScriptLengths DEF Ended
<1> QED
  BY <1>3, <1>4

LEMMA TypesKept ==
  ASSUME RestoreTypeOK, phase' \in Ended \cup DOMAIN Script,
         n' \in 1..(IF phase' \notin Ended THEN Len(Script[phase']) ELSE 1),
         before' \in [Files -> Content], live' \in [Files -> Content],
         prev' \in [Files -> Content], copy' \in [Files -> Content],
         stage' \in [Files -> Content], cached' \in BOOLEAN,
         moved' \in SUBSET Files, installed' \in SUBSET Files,
         failedIn' \in {"none", "move", "install", "clean"}
  PROVE  RestoreTypeOK'
  BY DEF RestoreTypeOK, Running

\* The steps of restore() keep the invariant.
LEMMA CopiesStep ==
  ASSUME RestoreInv, Copies
  PROVE  RestoreInv'
<1>1. RestoreTypeOK /\ Running /\ Advance /\ Current.do = "copy"
  BY DEF RestoreInv, Copies, Does
<1>2. /\ phase = "copy" /\ n \in Nat /\ n <= 5
      /\ Current.file \in Files /\ Turn[Current.file] = n
  BY <1>1, CurrentIs DEF Step
<1>3. CopyGood /\ FilesKept /\ NewDbAlone
  BY <1>2 DEF RestoreInv
<1>4. /\ IF n < 5 THEN phase' = "copy" /\ n' = n + 1
         ELSE phase' = "move" /\ n' = 1
      /\ UNCHANGED <<before, live, prev, stage, cached, moved, installed,
                     failedIn>>
      /\ copy' = IF TakesPart(Current.file) /\ live[Current.file] # "none"
                 THEN [copy EXCEPT ![Current.file] = live[Current.file]]
                 ELSE copy
  BY <1>1, <1>2, Advances DEF Copies
<1>5. RestoreTypeOK'
  <2>1. copy' \in [Files -> Content]
    BY <1>1, <1>2, <1>4 DEF RestoreTypeOK
  <2> QED
    BY <1>1, <1>4, <2>1, Advances, TypesKept DEF RestoreTypeOK
<1>6. \A f \in Files :
         /\ copy'[f] \in {"none", before[f]}
         /\ TakesPart(f) /\ Turn[f] < n + 1 => copy'[f] = before[f]
  <2> SUFFICES ASSUME NEW f \in Files
               PROVE  /\ copy'[f] \in {"none", before[f]}
                      /\ TakesPart(f) /\ Turn[f] < n + 1 => copy'[f] = before[f]
    OBVIOUS
  <2>1. Turn[f] < n + 1 => f = Current.file \/ Turn[f] < n
    BY <1>2 DEF Turn, Files
  <2>2. /\ copy \in [Files -> Content] /\ live = before /\ copy[f] \in Content
        /\ before[f] \in {"none", "old"}
    BY <1>1, <1>3 DEF RestoreTypeOK, CopyGood, FilesKept
  <2>3. /\ copy[f] \in {"none", before[f]}
        /\ TakesPart(f) /\ Turn[f] < n => copy[f] = before[f]
    BY <1>2, <1>3 DEF CopyGood
  <2>4. CASE f = Current.file
    BY <1>2, <1>4, <2>2, <2>3, <2>4
  <2>5. CASE f # Current.file
    BY <1>2, <1>4, <2>1, <2>2, <2>3, <2>5
  <2> QED
    BY <2>4, <2>5
<1>7. FilesKept' /\ NewDbAlone'
  BY <1>2, <1>3, <1>4 DEF FilesKept, NewDbAlone, TakesPart
<1>8. CASE n < 5
  BY <1>2, <1>3, <1>4, <1>5, <1>6, <1>7, <1>8
  DEF RestoreInv, CopyGood, TakesPart, RollbackRestores, DoneIsReplaced
<1>9. CASE ~(n < 5)
  <2>1. Copied'
    BY <1>2, <1>4, <1>6, <1>9 DEF Copied, TakesPart, Turn, Files
  <2>2. MoveGood'
    BY <1>3, <1>4, <1>9 DEF MoveGood, CopyGood, Turn, Files
  <2> QED
    BY <1>4, <1>5, <1>7, <1>9, <2>1, <2>2
    DEF RestoreInv, RollbackRestores, DoneIsReplaced
<1> QED
  BY <1>8, <1>9

LEMMA MovesStep ==
  ASSUME RestoreInv, Moves
  PROVE  RestoreInv'
<1> DEFINE f == Current.file
           Moving == TakesPart(f) /\ live[f] # "none"
<1>1. RestoreTypeOK /\ Running /\ Advance /\ Current.do = "move"
  BY DEF RestoreInv, Moves, Does
<1>2. phase = "move" /\ n \in Nat /\ n <= 5 /\ f \in Files /\ Turn[f] = n
  BY <1>1, CurrentIs DEF Step
<1>3. FilesKept /\ NewDbAlone /\ Copied /\ MoveGood
  BY <1>2 DEF RestoreInv
<1>4. /\ IF n < 5 THEN phase' = "move" /\ n' = n + 1
         ELSE phase' = "install" /\ n' = 1
      /\ UNCHANGED <<before, copy, stage, cached, installed, failedIn>>
      /\ IF Moving
         THEN /\ live' = [live EXCEPT ![f] = "none"]
              /\ prev' = [prev EXCEPT ![f] = live[f]]
              /\ moved' = moved \cup {f}
         ELSE UNCHANGED <<live, prev, moved>>
  BY <1>1, <1>2, Advances DEF Moves
<1>5. RestoreTypeOK'
  <2>1. /\ live' \in [Files -> Content] /\ prev' \in [Files -> Content]
        /\ moved' \in SUBSET Files
    BY <1>1, <1>2, <1>4 DEF RestoreTypeOK, Content
  <2> QED
    BY <1>1, <1>4, <2>1, Advances, TypesKept DEF RestoreTypeOK
<1>6. f \notin moved /\ live[f] = before[f]
  BY <1>2, <1>3 DEF MoveGood, FilesKept
<1>7. FilesKept'
  BY <1>1, <1>2, <1>3, <1>4, <1>6
  DEF FilesKept, MoveGood, RestoreTypeOK, TakesPart
<1>8. live["db"] # "new" /\ live'["db"] # "new"
  BY <1>1, <1>2, <1>3, <1>4 DEF NewDbAlone, RestoreTypeOK, Files
<1>9. /\ installed' = {} /\ stage'["db"] = "new"
      /\ \A g \in Files :
            /\ g \in moved' => Turn[g] < n + 1 /\ prev'[g] = "old"
            /\ TakesPart(g) /\ Turn[g] < n + 1 => live'[g] = "none"
  <2>1. /\ installed' = {} /\ stage'["db"] = "new"
    BY <1>3, <1>4 DEF MoveGood
  <2>2. ASSUME NEW g \in Files
        PROVE  /\ g \in moved' => Turn[g] < n + 1 /\ prev'[g] = "old"
               /\ TakesPart(g) /\ Turn[g] < n + 1 => live'[g] = "none"
    BY <1>1, <1>2, <1>3, <1>4, <1>6
    DEF MoveGood, FilesKept, RestoreTypeOK, Turn, Files
  <2> QED
    BY <2>1, <2>2
<1>10. Copied' /\ NewDbAlone'
  BY <1>3, <1>4, <1>8 DEF Copied, NewDbAlone, TakesPart
<1>11. CASE n < 5
  BY <1>4, <1>5, <1>7, <1>9, <1>10, <1>11
  DEF RestoreInv, MoveGood, TakesPart, RollbackRestores, DoneIsReplaced
<1>12. CASE ~(n < 5)
  <2>1. \A g \in Files : Turn[g] < n + 1
    BY <1>2, <1>12 DEF Turn, Files
  <2>2. Emptied' /\ \A g \in moved' : prev'[g] = "old"
    BY <1>4, <1>5, <1>9, <2>1 DEF Emptied, TakesPart, RestoreTypeOK
  <2>3. InstallGood'
    BY <1>4, <1>9, <1>12, <2>2 DEF InstallGood
  <2> QED
    BY <1>4, <1>5, <1>7, <1>10, <1>12, <2>3
    DEF RestoreInv, RollbackRestores, DoneIsReplaced
<1> QED
  BY <1>11, <1>12

LEMMA InstallsStep ==
  ASSUME RestoreInv, Installs
  PROVE  RestoreInv'
<1> DEFINE f == Current.file
           Installing == stage[f] # "none" \/ (f = "cache" /\ cached)
<1>1. RestoreTypeOK /\ Running /\ Advance /\ Current.do = "install"
  BY DEF RestoreInv, Installs, Does
<1>2. /\ phase = "install" /\ n \in Nat /\ n \in {1, 2, 3}
      /\ f \in {"db", "trusted", "cache"} /\ InstallTurn[f] = n
  BY <1>1, CurrentIs DEF Step, InstallTurn
<1>3. FilesKept /\ NewDbAlone /\ Copied /\ InstallGood
  BY <1>2 DEF RestoreInv
<1>4. /\ phase' = "install" /\ n' = n + 1
      /\ UNCHANGED <<before, prev, copy, cached, moved, failedIn>>
      /\ IF Installing
         THEN /\ live' = [live EXCEPT ![f] = IF stage[f] = "none" THEN "empty"
                                             ELSE stage[f]]
              /\ stage' = [stage EXCEPT ![f] = "none"]
              /\ installed' = installed \cup {f}
         ELSE UNCHANGED <<live, stage, installed>>
  BY <1>1, <1>2, Advances DEF Installs
<1>5. f \in Files /\ stage[f] \in {"none", "new"}
  BY <1>2, <1>3 DEF Files, FilesKept
<1>6. RestoreTypeOK'
  <2>1. /\ live' \in [Files -> Content] /\ stage' \in [Files -> Content]
        /\ installed' \in SUBSET Files
    BY <1>1, <1>4, <1>5 DEF RestoreTypeOK, Content
  <2> QED
    BY <1>1, <1>4, <2>1, Advances, TypesKept DEF RestoreTypeOK
<1>7. Installing => TakesPart(f) /\ f \notin installed
  BY <1>2, <1>3 DEF TakesPart, FilesKept, InstallGood
<1>8. f \in moved \/ before[f] = "none" \/ ~TakesPart(f)
  BY <1>3, <1>5, <1>7 DEF FilesKept, InstallGood, Emptied
<1>9. FilesKept'
  <2>1. \A g \in Files : /\ stage'[g] \in {stage[g], "none"}
                         /\ g # f => live'[g] = live[g]
                         /\ g # f => (g \in installed' <=> g \in installed)
    BY <1>1, <1>4, <1>5 DEF RestoreTypeOK
  <2>2. f \in installed' => TakesPart(f) /\ (f \in moved \/ before[f] = "none")
    BY <1>3, <1>4, <1>5, <1>7, <1>8 DEF FilesKept
  <2>3. f \notin installed' => live'[f] = live[f] /\ f \notin installed
    BY <1>4
  <2> QED
    BY <1>2, <1>3, <1>4, <2>1, <2>2, <2>3 DEF FilesKept, TakesPart, Files
<1>10. InstallGood'
  <2>1. Emptied'
    BY <1>1, <1>3, <1>4, <1>5 DEF InstallGood, Emptied, RestoreTypeOK, TakesPart
  <2>2. ASSUME NEW g \in installed' PROVE InstallTurn[g] < n + 1 /\ Filled(g)'
    BY <1>1, <1>2, <1>3, <1>4, <1>5, <2>2
    DEF InstallGood, RestoreTypeOK, Filled, InstallTurn, FilesKept
  <2>3. "db" \in installed'
    BY <1>2, <1>3, <1>4 DEF InstallGood, InstallTurn
  <2>4. n + 1 > 3 /\ cached => "cache" \in installed'
    BY <1>2, <1>4 DEF InstallTurn
  <2> QED
    BY <1>2, <1>3, <1>4, <2>1, <2>2, <2>3, <2>4 DEF InstallGood
<1>11. NewDbAlone'
  <2>1. live'["wal"] = "none" /\ live'["shm"] = "none"
    BY <1>9, <1>10 DEF InstallGood, Emptied, FilesKept, TakesPart, Files
  <2> QED
    BY <1>2, <1>4, <1>10, <2>1 DEF NewDbAlone, InstallGood
<1>12. Copied'
  BY <1>3, <1>4 DEF Copied, TakesPart
<1> QED
  BY <1>4, <1>6, <1>9, <1>10, <1>11, <1>12
  DEF RestoreInv, RollbackRestores, DoneIsReplaced

LEMMA ValidatesStep ==
  ASSUME RestoreInv, Validates
  PROVE  RestoreInv'
<1>1. RestoreTypeOK /\ Running /\ Advance /\ Current.do = "validate"
  BY DEF RestoreInv, Validates, Does
<1>2. phase = "install" /\ n = 4
  BY <1>1, CurrentIs DEF Step
<1>3. FilesKept /\ NewDbAlone /\ Copied /\ InstallGood
  BY <1>2 DEF RestoreInv
<1>4. /\ phase' = "clean" /\ n' = 1
      /\ UNCHANGED <<before, live, prev, copy, stage, cached, moved, installed,
                     failedIn>>
  BY <1>1, <1>2, Advances DEF Validates
<1>5. RestoreTypeOK'
  BY <1>1, <1>4, Advances, TypesKept DEF RestoreTypeOK
<1>6. CleanGood'
  BY <1>2, <1>3, <1>4 DEF InstallGood, CleanGood, Emptied, TakesPart, Filled,
     Turn, Files
<1> QED
  BY <1>3, <1>4, <1>5, <1>6 DEF RestoreInv, RollbackRestores, DoneIsReplaced,
     FilesKept, NewDbAlone, Copied, TakesPart

LEMMA CleansStep ==
  ASSUME RestoreInv, Cleans
  PROVE  RestoreInv'
<1> DEFINE f == Current.file
<1>1. RestoreTypeOK /\ Running /\ Advance
  BY DEF RestoreInv, Cleans, Does
<1>2. UNCHANGED <<before, live, copy, cached, moved, installed, failedIn>>
  BY DEF Cleans
<1>3. /\ prev' \in [Files -> Content] /\ stage' \in [Files -> Content]
      /\ \A g \in Files : /\ prev'[g] \in {prev[g], "none"}
                          /\ stage'[g] \in {stage[g], "none"}
  BY <1>1 DEF Cleans, RestoreTypeOK, Nothing, Content
<1>4. RestoreTypeOK'
  BY <1>1, <1>2, <1>3, Advances, TypesKept DEF RestoreTypeOK
<1>5. FilesKept /\ NewDbAlone
  BY DEF RestoreInv
<1>6. FilesKept'
  BY <1>2, <1>3, <1>5 DEF FilesKept, TakesPart, Files
<1>7. CASE Current.do = "forget"
  <2>1. /\ phase = "clean" /\ n \in Nat /\ n <= 5
        /\ f \in Files /\ Turn[f] = n
    BY <1>1, <1>7, CurrentIs DEF Step
  <2>2. phase' = "clean" /\ n' = n + 1
    BY <1>1, <2>1, Advances
  <2>3. /\ prev' = [prev EXCEPT ![f] = "none"] /\ stage' = stage
    BY <1>7 DEF Cleans, Does
  <2>4. Copied /\ CleanGood
    BY <2>1 DEF RestoreInv
  <2>5. ASSUME NEW g \in Files, Turn[g] < n + 1 PROVE prev'[g] = "none"
    <3>1. g = f \/ Turn[g] < n
      BY <2>1, <2>5 DEF Turn, Files
    <3> QED
      BY <1>1, <2>1, <2>3, <2>4, <3>1 DEF CleanGood, RestoreTypeOK
  <2>6. CleanGood'
    BY <1>2, <2>2, <2>4, <2>5 DEF CleanGood, Emptied, TakesPart, Filled
  <2> QED
    BY <1>2, <1>4, <1>5, <1>6, <2>1, <2>2, <2>4, <2>6
    DEF RestoreInv, NewDbAlone, Copied, TakesPart, RollbackRestores,
        DoneIsReplaced
<1>8. CASE Current.do = "unstage"
  <2>1. (phase = "clean" /\ n = 6) \/ (phase = "rollback" /\ n = 9)
    <3>1. phase \in {"clean", "rollback"} /\ n \in Nat /\ n >= 1
      BY <1>1, <1>8, CurrentIs, ScriptLengths DEF Step
    <3>2. phase = "clean" => n = 6
      BY <1>1, <1>8, <3>1, CurrentIs
    <3>3. phase = "rollback" => n <= 9 /\ n \notin {1, 2, 3, 4, 5, 6, 7, 8}
      BY <1>1, <1>8, <3>1, CurrentIs
    <3> QED
      BY <3>1, <3>2, <3>3
  <2>2. prev' = prev /\ stage' = Nothing
    BY <1>8 DEF Cleans, Does
  <2>3. CASE phase = "clean" /\ n = 6
    <3>1. phase' = "done" /\ Copied /\ CleanGood
      BY <1>1, <2>3, Advances DEF RestoreInv
    <3>2. prev' = Nothing
      BY <1>1, <2>2, <2>3, <3>1 DEF CleanGood, Nothing, RestoreTypeOK, Turn, Files
    <3>3. DoneIsReplaced'
      BY <1>2, <1>5, <2>2, <3>1, <3>2
      DEF DoneIsReplaced, CleanGood, Emptied, Filled, FilesKept, TakesPart, Files
    <3> QED
      BY <1>2, <1>4, <1>5, <1>6, <2>3, <3>1, <3>3
      DEF RestoreInv, NewDbAlone, Copied, TakesPart, RollbackRestores
  <2>4. CASE phase = "rollback" /\ n = 9
    <3>1. phase' = "failed" /\ Copied /\ RollbackGood
      BY <1>1, <2>4, Advances DEF RestoreInv
    <3>2. RollbackRestores'
      <4> SUFFICES ASSUME failedIn # "clean" PROVE live = before
        BY <1>2 DEF RollbackRestores
      <4>1. ASSUME NEW g \in Files PROVE live[g] = before[g]
        BY <1>5, <2>4, <3>1
        DEF RollbackGood, FilesKept, ReturnTurn, UninstallTurn, Files
      <4> QED
        BY <1>1, <4>1 DEF RestoreTypeOK
    <3> QED
      BY <1>2, <1>4, <1>5, <1>6, <2>4, <3>1, <3>2
      DEF RestoreInv, NewDbAlone, Copied, TakesPart, DoneIsReplaced
  <2> QED
    BY <2>1, <2>3, <2>4
<1> QED
  BY <1>7, <1>8 DEF Cleans, Does

LEMMA UninstallsStep ==
  ASSUME RestoreInv, Uninstalls
  PROVE  RestoreInv'
<1> DEFINE f == Current.file
<1>1. RestoreTypeOK /\ Running /\ Advance /\ Current.do = "uninstall"
  BY DEF RestoreInv, Uninstalls, Does
<1>2. phase = "rollback" /\ n \in Nat
  BY <1>1, CurrentIs DEF Step
<1>3. /\ n \in {1, 3, 5} /\ f \in {"cache", "trusted", "db"} /\ f \in Files
      /\ UninstallTurn[f] = n
  <2>1. n \in 1..9 /\ n # 9 /\ n \notin {2, 4, 6, 7, 8}
    BY <1>1, <1>2, CurrentIs, ScriptLengths DEF Step
  <2> QED
    BY <1>1, <1>2, <2>1, CurrentIs DEF Files
<1>4. FilesKept /\ NewDbAlone /\ Copied /\ RollbackGood
  BY <1>2 DEF RestoreInv
<1>5. /\ phase' = "rollback" /\ n' = n + 1
      /\ UNCHANGED <<before, prev, copy, stage, cached, moved, installed,
                     failedIn>>
      /\ live' = IF f \in installed THEN [live EXCEPT ![f] = "none"] ELSE live
  BY <1>1, <1>2, <1>3, Advances DEF Uninstalls
<1>6. RestoreTypeOK'
  <2>1. live' \in [Files -> Content]
    BY <1>1, <1>3, <1>5 DEF RestoreTypeOK, Content
  <2> QED
    BY <1>1, <1>5, <2>1, Advances, TypesKept DEF RestoreTypeOK
<1>7. FilesKept'
  BY <1>1, <1>3, <1>4, <1>5 DEF FilesKept, TakesPart, RestoreTypeOK
<1>8. RollbackGood'
  <2> SUFFICES ASSUME failedIn # "clean", NEW g \in Files
               PROVE  /\ g \in moved => IF n + 1 > ReturnTurn[g]
                                        THEN live'[g] = "old"
                                        ELSE prev[g] = "old"
                      /\ g \in installed \ moved /\ n + 1 > UninstallTurn[g] =>
                            live'[g] = "none"
    BY <1>5 DEF RollbackGood
  <2>1. g \in installed => g \in {"db", "trusted", "cache"}
    BY <1>4 DEF FilesKept
  <2>2. CASE g = f
    BY <1>1, <1>2, <1>3, <1>4, <1>5, <2>1, <2>2
    DEF RollbackGood, UninstallTurn, ReturnTurn, RestoreTypeOK
  <2>3. CASE g # f
    <3>1. live'[g] = live[g]
      BY <1>1, <1>3, <1>5, <2>3 DEF RestoreTypeOK
    <3>2. /\ n + 1 > ReturnTurn[g] <=> n > ReturnTurn[g]
          /\ g \in installed =>
                (n + 1 > UninstallTurn[g] <=> n > UninstallTurn[g])
      BY <1>3, <2>1, <2>3 DEF UninstallTurn, ReturnTurn, Files
    <3> QED
      BY <1>4, <3>1, <3>2 DEF RollbackGood
  <2> QED
    BY <2>2, <2>3
<1>9. NewDbAlone'
  <2>1. n = 5 => live'["db"] # "new"
    BY <1>1, <1>3, <1>4, <1>5 DEF NewDbAlone, UninstallTurn, RestoreTypeOK
  <2>2. /\ live'["db"] = "new" => live["db"] = "new"
        /\ f \notin {"wal", "shm"}
    BY <1>1, <1>3, <1>5 DEF RestoreTypeOK, Files
  <2>3. live'["wal"] = live["wal"] /\ live'["shm"] = live["shm"]
    BY <1>1, <1>3, <1>5, <2>2 DEF RestoreTypeOK, Files
  <2> QED
    BY <1>3, <1>4, <1>5, <2>1, <2>2, <2>3 DEF NewDbAlone
<1> QED
  BY <1>4, <1>5, <1>6, <1>7, <1>8, <1>9
  DEF RestoreInv, Copied, TakesPart, RollbackRestores, DoneIsReplaced

LEMMA ReturnsStep ==
  ASSUME RestoreInv, Returns
  PROVE  RestoreInv'
<1> DEFINE f == Current.file
           Returning == f \in moved /\ prev[f] # "none"
<1>1. RestoreTypeOK /\ Running /\ Advance /\ Current.do = "return"
  BY DEF RestoreInv, Returns, Does
<1>2. phase = "rollback" /\ n \in Nat
  BY <1>1, CurrentIs DEF Step
<1>3. n \in {2, 4, 6, 7, 8} /\ f \in Files /\ ReturnTurn[f] = n
  <2>1. n \in 1..9 /\ n # 9 /\ n \notin {1, 3, 5}
    BY <1>1, <1>2, CurrentIs, ScriptLengths DEF Step
  <2> QED
    BY <1>1, <1>2, <2>1, CurrentIs
<1>4. FilesKept /\ NewDbAlone /\ Copied /\ RollbackGood
  BY <1>2 DEF RestoreInv
<1>5. /\ phase' = "rollback" /\ n' = n + 1
      /\ UNCHANGED <<before, copy, stage, cached, moved, installed, failedIn>>
      /\ IF Returning
         THEN /\ live' = [live EXCEPT ![f] = prev[f]]
              /\ prev' = [prev EXCEPT ![f] = "none"]
         ELSE UNCHANGED <<live, prev>>
  BY <1>1, <1>2, <1>3, Advances DEF Returns
<1>6. RestoreTypeOK'
  <2>1. live' \in [Files -> Content] /\ prev' \in [Files -> Content]
    BY <1>1, <1>3, <1>5 DEF RestoreTypeOK, Content
  <2> QED
    BY <1>1, <1>5, <2>1, Advances, TypesKept DEF RestoreTypeOK
<1>7. \A g \in Files : g # f => live'[g] = live[g] /\ prev'[g] = prev[g]
  BY <1>1, <1>3, <1>5 DEF RestoreTypeOK
<1>8. FilesKept'
  <2>1. prev'[f] \in {prev[f], "none"}
    BY <1>1, <1>3, <1>5 DEF RestoreTypeOK
  <2>2. f \notin moved => live'[f] = live[f] /\ prev'[f] = prev[f]
    BY <1>5
  <2> QED
    BY <1>3, <1>4, <1>5, <1>7, <2>1, <2>2 DEF FilesKept, TakesPart
<1>9. RollbackGood'
  <2> SUFFICES ASSUME failedIn # "clean", NEW g \in Files
               PROVE  /\ g \in moved => IF n + 1 > ReturnTurn[g]
                                        THEN live'[g] = "old"
                                        ELSE prev'[g] = "old"
                      /\ g \in installed \ moved /\ n + 1 > UninstallTurn[g] =>
                            live'[g] = "none"
    BY <1>5 DEF RollbackGood
  <2>1. g \in installed => g \in {"db", "trusted", "cache"}
    BY <1>4 DEF FilesKept
  <2>2. g \in installed => (n + 1 > UninstallTurn[g] <=> n > UninstallTurn[g])
    BY <1>3, <2>1 DEF UninstallTurn
  <2>3. CASE g = f
    <3>1. g \in moved => live'[g] = "old" /\ n + 1 > ReturnTurn[g]
      BY <1>1, <1>2, <1>3, <1>4, <1>5, <2>3 DEF RollbackGood, RestoreTypeOK
    <3>2. g \notin moved => live'[g] = live[g]
      BY <1>5, <2>3
    <3> QED
      BY <1>4, <2>2, <3>1, <3>2 DEF RollbackGood
  <2>4. CASE g # f
    <3>1. n + 1 > ReturnTurn[g] <=> n > ReturnTurn[g]
      BY <1>3, <2>4 DEF ReturnTurn, Files
    <3> QED
      BY <1>4, <1>7, <2>2, <2>4, <3>1 DEF RollbackGood
  <2> QED
    BY <2>3, <2>4
<1>10. NewDbAlone'
  <2>1. live'["db"] = "new" => live["db"] = "new"
    BY <1>1, <1>3, <1>4, <1>5 DEF FilesKept, RestoreTypeOK, Files
  <2>2. n <= 5 => f \notin {"db", "wal", "shm"} /\ n + 1 <= 5
    BY <1>3 DEF ReturnTurn
  <2>3. n <= 5 => live'["wal"] = live["wal"] /\ live'["shm"] = live["shm"]
    BY <1>7, <2>2 DEF Files
  <2> QED
    BY <1>2, <1>4, <1>5, <2>1, <2>2, <2>3 DEF NewDbAlone
<1> QED
  BY <1>4, <1>5, <1>6, <1>8, <1>9, <1>10
  DEF RestoreInv, Copied, TakesPart, RollbackRestores, DoneIsReplaced

\* An operation that throws, or the end of the process, keeps it too.
LEMMA ThrowsStep ==
  ASSUME RestoreInv, CopyThrows \/ RestoreThrows \/ RollbackThrows \/ Crash
  PROVE  RestoreInv'
<1>1. RestoreTypeOK /\ FilesKept /\ NewDbAlone
  BY DEF RestoreInv
<1>2. 1 \in 1..1 /\ 1 \in 1..Len(Script["rollback"])
  BY ScriptLengths
<1>3. CASE CopyThrows
  <2>1. RestoreTypeOK'
    BY <1>1, <1>2, <1>3 DEF CopyThrows, RestoreTypeOK, Running, Ended, Nothing,
       Content
  <2> QED
    BY <1>1, <1>3, <2>1
    DEF CopyThrows, RestoreInv, CopyGood, FilesKept, NewDbAlone, TakesPart,
        RollbackRestores, DoneIsReplaced
<1>4. CASE RestoreThrows
  <2>1. phase \in {"move", "install", "clean"} /\ Copied
    BY <1>4 DEF RestoreThrows, RestoreInv
  <2>2. /\ phase' = "rollback" /\ n' = 1 /\ failedIn' = phase
        /\ UNCHANGED <<before, live, copy, stage, cached, moved, installed>>
    BY <1>4 DEF RestoreThrows
  <2>3. /\ prev' \in [Files -> Content]
        /\ \A f \in Files : prev'[f] = prev[f] \/ (prev'[f] = "part" /\ prev[f] # "none")
    BY <1>1, <1>4 DEF RestoreThrows, RestoreTypeOK, Content
  <2>4. phase # "clean" => prev' = prev
    BY <1>1, <1>4, <2>1, CurrentIs DEF RestoreThrows, Step, Running, Ended
  <2>5. RestoreTypeOK'
    BY <1>1, <1>2, <2>1, <2>2, <2>3, ScriptLengths
    DEF RestoreTypeOK, Running, Ended
  <2>6. FilesKept'
    BY <1>1, <2>2, <2>3 DEF FilesKept, TakesPart
  <2>7. RollbackGood'
    <3>1. phase # "clean" => \A f \in moved : prev'[f] = "old"
      BY <1>1, <2>1, <2>4
      DEF RestoreInv, MoveGood, InstallGood, RestoreTypeOK
    <3>2. \A f \in Files : ~(1 > ReturnTurn[f])
      BY DEF ReturnTurn, Files
    <3>3. \A f \in installed : ~(1 > UninstallTurn[f])
      <4>1. \A f \in installed : f \in {"db", "trusted", "cache"}
        BY <1>1 DEF FilesKept, RestoreTypeOK
      <4> QED
        BY <4>1 DEF UninstallTurn
    <3> QED
      BY <2>2, <3>1, <3>2, <3>3 DEF RollbackGood
  <2> QED
    BY <1>1, <2>1, <2>2, <2>5, <2>6, <2>7
    DEF RestoreInv, NewDbAlone, Copied, TakesPart, RollbackRestores,
        DoneIsReplaced
<1>5. CASE RollbackThrows
  <2>1. phase = "rollback" /\ Copied /\ n \in Nat
    BY <1>1, <1>5, CurrentIs DEF RollbackThrows, RestoreInv, Running, Ended
  <2>2. /\ phase' = "abandoned" /\ n' = 1 /\ stage' \in {stage, Nothing}
        /\ UNCHANGED <<before, prev, copy, cached, moved, installed, failedIn>>
    BY <1>5 DEF RollbackThrows
  <2>3. \/ live' = live
        \/ "cache" \in installed /\ live' = [live EXCEPT !["cache"] = "part"]
    BY <1>5 DEF RollbackThrows
  <2>4. RestoreTypeOK'
    BY <1>1, <1>2, <2>2, <2>3
    DEF RestoreTypeOK, Running, Ended, Nothing, Content
  <2>5. FilesKept'
    BY <1>1, <2>2, <2>3 DEF FilesKept, TakesPart, Nothing, RestoreTypeOK, Files
  <2>6. NewDbAlone'
    BY <1>1, <2>2, <2>3 DEF NewDbAlone, RestoreTypeOK, Files
  <2> QED
    BY <2>1, <2>2, <2>4, <2>5, <2>6
    DEF RestoreInv, Copied, TakesPart, RollbackRestores, DoneIsReplaced
<1>6. CASE Crash
  <2>1. /\ phase' = "crashed" /\ n' = 1
        /\ UNCHANGED <<before, live, prev, copy, stage, cached, moved,
                       installed, failedIn>>
    BY <1>6 DEF Crash
  <2>2. phase \in {"copy", "move", "install", "clean", "rollback"}
    BY <1>1, <1>6, CurrentIs DEF Crash
  <2>3. RestoreTypeOK'
    BY <1>1, <1>2, <2>1 DEF RestoreTypeOK, Running, Ended
  <2>4. NewDbAlone'
    BY <1>1, <2>1 DEF NewDbAlone
  <2>5. live = before \/ Copied
    BY <2>2 DEF RestoreInv, CopyGood
  <2> QED
    BY <1>1, <2>1, <2>3, <2>4, <2>5
    DEF RestoreInv, FilesKept, Copied, TakesPart, RollbackRestores,
        DoneIsReplaced
<1> QED
  BY <1>3, <1>4, <1>5, <1>6

LEMMA RestoreStarts == RestoreInit => RestoreInv
<1> SUFFICES ASSUME RestoreInit PROVE RestoreInv
  OBVIOUS
<1>1. PICK trusted \in {"none", "new"}, cache \in {"none", "new"} :
         /\ cache = "new" => cached
         /\ stage = [Nothing EXCEPT !["db"] = "new", !["trusted"] = trusted,
                                    !["cache"] = cache]
  BY DEF RestoreInit
<1>2. /\ stage \in [Files -> {"none", "new"}] /\ stage["db"] = "new"
      /\ ~cached => stage["cache"] = "none"
  BY <1>1 DEF Nothing, Files
<1>3. RestoreTypeOK
  <2>1. n \in 1..Len(Script[phase]) /\ phase = "copy"
    BY ScriptLengths DEF RestoreInit
  <2> QED
    BY <1>2, <2>1, ScriptLengths
    DEF RestoreInit, RestoreTypeOK, Running, Ended, Nothing, Content
<1>4. FilesKept
  BY <1>2 DEF RestoreInit, FilesKept, Nothing
<1>5. CopyGood
  BY <1>2 DEF RestoreInit, CopyGood, Nothing, Turn, Files
<1> QED
  BY <1>3, <1>4, <1>5
  DEF RestoreInit, RestoreInv, NewDbAlone, RollbackRestores, DoneIsReplaced

LEMMA RestorePreserves == RestoreInv /\ [RestoreNext]_restoreVars => RestoreInv'
<1> SUFFICES ASSUME RestoreInv, [RestoreNext]_restoreVars PROVE RestoreInv'
  OBVIOUS
<1>1. CASE UNCHANGED restoreVars
  BY <1>1 DEF restoreVars, RestoreInv, RestoreTypeOK, Running, FilesKept,
     NewDbAlone, CopyGood, Copied, MoveGood, InstallGood, CleanGood, Emptied,
     Filled, RollbackGood, RollbackRestores, DoneIsReplaced, TakesPart
<1> QED
  BY <1>1, CopiesStep, MovesStep, InstallsStep, ValidatesStep, CleansStep,
     UninstallsStep, ReturnsStep, ThrowsStep DEF RestoreNext

\* What every operation of restore() keeps, and every failure of one.
THEOREM RestoreInvariance == RestoreSpec => []RestoreInv
  BY RestoreStarts, RestorePreserves, PTL DEF RestoreSpec

\* Whatever fails and wherever the process dies, the old files are on the disk:
\* nothing is touched before the protective copy is complete
\* (BackupRestoreService.restore, createPreRestoreBackup).
THEOREM OldIsNeverLost == RestoreSpec => []OldRecoverable
<1>1. RestoreInv => OldRecoverable
  <2> SUFFICES ASSUME RestoreInv, NEW f \in Files, before[f] = "old"
               PROVE  "old" \in {live[f], prev[f], copy[f]}
    BY DEF OldRecoverable
  <2>1. TakesPart(f) \/ f \notin moved \cup installed
    BY DEF RestoreInv, FilesKept
  <2>2. live = before \/ Copied
    BY ScriptLengths DEF RestoreInv, RestoreTypeOK, Ended, CopyGood
  <2> QED
    BY <2>1, <2>2 DEF RestoreInv, FilesKept, Copied
<1> QED
  BY <1>1, RestoreInvariance, PTL

\* The database of the backup is never beside the log of the old one, in the
\* rollback as well (restore, moveIfExists, the order of its catch).
THEOREM LogsStayWithTheirDb == RestoreSpec => []NoForeignWal
<1>1. RestoreInv => NoForeignWal
  BY DEF RestoreInv, NewDbAlone, NoForeignWal
<1> QED
  BY <1>1, RestoreInvariance, PTL

\* A restore is all of it or, where its rollback succeeds and deleting had not
\* begun, nothing (restore and its catch).
THEOREM RestoreAllOrNothing == RestoreSpec => []RestoreIsAtomic
<1>1. RestoreInv => RestoreIsAtomic
  BY DEF RestoreInv, RestoreIsAtomic
<1> QED
  BY <1>1, RestoreInvariance, PTL

-----------------------------------------------------------------------------
(* PlaybackProxy. *)

\* server_start is held by who binds and publishes, and by nobody else.
OneBinds ==
    \A c \in PxStarts :
        pxStart[c] \in {"binding", "publishing"} <=> px.guard = c

\* A stream whose session was taken from the map is told, or will be by the
\* close that took it.
Told(t) == t \in px.cancelled
           \/ \E k \in PxCloses : /\ pxClose[k].at = "removed"
                                  /\ pxClose[k].token = t
StreamsAreTold ==
    \A s \in PxConns :
        pxConn[s].at = "streaming" /\ pxConn[s].token \notin px.live =>
            Told(pxConn[s].token)

\* Every session that began is in the map or told; only a start that has its
\* answer gave an address, and a connection is to one of those.
PxInv ==
    /\ PxTypeOK /\ OneBinds
    /\ \A t \in PxStarts : pxStart[t] # "idle" => t \in px.live \/ Told(t)
    /\ \A t \in PxStarts : pxStart[t] = "idle" => px.given[t] = "none"
    /\ \A t \in PxStarts : t \in px.live => pxStart[t] # "idle"
    /\ \A k \in PxCloses : pxClose[k].at = "removed" => pxClose[k].token \in PxStarts
    /\ \A s \in PxConns : pxConn[s].at # "idle" =>
          pxConn[s].token \in PxStarts /\ pxStart[pxConn[s].token] # "idle"

LEMMA ProxyStarts == PxInit => PxInv
  BY PxNames DEF PxInit, PxInv, PxTypeOK, Token, OneBinds, Told

PxState == [sid : [PxStarts -> PxPlayers \cup {"none"}],
            live : SUBSET PxStarts, cancelled : SUBSET PxStarts,
            given : [PxStarts -> Token], guard : Token, url : Token,
            abort : Token, bound : SUBSET PxStarts]

\* A step of a start or of a close: what it makes of the proxy.
LEMMA PxKeeps ==
  ASSUME PxInv, px' \in PxState,
         pxStart' \in [PxStarts -> {"idle", "registered", "binding",
                                    "publishing", "ready", "failed"}],
         pxClose' \in [PxCloses ->
            [at : {"idle", "removed", "stopping", "clearing", "done"},
             token : Token, last : BOOLEAN]],
         \A k \in PxCloses :
            pxClose'[k].at = "removed" => pxClose'[k].token \in PxStarts,
         pxConn' = pxConn,
         \A c \in PxStarts :
            /\ pxStart'[c] \in {"binding", "publishing"} <=> px'.guard = c
            /\ pxStart'[c] = "idle" =>
                  /\ pxStart[c] = "idle" /\ c \notin px'.live
                  /\ px'.given[c] = px.given[c]
            /\ c \in px.live => c \in px'.live \/ Told(c)'
            /\ pxStart[c] = "idle" /\ pxStart'[c] # "idle" => c \in px'.live
            /\ Told(c) => Told(c)'
  PROVE  PxInv'
<1>1. PxTypeOK'
  BY DEF PxInv, PxTypeOK, PxState
<1>2. OneBinds'
  BY DEF OneBinds
<1>3. \A t \in PxStarts :
         /\ pxStart'[t] # "idle" => t \in px'.live \/ Told(t)'
         /\ pxStart'[t] = "idle" => px'.given[t] = "none" /\ t \notin px'.live
  BY DEF PxInv
<1>4. \A s \in PxConns : pxConn'[s].at # "idle" =>
         pxConn'[s].token \in PxStarts /\ pxStart'[pxConn'[s].token] # "idle"
  BY DEF PxInv
<1> QED
  BY <1>1, <1>2, <1>3, <1>4 DEF PxInv

LEMMA PxPreserves == PxInv /\ [PxNext]_pxVars => PxInv'
<1> SUFFICES ASSUME PxInv, [PxNext]_pxVars PROVE PxInv'
  OBVIOUS
<1> USE PxNames
<1>0. /\ px \in PxState
      /\ pxStart \in [PxStarts -> {"idle", "registered", "binding",
                                   "publishing", "ready", "failed"}]
      /\ pxClose \in [PxCloses ->
            [at : {"idle", "removed", "stopping", "clearing", "done"},
             token : Token, last : BOOLEAN]]
      /\ \A c \in PxStarts :
            /\ pxStart[c] \in {"binding", "publishing"} <=> px.guard = c
            /\ c \in px.live => pxStart[c] # "idle"
      /\ \A k \in PxCloses :
            pxClose[k].at = "removed" => pxClose[k].token \in PxStarts
  BY DEF PxInv, PxTypeOK, PxState, OneBinds
<1>1. ASSUME NEW c \in PxStarts, NEW p \in PxPlayers, Registers(c, p)
      PROVE  PxInv'
  <2>1. px' = [px EXCEPT !.sid[c] = p, !.live = @ \cup {c}]
    BY <1>1 DEF Registers
  <2>2. /\ px'.live = px.live \cup {c} /\ px'.guard = px.guard
        /\ px'.given = px.given /\ px'.cancelled = px.cancelled
    BY <1>0, <2>1 DEF PxState
  <2>3. px' \in PxState
    BY <1>0, <2>1 DEF PxState
  <2> QED
    BY <1>0, <1>1, <2>2, <2>3, PxKeeps DEF Registers, Told
<1>2. ASSUME NEW c \in PxStarts, EntersServer(c) PROVE PxInv'
  <2>1. CASE px.url # "none"
    <3>1. /\ px' = [px EXCEPT !.given[c] = px.url]
          /\ pxStart' = [pxStart EXCEPT ![c] = "ready"]
      BY <1>2, <2>1 DEF EntersServer
    <3>2. /\ px'.live = px.live /\ px'.guard = px.guard
          /\ px'.given = [px.given EXCEPT ![c] = px.url]
          /\ px'.cancelled = px.cancelled
      BY <1>0, <3>1 DEF PxState
    <3>3. px' \in PxState
      BY <1>0, <3>1 DEF PxState
    <3>4. px.given \in [PxStarts -> Token]
      BY <1>0 DEF PxState
    <3> QED
      BY <1>0, <1>2, <3>1, <3>2, <3>3, <3>4, PxKeeps DEF EntersServer, Told
  <2>2. CASE px.url = "none"
    <3>1. /\ px' = [px EXCEPT !.guard = c]
          /\ pxStart' = [pxStart EXCEPT ![c] = "binding"]
      BY <1>2, <2>2 DEF EntersServer
    <3>2. /\ px'.live = px.live /\ px'.guard = c
          /\ px'.given = px.given /\ px'.cancelled = px.cancelled
      BY <1>0, <3>1 DEF PxState
    <3>3. px' \in PxState
      BY <1>0, <3>1 DEF PxState, Token
    <3> QED
      BY <1>0, <1>2, <3>1, <3>2, <3>3, PxKeeps DEF EntersServer, Told
  <2> QED
    BY <2>1, <2>2
<1>3. ASSUME NEW c \in PxStarts, Binds(c) PROVE PxInv'
  <2>1. /\ px'.live = px.live /\ px'.given = px.given
        /\ px'.cancelled = px.cancelled
        /\ \/ px'.guard = px.guard /\ pxStart' = [pxStart EXCEPT ![c] = "publishing"]
           \/ px'.guard = "none" /\ pxStart' = [pxStart EXCEPT ![c] = "failed"]
    BY <1>0, <1>3 DEF Binds, PxState
  <2>2. px' \in PxState
    <3>1. CASE px' = [px EXCEPT !.url = c, !.bound = @ \cup {c}]
      BY <1>0, <3>1 DEF PxState, Token
    <3>2. CASE px' = [px EXCEPT !.guard = "none"]
      BY <1>0, <3>2 DEF PxState, Token
    <3> QED
      BY <1>3, <3>1, <3>2 DEF Binds
  <2> QED
    BY <1>0, <1>3, <2>1, <2>2, PxKeeps DEF Binds, Told
<1>4. ASSUME NEW c \in PxStarts, Publishes(c) PROVE PxInv'
  <2>1. px' = [px EXCEPT !.abort = c, !.guard = "none", !.given[c] = c]
    BY <1>4 DEF Publishes
  <2>2. /\ px'.live = px.live /\ px'.guard = "none"
        /\ px'.given = [px.given EXCEPT ![c] = c]
        /\ px'.cancelled = px.cancelled
    BY <1>0, <2>1 DEF PxState
  <2>3. px' \in PxState
    BY <1>0, <2>1 DEF PxState, Token
  <2>4. px.given \in [PxStarts -> Token]
    BY <1>0 DEF PxState
  <2> QED
    BY <1>0, <1>4, <2>2, <2>3, <2>4, PxKeeps DEF Publishes, Told
<1>5. ASSUME NEW k \in PxCloses, NEW t \in PxStarts, Removes(k, t)
      PROVE  PxInv'
  <2>1. px' = [px EXCEPT !.live = @ \ {t}]
    BY <1>5 DEF Removes
  <2>2. /\ px'.live = px.live \ {t} /\ px'.guard = px.guard
        /\ px'.given = px.given /\ px'.cancelled = px.cancelled
    BY <1>0, <2>1 DEF PxState
  <2>3. px' \in PxState
    BY <1>0, <2>1 DEF PxState
  <2>4. pxClose' \in [PxCloses ->
            [at : {"idle", "removed", "stopping", "clearing", "done"},
             token : Token, last : BOOLEAN]]
    BY <1>0, <1>5 DEF Removes, Token
  <2>5. /\ pxClose'[k].at = "removed" /\ pxClose'[k].token = t
        /\ pxClose[k].at = "idle"
        /\ \A l \in PxCloses : l # k => pxClose'[l] = pxClose[l]
    BY <1>0, <1>5 DEF Removes
  <2>6. \A c \in PxStarts : Told(c) => Told(c)'
    BY <2>2, <2>5 DEF Told
  <2>7. Told(t)'
    BY <2>5 DEF Told
  <2>8. pxStart' = pxStart /\ pxConn' = pxConn
    BY <1>5 DEF Removes
  <2>9. \A l \in PxCloses :
            pxClose'[l].at = "removed" => pxClose'[l].token \in PxStarts
    BY <1>0, <2>5
  <2> QED
    BY <1>0, <2>2, <2>3, <2>4, <2>6, <2>7, <2>8, <2>9, PxKeeps
<1>6. ASSUME NEW k \in PxCloses, Cancels(k) PROVE PxInv'
  <2>1. px' = [px EXCEPT !.cancelled = px.cancelled \cup {pxClose[k].token}]
    BY <1>6 DEF Cancels, CancelledWith
  <2>2. /\ px'.live = px.live /\ px'.guard = px.guard /\ px'.given = px.given
        /\ px'.cancelled = px.cancelled \cup {pxClose[k].token}
    BY <1>0, <2>1 DEF PxState
  <2>3. pxClose[k].token \in PxStarts
    BY <1>0, <1>6 DEF Cancels
  <2>4. px' \in PxState
    BY <1>0, <2>1, <2>3 DEF PxState
  <2>5. pxClose' \in [PxCloses ->
            [at : {"idle", "removed", "stopping", "clearing", "done"},
             token : Token, last : BOOLEAN]]
    BY <1>0, <1>6 DEF Cancels
  <2>6. \A c \in PxStarts : Told(c) => Told(c)'
    BY <1>0, <1>6, <2>2 DEF Told, Cancels
  <2>7. pxStart' = pxStart /\ pxConn' = pxConn
    BY <1>6 DEF Cancels
  <2>8. \A l \in PxCloses :
            pxClose'[l].at = "removed" => pxClose'[l].token \in PxStarts
    BY <1>0, <1>6 DEF Cancels
  <2> QED
    BY <1>0, <2>2, <2>4, <2>5, <2>6, <2>7, <2>8, PxKeeps
<1>7. ASSUME NEW k \in PxCloses, StopsListener(k) \/ ClearsUrl(k)
      PROVE  PxInv'
  <2>1. /\ px'.live = px.live /\ px'.guard = px.guard /\ px'.given = px.given
        /\ px'.cancelled = px.cancelled
    BY <1>0, <1>7 DEF StopsListener, ClearsUrl, PxState
  <2>2. px' \in PxState
    <3>1. CASE px' = [px EXCEPT !.bound = @ \ {px.abort}, !.abort = "none"]
      BY <1>0, <3>1 DEF PxState, Token
    <3>2. CASE px' = [px EXCEPT !.url = "none"]
      BY <1>0, <3>2 DEF PxState, Token
    <3> QED
      BY <1>7, <3>1, <3>2 DEF StopsListener, ClearsUrl
  <2>3. pxClose' \in [PxCloses ->
            [at : {"idle", "removed", "stopping", "clearing", "done"},
             token : Token, last : BOOLEAN]]
    BY <1>0, <1>7 DEF StopsListener, ClearsUrl
  <2>4. \A c \in PxStarts : Told(c) => Told(c)'
    BY <1>0, <1>7, <2>1 DEF Told, StopsListener, ClearsUrl
  <2>5. pxStart' = pxStart /\ pxConn' = pxConn
    BY <1>7 DEF StopsListener, ClearsUrl
  <2>6. \A l \in PxCloses :
            pxClose'[l].at = "removed" => pxClose'[l].token \in PxStarts
    BY <1>0, <1>7 DEF StopsListener, ClearsUrl
  <2> QED
    BY <1>0, <2>1, <2>2, <2>3, <2>4, <2>5, <2>6, PxKeeps
<1>8. ASSUME NEW s \in PxConns, NEW t \in PxStarts, Connects(s, t)
      PROVE  PxInv'
  BY <1>8 DEF Connects, PxInv, PxTypeOK, Token, OneBinds, Told
<1>9. ASSUME NEW s \in PxConns, ConnSteps(s) \/ StreamEnds(s) PROVE PxInv'
  <2>1. PICK from \in {"accepted", "found", "streaming"},
             to \in {"found", "streaming", "ended"} : Goes(s, from, to)
    BY <1>9 DEF ConnSteps, LooksUp, Subscribes, IsCut, StreamEnds
  <2> QED
    BY <2>1 DEF Goes, PxInv, PxTypeOK, OneBinds, Told
<1>10. CASE UNCHANGED pxVars
  BY <1>10 DEF pxVars, PxInv, PxTypeOK, OneBinds, Told
<1> QED
  BY <1>1, <1>2, <1>3, <1>4, <1>5, <1>6, <1>7, <1>8, <1>9, <1>10
  DEF PxNext, StartSteps, CloseSteps

\* What the calls and the connections keep, on however many threads they are.
THEOREM ProxyInvariance == PxSpec => []PxInv
  BY ProxyStarts, PxPreserves, PTL DEF PxSpec

\* No two starts bind a listener at a time (ensure_server, server_start).
THEOREM OneListenerIsBound == PxSpec => []OneBinds
<1>1. PxInv => OneBinds
  BY DEF PxInv
<1> QED
  BY <1>1, ProxyInvariance, PTL

\* Wherever the close of a session falls, the stream that goes on after it has
\* been cancelled, or is about to be (close, serve_connection, wait_for).
THEOREM StreamsHearOfClose == PxSpec => []StreamsAreTold
<1>1. PxInv => StreamsAreTold
  BY DEF PxInv, StreamsAreTold, Told
<1> QED
  BY <1>1, ProxyInvariance, PTL

-----------------------------------------------------------------------------
(* The parts together. *)

\* What every step of any part keeps: the inductive invariants of all of them
\* (IInv is that of the sidecar).
SettlesInv == IInv /\ PbInv /\ SearchInv /\ RestoreInv /\ PxInv

LEMMA SettlesStarts == SettlesInit => SettlesInv
  BY InitIInv, PbStarts, SearchStarts, RestoreStarts, ProxyStarts
  DEF SettlesInit, SettlesInv

\* One part moves, and the others stay as they are.
LEMMA SettlesPreserves ==
  SettlesInv /\ [SettlesNext]_<<scVars, pbVars, searchVars, restoreVars, pxVars,
                                lane>>
  => SettlesInv'
<1> SUFFICES ASSUME SettlesInv,
                    [SettlesNext]_<<scVars, pbVars, searchVars, restoreVars,
                                    pxVars, lane>>
             PROVE  SettlesInv'
  OBVIOUS
<1>1. /\ [ScNext]_scVars /\ [PbNext]_pbVars /\ [SearchNext]_searchVars
      /\ [RestoreNext]_restoreVars /\ [PxNext]_pxVars
  BY DEF SettlesNext, SidecarMoves, PlaybackMoves, SearchMoves, RestoreMoves,
         ProxyMoves
<1> QED
  BY <1>1, StepIInv, PbPreserves, SearchInvStep, RestorePreserves,
     PxPreserves DEF SettlesInv

\* What the parts are proved to keep each by itself they keep together.
THEOREM SettlesInvariance == SettlesSpec => []SettlesInv
  BY SettlesStarts, SettlesPreserves, PTL DEF SettlesSpec

\* Every variable of these parts keeps its type, for any numbers of requests,
\* media, candidates, sources, starts and connections.
THEOREM PartsTyped == SettlesSpec => []PartsTypeOK
<1>1. /\ IInv => ScTypeOK
      /\ SearchInv => SearchTypeOK
      /\ RestoreInv => RestoreTypeOK
      /\ PxInv => PxTypeOK
  BY DEF IInv, SearchInv, RestoreInv, PxInv
<1>2. SettlesInv => PartsTypeOK
  BY <1>1, PbTypes DEF SettlesInv, PartsTypeOK
<1> QED
  BY <1>2, SettlesInvariance, PTL
=============================================================================
