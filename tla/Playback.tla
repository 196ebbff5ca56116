------------------------------ MODULE Playback ------------------------------
(***************************************************************************)
(* Playing an episode: DesktopSpiderUiController (src/desktop/             *)
(* spider-ui.ts), the EmbeddedPlaybackController it loads (playback.ts),   *)
(* the sessions of PlaybackProxyServer through which every medium is       *)
(* served, and PlaybackFallbackCoordinator, which picks the next line when *)
(* an attempt or a running medium fails (src/health/playback-health.ts).   *)
(*                                                                         *)
(* A call is a request of the window, or an event of the media element.    *)
(* Every one awaits, and nothing keeps two of them apart.                  *)
(***************************************************************************)
EXTENDS Naturals, FiniteSets

CONSTANTS
    PbCalls,
    PbCandidates,   \* of the coordinator: retry, parse again, other lines
    PbMaxAttempts,
    PbMaxMedia      \* bound on the media that are ever resolved

ASSUME PbBounds == PbMaxAttempts \in Nat \ {0} /\ PbMaxMedia \in Nat \ {0}

VARIABLES
    pb,    \* the controller and its player
    pxy,   \* the sessions of the proxy, by medium
    fb,    \* the coordinator
    pbPc,  \* the calls
    pbMet  \* history: a call has begun while another was under way

pbVars == <<pb, pxy, fb, pbPc, pbMet>>

(* A medium is the number of its playback session, 0 is none.  player,     *)
(* source and direct are the player's; session is playbackSession, proxy   *)
(* is proxySession, request says that there is a currentPlaybackRequest,   *)
(* last is the request of the user that came last.                         *)
PbInit ==
    /\ pb = [player |-> "idle", source |-> 0, direct |-> FALSE, session |-> 0,
             proxy |-> 0, request |-> FALSE, closed |-> FALSE, media |-> 0,
             last |-> "none"]
    /\ pxy = {}
    /\ fb \in [mode : {"prompt", "auto"}, status : {"idle"}, tried : {{}},
               expired : {FALSE}]
    /\ pbPc = [c \in PbCalls |-> [at |-> "idle", id |-> 0, depth |-> 0]]
    /\ pbMet = FALSE

PbAt(c, at) == [pbPc EXCEPT ![c].at = at]
PbUnderWay == \E c \in PbCalls : pbPc[c].at \notin {"idle", "done"}

-----------------------------------------------------------------------------
(* PlaybackFallbackCoordinator, as functions of its state f.               *)

FbTried(f) == Cardinality(f.tried)

\* peekNext finds one.
FbHasNext(f) == ~f.expired /\ PbCandidates \ f.tried # {}

PbOutcome(f, attempt) == [fb |-> f, attempt |-> attempt]
FbStop(f) == PbOutcome([f EXCEPT !.status = "stopped"], FALSE)

\* A bug: what was tried is not kept.
MutTakeNext(f) ==
    IF FbHasNext(f) THEN PbOutcome([f EXCEPT !.status = "trying"], TRUE) ELSE FbStop(f)

TakeNext(f) ==
    IF FbHasNext(f) /\ FbTried(f) < PbMaxAttempts
    THEN PbOutcome([f EXCEPT !.status = "trying",
                           !.tried = @ \cup {CHOOSE c \in PbCandidates : c \notin @}],
                 TRUE)
    ELSE FbStop(f)

Trigger(f) ==
    IF f.mode = "off" THEN PbOutcome([f EXCEPT !.status = "disabled"], FALSE)
    ELSE IF f.status \in {"cancelled", "stopped", "recovered"} THEN PbOutcome(f, FALSE)
    ELSE IF f.mode = "auto" THEN TakeNext(f)
    ELSE IF FbHasNext(f) THEN PbOutcome([f EXCEPT !.status = "prompt"], FALSE)
    ELSE FbStop(f)

FbCancelled == [fb EXCEPT !.status = "cancelled"]

\* begin, of playPlayer.
FbBegun == [fb EXCEPT !.status = IF fb.mode = "off" THEN "disabled" ELSE "idle",
                      !.tried = {}, !.expired = FALSE]

\* Failures that auto mode does not retry leave the coordinator alone.
Triggered == IF fb.mode = "auto" THEN {Trigger(fb), PbOutcome(fb, FALSE)}
             ELSE {Trigger(fb)}

-----------------------------------------------------------------------------
(* The player and the proxy. *)

Stopped(p) == [p EXCEPT !.player = "stopped", !.source = 0]
Loaded(p, id, direct) ==
    [p EXCEPT !.player = "active", !.source = id, !.direct = direct]

\* A bug: the server goes on, with the sessions it has.
MutReleaseProxy(p) == pb' = [p EXCEPT !.proxy = 0] /\ UNCHANGED pxy

\* releasePlaybackProxy up to its await: its session, and the server with all
\* sessions it has.
ReleaseProxy(p) == pb' = [p EXCEPT !.proxy = 0] /\ pxy' = {}

\* createSession starts the server again where it was closed.
Served(id) == pxy' = pxy \cup {id}

-----------------------------------------------------------------------------
(* runPlayerAttempt. *)

\* Up to the await of playerContent: the old player is stopped at once.
StartAttempt(c, depth, f, p) ==
    /\ pb.media < PbMaxMedia
    /\ fb' = f
    /\ pb' = [Stopped(p) EXCEPT !.media = @ + 1, !.session = 0, !.request = TRUE]
    /\ pbPc' = [pbPc EXCEPT ![c] = [at |-> "content", id |-> pb.media + 1,
                                    depth |-> depth]]

\* The attempt throws: the next candidate, inside this attempt, or the release
\* of what it has.
Fail(c, p) ==
    \E next \in Triggered :
        \/ /\ next.attempt
           /\ StartAttempt(c, pbPc[c].depth + 1, next.fb, p)
           /\ UNCHANGED pxy
        \/ /\ ~next.attempt
           /\ fb' = next.fb
           /\ ReleaseProxy(p)
           /\ pbPc' = PbAt(c, "failing")

\* A bug: the outermost attempt looks for one around it.
MutUnwind(c) ==
    /\ pbPc[c].at = "failing"
    /\ ReleaseProxy([pb EXCEPT !.player = "error", !.session = 0])
    /\ pbPc' = [pbPc EXCEPT ![c].depth = @ - 1]
    /\ UNCHANGED fb

\* After the release: the player shows the error; the attempt around this one
\* finds it and fails too.
Unwind(c) ==
    LET p == [pb EXCEPT !.player = "error", !.session = 0]
    IN  /\ pbPc[c].at = "failing"
        /\ \/ /\ pbPc[c].depth = 0
              /\ pb' = p /\ pbPc' = PbAt(c, "done")
              /\ UNCHANGED pxy
           \/ /\ pbPc[c].depth > 0
              /\ ReleaseProxy(p)
              /\ pbPc' = [pbPc EXCEPT ![c].depth = @ - 1]
        /\ UNCHANGED fb

\* The attempt returns with the controller in state p: those around it succeed
\* if something is loaded.
Succeed(c, p) ==
    /\ fb' = IF p.player # "error" /\ fb.status = "trying"
             THEN [fb EXCEPT !.status = "recovered"] ELSE fb
    /\ \/ /\ pbPc[c].depth = 0 \/ (p.source # 0 /\ p.player # "error")
          /\ pb' = p /\ pbPc' = PbAt(c, "done")
          /\ UNCHANGED pxy
       \/ /\ pbPc[c].depth > 0 /\ ~(p.source # 0 /\ p.player # "error")
          /\ ReleaseProxy(p)
          /\ pbPc' = [pbPc EXCEPT ![c].depth = @ - 1, ![c].at = "failing"]

\* playerContent answers: an error, or a medium to prepare, which begins with
\* the release of the old one.
PlayerContent(c) ==
    /\ pbPc[c].at = "content"
    /\ \/ Fail(c, pb)
       \/ ~pb.closed /\ ReleaseProxy(pb) /\ pbPc' = PbAt(c, "preparing") /\ UNCHANGED fb

\* preparePlayback: the parser, the probe, the session of the proxy.
Prepared(c) ==
    /\ pbPc[c].at = "preparing"
    /\ \/ Fail(c, pb)
       \/ /\ Served(pbPc[c].id)
          /\ pb' = [pb EXCEPT !.proxy = pbPc[c].id]
          /\ pbPc' = PbAt(c, "proxied")
          /\ UNCHANGED fb

\* The subtitles are there too: load; the danmaku may have to be awaited before
\* the playback session is set.
Load(c) ==
    LET p == Loaded(pb, pbPc[c].id, FALSE)
    IN  /\ pbPc[c].at = "proxied"
        /\ \/ Fail(c, pb)
           \/ Fail(c, [pb EXCEPT !.player = "error", !.source = 0])
           \/ Succeed(c, [p EXCEPT !.session = pbPc[c].id])
           \/ pb' = p /\ pbPc' = PbAt(c, "danmaku") /\ UNCHANGED <<pxy, fb>>

DanmakuLoaded(c) ==
    /\ pbPc[c].at = "danmaku"
    /\ Succeed(c, [pb EXCEPT !.session = pbPc[c].id])

-----------------------------------------------------------------------------
(* The requests of the window. *)

Asked(request) == [pb EXCEPT !.last = request]

\* player and playEpisode.
Play(c) == StartAttempt(c, 0, FbBegun, Asked("play")) /\ UNCHANGED pxy

\* approveFallback.
Approve(c) ==
    /\ fb.status = "prompt"
    /\ LET next == TakeNext(fb)
       IN  \/ /\ next.attempt
              /\ StartAttempt(c, 0, next.fb, Asked("play")) /\ UNCHANGED pxy
           \/ /\ ~next.attempt
              /\ fb' = next.fb /\ pbPc' = PbAt(c, "done")
              /\ UNCHANGED <<pb, pxy>>

\* cancelFallback and setFallbackMode.
Choose(c) ==
    /\ fb' \in {FbCancelled} \cup
               {[fb EXCEPT !.mode = mode,
                           !.status = IF mode = "off" THEN "disabled"
                                      ELSE IF @ = "disabled" THEN "idle" ELSE @] :
                 mode \in {"off", "prompt", "auto"}}
    /\ pbPc' = PbAt(c, "done")
    /\ UNCHANGED <<pb, pxy>>

\* stopPlayer, which playLocalMedia and playPushUrl begin with.
Stop(c, then) ==
    /\ fb' = FbCancelled
    /\ ReleaseProxy(Stopped(Asked(IF then = "done" THEN "stop" ELSE "play")))
    /\ pbPc' = PbAt(c, [done |-> "stopping", local |-> "toLocal",
                        push |-> "toPush"][then])

StopEnds(c) ==
    /\ pbPc[c].at = "stopping"
    /\ pb' = [pb EXCEPT !.session = 0]
    /\ pbPc' = PbAt(c, "done")
    /\ UNCHANGED <<pxy, fb>>

\* playLocalMedia goes on: the file is served by the window's own server.  The
\* player loads it, or refuses it.
LocalLoads(c) ==
    LET p == [pb EXCEPT !.session = 0, !.request = FALSE]
    IN  /\ pbPc[c].at = "toLocal"
        /\ fb' = FbCancelled
        /\ \/ pb' = [p EXCEPT !.player = "error", !.source = 0]
           \/ /\ pb.media < PbMaxMedia
              /\ pb' = [Loaded(p, pb.media + 1, TRUE) EXCEPT
                            !.session = pb.media + 1, !.media = @ + 1]
        /\ pbPc' = PbAt(c, "done")
        /\ UNCHANGED pxy

\* playPushUrl goes on.
PushStarts(c) ==
    /\ pbPc[c].at = "toPush" /\ pb.media < PbMaxMedia
    /\ fb' = FbCancelled
    /\ pb' = [pb EXCEPT !.session = 0, !.media = @ + 1, !.request = FALSE]
    /\ pbPc' = [pbPc EXCEPT ![c].at = "pushing", ![c].id = pb.media + 1]
    /\ UNCHANGED pxy

\* createMediaProxy fails, or the player loads what it gave, or refuses it.
PushLoads(c) ==
    LET id == pbPc[c].id  p == [pb EXCEPT !.proxy = id]
    IN  /\ pbPc[c].at = "pushing"
        /\ \/ UNCHANGED <<pb, pxy>> /\ pbPc' = PbAt(c, "done")
           \/ /\ pb' = [Loaded(p, id, FALSE) EXCEPT !.session = id]
              /\ Served(id) /\ pbPc' = PbAt(c, "done")
           \/ /\ ReleaseProxy([p EXCEPT !.player = "error", !.source = 0])
              /\ pbPc' = PbAt(c, "refused")
        /\ UNCHANGED fb

PushRefused(c) == /\ pbPc[c].at = "refused"
                  /\ pbPc' = PbAt(c, "done")
                  /\ UNCHANGED <<pb, pxy, fb>>

\* releaseResources, before the importer destroys the session of the source.
Close(c) ==
    /\ ~pb.closed
    /\ ReleaseProxy([Stopped(Asked("stop")) EXCEPT !.closed = TRUE])
    /\ pbPc' = PbAt(c, "stopping")
    /\ UNCHANGED fb

-----------------------------------------------------------------------------
(* What the media element reports, of the current playback session only. *)

PbCompleted(c) ==
    /\ pb.session # 0
    /\ pb' = [pb EXCEPT !.player = IF pb.source # 0 THEN "ended" ELSE @]
    /\ pbPc' = PbAt(c, "done")
    /\ UNCHANGED <<pxy, fb>>

\* triggerMediaFailure, not awaited by syncPlayerState.
MediaFails(c) ==
    /\ pb.session # 0
    /\ \E shown \in BOOLEAN :
         LET p == IF shown /\ pb.source # 0 THEN [pb EXCEPT !.player = "error"] ELSE pb
         IN  \/ /\ ~pb.request
                /\ pb' = p /\ pbPc' = PbAt(c, "done")
                /\ UNCHANGED fb
             \/ /\ pb.request
                /\ \E next \in Triggered :
                     \/ next.attempt /\ StartAttempt(c, 0, next.fb, p)
                     \/ /\ ~next.attempt
                        /\ fb' = next.fb /\ pb' = p /\ pbPc' = PbAt(c, "done")
    /\ UNCHANGED pxy

\* The deadline of the coordinator passes.
Expire == /\ ~fb.expired /\ fb' = [fb EXCEPT !.expired = TRUE]
          /\ UNCHANGED <<pb, pxy, pbPc>>

-----------------------------------------------------------------------------
BeginsCall(c) ==
    /\ pbPc[c].at = "idle" /\ ~pb.closed
    /\ \/ Play(c) \/ Approve(c) \/ Choose(c) \/ Close(c)
       \/ \E then \in {"done", "local", "push"} : Stop(c, then)
       \/ PbCompleted(c) \/ MediaFails(c)

Continue(c) ==
    /\ \/ PlayerContent(c) \/ Prepared(c) \/ Load(c) \/ DanmakuLoaded(c)
       \/ Unwind(c) \/ StopEnds(c) \/ LocalLoads(c) \/ PushStarts(c)
       \/ PushLoads(c) \/ PushRefused(c)
    /\ UNCHANGED pbMet

PbNext ==
    \/ /\ \E c \in PbCalls : BeginsCall(c)
       /\ pbMet' = (pbMet \/ PbUnderWay)
    \/ \E c \in PbCalls : Continue(c)
    \/ Expire /\ UNCHANGED pbMet

\* What is awaited settles: every request has its timeout.
PbFairness == \A c \in PbCalls : WF_pbVars(Continue(c))

PbSpec == PbInit /\ [][PbNext]_pbVars /\ PbFairness

-----------------------------------------------------------------------------
(* Properties. *)

PbTypeOK ==
    /\ pb \in [player : {"idle", "stopped", "active", "ended", "error"},
               source : 0..PbMaxMedia, direct : BOOLEAN, session : 0..PbMaxMedia,
               proxy : 0..PbMaxMedia, request : BOOLEAN, closed : BOOLEAN,
               media : 0..PbMaxMedia, last : {"none", "play", "stop"}]
    /\ pxy \subseteq 1..PbMaxMedia
    /\ fb \in [mode : {"off", "prompt", "auto"},
               status : {"idle", "disabled", "prompt", "trying", "recovered",
                         "cancelled", "stopped"},
               tried : SUBSET PbCandidates, expired : BOOLEAN]
    /\ pbPc \in [PbCalls ->
                   [at : {"idle", "content", "preparing", "proxied", "danmaku",
                          "failing", "stopping", "toLocal", "toPush", "pushing",
                          "refused", "done"},
                    id : 0..PbMaxMedia, depth : 0..PbMaxMedia]]
    /\ pbMet \in BOOLEAN

\* Where the requests and events came one after another, whatever failed on the
\* way, the proxy serves the medium that is loaded and nothing else
\* (preparePlayback, releasePlaybackProxy, handlePlaybackFailure).
ServedIsPlayed ==
    ~pbMet /\ ~PbUnderWay
    => pxy = IF pb.source # 0 /\ ~pb.direct THEN {pb.source} ELSE {}

\* However calls meet, the attempts that failures start come to an end: what
\* was tried is not tried again, and there are at most so many (takeNext).
PlaybackSettles == \A c \in PbCalls : pbPc[c].at # "idle" ~> pbPc[c].at = "done"

\* docs/CODEX_GOALS.md: closing the window and stopping the playback release
\* what they use.  Where the user asked for that last, and nothing is under
\* way, no medium is loaded or served.
StopReleases ==
    pb.last = "stop" /\ ~PbUnderWay => pb.source = 0 /\ pxy = {}
=============================================================================
