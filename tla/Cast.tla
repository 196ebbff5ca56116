-------------------------------- MODULE Cast --------------------------------
(***************************************************************************)
(* CastService over its CastMediaBridge (src/cast): a cast replaces the    *)
(* session, makes the media and its subtitle available to the device       *)
(* through tokens of the bridge where they cannot be reached directly, and *)
(* starts the device with SOAP calls.  Each await lets other calls in.     *)
(*                                                                         *)
(* One device.  Its description, positions and messages are left out; the  *)
(* state of a session is "error", which is what the code asks for, or one  *)
(* of the others ("fine").  A token is named for the cast and the asset it *)
(* was made for, and a server for the token whose creation started it.     *)
(***************************************************************************)
EXTENDS Naturals, FiniteSets

CONSTANT CastCalls      \* calls of cast
ASSUME CastBounds == "none" \notin CastCalls

Assets == {"media", "subtitle"}
Tokens == CastCalls \X Assets

VARIABLES
    caster,     \* the device is known; session; state, bridgeSessions of each
    bridge,     \* sessions (tokens), server, and the servers that listen
    castPc,     \* where each call of cast is, and what needs the bridge
    stopping,   \* the sessions whose stop waits for the device
    castMet     \* history: the casts whose session another call took while
                \* they were under way

castVars == <<caster, bridge, castPc, stopping, castMet>>

CastInit ==
    /\ caster = [known |-> FALSE, session |-> "none",
                 state |-> [c \in CastCalls |-> "none"],
                 held |-> [c \in CastCalls |-> {}]]
    /\ bridge = [live |-> {}, server |-> {}, up |-> {}]
    /\ castPc = [c \in CastCalls |-> [at |-> "idle", bridged |-> {}]]
    /\ stopping = {}
    /\ castMet = {}

Casting(c) == castPc[c].at \notin {"idle", "done", "failed"}
Goes(c, at) == castPc' = [castPc EXCEPT ![c].at = at]
OfSession == {caster.session} \ {"none"}

-----------------------------------------------------------------------------
(* CastMediaBridge. *)

\* revoke, of some tokens: with the last one the server is let go of, and
\* closed if it listens already.  One that does not yet will.
Revoked(b, tokens) ==
    LET live == b.live \ tokens
        last == b.live \cap tokens # {} /\ live = {}
    IN  [live |-> live,
         server |-> IF last THEN {} ELSE b.server,
         up |-> IF last THEN b.up \ b.server ELSE b.up]

\* A request finds its token expired, or createSession removes it.
TokenExpires ==
    /\ \E token \in bridge.live : bridge' = Revoked(bridge, {token})
    /\ UNCHANGED <<caster, castPc, stopping, castMet>>

Issues(c, asset, started) ==
    /\ bridge' = [bridge EXCEPT !.live = @ \cup {<<c, asset>>},
                                !.up = @ \cup started]
    /\ caster' = [caster EXCEPT !.held[c] = @ \cup {<<c, asset>>}]
    /\ castPc' = [castPc EXCEPT ![c] = [at |-> "creates",
                                        bridged |-> @.bridged \ {asset}]]

\* The media is made available before the subtitle.
NextAsset(c) ==
    IF "media" \in castPc[c].bridged THEN "media" ELSE "subtitle"

-----------------------------------------------------------------------------
(* CastService. *)

\* closeBridgeSessions, of the session that is left: it lets go of its tokens.
HeldBySession == UNION {caster.held[c] : c \in OfSession}
HeldByOthers == [c \in CastCalls |-> IF c \in OfSession THEN {} ELSE caster.held[c]]

\* discover: the device answered or not.  markDeviceLost, for the session.
Discover(known) ==
    /\ IF known
       THEN caster' = [caster EXCEPT !.known = TRUE] /\ UNCHANGED bridge
       ELSE /\ bridge' = Revoked(bridge, HeldBySession)
            /\ caster' = [caster EXCEPT !.known = FALSE, !.held = HeldByOthers,
                  !.state = [c \in CastCalls |->
                                IF c \in OfSession THEN "error" ELSE @[c]]]
    /\ UNCHANGED <<castPc, stopping, castMet>>

\* disconnect, up to its wait for the server to close.
Disconnects ==
    /\ bridge' = Revoked(bridge, HeldBySession)
    /\ caster' = [caster EXCEPT !.session = "none", !.held = HeldByOthers]
    /\ castMet' = castMet \cup {c \in OfSession : Casting(c)}

Disconnect ==
    /\ Disconnects
    /\ UNCHANGED <<castPc, stopping>>

\* cast: the session before it is left, then this one takes its place.
CastBegins(c) ==
    /\ castPc[c].at = "idle" /\ caster.known
    /\ \E bridged \in SUBSET Assets :
          castPc' = [castPc EXCEPT ![c] = [at |-> "leaves", bridged |-> bridged]]
    /\ Disconnects
    /\ UNCHANGED stopping

CastOpens(c) ==
    /\ castPc[c].at = "leaves"
    /\ Goes(c, "creates")
    /\ caster' = [caster EXCEPT !.session = c, !.state[c] = "fine"]
    /\ castMet' = castMet \cup OfSession
    /\ UNCHANGED <<bridge, stopping>>

\* mediaUrl, subtitleUrl: the first token waits for the server to listen; one
\* asked for meanwhile does not.
CastCreates(c) ==
    /\ castPc[c].at = "creates" /\ castPc[c].bridged # {}
    /\ IF bridge.server = {}
       THEN /\ bridge' = [bridge EXCEPT !.server = {<<c, NextAsset(c)>>}]
            /\ Goes(c, "listening")
            /\ UNCHANGED caster
       ELSE Issues(c, NextAsset(c), {})
    /\ UNCHANGED <<stopping, castMet>>

\* It listens, though it may have been let go of.
CastListens(c) ==
    /\ castPc[c].at = "listening"
    /\ Issues(c, NextAsset(c), {<<c, NextAsset(c)>>})
    /\ UNCHANGED <<stopping, castMet>>

\* SetAVTransportURI, Play and, with a position, Seek.
CastPlays(c) ==
    /\ castPc[c].at = "creates" /\ castPc[c].bridged = {}
    /\ caster' = [caster EXCEPT !.state[c] = "fine"]
    /\ \E at \in {"seeks", "done"} : Goes(c, at)
    /\ UNCHANGED <<bridge, stopping, castMet>>

CastSeeks(c) ==
    /\ castPc[c].at = "seeks"
    /\ Goes(c, "done")
    /\ UNCHANGED <<caster, bridge, stopping, castMet>>

\* The catch of cast: the server did not listen, or the device failed.
FailsAt(c) ==
    \/ castPc[c].at \in {"listening", "seeks"}
    \/ castPc[c].at = "creates" /\ castPc[c].bridged = {}
ServerAtFailure(c) ==
    IF castPc[c].at = "listening" THEN {} ELSE bridge.server

\* A bug: the cast that failed keeps what it made available.
MutCastFails(c) ==
    /\ FailsAt(c) /\ Goes(c, "failed")
    /\ bridge' = [bridge EXCEPT !.server = ServerAtFailure(c)]
    /\ caster' = [caster EXCEPT !.state[c] = "error"]
    /\ UNCHANGED <<stopping, castMet>>

CastFails(c) ==
    /\ FailsAt(c) /\ Goes(c, "failed")
    /\ bridge' = Revoked([bridge EXCEPT !.server = ServerAtFailure(c)],
                         caster.held[c])
    /\ caster' = [caster EXCEPT !.state[c] = "error", !.held[c] = {}]
    /\ UNCHANGED <<stopping, castMet>>

\* play, pause, seek, refreshPosition, refreshTransport: the device answers to
\* the session that asked, which may have been left since; an error of it, or
\* a device that is lost, closes what it holds.
CastAnswered(c) ==
    /\ caster.state[c] # "none"
    /\ \E state \in {"fine", "error"} :
          /\ caster' = [caster EXCEPT !.state[c] = state,
                            !.held[c] = IF state = "error" THEN {} ELSE @]
          /\ bridge' = IF state = "error" THEN Revoked(bridge, caster.held[c])
                       ELSE bridge
    /\ UNCHANGED <<castPc, stopping, castMet>>

\* stop: the device is asked, unless the session is in error.
StopAsks(c) ==
    /\ caster.session = c /\ caster.state[c] # "error"
    /\ stopping' = stopping \cup {c}
    /\ UNCHANGED <<caster, bridge, castPc, castMet>>

StopEnds(c) ==
    /\ \/ c \in stopping
       \/ caster.session = c /\ caster.state[c] = "error"
    /\ bridge' = Revoked(bridge, caster.held[c])
    /\ \E state \in {"fine", "error"} :
          /\ caster.state[c] = "error" => state = "error"
          /\ caster' = [caster EXCEPT !.state[c] = state, !.held[c] = {}]
    /\ stopping' = stopping \ {c}
    /\ UNCHANGED <<castPc, castMet>>

CastNext ==
    \/ TokenExpires \/ Disconnect
    \/ \E known \in BOOLEAN : Discover(known)
    \/ \E c \in CastCalls :
          \/ CastBegins(c) \/ CastOpens(c) \/ CastCreates(c) \/ CastListens(c)
          \/ CastPlays(c) \/ CastSeeks(c) \/ CastFails(c)
          \/ CastAnswered(c) \/ StopAsks(c) \/ StopEnds(c)

CastSpec == CastInit /\ [][CastNext]_castVars

-----------------------------------------------------------------------------
(* Properties. *)

CastStates == {"none", "fine", "error"}
Bridges == [live : SUBSET Tokens, server : SUBSET Tokens, up : SUBSET Tokens]
CastSteps == {"idle", "leaves", "creates", "listening", "seeks", "done", "failed"}

CastTypeOK ==
    /\ caster \in [known : BOOLEAN, session : CastCalls \cup {"none"},
                   state : [CastCalls -> CastStates],
                   held : [CastCalls -> SUBSET Tokens]]
    /\ bridge \in Bridges
    /\ castPc \in [CastCalls -> [at : CastSteps, bridged : SUBSET Assets]]
    /\ stopping \subseteq CastCalls
    /\ castMet \subseteq CastCalls

LiveOf(c) == {token \in bridge.live : token[1] = c}

\* A token of the bridge that is live is one a session still holds and can
\* revoke, whatever calls were interleaved; that session is the current one or
\* its cast is still to end, unless two calls met (castMet).  A cast that
\* failed leaves no token behind, and the bridge has a server only where it
\* serves a token, or is about to.  As long as no two calls met, no other server
\* listens, and each token has one.  Where they meet, the code can let go of a
\* server before it listens, and then nothing closes it.
BridgeOwned ==
    /\ \A c \in CastCalls :
          /\ LiveOf(c) \subseteq caster.held[c]
          /\ LiveOf(c) # {} /\ c \notin castMet =>
                caster.session = c \/ Casting(c)
          /\ castPc[c].at = "failed" => LiveOf(c) = {}
    /\ (\A c \in CastCalls : ~Casting(c)) =>
          (bridge.server # {} => bridge.live # {})
    /\ castMet = {} /\ (\A c \in CastCalls : castPc[c].at # "listening") =>
          /\ bridge.up = bridge.server
          /\ bridge.server = {} <=> bridge.live = {}
=============================================================================
