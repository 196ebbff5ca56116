---------------------------- MODULE PlaybackProxy ----------------------------
(***************************************************************************)
(* The playback proxy of the Tauri application                             *)
(* (src-tauri/src/playback_proxy.rs): start registers a session under a    *)
(* token of its own and sees to the one listener; close takes a session    *)
(* away, cancels its streams and stops the listener with the last one.     *)
(* Calls and connections are tasks on several threads; the sessions, the   *)
(* address and the abort handle each have a lock of their own.             *)
(*                                                                         *)
(* Left out: what is fetched and rewritten; a stream lasts until it ends.  *)
(***************************************************************************)
EXTENDS Naturals

CONSTANTS
    PxStarts,     \* calls of start, each with a token
    PxCloses,     \* calls of close
    PxPlayers,    \* session ids
    PxConns       \* connections to the proxy

ASSUME PxNames == "none" \notin PxStarts \cup PxPlayers

(* Of the tokens, sid: their session id; live: in the map of sessions;     *)
(* cancelled: their watch holds true; given: the address in the url start  *)
(* returned.  A listener and its address go by the start that bound it.    *)
VARIABLES
    pxStart,      \* where each start is
    pxClose,      \* where each close is, its token and if that was the last
    pxConn,       \* where each connection is and its token
    px            \* the state of the proxy

pxVars == <<pxStart, pxClose, pxConn, px>>

PxInit ==
    /\ pxStart = [c \in PxStarts |-> "idle"]
    /\ pxClose = [k \in PxCloses |->
                    [at |-> "idle", token |-> "none", last |-> FALSE]]
    /\ pxConn = [n \in PxConns |-> [at |-> "idle", token |-> "none"]]
    /\ px = [sid |-> [c \in PxStarts |-> "none"], live |-> {}, cancelled |-> {},
             given |-> [c \in PxStarts |-> "none"], guard |-> "none",
             url |-> "none", abort |-> "none", bound |-> {}]

-----------------------------------------------------------------------------
(* start *)

\* The session is in the map before there is a listener.
Registers(c, p) ==
    /\ pxStart[c] = "idle"
    /\ pxStart' = [pxStart EXCEPT ![c] = "registered"]
    /\ px' = [px EXCEPT !.sid[c] = p, !.live = @ \cup {c}]
    /\ UNCHANGED <<pxClose, pxConn>>

\* ensure_server: server_start is taken; the address is known, or not.
EntersServer(c) ==
    /\ pxStart[c] = "registered" /\ px.guard = "none"
    /\ IF px.url # "none"
       THEN /\ pxStart' = [pxStart EXCEPT ![c] = "ready"]
            /\ px' = [px EXCEPT !.given[c] = px.url]
       ELSE /\ pxStart' = [pxStart EXCEPT ![c] = "binding"]
            /\ px' = [px EXCEPT !.guard = c]
    /\ UNCHANGED <<pxClose, pxConn>>

\* The listener is bound and base_url set, or there is no port to be had: the
\* session stays.
Binds(c) ==
    /\ pxStart[c] = "binding"
    /\ \/ /\ pxStart' = [pxStart EXCEPT ![c] = "publishing"]
          /\ px' = [px EXCEPT !.url = c, !.bound = @ \cup {c}]
       \/ /\ pxStart' = [pxStart EXCEPT ![c] = "failed"]
          /\ px' = [px EXCEPT !.guard = "none"]
    /\ UNCHANGED <<pxClose, pxConn>>

\* The server is spawned and its abort handle kept, over another's.
Publishes(c) ==
    /\ pxStart[c] = "publishing"
    /\ pxStart' = [pxStart EXCEPT ![c] = "ready"]
    /\ px' = [px EXCEPT !.abort = c, !.guard = "none", !.given[c] = c]
    /\ UNCHANGED <<pxClose, pxConn>>

-----------------------------------------------------------------------------
(* close *)

\* One token of the session leaves the map, under its lock.
Removes(k, t) ==
    /\ pxClose[k].at = "idle" /\ t \in px.live
    /\ px' = [px EXCEPT !.live = @ \ {t}]
    /\ pxClose' = [pxClose EXCEPT ![k] =
                     [at |-> "removed", token |-> t, last |-> px.live = {t}]]
    /\ UNCHANGED <<pxStart, pxConn>>

Subscribed(t) == \E n \in PxConns :
    pxConn[n].at = "streaming" /\ pxConn[n].token = t

\* A bug: send instead of send_replace, which fails and keeps nothing where
\* nobody has subscribed yet.
MutCancelledWith(t) == IF Subscribed(t) THEN px.cancelled \cup {t}
                       ELSE px.cancelled

\* send_replace keeps the value in any case.
CancelledWith(t) == px.cancelled \cup {t}

Cancels(k) ==
    /\ pxClose[k].at = "removed"
    /\ px' = [px EXCEPT !.cancelled = CancelledWith(pxClose[k].token)]
    /\ pxClose' = [pxClose EXCEPT ![k].at =
                     IF pxClose[k].last THEN "stopping" ELSE "done"]
    /\ UNCHANGED <<pxStart, pxConn>>

\* stop_server: the handle is taken and its task aborted, with the listener.
StopsListener(k) ==
    /\ pxClose[k].at = "stopping"
    /\ px' = [px EXCEPT !.bound = @ \ {px.abort}, !.abort = "none"]
    /\ pxClose' = [pxClose EXCEPT ![k].at = "clearing"]
    /\ UNCHANGED <<pxStart, pxConn>>

ClearsUrl(k) ==
    /\ pxClose[k].at = "clearing"
    /\ px' = [px EXCEPT !.url = "none"]
    /\ pxClose' = [pxClose EXCEPT ![k].at = "done"]
    /\ UNCHANGED <<pxStart, pxConn>>

-----------------------------------------------------------------------------
(* serve_connection, a task of its own that outlives the listener. *)

Goes(n, from, to) ==
    /\ pxConn[n].at = from
    /\ pxConn' = [pxConn EXCEPT ![n].at = to]
    /\ UNCHANGED <<pxStart, pxClose, px>>

\* The player opens the url it was given, while somebody listens there.
Connects(n, t) ==
    /\ pxConn[n].at = "idle" /\ px.given[t] \in px.bound
    /\ pxConn' = [pxConn EXCEPT ![n] = [at |-> "accepted", token |-> t]]
    /\ UNCHANGED <<pxStart, pxClose, px>>

\* The session is cloned out of the map, or the answer is 404.
LooksUp(n) ==
    Goes(n, "accepted",
         IF pxConn[n].token \in px.live THEN "found" ELSE "ended")
Subscribes(n) == Goes(n, "found", "streaming")

\* wait_for looks at the value the watch holds, not only at later ones.
IsCut(n) == pxConn[n].token \in px.cancelled /\ Goes(n, "streaming", "ended")

\* The end of the data, an error, or a player that went away or sent no request
\* in time.
StreamEnds(n) == \E from \in {"accepted", "streaming"} : Goes(n, from, "ended")

StartSteps(c) == EntersServer(c) \/ Binds(c) \/ Publishes(c)
CloseSteps(k) == Cancels(k) \/ StopsListener(k) \/ ClearsUrl(k)
ConnSteps(n) == LooksUp(n) \/ Subscribes(n) \/ IsCut(n)

PxNext ==
    \/ \E c \in PxStarts : \/ \E p \in PxPlayers : Registers(c, p)
                           \/ StartSteps(c)
    \/ \E k \in PxCloses : \/ \E t \in PxStarts : Removes(k, t)
                           \/ CloseSteps(k)
    \/ \E n \in PxConns : \/ \E t \in PxStarts : Connects(n, t)
                          \/ ConnSteps(n) \/ StreamEnds(n)

\* The runtime runs every task that can go on; a bind returns, and reading a
\* request has its timeout; a stream need never end by itself.
PxFairness ==
    /\ \A c \in PxStarts : WF_pxVars(StartSteps(c))
    /\ \A k \in PxCloses : WF_pxVars(CloseSteps(k))
    /\ \A n \in PxConns : WF_pxVars(ConnSteps(n))

PxSpec == PxInit /\ [][PxNext]_pxVars /\ PxFairness

-----------------------------------------------------------------------------
Token == PxStarts \cup {"none"}

PxTypeOK ==
    /\ pxStart \in [PxStarts -> {"idle", "registered", "binding", "publishing",
                                 "ready", "failed"}]
    /\ pxClose \in [PxCloses ->
          [at : {"idle", "removed", "stopping", "clearing", "done"},
           token : Token, last : BOOLEAN]]
    /\ pxConn \in [PxConns -> [at : {"idle", "accepted", "found", "streaming",
                                     "ended"}, token : Token]]
    /\ px \in [sid : [PxStarts -> PxPlayers \cup {"none"}],
               live : SUBSET PxStarts, cancelled : SUBSET PxStarts,
               given : [PxStarts -> Token], guard : Token, url : Token,
               abort : Token, bound : SUBSET PxStarts]

\* Whatever steps of a connection the close of its session falls between, the
\* stream is cut (or answered 404) and does not outlive the session, although
\* the source may never end it; and a start comes to its answer.
StreamsEnd ==
    /\ \A n \in PxConns, t \in PxStarts :
          (pxConn[n].at # "idle" /\ pxConn[n].token = t /\ t \notin px.live)
             ~> (pxConn[n].at = "ended")
    /\ \A c \in PxStarts :
          (pxStart[c] = "registered") ~> (pxStart[c] \in {"ready", "failed"})
=============================================================================
