-------------------------------- MODULE Push --------------------------------
(***************************************************************************)
(* PushService (src/push/push-service.ts) and the player it hands a push   *)
(* to (replacePush of src/desktop/spider-ui.ts): requests from other       *)
(* devices are validated, confirmed by the user, and played, queued behind *)
(* the session that plays, or refused.                                     *)
(*                                                                         *)
(* The HTTP listener is left out, and the addresses of a request: a        *)
(* request passes the validation or not.                                   *)
(***************************************************************************)
EXTENDS Naturals, FiniteSets, Sequences

CONSTANTS
    PushRequests,      \* calls of submit
    MaxPending,        \* MAX_PENDING
    MaxQueue,          \* MAX_QUEUE
    MaxConfigures,     \* bound: calls of configure
    MaxSessions        \* bound: sessions the user starts himself

ASSUME PushBounds ==
    /\ {"none", "drain", "user"} \cap PushRequests = {}
    /\ {MaxPending, MaxQueue, MaxConfigures, MaxSessions} \subseteq Nat

VARIABLES
    push,     \* the fields of the service
    pushPc,   \* where each submit is
    pushRec,  \* recentValue: the status of each request's record
    player,   \* the active session: a request, "user" or "none"
    pushMet   \* what happened to the service

pushVars == <<push, pushPc, pushRec, player, pushMet>>

(* lock is the chain of serializePlayback, its head runs; entered: it has  *)
(* read the generation, stale: close has changed it since.  cur and stage  *)
(* are the play under way.  undrained: the last end of a session that no   *)
(* drain has followed, a stop or an error.                                 *)
PushInit ==
    /\ push = [enabled |-> TRUE, pending |-> {}, queue |-> <<>>,
               lock |-> <<>>, entered |-> FALSE, stale |-> FALSE,
               cur |-> "none", stage |-> "no", draining |-> FALSE,
               due |-> FALSE]
    /\ pushPc = [r \in PushRequests |-> "idle"]
    /\ pushRec = [r \in PushRequests |-> "none"]
    /\ player = "none"
    /\ pushMet = [configures |-> 0, sessions |-> 0, undrained |-> "no",
                  refused |-> {}]

Holder == IF push.lock = <<>> THEN "none" ELSE Head(push.lock)
InQueue(r) == \E i \in DOMAIN push.queue : push.queue[i] = r

\* serializePlayback: to the end of the chain, and the head lets go.
Joins(s, h) == [s EXCEPT !.lock = Append(@, h)]
Leaves(s) == [s EXCEPT !.lock = Tail(@), !.entered = FALSE, !.stale = FALSE,
                       !.cur = "none", !.stage = "no"]

-----------------------------------------------------------------------------
(* Requests. *)

\* submit, up to the await of normalizeRequest.
Submit(r) ==
    /\ pushPc[r] = "idle"
    /\ pushPc' = [pushPc EXCEPT ![r] = IF push.enabled THEN "validating"
                                       ELSE "done"]
    /\ UNCHANGED <<push, pushRec, player, pushMet>>

\* A request that is invalid, or one more than may wait for the user.
SubmitRefused(r) ==
    /\ pushPc[r] = "validating"
    /\ pushPc' = [pushPc EXCEPT ![r] = "done"]
    /\ UNCHANGED <<push, pushRec, player, pushMet>>

SubmitPending(r) ==
    /\ pushPc[r] = "validating" /\ Cardinality(push.pending) < MaxPending
    /\ push' = [push EXCEPT !.pending = @ \cup {r}]
    /\ pushPc' = [pushPc EXCEPT ![r] = "done"]
    /\ pushRec' = [pushRec EXCEPT ![r] = "pending-confirmation"]
    /\ UNCHANGED <<player, pushMet>>

\* Confirmed already, or from a trusted origin.
SubmitAccepted(r) ==
    /\ pushPc[r] = "validating"
    /\ push' = Joins(push, r)
    /\ pushPc' = [pushPc EXCEPT ![r] = "done"]
    /\ UNCHANGED <<pushRec, player, pushMet>>

Confirm(r) ==
    /\ r \in push.pending
    /\ push' = Joins([push EXCEPT !.pending = @ \ {r}], r)
    /\ UNCHANGED <<pushPc, pushRec, player, pushMet>>

RejectPush(r) ==
    /\ r \in push.pending
    /\ push' = [push EXCEPT !.pending = @ \ {r}]
    /\ pushRec' = [pushRec EXCEPT ![r] = "rejected"]
    /\ UNCHANGED <<pushPc, player, pushMet>>

\* splice takes the one at index i out of the queue.
Spliced(q, i) == SubSeq(q, 1, i - 1) \o SubSeq(q, i + 1, Len(q))

CancelPush(r) ==
    /\ \/ r \in push.pending /\ push' = [push EXCEPT !.pending = @ \ {r}]
       \/ /\ r \notin push.pending
          /\ \E i \in DOMAIN push.queue :
                /\ push.queue[i] = r
                /\ \A j \in 1..(i - 1) : push.queue[j] # r
                /\ push' = [push EXCEPT !.queue = Spliced(@, i)]
    /\ pushRec' = [pushRec EXCEPT ![r] = "cancelled"]
    /\ UNCHANGED <<pushPc, player, pushMet>>

ClearRecent ==
    /\ pushRec' = [r \in PushRequests |-> "none"]
    /\ UNCHANGED <<push, pushPc, player, pushMet>>

-----------------------------------------------------------------------------
(* acceptUnlocked, at the head of the chain. *)

Entering(r) == r \in PushRequests /\ Holder = r /\ ~push.entered

\* The service is off, or the queue is full: an error, and no record of it.
AcceptThrows(r) ==
    /\ Entering(r)
    /\ push.enabled => (player # "none" /\ Len(push.queue) >= MaxQueue)
    /\ push' = Leaves(push)
    /\ pushMet' = [pushMet EXCEPT !.refused = @ \cup {r}]
    /\ UNCHANGED <<pushPc, pushRec, player>>

AcceptRejects(r) ==
    /\ Entering(r) /\ push.enabled /\ player # "none"
    /\ push' = Leaves(push)
    /\ pushRec' = [pushRec EXCEPT ![r] = "rejected"]
    /\ UNCHANGED <<pushPc, player, pushMet>>

AcceptQueues(r) ==
    /\ Entering(r) /\ push.enabled /\ player # "none"
    /\ Len(push.queue) < MaxQueue
    /\ push' = Leaves([push EXCEPT !.queue = Append(@, r)])
    /\ pushRec' = [pushRec EXCEPT ![r] = "queued"]
    /\ UNCHANGED <<pushPc, player, pushMet>>

\* Nothing plays, or the mode is "replace".
AcceptPlays(r) ==
    /\ Entering(r) /\ push.enabled
    /\ push' = [push EXCEPT !.entered = TRUE, !.cur = r, !.stage = "stopping"]
    /\ UNCHANGED <<pushPc, pushRec, player, pushMet>>

-----------------------------------------------------------------------------
(* drainQueue. *)

\* One drain at a time; it waits in the chain like the others.
DrainStarts(s) ==
    IF s.draining \/ ~s.enabled THEN s
    ELSE Joins([s EXCEPT !.draining = TRUE], "drain")

TakesFirst == player = "none" /\ push.enabled /\ ~push.stale

\* A bug: the first of the queue is removed only when it plays.
MutDrainTakes ==
    /\ Holder = "drain" /\ push.cur = "none"
    /\ push.queue # <<>> /\ TakesFirst
    /\ push' = [push EXCEPT !.entered = TRUE, !.cur = Head(push.queue),
                            !.stage = "stopping"]
    /\ UNCHANGED <<pushPc, pushRec, player, pushMet>>

\* One turn of the loop: the first of the queue is played.
DrainTakes ==
    /\ Holder = "drain" /\ push.cur = "none"
    /\ push.queue # <<>> /\ TakesFirst
    /\ push' = [push EXCEPT !.entered = TRUE, !.cur = Head(push.queue),
                            !.stage = "stopping", !.queue = Tail(@)]
    /\ UNCHANGED <<pushPc, pushRec, player, pushMet>>

DrainEnds ==
    /\ Holder = "drain" /\ push.cur = "none"
    /\ push.queue = <<>> \/ ~TakesFirst
    /\ push' = [Leaves(push) EXCEPT !.draining = FALSE]
    /\ pushMet' = [pushMet EXCEPT !.undrained = "no"]
    /\ UNCHANGED <<pushPc, pushRec, player>>

-----------------------------------------------------------------------------
(* playback.play, of the holder: replacePush stops what plays, and starts. *)

PlayStops ==
    /\ push.stage = "stopping"
    /\ push' = [push EXCEPT !.stage = "starting"]
    /\ player' = "none"
    /\ UNCHANGED <<pushPc, pushRec, pushMet>>

\* A bug: a drain serves one push, no loop.
MutAfterPlay(s) == [Leaves(s) EXCEPT !.draining = @ /\ Head(s.lock) # "drain"]

\* A drain goes on with the next, an accept lets go.
AfterPlay(s) ==
    IF Head(s.lock) = "drain" THEN [s EXCEPT !.cur = "none", !.stage = "no"]
    ELSE Leaves(s)

\* The generation is compared after the await.
Outcome(status) == IF ~push.enabled \/ push.stale THEN "cancelled" ELSE status

PlayEnds ==
    /\ push.stage = "starting"
    /\ \E ok \in BOOLEAN :
          /\ player' = IF ok THEN push.cur ELSE "none"
          /\ pushRec' = [pushRec EXCEPT ![push.cur] =
                            Outcome(IF ok THEN "accepted" ELSE "failed")]
          /\ pushMet' = [pushMet EXCEPT !.undrained =
                            IF ok \/ Holder = "drain" THEN @ ELSE "error"]
    /\ push' = AfterPlay(push)
    /\ UNCHANGED pushPc

-----------------------------------------------------------------------------
(* The player and the settings. *)

\* The user plays something himself.
UserPlays ==
    /\ pushMet.sessions < MaxSessions
    /\ player' = "user"
    /\ pushMet' = [pushMet EXCEPT !.sessions = @ + 1]
    /\ UNCHANGED <<push, pushPc, pushRec>>

\* The completion event: onPlaybackComplete drains.
PlaybackCompletes ==
    /\ player # "none"
    /\ player' = "none"
    /\ push' = DrainStarts(push)
    /\ UNCHANGED <<pushPc, pushRec, pushMet>>

\* The route /api/player/stop drains when the player has stopped, and
\* /api/push/refresh whenever it is called.
PlayerStops ==
    /\ player # "none"
    /\ player' = "none"
    /\ push' = [push EXCEPT !.due = TRUE]
    /\ UNCHANGED <<pushPc, pushRec, pushMet>>

StopDrains ==
    /\ push.due
    /\ push' = [DrainStarts(push) EXCEPT !.due = FALSE]
    /\ UNCHANGED <<pushPc, pushRec, player, pushMet>>

\* The stops behind which nothing drains: of the web control, of /api/switch
\* and /api/close, and of /api/player where another user interface plays.
PlayerStopsOnly ==
    /\ player # "none"
    /\ player' = "none"
    /\ pushMet' = [pushMet EXCEPT !.undrained = "stop"]
    /\ UNCHANGED <<push, pushPc, pushRec>>

PushRefresh ==
    /\ push' = DrainStarts(push)
    /\ UNCHANGED <<pushPc, pushRec, player, pushMet>>

\* An error of the player: the session is none for pushPlaybackSession, and
\* nothing drains.
PlayerFails ==
    /\ player # "none"
    /\ player' = "none"
    /\ pushMet' = [pushMet EXCEPT !.undrained = "error"]
    /\ UNCHANGED <<push, pushPc, pushRec>>

\* configure with a new enabled or port, and close, the part of both before
\* the listener is awaited.
Configure(enabled) ==
    /\ pushMet.configures < MaxConfigures
    /\ push' = [push EXCEPT !.enabled = enabled, !.pending = {},
                            !.queue = <<>>, !.stale = push.entered]
    /\ pushRec' = [r \in PushRequests |->
                      IF r \in push.pending \/ InQueue(r) THEN "cancelled"
                      ELSE pushRec[r]]
    /\ pushMet' = [pushMet EXCEPT !.configures = @ + 1]
    /\ UNCHANGED <<pushPc, player>>

PushNext ==
    \/ \E r \in PushRequests :
          \/ Submit(r) \/ SubmitRefused(r) \/ SubmitPending(r)
          \/ SubmitAccepted(r) \/ Confirm(r) \/ RejectPush(r) \/ CancelPush(r)
          \/ AcceptThrows(r) \/ AcceptRejects(r) \/ AcceptQueues(r)
          \/ AcceptPlays(r)
    \/ ClearRecent \/ DrainTakes \/ DrainEnds \/ PlayStops \/ PlayEnds
    \/ UserPlays \/ PlaybackCompletes \/ PlayerStops \/ StopDrains \/ PushRefresh
    \/ PlayerStopsOnly \/ PlayerFails
    \/ \E enabled \in BOOLEAN : Configure(enabled)

PushSpec == PushInit /\ [][PushNext]_pushVars

-----------------------------------------------------------------------------
(* Properties. *)

PushTypeOK ==
    /\ push \in [enabled : BOOLEAN, pending : SUBSET PushRequests,
                 queue : Seq(PushRequests),
                 lock : Seq(PushRequests \cup {"drain"}),
                 entered : BOOLEAN, stale : BOOLEAN,
                 cur : PushRequests \cup {"none"},
                 stage : {"no", "stopping", "starting"},
                 draining : BOOLEAN, due : BOOLEAN]
    /\ pushPc \in [PushRequests -> {"idle", "validating", "done"}]
    /\ pushRec \in [PushRequests -> {"none", "pending-confirmation", "queued",
                       "accepted", "rejected", "failed", "cancelled"}]
    /\ player \in PushRequests \cup {"user", "none"}
    /\ pushMet \in [configures : 0..MaxConfigures, sessions : 0..MaxSessions,
                    undrained : {"no", "stop", "error"},
                    refused : SUBSET PushRequests]

\* A record tells where its request is: one that is pending is before the
\* user or on its way to the player, unless it met a full queue or a service
\* that was off; one that is queued is in the queue, once, or being played;
\* and what was rejected or cancelled is not on its way anywhere.
PushAccounted ==
    \A r \in PushRequests :
        LET onItsWay == r = push.cur \/ \E i \in DOMAIN push.lock : push.lock[i] = r
            places == Cardinality({i \in DOMAIN push.queue : push.queue[i] = r})
                      + IF r \in push.pending THEN 1 ELSE 0
        IN  /\ pushRec[r] = "pending-confirmation" =>
                  (r \in push.pending \/ onItsWay \/ r \in pushMet.refused)
            /\ pushRec[r] = "queued" =>
                  (InQueue(r) \/ (r = push.cur /\ Holder = "drain"))
            /\ pushRec[r] \in {"rejected", "cancelled", "failed"} =>
                  (places = 0 /\ ~onItsWay)
            /\ places + (IF onItsWay THEN 1 ELSE 0) =< 1

\* Nothing plays, and no drain is under way or about to begin.
AtRest == player = "none" /\ push.lock = <<>> /\ ~push.due

\* No push is forgotten in the queue: at rest the queue is empty, whatever
\* completions, drained stops, refreshes, pushes and settings met.  It is not
\* where a session ended and nothing drained: by an error, by a push that failed
\* after it stopped the one that played, or by a stop of the web control, of
\* /api/switch, /api/close or /api/player, although CODEX_GOALS.md has the queue
\* consumed after a stop.  The next drain makes it good.
QueueIsServed == AtRest /\ pushMet.undrained = "no" => push.queue = <<>>
=============================================================================
