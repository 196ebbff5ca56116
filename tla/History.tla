------------------------------ MODULE History ------------------------------
(***************************************************************************)
(* HistoryProgressService (src/history/history-progress.ts) over its       *)
(* PlaybackProgressWriter (src/data/progress-writer.ts): how far an        *)
(* episode was watched is written at most every few moments, and at once   *)
(* where the playback pauses, stops, changes or ends.                      *)
(*                                                                         *)
(* A position is a number; durations, completion, titles and the time of   *)
(* a record are left out.  The process may be killed at any time.          *)
(***************************************************************************)
EXTENDS Naturals

CONSTANTS
    Episodes,       \* identities of what is played
    MaxPosition     \* bound: the position of a playback

ASSUME HistoryBounds == "none" \notin Episodes /\ MaxPosition \in Nat \ {0}

NoPosition == MaxPosition + 1
Positions == 0..MaxPosition

VARIABLES
    hs,       \* the fields active, started and latest of the service
    writer,   \* pending, of an episode, and its two timers
    hdb       \* rows of the tables, and the setting that pauses the recording

histVars == <<hs, writer, hdb>>

HistoryInit ==
    /\ hs = [active |-> "none", started |-> FALSE, latest |-> 0]
    /\ writer = [pending |-> NoPosition, of |-> "none", debounce |-> FALSE,
                 interval |-> FALSE]
    /\ hdb = [progress |-> [e \in Episodes |-> NoPosition],
              history |-> [e \in Episodes |-> NoPosition],
              paused |-> FALSE]

Discarded == [pending |-> NoPosition, of |-> "none", debounce |-> FALSE,
              interval |-> FALSE]
HasPending(w) == w.pending # NoPosition
Inactive == [active |-> "none", started |-> FALSE, latest |-> 0]

-----------------------------------------------------------------------------
(* Writing.  A flush is a function of the database: the rows after it. *)

\* persistHistoryProgress.
Persisted(db, h) ==
    IF h.active = "none" \/ db.paused THEN db
    ELSE [db EXCEPT !.history[h.active] = h.latest]

\* PlaybackProgressWriter.flush: the progress, then onFlush the history.
Written(db, h, w) ==
    IF ~HasPending(w) THEN db
    ELSE LET saved == [db EXCEPT !.progress[w.of] = w.pending]
         IN  IF h.active # w.of THEN saved
             ELSE Persisted(saved, [h EXCEPT !.latest = w.pending])

Records(h, db) == h.active # "none" /\ h.started /\ ~db.paused

\* flush: what is pending, or the latest once more.
FlushedDb ==
    IF ~Records(hs, hdb) THEN hdb
    ELSE IF HasPending(writer) THEN Written(hdb, hs, writer)
    ELSE Persisted(hdb, hs)
FlushedWriter == IF Records(hs, hdb) THEN Discarded ELSE writer

-----------------------------------------------------------------------------
\* begin: the playback before it is flushed.
Begin(e) ==
    /\ hs' = [active |-> e, started |-> FALSE, latest |-> 0]
    /\ hdb' = FlushedDb
    /\ writer' = FlushedWriter

\* sync.  playing: the status, or the first frame; ends: the playback pauses,
\* or is complete; unknown: the player has no duration.  A reset to nothing by
\* one that neither plays nor knows its duration is not taken for a position.
Sync(position, unknown, playing, ends) ==
    LET starts == playing /\ ~hs.started
        h == [hs EXCEPT !.started = @ \/ playing]
        db == IF starts THEN Persisted(hdb, h) ELSE hdb
        reset == position = 0 /\ unknown /\ ~playing /\ hs.latest > 0
        moved == [h EXCEPT !.latest = position]
        updated == [pending |-> position, of |-> hs.active, debounce |-> TRUE,
                    interval |-> TRUE]
    IN  /\ hs.active # "none" /\ ~hdb.paused
        /\ IF ~h.started \/ reset
           THEN hs' = h /\ hdb' = db /\ UNCHANGED writer
           ELSE /\ hs' = moved
                /\ hdb' = IF ends THEN Written(db, moved, updated) ELSE db
                /\ writer' = IF ends THEN Discarded ELSE updated

\* One of the two timers of the writer.
TimerFires ==
    /\ writer.debounce \/ writer.interval
    /\ hdb' = Written(hdb, hs, writer)
    /\ writer' = Discarded
    /\ UNCHANGED hs

\* flush, before an attempt to play.
FlushHistory ==
    /\ hdb' = FlushedDb /\ writer' = FlushedWriter
    /\ UNCHANGED hs

\* stop and appClose.
StopHistory ==
    /\ hdb' = FlushedDb /\ writer' = FlushedWriter
    /\ hs' = Inactive

SetPaused(paused) ==
    /\ hdb' = [(IF paused THEN FlushedDb ELSE hdb) EXCEPT !.paused = paused]
    /\ writer' = IF paused THEN FlushedWriter ELSE writer
    /\ UNCHANGED hs

\* A bug: a pending write survives the row it would be written to.
MutDelete(deleted) ==
    /\ hs' = IF hs.active \in deleted THEN Inactive ELSE hs
    /\ hdb' = [hdb EXCEPT
          !.progress = [e \in Episodes |-> IF e \in deleted THEN NoPosition
                                           ELSE @[e]],
          !.history = [e \in Episodes |-> IF e \in deleted THEN NoPosition
                                          ELSE @[e]]]
    /\ UNCHANGED writer

\* deleteMany; clear is the same of all, and of whatever is active.
Delete(deleted) ==
    /\ hs' = IF hs.active \in deleted THEN Inactive ELSE hs
    /\ writer' = IF hs.active \in deleted THEN Discarded ELSE writer
    /\ hdb' = [hdb EXCEPT
          !.progress = [e \in Episodes |-> IF e \in deleted THEN NoPosition
                                           ELSE @[e]],
          !.history = [e \in Episodes |-> IF e \in deleted THEN NoPosition
                                          ELSE @[e]]]

\* deleteProgress: the row of the history stays, from the beginning.
DeleteProgress(e) ==
    /\ hs' = IF hs.active = e THEN [hs EXCEPT !.latest = 0] ELSE hs
    /\ writer' = IF hs.active = e THEN Discarded ELSE writer
    /\ hdb' = [hdb EXCEPT !.progress[e] = NoPosition,
                          !.history[e] = IF @ = NoPosition THEN @ ELSE 0]

\* The process is killed, and started again.
Killed == hs' = Inactive /\ writer' = Discarded /\ UNCHANGED hdb

HistoryNext ==
    \/ \E e \in Episodes : Begin(e) \/ DeleteProgress(e)
    \/ \E p \in Positions, unknown, playing, ends \in BOOLEAN :
          Sync(p, unknown, playing, ends)
    \/ TimerFires \/ FlushHistory \/ StopHistory \/ Killed
    \/ \E paused \in BOOLEAN : SetPaused(paused)
    \/ \E deleted \in SUBSET Episodes : Delete(deleted)

HistorySpec == HistoryInit /\ [][HistoryNext]_histVars

-----------------------------------------------------------------------------
(* Properties. *)

HistoryTypeOK ==
    /\ hs \in [active : Episodes \cup {"none"}, started : BOOLEAN,
               latest : Positions]
    /\ writer \in [pending : Positions \cup {NoPosition}, debounce : BOOLEAN,
                   interval : BOOLEAN, of : Episodes \cup {"none"}]
    /\ hdb \in [progress : [Episodes -> Positions \cup {NoPosition}],
                history : [Episodes -> Positions \cup {NoPosition}],
                paused : BOOLEAN]

\* A position that was recorded is never lost between the timers, the pauses,
\* the changes of episode and the deletions: it is in the history, or it waits
\* for timers that are armed, for the episode that plays.  And a write that
\* waits is never one for an episode that has been deleted or left, nor one
\* that was due before the recording was paused.
ProgressKept ==
    /\ HasPending(writer) =>
          /\ Records(hs, hdb) /\ writer.of = hs.active
          /\ writer.pending = hs.latest
          /\ writer.debounce /\ writer.interval
    /\ (Records(hs, hdb) /\ ~HasPending(writer)) =>
          hdb.history[hs.active] = hs.latest
=============================================================================
