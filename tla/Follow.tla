------------------------------- MODULE Follow -------------------------------
(***************************************************************************)
(* FollowService (src/follow/follow-service.ts): series that the user      *)
(* follows, and a check that asks the source of each for its latest        *)
(* episode while the user goes on.                                         *)
(*                                                                         *)
(* Episodes are numbers, 0 is none.  A record is what the checks, the      *)
(* marks and the history write of it; the error of a check is left out.    *)
(***************************************************************************)
EXTENDS Naturals, FiniteSets, Sequences

CONSTANTS
    Series,               \* identities
    FollowSources,        \* the sources they may be of
    MaxConcurrentChecks,
    MaxEpisode            \* bound: the number of an episode

ASSUME FollowBounds == /\ MaxConcurrentChecks \in Nat \ {0}
                       /\ MaxEpisode \in Nat \ {0}
                       /\ IsFiniteSet(Series)

VARIABLES
    fdb,      \* the rows of follow_items
    check,    \* runChecks, while checkPromise is set
    sourceOf  \* the source of each series, which is part of its identity

followVars == <<fdb, check, sourceOf>>

NoRecord == [followed |-> FALSE, latest |-> 0, watched |-> 0, news |-> FALSE]
CheckIdle == [under |-> FALSE, copy |-> [i \in Series |-> NoRecord],
         chain |-> [i \in Series |-> "no"], limiter |-> <<>>]

FollowInit == /\ fdb = [i \in Series |-> NoRecord]
              /\ check = CheckIdle
              /\ sourceOf \in [Series -> FollowSources]

Followed == {i \in Series : fdb[i].followed}

-----------------------------------------------------------------------------
(* The user. *)

FollowSeries(i, latest) ==
    /\ ~fdb[i].followed
    /\ fdb' = [fdb EXCEPT ![i] = [NoRecord EXCEPT !.followed = TRUE,
                                                  !.latest = latest]]
    /\ UNCHANGED <<check, sourceOf>>

\* unfollow, and toggle of a series that is followed.
Unfollow(i) ==
    /\ fdb[i].followed
    /\ fdb' = [fdb EXCEPT ![i] = NoRecord]
    /\ UNCHANGED <<check, sourceOf>>

MarkWatched(i) ==
    /\ fdb[i].followed /\ fdb[i].latest # 0
    /\ fdb' = [fdb EXCEPT ![i].watched = fdb[i].latest, ![i].news = FALSE]
    /\ UNCHANGED <<check, sourceOf>>

\* syncWatchedFromHistory, of a history whose furthest episode is seen.
Synced(r, seen) ==
    IF ~r.followed \/ seen =< r.watched THEN r
    ELSE [r EXCEPT !.watched = seen, !.news = r.latest \notin {0, seen}]

\* uiState, which every answer of the server has, after some playing.
ShowFollows ==
    /\ \E seen \in [Series -> 0..MaxEpisode] :
          fdb' = [i \in Series |-> Synced(fdb[i], seen[i])]
    /\ UNCHANGED <<check, sourceOf>>

MarkUnwatched(i) ==
    /\ fdb[i].followed
    /\ \E seen \in [Series -> 0..MaxEpisode] :
          fdb' = [j \in Series |->
             IF j = i THEN [Synced(fdb[j], seen[j]) EXCEPT
                               !.news = (fdb[j].latest # 0)]
             ELSE Synced(fdb[j], seen[j])]
    /\ UNCHANGED <<check, sourceOf>>

-----------------------------------------------------------------------------
(* The check.  chain: "queued" behind a check of the same source,           *)
(* "limited" in the queue of the limiter, "asking" the source, "done".      *)

Asking(c) == {i \in Series : c.chain[i] = "asking"}
Busy(c, source) == {i \in Series : /\ sourceOf[i] = source
                                   /\ c.chain[i] \in {"limited", "asking"}}

\* limiter.run of those whose turn has come.
Enters(c, i) ==
    IF Cardinality(Asking(c)) < MaxConcurrentChecks
    THEN [c EXCEPT !.chain[i] = "asking"]
    ELSE [c EXCEPT !.chain[i] = "limited", !.limiter = Append(@, i)]

\* A bug: the chain of the source is not extended.
MutTurnComes(i) == check.chain[i] = "queued"

\* The first of its source that is left, or the next when one is done.
TurnComes(i) ==
    check.chain[i] = "queued" /\ Busy(check, sourceOf[i]) = {}

CheckTurn(i) ==
    /\ TurnComes(i)
    /\ check' = Enters(check, i)
    /\ UNCHANGED <<fdb, sourceOf>>

\* check: a copy of every record; a second call waits for the same promise.
Check ==
    /\ ~check.under /\ Followed # {}
    /\ check' = [under |-> TRUE, copy |-> fdb, limiter |-> <<>>,
                 chain |-> [i \in Series |-> IF fdb[i].followed THEN "queued"
                                             ELSE "no"]]
    /\ UNCHANGED <<fdb, sourceOf>>

\* The one that ends gives its place to the first that waits.
Lets(c, i) ==
    LET d == [c EXCEPT !.chain[i] = "done"]
    IN  IF d.limiter = <<>> THEN d
        ELSE [d EXCEPT !.chain[Head(d.limiter)] = "asking", !.limiter = Tail(@)]

\* applyDetail, of checkOne: the copy with what the source says, written over
\* the row.
Applied(r, latest) ==
    [r EXCEPT !.latest = latest,
              !.news = \/ r.latest # 0 /\ latest # r.latest
                       \/ r.watched # 0 /\ latest # r.watched
                       \/ latest = 0 /\ r.news]

CheckOne(i) ==
    /\ check.chain[i] = "asking"
    /\ \/ \E latest \in 0..MaxEpisode :
             fdb' = [fdb EXCEPT ![i] = Applied(check.copy[i], latest)]
       \/ fdb' = [fdb EXCEPT ![i] = check.copy[i]]
    /\ check' = Lets(check, i)
    /\ UNCHANGED sourceOf

CheckReturns ==
    /\ check.under
    /\ \A i \in Series : check.chain[i] \in {"no", "done"}
    /\ check' = CheckIdle
    /\ UNCHANGED <<fdb, sourceOf>>

FollowNext ==
    \/ \E i \in Series :
          \/ \E latest \in 0..MaxEpisode : FollowSeries(i, latest)
          \/ Unfollow(i) \/ MarkWatched(i) \/ MarkUnwatched(i)
          \/ CheckTurn(i) \/ CheckOne(i)
    \/ ShowFollows \/ Check \/ CheckReturns

FollowSpec == FollowInit /\ [][FollowNext]_followVars

-----------------------------------------------------------------------------
(* Properties. *)

FollowTypeOK ==
    LET Record == [followed : BOOLEAN, latest : 0..MaxEpisode,
                   watched : 0..MaxEpisode, news : BOOLEAN]
    IN  /\ fdb \in [Series -> Record]
        /\ sourceOf \in [Series -> FollowSources]
        /\ check \in [under : BOOLEAN, copy : [Series -> Record],
                      chain : [Series -> {"no", "queued", "limited", "asking",
                                          "done"}],
                      limiter : Seq(Series)]

\* A check is gentle and stalls nowhere: never more than MaxConcurrentChecks
\* sources are asked at once, one series of a source at a time; who waits for
\* the limiter is in its queue once, and only while every place is taken, so
\* that some series is asked, or next of its source, until all are done.
FollowPaced ==
    /\ Cardinality(Asking(check)) =< MaxConcurrentChecks
    /\ \A i \in Series : Cardinality(Busy(check, sourceOf[i])) =< 1
    /\ check.limiter # <<>> => Cardinality(Asking(check)) = MaxConcurrentChecks
    /\ \A i \in Series : (check.chain[i] = "limited") =
          (Cardinality({k \in DOMAIN check.limiter : check.limiter[k] = i}) = 1)
=============================================================================
