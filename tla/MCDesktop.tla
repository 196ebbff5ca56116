------------------------------ MODULE MCDesktop ------------------------------
(***************************************************************************)
(* The safety of the parts of the desktop that do not meet, in one run.  A *)
(* behaviour is one of one of them, and the others stay as they began.     *)
(*                                                                         *)
(* The sets of calls, rows and sessions of the parts share two sets of     *)
(* model values, each of interchangeable ones, and values of their own.    *)
(***************************************************************************)
EXTENDS SpiderSessions, Push, Follow, History, Cast, AggregateSearch,
        LocalMedia, TLC

CONSTANT MaxBegun   \* bound: how many of the calls on sessions are made

Symmetry == Permutations(SsSearches) \cup Permutations(SsResets)

VARIABLE lane

Lanes == {"sessions", "push", "follow", "history", "cast", "search", "media"}

\* Where a part does not move, it matters not how it began; nor which source
\* a series is of, but whether another is of the same.
FirstSource == CHOOSE s \in FollowSources : TRUE

DesktopInit ==
    /\ SsInit /\ PushInit /\ FollowInit /\ HistoryInit /\ CastInit /\ SearchInit
    /\ LmInit
    /\ lane \in Lanes
    /\ IF lane = "follow" THEN \E i \in Series : sourceOf[i] = FirstSource
       ELSE sourceOf = [i \in Series |-> FirstSource]

\* The calls on sessions that were made.
Begun == Cardinality({c \in SsCalls : ssPc[c].at # "idle"})
         + Cardinality({c \in SsResets : ssReset[c].at # "idle"})

SessionsMove ==
    /\ lane = "sessions" /\ SsNext /\ Begun' <= MaxBegun
    /\ UNCHANGED <<pushVars, followVars, histVars, castVars, searchVars,
                   lmVars, lane>>
PushMoves ==
    /\ lane = "push" /\ PushNext
    /\ UNCHANGED <<ssVars, followVars, histVars, castVars, searchVars, lmVars,
                   lane>>
FollowMoves ==
    /\ lane = "follow" /\ FollowNext
    /\ UNCHANGED <<ssVars, pushVars, histVars, castVars, searchVars, lmVars,
                   lane>>
HistoryMoves ==
    /\ lane = "history" /\ HistoryNext
    /\ UNCHANGED <<ssVars, pushVars, followVars, castVars, searchVars, lmVars,
                   lane>>
CastMoves ==
    /\ lane = "cast" /\ CastNext
    /\ UNCHANGED <<ssVars, pushVars, followVars, histVars, searchVars, lmVars,
                   lane>>
SearchMoves ==
    /\ lane = "search" /\ SearchNext
    /\ UNCHANGED <<ssVars, pushVars, followVars, histVars, castVars, lmVars,
                   lane>>
MediaMoves ==
    /\ lane = "media" /\ LmNext
    /\ UNCHANGED <<ssVars, pushVars, followVars, histVars, castVars, searchVars,
                   lane>>

DesktopNext == \/ SessionsMove \/ PushMoves \/ FollowMoves
               \/ HistoryMoves \/ CastMoves \/ SearchMoves \/ MediaMoves

DesktopSpec ==
    DesktopInit /\ [][DesktopNext]_<<ssVars, pushVars, followVars, histVars,
                                     castVars, searchVars, lmVars, lane>>

\* Every variable of the parts has its type.
DesktopTypeOK ==
    /\ SsTypeOK /\ PushTypeOK /\ FollowTypeOK /\ HistoryTypeOK
    /\ CastTypeOK /\ SearchTypeOK /\ LmTypeOK
=============================================================================
