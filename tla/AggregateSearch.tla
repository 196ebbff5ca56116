-------------------------- MODULE AggregateSearch --------------------------
(***************************************************************************)
(* AggregateSearchCoordinator (src/search/aggregate-search.ts) as          *)
(* DesktopSpiderImport.aggregateSearch uses it, a coordinator for each     *)
(* search, and the SourceHealthRegistry (src/health/source-health.ts) that *)
(* it shares with the sessions: an answer is tracked by the session and,   *)
(* with the timeout, by the coordinator.                                   *)
(*                                                                         *)
(* What is found, its grouping and order, and the metrics are left out.    *)
(***************************************************************************)
EXTENDS Naturals, FiniteSets

CONSTANTS
    Searches,            \* calls of aggregateSearch
    Sources,             \* the enabled sites
    FailureThreshold     \* of SourceHealthRegistry

ASSUME SearchBounds ==
    /\ "none" \notin Searches
    /\ FailureThreshold \in Nat \ {0}
    /\ IsFiniteSet(Sources)

VARIABLES
    searchRun, \* SearchRun, and the call, of each search
    part,      \* its part for each source
    active,    \* the run whose results count, or "none"
    shown,     \* the snapshot of the coordinator: of which run, what status,
               \* and how many sources it counts as completed
    health     \* MutableHealth

searchVars == <<searchRun, part, active, shown, health>>

Settled_ == {"success", "error", "timeout"}

SearchInit ==
    /\ searchRun = [q \in Searches |-> "idle"]
    /\ part = [q \in Searches |-> [s \in Sources |->
                 [stat |-> "pending", inner |-> "no", outer |-> FALSE]]]
    /\ active = "none"
    /\ shown = [of |-> "none", status |-> "none", completed |-> 0]
    /\ health = [s \in Sources |-> [failures |-> 0, cooling |-> FALSE]]

-----------------------------------------------------------------------------
(* SourceHealthRegistry. *)

RecordSuccess(h, s) == [h EXCEPT ![s] = [failures |-> 0, cooling |-> FALSE]]

\* consecutiveFailures is counted up to the threshold.
RecordFailure(h, s) ==
    LET failures == IF h[s].failures < FailureThreshold
                    THEN h[s].failures + 1 ELSE h[s].failures
    IN  [h EXCEPT ![s] = [failures |-> failures,
             cooling |-> @.cooling \/ failures >= FailureThreshold]]

Record(h, s, ok) == IF ok THEN RecordSuccess(h, s) ELSE RecordFailure(h, s)

\* cooldownUntil passes; the count of the failures stays.
CooldownElapses(s) ==
    /\ health[s].cooling
    /\ health' = [health EXCEPT ![s].cooling = FALSE]
    /\ UNCHANGED <<searchRun, part, active, shown>>

\* retry, of reinitializeSite.
RetrySource(s) ==
    /\ health' = [health EXCEPT ![s] = [failures |-> 0, cooling |-> FALSE]]
    /\ UNCHANGED <<searchRun, part, active, shown>>

-----------------------------------------------------------------------------
(* The coordinator. *)

Completed(q, p) == Cardinality({s \in Sources : p[q][s].stat \in Settled_})
Shows(q, status, p) == [of |-> q, status |-> status,
                        completed |-> Completed(q, p)]

\* search: what is active is cancelled, the sources that cool down are
\* skipped, and every other is asked at once.
Search(q) ==
    /\ searchRun[q] = "idle"
    /\ searchRun' = [p \in Searches |-> IF p = q THEN "running"
                                  ELSE IF p = active THEN "cancelled"
                                  ELSE searchRun[p]]
    /\ part' = [part EXCEPT ![q] = [s \in Sources |->
          IF health[s].cooling
          THEN [stat |-> "skipped", inner |-> "no", outer |-> FALSE]
          ELSE [stat |-> "running", inner |-> "session", outer |-> TRUE]]]
    /\ active' = q
    /\ shown' = Shows(q, "running", part')
    /\ UNCHANGED health

\* cancelAggregateSearch, and an import or the close of the application.
CancelSearch ==
    /\ active # "none"
    /\ searchRun' = [searchRun EXCEPT ![active] = "cancelled"]
    /\ shown' = [shown EXCEPT !.status = "cancelled"]
    /\ active' = "none"
    /\ UNCHANGED <<part, health>>

\* A bug: a result is not compared with the run that is active.
MutIsCurrent(q) == TRUE

IsCurrent(q) == searchRun[q] = "running" /\ active = q

\* The part of a source is over for the coordinator: the outcome is recorded
\* by its track, and counts while the run does.
OuterEnds(q, s, stat, h, inner) ==
    /\ part' = [part EXCEPT ![q][s] =
          [stat |-> IF IsCurrent(q) THEN stat ELSE @.stat,
           inner |-> inner, outer |-> FALSE]]
    /\ health' = Record(h, s, stat = "success")
    /\ shown' = IF IsCurrent(q) THEN Shows(q, "running", part') ELSE shown
    /\ UNCHANGED <<searchRun, active>>

\* The same where the coordinator has given up already: only the session's.
LateEnd(q, s, h) ==
    /\ part' = [part EXCEPT ![q][s].inner = "no"]
    /\ health' = h
    /\ UNCHANGED <<searchRun, active, shown>>

InnerEnds(q, s, stat, h) ==
    IF part[q][s].outer THEN OuterEnds(q, s, stat, h, "no")
    ELSE LateEnd(q, s, h)

\* ensureSiteSession: a session that opens, or not, which its own track of
\* "init" records.
SessionReady(q, s) ==
    /\ part[q][s].inner = "session"
    /\ ~health[s].cooling
    /\ part' = [part EXCEPT ![q][s].inner = "asked"]
    /\ UNCHANGED <<searchRun, active, shown, health>>

SessionFails(q, s) ==
    /\ part[q][s].inner = "session"
    /\ \E tracked \in BOOLEAN :
          InnerEnds(q, s, "error",
                    IF tracked THEN RecordFailure(health, s) ELSE health)

\* The circuit has opened meanwhile: the session's track throws.
CircuitOpen(q, s) ==
    /\ part[q][s].inner = "session" /\ health[s].cooling
    /\ InnerEnds(q, s, "error", health)

\* searchContent answers; a page that cannot be read is an error only of the
\* coordinator.
SearchAnswers(q, s) ==
    /\ part[q][s].inner = "asked"
    /\ \/ InnerEnds(q, s, "success", RecordSuccess(health, s))
       \/ InnerEnds(q, s, "error", RecordSuccess(health, s))
       \/ InnerEnds(q, s, "error", RecordFailure(health, s))

\* A bug: the timeout waits for the answer all the same.
MutSearchTimeout(q, s) ==
    /\ part[q][s].outer /\ part[q][s].inner = "no"
    /\ OuterEnds(q, s, "timeout", health, "no")

\* withTimeout; the session's request goes on.
SearchTimeout(q, s) ==
    /\ part[q][s].outer
    /\ OuterEnds(q, s, "timeout", health, part[q][s].inner)

\* Promise.all: every part is over, and the call returns.
SearchReturns(q) ==
    /\ searchRun[q] \in {"running", "cancelled"}
    /\ \A s \in Sources : ~part[q][s].outer
    /\ searchRun' = [searchRun EXCEPT ![q] = IF IsCurrent(q) THEN "complete"
                                 ELSE "superseded"]
    /\ active' = IF IsCurrent(q) THEN "none" ELSE active
    /\ shown' = IF IsCurrent(q) THEN Shows(q, "complete", part) ELSE shown
    /\ UNCHANGED <<part, health>>

SearchNext ==
    \/ \E q \in Searches :
          \/ Search(q) \/ SearchReturns(q)
          \/ \E s \in Sources :
                \/ SessionReady(q, s) \/ SessionFails(q, s)
                \/ CircuitOpen(q, s) \/ SearchAnswers(q, s)
                \/ SearchTimeout(q, s)
    \/ CancelSearch
    \/ \E s \in Sources : CooldownElapses(s) \/ RetrySource(s)

\* Timers fire and promises settle.  No source is assumed to answer.
SearchFairness ==
    \A q \in Searches :
        /\ WF_searchVars(SearchReturns(q))
        /\ \A s \in Sources : WF_searchVars(SearchTimeout(q, s))

SearchSpec == SearchInit /\ [][SearchNext]_searchVars /\ SearchFairness

-----------------------------------------------------------------------------
(* Properties. *)

SearchTypeOK ==
    /\ searchRun \in [Searches -> {"idle", "running", "cancelled", "complete",
                             "superseded"}]
    /\ part \in [Searches -> [Sources ->
          [stat : {"pending", "running", "skipped"} \cup Settled_,
           inner : {"no", "session", "asked"}, outer : BOOLEAN]]]
    /\ active \in Searches \cup {"none"}
    /\ shown \in [of : Searches \cup {"none"}, completed : 0..Cardinality(Sources),
                  status : {"none", "running", "cancelled", "complete"}]
    /\ health \in [Sources -> [failures : 0..FailureThreshold,
                               cooling : BOOLEAN]]

\* Late answers of a search that another one replaced, or that was cancelled,
\* never show: what is shown is of the search that began last, it counts
\* exactly its settled sources, it says "running" as long as that search is
\* active, and "complete" only where that search was never cancelled and has
\* heard of every source.
SearchIsolated ==
    shown.of # "none" =>
        /\ active \in {"none", shown.of}
        /\ shown.status = "running" <=> active = shown.of
        /\ shown.completed = Completed(shown.of, part)
        /\ shown.status = "complete" =>
              /\ searchRun[shown.of] = "complete"
              /\ \A s \in Sources :
                    part[shown.of][s].stat \in Settled_ \cup {"skipped"}

\* Every search returns, though no source ever answers.
SearchSettles ==
    \A q \in Searches :
        searchRun[q] = "running" ~> searchRun[q] \in {"complete", "superseded"}
=============================================================================
