--------------------------- MODULE ServicesProofs ---------------------------
(*****************************************************************************)
(* The services behind the window, for any number of sources, requests,      *)
(* series and episodes: what is shown of a search is of the search that is   *)
(* shown, every push is in one place and its record says which, a check of   *)
(* the followed series is paced, and a position that was recorded stays.     *)
(*                                                                           *)
(* Each part has its inductive invariant: the property a run checks, and why *)
(* it goes on to hold (SearchInv, PushInv, FollowInv, HistoryInv).           *)
(*****************************************************************************)
EXTENDS AggregateSearch, Push, Follow, History, FiniteSetTheorems,
        SequenceTheorems, TLAPS

(* AggregateSearch. *)

\* SearchIsolated, and the run that is active: it is shown, it was not
\* cancelled, and every source it has not heard of is still waited for.
SearchInv ==
    /\ SearchTypeOK /\ SearchIsolated
    /\ active # "none" =>
          /\ shown.of = active /\ searchRun[active] = "running"
          /\ \A s \in Sources :
                part[active][s].outer
                \/ part[active][s].stat \in Settled_ \cup {"skipped"}

LEMMA CompletedBounded ==
  ASSUME NEW q, NEW p
  PROVE  Completed(q, p) \in 0..Cardinality(Sources)
<1> DEFINE S == {s \in Sources : p[q][s].stat \in Settled_}
<1>1. /\ IsFiniteSet(S) /\ Cardinality(S) <= Cardinality(Sources)
  BY SearchBounds, FS_Subset, S \subseteq Sources
<1>2. Cardinality(S) \in Nat /\ Cardinality(Sources) \in Nat
  BY <1>1, SearchBounds, FS_CardinalityType
<1> QED
  BY <1>1, <1>2 DEF Completed

\* Only the stat of a part is counted.
LEMMA CompletedKept ==
  ASSUME NEW q, NEW p1, NEW p2,
         \A s \in Sources : p1[q][s].stat = p2[q][s].stat
  PROVE  Completed(q, p1) = Completed(q, p2)
<1>1. {s \in Sources : p1[q][s].stat \in Settled_} =
      {s \in Sources : p2[q][s].stat \in Settled_}
  OBVIOUS
<1> QED
  BY <1>1 DEF Completed

LEMMA HealthTyped ==
  ASSUME SearchTypeOK, NEW s \in Sources
  PROVE  /\ RecordSuccess(health, s) \in
               [Sources -> [failures : 0..FailureThreshold, cooling : BOOLEAN]]
         /\ RecordFailure(health, s) \in
               [Sources -> [failures : 0..FailureThreshold, cooling : BOOLEAN]]
  BY SearchBounds DEF SearchTypeOK, RecordSuccess, RecordFailure

\* A part ends for the coordinator, whatever the session records besides.
LEMMA OuterEndsStep ==
  ASSUME SearchInv, NEW q \in Searches, NEW s \in Sources,
         NEW stat \in {"success", "error", "timeout"}, NEW h,
         h \in {health, RecordSuccess(health, s), RecordFailure(health, s)},
         NEW inner \in {"no", "session", "asked"},
         OuterEnds(q, s, stat, h, inner)
  PROVE  SearchInv'
<1> USE SearchBounds
<1>1. h \in [Sources -> [failures : 0..FailureThreshold, cooling : BOOLEAN]]
  BY HealthTyped DEF SearchInv, SearchTypeOK
<1>2. health' \in [Sources -> [failures : 0..FailureThreshold, cooling : BOOLEAN]]
  BY <1>1 DEF OuterEnds, Record, RecordSuccess, RecordFailure
<1>3. part' \in [Searches -> [Sources ->
          [stat : {"pending", "running", "skipped"} \cup Settled_,
           inner : {"no", "session", "asked"}, outer : BOOLEAN]]]
  BY DEF OuterEnds, SearchInv, SearchTypeOK, Settled_
<1>4. \A p \in Searches, t \in Sources : <<p, t>> # <<q, s>> => part'[p][t] = part[p][t]
  BY DEF OuterEnds, SearchInv, SearchTypeOK
<1>5. /\ part'[q][s].stat = IF IsCurrent(q) THEN stat ELSE part[q][s].stat
      /\ ~part'[q][s].outer
  BY DEF OuterEnds, SearchInv, SearchTypeOK
<1>6. CASE IsCurrent(q)
  <2>1. shown' = [of |-> q, status |-> "running", completed |-> Completed(q, part')]
        /\ UNCHANGED <<searchRun, active>> /\ active = q /\ searchRun[q] = "running"
    BY <1>6 DEF OuterEnds, Shows, IsCurrent
  <2>2. Completed(q, part') \in 0..Cardinality(Sources)
    BY CompletedBounded
  <2>3. SearchTypeOK'
    BY <1>2, <1>3, <2>1, <2>2 DEF SearchInv, SearchTypeOK
  <2>4. SearchIsolated'
    BY <2>1 DEF SearchIsolated, Completed
  <2>5. \A t \in Sources : part'[q][t].outer
            \/ part'[q][t].stat \in Settled_ \cup {"skipped"}
    BY <1>4, <1>5, <1>6, <2>1 DEF SearchInv, Settled_
  <2> QED
    BY <2>1, <2>3, <2>4, <2>5 DEF SearchInv
<1>7. CASE ~IsCurrent(q)
  <2>1. UNCHANGED <<shown, searchRun, active>>
    BY <1>7 DEF OuterEnds
  <2>2. \A p \in Searches, t \in Sources : part'[p][t].stat = part[p][t].stat
    BY <1>4, <1>5, <1>7
  <2>3. \A p \in Searches : Completed(p, part') = Completed(p, part)
    BY <2>2, CompletedKept
  <2>4. SearchTypeOK'
    BY <1>2, <1>3, <2>1 DEF SearchInv, SearchTypeOK
  <2>5. SearchIsolated'
    <3>1. shown.of # "none" =>
            /\ shown.of \in Searches
            /\ active \in {"none", shown.of}
            /\ shown.status = "running" <=> active = shown.of
            /\ shown.completed = Completed(shown.of, part')
            /\ shown.status = "complete" =>
                  /\ searchRun[shown.of] = "complete"
                  /\ \A t \in Sources :
                        part'[shown.of][t].stat \in Settled_ \cup {"skipped"}
      BY <2>2, <2>3 DEF SearchInv, SearchTypeOK, SearchIsolated
    <3> QED
      BY <2>1, <3>1 DEF SearchIsolated, Completed
  <2>6. active # "none" => active # q
    BY <1>7 DEF IsCurrent, SearchInv
  <2> QED
    BY <1>4, <2>1, <2>4, <2>5, <2>6 DEF SearchInv, SearchTypeOK
<1> QED
  BY <1>6, <1>7

LEMMA LateEndStep ==
  ASSUME SearchInv, NEW q \in Searches, NEW s \in Sources,
         NEW h \in {health, RecordSuccess(health, s), RecordFailure(health, s)},
         NEW inner \in {"no", "asked"},
         part' = [part EXCEPT ![q][s].inner = inner], health' = h,
         UNCHANGED <<searchRun, active, shown>>
  PROVE  SearchInv'
<1>1. h \in [Sources -> [failures : 0..FailureThreshold, cooling : BOOLEAN]]
  BY HealthTyped DEF SearchInv, SearchTypeOK
<1>2. /\ part' \in [Searches -> [Sources ->
            [stat : {"pending", "running", "skipped"} \cup Settled_,
             inner : {"no", "session", "asked"}, outer : BOOLEAN]]]
      /\ \A p \in Searches, t \in Sources :
            part'[p][t].stat = part[p][t].stat /\ part'[p][t].outer = part[p][t].outer
  <2> DEFINE Parts == [stat : {"pending", "running", "skipped"} \cup Settled_,
                       inner : {"no", "session", "asked"}, outer : BOOLEAN]
  <2>1. /\ part \in [Searches -> [Sources -> Parts]]
        /\ part' = [part EXCEPT ![q] = [part[q] EXCEPT ![s] =
                                         [part[q][s] EXCEPT !.inner = inner]]]
    BY DEF SearchInv, SearchTypeOK
  <2>2. /\ part[q][s] \in Parts
        /\ [part[q][s] EXCEPT !.inner = inner] \in Parts
    <3>1. part[q][s] \in Parts
      <4> HIDE DEF Parts
      <4> QED
        BY <2>1
    <3> QED
      BY <3>1
  <2>3. /\ [part[q][s] EXCEPT !.inner = inner].stat = part[q][s].stat
        /\ [part[q][s] EXCEPT !.inner = inner].outer = part[q][s].outer
    BY <2>2
  <2> DEFINE now == [part[q][s] EXCEPT !.inner = inner]
  <2> HIDE DEF Parts, now
  <2> QED
    BY <2>1, <2>2, <2>3 DEF now, Parts
<1>3. \A p \in Searches : Completed(p, part') = Completed(p, part)
  BY <1>2, CompletedKept, ZenonT(30)
<1>4. SearchTypeOK'
  BY <1>1, <1>2 DEF SearchInv, SearchTypeOK
<1>5. SearchIsolated'
  <2>1. shown.of # "none" => shown.of \in Searches
    BY DEF SearchInv, SearchTypeOK
  <2>2. shown.of # "none" =>
           Completed(shown.of, part') = Completed(shown.of, part)
    BY <1>3, <2>1
  <2> QED
    BY <1>2, <2>1, <2>2 DEF SearchInv, SearchIsolated
<1> QED
  BY <1>2, <1>4, <1>5 DEF SearchInv, SearchTypeOK

LEMMA InnerEndsStep ==
  ASSUME SearchInv, NEW q \in Searches, NEW s \in Sources,
         NEW stat \in {"success", "error"},
         NEW h \in {health, RecordSuccess(health, s), RecordFailure(health, s)},
         InnerEnds(q, s, stat, h)
  PROVE  SearchInv'
<1>1. CASE part[q][s].outer
  BY <1>1, OuterEndsStep DEF InnerEnds
<1>2. CASE ~part[q][s].outer
  BY <1>2, LateEndStep DEF InnerEnds, LateEnd
<1> QED
  BY <1>1, <1>2

LEMMA SearchStep ==
  ASSUME SearchInv, NEW q \in Searches, Search(q)
  PROVE  SearchInv'
<1> USE SearchBounds
<1>1. shown' = [of |-> q, status |-> "running", completed |-> Completed(q, part')]
      /\ active' = q /\ UNCHANGED health
  BY DEF Search, Shows
<1>2. Completed(q, part') \in 0..Cardinality(Sources)
  BY CompletedBounded
<1>3. /\ part' \in [Searches -> [Sources ->
            [stat : {"pending", "running", "skipped"} \cup Settled_,
             inner : {"no", "session", "asked"}, outer : BOOLEAN]]]
      /\ \A s \in Sources : part'[q][s].outer \/ part'[q][s].stat = "skipped"
  BY DEF Search, SearchInv, SearchTypeOK, Settled_
<1>4. searchRun' \in [Searches -> {"idle", "running", "cancelled", "complete",
                             "superseded"}]
      /\ searchRun'[q] = "running"
  BY DEF Search, SearchInv, SearchTypeOK
<1>5. SearchTypeOK'
  BY <1>1, <1>2, <1>3, <1>4 DEF SearchInv, SearchTypeOK
<1>6. SearchIsolated'
  BY <1>1 DEF SearchIsolated, Completed
<1> QED
  BY <1>1, <1>3, <1>4, <1>5, <1>6 DEF SearchInv

LEMMA SearchReturnsStep ==
  ASSUME SearchInv, NEW q \in Searches, SearchReturns(q)
  PROVE  SearchInv'
<1> USE SearchBounds
<1>1. CASE IsCurrent(q)
  <2>1. /\ shown' = [of |-> q, status |-> "complete",
                     completed |-> Completed(q, part)]
        /\ active' = "none" /\ UNCHANGED <<part, health>>
        /\ searchRun' = [searchRun EXCEPT ![q] = "complete"]
        /\ active = q
    BY <1>1 DEF SearchReturns, Shows, IsCurrent
  <2>2. Completed(q, part) \in 0..Cardinality(Sources)
    BY CompletedBounded
  <2>3. SearchTypeOK'
    BY <2>1, <2>2 DEF SearchInv, SearchTypeOK
  <2>4. \A s \in Sources : part[q][s].stat \in Settled_ \cup {"skipped"}
    BY <2>1 DEF SearchInv, SearchReturns
  <2>5. SearchIsolated'
    BY <2>1, <2>4 DEF SearchInv, SearchTypeOK, SearchIsolated, Completed
  <2> QED
    BY <2>1, <2>3, <2>5 DEF SearchInv
<1>2. CASE ~IsCurrent(q)
  <2>1. /\ UNCHANGED <<active, shown, part, health>>
        /\ searchRun' = [searchRun EXCEPT ![q] = "superseded"]
        /\ searchRun[q] \in {"running", "cancelled"}
    BY <1>2 DEF SearchReturns
  <2>2. active # "none" => active # q
    BY <1>2 DEF IsCurrent, SearchInv
  <2>3. SearchTypeOK'
    BY <2>1 DEF SearchInv, SearchTypeOK
  <2>4. SearchIsolated'
    BY <2>1 DEF SearchInv, SearchTypeOK, SearchIsolated, Completed
  <2> QED
    BY <2>1, <2>2, <2>3, <2>4 DEF SearchInv, SearchTypeOK
<1> QED
  BY <1>1, <1>2

LEMMA SearchInvStep ==
  ASSUME SearchInv, [SearchNext]_searchVars
  PROVE  SearchInv'
<1> USE SearchBounds
<1>1. ASSUME NEW q \in Searches, NEW s \in Sources,
             \/ SessionReady(q, s) \/ SessionFails(q, s) \/ CircuitOpen(q, s)
             \/ SearchAnswers(q, s) \/ SearchTimeout(q, s)
      PROVE  SearchInv'
  <2>1. CASE SessionReady(q, s)
    BY <2>1, LateEndStep DEF SessionReady
  <2>2. CASE SessionFails(q, s)
    BY <2>2, InnerEndsStep DEF SessionFails
  <2>3. CASE CircuitOpen(q, s)
    BY <2>3, InnerEndsStep DEF CircuitOpen
  <2>4. CASE SearchAnswers(q, s)
    BY <2>4, InnerEndsStep DEF SearchAnswers
  <2>5. CASE SearchTimeout(q, s)
    <3>1. part[q][s].inner \in {"no", "session", "asked"}
      BY DEF SearchInv, SearchTypeOK
    <3> QED
      BY <2>5, <3>1, OuterEndsStep DEF SearchTimeout
  <2> QED
    BY <1>1, <2>1, <2>2, <2>3, <2>4, <2>5
<1>2. CASE CancelSearch
  <2>1. /\ active # "none" /\ active' = "none" /\ UNCHANGED <<part, health>>
        /\ searchRun' = [searchRun EXCEPT ![active] = "cancelled"]
        /\ shown' = [of |-> shown.of, status |-> "cancelled",
                     completed |-> shown.completed]
    BY <1>2 DEF CancelSearch, SearchInv, SearchTypeOK
  <2>2. SearchTypeOK'
    BY <2>1 DEF SearchInv, SearchTypeOK
  <2>3. SearchIsolated'
    BY <2>1 DEF SearchInv, SearchTypeOK, SearchIsolated, Completed
  <2> QED
    BY <2>1, <2>2, <2>3 DEF SearchInv
<1>3. ASSUME NEW s \in Sources, CooldownElapses(s) \/ RetrySource(s)
      PROVE  SearchInv'
  <2>1. health[s] \in [failures : 0..FailureThreshold, cooling : BOOLEAN]
    BY DEF SearchInv, SearchTypeOK
  <2>2. health' \in [Sources -> [failures : 0..FailureThreshold, cooling : BOOLEAN]]
    <3>1. health' = [health EXCEPT ![s] = health'[s]]
          /\ health'[s] \in [failures : 0..FailureThreshold, cooling : BOOLEAN]
      <4>1. CASE CooldownElapses(s)
        <5>1. [health[s] EXCEPT !.cooling = FALSE]
                 \in [failures : 0..FailureThreshold, cooling : BOOLEAN]
          BY <2>1
        <5>2. health' = [health EXCEPT ![s] =
                           [health[s] EXCEPT !.cooling = FALSE]]
          BY <4>1 DEF CooldownElapses
        <5> QED
          BY <5>1, <5>2 DEF SearchInv, SearchTypeOK
      <4>2. CASE RetrySource(s)
        BY <4>2 DEF RetrySource, SearchInv, SearchTypeOK
      <4> QED
        BY <1>3, <4>1, <4>2
    <3> QED
      BY <3>1 DEF SearchInv, SearchTypeOK
  <2> QED
    BY <1>3, <2>2 DEF CooldownElapses, RetrySource, SearchInv, SearchTypeOK,
       SearchIsolated, Completed
<1>4. CASE UNCHANGED searchVars
  BY <1>4 DEF searchVars, SearchInv, SearchTypeOK, SearchIsolated, Completed
<1> QED
  BY <1>1, <1>2, <1>3, <1>4, SearchStep, SearchReturnsStep DEF SearchNext

LEMMA SearchStarts == SearchInit => SearchInv
<1> SUFFICES ASSUME SearchInit PROVE SearchInv
  OBVIOUS
<1>1. 0 \in 0..Cardinality(Sources)
  BY SearchBounds, FS_CardinalityType
<1> QED
  BY <1>1, SearchBounds DEF SearchInit, SearchInv, SearchTypeOK, SearchIsolated

\* What every step of the service and every answer of a source keeps: the run
\* that is active is the one that is shown, and waits for what it has not heard.
THEOREM SearchInvariance == SearchSpec => []SearchInv
  BY SearchStarts, SearchInvStep, PTL DEF SearchSpec

\* The runs, what is shown and the health of the sources keep their types.
THEOREM SearchTyped == SearchSpec => []SearchTypeOK
<1>1. SearchInv => SearchTypeOK
  BY DEF SearchInv
<1> QED
  BY <1>1, SearchInvariance, PTL

\* Late answers of a search that was replaced or cancelled never show, for any
\* number of searches and sources (aggregateSearch, isCurrentRun).
THEOREM LateAnswersNeverShow == SearchSpec => []SearchIsolated
<1>1. SearchInv => SearchIsolated
  BY DEF SearchInv
<1> QED
  BY <1>1, SearchInvariance, PTL

-----------------------------------------------------------------------------
(* Push. *)

PushType == [enabled : BOOLEAN, pending : SUBSET PushRequests,
             queue : Seq(PushRequests),
             lock : Seq(PushRequests \cup {"drain"}),
             entered : BOOLEAN, stale : BOOLEAN,
             cur : PushRequests \cup {"none"},
             stage : {"no", "stopping", "starting"},
             draining : BOOLEAN, due : BOOLEAN]
PushStatuses == {"none", "pending-confirmation", "queued", "accepted",
                 "rejected", "failed", "cancelled"}
PushRecType == [PushRequests -> PushStatuses]
PushPcType == [PushRequests -> {"idle", "validating", "done"}]
PushMetType == [configures : 0..MaxConfigures, sessions : 0..MaxSessions,
                undrained : {"no", "stop", "error"}, refused : SUBSET PushRequests]

Holds(q, x) == \E i \in DOMAIN q : q[i] = x
Distinct(q) == \A i \in DOMAIN q, j \in DOMAIN q : q[i] = q[j] => i = j

\* The service: nobody is twice in the queue or in the chain, a drain is in the
\* chain while draining says so, what is played belongs to the head of it, and
\* a service that is off, or was changed under the head, has no queue.
PushShape(s) ==
    /\ s \in PushType
    /\ Distinct(s.queue) /\ Distinct(s.lock)
    /\ s.draining <=> Holds(s.lock, "drain")
    /\ s.entered => s.lock # <<>>
    /\ s.stale => s.entered
    /\ s.stage = "no" <=> s.cur = "none"
    /\ ~s.entered => s.cur = "none"
    /\ s.entered /\ Head(s.lock) # "drain" => s.cur = Head(s.lock)
    /\ ~s.enabled \/ s.stale => s.queue = <<>>

\* A request is in one place at most, and its record says which.
PushPlace(s, at, rec, refused, r) ==
    LET waits == Holds(s.queue, r)
        chained == Holds(s.lock, r)
        asks == r \in s.pending
        drained == s.cur = r /\ Head(s.lock) = "drain"
        nowhere == ~waits /\ ~chained /\ ~asks /\ s.cur # r
    IN  /\ at # "done" => nowhere /\ rec = "none"
        /\ asks => ~waits /\ ~chained /\ s.cur # r
        /\ waits => ~chained /\ s.cur # r
        /\ drained => ~chained
        /\ rec = "pending-confirmation" =>
              asks \/ chained \/ s.cur = r \/ refused
        /\ rec = "queued" => waits \/ drained
        /\ rec \in {"rejected", "cancelled", "failed"} => nowhere

PushInv ==
    /\ PushShape(push) /\ pushPc \in PushPcType /\ pushRec \in PushRecType
    /\ player \in PushRequests \cup {"user", "none"} /\ pushMet \in PushMetType
    /\ \A r \in PushRequests :
          PushPlace(push, pushPc[r], pushRec[r], r \in pushMet.refused, r)
    /\ push.queue # <<>> =>
          player # "none" \/ push.lock # <<>> \/ push.due \/ pushMet.undrained # "no"

-----------------------------------------------------------------------------
\* Sequences without repetition.

LEMMA NobodyWaits == Distinct(<<>>) /\ \A x : ~Holds(<<>>, x)
  BY DEF Distinct, Holds

LEMMA SeqDomain ==
  ASSUME NEW S, NEW q \in Seq(S)
  PROVE  DOMAIN q = 1..Len(q) /\ Len(q) \in Nat /\ \A i \in DOMAIN q : q[i] \in S
  BY LenProperties, ElementOfSeq

LEMMA AppendedIs ==
  ASSUME NEW S, NEW q \in Seq(S), NEW e \in S
  PROVE  /\ Append(q, e) \in Seq(S) /\ Append(q, e) # <<>>
         /\ \A x : Holds(Append(q, e), x) <=> Holds(q, x) \/ x = e
         /\ Distinct(q) /\ ~Holds(q, e) => Distinct(Append(q, e))
         /\ q # <<>> => Head(Append(q, e)) = Head(q)
         /\ q = <<>> => Head(Append(q, e)) = e
<1> DEFINE p == Append(q, e)
<1>1. /\ p \in Seq(S) /\ p # <<>> /\ Len(p) = Len(q) + 1
      /\ \A i \in 1..Len(q) : p[i] = q[i]
      /\ p[Len(q) + 1] = e
  BY AppendProperties
<1>2. /\ DOMAIN q = 1..Len(q) /\ DOMAIN p = 1..(Len(q) + 1) /\ Len(q) \in Nat
  BY <1>1, LenProperties
<1>3. q # <<>> => Head(p) = Head(q)
  BY HeadTailAppend
<1>4. q = <<>> => Head(p) = e
  BY HeadTailAppend
<1> HIDE DEF p
<1>5. \A x : Holds(p, x) <=> Holds(q, x) \/ x = e
  BY <1>1, <1>2 DEF Holds
<1>6. Distinct(q) /\ ~Holds(q, e) => Distinct(p)
  BY <1>1, <1>2 DEF Holds, Distinct
<1> QED
  BY <1>1, <1>3, <1>4, <1>5, <1>6 DEF p

LEMMA HeadIsFirst ==
  ASSUME NEW S, NEW q \in Seq(S), q # <<>>
  PROVE  Head(q) = q[1]
  OBVIOUS

LEMMA TailIs ==
  ASSUME NEW S, NEW q \in Seq(S), q # <<>>
  PROVE  /\ Tail(q) \in Seq(S) /\ Head(q) \in S /\ Holds(q, Head(q))
         /\ \A x : Holds(q, x) <=> Holds(Tail(q), x) \/ x = Head(q)
         /\ Distinct(q) => Distinct(Tail(q)) /\ ~Holds(Tail(q), Head(q))
<1> DEFINE p == Tail(q)
<1>1. /\ p \in Seq(S) /\ Len(p) = Len(q) - 1 /\ Head(q) \in S
      /\ \A i \in 1..Len(p) : p[i] = q[i + 1]
  BY HeadTailProperties
<1>2. /\ DOMAIN q = 1..Len(q) /\ DOMAIN p = 1..Len(p) /\ Len(q) \in Nat
      /\ Len(q) # 0
  BY <1>1, LenProperties, EmptySeq
<1>3. Head(q) = q[1] /\ 1 \in DOMAIN q
  BY <1>2, HeadIsFirst
<1> HIDE DEF p
<1>4. ASSUME NEW i \in DOMAIN q, i # 1
      PROVE  i - 1 \in DOMAIN p /\ p[i - 1] = q[i]
  BY <1>1, <1>2, <1>4
<1>5. ASSUME NEW i \in DOMAIN p
      PROVE  i + 1 \in DOMAIN q /\ i + 1 # 1 /\ p[i] = q[i + 1]
  BY <1>1, <1>2, <1>5
<1>6. \A x : Holds(q, x) <=> Holds(p, x) \/ x = Head(q)
  BY <1>3, <1>4, <1>5 DEF Holds
<1>7. Distinct(q) => Distinct(p)
  <2>1. \A i \in DOMAIN p, j \in DOMAIN p : i + 1 = j + 1 => i = j
    BY <1>2
  <2> QED
    BY <1>5, <2>1 DEF Distinct
<1>8. Distinct(q) => ~Holds(p, Head(q))
  BY <1>3, <1>5 DEF Distinct, Holds
<1>9. Holds(q, Head(q))
  BY <1>3 DEF Holds
<1> QED
  BY <1>1, <1>6, <1>7, <1>8, <1>9 DEF p

LEMMA SplicedIs ==
  ASSUME NEW S, NEW q \in Seq(S), NEW i \in DOMAIN q, Distinct(q)
  PROVE  /\ Spliced(q, i) \in Seq(S) /\ Distinct(Spliced(q, i))
         /\ \A x : Holds(Spliced(q, i), x) <=> Holds(q, x) /\ x # q[i]
<1> DEFINE a == SubSeq(q, 1, i - 1)
           b == SubSeq(q, i + 1, Len(q))
           p == a \o b
<1>1. /\ DOMAIN q = 1..Len(q) /\ Len(q) \in Nat /\ i \in 1..Len(q)
      /\ \A j \in DOMAIN q : q[j] \in S
  BY SeqDomain
<1>2. /\ a \in Seq(S) /\ Len(a) = i - 1 /\ \A j \in 1..(i - 1) : a[j] = q[j]
  <2>1. 1 \in Int /\ i - 1 \in Int /\ \A j \in 1..(i - 1) : q[j] \in S
    BY <1>1
  <2>2. /\ a \in Seq(S) /\ Len(a) = IF 1 <= i - 1 THEN (i - 1) - 1 + 1 ELSE 0
        /\ \A j \in 1..((i - 1) - 1 + 1) : a[j] = q[1 + j - 1]
    BY <2>1, SubSeqProperties
  <2> HIDE DEF a
  <2> QED
    BY <1>1, <2>2
<1>3. /\ b \in Seq(S) /\ Len(b) = Len(q) - i
      /\ \A j \in 1..(Len(q) - i) : b[j] = q[i + j]
  <2>1. i + 1 \in Int /\ Len(q) \in Int /\ \A j \in (i + 1)..Len(q) : q[j] \in S
    BY <1>1
  <2>2. /\ b \in Seq(S)
        /\ Len(b) = IF i + 1 <= Len(q) THEN Len(q) - (i + 1) + 1 ELSE 0
        /\ \A j \in 1..(Len(q) - (i + 1) + 1) : b[j] = q[(i + 1) + j - 1]
    BY <2>1, SubSeqProperties
  <2> HIDE DEF b
  <2>3. /\ Len(q) - (i + 1) + 1 = Len(q) - i
        /\ i + 1 > Len(q) => Len(q) - i = 0
        /\ \A j \in 1..(Len(q) - i) : (i + 1) + j - 1 = i + j
    BY <1>1
  <2>4. Len(b) = Len(q) - i
    BY <1>1, <2>2, <2>3
  <2> QED
    BY <2>2, <2>3, <2>4
<1> HIDE DEF a, b
<1>4. /\ p \in Seq(S) /\ Len(p) = Len(q) - 1
      /\ \A j \in 1..(Len(q) - 1) : p[j] = IF j < i THEN q[j] ELSE q[j + 1]
  <2>1. /\ p \in Seq(S) /\ Len(p) = Len(a) + Len(b)
        /\ \A j \in 1..(Len(a) + Len(b)) :
              p[j] = IF j <= Len(a) THEN a[j] ELSE b[j - Len(a)]
    BY <1>2, <1>3, ConcatProperties
  <2> HIDE DEF p
  <2>2. Len(a) + Len(b) = Len(q) - 1
    BY <1>1, <1>2, <1>3
  <2>3. ASSUME NEW j \in 1..(Len(q) - 1)
        PROVE  p[j] = IF j < i THEN q[j] ELSE q[j + 1]
    <3>1. p[j] = IF j <= i - 1 THEN a[j] ELSE b[j - (i - 1)]
      BY <1>2, <2>1, <2>2
    <3>2. CASE j < i
      BY <1>1, <1>2, <3>1, <3>2
    <3>3. CASE ~(j < i)
      <4>1. j - (i - 1) \in 1..(Len(q) - i) /\ i + (j - (i - 1)) = j + 1
        BY <1>1, <3>3
      <4>2. p[j] = b[j - (i - 1)]
        BY <1>1, <3>1, <3>3
      <4> QED
        BY <1>3, <3>3, <4>1, <4>2
    <3> QED
      BY <3>2, <3>3
  <2> QED
    BY <2>1, <2>2, <2>3
<1>5. Spliced(q, i) = p
  BY DEF Spliced, a, b
<1> HIDE DEF p
<1>6. DOMAIN p = 1..(Len(q) - 1)
  BY <1>4, LenProperties
<1>7. Distinct(p)
  <2> DEFINE at(j) == IF j < i THEN j ELSE j + 1
  <2>1. \A j \in DOMAIN p : at(j) \in DOMAIN q /\ p[j] = q[at(j)]
    BY <1>1, <1>4, <1>6
  <2>2. \A j \in DOMAIN p, k \in DOMAIN p : at(j) = at(k) => j = k
    BY <1>1, <1>6
  <2> HIDE DEF at
  <2> QED
    BY <2>1, <2>2 DEF Distinct
<1>8. ASSUME NEW x PROVE Holds(p, x) <=> Holds(q, x) /\ x # q[i]
  <2>1. ASSUME Holds(p, x) PROVE Holds(q, x) /\ x # q[i]
    BY <1>1, <1>4, <1>6, <2>1, SMTT(30) DEF Holds, Distinct
  <2>2. ASSUME Holds(q, x), x # q[i] PROVE Holds(p, x)
    <3>1. PICK j \in DOMAIN q : q[j] = x /\ j # i
      BY <2>2 DEF Holds
    <3>2. CASE j < i
      BY <1>1, <1>4, <1>6, <3>1, <3>2 DEF Holds
    <3>3. CASE j > i
      <4>1. j - 1 \in DOMAIN p /\ p[j - 1] = x
        BY <1>1, <1>4, <1>6, <3>1, <3>3
      <4> QED
        BY <4>1 DEF Holds
    <3> QED
      BY <1>1, <3>1, <3>2, <3>3
  <2> QED
    BY <2>1, <2>2
<1> QED
  BY <1>4, <1>5, <1>7, <1>8

-----------------------------------------------------------------------------
\* The chain of serializePlayback.

LEMMA JoinsIs ==
  ASSUME NEW s \in PushType, NEW h \in PushRequests \cup {"drain"},
         Distinct(s.lock), ~Holds(s.lock, h)
  PROVE  /\ Joins(s, h) = [s EXCEPT !.lock = Joins(s, h).lock]
         /\ Joins(s, h) \in PushType
         /\ Joins(s, h).lock # <<>> /\ Distinct(Joins(s, h).lock)
         /\ \A x : Holds(Joins(s, h).lock, x) <=> Holds(s.lock, x) \/ x = h
         /\ s.lock # <<>> => Head(Joins(s, h).lock) = Head(s.lock)
<1> DEFINE q == Append(s.lock, h)
<1>1. s.lock \in Seq(PushRequests \cup {"drain"})
  BY DEF PushType
<1>2. /\ q \in Seq(PushRequests \cup {"drain"}) /\ q # <<>> /\ Distinct(q)
      /\ \A x : Holds(q, x) <=> Holds(s.lock, x) \/ x = h
      /\ s.lock # <<>> => Head(q) = Head(s.lock)
  BY <1>1, AppendedIs
<1>3. Joins(s, h) = [s EXCEPT !.lock = q]
  BY DEF Joins
<1> HIDE DEF q
<1>4. Joins(s, h) \in PushType /\ Joins(s, h).lock = q
  BY <1>2, <1>3 DEF PushType
<1> QED
  BY <1>2, <1>3, <1>4

LEMMA LeavesIs ==
  ASSUME NEW s \in PushType, Distinct(s.lock), s.lock # <<>>
  PROVE  /\ Leaves(s) \in PushType
         /\ Leaves(s) = [s EXCEPT !.lock = Leaves(s).lock, !.entered = FALSE,
                            !.stale = FALSE, !.cur = "none", !.stage = "no"]
         /\ Distinct(Leaves(s).lock) /\ ~Holds(Leaves(s).lock, Head(s.lock))
         /\ \A x : Holds(s.lock, x) <=>
                     Holds(Leaves(s).lock, x) \/ x = Head(s.lock)
<1> DEFINE q == Tail(s.lock)
<1>1. s.lock \in Seq(PushRequests \cup {"drain"})
  BY DEF PushType
<1>2. /\ q \in Seq(PushRequests \cup {"drain"}) /\ Distinct(q)
      /\ \A x : Holds(s.lock, x) <=> Holds(q, x) \/ x = Head(s.lock)
      /\ ~Holds(q, Head(s.lock))
  BY <1>1, TailIs
<1>3. Leaves(s) = [s EXCEPT !.lock = q, !.entered = FALSE, !.stale = FALSE,
                            !.cur = "none", !.stage = "no"]
  BY DEF Leaves
<1> HIDE DEF q
<1>4. Leaves(s) \in PushType /\ Leaves(s).lock = q
  BY <1>2, <1>3 DEF PushType
<1> QED
  BY <1>2, <1>3, <1>4

\* Whoever asks for a drain: where something waits, it is in the chain then.
LEMMA DrainStartsIs ==
  ASSUME NEW s, PushShape(s)
  PROVE  /\ PushShape(DrainStarts(s))
         /\ DrainStarts(s).queue = s.queue /\ DrainStarts(s).due = s.due
         /\ DrainStarts(s).pending = s.pending /\ DrainStarts(s).cur = s.cur
         /\ \A r \in PushRequests : Holds(DrainStarts(s).lock, r)
                                     <=> Holds(s.lock, r)
         /\ s.lock # <<>> => Head(DrainStarts(s).lock) = Head(s.lock)
         /\ s.queue # <<>> \/ s.lock # <<>> => DrainStarts(s).lock # <<>>
<1>0. /\ s \in PushType /\ "drain" \notin PushRequests
      /\ ~Holds(<<>>, "drain")
  BY PushBounds, NobodyWaits DEF PushShape
<1>1. CASE s.draining \/ ~s.enabled
  <2>1. DrainStarts(s) = s
    BY <1>1 DEF DrainStarts
  <2>2. s.queue # <<>> => s.lock # <<>>
    BY <1>0, <1>1 DEF PushShape
  <2> QED
    BY <2>1, <2>2
<1>2. CASE ~(s.draining \/ ~s.enabled)
  <2> DEFINE u == [s EXCEPT !.draining = TRUE]
             t == Joins(u, "drain")
  <2>1. /\ u \in PushType /\ u.lock = s.lock /\ Distinct(u.lock)
        /\ ~Holds(u.lock, "drain")
    BY <1>0, <1>2 DEF PushType, PushShape
  <2> HIDE DEF u
  <2>2. /\ t = [u EXCEPT !.lock = t.lock] /\ t \in PushType
        /\ t.lock # <<>> /\ Distinct(t.lock)
        /\ \A x : Holds(t.lock, x) <=> Holds(s.lock, x) \/ x = "drain"
        /\ s.lock # <<>> => Head(t.lock) = Head(s.lock)
    BY <2>1, JoinsIs
  <2>3. DrainStarts(s) = t
    BY <1>2 DEF DrainStarts, u
  <2> HIDE DEF t
  <2>4. /\ t.queue = s.queue /\ t.due = s.due /\ t.pending = s.pending
        /\ t.cur = s.cur /\ t.entered = s.entered /\ t.stale = s.stale
        /\ t.stage = s.stage /\ t.draining /\ t.enabled = s.enabled
    BY <1>0, <2>2 DEF u, PushType
  <2>5. PushShape(t)
    BY <2>2, <2>4 DEF PushShape
  <2> QED
    BY <1>0, <2>2, <2>3, <2>4, <2>5
<1> QED
  BY <1>1, <1>2

\* A request whose places and record a step leaves alone stays accounted for.
LEMMA PlaceKept ==
  ASSUME NEW s, NEW t, NEW r \in PushRequests, NEW at, NEW rec, NEW refused,
         PushShape(s), PushPlace(s, at, rec, refused, r),
         Holds(t.queue, r) <=> Holds(s.queue, r),
         Holds(t.lock, r) <=> Holds(s.lock, r),
         r \in t.pending <=> r \in s.pending,
         t.cur = r <=> s.cur = r,
         s.lock # <<>> => Head(t.lock) = Head(s.lock)
  PROVE  PushPlace(t, at, rec, refused, r)
<1>1. r # "none"
  BY PushBounds
<1>2. s.cur = r => s.lock # <<>>
  BY <1>1 DEF PushShape
<1> QED
  BY <1>2 DEF PushPlace

-----------------------------------------------------------------------------
\* Requests.

LEMMA PushFacts ==
  ASSUME PushInv
  PROVE  /\ PushShape(push) /\ push \in PushType /\ pushPc \in PushPcType
         /\ pushRec \in PushRecType /\ pushMet \in PushMetType
         /\ player \in PushRequests \cup {"user", "none"}
         /\ push.queue \in Seq(PushRequests)
         /\ push.lock \in Seq(PushRequests \cup {"drain"})
         /\ Distinct(push.queue) /\ Distinct(push.lock)
         /\ "drain" \notin PushRequests /\ "none" \notin PushRequests
         /\ "user" \notin PushRequests
         /\ \A x : ~Holds(<<>>, x)
         /\ \A r \in PushRequests : pushRec[r] \in PushStatuses
  BY PushBounds, NobodyWaits DEF PushInv, PushShape, PushType, PushRecType

LEMMA JoinedKeeps ==
  ASSUME PushInv, NEW r \in PushRequests,
         push' = Joins([push EXCEPT !.pending = @ \ {r}], r),
         ~Holds(push.queue, r), ~Holds(push.lock, r), push.cur # r,
         pushRec[r] \notin {"queued", "rejected", "cancelled", "failed"},
         pushPc' \in PushPcType, pushPc'[r] = "done",
         \A x \in PushRequests : x # r => pushPc'[x] = pushPc[x],
         UNCHANGED <<pushRec, player, pushMet>>
  PROVE  PushInv'
<1> DEFINE u == [push EXCEPT !.pending = @ \ {r}]
           t == Joins(u, r)
<1>1. /\ u \in PushType /\ u.lock = push.lock /\ Distinct(u.lock)
      /\ ~Holds(u.lock, r)
  BY PushFacts DEF PushType
<1> HIDE DEF u
<1>2. /\ t = [u EXCEPT !.lock = t.lock] /\ t \in PushType
      /\ t.lock # <<>> /\ Distinct(t.lock)
      /\ \A x : Holds(t.lock, x) <=> Holds(push.lock, x) \/ x = r
      /\ push.lock # <<>> => Head(t.lock) = Head(push.lock)
  BY <1>1, JoinsIs
<1>3. push' = t
  BY DEF u
<1> HIDE DEF t
<1>4. /\ push'.queue = push.queue /\ push'.pending = push.pending \ {r}
      /\ push'.cur = push.cur /\ push'.entered = push.entered
      /\ push'.stale = push.stale /\ push'.stage = push.stage
      /\ push'.draining = push.draining /\ push'.enabled = push.enabled
  BY <1>2, <1>3, PushFacts, ZenonT(30) DEF u, PushType
<1>5. PushShape(push')
  <2>1. PushShape(push) /\ r # "drain"
    BY PushFacts
  <2> QED
    BY <1>2, <1>3, <1>4, <2>1 DEF PushShape
<1>6. PushPlace(push', pushPc'[r], pushRec'[r], r \in pushMet'.refused, r)
  BY <1>2, <1>3, <1>4 DEF PushPlace
<1>7. ASSUME NEW x \in PushRequests, x # r
      PROVE  PushPlace(push', pushPc'[x], pushRec'[x], x \in pushMet'.refused, x)
  <2>1. PushPlace(push, pushPc[x], pushRec[x], x \in pushMet.refused, x)
    BY DEF PushInv
  <2> QED
    BY <1>2, <1>3, <1>4, <1>7, <2>1, PushFacts, PlaceKept
<1> QED
  BY <1>2, <1>3, <1>5, <1>6, <1>7 DEF PushInv

LEMMA SubmitKeeps ==
  ASSUME PushInv, NEW r \in PushRequests,
         Submit(r) \/ SubmitRefused(r) \/ SubmitPending(r) \/ SubmitAccepted(r)
  PROVE  PushInv'
<1>0. PushPlace(push, pushPc[r], pushRec[r], r \in pushMet.refused, r)
  BY DEF PushInv
<1>1. CASE Submit(r) \/ SubmitRefused(r)
  <2>1. /\ UNCHANGED <<push, pushRec, player, pushMet>>
        /\ pushPc[r] # "done" /\ pushPc' \in PushPcType
        /\ \A x \in PushRequests : x # r => pushPc'[x] = pushPc[x]
    BY <1>1, PushFacts DEF Submit, SubmitRefused, PushPcType
  <2>2. \A x \in PushRequests :
          PushPlace(push, pushPc[x], pushRec[x], x \in pushMet.refused, x)
          => PushPlace(push, pushPc'[x], pushRec[x], x \in pushMet.refused, x)
    BY <1>0, <2>1 DEF PushPlace
  <2> QED
    BY <2>1, <2>2 DEF PushInv
<1>2. CASE SubmitPending(r)
  <2>1. /\ push' = [push EXCEPT !.pending = push.pending \cup {r}]
        /\ pushPc[r] # "done" /\ pushPc' \in PushPcType
        /\ pushRec' \in PushRecType /\ pushRec'[r] = "pending-confirmation"
        /\ UNCHANGED <<player, pushMet>> /\ pushPc'[r] = "done"
        /\ \A x \in PushRequests : x # r => /\ pushPc'[x] = pushPc[x]
                                            /\ pushRec'[x] = pushRec[x]
    BY <1>2, PushFacts DEF SubmitPending, PushPcType, PushRecType,
       PushStatuses
  <2>2. PushShape(push')
    BY <2>1, PushFacts DEF PushShape, PushType
  <2>3. PushPlace(push', pushPc'[r], pushRec'[r], r \in pushMet'.refused, r)
    BY <1>0, <2>1, PushFacts DEF PushPlace, PushType
  <2>4. ASSUME NEW x \in PushRequests, x # r
        PROVE  PushPlace(push', pushPc'[x], pushRec'[x], x \in pushMet'.refused, x)
    <3>1. PushPlace(push, pushPc[x], pushRec[x], x \in pushMet.refused, x)
      BY DEF PushInv
    <3>2. /\ push'.queue = push.queue /\ push'.lock = push.lock
          /\ push'.cur = push.cur
          /\ x \in push'.pending <=> x \in push.pending
      BY <2>1, <2>4, PushFacts DEF PushType
    <3>3. PushPlace(push', pushPc[x], pushRec[x], x \in pushMet.refused, x)
      BY <3>1, <3>2, PushFacts, PlaceKept
    <3> QED
      BY <2>1, <2>4, <3>3
  <2> QED
    BY <2>1, <2>2, <2>3, <2>4, PushFacts DEF PushInv, PushType
<1>3. CASE SubmitAccepted(r)
  <2>1. /\ push' = Joins(push, r)
        /\ pushPc[r] # "done" /\ pushPc' \in PushPcType /\ pushPc'[r] = "done"
        /\ UNCHANGED <<pushRec, player, pushMet>>
        /\ \A x \in PushRequests : x # r => pushPc'[x] = pushPc[x]
    BY <1>3, PushFacts DEF SubmitAccepted, PushPcType
  <2>2. ~Holds(push.lock, r) /\ pushRec[r] = "none"
    BY <1>0, <2>1 DEF PushPlace
  <2>3. /\ ~Holds(push.queue, r) /\ push.cur # r /\ r \notin push.pending
    BY <1>0, <2>1 DEF PushPlace
  <2>4. push = [push EXCEPT !.pending = @ \ {r}]
    BY <2>3, PushFacts DEF PushType
  <2> QED
    BY <2>1, <2>2, <2>3, <2>4, JoinedKeeps
<1> QED
  BY <1>1, <1>2, <1>3

\* A request that waits is taken out and its record closed.
LEMMA DroppedKeeps ==
  ASSUME PushInv, NEW r \in PushRequests, NEW q \in Seq(PushRequests),
         Distinct(q), q # <<>> => push.queue # <<>>,
         \A x \in PushRequests : Holds(q, x) <=> Holds(push.queue, x) /\ x # r,
         r \in push.pending \/ Holds(push.queue, r),
         push' = [push EXCEPT !.pending = @ \ {r}, !.queue = q],
         pushRec' \in PushRecType, pushRec'[r] \in {"rejected", "cancelled"},
         \A x \in PushRequests : x # r => pushRec'[x] = pushRec[x],
         UNCHANGED <<pushPc, player, pushMet>>
  PROVE  PushInv'
<1>0. PushPlace(push, pushPc[r], pushRec[r], r \in pushMet.refused, r)
  BY DEF PushInv
<1>1. /\ push' \in PushType
      /\ push'.queue = q /\ push'.pending = push.pending \ {r}
      /\ push'.cur = push.cur /\ push'.entered = push.entered
      /\ push'.stale = push.stale /\ push'.stage = push.stage
      /\ push'.draining = push.draining /\ push'.enabled = push.enabled
      /\ push'.lock = push.lock /\ push'.due = push.due
  BY PushFacts DEF PushType
<1>2. PushShape(push')
  BY <1>1, PushFacts DEF PushShape
<1>3. PushPlace(push', pushPc'[r], pushRec'[r], r \in pushMet'.refused, r)
  BY <1>0, <1>1 DEF PushPlace
<1>4. ASSUME NEW x \in PushRequests, x # r
      PROVE  PushPlace(push', pushPc'[x], pushRec'[x], x \in pushMet'.refused, x)
  <2>1. PushPlace(push, pushPc[x], pushRec[x], x \in pushMet.refused, x)
    BY DEF PushInv
  <2>2. PushPlace(push', pushPc[x], pushRec[x], x \in pushMet.refused, x)
    BY <1>1, <1>4, <2>1, PushFacts, PlaceKept
  <2> QED
    BY <1>4, <2>2
<1> QED
  BY <1>1, <1>2, <1>3, <1>4 DEF PushInv

LEMMA ConfirmKeeps ==
  ASSUME PushInv, NEW r \in PushRequests,
         Confirm(r) \/ RejectPush(r)
  PROVE  PushInv'
<1>0. PushPlace(push, pushPc[r], pushRec[r], r \in pushMet.refused, r)
  BY DEF PushInv
<1>1. r \in push.pending
  BY DEF Confirm, RejectPush
<1>2. /\ ~Holds(push.queue, r) /\ ~Holds(push.lock, r) /\ push.cur # r
      /\ pushRec[r] \notin {"queued", "rejected", "cancelled", "failed"}
      /\ pushPc[r] = "done"
  BY <1>0, <1>1 DEF PushPlace
<1>3. CASE Confirm(r)
  <2>1. /\ push' = Joins([push EXCEPT !.pending = @ \ {r}], r)
        /\ UNCHANGED <<pushPc, pushRec, player, pushMet>>
    BY <1>3 DEF Confirm
  <2> QED
    BY <1>2, <2>1, PushFacts, JoinedKeeps
<1>4. CASE RejectPush(r)
  <2>1. /\ push' = [push EXCEPT !.pending = @ \ {r}]
        /\ pushRec' \in PushRecType /\ pushRec'[r] = "rejected"
        /\ \A x \in PushRequests : x # r => pushRec'[x] = pushRec[x]
        /\ UNCHANGED <<pushPc, player, pushMet>>
    BY <1>4, PushFacts DEF RejectPush, PushRecType, PushStatuses
  <2>2. push' = [push EXCEPT !.pending = @ \ {r}, !.queue = push.queue]
    BY <2>1, PushFacts DEF PushType
  <2> QED
    BY <1>1, <1>2, <2>1, <2>2, DroppedKeeps, PushFacts
<1> QED
  BY <1>3, <1>4

LEMMA CancelKeeps ==
  ASSUME PushInv, NEW r \in PushRequests, CancelPush(r)
  PROVE  PushInv'
<1>0. PushPlace(push, pushPc[r], pushRec[r], r \in pushMet.refused, r)
  BY DEF PushInv
<1>1. /\ pushRec' \in PushRecType /\ pushRec'[r] = "cancelled"
      /\ \A x \in PushRequests : x # r => pushRec'[x] = pushRec[x]
      /\ UNCHANGED <<pushPc, player, pushMet>>
  BY PushFacts DEF CancelPush, PushRecType, PushStatuses
<1>2. CASE r \in push.pending /\ push' = [push EXCEPT !.pending = @ \ {r}]
  <2>1. push' = [push EXCEPT !.pending = @ \ {r}, !.queue = push.queue]
    BY <1>2, PushFacts DEF PushType
  <2>2. ~Holds(push.queue, r)
    BY <1>0, <1>2 DEF PushPlace
  <2> QED
    BY <1>1, <1>2, <2>1, <2>2, DroppedKeeps, PushFacts
<1>3. CASE r \notin push.pending
  <2>1. PICK i \in DOMAIN push.queue :
           push.queue[i] = r /\ push' = [push EXCEPT !.queue = Spliced(@, i)]
    BY <1>3 DEF CancelPush
  <2> DEFINE q == Spliced(push.queue, i)
  <2>2. /\ q \in Seq(PushRequests) /\ Distinct(q)
        /\ \A x : Holds(q, x) <=> Holds(push.queue, x) /\ x # r
    BY <2>1, SplicedIs, PushFacts
  <2>3. Holds(push.queue, r)
    BY <2>1 DEF Holds
  <2>4. push.queue # <<>>
    BY <2>3, NobodyWaits
  <2>5. push' = [push EXCEPT !.pending = @ \ {r}, !.queue = q]
    <3>1. push' = [push EXCEPT !.queue = q]
      BY <2>1
    <3>2. push.pending \ {r} = push.pending
      BY <1>3
    <3> HIDE DEF q
    <3> QED
      BY <3>1, <3>2, PushFacts DEF PushType
  <2> HIDE DEF q
  <2> QED
    BY <1>1, <2>2, <2>3, <2>4, <2>5, DroppedKeeps
<1> QED
  BY <1>2, <1>3 DEF CancelPush

-----------------------------------------------------------------------------
\* The head of the chain.

\* Who enters holds the chain, and is nowhere else.
LEMMA EnteringIs ==
  ASSUME PushInv, NEW r \in PushRequests, Entering(r)
  PROVE  /\ push.lock # <<>> /\ Head(push.lock) = r /\ Holds(push.lock, r)
         /\ push.cur = "none" /\ push.stage = "no" /\ ~push.stale /\ ~push.entered
         /\ r \notin push.pending /\ ~Holds(push.queue, r)
         /\ pushRec[r] \notin {"queued", "rejected", "cancelled", "failed"}
         /\ pushPc[r] = "done" /\ r # "drain" /\ r # "none"
<1>1. push.lock # <<>> /\ Head(push.lock) = r
  BY PushFacts DEF Entering, Holder
<1>2. Holds(push.lock, r)
  BY <1>1, TailIs, PushFacts
<1>3. PushPlace(push, pushPc[r], pushRec[r], r \in pushMet.refused, r)
  BY DEF PushInv
<1>4. /\ push.cur = "none" /\ push.stage = "no" /\ ~push.stale /\ ~push.entered
  BY PushFacts DEF Entering, PushShape
<1>5. r # "drain" /\ r # "none"
  BY PushFacts
<1> QED
  BY <1>1, <1>2, <1>3, <1>4, <1>5 DEF PushPlace

\* An accept that does not play: the request waits, or is refused.
LEMMA AcceptLeaves ==
  ASSUME PushInv, NEW r \in PushRequests, Entering(r),
         NEW q \in Seq(PushRequests), Distinct(q),
         push' = Leaves([push EXCEPT !.queue = q]),
         \A x \in PushRequests : x # r => (Holds(q, x) <=> Holds(push.queue, x)),
         ~push.enabled => q = <<>>, push.enabled => player # "none",
         UNCHANGED <<pushPc, player>>, pushMet' \in PushMetType,
         \A x \in PushRequests : x # r =>
             (x \in pushMet'.refused <=> x \in pushMet.refused),
         pushRec' \in PushRecType,
         \A x \in PushRequests : x # r => pushRec'[x] = pushRec[x],
         \/ Holds(q, r) /\ pushRec'[r] = "queued"
         \/ ~Holds(q, r) /\ pushRec'[r] = "rejected"
         \/ ~Holds(q, r) /\ pushRec'[r] = pushRec[r] /\ r \in pushMet'.refused
  PROVE  PushInv'
<1> DEFINE u == [push EXCEPT !.queue = q]
           t == Leaves(u)
<1>0. /\ push.lock # <<>> /\ Head(push.lock) = r
      /\ push.cur = "none" /\ push.stage = "no" /\ ~push.stale /\ ~push.entered
      /\ r \notin push.pending
      /\ pushRec[r] \notin {"queued", "rejected", "cancelled", "failed"}
      /\ pushPc[r] = "done" /\ r # "drain" /\ r # "none"
  BY EnteringIs
<1>1. /\ u \in PushType /\ u.lock = push.lock /\ Distinct(u.lock)
      /\ u.queue = q /\ u.pending = push.pending
      /\ u.draining = push.draining /\ u.enabled = push.enabled
      /\ u.lock # <<>> /\ Head(u.lock) = r
  BY <1>0, PushFacts DEF PushType
<1> HIDE DEF u
<1>2. /\ t \in PushType
      /\ t = [u EXCEPT !.lock = t.lock, !.entered = FALSE,
                       !.stale = FALSE, !.cur = "none", !.stage = "no"]
      /\ Distinct(t.lock) /\ ~Holds(t.lock, r)
      /\ \A x : Holds(push.lock, x) <=> Holds(t.lock, x) \/ x = r
  <2>1. /\ t \in PushType
        /\ t = [u EXCEPT !.lock = t.lock, !.entered = FALSE,
                         !.stale = FALSE, !.cur = "none", !.stage = "no"]
        /\ Distinct(t.lock) /\ ~Holds(t.lock, Head(u.lock))
        /\ \A x : Holds(u.lock, x) <=> Holds(t.lock, x) \/ x = Head(u.lock)
    BY <1>1, LeavesIs
  <2> QED
    BY <1>1, <2>1
<1>3. push' = t
  BY DEF u
<1> HIDE DEF t
<1>4. /\ push'.queue = q /\ push'.pending = push.pending
      /\ push'.cur = "none" /\ ~push'.entered
      /\ ~push'.stale /\ push'.stage = "no"
      /\ push'.draining = push.draining /\ push'.enabled = push.enabled
  <2>1. push' = [u EXCEPT !.lock = t.lock, !.entered = FALSE,
                         !.stale = FALSE, !.cur = "none", !.stage = "no"]
    BY <1>2, <1>3
  <2> QED
    BY <1>1, <2>1 DEF PushType
<1>5. PushShape(push')
  <2>1. PushShape(push)
    BY PushFacts
  <2> QED
    BY <1>0, <1>2, <1>3, <1>4, <2>1 DEF PushShape
<1>6. PushPlace(push', pushPc'[r], pushRec'[r], r \in pushMet'.refused, r)
  BY <1>0, <1>2, <1>3, <1>4 DEF PushPlace
<1>7. ASSUME NEW x \in PushRequests, x # r
      PROVE  PushPlace(push', pushPc'[x], pushRec'[x], x \in pushMet'.refused, x)
  <2>1. PushPlace(push, pushPc[x], pushRec[x], x \in pushMet.refused, x)
    BY DEF PushInv
  <2>2. Holds(push'.lock, x) <=> Holds(push.lock, x)
    BY <1>2, <1>3, <1>7
  <2>3. Holds(push'.queue, x) <=> Holds(push.queue, x)
    BY <1>4, <1>7
  <2>4. x # "none" /\ pushRec'[x] = pushRec[x]
        /\ (x \in pushMet'.refused <=> x \in pushMet.refused)
    BY <1>7, PushFacts
  <2> QED
    BY <1>0, <1>4, <2>1, <2>2, <2>3, <2>4 DEF PushPlace
<1>8. q # <<>> => player # "none"
  BY PushFacts DEF PushType
<1> QED
  BY <1>2, <1>3, <1>4, <1>5, <1>6, <1>7, <1>8, PushFacts DEF PushInv

LEMMA AcceptKeeps ==
  ASSUME PushInv, NEW r \in PushRequests,
         AcceptThrows(r) \/ AcceptRejects(r) \/ AcceptQueues(r)
  PROVE  PushInv'
<1>0. Entering(r)
  BY DEF AcceptThrows, AcceptRejects, AcceptQueues
<1>1. ~Holds(push.queue, r) /\ push = [push EXCEPT !.queue = push.queue]
  BY <1>0, EnteringIs, PushFacts DEF PushType
<1>2. ~push.enabled => push.queue = <<>>
  BY PushFacts DEF PushShape
<1>3. CASE AcceptThrows(r)
  <2>1. /\ push' = Leaves(push) /\ UNCHANGED <<pushPc, pushRec, player>>
        /\ pushMet' = [pushMet EXCEPT !.refused = @ \cup {r}]
        /\ push.enabled => player # "none"
    BY <1>3 DEF AcceptThrows
  <2>2. /\ pushMet' \in PushMetType /\ r \in pushMet'.refused
        /\ \A x \in PushRequests : x # r =>
             (x \in pushMet'.refused <=> x \in pushMet.refused)
    BY <2>1, PushFacts DEF PushMetType
  <2> QED
    BY <1>0, <1>1, <1>2, <2>1, <2>2, AcceptLeaves, PushFacts
<1>4. CASE AcceptRejects(r)
  <2>1. /\ push' = Leaves(push) /\ UNCHANGED <<pushPc, pushMet, player>>
        /\ player # "none"
        /\ pushRec' \in PushRecType /\ pushRec'[r] = "rejected"
        /\ \A x \in PushRequests : x # r => pushRec'[x] = pushRec[x]
    BY <1>4, PushFacts DEF AcceptRejects, PushRecType, PushStatuses
  <2> QED
    BY <1>0, <1>1, <1>2, <2>1, AcceptLeaves, PushFacts
<1>5. CASE AcceptQueues(r)
  <2> DEFINE q == Append(push.queue, r)
  <2>1. /\ push' = Leaves([push EXCEPT !.queue = q])
        /\ UNCHANGED <<pushPc, pushMet, player>>
        /\ player # "none" /\ push.enabled
        /\ pushRec' \in PushRecType /\ pushRec'[r] = "queued"
        /\ \A x \in PushRequests : x # r => pushRec'[x] = pushRec[x]
    BY <1>5, PushFacts DEF AcceptQueues, PushRecType, PushStatuses
  <2>2. /\ q \in Seq(PushRequests) /\ Distinct(q)
        /\ \A x : Holds(q, x) <=> Holds(push.queue, x) \/ x = r
    BY <1>1, AppendedIs, PushFacts
  <2> HIDE DEF q
  <2> QED
    BY <1>0, <2>1, <2>2, AcceptLeaves, PushFacts
<1> QED
  BY <1>3, <1>4, <1>5

LEMMA AcceptPlaysKeeps ==
  ASSUME PushInv, NEW r \in PushRequests, AcceptPlays(r)
  PROVE  PushInv'
<1>0. /\ push.lock # <<>> /\ Head(push.lock) = r /\ Holds(push.lock, r)
      /\ push.cur = "none" /\ ~push.stale /\ push.enabled
      /\ r \notin push.pending /\ ~Holds(push.queue, r)
      /\ pushRec[r] \notin {"queued", "rejected", "cancelled", "failed"}
      /\ pushPc[r] = "done" /\ r # "drain" /\ r # "none"
  BY EnteringIs DEF AcceptPlays
<1>1. /\ push' = [push EXCEPT !.entered = TRUE, !.cur = r, !.stage = "stopping"]
      /\ UNCHANGED <<pushPc, pushRec, player, pushMet>>
  BY DEF AcceptPlays
<1>2. /\ push' \in PushType /\ push'.entered /\ push'.cur = r
      /\ push'.stage = "stopping" /\ push'.queue = push.queue
      /\ push'.pending = push.pending /\ push'.lock = push.lock
      /\ push'.stale = push.stale /\ push'.draining = push.draining
      /\ push'.enabled = push.enabled
  BY <1>1, PushFacts DEF PushType
<1>3. PushShape(push')
  <2>1. PushShape(push)
    BY PushFacts
  <2> QED
    BY <1>0, <1>2, <2>1 DEF PushShape
<1>4. ASSUME NEW x \in PushRequests
      PROVE  PushPlace(push', pushPc'[x], pushRec'[x], x \in pushMet'.refused, x)
  <2>1. PushPlace(push, pushPc[x], pushRec[x], x \in pushMet.refused, x)
    BY DEF PushInv
  <2>2. x # "none"
    BY PushFacts
  <2>3. CASE x = r
    BY <1>0, <1>1, <1>2, <2>3, <2>1 DEF PushPlace
  <2>4. CASE x # r
    BY <1>0, <1>1, <1>2, <2>4, <2>1, <2>2 DEF PushPlace
  <2> QED
    BY <2>3, <2>4
<1> QED
  BY <1>0, <1>1, <1>2, <1>3, <1>4 DEF PushInv

LEMMA DrainKeeps ==
  ASSUME PushInv, DrainTakes \/ DrainEnds
  PROVE  PushInv'
<1>0. /\ push.lock # <<>> /\ Head(push.lock) = "drain" /\ push.cur = "none"
      /\ push.stage = "no"
      /\ UNCHANGED <<pushPc, pushRec, player>>
  <2>1. Holder = "drain" /\ push.cur = "none"
        /\ UNCHANGED <<pushPc, pushRec, player>>
    BY DEF DrainTakes, DrainEnds
  <2> QED
    BY <2>1, PushFacts DEF Holder, PushShape
<1>1. CASE DrainTakes
  <2> DEFINE h == Head(push.queue)
             q == Tail(push.queue)
  <2>1. /\ push' = [push EXCEPT !.entered = TRUE, !.cur = h,
                                !.stage = "stopping", !.queue = q]
        /\ push.queue # <<>> /\ push.enabled /\ ~push.stale
        /\ UNCHANGED pushMet
    BY <1>1 DEF DrainTakes, TakesFirst
  <2>2. /\ q \in Seq(PushRequests) /\ h \in PushRequests /\ Distinct(q)
        /\ ~Holds(q, h) /\ Holds(push.queue, h)
        /\ \A x : Holds(push.queue, x) <=> Holds(q, x) \/ x = h
    BY <2>1, TailIs, PushFacts
  <2> HIDE DEF h, q
  <2>3. /\ push' \in PushType /\ push'.entered /\ push'.cur = h
        /\ push'.stage = "stopping" /\ push'.queue = q
        /\ push'.pending = push.pending /\ push'.lock = push.lock
        /\ push'.stale = push.stale /\ push'.draining = push.draining
        /\ push'.enabled = push.enabled
    BY <2>1, <2>2, PushFacts DEF PushType
  <2>4. PushShape(push')
    <3>1. PushShape(push) /\ h # "none"
      BY <2>2, PushFacts
    <3> QED
      BY <1>0, <2>1, <2>2, <2>3, <3>1 DEF PushShape
  <2>5. ASSUME NEW x \in PushRequests
        PROVE  PushPlace(push', pushPc'[x], pushRec'[x], x \in pushMet'.refused, x)
    <3>1. PushPlace(push, pushPc[x], pushRec[x], x \in pushMet.refused, x)
      BY DEF PushInv
    <3>2. x # "none"
      BY PushFacts
    <3>3. CASE x = h
      BY <1>0, <2>1, <2>2, <2>3, <3>1, <3>3 DEF PushPlace
    <3>4. CASE x # h
      BY <1>0, <2>1, <2>2, <2>3, <3>1, <3>2, <3>4 DEF PushPlace
    <3> QED
      BY <3>3, <3>4
  <2> QED
    BY <1>0, <2>1, <2>3, <2>4, <2>5 DEF PushInv
<1>2. CASE DrainEnds
  <2> DEFINE t == Leaves(push)
  <2>1. /\ push' = [t EXCEPT !.draining = FALSE]
        /\ push.queue = <<>> \/ ~TakesFirst
        /\ pushMet' \in PushMetType /\ pushMet'.refused = pushMet.refused
    BY <1>2, PushFacts DEF DrainEnds, PushMetType
  <2>2. /\ t \in PushType
        /\ t = [push EXCEPT !.lock = t.lock, !.entered = FALSE,
                         !.stale = FALSE, !.cur = "none", !.stage = "no"]
        /\ Distinct(t.lock) /\ ~Holds(t.lock, "drain")
        /\ \A x : Holds(push.lock, x) <=> Holds(t.lock, x) \/ x = "drain"
    BY <1>0, LeavesIs, PushFacts, ZenonT(30)
  <2> HIDE DEF t
  <2>3. /\ push' \in PushType /\ ~push'.entered /\ push'.cur = "none"
        /\ push'.stage = "no" /\ push'.queue = push.queue
        /\ push'.pending = push.pending /\ push'.lock = t.lock
        /\ ~push'.stale /\ ~push'.draining
        /\ push'.enabled = push.enabled
    BY <2>1, <2>2, PushFacts DEF PushType
  <2>4. PushShape(push')
    <3>1. PushShape(push)
      BY PushFacts
    <3> QED
      BY <1>0, <2>2, <2>3, <3>1 DEF PushShape
  <2>5. ASSUME NEW x \in PushRequests
        PROVE  PushPlace(push', pushPc'[x], pushRec'[x], x \in pushMet'.refused, x)
    <3>1. PushPlace(push, pushPc[x], pushRec[x], x \in pushMet.refused, x)
      BY DEF PushInv
    <3>2. x # "none" /\ x # "drain"
      BY PushFacts
    <3> QED
      BY <1>0, <2>1, <2>2, <2>3, <3>1, <3>2 DEF PushPlace
  <2>6. push.queue # <<>> => player # "none"
    BY <2>1, PushFacts DEF TakesFirst, PushShape
  <2> QED
    BY <1>0, <2>1, <2>3, <2>4, <2>5, <2>6 DEF PushInv
<1> QED
  BY <1>1, <1>2

-----------------------------------------------------------------------------
\* The play of the head, and the player.

\* What leaves every place, and the pending, alone.
LEMMA PlacesKept ==
  ASSUME PushInv, PushShape(push'),
         UNCHANGED <<pushPc, pushRec>>, push'.queue = push.queue,
         push'.pending = push.pending, push'.cur = push.cur,
         \A x \in PushRequests : Holds(push'.lock, x) <=> Holds(push.lock, x),
         push.lock # <<>> => Head(push'.lock) = Head(push.lock),
         pushMet'.refused = pushMet.refused
  PROVE  \A x \in PushRequests :
           PushPlace(push', pushPc'[x], pushRec'[x], x \in pushMet'.refused, x)
<1> TAKE x \in PushRequests
<1>1. PushPlace(push, pushPc[x], pushRec[x], x \in pushMet.refused, x)
  BY DEF PushInv
<1>2. PushPlace(push', pushPc[x], pushRec[x], x \in pushMet.refused, x)
  BY <1>1, PushFacts, PlaceKept
<1> QED
  BY <1>2

LEMMA PlayStopsKeeps ==
  ASSUME PushInv, PlayStops
  PROVE  PushInv'
<1>1. /\ push' = [push EXCEPT !.stage = "starting"] /\ player' = "none"
      /\ push.stage = "stopping" /\ UNCHANGED <<pushPc, pushRec, pushMet>>
  BY DEF PlayStops
<1>2. /\ push' \in PushType /\ push'.entered = push.entered
      /\ push'.cur = push.cur
      /\ push'.stage = "starting" /\ push'.queue = push.queue
      /\ push'.pending = push.pending /\ push'.lock = push.lock
      /\ push'.stale = push.stale /\ push'.draining = push.draining
      /\ push'.enabled = push.enabled
  BY <1>1, PushFacts DEF PushType
<1>3. PushShape(push') /\ push.lock # <<>>
  BY <1>1, <1>2, PushFacts DEF PushShape
<1>4. \A x \in PushRequests :
           PushPlace(push', pushPc'[x], pushRec'[x], x \in pushMet'.refused, x)
  BY <1>1, <1>2, <1>3, PlacesKept
<1> QED
  BY <1>1, <1>2, <1>3, <1>4 DEF PushInv

LEMMA PlayEndsKeeps ==
  ASSUME PushInv, PlayEnds
  PROVE  PushInv'
<1> DEFINE c == push.cur
<1>1. /\ push.stage = "starting" /\ push' = AfterPlay(push) /\ UNCHANGED pushPc
      /\ \E ok \in BOOLEAN :
          /\ player' = IF ok THEN c ELSE "none"
          /\ pushRec' = [pushRec EXCEPT ![c] =
                            Outcome(IF ok THEN "accepted" ELSE "failed")]
          /\ pushMet' = [pushMet EXCEPT !.undrained =
                            IF ok \/ Holder = "drain" THEN @ ELSE "error"]
  BY DEF PlayEnds
<1>2. /\ c \in PushRequests /\ c # "none" /\ c # "drain" /\ push.entered
      /\ push.lock # <<>>
  BY <1>1, PushFacts DEF PushShape, PushType
<1>3. /\ pushRec' \in PushRecType
      /\ pushRec'[c] \in {"accepted", "failed", "cancelled"}
      /\ \A x \in PushRequests : x # c => pushRec'[x] = pushRec[x]
      /\ player' \in PushRequests \cup {"user", "none"}
      /\ pushMet' \in PushMetType /\ pushMet'.refused = pushMet.refused
      /\ pushMet.undrained # "no" => pushMet'.undrained # "no"
      /\ Head(push.lock) # "drain" => player' # "none" \/ pushMet'.undrained # "no"
  <2>1. PICK ok \in BOOLEAN :
          /\ player' = IF ok THEN c ELSE "none"
          /\ pushRec' = [pushRec EXCEPT ![c] =
                            Outcome(IF ok THEN "accepted" ELSE "failed")]
          /\ pushMet' = [pushMet EXCEPT !.undrained =
                            IF ok \/ Holder = "drain" THEN @ ELSE "error"]
    BY <1>1
  <2>2. PICK status \in {"accepted", "failed", "cancelled"} :
          pushRec' = [pushRec EXCEPT ![c] = status]
    BY <2>1 DEF Outcome
  <2>3. Holder = Head(push.lock)
    BY <1>2 DEF Holder
  <2>4. /\ pushMet' \in PushMetType /\ pushMet'.refused = pushMet.refused
        /\ pushMet.undrained # "no" => pushMet'.undrained # "no"
        /\ ~ok /\ Head(push.lock) # "drain" => pushMet'.undrained # "no"
    BY <2>1, <2>3, PushFacts DEF PushMetType
  <2>5. status \in PushStatuses
    BY DEF PushStatuses
  <2> HIDE DEF c
  <2>6. /\ pushRec' \in PushRecType /\ pushRec'[c] = status
        /\ \A x \in PushRequests : x # c => pushRec'[x] = pushRec[x]
    BY <1>2, <2>2, <2>5, PushFacts DEF PushRecType
  <2> QED
    BY <1>2, <2>1, <2>4, <2>6
<1>4. PushPlace(push, pushPc[c], pushRec[c], c \in pushMet.refused, c)
  BY <1>2 DEF PushInv
<1>5. /\ c \notin push.pending /\ ~Holds(push.queue, c) /\ pushPc[c] = "done"
      /\ Head(push.lock) = "drain" => ~Holds(push.lock, c)
  BY <1>4 DEF PushPlace
<1>6. CASE Head(push.lock) = "drain"
  <2>1. push' = [push EXCEPT !.cur = "none", !.stage = "no"]
    BY <1>1, <1>6 DEF AfterPlay
  <2>2. /\ push' \in PushType /\ push'.entered = push.entered
        /\ push'.cur = "none"
        /\ push'.stage = "no" /\ push'.queue = push.queue
        /\ push'.pending = push.pending /\ push'.lock = push.lock
        /\ push'.stale = push.stale /\ push'.draining = push.draining
        /\ push'.enabled = push.enabled
    BY <2>1, PushFacts DEF PushType
  <2>3. PushShape(push')
    BY <1>6, <2>2, PushFacts DEF PushShape
  <2>4. ASSUME NEW x \in PushRequests
        PROVE  PushPlace(push', pushPc'[x], pushRec'[x], x \in pushMet'.refused, x)
    <3>1. PushPlace(push, pushPc[x], pushRec[x], x \in pushMet.refused, x)
      BY DEF PushInv
    <3>2. x # "none"
      BY PushFacts
    <3>3. CASE x = c
      BY <1>1, <1>3, <1>5, <1>6, <2>2, <3>2, <3>3 DEF PushPlace
    <3>4. CASE x # c
      BY <1>1, <1>3, <1>6, <2>2, <3>1, <3>2, <3>4 DEF PushPlace
    <3> QED
      BY <3>3, <3>4
  <2> QED
    BY <1>1, <1>2, <1>3, <2>2, <2>3, <2>4, PushFacts DEF PushInv
<1>7. CASE Head(push.lock) # "drain"
  <2> DEFINE t == Leaves(push)
  <2>1. push' = t /\ Head(push.lock) = c
    BY <1>1, <1>2, <1>7, PushFacts DEF AfterPlay, PushShape
  <2>2. /\ t \in PushType
        /\ t = [push EXCEPT !.lock = t.lock, !.entered = FALSE,
                         !.stale = FALSE, !.cur = "none", !.stage = "no"]
        /\ Distinct(t.lock) /\ ~Holds(t.lock, c)
        /\ \A x : Holds(push.lock, x) <=> Holds(t.lock, x) \/ x = c
    BY <1>2, <2>1, LeavesIs, PushFacts
  <2> HIDE DEF t
  <2>3. /\ push' \in PushType /\ ~push'.entered /\ push'.cur = "none"
        /\ push'.stage = "no" /\ push'.queue = push.queue
        /\ push'.pending = push.pending /\ push'.lock = t.lock
        /\ ~push'.stale /\ push'.draining = push.draining
        /\ push'.enabled = push.enabled
    BY <2>1, <2>2, PushFacts DEF PushType
  <2>4. PushShape(push')
    <3>1. PushShape(push) /\ c # "drain"
      BY <1>2, PushFacts
    <3> QED
      BY <2>2, <2>3, <3>1 DEF PushShape
  <2>5. ASSUME NEW x \in PushRequests
        PROVE  PushPlace(push', pushPc'[x], pushRec'[x], x \in pushMet'.refused, x)
    <3>1. PushPlace(push, pushPc[x], pushRec[x], x \in pushMet.refused, x)
      BY DEF PushInv
    <3>2. x # "none"
      BY PushFacts
    <3>3. CASE x = c
      BY <1>1, <1>3, <1>5, <2>2, <2>3, <3>2, <3>3 DEF PushPlace
    <3>4. CASE x # c
      BY <1>1, <1>3, <1>7, <2>2, <2>3, <3>1, <3>2, <3>4 DEF PushPlace
    <3> QED
      BY <3>3, <3>4
  <2> QED
    BY <1>1, <1>3, <1>7, <2>3, <2>4, <2>5, PushFacts DEF PushInv
<1> QED
  BY <1>6, <1>7

LEMMA PlayerKeeps ==
  ASSUME PushInv,
         \/ UserPlays \/ PlaybackCompletes \/ PlayerStops \/ StopDrains
         \/ PushRefresh \/ PlayerStopsOnly \/ PlayerFails
  PROVE  PushInv'
<1> DEFINE t == DrainStarts(push)
<1>1. /\ PushShape(t) /\ t \in PushType
      /\ t.queue = push.queue /\ t.due = push.due
      /\ t.pending = push.pending /\ t.cur = push.cur
      /\ \A r \in PushRequests : Holds(t.lock, r) <=> Holds(push.lock, r)
      /\ push.lock # <<>> => Head(t.lock) = Head(push.lock)
      /\ push.queue # <<>> \/ push.lock # <<>> => t.lock # <<>>
  <2>1. PushShape(push)
    BY PushFacts
  <2>2. /\ PushShape(t)
        /\ t.queue = push.queue /\ t.due = push.due
        /\ t.pending = push.pending /\ t.cur = push.cur
        /\ \A r \in PushRequests : Holds(t.lock, r) <=> Holds(push.lock, r)
        /\ push.lock # <<>> => Head(t.lock) = Head(push.lock)
        /\ push.queue # <<>> \/ push.lock # <<>> => t.lock # <<>>
    BY <2>1, DrainStartsIs
  <2> HIDE DEF t
  <2> QED
    BY <2>2 DEF PushShape
<1>2. CASE UserPlays
  <2>1. /\ UNCHANGED <<push, pushPc, pushRec>> /\ player' = "user"
        /\ pushMet' = [pushMet EXCEPT !.sessions = @ + 1]
        /\ pushMet.sessions < MaxSessions
    BY <1>2 DEF UserPlays
  <2>2. pushMet' \in PushMetType /\ pushMet'.refused = pushMet.refused
    <3>1. pushMet.sessions + 1 \in 0..MaxSessions
      BY <2>1, PushFacts, PushBounds DEF PushMetType
    <3> QED
      BY <2>1, <3>1, PushFacts DEF PushMetType
  <2> QED
    BY <2>1, <2>2 DEF PushInv
<1>3. CASE PlaybackCompletes \/ PushRefresh
  <2>1. /\ push' = t /\ UNCHANGED <<pushPc, pushRec, pushMet>>
        /\ player' \in {player, "none"}
    BY <1>3 DEF PlaybackCompletes, PushRefresh
  <2> HIDE DEF t
  <2>2. \A x \in PushRequests :
           PushPlace(push', pushPc'[x], pushRec'[x], x \in pushMet'.refused, x)
    BY <1>1, <2>1, PlacesKept
  <2> QED
    BY <1>1, <2>1, <2>2, PushFacts DEF PushInv
<1>4. CASE PlayerStops
  <2>1. /\ push' = [push EXCEPT !.due = TRUE] /\ player' = "none"
        /\ UNCHANGED <<pushPc, pushRec, pushMet>>
    BY <1>4 DEF PlayerStops
  <2>2. /\ push' \in PushType /\ push'.due /\ push'.entered = push.entered
        /\ push'.cur = push.cur
        /\ push'.stage = push.stage /\ push'.queue = push.queue
        /\ push'.pending = push.pending /\ push'.lock = push.lock
        /\ push'.stale = push.stale /\ push'.draining = push.draining
        /\ push'.enabled = push.enabled
    BY <2>1, PushFacts DEF PushType
  <2>3. PushShape(push')
    BY <2>2, PushFacts DEF PushShape
  <2>4. \A x \in PushRequests :
           PushPlace(push', pushPc'[x], pushRec'[x], x \in pushMet'.refused, x)
    BY <2>1, <2>2, <2>3, PlacesKept
  <2> QED
    BY <2>1, <2>2, <2>3, <2>4 DEF PushInv
<1>5. CASE StopDrains
  <2>1. /\ push' = [t EXCEPT !.due = FALSE]
        /\ UNCHANGED <<pushPc, pushRec, player, pushMet>>
    BY <1>5 DEF StopDrains
  <2> HIDE DEF t
  <2>2. /\ push' \in PushType /\ push'.entered = t.entered
        /\ push'.cur = t.cur
        /\ push'.stage = t.stage /\ push'.queue = t.queue
        /\ push'.pending = t.pending /\ push'.lock = t.lock
        /\ push'.stale = t.stale /\ push'.draining = t.draining
        /\ push'.enabled = t.enabled
    BY <1>1, <2>1 DEF PushType
  <2>3. PushShape(push')
    BY <1>1, <2>2 DEF PushShape
  <2>4. \A x \in PushRequests :
           PushPlace(push', pushPc'[x], pushRec'[x], x \in pushMet'.refused, x)
    BY <1>1, <2>1, <2>2, <2>3, PlacesKept
  <2> QED
    BY <1>1, <2>1, <2>2, <2>3, <2>4, PushFacts DEF PushInv
<1>6. CASE PlayerStopsOnly \/ PlayerFails
  <2>1. /\ \E end \in {"stop", "error"} :
              pushMet' = [pushMet EXCEPT !.undrained = end]
        /\ player' = "none"
        /\ UNCHANGED <<push, pushPc, pushRec>>
    BY <1>6 DEF PlayerStopsOnly, PlayerFails
  <2>2. /\ pushMet' \in PushMetType /\ pushMet'.undrained # "no"
        /\ pushMet'.refused = pushMet.refused
    BY <2>1, PushFacts DEF PushMetType
  <2> QED
    BY <2>1, <2>2 DEF PushInv
<1> QED
  BY <1>2, <1>3, <1>4, <1>5, <1>6

LEMMA ConfigureKeeps ==
  ASSUME PushInv, NEW enabled \in BOOLEAN, Configure(enabled)
  PROVE  PushInv'
<1>1. /\ push' = [push EXCEPT !.enabled = enabled, !.pending = {},
                              !.queue = <<>>, !.stale = push.entered]
      /\ pushRec' = [r \in PushRequests |->
                      IF r \in push.pending \/ InQueue(r) THEN "cancelled"
                      ELSE pushRec[r]]
      /\ pushMet' = [pushMet EXCEPT !.configures = @ + 1]
      /\ pushMet.configures < MaxConfigures
      /\ UNCHANGED <<pushPc, player>>
  BY DEF Configure
<1>2. /\ push' \in PushType /\ push'.queue = <<>> /\ push'.pending = {}
      /\ push'.stale = push.entered /\ push'.entered = push.entered
      /\ push'.cur = push.cur /\ push'.stage = push.stage
      /\ push'.lock = push.lock /\ push'.draining = push.draining
  <2>1. <<>> \in Seq(PushRequests)
    BY EmptySeq
  <2> QED
    BY <1>1, <2>1, PushFacts DEF PushType
<1>3. PushShape(push')
  BY <1>2, PushFacts, NobodyWaits DEF PushShape
<1>4. pushMet' \in PushMetType /\ pushMet'.refused = pushMet.refused
  <2>1. pushMet.configures + 1 \in 0..MaxConfigures
    BY <1>1, PushFacts, PushBounds DEF PushMetType
  <2> QED
    BY <1>1, <2>1, PushFacts DEF PushMetType
<1>5. /\ pushRec' \in PushRecType
      /\ \A x \in PushRequests :
            IF x \in push.pending \/ Holds(push.queue, x)
            THEN pushRec'[x] = "cancelled" ELSE pushRec'[x] = pushRec[x]
  <2>1. \A x \in PushRequests : InQueue(x) <=> Holds(push.queue, x)
    BY DEF InQueue, Holds
  <2> QED
    BY <1>1, <2>1, PushFacts DEF PushRecType, PushStatuses
<1>6. ASSUME NEW x \in PushRequests
      PROVE  PushPlace(push', pushPc'[x], pushRec'[x], x \in pushMet'.refused, x)
  <2>1. PushPlace(push, pushPc[x], pushRec[x], x \in pushMet.refused, x)
    BY DEF PushInv
  <2>2. ~Holds(push'.queue, x) /\ x \notin push'.pending
    BY <1>2, PushFacts
  <2>3. CASE x \in push.pending \/ Holds(push.queue, x)
    BY <1>1, <1>2, <1>5, <2>1, <2>2, <2>3 DEF PushPlace
  <2>4. CASE ~(x \in push.pending \/ Holds(push.queue, x))
    BY <1>1, <1>2, <1>4, <1>5, <2>1, <2>2, <2>4 DEF PushPlace
  <2> QED
    BY <2>3, <2>4
<1> QED
  BY <1>1, <1>2, <1>3, <1>4, <1>5, <1>6, PushFacts DEF PushInv

LEMMA ClearRecentKeeps ==
  ASSUME PushInv, ClearRecent
  PROVE  PushInv'
<1>1. /\ pushRec' \in PushRecType
      /\ \A x \in PushRequests : pushRec'[x] = "none"
      /\ UNCHANGED <<push, pushPc, player, pushMet>>
  BY DEF ClearRecent, PushRecType, PushStatuses
<1>2. ASSUME NEW x \in PushRequests
      PROVE  PushPlace(push, pushPc[x], "none", x \in pushMet.refused, x)
  <2>1. PushPlace(push, pushPc[x], pushRec[x], x \in pushMet.refused, x)
    BY DEF PushInv
  <2> QED
    BY <2>1 DEF PushPlace
<1> QED
  BY <1>1, <1>2 DEF PushInv

-----------------------------------------------------------------------------
\* The invariant holds of the first state, and every step keeps it.

LEMMA PushInitially == PushInit => PushInv
<1> SUFFICES ASSUME PushInit PROVE PushInv
  OBVIOUS
<1>1. push \in PushType
  <2>1. <<>> \in Seq(PushRequests) /\ <<>> \in Seq(PushRequests \cup {"drain"})
    BY EmptySeq
  <2> QED
    BY <2>1 DEF PushInit, PushType
<1>2. PushShape(push)
  BY <1>1, NobodyWaits DEF PushInit, PushShape
<1>3. /\ pushPc \in PushPcType /\ pushRec \in PushRecType
      /\ player \in PushRequests \cup {"user", "none"}
  BY DEF PushInit, PushPcType, PushRecType, PushStatuses
<1>4. pushMet \in PushMetType
  BY PushBounds DEF PushInit, PushMetType
<1>5. ASSUME NEW x \in PushRequests
      PROVE  PushPlace(push, pushPc[x], pushRec[x], x \in pushMet.refused, x)
  BY NobodyWaits, PushBounds DEF PushInit, PushPlace
<1> QED
  BY <1>2, <1>3, <1>4, <1>5 DEF PushInv, PushInit

LEMMA PushPreserves == PushInv /\ [PushNext]_pushVars => PushInv'
<1> SUFFICES ASSUME PushInv, [PushNext]_pushVars PROVE PushInv'
  OBVIOUS
<1>1. ASSUME NEW r \in PushRequests,
             \/ Submit(r) \/ SubmitRefused(r) \/ SubmitPending(r)
             \/ SubmitAccepted(r) \/ Confirm(r) \/ RejectPush(r)
             \/ CancelPush(r) \/ AcceptThrows(r) \/ AcceptRejects(r)
             \/ AcceptQueues(r) \/ AcceptPlays(r)
      PROVE  PushInv'
  BY <1>1, SubmitKeeps, ConfirmKeeps, CancelKeeps, AcceptKeeps,
     AcceptPlaysKeeps
<1>2. CASE UNCHANGED pushVars
  <2>1. UNCHANGED <<push, pushPc, pushRec, player, pushMet>>
    BY <1>2 DEF pushVars
  <2> QED
    BY <2>1 DEF PushInv
<1> QED
  BY <1>1, <1>2, ClearRecentKeeps, DrainKeeps, PlayStopsKeeps, PlayEndsKeeps,
     PlayerKeeps, ConfigureKeeps DEF PushNext

\* What every step of the service keeps: nobody is in two places, and the
\* chain, the drain and the play under way fit together.
THEOREM PushInvariance == PushSpec => []PushInv
  BY PushInitially, PushPreserves, PTL DEF PushSpec

LEMMA PushTypes == PushInv => PushTypeOK
  BY DEF PushInv, PushShape, PushTypeOK, PushType, PushPcType, PushRecType,
     PushStatuses, PushMetType

\* The chain, the queue, the records and the calls of the service keep their
\* types.
THEOREM PushTyped == PushSpec => []PushTypeOK
  BY PushTypes, PushInvariance, PTL

\* In a sequence without repetition an element is once, or not at all.
LEMMA OnceIs ==
  ASSUME NEW q, Distinct(q), NEW x
  PROVE  Cardinality({i \in DOMAIN q : q[i] = x}) =
             IF Holds(q, x) THEN 1 ELSE 0
<1>1. CASE Holds(q, x)
  <2>1. PICK i \in DOMAIN q : q[i] = x
    BY <1>1 DEF Holds
  <2>2. {j \in DOMAIN q : q[j] = x} = {i}
    BY <2>1 DEF Distinct
  <2> QED
    BY <1>1, <2>2, FS_Singleton
<1>2. CASE ~Holds(q, x)
  <2>1. {j \in DOMAIN q : q[j] = x} = {}
    BY <1>2 DEF Holds
  <2> QED
    BY <1>2, <2>1, FS_EmptySet
<1> QED
  BY <1>1, <1>2

\* A record tells where its request is, and a request is in one place at most,
\* however submits, answers of the user, plays, drains, settings and the
\* sessions of the user meet (acceptUnlocked, drainQueue, cancel, configure).
THEOREM RecordsTellTruth == PushSpec => []PushAccounted
<1>1. PushInv => PushAccounted
  <2> SUFFICES ASSUME PushInv, NEW r \in PushRequests
      PROVE  LET onItsWay == r = push.cur
                             \/ \E i \in DOMAIN push.lock : push.lock[i] = r
                 places == Cardinality({i \in DOMAIN push.queue : push.queue[i] = r})
                           + IF r \in push.pending THEN 1 ELSE 0
             IN  /\ pushRec[r] = "pending-confirmation" =>
                       (r \in push.pending \/ onItsWay \/ r \in pushMet.refused)
                 /\ pushRec[r] = "queued" =>
                       (InQueue(r) \/ (r = push.cur /\ Holder = "drain"))
                 /\ pushRec[r] \in {"rejected", "cancelled", "failed"} =>
                       (places = 0 /\ ~onItsWay)
                 /\ places + (IF onItsWay THEN 1 ELSE 0) =< 1
    BY DEF PushAccounted
  <2> DEFINE n == Cardinality({i \in DOMAIN push.queue : push.queue[i] = r})
  <2>1. n = IF Holds(push.queue, r) THEN 1 ELSE 0
    BY OnceIs, PushFacts
  <2>2. PushPlace(push, pushPc[r], pushRec[r], r \in pushMet.refused, r)
    BY DEF PushInv
  <2>3. (\E i \in DOMAIN push.lock : push.lock[i] = r) <=> Holds(push.lock, r)
    BY DEF Holds
  <2>4. InQueue(r) <=> Holds(push.queue, r)
    BY DEF InQueue, Holds
  <2>5. push.cur = r => Holder = Head(push.lock)
    BY PushFacts DEF PushShape, Holder
  <2> HIDE DEF n
  <2>6. /\ pushRec[r] = "pending-confirmation" =>
              r \in push.pending \/ r = push.cur \/ Holds(push.lock, r)
              \/ r \in pushMet.refused
        /\ pushRec[r] = "queued" =>
              InQueue(r) \/ (r = push.cur /\ Holder = "drain")
        /\ pushRec[r] \in {"rejected", "cancelled", "failed"} =>
              /\ n + (IF r \in push.pending THEN 1 ELSE 0) = 0
              /\ ~(r = push.cur \/ Holds(push.lock, r))
        /\ n + (IF r \in push.pending THEN 1 ELSE 0)
              + (IF r = push.cur \/ Holds(push.lock, r) THEN 1 ELSE 0) =< 1
    BY <2>1, <2>2, <2>4, <2>5 DEF PushPlace
  <2> QED
    BY <2>3, <2>6 DEF n
<1> QED
  BY <1>1, PushInvariance, PTL

\* No push is forgotten in the queue: where nothing plays and nothing is about
\* to, the queue is empty, unless the last session ended by an error or by a
\* stop that does not drain (drainQueue, those who call it, and those who do
\* not).
THEOREM QueueIsNotForgotten == PushSpec => []QueueIsServed
<1>1. PushInv => QueueIsServed
  BY DEF PushInv, QueueIsServed, AtRest
<1> QED
  BY <1>1, PushInvariance, PTL

-----------------------------------------------------------------------------
(* Follow. *)

FollowRecord == [followed : BOOLEAN, latest : 0..MaxEpisode,
                 watched : 0..MaxEpisode, news : BOOLEAN]
FollowStages == {"no", "queued", "limited", "asking", "done"}
CheckType == [under : BOOLEAN, copy : [Series -> FollowRecord],
              chain : [Series -> FollowStages], limiter : Seq(Series)]

\* FollowPaced, of the check c: the sources are asked one series at a time,
\* the queue of the limiter is who is limited, and nobody waits while a place
\* is free.
CheckGood(c) ==
    /\ c \in CheckType
    /\ Cardinality(Asking(c)) <= MaxConcurrentChecks
    /\ c.limiter # <<>> => Cardinality(Asking(c)) = MaxConcurrentChecks
    /\ Distinct(c.limiter)
    /\ \A i \in Series : Holds(c.limiter, i) <=> c.chain[i] = "limited"
    /\ \A i \in Series, j \in Series :
          /\ c.chain[i] \in {"limited", "asking"}
          /\ c.chain[j] \in {"limited", "asking"}
          /\ sourceOf[i] = sourceOf[j]
          => i = j

FollowInv == /\ fdb \in [Series -> FollowRecord]
             /\ sourceOf \in [Series -> FollowSources]
             /\ CheckGood(check)

LEMMA AskingIs ==
  ASSUME NEW c
  PROVE  IsFiniteSet(Asking(c)) /\ Cardinality(Asking(c)) \in Nat
<1>1. Asking(c) \subseteq Series
  BY DEF Asking
<1> QED
  BY <1>1, FS_Subset, FS_CardinalityType, FollowBounds

\* Nobody is asked or limited.
LEMMA NobodyAsked ==
  ASSUME NEW c \in CheckType, c.limiter = <<>>,
         \A i \in Series : c.chain[i] \notin {"limited", "asking"}
  PROVE  CheckGood(c)
<1>1. Asking(c) = {}
  BY DEF Asking
<1>2. Cardinality(Asking(c)) = 0
  BY <1>1, FS_EmptySet
<1> QED
  BY <1>2, NobodyWaits, FollowBounds DEF CheckGood

-----------------------------------------------------------------------------
\* The check.

LEMMA EntersIs ==
  ASSUME CheckGood(check), NEW i \in Series, TurnComes(i)
  PROVE  CheckGood(Enters(check, i))
<1> DEFINE n == Cardinality(Asking(check))
<1>1. /\ check \in CheckType /\ check.chain[i] = "queued"
      /\ \A j \in Series : check.chain[j] \in {"limited", "asking"}
                           => sourceOf[j] # sourceOf[i]
  BY DEF CheckGood, TurnComes, Busy
<1>2. n \in Nat /\ n <= MaxConcurrentChecks /\ IsFiniteSet(Asking(check))
      /\ MaxConcurrentChecks \in Nat
  BY AskingIs, FollowBounds DEF CheckGood
<1>3. CASE n < MaxConcurrentChecks
  <2> DEFINE d == [check EXCEPT !.chain = [check.chain EXCEPT ![i] = "asking"]]
  <2>1. Enters(check, i) = d
    BY <1>3 DEF Enters
  <2>2. /\ d \in CheckType /\ d.limiter = check.limiter /\ d.chain[i] = "asking"
        /\ \A j \in Series : j # i => d.chain[j] = check.chain[j]
    BY <1>1 DEF CheckType, FollowStages
  <2> HIDE DEF d
  <2>3. Asking(d) = Asking(check) \cup {i} /\ i \notin Asking(check)
    BY <1>1, <2>2 DEF Asking
  <2>4. Cardinality(Asking(d)) = n + 1
    BY <1>2, <2>3, FS_AddElement
  <2>5. d.limiter = <<>>
    BY <1>2, <1>3, <2>2 DEF CheckGood
  <2>6. \A j \in Series : d.chain[j] = "limited" <=> check.chain[j] = "limited"
    BY <1>1, <2>2
  <2>7. Distinct(d.limiter)
        /\ \A j \in Series : Holds(d.limiter, j) <=> d.chain[j] = "limited"
    BY <2>2, <2>6 DEF CheckGood
  <2>8. \A j \in Series, k \in Series :
          /\ d.chain[j] \in {"limited", "asking"}
          /\ d.chain[k] \in {"limited", "asking"}
          /\ sourceOf[j] = sourceOf[k]
          => j = k
    BY <1>1, <2>2 DEF CheckGood
  <2>9. n + 1 <= MaxConcurrentChecks
    BY <1>2, <1>3
  <2> HIDE DEF n
  <2> QED
    BY <2>1, <2>2, <2>4, <2>5, <2>7, <2>8, <2>9 DEF CheckGood
<1>4. CASE ~(n < MaxConcurrentChecks)
  <2> DEFINE q == Append(check.limiter, i)
             d == [check EXCEPT !.chain = [check.chain EXCEPT ![i] = "limited"],
                                !.limiter = q]
  <2>1. Enters(check, i) = d
    BY <1>4 DEF Enters
  <2>2. check.limiter \in Seq(Series) /\ ~Holds(check.limiter, i)
    BY <1>1 DEF CheckType, CheckGood
  <2>3. /\ q \in Seq(Series) /\ Distinct(q)
        /\ \A x : Holds(q, x) <=> Holds(check.limiter, x) \/ x = i
    BY <2>2, AppendedIs DEF CheckGood
  <2> HIDE DEF q
  <2>4. /\ d \in CheckType /\ d.limiter = q /\ d.chain[i] = "limited"
        /\ \A j \in Series : j # i => d.chain[j] = check.chain[j]
    BY <1>1, <2>3 DEF CheckType, FollowStages
  <2> HIDE DEF d
  <2>5. Asking(d) = Asking(check)
    BY <1>1, <2>4 DEF Asking
  <2>6. n = MaxConcurrentChecks
    BY <1>2, <1>4
  <2>7. \A j \in Series : Holds(d.limiter, j) <=> d.chain[j] = "limited"
    BY <2>3, <2>4 DEF CheckGood
  <2>8. \A j \in Series, k \in Series :
          /\ d.chain[j] \in {"limited", "asking"}
          /\ d.chain[k] \in {"limited", "asking"}
          /\ sourceOf[j] = sourceOf[k]
          => j = k
    BY <1>1, <2>4 DEF CheckGood
  <2>9. Cardinality(Asking(d)) = MaxConcurrentChecks
    BY <2>5, <2>6
  <2> QED
    BY <1>2, <2>1, <2>3, <2>4, <2>7, <2>8, <2>9 DEF CheckGood
<1> QED
  BY <1>3, <1>4

LEMMA LetsIs ==
  ASSUME CheckGood(check), NEW i \in Series, check.chain[i] = "asking"
  PROVE  CheckGood(Lets(check, i))
<1> DEFINE n == Cardinality(Asking(check))
           d == [check EXCEPT !.chain = [check.chain EXCEPT ![i] = "done"]]
<1>1. /\ check \in CheckType
      /\ n \in Nat /\ n <= MaxConcurrentChecks /\ IsFiniteSet(Asking(check))
      /\ MaxConcurrentChecks \in Nat
  BY AskingIs, FollowBounds DEF CheckGood
<1>2. /\ d \in CheckType /\ d.limiter = check.limiter /\ d.chain[i] = "done"
      /\ \A j \in Series : j # i => d.chain[j] = check.chain[j]
  BY <1>1 DEF CheckType, FollowStages
<1>3. Lets(check, i) = IF d.limiter = <<>> THEN d
                       ELSE [d EXCEPT !.chain[Head(d.limiter)] = "asking",
                                      !.limiter = Tail(@)]
  BY DEF Lets
<1> HIDE DEF d
<1>4. /\ Asking(d) = Asking(check) \ {i} /\ i \in Asking(check)
  BY <1>2 DEF Asking
<1>5. Cardinality(Asking(d)) = n - 1 /\ IsFiniteSet(Asking(d))
  BY <1>1, <1>4, FS_RemoveElement
<1>6. \A j \in Series : /\ d.chain[j] = "limited" <=> check.chain[j] = "limited"
                        /\ Holds(d.limiter, j) <=> d.chain[j] = "limited"
  BY <1>2 DEF CheckGood
<1>7. \A j \in Series, k \in Series :
          /\ d.chain[j] \in {"limited", "asking"}
          /\ d.chain[k] \in {"limited", "asking"}
          /\ sourceOf[j] = sourceOf[k]
          => j = k
  BY <1>2 DEF CheckGood
<1>8. CASE d.limiter = <<>>
  <2>1. n - 1 <= MaxConcurrentChecks
    BY <1>1
  <2>2. Distinct(d.limiter)
    BY <1>2 DEF CheckGood
  <2> HIDE DEF n
  <2> QED
    BY <1>2, <1>3, <1>5, <1>6, <1>7, <1>8, <2>1, <2>2 DEF CheckGood
<1>9. CASE d.limiter # <<>>
  <2> DEFINE h == Head(d.limiter)
             q == Tail(d.limiter)
             e == [d EXCEPT !.chain = [d.chain EXCEPT ![h] = "asking"],
                            !.limiter = q]
  <2>1. Lets(check, i) = e
    BY <1>3, <1>9
  <2>2. d.limiter \in Seq(Series) /\ Distinct(d.limiter)
    BY <1>2 DEF CheckType, CheckGood
  <2>3. /\ q \in Seq(Series) /\ h \in Series /\ Holds(d.limiter, h)
        /\ Distinct(q) /\ ~Holds(q, h)
        /\ \A x : Holds(d.limiter, x) <=> Holds(q, x) \/ x = h
    BY <1>9, <2>2, TailIs
  <2> HIDE DEF q, h
  <2>4. /\ e \in CheckType /\ e.limiter = q /\ e.chain[h] = "asking"
        /\ \A j \in Series : j # h => e.chain[j] = d.chain[j]
    BY <1>2, <2>3 DEF CheckType, FollowStages
  <2> HIDE DEF e
  <2>5. d.chain[h] = "limited"
    BY <1>6, <2>3
  <2>6. Asking(e) = Asking(d) \cup {h} /\ h \notin Asking(d)
    BY <2>3, <2>4, <2>5 DEF Asking
  <2>7. Cardinality(Asking(e)) = MaxConcurrentChecks
    <3>1. Cardinality(Asking(e)) = (n - 1) + 1
      BY <1>5, <2>6, FS_AddElement
    <3>2. n = MaxConcurrentChecks
      BY <1>2, <1>9 DEF CheckGood
    <3> QED
      BY <1>1, <3>1, <3>2
  <2>8. \A j \in Series : Holds(e.limiter, j) <=> e.chain[j] = "limited"
    BY <1>6, <2>3, <2>4
  <2>9. \A j \in Series, k \in Series :
          /\ e.chain[j] \in {"limited", "asking"}
          /\ e.chain[k] \in {"limited", "asking"}
          /\ sourceOf[j] = sourceOf[k]
          => j = k
    BY <1>7, <2>4, <2>5
  <2> QED
    BY <1>1, <2>1, <2>3, <2>4, <2>7, <2>8, <2>9 DEF CheckGood
<1> QED
  BY <1>8, <1>9

LEMMA IdleIsGood == CheckGood(CheckIdle)
<1>1. NoRecord \in FollowRecord /\ <<>> \in Seq(Series)
  BY FollowBounds, EmptySeq DEF NoRecord, FollowRecord
<1>2. CheckIdle \in CheckType
  BY <1>1 DEF CheckIdle, CheckType, FollowStages
<1>3. /\ CheckIdle.limiter = <<>>
      /\ \A i \in Series : CheckIdle.chain[i] \notin {"limited", "asking"}
  BY DEF CheckIdle
<1> QED
  BY <1>2, <1>3, NobodyAsked

-----------------------------------------------------------------------------
\* The rows.

LEMMA SyncedIs ==
  ASSUME NEW r \in FollowRecord, NEW seen \in 0..MaxEpisode
  PROVE  Synced(r, seen) \in FollowRecord
  BY DEF Synced, FollowRecord

LEMMA RowsTyped ==
  ASSUME FollowInv, UNCHANGED sourceOf, NEW i \in Series,
         \/ \E latest \in 0..MaxEpisode : FollowSeries(i, latest)
         \/ Unfollow(i) \/ MarkWatched(i) \/ MarkUnwatched(i) \/ CheckOne(i)
         \/ ShowFollows
  PROVE  fdb' \in [Series -> FollowRecord]
<1>0. /\ fdb \in [Series -> FollowRecord] /\ 0 \in 0..MaxEpisode
      /\ NoRecord \in FollowRecord
  BY FollowBounds DEF FollowInv, NoRecord, FollowRecord
<1>1. ASSUME NEW row \in FollowRecord, fdb' = [fdb EXCEPT ![i] = row]
      PROVE  fdb' \in [Series -> FollowRecord]
  BY <1>0, <1>1
<1>2. ASSUME NEW latest \in 0..MaxEpisode, FollowSeries(i, latest)
      PROVE  fdb' \in [Series -> FollowRecord]
  <2>1. [NoRecord EXCEPT !.followed = TRUE, !.latest = latest] \in FollowRecord
    BY <1>0 DEF FollowRecord
  <2> QED
    BY <1>1, <1>2, <2>1 DEF FollowSeries
<1>3. CASE Unfollow(i)
  BY <1>0, <1>1, <1>3 DEF Unfollow
<1>4. CASE MarkWatched(i)
  <2>1. [fdb[i] EXCEPT !.watched = fdb[i].latest, !.news = FALSE] \in FollowRecord
    BY <1>0 DEF FollowRecord
  <2>2. fdb' = [fdb EXCEPT ![i] = [fdb[i] EXCEPT !.watched = fdb[i].latest,
                                                !.news = FALSE]]
    BY <1>0, <1>4 DEF MarkWatched
  <2> QED
    BY <1>1, <2>1, <2>2
<1>5. CASE MarkUnwatched(i)
  <2>1. PICK seen \in [Series -> 0..MaxEpisode] :
          fdb' = [j \in Series |->
             IF j = i THEN [Synced(fdb[j], seen[j]) EXCEPT
                               !.news = (fdb[j].latest # 0)]
             ELSE Synced(fdb[j], seen[j])]
    BY <1>5 DEF MarkUnwatched
  <2>2. \A j \in Series : Synced(fdb[j], seen[j]) \in FollowRecord
    BY <1>0, SyncedIs
  <2>3. \A j \in Series : [Synced(fdb[j], seen[j]) EXCEPT
                               !.news = (fdb[j].latest # 0)] \in FollowRecord
    BY <2>2 DEF FollowRecord
  <2> QED
    BY <2>1, <2>2, <2>3
<1>6. CASE CheckOne(i)
  <2>1. check.copy[i] \in FollowRecord
    BY DEF FollowInv, CheckGood, CheckType
  <2>2. \A latest \in 0..MaxEpisode :
           Applied(check.copy[i], latest) \in FollowRecord
    BY <2>1 DEF Applied, FollowRecord
  <2> QED
    BY <1>1, <1>6, <2>1, <2>2 DEF CheckOne
<1>7. CASE ShowFollows
  <2>1. PICK seen \in [Series -> 0..MaxEpisode] :
          fdb' = [j \in Series |-> Synced(fdb[j], seen[j])]
    BY <1>7 DEF ShowFollows
  <2>2. \A j \in Series : Synced(fdb[j], seen[j]) \in FollowRecord
    BY <1>0, SyncedIs
  <2> QED
    BY <2>1, <2>2
<1> QED
  BY <1>2, <1>3, <1>4, <1>5, <1>6, <1>7

-----------------------------------------------------------------------------
\* The invariant holds of the first state, and every step keeps it.

\* CheckGood reads the sources of the series, which never change.
LEMMA SourcesStay ==
  ASSUME NEW c, NEW d, CheckGood(c), UNCHANGED sourceOf, check' = c
  PROVE  CheckGood(check)'
  BY DEF CheckGood, Asking

LEMMA FollowStarts == FollowInit => FollowInv
<1> SUFFICES ASSUME FollowInit PROVE FollowInv
  OBVIOUS
<1>1. NoRecord \in FollowRecord
  BY FollowBounds DEF NoRecord, FollowRecord
<1>2. CheckGood(CheckIdle)
  BY IdleIsGood
<1> QED
  BY <1>1, <1>2 DEF FollowInit, FollowInv

LEMMA FollowPreserves == FollowInv /\ [FollowNext]_followVars => FollowInv'
<1> SUFFICES ASSUME FollowInv, [FollowNext]_followVars PROVE FollowInv'
  OBVIOUS
<1>0. /\ fdb \in [Series -> FollowRecord] /\ CheckGood(check)
      /\ check \in CheckType
      /\ sourceOf \in [Series -> FollowSources]
  BY DEF FollowInv, CheckGood
<1>1. ASSUME NEW i \in Series,
             \/ \E latest \in 0..MaxEpisode : FollowSeries(i, latest)
             \/ Unfollow(i) \/ MarkWatched(i) \/ MarkUnwatched(i)
      PROVE  FollowInv'
  <2>1. UNCHANGED <<check, sourceOf>>
    BY <1>1 DEF FollowSeries, Unfollow, MarkWatched, MarkUnwatched
  <2>2. fdb' \in [Series -> FollowRecord]
    BY <1>1, <2>1, RowsTyped
  <2> QED
    BY <1>0, <2>1, <2>2, SourcesStay DEF FollowInv
<1>2. ASSUME NEW i \in Series, CheckTurn(i) PROVE FollowInv'
  <2>1. TurnComes(i) /\ check' = Enters(check, i) /\ UNCHANGED <<fdb, sourceOf>>
    BY <1>2 DEF CheckTurn
  <2> QED
    BY <1>0, <2>1, EntersIs, SourcesStay DEF FollowInv
<1>3. ASSUME NEW i \in Series, CheckOne(i) PROVE FollowInv'
  <2>1. /\ check.chain[i] = "asking" /\ check' = Lets(check, i)
        /\ UNCHANGED sourceOf
    BY <1>3 DEF CheckOne
  <2>2. fdb' \in [Series -> FollowRecord]
    BY <1>3, <2>1, RowsTyped
  <2> QED
    BY <1>0, <2>1, <2>2, LetsIs, SourcesStay DEF FollowInv
<1>4. CASE ShowFollows
  <2>1. UNCHANGED <<check, sourceOf>>
    BY <1>4 DEF ShowFollows
  <2>2. fdb' \in [Series -> FollowRecord]
    <3>1. CASE Series = {}
      BY <1>4, <3>1 DEF ShowFollows
    <3>2. CASE Series # {}
      BY <1>4, <2>1, <3>2, RowsTyped
    <3> QED
      BY <3>1, <3>2
  <2> QED
    BY <1>0, <2>1, <2>2, SourcesStay DEF FollowInv
<1>5. CASE Check
  <2> DEFINE c == [under |-> TRUE, copy |-> fdb, limiter |-> <<>>,
                   chain |-> [i \in Series |-> IF fdb[i].followed THEN "queued"
                                               ELSE "no"]]
  <2>1. check' = c /\ UNCHANGED <<fdb, sourceOf>>
    BY <1>5 DEF Check
  <2>2. c \in CheckType
    BY <1>0, EmptySeq DEF CheckType, FollowStages
  <2>3. /\ c.limiter = <<>>
        /\ \A i \in Series : c.chain[i] \notin {"limited", "asking"}
    OBVIOUS
  <2> HIDE DEF c
  <2>4. CheckGood(c)
    BY <2>2, <2>3, NobodyAsked
  <2> QED
    BY <1>0, <2>1, <2>4, SourcesStay DEF FollowInv
<1>6. CASE CheckReturns
  BY <1>0, <1>6, IdleIsGood, SourcesStay DEF FollowInv, CheckReturns
<1>7. CASE UNCHANGED followVars
  BY <1>0, <1>7, SourcesStay DEF FollowInv, followVars
<1> QED
  BY <1>1, <1>2, <1>3, <1>4, <1>5, <1>6, <1>7 DEF FollowNext

\* What every step of a check and of its sources keeps (CheckGood).
THEOREM FollowInvariance == FollowSpec => []FollowInv
  BY FollowStarts, FollowPreserves, PTL DEF FollowSpec

LEMMA FollowTypes == FollowInv => FollowTypeOK
  BY DEF FollowInv, FollowTypeOK, CheckGood, CheckType, FollowRecord, FollowStages

\* The rows of the follows, their sources and the check keep their types.
THEOREM FollowTyped == FollowSpec => []FollowTypeOK
  BY FollowTypes, FollowInvariance, PTL

\* A check is gentle and stalls nowhere, for any number of series and sources:
\* the limiter is never exceeded and never left idle while somebody waits, who
\* waits does so once, and a source is asked for one series at a time
\* (runChecks, AsyncLimiter).
THEOREM ChecksArePaced == FollowSpec => []FollowPaced
<1>1. FollowInv => FollowPaced
  <2> SUFFICES ASSUME FollowInv PROVE FollowPaced
    OBVIOUS
  <2>1. CheckGood(check)
    BY DEF FollowInv
  <2>2. ASSUME NEW i \in Series
        PROVE  Cardinality(Busy(check, sourceOf[i])) =< 1
    <3> DEFINE B == Busy(check, sourceOf[i])
    <3>1. CASE B = {}
      BY <3>1, FS_EmptySet
    <3>2. CASE B # {}
      <4>1. PICK j \in B : TRUE
        BY <3>2
      <4>2. B = {j}
        BY <2>1, <4>1 DEF Busy, CheckGood
      <4>3. Cardinality({j}) = 1
        BY FS_Singleton
      <4> QED
        BY <4>2, <4>3
    <3> QED
      BY <3>1, <3>2
  <2>3. ASSUME NEW i \in Series
        PROVE  (check.chain[i] = "limited") =
               (Cardinality({k \in DOMAIN check.limiter : check.limiter[k] = i}) = 1)
    <3>1. Cardinality({k \in DOMAIN check.limiter : check.limiter[k] = i})
             = IF Holds(check.limiter, i) THEN 1 ELSE 0
      BY <2>1, OnceIs DEF CheckGood
    <3>2. Holds(check.limiter, i) <=> check.chain[i] = "limited"
      BY <2>1 DEF CheckGood
    <3> QED
      BY <3>1, <3>2
  <2> QED
    BY <2>1, <2>2, <2>3 DEF FollowPaced, CheckGood
<1> QED
  BY <1>1, FollowInvariance, PTL

-----------------------------------------------------------------------------
(* History. *)

\* ProgressKept, and what holds while the recording is paused too: an episode
\* that has started has its row, up to date where nothing is pending.
HistoryInv ==
    /\ HistoryTypeOK /\ ProgressKept
    /\ hs.active # "none" /\ hs.started =>
          /\ hdb.history[hs.active] # NoPosition
          /\ HasPending(writer) \/ hdb.history[hs.active] = hs.latest

LEMMA PositionsBounded == NoPosition \notin Positions /\ 0 \in Positions
  BY HistoryBounds DEF NoPosition, Positions

LEMMA HistoryFlushed ==
  ASSUME HistoryInv
  PROVE  /\ FlushedDb \in [progress : [Episodes -> Positions \cup {NoPosition}],
                history : [Episodes -> Positions \cup {NoPosition}],
                paused : BOOLEAN]
         /\ FlushedDb.paused = hdb.paused
         /\ ~HasPending(FlushedWriter)
         /\ FlushedWriter \in [pending : Positions \cup {NoPosition},
                debounce : BOOLEAN, interval : BOOLEAN,
                of : Episodes \cup {"none"}]
         /\ hs.active # "none" /\ hs.started =>
                FlushedDb.history[hs.active] = hs.latest
  BY HistoryBounds, PositionsBounded
  DEF HistoryInv, HistoryTypeOK, ProgressKept, FlushedDb,
     FlushedWriter, Records, Written, Persisted, HasPending, Discarded

LEMMA HistoryStep ==
  ASSUME HistoryInv, [HistoryNext]_histVars
  PROVE  HistoryInv'
<1> USE HistoryBounds, PositionsBounded
<1> USE DEF HistoryInv, HistoryTypeOK, ProgressKept, Records, HasPending
<1>1. ASSUME NEW e \in Episodes, Begin(e) PROVE HistoryInv'
  BY <1>1, HistoryFlushed DEF Begin
<1>2. ASSUME NEW e \in Episodes, DeleteProgress(e) PROVE HistoryInv'
  BY <1>2 DEF DeleteProgress, Discarded
<1>3. ASSUME NEW p \in Positions, NEW unknown \in BOOLEAN,
             NEW playing \in BOOLEAN, NEW ends \in BOOLEAN,
             Sync(p, unknown, playing, ends)
      PROVE  HistoryInv'
  <2> DEFINE h == [hs EXCEPT !.started = @ \/ playing]
             db == IF playing /\ ~hs.started THEN Persisted(hdb, h) ELSE hdb
             reset == p = 0 /\ unknown /\ ~playing /\ hs.latest > 0
             moved == [h EXCEPT !.latest = p]
             updated == [pending |-> p, of |-> hs.active, debounce |-> TRUE,
                         interval |-> TRUE]
  <2>1. /\ hs.active \in Episodes /\ ~hdb.paused
        /\ h = [active |-> hs.active, started |-> hs.started \/ playing,
                latest |-> hs.latest]
        /\ h.started \in BOOLEAN
    BY <1>3 DEF Sync
  <2>2. /\ db \in [progress : [Episodes -> Positions \cup {NoPosition}],
                   history : [Episodes -> Positions \cup {NoPosition}],
                   paused : BOOLEAN]
        /\ ~db.paused
        /\ h.started => db.history[hs.active] # NoPosition
        /\ h.started /\ ~HasPending(writer) =>
              db.history[hs.active] = hs.latest
    BY <2>1 DEF Persisted
  <2>3. CASE hs' = h /\ hdb' = db /\ UNCHANGED writer
    <3> HIDE DEF h, db
    <3> QED
      BY <2>1, <2>2, <2>3
  <2>4. CASE /\ h.started
             /\ hs' = moved
             /\ hdb' = IF ends THEN Written(db, moved, updated) ELSE db
             /\ writer' = IF ends THEN Discarded ELSE updated
    <3> HIDE DEF h, db
    <3>1. moved = [active |-> hs.active, started |-> h.started, latest |-> p]
      BY <2>1
    <3> HIDE DEF moved
    <3>2. CASE ends
      BY <2>1, <2>2, <2>4, <3>1, <3>2 DEF Written, Persisted, Discarded
    <3>3. CASE ~ends
      BY <2>1, <2>2, <2>4, <3>1, <3>3
    <3> QED
      BY <3>2, <3>3
  <2> QED
    BY <1>3, <2>3, <2>4 DEF Sync
<1>4. CASE TimerFires
  BY <1>4 DEF TimerFires, Written, Persisted, Discarded
<1>5. CASE FlushHistory \/ StopHistory \/ Killed
  <2>1. CASE FlushHistory
    BY <2>1, HistoryFlushed DEF FlushHistory
  <2>2. CASE StopHistory
    BY <2>2, HistoryFlushed DEF StopHistory, Inactive
  <2>3. CASE Killed
    BY <2>3 DEF Killed, Inactive, Discarded
  <2> QED
    BY <1>5, <2>1, <2>2, <2>3
<1>6. ASSUME NEW paused \in BOOLEAN, SetPaused(paused) PROVE HistoryInv'
  BY <1>6, HistoryFlushed DEF SetPaused
<1>7. ASSUME NEW deleted \in SUBSET Episodes, Delete(deleted) PROVE HistoryInv'
  BY <1>7 DEF Delete, Inactive, Discarded
<1>8. CASE UNCHANGED histVars
  BY <1>8 DEF histVars
<1> QED
  BY <1>1, <1>2, <1>3, <1>4, <1>5, <1>6, <1>7, <1>8 DEF HistoryNext

LEMMA HistoryStarts == HistoryInit => HistoryInv
  BY HistoryBounds, PositionsBounded
  DEF HistoryInit, HistoryInv, HistoryTypeOK, ProgressKept, HasPending, Records

\* What every sync, write, flush and delete keeps: a recorded position is safe,
\* and the writer's timers are armed for what is pending.
THEOREM HistoryInvariance == HistorySpec => []HistoryInv
  BY HistoryStarts, HistoryStep, PTL DEF HistorySpec

\* The history, the records and the timers of the writer keep their types.
THEOREM HistoryTyped == HistorySpec => []HistoryTypeOK
<1>1. HistoryInv => HistoryTypeOK
  BY DEF HistoryInv
<1> QED
  BY <1>1, HistoryInvariance, PTL

\* A position that was recorded is in the history or waits for timers that are
\* armed (sync, flush, deleteMany, setPaused, PlaybackProgressWriter).
THEOREM ProgressIsKept == HistorySpec => []ProgressKept
<1>1. HistoryInv => ProgressKept
  BY DEF HistoryInv
<1> QED
  BY <1>1, HistoryInvariance, PTL
=============================================================================
