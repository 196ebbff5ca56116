---------------------------- MODULE SessionsProofs ----------------------------
(***************************************************************************)
(* The sessions of a site and their runtimes, for any number of opens,     *)
(* searches and resets.                                                    *)
(*                                                                         *)
(* The inductive invariant SsInv has three layers.  SsShape holds whatever *)
(* meets: the types, and that a runtime which is cached or awaited was     *)
(* made.  SsCached holds as long as no two imports met: whatever is made   *)
(* or lives is what the manager caches.  SsAlone and SsOwned hold as long  *)
(* as the calls came one after another: then a session that says ready has *)
(* its runtime, and the runtime no other owner.                            *)
(***************************************************************************)
EXTENDS SpiderSessions, FiniteSetTheorems, TLAPS

SsImpType == [status : {"ready", "cancelled", "loading", "error"},
              config : BOOLEAN, entry : 0..MaxSpiderSessions,
              current : 0..MaxSpiderSessions, opening : SsSearches \cup {"none"}]
SsStatuses == {"none", "idle", "initializing", "ready", "loading", "error",
               "destroyed"}
SsSesType == [SessionIds -> [status : SsStatuses, rt : 0..MaxRuntimes]]
SsMgrType == [cached : 0..MaxRuntimes,
              rt : [RuntimeIds -> {"none", "making", "failed", "fresh",
                                   "started", "destroyed"}]]
SsSteps == {"idle", "runtime", "init", "closing", "joined", "opened", "request",
            "done", "failed", "refused"}
SsPcType == [SsCalls -> [at : SsSteps, s : 0..MaxSpiderSessions,
                         r : 0..MaxRuntimes, on : SsSearches \cup {"none"}]]
SsResetSteps == {"idle", "releasing", "manager", "managed", "loading", "done"}
SsResetType == [SsResets ->
                  [at : SsResetSteps,
                   s : 0..MaxSpiderSessions, current : 0..MaxSpiderSessions,
                   wait : BOOLEAN,
                   kind : {"none", "reinitialize", "cancel", "import"}]]

\* The types, and what goes with them: only a call that joined waits for an
\* open, a runtime that is cached or awaited was made, and only an import goes
\* on to the manager.
SsShape ==
    /\ SsTypeOK
    /\ \A c \in SsCalls :
          /\ ssPc[c].on # "none" => ssPc[c].at = "joined"
          /\ ssPc[c].at \in {"runtime", "init", "joined", "opened", "request"} =>
                ssPc[c].s # 0
          /\ ssPc[c].at = "runtime" =>
                ssPc[c].r # 0 /\ ssMgr.rt[ssPc[c].r] # "none"
    /\ ssMgr.cached # 0 => ssMgr.rt[ssMgr.cached] # "none"
    /\ \A c \in SsResets :
          ssReset[c].at \in {"manager", "managed", "loading"} =>
             ssReset[c].kind = "import"

\* Where no two imports met: one runtime at most is made or lives, the one that
\* is cached, and an import drops the manager when that one is destroyed.
SsCached ==
    /\ ~TwoImports
    /\ \A r \in RuntimeIds : r \in Making \/ Live(r) => r = ssMgr.cached
    /\ \A c \in SsResets : ssReset[c].at = "managed" =>
          /\ ssMgr.cached \notin Making /\ ~Live(ssMgr.cached)
          /\ ssMgr.cached = 0 => ~ssReset[c].wait

CallBusy(c) == ssPc[c].at \notin {"idle", "done", "failed", "refused"}
ResetBusy(c) == ssReset[c].at \notin {"idle", "done"}

\* Where calls came one after another: one is under way at most; only the
\* session of the map has a runtime, which lives; one that says ready has it,
\* unless it is being released; and the window's is that one, or destroyed.
SsAlone ==
    /\ \A c \in SsCalls, d \in SsCalls : CallBusy(c) /\ CallBusy(d) => c = d
    /\ \A c \in SsResets, d \in SsResets : ResetBusy(c) /\ ResetBusy(d) => c = d
    /\ \A c \in SsCalls, d \in SsResets : ~(CallBusy(c) /\ ResetBusy(d))
    /\ ssImp.opening # "none" =>
          ssPc[ssImp.opening].at \in {"runtime", "init", "closing"}
    /\ \A c \in SsCalls : ssPc[c].at # "joined"

SsOwned ==
    /\ \A s \in SessionIds : ssSes[s].rt # 0 =>
          s = ssImp.entry /\ ssSes[s].status # "destroyed" /\ Live(ssSes[s].rt)
    /\ \A s \in SessionIds : ssSes[s].status = "ready" =>
          \/ ssSes[s].rt # 0
          \/ \E c \in SsResets : /\ ssReset[c].at = "releasing"
                                 /\ ssReset[c].wait /\ ssReset[c].s = s
    /\ ssImp.current = 0 \/ ssImp.current = ssImp.entry
       \/ ssSes[ssImp.current].status = "destroyed"
    /\ \A c \in SsCalls :
          /\ ssPc[c].at \in {"runtime", "init"} =>
                /\ ssPc[c].s = ssImp.entry /\ ssImp.entry # 0
                /\ ssSes[ssPc[c].s].status # "destroyed"
          /\ ssPc[c].at = "request" =>
                ssPc[c].s # 0 /\ ssSes[ssPc[c].s].rt # 0
          /\ ssPc[c].at = "opened" => ssPc[c].s # 0
    /\ \A c \in SsResets :
          /\ ssReset[c].at \in {"releasing", "manager", "managed", "loading"} =>
                ssImp.entry = 0
          /\ ssReset[c].at = "releasing" =>
                /\ ssReset[c].wait => ssReset[c].s # 0
                /\ \/ ssReset[c].wait \/ ssReset[c].s = 0
                   \/ ssSes[ssReset[c].s].status = "destroyed"
                /\ \/ ssReset[c].current \in {0, ssReset[c].s}
                   \/ ssSes[ssReset[c].current].status = "destroyed"

SsInv == /\ SsShape
         /\ ssMet # "imports" => SsCached
         /\ ssMet = "none" => SsAlone /\ SsOwned

LEMMA ShapeTypes ==
  ASSUME SsShape
  PROVE  /\ ssImp \in SsImpType /\ ssSes \in SsSesType /\ ssMgr \in SsMgrType
         /\ ssPc \in SsPcType /\ ssReset \in SsResetType
  BY DEF SsShape, SsTypeOK, SsImpType, SsSesType, SsMgrType, SsPcType,
     SsResetType, SsSteps, SsResetSteps, SsStatuses

LEMMA Numbers ==
  /\ NewSession \in Nat \ {0} /\ NewRuntime \in Nat \ {0}
  /\ 0 \notin SessionIds /\ 0 \notin RuntimeIds
  /\ SessionIds \subseteq 0..MaxSpiderSessions
  /\ RuntimeIds \subseteq 0..MaxRuntimes
  /\ NewSession <= MaxSpiderSessions => NewSession \in SessionIds
  /\ NewRuntime <= MaxRuntimes => NewRuntime \in RuntimeIds
  /\ \A s \in 0..MaxSpiderSessions : s # 0 => s \in SessionIds
  /\ \A r \in 0..MaxRuntimes : r # 0 => r \in RuntimeIds
<1> USE SsBounds
<1>1. IsFiniteSet(SessionIds) /\ IsFiniteSet(RuntimeIds)
  BY FS_Interval DEF SessionIds, RuntimeIds
<1>2. IsFiniteSet(Created)
  BY <1>1, FS_Subset DEF Created
<1>3. IsFiniteSet({r \in RuntimeIds : ssMgr.rt[r] # "none"})
  BY <1>1, FS_Subset
<1>4. /\ Cardinality(Created) \in Nat
      /\ Cardinality({r \in RuntimeIds : ssMgr.rt[r] # "none"}) \in Nat
  BY <1>2, <1>3, FS_CardinalityType
<1> QED
  BY <1>4 DEF NewSession, NewRuntime, SessionIds, RuntimeIds

-----------------------------------------------------------------------------
\* What the operations of the code that several actions share make of the state.

LEMMA DestroyedIs ==
  ASSUME NEW m \in SsMgrType, NEW r \in 0..MaxRuntimes
  PROVE  /\ Destroyed(m, r) \in SsMgrType
         /\ Destroyed(m, r).cached = m.cached
         /\ \A x \in RuntimeIds :
               Destroyed(m, r).rt[x] = IF x = r THEN "destroyed" ELSE m.rt[x]
<1> USE Numbers
<1>1. CASE r = 0
  BY <1>1 DEF Destroyed
<1>2. CASE r # 0
  BY <1>2 DEF Destroyed, SsMgrType
<1> QED
  BY <1>1, <1>2

LEMMA CachedIs ==
  ASSUME NEW m \in SsMgrType, NEW r \in RuntimeIds,
         m.cached # 0 => m.rt[m.cached] # "none"
  PROVE  /\ Cached(m, r) \in SsMgrType
         /\ Cached(m, r).cached # 0
         /\ Cached(m, r).rt[Cached(m, r).cached] # "none"
         /\ \A x \in RuntimeIds : m.rt[x] # "none" => Cached(m, r).rt[x] # "none"
         /\ \/ m.cached # 0 /\ Cached(m, r) = m
            \/ /\ m.cached = 0 /\ Cached(m, r).cached = r
               /\ Cached(m, r).rt = [m.rt EXCEPT ![r] = "making"]
<1> USE Numbers
<1>1. CASE m.cached # 0
  BY <1>1 DEF Cached
<1>2. CASE m.cached = 0
  <2>1. Cached(m, r) = [m EXCEPT !.cached = r,
                                 !.rt = [m.rt EXCEPT ![r] = "making"]]
    BY <1>2 DEF Cached, SsMgrType
  <2>2. [m.rt EXCEPT ![r] = "making"] \in [RuntimeIds ->
           {"none", "making", "failed", "fresh", "started", "destroyed"}]
    BY DEF SsMgrType
  <2>3. Cached(m, r) = [cached |-> r, rt |-> [m.rt EXCEPT ![r] = "making"]]
    BY <2>1 DEF SsMgrType
  <2> QED
    BY <1>2, <2>2, <2>3 DEF SsMgrType
<1> QED
  BY <1>1, <1>2

LEMMA SettleIs ==
  ASSUME SsShape, NEW c \in SsCalls, NEW at \in SsSteps \ {"runtime"}
  PROVE  /\ Settle(c, at) \in SsPcType
         /\ \A d \in SsCalls :
               /\ Settle(c, at)[d].at = IF d = c \/ ssPc[d].on = c THEN at
                                        ELSE ssPc[d].at
               /\ Settle(c, at)[d].s = ssPc[d].s /\ Settle(c, at)[d].r = ssPc[d].r
               /\ Settle(c, at)[d].on = IF d = c \/ ssPc[d].on = c THEN "none"
                                        ELSE ssPc[d].on
<1>1. ASSUME NEW d \in SsCalls
      PROVE  /\ Settle(c, at)[d] \in [at : SsSteps, s : 0..MaxSpiderSessions,
                         r : 0..MaxRuntimes, on : SsSearches \cup {"none"}]
             /\ Settle(c, at)[d].at = IF d = c \/ ssPc[d].on = c THEN at
                                      ELSE ssPc[d].at
             /\ Settle(c, at)[d].s = ssPc[d].s /\ Settle(c, at)[d].r = ssPc[d].r
             /\ Settle(c, at)[d].on = IF d = c \/ ssPc[d].on = c THEN "none"
                                      ELSE ssPc[d].on
  <2>1. ssPc[d] \in [at : SsSteps, s : 0..MaxSpiderSessions,
                         r : 0..MaxRuntimes, on : SsSearches \cup {"none"}]
    BY ShapeTypes DEF SsPcType
  <2>2. CASE d = c \/ ssPc[d].on = c
    <3>1. Settle(c, at)[d] = [ssPc[d] EXCEPT !.at = at, !.on = "none"]
      BY <2>2 DEF Settle
    <3> QED
      BY <2>1, <2>2, <3>1
  <2>3. CASE ~(d = c \/ ssPc[d].on = c)
    <3>1. Settle(c, at)[d] = ssPc[d]
      BY <2>3 DEF Settle
    <3> QED
      BY <2>1, <2>3, <3>1
  <2> QED
    BY <2>2, <2>3
<1>2. Settle(c, at) = [d \in SsCalls |-> Settle(c, at)[d]]
  BY DEF Settle
<1> HIDE DEF Settle
<1> QED
  BY <1>1, <1>2 DEF SsPcType

\* A call goes on to at.
LEMMA AtIs ==
  ASSUME SsShape, NEW c \in SsCalls, NEW at \in SsSteps
  PROVE  /\ At(c, at) \in SsPcType
         /\ \A d \in SsCalls : d # c => At(c, at)[d] = ssPc[d]
         /\ At(c, at)[c].at = at /\ At(c, at)[c].s = ssPc[c].s
         /\ At(c, at)[c].r = ssPc[c].r /\ At(c, at)[c].on = ssPc[c].on
  BY ShapeTypes DEF At, SsPcType

LEMMA StatusIs ==
  ASSUME NEW ses \in SsSesType, NEW s \in SessionIds,
         NEW status \in SsStatuses
  PROVE  /\ SsStatus(ses, s, status) \in SsSesType
         /\ SsStatus(ses, s, status)[s] = [status |-> status, rt |-> ses[s].rt]
         /\ SsStatus(ses, s, status)[s].status = status
         /\ SsStatus(ses, s, status)[s].rt = ses[s].rt
<1>1. ses[s] \in [status : SsStatuses, rt : 0..MaxRuntimes]
  BY DEF SsSesType
<1> QED
  BY <1>1 DEF SsStatus, SsSesType

LEMMA StatusKeeps ==
  ASSUME NEW ses \in SsSesType, NEW s \in SessionIds,
         NEW status \in SsStatuses, NEW x \in SessionIds, x # s
  PROVE  SsStatus(ses, s, status)[x] = ses[x]
  BY DEF SsStatus, SsSesType

LEMMA StatusesAre ==
  /\ "idle" \in SsStatuses /\ "initializing" \in SsStatuses
  /\ "ready" \in SsStatuses /\ "loading" \in SsStatuses
  /\ "error" \in SsStatuses /\ "destroyed" \in SsStatuses
  BY DEF SsStatuses

\* What holds of a state of the calls that does not change what was made.
Made(mgr) == \A r \in RuntimeIds : ssMgr.rt[r] # "none" => mgr.rt[r] # "none"

\* open, of call c on session s: refused, or the runtime is awaited.
LEMMA OpenIs ==
  ASSUME SsShape, NEW c \in SsCalls, NEW s \in SessionIds, NEW ses \in SsSesType,
         NEW imp \in SsImpType, Open(c, s, ses, imp)
  PROVE  /\ ssSes' \in SsSesType /\ ssImp' \in SsImpType
         /\ ssMgr' \in SsMgrType /\ ssPc' \in SsPcType
         /\ ssImp'.entry = imp.entry /\ ssImp'.current = imp.current
         /\ ssSes'[s].rt = ses[s].rt
         /\ \A d \in SsCalls : d # c => ssPc'[d] = ssPc[d]
         /\ \/ /\ UNCHANGED ssMgr
               /\ ssPc'[c].at = "failed" /\ ssPc'[c].on = ssPc[c].on
               /\ \/ ssSes'[s] = ses[s]
                  \/ ses[s].status # "destroyed" /\ ssSes'[s].status = "error"
               /\ ssImp'.opening = ssImp.opening
            \/ /\ ssPc'[c] = [at |-> "runtime", s |-> s, r |-> ssMgr'.cached,
                              on |-> "none"]
               /\ ssMgr'.cached # 0 /\ ssMgr'.rt[ssMgr'.cached] # "none"
               /\ Made(ssMgr')
               /\ \/ UNCHANGED ssMgr
                  \/ /\ ssMgr.cached = 0
                     /\ ssMgr'.rt = [ssMgr.rt EXCEPT ![ssMgr'.cached] = "making"]
               /\ ses[s].status # "destroyed" /\ ses[s].rt = 0
               /\ ssSes'[s].status = "initializing"
               /\ ssImp' = imp
<1>0. ASSUME NEW status \in SsStatuses
      PROVE  /\ SsStatus(ses, s, status) \in SsSesType
             /\ SsStatus(ses, s, status)[s].status = status
             /\ SsStatus(ses, s, status)[s].rt = ses[s].rt
             /\ \A x \in SessionIds : x # s => SsStatus(ses, s, status)[x] = ses[x]
  BY StatusIs, StatusKeeps, ZenonT(30)
<1> USE Numbers, ShapeTypes, StatusesAre
<1>1. [imp EXCEPT !.opening = ssImp.opening] \in SsImpType
  BY DEF SsImpType
<1>2. CASE \/ ses[s].status = "destroyed" \/ ses[s].rt # 0
           \/ ~ssImp.config
  <2>1. /\ ssImp' = [imp EXCEPT !.opening = ssImp.opening]
        /\ ssPc' = At(c, "failed")
        /\ UNCHANGED ssMgr
        /\ \/ ssSes' = ses
           \/ ses[s].status # "destroyed" /\ ssSes' = SsStatus(ses, s, "error")
    BY <1>2 DEF Open
  <2>2. ssPc' \in SsPcType /\ ssPc'[c].at = "failed" /\ ssPc'[c].on = ssPc[c].on
        /\ \A d \in SsCalls : d # c => ssPc'[d] = ssPc[d]
    BY <2>1, AtIs DEF SsSteps
  <2>3. /\ ssImp' \in SsImpType /\ ssImp'.entry = imp.entry
        /\ ssImp'.current = imp.current /\ ssImp'.opening = ssImp.opening
    BY <1>1, <2>1 DEF SsImpType
  <2>4. /\ ssSes' \in SsSesType /\ ssSes'[s].rt = ses[s].rt
        /\ \A x \in SessionIds : x # s => ssSes'[x] = ses[x]
        /\ \/ ssSes'[s] = ses[s]
           \/ ses[s].status # "destroyed" /\ ssSes'[s].status = "error"
    <3>1. CASE ssSes' = ses
      BY <3>1
    <3>2. CASE ses[s].status # "destroyed" /\ ssSes' = SsStatus(ses, s, "error")
      BY <1>0, <3>2
    <3> QED
      BY <2>1, <3>1, <3>2
  <2> QED
    BY <2>1, <2>2, <2>3, <2>4
<1>3. CASE ses[s].status # "destroyed" /\ ses[s].rt = 0 /\ ssImp.config
  <2>1. /\ NewRuntime <= MaxRuntimes
        /\ ssSes' = SsStatus(ses, s, "initializing") /\ ssImp' = imp
        /\ ssMgr' = Cached(ssMgr, NewRuntime)
        /\ ssPc' = [ssPc EXCEPT ![c] = [at |-> "runtime", s |-> s,
                                        r |-> ssMgr'.cached, on |-> "none"]]
    BY <1>3 DEF Open
  <2>2. NewRuntime \in RuntimeIds /\ (ssMgr.cached # 0 => ssMgr.rt[ssMgr.cached] # "none")
    BY <2>1 DEF SsShape
  <2>3. /\ ssMgr' \in SsMgrType /\ ssMgr'.cached # 0
        /\ ssMgr'.rt[ssMgr'.cached] # "none" /\ Made(ssMgr')
        /\ \/ UNCHANGED ssMgr
           \/ /\ ssMgr.cached = 0
              /\ ssMgr'.rt = [ssMgr.rt EXCEPT ![ssMgr'.cached] = "making"]
    <3> DEFINE n == NewRuntime
    <3>1. n \in RuntimeIds /\ ssMgr \in SsMgrType
      BY <2>2
    <3> HIDE DEF n
    <3>2. /\ Cached(ssMgr, n) \in SsMgrType
          /\ Cached(ssMgr, n).cached # 0
          /\ Cached(ssMgr, n).rt[Cached(ssMgr, n).cached] # "none"
          /\ Made(Cached(ssMgr, n))
          /\ \/ ssMgr.cached # 0 /\ Cached(ssMgr, n) = ssMgr
             \/ /\ ssMgr.cached = 0 /\ Cached(ssMgr, n).cached = n
                /\ Cached(ssMgr, n).rt = [ssMgr.rt EXCEPT ![n] = "making"]
      BY <2>2, <3>1, CachedIs DEF Made
    <3>3. ssMgr' = Cached(ssMgr, n)
      BY <2>1 DEF n
    <3> QED
      BY <3>2, <3>3
  <2>4. /\ ssSes' \in SsSesType /\ ssSes'[s].rt = ses[s].rt
        /\ ssSes'[s].status = "initializing"
        /\ \A x \in SessionIds : x # s => ssSes'[x] = ses[x]
    BY <1>0, <2>1
  <2>5. [at |-> "runtime", s |-> s, r |-> ssMgr'.cached, on |-> "none"]
          \in [at : SsSteps, s : 0..MaxSpiderSessions,
               r : 0..MaxRuntimes, on : SsSearches \cup {"none"}]
    BY <2>3 DEF SsMgrType, SsSteps
  <2>6. /\ ssPc' \in SsPcType
        /\ ssPc'[c] = [at |-> "runtime", s |-> s, r |-> ssMgr'.cached,
                       on |-> "none"]
        /\ \A d \in SsCalls : d # c => ssPc'[d] = ssPc[d]
    BY <2>1, <2>5 DEF SsPcType
  <2> QED
    BY <1>3, <2>1, <2>3, <2>4, <2>6
<1> QED
  BY <1>2, <1>3

LEMMA OpenKeeps ==
  ASSUME NEW c, NEW s \in SessionIds, NEW ses \in SsSesType,
         NEW imp, Open(c, s, ses, imp), NEW x \in SessionIds, x # s
  PROVE  ssSes'[x] = ses[x]
<1>1. ssSes' = ses \/ \E status \in SsStatuses : ssSes' = SsStatus(ses, s, status)
  BY StatusesAre DEF Open
<1> QED
  BY <1>1, StatusKeeps

\* What the end of an open makes of the calls: c goes on, and who joined it too.
Settled(c, at) ==
    \A d \in SsCalls :
        /\ ssPc'[d].at = IF d = c \/ ssPc[d].on = c THEN at ELSE ssPc[d].at
        /\ ssPc'[d].s = ssPc[d].s /\ ssPc'[d].r = ssPc[d].r
        /\ ssPc'[d].on = IF d = c \/ ssPc[d].on = c THEN "none" ELSE ssPc[d].on

ForgetsOpening(c) ==
    ssImp' = IF c \in SsSearches THEN [ssImp EXCEPT !.opening = "none"] ELSE ssImp

\* The catch of open: the runtime the session had is destroyed.
LEMMA ThrowsIs ==
  ASSUME SsShape, NEW c \in SsCalls, NEW ses \in SsSesType,
         ssPc[c].s \in SessionIds, ssPc[c].on = "none",
         NEW at \in {"failed", "refused"}, OpenThrows(c, ses, at)
  PROVE  LET s == ssPc[c].s IN
         /\ ssSes' \in SsSesType /\ ssImp' \in SsImpType
         /\ ssMgr' \in SsMgrType /\ ssPc' \in SsPcType
         /\ ssSes'[s] = [status |-> "error", rt |-> 0]
         /\ ssMgr'.cached = ssMgr.cached
         /\ \A x \in RuntimeIds :
               ssMgr'.rt[x] = IF x = ses[s].rt THEN "destroyed" ELSE ssMgr.rt[x]
         /\ \/ /\ UNCHANGED ssImp /\ ssPc'[c].at = "closing"
               /\ ssPc'[c].on = "none" /\ ssPc'[c].s = s
               /\ \A d \in SsCalls : d # c => ssPc'[d] = ssPc[d]
            \/ Settled(c, at) /\ ForgetsOpening(c)
<1> USE ShapeTypes
<1> DEFINE s == ssPc[c].s
<1>1. /\ ssSes' = [ses EXCEPT ![s] = [status |-> "error", rt |-> 0]]
      /\ ssMgr' = Destroyed(ssMgr, ses[s].rt)
      /\ \/ ssPc' = At(c, "closing") /\ UNCHANGED ssImp
         \/ ssPc' = Settle(c, at) /\ ssImp' = ForgetOpening(c)
  BY DEF OpenThrows
<1>2. ses[s].rt \in 0..MaxRuntimes
  BY DEF SsSesType
<1>3. /\ ssMgr' \in SsMgrType /\ ssMgr'.cached = ssMgr.cached
      /\ \A x \in RuntimeIds :
            ssMgr'.rt[x] = IF x = ses[s].rt THEN "destroyed" ELSE ssMgr.rt[x]
  BY <1>1, <1>2, DestroyedIs
<1>4. /\ ssSes' \in SsSesType /\ ssSes'[s] = [status |-> "error", rt |-> 0]
      /\ \A x \in SessionIds : x # s => ssSes'[x] = ses[x]
  BY <1>1, SsBounds DEF SsSesType, SsStatuses
<1>5. CASE ssPc' = At(c, "closing") /\ UNCHANGED ssImp
  <2>1. "closing" \in SsSteps
    BY DEF SsSteps
  <2>2. /\ ssPc' \in SsPcType /\ ssPc'[c].at = "closing"
        /\ ssPc'[c].on = "none" /\ ssPc'[c].s = s
        /\ \A d \in SsCalls : d # c => ssPc'[d] = ssPc[d]
    BY <1>5, <2>1, AtIs
  <2> QED
    BY <1>3, <1>4, <1>5, <2>2
<1>6. CASE ssPc' = Settle(c, at) /\ ssImp' = ForgetOpening(c)
  <2>1. at \in SsSteps \ {"runtime"}
    BY DEF SsSteps
  <2>2. ssPc' \in SsPcType /\ Settled(c, at)
    BY <1>6, <2>1, SettleIs DEF Settled
  <2>3. ssImp' \in SsImpType /\ ForgetsOpening(c)
    BY <1>6 DEF ForgetOpening, ForgetsOpening, SsImpType
  <2> QED
    BY <1>3, <1>4, <2>2, <2>3
<1> QED
  BY <1>1, <1>5, <1>6

LEMMA ThrowsKeeps ==
  ASSUME NEW c, NEW ses \in SsSesType, NEW at, OpenThrows(c, ses, at),
         NEW x \in SessionIds, x # ssPc[c].s
  PROVE  ssSes'[x] = ses[x]
  BY DEF OpenThrows, SsSesType

\* A request of call c on session s.
LEMMA RequestIs ==
  ASSUME SsShape, NEW c \in SsCalls, NEW s \in SessionIds, Request(c, s)
  PROVE  /\ ssSes' \in SsSesType /\ ssPc' \in SsPcType
         /\ ssPc'[c].s = s /\ ssPc'[c].on = ssPc[c].on
         /\ \/ ssPc'[c].at = "failed"
            \/ ssPc'[c].at = "request" /\ ssSes[s].rt # 0
         /\ \A d \in SsCalls : d # c => ssPc'[d] = ssPc[d]
         /\ \A x \in SessionIds : x # s => ssSes'[x] = ssSes[x]
         /\ ssSes'[s].rt = ssSes[s].rt
         /\ \/ ssSes'[s] = ssSes[s]
            \/ /\ ssSes[s].status # "destroyed"
               /\ ssSes'[s].status \in {"loading", "error"}
         /\ UNCHANGED <<ssImp, ssMgr, ssReset>>
<1>0. ASSUME NEW status \in SsStatuses
      PROVE  /\ SsStatus(ssSes, s, status) \in SsSesType
             /\ SsStatus(ssSes, s, status)[s].status = status
             /\ SsStatus(ssSes, s, status)[s].rt = ssSes[s].rt
             /\ \A x \in SessionIds : x # s =>
                   SsStatus(ssSes, s, status)[x] = ssSes[x]
  <2>1. ssSes \in SsSesType
    BY ShapeTypes
  <2> QED
    BY <2>1, StatusIs, StatusKeeps, ZenonT(30)
<1> USE Numbers, ShapeTypes, StatusesAre
<1> DEFINE at == IF ssSes[s].status # "destroyed" /\ ssSes[s].rt # 0
                 THEN "request" ELSE "failed"
<1>1. ssPc' = [ssPc EXCEPT ![c].s = s, ![c].at = at]
  BY DEF Request
<1>2. at \in SsSteps
  BY DEF SsSteps
<1>3. at = "failed" \/ (at = "request" /\ ssSes[s].rt # 0)
  OBVIOUS
<1> HIDE DEF at
<1>4. /\ ssPc' \in SsPcType /\ ssPc'[c].s = s /\ ssPc'[c].at = at
      /\ ssPc'[c].on = ssPc[c].on
      /\ \A d \in SsCalls : d # c => ssPc'[d] = ssPc[d]
  BY <1>1, <1>2 DEF SsPcType
<1>5. \/ ssSes' = ssSes
      \/ /\ ssSes[s].status # "destroyed"
         /\ \E status \in {"loading", "error"} : ssSes' = SsStatus(ssSes, s, status)
  BY DEF Request
<1>6. /\ ssSes' \in SsSesType /\ ssSes'[s].rt = ssSes[s].rt
      /\ \A x \in SessionIds : x # s => ssSes'[x] = ssSes[x]
      /\ \/ ssSes'[s] = ssSes[s]
         \/ /\ ssSes[s].status # "destroyed"
            /\ ssSes'[s].status \in {"loading", "error"}
  <2>1. CASE ssSes' = ssSes
    BY <2>1
  <2>2. ASSUME ssSes[s].status # "destroyed", NEW status \in SsStatuses,
               status \in {"loading", "error"},
               ssSes' = SsStatus(ssSes, s, status)
        PROVE  /\ ssSes' \in SsSesType /\ ssSes'[s].rt = ssSes[s].rt
               /\ \A x \in SessionIds : x # s => ssSes'[x] = ssSes[x]
               /\ ssSes'[s].status \in {"loading", "error"}
    BY <1>0, <2>2
  <2> QED
    BY <1>5, <2>1, <2>2
<1> QED
  BY <1>3, <1>4, <1>6 DEF Request

\* createCurrentSession.
LEMMA CreateIs ==
  ASSUME SsShape, NEW imp \in SsImpType, NEW ses \in SsSesType,
         CreateCurrent(imp, ses)
  PROVE  /\ ssImp' \in SsImpType /\ ssSes' \in SsSesType
         /\ ssImp'.opening = imp.opening
         /\ ssImp'.current = ssImp'.entry /\ ssImp'.entry # 0
         /\ \/ ssImp'.entry = imp.entry /\ ssSes' = ses
            \/ /\ imp.entry = 0 \/ ses[imp.entry].status = "destroyed"
               /\ ssImp'.entry \in SessionIds
               /\ ssSes'[ssImp'.entry] = [status |-> "idle",
                                          rt |-> ses[ssImp'.entry].rt]
<1> USE Numbers
<1>1. CASE imp.entry # 0 /\ ses[imp.entry].status # "destroyed"
  BY <1>1 DEF CreateCurrent, SsImpType
<1>2. CASE imp.entry = 0 \/ ses[imp.entry].status = "destroyed"
  <2>1. /\ NewSession <= MaxSpiderSessions
        /\ ssImp' = [imp EXCEPT !.entry = NewSession, !.current = NewSession]
        /\ ssSes' = SsStatus(ses, NewSession, "idle")
    BY <1>2 DEF CreateCurrent
  <2>2. NewSession \in SessionIds
    BY <2>1
  <2>3. /\ ssSes' \in SsSesType
        /\ ssSes'[NewSession] = [status |-> "idle", rt |-> ses[NewSession].rt]
        /\ \A x \in SessionIds : x # NewSession => ssSes'[x] = ses[x]
    <3> DEFINE n == NewSession
    <3>1. n \in SessionIds /\ ssSes' = SsStatus(ses, n, "idle")
      BY <2>1, <2>2
    <3> HIDE DEF n
    <3>2. /\ ssSes' \in SsSesType
          /\ ssSes'[n] = [status |-> "idle", rt |-> ses[n].rt]
          /\ \A x \in SessionIds : x # n => ssSes'[x] = ses[x]
      BY <3>1, StatusIs, StatusKeeps, StatusesAre
    <3> QED
      BY <3>2 DEF n
  <2>4. /\ ssImp' \in SsImpType /\ ssImp'.entry = NewSession
        /\ ssImp'.current = NewSession /\ ssImp'.opening = imp.opening
    BY <2>1, <2>2 DEF SsImpType
  <2> QED
    BY <1>2, <2>2, <2>3, <2>4
<1> QED
  BY <1>1, <1>2

LEMMA CreateKeeps ==
  ASSUME SsShape, NEW imp \in SsImpType, NEW ses \in SsSesType,
         CreateCurrent(imp, ses), NEW x \in SessionIds, x # ssImp'.entry
  PROVE  ssSes'[x] = ses[x]
<1>1. CASE imp.entry # 0 /\ ses[imp.entry].status # "destroyed"
  BY <1>1 DEF CreateCurrent
<1>2. CASE imp.entry = 0 \/ ses[imp.entry].status = "destroyed"
  <2>1. /\ NewSession <= MaxSpiderSessions
        /\ ssImp' = [imp EXCEPT !.entry = NewSession, !.current = NewSession]
        /\ ssSes' = SsStatus(ses, NewSession, "idle")
    BY <1>2 DEF CreateCurrent
  <2>2. NewSession \in SessionIds /\ ssImp'.entry = NewSession
    BY <2>1, Numbers DEF SsImpType
  <2> QED
    BY <2>1, <2>2, StatusKeeps, StatusesAre
<1> QED
  BY <1>1, <1>2

-----------------------------------------------------------------------------
\* What every step owes: the parts of the invariant that can still hold.
SsKept ==
    /\ SsShape'
    /\ ssMet # "imports" /\ ~TwoImports' => SsCached'
    /\ ssMet = "none" /\ ~(SsUnderWay /\ SsBegins) => SsAlone' /\ SsOwned'

LEMMA ShapeKeeps ==
  ASSUME SsShape, ssMet' \in {"none", "calls", "imports"},
         ssImp' \in SsImpType, ssSes' \in SsSesType, ssMgr' \in SsMgrType,
         ssPc' \in SsPcType, ssReset' \in SsResetType, Made(ssMgr'),
         \/ ssMgr'.cached \in {0, ssMgr.cached}
         \/ ssMgr'.rt[ssMgr'.cached] # "none",
         \A c \in SsCalls :
            /\ ssPc'[c].on # "none" => ssPc'[c].at = "joined"
            /\ ssPc'[c].at \in {"runtime", "init", "joined", "opened",
                               "request"} => ssPc'[c].s # 0
            /\ ssPc'[c].at = "runtime" =>
                  \/ ssPc[c].at = "runtime" /\ ssPc'[c].r = ssPc[c].r
                  \/ ssPc'[c].r # 0 /\ ssMgr'.rt[ssPc'[c].r] # "none",
         \A c \in SsResets :
            ssReset'[c].at \in {"manager", "managed", "loading"} =>
               ssReset'[c].kind = "import"
  PROVE  SsShape'
<1>1. SsTypeOK'
  BY DEF SsTypeOK, SsImpType, SsSesType, SsMgrType, SsPcType,
     SsResetType, SsSteps, SsResetSteps, SsStatuses
<1>2. \A r \in 0..MaxRuntimes : r # 0 /\ ssMgr.rt[r] # "none" => ssMgr'.rt[r] # "none"
  BY Numbers DEF Made
<1>3. \A c \in SsCalls : ssPc[c].r \in 0..MaxRuntimes
  BY ShapeTypes DEF SsPcType
<1>4. ssMgr.cached \in 0..MaxRuntimes
  BY ShapeTypes DEF SsMgrType
<1> QED
  BY <1>1, <1>2, <1>3, <1>4 DEF SsShape

\* A step that caches no runtime and revives none.
LEMMA CachedKeeps ==
  ASSUME SsShape, SsCached, ~TwoImports', ssMgr' \in SsMgrType,
         ssMgr'.cached = ssMgr.cached,
         \A r \in RuntimeIds : ssMgr'.rt[r] \in {"making", "fresh", "started"}
                                 => ssMgr.rt[r] \in {"making", "fresh", "started"},
         \A c \in SsResets : ssReset'[c].at = "managed" => ssReset'[c] = ssReset[c]
  PROVE  SsCached'
<1> USE Numbers, ShapeTypes
<1>1. \A r \in RuntimeIds :
         /\ r \in Making' \/ Live(r)' <=> ssMgr'.rt[r] \in {"making", "fresh", "started"}
         /\ r \in Making \/ Live(r) <=> ssMgr.rt[r] \in {"making", "fresh", "started"}
  BY DEF Making, Live
<1>2. ~Live(0)' /\ 0 \notin Making' /\ ssMgr.cached \in 0..MaxRuntimes
  BY DEF Live, Making, SsMgrType
<1>3. ASSUME NEW c \in SsResets, ssReset'[c].at = "managed"
      PROVE  /\ ssMgr'.cached \notin Making' /\ ~Live(ssMgr.cached)'
             /\ ssMgr'.cached = 0 => ~ssReset'[c].wait
  <2>1. ssReset'[c] = ssReset[c]
    BY <1>3
  <2>2. /\ ssMgr.cached \notin Making /\ ~Live(ssMgr.cached)
        /\ ssMgr.cached = 0 => ~ssReset[c].wait
    BY <1>3, <2>1 DEF SsCached
  <2>3. ssMgr'.cached \notin Making' /\ ~Live(ssMgr.cached)'
    <3>1. CASE ssMgr.cached = 0
      BY <1>2, <3>1
    <3>2. CASE ssMgr.cached # 0
      BY <1>1, <1>2, <2>2, <3>2
    <3> QED
      BY <3>1, <3>2
  <2> QED
    BY <2>1, <2>2, <2>3
<1>4. \A r \in RuntimeIds : r \in Making' \/ Live(r)' => r = ssMgr'.cached
  BY <1>1 DEF SsCached
<1> QED
  BY <1>3, <1>4 DEF SsCached

\* A step of one call, while nothing else is under way.
LEMMA AloneCall ==
  ASSUME SsShape, SsAlone, NEW c \in SsCalls, CallBusy(c) \/ ~SsUnderWay,
         UNCHANGED ssReset,
         \A d \in SsCalls : d # c => ssPc'[d].at = ssPc[d].at,
         ssPc'[c].at # "joined",
         \/ ssImp'.opening = "none"
         \/ ssImp'.opening = c /\ ssPc'[c].at \in {"runtime", "init", "closing"}
         \/ /\ ssImp'.opening = ssImp.opening
            /\ \/ ssPc'[c].at = ssPc[c].at
               \/ ssImp.opening # c
               \/ ssPc'[c].at \in {"runtime", "init", "closing"}
  PROVE  SsAlone'
<1>1. /\ \A d \in SsCalls : d # c => ~CallBusy(d)'
      /\ \A d \in SsResets : ~ResetBusy(d)'
  BY DEF SsAlone, SsUnderWay, CallBusy, ResetBusy
<1>2. ssImp'.opening # "none" =>
         ssPc'[ssImp'.opening].at \in {"runtime", "init", "closing"}
  <2>1. ssImp.opening # "none" =>
           /\ ssImp.opening \in SsCalls
           /\ ssPc[ssImp.opening].at \in {"runtime", "init", "closing"}
    BY ShapeTypes DEF SsAlone, SsImpType, SsCalls
  <2> QED
    BY <2>1
<1>3. \A d \in SsCalls : ssPc'[d].at # "joined"
  BY DEF SsAlone
<1> QED
  BY <1>1, <1>2, <1>3 DEF SsAlone, CallBusy, ResetBusy

\* A step of one reset, while nothing else is under way.
LEMMA AloneReset ==
  ASSUME SsShape, SsAlone, NEW c \in SsResets, ResetBusy(c) \/ ~SsUnderWay,
         UNCHANGED ssPc, ssImp'.opening \in {"none", ssImp.opening},
         \A d \in SsResets : d # c => ssReset'[d].at = ssReset[d].at
  PROVE  SsAlone'
<1>1. /\ \A d \in SsCalls : ~CallBusy(d)'
      /\ \A d \in SsResets : d # c => ~ResetBusy(d)'
  BY DEF SsAlone, SsUnderWay, CallBusy, ResetBusy
<1>2. ssImp'.opening # "none" =>
         ssPc'[ssImp'.opening].at \in {"runtime", "init", "closing"}
  BY DEF SsAlone
<1>3. \A d \in SsCalls : ssPc'[d].at # "joined"
  BY DEF SsAlone
<1> QED
  BY <1>1, <1>2, <1>3 DEF SsAlone, CallBusy, ResetBusy

\* Who begins, where calls come one after another, finds nothing under way.
LEMMA BeginsAlone ==
  /\ \A c \in SsCalls :
        ssPc[c].at = "idle" /\ ssPc'[c].at # "idle" /\ ~(SsUnderWay /\ SsBegins)
          => ~SsUnderWay
  /\ \A c \in SsResets :
        ssReset[c].at = "idle" /\ ssReset'[c].at # "idle"
        /\ ~(SsUnderWay /\ SsBegins)
          => ~SsUnderWay
  BY DEF SsBegins

LEMMA OpensStep ==
  ASSUME SsInv, ~SsContinues, ssMet' \in {"none", "calls", "imports"},
         NEW c \in SsCalls, NEW s \in SessionIds, NEW ses \in SsSesType,
         NEW imp \in SsImpType, Open(c, s, ses, imp), UNCHANGED ssReset,
         ssPc[c].at = "idle", imp.current = ssImp.current,
         \/ imp.opening = ssImp.opening
         \/ ssImp.opening = "none" /\ imp.opening = c,
         s \in {imp.entry, imp.current},
         \/ ses = ssSes /\ imp.entry = ssImp.entry
         \/ /\ NoSession /\ imp.entry = s /\ ses[s].rt = ssSes[s].rt
            /\ \A x \in SessionIds : x # s => ses[x] = ssSes[x]
            /\ ses[s].status = "idle"
  PROVE  SsKept
<1>0. SsShape
  BY DEF SsInv
<1>1. /\ ssSes' \in SsSesType /\ ssImp' \in SsImpType
      /\ ssMgr' \in SsMgrType /\ ssPc' \in SsPcType
      /\ ssImp'.entry = imp.entry /\ ssImp'.current = imp.current
      /\ \A x \in SessionIds : x # s => ssSes'[x] = ses[x]
      /\ ssSes'[s].rt = ses[s].rt
      /\ \A d \in SsCalls : d # c => ssPc'[d] = ssPc[d]
  <2>1. \A x \in SessionIds : x # s => ssSes'[x] = ses[x]
    BY OpenKeeps
  <2>2. /\ ssSes' \in SsSesType /\ ssImp' \in SsImpType
        /\ ssMgr' \in SsMgrType /\ ssPc' \in SsPcType
        /\ ssImp'.entry = imp.entry /\ ssImp'.current = imp.current
    BY <1>0, OpenIs, ZenonT(30)
  <2>3. ssSes'[s].rt = ses[s].rt
    BY <1>0, OpenIs
  <2>4. \A d \in SsCalls : d # c => ssPc'[d] = ssPc[d]
    BY <1>0, OpenIs
  <2> QED
    BY <2>1, <2>2, <2>3, <2>4
<1> USE Numbers
<1>2. \/ /\ UNCHANGED ssMgr
         /\ ssPc'[c].at = "failed" /\ ssPc'[c].on = ssPc[c].on
         /\ \/ ssSes'[s] = ses[s]
            \/ ses[s].status # "destroyed" /\ ssSes'[s].status = "error"
         /\ ssImp'.opening = ssImp.opening
      \/ /\ ssPc'[c] = [at |-> "runtime", s |-> s, r |-> ssMgr'.cached,
                        on |-> "none"]
         /\ ssMgr'.cached # 0 /\ ssMgr'.rt[ssMgr'.cached] # "none"
         /\ Made(ssMgr')
         /\ \/ UNCHANGED ssMgr
            \/ /\ ssMgr.cached = 0
               /\ ssMgr'.rt = [ssMgr.rt EXCEPT ![ssMgr'.cached] = "making"]
         /\ ses[s].status # "destroyed" /\ ses[s].rt = 0
         /\ ssSes'[s].status = "initializing"
         /\ ssImp' = imp
  BY <1>0, OpenIs
<1>3. /\ ssReset' \in SsResetType /\ ssImp \in SsImpType /\ ssMgr \in SsMgrType
      /\ ssSes \in SsSesType
  BY <1>0, ShapeTypes
<1>4. SsShape'
  <2>1. ssPc[c].on = "none"
    BY <1>0 DEF SsShape
  <2>2. Made(ssMgr')
    BY <1>2 DEF Made
  <2>3. \A d \in SsCalls :
           /\ ssPc'[d].on # "none" => ssPc'[d].at = "joined"
           /\ ssPc'[d].at \in {"runtime", "init", "joined", "opened",
                              "request"} => ssPc'[d].s # 0
           /\ ssPc'[d].at = "runtime" =>
                 \/ ssPc[d].at = "runtime" /\ ssPc'[d].r = ssPc[d].r
                 \/ ssPc'[d].r # 0 /\ ssMgr'.rt[ssPc'[d].r] # "none"
    BY <1>0, <1>1, <1>2, <2>1 DEF SsShape
  <2>4. \/ ssMgr'.cached \in {0, ssMgr.cached}
        \/ ssMgr'.rt[ssMgr'.cached] # "none"
    BY <1>2
  <2>5. \A d \in SsResets : ssReset'[d].at \in {"manager", "managed", "loading"} =>
           ssReset'[d].kind = "import"
    BY <1>0 DEF SsShape
  <2> QED
    BY <1>0, <1>1, <1>3, <2>2, <2>3, <2>4, <2>5, ShapeKeeps
<1>5. ASSUME ssMet # "imports", ~TwoImports' PROVE SsCached'
  <2>1. SsCached
    BY <1>5 DEF SsInv
  <2>2. CASE UNCHANGED ssMgr
    BY <1>0, <1>1, <1>5, <2>1, <2>2, CachedKeeps
  <2>3. CASE /\ ssMgr.cached = 0
             /\ ssMgr'.rt = [ssMgr.rt EXCEPT ![ssMgr'.cached] = "making"]
    <3>1. \A r \in RuntimeIds :
             /\ r \in Making' \/ Live(r)' =>
                   ssMgr'.rt[r] \in {"making", "fresh", "started"}
             /\ ssMgr.rt[r] \in {"making", "fresh", "started"} =>
                   r \in Making \/ Live(r)
      BY DEF Making, Live
    <3>2. \A r \in RuntimeIds : r \in Making' \/ Live(r)' => r = ssMgr'.cached
      BY <1>3, <2>1, <2>3, <3>1 DEF SsCached, SsMgrType
    <3>3. \A d \in SsResets : ssReset[d].at # "managed"
      BY <2>1, <2>3 DEF SsCached, SsContinues
    <3> QED
      BY <1>5, <3>2, <3>3 DEF SsCached
  <2> QED
    BY <1>2, <2>2, <2>3
<1>6. ASSUME ssMet = "none", ~(SsUnderWay /\ SsBegins) PROVE SsAlone' /\ SsOwned'
  <2>1. SsAlone /\ SsOwned /\ SsCached
    BY <1>6 DEF SsInv
  <2>2. ~SsUnderWay
    BY <1>2, <1>6, BeginsAlone
  <2>3. SsAlone'
    <3>1. ssImp.opening = "none"
      BY <1>3, <2>1, <2>2 DEF SsAlone, SsUnderWay, SsImpType, SsCalls
    <3> QED
      BY <1>0, <1>1, <1>2, <2>1, <2>2, <3>1, AloneCall
  <2>4. /\ \A d \in SsCalls : ~CallBusy(d)
        /\ \A d \in SsResets : ~ResetBusy(d)
    BY <2>2 DEF SsUnderWay, CallBusy, ResetBusy
  <2>5. ASSUME NEW x \in SessionIds, ssSes[x].rt # 0
        PROVE  /\ x = ssImp'.entry /\ ssSes'[x].status # "destroyed"
               /\ Live(ssSes[x].rt)'
    <3>1. /\ x = ssImp.entry /\ ssSes[x].status # "destroyed"
          /\ Live(ssSes[x].rt)
      BY <2>1, <2>5 DEF SsOwned
    <3>2. ~NoSession
      BY <3>1 DEF NoSession
    <3>3. ses = ssSes /\ imp.entry = ssImp.entry
      BY <3>2
    <3>4. UNCHANGED ssMgr
      <4>1. ssSes[x].rt \in RuntimeIds
        BY <1>3, <2>5 DEF SsSesType
      <4> QED
        BY <1>2, <2>1, <3>1, <4>1 DEF SsCached
    <3> QED
      BY <1>1, <1>2, <3>1, <3>3, <3>4 DEF Live
  <2>6. ASSUME NEW x \in SessionIds, ssSes'[x].status = "ready"
        PROVE  ssSes'[x].rt # 0
    BY <1>1, <1>2, <2>1, <2>4, <2>6 DEF SsOwned, ResetBusy
  <2>7. \/ ssImp'.current = 0 \/ ssImp'.current = ssImp'.entry
        \/ ssSes'[ssImp'.current].status = "destroyed"
    <3> SUFFICES ASSUME ssImp.current # 0, ssImp.current # imp.entry
                 PROVE  ssSes'[ssImp.current].status = "destroyed"
      BY <1>1
    <3>1. ssImp.current \in SessionIds
      BY <1>3 DEF SsImpType
    <3>2. ssSes[ssImp.current].status = "destroyed"
      BY <2>1 DEF SsOwned, NoSession
    <3>3. ses[ssImp.current].status = "destroyed"
      BY <3>1, <3>2
    <3> QED
      BY <1>1, <1>2, <3>1, <3>3
  <2>8. ASSUME NEW d \in SsCalls
        PROVE  /\ ssPc'[d].at \in {"runtime", "init"} =>
                     /\ ssPc'[d].s = ssImp'.entry /\ ssImp'.entry # 0
                     /\ ssSes'[ssPc'[d].s].status # "destroyed"
               /\ ssPc'[d].at = "request" =>
                     ssPc'[d].s # 0 /\ ssSes'[ssPc'[d].s].rt # 0
               /\ ssPc'[d].at = "opened" => ssPc'[d].s # 0
    <3>1. CASE d # c
      BY <1>1, <2>4, <3>1 DEF CallBusy
    <3>2. CASE d = c
      <4>1. CASE ssPc'[c].at = "failed"
        BY <3>2, <4>1
      <4>2. CASE ssPc'[c].at = "runtime"
        <5>1. /\ ssPc'[c].s = s /\ ses[s].status # "destroyed"
              /\ ssSes'[s].status = "initializing"
          BY <1>2, <4>2
        <5>2. s = imp.entry
          BY <2>1, <5>1 DEF SsOwned
        <5> QED
          BY <1>1, <3>2, <4>2, <5>1, <5>2
      <4> QED
        BY <1>2, <4>1, <4>2
    <3> QED
      BY <3>1, <3>2
  <2>9. \A d \in SsResets : ssReset'[d].at \in {"idle", "done"}
    BY <2>4 DEF ResetBusy
  <2>10. \A x \in SessionIds : ssSes'[x].rt = ssSes[x].rt
    BY <1>1
  <2>11. SsOwned'
    BY <2>5, <2>6, <2>7, <2>8, <2>9, <2>10 DEF SsOwned
  <2> QED
    BY <2>3, <2>11
<1> QED
  BY <1>4, <1>5, <1>6 DEF SsKept

LEMMA OnlyCall ==
  ASSUME SsShape, SsAlone, NEW c \in SsCalls, CallBusy(c)
  PROVE  /\ \A d \in SsCalls : d # c => ~CallBusy(d)
         /\ \A d \in SsResets : ~ResetBusy(d)
         /\ \A d \in SsCalls : ssPc[d].on # c
  BY SsBounds DEF SsShape, SsAlone, CallBusy, SsCalls

\* An open of call c throws, which had the session in state ses.
LEMMA ThrowsStep ==
  ASSUME SsInv, ssMet' \in {"none", "calls", "imports"},
         NEW c \in SsCalls, ssPc[c].at \in {"runtime", "init"},
         NEW ses \in SsSesType, NEW at \in {"failed", "refused"},
         OpenThrows(c, ses, at), UNCHANGED ssReset,
         \A x \in SessionIds : x # ssPc[c].s => ses[x] = ssSes[x]
  PROVE  SsKept
<1> DEFINE s == ssPc[c].s
<1>0. SsShape
  BY DEF SsInv
<1>1. s \in SessionIds /\ ssPc[c].on = "none"
  BY <1>0, Numbers, ShapeTypes DEF SsShape, SsPcType
<1>2. /\ ssSes' \in SsSesType /\ ssImp' \in SsImpType
      /\ ssMgr' \in SsMgrType /\ ssPc' \in SsPcType
      /\ ssSes'[s] = [status |-> "error", rt |-> 0]
      /\ ssMgr'.cached = ssMgr.cached
      /\ \A x \in RuntimeIds :
            ssMgr'.rt[x] = IF x = ses[s].rt THEN "destroyed" ELSE ssMgr.rt[x]
      /\ \/ /\ UNCHANGED ssImp /\ ssPc'[c].at = "closing"
            /\ ssPc'[c].on = "none" /\ ssPc'[c].s = s
            /\ \A d \in SsCalls : d # c => ssPc'[d] = ssPc[d]
         \/ Settled(c, at) /\ ForgetsOpening(c)
  BY <1>0, <1>1, ThrowsIs
<1>3. \A x \in SessionIds : x # s => ssSes'[x] = ssSes[x]
  BY ThrowsKeeps
<1>4. /\ ssReset' \in SsResetType /\ ssImp \in SsImpType
      /\ ssImp'.entry = ssImp.entry /\ ssImp'.current = ssImp.current
  BY <1>0, <1>2, ShapeTypes DEF ForgetsOpening, SsImpType
<1> HIDE DEF s
<1>5. SsShape'
  <2>1. Made(ssMgr')
    BY <1>2 DEF Made
  <2>2. ASSUME NEW d \in SsCalls
        PROVE  /\ ssPc'[d].on # "none" => ssPc'[d].at = "joined"
               /\ ssPc'[d].at \in {"runtime", "init", "joined", "opened",
                                  "request"} => ssPc'[d].s # 0
               /\ ssPc'[d].at = "runtime" =>
                     ssPc[d].at = "runtime" /\ ssPc'[d].r = ssPc[d].r
    BY <1>0, <1>2 DEF SsShape, Settled
  <2>3. \A d \in SsResets : ssReset'[d].at \in {"manager", "managed", "loading"} =>
           ssReset'[d].kind = "import"
    BY <1>0 DEF SsShape
  <2> QED
    BY <1>0, <1>2, <1>4, <2>1, <2>2, <2>3, ShapeKeeps
<1>6. ASSUME ssMet # "imports", ~TwoImports' PROVE SsCached'
  <2>1. \A r \in RuntimeIds : ssMgr'.rt[r] \in {"making", "fresh", "started"}
                                => ssMgr.rt[r] \in {"making", "fresh", "started"}
    BY <1>2
  <2> QED
    BY <1>0, <1>2, <1>6, <2>1, CachedKeeps DEF SsInv
<1>7. ASSUME ssMet = "none" PROVE SsAlone' /\ SsOwned'
  <2>1. SsAlone /\ SsOwned /\ CallBusy(c)
    BY <1>7 DEF SsInv, CallBusy
  <2>2. /\ \A d \in SsCalls : d # c => ~CallBusy(d)
        /\ \A d \in SsResets : ~ResetBusy(d)
        /\ \A d \in SsCalls : ssPc[d].on # c
    BY <1>0, <2>1, OnlyCall
  <2>3. /\ \A d \in SsCalls : d # c => ssPc'[d].at = ssPc[d].at
        /\ ssPc'[c].at \in {"closing", "failed", "refused"}
    BY <1>2, <2>2 DEF Settled
  <2>4. SsAlone'
    <3>1. ssImp.opening \in SsSearches \cup {"none"} /\ c # "none"
      BY <1>4, SsBounds DEF SsImpType, SsCalls
    <3>2. \/ ssImp'.opening = "none"
          \/ /\ ssImp'.opening = ssImp.opening
             /\ ssImp.opening # c \/ ssPc'[c].at = "closing"
      BY <1>2, <1>4, <3>1 DEF ForgetsOpening, SsImpType
    <3> QED
      BY <1>0, <2>1, <2>3, <3>2, AloneCall
  <2>5. s = ssImp.entry /\ ssSes[s].status # "destroyed"
    BY <2>1 DEF SsOwned, s
  <2>6. \A x \in SessionIds : ssSes'[x].rt = 0 /\ ssSes'[x].status # "ready"
    BY <1>1, <1>2, <1>3, <2>1, <2>2, <2>5 DEF SsOwned, ResetBusy
  <2>7. \/ ssImp'.current = 0 \/ ssImp'.current = ssImp'.entry
        \/ ssSes'[ssImp'.current].status = "destroyed"
    <3>1. ssImp.current # 0 => ssImp.current \in SessionIds
      BY <1>4, Numbers DEF SsImpType
    <3> QED
      BY <1>3, <1>4, <2>1, <2>5, <3>1 DEF SsOwned
  <2>8. /\ \A d \in SsCalls : ssPc'[d].at \notin {"runtime", "init", "request", "opened"}
        /\ \A d \in SsResets : ssReset'[d].at \in {"idle", "done"}
    BY <2>2, <2>3 DEF CallBusy, ResetBusy
  <2>9. SsOwned'
    BY <2>6, <2>7, <2>8 DEF SsOwned
  <2> QED
    BY <2>4, <2>9
<1> QED
  BY <1>5, <1>6, <1>7 DEF SsKept

\* A step of call c that goes on with its session, of which it changes the
\* status at most, and leaves the runtimes as they are.
CallGoesOn(c) ==
    /\ ssPc' \in SsPcType
    /\ CallBusy(c) \/ (ssPc[c].at = "idle" /\ ssPc'[c].at # "idle")
    /\ ssPc'[c].at \in {"init", "opened", "request", "done", "failed"}
    /\ ssPc'[c].on = "none"
    /\ ssPc'[c].at \in {"init", "opened", "request"} => ssPc'[c].s # 0
    /\ ssPc'[c].at = "init" => ssPc[c].at = "runtime" /\ ssPc'[c].s = ssPc[c].s
    /\ ssPc'[c].at = "request" => ssSes[ssPc'[c].s].rt # 0
    /\ \A d \in SsCalls : d # c =>
          \/ ssPc'[d] = ssPc[d]
          \/ /\ ssPc[d].on = c /\ ssPc'[d].on = "none"
             /\ ssPc'[d].at \in {"opened", "done", "failed"}
             /\ ssPc'[d].s = ssPc[d].s

SessionsStay(c) ==
    /\ ssSes' \in SsSesType
    /\ \A x \in SessionIds :
          /\ \/ ssSes'[x].rt = ssSes[x].rt
             \/ /\ ssPc[c].at = "runtime" /\ ssPc[c].s = x
                /\ Live(ssSes'[x].rt) /\ ssSes'[x].rt # 0
          /\ \/ ssSes'[x].status = ssSes[x].status
             \/ /\ ssMet = "none" => ssSes[x].status # "destroyed"
                /\ ssSes'[x].status \in {"ready", "loading", "error"}
                /\ ssMet = "none" /\ ssSes'[x].status = "ready"
                      => ssSes'[x].rt # 0

RuntimesStay ==
    /\ ssMgr' \in SsMgrType /\ ssMgr'.cached = ssMgr.cached /\ Made(ssMgr')
    /\ \A r \in RuntimeIds :
          /\ ssMgr'.rt[r] \in {"making", "fresh", "started"}
                => ssMgr.rt[r] \in {"making", "fresh", "started"}
          /\ ssMgr.rt[r] \in {"fresh", "started"}
                => ssMgr'.rt[r] \in {"fresh", "started"}

OpeningStays(c) ==
    /\ ssImp' \in SsImpType /\ ssImp'.entry = ssImp.entry
    /\ ssImp'.current = ssImp.current
    /\ \/ ssImp'.opening = "none"
       \/ /\ ssImp'.opening = ssImp.opening
          /\ \/ c \notin SsSearches
             \/ ssPc[c].at \in {"idle", "opened", "request"}
             \/ ssPc'[c].at = "init"

CallMoves(c) == /\ CallGoesOn(c) /\ SessionsStay(c) /\ RuntimesStay
                /\ OpeningStays(c) /\ UNCHANGED ssReset

LEMMA CallStep ==
  ASSUME SsInv, ssMet' \in {"none", "calls", "imports"},
         NEW c \in SsCalls, CallMoves(c)
  PROVE  SsKept
<1> USE DEF CallMoves, CallGoesOn, SessionsStay, RuntimesStay, OpeningStays
<1>0. /\ SsShape /\ ssReset' \in SsResetType /\ ssImp \in SsImpType
      /\ ssSes \in SsSesType /\ ssMgr \in SsMgrType
  BY ShapeTypes DEF SsInv
<1>1. SsShape'
  <2>1. ASSUME NEW d \in SsCalls
        PROVE  /\ ssPc'[d].on # "none" => ssPc'[d].at = "joined"
               /\ ssPc'[d].at \in {"runtime", "init", "joined", "opened",
                                  "request"} => ssPc'[d].s # 0
               /\ ssPc'[d].at = "runtime" =>
                     ssPc[d].at = "runtime" /\ ssPc'[d].r = ssPc[d].r
    <3>1. ssPc[d].on = c => ssPc[d].at = "joined"
      BY <1>0, SsBounds DEF SsShape, SsCalls
    <3> QED
      BY <1>0, <3>1 DEF SsShape
  <2>2. \A d \in SsResets : ssReset'[d].at \in {"manager", "managed", "loading"} =>
           ssReset'[d].kind = "import"
    BY <1>0 DEF SsShape
  <2> QED
    BY <1>0, <2>1, <2>2, ShapeKeeps
<1>2. ASSUME ssMet # "imports", ~TwoImports' PROVE SsCached'
  BY <1>0, <1>2, CachedKeeps DEF SsInv
<1>3. ASSUME ssMet = "none", ~(SsUnderWay /\ SsBegins) PROVE SsAlone' /\ SsOwned'
  <2>1. SsAlone /\ SsOwned /\ (CallBusy(c) \/ ~SsUnderWay)
    BY <1>3, BeginsAlone DEF SsInv
  <2>2. /\ \A d \in SsCalls : d # c => ~CallBusy(d)
        /\ \A d \in SsResets : ~ResetBusy(d)
        /\ \A d \in SsCalls : ssPc[d].on # c
    <3>1. CASE CallBusy(c)
      BY <1>0, <2>1, <3>1, OnlyCall
    <3>2. CASE ~SsUnderWay
      <4>1. \A d \in SsCalls : ssPc[d].on # "none" => CallBusy(d)
        BY <1>0 DEF SsShape, CallBusy
      <4> QED
        BY <3>2, <4>1, SsBounds DEF SsUnderWay, CallBusy, ResetBusy, SsCalls
    <3> QED
      BY <2>1, <3>1, <3>2
  <2>3. \A d \in SsCalls : d # c => ssPc'[d] = ssPc[d]
    BY <2>2
  <2>4. SsAlone'
    <3>1. \/ ssImp'.opening = "none"
          \/ /\ ssImp'.opening = ssImp.opening
             /\ ssImp.opening # c \/ ssPc'[c].at = "init"
      BY <1>0, <2>1, SsBounds DEF SsAlone, SsImpType, SsCalls
    <3> QED
      BY <1>0, <2>1, <2>3, <3>1, AloneCall
  <2>5. ASSUME NEW x \in SessionIds, ssSes'[x].rt # 0
        PROVE  /\ x = ssImp'.entry /\ ssSes'[x].status # "destroyed"
               /\ ssMgr'.rt[ssSes'[x].rt] \in {"fresh", "started"}
    <3>1. x = ssImp.entry /\ ssSes[x].status # "destroyed" /\ Live(ssSes'[x].rt)
      BY <2>1, <2>5 DEF SsOwned
    <3>2. ssSes'[x].rt \in RuntimeIds
      BY <2>5, Numbers DEF SsSesType
    <3> QED
      BY <3>1, <3>2 DEF Live
  <2>6. ASSUME NEW x \in SessionIds, ssSes'[x].status = "ready"
        PROVE  ssSes'[x].rt # 0
    BY <1>3, <2>1, <2>2, <2>6 DEF SsOwned, ResetBusy
  <2>7. \/ ssImp'.current = 0 \/ ssImp'.current = ssImp'.entry
        \/ ssSes'[ssImp'.current].status = "destroyed"
    <3>1. ssImp.current # 0 => ssImp.current \in SessionIds
      BY <1>0, Numbers DEF SsImpType
    <3> QED
      BY <1>3, <2>1, <3>1 DEF SsOwned
  <2>8. ASSUME NEW d \in SsCalls
        PROVE  /\ ssPc'[d].at \in {"runtime", "init"} =>
                     /\ ssPc'[d].s = ssImp'.entry /\ ssImp'.entry # 0
                     /\ ssSes'[ssPc'[d].s].status # "destroyed"
               /\ ssPc'[d].at = "request" =>
                     ssPc'[d].s # 0 /\ ssSes'[ssPc'[d].s].rt # 0
               /\ ssPc'[d].at = "opened" => ssPc'[d].s # 0
    <3>1. CASE d # c
      BY <2>2, <2>3, <3>1 DEF CallBusy
    <3>2. CASE d = c
      <4>1. ssPc'[c].s # 0 => ssPc'[c].s \in SessionIds
        BY Numbers DEF SsPcType
      <4> QED
        BY <2>1, <3>2, <4>1 DEF SsOwned
    <3> QED
      BY <3>1, <3>2
  <2>9. \A d \in SsResets : ssReset'[d].at \in {"idle", "done"}
    BY <2>2 DEF ResetBusy
  <2>10. SsOwned'
    BY <2>5, <2>6, <2>7, <2>8, <2>9 DEF SsOwned, Live
  <2> QED
    BY <2>4, <2>10
<1> QED
  BY <1>1, <1>2, <1>3 DEF SsKept

-----------------------------------------------------------------------------
\* The calls on a session, one lemma an action.

LEMMA GotRuntimeStep ==
  ASSUME SsInv, ssMet' \in {"none", "calls", "imports"},
         NEW c \in SsCalls, GotRuntime(c)
  PROVE  SsKept
<1> DEFINE s == ssPc[c].s
           r == ssPc[c].r
           ses == [ssSes EXCEPT ![s].rt = r]
<1>0. SsShape
  BY DEF SsInv
<1>1. /\ s \in SessionIds /\ r \in RuntimeIds /\ ssPc[c].at = "runtime"
      /\ ssPc[c].on = "none" /\ ssMgr.rt[r] \notin {"none", "making"}
  BY <1>0, Numbers, ShapeTypes DEF GotRuntime, RuntimeArrives, SsShape,
     SsPcType
<1>2. /\ ssSes \in SsSesType /\ ssImp \in SsImpType /\ ssMgr \in SsMgrType
  BY <1>0, ShapeTypes
<1>3. /\ ses \in SsSesType /\ ses[s].rt = r /\ ses[s].status = ssSes[s].status
      /\ \A x \in SessionIds : x # s => ses[x] = ssSes[x]
  <2>1. ssSes[s] \in [status : SsStatuses, rt : 0..MaxRuntimes]
    BY <1>1, <1>2 DEF SsSesType
  <2>2. ses = [ssSes EXCEPT ![s] = [status |-> ssSes[s].status, rt |-> r]]
    <3>1. [ssSes[s] EXCEPT !.rt = r] = [status |-> ssSes[s].status, rt |-> r]
      BY <2>1
    <3>2. ses = [ssSes EXCEPT ![s] = [ssSes[s] EXCEPT !.rt = r]]
      BY <1>1, <1>2 DEF SsSesType
    <3> QED
      BY <3>1, <3>2
  <2>3. [status |-> ssSes[s].status, rt |-> r] \in
           [status : SsStatuses, rt : 0..MaxRuntimes]
    BY <1>1, <2>1, Numbers
  <2> HIDE DEF ses, s, r
  <2> QED
    BY <1>1, <1>2, <2>2, <2>3 DEF SsSesType
<1>4. /\ UNCHANGED ssReset
      /\ \/ OpenThrows(c, ssSes, "failed")
         \/ OpenThrows(c, ses, "refused")
         \/ /\ ssMgr.rt[r] \notin {"failed", "destroyed"}
            /\ ssSes' = ses /\ ssPc' = At(c, "init")
            /\ UNCHANGED <<ssImp, ssMgr>>
  BY DEF GotRuntime, Refuses
<1> HIDE DEF ses
<1>5. CASE OpenThrows(c, ssSes, "failed")
  BY <1>1, <1>2, <1>4, <1>5, ThrowsStep
<1>6. CASE OpenThrows(c, ses, "refused")
  <2>1. \A x \in SessionIds : x # ssPc[c].s => ses[x] = ssSes[x]
    BY <1>3
  <2> QED
    BY <1>1, <1>3, <1>4, <1>6, <2>1, ThrowsStep
<1>7. CASE /\ ssMgr.rt[r] \notin {"failed", "destroyed"}
           /\ ssSes' = ses /\ ssPc' = At(c, "init")
           /\ UNCHANGED <<ssImp, ssMgr>>
  <2>1. /\ ssPc' \in SsPcType
        /\ \A d \in SsCalls : d # c => ssPc'[d] = ssPc[d]
        /\ ssPc'[c].at = "init" /\ ssPc'[c].s = s /\ ssPc'[c].on = "none"
    BY <1>0, <1>1, <1>7, AtIs DEF SsSteps
  <2>2. Live(r) /\ r # 0
    BY <1>1, <1>2, <1>7, Numbers DEF Live, SsMgrType
  <2>3. SessionsStay(c)
    BY <1>1, <1>3, <1>7, <2>2 DEF SessionsStay
  <2>4. RuntimesStay
    BY <1>2, <1>7 DEF RuntimesStay, Made
  <2>5. CallGoesOn(c)
    BY <1>1, <2>1, Numbers DEF CallGoesOn, CallBusy
  <2>6. OpeningStays(c)
    BY <1>2, <1>7, <2>1 DEF OpeningStays
  <2>7. CallMoves(c)
    BY <1>4, <2>3, <2>4, <2>5, <2>6 DEF CallMoves
  <2> QED
    BY <2>7, CallStep
<1> QED
  BY <1>4, <1>5, <1>6, <1>7

\* The open of call c has ended, and what it makes of the calls.
LEMMA SettledStep ==
  ASSUME SsInv, ssMet' \in {"none", "calls", "imports"},
         NEW c \in SsCalls, ssPc[c].at \in {"init", "closing"},
         NEW at \in {"opened", "done", "failed"},
         at = "opened" => ssPc[c].s # 0,
         ssPc' = Settle(c, at), ssImp' = ForgetOpening(c), UNCHANGED ssReset,
         RuntimesStay, SessionsStay(c)
  PROVE  SsKept
<1>0. SsShape /\ at \in SsSteps \ {"runtime"}
  BY DEF SsInv, SsSteps
<1>1. /\ ssPc' \in SsPcType
      /\ \A d \in SsCalls :
            /\ ssPc'[d].at = IF d = c \/ ssPc[d].on = c THEN at ELSE ssPc[d].at
            /\ ssPc'[d].s = ssPc[d].s /\ ssPc'[d].r = ssPc[d].r
            /\ ssPc'[d].on = IF d = c \/ ssPc[d].on = c THEN "none"
                             ELSE ssPc[d].on
  BY <1>0, SettleIs
<1>2. ASSUME NEW d \in SsCalls, d # c, ssPc[d].on # c
      PROVE  ssPc'[d] = ssPc[d]
  BY <1>2 DEF Settle
<1>3. OpeningStays(c)
  BY <1>0, ShapeTypes DEF ForgetOpening, SsImpType, OpeningStays
<1>4. CallGoesOn(c)
  BY <1>1, <1>2 DEF CallGoesOn, CallBusy
<1>5. CallMoves(c)
  BY <1>3, <1>4 DEF CallMoves
<1> QED
  BY <1>5, CallStep

LEMMA InitEndsStep ==
  ASSUME SsInv, ssMet' \in {"none", "calls", "imports"},
         NEW c \in SsCalls, InitEnds(c)
  PROVE  SsKept
<1> DEFINE s == ssPc[c].s
           r == ssPc[c].r
<1>0. SsShape /\ ssPc[c].at = "init" /\ UNCHANGED ssReset
  BY DEF SsInv, InitEnds
<1>1. /\ s \in SessionIds
      /\ ssSes \in SsSesType /\ ssMgr \in SsMgrType
      /\ r \in 0..MaxRuntimes
  BY <1>0, Numbers, ShapeTypes DEF SsShape, SsPcType
<1>2. CASE OpenThrows(c, ssSes, "failed")
  BY <1>0, <1>1, <1>2, ThrowsStep
<1>3. CASE /\ ssSes[s].rt # 0
           /\ ssSes' = SsStatus(ssSes, s, "ready")
           /\ ssMgr' = IF Live(r) THEN [ssMgr EXCEPT !.rt[r] = "started"]
                       ELSE ssMgr
           /\ ssPc' = Settle(c, IF c \in SsSearches THEN "opened" ELSE "done")
           /\ ssImp' = ForgetOpening(c)
  <2>1. RuntimesStay
    <3> USE DEF RuntimesStay
    <3>1. CASE ~Live(r)
      BY <1>1, <1>3, <3>1 DEF Made
    <3>2. CASE Live(r)
      <4>1. r \in RuntimeIds /\ ssMgr.rt[r] \in {"fresh", "started"}
        BY <1>1, <3>2, Numbers DEF Live
      <4>2. ssMgr' = [ssMgr EXCEPT !.rt = [ssMgr.rt EXCEPT ![r] = "started"]]
        BY <1>1, <1>3, <3>2 DEF SsMgrType
      <4> HIDE DEF r
      <4> QED
        BY <1>1, <4>1, <4>2 DEF SsMgrType, Made
    <3> QED
      BY <3>1, <3>2
  <2>2. /\ ssSes' \in SsSesType /\ ssSes'[s].rt = ssSes[s].rt
        /\ ssSes'[s].status = "ready"
    <3> DEFINE x == s
    <3>1. x \in SessionIds /\ ssSes' = SsStatus(ssSes, x, "ready")
      BY <1>1, <1>3
    <3> HIDE DEF x
    <3>2. ASSUME NEW status \in SsStatuses, ssSes' = SsStatus(ssSes, x, status)
          PROVE  /\ ssSes' \in SsSesType /\ ssSes'[x].rt = ssSes[x].rt
                 /\ ssSes'[x].status = status
      <4>1. ssSes \in SsSesType /\ x \in SessionIds
        BY <1>1, <3>1
      <4> QED
        BY <3>2, <4>1, StatusIs
    <3> QED
      BY <3>1, <3>2, StatusesAre DEF x
  <2>3. ASSUME NEW x \in SessionIds, x # s PROVE ssSes'[x] = ssSes[x]
    BY <1>1, <1>3, <2>3, StatusKeeps, StatusesAre
  <2>4. ssMet = "none" => ssSes[s].status # "destroyed"
    BY <1>0 DEF SsInv, SsOwned
  <2>5. ssPc' = Settle(c, "opened") \/ ssPc' = Settle(c, "done")
    BY <1>3
  <2>6. SessionsStay(c)
    BY <1>3, <2>2, <2>3, <2>4 DEF SessionsStay
  <2>7. ssPc[c].s # 0
    BY <1>1, Numbers
  <2> QED
    BY <1>0, <1>3, <2>1, <2>5, <2>6, <2>7, SettledStep
<1> QED
  BY <1>2, <1>3 DEF InitEnds

LEMMA ClosedStep ==
  ASSUME SsInv, ssMet' \in {"none", "calls", "imports"},
         NEW c \in SsCalls, Closed(c)
  PROVE  SsKept
<1>1. ssSes \in SsSesType /\ ssMgr \in SsMgrType
  BY ShapeTypes DEF SsInv
<1>2. /\ ssPc[c].at = "closing" /\ ssPc' = Settle(c, "failed")
      /\ ssImp' = ForgetOpening(c) /\ UNCHANGED <<ssSes, ssMgr, ssReset>>
  BY DEF Closed
<1>3. RuntimesStay /\ SessionsStay(c)
  BY <1>1, <1>2 DEF RuntimesStay, SessionsStay, Made
<1> QED
  BY <1>2, <1>3, SettledStep

\* Call c makes a request of session s.
LEMMA RequestStep ==
  ASSUME SsInv, ssMet' \in {"none", "calls", "imports"},
         NEW c \in SsCalls, ssPc[c].at \in {"idle", "opened"},
         NEW s \in SessionIds, Request(c, s)
  PROVE  SsKept
<1>0. SsShape /\ s # 0 /\ ssPc[c].on = "none"
  BY Numbers DEF SsInv, SsShape
<1>1. ssSes \in SsSesType /\ ssMgr \in SsMgrType /\ ssImp \in SsImpType
  BY <1>0, ShapeTypes
<1>2. /\ ssSes' \in SsSesType /\ ssPc' \in SsPcType
      /\ ssPc'[c].s = s /\ ssPc'[c].on = ssPc[c].on
      /\ \/ ssPc'[c].at = "failed"
         \/ ssPc'[c].at = "request" /\ ssSes[s].rt # 0
      /\ ssSes'[s].rt = ssSes[s].rt
      /\ \/ ssSes'[s] = ssSes[s]
         \/ /\ ssSes[s].status # "destroyed"
            /\ ssSes'[s].status \in {"loading", "error"}
      /\ UNCHANGED <<ssImp, ssMgr, ssReset>>
  BY <1>0, RequestIs
<1>3. /\ \A d \in SsCalls : d # c => ssPc'[d] = ssPc[d]
      /\ \A x \in SessionIds : x # s => ssSes'[x] = ssSes[x]
  BY <1>0, RequestIs
<1>4. SessionsStay(c)
  BY <1>2, <1>3 DEF SessionsStay
<1>5. CallGoesOn(c)
  BY <1>0, <1>2, <1>3 DEF CallGoesOn, CallBusy
<1>6. RuntimesStay /\ OpeningStays(c)
  BY <1>1, <1>2 DEF RuntimesStay, OpeningStays, Made
<1>7. CallMoves(c)
  BY <1>2, <1>4, <1>5, <1>6 DEF CallMoves
<1> QED
  BY <1>7, CallStep

LEMMA UiUseStep ==
  ASSUME SsInv, ssMet' \in {"none", "calls", "imports"},
         NEW c \in SsCalls, UiUse(c)
  PROVE  SsKept
<1>1. ssImp.current \in SessionIds
  BY ShapeTypes, Numbers DEF SsInv, UiUse, SsImpType
<1> QED
  BY <1>1, RequestStep DEF UiUse

LEMMA SearchOpenedStep ==
  ASSUME SsInv, ssMet' \in {"none", "calls", "imports"},
         NEW c \in SsCalls, SearchOpened(c)
  PROVE  SsKept
<1>1. ssPc[c].s \in SessionIds
  BY ShapeTypes, Numbers DEF SsInv, SearchOpened, SsPcType, SsShape
<1> QED
  BY <1>1, RequestStep DEF SearchOpened

LEMMA RequestEndsStep ==
  ASSUME SsInv, ssMet' \in {"none", "calls", "imports"},
         NEW c \in SsCalls, RequestEnds(c)
  PROVE  SsKept
<1>0. /\ SsShape /\ ssPc[c].at = "request" /\ ssPc[c].on = "none"
      /\ ssPc[c].s # 0
  BY DEF SsInv, SsShape, RequestEnds
<1>1. /\ ssSes \in SsSesType /\ ssMgr \in SsMgrType /\ ssImp \in SsImpType
      /\ ssPc[c].s \in SessionIds
  BY <1>0, ShapeTypes, Numbers DEF SsPcType
<1>2. PICK ok \in BOOLEAN :
         /\ ssPc' = At(c, IF ok THEN "done" ELSE "failed")
         /\ ssSes' = SsStatus(ssSes, ssPc[c].s, IF ok THEN "ready" ELSE "error")
  BY DEF RequestEnds
<1>3. UNCHANGED <<ssImp, ssMgr, ssReset>>
  BY DEF RequestEnds
<1>4. CallGoesOn(c)
  <2>1. ssPc' = At(c, "done") \/ ssPc' = At(c, "failed")
    BY <1>2
  <2>2. /\ ssPc' \in SsPcType /\ ssPc'[c].at \in {"done", "failed"}
        /\ ssPc'[c].on = ssPc[c].on
        /\ \A d \in SsCalls : d # c => ssPc'[d] = ssPc[d]
    BY <1>0, <2>1, AtIs DEF SsSteps
  <2> QED
    BY <1>0, <2>2 DEF CallGoesOn, CallBusy
<1>5. SessionsStay(c)
  <2> DEFINE x == ssPc[c].s
  <2>1. x \in SessionIds
    BY <1>1
  <2>2. \E status \in SsStatuses :
           /\ ssSes' = SsStatus(ssSes, x, status)
           /\ status \in {"ready", "error"}
           /\ status = "ready" \/ status = "error"
    BY <1>2, StatusesAre
  <2>3. ssMet = "none" => ssSes[x].status # "destroyed" /\ ssSes[x].rt # 0
    <3>1. ASSUME ssMet = "none" PROVE ssSes[x].rt # 0
      BY <1>0, <3>1 DEF SsInv, SsOwned
    <3>2. ASSUME ssMet = "none" PROVE ssSes[x].status # "destroyed"
      BY <1>1, <3>1, <3>2 DEF SsInv, SsOwned
    <3> QED
      BY <3>1, <3>2
  <2> HIDE DEF x
  <2>4. PICK status \in SsStatuses :
           /\ ssSes' = SsStatus(ssSes, x, status)
           /\ status \in {"ready", "error"}
    BY <2>2
  <2>5. /\ ssSes' \in SsSesType /\ ssSes'[x].status = status
        /\ ssSes'[x].rt = ssSes[x].rt
    BY <1>1, <2>1, <2>4, StatusIs, ZenonT(30)
  <2>6. \A y \in SessionIds : y # x => ssSes'[y] = ssSes[y]
    BY <1>1, <2>1, <2>4, StatusKeeps
  <2>7. ssSes'[x].rt # 0 \/ ssMet # "none"
    BY <2>3, <2>5
  <2> QED
    BY <2>3, <2>4, <2>5, <2>6, <2>7 DEF SessionsStay
<1>6. RuntimesStay /\ OpeningStays(c)
  BY <1>0, <1>1, <1>3 DEF RuntimesStay, OpeningStays, Made
<1>7. CallMoves(c)
  BY <1>3, <1>4, <1>5, <1>6 DEF CallMoves
<1> QED
  BY <1>7, CallStep

LEMMA UiOpenStep ==
  ASSUME SsInv, ~SsContinues, ssMet' \in {"none", "calls", "imports"},
         NEW c \in SsCalls, UiOpen(c)
  PROVE  SsKept
<1>1. /\ ssImp \in SsImpType /\ ssSes \in SsSesType
      /\ ssImp.current \in SessionIds
  BY ShapeTypes, Numbers DEF SsInv, UiOpen, SsImpType
<1>2. /\ Open(c, ssImp.current, ssSes, ssImp) /\ UNCHANGED ssReset
      /\ ssPc[c].at = "idle"
  BY DEF UiOpen
<1> DEFINE s == ssImp.current
<1>3. s \in {ssImp.entry, ssImp.current} /\ s \in SessionIds
  BY <1>1
<1> QED
  BY <1>1, <1>2, <1>3, OpensStep

LEMMA EnsureStep ==
  ASSUME SsInv, ~SsContinues, ssMet' \in {"none", "calls", "imports"},
         NEW c \in SsSearches, EnsureSiteSession(c)
  PROVE  SsKept
<1> DEFINE s == IF NoSession THEN NewSession ELSE ssImp.entry
           imp == [ssImp EXCEPT !.entry = s]
           ses == IF NoSession THEN SsStatus(ssSes, s, "idle") ELSE ssSes
<1>0. /\ SsShape /\ c \in SsCalls /\ ssPc[c].at = "idle" /\ ssPc[c].on = "none"
      /\ UNCHANGED ssReset
  BY DEF SsInv, SsShape, SsCalls, EnsureSiteSession
<1>1. /\ ssImp \in SsImpType /\ ssSes \in SsSesType /\ ssMgr \in SsMgrType
      /\ ssPc \in SsPcType /\ ssReset \in SsResetType
  BY <1>0, ShapeTypes
<1>2. CASE ~ssImp.config
  <2>1. ssPc' = At(c, "failed") /\ UNCHANGED <<ssImp, ssSes, ssMgr>>
    BY <1>2 DEF EnsureSiteSession
  <2>2. /\ ssPc' \in SsPcType /\ ssPc'[c].at = "failed"
        /\ ssPc'[c].on = ssPc[c].on
        /\ \A d \in SsCalls : d # c => ssPc'[d] = ssPc[d]
    BY <1>0, <2>1, AtIs DEF SsSteps
  <2>3. CallMoves(c)
    BY <1>0, <1>1, <2>1, <2>2
    DEF CallMoves, CallGoesOn, SessionsStay, RuntimesStay, OpeningStays, Made,
        CallBusy
  <2> QED
    BY <1>0, <2>3, CallStep
<1>3. ASSUME ssImp.config
      PROVE  /\ s \in SessionIds /\ imp \in SsImpType /\ ses \in SsSesType
             /\ imp.entry = s /\ imp.current = ssImp.current
             /\ imp.opening = ssImp.opening
             /\ \/ ses = ssSes /\ s = ssImp.entry
                \/ /\ NoSession /\ ses[s].rt = ssSes[s].rt
                   /\ ses[s].status = "idle"
  <2>1. s \in SessionIds
    <3>1. CASE NoSession
      BY <1>3, <3>1, Numbers DEF EnsureSiteSession
    <3>2. CASE ~NoSession
      BY <1>1, <3>2, Numbers DEF NoSession, SsImpType
    <3> QED
      BY <3>1, <3>2
  <2>2. /\ imp \in SsImpType /\ imp.entry = s /\ imp.current = ssImp.current
        /\ imp.opening = ssImp.opening
    <3> HIDE DEF s
    <3> QED
      BY <1>1, <2>1, Numbers DEF SsImpType
  <2>3. CASE NoSession
    <3>1. ses = SsStatus(ssSes, s, "idle")
      BY <2>3
    <3> HIDE DEF s, ses
    <3>2. ses \in SsSesType /\ ses[s].rt = ssSes[s].rt /\ ses[s].status = "idle"
      <4>1. ssSes \in SsSesType /\ s \in SessionIds
        BY <1>1, <2>1
      <4>2. PICK status \in SsStatuses :
               status = "idle" /\ ses = SsStatus(ssSes, s, status)
        BY <3>1, StatusesAre
      <4>3. /\ SsStatus(ssSes, s, status) \in SsSesType
            /\ SsStatus(ssSes, s, status)[s].status = status
            /\ SsStatus(ssSes, s, status)[s].rt = ssSes[s].rt
        BY <4>1, StatusIs
      <4> QED
        BY <4>2, <4>3
    <3> QED
      BY <2>1, <2>2, <2>3, <3>2
  <2>4. CASE ~NoSession
    BY <1>1, <2>1, <2>2, <2>4
  <2> QED
    BY <2>3, <2>4
<1>4. ASSUME ssImp.config, NEW x \in SessionIds, x # s PROVE ses[x] = ssSes[x]
  BY <1>1, <1>3, <1>4, StatusKeeps, StatusesAre
<1>5. CASE /\ ssImp.config /\ ses[s].status = "ready"
           /\ ssPc' = [ssPc EXCEPT ![c].at = "opened", ![c].s = s]
           /\ UNCHANGED <<ssImp, ssSes, ssMgr>>
  <2>1. s # 0 /\ s \in 0..MaxSpiderSessions /\ "opened" \in SsSteps
    BY <1>3, <1>5, Numbers DEF SsSteps
  <2> HIDE DEF s, ses
  <2>2. /\ ssPc' \in SsPcType /\ ssPc'[c].at = "opened" /\ ssPc'[c].s = s
        /\ ssPc'[c].on = ssPc[c].on
        /\ \A d \in SsCalls : d # c => ssPc'[d] = ssPc[d]
    BY <1>0, <1>1, <1>5, <2>1 DEF SsPcType
  <2>3. CallMoves(c)
    BY <1>0, <1>1, <1>5, <2>1, <2>2
    DEF CallMoves, CallGoesOn, SessionsStay, RuntimesStay, OpeningStays, Made,
        CallBusy
  <2> QED
    BY <1>0, <2>3, CallStep
<1>6. CASE /\ ssImp.config /\ imp.opening # "none"
           /\ ssPc' = [ssPc EXCEPT ![c].at = "joined", ![c].s = s,
                                   ![c].on = imp.opening]
           /\ ssImp' = imp /\ ssSes' = ses
           /\ UNCHANGED ssMgr
  <2>1. /\ s # 0 /\ s \in 0..MaxSpiderSessions /\ "joined" \in SsSteps
        /\ ssImp.opening \in SsSearches \cup {"none"}
        /\ imp.opening = ssImp.opening
    BY <1>1, <1>3, <1>6, Numbers DEF SsSteps, SsImpType
  <2>2. /\ ssImp' \in SsImpType /\ ssSes' \in SsSesType /\ ssMgr' \in SsMgrType
        /\ ssReset' \in SsResetType
    BY <1>0, <1>1, <1>3, <1>6
  <2>3. /\ ssPc' \in SsPcType /\ ssPc'[c].at = "joined" /\ ssPc'[c].s = s
        /\ \A d \in SsCalls : d # c => ssPc'[d] = ssPc[d]
    <3> HIDE DEF s, ses, imp
    <3> QED
      BY <1>0, <1>1, <1>6, <2>1 DEF SsPcType
  <2>4. SsShape'
    <3>1. \A d \in SsCalls :
            /\ ssPc'[d].on # "none" => ssPc'[d].at = "joined"
            /\ ssPc'[d].at \in {"runtime", "init", "joined", "opened",
                               "request"} => ssPc'[d].s # 0
            /\ ssPc'[d].at = "runtime" =>
                  ssPc[d].at = "runtime" /\ ssPc'[d].r = ssPc[d].r
      BY <1>0, <2>1, <2>3 DEF SsShape
    <3>2. Made(ssMgr')
      BY <1>6 DEF Made
    <3>3. \A d \in SsResets : ssReset'[d].at \in {"manager", "managed", "loading"}
             => ssReset'[d].kind = "import"
      BY <1>0 DEF SsShape
    <3> QED
      BY <1>0, <1>6, <2>2, <2>3, <3>1, <3>2, <3>3, ShapeKeeps
  <2>5. ASSUME ssMet # "imports", ~TwoImports' PROVE SsCached'
    BY <1>0, <1>6, <2>2, <2>5, CachedKeeps DEF SsInv
  <2>6. ~(ssMet = "none" /\ ~(SsUnderWay /\ SsBegins))
    <3> SUFFICES ASSUME ssMet = "none", ~SsUnderWay PROVE FALSE
      BY <1>0, <2>3, BeginsAlone
    <3>1. /\ ssImp.opening \in SsCalls
          /\ ssPc[ssImp.opening].at \in {"runtime", "init", "closing"}
      BY <1>6, <2>1 DEF SsInv, SsAlone, SsCalls
    <3> QED
      BY <3>1 DEF SsUnderWay
  <2> QED
    BY <2>4, <2>5, <2>6 DEF SsKept
<1>7. CASE /\ ssImp.config /\ imp.opening = "none"
           /\ Open(c, s, ses, [imp EXCEPT !.opening = c])
  <2> DEFINE i == [imp EXCEPT !.opening = c]
  <2>1. /\ i \in SsImpType /\ i.entry = s /\ i.current = ssImp.current
        /\ i.opening = c /\ ssImp.opening = "none"
    <3>1. /\ imp \in SsImpType /\ imp.entry = s /\ imp.current = ssImp.current
          /\ imp.opening = ssImp.opening
      BY <1>3, <1>7
    <3>2. ssImp.opening = "none"
      BY <1>7, <3>1
    <3> HIDE DEF imp, s
    <3> QED
      BY <3>1, <3>2 DEF SsImpType
  <2>2. \/ ses = ssSes /\ i.entry = ssImp.entry
        \/ /\ NoSession /\ i.entry = s /\ ses[s].rt = ssSes[s].rt
           /\ \A x \in SessionIds : x # s => ses[x] = ssSes[x]
           /\ ses[s].status = "idle"
    BY <1>3, <1>4, <1>7, <2>1
  <2>3. s \in {i.entry, i.current} /\ s \in SessionIds /\ ses \in SsSesType
    BY <1>3, <1>7, <2>1
  <2>4. Open(c, s, ses, i)
    BY <1>7
  <2> HIDE DEF s, ses, i, imp
  <2> QED
    BY <1>0, <2>1, <2>2, <2>3, <2>4, OpensStep
<1> QED
  BY <1>2, <1>5, <1>6, <1>7 DEF EnsureSiteSession

-----------------------------------------------------------------------------
\* The runtime manager and the resets, one lemma an action.

LEMMA MakeRuntimeStep ==
  ASSUME SsInv, ssMet' \in {"none", "calls", "imports"},
         NEW r \in RuntimeIds, MakeRuntime(r)
  PROVE  SsKept
<1>0. /\ SsShape /\ ssMgr.rt[r] = "making"
      /\ UNCHANGED <<ssImp, ssSes, ssPc, ssReset>>
  BY DEF SsInv, MakeRuntime
<1>1. /\ ssMgr \in SsMgrType /\ ssImp \in SsImpType /\ ssSes \in SsSesType
      /\ ssPc \in SsPcType /\ ssReset \in SsResetType
  BY <1>0, ShapeTypes
<1>2. /\ ssMgr' \in SsMgrType
      /\ \/ ssMgr'.cached = ssMgr.cached /\ ssMgr'.rt[r] = "fresh"
         \/ ssMgr'.cached = 0 /\ ssMgr'.rt[r] = "failed"
      /\ \A x \in RuntimeIds : x # r => ssMgr'.rt[x] = ssMgr.rt[x]
  <2>1. CASE ssMgr' = [ssMgr EXCEPT !.rt[r] = "fresh"]
    <3>1. ssMgr' = [ssMgr EXCEPT !.rt = [ssMgr.rt EXCEPT ![r] = "fresh"]]
      BY <1>1, <2>1 DEF SsMgrType
    <3> QED
      BY <1>1, <3>1 DEF SsMgrType
  <2>2. CASE ssMgr' = [ssMgr EXCEPT !.rt[r] = "failed", !.cached = 0]
    <3>1. ssMgr' = [ssMgr EXCEPT !.rt = [ssMgr.rt EXCEPT ![r] = "failed"],
                                 !.cached = 0]
      BY <1>1, <2>2 DEF SsMgrType
    <3>2. ssMgr' = [cached |-> 0, rt |-> [ssMgr.rt EXCEPT ![r] = "failed"]]
      BY <1>1, <3>1 DEF SsMgrType
    <3>3. [ssMgr.rt EXCEPT ![r] = "failed"] \in [RuntimeIds ->
             {"none", "making", "failed", "fresh", "started", "destroyed"}]
      BY <1>1 DEF SsMgrType
    <3>4. 0 \in 0..MaxRuntimes
      BY SsBounds
    <3> QED
      BY <1>1, <3>2, <3>3, <3>4 DEF SsMgrType
  <2> QED
    BY <2>1, <2>2 DEF MakeRuntime
<1>3. SsShape'
  <2>1. Made(ssMgr')
    BY <1>2 DEF Made
  <2> QED
    BY <1>0, <1>1, <1>2, <2>1, ShapeKeeps DEF SsShape
<1>4. ASSUME ssMet # "imports", ~TwoImports' PROVE SsCached'
  <2>1. SsCached
    BY <1>4 DEF SsInv
  <2>2. r = ssMgr.cached
    BY <1>0, <2>1 DEF SsCached, Making
  <2>3. CASE ssMgr'.cached = ssMgr.cached
    <3>1. \A x \in RuntimeIds : ssMgr'.rt[x] \in {"making", "fresh", "started"}
                                  => ssMgr.rt[x] \in {"making", "fresh", "started"}
      BY <1>0, <1>2
    <3> QED
      BY <1>0, <1>2, <1>4, <2>1, <2>3, <3>1, CachedKeeps
  <2>4. CASE ssMgr'.cached = 0 /\ ssMgr'.rt[r] = "failed"
    <3>1. \A x \in RuntimeIds : ~(x \in Making' \/ Live(x)')
      BY <1>0, <1>2, <2>1, <2>2, <2>4 DEF SsCached, Making, Live
    <3>2. ASSUME NEW c \in SsResets, ssReset'[c].at = "managed" PROVE FALSE
      BY <1>0, <2>1, <2>2, <3>2 DEF SsCached, Making
    <3> QED
      BY <1>4, <3>1, <3>2 DEF SsCached
  <2> QED
    BY <1>2, <2>3, <2>4
<1>5. ASSUME ssMet = "none" PROVE SsAlone' /\ SsOwned'
  <2>1. SsAlone /\ SsOwned
    BY <1>5 DEF SsInv
  <2>2. SsAlone'
    BY <1>0, <2>1 DEF SsAlone, CallBusy, ResetBusy
  <2>3. ASSUME NEW s \in SessionIds, ssSes[s].rt # 0
        PROVE  Live(ssSes[s].rt)'
    <3>1. Live(ssSes[s].rt) /\ ssSes[s].rt \in RuntimeIds
      BY <1>1, <2>1, <2>3, Numbers DEF SsOwned, SsSesType
    <3> QED
      BY <1>0, <1>2, <3>1 DEF Live
  <2>4. SsOwned'
    BY <1>0, <2>1, <2>3 DEF SsOwned
  <2> QED
    BY <2>2, <2>4
<1> QED
  BY <1>3, <1>4, <1>5 DEF SsKept

\* A step of reset c, which touches no call.
ResetMoves(c) ==
    /\ UNCHANGED ssPc
    /\ ssReset' \in SsResetType
    /\ \A d \in SsResets : d # c => ssReset'[d] = ssReset[d]
    /\ ssReset'[c].at \in {"manager", "managed", "loading"} =>
          ssReset'[c].kind = "import"

LEMMA ResetAtIs ==
  ASSUME SsShape, NEW c \in SsResets, NEW at \in SsResetSteps,
         ssReset' = ResetAt(c, at)
  PROVE  /\ ssReset' \in SsResetType
         /\ \A d \in SsResets : d # c => ssReset'[d] = ssReset[d]
         /\ ssReset'[c] = [ssReset[c] EXCEPT !.at = at]
         /\ ssReset'[c].at = at /\ ssReset'[c].kind = ssReset[c].kind
  BY ShapeTypes DEF ResetAt, SsResetType

LEMMA ResetShape ==
  ASSUME SsShape, ssMet' \in {"none", "calls", "imports"},
         NEW c \in SsResets, ResetMoves(c),
         ssImp' \in SsImpType, ssSes' \in SsSesType, ssMgr' \in SsMgrType,
         Made(ssMgr'), ssMgr'.cached \in {0, ssMgr.cached}
  PROVE  SsShape'
<1>1. ssPc' \in SsPcType /\ ssReset' \in SsResetType
  BY ShapeTypes DEF ResetMoves
<1>2. \A d \in SsResets :
         ssReset'[d].at \in {"manager", "managed", "loading"} =>
            ssReset'[d].kind = "import"
  BY DEF SsShape, ResetMoves
<1>3. \A d \in SsCalls :
            /\ ssPc'[d].on # "none" => ssPc'[d].at = "joined"
            /\ ssPc'[d].at \in {"runtime", "init", "joined", "opened",
                               "request"} => ssPc'[d].s # 0
            /\ ssPc'[d].at = "runtime" =>
                  ssPc[d].at = "runtime" /\ ssPc'[d].r = ssPc[d].r
  BY DEF SsShape, ResetMoves
<1> QED
  BY <1>1, <1>2, <1>3, ShapeKeeps

LEMMA ResetCached ==
  ASSUME SsShape, SsCached, ~TwoImports', UNCHANGED ssMgr,
         NEW c \in SsResets, ResetMoves(c), ssReset'[c].at # "managed"
  PROVE  SsCached'
<1>1. ssMgr' \in SsMgrType
  BY ShapeTypes
<1>2. \A d \in SsResets : ssReset'[d].at = "managed" => ssReset'[d] = ssReset[d]
  BY DEF ResetMoves
<1> QED
  BY <1>1, <1>2, CachedKeeps

\* What SsOwned says of the sessions, after a step that leaves them as ses.
SesOwned(imp, ses) ==
    /\ \A s \in SessionIds : ses[s].rt # 0 =>
          /\ s = imp.entry /\ ses[s].status # "destroyed"
          /\ ssMgr'.rt[ses[s].rt] \in {"fresh", "started"}
    /\ \A s \in SessionIds : ses[s].status = "ready" => ses[s].rt # 0

LEMMA CreateOwned ==
  ASSUME SsShape, NEW imp \in SsImpType, NEW ses \in SsSesType,
         CreateCurrent(imp, ses), SesOwned(imp, ses)
  PROVE  SesOwned(ssImp', ssSes')
<1>1. /\ \/ ssImp'.entry = imp.entry /\ ssSes' = ses
         \/ /\ imp.entry = 0 \/ ses[imp.entry].status = "destroyed"
            /\ ssImp'.entry \in SessionIds
            /\ ssSes'[ssImp'.entry] = [status |-> "idle",
                                       rt |-> ses[ssImp'.entry].rt]
  BY CreateIs
<1>2. \A x \in SessionIds : x # ssImp'.entry => ssSes'[x] = ses[x]
  BY CreateKeeps
<1>3. CASE ssImp'.entry = imp.entry /\ ssSes' = ses
  BY <1>3 DEF SesOwned
<1>4. CASE /\ imp.entry = 0 \/ ses[imp.entry].status = "destroyed"
           /\ ssImp'.entry \in SessionIds
           /\ ssSes'[ssImp'.entry] = [status |-> "idle",
                                      rt |-> ses[ssImp'.entry].rt]
  <2>1. \A x \in SessionIds : ses[x].rt = 0
    BY <1>4, Numbers DEF SesOwned
  <2>2. \A x \in SessionIds : ssSes'[x].rt = 0 /\ ssSes'[x].status # "ready"
    BY <1>2, <1>4, <2>1 DEF SesOwned
  <2> QED
    BY <2>2 DEF SesOwned
<1> QED
  BY <1>1, <1>3, <1>4

LEMMA ResetOwned ==
  ASSUME SsShape, SsAlone, NEW c \in SsResets, ResetMoves(c),
         ResetBusy(c) \/ ~SsUnderWay,
         SesOwned(ssImp', ssSes'),
         \/ ssImp'.current = 0 \/ ssImp'.current = ssImp'.entry
         \/ ssSes'[ssImp'.current].status = "destroyed",
         ssReset'[c].at # "releasing",
         ssReset'[c].at \in {"manager", "managed", "loading"} => ssImp'.entry = 0
  PROVE  SsOwned'
<1>1. /\ \A d \in SsCalls : ssPc'[d].at \in {"idle", "done", "failed", "refused"}
      /\ \A d \in SsResets : d # c => ssReset'[d].at \in {"idle", "done"}
  BY DEF SsAlone, SsUnderWay, CallBusy, ResetBusy, ResetMoves
<1>2. \A s \in SessionIds : ssSes'[s].rt # 0 =>
         s = ssImp'.entry /\ ssSes'[s].status # "destroyed" /\ Live(ssSes[s].rt)'
  BY DEF SesOwned, Live
<1>3. \A s \in SessionIds : ssSes'[s].status = "ready" => ssSes'[s].rt # 0
  BY DEF SesOwned
<1> QED
  BY <1>1, <1>2, <1>3 DEF SsOwned

LEMMA NowOwned ==
  ASSUME SsShape, SsOwned, UNCHANGED ssMgr,
         \A d \in SsResets : ssReset[d].at # "releasing"
  PROVE  SesOwned(ssImp, ssSes)
  BY DEF SsOwned, SesOwned, Live

\* A reset that creates the current session, or leaves the sessions, ends.
LEMMA SelectStep ==
  ASSUME SsInv, ssMet' \in {"none", "calls", "imports"},
         NEW c \in SsResets, SelectSite(c) \/ LoadEnds(c)
  PROVE  SsKept
<1>0. /\ SsShape /\ UNCHANGED <<ssMgr, ssPc>> /\ ssReset' = ResetAt(c, "done")
      /\ ssReset[c].at \in {"idle", "loading"}
  BY DEF SsInv, SelectSite, LoadEnds
<1>1. /\ ssMgr \in SsMgrType /\ ssImp \in SsImpType /\ ssSes \in SsSesType
  BY <1>0, ShapeTypes
<1>2. ResetMoves(c) /\ ssReset'[c].at = "done"
  BY <1>0, ResetAtIs DEF ResetMoves, SsResetSteps
<1>3. \/ \E imp \in SsImpType :
            /\ CreateCurrent(imp, ssSes) /\ imp.entry = ssImp.entry
            /\ imp.opening = ssImp.opening
      \/ /\ ssImp' = [ssImp EXCEPT !.status = "error"] /\ UNCHANGED ssSes
  <2>1. CASE SelectSite(c)
    <3> DEFINE imp == [ssImp EXCEPT !.status = "ready"]
    <3>1. /\ imp \in SsImpType /\ imp.entry = ssImp.entry
          /\ imp.opening = ssImp.opening
      BY <1>1 DEF SsImpType
    <3>2. CreateCurrent(imp, ssSes)
      BY <2>1 DEF SelectSite
    <3> HIDE DEF imp
    <3> QED
      BY <3>1, <3>2
  <2>2. CASE LoadEnds(c)
    <3> DEFINE imp == [ssImp EXCEPT !.config = TRUE, !.status = "ready"]
    <3>1. /\ imp \in SsImpType /\ imp.entry = ssImp.entry
          /\ imp.opening = ssImp.opening
      BY <1>1 DEF SsImpType
    <3>2. \/ CreateCurrent(imp, ssSes)
          \/ /\ ssImp' = [ssImp EXCEPT !.status = "error"] /\ UNCHANGED ssSes
      BY <2>2 DEF LoadEnds
    <3> HIDE DEF imp
    <3> QED
      BY <3>1, <3>2
  <2> QED
    BY <2>1, <2>2
<1>4. /\ ssImp' \in SsImpType /\ ssSes' \in SsSesType
      /\ ssImp'.opening = ssImp.opening
  <2>1. CASE \E imp \in SsImpType :
                /\ CreateCurrent(imp, ssSes) /\ imp.opening = ssImp.opening
    BY <1>0, <1>1, <2>1, CreateIs
  <2>2. CASE /\ ssImp' = [ssImp EXCEPT !.status = "error"] /\ UNCHANGED ssSes
    BY <1>1, <2>2 DEF SsImpType
  <2> QED
    BY <1>3, <2>1, <2>2
<1>5. SsShape'
  BY <1>0, <1>1, <1>2, <1>4, ResetShape DEF Made
<1>6. ASSUME ssMet # "imports", ~TwoImports' PROVE SsCached'
  BY <1>0, <1>2, <1>6, ResetCached DEF SsInv
<1>7. ASSUME ssMet = "none", ~(SsUnderWay /\ SsBegins) PROVE SsAlone' /\ SsOwned'
  <2>1. SsAlone /\ SsOwned /\ (ResetBusy(c) \/ ~SsUnderWay)
    BY <1>0, <1>2, <1>7, BeginsAlone DEF SsInv, ResetBusy
  <2>2. SsAlone'
    BY <1>0, <1>2, <1>4, <2>1, AloneReset DEF ResetMoves
  <2>3. \A d \in SsResets : ssReset[d].at # "releasing"
    BY <1>0, <2>1 DEF SsAlone, ResetBusy, SsUnderWay
  <2>4. SesOwned(ssImp, ssSes)
    BY <1>0, <2>1, <2>3, NowOwned
  <2>5. /\ SesOwned(ssImp', ssSes')
        /\ \/ ssImp'.current = 0 \/ ssImp'.current = ssImp'.entry
           \/ ssSes'[ssImp'.current].status = "destroyed"
    <3>1. ASSUME NEW imp \in SsImpType, CreateCurrent(imp, ssSes),
                 imp.entry = ssImp.entry
          PROVE  SesOwned(ssImp', ssSes') /\ ssImp'.current = ssImp'.entry
      <4>1. SesOwned(imp, ssSes)
        BY <2>4, <3>1 DEF SesOwned
      <4> QED
        BY <1>0, <1>1, <3>1, <4>1, CreateOwned, CreateIs
    <3>2. CASE /\ ssImp' = [ssImp EXCEPT !.status = "error"] /\ UNCHANGED ssSes
      <4>1. ssImp'.entry = ssImp.entry /\ ssImp'.current = ssImp.current
        BY <1>1, <3>2 DEF SsImpType
      <4> QED
        BY <2>1, <2>4, <3>2, <4>1 DEF SesOwned, SsOwned
    <3> QED
      BY <1>3, <3>1, <3>2
  <2>6. SsOwned'
    BY <1>0, <1>2, <2>1, <2>5, ResetOwned
  <2> QED
    BY <2>2, <2>6
<1> QED
  BY <1>5, <1>6, <1>7 DEF SsKept

LEMMA ReleasedStep ==
  ASSUME SsInv, ssMet' \in {"none", "calls", "imports"},
         NEW c \in SsResets, Released(c)
  PROVE  SsKept
<1> DEFINE reset == ssReset[c]
           ses == IF reset.wait THEN SsStatus(ssSes, reset.s, "destroyed")
                  ELSE ssSes
<1>0. /\ SsShape /\ UNCHANGED <<ssMgr, ssPc>> /\ reset.at = "releasing"
      /\ ssReset' = ResetAt(c, IF reset.kind = "import" THEN "manager" ELSE "done")
  BY DEF SsInv, Released
<1>1. /\ ssMgr \in SsMgrType /\ ssImp \in SsImpType /\ ssSes \in SsSesType
      /\ reset.s \in 0..MaxSpiderSessions /\ reset.wait \in BOOLEAN
      /\ reset.current \in 0..MaxSpiderSessions
  BY <1>0, ShapeTypes DEF SsResetType
<1>2. /\ ResetMoves(c)
      /\ \/ ssReset'[c].at = "done"
         \/ ssReset'[c].at = "manager" /\ reset.kind = "import"
  <2>1. CASE reset.kind = "import"
    BY <1>0, <2>1, ResetAtIs DEF ResetMoves, SsResetSteps
  <2>2. CASE reset.kind # "import"
    BY <1>0, <2>2, ResetAtIs DEF ResetMoves, SsResetSteps
  <2> QED
    BY <2>1, <2>2
<1>3. \/ CreateCurrent(ssImp, ses) /\ reset.kind = "reinitialize"
      \/ /\ reset.kind = "cancel"
         /\ ssImp' = [ssImp EXCEPT !.current = reset.current,
                                   !.status = "cancelled"]
         /\ ssSes' = ses
      \/ ssSes' = ses /\ UNCHANGED ssImp
  BY DEF Released
<1>4. /\ ses \in SsSesType
      /\ \A x \in SessionIds :
            IF reset.wait /\ x = reset.s
            THEN ses[x].status = "destroyed" /\ ses[x].rt = ssSes[x].rt
            ELSE ses[x] = ssSes[x]
  <2>1. CASE ~reset.wait \/ reset.s \notin SessionIds
    <3>1. ses = ssSes
      BY <1>1, <2>1 DEF SsStatus, SsSesType
    <3> QED
      BY <1>1, <2>1, <3>1
  <2>2. CASE reset.wait /\ reset.s \in SessionIds
    <3> DEFINE x == reset.s
    <3>1. x \in SessionIds /\ ses = SsStatus(ssSes, x, "destroyed")
      BY <2>2
    <3> HIDE DEF x, ses
    <3>2. PICK status \in SsStatuses :
             status = "destroyed" /\ ses = SsStatus(ssSes, x, status)
      BY <3>1, StatusesAre
    <3>3. /\ ses \in SsSesType /\ ses[x].status = "destroyed"
          /\ ses[x].rt = ssSes[x].rt
      <4>1. ssSes \in SsSesType /\ x \in SessionIds
        BY <1>1, <3>1
      <4>2. ses = SsStatus(ssSes, x, status)
        BY <3>2
      <4>3. /\ ses \in SsSesType /\ ses[x].status = status
            /\ ses[x].rt = ssSes[x].rt
        BY <4>1, <4>2, StatusIs
      <4> QED
        BY <3>2, <4>3
    <3>4. \A y \in SessionIds : y # x => ses[y] = ssSes[y]
      BY <1>1, <3>1, <3>2, StatusKeeps
    <3> QED
      BY <2>2, <3>3, <3>4 DEF x
  <2> QED
    BY <2>1, <2>2
<1> HIDE DEF ses
<1>5. /\ ssImp' \in SsImpType /\ ssSes' \in SsSesType
      /\ ssImp'.opening = ssImp.opening
  <2>1. CASE CreateCurrent(ssImp, ses)
    BY <1>0, <1>1, <1>4, <2>1, CreateIs
  <2>2. CASE /\ ssImp' = [ssImp EXCEPT !.current = reset.current,
                                   !.status = "cancelled"]
             /\ ssSes' = ses
    BY <1>1, <1>4, <2>2 DEF SsImpType
  <2> QED
    BY <1>1, <1>3, <1>4, <2>1, <2>2
<1>6. SsShape'
  BY <1>0, <1>1, <1>2, <1>5, ResetShape DEF Made
<1>7. ASSUME ssMet # "imports", ~TwoImports' PROVE SsCached'
  BY <1>0, <1>2, <1>7, ResetCached DEF SsInv
<1>8. ASSUME ssMet = "none" PROVE SsAlone' /\ SsOwned'
  <2>1. SsAlone /\ SsOwned /\ ResetBusy(c)
    BY <1>0, <1>8 DEF SsInv, ResetBusy
  <2>2. SsAlone'
    BY <1>0, <1>2, <1>5, <2>1, AloneReset DEF ResetMoves
  <2>3. /\ ssImp.entry = 0
        /\ \A x \in SessionIds : ses[x].rt = 0
    BY <1>0, <1>4, <2>1, Numbers DEF SsOwned
  <2>4. ASSUME NEW x \in SessionIds PROVE ses[x].status # "ready"
    <3>1. ssSes[x].status = "ready" => reset.wait /\ reset.s = x
      BY <1>4, <2>1, <2>3 DEF SsOwned, SsAlone, ResetBusy
    <3> QED
      BY <1>4, <3>1
  <2>5. SesOwned(ssImp, ses)
    BY <2>3, <2>4 DEF SesOwned
  <2>6. ASSUME NEW x \in SessionIds, ssSes[x].status = "destroyed"
        PROVE  ses[x].status = "destroyed"
    BY <1>4, <2>6
  <2>7. /\ SesOwned(ssImp', ssSes')
        /\ \/ ssImp'.current = 0 \/ ssImp'.current = ssImp'.entry
           \/ ssSes'[ssImp'.current].status = "destroyed"
        /\ ssReset'[c].at = "manager" => ssImp'.entry = 0
    <3>1. CASE CreateCurrent(ssImp, ses) /\ reset.kind = "reinitialize"
      BY <1>0, <1>1, <1>2, <1>4, <2>5, <3>1, CreateOwned, CreateIs
    <3>2. CASE /\ reset.kind = "cancel"
               /\ ssImp' = [ssImp EXCEPT !.current = reset.current,
                                   !.status = "cancelled"]
               /\ ssSes' = ses
      <4>1. ssImp'.entry = 0 /\ ssImp'.current = reset.current
        BY <1>1, <2>3, <3>2 DEF SsImpType
      <4>2. reset.current # 0 => reset.current \in SessionIds
        BY <1>1, Numbers
      <4>3. reset.current = 0 \/ ses[reset.current].status = "destroyed"
        BY <1>0, <1>4, <2>1, <2>6, <4>2 DEF SsOwned
      <4>4. SesOwned(ssImp', ssSes')
        BY <2>3, <2>5, <3>2, <4>1 DEF SesOwned
      <4> QED
        BY <3>2, <4>1, <4>3, <4>4
    <3>3. CASE ssSes' = ses /\ UNCHANGED ssImp
      <4>1. ssImp.current # 0 => ssImp.current \in SessionIds
        BY <1>1, Numbers DEF SsImpType
      <4> QED
        BY <2>1, <2>3, <2>5, <2>6, <3>3, <4>1 DEF SsOwned
    <3> QED
      BY <1>3, <3>1, <3>2, <3>3
  <2>8. SsOwned'
    BY <1>0, <1>2, <2>1, <2>7, ResetOwned
  <2> QED
    BY <2>2, <2>8
<1> QED
  BY <1>6, <1>7, <1>8 DEF SsKept

LEMMA ReleaseStep ==
  ASSUME SsInv, ssMet' \in {"none", "calls", "imports"}, NEW c \in SsResets,
         NEW kind \in {"reinitialize", "cancel", "import"},
         ReleaseSessions(c, kind)
  PROVE  SsKept
<1> DEFINE s == ssImp.entry
           r == IF s = 0 \/ ssSes[s].status = "destroyed" THEN 0 ELSE ssSes[s].rt
<1>0. /\ SsShape /\ UNCHANGED ssPc /\ ssReset[c].at = "idle"
      /\ ssImp' = [ssImp EXCEPT !.entry = 0,
                      !.current = IF kind = "reinitialize" /\ @ # s THEN @ ELSE 0]
      /\ ssReset' = [ssReset EXCEPT ![c] =
                       [at |-> "releasing", s |-> s, current |-> ssImp.current,
                        wait |-> Live(r), kind |-> kind]]
      /\ ssMgr' = Destroyed(ssMgr, r)
      /\ ssSes' = IF s = 0 THEN ssSes
                  ELSE IF Live(r) THEN [ssSes EXCEPT ![s].rt = 0]
                  ELSE [ssSes EXCEPT ![s] = [status |-> "destroyed", rt |-> 0]]
  BY DEF SsInv, ReleaseSessions
<1>1. /\ ssMgr \in SsMgrType /\ ssImp \in SsImpType /\ ssSes \in SsSesType
      /\ ssReset \in SsResetType /\ s \in 0..MaxSpiderSessions
      /\ s # 0 => s \in SessionIds
  BY <1>0, ShapeTypes, Numbers DEF SsImpType
<1>2. r \in 0..MaxRuntimes
  <2>1. 0 \in 0..MaxRuntimes
    BY SsBounds
  <2>2. s # 0 => ssSes[s].rt \in 0..MaxRuntimes
    BY <1>1 DEF SsSesType
  <2> QED
    BY <2>1, <2>2
<1>3. /\ ssMgr' \in SsMgrType /\ ssMgr'.cached = ssMgr.cached
      /\ \A x \in RuntimeIds :
            ssMgr'.rt[x] = IF x = r THEN "destroyed" ELSE ssMgr.rt[x]
  BY <1>0, <1>1, <1>2, DestroyedIs
<1>4. /\ ssImp' \in SsImpType /\ ssImp'.entry = 0
      /\ ssImp'.opening = ssImp.opening
      /\ \/ ssImp'.current = 0
         \/ ssImp'.current = ssImp.current /\ ssImp.current # s
  <2>1. 0 \in 0..MaxSpiderSessions
    BY SsBounds
  <2>2. PICK now \in {0, ssImp.current} :
           /\ ssImp' = [ssImp EXCEPT !.entry = 0, !.current = now]
           /\ now = 0 \/ ssImp.current # s
    BY <1>0
  <2>3. now \in 0..MaxSpiderSessions
    BY <1>1, <2>1 DEF SsImpType
  <2> QED
    BY <1>1, <2>1, <2>2, <2>3 DEF SsImpType
<1>5. /\ ssSes' \in SsSesType
      /\ \A x \in SessionIds : x # s => ssSes'[x] = ssSes[x]
      /\ s # 0 =>
            /\ ssSes'[s].rt = 0
            /\ ssSes'[s].status = IF Live(r) THEN ssSes[s].status ELSE "destroyed"
  <2>1. CASE s = 0
    BY <1>0, <1>1, <2>1, Numbers
  <2>2. CASE s # 0
    <3>1. /\ s \in SessionIds
          /\ ssSes[s] \in [status : SsStatuses, rt : 0..MaxRuntimes]
          /\ 0 \in 0..MaxRuntimes
      BY <1>1, <2>2, SsBounds DEF SsSesType
    <3> DEFINE new == [status |-> IF Live(r) THEN ssSes[s].status
                                  ELSE "destroyed", rt |-> 0]
    <3>2. new \in [status : SsStatuses, rt : 0..MaxRuntimes]
      BY <3>1, StatusesAre
    <3>3. ssSes' = [ssSes EXCEPT ![s] = new]
      <4>1. CASE Live(r)
        <5>1. ssSes' = [ssSes EXCEPT ![s] = [ssSes[s] EXCEPT !.rt = 0]]
          BY <1>0, <1>1, <2>2, <3>1, <4>1 DEF SsSesType
        <5>2. [ssSes[s] EXCEPT !.rt = 0] = new
          BY <3>1, <4>1
        <5> QED
          BY <5>1, <5>2
      <4>2. CASE ~Live(r)
        BY <1>0, <2>2, <4>2
      <4> QED
        BY <4>1, <4>2
    <3>4. /\ new.rt = 0
          /\ new.status = IF Live(r) THEN ssSes[s].status ELSE "destroyed"
      OBVIOUS
    <3> HIDE DEF new, s, r
    <3> QED
      BY <1>1, <2>2, <3>1, <3>2, <3>3, <3>4 DEF SsSesType
  <2> QED
    BY <2>1, <2>2
<1>6. /\ ResetMoves(c) /\ ssReset'[c].at = "releasing" /\ ssReset'[c].s = s
      /\ ssReset'[c].current = ssImp.current /\ ssReset'[c].wait = Live(r)
  <2> DEFINE new == [at |-> "releasing", s |-> s, current |-> ssImp.current,
                     wait |-> Live(r), kind |-> kind]
  <2>1. new \in [at : SsResetSteps,
                   s : 0..MaxSpiderSessions, current : 0..MaxSpiderSessions,
                   wait : BOOLEAN,
                   kind : {"none", "reinitialize", "cancel", "import"}]
    <3>1. ssImp.current \in 0..MaxSpiderSessions
      BY <1>1 DEF SsImpType
    <3>2. Live(r) \in BOOLEAN
      BY DEF Live
    <3>3. "releasing" \in SsResetSteps
      BY DEF SsResetSteps
    <3> HIDE DEF s, r
    <3> QED
      BY <1>1, <3>1, <3>2, <3>3
  <2>2. /\ new.at = "releasing" /\ new.s = s /\ new.current = ssImp.current
        /\ new.wait = Live(r)
    OBVIOUS
  <2>3. ssReset' = [ssReset EXCEPT ![c] = new]
    BY <1>0
  <2> HIDE DEF new, s, r
  <2> QED
    BY <1>0, <1>1, <2>1, <2>2, <2>3 DEF ResetMoves, SsResetType
<1>7. SsShape'
  <2>1. Made(ssMgr')
    BY <1>3 DEF Made
  <2> QED
    BY <1>0, <1>3, <1>4, <1>5, <1>6, <2>1, ResetShape
<1>8. ASSUME ssMet # "imports", ~TwoImports' PROVE SsCached'
  <2>1. \A x \in RuntimeIds : ssMgr'.rt[x] \in {"making", "fresh", "started"}
                                => ssMgr.rt[x] \in {"making", "fresh", "started"}
    BY <1>3
  <2>2. \A d \in SsResets : ssReset'[d].at = "managed" => ssReset'[d] = ssReset[d]
    BY <1>6 DEF ResetMoves
  <2> QED
    BY <1>0, <1>3, <1>8, <2>1, <2>2, CachedKeeps DEF SsInv
<1>9. ASSUME ssMet = "none", ~(SsUnderWay /\ SsBegins) PROVE SsAlone' /\ SsOwned'
  <2>1. SsAlone /\ SsOwned /\ ~SsUnderWay
    BY <1>0, <1>6, <1>9, BeginsAlone DEF SsInv
  <2>2. SsAlone'
    BY <1>0, <1>4, <1>6, <2>1, AloneReset DEF ResetMoves
  <2>3. /\ \A d \in SsCalls : ssPc'[d].at \in {"idle", "done", "failed", "refused"}
        /\ \A d \in SsResets : ssReset[d].at \in {"idle", "done"}
        /\ \A d \in SsResets : d # c => ssReset'[d].at \in {"idle", "done"}
    BY <1>0, <1>6, <2>1 DEF SsUnderWay, ResetMoves
  <2>4. ASSUME NEW x \in SessionIds PROVE ssSes'[x].rt = 0
    <3>1. CASE x = s
      BY <1>5, <3>1, Numbers
    <3>2. CASE x # s
      BY <1>5, <2>1, <3>2 DEF SsOwned
    <3> QED
      BY <3>1, <3>2
  <2>5. ASSUME NEW x \in SessionIds, ssSes'[x].status = "ready"
        PROVE  Live(r) /\ x = s
    <3>1. x = s
      BY <1>5, <2>1, <2>3, <2>5 DEF SsOwned
    <3> QED
      BY <1>5, <2>5, <3>1, Numbers
  <2>6. Live(r) => s # 0
    BY DEF Live
  <2>7. /\ ssImp'.current = 0 \/ ssSes'[ssImp'.current].status = "destroyed"
        /\ \/ ssImp.current = 0 \/ ssImp.current = s
           \/ ssSes'[ssImp.current].status = "destroyed"
    <3>1. ssImp.current # 0 => ssImp.current \in SessionIds
      BY <1>1, Numbers DEF SsImpType
    <3> QED
      BY <1>4, <1>5, <2>1, <3>1 DEF SsOwned
  <2>8. Live(r) \/ s = 0 \/ ssSes'[s].status = "destroyed"
    BY <1>5
  <2>9. SsOwned'
    <3> HIDE DEF s, r
    <3>1. \A x \in SessionIds : ssSes'[x].status = "ready" =>
             ssReset'[c].at = "releasing" /\ ssReset'[c].wait /\ ssReset'[c].s = x
      BY <1>6, <2>5
    <3> QED
      BY <1>4, <1>6, <2>3, <2>4, <2>6, <2>7, <2>8, <3>1 DEF SsOwned
  <2> QED
    BY <2>2, <2>9
<1> QED
  BY <1>7, <1>8, <1>9 DEF SsKept

LEMMA ManagerDestroyStep ==
  ASSUME SsInv, ssMet' \in {"none", "calls", "imports"},
         NEW c \in SsResets, ManagerDestroy(c)
  PROVE  SsKept
<1> DEFINE r == ssMgr.cached
<1>0. /\ SsShape /\ UNCHANGED <<ssImp, ssSes, ssPc>>
      /\ ssReset[c].at = "manager" /\ r \notin Making
      /\ ssMgr' = Destroyed(ssMgr, r)
      /\ ssReset' = [ssReset EXCEPT ![c].at = "managed", ![c].wait = Live(r)]
  BY DEF SsInv, ManagerDestroy
<1>1. /\ ssMgr \in SsMgrType /\ ssImp \in SsImpType /\ ssSes \in SsSesType
      /\ ssReset \in SsResetType /\ r \in 0..MaxRuntimes
  BY <1>0, ShapeTypes DEF SsMgrType
<1>2. /\ ssMgr' \in SsMgrType /\ ssMgr'.cached = r
      /\ \A x \in RuntimeIds :
            ssMgr'.rt[x] = IF x = r THEN "destroyed" ELSE ssMgr.rt[x]
  BY <1>0, <1>1, DestroyedIs
<1>3. /\ ResetMoves(c) /\ ssReset'[c].at = "managed"
      /\ ssReset'[c].wait = Live(r)
  <2>1. Live(r) \in BOOLEAN /\ "managed" \in SsResetSteps
        /\ ssReset[c].kind = "import"
    BY <1>0 DEF Live, SsResetSteps, SsShape
  <2> HIDE DEF r
  <2> QED
    BY <1>0, <1>1, <2>1 DEF ResetMoves, SsResetType
<1>4. SsShape'
  <2>1. Made(ssMgr')
    BY <1>2 DEF Made
  <2> QED
    BY <1>0, <1>1, <1>2, <1>3, <2>1, ResetShape
<1>5. ASSUME ssMet # "imports", ~TwoImports' PROVE SsCached'
  <2>1. SsCached
    BY <1>5 DEF SsInv
  <2>2. \A x \in RuntimeIds : ~(x \in Making' \/ Live(x)')
    BY <1>2, <2>1 DEF SsCached, Making, Live
  <2>3. /\ ssMgr'.cached \notin Making' /\ ~Live(ssMgr.cached)'
        /\ r = 0 => ~Live(r)
    BY <1>1, <1>2, <2>2, Numbers DEF Making, Live
  <2>4. \A d \in SsResets : d # c /\ ssReset'[d].at = "managed" =>
           ssReset[d].at = "managed" /\ ssReset'[d].wait = ssReset[d].wait
    BY <1>3 DEF ResetMoves
  <2>5. ASSUME NEW d \in SsResets, ssReset'[d].at = "managed", r = 0
        PROVE  ~ssReset'[d].wait
    BY <1>3, <2>1, <2>3, <2>4, <2>5 DEF SsCached
  <2> QED
    BY <1>2, <1>5, <2>2, <2>3, <2>5 DEF SsCached
<1>6. ASSUME ssMet = "none" PROVE SsAlone' /\ SsOwned'
  <2>1. SsAlone /\ SsOwned /\ ResetBusy(c)
    BY <1>0, <1>6 DEF SsInv, ResetBusy
  <2>2. SsAlone'
    BY <1>0, <1>3, <2>1, AloneReset DEF ResetMoves
  <2>3. ssImp'.entry = 0 /\ \A x \in SessionIds : ssSes'[x].rt = 0
    BY <1>0, <2>1, Numbers DEF SsOwned
  <2>4. \A x \in SessionIds : ssSes'[x].status # "ready"
    BY <1>0, <2>1, <2>3 DEF SsOwned, SsAlone, ResetBusy
  <2>5. /\ SesOwned(ssImp', ssSes')
        /\ \/ ssImp'.current = 0 \/ ssImp'.current = ssImp'.entry
           \/ ssSes'[ssImp'.current].status = "destroyed"
    BY <1>0, <2>1, <2>3, <2>4 DEF SesOwned, SsOwned
  <2>6. SsOwned'
    BY <1>0, <1>3, <2>1, <2>3, <2>5, ResetOwned
  <2> QED
    BY <2>2, <2>6
<1> QED
  BY <1>4, <1>5, <1>6 DEF SsKept

\* Where no two imports meet, there is one import at a time.
LEMMA OneImport ==
  ASSUME ~TwoImports, NEW c \in SsResets, NEW d \in SsResets,
         ssReset[c].kind = "import", ssReset[c].at # "done",
         ssReset[d].kind = "import", ssReset[d].at # "done"
  PROVE  c = d
<1> DEFINE S == {x \in SsResets : /\ ssReset[x].kind = "import"
                                  /\ ssReset[x].at # "done"}
<1> SUFFICES ASSUME c # d PROVE FALSE
  OBVIOUS
<1>1. IsFiniteSet(S) /\ ~(Cardinality(S) > 1)
  BY SsBounds, FS_Subset DEF TwoImports
<1>2. {c} \cup {d} \in SUBSET S
  OBVIOUS
<1>3. IsFiniteSet({c}) /\ Cardinality({c}) = 1
  BY FS_Singleton
<1>4. Cardinality({c} \cup {d}) = 2
  BY <1>3, FS_AddElement, SMTT(30)
<1> HIDE DEF S
<1>5. Cardinality({c} \cup {d}) <= Cardinality(S) /\ Cardinality(S) \in Nat
  BY <1>1, <1>2, FS_Subset, FS_CardinalityType
<1> QED
  BY <1>1, <1>4, <1>5

LEMMA ManagerDestroyedStep ==
  ASSUME SsInv, ssMet' \in {"none", "calls", "imports"},
         NEW c \in SsResets, ManagerDestroyed(c)
  PROVE  SsKept
<1>0. /\ SsShape /\ UNCHANGED <<ssSes, ssPc>> /\ ssReset[c].at = "managed"
      /\ ssMgr' = [ssMgr EXCEPT !.cached = 0]
      /\ ssImp' = [ssImp EXCEPT !.config = FALSE, !.opening = "none",
                              !.status = "loading"]
      /\ ssReset' = ResetAt(c, "loading")
  BY DEF SsInv, ManagerDestroyed
<1>1. /\ ssMgr \in SsMgrType /\ ssImp \in SsImpType /\ ssSes \in SsSesType
      /\ ssReset[c].kind = "import" /\ 0 \in 0..MaxRuntimes
  BY <1>0, ShapeTypes, SsBounds DEF SsShape
<1>2. /\ ssMgr' \in SsMgrType /\ ssMgr'.cached = 0 /\ ssMgr'.rt = ssMgr.rt
      /\ ssImp' \in SsImpType /\ ssImp'.opening = "none"
      /\ ssImp'.entry = ssImp.entry /\ ssImp'.current = ssImp.current
  BY <1>0, <1>1 DEF SsMgrType, SsImpType
<1>3. ResetMoves(c) /\ ssReset'[c].at = "loading"
  BY <1>0, <1>1, ResetAtIs DEF ResetMoves, SsResetSteps
<1>4. SsShape'
  <2>1. Made(ssMgr')
    BY <1>2 DEF Made
  <2> QED
    BY <1>0, <1>1, <1>2, <1>3, <2>1, ResetShape
<1>5. ASSUME ssMet # "imports", ~TwoImports' PROVE SsCached'
  <2>1. SsCached
    BY <1>5 DEF SsInv
  <2>2. \A x \in RuntimeIds : ~(x \in Making' \/ Live(x)')
    BY <1>0, <1>2, <2>1 DEF SsCached, Making, Live
  <2>3. ASSUME NEW d \in SsResets, ssReset'[d].at = "managed" PROVE FALSE
    <3>1. d # c /\ ssReset[d].at = "managed"
      BY <1>3, <2>3 DEF ResetMoves
    <3>2. ssReset[d].kind = "import"
      BY <1>0, <3>1 DEF SsShape
    <3> QED
      BY <1>0, <1>1, <2>1, <3>1, <3>2, OneImport DEF SsCached
  <2> QED
    BY <1>5, <2>2, <2>3 DEF SsCached
<1>6. ASSUME ssMet = "none" PROVE SsAlone' /\ SsOwned'
  <2>1. SsAlone /\ SsOwned /\ ResetBusy(c)
    BY <1>0, <1>6 DEF SsInv, ResetBusy
  <2>2. SsAlone'
    BY <1>0, <1>2, <1>3, <2>1, AloneReset DEF ResetMoves
  <2>3. ssImp'.entry = 0 /\ \A x \in SessionIds : ssSes'[x].rt = 0
    BY <1>0, <1>2, <2>1, Numbers DEF SsOwned
  <2>4. \A x \in SessionIds : ssSes'[x].status # "ready"
    BY <1>0, <2>1, <2>3 DEF SsOwned, SsAlone, ResetBusy
  <2>5. /\ SesOwned(ssImp', ssSes')
        /\ \/ ssImp'.current = 0 \/ ssImp'.current = ssImp'.entry
           \/ ssSes'[ssImp'.current].status = "destroyed"
    BY <1>0, <1>2, <2>1, <2>3, <2>4 DEF SesOwned, SsOwned
  <2>6. SsOwned'
    BY <1>0, <1>3, <2>1, <2>3, <2>5, ResetOwned
  <2> QED
    BY <2>2, <2>6
<1> QED
  BY <1>4, <1>5, <1>6 DEF SsKept

-----------------------------------------------------------------------------
\* The invariant holds of the first state, every step keeps it, and it implies
\* what the runs check.

LEMMA SsStarts == SsInit => SsInv
<1> SUFFICES ASSUME SsInit PROVE SsInv
  OBVIOUS
<1>0. /\ 1 \in SessionIds /\ 1 \in 0..MaxSpiderSessions
      /\ 0 \in 0..MaxSpiderSessions /\ 0 \in 0..MaxRuntimes
  BY SsBounds DEF SessionIds
<1>1. SsTypeOK
  BY <1>0 DEF SsInit, SsTypeOK
<1>2. SsShape
  BY <1>1 DEF SsInit, SsShape
<1>3. SsCached
  <2>1. {c \in SsResets : /\ ssReset[c].kind = "import"
                          /\ ssReset[c].at # "done"} = {}
    BY DEF SsInit
  <2>2. ~TwoImports
    BY <2>1, FS_EmptySet DEF TwoImports
  <2>3. \A r \in RuntimeIds : ~(r \in Making \/ Live(r))
    BY DEF SsInit, Making, Live
  <2>4. \A c \in SsResets : ssReset[c].at # "managed"
    BY DEF SsInit
  <2> QED
    BY <2>2, <2>3, <2>4 DEF SsCached
<1>4. SsAlone
  BY DEF SsInit, SsAlone, CallBusy, ResetBusy
<1>5. SsOwned
  BY <1>0 DEF SsInit, SsOwned
<1> QED
  BY <1>2, <1>3, <1>4, <1>5 DEF SsInv

LEMMA SsSteps1 ==
  ASSUME SsInv, ssMet' \in {"none", "calls", "imports"},
         \/ \E c \in SsCalls : GotRuntime(c)
         \/ \E c \in SsSearches : SearchOpened(c)
         \/ \E c \in SsResets : \/ Released(c) \/ ManagerDestroy(c)
                                \/ ManagerDestroyed(c)
         \/ ~SsContinues /\ SsEvent
  PROVE  SsKept
<1> USE DEF SsCalls
<1>1. CASE \E c \in SsCalls : GotRuntime(c)
  BY <1>1, GotRuntimeStep
<1>2. CASE \E c \in SsSearches : SearchOpened(c)
  BY <1>2, SearchOpenedStep
<1>3. CASE \E c \in SsResets : \/ Released(c) \/ ManagerDestroy(c)
                               \/ ManagerDestroyed(c)
  BY <1>3, ReleasedStep, ManagerDestroyStep, ManagerDestroyedStep
<1>4. CASE ~SsContinues /\ SsEvent
  <2>1. CASE \E c \in SsUi : UiOpen(c) \/ UiUse(c)
    BY <1>4, <2>1, UiOpenStep, UiUseStep
  <2>2. CASE \E c \in SsSearches : EnsureSiteSession(c)
    BY <1>4, <2>2, EnsureStep
  <2>3. CASE \E c \in SsCalls : InitEnds(c) \/ Closed(c) \/ RequestEnds(c)
    BY <2>3, InitEndsStep, ClosedStep, RequestEndsStep
  <2>4. CASE \E r \in RuntimeIds : MakeRuntime(r)
    BY <2>4, MakeRuntimeStep
  <2>5. CASE \E c \in SsResets : SelectSite(c) \/ LoadEnds(c)
    BY <2>5, SelectStep
  <2>6. CASE \E c \in SsResets : \E kind \in {"reinitialize", "cancel", "import"} :
                ReleaseSessions(c, kind)
    BY <2>6, ReleaseStep
  <2> QED
    BY <1>4, <2>1, <2>2, <2>3, <2>4, <2>5, <2>6 DEF SsEvent
<1> QED
  BY <1>1, <1>2, <1>3, <1>4

LEMMA SsPreserves == SsInv /\ [SsNext]_ssVars => SsInv'
<1> SUFFICES ASSUME SsInv, [SsNext]_ssVars PROVE SsInv'
  OBVIOUS
<1>1. CASE SsNext
  <2>1. ssMet \in {"none", "calls", "imports"}
    BY DEF SsInv, SsShape, SsTypeOK
  <2>2. ssMet' = IF TwoImports' THEN "imports"
                 ELSE IF ssMet = "none" /\ SsUnderWay /\ SsBegins THEN "calls"
                 ELSE ssMet
    BY <1>1 DEF SsNext
  <2>3. SsKept
    BY <1>1, <2>1, <2>2, SsSteps1 DEF SsNext
  <2> QED
    BY <2>1, <2>2, <2>3 DEF SsKept, SsInv
<1>2. CASE UNCHANGED ssVars
  <2>1. UNCHANGED <<ssImp, ssSes, ssMgr, ssPc, ssReset, ssMet>>
    BY <1>2 DEF ssVars
  <2>2. SsShape'
    BY <2>1 DEF SsInv, SsShape, SsTypeOK
  <2>3. ssMet # "imports" => SsCached'
    BY <2>1 DEF SsInv, SsCached, TwoImports, Making, Live
  <2>4. ssMet = "none" => SsAlone' /\ SsOwned'
    BY <2>1 DEF SsInv, SsAlone, SsOwned, CallBusy, ResetBusy, Live
  <2> QED
    BY <2>1, <2>2, <2>3, <2>4 DEF SsInv
<1> QED
  BY <1>1, <1>2

\* What every step keeps of the sessions, the manager and the calls, as far as
\* the calls that met allow it.
THEOREM SessionsInvariance == SsSpec => []SsInv
  BY SsStarts, SsPreserves, PTL DEF SsSpec

\* The state of the importer, its sessions, their runtimes and the calls keeps
\* its type, whatever calls meet.
THEOREM SessionsTyped == SsSpec => []SsTypeOK
<1>1. SsInv => SsTypeOK
  BY DEF SsInv, SsShape
<1> QED
  BY <1>1, SessionsInvariance, PTL

\* However the opens, searches and resets of a site meet, and whatever fails, at
\* most one runtime is made or lives (getRuntime, destroyClient, destroy), as
\* long as no two imports meet: one that lives is the one the manager caches.
THEOREM OneRuntime == SsSpec => []OneLiveRuntime
<1>1. SsInv => OneLiveRuntime
  <2> SUFFICES ASSUME SsInv, ssMet # "imports"
               PROVE  Cardinality(Making \cup {r \in RuntimeIds : Live(r)}) <= 1
    BY DEF OneLiveRuntime
  <2>1. Making \cup {r \in RuntimeIds : Live(r)} \in SUBSET {ssMgr.cached}
    BY DEF SsInv, SsCached, Making
  <2>2. IsFiniteSet({ssMgr.cached}) /\ Cardinality({ssMgr.cached}) = 1
    BY FS_Singleton
  <2> HIDE DEF Making
  <2> QED
    BY <2>1, <2>2, FS_Subset
<1> QED
  BY <1>1, SessionsInvariance, PTL

\* Where the calls came one after another, whatever failed, the session of the
\* map or the window that says ready has a runtime that works (open,
\* invokeRuntime, destroy).
THEOREM ReadyWorks == SsSpec => []ReadyMeansUsable
<1>1. SsInv => ReadyMeansUsable
  <2> SUFFICES ASSUME SsInv, ssMet = "none", ~SsUnderWay,
                      NEW s \in {ssImp.entry, ssImp.current} \ {0},
                      ssSes[s].status = "ready"
               PROVE  Live(ssSes[s].rt)
    BY DEF ReadyMeansUsable
  <2>1. s \in SessionIds
    BY ShapeTypes, Numbers DEF SsInv, SsImpType
  <2>2. ssSes[s].rt # 0
    BY <2>1 DEF SsInv, SsOwned, SsUnderWay
  <2> QED
    BY <2>1, <2>2 DEF SsInv, SsOwned
<1> QED
  BY <1>1, SessionsInvariance, PTL
=============================================================================
