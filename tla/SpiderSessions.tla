--------------------------- MODULE SpiderSessions ---------------------------
(***************************************************************************)
(* The sessions of one site: DesktopSpiderImport (src/desktop/             *)
(* spider-import.ts), which keeps at most one DesktopSpiderSession per     *)
(* site, the sessions (src/desktop/spider-session.ts), and the             *)
(* SpiderRuntimeManager that caches the runtime they run the source in     *)
(* (src/spider/spider-runtime.ts), as src/electron/main.ts joins them.     *)
(*                                                                         *)
(* The window opens and uses the current session, the aggregate search     *)
(* opens and uses the one in the map, a reset destroys it, and all of them *)
(* await.  What a promise continues runs before the next event.            *)
(***************************************************************************)
EXTENDS Naturals, FiniteSets

CONSTANTS
    SsUi,         \* calls of ui.open, or of ui.home, category, search, detail
    SsSearches,   \* searches of the site by the aggregate search
    SsResets,     \* calls that reinitialise, cancel, import or select
    MaxSpiderSessions, MaxRuntimes   \* bounds

ASSUME SsBounds ==
    /\ MaxSpiderSessions \in Nat \ {0} /\ MaxRuntimes \in Nat \ {0}
    /\ "none" \notin SsUi \cup SsSearches /\ IsFiniteSet(SsResets)

SsCalls == SsUi \cup SsSearches
SessionIds == 1..MaxSpiderSessions
RuntimeIds == 1..MaxRuntimes

VARIABLES
    ssImp,   \* DesktopSpiderImport
    ssSes,   \* the sessions; 0 stands for none
    ssMgr,   \* SpiderRuntimeManager
    ssPc,    \* the calls on a session
    ssReset, \* the calls of the importer
    ssMet    \* history: what calls have met, "none", "calls" or "imports"

ssVars == <<ssImp, ssSes, ssMgr, ssPc, ssReset, ssMet>>

(* at "runtime" awaits getRuntime, "init" runtime.init, "closing" the      *)
(* destroy of a runtime that did not start; "joined" the open of call on.  *)
SsInit ==
    /\ ssImp = [status |-> "ready", config |-> TRUE, entry |-> 1, current |-> 1,
                opening |-> "none"]
    /\ ssSes = [s \in SessionIds |->
                  [status |-> IF s = 1 THEN "idle" ELSE "none", rt |-> 0]]
    /\ ssMgr = [cached |-> 0, rt |-> [r \in RuntimeIds |-> "none"]]
    /\ ssPc = [c \in SsCalls |-> [at |-> "idle", s |-> 0, r |-> 0, on |-> "none"]]
    /\ ssReset = [c \in SsResets |-> [at |-> "idle", s |-> 0, current |-> 0,
                                     wait |-> FALSE, kind |-> "none"]]
    /\ ssMet = "none"

Created == {s \in SessionIds : ssSes[s].status # "none"}
NewSession == Cardinality(Created) + 1
NewRuntime == Cardinality({r \in RuntimeIds : ssMgr.rt[r] # "none"}) + 1

SsStatus(ses, s, status) == [ses EXCEPT ![s].status = status]
At(c, at) == [ssPc EXCEPT ![c].at = at]

-----------------------------------------------------------------------------
(* The runtime manager and DesktopClientSpiderRuntime. *)

Live(r) == r # 0 /\ ssMgr.rt[r] \in {"fresh", "started"}

\* A bug: every caller makes a runtime, and the last is kept.
MutCached(m, r) == [m EXCEPT !.cached = r, !.rt[r] = "making"]

\* getRuntime, of the new runtime r where none is cached.
Cached(m, r) == IF m.cached # 0 THEN m
                ELSE [m EXCEPT !.cached = r, !.rt[r] = "making"]

\* runtime.destroy.
Destroyed(m, r) == IF r = 0 THEN m ELSE [m EXCEPT !.rt[r] = "destroyed"]

\* createRuntime ends; a failure is forgotten.
MakeRuntime(r) ==
    /\ ssMgr.rt[r] = "making"
    /\ \/ ssMgr' = [ssMgr EXCEPT !.rt[r] = "fresh"]
       \/ ssMgr' = [ssMgr EXCEPT !.rt[r] = "failed", !.cached = 0]
    /\ UNCHANGED <<ssImp, ssSes, ssPc, ssReset>>

-----------------------------------------------------------------------------
(* DesktopSpiderSession. *)

\* What becomes of a search that opens, and of those that joined it.
Settle(c, at) == [d \in SsCalls |-> IF d = c \/ ssPc[d].on = c
                                    THEN [ssPc[d] EXCEPT !.at = at, !.on = "none"]
                                    ELSE ssPc[d]]

ForgetOpening(c) == IF c \in SsSearches
                    THEN [ssImp EXCEPT !.opening = "none"] ELSE ssImp

\* open, up to its first await, by call c on session s of the importer imp.
Open(c, s, ses, imp) ==
    \/ /\ ses[s].status = "destroyed" \/ ses[s].rt # 0
       /\ ssSes' = ses /\ ssImp' = [imp EXCEPT !.opening = ssImp.opening]
       /\ ssPc' = At(c, "failed")
       /\ UNCHANGED ssMgr
    \/ /\ ses[s].status # "destroyed" /\ ses[s].rt = 0 /\ ~ssImp.config
       /\ ssSes' = SsStatus(ses, s, "error")
       /\ ssImp' = [imp EXCEPT !.opening = ssImp.opening]
       /\ ssPc' = At(c, "failed")
       /\ UNCHANGED ssMgr
    \/ /\ ses[s].status # "destroyed" /\ ses[s].rt = 0 /\ ssImp.config
       /\ NewRuntime <= MaxRuntimes
       /\ ssSes' = SsStatus(ses, s, "initializing") /\ ssImp' = imp
       /\ ssMgr' = Cached(ssMgr, NewRuntime)
       /\ ssPc' = [ssPc EXCEPT ![c] = [at |-> "runtime", s |-> s,
                                       r |-> ssMgr'.cached, on |-> "none"]]

\* The catch of open: setThrownError and destroyClient, which destroys what
\* runtime the session has by now.
OpenThrows(c, ses, at) ==
    LET s == ssPc[c].s  r == ses[s].rt
    IN  /\ ssSes' = [ses EXCEPT ![s] = [status |-> "error", rt |-> 0]]
        /\ ssMgr' = Destroyed(ssMgr, r)
        /\ IF Live(r) THEN ssPc' = At(c, "closing") /\ UNCHANGED ssImp
           ELSE ssPc' = Settle(c, at) /\ ssImp' = ForgetOpening(c)

\* A bug: runtime.init does not look whether the runtime is destroyed.
MutRefuses(r) == FALSE

\* runtime.init refuses where it is.
Refuses(r) == ssMgr.rt[r] = "destroyed"

RuntimeArrives(c) == ssPc[c].at = "runtime" /\ ssMgr.rt[ssPc[c].r] # "making"

\* The session keeps the runtime it awaited, whatever happened meanwhile.
GotRuntime(c) ==
    LET s == ssPc[c].s  r == ssPc[c].r  ses == [ssSes EXCEPT ![s].rt = r]
    IN  /\ RuntimeArrives(c)
        /\ \/ ssMgr.rt[r] = "failed" /\ OpenThrows(c, ssSes, "failed")
           \/ ssMgr.rt[r] # "failed" /\ Refuses(r) /\ OpenThrows(c, ses, "refused")
           \/ /\ ssMgr.rt[r] # "failed" /\ ~Refuses(r)
              /\ ssSes' = ses /\ ssPc' = At(c, "init")
              /\ UNCHANGED <<ssImp, ssMgr>>
        /\ UNCHANGED ssReset

\* init answers; this.runtime is read again, and may be gone.
InitEnds(c) ==
    LET s == ssPc[c].s  r == ssPc[c].r
    IN  /\ ssPc[c].at = "init"
        /\ \/ OpenThrows(c, ssSes, "failed")
           \/ /\ ssSes[s].rt # 0
              /\ ssSes' = SsStatus(ssSes, s, "ready")
              /\ ssMgr' = IF Live(r) THEN [ssMgr EXCEPT !.rt[r] = "started"]
                          ELSE ssMgr
              /\ ssPc' = Settle(c, IF c \in SsSearches THEN "opened" ELSE "done")
              /\ ssImp' = ForgetOpening(c)
        /\ UNCHANGED ssReset

Closed(c) ==
    /\ ssPc[c].at = "closing"
    /\ ssPc' = Settle(c, "failed")
    /\ ssImp' = ForgetOpening(c)
    /\ UNCHANGED <<ssSes, ssMgr, ssReset>>

\* invokeRuntime on session s, or the refusal of one that is not open.
Request(c, s) ==
    /\ ssPc' = [ssPc EXCEPT ![c].s = s,
                   ![c].at = IF ssSes[s].status # "destroyed" /\ ssSes[s].rt # 0
                             THEN "request" ELSE "failed"]
    /\ ssSes' = IF ssSes[s].status = "destroyed" THEN ssSes
                ELSE SsStatus(ssSes, s, IF ssSes[s].rt # 0 THEN "loading" ELSE "error")
    /\ UNCHANGED <<ssImp, ssMgr, ssReset>>

RequestEnds(c) ==
    /\ ssPc[c].at = "request"
    /\ \E ok \in BOOLEAN :
          /\ ssPc' = At(c, IF ok THEN "done" ELSE "failed")
          /\ ssSes' = SsStatus(ssSes, ssPc[c].s, IF ok THEN "ready" ELSE "error")
    /\ UNCHANGED <<ssImp, ssMgr, ssReset>>

-----------------------------------------------------------------------------
(* DesktopSpiderImport. *)

\* A bug: the window's open is noted among those that a search joins.
MutUiOpen(c) ==
    /\ ssPc[c].at = "idle" /\ ssImp.current # 0
    /\ Open(c, ssImp.current, ssSes, [ssImp EXCEPT !.opening = c])
    /\ UNCHANGED ssReset

UiOpen(c) == /\ ssPc[c].at = "idle" /\ ssImp.current # 0
             /\ Open(c, ssImp.current, ssSes, ssImp)
             /\ UNCHANGED ssReset

UiUse(c) == ssPc[c].at = "idle" /\ ssImp.current # 0 /\ Request(c, ssImp.current)

NoSession == ssImp.entry = 0 \/ ssSes[ssImp.entry].status = "destroyed"

\* ensureSiteSession, which opens a session that is not ready.
EnsureSiteSession(c) ==
    LET s == IF NoSession THEN NewSession ELSE ssImp.entry
        imp == [ssImp EXCEPT !.entry = s]
        ses == IF NoSession THEN SsStatus(ssSes, s, "idle") ELSE ssSes
    IN  /\ ssPc[c].at = "idle"
        /\ NoSession /\ ssImp.config => NewSession <= MaxSpiderSessions
        /\ \/ /\ ~ssImp.config
              /\ ssPc' = At(c, "failed")
              /\ UNCHANGED <<ssImp, ssSes, ssMgr>>
           \/ /\ ssImp.config /\ ses[s].status = "ready"
              /\ ssPc' = [ssPc EXCEPT ![c].at = "opened", ![c].s = s]
              /\ UNCHANGED <<ssImp, ssSes, ssMgr>>
           \/ /\ ssImp.config /\ ses[s].status # "ready" /\ imp.opening # "none"
              /\ ssPc' = [ssPc EXCEPT ![c].at = "joined", ![c].s = s,
                                      ![c].on = imp.opening]
              /\ ssImp' = imp /\ ssSes' = ses
              /\ UNCHANGED ssMgr
           \/ /\ ssImp.config /\ ses[s].status # "ready" /\ imp.opening = "none"
              /\ Open(c, s, ses, [imp EXCEPT !.opening = c])
        /\ UNCHANGED ssReset

SearchOpened(c) == ssPc[c].at = "opened" /\ Request(c, ssPc[c].s)

\* createCurrentSession of the importer imp: the session of the map, or a new
\* one.
CreateCurrent(imp, ses) ==
    IF imp.entry # 0 /\ ses[imp.entry].status # "destroyed"
    THEN ssImp' = [imp EXCEPT !.current = imp.entry] /\ ssSes' = ses
    ELSE /\ NewSession <= MaxSpiderSessions
         /\ ssImp' = [imp EXCEPT !.entry = NewSession, !.current = NewSession]
         /\ ssSes' = SsStatus(ses, NewSession, "idle")

ResetAt(c, at) == [ssReset EXCEPT ![c].at = at]

\* selectSite of the site selected: what confirm does too.
SelectSite(c) ==
    /\ ssReset[c].at = "idle" /\ ssImp.config
    /\ CreateCurrent([ssImp EXCEPT !.status = "ready"], ssSes)
    /\ ssReset' = ResetAt(c, "done")
    /\ UNCHANGED <<ssMgr, ssPc>>

\* releaseSiteSession and releaseAllSessions, and destroy of the session, up to
\* their await.
ReleaseSessions(c, kind) ==
    LET s == ssImp.entry
        r == IF s = 0 \/ ssSes[s].status = "destroyed" THEN 0 ELSE ssSes[s].rt
    IN  /\ ssReset[c].at = "idle"
        /\ kind = "reinitialize" => ssImp.config
        /\ ssImp' = [ssImp EXCEPT !.entry = 0,
                        !.current = IF kind = "reinitialize" /\ @ # s THEN @ ELSE 0]
        /\ ssReset' = [ssReset EXCEPT ![c] =
                         [at |-> "releasing", s |-> s, current |-> ssImp.current,
                          wait |-> Live(r), kind |-> kind]]
        /\ ssMgr' = Destroyed(ssMgr, r)
        /\ ssSes' = IF s = 0 THEN ssSes
                    ELSE IF Live(r) THEN [ssSes EXCEPT ![s].rt = 0]
                    ELSE [ssSes EXCEPT ![s] = [status |-> "destroyed", rt |-> 0]]
        /\ UNCHANGED ssPc

\* The destroy of the session has ended.
Released(c) ==
    LET reset == ssReset[c]
        ses == IF reset.wait THEN SsStatus(ssSes, reset.s, "destroyed") ELSE ssSes
        again == ssImp.status = "ready" /\ ssImp.config
    IN  /\ reset.at = "releasing"
        /\ \/ reset.kind = "reinitialize" /\ again /\ CreateCurrent(ssImp, ses)
           \/ /\ reset.kind = "cancel"
              /\ ssImp' = [ssImp EXCEPT !.current = reset.current,
                                        !.status = "cancelled"]
              /\ ssSes' = ses
           \/ /\ reset.kind # "cancel" /\ (reset.kind = "reinitialize" => ~again)
              /\ ssSes' = ses /\ UNCHANGED ssImp
        /\ ssReset' = ResetAt(c, IF reset.kind = "import" THEN "manager" ELSE "done")
        /\ UNCHANGED <<ssMgr, ssPc>>

Making == {r \in RuntimeIds : ssMgr.rt[r] = "making"}

\* import goes on: manager.destroy waits for the runtimes that are made, and
\* destroys them.
ManagerDestroy(c) ==
    /\ ssReset[c].at = "manager" /\ ssMgr.cached \notin Making
    /\ ssMgr' = Destroyed(ssMgr, ssMgr.cached)
    /\ ssReset' = [ssReset EXCEPT ![c].at = "managed", ![c].wait = Live(ssMgr.cached)]
    /\ UNCHANGED <<ssImp, ssSes, ssPc>>

\* The manager and the configuration are dropped.
ManagerDestroyed(c) ==
    /\ ssReset[c].at = "managed"
    /\ ssMgr' = [ssMgr EXCEPT !.cached = 0]
    /\ ssImp' = [ssImp EXCEPT !.config = FALSE, !.opening = "none",
                              !.status = "loading"]
    /\ ssReset' = ResetAt(c, "loading")
    /\ UNCHANGED <<ssSes, ssPc>>

\* The configuration is read, or is not.
LoadEnds(c) ==
    /\ ssReset[c].at = "loading"
    /\ \/ CreateCurrent([ssImp EXCEPT !.config = TRUE, !.status = "ready"], ssSes)
       \/ ssImp' = [ssImp EXCEPT !.status = "error"] /\ UNCHANGED ssSes
    /\ ssReset' = ResetAt(c, "done")
    /\ UNCHANGED <<ssMgr, ssPc>>

-----------------------------------------------------------------------------
\* What is settled already and runs before the next event.
SsContinues ==
    \/ \E c \in SsCalls : RuntimeArrives(c) \/ ssPc[c].at = "opened"
    \/ \E c \in SsResets :
          \/ ssReset[c].at \in {"releasing", "managed"} /\ ~ssReset[c].wait
          \/ ssReset[c].at = "manager" /\ ssMgr.cached \notin Making

SsEvent ==
    \/ \E c \in SsUi : UiOpen(c) \/ UiUse(c)
    \/ \E c \in SsSearches : EnsureSiteSession(c)
    \/ \E c \in SsCalls : InitEnds(c) \/ Closed(c) \/ RequestEnds(c)
    \/ \E r \in RuntimeIds : MakeRuntime(r)
    \/ \E c \in SsResets : \/ SelectSite(c) \/ LoadEnds(c)
                           \/ \E kind \in {"reinitialize", "cancel", "import"} :
                                 ReleaseSessions(c, kind)

SsUnderWay ==
    \/ \E c \in SsCalls : ssPc[c].at \notin {"idle", "done", "failed", "refused"}
    \/ \E c \in SsResets : ssReset[c].at \notin {"idle", "done"}

SsBegins == \/ \E c \in SsCalls : ssPc[c].at = "idle" /\ ssPc'[c].at # "idle"
            \/ \E c \in SsResets : ssReset[c].at = "idle" /\ ssReset'[c].at # "idle"

TwoImports ==
    Cardinality({c \in SsResets : /\ ssReset[c].kind = "import"
                                  /\ ssReset[c].at # "done"}) > 1

SsNext ==
    /\ \/ \E c \in SsCalls : GotRuntime(c)
       \/ \E c \in SsSearches : SearchOpened(c)
       \/ \E c \in SsResets : Released(c) \/ ManagerDestroy(c) \/ ManagerDestroyed(c)
       \/ ~SsContinues /\ SsEvent
    /\ ssMet' = IF TwoImports' THEN "imports"
                ELSE IF ssMet = "none" /\ SsUnderWay /\ SsBegins THEN "calls"
                ELSE ssMet

SsSpec == SsInit /\ [][SsNext]_ssVars

-----------------------------------------------------------------------------
(* Properties. *)

SsTypeOK ==
    /\ ssImp \in [status : {"ready", "cancelled", "loading", "error"},
                  config : BOOLEAN, entry : 0..MaxSpiderSessions,
                  current : 0..MaxSpiderSessions, opening : SsSearches \cup {"none"}]
    /\ ssSes \in [SessionIds ->
                    [status : {"none", "idle", "initializing", "ready", "loading",
                               "error", "destroyed"}, rt : 0..MaxRuntimes]]
    /\ ssMgr \in [cached : 0..MaxRuntimes,
                  rt : [RuntimeIds -> {"none", "making", "failed", "fresh",
                                       "started", "destroyed"}]]
    /\ ssPc \in [SsCalls ->
                   [at : {"idle", "runtime", "init", "closing", "joined", "opened",
                          "request", "done", "failed", "refused"},
                    s : 0..MaxSpiderSessions, r : 0..MaxRuntimes,
                    on : SsSearches \cup {"none"}]]
    /\ ssReset \in [SsResets ->
                      [at : {"idle", "releasing", "manager", "managed", "loading",
                             "done"},
                       s : 0..MaxSpiderSessions, current : 0..MaxSpiderSessions,
                       wait : BOOLEAN,
                       kind : {"none", "reinitialize", "cancel", "import"}]]
    /\ ssMet \in {"none", "calls", "imports"}

\* However opens, searches and resets of a site meet, and whatever fails, its
\* code runs in at most one runtime (getRuntime, destroyClient, destroy).  Two
\* imports at a time drop the manager of each other with what it runs.
OneLiveRuntime ==
    ssMet # "imports" => Cardinality(Making \cup {r \in RuntimeIds : Live(r)}) <= 1

\* Where the calls came one after another, whatever failed, the session of the
\* map or the window that says ready has a runtime that works.  Calls that meet
\* can leave one that says ready and has none (open, invokeRuntime, destroy).
ReadyMeansUsable ==
    ssMet = "none" /\ ~SsUnderWay
    => \A s \in {ssImp.entry, ssImp.current} \ {0} :
          ssSes[s].status = "ready" => Live(ssSes[s].rt)

\* runtime-types.ts says of destroyRuntime that it invalidates the cached
\* runtime after a transient failure of the source, so that a later open can
\* succeed: no open that comes alone is handed a runtime that is destroyed.
FailedRuntimeIsInvalidated == ssMet = "none" => \A c \in SsCalls : ssPc[c].at # "refused"
=============================================================================
