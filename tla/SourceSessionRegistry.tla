----------------------- MODULE SourceSessionRegistry -----------------------
(***************************************************************************)
(* The registry that shares one engine client per source site between the  *)
(* desktop sessions (src/engine/source-session-registry.ts), together with *)
(* the leased client each session holds (RegistryLeasedClient in           *)
(* src/engine/engine-router.ts).                                           *)
(*                                                                         *)
(* JavaScript runs to completion between two awaits, so one action is one  *)
(* synchronous stretch: the code from a call, a timer or a settled promise *)
(* up to the next await.                                                   *)
(*                                                                         *)
(* A session acquires one lease in its life, so an InternalEntry object is *)
(* named by the session whose acquire call created it.                     *)
(***************************************************************************)
EXTENDS Integers, Sequences, FiniteSets

CONSTANTS
  Keys,            \* source/site/engine keys made by EngineRouter.key
  Sessions,        \* desktop sessions, each acquiring one lease
  NoEntry,         \* undefined, where an entry could be
  MaxActive,       \* maxActiveSessions
  IdleMs,          \* idleMs: only whether it is 0 matters
  ExplicitDestroy  \* whether the registry's destroy(key) is ever called

ASSUME KeysFinite == IsFiniteSet(Keys)
ASSUME SessionsFinite == IsFiniteSet(Sessions)
ASSUME NoEntryIsNoSession == NoEntry \notin Sessions
ASSUME MaxActivePositive == MaxActive \in Nat \ {0}
ASSUME IdleMsIsNat == IdleMs \in Nat
ASSUME ExplicitDestroyIsBoolean == ExplicitDestroy \in BOOLEAN

VARIABLES
  entries,      \* Map key -> entry object
  creating,     \* Map key -> how far createEntry is
  maker,        \* key -> the session whose acquire started the creation
  waiters,      \* keys whose createEntry is parked in acquireSlot
  woken,        \* parked keys whose promise is resolved, not yet resumed
  activeSlots,
  closed,
  obj,          \* the InternalEntry objects
  pc,           \* where each session's lease is
  lease,        \* the entry whose client the lease carries
  want,         \* the key each session asks for
  initOf,       \* the entry whose init the leased client awaits
  shutdown,     \* progress of destroyAll
  draining,     \* entries whose destruction destroyAll awaits
  dyingLease    \* history: a lease was left on a client being torn down

registryVars == <<entries, creating, maker, waiters, woken, activeSlots, closed>>
shutdownVars == <<shutdown, draining>>
vars == <<entries, creating, maker, waiters, woken, activeSlots, closed, obj,
          pc, lease, want, initOf, shutdown, draining, dyingLease>>

(***************************************************************************)
(* createEntry: "slot" is parked in (or woken from) acquireSlot, "factory" *)
(* owns a slot and awaits factory(), "closing" found the registry closed   *)
(* and awaits the destruction of the client it has just made.              *)
(***************************************************************************)
Phase == {"none", "slot", "factory", "closing"}

EntryRecord ==
  [refs: Nat, state: {"creating", "ready", "idle", "destroying"},
   destroying: BOOLEAN,   \* destroyPromise is set
   destroyed: BOOLEAN,    \* its client's destroy has settled at least once
   timer: BOOLEAN,        \* idleTimer is armed
   orphans: Nat,          \* armed timers idleTimer no longer refers to
   init: BOOLEAN]         \* initPromise is set

FreshEntry ==
  [refs |-> 0, state |-> "creating", destroying |-> FALSE,
   destroyed |-> FALSE, timer |-> FALSE, orphans |-> 0, init |-> FALSE]

(***************************************************************************)
(* A session: "awaiting" the creation, "resolved" when the creation has    *)
(* settled and the rest of acquire has not run, "held", "closing" when the *)
(* leased client's destroy runs, "released"; "failed" if acquire threw.    *)
(***************************************************************************)
PC == {"idle", "awaiting", "resolved", "held", "closing", "released", "failed"}

Init ==
  /\ entries = [k \in Keys |-> NoEntry]
  /\ creating = [k \in Keys |-> "none"]
  /\ maker = [k \in Keys |-> NoEntry]
  /\ waiters = <<>>
  /\ woken = <<>>
  /\ activeSlots = 0
  /\ closed = FALSE
  /\ obj = [s \in Sessions |-> FreshEntry]
  /\ pc = [s \in Sessions |-> "idle"]
  /\ lease = [s \in Sessions |-> NoEntry]
  /\ want \in [Sessions -> Keys]
  /\ initOf = [s \in Sessions |-> NoEntry]
  /\ shutdown = "no"
  /\ draining = {}
  /\ dyingLease = FALSE

(***************************************************************************)
(* The reactions of a settled promise run before any timer and before any  *)
(* reaction queued later: a session that the creation has just resolved    *)
(* completes acquire before another one gets as far as releasing.          *)
(***************************************************************************)
Resuming == \E s \in Sessions : pc[s] = "resolved"

-----------------------------------------------------------------------------
(* Slots.                                                                  *)

\* Mutant: the limit is not checked.
MutTakeSlotUnbounded(k) ==
  /\ activeSlots' = activeSlots + 1
  /\ creating' = [creating EXCEPT ![k] = "factory"]
  /\ waiters' = waiters

TakeSlot(k) ==
  /\ activeSlots < MaxActive
  /\ activeSlots' = activeSlots + 1
  /\ creating' = [creating EXCEPT ![k] = "factory"]
  /\ waiters' = waiters

Park(k) ==
  /\ activeSlots >= MaxActive
  /\ waiters' = Append(waiters, k)
  /\ creating' = [creating EXCEPT ![k] = "slot"]
  /\ activeSlots' = activeSlots

\* Mutant: a slot is given back and nobody is told.
MutReleaseSlotWithoutWake ==
  /\ activeSlots' = IF activeSlots = 0 THEN 0 ELSE activeSlots - 1
  /\ UNCHANGED <<woken, waiters>>

\* activeSlots never exceeds MaxActive, so a slot is free after the
\* decrement and the loop of releaseSlot resolves every parked promise.
ReleaseSlot ==
  /\ activeSlots' = IF activeSlots = 0 THEN 0 ELSE activeSlots - 1
  /\ woken' = woken \o waiters
  /\ waiters' = <<>>
-----------------------------------------------------------------------------
(* acquire.                                                                *)

\* Mutant: the idle timer is left armed when the entry is leased again.
MutLeasedKeepsTimer(o) == [o EXCEPT !.refs = @ + 1, !.state = "ready"]

\* acquire's tail: the referenced timer is cleared and the lease counted.
Leased(o) == [o EXCEPT !.timer = FALSE, !.refs = @ + 1, !.state = "ready"]

AcquireClosed(s) ==
  /\ pc[s] = "idle"
  /\ closed
  /\ pc' = [pc EXCEPT ![s] = "failed"]
  /\ UNCHANGED <<registryVars, obj, lease, want, initOf, shutdownVars, dyingLease>>

\* Nothing asks whether the entry found in the map is being destroyed.
AcquireExisting(s) ==
  LET e == entries[want[s]] IN
  /\ pc[s] = "idle"
  /\ ~closed
  /\ e # NoEntry
  /\ obj' = [obj EXCEPT ![e] = Leased(@)]
  /\ lease' = [lease EXCEPT ![s] = e]
  /\ pc' = [pc EXCEPT ![s] = "held"]
  /\ dyingLease' = (dyingLease \/ obj[e].destroying)
  /\ UNCHANGED <<registryVars, want, initOf, shutdownVars>>

AcquireJoin(s) ==
  /\ pc[s] = "idle"
  /\ ~closed
  /\ entries[want[s]] = NoEntry
  /\ creating[want[s]] # "none"
  /\ pc' = [pc EXCEPT ![s] = "awaiting"]
  /\ UNCHANGED <<registryVars, obj, lease, want, initOf, shutdownVars, dyingLease>>

AcquireCreate(s) ==
  LET k == want[s] IN
  /\ pc[s] = "idle"
  /\ ~closed
  /\ entries[k] = NoEntry
  /\ creating[k] = "none"
  /\ TakeSlot(k) \/ Park(k)
  /\ maker' = [maker EXCEPT ![k] = s]
  /\ pc' = [pc EXCEPT ![s] = "awaiting"]
  /\ UNCHANGED <<entries, woken, closed, obj, lease, want, initOf, shutdownVars,
                 dyingLease>>

\* The creation of k is over, and with it every acquire that awaits it:
\* they all reject, or they all resolve to the entry e.
Reject(k) ==
  /\ creating' = [creating EXCEPT ![k] = "none"]
  /\ pc' = [s \in Sessions |->
              IF pc[s] = "awaiting" /\ want[s] = k THEN "failed" ELSE pc[s]]
  /\ lease' = lease

\* Mutant: the key stays in the creating map.
MutResolveKeepsCreating(k, e) ==
  /\ creating' = creating
  /\ pc' = [s \in Sessions |->
              IF pc[s] = "awaiting" /\ want[s] = k THEN "resolved" ELSE pc[s]]
  /\ lease' = [s \in Sessions |->
              IF pc[s] = "awaiting" /\ want[s] = k THEN e ELSE lease[s]]

Resolve(k, e) ==
  /\ creating' = [creating EXCEPT ![k] = "none"]
  /\ pc' = [s \in Sessions |->
              IF pc[s] = "awaiting" /\ want[s] = k THEN "resolved" ELSE pc[s]]
  /\ lease' = [s \in Sessions |->
              IF pc[s] = "awaiting" /\ want[s] = k THEN e ELSE lease[s]]

\* A woken createEntry runs acquireSlot again.
WokenRetries ==
  /\ woken # <<>>
  /\ woken' = Tail(woken)
  /\ \/ /\ ~closed
        /\ TakeSlot(Head(woken)) \/ Park(Head(woken))
        /\ UNCHANGED <<pc, lease>>
     \/ /\ closed
        /\ Reject(Head(woken))
        /\ UNCHANGED <<waiters, activeSlots>>
  /\ UNCHANGED <<entries, maker, closed, obj, want, initOf, shutdownVars, dyingLease>>

Made(o) == [o EXCEPT !.state = "ready"]

\* Mutant: a factory that throws keeps its slot.
MutFactoryFailsKeepsSlot(k) ==
  /\ creating[k] = "factory"
  /\ Reject(k)
  /\ UNCHANGED <<waiters, woken, activeSlots>>
  /\ UNCHANGED <<entries, maker, closed, obj, want, initOf, shutdownVars, dyingLease>>

FactoryFails(k) ==
  /\ creating[k] = "factory"
  /\ Reject(k)
  /\ ReleaseSlot
  /\ UNCHANGED <<entries, maker, closed, obj, want, initOf, shutdownVars, dyingLease>>

\* Mutant: closed is not looked at again after the factory.
MutFactoryDoneIgnoresClosed(k) ==
  LET e == maker[k] IN
  /\ creating[k] = "factory"
  /\ entries' = [entries EXCEPT ![k] = e]
  /\ obj' = [obj EXCEPT ![e] = Made(@)]
  /\ Resolve(k, e)
  /\ UNCHANGED <<maker, waiters, woken, activeSlots, closed, want, initOf,
                 shutdownVars, dyingLease>>

FactoryDone(k) ==
  LET e == maker[k] IN
  /\ creating[k] = "factory"
  /\ ~closed
  /\ entries' = [entries EXCEPT ![k] = e]
  /\ obj' = [obj EXCEPT ![e] = Made(@)]
  /\ Resolve(k, e)
  /\ UNCHANGED <<maker, waiters, woken, activeSlots, closed, want, initOf,
                 shutdownVars, dyingLease>>

FactoryDoneClosed(k) ==
  /\ creating[k] = "factory"
  /\ closed
  /\ creating' = [creating EXCEPT ![k] = "closing"]
  /\ UNCHANGED <<entries, maker, waiters, woken, activeSlots, closed, obj, pc,
                 lease, want, initOf, shutdownVars, dyingLease>>

\* The client made for a closed registry is destroyed, or that fails.
ClosedClientDestroyed(k) ==
  /\ creating[k] = "closing"
  /\ Reject(k)
  /\ ReleaseSlot
  /\ UNCHANGED <<entries, maker, closed, obj, want, initOf, shutdownVars, dyingLease>>

AcquireResumes(s) ==
  LET e == lease[s] IN
  /\ pc[s] = "resolved"
  /\ obj' = [obj EXCEPT ![e] = Leased(@)]
  /\ pc' = [pc EXCEPT ![s] = "held"]
  /\ dyingLease' = (dyingLease \/ obj[e].destroying)
  /\ UNCHANGED <<registryVars, lease, want, initOf, shutdownVars>>
-----------------------------------------------------------------------------
(* init, shared through the entry that the key names at that moment.       *)
(* SOURCE_SESSION_NOT_FOUND, when there is none, changes nothing.          *)

InitPending(o) == [o EXCEPT !.init = TRUE]
InitOver(o) == [o EXCEPT !.init = FALSE]

InitStarts(s) ==
  LET e == entries[want[s]] IN
  /\ pc[s] = "held"
  /\ initOf[s] = NoEntry
  /\ e # NoEntry
  /\ obj' = [obj EXCEPT ![e] = InitPending(@)]
  /\ initOf' = [initOf EXCEPT ![s] = e]
  /\ UNCHANGED <<registryVars, pc, lease, want, shutdownVars, dyingLease>>

InitSettles(e) ==
  /\ obj[e].init
  /\ obj' = [obj EXCEPT ![e] = InitOver(@)]
  /\ initOf' = [s \in Sessions |-> IF initOf[s] = e THEN NoEntry ELSE initOf[s]]
  /\ UNCHANGED <<registryVars, pc, lease, want, shutdownVars, dyingLease>>
-----------------------------------------------------------------------------
(* release and destroy.                                                    *)

DestroyEntry(o) ==
  IF o.destroying THEN o
  ELSE [o EXCEPT !.timer = FALSE, !.state = "destroying", !.destroying = TRUE]

\* destroyEntry after the referenced timer fired or was cleared, and after
\* one that idleTimer no longer refers to fired.
DestroyUntimed(o) == DestroyEntry([o EXCEPT !.timer = FALSE])
DestroyByOrphan(o) == DestroyEntry([o EXCEPT !.orphans = @ - 1])

DestroyFinished(o) ==
  [o EXCEPT !.state = "destroying", !.destroying = FALSE, !.destroyed = TRUE]

Unreferenced(o) == [o EXCEPT !.refs = IF @ = 0 THEN 0 ELSE @ - 1]

GoIdle(o) ==
  [o EXCEPT !.state = "idle", !.timer = TRUE,
            !.orphans = IF o.timer THEN @ + 1 ELSE @]

ReleaseEntry(o) ==
  LET r == Unreferenced(o) IN
  IF r.refs > 0 \/ r.state = "destroying" THEN r
  ELSE IF IdleMs = 0 THEN DestroyEntry(r)
  ELSE GoIdle(r)

\* RegistryLeasedClient.destroy, up to its wait for a pending init.
LeasedDestroy(s) ==
  /\ pc[s] = "held"
  /\ pc' = [pc EXCEPT ![s] = "closing"]
  /\ UNCHANGED <<registryVars, obj, lease, want, initOf, shutdownVars, dyingLease>>

\* Mutant: the pending init is not waited for.
MutReleaseDuringInit(s) ==
  LET e == entries[want[s]] IN
  /\ pc[s] = "closing"
  /\ ~Resuming
  /\ pc' = [pc EXCEPT ![s] = "released"]
  /\ obj' = IF e = NoEntry THEN obj ELSE [obj EXCEPT ![e] = ReleaseEntry(@)]
  /\ UNCHANGED <<registryVars, lease, want, initOf, shutdownVars, dyingLease>>

\* The rest of it: release(key), on whatever entry the key names by now.
Release(s) ==
  LET e == entries[want[s]] IN
  /\ pc[s] = "closing"
  /\ initOf[s] = NoEntry
  /\ ~Resuming
  /\ pc' = [pc EXCEPT ![s] = "released"]
  /\ obj' = IF e = NoEntry THEN obj ELSE [obj EXCEPT ![e] = ReleaseEntry(@)]
  /\ UNCHANGED <<registryVars, lease, want, initOf, shutdownVars, dyingLease>>

IdleTimerFires(e) ==
  /\ obj[e].timer
  /\ ~Resuming
  /\ obj' = [obj EXCEPT ![e] = DestroyUntimed(@)]
  /\ UNCHANGED <<registryVars, pc, lease, want, initOf, shutdownVars, dyingLease>>

OrphanTimerFires(e) ==
  /\ obj[e].orphans > 0
  /\ ~Resuming
  /\ obj' = [obj EXCEPT ![e] = DestroyByOrphan(@)]
  /\ UNCHANGED <<registryVars, pc, lease, want, initOf, shutdownVars, dyingLease>>

\* Mutant: then in place of finally, so a client whose destroy fails leaves
\* its entry in the map.
MutDestroySettlesThen(e, ok) ==
  LET k == want[e] IN
  /\ obj[e].destroying
  /\ obj' = [obj EXCEPT ![e] = DestroyFinished(@)]
  /\ \/ /\ ok
        /\ entries' = [entries EXCEPT ![k] = IF @ = e THEN NoEntry ELSE @]
        /\ ReleaseSlot
        /\ draining' = draining \ {e}
     \/ ~ok /\ UNCHANGED <<entries, activeSlots, waiters, woken, draining>>
  /\ UNCHANGED <<creating, maker, closed, pc, lease, want, initOf, shutdown,
                 dyingLease>>

\* The finally of destroyEntry, whether the client's destroy succeeded (ok)
\* or not; destroyAll's Promise.all rejects at the first failure.
DestroySettles(e, ok) ==
  LET k == want[e] IN
  /\ obj[e].destroying
  /\ entries' = [entries EXCEPT ![k] = IF @ = e THEN NoEntry ELSE @]
  /\ obj' = [obj EXCEPT ![e] = DestroyFinished(@)]
  /\ ReleaseSlot
  /\ draining' = draining \ {e}
  /\ shutdown' = IF ~ok /\ e \in draining THEN "failed" ELSE shutdown
  /\ UNCHANGED <<creating, maker, closed, pc, lease, want, initOf, dyingLease>>

\* destroy(key) drops the references of the leases that are still out.
DestroyUncounted(o) == DestroyEntry([o EXCEPT !.refs = 0])

\* Sessions whose lease is on e, or about to be.
LeaseHolders(e) ==
  {s \in Sessions : pc[s] \in {"resolved", "held", "closing"} /\ lease[s] = e}

DestroyKey(k) ==
  LET e == entries[k] IN
  /\ ExplicitDestroy
  /\ e # NoEntry
  /\ obj' = [obj EXCEPT ![e] = DestroyUncounted(@)]
  /\ dyingLease' = (dyingLease \/ LeaseHolders(e) # {})
  /\ UNCHANGED <<registryVars, pc, lease, want, initOf, shutdownVars>>

\* A timer is cleared before destroyEntry looks at destroyPromise.
DestroyAll ==
  LET live == {e \in Sessions : entries[want[e]] = e} IN
  /\ ~closed
  /\ closed' = TRUE
  /\ woken' = woken \o waiters
  /\ waiters' = <<>>
  /\ obj' = [e \in Sessions |->
               IF e \in live THEN DestroyUntimed(obj[e])
               ELSE obj[e]]
  /\ draining' = live
  /\ shutdown' = "destroying"
  /\ dyingLease' = (dyingLease \/ Resuming)
  /\ UNCHANGED <<entries, creating, maker, activeSlots, pc, lease, want, initOf>>

DestroyAllEnds ==
  /\ shutdown = "destroying"
  /\ draining = {}
  /\ \A k \in Keys : creating[k] = "none"
  /\ shutdown' = "done"
  /\ entries' = [k \in Keys |-> NoEntry]
  /\ UNCHANGED <<creating, maker, waiters, woken, activeSlots, closed, obj, pc,
                 lease, want, initOf, draining, dyingLease>>
-----------------------------------------------------------------------------
\* Steps of the users of the registry, and steps the registry, the clients
\* it calls and its timers take by themselves.
UserStep(s) ==
  \/ AcquireClosed(s) \/ AcquireExisting(s) \/ AcquireJoin(s) \/ AcquireCreate(s)
  \/ InitStarts(s) \/ LeasedDestroy(s)

CreationSettles(k) ==
  \/ FactoryDone(k) \/ FactoryFails(k) \/ FactoryDoneClosed(k)
  \/ ClosedClientDestroyed(k)

DestructionSettles(e) == \E ok \in BOOLEAN : DestroySettles(e, ok)

Next ==
  \/ \E s \in Sessions : UserStep(s)
  \/ \E s \in Sessions : AcquireResumes(s) \/ Release(s)
  \/ \E e \in Sessions :
       \/ InitSettles(e) \/ IdleTimerFires(e) \/ OrphanTimerFires(e)
       \/ DestructionSettles(e)
  \/ \E k \in Keys : CreationSettles(k) \/ DestroyKey(k)
  \/ WokenRetries
  \/ DestroyAll
  \/ DestroyAllEnds

\* Promise reactions and timers run, and every client call settles: each
\* engine client bounds its requests with a timeout.
Fairness ==
  /\ WF_vars(WokenRetries)
  /\ WF_vars(DestroyAllEnds)
  /\ \A k \in Keys : WF_vars(CreationSettles(k))
  /\ \A s \in Sessions :
       /\ WF_vars(AcquireResumes(s))
       /\ WF_vars(Release(s))
       /\ WF_vars(InitSettles(s))
       /\ WF_vars(IdleTimerFires(s))
       /\ WF_vars(DestructionSettles(s))

Spec == Init /\ [][Next]_vars
FairSpec == Spec /\ Fairness
-----------------------------------------------------------------------------
TypeOK ==
  /\ entries \in [Keys -> Sessions \cup {NoEntry}]
  /\ creating \in [Keys -> Phase]
  /\ maker \in [Keys -> Sessions \cup {NoEntry}]
  /\ waiters \in Seq(Keys)
  /\ woken \in Seq(Keys)
  /\ activeSlots \in 0..MaxActive
  /\ closed \in BOOLEAN
  /\ obj \in [Sessions -> EntryRecord]
  /\ pc \in [Sessions -> PC]
  /\ lease \in [Sessions -> Sessions \cup {NoEntry}]
  /\ want \in [Sessions -> Keys]
  /\ initOf \in [Sessions -> Sessions \cup {NoEntry}]
  /\ shutdown \in {"no", "destroying", "done", "failed"}
  /\ draining \in SUBSET Sessions
  /\ dyingLease \in BOOLEAN

\* Keys that have been given a slot and have not given it back.
Holders ==
  {k \in Keys : creating[k] \in {"factory", "closing"} \/ entries[k] # NoEntry}

\* Leases the entry's reference count stands for.
Counted(e) == {s \in Sessions : pc[s] \in {"held", "closing"} /\ lease[s] = e}

\* Every creation in flight and every stored entry owns exactly one slot, so
\* activeSlots cannot drift and acquireSlot enforces maxActiveSessions. It
\* holds whatever is called when idleMs is 0, and while no session has been
\* handed a client in destruction otherwise.
SlotAccounting ==
  IdleMs = 0 \/ ~dyingLease => activeSlots = Cardinality(Holders)

\* acquire never starts a second engine client for a key that has one or is
\* getting one (the creating map deduplicates).
SingleCreation ==
  \A k \in Keys : creating[k] # "none" => entries[k] = NoEntry

\* As long as the registry is open and nobody was handed a dying client, the
\* lease of a session is on the live entry of its key, that entry is neither
\* destroyed nor about to be, and it counts exactly its leases.
LeaseSound ==
  ~dyingLease /\ ~closed =>
    \A e \in Sessions : LeaseHolders(e) # {} =>
      /\ entries[want[e]] = e
      /\ ~obj[e].destroying /\ ~obj[e].destroyed
      /\ ~obj[e].timer /\ obj[e].orphans = 0
      /\ obj[e].refs = Cardinality(Counted(e))

\* The client of an entry is not torn down under a pending init: the leased
\* client's destroy waits for its init before it releases.
InitBeforeDestroy ==
  ~dyingLease /\ ~closed =>
    \A e \in Sessions : obj[e].init => ~obj[e].destroying /\ ~obj[e].destroyed

\* No creation stays parked while a slot is free (releaseSlot against the
\* check and the push of acquireSlot).
NoLostWakeup == waiters # <<>> => activeSlots = MaxActive

\* When destroyAll has resolved, nothing is left alive and nothing can start:
\* not even a client whose factory was running when the registry closed.
CloseCleansUp ==
  shutdown = "done" =>
    /\ Holders = {} /\ waiters = <<>> /\ woken = <<>>
    /\ \A s \in Sessions : pc[s] # "awaiting"
    /\ ~dyingLease => \A e \in Sessions : ~obj[e].destroying

\* If sessions give their leases back, every acquire settles, also the ones
\* that found all slots taken by idle entries.
AcquireSettles ==
  (\A s \in Sessions : pc[s] = "held" ~> pc[s] # "held")
    => \A s \in Sessions : pc[s] = "awaiting" ~> pc[s] # "awaiting"

\* Once destroyAll has been called it settles, and so does every acquire.
ShutdownCompletes ==
  closed ~> /\ shutdown \in {"done", "failed"}
            /\ \A s \in Sessions : pc[s] \notin {"awaiting", "resolved"}

\* The concurrency limit of the registry, whoever is handed what.
ActiveLimit == Cardinality(Holders) <= MaxActive
=============================================================================
