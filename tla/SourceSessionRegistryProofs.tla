-------------------- MODULE SourceSessionRegistryProofs --------------------
(***************************************************************************)
(* Proofs that the safety properties of SourceSessionRegistry hold for     *)
(* every set of keys and sessions, every limit and every idle time.        *)
(***************************************************************************)
EXTENDS SourceSessionRegistry, FiniteSetTheorems, TLAPS

-----------------------------------------------------------------------------
(* The inductive invariant.                                                *)

Leasing(s) == pc[s] \in {"resolved", "held", "closing"}

\* A creation in flight is the only trace of its key, and its entry object is
\* untouched; what the map or a lease refers to has been made.
CreationWired ==
  \A k \in Keys : creating[k] # "none" =>
    /\ entries[k] = NoEntry
    /\ maker[k] \in Sessions
    /\ want[maker[k]] = k
    /\ pc[maker[k]] = "awaiting"
    /\ obj[maker[k]] = FreshEntry

EntryWired ==
  \A k \in Keys : entries[k] # NoEntry =>
    want[entries[k]] = k /\ obj[entries[k]].state # "creating"

SessionWired ==
  \A s \in Sessions :
    /\ pc[s] = "idle" => obj[s] = FreshEntry
    /\ pc[s] = "awaiting" => creating[want[s]] # "none"
    /\ Leasing(s) =>
         /\ lease[s] \in Sessions
         /\ want[lease[s]] = want[s]
         /\ obj[lease[s]].state # "creating"
    /\ initOf[s] # NoEntry => pc[s] \in {"held", "closing"}

InitWired == \A e \in Sessions : obj[e].init => \E s \in Sessions : initOf[s] = e

\* destroyAll waits for all that is in the map, and closing is final.
ShutdownWired ==
  /\ shutdown # "no" \/ draining # {} => closed
  /\ closed => \A k \in Keys : entries[k] # NoEntry => entries[k] \in draining
  /\ shutdown = "done" =>
       \A k \in Keys : creating[k] = "none" /\ entries[k] = NoEntry

Wired == CreationWired /\ EntryWired /\ SessionWired /\ InitWired /\ ShutdownWired

\* Each parked creation has one place in one of the two queues.
Queued ==
  /\ \A i \in 1..Len(waiters) : creating[waiters[i]] = "slot"
  /\ \A i \in 1..Len(woken) : creating[woken[i]] = "slot"
  /\ \A i, j \in 1..Len(waiters) : waiters[i] = waiters[j] => i = j
  /\ \A i, j \in 1..Len(woken) : woken[i] = woken[j] => i = j
  /\ \A i \in 1..Len(waiters), j \in 1..Len(woken) : waiters[i] # woken[j]

\* Open, and nobody was handed a dying client: the leases of an entry keep
\* it alive, its count is exact and a timer means that there are none.
OpenEntry(e) ==
  /\ LeaseHolders(e) # {} =>
       /\ entries[want[e]] = e
       /\ ~obj[e].destroying /\ ~obj[e].destroyed /\ ~obj[e].timer
  /\ obj[e].refs = Cardinality(Counted(e))
  /\ obj[e].orphans = 0
  /\ obj[e].timer => entries[want[e]] = e /\ ~obj[e].destroying
  /\ obj[e].destroying => entries[want[e]] = e /\ obj[e].state = "destroying"
  /\ entries[want[e]] = e => ~obj[e].destroyed
  /\ initOf[e] # NoEntry => initOf[e] = lease[e]

OpenDiscipline == ~dyingLease /\ ~closed => \A e \in Sessions : OpenEntry(e)

\* Closed: all that is left in the map is being destroyed, without timers.
ClosedDiscipline ==
  ~dyingLease /\ closed =>
    /\ ~Resuming
    /\ \A e \in Sessions :
         /\ ~obj[e].timer /\ obj[e].orphans = 0
         /\ entries[want[e]] = e => obj[e].destroying
         /\ obj[e].destroying => entries[want[e]] = e /\ obj[e].state = "destroying"

\* With idleMs = 0 there are no timers, and only the map's entries die.
NoIdleDiscipline ==
  IdleMs = 0 =>
    \A e \in Sessions :
      /\ ~obj[e].timer /\ obj[e].orphans = 0
      /\ obj[e].destroying => entries[want[e]] = e

IInv ==
  /\ TypeOK /\ Wired /\ Queued /\ NoLostWakeup
  /\ OpenDiscipline /\ ClosedDiscipline /\ NoIdleDiscipline /\ SlotAccounting
-----------------------------------------------------------------------------
(* What the operations on one entry object do to its fields.               *)

\* The fields of an entry object that has not been made.
LEMMA FreshFacts ==
  /\ FreshEntry \in EntryRecord
  /\ FreshEntry.refs = 0 /\ FreshEntry.state = "creating"
  /\ FreshEntry.destroying = FALSE /\ FreshEntry.destroyed = FALSE
  /\ FreshEntry.timer = FALSE /\ FreshEntry.orphans = 0 /\ FreshEntry.init = FALSE
  BY DEF FreshEntry, EntryRecord

\* The fields of an entry object after Leased.
LEMMA LeasedFacts ==
  ASSUME NEW o \in EntryRecord
  PROVE  /\ Leased(o) \in EntryRecord
         /\ Leased(o).refs = o.refs + 1 /\ Leased(o).state = "ready"
         /\ Leased(o).timer = FALSE /\ Leased(o).orphans = o.orphans
         /\ Leased(o).destroying = o.destroying
         /\ Leased(o).destroyed = o.destroyed /\ Leased(o).init = o.init
  <1>1. PICK n \in Nat : n = o.refs + 1
    BY DEF EntryRecord
  <1>2. Leased(o) = [o EXCEPT !.timer = FALSE, !.refs = n, !.state = "ready"]
    BY <1>1 DEF Leased
  <1> QED BY <1>1, <1>2 DEF EntryRecord

\* The fields of an entry object after Made.
LEMMA MadeFacts ==
  ASSUME NEW o \in EntryRecord
  PROVE  /\ Made(o) \in EntryRecord
         /\ Made(o).refs = o.refs /\ Made(o).state = "ready"
         /\ Made(o).timer = o.timer /\ Made(o).orphans = o.orphans
         /\ Made(o).destroying = o.destroying
         /\ Made(o).destroyed = o.destroyed /\ Made(o).init = o.init
  BY DEF Made, EntryRecord

\* The fields of an entry object after InitPending.
LEMMA InitPendingFacts ==
  ASSUME NEW o \in EntryRecord
  PROVE  /\ InitPending(o) \in EntryRecord
         /\ InitPending(o).refs = o.refs /\ InitPending(o).state = o.state
         /\ InitPending(o).timer = o.timer
         /\ InitPending(o).orphans = o.orphans
         /\ InitPending(o).destroying = o.destroying
         /\ InitPending(o).destroyed = o.destroyed
         /\ InitPending(o).init = TRUE
  BY DEF InitPending, EntryRecord

\* The fields of an entry object after InitOver.
LEMMA InitOverFacts ==
  ASSUME NEW o \in EntryRecord
  PROVE  /\ InitOver(o) \in EntryRecord
         /\ InitOver(o).refs = o.refs /\ InitOver(o).state = o.state
         /\ InitOver(o).timer = o.timer
         /\ InitOver(o).orphans = o.orphans
         /\ InitOver(o).destroying = o.destroying
         /\ InitOver(o).destroyed = o.destroyed
         /\ InitOver(o).init = FALSE
  BY DEF InitOver, EntryRecord

\* The fields of an entry object after DestroyUntimed.
LEMMA DestroyUntimedFacts ==
  ASSUME NEW o \in EntryRecord
  PROVE  LET d == DestroyUntimed(o) IN
         /\ d \in EntryRecord
         /\ d.refs = o.refs /\ d.orphans = o.orphans
         /\ d.destroyed = o.destroyed /\ d.init = o.init
         /\ d.destroying = TRUE /\ d.timer = FALSE
         /\ o.destroying => d.state = o.state
         /\ ~o.destroying => d.state = "destroying"
  BY DEF DestroyUntimed, DestroyEntry, EntryRecord

\* The fields of an entry object after DestroyByOrphan.
LEMMA DestroyByOrphanFacts ==
  ASSUME NEW o \in EntryRecord, o.orphans > 0
  PROVE  LET d == DestroyByOrphan(o) IN
         /\ d \in EntryRecord
         /\ d.refs = o.refs /\ d.orphans = o.orphans - 1
         /\ d.destroyed = o.destroyed /\ d.init = o.init
         /\ d.destroying = TRUE
         /\ o.destroying => d.state = o.state /\ d.timer = o.timer
         /\ ~o.destroying => d.state = "destroying" /\ d.timer = FALSE
  <1>1. PICK n \in Nat : n = o.orphans - 1
    BY DEF EntryRecord
  <1>2. DestroyByOrphan(o) = DestroyEntry([o EXCEPT !.orphans = n])
    BY <1>1 DEF DestroyByOrphan
  <1> QED BY <1>1, <1>2 DEF DestroyEntry, EntryRecord

\* The fields of an entry object after DestroyUncounted.
LEMMA DestroyUncountedFacts ==
  ASSUME NEW o \in EntryRecord
  PROVE  LET d == DestroyUncounted(o) IN
         /\ d \in EntryRecord
         /\ d.refs = 0 /\ d.orphans = o.orphans
         /\ d.destroyed = o.destroyed /\ d.init = o.init
         /\ d.destroying = TRUE
         /\ o.destroying => d.state = o.state /\ d.timer = o.timer
         /\ ~o.destroying => d.state = "destroying" /\ d.timer = FALSE
  BY DEF DestroyUncounted, DestroyEntry, EntryRecord

\* The fields of an entry object after DestroyFinished.
LEMMA DestroyFinishedFacts ==
  ASSUME NEW o \in EntryRecord
  PROVE  LET d == DestroyFinished(o) IN
         /\ d \in EntryRecord
         /\ d.refs = o.refs /\ d.orphans = o.orphans /\ d.timer = o.timer
         /\ d.destroyed = TRUE /\ d.init = o.init
         /\ d.destroying = FALSE /\ d.state = "destroying"
  BY DEF DestroyFinished, EntryRecord

\* release: a counted entry only loses a reference; the last reference makes
\* it idle or, without an idle time, starts its destruction.
LEMMA ReleaseFacts ==
  ASSUME NEW o \in EntryRecord
  PROVE  LET r == ReleaseEntry(o) IN
         /\ r \in EntryRecord
         /\ o.refs = 0 => r.refs = 0
         /\ o.refs # 0 => r.refs = o.refs - 1
         /\ r.destroyed = o.destroyed /\ r.init = o.init
         /\ ~o.timer \/ IdleMs = 0 => r.orphans = o.orphans
         /\ o.destroying => r.destroying
         /\ r.state # "creating" \/ r.state = o.state
         /\ r.refs # 0 \/ o.state = "destroying" =>
              /\ r.state = o.state /\ r.timer = o.timer
              /\ r.destroying = o.destroying /\ r.orphans = o.orphans
         /\ IdleMs = 0 /\ ~o.timer => r.timer = FALSE
         /\ IdleMs = 0 /\ ~o.destroying /\ r.destroying => r.state = "destroying"
         /\ IdleMs # 0 => r.destroying = o.destroying
         /\ r.timer /\ ~o.timer => r.refs = 0
  <1>1. PICK n \in Nat : n = IF o.refs = 0 THEN 0 ELSE o.refs - 1
    BY DEF EntryRecord
  <1> DEFINE u == [o EXCEPT !.refs = n]
  <1>2. /\ u = Unreferenced(o)
        /\ u \in EntryRecord /\ u.refs = n /\ u.timer = o.timer /\ u.destroying = o.destroying
        /\ u.orphans = o.orphans /\ u.destroyed = o.destroyed
        /\ u.init = o.init /\ u.state = o.state
    BY <1>1 DEF Unreferenced, EntryRecord
  <1> HIDE DEF u
  <1>3. CASE n > 0 \/ o.state = "destroying"
    BY <1>1, <1>2, <1>3 DEF ReleaseEntry
  <1>4. CASE n = 0 /\ o.state # "destroying" /\ IdleMs = 0
    BY <1>1, <1>2, <1>4 DEF ReleaseEntry, DestroyEntry, EntryRecord
  <1>5. CASE n = 0 /\ o.state # "destroying" /\ IdleMs # 0
    <2>1. PICK m \in Nat : m = IF u.timer THEN u.orphans + 1 ELSE u.orphans
      BY <1>2 DEF EntryRecord
    <2>2. ReleaseEntry(o) = [u EXCEPT !.state = "idle", !.timer = TRUE, !.orphans = m]
      BY <1>2, <1>5, <2>1 DEF ReleaseEntry, GoIdle
    <2> DEFINE r == ReleaseEntry(o)
    <2>3. /\ r \in EntryRecord /\ r.refs = n /\ r.state = "idle" /\ r.timer = TRUE
          /\ r.destroying = o.destroying /\ r.destroyed = o.destroyed
          /\ r.init = o.init /\ r.orphans = m
      BY <1>2, <2>1, <2>2 DEF EntryRecord
    <2>4. ~o.timer => m = o.orphans
      BY <1>2, <2>1
    <2> HIDE DEF r
    <2>5. n = 0
      BY <1>5
    <2>6. QED
      BY <1>1, <1>5, <2>3, <2>4, <2>5 DEF r
  <1>6. QED
    <2>1. n > 0 \/ n = 0
      OBVIOUS
    <2>2. QED
      BY <1>3, <1>4, <1>5, <2>1

-----------------------------------------------------------------------------
(* Preservation, one lemma per part of the invariant.                      *)

USE DEF registryVars, shutdownVars

-----------------------------------------------------------------------------
(* The same, for a step that applies such an operation to the entry e.     *)

OthersKept(e) == \A x \in Sessions : x # e => obj'[x] = obj[x]

LeasedAt(e) ==
  /\ OthersKept(e)
  /\ obj'[e].refs = obj[e].refs + 1 /\ obj'[e].state = "ready"
  /\ obj'[e].timer = FALSE /\ obj'[e].orphans = obj[e].orphans
  /\ obj'[e].destroying = obj[e].destroying
  /\ obj'[e].destroyed = obj[e].destroyed /\ obj'[e].init = obj[e].init

\* The entries after a step that applies Leased to e.
LEMMA LeasedStep ==
  ASSUME TypeOK, NEW e \in Sessions,
         obj' = [obj EXCEPT ![e] = Leased(obj[e])]
  PROVE  LeasedAt(e)
  <1>1. obj[e] \in EntryRecord /\ obj'[e] = Leased(obj[e]) /\ OthersKept(e)
    BY DEF TypeOK, OthersKept
  <1>2. QED
    BY <1>1, LeasedFacts DEF LeasedAt

MadeAt(e) ==
  /\ OthersKept(e)
  /\ obj'[e].refs = obj[e].refs /\ obj'[e].state = "ready"
  /\ obj'[e].timer = obj[e].timer /\ obj'[e].orphans = obj[e].orphans
  /\ obj'[e].destroying = obj[e].destroying
  /\ obj'[e].destroyed = obj[e].destroyed /\ obj'[e].init = obj[e].init

\* The entries after a step that applies Made to e.
LEMMA MadeStep ==
  ASSUME TypeOK, NEW e \in Sessions,
         obj' = [obj EXCEPT ![e] = Made(obj[e])]
  PROVE  MadeAt(e)
  <1>1. obj[e] \in EntryRecord /\ obj'[e] = Made(obj[e]) /\ OthersKept(e)
    BY DEF TypeOK, OthersKept
  <1>2. QED
    BY <1>1, MadeFacts DEF MadeAt

InitPendingAt(e) ==
  /\ OthersKept(e)
  /\ obj'[e].refs = obj[e].refs /\ obj'[e].state = obj[e].state
  /\ obj'[e].timer = obj[e].timer /\ obj'[e].orphans = obj[e].orphans
  /\ obj'[e].destroying = obj[e].destroying
  /\ obj'[e].destroyed = obj[e].destroyed /\ obj'[e].init = TRUE

\* The entries after a step that applies InitPending to e.
LEMMA InitPendingStep ==
  ASSUME TypeOK, NEW e \in Sessions,
         obj' = [obj EXCEPT ![e] = InitPending(obj[e])]
  PROVE  InitPendingAt(e)
  <1>1. obj[e] \in EntryRecord /\ obj'[e] = InitPending(obj[e]) /\ OthersKept(e)
    BY DEF TypeOK, OthersKept
  <1>2. QED
    BY <1>1, InitPendingFacts DEF InitPendingAt

InitOverAt(e) ==
  /\ OthersKept(e)
  /\ obj'[e].refs = obj[e].refs /\ obj'[e].state = obj[e].state
  /\ obj'[e].timer = obj[e].timer /\ obj'[e].orphans = obj[e].orphans
  /\ obj'[e].destroying = obj[e].destroying
  /\ obj'[e].destroyed = obj[e].destroyed /\ obj'[e].init = FALSE

\* The entries after a step that applies InitOver to e.
LEMMA InitOverStep ==
  ASSUME TypeOK, NEW e \in Sessions,
         obj' = [obj EXCEPT ![e] = InitOver(obj[e])]
  PROVE  InitOverAt(e)
  <1>1. obj[e] \in EntryRecord /\ obj'[e] = InitOver(obj[e]) /\ OthersKept(e)
    BY DEF TypeOK, OthersKept
  <1>2. QED
    BY <1>1, InitOverFacts, ZenonT(30) DEF InitOverAt

DestroyUntimedAt(e) ==
  /\ OthersKept(e)
  /\ obj'[e].refs = obj[e].refs /\ obj'[e].orphans = obj[e].orphans
  /\ obj'[e].destroyed = obj[e].destroyed /\ obj'[e].init = obj[e].init
  /\ obj'[e].destroying = TRUE /\ obj'[e].timer = FALSE
  /\ obj[e].destroying => obj'[e].state = obj[e].state
  /\ ~obj[e].destroying => obj'[e].state = "destroying"

\* The entries after a step that applies DestroyUntimed to e.
LEMMA DestroyUntimedStep ==
  ASSUME TypeOK, NEW e \in Sessions,
         obj' = [obj EXCEPT ![e] = DestroyUntimed(obj[e])]
  PROVE  DestroyUntimedAt(e)
  <1>1. obj[e] \in EntryRecord /\ obj'[e] = DestroyUntimed(obj[e]) /\ OthersKept(e)
    BY DEF TypeOK, OthersKept
  <1>2. QED
    BY <1>1, DestroyUntimedFacts DEF DestroyUntimedAt

DestroyByOrphanAt(e) ==
  /\ OthersKept(e)
  /\ obj'[e].refs = obj[e].refs /\ obj'[e].orphans = obj[e].orphans - 1
  /\ obj'[e].destroyed = obj[e].destroyed /\ obj'[e].init = obj[e].init
  /\ obj'[e].destroying = TRUE
  /\ obj[e].destroying => obj'[e].state = obj[e].state /\ obj'[e].timer = obj[e].timer
  /\ ~obj[e].destroying => obj'[e].state = "destroying" /\ obj'[e].timer = FALSE

\* The entries after a step that applies DestroyByOrphan to e.
LEMMA DestroyByOrphanStep ==
  ASSUME TypeOK, NEW e \in Sessions, obj[e].orphans > 0,
         obj' = [obj EXCEPT ![e] = DestroyByOrphan(obj[e])]
  PROVE  DestroyByOrphanAt(e)
  <1>1. obj[e] \in EntryRecord /\ obj'[e] = DestroyByOrphan(obj[e]) /\ OthersKept(e)
    BY DEF TypeOK, OthersKept
  <1>2. QED
    BY <1>1, DestroyByOrphanFacts DEF DestroyByOrphanAt

DestroyUncountedAt(e) ==
  /\ OthersKept(e)
  /\ obj'[e].refs = 0 /\ obj'[e].orphans = obj[e].orphans
  /\ obj'[e].destroyed = obj[e].destroyed /\ obj'[e].init = obj[e].init
  /\ obj'[e].destroying = TRUE
  /\ obj[e].destroying => obj'[e].state = obj[e].state /\ obj'[e].timer = obj[e].timer
  /\ ~obj[e].destroying => obj'[e].state = "destroying" /\ obj'[e].timer = FALSE

\* The entries after a step that applies DestroyUncounted to e.
LEMMA DestroyUncountedStep ==
  ASSUME TypeOK, NEW e \in Sessions,
         obj' = [obj EXCEPT ![e] = DestroyUncounted(obj[e])]
  PROVE  DestroyUncountedAt(e)
  <1>1. obj[e] \in EntryRecord /\ obj'[e] = DestroyUncounted(obj[e]) /\ OthersKept(e)
    BY DEF TypeOK, OthersKept
  <1>2. QED
    BY <1>1, DestroyUncountedFacts DEF DestroyUncountedAt

DestroyFinishedAt(e) ==
  /\ OthersKept(e)
  /\ obj'[e].refs = obj[e].refs /\ obj'[e].orphans = obj[e].orphans
  /\ obj'[e].timer = obj[e].timer /\ obj'[e].init = obj[e].init
  /\ obj'[e].destroyed = TRUE /\ obj'[e].destroying = FALSE
  /\ obj'[e].state = "destroying"

\* The entries after a step that applies DestroyFinished to e.
LEMMA DestroyFinishedStep ==
  ASSUME TypeOK, NEW e \in Sessions,
         obj' = [obj EXCEPT ![e] = DestroyFinished(obj[e])]
  PROVE  DestroyFinishedAt(e)
  <1>1. obj[e] \in EntryRecord /\ obj'[e] = DestroyFinished(obj[e]) /\ OthersKept(e)
    BY DEF TypeOK, OthersKept
  <1>2. QED
    BY <1>1, DestroyFinishedFacts DEF DestroyFinishedAt

ReleasedAt(e) ==
  /\ OthersKept(e)
  /\ obj[e].refs = 0 => obj'[e].refs = 0
  /\ obj[e].refs # 0 => obj'[e].refs = obj[e].refs - 1
  /\ obj'[e].destroyed = obj[e].destroyed /\ obj'[e].init = obj[e].init
  /\ ~obj[e].timer \/ IdleMs = 0 => obj'[e].orphans = obj[e].orphans
  /\ obj[e].destroying => obj'[e].destroying
  /\ obj'[e].state # "creating" \/ obj'[e].state = obj[e].state
  /\ obj'[e].refs # 0 \/ obj[e].state = "destroying" =>
       /\ obj'[e].state = obj[e].state /\ obj'[e].timer = obj[e].timer
       /\ obj'[e].destroying = obj[e].destroying /\ obj'[e].orphans = obj[e].orphans
  /\ IdleMs = 0 /\ ~obj[e].timer => obj'[e].timer = FALSE
  /\ IdleMs = 0 /\ ~obj[e].destroying /\ obj'[e].destroying =>
       obj'[e].state = "destroying"
  /\ IdleMs # 0 => obj'[e].destroying = obj[e].destroying
  /\ obj'[e].timer /\ ~obj[e].timer => obj'[e].refs = 0

\* The entries after a step that applies Release to e.
LEMMA ReleaseStep ==
  ASSUME TypeOK, NEW e \in Sessions,
         obj' = [obj EXCEPT ![e] = ReleaseEntry(obj[e])]
  PROVE  ReleasedAt(e)
  <1> DEFINE o == obj[e]
             r == ReleaseEntry(o)
  <1>1. o \in EntryRecord /\ obj'[e] = r /\ OthersKept(e)
    BY DEF TypeOK, OthersKept
  <1> HIDE DEF o
  <1>2. /\ o.refs = 0 => r.refs = 0
        /\ o.refs # 0 => r.refs = o.refs - 1
        /\ r.destroyed = o.destroyed /\ r.init = o.init
        /\ ~o.timer \/ IdleMs = 0 => r.orphans = o.orphans
        /\ o.destroying => r.destroying
        /\ r.state # "creating" \/ r.state = o.state
        /\ r.refs # 0 \/ o.state = "destroying" =>
             /\ r.state = o.state /\ r.timer = o.timer
             /\ r.destroying = o.destroying /\ r.orphans = o.orphans
        /\ IdleMs = 0 /\ ~o.timer => r.timer = FALSE
        /\ IdleMs = 0 /\ ~o.destroying /\ r.destroying =>
             r.state = "destroying"
        /\ IdleMs # 0 => r.destroying = o.destroying
        /\ r.timer /\ ~o.timer => r.refs = 0
    BY <1>1, ReleaseFacts
  <1> HIDE DEF r
  <1>3. QED
    BY <1>1, <1>2 DEF o, ReleasedAt

-----------------------------------------------------------------------------
(* Which entry each action touches, and how.                               *)

\* The entry AcquireExisting touches.
LEMMA AcquireExistingObj ==
  ASSUME TypeOK, NEW s \in Sessions, AcquireExisting(s)
  PROVE  entries[want[s]] \in Sessions /\ LeasedAt(entries[want[s]])
  BY LeasedStep DEF AcquireExisting, TypeOK

\* The entry AcquireResumes touches.
LEMMA AcquireResumesObj ==
  ASSUME TypeOK, Wired, NEW s \in Sessions, AcquireResumes(s)
  PROVE  lease[s] \in Sessions /\ LeasedAt(lease[s])
  BY LeasedStep DEF AcquireResumes, Wired, SessionWired, Leasing

\* The entry FactoryDone touches.
LEMMA FactoryDoneObj ==
  ASSUME TypeOK, Wired, NEW k \in Keys, FactoryDone(k)
  PROVE  maker[k] \in Sessions /\ MadeAt(maker[k])
  BY MadeStep DEF FactoryDone, Wired, CreationWired

\* The entry InitStarts touches.
LEMMA InitStartsObj ==
  ASSUME TypeOK, NEW s \in Sessions, InitStarts(s)
  PROVE  entries[want[s]] \in Sessions /\ InitPendingAt(entries[want[s]])
  <1>1. entries[want[s]] \in Sessions
    BY DEF InitStarts, TypeOK
  <1>2. QED
    BY <1>1, InitPendingStep DEF InitStarts

\* The entry InitSettles touches.
LEMMA InitSettlesObj ==
  ASSUME TypeOK, NEW e \in Sessions, InitSettles(e)
  PROVE  InitOverAt(e)
  BY InitOverStep DEF InitSettles

\* The entry Release touches.
LEMMA ReleaseObj ==
  ASSUME TypeOK, NEW s \in Sessions, Release(s)
  PROVE  \/ entries[want[s]] = NoEntry /\ obj' = obj
         \/ entries[want[s]] \in Sessions /\ ReleasedAt(entries[want[s]])
  BY ReleaseStep DEF Release, TypeOK

\* The entry IdleTimerFires touches.
LEMMA IdleTimerFiresObj ==
  ASSUME TypeOK, NEW e \in Sessions, IdleTimerFires(e)
  PROVE  DestroyUntimedAt(e)
  BY DestroyUntimedStep DEF IdleTimerFires

\* The entry OrphanTimerFires touches.
LEMMA OrphanTimerFiresObj ==
  ASSUME TypeOK, NEW e \in Sessions, OrphanTimerFires(e)
  PROVE  DestroyByOrphanAt(e)
  BY DestroyByOrphanStep DEF OrphanTimerFires

\* The entry DestroySettles touches.
LEMMA DestroySettlesObj ==
  ASSUME TypeOK, NEW e \in Sessions, NEW ok \in BOOLEAN, DestroySettles(e, ok)
  PROVE  DestroyFinishedAt(e)
  BY DestroyFinishedStep DEF DestroySettles

\* The entry DestroyKey touches.
LEMMA DestroyKeyObj ==
  ASSUME TypeOK, NEW k \in Keys, DestroyKey(k)
  PROVE  entries[k] \in Sessions /\ DestroyUncountedAt(entries[k])
  BY DestroyUncountedStep DEF DestroyKey, TypeOK

\* destroyAll starts the destruction of everything in the map.
DestroyedAllAt ==
  \A e \in Sessions :
    /\ obj'[e].refs = obj[e].refs /\ obj'[e].orphans = obj[e].orphans
    /\ obj'[e].destroyed = obj[e].destroyed /\ obj'[e].init = obj[e].init
    /\ entries[want[e]] # e => obj'[e] = obj[e]
    /\ entries[want[e]] = e =>
         /\ obj'[e].destroying = TRUE /\ obj'[e].timer = FALSE
         /\ obj[e].destroying => obj'[e].state = obj[e].state
         /\ ~obj[e].destroying => obj'[e].state = "destroying"

\* The entry DestroyAll touches.
LEMMA DestroyAllObj ==
  ASSUME TypeOK, DestroyAll
  PROVE  DestroyedAllAt
  <1>1. SUFFICES ASSUME NEW e \in Sessions
        PROVE /\ obj'[e].refs = obj[e].refs /\ obj'[e].orphans = obj[e].orphans
              /\ obj'[e].destroyed = obj[e].destroyed /\ obj'[e].init = obj[e].init
              /\ entries[want[e]] # e => obj'[e] = obj[e]
              /\ entries[want[e]] = e =>
                   /\ obj'[e].destroying = TRUE /\ obj'[e].timer = FALSE
                   /\ obj[e].destroying => obj'[e].state = obj[e].state
                   /\ ~obj[e].destroying => obj'[e].state = "destroying"
    BY DEF DestroyedAllAt
  <1>2. obj[e] \in EntryRecord
    BY DEF TypeOK
  <1>3. CASE entries[want[e]] = e
    <2>1. obj'[e] = DestroyUntimed(obj[e])
      BY <1>3 DEF DestroyAll
    <2>2. /\ obj'[e].refs = obj[e].refs /\ obj'[e].orphans = obj[e].orphans
          /\ obj'[e].destroyed = obj[e].destroyed /\ obj'[e].init = obj[e].init
          /\ obj'[e].destroying = TRUE /\ obj'[e].timer = FALSE
          /\ obj[e].destroying => obj'[e].state = obj[e].state
          /\ ~obj[e].destroying => obj'[e].state = "destroying"
      BY <1>2, <2>1, DestroyUntimedFacts
    <2>3. QED
      BY <1>3, <2>2
  <1>4. CASE entries[want[e]] # e
    <2>1. obj'[e] = obj[e]
      BY <1>4 DEF DestroyAll
    <2>2. QED
      BY <1>4, <2>1
  <1>5. QED
    BY <1>3, <1>4

\* What is common to all of them but the making of an entry and the init
\* flag: an object not made yet is not touched, one that is stays made.
Kept ==
  \A x \in Sessions :
    /\ obj[x] = FreshEntry => obj'[x] = FreshEntry
    /\ obj[x].state # "creating" => obj'[x].state # "creating"
    /\ obj'[x].init = obj[x].init

\* AcquireExisting neither makes an entry nor changes an init flag.
LEMMA AcquireExistingKept ==
  ASSUME TypeOK, Wired, NEW s \in Sessions, AcquireExisting(s)
  PROVE  Kept
  <1>1. entries[want[s]] \in Sessions /\ LeasedAt(entries[want[s]])
    BY AcquireExistingObj
  <1>2. obj[entries[want[s]]].state # "creating"
    BY <1>1, NoEntryIsNoSession DEF Wired, EntryWired, TypeOK
  <1>3. QED
    BY <1>1, <1>2, FreshFacts DEF Kept, LeasedAt, OthersKept

\* AcquireResumes neither makes an entry nor changes an init flag.
LEMMA AcquireResumesKept ==
  ASSUME TypeOK, Wired, NEW s \in Sessions, AcquireResumes(s)
  PROVE  Kept
  <1>1. lease[s] \in Sessions /\ LeasedAt(lease[s])
    BY AcquireResumesObj
  <1>2. obj[lease[s]].state # "creating"
    BY DEF AcquireResumes, Wired, SessionWired, Leasing
  <1>3. QED
    BY <1>1, <1>2, FreshFacts DEF Kept, LeasedAt, OthersKept

\* Release neither makes an entry nor changes an init flag.
LEMMA ReleaseKept ==
  ASSUME TypeOK, Wired, NEW s \in Sessions, Release(s)
  PROVE  Kept
  <1>1. CASE obj' = obj
    BY <1>1 DEF Kept
  <1>2. CASE entries[want[s]] \in Sessions /\ ReleasedAt(entries[want[s]])
    <2>1. obj[entries[want[s]]].state # "creating"
      BY <1>2, NoEntryIsNoSession DEF Wired, EntryWired, TypeOK
    <2>2. QED
      BY <1>2, <2>1, FreshFacts DEF Kept, ReleasedAt, OthersKept
  <1>3. QED
    BY <1>1, <1>2, ReleaseObj

\* IdleTimerFires neither makes an entry nor changes an init flag.
LEMMA IdleTimerFiresKept ==
  ASSUME TypeOK, NEW e \in Sessions, IdleTimerFires(e)
  PROVE  Kept
  <1>1. DestroyUntimedAt(e) /\ obj[e].timer
    BY IdleTimerFiresObj DEF IdleTimerFires
  <1>2. QED
    BY <1>1, FreshFacts DEF Kept, DestroyUntimedAt, OthersKept

\* OrphanTimerFires neither makes an entry nor changes an init flag.
LEMMA OrphanTimerFiresKept ==
  ASSUME TypeOK, NEW e \in Sessions, OrphanTimerFires(e)
  PROVE  Kept
  <1>1. DestroyByOrphanAt(e)
    BY OrphanTimerFiresObj
  <1>2. obj[e] # FreshEntry
    <2>1. SUFFICES ASSUME obj[e] = FreshEntry PROVE FALSE
      OBVIOUS
    <2>2. obj[e].orphans = 0
      BY <2>1, FreshFacts
    <2>3. QED
      BY <2>2 DEF OrphanTimerFires
  <1>3. QED
    BY <1>1, <1>2, FreshFacts DEF Kept, DestroyByOrphanAt, OthersKept

\* DestroySettles neither makes an entry nor changes an init flag.
LEMMA DestroySettlesKept ==
  ASSUME TypeOK, NEW e \in Sessions, NEW ok \in BOOLEAN, DestroySettles(e, ok)
  PROVE  Kept
  <1>1. DestroyFinishedAt(e) /\ obj[e].destroying
    BY DestroySettlesObj DEF DestroySettles
  <1>2. QED
    BY <1>1, FreshFacts DEF Kept, DestroyFinishedAt, OthersKept

\* DestroyKey neither makes an entry nor changes an init flag.
LEMMA DestroyKeyKept ==
  ASSUME TypeOK, Wired, NEW k \in Keys, DestroyKey(k)
  PROVE  Kept
  <1>1. entries[k] \in Sessions /\ DestroyUncountedAt(entries[k])
    BY DestroyKeyObj
  <1>2. obj[entries[k]].state # "creating"
    BY <1>1, NoEntryIsNoSession DEF Wired, EntryWired
  <1>3. QED
    BY <1>1, <1>2, FreshFacts DEF Kept, DestroyUncountedAt, OthersKept

\* DestroyAll neither makes an entry nor changes an init flag.
LEMMA DestroyAllKept ==
  ASSUME TypeOK, Wired, DestroyAll
  PROVE  Kept
  <1>1. DestroyedAllAt
    BY DestroyAllObj
  <1>2. \A e \in Sessions : entries[want[e]] = e => obj[e].state # "creating"
    BY NoEntryIsNoSession DEF Wired, EntryWired, TypeOK
  <1>3. QED
    BY <1>1, <1>2, FreshFacts DEF Kept, DestroyedAllAt

\* What acquireSlot leaves in the queue and the counter.
LEMMA SlotTypes ==
  ASSUME TypeOK, NEW k \in Keys, TakeSlot(k) \/ Park(k)
  PROVE  /\ waiters' \in Seq(Keys)
         /\ activeSlots' \in 0..MaxActive
         /\ creating' \in [Keys -> Phase]
<1>1. CASE TakeSlot(k)
  <2>1. activeSlots' \in 0..MaxActive
    BY <1>1, MaxActivePositive DEF TakeSlot, TypeOK
  <2>2. QED
    BY <1>1, <2>1 DEF TakeSlot, TypeOK, Phase
<1>2. CASE Park(k)
  BY <1>2 DEF Park, TypeOK, Phase
<1>3. QED
  BY <1>1, <1>2

\* Every step keeps the types; the slots stay within the limit.
LEMMA TypeStep == TypeOK /\ [Next]_vars => TypeOK'
<1> SUFFICES ASSUME TypeOK, [Next]_vars PROVE TypeOK'
  OBVIOUS
<1> USE MaxActivePositive
<1> USE DEF TypeOK, PC, Phase
<1>1. ASSUME NEW s \in Sessions, AcquireClosed(s) PROVE TypeOK'
  BY <1>1 DEF AcquireClosed
<1>2. ASSUME NEW s \in Sessions, AcquireExisting(s) PROVE TypeOK'
  BY <1>2, LeasedFacts DEF AcquireExisting
<1>3. ASSUME NEW s \in Sessions, AcquireJoin(s) PROVE TypeOK'
  BY <1>3 DEF AcquireJoin
<1>4. ASSUME NEW s \in Sessions, AcquireCreate(s) PROVE TypeOK'
  <2>1. want[s] \in Keys /\ (TakeSlot(want[s]) \/ Park(want[s]))
    BY <1>4 DEF AcquireCreate
  <2>2. /\ waiters' \in Seq(Keys) /\ activeSlots' \in 0..MaxActive
        /\ creating' \in [Keys -> Phase]
    BY <2>1, SlotTypes
  <2>3. QED
    BY <1>4, <2>1, <2>2 DEF AcquireCreate
<1>5. ASSUME NEW s \in Sessions, InitStarts(s) PROVE TypeOK'
  BY <1>5, InitPendingFacts DEF InitStarts
<1>6. ASSUME NEW s \in Sessions, LeasedDestroy(s) PROVE TypeOK'
  BY <1>6 DEF LeasedDestroy
<1>7. ASSUME NEW s \in Sessions, AcquireResumes(s) PROVE TypeOK'
  BY <1>7, LeasedFacts DEF AcquireResumes
<1>8. ASSUME NEW s \in Sessions, Release(s) PROVE TypeOK'
  BY <1>8, ReleaseFacts DEF Release
<1>9. ASSUME NEW e \in Sessions, InitSettles(e) PROVE TypeOK'
  BY <1>9, InitOverFacts DEF InitSettles
<1>10. ASSUME NEW e \in Sessions, IdleTimerFires(e) PROVE TypeOK'
  BY <1>10, DestroyUntimedFacts DEF IdleTimerFires
<1>11. ASSUME NEW e \in Sessions, OrphanTimerFires(e) PROVE TypeOK'
  BY <1>11, DestroyByOrphanFacts DEF OrphanTimerFires
<1>12. ASSUME NEW e \in Sessions, NEW ok \in BOOLEAN, DestroySettles(e, ok) PROVE TypeOK'
  <2>1. woken' \in Seq(Keys) /\ waiters' \in Seq(Keys)
    BY <1>12 DEF DestroySettles, ReleaseSlot
  <2>2. activeSlots' \in 0..MaxActive
    BY <1>12 DEF DestroySettles, ReleaseSlot
  <2>3. shutdown' \in {"no", "destroying", "done", "failed"} /\ draining' \in SUBSET Sessions
    BY <1>12 DEF DestroySettles
  <2>4. QED
    BY <1>12, DestroyFinishedFacts, <2>1, <2>2, <2>3 DEF DestroySettles
<1>13. ASSUME NEW k \in Keys, FactoryDone(k) PROVE TypeOK'
  BY <1>13, MadeFacts DEF FactoryDone, Resolve
<1>14. ASSUME NEW k \in Keys, FactoryFails(k) PROVE TypeOK'
  BY <1>14 DEF FactoryFails, Reject, ReleaseSlot
<1>15. ASSUME NEW k \in Keys, FactoryDoneClosed(k) PROVE TypeOK'
  BY <1>15 DEF FactoryDoneClosed
<1>16. ASSUME NEW k \in Keys, ClosedClientDestroyed(k) PROVE TypeOK'
  BY <1>16 DEF ClosedClientDestroyed, Reject, ReleaseSlot
<1>17. ASSUME NEW k \in Keys, DestroyKey(k) PROVE TypeOK'
  BY <1>17, DestroyUncountedFacts DEF DestroyKey
<1>18. ASSUME WokenRetries PROVE TypeOK'
  <2> DEFINE k == Head(woken)
  <2>1. k \in Keys /\ woken' \in Seq(Keys)
    BY <1>18 DEF WokenRetries
  <2>2. /\ waiters' \in Seq(Keys) /\ activeSlots' \in 0..MaxActive
        /\ creating' \in [Keys -> Phase]
    BY <1>18, <2>1, SlotTypes DEF WokenRetries, Reject
  <2>3. pc' \in [Sessions -> PC]
    BY <1>18, <2>1 DEF WokenRetries, Reject
  <2>4. lease' = lease
    BY <1>18 DEF WokenRetries, Reject
  <2>5. QED
    BY <1>18, <2>1, <2>2, <2>3, <2>4 DEF WokenRetries
<1>19. ASSUME DestroyAll PROVE TypeOK'
  <2>1. woken' \in Seq(Keys) /\ waiters' \in Seq(Keys)
    BY <1>19 DEF DestroyAll
  <2>2. obj' \in [Sessions -> EntryRecord]
    BY <1>19, DestroyUntimedFacts DEF DestroyAll
  <2>3. draining' \in SUBSET Sessions /\ dyingLease' \in BOOLEAN
    BY <1>19 DEF DestroyAll, Resuming
  <2>4. QED
    BY <1>19, <2>1, <2>2, <2>3 DEF DestroyAll
<1>20. ASSUME DestroyAllEnds PROVE TypeOK'
  BY <1>20 DEF DestroyAllEnds
<1>21. ASSUME UNCHANGED vars PROVE TypeOK'
  BY <1>21 DEF vars
<1>22. QED
  BY <1>1, <1>2, <1>3, <1>4, <1>5, <1>6, <1>7, <1>8, <1>9, <1>10, <1>11,
     <1>12, <1>13, <1>14, <1>15, <1>16, <1>17, <1>18, <1>19, <1>20, <1>21
     DEF Next, UserStep, CreationSettles, DestructionSettles

\* A creation in flight stays the only trace of its key.
LEMMA CreationStep == (TypeOK /\ Wired /\ Queued) /\ [Next]_vars => CreationWired'
<1> SUFFICES ASSUME (TypeOK /\ Wired /\ Queued), [Next]_vars PROVE CreationWired'
  OBVIOUS
<1> USE FreshFacts, NoEntryIsNoSession
<1> USE DEF TypeOK, Wired, Phase, PC, CreationWired, EntryWired, SessionWired, Leasing
<1>1. ASSUME NEW s \in Sessions, AcquireClosed(s) PROVE CreationWired'
  BY <1>1 DEF AcquireClosed
<1>2. ASSUME NEW s \in Sessions, AcquireExisting(s) PROVE CreationWired'
  <2>1. Kept
    BY <1>2, AcquireExistingKept
  <2>2. QED
    BY <1>2, <2>1 DEF AcquireExisting, Kept
<1>3. ASSUME NEW s \in Sessions, AcquireJoin(s) PROVE CreationWired'
  BY <1>3 DEF AcquireJoin
<1>4. ASSUME NEW s \in Sessions, AcquireCreate(s) PROVE CreationWired'
  BY <1>4 DEF AcquireCreate, TakeSlot, Park
<1>5. ASSUME NEW s \in Sessions, InitStarts(s) PROVE CreationWired'
  <2>1. entries[want[s]] \in Sessions /\ InitPendingAt(entries[want[s]])
    BY <1>5, InitStartsObj
  <2>2. QED
    BY <1>5, <2>1 DEF InitStarts, InitPendingAt, OthersKept
<1>6. ASSUME NEW s \in Sessions, LeasedDestroy(s) PROVE CreationWired'
  BY <1>6 DEF LeasedDestroy
<1>7. ASSUME NEW s \in Sessions, AcquireResumes(s) PROVE CreationWired'
  <2>1. Kept
    BY <1>7, AcquireResumesKept
  <2>2. QED
    BY <1>7, <2>1 DEF AcquireResumes, Kept
<1>8. ASSUME NEW s \in Sessions, Release(s) PROVE CreationWired'
  <2>1. Kept
    BY <1>8, ReleaseKept
  <2>2. QED
    BY <1>8, <2>1 DEF Release, Kept
<1>9. ASSUME NEW e \in Sessions, InitSettles(e) PROVE CreationWired'
  <2>1. InitOverAt(e)
    BY <1>9, InitSettlesObj
  <2>2. QED
    BY <1>9, <2>1 DEF InitSettles, InitOverAt, OthersKept
<1>10. ASSUME NEW e \in Sessions, IdleTimerFires(e) PROVE CreationWired'
  <2>1. Kept
    BY <1>10, IdleTimerFiresKept
  <2>2. QED
    BY <1>10, <2>1 DEF IdleTimerFires, Kept
<1>11. ASSUME NEW e \in Sessions, OrphanTimerFires(e) PROVE CreationWired'
  <2>1. Kept
    BY <1>11, OrphanTimerFiresKept
  <2>2. QED
    BY <1>11, <2>1 DEF OrphanTimerFires, Kept
<1>12. ASSUME NEW e \in Sessions, NEW ok \in BOOLEAN, DestroySettles(e, ok) PROVE CreationWired'
  <2>1. Kept
    BY <1>12, DestroySettlesKept
  <2>2. QED
    BY <1>12, <2>1 DEF DestroySettles, ReleaseSlot, Kept
<1>13. ASSUME NEW k \in Keys, FactoryDone(k) PROVE CreationWired'
  <2>1. maker[k] \in Sessions /\ MadeAt(maker[k])
    BY <1>13, FactoryDoneObj
  <2>2. QED
    BY <1>13, <2>1 DEF FactoryDone, Resolve, MadeAt, OthersKept
<1>14. ASSUME NEW k \in Keys, FactoryFails(k) PROVE CreationWired'
  BY <1>14 DEF FactoryFails, Reject, ReleaseSlot
<1>15. ASSUME NEW k \in Keys, FactoryDoneClosed(k) PROVE CreationWired'
  BY <1>15 DEF FactoryDoneClosed
<1>16. ASSUME NEW k \in Keys, ClosedClientDestroyed(k) PROVE CreationWired'
  BY <1>16 DEF ClosedClientDestroyed, Reject, ReleaseSlot
<1>17. ASSUME NEW k \in Keys, DestroyKey(k) PROVE CreationWired'
  <2>1. Kept
    BY <1>17, DestroyKeyKept
  <2>2. QED
    BY <1>17, <2>1 DEF DestroyKey, Kept
<1>18. ASSUME WokenRetries PROVE CreationWired'
  <2>1. Head(woken) \in Keys /\ creating[Head(woken)] = "slot"
    BY <1>18 DEF WokenRetries, Queued
  <2>2. QED
    BY <1>18, <2>1 DEF WokenRetries, TakeSlot, Park, Reject
<1>19. ASSUME DestroyAll PROVE CreationWired'
  <2>1. Kept
    BY <1>19, DestroyAllKept
  <2>2. QED
    BY <1>19, <2>1 DEF DestroyAll, Kept
<1>20. ASSUME DestroyAllEnds PROVE CreationWired'
  BY <1>20 DEF DestroyAllEnds
<1>21. ASSUME UNCHANGED vars PROVE CreationWired'
  BY <1>21 DEF vars
<1>22. QED
  BY <1>1, <1>2, <1>3, <1>4, <1>5, <1>6, <1>7, <1>8, <1>9, <1>10, <1>11,
     <1>12, <1>13, <1>14, <1>15, <1>16, <1>17, <1>18, <1>19, <1>20, <1>21
     DEF Next, UserStep, CreationSettles, DestructionSettles

\* The map refers to entries that were made, under their own key.
LEMMA EntryStep == (TypeOK /\ Wired /\ Queued) /\ [Next]_vars => EntryWired'
<1> SUFFICES ASSUME (TypeOK /\ Wired /\ Queued), [Next]_vars PROVE EntryWired'
  OBVIOUS
<1> USE FreshFacts, NoEntryIsNoSession
<1> USE DEF TypeOK, Wired, Phase, PC, CreationWired, EntryWired
<1>1. ASSUME NEW s \in Sessions, AcquireClosed(s) PROVE EntryWired'
  BY <1>1 DEF AcquireClosed
<1>2. ASSUME NEW s \in Sessions, AcquireExisting(s) PROVE EntryWired'
  <2>1. Kept
    BY <1>2, AcquireExistingKept
  <2>2. QED
    BY <1>2, <2>1 DEF AcquireExisting, Kept
<1>3. ASSUME NEW s \in Sessions, AcquireJoin(s) PROVE EntryWired'
  BY <1>3 DEF AcquireJoin
<1>4. ASSUME NEW s \in Sessions, AcquireCreate(s) PROVE EntryWired'
  BY <1>4 DEF AcquireCreate, TakeSlot, Park
<1>5. ASSUME NEW s \in Sessions, InitStarts(s) PROVE EntryWired'
  <2>1. entries[want[s]] \in Sessions /\ InitPendingAt(entries[want[s]])
    BY <1>5, InitStartsObj
  <2>2. QED
    BY <1>5, <2>1 DEF InitStarts, InitPendingAt, OthersKept
<1>6. ASSUME NEW s \in Sessions, LeasedDestroy(s) PROVE EntryWired'
  BY <1>6 DEF LeasedDestroy
<1>7. ASSUME NEW s \in Sessions, AcquireResumes(s) PROVE EntryWired'
  <2>1. Kept
    BY <1>7, AcquireResumesKept
  <2>2. QED
    BY <1>7, <2>1 DEF AcquireResumes, Kept
<1>8. ASSUME NEW s \in Sessions, Release(s) PROVE EntryWired'
  <2>1. Kept
    BY <1>8, ReleaseKept
  <2>2. QED
    BY <1>8, <2>1 DEF Release, Kept
<1>9. ASSUME NEW e \in Sessions, InitSettles(e) PROVE EntryWired'
  <2>1. InitOverAt(e)
    BY <1>9, InitSettlesObj
  <2>2. QED
    BY <1>9, <2>1 DEF InitSettles, InitOverAt, OthersKept
<1>10. ASSUME NEW e \in Sessions, IdleTimerFires(e) PROVE EntryWired'
  <2>1. Kept
    BY <1>10, IdleTimerFiresKept
  <2>2. QED
    BY <1>10, <2>1 DEF IdleTimerFires, Kept
<1>11. ASSUME NEW e \in Sessions, OrphanTimerFires(e) PROVE EntryWired'
  <2>1. Kept
    BY <1>11, OrphanTimerFiresKept
  <2>2. QED
    BY <1>11, <2>1 DEF OrphanTimerFires, Kept
<1>12. ASSUME NEW e \in Sessions, NEW ok \in BOOLEAN, DestroySettles(e, ok) PROVE EntryWired'
  <2>1. Kept
    BY <1>12, DestroySettlesKept
  <2>2. QED
    BY <1>12, <2>1 DEF DestroySettles, ReleaseSlot, Kept
<1>13. ASSUME NEW k \in Keys, FactoryDone(k) PROVE EntryWired'
  <2>1. maker[k] \in Sessions /\ MadeAt(maker[k])
    BY <1>13, FactoryDoneObj
  <2>2. QED
    BY <1>13, <2>1 DEF FactoryDone, Resolve, MadeAt, OthersKept
<1>14. ASSUME NEW k \in Keys, FactoryFails(k) PROVE EntryWired'
  BY <1>14 DEF FactoryFails, Reject, ReleaseSlot
<1>15. ASSUME NEW k \in Keys, FactoryDoneClosed(k) PROVE EntryWired'
  BY <1>15 DEF FactoryDoneClosed
<1>16. ASSUME NEW k \in Keys, ClosedClientDestroyed(k) PROVE EntryWired'
  BY <1>16 DEF ClosedClientDestroyed, Reject, ReleaseSlot
<1>17. ASSUME NEW k \in Keys, DestroyKey(k) PROVE EntryWired'
  <2>1. Kept
    BY <1>17, DestroyKeyKept
  <2>2. QED
    BY <1>17, <2>1 DEF DestroyKey, Kept
<1>18. ASSUME WokenRetries PROVE EntryWired'
  <2>1. Head(woken) \in Keys /\ creating[Head(woken)] = "slot"
    BY <1>18 DEF WokenRetries, Queued
  <2>2. QED
    BY <1>18, <2>1 DEF WokenRetries, TakeSlot, Park, Reject
<1>19. ASSUME DestroyAll PROVE EntryWired'
  <2>1. Kept
    BY <1>19, DestroyAllKept
  <2>2. QED
    BY <1>19, <2>1 DEF DestroyAll, Kept
<1>20. ASSUME DestroyAllEnds PROVE EntryWired'
  BY <1>20 DEF DestroyAllEnds
<1>21. ASSUME UNCHANGED vars PROVE EntryWired'
  BY <1>21 DEF vars
<1>22. QED
  BY <1>1, <1>2, <1>3, <1>4, <1>5, <1>6, <1>7, <1>8, <1>9, <1>10, <1>11,
     <1>12, <1>13, <1>14, <1>15, <1>16, <1>17, <1>18, <1>19, <1>20, <1>21
     DEF Next, UserStep, CreationSettles, DestructionSettles

\* A lease stays on a made entry of the key its session asked for.
LEMMA SessionStep == (TypeOK /\ Wired /\ Queued) /\ [Next]_vars => SessionWired'
<1> SUFFICES ASSUME (TypeOK /\ Wired /\ Queued), [Next]_vars PROVE SessionWired'
  OBVIOUS
<1> USE FreshFacts, NoEntryIsNoSession
<1> USE DEF TypeOK, Wired, Phase, PC, CreationWired, EntryWired, SessionWired, Leasing
<1>1. ASSUME NEW s \in Sessions, AcquireClosed(s) PROVE SessionWired'
  BY <1>1 DEF AcquireClosed
<1>2. ASSUME NEW s \in Sessions, AcquireExisting(s) PROVE SessionWired'
  <2>1. Kept
    BY <1>2, AcquireExistingKept
  <2>2. QED
    BY <1>2, <2>1 DEF AcquireExisting, Kept
<1>3. ASSUME NEW s \in Sessions, AcquireJoin(s) PROVE SessionWired'
  BY <1>3 DEF AcquireJoin
<1>4. ASSUME NEW s \in Sessions, AcquireCreate(s) PROVE SessionWired'
  BY <1>4 DEF AcquireCreate, TakeSlot, Park
<1>5. ASSUME NEW s \in Sessions, InitStarts(s) PROVE SessionWired'
  <2>1. entries[want[s]] \in Sessions /\ InitPendingAt(entries[want[s]])
    BY <1>5, InitStartsObj
  <2>2. QED
    BY <1>5, <2>1 DEF InitStarts, InitPendingAt, OthersKept
<1>6. ASSUME NEW s \in Sessions, LeasedDestroy(s) PROVE SessionWired'
  BY <1>6 DEF LeasedDestroy
<1>7. ASSUME NEW s \in Sessions, AcquireResumes(s) PROVE SessionWired'
  <2>1. Kept
    BY <1>7, AcquireResumesKept
  <2>2. QED
    BY <1>7, <2>1 DEF AcquireResumes, Kept
<1>8. ASSUME NEW s \in Sessions, Release(s) PROVE SessionWired'
  <2>1. Kept
    BY <1>8, ReleaseKept
  <2>2. QED
    BY <1>8, <2>1 DEF Release, Kept
<1>9. ASSUME NEW e \in Sessions, InitSettles(e) PROVE SessionWired'
  <2>1. InitOverAt(e)
    BY <1>9, InitSettlesObj
  <2>2. QED
    BY <1>9, <2>1 DEF InitSettles, InitOverAt, OthersKept
<1>10. ASSUME NEW e \in Sessions, IdleTimerFires(e) PROVE SessionWired'
  <2>1. Kept
    BY <1>10, IdleTimerFiresKept
  <2>2. QED
    BY <1>10, <2>1 DEF IdleTimerFires, Kept
<1>11. ASSUME NEW e \in Sessions, OrphanTimerFires(e) PROVE SessionWired'
  <2>1. Kept
    BY <1>11, OrphanTimerFiresKept
  <2>2. QED
    BY <1>11, <2>1 DEF OrphanTimerFires, Kept
<1>12. ASSUME NEW e \in Sessions, NEW ok \in BOOLEAN, DestroySettles(e, ok) PROVE SessionWired'
  <2>1. Kept
    BY <1>12, DestroySettlesKept
  <2>2. QED
    BY <1>12, <2>1 DEF DestroySettles, ReleaseSlot, Kept
<1>13. ASSUME NEW k \in Keys, FactoryDone(k) PROVE SessionWired'
  <2>1. maker[k] \in Sessions /\ MadeAt(maker[k]) /\ want[maker[k]] = k
    BY <1>13, FactoryDoneObj DEF FactoryDone
  <2> SUFFICES ASSUME NEW s \in Sessions
               PROVE  /\ pc'[s] = "idle" => obj'[s] = FreshEntry
                      /\ pc'[s] = "awaiting" => creating'[want'[s]] # "none"
                      /\ pc'[s] \in {"resolved", "held", "closing"} =>
                           /\ lease'[s] \in Sessions
                           /\ want'[lease'[s]] = want'[s]
                           /\ obj'[lease'[s]].state # "creating"
                      /\ initOf'[s] # NoEntry => pc'[s] \in {"held", "closing"}
    OBVIOUS
  <2>2. CASE pc[s] = "awaiting" /\ want[s] = k
    BY <1>13, <2>1, <2>2 DEF FactoryDone, Resolve, MadeAt, OthersKept
  <2>3. CASE ~(pc[s] = "awaiting" /\ want[s] = k)
    <3>1. pc'[s] = pc[s] /\ lease'[s] = lease[s] /\ want' = want /\ initOf' = initOf
      BY <1>13, <2>3 DEF FactoryDone, Resolve
    <3>2. pc[s] = "idle" => s # maker[k]
      BY <1>13, <2>1 DEF FactoryDone
    <3>3. pc[s] = "awaiting" => creating'[want[s]] # "none"
      BY <1>13, <2>3 DEF FactoryDone, Resolve
    <3>4. \A x \in Sessions : obj[x].state # "creating" => obj'[x].state # "creating"
      BY <2>1 DEF MadeAt, OthersKept
    <3>5. QED
      BY <2>1, <3>1, <3>2, <3>3, <3>4 DEF OthersKept, MadeAt
  <2>4. QED
    BY <2>2, <2>3
<1>14. ASSUME NEW k \in Keys, FactoryFails(k) PROVE SessionWired'
  BY <1>14 DEF FactoryFails, Reject, ReleaseSlot
<1>15. ASSUME NEW k \in Keys, FactoryDoneClosed(k) PROVE SessionWired'
  BY <1>15 DEF FactoryDoneClosed
<1>16. ASSUME NEW k \in Keys, ClosedClientDestroyed(k) PROVE SessionWired'
  BY <1>16 DEF ClosedClientDestroyed, Reject, ReleaseSlot
<1>17. ASSUME NEW k \in Keys, DestroyKey(k) PROVE SessionWired'
  <2>1. Kept
    BY <1>17, DestroyKeyKept
  <2>2. QED
    BY <1>17, <2>1 DEF DestroyKey, Kept
<1>18. ASSUME WokenRetries PROVE SessionWired'
  <2>1. Head(woken) \in Keys /\ creating[Head(woken)] = "slot"
    BY <1>18 DEF WokenRetries, Queued
  <2>2. QED
    BY <1>18, <2>1 DEF WokenRetries, TakeSlot, Park, Reject
<1>19. ASSUME DestroyAll PROVE SessionWired'
  <2>1. Kept
    BY <1>19, DestroyAllKept
  <2>2. QED
    BY <1>19, <2>1 DEF DestroyAll, Kept
<1>20. ASSUME DestroyAllEnds PROVE SessionWired'
  BY <1>20 DEF DestroyAllEnds
<1>21. ASSUME UNCHANGED vars PROVE SessionWired'
  BY <1>21 DEF vars
<1>22. QED
  BY <1>1, <1>2, <1>3, <1>4, <1>5, <1>6, <1>7, <1>8, <1>9, <1>10, <1>11,
     <1>12, <1>13, <1>14, <1>15, <1>16, <1>17, <1>18, <1>19, <1>20, <1>21
     DEF Next, UserStep, CreationSettles, DestructionSettles

\* A pending init keeps a session that awaits it.
LEMMA InitStep == (TypeOK /\ Wired /\ Queued) /\ [Next]_vars => InitWired'
<1> SUFFICES ASSUME (TypeOK /\ Wired /\ Queued), [Next]_vars PROVE InitWired'
  OBVIOUS
<1> USE FreshFacts, NoEntryIsNoSession
<1> USE DEF TypeOK, Wired, InitWired, SessionWired, CreationWired
<1>1. ASSUME NEW s \in Sessions, AcquireClosed(s) PROVE InitWired'
  BY <1>1 DEF AcquireClosed
<1>2. ASSUME NEW s \in Sessions, AcquireExisting(s) PROVE InitWired'
  <2>1. Kept
    BY <1>2, AcquireExistingKept
  <2>2. QED
    BY <1>2, <2>1 DEF AcquireExisting, Kept
<1>3. ASSUME NEW s \in Sessions, AcquireJoin(s) PROVE InitWired'
  BY <1>3 DEF AcquireJoin
<1>4. ASSUME NEW s \in Sessions, AcquireCreate(s) PROVE InitWired'
  BY <1>4 DEF AcquireCreate, TakeSlot, Park
<1>5. ASSUME NEW s \in Sessions, InitStarts(s) PROVE InitWired'
  <2>1. entries[want[s]] \in Sessions /\ InitPendingAt(entries[want[s]])
    BY <1>5, InitStartsObj
  <2>2. QED
    BY <1>5, <2>1 DEF InitStarts, InitPendingAt, OthersKept
<1>6. ASSUME NEW s \in Sessions, LeasedDestroy(s) PROVE InitWired'
  BY <1>6 DEF LeasedDestroy
<1>7. ASSUME NEW s \in Sessions, AcquireResumes(s) PROVE InitWired'
  <2>1. Kept
    BY <1>7, AcquireResumesKept
  <2>2. QED
    BY <1>7, <2>1 DEF AcquireResumes, Kept
<1>8. ASSUME NEW s \in Sessions, Release(s) PROVE InitWired'
  <2>1. Kept
    BY <1>8, ReleaseKept
  <2>2. QED
    BY <1>8, <2>1 DEF Release, Kept
<1>9. ASSUME NEW e \in Sessions, InitSettles(e) PROVE InitWired'
  <2>1. InitOverAt(e)
    BY <1>9, InitSettlesObj
  <2>2. QED
    BY <1>9, <2>1 DEF InitSettles, InitOverAt, OthersKept
<1>10. ASSUME NEW e \in Sessions, IdleTimerFires(e) PROVE InitWired'
  <2>1. Kept
    BY <1>10, IdleTimerFiresKept
  <2>2. QED
    BY <1>10, <2>1 DEF IdleTimerFires, Kept
<1>11. ASSUME NEW e \in Sessions, OrphanTimerFires(e) PROVE InitWired'
  <2>1. Kept
    BY <1>11, OrphanTimerFiresKept
  <2>2. QED
    BY <1>11, <2>1 DEF OrphanTimerFires, Kept
<1>12. ASSUME NEW e \in Sessions, NEW ok \in BOOLEAN, DestroySettles(e, ok) PROVE InitWired'
  <2>1. Kept
    BY <1>12, DestroySettlesKept
  <2>2. QED
    BY <1>12, <2>1 DEF DestroySettles, ReleaseSlot, Kept
<1>13. ASSUME NEW k \in Keys, FactoryDone(k) PROVE InitWired'
  <2>1. maker[k] \in Sessions /\ MadeAt(maker[k])
    BY <1>13, FactoryDoneObj
  <2>2. QED
    BY <1>13, <2>1 DEF FactoryDone, Resolve, MadeAt, OthersKept
<1>14. ASSUME NEW k \in Keys, FactoryFails(k) PROVE InitWired'
  BY <1>14 DEF FactoryFails, Reject, ReleaseSlot
<1>15. ASSUME NEW k \in Keys, FactoryDoneClosed(k) PROVE InitWired'
  BY <1>15 DEF FactoryDoneClosed
<1>16. ASSUME NEW k \in Keys, ClosedClientDestroyed(k) PROVE InitWired'
  BY <1>16 DEF ClosedClientDestroyed, Reject, ReleaseSlot
<1>17. ASSUME NEW k \in Keys, DestroyKey(k) PROVE InitWired'
  <2>1. Kept
    BY <1>17, DestroyKeyKept
  <2>2. QED
    BY <1>17, <2>1 DEF DestroyKey, Kept
<1>18. ASSUME WokenRetries PROVE InitWired'
  <2>1. Head(woken) \in Keys /\ creating[Head(woken)] = "slot"
    BY <1>18 DEF WokenRetries, Queued
  <2>2. QED
    BY <1>18, <2>1 DEF WokenRetries, TakeSlot, Park, Reject
<1>19. ASSUME DestroyAll PROVE InitWired'
  <2>1. Kept
    BY <1>19, DestroyAllKept
  <2>2. QED
    BY <1>19, <2>1 DEF DestroyAll, Kept
<1>20. ASSUME DestroyAllEnds PROVE InitWired'
  BY <1>20 DEF DestroyAllEnds
<1>21. ASSUME UNCHANGED vars PROVE InitWired'
  BY <1>21 DEF vars
<1>22. QED
  BY <1>1, <1>2, <1>3, <1>4, <1>5, <1>6, <1>7, <1>8, <1>9, <1>10, <1>11,
     <1>12, <1>13, <1>14, <1>15, <1>16, <1>17, <1>18, <1>19, <1>20, <1>21
     DEF Next, UserStep, CreationSettles, DestructionSettles

\* What is in the map of a closed registry is awaited by destroyAll.
LEMMA ShutdownStep == (TypeOK /\ Wired /\ Queued) /\ [Next]_vars => ShutdownWired'
<1> SUFFICES ASSUME (TypeOK /\ Wired /\ Queued), [Next]_vars PROVE ShutdownWired'
  OBVIOUS
<1> USE FreshFacts, NoEntryIsNoSession
<1> USE DEF TypeOK, Wired, EntryWired, CreationWired, ShutdownWired
<1>1. ASSUME NEW s \in Sessions, AcquireClosed(s) PROVE ShutdownWired'
  BY <1>1 DEF AcquireClosed
<1>2. ASSUME NEW s \in Sessions, AcquireExisting(s) PROVE ShutdownWired'
  <2>1. Kept
    BY <1>2, AcquireExistingKept
  <2>2. QED
    BY <1>2, <2>1 DEF AcquireExisting, Kept
<1>3. ASSUME NEW s \in Sessions, AcquireJoin(s) PROVE ShutdownWired'
  BY <1>3 DEF AcquireJoin
<1>4. ASSUME NEW s \in Sessions, AcquireCreate(s) PROVE ShutdownWired'
  BY <1>4 DEF AcquireCreate, TakeSlot, Park
<1>5. ASSUME NEW s \in Sessions, InitStarts(s) PROVE ShutdownWired'
  <2>1. entries[want[s]] \in Sessions /\ InitPendingAt(entries[want[s]])
    BY <1>5, InitStartsObj
  <2>2. QED
    BY <1>5, <2>1 DEF InitStarts, InitPendingAt, OthersKept
<1>6. ASSUME NEW s \in Sessions, LeasedDestroy(s) PROVE ShutdownWired'
  BY <1>6 DEF LeasedDestroy
<1>7. ASSUME NEW s \in Sessions, AcquireResumes(s) PROVE ShutdownWired'
  <2>1. Kept
    BY <1>7, AcquireResumesKept
  <2>2. QED
    BY <1>7, <2>1 DEF AcquireResumes, Kept
<1>8. ASSUME NEW s \in Sessions, Release(s) PROVE ShutdownWired'
  <2>1. Kept
    BY <1>8, ReleaseKept
  <2>2. QED
    BY <1>8, <2>1 DEF Release, Kept
<1>9. ASSUME NEW e \in Sessions, InitSettles(e) PROVE ShutdownWired'
  <2>1. InitOverAt(e)
    BY <1>9, InitSettlesObj
  <2>2. QED
    BY <1>9, <2>1 DEF InitSettles, InitOverAt, OthersKept
<1>10. ASSUME NEW e \in Sessions, IdleTimerFires(e) PROVE ShutdownWired'
  <2>1. Kept
    BY <1>10, IdleTimerFiresKept
  <2>2. QED
    BY <1>10, <2>1 DEF IdleTimerFires, Kept
<1>11. ASSUME NEW e \in Sessions, OrphanTimerFires(e) PROVE ShutdownWired'
  <2>1. Kept
    BY <1>11, OrphanTimerFiresKept
  <2>2. QED
    BY <1>11, <2>1 DEF OrphanTimerFires, Kept
<1>12. ASSUME NEW e \in Sessions, NEW ok \in BOOLEAN, DestroySettles(e, ok) PROVE ShutdownWired'
  <2>1. \A j \in Keys : entries'[j] # NoEntry => entries'[j] = entries[j] /\ entries[j] # e
    BY <1>12 DEF DestroySettles
  <2>2. /\ closed' = closed /\ creating' = creating /\ draining' = draining \ {e}
        /\ shutdown' = shutdown \/ (shutdown' = "failed" /\ e \in draining)
    BY <1>12 DEF DestroySettles
  <2>3. e \in draining => closed
    BY <1>12
  <2>4. QED
    BY <2>1, <2>2, <2>3
<1>13. ASSUME NEW k \in Keys, FactoryDone(k) PROVE ShutdownWired'
  <2>1. maker[k] \in Sessions /\ MadeAt(maker[k])
    BY <1>13, FactoryDoneObj
  <2>2. QED
    BY <1>13, <2>1 DEF FactoryDone, Resolve, MadeAt, OthersKept
<1>14. ASSUME NEW k \in Keys, FactoryFails(k) PROVE ShutdownWired'
  BY <1>14 DEF FactoryFails, Reject, ReleaseSlot
<1>15. ASSUME NEW k \in Keys, FactoryDoneClosed(k) PROVE ShutdownWired'
  BY <1>15 DEF FactoryDoneClosed
<1>16. ASSUME NEW k \in Keys, ClosedClientDestroyed(k) PROVE ShutdownWired'
  BY <1>16 DEF ClosedClientDestroyed, Reject, ReleaseSlot
<1>17. ASSUME NEW k \in Keys, DestroyKey(k) PROVE ShutdownWired'
  <2>1. Kept
    BY <1>17, DestroyKeyKept
  <2>2. QED
    BY <1>17, <2>1 DEF DestroyKey, Kept
<1>18. ASSUME WokenRetries PROVE ShutdownWired'
  <2>1. Head(woken) \in Keys /\ creating[Head(woken)] = "slot"
    BY <1>18 DEF WokenRetries, Queued
  <2>2. QED
    BY <1>18, <2>1 DEF WokenRetries, TakeSlot, Park, Reject
<1>19. ASSUME DestroyAll PROVE ShutdownWired'
  <2>1. Kept
    BY <1>19, DestroyAllKept
  <2>2. QED
    BY <1>19, <2>1 DEF DestroyAll, Kept
<1>20. ASSUME DestroyAllEnds PROVE ShutdownWired'
  BY <1>20 DEF DestroyAllEnds
<1>21. ASSUME UNCHANGED vars PROVE ShutdownWired'
  BY <1>21 DEF vars
<1>22. QED
  BY <1>1, <1>2, <1>3, <1>4, <1>5, <1>6, <1>7, <1>8, <1>9, <1>10, <1>11,
     <1>12, <1>13, <1>14, <1>15, <1>16, <1>17, <1>18, <1>19, <1>20, <1>21
     DEF Next, UserStep, CreationSettles, DestructionSettles

-----------------------------------------------------------------------------
(* The queues of parked creations.                                         *)

SlotKept == \A k \in Keys : creating[k] = "slot" => creating'[k] = "slot"

\* Waking all the parked creations.
LEMMA WakeQueued ==
  ASSUME TypeOK, Queued, SlotKept, woken' = woken \o waiters, waiters' = <<>>
  PROVE  Queued'
<1> DEFINE n == Len(woken)
           m == Len(waiters)
<1>1. /\ woken \in Seq(Keys) /\ waiters \in Seq(Keys)
      /\ n \in Nat /\ m \in Nat
  BY DEF TypeOK
<1>2. /\ Len(woken') = n + m
      /\ \A i \in 1..n : woken'[i] = woken[i]
      /\ \A i \in (n + 1)..(n + m) : woken'[i] = waiters[i - n] /\ i - n \in 1..m
  BY <1>1
<1>3. /\ \A i \in 1..n : woken[i] \in Keys
      /\ \A i \in 1..m : waiters[i] \in Keys
  BY <1>1
<1>4. Len(waiters') = 0
  OBVIOUS
<1> HIDE DEF n, m
<1>5. \A i \in 1..(n + m) : i \in 1..n \/ i \in (n + 1)..(n + m)
  BY <1>1
<1>6. \A i \in 1..(n + m) : creating'[woken'[i]] = "slot"
  <2> SUFFICES ASSUME NEW i \in 1..(n + m) PROVE creating'[woken'[i]] = "slot"
    OBVIOUS
  <2>1. CASE i \in 1..n
    BY <1>2, <1>3, <2>1 DEF Queued, SlotKept, n
  <2>2. CASE i \in (n + 1)..(n + m)
    <3>1. PICK l \in 1..m : woken'[i] = waiters[l]
      BY <1>2, <2>2
    <3>2. QED
      BY <1>3, <3>1 DEF Queued, SlotKept, m
  <2>3. QED
    BY <1>5, <2>1, <2>2
<1>7. \A i, j \in 1..(n + m) : woken'[i] = woken'[j] => i = j
  <2> SUFFICES ASSUME NEW i \in 1..(n + m), NEW j \in 1..(n + m), woken'[i] = woken'[j]
               PROVE  i = j
    OBVIOUS
  <2>1. CASE i \in 1..n /\ j \in 1..n
    BY <1>2, <2>1 DEF Queued, n
  <2>2. CASE i \in (n + 1)..(n + m) /\ j \in (n + 1)..(n + m)
    <3>1. i - n = j - n
      BY <1>2, <2>2, SMTT(30) DEF Queued, m
    <3>2. QED
      BY <1>1, <3>1
  <2>3. CASE i \in 1..n /\ j \in (n + 1)..(n + m)
    <3>1. PICK l \in 1..m : woken'[j] = waiters[l]
      BY <1>2, <2>3
    <3>2. QED
      BY <1>2, <2>3, <3>1 DEF Queued, n, m
  <2>4. CASE i \in (n + 1)..(n + m) /\ j \in 1..n
    <3>1. PICK l \in 1..m : woken'[i] = waiters[l]
      BY <1>2, <2>4
    <3>2. QED
      BY <1>2, <2>4, <3>1 DEF Queued, n, m
  <2>5. QED
    BY <1>5, <2>1, <2>2, <2>3, <2>4
<1>8. QED
  BY <1>2, <1>4, <1>6, <1>7 DEF Queued

\* Queueing a creation that was not queued.
LEMMA ParkQueued ==
  ASSUME TypeOK, Queued, NEW k \in Keys, Park(k), woken' = woken,
         \A i \in 1..Len(waiters) : waiters[i] # k,
         \A i \in 1..Len(woken) : woken[i] # k
  PROVE  Queued'
<1> DEFINE m == Len(waiters)
<1>1. /\ waiters \in Seq(Keys) /\ woken \in Seq(Keys) /\ m \in Nat
      /\ waiters' = Append(waiters, k)
      /\ creating' = [creating EXCEPT ![k] = "slot"]
  BY DEF TypeOK, Park
<1>2. /\ Len(waiters') = m + 1 /\ waiters'[m + 1] = k
      /\ \A i \in 1..m : waiters'[i] = waiters[i] /\ waiters[i] \in Keys
  BY <1>1
<1>3. \A i \in 1..Len(woken) : woken[i] \in Keys
  BY <1>1
<1>4. \A x \in Keys : creating[x] = "slot" \/ x = k => creating'[x] = "slot"
  BY <1>1 DEF TypeOK
<1> HIDE DEF m
<1>5. \A i \in 1..(m + 1) : i \in 1..m \/ i = m + 1
  BY <1>1
<1>6. \A i \in 1..(m + 1) : creating'[waiters'[i]] = "slot"
  BY <1>2, <1>4, <1>5 DEF Queued, m
<1>7. \A i, j \in 1..(m + 1) : waiters'[i] = waiters'[j] => i = j
  BY <1>2, <1>5 DEF Queued, m
<1>8. \A i \in 1..(m + 1), j \in 1..Len(woken) : waiters'[i] # woken[j]
  BY <1>2, <1>5 DEF Queued, m
<1>9. \A i \in 1..Len(woken) : creating'[woken[i]] = "slot"
  BY <1>3, <1>4 DEF Queued
<1>10. QED
  BY <1>2, <1>6, <1>7, <1>8, <1>9 DEF Queued

\* The first woken creation leaves its queue.
LEMMA HeadQueued ==
  ASSUME TypeOK, Queued, woken # <<>>
  PROVE  /\ Head(woken) \in Keys /\ creating[Head(woken)] = "slot"
         /\ Tail(woken) \in Seq(Keys)
         /\ \A i \in 1..Len(waiters) : waiters[i] # Head(woken)
         /\ \A i \in 1..Len(Tail(woken)) :
              /\ Tail(woken)[i] # Head(woken)
              /\ creating[Tail(woken)[i]] = "slot"
         /\ \A i, j \in 1..Len(Tail(woken)) : Tail(woken)[i] = Tail(woken)[j] => i = j
         /\ \A i \in 1..Len(waiters), j \in 1..Len(Tail(woken)) :
              waiters[i] # Tail(woken)[j]
<1> DEFINE n == Len(woken)
           t == Tail(woken)
<1>1. /\ woken \in Seq(Keys) /\ n \in Nat \ {0} /\ Head(woken) = woken[1]
      /\ 1 \in 1..n /\ woken[1] \in Keys
  BY DEF TypeOK
<1>2. /\ t \in Seq(Keys) /\ Len(t) = n - 1
      /\ \A i \in 1..(n - 1) : t[i] = woken[i + 1] /\ i + 1 \in 1..n /\ i + 1 # 1
  BY <1>1
<1> HIDE DEF n, t
<1>3. \A i, j \in 1..(n - 1) : t[i] = t[j] => i = j
  <2> SUFFICES ASSUME NEW i \in 1..(n - 1), NEW j \in 1..(n - 1), t[i] = t[j]
               PROVE  i = j
    OBVIOUS
  <2>1. i + 1 = j + 1
    BY <1>2 DEF Queued, n
  <2>2. QED
    BY <1>1, <2>1
<1>4. \A i \in 1..(n - 1) : t[i] # woken[1] /\ creating[t[i]] = "slot"
  BY <1>1, <1>2 DEF Queued, n
<1>5. \A i \in 1..Len(waiters), j \in 1..(n - 1) : waiters[i] # t[j]
  BY <1>2 DEF Queued, n
<1>6. creating[woken[1]] = "slot" /\ \A i \in 1..Len(waiters) : waiters[i] # woken[1]
  BY <1>1 DEF Queued, n
<1>7. QED
  BY <1>1, <1>2, <1>3, <1>4, <1>5, <1>6 DEF t

\* No queue changes.
LEMMA SameQueues ==
  ASSUME TypeOK, Queued, SlotKept, UNCHANGED <<waiters, woken>>
  PROVE  Queued'
<1>1. /\ \A i \in 1..Len(waiters) : waiters[i] \in Keys
      /\ \A i \in 1..Len(woken) : woken[i] \in Keys
  BY DEF TypeOK
<1>2. QED
  BY <1>1 DEF Queued, SlotKept

\* Every step keeps the queues in order.
LEMMA QueueStep == (TypeOK /\ Wired /\ Queued) /\ [Next]_vars => Queued'
<1> SUFFICES ASSUME (TypeOK /\ Wired /\ Queued), [Next]_vars PROVE Queued'
  OBVIOUS
<1> USE DEF TypeOK
<1>1. ASSUME NEW s \in Sessions, AcquireClosed(s) PROVE Queued'
  <2>1. UNCHANGED <<waiters, woken>> /\ SlotKept
    BY <1>1 DEF AcquireClosed, SlotKept
  <2>2. QED
    BY <2>1, SameQueues
<1>2. ASSUME NEW s \in Sessions, AcquireExisting(s) PROVE Queued'
  <2>1. UNCHANGED <<waiters, woken>> /\ SlotKept
    BY <1>2 DEF AcquireExisting, SlotKept
  <2>2. QED
    BY <2>1, SameQueues
<1>3. ASSUME NEW s \in Sessions, AcquireJoin(s) PROVE Queued'
  <2>1. UNCHANGED <<waiters, woken>> /\ SlotKept
    BY <1>3 DEF AcquireJoin, SlotKept
  <2>2. QED
    BY <2>1, SameQueues
<1>4. ASSUME NEW s \in Sessions, AcquireCreate(s) PROVE Queued'
  <2> DEFINE k == want[s]
  <2>1. /\ k \in Keys /\ creating[k] = "none" /\ woken' = woken
        /\ TakeSlot(k) \/ Park(k)
    BY <1>4 DEF AcquireCreate, TypeOK
  <2>2. /\ \A i \in 1..Len(waiters) : waiters[i] # k
        /\ \A i \in 1..Len(woken) : woken[i] # k
    BY <2>1 DEF Queued
  <2>3. CASE TakeSlot(k)
    <3>1. UNCHANGED <<waiters, woken>> /\ SlotKept
      BY <2>1, <2>3 DEF TakeSlot, SlotKept, TypeOK
    <3>2. QED
      BY <3>1, SameQueues
  <2>4. CASE Park(k)
    BY <2>1, <2>2, <2>4, ParkQueued
  <2>5. QED
    BY <2>1, <2>3, <2>4
<1>5. ASSUME NEW s \in Sessions, InitStarts(s) PROVE Queued'
  <2>1. UNCHANGED <<waiters, woken>> /\ SlotKept
    BY <1>5 DEF InitStarts, SlotKept
  <2>2. QED
    BY <2>1, SameQueues
<1>6. ASSUME NEW s \in Sessions, LeasedDestroy(s) PROVE Queued'
  <2>1. UNCHANGED <<waiters, woken>> /\ SlotKept
    BY <1>6 DEF LeasedDestroy, SlotKept
  <2>2. QED
    BY <2>1, SameQueues
<1>7. ASSUME NEW s \in Sessions, AcquireResumes(s) PROVE Queued'
  <2>1. UNCHANGED <<waiters, woken>> /\ SlotKept
    BY <1>7 DEF AcquireResumes, SlotKept
  <2>2. QED
    BY <2>1, SameQueues
<1>8. ASSUME NEW s \in Sessions, Release(s) PROVE Queued'
  <2>1. UNCHANGED <<waiters, woken>> /\ SlotKept
    BY <1>8 DEF Release, SlotKept
  <2>2. QED
    BY <2>1, SameQueues
<1>9. ASSUME NEW e \in Sessions, InitSettles(e) PROVE Queued'
  <2>1. UNCHANGED <<waiters, woken>> /\ SlotKept
    BY <1>9 DEF InitSettles, SlotKept
  <2>2. QED
    BY <2>1, SameQueues
<1>10. ASSUME NEW e \in Sessions, IdleTimerFires(e) PROVE Queued'
  <2>1. UNCHANGED <<waiters, woken>> /\ SlotKept
    BY <1>10 DEF IdleTimerFires, SlotKept
  <2>2. QED
    BY <2>1, SameQueues
<1>11. ASSUME NEW e \in Sessions, OrphanTimerFires(e) PROVE Queued'
  <2>1. UNCHANGED <<waiters, woken>> /\ SlotKept
    BY <1>11 DEF OrphanTimerFires, SlotKept
  <2>2. QED
    BY <2>1, SameQueues
<1>12. ASSUME NEW e \in Sessions, NEW ok \in BOOLEAN, DestroySettles(e, ok) PROVE Queued'
  <2>1. SlotKept /\ woken' = woken \o waiters /\ waiters' = <<>>
    BY <1>12 DEF DestroySettles, ReleaseSlot, SlotKept
  <2>2. QED
    BY <2>1, WakeQueued
<1>13. ASSUME NEW k \in Keys, FactoryDone(k) PROVE Queued'
  <2>1. UNCHANGED <<waiters, woken>> /\ SlotKept
    BY <1>13 DEF FactoryDone, Resolve, SlotKept
  <2>2. QED
    BY <2>1, SameQueues
<1>14. ASSUME NEW k \in Keys, FactoryFails(k) PROVE Queued'
  <2>1. SlotKept /\ woken' = woken \o waiters /\ waiters' = <<>>
    BY <1>14 DEF FactoryFails, Reject, ReleaseSlot, SlotKept
  <2>2. QED
    BY <2>1, WakeQueued
<1>15. ASSUME NEW k \in Keys, FactoryDoneClosed(k) PROVE Queued'
  <2>1. UNCHANGED <<waiters, woken>> /\ SlotKept
    BY <1>15 DEF FactoryDoneClosed, SlotKept
  <2>2. QED
    BY <2>1, SameQueues
<1>16. ASSUME NEW k \in Keys, ClosedClientDestroyed(k) PROVE Queued'
  <2>1. SlotKept /\ woken' = woken \o waiters /\ waiters' = <<>>
    BY <1>16 DEF ClosedClientDestroyed, Reject, ReleaseSlot, SlotKept
  <2>2. QED
    BY <2>1, WakeQueued
<1>17. ASSUME NEW k \in Keys, DestroyKey(k) PROVE Queued'
  <2>1. UNCHANGED <<waiters, woken>> /\ SlotKept
    BY <1>17 DEF DestroyKey, SlotKept
  <2>2. QED
    BY <2>1, SameQueues
<1>18. ASSUME WokenRetries PROVE Queued'
  <2> DEFINE k == Head(woken)
             t == Tail(woken)
  <2>1. /\ woken # <<>> /\ woken' = t
        /\ \/ ~closed /\ (TakeSlot(k) \/ Park(k))
           \/ closed /\ Reject(k) /\ waiters' = waiters
    BY <1>18 DEF WokenRetries
  <2>2. /\ k \in Keys /\ creating[k] = "slot" /\ t \in Seq(Keys)
        /\ \A i \in 1..Len(waiters) : waiters[i] # k
        /\ \A i \in 1..Len(t) : t[i] # k /\ creating[t[i]] = "slot" /\ t[i] \in Keys
        /\ \A i, j \in 1..Len(t) : t[i] = t[j] => i = j
        /\ \A i \in 1..Len(waiters), j \in 1..Len(t) : waiters[i] # t[j]
    BY <2>1, HeadQueued
  <2> HIDE DEF k, t
  <2>3. /\ \A x \in Keys : x # k => creating'[x] = creating[x]
        /\ Park(k) => creating'[k] = "slot"
    BY <2>1, <2>2 DEF TakeSlot, Park, Reject, TypeOK
  <2>4. \A i \in 1..Len(waiters) : creating'[waiters[i]] = "slot" /\ waiters[i] \in Keys
    BY <2>2, <2>3 DEF Queued, TypeOK
  <2>5. CASE waiters' = waiters
    BY <2>1, <2>2, <2>3, <2>4, <2>5 DEF Queued
  <2>6. CASE Park(k)
    <3> DEFINE m == Len(waiters)
    <3>1. /\ m \in Nat /\ Len(waiters') = m + 1 /\ waiters'[m + 1] = k
          /\ \A i \in 1..m : waiters'[i] = waiters[i]
      BY <2>2, <2>6 DEF Park, TypeOK
    <3> HIDE DEF m
    <3>2. \A i \in 1..(m + 1) : i \in 1..m \/ i = m + 1
      BY <3>1
    <3>3. \A i \in 1..(m + 1) : creating'[waiters'[i]] = "slot"
      BY <2>3, <2>4, <2>6, <3>1, <3>2 DEF m
    <3>4. \A i, j \in 1..(m + 1) : waiters'[i] = waiters'[j] => i = j
      <4>1. \A i, j \in 1..m : waiters[i] = waiters[j] => i = j
        BY DEF m, Queued
      <4>2. \A i \in 1..m : waiters[i] # k
        BY <2>2 DEF m
      <4>3. QED
        BY <3>1, <3>2, <4>1, <4>2
    <3>5. \A i \in 1..(m + 1), j \in 1..Len(t) : waiters'[i] # t[j]
      BY <2>2, <3>1, <3>2 DEF m
    <3>6. QED
      BY <2>1, <2>2, <2>3, <3>1, <3>3, <3>4, <3>5 DEF Queued
  <2>7. QED
    BY <2>1, <2>5, <2>6 DEF TakeSlot
<1>19. ASSUME DestroyAll PROVE Queued'
  <2>1. SlotKept /\ woken' = woken \o waiters /\ waiters' = <<>>
    BY <1>19 DEF DestroyAll, SlotKept
  <2>2. QED
    BY <2>1, WakeQueued
<1>20. ASSUME DestroyAllEnds PROVE Queued'
  <2>1. UNCHANGED <<waiters, woken>> /\ SlotKept
    BY <1>20 DEF DestroyAllEnds, SlotKept
  <2>2. QED
    BY <2>1, SameQueues
<1>21. ASSUME UNCHANGED vars PROVE Queued'
  <2>1. UNCHANGED <<waiters, woken>> /\ SlotKept
    BY <1>21 DEF vars, SlotKept
  <2>2. QED
    BY <2>1, SameQueues
<1>22. QED
  BY <1>1, <1>2, <1>3, <1>4, <1>5, <1>6, <1>7, <1>8, <1>9, <1>10, <1>11,
     <1>12, <1>13, <1>14, <1>15, <1>16, <1>17, <1>18, <1>19, <1>20, <1>21
     DEF Next, UserStep, CreationSettles, DestructionSettles

\* No step leaves a creation parked beside a free slot.
LEMMA WakeupStep == (TypeOK /\ NoLostWakeup) /\ [Next]_vars => NoLostWakeup'
<1> SUFFICES ASSUME (TypeOK /\ NoLostWakeup), [Next]_vars PROVE NoLostWakeup'
  OBVIOUS
<1> USE MaxActivePositive
<1> USE DEF TypeOK, NoLostWakeup
<1>1. ASSUME NEW s \in Sessions, AcquireClosed(s) PROVE NoLostWakeup'
  BY <1>1 DEF AcquireClosed
<1>2. ASSUME NEW s \in Sessions, AcquireExisting(s) PROVE NoLostWakeup'
  BY <1>2 DEF AcquireExisting
<1>3. ASSUME NEW s \in Sessions, AcquireJoin(s) PROVE NoLostWakeup'
  BY <1>3 DEF AcquireJoin
<1>4. ASSUME NEW s \in Sessions, AcquireCreate(s) PROVE NoLostWakeup'
  <2>1. TakeSlot(want[s]) \/ Park(want[s])
    BY <1>4 DEF AcquireCreate
  <2>2. CASE TakeSlot(want[s])
    <3>1. activeSlots # MaxActive
      BY <2>2 DEF TakeSlot
    <3>2. QED
      BY <2>2, <3>1 DEF TakeSlot
  <2>3. CASE Park(want[s])
    BY <2>3 DEF Park
  <2>4. QED
    BY <2>1, <2>2, <2>3
<1>5. ASSUME NEW s \in Sessions, InitStarts(s) PROVE NoLostWakeup'
  BY <1>5 DEF InitStarts
<1>6. ASSUME NEW s \in Sessions, LeasedDestroy(s) PROVE NoLostWakeup'
  BY <1>6 DEF LeasedDestroy
<1>7. ASSUME NEW s \in Sessions, AcquireResumes(s) PROVE NoLostWakeup'
  BY <1>7 DEF AcquireResumes
<1>8. ASSUME NEW s \in Sessions, Release(s) PROVE NoLostWakeup'
  BY <1>8 DEF Release
<1>9. ASSUME NEW e \in Sessions, InitSettles(e) PROVE NoLostWakeup'
  BY <1>9 DEF InitSettles
<1>10. ASSUME NEW e \in Sessions, IdleTimerFires(e) PROVE NoLostWakeup'
  BY <1>10 DEF IdleTimerFires
<1>11. ASSUME NEW e \in Sessions, OrphanTimerFires(e) PROVE NoLostWakeup'
  BY <1>11 DEF OrphanTimerFires
<1>12. ASSUME NEW e \in Sessions, NEW ok \in BOOLEAN, DestroySettles(e, ok) PROVE NoLostWakeup'
  BY <1>12 DEF DestroySettles, ReleaseSlot
<1>13. ASSUME NEW k \in Keys, FactoryDone(k) PROVE NoLostWakeup'
  BY <1>13 DEF FactoryDone, Resolve
<1>14. ASSUME NEW k \in Keys, FactoryFails(k) PROVE NoLostWakeup'
  BY <1>14 DEF FactoryFails, Reject, ReleaseSlot
<1>15. ASSUME NEW k \in Keys, FactoryDoneClosed(k) PROVE NoLostWakeup'
  BY <1>15 DEF FactoryDoneClosed
<1>16. ASSUME NEW k \in Keys, ClosedClientDestroyed(k) PROVE NoLostWakeup'
  BY <1>16 DEF ClosedClientDestroyed, Reject, ReleaseSlot
<1>17. ASSUME NEW k \in Keys, DestroyKey(k) PROVE NoLostWakeup'
  BY <1>17 DEF DestroyKey
<1>18. ASSUME WokenRetries PROVE NoLostWakeup'
  <2>1. CASE TakeSlot(Head(woken))
    <3>1. activeSlots # MaxActive
      BY <2>1 DEF TakeSlot
    <3>2. QED
      BY <2>1, <3>1 DEF TakeSlot
  <2>2. CASE Park(Head(woken))
    BY <2>2 DEF Park
  <2>3. CASE UNCHANGED <<waiters, activeSlots>>
    BY <2>3
  <2>4. QED
    BY <1>18, <2>1, <2>2, <2>3 DEF WokenRetries
<1>19. ASSUME DestroyAll PROVE NoLostWakeup'
  BY <1>19 DEF DestroyAll
<1>20. ASSUME DestroyAllEnds PROVE NoLostWakeup'
  BY <1>20 DEF DestroyAllEnds
<1>21. ASSUME UNCHANGED vars PROVE NoLostWakeup'
  BY <1>21 DEF vars
<1>22. QED
  BY <1>1, <1>2, <1>3, <1>4, <1>5, <1>6, <1>7, <1>8, <1>9, <1>10, <1>11,
     <1>12, <1>13, <1>14, <1>15, <1>16, <1>17, <1>18, <1>19, <1>20, <1>21
     DEF Next, UserStep, CreationSettles, DestructionSettles

\* Without an idle time no timer is armed and only the map's entries die.
LEMMA NoIdleStep == IInv /\ [Next]_vars => NoIdleDiscipline'
<1> SUFFICES ASSUME IInv, [Next]_vars PROVE NoIdleDiscipline'
  OBVIOUS
<1> USE NoEntryIsNoSession, FreshFacts
<1> USE DEF IInv, TypeOK, Wired, CreationWired, EntryWired, NoIdleDiscipline
<1>1. ASSUME NEW s \in Sessions, AcquireClosed(s) PROVE NoIdleDiscipline'
  BY <1>1 DEF AcquireClosed
<1>2. ASSUME NEW s \in Sessions, AcquireExisting(s) PROVE NoIdleDiscipline'
  <2>1. entries[want[s]] \in Sessions /\ LeasedAt(entries[want[s]])
    BY <1>2, AcquireExistingObj
  <2>2. QED
    BY <1>2, <2>1 DEF AcquireExisting, LeasedAt, OthersKept
<1>3. ASSUME NEW s \in Sessions, AcquireJoin(s) PROVE NoIdleDiscipline'
  BY <1>3 DEF AcquireJoin
<1>4. ASSUME NEW s \in Sessions, AcquireCreate(s) PROVE NoIdleDiscipline'
  BY <1>4 DEF AcquireCreate, TakeSlot, Park
<1>5. ASSUME NEW s \in Sessions, InitStarts(s) PROVE NoIdleDiscipline'
  <2>1. entries[want[s]] \in Sessions /\ InitPendingAt(entries[want[s]])
    BY <1>5, InitStartsObj
  <2>2. QED
    BY <1>5, <2>1 DEF InitStarts, InitPendingAt, OthersKept
<1>6. ASSUME NEW s \in Sessions, LeasedDestroy(s) PROVE NoIdleDiscipline'
  BY <1>6 DEF LeasedDestroy
<1>7. ASSUME NEW s \in Sessions, AcquireResumes(s) PROVE NoIdleDiscipline'
  <2>1. lease[s] \in Sessions /\ LeasedAt(lease[s])
    BY <1>7, AcquireResumesObj
  <2>2. QED
    BY <1>7, <2>1 DEF AcquireResumes, LeasedAt, OthersKept
<1>8. ASSUME NEW s \in Sessions, Release(s) PROVE NoIdleDiscipline'
  <2>1. \/ entries[want[s]] = NoEntry /\ obj' = obj
        \/ entries[want[s]] \in Sessions /\ ReleasedAt(entries[want[s]])
    BY <1>8, ReleaseObj
  <2>2. UNCHANGED <<entries, want>>
    BY <1>8 DEF Release
  <2>3. CASE obj' = obj
    BY <2>2, <2>3
  <2>4. CASE entries[want[s]] \in Sessions /\ ReleasedAt(entries[want[s]])
    <3>1. PICK x \in Sessions : x = entries[want[s]] /\ ReleasedAt(x)
      BY <2>4
    <3>2. entries[want[x]] = x
      BY <3>1
    <3>3. ASSUME IdleMs = 0, NEW e \in Sessions
          PROVE  /\ ~obj'[e].timer /\ obj'[e].orphans = 0
                 /\ obj'[e].destroying => entries[want[e]] = e
      <4>1. CASE e = x
        BY <3>1, <3>2, <3>3, <4>1 DEF ReleasedAt
      <4>2. CASE e # x
        BY <3>1, <3>3, <4>2 DEF ReleasedAt, OthersKept
      <4> QED
        BY <4>1, <4>2
    <3> QED
      BY <2>2, <3>3
  <2>5. QED
    BY <2>1, <2>3, <2>4
<1>9. ASSUME NEW e \in Sessions, InitSettles(e) PROVE NoIdleDiscipline'
  <2>1. InitOverAt(e)
    BY <1>9, InitSettlesObj
  <2>2. QED
    BY <1>9, <2>1 DEF InitSettles, InitOverAt, OthersKept
<1>10. ASSUME NEW e \in Sessions, IdleTimerFires(e) PROVE NoIdleDiscipline'
  <2>1. DestroyUntimedAt(e)
    BY <1>10, IdleTimerFiresObj
  <2>2. QED
    BY <1>10, <2>1 DEF IdleTimerFires, DestroyUntimedAt, OthersKept
<1>11. ASSUME NEW e \in Sessions, OrphanTimerFires(e) PROVE NoIdleDiscipline'
  <2>1. DestroyByOrphanAt(e)
    BY <1>11, OrphanTimerFiresObj
  <2>2. QED
    BY <1>11, <2>1 DEF OrphanTimerFires, DestroyByOrphanAt, OthersKept
<1>12. ASSUME NEW e \in Sessions, NEW ok \in BOOLEAN, DestroySettles(e, ok) PROVE NoIdleDiscipline'
  <2>1. DestroyFinishedAt(e)
    BY <1>12, DestroySettlesObj
  <2>2. QED
    BY <1>12, <2>1 DEF DestroySettles, ReleaseSlot, DestroyFinishedAt, OthersKept
<1>13. ASSUME NEW k \in Keys, FactoryDone(k) PROVE NoIdleDiscipline'
  <2>1. maker[k] \in Sessions /\ MadeAt(maker[k])
    BY <1>13, FactoryDoneObj
  <2>2. QED
    BY <1>13, <2>1 DEF FactoryDone, Resolve, MadeAt, OthersKept
<1>14. ASSUME NEW k \in Keys, FactoryFails(k) PROVE NoIdleDiscipline'
  BY <1>14 DEF FactoryFails, Reject, ReleaseSlot
<1>15. ASSUME NEW k \in Keys, FactoryDoneClosed(k) PROVE NoIdleDiscipline'
  BY <1>15 DEF FactoryDoneClosed
<1>16. ASSUME NEW k \in Keys, ClosedClientDestroyed(k) PROVE NoIdleDiscipline'
  BY <1>16 DEF ClosedClientDestroyed, Reject, ReleaseSlot
<1>17. ASSUME NEW k \in Keys, DestroyKey(k) PROVE NoIdleDiscipline'
  <2>1. entries[k] \in Sessions /\ DestroyUncountedAt(entries[k])
    BY <1>17, DestroyKeyObj
  <2>2. QED
    BY <1>17, <2>1 DEF DestroyKey, DestroyUncountedAt, OthersKept
<1>18. ASSUME WokenRetries PROVE NoIdleDiscipline'
  BY <1>18 DEF WokenRetries, TakeSlot, Park, Reject
<1>19. ASSUME DestroyAll PROVE NoIdleDiscipline'
  <2>1. DestroyedAllAt
    BY <1>19, DestroyAllObj
  <2>2. QED
    BY <1>19, <2>1 DEF DestroyAll, DestroyedAllAt, OthersKept
<1>20. ASSUME DestroyAllEnds PROVE NoIdleDiscipline'
  <2>1. \A k \in Keys : entries[k] = NoEntry
    BY <1>20 DEF DestroyAllEnds, ShutdownWired
  <2>2. UNCHANGED <<entries, obj, want>>
    BY <1>20, <2>1 DEF DestroyAllEnds
  <2>3. QED
    BY <2>2
<1>21. ASSUME UNCHANGED vars PROVE NoIdleDiscipline'
  BY <1>21 DEF vars
<1>22. QED
  BY <1>1, <1>2, <1>3, <1>4, <1>5, <1>6, <1>7, <1>8, <1>9, <1>10, <1>11,
     <1>12, <1>13, <1>14, <1>15, <1>16, <1>17, <1>18, <1>19, <1>20, <1>21
     DEF Next, UserStep, CreationSettles, DestructionSettles

\* Every step of an open registry keeps its leases, counts and timers right.
LEMMA OpenStep ==
  ASSUME IInv, [Next]_vars, ~dyingLease', ~closed', NEW x \in Sessions
  PROVE  OpenEntry(x)'
<1> USE NoEntryIsNoSession
<1> USE DEF IInv, TypeOK, Wired
<1>1. ASSUME NEW s \in Sessions, AcquireClosed(s) PROVE OpenEntry(x)'
  BY <1>1 DEF AcquireClosed
<1>2. ASSUME NEW s \in Sessions, AcquireExisting(s) PROVE OpenEntry(x)'
  <2>1. PICK e \in Sessions : e = entries[want[s]] /\ LeasedAt(e)
    BY <1>2, AcquireExistingObj
  <2>2. /\ ~dyingLease /\ ~closed /\ OpenEntry(x) /\ OpenEntry(e)
        /\ ~obj[e].destroying
    BY <1>2, <2>1 DEF AcquireExisting, OpenDiscipline
  <2>3. x # e => LeaseHolders(x)' = LeaseHolders(x) /\ Counted(x)' = Counted(x)
    BY <1>2, <2>1 DEF AcquireExisting, LeaseHolders, Counted
  <2>4. s \notin Counted(e) /\ Counted(e)' = Counted(e) \cup {s} /\ initOf[s] = NoEntry
    BY <1>2, <2>1 DEF AcquireExisting, Counted, SessionWired
  <2>5. obj[e].refs + 1 = Cardinality(Counted(e)')
    <3>1. IsFiniteSet(Counted(e))
      BY SessionsFinite, FS_Subset DEF Counted
    <3>2. Cardinality(Counted(e) \cup {s}) = Cardinality(Counted(e)) + 1
      BY <2>4, <3>1, FS_AddElement
    <3>3. QED
      BY <2>2, <2>4, <3>2 DEF OpenEntry
  <2>6. entries[want[e]] = e
    BY <2>1 DEF EntryWired
  <2>7. /\ UNCHANGED <<entries, want, initOf>>
        /\ \A y \in Sessions : y # s => lease'[y] = lease[y]
    BY <1>2 DEF AcquireExisting
  <2>8. CASE x = e
    BY <2>1, <2>2, <2>4, <2>5, <2>6, <2>7, <2>8 DEF OpenEntry, LeasedAt
  <2>9. CASE x # e
    BY <2>1, <2>2, <2>3, <2>4, <2>7, <2>9 DEF OpenEntry, LeasedAt, OthersKept
  <2>10. QED
    BY <2>8, <2>9
<1>3. ASSUME NEW s \in Sessions, AcquireJoin(s) PROVE OpenEntry(x)'
  <2>1. ~dyingLease /\ ~closed /\ OpenEntry(x)
    BY <1>3 DEF AcquireJoin, OpenDiscipline
  <2>2. LeaseHolders(x)' = LeaseHolders(x) /\ Counted(x)' = Counted(x)
    BY <1>3 DEF AcquireJoin, LeaseHolders, Counted
  <2>3. QED
    BY <1>3, <2>1, <2>2 DEF AcquireJoin, OpenEntry
<1>4. ASSUME NEW s \in Sessions, AcquireCreate(s) PROVE OpenEntry(x)'
  <2>1. ~dyingLease /\ ~closed /\ OpenEntry(x)
    BY <1>4 DEF AcquireCreate, OpenDiscipline
  <2>2. LeaseHolders(x)' = LeaseHolders(x) /\ Counted(x)' = Counted(x)
    BY <1>4 DEF AcquireCreate, TakeSlot, Park, LeaseHolders, Counted
  <2>3. QED
    BY <1>4, <2>1, <2>2 DEF AcquireCreate, TakeSlot, Park, OpenEntry
<1>5. ASSUME NEW s \in Sessions, InitStarts(s) PROVE OpenEntry(x)'
  <2>1. entries[want[s]] \in Sessions /\ InitPendingAt(entries[want[s]])
    BY <1>5, InitStartsObj
  <2>2. ~dyingLease /\ ~closed /\ OpenEntry(x) /\ OpenEntry(lease[s]) /\ lease[s] \in Sessions
    BY <1>5 DEF InitStarts, OpenDiscipline, SessionWired, Leasing
  <2>3. LeaseHolders(x)' = LeaseHolders(x) /\ Counted(x)' = Counted(x)
    BY <1>5 DEF InitStarts, LeaseHolders, Counted
  <2>4. s \in LeaseHolders(lease[s]) /\ want[lease[s]] = want[s]
    BY <1>5 DEF InitStarts, LeaseHolders, SessionWired, Leasing
  <2>5. lease[s] = entries[want[s]]
    BY <2>2, <2>4 DEF OpenEntry
  <2>6. QED
    BY <1>5, <2>1, <2>2, <2>3, <2>5 DEF InitStarts, OpenEntry, OthersKept, InitPendingAt
<1>6. ASSUME NEW s \in Sessions, LeasedDestroy(s) PROVE OpenEntry(x)'
  <2>1. ~dyingLease /\ ~closed /\ OpenEntry(x)
    BY <1>6 DEF LeasedDestroy, OpenDiscipline
  <2>2. LeaseHolders(x)' = LeaseHolders(x) /\ Counted(x)' = Counted(x)
    BY <1>6 DEF LeasedDestroy, LeaseHolders, Counted
  <2>3. QED
    BY <1>6, <2>1, <2>2 DEF LeasedDestroy, OpenEntry
<1>7. ASSUME NEW s \in Sessions, AcquireResumes(s) PROVE OpenEntry(x)'
  <2>1. PICK e \in Sessions : e = lease[s] /\ LeasedAt(e)
    BY <1>7, AcquireResumesObj
  <2>2. /\ ~dyingLease /\ ~closed /\ OpenEntry(x) /\ OpenEntry(e)
        /\ ~obj[e].destroying
    BY <1>7, <2>1 DEF AcquireResumes, OpenDiscipline
  <2>3. x # e => LeaseHolders(x)' = LeaseHolders(x) /\ Counted(x)' = Counted(x)
    BY <1>7, <2>1 DEF AcquireResumes, LeaseHolders, Counted
  <2>4. s \notin Counted(e) /\ Counted(e)' = Counted(e) \cup {s} /\ initOf[s] = NoEntry
    BY <1>7, <2>1 DEF AcquireResumes, Counted, SessionWired
  <2>5. obj[e].refs + 1 = Cardinality(Counted(e)')
    <3>1. IsFiniteSet(Counted(e))
      BY SessionsFinite, FS_Subset DEF Counted
    <3>2. Cardinality(Counted(e) \cup {s}) = Cardinality(Counted(e)) + 1
      BY <2>4, <3>1, FS_AddElement
    <3>3. QED
      BY <2>2, <2>4, <3>2 DEF OpenEntry
  <2>6. entries[want[e]] = e
    <3>1. s \in LeaseHolders(e)
      BY <1>7, <2>1 DEF AcquireResumes, LeaseHolders
    <3>2. QED
      BY <2>2, <3>1 DEF OpenEntry
  <2>7. /\ UNCHANGED <<entries, want, initOf>>
        /\ \A y \in Sessions : y # s => lease'[y] = lease[y]
    BY <1>7 DEF AcquireResumes
  <2>8. CASE x = e
    BY <2>1, <2>2, <2>4, <2>5, <2>6, <2>7, <2>8 DEF OpenEntry, LeasedAt
  <2>9. CASE x # e
    BY <2>1, <2>2, <2>3, <2>4, <2>7, <2>9 DEF OpenEntry, LeasedAt, OthersKept
  <2>10. QED
    BY <2>8, <2>9
<1>8. ASSUME NEW s \in Sessions, Release(s) PROVE OpenEntry(x)'
  <2>0. PICK e \in Sessions : e = lease[s]
    BY <1>8 DEF Release, SessionWired, Leasing
  <2>1. ~dyingLease /\ ~closed /\ OpenEntry(x) /\ OpenEntry(e)
    BY <1>8 DEF Release, OpenDiscipline
  <2>2. s \in LeaseHolders(e) /\ s \in Counted(e) /\ want[e] = want[s]
    BY <1>8, <2>0 DEF Release, LeaseHolders, Counted, SessionWired, Leasing
  <2>3. e = entries[want[s]] /\ ~obj[e].destroying /\ ~obj[e].destroyed /\ ~obj[e].timer
    BY <2>1, <2>2 DEF OpenEntry
  <2>4. ReleasedAt(e)
    BY <1>8, <2>1, <2>3, ReleaseObj
  <2>5. /\ x # e => LeaseHolders(x)' = LeaseHolders(x) /\ Counted(x)' = Counted(x)
        /\ Counted(e)' = Counted(e) \ {s} /\ LeaseHolders(e)' = Counted(e) \ {s}
    BY <1>8, <2>0 DEF Release, LeaseHolders, Counted, Resuming
  <2>6. UNCHANGED <<entries, want, initOf, lease>>
    BY <1>8 DEF Release
  <2>7. /\ obj[e].refs # 0 /\ obj[e].refs - 1 = Cardinality(Counted(e) \ {s})
        /\ obj[e].refs - 1 = 0 <=> Counted(e) \ {s} = {}
    <3>1. IsFiniteSet(Counted(e)) /\ IsFiniteSet(Counted(e) \ {s})
      BY SessionsFinite, FS_Subset DEF Counted
    <3>2. Cardinality(Counted(e) \ {s}) = Cardinality(Counted(e)) - 1
      BY <2>2, <3>1, FS_RemoveElement
    <3>3. Cardinality(Counted(e)) # 0
      BY <2>2, <3>1, FS_EmptySet
    <3>4. Cardinality(Counted(e) \ {s}) = 0 <=> Counted(e) \ {s} = {}
      BY <3>1, FS_EmptySet
    <3>5. QED
      BY <2>1, <3>2, <3>3, <3>4 DEF OpenEntry
  <2>8. CASE x = e
    <3>1. /\ obj'[e].refs = Cardinality(Counted(e)')
          /\ obj'[e].refs = 0 <=> LeaseHolders(e)' = {}
      BY <2>4, <2>5, <2>7 DEF ReleasedAt
    <3>2. /\ obj'[e].orphans = 0 /\ ~obj'[e].destroyed
          /\ obj'[e].refs # 0 => ~obj'[e].timer /\ ~obj'[e].destroying
      BY <2>1, <2>3, <2>4 DEF ReleasedAt, OpenEntry
    <3>3. /\ obj'[e].timer => ~obj'[e].destroying
          /\ obj'[e].destroying => obj'[e].state = "destroying"
      BY <2>3, <2>4, IdleMsIsNat DEF ReleasedAt
    <3>4. QED
      BY <2>1, <2>2, <2>3, <2>6, <2>8, <3>1, <3>2, <3>3 DEF OpenEntry
  <2>9. CASE x # e
    BY <2>1, <2>4, <2>5, <2>6, <2>9 DEF OpenEntry, ReleasedAt, OthersKept
  <2>10. QED
    BY <2>8, <2>9
<1>9. ASSUME NEW e \in Sessions, InitSettles(e) PROVE OpenEntry(x)'
  <2>1. InitOverAt(e)
    BY <1>9, InitSettlesObj
  <2>2. ~dyingLease /\ ~closed /\ OpenEntry(x) /\ OpenEntry(e)
    BY <1>9, <2>1 DEF InitSettles, OpenDiscipline
  <2>3. LeaseHolders(x)' = LeaseHolders(x) /\ Counted(x)' = Counted(x)
    BY <1>9 DEF InitSettles, LeaseHolders, Counted
  <2>4. QED
    BY <1>9, <2>1, <2>2, <2>3 DEF InitSettles, OpenEntry, OthersKept, InitOverAt
<1>10. ASSUME NEW e \in Sessions, IdleTimerFires(e) PROVE OpenEntry(x)'
  <2>1. DestroyUntimedAt(e)
    BY <1>10, IdleTimerFiresObj
  <2>2. ~dyingLease /\ ~closed /\ OpenEntry(x) /\ OpenEntry(e)
    BY <1>10, <2>1 DEF IdleTimerFires, OpenDiscipline
  <2>3. LeaseHolders(x)' = LeaseHolders(x) /\ Counted(x)' = Counted(x)
    BY <1>10 DEF IdleTimerFires, LeaseHolders, Counted
  <2>4. QED
    BY <1>10, <2>1, <2>2, <2>3 DEF IdleTimerFires, OpenEntry, OthersKept, DestroyUntimedAt
<1>11. ASSUME NEW e \in Sessions, OrphanTimerFires(e) PROVE OpenEntry(x)'
  <2>1. DestroyByOrphanAt(e)
    BY <1>11, OrphanTimerFiresObj
  <2>2. ~dyingLease /\ ~closed /\ OpenEntry(x) /\ OpenEntry(e)
    BY <1>11, <2>1 DEF OrphanTimerFires, OpenDiscipline
  <2>3. LeaseHolders(x)' = LeaseHolders(x) /\ Counted(x)' = Counted(x)
    BY <1>11 DEF OrphanTimerFires, LeaseHolders, Counted
  <2>4. QED
    BY <1>11, <2>1, <2>2, <2>3 DEF OrphanTimerFires, OpenEntry, OthersKept, DestroyByOrphanAt
<1>12. ASSUME NEW e \in Sessions, NEW ok \in BOOLEAN, DestroySettles(e, ok) PROVE OpenEntry(x)'
  <2>1. DestroyFinishedAt(e)
    BY <1>12, DestroySettlesObj
  <2>2. ~dyingLease /\ ~closed /\ OpenEntry(x) /\ OpenEntry(e)
    BY <1>12, <2>1 DEF DestroySettles, OpenDiscipline
  <2>3. LeaseHolders(x)' = LeaseHolders(x) /\ Counted(x)' = Counted(x)
    BY <1>12 DEF DestroySettles, ReleaseSlot, LeaseHolders, Counted
  <2>4. QED
    BY <1>12, <2>1, <2>2, <2>3 DEF DestroySettles, ReleaseSlot, OpenEntry, OthersKept, DestroyFinishedAt
<1>13. ASSUME NEW k \in Keys, FactoryDone(k) PROVE OpenEntry(x)'
  <2>1. maker[k] \in Sessions /\ MadeAt(maker[k])
    BY <1>13, FactoryDoneObj
  <2>2. ~dyingLease /\ ~closed /\ OpenEntry(x)
    BY <1>13 DEF FactoryDone, OpenDiscipline
  <2>3. /\ Counted(x)' = Counted(x)
        /\ x # maker[k] => LeaseHolders(x)' = LeaseHolders(x)
    BY <1>13, <2>1 DEF FactoryDone, Resolve, LeaseHolders, Counted
  <2>4. /\ entries[k] = NoEntry /\ want[maker[k]] = k /\ obj[maker[k]] = FreshEntry
        /\ creating[k] = "factory"
    BY <1>13 DEF FactoryDone, CreationWired
  <2>5. initOf[x] # NoEntry => lease'[x] = lease[x]
    BY <1>13 DEF FactoryDone, Resolve, SessionWired
  <2>6. QED
    BY <1>13, <2>1, <2>2, <2>3, <2>4, <2>5, FreshFacts
       DEF FactoryDone, OpenEntry, OthersKept, MadeAt
<1>14. ASSUME NEW k \in Keys, FactoryFails(k) PROVE OpenEntry(x)'
  <2>1. ~dyingLease /\ ~closed /\ OpenEntry(x)
    BY <1>14 DEF FactoryFails, OpenDiscipline
  <2>2. LeaseHolders(x)' = LeaseHolders(x) /\ Counted(x)' = Counted(x)
    BY <1>14 DEF FactoryFails, Reject, ReleaseSlot, LeaseHolders, Counted
  <2>3. QED
    BY <1>14, <2>1, <2>2 DEF FactoryFails, Reject, ReleaseSlot, OpenEntry
<1>15. ASSUME NEW k \in Keys, FactoryDoneClosed(k) PROVE OpenEntry(x)'
  BY <1>15 DEF FactoryDoneClosed
<1>16. ASSUME NEW k \in Keys, ClosedClientDestroyed(k) PROVE OpenEntry(x)'
  <2>1. ~dyingLease /\ ~closed /\ OpenEntry(x)
    BY <1>16 DEF ClosedClientDestroyed, OpenDiscipline
  <2>2. LeaseHolders(x)' = LeaseHolders(x) /\ Counted(x)' = Counted(x)
    BY <1>16 DEF ClosedClientDestroyed, Reject, ReleaseSlot, LeaseHolders, Counted
  <2>3. QED
    BY <1>16, <2>1, <2>2 DEF ClosedClientDestroyed, Reject, ReleaseSlot, OpenEntry
<1>17. ASSUME NEW k \in Keys, DestroyKey(k) PROVE OpenEntry(x)'
  <2>1. PICK e \in Sessions : e = entries[k] /\ DestroyUncountedAt(e)
    BY <1>17, DestroyKeyObj
  <2>2. ~dyingLease /\ ~closed /\ OpenEntry(x) /\ OpenEntry(e) /\ LeaseHolders(e) = {}
    BY <1>17, <2>1 DEF DestroyKey, OpenDiscipline
  <2>3. LeaseHolders(x)' = LeaseHolders(x) /\ Counted(x)' = Counted(x)
    BY <1>17 DEF DestroyKey, LeaseHolders, Counted
  <2>4. Cardinality(Counted(e)) = 0
    <3>1. Counted(e) = {}
      BY <2>2 DEF Counted, LeaseHolders
    <3>2. QED
      BY <3>1, FS_EmptySet
  <2>5. entries[want[e]] = e /\ UNCHANGED <<entries, want, initOf, lease>>
    BY <1>17, <2>1 DEF DestroyKey, EntryWired
  <2>6. QED
    BY <2>1, <2>2, <2>3, <2>4, <2>5 DEF OpenEntry, OthersKept, DestroyUncountedAt
<1>18. ASSUME WokenRetries PROVE OpenEntry(x)'
  <2>1. ~dyingLease /\ ~closed /\ OpenEntry(x) /\ UNCHANGED <<pc, lease>>
    BY <1>18 DEF WokenRetries, OpenDiscipline
  <2>2. LeaseHolders(x)' = LeaseHolders(x) /\ Counted(x)' = Counted(x)
    BY <2>1 DEF LeaseHolders, Counted
  <2>3. UNCHANGED <<entries, obj, want, initOf>>
    BY <1>18 DEF WokenRetries
  <2>4. QED
    BY <2>1, <2>2, <2>3 DEF OpenEntry
<1>19. ASSUME DestroyAll PROVE OpenEntry(x)'
  BY <1>19 DEF DestroyAll
<1>20. ASSUME DestroyAllEnds PROVE OpenEntry(x)'
  BY <1>20 DEF DestroyAllEnds, ShutdownWired
<1>21. ASSUME UNCHANGED vars PROVE OpenEntry(x)'
  <2>1. OpenEntry(x) /\ UNCHANGED vars
    BY <1>21 DEF OpenDiscipline, vars
  <2>2. LeaseHolders(x)' = LeaseHolders(x) /\ Counted(x)' = Counted(x)
    BY <2>1 DEF LeaseHolders, Counted, vars
  <2>3. QED
    BY <2>1, <2>2 DEF OpenEntry, vars
<1>22. QED
  BY <1>1, <1>2, <1>3, <1>4, <1>5, <1>6, <1>7, <1>8, <1>9, <1>10, <1>11,
     <1>12, <1>13, <1>14, <1>15, <1>16, <1>17, <1>18, <1>19, <1>20, <1>21
     DEF Next, UserStep, CreationSettles, DestructionSettles

\* Closing stops the timers and starts every destruction, and it stays so.
LEMMA ClosedStep == IInv /\ [Next]_vars => ClosedDiscipline'
<1> SUFFICES ASSUME IInv, [Next]_vars PROVE ClosedDiscipline'
  OBVIOUS
<1> USE NoEntryIsNoSession
<1> USE DEF IInv, TypeOK, Wired, ClosedDiscipline
<1>1. ASSUME NEW s \in Sessions, AcquireClosed(s) PROVE ClosedDiscipline'
  BY <1>1 DEF AcquireClosed, Resuming
<1>2. ASSUME NEW s \in Sessions, AcquireExisting(s) PROVE ClosedDiscipline'
  BY <1>2 DEF AcquireExisting, Resuming
<1>3. ASSUME NEW s \in Sessions, AcquireJoin(s) PROVE ClosedDiscipline'
  BY <1>3 DEF AcquireJoin, Resuming
<1>4. ASSUME NEW s \in Sessions, AcquireCreate(s) PROVE ClosedDiscipline'
  BY <1>4 DEF AcquireCreate, TakeSlot, Park, Resuming
<1>5. ASSUME NEW s \in Sessions, InitStarts(s) PROVE ClosedDiscipline'
  <2>1. entries[want[s]] \in Sessions /\ InitPendingAt(entries[want[s]])
    BY <1>5, InitStartsObj
  <2>2. QED
    BY <1>5, <2>1, ZenonT(30) DEF InitStarts, InitPendingAt, OthersKept, Resuming
<1>6. ASSUME NEW s \in Sessions, LeasedDestroy(s) PROVE ClosedDiscipline'
  BY <1>6 DEF LeasedDestroy, Resuming
<1>7. ASSUME NEW s \in Sessions, AcquireResumes(s) PROVE ClosedDiscipline'
  BY <1>7 DEF AcquireResumes, Resuming
<1>8. ASSUME NEW s \in Sessions, Release(s) PROVE ClosedDiscipline'
  <2>1. \/ entries[want[s]] = NoEntry /\ obj' = obj
        \/ entries[want[s]] \in Sessions /\ ReleasedAt(entries[want[s]])
    BY <1>8, ReleaseObj
  <2>2. want[entries[want[s]]] = want[s] \/ entries[want[s]] = NoEntry
    BY <1>8 DEF Release, EntryWired
  <2>3. QED
    BY <1>8, <2>1, <2>2, ZenonT(30) DEF Release, ReleasedAt, OthersKept, Resuming
<1>9. ASSUME NEW e \in Sessions, InitSettles(e) PROVE ClosedDiscipline'
  <2>1. InitOverAt(e)
    BY <1>9, InitSettlesObj
  <2>2. QED
    BY <1>9, <2>1 DEF InitSettles, InitOverAt, OthersKept, Resuming
<1>10. ASSUME NEW e \in Sessions, IdleTimerFires(e) PROVE ClosedDiscipline'
  <2>1. DestroyUntimedAt(e)
    BY <1>10, IdleTimerFiresObj
  <2>2. QED
    BY <1>10, <2>1 DEF IdleTimerFires, DestroyUntimedAt, OthersKept, Resuming
<1>11. ASSUME NEW e \in Sessions, OrphanTimerFires(e) PROVE ClosedDiscipline'
  <2>1. DestroyByOrphanAt(e)
    BY <1>11, OrphanTimerFiresObj
  <2>2. QED
    BY <1>11, <2>1 DEF OrphanTimerFires, DestroyByOrphanAt, OthersKept, Resuming
<1>12. ASSUME NEW e \in Sessions, NEW ok \in BOOLEAN, DestroySettles(e, ok) PROVE ClosedDiscipline'
  <2>1. DestroyFinishedAt(e)
    BY <1>12, DestroySettlesObj
  <2>2. QED
    BY <1>12, <2>1 DEF DestroySettles, ReleaseSlot, DestroyFinishedAt, OthersKept, Resuming
<1>13. ASSUME NEW k \in Keys, FactoryDone(k) PROVE ClosedDiscipline'
  BY <1>13 DEF FactoryDone, Resolve, Resuming
<1>14. ASSUME NEW k \in Keys, FactoryFails(k) PROVE ClosedDiscipline'
  BY <1>14 DEF FactoryFails, Reject, ReleaseSlot, Resuming
<1>15. ASSUME NEW k \in Keys, FactoryDoneClosed(k) PROVE ClosedDiscipline'
  BY <1>15 DEF FactoryDoneClosed, Resuming
<1>16. ASSUME NEW k \in Keys, ClosedClientDestroyed(k) PROVE ClosedDiscipline'
  BY <1>16 DEF ClosedClientDestroyed, Reject, ReleaseSlot, Resuming
<1>17. ASSUME NEW k \in Keys, DestroyKey(k) PROVE ClosedDiscipline'
  <2>1. PICK e \in Sessions : e = entries[k] /\ DestroyUncountedAt(e)
    BY <1>17, DestroyKeyObj
  <2>2. entries[want[e]] = e /\ UNCHANGED <<entries, want, pc, closed>>
    BY <1>17, <2>1 DEF DestroyKey, EntryWired
  <2>3. dyingLease' = FALSE => dyingLease = FALSE
    BY <1>17 DEF DestroyKey
  <2>4. QED
    BY <2>1, <2>2, <2>3, SMTT(30) DEF Resuming, OthersKept, DestroyUncountedAt
<1>18. ASSUME WokenRetries PROVE ClosedDiscipline'
  <2>1. pc' = pc \/ Reject(Head(woken))
    BY <1>18 DEF WokenRetries
  <2>2. ~Resuming => ~Resuming'
    BY <2>1 DEF Resuming, Reject
  <2>3. UNCHANGED <<closed, dyingLease, obj, entries, want>>
    BY <1>18 DEF WokenRetries
  <2>4. QED
    BY <2>2, <2>3
<1>19. ASSUME DestroyAll PROVE ClosedDiscipline'
  <2>1. DestroyedAllAt
    BY <1>19, DestroyAllObj
  <2>2. SUFFICES ASSUME ~dyingLease'
                 PROVE  ClosedDiscipline'
    OBVIOUS
  <2>3. ~Resuming /\ ~Resuming' /\ \A e \in Sessions : OpenEntry(e)
    BY <1>19, <2>2 DEF DestroyAll, OpenDiscipline, Resuming
  <2>4. UNCHANGED <<entries, want>>
    BY <1>19 DEF DestroyAll
  <2>5. QED
    BY <2>1, <2>3, <2>4 DEF DestroyedAllAt, OpenEntry
<1>20. ASSUME DestroyAllEnds PROVE ClosedDiscipline'
  <2>1. \A k \in Keys : entries[k] = NoEntry
    BY <1>20 DEF DestroyAllEnds, ShutdownWired
  <2>2. entries' = entries
    BY <1>20, <2>1 DEF DestroyAllEnds
  <2>3. QED
    BY <1>20, <2>2 DEF DestroyAllEnds, Resuming
<1>21. ASSUME UNCHANGED vars PROVE ClosedDiscipline'
  BY <1>21 DEF vars, Resuming
<1>22. QED
  BY <1>1, <1>2, <1>3, <1>4, <1>5, <1>6, <1>7, <1>8, <1>9, <1>10, <1>11,
     <1>12, <1>13, <1>14, <1>15, <1>16, <1>17, <1>18, <1>19, <1>20, <1>21
     DEF Next, UserStep, CreationSettles, DestructionSettles

\* Taking a slot for a key that holds none, or parking it.
LEMMA SlotTaken ==
  ASSUME TypeOK, SlotAccounting, NEW k \in Keys,
         creating[k] \in {"none", "slot"}, entries[k] = NoEntry,
         TakeSlot(k) \/ Park(k), UNCHANGED <<entries, dyingLease>>
  PROVE  SlotAccounting'
<1>1. IsFiniteSet(Holders) /\ k \notin Holders
  BY KeysFinite, FS_Subset DEF Holders
<1>2. CASE TakeSlot(k)
  <2>1. Holders' = Holders \cup {k} /\ activeSlots' = activeSlots + 1
    BY <1>2 DEF TakeSlot, Holders, TypeOK
  <2>2. Cardinality(Holders \cup {k}) = Cardinality(Holders) + 1
    BY <1>1, FS_AddElement
  <2>3. QED
    BY <2>1, <2>2 DEF SlotAccounting
<1>3. CASE Park(k)
  <2>1. Holders' = Holders /\ activeSlots' = activeSlots
    BY <1>3 DEF Park, Holders, TypeOK
  <2>2. QED
    BY <2>1 DEF SlotAccounting
<1>4. QED
  BY <1>2, <1>3

\* Giving back the slot of a key that held one.
LEMMA SlotReturned ==
  ASSUME TypeOK, SlotAccounting, NEW k \in Holders, ReleaseSlot,
         Holders' = Holders \ {k}, dyingLease' = dyingLease
  PROVE  SlotAccounting'
<1>1. SUFFICES ASSUME IdleMs = 0 \/ ~dyingLease
               PROVE  activeSlots' = Cardinality(Holders')
  BY DEF SlotAccounting
<1>2. IsFiniteSet(Holders)
  BY KeysFinite, FS_Subset DEF Holders
<1>3. activeSlots = Cardinality(Holders) /\ activeSlots \in Nat
  BY <1>1 DEF SlotAccounting, TypeOK
<1>4. Cardinality(Holders \ {k}) = Cardinality(Holders) - 1
  BY <1>2, FS_RemoveElement
<1>5. Cardinality(Holders) # 0
  BY <1>2, FS_EmptySet
<1>6. activeSlots' = activeSlots - 1
  BY <1>3, <1>5 DEF ReleaseSlot
<1>7. QED
  BY <1>3, <1>4, <1>6

\* Every step keeps the slots accounted for.
LEMMA SlotStep == IInv /\ [Next]_vars => SlotAccounting'
<1> SUFFICES ASSUME IInv, [Next]_vars PROVE SlotAccounting'
  OBVIOUS
<1> USE NoEntryIsNoSession
<1> USE DEF IInv, TypeOK, Wired
<1>1. ASSUME NEW s \in Sessions, AcquireClosed(s) PROVE SlotAccounting'
  <2>1. Holders' = Holders /\ activeSlots' = activeSlots /\ (dyingLease => dyingLease')
    BY <1>1 DEF AcquireClosed, Holders
  <2>2. QED
    BY <2>1 DEF SlotAccounting
<1>2. ASSUME NEW s \in Sessions, AcquireExisting(s) PROVE SlotAccounting'
  <2>1. Holders' = Holders /\ activeSlots' = activeSlots /\ (dyingLease => dyingLease')
    BY <1>2 DEF AcquireExisting, Holders
  <2>2. QED
    BY <2>1 DEF SlotAccounting
<1>3. ASSUME NEW s \in Sessions, AcquireJoin(s) PROVE SlotAccounting'
  <2>1. Holders' = Holders /\ activeSlots' = activeSlots /\ (dyingLease => dyingLease')
    BY <1>3 DEF AcquireJoin, Holders
  <2>2. QED
    BY <2>1 DEF SlotAccounting
<1>4. ASSUME NEW s \in Sessions, AcquireCreate(s) PROVE SlotAccounting'
  <2>1. /\ want[s] \in Keys /\ creating[want[s]] = "none" /\ entries[want[s]] = NoEntry
        /\ TakeSlot(want[s]) \/ Park(want[s])
        /\ UNCHANGED <<entries, dyingLease>>
    BY <1>4 DEF AcquireCreate
  <2>2. QED
    BY <2>1, SlotTaken
<1>5. ASSUME NEW s \in Sessions, InitStarts(s) PROVE SlotAccounting'
  <2>1. Holders' = Holders /\ activeSlots' = activeSlots /\ (dyingLease => dyingLease')
    BY <1>5 DEF InitStarts, Holders
  <2>2. QED
    BY <2>1 DEF SlotAccounting
<1>6. ASSUME NEW s \in Sessions, LeasedDestroy(s) PROVE SlotAccounting'
  <2>1. Holders' = Holders /\ activeSlots' = activeSlots /\ (dyingLease => dyingLease')
    BY <1>6 DEF LeasedDestroy, Holders
  <2>2. QED
    BY <2>1 DEF SlotAccounting
<1>7. ASSUME NEW s \in Sessions, AcquireResumes(s) PROVE SlotAccounting'
  <2>1. Holders' = Holders /\ activeSlots' = activeSlots /\ (dyingLease => dyingLease')
    BY <1>7 DEF AcquireResumes, Holders
  <2>2. QED
    BY <2>1 DEF SlotAccounting
<1>8. ASSUME NEW s \in Sessions, Release(s) PROVE SlotAccounting'
  <2>1. Holders' = Holders /\ activeSlots' = activeSlots /\ (dyingLease => dyingLease')
    BY <1>8 DEF Release, Holders
  <2>2. QED
    BY <2>1 DEF SlotAccounting
<1>9. ASSUME NEW e \in Sessions, InitSettles(e) PROVE SlotAccounting'
  <2>1. Holders' = Holders /\ activeSlots' = activeSlots /\ (dyingLease => dyingLease')
    BY <1>9 DEF InitSettles, Holders
  <2>2. QED
    BY <2>1 DEF SlotAccounting
<1>10. ASSUME NEW e \in Sessions, IdleTimerFires(e) PROVE SlotAccounting'
  <2>1. Holders' = Holders /\ activeSlots' = activeSlots /\ (dyingLease => dyingLease')
    BY <1>10 DEF IdleTimerFires, Holders
  <2>2. QED
    BY <2>1 DEF SlotAccounting
<1>11. ASSUME NEW e \in Sessions, OrphanTimerFires(e) PROVE SlotAccounting'
  <2>1. Holders' = Holders /\ activeSlots' = activeSlots /\ (dyingLease => dyingLease')
    BY <1>11 DEF OrphanTimerFires, Holders
  <2>2. QED
    BY <2>1 DEF SlotAccounting
<1>12. ASSUME NEW e \in Sessions, NEW ok \in BOOLEAN, DestroySettles(e, ok) PROVE SlotAccounting'
  <2>1. SUFFICES ASSUME IdleMs = 0 \/ ~dyingLease'
                 PROVE  SlotAccounting'
    BY DEF SlotAccounting
  <2>2. dyingLease' = dyingLease /\ obj[e].destroying /\ ReleaseSlot
    BY <1>12 DEF DestroySettles
  <2>3. want[e] \in Keys /\ entries[want[e]] = e
    BY <2>1, <2>2 DEF OpenDiscipline, OpenEntry, ClosedDiscipline, NoIdleDiscipline
  <2>4. creating[want[e]] = "none"
    BY <2>3 DEF CreationWired
  <2>5. want[e] \in Holders /\ Holders' = Holders \ {want[e]}
    BY <1>12, <2>3, <2>4 DEF DestroySettles, Holders
  <2>6. QED
    BY <2>2, <2>3, <2>5, SlotReturned
<1>13. ASSUME NEW k \in Keys, FactoryDone(k) PROVE SlotAccounting'
  <2>1. entries[k] = NoEntry /\ maker[k] \in Sessions
    BY <1>13 DEF FactoryDone, CreationWired
  <2>2. Holders' = Holders /\ activeSlots' = activeSlots /\ dyingLease' = dyingLease
    BY <1>13, <2>1 DEF FactoryDone, Resolve, Holders
  <2>3. QED
    BY <2>2 DEF SlotAccounting
<1>14. ASSUME NEW k \in Keys, FactoryFails(k) PROVE SlotAccounting'
  <2>1. entries[k] = NoEntry /\ k \in Holders
    BY <1>14 DEF FactoryFails, CreationWired, Holders
  <2>2. Holders' = Holders \ {k} /\ ReleaseSlot /\ dyingLease' = dyingLease
    BY <1>14, <2>1 DEF FactoryFails, Reject, Holders
  <2>3. QED
    BY <2>1, <2>2, SlotReturned
<1>15. ASSUME NEW k \in Keys, FactoryDoneClosed(k) PROVE SlotAccounting'
  <2>1. Holders' = Holders /\ activeSlots' = activeSlots /\ (dyingLease => dyingLease')
    BY <1>15 DEF FactoryDoneClosed, Holders
  <2>2. QED
    BY <2>1 DEF SlotAccounting
<1>16. ASSUME NEW k \in Keys, ClosedClientDestroyed(k) PROVE SlotAccounting'
  <2>1. entries[k] = NoEntry /\ k \in Holders
    BY <1>16 DEF ClosedClientDestroyed, CreationWired, Holders
  <2>2. Holders' = Holders \ {k} /\ ReleaseSlot /\ dyingLease' = dyingLease
    BY <1>16, <2>1 DEF ClosedClientDestroyed, Reject, Holders
  <2>3. QED
    BY <2>1, <2>2, SlotReturned
<1>17. ASSUME NEW k \in Keys, DestroyKey(k) PROVE SlotAccounting'
  <2>1. Holders' = Holders /\ activeSlots' = activeSlots /\ (dyingLease => dyingLease')
    BY <1>17 DEF DestroyKey, Holders
  <2>2. QED
    BY <2>1 DEF SlotAccounting
<1>18. ASSUME WokenRetries PROVE SlotAccounting'
  <2>1. Head(woken) \in Keys /\ creating[Head(woken)] = "slot"
    BY <1>18, HeadQueued DEF WokenRetries
  <2>2. entries[Head(woken)] = NoEntry /\ UNCHANGED <<entries, dyingLease>>
    BY <1>18, <2>1 DEF WokenRetries, CreationWired
  <2>3. CASE TakeSlot(Head(woken)) \/ Park(Head(woken))
    BY <2>1, <2>2, <2>3, SlotTaken
  <2>4. CASE Reject(Head(woken)) /\ activeSlots' = activeSlots
    <3>1. Holders' = Holders
      BY <2>1, <2>2, <2>4 DEF Reject, Holders
    <3>2. QED
      BY <2>2, <2>4, <3>1 DEF SlotAccounting
  <2>5. QED
    BY <1>18, <2>3, <2>4 DEF WokenRetries
<1>19. ASSUME DestroyAll PROVE SlotAccounting'
  <2>1. Holders' = Holders /\ activeSlots' = activeSlots /\ (dyingLease => dyingLease')
    BY <1>19 DEF DestroyAll, Holders
  <2>2. QED
    BY <2>1 DEF SlotAccounting
<1>20. ASSUME DestroyAllEnds PROVE SlotAccounting'
  <2>1. \A k \in Keys : entries[k] = NoEntry
    BY <1>20 DEF DestroyAllEnds, ShutdownWired
  <2>2. Holders' = Holders /\ activeSlots' = activeSlots /\ dyingLease' = dyingLease
    BY <1>20, <2>1 DEF DestroyAllEnds, Holders
  <2>3. QED
    BY <2>2 DEF SlotAccounting
<1>21. ASSUME UNCHANGED vars PROVE SlotAccounting'
  <2>1. Holders' = Holders /\ activeSlots' = activeSlots /\ (dyingLease => dyingLease')
    BY <1>21 DEF vars, Holders
  <2>2. QED
    BY <2>1 DEF SlotAccounting
<1>22. QED
  BY <1>1, <1>2, <1>3, <1>4, <1>5, <1>6, <1>7, <1>8, <1>9, <1>10, <1>11,
     <1>12, <1>13, <1>14, <1>15, <1>16, <1>17, <1>18, <1>19, <1>20, <1>21
     DEF Next, UserStep, CreationSettles, DestructionSettles

-----------------------------------------------------------------------------
(* The theorems.                                                           *)

\* The invariant holds at the start.
LEMMA InitIInv == Init => IInv
<1> SUFFICES ASSUME Init PROVE IInv
  OBVIOUS
<1>1. TypeOK
  <2>1. activeSlots \in 0..MaxActive
    BY MaxActivePositive DEF Init
  <2>2. waiters \in Seq(Keys) /\ woken \in Seq(Keys)
    BY DEF Init
  <2>3. obj \in [Sessions -> EntryRecord]
    BY FreshFacts DEF Init
  <2>4. QED
    BY <2>1, <2>2, <2>3 DEF Init, TypeOK, PC, Phase
<1>2. Wired
  BY FreshFacts DEF Init, Wired, CreationWired, EntryWired, SessionWired, InitWired,
     ShutdownWired, Leasing
<1>3. Queued /\ NoLostWakeup
  BY DEF Init, Queued, NoLostWakeup
<1>4. \A e \in Sessions : Counted(e) = {} /\ LeaseHolders(e) = {}
  BY DEF Init, Counted, LeaseHolders
<1>5. \A e \in Sessions : Cardinality(Counted(e)) = 0
  BY <1>4, FS_EmptySet
<1>6. OpenDiscipline
  BY <1>4, <1>5, FreshFacts DEF Init, OpenDiscipline, OpenEntry
<1>7. ClosedDiscipline /\ NoIdleDiscipline
  BY FreshFacts DEF Init, ClosedDiscipline, NoIdleDiscipline
<1>8. SlotAccounting
  <2>1. Holders = {}
    BY DEF Init, Holders
  <2>2. QED
    BY <2>1, FS_EmptySet DEF Init, SlotAccounting
<1>9. QED
  BY <1>1, <1>2, <1>3, <1>6, <1>7, <1>8 DEF IInv

\* Every step keeps the invariant.
LEMMA NextIInv == IInv /\ [Next]_vars => IInv'
<1> SUFFICES ASSUME IInv, [Next]_vars PROVE IInv'
  OBVIOUS
<1>1. TypeOK /\ Wired /\ Queued /\ NoLostWakeup
  BY DEF IInv
<1>2. TypeOK'
  BY <1>1, TypeStep
<1>3. Wired'
  BY <1>1, CreationStep, EntryStep, SessionStep, InitStep, ShutdownStep DEF Wired
<1>4. Queued' /\ NoLostWakeup'
  BY <1>1, QueueStep, WakeupStep
<1>5. OpenDiscipline'
  BY OpenStep DEF OpenDiscipline
<1>6. ClosedDiscipline' /\ NoIdleDiscipline'
  BY ClosedStep, NoIdleStep
<1>7. SlotAccounting'
  BY SlotStep
<1>8. QED
  BY <1>2, <1>3, <1>4, <1>5, <1>6, <1>7 DEF IInv

\* The inductive invariant holds in every reachable state.
THEOREM Invariance == Spec => []IInv
<1>1. Init => IInv
  BY InitIInv
<1>2. IInv /\ [Next]_vars => IInv'
  BY NextIInv
<1>3. QED
  BY <1>1, <1>2, PTL DEF Spec

\* Every variable keeps its type; activeSlots never passes maxActiveSessions.
THEOREM TypeCorrect == Spec => []TypeOK
<1>1. IInv => TypeOK
  BY DEF IInv
<1>2. QED
  BY <1>1, Invariance, PTL

\* The registry's slot count is exact (source-session-registry.ts, acquireSlot
\* and releaseSlot): without an idle time always, with one as long as nobody
\* was handed a client in destruction.
THEOREM SlotsAccounted == Spec => []SlotAccounting
<1>1. IInv => SlotAccounting
  BY DEF IInv
<1>2. QED
  BY <1>1, Invariance, PTL

\* Without an idle time the registry never runs more clients than its limit,
\* whatever its users call and whatever fails.
THEOREM LimitWithoutIdle == IdleMs = 0 => (Spec => []ActiveLimit)
<1> SUFFICES ASSUME IdleMs = 0 PROVE Spec => []ActiveLimit
  OBVIOUS
<1>1. IInv => ActiveLimit
  <2> SUFFICES ASSUME IInv PROVE ActiveLimit
    OBVIOUS
  <2>1. activeSlots = Cardinality(Holders) /\ activeSlots \in 0..MaxActive
    BY DEF IInv, SlotAccounting, TypeOK
  <2>2. QED
    BY <2>1, MaxActivePositive DEF ActiveLimit
<1>2. QED
  BY <1>1, Invariance, PTL

\* acquire deduplicates: a key never has a client and a creation at once.
THEOREM CreationsUnique == Spec => []SingleCreation
<1>1. IInv => SingleCreation
  BY DEF IInv, Wired, CreationWired, SingleCreation
<1>2. QED
  BY <1>1, Invariance, PTL

\* While nobody was handed a dying client, a lease is on the live entry of its
\* key and the entry counts exactly its leases (acquire against release).
THEOREM LeasesSound == Spec => []LeaseSound
<1>1. IInv => LeaseSound
  BY DEF IInv, OpenDiscipline, OpenEntry, LeaseSound
<1>2. QED
  BY <1>1, Invariance, PTL

\* Under the same condition no client is destroyed under a pending init
\* (RegistryLeasedClient.destroy).
THEOREM InitsSafe == Spec => []InitBeforeDestroy
<1>1. IInv => InitBeforeDestroy
  <2> SUFFICES ASSUME IInv, ~dyingLease, ~closed, NEW e \in Sessions, obj[e].init
               PROVE  ~obj[e].destroying /\ ~obj[e].destroyed
    BY DEF InitBeforeDestroy
  <2>1. PICK s \in Sessions : initOf[s] = e
    BY DEF IInv, Wired, InitWired
  <2>2. OpenEntry(s) /\ OpenEntry(e) /\ pc[s] \in {"held", "closing"}
    BY <2>1, NoEntryIsNoSession DEF IInv, OpenDiscipline, Wired, SessionWired
  <2>3. lease[s] = e
    BY <2>1, <2>2, NoEntryIsNoSession DEF OpenEntry
  <2>4. s \in LeaseHolders(e)
    BY <2>2, <2>3 DEF LeaseHolders
  <2>5. QED
    BY <2>2, <2>4 DEF OpenEntry
<1>2. QED
  BY <1>1, Invariance, PTL

\* A creation is never left parked beside a free slot.
THEOREM WakeupsKept == Spec => []NoLostWakeup
<1>1. IInv => NoLostWakeup
  BY DEF IInv
<1>2. QED
  BY <1>1, Invariance, PTL

\* When destroyAll resolves nothing is alive and nothing can start.
THEOREM ClosingCleansUp == Spec => []CloseCleansUp
<1>1. IInv => CloseCleansUp
  <2> SUFFICES ASSUME IInv, shutdown = "done"
               PROVE  /\ Holders = {} /\ waiters = <<>> /\ woken = <<>>
                      /\ \A s \in Sessions : pc[s] # "awaiting"
                      /\ ~dyingLease => \A e \in Sessions : ~obj[e].destroying
    BY DEF CloseCleansUp
  <2>1. closed /\ \A k \in Keys : creating[k] = "none" /\ entries[k] = NoEntry
    BY DEF IInv, Wired, ShutdownWired
  <2>2. Holders = {}
    BY <2>1 DEF Holders
  <2>3. waiters = <<>> /\ woken = <<>>
    <3>1. waiters \in Seq(Keys) /\ woken \in Seq(Keys)
      BY DEF IInv, TypeOK
    <3>2. waiters # <<>> => 1 \in 1..Len(waiters) /\ waiters[1] \in Keys
      BY <3>1
    <3>3. woken # <<>> => 1 \in 1..Len(woken) /\ woken[1] \in Keys
      BY <3>1
    <3>4. QED
      BY <2>1, <3>2, <3>3 DEF IInv, Queued
  <2>4. \A s \in Sessions : pc[s] # "awaiting"
    BY <2>1 DEF IInv, TypeOK, Wired, SessionWired
  <2>5. ~dyingLease => \A e \in Sessions : ~obj[e].destroying
    BY <2>1, NoEntryIsNoSession DEF IInv, TypeOK, ClosedDiscipline
  <2>6. QED
    BY <2>2, <2>3, <2>4, <2>5
<1>2. QED
  BY <1>1, Invariance, PTL
=============================================================================
