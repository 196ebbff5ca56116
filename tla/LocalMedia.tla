----------------------------- MODULE LocalMedia -----------------------------
(***************************************************************************)
(* The folders of LocalMediaService (src/local-media/local-media-service.ts*)
(* over the table local_media_roots): the user adds, rescans and removes   *)
(* folders while earlier scans walk their directories.  The walk yields to *)
(* the event loop, so that scans overlap; one field, scanAbort, names the  *)
(* scan that may be cancelled.                                             *)
(*                                                                         *)
(* Left out: the files themselves, but for whether a scan found any, and   *)
(* the operations on single items, which no scan reads back.               *)
(***************************************************************************)
EXTENDS Naturals

CONSTANTS
    LmPaths,    \* folders the user picks
    LmCalls     \* calls of addFolder and rescan

ASSUME LmNames == "none" \notin LmPaths \cup LmCalls

(* row: local_media_roots by root_path, which is UNIQUE; the id of a row   *)
(* names the call that added it.  abort: scanAbort, the call whose scan it *)
(* controls.  root: scanState.rootId.  scan: where each call is, of which  *)
(* record it scans the folder, and the records a rescan of all has left,   *)
(* as it read them before the first scan.                                  *)
VARIABLE lm

lmVars == <<lm>>

NoRoot == [id |-> "none", status |-> "none"]
Call(at) == [at |-> at, id |-> "none", path |-> "none", aborted |-> FALSE,
             rest |-> {}]

LmInit == lm = [row |-> [p \in LmPaths |-> NoRoot], abort |-> "none",
                root |-> "none", scan |-> [c \in LmCalls |-> Call("idle")]]

Kept == {p \in LmPaths : lm.row[p] # NoRoot}

\* upsertRoot: ON CONFLICT(id) only; another id with this path is an error.
Writable(s, p, id) == s.row[p].id \in {id, "none"}

\* scanAbort.abort().
Aborts(s) == [s EXCEPT !.scan =
    [c \in LmCalls |-> IF c = s.abort /\ @[c].at = "walking"
                       THEN [@[c] EXCEPT !.aborted = TRUE] ELSE @[c]]]

\* The head of scanRoot, to the first yield.  Its upsert is not in the try.
Begins(s, c, r, rest) ==
    LET t == [Aborts(s) EXCEPT !.abort = c, !.root = r.id]
    IN IF Writable(s, r.path, r.id)
       THEN [t EXCEPT !.row[r.path] = [id |-> r.id, status |-> "scanning"],
                      !.scan[c] = [at |-> "walking", id |-> r.id,
                                   path |-> r.path, aborted |-> FALSE,
                                   rest |-> rest]]
       ELSE [t EXCEPT !.scan[c] = Call("done")]

\* A bug: a scan that ends forgets whatever controller there is.
MutLetsGo(s, c) == [s EXCEPT !.abort = "none"]

\* The finally of scanRoot: only its own controller is forgotten.
LetsGo(s, c) == [s EXCEPT !.abort = IF @ = c THEN "none" ELSE @]

\* addFolder, to the first yield of its scan.
AddFolder(c, p) ==
    /\ lm.scan[c].at = "idle"
    /\ LET id == IF p \in Kept THEN lm.row[p].id ELSE c
       IN lm' = Begins(lm, c, [id |-> id, path |-> p], {})

\* rescan of one folder.
Rescan(c, p) ==
    /\ lm.scan[c].at = "idle" /\ p \in Kept
    /\ lm' = Begins(lm, c, [id |-> lm.row[p].id, path |-> p], {})

\* rescan of all: the records are read now, the folders scanned in turn.
RescanAll(c) ==
    /\ lm.scan[c].at = "idle"
    /\ LET all == {[id |-> lm.row[p].id, path |-> p] : p \in Kept}
       IN \E r \in all : lm' = Begins(lm, c, r, all \ {r})

\* The walk ends and the items are written.  A scan that was aborted comes
\* here if it found nothing: the loops that would notice have no more turn.
ScanSucceeds(c) ==
    LET s == lm.scan[c]
        t == LetsGo([lm EXCEPT !.row[s.path] = [id |-> s.id, status |-> "idle"],
                               !.root = "none"], c)
    IN /\ s.at = "walking" /\ Writable(lm, s.path, s.id)
       /\ \/ s.rest = {} /\ lm' = [t EXCEPT !.scan[c] = Call("done")]
          \/ \E r \in s.rest :
                lm' = Begins([t EXCEPT !.scan[c] = Call("idle")], c, r,
                             s.rest \ {r})

\* The walk throws: cancelled, too many files, or a row that cannot be
\* written, which a scan that was aborted may meet too; the catch writes the
\* row of the folder, and may throw again.
ScanFails(c) ==
    LET s == lm.scan[c]
        noted(status) == [lm EXCEPT
            !.row[s.path] = [id |-> s.id, status |-> status],
            !.root = IF status = "cancelled" THEN "none" ELSE s.id]
    IN /\ s.at = "walking"
       /\ \E status \in {"error"} \cup (IF s.aborted THEN {"cancelled"} ELSE {}) :
             lm' = [LetsGo(IF Writable(lm, s.path, s.id) THEN noted(status)
                           ELSE lm, c)
                    EXCEPT !.scan[c] = Call("done")]

\* cancelScan of a folder, which goes by scanState, or of whatever runs.
Cancels(s, id) == IF s.root = id THEN Aborts(s) ELSE s

CancelScan == \/ \E p \in Kept : lm' = Cancels(lm, lm.row[p].id)
              \/ lm' = Aborts(lm)

RemoveFolder(p) ==
    /\ p \in Kept
    /\ lm' = [Cancels(lm, lm.row[p].id) EXCEPT !.row[p] = NoRoot]

LmNext ==
    \/ CancelScan
    \/ \E p \in LmPaths : RemoveFolder(p)
    \/ \E c \in LmCalls :
          \/ RescanAll(c) \/ ScanSucceeds(c) \/ ScanFails(c)
          \/ \E p \in LmPaths : AddFolder(c, p) \/ Rescan(c, p)

LmSpec == LmInit /\ [][LmNext]_lmVars

-----------------------------------------------------------------------------
LmRecords == [id : LmCalls, path : LmPaths]

LmTypeOK ==
    /\ lm.row \in [LmPaths -> [id : LmCalls \cup {"none"},
                               status : {"none", "idle", "scanning",
                                         "cancelled", "error"}]]
    /\ {lm.abort, lm.root} \subseteq LmCalls \cup {"none"}
    /\ \A c \in LmCalls :
          /\ lm.scan[c].at \in {"idle", "walking", "done"}
          /\ lm.scan[c].aborted \in BOOLEAN
          /\ lm.scan[c].rest \subseteq LmRecords
          /\ lm.scan[c].at = "walking" =>
                lm.scan[c].id \in LmCalls /\ lm.scan[c].path \in LmPaths

Walking == {c \in LmCalls : lm.scan[c].at = "walking"}

\* Although superseded scans end after the scan that took their place began,
\* a scan that nobody aborted is the one scanAbort names, so that there is one
\* of them and it can be cancelled; and a row that shows "scanning" has a scan
\* of that very record at work that will write over it, also where the folder
\* was removed and added again meanwhile.
ScansAreOwned ==
    /\ \A c \in Walking : ~lm.scan[c].aborted => lm.abort = c
    /\ \A p \in LmPaths : lm.row[p].status = "scanning" =>
          \E c \in Walking : lm.scan[c].id = lm.row[p].id
=============================================================================
