-------------------------- MODULE MCDownloadsSafety --------------------------
(***************************************************************************)
(* Two instances of Downloads in one run: several requests at once, over   *)
(* restarts and with a JSON-RPC that loses answers; and one request at a   *)
(* time ("alone"), for the property that needs it.                         *)
(***************************************************************************)
EXTENDS Downloads, TLC

CONSTANT Last    \* a call that is made once all the others were, if at all
ASSUME LastIsACall == Last \in Calls

\* Gids, tasks, names and calls are interchangeable.
Symmetry == Permutations(Tasks) \cup Permutations(Gids)
                \cup Permutations(Calls \ {Last}) \cup Permutations(Names)

One == INSTANCE Downloads WITH MaxAtOnce <- 1, MaxRuns <- 1, Lossy <- FALSE

VARIABLE alone

BothInit == DownloadsInit /\ alone \in BOOLEAN

\* Calls made one after the other can be renamed so that Last comes last; many
\* at once do without it.
LastIsLast ==
    calls'[Last].at # "idle" =>
        alone /\ \A c \in Calls \ {Last} : calls'[c].at # "idle"

Many == ~alone /\ DownloadsNext /\ LastIsLast /\ UNCHANGED alone
OneByOne == alone /\ One!DownloadsNext /\ LastIsLast /\ UNCHANGED alone
BothNext == Many \/ OneByOne

BothSpec == BothInit /\ [][BothNext]_<<downloadVars, alone>>

\* With requests that come one at a time, no download runs on behind the user's
\* back (DownloadsAreOwned): what aria2 still holds is what its row names.
AloneAreOwned == alone => DownloadsAreOwned
=============================================================================
