------------------------------ MODULE MCSettles ------------------------------
(***************************************************************************)
(* Parts that do not meet and come to an end, in one run: the JVM or       *)
(* Python sidecar, the playback, the aggregate search, the restore of a    *)
(* backup and the proxy of the Tauri application.  A behaviour is one of   *)
(* one of them; the others stay as they began, where none of their fair    *)
(* actions is enabled.                                                     *)
(***************************************************************************)
EXTENDS Sidecar, Playback, AggregateSearch, BackupRestore, PlaybackProxy

VARIABLE lane

\* Where a part does not move, it matters not how it began.
SettlesInit ==
    /\ ScInit /\ PbInit /\ SearchInit /\ RestoreInit /\ PxInit
    /\ lane \in {"sidecar", "playback", "search", "restore", "proxy"}
    /\ lane # "sidecar" => sc.kind = "jvm"
    /\ lane # "playback" => fb.mode = "auto"
    /\ lane # "restore" =>
          /\ ~cached /\ stage["trusted"] = "none"
          /\ before = [Nothing EXCEPT !["db"] = "old"]

SidecarMoves ==
    /\ lane = "sidecar" /\ ScNext
    /\ UNCHANGED <<pbVars, searchVars, restoreVars, pxVars, lane>>
PlaybackMoves ==
    /\ lane = "playback" /\ PbNext
    /\ UNCHANGED <<scVars, searchVars, restoreVars, pxVars, lane>>
SearchMoves ==
    /\ lane = "search" /\ SearchNext
    /\ UNCHANGED <<scVars, pbVars, restoreVars, pxVars, lane>>
RestoreMoves ==
    /\ lane = "restore" /\ RestoreNext
    /\ UNCHANGED <<scVars, pbVars, searchVars, pxVars, lane>>
ProxyMoves ==
    /\ lane = "proxy" /\ PxNext
    /\ UNCHANGED <<scVars, pbVars, searchVars, restoreVars, lane>>

SettlesNext == \/ SidecarMoves \/ PlaybackMoves \/ SearchMoves
               \/ RestoreMoves \/ ProxyMoves

SettlesSpec ==
    /\ SettlesInit
    /\ [][SettlesNext]_<<scVars, pbVars, searchVars, restoreVars, pxVars, lane>>
    /\ ScFairness /\ PbFairness /\ SearchFairness /\ PxFairness

\* Every variable of the parts has its type.
PartsTypeOK ==
    ScTypeOK /\ PbTypeOK /\ SearchTypeOK /\ RestoreTypeOK /\ PxTypeOK
=============================================================================
