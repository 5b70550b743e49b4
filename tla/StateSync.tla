----------------------------- MODULE StateSync -----------------------------
(***************************************************************************)
(* One peer: its copy of the shared state, its tracker, and the two ways   *)
(* the first reaches the second.                                           *)
(*   - LogOp.ApplyTo (log_op.go) changes the MapState and starts Track or  *)
(*     Untrack asynchronously, so these calls may run in any order;        *)
(*   - Cluster.StateSync (cluster.go), run by stateSyncWatcher again and   *)
(*     again, compares both and starts the Track and Untrack calls that    *)
(*     are missing, again in goroutines of their own.                      *)
(* The tracker is PinTracker; its calls here are the ones started above.   *)
(***************************************************************************)
EXTENDS PinTracker

CONSTANTS
    Wheres,      \* where operations allocate a pin, seen from this peer
    MaxOps,      \* bound: operations applied
    MaxSpawned   \* bound: equal calls started and not yet running

ASSUME WheresAssumption == Wheres \subseteq {"local", "remote"}
ASSUME MaxAssumption == MaxOps \in Nat /\ MaxSpawned \in Nat \ {0}
ASSUME CallsAssumption == {"Track", "Untrack"} \subseteq Calls

VARIABLES
    pins,     \* MapState: where each Cid is to be pinned, or "absent"
    ops,      \* operations applied so far
    spawned,  \* how many goroutines are about to make each call
    syncPc, listed, visit  \* StateSync: step, List() result, Cids to visit

syncVars == <<syncPc, listed, visit>>
peerVars == <<vars, pins, ops, spawned, syncPc, listed, visit>>

(* The calls that are started: Track, as allocated, and Untrack. *)
TrackCall == [fn : {"Track"}, cid : Cids, where : {"local", "remote"}]
UntrackCall == [fn : {"Untrack"}, cid : Cids]
Spawnable == TrackCall \cup UntrackCall

TrackOf(c, w) == [fn |-> "Track", cid |-> c, where |-> w]
UntrackOf(c) == [fn |-> "Untrack", cid |-> c]

(* A CidArg that is allocated like w says. *)
CidArgOf(c, w) == [Cid |-> c, Everywhere |-> FALSE,
                   Allocations |-> IF w = "local" THEN {Self} ELSE {}]

Spawn(k) == /\ spawned[k] < MaxSpawned
            /\ spawned' = [spawned EXCEPT ![k] = @ + 1]

-----------------------------------------------------------------------------
(* ApplyTo, in the order of the log. *)

ApplyPin(c, w) ==
    /\ ops < MaxOps
    /\ ops' = ops + 1
    /\ pins' = [pins EXCEPT ![c] = w]
    /\ Spawn(TrackOf(c, w))
    /\ UNCHANGED <<vars, syncVars>>

ApplyUnpin(c) ==
    /\ ops < MaxOps
    /\ ops' = ops + 1
    /\ pins' = [pins EXCEPT ![c] = "absent"]
    /\ Spawn(UntrackOf(c))
    /\ UNCHANGED <<vars, syncVars>>

(* A goroutine that was started gets to run: any of them. *)
Run(t, k) ==
    /\ spawned[k] > 0
    /\ spawned' = [spawned EXCEPT ![k] = @ - 1]
    /\ IF k.fn = "Track" THEN Track(t, CidArgOf(k.cid, k.where))
                         ELSE Untrack(t, k.cid)
    /\ UNCHANGED <<pins, ops, syncVars>>

-----------------------------------------------------------------------------
(* StateSync. *)

(* State() and List(). *)
SyncStart ==
    /\ syncPc = "idle"
    /\ syncPc' = "track"
    /\ listed' = pins
    /\ visit' = {c \in Cids : pins[c] # "absent"}
    /\ UNCHANGED <<vars, pins, ops, spawned>>

(* Track what the listing has and the tracker does not. *)
needsTrack_Never(s) == FALSE
needsTrack(s) == s = "Unpinned"

SyncTrack(c) ==
    /\ syncPc = "track"
    /\ c \in visit
    /\ visit' = visit \ {c}
    /\ IF needsTrack(status[c]) THEN Spawn(TrackOf(c, listed[c]))
                                ELSE UNCHANGED spawned
    /\ UNCHANGED <<vars, pins, ops, syncPc, listed>>

SyncStatusAll ==
    /\ syncPc = "track"
    /\ visit = {}
    /\ syncPc' = "untrack"
    /\ visit' = {c \in Cids : status[c] # "Unpinned"}
    /\ UNCHANGED <<vars, pins, ops, spawned, listed>>

(* Untrack what the tracker has and the state, as it is now, does not. *)
needsUntrack_Never(w) == FALSE
needsUntrack(w) == w = "absent"

SyncUntrack(c) ==
    /\ syncPc = "untrack"
    /\ c \in visit
    /\ visit' = visit \ {c}
    /\ IF needsUntrack(pins[c]) THEN Spawn(UntrackOf(c)) ELSE UNCHANGED spawned
    /\ UNCHANGED <<vars, pins, ops, syncPc, listed>>

SyncEnd ==
    /\ syncPc = "untrack"
    /\ visit = {}
    /\ syncPc' = "idle"
    /\ listed' = [c \in Cids |-> "absent"]
    /\ UNCHANGED <<vars, pins, ops, spawned, visit>>

-----------------------------------------------------------------------------
SyncStep == \/ SyncStart \/ SyncStatusAll \/ SyncEnd
            \/ \E c \in Cids : SyncTrack(c) \/ SyncUntrack(c)

(* The tracker's goroutines. *)
TrackerStep == /\ \/ \E t \in Threads : Step(t)
                  \/ PinWorkerRecv \/ UnpinWorkerRecv
               /\ UNCHANGED <<pins, ops, spawned, syncVars>>

PeerInit == /\ Init
            /\ pins = [c \in Cids |-> "absent"]
            /\ ops = 0
            /\ spawned = [k \in Spawnable |-> 0]
            /\ syncPc = "idle"
            /\ listed = [c \in Cids |-> "absent"]
            /\ visit = {}

PeerNext == \/ \E c \in Cids, w \in Wheres : ApplyPin(c, w)
            \/ \E c \in Cids : ApplyUnpin(c)
            \/ \E t \in Callers, k \in Spawnable : Run(t, k)
            \/ SyncStep
            \/ TrackerStep

(* Every goroutine that can run runs, the daemon answers, and              *)
(* stateSyncWatcher goes on.                                               *)
PeerFairness ==
    /\ \A k \in Spawnable : SF_peerVars(\E t \in Callers : Run(t, k))
    /\ WF_peerVars(SyncStep)
    /\ \A t \in Threads :
          WF_peerVars(Step(t) /\ UNCHANGED <<pins, ops, spawned, syncVars>>)
    /\ WF_peerVars(PinWorkerRecv /\ UNCHANGED <<pins, ops, spawned, syncVars>>)
    /\ WF_peerVars(UnpinWorkerRecv /\ UNCHANGED <<pins, ops, spawned, syncVars>>)

PeerSpec == PeerInit /\ [][PeerNext]_peerVars
PeerFairSpec == PeerSpec /\ PeerFairness

-----------------------------------------------------------------------------
(* Properties.                                                             *)

(* Every variable has its type. *)
PeerTypeOK ==
    /\ TypeOK
    /\ pins \in [Cids -> {"absent", "local", "remote"}]
    /\ ops \in 0 .. MaxOps
    /\ spawned \in [Spawnable -> 0 .. MaxSpawned]
    /\ syncPc \in {"idle", "track", "untrack"}
    /\ listed \in [Cids -> {"absent", "local", "remote"}]
    /\ visit \in SUBSET Cids

(* Once no more operations are applied, a Cid the state wants here does    *)
(* not stay untracked, whatever order the Track and Untrack calls started  *)
(* earlier ran in: it ends up Pinned, or in an error the user can see.     *)
PinsSettle ==
    \A c \in Cids :
        (<>[](pins[c] = "local")) =>
            <>[](status[c] \in {"Pinned", "PinError", "UnpinError"})

(* Once no more operations are applied, a Cid the state does not have      *)
(* keeps coming back to Unpinned, or to an unpin error: no Track that ran  *)
(* late keeps it.                                                          *)
UnpinsSettle ==
    \A c \in Cids :
        (<>[](pins[c] = "absent")) =>
            []<>(status[c] \in {"Unpinned", "UnpinError"})

=============================================================================
