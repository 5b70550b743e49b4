-------------------------- MODULE StateSyncProofs --------------------------
(***************************************************************************)
(* Proofs about StateSync for any set of Cids and calling goroutines and   *)
(* any bounds: its types, and that the tracker inside a peer is the        *)
(* PinTracker of which PinTrackerProofs speaks.                            *)
(***************************************************************************)
EXTENDS StateSync, PinTrackerProofs

(* A call that is started names a Cid, and Track also where it is pinned.  *)
LEMMA CallFields ==
    ASSUME NEW k \in Spawnable
    PROVE  /\ k.cid \in Cids
           /\ k.fn = "Track" => CidArgOf(k.cid, k.where) \in CidArg
  BY SelfAssumption DEF Spawnable, TrackCall, UntrackCall, CidArgOf, CidArg

(* What StateSync and ApplyTo start can be started. *)
LEMMA Startable ==
    ASSUME NEW c \in Cids
    PROVE  /\ UntrackOf(c) \in Spawnable
           /\ \A w \in {"local", "remote"} : TrackOf(c, w) \in Spawnable
  BY DEF UntrackOf, TrackOf, Spawnable, TrackCall, UntrackCall

(* A started goroutine that runs makes the call it was started for, and    *)
(* nothing else in the peer touches the tracker.                           *)
LEMMA TrackerSteps ==
    ASSUME [PeerNext]_peerVars
    PROVE  [Next]_vars
  <1>1. ASSUME NEW t \in Callers, NEW k \in Spawnable, Run(t, k) PROVE Next
    <2>1. CASE k.fn = "Track"
      <3>1. Track(t, CidArgOf(k.cid, k.where)) /\ CidArgOf(k.cid, k.where) \in CidArg
        BY <1>1, <2>1, CallFields DEF Run
      <3>2. Call(t)
        BY <3>1, CallsAssumption DEF Call
      <3> QED BY <3>2 DEF Next
    <2>2. CASE k.fn # "Track"
      <3>1. Untrack(t, k.cid) /\ k.cid \in Cids
        BY <1>1, <2>2, CallFields DEF Run
      <3>2. Call(t)
        BY <3>1, CallsAssumption DEF Call
      <3> QED BY <3>2 DEF Next
    <2> QED BY <2>1, <2>2
  <1>2. CASE TrackerStep
    BY <1>2 DEF TrackerStep, Next
  <1>3. ASSUME NEW c \in Cids, NEW w \in Wheres, ApplyPin(c, w) PROVE UNCHANGED vars
    BY <1>3 DEF ApplyPin
  <1>4. ASSUME NEW c \in Cids, ApplyUnpin(c) PROVE UNCHANGED vars
    BY <1>4 DEF ApplyUnpin
  <1>5. CASE SyncStep
    BY <1>5 DEF SyncStep, SyncStart, SyncTrack, SyncStatusAll, SyncUntrack, SyncEnd
  <1>6. CASE UNCHANGED peerVars
    BY <1>6 DEF peerVars
  <1> QED BY <1>1, <1>2, <1>3, <1>4, <1>5, <1>6 DEF PeerNext

(* The tracker of a peer whose calls are the ones that ApplyTo and         *)
(* StateSync start, in goroutines of their own that run in any order, is a *)
(* PinTracker: whatever is proved of it holds in the peer.                 *)
THEOREM PeerRunsTracker == PeerSpec => Spec
  <1>1. PeerInit => Init
    BY DEF PeerInit
  <1>2. [PeerNext]_peerVars => [Next]_vars
    BY TrackerSteps
  <1> QED BY <1>1, <1>2, PTL DEF PeerSpec, Spec

(* So no Cid that the peer pins is stuck in Pinning, however the calls     *)
(* that ApplyTo and StateSync start for it overlap.                        *)
THEOREM PeerPinningOwned == PeerSpec => []PinningHasOwner
  BY PeerRunsTracker, PinningOwned, PTL

(* Nor is one that it unpins stuck in Unpinning.                           *)
THEOREM PeerUnpinningOwned == PeerSpec => []UnpinningHasOwner
  BY PeerRunsTracker, UnpinningOwned, PTL

-----------------------------------------------------------------------------
(* Types.                                                                  *)

Allocated == {"absent", "local", "remote"}

(* The peer's own variables; what StateSync is to track was listed. *)
PeerTypes ==
    /\ pins \in [Cids -> Allocated]
    /\ ops \in 0 .. MaxOps
    /\ spawned \in [Spawnable -> 0 .. MaxSpawned]
    /\ syncPc \in {"idle", "track", "untrack"}
    /\ listed \in [Cids -> Allocated]
    /\ visit \in SUBSET Cids
    /\ syncPc = "track" => \A c \in visit : listed[c] # "absent"

(* The number of calls started and not running stays within its bound. *)
LEMMA SpawnTypes ==
    ASSUME PeerTypes, NEW k \in Spawnable, Spawn(k)
    PROVE  spawned' \in [Spawnable -> 0 .. MaxSpawned]
  <1>1. spawned[k] \in 0 .. MaxSpawned /\ spawned[k] < MaxSpawned /\ MaxSpawned \in Nat
    BY MaxAssumption DEF PeerTypes, Spawn
  <1>2. spawned[k] + 1 \in 0 .. MaxSpawned
    BY <1>1
  <1> QED BY <1>2 DEF PeerTypes, Spawn

(* Every step of the peer keeps its types. *)
LEMMA PeerTypesStep ==
    ASSUME PeerTypes, [PeerNext]_peerVars
    PROVE  PeerTypes'
  <1>1. ASSUME NEW c \in Cids, NEW w \in Wheres, ApplyPin(c, w) PROVE PeerTypes'
    <2>1. w \in {"local", "remote"} /\ TrackOf(c, w) \in Spawnable
      BY WheresAssumption, Startable
    <2>2. spawned' \in [Spawnable -> 0 .. MaxSpawned]
      BY <1>1, <2>1, SpawnTypes DEF ApplyPin
    <2>3. ops' \in 0 .. MaxOps
      BY <1>1, MaxAssumption DEF ApplyPin, PeerTypes
    <2>4. pins' \in [Cids -> Allocated]
      BY <1>1, <2>1 DEF ApplyPin, PeerTypes, Allocated
    <2> QED BY <1>1, <2>2, <2>3, <2>4 DEF ApplyPin, PeerTypes, syncVars
  <1>2. ASSUME NEW c \in Cids, ApplyUnpin(c) PROVE PeerTypes'
    <2>1. spawned' \in [Spawnable -> 0 .. MaxSpawned]
      BY <1>2, Startable, SpawnTypes DEF ApplyUnpin
    <2>2. ops' \in 0 .. MaxOps
      BY <1>2, MaxAssumption DEF ApplyUnpin, PeerTypes
    <2>3. pins' \in [Cids -> Allocated]
      BY <1>2 DEF ApplyUnpin, PeerTypes, Allocated
    <2> QED BY <1>2, <2>1, <2>2, <2>3 DEF ApplyUnpin, PeerTypes, syncVars
  <1>3. ASSUME NEW t \in Callers, NEW k \in Spawnable, Run(t, k) PROVE PeerTypes'
    <2>1. spawned[k] \in 0 .. MaxSpawned /\ spawned[k] > 0 /\ MaxSpawned \in Nat
      BY <1>3, MaxAssumption DEF Run, PeerTypes
    <2>2. spawned[k] - 1 \in 0 .. MaxSpawned
      BY <2>1
    <2>3. spawned' \in [Spawnable -> 0 .. MaxSpawned]
      BY <1>3, <2>2 DEF Run, PeerTypes
    <2> QED BY <1>3, <2>3 DEF Run, PeerTypes, syncVars
  <1>4. CASE SyncStart \/ SyncStatusAll \/ SyncEnd
    BY <1>4 DEF SyncStart, SyncStatusAll, SyncEnd, PeerTypes, Allocated
  <1>5. ASSUME NEW c \in Cids, SyncTrack(c) PROVE PeerTypes'
    <2>1. TrackOf(c, listed[c]) \in Spawnable
      BY <1>5, Startable DEF SyncTrack, PeerTypes, Allocated
    <2>2. spawned' \in [Spawnable -> 0 .. MaxSpawned]
      BY <1>5, <2>1, SpawnTypes DEF SyncTrack, PeerTypes
    <2> QED BY <1>5, <2>2 DEF SyncTrack, PeerTypes
  <1>6. ASSUME NEW c \in Cids, SyncUntrack(c) PROVE PeerTypes'
    <2>1. spawned' \in [Spawnable -> 0 .. MaxSpawned]
      BY <1>6, Startable, SpawnTypes DEF SyncUntrack, PeerTypes
    <2> QED BY <1>6, <2>1 DEF SyncUntrack, PeerTypes
  <1>7. CASE TrackerStep \/ UNCHANGED peerVars
    BY <1>7 DEF TrackerStep, peerVars, syncVars, PeerTypes
  <1> QED BY <1>1, <1>2, <1>3, <1>4, <1>5, <1>6, <1>7 DEF PeerNext, SyncStep

(* A peer's variables keep their types, for any Cids and bounds.  Not      *)
(* inductive as it stands: what StateSync tracks must have been listed.    *)
THEOREM PeerTypeCorrect == PeerSpec => []PeerTypeOK
  <1>1. PeerInit => PeerTypes
    BY MaxAssumption DEF PeerInit, PeerTypes, Allocated
  <1>2. PeerTypes /\ [PeerNext]_peerVars => PeerTypes'
    BY PeerTypesStep
  <1>3. TypeOK /\ PeerTypes => PeerTypeOK
    BY DEF PeerTypes, PeerTypeOK, Allocated
  <1> QED BY <1>1, <1>2, <1>3, PeerRunsTracker, TypeCorrect, PTL DEF PeerSpec

=============================================================================
