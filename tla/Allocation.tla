----------------------------- MODULE Allocation -----------------------------
(***************************************************************************)
(* Cluster.Pin with Cluster.allocate (cluster.go), the numpin allocator    *)
(* (allocator/numpinalloc) and the effect of a committed pin on MapState.  *)
(*                                                                         *)
(* allocate reads the shared state and the peer list, asks the leader's    *)
(* monitor for metrics, decides, and only then is the pin committed: three *)
(* steps between which other requests, metrics and peers go on.  The state *)
(* it reads is the peer's own copy, which may lag behind the log; reading  *)
(* early and committing late covers that.                                  *)
(* A metric is None when it is missing, invalid or expired, NaN when the   *)
(* allocator drops it (its value does not parse), and otherwise the number *)
(* of pins of the peer.                                                    *)
(***************************************************************************)
EXTENDS Integers, Sequences, FiniteSets, SequencesExt

CONSTANTS
    Peers,        \* every peer that may belong to the cluster
    Cids,
    Users,        \* goroutines calling Pin and Unpin
    Values,       \* numbers of pins a metric may carry
    None, NaN,    \* a peer without a metric; a metric the allocator drops
    Factors,      \* values of config.ReplicationFactor
    Faults,       \* TRUE: metrics may expire, be invalid or unparsable, and
                  \* consensus.State() may fail
    PeerChange    \* TRUE: peers may join and leave

ASSUME PeersAssumption == IsFiniteSet(Peers)
ASSUME ValuesAssumption == Values \subseteq Nat /\ {None, NaN} \cap Values = {}
ASSUME FactorsAssumption == Factors \subseteq Int
ASSUME AllocFlagsAssumption == {Faults, PeerChange} \subseteq BOOLEAN

Metrics == Values \cup {None, NaN}

(* What the state holds for a Cid. *)
Absent == [pinned |-> FALSE, Everywhere |-> FALSE, Allocations |-> {}]
CidArgs == [pinned : BOOLEAN, Everywhere : BOOLEAN, Allocations : SUBSET Peers]

VARIABLES
    factor,   \* config.ReplicationFactor
    members,  \* peerManager.peers()
    metric,   \* metric[p]: latest metric of p in the leader's monitor
    pins,     \* MapState
    req       \* what each user's request is doing

vars == <<factor, members, metric, pins, req>>

Idle == [pc |-> "idle"]

-----------------------------------------------------------------------------
(* numpinalloc.                                                            *)

Less_Reversed(x, y) == x > y
Less(x, y) == x < y

(* Allocate: every order sort.Sort may leave the usable candidates in (Go  *)
(* maps are unordered and the sort is not stable).                         *)
Allocate(candidates) ==
    LET usable == {p \in candidates : metric[p] \in Values} IN
    {s \in SetToSeqs(usable) :
        \A i \in 1 .. Len(s) - 1 : ~Less(metric[s[i + 1]], metric[s[i]])}

(* What allocate computes once it has the metrics: the peers to choose     *)
(* from, how many are missing, and whether nothing is left to do.          *)
Candidates(current, clusterPeers) ==
    {p \in clusterPeers \ current : metric[p] # None}
Needed(current, clusterPeers) ==
    factor - Cardinality({p \in current \cap clusterPeers : metric[p] # None})
AlreadyAllocated_OffByOne(needed) == needed < 0
AlreadyAllocated(needed) == needed <= 0

-----------------------------------------------------------------------------
(* Pin.                                                                    *)

(* Without allocation: factor 0 is an error, a negative one is everywhere. *)
PinEverywhere(u, h) ==
    /\ req[u] = Idle
    /\ factor < 0
    /\ req' = [req EXCEPT ![u] =
                  [pc |-> "commit", cid |-> h,
                   arg |-> [pinned |-> TRUE, Everywhere |-> TRUE, Allocations |-> {}]]]
    /\ UNCHANGED <<factor, members, metric, pins>>

(* allocate reads the current allocations, none when consensus.State()     *)
(* fails, and the cluster peers.                                           *)
ReadState(u, h) ==
    /\ req[u] = Idle
    /\ factor > 0
    /\ \E current \in {pins[h].Allocations} \cup (IF Faults THEN {{}} ELSE {}) :
          req' = [req EXCEPT ![u] = [pc |-> "metrics", cid |-> h,
                                     current |-> current, clusterPeers |-> members]]
    /\ UNCHANGED <<factor, members, metric, pins>>

(* allocate asks the leader for metrics; without a leader, or without an   *)
(* answer, it fails.                                                       *)
NoMetrics(u) ==
    /\ req[u].pc = "metrics"
    /\ req' = [req EXCEPT ![u] = Idle]
    /\ UNCHANGED <<factor, members, metric, pins>>

(* It got them: the Cid has its allocations already, or there are too few  *)
(* candidates (both errors), or the first of the candidates are chosen.    *)
Decide(u) ==
    LET needed == Needed(req[u].current, req[u].clusterPeers)
        candidates == Candidates(req[u].current, req[u].clusterPeers) IN
    /\ req[u].pc = "metrics"
    /\ \/ /\ AlreadyAllocated(needed)
          /\ req' = [req EXCEPT ![u] = Idle]
       \/ /\ ~AlreadyAllocated(needed)
          /\ \E s \in Allocate(candidates) :
                IF Len(s) < needed
                THEN req' = [req EXCEPT ![u] = Idle]
                ELSE req' = [req EXCEPT ![u] =
                        [pc |-> "commit", cid |-> req[u].cid,
                         arg |-> [pinned |-> TRUE, Everywhere |-> FALSE,
                                  Allocations |-> ToSet(SubSeq(s, 1, needed))]]]
    /\ UNCHANGED <<factor, members, metric, pins>>

(* LogPin: the operation is committed and MapState.Add replaces the entry. *)
Added_Merged(old, arg) ==
    [arg EXCEPT !.Allocations = @ \cup old.Allocations]
Added(old, arg) == arg

LogPin(u) ==
    /\ req[u].pc = "commit"
    /\ pins' = [pins EXCEPT ![req[u].cid] = Added(@, req[u].arg)]
    /\ req' = [req EXCEPT ![u] = Idle]
    /\ UNCHANGED <<factor, members, metric>>

(* LogPin returned an error instead. *)
LogPinFails(u) ==
    /\ req[u].pc = "commit"
    /\ req' = [req EXCEPT ![u] = Idle]
    /\ UNCHANGED <<factor, members, metric, pins>>

LogUnpin(u, h) ==
    /\ req[u] = Idle
    /\ pins' = [pins EXCEPT ![h] = Absent]
    /\ UNCHANGED <<factor, members, metric, req>>

-----------------------------------------------------------------------------
(* The surroundings: metrics arrive and expire, peers come and go.         *)

NewMetric(p, m) ==
    /\ m # metric[p]
    /\ m \in {None, NaN} => Faults
    /\ metric' = [metric EXCEPT ![p] = m]
    /\ UNCHANGED <<factor, members, pins, req>>

PeerJoinsOrLeaves(p) ==
    /\ PeerChange
    /\ members' = IF p \in members THEN members \ {p} ELSE members \cup {p}
    /\ members' # {}
    /\ UNCHANGED <<factor, metric, pins, req>>

Init == /\ factor \in Factors
        /\ members = Peers
        /\ metric \in [Peers -> IF Faults THEN Metrics ELSE Values]
        /\ pins = [h \in Cids |-> Absent]
        /\ req = [u \in Users |-> Idle]

Next == \/ \E u \in Users, h \in Cids :
              PinEverywhere(u, h) \/ ReadState(u, h) \/ LogUnpin(u, h)
        \/ \E u \in Users :
              NoMetrics(u) \/ Decide(u) \/ LogPin(u) \/ LogPinFails(u)
        \/ \E p \in Peers : PeerJoinsOrLeaves(p)
        \/ \E p \in Peers, m \in Metrics : NewMetric(p, m)

Spec == Init /\ [][Next]_vars

-----------------------------------------------------------------------------
(* Properties.                                                             *)

(* Every variable has its type, where the entry of a Cid is one that       *)
(* Cluster.Pin can log: it names at most ReplicationFactor peers, however  *)
(* many pins of it ran concurrently (MapState.Add replaces, never merges). *)
TypeOK ==
    /\ factor \in Factors
    /\ members \in SUBSET Peers
    /\ metric \in [Peers -> Metrics]
    /\ pins \in [Cids -> {a \in CidArgs : a.Allocations = {}
                                     \/ Cardinality(a.Allocations) <= factor}]
    /\ \A u \in Users :
          \/ req[u] = Idle
          \/ /\ req[u].pc = "metrics"
             /\ req[u].cid \in Cids
             /\ {req[u].current, req[u].clusterPeers} \subseteq SUBSET Peers
          \/ req[u].pc = "commit" /\ req[u].cid \in Cids /\ req[u].arg \in CidArgs

(* Every pinned Cid has a peer that is to hold it: it is everywhere, or    *)
(* allocated to someone.  An empty allocation list would make the Cid      *)
(* Remote on every peer (isRemote in map_pin_tracker.go) and lose it.      *)
PinnedSomewhere ==
    \A h \in Cids : pins[h].pinned =>
        pins[h].Everywhere \/ pins[h].Allocations # {}

(* What allocate promises of a decision: as many new peers as are missing, *)
(* each a cluster peer with a usable metric that was not allocated before, *)
(* and no usable candidate left out that has fewer pins than one chosen.   *)
FewestPinsFirst ==
    [][\A u \in Users :
          req[u].pc = "metrics" /\ req'[u].pc = "commit" =>
            LET chosen == req'[u].arg.Allocations
                usable == {p \in req[u].clusterPeers \ req[u].current :
                              metric[p] \in Values}
                kept == {p \in req[u].clusterPeers \cap req[u].current :
                              metric[p] # None}
            IN /\ chosen \subseteq usable
               /\ Cardinality(chosen) + Cardinality(kept) = factor
               /\ \A p \in chosen, q \in usable \ chosen : metric[p] <= metric[q]]_vars

(* config.go on ReplicationFactor: "the number of copies we keep for each  *)
(* pin": the allocations of a pinned Cid are as many.                      *)
ReplicationKept ==
    \A h \in Cids : pins[h].pinned /\ ~pins[h].Everywhere =>
        Cardinality(pins[h].Allocations) = factor

=============================================================================
